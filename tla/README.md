# Verification of systemctl-win

systemctl-win gives Windows machines of a DC/OS cluster the two halves of systemd they need:
`systemctl.exe`, which installs and controls units, and `systemd-exec.exe`, a wrapper that the Windows
service control manager (SCM) runs once per unit and that launches, watches, restarts and stops the unit's
process. Beside them stands service-wrapper, the older program that runs a plain executable as a service.
This directory holds TLA+ models of all three, the TLC configurations that check them on small
instances, and TLAPS proofs of their safety properties for every instance.

Line numbers refer to files under `src/systemctl-win/`, written X = `exec/service_exec.cpp`,
B = `exec/ServiceBase.cpp`, D = `exec/systemd-exec.cpp`, M = `src/main.cpp`, U = `src/service_unit.cpp`,
C = `src/service_control.cpp`, T = `src/timer_unit.cpp`, and to W = `src/service-wrapper/service-wrapper.cpp`.

## 1. Inventory

| component | state | operations | with whom |
|---|---|---|---|
| **systemd-exec wrapper** (X, B, D) | status, thread handle, process info, stop event, registry value `ExecStartPID`; all shared by three threads without a lock | ServiceMain/OnStart, the service thread's start-wait-restart loop, the controls Stop, Pause, Continue, Shutdown | SCM (controls, status), ExecStart process, helper commands, `systemctl kill` through the registry |
| **start order** (X 1778-1911) | count and position of the poll; registry value `LastRun` | WaitForDependents, before the launch and after the end of the main process | the other wrappers, through the SCM |
| **timer thread** (X 850-1067) | deadline, sleeps, the status it read of the unit it starts | TimerThread, OnStart and OnStop of a timer | SCM, the registry values RegisterService wrote (C 506-654) |
| **unit file readers** (U, T, D) | the attributes read so far | sections, lists, times, types; twice, once per program | unit pool; the wrapper's constructor |
| **conditions, environment** (D, X 324-640) | none | evaluate, expand | the wrapper's service thread |
| **systemctl commands** (M) | none that survives the process | start, stop, restart, reload, kill, enable, disable, mask, unmask, daemon-reload, queries | unit pool, SCM client |
| **unit pool** (U) | library directory, active directory, in memory the parsed units | LoadPool, ReloadPool, Enable (recursive), Disable, Mask, Unmask, Kill | SCM client, two directories |
| **SCM client** (C) | none | StartService, StopService, RestartService, RegisterService, UnregisterService | SCM |
| **journal streams, log** | open files | formatting | - |
| **service-wrapper** (W) | process handle, `m_IsStopping`, shared by three threads | OnStart, WaitForProcessThread, OnStop, Shutdown | SCM, child process and its children |
| **handles** | none | lists the handles of a process | - |
| **setup scripts** (PowerShell) | files, firewall | sequential installation | systemctl |
| **regression tests** (`tests/regress.ps1`) | - | - | quoted where they say what should happen |

What is hard in this code, and the properties aimed at it:

* *Three threads, no lock.* OnStop runs on the dispatcher's thread and reads the pid, handle and status that
  the service thread rewrites in each round; it ends that thread with TerminateThread. Properties:
  `LiveMainIsNamed`, `QuietStopKillsMain`, `QuietStopEnds`, `StopLeavesNoMain`.
* *Exceptions that decide.* The restart loop decides on the exception in flight, which ExecStartPost or a
  condition may have thrown instead of the main process. Properties: `KeepsRestartPolicy`,
  `NoRestartLaunchesOnce`, `MainIsRegistered`.
* *Status written, then reported.* `m_status` may be replaced by another thread between the two.
  Property: `FinishedUnitLeaves`.
* *Every systemctl is a fresh process.* Its view of the system is rebuilt from one of two directories, while
  the SCM keeps a third view; commands are sequences of steps that can stop anywhere. Properties:
  `RegisteredAsActive`, `EnableKeepsComplete`, `ActiveNeverOverwritten`.
* *Recursion over a user's graph.* Enable follows Requires= and Wants= with NULL entries in the pool, missing
  units and cycles. Properties: `ReadInv`, `CommandsEnd`, `EnableKeepsComplete`.
* *Deferred effects.* A stop is asynchronous and may be refused, a deletion waits for the process to go.
  Properties: `DisableUnregisters`, `RestartEnds`.

* *Wrappers that watch each other.* A unit starts after others by polling what the SCM shows of them, with
  nothing atomic between the look and the launch. Properties: `WaitKeepsOrder`, `MutualAfterExcludes`,
  `WaitsEnd`.
* *Deadlines in 32 bits.* The timer thread mixes signed and unsigned milliseconds, waits for a process and then
  tests what it read before. Properties: `NeverEarly`, `NeverLate`, `OneShotStartsOnce`, `ActiveTimerRecurs`,
  `TimerRecurs`.
* *Two readers of one file.* systemctl and systemd-exec parse the same file with different code; some loops
  of the parsers never move. Properties: `ListsInOrder`, `SpanIsSum`, `TimesAgree`, `TypesAgree`, `ReadEnds`.
* *A kill that wakes the watcher.* service-wrapper's monitor must tell a stop from a death, and closes the same
  handle as OnStop. Properties: `StopIsNoFailure`, `StoppedMeansKilled`, `ChildDeathSeen`.

`PROJECT.json` lists every hazard at its line with the properties that would notice it, and says why some
have none yet.

## 2. Modules

| module | content |
|---|---|
| `MainProcess` | what Restart= promises: one main process at a time, relaunched only after an outcome the policy allows |
| `SystemdExec` | one run of the wrapper; implements `MainProcess` |
| `SystemdExecProofs` | its invariants and the refinement, proved |
| `MCSystemdExec` | the unit files its runs use |
| `StartOrder` | several wrappers in WaitForDependents |
| `StartOrderProofs`, `MCStartOrder` | its invariants, proved; the unit files of its run |
| `TimerUnit` | the timer thread against a clock |
| `TimerUnitProofs`, `MCTimerUnit` | its invariants, proved; the timers of its runs |
| `TimeSpan` | the two readers of a time span, and what a time span means |
| `TimeSpanProofs` | what the readers compute for every text, proved |
| `UnitFile` | the readers of a unit file, on top of `TimeSpan` |
| `UnitFileProofs`, `MCUnitFile` | its invariants, proved; the files of its run |
| `ServiceWrapper` | service-wrapper |
| `ServiceWrapperProofs` | its invariants, proved |
| `UnitPool` | systemctl, the two directories and the SCM's services |
| `UnitPoolProofs` | its type, file and registration invariants, proved |
| `EnableProofs` | what the recursion of Enable leaves registered, proved |
| `MCUnitPool` | the unit libraries its runs use |

### SystemdExec

One behaviour is one process: from ServiceMain to the return of the dispatcher. `main`, `thr` and `ctl`
are the program counters of ServiceMain, the service thread and the control handler; an action is the code
between two points where another thread can make a difference.

* `SetServiceStatus` (B 574-593) is two steps, the write of `m_status` and the `Report` of whatever it is by
  then; a thread that is between them (`reporting`) does nothing else.
* OnStop (X 1333-1420) is split at the ExecStop commands, the ctrl-break (`AskNicely`, which may or may not
  end the process), the read of the pid, taskkill, the unlimited wait on the handle of that moment,
  TerminateThread, and each ExecStopPost. `target` is the pid, later the process, it works on.
* The service thread (X 1069-1302) is split at conditions, WaitForDependents, each ExecStartPre and
  ExecStartPost, CreateProcess, registration, the wait, deregistration and the sleep before the next round.
  `ex` is the exit code of the exception in flight, `MayRestart` the decision of X 1249-1292.
* Exit codes are Success and Failure. A list of commands is the list of their `-` prefixes. Whether
  conditions hold, the registry works (`RegistryFails`) or CreateProcess fails is chosen anew at each use.
* taskkill may fail without any trace (X 1330): `KillMain` then leaves the process alive, and `WaitKilled` waits
  for it without a limit. So `QuietStopEnds` says of a quiet stop that it ends or waits for a main process that
  survived taskkill; the wait at X 1394 is also why `QuietStopKillsMain` holds whatever taskkill does.
* External assumptions about Windows: no control is delivered in STOPPED, START_PENDING or STOP_PENDING; the
  dispatcher returns after SERVICE_STOPPED has been reported and the handler is idle, and then the process
  ends; a main process ends with success, failure or not at all.
* Left out: timer units (module TimerUnit), the polling inside WaitForDependents (module StartOrder),
  CreateProcess as more than one step, reuse of process ids, m_envBuf, `m_IsStopping` (its only reader,
  WaitForProcessThread, is never started).

### StartOrder

Each unit has its own wrapper with `main`, `thr` and `ctl` as in SystemdExec, reduced to the steps that change
what others see: `scm`, the status shown, and `lastRun`; each of them stands where SystemdExec has it, so that
a control may come before Start has returned, and a stop may find a thread whose handle is not stored yet. A
report is one step here. One poll of WaitForDependents (X 1789-1905) is one step per name of the list
(`ServicePassed`, `ServiceBlocks`, `OpenServiceFails`, `QueryFails`, `AllPassed`), so that others move between the
looks; `PollAgain` is the end of the Sleep(1000) and of the loop.

* `MustWait` is the test of X 1814-1898: the state asked for, and a LastRun that lies after the boot time. The
  code computes a boot time, wall clock minus uptime, for both sides; so the comparison is decided by
  corrections of the clock (`AdjustClock`) and by reboots. RegisterMainPID deletes `last_run` and
  DeregisterMainPID writes `LastRun` (X 66, 109): the value is never deleted, nor in the model.
* The wait after the main process polls the SCM's dependencies and its result is ignored (`WaitReturns`).
* The dispatcher's part is Stop, which reports STOP_PENDING, ends the thread wherever it is and reports STOPPED,
  or fails in a command and reports the state it found again (`StopFails`, B 350-368); Pause and Continue; and
  Shutdown, which reports STOPPED and ends nothing. OnStop's kill and wait are left to SystemdExec: here the thread
  may be ended at any moment, and what it was waiting for is not counted (below).
* What the code does, and what the model therefore contains: when OpenServiceW fails, for a name that is no
  service or for any other reason, the wait ends with success, the names after it unseen (X 1794-1799); when the
  service manager or a query fails it ends with failure (`cut` remembers both); after the last poll the wait
  returns TRUE; a unit that has never run is STOPPED and passes, although X 1126 says "ran and stopped". `seen` is
  a history of who has shown the state waited for since the wait began.
* `MutualAfterExcludes` is about threads past their wait. It does not say that two main processes are never up
  together: one that outlives its thread or its wrapper's STOPPED (`StopLeavesNoMain`, a shutdown) is not counted,
  and the unit behind it may be launched.

### TimerUnit

`timer` is what RegisterService puts into the registry (`Registered`, with on_unit_inactive_sec written
without the factor 1000, C 602). Time is the action `Tick`; `left` is what remains of a sleep or wait,
`deadline` of next_deadline, -1 when none is set. `BootSleepEnds` contains the DWORD subtraction that wraps
when OnBootSec= is the longer delay (X 961); `QueryStatus` reads the status that `WaitEnds` tests after the
wait (X 1022, 1040). `svc` and `proc` are the started service and the process whose handle is waited for: it
may have been restarted in between. The end of the thread reports SERVICE_STOP, a control code, as a status
(X 1065). Left out: the randomized delay, which the code reads and never uses, and registry values that an
earlier registration of the unit left behind.

### TimeSpan and UnitFile

A time span is a sequence of tokens with whole numbers, counted in microseconds (the code has milliseconds in a
double, and its least unit is a microsecond); `Round` and `Rounds` are the loop of ParseDuration (U 115-158) and of
string_duration_to_millis (D 156-203), which differ in one test, and `ReadWhole`, `ReadLeading`, `ReadNumber`
the three ways in which systemctl's attributes use it. `SumOf` and `WellFormed` say what a span means.

A behaviour of UnitFile is the reading of one file: `Open`, `SkipComment`, `EnterSection`, `InvalidHeading` and
`Finish` are the outer loop (U 268-337), `ReadLine` and `SectionAtEof` split_elems (U 340-397), the `Store`
actions the section parsers, `EndSection` the default type. A list's words are single blanks apart, so that
substr(start, end) is a subsequence (`Entry`). The invariant `IInv` says where the reader is: `AttrsInv` places the
attributes it still has to store in the file, `ListsUpTo`, `TimesUpTo`, `KeysInv` and `TypeBefore` say what the unit
holds of the lines before them. What systemd-exec makes of the file is the reference side: `WrapperAccepts` (boost's
store refuses a second value of an option that takes one), `WrapperType`, `WrapperReads` and `WrapperHolds`, the
conversion of the double to an int of milliseconds (D 89-95, 492-557): a fraction is lost, and what is beyond an
int is undefined; the x64 build, the only one of the project file, stores the least int. So `RestartSec=30days` is
a negative number there: `TimesAgree` speaks of the times that fit. `pc = "pushes"` and `"hangs"` are loops that do not move. What the
model shows of the parser besides its properties, by the states they exclude (`Tidy`, `ShortLists`):

* a comment before the first section skips the rest of the file; an empty first line ends it; an unknown heading
  is warned of for ever;
* from a list of three names the second entry holds two names; a second word of WantedBy=, RequiredBy= or
  Environment= is pushed for ever, and so is a character that ParseDuration does not know;
* a name that is indented, or has a blank before its '=', is ignored;
* `TimeoutStartSec=5min` is 5 s for systemctl, 5 min for systemd-exec; Restart= knows `on_failure` in the one
  (U 2759) and `on-failure` in the other (D 463); ExecStopPost= is stored with ExecStop= (U 3035); the wrapper takes
  an After= with several names for one name.

### ServiceWrapper

One behaviour is one process. `main` is ServiceMain, `ctl` the control handler, `mon` WaitForProcessThread;
`handle` and `valid` are m_hProcess and whether the handle is open, which OnStop (W 272-273) and the monitor
(W 180-181) both close and clear. Closing a closed handle is possible in the model and has no effect there.
KillProcessTree is two steps, the children of the snapshot and the process itself. Left out: pids reused
between snapshot and kill, a CreateThread that fails, Pause and Continue (never accepted by wmain). What the
model contains and no property forbids: a process started after the snapshot survives, the Ctrl-C path ends
the child alone, Shutdown reports STOPPED with the child alive.

### UnitPool

`library` and `active` are the two directories, as functions from names to definitions (Requires=, Wants=
and the names After= and Before= mention) or `NoFile`. `registered`, `deleting`, `dependsOn` and `state` are
the SCM's services. One invocation of systemctl is `request` (the command), `pool` (the snapshot of the
active directory that LoadPool takes), `todo` (the steps that main.cpp still has to call) and `frames` (the
calls of Enable in progress, innermost first; a frame's `phase` is how far that call has got).

* `Invoke` is the start of a process; `Steps` is the sequence of calls of each command, e.g. disable is
  StopService, Kill(9), Disable (M 831-833), reload is StopService, Disable, Mask, Unmask, Enable.
* Enable (U 1317-1420) is `EnableCopy`, then one `EnableRequired` per required unit the pool does not have,
  one `EnableWanted` per readable wanted unit, then `EnableRegister`; a failure unwinds through `Return`.
  FindUnit's operator[] leaves NULL entries for names that are only looked up, and the constructor's insert
  does not replace them: a unit that was not in the active directory is read again each time (`Read`), and
  the pool never grows.
* `Refresh`, `ReadLibrary`, `RegisterUnit` and `RegisterNull` are ReloadPool; a NULL unit that is only
  mentioned ends the process when register_unit dereferences it.
* `Signal` is systemctl kill, whose signal is not initialised without `--signal` (M 564).
* The SCM is external: a stop is refused unless the service is RUNNING and its dependents are stopped; a
  start first starts dependencies; CreateService fails for taken names and circular dependencies;
  DeleteService of a service that has not stopped marks it, and the entry goes when it stops; at boot,
  registered services with a file are started after their dependencies. State `EXITED` is a process that is
  gone while the SCM still shows RUNNING.
* `ServiceStep` moves services by themselves, `EditLibrary` replaces the library between commands,
  `ClientDies` ends systemctl in the middle of a command, `Reboot` restarts the machine.
* Left out: `.wants` and `.requires` directories and RequiredBy= (more entries of the same two lists), timer
  units, the copy to the active directory in more than one step (U 223-225 creates, writes and closes the file
  and ignores the result, so that an interruption inside it leaves a part of a file, which is never replaced),
  several units on one command line, the logon-privilege retry (a unit with a user account), PAUSED
  (systemctl has no pause), unit files that do not parse, commands that only print.

## 3. What the runs show

Runs marked with a cross are expected to fail: they check a sentence of the documentation or the tests that
the code does not keep, and TLC's counterexample is the evidence.

| run | instance | result |
|---|---|---|
| `exec_restart` | Restart=always, on-success, on-failure; 2 launches | `LiveMainIsNamed`, `MainIsRegistered`, `KeepsRestartPolicy` (refinement of `MainProcess`); 1.1 million states |
| `exec_once` | Restart=no with ExecStop and two ExecStopPost, units without ExecStart; registry and taskkill may fail; fair threads | `TypeOK`, `IInv`, `NoRestartLaunchesOnce`, `QuietStopKillsMain`, `QuietStopEnds`, `FinishedUnitLeaves`; 575 000 states |
| ✗ `exec_stop_leaves_main` | Restart=always | a stop succeeds and a main process launched meanwhile lives on (`StopLeavesNoMain`) |
| `start_order` | two units, four sets of unit files (one with controls, one with a clock, two with failing calls), 2 polls, fair waits | `TypeOK`, `IInv`, `MutualAfterExcludes`, `WaitKeepsOrder`, `WaitsEnd`; 198 000 states |
| `timer` | five timers, 16-valued DWORD, seconds of 3 ms, fair clock | `TypeOK`, `IInv`, `NeverEarly`, `NeverLate`, `OneShotStartsOnce`, `ActiveTimerRecurs`; 3 500 states |
| ✗ `timer_recurs` | OnUnitInactiveSec= alone | a service that was up when its status was read is never started again (`TimerRecurs`) |
| `unit_file` | every file of 3 lines from 10, every section of 3 attributes, every span of 4 tokens from 9, an int of 200 000 | `IInv`, `ListsInOrder`, `SpanIsSum`, `TimesAgree`, `TypesAgree`, `ReadEnds`; 94 000 states |
| `service_wrapper` | all options, kills that fail, fair threads | `TypeOK`, `IInv`, `StopIsNoFailure`, `StoppedMeansKilled`, `ChildDeathSeen`, `StopEnds`; 6 100 states |
| `pool_enable` | three units, four libraries, interrupts and reboots; no mask, no reload | `RegisteredAsActive`, `CompleteInv`, `EnableKeepsComplete`; 373 000 states |
| `pool_commands` | two units, two libraries, all ten commands, fair | `TypeOK`, `ReadInv`, `ActiveNeverOverwritten`, `DisableUnregisters`, `CommandsEnd`; 76 000 states |
| ✗ `pool_enable_required` | two units | a required unit that was disabled stays unregistered (`EnableRegistersRequired`) |
| ✗ `pool_restart_ends` | two units, fair | restart of a service with a running dependent polls for ever (`RestartEnds`) |

"Quiet" in the exec properties is a stop that found the unit up and the thread waiting. Of the other stops the
model contains more than the run `exec_stop_leaves_main` shows: one that races a relaunch waits without a
limit for the new main process, which nobody asked to end (X 1394), and one whose ExecStopPost fails restores
the status RUNNING with neither process nor thread behind it (B 366).

`RegisteredAsActive` is a statement about the commands enable, disable, start, stop, restart, kill and unmask.
It fails at once with `mask`, which removes the file and not the service although its comment (U 1664-1666) and
`tests/regress.ps1:212-214` say otherwise; with `reload`, which replaces the file and enables the unit parsed
from the old one (M 389); and with `daemon-reload`, which registers units of the library that were never
enabled and so have no active file. `EnableKeepsComplete` says what is left of "enable enables the
dependencies" when the units that are already active are registered; it holds with interruptions, missing
units and cycles. A finding from the model that needs no run of its own: `unmask` looks its unit up in a pool
made from the active directory, so a masked unit is never found (its action still occurs, for an active unit).

### Bounds

* `MaxLaunch = 2`: after the second launch CreateProcess fails. Two rounds show every interaction between a
  stop and a relaunch, since a round keeps nothing of the one before but pid, handle, `code` and the registry.
  Units with Restart=no launch once (proved: `NoRestartOnce`).
* Command lists have zero, one or two entries: first, next and last command, ignored and counted failures.
* Three units in `pool_enable` allow a chain, a requirement shared with a wish, a missing unit at the end of a
  chain and a cycle; each edition can replace each other between commands. Two units in `pool_commands`, where
  liveness makes every state expensive.
* `MaxDepth` is the depth at which the stack of Enable is full: the process dies. It is never reached without
  a cycle when it exceeds the number of names, so it bounds the cyclic libraries only.
* `MaxPolls = 2` (500 in the code) has a first poll, a repeated one and the give-up; `MaxBoot = 1` a boot time
  before and after the one of the last run, moved by reboots and clock corrections both ways. `Failing` are the
  units whose process meets failing calls, `Controlled` those that are sent controls: one of two each, because the
  other unit only sees the outcome. The three are chosen for each set of unit files: one meets the clock, one the
  controls, two the failing calls, since all of them at once are too many states. Two
  units suffice for properties that relate a unit to a unit; the proofs cover any number of units, of them failing
  and controlled, and any clock.
* In `timer` a second has 3 ms and a DWORD 16 values, so that the delay of one file wraps and sleeps of accuracy
  0, shorter and longer than the interval occur; `MaxTime` (two DWORDs) caps the history only, `MaxRetries` the
  failed queries of one round.
* `unit_file` takes all files up to 3 lines over headings, attributes, comments, blank lines and garbage, with
  and without a last newline, alone and after a heading: each rule of the reader looks at one line and the next.
  Time spans have up to 4 tokens for RestartSec (number, unit, number, unit), up to 2 for the others. `MaxInt` is
  200 000 ms there (2^31 - 1 in the program; TLC's own numbers end there), so that 2 minutes fit an int and 5 do
  not; the proofs cover any.
* `ServiceWrapper` is finite as it is; `KillMayFail` is TRUE.
* `exec_*`, `start_order`, `timer*`, `unit_file` and `service_wrapper` do not check deadlock: a wrapper that has
  ended or waits for a control, a timer that has ended and a file that is read legitimately stop. The `pool_*`
  runs do check it.

### Fairness

`SystemdExec!Fairness`: weak fairness of ServiceMain, the service thread and the control handler (Windows
schedules threads that can run), of `ProcessExit`, and of the helper commands' ends, because the promise is
about a stop whose commands end. None on the end of a main process nor on the SCM sending a control.

`StartOrder!Fairness`: weak fairness of each unit's WaitForDependents, whose sleeps have a limit; none on
starts, stops, ends of main processes, the clock. A wait whose calls to the SCM never return is not modelled.

`TimerUnit!FairSpec`: weak fairness of the timer thread and of `Tick` (time passes); none on the service.

`UnitFile!Spec`: weak fairness of the reader, which runs alone.

`ServiceWrapper!FairSpec`: weak fairness of the three threads, of the return of the dispatcher and of
`ChildDies` (a process that was terminated goes); a living child need not end. The wait for a console program to
end has a limit: `StopEnds` assumes that it is not given as -1, which the command line accepts
(Program.cpp 106-107) and Windows takes for INFINITE.

`UnitPool!Fairness`: weak fairness of `ClientStep` (systemctl runs when it can; its only wait is the poll of
RestartService, which is disabled while the service shows RUNNING) and of `Notice` (the SCM sees that a
process has ended). None on services stopping, coming up or crashing, nor on commands being given.

## 4. What is proved

TLAPS checks the following for all values of the constants; the only assumption is each module's
assumption on the types of its constants, which TLC evaluates on every run.

**SystemdExecProofs.** `TypeCorrect`, `LiveMainNamed`, `MainRegistered`, `NoRestartOnce`, `QuietStopKills`,
`RestartPolicyKept`. All follow from `Inductive`: `IInv` is preserved by every action. `LiveMainIsNamed` is
not inductive alone, because nothing in it stops a thread that is about to launch while a process lives:
`MainInv` adds that no process lives outside the round's own steps, `ThreadInv` that there is only one service
thread and that its handle is stored when a stop can use it, `OnceInv` and `PolicyInv` which outcomes a
thread on its way to a launch may have behind it, `CommandInv` that the thread runs commands its lists have,
`QuietInv` that nothing can launch under a quiet stop. `RestartPolicyKept` then maps every step to a Launch,
an End or a stutter of `MainProcess`.

**StartOrderProofs.** `TypeCorrect`, `KeepsOrder`, `Exclusion`, from `Inductive`. `SeenInv` carries the
order: whatever list position a poll has reached, each service before it has been in the state waited for
since the wait began, although it may have left it since. `ShowsStart` carries the exclusion: a unit with a
process shows STOPPED only after its wrapper has reported it, and `BeginWait` shows START_PENDING before the first
look, so that of two units that look at each other the second to look is kept waiting (`ExclusionInv`, on list
positions). What the theorems leave out is what the code does there: waits that gave up or that a failing call
cut short, wrappers that have reported STOPPED and still have a thread. Any number of units, names and polls,
with controls and failures at any time.

**TimerUnitProofs.** `TypeCorrect`, `Punctual`, `Timely`, `OneShot`, from `Inductive`: `FirstInv` adds the
elapsed time and the rest of the sleep up to the first delay, `EarlyInv` says that a round that is repeated has
a deadline, and one that is not too early, `LateInv` where the time of a round goes at each step, `OnceInv` that
a timer without interval never sets a deadline. Any DWORD width, second and accuracy.

**ServiceWrapperProofs.** `TypeCorrect`, `NoFalseFailure`, `StopKills`, from `Inductive`: until OnStop gives the
handle up, a child that lives has its handle open and in m_hProcess, because the monitor is still before the
end of its wait; and a stop that found the child alive has set m_IsStopping before anything can wake the
monitor.

**UnitPoolProofs.** `TypeCorrect` and `EnabledUnitsRead` are proved together (`TypeAndRead`): a frame of
Enable has a definition only because NULL units never get into the list of wanted units nor into `todo`,
which is `ReadInv`. The lemmas `GoOnKeeps`, `TurnKeeps`, `RecurseKeeps` and `ReturnKeeps` say what each way of
going on keeps, and every action is one of them with an effect. `ScmTypeOK` includes that a service marked
for deletion has not stopped: the SCM would have removed it. `NeverOverwritten` needs the types only.
`CarefulCommandsKeep` and `RegisteredCorrect`, under `Commands \subseteq CarefulCommands`, need that Enable registers from the
definition that is in the active directory at that time, several steps and calls after it was read:
`FrameInv` says so of each call in progress, `PoolInv` that the pool agrees with the active directory except
for files this command has copied, `TodoInv` that no step is left that removes a file. A failed call
is allowed to be out of date, because it registers nothing any more.

**EnableProofs.** `EnableCompletes`, an action property under `Commands \subseteq CarefulCommands`: an enable that ends with its
unit registered leaves registered all that the unit requires, directly or through others, provided that every
unit of the pool, which was active when the command began, is registered (units it only wants are not promised); for any library, any depth of the recursion, cycles and interruptions. It follows from
`EnableInductive` (`CompleteInv`), which adds to `CarefulInv` what the calls in progress have achieved. `Failing` is
the least set that has the units without a file and those that require one of its units which the pool lacks
(`FailingCloses`, `FailingOpens`): a call fails only for a unit in it, so that what a call has passed is provided (in
the pool or registered) or failing, and what it is at is the unit of the call inside it (`CallsInv`). RegisterService
must not refuse in between: a unit that is neither provided nor failing cannot be needed by what is registered,
so the SCM never sees a circle (`NotCircular`).

**TimeSpanProofs.** `WellFormedIsSum`, `AcceptedIsRead`, `OneNumberIsRead`, for texts of any length. Induction over
data is done without an operator as a parameter: `LeastElement` (a non-empty set of numbers has a least one) is
applied to the set of the places where a claim fails, `RecursiveFunction` gives the existence of a function
from each place on, `UpToFunction` of one up to each place. `LoopAdds` then says that from the beginning of a
number the loop returns the rest of the sum, and `LoopsAgree` that on an accepted text the loop on the whole text
and the loop on the trimmed one go from round to round together, the blanks behind the last round being a round
without a number (which systemctl's loop accepts and systemd-exec's never meets). `ReadersRead` says that reading a
text again changes no time: it is what lets an invariant speak of a stored time without its history.

**UnitFileProofs.** `Ordered`, `Summed`, `TimesAlike`, `TypesAlike`, from `Inductive` (`IInv`), for files of any
length, under the conditions the properties state: `TimesAlike` for tidy files without TimeoutSec= that
systemd-exec accepts, for an accepted RestartSec or another time written as one number, as long as the time fits
an int; `TypesAlike` for tidy files that systemd-exec accepts, with one [Service] section (not on an unended last
line), a known Type if any, and no BusName that has neither Type nor ExecStart beside it. An attribute is stored long after its line is read, and the line that ended its section has been read by
then: `AttributeAt` says that the next attribute to store stands on a line K of the file, that what the file says on
it is what is stored, and that no line since the last stored one says anything; `Effects` says what each of the
twelve ways to store an attribute does to lists, times and type, and `ListsGrow`, `TimesGrow`, `KeysGrow` carry the
invariant from the last line to K. `EndSectionKeeps` contains the argument about the default type: the keys seen in the
only [Service] section are all the keys the file has, because nothing but a heading or the end of the file ends a
section of a tidy file (`ServiceStored`). The assumptions on the constants are that the files are sequences of lines and the greatest int a number.
The proof of `Summed` found that `SpanIsSum` was too wide: a time of [Timer] in a [Service] section is not read.

Only model-checked: the liveness properties (`QuietStopEnds`, `FinishedUnitLeaves`, `WaitsEnd`,
`ActiveTimerRecurs`, `ReadEnds`, `ChildDeathSeen`, `StopEnds`, `DisableUnregisters`, `CommandsEnd`: fairness and
ENABLED are out of the prover's reach), and the violations. Every invariant and every refinement that a passing
run checks is proved.

## 5. Not modelled, and the plan

Not modelled:

* journal streams and log (formatting), handles (output), the setup scripts (sequential installation);
* conditions, shells, escaping and environment files of systemd-exec: functions of files and text whose outcome
  SystemdExec takes as an input; the environment files of service-wrapper, read before the service exists;
* the attributes of a unit file that are stored as text (commands, user, output files, descriptions), lines
  longer than MAX_BUFFER_SIZE, memory that runs out in a loop that pushes for ever;
* SystemDTimer's own Enable, Disable, Mask and Unmask (T 213-362), which repeat SystemDUnit's on the timer's
  file; `.wants` and `.requires` directories; queries of systemctl;
* the logon-privilege retry of StartService, failures of OpenSCManager in systemctl; reuse of process ids;
  TerminateThread inside CreateProcess, which depends on the C runtime.

Left of the plan, in this order:

1. **ServiceSystem**: SystemdExec's abstraction in the place of UnitPool's `Moves`, so that systemctl's
   restart, disable and kill meet the wrapper's real states.
2. **Proofs**: of the action properties that a run checks without fairness, for the parts that plan adds.

## 6. Running

    tlc -workers 2 -config pool_enable.cfg MCUnitPool.tla
    tlc -workers 2 -config exec_restart.cfg MCSystemdExec.tla
    tlc -workers 2 -config start_order.cfg MCStartOrder.tla
    tlc -workers 2 -config timer.cfg MCTimerUnit.tla
    tlc -workers 2 -config unit_file.cfg MCUnitFile.tla
    tlc -workers 2 -config service_wrapper.cfg ServiceWrapper.tla
    tlapm SystemdExecProofs.tla        (and the other modules named ...Proofs)

Each run takes about a minute at most on two cores; a proof
takes about a minute. Every definition marked "Mutant" is a plausible mistake in the code next to which it
stands; `PROJECT.json` says which property notices it.
