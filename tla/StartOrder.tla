----------------------------- MODULE StartOrder -----------------------------
(***************************************************************************)
(* The start order of several units.  Every unit has a systemd-exec        *)
(* process of its own; the processes share nothing but what the service    *)
(* control manager (SCM) shows of each service and one registry value per  *)
(* service, run\LastRun.  Before a unit launches its main process its      *)
(* service thread polls the services named by After= until it has seen     *)
(* each of them stopped, and when the main process has ended it polls the  *)
(* dependencies the SCM lists, once a second, MaxPolls times at most       *)
(* (WaitForDependents).  What else the process does is SystemdExec's part; *)
(* here its threads have only the steps other units can see, each of them  *)
(* wherever SystemdExec has it, and a report reaches the SCM at once.      *)
(***************************************************************************)
EXTENDS Naturals, Sequences

CONSTANTS
  Units,    \* the registered services
  Configs,  \* what the unit files may say: functions from Units to Unit
  MaxPolls, \* the 500 polls after which WaitForDependents gives up
  (* per contents of the unit files: *)
  MaxBoot,  \* bound: the estimated boot time takes the values 0..MaxBoot
  Failing,  \* the services whose process meets failing calls: to the SCM,
            \* to CreateThread and to the registry
  Controlled \* the services that are sent controls

RestartActions == {"no", "always", "on_success", "on_failure"}

(* after: m_ServicesAfter, whose names need not be registered; depends:     *)
(* m_Dependencies, read from the service's configuration.                   *)
Unit == [after    : Seq(STRING),
         depends  : Seq(Units),
         restart  : RestartActions,
         execStart: BOOLEAN]

ASSUME ConstantsAssumption ==
  /\ Units \subseteq STRING
  /\ Configs \subseteq [Units -> Unit]
  /\ MaxPolls \in Nat \ {0} /\ MaxBoot \in [Configs -> Nat]
  /\ Failing \in [Configs -> SUBSET Units] /\ Controlled \in [Configs -> SUBSET Units]

VARIABLES
  config,       \* the unit files
  scm,          \* per unit: the state the SCM shows
  stopReported, \* per unit: SERVICE_STOPPED was reported, the process may leave
  main, thr, ctl,  \* per unit: ServiceMain, ServiceThread, the control dispatcher
  handle,       \* per unit: m_hServiceThread
  original,     \* per unit: dwOriginalState of Stop
  at,           \* per unit: index of the next name of the list it polls
  asleep,       \* per unit: in the Sleep(1000) after a poll
  polls,        \* per unit: count
  cut,          \* per unit, history: a call failed and ended the wait early
  lastRun,      \* per unit: run\LastRun, 0 when the value is missing
  bootTime,     \* wall clock minus uptime, as every process computes it
  seen          \* history: who has been in the state waited for during the wait

ctlVars  == <<ctl, original>>
waitVars == <<at, asleep, polls, cut>>
vars == <<config, scm, stopReported, main, thr, ctlVars, handle, waitVars,
          lastRun, bootTime, seen>>

States == {"STOPPED", "START_PENDING", "STOP_PENDING", "RUNNING",
           "CONTINUE_PENDING", "PAUSE_PENDING", "PAUSED"}
MainSteps == {"none", "onStart", "spawn", "assign", "started", "wait"}
ThreadSteps == {"none", "conditions", "after", "launch", "main", "depends",
                "catchSuccess", "catchFailure", "sleep", "leave", "ended", "dead"}
ControlSteps == {"idle", "onStop", "stopPost", "pausing", "continuing"}
Handles == {"NULL", "OPEN", "INVALID"}
Waits == {"after", "depends"}

ServiceList(u, wait) == IF wait = "after" THEN config[u].after ELSE config[u].depends

Init ==
  /\ config \in Configs
  /\ scm = [u \in Units |-> "STOPPED"]
  /\ stopReported = [u \in Units |-> FALSE]
  /\ main = [u \in Units |-> "none"] /\ thr = [u \in Units |-> "none"]
  /\ ctl = [u \in Units |-> "idle"] /\ original = [u \in Units |-> "STOPPED"]
  /\ handle = [u \in Units |-> "NULL"]
  /\ at = [u \in Units |-> 1] /\ asleep = [u \in Units |-> FALSE]
  /\ polls = [u \in Units |-> 0] /\ cut = [u \in Units |-> FALSE]
  /\ lastRun = [u \in Units |-> 0] /\ bootTime = 0
  /\ seen = [u \in Units |-> {}]

(* SetServiceStatus, which the SCM shows at once. *)
Report(u, s) ==
  /\ scm' = [scm EXCEPT ![u] = s]
  /\ stopReported' = [stopReported EXCEPT ![u] = @ \/ s = "STOPPED"]
Silent == UNCHANGED <<scm, stopReported>>

GoTo(u, step)      == thr' = [thr EXCEPT ![u] = step]
MainTo(u, step)    == main' = [main EXCEPT ![u] = step]
ControlTo(u, step) == ctl' = [ctl EXCEPT ![u] = step]

(* The variables of WaitForDependents start anew with every call. *)
NoPolls(u) ==
  /\ at' = [at EXCEPT ![u] = 1] /\ asleep' = [asleep EXCEPT ![u] = FALSE]
  /\ polls' = [polls EXCEPT ![u] = 0] /\ cut' = [cut EXCEPT ![u] = FALSE]

-----------------------------------------------------------------------------
(* ServiceMain and the life of the process *)

(* The SCM starts a service when every service it depends on is running.   *)
StartService(u) ==
  /\ main[u] = "none"
  /\ \A i \in DOMAIN config[u].depends : scm[config[u].depends[i]] = "RUNNING"
  /\ MainTo(u, "onStart")
  /\ scm' = [scm EXCEPT ![u] = "START_PENDING"]
  /\ UNCHANGED <<stopReported, thr, ctlVars, handle, waitVars, lastRun>>

(* RUNNING is reported before there is a thread; without the registry there *)
(* will be none.                                                            *)
OnStart(u) ==
  /\ main[u] = "onStart"
  /\ \/ u \in Failing[config] /\ MainTo(u, "started") /\ Silent
     \/ MainTo(u, "spawn") /\ Report(u, "RUNNING")
  /\ UNCHANGED <<thr, ctlVars, handle, waitVars, lastRun>>

(* CreateThread, whose result is stored only afterwards (OnStartAssign). *)
OnStartSpawn(u) ==
  /\ main[u] = "spawn"
  /\ \/ handle[u] # "NULL" /\ MainTo(u, "started") /\ Silent /\ UNCHANGED thr
     \/ handle[u] = "NULL" /\ MainTo(u, "assign") /\ GoTo(u, "conditions") /\ Silent
     \/ /\ handle[u] = "NULL" /\ u \in Failing[config]
        /\ MainTo(u, "wait") /\ Report(u, "STOPPED") /\ UNCHANGED thr
  /\ UNCHANGED <<ctlVars, handle, waitVars, lastRun>>

OnStartAssign(u) ==
  /\ main[u] = "assign"
  /\ handle' = [handle EXCEPT ![u] = "OPEN"] /\ MainTo(u, "started")
  /\ Silent /\ UNCHANGED <<thr, ctlVars, waitVars, lastRun>>

StartEnd(u) ==
  /\ main[u] = "started"
  /\ MainTo(u, "wait") /\ Report(u, "RUNNING")
  /\ UNCHANGED <<thr, ctlVars, handle, waitVars, lastRun>>

(* Once SERVICE_STOPPED is reported and no control is being handled the     *)
(* dispatcher returns and the process leaves, wherever its threads are.     *)
ProcessExit(u) ==
  /\ main[u] # "none" /\ ctl[u] = "idle" /\ stopReported[u]
  /\ MainTo(u, "none") /\ GoTo(u, "none")
  /\ scm' = [scm EXCEPT ![u] = "STOPPED"]
  /\ stopReported' = [stopReported EXCEPT ![u] = FALSE]
  /\ handle' = [handle EXCEPT ![u] = "NULL"]
  /\ NoPolls(u) /\ UNCHANGED <<ctlVars, lastRun>>

-----------------------------------------------------------------------------
(* The control dispatcher *)

(* The SCM forwards a control only in these states, one at a time, and none *)
(* once the wrapper has reported SERVICE_STOPPED.                           *)
Accepts(u) ==
  /\ u \in Controlled[config] /\ ctl[u] = "idle" /\ ~stopReported[u]
  /\ scm[u] \notin {"STOPPED", "START_PENDING", "STOP_PENDING"}

ControlOnly == UNCHANGED <<main, thr, handle, waitVars, lastRun>>

(* The SCM refuses a stop while a service that depends on this one is up. *)
StopBegin(u) ==
  /\ Accepts(u)
  /\ \A v \in Units : (\E i \in DOMAIN config[v].depends : config[v].depends[i] = u)
                         => scm[v] = "STOPPED"
  /\ ControlTo(u, "onStop") /\ original' = [original EXCEPT ![u] = scm[u]]
  /\ Report(u, "STOP_PENDING") /\ ControlOnly

(* OnStop as far as the end of the thread, which it ends wherever it is.    *)
(* The main process it killed before may not be the one that runs: see      *)
(* SystemdExec.  The wait for INVALID_HANDLE_VALUE, which an earlier stop   *)
(* left, does not return.                                                   *)
TerminateServiceThread(u) ==
  /\ ctl[u] = "onStop" /\ handle[u] # "INVALID"
  /\ ControlTo(u, "stopPost") /\ handle' = [handle EXCEPT ![u] = "INVALID"]
  /\ IF handle[u] = "OPEN" /\ thr[u] \notin {"none", "ended"}
       THEN GoTo(u, "dead") /\ NoPolls(u) ELSE UNCHANGED <<thr, waitVars>>
  /\ Silent /\ UNCHANGED <<main, original, lastRun>>

ReturnFromStop(u) ==
  /\ ControlTo(u, "idle") /\ original' = [original EXCEPT ![u] = "STOPPED"]
  /\ ControlOnly

StopEnd(u) == ctl[u] = "stopPost" /\ Report(u, "STOPPED") /\ ReturnFromStop(u)

(* A command of ExecStop or ExecStopPost that fails throws out of OnStop:   *)
(* the state the stop found is reported again, whatever has been ended.     *)
StopFails(u) ==
  /\ ctl[u] \in {"onStop", "stopPost"}
  /\ Report(u, original[u]) /\ ReturnFromStop(u)

PauseBegin(u) ==
  /\ Accepts(u) /\ Report(u, "PAUSE_PENDING") /\ ControlTo(u, "pausing")
  /\ ControlOnly /\ UNCHANGED original

PauseEnd(u) ==
  /\ ctl[u] = "pausing" /\ Report(u, "PAUSED") /\ ControlTo(u, "idle")
  /\ ControlOnly /\ UNCHANGED original

ContinueBegin(u) ==
  /\ Accepts(u) /\ Report(u, "CONTINUE_PENDING") /\ ControlTo(u, "continuing")
  /\ ControlOnly /\ UNCHANGED original

ContinueEnd(u) ==
  /\ ctl[u] = "continuing" /\ Report(u, "RUNNING") /\ ControlTo(u, "idle")
  /\ ControlOnly /\ UNCHANGED original

(* OnShutdown is empty: no thread and no process is stopped. *)
Shutdown(u) ==
  /\ Accepts(u) /\ Report(u, "STOPPED")
  /\ ControlOnly /\ UNCHANGED ctlVars

Control(u) ==
  \/ StopBegin(u) \/ TerminateServiceThread(u) \/ StopEnd(u) \/ StopFails(u)
  \/ PauseBegin(u) \/ PauseEnd(u) \/ ContinueBegin(u) \/ ContinueEnd(u) \/ Shutdown(u)

-----------------------------------------------------------------------------
(* WaitForDependents *)

(* Only the wait for m_ServicesAfter is preceded by START_PENDING. *)
BeginWait(u, wait) ==
  /\ GoTo(u, wait)
  /\ IF wait = "after" THEN Report(u, "START_PENDING") ELSE Silent
  /\ NoPolls(u)

(* The state a wait asks for: checkifstopped is set for After= only. *)
Wanted(wait) == IF wait = "after" THEN "STOPPED" ELSE "RUNNING"

(* Mutants: only the boot times are compared; a starting service counts as  *)
(* one that is not up.                                                      *)
MustWaitForBoot(wait, s) == bootTime < lastRun[s]
MustWaitForRunning(wait, s) ==
  \/ wait = "after"   /\ scm[s] = "RUNNING"
  \/ wait = "depends" /\ scm[s] # "RUNNING"
  \/ bootTime < lastRun[s]

(* What keeps the poller waiting for service s: its state, or a last run    *)
(* that seems to lie after this boot.                                       *)
MustWait(wait, s) == scm[s] # Wanted(wait) \/ bootTime < lastRun[s]

(* What follows the wait: the result of the second one is ignored. *)
WaitReturns(u, result) ==
  /\ GoTo(u, IF thr[u] = "depends" THEN "catchSuccess"
             ELSE IF result THEN "launch" ELSE "catchFailure")
  /\ at' = [at EXCEPT ![u] = 1] /\ asleep' = [asleep EXCEPT ![u] = FALSE]

InWait(u) == thr[u] \in Waits
Polls(u) == InWait(u) /\ ~asleep[u]
Current(u) == ServiceList(u, thr[u])[at[u]]
InList(u) == Polls(u) /\ at[u] <= Len(ServiceList(u, thr[u]))
Rest(u) == UNCHANGED <<scm, stopReported, main, ctlVars, handle, lastRun>>

(* The end of the list: nobody keeps it waiting. *)
AllPassed(u) ==
  /\ Polls(u) /\ at[u] > Len(ServiceList(u, thr[u]))
  /\ WaitReturns(u, TRUE)
  /\ UNCHANGED <<polls, cut>> /\ Rest(u)

(* A call that fails ends the wait, the names from there on unseen. *)
WaitCut(u, result) ==
  /\ WaitReturns(u, result) /\ cut' = [cut EXCEPT ![u] = TRUE]
  /\ UNCHANGED polls /\ Rest(u)

(* OpenSCManager, once at the beginning. *)
ManagerFails(u) ==
  /\ u \in Failing[config] /\ Polls(u) /\ at[u] = 1 /\ polls[u] = 0
  /\ WaitCut(u, FALSE)

(* OpenService fails for a name that is no service, and for a service the   *)
(* wrapper may not open: the wait has then succeeded.                       *)
OpenServiceFails(u) ==
  /\ InList(u) /\ (u \in Failing[config] \/ Current(u) \notin Units)
  /\ WaitCut(u, TRUE)

QueryFails(u) ==
  /\ u \in Failing[config] /\ InList(u) /\ Current(u) \in Units
  /\ WaitCut(u, FALSE)

ServicePassed(u) ==
  /\ InList(u) /\ Current(u) \in Units /\ ~MustWait(thr[u], Current(u))
  /\ at' = [at EXCEPT ![u] = @ + 1]
  /\ UNCHANGED <<thr, asleep, polls, cut>> /\ Rest(u)

(* The first service that must be waited for ends this poll. *)
ServiceBlocks(u) ==
  /\ InList(u) /\ Current(u) \in Units /\ MustWait(thr[u], Current(u))
  /\ asleep' = [asleep EXCEPT ![u] = TRUE]
  /\ UNCHANGED <<thr, at, polls, cut>> /\ Rest(u)

(* Mutants: count is reset by every poll; one poll too many. *)
PollAgainForEver(u) ==
  /\ InWait(u) /\ asleep[u]
  /\ asleep' = [asleep EXCEPT ![u] = FALSE] /\ at' = [at EXCEPT ![u] = 1]
  /\ UNCHANGED <<thr, polls, cut>> /\ Rest(u)

PollOnceMore(u) ==
  /\ InWait(u) /\ asleep[u]
  /\ polls' = [polls EXCEPT ![u] = @ + 1]
  /\ \/ /\ polls[u] < MaxPolls
        /\ asleep' = [asleep EXCEPT ![u] = FALSE] /\ at' = [at EXCEPT ![u] = 1]
        /\ UNCHANGED thr
     \/ polls[u] >= MaxPolls /\ WaitReturns(u, TRUE)
  /\ UNCHANGED cut /\ Rest(u)

(* After the sleep: another poll from the first name, or, after the last    *)
(* one, the return value TRUE of a wait that saw everybody.                 *)
PollAgain(u) ==
  /\ InWait(u) /\ asleep[u]
  /\ polls' = [polls EXCEPT ![u] = @ + 1]
  /\ \/ /\ polls[u] + 1 < MaxPolls
        /\ asleep' = [asleep EXCEPT ![u] = FALSE] /\ at' = [at EXCEPT ![u] = 1]
        /\ UNCHANGED thr
     \/ polls[u] + 1 >= MaxPolls /\ WaitReturns(u, TRUE)
  /\ UNCHANGED cut /\ Rest(u)

WaitForDependents(u) ==
  \/ AllPassed(u) \/ ManagerFails(u) \/ OpenServiceFails(u) \/ QueryFails(u)
  \/ ServicePassed(u) \/ ServiceBlocks(u) \/ PollAgain(u)

-----------------------------------------------------------------------------
(* ServiceThread around the two waits *)

CheckConditions(u) ==
  /\ thr[u] = "conditions"
  /\ \/ BeginWait(u, "after")
     \/ Report(u, "STOPPED") /\ GoTo(u, "catchSuccess") /\ UNCHANGED waitVars
     \/ GoTo(u, "catchFailure") /\ Silent /\ UNCHANGED waitVars
  /\ UNCHANGED <<main, ctlVars, handle, lastRun>>

(* Environment files, ExecStartPre and ExecStart. *)
Launch(u) ==
  /\ thr[u] = "launch"
  /\ \/ config[u].execStart /\ GoTo(u, "main") /\ Report(u, "RUNNING") /\ UNCHANGED waitVars
     \/ ~config[u].execStart /\ BeginWait(u, "depends")
     \/ GoTo(u, "catchFailure") /\ Silent /\ UNCHANGED waitVars
  /\ UNCHANGED <<main, ctlVars, handle, lastRun>>

(* The main process ends, well (DeregisterMainPID writes LastRun) or not. *)
MainEnds(u) ==
  /\ thr[u] = "main"
  /\ \/ lastRun' = [lastRun EXCEPT ![u] = bootTime] /\ BeginWait(u, "depends")
     \/ GoTo(u, "catchFailure") /\ Silent /\ UNCHANGED <<waitVars, lastRun>>
  /\ UNCHANGED <<main, ctlVars, handle>>

MayRestart(restart, caught) ==
  \/ restart = "always"
  \/ restart = "on_success" /\ caught = "catchSuccess"
  \/ restart = "on_failure" /\ caught = "catchFailure"

CatchRestartException(u) ==
  /\ thr[u] \in {"catchSuccess", "catchFailure"}
  /\ Report(u, "PAUSED")
  /\ GoTo(u, IF MayRestart(config[u].restart, thr[u]) THEN "sleep" ELSE "leave")
  /\ NoPolls(u) /\ UNCHANGED <<main, ctlVars, handle, lastRun>>

RestartSleep(u) ==
  /\ thr[u] = "sleep" /\ GoTo(u, "conditions")
  /\ Silent /\ UNCHANGED <<main, ctlVars, handle, waitVars, lastRun>>

ServiceThreadExit(u) ==
  /\ thr[u] = "leave" /\ GoTo(u, "ended")
  /\ Report(u, "STOPPED")
  /\ UNCHANGED <<main, ctlVars, handle, waitVars, lastRun>>

-----------------------------------------------------------------------------
(* The time service corrects the clock; the machine restarts.  Registry     *)
(* values survive both, the uptime survives the first only.                 *)
AdjustClock ==
  /\ bootTime' \in {bootTime - 1, bootTime + 1} \cap 0..MaxBoot[config]
  /\ UNCHANGED <<scm, stopReported, main, thr, ctlVars, handle, waitVars, lastRun>>

Reboot ==
  /\ bootTime < MaxBoot[config] /\ bootTime' = bootTime + 1
  /\ scm' = [u \in Units |-> "STOPPED"]
  /\ stopReported' = [u \in Units |-> FALSE]
  /\ main' = [u \in Units |-> "none"] /\ thr' = [u \in Units |-> "none"]
  /\ ctl' = [u \in Units |-> "idle"] /\ original' = [u \in Units |-> "STOPPED"]
  /\ handle' = [u \in Units |-> "NULL"]
  /\ at' = [u \in Units |-> 1] /\ asleep' = [u \in Units |-> FALSE]
  /\ polls' = [u \in Units |-> 0] /\ cut' = [u \in Units |-> FALSE]
  /\ UNCHANGED lastRun

ServiceThread(u) ==
  \/ WaitForDependents(u) \/ CheckConditions(u) \/ Launch(u) \/ MainEnds(u)
  \/ CatchRestartException(u) \/ RestartSleep(u) \/ ServiceThreadExit(u)

Process(u) ==
  \/ ServiceThread(u)
  \/ StartService(u) \/ OnStart(u) \/ OnStartSpawn(u) \/ OnStartAssign(u)
  \/ StartEnd(u) \/ ProcessExit(u)
  \/ Control(u)

(* Who shows the state a wait asks for, now and since the wait began. *)
Observe ==
  seen' = [u \in Units |->
             IF thr'[u] \notin Waits THEN {}
             ELSE {v \in Units : scm'[v] = Wanted(thr'[u])}
                    \cup (IF thr'[u] = thr[u] THEN seen[u] ELSE {})]

Next ==
  /\ UNCHANGED config
  /\ \/ (\E u \in Units : Process(u)) /\ UNCHANGED bootTime
     \/ AdjustClock
     \/ Reboot
  /\ Observe

Spec == Init /\ [][Next]_vars

(* A thread that can run runs: no step of the wait is waited for by others. *)
Fairness == \A u \in Units :
  WF_vars(WaitForDependents(u) /\ UNCHANGED <<config, bootTime>> /\ Observe)
FairSpec == Spec /\ Fairness

-----------------------------------------------------------------------------
(* Properties *)

(* Type invariant: the states and steps the code has, positions within the  *)
(* list polled, no more polls than the loop allows.                         *)
TypeOK ==
  /\ config \in Configs
  /\ scm \in [Units -> States] /\ stopReported \in [Units -> BOOLEAN]
  /\ main \in [Units -> MainSteps] /\ thr \in [Units -> ThreadSteps]
  /\ ctl \in [Units -> ControlSteps] /\ original \in [Units -> States]
  /\ handle \in [Units -> Handles]
  /\ at \in [Units -> Nat \ {0}] /\ asleep \in [Units -> BOOLEAN]
  /\ polls \in [Units -> 0..MaxPolls] /\ cut \in [Units -> BOOLEAN]
  /\ lastRun \in [Units -> 0..MaxBoot[config]] /\ bootTime \in 0..MaxBoot[config]
  /\ seen \in [Units -> SUBSET Units]

Named(u, wait) == {ServiceList(u, wait)[i] : i \in DOMAIN ServiceList(u, wait)}
GaveUp(u) == polls[u] >= MaxPolls

(* WaitForDependents returns early (a call failed, that for a name that is  *)
(* no service among them), late (it gave up) or because its wait is over.   *)
(* In the third case every service of the list was in the state waited for  *)
(* at some moment of this wait: stopped for After=, running for the         *)
(* dependencies, whatever the services, the clock, the restarts and the     *)
(* stops of others did.                                                     *)
WaitSucceeds(u) ==
  \/ thr[u] = "after" /\ thr'[u] = "launch"
  \/ thr[u] = "depends" /\ thr'[u] = "catchSuccess"
WaitKeepsOrder ==
  [][\A u \in Units : WaitSucceeds(u) /\ ~GaveUp(u)' /\ ~cut'[u]
       => Named(u, thr[u]) \subseteq seen[u]]_vars

(* Of two units ordered After= each other never both look after a main      *)
(* process: each shows START_PENDING before it looks at the other.  Unless  *)
(* one of them gave up waiting, a call that failed cut its wait short, or   *)
(* its wrapper has reported SERVICE_STOPPED and is about to leave.  A main  *)
(* process that outlives its thread or its wrapper is not counted: that     *)
(* there are such is StopLeavesNoMain of SystemdExec.                       *)
Ordered(u, v) == v \in Named(u, "after")
Launched(u) ==
  thr[u] \in {"launch", "main"} /\ ~GaveUp(u) /\ ~cut[u] /\ ~stopReported[u]
MutualAfterExcludes ==
  \A u, v \in Units :
    u # v /\ Ordered(u, v) /\ Ordered(v, u) => ~(Launched(u) /\ Launched(v))

(* No wait lasts for ever, not even of units that wait for each other, for  *)
(* themselves, for a service that never stops or for a clock set back.      *)
WaitsEnd == \A u \in Units : InWait(u) ~> ~InWait(u)

-----------------------------------------------------------------------------
(* Strengthenings used by the proofs *)

(* Whoever waits has polls left. *)
PollsLeft == \A u \in Units : thr[u] \in Waits => polls[u] < MaxPolls

(* A unit in a wait has seen the services of the list it went past. *)
SeenInv ==
  \A u \in Units : thr[u] \in Waits =>
    \A i \in DOMAIN ServiceList(u, thr[u]) : i < at[u] => ServiceList(u, thr[u])[i] \in seen[u]

(* A thread is part of a process, and a process that shows STOPPED has      *)
(* reported it.                                                             *)
ShowsStart ==
  \A u \in Units :
    /\ thr[u] # "none" => main[u] # "none"
    /\ main[u] # "none" /\ scm[u] = "STOPPED" => stopReported[u]

Passed(u, v) ==
  \/ /\ thr[u] = "after" /\ ~stopReported[u]
     /\ \E i \in DOMAIN config[u].after : i < at[u] /\ config[u].after[i] = v
  \/ Launched(u)
ExclusionInv ==
  \A u, v \in Units :
    u # v /\ Ordered(u, v) /\ Ordered(v, u) => ~(Passed(u, v) /\ Passed(v, u))

(* The inductive invariant. *)
IInv == TypeOK /\ PollsLeft /\ SeenInv /\ ShowsStart /\ ExclusionInv

=============================================================================
