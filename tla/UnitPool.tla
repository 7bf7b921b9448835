------------------------------ MODULE UnitPool ------------------------------
(***************************************************************************)
(* systemctl.exe and what it keeps of the units: the files of the library  *)
(* (etc/systemd/system) and of the active directory (etc/systemd/active),  *)
(* and the services of the Windows service control manager (SCM).          *)
(*                                                                         *)
(* Every invocation is a process of its own that reads the active          *)
(* directory into a pool of units, performs one command on it step by step *)
(* and ends: the files and the SCM are all that two commands share.        *)
(* Services change state by themselves between the steps.                  *)
(***************************************************************************)
EXTENDS Naturals, Sequences

CONSTANTS
  Names,       \* names of units
  Order,       \* the alphabetical order of the names, a sequence
  Editions,    \* the contents the library may have, one after the other
  NoFile,      \* there is no such file; also a NULL unit of the pool
  NoUnit,      \* the name in the request of a command without a unit
  Commands,    \* the commands that are given
  Interrupts,  \* whether systemctl or the machine may go down during a command
  MaxDepth     \* bound: depth of Enable's recursion at which the stack is full

(* What systemctl reads of a unit file: Requires=, Wants=, and the units    *)
(* that After= and Before= mention.                                         *)
Definitions == UNION {{edition[n] : n \in Names} : edition \in Editions} \ {NoFile}

(* The steps of each command, in the order main.cpp calls them.             *)
Steps ==
  [start   |-> <<"start">>,
   stop    |-> <<"stop">>,
   restart |-> <<"stop", "waitForStop", "start">>,
   kill    |-> <<"signal">>,
   enable  |-> <<"enable">>,
   disable |-> <<"stop", "kill", "disable">>,
   mask    |-> <<"mask">>,
   unmask  |-> <<"unmask">>,
   reload  |-> <<"stop", "disable", "mask", "unmask", "enable">>]

ASSUME ConstantsAssumption ==
  /\ Order \in Seq(Names) /\ NoUnit \notin Names /\ NoFile \notin Definitions
  /\ Editions \subseteq [Names -> Definitions \cup {NoFile}]
  /\ \A d \in Definitions : d.requires \cup d.wants \cup d.mentions \subseteq Names
  /\ Commands \subseteq DOMAIN Steps \cup {"daemonReload"}
  /\ Interrupts \in BOOLEAN /\ MaxDepth \in Nat \ {0}

VARIABLES
  library, active,  \* the unit files of the two directories
  registered,       \* services the SCM knows
  deleting,         \* those of them marked for deletion
  dependsOn,        \* their dependencies as given to CreateService
  state,            \* their state as the SCM shows it
  request,          \* the command in progress and its unit
  pool,             \* the_pool: the units this invocation has read
  todo,             \* the steps left of the command, each with its unit
  frames            \* the calls of Enable in progress, the innermost first

files  == <<library, active>>
scm    == <<registered, deleting, dependsOn, state>>
client == <<request, pool, todo, frames>>
vars   == <<files, scm, client>>

(* EXITED: the wrapper's process is gone and the SCM still shows the last   *)
(* state it reported, RUNNING.                                              *)
States == {"STOPPED", "START_PENDING", "RUNNING", "STOP_PENDING", "EXITED"}
Phases == {"copy", "requires", "wants", "register", "failed"}
StepNames == {"start", "stop", "waitForStop", "signal", "kill", "enable", "disable",
              "mask", "unmask", "refresh", "readLibrary", "register"}
Frames == [unit: Names, definition: Definitions, phase: Phases, left: SUBSET Names]
Requests == [command: Commands \cup {"none", "died"}, unit: Names \cup {NoUnit}]

NoPool == [n \in Names |-> NoFile]
Free == [command |-> "none", unit |-> NoUnit]
Idle == request.command \in {"none", "died"}

Init ==
  /\ library \in Editions /\ active = NoPool
  /\ registered = {} /\ deleting = {}
  /\ dependsOn = [n \in Names |-> {}] /\ state = [n \in Names |-> "STOPPED"]
  /\ request = Free /\ pool = NoPool /\ todo = <<>> /\ frames = <<>>

-----------------------------------------------------------------------------
(* The invocation: LoadPool, then the command line *)

AllOf(step, names) == [i \in DOMAIN names |-> <<step, names[i]>>]

(* main.cpp looks every unit up in the pool and gives up without it; only   *)
(* enable falls back to the library.                                        *)
Invoke(command, n) ==
  /\ Idle /\ command \in Commands \ {"daemonReload"}
  /\ active[n] # NoFile \/ (command = "enable" /\ library[n] # NoFile)
  /\ request' = [command |-> command, unit |-> n] /\ pool' = active
  /\ todo' = [i \in DOMAIN Steps[command] |-> <<Steps[command][i], n>>]
  /\ UNCHANGED <<files, scm, frames>>

(* ReloadPool refreshes the units of the active directory, reads the        *)
(* library into an empty pool and registers all of it.  (For a unit without *)
(* an active file there is nothing to refresh.)                             *)
InvokeDaemonReload ==
  /\ Idle /\ "daemonReload" \in Commands
  /\ request' = [command |-> "daemonReload", unit |-> NoUnit] /\ pool' = active
  /\ todo' = AllOf("refresh", Order) \o << <<"readLibrary", NoUnit>> >> \o AllOf("register", Order)
  /\ UNCHANGED <<files, scm, frames>>

AtStep(step, n) == frames = <<>> /\ todo # <<>> /\ Head(todo) = <<step, n>>

(* Goes on with the steps left; after the last one the process ends.        *)
GoOnWith(rest, units) ==
  /\ todo' = rest
  /\ request' = IF rest = <<>> THEN Free ELSE request
  /\ pool' = IF rest = <<>> THEN NoPool ELSE units

GoOn(rest) == GoOnWith(rest, pool)

Die ==
  /\ request' = [command |-> "died", unit |-> NoUnit]
  /\ pool' = NoPool /\ todo' = <<>> /\ frames' = <<>>

-----------------------------------------------------------------------------
(* The service control manager, as systemctl uses it *)

Dependents(n) == {m \in registered : n \in dependsOn[m]}

(* Everything that the services of S depend on, S included.                 *)
Needs(S) ==
  {m \in Names : \A T \in SUBSET Names :
     S \subseteq T /\ (\A k \in T \cap registered : dependsOn[k] \subseteq T) => m \in T}

(* The SCM can have n running: it is, or a wrapper can be launched for it.  *)
CanRun(n) ==
  /\ n \in registered
  /\ \/ state[n] \in {"RUNNING", "START_PENDING"}
     \/ (state[n] = "STOPPED" /\ n \notin deleting /\ active[n] # NoFile)

(* A service that stops while it is marked for deletion is gone.            *)
Settle(n, s) ==
  LET gone == s = "STOPPED" /\ n \in deleting IN
  /\ state' = [state EXCEPT ![n] = s]
  /\ registered' = IF gone THEN registered \ {n} ELSE registered
  /\ deleting' = IF gone THEN deleting \ {n} ELSE deleting
  /\ dependsOn' = IF gone THEN [dependsOn EXCEPT ![n] = {}] ELSE dependsOn

(* CreateService: fails for a name that is taken, also by a service marked  *)
(* for deletion, and for a circular dependency.                             *)
CreateService(n, dependencies) ==
  IF n \in registered \/ n \in Needs(dependencies)
  THEN UNCHANGED scm
  ELSE /\ registered' = registered \cup {n}
       /\ dependsOn' = [dependsOn EXCEPT ![n] = dependencies]
       /\ UNCHANGED <<deleting, state>>

(* StartServiceW: the SCM first starts what the service depends on and      *)
(* waits for it.  The start fails when n or something below it cannot run.  *)
StartService(n) ==
  /\ AtStep("start", n)
  /\ IF state[n] = "STOPPED" /\ n \notin deleting /\ \A m \in Needs({n}) : CanRun(m)
     THEN state' = [m \in Names |-> IF m = n THEN "START_PENDING"
                                    ELSE IF m \in Needs({n}) THEN "RUNNING" ELSE state[m]]
     ELSE UNCHANGED state
  /\ GoOn(Tail(todo)) /\ UNCHANGED <<files, registered, deleting, dependsOn, frames>>

(* ControlService(STOP) is refused unless the service runs and nothing that *)
(* depends on it does; the client does not wait for SERVICE_STOPPED.        *)
StopService(n) ==
  /\ AtStep("stop", n)
  /\ state' = IF n \in registered /\ state[n] = "RUNNING"
                 /\ \A m \in Dependents(n) : state[m] = "STOPPED"
              THEN [state EXCEPT ![n] = "STOP_PENDING"] ELSE state
  /\ GoOn(Tail(todo)) /\ UNCHANGED <<files, registered, deleting, dependsOn, frames>>

(* RestartService polls while the service is RUNNING, then starts it; an    *)
(* unregistered service ends the command.                                   *)
WaitForStop(n) ==
  /\ AtStep("waitForStop", n)
  /\ state[n] \notin {"RUNNING", "EXITED"}
  /\ GoOn(IF n \in registered THEN Tail(todo) ELSE <<>>)
  /\ UNCHANGED <<files, scm, frames>>

(* Mutant: a service that is stopping is left alone. *)
TerminatedUnlessStopping(n) ==
  IF state[n] \in {"STOPPED", "STOP_PENDING"} THEN state
  ELSE [state EXCEPT ![n] = "EXITED"]

(* Kill with SIGKILL: the wrapper and all processes below it.               *)
Terminated(n) ==
  IF state[n] = "STOPPED" THEN state ELSE [state EXCEPT ![n] = "EXITED"]

Kill(n) ==
  /\ AtStep("kill", n)
  /\ state' = Terminated(n)
  /\ GoOn(Tail(todo)) /\ UNCHANGED <<files, registered, deleting, dependsOn, frames>>

(* systemctl kill leaves the signal uninitialised when none is given: it    *)
(* may be SIGKILL, and it may be one that does nothing.                     *)
Signal(n) ==
  /\ AtStep("signal", n)
  /\ state' \in {state, Terminated(n)}
  /\ GoOn(Tail(todo)) /\ UNCHANGED <<files, registered, deleting, dependsOn, frames>>

(* DeleteService: the entry goes at once when the service is stopped.       *)
Disable(n) ==
  /\ AtStep("disable", n)
  /\ IF n \notin registered THEN UNCHANGED scm
     ELSE IF state[n] = "STOPPED"
     THEN /\ registered' = registered \ {n}
          /\ dependsOn' = [dependsOn EXCEPT ![n] = {}] /\ UNCHANGED <<deleting, state>>
     ELSE deleting' = deleting \cup {n} /\ UNCHANGED <<registered, dependsOn, state>>
  /\ GoOn(Tail(todo)) /\ UNCHANGED <<files, frames>>

(* Mask removes the unit from the active directory, and does nothing else.  *)
Mask(n) ==
  /\ AtStep("mask", n)
  /\ active' = [active EXCEPT ![n] = NoFile]
  /\ GoOn(Tail(todo)) /\ UNCHANGED <<library, scm, frames>>

(* Mutant: the file that is there is replaced. *)
CopiedAnew(n) == [active EXCEPT ![n] = library[n]]

Copied(n) == IF active[n] = NoFile THEN [active EXCEPT ![n] = library[n]] ELSE active

Unmask(n) ==
  /\ AtStep("unmask", n)
  /\ active' = Copied(n)
  /\ GoOn(Tail(todo)) /\ UNCHANGED <<library, scm, frames>>

-----------------------------------------------------------------------------
(* daemon-reload *)

(* delete_unit: a unit whose two files differ is taken down and copied anew. *)
Refresh(n) ==
  /\ AtStep("refresh", n)
  /\ GoOn((IF library[n] # NoFile /\ active[n] \notin {library[n], NoFile}
           THEN << <<"stop", n>>, <<"disable", n>>, <<"mask", n>>, <<"unmask", n>> >>
           ELSE <<>>) \o Tail(todo))
  /\ UNCHANGED <<files, scm, frames>>

ReadLibrary ==
  /\ AtStep("readLibrary", NoUnit)
  /\ GoOnWith(Tail(todo), library)
  /\ UNCHANGED <<files, scm, frames>>

(* Names that the units of the pool only mention are NULL units of the pool *)
(* by now, and register_unit dereferences every unit.                       *)
Mentioned(n) ==
  \E m \in Names : pool[m] # NoFile /\
    n \in pool[m].requires \cup pool[m].wants \cup pool[m].mentions

RegisterUnit(n) ==
  /\ AtStep("register", n)
  /\ pool[n] # NoFile \/ ~Mentioned(n)
  /\ IF pool[n] = NoFile THEN UNCHANGED scm
     ELSE CreateService(n, {m \in pool[n].requires \cup pool[n].wants : pool[m] # NoFile})
  /\ GoOn(Tail(todo)) /\ UNCHANGED <<files, frames>>

RegisterNull(n) ==
  /\ AtStep("register", n)
  /\ pool[n] = NoFile /\ Mentioned(n)
  /\ Die /\ UNCHANGED <<files, scm>>

-----------------------------------------------------------------------------
(* Enable and its recursion *)

Frame(n, definition) ==
  [unit |-> n, definition |-> definition, phase |-> "copy", left |-> {}]

Top == frames[1]
WithTop(frame, calls) == <<frame>> \o Tail(calls)
Within(phase) == frames # <<>> /\ Top.phase = phase

(* Mutant: the library comes first. *)
ReadFromLibrary(n) == IF library[n] # NoFile THEN library[n] ELSE pool[n]

(* What Enable knows of a unit: the pool's copy, else the library's file.   *)
(* (The names it looks up are NULL units of the pool from then on, so that  *)
(* a unit read from the library never gets into the pool.)                  *)
Read(n) == IF pool[n] # NoFile THEN pool[n] ELSE library[n]

(* Mutant: the unit is not read when the pool does not have it. *)
EnableUnitOfPool(n) ==
  /\ AtStep("enable", n)
  /\ frames' = <<Frame(n, pool[n])>>
  /\ UNCHANGED <<files, scm, request, pool, todo>>

EnableUnit(n) ==
  /\ AtStep("enable", n)
  /\ frames' = <<Frame(n, Read(n))>>
  /\ UNCHANGED <<files, scm, request, pool, todo>>

(* The innermost call goes on with another phase. *)
Turn(phase, left) ==
  frames' = WithTop([Top EXCEPT !.phase = phase, !.left = left], frames)

(* Mutant: the unit stays among those to be enabled. *)
RecurseForEver(m) ==
  IF Len(frames) = MaxDepth THEN Die
  ELSE /\ frames' = <<Frame(m, Read(m))>> \o frames
       /\ UNCHANGED <<request, pool, todo>>

(* The innermost call enables m and is done with it. *)
Recurse(m) ==
  IF Len(frames) = MaxDepth THEN Die
  ELSE /\ frames' = <<Frame(m, Read(m))>> \o WithTop([Top EXCEPT !.left = @ \ {m}], frames)
       /\ UNCHANGED <<request, pool, todo>>

(* Mutant: the caller does not look at the result. *)
ReturnIgnored(success) ==
  IF Len(frames) = 1 THEN frames' = <<>> /\ GoOn(Tail(todo))
  ELSE frames' = Tail(frames) /\ UNCHANGED <<request, pool, todo>>

(* The innermost call returns; the caller of a required unit fails with it, *)
(* the command line ignores the result.                                     *)
Return(success) ==
  IF Len(frames) = 1 THEN frames' = <<>> /\ GoOn(Tail(todo))
  ELSE /\ frames' = IF success \/ frames[2].phase = "wants" THEN Tail(frames)
                    ELSE WithTop([frames[2] EXCEPT !.phase = "failed"], Tail(frames))
       /\ UNCHANGED <<request, pool, todo>>

(* CopyUnitFileToActive keeps the file that is there. *)
EnableCopy ==
  /\ Within("copy")
  /\ IF Copied(Top.unit)[Top.unit] = NoFile THEN UNCHANGED active /\ Return(FALSE)
     ELSE /\ active' = Copied(Top.unit)
          /\ Turn("requires", {m \in Top.definition.requires : pool[m] = NoFile})
          /\ UNCHANGED <<request, pool, todo>>
  /\ UNCHANGED <<library, scm>>

(* Required units of the pool are not enabled, only depended on. *)
EnableRequired ==
  /\ Within("requires")
  /\ \E m \in Top.left : IF library[m] = NoFile THEN Return(FALSE) ELSE Recurse(m)
  /\ UNCHANGED <<files, scm>>

Readable(names) == {m \in names : Read(m) # NoFile}

(* Mutant: a wanted unit is enabled whether it could be read or not. *)
EnableRequiredDoneAll ==
  /\ Within("requires") /\ Top.left = {}
  /\ Turn("wants", Top.definition.wants)
  /\ UNCHANGED <<files, scm, request, pool, todo>>

EnableRequiredDone ==
  /\ Within("requires") /\ Top.left = {}
  /\ Turn("wants", Readable(Top.definition.wants))
  /\ UNCHANGED <<files, scm, request, pool, todo>>

EnableWanted ==
  /\ Within("wants")
  /\ \E m \in Top.left : Recurse(m)
  /\ UNCHANGED <<files, scm>>

EnableWantedDone ==
  /\ Within("wants") /\ Top.left = {}
  /\ Turn("register", {})
  /\ UNCHANGED <<files, scm, request, pool, todo>>

(* A service that exists in the SCM counts as enabled and is left alone.    *)
EnableRegister ==
  /\ Within("register")
  /\ CreateService(Top.unit,
       Top.definition.requires \cup Readable(Top.definition.wants))
  /\ Return(TRUE) /\ UNCHANGED files

EnableFailed ==
  /\ Within("failed")
  /\ Return(FALSE) /\ UNCHANGED <<files, scm>>

Enable ==
  \/ EnableCopy \/ EnableRequired \/ EnableRequiredDone
  \/ EnableWanted \/ EnableWantedDone \/ EnableRegister \/ EnableFailed

-----------------------------------------------------------------------------
(* What happens by itself *)

(* A wrapper and its service: it comes up, fails, ends, crashes or stops.   *)
Moves ==
  [STOPPED |-> {}, START_PENDING |-> {"RUNNING", "STOPPED"},
   RUNNING |-> {"STOPPED", "EXITED"}, STOP_PENDING |-> {"STOPPED", "RUNNING"},
   EXITED |-> {"STOPPED"}]

ServiceStep(n) ==
  /\ \E s \in Moves[state[n]] : Settle(n, s)
  /\ UNCHANGED <<files, client>>

(* The SCM notices that a process is gone. *)
Notice(n) == state[n] = "EXITED" /\ ServiceStep(n)

(* A new edition of the units is installed, between two commands. *)
EditLibrary ==
  /\ Idle /\ library' \in Editions
  /\ UNCHANGED <<active, scm, client>>

ClientDies ==
  /\ Interrupts /\ ~Idle
  /\ Die /\ UNCHANGED <<files, scm>>

(* At boot every service is started that can be, after what it depends on;  *)
(* some of them come up.                                                    *)
Reboot ==
  /\ Idle \/ Interrupts
  /\ registered' = registered \ deleting /\ deleting' = {}
  /\ dependsOn' = [n \in Names |-> IF n \in deleting THEN {} ELSE dependsOn[n]]
  /\ \E up \in SUBSET {n \in registered' : active[n] # NoFile} :
       /\ \A n \in up : dependsOn'[n] \subseteq up
       /\ state' = [n \in Names |-> IF n \in up THEN "RUNNING" ELSE "STOPPED"]
  /\ IF Idle THEN UNCHANGED client ELSE Die
  /\ UNCHANGED files

-----------------------------------------------------------------------------

ClientStep ==
  \/ \E n \in Names :
       \/ StartService(n) \/ StopService(n) \/ WaitForStop(n) \/ Signal(n) \/ Kill(n)
       \/ Disable(n) \/ Mask(n) \/ Unmask(n) \/ EnableUnit(n)
       \/ Refresh(n) \/ RegisterUnit(n) \/ RegisterNull(n)
  \/ ReadLibrary
  \/ Enable

Next ==
  \/ \E n \in Names : (\E c \in Commands : Invoke(c, n)) \/ ServiceStep(n)
  \/ InvokeDaemonReload \/ ClientStep
  \/ EditLibrary \/ ClientDies \/ Reboot

Spec == Init /\ [][Next]_vars

(* systemctl runs when it can; the SCM notices that a process has ended.    *)
(* Nothing makes a service stop, and nobody has to give a command.          *)
Fairness == WF_vars(ClientStep) /\ \A n \in Names : WF_vars(Notice(n))

FairSpec == Spec /\ Fairness

-----------------------------------------------------------------------------
(* Properties *)

(* Every variable keeps its type; services that the SCM does not know are   *)
(* stopped and depend on nothing, those marked for deletion have not        *)
(* stopped: the SCM does not keep a service that it should have removed.    *)
FileTypeOK ==
  /\ library \in Editions
  /\ active \in [Names -> Definitions \cup {NoFile}]
  /\ pool \in [Names -> Definitions \cup {NoFile}]

ScmTypeOK ==
  /\ registered \subseteq Names /\ deleting \subseteq registered
  /\ dependsOn \in [Names -> SUBSET Names] /\ state \in [Names -> States]
  /\ \A n \in Names \ registered : dependsOn[n] = {} /\ state[n] = "STOPPED"
  /\ \A n \in deleting : state[n] # "STOPPED"

ClientTypeOK ==
  /\ request \in Requests
  /\ todo \in Seq(StepNames \X (Names \cup {NoUnit})) /\ frames \in Seq(Frames)
  /\ Idle <=> todo = <<>>
  /\ Idle => frames = <<>> /\ pool = NoPool

TypeOK == FileTypeOK /\ ScmTypeOK /\ ClientTypeOK

(* A unit file of the active directory is never written over: an edition    *)
(* of the library gets there only after the file was removed, so that a     *)
(* service does not change under its wrapper by an enable or an unmask.     *)
ActiveNeverOverwritten ==
  [][\A n \in Names : active[n] # NoFile => active'[n] \in {active[n], NoFile}]_vars

(* A service that the SCM may start has its unit file in the active         *)
(* directory, and the SCM's dependencies are those of this file: at least   *)
(* the required units, and no unit it does not name (enable, disable, start *)
(* and unmask, also when they are interrupted; not mask and the reloads).   *)
RegisteredAsActive ==
  \A n \in registered \ deleting :
    /\ active[n] # NoFile
    /\ active[n].requires \subseteq dependsOn[n]
    /\ dependsOn[n] \subseteq active[n].requires \cup active[n].wants

(* The units that n needs according to the given files, n included. *)
Required(n, unitFiles) ==
  {m \in Names : \A T \in SUBSET Names :
     n \in T /\ (\A k \in T : unitFiles[k] # NoFile => unitFiles[k].requires \subseteq T)
       => m \in T}

Ends(command, n) == request = [command |-> command, unit |-> n] /\ request' = Free

(* An enable that registers its unit leaves all units it requires, directly *)
(* or through others, registered - provided that every unit in the pool,    *)
(* the units that were active when the command began, is registered.        *)
EnableKeepsComplete ==
  [][\A n \in Names :
       /\ Ends("enable", n) /\ n \in registered'
       /\ \A m \in Names : pool[m] # NoFile => m \in registered
       => Required(n, active') \subseteq registered']_vars

(* A disable that is not interrupted takes the service out of the SCM in    *)
(* the end, whatever depends on it and whatever state it is in.             *)
DisableUnregisters ==
  \A n \in Names :
    request = [command |-> "disable", unit |-> n] ~> n \notin registered

(* Every command but restart comes to its end.                              *)
CommandsEnd == ~Idle /\ request.command # "restart" ~> Idle

-----------------------------------------------------------------------------
(* What makes TypeOK inductive *)

(* Enable is called for units that have been read, never for a NULL unit,   *)
(* from the command line and from the list of wanted units; and the steps   *)
(* of daemon-reload do not mix with those of other commands.                *)
ReadInv ==
  /\ \A i \in DOMAIN todo :
       /\ todo[i][1] = "enable" =>
            request.command # "daemonReload" /\ todo[i][2] \in Readable(Names)
       /\ todo[i][1] = "readLibrary" => request.command = "daemonReload"
  /\ \A i \in DOMAIN frames :
       frames[i].phase = "wants" => frames[i].left \subseteq Readable(Names)

-----------------------------------------------------------------------------
(* What makes RegisteredAsActive inductive, for the commands it is about *)

CarefulCommands == {"enable", "disable", "start", "stop", "restart", "kill", "unmask"}

(* No step is left that takes a file away or registers from the library.    *)
TodoInv ==
  \A i \in DOMAIN todo : todo[i][1] \notin {"mask", "refresh", "readLibrary", "register"}

(* During a command the pool agrees with the active directory, and a file   *)
(* that the pool lacks has been copied by this command.                     *)
PoolInv ==
  ~Idle => \A n \in Names : active[n] # pool[n] => pool[n] = NoFile /\ active[n] = library[n]

(* Enable works on the definition that is in the active directory, or that  *)
(* it is about to copy there; a call that failed copies and registers       *)
(* nothing any more.                                                        *)
UpToDate(call) ==
  \/ active[call.unit] = call.definition
  \/ /\ call.phase \in {"copy", "failed"}
     /\ active[call.unit] = NoFile /\ library[call.unit] = call.definition

FrameInv == \A i \in DOMAIN frames : UpToDate(frames[i])

CarefulInv == RegisteredAsActive /\ TodoInv /\ PoolInv /\ FrameInv

-----------------------------------------------------------------------------
(* What makes EnableKeepsComplete inductive, for the same commands *)

(* The units that Enable fails for: those that cannot be read, and those    *)
(* that require such a unit, unless the pool has it.                        *)
Failing ==
  {n \in Names : \A T \in SUBSET Names :
     (\A k \in Names :
        Read(k) = NoFile \/ (\E m \in Read(k).requires \cap T : pool[m] = NoFile) => k \in T)
       => n \in T}

Provided(n) == pool[n] # NoFile \/ n \in registered

(* A registered service has its file, and so have all units it depends on.  *)
FilesInv ==
  \A n \in registered :
    /\ active[n] # NoFile /\ active[n].requires \subseteq dependsOn[n]
    /\ \A m \in dependsOn[n] : active[m] # NoFile

(* An enable has no other steps, and other commands no step that enables.   *)
StepInv ==
  /\ \A i \in DOMAIN todo : todo[i][1] = "enable" <=> request.command = "enable"
  /\ frames # <<>> => request.command = "enable"

(* During an enable only units of the pool can leave the SCM.  What a       *)
(* service requires is in the pool or registered, and what it depends on    *)
(* too, or Enable fails for it; it does not fail for what it registered.    *)
ServicesInv ==
  request.command = "enable" =>
    /\ \A n \in deleting : pool[n] # NoFile
    /\ \A n \in registered :
         /\ pool[n] # NoFile \/ n \notin Failing
         /\ \A m \in active[n].requires : Provided(m)
         /\ \A m \in dependsOn[n] : Provided(m) \/ m \in Failing

(* What a call has done, by its phase; inner: the unit of the call it waits *)
(* for, if any.                                                             *)
Done(call, inner) ==
  /\ call.phase # "copy" => active[call.unit] # NoFile
  /\ call.phase = "failed" => call.unit \in Failing
  /\ call.phase = "requires" =>
       /\ \A m \in call.left \cup inner : m \in call.definition.requires /\ pool[m] = NoFile
       /\ \A m \in call.definition.requires \ (call.left \cup inner) : Provided(m)
  /\ call.phase = "register" => call.left = {}
  /\ call.phase \in {"wants", "register"} =>
       /\ \A m \in call.definition.requires : Provided(m)
       /\ \A m \in Readable(call.definition.wants) \ (call.left \cup inner) :
            active[m] # NoFile /\ (Provided(m) \/ m \in Failing)

Inner(i) == IF i = 1 THEN {} ELSE {frames[i - 1].unit}

CallsInv ==
  \A i \in DOMAIN frames :
    /\ Done(frames[i], Inner(i))
    /\ i > 1 => frames[i].phase \in {"requires", "wants"}

EnableInv == FilesInv /\ StepInv /\ ServicesInv /\ CallsInv

(* The files, the pool, the steps, the services and the calls of Enable     *)
(* agree (CarefulInv), and every call of Enable has dealt with the units    *)
(* that its phase lies behind (EnableInv), at any time of these commands.   *)
CompleteInv == CarefulInv /\ EnableInv

-----------------------------------------------------------------------------
(* What the documents promise and the code does not keep. *)

(* regress.ps1: enabling a unit also enables the units that it needs.       *)
EnableRegistersRequired ==
  [][\A n \in Names : Ends("enable", n) /\ n \in registered'
       => Required(n, active') \subseteq registered']_vars

(* README: restart has the effect of a stop followed by a start, both of    *)
(* which end.                                                               *)
RestartEnds == request.command = "restart" ~> Idle
=============================================================================
