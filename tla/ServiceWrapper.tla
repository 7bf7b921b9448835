--------------------------- MODULE ServiceWrapper ---------------------------
(***************************************************************************)
(* service-wrapper.exe runs a plain executable as a Windows service.       *)
(* Three threads of one process share m_hProcess and m_IsStopping: the     *)
(* thread of ServiceMain starts the child process, the control handler, on *)
(* the dispatcher's thread, kills it, and WaitForProcessThread ends the    *)
(* wrapper when the child ends.  The child, the one process it may start,  *)
(* and the service control manager are external.                           *)
(***************************************************************************)

CONSTANTS
  KillMayFail   \* whether the snapshot of the processes, or OpenProcess, may fail

ASSUME KillAssumption == KillMayFail \in BOOLEAN

VARIABLES
  opts,     \* the command line: stop-tree, stop-console, exec-start-pre given
  process,  \* the wrapper's process: "up", "exited" or "failed" (exit code -1)
  status,   \* the state of the service as the control manager has it
  main,     \* where ServiceMain is
  ctl,      \* where the control handler is
  mon,      \* where WaitForProcessThread is
  stopping, \* m_IsStopping
  handle,   \* m_hProcess: "null", or the handle of the child
  valid,    \* the child's handle is open
  child,    \* the child: "none", "alive", "dying" (TerminateProcess called), "dead"
  kid,      \* the process the child starts
  wasAlive, \* history: the child was alive when m_IsStopping was set
  hadKid,   \* history: the kid was alive when the snapshot was taken
  failed    \* history: the kill failed

code == <<process, status, main, ctl, mon, stopping, handle, valid>>
world == <<child, kid>>
history == <<wasAlive, hadKid, failed>>
vars == <<opts, code, world, history>>

Alive == {"none", "alive", "dying", "dead"}

Init ==
  /\ opts \in [tree : BOOLEAN, console : BOOLEAN, pre : BOOLEAN]
  /\ process = "up" /\ status = "START_PENDING"
  /\ main = "start" /\ ctl = "idle" /\ mon = "none"
  /\ stopping = FALSE /\ handle = "null" /\ valid = FALSE
  /\ child = "none" /\ kid = "none"
  /\ wasAlive = FALSE /\ hadKid = FALSE /\ failed = FALSE

Up == process = "up"
-----------------------------------------------------------------------------
(***************************************************************************)
(* ServiceMain: CServiceBase::Start and OnStart                            *)
(***************************************************************************)

StartPending ==
  /\ Up /\ main = "start"
  /\ status' = "START_PENDING" /\ stopping' = FALSE
  /\ main' = IF opts.pre THEN "pre" ELSE "launch"
  /\ UNCHANGED <<opts, process, ctl, mon, handle, valid, world, history>>

(* An exception ends OnStart, and the service is reported stopped. *)
StartFails ==
  /\ status' = "STOPPED" /\ main' = "ended"
  /\ UNCHANGED <<opts, process, ctl, mon, stopping, handle, valid, world, history>>

(* ExecStartPre runs to its end; it may fail, or not start at all. *)
PreSucceeds ==
  /\ Up /\ main = "pre"
  /\ main' = "launch"
  /\ UNCHANGED <<opts, process, status, ctl, mon, stopping, handle, valid, world, history>>
PreFails == Up /\ main = "pre" /\ StartFails

LaunchSucceeds ==
  /\ Up /\ main = "launch"
  /\ child' = "alive" /\ handle' = "child" /\ valid' = TRUE
  /\ main' = "thread"
  /\ UNCHANGED <<opts, process, status, ctl, mon, stopping, kid, history>>
(* Mutant: the failure of CreateProcess is logged, not thrown. *)
LaunchFailureLogged ==
  /\ Up /\ main = "launch"
  /\ main' = "thread"
  /\ UNCHANGED <<opts, process, status, ctl, mon, stopping, handle, valid, world, history>>

LaunchFails == Up /\ main = "launch" /\ StartFails

CreateMonitor ==
  /\ Up /\ main = "thread"
  /\ mon' = "begin" /\ main' = "report"
  /\ UNCHANGED <<opts, process, status, ctl, stopping, handle, valid, world, history>>

ReportRunning ==
  /\ Up /\ main = "report"
  /\ status' = "RUNNING" /\ main' = "ended"
  /\ UNCHANGED <<opts, process, ctl, mon, stopping, handle, valid, world, history>>

MainStep ==
  \/ StartPending \/ PreSucceeds \/ PreFails \/ LaunchSucceeds \/ LaunchFails
  \/ CreateMonitor \/ ReportRunning
-----------------------------------------------------------------------------
(***************************************************************************)
(* The control handler: Stop, OnStop and Shutdown.  The control manager    *)
(* sends a control to a running service only, and one at a time.           *)
(***************************************************************************)

Stop ==
  /\ Up /\ ctl = "idle" /\ status = "RUNNING"
  /\ status' = "STOP_PENDING" /\ ctl' = "onStop"
  /\ UNCHANGED <<opts, process, main, mon, stopping, handle, valid, world, history>>

(* Mutant: m_IsStopping is not set. *)
SetNothing ==
  /\ Up /\ ctl = "onStop"
  /\ wasAlive' = (child = "alive")
  /\ ctl' = IF opts.console THEN "ctrlC" ELSE "kill"
  /\ UNCHANGED <<opts, process, status, main, mon, stopping, handle, valid, world, hadKid, failed>>

SetStopping ==
  /\ Up /\ ctl = "onStop"
  /\ stopping' = TRUE /\ wasAlive' = (child = "alive")
  /\ ctl' = IF opts.console THEN "ctrlC" ELSE "kill"
  /\ UNCHANGED <<opts, process, status, main, mon, handle, valid, world, hadKid, failed>>

(* Ctrl-C is sent, or fails to be sent, and the handler waits for the      *)
(* child; WaitForSingleObject fails at once without an open handle.        *)
SendCtrlC ==
  /\ Up /\ ctl = "ctrlC"
  /\ ctl' = IF handle = "child" /\ valid THEN "await" ELSE "kill"
  /\ UNCHANGED <<opts, process, status, main, mon, stopping, handle, valid, world, history>>

ChildObeys ==
  /\ Up /\ ctl = "await" /\ child = "dead"
  /\ ctl' = "close"
  /\ UNCHANGED <<opts, process, status, main, mon, stopping, handle, valid, world, history>>

(* Mutant: the wait is INFINITE. *)
ConsoleWaitInfinite ==
  /\ Up /\ ctl = "await" /\ child = "dead"
  /\ ctl' = "kill"
  /\ UNCHANGED <<opts, process, status, main, mon, stopping, handle, valid, world, history>>

(* m_ConsoleTimeout passes. *)
ConsoleTimeout ==
  /\ Up /\ ctl = "await" /\ child # "dead"
  /\ ctl' = "kill"
  /\ UNCHANGED <<opts, process, status, main, mon, stopping, handle, valid, world, history>>

Killed(p) == IF p = "alive" THEN "dying" ELSE p

(* KillProcessTree first kills what the snapshot shows below the child.    *)
KillKids ==
  /\ Up /\ ctl = "kill" /\ opts.tree
  /\ kid' = Killed(kid) /\ hadKid' = (kid = "alive")
  /\ ctl' = "killMain"
  /\ UNCHANGED <<opts, process, status, main, mon, stopping, handle, valid, child, wasAlive, failed>>

KillMain ==
  /\ Up /\ ctl = "killMain"
  /\ child' = Killed(child)
  /\ ctl' = "close"
  /\ UNCHANGED <<opts, process, status, main, mon, stopping, handle, valid, kid, history>>

(* Without stop-tree: TerminateProcess(m_hProcess). *)
Terminate ==
  /\ Up /\ ctl = "kill" /\ ~opts.tree
  /\ child' = IF handle = "child" /\ valid THEN Killed(child) ELSE child
  /\ ctl' = "close"
  /\ UNCHANGED <<opts, process, status, main, mon, stopping, handle, valid, kid, history>>

(* No snapshot, or no access to the processes. *)
KillFails ==
  /\ KillMayFail /\ Up /\ opts.tree /\ ctl \in {"kill", "killMain"}
  /\ failed' = TRUE /\ ctl' = "close"
  /\ UNCHANGED <<opts, process, status, main, mon, stopping, handle, valid, world, wasAlive, hadKid>>

(* CloseHandle(m_hProcess), then m_hProcess = NULL. *)
CloseInStop ==
  /\ Up /\ ctl = "close"
  /\ valid' = (valid /\ handle # "child") /\ ctl' = "clear"
  /\ UNCHANGED <<opts, process, status, main, mon, stopping, handle, world, history>>

ClearInStop ==
  /\ Up /\ ctl = "clear"
  /\ handle' = "null" /\ ctl' = "report"
  /\ UNCHANGED <<opts, process, status, main, mon, stopping, valid, world, history>>

ReportStopped ==
  /\ Up /\ ctl = "report"
  /\ status' = "STOPPED" /\ ctl' = "ended"
  /\ UNCHANGED <<opts, process, main, mon, stopping, handle, valid, world, history>>

(* OnShutdown is empty: the service is reported stopped, the child lives.  *)
Shutdown ==
  /\ Up /\ ctl = "idle" /\ status = "RUNNING"
  /\ status' = "STOPPED" /\ ctl' = "shutdown"
  /\ UNCHANGED <<opts, process, main, mon, stopping, handle, valid, world, history>>

StopStep ==
  \/ SetStopping \/ SendCtrlC \/ ChildObeys \/ ConsoleTimeout \/ KillKids \/ KillMain
  \/ Terminate \/ KillFails \/ CloseInStop \/ ClearInStop \/ ReportStopped

(* The dispatcher returns once the service is stopped, and wmain with it.  *)
Exit ==
  /\ Up /\ status = "STOPPED"
  /\ process' = "exited"
  /\ UNCHANGED <<opts, status, main, ctl, mon, stopping, handle, valid, world, history>>
-----------------------------------------------------------------------------
(***************************************************************************)
(* WaitForProcessThread                                                    *)
(***************************************************************************)

BeginWait ==
  /\ Up /\ mon = "begin"
  /\ mon' = IF handle = "child" /\ valid THEN "wait" ELSE "close"
  /\ UNCHANGED <<opts, process, status, main, ctl, stopping, handle, valid, world, history>>

(* Mutant: the wait has a timeout, and its result is not looked at. *)
EndWaitEarly ==
  /\ Up /\ mon = "wait"
  /\ mon' = "close"
  /\ UNCHANGED <<opts, process, status, main, ctl, stopping, handle, valid, world, history>>

EndWait ==
  /\ Up /\ mon = "wait" /\ child = "dead"
  /\ mon' = "close"
  /\ UNCHANGED <<opts, process, status, main, ctl, stopping, handle, valid, world, history>>

CloseInMonitor ==
  /\ Up /\ mon = "close"
  /\ valid' = (valid /\ handle # "child") /\ mon' = "clear"
  /\ UNCHANGED <<opts, process, status, main, ctl, stopping, handle, world, history>>

ClearInMonitor ==
  /\ Up /\ mon = "clear"
  /\ handle' = "null" /\ mon' = "test"
  /\ UNCHANGED <<opts, process, status, main, ctl, stopping, valid, world, history>>

(* Mutant: the thread just returns. *)
MonitorReturns ==
  /\ Up /\ mon = "test" /\ ~stopping
  /\ mon' = "ended"
  /\ UNCHANGED <<opts, process, status, main, ctl, stopping, handle, valid, world, history>>

(* Nobody asked for the end: ExitProcess(-1), and the control manager      *)
(* finds the service stopped.                                              *)
ExitProcess ==
  /\ Up /\ mon = "test" /\ ~stopping
  /\ process' = "failed" /\ status' = "STOPPED"
  /\ UNCHANGED <<opts, main, ctl, mon, stopping, handle, valid, world, history>>

MonitorEnds ==
  /\ Up /\ mon = "test" /\ stopping
  /\ mon' = "ended"
  /\ UNCHANGED <<opts, process, status, main, ctl, stopping, handle, valid, world, history>>

MonitorStep ==
  BeginWait \/ EndWait \/ CloseInMonitor \/ ClearInMonitor \/ ExitProcess \/ MonitorEnds
-----------------------------------------------------------------------------
(***************************************************************************)
(* The processes: they end when they like, by Ctrl-C too.                  *)
(***************************************************************************)

ChildEnds ==
  /\ child = "alive"
  /\ child' = "dead"
  /\ UNCHANGED <<opts, code, kid, history>>

ChildDies ==
  /\ child = "dying"
  /\ child' = "dead"
  /\ UNCHANGED <<opts, code, kid, history>>

KidStarts ==
  /\ child = "alive" /\ kid = "none"
  /\ kid' = "alive"
  /\ UNCHANGED <<opts, code, child, history>>

KidEnds ==
  /\ kid \in {"alive", "dying"}
  /\ kid' = "dead"
  /\ UNCHANGED <<opts, code, child, history>>

Next ==
  \/ MainStep \/ Stop \/ Shutdown \/ StopStep \/ Exit \/ MonitorStep
  \/ ChildEnds \/ ChildDies \/ KidStarts \/ KidEnds

Spec == Init /\ [][Next]_vars

(* The three threads and the dispatcher run on; a wait with a timeout ends; *)
(* a process that was terminated dies.  Nothing makes a live child end.     *)
FairSpec ==
  /\ Spec
  /\ WF_vars(MainStep) /\ WF_vars(StopStep) /\ WF_vars(MonitorStep) /\ WF_vars(Exit)
  /\ WF_vars(ChildDies)
-----------------------------------------------------------------------------
(***************************************************************************)
(* Properties                                                              *)
(***************************************************************************)

(* Types of the wrapper's state; the monitor has a child to wait for. *)
TypeOK ==
  /\ opts \in [tree : BOOLEAN, console : BOOLEAN, pre : BOOLEAN]
  /\ process \in {"up", "exited", "failed"}
  /\ status \in {"START_PENDING", "RUNNING", "STOP_PENDING", "STOPPED"}
  /\ main \in {"start", "pre", "launch", "thread", "report", "ended"}
  /\ ctl \in {"idle", "onStop", "ctrlC", "await", "kill", "killMain", "close", "clear",
              "report", "ended", "shutdown"}
  /\ mon \in {"none", "begin", "wait", "close", "clear", "test", "ended"}
  /\ stopping \in BOOLEAN /\ handle \in {"null", "child"} /\ valid \in BOOLEAN
  /\ child \in Alive /\ kid \in Alive
  /\ wasAlive \in BOOLEAN /\ hadKid \in BOOLEAN /\ failed \in BOOLEAN
  /\ mon # "none" => child # "none"

(* A stop of a service whose child is alive is never taken for the death   *)
(* of the child: the monitor, which the kill wakes, does not end the       *)
(* wrapper with an error while OnStop still runs.                          *)
StopIsNoFailure == wasAlive => process # "failed"

(* When OnStop is about to report SERVICE_STOPPED the child has been       *)
(* terminated or has ended, and with stop-tree the process below it that   *)
(* the snapshot showed too; unless the kill itself failed.  The monitor    *)
(* closes and clears the same handle that TerminateProcess needs.          *)
StoppedMeansKilled ==
  ctl \in {"close", "clear", "report", "ended"} /\ ~failed =>
    /\ child \in {"dying", "dead"}
    /\ hadKid => kid # "alive"

(* The strengthening the proofs use.  Once the monitor exists the child    *)
(* was launched; while it is alive its handle is open and in m_hProcess,   *)
(* for the monitor is still before the end of its wait, until OnStop gives *)
(* up the handle.  A stop begins only when ServiceMain is done, and leaves *)
(* m_IsStopping set; a kid that was seen was killed.                       *)
Late == {"close", "clear", "report", "ended"}
IInv ==
  /\ TypeOK
  /\ Up /\ status # "START_PENDING" => main = "ended"
  /\ ctl # "idle" => status \notin {"START_PENDING", "RUNNING"}
  /\ main \in {"start", "pre", "launch"} => child = "none" /\ mon = "none"
  /\ child = "none" => mon = "none"
  /\ ctl \notin {"idle", "onStop", "shutdown"} => stopping
  /\ wasAlive => stopping /\ process # "failed"
  /\ stopping => main # "start"
  /\ child = "alive" /\ ctl \notin Late =>
       /\ handle = "child" /\ valid /\ mon \in {"none", "begin", "wait"}
  /\ main \in {"thread", "report"} \/ status = "RUNNING" => child # "none"
  /\ ctl \in {"onStop", "ctrlC", "await", "kill", "killMain"} => child # "none"
  /\ hadKid => ctl \in Late \cup {"killMain"} /\ kid \in {"dying", "dead"}
  /\ StoppedMeansKilled

(* A service does not stay up without its child: the end of the child, at  *)
(* any point of the start, ends the wrapper.                               *)
ChildDeathSeen == child = "dead" ~> process # "up"

(* A stop ends: no wait of OnStop is for ever, whatever the child does.    *)
StopEnds == ctl = "onStop" ~> process # "up"
=============================================================================
