---------------------------- MODULE SystemdExec ----------------------------
(***************************************************************************)
(* One run of systemd-exec.exe, the wrapper the Windows service control    *)
(* manager (SCM) starts for a unit: from ServiceMain until the process     *)
(* leaves.  Three threads of the process share state without a lock:       *)
(*                                                                         *)
(*   main   ServiceMain: Start, OnStart, then a wait for hSvcStopEvent     *)
(*   ctl    the control dispatcher: Stop, Pause, Continue, Shutdown        *)
(*   thr    ServiceThread: the start / wait / restart loop of the unit     *)
(*                                                                         *)
(* and two kinds of child process run beside them: the ExecStart process   *)
(* (the main process) and the command that one of the two threads waits    *)
(* for (ExecStartPre, ExecStartPost, ExecStop, ExecStopPost: a helper).    *)
(***************************************************************************)
EXTENDS Naturals, Sequences

CONSTANTS
  Units,         \* the unit files the wrapper may be started for
  MaxLaunch,     \* bound: further CreateProcess calls for ExecStart fail
  RegistryFails  \* whether registry calls may fail

RestartActions == {"no", "always", "on_success", "on_failure", "on_abnormal"}

(* What systemd-exec takes from a unit file.  A list of commands is the     *)
(* list of their '-' prefixes (failure ignored); ExecStop and ExecStopPost  *)
(* have no such list because OnStop does not look at their prefix.          *)
Unit == [restart      : RestartActions,
         execStart    : BOOLEAN,
         execStartPre : Seq(BOOLEAN),
         execStartPost: Seq(BOOLEAN),
         execStop     : BOOLEAN,
         execStopPost : Nat]

ASSUME ConstantsAssumption ==
  Units \subseteq Unit /\ MaxLaunch \in Nat /\ RegistryFails \in BOOLEAN

VARIABLES
  unit,         \* the parsed unit file
  status,       \* m_status.dwCurrentState, shared by the three threads
  reporting,    \* threads inside SetServiceStatus: m_status written, not reported
  scm,          \* the state the SCM shows: the last one reported
  stopReported, \* SERVICE_STOPPED has been reported: the SCM ends the dispatcher
  process,      \* systemd-exec.exe itself
  main, thr, ctl,  \* where the three threads are
  hThread,      \* m_hServiceThread
  event,        \* hSvcStopEvent
  original,     \* dwOriginalState of Stop
  target,       \* the process OnStop kills, then the one it waits for
  pid, handle,  \* m_ExecStartProcInfo.dwProcessId and .hProcess
  live,         \* ExecStart processes that are alive
  code,         \* exit code of the last ExecStart process that ended
  ex,           \* exitCode of the RestartException in flight
  helper, cmd,  \* per thread: state and index of the command it waits for
  execStartPID, \* the registry value run\ExecStartPID
  launches,     \* number of ExecStart processes created
  quiet         \* history: the stop in progress found the unit up and waiting

scmVars  == <<status, reporting, scm, stopReported, process>>
mainVars == <<main, event, hThread>>
ctlVars  == <<ctl, original, target, quiet>>
mainProc == <<pid, handle, live, code, launches, execStartPID>>
cmdVars  == <<helper, cmd>>
vars == <<unit, scmVars, mainVars, ctlVars, thr, ex, mainProc, cmdVars>>

States == {"STOPPED", "START_PENDING", "STOP_PENDING", "RUNNING",
           "CONTINUE_PENDING", "PAUSE_PENDING", "PAUSED"}
Success == 0
Failure == 1    \* every non-zero exit code and Windows error
NoProcess == 0
Pids == 1..MaxLaunch
MainSteps == {"start", "onStart", "spawn", "assign", "started", "event",
              "wait", "returned"}
ThreadSteps == {"none", "conditions", "after", "pre", "preWait", "launch",
                "create", "created", "register", "wait", "deregister", "post",
                "postWait", "dependents", "catch", "sleep", "leave", "ended",
                "dead"}
ControlSteps == {"idle", "execStop", "execStopWait", "ask", "kill", "taskkill", "killed",
                 "waitMain", "terminate", "stopPost", "stopPostWait",
                 "stopped", "signal", "stopFailed", "pausing", "continuing"}

(* SetServiceStatus on thread t writes m_status, then reports m_status as   *)
(* it is by then: another thread may have written it in between.            *)
SetServiceStatus(t, s) ==
  /\ status' = s /\ reporting' = reporting \cup {t}
  /\ UNCHANGED <<scm, stopReported, process>>

Report(t) ==
  /\ process = "up" /\ t \in reporting
  /\ scm' = status /\ stopReported' = (stopReported \/ status = "STOPPED")
  /\ reporting' = reporting \ {t}
  /\ UNCHANGED <<unit, status, process, mainVars, ctlVars, thr, ex, mainProc, cmdVars>>

(* Where a thread is, outside SetServiceStatus, while the wrapper runs. *)
MainAt(step)    == process = "up" /\ "main" \notin reporting /\ main = step
ThreadAt(step)  == process = "up" /\ "thr" \notin reporting /\ thr = step
ControlAt(step) == process = "up" /\ "ctl" \notin reporting /\ ctl = step

(* StartProcess with waitForProcess on thread t: the helper is created and  *)
(* waited for.  StartFails is its throw when CreateProcess fails.           *)
StartHelper(t)  == helper' = [helper EXCEPT ![t] = "running"] /\ UNCHANGED cmd
NextCommand(t)  == cmd' = [cmd EXCEPT ![t] = @ + 1] /\ helper' = [helper EXCEPT ![t] = "none"]
(* Mutant: the first command has index 0. *)
FirstCommandIsZero(t) == cmd' = [cmd EXCEPT ![t] = 0] /\ helper' = [helper EXCEPT ![t] = "none"]

FirstCommand(t) == cmd' = [cmd EXCEPT ![t] = 1] /\ helper' = [helper EXCEPT ![t] = "none"]

Init ==
  /\ unit \in Units
  /\ status = "START_PENDING" /\ scm = "START_PENDING" /\ reporting = {}
  /\ stopReported = FALSE /\ process = "up"
  /\ main = "start" /\ event = "null" /\ hThread = "NULL"
  /\ thr = "none" /\ ex = Success
  /\ ctl = "idle" /\ original = "STOPPED" /\ target = NoProcess
  /\ quiet = FALSE
  /\ pid = NoProcess /\ handle = "null" /\ live = {} /\ code = Success
  /\ launches = 0 /\ execStartPID = NoProcess
  /\ helper = [t \in {"thr", "ctl"} |-> "none"]
  /\ cmd = [t \in {"thr", "ctl"} |-> 1]

-----------------------------------------------------------------------------
(* ServiceMain *)

StartBegin ==
  /\ MainAt("start")
  /\ SetServiceStatus("main", "START_PENDING")
  /\ main' = "onStart"
  /\ UNCHANGED <<unit, event, hThread, ctlVars, thr, ex, mainProc, cmdVars>>

(* OnStart of a unit that is no timer.  When the registry cannot be read it *)
(* returns without a service thread.                                        *)
OnStart ==
  /\ MainAt("onStart")
  /\ \/ RegistryFails /\ main' = "started" /\ UNCHANGED scmVars
     \/ main' = "spawn" /\ SetServiceStatus("main", "RUNNING")
  /\ UNCHANGED <<unit, event, hThread, ctlVars, thr, ex, mainProc, cmdVars>>

(* CreateThread, whose result is stored only afterwards (OnStartAssign).    *)
OnStartSpawn ==
  /\ MainAt("spawn")
  /\ \/ hThread # "NULL" /\ main' = "started" /\ UNCHANGED <<thr, scmVars>>
     \/ hThread = "NULL" /\ main' = "assign" /\ thr' = "conditions" /\ UNCHANGED scmVars
     \/ hThread = "NULL" /\ main' = "event" /\ SetServiceStatus("main", "STOPPED") /\ UNCHANGED thr
  /\ UNCHANGED <<unit, event, hThread, ctlVars, ex, mainProc, cmdVars>>

OnStartAssign ==
  /\ MainAt("assign")
  /\ hThread' = "OPEN" /\ main' = "started"
  /\ UNCHANGED <<unit, scmVars, event, ctlVars, thr, ex, mainProc, cmdVars>>

StartEnd ==
  /\ MainAt("started")
  /\ SetServiceStatus("main", "RUNNING")
  /\ main' = "event"
  /\ UNCHANGED <<unit, event, hThread, ctlVars, thr, ex, mainProc, cmdVars>>

CreateStopEvent ==
  /\ MainAt("event")
  /\ \/ event' = "reset" /\ main' = "wait"
     \/ main' = "returned" /\ UNCHANGED event
  /\ UNCHANGED <<unit, scmVars, hThread, ctlVars, thr, ex, mainProc, cmdVars>>

WaitStopEvent ==
  /\ MainAt("wait") /\ event = "set"
  /\ main' = "returned"
  /\ UNCHANGED <<unit, scmVars, event, hThread, ctlVars, thr, ex, mainProc, cmdVars>>

ServiceMain ==
  \/ Report("main")
  \/ StartBegin \/ OnStart \/ OnStartSpawn \/ OnStartAssign \/ StartEnd
  \/ CreateStopEvent \/ WaitStopEvent

-----------------------------------------------------------------------------
(* ServiceThread *)

Throw(c) == thr' = "catch" /\ ex' = c
GoTo(step) == thr' = step /\ UNCHANGED ex

(* EvaluateConditions, the files of Before= and After=, START_PENDING.     *)
CheckConditions ==
  /\ ThreadAt("conditions")
  /\ \/ SetServiceStatus("thr", "STOPPED") /\ Throw(Success)
     \/ Throw(Failure) /\ UNCHANGED scmVars
     \/ SetServiceStatus("thr", "START_PENDING") /\ GoTo("after")
  /\ UNCHANGED <<unit, mainVars, ctlVars, mainProc, cmdVars>>

(* WaitForDependents(m_ServicesAfter) and the environment files. *)
WaitAfterAndEnvironment ==
  /\ ThreadAt("after")
  /\ \/ GoTo("pre") /\ FirstCommand("thr")
     \/ Throw(Failure) /\ UNCHANGED cmdVars
  /\ UNCHANGED <<unit, scmVars, mainVars, ctlVars, mainProc>>

(* One command of a list: what follows its success, an ignored failure and  *)
(* a failure that is not ignored.                                           *)
RunCommand(list, here, waiting, next) ==
  /\ ThreadAt(here)
  /\ \/ cmd["thr"] > Len(list) /\ GoTo(next) /\ UNCHANGED cmdVars
     \/ cmd["thr"] <= Len(list) /\ GoTo(waiting) /\ StartHelper("thr")
     \/ /\ cmd["thr"] <= Len(list)
        /\ \/ list[cmd["thr"]] /\ GoTo(here) /\ NextCommand("thr")
           \/ ~list[cmd["thr"]] /\ Throw(Failure) /\ UNCHANGED cmdVars
  /\ UNCHANGED <<unit, scmVars, mainVars, ctlVars, mainProc>>

CommandDone(list, here, waiting) ==
  /\ ThreadAt(waiting)
  /\ helper["thr"] \in {"ok", "failed"}
  /\ NextCommand("thr")
  /\ IF helper["thr"] = "failed" /\ ~list[cmd["thr"]] THEN Throw(Failure) ELSE GoTo(here)
  /\ UNCHANGED <<unit, scmVars, mainVars, ctlVars, mainProc>>

ExecStartPre     == RunCommand(unit.execStartPre, "pre", "preWait", "launch")
ExecStartPreDone == CommandDone(unit.execStartPre, "pre", "preWait")

(* StartProcess clears m_ExecStartProcInfo before it creates the process.  *)
ExecStart ==
  /\ ThreadAt("launch")
  /\ \/ ~unit.execStart /\ GoTo("post") /\ FirstCommand("thr") /\ UNCHANGED mainProc
     \/ /\ unit.execStart /\ GoTo("create")
        /\ pid' = NoProcess /\ handle' = "null"
        /\ UNCHANGED <<live, code, launches, execStartPID, cmdVars>>
  /\ UNCHANGED <<unit, scmVars, mainVars, ctlVars>>

CreateMain ==
  /\ ThreadAt("create")
  /\ \/ /\ launches < MaxLaunch
        /\ launches' = launches + 1
        /\ pid' = launches' /\ handle' = "open" /\ live' = live \cup {launches'}
        /\ GoTo("created")
     \/ Throw(Failure) /\ UNCHANGED <<launches, pid, handle, live>>
  /\ UNCHANGED <<unit, scmVars, mainVars, ctlVars, code, execStartPID, cmdVars>>

ReportRunning ==
  /\ ThreadAt("created")
  /\ SetServiceStatus("thr", "RUNNING") /\ GoTo("register")
  /\ UNCHANGED <<unit, mainVars, ctlVars, mainProc, cmdVars>>

(* Mutant: a value left by an earlier round is kept. *)
RegisterMainPIDOnce ==
  /\ ThreadAt("register")
  /\ execStartPID' = (IF execStartPID = NoProcess THEN pid ELSE execStartPID) /\ GoTo("wait")
  /\ UNCHANGED <<unit, scmVars, mainVars, ctlVars, pid, handle, live, code, launches, cmdVars>>

RegisterMainPID ==
  /\ ThreadAt("register") /\ GoTo("wait")
  /\ \/ execStartPID' = pid
     \/ RegistryFails /\ UNCHANGED execStartPID
  /\ UNCHANGED <<unit, scmVars, mainVars, ctlVars, pid, handle, live, code, launches, cmdVars>>

(* Mutant: the wait for the main process has a timeout. *)
WaitMainTimesOut ==
  /\ ThreadAt("wait")
  /\ handle' = "closed"
  /\ IF code = Success THEN GoTo("deregister") ELSE Throw(code)
  /\ UNCHANGED <<unit, scmVars, mainVars, ctlVars, pid, live, code, launches, execStartPID, cmdVars>>

(* The handle is closed but stays in m_ExecStartProcInfo, as does the pid. *)
WaitMain ==
  /\ ThreadAt("wait") /\ pid \notin live
  /\ handle' = "closed"
  /\ IF code = Success THEN GoTo("deregister") ELSE Throw(code)
  /\ UNCHANGED <<unit, scmVars, mainVars, ctlVars, pid, live, code, launches, execStartPID, cmdVars>>

DeregisterMainPID ==
  /\ ThreadAt("deregister")
  /\ \/ execStartPID' = NoProcess
     \/ RegistryFails /\ UNCHANGED execStartPID
  /\ GoTo("post") /\ FirstCommand("thr")
  /\ UNCHANGED <<unit, scmVars, mainVars, ctlVars, pid, handle, live, code, launches>>

ExecStartPost     == RunCommand(unit.execStartPost, "post", "postWait", "dependents")
ExecStartPostDone == CommandDone(unit.execStartPost, "post", "postWait")

(* The result of WaitForDependents(m_Dependencies) is ignored. *)
WaitDependents ==
  /\ ThreadAt("dependents") /\ Throw(Success)
  /\ UNCHANGED <<unit, scmVars, mainVars, ctlVars, mainProc, cmdVars>>

(* Mutants: a forgotten exit code, a forgotten break. *)
MayRestartOnAnyCode(restart, exitCode) ==
  restart \in {"always", "on_abnormal", "on_success", "on_failure"}
MayRestartFallsThrough(restart, exitCode) ==
  restart \in {"no", "always", "on_abnormal"}

(* The switch of the catch block: does Restart= ask for another round? *)
MayRestart(restart, exitCode) ==
  \/ restart \in {"always", "on_abnormal"}
  \/ restart = "on_success" /\ exitCode = Success
  \/ restart = "on_failure" /\ exitCode # Success

CatchRestartException ==
  /\ ThreadAt("catch")
  /\ SetServiceStatus("thr", "PAUSED")
  /\ thr' = IF MayRestart(unit.restart, ex) THEN "sleep" ELSE "leave"
  /\ ex' = Success
  /\ UNCHANGED <<unit, mainVars, ctlVars, mainProc, cmdVars>>

RestartSleep ==
  /\ ThreadAt("sleep") /\ GoTo("conditions")
  /\ UNCHANGED <<unit, scmVars, mainVars, ctlVars, mainProc, cmdVars>>

(* Mutant: the thread returns without a last report. *)
ServiceThreadExitSilent ==
  /\ ThreadAt("leave")
  /\ GoTo("ended")
  /\ UNCHANGED <<unit, scmVars, mainVars, ctlVars, mainProc, cmdVars>>

ServiceThreadExit ==
  /\ ThreadAt("leave")
  /\ SetServiceStatus("thr", "STOPPED") /\ GoTo("ended")
  /\ UNCHANGED <<unit, mainVars, ctlVars, mainProc, cmdVars>>

ServiceThread ==
  \/ Report("thr")
  \/ CheckConditions \/ WaitAfterAndEnvironment
  \/ ExecStartPre \/ ExecStartPreDone \/ ExecStart \/ CreateMain
  \/ ReportRunning \/ RegisterMainPID \/ WaitMain \/ DeregisterMainPID
  \/ ExecStartPost \/ ExecStartPostDone \/ WaitDependents
  \/ CatchRestartException \/ RestartSleep \/ ServiceThreadExit

-----------------------------------------------------------------------------
(* The control dispatcher *)

(* The SCM forwards a control only in these states, one at a time, and none *)
(* once the wrapper has reported SERVICE_STOPPED.                           *)
Accepting ==
  /\ ControlAt("idle") /\ ~stopReported
  /\ scm \notin {"STOPPED", "START_PENDING", "STOP_PENDING"}

Up == main = "wait" /\ thr = "wait" /\ pid \in live

StopBegin ==
  /\ Accepting
  /\ original' = status
  /\ SetServiceStatus("ctl", "STOP_PENDING")
  /\ quiet' = Up
  /\ ctl' = "execStop"
  /\ UNCHANGED <<unit, mainVars, target, thr, ex, mainProc, cmdVars>>

ControlTo(step) == ctl' = step /\ UNCHANGED <<original, target, quiet>>

(* The end of Stop: its locals go out of scope. *)
ReturnFromStop ==
  /\ ctl' = "idle" /\ original' = "STOPPED" /\ target' = NoProcess /\ quiet' = FALSE

(* A failing ExecStop throws out of OnStop. *)
ExecStop ==
  /\ ControlAt("execStop")
  /\ \/ ~unit.execStop /\ ControlTo("ask") /\ UNCHANGED cmdVars
     \/ unit.execStop /\ ControlTo("execStopWait") /\ StartHelper("ctl")
     \/ unit.execStop /\ ControlTo("stopFailed") /\ UNCHANGED cmdVars
  /\ UNCHANGED <<unit, scmVars, mainVars, thr, ex, mainProc>>

ExecStopDone ==
  /\ ControlAt("execStopWait")
  /\ \/ helper["ctl"] = "ok" /\ ControlTo("ask")
     \/ helper["ctl"] = "failed" /\ ControlTo("stopFailed")
  /\ helper' = [helper EXCEPT !["ctl"] = "none"]
  /\ UNCHANGED <<unit, scmVars, mainVars, thr, ex, mainProc, cmd>>

(* The control-break event, or nothing when m_Signal is SIGKILL or there is *)
(* no console to attach: the main process may or may not end meanwhile.     *)
AskNicely ==
  /\ ControlAt("ask") /\ ControlTo("kill")
  /\ UNCHANGED <<unit, scmVars, mainVars, thr, ex, mainProc, cmdVars>>

(* taskkill /f /t on the pid that m_ExecStartProcInfo held when its command *)
(* line was put together.                                                   *)
ReadMainPID ==
  /\ ControlAt("kill")
  /\ target' = pid /\ ctl' = "taskkill"
  /\ UNCHANGED <<unit, scmVars, mainVars, original, quiet, thr, ex, mainProc, cmdVars>>

(* KillProcessTree does not look at the result of the command: one that     *)
(* fails leaves the process alive, and OnStop goes on.                      *)
KillMain ==
  /\ ControlAt("taskkill") /\ ControlTo("killed")
  /\ \/ live' = live \ {target} /\ code' = IF target \in live THEN Failure ELSE code
     \/ UNCHANGED <<live, code>>
  /\ UNCHANGED <<unit, scmVars, mainVars, thr, ex, pid, handle, launches, execStartPID, cmdVars>>

(* WaitForSingleObject on the hProcess that m_ExecStartProcInfo holds now: *)
(* a closed handle makes it return at once.                                *)
WaitKilled ==
  /\ ControlAt("killed")
  /\ \/ handle = "open" /\ ctl' = "waitMain" /\ target' = pid
     \/ handle # "open" /\ ctl' = "terminate" /\ target' = NoProcess
  /\ UNCHANGED <<unit, scmVars, mainVars, original, quiet, thr, ex, mainProc, cmdVars>>

(* Mutant: the wait for the end of the main process has a limit. *)
WaitKilledTimesOut ==
  /\ ControlAt("waitMain")
  /\ ctl' = "terminate" /\ target' = NoProcess
  /\ UNCHANGED <<unit, scmVars, mainVars, original, quiet, thr, ex, mainProc, cmdVars>>

WaitKilledDone ==
  /\ ControlAt("waitMain") /\ target \notin live
  /\ ctl' = "terminate" /\ target' = NoProcess
  /\ UNCHANGED <<unit, scmVars, mainVars, original, quiet, thr, ex, mainProc, cmdVars>>

(* Mutant: the handle is closed but the thread goes on. *)
CloseServiceThread ==
  /\ ControlAt("terminate") /\ hThread # "INVALID"
  /\ hThread' = "INVALID"
  /\ ControlTo("stopPost")
  /\ FirstCommand("ctl")
  /\ UNCHANGED <<unit, scmVars, main, event, thr, ex, mainProc>>

(* TerminateThread and the wait for it.  On INVALID_HANDLE_VALUE, which an  *)
(* earlier stop left, the wait never returns: that value is the             *)
(* pseudo-handle of the wrapper's own process.                              *)
TerminateServiceThread ==
  /\ ControlAt("terminate") /\ hThread # "INVALID"
  /\ thr' = IF hThread = "OPEN" /\ thr # "ended" THEN "dead" ELSE thr
  /\ hThread' = "INVALID"
  /\ reporting' = reporting \ (IF hThread = "OPEN" THEN {"thr"} ELSE {})
  /\ ControlTo("stopPost")
  /\ FirstCommand("ctl")
  /\ UNCHANGED <<unit, status, scm, stopReported, process, main, event, ex, mainProc>>

ExecStopPost ==
  /\ ControlAt("stopPost")
  /\ \/ cmd["ctl"] > unit.execStopPost /\ ControlTo("stopped") /\ UNCHANGED cmdVars
     \/ cmd["ctl"] <= unit.execStopPost /\ ControlTo("stopPostWait") /\ StartHelper("ctl")
     \/ cmd["ctl"] <= unit.execStopPost /\ ControlTo("stopFailed") /\ UNCHANGED cmdVars
  /\ UNCHANGED <<unit, scmVars, mainVars, thr, ex, mainProc>>

(* Mutant: the same command again and again. *)
ExecStopPostAgain ==
  /\ ControlAt("stopPostWait") /\ helper["ctl"] \in {"ok", "failed"}
  /\ ControlTo(IF helper["ctl"] = "ok" THEN "stopPost" ELSE "stopFailed")
  /\ helper' = [helper EXCEPT !["ctl"] = "none"]
  /\ UNCHANGED <<unit, scmVars, mainVars, thr, ex, mainProc, cmd>>

ExecStopPostDone ==
  /\ ControlAt("stopPostWait") /\ helper["ctl"] \in {"ok", "failed"}
  /\ ControlTo(IF helper["ctl"] = "ok" THEN "stopPost" ELSE "stopFailed")
  /\ NextCommand("ctl")
  /\ UNCHANGED <<unit, scmVars, mainVars, thr, ex, mainProc>>

StopEnd ==
  /\ ControlAt("stopped")
  /\ SetServiceStatus("ctl", "STOPPED") /\ ControlTo("signal")
  /\ UNCHANGED <<unit, mainVars, thr, ex, mainProc, cmdVars>>

(* SetEvent on the NULL handle, before ServiceMain created the event, is lost. *)
SignalStopEvent ==
  /\ ControlAt("signal")
  /\ event' = IF event = "null" THEN "null" ELSE "set"
  /\ ReturnFromStop
  /\ UNCHANGED <<unit, scmVars, main, hThread, thr, ex, mainProc, cmdVars>>

StopFailed ==
  /\ ControlAt("stopFailed")
  /\ SetServiceStatus("ctl", original) /\ ReturnFromStop
  /\ UNCHANGED <<unit, mainVars, thr, ex, mainProc, cmdVars>>

PauseBegin ==
  /\ Accepting /\ SetServiceStatus("ctl", "PAUSE_PENDING") /\ ControlTo("pausing")
  /\ UNCHANGED <<unit, mainVars, thr, ex, mainProc, cmdVars>>

PauseEnd ==
  /\ ControlAt("pausing") /\ SetServiceStatus("ctl", "PAUSED") /\ ControlTo("idle")
  /\ UNCHANGED <<unit, mainVars, thr, ex, mainProc, cmdVars>>

ContinueBegin ==
  /\ Accepting /\ SetServiceStatus("ctl", "CONTINUE_PENDING") /\ ControlTo("continuing")
  /\ UNCHANGED <<unit, mainVars, thr, ex, mainProc, cmdVars>>

ContinueEnd ==
  /\ ControlAt("continuing") /\ SetServiceStatus("ctl", "RUNNING") /\ ControlTo("idle")
  /\ UNCHANGED <<unit, mainVars, thr, ex, mainProc, cmdVars>>

(* OnShutdown is empty: no process is stopped. *)
Shutdown ==
  /\ Accepting /\ SetServiceStatus("ctl", "STOPPED")
  /\ UNCHANGED <<unit, mainVars, ctlVars, thr, ex, mainProc, cmdVars>>

Control == StopBegin \/ PauseBegin \/ ContinueBegin \/ Shutdown

ControlHandler ==
  \/ Report("ctl")
  \/ ExecStop \/ ExecStopDone \/ AskNicely \/ ReadMainPID \/ KillMain
  \/ WaitKilled \/ WaitKilledDone \/ TerminateServiceThread
  \/ ExecStopPost \/ ExecStopPostDone \/ StopEnd \/ SignalStopEvent
  \/ StopFailed \/ PauseEnd \/ ContinueEnd

-----------------------------------------------------------------------------
(* What runs outside systemd-exec *)

(* The dispatcher returns, wmain returns and the process ends: the SCM has *)
(* seen SERVICE_STOPPED and no control handler is running.                 *)
ProcessExit ==
  /\ ControlAt("idle") /\ stopReported
  /\ process' = "exited" /\ scm' = "STOPPED" /\ reporting' = {}
  /\ thr' = IF thr \in {"none", "ended"} THEN thr ELSE "dead"
  /\ UNCHANGED <<unit, status, stopReported, mainVars, ctlVars, ex, mainProc, cmdVars>>

MainExits ==
  /\ process = "up"
  /\ \E p \in live, c \in {Success, Failure} : live' = live \ {p} /\ code' = c
  /\ UNCHANGED <<unit, scmVars, mainVars, ctlVars, thr, ex, pid, handle,
                 launches, execStartPID, cmdVars>>

HelperExits(t) ==
  /\ process = "up" /\ helper[t] = "running"
  /\ \E r \in {"ok", "failed"} : helper' = [helper EXCEPT ![t] = r]
  /\ UNCHANGED <<unit, scmVars, mainVars, ctlVars, thr, ex, mainProc, cmd>>

Next ==
  \/ ServiceMain \/ ServiceThread \/ Control \/ ControlHandler
  \/ ProcessExit \/ MainExits \/ HelperExits("thr") \/ HelperExits("ctl")

Spec == Init /\ [][Next]_vars

(* Windows schedules every thread that can run, a helper command ends, and *)
(* the dispatcher returns when it may.  Nothing makes a main process end   *)
(* or the SCM send a control.                                              *)
Fairness ==
  /\ WF_vars(ServiceMain)
  /\ WF_vars(ServiceThread)
  /\ WF_vars(ControlHandler)
  /\ WF_vars(ProcessExit)
  /\ WF_vars(HelperExits("thr"))
  /\ WF_vars(HelperExits("ctl"))

FairSpec == Spec /\ Fairness

-----------------------------------------------------------------------------
(* Properties *)

Threads == {"main", "thr", "ctl"}

(* Every variable keeps to the values the wrapper's fields can have. *)
ReportTypeOK ==
  /\ unit \in Units
  /\ status \in States /\ scm \in States /\ reporting \subseteq Threads
  /\ stopReported \in BOOLEAN /\ process \in {"up", "exited"}
ThreadTypeOK ==
  /\ main \in MainSteps /\ thr \in ThreadSteps /\ ctl \in ControlSteps
  /\ hThread \in {"NULL", "OPEN", "INVALID"} /\ event \in {"null", "reset", "set"}
  /\ original \in States /\ quiet \in BOOLEAN
ProcessTypeOK ==
  /\ pid \in Pids \cup {NoProcess} /\ target \in Pids \cup {NoProcess}
  /\ execStartPID \in Pids \cup {NoProcess} /\ live \subseteq Pids
  /\ launches \in 0..MaxLaunch /\ handle \in {"null", "open", "closed"}
  /\ code \in {Success, Failure} /\ ex \in {Success, Failure}
CommandTypeOK ==
  /\ helper \in [{"thr", "ctl"} -> {"none", "running", "ok", "failed"}]
  /\ cmd \in [{"thr", "ctl"} -> Nat \ {0}]

TypeOK == ReportTypeOK /\ ThreadTypeOK /\ ProcessTypeOK /\ CommandTypeOK

(* A main process that lives is the one m_ExecStartProcInfo names, in every *)
(* round of the restart loop and whatever a stop interrupts: OnStop can     *)
(* always reach it, and there are never two of them.                        *)
LiveMainIsNamed == live \subseteq {pid}

(* While the registry can be written: outside the window between            *)
(* CreateProcess and RegisterMainPID, a main process that a service thread  *)
(* looks after is the one in the registry, so that systemctl show and       *)
(* systemctl kill act on it and not on an older round's.                    *)
MainIsRegistered ==
  ~RegistryFails /\ live # {} /\ thr \notin {"created", "register", "dead"} => live = {execStartPID}

(* A unit with Restart=no is launched once in the life of the wrapper.      *)
NoRestartLaunchesOnce == unit.restart = "no" => launches <= 1

(* The restart loop keeps what MainProcess promises of Restart=: an outcome *)
(* allows another round by the table below and by nothing else.  A failure  *)
(* of an ExecStartPost command counts as a failure of the round.            *)
PostMayFail == \E i \in 1..Len(unit.execStartPost) : ~unit.execStartPost[i]

AllowedAfter ==
  [no          |-> {},
   always      |-> {Success, Failure},
   on_success  |-> {Success},
   on_failure  |-> {Failure} \cup (IF PostMayFail THEN {Success} ELSE {}),
   on_abnormal |-> {Success, Failure}][unit.restart]

MP == INSTANCE MainProcess WITH
  allows <- AllowedAfter, running <- live # {}, rounds <- launches, last <- code

KeepsRestartPolicy == MP!Spec

(* A stop that found a Restart=no unit up and waiting for its main process  *)
(* has seen the end of that process, and has ended the service thread, by   *)
(* the time it runs ExecStopPost and reports SERVICE_STOPPED.  A taskkill   *)
(* that fails only delays it: OnStop then waits for the process.            *)
QuietStopKillsMain ==
  quiet /\ unit.restart = "no" /\ ctl \in {"stopPost", "stopPostWait", "stopped", "signal"}
    => live = {} /\ thr \in {"dead", "ended"}

(* Such a stop ends, unless taskkill failed and OnStop waits for a main     *)
(* process that lives on; when that process ends at last, so does the stop. *)
WaitsForSurvivor == ctl = "waitMain" /\ target \in live
QuietStopEnds ==
  quiet /\ unit.restart = "no" /\ ~WaitsForSurvivor
    ~> process = "exited" \/ ctl \in {"idle", "stopFailed"} \/ WaitsForSurvivor

(* Once start is over, a service thread that leaves its restart loop takes  *)
(* the wrapper with it, unless a control comes in between.                  *)
FinishedUnitLeaves ==
  thr = "leave" /\ main = "wait" /\ "main" \notin reporting
    ~> process = "exited" \/ ctl # "idle"

-----------------------------------------------------------------------------
(* What makes the safety properties inductive *)

BeforeLaunch == {"none", "conditions", "after", "pre", "preWait", "launch", "create"}
AfterMain == {"deregister", "post", "postWait", "dependents", "catch", "sleep",
              "leave", "ended"}
StopUntilKill == {"execStop", "execStopWait", "ask", "kill", "taskkill"}
StopAfterKill == {"killed", "waitMain", "terminate"}
StopAfterThread == {"stopPost", "stopPostWait", "stopped", "signal"}

(* The service thread starts once, and OnStart has stored its handle by the *)
(* time it returns, unless a stop has used the handle up.                   *)
ThreadInv ==
  /\ main \in {"start", "onStart", "spawn"} => thr = "none" /\ hThread # "OPEN"
  /\ thr \notin {"none", "ended", "dead"} /\ main \in {"started", "event", "wait", "returned"}
       => hThread = "OPEN"

(* A living main process is the one of the round in progress, and its       *)
(* handle is open.                                                          *)
MainInv ==
  /\ live \subseteq {pid}
  /\ thr \in BeforeLaunch \cup AfterMain => live = {}
  /\ live # {} => handle = "open"
  /\ ~RegistryFails /\ thr = "wait" => execStartPID = pid

OnceInv ==
  unit.restart = "no" =>
    thr # "sleep" /\ launches <= 1 /\ (thr \in BeforeLaunch => launches = 0)

CommandInv ==
  /\ thr = "preWait" => cmd["thr"] <= Len(unit.execStartPre)
  /\ thr = "postWait" => cmd["thr"] <= Len(unit.execStartPost)

(* A thread on its way to another launch follows an outcome that allows it. *)
Relaunching == thr \in BeforeLaunch \cup {"sleep"} /\ launches > 0
AfterSuccess == thr \in {"deregister", "post", "postWait", "dependents"} /\ launches > 0
Catching(c) == thr = "catch" /\ ex = c /\ launches > 0

PolicyInv ==
  /\ unit.restart = "on_success" =>
       (Relaunching \/ AfterSuccess \/ Catching(Success) => code = Success)
  /\ unit.restart = "on_failure" =>
       (Relaunching \/ Catching(Failure) => code = Failure \/ PostMayFail)

(* A quiet stop of a Restart=no unit: no launch can come any more, so the   *)
(* process it waits for is the main process, and stays dead.                *)
QuietInv ==
  quiet /\ unit.restart = "no" =>
    /\ main \in {"wait", "returned"}
    /\ ctl \in StopUntilKill \cup StopAfterKill \cup StopAfterThread \cup {"stopFailed"}
    /\ thr \in {"wait", "dead"} \cup AfterMain
    /\ ctl = "waitMain" => target = pid
    /\ ctl \in {"terminate"} \cup StopAfterThread => live = {}
    /\ ctl \in StopAfterThread => thr \in {"dead", "ended"}

IInv == /\ TypeOK /\ ThreadInv /\ MainInv /\ OnceInv /\ CommandInv
        /\ PolicyInv /\ QuietInv

-----------------------------------------------------------------------------
(* What the documents promise and the code does not keep. *)

(* README: systemctl stop terminates the execution of the service, which    *)
(* stays stopped until the next start.  Here: no main process outlives a    *)
(* stop that succeeded.                                                     *)
StopLeavesNoMain == ctl = "signal" => live = {}
=============================================================================
