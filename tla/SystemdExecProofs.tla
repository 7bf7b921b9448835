------------------------ MODULE SystemdExecProofs ------------------------
(***************************************************************************)
(* Proofs about SystemdExec, for every set of unit files and every bound on *)
(* the number of launches.                                                 *)
(***************************************************************************)
EXTENDS SystemdExec, TLAPS

(* The initial state is well typed. *)
LEMMA InitType == Init => TypeOK
<1> SUFFICES ASSUME Init PROVE TypeOK
  OBVIOUS
<1> USE ConstantsAssumption DEF Init, NoProcess, Success
<1>1. ReportTypeOK
  BY DEF ReportTypeOK, States, Threads
<1>2. ThreadTypeOK
  BY DEF ThreadTypeOK, States, MainSteps, ThreadSteps, ControlSteps
<1>3. ProcessTypeOK
  BY DEF ProcessTypeOK, Pids
<1>4. CommandTypeOK
  BY DEF CommandTypeOK
<1> QED
  BY <1>1, <1>2, <1>3, <1>4 DEF TypeOK

(* Every step keeps the types. *)
LEMMA NextType == TypeOK /\ [Next]_vars => TypeOK'
<1> SUFFICES ASSUME TypeOK, [Next]_vars PROVE TypeOK'
  OBVIOUS
<1> USE ConstantsAssumption
    DEF TypeOK, ReportTypeOK, ThreadTypeOK, ProcessTypeOK, CommandTypeOK,
        States, MainSteps, ThreadSteps, ControlSteps, Pids, Threads,
        NoProcess, Success, Failure,
        scmVars, mainVars, ctlVars, mainProc, cmdVars,
        SetServiceStatus, MainAt, ThreadAt, ControlAt, Throw, GoTo,
        StartHelper, NextCommand, FirstCommand, RunCommand, CommandDone,
        ControlTo, ReturnFromStop, Accepting, Up
<1>1. CASE StartBegin
  BY <1>1 DEF StartBegin
<1>2. CASE OnStart
  <2>1. ReportTypeOK'
    BY <1>2 DEF OnStart
  <2>2. ThreadTypeOK'
    BY <1>2 DEF OnStart
  <2>3. ProcessTypeOK'
    BY <1>2 DEF OnStart
  <2>4. CommandTypeOK'
    BY <1>2 DEF OnStart
  <2> QED
    BY <2>1, <2>2, <2>3, <2>4
<1>3. CASE OnStartSpawn
  <2>1. ReportTypeOK'
    BY <1>3 DEF OnStartSpawn
  <2>2. ThreadTypeOK'
    BY <1>3 DEF OnStartSpawn
  <2>3. ProcessTypeOK'
    BY <1>3 DEF OnStartSpawn
  <2>4. CommandTypeOK'
    BY <1>3 DEF OnStartSpawn
  <2> QED
    BY <2>1, <2>2, <2>3, <2>4
<1>4. CASE OnStartAssign
  BY <1>4 DEF OnStartAssign
<1>5. CASE StartEnd
  BY <1>5 DEF StartEnd
<1>6. CASE CreateStopEvent
  BY <1>6 DEF CreateStopEvent
<1>7. CASE WaitStopEvent
  BY <1>7 DEF WaitStopEvent
<1>8. CASE CheckConditions
  <2>1. ReportTypeOK'
    BY <1>8 DEF CheckConditions
  <2>2. ThreadTypeOK'
    BY <1>8 DEF CheckConditions
  <2>3. ProcessTypeOK'
    BY <1>8 DEF CheckConditions
  <2>4. CommandTypeOK'
    BY <1>8 DEF CheckConditions
  <2> QED
    BY <2>1, <2>2, <2>3, <2>4
<1>9. CASE WaitAfterAndEnvironment
  BY <1>9 DEF WaitAfterAndEnvironment
<1>10. CASE ExecStartPre
  BY <1>10 DEF ExecStartPre
<1>11. CASE ExecStartPreDone
  BY <1>11 DEF ExecStartPreDone
<1>12. CASE ExecStart
  <2>1. ReportTypeOK'
    BY <1>12 DEF ExecStart
  <2>2. ThreadTypeOK'
    BY <1>12 DEF ExecStart
  <2>3. ProcessTypeOK'
    BY <1>12 DEF ExecStart
  <2>4. CommandTypeOK'
    BY <1>12 DEF ExecStart
  <2> QED
    BY <2>1, <2>2, <2>3, <2>4
<1>13. CASE CreateMain
  <2> DEFINE Created == launches < MaxLaunch /\ launches' = launches + 1 /\ live' = live \cup {launches'}
             Failed == launches' = launches /\ live' = live
  <2>1. Created \/ Failed
    BY <1>13 DEF CreateMain
  <2>2. launches \in 0..MaxLaunch /\ live \subseteq Pids /\ MaxLaunch \in Nat
    OBVIOUS
  <2>3. Created => launches' \in 0..MaxLaunch /\ live' \subseteq Pids
    <3>1. HAVE Created
    <3>2. launches' \in 1..MaxLaunch
      BY ONLY <2>2, <3>1
    <3> QED
      BY ONLY <2>2, <3>1, <3>2 DEF Pids
  <2>4. launches' \in 0..MaxLaunch /\ live' \subseteq Pids
    BY ONLY <2>1, <2>2, <2>3 DEF Pids
  <2>5. ReportTypeOK'
    BY <1>13 DEF CreateMain
  <2>6. ThreadTypeOK'
    BY <1>13 DEF CreateMain
  <2>7. ProcessTypeOK'
    BY <1>13, <2>4 DEF CreateMain
  <2>8. CommandTypeOK'
    BY <1>13 DEF CreateMain
  <2> QED
    BY <2>5, <2>6, <2>7, <2>8
<1>14. CASE ReportRunning
  BY <1>14 DEF ReportRunning
<1>15. CASE RegisterMainPID
  BY <1>15 DEF RegisterMainPID
<1>16. CASE WaitMain
  BY <1>16 DEF WaitMain
<1>17. CASE DeregisterMainPID
  BY <1>17 DEF DeregisterMainPID
<1>18. CASE ExecStartPost
  BY <1>18 DEF ExecStartPost
<1>19. CASE ExecStartPostDone
  BY <1>19 DEF ExecStartPostDone
<1>20. CASE WaitDependents
  BY <1>20 DEF WaitDependents
<1>21. CASE CatchRestartException
  BY <1>21 DEF CatchRestartException
<1>22. CASE RestartSleep
  BY <1>22 DEF RestartSleep
<1>23. CASE ServiceThreadExit
  BY <1>23 DEF ServiceThreadExit
<1>24. CASE StopBegin
  BY <1>24 DEF StopBegin
<1>25. CASE PauseBegin
  BY <1>25 DEF PauseBegin
<1>26. CASE ContinueBegin
  BY <1>26 DEF ContinueBegin
<1>27. CASE Shutdown
  BY <1>27 DEF Shutdown
<1>28. CASE ExecStop
  BY <1>28 DEF ExecStop
<1>29. CASE ExecStopDone
  BY <1>29 DEF ExecStopDone
<1>30. CASE AskNicely
  BY <1>30 DEF AskNicely
<1>31. CASE ReadMainPID
  BY <1>31 DEF ReadMainPID
<1>32. CASE KillMain
  <2>1. live' \in {live, live \ {target}} /\ code' \in {code, Failure}
    BY <1>32 DEF KillMain
  <2>2. ProcessTypeOK'
    BY <1>32, <2>1 DEF KillMain
  <2> QED
    BY <1>32, <2>2 DEF KillMain
<1>33. CASE WaitKilled
  BY <1>33 DEF WaitKilled
<1>34. CASE WaitKilledDone
  BY <1>34 DEF WaitKilledDone
<1>35. CASE TerminateServiceThread
  BY <1>35 DEF TerminateServiceThread
<1>36. CASE ExecStopPost
  BY <1>36 DEF ExecStopPost
<1>37. CASE ExecStopPostDone
  BY <1>37 DEF ExecStopPostDone
<1>38. CASE StopEnd
  BY <1>38 DEF StopEnd
<1>39. CASE SignalStopEvent
  <2>1. ReportTypeOK'
    BY <1>39 DEF SignalStopEvent
  <2>2. ThreadTypeOK'
    <3>1. ctl' \in ControlSteps /\ original' \in States /\ quiet' \in BOOLEAN
      BY <1>39 DEF SignalStopEvent
    <3>2. main' \in MainSteps /\ thr' \in ThreadSteps
      BY <1>39 DEF SignalStopEvent
    <3>3. hThread' \in {"NULL", "OPEN", "INVALID"} /\ event' \in {"null", "reset", "set"}
      BY <1>39 DEF SignalStopEvent
    <3> QED
      BY <3>1, <3>2, <3>3 DEF ThreadTypeOK
  <2>3. ProcessTypeOK'
    BY <1>39 DEF SignalStopEvent
  <2>4. CommandTypeOK'
    BY <1>39 DEF SignalStopEvent
  <2> QED
    BY <2>1, <2>2, <2>3, <2>4
<1>40. CASE StopFailed
  <2>1. ReportTypeOK'
    BY <1>40 DEF StopFailed
  <2>2. ThreadTypeOK'
    <3>1. ctl' \in ControlSteps /\ original' \in States /\ quiet' \in BOOLEAN
      BY <1>40 DEF StopFailed
    <3>2. main' \in MainSteps /\ thr' \in ThreadSteps
      BY <1>40 DEF StopFailed
    <3>3. hThread' \in {"NULL", "OPEN", "INVALID"} /\ event' \in {"null", "reset", "set"}
      BY <1>40 DEF StopFailed
    <3> QED
      BY <3>1, <3>2, <3>3 DEF ThreadTypeOK
  <2>3. ProcessTypeOK'
    BY <1>40 DEF StopFailed
  <2>4. CommandTypeOK'
    BY <1>40 DEF StopFailed
  <2> QED
    BY <2>1, <2>2, <2>3, <2>4
<1>41. CASE PauseEnd
  BY <1>41 DEF PauseEnd
<1>42. CASE ContinueEnd
  BY <1>42 DEF ContinueEnd
<1>43. CASE ProcessExit
  BY <1>43 DEF ProcessExit
<1>44. CASE MainExits
  BY <1>44 DEF MainExits
<1>45. ASSUME NEW t \in Threads, Report(t) PROVE TypeOK'
  BY <1>45 DEF Report
<1>46. ASSUME NEW t \in {"thr", "ctl"}, HelperExits(t) PROVE TypeOK'
  BY <1>46 DEF HelperExits
<1>47. CASE UNCHANGED vars
  BY <1>47 DEF vars
<1> QED
  BY <1>1, <1>2, <1>3, <1>4, <1>5, <1>6, <1>7, <1>8, <1>9, <1>10, <1>11,
     <1>12, <1>13, <1>14, <1>15, <1>16, <1>17, <1>18, <1>19, <1>20, <1>21,
     <1>22, <1>23, <1>24, <1>25, <1>26, <1>27, <1>28, <1>29, <1>30, <1>31,
     <1>32, <1>33, <1>34, <1>35, <1>36, <1>37, <1>38, <1>39, <1>40, <1>41,
     <1>42, <1>43, <1>44, <1>45, <1>46, <1>47
     DEF Next, ServiceMain, ServiceThread, Control, ControlHandler

(* Every variable keeps its type, for every instance. *)
THEOREM TypeCorrect == Spec => []TypeOK
  BY InitType, NextType, PTL DEF Spec

-----------------------------------------------------------------------------
(* The inductive invariant, part by part *)

(* OnStart alone starts a service thread, and a stop that uses its handle   *)
(* up also ends the thread.                                                 *)
LEMMA ThreadInvStep == IInv /\ [Next]_vars => ThreadInv'
<1> SUFFICES ASSUME IInv, [Next]_vars PROVE ThreadInv'
  OBVIOUS
<1> USE DEF IInv, ThreadInv, Threads, NoProcess, Success, Failure, scmVars,
        mainVars, ctlVars, mainProc, cmdVars, SetServiceStatus, MainAt,
        ThreadAt, ControlAt, Throw, GoTo, StartHelper, NextCommand,
        FirstCommand, RunCommand, CommandDone, ControlTo, ReturnFromStop,
        Accepting
<1>1. CASE OnStart
  BY <1>1 DEF OnStart
<1>2. CASE OnStartSpawn
  BY <1>2 DEF OnStartSpawn
<1>3. CASE OnStartAssign
  BY <1>3 DEF OnStartAssign
<1>4. CASE StartBegin \/ StartEnd \/ CreateStopEvent \/ WaitStopEvent
  BY <1>4 DEF StartBegin, StartEnd, CreateStopEvent, WaitStopEvent
<1>5. CASE CheckConditions \/ WaitAfterAndEnvironment \/ ExecStartPre \/
         ExecStartPreDone \/ ExecStart \/ CreateMain \/ ReportRunning \/
         RegisterMainPID \/ DeregisterMainPID \/ ExecStartPost \/
         ExecStartPostDone \/ WaitDependents \/ RestartSleep \/
         WaitMain \/ CatchRestartException \/ ServiceThreadExit
  <2>1. CASE CheckConditions \/ WaitAfterAndEnvironment \/ ExecStartPre \/ ExecStartPreDone
    BY <2>1 DEF CheckConditions, WaitAfterAndEnvironment, ExecStartPre, ExecStartPreDone
  <2>2. CASE ExecStart \/ CreateMain \/ ReportRunning
    BY <2>2 DEF ExecStart, CreateMain, ReportRunning
  <2>3. CASE RegisterMainPID \/ DeregisterMainPID \/ ExecStartPost \/ ExecStartPostDone
    BY <2>3 DEF RegisterMainPID, DeregisterMainPID, ExecStartPost, ExecStartPostDone
  <2>4. CASE WaitDependents \/ RestartSleep \/ ServiceThreadExit
    BY <2>4 DEF WaitDependents, RestartSleep, ServiceThreadExit
  <2>5. CASE WaitMain \/ CatchRestartException
    BY <2>5 DEF WaitMain, CatchRestartException
  <2> QED
    BY <1>5, <2>1, <2>2, <2>3, <2>4, <2>5
<1>6. CASE StopBegin \/ PauseBegin \/ ContinueBegin \/ Shutdown
  BY <1>6 DEF StopBegin, PauseBegin, ContinueBegin, Shutdown
<1>7. CASE TerminateServiceThread
  BY <1>7 DEF TerminateServiceThread
<1>8. CASE ExecStop \/ ExecStopDone \/ AskNicely \/ ReadMainPID \/ KillMain \/
         WaitKilled \/ WaitKilledDone \/ ExecStopPost \/ ExecStopPostDone \/
         StopEnd \/ SignalStopEvent \/ StopFailed \/ PauseEnd \/ ContinueEnd
  BY <1>8 DEF ExecStop, ExecStopDone, AskNicely, ReadMainPID, KillMain,
     WaitKilled, WaitKilledDone, ExecStopPost, ExecStopPostDone, StopEnd,
     SignalStopEvent, StopFailed, PauseEnd, ContinueEnd
<1>9. CASE ProcessExit
  BY <1>9 DEF ProcessExit
<1>10. CASE MainExits
  BY <1>10 DEF MainExits
<1>11. ASSUME NEW t \in Threads, Report(t) PROVE ThreadInv'
  BY <1>11 DEF Report
<1>12. ASSUME NEW t \in {"thr", "ctl"}, HelperExits(t) PROVE ThreadInv'
  BY <1>12 DEF HelperExits
<1>13. CASE UNCHANGED vars
  BY <1>13 DEF vars
<1> HIDE DEF IInv, ThreadInv
<1>14. CASE ServiceMain
  BY <1>1, <1>2, <1>3, <1>4, <1>11, <1>14 DEF ServiceMain
<1>15. CASE ServiceThread
  BY <1>5, <1>9, <1>10, <1>11, <1>15 DEF ServiceThread
<1>16. CASE Control \/ ControlHandler
  BY <1>6, <1>7, <1>8, <1>11, <1>16 DEF Control, ControlHandler
<1> QED
  BY <1>9, <1>10, <1>12, <1>13, <1>14, <1>15, <1>16 DEF Next

(* The thread forgets a main process (StartProcess clears the record) only  *)
(* after waiting for its end, and nobody else creates one.                  *)
LEMMA MainInvStep == IInv /\ [Next]_vars => MainInv'
<1> SUFFICES ASSUME IInv, [Next]_vars PROVE MainInv'
  OBVIOUS
<1> USE DEF IInv, MainInv, ThreadInv, BeforeLaunch, AfterMain, Threads,
        NoProcess, Success, Failure, scmVars, mainVars, ctlVars, mainProc,
        cmdVars, SetServiceStatus, MainAt, ThreadAt, ControlAt, Throw, GoTo,
        StartHelper, NextCommand, FirstCommand, RunCommand, CommandDone,
        ControlTo, ReturnFromStop, Accepting
<1>1. CASE OnStartSpawn
  BY <1>1 DEF OnStartSpawn
<1>2. CASE StartBegin \/ OnStart \/ OnStartAssign \/ StartEnd \/
         CreateStopEvent \/ WaitStopEvent
  BY <1>2 DEF StartBegin, OnStart, OnStartAssign, StartEnd, CreateStopEvent,
     WaitStopEvent
<1>3. CASE ExecStart
  BY <1>3 DEF ExecStart
<1>4. CASE CreateMain
  BY <1>4 DEF CreateMain
<1>5. CASE RegisterMainPID
  BY <1>5 DEF RegisterMainPID
<1>6. CASE WaitMain
  BY <1>6 DEF WaitMain
<1>7. CASE CheckConditions \/ WaitAfterAndEnvironment \/ ExecStartPre \/
         ExecStartPreDone \/ ReportRunning \/ DeregisterMainPID \/
         ExecStartPost \/ ExecStartPostDone \/ WaitDependents \/
         CatchRestartException \/ RestartSleep \/ ServiceThreadExit
  BY <1>7 DEF CheckConditions, WaitAfterAndEnvironment, ExecStartPre,
     ExecStartPreDone, ReportRunning, DeregisterMainPID, ExecStartPost,
     ExecStartPostDone, WaitDependents, CatchRestartException, RestartSleep,
     ServiceThreadExit
<1>8. CASE StopBegin \/ PauseBegin \/ ContinueBegin \/ Shutdown
  BY <1>8 DEF StopBegin, PauseBegin, ContinueBegin, Shutdown
<1>9. CASE KillMain
  BY <1>9 DEF KillMain
<1>10. CASE TerminateServiceThread
  BY <1>10 DEF TerminateServiceThread
<1>11. CASE ExecStop \/ ExecStopDone \/ AskNicely \/ ReadMainPID \/ WaitKilled
         \/ WaitKilledDone \/ ExecStopPost \/ ExecStopPostDone \/ StopEnd \/
         SignalStopEvent \/ StopFailed \/ PauseEnd \/ ContinueEnd
  BY <1>11 DEF ExecStop, ExecStopDone, AskNicely, ReadMainPID, WaitKilled,
     WaitKilledDone, ExecStopPost, ExecStopPostDone, StopEnd, SignalStopEvent,
     StopFailed, PauseEnd, ContinueEnd
<1>12. CASE ProcessExit
  BY <1>12 DEF ProcessExit
<1>13. CASE MainExits
  BY <1>13 DEF MainExits
<1>14. ASSUME NEW t \in Threads, Report(t) PROVE MainInv'
  BY <1>14 DEF Report
<1>15. ASSUME NEW t \in {"thr", "ctl"}, HelperExits(t) PROVE MainInv'
  BY <1>15 DEF HelperExits
<1>16. CASE UNCHANGED vars
  BY <1>16 DEF vars
<1> QED
  BY <1>1, <1>2, <1>3, <1>4, <1>5, <1>6, <1>7, <1>8, <1>9, <1>10, <1>11,
     <1>12, <1>13, <1>14, <1>15, <1>16 DEF Next, ServiceMain, ServiceThread,
     Control, ControlHandler

(* With Restart=no the catch block leaves the loop, so the thread launches  *)
(* from its first round only.                                               *)
LEMMA OnceInvStep == IInv /\ [Next]_vars => OnceInv'
<1> SUFFICES ASSUME IInv, [Next]_vars PROVE OnceInv'
  OBVIOUS
<1> USE DEF IInv, OnceInv, ThreadInv, BeforeLaunch, MayRestart, Threads,
        NoProcess, Success, Failure, scmVars, mainVars, ctlVars, mainProc,
        cmdVars, SetServiceStatus, MainAt, ThreadAt, ControlAt, Throw, GoTo,
        StartHelper, NextCommand, FirstCommand, RunCommand, CommandDone,
        ControlTo, ReturnFromStop, Accepting
<1>1. CASE OnStartSpawn
  BY <1>1 DEF OnStartSpawn
<1>2. CASE StartBegin \/ OnStart \/ OnStartAssign \/ StartEnd \/
         CreateStopEvent \/ WaitStopEvent
  BY <1>2 DEF StartBegin, OnStart, OnStartAssign, StartEnd, CreateStopEvent,
     WaitStopEvent
<1>3. CASE CreateMain
  BY <1>3 DEF CreateMain
<1>4. CASE WaitMain
  BY <1>4 DEF WaitMain
<1>5. CASE CatchRestartException
  BY <1>5 DEF CatchRestartException
<1>6. CASE RestartSleep
  BY <1>6 DEF RestartSleep
<1>7. CASE CheckConditions \/ WaitAfterAndEnvironment \/ ExecStartPre \/
         ExecStartPreDone \/ ExecStart \/ ReportRunning \/ RegisterMainPID \/
         DeregisterMainPID \/ ExecStartPost \/ ExecStartPostDone \/
         WaitDependents \/ ServiceThreadExit
  BY <1>7 DEF CheckConditions, WaitAfterAndEnvironment, ExecStartPre,
     ExecStartPreDone, ExecStart, ReportRunning, RegisterMainPID,
     DeregisterMainPID, ExecStartPost, ExecStartPostDone, WaitDependents,
     ServiceThreadExit
<1>8. CASE StopBegin \/ PauseBegin \/ ContinueBegin \/ Shutdown
  BY <1>8 DEF StopBegin, PauseBegin, ContinueBegin, Shutdown
<1>9. CASE ExecStop \/ ExecStopDone \/ AskNicely \/ ReadMainPID \/ KillMain \/
         WaitKilled \/ WaitKilledDone \/ TerminateServiceThread \/
         ExecStopPost \/ ExecStopPostDone \/ StopEnd \/ SignalStopEvent \/
         StopFailed \/ PauseEnd \/ ContinueEnd
  BY <1>9 DEF ExecStop, ExecStopDone, AskNicely, ReadMainPID, KillMain,
     WaitKilled, WaitKilledDone, TerminateServiceThread, ExecStopPost,
     ExecStopPostDone, StopEnd, SignalStopEvent, StopFailed, PauseEnd,
     ContinueEnd
<1>10. CASE ProcessExit \/ MainExits
  BY <1>10 DEF ProcessExit, MainExits
<1>11. ASSUME NEW t \in Threads, Report(t) PROVE OnceInv'
  BY <1>11 DEF Report
<1>12. ASSUME NEW t \in {"thr", "ctl"}, HelperExits(t) PROVE OnceInv'
  BY <1>12 DEF HelperExits
<1>13. CASE UNCHANGED vars
  BY <1>13 DEF vars
<1> QED
  BY <1>1, <1>2, <1>3, <1>4, <1>5, <1>6, <1>7, <1>8, <1>9, <1>10, <1>11,
     <1>12, <1>13 DEF Next, ServiceMain, ServiceThread, Control,
     ControlHandler

(* A command is waited for only while it is on its list.                    *)
LEMMA CommandInvStep == IInv /\ [Next]_vars => CommandInv'
<1> SUFFICES ASSUME IInv, [Next]_vars PROVE CommandInv'
  OBVIOUS
<1> USE DEF IInv, CommandInv, Threads, NoProcess, Success, Failure, scmVars,
        mainVars, ctlVars, mainProc, cmdVars, SetServiceStatus, MainAt,
        ThreadAt, ControlAt, Throw, GoTo, StartHelper, NextCommand,
        FirstCommand, RunCommand, CommandDone, ControlTo, ReturnFromStop,
        Accepting
<1>1. CASE StartBegin \/ OnStart \/ OnStartSpawn \/ OnStartAssign \/ StartEnd
         \/ CreateStopEvent \/ WaitStopEvent
  BY <1>1 DEF StartBegin, OnStart, OnStartSpawn, OnStartAssign, StartEnd,
     CreateStopEvent, WaitStopEvent
<1>2. CASE ExecStartPre
  BY <1>2 DEF ExecStartPre
<1>3. CASE ExecStartPreDone
  BY <1>3 DEF ExecStartPreDone
<1>4. CASE ExecStartPost
  BY <1>4 DEF ExecStartPost
<1>5. CASE ExecStartPostDone
  BY <1>5 DEF ExecStartPostDone
<1>6. CASE CheckConditions \/ WaitAfterAndEnvironment \/ ExecStart \/
         CreateMain \/ ReportRunning \/ RegisterMainPID \/ WaitMain \/
         DeregisterMainPID \/ WaitDependents \/ CatchRestartException \/
         RestartSleep \/ ServiceThreadExit
  BY <1>6 DEF CheckConditions, WaitAfterAndEnvironment, ExecStart, CreateMain,
     ReportRunning, RegisterMainPID, WaitMain, DeregisterMainPID,
     WaitDependents, CatchRestartException, RestartSleep, ServiceThreadExit
<1>7. CASE StopBegin \/ PauseBegin \/ ContinueBegin \/ Shutdown
  BY <1>7 DEF StopBegin, PauseBegin, ContinueBegin, Shutdown
<1>8. CASE TerminateServiceThread
  BY <1>8 DEF TerminateServiceThread
<1>9. CASE ExecStopPostDone
  BY <1>9 DEF ExecStopPostDone
<1>10. CASE ExecStop \/ ExecStopDone \/ AskNicely \/ ReadMainPID \/ KillMain
         \/ WaitKilled \/ WaitKilledDone \/ ExecStopPost \/ StopEnd \/
         SignalStopEvent \/ StopFailed \/ PauseEnd \/ ContinueEnd
  BY <1>10 DEF ExecStop, ExecStopDone, AskNicely, ReadMainPID, KillMain,
     WaitKilled, WaitKilledDone, ExecStopPost, StopEnd, SignalStopEvent,
     StopFailed, PauseEnd, ContinueEnd
<1>11. CASE ProcessExit \/ MainExits
  BY <1>11 DEF ProcessExit, MainExits
<1>12. ASSUME NEW t \in Threads, Report(t) PROVE CommandInv'
  BY <1>12 DEF Report
<1>13. ASSUME NEW t \in {"thr", "ctl"}, HelperExits(t) PROVE CommandInv'
  BY <1>13 DEF HelperExits
<1>14. CASE UNCHANGED vars
  BY <1>14 DEF vars
<1> QED
  BY <1>1, <1>2, <1>3, <1>4, <1>5, <1>6, <1>7, <1>8, <1>9, <1>10, <1>11,
     <1>12, <1>13, <1>14 DEF Next, ServiceMain, ServiceThread, Control,
     ControlHandler

(* The catch block goes on only after an outcome that the policy allows,    *)
(* and no main process can change that outcome before the next launch.      *)
LEMMA PolicyInvStep == IInv /\ [Next]_vars => PolicyInv'
<1> SUFFICES ASSUME IInv, [Next]_vars PROVE PolicyInv'
  OBVIOUS
<1> USE DEF IInv, PolicyInv, CommandInv, MainInv, ThreadInv, BeforeLaunch,
        AfterMain, Relaunching, AfterSuccess, Catching, MayRestart,
        PostMayFail, Threads, NoProcess, Success, Failure, scmVars, mainVars,
        ctlVars, mainProc, cmdVars, SetServiceStatus, MainAt, ThreadAt,
        ControlAt, Throw, GoTo, StartHelper, NextCommand, FirstCommand,
        RunCommand, CommandDone, ControlTo, ReturnFromStop, Accepting
<1>1. CASE OnStartSpawn
  BY <1>1 DEF OnStartSpawn
<1>2. CASE StartBegin \/ OnStart \/ OnStartAssign \/ StartEnd \/
         CreateStopEvent \/ WaitStopEvent
  BY <1>2 DEF StartBegin, OnStart, OnStartAssign, StartEnd, CreateStopEvent,
     WaitStopEvent
<1>3. CASE CheckConditions
  BY <1>3 DEF CheckConditions
<1>4. CASE CreateMain
  BY <1>4 DEF CreateMain
<1>5. CASE WaitMain
  BY <1>5 DEF WaitMain
<1>6. CASE ExecStartPost
  <2>1. cmd["thr"] \in Nat \ {0}
    BY DEF TypeOK, CommandTypeOK
  <2>2. cmd["thr"] <= Len(unit.execStartPost) /\ ~unit.execStartPost[cmd["thr"]]
          => PostMayFail
    BY <2>1
  <2>3. thr' = "catch" => PostMayFail
    BY <1>6, <2>2 DEF ExecStartPost
  <2>4. /\ unit' = unit /\ launches' = launches /\ code' = code
        /\ PostMayFail <=> PostMayFail'
    BY <1>6 DEF ExecStartPost
  <2> QED
    BY <1>6, <2>3, <2>4 DEF ExecStartPost
<1>7. CASE ExecStartPostDone
  <2>1. cmd["thr"] \in Nat \ {0}
    BY DEF TypeOK, CommandTypeOK
  <2>2. cmd["thr"] <= Len(unit.execStartPost) /\ ~unit.execStartPost[cmd["thr"]]
          => PostMayFail
    BY <2>1
  <2>3. thr' = "catch" => PostMayFail
    BY <1>7, <2>2 DEF ExecStartPostDone
  <2>4. /\ unit' = unit /\ launches' = launches /\ code' = code
        /\ PostMayFail <=> PostMayFail'
    BY <1>7 DEF ExecStartPostDone
  <2> QED
    BY <1>7, <2>3, <2>4 DEF ExecStartPostDone
<1>8. CASE CatchRestartException
  BY <1>8 DEF TypeOK, ProcessTypeOK, CatchRestartException
<1>9. CASE WaitAfterAndEnvironment \/ ExecStartPre \/ ExecStartPreDone \/
         ExecStart \/ ReportRunning \/ RegisterMainPID \/ DeregisterMainPID \/
         WaitDependents \/ RestartSleep \/ ServiceThreadExit
  BY <1>9 DEF WaitAfterAndEnvironment, ExecStartPre, ExecStartPreDone,
     ExecStart, ReportRunning, RegisterMainPID, DeregisterMainPID,
     WaitDependents, RestartSleep, ServiceThreadExit
<1>10. CASE StopBegin \/ PauseBegin \/ ContinueBegin \/ Shutdown
  BY <1>10 DEF StopBegin, PauseBegin, ContinueBegin, Shutdown
<1>11. CASE KillMain
  BY <1>11 DEF KillMain
<1>12. CASE ExecStop \/ ExecStopDone \/ AskNicely \/ ReadMainPID \/ WaitKilled
         \/ WaitKilledDone \/ TerminateServiceThread \/ ExecStopPost \/
         ExecStopPostDone \/ StopEnd \/ SignalStopEvent \/ StopFailed \/
         PauseEnd \/ ContinueEnd
  BY <1>12 DEF ExecStop, ExecStopDone, AskNicely, ReadMainPID, WaitKilled,
     WaitKilledDone, TerminateServiceThread, ExecStopPost, ExecStopPostDone,
     StopEnd, SignalStopEvent, StopFailed, PauseEnd, ContinueEnd
<1>13. CASE MainExits
  BY <1>13 DEF MainExits
<1>14. CASE ProcessExit
  BY <1>14 DEF ProcessExit
<1>15. ASSUME NEW t \in Threads, Report(t) PROVE PolicyInv'
  BY <1>15 DEF Report
<1>16. ASSUME NEW t \in {"thr", "ctl"}, HelperExits(t) PROVE PolicyInv'
  BY <1>16 DEF HelperExits
<1>17. CASE UNCHANGED vars
  BY <1>17 DEF vars
<1> QED
  BY <1>1, <1>2, <1>3, <1>4, <1>5, <1>6, <1>7, <1>8, <1>9, <1>10, <1>11,
     <1>12, <1>13, <1>14, <1>15, <1>16, <1>17 DEF Next, ServiceMain,
     ServiceThread, Control, ControlHandler

(* A quiet stop meets a thread whose only round has its main process:       *)
(* killing that process is final.                                           *)
LEMMA QuietInvStep == IInv /\ [Next]_vars => QuietInv'
<1> SUFFICES ASSUME IInv, [Next]_vars PROVE QuietInv'
  OBVIOUS
<1> USE DEF IInv, QuietInv, ThreadInv, MainInv, OnceInv, AfterMain,
        BeforeLaunch, StopUntilKill, StopAfterKill, StopAfterThread,
        MayRestart, Up, Threads, NoProcess, Success, Failure, scmVars,
        mainVars, ctlVars, mainProc, cmdVars, SetServiceStatus, MainAt,
        ThreadAt, ControlAt, Throw, GoTo, StartHelper, NextCommand,
        FirstCommand, RunCommand, CommandDone, ControlTo, ReturnFromStop,
        Accepting
<1>1. CASE WaitStopEvent
  BY <1>1 DEF WaitStopEvent
<1>2. CASE StartBegin \/ OnStart \/ OnStartSpawn \/ OnStartAssign \/ StartEnd
         \/ CreateStopEvent
  BY <1>2 DEF StartBegin, OnStart, OnStartSpawn, OnStartAssign, StartEnd,
     CreateStopEvent
<1>3. CASE WaitMain
  BY <1>3 DEF WaitMain
<1>4. CASE CatchRestartException
  BY <1>4 DEF CatchRestartException
<1>5. CASE CheckConditions \/ WaitAfterAndEnvironment \/ ExecStartPre \/
         ExecStartPreDone \/ ExecStart \/ CreateMain \/ ReportRunning \/
         RegisterMainPID \/ DeregisterMainPID \/ ExecStartPost \/
         ExecStartPostDone \/ WaitDependents \/ RestartSleep \/
         ServiceThreadExit
  <2>1. CASE CheckConditions \/ WaitAfterAndEnvironment \/ ExecStartPre \/ ExecStartPreDone
    BY <2>1 DEF CheckConditions, WaitAfterAndEnvironment, ExecStartPre, ExecStartPreDone
  <2>2. CASE ExecStart \/ CreateMain \/ ReportRunning
    BY <2>2 DEF ExecStart, CreateMain, ReportRunning
  <2>3. CASE RegisterMainPID \/ DeregisterMainPID \/ ExecStartPost \/ ExecStartPostDone
    BY <2>3 DEF RegisterMainPID, DeregisterMainPID, ExecStartPost, ExecStartPostDone
  <2>4. CASE WaitDependents \/ RestartSleep \/ ServiceThreadExit
    BY <2>4 DEF WaitDependents, RestartSleep, ServiceThreadExit
  <2> QED
    BY <1>5, <2>1, <2>2, <2>3, <2>4
<1>6. CASE StopBegin
  BY <1>6 DEF StopBegin
<1>7. CASE PauseBegin \/ ContinueBegin \/ Shutdown
  BY <1>7 DEF PauseBegin, ContinueBegin, Shutdown
<1>8. CASE ReadMainPID
  BY <1>8 DEF ReadMainPID
<1>9. CASE KillMain
  BY <1>9 DEF KillMain
<1>10. CASE TerminateServiceThread
  BY <1>10 DEF TerminateServiceThread
<1>11. CASE SignalStopEvent
  BY <1>11 DEF SignalStopEvent
<1>12. CASE StopFailed
  BY <1>12 DEF StopFailed
<1>13. CASE ExecStop \/ ExecStopDone \/ AskNicely \/ WaitKilled \/
         WaitKilledDone \/ ExecStopPost \/ ExecStopPostDone \/ StopEnd \/
         PauseEnd \/ ContinueEnd
  <2>1. CASE ExecStop \/ ExecStopDone \/ AskNicely \/ WaitKilled
    BY <2>1 DEF ExecStop, ExecStopDone, AskNicely, WaitKilled
  <2>2. CASE WaitKilledDone \/ ExecStopPost \/ ExecStopPostDone
    BY <2>2 DEF WaitKilledDone, ExecStopPost, ExecStopPostDone
  <2>3. CASE StopEnd \/ PauseEnd \/ ContinueEnd
    BY <2>3 DEF StopEnd, PauseEnd, ContinueEnd
  <2> QED
    BY <1>13, <2>1, <2>2, <2>3
<1>14. CASE MainExits
  BY <1>14 DEF MainExits
<1>15. CASE ProcessExit
  BY <1>15 DEF ProcessExit
<1>16. ASSUME NEW t \in Threads, Report(t) PROVE QuietInv'
  BY <1>16 DEF Report
<1>17. ASSUME NEW t \in {"thr", "ctl"}, HelperExits(t) PROVE QuietInv'
  BY <1>17 DEF HelperExits
<1>18. CASE UNCHANGED vars
  BY <1>18 DEF vars
<1> QED
  BY <1>1, <1>2, <1>3, <1>4, <1>5, <1>6, <1>7, <1>8, <1>9, <1>10, <1>11,
     <1>12, <1>13, <1>14, <1>15, <1>16, <1>17, <1>18 DEF Next, ServiceMain,
     ServiceThread, Control, ControlHandler


(* The strengthened invariant holds initially and is kept by every step. *)
LEMMA InitIInv == Init => IInv
  BY InitType DEF Init, IInv, ThreadInv, MainInv, OnceInv, CommandInv, PolicyInv,
     QuietInv, BeforeLaunch, AfterMain, Relaunching, AfterSuccess, Catching

(* Hence it holds in every state of every behaviour. *)
THEOREM Inductive == Spec => []IInv
<1>1. IInv /\ [Next]_vars => IInv'
  BY NextType, ThreadInvStep, MainInvStep, OnceInvStep, CommandInvStep,
     PolicyInvStep, QuietInvStep DEF IInv
<1> QED
  BY InitIInv, <1>1, PTL DEF Spec

(* OnStop can reach every main process that lives: see LiveMainIsNamed. *)
THEOREM LiveMainNamed == Spec => []LiveMainIsNamed
<1>1. IInv => LiveMainIsNamed
  BY DEF IInv, MainInv, LiveMainIsNamed
<1> QED
  BY Inductive, <1>1, PTL

(* systemctl finds the living main process in the registry. *)
THEOREM MainRegistered == Spec => []MainIsRegistered
<1>1. IInv => MainIsRegistered
  <2> SUFFICES ASSUME IInv, ~RegistryFails, live # {}, thr \notin {"created", "register", "dead"}
               PROVE live = {execStartPID}
    BY DEF MainIsRegistered
  <2>1. thr = "wait"
    BY DEF IInv, MainInv, TypeOK, ThreadTypeOK, ThreadSteps, BeforeLaunch, AfterMain
  <2> QED
    BY <2>1 DEF IInv, MainInv
<1> QED
  BY Inductive, <1>1, PTL

(* Restart=no: one launch in the life of the wrapper. *)
THEOREM NoRestartOnce == Spec => []NoRestartLaunchesOnce
<1>1. IInv => NoRestartLaunchesOnce
  BY DEF IInv, OnceInv, NoRestartLaunchesOnce
<1> QED
  BY Inductive, <1>1, PTL

(* A quiet stop of a Restart=no unit leaves no main process and no thread. *)
THEOREM QuietStopKills == Spec => []QuietStopKillsMain
<1>1. IInv => QuietStopKillsMain
  BY DEF IInv, QuietInv, QuietStopKillsMain, StopAfterThread
<1> QED
  BY Inductive, <1>1, PTL

-----------------------------------------------------------------------------
(* The wrapper implements MainProcess. *)

(* Before the first launch nothing runs, whatever the policy allows. *)
LEMMA InitRefines == Init => MP!Init
  BY ConstantsAssumption
     DEF Init, MP!Init, MP!Outcomes, AllowedAfter, Unit, RestartActions, Success, Failure

(* The unit file is read once, and only three actions create or end a main *)
(* process.                                                                *)
LEMMA Frame == [Next]_vars =>
  /\ unit' = unit
  /\ UNCHANGED <<live, code, launches>> \/ CreateMain \/ KillMain \/ MainExits
<1> SUFFICES ASSUME [Next]_vars
             PROVE  /\ unit' = unit
                    /\ UNCHANGED <<live, code, launches>> \/ CreateMain \/ KillMain \/ MainExits
  OBVIOUS
<1> USE DEF scmVars, mainVars, ctlVars, mainProc, cmdVars, SetServiceStatus,
        MainAt, ThreadAt, ControlAt, Throw, GoTo, StartHelper, NextCommand,
        FirstCommand, RunCommand, CommandDone, ControlTo, ReturnFromStop,
        Accepting
<1>1. CASE StartBegin \/ OnStart \/ OnStartSpawn \/ OnStartAssign \/ StartEnd
         \/ CreateStopEvent \/ WaitStopEvent
  BY <1>1 DEF StartBegin, OnStart, OnStartSpawn, OnStartAssign, StartEnd,
     CreateStopEvent, WaitStopEvent
<1>2. CASE CheckConditions \/ WaitAfterAndEnvironment \/ ExecStartPre \/
         ExecStartPreDone \/ ExecStart \/ ReportRunning \/ RegisterMainPID \/
         WaitMain
  BY <1>2 DEF CheckConditions, WaitAfterAndEnvironment, ExecStartPre,
     ExecStartPreDone, ExecStart, ReportRunning, RegisterMainPID, WaitMain
<1>3. CASE DeregisterMainPID \/ ExecStartPost \/ ExecStartPostDone \/
         WaitDependents \/ CatchRestartException \/ RestartSleep \/
         ServiceThreadExit
  BY <1>3 DEF DeregisterMainPID, ExecStartPost, ExecStartPostDone,
     WaitDependents, CatchRestartException, RestartSleep, ServiceThreadExit
<1>4. CASE StopBegin \/ PauseBegin \/ ContinueBegin \/ Shutdown
  BY <1>4 DEF StopBegin, PauseBegin, ContinueBegin, Shutdown
<1>5. CASE ExecStop \/ ExecStopDone \/ AskNicely \/ ReadMainPID \/ WaitKilled
         \/ WaitKilledDone \/ TerminateServiceThread
  BY <1>5 DEF ExecStop, ExecStopDone, AskNicely, ReadMainPID, WaitKilled,
     WaitKilledDone, TerminateServiceThread
<1>6. CASE ExecStopPost \/ ExecStopPostDone \/ StopEnd \/ SignalStopEvent \/
         StopFailed \/ PauseEnd \/ ContinueEnd \/ ProcessExit
  BY <1>6 DEF ExecStopPost, ExecStopPostDone, StopEnd, SignalStopEvent,
     StopFailed, PauseEnd, ContinueEnd, ProcessExit
<1>7. CASE CreateMain \/ KillMain \/ MainExits
  BY <1>7 DEF CreateMain, KillMain, MainExits
<1>8. CASE (\E t \in Threads : Report(t)) \/ (\E t \in {"thr", "ctl"} : HelperExits(t))
  BY <1>8 DEF Report, HelperExits
<1>9. CASE UNCHANGED vars
  BY <1>9 DEF vars
<1> QED
  BY <1>1, <1>2, <1>3, <1>4, <1>5, <1>6, <1>7, <1>8, <1>9 DEF Threads, Next,
     ServiceMain, ServiceThread, Control, ControlHandler

(* Launching is CreateMain, ending is MainExits or KillMain; nothing else    *)
(* creates or ends a main process or touches the unit.                      *)
LEMMA NextRefines == IInv /\ [Next]_vars => [MP!Next]_(MP!vars)
<1> SUFFICES ASSUME IInv, [Next]_vars PROVE MP!Next \/ UNCHANGED MP!vars
  OBVIOUS
<1> USE DEF MP!vars, scmVars, mainVars, ctlVars, mainProc, cmdVars
<1>1. unit' = unit /\ AllowedAfter' = AllowedAfter
  BY Frame DEF AllowedAfter, PostMayFail
<1>2. CASE CreateMain
  <2>1. CASE launches < MaxLaunch /\ launches' = launches + 1 /\ code' = code
             /\ live' = live \cup {launches'}
    <3>1. thr = "create" /\ live = {}
      BY <1>2 DEF CreateMain, ThreadAt, IInv, MainInv, BeforeLaunch
    <3>2. unit.restart \in RestartActions /\ code \in {Success, Failure}
      BY ConstantsAssumption DEF IInv, TypeOK, ReportTypeOK, ProcessTypeOK, Unit
    <3>3. launches > 0 => /\ unit.restart # "no"
                          /\ unit.restart = "on_success" => code = Success
                          /\ unit.restart = "on_failure" => code = Failure \/ PostMayFail
      BY <3>1 DEF IInv, PolicyInv, OnceInv, Relaunching, BeforeLaunch
    <3>4. launches > 0 => code \in AllowedAfter
      BY <3>2, <3>3 DEF AllowedAfter, RestartActions
    <3> QED
      BY <1>1, <2>1, <3>1, <3>4 DEF MP!Next, MP!Launch
  <2>2. CASE UNCHANGED <<launches, live, code>>
    BY <1>1, <2>2
  <2> QED
    BY <1>2, <2>1, <2>2 DEF CreateMain
<1>3. ASSUME NEW p, live' = live \ {p}, code' \in {Success, Failure}, launches' = launches,
             p \notin live => code' = code
      PROVE MP!Next \/ UNCHANGED MP!vars
  BY <1>1, <1>3 DEF IInv, MainInv, MP!Next, MP!End, MP!Outcomes, Success, Failure
<1>4. CASE KillMain
  <2>1. launches' = launches
    BY <1>4 DEF KillMain
  <2>2. CASE live' = live \ {target} /\ code' = IF target \in live THEN Failure ELSE code
    <3>1. code \in {Success, Failure} /\ code' \in {Success, Failure}
      BY <2>2 DEF IInv, TypeOK, ProcessTypeOK
    <3> QED
      BY <1>3, <2>1, <2>2, <3>1
  <2>3. CASE UNCHANGED <<live, code>>
    BY <1>1, <2>1, <2>3
  <2> QED
    BY <1>4, <2>2, <2>3 DEF KillMain
<1>5. CASE MainExits
  BY <1>3, <1>5 DEF MainExits
<1>6. CASE UNCHANGED <<live, code, launches>>
  BY <1>1, <1>6
<1> QED
  BY <1>2, <1>4, <1>5, <1>6, Frame

(* Every behaviour of the wrapper keeps the promise of Restart=. *)
THEOREM RestartPolicyKept == Spec => KeepsRestartPolicy
  BY Inductive, InitRefines, NextRefines, PTL DEF Spec, KeepsRestartPolicy, MP!Spec
=============================================================================
