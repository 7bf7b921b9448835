-------------------------- MODULE StartOrderProofs --------------------------
(***************************************************************************)
(* Proofs about StartOrder for every set of units, every contents of their *)
(* unit files, every number of polls and every bound.  The inductive       *)
(* invariant is IInv; its parts are proved in the order of their           *)
(* dependence: types, what a wait has seen, what a starting unit shows,    *)
(* and the exclusion of two units ordered after each other.                *)
(***************************************************************************)
EXTENDS StartOrder, TLAPS

(* What every unit file is. *)
LEMMA ConfigType ==
  ASSUME TypeOK, NEW u \in Units
  PROVE  /\ config[u].after \in Seq(STRING) /\ config[u].depends \in Seq(Units)
         /\ Len(config[u].after) \in Nat /\ Len(config[u].depends) \in Nat
         /\ Units \subseteq STRING
<1>1. config \in [Units -> Unit] BY ConstantsAssumption DEF TypeOK
<1>2. config[u] \in Unit BY <1>1
<1>3. config[u].after \in Seq(STRING) /\ config[u].depends \in Seq(Units) BY <1>2 DEF Unit
<1> QED BY <1>3, ConstantsAssumption

LEMMA TypeInit == ASSUME Init PROVE TypeOK
BY ConstantsAssumption DEF Init, TypeOK, States, MainSteps, ThreadSteps, ControlSteps, Handles

(* A step keeps seen a function to sets of units. *)
LEMMA SeenType == ASSUME TypeOK, Observe PROVE seen' \in [Units -> SUBSET Units]
BY DEF TypeOK, Observe

(* A control that does not end the thread changes nothing but what the unit *)
(* shows and what the dispatcher is doing.                                  *)
Reporting(u) ==
  \/ StopBegin(u) \/ StopEnd(u) \/ StopFails(u) \/ PauseBegin(u) \/ PauseEnd(u)
  \/ ContinueBegin(u) \/ ContinueEnd(u) \/ Shutdown(u)
LEMMA ReportingStays ==
  ASSUME TypeOK, NEW u \in Units, Reporting(u)
  PROVE  /\ ControlOnly
         /\ \E s \in States : Report(u, s)
         /\ ctl' \in [Units -> ControlSteps] /\ original' \in [Units -> States]
<1> USE DEF TypeOK, States, ControlSteps, ControlTo, ReturnFromStop, ctlVars
<1>1. scm[u] \in States /\ original[u] \in States OBVIOUS
<1>2. CASE StopBegin(u) BY <1>1, <1>2 DEF StopBegin
<1>3. CASE StopEnd(u) BY <1>3 DEF StopEnd
<1>4. CASE StopFails(u)
  <2>1. Report(u, original[u]) /\ ControlOnly BY <1>4 DEF StopFails
  <2>2. \E s \in States : Report(u, s) BY <1>1, <2>1
  <2> QED BY <1>4, <2>1, <2>2 DEF StopFails
<1>5. CASE PauseBegin(u) \/ PauseEnd(u) BY <1>5 DEF PauseBegin, PauseEnd
<1>6. CASE ContinueBegin(u) \/ ContinueEnd(u) BY <1>6 DEF ContinueBegin, ContinueEnd
<1>7. CASE Shutdown(u) BY <1>7 DEF Shutdown
<1> QED BY <1>2, <1>3, <1>4, <1>5, <1>6, <1>7 DEF Reporting

LEMMA TypeStep == ASSUME TypeOK, PollsLeft, [Next]_vars PROVE TypeOK'
<1> USE DEF States, MainSteps, ThreadSteps, Waits, ControlSteps, Handles
<1>1. CASE UNCHANGED vars BY <1>1 DEF TypeOK, vars, ctlVars, waitVars
<1>2. ASSUME UNCHANGED config, Observe, UNCHANGED bootTime,
             NEW u \in Units, Process(u)
      PROVE  TypeOK'
  <2>a. seen' \in [Units -> SUBSET Units] BY <1>2, SeenType
  <2>b. MaxPolls \in Nat \ {0} /\ MaxBoot[config] \in Nat BY ConstantsAssumption DEF TypeOK
  <2>c. config' = config /\ bootTime' = bootTime BY <1>2
  <2> USE <2>a, <2>b, <2>c
      DEF TypeOK, Report, Silent, GoTo, MainTo, ControlTo, NoPolls, waitVars, ctlVars
  <2>1. CASE StartService(u) BY <2>1 DEF StartService
  <2>2. CASE OnStart(u) BY <2>2 DEF OnStart
  <2>3. CASE OnStartSpawn(u)
    <3>1. main' \in [Units -> MainSteps] BY <2>3 DEF OnStartSpawn
    <3>2. thr' \in [Units -> ThreadSteps] BY <2>3 DEF OnStartSpawn
    <3>3. scm' \in [Units -> States] BY <2>3 DEF OnStartSpawn
    <3>4. stopReported' \in [Units -> BOOLEAN]
      <4>1. CASE Silent BY <4>1
      <4>2. CASE Report(u, "STOPPED") BY <4>2
      <4> QED BY <2>3, <4>1, <4>2 DEF OnStartSpawn
    <3> QED BY <2>3, <3>1, <3>2, <3>3, <3>4 DEF OnStartSpawn
  <2>4. CASE OnStartAssign(u) BY <2>4 DEF OnStartAssign
  <2>5. CASE StartEnd(u) BY <2>5 DEF StartEnd
  <2>6. CASE ProcessExit(u) BY <2>6 DEF ProcessExit
  <2>7. CASE Reporting(u)
    <3>1. PICK s \in States : Report(u, s) BY <2>7, ReportingStays
    <3>2. ControlOnly /\ ctl' \in [Units -> ControlSteps] /\ original' \in [Units -> States]
      BY <2>7, ReportingStays
    <3> QED BY <3>1, <3>2 DEF ControlOnly
  <2>8. CASE TerminateServiceThread(u)
    <3>1. thr' \in [Units -> ThreadSteps] BY <2>8 DEF TerminateServiceThread
    <3>2. polls' \in [Units -> 0..MaxPolls] BY <2>8 DEF TerminateServiceThread
    <3>3. at' \in [Units -> Nat \ {0}] BY <2>8 DEF TerminateServiceThread
    <3>4. asleep' \in [Units -> BOOLEAN] BY <2>8 DEF TerminateServiceThread
    <3>5. cut' \in [Units -> BOOLEAN] BY <2>8 DEF TerminateServiceThread
    <3>6. handle' \in [Units -> Handles] /\ ctl' \in [Units -> ControlSteps]
      BY <2>8 DEF TerminateServiceThread
    <3>7. UNCHANGED <<scm, stopReported, main, original, lastRun>>
      BY <2>8 DEF TerminateServiceThread
    <3> QED BY <3>1, <3>2, <3>3, <3>4, <3>5, <3>6, <3>7
  <2>9. CASE AllPassed(u) BY <2>9 DEF AllPassed, WaitReturns, Rest
  <2>10. CASE ManagerFails(u) BY <2>10 DEF ManagerFails, WaitCut, WaitReturns, Rest
  <2>11. CASE OpenServiceFails(u) BY <2>11 DEF OpenServiceFails, WaitCut, WaitReturns, Rest
  <2>12. CASE QueryFails(u) BY <2>12 DEF QueryFails, WaitCut, WaitReturns, Rest
  <2>13. CASE ServicePassed(u) BY <2>13 DEF ServicePassed, Rest
  <2>14. CASE ServiceBlocks(u) BY <2>14 DEF ServiceBlocks, Rest
  <2>15. CASE PollAgain(u)
    <3>1. polls[u] \in 0..MaxPolls /\ polls[u] < MaxPolls
      BY <2>15 DEF PollAgain, InWait, PollsLeft
    <3>2. polls[u] + 1 \in 0..MaxPolls BY <3>1, <2>b
    <3>3. polls' \in [Units -> 0..MaxPolls] BY <2>15, <3>2 DEF PollAgain
    <3>4. thr' \in [Units -> ThreadSteps] BY <2>15 DEF PollAgain, WaitReturns
    <3>5. at' \in [Units -> Nat \ {0}] BY <2>15 DEF PollAgain, WaitReturns
    <3>6. asleep' \in [Units -> BOOLEAN]
      <4>1. asleep' = [asleep EXCEPT ![u] = FALSE] BY <2>15 DEF PollAgain, WaitReturns
      <4> QED BY <4>1
    <3> QED BY <2>15, <3>3, <3>4, <3>5, <3>6 DEF PollAgain, Rest
  <2>16. CASE CheckConditions(u) \/ Launch(u) \/ MainEnds(u)
    <3> USE <2>16 DEF CheckConditions, Launch, MainEnds, BeginWait
    <3>1. scm' \in [Units -> States]
      <4>1. \E s \in States : scm' = [scm EXCEPT ![u] = s] \/ scm' = scm OBVIOUS
      <4> QED BY <4>1
    <3>2. stopReported' \in [Units -> BOOLEAN]
      <4>1. \/ Report(u, "STOPPED") \/ Report(u, "START_PENDING") \/ Report(u, "RUNNING")
            \/ Silent
        OBVIOUS
      <4>2. CASE Report(u, "STOPPED") BY <4>2
      <4>3. CASE Report(u, "START_PENDING") BY <4>3
      <4>4. CASE Report(u, "RUNNING") BY <4>4
      <4> QED BY <4>1, <4>2, <4>3, <4>4
    <3>3. thr' \in [Units -> ThreadSteps] OBVIOUS
    <3>4. polls' \in [Units -> 0..MaxPolls] OBVIOUS
    <3>5. at' \in [Units -> Nat \ {0}] OBVIOUS
    <3>6. asleep' \in [Units -> BOOLEAN] /\ cut' \in [Units -> BOOLEAN]
      <4>1. NoPolls(u) \/ UNCHANGED <<asleep, cut>> OBVIOUS
      <4>2. CASE NoPolls(u) BY <4>2
      <4> QED BY <4>1, <4>2
    <3>7. lastRun' \in [Units -> 0..MaxBoot[config]] OBVIOUS
    <3>8. UNCHANGED <<main, ctlVars, handle>> OBVIOUS
    <3> QED BY <3>1, <3>2, <3>3, <3>4, <3>5, <3>6, <3>7, <3>8
  <2>17. CASE CatchRestartException(u) BY <2>17 DEF CatchRestartException
  <2>18. CASE RestartSleep(u) BY <2>18 DEF RestartSleep
  <2>19. CASE ServiceThreadExit(u) BY <2>19 DEF ServiceThreadExit
  <2> QED BY <2>1, <2>2, <2>3, <2>4, <2>5, <2>6, <2>7, <2>8, <2>9, <2>10, <2>11, <2>12,
             <2>13, <2>14, <2>15, <2>16, <2>17, <2>18, <2>19, <1>2
          DEF Process, Control, Reporting, ServiceThread, WaitForDependents
<1>3. ASSUME UNCHANGED config, Observe, AdjustClock PROVE TypeOK'
  BY <1>3, SeenType, ConstantsAssumption DEF TypeOK, AdjustClock, waitVars, ctlVars
<1>4. ASSUME UNCHANGED config, Observe, Reboot PROVE TypeOK'
  BY <1>4, SeenType, ConstantsAssumption DEF TypeOK, Reboot
<1> QED BY <1>1, <1>2, <1>3, <1>4 DEF Next

(* Whoever waits has polls left: the last one ends the wait. *)
LEMMA PollsStep == ASSUME TypeOK, PollsLeft, [Next]_vars PROVE PollsLeft'
<1> USE DEF PollsLeft, Waits
<1>1. CASE UNCHANGED vars BY <1>1 DEF vars, waitVars
<1>2. ASSUME NEW u \in Units, Process(u) PROVE PollsLeft'
  <2>a. MaxPolls \in Nat \ {0} BY ConstantsAssumption
  <2> USE <1>2, <2>a DEF TypeOK, GoTo, NoPolls, waitVars
  <2>1. CASE StartService(u) \/ OnStart(u) \/ OnStartAssign(u) \/ StartEnd(u)
    BY <2>1 DEF StartService, OnStart, OnStartAssign, StartEnd
  <2>2. CASE OnStartSpawn(u) BY <2>2 DEF OnStartSpawn
  <2>3. CASE ProcessExit(u) BY <2>3 DEF ProcessExit
  <2>4. CASE Reporting(u) BY <2>4, ReportingStays DEF ControlOnly
  <2>5. CASE TerminateServiceThread(u) BY <2>5 DEF TerminateServiceThread
  <2>6. CASE AllPassed(u) BY <2>6 DEF AllPassed, WaitReturns
  <2>7. CASE ManagerFails(u) \/ OpenServiceFails(u) \/ QueryFails(u)
    BY <2>7 DEF ManagerFails, OpenServiceFails, QueryFails, WaitCut, WaitReturns
  <2>8. CASE ServicePassed(u) \/ ServiceBlocks(u) BY <2>8 DEF ServicePassed, ServiceBlocks
  <2>9. CASE PollAgain(u)
    <3>1. \A v \in Units : v # u => polls'[v] = polls[v] /\ thr'[v] = thr[v]
      BY <2>9 DEF PollAgain, WaitReturns
    <3>2. thr'[u] \in Waits => polls[u] + 1 < MaxPolls
      BY <2>9 DEF PollAgain, WaitReturns
    <3>3. polls'[u] = polls[u] + 1 BY <2>9 DEF PollAgain
    <3> QED BY <3>1, <3>2, <3>3
  <2>10. CASE CheckConditions(u) BY <2>10 DEF CheckConditions, BeginWait
  <2>11. CASE Launch(u) BY <2>11 DEF Launch, BeginWait
  <2>12. CASE MainEnds(u) BY <2>12 DEF MainEnds, BeginWait
  <2>13. CASE CatchRestartException(u) BY <2>13 DEF CatchRestartException
  <2>14. CASE RestartSleep(u) \/ ServiceThreadExit(u)
    BY <2>14 DEF RestartSleep, ServiceThreadExit
  <2> QED BY <2>1, <2>2, <2>3, <2>4, <2>5, <2>6, <2>7, <2>8, <2>9, <2>10, <2>11, <2>12,
             <2>13, <2>14
          DEF Process, Control, Reporting, ServiceThread, WaitForDependents
<1>3. CASE AdjustClock BY <1>3 DEF AdjustClock, waitVars
<1>4. CASE Reboot BY <1>4 DEF Reboot, TypeOK
<1> QED BY <1>1, <1>2, <1>3, <1>4 DEF Next

(* What one process does leaves the others where they are. *)
LEMMA OthersStay ==
  ASSUME TypeOK, NEW u \in Units, Process(u), NEW v \in Units, v # u
  PROVE  /\ thr'[v] = thr[v] /\ at'[v] = at[v] /\ polls'[v] = polls[v] /\ cut'[v] = cut[v]
         /\ main'[v] = main[v] /\ scm'[v] = scm[v] /\ stopReported'[v] = stopReported[v]
<1> USE DEF TypeOK, GoTo, MainTo, NoPolls, waitVars, Report, Silent, Rest
<1>1. CASE StartService(u) BY <1>1 DEF StartService
<1>2. CASE OnStart(u) BY <1>2 DEF OnStart
<1>3. CASE OnStartSpawn(u) BY <1>3 DEF OnStartSpawn
<1>4. CASE OnStartAssign(u) \/ StartEnd(u) BY <1>4 DEF OnStartAssign, StartEnd
<1>5. CASE ProcessExit(u) BY <1>5 DEF ProcessExit
<1>6. CASE Reporting(u) BY <1>6, ReportingStays DEF ControlOnly
<1>7. CASE TerminateServiceThread(u) BY <1>7 DEF TerminateServiceThread
<1>8. CASE WaitForDependents(u)
  BY <1>8 DEF WaitForDependents, AllPassed, ManagerFails, OpenServiceFails, QueryFails,
              WaitCut, ServicePassed, ServiceBlocks, PollAgain, WaitReturns
<1>9. CASE CheckConditions(u) BY <1>9 DEF CheckConditions, BeginWait
<1>10. CASE Launch(u) BY <1>10 DEF Launch, BeginWait
<1>11. CASE MainEnds(u) BY <1>11 DEF MainEnds, BeginWait
<1>12. CASE CatchRestartException(u) BY <1>12 DEF CatchRestartException
<1>13. CASE RestartSleep(u) \/ ServiceThreadExit(u)
  BY <1>13 DEF RestartSleep, ServiceThreadExit
<1> QED BY <1>1, <1>2, <1>3, <1>4, <1>5, <1>6, <1>7, <1>8, <1>9, <1>10, <1>11, <1>12, <1>13
        DEF Process, Control, Reporting, ServiceThread

(* A thread needs its process, and who shows STOPPED has reported it; a     *)
(* report of SERVICE_STOPPED is not taken back in the life of the process.  *)
LEMMA ShowsStepOf ==
  ASSUME TypeOK, ShowsStart, NEW u \in Units, Process(u)
  PROVE  /\ thr'[u] # "none" => main'[u] # "none"
         /\ main'[u] # "none" /\ scm'[u] = "STOPPED" => stopReported'[u]
         /\ thr'[u] # "none" /\ stopReported[u] => stopReported'[u]
<1>a. /\ thr[u] # "none" => main[u] # "none"
      /\ main[u] # "none" /\ scm[u] = "STOPPED" => stopReported[u]
  BY DEF ShowsStart
<1> USE <1>a DEF TypeOK, GoTo, MainTo, Report, Silent, Rest
<1>1. CASE StartService(u) BY <1>1 DEF StartService
<1>2. CASE OnStart(u) BY <1>2 DEF OnStart
<1>3. CASE OnStartSpawn(u) BY <1>3 DEF OnStartSpawn
<1>4. CASE OnStartAssign(u) \/ StartEnd(u) BY <1>4 DEF OnStartAssign, StartEnd
<1>5. CASE ProcessExit(u) BY <1>5 DEF ProcessExit
<1>6. CASE Reporting(u)
  <2>1. ctl[u] # "idle" \/ Accepts(u)
    BY <1>6 DEF Reporting, StopBegin, StopEnd, StopFails, PauseBegin, PauseEnd,
                ContinueBegin, ContinueEnd, Shutdown
  <2> QED BY <1>6, ReportingStays DEF ControlOnly
<1>7. CASE TerminateServiceThread(u)
  <2>1. main' = main /\ scm' = scm /\ stopReported' = stopReported
    BY <1>7 DEF TerminateServiceThread
  <2>2. thr'[u] = thr[u] \/ thr[u] # "none" BY <1>7 DEF TerminateServiceThread
  <2> QED BY <2>1, <2>2
<1>8. CASE WaitForDependents(u)
  BY <1>8 DEF WaitForDependents, AllPassed, ManagerFails, OpenServiceFails, QueryFails,
              WaitCut, ServicePassed, ServiceBlocks, PollAgain, WaitReturns, Polls, InList,
              InWait, Waits
<1>9. CASE CheckConditions(u)
  <2>1. main' = main /\ thr[u] = "conditions" BY <1>9 DEF CheckConditions
  <2>2. Report(u, "START_PENDING") \/ Report(u, "STOPPED") \/ Silent
    BY <1>9 DEF CheckConditions, BeginWait
  <2> QED BY <2>1, <2>2
<1>10. CASE Launch(u) BY <1>10 DEF Launch, BeginWait
<1>11. CASE MainEnds(u) BY <1>11 DEF MainEnds, BeginWait
<1>12. CASE CatchRestartException(u) BY <1>12 DEF CatchRestartException
<1>13. CASE RestartSleep(u) \/ ServiceThreadExit(u)
  BY <1>13 DEF RestartSleep, ServiceThreadExit
<1> QED BY <1>1, <1>2, <1>3, <1>4, <1>5, <1>6, <1>7, <1>8, <1>9, <1>10, <1>11, <1>12, <1>13
        DEF Process, Control, Reporting, ServiceThread

LEMMA ShowsStep == ASSUME TypeOK, ShowsStart, [Next]_vars PROVE ShowsStart'
<1> USE DEF ShowsStart
<1>1. CASE UNCHANGED vars BY <1>1 DEF vars
<1>2. ASSUME NEW u \in Units, Process(u) PROVE ShowsStart'
  <2>1. \A v \in Units : v # u => /\ thr'[v] = thr[v] /\ scm'[v] = scm[v]
                                  /\ main'[v] = main[v] /\ stopReported'[v] = stopReported[v]
    BY <1>2, OthersStay
  <2> QED BY <1>2, <2>1, ShowsStepOf
<1>3. CASE AdjustClock BY <1>3 DEF AdjustClock
<1>4. CASE Reboot BY <1>4 DEF Reboot
<1> QED BY <1>1, <1>2, <1>3, <1>4 DEF Next

(* One poll of unit u: an index goes past a service only when that service  *)
(* is not waited for, and a wait ends behind the last name of its list, cut *)
(* short by a failing call or by giving up.                                 *)
LEMMA PollPasses ==
  ASSUME TypeOK, PollsLeft, NEW u \in Units, WaitForDependents(u)
  PROVE  \/ thr'[u] = thr[u] /\ at'[u] = 1
         \/ thr'[u] = thr[u] /\ at'[u] = at[u]
         \/ /\ thr'[u] = thr[u] /\ at'[u] = at[u] + 1
            /\ Current(u) \in Units /\ ~MustWait(thr[u], Current(u))
         \/ thr'[u] \notin Waits /\ at[u] > Len(ServiceList(u, thr[u])) /\ cut'[u] = cut[u]
         \/ thr'[u] \notin Waits /\ cut'[u]
         \/ thr'[u] \notin Waits /\ GaveUp(u)'
<1> USE DEF TypeOK, GoTo, Waits, Polls, InList, InWait, WaitReturns
<1>a. MaxPolls \in Nat BY ConstantsAssumption
<1>1. CASE AllPassed(u) BY <1>1 DEF AllPassed
<1>2. CASE ManagerFails(u) \/ OpenServiceFails(u) \/ QueryFails(u)
  BY <1>2 DEF ManagerFails, OpenServiceFails, QueryFails, WaitCut
<1>3. CASE ServicePassed(u) BY <1>3 DEF ServicePassed
<1>4. CASE ServiceBlocks(u) BY <1>4 DEF ServiceBlocks
<1>5. CASE PollAgain(u)
  <2>1. CASE polls[u] + 1 < MaxPolls BY <1>a, <1>5, <2>1 DEF PollAgain
  <2>2. CASE ~(polls[u] + 1 < MaxPolls)
    <3>1. thr'[u] \notin Waits BY <1>5, <2>2 DEF PollAgain
    <3>2. polls'[u] >= MaxPolls BY <1>a, <1>5, <2>2 DEF PollAgain
    <3> QED BY <3>1, <3>2 DEF GaveUp
  <2> QED BY <2>1, <2>2
<1> QED BY <1>1, <1>2, <1>3, <1>4, <1>5 DEF WaitForDependents

(* A poll takes place in a wait, and the wait of After= alone leads to the  *)
(* launch.                                                                  *)
LEMMA PollsWait ==
  ASSUME TypeOK, NEW u \in Units, WaitForDependents(u)
  PROVE  /\ thr[u] \in Waits /\ thr'[u] # "main" /\ (thr'[u] = "launch" => thr[u] = "after")
         /\ scm' = scm
BY DEF TypeOK, WaitForDependents, AllPassed, ManagerFails, OpenServiceFails, QueryFails,
       WaitCut, ServicePassed, ServiceBlocks, PollAgain, WaitReturns, GoTo, Polls, InList,
       InWait, Waits, Rest

(* Every other step of a unit leaves its wait with the end of the thread or *)
(* of the process, begins one anew or leaves the wait as it was.            *)
LEMMA NoPollMoves ==
  ASSUME TypeOK, NEW u \in Units, Process(u), ~WaitForDependents(u)
  PROVE  \/ /\ thr'[u] \notin Waits \cup {"launch", "main"}
            /\ thr[u] \in Waits => thr'[u] \in {"none", "dead", "conditions"}
         \/ thr'[u] \in Waits /\ at'[u] = 1
         \/ thr'[u] = thr[u] /\ at'[u] = at[u] /\ polls'[u] = polls[u] /\ cut'[u] = cut[u]
         \/ thr[u] = "launch" /\ thr'[u] = "main" /\ polls'[u] = polls[u] /\ cut'[u] = cut[u]
<1> USE DEF TypeOK, GoTo, NoPolls, Waits, waitVars
<1>1. CASE StartService(u) BY <1>1 DEF StartService
<1>2. CASE OnStart(u) BY <1>2 DEF OnStart
<1>3. CASE OnStartSpawn(u) BY <1>3 DEF OnStartSpawn
<1>4. CASE OnStartAssign(u) \/ StartEnd(u) BY <1>4 DEF OnStartAssign, StartEnd
<1>5. CASE ProcessExit(u) BY <1>5 DEF ProcessExit
<1>6. CASE Reporting(u) BY <1>6, ReportingStays DEF ControlOnly
<1>7. CASE TerminateServiceThread(u) BY <1>7 DEF TerminateServiceThread
<1>8. CASE CheckConditions(u) BY <1>8 DEF CheckConditions, BeginWait
<1>9. CASE Launch(u) BY <1>9 DEF Launch, BeginWait
<1>10. CASE MainEnds(u) BY <1>10 DEF MainEnds, BeginWait
<1>11. CASE CatchRestartException(u) BY <1>11 DEF CatchRestartException
<1>12. CASE RestartSleep(u) BY <1>12 DEF RestartSleep
<1>13. CASE ServiceThreadExit(u) BY <1>13 DEF ServiceThreadExit
<1> QED BY <1>1, <1>2, <1>3, <1>4, <1>5, <1>6, <1>7, <1>8, <1>9, <1>10, <1>11, <1>12, <1>13
        DEF Process, Control, Reporting, ServiceThread

(* Within a wait nothing seen is forgotten. *)
LEMMA SeenGrows ==
  ASSUME TypeOK, Observe, NEW u \in Units, thr[u] \in Waits, thr'[u] = thr[u]
  PROVE  seen[u] \subseteq seen'[u]
BY DEF Observe, TypeOK

LEMMA SeenStep == ASSUME TypeOK, PollsLeft, SeenInv, [Next]_vars PROVE SeenInv'
<1>1. CASE UNCHANGED vars BY <1>1 DEF vars, waitVars, SeenInv, ServiceList
<1>2. ASSUME NEW u \in Units, thr'[u] \in Waits, Observe, config' = config,
             thr'[u] = thr[u], at'[u] = at[u],
             NEW i \in DOMAIN ServiceList(u, thr[u]), i < at[u]
      PROVE  ServiceList(u, thr[u])[i] \in seen'[u]
  BY <1>2, SeenGrows DEF SeenInv
<1>3. ASSUME NEW w \in Units, Process(w), Observe, config' = config
      PROVE  SeenInv'
  <2> SUFFICES ASSUME NEW u \in Units, thr'[u] \in Waits,
                      NEW i \in DOMAIN ServiceList(u, thr'[u]), i < at'[u]
               PROVE  ServiceList(u, thr'[u])[i] \in seen'[u]
    BY <1>3 DEF SeenInv, ServiceList
  <2>1. CASE thr'[u] = thr[u] /\ at'[u] = at[u] BY <1>2, <1>3, <2>1
  <2>2. CASE u # w BY <1>3, <2>2, <2>1, OthersStay
  <2>3. CASE u = w /\ at'[u] = 1
    <3>1. Len(config[u].after) \in Nat /\ Len(config[u].depends) \in Nat
          /\ config[u].after \in Seq(STRING) /\ config[u].depends \in Seq(Units)
      BY ConfigType
    <3>2. i \in Nat /\ i >= 1 BY <3>1 DEF ServiceList
    <3> QED BY <2>3, <3>2
  <2>4. CASE u = w /\ ~WaitForDependents(u)
    BY <1>3, <2>1, <2>3, <2>4, NoPollMoves DEF Waits
  <2>5. CASE /\ u = w /\ WaitForDependents(u)
             /\ thr'[u] = thr[u] /\ at'[u] = at[u] + 1
             /\ Current(u) \in Units /\ ~MustWait(thr[u], Current(u))
    <3>1. i \in Nat /\ at[u] \in Nat
      <4>1. config[u].after \in Seq(STRING) /\ config[u].depends \in Seq(Units)
        BY ConfigType
      <4> QED BY <4>1 DEF ServiceList, TypeOK
    <3>2. CASE i < at[u]
      <4>1. ServiceList(u, thr[u])[i] \in seen[u] BY <2>5, <3>2 DEF SeenInv
      <4> QED BY <1>3, <2>5, <4>1, SeenGrows
    <3>3. CASE i = at[u]
      <4>1. scm[Current(u)] = Wanted(thr[u]) BY <2>5 DEF MustWait
      <4>2. scm' = scm BY <2>5, PollsWait
      <4>3. Current(u) \in seen'[u] BY <1>3, <2>5, <4>1, <4>2 DEF Observe
      <4> QED BY <2>5, <3>3, <4>3 DEF Current
    <3> QED BY <2>5, <3>1, <3>2, <3>3
  <2>6. CASE u = w /\ WaitForDependents(u)
    BY <2>6, <2>1, <2>3, <2>5, PollPasses
  <2> QED BY <2>2, <2>4, <2>6
<1>4. CASE AdjustClock /\ Observe /\ config' = config
  BY <1>2, <1>4 DEF AdjustClock, waitVars, SeenInv, ServiceList
<1>5. CASE Reboot BY <1>5 DEF Reboot, SeenInv, Waits
<1> QED BY <1>1, <1>3, <1>4, <1>5 DEF Next

-----------------------------------------------------------------------------
(* Who goes past a unit has just seen it stopped. *)
LEMMA PassSees ==
  ASSUME TypeOK, PollsLeft, ShowsStart, NEW u \in Units, NEW v \in Units, Ordered(u, v),
         Process(u), config' = config, Passed(u, v)'
  PROVE  Passed(u, v) \/ scm[v] = "STOPPED"
<1>1. config[u].after \in Seq(STRING) /\ Len(config[u].after) \in Nat
  BY ConfigType
<1>a. at[u] \in Nat \ {0} BY DEF TypeOK
<1>b. ~stopReported'[u] BY DEF Passed, Launched
<1>c. thr'[u] \in {"after", "launch", "main"} BY DEF Passed, Launched
<1>d. ~stopReported[u] BY <1>b, <1>c, ShowsStepOf
<1>2. CASE ~WaitForDependents(u)
  <2>1. CASE thr'[u] \in Waits /\ at'[u] = 1
    <3>1. \A i \in DOMAIN config[u].after : ~(i < at'[u]) BY <1>1, <2>1
    <3> QED BY <2>1, <3>1 DEF Passed, Launched, Waits
  <2>2. CASE thr'[u] = thr[u] /\ at'[u] = at[u] /\ polls'[u] = polls[u] /\ cut'[u] = cut[u]
    BY <1>d, <2>2 DEF Passed, Launched, GaveUp
  <2>3. CASE thr[u] = "launch" /\ thr'[u] = "main" /\ polls'[u] = polls[u] /\ cut'[u] = cut[u]
    BY <1>d, <2>3 DEF Passed, Launched, GaveUp
  <2> QED BY <1>2, <1>c, <2>1, <2>2, <2>3, NoPollMoves DEF Waits
<1>3. CASE WaitForDependents(u)
  <2>0. thr[u] = "after" /\ thr'[u] \in {"after", "launch"}
    <3>1. \/ thr'[u] = thr[u] \/ thr'[u] \notin Waits BY <1>3, PollPasses
    <3> QED BY <1>3, <1>c, <3>1, PollsWait DEF Waits
  <2>1. CASE thr'[u] = thr[u] /\ at'[u] = 1
    <3>1. \A i \in DOMAIN config[u].after : ~(i < at'[u]) BY <1>1, <2>1
    <3> QED BY <2>0, <2>1, <3>1 DEF Passed, Launched
  <2>2. CASE thr'[u] = thr[u] /\ at'[u] = at[u]
    BY <1>d, <2>0, <2>2 DEF Passed, Launched
  <2>3. CASE thr'[u] = thr[u] /\ at'[u] = at[u] + 1 /\ ~MustWait(thr[u], Current(u))
    <3>2. PICK i \in DOMAIN config[u].after : i < at[u] + 1 /\ config[u].after[i] = v
      BY <2>0, <2>3 DEF Passed, Launched
    <3>3. CASE i < at[u] BY <1>d, <2>0, <3>2, <3>3 DEF Passed
    <3>4. CASE i = at[u]
      BY <2>0, <2>3, <3>2, <3>4 DEF MustWait, Wanted, Current, ServiceList
    <3>5. i \in Nat BY <1>1
    <3> QED BY <1>a, <3>2, <3>3, <3>4, <3>5
  <2>4. CASE thr'[u] \notin Waits /\ at[u] > Len(ServiceList(u, thr[u]))
    <3>1. at[u] > Len(config[u].after) BY <2>0, <2>4 DEF ServiceList
    <3>2. PICK i \in DOMAIN config[u].after : config[u].after[i] = v
      BY DEF Ordered, Named, ServiceList
    <3>3. i < at[u] BY <1>1, <1>a, <3>1, <3>2
    <3> QED BY <1>d, <2>0, <3>2, <3>3 DEF Passed
  <2>5. CASE thr'[u] \notin Waits /\ (cut'[u] \/ GaveUp(u)')
    BY <2>5 DEF Passed, Launched, Waits
  <2> QED BY <1>3, <2>1, <2>2, <2>3, <2>4, <2>5, PollPasses
<1> QED BY <1>2, <1>3

(* What one process does changes nothing in what the others went past. *)
LEMMA OthersPass ==
  ASSUME TypeOK, NEW w \in Units, Process(w), config' = config,
         NEW u \in Units, NEW v \in Units, u # w
  PROVE  Passed(u, v)' <=> Passed(u, v)
<1>1. /\ thr'[u] = thr[u] /\ at'[u] = at[u] /\ polls'[u] = polls[u] /\ cut'[u] = cut[u]
      /\ stopReported'[u] = stopReported[u]
  BY OthersStay
<1> QED BY <1>1 DEF Passed, Launched, GaveUp

LEMMA ExclusionStep ==
  ASSUME TypeOK, PollsLeft, ShowsStart, ExclusionInv, [Next]_vars
  PROVE  ExclusionInv'
<1>1. CASE UNCHANGED vars
  BY <1>1 DEF vars, waitVars, ExclusionInv, Ordered, Named, ServiceList, Passed, Launched, GaveUp
<1>2. ASSUME NEW w \in Units, Process(w), config' = config PROVE ExclusionInv'
  <2> SUFFICES ASSUME NEW u \in Units, NEW v \in Units, u # v,
                      Ordered(u, v), Ordered(v, u), Passed(u, v)', Passed(v, u)'
               PROVE  FALSE
    BY <1>2 DEF ExclusionInv, Ordered, Named, ServiceList
  <2>1. ~(Passed(u, v) /\ Passed(v, u)) BY DEF ExclusionInv
  <2>2. Passed(v, u) => scm[v] # "STOPPED" BY DEF Passed, Launched, ShowsStart
  <2>3. Passed(u, v) => scm[u] # "STOPPED" BY DEF Passed, Launched, ShowsStart
  <2>4. CASE w = u BY <1>2, <2>1, <2>2, <2>4, PassSees, OthersPass
  <2>5. CASE w = v BY <1>2, <2>1, <2>3, <2>5, PassSees, OthersPass
  <2>6. CASE w # u /\ w # v BY <1>2, <2>1, <2>6, OthersPass
  <2> QED BY <2>4, <2>5, <2>6
<1>3. CASE AdjustClock /\ config' = config
  BY <1>3 DEF AdjustClock, waitVars, ExclusionInv, Ordered, Named, ServiceList, Passed,
              Launched, GaveUp
<1>4. CASE Reboot BY <1>4 DEF Reboot, ExclusionInv, Passed, Launched
<1> QED BY <1>1, <1>2, <1>3, <1>4 DEF Next

-----------------------------------------------------------------------------
LEMMA IInvInit == ASSUME Init PROVE IInv
<1>1. TypeOK BY TypeInit
<1>2. PollsLeft /\ SeenInv /\ ShowsStart /\ ExclusionInv
  BY DEF Init, PollsLeft, SeenInv, ShowsStart, ExclusionInv, Passed, Launched, Waits
<1> QED BY <1>1, <1>2 DEF IInv

(* The inductive invariant holds for every set of units and unit files. *)
THEOREM Inductive == Spec => []IInv
<1>1. Init => IInv BY IInvInit
<1>2. IInv /\ [Next]_vars => IInv'
  BY TypeStep, PollsStep, SeenStep, ShowsStep, ExclusionStep DEF IInv
<1> QED BY <1>1, <1>2, PTL DEF Spec

(* The types of every state. *)
THEOREM TypeCorrect == Spec => []TypeOK
<1>1. IInv => TypeOK BY DEF IInv
<1> QED BY <1>1, Inductive, PTL

(* Of two units ordered after each other never both look after a main       *)
(* process, however many units there are and whatever else they are ordered *)
(* after, through stops that succeed or fail, shutdowns, restarts and       *)
(* reboots; unless one gave up waiting, met a failing call or has reported  *)
(* SERVICE_STOPPED.                                                         *)
THEOREM Exclusion == Spec => []MutualAfterExcludes
<1>1. IInv => MutualAfterExcludes BY DEF IInv, ExclusionInv, MutualAfterExcludes, Passed
<1> QED BY <1>1, Inductive, PTL

(* A wait that neither gives up nor meets a failing call has seen every     *)
(* service of its list in the state it waits for.                           *)
THEOREM KeepsOrder == Spec => WaitKeepsOrder
<1>1. ASSUME IInv, [Next]_vars, NEW u \in Units, WaitSucceeds(u), ~GaveUp(u)', ~cut'[u]
      PROVE  Named(u, thr[u]) \subseteq seen[u]
  <2>a. TypeOK /\ PollsLeft /\ SeenInv BY <1>1 DEF IInv
  <2>b. thr[u] \in Waits /\ thr'[u] \in {"launch", "catchSuccess"}
    BY <1>1 DEF WaitSucceeds, Waits
  <2>c. config[u].after \in Seq(STRING) /\ config[u].depends \in Seq(Units)
        /\ Len(config[u].after) \in Nat /\ Len(config[u].depends) \in Nat
        /\ at[u] \in Nat \ {0}
    BY <2>a, ConfigType DEF TypeOK
  <2>1. at[u] > Len(ServiceList(u, thr[u]))
    <3>1. PICK w \in Units : Process(w)
      BY <1>1, <2>b DEF Next, vars, AdjustClock, Reboot, Waits
    <3>2. w = u BY <2>a, <2>b, <3>1, OthersStay DEF Waits
    <3>3. WaitForDependents(u) BY <2>a, <2>b, <3>1, <3>2, NoPollMoves DEF Waits
    <3> QED BY <1>1, <2>a, <2>b, <3>3, PollPasses DEF Waits
  <2>2. \A i \in DOMAIN ServiceList(u, thr[u]) : i < at[u]
    BY <2>c, <2>1 DEF ServiceList
  <2> QED BY <2>a, <2>b, <2>2 DEF SeenInv, Named
<1>2. IInv /\ [Next]_vars =>
        [\A u \in Units : WaitSucceeds(u) /\ ~GaveUp(u)' /\ ~cut'[u]
           => Named(u, thr[u]) \subseteq seen[u]]_vars
  BY <1>1
<1> QED BY <1>2, Inductive, PTL DEF Spec, WaitKeepsOrder
=============================================================================
