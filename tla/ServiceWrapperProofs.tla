------------------------ MODULE ServiceWrapperProofs ------------------------
(***************************************************************************)
(* Proofs about ServiceWrapper.  The safety properties follow from IInv,   *)
(* which every step of the three threads and of the processes keeps.       *)
(***************************************************************************)
EXTENDS ServiceWrapper, TLAPS

LEMMA IInvInit == Init => IInv
BY KillAssumption DEF Init, IInv, TypeOK, StoppedMeansKilled, Up, Alive, Late

(* A step of ServiceMain, which runs before any stop. *)
LEMMA MainKeeps == IInv /\ MainStep => IInv'
<1> SUFFICES ASSUME IInv, MainStep PROVE IInv'
  OBVIOUS
<1> USE DEF IInv, TypeOK, StoppedMeansKilled, Up, Alive, Late, world, history
<1>1. CASE StartPending
  BY <1>1 DEF StartPending
<1>2. CASE PreSucceeds
  BY <1>2 DEF PreSucceeds
<1>3. CASE PreFails
  BY <1>3 DEF PreFails, StartFails
<1>4. CASE LaunchSucceeds
  BY <1>4 DEF LaunchSucceeds
<1>5. CASE LaunchFails
  BY <1>5 DEF LaunchFails, StartFails
<1>6. CASE CreateMonitor
  BY <1>6 DEF CreateMonitor
<1>7. CASE ReportRunning
  BY <1>7 DEF ReportRunning
<1> QED
  BY <1>1, <1>2, <1>3, <1>4, <1>5, <1>6, <1>7 DEF MainStep

(* A step of the control handler. *)
LEMMA StopKeeps == IInv /\ (Stop \/ Shutdown \/ StopStep) => IInv'
<1> SUFFICES ASSUME IInv, Stop \/ Shutdown \/ StopStep PROVE IInv'
  OBVIOUS
<1> USE DEF IInv, TypeOK, StoppedMeansKilled, Up, Alive, Late, world, history
<1>1. CASE Stop
  BY <1>1 DEF Stop
<1>2. CASE Shutdown
  BY <1>2 DEF Shutdown
<1>3. CASE SetStopping
  BY <1>3 DEF SetStopping
<1>4. CASE SendCtrlC
  BY <1>4 DEF SendCtrlC
<1>5. CASE ChildObeys
  BY <1>5 DEF ChildObeys
<1>6. CASE ConsoleTimeout
  BY <1>6 DEF ConsoleTimeout
<1>7. CASE KillKids
  BY <1>7 DEF KillKids, Killed
<1>8. CASE KillMain
  BY <1>8 DEF KillMain, Killed
<1>9. CASE Terminate
  BY <1>9 DEF Terminate, Killed
<1>10. CASE KillFails
  BY <1>10 DEF KillFails
<1>11. CASE CloseInStop
  BY <1>11 DEF CloseInStop
<1>12. CASE ClearInStop
  BY <1>12 DEF ClearInStop
<1>13. CASE ReportStopped
  BY <1>13 DEF ReportStopped
<1> QED
  BY <1>1, <1>2, <1>3, <1>4, <1>5, <1>6, <1>7, <1>8, <1>9, <1>10, <1>11, <1>12, <1>13
  DEF StopStep

(* A step of the monitor. *)
LEMMA MonitorKeeps == IInv /\ MonitorStep => IInv'
<1> SUFFICES ASSUME IInv, MonitorStep PROVE IInv'
  OBVIOUS
<1> USE DEF IInv, TypeOK, StoppedMeansKilled, Up, Alive, Late, world, history
<1>1. CASE BeginWait
  BY <1>1 DEF BeginWait
<1>2. CASE EndWait
  BY <1>2 DEF EndWait
<1>3. CASE CloseInMonitor
  BY <1>3 DEF CloseInMonitor
<1>4. CASE ClearInMonitor
  BY <1>4 DEF ClearInMonitor
<1>5. CASE ExitProcess
  BY <1>5 DEF ExitProcess
<1>6. CASE MonitorEnds
  BY <1>6 DEF MonitorEnds
<1> QED
  BY <1>1, <1>2, <1>3, <1>4, <1>5, <1>6 DEF MonitorStep

(* A step of the processes, and the end of the wrapper. *)
LEMMA WorldKeeps ==
  IInv /\ (Exit \/ ChildEnds \/ ChildDies \/ KidStarts \/ KidEnds) => IInv'
<1> SUFFICES ASSUME IInv, Exit \/ ChildEnds \/ ChildDies \/ KidStarts \/ KidEnds PROVE IInv'
  OBVIOUS
<1> USE DEF IInv, TypeOK, StoppedMeansKilled, Up, Alive, Late, world, history, code
<1>1. CASE Exit
  BY <1>1 DEF Exit
<1>2. CASE ChildEnds
  BY <1>2 DEF ChildEnds
<1>3. CASE ChildDies
  BY <1>3 DEF ChildDies
<1>4. CASE KidStarts
  BY <1>4 DEF KidStarts
<1>5. CASE KidEnds
  BY <1>5 DEF KidEnds
<1> QED
  BY <1>1, <1>2, <1>3, <1>4, <1>5

LEMMA StutterKeeps == IInv /\ UNCHANGED vars => IInv'
BY DEF vars, code, world, history, IInv, TypeOK, StoppedMeansKilled, Up, Alive, Late

(* The strengthening is an invariant of the wrapper, with or without kills *)
(* that fail.                                                              *)
THEOREM Inductive == Spec => []IInv
<1>1. Init => IInv
  BY IInvInit
<1>2. IInv /\ [Next]_vars => IInv'
  BY MainKeeps, StopKeeps, MonitorKeeps, WorldKeeps, StutterKeeps DEF Next
<1> QED
  BY <1>1, <1>2, PTL DEF Spec

(* The state of the wrapper keeps its types, and the monitor has a child.  *)
THEOREM TypeCorrect == Spec => []TypeOK
<1>1. IInv => TypeOK
  BY DEF IInv
<1> QED
  BY <1>1, Inductive, PTL

(* A stop of a service whose child is alive never ends the wrapper with an *)
(* error: OnStop sets m_IsStopping before it kills the child.              *)
THEOREM NoFalseFailure == Spec => []StopIsNoFailure
<1>1. IInv => StopIsNoFailure
  BY DEF IInv, StopIsNoFailure
<1> QED
  BY <1>1, Inductive, PTL

(* Before OnStop reports the end it has terminated the child and what was  *)
(* seen below it, unless a kill failed.                                    *)
THEOREM StopKills == Spec => []StoppedMeansKilled
<1>1. IInv => StoppedMeansKilled
  BY DEF IInv
<1> QED
  BY <1>1, Inductive, PTL
=============================================================================
