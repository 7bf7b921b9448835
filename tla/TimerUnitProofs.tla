-------------------------- MODULE TimerUnitProofs ---------------------------
(***************************************************************************)
(* Proofs about TimerUnit: for every timer section, every length of a      *)
(* second, every accuracy and every number of failing queries.             *)
(***************************************************************************)
EXTENDS TimerUnit, TLAPS

(* What the registry holds, whatever the unit file says. *)
LEMMA RegisteredType == ASSUME NEW f \in Files PROVE Registered(f) \in Timer
<1>1. f \in TimerFile BY ConstantsAssumption
<1>2. \A n \in Nat : n % DWord \in DWords BY ConstantsAssumption DEF DWords
<1>3. 0 \in DWords /\ DWords \subseteq Nat BY ConstantsAssumption DEF DWords
<1>4. ASSUME NEW s \in Nat \cup {NaN} PROVE Millis(s) \in DWords
  <2>1. CASE s = NaN BY <1>3, <2>1 DEF Millis
  <2>2. CASE s # NaN
    <3>1. s \in Nat /\ s * Second \in Nat BY <2>2, ConstantsAssumption
    <3> QED BY <1>2, <2>2, <3>1 DEF Millis
  <2> QED BY <2>1, <2>2
<1>5. /\ f.onBoot \in Nat \cup {NaN} /\ f.onActive \in Nat \cup {NaN}
      /\ f.onUnitActive \in Nat \cup {NaN} /\ f.onUnitInactive \in Nat \cup {NaN}
      /\ f.accuracy \in Nat \cup {NaN}
  BY <1>1 DEF TimerFile
<1>6. (IF f.onUnitInactive = NaN THEN 0 ELSE f.onUnitInactive % DWord) \in DWords
  BY <1>2, <1>3, <1>5
<1>7. (IF f.accuracy = NaN THEN DefaultAccuracy ELSE Millis(f.accuracy)) \in Nat
  BY <1>3, <1>4, <1>5, ConstantsAssumption
<1> QED BY <1>4, <1>5, <1>6, <1>7 DEF Registered, Timer

(* The intervals of a timer, and the bounds, are numbers. *)
LEMMA TimerType ==
  ASSUME TypeOK
  PROVE  /\ timer.onBoot \in 0..(DWord - 1) /\ timer.onActive \in 0..(DWord - 1)
         /\ timer.onUnitActive \in 0..(DWord - 1) /\ timer.onUnitInactive \in 0..(DWord - 1)
         /\ timer.accuracy \in Nat
         /\ Second \in Nat \ {0} /\ DWord \in Nat \ {0} /\ MaxRetries \in Nat /\ MaxTime \in Nat
         /\ MaxTime >= 2 * DWord
BY ConstantsAssumption DEF TypeOK, Timer, DWords

(* A DWORD is its own remainder. *)
LEMMA Remainder == ASSUME NEW n \in 0..(DWord - 1) PROVE n % DWord = n
BY ConstantsAssumption

LEMMA RemainderType == ASSUME NEW n \in Int PROVE n % DWord \in 0..(DWord - 1)
BY ConstantsAssumption

LEMMA IInvInit == ASSUME Init PROVE IInv
<1>1. timer \in Timer BY RegisteredType DEF Init
<1>a. MaxRetries \in Nat /\ MaxTime \in Nat BY ConstantsAssumption
<1>b. 0 \in 0..MaxRetries /\ 0 \in 0..MaxTime BY <1>a
<1>2. TypeOK
  <2>1. left \in Nat /\ deadline \in Nat \cup {NoDeadline} BY DEF Init
  <2>2. since \in 0..MaxTime /\ starts \in 0..2 /\ retries \in 0..MaxRetries
    BY <1>b DEF Init
  <2>3. thr \in Steps /\ done \in BOOLEAN BY DEF Init, Steps
  <2> QED BY <1>1, <2>1, <2>2, <2>3 DEF Init, TypeOK
<1>3. thr = "none" /\ starts = 0 /\ deadline = NoDeadline BY DEF Init
<1>4. FirstInv /\ EarlyInv /\ LateInv /\ OnceInv
  BY <1>3 DEF FirstInv, EarlyInv, LateInv, OnceInv, Round
<1> QED BY <1>2, <1>4 DEF IInv

(* Every step keeps the types. *)
LEMMA TypeStep == ASSUME TypeOK, [Next]_vars PROVE TypeOK'
<1>t. /\ timer.onBoot \in Nat /\ timer.onActive \in Nat /\ timer.onUnitActive \in Nat
      /\ timer.onUnitInactive \in Nat /\ timer.accuracy \in Nat
      /\ timer.onBoot < DWord /\ timer.onActive < DWord
      /\ timer.onUnitActive < DWord /\ timer.onUnitInactive < DWord
      /\ Second \in Nat \ {0} /\ DWord \in Nat \ {0} /\ MaxRetries \in Nat /\ MaxTime \in Nat
      /\ MaxTime >= 2 * DWord
  BY TimerType
<1> USE <1>t DEF TypeOK, Steps, NoDeadline, Infinite
<1>0. CASE UNCHANGED vars BY <1>0 DEF vars
<1>1. CASE OnStart BY <1>1 DEF OnStart
<1>2. CASE OnStop
  <2>1. /\ thr' = "dead" /\ status' = "STOPPED" /\ left' = 0 /\ deadline' = -1
        /\ done' = FALSE /\ retries' = 0 /\ seen' = "STOPPED" /\ proc' = "gone"
        /\ since' = 0 /\ starts' = 0 /\ timer' = timer /\ svc' = svc
    BY <1>2 DEF OnStop
  <2>2. timer' \in Timer BY <2>1
  <2>3. left' \in Nat \/ (thr' = "wait" /\ left' = Infinite) BY <2>1
  <2>4. deadline' \in Nat \cup {NoDeadline} BY <2>1
  <2>5. done' \in BOOLEAN BY <2>1
  <2>6. retries' \in 0..MaxRetries BY <2>1
  <2>7. since' \in 0..MaxTime /\ starts' \in 0..2 BY <2>1
  <2> QED BY <2>1, <2>2, <2>3, <2>4, <2>5, <2>6, <2>7
<1>3. CASE BootSleepEnds BY <1>3, RemainderType DEF BootSleepEnds
<1>4. CASE ActiveSleepEnds BY <1>4 DEF ActiveSleepEnds
<1>5. CASE StartUnit
  <2>1. CASE timer.onUnitActive = 0
    <3>1. done' BY <1>5, <2>1 DEF StartUnit
    <3> QED BY <1>5, <2>1, <3>1 DEF StartUnit
  <2>2. CASE timer.onUnitActive > 0
    <3>a. timer.onUnitActive # 0 BY <2>2
    <3>b. done' = (timer.onUnitActive = 0) BY <1>5 DEF StartUnit
    <3>1. ~done' BY <3>a, <3>b, Zenon
    <3> QED BY <1>5, <2>2, <3>1 DEF StartUnit
  <2> QED BY <2>1, <2>2
<1>6. CASE QueryFails BY <1>6 DEF QueryFails
<1>7. CASE QueryAgain BY <1>7 DEF QueryAgain
<1>8. CASE QueryStatus BY <1>8 DEF QueryStatus
<1>9. CASE WaitEnds BY <1>9 DEF WaitEnds
<1>10. CASE SleepOn BY <1>10 DEF SleepOn, Early
<1>11. CASE SleepEnds BY <1>11 DEF SleepEnds
<1>12. CASE RoundEnds BY <1>12 DEF RoundEnds, Early
<1>13. CASE UnitEnds BY <1>13 DEF UnitEnds
<1>14. CASE UnitStarts BY <1>14 DEF UnitStarts
<1>15. CASE Tick BY <1>15 DEF Tick, Rests, CountDown
<1> QED BY <1>0, <1>1, <1>2, <1>3, <1>4, <1>5, <1>6, <1>7, <1>8, <1>9, <1>10, <1>11, <1>12, <1>13, <1>14, <1>15
        DEF Next, TimerThread

(* The sleeps before the first start add up, and nothing sets a deadline before it. *)
LEMMA FirstStep == ASSUME TypeOK, FirstInv, [Next]_vars PROVE FirstInv'
<1>t. /\ timer.onBoot \in Nat /\ timer.onActive \in Nat /\ timer.onUnitActive \in Nat
      /\ timer.onUnitInactive \in Nat /\ timer.accuracy \in Nat
      /\ timer.onBoot < DWord /\ timer.onActive < DWord
      /\ timer.onUnitActive < DWord /\ timer.onUnitInactive < DWord
      /\ Second \in Nat \ {0} /\ DWord \in Nat \ {0} /\ MaxRetries \in Nat /\ MaxTime \in Nat
      /\ MaxTime >= 2 * DWord
  BY TimerType
<1>d. FirstDelay < 2 * DWord
  <2>a. timer.onActive - timer.onBoot \in Int BY <1>t
  <2>1. (timer.onActive - timer.onBoot) % DWord \in 0..(DWord - 1) BY <2>a, RemainderType
  <2> QED BY <1>t, <2>1 DEF FirstDelay, Larger
<1> USE <1>t, <1>d DEF TypeOK, FirstInv, Round, NoDeadline, Infinite, FirstDelay, Larger
<1>0. CASE UNCHANGED vars BY <1>0 DEF vars
<1>1. CASE OnStart BY <1>1 DEF OnStart
<1>2. CASE OnStop BY <1>2 DEF OnStop
<1>3. CASE BootSleepEnds
  <2>1. since = timer.onBoot BY <1>3 DEF BootSleepEnds
  <2>2. left' + since = FirstDelay
    <3>1. CASE timer.onActive = 0 BY <1>3, <2>1, <3>1 DEF BootSleepEnds
    <3>2. CASE 0 < timer.onActive /\ timer.onActive < timer.onBoot
      <4>1. (timer.onActive - timer.onBoot) % DWord \in Nat BY RemainderType
      <4> QED BY <1>3, <2>1, <3>2, <4>1 DEF BootSleepEnds
    <3>3. CASE 0 < timer.onActive /\ timer.onBoot <= timer.onActive
      <4>1. (timer.onActive - timer.onBoot) % DWord = timer.onActive - timer.onBoot
        BY <3>3, Remainder
      <4> QED BY <1>3, <2>1, <3>3, <4>1 DEF BootSleepEnds
    <3> QED BY <3>1, <3>2, <3>3
  <2>3. left' \in Int BY <1>3, RemainderType DEF BootSleepEnds
  <2>4. FirstDelay' = FirstDelay BY <1>3 DEF BootSleepEnds
  <2> QED BY <1>3, <2>2, <2>3, <2>4 DEF BootSleepEnds
<1>4. CASE ActiveSleepEnds BY <1>4 DEF ActiveSleepEnds
<1>5. CASE StartUnit
  <2>1. CASE timer.onUnitActive = 0
    <3>1. done' BY <1>5, <2>1 DEF StartUnit
    <3> QED BY <1>5, <2>1, <3>1 DEF StartUnit
  <2>2. CASE timer.onUnitActive > 0
    <3>a. timer.onUnitActive # 0 BY <2>2
    <3>b. done' = (timer.onUnitActive = 0) BY <1>5 DEF StartUnit
    <3>1. ~done' BY <3>a, <3>b, Zenon
    <3> QED BY <1>5, <2>2, <3>1 DEF StartUnit
  <2> QED BY <2>1, <2>2
<1>6. CASE QueryFails BY <1>6 DEF QueryFails
<1>7. CASE QueryAgain BY <1>7 DEF QueryAgain
<1>8. CASE QueryStatus BY <1>8 DEF QueryStatus
<1>9. CASE WaitEnds BY <1>9 DEF WaitEnds
<1>10. CASE SleepOn BY <1>10 DEF SleepOn, Early
<1>11. CASE SleepEnds BY <1>11 DEF SleepEnds
<1>12. CASE RoundEnds BY <1>12 DEF RoundEnds, Early
<1>13. CASE UnitEnds BY <1>13 DEF UnitEnds
<1>14. CASE UnitStarts BY <1>14 DEF UnitStarts
<1>15. CASE Tick BY <1>15 DEF Tick, Rests, CountDown
<1> QED BY <1>0, <1>1, <1>2, <1>3, <1>4, <1>5, <1>6, <1>7, <1>8, <1>9, <1>10, <1>11, <1>12, <1>13, <1>14, <1>15
        DEF Next, TimerThread

(* A round that is followed by another one ends no earlier than its interval. *)
LEMMA EarlyStep == ASSUME TypeOK, FirstInv, EarlyInv, [Next]_vars PROVE EarlyInv'
<1>t. /\ timer.onBoot \in Nat /\ timer.onActive \in Nat /\ timer.onUnitActive \in Nat
      /\ timer.onUnitInactive \in Nat /\ timer.accuracy \in Nat
      /\ timer.onBoot < DWord /\ timer.onActive < DWord
      /\ timer.onUnitActive < DWord /\ timer.onUnitInactive < DWord
      /\ Second \in Nat \ {0} /\ DWord \in Nat \ {0} /\ MaxRetries \in Nat /\ MaxTime \in Nat
      /\ MaxTime >= 2 * DWord
  BY TimerType
<1> USE <1>t DEF TypeOK, FirstInv, EarlyInv, Round, NoDeadline, Infinite, Interval, Smaller
<1>0. CASE UNCHANGED vars BY <1>0 DEF vars
<1>1. CASE OnStart BY <1>1 DEF OnStart
<1>2. CASE OnStop BY <1>2 DEF OnStop
<1>3. CASE BootSleepEnds BY <1>3 DEF BootSleepEnds
<1>4. CASE ActiveSleepEnds BY <1>4 DEF ActiveSleepEnds
<1>5. CASE StartUnit
  <2>1. CASE timer.onUnitActive = 0
    <3>1. done' BY <1>5, <2>1 DEF StartUnit
    <3> QED BY <1>5, <2>1, <3>1 DEF StartUnit
  <2>2. CASE timer.onUnitActive > 0
    <3>a. timer.onUnitActive # 0 BY <2>2
    <3>b. done' = (timer.onUnitActive = 0) BY <1>5 DEF StartUnit
    <3>1. ~done' BY <3>a, <3>b, Zenon
    <3> QED BY <1>5, <2>2, <3>1 DEF StartUnit
  <2> QED BY <2>1, <2>2
<1>6. CASE QueryFails BY <1>6 DEF QueryFails
<1>7. CASE QueryAgain BY <1>7 DEF QueryAgain
<1>8. CASE QueryStatus BY <1>8 DEF QueryStatus
<1>9. CASE WaitEnds BY <1>9 DEF WaitEnds
<1>10. CASE SleepOn BY <1>10 DEF SleepOn, Early
<1>11. CASE SleepEnds BY <1>11 DEF SleepEnds
<1>12. CASE RoundEnds BY <1>12 DEF RoundEnds, Early
<1>13. CASE UnitEnds BY <1>13 DEF UnitEnds
<1>14. CASE UnitStarts BY <1>14 DEF UnitStarts
<1>15. CASE Tick BY <1>15 DEF Tick, Rests, CountDown
<1> QED BY <1>0, <1>1, <1>2, <1>3, <1>4, <1>5, <1>6, <1>7, <1>8, <1>9, <1>10, <1>11, <1>12, <1>13, <1>14, <1>15
        DEF Next, TimerThread

(* A timer without an interval stays in its first round. *)
LEMMA OnceStep == ASSUME TypeOK, FirstInv, OnceInv, [Next]_vars PROVE OnceInv'
<1>t. /\ timer.onBoot \in Nat /\ timer.onActive \in Nat /\ timer.onUnitActive \in Nat
      /\ timer.onUnitInactive \in Nat /\ timer.accuracy \in Nat
      /\ timer.onBoot < DWord /\ timer.onActive < DWord
      /\ timer.onUnitActive < DWord /\ timer.onUnitInactive < DWord
      /\ Second \in Nat \ {0} /\ DWord \in Nat \ {0} /\ MaxRetries \in Nat /\ MaxTime \in Nat
      /\ MaxTime >= 2 * DWord
  BY TimerType
<1> USE <1>t DEF TypeOK, FirstInv, OnceInv, Round, NoDeadline, Infinite
<1>0. CASE UNCHANGED vars BY <1>0 DEF vars
<1>1. CASE OnStart BY <1>1 DEF OnStart
<1>2. CASE OnStop BY <1>2 DEF OnStop
<1>3. CASE BootSleepEnds BY <1>3 DEF BootSleepEnds
<1>4. CASE ActiveSleepEnds BY <1>4 DEF ActiveSleepEnds
<1>5. CASE StartUnit
  <2>1. CASE timer.onUnitActive = 0
    <3>1. done' BY <1>5, <2>1 DEF StartUnit
    <3> QED BY <1>5, <2>1, <3>1 DEF StartUnit
  <2>2. CASE timer.onUnitActive > 0
    <3>a. timer.onUnitActive # 0 BY <2>2
    <3>b. done' = (timer.onUnitActive = 0) BY <1>5 DEF StartUnit
    <3>1. ~done' BY <3>a, <3>b, Zenon
    <3> QED BY <1>5, <2>2, <3>1 DEF StartUnit
  <2> QED BY <2>1, <2>2
<1>6. CASE QueryFails BY <1>6 DEF QueryFails
<1>7. CASE QueryAgain BY <1>7 DEF QueryAgain
<1>8. CASE QueryStatus BY <1>8 DEF QueryStatus
<1>9. CASE WaitEnds BY <1>9 DEF WaitEnds
<1>10. CASE SleepOn BY <1>10 DEF SleepOn, Early
<1>11. CASE SleepEnds BY <1>11 DEF SleepEnds
<1>12. CASE RoundEnds BY <1>12 DEF RoundEnds, Early
<1>13. CASE UnitEnds BY <1>13 DEF UnitEnds
<1>14. CASE UnitStarts BY <1>14 DEF UnitStarts
<1>15. CASE Tick BY <1>15 DEF Tick, Rests, CountDown
<1> QED BY <1>0, <1>1, <1>2, <1>3, <1>4, <1>5, <1>6, <1>7, <1>8, <1>9, <1>10, <1>11, <1>12, <1>13, <1>14, <1>15
        DEF Next, TimerThread

(* Where the time of a round goes: the failed queries, the wait, the sleep   *)
(* up to the deadline and at most one accuracy interval beyond it.          *)
LEMMA LateStep == ASSUME TypeOK, FirstInv, EarlyInv, LateInv, [Next]_vars PROVE LateInv'
<1>t. /\ timer.onBoot \in Nat /\ timer.onActive \in Nat /\ timer.onUnitActive \in Nat
      /\ timer.onUnitInactive \in Nat /\ timer.accuracy \in Nat
      /\ timer.onBoot < DWord /\ timer.onActive < DWord
      /\ timer.onUnitActive < DWord /\ timer.onUnitInactive < DWord
      /\ Second \in Nat \ {0} /\ DWord \in Nat \ {0} /\ MaxRetries \in Nat /\ MaxTime \in Nat
      /\ MaxTime >= 2 * DWord
  BY TimerType
<1>r. /\ retries \in Nat /\ retries * Second \in Nat /\ MaxRetries * Second \in Nat
      /\ retries * Second <= MaxRetries * Second
      /\ (retries + 1) * Second = retries * Second + Second
  BY <1>t DEF TypeOK
<1>m. /\ Latest \in Nat /\ Larger(1, timer.accuracy) \in Nat /\ Larger(1, timer.accuracy) >= 1
      /\ Larger(1, timer.accuracy) >= timer.accuracy
      /\ Latest >= MaxRetries * Second + timer.onUnitActive
      /\ Latest >= MaxRetries * Second + timer.onUnitInactive
      /\ Latest >= timer.onUnitActive
  BY <1>t, <1>r DEF Latest, Larger
<1>l. timer' = timer => Latest' = Latest /\ (Larger(1, timer.accuracy))' = Larger(1, timer.accuracy)
  BY DEF Latest, Larger
<1> USE <1>t, <1>r, <1>m, <1>l DEF TypeOK, FirstInv, LateInv, Round, NoDeadline, Infinite
<1>0. CASE UNCHANGED vars BY <1>0 DEF vars, Latest, Larger
<1>1. CASE OnStart BY <1>1 DEF OnStart
<1>2. CASE OnStop BY <1>2 DEF OnStop
<1>3. CASE BootSleepEnds BY <1>3 DEF BootSleepEnds
<1>4. CASE ActiveSleepEnds BY <1>4 DEF ActiveSleepEnds
<1>5. CASE StartUnit
  <2>1. CASE timer.onUnitActive = 0
    <3>1. done' BY <1>5, <2>1 DEF StartUnit
    <3> QED BY <1>5, <2>1, <3>1 DEF StartUnit
  <2>2. CASE timer.onUnitActive > 0
    <3>a. timer.onUnitActive # 0 BY <2>2
    <3>b. done' = (timer.onUnitActive = 0) BY <1>5 DEF StartUnit
    <3>1. ~done' BY <3>a, <3>b, Zenon
    <3> QED BY <1>5, <2>2, <3>1 DEF StartUnit
  <2> QED BY <2>1, <2>2
<1>6. CASE QueryFails BY <1>6 DEF QueryFails
<1>7. CASE QueryAgain BY <1>7 DEF QueryAgain
<1>8. CASE QueryStatus BY <1>8 DEF QueryStatus
<1>9. CASE WaitEnds BY <1>9 DEF WaitEnds
<1>10. CASE SleepOn
  <2>1. left' <= Larger(1, timer.accuracy) /\ left' \in Nat BY <1>10 DEF SleepOn, Larger
  <2>2. ~done => deadline > 0 BY <1>10 DEF SleepOn, Early, EarlyInv
  <2>3. ~done => since + deadline <= Latest BY <1>10, <2>2 DEF SleepOn
  <2> QED BY <1>10, <2>1, <2>2, <2>3 DEF SleepOn
<1>11. CASE SleepEnds BY <1>11 DEF SleepEnds
<1>12. CASE RoundEnds BY <1>12 DEF RoundEnds, Early
<1>13. CASE UnitEnds BY <1>13 DEF UnitEnds
<1>14. CASE UnitStarts BY <1>14 DEF UnitStarts
<1>15. CASE Tick BY <1>15 DEF Tick, Rests, CountDown
<1> QED BY <1>0, <1>1, <1>2, <1>3, <1>4, <1>5, <1>6, <1>7, <1>8, <1>9, <1>10, <1>11, <1>12, <1>13, <1>14, <1>15
        DEF Next, TimerThread

-----------------------------------------------------------------------------
(* The inductive invariant holds of every timer. *)
THEOREM Inductive == Spec => []IInv
<1>1. Init => IInv BY IInvInit
<1>2. IInv /\ [Next]_vars => IInv'
  BY TypeStep, FirstStep, EarlyStep, LateStep, OnceStep DEF IInv
<1> QED BY <1>1, <1>2, PTL DEF Spec

(* The types of every state. *)
THEOREM TypeCorrect == Spec => []TypeOK
<1>1. IInv => TypeOK BY DEF IInv
<1> QED BY <1>1, Inductive, PTL

(* No timer starts its unit before the delays of the first start, or before *)
(* the interval since the last start, are over.                             *)
THEOREM Punctual == Spec => []NeverEarly
<1>1. ASSUME IInv PROVE NeverEarly
  <2>1. starts \in 0..2 BY <1>1 DEF IInv, TypeOK
  <2>2. CASE starts = 0
    <3>1. thr = "start" => since = FirstDelay BY <1>1, <2>2 DEF IInv, FirstInv
    <3>2. since \in Nat BY <1>1, ConstantsAssumption DEF IInv, TypeOK
    <3> QED BY <2>2, <3>1, <3>2 DEF NeverEarly
  <2>3. CASE starts > 0 BY <1>1, <2>3 DEF IInv, EarlyInv, NeverEarly
  <2> QED BY <2>1, <2>2, <2>3
<1> QED BY <1>1, Inductive, PTL

(* Each start comes at most the accuracy, and the time failed queries took, *)
(* after its deadline, even when the service never ends.                    *)
THEOREM Timely == Spec => []NeverLate
<1>1. ASSUME IInv PROVE NeverLate
  <2>1. starts \in 0..2 BY <1>1 DEF IInv, TypeOK
  <2>2. CASE starts = 0
    <3>1. thr = "start" => since = FirstDelay BY <1>1, <2>2 DEF IInv, FirstInv
    <3>2. since \in Nat BY <1>1, ConstantsAssumption DEF IInv, TypeOK
    <3> QED BY <2>2, <3>1, <3>2 DEF NeverLate
  <2>3. CASE starts > 0
    <3>1. thr = "start" => since <= Latest + Larger(1, timer.accuracy)
      BY <1>1, <2>3 DEF IInv, LateInv
    <3>2. Latest + Larger(1, timer.accuracy)
            = Larger(timer.onUnitActive, timer.onUnitInactive) + Lateness
      <4>1. TypeOK BY <1>1 DEF IInv
      <4>2. /\ timer.onUnitActive \in Nat /\ timer.onUnitInactive \in Nat
            /\ timer.accuracy \in Nat /\ MaxRetries * Second \in Nat
        BY <4>1, TimerType
      <4> QED BY <4>2 DEF Latest, Lateness, Larger
    <3> QED BY <2>3, <3>1, <3>2 DEF NeverLate
  <2> QED BY <2>1, <2>2, <2>3
<1> QED BY <1>1, Inductive, PTL

(* A timer without a repeat interval starts its unit at most once. *)
THEOREM OneShot == Spec => []OneShotStartsOnce
<1>1. IInv => OneShotStartsOnce BY DEF IInv, OnceInv, OneShotStartsOnce
<1> QED BY <1>1, Inductive, PTL
=============================================================================
