------------------------------ MODULE TimerUnit ------------------------------
(***************************************************************************)
(* A timer unit: systemctl writes the intervals of the unit file to the    *)
(* registry (SystemDTimer::RegisterService), and the timer thread of the   *)
(* timer's systemd-exec process reads them and starts the unit's service   *)
(* through the service control manager, once or again and again            *)
(* (TimerThread).  The service comes and goes as it likes.                 *)
(*                                                                         *)
(* Time is relative: what is left of a sleep and of next_deadline, and the *)
(* time since the last start.  A step of the thread takes no time; the     *)
(* clock advances while the thread sleeps or waits.                        *)
(***************************************************************************)
EXTENDS Integers

CONSTANTS
  Files,           \* the timer sections of the unit files
  Second,          \* clock ticks (milliseconds in the code) of a second
  DWord,           \* the number of values of a DWORD
  DefaultAccuracy, \* accuracy_millis when the registry has none
  MaxRetries,      \* bound: queries that fail after one start
  MaxTime          \* bound: the time since a start is counted up to MaxTime

NaN == -1          \* an interval the unit file does not give
TimerFile == [onBoot: Nat \cup {NaN}, onActive: Nat \cup {NaN},
              onUnitActive: Nat \cup {NaN}, onUnitInactive: Nat \cup {NaN},
              accuracy: Nat \cup {NaN}]

(* An interval in the registry as the thread reads it; 0 when it is missing. *)
Millis(seconds) == IF seconds = NaN THEN 0 ELSE (seconds * Second) % DWord

(* RegisterService and the reading of the values by TimerThread.           *)
(* on_unit_inactive_sec is written without the factor 1000.                *)
Registered(file) ==
  [onBoot         |-> Millis(file.onBoot),
   onActive       |-> Millis(file.onActive),
   onUnitActive   |-> Millis(file.onUnitActive),
   onUnitInactive |-> IF file.onUnitInactive = NaN THEN 0 ELSE file.onUnitInactive % DWord,
   accuracy       |-> IF file.accuracy = NaN THEN DefaultAccuracy ELSE Millis(file.accuracy)]

ASSUME ConstantsAssumption ==
  /\ Files \subseteq TimerFile
  /\ Second \in Nat \ {0} /\ DWord \in Nat \ {0} /\ DefaultAccuracy \in Nat
  /\ MaxRetries \in Nat /\ MaxTime \in Nat /\ MaxTime >= 2 * DWord

VARIABLES
  timer,    \* the registry values of the timer
  thr,      \* where TimerThread is
  status,   \* the state of the timer's own service
  left,     \* what is left of the sleep, or of the wait
  deadline, \* what is left until next_deadline
  done,     \* the loop ends after this round
  retries,  \* failed queries of this round
  svc,      \* the unit's service: STOPPED, or UP with a process
  seen,     \* svc_status.dwCurrentState
  proc,     \* the process hSvcProc stands for: alive or gone
  since,    \* history: time since the last start, or since the thread began
  starts    \* history: number of starts, counted up to 2

vars == <<timer, thr, status, left, deadline, done, retries, svc, seen, proc, since, starts>>

NoDeadline == -1   \* next_deadline before any deadline is set
Infinite == -1     \* INFINITE as a timeout
Steps == {"none", "boot", "active", "start", "query", "querySleep", "wait",
          "deadline", "sleep", "failed", "ended", "dead"}

Init ==
  /\ timer \in {Registered(f) : f \in Files}
  /\ thr = "none" /\ status = "STOPPED"
  /\ left = 0 /\ deadline = NoDeadline /\ done = FALSE /\ retries = 0
  /\ svc \in {"STOPPED", "UP"} /\ seen = "STOPPED" /\ proc = "gone"
  /\ since = 0 /\ starts = 0

-----------------------------------------------------------------------------
(* OnStart and OnStop of a timer.  The process of a stopped timer leaves;  *)
(* the next start is one of a new process.                                 *)
OnStart ==
  /\ thr \in {"none", "dead"}
  /\ thr' = "boot" /\ status' = "RUNNING"
  /\ left' = timer.onBoot
  /\ since' = 0 /\ starts' = 0
  /\ UNCHANGED <<timer, deadline, done, retries, svc, seen, proc>>

OnStop ==
  /\ status = "RUNNING"
  /\ thr' = "dead" /\ status' = "STOPPED"
  /\ left' = 0 /\ deadline' = NoDeadline /\ done' = FALSE /\ retries' = 0
  /\ seen' = "STOPPED" /\ proc' = "gone" /\ since' = 0 /\ starts' = 0
  /\ UNCHANGED <<timer, svc>>

-----------------------------------------------------------------------------
(* TimerThread *)

(* Mutant: the time the boot sleep took is not taken off. *)
BootSleepEndsAnew ==
  /\ thr = "boot" /\ left = 0
  /\ thr' = "active" /\ left' = timer.onActive
  /\ UNCHANGED <<timer, status, deadline, done, retries, svc, seen, proc, since, starts>>

(* wait_time is computed as a DWORD: once the delay is over it wraps. *)
BootSleepEnds ==
  /\ thr = "boot" /\ left = 0
  /\ thr' = "active"
  /\ left' = IF timer.onActive > 0 THEN (timer.onActive - since) % DWord ELSE 0
  /\ UNCHANGED <<timer, status, deadline, done, retries, svc, seen, proc, since, starts>>

(* The SCM or the unit's service cannot be opened: the thread returns.     *)
ActiveSleepEnds ==
  /\ thr = "active" /\ left = 0
  /\ thr' \in {"start", "failed"}
  /\ UNCHANGED <<timer, status, left, deadline, done, retries, svc, seen, proc, since, starts>>

(* Mutant: an unsigned interval is compared with >= 0. *)
StartUnitAlwaysAgain ==
  /\ thr = "start" /\ thr' = "query"
  /\ done' = FALSE /\ deadline' = timer.onUnitActive
  /\ svc' \in {svc, "UP"}
  /\ since' = 0 /\ starts' = (IF starts < 2 THEN starts + 1 ELSE 2)
  /\ UNCHANGED <<timer, status, left, retries, seen, proc>>

(* A new round: the deadline counts from before StartService, whose         *)
(* failure is only logged; a deadline of an earlier round is kept.          *)
StartUnit ==
  /\ thr = "start" /\ thr' = "query"
  /\ done' = (timer.onUnitActive = 0)
  /\ deadline' = IF timer.onUnitActive > 0 THEN timer.onUnitActive ELSE deadline
  /\ svc' \in {svc, "UP"}
  /\ since' = 0 /\ starts' = (IF starts < 2 THEN starts + 1 ELSE 2)
  /\ UNCHANGED <<timer, status, left, retries, seen, proc>>

QueryFails ==
  /\ thr = "query" /\ retries < MaxRetries
  /\ thr' = "querySleep" /\ left' = Second /\ retries' = retries + 1
  /\ UNCHANGED <<timer, status, deadline, done, svc, seen, proc, since, starts>>

QueryAgain ==
  /\ thr = "querySleep" /\ left = 0
  /\ thr' = "query"
  /\ UNCHANGED <<timer, status, left, deadline, done, retries, svc, seen, proc, since, starts>>

(* Mutant: the wait for the process has no timeout. *)
QueryStatusWaitsInfinite ==
  /\ thr = "query" /\ thr' = "wait"
  /\ seen' = svc /\ proc' \in (IF svc = "UP" THEN {"alive", "gone"} ELSE {"gone"})
  /\ left' = Infinite /\ retries' = 0
  /\ UNCHANGED <<timer, status, deadline, done, svc, since, starts>>

(* QueryServiceStatusEx, OpenProcess and the call of WaitForSingleObject.   *)
(* OpenProcess may fail; a stopped service has no process.                  *)
QueryStatus ==
  /\ thr = "query" /\ thr' = "wait"
  /\ seen' = svc /\ proc' \in (IF svc = "UP" THEN {"alive", "gone"} ELSE {"gone"})
  /\ left' = IF timer.onUnitActive > 0 THEN timer.onUnitActive ELSE Infinite
  /\ retries' = 0
  /\ UNCHANGED <<timer, status, deadline, done, svc, since, starts>>

(* The state read before the wait decides about on_unit_inactive.           *)
WaitEnds ==
  /\ thr = "wait" /\ (proc = "gone" \/ left = 0)
  /\ thr' = "deadline" /\ left' = 0
  /\ \/ /\ seen = "STOPPED" /\ timer.onUnitInactive > 0
        /\ deadline' = timer.onUnitInactive /\ done' = FALSE
     \/ /\ ~(seen = "STOPPED" /\ timer.onUnitInactive > 0)
        /\ UNCHANGED <<deadline, done>>
  /\ UNCHANGED <<timer, status, retries, svc, seen, proc, since, starts>>

(* GetTickCount64() < next_deadline is an unsigned comparison: -1 is later  *)
(* than every tick count.  SleepEx(0) is counted as one tick.               *)
Early == deadline # 0
SleepOn ==
  /\ thr = "deadline" /\ Early
  /\ thr' = "sleep" /\ left' = (IF timer.accuracy > 0 THEN timer.accuracy ELSE 1)
  /\ UNCHANGED <<timer, status, deadline, done, retries, svc, seen, proc, since, starts>>

(* Mutant: the loop around SleepEx is an if. *)
SleepEndsRound ==
  /\ thr = "sleep" /\ left = 0
  /\ thr' = (IF done THEN "ended" ELSE "start")
  /\ UNCHANGED <<timer, status, left, deadline, done, retries, svc, seen, proc, since, starts>>

SleepEnds ==
  /\ thr = "sleep" /\ left = 0
  /\ thr' = "deadline"
  /\ UNCHANGED <<timer, status, left, deadline, done, retries, svc, seen, proc, since, starts>>

(* The next round, or the end: SERVICE_STOP_PENDING is reported, and then   *)
(* SERVICE_STOP, which is no state and is refused.                          *)
RoundEnds ==
  /\ thr = "deadline" /\ ~Early
  /\ \/ ~done /\ thr' = "start" /\ UNCHANGED status
     \/ done /\ thr' = "ended" /\ status' = "STOP_PENDING"
  /\ UNCHANGED <<timer, left, deadline, done, retries, svc, seen, proc, since, starts>>

TimerThread ==
  \/ BootSleepEnds \/ ActiveSleepEnds \/ StartUnit \/ QueryFails \/ QueryAgain
  \/ QueryStatus \/ WaitEnds \/ SleepOn \/ SleepEnds \/ RoundEnds

-----------------------------------------------------------------------------
(* The unit's service ends, or somebody else starts it. *)
UnitEnds ==
  /\ svc = "UP" /\ svc' = "STOPPED" /\ proc' = "gone"
  /\ UNCHANGED <<timer, thr, status, left, deadline, done, retries, seen, since, starts>>
UnitStarts ==
  /\ svc = "STOPPED" /\ svc' = "UP"
  /\ UNCHANGED <<timer, thr, status, left, deadline, done, retries, seen, proc, since, starts>>

(* The clock: it advances while the thread rests. *)
Rests ==
  \/ thr \in {"none", "failed", "ended", "dead"}
  \/ thr \in {"boot", "active", "querySleep", "sleep"} /\ left > 0
  \/ thr = "wait" /\ proc = "alive" /\ left # 0
CountDownPast(n) == n - 1   \* mutant: an interval that is over goes on
CountDown(n) == IF n > 0 THEN n - 1 ELSE n
Tick ==
  /\ Rests
  /\ left' = CountDown(left) /\ deadline' = CountDown(deadline)
  /\ since' = IF since < MaxTime THEN since + 1 ELSE since
  /\ UNCHANGED <<timer, thr, status, done, retries, svc, seen, proc, starts>>

Next == OnStart \/ OnStop \/ TimerThread \/ UnitEnds \/ UnitStarts \/ Tick

Spec == Init /\ [][Next]_vars

(* The thread is scheduled and time passes; the service need not end. *)
Fairness == WF_vars(TimerThread) /\ WF_vars(Tick)
FairSpec == Spec /\ Fairness

-----------------------------------------------------------------------------
(* Properties *)

DWords == 0..(DWord - 1)
Timer == [onBoot: DWords, onActive: DWords, onUnitActive: DWords, onUnitInactive: DWords,
          accuracy: Nat]

(* Type invariant: only next_deadline and the timeout of the wait can be -1. *)
TypeOK ==
  /\ timer \in Timer
  /\ thr \in Steps /\ status \in {"STOPPED", "RUNNING", "STOP_PENDING"}
  /\ left \in Nat \/ (thr = "wait" /\ left = Infinite)
  /\ deadline \in Nat \cup {NoDeadline} /\ done \in BOOLEAN
  /\ retries \in 0..MaxRetries
  /\ svc \in {"STOPPED", "UP"} /\ seen \in {"STOPPED", "UP"} /\ proc \in {"alive", "gone"}
  /\ since \in 0..MaxTime /\ starts \in 0..2

Larger(a, b) == IF a > b THEN a ELSE b
Smaller(a, b) == IF a < b THEN a ELSE b

(* The delay before the first start: both delays count from the same       *)
(* moment.  When OnBootSec= is the longer one, the rest of the other wraps. *)
FirstDelay ==
  IF 0 < timer.onActive /\ timer.onActive < timer.onBoot
  THEN timer.onBoot + ((timer.onActive - timer.onBoot) % DWord)
  ELSE Larger(timer.onBoot, timer.onActive)

(* The shortest interval that may lie between two starts. *)
Interval ==
  IF timer.onUnitActive = 0 THEN timer.onUnitInactive
  ELSE IF timer.onUnitInactive = 0 THEN timer.onUnitActive
  ELSE Smaller(timer.onUnitActive, timer.onUnitInactive)

(* The unit is never started early: not before the delays of the first      *)
(* start, and not again before the interval has passed since the last       *)
(* start, whenever the service ended, failed to start or was started by     *)
(* somebody else.                                                           *)
NeverEarly ==
  thr = "start" => since >= IF starts = 0 THEN FirstDelay ELSE Interval

(* Nor is it started late: the first start comes when the delays are over,  *)
(* each further one before accuracy_millis have passed since the deadline,  *)
(* however long the service runs, failed queries apart.                     *)
Lateness == MaxRetries * Second + Larger(1, timer.accuracy)
NeverLate ==
  thr = "start" =>
    since <= IF starts = 0 THEN FirstDelay
             ELSE Larger(timer.onUnitActive, timer.onUnitInactive) + Lateness

(* A timer without a repeat interval starts its unit at most once. *)
OneShotStartsOnce ==
  timer.onUnitActive = 0 /\ timer.onUnitInactive = 0 => starts <= 1

(* With OnUnitActiveSec= each start is followed by another one, even when   *)
(* the service never ends, until the timer is stopped.                      *)
ActiveTimerRecurs ==
  timer.onUnitActive > 0 /\ thr = "query" ~> thr \in {"start", "dead"}

(* The comment of OnStart: a timer with on_unit_active_millis or            *)
(* on_unit_inactive_millis is a recurring timer.  So, once the service it   *)
(* started has ended, it starts it again.                                   *)
TimerRecurs ==
  /\ timer.onUnitActive > 0 \/ timer.onUnitInactive > 0
  /\ thr = "wait" /\ proc = "gone"
    ~> thr \in {"start", "dead"}

-----------------------------------------------------------------------------
(* Strengthenings used by the proofs *)

Round == {"query", "querySleep", "wait", "deadline", "sleep"}
Latest == MaxRetries * Second + Larger(timer.onUnitActive, timer.onUnitInactive)

(* Before the first start the sleeps add up to the first delay. *)
FirstInv ==
  /\ thr = "boot" => since + left = timer.onBoot
  /\ thr = "active" => since + left = FirstDelay
  /\ thr = "start" /\ starts = 0 => since = FirstDelay
  /\ thr \in {"none", "dead", "boot", "active"} => starts = 0 /\ deadline = NoDeadline
  /\ thr \in Round => starts > 0

(* A round that another one follows has a deadline that is not too early. *)
EarlyInv ==
  /\ thr \in Round /\ ~done => deadline # NoDeadline /\ since + deadline >= Interval
  /\ thr = "start" /\ starts > 0 => since >= Interval

(* Where the time of a round goes. *)
LateInv ==
  /\ thr = "query" => since <= retries * Second
  /\ thr = "querySleep" => since + left <= retries * Second
  /\ thr \in {"query", "querySleep", "wait"} /\ deadline > 0 /\ ~done
       => since + deadline <= timer.onUnitActive
  /\ thr = "wait" /\ seen = "STOPPED" => proc = "gone" /\ since <= MaxRetries * Second
  /\ thr = "wait" /\ ~done => /\ left # Infinite /\ timer.onUnitActive > 0
                              /\ since + left <= MaxRetries * Second + timer.onUnitActive
  /\ thr \in {"deadline", "sleep"} /\ ~done /\ deadline > 0 => since + deadline <= Latest
  /\ thr = "deadline" /\ ~done => since <= Latest + Larger(1, timer.accuracy)
  /\ thr = "sleep" /\ ~done => since + left <= Latest + Larger(1, timer.accuracy)
  /\ thr \in {"query", "querySleep"} => (done <=> timer.onUnitActive = 0)
  /\ thr = "start" /\ starts > 0 => since <= Latest + Larger(1, timer.accuracy)

OnceInv ==
  timer.onUnitActive = 0 /\ timer.onUnitInactive = 0 =>
    /\ starts <= 1 /\ deadline = NoDeadline
    /\ thr = "start" => starts = 0
    /\ thr \in Round => done

(* The inductive invariant. *)
IInv == TypeOK /\ FirstInv /\ EarlyInv /\ LateInv /\ OnceInv
=============================================================================
