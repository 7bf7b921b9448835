---- MODULE MCTimerUnit ----
(* Small instances of TimerUnit: timers of each kind the thread treats apart. *)
EXTENDS TimerUnit

F(onBoot, onActive, onUnitActive, onUnitInactive, accuracy) ==
  [onBoot |-> onBoot, onActive |-> onActive, onUnitActive |-> onUnitActive,
   onUnitInactive |-> onUnitInactive, accuracy |-> accuracy]

MCFiles ==
  {F(1, 2, 2, NaN, 1), F(2, 1, NaN, NaN, NaN), F(NaN, 1, NaN, 3, 1),
   F(1, NaN, 3, 2, 0), F(2, 2, 1, 4, NaN)}
MCInactive == {F(NaN, NaN, NaN, 3, 1)}
====
