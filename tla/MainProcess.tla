---------------------------- MODULE MainProcess ----------------------------
(***************************************************************************)
(* What Restart= promises about the main process of a unit, without the    *)
(* threads that keep the promise: never two of them at a time, the first   *)
(* launch is free, and every later one follows an end after which the      *)
(* policy allows another round.                                            *)
(***************************************************************************)
EXTENDS Naturals

VARIABLES
  allows,   \* the outcomes after which the policy allows another launch
  running,  \* a main process lives
  rounds,   \* main processes launched so far
  last      \* how the last one ended

Outcomes == {0, 1}    \* success and failure

Init ==
  /\ allows \subseteq Outcomes
  /\ running = FALSE /\ rounds = 0 /\ last \in Outcomes

Launch ==
  /\ ~running
  /\ rounds > 0 => last \in allows
  /\ running' = TRUE /\ rounds' = rounds + 1
  /\ UNCHANGED <<allows, last>>

End ==
  /\ running
  /\ running' = FALSE /\ last' \in Outcomes
  /\ UNCHANGED <<allows, rounds>>

Next == Launch \/ End

vars == <<allows, running, rounds, last>>

Spec == Init /\ [][Next]_vars
=============================================================================
