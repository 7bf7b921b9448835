---- MODULE MCStartOrder ----
(* Small instances of StartOrder: two units, A and B. *)
EXTENDS StartOrder

U(after, depends, restart) ==
  [after |-> after, depends |-> depends, restart |-> restart, execStart |-> TRUE]
NoExecStart(unit) == [unit EXCEPT !.execStart = FALSE]
Pair(a, b) == [u \in Units |-> IF u = "A" THEN a ELSE b]

(* Each after the other, and one of them depends on the other, which is sent *)
(* controls; each after the other while the calls of one fail; one after the *)
(* other and a service that does not exist, with restarts after either       *)
(* outcome and a clock; a dependency, and a unit after itself that starts    *)
(* nothing and is restarted, while the calls of the first fail.              *)
MCControlled == Pair(U(<<"B">>, <<"B">>, "no"), U(<<"A">>, <<>>, "no"))
MCMutual     == Pair(U(<<"B">>, <<>>, "no"), U(<<"A">>, <<>>, "no"))
MCMissing    == Pair(U(<<"B", "missing">>, <<>>, "on_failure"),
                     NoExecStart(U(<<>>, <<>>, "on_success")))
MCDepends    == Pair(U(<<"B">>, <<"B">>, "no"), NoExecStart(U(<<"B">>, <<>>, "always")))
MCConfigs    == {MCControlled, MCMutual, MCMissing, MCDepends}

MCMaxBoot     == [c \in MCConfigs |-> IF c = MCMissing THEN 1 ELSE 0]
MCFailing     == [c \in MCConfigs |-> IF c \in {MCMutual, MCDepends} THEN {"A"} ELSE {}]
MCControlledUnits == [c \in MCConfigs |-> IF c = MCControlled THEN {"B"} ELSE {}]
====
