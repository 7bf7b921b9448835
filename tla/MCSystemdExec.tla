--------------------------- MODULE MCSystemdExec ---------------------------
(* Small sets of unit files for SystemdExec. *)
EXTENDS SystemdExec

(* Every Restart= action with one command of each list that the action     *)
(* reacts to: failures that count, and failures that are ignored.          *)
MCUnit(restart, pre, post, stop, stopPost) ==
  [restart |-> restart, execStart |-> TRUE, execStartPre |-> pre,
   execStartPost |-> post, execStop |-> stop, execStopPost |-> stopPost]

MCRestartUnits ==
  { MCUnit("always", <<>>, <<>>, FALSE, 0),
    MCUnit("on_success", <<TRUE>>, <<>>, FALSE, 0),
    MCUnit("on_failure", <<>>, <<FALSE>>, FALSE, 0) }

MCNoRestartUnits ==
  { MCUnit("no", <<FALSE>>, <<FALSE>>, TRUE, 2),
    MCUnit("no", <<>>, <<>>, FALSE, 0) }

(* A unit without ExecStart=, whose loop runs its other commands only. *)
MCNoMainUnits ==
  { [MCUnit(restart, <<TRUE>>, <<>>, FALSE, 0) EXCEPT !.execStart = FALSE] :
      restart \in {"no", "on_abnormal"} }

MCOnceUnits == MCNoRestartUnits \cup MCNoMainUnits

MCAlwaysUnits == { MCUnit("always", <<>>, <<>>, FALSE, 0) }
=============================================================================
