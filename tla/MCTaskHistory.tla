--------------------------- MODULE MCTaskHistory ---------------------------
(***************************************************************************)
(* TaskHistory for TLC: what may happen together in one behaviour.         *)
(***************************************************************************)
EXTENDS TaskHistory

Scene(kinds, jobs, faults, rows) ==
  [kinds |-> kinds, jobs |-> jobs, faults |-> faults, rows |-> rows]

MCScenarios ==
  {Scene({k}, {}, f, 5) : k \in Kinds, f \in {{"failed", "late"}, {"crash"}}}
    \cup {Scene({k}, {j}, {}, 5) : k \in {"delete", "edit"}, j \in Jobs}
    \cup {Scene({}, Jobs, {"late"}, 6), Scene({}, {}, Faults, 6)}
=============================================================================
