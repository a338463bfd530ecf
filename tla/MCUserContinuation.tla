------------------------- MODULE MCUserContinuation -------------------------
(***************************************************************************)
(* The instance of UserContinuation that TLC checks: two inputs with every *)
(* fault but a slow replacement, one input with a slow one.                *)
(***************************************************************************)
EXTENDS UserContinuation

MCScenarios ==
  {[faults |-> {"history", "restore", "elsewhere"}, inputs |-> 2],
   [faults |-> {"slow", "restore", "elsewhere"}, inputs |-> 1]}
\* Two inputs, and nothing fails.
MCFaultless == {[faults |-> {}, inputs |-> 2]}
=============================================================================
