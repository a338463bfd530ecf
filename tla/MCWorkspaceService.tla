------------------------- MODULE MCWorkspaceService -------------------------
(* Tasks p1 and p2 of window w1 merge; c1 is a child of p1, so p1 may take    *)
(* its claim over and p2 may not.  Window w2 creates and adopts workspaces.   *)
EXTENDS WorkspaceService, TLC

CONSTANTS w1, w2, p1, p2, c1

MCHome   == (p1 :> w1) @@ (p2 :> w1) @@ (c1 :> w1)
MCParent == (c1 :> p1)

\* Bound: what w2 does and a second merge are not explored together.
Apart ==
  mrg[p2].pc = "idle" \/ (proc[w2] = NoProc /\ cache[w2] = [n \in Names |-> Absent])
=============================================================================
