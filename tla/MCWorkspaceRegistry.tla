------------------------- MODULE MCWorkspaceRegistry -------------------------
(* Two windows; agents c1 and c2 are children of one dispatcher and claim      *)
(* under the same "dispatch:" tag; c3 works for another one in window w2.     *)
EXTENDS WorkspaceRegistry, TLC

CONSTANTS w1, w2, p1, p2, c1, c2, c3

MCHome   == (c1 :> w1) @@ (c2 :> w1) @@ (c3 :> w2) @@ (p1 :> w1) @@ (p2 :> w2)
MCParent == (c1 :> p1) @@ (c2 :> p1) @@ (c3 :> p2)
=============================================================================
