----------------------------- MODULE MCStateStore -----------------------------
(* Two windows; one makes two calls, on different keys, and one key has a       *)
(* legacy value.                                                                *)
EXTENDS StateStore

CONSTANTS w1, w2, k1, k2, c1, c2, c3

MCKey    == [c \in Calls |-> IF c = c2 THEN k2 ELSE k1]
MCWindow == [c \in Calls |-> IF c = c3 THEN w2 ELSE w1]
=============================================================================
