-------------------------- MODULE MCConversationList --------------------------
(***************************************************************************)
(* The instance of ConversationList that TLC checks.                       *)
(***************************************************************************)
EXTENDS ConversationList

CONSTANTS w1, w2, s1
MCWindows == {w1, w2}
\* The first window dispatches the subagents.
MCHome == [s \in Sessions |-> w1]
=============================================================================
