----------------------------- MODULE SharedState -----------------------------
(***************************************************************************)
(* What the shared parallel-state store promises its callers: every call   *)
(* is one atomic update of one key, or has no effect.  StateStore is the   *)
(* store with its lock, file and crashes; WorkspaceRegistry uses this      *)
(* promise when it takes a transaction as one step.  Once the file has     *)
(* been damaged from outside, or a window was suspended for longer than a  *)
(* lock lasts, updates may get lost, but calls still answer.               *)
(*                                                                         *)
(* The value of a key is the set of the calls that have updated it, and of *)
(* Imported when it started from the legacy globalState.                   *)
(***************************************************************************)
CONSTANTS Keys,      \* PARALLEL_STATE_KEYS
          Calls,     \* write() and mutate() calls
          Key,       \* Key[c]: the key call c updates
          Legacy,    \* the keys with a value in the legacy globalState
          Imported   \* that value

VARIABLES value,   \* value[k]
          exists,  \* somebody has created the state
          result,  \* result[c]: what has become of call c
          intact   \* nothing has gone wrong that the store cannot guard against

vars == <<value, exists, result, intact>>

LegacyState == [k \in Keys |-> IF k \in Legacy THEN {Imported} ELSE {}]

Init == /\ value = [k \in Keys |-> {}]
        /\ exists = FALSE /\ intact = TRUE
        /\ result = [c \in Calls |-> "idle"]

\* The legacy values come in once, before anything else is there.
Import == /\ ~exists /\ exists' = TRUE /\ value' = LegacyState
          /\ UNCHANGED <<result, intact>>

Ask(c) == /\ result[c] = "idle"
          /\ result' = [result EXCEPT ![c] = "pending"]
          /\ UNCHANGED <<value, exists, intact>>

Answer(c, r) == /\ result[c] = "pending"
                /\ result' = [result EXCEPT ![c] = r]
                /\ UNCHANGED intact

Commit(c) == /\ Answer(c, "ok")
             /\ value' = [value EXCEPT ![Key[c]] = @ \cup {c}]
             /\ exists' = TRUE

\* Calls fail one by one, or all those of a window when it dies.
Fail(C) == /\ \A c \in C : result[c] = "pending"
           /\ result' = [c \in Calls |-> IF c \in C THEN "failed" ELSE result[c]]
           /\ UNCHANGED <<value, exists, intact>>

\* The event after which updates may get lost.
Damage == /\ intact' = FALSE
          /\ value' \in {value, [k \in Keys |-> {}]}
          /\ exists' \in {exists, FALSE}
          /\ UNCHANGED result

\* Then the state may be emptied, imported again or rolled back; a call that
\* succeeds is in the state at that moment all the same.
Lose == /\ ~intact /\ UNCHANGED <<result, intact>>

CommitLossy(c) == /\ ~intact /\ Answer(c, "ok")
                  /\ c \in value'[Key[c]] /\ exists' = TRUE

Next == \/ Import \/ Damage \/ Lose
        \/ \E c \in Calls : Ask(c) \/ Commit(c) \/ CommitLossy(c)
        \/ \E C \in SUBSET Calls : Fail(C)

Spec == Init /\ [][Next]_vars
=============================================================================
