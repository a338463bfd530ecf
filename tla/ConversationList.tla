--------------------------- MODULE ConversationList ---------------------------
(***************************************************************************)
(* The list of conversations in the left rail, as every window keeps it in *)
(* memory and in the shared state file (core/kilocode/parallel/            *)
(* ParallelManager.ts).  Edits of one window wait for each other; the      *)
(* reload before every broadcast, and the first load, do not wait for      *)
(* them.  A dirty flag tells a reload that memory has something the file   *)
(* has not.                                                                *)
(*                                                                         *)
(* A list is a function from its rows to the time each was last active.    *)
(* The transactions of the state file are atomic (StateStore).             *)
(***************************************************************************)
EXTENDS Naturals

CONSTANTS
  Windows,    \* extension hosts, one ParallelManager each
  Sessions,   \* task ids that conversations are bound to
  Home,       \* Home[s]: the window that dispatches session s as a subagent
  Undefined,  \* the list of a window that has not loaded it
  MaxClock,   \* bound on the times
  MaxRows,    \* bound on the rows ever made for one session
  MaxEvents   \* bound on the edits of the user and the failures, together

VARIABLES
  file,    \* the stored list
  mem,     \* mem[w]: `conversations`
  dirty,   \* dirty[w]: conversationsDirty
  pc,      \* pc[w][p]: where the edit and the reload of window w are
  snap,    \* snap[w][p]: the list it has read and not yet adopted
  job,     \* job[w]: the edit under way
  reg,     \* reg[s]: registration of a dispatched subagent's conversation
  tries,   \* tries[s]: its attempts
  born,    \* born[s]: rows made for s
  wiped,   \* sessions a deletion has dropped or set back a row of in the file
  clock, edits, fails  \* edits of the user, reads and transactions that failed

vars == <<file, mem, dirty, pc, snap, job, reg, tries, born, wiped, clock, edits, fails>>

Times  == 0..MaxClock
Rows   == Sessions \X (1..MaxRows)     \* the k-th row made for a session
Lists  == UNION {[D -> Times] : D \in SUBSET Rows}

ASSUME ListAssumption == /\ Home \in [Sessions -> Windows] /\ Undefined \notin Lists
                         /\ MaxClock \in Nat /\ MaxRows \in Nat /\ MaxEvents \in Nat

NoRows == [r \in {} |-> 0]
Procs  == {"edit", "reload"}
Stages == {"idle", "read", "adopt", "flush", "flushed", "change", "commit", "settle"}
Kinds  == {"touch", "create", "register", "delete", "purge"}
Jobs   == [kind : Kinds, of : Sessions, at : Times]
NoJob  == [kind |-> "none"]
Replaces(j) == j.kind \in {"delete", "purge"}

(***************************************************************************)
(* Plausible slips of the code.                                            *)
(***************************************************************************)
SlipLacks(w, s)  == FALSE
SlipMerged(l, m) == m
SlipMustKeep(w)  == FALSE

Current(w)   == IF mem[w] = Undefined THEN NoRows ELSE mem[w]
RowsOf(l, s) == {r \in DOMAIN l : r[1] = s}
Lacks(w, s)  == RowsOf(Current(w), s) = {}
NewRow(s)    == <<s, born[s] + 1>>
Changed(l, s, at) == [r \in DOMAIN l |-> IF r[1] = s THEN at ELSE l[r]]
Without(l, s)     == [r \in DOMAIN l \ RowsOf(l, s) |-> l[r]]
With(l, s, at)    == [r \in DOMAIN l \cup {NewRow(s)} |-> IF r = NewRow(s) THEN at ELSE l[r]]

\* Row by row, the later of the file's and memory's.
Merged(l, m) ==
  [r \in DOMAIN l \cup DOMAIN m |->
     IF r \notin DOMAIN l \/ (r \in DOMAIN m /\ m[r] >= l[r]) THEN m[r] ELSE l[r]]

\* One row of each session is left, by its title and age, active as late as any.
Deduped(l) ==
  {m \in UNION {[D -> Times] : D \in SUBSET DOMAIN l} :
     /\ \A s \in Sessions : RowsOf(l, s) # {} => \E r \in DOMAIN m : RowsOf(m, s) = {r}
     /\ \A r \in DOMAIN m : /\ \E q \in RowsOf(l, r[1]) : m[r] = l[q]
                           /\ \A q \in RowsOf(l, r[1]) : m[r] >= l[q]}

Init == /\ file = NoRows
        /\ mem = [w \in Windows |-> Undefined]
        /\ dirty = [w \in Windows |-> FALSE]
        /\ pc = [w \in Windows |-> [p \in Procs |-> "idle"]]
        /\ snap = [w \in Windows |-> [p \in Procs |-> NoRows]]
        /\ job = [w \in Windows |-> NoJob]
        /\ reg = [s \in Sessions |-> "none"]
        /\ tries = [s \in Sessions |-> 0]
        /\ born = [s \in Sessions |-> 0]
        /\ wiped = {}
        /\ clock = 0 /\ edits = 0 /\ fails = 0

At(w, p, s)   == pc[w][p] = s
Goto(w, p, s) == pc' = [pc EXCEPT ![w][p] = s]
Fails         == edits + fails < MaxEvents /\ fails' = fails + 1

\* Date.now(): two edits may fall in one millisecond.
Stamped(at) == at \in Times /\ at \in {clock, clock + 1} /\ clock' = at

(***************************************************************************)
(* loadConversations(): the first time, and before every broadcast.        *)
(***************************************************************************)
\* A reload waits for the edits asked for before it, and broadcasts for each other.
StartReload(w) == /\ At(w, "reload", "idle") /\ At(w, "edit", "idle") /\ ~dirty[w]
                  /\ Goto(w, "reload", "read")
                  /\ UNCHANGED <<file, mem, dirty, snap, job, reg, tries, born, wiped, clock, edits, fails>>

\* The list of a read that fails is empty.
Read(w, p) ==
  /\ At(w, p, "read") /\ Goto(w, p, "adopt")
  /\ \/ snap' = [snap EXCEPT ![w][p] = file] /\ UNCHANGED fails
     \/ snap' = [snap EXCEPT ![w][p] = NoRows] /\ Fails
  /\ UNCHANGED <<file, mem, dirty, job, reg, tries, born, wiped, clock, edits>>

\* After a load, an edit changes the list; a reload is over.
Loaded(p) == IF p = "edit" THEN "change" ELSE "idle"

\* Something was changed while the read was under way: memory is newer.
MustKeep(w) == dirty[w]

Adopt(w, p) ==
  /\ At(w, p, "adopt")
  /\ snap' = [snap EXCEPT ![w][p] = NoRows]
  /\ \/ MustKeep(w) /\ Goto(w, p, "flush") /\ UNCHANGED <<mem, dirty>>
     \/ /\ ~MustKeep(w)
        /\ \E l \in Deduped(snap[w][p]) :
             /\ mem' = [mem EXCEPT ![w] = l]
             /\ dirty' = [dirty EXCEPT ![w] = DOMAIN l # DOMAIN snap[w][p]]
        /\ Goto(w, p, IF dirty'[w] THEN "flush" ELSE Loaded(p))
  /\ UNCHANGED <<file, job, reg, tries, born, wiped, clock, edits, fails>>

(***************************************************************************)
(* Edits: of the user, and the registration of a dispatched subagent.      *)
(***************************************************************************)
Begin(w, kind, s) ==
  /\ At(w, "edit", "idle")
  /\ job' = [job EXCEPT ![w] = [kind |-> kind, of |-> s, at |-> 0]]
  /\ Goto(w, "edit", IF mem[w] = Undefined THEN "read" ELSE "change")

StartEdit(w, kind, s) ==
  /\ kind # "register" /\ edits + fails < MaxEvents /\ edits' = edits + 1
  /\ Begin(w, kind, s)
  /\ UNCHANGED <<file, mem, dirty, snap, reg, tries, born, wiped, clock, fails>>

\* attachSubagentConversation(): in one turn of the dispatch, or of a retry; the
\* registration is queued in the same turn.
Attach(s) ==
  /\ reg[s] \in {"none", "retry"}
  /\ reg' = [reg EXCEPT ![s] = "queued"]
  /\ tries' = [tries EXCEPT ![s] = @ + 1]
  /\ LET w == Home[s] IN
     \/ RowsOf(Current(w), s) # {} /\ UNCHANGED <<mem, dirty, born, clock>>
     \/ /\ RowsOf(Current(w), s) = {} /\ born[s] < MaxRows
        /\ \E at \in Times : Stamped(at) /\ mem' = [mem EXCEPT ![w] = With(Current(w), s, at)]
        /\ dirty' = [dirty EXCEPT ![w] = TRUE]
        /\ born' = [born EXCEPT ![s] = @ + 1]
  /\ UNCHANGED <<file, pc, snap, job, wiped, edits, fails>>

StartRegister(s) ==
  /\ reg[s] = "queued" /\ reg' = [reg EXCEPT ![s] = "active"]
  /\ Begin(Home[s], "register", s)
  /\ UNCHANGED <<file, mem, dirty, snap, tries, born, wiped, clock, edits, fails>>

Remember(w, l) == mem' = [mem EXCEPT ![w] = l] /\ dirty' = [dirty EXCEPT ![w] = TRUE]
Persist(w, at) == Goto(w, "edit", "commit") /\ job' = [job EXCEPT ![w].at = at]
Drop(w)        == Goto(w, "edit", "idle") /\ job' = [job EXCEPT ![w] = NoJob]

\* An edit that renames, archives, binds, moves or completes a conversation.
Touch(w) ==
  /\ At(w, "edit", "change") /\ job[w].kind = "touch"
  /\ \E at \in Times : Stamped(at) /\ Persist(w, at)
                        /\ Remember(w, Changed(mem[w], job[w].of, at))
  /\ UNCHANGED <<file, snap, reg, tries, born, wiped, edits, fails>>

\* createConversation(), and what registerSubagentConversation() does in its turn.
Create(w) ==
  /\ At(w, "edit", "change") /\ job[w].kind \in {"create", "register"}
  /\ LET s == job[w].of IN
     \/ /\ Lacks(w, s) /\ born[s] < MaxRows
        /\ \E at \in Times : Stamped(at) /\ Persist(w, at) /\ Remember(w, With(mem[w], s, at))
        /\ born' = [born EXCEPT ![s] = @ + 1]
     \/ /\ ~Lacks(w, s)
        /\ \/ job[w].kind = "create" /\ Drop(w) /\ UNCHANGED dirty
           \/ job[w].kind = "register" /\ Persist(w, 0) /\ dirty' = [dirty EXCEPT ![w] = TRUE]
        /\ UNCHANGED <<mem, born, clock>>
  /\ UNCHANGED <<file, snap, reg, tries, wiped, edits, fails>>

\* The conversations of a session, or those in a workspace (here, of one session).
Delete(w) ==
  /\ At(w, "edit", "change") /\ Replaces(job[w])
  /\ IF job[w].kind = "delete" /\ Lacks(w, job[w].of)
     THEN Drop(w) /\ UNCHANGED <<mem, dirty>>
     ELSE Persist(w, 0) /\ Remember(w, Without(mem[w], job[w].of))
  /\ UNCHANGED <<file, snap, reg, tries, born, wiped, clock, edits, fails>>

(***************************************************************************)
(* persistConversations(): memory is looked at inside the transaction, and *)
(* is clean when the transaction has ended.                                *)
(***************************************************************************)
Commit(w, p) ==
  /\ \/ At(w, p, "flush") /\ Goto(w, p, "flushed")
     \/ At(w, p, "commit") /\ ~Replaces(job[w]) /\ Goto(w, p, "settle")
  /\ file' = Merged(file, Current(w))
  /\ UNCHANGED <<mem, dirty, snap, job, reg, tries, born, wiped, clock, edits, fails>>

\* "replace: deletions must not resurrect": memory becomes the list.
CommitDelete(w) ==
  /\ At(w, "edit", "commit") /\ Replaces(job[w]) /\ Goto(w, "edit", "settle")
  /\ file' = Current(w)
  /\ wiped' = wiped \cup {r[1] : r \in {q \in DOMAIN file : q \notin DOMAIN file' \/ file'[q] < file[q]}}
  /\ UNCHANGED <<mem, dirty, snap, job, reg, tries, born, clock, edits, fails>>

\* The end of persistConversations(), and the look at memory after a registration.
Finish(w, p) ==
  \/ (At(w, p, "flush") \/ At(w, p, "flushed")) /\ Goto(w, p, Loaded(p)) /\ UNCHANGED <<job, reg>>
  \/ /\ At(w, p, "commit") \/ At(w, p, "settle")
     /\ Drop(w)
     /\ LET s == job[w].of IN
        reg' = IF job[w].kind = "register"
               THEN [reg EXCEPT ![s] = IF Lacks(w, s) /\ tries[s] < 3 THEN "retry" ELSE "done"]
               ELSE reg

Settle(w, p) == /\ At(w, p, "flushed") \/ At(w, p, "settle")
                /\ dirty' = [dirty EXCEPT ![w] = FALSE]
                /\ Finish(w, p)
                /\ UNCHANGED <<file, mem, snap, tries, born, wiped, clock, edits, fails>>

\* The error is only logged, and memory stays as dirty as it was.
CommitFails(w, p) == /\ At(w, p, "flush") \/ At(w, p, "commit")
                     /\ Fails /\ Finish(w, p)
                     /\ UNCHANGED <<file, mem, dirty, snap, tries, born, wiped, clock, edits>>

Write(w, p) == Commit(w, p) \/ CommitFails(w, p) \/ Settle(w, p)
Change(w)   == Touch(w) \/ Create(w) \/ Delete(w) \/ CommitDelete(w)

Next == \/ \E w \in Windows : \/ StartReload(w) \/ Change(w)
                              \/ \E p \in Procs : Read(w, p) \/ Adopt(w, p) \/ Write(w, p)
                              \/ \E kind \in Kinds, s \in Sessions : StartEdit(w, kind, s)
        \/ \E s \in Sessions : Attach(s) \/ StartRegister(s)

\* What an edit or a reload that is under way does next: one of these at a time.
ProcStep(w, p) == \/ Read(w, p) \/ Adopt(w, p) \/ Write(w, p)
                  \/ p = "edit" /\ Change(w)

\* Reads and transactions end, and queued edits run.  A broadcast need not come.
Fairness ==
  /\ \A w \in Windows, p \in Procs : WF_vars(ProcStep(w, p))
  /\ \A s \in Sessions : SF_vars(StartRegister(s)) /\ WF_vars(reg[s] = "retry" /\ Attach(s))

Spec == Init /\ [][Next]_vars /\ Fairness

-----------------------------------------------------------------------------
(* Lists, edits and registrations have the shapes of the code's types. *)
TypeOK == /\ file \in Lists
          /\ mem \in [Windows -> Lists \cup {Undefined}]
          /\ dirty \in [Windows -> BOOLEAN]
          /\ pc \in [Windows -> [Procs -> Stages]]
          /\ snap \in [Windows -> [Procs -> Lists]]
          /\ job \in [Windows -> Jobs \cup {NoJob}]
          /\ reg \in [Sessions -> {"none", "queued", "active", "retry", "done"}]
          /\ tries \in [Sessions -> 0..3]
          /\ born \in [Sessions -> 0..MaxRows]
          /\ wiped \subseteq Sessions
          /\ clock \in Times /\ edits \in Nat /\ fails \in Nat /\ edits + fails <= MaxEvents

(* "Assigning the stale snapshot back then would silently drop those unpersisted
   conversations" (loadConversations): what an edit has changed in memory is still
   there when its transaction looks, whatever was being loaded meanwhile. *)
ChangeReachesCommit ==
  \A w \in Windows : At(w, "edit", "commit") =>
    LET j == job[w] IN
    /\ j.kind = "touch" => \A r \in RowsOf(mem[w], j.of) : mem[w][r] >= j.at
    /\ j.kind \in {"create", "register"} => ~Lacks(w, j.of)

(* A list that does not count as dirty is in the file, so that a reload may throw
   it away: every row in memory is there, as late, when nothing of the window is
   under way, unless a deletion has dropped or set back rows of its session.  (A
   failed save leaves the list dirty, but one that ends after it makes it clean.) *)
SavedWhenClean ==
  \A w \in Windows :
    /\ mem[w] # Undefined /\ ~dirty[w] /\ fails = 0
    /\ \A p \in Procs : At(w, p, "idle")
    /\ \A s \in Sessions : Home[s] = w => reg[s] # "queued"
    => \A r \in DOMAIN mem[w] :
         r[1] \in wiped \/ (r \in DOMAIN file /\ file[r] >= mem[w][r])

(* "... so the subagent always ends up visible in the left rail"
   (registerSubagentConversation): a dispatched subagent gets a row in the file,
   unless a read or a transaction failed or a deletion took it away. *)
SubagentReachesRail ==
  \A s \in Sessions :
    reg[s] = "queued" ~> (RowsOf(file, s) # {} \/ s \in wiped \/ fails > 0)
=============================================================================
