---------------------------- MODULE WindowsProofs ----------------------------
(***************************************************************************)
(* What one window knows of the others: the tasks that run there, through  *)
(* the heartbeat file (LiveTasks), and the conversations in the rail       *)
(* (ConversationList).  The two share no state; their proofs stand in two  *)
(* parts.                                                                  *)
(***************************************************************************)
EXTENDS ConversationList, LiveTasks, TLAPS

(***************************************************************************)
(* For any windows, tasks and staleness limit: the types of the heartbeat  *)
(* file's users, and that no window lists a task of another that had not   *)
(* run there within the limit.  The file alone does not carry that fact:   *)
(* an entry waits in other windows' half-written files and comes back from *)
(* there, so Backed claims of every copy that it is at least as old as the *)
(* last time its tasks ran.                                                *)
(***************************************************************************)

BackedIn(f) == \A w \in Hosts : f[w] # None =>
                 \A t \in f[w].tasks : since[w][t] <= f[w].age

Backed == /\ BackedIn(shared)
          /\ \A w \in Hosts : payload[w] # None => BackedIn(payload[w])
          /\ \A w \in Hosts : \A t \in local[w] : since[w][t] = 0

LiveInv == LiveTypeOK /\ Backed

-----------------------------------------------------------------------------
(* Ageing stays within the ages and keeps their order. *)
LEMMA LaterTyped == ASSUME NEW a \in Ages PROVE Later(a) \in Ages
BY LiveAssumption DEF Ages, Later

LEMMA LaterMonotone ==
  ASSUME NEW a \in Ages, NEW b \in Ages, a <= b PROVE Later(a) <= Later(b)
BY LiveAssumption DEF Ages, Later

LEMMA AgedTyped == ASSUME NEW f \in Files PROVE Aged(f) \in Files
<1>1. \A w \in Hosts : f[w] # None =>
        f[w] \in Entries /\ [f[w] EXCEPT !.age = Later(@)] \in Entries
  BY LaterTyped DEF Files, Entries
<1> QED
  BY <1>1 DEF Aged, Files

(* Files are put together from entries of the file and the window's own. *)
LEMMA GatheredTyped ==
  ASSUME LiveTypeOK, NEW w \in Hosts PROVE Gathered(w) \in Files
<1>1. OwnEntry(w) \in Entries \cup {None}
  BY LiveAssumption DEF OwnEntry, Entries, Ages, LiveTypeOK
<1> QED
  BY <1>1 DEF Gathered, Files, LiveTypeOK

LEMMA EmptyTyped == Empty \in Files
BY DEF Empty, Files

-----------------------------------------------------------------------------
LEMMA LiveInitInv == LiveInit => LiveInv
<1> SUFFICES ASSUME LiveInit PROVE LiveInv
  OBVIOUS
<1>1. LiveTypeOK
  <2>1. since \in [Hosts -> [Tasks -> Ages]]
    BY LiveAssumption DEF LiveInit, Ages
  <2>2. queue \in [Hosts -> 0..MaxQueue] /\ failures \in 0..MaxFails
    BY LiveAssumption DEF LiveInit
  <2> QED
    BY <2>1, <2>2, EmptyTyped DEF LiveInit, LiveTypeOK
<1>2. Backed
  BY DEF LiveInit, Backed, BackedIn, Empty
<1> QED
  BY <1>1, <1>2 DEF LiveInv

LEMMA FlushTyped ==
  ASSUME LiveTypeOK, NEW w \in Hosts, Flush(w) PROVE queue' \in [Hosts -> 0..MaxQueue]
<1>1. queue[w] + 1 \in 0..MaxQueue
  BY LiveAssumption DEF Flush, LiveTypeOK
<1> QED
  BY <1>1 DEF Flush, LiveTypeOK

LEMMA TypeStep == ASSUME LiveTypeOK, [LiveNext]_liveVars PROVE LiveTypeOK'
<1> USE DEF LiveTypeOK
<1>1. CASE Tick
  <2>1. shared' \in Files /\ payload' \in [Hosts -> Files \cup {None}]
    BY <1>1, AgedTyped DEF Tick
  <2>2. since' \in [Hosts -> [Tasks -> Ages]]
    BY <1>1, LaterTyped, LiveAssumption DEF Tick, Ages
  <2> QED
    BY <1>1, <2>1, <2>2 DEF Tick
<1>2. ASSUME NEW w \in Hosts, Step(w) PROVE LiveTypeOK'
  <2>1. CASE Start(w) \/ Heartbeat(w) \/ Dispose(w)
    <3>1. window' \in [Hosts -> {"off", "creating", "on", "disposed", "dead"}]
      BY <2>1 DEF Start, Heartbeat, Dispose
    <3>2. local' \in [Hosts -> SUBSET Tasks] /\ queue' \in [Hosts -> 0..MaxQueue]
      BY <2>1, FlushTyped DEF Start, Heartbeat, Dispose
    <3> QED
      BY <2>1, <3>1, <3>2 DEF Start, Heartbeat, Dispose
  <2>2. CASE CreateEmpty(w)
    BY <2>2, EmptyTyped DEF CreateEmpty
  <2>3. ASSUME NEW t \in Tasks, UpsertTask(w, t) \/ RemoveTask(w, t) PROVE LiveTypeOK'
    <3>q. queue' \in [Hosts -> 0..MaxQueue]
      BY <2>3, FlushTyped DEF UpsertTask, RemoveTask
    <3>a. local[w] \cup {t} \in SUBSET Tasks /\ local[w] \ {t} \in SUBSET Tasks
      OBVIOUS
    <3>1. local' \in [Hosts -> SUBSET Tasks]
      BY <2>3, <3>a DEF UpsertTask, RemoveTask
    <3>b. [since[w] EXCEPT ![t] = 0] \in [Tasks -> Ages]
      BY LiveAssumption DEF Ages
    <3>2. since' \in [Hosts -> [Tasks -> Ages]]
      BY <2>3, <3>b DEF UpsertTask, RemoveTask
    <3> QED
      BY <2>3, <3>q, <3>1, <3>2 DEF UpsertTask, RemoveTask
  <2>4. CASE WriteNow(w)
    <3>1. queue' \in [Hosts -> 0..MaxQueue]
      BY <2>4, LiveAssumption DEF WriteNow
    <3> QED
      BY <2>4, <3>1, GatheredTyped DEF WriteNow
  <2>5. CASE Replace(w)
    BY <2>5 DEF Replace
  <2>6. CASE WriteFails(w)
    BY <2>6, LiveAssumption DEF WriteFails
  <2>7. CASE Crash(w)
    BY <2>7, LiveAssumption DEF Crash
  <2> QED
    BY <1>2, <2>1, <2>2, <2>3, <2>4, <2>5, <2>6, <2>7 DEF Step
<1>3. CASE UNCHANGED liveVars
  BY <1>3 DEF liveVars
<1> QED
  BY <1>1, <1>2, <1>3 DEF LiveNext

(* Time ages a copy and the last run alike. *)
LEMMA AgedBacked ==
  ASSUME LiveInv, Tick, NEW f \in Files, BackedIn(f),
         NEW w \in Hosts, Aged(f)[w] # None, NEW t \in Aged(f)[w].tasks
  PROVE  since'[w][t] <= Aged(f)[w].age
<1>1. f[w] # None /\ f[w] \in Entries
  BY DEF Aged, Files
<1>2. Aged(f)[w].tasks = f[w].tasks /\ Aged(f)[w].age = Later(f[w].age)
  BY <1>1 DEF Aged, Entries
<1>3. t \in Tasks /\ since[w][t] \in Ages /\ f[w].age \in Ages /\ since[w][t] <= f[w].age
  BY <1>1, <1>2 DEF BackedIn, Entries, LiveInv, LiveTypeOK
<1>4. Later(since[w][t]) <= Later(f[w].age) /\ Later(f[w].age) \in Ages
  BY <1>3, LaterMonotone, LaterTyped
<1>5. since'[w][t] \in {0, Later(since[w][t])}
  BY <1>3 DEF Tick
<1> QED
  BY <1>2, <1>4, <1>5, LiveAssumption DEF Ages

LEMMA BackedStep == ASSUME LiveInv, [LiveNext]_liveVars PROVE Backed'
<1> USE DEF LiveInv
<1>1. CASE Tick
  <2>1. BackedIn(shared)'
    BY <1>1, AgedBacked DEF Tick, BackedIn, Backed, LiveTypeOK
  <2>2. ASSUME NEW w \in Hosts, payload'[w] # None PROVE BackedIn(payload[w])'
    <3>1. payload[w] # None /\ payload'[w] = Aged(payload[w])
      BY <1>1, <2>2 DEF Tick
    <3>2. payload[w] \in Files /\ BackedIn(payload[w])
      BY <3>1 DEF LiveTypeOK, Backed
    <3> QED
      BY <1>1, <3>1, <3>2, AgedBacked DEF BackedIn
  <2>3. \A w \in Hosts : \A t \in local'[w] : since'[w][t] = 0
    BY <1>1 DEF Tick, LiveTypeOK
  <2> QED
    BY <2>1, <2>2, <2>3 DEF Backed
<1>2. ASSUME NEW w \in Hosts, Step(w) PROVE Backed'
  <2>1. CASE WriteNow(w)
    <3>1. \A v \in Hosts : Gathered(w)[v] # None =>
            \A t \in Gathered(w)[v].tasks : since[v][t] <= Gathered(w)[v].age
      <4> SUFFICES ASSUME NEW v \in Hosts, Gathered(w)[v] # None, NEW t \in Gathered(w)[v].tasks
                   PROVE  since[v][t] <= Gathered(w)[v].age
        OBVIOUS
      <4>1. CASE v = w
        <5>1. Gathered(w)[w] = [age |-> 0, tasks |-> local[w]]
          BY <4>1 DEF Gathered, OwnEntry
        <5> QED
          BY <4>1, <5>1 DEF Backed
      <4>2. CASE v # w
        <5>1. Gathered(w)[v] = shared[v]
          BY <4>2 DEF Gathered
        <5> QED
          BY <5>1 DEF Backed, BackedIn
      <4> QED
        BY <4>1, <4>2
    <3>2. payload' = [payload EXCEPT ![w] = Gathered(w)]
          /\ UNCHANGED <<shared, local, since>>
      BY <2>1 DEF WriteNow
    <3> QED
      BY <3>1, <3>2 DEF Backed, BackedIn, LiveTypeOK
  <2>2. CASE Replace(w) \/ WriteFails(w) \/ Crash(w)
    BY <2>2 DEF Replace, WriteFails, Crash, Backed, BackedIn, LiveTypeOK
  <2>3. CASE CreateEmpty(w)
    BY <2>3 DEF CreateEmpty, Empty, Backed, BackedIn
  <2>4. ASSUME NEW t \in Tasks, UpsertTask(w, t) PROVE Backed'
    <3>1. /\ since' = [since EXCEPT ![w][t] = 0] /\ local' = [local EXCEPT ![w] = @ \cup {t}]
          /\ UNCHANGED <<shared, payload>>
      BY <2>4 DEF UpsertTask
    <3>2. \A v \in Hosts : \A u \in Tasks : since'[v][u] = since[v][u] \/ since'[v][u] = 0
      BY <3>1 DEF LiveTypeOK
    <3>3. \A f \in Files : BackedIn(f) => BackedIn(f)'
      <4> SUFFICES ASSUME NEW f \in Files, BackedIn(f), NEW v \in Hosts, f[v] # None,
                          NEW u \in f[v].tasks
                   PROVE  since'[v][u] <= f[v].age
        BY DEF BackedIn
      <4>1. f[v] \in Entries /\ since[v][u] <= f[v].age
        BY DEF Files, BackedIn
      <4> QED
        BY <3>2, <4>1, LiveAssumption DEF Entries, Ages
    <3>4. \A v \in Hosts : \A u \in local'[v] : since'[v][u] = 0
      BY <3>1 DEF Backed, LiveTypeOK
    <3> QED
      BY <3>1, <3>3, <3>4 DEF Backed, LiveTypeOK
  <2>5. CASE Start(w) \/ Heartbeat(w) \/ Dispose(w) \/ \E t \in Tasks : RemoveTask(w, t)
    <3>1. UNCHANGED <<shared, payload, since>> /\ \A v \in Hosts : local'[v] \subseteq local[v]
      BY <2>5 DEF Start, Heartbeat, Dispose, RemoveTask, LiveTypeOK
    <3> QED
      BY <3>1 DEF Backed, BackedIn
  <2> QED
    BY <1>2, <2>1, <2>2, <2>3, <2>4, <2>5 DEF Step
<1>3. CASE UNCHANGED liveVars
  BY <1>3 DEF liveVars, Backed, BackedIn
<1> QED
  BY <1>1, <1>2, <1>3 DEF LiveNext

LEMMA LiveInvariance == LiveSpec => []LiveInv
<1>1. LiveInv /\ [LiveNext]_liveVars => LiveInv'
  BY TypeStep, BackedStep DEF LiveInv
<1> QED
  BY <1>1, LiveInitInv, PTL DEF LiveSpec

-----------------------------------------------------------------------------
(* The coordinator's file, tasks and write chain keep their shapes. *)
THEOREM LiveTyped == LiveSpec => []LiveTypeOK
BY LiveInvariance, PTL DEF LiveInv

(* listRemoteTasks(): nothing is listed that had not run in its window within staleMs,
   for any number of windows overwriting each other. *)
THEOREM ListsOnlyRecent == LiveSpec => []ListedWasRunning
<1>1. LiveInv => ListedWasRunning
  <2> SUFFICES ASSUME LiveInv, NEW w \in Hosts, NEW v \in Hosts, NEW t \in ListedFor(w, v)
               PROVE  since[v][t] <= Stale
    BY DEF ListedWasRunning
  <2>1. shared[v] # None /\ shared[v] \in Entries /\ ~(shared[v].age > Stale) /\ t \in shared[v].tasks
    BY DEF ListedFor, IsStale, LiveInv, LiveTypeOK, Files
  <2>2. since[v][t] <= shared[v].age /\ since[v][t] \in Ages
    BY <2>1 DEF LiveInv, Backed, BackedIn, LiveTypeOK, Entries
  <2> QED
    BY <2>1, <2>2, LiveAssumption DEF Entries, Ages
<1> QED
  BY <1>1, LiveInvariance, PTL

-----------------------------------------------------------------------------
(***************************************************************************)
(* For any number of windows, subagents, rows and edits: the rail is typed, *)
(* an edit's change is in memory when its transaction looks, and a list    *)
(* that does not count as dirty is in the file.  The argument follows the  *)
(* dirty flag: while an edit is to be saved, only the reload that is       *)
(* already saving can make the list clean, and that one adopts nothing     *)
(* any more; and whoever makes the list clean has saved all of it but what *)
(* an edit under way, or a registration in the queue, is going to save.    *)
(***************************************************************************)
LEMMA ListIs ==
  ASSUME NEW l
  PROVE  l \in Lists <=> /\ l = [r \in DOMAIN l |-> l[r]]
                         /\ DOMAIN l \subseteq Rows
                         /\ \A r \in DOMAIN l : l[r] \in Times
<1>1. l \in Lists <=> \E D \in SUBSET Rows : l \in [D -> Times]
  BY DEF Lists
<1>2. QED
  BY <1>1

LEMMA TimesAreNumbers == Times \subseteq Nat
BY ListAssumption DEF Times

LEMMA NoRowsTyped == NoRows \in Lists /\ DOMAIN NoRows = {}
<1>1. DOMAIN NoRows = {} /\ NoRows = [r \in DOMAIN NoRows |-> NoRows[r]]
  BY DEF NoRows
<1>2. QED
  BY <1>1, ListIs

(* What is merged covers both sides. *)
LEMMA MergedCovers ==
  ASSUME NEW l \in Lists, NEW m \in Lists
  PROVE  /\ Merged(l, m) \in Lists
         /\ DOMAIN Merged(l, m) = DOMAIN l \cup DOMAIN m
         /\ \A r \in DOMAIN l : Merged(l, m)[r] >= l[r]
         /\ \A r \in DOMAIN m : Merged(l, m)[r] >= m[r]
<1> DEFINE g == Merged(l, m)
<1>1. DOMAIN g = DOMAIN l \cup DOMAIN m /\ g = [r \in DOMAIN g |-> g[r]]
  BY DEF Merged
<1>2. /\ DOMAIN l \subseteq Rows /\ DOMAIN m \subseteq Rows
      /\ \A r \in DOMAIN l : l[r] \in Times
      /\ \A r \in DOMAIN m : m[r] \in Times
  BY ListIs
<1>3. ASSUME NEW r \in DOMAIN g
      PROVE  g[r] = IF r \notin DOMAIN l \/ (r \in DOMAIN m /\ m[r] >= l[r]) THEN m[r] ELSE l[r]
  BY <1>1 DEF Merged
<1>4. \A r \in DOMAIN g : g[r] \in Times
  BY <1>1, <1>2, <1>3
<1>5. \A r \in DOMAIN l : g[r] >= l[r]
  BY <1>1, <1>2, <1>3, TimesAreNumbers
<1>6. \A r \in DOMAIN m : g[r] >= m[r]
  BY <1>1, <1>2, <1>3, TimesAreNumbers
<1>7. g \in Lists
  BY <1>1, <1>2, <1>4, ListIs
<1>8. QED
  BY <1>1, <1>5, <1>6, <1>7

(* Touching a session's rows, taking them away, and adding one. *)
LEMMA EditsTyped ==
  ASSUME NEW l \in Lists, NEW s \in Sessions, NEW at \in Times
  PROVE  /\ Changed(l, s, at) \in Lists
         /\ DOMAIN Changed(l, s, at) = DOMAIN l
         /\ \A r \in RowsOf(Changed(l, s, at), s) : Changed(l, s, at)[r] = at
         /\ Without(l, s) \in Lists
<1>1. DOMAIN l \subseteq Rows /\ \A r \in DOMAIN l : l[r] \in Times
  BY ListIs
<1>2. /\ DOMAIN Changed(l, s, at) = DOMAIN l
      /\ \A r \in DOMAIN l : Changed(l, s, at)[r] = IF r[1] = s THEN at ELSE l[r]
  BY DEF Changed
<1>3. Changed(l, s, at) \in Lists
  <2>1. Changed(l, s, at) = [r \in DOMAIN Changed(l, s, at) |-> Changed(l, s, at)[r]]
    BY DEF Changed
  <2>2. QED
    BY <1>1, <1>2, <2>1, ListIs
<1>4. \A r \in RowsOf(Changed(l, s, at), s) : Changed(l, s, at)[r] = at
  BY <1>2 DEF RowsOf
<1>5. Without(l, s) \in Lists
  <2>1. /\ Without(l, s) = [r \in DOMAIN Without(l, s) |-> Without(l, s)[r]]
        /\ DOMAIN Without(l, s) \subseteq DOMAIN l
        /\ \A r \in DOMAIN Without(l, s) : Without(l, s)[r] = l[r]
    BY DEF Without
  <2>2. QED
    BY <1>1, <2>1, ListIs
<1>6. QED
  BY <1>2, <1>3, <1>4, <1>5

LEMMA WithTyped ==
  ASSUME NEW l \in Lists, NEW s \in Sessions, NEW at \in Times,
         born[s] \in Nat, born[s] < MaxRows
  PROVE  /\ With(l, s, at) \in Lists
         /\ DOMAIN With(l, s, at) = DOMAIN l \cup {NewRow(s)}
         /\ \A r \in DOMAIN l : r # NewRow(s) => With(l, s, at)[r] = l[r]
         /\ With(l, s, at)[NewRow(s)] = at
<1>1. DOMAIN l \subseteq Rows /\ \A r \in DOMAIN l : l[r] \in Times
  BY ListIs
<1>2. NewRow(s) \in Rows
  BY ListAssumption DEF NewRow, Rows
<1>3. /\ With(l, s, at) = [r \in DOMAIN With(l, s, at) |-> With(l, s, at)[r]]
      /\ DOMAIN With(l, s, at) = DOMAIN l \cup {NewRow(s)}
      /\ \A r \in DOMAIN With(l, s, at) :
            With(l, s, at)[r] = IF r = NewRow(s) THEN at ELSE l[r]
  BY DEF With
<1>4. QED
  BY <1>1, <1>2, <1>3, ListIs

(* A list whose rows are of different sessions is adopted as it was read. *)
LEMMA DedupedTyped ==
  ASSUME NEW l \in Lists, NEW m \in Deduped(l)
  PROVE  m \in Lists /\ (DOMAIN m = DOMAIN l => \A r \in DOMAIN l : m[r] = l[r])
<1>1. PICK D \in SUBSET DOMAIN l : m \in [D -> Times]
  BY DEF Deduped
<1>2. DOMAIN l \subseteq Rows /\ \A r \in DOMAIN l : l[r] \in Times /\ r[1] \in Sessions
  BY ListIs DEF Rows
<1>3. m \in Lists
  BY <1>1, <1>2, ListIs
<1>4. ASSUME DOMAIN m = DOMAIN l, NEW r \in DOMAIN l
      PROVE  m[r] = l[r]
  <2>1. PICK q \in RowsOf(l, r[1]) : m[r] = l[q]
    BY <1>4 DEF Deduped
  <2>2. q \in RowsOf(m, r[1]) /\ r \in RowsOf(m, r[1]) /\ r \in RowsOf(l, r[1])
    BY <1>4, <2>1 DEF RowsOf
  <2>3. \E x \in DOMAIN m : RowsOf(m, r[1]) = {x}
    BY <1>2, <1>4, <2>2 DEF Deduped
  <2>4. QED
    BY <2>1, <2>2, <2>3
<1>5. QED
  BY <1>3, <1>4

-----------------------------------------------------------------------------
(* Who has something to save, or counts as dirty, has loaded the list. *)
HasList ==
  \A w \in Windows :
    dirty[w] \/ (\E p \in Procs : pc[w][p] \in {"flush", "flushed", "change", "commit", "settle"})
      => mem[w] \in Lists

(* Edits are stamped in the past, a registration that runs has left the queue of
   its window, and only edits change and commit. *)
JobsPast ==
  \A w \in Windows :
    /\ pc[w]["edit"] # "idle" =>
         /\ job[w] \in Jobs /\ job[w].at <= clock
         /\ job[w].kind = "register" => reg[job[w].of] = "active" /\ Home[job[w].of] = w
    /\ pc[w]["reload"] \in {"idle", "read", "adopt", "flush", "flushed"}

(* Before the third attempt of a registration there have been two. *)
Attempts == \A s \in Sessions : reg[s] \in {"none", "retry"} => tries[s] < 3

(* While an edit is to be saved, what a reload has read is not adopted. *)
DirtyGuards ==
  \A w \in Windows :
    At(w, "edit", "commit") /\ pc[w]["reload"] \in {"read", "adopt"} => dirty[w]

(* A row of l is in the file as late as in l, but for what deletions undid. *)
InFile(l) == \A r \in DOMAIN l : r[1] \in wiped \/ (r \in DOMAIN file /\ file[r] >= l[r])

SnapInFile == \A w \in Windows, p \in Procs : At(w, p, "adopt") => InFile(snap[w][p])

(* Something that is under way will save the list of w. *)
Registering(w) == /\ job[w].kind = "register"
                  /\ pc[w]["edit"] \in {"read", "adopt", "flush", "flushed", "change"}
Queued(w) == \E s \in Sessions : Home[s] = w /\ reg[s] = "queued"
WillSave(w) == \/ At(w, "edit", "commit") \/ (\E p \in Procs : At(w, p, "flush"))
               \/ Registering(w) \/ Queued(w)

(* A list that nobody is going to save is in the file when it is clean, and when
   a transaction that is over is about to make it clean. *)
ToBeClean(w) == ~dirty[w] \/ At(w, "edit", "settle") \/ \E p \in Procs : At(w, p, "flushed")
CleanIsSaved ==
  \A w \in Windows :
    fails = 0 /\ mem[w] # Undefined /\ ~WillSave(w) /\ ToBeClean(w) => InFile(mem[w])

IInv == /\ TypeOK /\ HasList /\ JobsPast /\ Attempts /\ DirtyGuards /\ ChangeReachesCommit
        /\ SnapInFile /\ CleanIsSaved

LEMMA InitInv == Init => IInv
<1> SUFFICES ASSUME Init PROVE IInv
  OBVIOUS
<1> USE DEF Init
<1>1. TypeOK
  BY NoRowsTyped, ListAssumption DEF TypeOK, Times, Stages
<1>2. HasList /\ JobsPast /\ Attempts /\ DirtyGuards /\ ChangeReachesCommit
  BY DEF HasList, JobsPast, Attempts, DirtyGuards, ChangeReachesCommit, At, Procs
<1>3. SnapInFile /\ CleanIsSaved
  BY DEF SnapInFile, CleanIsSaved, At, Procs
<1>4. QED
  BY <1>1, <1>2, <1>3 DEF IInv

(* What SavedWhenClean says is the part of CleanIsSaved about windows at rest. *)
LEMMA InvImplies == IInv => TypeOK /\ ChangeReachesCommit /\ SavedWhenClean
<1> SUFFICES ASSUME IInv, NEW w \in Windows,
                    mem[w] # Undefined, ~dirty[w], fails = 0,
                    \A p \in Procs : At(w, p, "idle"),
                    \A s \in Sessions : Home[s] = w => reg[s] # "queued"
             PROVE  InFile(mem[w])
  BY DEF IInv, SavedWhenClean, InFile
<1>1. ~WillSave(w)
  BY DEF WillSave, Registering, Queued, At, Procs
<1>2. QED
  BY <1>1 DEF IInv, CleanIsSaved, ToBeClean

-----------------------------------------------------------------------------
LEMMA GoesTo ==
  ASSUME IInv, NEW w \in Windows, NEW p \in Procs, NEW s \in Stages, Goto(w, p, s)
  PROVE  /\ pc' \in [Windows -> [Procs -> Stages]]
         /\ pc'[w][p] = s
         /\ \A v \in Windows, q \in Procs : v # w \/ q # p => pc'[v][q] = pc[v][q]
BY DEF IInv, TypeOK, Goto

LEMMA TwoProcs == Procs = {"edit", "reload"} /\ "edit" \in Procs /\ "reload" \in Procs
BY DEF Procs

(* The parts of the invariant to show after a step, windows one by one. *)
LEMMA Parts ==
  ASSUME TypeOK', HasList', JobsPast', Attempts', DirtyGuards', ChangeReachesCommit', SnapInFile',
         ASSUME NEW v \in Windows,
                (fails = 0)', (mem[v] # Undefined)', ~WillSave(v)', ToBeClean(v)'
         PROVE  InFile(mem[v])'
  PROVE  IInv'
BY DEF IInv, CleanIsSaved

LEMMA StartReloadInv ==
  ASSUME IInv, NEW w \in Windows, StartReload(w)
  PROVE  IInv'
<1> USE DEF StartReload
<1>1. /\ pc' \in [Windows -> [Procs -> Stages]] /\ pc'[w]["reload"] = "read"
      /\ \A v \in Windows, q \in Procs : v # w \/ q # "reload" => pc'[v][q] = pc[v][q]
  BY GoesTo, TwoProcs DEF Stages
<1>2. TypeOK'
  BY <1>1 DEF IInv, TypeOK
<1>3. HasList' /\ Attempts'
  BY <1>1, TwoProcs DEF IInv, HasList, Attempts
<1>4. JobsPast'
  BY <1>1, TwoProcs DEF IInv, JobsPast
<1>5. DirtyGuards'
  BY <1>1, TwoProcs DEF IInv, DirtyGuards, At
<1>6. ChangeReachesCommit'
  BY <1>1, TwoProcs DEF IInv, ChangeReachesCommit, At, Lacks, Current
<1>7. SnapInFile'
  BY <1>1, TwoProcs DEF IInv, SnapInFile, InFile, At
<1>8. ASSUME NEW v \in Windows, (fails = 0)', (mem[v] # Undefined)', ~WillSave(v)', ToBeClean(v)'
      PROVE  InFile(mem[v])'
  <2>1. ~WillSave(v) /\ ToBeClean(v)
    BY <1>1, <1>8, TwoProcs DEF WillSave, Registering, Queued, At, ToBeClean
  <2>2. QED
    BY <1>8, <2>1 DEF IInv, CleanIsSaved, InFile
<1>9. QED
  BY <1>2, <1>3, <1>4, <1>5, <1>6, <1>7, <1>8, Parts

LEMMA ReadInv ==
  ASSUME IInv, NEW w \in Windows, NEW p \in Procs, Read(w, p)
  PROVE  IInv'
<1> USE DEF Read
<1>1. /\ pc' \in [Windows -> [Procs -> Stages]] /\ pc'[w][p] = "adopt"
      /\ \A v \in Windows, q \in Procs : v # w \/ q # p => pc'[v][q] = pc[v][q]
  BY GoesTo, TwoProcs DEF Stages
<1>2. /\ fails' \in Nat /\ edits + fails' <= MaxEvents /\ (fails' = 0 => fails = 0)
      /\ snap' \in [Windows -> [Procs -> Lists]]
      /\ snap'[w][p] = file \/ snap'[w][p] = NoRows
      /\ \A v \in Windows, q \in Procs : v # w \/ q # p => snap'[v][q] = snap[v][q]
  <2>1. fails \in Nat /\ edits \in Nat /\ edits + fails <= MaxEvents
    BY DEF IInv, TypeOK
  <2>2. fails' \in Nat /\ edits + fails' <= MaxEvents /\ (fails' = 0 => fails = 0)
    <3>1. fails' = fails \/ (edits + fails < MaxEvents /\ fails' = fails + 1)
      BY DEF Fails
    <3>2. QED
      BY <2>1, <3>1, ListAssumption
  <2>3. PICK l \in {file, NoRows} : snap' = [snap EXCEPT ![w][p] = l]
    BY DEF Fails
  <2>4. snap \in [Windows -> [Procs -> Lists]] /\ l \in Lists
    BY NoRowsTyped DEF IInv, TypeOK
  <2>5. QED
    BY <2>2, <2>3, <2>4
<1>3. TypeOK'
  BY <1>1, <1>2 DEF IInv, TypeOK
<1>4. HasList' /\ Attempts'
  BY <1>1, TwoProcs DEF IInv, HasList, Attempts
<1>5. JobsPast'
  BY <1>1, TwoProcs DEF IInv, JobsPast, At
<1>6. DirtyGuards'
  BY <1>1, TwoProcs DEF IInv, DirtyGuards, At
<1>7. ChangeReachesCommit'
  BY <1>1, TwoProcs DEF IInv, ChangeReachesCommit, At, Lacks, Current
<1>8. SnapInFile'
  <2>1. \A r \in DOMAIN file : file[r] >= file[r]
    BY ListIs, TimesAreNumbers DEF IInv, TypeOK
  <2>2. QED
    BY <1>1, <1>2, <2>1, NoRowsTyped, TwoProcs DEF IInv, SnapInFile, InFile, At
<1>9. ASSUME NEW v \in Windows, (fails = 0)', (mem[v] # Undefined)', ~WillSave(v)', ToBeClean(v)'
      PROVE  InFile(mem[v])'
  <2>1. ~WillSave(v) /\ ToBeClean(v)
    BY <1>1, <1>9, TwoProcs DEF WillSave, Registering, Queued, At, ToBeClean
  <2>2. QED
    BY <1>2, <1>9, <2>1 DEF IInv, CleanIsSaved, InFile
<1>10. QED
  BY <1>3, <1>4, <1>5, <1>6, <1>7, <1>8, <1>9, Parts

LEMMA AdoptInv ==
  ASSUME IInv, NEW w \in Windows, NEW p \in Procs, Adopt(w, p)
  PROVE  IInv'
<1>0. /\ At(w, p, "adopt") /\ snap' = [snap EXCEPT ![w][p] = NoRows]
      /\ UNCHANGED <<file, job, reg, tries, born, wiped, clock, edits, fails>>
  BY DEF Adopt
<1>1. PICK s \in Stages : Goto(w, p, s) /\ s \in {"flush", Loaded(p)}
  <2>1. "flush" \in Stages /\ Loaded(p) \in Stages
    BY DEF Loaded, Stages
  <2>2. QED
    BY <2>1 DEF Adopt
<1>2. /\ pc' \in [Windows -> [Procs -> Stages]] /\ pc'[w][p] = s
      /\ \A v \in Windows, q \in Procs : v # w \/ q # p => pc'[v][q] = pc[v][q]
  BY <1>1, GoesTo
<1>3. /\ snap \in [Windows -> [Procs -> Lists]] /\ mem \in [Windows -> Lists \cup {Undefined}]
      /\ dirty \in [Windows -> BOOLEAN] /\ snap' \in [Windows -> [Procs -> Lists]]
      /\ \A v \in Windows, q \in Procs : v # w \/ q # p => snap'[v][q] = snap[v][q]
  BY <1>0, NoRowsTyped DEF IInv, TypeOK
<1>4. /\ s \notin {"adopt", "commit", "settle", "flushed", "read"}
      /\ p = "reload" => s \in {"flush", "idle"}
  BY <1>1, TwoProcs DEF Loaded
<1>5. CASE dirty[w]
  <2>1. UNCHANGED <<mem, dirty>> /\ s = "flush"
    <3>1. UNCHANGED <<mem, dirty>> /\ Goto(w, p, "flush")
      BY <1>5 DEF Adopt, MustKeep
    <3>2. QED
      BY <1>0, <1>2, <3>1, GoesTo DEF Stages
  <2>2. TypeOK'
    BY <1>0, <1>2, <1>3, <2>1 DEF IInv, TypeOK
  <2>3. HasList' /\ Attempts'
    BY <1>0, <1>2, <1>5, <2>1, TwoProcs DEF IInv, HasList, Attempts
  <2>4. JobsPast'
    BY <1>0, <1>2, <1>4, <2>1, TwoProcs DEF IInv, JobsPast, At
  <2>5. DirtyGuards' /\ ChangeReachesCommit'
    BY <1>0, <1>2, <1>4, <2>1, TwoProcs DEF IInv, DirtyGuards, ChangeReachesCommit, At, Lacks, Current
  <2>6. SnapInFile'
    BY <1>0, <1>2, <1>3, <1>4, <2>1, TwoProcs DEF IInv, SnapInFile, InFile, At
  <2>7. ASSUME NEW v \in Windows, (fails = 0)', (mem[v] # Undefined)', ~WillSave(v)', ToBeClean(v)'
        PROVE  InFile(mem[v])'
    <3>1. v # w
      BY <1>0, <1>2, <2>1, <2>7 DEF WillSave, At
    <3>2. ~WillSave(v) /\ ToBeClean(v)
      BY <1>0, <1>2, <2>1, <2>7, <3>1, TwoProcs DEF WillSave, Registering, Queued, At, ToBeClean
    <3>3. QED
      BY <1>0, <2>1, <2>7, <3>2 DEF IInv, CleanIsSaved, InFile
  <2>8. QED
    BY <2>2, <2>3, <2>4, <2>5, <2>6, <2>7, Parts
<1>6. CASE ~dirty[w]
  <2>1. PICK l \in Deduped(snap[w][p]) :
          /\ mem' = [mem EXCEPT ![w] = l]
          /\ dirty' = [dirty EXCEPT ![w] = DOMAIN l # DOMAIN snap[w][p]]
    BY <1>6 DEF Adopt, MustKeep
  <2>2. l \in Lists /\ (DOMAIN l = DOMAIN snap[w][p] => \A r \in DOMAIN l : l[r] = snap[w][p][r])
    BY <1>3, <2>1, DedupedTyped
  <2>3. /\ mem' \in [Windows -> Lists \cup {Undefined}] /\ dirty' \in [Windows -> BOOLEAN]
        /\ mem'[w] = l /\ dirty'[w] = (DOMAIN l # DOMAIN snap[w][p])
        /\ \A v \in Windows : v # w => mem'[v] = mem[v] /\ dirty'[v] = dirty[v]
    BY <1>3, <2>1, <2>2
  <2>4. s = IF dirty'[w] THEN "flush" ELSE Loaded(p)
    <3>1. Goto(w, p, IF dirty'[w] THEN "flush" ELSE Loaded(p))
      BY <1>6 DEF Adopt, MustKeep
    <3>2. (IF dirty'[w] THEN "flush" ELSE Loaded(p)) \in Stages
      BY DEF Loaded, Stages
    <3>3. QED
      BY <1>0, <1>2, <3>1, <3>2, GoesTo
  <2>5. TypeOK'
    BY <1>0, <1>2, <1>3, <2>3 DEF IInv, TypeOK
  <2>6. HasList' /\ Attempts'
    BY <1>0, <1>2, <2>2, <2>3, TwoProcs DEF IInv, HasList, Attempts
  <2>7. JobsPast'
    BY <1>0, <1>2, <1>4, TwoProcs DEF IInv, JobsPast, At
  <2>8. ~(At(w, "edit", "commit") /\ pc[w]["reload"] \in {"read", "adopt"})
    BY <1>6 DEF IInv, DirtyGuards
  <2>9. DirtyGuards'
    BY <1>0, <1>2, <1>4, <2>3, <2>8, TwoProcs DEF IInv, DirtyGuards, At
  <2>10. ChangeReachesCommit'
    BY <1>0, <1>2, <1>4, <2>3, <2>8, TwoProcs DEF IInv, ChangeReachesCommit, At, Lacks, Current
  <2>11. SnapInFile'
    BY <1>0, <1>2, <1>3, <1>4, TwoProcs DEF IInv, SnapInFile, InFile, At
  <2>12. ASSUME NEW v \in Windows, (fails = 0)', (mem[v] # Undefined)', ~WillSave(v)', ToBeClean(v)'
         PROVE  InFile(mem[v])'
    <3>1. CASE v = w
      <4>1. DOMAIN l = DOMAIN snap[w][p]
        BY <1>0, <1>2, <2>3, <2>4, <2>12, <3>1 DEF WillSave, At
      <4>2. InFile(snap[w][p])
        BY <1>0 DEF IInv, SnapInFile
      <4>3. QED
        BY <1>0, <2>2, <2>3, <3>1, <4>1, <4>2 DEF InFile
    <3>2. CASE v # w
      <4>1. ~WillSave(v) /\ ToBeClean(v)
        BY <1>0, <1>2, <2>3, <2>12, <3>2, TwoProcs DEF WillSave, Registering, Queued, At, ToBeClean
      <4>2. QED
        BY <1>0, <2>3, <2>12, <3>2, <4>1 DEF IInv, CleanIsSaved, InFile
    <3>3. QED
      BY <3>1, <3>2
  <2>13. QED
    BY <2>5, <2>6, <2>7, <2>9, <2>10, <2>11, <2>12, Parts
<1>7. QED
  BY <1>3, <1>5, <1>6

LEMMA BeginIs ==
  ASSUME IInv, NEW w \in Windows, NEW kind \in Kinds, NEW s \in Sessions, Begin(w, kind, s)
  PROVE  /\ pc' \in [Windows -> [Procs -> Stages]]
         /\ pc'[w]["edit"] = IF mem[w] = Undefined THEN "read" ELSE "change"
         /\ \A v \in Windows, q \in Procs : v # w \/ q # "edit" => pc'[v][q] = pc[v][q]
         /\ pc[w]["edit"] = "idle"
         /\ job' \in [Windows -> Jobs \cup {NoJob}]
         /\ job'[w] \in Jobs /\ job'[w].at <= clock /\ job'[w].kind = kind /\ job'[w].of = s
         /\ \A v \in Windows : v # w => job'[v] = job[v]
<1> USE DEF Begin
<1>1. (IF mem[w] = Undefined THEN "read" ELSE "change") \in Stages
  BY DEF Stages
<1>2. [kind |-> kind, of |-> s, at |-> 0] \in Jobs /\ 0 <= clock
  BY ListAssumption, TimesAreNumbers DEF Jobs, Times, IInv, TypeOK
<1>3. /\ job' \in [Windows -> Jobs \cup {NoJob}]
      /\ job'[w] = [kind |-> kind, of |-> s, at |-> 0]
      /\ \A v \in Windows : v # w => job'[v] = job[v]
  BY <1>2 DEF IInv, TypeOK
<1>4. QED
  BY <1>1, <1>2, <1>3, GoesTo, TwoProcs DEF At

(* An edit that begins, with the lists, the file and the snapshots as they were. *)
LEMMA BeginInv ==
  ASSUME IInv, NEW w \in Windows, NEW kind \in Kinds, NEW s \in Sessions, Begin(w, kind, s),
         UNCHANGED <<file, mem, dirty, snap, wiped, clock, fails>>, TypeOK', Attempts',
         \A v \in Windows : Queued(v) => Queued(v)' \/ Registering(v)',
         \A x \in Sessions : reg[x] = "active" => reg'[x] = "active",
         kind = "register" => reg'[s] = "active" /\ Home[s] = w
  PROVE  IInv'
<1>1. /\ pc'[w]["edit"] = IF mem[w] = Undefined THEN "read" ELSE "change"
      /\ \A v \in Windows, q \in Procs : v # w \/ q # "edit" => pc'[v][q] = pc[v][q]
      /\ pc[w]["edit"] = "idle"
      /\ job'[w] \in Jobs /\ job'[w].at <= clock /\ job'[w].kind = kind /\ job'[w].of = s
      /\ \A v \in Windows : v # w => job'[v] = job[v]
  <2>1. /\ pc'[w]["edit"] = IF mem[w] = Undefined THEN "read" ELSE "change"
        /\ \A v \in Windows, q \in Procs : v # w \/ q # "edit" => pc'[v][q] = pc[v][q]
        /\ pc[w]["edit"] = "idle"
    BY BeginIs
  <2>2. /\ job'[w] \in Jobs /\ job'[w].at <= clock /\ job'[w].kind = kind /\ job'[w].of = s
        /\ \A v \in Windows : v # w => job'[v] = job[v]
    BY BeginIs
  <2>3. QED
    BY <2>1, <2>2
<1>2. HasList'
  <2>1. mem[w] # Undefined => mem[w] \in Lists
    BY DEF IInv, TypeOK
  <2>2. QED
    BY <1>1, <2>1, TwoProcs DEF IInv, HasList
<1>3. JobsPast'
  <2>1. \A v \in Windows : job[v] \in Jobs => job[v].of \in Sessions
    BY DEF Jobs
  <2>2. QED
    BY <1>1, <2>1, TwoProcs DEF IInv, JobsPast
<1>4. DirtyGuards' /\ ChangeReachesCommit'
  BY <1>1, TwoProcs DEF IInv, DirtyGuards, ChangeReachesCommit, At, Lacks, Current
<1>5. SnapInFile'
  BY <1>1, TwoProcs DEF IInv, SnapInFile, InFile, At
<1>6. ASSUME NEW v \in Windows, (fails = 0)', (mem[v] # Undefined)', ~WillSave(v)', ToBeClean(v)'
      PROVE  InFile(mem[v])'
  <2>1. ~WillSave(v) /\ ToBeClean(v)
    BY <1>1, <1>6, TwoProcs DEF WillSave, Registering, At, ToBeClean
  <2>2. QED
    BY <1>6, <2>1 DEF IInv, CleanIsSaved, InFile
<1>7. QED
  BY <1>2, <1>3, <1>4, <1>5, <1>6, Parts

LEMMA StartEditInv ==
  ASSUME IInv, NEW w \in Windows, NEW kind \in Kinds, NEW s \in Sessions, StartEdit(w, kind, s)
  PROVE  IInv'
<1> USE DEF StartEdit
<1>1. edits' \in Nat /\ edits' + fails <= MaxEvents
  BY ListAssumption DEF IInv, TypeOK
<1>2. TypeOK'
  BY <1>1, BeginIs DEF IInv, TypeOK
<1>3. Attempts' /\ \A v \in Windows : Queued(v) => Queued(v)'
  BY DEF IInv, Attempts, Queued
<1>4. QED
  BY <1>2, <1>3, BeginInv

LEMMA StartRegisterInv ==
  ASSUME IInv, NEW s \in Sessions, StartRegister(s)
  PROVE  IInv'
<1> USE DEF StartRegister
<1>1. Home[s] \in Windows /\ "register" \in Kinds
  BY ListAssumption DEF Kinds
<1>2. /\ job'[Home[s]].kind = "register" /\ pc'[Home[s]]["edit"] \in {"read", "change"}
      /\ pc' \in [Windows -> [Procs -> Stages]] /\ job' \in [Windows -> Jobs \cup {NoJob}]
  BY <1>1, BeginIs
<1>3. TypeOK'
  BY <1>2 DEF IInv, TypeOK
<1>4. Registering(Home[s])'
  BY <1>2 DEF Registering
<1>5. \A v \in Windows : Queued(v) => Queued(v)' \/ v = Home[s]
  BY DEF Queued, IInv, TypeOK
<1>6. Attempts' /\ reg'[s] = "active" /\ \A x \in Sessions : reg[x] = "active" => reg'[x] = "active"
  BY DEF IInv, TypeOK, Attempts
<1>7. QED
  BY <1>1, <1>3, <1>4, <1>5, <1>6, BeginInv

LEMMA CurrentTyped ==
  ASSUME IInv, NEW w \in Windows
  PROVE  Current(w) \in Lists /\ (mem[w] \in Lists => Current(w) = mem[w])
BY NoRowsTyped, ListAssumption DEF IInv, TypeOK, Current

LEMMA AttachInv ==
  ASSUME IInv, NEW s \in Sessions, Attach(s)
  PROVE  IInv'
<1> DEFINE w == Home[s]
<1>0. /\ w \in Windows /\ reg[s] \in {"none", "retry"}
      /\ reg' = [reg EXCEPT ![s] = "queued"] /\ tries' = [tries EXCEPT ![s] = @ + 1]
      /\ UNCHANGED <<file, pc, snap, job, wiped, edits, fails>>
  BY ListAssumption DEF Attach
<1>1. /\ reg' \in [Sessions -> {"none", "queued", "active", "retry", "done"}]
      /\ tries' \in [Sessions -> 0..3] /\ reg'[s] = "queued"
      /\ \A x \in Sessions : x # s => reg'[x] = reg[x] /\ tries'[x] = tries[x]
  BY <1>0 DEF IInv, TypeOK, Attempts
<1>2. Attempts'
  BY <1>1 DEF IInv, Attempts
<1>3. \A v \in Windows : Queued(v)' <=> (Queued(v) \/ v = w)
  BY <1>0, <1>1 DEF Queued
<1>7. \A v \in Windows : job[v] \in Jobs =>
        job[v].at \in Nat /\ (reg[job[v].of] = "active" => reg'[job[v].of] = "active")
  <2>1. \A v \in Windows : job[v] \in Jobs => job[v].at \in Times /\ job[v].of \in Sessions
    BY DEF Jobs
  <2>2. QED
    BY <1>0, <1>1, <2>1, TimesAreNumbers
<1>4. CASE UNCHANGED <<mem, dirty, born, clock>>
  <2>1. TypeOK' /\ HasList' /\ DirtyGuards' /\ ChangeReachesCommit' /\ SnapInFile'
    BY <1>0, <1>1, <1>4
    DEF IInv, TypeOK, HasList, DirtyGuards, ChangeReachesCommit, SnapInFile, InFile,
        At, Lacks, Current
  <2>4. JobsPast'
    BY <1>0, <1>4, <1>7 DEF IInv, JobsPast
  <2>2. ASSUME NEW v \in Windows, (fails = 0)', (mem[v] # Undefined)', ~WillSave(v)', ToBeClean(v)'
        PROVE  InFile(mem[v])'
    BY <1>0, <1>3, <1>4, <2>2
    DEF IInv, CleanIsSaved, InFile, WillSave, ToBeClean, Registering, At
  <2>3. QED
    BY <1>2, <2>1, <2>2, <2>4, Parts
<1>5. CASE /\ RowsOf(Current(w), s) = {} /\ born[s] < MaxRows
           /\ \E at \in Times : Stamped(at) /\ mem' = [mem EXCEPT ![w] = With(Current(w), s, at)]
           /\ dirty' = [dirty EXCEPT ![w] = TRUE]
           /\ born' = [born EXCEPT ![s] = @ + 1]
  <2>1. PICK at \in Times : Stamped(at) /\ mem' = [mem EXCEPT ![w] = With(Current(w), s, at)]
    BY <1>5
  <2>2. clock' = at /\ clock' \in Times /\ clock <= clock' /\ clock' \in Nat /\ clock \in Nat
    BY <2>1, TimesAreNumbers DEF Stamped, IInv, TypeOK
  <2>3. /\ With(Current(w), s, at) \in Lists
        /\ DOMAIN With(Current(w), s, at) = DOMAIN Current(w) \cup {NewRow(s)}
        /\ \A r \in DOMAIN Current(w) : r # NewRow(s) => With(Current(w), s, at)[r] = Current(w)[r]
        /\ With(Current(w), s, at)[NewRow(s)] = at
    <3>1. Current(w) \in Lists
      BY <1>0, CurrentTyped
    <3>2. born[s] \in Nat /\ born[s] < MaxRows
      BY <1>5, ListAssumption DEF IInv, TypeOK
    <3>3. QED
      BY <3>1, <3>2, WithTyped
  <2>4. /\ mem' \in [Windows -> Lists \cup {Undefined}] /\ mem'[w] = With(Current(w), s, at)
        /\ dirty' \in [Windows -> BOOLEAN] /\ dirty'[w] = TRUE
        /\ \A v \in Windows : v # w => mem'[v] = mem[v] /\ dirty'[v] = dirty[v]
        /\ born' \in [Sessions -> 0..MaxRows]
    BY <1>0, <1>5, <2>1, <2>3, ListAssumption DEF IInv, TypeOK
  <2>5. TypeOK'
    BY <1>0, <1>1, <2>2, <2>4 DEF IInv, TypeOK
  <2>6. HasList'
    BY <1>0, <2>3, <2>4 DEF IInv, HasList
  <2>7. JobsPast'
    BY <1>0, <1>7, <2>2 DEF IInv, JobsPast
  <2>8. DirtyGuards' /\ SnapInFile'
    BY <1>0, <2>4 DEF IInv, DirtyGuards, SnapInFile, InFile, At
  <2>9. ChangeReachesCommit'
    <3> SUFFICES ASSUME NEW v \in Windows, At(v, "edit", "commit")'
                 PROVE  /\ job[v].kind = "touch" => \A r \in RowsOf(mem'[v], job[v].of) : mem'[v][r] >= job[v].at
                        /\ job[v].kind \in {"create", "register"} => RowsOf(Current(v)', job[v].of) # {}
      BY <1>0 DEF ChangeReachesCommit, Lacks
    <3>1. /\ job[v].kind = "touch" => \A r \in RowsOf(mem[v], job[v].of) : mem[v][r] >= job[v].at
          /\ job[v].kind \in {"create", "register"} => RowsOf(Current(v), job[v].of) # {}
          /\ job[v].at <= clock /\ job[v].at \in Nat /\ mem[v] \in Lists
      BY <1>0, TwoProcs, TimesAreNumbers DEF IInv, ChangeReachesCommit, Lacks, At, JobsPast, Jobs, HasList
    <3>2. CASE v # w
      BY <2>4, <3>1, <3>2 DEF Current
    <3>3. CASE v = w
      <4>1. mem'[v] = With(mem[v], s, at) /\ Current(v) = mem[v] /\ Current(v)' = mem'[v]
        BY <1>0, <2>3, <2>4, <3>1, <3>3, CurrentTyped, ListAssumption DEF Current
      <4>2. /\ DOMAIN mem'[v] = DOMAIN mem[v] \cup {NewRow(s)}
            /\ \A r \in DOMAIN mem[v] : r # NewRow(s) => mem'[v][r] = mem[v][r]
            /\ mem'[v][NewRow(s)] = at
        BY <2>3, <2>4, <3>3, <4>1
      <4>3. at >= job[v].at
        BY <2>2, <3>1
      <4>4. QED
        BY <3>1, <4>1, <4>2, <4>3 DEF RowsOf
    <3>4. QED
      BY <3>2, <3>3
  <2>10. ASSUME NEW v \in Windows, (fails = 0)', (mem[v] # Undefined)', ~WillSave(v)', ToBeClean(v)'
         PROVE  InFile(mem[v])'
    <3>1. v # w
      BY <1>3, <2>10 DEF WillSave
    <3>2. ~WillSave(v) /\ ToBeClean(v)
      BY <1>0, <1>3, <2>4, <2>10, <3>1 DEF WillSave, ToBeClean, Registering, At
    <3>3. QED
      BY <1>0, <2>4, <2>10, <3>1, <3>2 DEF IInv, CleanIsSaved, InFile
  <2>11. QED
    BY <1>2, <2>5, <2>6, <2>7, <2>8, <2>9, <2>10, Parts
<1>6. QED
  BY <1>4, <1>5 DEF Attach

(* An edit that has changed the list and is to be saved. *)
LEMMA PersistInv ==
  ASSUME IInv, NEW w \in Windows, NEW at \in Times, NEW l \in Lists,
         At(w, "edit", "change"), Persist(w, at), Remember(w, l),
         UNCHANGED <<file, snap, reg, tries, wiped, edits, fails>>,
         born' \in [Sessions -> 0..MaxRows], clock' \in Times, clock <= clock', at <= clock',
         job[w].kind = "touch" => \A r \in RowsOf(l, job[w].of) : l[r] >= at,
         job[w].kind \in {"create", "register"} => RowsOf(l, job[w].of) # {}
  PROVE  IInv'
<1>1. /\ pc' \in [Windows -> [Procs -> Stages]] /\ pc'[w]["edit"] = "commit"
      /\ \A v \in Windows, q \in Procs : v # w \/ q # "edit" => pc'[v][q] = pc[v][q]
  BY GoesTo, TwoProcs DEF Persist, Stages
<1>2. job[w] \in Jobs
  BY DEF IInv, JobsPast, At
<1>3. /\ job' \in [Windows -> Jobs \cup {NoJob}] /\ job'[w] \in Jobs /\ job'[w].at = at
      /\ job'[w].kind = job[w].kind /\ job'[w].of = job[w].of
      /\ \A v \in Windows : v # w => job'[v] = job[v]
  <2>1. job' = [job EXCEPT ![w] = [job[w] EXCEPT !.at = at]] /\ job \in [Windows -> Jobs \cup {NoJob}]
    BY DEF Persist, IInv, TypeOK
  <2>2. /\ [job[w] EXCEPT !.at = at] \in Jobs /\ [job[w] EXCEPT !.at = at].at = at
        /\ [job[w] EXCEPT !.at = at].kind = job[w].kind /\ [job[w] EXCEPT !.at = at].of = job[w].of
    BY <1>2 DEF Jobs
  <2>3. QED
    BY <2>1, <2>2
<1>4. /\ mem' \in [Windows -> Lists \cup {Undefined}] /\ mem'[w] = l
      /\ dirty' \in [Windows -> BOOLEAN] /\ dirty'[w] = TRUE
      /\ \A v \in Windows : v # w => mem'[v] = mem[v] /\ dirty'[v] = dirty[v]
  BY DEF Remember, IInv, TypeOK
<1>5. TypeOK'
  BY <1>1, <1>3, <1>4 DEF IInv, TypeOK
<1>6. HasList' /\ Attempts'
  BY <1>1, <1>4, TwoProcs DEF IInv, HasList, Attempts
<1>7. JobsPast'
  <2>1. \A v \in Windows : job[v] \in Jobs => job[v].at \in Nat
    BY TimesAreNumbers DEF Jobs
  <2>2. clock \in Nat /\ clock' \in Nat
    BY TimesAreNumbers DEF IInv, TypeOK
  <2>3. job[w].kind = "register" => reg[job[w].of] = "active" /\ Home[job[w].of] = w
    BY DEF IInv, JobsPast, At
  <2>4. QED
    BY <1>1, <1>3, <2>1, <2>2, <2>3, TwoProcs DEF IInv, JobsPast
<1>8. DirtyGuards' /\ SnapInFile'
  BY <1>1, <1>4, TwoProcs DEF IInv, DirtyGuards, SnapInFile, InFile, At
<1>9. ChangeReachesCommit'
  <2> SUFFICES ASSUME NEW v \in Windows, At(v, "edit", "commit")'
               PROVE  /\ job'[v].kind = "touch" => \A r \in RowsOf(mem'[v], job'[v].of) : mem'[v][r] >= job'[v].at
                      /\ job'[v].kind \in {"create", "register"} => RowsOf(Current(v)', job'[v].of) # {}
    BY DEF ChangeReachesCommit, Lacks
  <2>1. CASE v = w
    BY <1>3, <1>4, <2>1, ListAssumption DEF Current
  <2>2. CASE v # w
    BY <1>1, <1>3, <1>4, <2>2, TwoProcs DEF IInv, ChangeReachesCommit, Lacks, At, Current
  <2>3. QED
    BY <2>1, <2>2
<1>10. ASSUME NEW v \in Windows, (fails = 0)', (mem[v] # Undefined)', ~WillSave(v)', ToBeClean(v)'
       PROVE  InFile(mem[v])'
  <2>1. v # w
    BY <1>1, <1>10 DEF WillSave, At
  <2>2. ~WillSave(v) /\ ToBeClean(v)
    BY <1>1, <1>3, <1>4, <1>10, <2>1, TwoProcs DEF WillSave, ToBeClean, Registering, Queued, At
  <2>3. QED
    BY <1>4, <1>10, <2>1, <2>2 DEF IInv, CleanIsSaved, InFile
<1>11. QED
  BY <1>5, <1>6, <1>7, <1>8, <1>9, <1>10, Parts

(* An edit that finds nothing to do. *)
LEMMA DropInv ==
  ASSUME IInv, NEW w \in Windows, At(w, "edit", "change"), job[w].kind # "register", Drop(w),
         UNCHANGED <<file, mem, dirty, snap, reg, tries, born, wiped, clock, edits, fails>>
  PROVE  IInv'
<1>1. /\ pc' \in [Windows -> [Procs -> Stages]] /\ pc'[w]["edit"] = "idle"
      /\ \A v \in Windows, q \in Procs : v # w \/ q # "edit" => pc'[v][q] = pc[v][q]
  BY GoesTo, TwoProcs DEF Drop, Stages
<1>2. /\ job' \in [Windows -> Jobs \cup {NoJob}]
      /\ \A v \in Windows : v # w => job'[v] = job[v]
  BY DEF Drop, IInv, TypeOK
<1>3. TypeOK'
  BY <1>1, <1>2 DEF IInv, TypeOK
<1>4. HasList' /\ JobsPast' /\ Attempts' /\ DirtyGuards' /\ SnapInFile'
  BY <1>1, <1>2, TwoProcs
  DEF IInv, HasList, JobsPast, Attempts, DirtyGuards, SnapInFile, InFile, At
<1>5. ChangeReachesCommit'
  BY <1>1, <1>2, TwoProcs DEF IInv, ChangeReachesCommit, At, Lacks, Current
<1>6. ASSUME NEW v \in Windows, (fails = 0)', (mem[v] # Undefined)', ~WillSave(v)', ToBeClean(v)'
      PROVE  InFile(mem[v])'
  <2>1. ~WillSave(v) /\ ToBeClean(v)
    BY <1>1, <1>2, <1>6, TwoProcs DEF WillSave, ToBeClean, Registering, Queued, At
  <2>2. QED
    BY <1>6, <2>1 DEF IInv, CleanIsSaved, InFile
<1>7. QED
  BY <1>3, <1>4, <1>5, <1>6, Parts

(* The list of an edit that changes it. *)
LEMMA ChangingTyped ==
  ASSUME IInv, NEW w \in Windows, At(w, "edit", "change")
  PROVE  /\ mem[w] \in Lists /\ Current(w) = mem[w]
         /\ job[w].of \in Sessions /\ 0 \in Times
         /\ clock \in Nat /\ 0 <= clock
         /\ born \in [Sessions -> 0..MaxRows]
<1>1. mem[w] \in Lists
  BY TwoProcs DEF IInv, HasList, At
<1>2. job[w].of \in Sessions
  BY DEF IInv, JobsPast, Jobs, At
<1>3. clock \in Nat /\ 0 <= clock /\ 0 \in Times
  BY TimesAreNumbers, ListAssumption DEF IInv, TypeOK, Times
<1>4. QED
  BY <1>1, <1>2, <1>3, CurrentTyped DEF IInv, TypeOK

LEMMA TouchInv ==
  ASSUME IInv, NEW w \in Windows, Touch(w)
  PROVE  IInv'
<1>1. /\ At(w, "edit", "change") /\ job[w].kind = "touch"
      /\ UNCHANGED <<file, snap, reg, tries, born, wiped, edits, fails>>
  BY DEF Touch
<1>2. PICK at \in Times : /\ Stamped(at) /\ Persist(w, at)
                          /\ Remember(w, Changed(mem[w], job[w].of, at))
  BY DEF Touch
<1>3. clock' \in Times /\ clock <= clock' /\ at <= clock'
  BY <1>1, <1>2, ChangingTyped, TimesAreNumbers DEF Stamped
<1>4. /\ Changed(mem[w], job[w].of, at) \in Lists
      /\ \A r \in RowsOf(Changed(mem[w], job[w].of, at), job[w].of) :
             Changed(mem[w], job[w].of, at)[r] = at
  BY <1>1, ChangingTyped, EditsTyped
<1>5. at >= at
  BY TimesAreNumbers
<1>6. QED
  BY <1>1, <1>2, <1>3, <1>4, <1>5, ChangingTyped, PersistInv

LEMMA CreateInv ==
  ASSUME IInv, NEW w \in Windows, Create(w)
  PROVE  IInv'
<1> DEFINE s == job[w].of
<1>1. /\ At(w, "edit", "change") /\ job[w].kind \in {"create", "register"}
      /\ UNCHANGED <<file, snap, reg, tries, wiped, edits, fails>>
  BY DEF Create
<1>2. CASE /\ Lacks(w, s) /\ born[s] < MaxRows
           /\ \E at \in Times : Stamped(at) /\ Persist(w, at) /\ Remember(w, With(mem[w], s, at))
           /\ born' = [born EXCEPT ![s] = @ + 1]
  <2>1. PICK at \in Times : Stamped(at) /\ Persist(w, at) /\ Remember(w, With(mem[w], s, at))
    BY <1>2
  <2>2. clock' \in Times /\ clock <= clock' /\ at <= clock'
    BY <1>1, <2>1, ChangingTyped, TimesAreNumbers DEF Stamped
  <2>3. born[s] \in Nat /\ born[s] < MaxRows /\ born' \in [Sessions -> 0..MaxRows]
    BY <1>1, <1>2, ChangingTyped, ListAssumption
  <2>4. With(mem[w], s, at) \in Lists /\ NewRow(s) \in DOMAIN With(mem[w], s, at)
    <3>1. mem[w] \in Lists /\ s \in Sessions
      BY <1>1, ChangingTyped
    <3>2. /\ With(mem[w], s, at) \in Lists
          /\ DOMAIN With(mem[w], s, at) = DOMAIN mem[w] \cup {NewRow(s)}
      BY <2>3, <3>1, WithTyped
    <3>3. QED
      BY <3>2
  <2>5. RowsOf(With(mem[w], s, at), s) # {}
    BY <2>4 DEF RowsOf, NewRow
  <2>6. QED
    BY <1>1, <2>1, <2>2, <2>3, <2>4, <2>5, PersistInv
<1>3. CASE ~Lacks(w, s) /\ job[w].kind = "create" /\ Drop(w) /\ UNCHANGED <<mem, dirty, born, clock>>
  BY <1>1, <1>3, DropInv
<1>4. CASE /\ ~Lacks(w, s) /\ job[w].kind = "register" /\ Persist(w, 0)
           /\ dirty' = [dirty EXCEPT ![w] = TRUE] /\ UNCHANGED <<mem, born, clock>>
  <2>1. Remember(w, mem[w])
    BY <1>4 DEF Remember, IInv, TypeOK
  <2>2. RowsOf(mem[w], s) # {}
    BY <1>1, <1>4, ChangingTyped DEF Lacks
  <2>3. clock' \in Times /\ clock <= clock' /\ 0 <= clock' /\ born' \in [Sessions -> 0..MaxRows]
    BY <1>1, <1>4, ChangingTyped DEF IInv, TypeOK
  <2>4. QED
    BY <1>1, <1>4, <2>1, <2>2, <2>3, ChangingTyped, PersistInv
<1>5. QED
  BY <1>2, <1>3, <1>4 DEF Create

LEMMA DeleteInv ==
  ASSUME IInv, NEW w \in Windows, Delete(w)
  PROVE  IInv'
<1>1. /\ At(w, "edit", "change") /\ job[w].kind \in {"delete", "purge"}
      /\ UNCHANGED <<file, snap, reg, tries, born, wiped, clock, edits, fails>>
  BY DEF Delete, Replaces
<1>2. CASE Drop(w) /\ UNCHANGED <<mem, dirty>>
  BY <1>1, <1>2, DropInv
<1>3. CASE Persist(w, 0) /\ Remember(w, Without(mem[w], job[w].of))
  <2>1. Without(mem[w], job[w].of) \in Lists
    BY <1>1, ChangingTyped, EditsTyped
  <2>2. clock' \in Times /\ clock <= clock' /\ 0 <= clock'
    BY <1>1, ChangingTyped DEF IInv, TypeOK
  <2>3. QED
    BY <1>1, <1>3, <2>1, <2>2, ChangingTyped, PersistInv
<1>4. QED
  BY <1>2, <1>3 DEF Delete

(* What is in the file stays there, or its session is known to be undone. *)
FileMoves ==
  /\ file' \in Lists /\ wiped \subseteq wiped' /\ wiped' \subseteq Sessions
  /\ \A r \in DOMAIN file : r[1] \in wiped' \/ (r \in DOMAIN file' /\ file'[r] >= file[r])

LEMMA StaysInFile ==
  ASSUME IInv, FileMoves, NEW l \in Lists, InFile(l)
  PROVE  \A r \in DOMAIN l : r[1] \in wiped' \/ (r \in DOMAIN file' /\ file'[r] >= l[r])
<1>1. /\ \A r \in DOMAIN l : l[r] \in Nat
      /\ \A r \in DOMAIN file : file[r] \in Nat
      /\ \A r \in DOMAIN file' : file'[r] \in Nat
  BY ListIs, TimesAreNumbers DEF IInv, TypeOK, FileMoves
<1>2. QED
  BY <1>1 DEF InFile, FileMoves

(* A transaction that has written what memory holds. *)
LEMMA CommittedInv ==
  ASSUME IInv, NEW w \in Windows, NEW p \in Procs, FileMoves,
         \/ At(w, p, "flush") /\ Goto(w, p, "flushed")
         \/ At(w, p, "commit") /\ Goto(w, p, "settle"),
         UNCHANGED <<mem, dirty, snap, job, reg, tries, born, clock, edits, fails>>,
         mem[w] \in Lists => \A r \in DOMAIN mem[w] : r \in DOMAIN file' /\ file'[r] >= mem[w][r]
  PROVE  IInv'
<1>1. PICK s \in {"flushed", "settle"} :
        /\ pc' \in [Windows -> [Procs -> Stages]] /\ pc'[w][p] = s
        /\ (pc[w][p] = "flush" /\ s = "flushed") \/ (pc[w][p] = "commit" /\ s = "settle")
        /\ \A v \in Windows, q \in Procs : v # w \/ q # p => pc'[v][q] = pc[v][q]
  <2>1. CASE At(w, p, "flush") /\ Goto(w, p, "flushed")
    BY <2>1, GoesTo DEF Stages, At
  <2>2. CASE At(w, p, "commit") /\ Goto(w, p, "settle")
    BY <2>2, GoesTo DEF Stages, At
  <2>3. QED
    BY <2>1, <2>2
<1>2. p = "reload" => pc[w][p] = "flush"
  BY <1>1 DEF IInv, JobsPast
<1>3. TypeOK'
  BY <1>1 DEF IInv, TypeOK, FileMoves
<1>4. HasList' /\ JobsPast' /\ Attempts' /\ DirtyGuards'
  BY <1>1, <1>2, TwoProcs DEF IInv, HasList, JobsPast, Attempts, DirtyGuards, At
<1>5. ChangeReachesCommit'
  BY <1>1, <1>2, TwoProcs DEF IInv, ChangeReachesCommit, At, Lacks, Current
<1>6. SnapInFile'
  <2> SUFFICES ASSUME NEW v \in Windows, NEW q \in Procs, At(v, q, "adopt")'
               PROVE  InFile(snap[v][q])'
    BY DEF SnapInFile
  <2>1. snap[v][q] \in Lists /\ InFile(snap[v][q])
    BY <1>1 DEF IInv, TypeOK, SnapInFile, At
  <2>2. QED
    BY <2>1, StaysInFile DEF InFile
<1>7. ASSUME NEW v \in Windows, (fails = 0)', (mem[v] # Undefined)', ~WillSave(v)', ToBeClean(v)'
      PROVE  InFile(mem[v])'
  <2>0. mem[v] \in Lists
    BY <1>7 DEF IInv, TypeOK
  <2>1. CASE v = w
    BY <2>0, <2>1 DEF InFile
  <2>2. CASE v # w
    <3>1. ~WillSave(v) /\ ToBeClean(v)
      BY <1>1, <1>7, <2>2, TwoProcs DEF WillSave, ToBeClean, Registering, Queued, At
    <3>2. InFile(mem[v])
      BY <1>7, <3>1 DEF IInv, CleanIsSaved
    <3>3. QED
      BY <2>0, <3>2, StaysInFile DEF InFile
  <2>3. QED
    BY <2>1, <2>2
<1>8. QED
  BY <1>3, <1>4, <1>5, <1>6, <1>7, Parts

LEMMA CommitInv ==
  ASSUME IInv, NEW w \in Windows, NEW p \in Procs, Commit(w, p)
  PROVE  IInv'
<1>1. /\ file' = Merged(file, Current(w))
      /\ UNCHANGED <<mem, dirty, snap, job, reg, tries, born, wiped, clock, edits, fails>>
      /\ wiped \subseteq Sessions /\ file \in Lists
  BY DEF Commit, IInv, TypeOK
<1>2. /\ Merged(file, Current(w)) \in Lists
      /\ DOMAIN Merged(file, Current(w)) = DOMAIN file \cup DOMAIN Current(w)
      /\ \A r \in DOMAIN file : Merged(file, Current(w))[r] >= file[r]
      /\ \A r \in DOMAIN Current(w) : Merged(file, Current(w))[r] >= Current(w)[r]
  BY <1>1, CurrentTyped, MergedCovers
<1>3. FileMoves
  BY <1>1, <1>2 DEF FileMoves
<1>4. mem[w] \in Lists => \A r \in DOMAIN mem[w] : r \in DOMAIN file' /\ file'[r] >= mem[w][r]
  BY <1>1, <1>2, CurrentTyped
<1>5. \/ At(w, p, "flush") /\ Goto(w, p, "flushed")
      \/ At(w, p, "commit") /\ Goto(w, p, "settle")
  BY DEF Commit
<1>6. QED
  BY <1>1, <1>3, <1>4, <1>5, CommittedInv

LEMMA CommitDeleteInv ==
  ASSUME IInv, NEW w \in Windows, CommitDelete(w)
  PROVE  IInv'
<1>1. /\ file' = Current(w) /\ At(w, "edit", "commit") /\ Goto(w, "edit", "settle")
      /\ UNCHANGED <<mem, dirty, snap, job, reg, tries, born, clock, edits, fails>>
      /\ wiped' = wiped \cup {r[1] : r \in {q \in DOMAIN file : q \notin DOMAIN file' \/ file'[q] < file[q]}}
  BY DEF CommitDelete
<1>2. /\ file \in Lists /\ file' \in Lists /\ wiped \subseteq Sessions
      /\ mem[w] \in Lists => file' = mem[w]
  BY <1>1, CurrentTyped DEF IInv, TypeOK
<1>3. /\ \A r \in DOMAIN file : file[r] \in Nat /\ r[1] \in Sessions
      /\ \A r \in DOMAIN file' : file'[r] \in Nat
  BY <1>2, ListIs, TimesAreNumbers DEF Rows
<1>4. FileMoves
  BY <1>1, <1>2, <1>3 DEF FileMoves
<1>5. mem[w] \in Lists => \A r \in DOMAIN mem[w] : r \in DOMAIN file' /\ file'[r] >= mem[w][r]
  BY <1>2, <1>3
<1>6. QED
  BY <1>1, <1>4, <1>5, CommittedInv, TwoProcs

(* Where persistConversations() returns to, and what it leaves of the edit. *)
LEMMA FinishIs ==
  ASSUME IInv, NEW w \in Windows, NEW p \in Procs, Finish(w, p), UNCHANGED tries
  PROVE  /\ pc' \in [Windows -> [Procs -> Stages]]
         /\ pc'[w][p] = IF p = "edit" /\ pc[w][p] \in {"flush", "flushed"} THEN "change" ELSE "idle"
         /\ pc[w][p] \in {"flush", "flushed", "commit", "settle"}
         /\ p = "reload" => pc[w][p] \in {"flush", "flushed"}
         /\ \A v \in Windows, q \in Procs : v # w \/ q # p => pc'[v][q] = pc[v][q]
         /\ job' \in [Windows -> Jobs \cup {NoJob}]
         /\ pc'[w]["edit"] # "idle" => job' = job
         /\ \A v \in Windows : v # w => job'[v] = job[v]
         /\ reg' \in [Sessions -> {"none", "queued", "active", "retry", "done"}]
         /\ Attempts'
         /\ \A x \in Sessions : reg[x] = "queued" => reg'[x] = "queued"
         /\ \A x \in Sessions : reg[x] = "active" /\ (Home[x] # w \/ pc'[w]["edit"] # "idle")
                                  => reg'[x] = "active"
<1>1. p \in {"edit", "reload"} /\ (p = "reload" => pc[w][p] \notin {"commit", "settle"})
  BY TwoProcs DEF IInv, JobsPast
<1>2. CASE /\ At(w, p, "flush") \/ At(w, p, "flushed")
           /\ Goto(w, p, Loaded(p)) /\ UNCHANGED <<job, reg>>
  <2>1. Loaded(p) \in Stages /\ Loaded(p) = IF p = "edit" THEN "change" ELSE "idle"
    BY DEF Loaded, Stages
  <2>2. QED
    BY <1>1, <1>2, <2>1, GoesTo DEF At, IInv, TypeOK, Attempts
<1>3. CASE /\ At(w, p, "commit") \/ At(w, p, "settle")
           /\ Drop(w)
           /\ LET s == job[w].of IN
              reg' = IF job[w].kind = "register"
                     THEN [reg EXCEPT ![s] = IF Lacks(w, s) /\ tries[s] < 3 THEN "retry" ELSE "done"]
                     ELSE reg
  <2>1. p = "edit" /\ pc[w]["edit"] \in {"commit", "settle"}
    BY <1>1, <1>3 DEF At
  <2>2. /\ pc' \in [Windows -> [Procs -> Stages]] /\ pc'[w]["edit"] = "idle"
        /\ \A v \in Windows, q \in Procs : v # w \/ q # "edit" => pc'[v][q] = pc[v][q]
    BY <1>3, GoesTo, TwoProcs DEF Drop, Stages
  <2>3. /\ job' \in [Windows -> Jobs \cup {NoJob}]
        /\ \A v \in Windows : v # w => job'[v] = job[v]
    BY <1>3 DEF Drop, IInv, TypeOK
  <2>4. /\ reg' \in [Sessions -> {"none", "queued", "active", "retry", "done"}]
        /\ Attempts'
        /\ \A x \in Sessions : reg[x] = "queued" => reg'[x] = "queued"
        /\ \A x \in Sessions : reg[x] = "active" /\ Home[x] # w => reg'[x] = "active"
    <3>1. CASE job[w].kind # "register"
      BY <1>3, <3>1 DEF IInv, TypeOK, Attempts
    <3>2. CASE job[w].kind = "register"
      <4> DEFINE s == job[w].of
      <4>1. reg[s] = "active" /\ Home[s] = w /\ s \in Sessions
        BY <2>1, <3>2 DEF IInv, JobsPast, Jobs
      <4>2. PICK y \in {"retry", "done"} : /\ reg' = [reg EXCEPT ![s] = y]
                                           /\ y = "retry" => tries[s] < 3
        BY <1>3, <3>2
      <4>3. QED
        BY <4>1, <4>2 DEF IInv, TypeOK, Attempts
    <3>3. QED
      BY <3>1, <3>2
  <2>5. QED
    BY <2>1, <2>2, <2>3, <2>4
<1>4. QED
  BY <1>2, <1>3 DEF Finish

(* persistConversations() returns: the list may have become clean. *)
LEMMA FinishInv ==
  ASSUME IInv, NEW w \in Windows, NEW p \in Procs, Finish(w, p),
         UNCHANGED <<file, mem, snap, tries, born, wiped, clock, edits>>,
         fails' \in Nat, edits + fails' <= MaxEvents,
         \/ /\ dirty' = dirty /\ fails' # 0
         \/ /\ dirty' = [dirty EXCEPT ![w] = FALSE] /\ fails' = fails
            /\ pc[w][p] \in {"flushed", "settle"}
  PROVE  IInv'
<1>1. /\ pc' \in [Windows -> [Procs -> Stages]]
      /\ pc'[w][p] = IF p = "edit" /\ pc[w][p] \in {"flush", "flushed"} THEN "change" ELSE "idle"
      /\ pc[w][p] \in {"flush", "flushed", "commit", "settle"}
      /\ p = "reload" => pc[w][p] \in {"flush", "flushed"}
      /\ \A v \in Windows, q \in Procs : v # w \/ q # p => pc'[v][q] = pc[v][q]
  BY FinishIs
<1>2. /\ job' \in [Windows -> Jobs \cup {NoJob}]
      /\ pc'[w]["edit"] # "idle" => job' = job
      /\ \A v \in Windows : v # w => job'[v] = job[v]
  BY FinishIs
<1>3. /\ reg' \in [Sessions -> {"none", "queued", "active", "retry", "done"}]
      /\ Attempts'
      /\ \A x \in Sessions : reg[x] = "queued" => reg'[x] = "queued"
      /\ \A x \in Sessions : reg[x] = "active" /\ (Home[x] # w \/ pc'[w]["edit"] # "idle")
                               => reg'[x] = "active"
  BY FinishIs
<1>4. dirty' \in [Windows -> BOOLEAN] /\ \A v \in Windows : dirty'[v] => dirty[v]
  BY DEF IInv, TypeOK
<1>5. TypeOK'
  BY <1>1, <1>2, <1>3, <1>4 DEF IInv, TypeOK
<1>6. HasList'
  BY <1>1, <1>4, TwoProcs DEF IInv, HasList
<1>7. JobsPast'
  <2>1. \A v \in Windows : job[v] \in Jobs => job[v].of \in Sessions
    BY DEF Jobs
  <2> SUFFICES ASSUME NEW v \in Windows
               PROVE  /\ pc'[v]["edit"] # "idle" =>
                            /\ job'[v] \in Jobs /\ job'[v].at <= clock
                            /\ job'[v].kind = "register" => reg'[job'[v].of] = "active" /\ Home[job'[v].of] = v
                      /\ pc'[v]["reload"] \in {"idle", "read", "adopt", "flush", "flushed"}
    BY DEF JobsPast
  <2>2. pc'[v]["reload"] \in {"idle", "read", "adopt", "flush", "flushed"}
    BY <1>1, TwoProcs DEF IInv, JobsPast
  <2>3. ASSUME pc'[v]["edit"] # "idle"
        PROVE  job'[v] = job[v] /\ pc[v]["edit"] # "idle"
    BY <1>1, <1>2, <2>3, TwoProcs
  <2>4. QED
    BY <1>3, <2>1, <2>2, <2>3 DEF IInv, JobsPast
<1>8. DirtyGuards'
  <2> SUFFICES ASSUME NEW v \in Windows, At(v, "edit", "commit")', pc'[v]["reload"] \in {"read", "adopt"}
               PROVE  dirty'[v]
    BY DEF DirtyGuards
  <2>1. At(v, "edit", "commit") /\ pc[v]["reload"] \in {"read", "adopt"} /\ v # w
    BY <1>1, TwoProcs DEF At
  <2>2. dirty[v] /\ dirty'[v] = dirty[v]
    BY <2>1 DEF IInv, DirtyGuards, TypeOK
  <2>3. QED
    BY <2>2
<1>9. ChangeReachesCommit'
  <2>1. \A v \in Windows : At(v, "edit", "commit")' => At(v, "edit", "commit") /\ job'[v] = job[v]
    BY <1>1, <1>2, TwoProcs DEF At
  <2>2. QED
    BY <2>1 DEF IInv, ChangeReachesCommit, Lacks, Current
<1>10. SnapInFile'
  BY <1>1, TwoProcs DEF IInv, SnapInFile, InFile, At
<1>11. ASSUME NEW v \in Windows, (fails = 0)', (mem[v] # Undefined)', ~WillSave(v)', ToBeClean(v)'
       PROVE  InFile(mem[v])'
  <2>1. fails = 0 /\ dirty' = [dirty EXCEPT ![w] = FALSE] /\ pc[w][p] \in {"flushed", "settle"}
    BY <1>11
  <2>2. Queued(v) => Queued(v)'
    BY <1>3 DEF Queued
  <2>3. Registering(v) => Registering(v)'
    BY <1>1, <1>2, <2>1, TwoProcs DEF Registering
  <2>4. ~WillSave(v)
    BY <1>1, <1>11, <2>1, <2>2, <2>3, TwoProcs DEF WillSave, At
  <2>5. ToBeClean(v)
    <3>1. CASE v = w
      BY <1>1, <2>1, <3>1, TwoProcs DEF ToBeClean, At
    <3>2. CASE v # w
      BY <1>1, <1>11, <2>1, <3>2, TwoProcs DEF ToBeClean, At, IInv, TypeOK
    <3>3. QED
      BY <3>1, <3>2
  <2>6. QED
    BY <1>11, <2>1, <2>4, <2>5 DEF IInv, CleanIsSaved, InFile
<1>12. QED
  BY <1>3, <1>5, <1>6, <1>7, <1>8, <1>9, <1>10, <1>11, Parts

LEMMA SettleInv ==
  ASSUME IInv, NEW w \in Windows, NEW p \in Procs, Settle(w, p)
  PROVE  IInv'
<1>1. /\ Finish(w, p) /\ pc[w][p] \in {"flushed", "settle"}
      /\ dirty' = [dirty EXCEPT ![w] = FALSE]
      /\ UNCHANGED <<file, mem, snap, tries, born, wiped, clock, edits, fails>>
  BY DEF Settle, At
<1>2. fails' \in Nat /\ edits + fails' <= MaxEvents
  BY <1>1 DEF IInv, TypeOK
<1>3. QED
  BY <1>1, <1>2, FinishInv

LEMMA CommitFailsInv ==
  ASSUME IInv, NEW w \in Windows, NEW p \in Procs, CommitFails(w, p)
  PROVE  IInv'
<1>1. /\ Finish(w, p) /\ fails' = fails + 1 /\ edits + fails < MaxEvents
      /\ UNCHANGED <<file, mem, dirty, snap, tries, born, wiped, clock, edits>>
  BY DEF CommitFails, Fails
<1>2. fails' \in Nat /\ edits + fails' <= MaxEvents /\ fails' # 0
  BY <1>1, ListAssumption DEF IInv, TypeOK
<1>3. QED
  BY <1>1, <1>2, FinishInv

LEMMA NextInv == IInv /\ [Next]_vars => IInv'
<1> SUFFICES ASSUME IInv, [Next]_vars PROVE IInv'
  OBVIOUS
<1>1. ASSUME NEW w \in Windows, StartReload(w) PROVE IInv'
  BY <1>1, StartReloadInv
<1>2. ASSUME NEW w \in Windows, Change(w) PROVE IInv'
  BY <1>2, TouchInv, CreateInv, DeleteInv, CommitDeleteInv DEF Change
<1>3. ASSUME NEW w \in Windows, NEW p \in Procs, Read(w, p) \/ Adopt(w, p) PROVE IInv'
  BY <1>3, ReadInv, AdoptInv
<1>4. ASSUME NEW w \in Windows, NEW p \in Procs, Write(w, p) PROVE IInv'
  BY <1>4, CommitInv, CommitFailsInv, SettleInv DEF Write
<1>5. ASSUME NEW w \in Windows, NEW kind \in Kinds, NEW s \in Sessions, StartEdit(w, kind, s)
      PROVE  IInv'
  BY <1>5, StartEditInv
<1>6. ASSUME NEW s \in Sessions, Attach(s) \/ StartRegister(s) PROVE IInv'
  BY <1>6, AttachInv, StartRegisterInv
<1>7. CASE UNCHANGED vars
  BY <1>7 DEF vars, IInv, TypeOK, HasList, JobsPast, Attempts, DirtyGuards, ChangeReachesCommit,
              SnapInFile, InFile, CleanIsSaved, WillSave, ToBeClean, Registering, Queued,
              At, Lacks, Current
<1>8. QED
  BY <1>1, <1>2, <1>3, <1>4, <1>5, <1>6, <1>7 DEF Next

LEMMA Invariant == Spec => []IInv
<1>1. Spec => Init /\ [][Next]_vars
  BY PTL DEF Spec
<1>2. QED
  BY <1>1, InitInv, NextInv, PTL

(* Lists, edits and registrations have their types. *)
THEOREM RailTyped == Spec => []TypeOK
<1>1. IInv => TypeOK
  BY InvImplies
<1>2. QED
  BY <1>1, Invariant, PTL

(* No load takes the change of an edit out of memory before it is saved. *)
THEOREM EditsReachTheirSave == Spec => []ChangeReachesCommit
<1>1. IInv => ChangeReachesCommit
  BY InvImplies
<1>2. QED
  BY <1>1, Invariant, PTL

(* A list at rest that does not count as dirty is in the file. *)
THEOREM CleanListsAreSaved == Spec => []SavedWhenClean
<1>1. IInv => SavedWhenClean
  BY InvImplies
<1>2. QED
  BY <1>1, Invariant, PTL
=============================================================================
