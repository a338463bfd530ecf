------------------------ MODULE SubagentInboxProofs ------------------------
(***************************************************************************)
(* For any number of children, turns, crashes and failures: the inbox and  *)
(* the histories are typed, no result is told twice, and an entry becomes  *)
(* delivered only while the saved history has the child's marker.  The     *)
(* argument: the content under construction never repeats the history in   *)
(* memory, and what is being confirmed was read off a history just saved.  *)
(***************************************************************************)
EXTENDS SubagentInbox, TLAPS

(* No two messages of a history carry a marker of one child. *)
Once(t) == \A i, j \in DOMAIN t : i # j => t[i] \cap t[j] = {}

(* There is room for the message that a resumed parent, or the next turn, will add. *)
Room == phase \in {"dispatch", "content", "waitChildren"}
          \/ (phase \in {"saving", "confirm"} /\ next = "waitChildren")
        => Len(mem.turns) < MaxTurns

(* Only a history with messages waits for an answer; nothing is said before the report. *)
Opened == /\ mem.open = TRUE => Len(mem.turns) > 0
          /\ saved.open = TRUE => Len(saved.turns) > 0
          /\ phase = "dispatch" => mem = Dispatched /\ content = {}

(* What is being confirmed is in the history that was saved last. *)
Confirming == /\ todo \subseteq Markers(saved)
              /\ marking \in todo \cup {Nobody}
              /\ phase # "confirm" => todo = {}

IInv == TypeOK /\ AtMostOnce /\ Room /\ Opened /\ Confirming

-----------------------------------------------------------------------------
(* Histories *)

LEMMA BoundedSeqIs ==
  ASSUME NEW S, NEW n \in Nat, NEW s
  PROVE  s \in BoundedSeq(S, n) <=> s \in Seq(S) /\ Len(s) <= n
<1>1. BoundedSeq(S, n) = UNION {[1..m -> S] : m \in 0..n}
  BY DEF BoundedSeq, SeqOf
<1>2. ASSUME s \in Seq(S), Len(s) <= n PROVE s \in UNION {[1..m -> S] : m \in 0..n}
  <2>1. Len(s) \in 0..n /\ s \in [1..Len(s) -> S]
    BY <1>2
  <2>2. QED
    BY <2>1
<1>3. ASSUME s \in UNION {[1..m -> S] : m \in 0..n} PROVE s \in Seq(S) /\ Len(s) <= n
  <2>1. PICK m \in 0..n : s \in [1..m -> S]
    BY <1>3
  <2>2. QED
    BY <2>1
<1>4. QED
  BY <1>1, <1>2, <1>3

LEMMA HistoryHas ==
  ASSUME NEW h \in Histories
  PROVE  /\ h.turns \in Seq(SUBSET Children) /\ Len(h.turns) <= MaxTurns
         /\ h.open \in BOOLEAN /\ Markers(h) \subseteq Children
<1>1. h.turns \in BoundedSeq(SUBSET Children, MaxTurns) /\ h.open \in BOOLEAN
  BY DEF Histories
<1>2. h.turns \in Seq(SUBSET Children) /\ Len(h.turns) <= MaxTurns
  BY <1>1, BoundedSeqIs, InboxAssumption
<1>3. Markers(h) \subseteq Children
  BY <1>2 DEF Markers, Range
<1>4. QED
  BY <1>1, <1>2, <1>3

LEMMA HistoryIs ==
  ASSUME NEW t \in Seq(SUBSET Children), Len(t) <= MaxTurns, NEW b \in BOOLEAN
  PROVE  [turns |-> t, open |-> b] \in Histories
<1>1. t \in BoundedSeq(SUBSET Children, MaxTurns)
  BY BoundedSeqIs, InboxAssumption
<1>2. QED
  BY <1>1 DEF Histories

LEMMA NothingSaid ==
  /\ Dispatched \in Histories /\ Len(Dispatched.turns) = 0 /\ Dispatched.open = FALSE
  /\ Markers(Dispatched) = {} /\ Once(Dispatched.turns)
<1>1. << >> \in Seq(SUBSET Children) /\ Len(<< >>) <= MaxTurns
  BY InboxAssumption
<1>2. Dispatched \in Histories
  BY <1>1, HistoryIs DEF Dispatched
<1>3. QED
  BY <1>2 DEF Dispatched, Markers, Once, Range

LEMMA MessageAdded ==
  ASSUME NEW h \in Histories, NEW x \in SUBSET Children, Len(h.turns) < MaxTurns,
         Once(h.turns), x \cap Markers(h) = {}
  PROVE  /\ [turns |-> Append(h.turns, x), open |-> TRUE] \in Histories
         /\ Len(Append(h.turns, x)) > 0 /\ Once(Append(h.turns, x))
<1> DEFINE t == h.turns
<1>1. t \in Seq(SUBSET Children)
  BY HistoryHas
<1>2. /\ Append(t, x) \in Seq(SUBSET Children) /\ Len(Append(t, x)) = Len(t) + 1
      /\ DOMAIN Append(t, x) = 1..(Len(t) + 1) /\ DOMAIN t = 1..Len(t)
      /\ Append(t, x)[Len(t) + 1] = x /\ \A i \in 1..Len(t) : Append(t, x)[i] = t[i]
  BY <1>1
<1>3. \A i \in 1..Len(t) : x \cap t[i] = {}
  BY <1>1 DEF Markers, Range
<1>4. Once(Append(t, x))
  BY <1>1, <1>2, <1>3 DEF Once
<1>5. Len(Append(t, x)) <= MaxTurns /\ Len(Append(t, x)) > 0
  <2>1. Len(t) \in Nat /\ MaxTurns \in Nat /\ Len(t) < MaxTurns
    BY <1>1, InboxAssumption
  <2>2. QED
    BY <1>2, <2>1
<1>6. [turns |-> Append(t, x), open |-> TRUE] \in Histories
  BY <1>2, <1>5, HistoryIs
<1>7. QED
  BY <1>4, <1>5, <1>6

LEMMA MessageTaken ==
  ASSUME NEW h \in Histories, Len(h.turns) > 0, Once(h.turns)
  PROVE  /\ [turns |-> Front(h.turns), open |-> FALSE] \in Histories
         /\ Len(Front(h.turns)) < MaxTurns /\ Once(Front(h.turns))
         /\ Last(h.turns) \subseteq Children
         /\ Last(h.turns) \cap (UNION Range(Front(h.turns))) = {}
<1> DEFINE t == h.turns
           n == Len(t)
<1>1. t \in Seq(SUBSET Children) /\ n <= MaxTurns /\ n \in Nat \ {0} /\ DOMAIN t = 1..n
  BY HistoryHas
<1>2. /\ Front(t) \in Seq(SUBSET Children) /\ Len(Front(t)) = n - 1
      /\ DOMAIN Front(t) = 1..(n - 1) /\ \A i \in 1..(n - 1) : Front(t)[i] = t[i]
  BY <1>1 DEF Front
<1>3. Once(Front(t)) /\ \A i \in 1..(n - 1) : t[n] \cap t[i] = {}
  <2>1. \A i, j \in 1..n : i # j => t[i] \cap t[j] = {}
    BY <1>1 DEF Once
  <2>2. 1..(n - 1) \subseteq 1..n /\ n \in 1..n /\ n \notin 1..(n - 1)
    BY <1>1
  <2>3. \A i, j \in 1..(n - 1) : i # j => Front(t)[i] \cap Front(t)[j] = {}
    BY <1>2, <2>1, <2>2
  <2>4. QED
    BY <1>2, <2>1, <2>2, <2>3 DEF Once
<1>4. t[n] \cap (UNION Range(Front(t))) = {}
  BY <1>2, <1>3 DEF Range
<1>5. Len(Front(t)) < MaxTurns /\ Len(Front(t)) <= MaxTurns
  BY <1>1, <1>2, InboxAssumption
<1>6. [turns |-> Front(t), open |-> FALSE] \in Histories
  BY <1>2, <1>5, HistoryIs
<1>7. t[n] \subseteq Children
  BY <1>1
<1>8. QED
  BY <1>3, <1>4, <1>5, <1>6, <1>7 DEF Last

-----------------------------------------------------------------------------
(* The invariant *)

(* The files and the writers of the children are typed ... *)
ChildrenOK == /\ entry \in [Children -> {"absent", "pending", "delivered"}]
              /\ finished \subseteq Children /\ done \subseteq Children
              /\ chain \in [Children -> {"run", "write", "over"}]
              /\ other \in [Children -> {"idle", "write"}]

(* ... and the parent, with all that is said of its histories. *)
ParentOK == /\ phase \in {"dispatch", "content", "saving", "confirm", "model", "turn",
                          "waitChildren", "off"}
            /\ next \in {"model", "turn", "waitChildren"}
            /\ phase = "off" => content = {}
            /\ Room

HistoryOK == /\ content \subseteq Children /\ mem \in Histories /\ saved \in Histories
             /\ Once(mem.turns) /\ Once(saved.turns) /\ content \cap Markers(mem) = {}
             /\ Opened

ConfirmOK == Confirming /\ todo \subseteq Children /\ marking \in Children \cup {Nobody}

LEMMA Parts == IInv <=> ChildrenOK /\ ParentOK /\ HistoryOK /\ ConfirmOK
<1>1. AtMostOnce <=> Once(mem.turns) /\ Once(saved.turns) /\ content \cap Markers(mem) = {}
  BY DEF AtMostOnce, Once
<1>2. Confirming /\ phase = "off" => marking = Nobody
  BY DEF Confirming
<1>3. QED
  BY <1>1, <1>2 DEF IInv, TypeOK, ChildrenOK, ParentOK, HistoryOK, ConfirmOK

LEMMA InitInv == Init => IInv
<1> SUFFICES ASSUME Init PROVE IInv
  OBVIOUS
<1>1. ChildrenOK /\ ConfirmOK
  BY NothingSaid DEF Init, ChildrenOK, ConfirmOK, Confirming
<1>2. ParentOK /\ HistoryOK
  BY NothingSaid, InboxAssumption DEF Init, ParentOK, HistoryOK, Room, Opened
<1>3. QED
  BY <1>1, <1>2, Parts

LEMMA ChildrenStep ==
  ASSUME IInv, [Next]_vars
  PROVE  ChildrenOK'
<1> USE DEF childVars, confirmVars, boundVars
<1>1. ChildrenOK /\ ConfirmOK
  BY Parts
<1>2. CASE UNCHANGED childVars
  BY <1>1, <1>2 DEF ChildrenOK
<1>3. ASSUME NEW c \in Children, Finish(c) \/ ForceSettle(c) PROVE ChildrenOK'
  BY <1>1, <1>3 DEF Finish, ForceSettle, ChildrenOK
<1>4. ASSUME NEW c \in Children, ChainRead(c) PROVE ChildrenOK'
  BY <1>1, <1>4 DEF ChainRead, ChildrenOK
<1>5. ASSUME NEW c \in Children, ChainWrite(c) PROVE ChildrenOK'
  BY <1>1, <1>5 DEF ChainWrite, Persisted, ChildrenOK
<1>6. ASSUME NEW c \in Children, OtherRead(c) \/ OtherWrite(c) PROVE ChildrenOK'
  BY <1>1, <1>6 DEF OtherRead, OtherWrite, Persisted, ChildrenOK
<1>7. CASE MarkWrite
  BY <1>1, <1>7 DEF MarkWrite, ChildrenOK, ConfirmOK
<1>8. CASE Crash
  BY <1>1, <1>8 DEF Crash, ChildrenOK
<1>9. CASE \/ Report \/ AddUserMessage \/ AddAssistantMessage \/ NextTurn \/ Save \/ SaveFails
           \/ MarkFails \/ Confirmed \/ Stop \/ Resume \/ Inject \/ UNCHANGED vars
           \/ \E c \in Children : MarkRead(c)
  BY <1>2, <1>9 DEF Report, AddUserMessage, AddAssistantMessage, NextTurn, Save, SaveFails,
     MarkFails, Confirmed, Stop, Resume, Inject, MarkRead, vars
<1>10. QED
  BY <1>3, <1>4, <1>5, <1>6, <1>7, <1>8, <1>9 DEF Next, ParentStep, ChildStep

(* What is said: no step puts a marker where there is one. *)
LEMMA HistoryStep ==
  ASSUME IInv, [Next]_vars
  PROVE  HistoryOK'
<1>1. ParentOK /\ HistoryOK
  BY Parts
<1>2. CASE UNCHANGED <<content, mem, saved>> /\ (phase' = "dispatch" => phase = "dispatch")
  BY <1>1, <1>2 DEF HistoryOK, Opened
<1>3. CASE Report
  <2>1. mem' = mem /\ saved' = saved /\ content' = Children /\ phase' = "content"
        /\ mem = Dispatched
    BY <1>1, <1>3 DEF Report, HistoryOK, Opened
  <2>2. QED
    BY <1>1, <2>1, NothingSaid DEF HistoryOK, Opened
<1>4. CASE AddUserMessage
  <2>1. /\ mem' = [turns |-> Append(mem.turns, content), open |-> TRUE]
        /\ content' = {} /\ phase' = "saving" /\ saved' = saved
    BY <1>4 DEF AddUserMessage, SaveThen
  <2>2. Len(mem.turns) < MaxTurns
    BY <1>1, <1>4 DEF AddUserMessage, ParentOK, Room
  <2>3. mem' \in Histories /\ Len(mem'.turns) > 0 /\ Once(mem'.turns)
    BY <1>1, <2>1, <2>2, MessageAdded DEF HistoryOK
  <2>4. QED
    BY <1>1, <2>1, <2>3 DEF HistoryOK, Opened
<1>5. CASE AddAssistantMessage
  <2>1. mem' = [turns |-> mem.turns, open |-> FALSE]
    BY <1>1, <1>5 DEF AddAssistantMessage, HistoryOK, Histories
  <2>2. mem' \in Histories /\ Markers(mem') = Markers(mem) /\ Once(mem'.turns)
    BY <1>1, <2>1, HistoryHas, HistoryIs DEF HistoryOK, Markers
  <2>3. QED
    BY <1>1, <1>5, <2>1, <2>2 DEF AddAssistantMessage, SaveThen, HistoryOK, Opened
<1>6. CASE Save
  BY <1>1, <1>6 DEF Save, HistoryOK, Opened
<1>7. CASE Stop \/ Crash
  <2>1. mem' = Dispatched /\ content' = {} /\ saved' = saved /\ phase' = "off"
    BY <1>7 DEF Stop, Crash, Off
  <2>2. QED
    BY <1>1, <2>1, NothingSaid DEF HistoryOK, Opened
<1>8. CASE Resume
  <2>1. phase' = "saving" /\ saved' = saved
    BY <1>8 DEF Resume, SaveThen
  <2>2. CASE saved.open = TRUE
    <3>1. mem' = [turns |-> Front(saved.turns), open |-> FALSE]
          /\ content' = Last(saved.turns)
      BY <1>8, <2>2 DEF Resume
    <3>2. /\ mem' \in Histories /\ Once(mem'.turns) /\ content' \subseteq Children
          /\ content' \cap Markers(mem') = {}
      BY <1>1, <2>2, <3>1, MessageTaken DEF HistoryOK, Opened, Markers
    <3>3. QED
      BY <1>1, <2>1, <3>1, <3>2 DEF HistoryOK, Opened
  <2>3. CASE saved.open = FALSE
    BY <1>1, <1>8, <2>1, <2>3 DEF Resume, HistoryOK, Opened
  <2>4. QED
    BY <1>1, <2>2, <2>3, HistoryHas DEF HistoryOK
<1>9. CASE Inject
  <2>1. Undelivered \subseteq Children /\ Undelivered \cap Markers(mem) = {}
    BY DEF Undelivered, ShouldRedeliver
  <2>2. mem' = mem /\ saved' = saved /\ content' = content \cup Undelivered
        /\ phase' = "content"
    BY <1>9 DEF Inject
  <2>3. QED
    BY <1>1, <2>1, <2>2 DEF HistoryOK, Opened
<1>10. CASE \/ NextTurn \/ SaveFails \/ MarkWrite \/ MarkFails \/ Confirmed \/ UNCHANGED vars
            \/ \E c \in Children : MarkRead(c) \/ ChildStep(c)
  BY <1>1, <1>2, <1>10 DEF NextTurn, SaveFails, AfterFailedSave, MarkWrite, MarkFails, Confirmed,
     MarkRead, ChildStep, Finish, ForceSettle, ChainRead, ChainWrite, OtherRead, OtherWrite, vars,
     ParentOK
<1>11. QED
  BY <1>3, <1>4, <1>5, <1>6, <1>7, <1>8, <1>9, <1>10 DEF Next, ParentStep

(* Where the parent is, and that its next message fits. *)
LEMMA ParentStays ==
  ASSUME IInv, [Next]_vars
  PROVE  ParentOK'
<1>1. ParentOK /\ HistoryOK
  BY Parts
<1>2. CASE UNCHANGED <<phase, next, content, mem>>
  BY <1>1, <1>2 DEF ParentOK, Room
<1>3. CASE Report \/ AddUserMessage \/ AddAssistantMessage \/ NextTurn \/ Inject
  BY <1>1, <1>3 DEF Report, AddUserMessage, AddAssistantMessage, NextTurn, Inject, SaveThen,
     ParentOK, Room
<1>4. CASE Save \/ SaveFails \/ Confirmed
  BY <1>1, <1>4 DEF Save, SaveFails, AfterFailedSave, Confirmed, ParentOK, Room
<1>5. CASE Stop \/ Crash
  BY <1>1, <1>5 DEF Stop, Crash, Off, ParentOK, Room
<1>6. CASE Resume
  <2>1. phase' = "saving" /\ next' = "waitChildren"
    BY <1>6 DEF Resume, SaveThen
  <2>2. CASE saved.open = TRUE
    <3>1. mem'.turns = Front(saved.turns)
      BY <1>6, <2>2 DEF Resume
    <3>2. Len(Front(saved.turns)) < MaxTurns
      BY <1>1, <2>2, MessageTaken DEF HistoryOK, Opened
    <3>3. QED
      BY <2>1, <3>1, <3>2 DEF ParentOK, Room
  <2>3. CASE saved.open = FALSE
    BY <1>6, <2>1, <2>3 DEF Resume, ParentOK, Room
  <2>4. QED
    BY <1>1, <2>2, <2>3, HistoryHas DEF HistoryOK
<1>7. CASE \/ MarkWrite \/ MarkFails \/ UNCHANGED vars
           \/ \E c \in Children : MarkRead(c) \/ ChildStep(c)
  BY <1>2, <1>7 DEF MarkWrite, MarkFails, MarkRead, ChildStep, Finish, ForceSettle, ChainRead,
     ChainWrite, OtherRead, OtherWrite, vars
<1>8. QED
  BY <1>3, <1>4, <1>5, <1>6, <1>7 DEF Next, ParentStep

(* What is confirmed is in the saved history. *)
LEMMA ConfirmStep ==
  ASSUME IInv, [Next]_vars
  PROVE  ConfirmOK'
<1> USE InboxAssumption DEF confirmVars
<1>1. ConfirmOK /\ HistoryOK
  BY Parts
<1>2. CASE /\ UNCHANGED <<todo, marking, saved>>
           /\ phase = "confirm" /\ phase' # "confirm" => todo = {}
  BY <1>1, <1>2 DEF ConfirmOK, Confirming
<1>3. CASE Save
  <2>1. /\ saved' = mem /\ phase = "saving" /\ marking' = marking
        /\ phase' = "confirm"
        /\ todo' = {c \in Children : entry[c] = "pending" /\ c \in Markers(mem)}
    BY <1>3 DEF Save
  <2>2. Markers(saved)' = Markers(mem)
    BY <2>1 DEF Markers
  <2>3. QED
    BY <1>1, <2>1, <2>2 DEF ConfirmOK, Confirming
<1>4. ASSUME NEW c \in Children, MarkRead(c) PROVE ConfirmOK'
  BY <1>1, <1>4 DEF MarkRead, ConfirmOK, Confirming, Markers
<1>5. CASE MarkWrite
  <2>1. todo' = todo \ {marking} /\ marking' = Nobody /\ UNCHANGED <<saved, phase>>
    BY <1>5 DEF MarkWrite
  <2>2. QED
    BY <1>1, <2>1 DEF ConfirmOK, Confirming, Markers
<1>6. CASE MarkFails \/ Stop \/ Crash
  <2>1. todo' = {} /\ marking' = Nobody
    BY <1>6 DEF MarkFails, Stop, Crash, Off
  <2>2. QED
    BY <2>1 DEF ConfirmOK, Confirming
<1>7. CASE \/ Report \/ AddUserMessage \/ AddAssistantMessage \/ NextTurn \/ SaveFails
           \/ Confirmed \/ Resume \/ Inject \/ UNCHANGED vars
           \/ \E c \in Children : ChildStep(c)
  <2>1. UNCHANGED <<todo, marking, saved>>
    BY <1>7 DEF Report, AddUserMessage, AddAssistantMessage, NextTurn, SaveFails, AfterFailedSave,
       Confirmed, Resume, Inject, vars, ChildStep, Finish, ForceSettle, ChainRead, ChainWrite,
       OtherRead, OtherWrite
  <2>2. phase = "confirm" /\ phase' # "confirm" => todo = {}
    BY <1>7 DEF Report, AddUserMessage, AddAssistantMessage, NextTurn, SaveFails, Confirmed,
       Resume, Inject, vars, ChildStep, Finish, ForceSettle, ChainRead, ChainWrite, OtherRead,
       OtherWrite
  <2>3. QED
    BY <1>1, <2>1, <2>2 DEF ConfirmOK, Confirming, Markers
<1>8. QED
  BY <1>3, <1>4, <1>5, <1>6, <1>7 DEF Next, ParentStep

LEMMA Invariance == Spec => []IInv
<1>1. IInv /\ [Next]_vars => IInv'
  <2>1. ASSUME IInv, [Next]_vars PROVE (ChildrenOK /\ ParentOK /\ HistoryOK /\ ConfirmOK)'
    BY <2>1, ChildrenStep, ParentStays, HistoryStep, ConfirmStep
  <2>2. (ChildrenOK /\ ParentOK /\ HistoryOK /\ ConfirmOK)' => IInv'
    BY Parts, PTL
  <2>3. QED
    BY <2>1, <2>2
<1>2. QED
  BY InitInv, <1>1, PTL DEF Spec

(* Histories, content, inbox files and confirmations keep to their types. *)
THEOREM InboxTyped == Spec => []TypeOK
BY Invariance, PTL DEF IInv

(* The model is told each child's result at most once, whatever is stopped, crashes, fails
   or is written late. *)
THEOREM ToldOnce == Spec => []AtMostOnce
BY Invariance, PTL DEF IInv

(* "Mark inbox delivered only after API history with the inbox marker is on disk" (Task.ts):
   an entry becomes delivered only while the saved history has the child's marker. *)
THEOREM OnlyFromDisk == Spec => ConfirmedOnlyFromDisk
<1>1. ASSUME IInv, [Next]_vars, NEW c \in Children, entry[c] # "delivered",
             entry'[c] = "delivered"
      PROVE  c \in Markers(saved)
  <2>0. ChildrenOK /\ ConfirmOK
    BY <1>1, Parts
  <2>1. CASE MarkWrite
    BY <1>1, <2>0, <2>1 DEF MarkWrite, ChildrenOK, ConfirmOK, Confirming
  <2>2. CASE entry' = entry
    BY <1>1, <2>2
  <2>3. ASSUME NEW d \in Children, ChainWrite(d) \/ OtherWrite(d) PROVE FALSE
    BY <1>1, <2>0, <2>3 DEF ChainWrite, OtherWrite, Persisted, ChildrenOK
  <2>4. MarkWrite \/ entry' = entry \/ \E d \in Children : ChainWrite(d) \/ OtherWrite(d)
    BY <1>1 DEF Next, ParentStep, ChildStep, Report, AddUserMessage, AddAssistantMessage, NextTurn,
       Save, SaveFails, MarkFails, Confirmed, Stop, Crash, Resume, Inject, MarkRead, Finish,
       ForceSettle, ChainRead, OtherRead, childVars, vars
  <2>5. QED
    BY <2>1, <2>2, <2>3, <2>4
<1>2. IInv /\ [Next]_vars =>
        [\A c \in Children : entry[c] # "delivered" /\ entry'[c] = "delivered"
           => c \in Markers(saved)]_vars
  BY <1>1
<1>3. QED
  BY Invariance, <1>2, PTL DEF Spec, ConfirmedOnlyFromDisk
=============================================================================
