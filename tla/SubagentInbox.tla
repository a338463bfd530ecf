---------------------------- MODULE SubagentInbox ----------------------------
(***************************************************************************)
(* How the result of a settled subagent reaches the parent's model: the    *)
(* durable inbox file of each child (subagentResultInbox.ts), the parent's *)
(* API history in memory and on disk (Task.ts), and the confirmation that  *)
(* ties them together.  An entry is "delivered" once the child's marker is *)
(* in the saved history; until then a resumed parent delivers it again.    *)
(* The parent may be stopped and resumed, and the host may crash.          *)
(*                                                                         *)
(* A history is the sequence of its user messages, each kept as the set of *)
(* children whose markers it carries, and a flag for whether the model has *)
(* answered the last one.                                                  *)
(***************************************************************************)
EXTENDS Naturals, FiniteSets, Sequences, SequencesExt

CONSTANTS Children,    \* the children of one dispatch_subagents call
          Nobody,      \* no child
          MaxTurns,    \* bound on the user messages of a history
          MaxCrashes,  \* bound on host crashes
          MaxFails     \* bound on failed saves

ASSUME InboxAssumption == /\ Nobody \notin Children
                          /\ MaxTurns \in Nat \ {0} /\ MaxCrashes \in Nat /\ MaxFails \in Nat

VARIABLES
  entry,    \* the child's inbox file: absent, pending or delivered
  finished, \* children with a result to persist
  chain,    \* chain[c]: the inbox write of the settlement chain
  other,    \* other[c]: the write of another writer, the child itself or the watchdog
  done,     \* children the parent no longer waits for
  phase,    \* where the parent is
  next,     \* where it goes after the save under way
  content,  \* the markers in the user content being put together
  mem,      \* the history in memory
  saved,    \* the history on disk
  todo,     \* entries whose delivery is being confirmed
  marking,  \* the entry markInboxEntryDelivered() has read and will write
  crashes, fails

childVars  == <<entry, finished, chain, other, done>>
confirmVars == <<todo, marking>>
boundVars == <<crashes, fails>>
vars == <<childVars, phase, next, content, mem, saved, confirmVars, boundVars>>

Markers(h) == UNION Range(h.turns)
Dispatched == [turns |-> << >>, open |-> FALSE]

(***************************************************************************)
(* Plausible slips of the code.                                            *)
(***************************************************************************)
SlipRedeliver(c)     == entry[c] = "pending"
SlipSaveFails        == phase' = "confirm" /\ todo' = {c \in Children : entry[c] = "pending"
                                                                      /\ c \in Markers(mem)}
SlipUndelivered      == {}
SlipPersisted(c)     == [entry EXCEPT ![c] = "settled"]

Init == /\ entry = [c \in Children |-> "absent"]
        /\ finished = {} /\ done = {}
        /\ chain = [c \in Children |-> "run"]
        /\ other = [c \in Children |-> "idle"]
        /\ phase = "dispatch" /\ next = "model" /\ content = {}
        /\ mem = Dispatched /\ saved = Dispatched
        /\ todo = {} /\ marking = Nobody
        /\ crashes = 0 /\ fails = 0

(***************************************************************************)
(* The children.  writeInboxEntryAt() reads the entry, keeps a delivered   *)
(* one as it is, and writes: two steps, with other writers in between.     *)
(***************************************************************************)
Persisted(c) == [entry EXCEPT ![c] = "pending"]

Finish(c) == /\ c \notin finished /\ finished' = finished \cup {c}
             /\ UNCHANGED <<entry, chain, other, done, phase, next, content, mem, saved,
                            confirmVars, boundVars>>

\* A stopped child that hangs is settled by the watchdog: its result is what there
\* is, and `done` resolves before the write below.
ForceSettle(c) ==
  /\ c \notin finished /\ chain[c] = "run"
  /\ finished' = finished \cup {c} /\ done' = done \cup {c}
  /\ UNCHANGED <<entry, chain, other, phase, next, content, mem, saved, confirmVars, boundVars>>

ChainRead(c) ==
  /\ c \in finished /\ chain[c] = "run"
  /\ IF entry[c] = "delivered"
     THEN chain' = [chain EXCEPT ![c] = "over"] /\ done' = done \cup {c}
     ELSE chain' = [chain EXCEPT ![c] = "write"] /\ UNCHANGED done
  /\ UNCHANGED <<entry, finished, other, phase, next, content, mem, saved, confirmVars,
                 boundVars>>

ChainWrite(c) ==
  /\ chain[c] = "write" /\ chain' = [chain EXCEPT ![c] = "over"]
  /\ done' = done \cup {c}
  /\ \/ entry' = Persisted(c) /\ UNCHANGED fails
     \/ fails < MaxFails /\ fails' = fails + 1 /\ UNCHANGED entry
  /\ UNCHANGED <<finished, other, phase, next, content, mem, saved, confirmVars, crashes>>

\* persistChildInboxIfCompleted() runs with every save of a completed child's
\* messages; the watchdog's write is of the same kind.
OtherRead(c) ==
  /\ c \in finished /\ other[c] = "idle" /\ entry[c] # "delivered"
  /\ other' = [other EXCEPT ![c] = "write"]
  /\ UNCHANGED <<entry, finished, chain, done, phase, next, content, mem, saved, confirmVars,
                 boundVars>>

OtherWrite(c) ==
  /\ other[c] = "write" /\ other' = [other EXCEPT ![c] = "idle"]
  /\ entry' = Persisted(c)
  /\ UNCHANGED <<finished, chain, done, phase, next, content, mem, saved, confirmVars,
                 boundVars>>

(***************************************************************************)
(* The parent: reporting, and the loop that sends content to the model.    *)
(***************************************************************************)
AllDone == done = Children

\* dispatch_subagents reports on every child, from the inbox or from the session.
Report == /\ phase = "dispatch" /\ AllDone
          /\ content' = Children /\ phase' = "content"
          /\ UNCHANGED <<childVars, next, mem, saved, confirmVars, boundVars>>

SaveThen(s) == phase' = "saving" /\ next' = s

AddUserMessage == /\ phase = "content"
                  /\ mem' = [turns |-> Append(mem.turns, content), open |-> TRUE]
                  /\ content' = {} /\ SaveThen("model")
                  /\ UNCHANGED <<childVars, saved, confirmVars, boundVars>>

AddAssistantMessage == /\ phase = "model"
                       /\ mem' = [mem EXCEPT !.open = FALSE] /\ SaveThen("turn")
                       /\ UNCHANGED <<childVars, content, saved, confirmVars, boundVars>>

\* Another tool's result, without markers.
NextTurn == /\ phase = "turn" /\ Len(mem.turns) < MaxTurns /\ phase' = "content"
            /\ UNCHANGED <<childVars, next, content, mem, saved, confirmVars, boundVars>>

(***************************************************************************)
(* saveApiConversationHistory() and the confirmation after it.             *)
(***************************************************************************)
Save == /\ phase = "saving" /\ saved' = mem
        /\ phase' = "confirm"
        /\ todo' = {c \in Children : entry[c] = "pending" /\ c \in Markers(mem)}
        /\ UNCHANGED <<childVars, next, content, mem, marking, boundVars>>

\* A failed save is logged, and nothing is confirmed.
AfterFailedSave == phase' = next /\ UNCHANGED todo

SaveFails == /\ phase = "saving" /\ fails < MaxFails /\ fails' = fails + 1
             /\ AfterFailedSave
             /\ UNCHANGED <<childVars, next, content, mem, saved, marking, crashes>>

MarkRead(c) == /\ phase = "confirm" /\ c \in todo /\ marking = Nobody
               /\ IF entry[c] = "pending"
                  THEN marking' = c /\ UNCHANGED todo
                  ELSE todo' = todo \ {c} /\ UNCHANGED marking
               /\ UNCHANGED <<childVars, phase, next, content, mem, saved, boundVars>>

MarkWrite == /\ marking # Nobody
             /\ entry' = [entry EXCEPT ![marking] = "delivered"]
             /\ todo' = todo \ {marking} /\ marking' = Nobody
             /\ UNCHANGED <<finished, chain, other, done, phase, next, content, mem, saved,
                            boundVars>>

\* The first write that fails ends the confirmation: the entries left stay pending.
MarkFails == /\ marking # Nobody /\ fails < MaxFails /\ fails' = fails + 1
             /\ todo' = {} /\ marking' = Nobody
             /\ UNCHANGED <<childVars, phase, next, content, mem, saved, crashes>>

Confirmed == /\ phase = "confirm" /\ todo = {} /\ phase' = next
             /\ UNCHANGED <<childVars, next, content, mem, saved, confirmVars, boundVars>>

(***************************************************************************)
(* Stop, crash and resume.                                                 *)
(***************************************************************************)
Off == /\ phase' = "off" /\ mem' = Dispatched /\ content' = {}
       /\ todo' = {} /\ marking' = Nobody

\* abortTask() lets the save under way, with its confirmation, finish first.
Stop == /\ phase \notin {"off", "saving", "confirm"} /\ Off
        /\ UNCHANGED <<childVars, next, saved, boundVars>>

\* The session map is gone after a restart: nothing to wait for, no chain.  A child
\* can still be continued, and then persists its own result.
Crash == /\ crashes < MaxCrashes /\ crashes' = crashes + 1 /\ Off
         /\ done' = Children
         /\ chain' = [c \in Children |-> "over"] /\ other' = [c \in Children |-> "idle"]
         /\ UNCHANGED <<entry, finished, next, saved, fails>>

\* resumeTaskFromHistory(): an unanswered user message is taken off the history, to
\* be sent again, and the history without it is saved.
Resume ==
  /\ phase = "off"
  /\ saved.open \/ Len(saved.turns) < MaxTurns
  /\ content' = IF saved.open THEN Last(saved.turns) ELSE {}
  /\ mem' = IF saved.open THEN [turns |-> Front(saved.turns), open |-> FALSE] ELSE saved
  /\ SaveThen("waitChildren")
  /\ UNCHANGED <<childVars, saved, confirmVars, boundVars>>

ShouldRedeliver(c) == entry[c] = "pending" /\ c \notin Markers(mem) \cup content

Undelivered == {c \in Children : ShouldRedeliver(c)}

\* waitForChildrenOf() and injectUndeliveredSubagentInbox().
Inject == /\ phase = "waitChildren" /\ AllDone
          /\ content' = content \cup Undelivered /\ phase' = "content"
          /\ UNCHANGED <<childVars, next, mem, saved, confirmVars, boundVars>>

ParentStep == \/ Report \/ AddUserMessage \/ AddAssistantMessage \/ NextTurn
              \/ Save \/ SaveFails \/ MarkWrite \/ MarkFails \/ Confirmed \/ Stop \/ Resume \/ Inject
              \/ \E c \in Children : MarkRead(c)

ChildStep(c) == \/ Finish(c) \/ ForceSettle(c)
                \/ ChainRead(c) \/ ChainWrite(c) \/ OtherRead(c) \/ OtherWrite(c)

Next == ParentStep \/ Crash \/ \E c \in Children : ChildStep(c)

\* The parent's own code runs on; only the model, the user and the children may take
\* for ever.
Fairness == /\ WF_vars(Inject) /\ WF_vars(AddUserMessage) /\ WF_vars(Save)
            /\ WF_vars(MarkWrite) /\ WF_vars(Confirmed)
            /\ \A c \in Children : WF_vars(MarkRead(c))

Spec == Init /\ [][Next]_vars
FairSpec == Spec /\ Fairness

-----------------------------------------------------------------------------
(* Histories carry markers of the children only, the content under construction is
   kept by a live parent only, and entries have the states of the type. *)
Histories == [turns : BoundedSeq(SUBSET Children, MaxTurns), open : BOOLEAN]

TypeOK ==
  /\ entry \in [Children -> {"absent", "pending", "delivered"}]
  /\ finished \subseteq Children /\ done \subseteq Children /\ content \subseteq Children
  /\ chain \in [Children -> {"run", "write", "over"}]
  /\ other \in [Children -> {"idle", "write"}]
  /\ phase \in {"dispatch", "content", "saving", "confirm", "model", "turn", "waitChildren",
                "off"}
  /\ next \in {"model", "turn", "waitChildren"}
  /\ mem \in Histories /\ saved \in Histories
  /\ todo \subseteq Children /\ marking \in Children \cup {Nobody}
  /\ phase = "off" => content = {} /\ marking = Nobody

(* The model is told each child's result at most once: whatever is stopped, crashes,
   fails or is written late, no history holds a child's marker twice, and no content
   repeats one that the history before it has. *)
AtMostOnce ==
  /\ \A h \in {mem, saved} : \A i, j \in DOMAIN h.turns :
       i # j => h.turns[i] \cap h.turns[j] = {}
  /\ content \cap Markers(mem) = {}

(* "Mark inbox delivered only after API history with the inbox marker is on disk.
   Never confirm from in-memory pushToolResult" (Task.ts): an entry becomes delivered
   only while the saved history has the child's marker. *)
ConfirmedOnlyFromDisk ==
  [][\A c \in Children : entry[c] # "delivered" /\ entry'[c] = "delivered"
       => c \in Markers(saved)]_vars

(* A result that waits in the inbox when the parent resumes is delivered, unless the
   parent is stopped again or a write fails. *)
ResumeDelivers ==
  \A c \in Children :
    (phase = "waitChildren" /\ AllDone /\ entry[c] = "pending")
      ~> (entry[c] = "delivered" \/ phase = "off" \/ fails > 0)

(* The evidence of a delivered entry proves that "the marker is in the saved API
   history": while the parent is not running, the marker of every delivered entry is
   in the history on disk, so that no result is lost. *)
DeliveredIsInHistory ==
  phase = "off" => \A c \in Children : entry[c] = "delivered" => c \in Markers(saved)
=============================================================================
