-------------------------- MODULE UserContinuation --------------------------
(***************************************************************************)
(* How a typed message reaches the model when it does not answer an ask:   *)
(* the routing of askResponse (webviewMessageHandler.ts), the single slot  *)
(* in which the provider parks a message while it replaces the task by a   *)
(* fresh instance, the guard that rescues a message nobody has taken       *)
(* (ClineProvider.ts), and continueTaskFromUserMessage(),                  *)
(* resumeTaskFromHistory() and initiateTaskLoop() (Task.ts).               *)
(*                                                                         *)
(* Instances are numbered in the order they are made, messages in the      *)
(* order they are typed; a task has the number of its first instance.      *)
(***************************************************************************)
EXTENDS Naturals, FiniteSets, Sequences

CONSTANTS MaxInputs,     \* bound on what the user does: type a message, press Cancel
          MaxInstances,  \* bound on the instances of the task
          MaxRestores,   \* bound on the times the task is replaced
          MaxLoops,      \* bound on the loops of an instance
          Guards,        \* how the rescue guard of a parked message may be set
          Scenarios      \* what may go wrong together, and how much the user does then

\* No history to read, a restoration that throws, a task that is live in another window,
\* a replacement that takes longer than the guard waits.
Faults == {"history", "restore", "elsewhere", "slow"}

ASSUME ContinuationAssumption ==
  /\ MaxInputs \in Nat \ {0} /\ MaxInstances \in Nat \ {0}
  /\ MaxRestores \in Nat /\ MaxLoops \in Nat \ {0}
  /\ Guards \subseteq {"armed", "blind"} /\ Guards # {}
  /\ Scenarios \subseteq [faults : SUBSET Faults, inputs : 1..MaxInputs]

VARIABLES
  top,        \* the instance the user looks at, or None
  streaming,  \* its isStreaming
  task,       \* task[i]: taskId
  stage,      \* stage[i]: how far the restoration of instance i is
  carry,      \* carry[i]: the message its restoration takes along
  own,        \* own[i]: the generation of the loop its restoration waits for
  cancelled,  \* cancelled[i]: abortReason = "user_cancelled"
  loops,      \* loops[i]: the generations of its loops that run
  gen,        \* gen[i]: taskLoopGeneration
  soft,       \* soft[i]: softCompletionBoundaryPending
  completed,  \* completed[k]: the rows of task k end with a completion and plain rows
  chain,      \* chain[i]: continuationChain
  cont,       \* cont[i]: how far the first of the chain is
  slot,       \* pendingCancelledTaskContinuation
  guard,      \* its rescue timer
  opAt, opOf, \* how far each replacement is, and of which instance
  fate,       \* fate[t]: where message t is
  room,       \* room[t]: the task whose rows it has become one of
  scenario,   \* what may go wrong in this behaviour
  presses     \* how often the user has pressed Cancel

instVars == <<task, stage, carry, own, cancelled>>
textVars == <<fate, room>>
topVars == <<top, streaming>>
loopVars == <<loops, gen, soft>>
chainVars == <<chain, cont>>
slotVars == <<slot, guard>>
opVars == <<opAt, opOf>>
scenVars == <<scenario, presses>>
vars == <<topVars, instVars, loopVars, completed, chainVars, slotVars, opVars, textVars,
          scenVars>>

None == 0
Texts == 1..MaxInputs
Instances == 1..MaxInstances
Ops == 1..MaxRestores

Init == /\ top = 1 /\ streaming = FALSE /\ task = [i \in Instances |-> IF i = 1 THEN 1 ELSE None]
        /\ stage = [i \in Instances |-> IF i = 1 THEN "settled" ELSE "none"]
        /\ carry = [i \in Instances |-> None] /\ own = [i \in Instances |-> None]
        /\ cancelled = [i \in Instances |-> FALSE]
        /\ loops = [i \in Instances |-> IF i = 1 THEN {1} ELSE {}]
        /\ gen = [i \in Instances |-> IF i = 1 THEN 1 ELSE 0]
        /\ soft = [i \in Instances |-> FALSE]
        /\ completed = [k \in Instances |-> FALSE]
        /\ chain = [i \in Instances |-> <<>>] /\ cont = [i \in Instances |-> "idle"]
        /\ slot = None /\ guard = "off"
        /\ opAt = [c \in Ops |-> "free"] /\ opOf = [c \in Ops |-> None]
        /\ fate = [t \in Texts |-> "unsent"] /\ room = [t \in Texts |-> None]
        /\ scenario \in Scenarios /\ presses = 0

\* isTaskLoopActive: a loop that ends clears it only for its own generation.
LoopActive(i) == gen[i] \in loops[i]

IsNext(i) == stage[i] = "none" /\ \A j \in Instances : j < i => stage[j] # "none"

(***************************************************************************)
(* The slot.                                                               *)
(***************************************************************************)
\* setPendingCancelledTaskContinuation(): what was there is overwritten, and the timer
\* starts anew.  The guard takes the message for an older one when the clock ticks
\* between the two readings of it.
Park(t) == slot' = t /\ guard' \in Guards

\* Plausible slip: the message is read and not taken out.
SlipConsume == guard' = "off" /\ UNCHANGED slot

\* consumePendingCancelledTaskContinuation()
Consume == slot' = None /\ guard' = "off"

MoveTo(t, place) == fate' = [fate EXCEPT ![t] = place] /\ UNCHANGED room

Parked(t) == /\ Park(t) /\ UNCHANGED room
             /\ fate' = [u \in Texts |-> IF u = t THEN "parked"
                                         ELSE IF u = slot THEN "lost" ELSE fate[u]]

\* say("user_feedback")
Said(t, k) == /\ fate' = [fate EXCEPT ![t] = IF @ \in {"said", "answered"} THEN "twice"
                                                                         ELSE "said"]
              /\ room' = [room EXCEPT ![t] = k]

(***************************************************************************)
(* cancelTask(), createTaskWithHistoryItem() and createTask().             *)
(***************************************************************************)
FreeOp(c) == opAt[c] = "free" /\ \A d \in Ops : d < c => opAt[d] # "free"

StartOp(i, s) == \E c \in Ops : /\ FreeOp(c) /\ opAt' = [opAt EXCEPT ![c] = s]
                                /\ opOf' = [opOf EXCEPT ![c] = i]

\* An aborted instance has its request cancelled.
Abort(T) == /\ cancelled' = [i \in Instances |-> cancelled[i] \/ i \in T]
            /\ streaming' = (streaming /\ top \notin T)

StartCancel == IF top = None THEN UNCHANGED <<streaming, cancelled, opVars>>
                             ELSE Abort({top}) /\ StartOp(top, "aborting")

OpGoto(c, s) == opAt' = [opAt EXCEPT ![c] = s] /\ UNCHANGED opOf

Stage(i, s) == stage' = [stage EXCEPT ![i] = s]

\* createTask(): the task on top of the stack is removed.
FreshTask(t) ==
  \E j \in Instances :
    /\ IsNext(j) /\ top' = j /\ Abort({top})
    /\ task' = [task EXCEPT ![j] = j] /\ Stage(j, "settled")
    /\ loops' = [loops EXCEPT ![j] = {1}] /\ gen' = [gen EXCEPT ![j] = 1]
    /\ Said(t, j) /\ UNCHANGED <<carry, own, soft>>

\* The task is aborted and its history is read.  Another replacement may have been first;
\* and a task that is not this one is removed from the stack.
CancelRestores(c) ==
  /\ opAt[c] = "aborting"
  /\ LET i == opOf[c]
     IN IF top # None /\ task[top] = task[i]
        THEN /\ OpGoto(c, IF top = i THEN "restoring" ELSE "done")
             /\ UNCHANGED <<topVars, cancelled>>
        ELSE OpGoto(c, "restoring") /\ Abort({top}) /\ top' = None
  /\ UNCHANGED <<task, stage, carry, own, loopVars, completed, chainVars, slotVars, textVars,
                 scenVars>>

\* Plausible slip: the parked message goes with the task that is removed.
SlipCancelWithoutHistory(c) ==
  /\ "history" \in scenario.faults /\ opAt[c] = "aborting" /\ OpGoto(c, "done") /\ Consume
  /\ top' = None /\ Abort({top})
  /\ IF slot = None THEN UNCHANGED textVars ELSE MoveTo(slot, "lost")
  /\ UNCHANGED <<task, stage, carry, own, loopVars, completed, chainVars, scenVars>>

CancelWithoutHistory(c) ==
  /\ "history" \in scenario.faults /\ opAt[c] = "aborting" /\ OpGoto(c, "done") /\ Consume
  /\ IF slot # None
     THEN FreshTask(slot)
     ELSE /\ top' = None /\ Abort({top})
          /\ UNCHANGED <<task, stage, carry, own, loopVars, textVars>>
  /\ UNCHANGED <<completed, chainVars, scenVars>>

\* The new instance takes the top of the stack, whatever is there by now.
Install(c) == /\ opAt[c] = "restoring" /\ OpGoto(c, "done")
              /\ \E j \in Instances : /\ IsNext(j) /\ top' = j /\ streaming' = FALSE
                                      /\ Stage(j, "made")
                                      /\ task' = [task EXCEPT ![j] = task[opOf[c]]]
              /\ UNCHANGED <<carry, own, cancelled, loopVars, completed, chainVars, slotVars,
                             textVars, scenVars>>

(***************************************************************************)
(* resumeTaskFromHistory(), by the one who has installed the instance.     *)
(***************************************************************************)
\* The injected message is taken; a cancellation so far counts for nothing.
Resume(i) == /\ stage[i] = "made" /\ Stage(i, "restoring")
             /\ carry' = [carry EXCEPT ![i] = slot] /\ Consume
             /\ IF slot = None THEN UNCHANGED textVars ELSE MoveTo(slot, "carried")
             /\ cancelled' = [cancelled EXCEPT ![i] = @ /\ top # i]
             /\ UNCHANGED <<topVars, task, own, loopVars, completed, chainVars, opVars, scenVars>>

\* Another window runs the task: this one shows it and takes no message.
ResumeElsewhere(i) ==
  /\ "elsewhere" \in scenario.faults /\ stage[i] = "made" /\ Stage(i, "settled")
  /\ UNCHANGED <<topVars, task, carry, own, cancelled, loopVars, completed, chainVars, slotVars,
                 opVars, textVars, scenVars>>

\* Without a message the user is asked to resume.
ResumeAsks(i) == /\ stage[i] = "restoring" /\ carry[i] = None
                 /\ Stage(i, IF cancelled[i] THEN "settled" ELSE "asking")
                 /\ UNCHANGED <<topVars, task, carry, own, cancelled, loopVars, completed,
                                chainVars, slotVars, opVars, textVars, scenVars>>

\* A restoration that throws has the message it was given delivered by a fresh task.
\* The loop it waits for is part of it, and throws when it is cancelled between requests.
ResumeThrows(i) ==
  /\ carry[i] # None
  /\ \/ stage[i] = "restoring" /\ (cancelled[i] \/ "restore" \in scenario.faults)
     \/ stage[i] = "looping" /\ cancelled[i] /\ own[i] \in loops[i]
  /\ \E j \in Instances :
       /\ IsNext(j) /\ top' = j /\ Abort({top})
       /\ task' = [task EXCEPT ![j] = j]
       /\ stage' = [stage EXCEPT ![i] = "settled", ![j] = "settled"]
       /\ loops' = [loops EXCEPT ![i] = @ \ {own[i]}, ![j] = {1}]
       /\ gen' = [gen EXCEPT ![j] = 1] /\ Said(carry[i], j)
  /\ UNCHANGED <<carry, own, soft, completed, chainVars, slotVars, opVars,
                 scenVars>>

\* The message becomes a row, unless the instance is cancelled: one whose history is
\* frozen says nothing more.
ResumeSays(i) ==
  /\ stage[i] \in {"restoring", "resumed"} /\ carry[i] # None
  /\ IF cancelled[i] THEN Stage(i, "settled") /\ MoveTo(carry[i], "lost")
                     ELSE Stage(i, "feeding") /\ Said(carry[i], task[i])
  \* What answered the ask is not delivered again.
  /\ carry' = IF stage[i] = "resumed" THEN [carry EXCEPT ![i] = None] ELSE carry
  /\ UNCHANGED <<topVars, task, own, cancelled, loopVars, completed, chainVars, slotVars, opVars,
                 scenVars>>

\* initiateTaskLoop(): a loop of an aborted instance ends at once.
StartLoop(i) == IF cancelled[i] THEN UNCHANGED <<loops, gen>>
                ELSE /\ gen[i] < MaxLoops
                     /\ gen' = [gen EXCEPT ![i] = @ + 1]
                     /\ loops' = [loops EXCEPT ![i] = @ \cup {gen[i] + 1}]

ResumeLoops(i) == /\ stage[i] = "feeding" /\ StartLoop(i)
                  /\ Stage(i, IF cancelled[i] THEN "settled" ELSE "looping")
                  /\ own' = [own EXCEPT ![i] = gen'[i]]
                  /\ UNCHANGED <<topVars, task, carry, cancelled, soft, completed,
                                 chainVars, slotVars, opVars, textVars, scenVars>>

(***************************************************************************)
(* A loop.                                                                 *)
(***************************************************************************)
Runs(i) == loops[i] # {} /\ ~cancelled[i]

StreamStarts == /\ top # None /\ Runs(top) /\ ~streaming /\ streaming' = TRUE
                /\ UNCHANGED <<top, instVars, loopVars, completed, chainVars, slotVars, opVars,
                               textVars, scenVars>>

\* The answer ends; a tool runs.
StreamEnds == /\ streaming /\ streaming' = FALSE
              /\ UNCHANGED <<top, instVars, loopVars, completed, chainVars, slotVars, opVars,
                             textVars, scenVars>>

\* Rows that are partial, or an ask, follow the completion.
Works(i) == /\ Runs(i) /\ completed[task[i]]
            /\ completed' = [completed EXCEPT ![task[i]] = FALSE]
            /\ UNCHANGED <<topVars, instVars, loopVars, chainVars, slotVars, opVars, textVars,
                           scenVars>>

\* attempt_completion of a task that goes on: markActiveResponseCompletionHandled().
Completes(i) == /\ Runs(i) /\ ~soft[i] /\ soft' = [soft EXCEPT ![i] = TRUE]
                /\ completed' = [completed EXCEPT ![task[i]] = TRUE]
                /\ fate' = [t \in Texts |-> IF fate[t] = "said" /\ room[t] = task[i]
                                            THEN "answered" ELSE fate[t]]
                /\ UNCHANGED <<topVars, instVars, loops, gen, chainVars, slotVars, opVars,
                               room, scenVars>>

LoopEnds(i) == /\ \E g \in loops[i] :
                    /\ loops' = [loops EXCEPT ![i] = @ \ {g}]
                    /\ soft' = [soft EXCEPT ![i] = @ /\ g # gen[i]]
                    /\ Stage(i, IF stage[i] = "looping" /\ g = own[i] THEN "settled"
                                                                      ELSE stage[i])
               /\ streaming' = (streaming /\ i # top)
               /\ UNCHANGED <<top, task, carry, own, cancelled, gen, completed, chainVars,
                              slotVars, opVars, textVars, scenVars>>

(***************************************************************************)
(* continueTaskFromUserMessage(): one after the other on an instance.      *)
(***************************************************************************)
Goto(i, s) == cont' = [cont EXCEPT ![i] = s]

Done(i) == chain' = [chain EXCEPT ![i] = Tail(@)] /\ Goto(i, "idle")

Enqueue(i, t) == /\ chain' = [chain EXCEPT ![i] = Append(@, t)] /\ UNCHANGED cont
                 /\ MoveTo(t, "chained")

\* parkContinuationForRehydration()
ParkHead(i) == Done(i) /\ Parked(Head(chain[i])) /\ StartCancel

\* A message for a live loop is parked; for an idle task it is set up.  After a soft
\* completion the old loop is given ten seconds to end.
ContTakes(i) ==
  /\ cont[i] = "idle" /\ chain[i] # <<>>
  /\ IF ~soft[i] /\ LoopActive(i) /\ ~cancelled[i]
     THEN ParkHead(i)
     ELSE /\ Goto(i, IF soft[i] /\ LoopActive(i) THEN "waiting" ELSE "setup")
          /\ UNCHANGED <<streaming, chain, slotVars, textVars, cancelled, opVars>>
  /\ UNCHANGED <<top, task, stage, carry, own, loopVars, completed, scenVars>>

ContWaited(i) == /\ cont[i] = "waiting" /\ ~LoopActive(i) /\ Goto(i, "setup")
                 /\ UNCHANGED <<topVars, instVars, loopVars, completed, chain, slotVars, opVars,
                                textVars, scenVars>>

ContTimesOut(i) == /\ cont[i] = "waiting" /\ LoopActive(i) /\ soft[i] /\ ParkHead(i)
                   /\ UNCHANGED <<top, task, stage, carry, own, loopVars, completed, scenVars>>

\* The history is saved, the message becomes a row, and a loop starts.  The row
\* supersedes an ask to resume.
ContStarts(i) ==
  /\ cont[i] = "setup" /\ Done(i)
  /\ IF cancelled[i] THEN MoveTo(Head(chain[i]), "lost") ELSE Said(Head(chain[i]), task[i])
  /\ Stage(i, IF stage[i] = "asking" THEN "settled" ELSE stage[i])
  /\ soft' = [soft EXCEPT ![i] = FALSE] /\ StartLoop(i)
  /\ UNCHANGED <<topVars, task, carry, own, cancelled, completed, slotVars, opVars,
                 scenVars>>

(***************************************************************************)
(* The rescue guard: ten seconds after a message was parked.               *)
(***************************************************************************)
\* A replacement aborts for five seconds and waits for three more at most; only when its
\* reads hang is it still under way.
Replacing == \/ \E c \in Ops : opAt[c] \in {"aborting", "restoring"}
             \/ \E i \in Instances : stage[i] = "made"

GuardIdles == /\ guard # "off" /\ (slot = None \/ guard = "blind")
              /\ guard' = "off"
              /\ UNCHANGED <<topVars, instVars, loopVars, completed, chainVars, slot, opVars,
                             textVars, scenVars>>

Rescues == guard = "armed" /\ slot # None /\ ("slow" \in scenario.faults \/ ~Replacing)

\* Plausible slip: the message is put back without a guard.
SlipRescueParks ==
  /\ Rescues /\ top # None /\ ~cancelled[top] /\ LoopActive(top) /\ guard' = "off"
  /\ UNCHANGED <<topVars, instVars, loopVars, completed, chainVars, slot, opVars, textVars,
                 scenVars>>

\* A task that runs has the message parked again.
RescueParks == /\ Rescues /\ top # None /\ ~cancelled[top] /\ LoopActive(top) /\ Park(slot)
               /\ UNCHANGED <<topVars, instVars, loopVars, completed, chainVars, opVars,
                              textVars, scenVars>>

RescueContinues == /\ Rescues /\ top # None /\ ~cancelled[top] /\ ~LoopActive(top)
                   /\ Consume /\ Enqueue(top, slot)
                   /\ UNCHANGED <<topVars, instVars, loopVars, completed, opVars, scenVars>>

RescueRestores == /\ Rescues /\ top # None /\ cancelled[top] /\ Park(slot)
                  /\ StartOp(top, "restoring")
                  /\ UNCHANGED <<topVars, instVars, loopVars, completed, chainVars, textVars,
                                 scenVars>>

RescueStartsAfresh == /\ Rescues
                      /\ top # None => cancelled[top] /\ "history" \in scenario.faults
                      /\ Consume /\ FreshTask(slot)
                      /\ UNCHANGED <<completed, chainVars, opVars, scenVars>>

GuardFires == GuardIdles \/ RescueParks \/ RescueContinues \/ RescueRestores
                \/ RescueStartsAfresh

(***************************************************************************)
(* The user.                                                               *)
(***************************************************************************)
Sent == {t \in Texts : fate[t] # "unsent"}

MayAct == Cardinality(Sent) + presses < scenario.inputs

IsNextText(t) == fate[t] = "unsent" /\ \A u \in Texts : u < t => fate[u] # "unsent"

Live == top # None /\ ~cancelled[top]

AfterCompletion == completed[task[top]] /\ stage[top] # "asking"

Interrupts == streaming /\ ~soft[top] /\ ~AfterCompletion

SendAfresh(t) == /\ top = None /\ FreshTask(t)
                 /\ UNCHANGED <<chainVars, slotVars, opVars>>

SendToCancelled(t) == /\ top # None /\ cancelled[top] /\ Parked(t)
                      /\ UNCHANGED <<topVars, instVars, loopVars, chainVars,
                                     opVars>>

SendInterrupts(t) == /\ Live /\ Interrupts /\ Parked(t) /\ StartCancel
                     /\ UNCHANGED <<top, task, stage, carry, own, loopVars, chainVars>>

\* After a completion a message goes through the edit transaction: what was said since is
\* taken out of the history,
SendAfterCompletion(t) ==
  /\ Live /\ AfterCompletion
  /\ fate' = [u \in Texts |-> IF u = t THEN "editing"
                              ELSE IF fate[u] = "said" /\ room[u] = task[top] THEN "lost"
                              ELSE fate[u]]
  /\ UNCHANGED <<topVars, instVars, loopVars, chainVars, slotVars, opVars, room>>

\* and the message is parked when that is saved.
EditParks(t) == /\ fate[t] = "editing" /\ Parked(t) /\ StartCancel
                /\ UNCHANGED <<top, task, stage, carry, own, loopVars, completed, chainVars,
                               scenVars>>

SendToAsk(t) == /\ Live /\ ~Interrupts /\ stage[top] = "asking"
                /\ Stage(top, "resumed") /\ carry' = [carry EXCEPT ![top] = t]
                /\ MoveTo(t, "carried")
                /\ UNCHANGED <<topVars, task, own, cancelled, loopVars, chainVars, slotVars,
                               opVars>>

SendContinues(t) == /\ Live /\ ~Interrupts /\ ~AfterCompletion /\ stage[top] # "asking"
                    /\ Enqueue(top, t)
                    /\ UNCHANGED <<topVars, instVars, loopVars, slotVars, opVars>>

Send(t) == /\ MayAct /\ IsNextText(t)
           /\ \/ SendAfresh(t) \/ SendToCancelled(t) \/ SendInterrupts(t)
              \/ SendAfterCompletion(t) \/ SendToAsk(t) \/ SendContinues(t)
           /\ UNCHANGED <<completed, scenVars>>

Cancel == /\ MayAct /\ presses' = presses + 1
          /\ top # None /\ StartCancel
          /\ UNCHANGED <<top, task, stage, carry, own, loopVars, completed, chainVars,
                         slotVars, textVars, scenario>>

OpStep(c) == CancelRestores(c) \/ CancelWithoutHistory(c) \/ Install(c)
ResumeStep(i) == Resume(i) \/ ResumeElsewhere(i) \/ ResumeAsks(i) \/ ResumeThrows(i)
                   \/ ResumeSays(i) \/ ResumeLoops(i)
ContStep(i) == ContTakes(i) \/ ContWaited(i) \/ ContTimesOut(i) \/ ContStarts(i)
LoopStep(i) == Works(i) \/ Completes(i) \/ LoopEnds(i)

Next == \/ \E c \in Ops : OpStep(c)
        \/ \E i \in Instances : ResumeStep(i) \/ ContStep(i) \/ LoopStep(i)
        \/ \E t \in Texts : Send(t) \/ EditParks(t)
        \/ StreamStarts \/ StreamEnds \/ GuardFires \/ Cancel

Spec == Init /\ [][Next]_vars

\* Awaits return and timers fire.
Fairness == /\ \A c \in Ops : WF_vars(OpStep(c))
            /\ \A i \in Instances : WF_vars(ResumeStep(i)) /\ WF_vars(ContStep(i))
            /\ \A t \in Texts : WF_vars(EditParks(t))
            /\ WF_vars(GuardFires)

FairSpec == Spec /\ Fairness

-----------------------------------------------------------------------------
Fates == {"unsent", "editing", "chained", "parked", "carried", "said", "answered", "lost",
          "twice"}

(* The slot, the chains and the instances have the states of the code; the parked message
   is the one in the slot, and only a running loop is waited for. *)
TypeOK ==
  /\ top \in Instances \cup {None} /\ task \in [Instances -> Instances \cup {None}]
  /\ slot \in Texts \cup {None} /\ guard \in {"off"} \cup Guards
  /\ stage \in [Instances -> {"none", "made", "restoring", "asking", "resumed", "feeding",
                              "looping", "settled"}]
  /\ carry \in [Instances -> Texts \cup {None}] /\ own \in [Instances -> 0..MaxLoops]
  /\ cancelled \in [Instances -> BOOLEAN]
  /\ gen \in [Instances -> 0..MaxLoops] /\ loops \in [Instances -> SUBSET (1..MaxLoops)]
  /\ streaming \in BOOLEAN /\ soft \in [Instances -> BOOLEAN]
  /\ cont \in [Instances -> {"idle", "waiting", "setup"}]
  /\ chain \in [Instances -> Seq(Texts)]
  /\ opAt \in [Ops -> {"free", "aborting", "restoring", "done"}]
  /\ opOf \in [Ops -> Instances \cup {None}]
  /\ fate \in [Texts -> Fates] /\ room \in [Texts -> Instances \cup {None}]
  /\ completed \in [Instances -> BOOLEAN] /\ scenario \in Scenarios /\ presses \in 0..MaxInputs
  /\ \A t \in Texts : fate[t] = "parked" <=> slot = t
  /\ \A i \in Instances : /\ loops[i] \subseteq 1..gen[i]
                          /\ stage[i] = "looping" => own[i] \in loops[i]
                          /\ cont[i] # "idle" => chain[i] # <<>>

(* The only message of a user who does not press Cancel is delivered at most once, and
   never lost, whatever fails while its task is being replaced: a history that cannot be
   read, a restoration that throws, a guard that does not wait long enough.  Together a
   slow replacement and its missing history are too much: what the guard's own replacement
   restores with the message is removed by the first one. *)
LoneMessageIsSafe ==
  \A t \in Texts : fate[t] \in {"lost", "twice"} =>
    presses > 0 \/ Sent # {t} \/ {"history", "slow"} \subseteq scenario.faults

(* "The first ... send always produces a model turn": when the loops end, no message is
   left in the slot, in a chain or in a restoration, unless the guard was set blind. *)
MessagesSettle ==
  (\A i \in Instances : []<>(loops[i] = {})) /\ [](guard # "blind") =>
    \A t \in Texts : fate[t] \in {"editing", "chained", "parked", "carried"}
                       ~> fate[t] \in {"said", "answered", "lost", "twice"}

(* "A Task ... must never run two initiateTaskLoop instances concurrently." *)
OneLoop == \A i \in Instances : Cardinality(loops[i]) <= 1
=============================================================================
