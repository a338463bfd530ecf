--------------------------- MODULE SubagentSession ---------------------------
(***************************************************************************)
(* The life of the subagents one parent dispatched, as ParallelManager     *)
(* keeps it: the child's run, the settlement chain behind it, the cancel   *)
(* watchdog that gives up on a hung run, the user who continues a child    *)
(* with another Task instance, and the parent that waits, leaves and       *)
(* resumes.  Everything runs on one event loop, so an action is what one   *)
(* turn of it does; the turns of different callbacks interleave.           *)
(***************************************************************************)
EXTENDS Naturals

CONSTANTS Children,    \* the children of one dispatch_subagents call
          MaxTimers    \* bound on the watchdogs armed at a time for a child

ASSUME SessionAssumption == MaxTimers \in Nat \ {0}

VARIABLES
  status,    \* info.status
  task,      \* which Task instance state.task is: the spawned one or a resumed one
  abort,     \* the abort flag of that instance
  stack,     \* the instance of this conversation on the provider's stack
  run,       \* the run of the spawned instance, and how its promise settled
  chain,     \* where spawn()'s settlement chain awaits
  forced,    \* state.forceSettled
  timers,    \* watchdogs armed and not yet fired
  done,      \* the promise the parent waits on has resolved
  claim,     \* the assigned workspace is claimed for this child
  own,       \* the child has claimed a workspace under its own task id
  failed,    \* which best-effort steps of the settlement failed
  writing,   \* the status the settlement chain is writing to the inbox
  late,      \* the status the watchdog is writing to the inbox
  inbox,     \* the status in the child's inbox entry
  mark,      \* markConversationCompleted() is queued
  stopping,  \* cancelTask() is between its abort and its cancel()
  parent,    \* where the parent's dispatch is
  report     \* what the parent told its model about each child

taskVars == <<task, abort, stack>>
resultVars == <<writing, late, inbox, failed>>
parentVars == <<parent, report>>
vars == <<status, taskVars, run, chain, forced, timers, done, claim, own, resultVars,
          mark, stopping, parentVars>>

Final == {"completed", "cancelled", "error"}
Ended == {"finished", "cut", "threw"}

Set(f, c, v) == [f EXCEPT ![c] = v]

(***************************************************************************)
(* Plausible slips of the code.                                            *)
(***************************************************************************)
SlipInboxStatus(s)  == s
SlipCanRelease(c)   == TRUE
SlipSettled(c)      == Set(status, c, IF run[c] = "threw" THEN "error" ELSE "completed")
SlipArm(c)          == timers
SlipForcedStatus(c) == "completed"
SlipRunSettled(c)   == run[c] \in Ended \/ forced[c]
SlipHandled(c)      == done' = Set(done, c, TRUE)

\* persistSessionInbox() stores only final statuses.
InboxStatus(s) == IF s \in Final THEN s ELSE "error"

Init == /\ status   = [c \in Children |-> "running"]
        /\ task     = [c \in Children |-> "spawned"]
        /\ abort    = [c \in Children |-> FALSE]
        /\ stack    = [c \in Children |-> "spawned"]
        /\ run      = [c \in Children |-> "pending"]
        /\ chain    = [c \in Children |-> "run"]
        /\ forced   = [c \in Children |-> FALSE]
        /\ timers   = [c \in Children |-> 0]
        /\ done     = [c \in Children |-> FALSE]
        /\ claim    = [c \in Children |-> TRUE]
        /\ own      = [c \in Children |-> FALSE]
        /\ failed   = [c \in Children |-> {}]
        /\ writing  = [c \in Children |-> "none"]
        /\ late     = [c \in Children |-> "none"]
        /\ inbox    = [c \in Children |-> "none"]
        /\ mark     = [c \in Children |-> FALSE]
        /\ stopping = [c \in Children |-> FALSE]
        /\ parent   = "waiting"
        /\ report   = [c \in Children |-> "none"]

(***************************************************************************)
(* The child's run.                                                        *)
(***************************************************************************)
\* The spawned instance has been aborted: only then is it replaced while it runs.
Aborted(c) == abort[c] \/ task[c] = "resumed"

\* attempt_completion emits TaskCompleted, whose listener queues the mark, and the
\* loop is about to end.
Announce(c) ==
  /\ run[c] = "pending" /\ ~Aborted(c)
  /\ run' = Set(run, c, "announced")
  /\ mark' = Set(mark, c, TRUE)
  /\ UNCHANGED <<status, taskVars, chain, forced, timers, done, claim, own, resultVars,
                 stopping, parentVars>>

\* The run promise settles.  An aborted loop just ends, and startTask() swallows the
\* rejection of an abandoned task, so its promise resolves ("cut"); an abort noticed
\* outside of the loop rejects it.  A run may also hang.
RunEnds(c) ==
  /\ \/ run[c] \in {"pending", "announced"} /\ run' = Set(run, c, "finished")
     \/ run[c] = "pending" /\ Aborted(c) /\ run' = Set(run, c, "cut")
     \/ run[c] = "pending" /\ run' = Set(run, c, "threw")
  /\ UNCHANGED <<status, taskVars, chain, forced, timers, done, claim, own, resultVars,
                 mark, stopping, parentVars>>

\* workspace_create and relocation claim further workspaces as "task:<id>".
ClaimOwn(c) ==
  /\ run[c] = "pending" \/ stack[c] = "resumed"
  /\ ~own[c] /\ own' = Set(own, c, TRUE)
  /\ UNCHANGED <<status, taskVars, run, chain, forced, timers, done, claim, resultVars,
                 mark, stopping, parentVars>>

(***************************************************************************)
(* spawn()'s settlement chain: .then/.catch, .finally, done.               *)
(***************************************************************************)
\* runPromise has settled.
RunSettled(c) == run[c] \in Ended

\* The status the handler of the settled run leaves.
Settled(c) ==
  IF forced[c] THEN status
  ELSE Set(status, c, CASE run[c] # "threw" -> "completed"
                        [] run[c] = "threw" /\ abort[c] -> "cancelled"
                        [] OTHER -> "error")

\* `done` resolves when the chain is over, not before.
Handled(c) == UNCHANGED done

Handler(c) ==
  /\ chain[c] = "run" /\ RunSettled(c)
  /\ IF task[c] = "spawned"
     THEN /\ status' = Settled(c)
          /\ writing' = Set(writing, c, InboxStatus(status'[c]))
          /\ chain' = Set(chain, c, "persist")
     ELSE /\ chain' = Set(chain, c, "finally")
          /\ UNCHANGED <<status, writing>>
  /\ Handled(c)
  /\ UNCHANGED <<taskVars, run, forced, timers, claim, own, late, inbox, failed, mark,
                 stopping, parentVars>>

Persist(c) ==
  /\ chain[c] = "persist"
  /\ \/ inbox' = Set(inbox, c, writing[c]) /\ UNCHANGED failed
     \/ failed' = Set(failed, c, failed[c] \cup {"persist"}) /\ UNCHANGED inbox
  /\ writing' = Set(writing, c, "none")
  /\ chain' = Set(chain, c, "finally")
  /\ UNCHANGED <<status, taskVars, run, forced, timers, done, claim, own, late, mark,
                 stopping, parentVars>>

Over(c) == chain' = Set(chain, c, "over") /\ done' = Set(done, c, TRUE)

\* state.task === child, asked again at every turn of the chain, the registry's
\* release transactions included.
CanRelease(c) == task[c] = "spawned"

Finally(c) ==
  /\ chain[c] = "finally"
  /\ IF CanRelease(c)
     THEN /\ stack' = Set(stack, c, "none")
          /\ chain' = Set(chain, c, "release") /\ UNCHANGED done
     ELSE Over(c) /\ UNCHANGED stack
  /\ UNCHANGED <<status, task, abort, run, forced, timers, claim, own, resultVars, mark,
                 stopping, parentVars>>

Release(c) ==
  /\ chain[c] = "release"
  /\ \/ /\ claim' = Set(claim, c, claim[c] /\ ~CanRelease(c))
        /\ IF CanRelease(c)
           THEN chain' = Set(chain, c, "releaseOwned") /\ UNCHANGED done
           ELSE Over(c)
        /\ UNCHANGED failed
     \/ /\ failed' = Set(failed, c, failed[c] \cup {"release"})
        /\ Over(c) /\ UNCHANGED claim
  /\ UNCHANGED <<status, taskVars, run, forced, timers, own, writing, late, inbox, mark,
                 stopping, parentVars>>

ReleaseOwned(c) ==
  /\ chain[c] = "releaseOwned"
  /\ \/ own' = Set(own, c, own[c] /\ ~CanRelease(c)) /\ UNCHANGED failed
     \/ failed' = Set(failed, c, failed[c] \cup {"release"}) /\ UNCHANGED own
  /\ Over(c)
  /\ UNCHANGED <<status, taskVars, run, forced, timers, claim, writing, late, inbox, mark,
                 stopping, parentVars>>

(***************************************************************************)
(* cancel() and its watchdog.                                              *)
(***************************************************************************)
Arm(c) == Set(timers, c, timers[c] + 1)

CancelRunning(c) == /\ status[c] = "running" /\ timers[c] < MaxTimers
                    /\ abort' = Set(abort, c, TRUE) /\ timers' = Arm(c)
                    /\ UNCHANGED status

CancelSettled(c) == /\ status[c] # "running"
                    /\ status' = Set(status, c, "cancelled")
                    /\ UNCHANGED <<abort, timers>>

\* Stop in the agent's panel.
PanelStop(c) ==
  /\ \/ CancelRunning(c) /\ UNCHANGED stack
     \/ CancelSettled(c) /\ stack' = Set(stack, c, "none")
  /\ UNCHANGED <<task, run, chain, forced, done, claim, own, resultVars, mark, stopping,
                 parentVars>>

\* Stop in the focused conversation: cancelTask() aborts and awaits ...
StopAbort(c) ==
  /\ stack[c] = task[c] /\ ~stopping[c]
  /\ abort' = Set(abort, c, TRUE) /\ stopping' = Set(stopping, c, TRUE)
  /\ UNCHANGED <<status, task, stack, run, chain, forced, timers, done, claim, own,
                 resultVars, mark, parentVars>>

\* ... and then tells the manager and takes the task off the stack.
StopCancel(c) ==
  /\ stopping[c] /\ stopping' = Set(stopping, c, FALSE)
  /\ CancelRunning(c) \/ CancelSettled(c)
  /\ stack' = Set(stack, c, "none")
  /\ UNCHANGED <<task, run, chain, forced, done, claim, own, resultVars, mark, parentVars>>

ForcedStatus(c) == IF abort[c] THEN "cancelled" ELSE "error"

\* The settlement the watchdog forces on a session that is still running.
Watchdog(c) ==
  /\ timers[c] > 0 /\ timers' = Set(timers, c, timers[c] - 1)
  /\ IF status[c] = "running"
     THEN /\ status' = Set(status, c, ForcedStatus(c))
          /\ forced' = Set(forced, c, TRUE)
          /\ late' = Set(late, c, InboxStatus(status'[c]))
          /\ done' = Set(done, c, TRUE)
     ELSE UNCHANGED <<status, forced, late, done>>
  /\ UNCHANGED <<taskVars, run, chain, claim, own, writing, inbox, failed, mark, stopping,
                 parentVars>>

\* Its inbox write, which nobody awaits.
LateWrite(c) ==
  /\ late[c] # "none" /\ late' = Set(late, c, "none")
  /\ \/ inbox' = Set(inbox, c, late[c]) /\ UNCHANGED failed
     \/ failed' = Set(failed, c, failed[c] \cup {"persist"}) /\ UNCHANGED inbox
  /\ UNCHANGED <<status, taskVars, run, chain, forced, timers, done, claim, own, writing,
                 mark, stopping, parentVars>>

(***************************************************************************)
(* The user continues the child: its conversation is reopened from history *)
(* as another Task instance, and markSessionRunning() binds it.            *)
(***************************************************************************)
Continue(c) ==
  /\ stack[c] = "none" /\ ~stopping[c]
  /\ status' = Set(status, c, "running") /\ task' = Set(task, c, "resumed")
  /\ stack' = Set(stack, c, "resumed") /\ abort' = Set(abort, c, FALSE)
  /\ UNCHANGED <<run, chain, forced, timers, done, claim, own, resultVars, mark, stopping,
                 parentVars>>

\* The resumed instance completes; soft completions do not get here.
ResumedAnnounces(c) ==
  /\ stack[c] = "resumed" /\ ~abort[c] /\ ~mark[c]
  /\ mark' = Set(mark, c, TRUE)
  /\ UNCHANGED <<status, taskVars, run, chain, forced, timers, done, claim, own, resultVars,
                 stopping, parentVars>>

MarkCompleted(c) ==
  /\ mark[c] /\ mark' = Set(mark, c, FALSE)
  /\ status' = IF status[c] = "running" THEN Set(status, c, "completed") ELSE status
  /\ UNCHANGED <<taskVars, run, chain, forced, timers, done, claim, own, resultVars,
                 stopping, parentVars>>

(***************************************************************************)
(* The parent.                                                             *)
(***************************************************************************)
AllDone == \A c \in Children : done[c]

\* A child without an inbox entry is reported from its session.
Reported(c) == IF inbox[c] # "none" THEN inbox[c] ELSE InboxStatus(status[c])

childVars == <<status, taskVars, run, chain, forced, timers, done, claim, own, resultVars,
               mark, stopping>>

ParentCollects == /\ parent = "waiting" /\ AllDone /\ parent' = "reported"
                  /\ report' = [c \in Children |-> Reported(c)]
                  /\ UNCHANGED childVars

\* The parent is interrupted: the poll in the tool returns without a result and
\* leaves the children running.
ParentLeaves == /\ parent \in {"waiting", "resuming"} /\ parent' = "left"
                /\ UNCHANGED <<childVars, report>>

ParentResumes == /\ parent = "left" /\ parent' = "resuming"
                 /\ UNCHANGED <<childVars, report>>

\* waitForChildrenOf() is over: what the inbox holds goes into the conversation.
ParentInjects == /\ parent = "resuming" /\ AllDone /\ parent' = "reported"
                 /\ report' = inbox
                 /\ UNCHANGED childVars

ChildStep(c) ==
  \/ Announce(c) \/ RunEnds(c) \/ ClaimOwn(c)
  \/ Handler(c) \/ Persist(c) \/ Finally(c) \/ Release(c) \/ ReleaseOwned(c)
  \/ PanelStop(c) \/ StopAbort(c) \/ StopCancel(c) \/ Watchdog(c) \/ LateWrite(c)
  \/ Continue(c) \/ ResumedAnnounces(c) \/ MarkCompleted(c)

Next == \/ \E c \in Children : ChildStep(c)
        \/ ParentCollects \/ ParentLeaves \/ ParentResumes \/ ParentInjects

\* Promise reactions, timers and the rest of cancelTask() run; an announced run
\* ends.  Nothing makes any other run end, or the user or the parent act.
Fairness ==
  \A c \in Children :
    /\ WF_vars(Handler(c)) /\ WF_vars(Persist(c)) /\ WF_vars(Finally(c))
    /\ WF_vars(Release(c)) /\ WF_vars(ReleaseOwned(c))
    /\ WF_vars(Watchdog(c)) /\ WF_vars(StopCancel(c)) /\ WF_vars(MarkCompleted(c))
    /\ WF_vars(run[c] = "announced" /\ RunEnds(c))

Spec == Init /\ [][Next]_vars
FairSpec == Spec /\ Fairness

-----------------------------------------------------------------------------
(* Every field keeps to the values of its type; the inbox holds final statuses. *)
TypeOK ==
  /\ status \in [Children -> Final \cup {"running"}]
  /\ task \in [Children -> {"spawned", "resumed"}]
  /\ stack \in [Children -> {"spawned", "resumed", "none"}]
  /\ run \in [Children -> Ended \cup {"pending", "announced"}]
  /\ chain \in [Children -> {"run", "persist", "finally", "release", "releaseOwned", "over"}]
  /\ timers \in [Children -> 0..MaxTimers]
  /\ failed \in [Children -> SUBSET {"persist", "release"}]
  /\ writing \in [Children -> Final \cup {"none"}] /\ late \in [Children -> Final \cup {"none"}]
  /\ inbox \in [Children -> Final \cup {"none"}] /\ report \in [Children -> Final \cup {"none"}]
  /\ abort \in [Children -> BOOLEAN] /\ forced \in [Children -> BOOLEAN]
  /\ done \in [Children -> BOOLEAN] /\ mark \in [Children -> BOOLEAN]
  /\ claim \in [Children -> BOOLEAN] /\ own \in [Children -> BOOLEAN]
  /\ stopping \in [Children -> BOOLEAN]
  /\ parent \in {"waiting", "reported", "left", "resuming"}

(* "A watchdog result is not proof that writes stopped" (spawn()): while the spawned
   run may still write, its workspace stays claimed, whatever the watchdog, a stop
   or the parent have concluded about the child. *)
ClaimOutlivesRun ==
  \A c \in Children : ~claim[c] => run[c] \in Ended

(* "awaiting done guarantees the child is fully cleaned up" (spawn()): unless the
   watchdog forced it or the user took the child over, a resolved `done` means the
   inbox entry is on disk, the claims are given back and the child is off the
   provider's stack, save for steps that reported their failure. *)
DoneMeansCleanedUp ==
  \A c \in Children : done[c] /\ ~forced[c] /\ task[c] = "spawned" =>
    /\ inbox[c] # "none" \/ "persist" \in failed[c]
    /\ (~claim[c] /\ ~own[c]) \/ "release" \in failed[c]
    /\ stack[c] = "none"

(* The parent never tells its model that a child completed while the run it spawned
   is still working, be it through the early completion mark or a forced settlement:
   "completed" means that the run ended or announced its completion, or that the
   user took the child over. *)
CompletedMeansEnded ==
  \A c \in Children : report[c] = "completed" =>
    run[c] \in Ended \cup {"announced"} \/ task[c] = "resumed"

(* What the watchdog decided stays: the late settlement of the hung run never turns
   the status of the cancelled child into another one (DEFECT S). *)
ForcedStatusSticks ==
  [][\A c \in Children : forced[c] /\ task[c] = "spawned" /\ task'[c] = "spawned"
       => status'[c] \in {status[c], "cancelled"}]_vars

(* Once the user has continued a child, the settlement chain of the instance it
   replaced is inert: it neither changes the session's status, nor evicts the live
   instance, nor gives back a workspace it works in. *)
StaleSettlementInert ==
  [][\A c \in Children : task[c] = "resumed" /\ chain'[c] # chain[c]
       => /\ status'[c] = status[c] /\ stack'[c] = stack[c]
          /\ claim'[c] = claim[c] /\ own'[c] = own[c]]_vars

(* Stopping a child unblocks the parent that waits on it, even when the child's run
   never settles, unless the user goes on with the child. *)
StopUnblocks ==
  \A c \in Children : (abort[c] /\ task[c] = "spawned") ~> (done[c] \/ task[c] = "resumed")
=============================================================================
