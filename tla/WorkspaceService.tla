--------------------------- MODULE WorkspaceService ---------------------------
(***************************************************************************)
(* The git-worktree operations over the shared registry                    *)
(* (core/kilocode/parallel/WorkspaceService.ts): creating, adopting,       *)
(* deleting and merging workspaces.  Each of them is a chain of awaits, so *)
(* the windows' procedures, the tasks' merges and the agents of            *)
(* WorkspaceRegistry interleave between any two steps.                     *)
(*                                                                         *)
(* Git is kept as sets of commit numbers: a branch is the set of commits   *)
(* it contains.  The target only moves forward, so equal sets are equal    *)
(* heads.                                                                  *)
(***************************************************************************)
EXTENDS WorkspaceRegistry

CONSTANTS
  Mergers,     \* tasks that merge workspaces (the `allowOwner` of the call)
  Managers,    \* windows that create and adopt workspaces
  Deleters,    \* windows whose user deletes workspaces
  MaxCommits   \* bound on the commits ever made

ASSUME ServiceAssumption == /\ Mergers \subseteq Parents \cup Agents
                            /\ Managers \subseteq Windows /\ Deleters \subseteq Windows
                            /\ MaxCommits \in Nat

VARIABLES
  dir,      \* worktree directories on disk
  dirty,    \* worktrees with uncommitted changes
  branch,   \* branch[n]: commits of branch deeptask/<n>, for the branches that exist
  main,     \* commits of the target branch
  made,     \* commits made so far
  proc,     \* proc[w]: the create, adopt or delete under way in window w
  mrg       \* mrg[t]: the merge under way for task t

gitVars == <<dir, dirty, branch, main, made>>
svcVars == <<stored, cache, request, holds, bound, gitVars, proc, mrg>>
agentVars == <<request, bound>>

Commits == 1..MaxCommits
NoProc  == [op |-> "none", name |-> Nobody]
NoMerge == [pc |-> "idle", name |-> Nobody, base |-> {}, src |-> {}]
MergeStages == {"idle", "ok", "check", "leave", "recheck", "gone", "commit", "capture",
                "upToDate", "prepare", "publish", "verify", "book", "unregister"}

(***************************************************************************)
(* Plausible slips of the code.                                            *)
(***************************************************************************)
SlipPublishable(t)   == TRUE
SlipVerified(t)      == TRUE
SlipRecheckFree(t)   == TRUE
SlipAddWorktree(n, dirs) == dir' = dirs \cup {n} /\ UNCHANGED branch

Merging(t) == mrg[t].name
At(t, s)   == mrg[t].pc = s
Goto(t, s) == mrg' = [mrg EXCEPT ![t].pc = s]
Refuse(t)  == mrg' = [mrg EXCEPT ![t] = NoMerge]
Succeed(t) == mrg' = [mrg EXCEPT ![t] = [NoMerge EXCEPT !.pc = "ok", !.src = mrg[t].src]]

SvcInit == /\ Init
           /\ dir = {} /\ dirty = {} /\ branch = << >>
           /\ main = {} /\ made = 0
           /\ proc = [w \in Windows |-> NoProc]
           /\ mrg = [t \in Mergers |-> NoMerge]

(***************************************************************************)
(* create()                                                                *)
(***************************************************************************)
\* uniqueWorkspaceName() settles on a name nobody seems to use, and a leftover
\* branch of that name is deleted.
CreateName(w, n) ==
  /\ proc[w] = NoProc /\ cache[w][n].status = "absent" /\ n \notin dir
  /\ branch' = [m \in DOMAIN branch \ {n} |-> branch[m]]
  /\ proc' = [proc EXCEPT ![w] = [op |-> "add", name |-> n]]
  /\ UNCHANGED <<regVars, dir, dirty, main, made, mrg>>

AddWorktree(n, dirs) == /\ dir' = dirs \cup {n}
                        /\ branch' = [m \in DOMAIN branch \cup {n} |->
                                      IF m = n THEN main ELSE branch[m]]

\* `git worktree add -b`.  When git finds the branch in place already, create()
\* takes it for a leftover, removes the directory and retries once under a name
\* with a timestamp.
CreateAdd(w) ==
  LET n == proc[w].name IN
  /\ proc[w].op = "add"
  /\ IF n \notin DOMAIN branch
     THEN /\ AddWorktree(n, dir)
          /\ proc' = [proc EXCEPT ![w].op = "register"]
          /\ UNCHANGED dirty
     ELSE /\ dirty' = dirty \ {n}
          /\ \/ \E m \in Names \ (DOMAIN branch \cup dir) :
                  /\ AddWorktree(m, dir \ {n})
                  /\ proc' = [proc EXCEPT ![w] = [op |-> "register", name |-> m]]
             \/ /\ dir' = dir \ {n}
                /\ proc' = [proc EXCEPT ![w] = NoProc]
                /\ UNCHANGED branch
  /\ UNCHANGED <<regVars, main, made, mrg>>

\* register() at the end of create(), and of hydrateFromDisk(): it sets the entry
\* whatever the file holds by then.
RegisterEntry(w) ==
  /\ proc[w].op = "register"
  /\ Commit(w, Registered(Current(w), proc[w].name))
  /\ proc' = [proc EXCEPT ![w] = NoProc]
  /\ UNCHANGED <<agentVars, holds, gitVars, mrg>>

(***************************************************************************)
(* hydrateFromDisk(), and the prune() it shares with summaries().          *)
(***************************************************************************)
Prune(w) ==
  /\ Commit(w, [n \in Names |-> IF n \in dir THEN Current(w)[n] ELSE Absent])
  /\ UNCHANGED <<agentVars, holds, gitVars, proc, mrg>>

Adopt(w, n) ==
  /\ proc[w] = NoProc /\ n \in dir /\ cache[w][n].status = "absent"
  /\ proc' = [proc EXCEPT ![w] = [op |-> "register", name |-> n]]
  /\ UNCHANGED <<regVars, gitVars, mrg>>

(***************************************************************************)
(* deleteWorkspace()                                                       *)
(***************************************************************************)
DeleteAsk(w, n) ==
  /\ proc[w] = NoProc /\ cache[w][n].status # "absent"
  /\ IF cache[w][n].status = "busy"
     THEN Commit(w, ForceReleased(Current(w), n))
     ELSE UNCHANGED <<stored, cache>>
  /\ proc' = [proc EXCEPT ![w] = [op |-> "rmdir", name |-> n]]
  /\ UNCHANGED <<agentVars, holds, gitVars, mrg>>

RemoveWorktree(n) == /\ dir' = dir \ {n} /\ dirty' = dirty \ {n}
                     /\ UNCHANGED <<branch, main, made>>

DeleteDir(w) ==
  /\ proc[w].op = "rmdir"
  /\ RemoveWorktree(proc[w].name)
  /\ proc' = [proc EXCEPT ![w].op = "unregister"]
  /\ UNCHANGED <<regVars, mrg>>

DeleteEntry(w) ==
  /\ proc[w].op = "unregister"
  /\ Commit(w, Removed(Current(w), proc[w].name))
  /\ proc' = [proc EXCEPT ![w] = NoProc]
  /\ UNCHANGED <<agentVars, holds, gitVars, mrg>>

\* A git command or a registry transaction fails: the procedure throws.
ProcFail(w) == /\ proc[w] # NoProc
               /\ proc' = [proc EXCEPT ![w] = NoProc]
               /\ UNCHANGED <<regVars, gitVars, mrg>>

(***************************************************************************)
(* merge()                                                                 *)
(***************************************************************************)
MergeStart(t, n) ==
  /\ At(t, "idle") \/ At(t, "ok")
  /\ mrg' = [mrg EXCEPT ![t] = [NoMerge EXCEPT !.pc = "check", !.name = n]]
  /\ cache' = [cache EXCEPT ![Home[t]] = stored]
  /\ UNCHANGED <<stored, agentVars, holds, gitVars, proc>>

\* existsSync(), in the same turn as the check that let the merge through.
Proceed(t) == Goto(t, IF Merging(t) \in dir THEN "commit" ELSE "gone")

MergeCheck(t) ==
  LET entry == cache[Home[t]][Merging(t)] IN
  /\ At(t, "check")
  /\ \/ entry.status = "absent" /\ Refuse(t)
     \/ entry.status = "busy" /\ entry.owner = t /\ Goto(t, "leave")
     \/ entry.status = "busy" /\ entry.owner # t /\ Refuse(t)
     \/ entry.status \notin {"absent", "busy"} /\ Proceed(t)
  /\ UNCHANGED <<regVars, gitVars, proc>>

\* The task gives up its own claim, or its dispatcher's claim for a child.
MergeLeave(t) ==
  /\ At(t, "leave")
  /\ Commit(Home[t], Released(Current(Home[t]), Merging(t), t))
  /\ holds' = [a \in Agents |-> IF a = t THEN holds[a] \ {Merging(t)} ELSE holds[a]]
  /\ Goto(t, "recheck")
  /\ UNCHANGED <<agentVars, gitVars, proc>>

RecheckFree(t) == stored[Merging(t)].status # "busy"

MergeRecheck(t) ==
  /\ At(t, "recheck")
  /\ cache' = [cache EXCEPT ![Home[t]] = stored]
  /\ IF RecheckFree(t) THEN Proceed(t) ELSE Refuse(t)
  /\ UNCHANGED <<stored, agentVars, holds, gitVars, proc>>

MergeGone(t) == /\ At(t, "gone")
                /\ Commit(Home[t], Removed(Current(Home[t]), Merging(t)))
                /\ Refuse(t)
                /\ UNCHANGED <<agentVars, holds, gitVars, proc>>

Committed(n) == [branch EXCEPT ![n] = @ \cup {made + 1}]

\* "Commit any pending work in the agent workspace so nothing is lost."
MergeAutoCommit(t) ==
  LET n == Merging(t) IN
  /\ At(t, "commit") /\ n \in dir
  /\ IF n \in dirty
     THEN /\ made < MaxCommits /\ made' = made + 1
          /\ branch' = Committed(n) /\ dirty' = dirty \ {n}
     ELSE UNCHANGED <<made, branch, dirty>>
  /\ Goto(t, "capture")
  /\ UNCHANGED <<regVars, dir, main, proc>>

\* The head of the target, then the head of the workspace; the publication below
\* notices a target that has moved since.
MergeCapture(t) ==
  /\ At(t, "capture") /\ Merging(t) \in dir
  /\ LET src == branch[Merging(t)] IN
       mrg' = [mrg EXCEPT ![t].base = main, ![t].src = src,
                 ![t].pc = IF src \subseteq main THEN "upToDate" ELSE "prepare"]
  /\ UNCHANGED <<regVars, gitVars, proc>>

\* registry.mark(): at the end of a merge, and when there was nothing to merge.
MergeMark(t, status) ==
  /\ Commit(Home[t], Marked(Current(Home[t]), Merging(t), status))
  /\ UNCHANGED <<agentVars, holds, gitVars, proc>>

MergeUpToDate(t) == At(t, "upToDate") /\ MergeMark(t, "merged") /\ Succeed(t)

\* The merge commit is prepared in a detached temporary worktree.
MergePrepare(t) == /\ At(t, "prepare") /\ Goto(t, "publish")
                   /\ UNCHANGED <<regVars, gitVars, proc>>

MergeConflict(t) == At(t, "prepare") /\ MergeMark(t, "conflicted") /\ Refuse(t)

\* `merge --ff-only` in the target's checkout, or `update-ref` with the old value:
\* git lets neither move a target that is no longer the base.
Publishable(t) == main = mrg[t].base

\* A refusal (local changes overlap, the target moved) is MergeFail; it may also go
\* unreported by the git wrapper, which reads only English output, and then it is
\* left to MergeVerify.
MergePublish(t) ==
  /\ At(t, "publish")
  /\ \/ /\ Publishable(t)
        /\ main' = mrg[t].base \cup mrg[t].src
     \/ UNCHANGED main
  /\ Goto(t, "verify")
  /\ UNCHANGED <<regVars, dir, dirty, branch, made, proc>>

Verified(t) == main = mrg[t].base \cup mrg[t].src

MergeVerify(t) == /\ At(t, "verify")
                  /\ IF Verified(t) THEN mrg' = [mrg EXCEPT ![t].pc = "book", ![t].base = {}] ELSE Refuse(t)
                  /\ UNCHANGED <<regVars, gitVars, proc>>

\* `removeAfter` is an argument of the call that nothing before this point reads,
\* so the choice is made here.
MergeBookMark(t) == At(t, "book") /\ MergeMark(t, "merged") /\ Succeed(t)

MergeBookRemove(t) == /\ At(t, "book")
                      /\ RemoveWorktree(Merging(t)) /\ Goto(t, "unregister")
                      /\ UNCHANGED <<regVars, proc>>

MergeBookEntry(t) == /\ At(t, "unregister")
                     /\ Commit(Home[t], Removed(Current(Home[t]), Merging(t)))
                     /\ Succeed(t)
                     /\ UNCHANGED <<agentVars, holds, gitVars, proc>>

\* A git command or a registry transaction on the way fails: the caller gets
\* ok: false, even when the target was already updated.
MergeFail(t) == /\ ~At(t, "idle") /\ ~At(t, "ok") /\ Refuse(t)
                /\ UNCHANGED <<regVars, gitVars, proc>>

(***************************************************************************)
(* The agents, which work in the workspaces they hold, and the user, who   *)
(* commits to the target.                                                  *)
(***************************************************************************)
AgentClaim(a, n, o) ==
  LET m == Current(Home[a]) IN
  /\ n \notin holds[a]
  /\ Commit(Home[a], Claimed(m, n, o))
  /\ holds' = [holds EXCEPT ![a] = IF Claimable(m, n) THEN @ \cup {n} ELSE @]
  /\ UNCHANGED <<agentVars, gitVars, proc, mrg>>

\* A settled child gives back, in two transactions, its assigned workspace and the
\* ones under its own tag; what it has given back, or had lost, it no longer holds.
AgentRelease(a, n) ==
  LET m == Current(Home[a]) IN
  /\ n \in holds[a]
  /\ Commit(Home[a], Released(m, n, Parent[a]))
  /\ holds' = [holds EXCEPT ![a] = IF ReleasableBy(m, n, a) THEN @ ELSE @ \ {n}]
  /\ UNCHANGED <<agentVars, gitVars, proc, mrg>>

AgentReleaseOwned(a) ==
  LET m == Current(Home[a]) IN
  /\ holds[a] # {}
  /\ Commit(Home[a], ReleasedOwnedBy(m, a))
  /\ holds' = [holds EXCEPT ![a] = {n \in @ : ReleasableBy(m, n, Parent[a])}]
  /\ UNCHANGED <<agentVars, gitVars, proc, mrg>>

AgentWrite(a, n) == /\ n \in holds[a] /\ n \in dir
                    /\ dirty' = dirty \cup {n}
                    /\ UNCHANGED <<regVars, dir, branch, main, made, proc, mrg>>

UserCommit == /\ made < MaxCommits /\ made' = made + 1
              /\ main' = main \cup {made'}
              /\ UNCHANGED <<regVars, dir, dirty, branch, proc, mrg>>

MergeStep(t) ==
  \/ \E n \in Names : MergeStart(t, n)
  \/ MergeCheck(t) \/ MergeLeave(t) \/ MergeRecheck(t) \/ MergeGone(t)
  \/ MergeAutoCommit(t) \/ MergeCapture(t) \/ MergeUpToDate(t)
  \/ MergePrepare(t) \/ MergeConflict(t) \/ MergePublish(t)
  \/ MergeVerify(t) \/ MergeBookMark(t) \/ MergeBookRemove(t) \/ MergeBookEntry(t)
  \/ MergeFail(t)

\* Nothing here distinguishes when a claim or a release was asked for, so each is
\* one step (WorkspaceRegistry has the two apart).
AgentStepInService(a) ==
  \/ \E n \in Names, o \in {a, Parent[a]} : AgentClaim(a, n, o)
  \/ \E n \in Names : AgentRelease(a, n) \/ AgentWrite(a, n)
  \/ AgentReleaseOwned(a)

WindowStep(w) ==
  \/ w \in Managers /\ (Prune(w) \/ \E n \in Names : CreateName(w, n) \/ Adopt(w, n))
  \/ w \in Deleters /\ \E n \in Names : DeleteAsk(w, n)
  \/ CreateAdd(w) \/ RegisterEntry(w) \/ DeleteDir(w) \/ DeleteEntry(w) \/ ProcFail(w)

SvcNext == \/ \E w \in Windows : WindowStep(w)
           \/ \E t \in Mergers : MergeStep(t)
           \/ \E a \in Agents : AgentStepInService(a)
           \/ UserCommit

SvcSpec == SvcInit /\ [][SvcNext]_svcVars

-----------------------------------------------------------------------------
(* The registry keeps its shape under the service's operations, every worktree
   on disk has its branch, and only worktrees on disk are dirty. *)
SvcTypeOK ==
  /\ TypeOK
  /\ dir \subseteq Names /\ dirty \subseteq dir /\ dir \subseteq DOMAIN branch
  /\ DOMAIN branch \subseteq Names /\ \A n \in DOMAIN branch : branch[n] \subseteq 1..made
  /\ main \subseteq 1..made /\ made \in 0..MaxCommits
  /\ proc \in [Windows -> [op : {"none", "add", "register", "rmdir", "unregister"},
                           name : Names \cup {Nobody}]]
  /\ mrg \in [Mergers -> [pc : MergeStages, name : Names \cup {Nobody},
                          base : SUBSET Commits, src : SUBSET Commits]]

(* "A detached merge commit alone must NEVER be reported as a successful merge"
   (merge()): once a merge has answered ok, the commits it captured are on the
   target and stay there, whatever merges race with it. *)
MergeOkIsPublished ==
  \A t \in Mergers : At(t, "ok") => mrg[t].src \subseteq main

(* A merge removes a worktree only after the work it captured from it has reached
   the target, even when git refuses the update without saying so. *)
MergeRemovesOnlyPublished ==
  [][\A t \in Mergers : At(t, "book") /\ Merging(t) \in dir \ dir'
       => mrg[t].src \subseteq main]_svcVars

(* Giving up a claim in order to merge never evicts another claimant: if the
   workspace changed hands since merge() looked, its entry stays as it is, and
   the merge is refused unless it is free again when looked at afterwards. *)
MergeLeavesForeignClaims ==
  [][\A t \in Mergers : mrg'[t].pc # mrg[t].pc =>
       /\ At(t, "leave") /\ stored[Merging(t)].owner \notin {t, Nobody}
            => stored'[Merging(t)] = stored[Merging(t)]
       /\ At(t, "recheck") /\ stored[Merging(t)].status = "busy" => mrg'[t].pc = "idle"]_svcVars
=============================================================================
