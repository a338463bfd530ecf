-------------------------- MODULE WorkspaceRegistry --------------------------
(***************************************************************************)
(* The registry of git-worktree workspaces that parallel agents claim      *)
(* (core/kilocode/parallel/WorkspaceRegistry.ts).  Every window runs its   *)
(* own instance over one file shared by all windows.  A mutation reads,    *)
(* decides and writes inside one inter-process transaction, and leaves its *)
(* result in the instance's cache; list(), get() and isBusy() read the     *)
(* cache.  What is asynchronous is the distance between asking for a       *)
(* mutation and its transaction: an agent's request is a record that waits *)
(* for its turn.                                                           *)
(***************************************************************************)
EXTENDS Naturals

CONSTANTS
  Windows,   \* extension hosts, one WorkspaceRegistry instance each
  Names,     \* workspace names
  Parents,   \* dispatching tasks: owner strings "dispatch:<taskId>"
  Agents,    \* claiming tasks:    owner strings "task:<taskId>"
  Home,      \* Home[t]: the window task t (an agent or a dispatcher) runs in
  Parent,    \* Parent[a]: the task that dispatched agent a
  Nobody     \* the owner field of an entry that is not busy

ASSUME RegistryAssumption ==
  /\ Home \in [Agents \cup Parents -> Windows]
  /\ Parent \in [Agents -> Parents]
  /\ Parents \cap Agents = {}
  /\ Nobody \notin Parents \cup Agents

VARIABLES
  stored,    \* the shared registry file
  cache,     \* cache[w]: the `workspaces` map of window w
  request,   \* request[a]: the mutation agent a awaits
  holds,     \* holds[a]: the workspaces granted to a and not yet given back
  bound      \* bound[a]: the session still points at the Task that was spawned

regVars == <<stored, cache, request, holds, bound>>

Owners   == Parents \cup Agents
Statuses == {"absent", "available", "busy", "merged", "conflicted"}
Entries  == [status : Statuses, owner : Owners \cup {Nobody}]
Absent   == [status |-> "absent", owner |-> Nobody]
Free     == [status |-> "available", owner |-> Nobody]

Requests ==
  {[op |-> "none"]}
    \cup [op : {"claim", "release"}, name : Names, owner : Owners]
    \cup [op : {"releaseOwned"}, owner : Owners]
NoRequest == [op |-> "none"]

(***************************************************************************)
(* Plausible slips of the code, each substituted for one definition below  *)
(* to show that the properties notice it.                                  *)
(***************************************************************************)
SlipStaleRead(w)           == cache[w]
SlipAnyOwner(m, n, o)      == m[n].status = "busy"
SlipCheckedWhenAsked(a)    == TRUE
SlipOwnerAsStatus(m, n, o) == [m EXCEPT ![n] = [status |-> o, owner |-> o]]

(***************************************************************************)
(* Transaction bodies: the map after the update.                           *)
(***************************************************************************)
Registered(m, n) == [m EXCEPT ![n] = Free]

Claimable(m, n) == m[n].status \notin {"absent", "busy"}

Claimed(m, n, o) ==
  IF Claimable(m, n) THEN [m EXCEPT ![n] = [status |-> "busy", owner |-> o]] ELSE m

\* The claim an entry must still carry for a guarded release to touch it.
ReleasableBy(m, n, o) == m[n].status = "busy" /\ m[n].owner = o

Released(m, n, o) == IF ReleasableBy(m, n, o) THEN [m EXCEPT ![n] = Free] ELSE m

ReleasedOwnedBy(m, o) == [n \in Names |-> IF ReleasableBy(m, n, o) THEN Free ELSE m[n]]

\* release() with no expected owner, as deleteWorkspace and the service call it.
ForceReleased(m, n) == IF m[n].status = "absent" THEN m ELSE [m EXCEPT ![n] = Free]

\* mark() changes the status and leaves the owner field alone.
Marked(m, n, s) == IF m[n].status = "absent" THEN m ELSE [m EXCEPT ![n].status = s]

Removed(m, n) == [m EXCEPT ![n] = Absent]

\* What the transaction of window w starts from.
Current(w) == stored

\* mutate(): the new map becomes both the file and the window's cache.
Commit(w, m) == /\ stored' = m
                /\ cache' = [cache EXCEPT ![w] = m]

(***************************************************************************)
(* The registry's operations.                                              *)
(***************************************************************************)
Init == /\ stored = [n \in Names |-> Absent]
        /\ cache = [w \in Windows |-> [n \in Names |-> Absent]]
        /\ request = [a \in Agents |-> NoRequest]
        /\ holds = [a \in Agents |-> {}]
        /\ bound = [a \in Agents |-> TRUE]

\* register(), as WorkspaceService.create calls it: `git worktree add` has just
\* made the directory, so no other caller is registering the same name.
Register(w, n) == /\ stored[n].status = "absent"
                  /\ Commit(w, Registered(Current(w), n))
                  /\ UNCHANGED <<request, holds, bound>>

\* load(true): the cache catches up with the file.
Load(w) == /\ cache' = [cache EXCEPT ![w] = stored]
           /\ UNCHANGED <<stored, request, holds, bound>>

\* dispatch_subagents claims for the child it is about to spawn, as
\* "dispatch:<parent>"; workspace_create claims as "task:<id>".
AskClaim(a, n) ==
  /\ request[a] = NoRequest /\ n \notin holds[a]
  /\ \E o \in {a} \cup (IF bound[a] THEN {Parent[a]} ELSE {}) :
       request' = [request EXCEPT ![a] = [op |-> "claim", name |-> n, owner |-> o]]
  /\ UNCHANGED <<stored, cache, holds, bound>>

Claim(a) ==
  LET r == request[a] m == Current(Home[a]) IN
  /\ r.op = "claim"
  /\ Commit(Home[a], Claimed(m, r.name, r.owner))
  /\ holds' = [holds EXCEPT ![a] = IF Claimable(m, r.name) THEN @ \cup {r.name} ELSE @]
  /\ request' = [request EXCEPT ![a] = NoRequest]
  /\ UNCHANGED bound

\* The settlement of a dispatched child gives its assigned workspace back ...
AskRelease(a, n) ==
  /\ request[a] = NoRequest /\ bound[a] /\ n \in holds[a]
  /\ request' = [request EXCEPT ![a] = [op |-> "release", name |-> n, owner |-> Parent[a]]]
  /\ UNCHANGED <<stored, cache, holds, bound>>

\* ... and then whatever the child claimed under its own task id.
AskReleaseOwned(a) ==
  /\ request[a] = NoRequest /\ bound[a] /\ holds[a] # {}
  /\ request' = [request EXCEPT ![a] = [op |-> "releaseOwned", owner |-> a]]
  /\ UNCHANGED <<stored, cache, holds, bound>>

\* canRelease(): evaluated when the transaction runs, not when it was asked for.
CanRelease(a) == bound[a]

Release(a) ==
  LET r == request[a] m == Current(Home[a]) IN
  /\ r.op = "release"
  /\ IF CanRelease(a)
     THEN /\ Commit(Home[a], Released(m, r.name, r.owner))
          /\ holds' = [holds EXCEPT ![a] =
                         IF ReleasableBy(m, r.name, r.owner) THEN @ \ {r.name} ELSE @]
     ELSE Commit(Home[a], m) /\ UNCHANGED holds
  /\ request' = [request EXCEPT ![a] = NoRequest]
  /\ UNCHANGED bound

ReleaseOwned(a) ==
  LET r == request[a] m == Current(Home[a]) IN
  /\ r.op = "releaseOwned"
  /\ IF CanRelease(a)
     THEN /\ Commit(Home[a], ReleasedOwnedBy(m, r.owner))
          /\ holds' = [holds EXCEPT ![a] = {n \in @ : ~ReleasableBy(m, n, r.owner)}]
     ELSE Commit(Home[a], m) /\ UNCHANGED holds
  /\ request' = [request EXCEPT ![a] = NoRequest]
  /\ UNCHANGED bound

\* The store rejects the transaction (lock timeout, write error): the caller
\* gets the error and the queue goes on.
Reject(a) == /\ request[a] # NoRequest
             /\ request' = [request EXCEPT ![a] = NoRequest]
             /\ UNCHANGED <<stored, cache, holds, bound>>

\* The user continues the child: markSessionRunning binds another Task instance,
\* which works on in the same workspaces.
Continue(a) == /\ bound[a] /\ bound' = [bound EXCEPT ![a] = FALSE]
               /\ UNCHANGED <<stored, cache, request, holds>>

AgentStep(a) ==
  \/ \E n \in Names : AskClaim(a, n) \/ AskRelease(a, n)
  \/ AskReleaseOwned(a) \/ Claim(a) \/ Release(a) \/ ReleaseOwned(a)
  \/ Reject(a) \/ Continue(a)

Next == \/ \E w \in Windows : Load(w) \/ \E n \in Names : Register(w, n)
        \/ \E a \in Agents : AgentStep(a)

Spec == Init /\ [][Next]_regVars

-----------------------------------------------------------------------------
(* The file, the caches and the requests have the shapes of the code's types. *)
TypeOK == /\ stored \in [Names -> Entries]
          /\ cache \in [Windows -> [Names -> Entries]]
          /\ request \in [Agents -> Requests]
          /\ holds \in [Agents -> SUBSET Names]
          /\ bound \in [Agents -> BOOLEAN]

(* "Each workspace can be exclusively claimed by one running subagent"
   (WorkspaceRegistry.ts): no workspace is granted to two agents, whatever the
   windows they run in, the tags they claim under and the failures in between. *)
ExclusiveClaim ==
  \A a, b \in Agents : a # b => holds[a] \cap holds[b] = {}

(* The file agrees with what its claimants believe: a workspace an agent holds is
   busy in the file, under the agent's own tag or its dispatcher's. *)
ClaimBacked ==
  \A a \in Agents : \A n \in holds[a] :
    stored[n].status = "busy" /\ stored[n].owner \in {Parent[a], a}

(* No transaction but the agent's own changes the file's entry for a workspace it
   holds: a window with a stale cache cannot roll it back, and a sibling's or a
   former owner's cleanup cannot release it. *)
OthersLeaveClaimAlone ==
  [][\A a \in Agents : request'[a] = request[a] =>
       \A n \in holds[a] : stored'[n] = stored[n]]_regVars

(* A child continued by the user never loses a workspace to the cleanup of the
   Task instance it replaced, even when that cleanup was already queued. *)
ContinuedKeepsClaims ==
  [][\A a \in Agents : ~bound[a] => holds[a] \subseteq holds'[a]
       /\ \A n \in holds[a] : stored'[n] = stored[n]]_regVars
=============================================================================
