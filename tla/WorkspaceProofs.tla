--------------------------- MODULE WorkspaceProofs ---------------------------
(***************************************************************************)
(* The registry of workspaces, and the service that composes it with git,  *)
(* for any windows, names, agents, dispatchers, tasks and commits.         *)
(*                                                                         *)
(* First the registry under its own actions (Spec): its types, the         *)
(* exclusiveness of claims, and what a transaction may do to a workspace   *)
(* somebody else holds.  Exclusiveness alone is not inductive: nothing in  *)
(* it says that a held workspace is busy in the file, which is what stops  *)
(* the next claim.  ClaimBacked says so.  RequestInv is needed because     *)
(* siblings share their dispatcher's tag: what keeps a queued release from *)
(* a sibling's workspace is that the asker still holds it.                 *)
(*                                                                         *)
(* Then the service (SvcSpec): the types of the registry and of git, and   *)
(* what merge() promises about publication, removal and other tasks'       *)
(* claims.  The types need to know that an operation under way names a     *)
(* workspace.  That an answered merge is published is not inductive:       *)
(* Published adds the stages on the way to the answer, and it survives     *)
(* every other actor because the target only ever grows (MainGrows), which *)
(* is git's refusal to move a target that is not the base of the update.   *)
(***************************************************************************)
EXTENDS WorkspaceService, TLAPS

(* An agent only ever awaits a release of what it holds, by its own tag. *)
RequestInv ==
  \A a \in Agents :
    /\ request[a].op = "claim" => request[a].owner \in {Parent[a], a}
    /\ request[a].op = "release" => request[a].name \in holds[a]
    /\ request[a].op = "releaseOwned" => request[a].owner = a

IInv == TypeOK /\ ExclusiveClaim /\ ClaimBacked /\ RequestInv

-----------------------------------------------------------------------------
(* The transaction bodies map registry files to registry files. *)
LEMMA BodiesTyped ==
  ASSUME NEW m \in [Names -> Entries], NEW n \in Names, NEW o \in Owners
  PROVE  /\ Registered(m, n) \in [Names -> Entries]
         /\ Claimed(m, n, o) \in [Names -> Entries]
         /\ Released(m, n, o) \in [Names -> Entries]
         /\ ReleasedOwnedBy(m, o) \in [Names -> Entries]
<1>1. Free \in Entries
  BY DEF Free, Entries, Statuses
<1>2. [status |-> "busy", owner |-> o] \in Entries
  BY DEF Entries, Statuses
<1>3. Registered(m, n) \in [Names -> Entries]
  BY <1>1 DEF Registered
<1>4. Claimed(m, n, o) \in [Names -> Entries]
  BY <1>2 DEF Claimed
<1>5. Released(m, n, o) \in [Names -> Entries]
  BY <1>1 DEF Released
<1>6. ReleasedOwnedBy(m, o) \in [Names -> Entries]
  BY <1>1 DEF ReleasedOwnedBy
<1> QED
  BY <1>3, <1>4, <1>5, <1>6

(* A commit of a well-typed map keeps the file and the caches well-typed. *)
LEMMA CommitTyped ==
  ASSUME TypeOK, NEW w \in Windows, NEW m \in [Names -> Entries], Commit(w, m)
  PROVE  /\ stored' \in [Names -> Entries]
         /\ cache' \in [Windows -> [Names -> Entries]]
BY DEF TypeOK, Commit

(* Requests carry a name of the registry and a tag of a task. *)
LEMMA RequestTyped ==
  ASSUME TypeOK, NEW a \in Agents
  PROVE  /\ request[a].op \in {"claim", "release"} =>
              request[a].name \in Names /\ request[a].owner \in Owners
         /\ request[a].op = "releaseOwned" => request[a].owner \in Owners
<1>1. request[a] \in Requests
  BY DEF TypeOK
<1> QED
  BY <1>1 DEF Requests

-----------------------------------------------------------------------------
(* Every step keeps the types. *)
LEMMA TypeStep ==
  ASSUME TypeOK, [Next]_regVars
  PROVE  TypeOK'
<1> USE DEF Owners
<1>1. CASE \E w \in Windows : Load(w)
  BY <1>1 DEF TypeOK, Load
<1>2. CASE \E w \in Windows, n \in Names : Register(w, n)
  <2>1. PICK w \in Windows, n \in Names : Register(w, n)
    BY <1>2
  <2>2. Registered(stored, n) \in [Names -> Entries]
    BY DEF TypeOK, Registered, Free, Entries, Statuses
  <2>3. stored' \in [Names -> Entries] /\ cache' \in [Windows -> [Names -> Entries]]
    BY <2>1, <2>2, CommitTyped DEF Register, Current
  <2> QED
    BY <2>1, <2>3 DEF Register, TypeOK
<1>3. CASE \E a \in Agents, n \in Names : AskClaim(a, n) \/ AskRelease(a, n)
  <2>1. PICK a \in Agents, n \in Names : AskClaim(a, n) \/ AskRelease(a, n)
    BY <1>3
  <2>2. Parent[a] \in Owners /\ a \in Owners
    BY RegistryAssumption
  <2>3. \A p \in {"claim", "release"}, o \in Owners :
          [op |-> p, name |-> n, owner |-> o] \in Requests
    BY DEF Requests
  <2>4. \E r \in Requests : request' = [request EXCEPT ![a] = r]
    BY <2>1, <2>2, <2>3 DEF AskClaim, AskRelease
  <2> QED
    BY <2>1, <2>4 DEF TypeOK, AskClaim, AskRelease
<1>4. CASE \E a \in Agents : AskReleaseOwned(a)
  <2>1. PICK a \in Agents : AskReleaseOwned(a)
    BY <1>4
  <2>2. [op |-> "releaseOwned", owner |-> a] \in Requests
    BY DEF Requests
  <2> QED
    BY <2>1, <2>2 DEF TypeOK, AskReleaseOwned
<1>5. CASE \E a \in Agents : Claim(a) \/ Release(a) \/ ReleaseOwned(a)
  <2>1. PICK a \in Agents : Claim(a) \/ Release(a) \/ ReleaseOwned(a)
    BY <1>5
  <2>2. Home[a] \in Windows /\ stored \in [Names -> Entries]
    BY RegistryAssumption DEF TypeOK
  <2>3. NoRequest \in Requests
    BY DEF NoRequest, Requests
  <2>4. CASE Claim(a)
    <3>1. Claimed(stored, request[a].name, request[a].owner) \in [Names -> Entries]
      BY <2>2, <2>4, RequestTyped, BodiesTyped DEF Claim
    <3>2. stored' \in [Names -> Entries] /\ cache' \in [Windows -> [Names -> Entries]]
      BY <2>2, <2>4, <3>1, CommitTyped DEF Claim, Current
    <3>3. holds' \in [Agents -> SUBSET Names]
      BY <2>4, RequestTyped DEF TypeOK, Claim
    <3> QED
      BY <2>3, <2>4, <3>2, <3>3 DEF TypeOK, Claim
  <2>5. CASE Release(a)
    <3>1. Released(stored, request[a].name, request[a].owner) \in [Names -> Entries]
      BY <2>2, <2>5, RequestTyped, BodiesTyped DEF Release
    <3>2. stored' \in [Names -> Entries] /\ cache' \in [Windows -> [Names -> Entries]]
      BY <2>2, <2>5, <3>1, CommitTyped DEF Release, Current
    <3>3. holds' \in [Agents -> SUBSET Names]
      BY <2>5 DEF TypeOK, Release
    <3> QED
      BY <2>3, <2>5, <3>2, <3>3 DEF TypeOK, Release
  <2>6. CASE ReleaseOwned(a)
    <3>1. ReleasedOwnedBy(stored, request[a].owner) \in [Names -> Entries]
      BY <2>2, <2>6, RequestTyped DEF ReleaseOwned, ReleasedOwnedBy, Free, Entries, Statuses
    <3>2. stored' \in [Names -> Entries] /\ cache' \in [Windows -> [Names -> Entries]]
      BY <2>2, <2>6, <3>1, CommitTyped DEF ReleaseOwned, Current
    <3>3. holds' \in [Agents -> SUBSET Names]
      BY <2>6 DEF TypeOK, ReleaseOwned
    <3> QED
      BY <2>3, <2>6, <3>2, <3>3 DEF TypeOK, ReleaseOwned
  <2> QED
    BY <2>1, <2>4, <2>5, <2>6
<1>6. CASE \E a \in Agents : Reject(a) \/ Continue(a)
  <2>1. PICK a \in Agents : Reject(a) \/ Continue(a)
    BY <1>6
  <2>2. NoRequest \in Requests
    BY DEF NoRequest, Requests
  <2>3. CASE Reject(a)
    BY <2>2, <2>3 DEF TypeOK, Reject
  <2>4. CASE Continue(a)
    BY <2>4 DEF TypeOK, Continue
  <2> QED
    BY <2>1, <2>3, <2>4
<1>7. CASE UNCHANGED regVars
  BY <1>7 DEF TypeOK, regVars
<1> QED
  BY <1>1, <1>2, <1>3, <1>4, <1>5, <1>6, <1>7 DEF Next, AgentStep

-----------------------------------------------------------------------------
(* A workspace that is not busy in the file is held by nobody. *)
LEMMA NotBusyNotHeld ==
  ASSUME ClaimBacked, NEW n \in Names, stored[n].status # "busy", NEW a \in Agents
  PROVE  n \notin holds[a]
BY DEF ClaimBacked

(* One agent's task tag is never on a workspace another agent holds. *)
LEMMA OwnTagIsOwn ==
  ASSUME ClaimBacked, NEW a \in Agents, NEW b \in Agents, a # b,
         NEW n \in holds[b]
  PROVE  stored[n].owner # a
BY RegistryAssumption DEF ClaimBacked

(* What one agent's transaction leaves to the others: every entry another agent
   holds is the same after it. *)
LEMMA OthersEntries ==
  ASSUME TypeOK, ExclusiveClaim, ClaimBacked, RequestInv,
         NEW a \in Agents, NEW b \in Agents, a # b, NEW n \in holds[b],
         Claim(a) \/ Release(a) \/ ReleaseOwned(a)
  PROVE  stored'[n] = stored[n]
<1>0. n \in Names /\ stored \in [Names -> Entries] /\ stored[n].status = "busy"
  BY DEF TypeOK, ClaimBacked
<1>1. CASE Claim(a)
  BY <1>0, <1>1 DEF Claim, Claimed, Claimable, Commit, Current
<1>2. CASE Release(a)
  <2>1. request[a].name # n
    BY <1>2 DEF Release, RequestInv, ExclusiveClaim
  <2> QED
    BY <1>0, <1>2, <2>1 DEF Release, Released, Commit, Current
<1>3. CASE ReleaseOwned(a)
  <2>1. request[a].owner = a
    BY <1>3 DEF ReleaseOwned, RequestInv
  <2>2. stored[n].owner # a
    BY OwnTagIsOwn
  <2> QED
    BY <1>0, <1>3, <2>1, <2>2 DEF ReleaseOwned, ReleasedOwnedBy, ReleasableBy, Commit, Current
<1> QED
  BY <1>1, <1>2, <1>3

(* Every step keeps the claims exclusive and backed by the file. *)
LEMMA InvStep ==
  ASSUME IInv, [Next]_regVars
  PROVE  (ExclusiveClaim /\ ClaimBacked /\ RequestInv)'
<1> USE DEF IInv
<1>1. CASE \E w \in Windows : Load(w)
  BY <1>1 DEF Load, ExclusiveClaim, ClaimBacked, RequestInv
<1>2. CASE \E w \in Windows, n \in Names : Register(w, n)
  <2>1. PICK w \in Windows, n \in Names : Register(w, n)
    BY <1>2
  <2>2. \A a \in Agents : n \notin holds[a]
    BY <2>1, NotBusyNotHeld DEF Register
  <2>3. \A m \in Names : m # n => stored'[m] = stored[m]
    BY <2>1 DEF Register, Registered, Commit, Current, TypeOK
  <2>4. ClaimBacked'
    BY <2>1, <2>2, <2>3 DEF Register, ClaimBacked, TypeOK
  <2> QED
    BY <2>1, <2>4 DEF Register, ExclusiveClaim, RequestInv
<1>3. CASE \E a \in Agents, n \in Names : AskClaim(a, n) \/ AskRelease(a, n)
  <2>1. PICK a \in Agents, n \in Names : AskClaim(a, n) \/ AskRelease(a, n)
    BY <1>3
  <2>2. ExclusiveClaim' /\ ClaimBacked'
    BY <2>1 DEF AskClaim, AskRelease, ExclusiveClaim, ClaimBacked
  <2>3. RequestInv'
    BY <2>1 DEF AskClaim, AskRelease, RequestInv, TypeOK
  <2> QED
    BY <2>2, <2>3
<1>4. CASE \E a \in Agents : AskReleaseOwned(a) \/ Reject(a) \/ Continue(a)
  <2>1. PICK a \in Agents : AskReleaseOwned(a) \/ Reject(a) \/ Continue(a)
    BY <1>4
  <2>2. ExclusiveClaim' /\ ClaimBacked'
    BY <2>1 DEF AskReleaseOwned, Reject, Continue, ExclusiveClaim, ClaimBacked
  <2>3. RequestInv'
    BY <2>1 DEF AskReleaseOwned, Reject, Continue, NoRequest, RequestInv, TypeOK
  <2> QED
    BY <2>2, <2>3
<1>5. CASE \E a \in Agents : Claim(a)
  <2>1. PICK a \in Agents : Claim(a)
    BY <1>5
  <2> DEFINE n == request[a].name
             granted == Claimable(stored, n)
  <2>2. n \in Names /\ request[a].owner \in {Parent[a], a}
    BY <2>1, RequestTyped DEF Claim, RequestInv
  <2>3. \A b \in Agents : b # a => holds'[b] = holds[b]
    BY <2>1 DEF Claim, TypeOK
  <2>4. holds'[a] = IF granted THEN holds[a] \cup {n} ELSE holds[a]
    BY <2>1 DEF Claim, Current, TypeOK
  <2>5. granted => \A b \in Agents : n \notin holds[b]
    BY <2>2, NotBusyNotHeld DEF Claimable
  <2>6. ExclusiveClaim'
    BY <2>3, <2>4, <2>5 DEF ExclusiveClaim
  <2>7. \A m \in Names : m # n => stored'[m] = stored[m]
    BY <2>1 DEF Claim, Claimed, Commit, Current, TypeOK
  <2>8. granted => stored'[n] = [status |-> "busy", owner |-> request[a].owner]
    BY <2>1, <2>2 DEF Claim, Claimed, Commit, Current, TypeOK
  <2>9. ~granted => stored' = stored
    BY <2>1 DEF Claim, Claimed, Commit, Current
  <2>10. ClaimBacked'
    BY <2>2, <2>3, <2>4, <2>5, <2>7, <2>8, <2>9 DEF ClaimBacked, TypeOK
  <2>11. RequestInv'
    BY <2>1, <2>3 DEF Claim, NoRequest, RequestInv, TypeOK
  <2> QED
    BY <2>6, <2>10, <2>11
<1>6. CASE \E a \in Agents : Release(a) \/ ReleaseOwned(a)
  <2>1. PICK a \in Agents : Release(a) \/ ReleaseOwned(a)
    BY <1>6
  <2>2. \A b \in Agents : b # a => holds'[b] = holds[b]
    BY <2>1 DEF Release, ReleaseOwned, TypeOK
  <2>3. holds'[a] \subseteq holds[a]
    BY <2>1 DEF Release, ReleaseOwned, TypeOK
  <2>4. ExclusiveClaim'
    BY <2>2, <2>3 DEF ExclusiveClaim
  <2>5. \A n \in holds'[a] : stored'[n] = stored[n]
    <3>1. CASE Release(a)
      BY <3>1 DEF Release, Released, Commit, Current, TypeOK
    <3>2. CASE ReleaseOwned(a)
      BY <3>2 DEF ReleaseOwned, ReleasedOwnedBy, Commit, Current, TypeOK
    <3> QED
      BY <2>1, <3>1, <3>2
  <2>6. ClaimBacked'
    <3> SUFFICES ASSUME NEW b \in Agents, NEW n \in holds'[b]
                 PROVE  stored'[n].status = "busy" /\ stored'[n].owner \in {Parent[b], b}
      BY DEF ClaimBacked
    <3>1. n \in holds[b] /\ stored'[n] = stored[n]
      BY <2>1, <2>2, <2>3, <2>5, OthersEntries
    <3> QED
      BY <3>1 DEF ClaimBacked
  <2>7. RequestInv'
    BY <2>1, <2>2 DEF Release, ReleaseOwned, NoRequest, RequestInv, TypeOK
  <2> QED
    BY <2>4, <2>6, <2>7
<1>7. CASE UNCHANGED regVars
  BY <1>7 DEF regVars, ExclusiveClaim, ClaimBacked, RequestInv
<1> QED
  BY <1>1, <1>2, <1>3, <1>4, <1>5, <1>6, <1>7 DEF Next, AgentStep

(* Initially nothing is registered and nobody holds anything. *)
LEMMA InitInv == Init => IInv
<1> SUFFICES ASSUME Init PROVE IInv
  OBVIOUS
<1>1. Absent \in Entries /\ NoRequest \in Requests
  BY DEF Absent, Entries, Statuses, NoRequest, Requests
<1>2. TypeOK
  BY <1>1 DEF Init, TypeOK
<1>3. ExclusiveClaim /\ ClaimBacked /\ RequestInv
  BY DEF Init, ExclusiveClaim, ClaimBacked, RequestInv, NoRequest
<1> QED
  BY <1>2, <1>3 DEF IInv

(* The inductive invariant holds in every reachable state. *)
LEMMA Invariance == Spec => []IInv
<1>1. IInv /\ [Next]_regVars => IInv'
  BY TypeStep, InvStep DEF IInv
<1> QED
  BY <1>1, InitInv, PTL DEF Spec

(* Types: the shared file, the caches and the requests stay well formed. *)
THEOREM TypeCorrect == Spec => []TypeOK
<1>1. IInv => TypeOK
  BY DEF IInv
<1> QED
  BY <1>1, Invariance, PTL

(* WorkspaceRegistry.claim: a workspace is never granted to two agents at once. *)
THEOREM Exclusive == Spec => []ExclusiveClaim
<1>1. IInv => ExclusiveClaim
  BY DEF IInv
<1> QED
  BY <1>1, Invariance, PTL

(* mutate, release and releaseOwnedBy: the entry of a workspace somebody holds is
   changed only by a transaction that agent asked for. *)
THEOREM LeftAlone == Spec => OthersLeaveClaimAlone
<1> DEFINE Quiet == \A a \in Agents : request'[a] = request[a] =>
                      \A n \in holds[a] : stored'[n] = stored[n]
<1>1. IInv /\ [Next]_regVars => Quiet
  <2> SUFFICES ASSUME IInv, [Next]_regVars, NEW b \in Agents,
                      request'[b] = request[b], NEW n \in holds[b]
               PROVE  stored'[n] = stored[n]
    OBVIOUS
  <2> USE DEF IInv
  <2>0. n \in Names /\ stored[n].status = "busy"
    BY DEF TypeOK, ClaimBacked
  <2>1. CASE \E a \in Agents : Claim(a) \/ Release(a) \/ ReleaseOwned(a)
    <3>1. PICK a \in Agents : Claim(a) \/ Release(a) \/ ReleaseOwned(a)
      BY <2>1
    <3>2. a # b
      BY <3>1 DEF Claim, Release, ReleaseOwned, NoRequest, TypeOK
    <3> QED
      BY <3>1, <3>2, OthersEntries
  <2>2. CASE \E w \in Windows, m \in Names : Register(w, m)
    BY <2>0, <2>2 DEF Register, Registered, Commit, Current, TypeOK
  <2>3. CASE UNCHANGED stored
    BY <2>3
  <2> QED
    BY <2>1, <2>2, <2>3
       DEF Next, AgentStep, Load, AskClaim, AskRelease, AskReleaseOwned, Reject, Continue, regVars
<1> QED
  BY <1>1, Invariance, PTL DEF Spec, OthersLeaveClaimAlone

(* markSessionRunning, canRelease: once the user has continued a child, cleanup that
   the replaced Task instance asked for, even already queued, takes nothing from it. *)
THEOREM ContinuedSafe == Spec => ContinuedKeepsClaims
<1> DEFINE Kept == \A a \in Agents : ~bound[a] => holds[a] \subseteq holds'[a]
                     /\ \A n \in holds[a] : stored'[n] = stored[n]
<1>1. IInv /\ [Next]_regVars => Kept
  <2> SUFFICES ASSUME IInv, [Next]_regVars, NEW b \in Agents, ~bound[b]
               PROVE  /\ holds[b] \subseteq holds'[b]
                      /\ \A n \in holds[b] : stored'[n] = stored[n]
    OBVIOUS
  <2> USE DEF IInv
  <2>1. \A n \in holds[b] : n \in Names /\ stored[n].status = "busy"
    BY DEF TypeOK, ClaimBacked
  <2>2. CASE \E a \in Agents : Claim(a) \/ Release(a) \/ ReleaseOwned(a)
    <3>1. PICK a \in Agents : Claim(a) \/ Release(a) \/ ReleaseOwned(a)
      BY <2>2
    <3>2. CASE a # b
      <4>1. holds'[b] = holds[b]
        BY <3>1, <3>2 DEF Claim, Release, ReleaseOwned, TypeOK
      <4> QED
        BY <3>1, <3>2, <4>1, OthersEntries
    <3>3. CASE a = b /\ Claim(a)
      BY <2>1, <3>3 DEF Claim, Claimed, Claimable, Commit, Current, TypeOK
    <3>4. CASE a = b /\ (Release(a) \/ ReleaseOwned(a))
      BY <3>4 DEF Release, ReleaseOwned, CanRelease, Commit, Current
    <3> QED
      BY <3>1, <3>2, <3>3, <3>4
  <2>5. CASE \E w \in Windows, m \in Names : Register(w, m)
    BY <2>1, <2>5 DEF Register, Registered, Commit, Current, TypeOK
  <2>6. CASE stored' = stored /\ holds' = holds
    BY <2>6
  <2>7. \/ \E a \in Agents : Claim(a) \/ Release(a) \/ ReleaseOwned(a)
        \/ \E w \in Windows, m \in Names : Register(w, m)
        \/ stored' = stored /\ holds' = holds
    BY DEF Next, AgentStep, Load, AskClaim, AskRelease, AskReleaseOwned, Reject, Continue, regVars
  <2> QED
    BY <2>2, <2>5, <2>6, <2>7
<1> QED
  BY <1>1, Invariance, PTL DEF Spec, ContinuedKeepsClaims
-----------------------------------------------------------------------------
(***************************************************************************)
(* The service                                                             *)
(***************************************************************************)

Procs  == [op : {"none", "add", "register", "rmdir", "unregister"}, name : Names \cup {Nobody}]
Merges == [pc : MergeStages, name : Names \cup {Nobody},
           base : SUBSET Commits, src : SUBSET Commits]

GitOK ==
  /\ dir \subseteq Names /\ dirty \subseteq dir /\ dir \subseteq DOMAIN branch
  /\ DOMAIN branch \subseteq Names /\ \A n \in DOMAIN branch : branch[n] \subseteq 1..made
  /\ main \subseteq 1..made /\ made \in 0..MaxCommits

(* A procedure under way has a workspace, and so does a merge under way. *)
ProcOK == /\ proc \in [Windows -> Procs]
          /\ \A w \in Windows : proc[w].op # "none" => proc[w].name \in Names
MrgOK  == /\ mrg \in [Mergers -> Merges]
          /\ \A t \in Mergers : mrg[t].pc \notin {"idle", "ok"} => mrg[t].name \in Names

(* What a merge has captured has been committed. *)
SrcMade == \A t \in Mergers : mrg[t].src \subseteq 1..made

TypeInv == TypeOK /\ GitOK /\ ProcOK /\ MrgOK

(* What a merge has found or made to be on the target is on the target. *)
Published == \A t \in Mergers :
  mrg[t].pc \in {"upToDate", "book", "unregister", "ok"} => mrg[t].src \subseteq main

-----------------------------------------------------------------------------
(* The service's own transaction bodies map registry files to registry files. *)
LEMMA SvcBodiesTyped ==
  ASSUME NEW m \in [Names -> Entries], NEW n \in Names
  PROVE  /\ Removed(m, n) \in [Names -> Entries]
         /\ ForceReleased(m, n) \in [Names -> Entries]
         /\ Registered(m, n) \in [Names -> Entries]
         /\ \A o : Released(m, n, o) \in [Names -> Entries]
         /\ \A o : ReleasedOwnedBy(m, o) \in [Names -> Entries]
         /\ \A s \in Statuses : Marked(m, n, s) \in [Names -> Entries]
<1>1. Free \in Entries /\ Absent \in Entries
  BY DEF Free, Absent, Entries, Statuses
<1>2. \A s \in Statuses : [m[n] EXCEPT !.status = s] \in Entries
  BY DEF Entries
<1>3. \A s \in Statuses : Marked(m, n, s) \in [Names -> Entries]
  BY <1>2 DEF Marked
<1> QED
  BY <1>1, <1>3 DEF Removed, ForceReleased, Registered, Released, ReleasedOwnedBy

(* A transaction of the service keeps the registry's types. *)
LEMMA CommitKeepsTypes ==
  ASSUME TypeOK, NEW w \in Windows, NEW m \in [Names -> Entries], Commit(w, m),
         UNCHANGED agentVars, holds' \in [Agents -> SUBSET Names]
  PROVE  TypeOK'
BY CommitTyped DEF TypeOK, agentVars

LEMMA RegistryUnchanged ==
  ASSUME TypeOK, UNCHANGED regVars PROVE TypeOK'
BY DEF TypeOK, regVars

LEMMA ReloadKeepsTypes ==
  ASSUME TypeOK, NEW w \in Windows, cache' = [cache EXCEPT ![w] = stored],
         UNCHANGED <<stored, agentVars, holds>>
  PROVE  TypeOK'
BY DEF TypeOK, agentVars

LEMMA MergerHome == ASSUME NEW t \in Mergers PROVE Home[t] \in Windows
BY RegistryAssumption, ServiceAssumption

(* A new worktree: its branch starts at the target. *)
LEMMA WorktreeAdded ==
  ASSUME GitOK, NEW n \in Names, n \notin DOMAIN branch, NEW dirs, dirs \subseteq dir,
         dirty' \subseteq dirs, AddWorktree(n, dirs), UNCHANGED <<main, made>>
  PROVE  GitOK'
BY DEF GitOK, AddWorktree

-----------------------------------------------------------------------------
LEMMA InitTypeInv == SvcInit => TypeInv /\ SrcMade /\ Published
<1> SUFFICES ASSUME SvcInit PROVE TypeInv /\ SrcMade /\ Published
  OBVIOUS
<1>1. TypeOK
  BY DEF SvcInit, Init, TypeOK, Absent, NoRequest, Entries, Statuses, Requests
<1>2. GitOK
  <2>1. DOMAIN branch = {}
    BY DEF SvcInit
  <2> QED
    BY <2>1, ServiceAssumption DEF SvcInit, GitOK
<1>3. ProcOK /\ MrgOK
  BY DEF SvcInit, ProcOK, MrgOK, Procs, Merges, NoProc, NoMerge, MergeStages
<1>4. SrcMade /\ Published
  BY DEF SvcInit, SrcMade, Published, NoMerge
<1> QED
  BY <1>1, <1>2, <1>3, <1>4 DEF TypeInv

(* What the procedures and the merges do to their own records. *)
LEMMA ProcMoves ==
  ASSUME ProcOK, NEW w \in Windows, NEW r \in Procs, r.op # "none" => r.name \in Names,
         proc' = [proc EXCEPT ![w] = r]
  PROVE  ProcOK'
BY DEF ProcOK

LEMMA ProcAdvances ==
  ASSUME ProcOK, NEW w \in Windows, proc[w].op # "none", NEW o \in {"register", "unregister"},
         proc' = [proc EXCEPT ![w].op = o]
  PROVE  ProcOK'
BY DEF ProcOK, Procs

LEMMA NoProcTyped == NoProc \in Procs /\ NoProc.op = "none"
BY DEF NoProc, Procs

LEMMA MergeMoves ==
  ASSUME MrgOK, NEW t \in Mergers, mrg[t].name \in Names,
         \/ \E s \in MergeStages : Goto(t, s)
         \/ Refuse(t)
         \/ Succeed(t)
  PROVE  MrgOK'
<1>1. NoMerge \in Merges /\ NoMerge.pc = "idle"
  BY DEF NoMerge, Merges, MergeStages
<1>2. mrg[t] \in Merges
  BY DEF MrgOK
<1>3. CASE \E s \in MergeStages : Goto(t, s)
  BY <1>2, <1>3 DEF Goto, MrgOK, Merges
<1>4. CASE Refuse(t)
  BY <1>1, <1>4 DEF Refuse, MrgOK
<1>5. CASE Succeed(t)
  <2>1. [NoMerge EXCEPT !.pc = "ok", !.src = mrg[t].src] \in Merges
    BY <1>1, <1>2 DEF Merges, MergeStages
  <2>2. [NoMerge EXCEPT !.pc = "ok", !.src = mrg[t].src].pc = "ok"
    BY DEF NoMerge
  <2> QED
    BY <1>5, <2>1, <2>2 DEF Succeed, MrgOK
<1> QED
  BY <1>3, <1>4, <1>5

(* The refusals and failures need no name. *)
LEMMA MergeRefused == ASSUME MrgOK, NEW t \in Mergers, Refuse(t) PROVE MrgOK'
BY DEF Refuse, NoMerge, MrgOK, Merges, MergeStages

-----------------------------------------------------------------------------
(* The windows' procedures keep the types. *)
LEMMA WindowTyped ==
  ASSUME TypeInv, NEW w \in Windows, WindowStep(w)
  PROVE  TypeInv'
<1> USE DEF TypeInv
<1>a. stored \in [Names -> Entries] /\ holds \in [Agents -> SUBSET Names]
  BY DEF TypeOK
<1>b. proc[w] \in Procs /\ (proc[w].op # "none" => proc[w].name \in Names)
  BY DEF ProcOK
<1>1. CASE Prune(w)
  <2>1. Absent \in Entries
    BY DEF Absent, Entries, Statuses
  <2>2. [n \in Names |-> IF n \in dir THEN Current(w)[n] ELSE Absent] \in [Names -> Entries]
    BY <1>a, <2>1 DEF Current
  <2> QED
    BY <1>1, <1>a, <2>2, CommitKeepsTypes DEF Prune, GitOK, gitVars, ProcOK, MrgOK
<1>2. ASSUME NEW n \in Names, CreateName(w, n) PROVE TypeInv'
  <2>1. GitOK'
    BY <1>2 DEF CreateName, GitOK
  <2>2. ProcOK'
    BY <1>2, ProcMoves DEF CreateName, Procs
  <2> QED
    BY <1>2, <2>1, <2>2, RegistryUnchanged DEF CreateName, MrgOK
<1>3. ASSUME NEW n \in Names, Adopt(w, n) PROVE TypeInv'
  <2>1. ProcOK'
    BY <1>3, ProcMoves DEF Adopt, Procs
  <2> QED
    BY <1>3, <2>1, RegistryUnchanged DEF Adopt, MrgOK, GitOK, gitVars
<1>4. ASSUME NEW n \in Names, DeleteAsk(w, n) PROVE TypeInv'
  <2>1. ProcOK'
    BY <1>4, ProcMoves DEF DeleteAsk, Procs
  <2>2. TypeOK'
    BY <1>4, <1>a, SvcBodiesTyped, CommitKeepsTypes
       DEF DeleteAsk, Current, TypeOK, agentVars
  <2> QED
    BY <1>4, <2>1, <2>2 DEF DeleteAsk, MrgOK, GitOK, gitVars
<1>5. CASE CreateAdd(w)
  <2> DEFINE n == proc[w].name
  <2>0. n \in Names
    BY <1>5, <1>b DEF CreateAdd
  <2>1. CASE n \notin DOMAIN branch
    <3>1. GitOK'
      BY <1>5, <2>0, <2>1, WorktreeAdded DEF CreateAdd, GitOK
    <3>2. ProcOK'
      BY <1>5, <2>1, ProcAdvances DEF CreateAdd
    <3> QED
      BY <1>5, <3>1, <3>2, RegistryUnchanged DEF CreateAdd, MrgOK
  <2>2. CASE n \in DOMAIN branch
    <3>1. dirty' = dirty \ {n}
      BY <1>5, <2>2 DEF CreateAdd
    <3>2. CASE \E m \in Names \ (DOMAIN branch \cup dir) :
                  /\ AddWorktree(m, dir \ {n})
                  /\ proc' = [proc EXCEPT ![w] = [op |-> "register", name |-> m]]
      <4>1. PICK m \in Names \ (DOMAIN branch \cup dir) :
                  /\ AddWorktree(m, dir \ {n})
                  /\ proc' = [proc EXCEPT ![w] = [op |-> "register", name |-> m]]
        BY <3>2
      <4>2. GitOK'
        <5>1. dirty' \subseteq dir \ {n}
          BY <3>1 DEF GitOK
        <5> QED
          BY <1>5, <4>1, <5>1, WorktreeAdded DEF CreateAdd
      <4>3. ProcOK'
        BY <4>1, ProcMoves DEF Procs
      <4> QED
        BY <1>5, <4>2, <4>3, RegistryUnchanged DEF CreateAdd, MrgOK
    <3>3. CASE /\ dir' = dir \ {n}
               /\ proc' = [proc EXCEPT ![w] = NoProc]
               /\ UNCHANGED branch
      <4>1. GitOK'
        BY <1>5, <3>1, <3>3 DEF CreateAdd, GitOK
      <4>2. ProcOK'
        BY <3>3, NoProcTyped, ProcMoves
      <4> QED
        BY <1>5, <4>1, <4>2, RegistryUnchanged DEF CreateAdd, MrgOK
    <3> QED
      BY <1>5, <2>2, <3>2, <3>3 DEF CreateAdd
  <2> QED
    BY <2>1, <2>2
<1>6. CASE RegisterEntry(w)
  <2>1. ProcOK'
    BY <1>6, NoProcTyped, ProcMoves DEF RegisterEntry
  <2>2. TypeOK'
    BY <1>6, <1>a, <1>b, SvcBodiesTyped, CommitKeepsTypes DEF RegisterEntry, Current
  <2> QED
    BY <1>6, <2>1, <2>2 DEF RegisterEntry, MrgOK, GitOK, gitVars
<1>7. CASE DeleteDir(w)
  <2>1. ProcOK'
    BY <1>7, ProcAdvances DEF DeleteDir
  <2>2. GitOK'
    BY <1>7 DEF DeleteDir, RemoveWorktree, GitOK
  <2> QED
    BY <1>7, <2>1, <2>2, RegistryUnchanged DEF DeleteDir, MrgOK
<1>8. CASE DeleteEntry(w)
  <2>1. ProcOK'
    BY <1>8, NoProcTyped, ProcMoves DEF DeleteEntry
  <2>2. TypeOK'
    BY <1>8, <1>a, <1>b, SvcBodiesTyped, CommitKeepsTypes DEF DeleteEntry, Current
  <2> QED
    BY <1>8, <2>1, <2>2 DEF DeleteEntry, MrgOK, GitOK, gitVars
<1>9. CASE ProcFail(w)
  <2>1. ProcOK'
    BY <1>9, NoProcTyped, ProcMoves DEF ProcFail
  <2> QED
    BY <1>9, <2>1, RegistryUnchanged DEF ProcFail, MrgOK, GitOK, gitVars
<1> QED
  BY <1>1, <1>2, <1>3, <1>4, <1>5, <1>6, <1>7, <1>8, <1>9 DEF WindowStep

(* A merge's transaction: the registry, then the merge's own record. *)
LEMMA TransactionTyped ==
  ASSUME TypeInv, NEW t \in Mergers, NEW m \in [Names -> Entries], Commit(Home[t], m),
         UNCHANGED <<agentVars, gitVars, proc>>, holds' \in [Agents -> SUBSET Names],
         mrg[t].name \in Names, Refuse(t) \/ Succeed(t) \/ \E s \in MergeStages : Goto(t, s)
  PROVE  TypeInv'
<1>1. TypeOK'
  BY CommitKeepsTypes, MergerHome DEF TypeInv
<1>2. MrgOK'
  BY MergeMoves DEF TypeInv
<1> QED
  BY <1>1, <1>2 DEF TypeInv, GitOK, gitVars, ProcOK

(* The merges keep the types. *)
LEMMA MergeTyped ==
  ASSUME TypeInv, SrcMade, NEW t \in Mergers, MergeStep(t)
  PROVE  TypeInv'
<1> USE DEF TypeInv
<1>a. /\ stored \in [Names -> Entries] /\ holds \in [Agents -> SUBSET Names]
      /\ Home[t] \in Windows
  BY MergerHome DEF TypeOK
<1>b. mrg[t] \in Merges /\ (mrg[t].pc \notin {"idle", "ok"} => mrg[t].name \in Names)
  BY DEF MrgOK
<1>1. ASSUME NEW n \in Names, MergeStart(t, n) PROVE TypeInv'
  <2>1. [NoMerge EXCEPT !.pc = "check", !.name = n] \in Merges
    BY DEF NoMerge, Merges, MergeStages
  <2>2. [NoMerge EXCEPT !.pc = "check", !.name = n].name = n
    BY DEF NoMerge
  <2>3. MrgOK'
    BY <1>1, <2>1, <2>2 DEF MergeStart, MrgOK
  <2> QED
    BY <1>1, <1>a, <2>3, ReloadKeepsTypes DEF MergeStart, GitOK, gitVars, ProcOK
<1>2. CASE MergeCheck(t)
  <2>1. mrg[t].name \in Names
    BY <1>2, <1>b DEF MergeCheck, At
  <2>2. Refuse(t) \/ \E s \in MergeStages : Goto(t, s)
    BY <1>2 DEF MergeCheck, Proceed, MergeStages
  <2>3. MrgOK'
    BY <2>1, <2>2, MergeMoves
  <2> QED
    BY <1>2, <2>3, RegistryUnchanged DEF MergeCheck, GitOK, gitVars, ProcOK
<1>3. CASE MergeLeave(t)
  <2>1. mrg[t].name \in Names
    BY <1>3, <1>b DEF MergeLeave, At
  <2>2. Released(stored, mrg[t].name, t) \in [Names -> Entries]
    BY <1>a, <2>1, SvcBodiesTyped
  <2>3. "recheck" \in MergeStages /\ holds' \in [Agents -> SUBSET Names]
    BY <1>3, <1>a DEF MergeLeave, MergeStages
  <2> QED
    BY <1>3, <2>1, <2>2, <2>3, TransactionTyped DEF MergeLeave, Current, Merging
<1>4. CASE MergeRecheck(t)
  <2>1. mrg[t].name \in Names
    BY <1>4, <1>b DEF MergeRecheck, At
  <2>2. Refuse(t) \/ \E s \in MergeStages : Goto(t, s)
    BY <1>4 DEF MergeRecheck, Proceed, MergeStages
  <2>3. MrgOK'
    BY <2>1, <2>2, MergeMoves
  <2> QED
    BY <1>4, <1>a, <2>3, ReloadKeepsTypes DEF MergeRecheck, GitOK, gitVars, ProcOK
<1>5. CASE MergeGone(t) \/ MergeBookEntry(t)
  <2>1. mrg[t].name \in Names
    BY <1>5, <1>b DEF MergeGone, MergeBookEntry, At
  <2>2. Removed(stored, mrg[t].name) \in [Names -> Entries]
    BY <1>a, <2>1, SvcBodiesTyped
  <2> QED
    BY <1>5, <1>a, <2>1, <2>2, TransactionTyped
       DEF MergeGone, MergeBookEntry, Current, Merging
<1>6. CASE MergeAutoCommit(t)
  <2>1. mrg[t].name \in Names /\ MrgOK'
    BY <1>6, <1>b, MergeMoves DEF MergeAutoCommit, At, MergeStages
  <2>2. CASE mrg[t].name \in dirty
    <3>1. /\ branch' = [branch EXCEPT ![mrg[t].name] = @ \cup {made + 1}]
          /\ made' = made + 1 /\ made < MaxCommits
          /\ dir' = dir /\ dirty' = dirty \ {mrg[t].name} /\ main' = main
      BY <1>6, <2>2 DEF MergeAutoCommit, Committed, Merging
    <3>2. 1..made \subseteq 1..made' /\ made + 1 \in 1..made' /\ made' \in 0..MaxCommits
      BY <3>1, ServiceAssumption DEF GitOK
    <3>3. \A n \in DOMAIN branch' : branch'[n] \subseteq 1..made'
      BY <3>1, <3>2 DEF GitOK
    <3>4. GitOK'
      BY <3>1, <3>2, <3>3 DEF GitOK
    <3> QED
      BY <1>6, <2>1, <3>4, RegistryUnchanged DEF MergeAutoCommit, ProcOK
  <2>3. CASE mrg[t].name \notin dirty
    BY <1>6, <2>1, <2>3, RegistryUnchanged DEF MergeAutoCommit, ProcOK, GitOK, Merging
  <2> QED
    BY <2>2, <2>3
<1>7. CASE MergeCapture(t)
  <2> DEFINE src == branch[mrg[t].name]
             stage == IF src \subseteq main THEN "upToDate" ELSE "prepare"
  <2>1. mrg[t].name \in Names /\ mrg[t].name \in DOMAIN branch
    BY <1>7, <1>b DEF MergeCapture, At, Merging, GitOK
  <2>2. 1..made \subseteq Commits
    BY ServiceAssumption DEF GitOK, Commits
  <2>3. src \in SUBSET Commits /\ main \in SUBSET Commits /\ stage \in MergeStages
    BY <2>1, <2>2 DEF GitOK, MergeStages
  <2>4. mrg' = [mrg EXCEPT ![t].base = main, ![t].src = src, ![t].pc = stage]
    BY <1>7 DEF MergeCapture, Merging
  <2> HIDE DEF src, stage
  <2>5. MrgOK'
    BY <2>1, <2>3, <2>4 DEF MrgOK, Merges
  <2> QED
    BY <1>7, <2>5, RegistryUnchanged DEF MergeCapture, GitOK, gitVars, ProcOK
<1>8. CASE MergeUpToDate(t) \/ MergeConflict(t) \/ MergeBookMark(t)
  <2>1. mrg[t].name \in Names
    BY <1>8, <1>b DEF MergeUpToDate, MergeConflict, MergeBookMark, At
  <2>2. \A s \in {"merged", "conflicted"} : Marked(stored, mrg[t].name, s) \in [Names -> Entries]
    BY <1>a, <2>1, SvcBodiesTyped DEF Statuses
  <2> QED
    BY <1>8, <1>a, <2>1, <2>2, TransactionTyped
       DEF MergeUpToDate, MergeConflict, MergeBookMark, MergeMark, Current, Merging
<1>9. CASE MergePrepare(t)
  <2>1. MrgOK'
    BY <1>9, <1>b, MergeMoves DEF MergePrepare, At, MergeStages
  <2> QED
    BY <1>9, <2>1, RegistryUnchanged DEF MergePrepare, GitOK, gitVars, ProcOK
<1>10. CASE MergePublish(t)
  <2>1. MrgOK'
    BY <1>10, <1>b, MergeMoves DEF MergePublish, At, MergeStages
  <2>2. main' \subseteq 1..made
    <3>1. CASE Publishable(t) /\ main' = mrg[t].base \cup mrg[t].src
      BY <3>1 DEF Publishable, SrcMade, GitOK
    <3>2. CASE UNCHANGED main
      BY <3>2 DEF GitOK
    <3> QED
      BY <1>10, <3>1, <3>2 DEF MergePublish
  <2> QED
    BY <1>10, <2>1, <2>2, RegistryUnchanged DEF MergePublish, GitOK, ProcOK
<1>11. CASE MergeVerify(t)
  <2>1. mrg[t].name \in Names
    BY <1>11, <1>b DEF MergeVerify, At
  <2>2. CASE Refuse(t)
    BY <1>11, <2>2, MergeRefused, RegistryUnchanged DEF MergeVerify, GitOK, gitVars, ProcOK
  <2>3. CASE mrg' = [mrg EXCEPT ![t].pc = "book", ![t].base = {}]
    <3>1. MrgOK'
      BY <1>b, <2>1, <2>3 DEF MrgOK, Merges, MergeStages
    <3> QED
      BY <1>11, <3>1, RegistryUnchanged DEF MergeVerify, GitOK, gitVars, ProcOK
  <2> QED
    BY <1>11, <2>2, <2>3 DEF MergeVerify
<1>12. CASE MergeBookRemove(t)
  <2>1. MrgOK'
    BY <1>12, <1>b, MergeMoves DEF MergeBookRemove, At, MergeStages
  <2>2. GitOK'
    BY <1>12 DEF MergeBookRemove, RemoveWorktree, GitOK
  <2> QED
    BY <1>12, <2>1, <2>2, RegistryUnchanged DEF MergeBookRemove, ProcOK
<1>13. CASE MergeFail(t)
  BY <1>13, MergeRefused, RegistryUnchanged DEF MergeFail, GitOK, gitVars, ProcOK
<1> QED
  BY <1>1, <1>2, <1>3, <1>4, <1>5, <1>6, <1>7, <1>8, <1>9, <1>10, <1>11, <1>12, <1>13
     DEF MergeStep

(* The agents keep the types. *)
LEMMA AgentTyped ==
  ASSUME TypeInv, NEW a \in Agents, AgentStepInService(a)
  PROVE  TypeInv'
<1> USE DEF TypeInv
<1>a. /\ stored \in [Names -> Entries] /\ holds \in [Agents -> SUBSET Names]
      /\ Home[a] \in Windows /\ Parent[a] \in Owners /\ a \in Owners
  BY RegistryAssumption DEF TypeOK, Owners
<1>1. ASSUME NEW n \in Names, NEW o \in {a, Parent[a]}, AgentClaim(a, n, o) PROVE TypeInv'
  <2>1. Claimed(stored, n, o) \in [Names -> Entries] /\ holds' \in [Agents -> SUBSET Names]
    BY <1>1, <1>a, BodiesTyped DEF AgentClaim
  <2> QED
    BY <1>1, <1>a, <2>1, CommitKeepsTypes
       DEF AgentClaim, Current, GitOK, gitVars, ProcOK, MrgOK
<1>2. ASSUME NEW n \in Names, AgentRelease(a, n) PROVE TypeInv'
  <2>1. Released(stored, n, Parent[a]) \in [Names -> Entries] /\ holds' \in [Agents -> SUBSET Names]
    BY <1>2, <1>a, SvcBodiesTyped DEF AgentRelease
  <2> QED
    BY <1>2, <1>a, <2>1, CommitKeepsTypes
       DEF AgentRelease, Current, GitOK, gitVars, ProcOK, MrgOK
<1>3. CASE AgentReleaseOwned(a)
  <2>1. ReleasedOwnedBy(stored, a) \in [Names -> Entries] /\ holds' \in [Agents -> SUBSET Names]
    BY <1>3, <1>a, BodiesTyped DEF AgentReleaseOwned, ReleasedOwnedBy, Free, Entries, Statuses
  <2> QED
    BY <1>3, <1>a, <2>1, CommitKeepsTypes
       DEF AgentReleaseOwned, Current, GitOK, gitVars, ProcOK, MrgOK
<1>4. ASSUME NEW n \in Names, AgentWrite(a, n) PROVE TypeInv'
  BY <1>4, RegistryUnchanged DEF AgentWrite, GitOK, ProcOK, MrgOK
<1> QED
  BY <1>1, <1>2, <1>3, <1>4 DEF AgentStepInService

LEMMA UserTyped == ASSUME TypeInv, UserCommit PROVE TypeInv'
<1> USE DEF TypeInv
<1>1. 1..made \subseteq 1..made' /\ made' \in 1..made' /\ made' \in 0..MaxCommits
  BY ServiceAssumption DEF UserCommit, GitOK
<1>2. GitOK'
  BY <1>1 DEF UserCommit, GitOK
<1> QED
  BY <1>2, RegistryUnchanged DEF UserCommit, ProcOK, MrgOK

LEMMA TypeInvStep == TypeInv /\ SrcMade /\ [SvcNext]_svcVars => TypeInv'
<1> SUFFICES ASSUME TypeInv, SrcMade, [SvcNext]_svcVars PROVE TypeInv'
  OBVIOUS
<1>1. CASE UNCHANGED svcVars
  BY <1>1 DEF svcVars, gitVars, TypeInv, TypeOK, GitOK, ProcOK, MrgOK
<1> QED
  BY <1>1, WindowTyped, MergeTyped, AgentTyped, UserTyped DEF SvcNext

-----------------------------------------------------------------------------
(* The stages that matter for publication: who moves a merge along, and how. *)
LEMMA OnlyItsOwnMerge ==
  ASSUME TypeInv, [SvcNext]_svcVars, NEW t \in Mergers
  PROVE  mrg'[t] = mrg[t] \/ MergeStep(t)
<1>0. mrg \in [Mergers -> Merges]
  BY DEF TypeInv, MrgOK
<1>1. ASSUME NEW u \in Mergers, MergeStep(u), u # t PROVE mrg'[t] = mrg[t]
  BY <1>0, <1>1
     DEF MergeStep, MergeStart, MergeCheck, MergeLeave, MergeRecheck, MergeGone,
         MergeAutoCommit, MergeCapture, MergeUpToDate, MergePrepare, MergeConflict,
         MergePublish, MergeVerify, MergeBookMark, MergeBookRemove, MergeBookEntry,
         MergeFail, Proceed, Goto, Refuse, Succeed
<1>2. ASSUME NEW w \in Windows, WindowStep(w) PROVE mrg' = mrg
  BY <1>2 DEF WindowStep, Prune, CreateName, Adopt, DeleteAsk, CreateAdd, RegisterEntry,
              DeleteDir, DeleteEntry, ProcFail
<1>3. ASSUME NEW a \in Agents, AgentStepInService(a) PROVE mrg' = mrg
  BY <1>3 DEF AgentStepInService, AgentClaim, AgentRelease, AgentReleaseOwned, AgentWrite
<1> QED
  BY <1>1, <1>2, <1>3 DEF SvcNext, UserCommit, svcVars

(* The target and the count of commits never lose anything. *)
LEMMA MainGrows ==
  ASSUME TypeInv, [SvcNext]_svcVars
  PROVE  main \subseteq main' /\ 1..made \subseteq 1..made'
<1>0. made \in Nat
  BY ServiceAssumption DEF TypeInv, GitOK
<1>1. ASSUME NEW t \in Mergers, MergeStep(t)
      PROVE  main \subseteq main' /\ made' \in {made, made + 1}
  BY <1>1
     DEF MergeStep, MergeStart, MergeCheck, MergeLeave, MergeRecheck, MergeGone,
         MergeAutoCommit, MergeCapture, MergeUpToDate, MergePrepare, MergeConflict, MergeMark,
         MergePublish, Publishable, MergeVerify, MergeBookMark, MergeBookRemove,
         MergeBookEntry, MergeFail, RemoveWorktree, gitVars
<1>2. ASSUME NEW w \in Windows, WindowStep(w) PROVE UNCHANGED <<main, made>>
  BY <1>2 DEF WindowStep, Prune, CreateName, Adopt, DeleteAsk, CreateAdd, RegisterEntry,
              DeleteDir, DeleteEntry, ProcFail, RemoveWorktree, gitVars
<1>3. ASSUME NEW a \in Agents, AgentStepInService(a) PROVE UNCHANGED <<main, made>>
  BY <1>3 DEF AgentStepInService, AgentClaim, AgentRelease, AgentReleaseOwned, AgentWrite,
              gitVars
<1>4. main \subseteq main' /\ made' \in {made, made + 1}
  BY <1>1, <1>2, <1>3 DEF SvcNext, UserCommit, svcVars, gitVars
<1> QED
  BY <1>0, <1>4

(* One merge: what it has captured is committed, and published by the time it
   matters.  MergeCapture and MergeVerify are the steps that establish it. *)
LEMMA MergePublishes ==
  ASSUME TypeInv, SrcMade, Published, NEW t \in Mergers, MergeStep(t),
         main \subseteq main', 1..made \subseteq 1..made'
  PROVE  /\ mrg'[t].src \subseteq 1..made'
         /\ mrg'[t].pc \in {"upToDate", "book", "unregister", "ok"} => mrg'[t].src \subseteq main'
<1>0. /\ mrg \in [Mergers -> Merges] /\ mrg[t] \in Merges
      /\ mrg[t].src \subseteq 1..made'
      /\ mrg[t].pc \in {"upToDate", "book", "unregister", "ok"} => mrg[t].src \subseteq main'
  BY DEF TypeInv, MrgOK, SrcMade, Published
<1>1. CASE Refuse(t) \/ (\E n \in Names : MergeStart(t, n))
  <2>1. mrg'[t].src = {} /\ mrg'[t].pc \in {"idle", "check"}
    <3>1. CASE Refuse(t)
      BY <1>0, <3>1 DEF Refuse, NoMerge
    <3>2. ASSUME NEW n \in Names, MergeStart(t, n) PROVE mrg'[t].src = {} /\ mrg'[t].pc = "check"
      BY <1>0, <3>2 DEF MergeStart, NoMerge
    <3> QED
      BY <1>1, <3>1, <3>2
  <2> QED
    BY <2>1
<1>2. CASE MergeCapture(t)
  <2>1. Merging(t) \in DOMAIN branch /\ branch[Merging(t)] \subseteq 1..made'
    BY <1>2 DEF MergeCapture, TypeInv, GitOK
  <2> QED
    BY <1>0, <1>2, <2>1 DEF MergeCapture, gitVars, Merges
<1>3. CASE MergeVerify(t) /\ ~Refuse(t)
  <2>1. mrg' = [mrg EXCEPT ![t].pc = "book", ![t].base = {}] /\ Verified(t) /\ main' = main
    BY <1>3 DEF MergeVerify, gitVars
  <2> QED
    BY <1>0, <2>1 DEF Verified, Merges
<1>4. CASE \E s \in MergeStages \ {"upToDate", "book", "unregister", "ok"} : Goto(t, s)
  BY <1>0, <1>4 DEF Goto, Merges
<1>5. CASE Goto(t, "unregister") /\ At(t, "book")
  BY <1>0, <1>5 DEF Goto, At, Merges
<1>6. CASE Succeed(t) /\ (At(t, "upToDate") \/ At(t, "book") \/ At(t, "unregister"))
  BY <1>0, <1>6 DEF Succeed, At, NoMerge
<1>7. CASE MergeCheck(t) \/ MergeRecheck(t)
  BY <1>1, <1>4, <1>7 DEF MergeCheck, MergeRecheck, Proceed, MergeStages
<1>8. CASE MergeLeave(t) \/ MergeAutoCommit(t) \/ MergePrepare(t) \/ MergePublish(t)
  BY <1>4, <1>8 DEF MergeLeave, MergeAutoCommit, MergePrepare, MergePublish, MergeStages
<1>9. CASE MergeUpToDate(t) \/ MergeBookMark(t) \/ MergeBookEntry(t)
  BY <1>6, <1>9 DEF MergeUpToDate, MergeBookMark, MergeBookEntry
<1>10. CASE MergeGone(t) \/ MergeConflict(t) \/ MergeFail(t)
  BY <1>1, <1>10 DEF MergeGone, MergeConflict, MergeFail
<1>11. CASE MergeBookRemove(t)
  BY <1>5, <1>11 DEF MergeBookRemove
<1> QED
  BY <1>1, <1>2, <1>3, <1>7, <1>8, <1>9, <1>10, <1>11 DEF MergeStep

LEMMA PublishedStep ==
  TypeInv /\ SrcMade /\ Published /\ [SvcNext]_svcVars => SrcMade' /\ Published'
<1> SUFFICES ASSUME TypeInv, SrcMade, Published, [SvcNext]_svcVars, NEW t \in Mergers
             PROVE  /\ mrg'[t].src \subseteq 1..made'
                    /\ mrg'[t].pc \in {"upToDate", "book", "unregister", "ok"}
                         => mrg'[t].src \subseteq main'
  BY DEF SrcMade, Published
<1>1. main \subseteq main' /\ 1..made \subseteq 1..made'
  BY MainGrows
<1>2. CASE mrg'[t] = mrg[t]
  BY <1>1, <1>2 DEF SrcMade, Published
<1>3. CASE MergeStep(t)
  BY <1>1, <1>3, MergePublishes
<1> QED
  BY <1>2, <1>3, OnlyItsOwnMerge

LEMMA SvcInvariance == SvcSpec => [](TypeInv /\ SrcMade /\ Published)
BY InitTypeInv, TypeInvStep, PublishedStep, PTL DEF SvcSpec

-----------------------------------------------------------------------------
(* create, adopt, delete, merge and the agents' claims keep the registry's shape,
   every worktree its branch, and commits within those made. *)
THEOREM ServiceTyped == SvcSpec => []SvcTypeOK
<1>1. TypeInv => SvcTypeOK
  BY DEF TypeInv, SvcTypeOK, GitOK, ProcOK, MrgOK, Procs, Merges
<1> QED
  BY <1>1, SvcInvariance, PTL

(* merge(): a merge that answered ok has its commits on the target for good, for any
   number of merges, windows and commits racing with it. *)
THEOREM OkIsPublished == SvcSpec => []MergeOkIsPublished
<1>1. Published => MergeOkIsPublished
  BY DEF Published, MergeOkIsPublished, At
<1> QED
  BY <1>1, SvcInvariance, PTL

(* merge() with removeAfter: the worktree goes only once its work is on the target. *)
THEOREM RemovesOnlyPublished == SvcSpec => MergeRemovesOnlyPublished
<1>1. Published => \A t \in Mergers :
        At(t, "book") /\ Merging(t) \in dir \ dir' => mrg[t].src \subseteq main
  BY DEF Published, At
<1> QED
  BY <1>1, SvcInvariance, PTL DEF SvcSpec, MergeRemovesOnlyPublished

(* merge() gives up a claim of its own task and no other, and goes no further while
   the workspace is claimed. *)
THEOREM LeavesForeignClaims == SvcSpec => MergeLeavesForeignClaims
<1> DEFINE Spared == \A t \in Mergers : mrg'[t].pc # mrg[t].pc =>
       /\ At(t, "leave") /\ stored[Merging(t)].owner \notin {t, Nobody}
            => stored'[Merging(t)] = stored[Merging(t)]
       /\ At(t, "recheck") /\ stored[Merging(t)].status = "busy" => mrg'[t].pc = "idle"
<1>1. TypeInv /\ [SvcNext]_svcVars => Spared
  <2> SUFFICES ASSUME TypeInv, [SvcNext]_svcVars, NEW t \in Mergers, mrg'[t].pc # mrg[t].pc
               PROVE  /\ At(t, "leave") /\ stored[Merging(t)].owner \notin {t, Nobody}
                           => stored'[Merging(t)] = stored[Merging(t)]
                      /\ At(t, "recheck") /\ stored[Merging(t)].status = "busy"
                           => mrg'[t].pc = "idle"
    OBVIOUS
  <2>1. MergeStep(t)
    BY OnlyItsOwnMerge
  <2>2. mrg \in [Mergers -> Merges]
    BY DEF TypeInv, MrgOK
  <2>3. CASE At(t, "leave")
    <3>1. MergeLeave(t) \/ MergeFail(t)
      BY <2>1, <2>3 DEF At, MergeStep, MergeStart, MergeCheck, MergeRecheck, MergeGone,
           MergeAutoCommit, MergeCapture, MergeUpToDate, MergePrepare, MergeConflict,
           MergePublish, MergeVerify, MergeBookMark, MergeBookRemove, MergeBookEntry
    <3>2. stored[Merging(t)].owner # t => stored' = stored
      BY <3>1 DEF MergeLeave, MergeFail, Commit, Current, Released, ReleasableBy, regVars
    <3> QED
      BY <2>3, <3>2 DEF At
  <2>4. CASE At(t, "recheck")
    <3>1. MergeRecheck(t) \/ MergeFail(t)
      BY <2>1, <2>4 DEF At, MergeStep, MergeStart, MergeCheck, MergeLeave, MergeGone,
           MergeAutoCommit, MergeCapture, MergeUpToDate, MergePrepare, MergeConflict,
           MergePublish, MergeVerify, MergeBookMark, MergeBookRemove, MergeBookEntry
    <3>2. stored[Merging(t)].status = "busy" => Refuse(t)
      BY <3>1 DEF MergeRecheck, MergeFail, RecheckFree
    <3> QED
      BY <2>2, <2>4, <3>2 DEF At, Refuse, NoMerge
  <2> QED
    BY <2>3, <2>4
<1> QED
  BY <1>1, SvcInvariance, PTL DEF SvcSpec, MergeLeavesForeignClaims
=============================================================================
