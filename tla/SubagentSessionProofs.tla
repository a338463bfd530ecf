------------------------ MODULE SubagentSessionProofs ------------------------
(***************************************************************************)
(* The life of the subagents for any number of children and watchdogs: the *)
(* invariant of each child, kept by every turn of the event loop.  A claim *)
(* is given back, `done` resolves and a child counts as completed only     *)
(* behind the settlement chain, or the announcement, that justifies it.    *)
(***************************************************************************)
EXTENDS SubagentSession, TLAPS

Justified(c) == run[c] \in Ended \cup {"announced"} \/ task[c] = "resumed"

(* Past its first step the chain knows that the run has ended, and each later step of the
   spawned instance has what the steps before it did. *)
ChainInv(c) ==
  /\ chain[c] # "run" => run[c] \in Ended
  /\ claim[c] = FALSE => chain[c] \in {"releaseOwned", "over"}
  /\ chain[c] = "persist" => writing[c] # "none"
  /\ stack[c] = "resumed" => task[c] = "resumed"
  /\ done[c] = TRUE => chain[c] = "over" \/ forced[c] = TRUE
  /\ forced[c] = TRUE /\ task[c] = "spawned" => status[c] # "running"

CleanInv(c) ==
  task[c] = "spawned" =>
    /\ chain[c] \in {"finally", "release", "releaseOwned", "over"} =>
         inbox[c] # "none" \/ "persist" \in failed[c]
    /\ chain[c] \in {"release", "releaseOwned", "over"} => stack[c] = "none"
    /\ chain[c] = "releaseOwned" => claim[c] = FALSE
    /\ chain[c] = "over" =>
         (claim[c] = FALSE /\ own[c] = FALSE) \/ "release" \in failed[c]

(* Whoever says "completed" of a child, from the session to the parent, may say so. *)
CompletedInv(c) ==
  mark[c] = TRUE \/ "completed" \in {status[c], writing[c], late[c], inbox[c], report[c]}
    => Justified(c)

ChildInv == \A c \in Children : ChainInv(c) /\ CleanInv(c) /\ CompletedInv(c)

IInv == TypeOK /\ ChildInv

LEMMA InitInv == Init => IInv
<1> SUFFICES ASSUME Init PROVE IInv
  OBVIOUS
<1>1. TypeOK
  BY SessionAssumption DEF Init, TypeOK, Final, Ended
<1>2. ChildInv
  BY DEF Init, ChildInv, ChainInv, CleanInv, CompletedInv
<1>3. QED
  BY <1>1, <1>2 DEF IInv

(* A flag of one child that is set, or left, is still a flag. *)
LEMMA FlagSet ==
  ASSUME NEW f \in [Children -> BOOLEAN], NEW c \in Children, NEW b \in BOOLEAN, NEW g,
         g = f \/ g = [f EXCEPT ![c] = b]
  PROVE  g \in [Children -> BOOLEAN]
OBVIOUS

LEMMA TypeStep ==
  ASSUME TypeOK, [Next]_vars
  PROVE  TypeOK'
<1> USE SessionAssumption DEF Final, Ended, Set, InboxStatus, taskVars, resultVars, parentVars
<1>1. CASE UNCHANGED vars
  BY <1>1 DEF vars, TypeOK
<1>2. ASSUME NEW c \in Children, Announce(c) PROVE TypeOK'
  BY <1>2 DEF Announce, TypeOK
<1>3. ASSUME NEW c \in Children, RunEnds(c) PROVE TypeOK'
  BY <1>3 DEF RunEnds, TypeOK
<1>4. ASSUME NEW c \in Children, ClaimOwn(c) PROVE TypeOK'
  BY <1>4 DEF ClaimOwn, TypeOK
<1>5. ASSUME NEW c \in Children, Handler(c) PROVE TypeOK'
  <2>1. status' \in [Children -> Final \cup {"running"}]
    BY <1>5 DEF Handler, Settled, TypeOK
  <2>2. writing' \in [Children -> Final \cup {"none"}]
    BY <1>5 DEF Handler, Settled, TypeOK
  <2>3. chain' \in [Children -> {"run", "persist", "finally", "release", "releaseOwned", "over"}]
    BY <1>5 DEF Handler, Settled, TypeOK
  <2>4. QED
    BY <1>5, <2>1, <2>2, <2>3 DEF Handler, Handled, TypeOK
<1>6. ASSUME NEW c \in Children, Persist(c) PROVE TypeOK'
  BY <1>6 DEF Persist, TypeOK
<1>7. ASSUME NEW c \in Children, Finally(c) PROVE TypeOK'
  <2>1. stack' \in [Children -> {"spawned", "resumed", "none"}]
    BY <1>7 DEF Finally, Over, TypeOK
  <2>2. chain' \in [Children -> {"run", "persist", "finally", "release", "releaseOwned", "over"}]
    BY <1>7 DEF Finally, Over, TypeOK
  <2>3. done' \in [Children -> BOOLEAN]
    <3>1. done' = done \/ done' = [done EXCEPT ![c] = TRUE]
      BY <1>7 DEF Finally, Over
    <3>2. done \in [Children -> BOOLEAN]
      BY DEF TypeOK
    <3>3. QED
      BY <3>1, <3>2, FlagSet
  <2>4. QED
    BY <1>7, <2>1, <2>2, <2>3 DEF Finally, TypeOK
<1>8. ASSUME NEW c \in Children, Release(c) PROVE TypeOK'
  <2>1. claim' \in [Children -> BOOLEAN]
    <3>1. claim' = claim \/ claim' = [claim EXCEPT ![c] = claim[c] /\ ~CanRelease(c)]
      BY <1>8 DEF Release
    <3>2. claim \in [Children -> BOOLEAN]
      BY DEF TypeOK
    <3>3. QED
      BY <3>1, <3>2, FlagSet
  <2>2. chain' \in [Children -> {"run", "persist", "finally", "release", "releaseOwned", "over"}]
    BY <1>8 DEF Release, Over, TypeOK
  <2>3. done' \in [Children -> BOOLEAN]
    <3>1. done' = done \/ done' = [done EXCEPT ![c] = TRUE]
      BY <1>8 DEF Release, Over
    <3>2. done \in [Children -> BOOLEAN]
      BY DEF TypeOK
    <3>3. QED
      BY <3>1, <3>2, FlagSet
  <2>4. failed' \in [Children -> SUBSET {"persist", "release"}]
    BY <1>8 DEF Release, Over, TypeOK
  <2>5. QED
    BY <1>8, <2>1, <2>2, <2>3, <2>4 DEF Release, TypeOK
<1>9. ASSUME NEW c \in Children, ReleaseOwned(c) PROVE TypeOK'
  <2>1. own' \in [Children -> BOOLEAN]
    <3>1. PICK b \in BOOLEAN : own' = [own EXCEPT ![c] = b] \/ own' = own
      BY <1>9 DEF ReleaseOwned
    <3>2. QED
      BY <3>1 DEF TypeOK
  <2>2. chain' \in [Children -> {"run", "persist", "finally", "release", "releaseOwned", "over"}]
    BY <1>9 DEF ReleaseOwned, Over, TypeOK
  <2>3. done' \in [Children -> BOOLEAN]
    BY <1>9 DEF ReleaseOwned, Over, TypeOK
  <2>4. failed' \in [Children -> SUBSET {"persist", "release"}]
    BY <1>9 DEF ReleaseOwned, Over, TypeOK
  <2>5. QED
    BY <1>9, <2>1, <2>2, <2>3, <2>4 DEF ReleaseOwned, TypeOK
<1>10. ASSUME NEW c \in Children, PanelStop(c) PROVE TypeOK'
  <2>1. status' \in [Children -> Final \cup {"running"}]
    BY <1>10 DEF PanelStop, CancelRunning, CancelSettled, Arm, TypeOK
  <2>2. abort' \in [Children -> BOOLEAN]
    <3>1. abort' = abort \/ abort' = [abort EXCEPT ![c] = TRUE]
      BY <1>10 DEF PanelStop, CancelRunning, CancelSettled
    <3>2. abort \in [Children -> BOOLEAN]
      BY DEF TypeOK
    <3>3. QED
      BY <3>1, <3>2, FlagSet
  <2>3. timers' \in [Children -> 0..MaxTimers]
    BY <1>10 DEF PanelStop, CancelRunning, CancelSettled, Arm, TypeOK
  <2>4. stack' \in [Children -> {"spawned", "resumed", "none"}]
    BY <1>10 DEF PanelStop, CancelRunning, CancelSettled, Arm, TypeOK
  <2>5. QED
    BY <1>10, <2>1, <2>2, <2>3, <2>4 DEF PanelStop, TypeOK
<1>11. ASSUME NEW c \in Children, StopAbort(c) PROVE TypeOK'
  BY <1>11 DEF StopAbort, TypeOK
<1>12. ASSUME NEW c \in Children, StopCancel(c) PROVE TypeOK'
  <2>1. status' \in [Children -> Final \cup {"running"}]
    BY <1>12 DEF StopCancel, CancelRunning, CancelSettled, Arm, TypeOK
  <2>2. abort' \in [Children -> BOOLEAN]
    <3>1. abort' = abort \/ abort' = [abort EXCEPT ![c] = TRUE]
      BY <1>12 DEF StopCancel, CancelRunning, CancelSettled
    <3>2. abort \in [Children -> BOOLEAN]
      BY DEF TypeOK
    <3>3. QED
      BY <3>1, <3>2, FlagSet
  <2>3. timers' \in [Children -> 0..MaxTimers]
    BY <1>12 DEF StopCancel, CancelRunning, CancelSettled, Arm, TypeOK
  <2>4. stack' \in [Children -> {"spawned", "resumed", "none"}]
    BY <1>12 DEF StopCancel, CancelRunning, CancelSettled, Arm, TypeOK
  <2>5. stopping' \in [Children -> BOOLEAN]
    BY <1>12 DEF StopCancel, CancelRunning, CancelSettled, Arm, TypeOK
  <2>6. QED
    BY <1>12, <2>1, <2>2, <2>3, <2>4, <2>5 DEF StopCancel, TypeOK
<1>13. ASSUME NEW c \in Children, Watchdog(c) PROVE TypeOK'
  <2>1. status' \in [Children -> Final \cup {"running"}]
    BY <1>13 DEF Watchdog, ForcedStatus, TypeOK
  <2>2. timers' \in [Children -> 0..MaxTimers]
    BY <1>13 DEF Watchdog, ForcedStatus, TypeOK
  <2>3. forced' \in [Children -> BOOLEAN]
    <3>1. forced' = forced \/ forced' = [forced EXCEPT ![c] = TRUE]
      BY <1>13 DEF Watchdog
    <3>2. forced \in [Children -> BOOLEAN]
      BY DEF TypeOK
    <3>3. QED
      BY <3>1, <3>2, FlagSet
  <2>4. late' \in [Children -> Final \cup {"none"}]
    BY <1>13 DEF Watchdog, ForcedStatus, TypeOK
  <2>5. done' \in [Children -> BOOLEAN]
    <3>1. done' = done \/ done' = [done EXCEPT ![c] = TRUE]
      BY <1>13 DEF Watchdog
    <3>2. done \in [Children -> BOOLEAN]
      BY DEF TypeOK
    <3>3. QED
      BY <3>1, <3>2, FlagSet
  <2>6. QED
    BY <1>13, <2>1, <2>2, <2>3, <2>4, <2>5 DEF Watchdog, TypeOK
<1>14. ASSUME NEW c \in Children, LateWrite(c) PROVE TypeOK'
  BY <1>14 DEF LateWrite, TypeOK
<1>15. ASSUME NEW c \in Children, Continue(c) PROVE TypeOK'
  BY <1>15 DEF Continue, TypeOK
<1>16. ASSUME NEW c \in Children, ResumedAnnounces(c) PROVE TypeOK'
  BY <1>16 DEF ResumedAnnounces, TypeOK
<1>17. ASSUME NEW c \in Children, MarkCompleted(c) PROVE TypeOK'
  BY <1>17 DEF MarkCompleted, TypeOK
<1>18. CASE ParentCollects
  BY <1>18 DEF ParentCollects, Reported, childVars, TypeOK
<1>19. CASE ParentLeaves
  BY <1>19 DEF ParentLeaves, childVars, TypeOK
<1>20. CASE ParentResumes
  BY <1>20 DEF ParentResumes, childVars, TypeOK
<1>21. CASE ParentInjects
  BY <1>21 DEF ParentInjects, childVars, TypeOK
<1>22. QED
  BY <1>1, <1>2, <1>3, <1>4, <1>5, <1>6, <1>7, <1>8, <1>9, <1>10, <1>11,
     <1>12, <1>13, <1>14, <1>15, <1>16, <1>17, <1>18, <1>19, <1>20, <1>21 DEF Next, ChildStep

LEMMA ChildStepInv ==
  ASSUME IInv, [Next]_vars
  PROVE  ChildInv'
<1> SUFFICES ASSUME NEW c \in Children
             PROVE  (ChainInv(c) /\ CleanInv(c) /\ CompletedInv(c))'
  BY DEF ChildInv
<1> USE DEF Final, Ended, Set, InboxStatus, taskVars, resultVars, parentVars, Justified
<1>0. TypeOK /\ ChainInv(c) /\ CleanInv(c) /\ CompletedInv(c)
  BY DEF IInv, ChildInv
<1>1. CASE UNCHANGED vars
  BY <1>0, <1>1 DEF vars, ChainInv, CleanInv, CompletedInv
<1>2. ASSUME NEW d \in Children, Announce(d) PROVE (ChainInv(c) /\ CleanInv(c) /\ CompletedInv(c))'
  <2>1. ChainInv(c)'
    BY <1>0, <1>2 DEF Announce, TypeOK, ChainInv
  <2>2. CleanInv(c)'
    BY <1>0, <1>2 DEF Announce, TypeOK, ChainInv, CleanInv
  <2>3. CompletedInv(c)'
    BY <1>0, <1>2 DEF Announce, TypeOK, ChainInv, CompletedInv
  <2>4. QED
    BY <2>1, <2>2, <2>3
<1>3. ASSUME NEW d \in Children, RunEnds(d) PROVE (ChainInv(c) /\ CleanInv(c) /\ CompletedInv(c))'
  <2>1. ChainInv(c)'
    BY <1>0, <1>3 DEF RunEnds, Aborted, TypeOK, ChainInv
  <2>2. CleanInv(c)'
    BY <1>0, <1>3 DEF RunEnds, Aborted, TypeOK, ChainInv, CleanInv
  <2>3. CompletedInv(c)'
    BY <1>0, <1>3 DEF RunEnds, Aborted, TypeOK, ChainInv, CompletedInv
  <2>4. QED
    BY <2>1, <2>2, <2>3
<1>4. ASSUME NEW d \in Children, ClaimOwn(d) PROVE (ChainInv(c) /\ CleanInv(c) /\ CompletedInv(c))'
  <2>1. ChainInv(c)'
    BY <1>0, <1>4 DEF ClaimOwn, TypeOK, ChainInv
  <2>2. CleanInv(c)'
    BY <1>0, <1>4 DEF ClaimOwn, TypeOK, ChainInv, CleanInv
  <2>3. CompletedInv(c)'
    BY <1>0, <1>4 DEF ClaimOwn, TypeOK, ChainInv, CompletedInv
  <2>4. QED
    BY <2>1, <2>2, <2>3
<1>5. ASSUME NEW d \in Children, Handler(d) PROVE (ChainInv(c) /\ CleanInv(c) /\ CompletedInv(c))'
  <2>1. ChainInv(c)'
    BY <1>0, <1>5 DEF Handler, RunSettled, Settled, Handled, TypeOK, ChainInv
  <2>2. CleanInv(c)'
    BY <1>0, <1>5 DEF Handler, RunSettled, Settled, Handled, TypeOK, ChainInv, CleanInv
  <2>3. CompletedInv(c)'
    BY <1>0, <1>5 DEF Handler, RunSettled, Settled, Handled, TypeOK, ChainInv, CompletedInv
  <2>4. QED
    BY <2>1, <2>2, <2>3
<1>6. ASSUME NEW d \in Children, Persist(d) PROVE (ChainInv(c) /\ CleanInv(c) /\ CompletedInv(c))'
  <2>1. ChainInv(c)'
    BY <1>0, <1>6 DEF Persist, TypeOK, ChainInv
  <2>2. CleanInv(c)'
    BY <1>0, <1>6 DEF Persist, TypeOK, ChainInv, CleanInv
  <2>3. CompletedInv(c)'
    BY <1>0, <1>6 DEF Persist, TypeOK, ChainInv, CompletedInv
  <2>4. QED
    BY <2>1, <2>2, <2>3
<1>7. ASSUME NEW d \in Children, Finally(d) PROVE (ChainInv(c) /\ CleanInv(c) /\ CompletedInv(c))'
  <2>1. ChainInv(c)'
    BY <1>0, <1>7 DEF Finally, CanRelease, Over, TypeOK, ChainInv
  <2>2. CleanInv(c)'
    BY <1>0, <1>7 DEF Finally, CanRelease, Over, TypeOK, ChainInv, CleanInv
  <2>3. CompletedInv(c)'
    BY <1>0, <1>7 DEF Finally, CanRelease, Over, TypeOK, ChainInv, CompletedInv
  <2>4. QED
    BY <2>1, <2>2, <2>3
<1>8. ASSUME NEW d \in Children, Release(d) PROVE (ChainInv(c) /\ CleanInv(c) /\ CompletedInv(c))'
  <2>1. ChainInv(c)'
    BY <1>0, <1>8 DEF Release, CanRelease, Over, TypeOK, ChainInv
  <2>2. CleanInv(c)'
    <3>1. CASE d # c
      BY <1>0, <1>8, <3>1 DEF Release, Over, TypeOK, CleanInv
    <3>2. CASE d = c
      <4>1. task[c] = "spawned" => CanRelease(c)
        BY DEF CanRelease
      <4>2. UNCHANGED <<task, stack, own, inbox>> /\ chain[c] = "release"
        BY <1>8, <3>2 DEF Release
      <4>3. CASE /\ claim' = Set(claim, c, claim[c] /\ ~CanRelease(c)) /\ UNCHANGED failed
                 /\ IF CanRelease(c) THEN chain' = Set(chain, c, "releaseOwned") /\ UNCHANGED done
                                     ELSE Over(c)
        <5>1. task[c] = "spawned" => chain'[c] = "releaseOwned"
          BY <1>0, <4>1, <4>3 DEF TypeOK
        <5>2. claim'[c] = (claim[c] /\ ~CanRelease(c))
          BY <4>3, <1>0 DEF TypeOK
        <5>3. task[c] = "spawned" => claim'[c] = FALSE
          BY <4>1, <5>2
        <5>4. QED
          BY <1>0, <4>1, <4>2, <4>3, <5>1, <5>3 DEF CleanInv
      <4>4. CASE failed' = Set(failed, c, failed[c] \cup {"release"}) /\ Over(c)
        BY <1>0, <4>2, <4>4 DEF Over, CleanInv, TypeOK
      <4>5. QED
        BY <1>8, <3>2, <4>3, <4>4 DEF Release
    <3>3. QED
      BY <3>1, <3>2
  <2>3. CompletedInv(c)'
    BY <1>0, <1>8 DEF Release, CanRelease, Over, TypeOK, ChainInv, CompletedInv
  <2>4. QED
    BY <2>1, <2>2, <2>3
<1>9. ASSUME NEW d \in Children, ReleaseOwned(d) PROVE (ChainInv(c) /\ CleanInv(c) /\ CompletedInv(c))'
  <2>1. ChainInv(c)'
    BY <1>0, <1>9 DEF ReleaseOwned, CanRelease, Over, TypeOK, ChainInv
  <2>2. CleanInv(c)'
    BY <1>0, <1>9 DEF ReleaseOwned, CanRelease, Over, TypeOK, ChainInv, CleanInv
  <2>3. CompletedInv(c)'
    BY <1>0, <1>9 DEF ReleaseOwned, CanRelease, Over, TypeOK, ChainInv, CompletedInv
  <2>4. QED
    BY <2>1, <2>2, <2>3
<1>10. ASSUME NEW d \in Children, PanelStop(d) PROVE (ChainInv(c) /\ CleanInv(c) /\ CompletedInv(c))'
  <2>1. ChainInv(c)'
    BY <1>0, <1>10 DEF PanelStop, CancelRunning, CancelSettled, TypeOK, ChainInv
  <2>2. CleanInv(c)'
    BY <1>0, <1>10 DEF PanelStop, CancelRunning, CancelSettled, TypeOK, ChainInv, CleanInv
  <2>3. CompletedInv(c)'
    BY <1>0, <1>10 DEF PanelStop, CancelRunning, CancelSettled, TypeOK, ChainInv, CompletedInv
  <2>4. QED
    BY <2>1, <2>2, <2>3
<1>11. ASSUME NEW d \in Children, StopAbort(d) PROVE (ChainInv(c) /\ CleanInv(c) /\ CompletedInv(c))'
  <2>1. ChainInv(c)'
    BY <1>0, <1>11 DEF StopAbort, TypeOK, ChainInv
  <2>2. CleanInv(c)'
    BY <1>0, <1>11 DEF StopAbort, TypeOK, ChainInv, CleanInv
  <2>3. CompletedInv(c)'
    BY <1>0, <1>11 DEF StopAbort, TypeOK, ChainInv, CompletedInv
  <2>4. QED
    BY <2>1, <2>2, <2>3
<1>12. ASSUME NEW d \in Children, StopCancel(d) PROVE (ChainInv(c) /\ CleanInv(c) /\ CompletedInv(c))'
  <2>1. ChainInv(c)'
    BY <1>0, <1>12 DEF StopCancel, CancelRunning, CancelSettled, TypeOK, ChainInv
  <2>2. CleanInv(c)'
    BY <1>0, <1>12 DEF StopCancel, CancelRunning, CancelSettled, TypeOK, ChainInv, CleanInv
  <2>3. CompletedInv(c)'
    BY <1>0, <1>12 DEF StopCancel, CancelRunning, CancelSettled, TypeOK, ChainInv, CompletedInv
  <2>4. QED
    BY <2>1, <2>2, <2>3
<1>13. ASSUME NEW d \in Children, Watchdog(d) PROVE (ChainInv(c) /\ CleanInv(c) /\ CompletedInv(c))'
  <2>1. ChainInv(c)'
    BY <1>0, <1>13 DEF Watchdog, ForcedStatus, TypeOK, ChainInv
  <2>2. CleanInv(c)'
    BY <1>0, <1>13 DEF Watchdog, ForcedStatus, TypeOK, ChainInv, CleanInv
  <2>3. CompletedInv(c)'
    BY <1>0, <1>13 DEF Watchdog, ForcedStatus, TypeOK, ChainInv, CompletedInv
  <2>4. QED
    BY <2>1, <2>2, <2>3
<1>14. ASSUME NEW d \in Children, LateWrite(d) PROVE (ChainInv(c) /\ CleanInv(c) /\ CompletedInv(c))'
  <2>1. ChainInv(c)'
    BY <1>0, <1>14 DEF LateWrite, TypeOK, ChainInv
  <2>2. CleanInv(c)'
    BY <1>0, <1>14 DEF LateWrite, TypeOK, ChainInv, CleanInv
  <2>3. CompletedInv(c)'
    BY <1>0, <1>14 DEF LateWrite, TypeOK, ChainInv, CompletedInv
  <2>4. QED
    BY <2>1, <2>2, <2>3
<1>15. ASSUME NEW d \in Children, Continue(d) PROVE (ChainInv(c) /\ CleanInv(c) /\ CompletedInv(c))'
  <2>1. ChainInv(c)'
    BY <1>0, <1>15 DEF Continue, TypeOK, ChainInv
  <2>2. CleanInv(c)'
    BY <1>0, <1>15 DEF Continue, TypeOK, ChainInv, CleanInv
  <2>3. CompletedInv(c)'
    BY <1>0, <1>15 DEF Continue, TypeOK, ChainInv, CompletedInv
  <2>4. QED
    BY <2>1, <2>2, <2>3
<1>16. ASSUME NEW d \in Children, ResumedAnnounces(d) PROVE (ChainInv(c) /\ CleanInv(c) /\ CompletedInv(c))'
  <2>1. ChainInv(c)'
    BY <1>0, <1>16 DEF ResumedAnnounces, TypeOK, ChainInv
  <2>2. CleanInv(c)'
    BY <1>0, <1>16 DEF ResumedAnnounces, TypeOK, ChainInv, CleanInv
  <2>3. CompletedInv(c)'
    BY <1>0, <1>16 DEF ResumedAnnounces, TypeOK, ChainInv, CompletedInv
  <2>4. QED
    BY <2>1, <2>2, <2>3
<1>17. ASSUME NEW d \in Children, MarkCompleted(d) PROVE (ChainInv(c) /\ CleanInv(c) /\ CompletedInv(c))'
  <2>1. ChainInv(c)'
    BY <1>0, <1>17 DEF MarkCompleted, TypeOK, ChainInv
  <2>2. CleanInv(c)'
    BY <1>0, <1>17 DEF MarkCompleted, TypeOK, ChainInv, CleanInv
  <2>3. CompletedInv(c)'
    BY <1>0, <1>17 DEF MarkCompleted, TypeOK, ChainInv, CompletedInv
  <2>4. QED
    BY <2>1, <2>2, <2>3
<1>18. CASE ParentCollects
  BY <1>0, <1>18 DEF ParentCollects, Reported, childVars, TypeOK, ChainInv, CleanInv, CompletedInv
<1>19. CASE ParentLeaves
  BY <1>0, <1>19 DEF ParentLeaves, childVars, TypeOK, ChainInv, CleanInv, CompletedInv
<1>20. CASE ParentResumes
  BY <1>0, <1>20 DEF ParentResumes, childVars, TypeOK, ChainInv, CleanInv, CompletedInv
<1>21. CASE ParentInjects
  BY <1>0, <1>21 DEF ParentInjects, childVars, TypeOK, ChainInv, CleanInv, CompletedInv
<1>22. QED
  BY <1>1, <1>2, <1>3, <1>4, <1>5, <1>6, <1>7, <1>8, <1>9, <1>10, <1>11,
     <1>12, <1>13, <1>14, <1>15, <1>16, <1>17, <1>18, <1>19, <1>20, <1>21 DEF Next, ChildStep

(* The invariant holds for any number of children and watchdogs. *)
LEMMA Invariance == Spec => []IInv
<1>1. IInv /\ [Next]_vars => IInv'
  BY TypeStep, ChildStepInv DEF IInv
<1>2. QED
  BY InitInv, <1>1, PTL DEF Spec

LEMMA InvImplies ==
  ASSUME IInv
  PROVE  TypeOK /\ ClaimOutlivesRun /\ DoneMeansCleanedUp /\ CompletedMeansEnded
<1>1. TypeOK /\ \A c \in Children : ChainInv(c) /\ CleanInv(c) /\ CompletedInv(c)
  BY DEF IInv, ChildInv
<1>2. ClaimOutlivesRun
  BY <1>1 DEF ClaimOutlivesRun, ChainInv, TypeOK
<1>3. DoneMeansCleanedUp
  BY <1>1 DEF DoneMeansCleanedUp, ChainInv, CleanInv, TypeOK
<1>4. CompletedMeansEnded
  BY <1>1 DEF CompletedMeansEnded, CompletedInv, Justified
<1>5. QED
  BY <1>1, <1>2, <1>3, <1>4

(* Every field of a session keeps to its type. *)
THEOREM SessionTyped == Spec => []TypeOK
BY Invariance, InvImplies, PTL

(* "A watchdog result is not proof that writes stopped" (spawn()): the workspace of a run
   that may still write is never given back. *)
THEOREM ClaimsOutliveRuns == Spec => []ClaimOutlivesRun
BY Invariance, InvImplies, PTL

(* "awaiting done guarantees the child is fully cleaned up" (spawn()), unless the watchdog
   forced it, the user took the child over, or a step reported its failure. *)
THEOREM DoneIsCleanedUp == Spec => []DoneMeansCleanedUp
BY Invariance, InvImplies, PTL

(* The parent never tells its model that a child completed whose run is still at work. *)
THEOREM CompletedHasEnded == Spec => []CompletedMeansEnded
BY Invariance, InvImplies, PTL

(* What the watchdog decided stays: no late settlement turns the status of a cancelled
   child into another one (DEFECT S). *)
THEOREM ForcedSticks == Spec => ForcedStatusSticks
<1>1. ASSUME IInv, [Next]_vars, NEW c \in Children, forced[c], task[c] = "spawned",
             task'[c] = "spawned"
      PROVE  status'[c] \in {status[c], "cancelled"}
  <2> USE DEF Set
  <2>0. TypeOK /\ status[c] # "running"
    BY <1>1 DEF IInv, ChildInv, ChainInv
  <2>1. ASSUME NEW d \in Children, status' = [status EXCEPT ![d] = "cancelled"]
        PROVE  status'[c] \in {status[c], "cancelled"}
    BY <2>0, <2>1 DEF TypeOK
  <2>2. ASSUME NEW d \in Children, Handler(d) PROVE status'[c] = status[c]
    <3>1. CASE d = c
      BY <1>1, <2>2, <3>1 DEF Handler, Settled
    <3>2. CASE d # c
      BY <2>0, <2>2, <3>2 DEF Handler, Settled, TypeOK
    <3>3. QED
      BY <3>1, <3>2
  <2>3. ASSUME NEW d \in Children, Watchdog(d) \/ MarkCompleted(d) PROVE status'[c] = status[c]
    BY <2>0, <2>3 DEF Watchdog, MarkCompleted, TypeOK
  <2>4. ASSUME NEW d \in Children, PanelStop(d) \/ StopCancel(d)
        PROVE  status' = status \/ status' = [status EXCEPT ![d] = "cancelled"]
    BY <2>4 DEF PanelStop, StopCancel, CancelRunning, CancelSettled
  <2>5. ASSUME NEW d \in Children, Continue(d) PROVE status'[c] = status[c]
    BY <1>1, <2>0, <2>5 DEF Continue, TypeOK
  <2>6. ASSUME NEW d \in Children,
               Announce(d) \/ RunEnds(d) \/ ClaimOwn(d) \/ Persist(d) \/ Finally(d) \/ Release(d)
                 \/ ReleaseOwned(d) \/ StopAbort(d) \/ LateWrite(d) \/ ResumedAnnounces(d)
        PROVE  status' = status
    BY <2>6 DEF Announce, RunEnds, ClaimOwn, Persist, Finally, Release, ReleaseOwned, StopAbort,
       LateWrite, ResumedAnnounces
  <2>7. CASE UNCHANGED vars \/ ParentCollects \/ ParentLeaves \/ ParentResumes \/ ParentInjects
    BY <2>7 DEF vars, childVars, ParentCollects, ParentLeaves, ParentResumes, ParentInjects
  <2>8. QED
    BY <1>1, <2>1, <2>2, <2>3, <2>4, <2>5, <2>6, <2>7 DEF Next, ChildStep
<1>2. IInv /\ [Next]_vars =>
        [\A c \in Children : forced[c] /\ task[c] = "spawned" /\ task'[c] = "spawned"
           => status'[c] \in {status[c], "cancelled"}]_vars
  BY <1>1
<1>3. QED
  BY Invariance, <1>2, PTL DEF Spec, ForcedStatusSticks

(* Once the user has continued a child, the settlement chain of the replaced instance
   changes nothing of the session and gives no workspace back. *)
THEOREM StaleIsInert == Spec => StaleSettlementInert
<1>1. ASSUME IInv, [Next]_vars, NEW c \in Children, task[c] = "resumed", chain'[c] # chain[c]
      PROVE  /\ status'[c] = status[c] /\ stack'[c] = stack[c]
             /\ claim'[c] = claim[c] /\ own'[c] = own[c]
  <2> USE DEF Set, taskVars
  <2>0. TypeOK
    BY <1>1 DEF IInv
  <2>1. ASSUME NEW d \in Children, Handler(d) \/ Persist(d) \/ Finally(d)
        PROVE  /\ status'[c] = status[c] /\ stack'[c] = stack[c]
               /\ claim'[c] = claim[c] /\ own'[c] = own[c]
    BY <1>1, <2>0, <2>1 DEF Handler, Persist, Finally, CanRelease, Over, TypeOK
  <2>2. ASSUME NEW d \in Children, Release(d) \/ ReleaseOwned(d), d # c
        PROVE  FALSE
    BY <1>1, <2>0, <2>2 DEF Release, ReleaseOwned, Over, TypeOK
  <2>3. ASSUME Release(c) \/ ReleaseOwned(c)
        PROVE  /\ status'[c] = status[c] /\ stack'[c] = stack[c]
               /\ claim'[c] = claim[c] /\ own'[c] = own[c]
    <3>1. ~CanRelease(c)
      BY <1>1 DEF CanRelease
    <3>2. (claim[c] /\ ~CanRelease(c)) = claim[c] /\ (own[c] /\ ~CanRelease(c)) = own[c]
      BY <2>0, <3>1 DEF TypeOK
    <3>3. QED
      BY <2>0, <2>3, <3>2 DEF Release, ReleaseOwned, TypeOK
  <2>4. ASSUME NEW d \in Children,
               Announce(d) \/ RunEnds(d) \/ ClaimOwn(d) \/ PanelStop(d) \/ StopAbort(d)
                 \/ StopCancel(d) \/ Watchdog(d) \/ LateWrite(d) \/ Continue(d)
                 \/ ResumedAnnounces(d) \/ MarkCompleted(d)
        PROVE  FALSE
    BY <1>1, <2>4 DEF Announce, RunEnds, ClaimOwn, PanelStop, StopAbort, StopCancel, Watchdog,
       LateWrite, Continue, ResumedAnnounces, MarkCompleted
  <2>5. ~(UNCHANGED vars \/ ParentCollects \/ ParentLeaves \/ ParentResumes \/ ParentInjects)
    BY <1>1 DEF vars, childVars, ParentCollects, ParentLeaves, ParentResumes, ParentInjects
  <2>6. QED
    BY <1>1, <2>1, <2>2, <2>3, <2>4, <2>5 DEF Next, ChildStep
<1>2. IInv /\ [Next]_vars =>
        [\A c \in Children : task[c] = "resumed" /\ chain'[c] # chain[c]
           => /\ status'[c] = status[c] /\ stack'[c] = stack[c]
              /\ claim'[c] = claim[c] /\ own'[c] = own[c]]_vars
  BY <1>1
<1>3. QED
  BY Invariance, <1>2, PTL DEF Spec, StaleSettlementInert
=============================================================================
