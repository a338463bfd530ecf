---------------------------- MODULE TaskAskProofs ----------------------------
(***************************************************************************)
(* For any number of asks and messages: the slot of a task is typed, what  *)
(* is pending waits, and what the user has answered goes to the ask that   *)
(* was waiting.  The argument: the loop awaits one ask or one command at a *)
(* time, so the pending ask is the only one of the loop's that is under    *)
(* way, and no answer of the user's is left in the slot when another one   *)
(* begins to wait.                                                         *)
(***************************************************************************)
EXTENDS TaskAsk, TLAPS

LoopAsk(a) == pc[a] \in Awaited /\ kind[a] # "command_output"

(* Timers run for asks that have been made, the command's for an ask of its own. *)
TimersAsked == /\ \A a \in timers : pc[a] # "none"
               /\ cmdTimer = TRUE => cmdAsk \in Asks

(* The loop awaits one ask or one command. *)
OneAwaited == /\ \A a, b \in Asks : LoopAsk(a) /\ LoopAsk(b) => a = b
              /\ command # "none" => \A a \in Asks : ~LoopAsk(a)

(* With an empty slot, what is pending is the last message, if that one waits. *)
PendingIsLast ==
  \A b \in Asks : resp = NoAnswer /\ pending # None /\ pc[b] = "blocked" /\ last = b
                    => pending = b

(* An answer of the user's in the slot is for the ask that will take it ... *)
UserInSlot ==
  \A b \in Asks : resp.by = "user" /\ pc[b] = "blocked" /\ last = b => resp.for = b

(* ... and none is there when an ask of the loop begins. *)
SlotClean ==
  \A b \in Asks : LoopAsk(b) /\ pc[b] # "blocked" => resp.by # "user"

IInv == /\ TypeOK /\ TimersAsked /\ PendingIsBlocked /\ OneAwaited
        /\ PendingIsLast /\ UserInSlot /\ SlotClean /\ UserAnswersTheirAsk

LEMMA AsksTyped == None \notin Asks /\ (\A a \in Asks : a # None)
BY AskAssumption DEF Asks, None

LEMMA AnswersTyped ==
  /\ NoAnswer \in Answers /\ NoAnswer.by = "none"
  /\ \A a \in Asks, o \in Origins : /\ [for |-> a, by |-> o] \in Answers
                                    /\ [for |-> a, by |-> o] # NoAnswer
BY AsksTyped DEF Answers, NoAnswer, Origins, None

LEMMA InitInv == Init => IInv
<1> SUFFICES ASSUME Init PROVE IInv
  OBVIOUS
<1> USE DEF Init
<1>1. TypeOK
  <2>1. /\ kind \in [Asks -> LoopKinds \cup {"command_output"}]
        /\ pc \in [Asks -> {"none", "partial", "answered", "superseded"} \cup Awaited]
        /\ result \in [Asks -> Answers]
    BY AnswersTyped DEF LoopKinds
  <2>2. says \in 0..MaxSays
    BY AskAssumption
  <2>3. QED
    BY <2>1, <2>2, AnswersTyped DEF TypeOK
<1>2. TimersAsked /\ PendingIsBlocked
  BY DEF TimersAsked, PendingIsBlocked
<1>3. \A a \in Asks : ~LoopAsk(a) /\ pc[a] = "none" /\ result[a].by = "none"
  BY AnswersTyped DEF LoopAsk, Awaited
<1>4. OneAwaited /\ PendingIsLast /\ UserInSlot /\ SlotClean /\ UserAnswersTheirAsk
  BY <1>3, AnswersTyped
     DEF OneAwaited, PendingIsLast, UserInSlot, SlotClean, UserAnswersTheirAsk
<1>5. QED
  BY <1>1, <1>2, <1>4 DEF IInv

(* The common parts of the steps are typed. *)
LEMMA RespondTyped ==
  ASSUME TypeOK, NEW a \in Asks, NEW o \in Origins, Respond(a, o)
  PROVE  /\ resp' \in Answers /\ resp' # NoAnswer /\ resp'.by = o /\ resp'.for = a
         /\ timers' \subseteq timers /\ timerRef' \in Asks \cup {None}
         /\ answered' \subseteq Asks
BY AnswersTyped DEF Respond, TypeOK, Marked, Unanswered

LEMMA PendingAskTyped ==
  ASSUME TypeOK, PendingAsk # None
  PROVE  PendingAsk = pending /\ pending \in Asks /\ resp = NoAnswer /\ pending # None
BY DEF PendingAsk, TypeOK

Typed == TypeOK /\ TimersAsked

LEMMA TypeStep ==
  ASSUME Typed, PendingIsBlocked, [Next]_vars
  PROVE  Typed'
<1> USE AsksTyped, AnswersTyped DEF Awaited, LoopKinds
<1>0. TypeOK /\ TimersAsked
  BY DEF Typed
<1>1. CASE UNCHANGED vars
  BY <1>0, <1>1 DEF vars, slotVars, timerVars, cmdVars, Typed, TypeOK, TimersAsked
<1>2. ASSUME NEW a \in Asks, AskPartial(a) PROVE Typed'
  BY <1>0, <1>2 DEF AskPartial, IsNext, Goto, timerVars, cmdVars, Typed, TypeOK, TimersAsked
<1>3. ASSUME NEW a \in Asks, AskComplete(a) PROVE Typed'
  BY <1>0, <1>3 DEF AskComplete, Started, Goto, timerVars, cmdVars, Typed, TypeOK, TimersAsked
<1>4. ASSUME NEW a \in Asks, AskNew(a) PROVE Typed'
  BY <1>0, <1>4 DEF AskNew, Ask, IsNext, Started, Goto, timerVars, Typed, TypeOK, TimersAsked
<1>5. ASSUME NEW a \in Asks, Output(a) PROVE Typed'
  BY <1>0, <1>5 DEF Output, Ask, IsNext, Started, Goto, timerVars, Typed, TypeOK, TimersAsked
<1>6. ASSUME NEW a \in Asks, Stamp(a) PROVE Typed'
  BY <1>0, <1>6 DEF Stamp, Goto, timerVars, cmdVars, Typed, TypeOK, TimersAsked
<1>7. ASSUME NEW a \in Asks, Decide(a) PROVE Typed'
  <2>1. PICK d \in Decisions(kind[a]) :
          CASE d = "ask"     -> UNCHANGED <<resp, timerVars, answered>>
            [] d = "timeout" -> /\ timerRef' = a /\ timers' = timers \cup {a}
                                /\ UNCHANGED <<resp, answered>>
            [] OTHER         -> Respond(a, "auto")
    BY <1>7 DEF Decide
  <2>2. d = "timeout" => kind[a] = "followup"
    BY <1>0 DEF Decisions, TypeOK
  <2>3. /\ resp' \in Answers /\ answered' \subseteq Asks /\ timerRef' \in Asks \cup {None}
        /\ timers' \subseteq timers \cup {a} /\ (kind[a] = "followup" \/ timers' \subseteq timers)
    <3>1. CASE d = "ask"
      BY <1>0, <2>1, <3>1 DEF TypeOK, timerVars
    <3>2. CASE d = "timeout"
      BY <1>0, <2>1, <2>2, <3>2 DEF TypeOK
    <3>3. CASE d \notin {"ask", "timeout"}
      <4>1. Respond(a, "auto")
        BY <2>1, <3>3
      <4>2. QED
        BY <1>0, <4>1, RespondTyped DEF Origins
    <3>4. QED
      BY <3>1, <3>2, <3>3
  <2>4. QED
    BY <1>0, <1>7, <2>3 DEF Decide, Goto, cmdVars, Typed, TypeOK, TimersAsked
<1>8. ASSUME NEW a \in Asks, AutoAnswer(a) PROVE Typed'
  BY <1>0, <1>8 DEF AutoAnswer, Goto, Marked, Unanswered, cmdVars, Origins, Typed, TypeOK,
     TimersAsked
<1>9. ASSUME NEW a \in Asks, Superseded(a) PROVE Typed'
  BY <1>0, <1>9 DEF Superseded, Unpend, Goto, timerVars, cmdVars, Typed, TypeOK, TimersAsked
<1>10. ASSUME NEW a \in Asks, Answered(a) PROVE Typed'
  BY <1>0, <1>10 DEF Answered, Unpend, Goto, cmdVars, Typed, TypeOK, TimersAsked
<1>11. ASSUME NEW a \in Asks, TimerFires(a) PROVE Typed'
  BY <1>0, <1>11 DEF TimerFires, Marked, Unanswered, cmdVars, Origins, Typed, TypeOK,
     TimersAsked
<1>12. CASE RunCommand
  BY <1>0, <1>12 DEF RunCommand, slotVars, timerVars, Typed, TypeOK, TimersAsked
<1>13. CASE AutoContinue
  <2>1. cmdAsk \in Asks
    BY <1>0, <1>13 DEF AutoContinue, TypeOK, TimersAsked
  <2>2. /\ resp' \in Answers /\ timers' \subseteq timers
        /\ timerRef' \in Asks \cup {None} /\ answered' \subseteq Asks
    BY <1>0, <1>13, <2>1, RespondTyped DEF AutoContinue, Origins
  <2>3. QED
    BY <1>0, <1>13, <2>2 DEF AutoContinue, Typed, TypeOK, TimersAsked
<1>14. CASE CommandEnds
  <2>1. /\ resp' \in Answers /\ timers' \subseteq timers
        /\ timerRef' \in Asks \cup {None} /\ answered' \subseteq Asks
    BY <1>0, <1>14, RespondTyped, PendingAskTyped DEF CommandEnds, Origins, timerVars, TypeOK
  <2>2. QED
    BY <1>0, <1>14, <2>1 DEF CommandEnds, Typed, TypeOK, TimersAsked
<1>15. CASE CommandFails
  BY <1>0, <1>15 DEF CommandFails, timerVars, Typed, TypeOK, TimersAsked
<1>16. CASE Say
  <2>1. says' \in 0..MaxSays
    BY <1>0, <1>16, AskAssumption DEF Say, TypeOK
  <2>2. QED
    BY <1>0, <1>16, <2>1 DEF Say, timerVars, cmdVars, Typed, TypeOK, TimersAsked
<1>17. CASE User
  <2>1. ASSUME NEW a \in Visible, Click(a) PROVE Typed'
    <3>1. a \in Asks
      BY <2>1 DEF Visible
    <3>2. QED
      BY <1>0, <2>1, <3>1, RespondTyped DEF Click, cmdVars, Origins, Typed, TypeOK, TimersAsked
  <2>2. ASSUME NEW a \in Visible, LateClick(a) PROVE Typed'
    BY <1>0, <2>2 DEF LateClick, ClearStale, timerVars, cmdVars, Typed, TypeOK, TimersAsked
  <2>3. ASSUME NEW a \in Visible, StaleClick(a) PROVE Typed'
    BY <1>0, <2>3 DEF StaleClick, ClearStale, timerVars, Typed, TypeOK, TimersAsked
  <2>4. CASE StaleTerminal
    BY <1>0, <2>4 DEF StaleTerminal, ClearStale, timerVars, cmdVars, Typed, TypeOK, TimersAsked
  <2>5. CASE Type
    BY <1>0, <2>5, RespondTyped, PendingAskTyped
       DEF Type, cmdVars, Origins, Typed, TypeOK, TimersAsked
  <2>6. CASE TypeAhead
    BY <1>0, <2>6 DEF TypeAhead, ClearStale, timerVars, Typed, TypeOK, TimersAsked
  <2>7. CASE Cancel
    BY <1>0, <2>7 DEF Cancel, slotVars, timerVars, cmdVars, Typed, TypeOK, TimersAsked
  <2>8. QED
    BY <1>17, <2>1, <2>2, <2>3, <2>4, <2>5, <2>6, <2>7 DEF User
<1>18. QED
  BY <1>1, <1>2, <1>3, <1>4, <1>5, <1>6, <1>7, <1>8, <1>9, <1>10, <1>11, <1>12, <1>13, <1>14,
     <1>15, <1>16, <1>17 DEF Next, AskStep

(* Which asks of the loop's are under way, and which one is pending. *)
Waiting == PendingIsBlocked /\ OneAwaited

(* While the loop is free, and while it is in a command, nothing is pending. *)
LEMMA NothingPends ==
  ASSUME TypeOK, PendingIsBlocked, \A a \in Asks : ~LoopAsk(a)
  PROVE  pending = None
BY AsksTyped DEF TypeOK, PendingIsBlocked, LoopAsk, Awaited

LEMMA WaitingStep ==
  ASSUME TypeOK, Waiting, [Next]_vars
  PROVE  Waiting'
<1> USE AsksTyped DEF Awaited, LoopKinds
<1>0. TypeOK /\ PendingIsBlocked /\ OneAwaited
  BY DEF Waiting
<1>1. CASE UNCHANGED <<kind, pc, pending, command>>
  BY <1>0, <1>1 DEF Waiting, PendingIsBlocked, OneAwaited, LoopAsk
<1>2. ASSUME NEW a \in Asks, AskPartial(a) \/ AskComplete(a) \/ AskNew(a) PROVE Waiting'
  <2>1. /\ \A b \in Asks : ~LoopAsk(b)
        /\ command' = "none" /\ pending' = pending
    BY <1>0, <1>2 DEF AskPartial, AskComplete, AskNew, Ask, LoopFree, LoopAsk, cmdVars
  <2>2. \A b \in Asks \ {a} : pc'[b] = pc[b] /\ kind'[b] = kind[b]
    BY <1>0, <1>2 DEF AskPartial, AskComplete, AskNew, Ask, Goto, TypeOK
  <2>3. \A b \in Asks \ {a} : ~LoopAsk(b)'
    BY <2>1, <2>2 DEF LoopAsk
  <2>4. QED
    BY <1>0, <2>1, <2>3, NothingPends DEF Waiting, PendingIsBlocked, OneAwaited
<1>3. ASSUME NEW a \in Asks, Output(a) PROVE Waiting'
  <2>1. /\ \A b \in Asks : ~LoopAsk(b)
        /\ pending' = pending
    BY <1>0, <1>3 DEF Output, Ask, OneAwaited
  <2>2. /\ \A b \in Asks \ {a} : pc'[b] = pc[b] /\ kind'[b] = kind[b]
        /\ kind'[a] = "command_output"
    BY <1>0, <1>3 DEF Output, Ask, Goto, TypeOK
  <2>3. \A b \in Asks : ~LoopAsk(b)'
    BY <2>1, <2>2 DEF LoopAsk
  <2>4. QED
    BY <1>0, <2>1, <2>3, NothingPends DEF Waiting, PendingIsBlocked, OneAwaited
<1>4. ASSUME NEW a \in Asks, Stamp(a) \/ AutoAnswer(a) \/ Superseded(a) \/ Answered(a)
      PROVE Waiting'
  <2>1. /\ kind' = kind /\ command' = command /\ pending' \in {pending, None}
        /\ pc[a] \in Awaited /\ pc' = [pc EXCEPT ![a] = pc'[a]]
        /\ pending' = a => pc[a] # "blocked"
    BY <1>0, <1>4 DEF Stamp, AutoAnswer, Superseded, Answered, Unpend, Goto, cmdVars, TypeOK
  <2>2. \A b \in Asks : LoopAsk(b)' => LoopAsk(b)
    BY <1>0, <2>1 DEF LoopAsk, TypeOK
  <2>3. PendingIsBlocked'
    BY <1>0, <2>1 DEF PendingIsBlocked, TypeOK
  <2>4. QED
    BY <1>0, <2>1, <2>2, <2>3 DEF Waiting, OneAwaited
<1>5. ASSUME NEW a \in Asks, Decide(a) PROVE Waiting'
  <2>1. /\ kind' = kind /\ command' = command /\ pc[a] = "deciding"
        /\ pc' = [pc EXCEPT ![a] = "blocked"] /\ pending' \in {pending, a}
    BY <1>5 DEF Decide, Goto, cmdVars
  <2>2. \A b \in Asks : LoopAsk(b)' => LoopAsk(b)
    BY <1>0, <2>1 DEF LoopAsk, TypeOK
  <2>3. kind[a] = "command_output" => pending' = pending
    <3>1. SUFFICES ASSUME kind[a] = "command_output" PROVE Respond(a, "auto")
      BY <1>5, AnswersTyped DEF Decide, Blocking, Respond, Origins
    <3>2. Decisions(kind[a]) = {"approve"}
      BY <3>1 DEF Decisions
    <3>3. QED
      BY <1>5, <3>2 DEF Decide
  <2>4. PendingIsBlocked'
    BY <1>0, <2>1, <2>3 DEF PendingIsBlocked, TypeOK
  <2>5. QED
    BY <1>0, <2>1, <2>2, <2>4 DEF Waiting, OneAwaited
<1>6. CASE RunCommand
  BY <1>0, <1>6 DEF RunCommand, LoopFree, slotVars, Waiting, PendingIsBlocked, OneAwaited, LoopAsk
<1>7. CASE CommandEnds \/ CommandFails \/ User
  <2>1. /\ UNCHANGED <<kind, pc>> /\ pending' \in {pending, None}
        /\ command' # "none" => command # "none"
    BY <1>7 DEF CommandEnds, CommandFails, User, Click, LateClick, StaleClick, StaleTerminal, Type,
       TypeAhead, Cancel, ClearStale, cmdVars, slotVars
  <2>2. QED
    BY <1>0, <2>1 DEF Waiting, PendingIsBlocked, OneAwaited, LoopAsk
<1>8. CASE AutoContinue \/ Say \/ UNCHANGED vars \/ \E a \in Asks : TimerFires(a)
  BY <1>1, <1>8 DEF AutoContinue, Say, TimerFires, vars, slotVars, cmdVars
<1>9. QED
  BY <1>2, <1>3, <1>4, <1>5, <1>6, <1>7, <1>8 DEF Next, AskStep

(* Who takes what is in the slot. *)
Slot == PendingIsLast /\ UserInSlot /\ SlotClean /\ UserAnswersTheirAsk

(* A user's answer is for the pending ask, which is the one ask of the loop that waits. *)
LEMMA UserResponds ==
  ASSUME TypeOK, Waiting, Slot, PendingAsk # None, Respond(PendingAsk, "user"),
         UNCHANGED <<kind, pc, last, pending, result>>
  PROVE  Slot'
<1>1. /\ pending \in Asks /\ resp = NoAnswer /\ pending # None
      /\ resp' # NoAnswer /\ resp'.for = pending
  BY PendingAskTyped, RespondTyped DEF Origins
<1>2. LoopAsk(pending) /\ pc[pending] = "blocked"
  BY <1>1 DEF Waiting, PendingIsBlocked, LoopAsk, Awaited
<1>3. PendingIsLast' /\ UserInSlot'
  BY <1>1 DEF Slot, PendingIsLast, UserInSlot
<1>4. \A b \in Asks : LoopAsk(b) => pc[b] = "blocked"
  BY <1>1, <1>2 DEF Waiting, OneAwaited
<1>5. SlotClean' /\ UserAnswersTheirAsk'
  BY <1>4 DEF Slot, SlotClean, UserAnswersTheirAsk, LoopAsk
<1>6. QED
  BY <1>3, <1>5 DEF Slot

(* What the code answers for the user, and an empty slot, harm nothing. *)
LEMMA OthersRespond ==
  ASSUME TypeOK, Slot, resp'.by # "user", resp' # NoAnswer,
         \A b \in Asks : result'[b].by = "user" => result'[b].for = b
  PROVE  Slot'
BY DEF Slot, PendingIsLast, UserInSlot, SlotClean, UserAnswersTheirAsk

LEMMA SlotEmptied ==
  ASSUME TypeOK, Slot, resp' = NoAnswer, pending' = None, UNCHANGED result
  PROVE  Slot'
BY AnswersTyped DEF Slot, PendingIsLast, UserInSlot, SlotClean, UserAnswersTheirAsk

LEMMA SlotStep ==
  ASSUME TypeOK, TimersAsked, Waiting, Slot, [Next]_vars
  PROVE  Slot'
<1> USE AsksTyped DEF Awaited, LoopKinds
<1>0. /\ PendingIsBlocked /\ OneAwaited /\ PendingIsLast /\ UserInSlot /\ SlotClean
      /\ UserAnswersTheirAsk
  BY DEF Waiting, Slot
<1>1. CASE UNCHANGED <<kind, pc, resp, result>> /\ last' \in {last, None}
           /\ pending' \in {pending, None}
  BY <1>0, <1>1 DEF Slot, PendingIsLast, UserInSlot, SlotClean, UserAnswersTheirAsk, LoopAsk
<1>2. ASSUME NEW a \in Asks, AskPartial(a) PROVE Slot'
  <2>1. /\ UNCHANGED <<resp, pending, result>> /\ last' = a /\ pc'[a] = "partial"
        /\ \A b \in Asks \ {a} : pc'[b] = pc[b] /\ kind'[b] = kind[b]
    BY <1>2 DEF AskPartial, Goto, TypeOK
  <2>2. QED
    BY <1>0, <2>1 DEF Slot, PendingIsLast, UserInSlot, SlotClean, UserAnswersTheirAsk, LoopAsk
<1>3. ASSUME NEW a \in Asks, AskComplete(a) \/ AskNew(a) \/ Output(a) PROVE Slot'
  <2>1. \A b \in Asks : ~LoopAsk(b)
    BY <1>0, <1>3 DEF AskComplete, AskNew, Output, LoopFree, LoopAsk, OneAwaited
  <2>2. pending = None
    BY <1>0, <2>1, NothingPends
  <2>3. resp' = NoAnswer /\ pending' = None /\ result' = result
    BY <1>3, <2>2 DEF AskComplete, AskNew, Output, Ask, Started
  <2>4. QED
    BY <2>3, SlotEmptied
<1>4. ASSUME NEW a \in Asks, Stamp(a) PROVE Slot'
  <2>1. /\ UNCHANGED <<kind, resp, pending, result>> /\ last' = a
        /\ pc' = [pc EXCEPT ![a] = "deciding"] /\ pc[a] = "stamping"
    BY <1>4 DEF Stamp, Goto
  <2>2. PendingIsLast' /\ UserInSlot' /\ UserAnswersTheirAsk'
    BY <1>0, <2>1 DEF PendingIsLast, UserInSlot, UserAnswersTheirAsk, TypeOK
  <2>3. SlotClean'
    BY <1>0, <2>1 DEF SlotClean, LoopAsk, TypeOK
  <2>4. QED
    BY <2>2, <2>3 DEF Slot
<1>5. ASSUME NEW a \in Asks, Decide(a) PROVE Slot'
  <2>1. PICK d \in Decisions(kind[a]) :
          CASE d = "ask"     -> UNCHANGED <<resp, timerVars, answered>>
            [] d = "timeout" -> /\ timerRef' = a /\ timers' = timers \cup {a}
                                /\ UNCHANGED <<resp, answered>>
            [] OTHER         -> Respond(a, "auto")
    BY <1>5 DEF Decide
  <2>2. CASE d \in {"ask", "timeout"}
    <3>1. /\ UNCHANGED <<kind, resp, last, result>> /\ pc[a] = "deciding"
          /\ pc' = [pc EXCEPT ![a] = "blocked"]
          /\ pending' = IF resp = NoAnswer /\ last = a THEN a ELSE pending
      BY <1>5, <2>1, <2>2 DEF Decide, Goto, Blocking
    <3>2. LoopAsk(a)
      BY <2>2, <3>1 DEF Decisions, LoopAsk
    <3>3. resp.by # "user"
      BY <1>0, <3>1, <3>2 DEF SlotClean
    <3>4. PendingIsLast' /\ UserInSlot' /\ UserAnswersTheirAsk'
      BY <1>0, <3>1, <3>3 DEF PendingIsLast, UserInSlot, UserAnswersTheirAsk, TypeOK
    <3>5. SlotClean'
      BY <3>1, <3>3 DEF SlotClean
    <3>6. QED
      BY <3>4, <3>5 DEF Slot
  <2>3. CASE d \notin {"ask", "timeout"}
    <3>1. Respond(a, "auto") /\ UNCHANGED result
      BY <1>5, <2>1, <2>3 DEF Decide
    <3>2. QED
      BY <1>0, <3>1, RespondTyped, OthersRespond DEF UserAnswersTheirAsk, Origins
  <2>4. QED
    BY <2>2, <2>3
<1>6. ASSUME NEW a \in Asks, AutoAnswer(a) PROVE Slot'
  <2>1. LoopAsk(a) /\ pc[a] = "deciding"
    BY <1>6 DEF AutoAnswer, LoopAsk
  <2>2. pending = None
    BY <1>0, <2>1 DEF PendingIsBlocked, OneAwaited, LoopAsk, TypeOK
  <2>3. /\ resp' = NoAnswer /\ pending' = None
        /\ result' = [result EXCEPT ![a] = [for |-> a, by |-> "auto"]]
    BY <1>6, <2>2 DEF AutoAnswer
  <2>4. UserAnswersTheirAsk'
    BY <1>0, <2>3 DEF UserAnswersTheirAsk, TypeOK
  <2>5. QED
    BY <2>3, <2>4, AnswersTyped DEF Slot, PendingIsLast, UserInSlot, SlotClean
<1>7. ASSUME NEW a \in Asks, Superseded(a) PROVE Slot'
  <2>1. /\ UNCHANGED <<kind, resp, last, result>> /\ pc[a] = "blocked"
        /\ pc' = [pc EXCEPT ![a] = "superseded"] /\ pending' \in {pending, None}
    BY <1>7 DEF Superseded, Unpend, Goto
  <2>2. PendingIsLast' /\ UserInSlot' /\ UserAnswersTheirAsk'
    BY <1>0, <2>1 DEF PendingIsLast, UserInSlot, UserAnswersTheirAsk, TypeOK
  <2>3. SlotClean'
    BY <1>0, <2>1 DEF SlotClean, LoopAsk, TypeOK
  <2>4. QED
    BY <2>2, <2>3 DEF Slot
<1>8. ASSUME NEW a \in Asks, Answered(a) PROVE Slot'
  <2>1. /\ pc[a] = "blocked" /\ last = a /\ last' = last /\ pc'[a] = "answered"
        /\ resp' = NoAnswer /\ result' = [result EXCEPT ![a] = resp]
    BY <1>8 DEF Answered, Goto, TypeOK
  <2>2. UserAnswersTheirAsk'
    BY <1>0, <2>1 DEF UserInSlot, UserAnswersTheirAsk, TypeOK
  <2>3. QED
    BY <2>1, <2>2, AnswersTyped DEF Slot, PendingIsLast, UserInSlot, SlotClean
<1>9. ASSUME NEW a \in Asks, TimerFires(a) PROVE Slot'
  BY <1>0, <1>9, AnswersTyped, OthersRespond DEF TimerFires, UserAnswersTheirAsk, Origins
<1>10. CASE AutoContinue
  <2>1. cmdAsk \in Asks
    BY <1>10 DEF AutoContinue, TypeOK, TimersAsked
  <2>2. QED
    BY <1>0, <1>10, <2>1, RespondTyped, OthersRespond
       DEF AutoContinue, UserAnswersTheirAsk, Origins
<1>11. CASE CommandEnds
  <2>1. CASE cmdAsk # None /\ PendingAsk # None
    BY <1>0, <1>11, <2>1, PendingAskTyped, RespondTyped, OthersRespond
       DEF CommandEnds, UserAnswersTheirAsk, Origins
  <2>2. CASE ~(cmdAsk # None /\ PendingAsk # None)
    BY <1>1, <1>11, <2>2 DEF CommandEnds
  <2>3. QED
    BY <2>1, <2>2
<1>12. CASE UNCHANGED vars \/ RunCommand \/ CommandFails \/ Say
  BY <1>1, <1>12 DEF vars, RunCommand, CommandFails, Say, slotVars
<1>13. CASE User
  <2>1. ASSUME NEW a \in Visible, Click(a) PROVE Slot'
    BY <2>1, UserResponds DEF Click, ForCurrent
  <2>2. CASE Type
    BY <2>2, UserResponds DEF Type
  <2>3. CASE ClearStale /\ UNCHANGED result
    BY <2>3, SlotEmptied DEF ClearStale
  <2>4. CASE Cancel
    BY <1>1, <2>4 DEF Cancel, slotVars
  <2>5. QED
    BY <1>13, <2>1, <2>2, <2>3, <2>4 DEF User, LateClick, StaleClick, StaleTerminal, TypeAhead
<1>14. QED
  BY <1>2, <1>3, <1>4, <1>5, <1>6, <1>7, <1>8, <1>9, <1>10, <1>11, <1>12, <1>13
     DEF Next, AskStep

(* The invariant holds for any number of asks and messages. *)
LEMMA Invariance == Spec => []IInv
<1>1. IInv /\ [Next]_vars => IInv'
  <2>1. IInv <=> Typed /\ Waiting /\ Slot
    BY DEF IInv, Typed, Waiting, Slot
  <2>2. Typed' /\ Waiting' /\ Slot' => IInv'
    BY DEF IInv, Typed, Waiting, Slot
  <2>3. QED
    BY <2>1, <2>2, TypeStep, WaitingStep, SlotStep DEF Typed, Waiting
<1>2. QED
  BY InitInv, <1>1, PTL DEF Spec

(* The slot, its timers and the asks keep the states of the code. *)
THEOREM AskTyped == Spec => []TypeOK
BY Invariance, PTL DEF IInv

(* "Track the live blocking ask explicitly so completed history rows cannot consume future
   input" (Task.ts): what is pending is an ask of the loop's that waits. *)
THEOREM PendingWaits == Spec => []PendingIsBlocked
BY Invariance, PTL DEF IInv

(* What the user clicked or typed is the answer of the ask it was meant for, whatever is
   superseded, denied, timed out or clicked late around it. *)
THEOREM UserIsHeard == Spec => []UserAnswersTheirAsk
BY Invariance, PTL DEF IInv
=============================================================================
