------------------------------- MODULE TaskAsk -------------------------------
(***************************************************************************)
(* How a task asks and who answers: ask(), handleWebviewAskResponse(),     *)
(* supersedePendingAsk() and clearStaleWebviewAskResponse() of Task.ts,    *)
(* the routing of a webview answer (webviewMessageHandler.ts) while the    *)
(* task's loop runs, and the ask that a running command makes on its own   *)
(* (ExecuteCommandTool.ts).                                                *)
(*                                                                         *)
(* All asks of a task share one slot for the answer.  An ask polls it, and *)
(* takes what it finds as long as the task's last message is its own.      *)
(* Asks are numbered in the order they are made; an answer remembers the   *)
(* ask it was meant for, which the code does not.                          *)
(***************************************************************************)
EXTENDS Naturals, FiniteSets

CONSTANTS MaxAsks,   \* bound on the asks of a task
          MaxSays    \* bound on the messages that nobody waits for an answer to

ASSUME AskAssumption == MaxAsks \in Nat \ {0} /\ MaxSays \in Nat

VARIABLES
  kind,      \* kind[a]
  pc,        \* pc[a]: how far ask a is
  last,      \* lastMessageTs: the ask that is the last message, or None
  resp,      \* askResponse
  pending,   \* pendingWebviewAskTs
  timerRef,  \* autoApprovalTimeoutRef: the ask whose timer it is
  timers,    \* asks with an auto-approval timer that runs
  answered,  \* rows marked isAnswered
  result,    \* result[a]: what ask a has returned
  command,   \* the command tool: "none", "run" or "leaving" once it shall not wait
  cmdAsk,    \* the command_output ask of the command, None before its first output
  cmdTimer,  \* the command answers that ask when 250 ms are over
  abort,     \* the instance has been cancelled
  says       \* number of interactive messages

slotVars == <<last, resp, pending>>
timerVars == <<timerRef, timers>>
cmdVars == <<command, cmdAsk, cmdTimer>>
vars == <<kind, pc, slotVars, timerVars, answered, result, cmdVars, abort, says>>

None == 0
Asks == 1..MaxAsks
LoopKinds == {"tool", "followup"}
Origins == {"auto", "user"}
NoAnswer == [for |-> None, by |-> "none"]
Answers == {NoAnswer} \cup [for : Asks, by : Origins]

(***************************************************************************)
(* Plausible slips of the code.                                            *)
(***************************************************************************)
SlipStarted            == resp
SlipUnpend(a)          == pending
SlipIsOver(a)          == resp # NoAnswer
SlipDecisions(k)       == IF k = "command_output" THEN {"approve"} ELSE {"ask", "timeout"}

Init == /\ kind = [a \in Asks |-> "tool"]
        /\ pc = [a \in Asks |-> "none"]
        /\ last = None /\ resp = NoAnswer /\ pending = None
        /\ timerRef = None /\ timers = {}
        /\ answered = {} /\ result = [a \in Asks |-> NoAnswer]
        /\ command = "none" /\ cmdAsk = None /\ cmdTimer = FALSE
        /\ abort = FALSE /\ says = 0

Goto(a, s) == pc' = [pc EXCEPT ![a] = s]

IsNext(a) == pc[a] = "none" /\ \A b \in Asks : b < a => pc[b] # "none"

\* The task's loop awaits one ask, or one command, at a time.
Awaited == {"stamping", "deciding", "blocked"}

LoopFree == /\ command = "none"
            /\ \A a \in Asks : pc[a] \in Awaited => kind[a] = "command_output"

(***************************************************************************)
(* handleWebviewAskResponse().                                             *)
(***************************************************************************)
\* Complete rows that nothing has answered yet; the last of them is marked.
Unanswered == {a \in Asks \ answered : pc[a] \notin {"none", "partial", "stamping"}}

Marked == answered \cup {a \in Unanswered : \A b \in Unanswered : b <= a}

Respond(a, origin) == /\ resp' = [for |-> a, by |-> origin]
                      /\ timers' = timers \ {timerRef} /\ timerRef' = None
                      /\ answered' = Marked

\* getPendingWebviewAskTs(); an aborted task has no messages left to find it in.
PendingAsk == IF resp # NoAnswer \/ abort THEN None ELSE pending

(***************************************************************************)
(* ask().                                                                  *)
(***************************************************************************)
\* The answer slot when a complete ask starts.
Started == NoAnswer

\* A partial row shows up while the model is still writing the tool call.
AskPartial(a) ==
  /\ ~abort /\ LoopFree /\ IsNext(a)
  /\ \E k \in LoopKinds : kind' = [kind EXCEPT ![a] = k]
  /\ Goto(a, "partial") /\ last' = a
  /\ UNCHANGED <<resp, pending, timerVars, answered, result, cmdVars, abort, says>>

\* The complete version takes the place of a partial row that is the last one.
AskComplete(a) ==
  /\ ~abort /\ LoopFree /\ pc[a] = "partial" /\ last = a
  /\ Goto(a, "deciding") /\ last' = a /\ resp' = Started
  /\ UNCHANGED <<kind, pending, timerVars, answered, result, cmdVars, abort, says>>

\* A new row waits for a timestamp of its own.
Ask(a, k) == /\ ~abort /\ IsNext(a)
             /\ kind' = [kind EXCEPT ![a] = k]
             /\ Goto(a, "stamping") /\ resp' = Started
             /\ UNCHANGED <<last, pending, timerVars, answered, result, command, abort, says>>

AskNew(a) == LoopFree /\ (\E k \in LoopKinds : Ask(a, k)) /\ UNCHANGED <<cmdAsk, cmdTimer>>

Stamp(a) == /\ pc[a] = "stamping" /\ Goto(a, "deciding") /\ last' = a
            /\ UNCHANGED <<kind, resp, pending, timerVars, answered, result, cmdVars,
                           abort, says>>

\* The row is saved and posted and the settings are read before anything is decided.
Decisions(k) == CASE k = "command_output" -> {"approve"}
                  [] k = "followup"       -> {"ask", "timeout"}
                  [] OTHER                -> {"ask", "approve", "deny"}

\* From here until the first poll nothing else runs.
Blocking(a) == resp' = NoAnswer /\ last = a

Decide(a) ==
  /\ pc[a] = "deciding" /\ Goto(a, "blocked")
  /\ \E d \in Decisions(kind[a]) :
       CASE d = "ask"     -> UNCHANGED <<resp, timerVars, answered>>
         [] d = "timeout" -> /\ timerRef' = a /\ timers' = timers \cup {a}
                             /\ UNCHANGED <<resp, answered>>
         [] OTHER         -> Respond(a, "auto")
  /\ pending' = IF Blocking(a) THEN a ELSE pending
  /\ UNCHANGED <<kind, last, result, cmdVars, abort, says>>

\* In yolo mode a followup takes its first suggestion at once.
AutoAnswer(a) ==
  /\ pc[a] = "deciding" /\ kind[a] = "followup"
  /\ Goto(a, "answered") /\ result' = [result EXCEPT ![a] = [for |-> a, by |-> "auto"]]
  /\ resp' = NoAnswer /\ answered' = Marked
  /\ timers' = timers \ {timerRef} /\ timerRef' = None
  /\ UNCHANGED <<kind, last, pending, cmdVars, abort, says>>

\* What pWaitFor() looks for.
IsOver(a) == resp # NoAnswer \/ last # a

\* clearPendingWebviewAsk()
Unpend(a) == IF pending = a THEN None ELSE pending

Superseded(a) == /\ pc[a] = "blocked" /\ IsOver(a) /\ last # a
                 /\ Goto(a, "superseded") /\ pending' = Unpend(a)
                 /\ UNCHANGED <<kind, last, resp, timerVars, answered, result, cmdVars,
                                abort, says>>

Answered(a) == /\ pc[a] = "blocked" /\ IsOver(a) /\ last = a
               /\ Goto(a, "answered") /\ pending' = Unpend(a)
               /\ result' = [result EXCEPT ![a] = resp] /\ resp' = NoAnswer
               /\ timers' = timers \ {a}
               /\ UNCHANGED <<kind, last, timerRef, answered, cmdVars, abort, says>>

\* The auto-approval timer of a followup question.
TimerFires(a) == /\ a \in timers
                 /\ resp' = [for |-> a, by |-> "auto"] /\ answered' = Marked
                 /\ timers' = timers \ {a, timerRef} /\ timerRef' = None
                 /\ UNCHANGED <<kind, pc, last, pending, result, cmdVars, abort, says>>

(***************************************************************************)
(* Messages of other parts: a browser session opens or closes, a command   *)
(* fails in its terminal.                                                  *)
(***************************************************************************)
Say == /\ ~abort /\ says < MaxSays /\ says' = says + 1
       /\ last' = None
       /\ UNCHANGED <<kind, pc, resp, pending, timerVars, answered, result, cmdVars, abort>>

(***************************************************************************)
(* The command tool.                                                       *)
(***************************************************************************)
RunCommand == /\ ~abort /\ LoopFree
              /\ command' = "run" /\ cmdAsk' = None /\ cmdTimer' = FALSE
              /\ UNCHANGED <<kind, pc, slotVars, timerVars, answered, result, abort, says>>

\* The first line of output opens a command_output ask that the loop does not await.
Output(a) == /\ command = "run" /\ cmdAsk = None
             /\ cmdAsk' = a /\ cmdTimer' = TRUE /\ Ask(a, "command_output")

\* A timestamp takes a millisecond, which is less than any of the following.
CmdStamped == cmdAsk # None => pc[cmdAsk] # "stamping"

\* After 250 ms the tool answers for the user, unless the ask is over.
AutoContinue == /\ cmdTimer /\ pc[cmdAsk] \in Awaited /\ CmdStamped
                /\ Respond(cmdAsk, "auto") /\ cmdTimer' = FALSE
                /\ UNCHANGED <<kind, pc, last, pending, result, command, cmdAsk, abort, says>>

\* The process ends, or continues in the background.  The tool gives its ask half a
\* second to settle, which is longer than the timer takes, answers what is pending then,
\* and returns.
CommandEnds ==
  /\ command # "none" /\ command' = "none"
  /\ cmdTimer /\ pc[cmdAsk] \in Awaited => PendingAsk # None
  /\ CmdStamped
  /\ IF cmdAsk # None /\ PendingAsk # None THEN Respond(PendingAsk, "auto")
                                          ELSE UNCHANGED <<resp, timerVars, answered>>
  /\ UNCHANGED <<kind, pc, last, pending, result, cmdAsk, cmdTimer, abort, says>>

CommandFails == /\ command # "none" /\ command' = "none" /\ ~abort /\ CmdStamped
                /\ last' = None /\ pending' = None
                /\ UNCHANGED <<kind, pc, resp, timerVars, answered, result, cmdAsk, cmdTimer,
                               abort, says>>

(***************************************************************************)
(* The user.  The webview shows rows that may be over by now.              *)
(***************************************************************************)
Visible == {a \in Asks : pc[a] \notin {"none", "partial", "stamping"}}

\* clearStaleWebviewAskResponse()
ClearStale == resp' = NoAnswer /\ pending' = None

ForCurrent(a) == a = PendingAsk

\* A button of row a while its ask waits.
Click(a) == /\ PendingAsk # None /\ ForCurrent(a)
            /\ Respond(a, "user")
            /\ UNCHANGED <<kind, pc, last, pending, result, cmdVars, abort, says>>

\* A click on a tool's row that is answered already is dropped.
LateClick(a) == /\ PendingAsk = None /\ a \in answered /\ kind[a] = "tool"
                /\ ClearStale
                /\ UNCHANGED <<kind, pc, last, timerVars, answered, result, cmdVars, abort,
                               says>>

\* Any other click wakes the command, and without one continues the task, which
\* cancels a loop that runs.
StaleClick(a) ==
  /\ a # PendingAsk
  /\ ~(PendingAsk = None /\ a \in answered /\ kind[a] = "tool")
  /\ ClearStale
  /\ IF command # "none" THEN command' = "leaving" /\ UNCHANGED abort
                         ELSE abort' = TRUE /\ UNCHANGED command
  /\ UNCHANGED <<kind, pc, last, timerVars, answered, result, cmdAsk, cmdTimer, says>>

\* A terminal button that outlived its command continues the task, or does nothing.
StaleTerminal ==
  /\ command = "none" /\ ClearStale /\ abort' \in BOOLEAN
  /\ UNCHANGED <<kind, pc, last, timerVars, answered, result, cmdVars, says>>

\* A typed text answers what is pending, whatever row it was written under.
Type == /\ PendingAsk # None /\ Respond(PendingAsk, "user")
        /\ UNCHANGED <<kind, pc, last, pending, result, cmdVars, abort, says>>

\* With a command it is kept for the tool's result and shown; else it continues the task.
TypeAhead ==
  /\ PendingAsk = None /\ ClearStale
  /\ IF command # "none"
     THEN command' = "leaving" /\ last' = None /\ UNCHANGED abort
     ELSE abort' = TRUE /\ UNCHANGED <<command, last>>
  /\ UNCHANGED <<kind, pc, timerVars, answered, result, cmdAsk, cmdTimer, says>>

\* The cancel button.
Cancel == /\ abort' = TRUE
          /\ UNCHANGED <<kind, pc, slotVars, timerVars, answered, result, cmdVars, says>>

User == /\ ~abort
        /\ \/ \E a \in Visible : Click(a) \/ LateClick(a) \/ StaleClick(a)
           \/ StaleTerminal \/ Type \/ TypeAhead \/ Cancel

AskStep(a) == Stamp(a) \/ Decide(a) \/ AutoAnswer(a) \/ Superseded(a) \/ Answered(a)

Next == \/ \E a \in Asks : \/ AskPartial(a) \/ AskComplete(a) \/ AskNew(a) \/ Output(a)
                           \/ AskStep(a) \/ TimerFires(a)
        \/ RunCommand \/ AutoContinue \/ CommandEnds \/ CommandFails
        \/ Say \/ User

Spec == Init /\ [][Next]_vars

\* The event loop goes on: awaits return, polls are repeated.
Fairness == \A a \in Asks : WF_vars(AskStep(a))

FairSpec == Spec /\ Fairness

-----------------------------------------------------------------------------
(* The slot, the timers and the asks have the states of the code; only questions that
   suggest an answer have timers. *)
TypeOK ==
  /\ kind \in [Asks -> LoopKinds \cup {"command_output"}]
  /\ pc \in [Asks -> {"none", "partial", "answered", "superseded"} \cup Awaited]
  /\ last \in Asks \cup {None} /\ pending \in Asks \cup {None}
  /\ resp \in Answers /\ result \in [Asks -> Answers]
  /\ timerRef \in Asks \cup {None} /\ answered \subseteq Asks
  /\ timers \subseteq {a \in Asks : kind[a] = "followup"}
  /\ command \in {"none", "run", "leaving"} /\ cmdAsk \in Asks \cup {None}
  /\ cmdTimer \in BOOLEAN
  /\ abort \in BOOLEAN /\ says \in 0..MaxSays

(* "Track the live blocking ask explicitly so completed history rows cannot consume
   future input" (Task.ts): what is pending is an ask that waits. *)
PendingIsBlocked == pending # None => pc[pending] = "blocked" /\ kind[pending] # "command_output"

(* What the user has clicked or typed goes to the ask that was waiting in that row, or to
   none: never to the ask that happens to come next. *)
UserAnswersTheirAsk ==
  \A a \in Asks : result[a].by = "user" => result[a].for = a

(* An ask that is not the last message any more ends: the tool that waits for it is not
   left behind. *)
SupersededEnds == \A a \in Asks : pc[a] = "blocked" /\ last # a ~> pc[a] # "blocked"
=============================================================================
