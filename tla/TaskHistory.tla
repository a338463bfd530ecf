---------------------------- MODULE TaskHistory ----------------------------
(***************************************************************************)
(* The two histories of a conversation - the rows the user sees ("ui") and *)
(* the turns the model is sent ("api") - in the memory of a Task instance  *)
(* and in their files: the loop that appends to them, the chains that save *)
(* them one snapshot after another (Task.ts), safeWriteJson() which moves  *)
(* the old file away before the new one takes its name, the rewinds of an  *)
(* edit, a deletion and an edited answer (MessageManager and               *)
(* webviewMessageHandler.ts), the deletion that restores a checkpoint, the *)
(* condensing of the api history, the stop that saves for five seconds at  *)
(* most and empties the instance, and the next instance that reads the     *)
(* files.                                                                  *)
(*                                                                         *)
(* A row is the number of its creation, which stands for its timestamp: a  *)
(* rewind to n keeps the rows below n. Condensing removes no row (the rows *)
(* it covers are tagged, and hidden from the model): it adds a summary.    *)
(***************************************************************************)
EXTENDS Naturals, Sequences, SequencesExt

CONSTANTS MaxRows,       \* bound on the rows of the conversation
          MaxInstances,  \* bound on the instances that open it
          MaxOps,        \* bound on the rewinds the user asks for
          Scenarios      \* what may happen together: rewinds, condensing, mishaps

Kinds == {"delete", "edit", "replace", "checkpoint"}
Jobs == {"manual", "auto"}

\* "late": a row that comes while a stop waits for the saves; "failed": a write that fails;
\* "crash": the host ends.
Faults == {"late", "failed", "crash"}

\* "slow": a stop that waits for its saves no longer; "raced": the api history changes
\* between the check of a condensed history and its commit; "crossed": a stop and a rewind
\* of one instance are under way together; "overlap": the files are read while an older
\* instance has saves under way.
Mishaps == Faults \cup {"slow", "raced", "crossed", "overlap"}

ASSUME HistoryAssumption ==
  /\ MaxRows \in Nat /\ MaxRows >= 4 /\ MaxInstances \in Nat \ {0} /\ MaxOps \in Nat
  /\ Scenarios \subseteq [kinds : SUBSET Kinds, jobs : SUBSET Jobs,
                           faults : SUBSET Faults, rows : 0..MaxRows]

VARIABLES
  file,     \* file[f]: what the file holds, or the backup while there is no file
  there,    \* there[f]: a file has the name
  writer,   \* writer[f]: the instance that holds the lock of the file, or None
  cur,      \* the instance that shows the conversation
  mem,      \* mem[i][f]: apiConversationHistory and clineMessages
  frozen,   \* frozen[i]: historyPersistenceFrozen
  allow,    \* allow[i]: allowPendingHistoryWritesAfterAbort
  rev,      \* apiConversationHistoryRevision of cur
  array,    \* the identity of its array
  queue,    \* queue[i][f]: the snapshots on the save chain, the one being written first
  stop,     \* stop[i]: how far abortTask() is
  ahead,    \* ahead[f]: how many saves it still waits for
  op,       \* the rewind under way
  ops,      \* how many there have been
  job,      \* job[k]: the condensing of kind k under way
  next,     \* the number of the next row
  scenario, \* what may happen in this behaviour
  owed,     \* ghost: the rows that nothing has taken out of the histories of cur
  gone,     \* ghost: the rows that a finished rewind has taken out
  mishaps   \* ghost: what has gone wrong

memVars == <<mem, rev, array, queue>>
guardVars == <<frozen, allow>>
fileVars == <<file, there, writer>>
stopVars == <<stop, ahead>>
opVars == <<op, ops>>
ghostVars == <<owed, gone, mishaps>>
vars == <<fileVars, cur, memVars, guardVars, stopVars, opVars, job, next, scenario, ghostVars>>

Files == {"ui", "api"}
Instances == 1..MaxInstances
None == 0
Rows == 1..(MaxRows + 2)  \* an edited answer adds three rows at once

Empty == [f \in Files |-> <<>>]
NoOp == [pc |-> "none", kind |-> "none", inst |-> 1, cut |-> 1, upto |-> 1, wait |-> 0]
NoJob == [pc |-> "none", base |-> <<>>, rev |-> 0, array |-> 0, res |-> <<>>]

\* The histories of a conversation of two exchanges.
Reopened == [f \in Files |-> IF f = "ui" THEN <<1, 3>> ELSE <<2, 4>>]

Init ==
  /\ file = Reopened /\ there = [f \in Files |-> TRUE] /\ writer = [f \in Files |-> None]
  /\ cur = 1
  /\ mem = [i \in Instances |-> IF i = 1 THEN Reopened ELSE Empty]
  /\ frozen = [i \in Instances |-> FALSE] /\ allow = [i \in Instances |-> FALSE]
  /\ rev = 0 /\ array = 0
  /\ queue = [i \in Instances |-> Empty]
  /\ stop = [i \in Instances |-> "no"] /\ ahead = [f \in Files |-> 0]
  /\ op = NoOp /\ ops = 0 /\ job = [k \in Jobs |-> NoJob]
  /\ next = 5 /\ scenario \in Scenarios
  /\ owed = 1..4 /\ gone = {} /\ mishaps = {}

InMemory(i) == ToSet(mem[i]["ui"]) \cup ToSet(mem[i]["api"])

\* The rows below n, in their order.
Before(rows, n) ==
  LET kept[k \in 0..Len(rows)] ==
        IF k = 0 THEN <<>>
        ELSE IF rows[k] < n THEN Append(kept[k - 1], rows[k]) ELSE kept[k - 1]
  IN kept[Len(rows)]
Read(f) == IF there[f] THEN file[f] ELSE <<>>
-----------------------------------------------------------------------------
\* What is common to the steps

Entry(rows, forced, loop) == [rows |-> rows, forced |-> forced, loop |-> loop]

Enqueue(i, f, e) == queue' = [queue EXCEPT ![i][f] = Append(@, e)]

\* The first row that a rewind of these rows takes out; MaxRows + 3 if it takes out none.
Lowest(old, new) ==
  CHOOSE n \in 1..(MaxRows + 3) :
    /\ n \in (ToSet(old) \ ToSet(new)) \cup {MaxRows + 3}
    /\ \A r \in ToSet(old) \ ToSet(new) : n <= r

\* overwriteClineMessages() and overwriteApiConversationHistory() by a rewind
Rewind(i, f, rows, force) ==
  IF frozen[i] /\ ~force
  THEN UNCHANGED <<mem, queue, owed>>
  ELSE /\ mem' = [mem EXCEPT ![i][f] = rows]
       /\ Enqueue(i, f, Entry(rows, force, FALSE))
       /\ owed' = IF i # cur THEN owed
                  ELSE ToSet(rows) \cup IF force THEN {r \in owed : r < Lowest(mem[i][f], rows)}
                                        ELSE owed \ ToSet(mem[i][f])

\* The api history of the instance in front has another array, or another revision.
Revised(i, otherArray) ==
  /\ rev' = IF i = cur THEN rev + 1 ELSE rev
  /\ array' = IF i = cur /\ otherArray THEN array + 1 ELSE array

Freeze(i) ==
  /\ frozen' = [frozen EXCEPT ![i] = TRUE]
  /\ allow' = [allow EXCEPT ![i] = FALSE]

\* A slip: the stop waits for the ui history only.
SlipBeginStop ==
  /\ stop' = [stop EXCEPT ![cur] = "saving"]
  /\ IF frozen[cur] THEN UNCHANGED queue
     ELSE Enqueue(cur, "ui", Entry(mem[cur]["ui"], FALSE, FALSE))
  /\ ahead' = [f \in Files |-> IF f = "ui" THEN Len(queue'[cur][f]) ELSE 0]
  /\ UNCHANGED <<mem, rev, array>>

\* abortTask() up to its await: the ui history is saved, and both chains are waited for.
BeginStop ==
  /\ stop' = [stop EXCEPT ![cur] = "saving"]
  /\ IF frozen[cur] THEN UNCHANGED queue
     ELSE Enqueue(cur, "ui", Entry(mem[cur]["ui"], FALSE, FALSE))
  /\ ahead' = [f \in Files |-> Len(queue'[cur][f])]
  /\ UNCHANGED <<mem, rev, array>>

\* A slip: the save is not awaited.
SlipWait(i, f) == 0

\* The save an operation waits for is the last of the chain when it asks for it.
Wait(i, f) == IF queue' = queue THEN 0 ELSE Len(queue'[i][f])

Awaits == IF op.pc \in Files /\ op.wait > 0 THEN {<<op.inst, op.pc>>} ELSE {}

\* A slip: a stop that waits for nothing more counts on.
SlipSettle(i, f) ==
  /\ queue' = [queue EXCEPT ![i][f] = Tail(@)]
  /\ ahead' = IF i = cur THEN [ahead EXCEPT ![f] = @ - 1] ELSE ahead
  /\ op' = IF <<i, f>> \in Awaits THEN [op EXCEPT !.wait = @ - 1] ELSE op

\* The save at the head of a chain is over, and whoever waits for the chain hears of it.
Settle(i, f) ==
  /\ queue' = [queue EXCEPT ![i][f] = Tail(@)]
  /\ ahead' = IF i = cur /\ ahead[f] > 0 THEN [ahead EXCEPT ![f] = @ - 1] ELSE ahead
  /\ op' = IF <<i, f>> \in Awaits THEN [op EXCEPT !.wait = @ - 1] ELSE op

-----------------------------------------------------------------------------
\* The loop and the saves

\* addToApiConversationHistory(), addToClineMessages(): the loop waits for the save of its row.
Push(f) ==
  /\ ~frozen[cur] /\ stop[cur] # "over" /\ next <= scenario.rows
  /\ stop[cur] = "saving" => f = "api" /\ "late" \in scenario.faults
  /\ \A g \in Files : \A n \in DOMAIN queue[cur][g] : ~queue[cur][g][n].loop
  /\ mem' = [mem EXCEPT ![cur][f] = Append(@, next)]
  /\ Enqueue(cur, f, Entry(mem'[cur][f], FALSE, TRUE))
  /\ next' = next + 1 /\ owed' = owed \cup {next}
  /\ rev' = IF f = "api" THEN rev + 1 ELSE rev
  /\ mishaps' = IF stop[cur] = "saving" THEN mishaps \cup {"late"} ELSE mishaps
  /\ UNCHANGED <<fileVars, cur, array, guardVars, stopVars, opVars, job, gone, scenario>>

\* write() of the two saves, when the chain comes to it, and the first half of
\* safeWriteJson(): under the lock of the file, the old one is renamed to a backup that
\* nothing reads ...
SaveBegins(i, f) ==
  /\ queue[i][f] # <<>> /\ writer[f] # i
  /\ IF frozen[i] /\ ~Head(queue[i][f]).forced /\ ~allow[i]
     THEN Settle(i, f) /\ UNCHANGED <<there, writer>>
     ELSE /\ writer[f] = None
          /\ writer' = [writer EXCEPT ![f] = i] /\ there' = [there EXCEPT ![f] = FALSE]
          /\ UNCHANGED <<queue, ahead, op>>
  /\ UNCHANGED <<file, cur, mem, rev, array, guardVars, stop, ops, job, next, ghostVars,
                 scenario>>

\* ... and the new one takes its name.
SaveLands(i, f) ==
  /\ writer[f] = i
  /\ file' = [file EXCEPT ![f] = Head(queue[i][f]).rows]
  /\ there' = [there EXCEPT ![f] = TRUE] /\ writer' = [writer EXCEPT ![f] = None]
  /\ Settle(i, f)
  /\ UNCHANGED <<cur, mem, rev, array, guardVars, stop, ops, job, next, ghostVars,
                 scenario>>

\* The lock or the temporary file cannot be had; the failure is logged and the chain goes on.
SaveFails(i, f) ==
  /\ queue[i][f] # <<>> /\ writer[f] # i /\ "failed" \in scenario.faults \ mishaps
  /\ Settle(i, f)
  /\ mishaps' = mishaps \cup {"failed"}
  /\ UNCHANGED <<fileVars, cur, mem, rev, array, guardVars, stop, ops, job, next, owed,
                 gone, scenario>>

-----------------------------------------------------------------------------
\* The rewinds. Every step of one runs on the instance that was in front when it began.

Begun(kind, n, pc, wait) ==
  /\ op.pc = "none" /\ ops < MaxOps /\ kind \in scenario.kinds
  /\ stop[cur] # "over" /\ n \in ToSet(mem[cur]["ui"])
  /\ op' = [pc |-> pc, kind |-> kind, inst |-> cur, cut |-> n, upto |-> next', wait |-> wait]
  /\ ops' = ops + 1
  /\ mishaps' = IF stop'[cur] = "saving" THEN mishaps \cup {"crossed"} ELSE mishaps

\* performRewind(): a deletion truncates the ui history as far as the instance may save.
DeleteBegins(n) ==
  /\ Rewind(cur, "ui", Before(mem[cur]["ui"], n), FALSE)
  /\ UNCHANGED <<next, stopVars>> /\ Begun("delete", n, "ui", Wait(cur, "ui"))
  /\ UNCHANGED <<fileVars, cur, rev, array, guardVars, job, gone, scenario>>

\* An edit freezes the instance first and forces its own saves.
EditBegins(n) ==
  /\ Rewind(cur, "ui", Before(mem[cur]["ui"], n), TRUE)
  /\ UNCHANGED <<next, stopVars>> /\ Begun("edit", n, "ui", Wait(cur, "ui"))
  /\ Freeze(cur) /\ Revised(cur, FALSE)
  /\ UNCHANGED <<fileVars, cur, job, gone, scenario>>

\* handleAssistantMessageEdit(): the edited row and one to continue from follow the prefix.
ReplaceBegins(n) ==
  /\ next <= scenario.rows
  /\ Rewind(cur, "ui", Before(mem[cur]["ui"], n) \o <<next, next + 1>>, TRUE)
  /\ next' = next + 3 /\ UNCHANGED stopVars /\ Begun("replace", n, "ui", Wait(cur, "ui"))
  /\ UNCHANGED <<fileVars, cur, rev, array, guardVars, job, gone, scenario>>

\* handleCheckpointRestoreOperation(): a deletion to a checkpoint stops the task, and does
\* not wait for it.
CheckpointBegins(n) ==
  /\ IF stop[cur] = "no" THEN BeginStop ELSE UNCHANGED <<memVars, stopVars>>
  /\ UNCHANGED next /\ Begun("checkpoint", n, "git", 0)
  /\ UNCHANGED <<fileVars, cur, guardVars, job, owed, gone, scenario>>

\* checkpointRestore() after git: it looks for the row, and gives up when it is not there.
CheckpointRestored ==
  LET i == op.inst IN
  /\ op.pc = "git"
  /\ IF op.cut \in ToSet(mem[i]["ui"])
     THEN /\ Rewind(i, "ui", Before(mem[i]["ui"], op.cut), FALSE)
          /\ op' = [op EXCEPT !.pc = "ui", !.wait = Wait(i, "ui")]
     ELSE op' = [op EXCEPT !.pc = "lost"] /\ UNCHANGED <<mem, queue, owed>>
  /\ UNCHANGED <<fileVars, cur, rev, array, guardVars, stopVars, ops, job, next, gone,
                 mishaps, scenario>>

\* truncateApiHistoryWithCleanup(), from the api history there is now
ApiRewinds ==
  LET i == op.inst
      kept == Before(mem[i]["api"], op.cut)
      rows == IF op.kind = "replace" THEN Append(kept, op.upto - 1) ELSE kept
      force == op.kind \in {"edit", "replace"}
      saves == force \/ (~frozen[i] /\ kept # mem[i]["api"])
  IN
  /\ op.pc = "ui" /\ op.wait = 0
  /\ IF saves THEN Rewind(i, "api", rows, force) /\ Revised(i, TRUE)
     ELSE UNCHANGED <<memVars, owed>>
  /\ op' = [op EXCEPT !.pc = "api", !.wait = Wait(i, "api")]
  /\ UNCHANGED <<fileVars, cur, guardVars, stopVars, ops, job, next, gone, mishaps,
                 scenario>>

\* The rewind returns: what it has taken out has left the files too. Of an edited branch
\* nothing may come back, of what was deleted only what was there.
RewindReturns ==
  LET upto == IF op.kind = "edit" THEN next ELSE op.upto IN
  /\ op.pc = "api" /\ op.wait = 0
  /\ op' = [op EXCEPT !.pc = "direct"]
  /\ gone' = gone \cup ({r \in Rows : op.cut <= r /\ r < upto} \ InMemory(op.inst))
  /\ UNCHANGED <<fileVars, cur, memVars, guardVars, stopVars, ops, job, next, owed,
                 mishaps, scenario>>

\* The handler saves the ui history itself, beside the chain. An edited answer freezes its
\* instance now; an edited message stops it.
HandlerSaves ==
  LET i == op.inst IN
  /\ op.pc \in {"direct", "lost"} /\ writer["ui"] = None
  /\ file' = [file EXCEPT !["ui"] = mem[i]["ui"]] /\ there' = [there EXCEPT !["ui"] = TRUE]
  /\ op' = CASE op.kind = "edit" -> [op EXCEPT !.pc = "stop"]
             [] op.kind = "checkpoint" -> [op EXCEPT !.pc = "done"]
             [] OTHER -> NoOp
  /\ IF op.kind = "replace"
     THEN Freeze(i) /\ Revised(i, FALSE) /\ owed' = {r \in owed : r < op.upto}
     ELSE UNCHANGED <<guardVars, rev, array, owed>>
  /\ UNCHANGED <<writer, cur, mem, queue, stopVars, ops, job, next, gone, mishaps,
                 scenario>>

\* That save throws, and the handler shows an error.
HandlerFails ==
  /\ op.pc \in {"direct", "lost"} /\ "failed" \in scenario.faults \ mishaps
  /\ op' = NoOp /\ mishaps' = mishaps \cup {"failed"}
  /\ UNCHANGED <<fileVars, cur, memVars, guardVars, stopVars, ops, job, next, owed, gone,
                 scenario>>

EditStops ==
  /\ op.pc = "stop"
  /\ IF stop[cur] = "no" THEN BeginStop ELSE UNCHANGED <<memVars, stopVars>>
  /\ op' = NoOp
  /\ UNCHANGED <<fileVars, cur, guardVars, ops, job, next, ghostVars, scenario>>

-----------------------------------------------------------------------------
\* Condensing

\* condenseContext() and manageContextOnce() take the history they will summarize.
CondenseBegins(k) ==
  /\ k \in scenario.jobs /\ job[k].pc = "none" /\ next <= scenario.rows
  /\ stop[cur] = "no" /\ ~frozen[cur]
  /\ job' = [job EXCEPT ![k] = [pc |-> "summary", base |-> mem[cur]["api"], rev |-> rev,
                                array |-> array, res |-> <<>>]]
  /\ UNCHANGED <<fileVars, cur, memVars, guardVars, stopVars, opVars, next, ghostVars,
                 scenario>>

\* A slip: only the identity of the array is looked at.
SlipCondenseChecks(k) ==
  /\ job[k].pc = "summary"
  /\ job' = [job EXCEPT ![k] = IF job[k].array = array
                               THEN [@ EXCEPT !.pc = "checked", !.res = job[k].base, !.rev = rev]
                               ELSE NoJob]
  /\ UNCHANGED <<fileVars, cur, memVars, guardVars, stopVars, opVars, next, ghostVars, scenario>>

\* The summary has come. The manual condensing keeps it if nothing has changed, the
\* automatic one also if rows were only appended: they follow the summary.
CondenseChecks(k) ==
  LET j == job[k]
      now == mem[cur]["api"]
      keeps == \/ j.rev = rev /\ j.array = array
               \/ k = "auto" /\ j.array = array /\ IsPrefix(j.base, now)
  IN
  /\ j.pc = "summary"
  /\ job' = [job EXCEPT ![k] = IF keeps THEN [j EXCEPT !.pc = "checked", !.res = now,
                                                       !.rev = rev]
                                        ELSE NoJob]
  /\ UNCHANGED <<fileVars, cur, memVars, guardVars, stopVars, opVars, next, ghostVars,
                 scenario>>

CondenseFails(k) ==
  /\ job[k].pc = "summary"
  /\ job' = [job EXCEPT ![k] = NoJob]
  /\ UNCHANGED <<fileVars, cur, memVars, guardVars, stopVars, opVars, next, ghostVars,
                 scenario>>

\* A slip: the condensed history is put into the memory, and not saved.
SlipCondenseCommits(k) ==
  /\ job[k].pc = "checked"
  /\ job' = [job EXCEPT ![k] = NoJob]
  /\ IF frozen[cur] THEN UNCHANGED <<memVars, next, ghostVars>>
     ELSE /\ mem' = [mem EXCEPT ![cur]["api"] = Append(job[k].res, next)]
          /\ Revised(cur, TRUE)
          /\ next' = next + 1 /\ owed' = owed \cup {next}
          /\ UNCHANGED <<queue, gone, mishaps>>
  /\ UNCHANGED <<fileVars, cur, guardVars, stopVars, opVars, scenario>>

\* The debug log is written and the host's state put into the summary between the check
\* and this; the history is not looked at again.
CondenseCommits(k) ==
  LET j == job[k]
      n == Len(j.base)
      rows == SubSeq(j.res, 1, n) \o <<next>> \o SubSeq(j.res, n + 1, Len(j.res))
  IN
  /\ j.pc = "checked"
  /\ job' = [job EXCEPT ![k] = NoJob]
  /\ IF frozen[cur] THEN UNCHANGED <<memVars, next, ghostVars>>
     ELSE /\ next <= MaxRows + 2
          /\ mem' = [mem EXCEPT ![cur]["api"] = rows]
          /\ Enqueue(cur, "api", Entry(rows, FALSE, FALSE))
          /\ Revised(cur, TRUE)
          /\ next' = next + 1 /\ owed' = owed \cup {next}
          /\ mishaps' = mishaps \cup (IF j.rev = rev THEN {} ELSE {"raced"})
                              \cup (IF stop[cur] = "saving" THEN {"late"} ELSE {})
          /\ UNCHANGED gone
  /\ UNCHANGED <<fileVars, cur, guardVars, stopVars, opVars, scenario>>

-----------------------------------------------------------------------------
\* Stops, and the next instance

StopBegins ==
  /\ stop[cur] = "no" /\ cur < MaxInstances
  /\ BeginStop
  /\ mishaps' = IF op.pc # "none" THEN mishaps \cup {"crossed"} ELSE mishaps
  /\ UNCHANGED <<fileVars, cur, guardVars, opVars, job, next, owed, gone, scenario>>

\* The end of abortTask(): the saves that are queued may still land, no other is taken,
\* and the buffers are emptied. An instance frozen by a rewind stays as it is.
EndStop ==
  /\ stop' = [stop EXCEPT ![cur] = "over"]
  /\ frozen' = [frozen EXCEPT ![cur] = TRUE]
  /\ allow' = IF frozen[cur] THEN allow ELSE [allow EXCEPT ![cur] = TRUE]
  /\ rev' = IF frozen[cur] THEN rev ELSE rev + 1
  /\ mem' = [mem EXCEPT ![cur] = Empty]
  /\ ahead' = [f \in Files |-> 0]

StopSaved ==
  /\ stop[cur] = "saving" /\ ahead = [f \in Files |-> 0]
  /\ EndStop
  /\ UNCHANGED <<fileVars, cur, array, queue, opVars, job, next, ghostVars, scenario>>

\* A slip: the timer is only started for the ui history.
SlipStopTimesOut ==
  /\ stop[cur] = "saving" /\ ahead["ui"] # 0
  /\ EndStop
  /\ mishaps' = mishaps \cup {"slow"}
  /\ UNCHANGED <<fileVars, cur, array, queue, opVars, job, next, owed, gone, scenario>>

StopTimesOut ==
  /\ stop[cur] = "saving" /\ ahead # [f \in Files |-> 0]
  /\ EndStop
  /\ mishaps' = mishaps \cup {"slow"}
  /\ UNCHANGED <<fileVars, cur, array, queue, opVars, job, next, owed, gone, scenario>>

\* createTaskWithHistoryItem() and resumeTaskFromHistory(); getTaskWithId() wants the api
\* history to be there. A deletion to a checkpoint reopens the conversation itself.
Reopen ==
  /\ stop[cur] = "over" /\ cur < MaxInstances /\ there["api"]
  /\ ~(op.kind = "checkpoint" /\ op.inst = cur /\ op.pc \in {"git", "ui", "api", "lost"})
  /\ cur' = cur + 1
  /\ mem' = [mem EXCEPT ![cur + 1] = [f \in Files |-> Read(f)]]
  /\ rev' = 0 /\ array' = 0 /\ job' = [k \in Jobs |-> NoJob]
  /\ op' = IF op.pc = "done" THEN NoOp ELSE op
  /\ owed' = ToSet(Read("ui")) \cup ToSet(Read("api"))
  /\ mishaps' = IF \E i \in 1..cur : queue[i] # Empty THEN mishaps \cup {"overlap"} ELSE mishaps
  /\ UNCHANGED <<fileVars, queue, guardVars, stopVars, ops, next, gone, scenario>>

\* The host ends; the files are what they are.
Crash ==
  /\ "crash" \in scenario.faults \ mishaps /\ cur < MaxInstances
  /\ file' = [f \in Files |-> Read(f)]
  /\ writer' = [f \in Files |-> None]
  /\ mem' = [i \in Instances |-> Empty] /\ queue' = [i \in Instances |-> Empty]
  /\ frozen' = [frozen EXCEPT ![cur] = TRUE] /\ stop' = [stop EXCEPT ![cur] = "over"]
  /\ ahead' = [f \in Files |-> 0] /\ op' = NoOp /\ job' = [k \in Jobs |-> NoJob]
  /\ mishaps' = mishaps \cup {"crash"}
  /\ UNCHANGED <<there, cur, rev, array, allow, ops, next, owed, gone, scenario>>

-----------------------------------------------------------------------------
Next ==
  \/ \E f \in Files : Push(f)
  \/ \E i \in Instances, f \in Files : SaveBegins(i, f) \/ SaveLands(i, f) \/ SaveFails(i, f)
  \/ \E n \in Rows : DeleteBegins(n) \/ EditBegins(n) \/ ReplaceBegins(n) \/ CheckpointBegins(n)
  \/ CheckpointRestored \/ ApiRewinds \/ RewindReturns \/ HandlerSaves \/ HandlerFails
  \/ EditStops
  \/ \E k \in Jobs : \/ CondenseBegins(k) \/ CondenseChecks(k) \/ CondenseFails(k)
                     \/ CondenseCommits(k)
  \/ StopBegins \/ StopSaved \/ StopTimesOut \/ Reopen \/ Crash

Spec == Init /\ [][Next]_vars

\* The timer of a stop fires; a save may hang for ever.
FairSpec == Spec /\ WF_vars(StopSaved) /\ WF_vars(StopTimesOut)

-----------------------------------------------------------------------------
Without(ms) == mishaps \cap ms = {}

Entries == [rows : Seq(Rows), forced : BOOLEAN, loop : BOOLEAN]
Histories == [Instances -> [Files -> Seq(Rows)]]
Chains == [Instances -> [Files -> Seq(Entries)]]
Ops == [pc : {"none", "git", "ui", "api", "direct", "lost", "stop", "done"},
        kind : {"none", "delete", "edit", "replace", "checkpoint"},
        inst : Instances, cut : Rows, upto : Nat, wait : Nat]
JobRecords == [pc : {"none", "summary", "checked"}, base : Seq(Rows), rev : Nat,
               array : Nat, res : Seq(Rows)]

\* The state has the shapes of the two histories, their files, chains and operations.
TypeOK ==
  /\ file \in [Files -> Seq(Rows)] /\ there \in [Files -> BOOLEAN]
  /\ writer \in [Files -> Instances \cup {None}] /\ cur \in Instances
  /\ mem \in Histories /\ queue \in Chains
  /\ frozen \in [Instances -> BOOLEAN] /\ allow \in [Instances -> BOOLEAN]
  /\ rev \in Nat /\ array \in Nat
  /\ stop \in [Instances -> {"no", "saving", "over"}] /\ ahead \in [Files -> Nat]
  /\ op \in Ops /\ ops \in 0..MaxOps /\ next \in 1..(MaxRows + 4)
  /\ job \in [Jobs -> JobRecords]
  /\ owed \subseteq Rows /\ gone \subseteq Rows
  /\ mishaps \subseteq Mishaps /\ scenario \in Scenarios

\* What the loop appends and the summaries stay in memory until a rewind takes them out or
\* the instance is stopped: condensing, which rewrites the whole api history from what it
\* read before the summary was requested, drops no row that came meanwhile (but for one
\* that comes between its last look at the history and its commit).
RowsAreKept ==
  stop[cur] # "over" /\ Without({"raced"}) => owed \subseteq InMemory(cur)

\* When the chain of a live instance is empty the file holds what the instance has in
\* memory: no write of an older snapshot, of an older instance or of a handler beside the
\* chain is the last one.
FileFollowsMemory ==
  stop[cur] = "no" /\ ~frozen[cur] /\ Without({"failed", "overlap", "crossed"}) =>
    \A f \in Files : queue[cur][f] = <<>> => Read(f) = mem[cur][f]

\* What a finished rewind has taken out - of an edited branch, also what its loop appended
\* meanwhile - is never again in the memory of the instance in front: no late save brings
\* it back for the next one to read, and no condensing that began before.
GoneStaysGone ==
  Without({"raced", "failed", "overlap", "crossed"}) => InMemory(cur) \cap gone = {}

\* The instance that follows a stop has everything the stopped one had when it stopped,
\* and everything it appended before, if the saves took less than five seconds.
StopKeepsHistory ==
  [][cur' # cur /\ mishaps' \subseteq {"overlap"} =>
       owed \subseteq owed' /\ "overlap" \notin mishaps']_vars

\* abortTask() ends, whether or not a save ever does.
StopEnds == \A i \in Instances : stop[i] = "saving" ~> stop[i] = "over"
=============================================================================
