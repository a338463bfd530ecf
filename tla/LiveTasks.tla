------------------------------ MODULE LiveTasks ------------------------------
(***************************************************************************)
(* The heartbeat file by which the windows tell each other which tasks run *)
(* (core/kilocode/parallel/LiveTaskCoordinator.ts).  Every window reads    *)
(* the file, keeps what the others wrote unless it is stale, adds its own  *)
(* tasks and replaces the file.  No lock spans the read and the            *)
(* replacement, so windows undo each other's writes; a window's next       *)
(* heartbeat, and the expiry of old entries, are all that repairs this.    *)
(*                                                                         *)
(* Time is kept as the age of a stamp, in shared, up to the first age  *)
(* that is stale.                                                          *)
(***************************************************************************)
EXTENDS Naturals

CONSTANTS
  Hosts,      \* extension hosts, one coordinator each, with a fresh id when reopened
  Tasks,      \* task ids
  Stale,      \* staleMs: an entry older than this does not count
  MaxQueue,   \* bound on the flushes waiting in one window
  MaxFails,   \* bound on the writes that fail
  None

ASSUME LiveAssumption == /\ Stale \in Nat /\ MaxQueue \in Nat \ {0} /\ MaxFails \in Nat

VARIABLES
  shared,     \* shared[w]: window w's entry in the shared file
  exists,     \* the file is there
  window,     \* window[w]: life of the coordinator
  local,      \* local[w]: its localTasks, but for those marked ended, which nobody lists
  queue,      \* queue[w]: flushes waiting in its writeChain
  payload,    \* payload[w]: what its writeNow() has put together and is writing
  since,      \* since[w][t]: how long ago t was last among the tasks of w
  failures

liveVars == <<shared, exists, window, local, queue, payload, since, failures>>

Ages    == 0..(Stale + 1)
Entries == [age : Ages, tasks : SUBSET Tasks]
Files   == [Hosts -> Entries \cup {None}]
Empty   == [w \in Hosts |-> None]

(***************************************************************************)
(* Plausible slips of the code.                                            *)
(***************************************************************************)
SlipOthersRestamped(w) ==
  [v \in Hosts |->
     IF v = w THEN IF window[w] = "on" /\ local[w] # {} THEN [age |-> 0, tasks |-> local[w]] ELSE None
     ELSE IF shared[v] # None THEN [shared[v] EXCEPT !.age = 0] ELSE None]
SlipOwnTasksKept(w) ==
  [v \in Hosts |->
     IF v = w /\ (local[w] # {} \/ shared[w] # None)
     THEN [age |-> 0, tasks |-> local[w] \cup (IF shared[w] = None THEN {} ELSE shared[w].tasks)]
     ELSE IF shared[v] # None /\ shared[v].age <= Stale THEN shared[v] ELSE None]

Alive(w) == window[w] \in {"on", "disposed"}
IsStale(e) == e.age > Stale

LiveInit == /\ shared = Empty /\ exists = FALSE
            /\ window = [w \in Hosts |-> "off"]
            /\ local = [w \in Hosts |-> {}]
            /\ queue = [w \in Hosts |-> 0]
            /\ payload = [w \in Hosts |-> None]
            /\ since = [w \in Hosts |-> [t \in Tasks |-> Stale + 1]]
            /\ failures = 0

\* flush(): writeNow() runs when the earlier ones have.
Flush(w) == queue[w] < MaxQueue /\ queue' = [queue EXCEPT ![w] = @ + 1]

\* start(): a first flush, the timer, and watch(), which wants a file to watch.
Start(w) == /\ window[w] = "off"
            /\ window' = [window EXCEPT ![w] = IF exists THEN "on" ELSE "creating"]
            /\ Flush(w)
            /\ UNCHANGED <<shared, exists, local, payload, since, failures>>

\* watch() found no file; by the time it writes an empty one another window may
\* have put its entry there.
CreateEmpty(w) == /\ window[w] = "creating"
                  /\ window' = [window EXCEPT ![w] = "on"]
                  /\ shared' = Empty /\ exists' = TRUE
                  /\ UNCHANGED <<local, queue, payload, since, failures>>

UpsertTask(w, t) == /\ Alive(w) /\ Flush(w)
                    /\ local' = [local EXCEPT ![w] = @ \cup {t}]
                    /\ since' = [since EXCEPT ![w][t] = 0]
                    /\ UNCHANGED <<shared, exists, window, payload, failures>>

RemoveTask(w, t) == /\ Alive(w) /\ t \in local[w] /\ Flush(w)
                    /\ local' = [local EXCEPT ![w] = @ \ {t}]
                    /\ UNCHANGED <<shared, exists, window, payload, since, failures>>

Heartbeat(w) == /\ window[w] = "on" /\ Flush(w)
                /\ UNCHANGED <<shared, exists, window, local, payload, since, failures>>

Dispose(w) == /\ window[w] = "on" /\ Flush(w)
              /\ window' = [window EXCEPT ![w] = "disposed"]
              /\ local' = [local EXCEPT ![w] = {}]
              /\ UNCHANGED <<shared, exists, payload, since, failures>>

\* What writeNow() puts together, in one turn: the others as the file has them,
\* and its own tasks under the stamp of now.
OwnEntry(w) == IF window[w] = "on" /\ local[w] # {}
               THEN [age |-> 0, tasks |-> local[w]] ELSE None

Gathered(w) ==
  [v \in Hosts |-> IF v = w THEN OwnEntry(w)
                   ELSE IF shared[v] # None /\ ~IsStale(shared[v]) THEN shared[v] ELSE None]

WriteNow(w) == /\ Alive(w) /\ queue[w] > 0 /\ payload[w] = None
               /\ queue' = [queue EXCEPT ![w] = @ - 1]
               /\ payload' = [payload EXCEPT ![w] = Gathered(w)]
               /\ UNCHANGED <<shared, exists, window, local, since, failures>>

\* The temporary file has been written and is renamed over the shared one.
Replace(w) == /\ payload[w] # None
              /\ shared' = payload[w] /\ exists' = TRUE
              /\ payload' = [payload EXCEPT ![w] = None]
              /\ UNCHANGED <<window, local, queue, since, failures>>

\* Every caller of flush() swallows the error.
WriteFails(w) == /\ payload[w] # None /\ failures < MaxFails
                 /\ failures' = failures + 1
                 /\ payload' = [payload EXCEPT ![w] = None]
                 /\ UNCHANGED <<shared, exists, window, local, queue, since>>

\* The host ends: nothing of the window is left but its entry in the file.
Crash(w) == /\ Alive(w)
            /\ window' = [window EXCEPT ![w] = "dead"]
            /\ local' = [local EXCEPT ![w] = {}]
            /\ queue' = [queue EXCEPT ![w] = 0]
            /\ payload' = [payload EXCEPT ![w] = None]
            /\ UNCHANGED <<shared, exists, since, failures>>

Later(age) == IF age > Stale THEN age ELSE age + 1
Aged(f) == [w \in Hosts |-> IF f[w] = None THEN None
                            ELSE [f[w] EXCEPT !.age = Later(@)]]

Tick == /\ shared' = Aged(shared)
        /\ payload' = [w \in Hosts |-> IF payload[w] = None THEN None ELSE Aged(payload[w])]
        /\ since' = [w \in Hosts |-> [t \in Tasks |->
                     IF t \in local[w] THEN 0 ELSE Later(since[w][t])]]
        /\ UNCHANGED <<exists, window, local, queue, failures>>

Step(w) == \/ Start(w) \/ CreateEmpty(w) \/ Heartbeat(w) \/ Dispose(w)
           \/ WriteNow(w) \/ Replace(w) \/ WriteFails(w) \/ Crash(w)
           \/ \E t \in Tasks : UpsertTask(w, t) \/ RemoveTask(w, t)

LiveNext == Tick \/ \E w \in Hosts : Step(w)

\* The timer of a window keeps firing, a flush gets its turn and ends, time passes.
LiveFairness == /\ WF_liveVars(Tick)
                /\ \A w \in Hosts : /\ WF_liveVars(Heartbeat(w)) /\ WF_liveVars(WriteNow(w))
                                    /\ WF_liveVars(Replace(w)) /\ WF_liveVars(CreateEmpty(w))

LiveSpec == LiveInit /\ [][LiveNext]_liveVars /\ LiveFairness

\* listRemoteTasks(), and of which window.
ListedFor(w, v) == IF v # w /\ shared[v] # None /\ ~IsStale(shared[v]) THEN shared[v].tasks ELSE {}

-----------------------------------------------------------------------------
(* Coordinators, their queues and the file have the shapes of the code's types. *)
LiveTypeOK == /\ shared \in Files /\ exists \in BOOLEAN
              /\ window \in [Hosts -> {"off", "creating", "on", "disposed", "dead"}]
              /\ local \in [Hosts -> SUBSET Tasks]
              /\ queue \in [Hosts -> 0..MaxQueue]
              /\ payload \in [Hosts -> Files \cup {None}]
              /\ since \in [Hosts -> [Tasks -> Ages]]
              /\ failures \in 0..MaxFails

(* "A completed-but-unremoved snapshot must not leak as a running task into other
   windows" (listRemoteTasks): what a window lists for another was among that
   window's tasks no longer than the staleness limit ago, even when another
   write has put back an entry its owner had removed, or one a dead owner left. *)
ListedWasRunning ==
  \A w, v \in Hosts : \A t \in ListedFor(w, v) : since[v][t] <= Stale

Running(w, t) == window[w] = "on" /\ t \in local[w]
Stored(w, t)  == shared[w] # None /\ t \in shared[w].tasks

(* "... so occupancy, new-task lists ... are visible to every window"
   (LiveTaskCoordinator.ts): whatever other windows overwrite, a task that runs on
   is in the file again, and one that has ended gets out of every list. *)
FileCatchesUp ==
  \A w \in Hosts : \A t \in Tasks :
    /\ Running(w, t) ~> (Stored(w, t) \/ ~Running(w, t))
    /\ t \notin local[w] ~> (t \in local[w] \/ \A v \in Hosts : t \notin ListedFor(v, w))
=============================================================================
