------------------------------ MODULE StateStore ------------------------------
(***************************************************************************)
(* The file that every window shares (FileParallelStateStore of            *)
(* ParallelStateStore.ts).  write() and mutate() run readRaw() and         *)
(* writeRaw() under an inter-process lock (the proper-lockfile library),   *)
(* after a one-time import of legacy values; read() takes no lock.  A      *)
(* window may die at any point, and the lock it leaves goes stale.         *)
(*                                                                         *)
(* The actors are the calls and, for its import, each window.  A key's     *)
(* value is the set of the updates it went through, so that an update that *)
(* is lost is missing from the set.                                        *)
(***************************************************************************)
EXTENDS Naturals, FiniteSets

CONSTANTS
  Windows,        \* extension hosts
  Keys, Calls, Key, Legacy, Imported,    \* as in SharedState
  Window,         \* Window[c]: the window that makes call c
  Nobody,         \* the lock's holder when there is none
  MaxCrashes,     \* bound on windows that die
  MaxFaults       \* bound on windows suspended for longer than a lock lasts, and
                  \* on damage done to the file from outside, taken together

ASSUME StoreAssumption ==
  /\ Key \in [Calls -> Keys] /\ Window \in [Calls -> Windows]
  /\ Calls \cap Windows = {} /\ Nobody \notin Calls \cup Windows
  /\ Legacy \subseteq Keys /\ Imported \notin Calls
  /\ MaxCrashes \in Nat /\ MaxFaults \in Nat

VARIABLES
  file,     \* the state file
  lock,     \* who holds the lock directory
  fresh,    \* its modification time is being kept up
  pc,       \* pc[x]: how far actor x is
  snap,     \* snap[x]: the file as x has read it
  reader,   \* reader[w]: a read() of window w that has met a corrupt file
  crashes, stalls, corruptions

faultVars == <<crashes, stalls, corruptions>>
vars == <<file, lock, fresh, pc, snap, reader, faultVars>>

Actors == Calls \cup Windows
Values == [Keys -> SUBSET (Calls \cup {Imported})]
Empty  == [k \in Keys |-> {}]
Files  == [kind : {"missing", "corrupt", "good"}, state : Values]
Missing == [kind |-> "missing", state |-> Empty]
Good(s) == [kind |-> "good", state |-> s]

LegacyState == [k \in Keys |-> IF k \in Legacy THEN {Imported} ELSE {}]

(***************************************************************************)
(* Plausible slips of the code.                                            *)
(***************************************************************************)
SlipAfterRead(x, f) == IF f.kind = "corrupt" THEN "quarantine" ELSE "writing"
SlipAsked(c)        == "waiting"
SlipFailure(x)      == "failed"

Init == /\ file = Missing
        /\ lock = Nobody /\ fresh = FALSE
        /\ pc = [x \in Actors |-> "idle"]
        /\ snap = [x \in Actors |-> Missing]
        /\ reader = [w \in Windows |-> "idle"]
        /\ crashes = 0 /\ stalls = 0 /\ corruptions = 0

Goto(x, s) == pc' = [pc EXCEPT ![x] = s]

(***************************************************************************)
(* ensureMigrated(): the first call of a window starts its import, and all *)
(* of them wait for it.  A failed import counts as done.                   *)
(***************************************************************************)
\* Where a call starts: at `await this.ensureMigrated()`.
Asked(c) == "migrate"

Ask(c) == /\ pc[c] = "idle"
          /\ pc' = [pc EXCEPT ![c] = Asked(c),
                              ![Window[c]] = IF @ = "idle" THEN "locking" ELSE @]
          /\ UNCHANGED <<file, lock, fresh, snap, reader, faultVars>>

Migrated(c) == /\ pc[c] = "migrate" /\ pc[Window[c]] = "done"
               /\ Goto(c, "locking")
               /\ UNCHANGED <<file, lock, fresh, snap, reader, faultVars>>

\* What follows the lock: write() and mutate() return or throw, an import is over.
Success(x) == IF x \in Windows THEN "done" ELSE "ok"
Failure(x) == IF x \in Windows THEN "done" ELSE "failed"

(***************************************************************************)
(* The lock.  A lock nobody keeps up may be taken over; one that is kept   *)
(* up outlasts the retries.                                                *)
(***************************************************************************)
Acquirable == lock = Nobody \/ ~fresh

Acquire(x) == /\ pc[x] = "locking" /\ Acquirable
              /\ lock' = x /\ fresh' = TRUE /\ Goto(x, "reading")
              /\ UNCHANGED <<file, snap, reader, faultVars>>

LockTimeout(x) == /\ pc[x] = "locking" /\ lock # Nobody
                  /\ Goto(x, Failure(x))
                  /\ UNCHANGED <<file, lock, fresh, snap, reader, faultVars>>

\* Releasing removes the lock directory, also when it is somebody else's by now;
\* unless that has been noticed, and then the error of the release is swallowed.
Unlock(x) == /\ pc[x] \in {"unlockOk", "unlockFailed"}
             /\ Goto(x, IF pc[x] = "unlockOk" THEN Success(x) ELSE Failure(x))
             /\ \/ lock' = Nobody /\ fresh' = FALSE
                \/ lock # x /\ UNCHANGED <<lock, fresh>>
             /\ UNCHANGED <<file, snap, reader, faultVars>>

(***************************************************************************)
(* readRaw() and writeRaw() of a holder of the lock.                       *)
(***************************************************************************)
AfterRead(x, f) == CASE f.kind = "corrupt"                  -> "quarantine"
                     [] f.kind = "good" /\ x \in Windows    -> "unlockOk"
                     [] OTHER                               -> "writing"

Read(x) == /\ pc[x] = "reading"
           /\ Goto(x, AfterRead(x, file))
           /\ snap' = [snap EXCEPT ![x] = IF file.kind = "corrupt" THEN Missing ELSE file]
           /\ UNCHANGED <<file, lock, fresh, reader, faultVars>>

\* Any error of reading but the missing file is thrown; so are those of writing.
Fails(x) == Goto(x, "unlockFailed")

ReadFails(x) == /\ pc[x] = "reading" /\ Fails(x)
                /\ UNCHANGED <<file, lock, fresh, snap, reader, faultVars>>

\* The rename takes whatever is there under the name.
Quarantine(x) == /\ pc[x] = "quarantine" /\ Goto(x, "writing")
                 /\ file' = Missing
                 /\ UNCHANGED <<lock, fresh, snap, reader, faultVars>>

Written(x) == Good(IF x \in Windows THEN LegacyState
                   ELSE [snap[x].state EXCEPT ![Key[x]] = @ \cup {x}])

Write(x) == /\ pc[x] = "writing" /\ Goto(x, "unlockOk")
            /\ file' = Written(x)
            /\ UNCHANGED <<lock, fresh, snap, reader, faultVars>>

WriteFails(x) == /\ pc[x] = "writing" /\ Fails(x)
                 /\ UNCHANGED <<file, lock, fresh, snap, reader, faultVars>>

(***************************************************************************)
(* read(): outside the lock.                                               *)
(***************************************************************************)
LookCorrupt(w) == /\ pc[w] = "done" /\ reader[w] = "idle" /\ file.kind = "corrupt"
                  /\ reader' = [reader EXCEPT ![w] = "quarantine"]
                  /\ UNCHANGED <<file, lock, fresh, pc, snap, faultVars>>

LookQuarantine(w) == /\ reader[w] = "quarantine"
                     /\ reader' = [reader EXCEPT ![w] = "idle"]
                     /\ file' = Missing
                     /\ UNCHANGED <<lock, fresh, pc, snap, faultVars>>

(***************************************************************************)
(* Faults.                                                                 *)
(***************************************************************************)
Running == {"migrate", "locking", "reading", "quarantine", "writing", "unlockFailed"}

\* The calls under way die with the window, and its lock is not kept up any more.
\* A call that had written has had its effect.
Crash(w) ==
  /\ crashes < MaxCrashes /\ crashes' = crashes + 1
  /\ pc' = [x \in Actors |->
              CASE x = w                                           -> "idle"
                [] x \in Calls /\ Window[x] = w /\ pc[x] \in Running -> "failed"
                [] x \in Calls /\ Window[x] = w /\ pc[x] = "unlockOk" -> "ok"
                [] OTHER                                           -> pc[x]]
  /\ fresh' = (fresh /\ lock # w /\ (lock \in Calls => Window[lock] # w))
  /\ reader' = [reader EXCEPT ![w] = "idle"]
  /\ UNCHANGED <<file, lock, snap, stalls, corruptions>>

\* The machine sleeps, or the event loop hangs: onCompromised throws from a timer,
\* which does not stop the function that runs under the lock.
Stall == /\ stalls + corruptions < MaxFaults /\ stalls' = stalls + 1
         /\ fresh /\ fresh' = FALSE
         /\ UNCHANGED <<file, lock, pc, snap, reader, crashes, corruptions>>

Corrupt == /\ stalls + corruptions < MaxFaults /\ corruptions' = corruptions + 1
           /\ file.kind = "good" /\ file' = [kind |-> "corrupt", state |-> Empty]
           /\ UNCHANGED <<lock, fresh, pc, snap, reader, crashes, stalls>>

Step(x) == \/ Acquire(x) \/ LockTimeout(x) \/ Unlock(x)
           \/ Read(x) \/ ReadFails(x) \/ Quarantine(x) \/ Write(x) \/ WriteFails(x)

Next == \/ \E c \in Calls : Ask(c) \/ Migrated(c)
        \/ \E x \in Actors : Step(x)
        \/ \E w \in Windows : LookCorrupt(w) \/ LookQuarantine(w) \/ Crash(w)
        \/ Stall \/ Corrupt

Spec == Init /\ [][Next]_vars

\* The event loop and the file system go on; windows need not make calls.
Fairness == \A x \in Actors : WF_vars(Step(x)) /\ (x \in Calls => WF_vars(Migrated(x)))

FairSpec == Spec /\ Fairness

-----------------------------------------------------------------------------
(* Actors and the file have the states of the code; an import never ends as a call. *)
TypeOK ==
  /\ file \in Files /\ lock \in Actors \cup {Nobody} /\ fresh \in BOOLEAN
  /\ pc \in [Actors -> {"idle", "locking", "done", "failed", "ok", "unlockOk"} \cup Running]
  /\ \A w \in Windows : pc[w] \notin {"migrate", "ok", "failed"}
  /\ \A c \in Calls : pc[c] # "done"
  /\ snap \in [Actors -> Files]
  /\ reader \in [Windows -> {"idle", "quarantine"}]
  /\ crashes \in 0..MaxCrashes /\ stalls \in 0..MaxFaults /\ corruptions \in 0..MaxFaults

Result(c) == CASE pc[c] = "idle"              -> "idle"
               [] pc[c] \in {"unlockOk", "ok"} -> "ok"
               [] pc[c] = "failed"            -> "failed"
               [] OTHER                       -> "pending"

Results == [c \in Calls |-> Result(c)]

\* No window has been suspended, and the file not damaged.
Intact == stalls = 0 /\ corruptions = 0

(* "Every mutation is a lock-serialized read-modify-write, so concurrent windows
   compose instead of clobbering each other" (ParallelStateStore.ts): whatever windows
   do at once, time out on, fail at or die in, every call is one atomic update that
   keeps all others, or nothing, and the import comes before all of them.  After damage
   that the lock cannot guard against a call still tells the truth about itself. *)
Promise == INSTANCE SharedState WITH value  <- file.state,
                                     exists <- file.kind = "good",
                                     result <- Results,
                                     intact <- Intact
ImplementsSharedState == Promise!Spec

(* Every call ends, whatever locks dead or suspended windows leave behind and whatever
   the file looks like. *)
CallsEnd == \A c \in Calls : pc[c] # "idle" ~> pc[c] \in {"ok", "failed"}
=============================================================================
