--------------------------- MODULE StateStoreProofs ---------------------------
(***************************************************************************)
(* The store keeps its promise for any number of windows, keys, calls,     *)
(* crashes and faults: its specification is typed and implements           *)
(* SharedState.  The argument while nothing has been suspended or damaged: *)
(* the lock serializes the holders, so that what a holder writes from is   *)
(* what the file still is.                                                 *)
(***************************************************************************)
EXTENDS StateStore, TLAPS

Critical == {"reading", "writing", "unlockOk", "unlockFailed"}

(* Who is past the lock holds it, and keeps it up. *)
Holding == \A x \in Actors : pc[x] \in Critical => lock = x /\ fresh

(* What a holder is about to write from is what the file still is. *)
SnapCurrent == \A x \in Actors : pc[x] = "writing" => snap[x] = file

(* An import writes only where there is nothing. *)
ImportFirst == \A w \in Windows : pc[w] = "writing" => file = Missing

(* Nothing is ever found corrupt, and a file that is missing has no contents. *)
Sound == /\ file.kind = "good" \/ file = Missing
         /\ \A x \in Actors : pc[x] # "quarantine"
         /\ \A w \in Windows : reader[w] = "idle"

Serial == Holding /\ SnapCurrent /\ ImportFirst /\ Sound

(* All of it only until something happens that the lock cannot guard against. *)
IInv == TypeOK /\ (Intact => Serial)

LEMMA ActorsDisjoint ==
  /\ \A c \in Calls : c \notin Windows /\ Window[c] \in Windows /\ Key[c] \in Keys
  /\ Nobody \notin Actors
BY StoreAssumption DEF Actors

LEMMA MissingTyped == Missing \in Files /\ Missing.kind = "missing"
BY DEF Missing, Files, Values, Empty

LEMMA GoodTyped == ASSUME NEW s \in Values
                   PROVE  Good(s) \in Files /\ Good(s).kind = "good" /\ Good(s).state = s
BY DEF Good, Files, Values

LEMMA LegacyTyped == LegacyState \in Values
BY DEF LegacyState, Values

(* What a holder writes is a file of the right shape. *)
LEMMA WrittenTyped ==
  ASSUME TypeOK, NEW x \in Actors
  PROVE  Written(x) \in Files /\ Written(x).kind = "good"
<1>1. CASE x \in Windows
  BY <1>1, LegacyTyped, GoodTyped DEF Written
<1>2. CASE x \notin Windows
  <2>1. snap[x].state \in Values
    BY DEF TypeOK, Files
  <2>2. [snap[x].state EXCEPT ![Key[x]] = @ \cup {x}] \in Values
    BY <1>2, <2>1, ActorsDisjoint DEF Values, Actors
  <2>3. QED
    BY <1>2, <2>2, GoodTyped DEF Written
<1>3. QED
  BY <1>1, <1>2

LEMMA InitIInv == Init => IInv
<1> SUFFICES ASSUME Init PROVE IInv
  OBVIOUS
<1>1. /\ 0 \in 0..MaxCrashes /\ 0 \in 0..MaxFaults
      /\ "idle" \in {"idle", "locking", "done", "failed", "ok", "unlockOk"} \cup Running
  BY StoreAssumption
<1>2. snap \in [Actors -> Files] /\ file \in Files
  BY MissingTyped DEF Init
<1>3. /\ pc \in [Actors -> {"idle", "locking", "done", "failed", "ok", "unlockOk"} \cup Running]
      /\ \A x \in Actors : pc[x] = "idle"
      /\ reader \in [Windows -> {"idle", "quarantine"}]
  BY <1>1 DEF Init
<1>4. TypeOK
  BY <1>1, <1>2, <1>3 DEF Init, TypeOK, Actors
<1>5. Holding /\ SnapCurrent /\ ImportFirst /\ Sound
  BY DEF Init, Holding, SnapCurrent, ImportFirst, Sound, Critical, Actors
<1>6. QED
  BY <1>4, <1>5 DEF IInv, Serial

-----------------------------------------------------------------------------
(* The types, whatever happens. *)
LEMMA CallTyped ==
  ASSUME TypeOK, NEW c \in Calls, Ask(c) \/ Migrated(c) PROVE TypeOK'
<1>1. CASE Ask(c)
  BY <1>1, ActorsDisjoint DEF TypeOK, Ask, Asked, faultVars, Actors, Running
<1>2. CASE Migrated(c)
  BY <1>2, ActorsDisjoint DEF TypeOK, Migrated, Goto, faultVars, Actors, Running
<1>3. QED
  BY <1>1, <1>2

LEMMA StepTyped == ASSUME TypeOK, NEW x \in Actors, Step(x) PROVE TypeOK'
<1>1. CASE Acquire(x)
  BY <1>1, ActorsDisjoint DEF TypeOK, Acquire, Goto, faultVars, Actors, Running
<1>2. CASE LockTimeout(x)
  BY <1>2, ActorsDisjoint DEF TypeOK, LockTimeout, Goto, Failure, faultVars, Actors, Running
<1>3. CASE Unlock(x)
  BY <1>3, ActorsDisjoint
  DEF TypeOK, Unlock, Goto, Success, Failure, faultVars, Actors, Running
<1>4. CASE Read(x)
  <2>1. AfterRead(x, file) \in {"quarantine", "unlockOk", "writing"}
    BY DEF AfterRead
  <2>2. snap' \in [Actors -> Files]
    BY <1>4, MissingTyped DEF TypeOK, Read
  <2>3. QED
    BY <1>4, <2>1, <2>2, ActorsDisjoint DEF TypeOK, Read, Goto, faultVars, Actors, Running
<1>5. CASE ReadFails(x) \/ WriteFails(x)
  BY <1>5, ActorsDisjoint
  DEF TypeOK, ReadFails, WriteFails, Fails, Goto, faultVars, Actors, Running
<1>6. CASE Quarantine(x)
  BY <1>6, ActorsDisjoint, MissingTyped
  DEF TypeOK, Quarantine, Goto, faultVars, Actors, Running
<1>7. CASE Write(x)
  BY <1>7, WrittenTyped, ActorsDisjoint DEF TypeOK, Write, Goto, faultVars, Actors, Running
<1>8. QED
  BY <1>1, <1>2, <1>3, <1>4, <1>5, <1>6, <1>7 DEF Step

LEMMA WindowTyped ==
  ASSUME TypeOK, NEW w \in Windows, LookCorrupt(w) \/ LookQuarantine(w) \/ Crash(w)
  PROVE  TypeOK'
<1>1. CASE LookCorrupt(w)
  BY <1>1 DEF TypeOK, LookCorrupt, faultVars
<1>2. CASE LookQuarantine(w)
  BY <1>2, MissingTyped DEF TypeOK, LookQuarantine, faultVars
<1>3. CASE Crash(w)
  BY <1>3, ActorsDisjoint, StoreAssumption DEF TypeOK, Crash, Actors, Running
<1>4. QED
  BY <1>1, <1>2, <1>3

LEMMA FaultTyped == ASSUME TypeOK, Stall \/ Corrupt PROVE TypeOK' /\ ~Intact'
<1>1. CASE Stall
  <2>1. stalls' \in 0..MaxFaults /\ stalls' # 0
    BY <1>1, StoreAssumption DEF TypeOK, Stall
  <2>2. ~Intact'
    BY <2>1 DEF Intact
  <2>3. QED
    BY <1>1, <2>1, <2>2 DEF TypeOK, Stall
<1>2. CASE Corrupt
  <2>1. Empty \in Values
    BY DEF Values, Empty
  <2>2. file' \in Files
    BY <1>2, <2>1 DEF Corrupt, Files
  <2>3. ~Intact'
    BY <1>2, StoreAssumption DEF TypeOK, Corrupt, Intact
  <2>4. QED
    BY <1>2, <2>2, <2>3, StoreAssumption DEF TypeOK, Corrupt
<1>3. QED
  BY <1>1, <1>2

-----------------------------------------------------------------------------
(* The order the lock gives: steps before the lock and of the readers. *)
LEMMA AskSerial == ASSUME TypeOK, Serial, NEW c \in Calls, Ask(c) PROVE Serial'
<1>1. \A x \in Actors : pc'[x] # pc[x] => pc'[x] \in {"migrate", "locking"}
  BY ActorsDisjoint DEF TypeOK, Ask, Asked, Actors
<1>2. QED
  BY <1>1 DEF Serial, Holding, SnapCurrent, ImportFirst, Sound, Ask, Critical, Actors

LEMMA MigratedSerial == ASSUME TypeOK, Serial, NEW c \in Calls, Migrated(c) PROVE Serial'
BY DEF TypeOK, Serial, Holding, SnapCurrent, ImportFirst, Sound, Migrated, Goto,
       Critical, Actors

LEMMA LookSerial == ASSUME Serial, NEW w \in Windows, LookCorrupt(w) \/ LookQuarantine(w)
                    PROVE  FALSE
BY MissingTyped DEF Serial, Sound, LookCorrupt, LookQuarantine

LEMMA CrashSerial == ASSUME TypeOK, Serial, NEW w \in Windows, Crash(w) PROVE Serial'
<1>1. \A x \in Actors : pc'[x] \in Critical \cup {"quarantine"} =>
        /\ pc'[x] = pc[x] /\ x # w
        /\ x \in Calls => Window[x] # w
  BY DEF TypeOK, Crash, Actors, Running, Critical
<1>2. Holding'
  BY <1>1, ActorsDisjoint DEF Serial, Holding, Crash, Critical, Actors
<1>3. SnapCurrent' /\ ImportFirst' /\ Sound'
  BY <1>1 DEF Serial, SnapCurrent, ImportFirst, Sound, TypeOK, Crash, Critical, Actors
<1>4. QED
  BY <1>2, <1>3 DEF Serial

-----------------------------------------------------------------------------
(* Steps of an actor at the lock and past it. *)
LEMMA AcquireSerial == ASSUME TypeOK, Serial, NEW x \in Actors, Acquire(x) PROVE Serial'
<1>1. \A y \in Actors : pc[y] \notin Critical
  BY ActorsDisjoint DEF Serial, Holding, Acquire, Acquirable
<1>2. Holding'
  BY <1>1 DEF TypeOK, Holding, Acquire, Goto
<1>3. SnapCurrent' /\ ImportFirst' /\ Sound'
  BY DEF Serial, TypeOK, SnapCurrent, ImportFirst, Sound, Acquire, Goto, Actors
<1>4. QED
  BY <1>2, <1>3 DEF Serial

LEMMA LockTimeoutSerial ==
  ASSUME TypeOK, Serial, NEW x \in Actors, LockTimeout(x) PROVE Serial'
BY DEF TypeOK, Serial, Holding, SnapCurrent, ImportFirst, Sound, LockTimeout, Goto,
       Failure, Critical, Actors

LEMMA UnlockSerial == ASSUME TypeOK, Serial, NEW x \in Actors, Unlock(x) PROVE Serial'
<1>1. \A y \in Actors : pc'[y] \in Critical \cup {"quarantine"} => y # x /\ pc'[y] = pc[y]
  BY DEF TypeOK, Unlock, Goto, Success, Failure, Critical
<1>2. lock = x
  BY DEF Serial, Holding, Unlock, Critical
<1>3. Holding'
  BY <1>1, <1>2 DEF Serial, Holding
<1>4. SnapCurrent' /\ ImportFirst' /\ Sound'
  BY <1>1 DEF Serial, SnapCurrent, ImportFirst, Sound, Unlock, Critical, Actors
<1>5. QED
  BY <1>3, <1>4 DEF Serial

LEMMA ReadSerial == ASSUME TypeOK, Serial, NEW x \in Actors, Read(x) PROVE Serial'
<1>1. file.kind # "corrupt"
  BY MissingTyped DEF Serial, Sound
<1>2. /\ pc' = [pc EXCEPT ![x] = AfterRead(x, file)]
      /\ AfterRead(x, file) \in {"unlockOk", "writing"}
      /\ AfterRead(x, file) = "writing" /\ x \in Windows => file.kind # "good"
      /\ snap' = [snap EXCEPT ![x] = file]
  BY <1>1 DEF Read, Goto, AfterRead
<1>3. lock = x /\ fresh
  BY DEF Serial, Holding, Read, Critical
<1>4. Holding'
  BY <1>2, <1>3 DEF Serial, TypeOK, Holding, Read
<1>5. SnapCurrent'
  BY <1>2 DEF Serial, TypeOK, SnapCurrent, Read
<1>6. ImportFirst' /\ Sound'
  BY <1>2 DEF Serial, TypeOK, ImportFirst, Sound, Read, Actors
<1>7. QED
  BY <1>4, <1>5, <1>6 DEF Serial

LEMMA FailsSerial ==
  ASSUME TypeOK, Serial, NEW x \in Actors, ReadFails(x) \/ WriteFails(x) PROVE Serial'
BY DEF TypeOK, Serial, Holding, SnapCurrent, ImportFirst, Sound, ReadFails, WriteFails,
       Fails, Goto, Critical, Actors

LEMMA WriteSerial == ASSUME TypeOK, Serial, NEW x \in Actors, Write(x) PROVE Serial'
<1>1. \A y \in Actors : y # x => pc'[y] = pc[y] /\ pc[y] \notin Critical
  BY DEF Serial, TypeOK, Holding, Write, Goto, Critical
<1>2. Holding'
  BY <1>1 DEF Serial, TypeOK, Holding, Write, Goto, Critical
<1>3. SnapCurrent' /\ ImportFirst'
  BY <1>1 DEF TypeOK, SnapCurrent, ImportFirst, Write, Goto, Critical, Actors
<1>4. Sound'
  BY WrittenTyped DEF Serial, TypeOK, Sound, Write, Goto, Actors
<1>5. QED
  BY <1>2, <1>3, <1>4 DEF Serial

LEMMA StepSerial == ASSUME TypeOK, Serial, NEW x \in Actors, Step(x) PROVE Serial'
<1>1. ~Quarantine(x)
  BY DEF Serial, Sound, Quarantine
<1>2. QED
  BY <1>1, AcquireSerial, LockTimeoutSerial, UnlockSerial, ReadSerial, FailsSerial,
     WriteSerial DEF Step

\* Only the faults change what counts as intact.
LEMMA CallKeepsIntact ==
  ASSUME NEW c \in Calls, Ask(c) \/ Migrated(c) PROVE Intact' = Intact
BY DEF Ask, Migrated, faultVars, Intact

LEMMA StepKeepsIntact == ASSUME NEW x \in Actors, Step(x) PROVE Intact' = Intact
BY DEF Step, Acquire, LockTimeout, Unlock, Read, ReadFails, Quarantine, Write,
       WriteFails, faultVars, Intact

LEMMA WindowKeepsIntact ==
  ASSUME NEW w \in Windows, LookCorrupt(w) \/ LookQuarantine(w) \/ Crash(w)
  PROVE  Intact' = Intact
BY DEF LookCorrupt, LookQuarantine, Crash, faultVars, Intact

LEMMA NextIInv == IInv /\ [Next]_vars => IInv'
<1> SUFFICES ASSUME IInv, [Next]_vars PROVE IInv'
  OBVIOUS
<1> USE DEF IInv
<1>1. CASE UNCHANGED vars
  BY <1>1 DEF TypeOK, Serial, Holding, SnapCurrent, ImportFirst, Sound, Intact, vars,
              faultVars
<1>2. ASSUME NEW c \in Calls, Ask(c) \/ Migrated(c) PROVE IInv'
  BY <1>2, CallTyped, AskSerial, MigratedSerial, CallKeepsIntact
<1>3. ASSUME NEW x \in Actors, Step(x) PROVE IInv'
  BY <1>3, StepTyped, StepSerial, StepKeepsIntact
<1>4. ASSUME NEW w \in Windows, LookCorrupt(w) \/ LookQuarantine(w) \/ Crash(w) PROVE IInv'
  BY <1>4, WindowTyped, LookSerial, CrashSerial, WindowKeepsIntact
<1>5. CASE Stall \/ Corrupt
  BY <1>5, FaultTyped
<1>6. QED
  BY <1>1, <1>2, <1>3, <1>4, <1>5 DEF Next

(* The store's state has the shapes of the code in every behaviour. *)
THEOREM StoreTyped == Spec => []TypeOK
<1>1. IInv => TypeOK
  BY DEF IInv
<1>2. QED
  BY <1>1, InitIInv, NextIInv, PTL DEF Spec

-----------------------------------------------------------------------------
(* What the callers see.  A step that no call sees the result of leaves the file
   alone, unless something has been lost or damaged before. *)
LEMMA Unseen ==
  ASSUME \A c \in Calls : Result(c)' = Result(c), Intact' = Intact,
         UNCHANGED file \/ ~Intact
  PROVE  [Promise!Next]_Promise!vars
<1>1. Results' = Results
  BY DEF Results
<1>2. CASE UNCHANGED file
  BY <1>1, <1>2 DEF Promise!vars
<1>3. CASE ~Intact
  BY <1>1, <1>3 DEF Promise!Next, Promise!Lose
<1>4. QED
  BY <1>2, <1>3

\* One call moves from one pc to another, imports apart.
LEMMA GotoResult ==
  ASSUME TypeOK, NEW x \in Actors, NEW s, Goto(x, s),
         x \in Calls => s \in {"locking", "reading", "quarantine", "writing", "unlockFailed"},
         x \in Calls => pc[x] \in Running
  PROVE  \A c \in Calls : Result(c)' = Result(c)
BY ActorsDisjoint DEF TypeOK, Goto, Result, Running, Actors

LEMMA FailedCall ==
  ASSUME TypeOK, NEW x \in Actors, Goto(x, Failure(x)), UNCHANGED file, Intact' = Intact,
         x \in Calls => pc[x] \in Running
  PROVE  [Promise!Next]_Promise!vars
<1>1. CASE x \in Windows
  <2>1. \A c \in Calls : Result(c)' = Result(c)
    BY <1>1, ActorsDisjoint DEF TypeOK, Goto, Result, Actors
  <2>2. QED
    BY <2>1, Unseen
<1>2. CASE x \in Calls
  <2>1. Results[x] = "pending"
    BY <1>2 DEF Results, Result, Running
  <2>2. Results' = [c \in Calls |-> IF c \in {x} THEN "failed" ELSE Results[c]]
    BY <1>2, ActorsDisjoint DEF TypeOK, Results, Result, Goto, Failure, Actors
  <2>3. Promise!Fail({x})
    BY <1>2, <2>1, <2>2 DEF Promise!Fail, Results
  <2>4. QED
    BY <1>2, <2>3 DEF Promise!Next
<1>3. QED
  BY <1>1, <1>2 DEF Actors

LEMMA CallAsked ==
  ASSUME TypeOK, NEW c \in Calls, Ask(c), Intact' = Intact PROVE Promise!Ask(c)
<1>1. Results[c] = "idle"
  BY DEF Results, Result, Ask
<1>2. Results' = [Results EXCEPT ![c] = "pending"]
  BY ActorsDisjoint DEF TypeOK, Results, Result, Ask, Asked, Actors
<1>3. QED
  BY <1>1, <1>2 DEF Promise!Ask, Results, Ask

LEMMA CallAnswered ==
  ASSUME TypeOK, NEW c \in Calls, Write(c), Intact' = Intact
  PROVE  /\ Promise!Answer(c, "ok")
         /\ file'.state = [snap[c].state EXCEPT ![Key[c]] = @ \cup {c}]
         /\ c \in file'.state[Key[c]] /\ file'.kind = "good"
<1>1. file' = Written(c) /\ Written(c).kind = "good"
  BY WrittenTyped DEF Write, Actors
<1>2. Results[c] = "pending" /\ Results' = [Results EXCEPT ![c] = "ok"]
  BY ActorsDisjoint DEF TypeOK, Results, Result, Write, Goto, Actors
<1>3. snap[c].state \in Values /\ Key[c] \in Keys
  BY ActorsDisjoint DEF TypeOK, Files, Actors
<1>4. [snap[c].state EXCEPT ![Key[c]] = @ \cup {c}] \in Values
  BY <1>3 DEF Values
<1>5. file'.state = [snap[c].state EXCEPT ![Key[c]] = @ \cup {c}]
  BY <1>1, <1>4, ActorsDisjoint, GoodTyped DEF Written
<1>6. c \in file'.state[Key[c]]
  BY <1>3, <1>5 DEF Values
<1>7. QED
  BY <1>1, <1>2, <1>5, <1>6 DEF Promise!Answer, Results

LEMMA CallWritten ==
  ASSUME IInv, NEW c \in Calls, Write(c), Intact' = Intact
  PROVE  Promise!Commit(c) \/ Promise!CommitLossy(c)
<1>1. CASE Intact
  <2>1. snap[c] = file
    BY <1>1 DEF IInv, Serial, SnapCurrent, Write, Actors
  <2>2. QED
    BY <2>1, CallAnswered DEF IInv, Promise!Commit
<1>2. CASE ~Intact
  BY <1>2, CallAnswered DEF IInv, Promise!CommitLossy
<1>3. QED
  BY <1>1, <1>2

LEMMA WindowImports ==
  ASSUME IInv, NEW w \in Windows, Write(w), Intact' = Intact
  PROVE  [Promise!Next]_Promise!vars
<1>1. \A c \in Calls : Result(c)' = Result(c)
  BY ActorsDisjoint DEF IInv, TypeOK, Result, Write, Goto, Actors
<1>2. CASE Intact
  <2>1. file' = Good(LegacyState) /\ file.kind # "good"
    BY <1>2, MissingTyped DEF IInv, Serial, ImportFirst, Write, Written
  <2>2. file'.kind = "good" /\ file'.state = LegacyState
    BY <2>1, LegacyTyped, GoodTyped
  <2>3. Promise!Import
    BY <1>1, <2>1, <2>2 DEF Promise!Import, Promise!LegacyState, LegacyState, Results
  <2>4. QED
    BY <2>3 DEF Promise!Next
<1>3. CASE ~Intact
  BY <1>1, <1>3, Unseen
<1>4. QED
  BY <1>2, <1>3

LEMMA WindowDies ==
  ASSUME TypeOK, NEW w \in Windows, Crash(w), Intact' = Intact
  PROVE  [Promise!Next]_Promise!vars
<1> DEFINE D == {c \in Calls : Window[c] = w /\ pc[c] \in Running}
<1>1. \A c \in D : Results[c] = "pending"
  BY DEF Results, Result, Running
<1>2. Results' = [c \in Calls |-> IF c \in D THEN "failed" ELSE Results[c]]
  <2>1. ASSUME NEW c \in Calls
        PROVE  Result(c)' = IF c \in D THEN "failed" ELSE Result(c)
    <3>1. pc'[c] = CASE Window[c] = w /\ pc[c] \in Running -> "failed"
                     [] Window[c] = w /\ pc[c] = "unlockOk" -> "ok"
                     [] OTHER -> pc[c]
      BY ActorsDisjoint DEF TypeOK, Crash, Actors, Running
    <3>2. QED
      BY <3>1 DEF TypeOK, Result, Running
  <2>2. QED
    BY <2>1 DEF Results
<1>3. Promise!Fail(D)
  BY <1>1, <1>2 DEF Promise!Fail, Results, Crash
<1>4. QED
  BY <1>3 DEF Promise!Next

LEMMA FaultImplements == ASSUME IInv, Stall \/ Corrupt PROVE Promise!Damage
<1>1. Intact' = FALSE
  BY FaultTyped DEF IInv, Intact
<1>2. \A c \in Calls : Result(c)' = Result(c)
  BY DEF Stall, Corrupt, Result
<1>3. CASE Stall
  BY <1>1, <1>2, <1>3 DEF Stall, Promise!Damage, Results
<1>4. CASE Corrupt
  <2>1. file'.state = [k \in Keys |-> {}] /\ Results' = Results
    BY <1>2, <1>4 DEF Corrupt, Empty, Results
  <2>2. (file.kind = "good")' \in {file.kind = "good", FALSE}
    BY <1>4 DEF Corrupt
  <2>3. QED
    BY <1>1, <2>1, <2>2 DEF Promise!Damage
<1>5. QED
  BY <1>3, <1>4

LEMMA StepImplements ==
  ASSUME IInv, NEW x \in Actors, Step(x), Intact' = Intact
  PROVE  [Promise!Next]_Promise!vars
<1>1. CASE Acquire(x) \/ ReadFails(x) \/ WriteFails(x)
  <2>1. \A c \in Calls : Result(c)' = Result(c)
    BY <1>1, GotoResult DEF IInv, Acquire, ReadFails, WriteFails, Fails, Running
  <2>2. QED
    BY <1>1, <2>1, Unseen DEF Acquire, ReadFails, WriteFails
<1>2. CASE LockTimeout(x)
  BY <1>2, FailedCall DEF IInv, LockTimeout, Running
<1>3. CASE Unlock(x)
  <2>1. CASE pc[x] = "unlockFailed"
    BY <1>3, <2>1, FailedCall DEF IInv, Unlock, Running
  <2>2. CASE pc[x] = "unlockOk"
    <3>1. \A c \in Calls : Result(c)' = Result(c)
      BY <1>3, <2>2, ActorsDisjoint DEF IInv, TypeOK, Unlock, Goto, Success, Result, Actors
    <3>2. QED
      BY <1>3, <3>1, Unseen DEF Unlock
  <2>3. QED
    BY <1>3, <2>1, <2>2 DEF Unlock
<1>4. CASE Read(x)
  <2>1. x \in Calls => AfterRead(x, file) \in {"quarantine", "writing"}
    <3>1. CASE file.kind = "corrupt"
      BY <3>1 DEF AfterRead
    <3>2. CASE file.kind # "corrupt"
      BY <3>2, ActorsDisjoint DEF AfterRead
    <3>3. QED
      BY <3>1, <3>2
  <2>2. \A c \in Calls : Result(c)' = Result(c)
    BY <1>4, <2>1, GotoResult DEF IInv, Read, Running
  <2>3. QED
    BY <1>4, <2>2, Unseen DEF Read
<1>5. CASE Quarantine(x)
  <2>1. \A c \in Calls : Result(c)' = Result(c)
    BY <1>5, GotoResult DEF IInv, Quarantine, Running
  <2>2. QED
    BY <1>5, <2>1, Unseen DEF IInv, Serial, Sound, Quarantine
<1>6. CASE Write(x)
  BY <1>6, CallWritten, WindowImports DEF Promise!Next, Actors
<1>7. QED
  BY <1>1, <1>2, <1>3, <1>4, <1>5, <1>6 DEF Step

LEMMA WindowImplements ==
  ASSUME IInv, NEW w \in Windows, LookCorrupt(w) \/ LookQuarantine(w) \/ Crash(w),
         Intact' = Intact
  PROVE  [Promise!Next]_Promise!vars
<1>1. CASE LookCorrupt(w) \/ LookQuarantine(w)
  <2>1. \A c \in Calls : Result(c)' = Result(c)
    BY <1>1 DEF LookCorrupt, LookQuarantine, Result
  <2>2. ~Intact
    BY <1>1, LookSerial DEF IInv
  <2>3. QED
    BY <2>1, <2>2, Unseen
<1>2. CASE Crash(w)
  BY <1>2, WindowDies DEF IInv
<1>3. QED
  BY <1>1, <1>2

(* "Every mutation is a lock-serialized read-modify-write, so concurrent windows
   compose instead of clobbering each other": the store implements atomic updates. *)
THEOREM Implements == Spec => ImplementsSharedState
<1>1. Init => Promise!Init
  <2> SUFFICES ASSUME Init PROVE Promise!Init
    OBVIOUS
  <2>1. file.state = [k \in Keys |-> {}] /\ file.kind # "good"
    BY MissingTyped DEF Init, Missing, Empty
  <2>2. \A c \in Calls : Result(c) = "idle"
    BY DEF Init, Result, Actors
  <2>3. QED
    BY <2>1, <2>2 DEF Init, Promise!Init, Results, Intact
<1>2. IInv /\ [Next]_vars => [Promise!Next]_Promise!vars
  <2> SUFFICES ASSUME IInv, [Next]_vars PROVE [Promise!Next]_Promise!vars
    OBVIOUS
  <2>1. CASE UNCHANGED vars
    <3>1. \A c \in Calls : Result(c)' = Result(c)
      BY <2>1 DEF vars, Result
    <3>2. QED
      BY <2>1, <3>1, Unseen DEF vars, faultVars, Intact
  <2>2. ASSUME NEW c \in Calls, Ask(c) PROVE Promise!Next
    BY <2>2, CallAsked, CallKeepsIntact DEF IInv, Promise!Next
  <2>3. ASSUME NEW c \in Calls, Migrated(c) PROVE [Promise!Next]_Promise!vars
    <3>1. \A d \in Calls : Result(d)' = Result(d)
      BY <2>3, GotoResult DEF IInv, Migrated, Running, Actors
    <3>2. QED
      BY <2>3, <3>1, Unseen, CallKeepsIntact DEF Migrated
  <2>4. ASSUME NEW w \in Windows, LookCorrupt(w) \/ LookQuarantine(w) \/ Crash(w)
        PROVE  [Promise!Next]_Promise!vars
    BY <2>4, WindowImplements, WindowKeepsIntact
  <2>5. CASE Stall \/ Corrupt
    BY <2>5, FaultImplements DEF Promise!Next
  <2>6. QED
    BY <2>1, <2>2, <2>3, <2>4, <2>5, StepImplements, StepKeepsIntact DEF Next
<1>3. QED
  BY <1>1, <1>2, InitIInv, NextIInv, PTL DEF Spec, ImplementsSharedState, Promise!Spec
=============================================================================
