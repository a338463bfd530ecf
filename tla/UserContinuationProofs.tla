----------------------- MODULE UserContinuationProofs -----------------------
(***************************************************************************)
(* For any number of inputs, instances, replacements and loops: the states *)
(* of a message on its way are those of the code, and the only message of  *)
(* a user who does not press Cancel is neither lost nor delivered twice.   *)
(*                                                                         *)
(* Where a message is follows from its fate (OnePlace).  The rest of the   *)
(* argument is about who may still cancel the instance that has the lone   *)
(* message, or has said it: only the first instance is ever cancelled,     *)
(* because every replacement of its task finds the same task on top        *)
(* (Onward).  All of it is said while the user is Calm, and without the    *)
(* two faults that together lose the message.                              *)
(***************************************************************************)
EXTENDS UserContinuation, TLAPS, FiniteSetTheorems

Final == {"said", "answered", "lost", "twice"}

(* Where a message is: one that waits in a chain, or that a restoration has yet to say,
   is in no other place, and one that a restoration has said is settled. *)
Chained ==
  /\ \A i \in Instances : \A k \in 1..Len(chain[i]) : fate[chain[i][k]] = "chained"
  /\ \A i, j \in Instances : \A k \in 1..Len(chain[i]), l \in 1..Len(chain[j]) :
       chain[i][k] = chain[j][l] => i = j /\ k = l

ToSay(i) == stage[i] \in {"restoring", "resumed"} /\ carry[i] # None
HasSaid(i) == stage[i] \in {"feeding", "looping"} /\ carry[i] # None

Carried ==
  /\ \A i \in Instances : /\ ToSay(i) => fate[carry[i]] = "carried"
                          /\ HasSaid(i) => fate[carry[i]] \in Final
  /\ \A i, j \in Instances : ToSay(i) /\ ToSay(j) /\ carry[i] = carry[j] => i = j

(* A replacement under way is one of an instance, and the top is an instance in use. *)
OpInv == /\ \A c \in Ops : opAt[c] \in {"aborting", "restoring"} => opOf[c] \in Instances
         /\ \A i \in Instances : stage[i] = "none" => top # i

OnePlace == TypeOK /\ Chained /\ Carried /\ OpInv

(* Nothing has been replaced. *)
Untouched ==
  /\ top = 1 /\ stage[1] = "settled" /\ task[1] = 1 /\ ~cancelled[1]
  /\ \A i \in Instances \ {1} : /\ stage[i] = "none" /\ ~cancelled[i] /\ chain[i] = <<>>
                                /\ gen[i] = 0 /\ loops[i] = {}
  /\ \A c \in Ops : opAt[c] = "free"

(* A replacement that has yet to read the history and may find none is the only one, and
   the message waits for it. *)
AbortInv(t) ==
  "history" \in scenario.faults =>
    \A c \in Ops : opAt[c] = "aborting" =>
      /\ fate[t] = "parked" /\ \A i \in Instances : stage[i] # "made"
      /\ \A d \in Ops : opAt[d] \in {"aborting", "restoring"} => d = c

(* The first instance has been cancelled; all others are of the same task, are not
   cancelled, and none can be. *)
Onward(t) ==
  /\ top # None /\ cancelled[1] /\ stage[1] = "settled"
  /\ \A i \in Instances \ {1} : ~cancelled[i]
  /\ \A i \in Instances : stage[i] # "none" => task[i] = 1
  /\ \A c \in Ops : opAt[c] \in {"aborting", "restoring"} => task[opOf[c]] = 1
  /\ AbortInv(t)

(* The message has not become a row: only the first instance has had a loop. *)
Moving(t) == /\ Onward(t)
             /\ \A i \in Instances \ {1} : gen[i] = 0 /\ loops[i] = {}
             /\ \A i \in Instances : stage[i] \notin {"resumed", "feeding", "looping"}

Lone(t) ==
  /\ fate[t] = "editing" => Untouched
  /\ fate[t] = "chained" => Untouched \/ (Moving(t) /\ chain[1] = <<>>)
  /\ fate[t] \in {"parked", "carried"} => Moving(t)
  /\ fate[t] \in {"said", "answered"} => Onward(t) \/ (\A i \in Instances : ~HasSaid(i))
  /\ fate[t] \notin {"lost", "twice"}

Calm == presses = 0 /\ ~({"history", "slow"} \subseteq scenario.faults)

LoneInv == Calm => /\ Sent = {} => Untouched
                   /\ \A t \in Texts : Sent = {t} => Lone(t)

IInv == OnePlace /\ LoneInv
-----------------------------------------------------------------------------
(* The constants, and what is plain about them. *)
LEMMA Numbers ==
  /\ MaxInputs \in Nat /\ MaxInputs >= 1 /\ MaxInstances \in Nat /\ MaxInstances >= 1
  /\ MaxRestores \in Nat /\ MaxLoops \in Nat /\ MaxLoops >= 1
  /\ None = 0 /\ None \notin Texts /\ None \notin Instances /\ 1 \in Instances
  /\ Texts \subseteq Nat /\ Instances \subseteq Nat /\ Guards \subseteq {"armed", "blind"}
BY ContinuationAssumption DEF None, Texts, Instances

LEMMA InputsBounded ==
  ASSUME TypeOK PROVE scenario.inputs \in 1..MaxInputs /\ Cardinality(Sent) \in Nat
<1>1. scenario \in [faults : SUBSET Faults, inputs : 1..MaxInputs]
  BY ContinuationAssumption DEF TypeOK
<1>2. IsFiniteSet(Texts)
  BY Numbers, FS_Interval DEF Texts
<1>3. IsFiniteSet(Sent)
  BY <1>2, FS_Subset DEF Sent
<1>4. QED
  BY <1>1, <1>3, FS_CardinalityType

(* A chain loses its head or gains a last message. *)
LEMMA TailFacts ==
  ASSUME NEW S, NEW s \in Seq(S), s # <<>>
  PROVE  /\ Tail(s) \in Seq(S) /\ Head(s) = s[1] /\ Head(s) \in S /\ Len(s) \in Nat /\ Len(s) >= 1
         /\ Len(Tail(s)) = Len(s) - 1 /\ \A k \in 1..Len(Tail(s)) : Tail(s)[k] = s[k + 1]
OBVIOUS

LEMMA AppendFacts ==
  ASSUME NEW S, NEW s \in Seq(S), NEW x \in S
  PROVE  /\ Append(s, x) \in Seq(S) /\ Append(s, x) # <<>> /\ Len(Append(s, x)) = Len(s) + 1
         /\ \A k \in 1..Len(s) : Append(s, x)[k] = s[k]
         /\ Append(s, x)[Len(s) + 1] = x
OBVIOUS

-----------------------------------------------------------------------------
(* The type invariant in parts: the variables one by one, and what relates them. *)
Shapes ==
  /\ top \in Instances \cup {None} /\ task \in [Instances -> Instances \cup {None}]
  /\ slot \in Texts \cup {None} /\ guard \in {"off"} \cup Guards
  /\ stage \in [Instances -> {"none", "made", "restoring", "asking", "resumed", "feeding",
                              "looping", "settled"}]
  /\ carry \in [Instances -> Texts \cup {None}] /\ own \in [Instances -> 0..MaxLoops]
  /\ cancelled \in [Instances -> BOOLEAN] /\ gen \in [Instances -> 0..MaxLoops]
  /\ streaming \in BOOLEAN /\ soft \in [Instances -> BOOLEAN]
  /\ cont \in [Instances -> {"idle", "waiting", "setup"}]
  /\ opAt \in [Ops -> {"free", "aborting", "restoring", "done"}]
  /\ opOf \in [Ops -> Instances \cup {None}]
  /\ fate \in [Texts -> Fates] /\ room \in [Texts -> Instances \cup {None}]
  /\ completed \in [Instances -> BOOLEAN] /\ scenario \in Scenarios /\ presses \in 0..MaxInputs
  /\ loops \in [Instances -> SUBSET (1..MaxLoops)] /\ chain \in [Instances -> Seq(Texts)]

Looping == /\ \A i \in Instances : loops[i] \subseteq 1..gen[i]
           /\ \A i \in Instances : stage[i] = "looping" => own[i] \in loops[i]
Chains == \A i \in Instances : cont[i] # "idle" => chain[i] # <<>>
InSlot == \A t \in Texts : fate[t] = "parked" <=> slot = t

LEMMA TypeParts == TypeOK <=> Shapes /\ Looping /\ Chains /\ InSlot
BY DEF TypeOK, Shapes, Looping, Chains, InSlot

LEMMA InitPlace == Init => OnePlace
<1> SUFFICES ASSUME Init PROVE OnePlace
  OBVIOUS
<1>1. Shapes
  <2>1. task \in [Instances -> Instances \cup {None}] /\ gen \in [Instances -> 0..MaxLoops]
    BY Numbers DEF Init
  <2>2. loops \in [Instances -> SUBSET (1..MaxLoops)] /\ own \in [Instances -> 0..MaxLoops]
    BY Numbers DEF Init
  <2>3. chain \in [Instances -> Seq(Texts)] /\ cont \in [Instances -> {"idle", "waiting", "setup"}]
    BY DEF Init
  <2>4. carry \in [Instances -> Texts \cup {None}] /\ opOf \in [Ops -> Instances \cup {None}]
        /\ room \in [Texts -> Instances \cup {None}] /\ fate \in [Texts -> Fates]
        /\ opAt \in [Ops -> {"free", "aborting", "restoring", "done"}]
    BY DEF Init, Fates
  <2>5. /\ stage \in [Instances -> {"none", "made", "restoring", "asking", "resumed", "feeding",
                                    "looping", "settled"}]
        /\ cancelled \in [Instances -> BOOLEAN] /\ soft \in [Instances -> BOOLEAN]
        /\ completed \in [Instances -> BOOLEAN]
    BY DEF Init
  <2>6. /\ top \in Instances \cup {None} /\ slot \in Texts \cup {None}
        /\ guard \in {"off"} \cup Guards /\ streaming \in BOOLEAN /\ scenario \in Scenarios
    BY Numbers DEF Init
  <2>7. presses \in 0..MaxInputs
    <3>1. presses = 0
      BY DEF Init
    <3>2. QED
      BY <3>1, Numbers
  <2>8. QED
    BY <2>1, <2>2, <2>3, <2>4, <2>5, <2>6, <2>7 DEF Shapes
<1>2. Looping /\ Chains /\ InSlot
  BY Numbers DEF Init, Looping, Chains, InSlot, Texts
<1>3. Chained /\ Carried /\ OpInv
  BY Numbers DEF Init, Chained, Carried, ToSay, HasSaid, OpInv
<1>4. QED
  BY <1>1, <1>2, <1>3, TypeParts DEF OnePlace
-----------------------------------------------------------------------------
(* What the operators of the model do to the variables' types. *)
LEMMA StartOpTypes ==
  ASSUME TypeOK, OpInv, NEW i \in Instances, NEW s \in {"aborting", "restoring"}, StartOp(i, s)
  PROVE  /\ opAt' \in [Ops -> {"free", "aborting", "restoring", "done"}]
         /\ opOf' \in [Ops -> Instances \cup {None}]
         /\ \A c \in Ops : opAt'[c] \in {"aborting", "restoring"} => opOf'[c] \in Instances
BY DEF TypeOK, OpInv, StartOp

LEMMA AbortTypes ==
  ASSUME TypeOK, NEW T, Abort(T)
  PROVE  cancelled' \in [Instances -> BOOLEAN] /\ streaming' \in BOOLEAN
BY DEF TypeOK, Abort

LEMMA StartCancelTypes ==
  ASSUME TypeOK, OpInv, StartCancel
  PROVE  /\ opAt' \in [Ops -> {"free", "aborting", "restoring", "done"}]
         /\ opOf' \in [Ops -> Instances \cup {None}]
         /\ \A c \in Ops : opAt'[c] \in {"aborting", "restoring"} => opOf'[c] \in Instances
         /\ cancelled' \in [Instances -> BOOLEAN] /\ streaming' \in BOOLEAN
<1>1. CASE top = None
  BY <1>1 DEF StartCancel, TypeOK, OpInv, opVars
<1>2. CASE top # None
  <2>1. top \in Instances /\ Abort({top}) /\ StartOp(top, "aborting")
    BY <1>2 DEF StartCancel, TypeOK
  <2>2. QED
    BY <2>1, AbortTypes, StartOpTypes
<1>3. QED
  BY <1>1, <1>2

LEMMA OpGotoTypes ==
  ASSUME TypeOK, OpInv, NEW c \in Ops, NEW s \in {"aborting", "restoring", "done"}, OpGoto(c, s),
         opAt[c] \in {"aborting", "restoring"}
  PROVE  /\ opAt' \in [Ops -> {"free", "aborting", "restoring", "done"}]
         /\ opOf' \in [Ops -> Instances \cup {None}]
         /\ \A d \in Ops : opAt'[d] \in {"aborting", "restoring"} => opOf'[d] \in Instances
BY DEF TypeOK, OpInv, OpGoto

(* A message that is parked is in the slot, and nothing else changes its place. *)
LEMMA ParkedFacts ==
  ASSUME TypeOK, NEW t \in Texts, Parked(t)
  PROVE  /\ fate' \in [Texts -> Fates] /\ room' = room /\ slot' = t /\ guard' \in Guards
         /\ \A u \in Texts : fate'[u] = "parked" <=> slot' = u
         /\ fate'[t] = "parked" /\ \A u \in Texts \ {t} : u # slot => fate'[u] = fate[u]
         /\ \A u \in Texts \ {t} : u = slot => fate[u] = "parked" /\ fate'[u] = "lost"
<1>1. \A u \in Texts : fate'[u] = IF u = t THEN "parked" ELSE IF u = slot THEN "lost" ELSE fate[u]
  BY DEF Parked
<1>2. fate' \in [Texts -> Fates]
  BY DEF Parked, TypeOK, Fates
<1>3. QED
  BY <1>1, <1>2 DEF Parked, Park, TypeOK

LEMMA SaidFacts ==
  ASSUME TypeOK, NEW t \in Texts, NEW k \in Instances \cup {None}, Said(t, k)
  PROVE  /\ fate' \in [Texts -> Fates] /\ room' \in [Texts -> Instances \cup {None}]
         /\ \A u \in Texts \ {t} : fate'[u] = fate[u]
         /\ fate'[t] = IF fate[t] \in {"said", "answered"} THEN "twice" ELSE "said"
BY DEF TypeOK, Said, Fates

LEMMA MovedFacts ==
  ASSUME TypeOK, NEW t \in Texts, NEW s \in Fates, MoveTo(t, s)
  PROVE  /\ fate' \in [Texts -> Fates] /\ room' = room /\ fate'[t] = s
         /\ \A u \in Texts \ {t} : fate'[u] = fate[u]
BY DEF TypeOK, MoveTo

LEMMA FreshTaskFacts ==
  ASSUME OnePlace, NEW t \in Texts, FreshTask(t)
  PROVE  /\ Said(t, top') /\ top' \in Instances /\ stage[top'] = "none"
         /\ task' \in [Instances -> Instances \cup {None}] /\ UNCHANGED <<carry, own, soft>>
         /\ cancelled' \in [Instances -> BOOLEAN] /\ streaming' \in BOOLEAN
         /\ stage' = [stage EXCEPT ![top'] = "settled"]
         /\ loops' = [loops EXCEPT ![top'] = {1}] /\ gen' = [gen EXCEPT ![top'] = 1]
         /\ loops' \in [Instances -> SUBSET (1..MaxLoops)] /\ gen' \in [Instances -> 0..MaxLoops]
<1>1. PICK j \in Instances : FreshTask(t)!(j)
  BY DEF FreshTask
<1>2. top' = j /\ task' = [task EXCEPT ![j] = j] /\ stage' = [stage EXCEPT ![j] = "settled"]
  BY <1>1 DEF Stage
<1>3. cancelled' \in [Instances -> BOOLEAN] /\ streaming' \in BOOLEAN
  BY <1>1, AbortTypes DEF OnePlace
<1>4. loops' \in [Instances -> SUBSET (1..MaxLoops)] /\ gen' \in [Instances -> 0..MaxLoops]
  BY <1>1, Numbers DEF OnePlace, TypeOK
<1>5. QED
  BY <1>1, <1>2, <1>3, <1>4 DEF IsNext, OnePlace, TypeOK
-----------------------------------------------------------------------------
(* A message that keeps its fate, or that nobody holds, leaves the places as they are. *)
LEMMA ChainsKept ==
  ASSUME OnePlace, chain' = chain,
         \A t \in Texts : fate[t] = "chained" => fate'[t] = "chained"
  PROVE  Chained'
<1>1. \A i \in Instances : \A k \in 1..Len(chain[i]) : chain[i][k] \in Texts
  BY DEF OnePlace, TypeOK
<1>2. QED
  BY <1>1 DEF OnePlace, Chained

LEMMA OnceInChains ==
  ASSUME Chained, NEW i \in Instances, NEW j \in Instances, NEW k \in 1..Len(chain[i]),
         NEW l \in 1..Len(chain[j]), chain[i][k] = chain[j][l]
  PROVE  i = j /\ k = l
BY DEF Chained

LEMMA ChainShrinks ==
  ASSUME OnePlace, NEW i \in Instances, chain[i] # <<>>, Done(i),
         \A t \in Texts \ {Head(chain[i])} : fate[t] = "chained" => fate'[t] = "chained"
  PROVE  /\ Chained' /\ Chains' /\ chain' \in [Instances -> Seq(Texts)]
         /\ cont' \in [Instances -> {"idle", "waiting", "setup"}]
         /\ Head(chain[i]) \in Texts /\ fate[Head(chain[i])] = "chained"
<1>1. /\ chain \in [Instances -> Seq(Texts)] /\ cont \in [Instances -> {"idle", "waiting", "setup"}]
      /\ \A j \in Instances : cont[j] # "idle" => chain[j] # <<>>
  BY DEF OnePlace, TypeOK
<1>2. /\ chain' = [chain EXCEPT ![i] = Tail(chain[i])] /\ cont' = [cont EXCEPT ![i] = "idle"]
  BY DEF Done, Goto
<1>3. /\ Tail(chain[i]) \in Seq(Texts) /\ Head(chain[i]) = chain[i][1] /\ Head(chain[i]) \in Texts
      /\ Len(chain[i]) \in Nat /\ Len(chain[i]) >= 1 /\ Len(Tail(chain[i])) = Len(chain[i]) - 1
      /\ \A k \in 1..Len(Tail(chain[i])) : Tail(chain[i])[k] = chain[i][k + 1]
  BY <1>1, TailFacts
<1>4. chain' \in [Instances -> Seq(Texts)] /\ cont' \in [Instances -> {"idle", "waiting", "setup"}]
  BY <1>1, <1>2, <1>3
<1>5. Chains'
  BY <1>1, <1>2 DEF Chains
<1>6. 1 \in 1..Len(chain[i])
  BY <1>3
<1>7. \A j \in Instances : \A k \in 1..Len(chain'[j]) :
        \E l \in 1..Len(chain[j]) : /\ chain'[j][k] = chain[j][l] /\ (j = i => l = k + 1)
                                    /\ (j # i => l = k)
  BY <1>1, <1>2, <1>3
<1>8. \A j \in Instances : \A l \in 1..Len(chain[j]) : chain[j][l] \in Texts
  BY <1>1
<1>9. \A j \in Instances : \A k \in 1..Len(chain'[j]) : fate'[chain'[j][k]] = "chained"
  <2> SUFFICES ASSUME NEW j \in Instances, NEW k \in 1..Len(chain'[j])
               PROVE  fate'[chain'[j][k]] = "chained"
    OBVIOUS
  <2>1. PICK l \in 1..Len(chain[j]) : /\ chain'[j][k] = chain[j][l] /\ (j = i => l = k + 1)
                                      /\ (j # i => l = k)
    BY <1>7
  <2>2. chain[j][l] # chain[i][1]
    BY <2>1, <1>6 DEF OnePlace, Chained
  <2>3. chain[j][l] \in Texts /\ fate[chain[j][l]] = "chained"
    BY <1>8 DEF OnePlace, Chained
  <2>4. QED
    BY <2>1, <2>2, <2>3, <1>3
<1>10. \A j, m \in Instances : \A k \in 1..Len(chain'[j]), n \in 1..Len(chain'[m]) :
         chain'[j][k] = chain'[m][n] => j = m /\ k = n
  <2> SUFFICES ASSUME NEW j \in Instances, NEW m \in Instances, NEW k \in 1..Len(chain'[j]),
                      NEW n \in 1..Len(chain'[m]), chain'[j][k] = chain'[m][n]
               PROVE  j = m /\ k = n
    OBVIOUS
  <2>1. PICK l \in 1..Len(chain[j]) : /\ chain'[j][k] = chain[j][l] /\ (j = i => l = k + 1)
                                      /\ (j # i => l = k)
    BY <1>7
  <2>2. PICK o \in 1..Len(chain[m]) : /\ chain'[m][n] = chain[m][o] /\ (m = i => o = n + 1)
                                      /\ (m # i => o = n)
    BY <1>7
  <2>3. j = m /\ l = o
    <3>1. chain[j][l] = chain[m][o]
      BY <2>1, <2>2
    <3>2. QED
      BY <3>1, OnceInChains DEF OnePlace
  <2>4. QED
    BY <2>1, <2>2, <2>3
<1>11. fate[Head(chain[i])] = "chained"
  BY <1>3, <1>6 DEF OnePlace, Chained
<1>12. QED
  BY <1>3, <1>4, <1>5, <1>9, <1>10, <1>11 DEF Chained

LEMMA ChainGrows ==
  ASSUME OnePlace, NEW i \in Instances, NEW t \in Texts, Enqueue(i, t), fate[t] # "chained"
  PROVE  /\ Chained' /\ Chains' /\ chain' \in [Instances -> Seq(Texts)]
<1>1. /\ chain \in [Instances -> Seq(Texts)]
      /\ \A j \in Instances : cont[j] # "idle" => chain[j] # <<>>
  BY DEF OnePlace, TypeOK
<1>2. /\ chain' = [chain EXCEPT ![i] = Append(chain[i], t)] /\ cont' = cont
      /\ MoveTo(t, "chained")
  BY DEF Enqueue
<1>3. fate'[t] = "chained" /\ \A u \in Texts \ {t} : fate'[u] = fate[u]
  BY <1>2, MovedFacts DEF OnePlace, Fates
<1>4. /\ Append(chain[i], t) \in Seq(Texts) /\ Append(chain[i], t) # <<>>
      /\ Len(Append(chain[i], t)) = Len(chain[i]) + 1 /\ Append(chain[i], t)[Len(chain[i]) + 1] = t
      /\ \A k \in 1..Len(chain[i]) : Append(chain[i], t)[k] = chain[i][k]
  BY <1>1, AppendFacts
<1>5. \A j \in Instances : Len(chain[j]) \in Nat /\ \A l \in 1..Len(chain[j]) :
        chain[j][l] \in Texts /\ chain[j][l] # t /\ fate[chain[j][l]] = "chained"
  BY <1>1 DEF OnePlace, Chained
<1>6. \A j \in Instances : \A k \in 1..Len(chain'[j]) :
        \/ k \in 1..Len(chain[j]) /\ chain'[j][k] = chain[j][k]
        \/ j = i /\ k = Len(chain[i]) + 1 /\ chain'[j][k] = t
  BY <1>1, <1>2, <1>4, <1>5
<1>7. \A j \in Instances : \A k \in 1..Len(chain'[j]) : fate'[chain'[j][k]] = "chained"
  BY <1>3, <1>5, <1>6
<1>8. \A j, m \in Instances : \A k \in 1..Len(chain'[j]), n \in 1..Len(chain'[m]) :
        chain'[j][k] = chain'[m][n] => j = m /\ k = n
  <2> SUFFICES ASSUME NEW j \in Instances, NEW m \in Instances, NEW k \in 1..Len(chain'[j]),
                      NEW n \in 1..Len(chain'[m]), chain'[j][k] = chain'[m][n]
               PROVE  j = m /\ k = n
    OBVIOUS
  <2>1. \/ n \in 1..Len(chain[m]) /\ chain'[m][n] = chain[m][n]
        \/ m = i /\ n = Len(chain[i]) + 1 /\ chain'[m][n] = t
    BY <1>6
  <2>2. CASE k \in 1..Len(chain[j]) /\ chain'[j][k] = chain[j][k]
    <3>1. n \in 1..Len(chain[m]) /\ chain'[m][n] = chain[m][n]
      BY <2>2, <2>1, <1>5
    <3>2. chain[j][k] = chain[m][n] /\ k \in 1..Len(chain[j])
      BY <2>2, <3>1
    <3>3. QED
      BY <3>1, <3>2, OnceInChains DEF OnePlace
  <2>3. CASE j = i /\ k = Len(chain[i]) + 1 /\ chain'[j][k] = t
    <3>1. m = i /\ n = Len(chain[i]) + 1
      BY <2>3, <1>5, <1>6
    <3>2. QED
      BY <2>3, <3>1
  <2>4. QED
    BY <2>2, <2>3, <1>6
<1>9. Chains' /\ chain' \in [Instances -> Seq(Texts)]
  BY <1>1, <1>2, <1>4 DEF Chains
<1>10. QED
  BY <1>7, <1>8, <1>9 DEF Chained

LEMMA CarriedKept ==
  ASSUME OnePlace, \A i \in Instances : ToSay(i)' => ToSay(i) /\ carry'[i] = carry[i],
         \A i \in Instances : HasSaid(i)' => HasSaid(i) /\ carry'[i] = carry[i],
         \A t \in Texts : fate[t] = "carried" => fate'[t] = "carried",
         \A t \in Texts : fate[t] \in Final => fate'[t] \in Final
  PROVE  Carried'
<1>1. \A i \in Instances : carry[i] # None => carry[i] \in Texts
  BY DEF OnePlace, TypeOK
<1>2. \A i \in Instances : /\ ToSay(i) => fate'[carry[i]] = "carried"
                           /\ HasSaid(i) => fate'[carry[i]] \in Final
  BY <1>1 DEF OnePlace, Carried, ToSay, HasSaid
<1>3. QED
  BY <1>2 DEF OnePlace, Carried
LEMMA Assemble ==
  ASSUME Shapes', Looping', Chains', InSlot', Chained', Carried', OpInv' PROVE OnePlace'
BY DEF OnePlace, TypeOK, Shapes, Looping, Chains, InSlot

(* Nothing moves. *)
LEMMA PlaceKept ==
  ASSUME OnePlace, UNCHANGED <<fate, slot, chain, carry>>,
         \A i \in Instances : stage'[i] = stage[i] \/ stage'[i] \in {"made", "asking", "settled"}
  PROVE  InSlot' /\ Chained' /\ Carried'
<1>1. InSlot'
  BY DEF OnePlace, TypeOK, InSlot
<1>2. Chained'
  BY ChainsKept
<1>3. Carried'
  BY CarriedKept DEF ToSay, HasSaid
<1>4. QED
  BY <1>1, <1>2, <1>3

LEMMA CancelRestoresPlace ==
  ASSUME OnePlace, NEW c \in Ops, CancelRestores(c) PROVE OnePlace'
<1> USE DEF CancelRestores, topVars, loopVars, chainVars, slotVars, textVars, scenVars
<1>1. TypeOK /\ OpInv
  BY DEF OnePlace
<1>2. (top' = top /\ UNCHANGED <<streaming, cancelled>>) \/ (top' = None /\ Abort({top}))
  OBVIOUS
<1>3. /\ top' \in Instances \cup {None} /\ cancelled' \in [Instances -> BOOLEAN]
      /\ streaming' \in BOOLEAN
  BY <1>1, <1>2, AbortTypes DEF TypeOK
<1>4. PICK s \in {"aborting", "restoring", "done"} : OpGoto(c, s)
  OBVIOUS
<1>5. /\ opAt' \in [Ops -> {"free", "aborting", "restoring", "done"}]
      /\ opOf' \in [Ops -> Instances \cup {None}]
      /\ \A d \in Ops : opAt'[d] \in {"aborting", "restoring"} => opOf'[d] \in Instances
  BY <1>1, <1>4, OpGotoTypes
<1>6. Shapes'
  BY <1>1, <1>3, <1>5 DEF Shapes, TypeOK
<1>7. Looping' /\ Chains'
  BY <1>1 DEF Looping, Chains, TypeOK
<1>8. InSlot' /\ Chained' /\ Carried'
  BY PlaceKept
<1>9. OpInv'
  BY <1>1, <1>2, <1>5, Numbers DEF OpInv
<1>10. QED
  BY <1>6, <1>7, <1>8, <1>9, Assemble

(* A fresh task has said its message and has one loop. *)
LEMMA FreshTaskPlace ==
  ASSUME OnePlace, NEW t \in Texts, FreshTask(t),
         \/ slot = t /\ Consume
         \/ fate[t] = "unsent" /\ UNCHANGED <<slot, guard>>,
         UNCHANGED <<chain, cont, completed>>, scenario' = scenario, presses' = presses,
         opAt' \in [Ops -> {"free", "aborting", "restoring", "done"}],
         opOf' \in [Ops -> Instances \cup {None}],
         \A d \in Ops : opAt'[d] \in {"aborting", "restoring"} => opOf'[d] \in Instances
  PROVE  OnePlace'
<1>1. /\ Said(t, top') /\ top' \in Instances /\ stage[top'] = "none"
      /\ task' \in [Instances -> Instances \cup {None}] /\ UNCHANGED <<carry, own, soft>>
      /\ cancelled' \in [Instances -> BOOLEAN] /\ streaming' \in BOOLEAN
      /\ stage' = [stage EXCEPT ![top'] = "settled"]
      /\ loops' = [loops EXCEPT ![top'] = {1}] /\ gen' = [gen EXCEPT ![top'] = 1]
      /\ loops' \in [Instances -> SUBSET (1..MaxLoops)] /\ gen' \in [Instances -> 0..MaxLoops]
  BY FreshTaskFacts
<1>2. TypeOK /\ OpInv
  BY DEF OnePlace
<1>3. /\ fate' \in [Texts -> Fates] /\ room' \in [Texts -> Instances \cup {None}]
      /\ \A u \in Texts \ {t} : fate'[u] = fate[u]
      /\ fate'[t] = "said" /\ fate[t] \in {"unsent", "parked"}
  <2>1. fate[t] \in {"unsent", "parked"}
    BY <1>2 DEF TypeOK
  <2>2. QED
    BY <1>1, <1>2, <2>1, SaidFacts
<1>4. /\ slot' \in Texts \cup {None} /\ guard' \in {"off"} \cup Guards
      /\ slot' = None \/ (fate[t] = "unsent" /\ slot' = slot)
      /\ slot' = None => slot \in {t, None}
  BY <1>2 DEF Consume, TypeOK
<1>5. Shapes'
  <2>1. /\ stage' \in [Instances -> {"none", "made", "restoring", "asking", "resumed", "feeding",
                                     "looping", "settled"}]
    BY <1>1, <1>2 DEF TypeOK
  <2>2. QED
    BY <1>1, <1>2, <1>3, <1>4, <2>1 DEF Shapes, TypeOK
<1>6. Looping'
  BY <1>1, <1>2, Numbers DEF Looping, TypeOK
<1>7. Chains'
  BY <1>2 DEF Chains, TypeOK
<1>8. InSlot'
  BY <1>2, <1>3, <1>4, Numbers DEF InSlot, TypeOK
<1>9. Chained'
  BY <1>3, ChainsKept
<1>10. Carried'
  BY <1>1, <1>2, <1>3, CarriedKept DEF ToSay, HasSaid, Final, TypeOK
<1>11. OpInv'
  BY <1>1, <1>2 DEF OpInv, TypeOK
<1>12. QED
  BY <1>5, <1>6, <1>7, <1>8, <1>9, <1>10, <1>11, Assemble

LEMMA CancelWithoutHistoryPlace ==
  ASSUME OnePlace, NEW c \in Ops, CancelWithoutHistory(c) PROVE OnePlace'
<1> USE DEF CancelWithoutHistory, topVars, loopVars, chainVars, slotVars, textVars
<1>1. TypeOK /\ OpInv
  BY DEF OnePlace
<1>2. /\ opAt' \in [Ops -> {"free", "aborting", "restoring", "done"}]
      /\ opOf' \in [Ops -> Instances \cup {None}]
      /\ \A d \in Ops : opAt'[d] \in {"aborting", "restoring"} => opOf'[d] \in Instances
  BY <1>1, OpGotoTypes
<1>3. CASE slot # None
  <2>1. slot \in Texts /\ FreshTask(slot) /\ Consume
    BY <1>1, <1>3 DEF TypeOK
  <2>2. QED
    BY <1>2, <2>1, FreshTaskPlace DEF scenVars
<1>4. CASE slot = None
  <2>1. /\ top' = None /\ cancelled' \in [Instances -> BOOLEAN] /\ streaming' \in BOOLEAN
        /\ slot' = slot /\ guard' = "off"
    BY <1>1, <1>4, AbortTypes DEF Consume
  <2>2. Shapes'
    BY <1>1, <1>2, <1>4, <2>1 DEF Shapes, TypeOK, scenVars
  <2>3. Looping' /\ Chains'
    BY <1>1, <1>4 DEF Looping, Chains, TypeOK
  <2>4. InSlot' /\ Chained' /\ Carried'
    BY <1>4, <2>1, PlaceKept
  <2>5. OpInv'
    BY <1>2, <2>1, Numbers DEF OpInv
  <2>6. QED
    BY <2>2, <2>3, <2>4, <2>5, Assemble
<1>5. QED
  BY <1>3, <1>4

LEMMA InstallPlace ==
  ASSUME OnePlace, NEW c \in Ops, Install(c) PROVE OnePlace'
<1> USE DEF Install, topVars, loopVars, chainVars, slotVars, textVars
<1>1. TypeOK /\ OpInv
  BY DEF OnePlace
<1>2. /\ opAt' \in [Ops -> {"free", "aborting", "restoring", "done"}]
      /\ opOf' \in [Ops -> Instances \cup {None}]
      /\ \A d \in Ops : opAt'[d] \in {"aborting", "restoring"} => opOf'[d] \in Instances
  BY <1>1, OpGotoTypes
<1>3. PICK j \in Instances : /\ stage[j] = "none" /\ top' = j /\ streaming' = FALSE
                             /\ stage' = [stage EXCEPT ![j] = "made"]
                             /\ task' = [task EXCEPT ![j] = task[opOf[c]]]
  BY DEF IsNext, Stage
<1>4. opOf[c] \in Instances
  BY <1>1 DEF OpInv
<1>5. /\ task' \in [Instances -> Instances \cup {None}]
      /\ stage' \in [Instances -> {"none", "made", "restoring", "asking", "resumed", "feeding",
                                   "looping", "settled"}]
  BY <1>1, <1>3, <1>4 DEF TypeOK
<1>6. Shapes'
  BY <1>1, <1>2, <1>3, <1>5 DEF Shapes, TypeOK, scenVars
<1>7. Looping' /\ Chains'
  BY <1>1, <1>3 DEF Looping, Chains, TypeOK
<1>8. InSlot' /\ Chained' /\ Carried'
  <2>1. \A i \in Instances : stage'[i] = stage[i] \/ stage'[i] \in {"made", "asking", "settled"}
    BY <1>1, <1>3 DEF TypeOK
  <2>2. QED
    BY <2>1, PlaceKept
<1>9. OpInv'
  BY <1>1, <1>2, <1>3 DEF OpInv, TypeOK
<1>10. QED
  BY <1>6, <1>7, <1>8, <1>9, Assemble
LEMMA StageTypes ==
  ASSUME TypeOK, NEW i \in Instances,
         NEW s \in {"made", "restoring", "asking", "resumed", "feeding", "looping", "settled"},
         Stage(i, s)
  PROVE  /\ stage' \in [Instances -> {"none", "made", "restoring", "asking", "resumed", "feeding",
                                      "looping", "settled"}]
         /\ stage'[i] = s /\ \A j \in Instances \ {i} : stage'[j] = stage[j]
BY DEF TypeOK, Stage

LEMMA ResumePlace ==
  ASSUME OnePlace, NEW i \in Instances, Resume(i) PROVE OnePlace'
<1> USE DEF Resume, topVars, loopVars, chainVars, opVars, textVars, scenVars
<1>1. TypeOK /\ OpInv /\ slot' = None /\ guard' = "off"
  BY DEF OnePlace, Consume
<1>2. /\ stage' \in [Instances -> {"none", "made", "restoring", "asking", "resumed", "feeding",
                                   "looping", "settled"}]
      /\ stage'[i] = "restoring" /\ \A j \in Instances \ {i} : stage'[j] = stage[j]
  BY <1>1, StageTypes
<1>3. /\ carry' \in [Instances -> Texts \cup {None}] /\ cancelled' \in [Instances -> BOOLEAN]
      /\ carry'[i] = slot /\ \A j \in Instances \ {i} : carry'[j] = carry[j]
  BY <1>1 DEF TypeOK
<1>4. /\ fate' \in [Texts -> Fates] /\ room' = room
      /\ \A t \in Texts : fate'[t] = IF t = slot THEN "carried" ELSE fate[t]
      /\ \A t \in Texts : fate[t] = "parked" <=> t = slot
  <2>1. CASE slot = None
    BY <1>1, <2>1, Numbers DEF TypeOK
  <2>2. CASE slot # None
    <3>1. slot \in Texts /\ MoveTo(slot, "carried")
      BY <1>1, <2>2 DEF TypeOK
    <3>2. QED
      BY <1>1, <3>1, MovedFacts DEF TypeOK, Fates
  <2>3. QED
    BY <2>1, <2>2
<1>5. Shapes'
  BY <1>1, <1>2, <1>3, <1>4 DEF Shapes, TypeOK
<1>6. Looping' /\ Chains'
  BY <1>1, <1>2 DEF Looping, Chains, TypeOK
<1>7. InSlot'
  BY <1>1, <1>4, Numbers DEF InSlot
<1>8. Chained'
  BY <1>4, ChainsKept
<1>9. Carried'
  <2>1. \A j \in Instances \ {i} : /\ ToSay(j)' => ToSay(j) /\ carry'[j] = carry[j]
                                   /\ HasSaid(j)' => HasSaid(j) /\ carry'[j] = carry[j]
    BY <1>2, <1>3 DEF ToSay, HasSaid
  <2>2. /\ ~HasSaid(i)' /\ (ToSay(i)' => slot # None /\ carry'[i] = slot)
    BY <1>2, <1>3 DEF ToSay, HasSaid
  <2>3. \A j \in Instances : /\ ToSay(j) => carry[j] \in Texts /\ fate[carry[j]] = "carried"
                             /\ HasSaid(j) => carry[j] \in Texts /\ fate[carry[j]] \in Final
    BY <1>1 DEF OnePlace, Carried, ToSay, HasSaid, TypeOK
  <2>4. slot # None => slot \in Texts /\ fate[slot] = "parked" /\ fate'[slot] = "carried"
    BY <1>1, <1>4 DEF TypeOK
  <2>5. \A j \in Instances : /\ ToSay(j)' => fate'[carry'[j]] = "carried"
                             /\ HasSaid(j)' => fate'[carry'[j]] \in Final
    BY <1>4, <2>1, <2>2, <2>3, <2>4 DEF Final
  <2>6. \A j, k \in Instances : ToSay(j)' /\ ToSay(k)' /\ carry'[j] = carry'[k] => j = k
    BY <2>1, <2>2, <2>3, <2>4 DEF OnePlace, Carried
  <2>7. QED
    BY <2>5, <2>6 DEF Carried
<1>10. OpInv'
  BY <1>1, <1>2 DEF OpInv
<1>11. QED
  BY <1>5, <1>6, <1>7, <1>8, <1>9, <1>10, Assemble

LEMMA ResumeQuietPlace ==
  ASSUME OnePlace, NEW i \in Instances, ResumeElsewhere(i) \/ ResumeAsks(i) PROVE OnePlace'
<1> USE DEF ResumeElsewhere, ResumeAsks, topVars, loopVars, chainVars, slotVars, opVars, textVars,
            scenVars
<1>1. TypeOK /\ OpInv
  BY DEF OnePlace
<1>2. PICK s \in {"asking", "settled"} : Stage(i, s)
  OBVIOUS
<1>3. /\ stage' \in [Instances -> {"none", "made", "restoring", "asking", "resumed", "feeding",
                                   "looping", "settled"}]
      /\ stage'[i] = s /\ \A j \in Instances \ {i} : stage'[j] = stage[j]
  BY <1>1, <1>2, StageTypes
<1>4. Shapes'
  BY <1>1, <1>3 DEF Shapes, TypeOK
<1>5. Looping' /\ Chains'
  BY <1>1, <1>3 DEF Looping, Chains, TypeOK
<1>6. InSlot' /\ Chained' /\ Carried'
  BY <1>3, PlaceKept
<1>7. OpInv'
  BY <1>1, <1>3 DEF OpInv
<1>8. QED
  BY <1>4, <1>5, <1>6, <1>7, Assemble

LEMMA ResumeThrowsPlace ==
  ASSUME OnePlace, NEW i \in Instances, ResumeThrows(i) PROVE OnePlace'
<1> USE DEF ResumeThrows, chainVars, slotVars, opVars, scenVars
<1>1. TypeOK /\ OpInv
  BY DEF OnePlace
<1>2. PICK j \in Instances :
        /\ stage[j] = "none" /\ top' = j /\ Abort({top}) /\ task' = [task EXCEPT ![j] = j]
        /\ stage' = [stage EXCEPT ![i] = "settled", ![j] = "settled"]
        /\ loops' = [loops EXCEPT ![i] = @ \ {own[i]}, ![j] = {1}]
        /\ gen' = [gen EXCEPT ![j] = 1] /\ Said(carry[i], j)
  BY DEF IsNext
<1>3. carry[i] \in Texts /\ stage[i] \in {"restoring", "looping"}
  BY <1>1 DEF TypeOK
<1>4. /\ fate' \in [Texts -> Fates] /\ room' \in [Texts -> Instances \cup {None}]
      /\ \A u \in Texts \ {carry[i]} : fate'[u] = fate[u]
      /\ fate'[carry[i]] = IF fate[carry[i]] \in {"said", "answered"} THEN "twice" ELSE "said"
  BY <1>1, <1>2, <1>3, SaidFacts
<1>5. fate[carry[i]] \in {"carried"} \cup Final /\ fate'[carry[i]] \in Final
  BY <1>3, <1>4 DEF OnePlace, Carried, ToSay, HasSaid, Final
<1>6. cancelled' \in [Instances -> BOOLEAN] /\ streaming' \in BOOLEAN
  BY <1>1, <1>2, AbortTypes
<1>0. i # j
  BY <1>2, <1>3
<1>7. /\ stage' \in [Instances -> {"none", "made", "restoring", "asking", "resumed", "feeding",
                                   "looping", "settled"}]
      /\ stage'[i] = "settled" /\ stage'[j] = "settled"
      /\ \A k \in Instances \ {i, j} : stage'[k] = stage[k]
  <2>1. stage' = [[stage EXCEPT ![i] = "settled"] EXCEPT ![j] = "settled"]
    BY <1>2
  <2>2. stage \in [Instances -> {"none", "made", "restoring", "asking", "resumed", "feeding",
                                 "looping", "settled"}]
    BY <1>1 DEF TypeOK
  <2>3. QED
    BY <1>0, <2>1, <2>2
<1>8. /\ loops' \in [Instances -> SUBSET (1..MaxLoops)] /\ gen' \in [Instances -> 0..MaxLoops]
      /\ loops'[j] = {1} /\ gen'[j] = 1 /\ loops'[i] \subseteq loops[i] /\ gen'[i] = gen[i]
      /\ \A k \in Instances \ {i, j} : loops'[k] = loops[k] /\ gen'[k] = gen[k]
  <2>1. loops \in [Instances -> SUBSET (1..MaxLoops)] /\ gen \in [Instances -> 0..MaxLoops]
    BY <1>1 DEF TypeOK
  <2>2. loops' = [[loops EXCEPT ![i] = loops[i] \ {own[i]}] EXCEPT ![j] = {1}]
    BY <1>2
  <2>3. QED
    BY <1>0, <1>2, <2>1, <2>2, Numbers
<1>9. task' \in [Instances -> Instances \cup {None}]
  BY <1>1, <1>2 DEF TypeOK
<1>10. Shapes'
  <2>1. /\ UNCHANGED <<carry, own, soft, completed, chain, cont, slot, guard, opAt, opOf, scenario,
                       presses>>
        /\ top' \in Instances
    BY <1>2
  <2>2. QED
    BY ONLY <1>1, <2>1, <1>4, <1>6, <1>7, <1>8, <1>9 DEF Shapes, TypeOK
<1>11. Looping'
  <2>1. \A k \in Instances : loops'[k] \subseteq 1..gen'[k]
    <3>1. \A k \in Instances : loops[k] \subseteq 1..gen[k]
      BY <1>1 DEF TypeOK
    <3>2. loops'[j] \subseteq 1..gen'[j]
      BY <1>8
    <3>3. loops'[i] \subseteq 1..gen'[i]
      BY <1>8, <3>1
    <3>4. QED
      BY ONLY <1>8, <3>1, <3>2, <3>3
  <2>2. \A k \in Instances : stage'[k] = "looping" => own'[k] \in loops'[k]
    BY <1>1, <1>7, <1>8 DEF TypeOK
  <2>3. QED
    BY <2>1, <2>2 DEF Looping
<1>12. Chains'
  BY <1>1 DEF Chains, TypeOK
<1>13. InSlot'
  <2>1. \A u \in Texts : fate'[u] = "parked" <=> fate[u] = "parked"
    BY <1>3, <1>4, <1>5 DEF Final
  <2>2. QED
    BY <1>1, <2>1 DEF InSlot, TypeOK
<1>14. Chained'
  BY <1>4, <1>5, ChainsKept DEF Final
<1>15. Carried'
  <2>1. \A k \in Instances : /\ ToSay(k)' => ToSay(k) /\ k # i
                             /\ HasSaid(k)' => HasSaid(k)
    BY <1>2, <1>7 DEF ToSay, HasSaid
  <2>2. \A k \in Instances : ToSay(k)' => fate'[carry[k]] = "carried"
    <3> SUFFICES ASSUME NEW k \in Instances, ToSay(k)' PROVE fate'[carry[k]] = "carried"
      OBVIOUS
    <3>1. carry[k] \in Texts /\ fate[carry[k]] = "carried" /\ k # i /\ ToSay(k)
      BY <1>1, <2>1 DEF OnePlace, Carried, ToSay, TypeOK
    <3>2. carry[k] # carry[i]
      BY <1>3, <3>1 DEF OnePlace, Carried, ToSay, HasSaid, Final
    <3>3. QED
      BY <1>4, <3>1, <3>2
  <2>3. \A k \in Instances : HasSaid(k)' => fate'[carry[k]] \in Final
    <3> SUFFICES ASSUME NEW k \in Instances, HasSaid(k)' PROVE fate'[carry[k]] \in Final
      OBVIOUS
    <3>1. carry[k] \in Texts /\ fate[carry[k]] \in Final
      BY <1>1, <2>1 DEF OnePlace, Carried, HasSaid, TypeOK
    <3>2. QED
      BY <1>4, <1>5, <3>1
  <2>4. QED
    BY <2>1, <2>2, <2>3 DEF Carried, OnePlace
<1>16. OpInv'
  BY <1>1, <1>2, <1>7 DEF OpInv
<1>17. QED
  BY <1>10, <1>11, <1>12, <1>13, <1>14, <1>15, <1>16, Assemble
(* What a restoration takes from a message: it has said it, or has lost it. *)
LEMMA ResumeSaysPlace ==
  ASSUME OnePlace, NEW i \in Instances, ResumeSays(i) PROVE OnePlace'
<1> USE DEF ResumeSays, topVars, loopVars, chainVars, slotVars, opVars, scenVars
<1>1. TypeOK /\ OpInv
  BY DEF OnePlace
<1>2. carry[i] \in Texts /\ ToSay(i) /\ fate[carry[i]] = "carried"
  BY <1>1 DEF TypeOK, ToSay, OnePlace, Carried
<1>3. PICK s \in {"feeding", "settled"} :
        /\ Stage(i, s)
        /\ \/ s = "settled" /\ MoveTo(carry[i], "lost")
           \/ s = "feeding" /\ Said(carry[i], task[i])
  OBVIOUS
<1>4. /\ stage' \in [Instances -> {"none", "made", "restoring", "asking", "resumed", "feeding",
                                   "looping", "settled"}]
      /\ stage'[i] = s /\ \A j \in Instances \ {i} : stage'[j] = stage[j]
  BY <1>1, <1>3, StageTypes
<1>5. /\ fate' \in [Texts -> Fates] /\ room' \in [Texts -> Instances \cup {None}]
      /\ \A u \in Texts \ {carry[i]} : fate'[u] = fate[u]
      /\ fate'[carry[i]] \in {"said", "lost"}
  <2>1. CASE MoveTo(carry[i], "lost")
    BY <1>1, <1>2, <2>1, MovedFacts DEF Fates, TypeOK
  <2>2. CASE Said(carry[i], task[i])
    <3>1. task[i] \in Instances \cup {None}
      BY <1>1 DEF TypeOK
    <3>2. QED
      BY <1>1, <1>2, <2>2, <3>1, SaidFacts
  <2>3. QED
    BY <1>3, <2>1, <2>2
<1>6. /\ carry' \in [Instances -> Texts \cup {None}] /\ carry'[i] \in {carry[i], None}
      /\ \A j \in Instances \ {i} : carry'[j] = carry[j]
  BY <1>1 DEF TypeOK
<1>7. Shapes'
  BY <1>1, <1>4, <1>5, <1>6 DEF Shapes, TypeOK
<1>8. Looping' /\ Chains'
  BY <1>1, <1>3, <1>4 DEF Looping, Chains, TypeOK
<1>9. InSlot'
  <2>1. \A u \in Texts : fate'[u] = "parked" <=> fate[u] = "parked"
    BY <1>2, <1>5
  <2>2. QED
    BY <1>1, <2>1 DEF InSlot, TypeOK
<1>10. Chained'
  BY <1>2, <1>5, ChainsKept
<1>11. Carried'
  <2>1. \A k \in Instances : ToSay(k)' => ToSay(k) /\ k # i /\ carry'[k] = carry[k]
    BY <1>3, <1>4, <1>6 DEF ToSay
  <2>2. \A k \in Instances : HasSaid(k)' => \/ k = i /\ carry'[k] = carry[i]
                                            \/ k # i /\ HasSaid(k) /\ carry'[k] = carry[k]
    BY <1>4, <1>6 DEF HasSaid
  <2>3. \A k \in Instances : ToSay(k)' => fate'[carry'[k]] = "carried"
    <3> SUFFICES ASSUME NEW k \in Instances, ToSay(k)' PROVE fate'[carry'[k]] = "carried"
      OBVIOUS
    <3>1. carry[k] \in Texts /\ fate[carry[k]] = "carried" /\ k # i /\ ToSay(k)
      BY <1>1, <2>1 DEF OnePlace, Carried, ToSay, TypeOK
    <3>2. carry[k] # carry[i]
      BY <1>2, <3>1 DEF OnePlace, Carried
    <3>3. QED
      BY <1>5, <2>1, <3>1, <3>2
  <2>4. \A k \in Instances : HasSaid(k)' => fate'[carry'[k]] \in Final
    <3> SUFFICES ASSUME NEW k \in Instances, HasSaid(k)' PROVE fate'[carry'[k]] \in Final
      OBVIOUS
    <3>1. CASE k = i /\ carry'[k] = carry[i]
      BY <3>1, <1>5 DEF Final
    <3>2. CASE k # i /\ HasSaid(k) /\ carry'[k] = carry[k]
      <4>1. carry[k] \in Texts /\ fate[carry[k]] \in Final
        BY <1>1, <3>2 DEF OnePlace, Carried, HasSaid, TypeOK
      <4>2. QED
        BY <1>2, <1>5, <3>2, <4>1 DEF Final
    <3>3. QED
      BY <2>2, <3>1, <3>2
  <2>5. \A j, k \in Instances : ToSay(j)' /\ ToSay(k)' /\ carry'[j] = carry'[k] => j = k
    BY <2>1 DEF Carried, OnePlace
  <2>6. QED
    BY <2>3, <2>4, <2>5 DEF Carried
<1>12. OpInv'
  BY <1>1, <1>3, <1>4 DEF OpInv
<1>13. QED
  BY <1>7, <1>8, <1>9, <1>10, <1>11, <1>12, Assemble

(* A loop that starts has the number of its generation. *)
LEMMA StartLoopTypes ==
  ASSUME TypeOK, NEW i \in Instances, StartLoop(i)
  PROVE  /\ gen' \in [Instances -> 0..MaxLoops] /\ loops' \in [Instances -> SUBSET (1..MaxLoops)]
         /\ \A j \in Instances : loops'[j] \subseteq 1..gen'[j] /\ loops[j] \subseteq loops'[j]
         /\ \A j \in Instances \ {i} : loops'[j] = loops[j] /\ gen'[j] = gen[j]
         /\ ~cancelled[i] => gen'[i] \in loops'[i]
<1>1. /\ gen \in [Instances -> 0..MaxLoops] /\ loops \in [Instances -> SUBSET (1..MaxLoops)]
      /\ \A j \in Instances : loops[j] \subseteq 1..gen[j]
  BY DEF TypeOK
<1>2. CASE cancelled[i]
  BY <1>1, <1>2 DEF StartLoop
<1>3. CASE ~cancelled[i]
  <2>1. /\ gen[i] < MaxLoops /\ gen' = [gen EXCEPT ![i] = gen[i] + 1]
        /\ loops' = [loops EXCEPT ![i] = loops[i] \cup {gen[i] + 1}]
    BY <1>3 DEF StartLoop
  <2>2. gen[i] + 1 \in 1..MaxLoops
    BY <1>1, <2>1, Numbers
  <2>3. gen' \in [Instances -> 0..MaxLoops] /\ loops' \in [Instances -> SUBSET (1..MaxLoops)]
    BY <1>1, <2>1, <2>2
  <2>4. loops'[i] = loops[i] \cup {gen[i] + 1} /\ gen'[i] = gen[i] + 1
    BY <1>1, <2>1
  <2>5. loops'[i] \subseteq 1..gen'[i]
    BY <1>1, <2>2, <2>4
  <2>6. \A j \in Instances \ {i} : loops'[j] = loops[j] /\ gen'[j] = gen[j]
    BY <1>1, <2>1
  <2>7. QED
    BY <1>1, <2>3, <2>4, <2>5, <2>6
<1>4. QED
  BY <1>2, <1>3

LEMMA ResumeLoopsPlace ==
  ASSUME OnePlace, NEW i \in Instances, ResumeLoops(i) PROVE OnePlace'
<1> USE DEF ResumeLoops, topVars, chainVars, slotVars, opVars, textVars, scenVars
<1>1. TypeOK /\ OpInv
  BY DEF OnePlace
<1>2. PICK s \in {"settled", "looping"} : Stage(i, s) /\ (s = "looping" => ~cancelled[i])
  OBVIOUS
<1>3. /\ stage' \in [Instances -> {"none", "made", "restoring", "asking", "resumed", "feeding",
                                   "looping", "settled"}]
      /\ stage'[i] = s /\ \A j \in Instances \ {i} : stage'[j] = stage[j]
  BY <1>1, <1>2, StageTypes
<1>4. /\ gen' \in [Instances -> 0..MaxLoops] /\ loops' \in [Instances -> SUBSET (1..MaxLoops)]
      /\ \A j \in Instances : loops'[j] \subseteq 1..gen'[j] /\ loops[j] \subseteq loops'[j]
      /\ \A j \in Instances \ {i} : loops'[j] = loops[j] /\ gen'[j] = gen[j]
      /\ ~cancelled[i] => gen'[i] \in loops'[i]
  BY <1>1, StartLoopTypes
<1>5. /\ own' \in [Instances -> 0..MaxLoops] /\ own'[i] = gen'[i]
      /\ \A j \in Instances \ {i} : own'[j] = own[j]
  BY <1>1, <1>4 DEF TypeOK
<1>6. Shapes'
  BY <1>1, <1>3, <1>4, <1>5 DEF Shapes, TypeOK
<1>7. Looping'
  BY <1>1, <1>2, <1>3, <1>4, <1>5 DEF Looping, TypeOK
<1>8. Chains' /\ InSlot'
  BY <1>1 DEF Chains, InSlot, TypeOK
<1>9. Chained'
  BY ChainsKept
<1>10. Carried'
  BY <1>3, CarriedKept DEF ToSay, HasSaid
<1>11. OpInv'
  BY <1>1, <1>3 DEF OpInv
<1>12. QED
  BY <1>6, <1>7, <1>8, <1>9, <1>10, <1>11, Assemble

(* Loops that work, stream, complete or end. *)
LEMMA LoopPlace ==
  ASSUME OnePlace, NEW i \in Instances, StreamStarts \/ StreamEnds \/ Works(i) PROVE OnePlace'
<1> USE DEF StreamStarts, StreamEnds, Works, topVars, instVars, loopVars, chainVars, slotVars,
            opVars, textVars, scenVars
<1>1. TypeOK /\ OpInv /\ UNCHANGED <<top, task, stage, carry, own, cancelled, loops, gen, soft,
                                     chain, cont, slot, guard, opAt, opOf, fate, room, scenario,
                                     presses>>
  BY DEF OnePlace
<1>2. streaming' \in BOOLEAN /\ completed' \in [Instances -> BOOLEAN]
  BY <1>1 DEF TypeOK
<1>3. Shapes' /\ Looping' /\ Chains'
  BY ONLY <1>1, <1>2 DEF Shapes, Looping, Chains, TypeOK
<1>4. InSlot' /\ Chained' /\ Carried'
  BY <1>1, PlaceKept
<1>5. OpInv'
  BY <1>1 DEF OpInv
<1>6. QED
  BY <1>3, <1>4, <1>5, Assemble

LEMMA CompletesPlace ==
  ASSUME OnePlace, NEW i \in Instances, Completes(i) PROVE OnePlace'
<1> USE DEF Completes, topVars, instVars, chainVars, slotVars, opVars, scenVars
<1>1. TypeOK /\ OpInv /\ UNCHANGED <<top, streaming, task, stage, carry, own, cancelled, loops, gen,
                                     chain, cont, slot, guard, opAt, opOf, room, scenario, presses>>
  BY DEF OnePlace
<1>2. /\ soft' \in [Instances -> BOOLEAN] /\ completed' \in [Instances -> BOOLEAN]
      /\ fate' \in [Texts -> Fates]
  BY <1>1 DEF TypeOK, Fates
<1>3. \A t \in Texts : fate'[t] = fate[t] \/ (fate[t] = "said" /\ fate'[t] = "answered")
  OBVIOUS
<1>4. Shapes' /\ Looping' /\ Chains'
  BY ONLY <1>1, <1>2 DEF Shapes, Looping, Chains, TypeOK
<1>5. InSlot'
  <2>1. \A u \in Texts : fate'[u] = "parked" <=> fate[u] = "parked"
    BY <1>3
  <2>2. QED
    BY <1>1, <2>1 DEF InSlot, TypeOK
<1>6. Chained'
  BY <1>1, <1>3, ChainsKept
<1>7. Carried'
  BY <1>1, <1>3, CarriedKept DEF ToSay, HasSaid, Final
<1>8. OpInv'
  BY <1>1 DEF OpInv
<1>9. QED
  BY <1>4, <1>5, <1>6, <1>7, <1>8, Assemble

LEMMA LoopEndsPlace ==
  ASSUME OnePlace, NEW i \in Instances, LoopEnds(i) PROVE OnePlace'
<1> USE DEF LoopEnds, chainVars, slotVars, opVars, textVars, scenVars
<1>1. TypeOK /\ OpInv
  BY DEF OnePlace
<1>2. PICK g \in loops[i] :
        /\ loops' = [loops EXCEPT ![i] = loops[i] \ {g}]
        /\ soft' = [soft EXCEPT ![i] = soft[i] /\ g # gen[i]]
        /\ Stage(i, IF stage[i] = "looping" /\ g = own[i] THEN "settled" ELSE stage[i])
  OBVIOUS
<1>3. /\ stage' \in [Instances -> {"none", "made", "restoring", "asking", "resumed", "feeding",
                                   "looping", "settled"}]
      /\ stage'[i] = IF stage[i] = "looping" /\ g = own[i] THEN "settled" ELSE stage[i]
      /\ \A j \in Instances \ {i} : stage'[j] = stage[j]
  BY <1>1, <1>2 DEF Stage, TypeOK
<1>4. /\ loops' \in [Instances -> SUBSET (1..MaxLoops)] /\ soft' \in [Instances -> BOOLEAN]
      /\ loops'[i] = loops[i] \ {g} /\ \A j \in Instances \ {i} : loops'[j] = loops[j]
      /\ streaming' \in BOOLEAN
  BY <1>1, <1>2 DEF TypeOK
<1>5. Shapes'
  BY <1>1, <1>3, <1>4 DEF Shapes, TypeOK
<1>6. Looping' /\ Chains'
  BY <1>1, <1>3, <1>4 DEF Looping, Chains, TypeOK
<1>7. InSlot' /\ Chained' /\ Carried'
  BY <1>3, PlaceKept
<1>8. OpInv'
  BY <1>1, <1>3 DEF OpInv
<1>9. QED
  BY <1>5, <1>6, <1>7, <1>8, Assemble
-----------------------------------------------------------------------------
(* A message is parked while the task is replaced; what was in the slot is lost. *)
LEMMA ParkedPlace ==
  ASSUME OnePlace, NEW t \in Texts, Parked(t), StartCancel, UNCHANGED <<stage, carry>>,
         fate[t] \notin {"carried"} \cup Final
  PROVE  /\ InSlot' /\ Carried'
         /\ slot' \in Texts /\ guard' \in Guards /\ fate' \in [Texts -> Fates] /\ room' = room
         /\ \A u \in Texts \ {t} : fate[u] = "chained" => fate'[u] = "chained"
<1>1. /\ fate' \in [Texts -> Fates] /\ room' = room /\ slot' = t /\ guard' \in Guards
      /\ \A u \in Texts : fate'[u] = "parked" <=> slot' = u
      /\ fate'[t] = "parked" /\ \A u \in Texts \ {t} : u # slot => fate'[u] = fate[u]
      /\ \A u \in Texts \ {t} : u = slot => fate[u] = "parked" /\ fate'[u] = "lost"
  BY ParkedFacts DEF OnePlace
<1>2. Carried'
  BY <1>1, CarriedKept DEF ToSay, HasSaid, Final
<1>3. QED
  BY <1>1, <1>2 DEF InSlot

LEMMA ParkHeadPlace ==
  ASSUME OnePlace, NEW i \in Instances, chain[i] # <<>>, ParkHead(i),
         UNCHANGED <<top, task, stage, carry, own, loopVars, completed, scenVars>>
  PROVE  OnePlace'
<1> USE DEF ParkHead, loopVars, scenVars
<1>1. TypeOK /\ OpInv
  BY DEF OnePlace
<1>2. Head(chain[i]) \in Texts /\ fate[Head(chain[i])] = "chained"
  <2>1. /\ chain[i] \in Seq(Texts)
    BY <1>1 DEF TypeOK
  <2>2. Head(chain[i]) = chain[i][1] /\ Head(chain[i]) \in Texts /\ 1 \in 1..Len(chain[i])
    BY <2>1, TailFacts
  <2>3. QED
    BY <2>2 DEF OnePlace, Chained
<1>3. /\ InSlot' /\ Carried'
      /\ slot' \in Texts /\ guard' \in Guards /\ fate' \in [Texts -> Fates] /\ room' = room
      /\ \A u \in Texts \ {Head(chain[i])} : fate[u] = "chained" => fate'[u] = "chained"
  BY <1>2, ParkedPlace DEF Final
<1>4. /\ Chained' /\ Chains' /\ chain' \in [Instances -> Seq(Texts)]
      /\ cont' \in [Instances -> {"idle", "waiting", "setup"}]
  BY <1>3, ChainShrinks
<1>5. /\ opAt' \in [Ops -> {"free", "aborting", "restoring", "done"}]
      /\ opOf' \in [Ops -> Instances \cup {None}]
      /\ \A c \in Ops : opAt'[c] \in {"aborting", "restoring"} => opOf'[c] \in Instances
      /\ cancelled' \in [Instances -> BOOLEAN] /\ streaming' \in BOOLEAN
  BY <1>1, StartCancelTypes
<1>6. Shapes'
  BY <1>1, <1>3, <1>4, <1>5 DEF Shapes, TypeOK
<1>7. Looping' /\ OpInv'
  BY <1>1, <1>5 DEF Looping, OpInv, TypeOK
<1>8. QED
  BY <1>3, <1>4, <1>6, <1>7, Assemble

(* Nothing but how far the first message of a chain is. *)
LEMMA ContMovesPlace ==
  ASSUME OnePlace, NEW i \in Instances, NEW s \in {"waiting", "setup"}, Goto(i, s),
         chain[i] # <<>>,
         UNCHANGED <<topVars, instVars, loopVars, completed, chain, slotVars, opVars, textVars,
                     scenVars>>
  PROVE  OnePlace'
<1>1. TypeOK /\ OpInv /\ UNCHANGED <<top, streaming, task, stage, carry, own, cancelled, loops, gen,
                                     soft, completed, chain, slot, guard, opAt, opOf, fate, room,
                                     scenario, presses>>
  BY DEF OnePlace, topVars, instVars, loopVars, slotVars, opVars, textVars, scenVars
<1>2. /\ cont' \in [Instances -> {"idle", "waiting", "setup"}]
      /\ \A j \in Instances \ {i} : cont'[j] = cont[j]
  BY <1>1 DEF TypeOK, Goto
<1>3. Shapes' /\ Looping' /\ OpInv'
  BY ONLY <1>1, <1>2 DEF Shapes, Looping, OpInv, TypeOK
<1>4. Chains'
  BY <1>1, <1>2 DEF Chains, TypeOK
<1>5. InSlot' /\ Chained' /\ Carried'
  BY <1>1, PlaceKept
<1>6. QED
  BY <1>3, <1>4, <1>5, Assemble

LEMMA ContPlace ==
  ASSUME OnePlace, NEW i \in Instances, ContTakes(i) \/ ContWaited(i) \/ ContTimesOut(i)
  PROVE  OnePlace'
<1>1. cont[i] # "idle" => chain[i] # <<>>
  BY DEF OnePlace, TypeOK
<1>2. CASE ContTakes(i)
  <2>1. CASE ~soft[i] /\ LoopActive(i) /\ ~cancelled[i]
    BY <1>2, <2>1, ParkHeadPlace DEF ContTakes
  <2>2. CASE ~(~soft[i] /\ LoopActive(i) /\ ~cancelled[i])
    <3>1. \E s \in {"waiting", "setup"} : Goto(i, s)
      BY <1>2, <2>2 DEF ContTakes
    <3>2. chain[i] # <<>> /\ UNCHANGED <<topVars, instVars, loopVars, completed, chain, slotVars,
                                         opVars, textVars, scenVars>>
      BY <1>2, <2>2 DEF ContTakes, topVars, instVars
    <3>3. QED
      BY <3>1, <3>2, ContMovesPlace
  <2>3. QED
    BY <2>1, <2>2
<1>3. CASE ContWaited(i)
  <2>1. Goto(i, "setup") /\ cont[i] # "idle"
        /\ UNCHANGED <<topVars, instVars, loopVars, completed, chain, slotVars, opVars, textVars,
                       scenVars>>
    BY <1>3 DEF ContWaited
  <2>2. QED
    BY <1>1, <2>1, ContMovesPlace
<1>4. CASE ContTimesOut(i)
  BY <1>1, <1>4, ParkHeadPlace DEF ContTimesOut
<1>5. QED
  BY <1>2, <1>3, <1>4

LEMMA ContStartsPlace ==
  ASSUME OnePlace, NEW i \in Instances, ContStarts(i) PROVE OnePlace'
<1> USE DEF ContStarts, topVars, slotVars, opVars, scenVars
<1>1. TypeOK /\ OpInv /\ chain[i] # <<>>
  BY DEF OnePlace, TypeOK
<1>2. Head(chain[i]) \in Texts /\ fate[Head(chain[i])] = "chained"
  <2>1. chain[i] \in Seq(Texts)
    BY <1>1 DEF TypeOK
  <2>2. Head(chain[i]) = chain[i][1] /\ Head(chain[i]) \in Texts /\ 1 \in 1..Len(chain[i])
    BY <1>1, <2>1, TailFacts
  <2>3. QED
    BY <2>2 DEF OnePlace, Chained
<1>3. /\ fate' \in [Texts -> Fates] /\ room' \in [Texts -> Instances \cup {None}]
      /\ \A u \in Texts \ {Head(chain[i])} : fate'[u] = fate[u]
      /\ fate'[Head(chain[i])] \in {"said", "lost"}
  <2>1. CASE MoveTo(Head(chain[i]), "lost")
    BY <1>1, <1>2, <2>1, MovedFacts DEF Fates, TypeOK
  <2>2. CASE Said(Head(chain[i]), task[i])
    <3>1. task[i] \in Instances \cup {None}
      BY <1>1 DEF TypeOK
    <3>2. QED
      BY <1>1, <1>2, <2>2, <3>1, SaidFacts
  <2>3. QED
    BY <2>1, <2>2
<1>4. /\ Chained' /\ Chains' /\ chain' \in [Instances -> Seq(Texts)]
      /\ cont' \in [Instances -> {"idle", "waiting", "setup"}]
  BY <1>1, <1>3, ChainShrinks
<1>5. /\ stage' \in [Instances -> {"none", "made", "restoring", "asking", "resumed", "feeding",
                                   "looping", "settled"}]
      /\ stage'[i] = IF stage[i] = "asking" THEN "settled" ELSE stage[i]
      /\ \A j \in Instances \ {i} : stage'[j] = stage[j]
  BY <1>1 DEF Stage, TypeOK
<1>6. /\ gen' \in [Instances -> 0..MaxLoops] /\ loops' \in [Instances -> SUBSET (1..MaxLoops)]
      /\ \A j \in Instances : loops'[j] \subseteq 1..gen'[j] /\ loops[j] \subseteq loops'[j]
  BY <1>1, StartLoopTypes
<1>7. soft' \in [Instances -> BOOLEAN]
  BY <1>1 DEF TypeOK
<1>8. Shapes'
  BY <1>1, <1>3, <1>4, <1>5, <1>6, <1>7 DEF Shapes, TypeOK
<1>9. Looping' /\ OpInv'
  BY <1>1, <1>5, <1>6 DEF Looping, OpInv, TypeOK
<1>10. InSlot'
  <2>1. \A u \in Texts : fate'[u] = "parked" <=> fate[u] = "parked"
    BY <1>2, <1>3
  <2>2. QED
    BY <1>1, <2>1 DEF InSlot, TypeOK
<1>11. Carried'
  BY <1>2, <1>3, <1>5, CarriedKept DEF ToSay, HasSaid, Final
<1>12. QED
  BY <1>4, <1>8, <1>9, <1>10, <1>11, Assemble

-----------------------------------------------------------------------------
LEMMA GuardQuietPlace ==
  ASSUME OnePlace, GuardIdles \/ RescueParks \/ RescueRestores PROVE OnePlace'
<1>1. TypeOK /\ OpInv /\ UNCHANGED <<top, streaming, task, stage, carry, own, cancelled, loops, gen,
                                     soft, completed, chain, cont, slot, fate, room, scenario,
                                     presses>>
  BY DEF OnePlace, GuardIdles, RescueParks, RescueRestores, Park, topVars, instVars, loopVars,
         chainVars, textVars, scenVars
<1>2. guard' \in {"off"} \cup Guards
  BY DEF GuardIdles, RescueParks, RescueRestores, Park
<1>3. /\ opAt' \in [Ops -> {"free", "aborting", "restoring", "done"}]
      /\ opOf' \in [Ops -> Instances \cup {None}]
      /\ \A c \in Ops : opAt'[c] \in {"aborting", "restoring"} => opOf'[c] \in Instances
  <2>1. CASE GuardIdles \/ RescueParks
    BY <1>1, <2>1 DEF GuardIdles, RescueParks, opVars, TypeOK, OpInv
  <2>2. CASE RescueRestores
    <3>1. top \in Instances /\ StartOp(top, "restoring")
      BY <1>1, <2>2 DEF RescueRestores, TypeOK
    <3>2. QED
      BY <1>1, <3>1, StartOpTypes
  <2>3. QED
    BY <2>1, <2>2
<1>4. Shapes' /\ Looping' /\ Chains' /\ OpInv'
  BY ONLY <1>1, <1>2, <1>3 DEF Shapes, Looping, Chains, OpInv, TypeOK
<1>5. InSlot' /\ Chained' /\ Carried'
  BY <1>1, PlaceKept
<1>6. QED
  BY <1>4, <1>5, Assemble

LEMMA RescueContinuesPlace ==
  ASSUME OnePlace, RescueContinues PROVE OnePlace'
<1> USE DEF RescueContinues, Rescues, topVars, instVars, loopVars, opVars, scenVars
<1>1. TypeOK /\ OpInv /\ UNCHANGED <<top, streaming, task, stage, carry, own, cancelled, loops, gen,
                                     soft, completed, cont, opAt, opOf, scenario, presses>>
  BY DEF OnePlace, Enqueue
<1>2. /\ slot \in Texts /\ top \in Instances /\ fate[slot] = "parked" /\ Enqueue(top, slot)
      /\ slot' = None /\ guard' = "off"
  BY <1>1 DEF TypeOK, Consume
<1>3. /\ fate' \in [Texts -> Fates] /\ room' = room /\ fate'[slot] = "chained"
      /\ \A u \in Texts \ {slot} : fate'[u] = fate[u]
  BY <1>1, <1>2, MovedFacts DEF Enqueue, Fates
<1>4. Chained' /\ Chains' /\ chain' \in [Instances -> Seq(Texts)]
  BY <1>2, ChainGrows
<1>5. Shapes' /\ Looping' /\ OpInv'
  BY <1>1, <1>2, <1>3, <1>4 DEF Shapes, Looping, OpInv, TypeOK
<1>6. InSlot'
  BY <1>1, <1>2, <1>3, Numbers DEF InSlot, TypeOK
<1>7. Carried'
  BY <1>1, <1>2, <1>3, CarriedKept DEF ToSay, HasSaid, Final
<1>8. QED
  BY <1>4, <1>5, <1>6, <1>7, Assemble

LEMMA GuardPlace == ASSUME OnePlace, GuardFires PROVE OnePlace'
<1>1. CASE RescueStartsAfresh
  <2>1. slot \in Texts /\ FreshTask(slot) /\ Consume
    BY <1>1 DEF RescueStartsAfresh, Rescues, OnePlace, TypeOK
  <2>2. /\ opAt' \in [Ops -> {"free", "aborting", "restoring", "done"}]
        /\ opOf' \in [Ops -> Instances \cup {None}]
        /\ \A c \in Ops : opAt'[c] \in {"aborting", "restoring"} => opOf'[c] \in Instances
    BY <1>1 DEF RescueStartsAfresh, opVars, OnePlace, TypeOK, OpInv
  <2>3. QED
    BY <1>1, <2>1, <2>2, FreshTaskPlace DEF RescueStartsAfresh, chainVars, scenVars
<1>2. QED
  BY <1>1, GuardQuietPlace, RescueContinuesPlace DEF GuardFires
-----------------------------------------------------------------------------
LEMMA EditParksPlace ==
  ASSUME OnePlace, NEW t \in Texts, Parked(t), StartCancel, fate[t] \in {"unsent", "editing"},
         UNCHANGED <<top, task, stage, carry, own, loopVars, completed, chainVars, scenVars>>
  PROVE  OnePlace'
<1>1. TypeOK /\ OpInv /\ UNCHANGED <<top, task, stage, carry, own, loops, gen, soft, completed,
                                     chain, cont, scenario, presses>>
  BY DEF OnePlace, loopVars, chainVars, scenVars
<1>2. /\ InSlot' /\ Carried'
      /\ slot' \in Texts /\ guard' \in Guards /\ fate' \in [Texts -> Fates] /\ room' = room
      /\ \A u \in Texts \ {t} : fate[u] = "chained" => fate'[u] = "chained"
  BY <1>1, ParkedPlace DEF Final
<1>3. /\ opAt' \in [Ops -> {"free", "aborting", "restoring", "done"}]
      /\ opOf' \in [Ops -> Instances \cup {None}]
      /\ \A c \in Ops : opAt'[c] \in {"aborting", "restoring"} => opOf'[c] \in Instances
      /\ cancelled' \in [Instances -> BOOLEAN] /\ streaming' \in BOOLEAN
  BY <1>1, StartCancelTypes
<1>4. Shapes' /\ Looping' /\ Chains' /\ OpInv'
  BY ONLY <1>1, <1>2, <1>3 DEF Shapes, Looping, Chains, OpInv, TypeOK
<1>5. Chained'
  BY <1>1, <1>2, ChainsKept
<1>6. QED
  BY <1>2, <1>4, <1>5, Assemble

LEMMA CancelPlace == ASSUME OnePlace, Cancel PROVE OnePlace'
<1> USE DEF Cancel, loopVars, chainVars, slotVars, textVars
<1>1. TypeOK /\ OpInv /\ UNCHANGED <<top, task, stage, carry, own, loops, gen, soft, completed,
                                     chain, cont, slot, guard, fate, room, scenario>>
  BY DEF OnePlace
<1>2. /\ opAt' \in [Ops -> {"free", "aborting", "restoring", "done"}]
      /\ opOf' \in [Ops -> Instances \cup {None}]
      /\ \A c \in Ops : opAt'[c] \in {"aborting", "restoring"} => opOf'[c] \in Instances
      /\ cancelled' \in [Instances -> BOOLEAN] /\ streaming' \in BOOLEAN
  BY <1>1, StartCancelTypes
<1>3. presses' \in 0..MaxInputs
  <2>1. scenario.inputs \in 1..MaxInputs /\ Cardinality(Sent) \in Nat /\ presses \in 0..MaxInputs
    BY <1>1, InputsBounded DEF TypeOK
  <2>2. Cardinality(Sent) + presses < scenario.inputs /\ presses' = presses + 1
    BY DEF MayAct
  <2>3. QED
    BY ONLY <2>1, <2>2, Numbers
<1>4. Shapes' /\ Looping' /\ Chains' /\ OpInv'
  BY ONLY <1>1, <1>2, <1>3 DEF Shapes, Looping, Chains, OpInv, TypeOK
<1>5. InSlot' /\ Chained' /\ Carried'
  BY <1>1, PlaceKept
<1>6. QED
  BY <1>4, <1>5, Assemble

LEMMA SendAfterCompletionPlace ==
  ASSUME OnePlace, NEW t \in Texts, fate[t] = "unsent", SendAfterCompletion(t),
         UNCHANGED <<completed, scenVars>>
  PROVE  OnePlace'
<1> USE DEF SendAfterCompletion, topVars, instVars, loopVars, chainVars, slotVars, opVars, scenVars
<1>1. TypeOK /\ OpInv /\ UNCHANGED <<top, streaming, task, stage, carry, own, cancelled, loops, gen,
                                     soft, completed, chain, cont, slot, guard, opAt, opOf, room,
                                     scenario, presses>>
  BY DEF OnePlace
<1>2. /\ fate' \in [Texts -> Fates] /\ fate'[t] = "editing"
      /\ \A u \in Texts \ {t} : fate'[u] = fate[u] \/ (fate[u] = "said" /\ fate'[u] = "lost")
  BY <1>1 DEF TypeOK, Fates
<1>3. Shapes' /\ Looping' /\ Chains' /\ OpInv'
  BY ONLY <1>1, <1>2 DEF Shapes, Looping, Chains, OpInv, TypeOK
<1>4. InSlot'
  <2>1. \A u \in Texts : fate'[u] = "parked" <=> fate[u] = "parked"
    BY <1>2
  <2>2. QED
    BY <1>1, <2>1 DEF InSlot, TypeOK
<1>5. Chained'
  BY <1>1, <1>2, ChainsKept
<1>6. Carried'
  BY <1>1, <1>2, CarriedKept DEF ToSay, HasSaid, Final
<1>7. QED
  BY <1>3, <1>4, <1>5, <1>6, Assemble

LEMMA SendToAskPlace ==
  ASSUME OnePlace, NEW t \in Texts, fate[t] = "unsent", SendToAsk(t),
         UNCHANGED <<completed, scenVars>>
  PROVE  OnePlace'
<1> USE DEF SendToAsk, Live, topVars, loopVars, chainVars, slotVars, opVars, scenVars
<1>1. TypeOK /\ OpInv /\ UNCHANGED <<top, streaming, task, own, cancelled, loops, gen, soft,
                                     completed, chain, cont, slot, guard, opAt, opOf, scenario,
                                     presses>>
  BY DEF OnePlace
<1>2. top \in Instances
  BY <1>1 DEF TypeOK
<1>3. /\ stage' \in [Instances -> {"none", "made", "restoring", "asking", "resumed", "feeding",
                                   "looping", "settled"}]
      /\ stage'[top] = "resumed" /\ \A j \in Instances \ {top} : stage'[j] = stage[j]
  BY <1>1, <1>2, StageTypes
<1>4. /\ carry' \in [Instances -> Texts \cup {None}] /\ carry'[top] = t
      /\ \A j \in Instances \ {top} : carry'[j] = carry[j]
  BY <1>1, <1>2 DEF TypeOK
<1>5. /\ fate' \in [Texts -> Fates] /\ room' = room /\ fate'[t] = "carried"
      /\ \A u \in Texts \ {t} : fate'[u] = fate[u]
  BY <1>1, MovedFacts DEF Fates
<1>6. Shapes'
  BY ONLY <1>1, <1>3, <1>4, <1>5 DEF Shapes, TypeOK
<1>7. Looping' /\ Chains' /\ OpInv'
  BY <1>1, <1>3 DEF Looping, Chains, OpInv, TypeOK
<1>8. InSlot'
  <2>1. \A u \in Texts : fate'[u] = "parked" <=> fate[u] = "parked"
    BY <1>5
  <2>2. QED
    BY <1>1, <2>1 DEF InSlot, TypeOK
<1>9. Chained'
  BY <1>1, <1>5, ChainsKept
<1>10. Carried'
  <2>1. \A j \in Instances \ {top} : /\ ToSay(j)' => ToSay(j) /\ carry'[j] = carry[j]
                                     /\ HasSaid(j)' => HasSaid(j) /\ carry'[j] = carry[j]
    BY <1>3, <1>4 DEF ToSay, HasSaid
  <2>2. ~HasSaid(top)'
    <3>1. stage'[top] \notin {"feeding", "looping"} /\ top' = top
      BY <1>1, <1>3
    <3>2. QED
      BY <3>1 DEF HasSaid
  <2>3. \A j \in Instances : /\ ToSay(j) => carry[j] \in Texts /\ fate[carry[j]] = "carried"
                             /\ HasSaid(j) => carry[j] \in Texts /\ fate[carry[j]] \in Final
    BY <1>1 DEF OnePlace, Carried, ToSay, HasSaid, TypeOK
  <2>4. \A j \in Instances : ToSay(j)' => fate'[carry'[j]] = "carried"
    BY <1>4, <1>5, <2>1, <2>3
  <2>5. \A j \in Instances : HasSaid(j)' => fate'[carry'[j]] \in Final
    BY <1>1, <1>5, <2>1, <2>2, <2>3 DEF Final
  <2>6. \A j, k \in Instances : ToSay(j)' /\ ToSay(k)' /\ carry'[j] = carry'[k] => j = k
    <3>1. \A j \in Instances \ {top} : ToSay(j)' => carry'[j] # t
      BY <2>1, <2>3
    <3>2. QED
      BY <1>4, <2>1, <3>1 DEF OnePlace, Carried
  <2>7. QED
    BY <2>4, <2>5, <2>6 DEF Carried
<1>11. QED
  BY <1>6, <1>7, <1>8, <1>9, <1>10, Assemble

LEMMA SendContinuesPlace ==
  ASSUME OnePlace, NEW t \in Texts, fate[t] = "unsent", SendContinues(t),
         UNCHANGED <<completed, scenVars>>
  PROVE  OnePlace'
<1> USE DEF SendContinues, Live, topVars, instVars, loopVars, slotVars, opVars, scenVars
<1>1. TypeOK /\ OpInv /\ UNCHANGED <<top, streaming, task, stage, carry, own, cancelled, loops, gen,
                                     soft, completed, cont, slot, guard, opAt, opOf, scenario,
                                     presses>>
  BY DEF OnePlace, Enqueue
<1>2. top \in Instances /\ Enqueue(top, t)
  BY <1>1 DEF TypeOK
<1>3. /\ fate' \in [Texts -> Fates] /\ room' = room /\ fate'[t] = "chained"
      /\ \A u \in Texts \ {t} : fate'[u] = fate[u]
  BY <1>1, <1>2, MovedFacts DEF Enqueue, Fates
<1>4. Chained' /\ Chains' /\ chain' \in [Instances -> Seq(Texts)]
  BY <1>2, ChainGrows
<1>5. Shapes' /\ Looping' /\ OpInv'
  BY ONLY <1>1, <1>3, <1>4 DEF Shapes, Looping, OpInv, TypeOK
<1>6. InSlot'
  <2>1. \A u \in Texts : fate'[u] = "parked" <=> fate[u] = "parked"
    BY <1>3
  <2>2. QED
    BY <1>1, <2>1 DEF InSlot, TypeOK
<1>7. Carried'
  BY <1>1, <1>3, CarriedKept DEF ToSay, HasSaid, Final
<1>8. QED
  BY <1>4, <1>5, <1>6, <1>7, Assemble

LEMMA SendPlace == ASSUME OnePlace, NEW t \in Texts, Send(t) PROVE OnePlace'
<1>1. fate[t] = "unsent" /\ UNCHANGED <<completed, scenVars>> /\ TypeOK /\ OpInv
  BY DEF Send, IsNextText, OnePlace
<1>2. CASE SendAfresh(t)
  <2>1. /\ opAt' \in [Ops -> {"free", "aborting", "restoring", "done"}]
        /\ opOf' \in [Ops -> Instances \cup {None}]
        /\ \A c \in Ops : opAt'[c] \in {"aborting", "restoring"} => opOf'[c] \in Instances
    BY <1>1, <1>2 DEF SendAfresh, opVars, TypeOK, OpInv
  <2>2. QED
    BY <1>1, <1>2, <2>1, FreshTaskPlace DEF SendAfresh, chainVars, slotVars, scenVars
<1>3. CASE SendToCancelled(t)
  <2>1. UNCHANGED <<top, streaming, task, stage, carry, own, cancelled, loops, gen, soft, completed,
                    chain, cont, opAt, opOf, scenario, presses>>
    BY <1>1, <1>3 DEF SendToCancelled, topVars, instVars, loopVars, chainVars, opVars, scenVars
  <2>2. /\ fate' \in [Texts -> Fates] /\ room' = room /\ slot' = t /\ guard' \in Guards
        /\ \A u \in Texts : fate'[u] = "parked" <=> slot' = u
        /\ fate'[t] = "parked" /\ \A u \in Texts \ {t} : u # slot => fate'[u] = fate[u]
        /\ \A u \in Texts \ {t} : u = slot => fate[u] = "parked" /\ fate'[u] = "lost"
    BY <1>1, <1>3, ParkedFacts DEF SendToCancelled
  <2>3. Shapes' /\ Looping' /\ Chains' /\ OpInv'
    BY ONLY <1>1, <2>1, <2>2 DEF Shapes, Looping, Chains, OpInv, TypeOK
  <2>4. InSlot'
    BY <2>2 DEF InSlot
  <2>5. Chained'
    BY <1>1, <2>1, <2>2, ChainsKept
  <2>6. Carried'
    BY <1>1, <2>1, <2>2, CarriedKept DEF ToSay, HasSaid, Final
  <2>7. QED
    BY <2>3, <2>4, <2>5, <2>6, Assemble
<1>4. CASE SendInterrupts(t)
  BY <1>1, <1>4, EditParksPlace DEF SendInterrupts
<1>5. QED
  BY <1>1, <1>2, <1>3, <1>4, SendAfterCompletionPlace, SendToAskPlace, SendContinuesPlace DEF Send

LEMMA PlaceStep == OnePlace /\ [Next]_vars => OnePlace'
<1> SUFFICES ASSUME OnePlace, [Next]_vars PROVE OnePlace'
  OBVIOUS
<1>1. CASE UNCHANGED vars
  <2>1. UNCHANGED <<top, streaming, task, stage, carry, own, cancelled, loops, gen, soft, completed,
                    chain, cont, slot, guard, opAt, opOf, fate, room, scenario, presses>>
    BY <1>1 DEF vars, topVars, instVars, loopVars, chainVars, slotVars, opVars, textVars, scenVars
  <2>2. Shapes' /\ Looping' /\ Chains' /\ OpInv'
    BY ONLY OnePlace, <2>1 DEF Shapes, Looping, Chains, OpInv, TypeOK, OnePlace
  <2>3. InSlot' /\ Chained' /\ Carried'
    BY <2>1, PlaceKept
  <2>4. QED
    BY <2>2, <2>3, Assemble
<1>2. ASSUME NEW c \in Ops, OpStep(c) PROVE OnePlace'
  BY <1>2, CancelRestoresPlace, CancelWithoutHistoryPlace, InstallPlace DEF OpStep
<1>3. ASSUME NEW i \in Instances, ResumeStep(i) PROVE OnePlace'
  BY <1>3, ResumePlace, ResumeQuietPlace, ResumeThrowsPlace, ResumeSaysPlace, ResumeLoopsPlace
     DEF ResumeStep
<1>4. ASSUME NEW i \in Instances, ContStep(i) PROVE OnePlace'
  BY <1>4, ContPlace, ContStartsPlace DEF ContStep
<1>5. ASSUME NEW i \in Instances, LoopStep(i) PROVE OnePlace'
  BY <1>5, LoopPlace, CompletesPlace, LoopEndsPlace DEF LoopStep
<1>6. ASSUME NEW t \in Texts, Send(t) \/ EditParks(t) PROVE OnePlace'
  <2>1. CASE EditParks(t)
    BY <2>1, EditParksPlace DEF EditParks
  <2>2. QED
    BY <1>6, <2>1, SendPlace
<1>7. CASE StreamStarts \/ StreamEnds
  BY <1>7, LoopPlace, Numbers
<1>8. CASE GuardFires \/ Cancel
  BY <1>8, GuardPlace, CancelPlace
<1>9. QED
  BY <1>1, <1>2, <1>3, <1>4, <1>5, <1>6, <1>7, <1>8 DEF Next

LEMMA PlaceHolds == Spec => []OnePlace
<1>1. QED
  BY InitPlace, PlaceStep, PTL DEF Spec

(* The variables have the states of the code, the parked message is the one in the slot, and
   only a loop that runs is waited for. *)
THEOREM ContinuationTyped == Spec => []TypeOK
<1>1. OnePlace => TypeOK
  BY DEF OnePlace
<1>2. QED
  BY <1>1, PlaceHolds, PTL
-----------------------------------------------------------------------------
(* Which messages the user has sent changes only when one is sent. *)
LEMMA SentSame == ASSUME fate' = fate PROVE Sent' = Sent
BY DEF Sent

LEMMA SentSaid ==
  ASSUME TypeOK, NEW t \in Texts, NEW k \in Instances \cup {None}, Said(t, k), fate[t] # "unsent"
  PROVE  Sent' = Sent
BY SaidFacts DEF Sent

LEMMA SentMoved ==
  ASSUME TypeOK, NEW t \in Texts, NEW s \in Fates \ {"unsent"}, MoveTo(t, s), fate[t] # "unsent"
  PROVE  Sent' = Sent
BY MovedFacts DEF Sent

LEMMA SentParked ==
  ASSUME TypeOK, NEW t \in Texts, Parked(t), fate[t] # "unsent" PROVE Sent' = Sent
<1>1. \A u \in Texts : fate'[u] = "unsent" <=> fate[u] = "unsent"
  BY ParkedFacts
<1>2. QED
  BY <1>1 DEF Sent

LEMMA HeadIsChained ==
  ASSUME OnePlace, NEW i \in Instances, chain[i] # <<>>
  PROVE  Head(chain[i]) \in Texts /\ fate[Head(chain[i])] = "chained"
<1>1. chain[i] \in Seq(Texts)
  BY DEF OnePlace, TypeOK
<1>2. Head(chain[i]) = chain[i][1] /\ Head(chain[i]) \in Texts /\ 1 \in 1..Len(chain[i])
  BY <1>1, TailFacts
<1>3. QED
  BY <1>2 DEF OnePlace, Chained

LEMMA SentKept ==
  ASSUME OnePlace,
         \/ \E c \in Ops : OpStep(c)
         \/ \E i \in Instances : ResumeStep(i) \/ ContStep(i) \/ LoopStep(i)
         \/ \E t \in Texts : EditParks(t)
         \/ StreamStarts \/ StreamEnds \/ GuardFires \/ Cancel
  PROVE  Sent' = Sent
<1>1. TypeOK
  BY DEF OnePlace
<1>2. slot # None => slot \in Texts /\ fate[slot] = "parked"
  BY <1>1 DEF TypeOK
<1>3. \A i \in Instances : ToSay(i) \/ HasSaid(i) => carry[i] \in Texts /\ fate[carry[i]] # "unsent"
  <2> SUFFICES ASSUME NEW i \in Instances, ToSay(i) \/ HasSaid(i)
               PROVE  carry[i] \in Texts /\ fate[carry[i]] # "unsent"
    OBVIOUS
  <2>1. carry[i] \in Texts
    BY <1>1 DEF TypeOK, ToSay, HasSaid
  <2>2. fate[carry[i]] \in {"carried"} \cup Final
    BY DEF OnePlace, Carried
  <2>3. QED
    BY <2>1, <2>2 DEF Final
<1>4. \A i \in Instances : task[i] \in Instances \cup {None}
  BY <1>1 DEF TypeOK
<1>5. ASSUME slot # None, FreshTask(slot) PROVE Sent' = Sent
  <2>1. Said(slot, top') /\ top' \in Instances
    BY <1>2, <1>5, FreshTaskFacts
  <2>2. QED
    BY <1>1, <1>2, <1>5, <2>1, SentSaid
<1>6. ASSUME NEW i \in Instances, chain[i] # <<>>, ParkHead(i) PROVE Sent' = Sent
  BY <1>1, <1>6, HeadIsChained, SentParked DEF ParkHead
<1>7. ASSUME NEW c \in Ops, OpStep(c) PROVE Sent' = Sent
  <2>1. CASE CancelRestores(c) \/ Install(c)
    BY <2>1, SentSame DEF CancelRestores, Install, textVars
  <2>2. CASE CancelWithoutHistory(c)
    BY <2>2, <1>5, SentSame DEF CancelWithoutHistory, textVars
  <2>3. QED
    BY <1>7, <2>1, <2>2 DEF OpStep
<1>8. ASSUME NEW i \in Instances, ResumeStep(i) PROVE Sent' = Sent
  <2>1. CASE ResumeElsewhere(i) \/ ResumeAsks(i) \/ ResumeLoops(i)
    BY <2>1, SentSame DEF ResumeElsewhere, ResumeAsks, ResumeLoops, textVars
  <2>2. CASE Resume(i)
    <3>1. CASE slot = None
      BY <2>2, <3>1, SentSame DEF Resume, textVars
    <3>2. CASE slot # None
      BY <1>1, <1>2, <2>2, <3>2, SentMoved DEF Resume, Fates
    <3>3. QED
      BY <3>1, <3>2
  <2>3. CASE ResumeThrows(i)
    <3>1. ToSay(i) \/ HasSaid(i)
      BY <2>3 DEF ResumeThrows, ToSay, HasSaid
    <3>2. \E j \in Instances : Said(carry[i], j)
      BY <2>3 DEF ResumeThrows
    <3>3. QED
      BY <1>1, <1>3, <3>1, <3>2, SentSaid
  <2>4. CASE ResumeSays(i)
    <3>1. ToSay(i)
      BY <2>4 DEF ResumeSays, ToSay
    <3>2. MoveTo(carry[i], "lost") \/ Said(carry[i], task[i])
      BY <2>4 DEF ResumeSays
    <3>3. QED
      BY <1>1, <1>3, <1>4, <3>1, <3>2, SentSaid, SentMoved DEF Fates
  <2>5. QED
    BY <1>8, <2>1, <2>2, <2>3, <2>4 DEF ResumeStep
<1>9. ASSUME NEW i \in Instances, ContStep(i) PROVE Sent' = Sent
  <2>1. cont[i] # "idle" => chain[i] # <<>>
    BY <1>1 DEF TypeOK
  <2>2. CASE ContTakes(i)
    BY <2>2, <1>6, SentSame DEF ContTakes, textVars
  <2>3. CASE ContWaited(i)
    BY <2>3, SentSame DEF ContWaited, textVars
  <2>4. CASE ContTimesOut(i)
    BY <2>1, <2>4, <1>6 DEF ContTimesOut
  <2>5. CASE ContStarts(i)
    <3>1. Head(chain[i]) \in Texts /\ fate[Head(chain[i])] = "chained"
      BY <2>1, <2>5, HeadIsChained DEF ContStarts
    <3>2. MoveTo(Head(chain[i]), "lost") \/ Said(Head(chain[i]), task[i])
      BY <2>5 DEF ContStarts
    <3>3. QED
      BY <1>1, <1>4, <3>1, <3>2, SentSaid, SentMoved DEF Fates
  <2>6. QED
    BY <1>9, <2>2, <2>3, <2>4, <2>5 DEF ContStep
<1>10. ASSUME NEW i \in Instances, LoopStep(i) PROVE Sent' = Sent
  <2>1. CASE Works(i) \/ LoopEnds(i)
    BY <2>1, SentSame DEF Works, LoopEnds, textVars
  <2>2. CASE Completes(i)
    BY <2>2 DEF Completes, Sent
  <2>3. QED
    BY <1>10, <2>1, <2>2 DEF LoopStep
<1>11. ASSUME NEW t \in Texts, EditParks(t) PROVE Sent' = Sent
  BY <1>1, <1>11, SentParked DEF EditParks
<1>12. CASE GuardFires
  <2>1. CASE GuardIdles \/ RescueParks \/ RescueRestores
    BY <2>1, SentSame DEF GuardIdles, RescueParks, RescueRestores, textVars
  <2>2. CASE RescueContinues
    BY <1>1, <1>2, <2>2, SentMoved DEF RescueContinues, Rescues, Enqueue, Fates
  <2>3. CASE RescueStartsAfresh
    BY <1>5, <2>3 DEF RescueStartsAfresh, Rescues
  <2>4. QED
    BY <1>12, <2>1, <2>2, <2>3 DEF GuardFires
<1>13. CASE StreamStarts \/ StreamEnds \/ Cancel
  BY <1>13, SentSame DEF StreamStarts, StreamEnds, Cancel, textVars
<1>14. QED
  BY <1>7, <1>8, <1>9, <1>10, <1>11, <1>12, <1>13
-----------------------------------------------------------------------------
(* With a single message, whatever holds one holds this one, and its fate says who. *)
LEMMA LoneFacts ==
  ASSUME OnePlace, NEW t \in Texts, Sent = {t}
  PROVE  /\ fate[t] \in Fates \ {"unsent"} /\ \A u \in Texts \ {t} : fate[u] = "unsent"
         /\ slot # None => slot = t /\ fate[t] = "parked"
         /\ fate[t] = "parked" => slot = t
         /\ \A i \in Instances : chain[i] # <<>> => Head(chain[i]) = t /\ fate[t] = "chained"
         /\ \A i \in Instances : ToSay(i) => carry[i] = t /\ fate[t] = "carried"
         /\ \A i \in Instances : HasSaid(i) => carry[i] = t /\ fate[t] \in Final
<1>1. TypeOK
  BY DEF OnePlace
<1>2. /\ fate[t] \in Fates \ {"unsent"} /\ \A u \in Texts \ {t} : fate[u] = "unsent"
  BY <1>1 DEF Sent, TypeOK
<1>3. /\ slot # None => slot = t /\ fate[t] = "parked"
      /\ fate[t] = "parked" => slot = t
  BY <1>1, <1>2 DEF TypeOK
<1>4. \A i \in Instances : chain[i] # <<>> => Head(chain[i]) = t /\ fate[t] = "chained"
  BY <1>2, HeadIsChained
<1>5. \A i \in Instances : ToSay(i) => carry[i] = t /\ fate[t] = "carried"
  BY <1>1, <1>2 DEF OnePlace, Carried, ToSay, TypeOK
<1>6. \A i \in Instances : HasSaid(i) => carry[i] = t /\ fate[t] \in Final
  <2> SUFFICES ASSUME NEW i \in Instances, HasSaid(i)
               PROVE  carry[i] = t /\ fate[t] \in Final
    OBVIOUS
  <2>1. carry[i] \in Texts /\ fate[carry[i]] \in Final
    BY <1>1 DEF OnePlace, Carried, HasSaid, TypeOK
  <2>2. carry[i] = t
    BY <1>2, <2>1 DEF Final
  <2>3. QED
    BY <2>1, <2>2
<1>7. QED
  BY <1>2, <1>3, <1>4, <1>5, <1>6

LEMMA QuietFacts ==
  ASSUME OnePlace, Sent = {}
  PROVE  /\ slot = None /\ \A u \in Texts : fate[u] = "unsent"
         /\ \A i \in Instances : chain[i] = <<>> /\ cont[i] = "idle"
<1>1. TypeOK /\ \A u \in Texts : fate[u] = "unsent"
  BY DEF OnePlace, Sent
<1>2. slot = None
  BY <1>1 DEF TypeOK
<1>3. \A i \in Instances : chain[i] = <<>>
  BY <1>1, HeadIsChained
<1>4. QED
  BY <1>1, <1>2, <1>3 DEF TypeOK

(* What leaves the instances, their tasks and the replacements alone. *)
LEMMA UntouchedKept ==
  ASSUME Untouched, UNCHANGED <<top, task, cancelled, opAt>>, stage'[1] = "settled",
         \A i \in Instances \ {1} : /\ stage'[i] = stage[i] /\ chain'[i] = chain[i]
                                    /\ gen'[i] = gen[i] /\ loops'[i] \subseteq loops[i]
  PROVE  Untouched'
BY DEF Untouched

LEMMA OnwardKept ==
  ASSUME NEW t \in Texts, Onward(t), scenario' = scenario, top' # None,
         \A i \in Instances : cancelled'[i] = cancelled[i], stage'[1] = "settled",
         \A i \in Instances : stage'[i] # "none" => (stage[i] # "none" /\ task'[i] = task[i]) \/ task'[i] = 1,
         \A c \in Ops : opAt'[c] \in {"aborting", "restoring"} => task'[opOf'[c]] = 1,
         AbortInv(t)'
  PROVE  Onward(t)'
BY Numbers DEF Onward

LEMMA AbortKept ==
  ASSUME NEW t \in Texts, AbortInv(t), scenario' = scenario, UNCHANGED opVars,
         "history" \notin scenario.faults \/ fate'[t] = fate[t]
           \/ \A c \in Ops : opAt[c] # "aborting",
         \A i \in Instances : stage'[i] = "made" => stage[i] = "made"
  PROVE  AbortInv(t)'
BY DEF AbortInv, opVars

(* A message that has become a row, with nobody who could say it again, stays that way. *)
LEMMA ToldKept ==
  ASSUME NEW t \in Texts, fate[t] \in {"said", "answered"}, fate'[t] \in {"said", "answered"},
         \A i \in Instances : ~HasSaid(i), \A i \in Instances : HasSaid(i)' => HasSaid(i)
  PROVE  Lone(t)'
BY DEF Lone

LEMMA FirstTold ==
  ASSUME NEW t \in Texts, fate'[t] = "said", \A i \in Instances : ~HasSaid(i)'
  PROVE  Lone(t)'
BY DEF Lone

(* The fates of a lone message, one by one. *)
LEMMA LoneCases ==
  ASSUME OnePlace, NEW t \in Texts, Sent = {t}, Lone(t)
  PROVE  \/ fate[t] = "editing" /\ Untouched
         \/ fate[t] = "chained" /\ Untouched
         \/ fate[t] = "chained" /\ Moving(t) /\ chain[1] = <<>>
         \/ fate[t] \in {"parked", "carried"} /\ Moving(t)
         \/ fate[t] \in {"said", "answered"} /\ Onward(t)
         \/ fate[t] \in {"said", "answered"} /\ \A i \in Instances : ~HasSaid(i)
BY LoneFacts DEF Lone, Fates

(* Steps that are none of the message's: it stays where it is. *)
LEMMA LoneKept ==
  ASSUME OnePlace, NEW t \in Texts, Sent = {t}, Lone(t), scenario' = scenario,
         UNCHANGED <<top, task, cancelled, opVars>>,
         fate'[t] = fate[t] \/ (fate[t] = "said" /\ fate'[t] = "answered"),
         \A i \in Instances : /\ chain'[i] = chain[i] /\ gen'[i] = gen[i]
                              /\ loops'[i] \subseteq loops[i]
                              /\ HasSaid(i)' => HasSaid(i)
                              /\ \/ stage'[i] = stage[i]
                                 \/ i # 1 /\ stage[i] # "none" /\ stage'[i] \in {"asking", "settled"}
                                 \/ stage[i] # "none" /\ stage'[i] = "settled"
  PROVE  Lone(t)'
<1>1. CASE Untouched /\ fate[t] \in {"editing", "chained"}
  <2>1. Untouched'
    BY <1>1, UntouchedKept, Numbers DEF Untouched, opVars
  <2>2. QED
    BY <1>1, <2>1 DEF Lone
<1>2. ASSUME Onward(t) PROVE Onward(t)'
  <2>1. AbortInv(t)'
    BY <1>2, AbortKept DEF Onward, AbortInv, opVars
  <2>2. QED
    BY <1>2, <2>1, OnwardKept, Numbers DEF Onward, opVars
<1>3. ASSUME Moving(t) PROVE Moving(t)'
  BY <1>2, <1>3 DEF Moving
<1>4. CASE fate[t] = "chained" /\ Moving(t) /\ chain[1] = <<>>
  BY <1>3, <1>4, Numbers DEF Lone
<1>5. CASE fate[t] \in {"parked", "carried"} /\ Moving(t)
  BY <1>3, <1>5 DEF Lone
<1>6. CASE fate[t] \in {"said", "answered"} /\ Onward(t)
  BY <1>2, <1>6 DEF Lone
<1>7. CASE fate[t] \in {"said", "answered"} /\ \A i \in Instances : ~HasSaid(i)
  BY <1>7, ToldKept
<1>8. QED
  BY <1>1, <1>4, <1>5, <1>6, <1>7, LoneCases
-----------------------------------------------------------------------------
(* The first replacement: the only one, and of the first instance. *)
LEMMA ParkFirst ==
  ASSUME OnePlace, NEW t \in Texts, Untouched, Parked(t), StartCancel,
         UNCHANGED <<top, task, stage, loopVars, scenario>>
  PROVE  Lone(t)'
<1>1. TypeOK
  BY DEF OnePlace
<1>2. fate'[t] = "parked"
  BY <1>1, ParkedFacts
<1>3. top = 1 /\ Abort({1}) /\ StartOp(1, "aborting")
  BY Numbers DEF Untouched, StartCancel
<1>4. PICK c \in Ops : opAt' = [opAt EXCEPT ![c] = "aborting"] /\ opOf' = [opOf EXCEPT ![c] = 1]
  BY <1>3 DEF StartOp
<1>5. /\ opAt'[c] = "aborting" /\ opOf'[c] = 1
      /\ \A d \in Ops \ {c} : opAt'[d] = "free"
  BY <1>1, <1>4 DEF TypeOK, Untouched
<1>6. cancelled'[1] /\ \A i \in Instances \ {1} : ~cancelled'[i]
  BY <1>3, Numbers DEF Abort, Untouched
<1>7. AbortInv(t)'
  <2>1. \A i \in Instances : stage'[i] # "made"
    BY DEF Untouched
  <2>2. QED
    BY <1>2, <1>5, <2>1 DEF AbortInv
<1>8. Onward(t)'
  <2>1. \A i \in Instances : stage'[i] # "none" => task'[i] = 1
    BY DEF Untouched
  <2>2. \A d \in Ops : opAt'[d] \in {"aborting", "restoring"} => task'[opOf'[d]] = 1
    BY <1>5 DEF Untouched
  <2>3. QED
    BY <1>3, <1>6, <1>7, <2>1, <2>2, Numbers DEF Onward, Untouched
<1>9. Moving(t)'
  BY <1>8 DEF Moving, Untouched, loopVars
<1>10. QED
  BY <1>2, <1>9 DEF Lone

LEMMA EditParksLone ==
  ASSUME OnePlace, NEW t \in Texts, Sent = {t}, Lone(t), NEW u \in Texts, EditParks(u)
  PROVE  Lone(t)'
<1>1. u = t /\ fate[t] = "editing"
  BY LoneFacts DEF EditParks
<1>2. Untouched
  BY <1>1 DEF Lone
<1>3. QED
  BY <1>1, <1>2, ParkFirst DEF EditParks, scenVars

(* A replacement under way finds its own task on top. *)
LEMMA CancelRestoresLone ==
  ASSUME OnePlace, NEW t \in Texts, Sent = {t}, Lone(t), NEW c \in Ops, CancelRestores(c)
  PROVE  Lone(t)'
<1> USE DEF CancelRestores, topVars, loopVars, chainVars, slotVars, textVars, scenVars
<1>1. TypeOK /\ OpInv
  BY DEF OnePlace
<1>2. opAt[c] = "aborting" /\ UNCHANGED <<task, stage, carry, loops, gen, chain, fate, scenario>>
  OBVIOUS
<1>3. ~Untouched
  BY <1>2 DEF Untouched
<1>4. ASSUME Onward(t) PROVE Onward(t)'
  <2>1. top \in Instances /\ stage[top] # "none" /\ task[top] = 1 /\ task[opOf[c]] = 1
    BY <1>1, <1>2, <1>4 DEF Onward, OpInv, TypeOK
  <2>2. PICK s \in {"restoring", "done"} : OpGoto(c, s) /\ UNCHANGED <<top, streaming, cancelled>>
    BY <2>1, Numbers
  <2>3. opOf' = opOf /\ \A d \in Ops : opAt'[d] = IF d = c THEN s ELSE opAt[d]
    BY <1>1, <2>2 DEF OpGoto, TypeOK
  <2>4. \A d \in Ops : opAt'[d] \in {"aborting", "restoring"} => opAt[d] \in {"aborting", "restoring"}
    BY <1>2, <2>3
  <2>5. AbortInv(t)'
    <3>1. "history" \in scenario.faults => \A d \in Ops : opAt'[d] # "aborting"
      BY <1>2, <1>4, <2>3 DEF Onward, AbortInv
    <3>2. QED
      BY <1>2, <3>1 DEF AbortInv
  <2>6. QED
    BY <1>2, <1>4, <2>2, <2>3, <2>4, <2>5 DEF Onward
<1>5. ASSUME Moving(t) PROVE Moving(t)'
  BY <1>2, <1>4, <1>5 DEF Moving
<1>6. CASE fate[t] \in {"said", "answered"} /\ \A i \in Instances : ~HasSaid(i)
  BY <1>2, <1>6, ToldKept DEF HasSaid
<1>7. QED
  BY <1>2, <1>3, <1>4, <1>5, <1>6, LoneCases DEF Lone

(* A fresh task says the message, and nobody else will. *)
LEMMA FreshTaskLone ==
  ASSUME OnePlace, NEW t \in Texts, Sent = {t}, slot = t, FreshTask(t) PROVE Lone(t)'
<1>1. fate[t] = "parked" /\ \A i \in Instances : ~HasSaid(i)
  BY LoneFacts, Numbers DEF Final
<1>2. Said(t, top') /\ top' \in Instances /\ carry' = carry /\ stage' = [stage EXCEPT ![top'] = "settled"]
  BY FreshTaskFacts
<1>3. fate'[t] = "said"
  BY <1>1, <1>2, SaidFacts DEF OnePlace
<1>4. \A i \in Instances : ~HasSaid(i)'
  BY <1>1, <1>2 DEF HasSaid, OnePlace, TypeOK
<1>5. QED
  BY <1>3, <1>4, FirstTold

LEMMA CancelWithoutHistoryLone ==
  ASSUME OnePlace, NEW t \in Texts, Sent = {t}, Lone(t), NEW c \in Ops, CancelWithoutHistory(c)
  PROVE  Lone(t)'
<1> USE DEF CancelWithoutHistory
<1>1. opAt[c] = "aborting" /\ "history" \in scenario.faults
  OBVIOUS
<1>2. ~Untouched
  BY <1>1 DEF Untouched
<1>3. ASSUME Onward(t) PROVE fate[t] = "parked"
  BY <1>1, <1>3 DEF Onward, AbortInv
<1>4. CASE fate[t] = "parked"
  <2>1. slot = t /\ slot # None
    BY <1>4, LoneFacts, Numbers
  <2>2. QED
    BY <2>1, FreshTaskLone
<1>5. CASE fate[t] \in {"said", "answered"} /\ \A i \in Instances : ~HasSaid(i)
  <2>1. slot = None
    BY <1>5, LoneFacts
  <2>2. UNCHANGED <<stage, carry, fate>>
    BY <2>1 DEF textVars
  <2>3. QED
    BY <1>5, <2>2, ToldKept DEF HasSaid
<1>6. QED
  BY <1>2, <1>3, <1>4, <1>5, LoneCases DEF Moving

LEMMA InstallLone ==
  ASSUME OnePlace, NEW t \in Texts, Sent = {t}, Lone(t), NEW c \in Ops, Install(c)
  PROVE  Lone(t)'
<1> USE DEF Install, loopVars, chainVars, slotVars, textVars, scenVars
<1>1. TypeOK /\ OpInv
  BY DEF OnePlace
<1>2. opAt[c] = "restoring" /\ UNCHANGED <<carry, cancelled, loops, gen, chain, fate, scenario>>
  OBVIOUS
<1>3. PICK j \in Instances : /\ stage[j] = "none" /\ top' = j
                             /\ stage' = [stage EXCEPT ![j] = "made"]
                             /\ task' = [task EXCEPT ![j] = task[opOf[c]]]
  BY DEF IsNext, Stage
<1>4. ~Untouched
  BY <1>2 DEF Untouched
<1>5. opOf' = opOf /\ \A d \in Ops : opAt'[d] = IF d = c THEN "done" ELSE opAt[d]
  BY <1>1 DEF OpGoto, TypeOK
<1>6. /\ stage'[j] = "made" /\ \A i \in Instances \ {j} : stage'[i] = stage[i]
      /\ task'[j] = task[opOf[c]] /\ \A i \in Instances \ {j} : task'[i] = task[i]
  BY <1>1, <1>3 DEF TypeOK
<1>7. ASSUME Onward(t) PROVE Onward(t)'
  <2>1. j # 1 /\ task'[j] = 1
    BY <1>2, <1>3, <1>6, <1>7 DEF Onward
  <2>2. \A d \in Ops : opAt'[d] \in {"aborting", "restoring"} => task'[opOf'[d]] = 1
    <3>1. \A d \in Ops : opAt'[d] \in {"aborting", "restoring"} => opOf[d] \in Instances /\ task[opOf[d]] = 1
      BY <1>1, <1>5, <1>7 DEF Onward, OpInv
    <3>2. QED
      BY <1>5, <1>6, <2>1, <3>1
  <2>3. AbortInv(t)'
    <3>1. "history" \in scenario.faults => \A d \in Ops : opAt'[d] # "aborting"
      BY <1>2, <1>5, <1>7 DEF Onward, AbortInv
    <3>2. QED
      BY <1>2, <3>1 DEF AbortInv
  <2>4. \A i \in Instances : stage'[i] # "none" => (stage[i] # "none" /\ task'[i] = task[i]) \/ task'[i] = 1
    BY <1>6, <2>1
  <2>5. stage'[1] = "settled" /\ top' # None
    BY <1>3, <1>6, <1>7, <2>1, Numbers DEF Onward
  <2>6. QED
    BY <1>2, <1>7, <2>2, <2>3, <2>4, <2>5, OnwardKept
<1>8. ASSUME Moving(t) PROVE Moving(t)'
  BY <1>2, <1>6, <1>7, <1>8 DEF Moving
<1>9. CASE fate[t] \in {"said", "answered"} /\ \A i \in Instances : ~HasSaid(i)
  BY <1>2, <1>6, <1>9, ToldKept DEF HasSaid
<1>10. QED
  BY <1>2, <1>4, <1>7, <1>8, <1>9, LoneCases DEF Lone
-----------------------------------------------------------------------------
(* The restoration of an instance: never of the first one, which is settled. *)
LEMMA ResumeLone ==
  ASSUME OnePlace, NEW t \in Texts, Sent = {t}, Lone(t), NEW i \in Instances, Resume(i)
  PROVE  Lone(t)'
<1> USE DEF Resume, topVars, loopVars, chainVars, slotVars, opVars, scenVars
<1>1. TypeOK /\ stage[i] = "made"
  BY DEF OnePlace
<1>2. /\ UNCHANGED <<top, task, loops, gen, chain, opAt, opOf, scenario>>
      /\ stage' = [stage EXCEPT ![i] = "restoring"] /\ carry' = [carry EXCEPT ![i] = slot]
      /\ cancelled' = [cancelled EXCEPT ![i] = @ /\ top # i]
  BY DEF Stage
<1>3. /\ stage'[i] = "restoring" /\ \A j \in Instances \ {i} : stage'[j] = stage[j]
      /\ \A j \in Instances \ {i} : carry'[j] = carry[j] /\ cancelled'[j] = cancelled[j]
      /\ cancelled'[i] = (cancelled[i] /\ top # i)
  BY <1>1, <1>2 DEF TypeOK
<1>4. \/ slot = None /\ fate' = fate
      \/ fate[t] = "parked" /\ fate'[t] = "carried"
  <2>1. CASE slot = None
    BY <2>1 DEF textVars
  <2>2. CASE slot # None
    <3>1. slot = t /\ fate[t] = "parked" /\ MoveTo(t, "carried")
      BY <2>2, LoneFacts
    <3>2. QED
      BY <1>1, <3>1, MovedFacts DEF Fates
  <2>3. QED
    BY <2>1, <2>2
<1>5. ~Untouched
  BY <1>1, Numbers DEF Untouched
<1>6. ASSUME Onward(t) PROVE Onward(t)'
  <2>1. i # 1 /\ \A j \in Instances : cancelled'[j] = cancelled[j]
    BY <1>1, <1>3, <1>6 DEF Onward, TypeOK
  <2>2. AbortInv(t)'
    <3>1. "history" \notin scenario.faults \/ \A c \in Ops : opAt[c] # "aborting"
      BY <1>1, <1>6 DEF Onward, AbortInv
    <3>2. QED
      BY <1>2, <1>3, <1>6, <3>1, AbortKept DEF Onward
  <2>3. \A j \in Instances : stage'[j] # "none" => stage[j] # "none" /\ task'[j] = task[j]
    BY <1>1, <1>2, <1>3
  <2>4. QED
    BY <1>2, <1>3, <1>6, <2>1, <2>2, <2>3, OnwardKept, Numbers DEF Onward
<1>7. ASSUME Moving(t) PROVE Moving(t)'
  BY <1>2, <1>3, <1>6, <1>7 DEF Moving
<1>8. CASE fate[t] \in {"said", "answered"} /\ \A j \in Instances : ~HasSaid(j)
  BY <1>3, <1>4, <1>8, ToldKept DEF HasSaid
<1>9. QED
  BY <1>2, <1>4, <1>5, <1>6, <1>7, <1>8, LoneCases DEF Lone

LEMMA ResumeElsewhereLone ==
  ASSUME OnePlace, NEW t \in Texts, Sent = {t}, Lone(t), NEW i \in Instances,
         ResumeElsewhere(i) \/ ResumeAsks(i)
  PROVE  Lone(t)'
<1>1. /\ UNCHANGED <<top, task, cancelled, opVars, scenario, fate, chain, loops, gen, carry>>
      /\ stage[i] \in {"made", "restoring"}
      /\ \E s \in {"asking", "settled"} : stage' = [stage EXCEPT ![i] = s]
  BY DEF ResumeElsewhere, ResumeAsks, Stage, topVars, textVars, loopVars, chainVars, scenVars
<1>2. PICK s \in {"asking", "settled"} : stage' = [stage EXCEPT ![i] = s]
  BY <1>1
<1>3. stage'[i] = s /\ \A j \in Instances \ {i} : stage'[j] = stage[j]
  BY <1>2 DEF OnePlace, TypeOK
<1>4. \A j \in Instances : HasSaid(j)' => HasSaid(j)
  BY <1>1, <1>3 DEF HasSaid
<1>5. CASE s = "settled" \/ i # 1
  BY <1>1, <1>3, <1>4, <1>5, LoneKept
<1>6. CASE s = "asking" /\ i = 1
  <2>1. ~Untouched /\ ~Onward(t)
    BY <1>1, <1>6 DEF Untouched, Onward
  <2>2. QED
    BY <1>1, <1>4, <2>1, LoneCases, ToldKept DEF Moving
<1>7. QED
  BY <1>5, <1>6

(* A restoration that throws with the message has not said it, or has looped with it: on
   its way the message is with an instance that nothing cancels. *)
LEMMA ResumeThrowsLone ==
  ASSUME OnePlace, NEW t \in Texts, Sent = {t}, Lone(t), NEW i \in Instances, ResumeThrows(i)
  PROVE  Lone(t)'
<1>1. TypeOK /\ carry[i] # None /\ carry' = carry
  BY DEF OnePlace, ResumeThrows
<1>2. PICK j \in Instances :
        /\ stage[j] = "none" /\ Said(carry[i], j)
        /\ stage' = [stage EXCEPT ![i] = "settled", ![j] = "settled"]
  BY DEF ResumeThrows, IsNext
<1>3. \A k \in Instances : HasSaid(k)' => HasSaid(k) /\ k # i
  BY <1>1, <1>2 DEF HasSaid, TypeOK
<1>4. CASE stage[i] = "restoring"
  <2>1. ToSay(i) /\ carry[i] = t /\ fate[t] = "carried"
    BY <1>1, <1>4, LoneFacts DEF ToSay
  <2>2. fate'[t] = "said"
    BY <1>1, <1>2, <2>1, SaidFacts
  <2>3. \A k \in Instances : ~HasSaid(k)'
    BY <1>3, <2>1, LoneFacts DEF Final
  <2>4. QED
    BY <2>2, <2>3, FirstTold
<1>5. CASE stage[i] = "looping" /\ cancelled[i]
  <2>1. HasSaid(i) /\ fate[t] \in Final
    BY <1>1, <1>5, LoneFacts DEF HasSaid
  <2>2. ~Onward(t)
    BY <1>5 DEF Onward
  <2>3. QED
    BY <2>1, <2>2, LoneCases DEF Final
<1>6. QED
  BY <1>4, <1>5 DEF ResumeThrows

LEMMA ResumeSaysLone ==
  ASSUME OnePlace, NEW t \in Texts, Sent = {t}, Lone(t), NEW i \in Instances, ResumeSays(i)
  PROVE  Lone(t)'
<1> USE DEF ResumeSays, topVars, loopVars, chainVars, slotVars, opVars, scenVars
<1>1. TypeOK /\ stage[i] \in {"restoring", "resumed"} /\ carry[i] # None
  BY DEF OnePlace
<1>2. ToSay(i) /\ carry[i] = t /\ fate[t] = "carried"
  BY <1>1, LoneFacts DEF ToSay
<1>3. Moving(t) /\ Onward(t)
  BY <1>2 DEF Lone, Moving
<1>4. i # 1 /\ ~cancelled[i] /\ stage[i] = "restoring"
  BY <1>1, <1>3 DEF Moving, Onward
<1>5. /\ stage' = [stage EXCEPT ![i] = "feeding"] /\ Said(t, task[i])
      /\ UNCHANGED <<top, task, cancelled, opAt, opOf, scenario>>
  BY <1>2, <1>4 DEF Stage
<1>6. fate'[t] = "said"
  BY <1>1, <1>2, <1>5, SaidFacts DEF TypeOK
<1>7. stage'[i] = "feeding" /\ \A k \in Instances \ {i} : stage'[k] = stage[k]
  BY <1>1, <1>5 DEF TypeOK
<1>8. AbortInv(t)'
  <2>1. "history" \notin scenario.faults \/ \A c \in Ops : opAt[c] # "aborting"
    BY <1>2, <1>3 DEF Onward, AbortInv
  <2>2. QED
    BY <1>3, <1>5, <1>7, <2>1, AbortKept DEF Onward
<1>9. Onward(t)'
  <2>1. \A k \in Instances : stage'[k] # "none" => stage[k] # "none" /\ task'[k] = task[k]
    BY <1>4, <1>5, <1>7
  <2>2. QED
    BY <1>3, <1>4, <1>5, <1>7, <1>8, <2>1, OnwardKept, Numbers DEF Onward
<1>10. QED
  BY <1>6, <1>9 DEF Lone

LEMMA ResumeLoopsLone ==
  ASSUME OnePlace, NEW t \in Texts, Sent = {t}, Lone(t), NEW i \in Instances, ResumeLoops(i)
  PROVE  Lone(t)'
<1> USE DEF ResumeLoops, topVars, chainVars, slotVars, opVars, textVars, scenVars
<1>1. TypeOK /\ stage[i] = "feeding"
  BY DEF OnePlace
<1>2. UNCHANGED <<top, task, carry, cancelled, chain, fate, opAt, opOf, scenario>>
  OBVIOUS
<1>3. /\ stage'[i] \in {"settled", "looping"}
      /\ \A k \in Instances \ {i} : stage'[k] = stage[k]
  BY <1>1 DEF Stage, TypeOK
<1>4. ~Untouched /\ ~Moving(t)
  BY <1>1, Numbers DEF Untouched, Moving
<1>5. ASSUME Onward(t) PROVE Onward(t)'
  <2>1. AbortInv(t)'
    BY <1>1, <1>2, <1>3, <1>5, AbortKept DEF Onward
  <2>2. \A k \in Instances : stage'[k] # "none" => stage[k] # "none" /\ task'[k] = task[k]
    BY <1>1, <1>2, <1>3
  <2>3. i # 1 /\ stage'[1] = "settled"
    BY <1>1, <1>3, <1>5, Numbers DEF Onward
  <2>4. QED
    BY <1>2, <1>5, <2>1, <2>2, <2>3, OnwardKept DEF Onward
<1>6. CASE fate[t] \in {"said", "answered"} /\ \A k \in Instances : ~HasSaid(k)
  <2>1. \A k \in Instances : HasSaid(k)' => HasSaid(k)
    BY <1>1, <1>2, <1>3 DEF HasSaid
  <2>2. QED
    BY <1>2, <1>6, <2>1, ToldKept
<1>7. QED
  BY <1>2, <1>4, <1>5, <1>6, LoneCases DEF Lone

LEMMA LoopStepLone ==
  ASSUME OnePlace, NEW t \in Texts, Sent = {t}, Lone(t), NEW i \in Instances, LoopStep(i)
  PROVE  Lone(t)'
<1>1. TypeOK
  BY DEF OnePlace
<1>2. CASE Works(i)
  BY <1>2, LoneKept DEF Works, topVars, instVars, loopVars, chainVars, textVars, scenVars, HasSaid
<1>3. CASE Completes(i)
  <2>1. fate'[t] = fate[t] \/ (fate[t] = "said" /\ fate'[t] = "answered")
    BY <1>3 DEF Completes
  <2>2. /\ UNCHANGED <<top, task, cancelled, opVars, scenario, stage, carry, chain, loops, gen>>
    BY <1>3 DEF Completes, topVars, instVars, chainVars, scenVars
  <2>3. QED
    BY <2>1, <2>2, LoneKept DEF HasSaid
<1>4. CASE LoopEnds(i)
  <2>1. PICK g \in loops[i] :
          /\ loops' = [loops EXCEPT ![i] = @ \ {g}]
          /\ stage' = [stage EXCEPT ![i] = IF stage[i] = "looping" /\ g = own[i] THEN "settled"
                                                                                ELSE stage[i]]
    BY <1>4 DEF LoopEnds, Stage
  <2>2. /\ UNCHANGED <<top, task, cancelled, opVars, scenario, fate, carry, chain, gen>>
    BY <1>4 DEF LoopEnds, textVars, chainVars, scenVars
  <2>3. \A k \in Instances : /\ loops'[k] \subseteq loops[k]
                             /\ stage'[k] = stage[k] \/ (stage[k] # "none" /\ stage'[k] = "settled")
    BY <1>1, <2>1 DEF TypeOK
  <2>4. \A k \in Instances : HasSaid(k)' => HasSaid(k)
    BY <2>2, <2>3 DEF HasSaid
  <2>5. QED
    BY <2>2, <2>3, <2>4, LoneKept
<1>5. QED
  BY <1>2, <1>3, <1>4 DEF LoopStep
-----------------------------------------------------------------------------
(* A message that waits in a chain waits on the first instance before anything has been
   replaced, and on a later one, that has no loop, after that. *)
LEMMA ChainedWhere ==
  ASSUME OnePlace, NEW t \in Texts, Sent = {t}, Lone(t), NEW i \in Instances, chain[i] # <<>>
  PROVE  /\ Head(chain[i]) = t /\ fate[t] = "chained" /\ ~cancelled[i]
         /\ \/ Untouched /\ i = 1
            \/ Moving(t) /\ i # 1 /\ ~LoopActive(i)
<1>1. Head(chain[i]) = t /\ fate[t] = "chained"
  BY LoneFacts
<1>2. CASE Untouched
  BY <1>1, <1>2 DEF Untouched
<1>3. CASE Moving(t) /\ chain[1] = <<>>
  BY <1>1, <1>3 DEF Moving, Onward, LoopActive
<1>4. QED
  BY <1>1, <1>2, <1>3 DEF Lone

LEMMA ContLone ==
  ASSUME OnePlace, NEW t \in Texts, Sent = {t}, Lone(t), NEW i \in Instances, ContStep(i)
  PROVE  Lone(t)'
<1>1. TypeOK
  BY DEF OnePlace
<1>2. chain[i] # <<>>
  BY <1>1 DEF ContStep, ContTakes, ContWaited, ContTimesOut, ContStarts, TypeOK
<1>3. /\ Head(chain[i]) = t /\ fate[t] = "chained" /\ ~cancelled[i]
      /\ \/ Untouched /\ i = 1
         \/ Moving(t) /\ i # 1 /\ ~LoopActive(i)
  BY <1>2, ChainedWhere
<1>4. CASE ContTakes(i)
  <2>1. CASE ~soft[i] /\ LoopActive(i) /\ ~cancelled[i]
    <3>1. Untouched /\ Parked(t) /\ StartCancel
      BY <1>3, <1>4, <2>1 DEF ContTakes, ParkHead
    <3>2. UNCHANGED <<top, task, stage, loopVars, scenario>>
      BY <1>4 DEF ContTakes, scenVars
    <3>3. QED
      BY <3>1, <3>2, ParkFirst
  <2>2. CASE ~(~soft[i] /\ LoopActive(i) /\ ~cancelled[i])
    <3>1. UNCHANGED <<top, task, stage, carry, loops, gen, chain, fate, cancelled, opVars, scenario>>
      BY <1>4, <2>2 DEF ContTakes, scenVars, loopVars, textVars
    <3>2. QED
      BY <3>1, LoneKept DEF HasSaid
  <2>3. QED
    BY <2>1, <2>2
<1>5. CASE ContWaited(i)
  <2>1. UNCHANGED <<top, task, stage, carry, loops, gen, chain, fate, cancelled, opVars, scenario>>
    BY <1>5 DEF ContWaited, scenVars, loopVars, textVars, topVars, instVars
  <2>2. QED
    BY <2>1, LoneKept DEF HasSaid
<1>6. CASE ContTimesOut(i)
  <2>1. Untouched /\ Parked(t) /\ StartCancel
    BY <1>3, <1>6 DEF ContTimesOut, ParkHead
  <2>2. UNCHANGED <<top, task, stage, loopVars, scenario>>
    BY <1>6 DEF ContTimesOut, scenVars
  <2>3. QED
    BY <2>1, <2>2, ParkFirst
<1>7. CASE ContStarts(i)
  <2>1. Said(t, task[i]) /\ carry' = carry
    BY <1>3, <1>7 DEF ContStarts
  <2>2. fate'[t] = "said"
    BY <1>1, <1>3, <2>1, SaidFacts DEF TypeOK
  <2>3. \A j \in Instances : stage'[j] = stage[j] \/ stage'[j] = "settled"
    BY <1>1, <1>7 DEF ContStarts, Stage, TypeOK
  <2>4. \A j \in Instances : ~HasSaid(j)'
    BY <1>3, <2>1, <2>3, LoneFacts DEF HasSaid, Final
  <2>5. QED
    BY <2>2, <2>4, FirstTold
<1>8. QED
  BY <1>4, <1>5, <1>6, <1>7 DEF ContStep
-----------------------------------------------------------------------------
(* The rescue guard has something to do only for the parked message. *)
LEMMA RescueFacts ==
  ASSUME OnePlace, NEW t \in Texts, Sent = {t}, Lone(t), Rescues
  PROVE  slot = t /\ fate[t] = "parked" /\ Moving(t) /\ Onward(t)
BY LoneFacts DEF Rescues, Lone, Moving

LEMMA RescueRestoresLone ==
  ASSUME OnePlace, NEW t \in Texts, Sent = {t}, Lone(t), Calm, RescueRestores
  PROVE  Lone(t)'
<1> USE DEF RescueRestores, topVars, instVars, loopVars, textVars, scenVars, chainVars
<1>1. TypeOK /\ OpInv /\ fate[t] = "parked" /\ Moving(t) /\ Onward(t)
  BY RescueFacts DEF OnePlace
<1>2. top = 1 /\ task[1] = 1
  BY <1>1, Numbers DEF Onward, TypeOK
<1>3. PICK c \in Ops : /\ opAt[c] = "free" /\ opAt' = [opAt EXCEPT ![c] = "restoring"]
                       /\ opOf' = [opOf EXCEPT ![c] = 1]
  BY <1>2 DEF StartOp, FreeOp
<1>4. /\ opAt'[c] = "restoring" /\ opOf'[c] = 1
      /\ \A d \in Ops \ {c} : opAt'[d] = opAt[d] /\ opOf'[d] = opOf[d]
  BY <1>1, <1>3 DEF TypeOK
<1>5. UNCHANGED <<top, task, stage, cancelled, loops, gen, fate, scenario>>
  OBVIOUS
<1>6. AbortInv(t)'
  <2>1. "history" \in scenario.faults => \A d \in Ops : opAt[d] # "aborting"
    BY DEF Calm, Rescues, Replacing
  <2>2. "history" \in scenario.faults => \A d \in Ops : opAt'[d] # "aborting"
    BY <1>4, <2>1
  <2>3. QED
    BY <1>5, <2>2 DEF AbortInv
<1>7. \A d \in Ops : opAt'[d] \in {"aborting", "restoring"} => task'[opOf'[d]] = 1
  BY <1>1, <1>2, <1>4, <1>5 DEF Onward
<1>8. Onward(t)'
  BY <1>1, <1>5, <1>6, <1>7 DEF Onward
<1>9. Moving(t)'
  BY <1>1, <1>5, <1>8 DEF Moving
<1>10. QED
  BY <1>1, <1>5, <1>9 DEF Lone

LEMMA RescueContinuesLone ==
  ASSUME OnePlace, NEW t \in Texts, Sent = {t}, Lone(t), Calm, RescueContinues
  PROVE  Lone(t)'
<1> USE DEF RescueContinues, topVars, instVars, loopVars, opVars, scenVars
<1>1. TypeOK /\ slot = t /\ fate[t] = "parked" /\ Moving(t) /\ Onward(t)
  BY RescueFacts DEF OnePlace
<1>2. top # 1 /\ top \in Instances
  BY <1>1 DEF Onward, TypeOK
<1>3. MoveTo(t, "chained") /\ chain' = [chain EXCEPT ![top] = Append(@, t)]
  BY <1>1 DEF Enqueue
<1>4. fate'[t] = "chained"
  BY <1>1, <1>3, MovedFacts DEF Fates
<1>5. chain'[1] = <<>>
  <2>1. chain[1] = <<>>
    BY <1>1, LoneFacts, Numbers
  <2>2. QED
    BY <1>1, <1>2, <1>3, <2>1, Numbers DEF TypeOK
<1>6. UNCHANGED <<top, task, stage, cancelled, loops, gen, opAt, opOf, scenario>>
  OBVIOUS
<1>7. AbortInv(t)'
  <2>1. "history" \in scenario.faults => \A d \in Ops : opAt[d] # "aborting"
    BY DEF Calm, Rescues, Replacing
  <2>2. QED
    BY <1>6, <2>1 DEF AbortInv
<1>8. Moving(t)'
  BY <1>1, <1>6, <1>7 DEF Moving, Onward
<1>9. QED
  BY <1>4, <1>5, <1>8 DEF Lone

LEMMA GuardLone ==
  ASSUME OnePlace, NEW t \in Texts, Sent = {t}, Lone(t), Calm, GuardFires
  PROVE  Lone(t)'
<1>1. CASE GuardIdles
  <2>1. UNCHANGED <<top, task, stage, carry, loops, gen, chain, fate, cancelled, opVars, scenario>>
    BY <1>1 DEF GuardIdles, scenVars, loopVars, textVars, topVars, instVars, chainVars
  <2>2. QED
    BY <2>1, LoneKept DEF HasSaid
<1>2. CASE RescueParks
  <2>1. UNCHANGED <<top, task, stage, carry, loops, gen, chain, fate, cancelled, opVars, scenario>>
    BY <1>2 DEF RescueParks, scenVars, loopVars, textVars, topVars, instVars, chainVars
  <2>2. QED
    BY <2>1, LoneKept DEF HasSaid
<1>3. CASE RescueContinues
  BY <1>3, RescueContinuesLone
<1>4. CASE RescueRestores
  BY <1>4, RescueRestoresLone
<1>5. CASE RescueStartsAfresh
  <2>1. slot = t /\ FreshTask(slot)
    BY <1>5, RescueFacts DEF RescueStartsAfresh
  <2>2. QED
    BY <2>1, FreshTaskLone
<1>6. QED
  BY <1>1, <1>2, <1>3, <1>4, <1>5 DEF GuardFires

LEMMA StreamLone ==
  ASSUME OnePlace, NEW t \in Texts, Sent = {t}, Lone(t), StreamStarts \/ StreamEnds
  PROVE  Lone(t)'
<1>1. UNCHANGED <<top, task, stage, carry, loops, gen, chain, fate, cancelled, opVars, scenario>>
  BY DEF StreamStarts, StreamEnds, scenVars, loopVars, textVars, instVars, chainVars
<1>2. QED
  BY <1>1, LoneKept DEF HasSaid
-----------------------------------------------------------------------------
(* Before the first message nothing replaces the task. *)
LEMMA QuietStep ==
  ASSUME OnePlace, Sent = {}, Untouched,
         \/ \E c \in Ops : OpStep(c)
         \/ \E i \in Instances : ResumeStep(i) \/ ContStep(i) \/ LoopStep(i)
         \/ \E t \in Texts : EditParks(t)
         \/ StreamStarts \/ StreamEnds \/ GuardFires
  PROVE  Untouched'
<1>1. TypeOK /\ slot = None /\ \A i \in Instances : chain[i] = <<>> /\ cont[i] = "idle"
  BY QuietFacts DEF OnePlace
<1>2. ASSUME NEW c \in Ops, OpStep(c) PROVE FALSE
  BY <1>2 DEF OpStep, CancelRestores, CancelWithoutHistory, Install, Untouched
<1>3. ASSUME NEW i \in Instances, ResumeStep(i) PROVE FALSE
  <2>1. stage[i] \in {"none", "settled"}
    BY DEF Untouched
  <2>2. QED
    BY <1>3, <2>1 DEF ResumeStep, Resume, ResumeElsewhere, ResumeAsks, ResumeThrows, ResumeSays,
                      ResumeLoops
<1>4. ASSUME NEW i \in Instances, ContStep(i) PROVE FALSE
  BY <1>1, <1>4 DEF ContStep, ContTakes, ContWaited, ContTimesOut, ContStarts
<1>5. ASSUME NEW i \in Instances, LoopStep(i) PROVE Untouched'
  <2>1. CASE Works(i)
    BY <2>1, UntouchedKept, Numbers
       DEF Works, topVars, instVars, loopVars, chainVars, opVars, Untouched
  <2>2. CASE Completes(i)
    BY <2>2, UntouchedKept, Numbers
       DEF Completes, topVars, instVars, chainVars, opVars, Untouched
  <2>3. CASE LoopEnds(i)
    <3>1. UNCHANGED <<top, task, cancelled, opAt, chain, gen>>
      BY <2>3 DEF LoopEnds, chainVars, opVars
    <3>2. \A j \in Instances : stage'[j] = stage[j]
      <4>1. stage[i] # "looping"
        BY DEF Untouched
      <4>2. QED
        BY <1>1, <2>3, <4>1 DEF LoopEnds, Stage, TypeOK
    <3>3. \A j \in Instances : loops'[j] \subseteq loops[j]
      BY <1>1, <2>3 DEF LoopEnds, TypeOK
    <3>4. QED
      BY <3>1, <3>2, <3>3, UntouchedKept, Numbers DEF Untouched
  <2>4. QED
    BY <1>5, <2>1, <2>2, <2>3 DEF LoopStep
<1>6. ASSUME NEW t \in Texts, EditParks(t) PROVE FALSE
  BY <1>6, QuietFacts DEF EditParks
<1>7. CASE GuardFires
  <2>1. GuardIdles
    BY <1>1, <1>7 DEF GuardFires, RescueParks, RescueContinues, RescueRestores,
                      RescueStartsAfresh, Rescues
  <2>2. QED
    BY <2>1, UntouchedKept, Numbers
       DEF GuardIdles, topVars, instVars, loopVars, chainVars, opVars, Untouched
<1>8. CASE StreamStarts \/ StreamEnds
  BY <1>8, UntouchedKept, Numbers
     DEF StreamStarts, StreamEnds, instVars, loopVars, chainVars, opVars, Untouched
<1>9. QED
  BY <1>2, <1>3, <1>4, <1>5, <1>6, <1>7, <1>8
-----------------------------------------------------------------------------
(* A message that is sent is one more. *)
LEMMA SendAdds ==
  ASSUME OnePlace, NEW t \in Texts, Send(t) PROVE t \notin Sent /\ t \in Sent' /\ Sent \subseteq Sent'
<1>1. TypeOK /\ fate[t] = "unsent"
  BY DEF OnePlace, Send, IsNextText
<1>2. CASE SendAfresh(t)
  BY <1>1, <1>2, FreshTaskFacts, SaidFacts DEF SendAfresh, Sent
<1>3. CASE SendToCancelled(t) \/ SendInterrupts(t)
  BY <1>1, <1>3, ParkedFacts DEF SendToCancelled, SendInterrupts, Sent
<1>4. CASE SendAfterCompletion(t)
  BY <1>1, <1>4 DEF SendAfterCompletion, Sent
<1>5. CASE SendToAsk(t)
  BY <1>1, <1>5, MovedFacts DEF SendToAsk, Sent, Fates
<1>6. CASE SendContinues(t)
  BY <1>1, <1>6, MovedFacts DEF SendContinues, Enqueue, Sent, Fates
<1>7. QED
  BY <1>1, <1>2, <1>3, <1>4, <1>5, <1>6 DEF Send, Sent

(* The first message interrupts the task, edits its end or waits in its chain. *)
LEMMA FirstSend ==
  ASSUME OnePlace, Sent = {}, Untouched, NEW t \in Texts, Send(t) PROVE Lone(t)'
<1>1. TypeOK /\ top # None /\ ~cancelled[top] /\ stage[top] = "settled" /\ scenario' = scenario
  BY Numbers DEF OnePlace, Untouched, Send, scenVars
<1>2. CASE SendInterrupts(t)
  <2>1. Parked(t) /\ StartCancel /\ UNCHANGED <<top, task, stage, loopVars, scenario>>
    BY <1>1, <1>2 DEF SendInterrupts
  <2>2. QED
    BY <2>1, ParkFirst
<1>3. CASE SendAfterCompletion(t)
  <2>1. fate'[t] = "editing"
    BY <1>1, <1>3 DEF SendAfterCompletion, TypeOK
  <2>2. Untouched'
    BY <1>3, UntouchedKept, Numbers
       DEF SendAfterCompletion, topVars, instVars, loopVars, chainVars, opVars, Untouched
  <2>3. QED
    BY <2>1, <2>2 DEF Lone
<1>4. CASE SendContinues(t)
  <2>1. MoveTo(t, "chained") /\ chain' = [chain EXCEPT ![top] = Append(@, t)]
    BY <1>4 DEF SendContinues, Enqueue
  <2>2. fate'[t] = "chained"
    BY <1>1, <2>1, MovedFacts DEF Fates
  <2>3. \A i \in Instances \ {1} : chain'[i] = chain[i]
    BY <1>1, <2>1 DEF Untouched, TypeOK
  <2>4. UNCHANGED <<top, task, stage, cancelled, loops, gen, opAt>>
    BY <1>4 DEF SendContinues, topVars, instVars, loopVars, opVars
  <2>5. Untouched'
    BY <2>3, <2>4, UntouchedKept, Numbers DEF Untouched
  <2>6. QED
    BY <2>2, <2>5 DEF Lone
<1>5. QED
  BY <1>1, <1>2, <1>3, <1>4 DEF Send, SendAfresh, SendToCancelled, SendToAsk
-----------------------------------------------------------------------------
LEMMA CalmStep ==
  ASSUME TypeOK, [Next]_vars, Calm' PROVE Calm /\ scenario' = scenario /\ ~Cancel
<1>1. CASE Cancel
  <2>1. presses' = presses + 1 /\ presses \in Nat
    BY <1>1, Numbers DEF Cancel, TypeOK
  <2>2. QED
    BY <2>1 DEF Calm
<1>2. CASE ~Cancel
  <2>1. UNCHANGED scenVars
    <3>1. ASSUME NEW c \in Ops, OpStep(c) PROVE UNCHANGED scenVars
      BY <3>1 DEF OpStep, CancelRestores, CancelWithoutHistory, Install
    <3>2. ASSUME NEW i \in Instances, ResumeStep(i) PROVE UNCHANGED scenVars
      BY <3>2 DEF ResumeStep, Resume, ResumeElsewhere, ResumeAsks, ResumeThrows, ResumeSays,
                  ResumeLoops
    <3>3. ASSUME NEW i \in Instances, ContStep(i) \/ LoopStep(i) PROVE UNCHANGED scenVars
      BY <3>3 DEF ContStep, ContTakes, ContWaited, ContTimesOut, ContStarts, LoopStep, Works,
                  Completes, LoopEnds
    <3>4. ASSUME NEW t \in Texts, Send(t) \/ EditParks(t) PROVE UNCHANGED scenVars
      BY <3>4 DEF Send, EditParks
    <3>5. CASE StreamStarts \/ StreamEnds \/ GuardFires
      BY <3>5 DEF StreamStarts, StreamEnds, GuardFires, GuardIdles, RescueParks,
                  RescueContinues, RescueRestores, RescueStartsAfresh
    <3>6. CASE UNCHANGED vars
      BY <3>6 DEF vars
    <3>7. QED
      BY <1>2, <3>1, <3>2, <3>3, <3>4, <3>5, <3>6 DEF Next
  <2>2. QED
    BY <1>2, <2>1 DEF Calm, scenVars
<1>3. QED
  BY <1>1, <1>2

LEMMA LoneStep == IInv /\ [Next]_vars => IInv'
<1> SUFFICES ASSUME IInv, [Next]_vars PROVE IInv'
  OBVIOUS
<1>1. OnePlace /\ OnePlace' /\ TypeOK
  BY PlaceStep DEF IInv, OnePlace
<1>2. SUFFICES ASSUME Calm'
               PROVE  /\ Sent' = {} => Untouched'
                      /\ \A t \in Texts : Sent' = {t} => Lone(t)'
  BY <1>1 DEF IInv, LoneInv
<1>3. Calm /\ scenario' = scenario /\ ~Cancel
  BY <1>1, <1>2, CalmStep
<1>4. (Sent = {} => Untouched) /\ \A t \in Texts : Sent = {t} => Lone(t)
  BY <1>3 DEF IInv, LoneInv
<1>5. CASE \E u \in Texts : Send(u)
  <2>1. PICK u \in Texts : Send(u)
    BY <1>5
  <2>2. u \notin Sent /\ u \in Sent' /\ Sent \subseteq Sent'
    BY <1>1, <2>1, SendAdds
  <2>3. ASSUME NEW t \in Texts, Sent' = {t} PROVE Lone(t)'
    <3>1. t = u /\ Sent = {}
      BY <2>2, <2>3
    <3>2. QED
      BY <1>1, <1>4, <2>1, <3>1, FirstSend
  <2>4. QED
    BY <2>2, <2>3
<1>6. CASE UNCHANGED vars
  <2>1. Sent' = Sent
    BY <1>6, SentSame DEF vars, textVars
  <2>2. ASSUME Untouched PROVE Untouched'
    BY <1>6, <2>2 DEF vars, topVars, instVars, loopVars, chainVars, opVars, Untouched
  <2>3. ASSUME NEW t \in Texts, Sent = {t}, Lone(t) PROVE Lone(t)'
    <3>1. UNCHANGED <<top, task, stage, carry, loops, gen, chain, fate, cancelled, opVars, scenario>>
      BY <1>6 DEF vars, topVars, instVars, loopVars, chainVars, textVars, scenVars
    <3>2. QED
      BY <1>1, <2>3, <3>1, LoneKept DEF HasSaid
  <2>4. QED
    BY <1>4, <2>1, <2>2, <2>3
<1>7. CASE \/ \E c \in Ops : OpStep(c)
           \/ \E i \in Instances : ResumeStep(i) \/ ContStep(i) \/ LoopStep(i)
           \/ \E t \in Texts : EditParks(t)
           \/ StreamStarts \/ StreamEnds \/ GuardFires
  <2>1. Sent' = Sent
    BY <1>1, <1>7, SentKept
  <2>2. ASSUME Sent = {} PROVE Untouched'
    BY <1>1, <1>4, <1>7, <2>2, QuietStep
  <2>3. ASSUME NEW t \in Texts, Sent = {t} PROVE Lone(t)'
    <3>1. Lone(t)
      BY <1>4, <2>3
    <3>2. ASSUME NEW c \in Ops, OpStep(c) PROVE Lone(t)'
      BY <1>1, <2>3, <3>1, <3>2, CancelRestoresLone, CancelWithoutHistoryLone, InstallLone
         DEF OpStep
    <3>3. ASSUME NEW i \in Instances, ResumeStep(i) PROVE Lone(t)'
      BY <1>1, <2>3, <3>1, <3>3, ResumeLone, ResumeElsewhereLone, ResumeThrowsLone,
         ResumeSaysLone, ResumeLoopsLone DEF ResumeStep
    <3>4. ASSUME NEW i \in Instances, ContStep(i) \/ LoopStep(i) PROVE Lone(t)'
      BY <1>1, <2>3, <3>1, <3>4, ContLone, LoopStepLone
    <3>5. ASSUME NEW u \in Texts, EditParks(u) PROVE Lone(t)'
      BY <1>1, <2>3, <3>1, <3>5, EditParksLone
    <3>6. CASE StreamStarts \/ StreamEnds \/ GuardFires
      BY <1>1, <1>3, <2>3, <3>1, <3>6, StreamLone, GuardLone
    <3>7. QED
      BY <1>7, <3>2, <3>3, <3>4, <3>5, <3>6
  <2>4. QED
    BY <2>1, <2>2, <2>3
<1>8. QED
  BY <1>3, <1>5, <1>6, <1>7 DEF Next

LEMMA LoneInit == Init => IInv
<1> SUFFICES ASSUME Init PROVE IInv
  OBVIOUS
<1>1. Sent = {}
  BY DEF Init, Sent
<1>2. Untouched
  BY Numbers DEF Init, Untouched
<1>3. QED
  BY <1>1, <1>2, InitPlace DEF IInv, LoneInv

LEMMA Invariance == Spec => []IInv
<1>1. QED
  BY LoneInit, LoneStep, PTL DEF Spec

(* The only message of a user who does not press Cancel is neither lost nor delivered twice,
   whatever fails while its task is being replaced and however often the task is replaced:
   the slot, the chain, the restoration that carries it and the rescue guard hand it on one
   to the other, and the instance that says it is never a cancelled one. *)
THEOREM LoneIsSafe == Spec => []LoneMessageIsSafe
<1>1. IInv => LoneMessageIsSafe
  <2> SUFFICES ASSUME IInv, NEW t \in Texts, fate[t] \in {"lost", "twice"}, ~(presses > 0),
                      Sent = {t}, ~({"history", "slow"} \subseteq scenario.faults)
               PROVE  FALSE
    BY DEF LoneMessageIsSafe
  <2>1. presses = 0
    BY Numbers DEF IInv, OnePlace, TypeOK
  <2>2. Lone(t)
    BY <2>1 DEF IInv, LoneInv, Calm
  <2>3. QED
    BY <2>2 DEF Lone
<1>2. QED
  BY <1>1, Invariance, PTL
=============================================================================
