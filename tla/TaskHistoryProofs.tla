------------------------- MODULE TaskHistoryProofs -------------------------
(***************************************************************************)
(* Proofs about TaskHistory: the type invariant, the three invariants of   *)
(* the histories and their files, and that a stop loses nothing.           *)
(*                                                                         *)
(* The first part has the facts about the rows below a number, about       *)
(* sequences and about the chains of saves that the steps rest on. The     *)
(* induction that a recursive definition needs is made by the least        *)
(* counterexample (WFMin): no theorem with an operator as its parameter.   *)
(***************************************************************************)
EXTENDS TaskHistory, TLAPS, WellFoundedInduction, SequenceTheorems

-----------------------------------------------------------------------------
(***************************************************************************)
(* Sequences and the rows below a number                                   *)
(***************************************************************************)

\* A set of naturals that is not empty has a least element.
LEMMA Least ==
  ASSUME NEW T, T \subseteq Nat, T # {}
  PROVE  \E x \in T : \A y \in T : x <= y
<1>1. IsWellFoundedOn(OpToRel(<, Nat), Nat) BY NatLessThanWellFounded
<1>2. \E x \in T : \A y \in T : ~(<<y, x>> \in OpToRel(<, Nat)) BY <1>1, WFMin
<1>3. \E x \in T : \A y \in T : ~(y < x) BY <1>2 DEF OpToRel
<1>4. QED BY <1>3

\* What Append does to the length, the members and the set of a sequence.
LEMMA AppendFacts ==
  ASSUME NEW T, NEW s \in Seq(T), NEW e \in T
  PROVE  /\ Append(s, e) \in Seq(T) /\ Append(s, e) # <<>> /\ Append(s, e) # s
         /\ Len(Append(s, e)) = Len(s) + 1
         /\ DOMAIN Append(s, e) = 1..(Len(s) + 1) /\ DOMAIN s = 1..Len(s)
         /\ \A p \in 1..Len(s) : Append(s, e)[p] = s[p]
         /\ Append(s, e)[Len(s) + 1] = e
         /\ ToSet(Append(s, e)) = ToSet(s) \cup {e}
<1>1. /\ Append(s, e) \in Seq(T) /\ Append(s, e) # <<>>
      /\ Len(Append(s, e)) = Len(s) + 1
      /\ DOMAIN Append(s, e) = 1..(Len(s) + 1) /\ DOMAIN s = 1..Len(s)
      /\ \A p \in 1..Len(s) : Append(s, e)[p] = s[p]
      /\ Append(s, e)[Len(s) + 1] = e
  OBVIOUS
<1>2. Append(s, e) # s
  <2>1. Len(s) \in Nat /\ Len(s) + 1 # Len(s) OBVIOUS
  <2>2. QED BY <1>1, <2>1
<1>3. ToSet(Append(s, e)) = ToSet(s) \cup {e}
  <2> DEFINE a == Append(s, e)
  <2>1. ASSUME NEW x \in ToSet(a) PROVE x \in ToSet(s) \cup {e}
    <3>1. PICK p \in 1..(Len(s) + 1) : x = a[p] BY <2>1, <1>1 DEF ToSet
    <3>2. QED BY <3>1, <1>1 DEF ToSet
  <2>2. ASSUME NEW x \in ToSet(s) \cup {e} PROVE x \in ToSet(a)
    <3>1. CASE x = e
      <4>1. Len(s) + 1 \in DOMAIN a /\ a[Len(s) + 1] = e BY <1>1
      <4>2. QED BY <4>1, <3>1 DEF ToSet
    <3>2. CASE x \in ToSet(s)
      <4>1. PICK p \in 1..Len(s) : x = s[p] BY <3>2, <1>1 DEF ToSet
      <4>2. p \in DOMAIN a /\ a[p] = x BY <4>1, <1>1
      <4>3. QED BY <4>2 DEF ToSet
    <3>3. QED BY <3>1, <3>2, <2>2
  <2>3. QED BY <2>1, <2>2
<1>4. QED BY <1>1, <1>2, <1>3

\* What Head and Tail take from a sequence that is not empty.
LEMMA TailFacts ==
  ASSUME NEW T, NEW s \in Seq(T), s # <<>>
  PROVE  /\ Head(s) = s[1] /\ Head(s) \in T /\ 1 \in DOMAIN s
         /\ Tail(s) \in Seq(T) /\ Tail(s) # s
         /\ Len(s) \in Nat /\ Len(s) > 0 /\ Len(Tail(s)) = Len(s) - 1
         /\ DOMAIN Tail(s) = 1..(Len(s) - 1) /\ DOMAIN s = 1..Len(s)
         /\ \A p \in 1..(Len(s) - 1) : Tail(s)[p] = s[p + 1]
         /\ Tail(s) = <<>> <=> Len(s) = 1
<1>1. Len(s) \in Nat /\ Len(s) > 0 /\ DOMAIN s = 1..Len(s) OBVIOUS
<1>2. Head(s) = s[1] /\ Head(s) \in T /\ 1 \in DOMAIN s BY <1>1
<1>3. /\ Tail(s) \in Seq(T) /\ Len(Tail(s)) = Len(s) - 1
      /\ \A p \in 1..(Len(s) - 1) : Tail(s)[p] = s[p + 1]
  BY <1>1
<1>4. DOMAIN Tail(s) = 1..(Len(s) - 1) BY <1>3
<1>5. \A n \in Nat : n - 1 # n /\ (n - 1 = 0 <=> n = 1) OBVIOUS
<1>6. Tail(s) # s BY <1>1, <1>3, <1>5
<1>7. Tail(s) = <<>> <=> Len(s) = 1
  <2>1. Tail(s) = <<>> <=> Len(Tail(s)) = 0 BY <1>3
  <2>2. QED BY <2>1, <1>1, <1>3, <1>5
<1>8. QED BY <1>1, <1>2, <1>3, <1>4, <1>6, <1>7

\* The set of a sequence is of its members, and each of them is at a place.
LEMMA SetOfSeq ==
  ASSUME NEW T, NEW s \in Seq(T)
  PROVE  /\ ToSet(s) \subseteq T /\ Len(s) \in Nat /\ DOMAIN s = 1..Len(s)
         /\ \A p \in 1..Len(s) : s[p] \in ToSet(s) /\ s[p] \in T
         /\ \A x \in ToSet(s) : \E p \in 1..Len(s) : s[p] = x
         /\ s = <<>> <=> Len(s) = 0
         /\ s = <<>> => ToSet(s) = {}
<1>1. DOMAIN s = 1..Len(s) /\ Len(s) \in Nat /\ (s = <<>> <=> Len(s) = 0) OBVIOUS
<1>2. \A p \in 1..Len(s) : s[p] \in T OBVIOUS
<1>3. QED BY <1>1, <1>2 DEF ToSet

\* The filter of Before(), as far as the index m.
IsFilter(g, rows, n, m) ==
  g = [k \in 0..m |->
         IF k = 0 THEN <<>>
         ELSE IF rows[k] < n THEN Append(g[k - 1], rows[k]) ELSE g[k - 1]]

\* The recursive definition has a solution.
LEMMA FilterExists ==
  ASSUME NEW S, S \subseteq Nat, NEW rows \in Seq(S), NEW n \in Nat
  PROVE  \A m \in 0..Len(rows) : \E g : IsFilter(g, rows, n, m)
<1> DEFINE T == {m \in 0..Len(rows) : ~ \E g : IsFilter(g, rows, n, m)}
<1> SUFFICES ASSUME T # {} PROVE FALSE OBVIOUS
<1>1. PICK m \in T : \A y \in T : m <= y
  <2>1. T \subseteq Nat OBVIOUS
  <2>2. QED BY <2>1, Least
<1>2. CASE m = 0
  <2> DEFINE g == [k \in 0..0 |-> <<>>]
  <2>1. IsFilter(g, rows, n, 0) BY DEF IsFilter
  <2>2. QED BY <2>1, <1>1, <1>2
<1>3. CASE m # 0
  <2>1. m - 1 \in 0..Len(rows) /\ m - 1 \notin T BY <1>1, <1>3
  <2>2. PICK g : IsFilter(g, rows, n, m - 1) BY <2>1
  <2> DEFINE step(q, k) == IF k = 0 THEN <<>>
                           ELSE IF rows[k] < n THEN Append(q[k - 1], rows[k]) ELSE q[k - 1]
             h == [k \in 0..m |-> IF k = m THEN step(g, k) ELSE g[k]]
  <2>3. \A k \in 0..(m - 1) : h[k] = g[k] BY <1>1, <1>3
  <2>4. \A k \in 0..m : h[k] = step(h, k)
    <3> SUFFICES ASSUME NEW k \in 0..m PROVE h[k] = step(h, k) OBVIOUS
    <3>1. CASE k = m BY <3>1, <1>3, <2>3, <1>1
    <3>2. CASE k # m
      <4>1. k \in 0..(m - 1) /\ h[k] = g[k] BY <3>2, <2>3, <1>1
      <4>2. k # 0 => k - 1 \in 0..(m - 1) BY <3>2, <1>1
      <4>3. g[k] = step(g, k) BY <2>2, <4>1 DEF IsFilter
      <4>4. QED BY <4>1, <4>2, <4>3, <2>3
    <3>3. QED BY <3>1, <3>2
  <2>5. h = [k \in 0..m |-> h[k]] OBVIOUS
  <2> HIDE DEF h
  <2>6. IsFilter(h, rows, n, m) BY <2>4, <2>5 DEF IsFilter
  <2>7. QED BY <2>6, <1>1
<1>4. QED BY <1>2, <1>3

\* Before() keeps the type of the rows, and of them the ones below n.
LEMMA BeforeFacts ==
  ASSUME NEW S, S \subseteq Nat, NEW rows \in Seq(S), NEW n \in Nat
  PROVE  /\ Before(rows, n) \in Seq(S)
         /\ ToSet(Before(rows, n)) = {r \in ToSet(rows) : r < n}
<1> DEFINE kept == CHOOSE g : IsFilter(g, rows, n, Len(rows))
<1>1. \E g : IsFilter(g, rows, n, Len(rows))
  <2>1. Len(rows) \in 0..Len(rows) OBVIOUS
  <2>2. QED BY <2>1, FilterExists
<1>2. IsFilter(kept, rows, n, Len(rows)) BY <1>1, Zenon
<1>3. Before(rows, n) = kept[Len(rows)] BY DEF Before, IsFilter
<1> HIDE DEF kept
<1> DEFINE below(m) == {rows[k] : k \in {p \in 1..m : rows[p] < n}}
           good(m) == kept[m] \in Seq(S) /\ ToSet(kept[m]) = below(m)
           T == {m \in 0..Len(rows) : ~ good(m)}
<1>4. T = {}
  <2> SUFFICES ASSUME T # {} PROVE FALSE OBVIOUS
  <2>1. PICK m \in T : \A y \in T : m <= y
    <3>1. T \subseteq Nat OBVIOUS
    <3>2. QED BY <3>1, Least
  <2>2. m \in 0..Len(rows) /\ ~ good(m) BY <2>1
  <2>3. CASE m = 0
    <3>1. kept[0] = <<>> BY <1>2 DEF IsFilter
    <3>2. good(0) BY <3>1 DEF ToSet
    <3>3. QED BY <3>2, <2>2, <2>3
  <2>4. CASE m # 0
    <3>1. m - 1 \in 0..Len(rows) /\ m \in 1..Len(rows) BY <2>2, <2>4
    <3>2. m - 1 \notin T
      <4>1. ~(m <= m - 1) BY <3>1
      <4>2. QED BY <4>1, <2>1
    <3>3. good(m - 1) BY <3>1, <3>2
    <3> DEFINE q == kept[m - 1]
    <3>4. kept[m] = IF rows[m] < n THEN Append(q, rows[m]) ELSE q
      BY <1>2, <3>1, <2>4 DEF IsFilter
    <3>5. rows[m] \in S BY <3>1
    <3>6. q \in Seq(S) /\ ToSet(q) = below(m - 1) BY <3>3
    <3> HIDE DEF q
    <3>7. /\ Append(q, rows[m]) \in Seq(S)
          /\ ToSet(Append(q, rows[m])) = ToSet(q) \cup {rows[m]}
      BY <3>5, <3>6, AppendFacts
    <3>8. kept[m] \in Seq(S) BY <3>4, <3>6, <3>7
    <3>9. ToSet(kept[m]) = below(m) BY <3>4, <3>6, <3>7, <3>1
    <3>10. QED BY <3>8, <3>9, <2>2
  <2>5. QED BY <2>3, <2>4
<1>5. good(Len(rows))
  <2>1. Len(rows) \in 0..Len(rows) OBVIOUS
  <2>2. QED BY <2>1, <1>4
<1>6. below(Len(rows)) = {r \in ToSet(rows) : r < n} BY DEF ToSet
<1>7. QED BY <1>3, <1>5, <1>6

-----------------------------------------------------------------------------
(***************************************************************************)
(* The parts of a step                                                     *)
(***************************************************************************)

\* What is known of the constants.
LEMMA Constants ==
  /\ Instances \subseteq Nat /\ 1 \in Instances /\ None \notin Instances
  /\ Rows \subseteq Nat /\ Rows \subseteq 1..(MaxRows + 3) /\ MaxRows \in Nat /\ MaxRows >= 4
  /\ MaxInstances \in Nat /\ MaxOps \in Nat
  /\ "ui" \in Files /\ "api" \in Files /\ \A f \in Files : f = "ui" \/ f = "api"
  /\ \A sc \in Scenarios : sc.rows \in 0..MaxRows
BY HistoryAssumption DEF HistoryAssumption, Instances, None, Rows, Files

\* One place of a function of functions.
LEMMA SetAt ==
  ASSUME NEW A, NEW B, NEW T, NEW m \in [A -> [B -> T]], NEW a \in A, NEW b \in B,
         NEW v \in T, NEW n, n = [m EXCEPT ![a][b] = v]
  PROVE  /\ n \in [A -> [B -> T]] /\ n[a][b] = v
         /\ \A x \in A : x # a => n[x] = m[x]
         /\ \A y \in B : y # b => n[a][y] = m[a][y]
OBVIOUS

LEMMA EntryFacts ==
  ASSUME NEW rows \in Seq(Rows), NEW a \in BOOLEAN, NEW b \in BOOLEAN
  PROVE  /\ Entry(rows, a, b) \in Entries
         /\ Entry(rows, a, b).rows = rows /\ Entry(rows, a, b).forced = a
BY DEF Entry, Entries

\* A save is put at the end of one chain.
LEMMA EnqueueFacts ==
  ASSUME queue \in Chains, NEW i \in Instances, NEW f \in Files, NEW e \in Entries,
         Enqueue(i, f, e)
  PROVE  /\ queue' \in Chains /\ queue' # queue
         /\ queue'[i][f] = Append(queue[i][f], e)
         /\ \A j \in Instances : j # i => queue'[j] = queue[j]
         /\ \A g \in Files : g # f => queue'[i][g] = queue[i][g]
<1>1. queue[i][f] \in Seq(Entries) BY DEF Chains
<1>2. Append(queue[i][f], e) \in Seq(Entries) /\ Append(queue[i][f], e) # queue[i][f]
  BY <1>1, AppendFacts
<1>3. queue' = [queue EXCEPT ![i][f] = Append(queue[i][f], e)] BY DEF Enqueue
<1>4. queue \in [Instances -> [Files -> Seq(Entries)]] BY DEF Chains
<1>5. /\ queue' \in [Instances -> [Files -> Seq(Entries)]]
      /\ queue'[i][f] = Append(queue[i][f], e)
      /\ \A j \in Instances : j # i => queue'[j] = queue[j]
      /\ \A g \in Files : g # f => queue'[i][g] = queue[i][g]
  BY <1>2, <1>3, <1>4, SetAt
<1>6. queue' # queue BY <1>2, <1>5
<1>7. QED BY <1>5, <1>6 DEF Chains

\* The first save of a chain is over: it is taken off, and who waits counts down.
LEMMA SettleFacts ==
  ASSUME queue \in Chains, ahead \in [Files -> Nat], op \in Ops,
         NEW i \in Instances, NEW f \in Files, queue[i][f] # <<>>, Settle(i, f)
  PROVE  /\ queue' \in Chains
         /\ queue'[i][f] = Tail(queue[i][f])
         /\ \A j \in Instances : j # i => queue'[j] = queue[j]
         /\ \A g \in Files : g # f => queue'[i][g] = queue[i][g]
         /\ ahead' \in [Files -> Nat]
         /\ i # cur => ahead' = ahead
         /\ ahead'[f] = IF i = cur /\ ahead[f] > 0 THEN ahead[f] - 1 ELSE ahead[f]
         /\ \A g \in Files : g # f => ahead'[g] = ahead[g]
         /\ op' \in Ops
         /\ op'.pc = op.pc /\ op'.kind = op.kind /\ op'.inst = op.inst
         /\ op'.cut = op.cut /\ op'.upto = op.upto
         /\ op'.wait = IF op.inst = i /\ op.pc = f /\ op.wait > 0 THEN op.wait - 1 ELSE op.wait
<1>1. queue[i][f] \in Seq(Entries) BY DEF Chains
<1>2. Tail(queue[i][f]) \in Seq(Entries) BY <1>1, TailFacts
<1>3. queue' = [queue EXCEPT ![i][f] = Tail(queue[i][f])] BY DEF Settle
<1>4. queue \in [Instances -> [Files -> Seq(Entries)]] BY DEF Chains
<1>5. /\ queue' \in [Instances -> [Files -> Seq(Entries)]]
      /\ queue'[i][f] = Tail(queue[i][f])
      /\ \A j \in Instances : j # i => queue'[j] = queue[j]
      /\ \A g \in Files : g # f => queue'[i][g] = queue[i][g]
  BY <1>2, <1>3, <1>4, SetAt
<1>6. ahead' = IF i = cur /\ ahead[f] > 0 THEN [ahead EXCEPT ![f] = ahead[f] - 1] ELSE ahead
  BY DEF Settle
<1>7. /\ ahead' \in [Files -> Nat]
      /\ i # cur => ahead' = ahead
      /\ ahead'[f] = IF i = cur /\ ahead[f] > 0 THEN ahead[f] - 1 ELSE ahead[f]
      /\ \A g \in Files : g # f => ahead'[g] = ahead[g]
  BY <1>6
<1>8. <<i, f>> \in Awaits <=> op.inst = i /\ op.pc = f /\ op.wait > 0 BY DEF Awaits
<1>9. op' = IF op.inst = i /\ op.pc = f /\ op.wait > 0 THEN [op EXCEPT !.wait = op.wait - 1]
                                                      ELSE op
  BY <1>8 DEF Settle
<1>10. op.wait \in Nat BY DEF Ops
<1>11. /\ op' \in Ops
       /\ op'.pc = op.pc /\ op'.kind = op.kind /\ op'.inst = op.inst
       /\ op'.cut = op.cut /\ op'.upto = op.upto
       /\ op'.wait = IF op.inst = i /\ op.pc = f /\ op.wait > 0 THEN op.wait - 1 ELSE op.wait
  BY <1>9, <1>10 DEF Ops
<1>12. QED BY <1>5, <1>7, <1>11 DEF Chains

\* Lowest() is the least of the rows taken out, and is there.
LEMMA LowestFacts ==
  ASSUME NEW old \in Seq(Rows), NEW new \in Seq(Rows)
  PROVE  /\ Lowest(old, new) \in Nat
         /\ \A r \in ToSet(old) \ ToSet(new) : Lowest(old, new) <= r
<1> DEFINE out == ToSet(old) \ ToSet(new)
           T == {n \in out \cup {MaxRows + 3} : \A r \in out : n <= r}
<1>1. out \subseteq 1..(MaxRows + 2)
  <2>1. ToSet(old) \subseteq Rows BY SetOfSeq
  <2>2. QED BY <2>1 DEF Rows
<1>2. \E n \in 1..(MaxRows + 3) : n \in out \cup {MaxRows + 3} /\ \A r \in out : n <= r
  <2>1. CASE out = {}
    <3>1. MaxRows + 3 \in 1..(MaxRows + 3) BY Constants
    <3>2. QED BY <2>1, <3>1
  <2>2. CASE out # {}
    <3>1. out \subseteq Nat BY <1>1, Constants
    <3>2. PICK n \in out : \A r \in out : n <= r BY <3>1, <2>2, Least
    <3>3. n \in 1..(MaxRows + 3) BY <1>1, Constants
    <3>4. QED BY <3>2, <3>3
  <2>3. QED BY <2>1, <2>2
<1>3. Lowest(old, new) \in 1..(MaxRows + 3) /\ \A r \in out : Lowest(old, new) <= r
  BY <1>2 DEF Lowest
<1>4. QED BY <1>3, Constants

\* A frozen instance refuses to rewind, unless it is forced.
Refuses(i, force) == frozen[i] /\ ~force

\* A rewind of one history: refused, or in memory, on the chain and in what is owed at once.
LEMMA RewindFacts ==
  ASSUME queue \in Chains, mem \in Histories, owed \subseteq Rows, cur \in Instances,
         NEW i \in Instances, NEW f \in Files, NEW rows \in Seq(Rows),
         NEW force \in BOOLEAN, Rewind(i, f, rows, force)
  PROVE  /\ queue' \in Chains /\ mem' \in Histories /\ owed' \subseteq Rows
         /\ Refuses(i, force) => mem' = mem /\ queue' = queue /\ owed' = owed
         /\ ~Refuses(i, force) =>
              /\ mem'[i][f] = rows
              /\ queue' # queue
              /\ queue'[i][f] = Append(queue[i][f], Entry(rows, force, FALSE))
         /\ i # cur => owed' = owed
         /\ \A j \in Instances : j # i => mem'[j] = mem[j] /\ queue'[j] = queue[j]
         /\ \A g \in Files : g # f => mem'[i][g] = mem[i][g] /\ queue'[i][g] = queue[i][g]
<1>1. CASE frozen[i] /\ ~force
  <2>1. mem' = mem /\ queue' = queue /\ owed' = owed BY <1>1 DEF Rewind
  <2>2. QED BY <1>1, <2>1 DEF Refuses
<1>2. CASE ~(frozen[i] /\ ~force)
  <2>1. /\ mem' = [mem EXCEPT ![i][f] = rows]
        /\ Enqueue(i, f, Entry(rows, force, FALSE))
        /\ i # cur => owed' = owed
        /\ i = cur /\ ~force => owed' = ToSet(rows) \cup (owed \ ToSet(mem[i][f]))
        /\ i = cur /\ force =>
             owed' = ToSet(rows) \cup {r \in owed : r < Lowest(mem[i][f], rows)}
    BY <1>2 DEF Rewind
  <2>2. mem \in [Instances -> [Files -> Seq(Rows)]] BY DEF Histories
  <2>3. /\ mem' \in [Instances -> [Files -> Seq(Rows)]] /\ mem'[i][f] = rows
        /\ \A j \in Instances : j # i => mem'[j] = mem[j]
        /\ \A g \in Files : g # f => mem'[i][g] = mem[i][g]
    BY <2>1, <2>2, SetAt
  <2>4. Entry(rows, force, FALSE) \in Entries BY EntryFacts
  <2>5. /\ queue' \in Chains /\ queue' # queue
        /\ queue'[i][f] = Append(queue[i][f], Entry(rows, force, FALSE))
        /\ \A j \in Instances : j # i => queue'[j] = queue[j]
        /\ \A g \in Files : g # f => queue'[i][g] = queue[i][g]
    BY <2>1, <2>4, EnqueueFacts
  <2>6. ToSet(rows) \subseteq Rows BY SetOfSeq
  <2>7. owed' \subseteq Rows BY <2>1, <2>6
  <2>8. QED BY <1>2, <2>1, <2>3, <2>5, <2>7 DEF Histories, Refuses
<1>3. QED BY <1>1, <1>2

\* What a rewind does to the file it is of, and what to the other one.
LEMMA RewindHere ==
  ASSUME queue \in Chains, mem \in Histories, NEW i \in Instances, NEW f \in Files,
         NEW rows \in Seq(Rows), NEW force \in BOOLEAN, Rewind(i, f, rows, force),
         ~Refuses(i, force)
  PROVE  mem'[i][f] = rows /\ queue'[i][f] = Append(queue[i][f], Entry(rows, force, FALSE))
<1>1. mem' = [mem EXCEPT ![i][f] = rows] /\ Enqueue(i, f, Entry(rows, force, FALSE))
  BY DEF Rewind, Refuses
<1>2. mem'[i][f] = rows BY <1>1 DEF Histories
<1>3. queue'[i][f] = Append(queue[i][f], Entry(rows, force, FALSE))
  BY <1>1 DEF Enqueue, Chains
<1>4. QED BY <1>2, <1>3

LEMMA RewindElsewhere ==
  ASSUME queue \in Chains, mem \in Histories, NEW i \in Instances, NEW f \in Files,
         NEW rows \in Seq(Rows), NEW force \in BOOLEAN, Rewind(i, f, rows, force),
         NEW g \in Files, g # f
  PROVE  mem'[i][g] = mem[i][g] /\ queue'[i][g] = queue[i][g]
<1>1. CASE mem' = mem /\ queue' = queue BY <1>1
<1>2. CASE mem' = [mem EXCEPT ![i][f] = rows] /\ Enqueue(i, f, Entry(rows, force, FALSE))
  <2>1. mem'[i][g] = mem[i][g] BY <1>2 DEF Histories
  <2>2. queue'[i][g] = queue[i][g] BY <1>2 DEF Enqueue, Chains
  <2>3. QED BY <2>1, <2>2
<1>3. QED BY <1>1, <1>2 DEF Rewind

\* abortTask() as far as its await: it saves the ui history, unless the instance is frozen.
LEMMA BeginStopFacts ==
  ASSUME TypeOK, BeginStop
  PROVE  /\ queue' \in Chains /\ mem' = mem /\ rev' = rev /\ array' = array
         /\ stop' \in [Instances -> {"no", "saving", "over"}] /\ stop'[cur] = "saving"
         /\ \A j \in Instances : j # cur => stop'[j] = stop[j] /\ queue'[j] = queue[j]
         /\ ahead' \in [Files -> Nat] /\ \A f \in Files : ahead'[f] = Len(queue'[cur][f])
         /\ queue'[cur]["api"] = queue[cur]["api"]
         /\ frozen[cur] => queue' = queue
         /\ ~frozen[cur] =>
              queue'[cur]["ui"] = Append(queue[cur]["ui"], Entry(mem[cur]["ui"], FALSE, FALSE))
<1>1. cur \in Instances /\ queue \in Chains /\ mem[cur]["ui"] \in Seq(Rows)
  BY Constants DEF TypeOK, Histories
<1>2. /\ queue' \in Chains
      /\ \A j \in Instances : j # cur => queue'[j] = queue[j]
      /\ queue'[cur]["api"] = queue[cur]["api"]
      /\ frozen[cur] => queue' = queue
      /\ ~frozen[cur] =>
           queue'[cur]["ui"] = Append(queue[cur]["ui"], Entry(mem[cur]["ui"], FALSE, FALSE))
  <2>1. CASE frozen[cur] BY <2>1, <1>1 DEF BeginStop
  <2>2. CASE ~frozen[cur]
    <3>1. Enqueue(cur, "ui", Entry(mem[cur]["ui"], FALSE, FALSE)) BY <2>2 DEF BeginStop
    <3>2. Entry(mem[cur]["ui"], FALSE, FALSE) \in Entries BY <1>1, EntryFacts
    <3>3. /\ queue' \in Chains
          /\ queue'[cur]["ui"] = Append(queue[cur]["ui"], Entry(mem[cur]["ui"], FALSE, FALSE))
          /\ \A j \in Instances : j # cur => queue'[j] = queue[j]
          /\ \A g \in Files : g # "ui" => queue'[cur][g] = queue[cur][g]
      BY <3>1, <3>2, <1>1, Constants, EnqueueFacts
    <3>4. QED BY <2>2, <3>3, Constants
  <2>3. QED BY <2>1, <2>2
<1>3. \A f \in Files : Len(queue'[cur][f]) \in Nat
  <2>1. \A f \in Files : queue'[cur][f] \in Seq(Entries) BY <1>1, <1>2 DEF Chains
  <2>2. QED BY <2>1, SetOfSeq
<1>4. /\ stop' = [stop EXCEPT ![cur] = "saving"]
      /\ ahead' = [f \in Files |-> Len(queue'[cur][f])]
      /\ mem' = mem /\ rev' = rev /\ array' = array
  BY DEF BeginStop
<1>5. ahead' \in [Files -> Nat] /\ \A f \in Files : ahead'[f] = Len(queue'[cur][f])
  BY <1>3, <1>4
<1>6. /\ stop' \in [Instances -> {"no", "saving", "over"}] /\ stop'[cur] = "saving"
      /\ \A j \in Instances : j # cur => stop'[j] = stop[j]
  BY <1>1, <1>4 DEF TypeOK
<1>7. QED BY <1>2, <1>4, <1>5, <1>6

\* The end of abortTask(): the instance in front is empty, and frozen.
LEMMA EndStopFacts ==
  ASSUME TypeOK, EndStop
  PROVE  /\ stop' \in [Instances -> {"no", "saving", "over"}] /\ stop'[cur] = "over"
         /\ frozen' \in [Instances -> BOOLEAN] /\ frozen'[cur] = TRUE
         /\ \A j \in Instances : j # cur =>
              stop'[j] = stop[j] /\ frozen'[j] = frozen[j] /\ mem'[j] = mem[j]
         /\ allow' \in [Instances -> BOOLEAN] /\ rev' \in Nat
         /\ mem' \in Histories /\ mem'[cur] = Empty
         /\ ahead' \in [Files -> Nat]
<1>1. cur \in Instances BY DEF TypeOK
<1>2. Empty \in [Files -> Seq(Rows)] BY DEF Empty
<1>3. /\ mem' \in Histories /\ mem'[cur] = Empty
      /\ \A j \in Instances : j # cur => mem'[j] = mem[j]
  BY <1>1, <1>2 DEF EndStop, Histories, TypeOK
<1>4. /\ stop' \in [Instances -> {"no", "saving", "over"}] /\ stop'[cur] = "over"
      /\ frozen' \in [Instances -> BOOLEAN] /\ frozen'[cur] = TRUE
      /\ \A j \in Instances : j # cur => stop'[j] = stop[j] /\ frozen'[j] = frozen[j]
  BY <1>1 DEF EndStop, TypeOK
<1>5. allow' \in [Instances -> BOOLEAN] /\ rev' \in Nat /\ ahead' \in [Files -> Nat]
  BY <1>1 DEF EndStop, TypeOK
<1>6. QED BY <1>3, <1>4, <1>5

\* A history with a row after its first n.
Inserted(res, n, x) == SubSeq(res, 1, n) \o <<x>> \o SubSeq(res, n + 1, Len(res))

\* A summary put into a history: a row more, and no row less.
LEMMA InsertFacts ==
  ASSUME NEW res \in Seq(Rows), NEW n \in 0..Len(res), NEW x \in Rows
  PROVE  /\ Inserted(res, n, x) \in Seq(Rows)
         /\ ToSet(Inserted(res, n, x)) = ToSet(res) \cup {x}
<1> DEFINE a == SubSeq(res, 1, n)
           b == SubSeq(res, n + 1, Len(res))
           rows == Inserted(res, n, x)
<1>1. rows = a \o <<x>> \o b BY DEF Inserted
<1> HIDE DEF rows
<1>2. Len(res) \in Nat /\ n \in Nat /\ n <= Len(res) /\ DOMAIN res = 1..Len(res) BY SetOfSeq
<1>3. /\ a \in Seq(Rows) /\ Len(a) = n
      /\ \A p \in 1..n : a[p] = res[p]
  <2>1. \A p \in 1..n : res[p] \in Rows BY <1>2
  <2>2. /\ a \in Seq(Rows) /\ Len(a) = IF 1 <= n THEN n - 1 + 1 ELSE 0
        /\ \A p \in 1..(n - 1 + 1) : a[p] = res[1 + p - 1]
    BY <1>2, <2>1, SubSeqProperties
  <2>3. QED BY <1>2, <2>2
<1>4. /\ b \in Seq(Rows) /\ Len(b) = Len(res) - n
      /\ \A p \in 1..(Len(res) - n) : b[p] = res[n + p]
  <2>1. \A p \in (n + 1)..Len(res) : res[p] \in Rows BY <1>2
  <2>2. /\ b \in Seq(Rows)
        /\ Len(b) = IF n + 1 <= Len(res) THEN Len(res) - (n + 1) + 1 ELSE 0
        /\ \A p \in 1..(Len(res) - (n + 1) + 1) : b[p] = res[n + 1 + p - 1]
    BY <1>2, <2>1, SubSeqProperties
  <2>3. Len(b) = Len(res) - n
    <3>1. CASE n + 1 <= Len(res)
      <4>1. Len(res) - (n + 1) + 1 = Len(res) - n BY <1>2
      <4>2. QED BY <4>1, <3>1, <2>2
    <3>2. CASE ~(n + 1 <= Len(res))
      <4>1. \A l, k \in Nat : k <= l /\ ~(k + 1 <= l) => l - k = 0 OBVIOUS
      <4>2. QED BY <4>1, <3>2, <2>2, <1>2
    <3>3. QED BY <3>1, <3>2
  <2>4. \A p \in 1..(Len(res) - n) : b[p] = res[n + p] BY <1>2, <2>2
  <2>5. QED BY <2>2, <2>3, <2>4
<1> HIDE DEF a, b
<1> DEFINE c == a \o <<x>>
<1>5. rows = c \o b BY <1>1
<1>6. /\ c \in Seq(Rows) /\ Len(c) = n + 1
      /\ \A p \in 1..n : c[p] = a[p]
      /\ c[n + 1] = x
  <2>1. <<x>> \in Seq(Rows) /\ Len(<<x>>) = 1 /\ <<x>>[1] = x OBVIOUS
  <2>2. /\ c \in Seq(Rows) /\ Len(c) = n + 1
        /\ \A p \in 1..(n + 1) : c[p] = IF p <= n THEN a[p] ELSE <<x>>[p - n]
    BY <1>3, <2>1, ConcatProperties
  <2>3. \A p \in 1..n : c[p] = a[p] BY <2>2, <1>2
  <2>4. n + 1 \in 1..(n + 1) /\ ~(n + 1 <= n) /\ n + 1 - n = 1 BY <1>2
  <2>5. c[n + 1] = x BY <2>1, <2>2, <2>4
  <2>6. QED BY <2>2, <2>3, <2>5
<1> HIDE DEF c
<1>7. /\ rows \in Seq(Rows) /\ DOMAIN rows = 1..(Len(res) + 1)
      /\ \A p \in 1..(n + 1) : rows[p] = c[p]
      /\ \A p \in 1..(Len(res) - n) : rows[n + 1 + p] = b[p]
  <2>1. rows = c \o b BY <1>5
  <2>2. /\ (c \o b) \in Seq(Rows) /\ Len(c \o b) = Len(c) + Len(b)
        /\ \A p \in 1..(Len(c) + Len(b)) :
             (c \o b)[p] = IF p <= Len(c) THEN c[p] ELSE b[p - Len(c)]
    BY <1>4, <1>6, ConcatProperties
  <2>3. Len(c) + Len(b) = Len(res) + 1 BY <1>2, <1>4, <1>6
  <2>4. Len(rows) = Len(res) + 1 BY <2>1, <2>2, <2>3
  <2>5. DOMAIN rows = 1..(Len(res) + 1)
    <3>1. rows \in Seq(Rows) BY <2>1, <2>2
    <3>2. QED BY <3>1, <2>4, LenProperties
  <2>6. ASSUME NEW p \in 1..(n + 1) PROVE rows[p] = c[p]
    <3>1. p \in 1..(Len(c) + Len(b)) /\ p <= Len(c) BY <2>3, <1>2, <1>6
    <3>2. QED BY <3>1, <2>1, <2>2
  <2>7. ASSUME NEW p \in 1..(Len(res) - n) PROVE rows[n + 1 + p] = b[p]
    <3> DEFINE q == n + 1 + p
    <3>1. q \in 1..(Len(c) + Len(b)) /\ ~(q <= Len(c)) /\ q - Len(c) = p
      BY <2>3, <1>2, <1>6
    <3> HIDE DEF q
    <3>2. (c \o b)[q] = b[q - Len(c)] BY <3>1, <2>2
    <3>3. rows[q] = b[p] BY <3>1, <3>2, <2>1
    <3>4. QED BY <3>3 DEF q
  <2>8. QED BY <2>1, <2>2, <2>5, <2>6, <2>7
<1>8. ASSUME NEW r \in ToSet(rows) PROVE r \in ToSet(res) \cup {x}
  <2>1. PICK p \in 1..(Len(res) + 1) : rows[p] = r BY <1>8, <1>7 DEF ToSet
  <2>2. CASE p \in 1..n
    <3>1. p \in 1..(n + 1) /\ p \in 1..Len(res) BY <2>2, <1>2
    <3>2. r = res[p] BY <3>1, <2>1, <2>2, <1>3, <1>6, <1>7
    <3>3. QED BY <3>1, <3>2, <1>2 DEF ToSet
  <2>3. CASE p = n + 1
    <3>1. n + 1 \in 1..(n + 1) BY <1>2
    <3>2. QED BY <3>1, <2>1, <2>3, <1>6, <1>7
  <2>4. CASE p > n + 1
    <3>1. p - n - 1 \in 1..(Len(res) - n) /\ p = n + 1 + (p - n - 1) BY <2>1, <2>4, <1>2
    <3>2. r = b[p - n - 1] BY <3>1, <2>1, <1>7
    <3>3. r = res[n + (p - n - 1)] BY <3>1, <3>2, <1>4
    <3>4. n + (p - n - 1) \in 1..Len(res) BY <3>1, <1>2
    <3>5. QED BY <3>3, <3>4, <1>2 DEF ToSet
  <2>5. QED BY <2>2, <2>3, <2>4, <1>2
<1>9. ASSUME NEW r \in ToSet(res) \cup {x} PROVE r \in ToSet(rows)
  <2>1. CASE r = x
    <3>1. n + 1 \in 1..(Len(res) + 1) /\ n + 1 \in 1..(n + 1) BY <1>2
    <3>2. rows[n + 1] = x BY <3>1, <1>6, <1>7
    <3>3. QED BY <3>1, <3>2, <2>1, <1>7 DEF ToSet
  <2>2. CASE r \in ToSet(res)
    <3>1. PICK p \in 1..Len(res) : res[p] = r BY <2>2, <1>2 DEF ToSet
    <3>2. CASE p <= n
      <4>1. p \in 1..n /\ p \in 1..(n + 1) /\ p \in 1..(Len(res) + 1) BY <3>1, <3>2, <1>2
      <4>2. rows[p] = r BY <4>1, <3>1, <1>3, <1>6, <1>7
      <4>3. QED BY <4>1, <4>2, <1>7 DEF ToSet
    <3>3. CASE p > n
      <4>1. /\ p - n \in 1..(Len(res) - n) /\ n + (p - n) = p
            /\ n + 1 + (p - n) \in 1..(Len(res) + 1)
        BY <3>1, <3>3, <1>2
      <4>2. rows[n + 1 + (p - n)] = r BY <4>1, <3>1, <1>4, <1>7
      <4>3. QED BY <4>1, <4>2, <1>7 DEF ToSet
    <3>4. QED BY <3>2, <3>3, <3>1, <1>2
  <2>3. QED BY <2>1, <2>2, <1>9
<1>10. QED BY <1>7, <1>8, <1>9 DEF rows

\* What a rewind leaves owed, of the instance in front: the rows that stay, and what the
\* other history has.
LEMMA RewindOwes ==
  ASSUME NEW f \in Files, NEW rows \in Seq(Rows), NEW force \in BOOLEAN,
         Rewind(cur, f, rows, force), ~Refuses(cur, force), mem[cur][f] \in Seq(Rows),
         owed \subseteq Rows
  PROVE  /\ owed' \subseteq ToSet(rows) \cup owed
         /\ owed' \cap ToSet(mem[cur][f]) \subseteq ToSet(rows)
<1>1. \/ owed' = ToSet(rows) \cup (owed \ ToSet(mem[cur][f]))
      \/ owed' = ToSet(rows) \cup {r \in owed : r < Lowest(mem[cur][f], rows)}
  BY DEF Rewind, Refuses
<1>2. CASE owed' = ToSet(rows) \cup (owed \ ToSet(mem[cur][f])) BY <1>2
<1>3. CASE owed' = ToSet(rows) \cup {r \in owed : r < Lowest(mem[cur][f], rows)}
  <2>1. \A r \in ToSet(mem[cur][f]) \ ToSet(rows) : Lowest(mem[cur][f], rows) <= r
    BY LowestFacts
  <2>2. Lowest(mem[cur][f], rows) \in Nat /\ Rows \subseteq Nat BY LowestFacts, Constants
  <2>3. ASSUME NEW x \in owed, x < Lowest(mem[cur][f], rows), x \in ToSet(mem[cur][f])
        PROVE  x \in ToSet(rows)
    <3>1. x \in Nat BY <2>2
    <3>2. ~(Lowest(mem[cur][f], rows) <= x) BY <3>1, <2>2, <2>3
    <3>3. QED BY <3>2, <2>1, <2>3
  <2>4. QED BY <1>3, <2>3
<1>4. QED BY <1>1, <1>2, <1>3

-----------------------------------------------------------------------------
(***************************************************************************)
(* The first part of the inductive invariant: what the types rest on       *)
(***************************************************************************)

\* The rewind under way is of an instance there has been, its rows have numbers that were
\* given, the save it waits for is on the chain, and only a checkpoint is restored.
OpInv ==
  /\ op.pc = "git" => op.kind = "checkpoint"
  /\ op.kind = "replace" => op.upto \in 2..(MaxRows + 3)
  /\ op.inst <= cur /\ op.upto <= next
  /\ op.pc \in Files => op.wait <= Len(queue[op.inst][op.pc])

\* Who holds the lock of a file writes the head of its chain, and the file has no name
\* then; otherwise it has one, unless the host ended in between.
WriterInv ==
  \A f \in Files :
    /\ writer[f] # None => queue[writer[f]][f] # <<>> /\ ~there[f]
    /\ writer[f] = None /\ ~there[f] => file[f] = <<>> /\ "crash" \in mishaps

\* The instances to come are untouched, and one that is stopped is frozen.
LaterInv ==
  /\ \A i \in Instances : i > cur => queue[i] = Empty /\ stop[i] = "no" /\ ~frozen[i]
  /\ stop[cur] = "over" => frozen[cur]

\* What a condensing has read is the api history, as long as its revision says so.
JobInv ==
  ~frozen[cur] => \A k \in Jobs :
    /\ job[k].pc # "none" => job[k].rev <= rev
    /\ job[k].pc = "summary" /\ job[k].rev = rev => job[k].base = mem[cur]["api"]
    /\ job[k].pc = "checked" => /\ Len(job[k].base) <= Len(job[k].res)
                                /\ job[k].rev = rev => job[k].res = mem[cur]["api"]

Base == TypeOK /\ OpInv /\ WriterInv /\ LaterInv /\ JobInv

\* A row that is appended: in memory, and at the end of the chain.
LEMMA PushFacts ==
  ASSUME TypeOK, NEW f \in Files, Push(f)
  PROVE  /\ TypeOK' /\ next' = next + 1
         /\ ~frozen[cur] /\ stop[cur] # "over"
         /\ mem'[cur][f] = Append(mem[cur][f], next)
         /\ ToSet(mem'[cur][f]) = ToSet(mem[cur][f]) \cup {next}
         /\ queue'[cur][f] = Append(queue[cur][f], Entry(mem'[cur][f], FALSE, TRUE))
         /\ Entry(mem'[cur][f], FALSE, TRUE) \in Entries
         /\ \A j \in Instances : j # cur => mem'[j] = mem[j] /\ queue'[j] = queue[j]
         /\ \A g \in Files : g # f => mem'[cur][g] = mem[cur][g] /\ queue'[cur][g] = queue[cur][g]
         /\ owed' = owed \cup {next}
         /\ rev' = IF f = "api" THEN rev + 1 ELSE rev
         /\ mishaps' = IF stop[cur] = "saving" THEN mishaps \cup {"late"} ELSE mishaps
         /\ UNCHANGED <<fileVars, cur, guardVars, stopVars, opVars, job, gone, scenario>>
<1>1. /\ cur \in Instances /\ mem[cur][f] \in Seq(Rows) /\ queue \in Chains
      /\ next \in 1..(MaxRows + 4) /\ scenario \in Scenarios
  BY DEF TypeOK, Histories
<1>2. next <= scenario.rows BY DEF Push
<1>3. next \in Rows /\ next + 1 \in 1..(MaxRows + 4) BY <1>1, <1>2, Constants DEF Rows
<1>4. /\ Append(mem[cur][f], next) \in Seq(Rows)
      /\ ToSet(Append(mem[cur][f], next)) = ToSet(mem[cur][f]) \cup {next}
  BY <1>1, <1>3, AppendFacts
<1>5. /\ mem' \in Histories /\ mem'[cur][f] = Append(mem[cur][f], next)
      /\ \A j \in Instances : j # cur => mem'[j] = mem[j]
      /\ \A g \in Files : g # f => mem'[cur][g] = mem[cur][g]
  <2>1. mem' = [mem EXCEPT ![cur][f] = Append(mem[cur][f], next)] BY DEF Push
  <2>2. mem \in [Instances -> [Files -> Seq(Rows)]] BY DEF TypeOK, Histories
  <2>3. QED BY <1>1, <1>4, <2>1, <2>2, SetAt DEF Histories
<1>6. Entry(mem'[cur][f], FALSE, TRUE) \in Entries BY <1>4, <1>5, EntryFacts
<1>7. Enqueue(cur, f, Entry(mem'[cur][f], FALSE, TRUE)) BY DEF Push
<1>8. /\ queue' \in Chains
      /\ queue'[cur][f] = Append(queue[cur][f], Entry(mem'[cur][f], FALSE, TRUE))
      /\ \A j \in Instances : j # cur => queue'[j] = queue[j]
      /\ \A g \in Files : g # f => queue'[cur][g] = queue[cur][g]
  BY <1>1, <1>6, <1>7, EnqueueFacts
<1>9. /\ ~frozen[cur] /\ stop[cur] # "over" /\ next' = next + 1
      /\ owed' = owed \cup {next}
      /\ rev' = IF f = "api" THEN rev + 1 ELSE rev
      /\ mishaps' = IF stop[cur] = "saving" THEN mishaps \cup {"late"} ELSE mishaps
      /\ UNCHANGED <<fileVars, cur, array, guardVars, stopVars, opVars, job, gone, scenario>>
  BY DEF Push
<1>10. TypeOK'
  BY <1>3, <1>5, <1>8, <1>9
  DEF TypeOK, fileVars, guardVars, stopVars, opVars, Mishaps, Faults
<1>11. QED BY <1>4, <1>5, <1>6, <1>8, <1>9, <1>10

\* The write of a save is refused by a frozen instance, or it takes the lock of the file.
LEMMA SaveBeginsFacts ==
  ASSUME TypeOK, NEW i \in Instances, NEW f \in Files, SaveBegins(i, f)
  PROVE  /\ TypeOK'
         /\ queue[i][f] # <<>> /\ writer[f] # i
         /\ \/ /\ frozen[i] /\ ~Head(queue[i][f]).forced /\ Settle(i, f)
               /\ UNCHANGED <<there, writer>>
            \/ /\ writer[f] = None /\ writer'[f] = i /\ there'[f] = FALSE
               /\ \A g \in Files : g # f => writer'[g] = writer[g] /\ there'[g] = there[g]
               /\ UNCHANGED <<queue, ahead, op>>
         /\ UNCHANGED <<file, cur, mem, rev, array, guardVars, stop, ops, job, next,
                        ghostVars, scenario>>
<1>1. /\ queue[i][f] # <<>> /\ writer[f] # i
      /\ \/ /\ frozen[i] /\ ~Head(queue[i][f]).forced /\ Settle(i, f)
            /\ UNCHANGED <<there, writer>>
         \/ /\ writer[f] = None
            /\ writer' = [writer EXCEPT ![f] = i] /\ there' = [there EXCEPT ![f] = FALSE]
            /\ UNCHANGED <<queue, ahead, op>>
      /\ UNCHANGED <<file, cur, mem, rev, array, guardVars, stop, ops, job, next,
                     ghostVars, scenario>>
  BY DEF SaveBegins
<1>2. CASE /\ frozen[i] /\ ~Head(queue[i][f]).forced /\ Settle(i, f)
           /\ UNCHANGED <<there, writer>>
  <2>1. queue' \in Chains /\ ahead' \in [Files -> Nat] /\ op' \in Ops
    BY <1>1, <1>2, SettleFacts DEF TypeOK
  <2>2. TypeOK' BY <1>1, <1>2, <2>1 DEF TypeOK, guardVars, ghostVars
  <2>3. QED BY <1>1, <1>2, <2>2
<1>3. CASE /\ writer[f] = None
           /\ writer' = [writer EXCEPT ![f] = i] /\ there' = [there EXCEPT ![f] = FALSE]
           /\ UNCHANGED <<queue, ahead, op>>
  <2>1. /\ writer' \in [Files -> Instances \cup {None}] /\ there' \in [Files -> BOOLEAN]
        /\ writer'[f] = i /\ there'[f] = FALSE
        /\ \A g \in Files : g # f => writer'[g] = writer[g] /\ there'[g] = there[g]
    BY <1>3 DEF TypeOK
  <2>2. TypeOK' BY <1>1, <1>3, <2>1 DEF TypeOK, guardVars, ghostVars
  <2>3. QED BY <1>1, <1>3, <2>1, <2>2
<1>4. QED BY <1>1, <1>2, <1>3

\* A save lands: the file is the head of the chain.
LEMMA SaveLandsFacts ==
  ASSUME TypeOK, WriterInv, NEW i \in Instances, NEW f \in Files, SaveLands(i, f)
  PROVE  /\ TypeOK' /\ writer[f] = i /\ queue[i][f] # <<>>
         /\ file'[f] = queue[i][f][1].rows /\ there'[f] = TRUE /\ writer'[f] = None
         /\ \A g \in Files : g # f =>
              file'[g] = file[g] /\ there'[g] = there[g] /\ writer'[g] = writer[g]
         /\ Settle(i, f)
         /\ UNCHANGED <<cur, mem, rev, array, guardVars, stop, ops, job, next, ghostVars,
                        scenario>>
<1>1. /\ writer[f] = i /\ Settle(i, f)
      /\ file' = [file EXCEPT ![f] = Head(queue[i][f]).rows]
      /\ there' = [there EXCEPT ![f] = TRUE] /\ writer' = [writer EXCEPT ![f] = None]
      /\ UNCHANGED <<cur, mem, rev, array, guardVars, stop, ops, job, next, ghostVars,
                     scenario>>
  BY DEF SaveLands
<1>2. queue[i][f] # <<>> BY <1>1, Constants DEF WriterInv
<1>3. queue[i][f] \in Seq(Entries) BY DEF TypeOK, Chains
<1>4. Head(queue[i][f]) = queue[i][f][1] /\ Head(queue[i][f]) \in Entries
  BY <1>2, <1>3, TailFacts
<1>5. Head(queue[i][f]).rows \in Seq(Rows) BY <1>4 DEF Entries
<1>6. /\ file' \in [Files -> Seq(Rows)] /\ file'[f] = queue[i][f][1].rows
      /\ there' \in [Files -> BOOLEAN] /\ there'[f] = TRUE
      /\ writer' \in [Files -> Instances \cup {None}] /\ writer'[f] = None
      /\ \A g \in Files : g # f =>
           file'[g] = file[g] /\ there'[g] = there[g] /\ writer'[g] = writer[g]
  BY <1>1, <1>4, <1>5 DEF TypeOK
<1>7. queue' \in Chains /\ ahead' \in [Files -> Nat] /\ op' \in Ops
  BY <1>1, <1>2, SettleFacts DEF TypeOK
<1>8. TypeOK' BY <1>1, <1>6, <1>7 DEF TypeOK, guardVars, ghostVars
<1>9. QED BY <1>1, <1>2, <1>6, <1>8

\* A save that fails is over too.
LEMMA SaveFailsFacts ==
  ASSUME TypeOK, NEW i \in Instances, NEW f \in Files, SaveFails(i, f)
  PROVE  /\ TypeOK' /\ queue[i][f] # <<>> /\ writer[f] # i /\ Settle(i, f)
         /\ mishaps' = mishaps \cup {"failed"}
         /\ UNCHANGED <<fileVars, cur, mem, rev, array, guardVars, stop, ops, job, next, owed,
                        gone, scenario>>
<1>1. /\ queue[i][f] # <<>> /\ writer[f] # i /\ Settle(i, f)
      /\ mishaps' = mishaps \cup {"failed"}
      /\ UNCHANGED <<fileVars, cur, mem, rev, array, guardVars, stop, ops, job, next, owed,
                     gone, scenario>>
  BY DEF SaveFails
<1>2. queue' \in Chains /\ ahead' \in [Files -> Nat] /\ op' \in Ops
  BY <1>1, SettleFacts DEF TypeOK
<1>3. TypeOK' BY <1>1, <1>2 DEF TypeOK, fileVars, guardVars, Mishaps, Faults
<1>4. QED BY <1>1, <1>3

\* What the types say of the rewind and of the instances.
LEMMA StateTypes ==
  ASSUME TypeOK
  PROVE  /\ op \in Ops /\ op.inst \in Instances /\ op.cut \in Rows /\ op.upto \in Nat
         /\ op.wait \in Nat /\ rev \in Nat /\ next \in Nat
         /\ mem \in Histories /\ queue \in Chains /\ owed \subseteq Rows /\ cur \in Instances
         /\ \A i \in Instances, f \in Files :
              /\ mem[i][f] \in Seq(Rows) /\ queue[i][f] \in Seq(Entries)
              /\ mem[i] \in [Files -> Seq(Rows)] /\ queue[i] \in [Files -> Seq(Entries)]
         /\ "ui" \in Files /\ "api" \in Files
<1>1. op \in Ops /\ mem \in Histories /\ queue \in Chains /\ owed \subseteq Rows
      /\ cur \in Instances /\ rev \in Nat /\ next \in 1..(MaxRows + 4)
  BY DEF TypeOK
<1>2. /\ op.inst \in Instances /\ op.cut \in Rows /\ op.upto \in Nat
      /\ op.wait \in Nat
  BY <1>1 DEF Ops
<1>3. \A i \in Instances, f \in Files :
        mem[i][f] \in Seq(Rows) /\ mem[i] \in [Files -> Seq(Rows)]
  BY <1>1 DEF Histories
<1>4. \A i \in Instances, f \in Files :
        queue[i][f] \in Seq(Entries) /\ queue[i] \in [Files -> Seq(Entries)]
  BY <1>1 DEF Chains
<1>5. next \in Nat BY <1>1, Constants
<1>6. QED BY <1>1, <1>2, <1>3, <1>4, <1>5, Constants

LEMMA BeforeRows ==
  ASSUME NEW rows \in Seq(Rows), NEW n \in Rows
  PROVE  Before(rows, n) \in Seq(Rows) /\ ToSet(Before(rows, n)) \subseteq ToSet(rows)
<1>1. n \in Nat /\ Rows \subseteq Nat BY Constants
<1>2. QED BY <1>1, BeforeFacts

\* The two rows that follow the prefix of an edited answer.
LEMMA PairFacts ==
  ASSUME NEW rows \in Seq(Rows), NEW a \in Rows, NEW b \in Rows
  PROVE  /\ rows \o <<a, b>> \in Seq(Rows)
         /\ ToSet(rows \o <<a, b>>) = ToSet(rows) \cup {a, b}
<1>1. <<a, b>> \in Seq(Rows) OBVIOUS
<1>2. ToSet(<<a, b>>) = {a, b} BY DEF ToSet
<1>3. rows \o <<a, b>> \in Seq(Rows) BY <1>1, ConcatProperties
<1>4. Range(rows \o <<a, b>>) = Range(rows) \cup Range(<<a, b>>)
  BY <1>1, RangeConcatenation
<1>5. QED BY <1>2, <1>3, <1>4 DEF Range, ToSet

\* A rewind whose save is awaited: it is the last of its chain.
LEMMA WaitFacts ==
  ASSUME TypeOK, NEW i \in Instances, NEW f \in Files, NEW rows \in Seq(Rows),
         NEW force \in BOOLEAN, Rewind(i, f, rows, force)
  PROVE  /\ Wait(i, f) \in Nat
         /\ Refuses(i, force) => Wait(i, f) = 0
         /\ ~Refuses(i, force) => /\ Wait(i, f) = Len(queue'[i][f])
                                   /\ Wait(i, f) = Len(queue[i][f]) + 1
                                   /\ Entry(rows, force, FALSE) \in Entries
<1>1. queue \in Chains /\ mem \in Histories /\ owed \subseteq Rows /\ cur \in Instances
      /\ queue[i][f] \in Seq(Entries)
  BY DEF TypeOK, Chains
<1>2. Entry(rows, force, FALSE) \in Entries BY EntryFacts
<1>3. Refuses(i, force) => queue' = queue BY <1>1, RewindFacts
<1>4. ~Refuses(i, force) => /\ queue' # queue
                             /\ queue'[i][f] = Append(queue[i][f], Entry(rows, force, FALSE))
  BY <1>1, RewindFacts
<1>5. Len(Append(queue[i][f], Entry(rows, force, FALSE))) = Len(queue[i][f]) + 1
      /\ Len(queue[i][f]) + 1 \in Nat
  BY <1>1, <1>2, AppendFacts, SetOfSeq
<1>6. QED BY <1>2, <1>3, <1>4, <1>5 DEF Wait

\* The beginning of a deletion, an edit or an edited answer.
LEMMA BeginsFacts ==
  ASSUME TypeOK, NEW n \in Rows, DeleteBegins(n) \/ EditBegins(n) \/ ReplaceBegins(n)
  PROVE  \E rows \in Seq(Rows), force \in BOOLEAN :
           /\ TypeOK' /\ Rewind(cur, "ui", rows, force)
           /\ op.pc = "none" /\ op'.pc = "ui" /\ op'.inst = cur /\ op'.upto = next'
           /\ op'.wait = Wait(cur, "ui")
           /\ op'.kind \in {"delete", "edit", "replace"} /\ (force <=> op'.kind # "delete")
           /\ op'.kind = "edit" => Freeze(cur)
           /\ op'.kind # "edit" => UNCHANGED guardVars
           /\ op'.kind = "replace" =>
                /\ next \in 1..MaxRows /\ next' = next + 3
                /\ ToSet(rows) \subseteq ToSet(mem[cur]["ui"]) \cup {next, next + 1}
           /\ op'.kind # "replace" =>
                next' = next /\ ToSet(rows) \subseteq ToSet(mem[cur]["ui"])
           /\ stop[cur] # "over"
           /\ mishaps' = IF stop[cur] = "saving" THEN mishaps \cup {"crossed"} ELSE mishaps
           /\ rev' \in {rev, rev + 1}
           /\ UNCHANGED <<fileVars, cur, array, stopVars, job, gone, scenario>>
<1> DEFINE below == Before(mem[cur]["ui"], n)
<1>1. /\ cur \in Instances /\ mem[cur]["ui"] \in Seq(Rows) /\ next \in 1..(MaxRows + 4)
      /\ scenario \in Scenarios /\ rev \in Nat /\ queue \in Chains /\ mem \in Histories
      /\ owed \subseteq Rows
  BY Constants DEF TypeOK, Histories
<1>2. below \in Seq(Rows) /\ ToSet(below) \subseteq ToSet(mem[cur]["ui"])
  BY <1>1, BeforeRows
<1> DEFINE begun(kind) ==
      /\ op.pc = "none" /\ ops < MaxOps /\ stop[cur] # "over"
      /\ op' = [pc |-> "ui", kind |-> kind, inst |-> cur, cut |-> n, upto |-> next',
                wait |-> Wait(cur, "ui")]
      /\ ops' = ops + 1
      /\ mishaps' = IF stop[cur] = "saving" THEN mishaps \cup {"crossed"} ELSE mishaps
<1>3. ASSUME NEW rows \in Seq(Rows), NEW force \in BOOLEAN, NEW kind \in Kinds,
             Rewind(cur, "ui", rows, force), begun(kind), kind # "checkpoint",
             next' \in 1..(MaxRows + 4), rev' \in Nat,
             frozen' \in [Instances -> BOOLEAN], allow' \in [Instances -> BOOLEAN],
             UNCHANGED <<fileVars, cur, array, stopVars, job, gone, scenario>>
      PROVE  TypeOK'
  <2>1. queue' \in Chains /\ mem' \in Histories /\ owed' \subseteq Rows
    <3>1. "ui" \in Files BY Constants
    <3>2. QED BY <3>1, <1>1, <1>3, RewindFacts, Zenon
  <2>2. Wait(cur, "ui") \in Nat BY <1>1, <1>3, Constants, WaitFacts
  <2>3. op' \in Ops
    <3>1. next' \in Nat BY <1>3
    <3>2. op' = [pc |-> "ui", kind |-> kind, inst |-> cur, cut |-> n, upto |-> next',
                 wait |-> Wait(cur, "ui")]
      BY <1>3
    <3>3. QED BY <3>1, <3>2, <2>2, <1>1, <1>3 DEF Ops, Kinds
  <2>4. ops' \in 0..MaxOps BY <1>3, Constants DEF TypeOK
  <2>5. mishaps' \subseteq Mishaps BY <1>3 DEF TypeOK, Mishaps
  <2>6. QED BY <1>3, <2>1, <2>3, <2>4, <2>5 DEF TypeOK, fileVars, stopVars
<1>4. CASE DeleteBegins(n)
  <2>1. /\ Rewind(cur, "ui", below, FALSE) /\ begun("delete")
        /\ UNCHANGED <<fileVars, cur, rev, array, guardVars, stopVars, job, gone, scenario>>
        /\ next' = next
    BY <1>4 DEF DeleteBegins, Begun, stopVars
  <2>2. TypeOK' BY <1>1, <1>2, <1>3, <2>1 DEF guardVars, Kinds, TypeOK
  <2>3. QED BY <1>2, <2>1, <2>2
<1>5. CASE EditBegins(n)
  <2>1. /\ Rewind(cur, "ui", below, TRUE) /\ begun("edit") /\ Freeze(cur)
        /\ UNCHANGED <<fileVars, cur, array, stopVars, job, gone, scenario>>
        /\ next' = next /\ rev' = rev + 1
    BY <1>5 DEF EditBegins, Begun, Revised, stopVars
  <2>2. frozen' \in [Instances -> BOOLEAN] /\ allow' \in [Instances -> BOOLEAN]
    BY <1>1, <2>1 DEF Freeze, TypeOK
  <2>3. next' \in 1..(MaxRows + 4) /\ rev' \in Nat BY <1>1, <2>1
  <2> HIDE DEF below, begun
  <2>4. TypeOK' BY <1>2, <1>3, <2>1, <2>2, <2>3 DEF Kinds
  <2>5. QED BY <1>2, <2>1, <2>4 DEF begun
<1>6. CASE ReplaceBegins(n)
  <2>1. next <= scenario.rows BY <1>6 DEF ReplaceBegins
  <2>2. /\ next \in 1..MaxRows /\ next \in Rows /\ next + 1 \in Rows
        /\ next + 3 \in 1..(MaxRows + 4)
    <3>1. scenario.rows \in 0..MaxRows BY <1>1, Constants
    <3>2. MaxRows \in Nat /\ next \in 1..(MaxRows + 4) BY <1>1, Constants
    <3>3. QED BY ONLY <2>1, <3>1, <3>2 DEF Rows
  <2> DEFINE rows == below \o <<next, next + 1>>
  <2>3. rows \in Seq(Rows) /\ ToSet(rows) = ToSet(below) \cup {next, next + 1}
    BY <1>2, <2>2, PairFacts
  <2>4. /\ Rewind(cur, "ui", rows, TRUE) /\ begun("replace")
        /\ UNCHANGED <<fileVars, cur, rev, array, guardVars, stopVars, job, gone, scenario>>
        /\ next' = next + 3
    BY <1>6 DEF ReplaceBegins, Begun, stopVars
  <2> HIDE DEF rows
  <2>5. TypeOK' BY <1>1, <1>3, <2>2, <2>3, <2>4 DEF guardVars, Kinds, TypeOK
  <2>6. ToSet(rows) \subseteq ToSet(mem[cur]["ui"]) \cup {next, next + 1} BY <1>2, <2>3
  <2>7. QED BY <2>2, <2>3, <2>4, <2>5, <2>6
<1>7. QED BY <1>4, <1>5, <1>6

\* The beginning of a deletion that restores a checkpoint: it stops the task.
LEMMA CheckpointBeginsFacts ==
  ASSUME TypeOK, NEW n \in Rows, CheckpointBegins(n)
  PROVE  /\ TypeOK'
         /\ \/ stop[cur] = "no" /\ BeginStop
            \/ stop[cur] = "saving" /\ UNCHANGED <<memVars, stopVars>>
         /\ op.pc = "none" /\ op'.pc = "git" /\ op'.inst = cur /\ op'.upto = next
         /\ op'.kind = "checkpoint" /\ op'.wait = 0
         /\ mishaps' = mishaps \cup {"crossed"}
         /\ UNCHANGED <<fileVars, cur, mem, rev, array, guardVars, job, next, owed, gone,
                        scenario>>
<1>1. /\ stop[cur] = "no" => BeginStop
      /\ stop[cur] # "no" => UNCHANGED <<memVars, stopVars>>
      /\ op.pc = "none" /\ ops < MaxOps /\ stop[cur] # "over"
      /\ op' = [pc |-> "git", kind |-> "checkpoint", inst |-> cur, cut |-> n, upto |-> next',
                wait |-> 0]
      /\ ops' = ops + 1 /\ next' = next
      /\ mishaps' = IF stop'[cur] = "saving" THEN mishaps \cup {"crossed"} ELSE mishaps
      /\ UNCHANGED <<fileVars, cur, guardVars, job, owed, gone, scenario>>
  BY DEF CheckpointBegins, Begun
<1>2. /\ cur \in Instances /\ next \in 1..(MaxRows + 4)
      /\ stop[cur] \in {"no", "saving", "over"}
  BY DEF TypeOK
<1>3. /\ queue' \in Chains /\ ahead' \in [Files -> Nat] /\ mem' = mem /\ rev' = rev
      /\ array' = array
      /\ stop' \in [Instances -> {"no", "saving", "over"}] /\ stop'[cur] = "saving"
  <2>1. CASE stop[cur] = "no" BY <1>1, <2>1, BeginStopFacts
  <2>2. CASE stop[cur] # "no" BY <1>1, <1>2, <2>2 DEF TypeOK, memVars, stopVars
  <2>3. QED BY <2>1, <2>2
<1>4. op' \in Ops BY <1>1, <1>2 DEF Ops
<1>5. ops' \in 0..MaxOps BY <1>1, Constants DEF TypeOK
<1>6. mishaps' = mishaps \cup {"crossed"} BY <1>1, <1>3
<1>7. mishaps' \subseteq Mishaps BY <1>6 DEF TypeOK, Mishaps
<1>8. TypeOK' BY <1>1, <1>3, <1>4, <1>5, <1>7 DEF TypeOK, fileVars, guardVars
<1>9. QED BY <1>1, <1>2, <1>3, <1>6, <1>8

LEMMA NoOpFacts ==
  /\ NoOp \in Ops /\ NoOp.pc = "none" /\ NoOp.kind = "none" /\ NoOp.inst = 1 /\ NoOp.upto = 1
  /\ NoOp.wait = 0
BY Constants DEF NoOp, Ops, Rows

\* What comes after git: the row is not there, or the ui history is rewound.
LEMMA CheckpointRestoredFacts ==
  ASSUME TypeOK, CheckpointRestored
  PROVE  \E rows \in Seq(Rows) :
           /\ TypeOK' /\ op.pc = "git"
           /\ ToSet(rows) \subseteq ToSet(mem[op.inst]["ui"])
           /\ \/ /\ Rewind(op.inst, "ui", rows, FALSE)
                 /\ op'.pc = "ui" /\ op'.wait = Wait(op.inst, "ui")
              \/ UNCHANGED <<mem, queue, owed>> /\ op'.pc = "lost"
           /\ op'.kind = op.kind /\ op'.inst = op.inst /\ op'.upto = op.upto
           /\ UNCHANGED <<fileVars, cur, rev, array, guardVars, stopVars, ops, job, next, gone,
                          mishaps, scenario>>
<1> DEFINE i == op.inst
           rows == Before(mem[i]["ui"], op.cut)
<1>1. /\ i \in Instances /\ op.cut \in Rows /\ mem[i]["ui"] \in Seq(Rows) /\ op \in Ops
      /\ queue \in Chains /\ mem \in Histories /\ owed \subseteq Rows /\ cur \in Instances
  BY StateTypes
<1>2. rows \in Seq(Rows) /\ ToSet(rows) \subseteq ToSet(mem[i]["ui"]) BY <1>1, BeforeRows
<1>3. /\ op.pc = "git"
      /\ \/ /\ Rewind(i, "ui", rows, FALSE)
            /\ op' = [op EXCEPT !.pc = "ui", !.wait = Wait(i, "ui")]
         \/ op' = [op EXCEPT !.pc = "lost"] /\ UNCHANGED <<mem, queue, owed>>
      /\ UNCHANGED <<fileVars, cur, rev, array, guardVars, stopVars, ops, job, next, gone,
                     mishaps, scenario>>
  BY DEF CheckpointRestored
<1> HIDE DEF i, rows
<1>4. CASE /\ Rewind(i, "ui", rows, FALSE)
           /\ op' = [op EXCEPT !.pc = "ui", !.wait = Wait(i, "ui")]
  <2>1. "ui" \in Files /\ FALSE \in BOOLEAN BY Constants
  <2>2. Wait(i, "ui") \in Nat BY <1>1, <1>2, <1>4, <2>1, WaitFacts
  <2>3. queue' \in Chains /\ mem' \in Histories /\ owed' \subseteq Rows
    BY <1>1, <1>2, <1>4, <2>1, RewindFacts
  <2>4. /\ op' \in Ops /\ op'.pc = "ui" /\ op'.wait = Wait(i, "ui")
        /\ op'.kind = op.kind /\ op'.inst = op.inst /\ op'.upto = op.upto
    BY <1>1, <1>4, <2>2 DEF Ops
  <2>5. TypeOK' BY <1>3, <2>3, <2>4 DEF TypeOK, fileVars, guardVars, stopVars
  <2>6. QED BY <1>2, <1>3, <1>4, <2>4, <2>5 DEF i
<1>5. CASE op' = [op EXCEPT !.pc = "lost"] /\ UNCHANGED <<mem, queue, owed>>
  <2>1. /\ op' \in Ops /\ op'.pc = "lost"
        /\ op'.kind = op.kind /\ op'.inst = op.inst /\ op'.upto = op.upto
    BY <1>1, <1>5 DEF Ops
  <2>2. TypeOK' BY <1>3, <1>5, <2>1 DEF TypeOK, fileVars, guardVars, stopVars
  <2>3. QED BY <1>2, <1>3, <1>5, <2>1, <2>2 DEF i
<1>6. QED BY <1>3, <1>4, <1>5

\* The api history is rewound; a deletion may find nothing to do, or may not save.
LEMMA ApiRewindsFacts ==
  ASSUME TypeOK, OpInv, ApiRewinds
  PROVE  \E rows \in Seq(Rows), force \in BOOLEAN :
           /\ TypeOK' /\ op.pc = "ui" /\ op.wait = 0
           /\ op.kind # "replace" => ToSet(rows) \subseteq ToSet(mem[op.inst]["api"])
           /\ op.kind = "replace" =>
                ToSet(rows) \subseteq ToSet(mem[op.inst]["api"]) \cup {op.upto - 1}
           /\ force <=> op.kind \in {"edit", "replace"}
           /\ \/ /\ Rewind(op.inst, "api", rows, force) /\ ~Refuses(op.inst, force)
                 /\ Revised(op.inst, TRUE)
              \/ ~force /\ UNCHANGED <<memVars, owed>>
           /\ op'.wait = Wait(op.inst, "api") /\ op'.pc = "api"
           /\ op'.kind = op.kind /\ op'.inst = op.inst /\ op'.upto = op.upto
           /\ UNCHANGED <<fileVars, cur, guardVars, stopVars, ops, job, next, gone, mishaps,
                          scenario>>
<1> DEFINE i == op.inst
           kept == Before(mem[i]["api"], op.cut)
           rows == IF op.kind = "replace" THEN Append(kept, op.upto - 1) ELSE kept
           force == op.kind \in {"edit", "replace"}
           saves == force \/ (~frozen[i] /\ kept # mem[i]["api"])
<1>1. /\ i \in Instances /\ op.cut \in Rows /\ mem[i]["api"] \in Seq(Rows) /\ op \in Ops
      /\ queue \in Chains /\ mem \in Histories /\ owed \subseteq Rows /\ cur \in Instances
      /\ "api" \in Files
  BY StateTypes
<1>2. kept \in Seq(Rows) /\ ToSet(kept) \subseteq ToSet(mem[i]["api"]) BY <1>1, BeforeRows
<1>3. /\ op.pc = "ui" /\ op.wait = 0
      /\ IF saves THEN Rewind(i, "api", rows, force) /\ Revised(i, TRUE)
                  ELSE UNCHANGED <<memVars, owed>>
      /\ op' = [op EXCEPT !.pc = "api", !.wait = Wait(i, "api")]
      /\ UNCHANGED <<fileVars, cur, guardVars, stopVars, ops, job, next, gone, mishaps,
                     scenario>>
  BY DEF ApiRewinds
<1> HIDE DEF kept
<1>4. /\ rows \in Seq(Rows)
      /\ op.kind # "replace" => ToSet(rows) \subseteq ToSet(mem[i]["api"])
      /\ op.kind = "replace" => ToSet(rows) \subseteq ToSet(mem[i]["api"]) \cup {op.upto - 1}
  <2>1. CASE op.kind = "replace"
    <3>1. op.upto - 1 \in Rows BY <2>1, Constants DEF OpInv, Rows
    <3>2. /\ Append(kept, op.upto - 1) \in Seq(Rows)
          /\ ToSet(Append(kept, op.upto - 1)) = ToSet(kept) \cup {op.upto - 1}
      BY <3>1, <1>2, AppendFacts
    <3>3. QED BY <2>1, <3>2, <1>2
  <2>2. CASE op.kind # "replace" BY <2>2, <1>2
  <2>3. QED BY <2>1, <2>2
<1>5. force \in BOOLEAN OBVIOUS
<1> HIDE DEF rows
<1>6. CASE saves
  <2>1. Rewind(i, "api", rows, force) /\ Revised(i, TRUE) BY <1>3, <1>6
  <2>2. ~Refuses(i, force) BY <1>6 DEF Refuses
  <2>3. /\ op' = [op EXCEPT !.pc = "api", !.wait = Wait(i, "api")]
        /\ force <=> op.kind \in {"edit", "replace"}
    BY <1>3
  <2> HIDE DEF i, force
  <2>4. Wait(i, "api") \in Nat BY <1>1, <1>4, <1>5, <2>1, WaitFacts
  <2>5. queue' \in Chains /\ mem' \in Histories /\ owed' \subseteq Rows
    BY <1>1, <1>4, <1>5, <2>1, RewindFacts
  <2>6. /\ op' \in Ops /\ op'.pc = "api" /\ op'.wait = Wait(i, "api")
        /\ op'.kind = op.kind /\ op'.inst = op.inst /\ op'.upto = op.upto
    BY <1>1, <2>3, <2>4 DEF Ops
  <2>7. rev' \in Nat /\ array' \in Nat BY <2>1 DEF Revised, TypeOK
  <2>8. TypeOK' BY <1>3, <2>5, <2>6, <2>7 DEF TypeOK, fileVars, guardVars, stopVars
  <2>9. QED BY <1>3, <1>4, <1>5, <2>1, <2>2, <2>3, <2>6, <2>8 DEF i
<1>7. CASE ~saves
  <2>1. ~force /\ UNCHANGED <<memVars, owed>> BY <1>3, <1>7
  <2>2. Wait(i, "api") \in Nat BY <2>1 DEF Wait, memVars
  <2>3. /\ op' = [op EXCEPT !.pc = "api", !.wait = Wait(i, "api")]
        /\ force <=> op.kind \in {"edit", "replace"}
    BY <1>3
  <2> HIDE DEF i, force
  <2>4. /\ op' \in Ops /\ op'.pc = "api" /\ op'.wait = Wait(i, "api")
        /\ op'.kind = op.kind /\ op'.inst = op.inst /\ op'.upto = op.upto
    BY <1>1, <2>2, <2>3 DEF Ops
  <2>5. TypeOK' BY <1>3, <2>1, <2>4 DEF TypeOK, fileVars, guardVars, stopVars, memVars
  <2>6. QED BY <1>3, <1>4, <1>5, <2>1, <2>3, <2>4, <2>5 DEF i
<1>8. QED BY <1>6, <1>7

\* A rewind returns: what is gone has a number that was given, and is not in memory.
LEMMA RewindReturnsFacts ==
  ASSUME TypeOK, OpInv, RewindReturns
  PROVE  /\ TypeOK' /\ op.pc = "api" /\ op.wait = 0
         /\ op'.pc = "direct" /\ op'.wait = 0
         /\ op'.kind = op.kind /\ op'.inst = op.inst /\ op'.upto = op.upto
         /\ \A r \in gone' \ gone : r < next /\ r \notin InMemory(op.inst)
         /\ gone \subseteq gone'
         /\ UNCHANGED <<fileVars, cur, memVars, guardVars, stopVars, ops, job, next, owed,
                        mishaps, scenario>>
<1> DEFINE upto == IF op.kind = "edit" THEN next ELSE op.upto
           out == {r \in Rows : op.cut <= r /\ r < upto} \ InMemory(op.inst)
<1>1. /\ op.pc = "api" /\ op.wait = 0 /\ op' = [op EXCEPT !.pc = "direct"]
      /\ gone' = gone \cup out
      /\ UNCHANGED <<fileVars, cur, memVars, guardVars, stopVars, ops, job, next, owed,
                     mishaps, scenario>>
  BY DEF RewindReturns
<1>2. op \in Ops BY DEF TypeOK
<1>3. /\ op' \in Ops /\ op'.pc = "direct" /\ op'.wait = 0
      /\ op'.kind = op.kind /\ op'.inst = op.inst /\ op'.upto = op.upto
  BY <1>1, <1>2 DEF Ops
<1>4. \A r \in out : r \in Rows /\ r < next /\ r \notin InMemory(op.inst)
  <2>1. upto \in Nat /\ next \in Nat /\ upto <= next BY <1>2 DEF OpInv, TypeOK, Ops
  <2> HIDE DEF upto
  <2>2. SUFFICES ASSUME NEW r \in out PROVE r < next OBVIOUS
  <2>3. r \in Nat /\ r < upto BY <2>2, Constants
  <2>4. QED BY <2>1, <2>3
<1> HIDE DEF out
<1>5. TypeOK'
  BY <1>1, <1>3, <1>4 DEF TypeOK, fileVars, guardVars, stopVars, memVars
<1>6. QED BY <1>1, <1>3, <1>4, <1>5

\* The handler's own save of the ui history, and the end of the rewind.
LEMMA HandlerSavesFacts ==
  ASSUME TypeOK, HandlerSaves
  PROVE  /\ TypeOK' /\ op.pc \in {"direct", "lost"} /\ writer["ui"] = None
         /\ file'["ui"] = mem[op.inst]["ui"] /\ file'["api"] = file["api"]
         /\ there'["ui"] = TRUE /\ there'["api"] = there["api"]
         /\ op.kind = "edit" =>
              /\ op'.pc = "stop" /\ op'.kind = op.kind /\ op'.inst = op.inst
              /\ op'.upto = op.upto /\ op'.wait = op.wait
         /\ op.kind = "checkpoint" =>
              /\ op'.pc = "done" /\ op'.kind = op.kind /\ op'.inst = op.inst
              /\ op'.upto = op.upto /\ op'.wait = op.wait
         /\ op.kind \notin {"edit", "checkpoint"} => op' = NoOp
         /\ op.kind = "replace" =>
              /\ frozen'[op.inst] = TRUE /\ owed' = {r \in owed : r < op.upto}
              /\ \A j \in Instances : j # op.inst => frozen'[j] = frozen[j]
         /\ op.kind # "replace" => UNCHANGED <<guardVars, rev, array, owed>>
         /\ rev' \in {rev, rev + 1}
         /\ UNCHANGED <<writer, cur, mem, queue, stopVars, ops, job, next, gone, mishaps,
                        scenario>>
<1> DEFINE i == op.inst
<1>1. /\ op \in Ops /\ i \in Instances /\ mem[i]["ui"] \in Seq(Rows) /\ "ui" \in Files
      /\ "api" \in Files /\ rev \in Nat
  BY StateTypes
<1>2. /\ op.pc \in {"direct", "lost"} /\ writer["ui"] = None
      /\ file' = [file EXCEPT !["ui"] = mem[i]["ui"]]
      /\ there' = [there EXCEPT !["ui"] = TRUE]
      /\ op' = CASE op.kind = "edit" -> [op EXCEPT !.pc = "stop"]
                 [] op.kind = "checkpoint" -> [op EXCEPT !.pc = "done"]
                 [] OTHER -> NoOp
      /\ op.kind = "replace" => /\ Freeze(i) /\ Revised(i, FALSE)
                                /\ owed' = {r \in owed : r < op.upto}
      /\ op.kind # "replace" => UNCHANGED <<guardVars, rev, array, owed>>
      /\ UNCHANGED <<writer, cur, mem, queue, stopVars, ops, job, next, gone, mishaps,
                     scenario>>
  BY DEF HandlerSaves
<1>3. /\ file' \in [Files -> Seq(Rows)] /\ there' \in [Files -> BOOLEAN]
      /\ file'["ui"] = mem[i]["ui"] /\ file'["api"] = file["api"]
      /\ there'["ui"] = TRUE /\ there'["api"] = there["api"]
  BY <1>1, <1>2 DEF TypeOK
<1>4. /\ op' \in Ops
      /\ op.kind = "edit" =>
           /\ op'.pc = "stop" /\ op'.kind = op.kind /\ op'.inst = op.inst
           /\ op'.upto = op.upto /\ op'.wait = op.wait
      /\ op.kind = "checkpoint" =>
           /\ op'.pc = "done" /\ op'.kind = op.kind /\ op'.inst = op.inst
           /\ op'.upto = op.upto /\ op'.wait = op.wait
      /\ op.kind \notin {"edit", "checkpoint"} => op' = NoOp
  <2>1. CASE op.kind = "edit" BY <2>1, <1>1, <1>2 DEF Ops
  <2>2. CASE op.kind = "checkpoint" BY <2>2, <1>1, <1>2 DEF Ops
  <2>3. CASE op.kind \notin {"edit", "checkpoint"} BY <2>3, <1>2, NoOpFacts
  <2>4. QED BY <2>1, <2>2, <2>3
<1>5. /\ frozen' \in [Instances -> BOOLEAN] /\ allow' \in [Instances -> BOOLEAN]
      /\ op.kind = "replace" => /\ frozen'[i] = TRUE
                                /\ \A j \in Instances : j # i => frozen'[j] = frozen[j]
  BY <1>1, <1>2 DEF TypeOK, Freeze, guardVars
<1>6. rev' \in {rev, rev + 1} /\ rev' \in Nat /\ array' \in Nat
  BY <1>1, <1>2 DEF Revised, TypeOK
<1>7. owed' \subseteq Rows BY <1>2 DEF TypeOK
<1>8. TypeOK' BY <1>2, <1>3, <1>4, <1>5, <1>6, <1>7 DEF TypeOK, stopVars
<1>9. QED BY <1>2, <1>3, <1>4, <1>5, <1>6, <1>8

LEMMA HandlerFailsFacts ==
  ASSUME TypeOK, HandlerFails
  PROVE  /\ TypeOK' /\ op' = NoOp /\ mishaps' = mishaps \cup {"failed"}
         /\ UNCHANGED <<fileVars, cur, memVars, guardVars, stopVars, ops, job, next, owed,
                        gone, scenario>>
<1>1. /\ op' = NoOp /\ mishaps' = mishaps \cup {"failed"}
      /\ UNCHANGED <<fileVars, cur, memVars, guardVars, stopVars, ops, job, next, owed,
                     gone, scenario>>
  BY DEF HandlerFails
<1>2. TypeOK'
  BY <1>1, NoOpFacts
  DEF TypeOK, fileVars, memVars, guardVars, stopVars, Mishaps, Faults
<1>3. QED BY <1>1, <1>2

\* An edit stops the instance in front, unless it is being stopped.
LEMMA EditStopsFacts ==
  ASSUME TypeOK, EditStops
  PROVE  /\ TypeOK' /\ op.pc = "stop" /\ op' = NoOp
         /\ stop[cur] = "no" => BeginStop
         /\ stop[cur] # "no" => UNCHANGED <<queue, stopVars>>
         /\ UNCHANGED <<fileVars, cur, mem, rev, array, guardVars, ops, job, next, ghostVars,
                        scenario>>
<1>1. /\ op.pc = "stop" /\ op' = NoOp
      /\ stop[cur] = "no" => BeginStop
      /\ stop[cur] # "no" => UNCHANGED <<memVars, stopVars>>
      /\ UNCHANGED <<fileVars, cur, guardVars, ops, job, next, ghostVars, scenario>>
  BY DEF EditStops
<1>2. /\ queue' \in Chains /\ ahead' \in [Files -> Nat]
      /\ mem' = mem /\ rev' = rev /\ array' = array
      /\ stop' \in [Instances -> {"no", "saving", "over"}]
  <2>1. CASE stop[cur] = "no" BY <1>1, <2>1, BeginStopFacts
  <2>2. CASE stop[cur] # "no" BY <1>1, <2>2 DEF TypeOK, memVars, stopVars
  <2>3. QED BY <2>1, <2>2
<1>3. TypeOK' BY <1>1, <1>2, NoOpFacts DEF TypeOK, fileVars, guardVars, ghostVars
<1>4. QED BY <1>1, <1>2, <1>3 DEF memVars

LEMMA NoJobFacts == NoJob \in JobRecords /\ NoJob.pc = "none"
BY DEF NoJob, JobRecords

\* The three steps of a condensing that change nothing but the condensing.
LEMMA JobFacts ==
  ASSUME TypeOK, NEW k \in Jobs,
         CondenseBegins(k) \/ CondenseChecks(k) \/ CondenseFails(k)
  PROVE  /\ TypeOK'
         /\ \A l \in Jobs : l # k => job'[l] = job[l]
         /\ \/ job'[k] = NoJob
            \/ job'[k].pc = "summary" /\ job'[k].rev = rev /\ job'[k].base = mem[cur]["api"]
            \/ /\ job[k].pc = "summary" /\ job'[k].pc = "checked" /\ job'[k].rev = rev
               /\ job'[k].base = job[k].base /\ job'[k].res = mem[cur]["api"]
               /\ job[k].rev = rev \/ IsPrefix(job[k].base, mem[cur]["api"])
         /\ UNCHANGED <<fileVars, cur, memVars, guardVars, stopVars, opVars, next, ghostVars,
                        scenario>>
<1>1. mem[cur]["api"] \in Seq(Rows) /\ rev \in Nat BY StateTypes
<1>2. UNCHANGED <<fileVars, cur, memVars, guardVars, stopVars, opVars, next, ghostVars,
                  scenario>>
  BY DEF CondenseBegins, CondenseChecks, CondenseFails
<1>3. job[k] \in JobRecords BY DEF TypeOK
<1>4. \E j \in JobRecords :
        /\ job' = [job EXCEPT ![k] = j]
        /\ \/ j = NoJob
           \/ j.pc = "summary" /\ j.rev = rev /\ j.base = mem[cur]["api"]
           \/ /\ job[k].pc = "summary" /\ j.pc = "checked" /\ j.rev = rev
              /\ j.base = job[k].base /\ j.res = mem[cur]["api"]
              /\ job[k].rev = rev \/ IsPrefix(job[k].base, mem[cur]["api"])
  <2>1. CASE CondenseBegins(k)
    <3> DEFINE j == [pc |-> "summary", base |-> mem[cur]["api"], rev |-> rev,
                     array |-> array, res |-> <<>>]
    <3>1. job' = [job EXCEPT ![k] = j] BY <2>1 DEF CondenseBegins
    <3>2. j \in JobRecords BY <1>1 DEF JobRecords, TypeOK
    <3>3. QED BY <3>1, <3>2
  <2>2. CASE CondenseChecks(k)
    <3> DEFINE keeps == \/ job[k].rev = rev /\ job[k].array = array
                        \/ /\ k = "auto" /\ job[k].array = array
                           /\ IsPrefix(job[k].base, mem[cur]["api"])
               j == [job[k] EXCEPT !.pc = "checked", !.res = mem[cur]["api"], !.rev = rev]
    <3>1. job[k].pc = "summary" /\ job' = [job EXCEPT ![k] = IF keeps THEN j ELSE NoJob]
      BY <2>2 DEF CondenseChecks
    <3>2. /\ j \in JobRecords /\ j.pc = "checked" /\ j.rev = rev /\ j.base = job[k].base
          /\ j.res = mem[cur]["api"]
      BY <1>1, <1>3 DEF JobRecords
    <3>3. CASE keeps
      <4>1. job[k].rev = rev \/ IsPrefix(job[k].base, mem[cur]["api"]) BY <3>3
      <4>2. job' = [job EXCEPT ![k] = j] BY <3>1, <3>3
      <4> HIDE DEF j, keeps
      <4>3. QED BY <3>1, <3>2, <4>1, <4>2
    <3>4. CASE ~keeps BY <3>1, <3>4, NoJobFacts
    <3>5. QED BY <3>3, <3>4
  <2>3. CASE CondenseFails(k) BY <2>3, NoJobFacts DEF CondenseFails
  <2>4. QED BY <2>1, <2>2, <2>3
<1>5. PICK j \in JobRecords :
        /\ job' = [job EXCEPT ![k] = j]
        /\ \/ j = NoJob
           \/ j.pc = "summary" /\ j.rev = rev /\ j.base = mem[cur]["api"]
           \/ /\ job[k].pc = "summary" /\ j.pc = "checked" /\ j.rev = rev
              /\ j.base = job[k].base /\ j.res = mem[cur]["api"]
              /\ job[k].rev = rev \/ IsPrefix(job[k].base, mem[cur]["api"])
  BY <1>4
<1>6. /\ job' \in [Jobs -> JobRecords] /\ job'[k] = j
      /\ \A l \in Jobs : l # k => job'[l] = job[l]
  BY <1>5 DEF TypeOK
<1>7. TypeOK'
  BY <1>2, <1>6
  DEF TypeOK, fileVars, memVars, guardVars, stopVars, opVars, ghostVars
<1>8. QED BY <1>2, <1>5, <1>6, <1>7

\* A condensed history takes the place of the api history, unless the instance is frozen.
LEMMA CommitFacts ==
  ASSUME TypeOK, JobInv, NEW k \in Jobs, CondenseCommits(k)
  PROVE  /\ TypeOK' /\ job[k].pc = "checked" /\ job'[k] = NoJob
         /\ \A l \in Jobs : l # k => job'[l] = job[l]
         /\ frozen[cur] => UNCHANGED <<memVars, next, ghostVars>>
         /\ ~frozen[cur] =>
              \E rows \in Seq(Rows) :
                /\ mem'[cur]["api"] = rows
                /\ ToSet(rows) = ToSet(job[k].res) \cup {next}
                /\ queue'[cur]["api"] = Append(queue[cur]["api"], Entry(rows, FALSE, FALSE))
                /\ mem'[cur]["ui"] = mem[cur]["ui"] /\ queue'[cur]["ui"] = queue[cur]["ui"]
                /\ \A j \in Instances : j # cur => mem'[j] = mem[j] /\ queue'[j] = queue[j]
                /\ next \in Rows /\ next' = next + 1 /\ owed' = owed \cup {next}
                /\ rev' = rev + 1 /\ gone' = gone
                /\ job[k].rev = rev \/ "raced" \in mishaps'
                /\ mishaps \subseteq mishaps'
                /\ mishaps' \subseteq mishaps \cup {"raced", "late"}
                /\ stop[cur] = "saving" => "late" \in mishaps'
         /\ UNCHANGED <<fileVars, cur, guardVars, stopVars, opVars, scenario>>
<1> DEFINE j == job[k]
           n == Len(j.base)
           rows == SubSeq(j.res, 1, n) \o <<next>> \o SubSeq(j.res, n + 1, Len(j.res))
<1>1. /\ j.pc = "checked" /\ job' = [job EXCEPT ![k] = NoJob]
      /\ frozen[cur] => UNCHANGED <<memVars, next, ghostVars>>
      /\ ~frozen[cur] =>
           /\ next <= MaxRows + 2
           /\ mem' = [mem EXCEPT ![cur]["api"] = rows]
           /\ Enqueue(cur, "api", Entry(rows, FALSE, FALSE))
           /\ Revised(cur, TRUE)
           /\ next' = next + 1 /\ owed' = owed \cup {next}
           /\ mishaps' = mishaps \cup (IF j.rev = rev THEN {} ELSE {"raced"})
                               \cup (IF stop[cur] = "saving" THEN {"late"} ELSE {})
           /\ gone' = gone
      /\ UNCHANGED <<fileVars, cur, guardVars, stopVars, opVars, scenario>>
  BY DEF CondenseCommits
<1>2. job' \in [Jobs -> JobRecords] /\ job'[k] = NoJob
      /\ \A l \in Jobs : l # k => job'[l] = job[l]
  BY <1>1, NoJobFacts DEF TypeOK
<1>3. CASE frozen[cur]
  <2>1. TypeOK'
    BY <1>1, <1>2, <1>3
    DEF TypeOK, fileVars, memVars, guardVars, stopVars, opVars, ghostVars
  <2>2. QED BY <1>1, <1>2, <1>3, <2>1
<1>4. CASE ~frozen[cur]
  <2>1. j \in JobRecords /\ j.res \in Seq(Rows) /\ j.base \in Seq(Rows)
    BY DEF TypeOK, JobRecords
  <2>2. n \in 0..Len(j.res)
    <3>1. n <= Len(j.res) BY <1>1, <1>4 DEF JobInv
    <3>2. n \in Nat /\ Len(j.res) \in Nat BY <2>1, SetOfSeq
    <3>3. QED BY <3>1, <3>2
  <2>3. next \in Rows /\ next' \in 1..(MaxRows + 4)
    <3>1. next \in 1..(MaxRows + 4) BY DEF TypeOK
    <3>2. next <= MaxRows + 2 /\ next' = next + 1 BY <1>1, <1>4
    <3> HIDE DEF rows, n, j
    <3>3. QED BY <3>1, <3>2, Constants DEF Rows
  <2>4. rows \in Seq(Rows) /\ ToSet(rows) = ToSet(j.res) \cup {next}
    <3>1. rows = Inserted(j.res, n, next) BY DEF Inserted
    <3>2. j.res \in Seq(Rows) /\ n \in 0..Len(j.res) BY <2>1, <2>2
    <3> HIDE DEF rows, n, j
    <3>3. QED BY <3>1, <3>2, <2>3, InsertFacts
  <2>5. /\ mem' = [mem EXCEPT ![cur]["api"] = rows]
        /\ Enqueue(cur, "api", Entry(rows, FALSE, FALSE))
        /\ Revised(cur, TRUE)
        /\ next' = next + 1 /\ owed' = owed \cup {next} /\ gone' = gone
        /\ mishaps' = mishaps \cup (IF j.rev = rev THEN {} ELSE {"raced"})
                            \cup (IF stop[cur] = "saving" THEN {"late"} ELSE {})
    BY <1>1, <1>4
  <2> HIDE DEF rows, n, j
  <2>6. /\ "api" \in Files /\ "ui" \in Files /\ cur \in Instances
        /\ mem \in [Instances -> [Files -> Seq(Rows)]]
        /\ queue \in Chains /\ rev \in Nat /\ array \in Nat /\ owed \subseteq Rows
    BY Constants DEF TypeOK, Histories
  <2>7. /\ mem' \in [Instances -> [Files -> Seq(Rows)]] /\ mem'[cur]["api"] = rows
        /\ \A i \in Instances : i # cur => mem'[i] = mem[i]
        /\ \A f \in Files : f # "api" => mem'[cur][f] = mem[cur][f]
    BY <2>4, <2>5, <2>6, SetAt
  <2>8. Entry(rows, FALSE, FALSE) \in Entries BY <2>4, EntryFacts
  <2>9. /\ queue' \in Chains
        /\ queue'[cur]["api"] = Append(queue[cur]["api"], Entry(rows, FALSE, FALSE))
        /\ \A i \in Instances : i # cur => queue'[i] = queue[i]
        /\ \A f \in Files : f # "api" => queue'[cur][f] = queue[cur][f]
    BY <2>5, <2>6, <2>8, EnqueueFacts
  <2>10. rev' = rev + 1 /\ rev' \in Nat /\ array' \in Nat BY <2>5, <2>6 DEF Revised
  <2>11. mishaps' \subseteq Mishaps BY <2>5 DEF TypeOK, Mishaps, Faults
  <2>12. owed' \subseteq Rows BY <2>3, <2>5, <2>6
  <2>13. TypeOK'
    BY <1>1, <1>2, <2>3, <2>5, <2>7, <2>9, <2>10, <2>11, <2>12
    DEF TypeOK, Histories, fileVars, guardVars, stopVars, opVars
  <2>14. /\ mem'[cur]["ui"] = mem[cur]["ui"] /\ queue'[cur]["ui"] = queue[cur]["ui"]
    BY <2>6, <2>7, <2>9
  <2>15. /\ j.rev = rev \/ "raced" \in mishaps'
         /\ mishaps \subseteq mishaps'
         /\ mishaps' \subseteq mishaps \cup {"raced", "late"}
         /\ stop[cur] = "saving" => "late" \in mishaps'
    BY <2>5
  <2>16. QED
    BY <1>1, <1>2, <1>4, <2>3, <2>4, <2>5, <2>7, <2>9, <2>10, <2>13, <2>14, <2>15 DEF j
<1>5. QED BY <1>3, <1>4

\* A stop begins.
LEMMA StopBeginsFacts ==
  ASSUME TypeOK, StopBegins
  PROVE  /\ TypeOK' /\ stop[cur] = "no" /\ BeginStop
         /\ mishaps' = IF op.pc # "none" THEN mishaps \cup {"crossed"} ELSE mishaps
         /\ UNCHANGED <<fileVars, cur, mem, rev, array, guardVars, opVars, job, next, owed,
                        gone, scenario>>
<1>1. /\ stop[cur] = "no" /\ BeginStop
      /\ mishaps' = IF op.pc # "none" THEN mishaps \cup {"crossed"} ELSE mishaps
      /\ UNCHANGED <<fileVars, cur, guardVars, opVars, job, next, owed, gone, scenario>>
  BY DEF StopBegins
<1>2. /\ queue' \in Chains /\ ahead' \in [Files -> Nat]
      /\ mem' = mem /\ rev' = rev /\ array' = array
      /\ stop' \in [Instances -> {"no", "saving", "over"}]
  BY <1>1, BeginStopFacts
<1>3. TypeOK' BY <1>1, <1>2 DEF TypeOK, fileVars, guardVars, opVars, Mishaps
<1>4. QED BY <1>1, <1>2, <1>3

\* A stop ends, with its saves or without.
LEMMA StopEndsFacts ==
  ASSUME TypeOK, StopSaved \/ StopTimesOut
  PROVE  /\ TypeOK' /\ stop[cur] = "saving" /\ EndStop
         /\ \/ StopSaved /\ mishaps' = mishaps /\ \A f \in Files : ahead[f] = 0
            \/ mishaps' = mishaps \cup {"slow"}
         /\ UNCHANGED <<fileVars, cur, array, queue, opVars, job, next, owed, gone, scenario>>
<1>1. /\ stop[cur] = "saving" /\ EndStop
      /\ \/ StopSaved /\ mishaps' = mishaps /\ ahead = [f \in Files |-> 0]
         \/ mishaps' = mishaps \cup {"slow"}
      /\ UNCHANGED <<fileVars, cur, array, queue, opVars, job, next, owed, gone, scenario>>
  BY DEF StopSaved, StopTimesOut, ghostVars
<1>2. /\ stop' \in [Instances -> {"no", "saving", "over"}]
      /\ frozen' \in [Instances -> BOOLEAN] /\ allow' \in [Instances -> BOOLEAN]
      /\ rev' \in Nat /\ mem' \in Histories /\ ahead' \in [Files -> Nat]
  BY <1>1, EndStopFacts
<1>3. TypeOK' BY <1>1, <1>2 DEF TypeOK, fileVars, opVars, Mishaps
<1>4. QED BY <1>1, <1>3

LEMMA EmptyFacts ==
  Empty \in [Files -> Seq(Rows)] /\ Empty \in [Files -> Seq(Entries)]
  /\ \A f \in Files : Empty[f] = <<>>
BY DEF Empty

\* The next instance reads the files.
LEMMA ReopenFacts ==
  ASSUME TypeOK, Reopen
  PROVE  /\ TypeOK' /\ cur' = cur + 1 /\ cur' \in Instances /\ stop[cur] = "over"
         /\ \A f \in Files : mem'[cur'][f] = Read(f)
         /\ \A j \in Instances : j # cur' => mem'[j] = mem[j]
         /\ \A k \in Jobs : job'[k] = NoJob
         /\ op' = IF op.pc = "done" THEN NoOp ELSE op
         /\ owed' = ToSet(Read("ui")) \cup ToSet(Read("api"))
         /\ mishaps' = IF \E i \in 1..cur : queue[i] # Empty THEN mishaps \cup {"overlap"}
                                                             ELSE mishaps
         /\ UNCHANGED <<fileVars, queue, guardVars, stopVars, ops, next, gone, scenario>>
<1>1. /\ stop[cur] = "over" /\ cur < MaxInstances /\ cur' = cur + 1
      /\ mem' = [mem EXCEPT ![cur + 1] = [f \in Files |-> Read(f)]]
      /\ rev' = 0 /\ array' = 0 /\ job' = [k \in Jobs |-> NoJob]
      /\ op' = IF op.pc = "done" THEN NoOp ELSE op
      /\ owed' = ToSet(Read("ui")) \cup ToSet(Read("api"))
      /\ mishaps' = IF \E i \in 1..cur : queue[i] # Empty THEN mishaps \cup {"overlap"}
                                                          ELSE mishaps
      /\ UNCHANGED <<fileVars, queue, guardVars, stopVars, ops, next, gone, scenario>>
  BY DEF Reopen
<1>2. cur + 1 \in Instances BY <1>1, Constants DEF TypeOK, Instances
<1>3. \A f \in Files : Read(f) \in Seq(Rows) BY DEF Read, TypeOK
<1>4. /\ mem' \in Histories /\ \A f \in Files : mem'[cur'][f] = Read(f)
      /\ \A j \in Instances : j # cur' => mem'[j] = mem[j]
  BY <1>1, <1>2, <1>3 DEF TypeOK, Histories
<1>5. owed' \subseteq Rows BY <1>1, <1>3, SetOfSeq, Constants
<1>6. op' \in Ops BY <1>1, NoOpFacts DEF TypeOK
<1>7. job' \in [Jobs -> JobRecords] /\ \A k \in Jobs : job'[k] = NoJob BY <1>1, NoJobFacts
<1>8. mishaps' \subseteq Mishaps BY <1>1 DEF TypeOK, Mishaps
<1>9. TypeOK'
  BY <1>1, <1>2, <1>4, <1>5, <1>6, <1>7, <1>8 DEF TypeOK, fileVars, guardVars, stopVars
<1>10. QED BY <1>1, <1>2, <1>4, <1>7, <1>9

\* The host ends.
LEMMA CrashFacts ==
  ASSUME TypeOK, Crash
  PROVE  /\ TypeOK' /\ \A f \in Files : file'[f] = Read(f) /\ writer'[f] = None
         /\ \A i \in Instances : mem'[i] = Empty /\ queue'[i] = Empty
         /\ frozen'[cur] = TRUE /\ stop'[cur] = "over"
         /\ \A i \in Instances : i # cur => frozen'[i] = frozen[i] /\ stop'[i] = stop[i]
         /\ op' = NoOp /\ \A k \in Jobs : job'[k] = NoJob
         /\ mishaps' = mishaps \cup {"crash"}
         /\ UNCHANGED <<there, cur, rev, array, allow, ops, next, owed, gone, scenario>>
<1>1. /\ file' = [f \in Files |-> Read(f)] /\ writer' = [f \in Files |-> None]
      /\ mem' = [i \in Instances |-> Empty] /\ queue' = [i \in Instances |-> Empty]
      /\ frozen' = [frozen EXCEPT ![cur] = TRUE] /\ stop' = [stop EXCEPT ![cur] = "over"]
      /\ ahead' = [f \in Files |-> 0] /\ op' = NoOp /\ job' = [k \in Jobs |-> NoJob]
      /\ mishaps' = mishaps \cup {"crash"}
      /\ UNCHANGED <<there, cur, rev, array, allow, ops, next, owed, gone, scenario>>
  BY DEF Crash
<1>2. \A f \in Files : Read(f) \in Seq(Rows) BY DEF Read, TypeOK
<1>3. /\ file' \in [Files -> Seq(Rows)] /\ writer' \in [Files -> Instances \cup {None}]
      /\ \A f \in Files : file'[f] = Read(f) /\ writer'[f] = None
  BY <1>1, <1>2
<1>4. /\ mem' \in Histories /\ queue' \in Chains
      /\ \A i \in Instances : mem'[i] = Empty /\ queue'[i] = Empty
  BY <1>1, EmptyFacts DEF Histories, Chains
<1>5. /\ frozen' \in [Instances -> BOOLEAN] /\ stop' \in [Instances -> {"no", "saving", "over"}]
      /\ frozen'[cur] = TRUE /\ stop'[cur] = "over"
      /\ \A i \in Instances : i # cur => frozen'[i] = frozen[i] /\ stop'[i] = stop[i]
  BY <1>1 DEF TypeOK
<1>6. /\ ahead' \in [Files -> Nat] /\ job' \in [Jobs -> JobRecords]
      /\ \A k \in Jobs : job'[k] = NoJob
  BY <1>1, NoJobFacts
<1>7. op' \in Ops /\ mishaps' \subseteq Mishaps
  BY <1>1, NoOpFacts DEF TypeOK, Mishaps, Faults
<1>8. TypeOK' BY <1>1, <1>3, <1>4, <1>5, <1>6, <1>7 DEF TypeOK
<1>9. QED BY <1>1, <1>3, <1>4, <1>5, <1>6, <1>8
-----------------------------------------------------------------------------
(***************************************************************************)
(* The first part of the invariant is inductive                            *)
(***************************************************************************)

\* A chain that is as it was, or has one save more.
Grown(s, t) == t = s \/ \E e \in Entries : t = Append(s, e)

ChainsGrow == \A i \in Instances, f \in Files : Grown(queue[i][f], queue'[i][f])

\* A chain that has grown is as long at least, and holds what it held, where it held it.
LEMMA GrownFacts ==
  ASSUME NEW s \in Seq(Entries), NEW t, Grown(s, t)
  PROVE  /\ t \in Seq(Entries) /\ Len(s) \in Nat /\ Len(t) \in Nat /\ Len(s) <= Len(t)
         /\ s # <<>> => t # <<>> /\ Head(t) = Head(s)
         /\ \A p \in 1..Len(s) : p \in 1..Len(t) /\ t[p] = s[p]
<1>1. CASE t = s BY <1>1, SetOfSeq
<1>2. ASSUME NEW e \in Entries, t = Append(s, e)
      PROVE  /\ t \in Seq(Entries) /\ Len(s) \in Nat /\ Len(t) = Len(s) + 1 /\ t # <<>>
             /\ \A p \in 1..Len(s) : t[p] = s[p]
  BY <1>2, AppendFacts, SetOfSeq
<1>3. CASE \E e \in Entries : t = Append(s, e)
  <2>1. /\ t \in Seq(Entries) /\ Len(s) \in Nat /\ Len(t) = Len(s) + 1 /\ t # <<>>
        /\ \A p \in 1..Len(s) : t[p] = s[p]
    BY <1>2, <1>3
  <2>2. s # <<>> => Head(t) = Head(s)
    <3>1. s # <<>> => Head(s) = s[1] /\ Len(s) > 0 BY TailFacts
    <3>2. Head(t) = t[1] BY <2>1, TailFacts
    <3>3. QED BY <3>1, <3>2, <2>1
  <2>3. QED BY <2>1, <2>2
<1>4. QED BY <1>1, <1>3 DEF Grown

LEMMA OpSame ==
  ASSUME TypeOK, OpInv, op' = op, cur' = cur, next' \in Nat, next <= next', ChainsGrow
  PROVE  OpInv'
<1>1. op.inst \in Instances /\ op.upto \in Nat /\ op.wait \in Nat /\ next \in Nat
      /\ \A i \in Instances, f \in Files : queue[i][f] \in Seq(Entries)
  BY StateTypes
<1>2. op.pc \in Files => op.wait <= Len(queue'[op.inst][op.pc])
  <2> SUFFICES ASSUME op.pc \in Files PROVE op.wait <= Len(queue'[op.inst][op.pc]) OBVIOUS
  <2> DEFINE s == queue[op.inst][op.pc]
             t == queue'[op.inst][op.pc]
  <2>1. s \in Seq(Entries) /\ Grown(s, t) BY <1>1 DEF ChainsGrow
  <2>2. op.wait <= Len(s) BY DEF OpInv
  <2> HIDE DEF s, t
  <2>3. op.wait <= Len(t) BY <1>1, <2>1, <2>2, GrownFacts
  <2>4. QED BY <2>3 DEF t
<1>3. op.upto <= next' BY <1>1 DEF OpInv
<1>4. QED BY <1>2, <1>3 DEF OpInv

LEMMA WriterSame ==
  ASSUME TypeOK, WriterInv, UNCHANGED fileVars, mishaps \subseteq mishaps', ChainsGrow
  PROVE  WriterInv'
<1> SUFFICES ASSUME NEW f \in Files
             PROVE  /\ writer[f] # None => queue'[writer[f]][f] # <<>> /\ ~there[f]
                    /\ writer[f] = None /\ ~there[f] => file[f] = <<>> /\ "crash" \in mishaps'
  BY DEF WriterInv, fileVars
<1>1. \A i \in Instances : queue[i][f] # <<>> => queue'[i][f] # <<>>
  <2> TAKE i \in Instances
  <2>1. queue[i][f] \in Seq(Entries) /\ Grown(queue[i][f], queue'[i][f])
    BY StateTypes DEF ChainsGrow
  <2>2. QED BY <2>1, GrownFacts
<1>2. writer[f] # None => writer[f] \in Instances BY DEF TypeOK
<1>3. QED BY <1>1, <1>2 DEF WriterInv

LEMMA LaterSame ==
  ASSUME TypeOK, LaterInv, cur' = cur,
         \A i \in Instances : i # cur =>
           queue'[i] = queue[i] /\ stop'[i] = stop[i] /\ frozen'[i] = frozen[i],
         stop'[cur] = "over" => frozen'[cur]
  PROVE  LaterInv'
<1>1. cur \in Nat /\ \A i \in Instances : i \in Nat /\ (i > cur => i # cur)
  BY Constants DEF TypeOK
<1>2. QED BY <1>1 DEF LaterInv

LEMMA JobSame ==
  ASSUME TypeOK, JobInv, cur' = cur, frozen[cur] => frozen'[cur],
         \A k \in Jobs : job'[k] = job[k] \/ job'[k] = NoJob,
         rev' \in Nat, rev <= rev', rev' = rev => mem'[cur]["api"] = mem[cur]["api"]
  PROVE  JobInv'
<1> SUFFICES ASSUME ~frozen'[cur], NEW k \in Jobs, job'[k] = job[k]
             PROVE  /\ job[k].pc # "none" => job[k].rev <= rev'
                    /\ job[k].pc = "summary" /\ job[k].rev = rev'
                         => job[k].base = mem'[cur]["api"]
                    /\ job[k].pc = "checked" =>
                         /\ Len(job[k].base) <= Len(job[k].res)
                         /\ job[k].rev = rev' => job[k].res = mem'[cur]["api"]
  <2>1. NoJob.pc = "none" BY NoJobFacts
  <2>2. QED BY <2>1 DEF JobInv
<1>1. job[k].rev \in Nat /\ rev \in Nat BY DEF TypeOK, JobRecords
<1>2. /\ job[k].pc # "none" => job[k].rev <= rev
      /\ job[k].pc = "summary" /\ job[k].rev = rev => job[k].base = mem[cur]["api"]
      /\ job[k].pc = "checked" => /\ Len(job[k].base) <= Len(job[k].res)
                                  /\ job[k].rev = rev => job[k].res = mem[cur]["api"]
  BY DEF JobInv
<1>3. job[k].rev <= rev => (job[k].rev = rev' => rev' = rev) BY <1>1
<1>4. job[k].rev <= rev => job[k].rev <= rev' BY <1>1
<1>5. job[k].pc = "checked" \/ job[k].pc = "summary" => job[k].pc # "none" OBVIOUS
<1>6. QED BY <1>2, <1>3, <1>4, <1>5

\* A save that is over leaves the rewind and the instances to come as they were.
LEMMA SettleKeeps ==
  ASSUME TypeOK, OpInv, LaterInv, NEW i \in Instances, NEW f \in Files,
         queue[i][f] # <<>>, Settle(i, f), UNCHANGED <<cur, stop, guardVars, next>>
  PROVE  OpInv' /\ LaterInv'
<1> DEFINE s == queue[i][f]
<1>1. /\ queue \in Chains /\ ahead \in [Files -> Nat] /\ op \in Ops /\ op.wait \in Nat
      /\ s \in Seq(Entries) /\ cur \in Nat
  BY StateTypes, Constants DEF TypeOK
<1>2. /\ queue'[i][f] = Tail(s)
      /\ \A j \in Instances : j # i => queue'[j] = queue[j]
      /\ \A g \in Files : g # f => queue'[i][g] = queue[i][g]
      /\ op'.pc = op.pc /\ op'.kind = op.kind /\ op'.inst = op.inst /\ op'.upto = op.upto
      /\ op'.wait = IF op.inst = i /\ op.pc = f /\ op.wait > 0 THEN op.wait - 1 ELSE op.wait
  BY <1>1, SettleFacts
<1>3. Len(s) \in Nat /\ Len(s) > 0 /\ Len(Tail(s)) = Len(s) - 1 BY <1>1, TailFacts
<1>4. op.pc \in Files => op'.wait <= Len(queue'[op.inst][op.pc])
  <2>1. CASE op.inst = i /\ op.pc = f
    <3>1. op.wait <= Len(s) BY <2>1 DEF OpInv
    <3>2. \A w, n \in Nat : n > 0 /\ w <= n => (IF w > 0 THEN w - 1 ELSE w) <= n - 1 OBVIOUS
    <3>3. op'.wait = IF op.wait > 0 THEN op.wait - 1 ELSE op.wait BY <1>2, <2>1
    <3> HIDE DEF s
    <3>4. op'.wait <= Len(s) - 1 BY <1>1, <1>3, <3>1, <3>2, <3>3
    <3>5. queue'[op.inst][op.pc] = Tail(s) BY <1>2, <2>1
    <3>6. QED BY <1>3, <3>4, <3>5
  <2>2. CASE ~(op.inst = i /\ op.pc = f)
    <3>1. op'.wait = op.wait BY <1>2, <2>2
    <3>2. op.pc \in Files => queue'[op.inst][op.pc] = queue[op.inst][op.pc]
      BY <1>2, <2>2, StateTypes
    <3>3. QED BY <3>1, <3>2 DEF OpInv
  <2>3. QED BY <2>1, <2>2
<1>5. OpInv' BY <1>2, <1>4 DEF OpInv
<1>6. ~(i > cur)
  <2>1. i > cur => queue[i] = Empty BY DEF LaterInv
  <2>2. QED BY <2>1, EmptyFacts
<1>7. LaterInv' BY <1>2, <1>6 DEF LaterInv, guardVars
<1>8. QED BY <1>5, <1>7

LEMMA PushBase ==
  ASSUME Base, NEW f \in Files, Push(f)
  PROVE  Base'
<1>1. TypeOK /\ OpInv /\ WriterInv /\ LaterInv /\ JobInv BY DEF Base
<1>2. /\ TypeOK' /\ next' = next + 1 /\ ~frozen[cur] /\ stop[cur] # "over"
      /\ queue'[cur][f] = Append(queue[cur][f], Entry(mem'[cur][f], FALSE, TRUE))
      /\ Entry(mem'[cur][f], FALSE, TRUE) \in Entries
      /\ \A j \in Instances : j # cur => mem'[j] = mem[j] /\ queue'[j] = queue[j]
      /\ \A g \in Files : g # f => mem'[cur][g] = mem[cur][g] /\ queue'[cur][g] = queue[cur][g]
      /\ rev' = IF f = "api" THEN rev + 1 ELSE rev
      /\ mishaps' = IF stop[cur] = "saving" THEN mishaps \cup {"late"} ELSE mishaps
      /\ UNCHANGED <<fileVars, cur, guardVars, stopVars, opVars, job, gone, scenario>>
  BY <1>1, PushFacts
<1>3. ChainsGrow BY <1>2 DEF ChainsGrow, Grown
<1>4. next \in Nat /\ rev \in Nat /\ cur \in Instances /\ "api" \in Files
  BY <1>1, StateTypes
<1>5. OpInv' BY <1>1, <1>2, <1>3, <1>4, OpSame DEF opVars
<1>6. WriterInv' BY <1>1, <1>2, <1>3, WriterSame
<1>7. LaterInv' BY <1>1, <1>2, LaterSame DEF guardVars, stopVars
<1>8. rev' \in Nat /\ rev <= rev' /\ (rev' = rev => f # "api")
  <2>1. \A r \in Nat : r + 1 \in Nat /\ r <= r + 1 /\ r + 1 # r /\ r <= r OBVIOUS
  <2>2. QED BY <2>1, <1>2, <1>4
<1>9. JobInv' BY <1>1, <1>2, <1>4, <1>8, JobSame DEF guardVars
<1>10. QED BY <1>2, <1>5, <1>6, <1>7, <1>9 DEF Base

LEMMA SaveBase ==
  ASSUME Base, NEW i \in Instances, NEW f \in Files,
         SaveBegins(i, f) \/ SaveLands(i, f) \/ SaveFails(i, f)
  PROVE  Base'
<1>1. TypeOK /\ OpInv /\ WriterInv /\ LaterInv /\ JobInv BY DEF Base
<1>2. /\ queue \in Chains /\ ahead \in [Files -> Nat] /\ op \in Ops
      /\ \A g \in Files : writer[g] \in Instances \cup {None}
  BY <1>1 DEF TypeOK
<1>3. ASSUME TypeOK', UNCHANGED <<cur, mem, rev, job, guardVars>>
      PROVE  JobInv'
  BY <1>1, <1>3, JobSame, StateTypes DEF guardVars
<1>4. ASSUME SaveBegins(i, f) PROVE Base'
  <2>1. /\ TypeOK' /\ queue[i][f] # <<>> /\ writer[f] # i
        /\ \/ Settle(i, f) /\ UNCHANGED <<there, writer>>
           \/ /\ writer[f] = None /\ writer'[f] = i /\ there'[f] = FALSE
              /\ \A g \in Files : g # f => writer'[g] = writer[g] /\ there'[g] = there[g]
              /\ UNCHANGED <<queue, ahead, op>>
        /\ UNCHANGED <<file, cur, mem, rev, array, guardVars, stop, ops, job, next, ghostVars>>
    BY <1>1, <1>4, SaveBeginsFacts
  <2>2. JobInv' BY <2>1, <1>3
  <2>3. CASE Settle(i, f) /\ UNCHANGED <<there, writer>>
    <3>1. OpInv' /\ LaterInv' BY <1>1, <2>1, <2>3, SettleKeeps
    <3>2. /\ \A j \in Instances : j # i => queue'[j] = queue[j]
          /\ \A g \in Files : g # f => queue'[i][g] = queue[i][g]
      BY <1>2, <2>1, <2>3, SettleFacts
    <3>3. WriterInv' BY <1>1, <1>2, <2>1, <2>3, <3>2 DEF WriterInv, ghostVars
    <3>4. QED BY <2>1, <2>2, <3>1, <3>3 DEF Base
  <2>4. CASE /\ writer[f] = None /\ writer'[f] = i /\ there'[f] = FALSE
             /\ \A g \in Files : g # f => writer'[g] = writer[g] /\ there'[g] = there[g]
             /\ UNCHANGED <<queue, ahead, op>>
    <3>1. OpInv' BY <1>1, <2>1, <2>4 DEF OpInv
    <3>2. LaterInv' BY <1>1, <2>1, <2>4 DEF LaterInv, guardVars
    <3>3. WriterInv' BY <1>1, <1>2, <2>1, <2>4, Constants DEF WriterInv, ghostVars
    <3>4. QED BY <2>1, <2>2, <3>1, <3>2, <3>3 DEF Base
  <2>5. QED BY <2>1, <2>3, <2>4
<1>5. ASSUME SaveLands(i, f) PROVE Base'
  <2>1. /\ TypeOK' /\ queue[i][f] # <<>>
        /\ file'[f] = queue[i][f][1].rows /\ there'[f] = TRUE /\ writer'[f] = None
        /\ \A g \in Files : g # f =>
             file'[g] = file[g] /\ there'[g] = there[g] /\ writer'[g] = writer[g]
        /\ Settle(i, f)
        /\ UNCHANGED <<cur, mem, rev, array, guardVars, stop, ops, job, next, ghostVars>>
    BY <1>1, <1>5, SaveLandsFacts
  <2>2. JobInv' BY <2>1, <1>3
  <2>3. OpInv' /\ LaterInv' BY <1>1, <2>1, SettleKeeps
  <2>4. /\ \A j \in Instances : j # i => queue'[j] = queue[j]
        /\ \A g \in Files : g # f => queue'[i][g] = queue[i][g]
    BY <1>2, <2>1, SettleFacts
  <2>5. WriterInv' BY <1>1, <1>2, <2>1, <2>4 DEF WriterInv, ghostVars
  <2>6. QED BY <2>1, <2>2, <2>3, <2>5 DEF Base
<1>6. ASSUME SaveFails(i, f) PROVE Base'
  <2>1. /\ TypeOK' /\ queue[i][f] # <<>> /\ writer[f] # i /\ Settle(i, f)
        /\ mishaps' = mishaps \cup {"failed"}
        /\ UNCHANGED <<fileVars, cur, mem, rev, array, guardVars, stop, ops, job, next>>
    BY <1>1, <1>6, SaveFailsFacts
  <2>2. JobInv' BY <2>1, <1>3
  <2>3. OpInv' /\ LaterInv' BY <1>1, <2>1, SettleKeeps
  <2>4. /\ \A j \in Instances : j # i => queue'[j] = queue[j]
        /\ \A g \in Files : g # f => queue'[i][g] = queue[i][g]
    BY <1>2, <2>1, SettleFacts
  <2>5. WriterInv' BY <1>1, <1>2, <2>1, <2>4 DEF WriterInv, fileVars
  <2>6. QED BY <2>1, <2>2, <2>3, <2>5 DEF Base
<1>7. QED BY <1>4, <1>5, <1>6

\* A rewind: no chain is shorter after it, and the save it waits for is on its chain.
LEMMA RewindGrows ==
  ASSUME TypeOK, NEW i \in Instances, NEW f \in Files, NEW rows \in Seq(Rows),
         NEW force \in BOOLEAN, Rewind(i, f, rows, force)
  PROVE  /\ ChainsGrow /\ Wait(i, f) \in Nat /\ Wait(i, f) <= Len(queue'[i][f])
         /\ \A g \in Files : g # f => mem'[i][g] = mem[i][g] /\ queue'[i][g] = queue[i][g]
         /\ \A j \in Instances : j # i => mem'[j] = mem[j] /\ queue'[j] = queue[j]
<1>1. /\ Wait(i, f) \in Nat
      /\ Refuses(i, force) => Wait(i, f) = 0
      /\ ~Refuses(i, force) => /\ Wait(i, f) = Len(queue'[i][f])
                                /\ Entry(rows, force, FALSE) \in Entries
  BY WaitFacts
<1>2. /\ queue' \in Chains
      /\ Refuses(i, force) => queue' = queue
      /\ ~Refuses(i, force) => queue'[i][f] = Append(queue[i][f], Entry(rows, force, FALSE))
      /\ \A j \in Instances : j # i => mem'[j] = mem[j] /\ queue'[j] = queue[j]
      /\ \A g \in Files : g # f => mem'[i][g] = mem[i][g] /\ queue'[i][g] = queue[i][g]
  <2>1. queue \in Chains /\ mem \in Histories /\ owed \subseteq Rows /\ cur \in Instances
    BY StateTypes
  <2>2. queue' \in Chains BY <2>1, RewindFacts
  <2>3. Refuses(i, force) => queue' = queue BY <2>1, RewindFacts
  <2>4. ~Refuses(i, force) => queue'[i][f] = Append(queue[i][f], Entry(rows, force, FALSE))
    BY <2>1, RewindFacts
  <2>5. \A j \in Instances : j # i => mem'[j] = mem[j] /\ queue'[j] = queue[j]
    <3>1. \/ mem' = mem /\ queue' = queue
          \/ /\ mem' = [mem EXCEPT ![i][f] = rows]
             /\ Enqueue(i, f, Entry(rows, force, FALSE))
      BY DEF Rewind
    <3>2. QED BY <2>1, <3>1 DEF Enqueue, Histories, Chains
  <2>6. \A g \in Files : g # f => mem'[i][g] = mem[i][g] /\ queue'[i][g] = queue[i][g]
    BY <2>1, RewindElsewhere
  <2>7. QED BY <2>2, <2>3, <2>4, <2>5, <2>6
<1>3. ChainsGrow BY <1>1, <1>2 DEF ChainsGrow, Grown
<1>4. Len(queue'[i][f]) \in Nat
  <2>1. queue'[i][f] \in Seq(Entries) BY <1>2 DEF Chains
  <2>2. QED BY <2>1, SetOfSeq
<1>5. Wait(i, f) <= Len(queue'[i][f])
  <2>1. Wait(i, f) = 0 \/ Wait(i, f) = Len(queue'[i][f]) BY <1>1
  <2>2. QED BY <2>1, <1>4
<1>6. QED BY <1>1, <1>2, <1>3, <1>5

\* A rewind that is not refused.
LEMMA RewindDone ==
  ASSUME TypeOK, NEW i \in Instances, NEW f \in Files, NEW rows \in Seq(Rows),
         NEW force \in BOOLEAN, Rewind(i, f, rows, force), ~Refuses(i, force)
  PROVE  /\ mem'[i][f] = rows
         /\ queue'[i][f] = Append(queue[i][f], Entry(rows, force, FALSE))
<1>1. mem \in Histories /\ queue \in Chains BY StateTypes
<1>2. mem' = [mem EXCEPT ![i][f] = rows] /\ Enqueue(i, f, Entry(rows, force, FALSE))
  BY DEF Rewind, Refuses
<1>3. FALSE \in BOOLEAN OBVIOUS
<1>4. Entry(rows, force, FALSE) \in Entries BY <1>3, EntryFacts
<1>5. queue'[i][f] = Append(queue[i][f], Entry(rows, force, FALSE))
  BY <1>1, <1>2, <1>4, EnqueueFacts
<1>6. QED BY <1>1, <1>2, <1>5 DEF Histories

LEMMA RewindBeginsBase ==
  ASSUME Base, NEW n \in Rows, DeleteBegins(n) \/ EditBegins(n) \/ ReplaceBegins(n)
  PROVE  Base'
<1>1. TypeOK /\ OpInv /\ WriterInv /\ LaterInv /\ JobInv BY DEF Base
<1>2. PICK rows \in Seq(Rows), force \in BOOLEAN :
        /\ TypeOK' /\ Rewind(cur, "ui", rows, force)
        /\ op'.pc = "ui" /\ op'.inst = cur /\ op'.upto = next'
        /\ op'.wait = Wait(cur, "ui")
        /\ op'.kind = "edit" => Freeze(cur)
        /\ op'.kind # "edit" => UNCHANGED guardVars
        /\ op'.kind = "replace" => next \in 1..MaxRows /\ next' = next + 3
        /\ op'.kind # "replace" => next' = next
        /\ stop[cur] # "over"
        /\ mishaps' = IF stop[cur] = "saving" THEN mishaps \cup {"crossed"} ELSE mishaps
        /\ rev' \in {rev, rev + 1}
        /\ UNCHANGED <<fileVars, cur, array, stopVars, job, gone, scenario>>
  BY <1>1, BeginsFacts
<1>3. cur \in Instances /\ "ui" \in Files /\ "api" \in Files /\ next \in Nat /\ rev \in Nat
  BY <1>1, StateTypes
<1>4. /\ ChainsGrow /\ Wait(cur, "ui") \in Nat /\ Wait(cur, "ui") <= Len(queue'[cur]["ui"])
      /\ \A g \in Files : g # "ui" => mem'[cur][g] = mem[cur][g]
      /\ \A j \in Instances : j # cur => mem'[j] = mem[j] /\ queue'[j] = queue[j]
  BY <1>1, <1>2, <1>3, RewindGrows
<1>5. OpInv'
  <2>1. op'.kind = "replace" => op'.upto \in 2..(MaxRows + 3) BY <1>2, Constants
  <2>2. op'.inst <= cur' BY <1>2, <1>3, Constants
  <2>3. op'.upto <= next' BY <1>1, <1>2, StateTypes DEF TypeOK
  <2>4. QED BY <1>2, <1>4, <2>1, <2>2, <2>3 DEF OpInv
<1>6. WriterInv' BY <1>1, <1>2, <1>4, WriterSame
<1>7. /\ frozen[cur] => frozen'[cur]
      /\ \A j \in Instances : j # cur => frozen'[j] = frozen[j]
  BY <1>1, <1>2, <1>3 DEF Freeze, guardVars, TypeOK
<1>8. LaterInv' BY <1>1, <1>2, <1>4, <1>7, LaterSame DEF stopVars
<1>9. rev' \in Nat /\ rev <= rev' BY <1>2, <1>3
<1>10. JobInv' BY <1>1, <1>2, <1>3, <1>4, <1>7, <1>9, JobSame
<1>11. QED BY <1>2, <1>5, <1>6, <1>8, <1>10 DEF Base

\* A stop that begins: no chain is shorter after it.
LEMMA BeginStopGrows ==
  ASSUME TypeOK, BeginStop
  PROVE  ChainsGrow /\ stop'[cur] = "saving"
         /\ \A j \in Instances : j # cur => stop'[j] = stop[j] /\ queue'[j] = queue[j]
<1>1. /\ queue' \in Chains /\ stop'[cur] = "saving"
      /\ \A j \in Instances : j # cur => stop'[j] = stop[j] /\ queue'[j] = queue[j]
      /\ queue'[cur]["api"] = queue[cur]["api"]
      /\ frozen[cur] => queue' = queue
      /\ ~frozen[cur] =>
           queue'[cur]["ui"] = Append(queue[cur]["ui"], Entry(mem[cur]["ui"], FALSE, FALSE))
  BY BeginStopFacts
<1>2. Entry(mem[cur]["ui"], FALSE, FALSE) \in Entries BY StateTypes, EntryFacts
<1>3. ChainsGrow BY <1>1, <1>2, Constants DEF ChainsGrow, Grown
<1>4. QED BY <1>1, <1>3

LEMMA CheckpointBase ==
  ASSUME Base, NEW n \in Rows, CheckpointBegins(n)
  PROVE  Base'
<1>1. TypeOK /\ OpInv /\ WriterInv /\ LaterInv /\ JobInv BY DEF Base
<1>2. /\ TypeOK'
      /\ \/ stop[cur] = "no" /\ BeginStop
         \/ stop[cur] = "saving" /\ UNCHANGED <<memVars, stopVars>>
      /\ op'.pc = "git" /\ op'.inst = cur /\ op'.upto = next
      /\ op'.kind = "checkpoint" /\ op'.wait = 0
      /\ mishaps' = mishaps \cup {"crossed"}
      /\ UNCHANGED <<fileVars, cur, mem, rev, array, guardVars, job, next, owed, gone>>
  BY <1>1, CheckpointBeginsFacts
<1>3. /\ ChainsGrow
      /\ \A j \in Instances : j # cur => stop'[j] = stop[j] /\ queue'[j] = queue[j]
      /\ stop'[cur] # "over"
  <2>1. CASE BeginStop BY <1>1, <2>1, BeginStopGrows
  <2>2. CASE stop[cur] = "saving" /\ UNCHANGED <<memVars, stopVars>>
    BY <2>2 DEF memVars, stopVars, ChainsGrow, Grown
  <2>3. QED BY <1>2, <2>1, <2>2
<1>4. cur \in Nat /\ next \in Nat /\ rev \in Nat BY <1>1, StateTypes, Constants
<1>5. OpInv' BY <1>2, <1>4, Constants DEF OpInv, Files
<1>6. WriterInv' BY <1>1, <1>2, <1>3, WriterSame
<1>7. LaterInv' BY <1>1, <1>2, <1>3, LaterSame DEF guardVars
<1>8. JobInv' BY <1>1, <1>2, <1>4, JobSame DEF guardVars
<1>9. QED BY <1>2, <1>5, <1>6, <1>7, <1>8 DEF Base

\* No rewind is under way.
LEMMA NoOpInv ==
  ASSUME TypeOK', op' = NoOp
  PROVE  OpInv'
<1>1. cur' \in Instances /\ next' \in 1..(MaxRows + 4) BY DEF TypeOK
<1>2. 1 <= cur' /\ 1 <= next' BY <1>1, Constants DEF Instances
<1>3. QED BY <1>2, NoOpFacts DEF OpInv, Files

LEMMA CheckpointRestoredBase ==
  ASSUME Base, CheckpointRestored
  PROVE  Base'
<1>1. TypeOK /\ OpInv /\ WriterInv /\ LaterInv /\ JobInv BY DEF Base
<1>2. PICK rows \in Seq(Rows) :
        /\ TypeOK' /\ op.pc = "git"
        /\ \/ /\ Rewind(op.inst, "ui", rows, FALSE)
              /\ op'.pc = "ui" /\ op'.wait = Wait(op.inst, "ui")
           \/ UNCHANGED <<mem, queue, owed>> /\ op'.pc = "lost"
        /\ op'.kind = op.kind /\ op'.inst = op.inst /\ op'.upto = op.upto
        /\ UNCHANGED <<fileVars, cur, rev, array, guardVars, stopVars, ops, job, next, gone,
                       mishaps>>
  BY <1>1, CheckpointRestoredFacts
<1>3. op.inst \in Instances /\ "ui" \in Files /\ "api" \in Files /\ rev \in Nat
      /\ FALSE \in BOOLEAN /\ cur \in Instances
  BY <1>1, StateTypes
<1>4. /\ ChainsGrow /\ mem'[cur]["api"] = mem[cur]["api"]
      /\ \A j \in Instances : j # op.inst => queue'[j] = queue[j]
      /\ op'.pc \in Files => op'.wait <= Len(queue'[op.inst][op'.pc])
  <2>1. CASE /\ Rewind(op.inst, "ui", rows, FALSE)
             /\ op'.pc = "ui" /\ op'.wait = Wait(op.inst, "ui")
    <3>1. ChainsGrow /\ Wait(op.inst, "ui") <= Len(queue'[op.inst]["ui"])
      BY <1>1, <1>3, <2>1, RewindGrows
    <3>2. mem'[op.inst]["api"] = mem[op.inst]["api"]
      BY <1>1, <1>3, <2>1, RewindElsewhere, StateTypes
    <3>3. \A j \in Instances : j # op.inst => mem'[j] = mem[j] /\ queue'[j] = queue[j]
      BY <1>1, <1>3, <2>1, RewindGrows
    <3>4. QED BY <1>3, <2>1, <3>1, <3>2, <3>3
  <2>2. CASE UNCHANGED <<mem, queue, owed>> /\ op'.pc = "lost"
    BY <2>2 DEF ChainsGrow, Grown, Files
  <2>3. QED BY <1>2, <2>1, <2>2
<1>5. OpInv'
  <2>1. op'.pc # "git" BY <1>2
  <2>2. QED BY <1>1, <1>2, <1>4, <2>1 DEF OpInv
<1>6. WriterInv' BY <1>1, <1>2, <1>4, WriterSame
<1>7. \A j \in Instances : j > cur => j # op.inst
  BY <1>1, <1>3, Constants DEF OpInv
<1>8. LaterInv' BY <1>1, <1>2, <1>4, <1>7 DEF LaterInv, guardVars, stopVars
<1>9. JobInv' BY <1>1, <1>2, <1>3, <1>4, JobSame DEF guardVars
<1>10. QED BY <1>2, <1>5, <1>6, <1>8, <1>9 DEF Base

LEMMA ApiRewindsBase ==
  ASSUME Base, ApiRewinds
  PROVE  Base'
<1>1. TypeOK /\ OpInv /\ WriterInv /\ LaterInv /\ JobInv BY DEF Base
<1>2. PICK rows \in Seq(Rows), force \in BOOLEAN :
        /\ TypeOK' /\ op.pc = "ui" /\ op.wait = 0
        /\ \/ Rewind(op.inst, "api", rows, force) /\ Revised(op.inst, TRUE)
           \/ UNCHANGED <<memVars, owed>>
        /\ op'.wait = Wait(op.inst, "api") /\ op'.pc = "api"
        /\ op'.kind = op.kind /\ op'.inst = op.inst /\ op'.upto = op.upto
        /\ UNCHANGED <<fileVars, cur, guardVars, stopVars, ops, job, next, gone, mishaps>>
  BY <1>1, ApiRewindsFacts
<1>3. op.inst \in Instances /\ "ui" \in Files /\ "api" \in Files /\ rev \in Nat
      /\ cur \in Instances
  BY <1>1, StateTypes
<1>4. /\ ChainsGrow /\ Wait(op.inst, "api") <= Len(queue'[op.inst]["api"])
      /\ \A j \in Instances : j # op.inst => queue'[j] = queue[j]
      /\ rev' \in Nat /\ rev <= rev' /\ (rev' = rev => mem'[cur]["api"] = mem[cur]["api"])
  <2>1. CASE Rewind(op.inst, "api", rows, force) /\ Revised(op.inst, TRUE)
    <3>1. /\ ChainsGrow /\ Wait(op.inst, "api") <= Len(queue'[op.inst]["api"])
          /\ \A j \in Instances : j # op.inst => mem'[j] = mem[j] /\ queue'[j] = queue[j]
      BY <1>1, <1>3, <2>1, RewindGrows
    <3>2. rev' = IF op.inst = cur THEN rev + 1 ELSE rev BY <2>1 DEF Revised
    <3>3. rev' \in Nat /\ rev <= rev' /\ (rev' = rev => op.inst # cur)
      <4>1. \A r \in Nat : r + 1 \in Nat /\ r <= r + 1 /\ r + 1 # r /\ r <= r OBVIOUS
      <4>2. QED BY <4>1, <3>2, <1>3
    <3>4. QED BY <1>3, <3>1, <3>3
  <2>2. CASE UNCHANGED <<memVars, owed>>
    <3>1. queue' = queue /\ mem' = mem /\ rev' = rev BY <2>2 DEF memVars
    <3>2. Wait(op.inst, "api") = 0 BY <3>1 DEF Wait
    <3>3. Len(queue[op.inst]["api"]) \in Nat BY <1>1, <1>3, StateTypes, SetOfSeq
    <3>4. QED BY <1>3, <3>1, <3>2, <3>3 DEF ChainsGrow, Grown
  <2>3. QED BY <1>2, <2>1, <2>2
<1>5. OpInv' BY <1>1, <1>2, <1>4 DEF OpInv
<1>6. WriterInv' BY <1>1, <1>2, <1>4, WriterSame
<1>7. \A j \in Instances : j > cur => j # op.inst
  BY <1>1, <1>3, Constants DEF OpInv
<1>8. LaterInv' BY <1>1, <1>2, <1>4, <1>7 DEF LaterInv, guardVars, stopVars
<1>9. JobInv' BY <1>1, <1>2, <1>4, JobSame DEF guardVars
<1>10. QED BY <1>2, <1>5, <1>6, <1>8, <1>9 DEF Base

LEMMA RewindReturnsBase ==
  ASSUME Base, RewindReturns
  PROVE  Base'
<1>1. TypeOK /\ OpInv /\ WriterInv /\ LaterInv /\ JobInv BY DEF Base
<1>2. /\ TypeOK' /\ op'.pc = "direct"
      /\ op'.kind = op.kind /\ op'.inst = op.inst /\ op'.upto = op.upto
      /\ UNCHANGED <<fileVars, cur, memVars, guardVars, stopVars, ops, job, next, owed,
                     mishaps>>
  BY <1>1, RewindReturnsFacts
<1>3. OpInv' BY <1>1, <1>2 DEF OpInv, Files
<1>4. WriterInv' BY <1>1, <1>2 DEF WriterInv, fileVars, memVars
<1>5. LaterInv' BY <1>1, <1>2 DEF LaterInv, memVars, guardVars, stopVars
<1>6. JobInv' BY <1>1, <1>2 DEF JobInv, memVars, guardVars
<1>7. QED BY <1>2, <1>3, <1>4, <1>5, <1>6 DEF Base

LEMMA HandlerBase ==
  ASSUME Base, HandlerSaves \/ HandlerFails
  PROVE  Base'
<1>1. TypeOK /\ OpInv /\ WriterInv /\ LaterInv /\ JobInv BY DEF Base
<1>2. cur \in Instances /\ "ui" \in Files /\ rev \in Nat /\ op.inst \in Instances
  BY <1>1, StateTypes
<1>3. CASE HandlerSaves
  <2>1. /\ TypeOK' /\ writer["ui"] = None
        /\ file'["api"] = file["api"] /\ there'["ui"] = TRUE /\ there'["api"] = there["api"]
        /\ op.kind = "edit" =>
             /\ op'.pc = "stop" /\ op'.kind = op.kind /\ op'.inst = op.inst
             /\ op'.upto = op.upto
        /\ op.kind = "checkpoint" =>
             /\ op'.pc = "done" /\ op'.kind = op.kind /\ op'.inst = op.inst
             /\ op'.upto = op.upto
        /\ op.kind \notin {"edit", "checkpoint"} => op' = NoOp
        /\ op.kind = "replace" =>
             /\ frozen'[op.inst] = TRUE
             /\ \A j \in Instances : j # op.inst => frozen'[j] = frozen[j]
        /\ op.kind # "replace" => UNCHANGED <<guardVars, rev, array, owed>>
        /\ rev' \in {rev, rev + 1}
        /\ UNCHANGED <<writer, cur, mem, queue, stopVars, ops, job, next, gone, mishaps>>
    BY <1>1, <1>3, HandlerSavesFacts
  <2>2. OpInv'
    <3>1. CASE op.kind \in {"edit", "checkpoint"}
      BY <1>1, <2>1, <3>1 DEF OpInv, Files
    <3>2. CASE op.kind \notin {"edit", "checkpoint"} BY <2>1, <3>2, NoOpInv
    <3>3. QED BY <3>1, <3>2
  <2>3. WriterInv' BY <1>1, <2>1, Constants DEF WriterInv
  <2>4. \A j \in Instances : frozen[j] => frozen'[j]
    BY <1>1, <2>1 DEF guardVars, TypeOK
  <2>5. \A j \in Instances : j > cur => frozen'[j] = frozen[j]
    <3>1. \A j \in Instances : j > cur => j # op.inst
      BY <1>1, <1>2, Constants DEF OpInv
    <3>2. QED BY <2>1, <3>1 DEF guardVars
  <2>6. LaterInv' BY <1>1, <1>2, <2>1, <2>4, <2>5 DEF LaterInv, stopVars
  <2>7. rev' \in Nat /\ rev <= rev' BY <1>2, <2>1
  <2>8. JobInv' BY <1>1, <1>2, <2>1, <2>4, <2>7, JobSame
  <2>9. QED BY <2>1, <2>2, <2>3, <2>6, <2>8 DEF Base
<1>4. CASE HandlerFails
  <2>1. /\ TypeOK' /\ op' = NoOp /\ mishaps' = mishaps \cup {"failed"}
        /\ UNCHANGED <<fileVars, cur, memVars, guardVars, stopVars, ops, job, next, owed>>
    BY <1>1, <1>4, HandlerFailsFacts
  <2>2. OpInv' BY <2>1, NoOpInv
  <2>3. WriterInv' BY <1>1, <2>1 DEF WriterInv, fileVars, memVars
  <2>4. LaterInv' BY <1>1, <2>1 DEF LaterInv, memVars, guardVars, stopVars
  <2>5. JobInv' BY <1>1, <2>1 DEF JobInv, memVars, guardVars
  <2>6. QED BY <2>1, <2>2, <2>3, <2>4, <2>5 DEF Base
<1>5. QED BY <1>3, <1>4

LEMMA EditStopsBase ==
  ASSUME Base, EditStops
  PROVE  Base'
<1>1. TypeOK /\ OpInv /\ WriterInv /\ LaterInv /\ JobInv BY DEF Base
<1>2. /\ TypeOK' /\ op' = NoOp
      /\ stop[cur] = "no" => BeginStop
      /\ stop[cur] # "no" => UNCHANGED <<queue, stopVars>>
      /\ UNCHANGED <<fileVars, cur, mem, rev, array, guardVars, ops, job, next, ghostVars>>
  BY <1>1, EditStopsFacts
<1>3. /\ ChainsGrow
      /\ \A j \in Instances : j # cur => stop'[j] = stop[j] /\ queue'[j] = queue[j]
      /\ stop'[cur] = "over" => stop[cur] = "over"
  <2>1. CASE BeginStop BY <1>1, <2>1, BeginStopGrows
  <2>2. CASE UNCHANGED <<queue, stopVars>> BY <2>2 DEF stopVars, ChainsGrow, Grown
  <2>3. QED BY <1>2, <2>1, <2>2
<1>4. OpInv' BY <1>2, NoOpInv
<1>5. WriterInv' BY <1>1, <1>2, <1>3, WriterSame DEF ghostVars
<1>6. LaterInv' BY <1>1, <1>2, <1>3, LaterSame DEF guardVars, LaterInv
<1>7. JobInv' BY <1>1, <1>2, JobSame, StateTypes DEF guardVars
<1>8. QED BY <1>2, <1>4, <1>5, <1>6, <1>7 DEF Base

LEMMA JobBase ==
  ASSUME Base, NEW k \in Jobs,
         CondenseBegins(k) \/ CondenseChecks(k) \/ CondenseFails(k)
  PROVE  Base'
<1>1. TypeOK /\ OpInv /\ WriterInv /\ LaterInv /\ JobInv BY DEF Base
<1>2. /\ TypeOK'
      /\ \A l \in Jobs : l # k => job'[l] = job[l]
      /\ \/ job'[k] = NoJob
         \/ job'[k].pc = "summary" /\ job'[k].rev = rev /\ job'[k].base = mem[cur]["api"]
         \/ /\ job[k].pc = "summary" /\ job'[k].pc = "checked" /\ job'[k].rev = rev
            /\ job'[k].base = job[k].base /\ job'[k].res = mem[cur]["api"]
            /\ job[k].rev = rev \/ IsPrefix(job[k].base, mem[cur]["api"])
      /\ UNCHANGED <<fileVars, cur, memVars, guardVars, stopVars, opVars, next, ghostVars>>
  BY <1>1, JobFacts
<1>3. OpInv' BY <1>1, <1>2 DEF OpInv, opVars, memVars
<1>4. WriterInv' BY <1>1, <1>2 DEF WriterInv, fileVars, memVars, ghostVars
<1>5. LaterInv' BY <1>1, <1>2 DEF LaterInv, memVars, guardVars, stopVars
<1>6. JobInv'
  <2>1. mem' = mem /\ rev' = rev /\ frozen' = frozen /\ cur' = cur
    BY <1>2 DEF memVars, guardVars
  <2>2. rev <= rev BY <1>1, StateTypes
  <2>3. ASSUME job[k].rev = rev \/ IsPrefix(job[k].base, mem[cur]["api"]),
               ~frozen[cur], job[k].pc = "summary"
        PROVE  Len(job[k].base) <= Len(mem[cur]["api"])
    <3>1. CASE job[k].rev = rev
      <4>1. job[k].base = mem[cur]["api"] BY <1>1, <2>3, <3>1 DEF JobInv
      <4>2. Len(mem[cur]["api"]) \in Nat BY <1>1, StateTypes, SetOfSeq
      <4>3. QED BY <4>1, <4>2
    <3>2. CASE IsPrefix(job[k].base, mem[cur]["api"]) BY <3>2 DEF IsPrefix
    <3>3. QED BY <2>3, <3>1, <3>2
  <2>4. NoJob.pc = "none" BY NoJobFacts
  <2> SUFFICES ASSUME ~frozen[cur], NEW l \in Jobs
               PROVE  /\ job'[l].pc # "none" => job'[l].rev <= rev
                      /\ job'[l].pc = "summary" /\ job'[l].rev = rev
                           => job'[l].base = mem[cur]["api"]
                      /\ job'[l].pc = "checked" =>
                           /\ Len(job'[l].base) <= Len(job'[l].res)
                           /\ job'[l].rev = rev => job'[l].res = mem[cur]["api"]
    BY <2>1 DEF JobInv
  <2>5. CASE l # k BY <1>1, <1>2, <2>5 DEF JobInv
  <2>6. CASE l = k BY <1>2, <2>2, <2>3, <2>4, <2>6
  <2>7. QED BY <2>5, <2>6
<1>7. QED BY <1>2, <1>3, <1>4, <1>5, <1>6 DEF Base

LEMMA CommitBase ==
  ASSUME Base, NEW k \in Jobs, CondenseCommits(k)
  PROVE  Base'
<1>1. TypeOK /\ OpInv /\ WriterInv /\ LaterInv /\ JobInv BY DEF Base
<1>2. /\ TypeOK' /\ job'[k] = NoJob
      /\ \A l \in Jobs : l # k => job'[l] = job[l]
      /\ frozen[cur] => UNCHANGED <<memVars, next, ghostVars>>
      /\ ~frozen[cur] =>
           \E rows \in Seq(Rows) :
             /\ queue'[cur]["api"] = Append(queue[cur]["api"], Entry(rows, FALSE, FALSE))
             /\ queue'[cur]["ui"] = queue[cur]["ui"]
             /\ \A j \in Instances : j # cur => queue'[j] = queue[j]
             /\ next' = next + 1 /\ rev' = rev + 1 /\ mishaps \subseteq mishaps'
      /\ UNCHANGED <<fileVars, cur, guardVars, stopVars, opVars, scenario>>
  BY <1>1, CommitFacts
<1>3. /\ ChainsGrow /\ mishaps \subseteq mishaps' /\ next <= next'
      /\ \A j \in Instances : j # cur => queue'[j] = queue[j]
      /\ rev' \in Nat /\ rev <= rev' /\ (rev' = rev => mem'[cur]["api"] = mem[cur]["api"])
  <2>1. rev \in Nat /\ next \in Nat BY <1>1, StateTypes
  <2>2. CASE frozen[cur]
    BY <1>2, <2>1, <2>2 DEF memVars, ghostVars, ChainsGrow, Grown
  <2>3. CASE ~frozen[cur]
    <3>1. PICK rows \in Seq(Rows) :
            /\ queue'[cur]["api"] = Append(queue[cur]["api"], Entry(rows, FALSE, FALSE))
            /\ queue'[cur]["ui"] = queue[cur]["ui"]
            /\ \A j \in Instances : j # cur => queue'[j] = queue[j]
            /\ next' = next + 1 /\ rev' = rev + 1 /\ mishaps \subseteq mishaps'
      BY <1>2, <2>3
    <3>2. Entry(rows, FALSE, FALSE) \in Entries BY EntryFacts
    <3>3. ChainsGrow BY <3>1, <3>2, Constants DEF ChainsGrow, Grown
    <3>4. rev' \in Nat /\ rev <= rev' /\ rev' # rev /\ next <= next'
      <4>1. \A r \in Nat : r + 1 \in Nat /\ r <= r + 1 /\ r + 1 # r OBVIOUS
      <4>2. QED BY <4>1, <3>1, <2>1
    <3>5. QED BY <3>1, <3>3, <3>4
  <2>4. QED BY <2>2, <2>3
<1>4. OpInv'
  <2>1. next' \in Nat BY <1>2 DEF TypeOK
  <2>2. op' = op /\ cur' = cur BY <1>2 DEF opVars
  <2>3. QED BY <1>1, <1>3, <2>1, <2>2, OpSame
<1>5. WriterInv' BY <1>1, <1>2, <1>3, WriterSame
<1>6. LaterInv' BY <1>1, <1>2, <1>3, LaterSame DEF guardVars, stopVars, LaterInv
<1>7. JobInv' BY <1>1, <1>2, <1>3, JobSame DEF guardVars
<1>8. QED BY <1>2, <1>4, <1>5, <1>6, <1>7 DEF Base

LEMMA StopBase ==
  ASSUME Base, StopBegins \/ StopSaved \/ StopTimesOut
  PROVE  Base'
<1>1. TypeOK /\ OpInv /\ WriterInv /\ LaterInv /\ JobInv BY DEF Base
<1>2. CASE StopBegins
  <2>1. /\ TypeOK' /\ BeginStop
        /\ mishaps' = IF op.pc # "none" THEN mishaps \cup {"crossed"} ELSE mishaps
        /\ UNCHANGED <<fileVars, cur, mem, rev, array, guardVars, opVars, job, next, owed>>
    BY <1>1, <1>2, StopBeginsFacts
  <2>2. /\ ChainsGrow /\ stop'[cur] = "saving"
        /\ \A j \in Instances : j # cur => stop'[j] = stop[j] /\ queue'[j] = queue[j]
    BY <1>1, <2>1, BeginStopGrows
  <2>3. next \in Nat /\ rev \in Nat /\ next <= next /\ rev <= rev BY <1>1, StateTypes
  <2>4. OpInv' BY <1>1, <2>1, <2>2, <2>3, OpSame DEF opVars
  <2>5. WriterInv' BY <1>1, <2>1, <2>2, WriterSame
  <2>6. LaterInv' BY <1>1, <2>1, <2>2, LaterSame DEF guardVars
  <2>7. JobInv' BY <1>1, <2>1, <2>3, JobSame DEF guardVars
  <2>8. QED BY <2>1, <2>4, <2>5, <2>6, <2>7 DEF Base
<1>3. CASE StopSaved \/ StopTimesOut
  <2>1. /\ TypeOK' /\ EndStop /\ mishaps \subseteq mishaps'
        /\ UNCHANGED <<fileVars, cur, array, queue, opVars, job, next, owed, gone, scenario>>
    BY <1>1, <1>3, StopEndsFacts
  <2>2. /\ frozen'[cur] = TRUE
        /\ \A j \in Instances : j # cur => stop'[j] = stop[j] /\ frozen'[j] = frozen[j]
    BY <1>1, <2>1, EndStopFacts
  <2>3. OpInv' BY <1>1, <2>1 DEF OpInv, opVars
  <2>4. WriterInv' BY <1>1, <2>1 DEF WriterInv, fileVars
  <2>5. LaterInv' BY <1>1, <2>1, <2>2, LaterSame
  <2>6. JobInv' BY <2>1, <2>2 DEF JobInv
  <2>7. QED BY <2>1, <2>3, <2>4, <2>5, <2>6 DEF Base
<1>4. QED BY <1>2, <1>3

LEMMA ReopenBase ==
  ASSUME Base, Reopen
  PROVE  Base'
<1>1. TypeOK /\ OpInv /\ WriterInv /\ LaterInv /\ JobInv BY DEF Base
<1>2. /\ TypeOK' /\ cur' = cur + 1 /\ cur' \in Instances
      /\ \A k \in Jobs : job'[k] = NoJob
      /\ op' = IF op.pc = "done" THEN NoOp ELSE op
      /\ mishaps \subseteq mishaps'
      /\ UNCHANGED <<fileVars, queue, guardVars, stopVars, ops, next, gone, scenario>>
  BY <1>1, ReopenFacts
<1>3. cur \in Nat /\ op.inst \in Nat BY <1>1, StateTypes, Constants
<1>4. OpInv'
  <2>1. CASE op' = NoOp BY <1>2, <2>1, NoOpInv
  <2>2. CASE op' = op
    <3>1. op.inst <= cur' BY <1>1, <1>2, <1>3 DEF OpInv
    <3>2. QED BY <1>1, <1>2, <2>2, <3>1 DEF OpInv
  <2>3. QED BY <1>2, <2>1, <2>2
<1>5. WriterInv' BY <1>1, <1>2 DEF WriterInv, fileVars
<1>6. LaterInv'
  <2>1. \A i \in Instances : i > cur' => i > cur BY <1>2, <1>3, Constants
  <2>2. cur' > cur BY <1>2, <1>3
  <2>3. stop[cur'] = "no" BY <1>1, <1>2, <2>2 DEF LaterInv
  <2>4. QED BY <1>1, <1>2, <2>1, <2>3 DEF LaterInv, guardVars, stopVars
<1>7. JobInv' BY <1>2, NoJobFacts DEF JobInv
<1>8. QED BY <1>2, <1>4, <1>5, <1>6, <1>7 DEF Base

LEMMA CrashBase ==
  ASSUME Base, Crash
  PROVE  Base'
<1>1. TypeOK /\ OpInv /\ WriterInv /\ LaterInv /\ JobInv BY DEF Base
<1>2. /\ TypeOK' /\ \A f \in Files : file'[f] = Read(f) /\ writer'[f] = None
      /\ \A i \in Instances : mem'[i] = Empty /\ queue'[i] = Empty
      /\ frozen'[cur] = TRUE
      /\ \A i \in Instances : i # cur => frozen'[i] = frozen[i] /\ stop'[i] = stop[i]
      /\ op' = NoOp /\ mishaps' = mishaps \cup {"crash"}
      /\ UNCHANGED <<there, cur>>
  BY <1>1, CrashFacts
<1>3. OpInv' BY <1>2, NoOpInv
<1>4. WriterInv' BY <1>2 DEF WriterInv, Read
<1>5. cur \in Nat /\ \A i \in Instances : i > cur => i # cur
  BY <1>1, Constants DEF TypeOK
<1>6. LaterInv' BY <1>1, <1>2, <1>5 DEF LaterInv
<1>7. JobInv' BY <1>2 DEF JobInv
<1>8. QED BY <1>2, <1>3, <1>4, <1>6, <1>7 DEF Base

\* The histories of the first state.
LEMMA ReopenedFacts ==
  /\ Reopened \in [Files -> Seq(Rows)]
  /\ ToSet(Reopened["ui"]) = {1, 3} /\ ToSet(Reopened["api"]) = {2, 4}
<1>1. 1 \in Rows /\ 2 \in Rows /\ 3 \in Rows /\ 4 \in Rows BY Constants DEF Rows
<1>2. <<1, 3>> \in Seq(Rows) /\ <<2, 4>> \in Seq(Rows) BY <1>1
<1>3. Reopened["ui"] = <<1, 3>> /\ Reopened["api"] = <<2, 4>> BY DEF Reopened, Files
<1>4. \A a, b : ToSet(<<a, b>>) = {a, b}
  <2> TAKE a, b
  <2>1. DOMAIN <<a, b>> = {1, 2} /\ <<a, b>>[1] = a /\ <<a, b>>[2] = b OBVIOUS
  <2>2. QED BY <2>1 DEF ToSet
<1>5. Reopened \in [Files -> Seq(Rows)] BY <1>2 DEF Reopened
<1>6. QED BY <1>3, <1>4, <1>5

LEMMA BaseInit ==
  ASSUME Init
  PROVE  Base
<1>1. 1 \in Rows /\ 2 \in Rows /\ 3 \in Rows /\ 4 \in Rows /\ 5 \in 1..(MaxRows + 4)
  BY Constants DEF Rows
<1>2. owed \subseteq Rows BY <1>1 DEF Init, Rows
<1>3. /\ \A i \in Instances : mem[i] \in [Files -> Seq(Rows)]
      /\ \A i \in Instances : queue[i] = Empty /\ stop[i] = "no" /\ ~frozen[i]
      /\ \A f \in Files : writer[f] = None /\ there[f]
      /\ cur = 1 /\ next = 5 /\ op = NoOp /\ \A k \in Jobs : job[k] = NoJob
  BY EmptyFacts, ReopenedFacts DEF Init
<1>4. mem \in Histories /\ queue \in Chains BY <1>3, EmptyFacts DEF Histories, Chains, Init
<1>5. TypeOK
  BY <1>1, <1>2, <1>4, Constants, ReopenedFacts, NoOpFacts, NoJobFacts DEF TypeOK, Init
<1>6. OpInv BY <1>3, NoOpFacts DEF OpInv, Files
<1>7. WriterInv BY <1>3 DEF WriterInv
<1>8. LaterInv BY <1>3, Constants DEF LaterInv
<1>9. JobInv BY <1>3, NoJobFacts DEF JobInv
<1>10. QED BY <1>5, <1>6, <1>7, <1>8, <1>9 DEF Base

LEMMA BaseStutters ==
  ASSUME Base, UNCHANGED vars
  PROVE  Base'
<1>1. /\ UNCHANGED <<file, there, writer, cur, mem, rev, array, queue, frozen, allow, stop>>
      /\ UNCHANGED <<ahead, op, ops, job, next, scenario, owed, gone, mishaps>>
  BY DEF vars, fileVars, memVars, guardVars, stopVars, opVars, ghostVars
<1>2. TypeOK' BY <1>1 DEF Base, TypeOK
<1>3. OpInv' BY <1>1 DEF Base, OpInv
<1>4. WriterInv' BY <1>1 DEF Base, WriterInv
<1>5. LaterInv' BY <1>1 DEF Base, LaterInv
<1>6. JobInv' BY <1>1 DEF Base, JobInv
<1>7. QED BY <1>2, <1>3, <1>4, <1>5, <1>6 DEF Base

\* Every step keeps the first part of the invariant.
LEMMA BaseStep ==
  ASSUME Base, [Next]_vars
  PROVE  Base'
<1>1. ASSUME NEW f \in Files, Push(f) PROVE Base' BY <1>1, PushBase
<1>2. ASSUME NEW i \in Instances, NEW f \in Files,
             SaveBegins(i, f) \/ SaveLands(i, f) \/ SaveFails(i, f)
      PROVE  Base'
  BY <1>2, SaveBase
<1>3. ASSUME NEW n \in Rows, DeleteBegins(n) \/ EditBegins(n) \/ ReplaceBegins(n) PROVE Base'
  BY <1>3, RewindBeginsBase
<1>4. ASSUME NEW n \in Rows, CheckpointBegins(n) PROVE Base' BY <1>4, CheckpointBase
<1>5. CASE CheckpointRestored BY <1>5, CheckpointRestoredBase
<1>6. CASE ApiRewinds BY <1>6, ApiRewindsBase
<1>7. CASE RewindReturns BY <1>7, RewindReturnsBase
<1>8. CASE HandlerSaves \/ HandlerFails BY <1>8, HandlerBase
<1>9. CASE EditStops BY <1>9, EditStopsBase
<1>10. ASSUME NEW k \in Jobs, CondenseBegins(k) \/ CondenseChecks(k) \/ CondenseFails(k)
       PROVE  Base'
  BY <1>10, JobBase
<1>11. ASSUME NEW k \in Jobs, CondenseCommits(k) PROVE Base' BY <1>11, CommitBase
<1>12. CASE StopBegins \/ StopSaved \/ StopTimesOut BY <1>12, StopBase
<1>13. CASE Reopen BY <1>13, ReopenBase
<1>14. CASE Crash BY <1>14, CrashBase
<1>15. CASE UNCHANGED vars BY <1>15, BaseStutters
<1>16. QED
  BY <1>1, <1>2, <1>3, <1>4, <1>5, <1>6, <1>7, <1>8, <1>9, <1>10, <1>11, <1>12, <1>13,
     <1>14, <1>15
  DEF Next

LEMMA BaseHolds == Spec => []Base
<1>1. Init => Base BY BaseInit
<1>2. Base /\ [Next]_vars => Base' BY BaseStep
<1>3. QED BY <1>1, <1>2, PTL DEF Spec

\* Type correctness: whatever the histories, their files and chains go through, the numbers
\* a rewind, a condensing and a stop keep of them stay within their bounds.
THEOREM HistoryTyped == Spec => []TypeOK
<1>1. Base => TypeOK BY DEF Base
<1>2. QED BY <1>1, BaseHolds, PTL
-----------------------------------------------------------------------------
(***************************************************************************)
(* What the loop appends stays in memory                                   *)
(***************************************************************************)

\* A rewind takes what it takes out of the memory out of what is owed too.
LEMMA RewindKeepsRows ==
  ASSUME TypeOK, NEW i \in Instances, NEW f \in Files, NEW rows \in Seq(Rows),
         NEW force \in BOOLEAN, Rewind(i, f, rows, force), cur' = cur,
         owed \subseteq InMemory(cur)
  PROVE  owed' \subseteq InMemory(cur)'
<1>1. /\ queue \in Chains /\ mem \in Histories /\ owed \subseteq Rows /\ cur \in Instances
      /\ mem[cur][f] \in Seq(Rows) /\ "ui" \in Files /\ "api" \in Files
  BY StateTypes
<1>2. \A g \in Files : g = "ui" \/ g = "api" BY Constants
<1>3. CASE Refuses(i, force)
  <2>1. mem' = mem /\ owed' = owed BY <1>3 DEF Refuses, Rewind
  <2>2. QED BY <2>1 DEF InMemory
<1>4. CASE ~Refuses(i, force) /\ i # cur
  <2>1. mem'[cur] = mem[cur] BY <1>1, <1>4, RewindGrows
  <2>2. owed' = owed BY <1>4 DEF Rewind, Refuses
  <2>3. QED BY <2>1, <2>2 DEF InMemory
<1>5. CASE ~Refuses(i, force) /\ i = cur
  <2>1. Rewind(cur, f, rows, force) /\ ~Refuses(cur, force) BY <1>5
  <2>2. /\ owed' \subseteq ToSet(rows) \cup owed
        /\ owed' \cap ToSet(mem[cur][f]) \subseteq ToSet(rows)
    BY <1>1, <2>1, RewindOwes
  <2>3. mem'[cur][f] = rows BY <1>1, <2>1, RewindFacts
  <2>4. \A g \in Files : g # f => mem'[cur][g] = mem[cur][g] BY <1>1, <2>1, RewindGrows
  <2>5. CASE f = "ui"
    <3>1. "api" # f BY <2>5
    <3>2. mem'[cur]["api"] = mem[cur]["api"] BY <3>1, <2>4, <1>1
    <3>3. QED BY <2>2, <2>3, <2>5, <3>2 DEF InMemory
  <2>6. CASE f = "api"
    <3>1. "ui" # f BY <2>6
    <3>2. mem'[cur]["ui"] = mem[cur]["ui"] BY <3>1, <2>4, <1>1
    <3>3. QED BY <2>2, <2>3, <2>6, <3>2 DEF InMemory
  <2>7. QED BY <1>2, <2>5, <2>6
<1>6. QED BY <1>3, <1>4, <1>5

\* A condensed history that is committed drops a row only if one has come since the check.
LEMMA CommitKeepsRows ==
  ASSUME Base, RowsAreKept, NEW k \in Jobs, CondenseCommits(k)
  PROVE  RowsAreKept'
<1>1. TypeOK /\ JobInv BY DEF Base
<1>2. /\ job[k].pc = "checked"
      /\ frozen[cur] => UNCHANGED <<memVars, next, ghostVars>>
      /\ ~frozen[cur] =>
           \E rows \in Seq(Rows) :
             /\ mem'[cur]["api"] = rows
             /\ ToSet(rows) = ToSet(job[k].res) \cup {next}
             /\ mem'[cur]["ui"] = mem[cur]["ui"]
             /\ owed' = owed \cup {next}
             /\ job[k].rev = rev \/ "raced" \in mishaps'
             /\ mishaps \subseteq mishaps'
      /\ UNCHANGED <<cur, stopVars>>
  BY <1>1, CommitFacts
<1>3. CASE frozen[cur]
  BY <1>2, <1>3 DEF RowsAreKept, InMemory, Without, memVars, ghostVars, stopVars
<1>4. CASE ~frozen[cur]
  <2>1. PICK rows \in Seq(Rows) :
             /\ mem'[cur]["api"] = rows
             /\ ToSet(rows) = ToSet(job[k].res) \cup {next}
             /\ mem'[cur]["ui"] = mem[cur]["ui"]
             /\ owed' = owed \cup {next}
             /\ job[k].rev = rev \/ "raced" \in mishaps'
             /\ mishaps \subseteq mishaps'
    BY <1>2, <1>4
  <2> SUFFICES ASSUME stop[cur] # "over", "raced" \notin mishaps'
               PROVE  owed' \subseteq InMemory(cur)'
    BY <1>2 DEF RowsAreKept, Without, stopVars
  <2>2. job[k].res = mem[cur]["api"] BY <1>1, <1>2, <1>4, <2>1 DEF JobInv
  <2>3. owed \subseteq InMemory(cur) BY <2>1 DEF RowsAreKept, Without
  <2>4. QED BY <1>2, <2>1, <2>2, <2>3 DEF InMemory
<1>5. QED BY <1>3, <1>4

\* A step that changes no memory, and owes no more.
LEMMA RowsSame ==
  ASSUME RowsAreKept, owed' \subseteq owed, mem' = mem, cur' = cur, mishaps \subseteq mishaps',
         stop'[cur] # "over" => stop[cur] # "over"
  PROVE  RowsAreKept'
BY DEF RowsAreKept, InMemory, Without

LEMMA RewindBeginsRows ==
  ASSUME Base, RowsAreKept, NEW n \in Rows,
         DeleteBegins(n) \/ EditBegins(n) \/ ReplaceBegins(n)
  PROVE  RowsAreKept'
<1>1. TypeOK BY DEF Base
<1>2. PICK rows \in Seq(Rows), force \in BOOLEAN :
        /\ Rewind(cur, "ui", rows, force) /\ stop[cur] # "over"
        /\ mishaps' = IF stop[cur] = "saving" THEN mishaps \cup {"crossed"} ELSE mishaps
        /\ UNCHANGED <<fileVars, cur, array, stopVars, job, gone, scenario>>
  BY <1>1, BeginsFacts
<1> SUFFICES ASSUME Without({"raced"})'
             PROVE  owed' \subseteq InMemory(cur)'
  BY DEF RowsAreKept
<1>3. owed \subseteq InMemory(cur) BY <1>2 DEF RowsAreKept, Without
<1>4. QED BY <1>1, <1>2, <1>3, RewindKeepsRows, StateTypes

\* Every step keeps the rows.
LEMMA RowsStep ==
  ASSUME Base, RowsAreKept, [Next]_vars
  PROVE  RowsAreKept'
<1>1. TypeOK /\ OpInv /\ WriterInv /\ LaterInv /\ JobInv BY DEF Base
<1>2. cur \in Instances /\ op.inst \in Instances /\ "ui" \in Files /\ "api" \in Files
  BY <1>1, StateTypes
<1>3. ASSUME NEW f \in Files, Push(f) PROVE RowsAreKept'
  <2>1. /\ stop[cur] # "over"
        /\ ToSet(mem'[cur][f]) = ToSet(mem[cur][f]) \cup {next}
        /\ \A g \in Files : g # f => mem'[cur][g] = mem[cur][g]
        /\ owed' = owed \cup {next}
        /\ mishaps' = IF stop[cur] = "saving" THEN mishaps \cup {"late"} ELSE mishaps
        /\ cur' = cur
    BY <1>1, <1>3, PushFacts
  <2>2. Without({"raced"})' => owed \subseteq InMemory(cur)
    BY <2>1 DEF RowsAreKept, Without
  <2>3. f = "ui" \/ f = "api" BY Constants
  <2>4. QED BY <1>2, <2>1, <2>2, <2>3 DEF RowsAreKept, InMemory
<1>4. ASSUME NEW i \in Instances, NEW f \in Files,
             SaveBegins(i, f) \/ SaveLands(i, f) \/ SaveFails(i, f)
      PROVE  RowsAreKept'
  <2>1. /\ mem' = mem /\ cur' = cur /\ stop' = stop /\ owed' = owed
        /\ mishaps \subseteq mishaps'
    BY <1>4 DEF SaveBegins, SaveLands, SaveFails, ghostVars
  <2>2. QED BY <2>1, RowsSame
<1>5. ASSUME NEW n \in Rows, DeleteBegins(n) \/ EditBegins(n) \/ ReplaceBegins(n)
      PROVE  RowsAreKept'
  BY <1>5, RewindBeginsRows
<1>6. ASSUME NEW n \in Rows, CheckpointBegins(n) PROVE RowsAreKept'
  <2>1. /\ stop[cur] = "no" \/ stop[cur] = "saving"
        /\ mem' = mem /\ owed' = owed /\ cur' = cur /\ mishaps \subseteq mishaps'
    BY <1>1, <1>6, CheckpointBeginsFacts
  <2>2. QED BY <2>1, RowsSame
<1>7. CASE CheckpointRestored
  <2>1. PICK rows \in Seq(Rows) :
          /\ Rewind(op.inst, "ui", rows, FALSE) \/ UNCHANGED <<mem, queue, owed>>
          /\ UNCHANGED <<cur, stopVars, mishaps>>
    BY <1>1, <1>7, CheckpointRestoredFacts
  <2>2. CASE UNCHANGED <<mem, queue, owed>> BY <2>1, <2>2, RowsSame DEF stopVars
  <2>3. CASE Rewind(op.inst, "ui", rows, FALSE)
    <3>1. owed \subseteq InMemory(cur) => owed' \subseteq InMemory(cur)'
      <4>1. FALSE \in BOOLEAN OBVIOUS
      <4>2. QED BY <1>1, <1>2, <2>1, <2>3, <4>1, RewindKeepsRows
    <3>2. QED BY <2>1, <3>1 DEF RowsAreKept, Without, stopVars
  <2>4. QED BY <2>1, <2>2, <2>3
<1>8. CASE ApiRewinds
  <2>1. PICK rows \in Seq(Rows), force \in BOOLEAN :
          /\ Rewind(op.inst, "api", rows, force) \/ UNCHANGED <<memVars, owed>>
          /\ UNCHANGED <<cur, stopVars, mishaps>>
    BY <1>1, <1>8, ApiRewindsFacts
  <2>2. CASE UNCHANGED <<memVars, owed>> BY <2>1, <2>2, RowsSame DEF stopVars, memVars
  <2>3. CASE Rewind(op.inst, "api", rows, force)
    <3>1. owed \subseteq InMemory(cur) => owed' \subseteq InMemory(cur)'
      BY <1>1, <1>2, <2>1, <2>3, RewindKeepsRows
    <3>2. QED BY <2>1, <3>1 DEF RowsAreKept, Without, stopVars
  <2>4. QED BY <2>1, <2>2, <2>3
<1>9. CASE RewindReturns \/ HandlerSaves \/ HandlerFails
  <2>1. /\ mem' = mem /\ cur' = cur /\ stop' = stop /\ owed' \subseteq owed
        /\ mishaps \subseteq mishaps'
    BY <1>9 DEF RewindReturns, HandlerSaves, HandlerFails, memVars, stopVars
  <2>2. QED BY <2>1, RowsSame
<1>10. CASE EditStops
  <2>1. /\ stop[cur] = "no" => BeginStop
        /\ stop[cur] # "no" => UNCHANGED <<queue, stopVars>>
        /\ UNCHANGED <<cur, mem, ghostVars>>
    BY <1>1, <1>10, EditStopsFacts
  <2>2. QED BY <2>1, RowsSame DEF ghostVars, stopVars
<1>11. ASSUME NEW k \in Jobs, CondenseBegins(k) \/ CondenseChecks(k) \/ CondenseFails(k)
       PROVE  RowsAreKept'
  <2>1. mem' = mem /\ cur' = cur /\ stop' = stop /\ owed' = owed /\ mishaps' = mishaps
    BY <1>11 DEF CondenseBegins, CondenseChecks, CondenseFails, memVars, stopVars, ghostVars
  <2>2. QED BY <2>1, RowsSame
<1>12. ASSUME NEW k \in Jobs, CondenseCommits(k) PROVE RowsAreKept'
  BY <1>12, CommitKeepsRows
<1>13. CASE StopBegins
  <2>1. /\ stop[cur] = "no" /\ UNCHANGED <<cur, mem, owed>>
        /\ mishaps \subseteq mishaps'
    BY <1>1, <1>13, StopBeginsFacts
  <2>2. QED BY <2>1, RowsSame
<1>14. CASE StopSaved \/ StopTimesOut
  <2>1. EndStop /\ cur' = cur BY <1>1, <1>14, StopEndsFacts
  <2>2. stop'[cur] = "over" BY <1>1, <2>1, EndStopFacts
  <2>3. QED BY <2>1, <2>2 DEF RowsAreKept
<1>15. CASE Reopen
  <2>1. \A f \in Files : mem'[cur'][f] = Read(f) BY <1>1, <1>15, ReopenFacts
  <2>2. owed' = ToSet(Read("ui")) \cup ToSet(Read("api")) BY <1>1, <1>15, ReopenFacts
  <2>3. owed' = InMemory(cur)' BY <1>2, <2>1, <2>2 DEF InMemory
  <2>4. QED BY <2>3 DEF RowsAreKept
<1>16. CASE Crash BY <1>1, <1>16, CrashFacts DEF RowsAreKept
<1>17. CASE UNCHANGED vars
  BY <1>17, RowsSame DEF vars, memVars, stopVars, ghostVars
<1>18. QED
  BY <1>3, <1>4, <1>5, <1>6, <1>7, <1>8, <1>9, <1>10, <1>11, <1>12, <1>13, <1>14, <1>15,
     <1>16, <1>17
  DEF Next

\* RowsAreKept for every conversation: neither a condensing that rewrites the api history
\* from what it read before the summary was asked for, nor a rewind of another file, drops
\* a row of the memory that nothing has taken out.
THEOREM RowsKept == Spec => []RowsAreKept
<1>1. Init => RowsAreKept
  <2> SUFFICES ASSUME Init PROVE RowsAreKept OBVIOUS
  <2>1. mem[1] = Reopened /\ cur = 1 /\ owed = 1..4 BY Constants DEF Init
  <2>2. InMemory(1) = {1, 2, 3, 4} BY <2>1, ReopenedFacts DEF InMemory
  <2>3. QED BY <2>1, <2>2 DEF RowsAreKept
<1>2. Base /\ RowsAreKept /\ [Next]_vars => RowsAreKept' BY RowsStep
<1>3. QED BY <1>1, <1>2, BaseHolds, PTL DEF Spec
-----------------------------------------------------------------------------
(***************************************************************************)
(* The instance in front is alone, and its last save is its memory         *)
(***************************************************************************)

\* No two instances, and no stop and rewind, are under way together.
Calm == Without({"overlap", "crossed"})

\* Only the instance in front saves, and a rewind is of an instance that is not stopped.
OneInstance ==
  Calm => /\ \A i \in Instances : i # cur => queue[i] = Empty
          /\ op.pc # "none" => op.inst = cur /\ stop[cur] = "no" /\ op.kind # "checkpoint"

\* What the file will hold when the chain is empty.
Final(f) ==
  IF queue[cur][f] = <<>> THEN Read(f) ELSE queue[cur][f][Len(queue[cur][f])].rows

LastIsMemory ==
  Calm /\ Without({"failed"}) /\ stop[cur] # "over" /\ ~frozen[cur] =>
    \A f \in Files : Final(f) = mem[cur][f]

\* Only the instance in front has a save that can begin, land or fail.
LEMMA SaverInFront ==
  ASSUME OneInstance, Calm, NEW i \in Instances, NEW f \in Files, queue[i][f] # <<>>
  PROVE  i = cur
BY EmptyFacts DEF OneInstance

\* A step that leaves the other chains and the rewind alone.
LEMMA OneInstanceSame ==
  ASSUME OneInstance, cur' = cur, mishaps \subseteq mishaps',
         Calm => \A i \in Instances : i # cur => queue'[i] = queue[i],
         Calm => op'.pc = "none" \/ (op.pc # "none" /\ op'.inst = op.inst /\ op'.kind = op.kind),
         op'.pc # "none" => stop'[cur] = stop[cur]
  PROVE  OneInstance'
BY DEF OneInstance, Calm, Without

LEMMA OneInstanceRewinds ==
  ASSUME Base, OneInstance,
         CheckpointRestored \/ ApiRewinds \/ RewindReturns \/ HandlerSaves \/ HandlerFails
           \/ EditStops
  PROVE  OneInstance'
<1>1. TypeOK /\ OpInv BY DEF Base
<1>2. op.inst \in Instances /\ "api" \in Files BY <1>1, StateTypes
<1>3. Calm => op.kind # "checkpoint" \/ op.pc = "none" BY DEF OneInstance
<1>4. CASE CheckpointRestored
  <2>1. op.pc = "git" /\ cur' = cur /\ mishaps' = mishaps
    BY <1>1, <1>4, CheckpointRestoredFacts
  <2>2. ~Calm BY <1>1, <1>3, <2>1 DEF OpInv
  <2>3. QED BY <2>1, <2>2 DEF OneInstance, Calm, Without
<1>5. CASE ApiRewinds
  <2>1. PICK rows \in Seq(Rows), force \in BOOLEAN :
          /\ op.pc = "ui"
          /\ Rewind(op.inst, "api", rows, force) \/ UNCHANGED <<memVars, owed>>
          /\ op'.kind = op.kind /\ op'.inst = op.inst
          /\ UNCHANGED <<cur, stopVars, mishaps>>
    BY <1>1, <1>5, ApiRewindsFacts
  <2>2. \A j \in Instances : j # op.inst => queue'[j] = queue[j]
    <3>1. CASE UNCHANGED <<memVars, owed>> BY <3>1 DEF memVars
    <3>2. CASE Rewind(op.inst, "api", rows, force) BY <1>1, <1>2, <3>2, RewindGrows
    <3>3. QED BY <2>1, <3>1, <3>2
  <2>3. Calm => op.inst = cur BY <2>1 DEF OneInstance
  <2>4. QED BY <2>1, <2>2, <2>3, OneInstanceSame DEF stopVars
<1>6. CASE RewindReturns
  <2>1. /\ op.pc = "api" /\ op'.kind = op.kind /\ op'.inst = op.inst
        /\ UNCHANGED <<cur, memVars, stopVars, mishaps>>
    BY <1>1, <1>6, RewindReturnsFacts
  <2>2. QED BY <2>1, OneInstanceSame DEF memVars, stopVars
<1>7. CASE HandlerSaves
  <2>1. /\ op.pc \in {"direct", "lost"}
        /\ op.kind = "edit" => op'.kind = op.kind /\ op'.inst = op.inst
        /\ op.kind \notin {"edit", "checkpoint"} => op' = NoOp
        /\ UNCHANGED <<cur, queue, stopVars, mishaps>>
    BY <1>1, <1>7, HandlerSavesFacts
  <2>2. Calm => op'.pc = "none" \/ (op'.inst = op.inst /\ op'.kind = op.kind)
    BY <1>3, <2>1, NoOpFacts
  <2>3. QED BY <2>1, <2>2, OneInstanceSame DEF stopVars
<1>8. CASE HandlerFails
  <2>1. /\ op' = NoOp /\ mishaps' = mishaps \cup {"failed"}
        /\ UNCHANGED <<cur, memVars, stopVars>>
    BY <1>1, <1>8, HandlerFailsFacts
  <2>2. QED BY <2>1, NoOpFacts, OneInstanceSame DEF memVars, stopVars
<1>9. CASE EditStops
  <2>1. /\ stop[cur] = "no" => BeginStop
        /\ stop[cur] # "no" => UNCHANGED <<queue, stopVars>>
        /\ UNCHANGED <<cur, ghostVars>>
    BY <1>1, <1>9, EditStopsFacts
  <2>2. \A i \in Instances : i # cur => queue'[i] = queue[i]
    BY <1>1, <2>1, BeginStopGrows
  <2>3. op'.pc = "none" BY <1>1, <1>9, EditStopsFacts, NoOpFacts
  <2>4. QED BY <2>1, <2>2, <2>3, OneInstanceSame DEF ghostVars
<1>10. QED BY <1>4, <1>5, <1>6, <1>7, <1>8, <1>9

LEMMA OneInstanceStep ==
  ASSUME Base, OneInstance, [Next]_vars
  PROVE  OneInstance'
<1>1. TypeOK /\ OpInv /\ WriterInv /\ LaterInv /\ JobInv BY DEF Base
<1>2. cur \in Instances BY <1>1, StateTypes
<1>3. ASSUME NEW f \in Files, Push(f) PROVE OneInstance'
  <2>1. /\ \A j \in Instances : j # cur => queue'[j] = queue[j]
        /\ mishaps' = IF stop[cur] = "saving" THEN mishaps \cup {"late"} ELSE mishaps
        /\ UNCHANGED <<cur, stopVars, opVars>>
    BY <1>1, <1>3, PushFacts
  <2>2. QED BY <2>1, OneInstanceSame DEF stopVars, opVars
<1>4. ASSUME NEW i \in Instances, NEW f \in Files,
             SaveBegins(i, f) \/ SaveLands(i, f) \/ SaveFails(i, f)
      PROVE  OneInstance'
  <2>1. /\ queue[i][f] # <<>>
        /\ Settle(i, f) \/ UNCHANGED <<queue, ahead, op>>
        /\ cur' = cur /\ stop' = stop /\ mishaps \subseteq mishaps'
    BY <1>1, <1>4
    DEF SaveBegins, SaveLands, SaveFails, ghostVars, WriterInv, None, Instances
  <2>2. queue \in Chains /\ ahead \in [Files -> Nat] /\ op \in Ops BY <1>1 DEF TypeOK
  <2>3. CASE Settle(i, f)
    <3>1. /\ \A j \in Instances : j # i => queue'[j] = queue[j]
          /\ op'.pc = op.pc /\ op'.kind = op.kind /\ op'.inst = op.inst
      BY <2>1, <2>2, <2>3, SettleFacts
    <3>2. Calm => i = cur BY <2>1, SaverInFront
    <3>3. QED BY <2>1, <3>1, <3>2, OneInstanceSame
  <2>4. CASE UNCHANGED <<queue, ahead, op>> BY <2>1, <2>4, OneInstanceSame
  <2>5. QED BY <2>1, <2>3, <2>4
<1>5. ASSUME NEW n \in Rows, DeleteBegins(n) \/ EditBegins(n) \/ ReplaceBegins(n)
      PROVE  OneInstance'
  <2>1. PICK rows \in Seq(Rows), force \in BOOLEAN :
          /\ Rewind(cur, "ui", rows, force) /\ op'.inst = cur
          /\ op'.kind \in {"delete", "edit", "replace"}
          /\ stop[cur] # "over"
          /\ mishaps' = IF stop[cur] = "saving" THEN mishaps \cup {"crossed"} ELSE mishaps
          /\ UNCHANGED <<cur, stopVars>>
    BY <1>1, <1>5, BeginsFacts
  <2>2. "ui" \in Files BY Constants
  <2>3. \A j \in Instances : j # cur => queue'[j] = queue[j]
    BY <1>1, <1>2, <2>1, <2>2, RewindGrows
  <2>4. Calm' => Calm /\ stop[cur] = "no"
    <3>1. stop[cur] \in {"no", "saving", "over"} BY <1>1 DEF TypeOK
    <3>2. QED BY <2>1, <3>1 DEF Calm, Without
  <2>5. QED BY <2>1, <2>3, <2>4 DEF OneInstance, stopVars
<1>6. ASSUME NEW n \in Rows, CheckpointBegins(n) PROVE OneInstance'
  BY <1>1, <1>6, CheckpointBeginsFacts DEF OneInstance, Calm, Without
<1>7. CASE CheckpointRestored \/ ApiRewinds \/ RewindReturns \/ HandlerSaves \/ HandlerFails
             \/ EditStops
  BY <1>7, OneInstanceRewinds
<1>8. ASSUME NEW k \in Jobs, CondenseBegins(k) \/ CondenseChecks(k) \/ CondenseFails(k)
       PROVE  OneInstance'
  <2>1. UNCHANGED <<cur, memVars, stopVars, opVars, ghostVars>> BY <1>1, <1>8, JobFacts
  <2>2. QED BY <2>1, OneInstanceSame DEF memVars, stopVars, opVars, ghostVars
<1>9. ASSUME NEW k \in Jobs, CondenseCommits(k) PROVE OneInstance'
  <2>1. \A j \in Instances : j # cur => queue'[j] = queue[j]
    <3>1. /\ frozen[cur] => UNCHANGED memVars
          /\ ~frozen[cur] => \A j \in Instances : j # cur => queue'[j] = queue[j]
      BY <1>1, <1>9, CommitFacts
    <3>2. QED BY <3>1 DEF memVars
  <2>2. UNCHANGED <<cur, stopVars, opVars>> /\ mishaps \subseteq mishaps'
    BY <1>9 DEF CondenseCommits, ghostVars
  <2>3. QED BY <2>1, <2>2, OneInstanceSame DEF stopVars, opVars
<1>10. CASE StopBegins
  <2>1. /\ BeginStop
        /\ mishaps' = IF op.pc # "none" THEN mishaps \cup {"crossed"} ELSE mishaps
        /\ UNCHANGED <<cur, opVars>>
    BY <1>1, <1>10, StopBeginsFacts
  <2>2. \A j \in Instances : j # cur => queue'[j] = queue[j] BY <1>1, <2>1, BeginStopGrows
  <2>3. QED BY <2>1, <2>2 DEF OneInstance, opVars, Calm, Without
<1>11. CASE StopSaved \/ StopTimesOut
  <2>1. /\ stop[cur] = "saving" /\ mishaps \subseteq mishaps'
        /\ UNCHANGED <<cur, queue, opVars>>
    BY <1>1, <1>11, StopEndsFacts
  <2>2. Calm => op.pc = "none" BY <2>1 DEF OneInstance
  <2>3. QED BY <2>1, <2>2 DEF OneInstance, opVars, Calm, Without
<1>12. CASE Reopen
  <2>1. /\ cur' = cur + 1 /\ stop[cur] = "over"
        /\ op' = IF op.pc = "done" THEN NoOp ELSE op
        /\ mishaps' = IF \E i \in 1..cur : queue[i] # Empty THEN mishaps \cup {"overlap"}
                                                            ELSE mishaps
        /\ queue' = queue
    BY <1>1, <1>12, ReopenFacts
  <2>2. Calm' => Calm /\ \A i \in 1..cur : queue[i] = Empty BY <2>1 DEF Calm, Without
  <2>3. \A i \in Instances : i \in 1..cur \/ i > cur BY <1>2, Constants DEF Instances
  <2>4. Calm => op.pc = "none" BY <2>1 DEF OneInstance
  <2>5. QED BY <1>1, <2>1, <2>2, <2>3, <2>4 DEF OneInstance, LaterInv
<1>13. CASE Crash BY <1>1, <1>13, CrashFacts, NoOpFacts DEF OneInstance
<1>14. CASE UNCHANGED vars
  BY <1>14, OneInstanceSame DEF vars, memVars, stopVars, opVars, ghostVars
<1>15. QED
  BY <1>3, <1>4, <1>5, <1>6, <1>7, <1>8, <1>9, <1>10, <1>11, <1>12, <1>13, <1>14
  DEF Next

LEMMA OneInstanceHolds == Spec => []OneInstance
<1>1. Init => OneInstance
  <2> SUFFICES ASSUME Init PROVE OneInstance OBVIOUS
  <2>1. op.pc = "none" /\ \A i \in Instances : queue[i] = Empty BY NoOpFacts DEF Init
  <2>2. QED BY <2>1 DEF OneInstance
<1>2. Base /\ OneInstance /\ [Next]_vars => OneInstance' BY OneInstanceStep
<1>3. QED BY <1>1, <1>2, BaseHolds, PTL DEF Spec

-----------------------------------------------------------------------------
\* A save put at the end of a chain is the last one.
LEMMA LastAppended ==
  ASSUME NEW f \in Files, NEW rows \in Seq(Rows), NEW a \in BOOLEAN, NEW b \in BOOLEAN,
         queue[cur][f] \in Seq(Entries),
         queue'[cur][f] = Append(queue[cur][f], Entry(rows, a, b)), cur' = cur
  PROVE  Final(f)' = rows
<1> DEFINE e == Entry(rows, a, b)
           s == queue[cur][f]
           t == queue'[cur][f]
<1>1. e \in Entries /\ e.rows = rows BY EntryFacts
<1>2. t = Append(s, e) /\ s \in Seq(Entries) OBVIOUS
<1>3. Final(f)' = IF t = <<>> THEN Read(f)' ELSE t[Len(t)].rows BY DEF Final
<1> HIDE DEF e, t, s
<1>4. t # <<>> /\ Len(t) = Len(s) + 1 /\ t[Len(s) + 1] = e BY <1>1, <1>2, AppendFacts
<1>5. QED BY <1>1, <1>3, <1>4

\* A save that lands from the front of the chain leaves the last one what it was.
LEMMA LastLanded ==
  ASSUME NEW f \in Files, queue[cur][f] \in Seq(Entries), queue[cur][f] # <<>>, cur' = cur,
         queue'[cur][f] = Tail(queue[cur][f]), file'[f] = queue[cur][f][1].rows, there'[f]
  PROVE  Final(f)' = Final(f)
<1> DEFINE s == queue[cur][f]
           t == queue'[cur][f]
<1>1. /\ t = Tail(s) /\ Len(s) \in Nat /\ Len(s) > 0 /\ Len(t) = Len(s) - 1
      /\ \A p \in 1..(Len(s) - 1) : t[p] = s[p + 1]
      /\ t = <<>> <=> Len(s) = 1
  BY TailFacts
<1>2. Final(f)' = IF t = <<>> THEN file'[f] ELSE t[Len(t)].rows BY DEF Final, Read
<1>3. Final(f) = s[Len(s)].rows BY DEF Final
<1>4. file'[f] = s[1].rows OBVIOUS
<1> HIDE DEF s, t
<1>5. CASE t = <<>>
  <2>1. Len(s) = 1 BY <1>1, <1>5
  <2>2. QED BY <2>1, <1>2, <1>3, <1>4, <1>5
<1>6. CASE t # <<>>
  <2>1. \A n \in Nat : n > 0 /\ n # 1 => n - 1 \in 1..(n - 1) /\ n - 1 + 1 = n OBVIOUS
  <2>2. Len(t) \in 1..(Len(s) - 1) /\ Len(t) + 1 = Len(s) BY <1>1, <1>6, <2>1
  <2>3. t[Len(t)] = s[Len(s)] BY <1>1, <2>2
  <2>4. QED BY <2>3, <1>2, <1>3, <1>6
<1>7. QED BY <1>5, <1>6

\* A step that changes neither the last saves nor the memory.
LEMMA LastSame ==
  ASSUME LastIsMemory, cur' = cur, mishaps \subseteq mishaps',
         stop'[cur] # "over" => stop[cur] # "over", ~frozen'[cur] => ~frozen[cur],
         \A f \in Files : Final(f)' = mem'[cur][f]
                          \/ (Final(f)' = Final(f) /\ mem'[cur][f] = mem[cur][f])
  PROVE  LastIsMemory'
BY DEF LastIsMemory, Calm, Without

\* The last save of a rewind is what it leaves in memory.
LEMMA RewindIsLast ==
  ASSUME TypeOK, NEW f \in Files, NEW rows \in Seq(Rows), NEW force \in BOOLEAN,
         Rewind(cur, f, rows, force), ~frozen[cur], cur' = cur, UNCHANGED <<file, there>>
  PROVE  \A g \in Files : Final(g)' = mem'[cur][g]
                          \/ (Final(g)' = Final(g) /\ mem'[cur][g] = mem[cur][g])
<1>1. /\ queue \in Chains /\ mem \in Histories /\ owed \subseteq Rows /\ cur \in Instances
      /\ queue[cur][f] \in Seq(Entries)
  BY StateTypes
<1>2. ~Refuses(cur, force) BY DEF Refuses
<1>3. /\ mem'[cur][f] = rows
      /\ queue'[cur][f] = Append(queue[cur][f], Entry(rows, force, FALSE))
  BY <1>1, <1>2, RewindHere
<1>4. \A g \in Files : g # f => mem'[cur][g] = mem[cur][g] /\ queue'[cur][g] = queue[cur][g]
  BY <1>1, RewindElsewhere
<1>5. FALSE \in BOOLEAN OBVIOUS
<1>6. Final(f)' = mem'[cur][f] BY <1>1, <1>3, <1>5, LastAppended
<1>7. \A g \in Files : g # f => Final(g)' = Final(g) BY <1>4 DEF Final, Read
<1>8. QED BY <1>4, <1>6, <1>7

\* The last save of a stop that begins is what is in memory.
LEMMA StopIsLast ==
  ASSUME TypeOK, BeginStop, cur' = cur, UNCHANGED <<file, there>>
  PROVE  \A g \in Files : Final(g)' = mem'[cur][g]
                          \/ (Final(g)' = Final(g) /\ mem'[cur][g] = mem[cur][g])
<1>1. /\ mem' = mem /\ queue'[cur]["api"] = queue[cur]["api"]
      /\ frozen[cur] => queue' = queue
      /\ ~frozen[cur] =>
           queue'[cur]["ui"] = Append(queue[cur]["ui"], Entry(mem[cur]["ui"], FALSE, FALSE))
  BY BeginStopFacts
<1>2. /\ mem[cur]["ui"] \in Seq(Rows) /\ queue[cur]["ui"] \in Seq(Entries)
      /\ "ui" \in Files /\ "api" \in Files /\ FALSE \in BOOLEAN
  BY StateTypes
<1>3. Final("api")' = Final("api") BY <1>1 DEF Final, Read
<1>4. frozen[cur] => Final("ui")' = Final("ui") BY <1>1 DEF Final, Read
<1>5. ~frozen[cur] => Final("ui")' = mem[cur]["ui"] BY <1>1, <1>2, LastAppended
<1>6. QED BY <1>1, <1>3, <1>4, <1>5, Constants

LEMMA LastSaved ==
  ASSUME Base, OneInstance, LastIsMemory, NEW i \in Instances, NEW f \in Files,
         SaveBegins(i, f) \/ SaveLands(i, f) \/ SaveFails(i, f)
  PROVE  LastIsMemory'
<1>1. TypeOK /\ WriterInv /\ queue \in Chains /\ ahead \in [Files -> Nat] /\ op \in Ops
  BY DEF Base, TypeOK
<1>2. CASE SaveBegins(i, f)
  <2>1. /\ queue[i][f] # <<>>
        /\ frozen[i] \/ (/\ \A g \in Files : g # f => there'[g] = there[g]
                         /\ queue' = queue)
        /\ UNCHANGED <<file, cur, mem, guardVars, stop, mishaps>>
    <3>1. queue[i][f] # <<>> /\ UNCHANGED <<file, cur, mem, guardVars, stop, mishaps>>
      BY <1>1, <1>2, SaveBeginsFacts DEF ghostVars
    <3>2. CASE frozen[i] BY <3>1, <3>2
    <3>3. CASE ~frozen[i]
      <4>1. there' = [there EXCEPT ![f] = FALSE] /\ queue' = queue
        BY <1>2, <3>3 DEF SaveBegins
      <4>2. there \in [Files -> BOOLEAN] BY <1>1 DEF TypeOK
      <4>3. QED BY <3>1, <4>1, <4>2
    <3>4. QED BY <3>2, <3>3
  <2>2. Calm => i = cur BY <2>1, SaverInFront
  <2>3. Calm /\ ~frozen[cur] => \A g \in Files : Final(g)' = Final(g)
    BY <2>1, <2>2 DEF Final, Read
  <2>4. QED BY <2>1, <2>3 DEF LastIsMemory, Calm, Without, guardVars
<1>3. CASE SaveLands(i, f)
  <2>1. /\ queue[i][f] # <<>>
        /\ file'[f] = queue[i][f][1].rows /\ there'[f] = TRUE
        /\ \A g \in Files : g # f => file'[g] = file[g] /\ there'[g] = there[g]
        /\ Settle(i, f)
        /\ UNCHANGED <<cur, mem, guardVars, stop, mishaps>>
    <3>1. /\ queue[i][f] # <<>> /\ Settle(i, f)
          /\ file'[f] = queue[i][f][1].rows /\ there'[f] = TRUE
          /\ UNCHANGED <<cur, mem, guardVars, stop, ghostVars>>
      BY <1>1, <1>3, SaveLandsFacts
    <3>2. \A g \in Files : g # f => file'[g] = file[g] /\ there'[g] = there[g]
      BY <1>1, <1>3 DEF SaveLands, TypeOK
    <3>3. QED BY <3>1, <3>2 DEF ghostVars
  <2>2. /\ queue'[i][f] = Tail(queue[i][f])
        /\ \A g \in Files : g # f => queue'[i][g] = queue[i][g]
    BY <1>1, <2>1, SettleFacts
  <2>3. Calm => i = cur BY <2>1, SaverInFront
  <2>4. queue[i][f] \in Seq(Entries) BY <1>1, StateTypes
  <2>5. Calm => Final(f)' = Final(f) BY <2>1, <2>2, <2>3, <2>4, LastLanded
  <2>6. Calm => \A g \in Files : g # f => Final(g)' = Final(g)
    BY <2>1, <2>2, <2>3 DEF Final, Read
  <2>7. QED BY <2>1, <2>5, <2>6 DEF LastIsMemory, Calm, Without, guardVars
<1>4. CASE SaveFails(i, f)
  BY <1>1, <1>4, SaveFailsFacts DEF LastIsMemory, Without
<1>5. QED BY <1>2, <1>3, <1>4

LEMMA LastRewound ==
  ASSUME Base, OneInstance, LastIsMemory,
         CheckpointRestored \/ ApiRewinds \/ RewindReturns \/ HandlerSaves \/ HandlerFails
           \/ EditStops
  PROVE  LastIsMemory'
<1>1. TypeOK /\ OpInv BY DEF Base
<1>2. cur \in Instances /\ "api" \in Files /\ "ui" \in Files BY <1>1, StateTypes
<1>3. CASE CheckpointRestored
  <2>1. op.pc = "git" /\ cur' = cur /\ mishaps' = mishaps
    BY <1>1, <1>3, CheckpointRestoredFacts
  <2>2. ~Calm BY <1>1, <2>1 DEF OpInv, OneInstance
  <2>3. QED BY <2>1, <2>2 DEF LastIsMemory, Calm, Without
<1>4. CASE ApiRewinds
  <2>1. PICK rows \in Seq(Rows), force \in BOOLEAN :
          /\ op.pc = "ui"
          /\ Rewind(op.inst, "api", rows, force) \/ UNCHANGED <<memVars, owed>>
          /\ UNCHANGED <<fileVars, cur, guardVars, stopVars, mishaps>>
    BY <1>1, <1>4, ApiRewindsFacts
  <2> SUFFICES ASSUME Calm, ~frozen[cur] PROVE LastIsMemory'
    BY <2>1 DEF LastIsMemory, Calm, Without, guardVars
  <2>2. op.inst = cur BY <2>1 DEF OneInstance
  <2>3. \A g \in Files : Final(g)' = mem'[cur][g]
                         \/ (Final(g)' = Final(g) /\ mem'[cur][g] = mem[cur][g])
    <3>1. CASE UNCHANGED <<memVars, owed>> BY <2>1, <3>1 DEF memVars, fileVars, Final, Read
    <3>2. CASE Rewind(op.inst, "api", rows, force)
      <4>1. Rewind(cur, "api", rows, force) BY <2>2, <3>2
      <4>2. UNCHANGED <<file, there>> /\ cur' = cur BY <2>1 DEF fileVars
      <4>3. QED BY <1>1, <1>2, <4>1, <4>2, RewindIsLast
    <3>3. QED BY <2>1, <3>1, <3>2
  <2>4. QED BY <2>1, <2>3, LastSame DEF guardVars, stopVars
<1>5. CASE RewindReturns
  <2>1. UNCHANGED <<fileVars, cur, memVars, guardVars, stopVars, mishaps>>
    BY <1>1, <1>5, RewindReturnsFacts
  <2>2. QED BY <2>1 DEF LastIsMemory, Final, Read, Calm, Without, fileVars, memVars, guardVars, stopVars
<1>6. CASE HandlerSaves
  <2>1. /\ op.pc \in {"direct", "lost"}
        /\ file'["ui"] = mem[op.inst]["ui"] /\ file'["api"] = file["api"]
        /\ there'["ui"] = TRUE /\ there'["api"] = there["api"]
        /\ UNCHANGED <<cur, mem, queue, stopVars, mishaps>>
    BY <1>1, <1>6, HandlerSavesFacts
  <2>2. ~frozen'[cur] => ~frozen[cur]
    BY <1>1, <1>6 DEF HandlerSaves, Freeze, guardVars, TypeOK
  <2>3. Calm => op.inst = cur BY <2>1 DEF OneInstance
  <2>4. Calm => Final("ui")' = mem[cur]["ui"] \/ Final("ui")' = Final("ui")
    BY <2>1, <2>3 DEF Final, Read
  <2>5. Final("api")' = Final("api") BY <2>1 DEF Final, Read
  <2>6. QED BY <2>1, <2>2, <2>4, <2>5, Constants DEF LastIsMemory, Calm, Without, stopVars
<1>7. CASE HandlerFails
  BY <1>1, <1>7, HandlerFailsFacts DEF LastIsMemory, Without
<1>8. CASE EditStops
  <2>1. /\ stop[cur] = "no" => BeginStop
        /\ stop[cur] # "no" => UNCHANGED <<queue, stopVars>>
        /\ UNCHANGED <<fileVars, cur, mem, guardVars, ghostVars>>
    BY <1>1, <1>8, EditStopsFacts
  <2>2. \A g \in Files : Final(g)' = mem'[cur][g]
                         \/ (Final(g)' = Final(g) /\ mem'[cur][g] = mem[cur][g])
    <3>1. CASE BeginStop BY <1>1, <2>1, <3>1, StopIsLast DEF fileVars
    <3>2. CASE UNCHANGED <<queue, stopVars>> BY <2>1, <3>2 DEF Final, Read, fileVars
    <3>3. QED BY <2>1, <3>1, <3>2
  <2>3. stop'[cur] # "over" => stop[cur] # "over" BY <2>1 DEF stopVars
  <2>4. QED BY <2>1, <2>2, <2>3, LastSame DEF guardVars, ghostVars
<1>9. QED BY <1>3, <1>4, <1>5, <1>6, <1>7, <1>8

LEMMA LastStep ==
  ASSUME Base, OneInstance, LastIsMemory, [Next]_vars
  PROVE  LastIsMemory'
<1>1. TypeOK /\ OpInv /\ WriterInv /\ LaterInv /\ JobInv BY DEF Base
<1>2. cur \in Instances /\ "api" \in Files /\ "ui" \in Files
      /\ \A g \in Files : mem[cur][g] \in Seq(Rows) /\ queue[cur][g] \in Seq(Entries)
  BY <1>1, StateTypes
<1>3. ASSUME NEW f \in Files, Push(f) PROVE LastIsMemory'
  <2>1. /\ TypeOK'
        /\ queue'[cur][f] = Append(queue[cur][f], Entry(mem'[cur][f], FALSE, TRUE))
        /\ \A g \in Files : g # f => mem'[cur][g] = mem[cur][g] /\ queue'[cur][g] = queue[cur][g]
        /\ mishaps' = IF stop[cur] = "saving" THEN mishaps \cup {"late"} ELSE mishaps
        /\ UNCHANGED <<fileVars, cur, guardVars, stopVars>>
    BY <1>1, <1>3, PushFacts
  <2>2. mem'[cur][f] \in Seq(Rows) BY <1>2, <2>1 DEF TypeOK, Histories
  <2>3. FALSE \in BOOLEAN /\ TRUE \in BOOLEAN OBVIOUS
  <2>4. Final(f)' = mem'[cur][f] BY <1>2, <2>1, <2>2, <2>3, LastAppended
  <2>5. \A g \in Files : g # f => Final(g)' = Final(g) BY <2>1 DEF Final, Read, fileVars
  <2>6. QED BY <2>1, <2>4, <2>5, LastSame DEF guardVars, stopVars
<1>4. ASSUME NEW i \in Instances, NEW f \in Files,
             SaveBegins(i, f) \/ SaveLands(i, f) \/ SaveFails(i, f)
      PROVE  LastIsMemory'
  BY <1>4, LastSaved
<1>5. ASSUME NEW n \in Rows, DeleteBegins(n) \/ EditBegins(n) \/ ReplaceBegins(n)
      PROVE  LastIsMemory'
  <2>1. PICK rows \in Seq(Rows), force \in BOOLEAN :
          /\ Rewind(cur, "ui", rows, force)
          /\ op'.kind = "edit" => Freeze(cur)
          /\ op'.kind # "edit" => UNCHANGED guardVars
          /\ mishaps' = IF stop[cur] = "saving" THEN mishaps \cup {"crossed"} ELSE mishaps
          /\ UNCHANGED <<fileVars, cur, stopVars>>
    BY <1>1, <1>5, BeginsFacts
  <2>2. frozen[cur] => frozen'[cur] BY <1>1, <1>2, <2>1 DEF Freeze, guardVars, TypeOK
  <2>3. CASE frozen[cur] BY <2>1, <2>2, <2>3 DEF LastIsMemory
  <2>4. CASE ~frozen[cur]
    <3>1. \A g \in Files : Final(g)' = mem'[cur][g]
                           \/ (Final(g)' = Final(g) /\ mem'[cur][g] = mem[cur][g])
      BY <1>1, <1>2, <2>1, <2>4, RewindIsLast DEF fileVars
    <3>2. QED BY <2>1, <2>2, <3>1, LastSame DEF stopVars
  <2>5. QED BY <2>3, <2>4
<1>6. ASSUME NEW n \in Rows, CheckpointBegins(n) PROVE LastIsMemory'
  BY <1>1, <1>6, CheckpointBeginsFacts DEF LastIsMemory, Calm, Without
<1>7. CASE CheckpointRestored \/ ApiRewinds \/ RewindReturns \/ HandlerSaves \/ HandlerFails
             \/ EditStops
  BY <1>7, LastRewound
<1>8. ASSUME NEW k \in Jobs, CondenseBegins(k) \/ CondenseChecks(k) \/ CondenseFails(k)
       PROVE  LastIsMemory'
  <2>1. UNCHANGED <<fileVars, cur, memVars, guardVars, stopVars, ghostVars>>
    BY <1>1, <1>8, JobFacts
  <2>2. \A g \in Files : Final(g)' = Final(g) BY <2>1 DEF Final, Read, fileVars, memVars
  <2>3. QED BY <2>1, <2>2, LastSame DEF memVars, guardVars, stopVars, ghostVars
<1>9. ASSUME NEW k \in Jobs, CondenseCommits(k) PROVE LastIsMemory'
  <2>1. /\ frozen[cur] => UNCHANGED <<memVars, next, ghostVars>>
        /\ ~frozen[cur] =>
             \E rows \in Seq(Rows) :
               /\ mem'[cur]["api"] = rows
               /\ queue'[cur]["api"] = Append(queue[cur]["api"], Entry(rows, FALSE, FALSE))
               /\ mem'[cur]["ui"] = mem[cur]["ui"] /\ queue'[cur]["ui"] = queue[cur]["ui"]
               /\ mishaps \subseteq mishaps'
        /\ UNCHANGED <<fileVars, cur, guardVars, stopVars>>
    BY <1>1, <1>9, CommitFacts
  <2>2. CASE frozen[cur] BY <2>1, <2>2 DEF LastIsMemory, guardVars
  <2>3. CASE ~frozen[cur]
    <3>1. PICK rows \in Seq(Rows) :
               /\ mem'[cur]["api"] = rows
               /\ queue'[cur]["api"] = Append(queue[cur]["api"], Entry(rows, FALSE, FALSE))
               /\ mem'[cur]["ui"] = mem[cur]["ui"] /\ queue'[cur]["ui"] = queue[cur]["ui"]
               /\ mishaps \subseteq mishaps'
      BY <2>1, <2>3
    <3>2. FALSE \in BOOLEAN OBVIOUS
    <3>3. Final("api")' = mem'[cur]["api"] BY <1>2, <2>1, <3>1, <3>2, LastAppended
    <3>4. Final("ui")' = Final("ui") BY <2>1, <3>1 DEF Final, Read, fileVars
    <3>5. QED BY <2>1, <3>1, <3>3, <3>4, Constants, LastSame DEF guardVars, stopVars
  <2>4. QED BY <2>2, <2>3
<1>10. CASE StopBegins
  <2>1. /\ BeginStop /\ stop[cur] = "no" /\ mishaps \subseteq mishaps'
        /\ UNCHANGED <<fileVars, cur, mem, guardVars>>
    BY <1>1, <1>10, StopBeginsFacts
  <2>2. QED BY <1>1, <2>1, StopIsLast, LastSame DEF fileVars, guardVars
<1>11. CASE StopSaved \/ StopTimesOut
  <2>1. EndStop /\ cur' = cur BY <1>1, <1>11, StopEndsFacts
  <2>2. stop'[cur] = "over" BY <1>1, <2>1, EndStopFacts
  <2>3. QED BY <2>1, <2>2 DEF LastIsMemory
<1>12. CASE Reopen
  <2>1. /\ cur' = cur + 1 /\ cur' \in Instances /\ queue' = queue
        /\ \A f \in Files : mem'[cur'][f] = Read(f)
        /\ UNCHANGED fileVars
    BY <1>1, <1>12, ReopenFacts
  <2>2. cur' > cur BY <1>2, <2>1, Constants
  <2>3. queue[cur'] = Empty BY <1>1, <2>1, <2>2 DEF LaterInv
  <2>4. \A f \in Files : Final(f)' = Read(f)
    BY <2>1, <2>3, EmptyFacts DEF Final, Read, fileVars
  <2>5. QED BY <2>1, <2>4 DEF LastIsMemory
<1>13. CASE Crash BY <1>1, <1>13, CrashFacts DEF LastIsMemory
<1>14. CASE UNCHANGED vars
  <2>1. UNCHANGED <<fileVars, cur, memVars, guardVars, stopVars, ghostVars>>
    BY <1>14 DEF vars
  <2>2. \A g \in Files : Final(g)' = Final(g) BY <2>1 DEF Final, Read, fileVars, memVars
  <2>3. QED BY <2>1, <2>2, LastSame DEF memVars, guardVars, stopVars, ghostVars
<1>15. QED
  BY <1>3, <1>4, <1>5, <1>6, <1>7, <1>8, <1>9, <1>10, <1>11, <1>12, <1>13, <1>14
  DEF Next

LEMMA LastIsMemoryHolds == Spec => []LastIsMemory
<1>1. Init => LastIsMemory
  <2> SUFFICES ASSUME Init PROVE LastIsMemory OBVIOUS
  <2>1. /\ mem[1] = Reopened /\ cur = 1 /\ \A f \in Files : queue[1][f] = <<>> /\ there[f]
        /\ file = Reopened
    BY Constants, EmptyFacts DEF Init
  <2>2. QED BY <2>1 DEF LastIsMemory, Final, Read
<1>2. Base /\ OneInstance /\ LastIsMemory /\ [Next]_vars => LastIsMemory' BY LastStep
<1>3. QED BY <1>1, <1>2, BaseHolds, OneInstanceHolds, PTL DEF Spec

\* FileFollowsMemory for every conversation: whatever order the saves of the chain, the
\* handler's own and a stop's come in, when the chain is empty the file is the memory.
THEOREM FileFollows == Spec => []FileFollowsMemory
<1>1. LastIsMemory => FileFollowsMemory
  BY DEF LastIsMemory, FileFollowsMemory, Final, Calm, Without
<1>2. QED BY <1>1, LastIsMemoryHolds, PTL
-----------------------------------------------------------------------------
(***************************************************************************)
(* No save of what a rewind took out outlives it                           *)
(***************************************************************************)

\* A place of a longer chain, and of a shorter one.
LEMMA AppendedAt ==
  ASSUME NEW T, NEW s \in Seq(T), NEW e \in T, NEW p \in DOMAIN Append(s, e)
  PROVE  /\ p \in Nat
         /\ \/ p \in DOMAIN s /\ p <= Len(s) /\ Append(s, e)[p] = s[p]
            \/ p = Len(s) + 1 /\ Append(s, e)[p] = e
<1>1. Len(s) \in Nat /\ DOMAIN s = 1..Len(s) BY SetOfSeq
<1>2. p \in 1..(Len(s) + 1) /\ Append(s, e)[Len(s) + 1] = e
      /\ \A q \in 1..Len(s) : Append(s, e)[q] = s[q]
  BY AppendFacts
<1>3. \A n \in Nat : \A q \in 1..(n + 1) : q \in Nat /\ ((q \in 1..n /\ q <= n) \/ q = n + 1)
  OBVIOUS
<1>4. p \in Nat /\ ((p \in 1..Len(s) /\ p <= Len(s)) \/ p = Len(s) + 1) BY <1>1, <1>2, <1>3
<1>5. QED BY <1>1, <1>2, <1>4

LEMMA TailAt ==
  ASSUME NEW T, NEW s \in Seq(T), s # <<>>, NEW p \in DOMAIN Tail(s)
  PROVE  p \in Nat /\ p > 0 /\ p + 1 \in DOMAIN s /\ Tail(s)[p] = s[p + 1]
<1>1. Len(s) \in Nat /\ Len(s) > 0 /\ DOMAIN s = 1..Len(s) /\ p \in 1..(Len(s) - 1)
      /\ \A q \in 1..(Len(s) - 1) : Tail(s)[q] = s[q + 1]
  BY TailFacts
<1>2. \A n \in Nat : \A q \in 1..(n - 1) : q \in Nat /\ q > 0 /\ q + 1 \in 1..n OBVIOUS
<1>3. QED BY <1>1, <1>2

\* The save that a rewind of a frozen instance waits for is one the chain may write.
AwaitedForced ==
  Calm /\ op.pc \in Files /\ op.wait > 0 /\ frozen[cur] => queue[cur][op.pc][op.wait].forced

\* The save a rewind has put on the chain and waits for.
LEMMA RewindAwaits ==
  ASSUME TypeOK, NEW f \in Files, NEW rows \in Seq(Rows), NEW force \in BOOLEAN,
         Rewind(cur, f, rows, force), ~Refuses(cur, force)
  PROVE  /\ queue'[cur][f][Wait(cur, f)].forced = force
         /\ queue'[cur][f][Wait(cur, f)].rows = rows
         /\ mem'[cur][f] = rows
         /\ Wait(cur, f) = Len(queue'[cur][f]) /\ Wait(cur, f) \in Nat /\ Wait(cur, f) > 0
<1> DEFINE e == Entry(rows, force, FALSE)
           s == queue[cur][f]
<1>1. /\ queue \in Chains /\ mem \in Histories /\ owed \subseteq Rows /\ cur \in Instances
      /\ s \in Seq(Entries)
  BY StateTypes
<1>2. FALSE \in BOOLEAN OBVIOUS
<1>3. e \in Entries /\ e.rows = rows /\ e.forced = force BY <1>2, EntryFacts
<1>4. mem'[cur][f] = rows BY <1>1, RewindFacts
<1>5. queue'[cur][f] = Append(s, e) BY <1>1, RewindFacts
<1>6. Wait(cur, f) = Len(queue'[cur][f]) /\ Wait(cur, f) = Len(s) + 1 BY <1>1, WaitFacts
<1> HIDE DEF e, s
<1>7. Append(s, e)[Len(s) + 1] = e /\ Len(s) \in Nat BY <1>1, <1>3, AppendFacts, SetOfSeq
<1>8. Wait(cur, f) \in Nat /\ Wait(cur, f) > 0 BY <1>6, <1>7
<1>9. QED BY <1>3, <1>4, <1>5, <1>6, <1>7, <1>8

\* A step that leaves the save that is awaited where it is.
LEMMA AwaitedSame ==
  ASSUME AwaitedForced, cur' = cur, mishaps \subseteq mishaps',
         op'.pc \in Files => op'.pc = op.pc /\ op'.wait = op.wait,
         frozen'[cur] => frozen[cur] /\ queue'[cur] = queue[cur]
  PROVE  AwaitedForced'
BY DEF AwaitedForced, Calm, Without

LEMMA AwaitedSettles ==
  ASSUME Base, OneInstance, AwaitedForced, NEW i \in Instances, NEW f \in Files,
         queue[i][f] # <<>>, Settle(i, f), UNCHANGED <<cur, guardVars>>,
         mishaps \subseteq mishaps'
  PROVE  AwaitedForced'
<1> DEFINE s == queue[i][f]
<1>1. /\ TypeOK /\ OpInv /\ queue \in Chains /\ ahead \in [Files -> Nat] /\ op \in Ops
      /\ op.wait \in Nat /\ s \in Seq(Entries) /\ cur \in Instances
  BY StateTypes DEF Base, TypeOK
<1>2. /\ queue'[i][f] = Tail(s)
      /\ \A g \in Files : g # f => queue'[i][g] = queue[i][g]
      /\ op'.pc = op.pc /\ op'.kind = op.kind /\ op'.inst = op.inst
      /\ op'.wait = IF op.inst = i /\ op.pc = f /\ op.wait > 0 THEN op.wait - 1 ELSE op.wait
  BY <1>1, SettleFacts
<1> SUFFICES ASSUME Calm, op.pc \in Files, op'.wait > 0, frozen[cur]
             PROVE  queue'[cur][op.pc][op'.wait].forced
  BY <1>2 DEF AwaitedForced, Calm, Without, guardVars
<1>3. i = cur /\ op.inst = cur
  <2>1. i = cur BY SaverInFront
  <2>2. op.pc # "none" BY DEF Files
  <2>3. QED BY <2>1, <2>2 DEF OneInstance
<1>4. op.wait > 0 /\ op.wait <= Len(queue[cur][op.pc]) BY <1>1, <1>2, <1>3 DEF OpInv
<1>5. queue[cur][op.pc][op.wait].forced BY <1>4 DEF AwaitedForced
<1>6. CASE op.pc = f
  <2>1. op'.wait = op.wait - 1 BY <1>2, <1>3, <1>4, <1>6
  <2>2. op.wait <= Len(s) /\ s[op.wait].forced BY <1>3, <1>4, <1>5, <1>6
  <2>3. s # <<>> OBVIOUS
  <2> HIDE DEF s
  <2>4. Len(s) \in Nat /\ \A p \in 1..(Len(s) - 1) : Tail(s)[p] = s[p + 1]
    BY <1>1, <2>3, TailFacts
  <2>5. \A w, n \in Nat : w <= n /\ w - 1 > 0 => w - 1 \in 1..(n - 1) /\ w - 1 + 1 = w OBVIOUS
  <2>6. op.wait - 1 \in 1..(Len(s) - 1) /\ op.wait - 1 + 1 = op.wait
    BY <1>1, <2>1, <2>2, <2>4, <2>5
  <2>7. Tail(s)[op.wait - 1] = s[op.wait] BY <2>4, <2>6
  <2>8. QED BY <1>2, <1>3, <1>6, <2>1, <2>2, <2>7
<1>7. CASE op.pc # f
  <2>1. op'.wait = op.wait /\ queue'[cur][op.pc] = queue[cur][op.pc] BY <1>2, <1>3, <1>7
  <2>2. QED BY <1>5, <2>1
<1>8. QED BY <1>6, <1>7

LEMMA AwaitedStep ==
  ASSUME Base, OneInstance, AwaitedForced, [Next]_vars
  PROVE  AwaitedForced'
<1>1. TypeOK /\ OpInv /\ WriterInv /\ LaterInv /\ JobInv BY DEF Base
<1>2. cur \in Instances /\ op.inst \in Instances /\ "api" \in Files /\ "ui" \in Files
  BY <1>1, StateTypes
<1>3. ASSUME NEW f \in Files, Push(f) PROVE AwaitedForced'
  <2>1. ~frozen[cur] /\ UNCHANGED <<cur, guardVars>> BY <1>1, <1>3, PushFacts
  <2>2. QED BY <2>1 DEF AwaitedForced, guardVars
<1>4. ASSUME NEW i \in Instances, NEW f \in Files,
             SaveBegins(i, f) \/ SaveLands(i, f) \/ SaveFails(i, f)
      PROVE  AwaitedForced'
  <2>1. /\ queue[i][f] # <<>>
        /\ Settle(i, f) \/ UNCHANGED <<queue, ahead, op>>
        /\ UNCHANGED <<cur, guardVars>> /\ mishaps \subseteq mishaps'
    BY <1>1, <1>4
    DEF SaveBegins, SaveLands, SaveFails, ghostVars, WriterInv, None, Instances
  <2>2. CASE Settle(i, f) BY <2>1, <2>2, AwaitedSettles
  <2>3. CASE UNCHANGED <<queue, ahead, op>> BY <2>1, <2>3, AwaitedSame DEF guardVars
  <2>4. QED BY <2>1, <2>2, <2>3
<1>5. ASSUME NEW n \in Rows, DeleteBegins(n) \/ EditBegins(n) \/ ReplaceBegins(n)
      PROVE  AwaitedForced'
  <2>1. PICK rows \in Seq(Rows), force \in BOOLEAN :
          /\ Rewind(cur, "ui", rows, force) /\ op'.pc = "ui" /\ op'.wait = Wait(cur, "ui")
          /\ op'.kind \in {"delete", "edit", "replace"} /\ (force <=> op'.kind # "delete")
          /\ op'.kind # "edit" => UNCHANGED guardVars
          /\ UNCHANGED cur
    BY <1>1, <1>5, BeginsFacts
  <2>2. CASE Refuses(cur, force)
    <3>1. op'.wait = 0 BY <1>1, <1>2, <2>1, <2>2, WaitFacts
    <3>2. QED BY <3>1 DEF AwaitedForced
  <2>3. CASE ~Refuses(cur, force)
    <3>1. queue'[cur]["ui"][Wait(cur, "ui")].forced = force
      BY <1>1, <1>2, <2>1, <2>3, RewindAwaits
    <3>2. frozen'[cur] => force BY <2>1, <2>3 DEF Refuses, guardVars
    <3>3. QED BY <2>1, <3>1, <3>2 DEF AwaitedForced
  <2>4. QED BY <2>2, <2>3
<1>6. ASSUME NEW n \in Rows, CheckpointBegins(n) PROVE AwaitedForced'
  BY <1>1, <1>6, CheckpointBeginsFacts DEF AwaitedForced, Calm, Without
<1>7. CASE CheckpointRestored
  <2>1. op.pc = "git" /\ cur' = cur /\ mishaps' = mishaps
    BY <1>1, <1>7, CheckpointRestoredFacts
  <2>2. ~Calm BY <1>1, <2>1 DEF OpInv, OneInstance
  <2>3. QED BY <2>1, <2>2 DEF AwaitedForced, Calm, Without
<1>8. CASE ApiRewinds
  <2>1. PICK rows \in Seq(Rows), force \in BOOLEAN :
          /\ op.pc = "ui"
          /\ \/ Rewind(op.inst, "api", rows, force) /\ ~Refuses(op.inst, force)
             \/ UNCHANGED <<memVars, owed>>
          /\ op'.wait = Wait(op.inst, "api") /\ op'.pc = "api"
          /\ UNCHANGED <<cur, guardVars, mishaps>>
    BY <1>1, <1>8, ApiRewindsFacts
  <2>2. CASE UNCHANGED <<memVars, owed>>
    <3>1. op'.wait = 0 BY <2>1, <2>2 DEF Wait, memVars
    <3>2. QED BY <3>1 DEF AwaitedForced
  <2>3. CASE Rewind(op.inst, "api", rows, force) /\ ~Refuses(op.inst, force)
    <3> SUFFICES ASSUME Calm, frozen[cur] PROVE queue'[cur]["api"][op'.wait].forced
      BY <2>1 DEF AwaitedForced, Calm, Without, guardVars
    <3>1. op.inst = cur BY <2>1 DEF OneInstance
    <3>2. Rewind(cur, "api", rows, force) /\ ~Refuses(cur, force) BY <2>3, <3>1
    <3>3. queue'[cur]["api"][Wait(cur, "api")].forced = force
      BY <1>1, <1>2, <3>2, RewindAwaits
    <3>4. force BY <3>2 DEF Refuses
    <3>5. QED BY <2>1, <3>1, <3>3, <3>4
  <2>4. QED BY <2>1, <2>2, <2>3
<1>9. CASE RewindReturns \/ HandlerSaves \/ HandlerFails \/ EditStops
  <2>1. op'.pc \notin Files
    BY <1>1, <1>9, RewindReturnsFacts, HandlerSavesFacts, HandlerFailsFacts, EditStopsFacts,
       NoOpFacts
    DEF Files, HandlerSaves, NoOp, Ops, TypeOK
  <2>2. QED BY <2>1 DEF AwaitedForced
<1>10. ASSUME NEW k \in Jobs, CondenseBegins(k) \/ CondenseChecks(k) \/ CondenseFails(k)
       PROVE  AwaitedForced'
  <2>1. UNCHANGED <<cur, memVars, guardVars, opVars, ghostVars>> BY <1>1, <1>10, JobFacts
  <2>2. QED BY <2>1, AwaitedSame DEF memVars, guardVars, opVars, ghostVars
<1>11. ASSUME NEW k \in Jobs, CondenseCommits(k) PROVE AwaitedForced'
  <2>1. /\ frozen[cur] => UNCHANGED <<memVars, next, ghostVars>>
        /\ UNCHANGED <<cur, guardVars, opVars>>
    BY <1>1, <1>11, CommitFacts
  <2>2. QED BY <2>1 DEF AwaitedForced, Calm, Without, memVars, guardVars, opVars, ghostVars
<1>12. CASE StopBegins
  <2>1. /\ mishaps' = IF op.pc # "none" THEN mishaps \cup {"crossed"} ELSE mishaps
        /\ UNCHANGED opVars
    BY <1>1, <1>12, StopBeginsFacts
  <2>2. QED BY <2>1 DEF AwaitedForced, Calm, Without, opVars, Files
<1>13. CASE StopSaved \/ StopTimesOut
  <2>1. /\ stop[cur] = "saving" /\ mishaps \subseteq mishaps' /\ UNCHANGED opVars
    BY <1>1, <1>13, StopEndsFacts
  <2>2. QED BY <2>1 DEF AwaitedForced, OneInstance, Calm, Without, opVars, Files
<1>14. CASE Reopen
  <2>1. /\ stop[cur] = "over" /\ op' = IF op.pc = "done" THEN NoOp ELSE op
        /\ mishaps \subseteq mishaps'
    BY <1>1, <1>14, ReopenFacts
  <2>2. QED BY <2>1 DEF AwaitedForced, OneInstance, Calm, Without, Files
<1>15. CASE Crash BY <1>1, <1>15, CrashFacts, NoOpFacts DEF AwaitedForced
<1>16. CASE UNCHANGED vars
  <2>1. UNCHANGED <<cur, memVars, guardVars, opVars, ghostVars>> BY <1>16 DEF vars
  <2>2. QED BY <2>1, AwaitedSame DEF memVars, guardVars, opVars, ghostVars
<1>17. QED
  BY <1>3, <1>4, <1>5, <1>6, <1>7, <1>8, <1>9, <1>10, <1>11, <1>12, <1>13, <1>14, <1>15,
     <1>16
  DEF Next

LEMMA AwaitedForcedHolds == Spec => []AwaitedForced
<1>1. Init => AwaitedForced BY NoOpFacts DEF Init, AwaitedForced
<1>2. Base /\ OneInstance /\ AwaitedForced /\ [Next]_vars => AwaitedForced' BY AwaitedStep
<1>3. QED BY <1>1, <1>2, BaseHolds, OneInstanceHolds, PTL DEF Spec

-----------------------------------------------------------------------------
\* The place of the save on the chain of f that a rewind waits for, or 0.
Waits(f) == IF op.pc = f THEN op.wait ELSE 0

\* The saves from the awaited one on, and the file when none is awaited, hold no row that
\* is not in memory.
Clean(f) ==
  /\ \A p \in DOMAIN queue[cur][f] :
       p >= Waits(f) => ToSet(queue[cur][f][p].rows) \subseteq ToSet(mem[cur][f])
  /\ Waits(f) = 0 => ToSet(file[f]) \subseteq ToSet(mem[cur][f])

NoneStale ==
  Calm /\ Without({"raced", "failed"}) /\ stop[cur] = "no" => \A f \in Files : Clean(f)

\* A save of what is in memory is put at the end.
LEMMA CleanAppend ==
  ASSUME NEW f \in Files, queue[cur][f] \in Seq(Entries), NEW rows \in Seq(Rows),
         NEW a \in BOOLEAN, NEW b \in BOOLEAN,
         cur' = cur, queue'[cur][f] = Append(queue[cur][f], Entry(rows, a, b)),
         ToSet(rows) = ToSet(mem'[cur][f]), ToSet(mem[cur][f]) \subseteq ToSet(mem'[cur][f]),
         Waits(f)' = Waits(f), file'[f] = file[f], Clean(f)
  PROVE  Clean(f)'
<1> DEFINE s == queue[cur][f]
           t == queue'[cur][f]
           e == Entry(rows, a, b)
<1>1. s \in Seq(Entries) /\ e \in Entries /\ e.rows = rows /\ t = Append(s, e) BY EntryFacts
<1>2. ASSUME NEW p \in DOMAIN t, p >= Waits(f)
      PROVE  ToSet(t[p].rows) \subseteq ToSet(mem'[cur][f])
  <2>1. p \in DOMAIN s => ToSet(s[p].rows) \subseteq ToSet(mem[cur][f]) BY <1>2 DEF Clean
  <2> HIDE DEF s, t, e
  <2>2. \/ p \in DOMAIN s /\ t[p] = s[p]
        \/ t[p] = e
    BY <1>1, <1>2, AppendedAt
  <2>3. QED BY <1>1, <2>1, <2>2
<1>3. Waits(f) = 0 => ToSet(file[f]) \subseteq ToSet(mem'[cur][f]) BY DEF Clean
<1> HIDE DEF e
<1>4. QED BY <1>2, <1>3 DEF Clean

\* The save that a rewind waits for is the last one, and holds what is left.
LEMMA CleanRewound ==
  ASSUME TypeOK, NEW f \in Files, NEW rows \in Seq(Rows), NEW force \in BOOLEAN,
         Rewind(cur, f, rows, force), ~Refuses(cur, force), cur' = cur, op'.pc = f,
         op'.wait = Wait(cur, f)
  PROVE  Clean(f)'
<1> DEFINE t == queue'[cur][f]
           w == Wait(cur, f)
<1>1. /\ t[w].rows = rows /\ mem'[cur][f] = rows
      /\ w = Len(t) /\ w \in Nat /\ w > 0
  BY RewindAwaits
<1>2. t \in Seq(Entries)
  <2>1. queue \in Chains /\ mem \in Histories /\ owed \subseteq Rows /\ cur \in Instances
    BY StateTypes
  <2>2. queue' \in Chains BY <2>1, RewindFacts
  <2>3. QED BY <2>1, <2>2 DEF Chains
<1>3. Waits(f)' = w BY DEF Waits
<1>4. ASSUME NEW p \in DOMAIN t, p >= w PROVE ToSet(t[p].rows) \subseteq ToSet(mem'[cur][f])
  <2> HIDE DEF t, w
  <2>1. DOMAIN t = 1..Len(t) BY <1>2, SetOfSeq
  <2>2. p = w BY <1>1, <1>4, <2>1
  <2>3. QED BY <1>1, <2>2
<1> HIDE DEF w
<1>5. QED BY <1>1, <1>3, <1>4 DEF Clean

\* The first save is over: written, or refused while it was not the awaited one.
LEMMA CleanSettles ==
  ASSUME TypeOK, NEW f \in Files, queue[cur][f] # <<>>, Settle(cur, f), cur' = cur,
         mem' = mem, op.pc \in Files => op.inst = cur, Clean(f),
         \/ file'[f] = queue[cur][f][1].rows
         \/ file'[f] = file[f] /\ Waits(f) # 1
  PROVE  Clean(f)'
<1> DEFINE s == queue[cur][f]
           t == queue'[cur][f]
<1>1. /\ queue \in Chains /\ ahead \in [Files -> Nat] /\ op \in Ops /\ op.wait \in Nat
      /\ s \in Seq(Entries) /\ cur \in Instances
  BY StateTypes DEF TypeOK
<1>2. /\ t = Tail(s) /\ op'.pc = op.pc
      /\ op'.wait = IF op.inst = cur /\ op.pc = f /\ op.wait > 0 THEN op.wait - 1 ELSE op.wait
  BY <1>1, SettleFacts
<1>3. Waits(f) \in Nat /\ Waits(f)' = IF Waits(f) > 0 THEN Waits(f) - 1 ELSE 0
  BY <1>1, <1>2 DEF Waits
<1>4. \A p \in DOMAIN s : p >= Waits(f) => ToSet(s[p].rows) \subseteq ToSet(mem[cur][f])
  BY DEF Clean
<1>5. s # <<>> OBVIOUS
<1>6. ASSUME NEW p \in DOMAIN t, p >= Waits(f)'
      PROVE  ToSet(t[p].rows) \subseteq ToSet(mem[cur][f])
  <2> HIDE DEF s, t
  <2>1. p \in Nat /\ p + 1 \in DOMAIN s /\ t[p] = s[p + 1] BY <1>1, <1>2, <1>5, <1>6, TailAt
  <2>2. \A n, w \in Nat : n >= (IF w > 0 THEN w - 1 ELSE 0) => n + 1 >= w OBVIOUS
  <2>3. p + 1 >= Waits(f) BY <2>1, <2>2, <1>3, <1>6
  <2>4. QED BY <2>1, <2>3, <1>4
<1>7. ASSUME Waits(f)' = 0 PROVE ToSet(file'[f]) \subseteq ToSet(mem[cur][f])
  <2>1. Waits(f) = 0 \/ Waits(f) = 1 BY <1>3, <1>7
  <2>2. CASE file'[f] = s[1].rows
    <3>1. 1 \in DOMAIN s /\ 1 >= Waits(f) BY <1>1, <1>5, <2>1, TailFacts
    <3>2. QED BY <3>1, <2>2, <1>4
  <2>3. CASE file'[f] = file[f] /\ Waits(f) # 1 BY <2>1, <2>3 DEF Clean
  <2>4. QED BY <2>2, <2>3
<1>8. QED BY <1>6, <1>7 DEF Clean

\* Nothing of one history changes but, perhaps, that its file is now the memory.
LEMMA CleanSame ==
  ASSUME NEW f \in Files, Clean(f), cur' = cur, queue'[cur][f] = queue[cur][f],
         mem'[cur][f] = mem[cur][f], Waits(f)' = Waits(f),
         file'[f] = file[f] \/ file'[f] = mem[cur][f]
  PROVE  Clean(f)'
BY DEF Clean

LEMMA StaleSaved ==
  ASSUME Base, OneInstance, AwaitedForced, NoneStale, NEW i \in Instances, NEW f \in Files,
         SaveBegins(i, f) \/ SaveLands(i, f) \/ SaveFails(i, f)
  PROVE  NoneStale'
<1>1. /\ TypeOK /\ WriterInv /\ queue \in Chains /\ ahead \in [Files -> Nat] /\ op \in Ops
      /\ op.wait \in Nat
  BY StateTypes DEF Base, TypeOK
<1>2. CASE SaveFails(i, f) BY <1>1, <1>2, SaveFailsFacts DEF NoneStale, Without
<1>3. CASE SaveBegins(i, f) \/ SaveLands(i, f)
  <2>1. /\ queue[i][f] # <<>>
        /\ Settle(i, f) \/ UNCHANGED <<queue, op>>
        /\ UNCHANGED <<cur, mem, stop, mishaps>>
    BY <1>1, <1>3
    DEF SaveBegins, SaveLands, ghostVars, WriterInv, None, Instances
  <2> SUFFICES ASSUME Calm, Without({"raced", "failed"}), stop[cur] = "no", NEW g \in Files
               PROVE  Clean(g)'
    BY <2>1 DEF NoneStale, Calm, Without
  <2>2. i = cur BY <2>1, SaverInFront
  <2>3. Clean(f) /\ Clean(g) BY DEF NoneStale
  <2>4. op.pc \in Files => op.inst = cur BY DEF OneInstance, Files
  <2>5. \/ Settle(cur, f) /\ file' = file /\ (frozen[cur] /\ ~Head(queue[cur][f]).forced)
        \/ Settle(cur, f) /\ file' = [file EXCEPT ![f] = Head(queue[cur][f]).rows]
        \/ UNCHANGED <<file, queue, op>>
    BY <1>3, <2>2 DEF SaveBegins, SaveLands
  <2>6. queue[cur][f] \in Seq(Entries) /\ queue[cur][f] # <<>> BY <1>1, <2>1, <2>2, StateTypes
  <2>7. Head(queue[cur][f]) = queue[cur][f][1] BY <2>6, TailFacts
  <2>8. CASE Settle(cur, f)
    <3>1. CASE g = f
      <4>1. \/ file'[f] = queue[cur][f][1].rows
            \/ file'[f] = file[f] /\ Waits(f) # 1
        <5>1. CASE file' = [file EXCEPT ![f] = Head(queue[cur][f]).rows]
          BY <1>1, <2>7, <5>1 DEF TypeOK
        <5>2. CASE file' = file /\ frozen[cur] /\ ~Head(queue[cur][f]).forced
          <6>1. Waits(f) = 1 => queue[cur][f][1].forced BY <5>2 DEF Waits, AwaitedForced
          <6>2. QED BY <5>2, <6>1, <2>7
        <5>3. CASE UNCHANGED <<file, queue, op>>
          <6>1. queue'[cur][f] = Tail(queue[cur][f]) BY <1>1, <2>2, <2>6, <2>8, SettleFacts
          <6>2. QED BY <5>3, <6>1, <2>6, TailFacts
        <5>4. QED BY <2>5, <5>1, <5>2, <5>3
      <4>2. QED BY <1>1, <2>1, <2>3, <2>4, <2>6, <2>8, <3>1, <4>1, CleanSettles
    <3>2. CASE g # f
      <4>1. /\ queue'[cur][g] = queue[cur][g] /\ op'.pc = op.pc
            /\ op.pc = g => op'.wait = op.wait
        BY <1>1, <2>2, <2>6, <2>8, <3>2, SettleFacts
      <4>2. Waits(g)' = Waits(g) BY <4>1 DEF Waits
      <4>3. file'[g] = file[g] BY <2>5, <3>2, <1>1 DEF TypeOK
      <4>4. QED BY <2>1, <2>3, <4>1, <4>2, <4>3, CleanSame
    <3>3. QED BY <3>1, <3>2
  <2>9. CASE UNCHANGED <<file, queue, op>>
    <3>1. Waits(g)' = Waits(g) BY <2>9 DEF Waits
    <3>2. QED BY <2>1, <2>3, <2>9, <3>1, CleanSame
  <2>10. QED BY <2>5, <2>8, <2>9
<1>4. QED BY <1>2, <1>3

LEMMA StaleBegins ==
  ASSUME Base, OneInstance, NoneStale, NEW n \in Rows,
         DeleteBegins(n) \/ EditBegins(n) \/ ReplaceBegins(n)
  PROVE  NoneStale'
<1>1. TypeOK /\ cur \in Instances /\ "ui" \in Files /\ "api" \in Files
  BY StateTypes DEF Base
<1>2. PICK rows \in Seq(Rows), force \in BOOLEAN :
        /\ Rewind(cur, "ui", rows, force)
        /\ op.pc = "none" /\ op'.pc = "ui" /\ op'.wait = Wait(cur, "ui")
        /\ mishaps' = IF stop[cur] = "saving" THEN mishaps \cup {"crossed"} ELSE mishaps
        /\ UNCHANGED <<fileVars, cur, stopVars>>
  BY <1>1, BeginsFacts
<1> SUFFICES ASSUME Calm, Without({"raced", "failed"}), stop[cur] = "no"
             PROVE  Clean("ui")' /\ Clean("api")'
  BY <1>2, Constants DEF NoneStale, Calm, Without, stopVars
<1>3. Clean("ui") /\ Clean("api") BY <1>1 DEF NoneStale
<1>4. Waits("ui") = 0 /\ Waits("api") = 0 /\ Waits("api")' = 0 BY <1>2 DEF Waits
<1>5. mem'[cur]["api"] = mem[cur]["api"] BY <1>1, <1>2, RewindGrows
<1>6. queue'[cur]["api"] = queue[cur]["api"] BY <1>1, <1>2, RewindGrows
<1>7. Clean("api")' BY <1>1, <1>2, <1>3, <1>4, <1>5, <1>6, CleanSame DEF fileVars
<1>8. CASE Refuses(cur, force)
  <2>1. mem' = mem /\ queue' = queue BY <1>2, <1>8 DEF Refuses, Rewind
  <2>2. op'.wait = 0 BY <1>1, <1>2, <1>8, WaitFacts
  <2>3. Waits("ui")' = 0 BY <2>2 DEF Waits
  <2>4. Clean("ui")' BY <1>1, <1>2, <1>3, <1>4, <2>1, <2>3, CleanSame DEF fileVars
  <2>5. QED BY <1>7, <2>4
<1>9. CASE ~Refuses(cur, force) BY <1>1, <1>2, <1>7, <1>9, CleanRewound
<1>10. QED BY <1>8, <1>9

LEMMA StaleRewinds ==
  ASSUME Base, OneInstance, NoneStale,
         ApiRewinds \/ RewindReturns \/ HandlerSaves
  PROVE  NoneStale'
<1>1. TypeOK /\ OpInv /\ cur \in Instances /\ "ui" \in Files /\ "api" \in Files
  BY StateTypes DEF Base
<1>2. /\ op.pc \in {"ui", "api", "direct", "lost"}
      /\ cur' = cur /\ stop' = stop /\ mishaps' = mishaps
  BY <1>1 DEF ApiRewinds, RewindReturns, HandlerSaves, stopVars
<1> SUFFICES ASSUME Calm, Without({"raced", "failed"}), stop[cur] = "no"
             PROVE  Clean("ui")' /\ Clean("api")'
  BY <1>2, Constants DEF NoneStale, Calm, Without
<1>3. Clean("ui") /\ Clean("api") BY <1>1 DEF NoneStale
<1>4. op.inst = cur BY <1>2 DEF OneInstance
<1>5. CASE ApiRewinds
  <2>1. PICK rows \in Seq(Rows), force \in BOOLEAN :
          /\ op.pc = "ui" /\ op.wait = 0
          /\ \/ Rewind(op.inst, "api", rows, force) /\ ~Refuses(op.inst, force)
             \/ UNCHANGED <<memVars, owed>>
          /\ op'.wait = Wait(op.inst, "api") /\ op'.pc = "api"
          /\ UNCHANGED fileVars
    BY <1>1, <1>5, ApiRewindsFacts
  <2>2. Waits("ui") = 0 /\ Waits("api") = 0 /\ Waits("ui")' = 0 BY <2>1 DEF Waits
  <2>3. CASE UNCHANGED <<memVars, owed>>
    <3>1. mem' = mem /\ queue' = queue BY <2>3 DEF memVars
    <3>2. Waits("api")' = 0 BY <2>1, <3>1 DEF Wait, Waits
    <3>3. QED BY <1>1, <1>2, <1>3, <2>1, <2>2, <3>1, <3>2, CleanSame DEF fileVars
  <2>4. CASE Rewind(op.inst, "api", rows, force) /\ ~Refuses(op.inst, force)
    <3>1. Rewind(cur, "api", rows, force) /\ ~Refuses(cur, force) BY <1>4, <2>4
    <3>2. op'.wait = Wait(cur, "api") BY <1>4, <2>1
    <3>3. Clean("api")' BY <1>1, <1>2, <2>1, <3>1, <3>2, CleanRewound
    <3>4. mem'[cur]["ui"] = mem[cur]["ui"] /\ queue'[cur]["ui"] = queue[cur]["ui"]
      BY <1>1, <3>1, RewindGrows
    <3>5. Clean("ui")' BY <1>1, <1>2, <1>3, <2>1, <2>2, <3>4, CleanSame DEF fileVars
    <3>6. QED BY <3>3, <3>5
  <2>5. QED BY <2>1, <2>3, <2>4
<1>6. CASE RewindReturns
  <2>1. /\ op.pc = "api" /\ op.wait = 0 /\ op'.pc = "direct" /\ op'.wait = 0
        /\ UNCHANGED <<fileVars, memVars>>
    BY <1>1, <1>6, RewindReturnsFacts
  <2>2. \A f \in Files : Waits(f)' = Waits(f) BY <2>1 DEF Waits, Files
  <2>3. QED BY <1>1, <1>2, <1>3, <2>1, <2>2, CleanSame DEF fileVars, memVars
<1>7. CASE HandlerSaves
  <2>1. /\ op.pc \in {"direct", "lost"}
        /\ file'["ui"] = mem[cur]["ui"] /\ file'["api"] = file["api"]
        /\ op.kind = "edit" => op'.pc = "stop"
        /\ op.kind = "checkpoint" => op'.pc = "done"
        /\ op.kind \notin {"edit", "checkpoint"} => op' = NoOp
        /\ UNCHANGED <<mem, queue>>
    BY <1>1, <1>4, <1>7, HandlerSavesFacts
  <2>2. op'.pc \notin Files BY <2>1, NoOpFacts DEF Files
  <2>3. \A f \in Files : Waits(f)' = 0 /\ Waits(f) = 0 BY <2>1, <2>2 DEF Waits, Files
  <2>4. QED BY <1>1, <1>2, <1>3, <2>1, <2>3, CleanSame
<1>8. QED BY <1>5, <1>6, <1>7

LEMMA StaleCommits ==
  ASSUME Base, NoneStale, NEW k \in Jobs, CondenseCommits(k)
  PROVE  NoneStale'
<1>1. /\ TypeOK /\ JobInv /\ cur \in Instances /\ "ui" \in Files /\ "api" \in Files
      /\ queue[cur]["api"] \in Seq(Entries)
  BY StateTypes DEF Base
<1>2. /\ job[k].pc = "checked"
      /\ frozen[cur] => UNCHANGED <<memVars, next, ghostVars>>
      /\ ~frozen[cur] =>
           \E rows \in Seq(Rows) :
             /\ mem'[cur]["api"] = rows
             /\ ToSet(rows) = ToSet(job[k].res) \cup {next}
             /\ queue'[cur]["api"] = Append(queue[cur]["api"], Entry(rows, FALSE, FALSE))
             /\ mem'[cur]["ui"] = mem[cur]["ui"] /\ queue'[cur]["ui"] = queue[cur]["ui"]
             /\ job[k].rev = rev \/ "raced" \in mishaps'
             /\ mishaps \subseteq mishaps'
      /\ UNCHANGED <<fileVars, cur, stopVars, opVars>>
  BY <1>1, CommitFacts
<1>3. \A f \in Files : Waits(f)' = Waits(f) BY <1>2 DEF Waits, opVars
<1>4. CASE frozen[cur]
  BY <1>2, <1>3, <1>4, CleanSame
  DEF NoneStale, Calm, Without, memVars, ghostVars, fileVars, stopVars
<1>5. CASE ~frozen[cur]
  <2>1. PICK rows \in Seq(Rows) :
             /\ mem'[cur]["api"] = rows
             /\ ToSet(rows) = ToSet(job[k].res) \cup {next}
             /\ queue'[cur]["api"] = Append(queue[cur]["api"], Entry(rows, FALSE, FALSE))
             /\ mem'[cur]["ui"] = mem[cur]["ui"] /\ queue'[cur]["ui"] = queue[cur]["ui"]
             /\ job[k].rev = rev \/ "raced" \in mishaps'
             /\ mishaps \subseteq mishaps'
    BY <1>2, <1>5
  <2> SUFFICES ASSUME Calm, Without({"raced", "failed"}), Without({"raced"})', stop[cur] = "no"
               PROVE  Clean("ui")' /\ Clean("api")'
    BY <1>2, <2>1, Constants DEF NoneStale, Calm, Without, stopVars
  <2>2. Clean("ui") /\ Clean("api") BY <1>1 DEF NoneStale
  <2>3. job[k].res = mem[cur]["api"] BY <1>1, <1>2, <1>5, <2>1 DEF JobInv, Without
  <2>4. ToSet(mem[cur]["api"]) \subseteq ToSet(mem'[cur]["api"]) BY <2>1, <2>3
  <2>5. FALSE \in BOOLEAN OBVIOUS
  <2>6. file' = file /\ cur' = cur BY <1>2 DEF fileVars
  <2>7. Clean("api")' BY <1>1, <1>3, <2>1, <2>2, <2>4, <2>5, <2>6, CleanAppend
  <2>8. Clean("ui")' BY <1>1, <1>3, <2>1, <2>2, <2>6, CleanSame
  <2>9. QED BY <2>7, <2>8
<1>6. QED BY <1>4, <1>5

LEMMA StaleStep ==
  ASSUME Base, OneInstance, AwaitedForced, NoneStale, [Next]_vars
  PROVE  NoneStale'
<1>1. TypeOK /\ OpInv /\ WriterInv /\ LaterInv /\ JobInv BY DEF Base
<1>2. cur \in Instances /\ "api" \in Files /\ "ui" \in Files
      /\ \A g \in Files : mem[cur][g] \in Seq(Rows) /\ queue[cur][g] \in Seq(Entries)
  BY <1>1, StateTypes
<1>3. ASSUME NEW f \in Files, Push(f) PROVE NoneStale'
  <2>1. /\ TypeOK' /\ ToSet(mem'[cur][f]) = ToSet(mem[cur][f]) \cup {next}
        /\ queue'[cur][f] = Append(queue[cur][f], Entry(mem'[cur][f], FALSE, TRUE))
        /\ \A g \in Files : g # f => mem'[cur][g] = mem[cur][g] /\ queue'[cur][g] = queue[cur][g]
        /\ mishaps' = IF stop[cur] = "saving" THEN mishaps \cup {"late"} ELSE mishaps
        /\ UNCHANGED <<fileVars, cur, stopVars, opVars>>
    BY <1>1, <1>3, PushFacts
  <2> SUFFICES ASSUME Calm, Without({"raced", "failed"}), stop[cur] = "no", NEW g \in Files
               PROVE  Clean(g)'
    BY <2>1 DEF NoneStale, Calm, Without, stopVars
  <2>2. Clean(g) BY DEF NoneStale
  <2>3. Waits(g)' = Waits(g) /\ file' = file BY <2>1 DEF Waits, opVars, fileVars
  <2>4. mem'[cur][f] \in Seq(Rows) BY <1>2, <2>1 DEF TypeOK, Histories
  <2>5. FALSE \in BOOLEAN /\ TRUE \in BOOLEAN OBVIOUS
  <2>6. CASE g = f
    <3>1. ToSet(mem[cur][f]) \subseteq ToSet(mem'[cur][f]) BY <2>1
    <3>2. cur' = cur /\ Clean(f) /\ Waits(f)' = Waits(f) BY <2>1, <2>2, <2>3, <2>6
    <3> DEFINE rows == mem'[cur][f]
    <3>3. /\ rows \in Seq(Rows) /\ ToSet(rows) = ToSet(mem'[cur][f])
          /\ queue'[cur][f] = Append(queue[cur][f], Entry(rows, FALSE, TRUE))
      BY <2>1, <2>4
    <3>4. Clean(f)'
      <4> HIDE DEF rows
      <4>1. QED BY <1>2, <2>3, <2>5, <3>1, <3>2, <3>3, CleanAppend
    <3>5. QED BY <3>4, <2>6
  <2>7. CASE g # f BY <2>1, <2>2, <2>3, <2>7, CleanSame
  <2>8. QED BY <2>6, <2>7
<1>4. ASSUME NEW i \in Instances, NEW f \in Files,
             SaveBegins(i, f) \/ SaveLands(i, f) \/ SaveFails(i, f)
      PROVE  NoneStale'
  BY <1>4, StaleSaved
<1>5. ASSUME NEW n \in Rows, DeleteBegins(n) \/ EditBegins(n) \/ ReplaceBegins(n)
      PROVE  NoneStale'
  BY <1>5, StaleBegins
<1>6. ASSUME NEW n \in Rows, CheckpointBegins(n) PROVE NoneStale'
  BY <1>1, <1>6, CheckpointBeginsFacts DEF NoneStale, Calm, Without
<1>7. CASE CheckpointRestored
  <2>1. op.pc = "git" /\ cur' = cur /\ mishaps' = mishaps
    BY <1>1, <1>7, CheckpointRestoredFacts
  <2>2. ~Calm BY <1>1, <2>1 DEF OpInv, OneInstance
  <2>3. QED BY <2>1, <2>2 DEF NoneStale, Calm, Without
<1>8. CASE ApiRewinds \/ RewindReturns \/ HandlerSaves BY <1>8, StaleRewinds
<1>9. CASE HandlerFails BY <1>1, <1>9, HandlerFailsFacts DEF NoneStale, Without
<1>10. CASE EditStops
  <2>1. /\ stop[cur] = "no" => stop'[cur] = "saving"
        /\ stop[cur] # "no" => stop' = stop
        /\ cur' = cur
    BY <1>1, <1>10, EditStopsFacts, BeginStopFacts DEF stopVars
  <2>2. stop'[cur] # "no" BY <2>1
  <2>3. QED BY <2>1, <2>2 DEF NoneStale
<1>11. ASSUME NEW k \in Jobs, CondenseBegins(k) \/ CondenseChecks(k) \/ CondenseFails(k)
       PROVE  NoneStale'
  <2>1. UNCHANGED <<fileVars, cur, memVars, stopVars, opVars, ghostVars>>
    BY <1>1, <1>11, JobFacts
  <2>2. \A f \in Files : Waits(f)' = Waits(f) BY <2>1 DEF Waits, opVars
  <2>3. \A f \in Files : Clean(f) => Clean(f)'
    BY <2>1, <2>2, CleanSame DEF fileVars, memVars
  <2>4. QED BY <2>1, <2>3 DEF NoneStale, Calm, Without, stopVars, ghostVars
<1>12. ASSUME NEW k \in Jobs, CondenseCommits(k) PROVE NoneStale' BY <1>12, StaleCommits
<1>13. CASE StopBegins
  <2>1. stop'[cur] = "saving" /\ cur' = cur
    BY <1>1, <1>13, StopBeginsFacts, BeginStopFacts
  <2>2. QED BY <2>1 DEF NoneStale
<1>14. CASE StopSaved \/ StopTimesOut
  <2>1. EndStop /\ cur' = cur BY <1>1, <1>14, StopEndsFacts
  <2>2. stop'[cur] = "over" BY <1>1, <2>1, EndStopFacts
  <2>3. QED BY <2>1, <2>2 DEF NoneStale
<1>15. CASE Reopen
  <2>1. /\ cur' = cur + 1 /\ cur' \in Instances /\ queue' = queue
        /\ \A f \in Files : mem'[cur'][f] = Read(f)
        /\ stop[cur] = "over" /\ op' = IF op.pc = "done" THEN NoOp ELSE op
        /\ mishaps' = IF \E i \in 1..cur : queue[i] # Empty THEN mishaps \cup {"overlap"}
                                                            ELSE mishaps
        /\ UNCHANGED fileVars
    BY <1>1, <1>15, ReopenFacts
  <2> SUFFICES ASSUME Calm, \A i \in 1..cur : queue[i] = Empty, NEW f \in Files
               PROVE  Clean(f)'
    BY <2>1 DEF NoneStale, Calm, Without
  <2>2. cur' > cur BY <1>2, <2>1, Constants
  <2>3. queue[cur'] = Empty BY <1>1, <2>1, <2>2 DEF LaterInv
  <2>4. DOMAIN queue'[cur'][f] = {}
    <3>1. queue'[cur'][f] = <<>> BY <2>1, <2>3, EmptyFacts
    <3>2. QED BY <3>1
  <2>5. ~there[f] => file[f] = <<>>
    <3>1. writer[f] \in Instances => writer[f] \in 1..cur \/ writer[f] > cur
      BY <1>2, Constants DEF Instances
    <3>2. writer[f] \in Instances => queue[writer[f]] = Empty BY <1>1, <3>1 DEF LaterInv
    <3>3. writer[f] \in Instances => queue[writer[f]][f] = <<>> BY <3>2, EmptyFacts
    <3>4. writer[f] \in Instances \/ writer[f] = None BY <1>1 DEF TypeOK
    <3>5. writer[f] = None BY <1>1, <3>3, <3>4 DEF WriterInv
    <3>6. QED BY <1>1, <3>5 DEF WriterInv
  <2>6. file'[f] = mem'[cur'][f] BY <2>1, <2>5 DEF Read, fileVars
  <2>7. QED BY <2>4, <2>6 DEF Clean
<1>16. CASE Crash BY <1>1, <1>16, CrashFacts DEF NoneStale
<1>17. CASE UNCHANGED vars
  <2>1. UNCHANGED <<fileVars, cur, memVars, stopVars, opVars, ghostVars>> BY <1>17 DEF vars
  <2>2. \A f \in Files : Waits(f)' = Waits(f) BY <2>1 DEF Waits, opVars
  <2>3. \A f \in Files : Clean(f) => Clean(f)'
    BY <2>1, <2>2, CleanSame DEF fileVars, memVars
  <2>4. QED BY <2>1, <2>3 DEF NoneStale, Calm, Without, stopVars, ghostVars
<1>18. QED
  BY <1>3, <1>4, <1>5, <1>6, <1>7, <1>8, <1>9, <1>10, <1>11, <1>12, <1>13, <1>14, <1>15,
     <1>16, <1>17
  DEF Next

LEMMA NoneStaleHolds == Spec => []NoneStale
<1>1. Init => NoneStale
  <2> SUFFICES ASSUME Init PROVE NoneStale OBVIOUS
  <2>1. /\ mem[1] = Reopened /\ cur = 1 /\ \A f \in Files : queue[1][f] = <<>>
        /\ file = Reopened
    BY Constants, EmptyFacts DEF Init
  <2>2. DOMAIN <<>> = {} OBVIOUS
  <2>3. QED BY <2>1, <2>2 DEF NoneStale, Clean
<1>2. Base /\ OneInstance /\ AwaitedForced /\ NoneStale /\ [Next]_vars => NoneStale'
  BY StaleStep
<1>3. QED BY <1>1, <1>2, BaseHolds, OneInstanceHolds, AwaitedForcedHolds, PTL DEF Spec
-----------------------------------------------------------------------------
\* What a rewind has taken out has a number that was given, and is none of the rows that
\* an edited answer is about to add.
GoneNumbers ==
  /\ \A r \in gone : r < next
  /\ op.kind = "replace" /\ op.pc = "ui" => op.upto - 1 \notin gone

\* Neither the file, nor the memory, nor a save under way has a row that is gone.
NoneGone(f) ==
  /\ ToSet(file[f]) \cap gone = {} /\ ToSet(mem[cur][f]) \cap gone = {}
  /\ \A e \in ToSet(queue[cur][f]) : ToSet(e.rows) \cap gone = {}

Returns == Calm /\ Without({"raced", "failed"}) => \A f \in Files : NoneGone(f)

LEMMA GoneSame ==
  ASSUME NEW f \in Files, NoneGone(f), cur' = cur, gone' = gone,
         queue'[cur][f] = queue[cur][f], mem'[cur][f] = mem[cur][f],
         file'[f] = file[f] \/ file'[f] = mem[cur][f]
  PROVE  NoneGone(f)'
BY DEF NoneGone

\* A save without a row that is gone.
LEMMA GoneAppend ==
  ASSUME NEW f \in Files, NoneGone(f), cur' = cur, gone' = gone, file'[f] = file[f],
         queue[cur][f] \in Seq(Entries), NEW rows \in Seq(Rows),
         NEW a \in BOOLEAN, NEW b \in BOOLEAN,
         queue'[cur][f] = Append(queue[cur][f], Entry(rows, a, b)),
         mem'[cur][f] = rows, ToSet(rows) \cap gone = {}
  PROVE  NoneGone(f)'
<1>1. Entry(rows, a, b) \in Entries /\ Entry(rows, a, b).rows = rows BY EntryFacts
<1>2. ToSet(queue'[cur][f]) = ToSet(queue[cur][f]) \cup {Entry(rows, a, b)}
  BY <1>1, AppendFacts
<1>3. QED BY <1>1, <1>2 DEF NoneGone

\* A save that is over.
LEMMA GoneSettles ==
  ASSUME NEW f \in Files, NoneGone(f), cur' = cur, gone' = gone, mem'[cur][f] = mem[cur][f],
         queue[cur][f] \in Seq(Entries), queue[cur][f] # <<>>,
         queue'[cur][f] = Tail(queue[cur][f]),
         file'[f] = file[f] \/ file'[f] = queue[cur][f][1].rows
  PROVE  NoneGone(f)'
<1> DEFINE s == queue[cur][f]
<1>1. 1 \in DOMAIN s BY TailFacts
<1>2. ToSet(Tail(s)) \subseteq ToSet(s)
  <2> SUFFICES ASSUME NEW x \in ToSet(Tail(s)) PROVE x \in ToSet(s) OBVIOUS
  <2>1. s \in Seq(Entries) /\ s # <<>> OBVIOUS
  <2> HIDE DEF s
  <2>2. PICK p \in DOMAIN Tail(s) : x = Tail(s)[p] BY DEF ToSet
  <2>3. p + 1 \in DOMAIN s /\ x = s[p + 1] BY <2>1, <2>2, TailAt
  <2>4. QED BY <2>3 DEF ToSet
<1>3. s[1] \in ToSet(s) BY <1>1 DEF ToSet
<1>4. QED BY <1>2, <1>3 DEF NoneGone

\* A rewind puts no row on the chain but those it keeps and those that are new.
LEMMA GoneRewound ==
  ASSUME TypeOK, NEW f \in Files, NEW rows \in Seq(Rows), NEW force \in BOOLEAN,
         Rewind(cur, f, rows, force), cur' = cur, gone' = gone, UNCHANGED fileVars,
         ToSet(rows) \cap gone = {}, \A g \in Files : NoneGone(g)
  PROVE  \A g \in Files : NoneGone(g)'
<1>1. /\ queue \in Chains /\ mem \in Histories /\ owed \subseteq Rows /\ cur \in Instances
      /\ queue[cur][f] \in Seq(Entries)
  BY StateTypes
<1>2. \A g \in Files : g # f => mem'[cur][g] = mem[cur][g] /\ queue'[cur][g] = queue[cur][g]
  BY <1>1, RewindGrows
<1>3. file' = file BY DEF fileVars
<1>4. \A g \in Files : g # f => NoneGone(g)' BY <1>2, <1>3, GoneSame
<1>5. CASE Refuses(cur, force)
  <2>1. mem' = mem /\ queue' = queue BY <1>5 DEF Refuses, Rewind
  <2>2. QED BY <1>3, <2>1, GoneSame
<1>6. CASE ~Refuses(cur, force)
  <2>1. mem'[cur][f] = rows BY <1>1, <1>6, RewindDone
  <2>2. queue'[cur][f] = Append(queue[cur][f], Entry(rows, force, FALSE))
    <3>1. Enqueue(cur, f, Entry(rows, force, FALSE)) BY <1>6 DEF Rewind, Refuses
    <3>2. QED BY <1>1, <3>1 DEF Enqueue, Chains
  <2>3. FALSE \in BOOLEAN OBVIOUS
  <2>4. file'[f] = file[f] /\ NoneGone(f) BY <1>3
  <2>5. NoneGone(f)' BY <1>1, <2>1, <2>2, <2>3, <2>4, GoneAppend
  <2>6. QED BY <1>4, <2>5
<1>7. QED BY <1>5, <1>6

LEMMA NumbersStep ==
  ASSUME Base, GoneNumbers, [Next]_vars
  PROVE  GoneNumbers'
<1>1. TypeOK /\ OpInv /\ JobInv BY DEF Base
<1>2. next \in Nat /\ \A r \in gone : r \in Nat
  BY <1>1, StateTypes, Constants DEF TypeOK
<1>3. ASSUME gone' = gone, next' \in Nat, next <= next',
             op'.kind = "replace" /\ op'.pc = "ui" =>
               op.kind = "replace" /\ op.pc = "ui" /\ op'.upto = op.upto
      PROVE  GoneNumbers'
  <2>1. \A r \in gone : r < next' BY <1>2, <1>3 DEF GoneNumbers
  <2>2. QED BY <2>1, <1>3 DEF GoneNumbers
<1>4. next <= next /\ next + 1 \in Nat /\ next <= next + 1 BY <1>2
<1>5. ASSUME NEW f \in Files, Push(f) PROVE GoneNumbers'
  <2>1. next' = next + 1 /\ gone' = gone /\ op' = op BY <1>5 DEF Push, opVars
  <2>2. QED BY <2>1, <1>3, <1>4
<1>6. ASSUME NEW i \in Instances, NEW f \in Files,
             SaveBegins(i, f) \/ SaveLands(i, f) \/ SaveFails(i, f)
      PROVE  GoneNumbers'
  <2>1. next' = next /\ gone' = gone
    BY <1>6 DEF SaveBegins, SaveLands, SaveFails, ghostVars
  <2>2. op \in Ops /\ (op' = op \/ op' = [op EXCEPT !.wait = op.wait - 1])
    BY <1>1, <1>6 DEF SaveBegins, SaveLands, SaveFails, Settle, TypeOK
  <2>3. op'.kind = op.kind /\ op'.pc = op.pc /\ op'.upto = op.upto BY <2>2 DEF Ops
  <2>4. QED BY <2>1, <2>3, <1>2, <1>3, <1>4
<1>7. ASSUME NEW n \in Rows, DeleteBegins(n) \/ EditBegins(n) \/ ReplaceBegins(n)
      PROVE  GoneNumbers'
  <2>1. PICK rows \in Seq(Rows), force \in BOOLEAN :
          /\ op'.upto = next' /\ gone' = gone
          /\ op'.kind = "replace" => next' = next + 3
          /\ op'.kind # "replace" => next' = next
    BY <1>1, <1>7, BeginsFacts
  <2>2. CASE op'.kind = "replace"
    <3>1. op'.upto - 1 = next + 2 BY <2>1, <2>2, <1>2
    <3>2. \A r \in gone : r # next + 2 /\ r < next + 3 BY <1>2 DEF GoneNumbers
    <3>3. QED BY <2>1, <2>2, <3>1, <3>2 DEF GoneNumbers
  <2>3. CASE op'.kind # "replace" BY <2>1, <2>3 DEF GoneNumbers
  <2>4. QED BY <2>2, <2>3
<1>8. ASSUME NEW n \in Rows, CheckpointBegins(n) PROVE GoneNumbers'
  <2>1. op'.kind = "checkpoint" /\ next' = next /\ gone' = gone
    BY <1>1, <1>8, CheckpointBeginsFacts
  <2>2. QED BY <2>1 DEF GoneNumbers
<1>9. CASE CheckpointRestored
  <2>1. op.pc = "git" /\ op'.kind = op.kind /\ next' = next /\ gone' = gone
    BY <1>1, <1>9, CheckpointRestoredFacts
  <2>2. op'.kind # "replace" BY <1>1, <2>1 DEF OpInv
  <2>3. QED BY <2>1, <2>2 DEF GoneNumbers
<1>10. CASE ApiRewinds
  <2>1. op'.pc = "api" /\ next' = next /\ gone' = gone BY <1>1, <1>10, ApiRewindsFacts
  <2>2. QED BY <2>1 DEF GoneNumbers
<1>11. CASE RewindReturns
  <2>1. op'.pc = "direct" /\ next' = next /\ \A r \in gone' \ gone : r < next
    BY <1>1, <1>11, RewindReturnsFacts
  <2>2. QED BY <2>1 DEF GoneNumbers
<1>12. CASE HandlerSaves \/ HandlerFails \/ EditStops
  <2>1. next' = next /\ gone' = gone
    BY <1>12 DEF HandlerSaves, HandlerFails, EditStops, ghostVars
  <2>2. op'.pc # "ui"
    BY <1>1, <1>12, HandlerSavesFacts, HandlerFailsFacts, EditStopsFacts, NoOpFacts
  <2>3. QED BY <2>1, <2>2 DEF GoneNumbers
<1>13. ASSUME NEW k \in Jobs, CondenseBegins(k) \/ CondenseChecks(k) \/ CondenseFails(k)
       PROVE  GoneNumbers'
  <2>1. UNCHANGED <<opVars, next, ghostVars>> BY <1>1, <1>13, JobFacts
  <2>2. QED BY <2>1 DEF GoneNumbers, opVars, ghostVars
<1>14. ASSUME NEW k \in Jobs, CondenseCommits(k) PROVE GoneNumbers'
  <2>1. /\ gone' = gone /\ op' = op
        /\ next' = next \/ next' = next + 1
    BY <1>14 DEF CondenseCommits, opVars, ghostVars
  <2>2. QED BY <2>1, <1>2, <1>3, <1>4
<1>15. CASE StopBegins \/ StopSaved \/ StopTimesOut
  <2>1. UNCHANGED <<opVars, next, gone>> BY <1>1, <1>15, StopBeginsFacts, StopEndsFacts
  <2>2. QED BY <2>1 DEF GoneNumbers, opVars
<1>16. CASE Reopen
  <2>1. next' = next /\ gone' = gone /\ (op' = NoOp \/ op' = op)
    BY <1>1, <1>16, ReopenFacts
  <2>2. QED BY <2>1, NoOpFacts DEF GoneNumbers
<1>17. CASE Crash BY <1>1, <1>17, CrashFacts, NoOpFacts DEF GoneNumbers
<1>18. CASE UNCHANGED vars BY <1>18 DEF vars, opVars, ghostVars, GoneNumbers
<1>19. QED
  BY <1>5, <1>6, <1>7, <1>8, <1>9, <1>10, <1>11, <1>12, <1>13, <1>14, <1>15, <1>16,
     <1>17, <1>18
  DEF Next

LEMMA GoneSaved ==
  ASSUME Base, OneInstance, Returns, NEW i \in Instances, NEW f \in Files,
         SaveBegins(i, f) \/ SaveLands(i, f) \/ SaveFails(i, f)
  PROVE  Returns'
<1>1. /\ TypeOK /\ WriterInv /\ queue \in Chains /\ ahead \in [Files -> Nat] /\ op \in Ops
  BY DEF Base, TypeOK
<1>2. /\ queue[i][f] # <<>>
      /\ Settle(i, f) \/ UNCHANGED <<queue, file>>
      /\ file' = file \/ file' = [file EXCEPT ![f] = Head(queue[i][f]).rows]
      /\ UNCHANGED <<cur, mem, stop, gone>> /\ mishaps \subseteq mishaps'
  BY <1>1 DEF SaveBegins, SaveLands, SaveFails, ghostVars, fileVars, WriterInv, None, Instances
<1> SUFFICES ASSUME Calm, Without({"raced", "failed"}), NEW g \in Files
             PROVE  NoneGone(g)'
  BY <1>2 DEF Returns, Calm, Without
<1>3. i = cur BY <1>2, SaverInFront
<1>4. NoneGone(f) /\ NoneGone(g) BY DEF Returns
<1>5. CASE UNCHANGED <<queue, file>> BY <1>2, <1>4, <1>5, GoneSame
<1>6. CASE Settle(i, f)
  <2>1. queue[cur][f] \in Seq(Entries) /\ queue[cur][f] # <<>> BY <1>1, <1>2, <1>3, StateTypes
  <2>2. CASE g = f
    <3>1. queue'[cur][f] = Tail(queue[cur][f]) BY <1>1, <1>2, <1>3, <1>6, SettleFacts
    <3>2. Head(queue[cur][f]) = queue[cur][f][1] BY <2>1, TailFacts
    <3>3. file'[f] = file[f] \/ file'[f] = queue[cur][f][1].rows
      BY <1>1, <1>2, <1>3, <3>2 DEF TypeOK
    <3>4. NoneGone(f)' BY <1>2, <1>4, <2>1, <3>1, <3>3, GoneSettles
    <3>5. QED BY <3>4, <2>2
  <2>3. CASE g # f
    <3>1. queue'[cur][g] = queue[cur][g] BY <1>1, <1>2, <1>3, <1>6, <2>3, SettleFacts
    <3>2. file'[g] = file[g] BY <1>1, <1>2, <2>3 DEF TypeOK
    <3>3. QED BY <1>2, <1>4, <3>1, <3>2, GoneSame
  <2>4. QED BY <2>2, <2>3
<1>7. QED BY <1>2, <1>5, <1>6

LEMMA GoneBegins ==
  ASSUME Base, GoneNumbers, Returns, NEW n \in Rows,
         DeleteBegins(n) \/ EditBegins(n) \/ ReplaceBegins(n)
  PROVE  Returns'
<1>1. TypeOK /\ cur \in Instances /\ "ui" \in Files /\ next \in Nat
  BY StateTypes DEF Base
<1>2. PICK rows \in Seq(Rows), force \in BOOLEAN :
        /\ Rewind(cur, "ui", rows, force)
        /\ ToSet(rows) \subseteq ToSet(mem[cur]["ui"]) \cup {next, next + 1}
        /\ mishaps' = IF stop[cur] = "saving" THEN mishaps \cup {"crossed"} ELSE mishaps
        /\ UNCHANGED <<fileVars, cur, gone>>
  BY <1>1, BeginsFacts
<1> SUFFICES ASSUME Calm, Without({"raced", "failed"})
             PROVE  \A g \in Files : NoneGone(g)'
  BY <1>2 DEF Returns, Calm, Without
<1>3. \A g \in Files : NoneGone(g) BY DEF Returns
<1>4. next \notin gone /\ next + 1 \notin gone
  <2>1. ~(next < next) /\ ~(next + 1 < next) BY <1>1
  <2>2. QED BY <2>1 DEF GoneNumbers
<1>5. ToSet(rows) \cap gone = {} BY <1>1, <1>2, <1>3, <1>4 DEF NoneGone
<1>6. QED BY <1>1, <1>2, <1>3, <1>5, GoneRewound

LEMMA GoneRewinds ==
  ASSUME Base, OneInstance, NoneStale, GoneNumbers, Returns,
         ApiRewinds \/ RewindReturns \/ HandlerSaves
  PROVE  Returns'
<1>1. TypeOK /\ OpInv /\ cur \in Instances /\ "ui" \in Files /\ "api" \in Files
  BY StateTypes DEF Base
<1>2. /\ op.pc \in {"ui", "api", "direct", "lost"}
      /\ cur' = cur /\ stop' = stop /\ mishaps' = mishaps
  BY <1>1 DEF ApiRewinds, RewindReturns, HandlerSaves, stopVars
<1> SUFFICES ASSUME Calm, Without({"raced", "failed"})
             PROVE  \A g \in Files : NoneGone(g)'
  BY <1>2 DEF Returns, Calm, Without
<1>3. \A g \in Files : NoneGone(g) BY DEF Returns
<1>4. op.inst = cur /\ stop[cur] = "no" BY <1>2 DEF OneInstance
<1>5. CASE ApiRewinds
  <2>1. PICK rows \in Seq(Rows), force \in BOOLEAN :
          /\ op.pc = "ui"
          /\ op.kind # "replace" => ToSet(rows) \subseteq ToSet(mem[op.inst]["api"])
          /\ op.kind = "replace" =>
               ToSet(rows) \subseteq ToSet(mem[op.inst]["api"]) \cup {op.upto - 1}
          /\ Rewind(op.inst, "api", rows, force) \/ UNCHANGED <<memVars, owed>>
          /\ UNCHANGED <<fileVars, gone>>
    BY <1>1, <1>5, ApiRewindsFacts
  <2>2. CASE UNCHANGED <<memVars, owed>>
    BY <1>2, <1>3, <2>1, <2>2, GoneSame DEF memVars, fileVars
  <2>3. CASE Rewind(op.inst, "api", rows, force)
    <3>1. ToSet(mem[cur]["api"]) \cap gone = {} BY <1>1, <1>3 DEF NoneGone
    <3>2. op.kind = "replace" => op.upto - 1 \notin gone BY <2>1 DEF GoneNumbers
    <3>3. ToSet(rows) \cap gone = {} BY <1>4, <2>1, <3>1, <3>2
    <3>4. Rewind(cur, "api", rows, force) BY <1>4, <2>3
    <3>5. QED BY <1>1, <1>2, <1>3, <2>1, <3>3, <3>4, GoneRewound
  <2>4. QED BY <2>1, <2>2, <2>3
<1>6. CASE RewindReturns
  <2>1. /\ op.pc = "api" /\ op.wait = 0
        /\ \A r \in gone' \ gone : r \notin InMemory(op.inst)
        /\ UNCHANGED <<fileVars, memVars>>
    BY <1>1, <1>6, RewindReturnsFacts
  <2> SUFFICES ASSUME NEW f \in Files PROVE NoneGone(f)' OBVIOUS
  <2>2. Clean(f) /\ NoneGone(f) /\ Waits(f) = 0 BY <1>3, <1>4, <2>1 DEF NoneStale, Waits
  <2>3. queue[cur][f] \in Seq(Entries) BY <1>1, StateTypes
  <2>4. \A p \in DOMAIN queue[cur][f] : p >= 0
    <3>1. DOMAIN queue[cur][f] = 1..Len(queue[cur][f]) /\ Len(queue[cur][f]) \in Nat
      BY <2>3, SetOfSeq
    <3>2. QED BY <3>1
  <2>5. \A e \in ToSet(queue[cur][f]) : ToSet(e.rows) \subseteq ToSet(mem[cur][f])
    BY <2>2, <2>4 DEF Clean, ToSet
  <2>6. ToSet(file[f]) \subseteq ToSet(mem[cur][f]) BY <2>2 DEF Clean
  <2>7. ToSet(mem[cur][f]) \cap gone' = {}
    <3>1. ToSet(mem[cur][f]) \subseteq InMemory(cur) BY Constants DEF InMemory
    <3>2. ToSet(mem[cur][f]) \cap gone = {} BY <2>2 DEF NoneGone
    <3>3. QED BY <1>4, <2>1, <3>1, <3>2
  <2>8. QED BY <1>2, <2>1, <2>5, <2>6, <2>7 DEF NoneGone, fileVars, memVars
<1>7. CASE HandlerSaves
  <2>1. /\ file'["ui"] = mem[cur]["ui"] /\ file'["api"] = file["api"]
        /\ UNCHANGED <<mem, queue, gone>>
    BY <1>1, <1>4, <1>7, HandlerSavesFacts
  <2>2. QED BY <1>1, <1>2, <1>3, <2>1, GoneSame, Constants
<1>8. QED BY <1>5, <1>6, <1>7

\* A stop saves the ui history that is in memory.
LEMMA GoneStops ==
  ASSUME TypeOK, BeginStop, cur' = cur, gone' = gone, UNCHANGED fileVars,
         \A g \in Files : NoneGone(g)
  PROVE  \A g \in Files : NoneGone(g)'
<1>1. /\ cur \in Instances /\ "ui" \in Files /\ mem[cur]["ui"] \in Seq(Rows)
      /\ queue[cur]["ui"] \in Seq(Entries)
  BY StateTypes
<1>2. mem' = mem /\ queue'[cur]["api"] = queue[cur]["api"] BY BeginStopFacts
<1>3. file' = file BY DEF fileVars
<1>4. "api" \in Files => NoneGone("api")' BY <1>2, <1>3, GoneSame
<1>5. CASE frozen[cur]
  <2>1. queue' = queue BY <1>5, BeginStopFacts
  <2>2. QED BY <1>2, <1>3, <2>1, GoneSame
<1>6. CASE ~frozen[cur]
  <2>1. queue'[cur]["ui"] = Append(queue[cur]["ui"], Entry(mem[cur]["ui"], FALSE, FALSE))
    BY <1>6, BeginStopFacts
  <2>2. ToSet(mem[cur]["ui"]) \cap gone = {} BY <1>1 DEF NoneGone
  <2>3. FALSE \in BOOLEAN OBVIOUS
  <2>4. NoneGone("ui") /\ mem'[cur]["ui"] = mem[cur]["ui"] /\ file'["ui"] = file["ui"]
    BY <1>1, <1>2, <1>3
  <2>5. NoneGone("ui")' BY <1>1, <2>1, <2>2, <2>3, <2>4, GoneAppend
  <2>6. QED BY <1>4, <2>5 DEF Files
<1>7. QED BY <1>5, <1>6

\* A row that is appended, or a summary, has a number of its own.
LEMMA GonePushes ==
  ASSUME Base, GoneNumbers, Returns, NEW f \in Files, Push(f)
  PROVE  Returns'
<1>1. TypeOK /\ cur \in Instances /\ next \in Nat BY StateTypes DEF Base
<1>2. /\ TypeOK' /\ ToSet(mem'[cur][f]) = ToSet(mem[cur][f]) \cup {next}
      /\ queue'[cur][f] = Append(queue[cur][f], Entry(mem'[cur][f], FALSE, TRUE))
      /\ \A g \in Files : g # f => mem'[cur][g] = mem[cur][g] /\ queue'[cur][g] = queue[cur][g]
      /\ mishaps \subseteq mishaps'
      /\ UNCHANGED <<fileVars, cur, gone>>
  BY <1>1, PushFacts
<1> SUFFICES ASSUME Calm, Without({"raced", "failed"}), NEW g \in Files
             PROVE  NoneGone(g)'
  BY <1>2 DEF Returns, Calm, Without
<1>3. NoneGone(f) /\ NoneGone(g) BY DEF Returns
<1>4. file' = file BY <1>2 DEF fileVars
<1>5. CASE g = f
  <2> DEFINE rows == mem'[cur][f]
  <2>1. rows \in Seq(Rows) BY <1>1, <1>2 DEF TypeOK, Histories
  <2>2. next \notin gone
    <3>1. ~(next < next) BY <1>1
    <3>2. QED BY <3>1 DEF GoneNumbers
  <2>3. ToSet(rows) \cap gone = {} BY <1>2, <1>3, <2>2 DEF NoneGone
  <2>4. /\ mem'[cur][f] = rows /\ queue[cur][f] \in Seq(Entries)
        /\ queue'[cur][f] = Append(queue[cur][f], Entry(rows, FALSE, TRUE))
    BY <1>1, <1>2, StateTypes
  <2>5. FALSE \in BOOLEAN /\ TRUE \in BOOLEAN OBVIOUS
  <2>6. cur' = cur /\ gone' = gone /\ file'[f] = file[f] BY <1>2, <1>4
  <2> HIDE DEF rows
  <2>7. NoneGone(f)' BY <1>3, <2>1, <2>3, <2>4, <2>5, <2>6, GoneAppend
  <2>8. QED BY <1>5, <2>7
<1>6. CASE g # f BY <1>2, <1>3, <1>4, <1>6, GoneSame
<1>7. QED BY <1>5, <1>6

LEMMA GoneCommits ==
  ASSUME Base, GoneNumbers, Returns, NEW k \in Jobs, CondenseCommits(k)
  PROVE  Returns'
<1>1. /\ TypeOK /\ JobInv /\ cur \in Instances /\ next \in Nat
      /\ "ui" \in Files /\ "api" \in Files /\ queue[cur]["api"] \in Seq(Entries)
  BY StateTypes DEF Base
<1>2. /\ job[k].pc = "checked"
      /\ frozen[cur] => UNCHANGED <<memVars, ghostVars>>
      /\ ~frozen[cur] =>
           \E rows \in Seq(Rows) :
             /\ mem'[cur]["api"] = rows
             /\ ToSet(rows) = ToSet(job[k].res) \cup {next}
             /\ queue'[cur]["api"] = Append(queue[cur]["api"], Entry(rows, FALSE, FALSE))
             /\ mem'[cur]["ui"] = mem[cur]["ui"] /\ queue'[cur]["ui"] = queue[cur]["ui"]
             /\ job[k].rev = rev \/ "raced" \in mishaps'
             /\ mishaps \subseteq mishaps' /\ gone' = gone
      /\ UNCHANGED <<fileVars, cur>>
  BY <1>1, CommitFacts
<1>3. file' = file BY <1>2 DEF fileVars
<1>4. CASE frozen[cur]
  <2>1. UNCHANGED <<mem, queue, gone, mishaps>> BY <1>2, <1>4 DEF memVars, ghostVars
  <2>2. \A g \in Files : NoneGone(g) => NoneGone(g)' BY <1>2, <1>3, <2>1, GoneSame
  <2>3. QED BY <2>1, <2>2 DEF Returns, Calm, Without
<1>5. CASE ~frozen[cur]
  <2>1. PICK rows \in Seq(Rows) :
             /\ mem'[cur]["api"] = rows
             /\ ToSet(rows) = ToSet(job[k].res) \cup {next}
             /\ queue'[cur]["api"] = Append(queue[cur]["api"], Entry(rows, FALSE, FALSE))
             /\ mem'[cur]["ui"] = mem[cur]["ui"] /\ queue'[cur]["ui"] = queue[cur]["ui"]
             /\ job[k].rev = rev \/ "raced" \in mishaps'
             /\ mishaps \subseteq mishaps' /\ gone' = gone
    BY <1>2, <1>5
  <2> SUFFICES ASSUME Calm, Without({"raced", "failed"}), Without({"raced"})'
               PROVE  NoneGone("ui")' /\ NoneGone("api")'
    BY <2>1 DEF Returns, Calm, Without, Files
  <2>2. NoneGone("ui") /\ NoneGone("api") BY <1>1 DEF Returns
  <2>3. job[k].res = mem[cur]["api"] BY <1>1, <1>2, <1>5, <2>1 DEF JobInv, Without
  <2>4. next \notin gone
    <3>1. ~(next < next) BY <1>1
    <3>2. QED BY <3>1 DEF GoneNumbers
  <2>5. ToSet(rows) \cap gone = {} BY <2>1, <2>2, <2>3, <2>4 DEF NoneGone
  <2>6. FALSE \in BOOLEAN OBVIOUS
  <2>7. cur' = cur /\ file'["api"] = file["api"] /\ file'["ui"] = file["ui"] BY <1>2, <1>3
  <2>8. NoneGone("api")' BY <1>1, <2>1, <2>2, <2>5, <2>6, <2>7, GoneAppend
  <2>9. NoneGone("ui")' BY <1>1, <2>1, <2>2, <2>7, GoneSame
  <2>10. QED BY <2>8, <2>9
<1>6. QED BY <1>4, <1>5

LEMMA GoneStep ==
  ASSUME Base, OneInstance, NoneStale, GoneNumbers, Returns, [Next]_vars
  PROVE  Returns'
<1>1. TypeOK /\ OpInv /\ LaterInv /\ cur \in Instances BY StateTypes DEF Base
<1>2. ASSUME NEW f \in Files, Push(f) PROVE Returns' BY <1>2, GonePushes
<1>3. ASSUME NEW i \in Instances, NEW f \in Files,
             SaveBegins(i, f) \/ SaveLands(i, f) \/ SaveFails(i, f)
      PROVE  Returns'
  BY <1>3, GoneSaved
<1>4. ASSUME NEW n \in Rows, DeleteBegins(n) \/ EditBegins(n) \/ ReplaceBegins(n)
      PROVE  Returns'
  BY <1>4, GoneBegins
<1>5. ASSUME NEW n \in Rows, CheckpointBegins(n) PROVE Returns'
  BY <1>1, <1>5, CheckpointBeginsFacts DEF Returns, Calm, Without
<1>6. CASE CheckpointRestored
  <2>1. op.pc = "git" /\ mishaps' = mishaps BY <1>1, <1>6, CheckpointRestoredFacts
  <2>2. ~Calm BY <1>1, <2>1 DEF OpInv, OneInstance
  <2>3. QED BY <2>1, <2>2 DEF Returns, Calm, Without
<1>7. CASE ApiRewinds \/ RewindReturns \/ HandlerSaves BY <1>7, GoneRewinds
<1>8. CASE HandlerFails BY <1>1, <1>8, HandlerFailsFacts DEF Returns, Without
<1>9. CASE EditStops
  <2>1. /\ stop[cur] = "no" => BeginStop
        /\ stop[cur] # "no" => queue' = queue
        /\ UNCHANGED <<fileVars, cur, mem, gone, mishaps>>
    BY <1>1, <1>9, EditStopsFacts DEF ghostVars
  <2> SUFFICES ASSUME \A g \in Files : NoneGone(g) PROVE \A g \in Files : NoneGone(g)'
    BY <2>1 DEF Returns, Calm, Without
  <2>2. stop[cur] = "no" => \A g \in Files : NoneGone(g)' BY <1>1, <2>1, GoneStops
  <2>3. stop[cur] # "no" => \A g \in Files : NoneGone(g)' BY <2>1, GoneSame DEF fileVars
  <2>4. QED BY <2>2, <2>3
<1>10. ASSUME NEW k \in Jobs, CondenseBegins(k) \/ CondenseChecks(k) \/ CondenseFails(k)
       PROVE  Returns'
  <2>1. UNCHANGED <<fileVars, cur, memVars, ghostVars>> BY <1>1, <1>10, JobFacts
  <2>2. \A g \in Files : NoneGone(g) => NoneGone(g)'
    BY <2>1, GoneSame DEF fileVars, memVars, ghostVars
  <2>3. QED BY <2>1, <2>2 DEF Returns, Calm, Without, ghostVars
<1>11. ASSUME NEW k \in Jobs, CondenseCommits(k) PROVE Returns' BY <1>11, GoneCommits
<1>12. CASE StopBegins
  <2>1. BeginStop /\ mishaps \subseteq mishaps' /\ UNCHANGED <<fileVars, cur, gone>>
    BY <1>1, <1>12, StopBeginsFacts
  <2>2. (\A g \in Files : NoneGone(g)) => \A g \in Files : NoneGone(g)'
    BY <1>1, <2>1, GoneStops
  <2>3. QED BY <2>1, <2>2 DEF Returns, Calm, Without
<1>13. CASE StopSaved \/ StopTimesOut
  <2>1. EndStop /\ mishaps \subseteq mishaps' /\ UNCHANGED <<fileVars, cur, queue, gone>>
    BY <1>1, <1>13, StopEndsFacts
  <2>2. \A g \in Files : mem'[cur][g] = <<>> BY <1>1, <2>1, EndStopFacts, EmptyFacts
  <2>3. ToSet(<<>>) = {} BY DEF ToSet
  <2>4. \A g \in Files : NoneGone(g) => NoneGone(g)'
    BY <2>1, <2>2, <2>3 DEF NoneGone, fileVars
  <2>5. QED BY <2>1, <2>4 DEF Returns, Calm, Without
<1>14. CASE Reopen
  <2>1. /\ cur' = cur + 1 /\ cur' \in Instances /\ queue' = queue /\ gone' = gone
        /\ \A f \in Files : mem'[cur'][f] = Read(f)
        /\ mishaps \subseteq mishaps' /\ UNCHANGED fileVars
    BY <1>1, <1>14, ReopenFacts
  <2> SUFFICES ASSUME NEW f \in Files, NoneGone(f) PROVE NoneGone(f)'
    BY <2>1 DEF Returns, Calm, Without
  <2>2. cur' > cur BY <1>1, <2>1, Constants
  <2>3. queue[cur'] = Empty BY <1>1, <2>1, <2>2 DEF LaterInv
  <2>4. queue'[cur'][f] = <<>> BY <2>1, <2>3, EmptyFacts
  <2>5. ToSet(<<>>) = {} BY DEF ToSet
  <2>6. ToSet(Read(f)) \subseteq ToSet(file[f]) BY <2>5 DEF Read
  <2>7. ToSet(mem'[cur'][f]) \cap gone = {} BY <2>1, <2>6 DEF NoneGone
  <2>8. QED BY <2>1, <2>4, <2>5, <2>7 DEF NoneGone, fileVars
<1>15. CASE Crash
  <2>1. /\ \A f \in Files : file'[f] = Read(f)
        /\ \A f \in Files : mem'[cur][f] = <<>> /\ queue'[cur][f] = <<>>
        /\ mishaps \subseteq mishaps' /\ UNCHANGED <<cur, gone>>
    BY <1>1, <1>15, CrashFacts, EmptyFacts
  <2>2. ToSet(<<>>) = {} BY DEF ToSet
  <2>3. \A f \in Files : ToSet(Read(f)) \subseteq ToSet(file[f]) BY <2>2 DEF Read
  <2>4. \A f \in Files : NoneGone(f) => NoneGone(f)'
    BY <2>1, <2>2, <2>3 DEF NoneGone
  <2>5. QED BY <2>1, <2>4 DEF Returns, Calm, Without
<1>16. CASE UNCHANGED vars
  <2>1. UNCHANGED <<fileVars, cur, memVars, ghostVars>> BY <1>16 DEF vars
  <2>2. \A g \in Files : NoneGone(g) => NoneGone(g)'
    BY <2>1, GoneSame DEF fileVars, memVars, ghostVars
  <2>3. QED BY <2>1, <2>2 DEF Returns, Calm, Without, ghostVars
<1>17. QED
  BY <1>2, <1>3, <1>4, <1>5, <1>6, <1>7, <1>8, <1>9, <1>10, <1>11, <1>12, <1>13, <1>14,
     <1>15, <1>16
  DEF Next

LEMMA GoneHolds == Spec => [](GoneNumbers /\ Returns)
<1>1. Init => GoneNumbers /\ Returns BY NoOpFacts DEF Init, GoneNumbers, Returns, NoneGone
<1>2. Base /\ OneInstance /\ NoneStale /\ GoneNumbers /\ Returns /\ [Next]_vars
        => GoneNumbers' /\ Returns'
  BY NumbersStep, GoneStep
<1>3. QED BY <1>1, <1>2, BaseHolds, OneInstanceHolds, NoneStaleHolds, PTL DEF Spec

\* GoneStaysGone for every conversation: what a rewind took out is in no save still to
\* land, in neither file, and in no history a condensing is about to commit.
THEOREM GoneForGood == Spec => []GoneStaysGone
<1>1. Returns => GoneStaysGone
  BY Constants DEF Returns, GoneStaysGone, NoneGone, InMemory, Calm, Without
<1>2. QED BY <1>1, GoneHolds, PTL
-----------------------------------------------------------------------------
(***************************************************************************)
(* What a stop leaves behind is in the files                               *)
(***************************************************************************)

\* The saves of a chain from the place w on have the rows R, and so has the file if w is 0:
\* nobody waits for a save of them.
Covers(chain, rows, w, R) ==
  /\ \A p \in DOMAIN chain : p >= w => R \subseteq ToSet(chain[p].rows)
  /\ w = 0 => R \subseteq ToSet(rows)

LEMMA CoversAppend ==
  ASSUME NEW s \in Seq(Entries), NEW rows \in Seq(Rows), NEW a \in BOOLEAN, NEW b \in BOOLEAN,
         NEW d, NEW w, NEW R, Covers(s, d, w, R), R \subseteq ToSet(rows)
  PROVE  Covers(Append(s, Entry(rows, a, b)), d, w, R)
<1> DEFINE e == Entry(rows, a, b)
           t == Append(s, e)
<1>1. e \in Entries /\ e.rows = rows BY EntryFacts
<1> HIDE DEF e
<1>2. ASSUME NEW p \in DOMAIN t, p >= w PROVE R \subseteq ToSet(t[p].rows)
  <2>1. p \in DOMAIN s => R \subseteq ToSet(s[p].rows) BY <1>2 DEF Covers
  <2>2. \/ p \in DOMAIN s /\ t[p] = s[p]
        \/ t[p] = e
    BY <1>1, <1>2, AppendedAt
  <2>3. QED BY <1>1, <2>1, <2>2
<1> HIDE DEF t
<1>3. Covers(t, d, w, R) BY <1>2 DEF Covers
<1>4. QED BY <1>3 DEF t, e

LEMMA CoversTail ==
  ASSUME NEW s \in Seq(Entries), s # <<>>, NEW d, NEW c, NEW w \in Nat, NEW R,
         Covers(s, d, w, R), c = s[1].rows \/ (c = d /\ w # 1)
  PROVE  Covers(Tail(s), c, IF w > 0 THEN w - 1 ELSE 0, R)
<1> DEFINE v == IF w > 0 THEN w - 1 ELSE 0
<1>1. ASSUME NEW p \in DOMAIN Tail(s), p >= v PROVE R \subseteq ToSet(Tail(s)[p].rows)
  <2>1. p \in Nat /\ p + 1 \in DOMAIN s /\ Tail(s)[p] = s[p + 1] BY <1>1, TailAt
  <2>2. p + 1 >= w BY <1>1, <2>1
  <2>3. QED BY <2>1, <2>2 DEF Covers
<1>2. ASSUME v = 0 PROVE R \subseteq ToSet(c)
  <2>1. w = 0 \/ w = 1 BY <1>2
  <2>2. CASE c = s[1].rows
    <3>1. 1 \in DOMAIN s /\ 1 >= w BY <2>1, TailFacts
    <3>2. QED BY <3>1, <2>2 DEF Covers
  <2>3. CASE c = d /\ w # 1 BY <2>1, <2>3 DEF Covers
  <2>4. QED BY <2>2, <2>3
<1> HIDE DEF v
<1>3. Covers(Tail(s), c, v, R) BY <1>1, <1>2 DEF Covers
<1>4. QED BY <1>3 DEF v

\* The last save of a chain is all there is of it from its place on.
LEMMA CoversLast ==
  ASSUME NEW s \in Seq(Entries), NEW d, NEW w \in Nat, w > 0, w = Len(s), NEW R,
         R \subseteq ToSet(s[w].rows)
  PROVE  Covers(s, d, w, R)
<1>1. DOMAIN s = 1..w BY SetOfSeq
<1>2. \A p \in 1..w : p >= w => p = w OBVIOUS
<1>3. QED BY <1>1, <1>2 DEF Covers

LEMMA MishapsGrow == ASSUME [Next]_vars PROVE mishaps \subseteq mishaps'
<1>1. CASE \E f \in Files : Push(f) BY <1>1 DEF Push
<1>2. CASE \E i \in Instances, f \in Files : SaveBegins(i, f) \/ SaveLands(i, f) \/ SaveFails(i, f)
  BY <1>2 DEF SaveBegins, SaveLands, SaveFails, ghostVars
<1>3. CASE \E n \in Rows : DeleteBegins(n) \/ EditBegins(n) \/ ReplaceBegins(n)
                             \/ CheckpointBegins(n)
  BY <1>3 DEF DeleteBegins, EditBegins, ReplaceBegins, CheckpointBegins, Begun
<1>4. CASE CheckpointRestored \/ ApiRewinds \/ RewindReturns \/ HandlerSaves \/ HandlerFails
             \/ EditStops
  BY <1>4
  DEF CheckpointRestored, ApiRewinds, RewindReturns, HandlerSaves, HandlerFails, EditStops,
      ghostVars
<1>5. CASE \E k \in Jobs : CondenseBegins(k) \/ CondenseChecks(k) \/ CondenseFails(k)
                             \/ CondenseCommits(k)
  BY <1>5 DEF CondenseBegins, CondenseChecks, CondenseFails, CondenseCommits, ghostVars
<1>6. CASE StopBegins \/ StopSaved \/ StopTimesOut \/ Reopen \/ Crash
  BY <1>6 DEF StopBegins, StopSaved, StopTimesOut, Reopen, Crash, ghostVars
<1>7. CASE UNCHANGED vars BY <1>7 DEF vars, ghostVars
<1>8. QED BY <1>1, <1>2, <1>3, <1>4, <1>5, <1>6, <1>7 DEF Next

\* A write that begins, is refused or lands while nothing has gone wrong: it is of the
\* instance in front, and the save that a rewind waits for is not the one refused.
LEMMA QuietSaves ==
  ASSUME Base, OneInstance, AwaitedForced, mishaps = {}, NEW i \in Instances, NEW f \in Files,
         SaveBegins(i, f) \/ SaveLands(i, f)
  PROVE  /\ UNCHANGED <<cur, mem, guardVars, stop, next, ghostVars>>
         /\ op'.pc = op.pc /\ op'.kind = op.kind /\ op'.inst = op.inst /\ op'.upto = op.upto
         /\ \A g \in Files :
              \/ /\ queue'[cur][g] = queue[cur][g] /\ file'[g] = file[g]
                 /\ Waits(g)' = Waits(g) /\ ahead'[g] = ahead[g]
              \/ /\ queue[cur][g] # <<>> /\ queue'[cur][g] = Tail(queue[cur][g])
                 /\ Waits(g)' = (IF Waits(g) > 0 THEN Waits(g) - 1 ELSE 0)
                 /\ ahead'[g] = IF ahead[g] > 0 THEN ahead[g] - 1 ELSE ahead[g]
                 /\ \/ file'[g] = queue[cur][g][1].rows
                    \/ file'[g] = file[g] /\ Waits(g) # 1
<1>1. /\ TypeOK /\ WriterInv /\ queue \in Chains /\ ahead \in [Files -> Nat] /\ op \in Ops
      /\ op.wait \in Nat /\ cur \in Instances
  BY StateTypes DEF Base, TypeOK
<1>2. /\ queue[i][f] # <<>>
      /\ Settle(i, f) \/ UNCHANGED <<queue, op, ahead>>
      /\ UNCHANGED <<cur, mem, guardVars, stop, next, ghostVars>>
  BY <1>1 DEF SaveBegins, SaveLands, WriterInv, None, Instances
<1>3. Calm BY DEF Calm, Without
<1>4. i = cur BY <1>2, <1>3, SaverInFront
<1>5. op.pc \in Files => op.inst = cur BY <1>3 DEF OneInstance, Files
<1>6. \/ Settle(cur, f) /\ file' = file /\ (frozen[cur] /\ ~Head(queue[cur][f]).forced)
      \/ Settle(cur, f) /\ file' = [file EXCEPT ![f] = Head(queue[cur][f]).rows]
      \/ UNCHANGED <<file, queue, op, ahead>>
  BY <1>4 DEF SaveBegins, SaveLands
<1>7. queue[cur][f] \in Seq(Entries) /\ queue[cur][f] # <<>> BY <1>1, <1>2, <1>4, StateTypes
<1>8. Head(queue[cur][f]) = queue[cur][f][1] BY <1>7, TailFacts
<1>9. CASE UNCHANGED <<file, queue, op, ahead>>
  <2>1. \A g \in Files : Waits(g)' = Waits(g) BY <1>9 DEF Waits
  <2>2. QED BY <1>2, <1>9, <2>1
<1>10. CASE /\ Settle(cur, f)
            /\ \/ file' = [file EXCEPT ![f] = Head(queue[cur][f]).rows]
               \/ file' = file /\ frozen[cur] /\ ~Head(queue[cur][f]).forced
  <2>1. /\ queue'[cur][f] = Tail(queue[cur][f])
        /\ op'.pc = op.pc /\ op'.kind = op.kind /\ op'.inst = op.inst /\ op'.upto = op.upto
        /\ op'.wait = IF op.inst = cur /\ op.pc = f /\ op.wait > 0 THEN op.wait - 1 ELSE op.wait
        /\ ahead'[f] = IF ahead[f] > 0 THEN ahead[f] - 1 ELSE ahead[f]
    BY <1>1, <1>7, <1>10, SettleFacts
  <2>2. \A g \in Files : g # f => queue'[cur][g] = queue[cur][g] /\ ahead'[g] = ahead[g]
    BY <1>1, <1>7, <1>10, SettleFacts
  <2>3. Waits(f)' = IF Waits(f) > 0 THEN Waits(f) - 1 ELSE 0
    BY <1>1, <1>5, <2>1 DEF Waits
  <2>4. \A g \in Files : g # f => Waits(g)' = Waits(g) BY <2>1 DEF Waits
  <2>5. \A g \in Files : g # f => file'[g] = file[g] BY <1>1, <1>10 DEF TypeOK
  <2>6. \/ file'[f] = queue[cur][f][1].rows
        \/ file'[f] = file[f] /\ Waits(f) # 1
    <3>1. CASE file' = [file EXCEPT ![f] = Head(queue[cur][f]).rows]
      BY <1>1, <1>8, <3>1 DEF TypeOK
    <3>2. CASE file' = file /\ frozen[cur] /\ ~Head(queue[cur][f]).forced
      <4>1. Waits(f) = 1 => queue[cur][f][1].forced BY <1>3, <3>2 DEF Waits, AwaitedForced
      <4>2. QED BY <3>2, <4>1, <1>8
    <3>3. QED BY <1>10, <3>1, <3>2
  <2>7. ASSUME NEW g \in Files
        PROVE  \/ /\ queue'[cur][g] = queue[cur][g] /\ file'[g] = file[g]
                  /\ Waits(g)' = Waits(g) /\ ahead'[g] = ahead[g]
               \/ /\ queue[cur][g] # <<>> /\ queue'[cur][g] = Tail(queue[cur][g])
                  /\ Waits(g)' = (IF Waits(g) > 0 THEN Waits(g) - 1 ELSE 0)
                  /\ ahead'[g] = IF ahead[g] > 0 THEN ahead[g] - 1 ELSE ahead[g]
                  /\ \/ file'[g] = queue[cur][g][1].rows
                     \/ file'[g] = file[g] /\ Waits(g) # 1
    <3>1. CASE g = f BY <3>1, <1>7, <2>1, <2>3, <2>6
    <3>2. CASE g # f BY <3>2, <2>2, <2>4, <2>5
    <3>3. QED BY <3>1, <3>2
  <2>8. QED BY <1>2, <2>1, <2>7
<1>11. QED BY <1>6, <1>9, <1>10

\* Such a write leaves covered what was covered.
LEMMA CoversSaved ==
  ASSUME Base, OneInstance, AwaitedForced, mishaps = {}, NEW i \in Instances, NEW f \in Files,
         SaveBegins(i, f) \/ SaveLands(i, f), NEW g \in Files, NEW R
  PROVE  /\ Covers(queue[cur][g], file[g], Waits(g), R)
              => Covers(queue'[cur][g], file'[g], Waits(g)', R)
         /\ Covers(queue[cur][g], file[g], 0, R) => Covers(queue'[cur][g], file'[g], 0, R)
<1>1. queue[cur][g] \in Seq(Entries) /\ Waits(g) \in Nat
  BY StateTypes DEF Base, Waits
<1>2. \/ /\ queue'[cur][g] = queue[cur][g] /\ file'[g] = file[g]
         /\ Waits(g)' = Waits(g)
      \/ /\ queue[cur][g] # <<>> /\ queue'[cur][g] = Tail(queue[cur][g])
         /\ Waits(g)' = (IF Waits(g) > 0 THEN Waits(g) - 1 ELSE 0)
         /\ \/ file'[g] = queue[cur][g][1].rows
            \/ file'[g] = file[g] /\ Waits(g) # 1
  BY QuietSaves
<1>3. CASE queue'[cur][g] = queue[cur][g] /\ file'[g] = file[g] /\ Waits(g)' = Waits(g)
  BY <1>3
<1>4. CASE /\ queue[cur][g] # <<>> /\ queue'[cur][g] = Tail(queue[cur][g])
           /\ Waits(g)' = (IF Waits(g) > 0 THEN Waits(g) - 1 ELSE 0)
           /\ \/ file'[g] = queue[cur][g][1].rows
              \/ file'[g] = file[g] /\ Waits(g) # 1
  <2>1. ASSUME Covers(queue[cur][g], file[g], Waits(g), R)
        PROVE  Covers(queue'[cur][g], file'[g], Waits(g)', R)
    BY <1>1, <1>4, <2>1, CoversTail
  <2>2. ASSUME Covers(queue[cur][g], file[g], 0, R)
        PROVE  Covers(queue'[cur][g], file'[g], 0, R)
    <3>1. 0 \in Nat /\ 0 # 1 /\ (IF 0 > 0 THEN 0 - 1 ELSE 0) = 0 OBVIOUS
    <3>2. Covers(Tail(queue[cur][g]), file'[g], IF 0 > 0 THEN 0 - 1 ELSE 0, R)
      BY <1>1, <1>4, <2>2, <3>1, CoversTail
    <3>3. QED BY <1>4, <3>1, <3>2
  <2>3. QED BY <2>1, <2>2
<1>5. QED BY <1>2, <1>3, <1>4
\* The rows of a rewound history that a forced rewind must have saved: all of an edited
\* branch, and of an edited answer those that were there when it began.
RewoundRows(f) == {r \in ToSet(mem[cur][f]) : op.kind = "edit" \/ r < op.upto}

\* A forced rewind has saved them, or has the save of them under way.
RewindSaved ==
  mishaps = {} /\ op.kind \in {"edit", "replace"} /\ op.pc # "none" =>
    /\ op.kind = "edit" => frozen[cur]
    /\ \A f \in Files :
         (f = "ui" \/ op.pc # "ui") =>
            Covers(queue[cur][f], file[f], Waits(f), RewoundRows(f))

\* A step that leaves one history of the rewind as it was.
LEMMA RewoundSame ==
  ASSUME NEW f \in Files, Covers(queue[cur][f], file[f], Waits(f), RewoundRows(f)), cur' = cur,
         queue'[cur][f] = queue[cur][f], mem'[cur][f] = mem[cur][f], Waits(f)' = Waits(f),
         op'.kind = op.kind, op'.upto = op.upto, file'[f] = file[f] \/ file'[f] = mem[cur][f]
  PROVE  Covers(queue[cur][f], file[f], Waits(f), RewoundRows(f))'
<1>1. RewoundRows(f)' = RewoundRows(f) BY DEF RewoundRows
<1>2. RewoundRows(f) \subseteq ToSet(mem[cur][f]) BY DEF RewoundRows
<1>3. QED BY <1>1, <1>2 DEF Covers

\* The save of a forced rewind is the one it waits for.
LEMMA RewoundLast ==
  ASSUME TypeOK, NEW f \in Files, NEW rows \in Seq(Rows), NEW force \in BOOLEAN,
         Rewind(cur, f, rows, force), ~Refuses(cur, force), cur' = cur,
         op'.pc = f, op'.wait = Wait(cur, f)
  PROVE  Covers(queue[cur][f], file[f], Waits(f), RewoundRows(f))'
<1> DEFINE t == queue'[cur][f]
           w == Wait(cur, f)
<1>1. t[w].rows = rows /\ mem'[cur][f] = rows /\ w = Len(t) /\ w \in Nat /\ w > 0
  BY RewindAwaits
<1>2. t \in Seq(Entries)
  <2>1. queue \in Chains /\ mem \in Histories /\ owed \subseteq Rows /\ cur \in Instances
    BY StateTypes
  <2>2. queue' \in Chains BY <2>1, RewindFacts
  <2>3. QED BY <2>1, <2>2 DEF Chains
<1>3. Waits(f)' = w BY DEF Waits
<1>4. RewoundRows(f)' \subseteq ToSet(t[w].rows) BY <1>1 DEF RewoundRows
<1> HIDE DEF t, w
<1>5. Covers(t, file'[f], w, RewoundRows(f)') BY <1>1, <1>2, <1>4, CoversLast
<1>6. QED BY <1>3, <1>5 DEF t

\* A row that comes while an edited answer is being rewound follows those it saves.
LEMMA RewoundGrows ==
  ASSUME TypeOK, OpInv, NEW f \in Files, NEW rows \in Seq(Rows), NEW loop \in BOOLEAN,
         Covers(queue[cur][f], file[f], Waits(f), RewoundRows(f)), op.kind = "replace",
         queue'[cur][f] = Append(queue[cur][f], Entry(rows, FALSE, loop)),
         mem'[cur][f] = rows, ToSet(rows) = ToSet(mem[cur][f]) \cup {next},
         cur' = cur, op' = op, file' = file
  PROVE  Covers(queue[cur][f], file[f], Waits(f), RewoundRows(f))'
<1>1. queue[cur][f] \in Seq(Entries) /\ op.upto \in Nat /\ next \in Nat /\ op.upto <= next
  BY StateTypes DEF OpInv
<1>2. ~(next < op.upto) BY <1>1
<1>3. RewoundRows(f)' = RewoundRows(f) BY <1>2 DEF RewoundRows
<1>4. RewoundRows(f) \subseteq ToSet(rows) BY DEF RewoundRows
<1>5. FALSE \in BOOLEAN OBVIOUS
<1>6. Covers(Append(queue[cur][f], Entry(rows, FALSE, loop)), file[f], Waits(f), RewoundRows(f))
  BY <1>1, <1>4, <1>5, CoversAppend
<1>7. Waits(f)' = Waits(f) BY DEF Waits
<1>8. QED BY <1>3, <1>6, <1>7

LEMMA RewindSavedPushes ==
  ASSUME Base, RewindSaved, NEW f \in Files, Push(f)
  PROVE  RewindSaved'
<1>1. TypeOK /\ OpInv BY DEF Base
<1>2. /\ TypeOK' /\ ToSet(mem'[cur][f]) = ToSet(mem[cur][f]) \cup {next}
      /\ ~frozen[cur]
      /\ queue'[cur][f] = Append(queue[cur][f], Entry(mem'[cur][f], FALSE, TRUE))
      /\ \A g \in Files : g # f => mem'[cur][g] = mem[cur][g] /\ queue'[cur][g] = queue[cur][g]
      /\ mishaps \subseteq mishaps'
      /\ UNCHANGED <<fileVars, cur, opVars>>
  BY <1>1, PushFacts
<1>3. op' = op /\ file' = file BY <1>2 DEF opVars, fileVars
<1> SUFFICES ASSUME mishaps = {}, op.kind \in {"edit", "replace"}, op.pc # "none"
             PROVE  /\ op.kind # "edit"
                    /\ \A g \in Files : (g = "ui" \/ op.pc # "ui") =>
                         Covers(queue[cur][g], file[g], Waits(g), RewoundRows(g))'
  BY <1>2, <1>3 DEF RewindSaved
<1>4. op.kind = "replace" BY <1>2 DEF RewindSaved
<1> SUFFICES ASSUME NEW g \in Files, g = "ui" \/ op.pc # "ui"
             PROVE  Covers(queue[cur][g], file[g], Waits(g), RewoundRows(g))'
  BY <1>4
<1>5. Covers(queue[cur][g], file[g], Waits(g), RewoundRows(g)) BY DEF RewindSaved
<1>6. Waits(g)' = Waits(g) BY <1>3 DEF Waits
<1>7. CASE g = f
  <2> DEFINE rows == mem'[cur][f]
  <2>1. rows \in Seq(Rows) /\ TRUE \in BOOLEAN
    BY <1>1, <1>2, StateTypes DEF TypeOK, Histories
  <2>2. /\ queue'[cur][f] = Append(queue[cur][f], Entry(rows, FALSE, TRUE))
        /\ mem'[cur][f] = rows /\ ToSet(rows) = ToSet(mem[cur][f]) \cup {next}
        /\ cur' = cur
    BY <1>2
  <2> HIDE DEF rows
  <2>3. Covers(queue[cur][f], file[f], Waits(f), RewoundRows(f))'
    BY <1>1, <1>3, <1>4, <1>5, <1>7, <2>1, <2>2, RewoundGrows
  <2>4. QED BY <2>3, <1>7
<1>8. CASE g # f BY <1>2, <1>3, <1>5, <1>6, <1>8, RewoundSame
<1>9. QED BY <1>7, <1>8

LEMMA RewindSavedCommits ==
  ASSUME Base, RewindSaved, NEW k \in Jobs, CondenseCommits(k)
  PROVE  RewindSaved'
<1>1. TypeOK /\ OpInv /\ JobInv /\ "ui" \in Files /\ "api" \in Files
  BY StateTypes DEF Base
<1>2. /\ job[k].pc = "checked"
      /\ frozen[cur] => UNCHANGED <<memVars, ghostVars>>
      /\ ~frozen[cur] =>
           \E rows \in Seq(Rows) :
             /\ mem'[cur]["api"] = rows
             /\ ToSet(rows) = ToSet(job[k].res) \cup {next}
             /\ queue'[cur]["api"] = Append(queue[cur]["api"], Entry(rows, FALSE, FALSE))
             /\ mem'[cur]["ui"] = mem[cur]["ui"] /\ queue'[cur]["ui"] = queue[cur]["ui"]
             /\ job[k].rev = rev \/ "raced" \in mishaps'
             /\ mishaps \subseteq mishaps'
      /\ UNCHANGED <<fileVars, cur, guardVars, opVars>>
  BY <1>1, CommitFacts
<1>3. file' = file /\ cur' = cur /\ op' = op /\ frozen' = frozen
  BY <1>2 DEF fileVars, opVars, guardVars
<1>4. \A g \in Files : Waits(g)' = Waits(g) BY <1>3 DEF Waits
<1>5. CASE frozen[cur]
  <2>1. mem' = mem /\ queue' = queue /\ mishaps' = mishaps
    BY <1>2, <1>5 DEF memVars, ghostVars
  <2>2. \A g \in Files : Covers(queue[cur][g], file[g], Waits(g), RewoundRows(g))
          => Covers(queue[cur][g], file[g], Waits(g), RewoundRows(g))'
    BY <1>3, <1>4, <2>1, RewoundSame
  <2>3. QED BY <1>3, <2>1, <2>2 DEF RewindSaved
<1>6. CASE ~frozen[cur]
  <2>1. PICK rows \in Seq(Rows) :
             /\ mem'[cur]["api"] = rows
             /\ ToSet(rows) = ToSet(job[k].res) \cup {next}
             /\ queue'[cur]["api"] = Append(queue[cur]["api"], Entry(rows, FALSE, FALSE))
             /\ mem'[cur]["ui"] = mem[cur]["ui"] /\ queue'[cur]["ui"] = queue[cur]["ui"]
             /\ job[k].rev = rev \/ "raced" \in mishaps'
             /\ mishaps \subseteq mishaps'
    BY <1>2, <1>6
  <2> SUFFICES ASSUME mishaps' = {}, op.kind \in {"edit", "replace"}, op.pc # "none"
               PROVE  /\ op.kind # "edit"
                      /\ \A g \in Files : (g = "ui" \/ op.pc # "ui") =>
                           Covers(queue[cur][g], file[g], Waits(g), RewoundRows(g))'
    BY <1>3 DEF RewindSaved
  <2>2. mishaps = {} BY <2>1
  <2>3. op.kind = "replace" BY <1>6, <2>2 DEF RewindSaved
  <2>4. job[k].res = mem[cur]["api"] BY <1>1, <1>2, <1>6, <2>1 DEF JobInv
  <2>5. Covers(queue[cur]["ui"], file["ui"], Waits("ui"), RewoundRows("ui"))'
    <3>1. Covers(queue[cur]["ui"], file["ui"], Waits("ui"), RewoundRows("ui"))
      BY <1>1, <2>2 DEF RewindSaved
    <3>2. QED BY <1>1, <1>3, <1>4, <2>1, <3>1, RewoundSame
  <2>6. ASSUME op.pc # "ui"
        PROVE  Covers(queue[cur]["api"], file["api"], Waits("api"), RewoundRows("api"))'
    <3>1. Covers(queue[cur]["api"], file["api"], Waits("api"), RewoundRows("api"))
      BY <1>1, <2>2, <2>6 DEF RewindSaved
    <3>2. FALSE \in BOOLEAN OBVIOUS
    <3>3. QED BY <1>1, <1>3, <2>1, <2>3, <2>4, <3>1, <3>2, RewoundGrows
  <2>7. QED BY <2>3, <2>5, <2>6, Constants
<1>7. QED BY <1>5, <1>6
LEMMA RewindSavedBegins ==
  ASSUME Base, NEW n \in Rows, DeleteBegins(n) \/ EditBegins(n) \/ ReplaceBegins(n)
  PROVE  RewindSaved'
<1>1. TypeOK /\ cur \in Instances /\ "ui" \in Files /\ "api" \in Files
  BY StateTypes DEF Base
<1>2. PICK rows \in Seq(Rows), force \in BOOLEAN :
        /\ Rewind(cur, "ui", rows, force)
        /\ op'.pc = "ui" /\ op'.wait = Wait(cur, "ui")
        /\ force <=> op'.kind # "delete"
        /\ op'.kind = "edit" => Freeze(cur)
        /\ cur' = cur
  BY <1>1, BeginsFacts
<1> SUFFICES ASSUME op'.kind \in {"edit", "replace"}
             PROVE  /\ op'.kind = "edit" => frozen'[cur]
                    /\ Covers(queue[cur]["ui"], file["ui"], Waits("ui"), RewoundRows("ui"))'
  BY <1>2, Constants DEF RewindSaved
<1>3. op'.kind = "edit" => frozen'[cur] BY <1>1, <1>2 DEF Freeze, TypeOK
<1>4. ~Refuses(cur, force) BY <1>2 DEF Refuses
<1>5. QED BY <1>1, <1>2, <1>3, <1>4, RewoundLast

LEMMA RewindSavedRewinds ==
  ASSUME Base, OneInstance, RewindSaved, ApiRewinds \/ RewindReturns \/ HandlerSaves
  PROVE  RewindSaved'
<1>1. TypeOK /\ OpInv /\ cur \in Instances /\ "ui" \in Files /\ "api" \in Files
  BY StateTypes DEF Base
<1>2. op.pc \in {"ui", "api", "direct", "lost"} /\ cur' = cur /\ mishaps' = mishaps
  BY DEF ApiRewinds, RewindReturns, HandlerSaves
<1>3. /\ op'.kind = op.kind \/ op'.pc = "none"
      /\ op'.upto = op.upto \/ op'.pc = "none"
  BY <1>1, <1>2, ApiRewindsFacts, RewindReturnsFacts, HandlerSavesFacts, NoOpFacts
<1> SUFFICES ASSUME mishaps = {}, op'.kind = op.kind, op'.upto = op.upto,
                    op.kind \in {"edit", "replace"}, op'.pc # "none"
             PROVE  /\ op.kind = "edit" => frozen'[cur]
                    /\ Covers(queue[cur]["ui"], file["ui"], Waits("ui"), RewoundRows("ui"))'
                    /\ Covers(queue[cur]["api"], file["api"], Waits("api"), RewoundRows("api"))'
  BY <1>2, <1>3, Constants DEF RewindSaved
<1>4. op.inst = cur
  <2>1. Calm BY DEF Calm, Without
  <2>2. QED BY <1>2, <2>1 DEF OneInstance
<1>5. /\ op.kind = "edit" => frozen[cur]
      /\ Covers(queue[cur]["ui"], file["ui"], Waits("ui"), RewoundRows("ui"))
      /\ op.pc # "ui" =>
           Covers(queue[cur]["api"], file["api"], Waits("api"), RewoundRows("api"))
  BY <1>1, <1>2 DEF RewindSaved
<1>6. CASE ApiRewinds
  <2>1. PICK rows \in Seq(Rows), force \in BOOLEAN :
          /\ op.pc = "ui" /\ op.wait = 0
          /\ force <=> op.kind \in {"edit", "replace"}
          /\ \/ Rewind(op.inst, "api", rows, force) /\ ~Refuses(op.inst, force)
             \/ ~force /\ UNCHANGED <<memVars, owed>>
          /\ op'.wait = Wait(op.inst, "api") /\ op'.pc = "api"
          /\ UNCHANGED <<fileVars, guardVars>>
    BY <1>1, <1>6, ApiRewindsFacts
  <2>2. Rewind(cur, "api", rows, force) /\ ~Refuses(cur, force) BY <1>4, <2>1
  <2>3. op'.wait = Wait(cur, "api") BY <1>4, <2>1
  <2>4. Covers(queue[cur]["api"], file["api"], Waits("api"), RewoundRows("api"))'
    BY <1>1, <1>2, <2>1, <2>2, <2>3, RewoundLast
  <2>5. mem'[cur]["ui"] = mem[cur]["ui"] /\ queue'[cur]["ui"] = queue[cur]["ui"]
    BY <1>1, <2>2, RewindGrows
  <2>6. Waits("ui")' = Waits("ui") BY <2>1 DEF Waits
  <2>7. Covers(queue[cur]["ui"], file["ui"], Waits("ui"), RewoundRows("ui"))'
    BY <1>1, <1>2, <1>5, <2>1, <2>5, <2>6, RewoundSame DEF fileVars
  <2>8. QED BY <1>5, <2>1, <2>4, <2>7 DEF guardVars
<1>7. CASE RewindReturns
  <2>1. /\ op.pc = "api" /\ op.wait = 0 /\ op'.pc = "direct" /\ op'.wait = 0
        /\ UNCHANGED <<fileVars, memVars, guardVars>>
    BY <1>1, <1>7, RewindReturnsFacts
  <2>2. \A f \in Files : Waits(f)' = Waits(f) BY <2>1 DEF Waits, Files
  <2>3. QED
    BY <1>1, <1>2, <1>5, <2>1, <2>2, RewoundSame DEF fileVars, memVars, guardVars
<1>8. CASE HandlerSaves
  <2>1. /\ op.pc \in {"direct", "lost"}
        /\ file'["ui"] = mem[cur]["ui"] /\ file'["api"] = file["api"]
        /\ op.kind = "edit" => op'.pc = "stop"
        /\ op.kind = "replace" => op' = NoOp
        /\ op.kind # "replace" => frozen' = frozen
        /\ UNCHANGED <<mem, queue>>
    BY <1>1, <1>4, <1>8, HandlerSavesFacts DEF guardVars
  <2>2. op.kind = "edit" /\ op'.pc = "stop" BY <2>1, NoOpFacts
  <2>3. \A f \in Files : Waits(f)' = 0 /\ Waits(f) = 0 BY <2>1, <2>2 DEF Waits, Files
  <2>4. QED BY <1>1, <1>2, <1>5, <2>1, <2>2, <2>3, RewoundSame
<1>9. QED BY <1>6, <1>7, <1>8

LEMMA RewindSavedStep ==
  ASSUME Base, OneInstance, AwaitedForced, RewindSaved, [Next]_vars
  PROVE  RewindSaved'
<1>1. TypeOK /\ OpInv /\ cur \in Instances BY StateTypes DEF Base
<1>2. ASSUME NEW f \in Files, Push(f) PROVE RewindSaved' BY <1>2, RewindSavedPushes
<1>3. ASSUME NEW i \in Instances, NEW f \in Files, SaveBegins(i, f) \/ SaveLands(i, f)
      PROVE  RewindSaved'
  <2> SUFFICES ASSUME mishaps = {} PROVE RewindSaved'
    BY <1>3 DEF RewindSaved, SaveBegins, SaveLands, ghostVars
  <2>1. /\ UNCHANGED <<cur, mem, guardVars, mishaps>>
        /\ op'.pc = op.pc /\ op'.kind = op.kind /\ op'.upto = op.upto
    BY <1>3, QuietSaves DEF ghostVars
  <2>2. \A h \in Files : RewoundRows(h)' = RewoundRows(h) BY <2>1 DEF RewoundRows
  <2>3. ASSUME NEW g \in Files, Covers(queue[cur][g], file[g], Waits(g), RewoundRows(g))
        PROVE  Covers(queue[cur][g], file[g], Waits(g), RewoundRows(g))'
    <3>1. Covers(queue'[cur][g], file'[g], Waits(g)', RewoundRows(g))
      BY <1>3, <2>3, CoversSaved
    <3>2. QED BY <2>1, <2>2, <3>1
  <2>4. QED BY <2>1, <2>3 DEF RewindSaved, guardVars
<1>4. ASSUME NEW i \in Instances, NEW f \in Files, SaveFails(i, f) PROVE RewindSaved'
  BY <1>4 DEF RewindSaved, SaveFails
<1>5. ASSUME NEW n \in Rows, DeleteBegins(n) \/ EditBegins(n) \/ ReplaceBegins(n)
      PROVE  RewindSaved'
  BY <1>5, RewindSavedBegins
<1>6. ASSUME NEW n \in Rows, CheckpointBegins(n) PROVE RewindSaved'
  BY <1>1, <1>6, CheckpointBeginsFacts DEF RewindSaved
<1>7. CASE CheckpointRestored
  <2>1. op.pc = "git" /\ op'.kind = op.kind BY <1>1, <1>7, CheckpointRestoredFacts
  <2>2. op'.kind = "checkpoint" BY <1>1, <2>1 DEF OpInv
  <2>3. QED BY <2>2 DEF RewindSaved
<1>8. CASE ApiRewinds \/ RewindReturns \/ HandlerSaves BY <1>8, RewindSavedRewinds
<1>9. CASE HandlerFails \/ EditStops BY <1>9, NoOpFacts DEF HandlerFails, EditStops, RewindSaved
<1>10. ASSUME NEW k \in Jobs, CondenseBegins(k) \/ CondenseChecks(k) \/ CondenseFails(k)
       PROVE  RewindSaved'
  <2>1. UNCHANGED <<fileVars, cur, memVars, guardVars, opVars, ghostVars>>
    BY <1>1, <1>10, JobFacts
  <2>2. \A f \in Files : Waits(f)' = Waits(f) BY <2>1 DEF Waits, opVars
  <2>3. \A f \in Files : Covers(queue[cur][f], file[f], Waits(f), RewoundRows(f))
          => Covers(queue[cur][f], file[f], Waits(f), RewoundRows(f))'
    BY <2>1, <2>2, RewoundSame DEF fileVars, memVars, opVars
  <2>4. QED BY <2>1, <2>3 DEF RewindSaved, guardVars, opVars, ghostVars
<1>11. ASSUME NEW k \in Jobs, CondenseCommits(k) PROVE RewindSaved'
  BY <1>11, RewindSavedCommits
<1>12. CASE StopBegins
  <2>1. /\ mishaps' = IF op.pc # "none" THEN mishaps \cup {"crossed"} ELSE mishaps
        /\ op' = op
    BY <1>1, <1>12, StopBeginsFacts DEF opVars
  <2>2. QED BY <2>1 DEF RewindSaved
<1>13. CASE StopSaved \/ StopTimesOut
  <2>1. stop[cur] = "saving" /\ mishaps \subseteq mishaps' /\ op' = op
    BY <1>1, <1>13, StopEndsFacts DEF opVars
  <2>2. Calm => op.pc = "none" BY <2>1 DEF OneInstance
  <2>3. mishaps' = {} => Calm BY <2>1 DEF Calm, Without
  <2>4. QED BY <2>1, <2>2, <2>3 DEF RewindSaved
<1>14. CASE Reopen
  <2>1. /\ stop[cur] = "over" /\ mishaps \subseteq mishaps'
        /\ op' = op \/ op' = NoOp
    BY <1>1, <1>14, ReopenFacts
  <2>2. Calm => op.pc = "none" BY <2>1 DEF OneInstance
  <2>3. mishaps' = {} => Calm BY <2>1 DEF Calm, Without
  <2>4. QED BY <2>1, <2>2, <2>3, NoOpFacts DEF RewindSaved
<1>15. CASE Crash BY <1>1, <1>15, CrashFacts DEF RewindSaved
<1>16. CASE UNCHANGED vars
  <2>1. UNCHANGED <<fileVars, cur, memVars, guardVars, opVars, ghostVars>> BY <1>16 DEF vars
  <2>2. \A f \in Files : Waits(f)' = Waits(f) BY <2>1 DEF Waits, opVars
  <2>3. \A f \in Files : Covers(queue[cur][f], file[f], Waits(f), RewoundRows(f))
          => Covers(queue[cur][f], file[f], Waits(f), RewoundRows(f))'
    BY <2>1, <2>2, RewoundSame DEF fileVars, memVars, opVars
  <2>4. QED BY <2>1, <2>3 DEF RewindSaved, guardVars, opVars, ghostVars
<1>17. QED
  BY <1>2, <1>3, <1>4, <1>5, <1>6, <1>7, <1>8, <1>9, <1>10, <1>11, <1>12, <1>13, <1>14,
     <1>15, <1>16
  DEF Next

LEMMA RewindSavedHolds == Spec => []RewindSaved
<1>1. Init => RewindSaved BY NoOpFacts DEF Init, RewindSaved
<1>2. Base /\ OneInstance /\ AwaitedForced /\ RewindSaved /\ [Next]_vars => RewindSaved'
  BY RewindSavedStep
<1>3. QED BY <1>1, <1>2, BaseHolds, OneInstanceHolds, AwaitedForcedHolds, PTL DEF Spec
\* An instance that a rewind froze, and that is not stopped, saves nothing more by itself:
\* what is owed of it is in the files, and stays in them whatever save still lands.
FrozenSaved ==
  /\ mishaps = {} /\ frozen[cur] /\ stop[cur] # "over"
  /\ op.pc \in {"none", "stop"} \/ op.kind \in {"none", "delete"}
  => \A f \in Files : Covers(queue[cur][f], file[f], 0, owed \cap ToSet(mem[cur][f]))

LEMMA FrozenSame ==
  ASSUME FrozenSaved, mishaps \subseteq mishaps', cur' = cur, owed' = owed,
         mishaps = {} /\ frozen'[cur] /\ stop'[cur] # "over"
           /\ (op'.pc \in {"none", "stop"} \/ op'.kind \in {"none", "delete"}) =>
              /\ frozen[cur] /\ stop[cur] # "over"
              /\ op.pc \in {"none", "stop"} \/ op.kind \in {"none", "delete"}
              /\ \A f \in Files :
                   /\ queue'[cur][f] = queue[cur][f] /\ mem'[cur][f] = mem[cur][f]
                   /\ file'[f] = file[f] \/ file'[f] = mem[cur][f]
  PROVE  FrozenSaved'
BY DEF FrozenSaved, Covers

LEMMA FrozenSaves ==
  ASSUME Base, OneInstance, AwaitedForced, FrozenSaved, NEW i \in Instances, NEW f \in Files,
         SaveBegins(i, f) \/ SaveLands(i, f) \/ SaveFails(i, f)
  PROVE  FrozenSaved'
<1>1. CASE SaveFails(i, f) BY <1>1 DEF SaveFails, FrozenSaved
<1>2. CASE SaveBegins(i, f) \/ SaveLands(i, f)
  <2>1. mishaps' = mishaps BY <1>2 DEF SaveBegins, SaveLands, ghostVars
  <2> SUFFICES ASSUME mishaps = {} PROVE FrozenSaved' BY <2>1 DEF FrozenSaved
  <2>2. /\ UNCHANGED <<cur, mem, guardVars, stop, ghostVars>>
        /\ op'.pc = op.pc /\ op'.kind = op.kind
    BY <1>2, QuietSaves
  <2>3. \A g \in Files : \A R : Covers(queue[cur][g], file[g], 0, R)
                                  => Covers(queue'[cur][g], file'[g], 0, R)
    BY <1>2, CoversSaved
  <2>4. QED BY <2>2, <2>3 DEF FrozenSaved, guardVars, ghostVars
<1>3. QED BY <1>1, <1>2

\* A deletion in a frozen instance changes nothing.
LEMMA FrozenRefuses ==
  ASSUME NEW i \in Instances, NEW f \in Files, NEW rows, Rewind(i, f, rows, FALSE), frozen[i]
  PROVE  UNCHANGED <<mem, queue, owed>>
BY DEF Rewind

LEMMA FrozenBegins ==
  ASSUME Base, FrozenSaved, NEW n \in Rows,
         DeleteBegins(n) \/ EditBegins(n) \/ ReplaceBegins(n)
  PROVE  FrozenSaved'
<1>1. TypeOK /\ cur \in Instances /\ "ui" \in Files BY StateTypes DEF Base
<1>2. PICK rows \in Seq(Rows), force \in BOOLEAN :
        /\ Rewind(cur, "ui", rows, force) /\ op.pc = "none" /\ op'.pc = "ui"
        /\ op'.kind \in {"delete", "edit", "replace"} /\ (force <=> op'.kind # "delete")
        /\ op'.kind # "edit" => UNCHANGED guardVars
        /\ mishaps' = IF stop[cur] = "saving" THEN mishaps \cup {"crossed"} ELSE mishaps
        /\ UNCHANGED <<fileVars, cur, stopVars>>
  BY <1>1, BeginsFacts
<1>3. CASE op'.kind # "delete" BY <1>2, <1>3 DEF FrozenSaved
<1>4. CASE op'.kind = "delete" /\ frozen[cur]
  <2>1. Rewind(cur, "ui", rows, FALSE) BY <1>2, <1>4
  <2>2. UNCHANGED <<mem, queue, owed>> BY <1>1, <1>4, <2>1, FrozenRefuses
  <2>3. QED BY <1>2, <1>4, <2>2, FrozenSame DEF fileVars, stopVars, guardVars
<1>5. CASE op'.kind = "delete" /\ ~frozen[cur]
  BY <1>2, <1>5 DEF FrozenSaved, guardVars
<1>6. QED BY <1>3, <1>4, <1>5

LEMMA FrozenRewinds ==
  ASSUME Base, OneInstance, RewindSaved, FrozenSaved,
         ApiRewinds \/ RewindReturns \/ HandlerSaves
  PROVE  FrozenSaved'
<1>1. TypeOK /\ OpInv /\ op \in Ops /\ cur \in Instances /\ "ui" \in Files /\ "api" \in Files
  BY StateTypes DEF Base
<1>2. /\ op.pc \in {"ui", "api", "direct", "lost"}
      /\ cur' = cur /\ mishaps' = mishaps /\ stop' = stop
  BY DEF ApiRewinds, RewindReturns, HandlerSaves, stopVars
<1> SUFFICES ASSUME mishaps = {} PROVE FrozenSaved' BY <1>2 DEF FrozenSaved
<1>3. op.inst = cur /\ op.kind # "checkpoint"
  <2>1. Calm BY DEF Calm, Without
  <2>2. QED BY <1>2, <2>1 DEF OneInstance
<1>4. CASE ApiRewinds
  <2>1. PICK rows \in Seq(Rows), force \in BOOLEAN :
          /\ op.pc = "ui"
          /\ force <=> op.kind \in {"edit", "replace"}
          /\ \/ Rewind(op.inst, "api", rows, force)
             \/ UNCHANGED <<memVars, owed>>
          /\ op'.pc = "api" /\ op'.kind = op.kind
          /\ UNCHANGED <<fileVars, guardVars>>
    BY <1>1, <1>4, ApiRewindsFacts
  <2> SUFFICES ASSUME frozen[cur], op.kind \in {"none", "delete"} PROVE FrozenSaved'
    BY <1>2, <2>1 DEF FrozenSaved, guardVars
  <2>2. Rewind(op.inst, "api", rows, force) => Rewind(cur, "api", rows, FALSE)
    BY <1>3, <2>1
  <2>3. UNCHANGED <<mem, queue, owed>> BY <1>1, <2>1, <2>2, FrozenRefuses DEF memVars
  <2>4. QED BY <1>2, <2>1, <2>3, FrozenSame DEF fileVars, guardVars
<1>5. CASE RewindReturns
  <2>1. /\ op'.pc = "direct" /\ op'.kind = op.kind
        /\ UNCHANGED <<fileVars, memVars, guardVars, owed>>
    BY <1>1, <1>5, RewindReturnsFacts
  <2>2. QED BY <1>2, <2>1, FrozenSame DEF fileVars, memVars, guardVars
<1>6. CASE HandlerSaves
  <2>1. /\ op.pc \in {"direct", "lost"}
        /\ file'["ui"] = mem[cur]["ui"] /\ file'["api"] = file["api"]
        /\ op.kind = "replace" => owed' = {r \in owed : r < op.upto}
        /\ op.kind # "replace" => UNCHANGED <<guardVars, owed>>
        /\ UNCHANGED <<mem, queue>>
    BY <1>1, <1>3, <1>6, HandlerSavesFacts
  <2>2. \A f \in Files : file'[f] = file[f] \/ file'[f] = mem[cur][f] BY <2>1, Constants
  <2>3. CASE op.kind \in {"none", "delete"}
    BY <1>2, <2>1, <2>2, <2>3, FrozenSame DEF guardVars
  <2>4. CASE op.kind \in {"edit", "replace"}
    <3>1. \A f \in Files : Covers(queue[cur][f], file[f], 0, RewoundRows(f))
      <4>1. \A f \in Files : Waits(f) = 0 BY <2>1 DEF Waits, Files
      <4>2. QED BY <1>2, <2>1, <2>4, <4>1 DEF RewindSaved
    <3>2. \A f \in Files : owed' \cap ToSet(mem[cur][f]) \subseteq RewoundRows(f)
      BY <2>1, <2>4 DEF RewoundRows
    <3>3. QED BY <1>2, <2>1, <2>2, <3>1, <3>2 DEF FrozenSaved, Covers
  <2>5. QED BY <1>1, <1>3, <2>3, <2>4 DEF Ops
<1>7. QED BY <1>4, <1>5, <1>6

LEMMA FrozenStep ==
  ASSUME Base, OneInstance, AwaitedForced, RewindSaved, FrozenSaved, [Next]_vars
  PROVE  FrozenSaved'
<1>1. TypeOK /\ OpInv /\ JobInv /\ LaterInv /\ cur \in Instances BY StateTypes DEF Base
<1>2. ASSUME NEW f \in Files, Push(f) PROVE FrozenSaved'
  BY <1>2 DEF Push, FrozenSaved, guardVars
<1>3. ASSUME NEW i \in Instances, NEW f \in Files,
             SaveBegins(i, f) \/ SaveLands(i, f) \/ SaveFails(i, f)
      PROVE  FrozenSaved'
  BY <1>3, FrozenSaves
<1>4. ASSUME NEW n \in Rows, DeleteBegins(n) \/ EditBegins(n) \/ ReplaceBegins(n)
      PROVE  FrozenSaved'
  BY <1>4, FrozenBegins
<1>5. ASSUME NEW n \in Rows, CheckpointBegins(n) PROVE FrozenSaved'
  BY <1>1, <1>5, CheckpointBeginsFacts DEF FrozenSaved
<1>6. CASE CheckpointRestored
  <2>1. op.pc = "git" /\ mishaps' = mishaps BY <1>6 DEF CheckpointRestored
  <2>2. ~Calm BY <1>1, <2>1 DEF OpInv, OneInstance
  <2>3. QED BY <2>1, <2>2 DEF FrozenSaved, Calm, Without
<1>7. CASE ApiRewinds \/ RewindReturns \/ HandlerSaves BY <1>7, FrozenRewinds
<1>8. CASE HandlerFails BY <1>8 DEF HandlerFails, FrozenSaved
<1>9. CASE EditStops
  <2>1. /\ op.pc = "stop"
        /\ stop[cur] = "no" => BeginStop
        /\ stop[cur] # "no" => UNCHANGED <<queue, stopVars>>
        /\ UNCHANGED <<fileVars, cur, mem, guardVars, ghostVars>>
    BY <1>1, <1>9, EditStopsFacts
  <2>2. frozen[cur] => queue' = queue BY <1>1, <2>1, BeginStopFacts
  <2>3. QED BY <2>1, <2>2, FrozenSame DEF fileVars, guardVars, ghostVars, stopVars
<1>10. ASSUME NEW k \in Jobs, CondenseBegins(k) \/ CondenseChecks(k) \/ CondenseFails(k)
       PROVE  FrozenSaved'
  <2>1. UNCHANGED <<fileVars, cur, memVars, guardVars, stopVars, opVars, ghostVars>>
    BY <1>1, <1>10, JobFacts
  <2>2. QED
    BY <2>1, FrozenSame DEF fileVars, memVars, guardVars, stopVars, opVars, ghostVars
<1>11. ASSUME NEW k \in Jobs, CondenseCommits(k) PROVE FrozenSaved'
  <2>1. /\ frozen[cur] => UNCHANGED <<memVars, next, ghostVars>>
        /\ UNCHANGED <<fileVars, cur, guardVars, stopVars, opVars>>
    BY <1>1, <1>11, CommitFacts
  <2>2. CASE frozen[cur]
    BY <2>1, <2>2, FrozenSame DEF fileVars, memVars, guardVars, stopVars, opVars, ghostVars
  <2>3. CASE ~frozen[cur] BY <2>1, <2>3 DEF FrozenSaved, guardVars
  <2>4. QED BY <2>2, <2>3
<1>12. CASE StopBegins
  <2>1. /\ stop[cur] = "no" /\ BeginStop
        /\ mishaps' = IF op.pc # "none" THEN mishaps \cup {"crossed"} ELSE mishaps
        /\ UNCHANGED <<fileVars, cur, mem, guardVars, opVars, owed>>
    BY <1>1, <1>12, StopBeginsFacts
  <2>2. frozen[cur] => queue' = queue BY <1>1, <2>1, BeginStopFacts
  <2>3. QED BY <2>1, <2>2, FrozenSame DEF fileVars, guardVars, opVars
<1>13. CASE StopSaved \/ StopTimesOut
  <2>1. EndStop /\ cur' = cur BY <1>1, <1>13, StopEndsFacts
  <2>2. stop'[cur] = "over" BY <1>1, <2>1, EndStopFacts
  <2>3. QED BY <2>1, <2>2 DEF FrozenSaved
<1>14. CASE Reopen
  <2>1. cur' = cur + 1 /\ cur' \in Instances /\ frozen' = frozen
    BY <1>1, <1>14, ReopenFacts DEF guardVars
  <2>2. cur' > cur BY <1>1, <2>1, Constants
  <2>3. ~frozen'[cur'] BY <1>1, <2>1, <2>2 DEF LaterInv
  <2>4. QED BY <2>3 DEF FrozenSaved
<1>15. CASE Crash BY <1>1, <1>15, CrashFacts DEF FrozenSaved
<1>16. CASE UNCHANGED vars
  <2>1. UNCHANGED <<fileVars, cur, memVars, guardVars, stopVars, opVars, ghostVars>>
    BY <1>16 DEF vars
  <2>2. QED
    BY <2>1, FrozenSame DEF fileVars, memVars, guardVars, stopVars, opVars, ghostVars
<1>17. QED
  BY <1>2, <1>3, <1>4, <1>5, <1>6, <1>7, <1>8, <1>9, <1>10, <1>11, <1>12, <1>13, <1>14,
     <1>15, <1>16
  DEF Next

LEMMA FrozenSavedHolds == Spec => []FrozenSaved
<1>1. Init => FrozenSaved BY Constants DEF Init, FrozenSaved
<1>2. Base /\ OneInstance /\ AwaitedForced /\ RewindSaved /\ FrozenSaved /\ [Next]_vars
        => FrozenSaved'
  BY FrozenStep
<1>3. QED
  BY <1>1, <1>2, BaseHolds, OneInstanceHolds, AwaitedForcedHolds, RewindSavedHolds, PTL
  DEF Spec
\* A stop that nothing disturbs waits for all the saves there are, and when it is over none
\* is left and the files have what was owed.
StopInv ==
  mishaps = {} =>
    /\ stop[cur] = "saving" => \A f \in Files : ahead[f] = Len(queue[cur][f])
    /\ stop[cur] = "over" => /\ queue[cur] = Empty
                             /\ owed \subseteq ToSet(Read("ui")) \cup ToSet(Read("api"))

\* Chains of an older instance are never the only thing that has gone wrong.
NeverOverlapAlone == mishaps \subseteq {"overlap"} => mishaps = {}

\* What is owed is in the files when no save is left.
LEMMA EmptyIsSaved ==
  ASSUME Base, OneInstance, LastIsMemory, FrozenSaved, RowsAreKept, mishaps = {},
         stop[cur] = "saving", queue[cur] = Empty
  PROVE  owed \subseteq ToSet(Read("ui")) \cup ToSet(Read("api"))
<1>1. Calm /\ Without({"raced"}) /\ Without({"failed"}) BY DEF Calm, Without
<1>2. /\ TypeOK /\ WriterInv /\ "ui" \in Files /\ "api" \in Files
      /\ \A f \in Files : queue[cur][f] = <<>>
  BY EmptyFacts, StateTypes DEF Base
<1>3. owed \subseteq ToSet(mem[cur]["ui"]) \cup ToSet(mem[cur]["api"])
  BY <1>1 DEF RowsAreKept, InMemory
<1>4. CASE ~frozen[cur] BY <1>1, <1>2, <1>3, <1>4 DEF LastIsMemory, Final
<1>5. CASE frozen[cur]
  <2>1. op.pc = "none" BY <1>1 DEF OneInstance
  <2>2. \A f \in Files : owed \cap ToSet(mem[cur][f]) \subseteq ToSet(file[f])
    BY <1>5, <2>1 DEF FrozenSaved, Covers
  <2>3. \A f \in Files : there[f]
    <3>1. \A f \in Files : writer[f] \in Instances => queue[writer[f]][f] = <<>>
      BY <1>1, <1>2, EmptyFacts DEF OneInstance
    <3>2. \A f \in Files : writer[f] \in Instances \/ writer[f] = None
      BY <1>2 DEF TypeOK
    <3>3. \A f \in Files : writer[f] = None BY <1>2, <3>1, <3>2 DEF WriterInv
    <3>4. QED BY <1>2, <3>3 DEF WriterInv
  <2>4. QED BY <1>2, <1>3, <2>2, <2>3 DEF Read
<1>6. QED BY <1>4, <1>5

LEMMA StopSaves ==
  ASSUME Base, OneInstance, AwaitedForced, StopInv, NEW i \in Instances, NEW f \in Files,
         SaveBegins(i, f) \/ SaveLands(i, f)
  PROVE  StopInv'
<1>1. /\ TypeOK /\ WriterInv /\ ahead \in [Files -> Nat]
      /\ \A g \in Files : queue[cur][g] \in Seq(Entries)
  BY StateTypes DEF Base, TypeOK
<1>2. queue[i][f] # <<>> /\ stop' = stop /\ cur' = cur /\ mishaps' = mishaps
  BY <1>1 DEF SaveBegins, SaveLands, WriterInv, None, Instances, ghostVars
<1> SUFFICES ASSUME mishaps = {} PROVE StopInv' BY <1>2 DEF StopInv
<1>3. i = cur
  <2>1. Calm BY DEF Calm, Without
  <2>2. QED BY <1>2, <2>1, SaverInFront
<1>4. stop[cur] # "over" BY <1>2, <1>3, EmptyFacts DEF StopInv
<1>5. ASSUME stop[cur] = "saving", NEW g \in Files PROVE ahead'[g] = Len(queue'[cur][g])
  <2>1. ahead[g] = Len(queue[cur][g]) BY <1>5 DEF StopInv
  <2>2. \/ queue'[cur][g] = queue[cur][g] /\ ahead'[g] = ahead[g]
        \/ /\ queue[cur][g] # <<>> /\ queue'[cur][g] = Tail(queue[cur][g])
           /\ ahead'[g] = IF ahead[g] > 0 THEN ahead[g] - 1 ELSE ahead[g]
    BY QuietSaves
  <2>3. queue[cur][g] # <<>> =>
          Len(queue[cur][g]) > 0 /\ Len(Tail(queue[cur][g])) = Len(queue[cur][g]) - 1
    BY <1>1, TailFacts
  <2>4. QED BY <2>1, <2>2, <2>3
<1>6. QED BY <1>2, <1>4, <1>5 DEF StopInv

LEMMA StopInvStep ==
  ASSUME Base, OneInstance, AwaitedForced, LastIsMemory, FrozenSaved, RowsAreKept, StopInv,
         [Next]_vars
  PROVE  StopInv'
<1>1. TypeOK /\ OpInv /\ JobInv /\ LaterInv /\ cur \in Instances BY StateTypes DEF Base
<1> SUFFICES ASSUME mishaps' = {} PROVE StopInv' BY DEF StopInv
<1>2. mishaps = {} BY MishapsGrow
<1>3. Calm BY <1>2 DEF Calm, Without
<1>4. ASSUME cur' = cur, stop'[cur] = "no" PROVE StopInv' BY <1>4 DEF StopInv
<1>5. ASSUME cur' = cur, stop'[cur] = "saving",
             \A f \in Files : ahead'[f] = Len(queue'[cur][f])
      PROVE  StopInv'
  BY <1>5 DEF StopInv
<1>6. stop[cur] \in {"no", "saving", "over"} BY <1>1 DEF TypeOK
<1>7. ASSUME NEW f \in Files, Push(f) PROVE StopInv'
  <2>1. stop[cur] = "no" /\ stop' = stop /\ cur' = cur BY <1>6, <1>7 DEF Push, stopVars
  <2>2. QED BY <1>4, <2>1
<1>8. ASSUME NEW i \in Instances, NEW f \in Files, SaveBegins(i, f) \/ SaveLands(i, f)
      PROVE  StopInv'
  BY <1>8, StopSaves
<1>9. ASSUME NEW i \in Instances, NEW f \in Files, SaveFails(i, f) PROVE StopInv'
  BY <1>9 DEF SaveFails
<1>10. ASSUME NEW n \in Rows, DeleteBegins(n) \/ EditBegins(n) \/ ReplaceBegins(n)
       PROVE  StopInv'
  <2>1. stop[cur] = "no" /\ stop' = stop /\ cur' = cur
    BY <1>1, <1>6, <1>10, BeginsFacts DEF stopVars
  <2>2. QED BY <1>4, <2>1
<1>11. ASSUME NEW n \in Rows, CheckpointBegins(n) PROVE StopInv'
  BY <1>1, <1>11, CheckpointBeginsFacts
<1>12. CASE CheckpointRestored \/ ApiRewinds \/ RewindReturns \/ HandlerSaves \/ HandlerFails
  <2>1. op.pc # "none" /\ stop' = stop /\ cur' = cur
    BY <1>12
    DEF CheckpointRestored, ApiRewinds, RewindReturns, HandlerSaves, HandlerFails, stopVars
  <2>2. stop[cur] = "no" BY <1>3, <2>1 DEF OneInstance
  <2>3. QED BY <1>4, <2>1, <2>2
<1>13. CASE EditStops
  <2>1. BeginStop /\ cur' = cur BY <1>1, <1>3, <1>13, EditStopsFacts DEF OneInstance
  <2>2. QED BY <1>1, <1>5, <2>1, BeginStopFacts
<1>14. ASSUME NEW k \in Jobs, CondenseBegins(k) \/ CondenseChecks(k) \/ CondenseFails(k)
       PROVE  StopInv'
  <2>1. UNCHANGED <<fileVars, cur, memVars, stopVars, ghostVars>> BY <1>1, <1>14, JobFacts
  <2>2. QED BY <2>1 DEF StopInv, Read, fileVars, memVars, stopVars, ghostVars
<1>15. ASSUME NEW k \in Jobs, CondenseCommits(k) PROVE StopInv'
  <2>1. /\ frozen[cur] => UNCHANGED <<memVars, next, ghostVars>>
        /\ ~frozen[cur] => (stop[cur] = "saving" => "late" \in mishaps')
        /\ UNCHANGED <<fileVars, cur, stopVars>>
    BY <1>1, <1>15, CommitFacts
  <2>2. CASE frozen[cur]
    BY <2>1, <2>2 DEF StopInv, Read, fileVars, memVars, stopVars, ghostVars
  <2>3. CASE ~frozen[cur]
    <3>1. stop[cur] = "no" BY <1>1, <1>6, <2>1, <2>3 DEF LaterInv
    <3>2. QED BY <1>4, <2>1, <3>1 DEF stopVars
  <2>4. QED BY <2>2, <2>3
<1>16. CASE StopBegins
  <2>1. BeginStop /\ cur' = cur BY <1>1, <1>16, StopBeginsFacts
  <2>2. QED BY <1>1, <1>5, <2>1, BeginStopFacts
<1>17. CASE StopSaved \/ StopTimesOut
  <2>1. /\ stop[cur] = "saving" /\ EndStop /\ \A f \in Files : ahead[f] = 0
        /\ UNCHANGED <<fileVars, cur, queue, owed>>
    BY <1>1, <1>17, StopEndsFacts
  <2>2. queue[cur] = Empty
    <3>1. \A f \in Files : Len(queue[cur][f]) = 0 BY <1>2, <2>1 DEF StopInv
    <3>2. /\ queue[cur] \in [Files -> Seq(Entries)]
          /\ \A f \in Files : queue[cur][f] \in Seq(Entries)
      BY <1>1, StateTypes
    <3>3. \A f \in Files : queue[cur][f] = <<>> BY <3>1, <3>2, SetOfSeq
    <3>4. QED BY <3>2, <3>3 DEF Empty
  <2>3. owed \subseteq ToSet(Read("ui")) \cup ToSet(Read("api"))
    BY <1>2, <2>1, <2>2, EmptyIsSaved
  <2>4. stop'[cur] = "over" BY <1>1, <2>1, EndStopFacts
  <2>5. QED BY <2>1, <2>2, <2>3, <2>4 DEF StopInv, Read, fileVars
<1>18. CASE Reopen
  <2>1. cur' = cur + 1 /\ cur' \in Instances /\ stop' = stop
    BY <1>1, <1>18, ReopenFacts DEF stopVars
  <2>2. cur' > cur BY <1>1, <2>1, Constants
  <2>3. stop'[cur'] = "no" BY <1>1, <2>1, <2>2 DEF LaterInv
  <2>4. QED BY <2>3 DEF StopInv
<1>19. CASE Crash BY <1>19 DEF Crash
<1>20. CASE UNCHANGED vars
  <2>1. UNCHANGED <<fileVars, cur, memVars, stopVars, ghostVars>> BY <1>20 DEF vars
  <2>2. QED BY <2>1 DEF StopInv, Read, fileVars, memVars, stopVars, ghostVars
<1>21. QED
  BY <1>7, <1>8, <1>9, <1>10, <1>11, <1>12, <1>13, <1>14, <1>15, <1>16, <1>17, <1>18,
     <1>19, <1>20
  DEF Next

LEMMA StopInvHolds == Spec => []StopInv
<1>1. Init => StopInv BY Constants DEF Init, StopInv
<1>2. Base /\ OneInstance /\ AwaitedForced /\ LastIsMemory /\ FrozenSaved /\ RowsAreKept
        /\ StopInv /\ [Next]_vars => StopInv'
  BY StopInvStep
<1>3. QED
  BY <1>1, <1>2, BaseHolds, OneInstanceHolds, AwaitedForcedHolds, LastIsMemoryHolds,
     FrozenSavedHolds, RowsKept, PTL
  DEF Spec

\* The next instance reads the files when no chain is left, if the stop was not cut short.
LEMMA ReopensAlone ==
  ASSUME Base, OneInstance, StopInv, mishaps = {}, Reopen
  PROVE  owed \subseteq owed' /\ mishaps' = {}
<1>1. /\ stop[cur] = "over"
      /\ owed' = ToSet(Read("ui")) \cup ToSet(Read("api"))
      /\ mishaps' = IF \E i \in 1..cur : queue[i] # Empty THEN mishaps \cup {"overlap"}
                                                          ELSE mishaps
      /\ TypeOK
  BY ReopenFacts DEF Base
<1>2. queue[cur] = Empty /\ owed \subseteq ToSet(Read("ui")) \cup ToSet(Read("api"))
  BY <1>1 DEF StopInv
<1>3. \A i \in 1..cur : i \in Instances BY <1>1, Constants DEF TypeOK, Instances
<1>4. Calm BY DEF Calm, Without
<1>5. \A i \in 1..cur : queue[i] = Empty BY <1>2, <1>3, <1>4 DEF OneInstance
<1>6. QED BY <1>1, <1>2, <1>5

LEMMA OverlapStep ==
  ASSUME Base, OneInstance, StopInv, NeverOverlapAlone, [Next]_vars
  PROVE  NeverOverlapAlone'
<1> SUFFICES ASSUME mishaps' \subseteq {"overlap"} PROVE mishaps' = {} BY DEF NeverOverlapAlone
<1>1. mishaps = {} BY MishapsGrow DEF NeverOverlapAlone
<1>2. CASE Reopen BY <1>1, <1>2, ReopensAlone
<1>3. CASE ~Reopen
  <2> SUFFICES "overlap" \notin mishaps' OBVIOUS
  <2>1. CASE \E f \in Files : Push(f) BY <1>1, <2>1 DEF Push
  <2>2. CASE \E i \in Instances, f \in Files :
               SaveBegins(i, f) \/ SaveLands(i, f) \/ SaveFails(i, f)
    BY <1>1, <2>2 DEF SaveBegins, SaveLands, SaveFails, ghostVars
  <2>3. CASE \E n \in Rows : DeleteBegins(n) \/ EditBegins(n) \/ ReplaceBegins(n)
                               \/ CheckpointBegins(n)
    BY <1>1, <2>3 DEF DeleteBegins, EditBegins, ReplaceBegins, CheckpointBegins, Begun
  <2>4. CASE CheckpointRestored \/ ApiRewinds \/ RewindReturns \/ HandlerSaves
               \/ HandlerFails \/ EditStops
    BY <1>1, <2>4
    DEF CheckpointRestored, ApiRewinds, RewindReturns, HandlerSaves, HandlerFails,
        EditStops, ghostVars
  <2>5. CASE \E k \in Jobs : CondenseBegins(k) \/ CondenseChecks(k) \/ CondenseFails(k)
                               \/ CondenseCommits(k)
    BY <1>1, <2>5
    DEF CondenseBegins, CondenseChecks, CondenseFails, CondenseCommits, ghostVars
  <2>6. CASE StopBegins \/ StopSaved \/ StopTimesOut \/ Crash
    BY <1>1, <2>6 DEF StopBegins, StopSaved, StopTimesOut, Crash, ghostVars
  <2>7. CASE UNCHANGED vars BY <1>1, <2>7 DEF vars, ghostVars
  <2>8. QED BY <1>3, <2>1, <2>2, <2>3, <2>4, <2>5, <2>6, <2>7 DEF Next
<1>4. QED BY <1>2, <1>3

LEMMA OverlapHolds == Spec => []NeverOverlapAlone
<1>1. Init => NeverOverlapAlone BY DEF Init, NeverOverlapAlone
<1>2. Base /\ OneInstance /\ StopInv /\ NeverOverlapAlone /\ [Next]_vars => NeverOverlapAlone'
  BY OverlapStep
<1>3. QED BY <1>1, <1>2, BaseHolds, OneInstanceHolds, StopInvHolds, PTL DEF Spec

\* StopKeepsHistory for every conversation: abortTask() that had the time to await its saves
\* leaves all there was in the files, before the next instance reads them.
THEOREM StopKeeps == Spec => StopKeepsHistory
<1> DEFINE Kept == cur' # cur /\ mishaps' \subseteq {"overlap"} =>
                     owed \subseteq owed' /\ "overlap" \notin mishaps'
<1>1. Base /\ OneInstance /\ StopInv /\ NeverOverlapAlone /\ [Next]_vars => Kept
  <2> SUFFICES ASSUME Base, OneInstance, StopInv, NeverOverlapAlone, [Next]_vars,
                      cur' # cur, mishaps' \subseteq {"overlap"}
               PROVE  owed \subseteq owed' /\ "overlap" \notin mishaps'
    OBVIOUS
  <2>1. mishaps = {} BY MishapsGrow DEF NeverOverlapAlone
  <2>2. Reopen
    BY DEF Next, Push, SaveBegins, SaveLands, SaveFails, DeleteBegins, EditBegins,
           ReplaceBegins, CheckpointBegins, CheckpointRestored, ApiRewinds, RewindReturns,
           HandlerSaves, HandlerFails, EditStops, CondenseBegins, CondenseChecks,
           CondenseFails, CondenseCommits, StopBegins, StopSaved, StopTimesOut, Crash, vars
  <2>3. QED BY <2>1, <2>2, ReopensAlone
<1>2. QED
  BY <1>1, BaseHolds, OneInstanceHolds, StopInvHolds, OverlapHolds, PTL
  DEF Spec, StopKeepsHistory
=============================================================================
