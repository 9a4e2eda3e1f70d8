------------------------- MODULE IncidentViewProofs -------------------------
(***************************************************************************)
(* Proofs about IncidentView and the algorithms of DeviceLedger.           *)
(*                                                                         *)
(* The loops of the code are folds, that is recursive functions; what they *)
(* return is proved by induction in the form of the least counterexample:  *)
(* a set of natural numbers that is not empty has a least one.             *)
(***************************************************************************)
EXTENDS IncidentView, FiniteSetTheorems, WellFoundedInduction, TLAPS

-----------------------------------------------------------------------------
(* Least and greatest numbers, sorted enumerations *)

LEMMA LeastOne ==
  ASSUME NEW T, T \subseteq Nat, T # {}
  PROVE  \E n \in T : \A m \in T : n =< m
<1>1. PICK n \in T : \A m \in T : <<m, n>> \notin OpToRel(<, Nat)
  BY NatLessThanWellFounded, WFMin, Zenon
<1>2. \A m \in T : ~(m < n)  BY <1>1 DEF OpToRel
<1> QED  BY <1>2

\* A property of 0 that goes over from every number to the next holds of n.
LEMMA CountUp ==
  ASSUME NEW n \in Nat, NEW G, 0 \in G, \A k \in Nat : k \in G /\ k < n => k + 1 \in G
  PROVE  n \in G
<1> SUFFICES ASSUME n \notin G PROVE FALSE  OBVIOUS
<1> DEFINE T == {k \in 0 .. n : k \notin G}
<1>1. PICK k \in T : \A m \in T : k =< m
  <2>1. T \subseteq Nat /\ T # {}  OBVIOUS
  <2> QED  BY <2>1, LeastOne
<1>2. k # 0 /\ k \in 1 .. n  BY <1>1
<1>3. k - 1 \in G  BY <1>1, <1>2
<1> QED  BY <1>1, <1>2, <1>3

LEMMA GreatestOne ==
  ASSUME NEW n \in Nat, NEW s, s \subseteq 0 .. n, s # {}
  PROVE  Max(s) \in s /\ \A y \in s : y =< Max(s)
<1> DEFINE U == {u \in Nat : \A y \in s : y =< u}
<1>1. n \in U /\ U \subseteq Nat  OBVIOUS
<1>2. PICK u \in U : \A m \in U : u =< m  BY <1>1, LeastOne
<1>3. u \in s
  <2> SUFFICES ASSUME u \notin s PROVE FALSE  OBVIOUS
  <2>1. \A y \in s : y \in Nat /\ y =< u /\ y # u  BY <1>2
  <2>2. u \in Nat /\ \A y \in s : y =< u - 1  BY <2>1, <1>2
  <2>3. PICK y \in s : TRUE  OBVIOUS
  <2>4. u - 1 \in U  BY <2>1, <2>2, <2>3
  <2> QED  BY <2>4, <1>2
<1>4. \E x \in s : \A y \in s : x >= y  BY <1>2, <1>3
<1>5. Max(s) \in s /\ \A y \in s : Max(s) >= y  BY <1>4, Zenon DEF Max
<1> QED  BY <1>5

LEMMA SmallestOne ==
  ASSUME NEW s, s \subseteq Nat, s # {}
  PROVE  Min(s) \in s /\ \A y \in s : Min(s) =< y
<1>1. \E x \in s : \A y \in s : x =< y  BY LeastOne
<1> QED  BY <1>1, Zenon DEF Min

LEMMA MaxOfInterval ==
  ASSUME NEW k \in Nat \ {0}
  PROVE  Max(1 .. k) = k
<1>1. 1 .. k \subseteq 0 .. k /\ 1 .. k # {}  OBVIOUS
<1>2. Max(1 .. k) \in 1 .. k /\ \A y \in 1 .. k : y =< Max(1 .. k)  BY <1>1, GreatestOne
<1> QED  BY <1>2

\* Rows with different places can be put in order.
Sorted(s) == \A i, j \in DOMAIN s : i < j => s[i].pos < s[j].pos

LEMMA SortedExists ==
  ASSUME NEW S, IsFiniteSet(S), \A r \in S : r.pos \in Nat,
         \A r, q \in S : r # q => r.pos # q.pos
  PROVE  \E s \in [1 .. Cardinality(S) -> S] : Sorted(s)
<1> DEFINE G == {n \in Nat : \A X \in SUBSET S : Cardinality(X) = n =>
                              \E s \in [1 .. n -> X] : Sorted(s)}
<1>1. 0 \in G
  <2> SUFFICES ASSUME NEW X \in SUBSET S, Cardinality(X) = 0
               PROVE  \E s \in [1 .. 0 -> X] : Sorted(s)
    OBVIOUS
  <2> DEFINE s == [i \in 1 .. 0 |-> i]
  <2>1. s \in [1 .. 0 -> X] /\ Sorted(s)  BY DEF Sorted
  <2> QED  BY <2>1
<1>2. ASSUME NEW n \in Nat, n \in G PROVE n + 1 \in G
  <2> SUFFICES ASSUME NEW X \in SUBSET S, Cardinality(X) = n + 1
               PROVE  \E s \in [1 .. n + 1 -> X] : Sorted(s)
    OBVIOUS
  <2>1. IsFiniteSet(X)  BY FS_Subset
  <2>2. X # {}  BY <2>1, FS_EmptySet
  <2> DEFINE P == {r.pos : r \in X}
  <2>3. P \subseteq Nat /\ P # {}  BY <2>2
  <2>4. PICK m \in P : \A k \in P : m =< k  BY <2>3, LeastOne
  <2>5. PICK x \in X : m = x.pos  BY <2>4
  <2>6. \A r \in X \ {x} : x.pos < r.pos
    <3> SUFFICES ASSUME NEW r \in X, r # x PROVE x.pos < r.pos  OBVIOUS
    <3>1. r.pos \in P /\ r.pos # x.pos /\ r.pos \in Nat /\ x.pos \in Nat  OBVIOUS
    <3>2. x.pos =< r.pos  BY <3>1, <2>4, <2>5
    <3> QED  BY <3>1, <3>2
  <2>7. Cardinality(X \ {x}) = n
    <3>1. Cardinality(X \ {x}) = Cardinality(X) - 1  BY <2>1, FS_RemoveElement
    <3> QED  BY <3>1
  <2>8. PICK t \in [1 .. n -> X \ {x}] : Sorted(t)  BY <2>7, <1>2
  <2> DEFINE s == [i \in 1 .. n + 1 |-> IF i = 1 THEN x ELSE t[i - 1]]
  <2>9. s \in [1 .. n + 1 -> X]  OBVIOUS
  <2>10. Sorted(s)
    <3> SUFFICES ASSUME NEW i \in 1 .. n + 1, NEW j \in 1 .. n + 1, i < j
                 PROVE  s[i].pos < s[j].pos
      BY DEF Sorted
    <3>1. j # 1 /\ s[j] = t[j - 1] /\ j - 1 \in 1 .. n  OBVIOUS
    <3>2. CASE i = 1  BY <3>1, <3>2, <2>6
    <3>3. CASE i # 1
      <4>1. s[i] = t[i - 1] /\ i - 1 \in 1 .. n /\ i - 1 < j - 1  BY <3>3
      <4> QED  BY <4>1, <3>1, <2>8 DEF Sorted
    <3> QED  BY <3>2, <3>3
  <2> QED  BY <2>9, <2>10
<1>3. IsFiniteSet(S) => Cardinality(S) \in Nat  BY FS_CardinalityType
<1>4. Cardinality(S) \in G
  <2> HIDE DEF G
  <2> QED  BY <1>1, <1>2, <1>3, CountUp
<1> QED  BY <1>4

\* The pages are read in the order of the places, every row once.
LEMMA InOrderRows ==
  ASSUME NEW S, IsFiniteSet(S), \A r \in S : r.pos \in Nat,
         \A r, q \in S : r # q => r.pos # q.pos
  PROVE  /\ InOrder(S) \in Seq(S)
         /\ ToSet(InOrder(S)) = S
         /\ Sorted(InOrder(S))
<1> DEFINE n == Cardinality(S)
           s == InOrder(S)
<1>1. n \in Nat  BY FS_CardinalityType
<1>2. s \in [1 .. n -> S] /\ Sorted(s)  BY SortedExists, Zenon DEF InOrder, Sorted
<1>3. s \in Injection(1 .. n, S)
  <2> SUFFICES ASSUME NEW i \in 1 .. n, NEW j \in 1 .. n, s[i] = s[j] PROVE i = j
    BY <1>2 DEF Injection, IsInjective
  <2>1. s[i].pos \in Nat /\ s[j].pos \in Nat  BY <1>2
  <2>2. ~(i < j) /\ ~(j < i)  BY <2>1, <1>1, <1>2 DEF Sorted
  <2> QED  BY <2>2, <1>1
<1>4. Cardinality(1 .. n) = n /\ IsFiniteSet(1 .. n)  BY <1>1, FS_Interval
<1>5. s \in Surjection(1 .. n, S)  BY <1>3, <1>4, FS_Injection
<1>6. ToSet(s) = S  BY <1>2, <1>5 DEF Surjection, ToSet
<1>7. s \in Seq(S)  BY <1>1, <1>2
<1> QED  BY <1>2, <1>6, <1>7

-----------------------------------------------------------------------------
(* The loops, turn by turn *)

\* The loop of device_ledger over the rows of a page.
LEMMA AbsorbTurns ==
  ASSUME NEW base, NEW seq, NEW n \in Nat, DOMAIN seq = 1 .. n
  PROVE  \E turn : /\ turn[0] = base /\ turn[n] = AbsorbAll(base, seq)
                  /\ \A k \in 1 .. n : turn[k] = Absorb(turn[k - 1], seq[k])
<1> DEFINE Run(m, g) == g = [s \in SUBSET (1 .. m) |->
             IF s = {} THEN base ELSE Absorb(g[s \ {Max(s)}], seq[Max(s)])]
           G == {m \in Nat : \E g : Run(m, g)}
<1>1. \A m \in Nat : \A s \in SUBSET (1 .. m) : s # {} =>
        Max(s) \in s /\ Max(s) \in 1 .. m /\ \A y \in s : y =< Max(s)
  <2> SUFFICES ASSUME NEW m \in Nat, NEW s \in SUBSET (1 .. m), s # {}
               PROVE  Max(s) \in s /\ \A y \in s : y =< Max(s)
    OBVIOUS
  <2>1. s \subseteq 0 .. m  OBVIOUS
  <2> QED  BY <2>1, GreatestOne
<1>2. 0 \in G
  <2> DEFINE g == [s \in SUBSET (1 .. 0) |-> base]
  <2>1. \A s \in SUBSET (1 .. 0) : s = {}  OBVIOUS
  <2>2. g = [s \in SUBSET (1 .. 0) |->
             IF s = {} THEN base ELSE Absorb(g[s \ {Max(s)}], seq[Max(s)])]
    BY <2>1
  <2>3. Run(0, g)  BY <2>2
  <2> QED  BY <2>3
<1>3. ASSUME NEW m \in Nat, m \in G PROVE m + 1 \in G
  <2>1. PICK g : Run(m, g)  BY <1>3
  <2> DEFINE h == [s \in SUBSET (1 .. m + 1) |->
               IF m + 1 \in s THEN Absorb(g[s \ {m + 1}], seq[m + 1]) ELSE g[s]]
  <2>2. ASSUME NEW s \in SUBSET (1 .. m + 1)
        PROVE  h[s] = IF s = {} THEN base ELSE Absorb(h[s \ {Max(s)}], seq[Max(s)])
    <3>1. CASE m + 1 \in s
      <4>1. Max(s) = m + 1  BY <3>1, <1>1
      <4>2. s \ {m + 1} \in SUBSET (1 .. m) /\ s \ {m + 1} \in SUBSET (1 .. m + 1)  OBVIOUS
      <4>3. h[s \ {m + 1}] = g[s \ {m + 1}]  BY <4>2
      <4>4. h[s] = Absorb(g[s \ {m + 1}], seq[m + 1])  BY <3>1
      <4> QED  BY <3>1, <4>1, <4>3, <4>4
    <3>2. CASE m + 1 \notin s
      <4>1. s \in SUBSET (1 .. m)  BY <3>2
      <4>2. h[s] = g[s]  BY <3>2
      <4>3. CASE s = {}
        <5>1. g[s] = base  BY <4>1, <4>3, <2>1
        <5> QED  BY <5>1, <4>2, <4>3
      <4>4. CASE s # {}
        <5>1. g[s] = Absorb(g[s \ {Max(s)}], seq[Max(s)])  BY <4>1, <4>4, <2>1
        <5>2. s \ {Max(s)} \in SUBSET (1 .. m + 1) /\ m + 1 \notin s \ {Max(s)}  BY <3>2
        <5>3. h[s \ {Max(s)}] = g[s \ {Max(s)}]  BY <5>2
        <5> QED  BY <5>1, <5>3, <4>2, <4>4
      <4> QED  BY <4>3, <4>4
    <3> QED  BY <3>1, <3>2
  <2>3. h = [s \in SUBSET (1 .. m + 1) |->
             IF s = {} THEN base ELSE Absorb(h[s \ {Max(s)}], seq[Max(s)])]
    <3>1. h = [s \in SUBSET (1 .. m + 1) |-> h[s]]  OBVIOUS
    <3> HIDE DEF h
    <3> QED  BY <3>1, <2>2, Zenon
  <2>4. Run(m + 1, h)  BY <2>3
  <2> HIDE DEF h, Run
  <2> QED  BY <2>4
<1>4. \E g : Run(n, g)
  <2>1. n \in G
    <3> HIDE DEF G
    <3> QED  BY <1>2, <1>3, CountUp
  <2> QED  BY <2>1
<1> DEFINE iter == CHOOSE g : Run(n, g)
           turn == [k \in 0 .. n |-> iter[1 .. k]]
<1>5. AbsorbAll(base, seq) = iter[1 .. n]
  BY DEF AbsorbAll, FoldLeft, MapThenFoldSet
<1>6. Run(n, iter)
  <2> HIDE DEF Run
  <2> QED  BY <1>4, Zenon
<1> HIDE DEF iter
<1>7. \A s \in SUBSET (1 .. n) :
        iter[s] = IF s = {} THEN base ELSE Absorb(iter[s \ {Max(s)}], seq[Max(s)])
  BY <1>6
<1>8. turn[0] = base
  <2>1. 1 .. 0 = {}  OBVIOUS
  <2>2. turn[0] = iter[{}]  BY <2>1
  <2>3. iter[{}] = base  BY <1>7
  <2> QED  BY <2>2, <2>3
<1>9. turn[n] = AbsorbAll(base, seq)  BY <1>5
<1>10. ASSUME NEW k \in 1 .. n
       PROVE  turn[k] = Absorb(turn[k - 1], seq[k])
  <2>0. k \in Nat /\ 1 =< k /\ k =< n  OBVIOUS
  <2>1. 1 .. k \in SUBSET (1 .. n) /\ 1 \in 1 .. k  BY <2>0
  <2>2. Max(1 .. k) = k  BY MaxOfInterval
  <2>3. (1 .. k) \ {k} = 1 .. k - 1  OBVIOUS
  <2>4. iter[1 .. k] = Absorb(iter[1 .. k - 1], seq[k])  BY <2>1, <2>2, <2>3, <1>7
  <2>5. turn[k] = iter[1 .. k] /\ turn[k - 1] = iter[1 .. k - 1]  OBVIOUS
  <2> QED  BY <2>4, <2>5
<1> HIDE DEF turn
<1> QED  BY <1>8, <1>9, <1>10

\* The loop of snapshot over the rows of the ledger.
LEMMA ShowTurns ==
  ASSUME NEW red, NEW seq, NEW n \in Nat, DOMAIN seq = 1 .. n
  PROVE  \E turn : /\ turn[0] = {} /\ turn[n] = ByDevice(seq, red)
                  /\ \A k \in 1 .. n : turn[k] = Show(turn[k - 1], seq[k], red)
<1> DEFINE Run(m, g) == g = [s \in SUBSET (1 .. m) |->
             IF s = {} THEN {} ELSE Show(g[s \ {Max(s)}], seq[Max(s)], red)]
           G == {m \in Nat : \E g : Run(m, g)}
<1>1. \A m \in Nat : \A s \in SUBSET (1 .. m) : s # {} =>
        Max(s) \in s /\ Max(s) \in 1 .. m /\ \A y \in s : y =< Max(s)
  <2> SUFFICES ASSUME NEW m \in Nat, NEW s \in SUBSET (1 .. m), s # {}
               PROVE  Max(s) \in s /\ \A y \in s : y =< Max(s)
    OBVIOUS
  <2>1. s \subseteq 0 .. m  OBVIOUS
  <2> QED  BY <2>1, GreatestOne
<1>2. 0 \in G
  <2> DEFINE g == [s \in SUBSET (1 .. 0) |-> {}]
  <2>1. \A s \in SUBSET (1 .. 0) : s = {}  OBVIOUS
  <2>2. g = [s \in SUBSET (1 .. 0) |->
             IF s = {} THEN {} ELSE Show(g[s \ {Max(s)}], seq[Max(s)], red)]
    BY <2>1
  <2>3. Run(0, g)  BY <2>2
  <2> QED  BY <2>3
<1>3. ASSUME NEW m \in Nat, m \in G PROVE m + 1 \in G
  <2>1. PICK g : Run(m, g)  BY <1>3
  <2> DEFINE h == [s \in SUBSET (1 .. m + 1) |->
               IF m + 1 \in s THEN Show(g[s \ {m + 1}], seq[m + 1], red) ELSE g[s]]
  <2>2. ASSUME NEW s \in SUBSET (1 .. m + 1)
        PROVE  h[s] = IF s = {} THEN {} ELSE Show(h[s \ {Max(s)}], seq[Max(s)], red)
    <3>1. CASE m + 1 \in s
      <4>1. Max(s) = m + 1  BY <3>1, <1>1
      <4>2. s \ {m + 1} \in SUBSET (1 .. m) /\ s \ {m + 1} \in SUBSET (1 .. m + 1)  OBVIOUS
      <4>3. h[s \ {m + 1}] = g[s \ {m + 1}]  BY <4>2
      <4>4. h[s] = Show(g[s \ {m + 1}], seq[m + 1], red)  BY <3>1
      <4> QED  BY <3>1, <4>1, <4>3, <4>4
    <3>2. CASE m + 1 \notin s
      <4>1. s \in SUBSET (1 .. m)  BY <3>2
      <4>2. h[s] = g[s]  BY <3>2
      <4>3. CASE s = {}
        <5>1. g[s] = {}  BY <4>1, <4>3, <2>1
        <5> QED  BY <5>1, <4>2, <4>3
      <4>4. CASE s # {}
        <5>1. g[s] = Show(g[s \ {Max(s)}], seq[Max(s)], red)  BY <4>1, <4>4, <2>1
        <5>2. s \ {Max(s)} \in SUBSET (1 .. m + 1) /\ m + 1 \notin s \ {Max(s)}  BY <3>2
        <5>3. h[s \ {Max(s)}] = g[s \ {Max(s)}]  BY <5>2
        <5> QED  BY <5>1, <5>3, <4>2, <4>4
      <4> QED  BY <4>3, <4>4
    <3> QED  BY <3>1, <3>2
  <2>3. h = [s \in SUBSET (1 .. m + 1) |->
             IF s = {} THEN {} ELSE Show(h[s \ {Max(s)}], seq[Max(s)], red)]
    <3>1. h = [s \in SUBSET (1 .. m + 1) |-> h[s]]  OBVIOUS
    <3> HIDE DEF h
    <3> QED  BY <3>1, <2>2, Zenon
  <2>4. Run(m + 1, h)  BY <2>3
  <2> HIDE DEF h, Run
  <2> QED  BY <2>4
<1>4. \E g : Run(n, g)
  <2>1. n \in G
    <3> HIDE DEF G
    <3> QED  BY <1>2, <1>3, CountUp
  <2> QED  BY <2>1
<1> DEFINE iter == CHOOSE g : Run(n, g)
           turn == [k \in 0 .. n |-> iter[1 .. k]]
<1>5. ByDevice(seq, red) = iter[1 .. n]
  BY DEF ByDevice, FoldLeft, MapThenFoldSet
<1>6. Run(n, iter)
  <2> HIDE DEF Run
  <2> QED  BY <1>4, Zenon
<1> HIDE DEF iter
<1>7. \A s \in SUBSET (1 .. n) :
        iter[s] = IF s = {} THEN {} ELSE Show(iter[s \ {Max(s)}], seq[Max(s)], red)
  BY <1>6
<1>8. turn[0] = {}
  <2>1. 1 .. 0 = {}  OBVIOUS
  <2>2. turn[0] = iter[{}]  BY <2>1
  <2>3. iter[{}] = {}  BY <1>7
  <2> QED  BY <2>2, <2>3
<1>9. turn[n] = ByDevice(seq, red)  BY <1>5
<1>10. ASSUME NEW k \in 1 .. n
       PROVE  turn[k] = Show(turn[k - 1], seq[k], red)
  <2>0. k \in Nat /\ 1 =< k /\ k =< n  OBVIOUS
  <2>1. 1 .. k \in SUBSET (1 .. n) /\ 1 \in 1 .. k  BY <2>0
  <2>2. Max(1 .. k) = k  BY MaxOfInterval
  <2>3. (1 .. k) \ {k} = 1 .. k - 1  OBVIOUS
  <2>4. iter[1 .. k] = Show(iter[1 .. k - 1], seq[k], red)  BY <2>1, <2>2, <2>3, <1>7
  <2>5. turn[k] = iter[1 .. k] /\ turn[k - 1] = iter[1 .. k - 1]  OBVIOUS
  <2> QED  BY <2>4, <2>5
<1> HIDE DEF turn
<1> QED  BY <1>8, <1>9, <1>10

-----------------------------------------------------------------------------
(* The ledger *)

(* A ledger of a set of rows: one row of every key, the latest of its key,  *)
(* the keys in the order in which they were first met.                      *)
LedgerOf(ledger, set) ==
  /\ ledger \in Seq(set)
  /\ \A i, j \in DOMAIN ledger : i # j => ~SameKey(ledger[i], ledger[j])
  /\ \A q \in set : \E i \in DOMAIN ledger :
       SameKey(ledger[i], q) /\ ~Later(q, ledger[i])
  /\ \A i, j \in DOMAIN ledger : i < j =>
       \E q \in set : SameKey(q, ledger[i]) /\
                      \A p \in set : SameKey(p, ledger[j]) => q.pos < p.pos

LEMMA LaterOrder ==
  ASSUME NEW r \in SignalRows, NEW q \in SignalRows, NEW p \in SignalRows
  PROVE  /\ ~Later(r, r)
         /\ Later(r, q) => ~Later(q, r)
         /\ ~Later(r, q) /\ ~Later(q, p) => ~Later(r, p)
         /\ r.id # q.id => Later(r, q) \/ Later(q, r)
<1>1. /\ r.time \in Nat /\ r.id \in Nat /\ q.time \in Nat /\ q.id \in Nat
      /\ p.time \in Nat /\ p.id \in Nat
  BY DEF SignalRows
<1> QED  BY <1>1 DEF Later

\* The loop of device_ledger keeps a ledger: whatever the times of the rows,
\* when they come in the order of their places.
LEMMA AbsorbKeepsLedger ==
  ASSUME NEW set, set \subseteq SignalRows, NEW ledger, LedgerOf(ledger, set),
         NEW row \in SignalRows, \A q \in set : q.pos < row.pos
  PROVE  LedgerOf(Absorb(ledger, row), set \cup {row})
<1> DEFINE more == set \cup {row}
           same == {i \in DOMAIN ledger : SameKey(ledger[i], row)}
           new == Absorb(ledger, row)
<1>1. ~row.late  BY DEF SignalRows
<1>2. /\ ledger \in Seq(set)
      /\ \A i, j \in DOMAIN ledger : i # j => ~SameKey(ledger[i], ledger[j])
      /\ \A q \in set : \E i \in DOMAIN ledger : SameKey(ledger[i], q) /\ ~Later(q, ledger[i])
      /\ \A i, j \in DOMAIN ledger : i < j =>
           \E q \in set : SameKey(q, ledger[i]) /\
                          \A p \in set : SameKey(p, ledger[j]) => q.pos < p.pos
  BY DEF LedgerOf
<1>3. Len(ledger) \in Nat /\ DOMAIN ledger = 1 .. Len(ledger)
      /\ \A i \in DOMAIN ledger : ledger[i] \in set
  BY <1>2
<1>4. CASE same = {}
  <2>1. new = Append(ledger, row)  BY <1>1, <1>4 DEF Absorb
  <2>2. /\ Len(new) = Len(ledger) + 1 /\ DOMAIN new = 1 .. Len(ledger) + 1
        /\ new[Len(ledger) + 1] = row
        /\ \A i \in DOMAIN ledger : new[i] = ledger[i]
        /\ new \in Seq(more)
    BY <1>2, <1>3, <2>1
  <2>3. \A i \in DOMAIN new : i \in DOMAIN ledger \/ i = Len(ledger) + 1  BY <1>3, <2>2
  <2>4. \A i, j \in DOMAIN new : i # j => ~SameKey(new[i], new[j])
    BY <1>2, <1>4, <2>2, <2>3 DEF SameKey
  <2>5. \A q \in more : \E i \in DOMAIN new : SameKey(new[i], q) /\ ~Later(q, new[i])
    <3> SUFFICES ASSUME NEW q \in more
                 PROVE  \E i \in DOMAIN new : SameKey(new[i], q) /\ ~Later(q, new[i])
      OBVIOUS
    <3>1. CASE q = row
      <4>1. Len(ledger) + 1 \in DOMAIN new  BY <1>3, <2>2
      <4>2. SameKey(row, row) /\ ~Later(row, row)  BY LaterOrder DEF SameKey
      <4> QED  BY <3>1, <4>1, <4>2, <2>2
    <3>2. CASE q \in set
      <4>1. PICK i \in DOMAIN ledger : SameKey(ledger[i], q) /\ ~Later(q, ledger[i])
        BY <3>2, <1>2
      <4>2. i \in DOMAIN new  BY <1>3, <2>2
      <4> QED  BY <4>1, <4>2, <2>2
    <3> QED  BY <3>1, <3>2
  <2>6. ASSUME NEW i \in DOMAIN new, NEW j \in DOMAIN new, i < j
        PROVE  \E q \in more : SameKey(q, new[i]) /\
                               \A p \in more : SameKey(p, new[j]) => q.pos < p.pos
    <3>1. i \in DOMAIN ledger  BY <2>6, <2>2, <1>3
    <3>2. new[i] = ledger[i]  BY <3>1, <2>2
    <3>3. ~SameKey(row, new[i])  BY <1>4, <3>1, <3>2 DEF SameKey
    <3>4. CASE j = Len(ledger) + 1
      <4>1. new[j] = row  BY <3>4, <2>2
      <4>2. \A p \in set : ~SameKey(p, row)  BY <1>2, <1>4 DEF SameKey
      <4>3. SameKey(ledger[i], new[i]) /\ ledger[i] \in set  BY <3>1, <3>2, <1>3 DEF SameKey
      <4> QED  BY <4>1, <4>2, <4>3
    <3>5. CASE j \in DOMAIN ledger
      <4>1. new[j] = ledger[j]  BY <3>5, <2>2
      <4>2. PICK q \in set : SameKey(q, ledger[i]) /\
                             \A p \in set : SameKey(p, ledger[j]) => q.pos < p.pos
        BY <3>1, <3>5, <2>6, <1>2
      <4> QED  BY <4>1, <4>2, <3>2
    <3> QED  BY <3>4, <3>5, <2>3
  <2> QED  BY <2>2, <2>4, <2>5, <2>6 DEF LedgerOf
<1>5. CASE same # {}
  <2>1. new = [i \in DOMAIN ledger |->
                 IF i \in same /\ Later(row, ledger[i]) THEN row ELSE ledger[i]]
    BY <1>1, <1>5 DEF Absorb
  <2>2. /\ DOMAIN new = DOMAIN ledger
        /\ \A i \in DOMAIN ledger : new[i] =
             IF i \in same /\ Later(row, ledger[i]) THEN row ELSE ledger[i]
    BY <2>1
  <2>3. new \in Seq(more)
    <3> HIDE DEF same
    <3>1. new = [i \in 1 .. Len(ledger) |->
                   IF i \in same /\ Later(row, ledger[i]) THEN row ELSE ledger[i]]
      BY <2>1, <1>3
    <3>2. \A i \in 1 .. Len(ledger) : ledger[i] \in more  BY <1>3
    <3> HIDE DEF new
    <3> QED  BY <3>1, <3>2, <1>3
  <2>4. \A i \in DOMAIN ledger : SameKey(new[i], ledger[i])  BY <2>2 DEF SameKey
  <2>5. \A i, j \in DOMAIN new : i # j => ~SameKey(new[i], new[j])
    BY <1>2, <2>2, <2>4 DEF SameKey
  <2>6. ASSUME NEW q \in more
        PROVE  \E i \in DOMAIN new : SameKey(new[i], q) /\ ~Later(q, new[i])
    <3>1. CASE q = row
      <4>1. PICK i \in same : TRUE  BY <1>5
      <4>2. SameKey(new[i], q) /\ ~Later(q, new[i])
        <5>1. CASE Later(row, ledger[i])
          <6>1. new[i] = row  BY <5>1, <4>1, <2>2
          <6> QED  BY <3>1, <6>1, LaterOrder DEF SameKey
        <5>2. CASE ~Later(row, ledger[i])
          <6>1. new[i] = ledger[i]  BY <5>2, <4>1, <2>2
          <6> QED  BY <3>1, <6>1, <5>2, <4>1
        <5> QED  BY <5>1, <5>2
      <4> QED  BY <4>1, <4>2, <2>2
    <3>2. CASE q \in set
      <4>1. PICK i \in DOMAIN ledger : SameKey(ledger[i], q) /\ ~Later(q, ledger[i])
        BY <3>2, <1>2
      <4>2. SameKey(new[i], q)  BY <4>1, <2>4 DEF SameKey
      <4>3. ~Later(q, new[i])
        <5>1. CASE i \in same /\ Later(row, ledger[i])
          <6>1. new[i] = row  BY <5>1, <2>2
          <6>2. q \in SignalRows /\ ledger[i] \in SignalRows  BY <3>2, <1>3
          <6>3. ~Later(ledger[i], row)  BY <6>2, <5>1, LaterOrder
          <6> QED  BY <6>1, <6>2, <6>3, <4>1, LaterOrder
        <5>2. CASE ~(i \in same /\ Later(row, ledger[i]))
          <6>1. new[i] = ledger[i]  BY <5>2, <2>2
          <6> QED  BY <6>1, <4>1
        <5> QED  BY <5>1, <5>2
      <4> QED  BY <4>2, <4>3, <2>2
    <3> QED  BY <3>1, <3>2
  <2>7. ASSUME NEW i \in DOMAIN new, NEW j \in DOMAIN new, i < j
        PROVE  \E q \in more : SameKey(q, new[i]) /\
                               \A p \in more : SameKey(p, new[j]) => q.pos < p.pos
    <3>1. PICK q \in set : SameKey(q, ledger[i]) /\
                           \A p \in set : SameKey(p, ledger[j]) => q.pos < p.pos
      BY <2>7, <2>2, <1>2
    <3>2. SameKey(q, new[i])  BY <3>1, <2>2, <2>4 DEF SameKey
    <3>3. \A p \in set : SameKey(p, new[j]) => q.pos < p.pos  BY <3>1, <2>2, <2>4 DEF SameKey
    <3>4. q.pos < row.pos  OBVIOUS
    <3> QED  BY <3>2, <3>3, <3>4
  <2> QED  BY <2>2, <2>3, <2>5, <2>6, <2>7 DEF LedgerOf
<1> QED  BY <1>4, <1>5

\* Rows that came after the resolution are passed over.
LEMMA AbsorbSkipsLate ==
  ASSUME NEW ledger, NEW row, row.late
  PROVE  Absorb(ledger, row) = ledger
BY DEF Absorb

LEMMA EmptyLedger ==
  LedgerOf(<<>>, {})
BY DEF LedgerOf

\* A page keeps a ledger: its rows follow those absorbed, in the order of
\* their places; the late ones do not count.
LEMMA PageKeepsLedger ==
  ASSUME NEW set, NEW ledger, LedgerOf(ledger, set),
         NEW page, NEW all, page \in Seq(all), Sorted(page),
         \A r \in all : r.pos \in Nat /\ (~r.late => r \in SignalRows),
         set \subseteq SignalRows,
         \A q \in set : \A r \in ToSet(page) : q.pos < r.pos
  PROVE  LedgerOf(AbsorbAll(ledger, page), set \cup {r \in ToSet(page) : ~r.late})
<1> DEFINE n == Len(page)
           seen(k) == set \cup {r \in {page[i] : i \in 1 .. k} : ~r.late}
<1>1. n \in Nat /\ DOMAIN page = 1 .. n /\ \A i \in 1 .. n : page[i] \in all  OBVIOUS
<1>2. PICK turn : /\ turn[0] = ledger /\ turn[n] = AbsorbAll(ledger, page)
                  /\ \A k \in 1 .. n : turn[k] = Absorb(turn[k - 1], page[k])
  BY <1>1, AbsorbTurns
<1> DEFINE G == {k \in Nat : k =< n => LedgerOf(turn[k], seen(k))}
<1>3. 0 \in G
  <2>1. 1 .. 0 = {}  OBVIOUS
  <2>2. seen(0) = set  BY <2>1
  <2> QED  BY <2>2, <1>2
<1>4. ASSUME NEW k \in Nat, k \in G, k < n PROVE k + 1 \in G
  <2>0. k + 1 \in 1 .. n /\ 1 .. k + 1 = (1 .. k) \cup {k + 1} /\ k =< n  BY <1>1, <1>4
  <2> DEFINE row == page[k + 1]
  <2>1. LedgerOf(turn[k], seen(k))  BY <1>4, <2>0
  <2>2. turn[k + 1] = Absorb(turn[k], row)  BY <1>2, <2>0
  <2>3. row \in all /\ row \in ToSet(page)  BY <1>1, <2>0 DEF ToSet
  <2>4. CASE row.late
    <3>1. seen(k + 1) = seen(k)  BY <2>0, <2>4
    <3>2. turn[k + 1] = turn[k]  BY <2>2, <2>4, AbsorbSkipsLate
    <3>3. LedgerOf(turn[k + 1], seen(k + 1))
      <4> HIDE DEF seen
      <4> QED  BY <3>1, <3>2, <2>1
    <3> QED  BY <3>3
  <2>5. CASE ~row.late
    <3>1. seen(k + 1) = seen(k) \cup {row}  BY <2>0, <2>5
    <3>2. seen(k) \subseteq SignalRows
      <4>1. \A i \in 1 .. k : page[i] \in all  BY <1>1, <2>0
      <4> QED  BY <4>1
    <3>3. \A q \in seen(k) : q.pos < row.pos
      <4> SUFFICES ASSUME NEW q \in seen(k) PROVE q.pos < row.pos  OBVIOUS
      <4>1. CASE q \in set  BY <4>1, <2>3
      <4>2. CASE q \notin set
        <5>1. PICK i \in 1 .. k : q = page[i]  BY <4>2
        <5>2. i \in DOMAIN page /\ k + 1 \in DOMAIN page /\ i < k + 1  BY <1>1, <2>0, <5>1
        <5> QED  BY <5>1, <5>2 DEF Sorted
      <4> QED  BY <4>1, <4>2
    <3>4. row \in SignalRows  BY <2>3, <2>5
    <3>5. LedgerOf(turn[k + 1], seen(k) \cup {row})
      <4> HIDE DEF seen, row
      <4> QED  BY <2>1, <2>2, <3>2, <3>3, <3>4, AbsorbKeepsLedger
    <3>6. LedgerOf(turn[k + 1], seen(k + 1))
      <4> HIDE DEF seen
      <4> QED  BY <3>1, <3>5
    <3> QED  BY <3>6
  <2> QED  BY <2>4, <2>5
<1>5. n \in G
  <2> HIDE DEF G
  <2> QED  BY <1>1, <1>3, <1>4, CountUp
<1>6. LedgerOf(turn[n], seen(n))  BY <1>5, <1>1
<1>7. {page[i] : i \in 1 .. n} = ToSet(page)  BY <1>1 DEF ToSet
<1> QED  BY <1>2, <1>6, <1>7

-----------------------------------------------------------------------------
(* What a ledger amounts to *)

LEMMA LedgerIsLatest ==
  ASSUME NEW set, set \subseteq SignalRows, NEW ledger, LedgerOf(ledger, set),
         \A r, q \in set : r # q /\ SameKey(r, q) => r.id # q.id
  PROVE  ToSet(ledger) = Latest(set)
<1>1. /\ DOMAIN ledger = 1 .. Len(ledger) /\ \A i \in DOMAIN ledger : ledger[i] \in set
      /\ \A i, j \in DOMAIN ledger : i # j => ~SameKey(ledger[i], ledger[j])
      /\ \A q \in set : \E i \in DOMAIN ledger : SameKey(ledger[i], q) /\ ~Later(q, ledger[i])
  BY DEF LedgerOf
<1>2. ASSUME NEW i \in DOMAIN ledger
      PROVE  ledger[i] \in Latest(set)
  <2> SUFFICES ASSUME NEW q \in set, SameKey(ledger[i], q) PROVE ~Later(q, ledger[i])
    BY <1>1 DEF Latest
  <2>1. PICK j \in DOMAIN ledger : SameKey(ledger[j], q) /\ ~Later(q, ledger[j])  BY <1>1
  <2>2. SameKey(ledger[i], ledger[j])  BY <2>1 DEF SameKey
  <2>3. i = j  BY <2>2, <1>1
  <2> QED  BY <2>1, <2>3
<1>3. ASSUME NEW r \in Latest(set)
      PROVE  \E i \in DOMAIN ledger : ledger[i] = r
  <2>1. r \in set /\ \A q \in set : SameKey(r, q) => ~Later(q, r)  BY DEF Latest
  <2>2. PICK i \in DOMAIN ledger : SameKey(ledger[i], r) /\ ~Later(r, ledger[i])
    BY <1>1, <2>1
  <2>3. ledger[i] \in set /\ SameKey(r, ledger[i])  BY <1>1, <2>2 DEF SameKey
  <2>4. ~Later(ledger[i], r)  BY <2>1, <2>3
  <2>5. r \in SignalRows /\ ledger[i] \in SignalRows  BY <2>1, <2>3
  <2>6. r.id = ledger[i].id  BY <2>2, <2>4, <2>5, LaterOrder
  <2> QED  BY <2>1, <2>3, <2>6
<1> QED  BY <1>2, <1>3 DEF ToSet

\* The keys of a ledger are in the order of the first row of each.
LEMMA LedgerOrder ==
  ASSUME NEW set, set \subseteq SignalRows, NEW ledger, LedgerOf(ledger, set),
         NEW i \in DOMAIN ledger, NEW j \in DOMAIN ledger, i < j
  PROVE  FirstMet(set, ledger[i]) < FirstMet(set, ledger[j])
<1>1. PICK q \in set : SameKey(q, ledger[i]) /\
                       \A p \in set : SameKey(p, ledger[j]) => q.pos < p.pos
  BY DEF LedgerOf
<1> DEFINE P(r) == {x.pos : x \in {p \in set : SameKey(p, r)}}
<1>2. \A r \in set : P(r) \subseteq Nat /\ P(r) # {}
  <2> SUFFICES ASSUME NEW r \in set PROVE P(r) \subseteq Nat /\ r.pos \in P(r)  OBVIOUS
  <2>1. \A p \in set : p.pos \in Nat  BY DEF SignalRows
  <2>2. SameKey(r, r)  BY DEF SameKey
  <2> QED  BY <2>1, <2>2
<1>3. ledger[i] \in set /\ ledger[j] \in set  BY DEF LedgerOf
<1>4. FirstMet(set, ledger[i]) = Min(P(ledger[i])) /\ FirstMet(set, ledger[j]) = Min(P(ledger[j]))
  BY DEF FirstMet
<1>5. /\ Min(P(ledger[i])) \in P(ledger[i]) /\ \A y \in P(ledger[i]) : Min(P(ledger[i])) =< y
      /\ Min(P(ledger[j])) \in P(ledger[j])
  <2> HIDE DEF P
  <2> QED  BY <1>2, <1>3, SmallestOne
<1>6. q.pos \in P(ledger[i])  BY <1>1
<1>7. PICK p \in set : SameKey(p, ledger[j]) /\ p.pos = Min(P(ledger[j]))  BY <1>5
<1>8. q.pos < p.pos  BY <1>1, <1>7
<1>9. q.pos \in Nat /\ p.pos \in Nat  BY DEF SignalRows
<1>10. Min(P(ledger[i])) \in Nat  BY <1>2, <1>3, <1>5
<1>11. Min(P(ledger[i])) =< q.pos  BY <1>5, <1>6
<1> QED  BY <1>4, <1>7, <1>8, <1>9, <1>10, <1>11

Present(ledger, i) == ledger[i].alarm # "clear"

\* The first row of a device that is not clear, among the first n.
Firsts(ledger, n) ==
  {i \in 1 .. n : /\ Present(ledger, i)
                  /\ \A j \in 1 .. n : j < i /\ Present(ledger, j)
                       => ledger[j].device # ledger[i].device}

\* The loop of snapshot shows every device by its first active row: a row that
\* comes later never takes its place, the colour being that of the device.
LEMMA ByDeviceShowsFirsts ==
  ASSUME NEW ledger, NEW n \in Nat, DOMAIN ledger = 1 .. n, NEW red
  PROVE  ByDevice(ledger, red) = {Summarized(ledger[i], red) : i \in Firsts(ledger, n)}
<1>1. PICK turn : /\ turn[0] = {} /\ turn[n] = ByDevice(ledger, red)
                  /\ \A k \in 1 .. n : turn[k] = Show(turn[k - 1], ledger[k], red)
  BY ShowTurns
<1> DEFINE shown(k) == {Summarized(ledger[i], red) : i \in Firsts(ledger, k)}
           G == {k \in Nat : k =< n => turn[k] = shown(k)}
<1>2. 0 \in G
  <2>1. Firsts(ledger, 0) = {}  BY DEF Firsts
  <2>2. shown(0) = {}  BY <2>1
  <2> QED  BY <1>1, <2>2
<1>3. ASSUME NEW k \in Nat, k \in G, k < n PROVE k + 1 \in G
  <2> DEFINE row == ledger[k + 1]
             new == Summarized(row, red)
             previous == {d \in turn[k] : d.device = row.device}
  <2>0. k + 1 \in 1 .. n /\ k =< n /\ 1 .. k + 1 = (1 .. k) \cup {k + 1}  BY <1>3
  <2>1. turn[k] = shown(k)  BY <1>3, <2>0
  <2>2. turn[k + 1] = Show(turn[k], row, red)  BY <1>1, <2>0
  <2>3. \A i \in 1 .. k : i \in Firsts(ledger, k + 1) <=> i \in Firsts(ledger, k)
    BY <2>0 DEF Firsts
  <2>4. Firsts(ledger, k + 1) \subseteq 1 .. k + 1 /\ Firsts(ledger, k) \subseteq 1 .. k
    BY DEF Firsts
  <2>5. CASE row.alarm = "clear"
    <3>1. turn[k + 1] = turn[k]  BY <2>2, <2>5 DEF Show
    <3>2. k + 1 \notin Firsts(ledger, k + 1)  BY <2>5 DEF Firsts, Present
    <3>3. Firsts(ledger, k + 1) = Firsts(ledger, k)  BY <3>2, <2>0, <2>3, <2>4
    <3> QED  BY <3>1, <3>3, <2>1
  <2>6. CASE row.alarm # "clear" /\ \A j \in 1 .. k : Present(ledger, j) => ledger[j].device # row.device
    <3>1. k + 1 \in Firsts(ledger, k + 1)  BY <2>0, <2>6 DEF Firsts, Present
    <3>2. Firsts(ledger, k + 1) = Firsts(ledger, k) \cup {k + 1}  BY <3>1, <2>0, <2>3, <2>4
    <3>3. previous = {}
      <4> SUFFICES ASSUME NEW i \in Firsts(ledger, k)
                   PROVE  Summarized(ledger[i], red).device # row.device
        BY <2>1
      <4>1. i \in 1 .. k /\ Present(ledger, i)  BY DEF Firsts
      <4> QED  BY <4>1, <2>6 DEF Summarized
    <3>4. turn[k + 1] = turn[k] \cup {new}
      <4>1. turn[k + 1] = (turn[k] \ previous) \cup {new}  BY <3>3, <2>2, <2>6 DEF Show
      <4> QED  BY <4>1, <3>3
    <3> QED  BY <3>2, <3>4, <2>1
  <2>7. CASE row.alarm # "clear" /\ \E j \in 1 .. k : Present(ledger, j) /\ ledger[j].device = row.device
    <3> DEFINE J == {j \in 1 .. k : Present(ledger, j) /\ ledger[j].device = row.device}
    <3>1. PICK i \in J : \A j \in J : i =< j
      <4>1. J \subseteq Nat /\ J # {}  BY <2>7
      <4> QED  BY <4>1, LeastOne
    <3>2. i \in Firsts(ledger, k)
      <4> SUFFICES ASSUME NEW j \in 1 .. k, j < i, Present(ledger, j),
                          ledger[j].device = ledger[i].device
                   PROVE  FALSE
        BY <3>1 DEF Firsts
      <4>1. j \in J  BY <3>1
      <4> QED  BY <3>1, <4>1
    <3>3. Summarized(ledger[i], red) \in previous  BY <2>1, <3>1, <3>2 DEF Summarized
    <3>4. ~(new.level = "red" /\ \A d \in previous : d.level # "red")
      <4> SUFFICES ASSUME new.level = "red" PROVE Summarized(ledger[i], red).level = "red"
        BY <3>3
      <4>1. row.device \in red  BY <2>7 DEF Summarized, Level
      <4>2. ledger[i].device \in red /\ ledger[i].alarm # "clear"  BY <3>1, <4>1 DEF Present
      <4> QED  BY <4>2 DEF Summarized, Level
    <3>5. turn[k + 1] = turn[k]  BY <2>2, <2>7, <3>3, <3>4 DEF Show
    <3>6. k + 1 \notin Firsts(ledger, k + 1)
      <4>1. i \in 1 .. k + 1 /\ i < k + 1 /\ Present(ledger, i) /\ ledger[i].device = row.device
        BY <3>1, <2>0
      <4> QED  BY <4>1 DEF Firsts
    <3>7. Firsts(ledger, k + 1) = Firsts(ledger, k)  BY <3>6, <2>0, <2>3, <2>4
    <3> QED  BY <3>5, <3>7, <2>1
  <2> QED  BY <2>5, <2>6, <2>7
<1>4. n \in G
  <2> HIDE DEF G
  <2> QED  BY <1>2, <1>3, CountUp
<1> QED  BY <1>1, <1>4

\* The greatest time is that of the row no other is later than.
LEMMA LastReport ==
  ASSUME NEW set, set \subseteq SignalRows, NEW ledger, LedgerOf(ledger, set), ledger # <<>>
  PROVE  (CHOOSE r \in ToSet(ledger) : \A q \in ToSet(ledger) : ~Later(q, r)).time
           = Max({r.time : r \in set})
<1> DEFINE n == Len(ledger)
           G == {k \in Nat : k + 1 =< n =>
                  \E i \in 1 .. k + 1 : \A j \in 1 .. k + 1 : ~Later(ledger[j], ledger[i])}
<1>1. /\ n \in Nat \ {0} /\ DOMAIN ledger = 1 .. n
      /\ \A i \in 1 .. n : ledger[i] \in SignalRows /\ ledger[i] \in set
  BY DEF LedgerOf
<1>2. 0 \in G
  <2>1. 1 \in 1 .. n /\ 1 .. 0 + 1 = {1}  BY <1>1
  <2> QED  BY <2>1, <1>1, LaterOrder
<1>3. ASSUME NEW k \in Nat, k \in G, k < n - 1 PROVE k + 1 \in G
  <2>1. k + 1 =< n /\ 1 .. (k + 1) + 1 = (1 .. k + 1) \cup {k + 2} /\ k + 2 \in 1 .. n
        /\ 1 .. k + 1 \subseteq 1 .. n
    BY <1>1, <1>3
  <2>2. PICK i \in 1 .. k + 1 : \A j \in 1 .. k + 1 : ~Later(ledger[j], ledger[i])
    BY <1>3, <2>1
  <2> DEFINE row == ledger[k + 2]
  <2>3. CASE ~Later(row, ledger[i])
    <3>1. \A j \in 1 .. (k + 1) + 1 : ~Later(ledger[j], ledger[i])  BY <2>1, <2>2, <2>3
    <3> QED  BY <3>1, <2>1
  <2>4. CASE Later(row, ledger[i])
    <3>1. ASSUME NEW j \in 1 .. k + 1 PROVE ~Later(ledger[j], row)
      <4>1. ledger[j] \in SignalRows /\ ledger[i] \in SignalRows /\ row \in SignalRows
        BY <1>1, <2>1
      <4>2. ~Later(ledger[j], ledger[i]) /\ ~Later(ledger[i], row)
        BY <4>1, <2>2, <2>4, LaterOrder
      <4> QED  BY <4>1, <4>2, LaterOrder
    <3>2. ~Later(row, row)  BY <1>1, <2>1, LaterOrder
    <3>3. \A j \in 1 .. (k + 1) + 1 : ~Later(ledger[j], ledger[k + 2])  BY <2>1, <3>1, <3>2
    <3> QED  BY <3>3, <2>1
  <2> QED  BY <2>3, <2>4
<1>4. n - 1 \in G
  <2>1. n - 1 \in Nat  BY <1>1
  <2> HIDE DEF G
  <2> QED  BY <2>1, <1>2, <1>3, CountUp
<1>5. PICK i \in 1 .. n : \A j \in 1 .. n : ~Later(ledger[j], ledger[i])
  <2>1. (n - 1) + 1 = n /\ n - 1 \in Nat  BY <1>1
  <2>2. \E i \in 1 .. (n - 1) + 1 : \A j \in 1 .. (n - 1) + 1 : ~Later(ledger[j], ledger[i])
    BY <1>4, <2>1
  <2> QED  BY <2>1, <2>2
<1> DEFINE last == CHOOSE r \in ToSet(ledger) : \A q \in ToSet(ledger) : ~Later(q, r)
<1>6. ledger[i] \in ToSet(ledger) /\ \A q \in ToSet(ledger) : ~Later(q, ledger[i])
  BY <1>1, <1>5 DEF ToSet
<1>7. last \in ToSet(ledger) /\ \A q \in ToSet(ledger) : ~Later(q, last)  BY <1>6
<1> HIDE DEF last
<1>8. last \in set /\ \A q \in set : ~Later(q, last)
  <2>1. last \in set  BY <1>1, <1>7 DEF ToSet
  <2> SUFFICES ASSUME NEW q \in set PROVE ~Later(q, last)  BY <2>1
  <2>2. PICK j \in DOMAIN ledger : ~Later(q, ledger[j])  BY DEF LedgerOf
  <2>3. ledger[j] \in ToSet(ledger) /\ ledger[j] \in SignalRows  BY <1>1, <2>2 DEF ToSet
  <2>4. ~Later(ledger[j], last)  BY <2>3, <1>7
  <2> QED  BY <2>1, <2>2, <2>3, <2>4, LaterOrder
<1> DEFINE T == {r.time : r \in set}
<1>9. \A r \in set : r.time \in Nat  BY DEF SignalRows
<1>10. last.time \in T /\ \A y \in T : last.time >= y
  <2> SUFFICES ASSUME NEW q \in set PROVE last.time >= q.time  BY <1>8
  <2>1. ~Later(q, last)  BY <1>8
  <2> QED  BY <2>1, <1>8, <1>9 DEF Later
<1>11. Max(T) \in T /\ \A y \in T : Max(T) >= y
  <2> HIDE DEF T
  <2> QED  BY <1>10, Zenon DEF Max
<1>12. T \subseteq Nat  BY <1>9
<1>13. Max(T) = last.time
  <2> HIDE DEF T
  <2>1. Max(T) \in Nat /\ last.time \in Nat  BY <1>10, <1>11, <1>12
  <2>2. Max(T) >= last.time /\ last.time >= Max(T)  BY <1>10, <1>11
  <2> QED  BY <2>1, <2>2
<1> QED  BY <1>13 DEF last

\* What snapshot makes of a ledger is the state of the set of its rows.
LEMMA LedgerState ==
  ASSUME NEW set, set \subseteq SignalRows, NEW ledger, LedgerOf(ledger, set),
         \A r, q \in set : r # q /\ SameKey(r, q) => r.id # q.id
  PROVE  State(ledger) = StateOf(set)
<1> DEFINE n == Len(ledger)
           live == Live(set)
           red == RedDevices(live)
<1>1. n \in Nat /\ DOMAIN ledger = 1 .. n /\ \A i \in 1 .. n : ledger[i] \in set
  BY DEF LedgerOf
<1>2. ToSet(ledger) = Latest(set)  BY LedgerIsLatest
<1>3. Active(ledger) = live  BY <1>2 DEF Active, Live
<1>4. \A r : r \in live <=> \E i \in 1 .. n : r = ledger[i] /\ Present(ledger, i)
  BY <1>1, <1>3 DEF Active, ToSet, Present
<1>5. \A i, j \in 1 .. n : i < j => FirstMet(set, ledger[i]) < FirstMet(set, ledger[j])
  BY <1>1, LedgerOrder
<1>6. \A r \in set : FirstMet(set, r) \in Nat
  <2> SUFFICES ASSUME NEW r \in set PROVE FirstMet(set, r) \in Nat  OBVIOUS
  <2> DEFINE P == {x.pos : x \in {p \in set : SameKey(p, r)}}
  <2>1. \A p \in set : p.pos \in Nat  BY DEF SignalRows
  <2>2. SameKey(r, r)  BY DEF SameKey
  <2>3. P \subseteq Nat /\ P # {}  BY <2>1, <2>2
  <2>4. Min(P) \in P  BY <2>3, SmallestOne
  <2> QED  BY <2>3, <2>4 DEF FirstMet
<1> DEFINE heads == {q \in live : \A p \in live : p.device = q.device =>
                                    FirstMet(set, q) =< FirstMet(set, p)}
<1>7. ASSUME NEW r
      PROVE  r \in heads <=> \E i \in Firsts(ledger, n) : r = ledger[i]
  <2>1. ASSUME r \in heads PROVE \E i \in Firsts(ledger, n) : r = ledger[i]
    <3>1. PICK i \in 1 .. n : r = ledger[i] /\ Present(ledger, i)  BY <2>1, <1>4
    <3>2. ASSUME NEW j \in 1 .. n, j < i, Present(ledger, j)
          PROVE  ledger[j].device # ledger[i].device
      <4>1. ledger[j] \in live  BY <3>2, <1>4
      <4>2. FirstMet(set, ledger[j]) < FirstMet(set, ledger[i])  BY <3>2, <1>5
      <4>3. FirstMet(set, ledger[j]) \in Nat /\ FirstMet(set, ledger[i]) \in Nat
        BY <1>1, <1>6
      <4>4. ~(FirstMet(set, ledger[i]) =< FirstMet(set, ledger[j]))  BY <4>2, <4>3
      <4> QED  BY <4>1, <4>4, <3>1, <2>1
    <3>3. i \in Firsts(ledger, n)  BY <3>1, <3>2 DEF Firsts
    <3> QED  BY <3>1, <3>3
  <2>2. ASSUME NEW i \in Firsts(ledger, n) PROVE ledger[i] \in heads
    <3>1. /\ i \in 1 .. n /\ Present(ledger, i)
          /\ \A j \in 1 .. n : j < i /\ Present(ledger, j)
               => ledger[j].device # ledger[i].device
      BY DEF Firsts
    <3>2. ledger[i] \in live  BY <3>1, <1>4
    <3>3. ASSUME NEW p \in live, p.device = ledger[i].device
          PROVE  FirstMet(set, ledger[i]) =< FirstMet(set, p)
      <4>1. PICK j \in 1 .. n : p = ledger[j] /\ Present(ledger, j)  BY <1>4
      <4>2. ~(j < i)  BY <4>1, <3>1, <3>3
      <4>3. FirstMet(set, ledger[j]) \in Nat /\ FirstMet(set, ledger[i]) \in Nat
        BY <1>1, <1>6, <3>1
      <4>4. CASE j = i  BY <4>4, <4>1, <4>3
      <4>5. CASE i < j
        <5>1. FirstMet(set, ledger[i]) < FirstMet(set, ledger[j])  BY <4>5, <3>1, <1>5
        <5> QED  BY <5>1, <4>1, <4>3
      <4> QED  BY <4>2, <4>4, <4>5, <1>1, <3>1
    <3> QED  BY <3>2, <3>3
  <2> QED  BY <2>1, <2>2
<1>8. ByDevice(ledger, red) = {Summarized(r, red) : r \in heads}
  <2>1. ByDevice(ledger, red) = {Summarized(ledger[i], red) : i \in Firsts(ledger, n)}
    BY <1>1, ByDeviceShowsFirsts
  <2> HIDE DEF heads, red
  <2> QED  BY <2>1, <1>7
<1> DEFINE reported == IF ledger = <<>> THEN 0
             ELSE (CHOOSE r \in ToSet(ledger) : \A q \in ToSet(ledger) : ~Later(q, r)).time
           claimed == IF set = {} THEN 0 ELSE Max({r.time : r \in set})
<1>9. reported = claimed
  <2>1. CASE ledger = <<>>
    <3>1. set = {}  BY <2>1 DEF LedgerOf
    <3> QED  BY <2>1, <3>1
  <2>2. CASE ledger # <<>>
    <3>1. set # {}  BY <2>2, <1>1
    <3> QED  BY <2>2, <3>1, LastReport
  <2> QED  BY <2>1, <2>2
<1>10. State(ledger) = [severity |-> SeverityOf(live),
          active_devices |-> ByDevice(ledger, red), last_reported_at |-> reported]
  BY <1>3 DEF State
<1>11. StateOf(set) = [severity |-> SeverityOf(live),
          active_devices |-> {Summarized(r, red) : r \in heads}, last_reported_at |-> claimed]
  BY DEF StateOf
<1> HIDE DEF reported, claimed, heads, live, red
<1> QED  BY <1>8, <1>9, <1>10, <1>11

\* The pure algorithm: what device_ledger and snapshot make of any timeline, read
\* row by row in the order of its keys with late rows among them, is the state of
\* the set of the others, said without that order and without a ledger
\* (incident_state.py:29-50, 79-184).
THEOREM SnapshotState ==
  ASSUME NEW timeline, IsFiniteSet(timeline),
         \A r \in timeline : r.pos \in Nat /\ (~r.late => r \in SignalRows),
         \A r, q \in timeline :
           r # q => r.pos # q.pos /\ (SameKey(r, q) => r.id # q.id)
  PROVE  State(AbsorbAll(<<>>, InOrder(timeline))) = StateOf({r \in timeline : ~r.late})
<1> DEFINE page == InOrder(timeline)
           counted == {r \in timeline : ~r.late}
<1>1. page \in Seq(timeline) /\ ToSet(page) = timeline /\ Sorted(page)  BY InOrderRows
<1>2. LedgerOf(AbsorbAll(<<>>, page), {} \cup {r \in ToSet(page) : ~r.late})
  <2> HIDE DEF page
  <2> QED  BY <1>1, EmptyLedger, PageKeepsLedger
<1>3. {} \cup {r \in ToSet(page) : ~r.late} = counted  BY <1>1
<1>4. LedgerOf(AbsorbAll(<<>>, page), counted)  BY <1>2, <1>3
<1>5. counted \subseteq SignalRows /\ \A r, q \in counted : r # q /\ SameKey(r, q) => r.id # q.id  OBVIOUS
<1> HIDE DEF page, counted
<1>6. State(AbsorbAll(<<>>, page)) = StateOf(counted)  BY <1>4, <1>5, LedgerState
<1> QED  BY <1>6 DEF page, counted

-----------------------------------------------------------------------------
(* Severity and markers *)

LEMMA LevelsSet ==
  ToSet(Levels) = {"informational", "warning", "urgent"}
<1>1. DOMAIN Levels = 1 .. 3  BY DEF Levels
<1>2. 1 .. 3 = {1, 2, 3}  OBVIOUS
<1>3. Levels[1] = "informational" /\ Levels[2] = "warning" /\ Levels[3] = "urgent"
  BY DEF Levels
<1> QED  BY <1>1, <1>2, <1>3 DEF ToSet

\* Devices that corroborate each other are devices of the rows.
LEMMA CorroboratedDevices ==
  ASSUME NEW set, NEW d \in Corroborated(set)
  PROVE  \E r \in set : r.device = d
BY DEF Corroborated

\* severity() and red_device_ids() agree, row by row.
LEMMA SeverityOfRows ==
  ASSUME NEW live, live \subseteq SignalRows, \A r \in live : r.alarm # "clear"
  PROVE  LET shown == {Level(r, RedDevices(live)) : r \in live} IN
         SeverityOf(live) = IF "red" \in shown THEN "urgent"
                            ELSE IF "amber" \in shown THEN "warning" ELSE "informational"
<1> DEFINE red == RedDevices(live)
           shown == {Level(r, red) : r \in live}
           urgent == \/ \E r \in live : r.exercise = "urgent"
                     \/ \E r \in Ordinary(live) : r.kind \in ImmediateUrgent
                     \/ Corroborated(Ordinary(live)) # {}
           warning == \/ \E r \in live : r.exercise = "warning"
                      \/ \E r \in Ordinary(live) : r.kind \in Critical \cup Warning
<1>1. \A r \in live : /\ Level(r, red) = "red" <=> r.device \in red
                      /\ Level(r, red) = "amber" <=> r.device \notin red /\ Exceptional(r)
  BY DEF Level
<1>2. Ordinary(live) \subseteq live /\ \A r \in Ordinary(live) : r.exercise = None
  BY DEF Ordinary
<1>3. red = {r.device : r \in {q \in live : q.exercise = "urgent"}}
              \cup {r.device : r \in {q \in Ordinary(live) : q.kind \in ImmediateUrgent}}
              \cup Corroborated(Ordinary(live))
  BY DEF RedDevices
<1>4. \A d \in red : \E r \in live : r.device = d
  <2>1. \A d \in Corroborated(Ordinary(live)) : \E r \in Ordinary(live) : r.device = d
    BY CorroboratedDevices
  <2> HIDE DEF red
  <2> QED  BY <1>2, <1>3, <2>1
<1>5. urgent <=> red # {}
  <2> HIDE DEF red
  <2> QED  BY <1>3
<1>6. "red" \in shown <=> red # {}
  <2> HIDE DEF red
  <2> QED  BY <1>1, <1>4
<1>7. ~urgent => ("amber" \in shown <=> warning)
  <2> SUFFICES ASSUME ~urgent PROVE "amber" \in shown <=> warning  OBVIOUS
  <2>1. red = {}  BY <1>5
  <2>2. "amber" \in shown <=> \E r \in live : Exceptional(r)
    <3> HIDE DEF red
    <3> QED  BY <1>1, <2>1
  <2>3. \A r \in live : r.exercise \in {"informational", "warning", "urgent", None}
    BY LevelsSet DEF SignalRows
  <2>4. None \notin {"informational", "warning", "urgent"}
    BY LedgerAssumption, LevelsSet
  <2>5. ASSUME NEW r \in live
        PROVE  Exceptional(r) <=> \/ r.exercise = "warning"
                                  \/ r.exercise = None /\ r.kind \in Critical \cup Warning
    <3>1. r.exercise # "urgent"  OBVIOUS
    <3> QED  BY <3>1, <2>3, <2>4 DEF Exceptional
  <2>6. \A r : r \in Ordinary(live) <=> r \in live /\ r.exercise = None  BY DEF Ordinary
  <2> HIDE DEF red, urgent
  <2> QED  BY <2>2, <2>5, <2>6
<1>8. SeverityOf(live) = IF urgent THEN "urgent" ELSE IF warning THEN "warning" ELSE "informational"
  BY DEF SeverityOf
<1> HIDE DEF urgent, warning, shown
<1>9. SeverityOf(live) = IF "red" \in shown THEN "urgent"
                         ELSE IF "amber" \in shown THEN "warning" ELSE "informational"
  BY <1>5, <1>6, <1>7, <1>8
<1> QED  BY <1>9 DEF shown

-----------------------------------------------------------------------------
(* The invariant *)

RowsOK ==
  /\ signals \in Histories
  /\ recorded \in Seq(signals)
  /\ IsFiniteSet(archived)
  /\ archived \subseteq {[e EXCEPT !.late = TRUE] : e \in signals \ ToSet(recorded)}
  /\ summary # None /\ archived # {} => summary.resolved

Verdicts == {"none", "unreviewed", "accepted", "rejected"}

Summaries == [note_revision : Nat, latest_assessment : Nat, decision_review : Verdicts,
              resolved : BOOLEAN, deleting : BOOLEAN]

Looks == [note_revision : Nat, latest_assessment : Nat, decision_review : Verdicts,
          resolved : BOOLEAN, deleting : BOOLEAN, event_count : Nat]

Conclusions == [assessment_id : Nat, evidence_revision : Nat, note_revision : Nat,
                severity : Severities \cup {None}]

SummaryOK ==
  /\ assessments \in Seq(Conclusions)
  /\ summary # None => summary \in Summaries /\ summary.latest_assessment =< Len(assessments)

(* What follows is said of a given sequence of counted rows and a given     *)
(* INCIDENT# row: the database moves on while a request is under way.       *)

\* The device state kept for a revision that was reached.
IsKept(state, revision, counted) ==
  revision \in 0 .. Len(counted) /\ state = StateOf(ToSet(SubSeq(counted, 1, revision)))

KeptOK ==
  /\ DOMAIN cache = Readers
  /\ \A r \in Readers : \A revision \in DOMAIN cache[r] :
       IsKept(cache[r][revision], revision, recorded)
  /\ briefing # None => IsKept(briefing.device_state, briefing.evidence_revision, recorded)

Heard(cursor, counted) == {r \in ToSet(counted) : r.pos =< cursor}

LatestOf(s, published) ==
  IF s.latest_assessment = 0 THEN None ELSE published[s.latest_assessment]

\* Nothing was recorded since the request took its first look.
Standing(q, row, counted) == row # None /\ q.summary.event_count = Len(counted)

\* What was looked at is an earlier state of the incident.
LookOK(s, row, counted) ==
  /\ s \in Looks /\ ~s.deleting /\ s.event_count =< Len(counted)
  /\ row # None => /\ s.note_revision =< row.note_revision
                   /\ s.latest_assessment =< row.latest_assessment

NotesOK(s, notes, row) ==
  IF s.note_revision = 0 THEN notes = 0 ELSE notes \in s.note_revision .. row.note_revision

Request(pc, look, latest, notes, state, cursor, ledger, shown, missed) ==
  [pc |-> pc, summary |-> look, latest |-> latest, notes |-> notes, state |-> state,
   cursor |-> cursor, ledger |-> ledger, briefing |-> shown, missed |-> missed]

Fields(q) == q = Request(q.pc, q.summary, q.latest, q.notes, q.state, q.cursor, q.ledger,
                         q.briefing, q.missed)

\* A request or call: its ledger is that of the rows up to its cursor, and the
\* state it comes to is that of all rows, unless a signal was recorded meanwhile.
InstanceOK(q, row, counted) ==
  /\ Fields(q)
  /\ q.pc \in {"idle", "assessment", "briefing", "notes", "pages", "reread", "record"}
  /\ q.cursor \in Nat
  /\ q.pc # "pages" => q.ledger = <<>> /\ q.cursor = 0
  /\ q.pc # "idle" => LookOK(q.summary, row, counted)
  /\ q.briefing # None =>
       IsKept(q.briefing.device_state, q.briefing.evidence_revision, counted)
  /\ q.pc = "pages" /\ Standing(q, row, counted) => LedgerOf(q.ledger, Heard(q.cursor, counted))
  /\ q.pc \in {"reread", "record"} /\ Standing(q, row, counted)
       => q.state = StateOf(ToSet(counted))

\* Only a reader looks at the conclusions and the notes.
ReaderOK(q, row, published) ==
  /\ q.pc # "record"
  /\ q.pc \in {"briefing", "notes", "pages", "reread"} /\ row # None
       => q.latest = LatestOf(q.summary, published)
  /\ q.pc \in {"pages", "reread"} /\ row # None => NotesOK(q.summary, q.notes, row)

ProcessesOK ==
  /\ DOMAIN process = Readers \cup Briefers
  /\ \A p \in Readers \cup Briefers : InstanceOK(process[p], summary, recorded)
  /\ \A r \in Readers : ReaderOK(process[r], summary, assessments)

ViewInv == RowsOK /\ SummaryOK /\ KeptOK /\ ProcessesOK

\* What a history is.
LEMMA History ==
  ASSUME RowsOK
  PROVE  /\ signals \subseteq SignalRows
         /\ \A r, q \in signals :
              r # q => r.pos # q.pos /\ (SameKey(r, q) => r.id # q.id)
         /\ ToSet(recorded) \subseteq signals
         /\ Len(recorded) \in Nat /\ DOMAIN recorded = 1 .. Len(recorded)
<1>1. signals \in Histories /\ recorded \in Seq(signals)  BY DEF RowsOK
<1>2. Len(recorded) \in Nat /\ DOMAIN recorded = 1 .. Len(recorded)  BY <1>1
<1>3. ToSet(recorded) \subseteq signals  BY <1>1 DEF ToSet
<1> QED  BY <1>1, <1>2, <1>3, ViewAssumption DEF ViewAssumption

-----------------------------------------------------------------------------
(* The database moves on *)

\* Another signal leaves the evidence of the earlier revisions.
LEMMA EvidenceStays ==
  ASSUME NEW R, NEW counted \in Seq(R), NEW e \in R, NEW revision \in 0 .. Len(counted)
  PROVE  ToSet(SubSeq(Append(counted, e), 1, revision)) = ToSet(SubSeq(counted, 1, revision))
<1> DEFINE s == SubSeq(Append(counted, e), 1, revision)
           t == SubSeq(counted, 1, revision)
<1>1. revision \in Nat /\ Len(counted) \in Nat /\ revision =< Len(counted)  OBVIOUS
<1>2. DOMAIN s = 1 .. revision /\ DOMAIN t = 1 .. revision
  BY <1>1
<1>3. \A i \in 1 .. revision : s[i] = t[i]  BY <1>1
<1> HIDE DEF s, t
<1>4. ToSet(s) = ToSet(t)  BY <1>2, <1>3 DEF ToSet
<1> QED  BY <1>4 DEF s, t

LEMMA WholeEvidence ==
  ASSUME NEW R, NEW counted \in Seq(R)
  PROVE  ToSet(SubSeq(counted, 1, Len(counted))) = ToSet(counted)
<1>1. SubSeq(counted, 1, Len(counted)) = counted  OBVIOUS
<1> QED  BY <1>1

LEMMA KeptStays ==
  ASSUME NEW R, NEW counted \in Seq(R), NEW e \in R, NEW state, NEW revision,
         IsKept(state, revision, counted)
  PROVE  IsKept(state, revision, Append(counted, e))
<1>1. revision \in 0 .. Len(counted)  BY DEF IsKept
<1>2. Len(Append(counted, e)) = Len(counted) + 1 /\ Len(counted) \in Nat  OBVIOUS
<1> QED  BY <1>1, <1>2, EvidenceStays DEF IsKept

\* A step of a writer, as far as a request sees it: the INCIDENT# row is newer
\* or purged, a signal may be added to the counted ones.
Newer(row, new) ==
  new # None => /\ row # None
                /\ row.note_revision =< new.note_revision
                /\ row.latest_assessment =< new.latest_assessment
                /\ row.note_revision \in Nat /\ row.latest_assessment \in Nat
                /\ new.note_revision \in Nat /\ new.latest_assessment \in Nat

LEMMA InstanceStays ==
  ASSUME NEW R, NEW counted \in Seq(R), NEW row, NEW new, Newer(row, new),
         NEW q, InstanceOK(q, row, counted),
         NEW more, more = counted \/ \E e \in R : more = Append(counted, e)
  PROVE  InstanceOK(q, new, more)
<1>1. Len(counted) \in Nat /\ Len(more) \in {Len(counted), Len(counted) + 1}  OBVIOUS
<1>2. \A s : LookOK(s, row, counted) => LookOK(s, new, more)
  <2> SUFFICES ASSUME NEW s, LookOK(s, row, counted) PROVE LookOK(s, new, more)  OBVIOUS
  <2>1. s.note_revision \in Nat /\ s.latest_assessment \in Nat /\ s.event_count \in Nat
    BY DEF LookOK, Looks
  <2> QED  BY <2>1, <1>1 DEF LookOK, Newer
<1>3. \A state, revision : IsKept(state, revision, counted) => IsKept(state, revision, more)
  BY KeptStays
<1>4. q.pc # "idle" /\ Standing(q, new, more) => more = counted /\ Standing(q, row, counted)
  <2> SUFFICES ASSUME q.pc # "idle", Standing(q, new, more)
               PROVE  more = counted /\ Standing(q, row, counted)
    OBVIOUS
  <2>1. q.summary.event_count \in Nat /\ q.summary.event_count =< Len(counted)
    BY DEF InstanceOK, LookOK, Looks
  <2>2. Len(more) =< Len(counted)  BY <2>1 DEF Standing
  <2>3. more = counted  BY <2>2, <1>1
  <2> QED  BY <2>3 DEF Standing, Newer
<1> QED  BY <1>2, <1>3, <1>4 DEF InstanceOK

LEMMA ReaderStays ==
  ASSUME NEW row, NEW new, Newer(row, new), NEW counted,
         NEW q, InstanceOK(q, row, counted), NEW published, NEW larger,
         ReaderOK(q, row, published),
         new # None => \A i \in 1 .. row.latest_assessment : larger[i] = published[i]
  PROVE  ReaderOK(q, new, larger)
<1> SUFFICES ASSUME new # None, q.pc \in {"briefing", "notes", "pages", "reread"}
             PROVE  /\ LatestOf(q.summary, larger) = LatestOf(q.summary, published)
                    /\ NotesOK(q.summary, q.notes, row) => NotesOK(q.summary, q.notes, new)
  BY DEF ReaderOK, Newer
<1>1. row # None  BY DEF Newer
<1>2. /\ q.summary \in Looks
      /\ q.summary.note_revision =< row.note_revision
      /\ q.summary.latest_assessment =< row.latest_assessment
  BY <1>1 DEF InstanceOK, LookOK
<1>3. q.summary.note_revision \in Nat /\ q.summary.latest_assessment \in Nat
  BY <1>2 DEF Looks
<1>4. LatestOf(q.summary, larger) = LatestOf(q.summary, published)
  BY <1>2, <1>3 DEF LatestOf, Newer
<1>5. NotesOK(q.summary, q.notes, row) => NotesOK(q.summary, q.notes, new)
  BY <1>2, <1>3 DEF NotesOK, Newer
<1> QED  BY <1>4, <1>5

\* Whatever a writer does, requests under way and what was kept stay right.
LEMMA WriterKeeps ==
  ASSUME ViewInv, Newer(summary, summary'), UNCHANGED <<cache, process, signals>>,
         \/ recorded' = recorded
         \/ \E e \in signals : recorded' = Append(recorded, e),
         summary' # None =>
           \A i \in 1 .. summary.latest_assessment : assessments'[i] = assessments[i],
         briefing' \in {briefing, None}
  PROVE  KeptOK' /\ ProcessesOK'
<1>1. recorded \in Seq(signals)  BY DEF ViewInv, RowsOK
<1>2. \A state, revision : IsKept(state, revision, recorded) => IsKept(state, revision, recorded')
  BY <1>1, KeptStays
<1>3. KeptOK'  BY <1>2 DEF ViewInv, KeptOK
<1>4. \A p \in Readers \cup Briefers : InstanceOK(process[p], summary', recorded')
  BY <1>1, InstanceStays DEF ViewInv, ProcessesOK
<1>5. \A r \in Readers : ReaderOK(process[r], summary', assessments')
  BY ReaderStays DEF ViewInv, ProcessesOK
<1>6. ProcessesOK'  BY <1>4, <1>5 DEF ViewInv, ProcessesOK
<1> QED  BY <1>3, <1>6

LEMMA RecordsKeeps ==
  ASSUME ViewInv, NEW e \in signals, Records(e)
  PROVE  ViewInv'
<1>1. /\ summary # None /\ ~summary.resolved /\ recorded' = Append(recorded, e)
      /\ UNCHANGED <<signals, archived, summary, assessments, briefing, cache, process>>
  BY DEF Records, Open
<1>2. RowsOK'
  <2>1. archived = {}  BY <1>1 DEF ViewInv, RowsOK
  <2> QED  BY <1>1, <2>1 DEF ViewInv, RowsOK
<1>3. SummaryOK'  BY <1>1 DEF ViewInv, SummaryOK
<1>4. Newer(summary, summary')  BY <1>1 DEF Newer, ViewInv, SummaryOK, Summaries
<1>5. KeptOK' /\ ProcessesOK'  BY <1>1, <1>4, WriterKeeps
<1> QED  BY <1>2, <1>3, <1>5 DEF ViewInv

LEMMA ArchivesKeeps ==
  ASSUME ViewInv, NEW e \in signals, Archives(e)
  PROVE  ViewInv'
<1>1. /\ summary # None /\ summary.resolved /\ e \notin ToSet(recorded)
      /\ archived' = archived \cup {[e EXCEPT !.late = TRUE]}
      /\ UNCHANGED <<signals, recorded, summary, assessments, briefing, cache, process>>
  BY DEF Archives
<1>2. RowsOK'
  <2>1. IsFiniteSet(archived')  BY <1>1, FS_AddElement DEF ViewInv, RowsOK
  <2>2. archived' \subseteq {[f EXCEPT !.late = TRUE] : f \in signals \ ToSet(recorded)}
    BY <1>1 DEF ViewInv, RowsOK
  <2> QED  BY <1>1, <2>1, <2>2 DEF ViewInv, RowsOK
<1>3. SummaryOK'  BY <1>1 DEF ViewInv, SummaryOK
<1>4. Newer(summary, summary')  BY <1>1 DEF Newer, ViewInv, SummaryOK, Summaries
<1>5. KeptOK' /\ ProcessesOK'  BY <1>1, <1>4, WriterKeeps
<1> QED  BY <1>2, <1>3, <1>5 DEF ViewInv

\* Writers of the INCIDENT# row alone.
LEMMA SummaryWriterKeeps ==
  ASSUME ViewInv, summary # None, summary' \in Summaries,
         summary.note_revision =< summary'.note_revision,
         summary.latest_assessment = summary'.latest_assessment,
         summary.resolved => summary'.resolved,
         UNCHANGED <<rows, assessments, briefing, cache, process>>
  PROVE  ViewInv'
<1>1. UNCHANGED <<signals, recorded, archived>>  BY DEF rows
<1>2. RowsOK'  BY <1>1 DEF ViewInv, RowsOK
<1>3. SummaryOK'  BY <1>1 DEF ViewInv, SummaryOK
<1>4. Newer(summary, summary')  BY <1>1 DEF Newer, ViewInv, SummaryOK, Summaries
<1>5. KeptOK' /\ ProcessesOK'  BY <1>1, <1>4, WriterKeeps
<1> QED  BY <1>2, <1>3, <1>5 DEF ViewInv

\* What the writers leave of the INCIDENT# row.
LEMMA ReviewedRow ==
  ASSUME NEW s \in Summaries, NEW v \in Verdicts, NEW t, t = [s EXCEPT !.decision_review = v]
  PROVE  /\ t \in Summaries /\ t.note_revision = s.note_revision /\ t.note_revision \in Nat
         /\ t.latest_assessment = s.latest_assessment /\ t.resolved = s.resolved
<1>1. t \in Summaries  BY DEF Summaries
<1> QED  BY <1>1 DEF Summaries

LEMMA ResolvedRow ==
  ASSUME NEW s \in Summaries, NEW t, t = [s EXCEPT !.resolved = TRUE]
  PROVE  /\ t \in Summaries /\ t.note_revision = s.note_revision /\ t.note_revision \in Nat
         /\ t.latest_assessment = s.latest_assessment /\ t.resolved
<1>1. t \in Summaries  BY DEF Summaries
<1>2. t.resolved  BY DEF Summaries
<1> QED  BY <1>1, <1>2 DEF Summaries

LEMMA DeletingRow ==
  ASSUME NEW s \in Summaries, NEW t, t = [s EXCEPT !.deleting = TRUE]
  PROVE  /\ t \in Summaries /\ t.note_revision = s.note_revision /\ t.note_revision \in Nat
         /\ t.latest_assessment = s.latest_assessment /\ t.resolved = s.resolved
<1>1. t \in Summaries  BY DEF Summaries
<1> QED  BY <1>1 DEF Summaries

LEMMA PublishedRow ==
  ASSUME NEW s \in Summaries, NEW n \in Nat, NEW t, t = [s EXCEPT !.latest_assessment = n]
  PROVE  /\ t \in Summaries /\ t.note_revision = s.note_revision /\ t.note_revision \in Nat
         /\ t.latest_assessment = n /\ t.resolved = s.resolved
<1>1. t \in Summaries  BY DEF Summaries
<1> QED  BY <1>1 DEF Summaries

LEMMA SavesNoteKeeps ==
  ASSUME ViewInv, SavesNote
  PROVE  ViewInv'
<1>1. summary # None /\ summary \in Summaries  BY DEF SavesNote, Open, ViewInv, SummaryOK
<1>2. /\ summary' \in Summaries
      /\ summary.note_revision =< summary'.note_revision
      /\ summary.latest_assessment = summary'.latest_assessment
      /\ summary.resolved => summary'.resolved
  BY <1>1 DEF SavesNote, Summaries
<1> QED  BY <1>1, <1>2, SummaryWriterKeeps DEF SavesNote

LEMMA ReviewsKeeps ==
  ASSUME ViewInv, NEW verdict \in {"accepted", "rejected"}, Reviews(verdict)
  PROVE  ViewInv'
<1>1. summary # None /\ summary \in Summaries  BY DEF Reviews, ViewInv, SummaryOK
<1>2. summary' = [summary EXCEPT !.decision_review = verdict]  BY DEF Reviews
<1>3. /\ summary' \in Summaries
      /\ summary.note_revision =< summary'.note_revision
      /\ summary.latest_assessment = summary'.latest_assessment
      /\ summary.resolved => summary'.resolved
  <2>1. verdict \in Verdicts  BY DEF Verdicts
  <2> QED  BY <1>1, <1>2, <2>1, ReviewedRow
<1> QED  BY <1>1, <1>3, SummaryWriterKeeps DEF Reviews

LEMMA ResolvesKeeps ==
  ASSUME ViewInv, Resolves
  PROVE  ViewInv'
<1>1. summary # None /\ summary \in Summaries  BY DEF Resolves, Open, ViewInv, SummaryOK
<1>2. summary' = [summary EXCEPT !.resolved = TRUE]  BY DEF Resolves
<1>3. /\ summary' \in Summaries
      /\ summary.note_revision =< summary'.note_revision
      /\ summary.latest_assessment = summary'.latest_assessment
      /\ summary.resolved => summary'.resolved
  BY <1>1, <1>2, ResolvedRow
<1> QED  BY <1>1, <1>3, SummaryWriterKeeps DEF Resolves

LEMMA RequestsDeletionKeeps ==
  ASSUME ViewInv, RequestsDeletion
  PROVE  ViewInv'
<1>1. summary # None /\ summary \in Summaries  BY DEF RequestsDeletion, ViewInv, SummaryOK
<1>2. summary' = [summary EXCEPT !.deleting = TRUE]  BY DEF RequestsDeletion
<1>3. /\ summary' \in Summaries
      /\ summary.note_revision =< summary'.note_revision
      /\ summary.latest_assessment = summary'.latest_assessment
      /\ summary.resolved => summary'.resolved
  BY <1>1, <1>2, DeletingRow
<1> QED  BY <1>1, <1>3, SummaryWriterKeeps DEF RequestsDeletion

LEMMA PublishesKeeps ==
  ASSUME ViewInv, NEW severity \in Severities \cup {None}, Publishes(severity)
  PROVE  ViewInv'
<1> DEFINE n == Len(assessments)
           a == [assessment_id |-> n + 1, evidence_revision |-> EventCount,
                 note_revision |-> summary.note_revision, severity |-> severity]
<1>1. /\ summary # None /\ ~summary.resolved /\ assessments' = Append(assessments, a)
      /\ summary' = [summary EXCEPT !.latest_assessment = n + 1,
                                    !.decision_review = "unreviewed"]
      /\ UNCHANGED <<signals, recorded, archived, briefing, cache, process>>
  BY DEF Publishes, Open, rows
<1>2. /\ summary \in Summaries /\ assessments \in Seq(Conclusions) /\ n \in Nat
      /\ summary.latest_assessment \in Nat /\ summary.latest_assessment =< n
  BY <1>1 DEF ViewInv, SummaryOK, Summaries
<1>3. a \in Conclusions
  <2>1. EventCount \in Nat  BY History DEF EventCount, ViewInv
  <2>2. summary.note_revision \in Nat  BY <1>2 DEF Summaries
  <2> QED  BY <1>2, <2>1, <2>2 DEF Conclusions
<1>4. /\ summary' \in Summaries /\ summary'.latest_assessment = n + 1
      /\ summary'.note_revision = summary.note_revision
      /\ summary'.resolved = summary.resolved
  <2> DEFINE u == [summary EXCEPT !.latest_assessment = n + 1]
  <2>1. n + 1 \in Nat  BY <1>2
  <2>2. /\ u \in Summaries /\ u.note_revision = summary.note_revision
        /\ u.latest_assessment = n + 1 /\ u.resolved = summary.resolved
    BY <1>2, <2>1, PublishedRow
  <2>3. summary' = [u EXCEPT !.decision_review = "unreviewed"]  BY <1>1
  <2> HIDE DEF u
  <2>4. /\ summary' \in Summaries /\ summary'.note_revision = u.note_revision
        /\ summary'.latest_assessment = u.latest_assessment /\ summary'.resolved = u.resolved
    BY <2>2, <2>3, ReviewedRow DEF Verdicts
  <2> QED  BY <2>2, <2>4
<1> HIDE DEF a
<1>5. assessments' \in Seq(Conclusions) /\ Len(assessments') = n + 1
      /\ \A i \in 1 .. n : assessments'[i] = assessments[i]
  BY <1>1, <1>2, <1>3
<1>6. RowsOK'  BY <1>1, <1>4 DEF ViewInv, RowsOK
<1>7. SummaryOK'
  <2>1. summary'.latest_assessment =< Len(assessments')  BY <1>2, <1>4, <1>5
  <2> QED  BY <2>1, <1>4, <1>5 DEF SummaryOK
<1>8. Newer(summary, summary')  BY <1>1, <1>2, <1>4 DEF Newer, Summaries
<1>9. \A i \in 1 .. summary.latest_assessment : assessments'[i] = assessments[i]
  BY <1>2, <1>5
<1>10. KeptOK' /\ ProcessesOK'  BY <1>1, <1>8, <1>9, WriterKeeps
<1> QED  BY <1>6, <1>7, <1>10 DEF ViewInv

LEMMA PurgesKeeps ==
  ASSUME ViewInv, Purges
  PROVE  ViewInv'
<1>1. /\ summary' = None /\ assessments' = <<>> /\ briefing' = None
      /\ UNCHANGED <<signals, recorded, archived, cache, process>>
  BY DEF Purges, rows
<1>2. RowsOK'  BY <1>1 DEF ViewInv, RowsOK
<1>3. SummaryOK'
  <2>1. <<>> \in Seq(Conclusions)  OBVIOUS
  <2> QED  BY <1>1, <2>1 DEF SummaryOK
<1>4. Newer(summary, summary')  BY <1>1 DEF Newer
<1>5. KeptOK' /\ ProcessesOK'  BY <1>1, <1>4, WriterKeeps
<1> QED  BY <1>2, <1>3, <1>5 DEF ViewInv

-----------------------------------------------------------------------------
(* The requests and the briefings *)

\* What the fields of a request are.
LEMMA RequestFields ==
  ASSUME NEW a, NEW b, NEW c, NEW d, NEW e, NEW f, NEW g, NEW h, NEW i
  PROVE  LET q == Request(a, b, c, d, e, f, g, h, i) IN
         /\ q.pc = a /\ q.summary = b /\ q.latest = c /\ q.notes = d /\ q.state = e
         /\ q.cursor = f /\ q.ledger = g /\ q.briefing = h /\ q.missed = i
         /\ Fields(q)
<1> DEFINE q == Request(a, b, c, d, e, f, g, h, i)
<1>1. /\ q.pc = a /\ q.summary = b /\ q.latest = c /\ q.notes = d /\ q.state = e
      /\ q.cursor = f /\ q.ledger = g /\ q.briefing = h /\ q.missed = i
  BY DEF Request
<1> QED  BY <1>1 DEF Fields

\* A step of one process, which leaves the rows it read as they are.
LEMMA ProcessStep ==
  ASSUME ViewInv, NEW p \in Readers \cup Briefers, NEW new,
         process' = [process EXCEPT ![p] = new],
         UNCHANGED <<rows, summary, assessments>>,
         InstanceOK(new, summary, recorded),
         p \in Readers => ReaderOK(new, summary, assessments),
         KeptOK'
  PROVE  ViewInv'
<1>1. UNCHANGED <<signals, recorded, archived, summary, assessments>>  BY DEF rows
<1>2. RowsOK' /\ SummaryOK'  BY <1>1 DEF ViewInv, RowsOK, SummaryOK
<1>3. /\ DOMAIN process' = Readers \cup Briefers
      /\ \A q \in Readers \cup Briefers : process'[q] = IF q = p THEN new ELSE process[q]
  BY DEF ViewInv, ProcessesOK
<1>4. ProcessesOK'  BY <1>1, <1>3 DEF ViewInv, ProcessesOK
<1> QED  BY <1>2, <1>4 DEF ViewInv

LEMMA QuietStep ==
  ASSUME ViewInv, NEW p \in Readers \cup Briefers, NEW new,
         process' = [process EXCEPT ![p] = new],
         UNCHANGED <<database, cache>>,
         InstanceOK(new, summary, recorded),
         p \in Readers => ReaderOK(new, summary, assessments)
  PROVE  ViewInv'
<1>1. UNCHANGED <<rows, summary, assessments>> /\ UNCHANGED <<recorded, cache, briefing>>
  BY DEF database, rows
<1>2. KeptOK'  BY <1>1 DEF ViewInv, KeptOK
<1> QED  BY <1>1, <1>2, ProcessStep

LEMMA HeardBeforeAll ==
  ASSUME RowsOK
  PROVE  Heard(0, recorded) = {}
<1> SUFFICES ASSUME NEW r \in ToSet(recorded), r.pos =< 0 PROVE FALSE  BY DEF Heard
<1>1. r \in SignalRows  BY History
<1>2. r.pos \in Nat /\ r.pos # 0  BY <1>1 DEF SignalRows
<1> QED  BY <1>2

LEMMA FirstLook ==
  ASSUME ViewInv, summary # None, ~summary.deleting
  PROVE  LookOK(Looked, summary, recorded)
<1>1. summary \in Summaries  BY DEF ViewInv, SummaryOK
<1>2. EventCount \in Nat /\ EventCount = Len(recorded)  BY History DEF ViewInv, EventCount
<1>3. /\ summary.note_revision \in Nat /\ summary.latest_assessment \in Nat
      /\ summary.decision_review \in Verdicts
      /\ summary.resolved \in BOOLEAN /\ summary.deleting \in BOOLEAN
  BY <1>1 DEF Summaries
<1>4. Looked \in Looks  BY <1>2, <1>3 DEF Looked, Looks
<1>5. /\ Looked.note_revision = summary.note_revision
      /\ Looked.latest_assessment = summary.latest_assessment
      /\ Looked.event_count = Len(recorded)
      /\ ~Looked.deleting
  BY <1>2 DEF Looked
<1> QED  BY <1>2, <1>3, <1>4, <1>5 DEF LookOK

LEMMA BeginsWithKeeps ==
  ASSUME ViewInv, NEW p \in Readers \cup Briefers, NEW label, BeginsWith(p, label),
         \/ label = "assessment"
         \/ label = "pages" /\ p \notin Readers
  PROVE  ViewInv'
<1> DEFINE new == [Idle EXCEPT !.pc = label, !.summary = Looked]
<1>1. /\ summary # None /\ ~summary.deleting
      /\ process' = [process EXCEPT ![p] = new]
      /\ UNCHANGED <<database, cache>>
  BY DEF BeginsWith
<1>2. LookOK(Looked, summary, recorded)  BY <1>1, FirstLook
<1> DEFINE no == FALSE
<1>3. new = Request(label, Looked, None, 0, None, 0, <<>>, None, no)
  <2> DEFINE u == [Idle EXCEPT !.pc = label]
  <2>1. Idle = Request("idle", None, None, 0, None, 0, <<>>, None, no)  BY DEF Idle, Request
  <2>2. new = [u EXCEPT !.summary = Looked]  OBVIOUS
  <2> HIDE DEF new, no
  <2>3. u = Request(label, None, None, 0, None, 0, <<>>, None, no)  BY <2>1 DEF Request
  <2> HIDE DEF u
  <2> QED  BY <2>2, <2>3 DEF Request
<1> HIDE DEF no
<1>4. LedgerOf(<<>>, Heard(0, recorded))
  BY EmptyLedger, HeardBeforeAll DEF ViewInv
<1>5. InstanceOK(new, summary, recorded)
  <2> HIDE DEF new
  <2> QED  BY <1>2, <1>3, <1>4, RequestFields DEF InstanceOK
<1>6. p \in Readers => ReaderOK(new, summary, assessments)
  <2> HIDE DEF new
  <2> QED  BY <1>3, RequestFields DEF ReaderOK
<1> HIDE DEF new
<1> QED  BY <1>1, <1>5, <1>6, QuietStep

LEMMA ReadsLatestKeeps ==
  ASSUME ViewInv, NEW r \in Readers, ReadsLatest(r)
  PROVE  ViewInv'
<1> DEFINE q == process[r]
           id == q.summary.latest_assessment
           found == IF id \in DOMAIN assessments THEN assessments[id] ELSE None
           new == [q EXCEPT !.pc = "briefing", !.latest = found]
<1>1. /\ q.pc = "assessment" /\ process' = [process EXCEPT ![r] = new]
      /\ UNCHANGED <<database, cache>>
  BY DEF ReadsLatest, ViewInv, ProcessesOK
<1>2. InstanceOK(q, summary, recorded)  BY DEF ViewInv, ProcessesOK
<1>3. Fields(q)  BY <1>2 DEF InstanceOK
<1>4. new = Request("briefing", q.summary, found, q.notes, q.state,
                  q.cursor, q.ledger, q.briefing, q.missed)
  <2> DEFINE u == [q EXCEPT !.pc = "briefing"]
  <2>1. u = Request("briefing", q.summary, q.latest, q.notes, q.state,
                    q.cursor, q.ledger, q.briefing, q.missed)
    BY <1>3 DEF Fields, Request
  <2>2. new = [u EXCEPT !.latest = found]  OBVIOUS
  <2> HIDE DEF u, new, q, found
  <2> QED  BY <2>1, <2>2 DEF Request
<1>5. summary # None => found = LatestOf(q.summary, assessments)
  <2> SUFFICES ASSUME summary # None PROVE found = LatestOf(q.summary, assessments)
    OBVIOUS
  <2>1. /\ q.summary \in Looks /\ id =< summary.latest_assessment
    BY <1>1, <1>2 DEF InstanceOK, LookOK
  <2>2. summary \in Summaries /\ summary.latest_assessment =< Len(assessments)
        /\ assessments \in Seq(Conclusions)
    BY DEF ViewInv, SummaryOK
  <2>3. id \in Nat /\ summary.latest_assessment \in Nat /\ Len(assessments) \in Nat
        /\ DOMAIN assessments = 1 .. Len(assessments)
    BY <2>1, <2>2 DEF Looks, Summaries
  <2>4. id \in DOMAIN assessments <=> id # 0  BY <2>1, <2>2, <2>3
  <2> QED  BY <2>4 DEF LatestOf
<1> HIDE DEF q, found, new
<1>6. InstanceOK(new, summary, recorded)  BY <1>1, <1>2, <1>4, RequestFields DEF InstanceOK
<1>7. ReaderOK(new, summary, assessments)  BY <1>4, <1>5, RequestFields DEF ReaderOK
<1> QED  BY <1>1, <1>6, <1>7, QuietStep

LEMMA ReadsBriefingKeeps ==
  ASSUME ViewInv, NEW r \in Readers, ReadsBriefing(r)
  PROVE  ViewInv'
<1> DEFINE q == process[r]
           new == [q EXCEPT !.pc = "notes", !.briefing = briefing]
<1>1. /\ q.pc = "briefing" /\ process' = [process EXCEPT ![r] = new]
      /\ UNCHANGED <<database, cache>>
  BY DEF ReadsBriefing, ViewInv, ProcessesOK
<1>2. InstanceOK(q, summary, recorded) /\ ReaderOK(q, summary, assessments)
  BY DEF ViewInv, ProcessesOK
<1>3. Fields(q)  BY <1>2 DEF InstanceOK
<1>4. new = Request("notes", q.summary, q.latest, q.notes, q.state,
                  q.cursor, q.ledger, briefing, q.missed)
  <2> DEFINE u == [q EXCEPT !.pc = "notes"]
  <2>1. u = Request("notes", q.summary, q.latest, q.notes, q.state,
                    q.cursor, q.ledger, q.briefing, q.missed)
    BY <1>3 DEF Fields, Request
  <2>2. new = [u EXCEPT !.briefing = briefing]  OBVIOUS
  <2> HIDE DEF u, new, q
  <2> QED  BY <2>1, <2>2 DEF Request
<1>5. briefing # None => IsKept(briefing.device_state, briefing.evidence_revision, recorded)
  BY DEF ViewInv, KeptOK
<1> HIDE DEF q, new
<1>6. InstanceOK(new, summary, recorded)  BY <1>1, <1>2, <1>4, <1>5, RequestFields DEF InstanceOK
<1>7. ReaderOK(new, summary, assessments)  BY <1>1, <1>2, <1>4, RequestFields DEF ReaderOK
<1> QED  BY <1>1, <1>6, <1>7, QuietStep

LEMMA ReadsNotesKeeps ==
  ASSUME ViewInv, NEW r \in Readers, ReadsNotes(r)
  PROVE  ViewInv'
<1> DEFINE q == process[r]
           revision == q.summary.event_count
           number == IF q.summary.note_revision = 0 \/ summary = None
                     THEN 0 ELSE summary.note_revision
           counted == [q EXCEPT !.notes = number]
           new == IF q.briefing # None /\ q.briefing.evidence_revision = revision
                  THEN [counted EXCEPT !.pc = "reread", !.state = q.briefing.device_state]
                  ELSE IF revision \in DOMAIN cache[r]
                  THEN [counted EXCEPT !.pc = "reread", !.state = cache[r][revision]]
                  ELSE [counted EXCEPT !.pc = "pages", !.missed = TRUE]
<1>1. /\ q.pc = "notes" /\ process' = [process EXCEPT ![r] = new]
      /\ UNCHANGED <<database, cache>>
  BY DEF ReadsNotes
<1>2. InstanceOK(q, summary, recorded) /\ ReaderOK(q, summary, assessments)
  BY DEF ViewInv, ProcessesOK
<1>3. Fields(q)  BY <1>2 DEF InstanceOK
<1>4. counted = Request(q.pc, q.summary, q.latest, number, q.state,
                  q.cursor, q.ledger, q.briefing, q.missed)
  <2> HIDE DEF q, number
  <2> QED  BY <1>3 DEF Fields, Request
<1>5. summary # None => NotesOK(q.summary, number, summary)
  <2> SUFFICES ASSUME summary # None PROVE NotesOK(q.summary, number, summary)  OBVIOUS
  <2>1. q.summary \in Looks /\ q.summary.note_revision =< summary.note_revision
    BY <1>1, <1>2 DEF InstanceOK, LookOK
  <2>2. q.summary.note_revision \in Nat /\ summary.note_revision \in Nat
    BY <2>1 DEF Looks, ViewInv, SummaryOK, Summaries
  <2> QED  BY <2>1, <2>2 DEF NotesOK
<1>6. /\ recorded \in Seq(signals)
      /\ ToSet(SubSeq(recorded, 1, Len(recorded))) = ToSet(recorded)
  BY WholeEvidence DEF ViewInv, RowsOK
<1>7. \A state : IsKept(state, revision, recorded) /\ Standing(q, summary, recorded)
                   => state = StateOf(ToSet(recorded))
  BY <1>6 DEF IsKept, Standing
<1>8. ASSUME NEW state, IsKept(state, revision, recorded)
      PROVE  LET to == [counted EXCEPT !.pc = "reread", !.state = state] IN
             InstanceOK(to, summary, recorded) /\ ReaderOK(to, summary, assessments)
  <2> DEFINE to == [counted EXCEPT !.pc = "reread", !.state = state]
  <2>1. to = Request("reread", q.summary, q.latest, number, state,
                  q.cursor, q.ledger, q.briefing, q.missed)
    <3> DEFINE u == [counted EXCEPT !.pc = "reread"]
    <3>1. to = [u EXCEPT !.state = state]  OBVIOUS
    <3> HIDE DEF counted, q, number, to
    <3>2. u = Request("reread", q.summary, q.latest, number, q.state,
                      q.cursor, q.ledger, q.briefing, q.missed)
      BY <1>4 DEF Request
    <3> HIDE DEF u
    <3> QED  BY <3>1, <3>2 DEF Request
  <2> HIDE DEF to, q, number, counted
  <2>2. InstanceOK(to, summary, recorded)
    BY <1>1, <1>2, <1>7, <1>8, <2>1, RequestFields DEF InstanceOK, Standing
  <2>3. ReaderOK(to, summary, assessments)  BY <1>1, <1>2, <1>5, <2>1, RequestFields DEF ReaderOK
  <2> QED  BY <2>2, <2>3 DEF to
<1>9. LET to == [counted EXCEPT !.pc = "pages", !.missed = TRUE] IN
      InstanceOK(to, summary, recorded) /\ ReaderOK(to, summary, assessments)
  <2> DEFINE to == [counted EXCEPT !.pc = "pages", !.missed = TRUE]
  <2> DEFINE yes == TRUE
  <2>1. to = Request("pages", q.summary, q.latest, number, q.state,
                  q.cursor, q.ledger, q.briefing, yes)
    <3> DEFINE u == [counted EXCEPT !.pc = "pages"]
    <3>1. to = [u EXCEPT !.missed = yes]  OBVIOUS
    <3> HIDE DEF counted, q, number, to, yes
    <3>2. u = Request("pages", q.summary, q.latest, number, q.state,
                      q.cursor, q.ledger, q.briefing, q.missed)
      BY <1>4 DEF Request
    <3> HIDE DEF u
    <3> QED  BY <3>1, <3>2 DEF Request
  <2>2. LedgerOf(<<>>, Heard(0, recorded))
    BY EmptyLedger, HeardBeforeAll DEF ViewInv
  <2> HIDE DEF to, q, number, counted, yes
  <2>3. q.ledger = <<>> /\ q.cursor = 0  BY <1>1, <1>2 DEF InstanceOK
  <2>4. InstanceOK(to, summary, recorded)
    BY <1>1, <1>2, <2>1, <2>2, <2>3, RequestFields DEF InstanceOK
  <2>5. ReaderOK(to, summary, assessments)  BY <1>1, <1>2, <1>5, <2>1, RequestFields DEF ReaderOK
  <2> QED  BY <2>4, <2>5 DEF to
<1>10. q.briefing # None /\ q.briefing.evidence_revision = revision
         => IsKept(q.briefing.device_state, revision, recorded)
  BY <1>2 DEF InstanceOK
<1>11. revision \in DOMAIN cache[r] => IsKept(cache[r][revision], revision, recorded)
  BY DEF ViewInv, KeptOK
<1>12. InstanceOK(new, summary, recorded) /\ ReaderOK(new, summary, assessments)
  <2> HIDE DEF q, revision, counted
  <2> QED  BY <1>8, <1>9, <1>10, <1>11
<1> HIDE DEF new
<1> QED  BY <1>1, <1>12, QuietStep

-----------------------------------------------------------------------------
(* The pages of the timeline *)

LEMMA CountedFinite ==
  ASSUME NEW R, NEW counted \in Seq(R)
  PROVE  IsFiniteSet(ToSet(counted))
<1> DEFINE n == Len(counted)
<1>1. n \in Nat /\ counted \in [1 .. n -> ToSet(counted)]  BY DEF ToSet
<1>2. counted \in Surjection(1 .. n, ToSet(counted))  BY <1>1 DEF Surjection, ToSet
<1>3. IsFiniteSet(1 .. n)  BY <1>1, FS_Interval
<1> QED  BY <1>2, <1>3, FS_Surjection

LEMMA LateRow ==
  ASSUME NEW e \in SignalRows, NEW r, r = [e EXCEPT !.late = TRUE]
  PROVE  r.pos = e.pos /\ r.late
<1>1. r.pos = e.pos  BY DEF SignalRows
<1>2. r.late  BY DEF SignalRows
<1> QED  BY <1>1, <1>2

\* The rows of a timeline have different places; those that are not late are
\* the counted ones.
LEMMA TimelineRows ==
  ASSUME RowsOK
  PROVE  /\ IsFiniteSet(Timeline)
         /\ \A r \in Timeline : r.pos \in Nat
         /\ \A r \in Timeline : ~r.late => r \in ToSet(recorded)
         /\ \A r, q \in Timeline : r # q => r.pos # q.pos
         /\ summary # None => ToSet(recorded) \subseteq Timeline
         /\ \A r \in ToSet(recorded) : ~r.late /\ r.pos \in Nat
<1>1. /\ signals \subseteq SignalRows /\ ToSet(recorded) \subseteq signals
      /\ \A r, q \in signals : r # q => r.pos # q.pos
  BY History
<1>2. Timeline \subseteq ToSet(recorded) \cup archived  BY DEF Timeline
<1>3. IsFiniteSet(Timeline)
  <2>1. IsFiniteSet(ToSet(recorded)) /\ IsFiniteSet(archived)  BY CountedFinite DEF RowsOK
  <2>2. IsFiniteSet(ToSet(recorded) \cup archived)  BY <2>1, FS_Union
  <2> QED  BY <1>2, <2>2, FS_Subset
<1>4. \A r \in signals : r.pos \in Nat /\ ~r.late  BY <1>1 DEF SignalRows
<1>5. \A r \in archived : \E e \in signals \ ToSet(recorded) :
        r = [e EXCEPT !.late = TRUE] /\ r.pos = e.pos /\ r.late
  BY <1>1, LateRow DEF RowsOK
<1>6. ASSUME NEW r \in Timeline, NEW q \in Timeline, r.pos = q.pos PROVE r = q
  <2>1. CASE r \in ToSet(recorded) /\ q \in ToSet(recorded)  BY <2>1, <1>1, <1>6
  <2>2. CASE r \in ToSet(recorded) /\ q \in archived  BY <2>2, <1>1, <1>5, <1>6
  <2>3. CASE r \in archived /\ q \in ToSet(recorded)  BY <2>3, <1>1, <1>5, <1>6
  <2>4. CASE r \in archived /\ q \in archived
    <3>1. PICK e \in signals : r = [e EXCEPT !.late = TRUE] /\ r.pos = e.pos  BY <2>4, <1>5
    <3>2. PICK f \in signals : q = [f EXCEPT !.late = TRUE] /\ q.pos = f.pos  BY <2>4, <1>5
    <3>3. e = f  BY <3>1, <3>2, <1>1, <1>6
    <3> QED  BY <3>1, <3>2, <3>3
  <2> QED  BY <2>1, <2>2, <2>3, <2>4, <1>2
<1>7. summary # None => ToSet(recorded) \subseteq Timeline  BY DEF Timeline
<1>8. \A r \in Timeline : r.pos \in Nat /\ (~r.late => r \in ToSet(recorded))
  BY <1>1, <1>2, <1>4, <1>5
<1>9. \A r \in ToSet(recorded) : ~r.late /\ r.pos \in Nat  BY <1>1, <1>4
<1> QED  BY <1>3, <1>6, <1>7, <1>8, <1>9

\* A page: with the rows up to the cursor in the ledger, those up to the end of
\* the page are in it afterwards; after a page that is not full, all of them.
LEMMA PageRead ==
  ASSUME RowsOK, NEW cursor \in Nat, NEW ledger, PageSize \in Nat \ {0}
  PROVE  LET rest == InOrder({r \in Timeline : r.pos > cursor})
             page == SubSeq(rest, 1, IF Len(rest) < PageSize THEN Len(rest) ELSE PageSize)
             read == AbsorbAll(ledger, page) IN
         /\ Len(page) = PageSize => Last(page).pos \in Nat
         /\ summary # None /\ LedgerOf(ledger, Heard(cursor, recorded)) =>
              IF Len(page) = PageSize
              THEN LedgerOf(read, Heard(Last(page).pos, recorded))
              ELSE LedgerOf(read, ToSet(recorded))
<1> DEFINE all == {r \in Timeline : r.pos > cursor}
           rest == InOrder(all)
           m == IF Len(rest) < PageSize THEN Len(rest) ELSE PageSize
           page == SubSeq(rest, 1, m)
           read == AbsorbAll(ledger, page)
           heard == Heard(cursor, recorded)
<1>1. /\ \A r \in Timeline : r.pos \in Nat
      /\ \A r \in Timeline : ~r.late => r \in ToSet(recorded)
      /\ summary # None => ToSet(recorded) \subseteq Timeline
      /\ \A r \in ToSet(recorded) : ~r.late /\ r.pos \in Nat
      /\ ToSet(recorded) \subseteq SignalRows
  BY TimelineRows, History
<1>2. IsFiniteSet(all)  BY TimelineRows, FS_Subset
<1>3. /\ rest \in Seq(all) /\ ToSet(rest) = all /\ Sorted(rest)
  <2>1. \A r \in all : r.pos \in Nat  BY <1>1
  <2>2. \A r, q \in all : r # q => r.pos # q.pos  BY TimelineRows
  <2> HIDE DEF all
  <2> QED  BY <1>2, <2>1, <2>2, InOrderRows
<1> HIDE DEF rest
<1>4. /\ m \in Nat /\ m =< Len(rest) /\ Len(rest) \in Nat
      /\ page \in Seq(all) /\ Len(page) = m /\ DOMAIN page = 1 .. m
      /\ \A i \in 1 .. m : page[i] = rest[i]
      /\ DOMAIN rest = 1 .. Len(rest)
  <2>1. m \in Nat /\ m =< Len(rest) /\ Len(rest) \in Nat /\ DOMAIN rest = 1 .. Len(rest)
    BY <1>3
  <2> HIDE DEF m, all
  <2> QED  BY <2>1, <1>3
<1> HIDE DEF page, m
<1>5. Sorted(page)  BY <1>3, <1>4 DEF Sorted
<1>6. \A x : x \in ToSet(page) <=> \E i \in 1 .. m : x = rest[i]  BY <1>4 DEF ToSet
<1>7. ToSet(page) \subseteq all
  <2>1. \A i \in 1 .. m : rest[i] \in all  BY <1>3, <1>4
  <2> QED  BY <2>1, <1>6
<1>8. Len(page) = PageSize => /\ Last(page) = rest[m] /\ m \in 1 .. m /\ m \in DOMAIN rest
                              /\ Last(page) \in all /\ Last(page).pos \in Nat
  <2> SUFFICES ASSUME Len(page) = PageSize
               PROVE  /\ Last(page) = rest[m] /\ m \in 1 .. m /\ m \in DOMAIN rest
                      /\ Last(page) \in all
    BY <1>1
  <2>1. m = PageSize /\ m \in 1 .. m  BY <1>4
  <2>2. Last(page) = rest[m] /\ m \in DOMAIN rest  BY <1>4, <2>1 DEF Last
  <2> QED  BY <2>1, <2>2, <1>3
<1>9. ASSUME summary # None, LedgerOf(ledger, heard)
      PROVE  IF Len(page) = PageSize
             THEN LedgerOf(read, Heard(Last(page).pos, recorded))
             ELSE LedgerOf(read, ToSet(recorded))
  <2> DEFINE more == {r \in ToSet(page) : ~r.late}
  <2>1. LedgerOf(read, heard \cup more)
    <3>1. \A r \in all : r.pos \in Nat /\ (~r.late => r \in SignalRows)  BY <1>1
    <3>2. heard \subseteq SignalRows  BY <1>1 DEF Heard
    <3>3. \A q \in heard : \A r \in ToSet(page) : q.pos < r.pos
      BY <1>1, <1>7 DEF Heard
    <3> HIDE DEF all, heard
    <3> QED  BY <1>4, <1>5, <1>9, <3>1, <3>2, <3>3, PageKeepsLedger
  <2>2. CASE Len(page) = PageSize
    <3> DEFINE to == Last(page).pos
    <3>1. /\ to = rest[m].pos /\ m \in DOMAIN rest /\ to \in Nat /\ to > cursor
      BY <1>8, <2>2
    <3>2. ASSUME NEW r \in heard \cup more PROVE r \in Heard(to, recorded)
      <4>1. CASE r \in heard  BY <4>1, <3>1, <1>1 DEF Heard
      <4>2. CASE r \in more
        <5>1. r \in ToSet(recorded)  BY <4>2, <1>7, <1>1
        <5>2. PICK i \in 1 .. m : r = rest[i]  BY <4>2, <1>6
        <5>3. i \in DOMAIN rest /\ (i < m \/ i = m)  BY <1>4
        <5>4. r.pos =< to
          <6>1. CASE i = m  BY <6>1, <5>1, <5>2, <3>1, <1>1
          <6>2. CASE i < m
            <7>1. rest[i].pos < rest[m].pos  BY <6>2, <5>3, <3>1, <1>3 DEF Sorted
            <7> QED  BY <7>1, <5>1, <5>2, <3>1, <1>1
          <6> QED  BY <6>1, <6>2, <5>3
        <5> QED  BY <5>1, <5>4 DEF Heard
      <4> QED  BY <4>1, <4>2
    <3>3. ASSUME NEW r \in Heard(to, recorded) PROVE r \in heard \cup more
      <4>1. r \in ToSet(recorded) /\ r.pos =< to /\ r.pos \in Nat /\ ~r.late
        BY <1>1 DEF Heard
      <4>2. CASE r.pos =< cursor  BY <4>1, <4>2 DEF Heard
      <4>3. CASE ~(r.pos =< cursor)
        <5>1. r \in all  BY <4>1, <4>3, <1>1, <1>9
        <5>2. PICK i \in DOMAIN rest : r = rest[i]  BY <5>1, <1>3 DEF ToSet
        <5>3. i =< m
          <6> SUFFICES ASSUME ~(i =< m) PROVE FALSE  OBVIOUS
          <6>1. m < i  BY <1>4, <5>2
          <6>2. rest[m].pos < rest[i].pos  BY <6>1, <3>1, <5>2, <1>3 DEF Sorted
          <6> QED  BY <6>2, <3>1, <4>1, <5>2
        <5>4. r \in ToSet(page)  BY <5>2, <5>3, <1>4, <1>6
        <5> QED  BY <5>4, <4>1
      <4> QED  BY <4>2, <4>3
    <3>4. heard \cup more = Heard(to, recorded)
      <4> HIDE DEF heard, more, to
      <4> QED  BY <3>2, <3>3
    <3>5. LedgerOf(read, Heard(to, recorded))
      <4> HIDE DEF heard, more, to, read
      <4> QED  BY <2>1, <3>4
    <3> QED  BY <3>5, <2>2
  <2>3. CASE Len(page) # PageSize
    <3>1. m = Len(rest)  BY <2>3, <1>4 DEF m
    <3>2. ToSet(page) = all  BY <1>3, <1>4, <1>6, <3>1 DEF ToSet
    <3>3. \A r : r \in heard \cup more <=> r \in ToSet(recorded)
      <4>1. \A r \in heard \cup more : r \in ToSet(recorded)  BY <3>2, <1>1 DEF Heard
      <4>2. \A r \in ToSet(recorded) : r \in heard \cup more
        BY <3>2, <1>1, <1>9 DEF Heard
      <4> QED  BY <4>1, <4>2
    <3>4. heard \cup more = ToSet(recorded)
      <4> HIDE DEF heard, more
      <4> QED  BY <3>3
    <3>5. LedgerOf(read, ToSet(recorded))
      <4> HIDE DEF heard, more, read
      <4> QED  BY <2>1, <3>4
    <3> QED  BY <3>5, <2>3
  <2> QED  BY <2>2, <2>3
<1> QED  BY <1>8, <1>9 DEF page, rest, m

LEMMA ReadsPageKeeps ==
  ASSUME ViewInv, NEW p \in Readers \cup Briefers, NEW label, ReadsPage(p, label),
         \/ label = "reread"
         \/ label = "record" /\ p \notin Readers
  PROVE  ViewInv'
<1> DEFINE q == process[p]
           rest == InOrder({r \in Timeline : r.pos > q.cursor})
           page == SubSeq(rest, 1, IF Len(rest) < PageSize THEN Len(rest) ELSE PageSize)
           read == AbsorbAll(q.ledger, page)
           to == Last(page).pos
           state == State(read)
           new == IF Len(page) = PageSize
                  THEN [q EXCEPT !.ledger = read, !.cursor = to]
                  ELSE [q EXCEPT !.ledger = <<>>, !.cursor = 0, !.pc = label, !.state = state]
<1>1. /\ q.pc = "pages" /\ process' = [process EXCEPT ![p] = new]
      /\ UNCHANGED <<database, cache>>
  BY DEF ReadsPage
<1>2. InstanceOK(q, summary, recorded) /\ (p \in Readers => ReaderOK(q, summary, assessments))
  BY DEF ViewInv, ProcessesOK
<1>3. Fields(q) /\ q.cursor \in Nat  BY <1>2 DEF InstanceOK
<1>4. RowsOK /\ PageSize \in Nat \ {0}  BY ViewAssumption DEF ViewInv, ViewAssumption
<1>5. /\ Len(page) = PageSize => to \in Nat
      /\ summary # None /\ LedgerOf(q.ledger, Heard(q.cursor, recorded)) =>
           IF Len(page) = PageSize
           THEN LedgerOf(read, Heard(to, recorded))
           ELSE LedgerOf(read, ToSet(recorded))
  <2> DEFINE c == q.cursor
             l == q.ledger
  <2>1. c \in Nat  BY <1>3
  <2> HIDE DEF c, l
  <2> QED  BY <1>4, <2>1, PageRead DEF c, l
<1>6. Standing(q, summary, recorded) =>
        /\ Len(page) = PageSize => LedgerOf(read, Heard(to, recorded))
        /\ Len(page) # PageSize => state = StateOf(ToSet(recorded))
  <2> SUFFICES ASSUME Standing(q, summary, recorded)
               PROVE  /\ Len(page) = PageSize => LedgerOf(read, Heard(to, recorded))
                      /\ Len(page) # PageSize => state = StateOf(ToSet(recorded))
    OBVIOUS
  <2>1. summary # None /\ LedgerOf(q.ledger, Heard(q.cursor, recorded))
    BY <1>1, <1>2 DEF InstanceOK, Standing
  <2>2. /\ ToSet(recorded) \subseteq SignalRows
        /\ \A r, s \in ToSet(recorded) : r # s /\ SameKey(r, s) => r.id # s.id
    BY <1>4, History
  <2> HIDE DEF q, page, read, to
  <2> QED  BY <1>5, <2>1, <2>2, LedgerState
<1>7. CASE Len(page) = PageSize
  <2>1. new = Request(q.pc, q.summary, q.latest, q.notes, q.state,
                      to, read, q.briefing, q.missed)
    <3> DEFINE u == [q EXCEPT !.ledger = read]
    <3>1. new = [u EXCEPT !.cursor = to]  BY <1>7
    <3> HIDE DEF q, read, to, new
    <3>2. u = Request(q.pc, q.summary, q.latest, q.notes, q.state,
                      q.cursor, read, q.briefing, q.missed)
      BY <1>3 DEF Fields, Request
    <3> HIDE DEF u
    <3> QED  BY <3>1, <3>2 DEF Request
  <2> HIDE DEF q, page, read, to, state, new
  <2>2. InstanceOK(new, summary, recorded)
    BY <1>1, <1>2, <1>5, <1>6, <1>7, <2>1, RequestFields DEF InstanceOK, Standing
  <2>3. p \in Readers => ReaderOK(new, summary, assessments)
    BY <1>1, <1>2, <2>1, RequestFields DEF ReaderOK
  <2> QED  BY <1>1, <2>2, <2>3, QuietStep
<1>8. CASE Len(page) # PageSize
  <2>1. new = Request(label, q.summary, q.latest, q.notes, state,
                      0, <<>>, q.briefing, q.missed)
    <3> DEFINE u == [q EXCEPT !.ledger = <<>>]
               v == [u EXCEPT !.cursor = 0]
               w == [v EXCEPT !.pc = label]
    <3>1. new = [w EXCEPT !.state = state]  BY <1>8
    <3> HIDE DEF q, read, to, new, state
    <3>2. u = Request(q.pc, q.summary, q.latest, q.notes, q.state,
                      q.cursor, <<>>, q.briefing, q.missed)
      BY <1>3 DEF Fields, Request
    <3> HIDE DEF u
    <3>3. v = Request(q.pc, q.summary, q.latest, q.notes, q.state,
                      0, <<>>, q.briefing, q.missed)
      BY <3>2 DEF Request
    <3> HIDE DEF v
    <3>4. w = Request(label, q.summary, q.latest, q.notes, q.state,
                      0, <<>>, q.briefing, q.missed)
      BY <3>3 DEF Request
    <3> HIDE DEF w
    <3> QED  BY <3>1, <3>4 DEF Request
  <2> HIDE DEF q, page, read, to, state, new
  <2>2. InstanceOK(new, summary, recorded)
    BY <1>1, <1>2, <1>6, <1>8, <2>1, RequestFields DEF InstanceOK, Standing
  <2>3. p \in Readers => ReaderOK(new, summary, assessments)
    BY <1>1, <1>2, <2>1, RequestFields DEF ReaderOK
  <2> QED  BY <1>1, <2>2, <2>3, QuietStep
<1> QED  BY <1>7, <1>8

-----------------------------------------------------------------------------
(* The end of a request, and of a briefing *)

LEMMA IdleIsOK ==
  InstanceOK(Idle, summary, recorded) /\ ReaderOK(Idle, summary, assessments)
<1>1. /\ Idle.pc = "idle" /\ Idle.cursor = 0 /\ Idle.ledger = <<>> /\ Idle.briefing = None
      /\ Fields(Idle)
  BY DEF Idle, Fields, Request
<1> QED  BY <1>1 DEF InstanceOK, ReaderOK

\* What a request that is not overtaken came to.
LEMMA ReadIsKept ==
  ASSUME ViewInv, NEW p \in Readers \cup Briefers, process[p].pc \in {"reread", "record"},
         summary # None, process[p].summary.event_count = EventCount
  PROVE  IsKept(process[p].state, process[p].summary.event_count, recorded)
<1>1. Standing(process[p], summary, recorded)  BY DEF Standing, EventCount
<1>2. process[p].state = StateOf(ToSet(recorded))
  BY <1>1 DEF ViewInv, ProcessesOK, InstanceOK
<1>3. recorded \in Seq(signals) /\ Len(recorded) \in Nat  BY DEF ViewInv, RowsOK
<1> QED  BY <1>2, <1>3, WholeEvidence DEF IsKept, EventCount

LEMMA PutKeeps ==
  ASSUME NEW entries, NEW revision, NEW state, NEW more \in Put(entries, revision, state),
         IsKept(state, revision, recorded),
         \A v \in DOMAIN entries : IsKept(entries[v], v, recorded)
  PROVE  \A v \in DOMAIN more : IsKept(more[v], v, recorded)
<1>1. PICK kept \in SUBSET (DOMAIN entries \cup {revision}) :
        more = [v \in kept |-> IF v = revision THEN state ELSE entries[v]]
  BY DEF Put
<1> QED  BY <1>1

LEMMA RereadsKeeps ==
  ASSUME ViewInv, NEW r \in Readers, Rereads(r)
  PROVE  ViewInv'
<1>1. /\ process[r].pc = "reread" /\ process' = [process EXCEPT ![r] = Idle]
      /\ UNCHANGED <<rows, summary, assessments>> /\ UNCHANGED <<recorded, briefing>>
  BY DEF Rereads, database, rows
<1>2. DOMAIN cache = Readers /\ \A q \in Readers : \A v \in DOMAIN cache[q] :
        IsKept(cache[q][v], v, recorded)
  BY DEF ViewInv, KeptOK
<1>3. KeptOK'
  <2>1. CASE summary # None /\ ~summary.deleting /\ Keeps(r)
    <3>1. PICK entries \in Put(cache[r], process[r].summary.event_count, process[r].state) :
            cache' = [cache EXCEPT ![r] = entries]
      BY <2>1 DEF Rereads
    <3>2. process[r].summary.event_count = EventCount  BY <2>1 DEF Keeps, Unchanged
    <3>3. IsKept(process[r].state, process[r].summary.event_count, recorded)
      BY <1>1, <2>1, <3>2, ReadIsKept
    <3>4. \A v \in DOMAIN entries : IsKept(entries[v], v, recorded)
      BY <1>2, <3>3, PutKeeps
    <3>5. DOMAIN cache' = Readers /\ \A q \in Readers : \A v \in DOMAIN cache'[q] :
            IsKept(cache'[q][v], v, recorded)
      BY <1>2, <3>1, <3>4
    <3> QED  BY <1>1, <3>5 DEF ViewInv, KeptOK
  <2>2. CASE ~(summary # None /\ ~summary.deleting /\ Keeps(r))
    <3>1. cache' = cache  BY <2>2 DEF Rereads
    <3> QED  BY <1>1, <3>1 DEF ViewInv, KeptOK
  <2> QED  BY <2>1, <2>2
<1> QED  BY <1>1, <1>3, IdleIsOK, ProcessStep

LEMMA EvictsKeeps ==
  ASSUME ViewInv, NEW r \in Readers, NEW revision \in DOMAIN cache[r], Evicts(r, revision)
  PROVE  ViewInv'
<1>1. /\ cache' = [cache EXCEPT ![r] = Restrict(@, DOMAIN @ \ {revision})]
      /\ UNCHANGED <<signals, recorded, archived, summary, assessments, briefing, process>>
  BY DEF Evicts, database, rows
<1>2. DOMAIN cache = Readers /\ \A q \in Readers : \A v \in DOMAIN cache[q] :
        IsKept(cache[q][v], v, recorded)
  BY DEF ViewInv, KeptOK
<1>3. DOMAIN cache' = Readers /\ \A q \in Readers : \A v \in DOMAIN cache'[q] :
        IsKept(cache'[q][v], v, recorded)
  BY <1>1, <1>2 DEF Restrict
<1>4. KeptOK'  BY <1>1, <1>3 DEF ViewInv, KeptOK
<1>5. RowsOK' /\ SummaryOK' /\ ProcessesOK'
  BY <1>1 DEF ViewInv, RowsOK, SummaryOK, ProcessesOK
<1> QED  BY <1>4, <1>5 DEF ViewInv

LEMMA RecordsBriefingKeeps ==
  ASSUME ViewInv, NEW b \in Briefers, RecordsBriefing(b)
  PROVE  ViewInv'
<1> DEFINE state == process[b].state
           revision == process[b].summary.event_count
           row == [device_state |-> state, evidence_revision |-> revision]
<1>1. /\ process[b].pc = "record" /\ process' = [process EXCEPT ![b] = Idle]
      /\ UNCHANGED <<rows, summary, assessments, cache>> /\ UNCHANGED recorded
      /\ briefing' = IF summary # None /\ ~summary.deleting /\ Unchanged(b)
                     THEN row ELSE briefing
  BY DEF RecordsBriefing, rows
<1>2. summary # None /\ Unchanged(b) => IsKept(state, revision, recorded)
  BY <1>1, ReadIsKept DEF Unchanged
<1>3. row.device_state = state /\ row.evidence_revision = revision  OBVIOUS
<1> HIDE DEF state, revision, row
<1>4. briefing' # None => IsKept(briefing'.device_state, briefing'.evidence_revision, recorded)
  BY <1>1, <1>2, <1>3 DEF ViewInv, KeptOK
<1>5. KeptOK'  BY <1>1, <1>4 DEF ViewInv, KeptOK
<1> QED  BY <1>1, <1>5, IdleIsOK, ProcessStep DEF ViewInv, ProcessesOK

-----------------------------------------------------------------------------
(* The theorems *)

LEMMA ViewInvInit ==
  Init => ViewInv
<1> SUFFICES ASSUME Init PROVE ViewInv  OBVIOUS
<1>1. RowsOK
  <2>1. <<>> \in Seq(signals)  OBVIOUS
  <2> QED  BY <2>1, FS_EmptySet DEF Init, RowsOK
<1>2. SummaryOK
  <2>1. <<>> \in Seq(Conclusions) /\ Len(<<>>) = 0  OBVIOUS
  <2>2. summary \in Summaries /\ summary.latest_assessment = 0
    BY DEF Init, Summaries, Verdicts
  <2> QED  BY <2>1, <2>2 DEF Init, SummaryOK
<1>3. KeptOK  BY DEF Init, KeptOK
<1>4. ProcessesOK
  <2>1. DOMAIN process = Readers \cup Briefers /\ \A p \in Readers \cup Briefers : process[p] = Idle
    BY DEF Init
  <2> QED  BY <2>1, IdleIsOK DEF ProcessesOK
<1> QED  BY <1>1, <1>2, <1>3, <1>4 DEF ViewInv

LEMMA ViewInvNext ==
  ViewInv /\ [Next]_vars => ViewInv'
<1> SUFFICES ASSUME ViewInv, [Next]_vars PROVE ViewInv'  OBVIOUS
<1>1. ASSUME NEW e \in signals, Records(e) PROVE ViewInv'  BY <1>1, RecordsKeeps
<1>2. ASSUME NEW e \in signals, Archives(e) PROVE ViewInv'  BY <1>2, ArchivesKeeps
<1>3. CASE SavesNote  BY <1>3, SavesNoteKeeps
<1>4. ASSUME NEW severity \in Severities \cup {None}, Publishes(severity) PROVE ViewInv'
  BY <1>4, PublishesKeeps
<1>5. ASSUME NEW verdict \in {"accepted", "rejected"}, Reviews(verdict) PROVE ViewInv'
  BY <1>5, ReviewsKeeps
<1>6. CASE Resolves  BY <1>6, ResolvesKeeps
<1>7. CASE RequestsDeletion  BY <1>7, RequestsDeletionKeeps
<1>8. CASE Purges  BY <1>8, PurgesKeeps
<1>9. ASSUME NEW r \in Readers, Begins(r) PROVE ViewInv'  BY <1>9, BeginsWithKeeps DEF Begins
<1>10. ASSUME NEW r \in Readers, ReadsLatest(r) PROVE ViewInv'  BY <1>10, ReadsLatestKeeps
<1>11. ASSUME NEW r \in Readers, ReadsBriefing(r) PROVE ViewInv'  BY <1>11, ReadsBriefingKeeps
<1>12. ASSUME NEW r \in Readers, ReadsNotes(r) PROVE ViewInv'  BY <1>12, ReadsNotesKeeps
<1>13. ASSUME NEW r \in Readers, ReadsTimeline(r) PROVE ViewInv'
  BY <1>13, ReadsPageKeeps DEF ReadsTimeline
<1>14. ASSUME NEW r \in Readers, Rereads(r) PROVE ViewInv'  BY <1>14, RereadsKeeps
<1>15. ASSUME NEW r \in Readers, NEW v \in DOMAIN cache[r], Evicts(r, v) PROVE ViewInv'
  BY <1>15, EvictsKeeps
<1>16. \A b \in Briefers : b \notin Readers  BY ViewAssumption DEF ViewAssumption
<1>17. ASSUME NEW b \in Briefers, StartsBriefing(b) PROVE ViewInv'
  BY <1>16, <1>17, BeginsWithKeeps DEF StartsBriefing
<1>18. ASSUME NEW b \in Briefers, BriefingReadsTimeline(b) PROVE ViewInv'
  BY <1>16, <1>18, ReadsPageKeeps DEF BriefingReadsTimeline
<1>19. ASSUME NEW b \in Briefers, RecordsBriefing(b) PROVE ViewInv'
  BY <1>19, RecordsBriefingKeeps
<1>20. CASE UNCHANGED vars
  <2>1. UNCHANGED <<signals, recorded, archived, summary, assessments, briefing, cache, process>>
    BY <1>20 DEF vars, database, rows
  <2> QED  BY <2>1 DEF ViewInv, RowsOK, SummaryOK, KeptOK, ProcessesOK
<1>21. CASE Writes
  BY <1>21, <1>1, <1>2, <1>3, <1>4, <1>5, <1>6, <1>7, <1>8 DEF Writes
<1>22. CASE Requests
  BY <1>22, <1>9, <1>10, <1>11, <1>12, <1>13, <1>14, <1>15 DEF Requests
<1>23. CASE Briefs  BY <1>23, <1>17, <1>18, <1>19 DEF Briefs
<1> QED  BY <1>20, <1>21, <1>22, <1>23 DEF Next

\* The inductive invariant of the view: how far every request, page, cached
\* entry and briefing is from the present rows (incident_api/handler.py:44-156,
\* briefings.py:14-152, evidence_cache.py).
THEOREM ViewInvariant == Spec => []ViewInv
<1> QED  BY ViewInvInit, ViewInvNext, PTL DEF Spec

LEMMA KeptFromInv ==
  ViewInv => KeptStateIsItsRevision
<1> SUFFICES ASSUME ViewInv PROVE KeptStateIsItsRevision  OBVIOUS
<1>1. \A revision : StateOf(EvidenceOf(revision)) = StateOf(ToSet(SubSeq(recorded, 1, revision)))
  BY DEF EvidenceOf
<1> QED  BY <1>1 DEF ViewInv, KeptOK, IsKept, KeptStateIsItsRevision

\* Whatever an instance's cache or the briefing keeps for a revision is the
\* state of the first so many signals (evidence_cache.py, briefings.py:92-120).
THEOREM KeptStates == Spec => []KeptStateIsItsRevision
<1> QED  BY ViewInvariant, KeptFromInv, PTL

LEMMA SeverityFromInv ==
  ViewInv => SeverityIsItsWorstRow
<1> SUFFICES ASSUME ViewInv PROVE SeverityIsItsWorstRow  OBVIOUS
<1> DEFINE live == Live(ToSet(recorded))
<1>1. live \subseteq SignalRows  BY History DEF ViewInv, Live, Latest
<1>2. \A r \in live : r.alarm # "clear"  BY DEF Live
<1> HIDE DEF live
<1>3. LET shown == {Level(r, RedDevices(live)) : r \in live} IN
      SeverityOf(live) = IF "red" \in shown THEN "urgent"
                         ELSE IF "amber" \in shown THEN "warning" ELSE "informational"
  BY <1>1, <1>2, SeverityOfRows
<1> QED  BY <1>3 DEF SeverityIsItsWorstRow, live

\* The severity of the recorded signals is that of the worst marker
\* (hazard_priority.py:55-97).
THEOREM SeverityAndMarkers == Spec => []SeverityIsItsWorstRow
<1> QED  BY ViewInvariant, SeverityFromInv, PTL

LEMMA AtomicFromInv ==
  ViewInv => AnswersAreAtomic
<1> SUFFICES ASSUME ViewInv, NEW r \in Readers, process[r].pc = "reread", summary # None,
                    ~summary.deleting, Unchanged(r)
             PROVE  Answer(r) = View
  BY DEF AnswersAreAtomic
<1> DEFINE q == process[r]
           s == q.summary
           now == StateOf(ToSet(recorded))
<1>1. /\ s.event_count = EventCount /\ s.resolved = summary.resolved
      /\ s.note_revision = summary.note_revision
      /\ s.latest_assessment = summary.latest_assessment
      /\ s.decision_review = summary.decision_review
  BY DEF Unchanged
<1>2. InstanceOK(q, summary, recorded) /\ ReaderOK(q, summary, assessments)
  BY DEF ViewInv, ProcessesOK
<1>3. s \in Looks /\ ~s.deleting  BY <1>2 DEF InstanceOK, LookOK
<1>4. s = Looked
  <2>1. summary.deleting = s.deleting  BY <1>3 DEF ViewInv, SummaryOK, Summaries, Looks
  <2>2. s = [note_revision |-> s.note_revision, latest_assessment |-> s.latest_assessment,
             decision_review |-> s.decision_review, resolved |-> s.resolved,
             deleting |-> s.deleting, event_count |-> s.event_count]
    <3> HIDE DEF s
    <3> QED  BY <1>3 DEF Looks
  <2> HIDE DEF s
  <2> QED  BY <1>1, <2>1, <2>2 DEF Looked
<1>5. q.latest = LatestOf(s, assessments)  BY <1>2 DEF ReaderOK
<1>6. q.notes = s.note_revision
  <2>1. NotesOK(s, q.notes, summary)  BY <1>2 DEF ReaderOK
  <2>2. s.note_revision \in Nat  BY <1>3 DEF Looks
  <2> QED  BY <1>1, <2>1, <2>2 DEF NotesOK
<1>7. q.state = now
  BY <1>1, <1>2 DEF InstanceOK, Standing, EventCount
<1> DEFINE a == q.latest
           current == CurrentAssessment(s, a)
           raised == IF current /\ s.decision_review # "rejected"
                        /\ now.active_devices # {} /\ a.severity # None
                     THEN Higher(now.severity, a.severity) ELSE now.severity
<1>8. AssessedSeverity(now, Proposed(s, a)) = raised
  <2> HIDE DEF now, s, a
  <2> QED  BY DEF AssessedSeverity, Proposed
<1>9. Answer(r) = [incident |-> s, latest_assessment |-> a, notes |-> s.note_revision,
        assessment_current |-> current,
        active_devices |-> IF s.resolved THEN {} ELSE now.active_devices,
        canonical_severity |-> IF s.resolved THEN "informational" ELSE raised,
        last_reported_at |-> now.last_reported_at]
  <2> HIDE DEF now, raised
  <2> QED  BY <1>6, <1>7, <1>8 DEF Answer
<1>10. View = [incident |-> s, latest_assessment |-> a, notes |-> s.note_revision,
        assessment_current |-> current,
        active_devices |-> IF s.resolved THEN {} ELSE now.active_devices,
        canonical_severity |-> IF s.resolved THEN "informational" ELSE raised,
        last_reported_at |-> now.last_reported_at]
  <2> DEFINE Of(x, y) ==
        [incident |-> x, latest_assessment |-> y, notes |-> x.note_revision,
         assessment_current |-> CurrentAssessment(x, y),
         active_devices |-> IF x.resolved THEN {} ELSE now.active_devices,
         canonical_severity |->
           IF x.resolved THEN "informational"
           ELSE IF CurrentAssessment(x, y) /\ x.decision_review # "rejected"
                   /\ now.active_devices # {} /\ y.severity # None
                THEN Higher(now.severity, y.severity) ELSE now.severity,
         last_reported_at |-> now.last_reported_at]
  <2>1. View = Of(Looked, LatestOf(Looked, assessments))  BY DEF View, LatestOf
  <2>2. Looked = s /\ LatestOf(Looked, assessments) = a  BY <1>4, <1>5
  <2>3. Of(Looked, LatestOf(Looked, assessments)) = Of(s, a)
    <3> HIDE DEF Of, s, a
    <3> QED  BY <2>2
  <2> HIDE DEF now, s, a
  <2> QED  BY <2>1, <2>3
<1> HIDE DEF s, a, now, raised, current
<1> QED  BY <1>9, <1>10

\* A result that is not marked as refreshing is one atomic view, from whatever
\* reads it was put together (incident_api/handler.py:124-156).
THEOREM AtomicAnswers == Spec => []AnswersAreAtomic
<1> QED  BY ViewInvariant, AtomicFromInv, PTL

=============================================================================
