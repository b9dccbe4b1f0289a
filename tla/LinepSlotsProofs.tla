-------------------------- MODULE LinepSlotsProofs --------------------------
(***************************************************************************)
(* Slot selection for any slots, workers and tables: what sorting the      *)
(* candidates and walking along them may return is what LinepSchedulerInv  *)
(* says a selection is, no less and no more.                               *)
(***************************************************************************)
EXTENDS LinepSchedulerProofs

-----------------------------------------------------------------------------
(* Finite sets *)

\* A function that tells the members of S apart counts them.
LEMMA CountedBy ==
  ASSUME NEW S, NEW T, IsFiniteSet(S), NEW f \in Bijection(S, T)
  PROVE  IsFiniteSet(T) /\ Cardinality(T) = Cardinality(S)
BY FS_Bijection DEF ExistsBijection

\* Leaving out a member makes a finite set smaller.
LEMMA Smaller ==
  ASSUME NEW B, IsFiniteSet(B), NEW A \in SUBSET B, NEW b \in B \ A
  PROVE  Cardinality(A) \in Nat /\ Cardinality(B) \in Nat /\ Cardinality(A) < Cardinality(B)
<1>1. IsFiniteSet(A) /\ Cardinality(A) <= Cardinality(B) /\ Cardinality(A) # Cardinality(B)
  BY FS_Subset
<1>2. QED
  BY <1>1, FS_CardinalityType

\* Numbers have a least one.
LEMMA Least ==
  ASSUME NEW T \in SUBSET Nat, T # {}
  PROVE  \E x \in T : \A y \in T : x <= y
<1>1. PICK x \in T : \A y \in T : <<y, x>> \notin OpToRel(<, Nat)
  BY NatLessThanWellFounded, WFMin
<1>2. ASSUME NEW y \in T PROVE x <= y
  <2>1. <<y, x>> \in Nat \X Nat
    OBVIOUS
  <2>2. ~(y < x)
    BY <1>1, <2>1 DEF OpToRel
  <2>3. QED
    BY <2>2
<1>3. QED
  BY <1>2

\* In a strict total order of a finite set, how many come before a member
\* numbers the members.
LEMMA Ranks ==
  ASSUME NEW C, IsFiniteSet(C), NEW R,
         \A a \in C : <<a, a>> \notin R,
         \A a, b, c \in C : <<a, b>> \in R /\ <<b, c>> \in R => <<a, c>> \in R,
         \A a, b \in C : a # b => <<a, b>> \in R \/ <<b, a>> \in R,
         NEW r, r = [a \in C |-> Cardinality({b \in C : <<b, a>> \in R})]
  PROVE  /\ r \in Bijection(C, 0..(Cardinality(C) - 1))
         /\ \A a, b \in C : <<a, b>> \in R <=> r[a] < r[b]
<1>0. Cardinality(C) \in Nat
  BY FS_CardinalityType
<1>1. ASSUME NEW a \in C PROVE r[a] \in 0..(Cardinality(C) - 1)
  <2>1. a \in C \ {b \in C : <<b, a>> \in R}
    OBVIOUS
  <2>2. Cardinality({b \in C : <<b, a>> \in R}) \in Nat
        /\ Cardinality({b \in C : <<b, a>> \in R}) < Cardinality(C)
    BY <2>1, Smaller
  <2>3. r[a] = Cardinality({b \in C : <<b, a>> \in R})
    OBVIOUS
  <2>4. QED
    BY <1>0, <2>2, <2>3
<1>2. ASSUME NEW a \in C, NEW b \in C, <<a, b>> \in R PROVE r[a] < r[b]
  <2>1. {d \in C : <<d, b>> \in R} \subseteq C
    OBVIOUS
  <2>2. IsFiniteSet({d \in C : <<d, b>> \in R})
    BY <2>1, FS_Subset
  <2>3. {d \in C : <<d, a>> \in R} \subseteq {d \in C : <<d, b>> \in R}
    BY <1>2
  <2>4. a \in {d \in C : <<d, b>> \in R} \ {d \in C : <<d, a>> \in R}
    BY <1>2
  <2>5. QED
    BY <2>2, <2>3, <2>4, Smaller
<1>3. ASSUME NEW a \in C, NEW b \in C, r[a] < r[b] PROVE <<a, b>> \in R
  <2>1. r[a] \in Int /\ r[b] \in Int
    BY <1>0, <1>1
  <2>2. ASSUME <<b, a>> \in R PROVE FALSE
    BY <1>2, <1>3, <2>1, <2>2
  <2>3. a # b
    BY <1>3, <2>1
  <2>4. QED
    BY <2>2, <2>3
<1>4. r \in Injection(C, 0..(Cardinality(C) - 1))
  <2>1. r \in [C -> 0..(Cardinality(C) - 1)]
    BY <1>1
  <2>2. ASSUME NEW a \in C, NEW b \in C, r[a] = r[b] PROVE a = b
    <3>1. r[a] \in Int /\ r[b] \in Int
      BY <1>0, <1>1
    <3>2. ~(<<a, b>> \in R) /\ ~(<<b, a>> \in R)
      BY <1>2, <2>2, <3>1
    <3>3. QED
      BY <3>2
  <2>3. QED
    BY <2>1, <2>2 DEF Injection, IsInjective
<1>5. r \in Surjection(C, 0..(Cardinality(C) - 1))
  <2>1. PICK T : T = 0..(Cardinality(C) - 1)
    OBVIOUS
  <2>2. IsFiniteSet(T) /\ Cardinality(T) = Cardinality(C)
    BY <1>0, <2>1, FS_Interval
  <2>3. r \in Injection(C, T)
    BY <1>4, <2>1
  <2>4. r \in Surjection(C, T)
    BY <2>2, <2>3, FS_Injection
  <2>5. QED
    BY <2>1, <2>4
<1>6. QED
  BY <1>2, <1>3, <1>4, <1>5 DEF Bijection

-----------------------------------------------------------------------------
(* The comparator *)

\* The fields that are compared are numbers.
Numbered(slot) ==
  /\ slot.load \in Nat /\ slot.queue \in Nat /\ slot.timeouts \in Nat
  /\ slot.lastUsed \in Nat /\ slot.lastHeartbeat \in Nat /\ slot.cooldownUntil \in Nat

LEMMA ScoreIsNumber ==
  ASSUME NEW a, Numbered(a)
  PROVE  ScoreSlot(a) \in Int
<1>1. \A flag, points : points \in Int => Penalty(flag, points) \in Int
  BY DEF Penalty
<1>2. QED
  BY <1>1 DEF ScoreSlot, Numbered

\* std::sort's precondition: SortsBefore is a strict weak order.
LEMMA ComparatorIsOrder ==
  ASSUME NEW a, NEW b, NEW c, Numbered(a), Numbered(b), Numbered(c)
  PROVE  /\ ~SortsBefore(a, a)
         /\ SortsBefore(a, b) => ~SortsBefore(b, a)
         /\ SortsBefore(a, b) /\ SortsBefore(b, c) => SortsBefore(a, c)
         /\ ~SortsBefore(a, b) /\ ~SortsBefore(b, c) => ~SortsBefore(a, c)
BY ScoreIsNumber DEF SortsBefore, IsBetterTie, Numbered
-----------------------------------------------------------------------------
(* The walk along an order *)

\* An order of C lists every member of C once.
LEMMA OrderLists ==
  ASSUME NEW C, IsFiniteSet(C), NEW o \in SetToSeqs(C)
  PROVE  /\ Cardinality(C) \in Nat
         /\ o \in Bijection(1..Cardinality(C), C)
         /\ DOMAIN o = 1..Cardinality(C)
<1>1. Cardinality(C) \in Nat
  BY FS_CardinalityType
<1>2. o \in Injection(1..Cardinality(C), C) /\ DOMAIN o = 1..Cardinality(C)
  BY DEF SetToSeqs, Injection, IsInjective
<1>3. Cardinality(1..Cardinality(C)) = Cardinality(C)
  BY <1>1, FS_Interval
<1>4. o \in Surjection(1..Cardinality(C), C)
  BY <1>2, <1>3, FS_Injection
<1>5. QED
  BY <1>1, <1>2, <1>4 DEF Bijection

\* A worker in the order is met for the first time somewhere.
LEMMA FirstMet ==
  ASSUME NEW n \in Nat, NEW o, DOMAIN o = 1..n, NEW i \in 1..n
  PROVE  \E j \in NewWorkerAt(o) : j <= i /\ WorkerOf[o[j]] = WorkerOf[o[i]]
<1>1. PICK T : T = {j \in 1..n : j <= i /\ WorkerOf[o[j]] = WorkerOf[o[i]]}
  OBVIOUS
<1>2. T \in SUBSET Nat /\ i \in T
  BY <1>1
<1>3. PICK j \in T : \A m \in T : j <= m
  BY <1>2, Least
<1>4. j \in 1..n /\ j <= i /\ WorkerOf[o[j]] = WorkerOf[o[i]]
  BY <1>1, <1>3
<1>5. ASSUME NEW m \in 1..(j - 1) PROVE WorkerOf[o[m]] # WorkerOf[o[j]]
  <2>1. m \in 1..n /\ m <= i /\ ~(j <= m)
    BY <1>4
  <2>2. m \notin T
    BY <1>3, <2>1
  <2>3. QED
    BY <1>1, <1>4, <2>1, <2>2
<1>6. j \in NewWorkerAt(o)
  BY <1>4, <1>5 DEF NewWorkerAt
<1>7. QED
  BY <1>4, <1>6

\* The first k of a finite set of numbers are k, or all when they are fewer.
FirstOf(W, k) == {n \in W : Cardinality({m \in W : m < n}) < k}

LEMMA FirstOfNumbers ==
  ASSUME NEW W \in SUBSET Nat, IsFiniteSet(W), NEW k \in Nat, NEW P, P = FirstOf(W, k)
  PROVE  /\ IsFiniteSet(P)
         /\ Cardinality(P) = IF Cardinality(W) < k THEN Cardinality(W) ELSE k
         /\ \A i \in P, j \in W : j <= i => j \in P
<1>1. PICK R : R = {q \in W \X W : q[1] < q[2]}
  OBVIOUS
<1>2. \A a, b \in W : <<a, b>> \in R <=> a < b
  BY <1>1
<1>3. PICK r : r = [n \in W |-> Cardinality({m \in W : <<m, n>> \in R})]
  OBVIOUS
<1>4. /\ r \in Bijection(W, 0..(Cardinality(W) - 1))
      /\ \A a, b \in W : a < b <=> r[a] < r[b]
  <2>1. /\ \A a \in W : <<a, a>> \notin R
        /\ \A a, b, c \in W : <<a, b>> \in R /\ <<b, c>> \in R => <<a, c>> \in R
        /\ \A a, b \in W : a # b => <<a, b>> \in R \/ <<b, a>> \in R
    BY <1>2
  <2>2. /\ r \in Bijection(W, 0..(Cardinality(W) - 1))
        /\ \A a, b \in W : <<a, b>> \in R <=> r[a] < r[b]
    BY <1>3, <2>1, Ranks
  <2>3. QED
    BY <1>2, <2>2
<1>5. P = {n \in W : r[n] < k}
  <2>1. \A n \in W : {m \in W : <<m, n>> \in R} = {m \in W : m < n}
    BY <1>2
  <2>2. \A n \in W : r[n] = Cardinality({m \in W : m < n})
    BY <1>3, <2>1
  <2>3. QED
    BY <2>2 DEF FirstOf
<1>6. Cardinality(W) \in Nat
  BY FS_CardinalityType
<1>7. PICK K : K = IF Cardinality(W) < k THEN Cardinality(W) ELSE k
  OBVIOUS
<1>8. \A n \in W : r[n] \in 0..(Cardinality(W) - 1)
  BY <1>4 DEF Bijection, Injection
<1>9. IsFiniteSet(P)
  BY <1>5, FS_Subset
<1>10. [n \in P |-> r[n]] \in Bijection(P, 0..(K - 1))
  <2>1. \A n \in P : n \in W /\ r[n] \in 0..(K - 1)
    BY <1>5, <1>6, <1>7, <1>8
  <2>2. \A a, b \in P : r[a] = r[b] => a = b
    BY <1>4, <1>5 DEF Bijection, Injection, IsInjective
  <2>3. ASSUME NEW t \in 0..(K - 1) PROVE \E n \in P : r[n] = t
    <3>1. t \in 0..(Cardinality(W) - 1) /\ t < k
      BY <1>6, <1>7
    <3>2. PICK n \in W : r[n] = t
      BY <1>4, <3>1 DEF Bijection, Surjection
    <3>3. QED
      BY <1>5, <3>1, <3>2
  <2>4. QED
    BY <2>1, <2>2, <2>3 DEF Bijection, Injection, Surjection, IsInjective
<1>11. Cardinality(P) = K
  <2>1. Cardinality(0..(K - 1)) = Cardinality(P)
    BY <1>9, <1>10, CountedBy
  <2>2. K \in Nat
    BY <1>6, <1>7
  <2>3. Cardinality(0..(K - 1)) = K
    BY <2>2, FS_Interval
  <2>4. QED
    BY <2>1, <2>3
<1>12. ASSUME NEW i \in P, NEW j \in W, j <= i PROVE j \in P
  <2>1. i \in W /\ r[i] < k /\ r[i] \in Int /\ r[j] \in Int
    BY <1>5, <1>6, <1>8
  <2>2. i = j \/ r[j] < r[i]
    BY <1>4, <1>12, <2>1
  <2>3. QED
    BY <1>5, <2>1, <2>2
<1>13. QED
  BY <1>7, <1>9, <1>11, <1>12
-----------------------------------------------------------------------------
(* What the sort and the walk return *)

\* IsSelection of LinepSchedulerInv for any table and any candidates.
WorkersOf(C) == {WorkerOf[s] : s \in C}

IsBest(tbl, C, S, k) ==
  /\ S \subseteq C
  /\ \A a, b \in S : a # b => WorkerOf[a] # WorkerOf[b]
  /\ Cardinality(S) = IF Cardinality(WorkersOf(C)) < k THEN Cardinality(WorkersOf(C)) ELSE k
  /\ \A a \in S, b \in C :
       (WorkerOf[b] = WorkerOf[a] \/ \A d \in S : WorkerOf[d] # WorkerOf[b])
         => ~SortsBefore(tbl[b], tbl[a])

\* Each worker of the candidates is new at one place.
LEMMA NewWorkersCounted ==
  ASSUME NEW C, IsFiniteSet(C), NEW o \in SetToSeqs(C)
  PROVE  /\ NewWorkerAt(o) \subseteq 1..Cardinality(C)
         /\ IsFiniteSet(NewWorkerAt(o))
         /\ \A i, j \in NewWorkerAt(o) : WorkerOf[o[i]] = WorkerOf[o[j]] => i = j
         /\ Cardinality(NewWorkerAt(o)) = Cardinality(WorkersOf(C))
<1>1. /\ Cardinality(C) \in Nat /\ DOMAIN o = 1..Cardinality(C)
      /\ o \in Bijection(1..Cardinality(C), C)
  BY OrderLists
<1>2. NewWorkerAt(o) \subseteq 1..Cardinality(C)
  BY <1>1 DEF NewWorkerAt
<1>3. IsFiniteSet(NewWorkerAt(o))
  <2>1. IsFiniteSet(1..Cardinality(C))
    BY <1>1, FS_Interval
  <2>2. QED
    BY <1>2, <2>1, FS_Subset
<1>4. ASSUME NEW i \in NewWorkerAt(o), NEW j \in NewWorkerAt(o),
             WorkerOf[o[i]] = WorkerOf[o[j]]
      PROVE  i = j
  <2>1. i \in 1..Cardinality(C) /\ j \in 1..Cardinality(C)
    BY <1>2
  <2>2. i \notin 1..(j - 1) /\ j \notin 1..(i - 1)
    BY <1>4 DEF NewWorkerAt
  <2>3. QED
    BY <1>1, <2>1, <2>2
<1>5. [i \in NewWorkerAt(o) |-> WorkerOf[o[i]]] \in Bijection(NewWorkerAt(o), WorkersOf(C))
  <2>1. \A i \in NewWorkerAt(o) : WorkerOf[o[i]] \in WorkersOf(C)
    BY <1>1, <1>2 DEF WorkersOf, Bijection, Injection
  <2>2. ASSUME NEW w \in WorkersOf(C) PROVE \E j \in NewWorkerAt(o) : WorkerOf[o[j]] = w
    <3>1. PICK s \in C : w = WorkerOf[s]
      BY DEF WorkersOf
    <3>2. PICK i \in 1..Cardinality(C) : o[i] = s
      BY <1>1 DEF Bijection, Surjection
    <3>3. QED
      BY <1>1, <3>1, <3>2, FirstMet
  <2>3. QED
    BY <1>4, <2>1, <2>2 DEF Bijection, Injection, Surjection, IsInjective
<1>6. Cardinality(WorkersOf(C)) = Cardinality(NewWorkerAt(o))
  BY <1>3, <1>5, CountedBy
<1>7. QED
  BY <1>2, <1>3, <1>4, <1>6

LEMMA WalkIsBest ==
  ASSUME NEW tbl, NEW C, IsFiniteSet(C), \A s \in C : Numbered(tbl[s]), NEW k \in Nat,
         NEW o \in SortedOrders(tbl, C)
  PROVE  IsBest(tbl, C, FirstPicks(o, k), k)
<1>1. /\ o \in SetToSeqs(C)
      /\ \A i, j \in DOMAIN o : i < j => ~SortsBefore(tbl[o[j]], tbl[o[i]])
  BY DEF SortedOrders
<1>2. /\ Cardinality(C) \in Nat /\ DOMAIN o = 1..Cardinality(C)
      /\ o \in Bijection(1..Cardinality(C), C)
  BY <1>1, OrderLists
<1>3. PICK W : W = NewWorkerAt(o)
  OBVIOUS
<1>4. /\ W \subseteq 1..Cardinality(C) /\ IsFiniteSet(W)
      /\ \A i, j \in W : WorkerOf[o[i]] = WorkerOf[o[j]] => i = j
      /\ Cardinality(W) = Cardinality(WorkersOf(C))
  BY <1>1, <1>3, NewWorkersCounted
<1>5. PICK P : P = FirstOf(W, k)
  OBVIOUS
<1>6. /\ IsFiniteSet(P)
      /\ Cardinality(P) = IF Cardinality(W) < k THEN Cardinality(W) ELSE k
      /\ \A i \in P, j \in W : j <= i => j \in P
  <2>1. W \in SUBSET Nat
    BY <1>2, <1>4
  <2>2. QED
    BY <1>4, <1>5, <2>1, FirstOfNumbers
<1>7. PICK S : S = FirstPicks(o, k)
  OBVIOUS
<1>8. S = {o[i] : i \in P} /\ P \subseteq W
  BY <1>3, <1>5, <1>7 DEF FirstPicks, FirstOf
<1>9. \A i \in 1..Cardinality(C) : o[i] \in C
  BY <1>2 DEF Bijection, Injection
<1>10. S \subseteq C
  BY <1>4, <1>8, <1>9
<1>11. \A a, b \in S : a # b => WorkerOf[a] # WorkerOf[b]
  BY <1>4, <1>8
<1>12. Cardinality(S) = Cardinality(P)
  <2>1. [i \in P |-> o[i]] \in Bijection(P, S)
    <3>1. \A i, j \in P : o[i] = o[j] => i = j
      BY <1>4, <1>8
    <3>2. QED
      BY <1>8, <3>1 DEF Bijection, Injection, Surjection, IsInjective
  <2>2. QED
    BY <1>6, <2>1, CountedBy
<1>13. ASSUME NEW a \in S, NEW b \in C,
              WorkerOf[b] = WorkerOf[a] \/ \A d \in S : WorkerOf[d] # WorkerOf[b],
              SortsBefore(tbl[b], tbl[a])
       PROVE  FALSE
  <2>1. PICK i \in P : a = o[i]
    BY <1>8
  <2>2. PICK j \in 1..Cardinality(C) : b = o[j]
    BY <1>2 DEF Bijection, Surjection
  <2>3. i \in 1..Cardinality(C)
    BY <1>4, <1>8
  <2>4. i # j
    BY <1>10, <1>13, <2>1, <2>2, ComparatorIsOrder
  <2>5. ~(i < j)
    BY <1>1, <1>2, <1>13, <2>1, <2>2, <2>3
  <2>6. j < i
    BY <1>2, <2>2, <2>3, <2>4, <2>5
  <2>7. PICK m \in W : m <= j /\ WorkerOf[o[m]] = WorkerOf[b]
    BY <1>2, <1>3, <2>2, FirstMet
  <2>8. m < i /\ m # i
    BY <1>2, <1>4, <2>2, <2>3, <2>6, <2>7
  <2>9. m \in P /\ o[m] \in S
    BY <1>4, <1>6, <1>8, <2>3, <2>8
  <2>10. WorkerOf[b] = WorkerOf[a]
    BY <1>13, <2>7, <2>9
  <2>11. m = i
    BY <1>4, <1>8, <2>1, <2>7, <2>10
  <2>12. QED
    BY <2>8, <2>11
<1>14. QED
  BY <1>4, <1>6, <1>7, <1>10, <1>11, <1>12, <1>13 DEF IsBest
\* Whatever slots are to be preferred among equals, std::sort may leave the
\* candidates in an order that prefers them.
SortedPreferring(tbl, o, S) ==
  \A i, j \in DOMAIN o : i < j =>
    /\ ~SortsBefore(tbl[o[j]], tbl[o[i]])
    /\ ~SortsBefore(tbl[o[i]], tbl[o[j]]) /\ o[j] \in S => o[i] \in S

LEMMA OrderPreferring ==
  ASSUME NEW tbl, NEW C, IsFiniteSet(C), \A s \in C : Numbered(tbl[s]), NEW S
  PROVE  \E o \in SetToSeqs(C) : SortedPreferring(tbl, o, S)
<1>0. Cardinality(C) \in Nat
  BY FS_CardinalityType
<1>1. PICK e \in Bijection(C, 1..Cardinality(C)) : TRUE
  <2>1. IsFiniteSet(1..Cardinality(C)) /\ Cardinality(1..Cardinality(C)) = Cardinality(C)
    BY <1>0, FS_Interval
  <2>2. QED
    BY <2>1, FS_SameCardinalityBij DEF ExistsBijection
<1>2. /\ \A a \in C : e[a] \in Int
      /\ \A a, b \in C : e[a] = e[b] => a = b
  BY <1>0, <1>1 DEF Bijection, Injection, IsInjective
<1> DEFINE Sooner(a, b) == SortsBefore(tbl[a], tbl[b])
           Before(a, b) == \/ Sooner(a, b)
                           \/ ~Sooner(b, a) /\ a \in S /\ b \notin S
                           \/ ~Sooner(b, a) /\ (a \in S <=> b \in S) /\ e[a] < e[b]
<1>3. \A a, b, c \in C :
        /\ ~Sooner(a, a)
        /\ Sooner(a, b) => ~Sooner(b, a)
        /\ Sooner(a, b) /\ Sooner(b, c) => Sooner(a, c)
        /\ ~Sooner(a, b) /\ ~Sooner(b, c) => ~Sooner(a, c)
  BY ComparatorIsOrder
<1> HIDE DEF Sooner
<1>4. \A a \in C : ~Before(a, a)
  BY <1>2, <1>3
<1>5. ASSUME NEW a \in C, NEW b \in C, NEW c \in C, Before(a, b), Before(b, c)
      PROVE  Before(a, c)
  <2>1. e[a] \in Int /\ e[b] \in Int /\ e[c] \in Int
    BY <1>2
  <2>2. ~Sooner(b, a) /\ ~Sooner(c, b)
    BY <1>3, <1>5
  <2>3. ~Sooner(c, a)
    BY <1>3, <2>2
  <2>4. Sooner(a, b) \/ Sooner(b, c) => Sooner(a, c)
    BY <1>3, <2>2
  <2>5. QED
    BY <1>5, <2>1, <2>3, <2>4
<1>6. ASSUME NEW a \in C, NEW b \in C, a # b PROVE Before(a, b) \/ Before(b, a)
  <2>1. e[a] < e[b] \/ e[b] < e[a]
    BY <1>2, <1>6
  <2>2. QED
    BY <1>3, <2>1
<1> HIDE DEF Before
<1>7. PICK R : R = {q \in C \X C : Before(q[1], q[2])}
  OBVIOUS
<1>8. \A a, b \in C : <<a, b>> \in R <=> Before(a, b)
  BY <1>7
<1>9. PICK r : r = [a \in C |-> Cardinality({b \in C : <<b, a>> \in R})]
  OBVIOUS
<1>10. /\ r \in Bijection(C, 0..(Cardinality(C) - 1))
       /\ \A a, b \in C : Before(a, b) <=> r[a] < r[b]
  <2>1. /\ \A a \in C : <<a, a>> \notin R
        /\ \A a, b, c \in C : <<a, b>> \in R /\ <<b, c>> \in R => <<a, c>> \in R
        /\ \A a, b \in C : a # b => <<a, b>> \in R \/ <<b, a>> \in R
    BY <1>4, <1>5, <1>6, <1>8
  <2>2. /\ r \in Bijection(C, 0..(Cardinality(C) - 1))
        /\ \A a, b \in C : <<a, b>> \in R <=> r[a] < r[b]
    BY <1>9, <2>1, Ranks
  <2>3. QED
    BY <1>8, <2>2
<1>11. PICK o : o = [i \in 1..Cardinality(C) |-> CHOOSE a \in C : r[a] = i - 1]
  OBVIOUS
<1>12. \A i \in 1..Cardinality(C) : o[i] \in C /\ r[o[i]] = i - 1
  <2> SUFFICES ASSUME NEW i \in 1..Cardinality(C) PROVE o[i] \in C /\ r[o[i]] = i - 1
    OBVIOUS
  <2>1. i - 1 \in 0..(Cardinality(C) - 1)
    BY <1>0
  <2>2. \E a \in C : r[a] = i - 1
    BY <1>10, <2>1 DEF Bijection, Surjection
  <2>3. QED
    BY <1>11, <2>2
<1>13. o \in SetToSeqs(C) /\ DOMAIN o = 1..Cardinality(C)
  <2>1. o \in [1..Cardinality(C) -> C]
    BY <1>11, <1>12
  <2>2. \A i, j \in 1..Cardinality(C) : i # j => o[i] # o[j]
    BY <1>0, <1>12
  <2>3. QED
    BY <2>1, <2>2 DEF SetToSeqs
<1>14. ASSUME NEW i \in DOMAIN o, NEW j \in DOMAIN o, i < j
       PROVE  /\ ~Sooner(o[j], o[i])
              /\ ~Sooner(o[i], o[j]) /\ o[j] \in S => o[i] \in S
  <2>1. o[i] \in C /\ o[j] \in C /\ r[o[i]] < r[o[j]]
    BY <1>0, <1>12, <1>13, <1>14
  <2>2. Before(o[i], o[j])
    BY <1>10, <2>1
  <2>3. QED
    BY <1>3, <2>1, <2>2 DEF Before
<1>15. QED
  BY <1>13, <1>14 DEF Sooner, SortedPreferring

LEMMA BestIsWalked ==
  ASSUME NEW tbl, NEW C, IsFiniteSet(C), \A s \in C : Numbered(tbl[s]), NEW k \in Nat,
         NEW S, IsBest(tbl, C, S, k)
  PROVE  \E o \in SortedOrders(tbl, C) : FirstPicks(o, k) = S
<1>1. PICK o \in SetToSeqs(C) : SortedPreferring(tbl, o, S)
  BY OrderPreferring
<1>2. o \in SortedOrders(tbl, C)
  BY <1>1 DEF SortedOrders, SortedPreferring
<1>3. /\ Cardinality(C) \in Nat /\ DOMAIN o = 1..Cardinality(C)
      /\ o \in Bijection(1..Cardinality(C), C)
  BY OrderLists
<1>4. PICK W : W = NewWorkerAt(o)
  OBVIOUS
<1>5. /\ W \subseteq 1..Cardinality(C) /\ IsFiniteSet(W)
      /\ \A i, j \in W : WorkerOf[o[i]] = WorkerOf[o[j]] => i = j
  BY <1>4, NewWorkersCounted
<1>6. PICK P : P = FirstOf(W, k)
  OBVIOUS
<1>7. FirstPicks(o, k) = {o[i] : i \in P}
  BY <1>4, <1>6 DEF FirstPicks, FirstOf
<1>8. /\ S \subseteq C
      /\ \A a, b \in S : a # b => WorkerOf[a] # WorkerOf[b]
      /\ Cardinality(S) = IF Cardinality(WorkersOf(C)) < k THEN Cardinality(WorkersOf(C)) ELSE k
      /\ \A a \in S, b \in C :
           (WorkerOf[b] = WorkerOf[a] \/ \A d \in S : WorkerOf[d] # WorkerOf[b])
             => ~SortsBefore(tbl[b], tbl[a])
  BY DEF IsBest
<1>9. IsFiniteSet(S) /\ Cardinality(S) \in Nat
  BY <1>8, FS_Subset, FS_CardinalityType
\* A slot of S that has a slot of C before it which S could have taken instead
\* finds it in S.
<1>10. ASSUME NEW i \in 1..Cardinality(C), NEW j \in 1..Cardinality(C), j < i, o[i] \in S,
              WorkerOf[o[j]] = WorkerOf[o[i]] \/ \A d \in S : WorkerOf[d] # WorkerOf[o[j]]
       PROVE  o[j] \in S
  <2>1. o[j] \in C
    BY <1>3 DEF Bijection, Injection
  <2>2. ~SortsBefore(tbl[o[j]], tbl[o[i]])
    BY <1>8, <1>10, <2>1
  <2>3. QED
    BY <1>1, <1>3, <1>10, <2>2 DEF SortedPreferring
<1>11. ASSUME NEW i \in 1..Cardinality(C), o[i] \in S PROVE i \in P
  <2>1. ASSUME NEW j \in 1..(i - 1) PROVE WorkerOf[o[j]] # WorkerOf[o[i]]
    <3>1. j \in 1..Cardinality(C) /\ j < i
      BY <1>3
    <3>2. o[j] # o[i]
      BY <1>3, <3>1 DEF Bijection, Injection, IsInjective
    <3>3. ASSUME WorkerOf[o[j]] = WorkerOf[o[i]] PROVE FALSE
      <4>1. o[j] \in S
        BY <1>10, <1>11, <3>1, <3>3
      <4>2. QED
        BY <1>8, <1>11, <3>2, <3>3, <4>1
    <3>4. QED
      BY <3>3
  <2>2. i \in W
    BY <1>3, <1>4, <2>1 DEF NewWorkerAt
  <2>3. PICK B : B = {m \in W : m < i}
    OBVIOUS
  <2>4. IsFiniteSet(B) /\ B \subseteq W
    BY <1>5, <2>3, FS_Subset
  <2>5. PICK V : V = WorkersOf(S) \ {WorkerOf[o[i]]}
    OBVIOUS
  <2>6. IsFiniteSet(V) /\ Cardinality(V) < Cardinality(S) /\ Cardinality(V) \in Nat
    <3>1. [s \in S |-> WorkerOf[s]] \in Bijection(S, WorkersOf(S))
      BY <1>8 DEF Bijection, Injection, Surjection, IsInjective, WorkersOf
    <3>2. IsFiniteSet(WorkersOf(S)) /\ Cardinality(WorkersOf(S)) = Cardinality(S)
      BY <1>9, <3>1, CountedBy
    <3>3. WorkerOf[o[i]] \in WorkersOf(S)
      BY <1>11 DEF WorkersOf
    <3>4. QED
      BY <2>5, <3>2, <3>3, FS_Subset, Smaller
  <2>7. \A m \in B : WorkerOf[o[m]] \in V
    <3> SUFFICES ASSUME NEW m \in B PROVE WorkerOf[o[m]] \in V
      OBVIOUS
    <3>1. m \in W /\ m < i /\ m # i /\ m \in 1..Cardinality(C)
      BY <1>3, <1>5, <2>3
    <3>2. WorkerOf[o[m]] # WorkerOf[o[i]]
      BY <1>5, <2>2, <3>1
    <3>3. ASSUME \A d \in S : WorkerOf[d] # WorkerOf[o[m]] PROVE FALSE
      <4>1. o[m] \in S
        BY <1>10, <1>11, <3>1, <3>3
      <4>2. QED
        BY <3>3, <4>1
    <3>4. QED
      BY <2>5, <3>2, <3>3 DEF WorkersOf
  <2>8. Cardinality(B) <= Cardinality(V)
    <3>1. [m \in B |-> WorkerOf[o[m]]] \in Injection(B, V)
      BY <1>5, <2>4, <2>7 DEF Injection, IsInjective
    <3>2. QED
      BY <2>6, <3>1, FS_Injection
  <2>9. Cardinality(S) <= k
    <3>1. IsFiniteSet(WorkersOf(C)) /\ Cardinality(WorkersOf(C)) \in Nat
      <4>1. [s \in C |-> WorkerOf[s]] \in Surjection(C, WorkersOf(C))
        BY DEF Surjection, WorkersOf
      <4>2. IsFiniteSet(WorkersOf(C))
        BY <4>1, FS_Surjection
      <4>3. QED
        BY <4>2, FS_CardinalityType
    <3>2. QED
      BY <1>8, <3>1
  <2>10. Cardinality(B) \in Nat
    BY <2>4, FS_CardinalityType
  <2>11. Cardinality(B) < k
    BY <1>9, <2>6, <2>8, <2>9, <2>10
  <2>12. QED
    BY <1>6, <2>2, <2>3, <2>11 DEF FirstOf
<1>12. S \subseteq FirstPicks(o, k)
  <2> SUFFICES ASSUME NEW a \in S PROVE a \in FirstPicks(o, k)
    OBVIOUS
  <2>1. PICK i \in 1..Cardinality(C) : a = o[i]
    BY <1>3, <1>8 DEF Bijection, Surjection
  <2>2. QED
    BY <1>7, <1>11, <2>1
<1>13. IsBest(tbl, C, FirstPicks(o, k), k)
  BY <1>2, WalkIsBest
<1>14. FirstPicks(o, k) \subseteq C /\ Cardinality(FirstPicks(o, k)) = Cardinality(S)
  BY <1>8, <1>13 DEF IsBest
<1>15. IsFiniteSet(FirstPicks(o, k))
  BY <1>14, FS_Subset
<1>16. FirstPicks(o, k) = S
  BY <1>12, <1>14, <1>15, FS_Subset
<1>17. QED
  BY <1>2, <1>16

-----------------------------------------------------------------------------
(* The theorems *)

\* Whatever the table, select_best_slots may return exactly the sets that are
\* best among the candidates, one slot per worker.
THEOREM SelectsTheBest ==
  ASSUME NEW tbl, \A s \in Slot : Numbered(tbl[s]), NEW type, NEW n, NEW k \in Nat
  PROVE  SelectBestSlots(tbl, type, n, k)
           = {S \in SUBSET Slot : IsBest(tbl, Candidates(tbl, type, n), S, k)}
<1>1. PICK C : C = Candidates(tbl, type, n)
  OBVIOUS
<1>2. C \subseteq Slot /\ IsFiniteSet(C) /\ \A s \in C : Numbered(tbl[s])
  BY <1>1, SlotAssumption, FS_Subset DEF Candidates
<1>3. SelectBestSlots(tbl, type, n, k) = {FirstPicks(o, k) : o \in SortedOrders(tbl, C)}
  BY <1>1 DEF SelectBestSlots
<1>4. ASSUME NEW o \in SortedOrders(tbl, C)
      PROVE  IsBest(tbl, C, FirstPicks(o, k), k) /\ FirstPicks(o, k) \in SUBSET Slot
  <2>1. IsBest(tbl, C, FirstPicks(o, k), k)
    BY <1>2, WalkIsBest
  <2>2. QED
    BY <1>2, <2>1 DEF IsBest
<1>5. ASSUME NEW S, IsBest(tbl, C, S, k)
      PROVE  \E o \in SortedOrders(tbl, C) : FirstPicks(o, k) = S
  BY <1>2, <1>5, BestIsWalked
<1>6. QED
  BY <1>1, <1>3, <1>4, <1>5

\* Sorting the candidates and walking along them, whatever order std::sort
\* leaves equals in, returns exactly the selections that may be made, for any
\* number of slots and workers, on every table the scheduler comes to hold.
THEOREM SelectionExact == Spec => []SelectionIsExact
<1>1. TypeOK => SelectionIsExact
  <2> SUFFICES ASSUME TypeOK, NEW type \in TaskType, NEW k \in 1..Fanout
               PROVE  SelectBestSlots(slots, type, now, k)
                        = {S \in SUBSET Slot : IsSelection(S, type, k)}
    BY DEF SelectionIsExact
  <2>1. k \in Nat
    BY DEF Fanout
  <2>2. now \in Nat /\ \A s \in Slot : Numbered(slots[s])
    <3>1. now \in Nat /\ \A s \in Slot : slots[s] \in SlotState
      BY DEF TypeOK
    <3>2. \A x \in 0..255 : x \in Nat
      OBVIOUS
    <3>3. \A x \in SlotState : /\ x.load \in 0..255 /\ x.queue \in 0..255
                                /\ x.timeouts \in Nat /\ x.lastUsed \in Nat
                                /\ x.lastHeartbeat \in Nat /\ x.cooldownUntil \in Nat
      BY DEF SlotState
    <3> QED BY <3>1, <3>2, <3>3 DEF Numbered
  <2>3. \A s \in Slot : Fit(slots[s]) <=> IsEligible(slots[s], now)
    <3> SUFFICES ASSUME NEW s \in Slot PROVE Fit(slots[s]) <=> IsEligible(slots[s], now)
      OBVIOUS
    <3>1. slots[s].load \in 0..89 <=> slots[s].load < MAX_LOAD
      BY <2>2 DEF Numbered, MAX_LOAD
    <3>2. slots[s].queue \in 0..7 <=> slots[s].queue < MAX_QUEUE
      BY <2>2 DEF Numbered, MAX_QUEUE
    <3>3. now - slots[s].lastHeartbeat <= HeartbeatTimeout
            <=> ~(now > slots[s].lastHeartbeat + HeartbeatTimeout)
      BY <2>2, SlotAssumption DEF Numbered
    <3>4. ~(now < slots[s].cooldownUntil) <=> now >= slots[s].cooldownUntil
      BY <2>2 DEF Numbered
    <3>5. QED
      BY <3>1, <3>2, <3>3, <3>4 DEF Fit, IsEligible, IsStale
  <2>4. Usable(type) = Candidates(slots, type, now)
    BY <2>3 DEF Usable, Candidates
  <2>5. \A S : IsSelection(S, type, k) <=> IsBest(slots, Usable(type), S, k)
    BY DEF IsSelection, IsBest, WorkersOf
  <2>6. QED
    BY <2>1, <2>2, <2>4, <2>5, SelectsTheBest
<1>2. QED
  BY <1>1, TypeCorrect, PTL
=============================================================================
