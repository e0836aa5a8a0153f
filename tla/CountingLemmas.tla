--------------------------- MODULE CountingLemmas ---------------------------
(***************************************************************************)
(* Facts the proofs about pools and queues keep needing: what a queue of   *)
(* distinct elements holds after one is added or removed, and how many     *)
(* threads are at a place after one of them has moved.                     *)
(***************************************************************************)
EXTENDS Integers, Sequences, FiniteSets, FiniteSetTheorems, SequenceTheorems,
        WellFoundedInduction, TLAPS

Elements(s) == {s[n] : n \in DOMAIN s}

Distinct(s) == \A m, n \in DOMAIN s : s[m] = s[n] => m = n

\* The threads of T whose place is in L.
ThreadsAt(T, place, L) == {t \in T : place[t] \in L}

-----------------------------------------------------------------------------
\* A queue of distinct elements is as long as the set of them is large.
LEMMA DistinctCount ==
    ASSUME NEW S, NEW s \in Seq(S), Distinct(s)
    PROVE  /\ IsFiniteSet(Elements(s))
           /\ Cardinality(Elements(s)) = Len(s)
<1>1. s \in [1..Len(s) -> S] /\ Len(s) \in Nat
    OBVIOUS
<1>2. s \in Bijection(1..Len(s), Elements(s))
    BY <1>1 DEF Distinct, Elements, Bijection, Injection, Surjection, IsInjective
<1>3. ExistsBijection(1..Len(s), Elements(s))
    BY <1>2 DEF ExistsBijection
<1>4. IsFiniteSet(1..Len(s)) /\ Cardinality(1..Len(s)) = Len(s)
    <2>1. 1 \in Int /\ Len(s) \in Int
        BY <1>1
    <2>2. /\ IsFiniteSet(1..Len(s))
          /\ Cardinality(1..Len(s)) = IF 1 > Len(s) THEN 0 ELSE Len(s) - 1 + 1
        BY <2>1, FS_Interval, Zenon
    <2> QED
        BY <1>1, <2>2
<1> QED
    BY <1>3, <1>4, FS_Bijection

\* Removing the head of a queue removes that element and keeps the rest.
LEMMA TailElements ==
    ASSUME NEW S, NEW s \in Seq(S), s # <<>>
    PROVE  /\ Head(s) \in Elements(s)
           /\ Elements(Tail(s)) \subseteq Elements(s)
           /\ Elements(s) = Elements(Tail(s)) \cup {Head(s)}
           /\ Distinct(s) => Distinct(Tail(s)) /\ Head(s) \notin Elements(Tail(s))
<1> DEFINE t == Tail(s)
<1>1. /\ Len(s) \in Nat \ {0} /\ DOMAIN s = 1..Len(s) /\ Head(s) = s[1]
      /\ t \in Seq(S) /\ Len(t) = Len(s) - 1 /\ DOMAIN t = 1..Len(t)
      /\ \A i \in 1..Len(t) : t[i] = s[i + 1]
    OBVIOUS
<1> HIDE DEF t
<1>2. \A n \in DOMAIN s : n = 1 \/ (n - 1 \in DOMAIN t /\ t[n - 1] = s[n])
    BY <1>1
<1>3. \A i \in DOMAIN t : i + 1 \in DOMAIN s /\ t[i] = s[i + 1] /\ i + 1 # 1
    BY <1>1
<1>4. Elements(t) \subseteq Elements(s)
    BY <1>3 DEF Elements
<1>5. Elements(s) = Elements(t) \cup {Head(s)}
    <2>1. ASSUME NEW e \in Elements(s)
          PROVE  e \in Elements(t) \cup {Head(s)}
        <3>1. PICK n \in DOMAIN s : e = s[n]
            BY DEF Elements
        <3> QED
            BY <3>1, <1>1, <1>2 DEF Elements
    <2>2. Head(s) \in Elements(s)
        BY <1>1 DEF Elements
    <2> QED
        BY <2>1, <2>2, <1>4
<1>6. ASSUME Distinct(s)
      PROVE  Distinct(t) /\ Head(s) \notin Elements(t)
    <2>1. Distinct(t)
        <3> SUFFICES ASSUME NEW m \in DOMAIN t, NEW n \in DOMAIN t, t[m] = t[n]
                     PROVE  m = n
            BY DEF Distinct
        <3>1. m + 1 = n + 1
            BY <1>3, <1>6 DEF Distinct
        <3> QED
            BY <3>1, <1>1
    <2>2. Head(s) \notin Elements(t)
        BY <1>1, <1>3, <1>6 DEF Distinct, Elements
    <2> QED
        BY <2>1, <2>2
<1> QED
    BY <1>1, <1>4, <1>5, <1>6 DEF t, Elements

\* Appending to a queue adds that element.
LEMMA AppendElements ==
    ASSUME NEW S, NEW s \in Seq(S), NEW e \in S
    PROVE  /\ Elements(Append(s, e)) = Elements(s) \cup {e}
           /\ Distinct(s) /\ e \notin Elements(s) => Distinct(Append(s, e))
<1> DEFINE t == Append(s, e)
<1>1. /\ Len(s) \in Nat /\ DOMAIN s = 1..Len(s)
      /\ DOMAIN t = 1..(Len(s) + 1)
      /\ t[Len(s) + 1] = e
      /\ \A i \in 1..Len(s) : t[i] = s[i]
    OBVIOUS
<1> HIDE DEF t
<1>2. Elements(t) = Elements(s) \cup {e}
    BY <1>1 DEF Elements
<1>3. Distinct(s) /\ e \notin Elements(s) => Distinct(t)
    BY <1>1 DEF Distinct, Elements
<1> QED
    BY <1>2, <1>3 DEF t

\* So does putting it in front, as a deque used as a stack does.
LEMMA PrependElements ==
    ASSUME NEW S, NEW s \in Seq(S), NEW e \in S
    PROVE  /\ <<e>> \o s \in Seq(S)
           /\ Len(<<e>> \o s) = Len(s) + 1
           /\ Elements(<<e>> \o s) = Elements(s) \cup {e}
           /\ Distinct(s) /\ e \notin Elements(s) => Distinct(<<e>> \o s)
<1> DEFINE t == <<e>> \o s
<1>1. /\ Len(s) \in Nat /\ DOMAIN s = 1..Len(s)
      /\ t \in Seq(S) /\ Len(t) = Len(s) + 1 /\ DOMAIN t = 1..(Len(s) + 1)
      /\ t[1] = e
      /\ \A i \in 2..(Len(s) + 1) : t[i] = s[i - 1]
    OBVIOUS
<1> HIDE DEF t
<1>2. \A i \in DOMAIN s : i + 1 \in DOMAIN t /\ t[i + 1] = s[i]
    BY <1>1
<1>3. \A i \in DOMAIN t : i = 1 \/ (i - 1 \in DOMAIN s /\ t[i] = s[i - 1])
    BY <1>1
<1>4. Elements(t) = Elements(s) \cup {e}
    BY <1>1, <1>2, <1>3 DEF Elements
<1>5. ASSUME Distinct(s), e \notin Elements(s), NEW m \in DOMAIN t, NEW n \in DOMAIN t, t[m] = t[n]
      PROVE  m = n
    <2>1. CASE m = 1
        BY <2>1, <1>1, <1>3, <1>5 DEF Elements
    <2>2. CASE m # 1 /\ n # 1
        <3>1. m - 1 = n - 1
            BY <2>2, <1>3, <1>5 DEF Distinct
        <3> QED
            BY <3>1, <1>1
    <2>3. CASE n = 1
        BY <2>3, <1>1, <1>3, <1>5 DEF Elements
    <2> QED
        BY <2>1, <2>2, <2>3
<1> QED
    BY <1>1, <1>4, <1>5 DEF t, Distinct

\* Removing the last element, as a list used as a stack does.
LEMMA FrontElements ==
    ASSUME NEW S, NEW s \in Seq(S), s # <<>>
    PROVE  LET t == SubSeq(s, 1, Len(s) - 1) IN
           /\ t \in Seq(S)
           /\ Len(t) = Len(s) - 1
           /\ s[Len(s)] \in Elements(s) \cap S
           /\ Elements(s) = Elements(t) \cup {s[Len(s)]}
           /\ Distinct(s) => Distinct(t) /\ s[Len(s)] \notin Elements(t)
<1> DEFINE t == SubSeq(s, 1, Len(s) - 1)
<1>1. /\ Len(s) \in Nat \ {0} /\ DOMAIN s = 1..Len(s)
      /\ t \in Seq(S) /\ Len(t) = Len(s) - 1 /\ DOMAIN t = 1..(Len(s) - 1)
      /\ \A i \in 1..(Len(s) - 1) : t[i] = s[i]
    <2>1. Len(s) \in Nat \ {0} /\ DOMAIN s = 1..Len(s) /\ \A i \in 1..Len(s) : s[i] \in S
        OBVIOUS
    <2> DEFINE k == Len(s) - 1
    <2>2. k \in Nat /\ k = Len(s) - 1
        BY <2>1
    <2>3. \A i \in 1..k : s[i] \in S
        BY <2>1
    <2>4. t = SubSeq(s, 1, k)
        OBVIOUS
    <2> HIDE DEF k, t
    <2>5. /\ t \in Seq(S)
          /\ Len(t) = IF 1 <= k THEN k - 1 + 1 ELSE 0
          /\ \A i \in 1..(k - 1 + 1) : t[i] = s[1 + i - 1]
        BY <2>2, <2>3, <2>4, SubSeqProperties
    <2>6. Len(t) = k /\ DOMAIN t = 1..k
        BY <2>2, <2>5
    <2>7. \A i \in 1..k : t[i] = s[i]
        BY <2>2, <2>5
    <2> QED
        BY <2>1, <2>2, <2>5, <2>6, <2>7
<1> HIDE DEF t
<1>2. s[Len(s)] \in Elements(s) \cap S
    BY <1>1 DEF Elements
<1>3. Elements(s) = Elements(t) \cup {s[Len(s)]}
    BY <1>1 DEF Elements
<1>4. Distinct(s) => Distinct(t) /\ s[Len(s)] \notin Elements(t)
    BY <1>1 DEF Elements, Distinct
<1> QED
    BY <1>1, <1>2, <1>3, <1>4 DEF t

-----------------------------------------------------------------------------
\* Threads at a place: finitely many, and a number.
LEMMA AtFinite ==
    ASSUME NEW T, IsFiniteSet(T), NEW place, NEW L
    PROVE  /\ IsFiniteSet(ThreadsAt(T, place, L))
           /\ Cardinality(ThreadsAt(T, place, L)) \in Nat
           /\ Cardinality(ThreadsAt(T, place, L)) <= Cardinality(T)
           /\ Cardinality(ThreadsAt(T, place, L)) = 0 <=> ThreadsAt(T, place, L) = {}
<1>1. ThreadsAt(T, place, L) \in SUBSET T
    BY DEF ThreadsAt
<1> QED
    BY <1>1, FS_Subset, FS_CardinalityType, FS_EmptySet

\* One thread enters L, leaves it, or does neither.
LEMMA AtMoves ==
    ASSUME NEW T, IsFiniteSet(T), NEW place, NEW after, NEW L, NEW t \in T,
           \A u \in T \ {t} : after[u] = place[u]
    PROVE  Cardinality(ThreadsAt(T, after, L)) =
             IF place[t] \in L <=> after[t] \in L THEN Cardinality(ThreadsAt(T, place, L))
             ELSE IF after[t] \in L THEN Cardinality(ThreadsAt(T, place, L)) + 1
             ELSE Cardinality(ThreadsAt(T, place, L)) - 1
<1>1. CASE place[t] \in L <=> after[t] \in L
    <2>1. ThreadsAt(T, after, L) = ThreadsAt(T, place, L)
        BY <1>1 DEF ThreadsAt
    <2> QED
        BY <1>1, <2>1
<1>2. CASE place[t] \notin L /\ after[t] \in L
    <2>1. ThreadsAt(T, after, L) = ThreadsAt(T, place, L) \cup {t} /\ t \notin ThreadsAt(T, place, L)
        BY <1>2 DEF ThreadsAt
    <2> QED
        BY <1>2, <2>1, AtFinite, FS_AddElement
<1>3. CASE place[t] \in L /\ after[t] \notin L
    <2>1. ThreadsAt(T, after, L) = ThreadsAt(T, place, L) \ {t} /\ t \in ThreadsAt(T, place, L)
        BY <1>3 DEF ThreadsAt
    <2> QED
        BY <1>3, <2>1, AtFinite, FS_RemoveElement
<1> QED
    BY <1>1, <1>2, <1>3
-----------------------------------------------------------------------------
(* Recursive functions on 0..N, each value made from the one before.       *)

\* Every set of natural numbers has a least element: the form of induction
\* that the proofs below use.
LEMMA LeastNat ==
    ASSUME NEW T, T \subseteq Nat, T # {}
    PROVE  \E n \in T : \A m \in T : n <= m
<1>1. PICK x \in T : \A y \in T : ~(<<y, x>> \in OpToRel(<, Nat))
    BY NatLessThanWellFounded, WFMin, Zenon
<1>2. \A y \in T : ~(y < x)
    BY <1>1 DEF OpToRel
<1> QED
    BY <1>2

Steps(N, T) == [1..N -> [T -> T]]

Follows(f, N, first, step) == f[0] = first /\ \A n \in 1..N : f[n] = step[n][f[n - 1]]

\* A recursive definition has a solution.
LEMMA Recursion ==
    ASSUME NEW N \in Nat, NEW T, NEW first \in T, NEW step \in Steps(N, T)
    PROVE  \E f \in [0..N -> T] : Follows(f, N, first, step)
<1> USE DEF Steps, Follows
<1> DEFINE Upto(k) == \E f \in [0..k -> T] : f[0] = first /\ \A n \in 1..k : f[n] = step[n][f[n - 1]]
           Bad == {k \in 0..N : ~Upto(k)}
<1>1. Upto(0)
    <2> DEFINE g == [n \in 0..0 |-> first]
    <2>1. g \in [0..0 -> T] /\ g[0] = first
        OBVIOUS
    <2>2. \A n \in 1..0 : g[n] = step[n][g[n - 1]]
        OBVIOUS
    <2> QED
        BY <2>1, <2>2
<1>2. ASSUME NEW k \in 0..N, k + 1 <= N, Upto(k)
      PROVE  Upto(k + 1)
    <2>1. PICK f \in [0..k -> T] : f[0] = first /\ \A n \in 1..k : f[n] = step[n][f[n - 1]]
        BY <1>2
    <2> DEFINE g == [n \in 0..(k + 1) |-> IF n = k + 1 THEN step[n][f[k]] ELSE f[n]]
    <2>2. step[k + 1][f[k]] \in T
        <3>1. step[k + 1] \in [T -> T] /\ f[k] \in T
            BY <1>2
        <3> QED
            BY <3>1
    <2>3. g \in [0..(k + 1) -> T]
        BY <2>2
    <2>4. g[0] = first
        BY <2>1
    <2>5. ASSUME NEW n \in 1..(k + 1)
          PROVE  g[n] = step[n][g[n - 1]]
        BY <2>1
    <2> QED
        BY <2>3, <2>4, <2>5
<1> HIDE DEF Upto
<1>3. Bad = {}
    <2> SUFFICES ASSUME Bad # {}
                 PROVE  FALSE
        OBVIOUS
    <2>1. Bad \subseteq Nat
        OBVIOUS
    <2> HIDE DEF Bad
    <2>2. PICK k \in Bad : \A m \in Bad : k <= m
        BY <2>1, LeastNat
    <2>3. k # 0
        BY <1>1 DEF Bad
    <2>4. k - 1 \in 0..N /\ k - 1 \notin Bad
        BY <2>2, <2>3 DEF Bad
    <2> QED
        BY <2>4, <1>2 DEF Bad
<1>4. Upto(N)
    BY <1>3
<1> QED
    BY <1>4 DEF Upto

\* What holds of the first value, and of each value once it holds of the one
\* before, holds of all of them.  T[n] is the set of values it holds of.
LEMMA RecursionKeeps ==
    ASSUME NEW N \in Nat, NEW T, NEW f, f[0] \in T[0],
           \A n \in 1..N : f[n - 1] \in T[n - 1] => f[n] \in T[n]
    PROVE  \A n \in 0..N : f[n] \in T[n]
<1> DEFINE Bad == {n \in 0..N : f[n] \notin T[n]}
<1> SUFFICES ASSUME Bad # {}
             PROVE  FALSE
    OBVIOUS
<1>1. Bad \subseteq Nat
    OBVIOUS
<1> HIDE DEF Bad
<1>2. PICK k \in Bad : \A m \in Bad : k <= m
    BY <1>1, LeastNat
<1>3. k \in 1..N /\ k - 1 \in 0..N /\ k - 1 \notin Bad
    BY <1>1, <1>2 DEF Bad
<1> QED
    BY <1>3 DEF Bad
=============================================================================
