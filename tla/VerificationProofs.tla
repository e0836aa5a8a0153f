------------------------ MODULE VerificationProofs ------------------------
(***************************************************************************)
(* What a verdict on a receipt, then on a JWS, means: for every set of     *)
(* certificates, every pinned roots, every input and every answer of the   *)
(* host's clock.                                                           *)
(*                                                                         *)
(* The properties are about the end of a call.  The invariant of receipts  *)
(* says what is known on the way: that the instant and the walk are those  *)
(* of the whole call once they are fixed, which SignerInfos and            *)
(* certificates have failed so far, and what a verdict or a status was     *)
(* given for.                                                              *)
(***************************************************************************)
EXTENDS ReceiptVerify, JwsVerify, CountingLemmas

-----------------------------------------------------------------------------
(* Paths: what the top-down walk and the path builder guarantee, for every *)
(* bag and every instant.  The operators of CertPath are recursive         *)
(* functions.  For each of them there is a lemma that its recursion has a  *)
(* solution (Recursion) and one that carries a fact from each round to the *)
(* next (RecursionKeeps).                                                  *)

\* Both modules have a name for the elements of a sequence.
LEMMA SameElements == \A s : ElementsOf(s) = Elements(s)
BY DEF ElementsOf, Elements

LEMMA ElementsIn ==
    ASSUME NEW S, NEW s \in Seq(S)
    PROVE  /\ ElementsOf(s) \subseteq S
           /\ Len(s) \in Nat /\ DOMAIN s = 1..Len(s)
           /\ s \in Seq(ElementsOf(s))
           /\ \A n \in 1..Len(s) : s[n] \in ElementsOf(s)
<1>1. Len(s) \in Nat /\ DOMAIN s = 1..Len(s) /\ \A n \in 1..Len(s) : s[n] \in S
    OBVIOUS
<1>2. \A n \in 1..Len(s) : s[n] \in ElementsOf(s)
    BY <1>1 DEF ElementsOf
<1>3. ElementsOf(s) \subseteq S
    BY <1>1 DEF ElementsOf
<1>4. s \in Seq(ElementsOf(s))
    <2> DEFINE E == ElementsOf(s)
    <2>1. s = [n \in 1..Len(s) |-> s[n]]
        BY <1>1
    <2>2. [n \in 1..Len(s) |-> s[n]] \in Seq(E)
        <3> HIDE DEF E
        <3> QED
            BY <1>1, <1>2, IsASeq DEF E
    <2> QED
        BY <2>1, <2>2
<1> QED
    BY <1>1, <1>2, <1>3, <1>4

-----------------------------------------------------------------------------
(* Only *)

Kept(s, S, n) == IF s[n] \in S THEN <<s[n]>> ELSE <<>>

LEMMA OnlyUnfolds ==
    ASSUME NEW C, NEW s \in Seq(C), NEW S
    PROVE  \E kept : /\ Only(s, S) = kept[Len(s)]
                     /\ kept[0] = <<>>
                     /\ \A n \in 1..Len(s) : kept[n] = kept[n - 1] \o Kept(s, S, n)
<1> DEFINE T == Seq(C)
           N == Len(s)
           Rec(k) == k = [n \in 0..N |-> IF n = 0 THEN <<>> ELSE k[n - 1] \o Kept(s, S, n)]
           step == [n \in 1..N |-> [t \in T |-> t \o Kept(s, S, n)]]
           kept == CHOOSE k : Rec(k)
           empty == <<>>
<1>1. Only(s, S) = kept[N]
    BY DEF Only, Kept
<1>2. N \in Nat /\ empty \in T /\ step \in Steps(N, T)
    <2>1. ASSUME NEW n \in 1..N
          PROVE  Kept(s, S, n) \in T
        BY DEF Kept
    <2> QED
        BY <2>1 DEF Steps
<1>3. PICK f \in [0..N -> T] : Follows(f, N, empty, step)
    <2> HIDE DEF N, T, step, empty
    <2> QED
        BY <1>2, Recursion
<1> HIDE DEF T
<1>4. Rec(f)
    <2>1. ASSUME NEW n \in 1..N
          PROVE  f[n] = f[n - 1] \o Kept(s, S, n)
        <3>1. n - 1 \in 0..N
            BY <1>2
        <3>2. f[n - 1] \in T
            BY <3>1, <1>3, Zenon
        <3>3. f[n] = step[n][f[n - 1]]
            BY <1>3 DEF Follows
        <3> QED
            BY <3>2, <3>3, Zenon
    <2>2. \A n \in 0..N : n # 0 => n \in 1..N
        BY <1>2
    <2>3. f[0] = <<>>
        BY <1>3 DEF Follows
    <2>4. \A n \in 0..N : f[n] = IF n = 0 THEN <<>> ELSE f[n - 1] \o Kept(s, S, n)
        BY <2>1, <2>2, <2>3, Zenon
    <2>5. f = [n \in 0..N |-> f[n]]
        BY <1>3, Zenon
    <2>6. [n \in 0..N |-> f[n]] = [n \in 0..N |-> IF n = 0 THEN <<>> ELSE f[n - 1] \o Kept(s, S, n)]
        BY <2>4, Zenon
    <2> QED
        BY <2>5, <2>6, Zenon
<1>5. Rec(kept)
    BY <1>4
<1> HIDE DEF kept
<1>6. kept[0] = <<>> /\ \A n \in 1..N : kept[n] = kept[n - 1] \o Kept(s, S, n)
    <2>1. \A n \in 0..N : kept[n] = IF n = 0 THEN <<>> ELSE kept[n - 1] \o Kept(s, S, n)
        BY <1>5, Zenon
    <2>2. 0 \in 0..N /\ \A n \in 1..N : n \in 0..N /\ n # 0
        BY <1>2
    <2> QED
        BY <2>1, <2>2, Zenon
<1> QED
    BY <1>1, <1>6, Zenon

\* Only(s, S) holds the elements of s that are in S, all of them and no other.
LEMMA OnlyIsExact ==
    ASSUME NEW C, NEW s \in Seq(C), NEW S
    PROVE  /\ Only(s, S) \in Seq(ElementsOf(s) \cap S)
           /\ ElementsOf(Only(s, S)) = ElementsOf(s) \cap S
<1> DEFINE E == ElementsOf(s) \cap S
           N == Len(s)
           Has(n) == {k \in Seq(E) : \A i \in 1..n : s[i] \in S => s[i] \in ElementsOf(k)}
           T == [n \in 0..N |-> Has(n)]
<1>1. PICK kept : /\ Only(s, S) = kept[N]
                  /\ kept[0] = <<>>
                  /\ \A n \in 1..N : kept[n] = kept[n - 1] \o Kept(s, S, n)
    BY OnlyUnfolds
<1>2. N \in Nat /\ \A n \in 1..N : s[n] \in ElementsOf(s)
    BY ElementsIn
<1>3. kept[0] \in Has(0)
    BY <1>1
<1>4. ASSUME NEW n \in 1..N, kept[n - 1] \in Has(n - 1)
      PROVE  kept[n] \in Has(n)
    <2> DEFINE k == kept[n - 1]
    <2>1. k \in Seq(E) /\ \A i \in 1..(n - 1) : s[i] \in S => s[i] \in ElementsOf(k)
        BY <1>4, Zenon
    <2>2. kept[n] = k \o Kept(s, S, n)
        BY <1>1, Zenon
    <2>3. s[n] \in S => s[n] \in E
        BY <1>2
    <2> HIDE DEF E, k
    <2>4. CASE s[n] \in S
        <3>1. kept[n] = Append(k, s[n])
            BY <2>1, <2>2, <2>3, <2>4 DEF Kept
        <3>2. kept[n] \in Seq(E)
            BY <2>1, <2>3, <2>4, <3>1
        <3>3. Elements(kept[n]) = Elements(k) \cup {s[n]}
            BY <2>1, <2>3, <2>4, <3>1, AppendElements
        <3>4. \A i \in 1..n : s[i] \in S => s[i] \in Elements(kept[n])
            BY <2>1, <3>3, SameElements
        <3> QED
            BY <3>2, <3>4, SameElements
    <2>5. CASE s[n] \notin S
        <3>1. kept[n] = k
            BY <2>1, <2>2, <2>5 DEF Kept
        <3>2. \A i \in 1..n : s[i] \in S => i \in 1..(n - 1)
            BY <2>5
        <3> QED
            BY <2>1, <3>1, <3>2
    <2> QED
        BY <2>4, <2>5
<1>5. kept[N] \in Has(N)
    <2>1. kept[0] \in T[0] /\ \A n \in 1..N : kept[n - 1] \in T[n - 1] => kept[n] \in T[n]
        <3>1. \A n \in 0..N : T[n] = Has(n)
            OBVIOUS
        <3>2. 0 \in 0..N /\ \A n \in 1..N : n \in 0..N /\ n - 1 \in 0..N
            BY <1>2
        <3> HIDE DEF T, Has
        <3> QED
            BY <1>3, <1>4, <3>1, <3>2
    <2> HIDE DEF T, N
    <2>2. \A n \in 0..N : kept[n] \in T[n]
        BY <1>2, <2>1, RecursionKeeps
    <2>3. kept[N] \in T[N]
        BY <1>2, <2>2
    <2> QED
        BY <1>2, <2>3 DEF T
<1>6. Only(s, S) \in Seq(E) /\ \A i \in 1..N : s[i] \in S => s[i] \in ElementsOf(Only(s, S))
    BY <1>1, <1>5, Zenon
<1>7. ElementsOf(Only(s, S)) \subseteq E
    <2> HIDE DEF E
    <2> QED
        BY <1>6, ElementsIn
<1>8. E \subseteq ElementsOf(Only(s, S))
    BY <1>6, ElementsIn DEF ElementsOf
<1> QED
    BY <1>6, <1>7, <1>8

-----------------------------------------------------------------------------
(* The top-down walk over a bag. *)

WalkState == [accepted : Seq(Certificate), pending : Seq(Certificate), issuers : SUBSET Certificate]

LEMMA AnchorsAreCertificates == AnchorSet \subseteq Certificate
BY CertificateAssumption, ElementsIn DEF AnchorSet

LEMMA WalkStarts ==
    ASSUME NEW bag \in Seq(Certificate)
    PROVE  WalkBegins(bag) \in WalkState
<1>1. /\ Only(bag, AnchorSet) \in Seq(ElementsOf(bag) \cap AnchorSet)
      /\ Only(bag, ElementsOf(bag) \ AnchorSet) \in Seq(ElementsOf(bag) \cap (ElementsOf(bag) \ AnchorSet))
    BY OnlyIsExact
<1>2. ElementsOf(bag) \subseteq Certificate
    BY ElementsIn
<1>3. Only(bag, AnchorSet) \in Seq(Certificate) /\ Only(bag, ElementsOf(bag) \ AnchorSet) \in Seq(Certificate)
    BY <1>1, <1>2, SeqMonotonic
<1> QED
    BY <1>3, AnchorsAreCertificates DEF WalkBegins, WalkState

\* What one round does, in terms of sets.
LEMMA RoundIs ==
    ASSUME NEW r \in WalkState
    PROVE  LET P == ElementsOf(r.pending)
               new == IssuedByOneOf(r.issuers, P)
               after == WalkRound(r)
           IN  /\ after \in WalkState
               /\ ElementsOf(after.accepted) = ElementsOf(r.accepted) \cup new
               /\ ElementsOf(after.pending) = P \ new
               /\ after.issuers = new
<1> DEFINE P == ElementsOf(r.pending)
           new == IssuedByOneOf(r.issuers, P)
           this_round == Only(r.pending, new)
           rest == Only(r.pending, P \ new)
           after == WalkRound(r)
<1>1. r.accepted \in Seq(Certificate) /\ r.pending \in Seq(Certificate)
    BY DEF WalkState
<1>2. new \subseteq P /\ P \subseteq Certificate
    BY <1>1, ElementsIn DEF IssuedByOneOf
<1>3. /\ this_round \in Seq(P \cap new) /\ ElementsOf(this_round) = P \cap new
      /\ rest \in Seq(P \cap (P \ new)) /\ ElementsOf(rest) = P \cap (P \ new)
    BY <1>1, OnlyIsExact
<1>4. after = [accepted |-> r.accepted \o this_round, pending |-> rest, issuers |-> ElementsOf(this_round)]
    BY DEF WalkRound
<1> HIDE DEF P, new, this_round, rest, after
<1>5. this_round \in Seq(Certificate) /\ rest \in Seq(Certificate)
    BY <1>2, <1>3, SeqMonotonic
<1>6. ElementsOf(this_round) = new /\ ElementsOf(rest) = P \ new
    BY <1>2, <1>3
<1>7. ElementsOf(r.accepted \o this_round) = ElementsOf(r.accepted) \cup ElementsOf(this_round)
    <2> DEFINE a == r.accepted
               u == a \o this_round
    <2>1. /\ Len(a) \in Nat /\ Len(this_round) \in Nat /\ DOMAIN a = 1..Len(a) /\ DOMAIN this_round = 1..Len(this_round)
          /\ DOMAIN u = 1..(Len(a) + Len(this_round))
          /\ \A i \in 1..Len(a) : u[i] = a[i]
          /\ \A i \in (Len(a) + 1)..(Len(a) + Len(this_round)) : u[i] = this_round[i - Len(a)]
        BY <1>1, <1>5
    <2> HIDE DEF a, u
    <2>2. \A i \in DOMAIN u : u[i] \in ElementsOf(a) \cup ElementsOf(this_round)
        BY <2>1 DEF ElementsOf
    <2>3. \A i \in DOMAIN this_round : Len(a) + i \in DOMAIN u /\ u[Len(a) + i] = this_round[i]
        BY <2>1
    <2>4. \A i \in DOMAIN a : i \in DOMAIN u /\ u[i] = a[i]
        BY <2>1
    <2>5. ElementsOf(u) = ElementsOf(a) \cup ElementsOf(this_round)
        BY <2>2, <2>3, <2>4 DEF ElementsOf
    <2> QED
        BY <2>5 DEF a, u
<1>8. after \in WalkState
    BY <1>1, <1>2, <1>4, <1>5, <1>6 DEF WalkState
<1> QED
    BY <1>4, <1>6, <1>7, <1>8 DEF P, new, after

LEMMA WalkUnfolds ==
    ASSUME NEW bag \in Seq(Certificate)
    PROVE  \E rounds : /\ authenticated_top_down(bag) = rounds[Len(bag)].accepted
                       /\ rounds[0] = WalkBegins(bag)
                       /\ \A n \in 1..Len(bag) : rounds[n] = WalkRound(rounds[n - 1])
<1> DEFINE T == WalkState
           N == Len(bag)
           begin == WalkBegins(bag)
           Rec(r) == r = [n \in 0..N |-> IF n = 0 THEN begin ELSE WalkRound(r[n - 1])]
           step == [n \in 1..N |-> [t \in T |-> WalkRound(t)]]
           rounds == CHOOSE r : Rec(r)
<1>1. authenticated_top_down(bag) = rounds[N].accepted
    BY DEF authenticated_top_down
<1>2. N \in Nat /\ begin \in T /\ step \in Steps(N, T)
    <2>1. \A t \in T : WalkRound(t) \in T
        BY RoundIs
    <2>2. N \in Nat /\ begin \in T
        BY WalkStarts
    <2> HIDE DEF begin, T
    <2> QED
        BY <2>1, <2>2 DEF Steps
<1> HIDE DEF begin
<1>3. PICK f \in [0..N -> T] : Follows(f, N, begin, step)
    <2> HIDE DEF N, T, step
    <2> QED
        BY <1>2, Recursion
<1> HIDE DEF T
<1>4. Rec(f)
    <2>1. ASSUME NEW n \in 1..N
          PROVE  f[n] = WalkRound(f[n - 1])
        <3>1. n - 1 \in 0..N
            BY <1>2
        <3>2. f[n - 1] \in T
            BY <3>1, <1>3, Zenon
        <3>3. f[n] = step[n][f[n - 1]]
            BY <1>3 DEF Follows
        <3> QED
            BY <3>2, <3>3, Zenon
    <2>2. \A n \in 0..N : n # 0 => n \in 1..N
        BY <1>2
    <2>3. f[0] = begin
        BY <1>3 DEF Follows
    <2>4. \A n \in 0..N : f[n] = IF n = 0 THEN begin ELSE WalkRound(f[n - 1])
        BY <2>1, <2>2, <2>3, Zenon
    <2>5. f = [n \in 0..N |-> f[n]]
        BY <1>3, Zenon
    <2>6. [n \in 0..N |-> f[n]] = [n \in 0..N |-> IF n = 0 THEN begin ELSE WalkRound(f[n - 1])]
        BY <2>4, Zenon
    <2> QED
        BY <2>5, <2>6, Zenon
<1>5. Rec(rounds)
    BY <1>4
<1> HIDE DEF rounds
<1>6. rounds[0] = begin /\ \A n \in 1..N : rounds[n] = WalkRound(rounds[n - 1])
    <2>1. \A n \in 0..N : rounds[n] = IF n = 0 THEN begin ELSE WalkRound(rounds[n - 1])
        BY <1>5, Zenon
    <2>2. 0 \in 0..N /\ \A n \in 1..N : n \in 0..N /\ n # 0
        BY <1>2
    <2> QED
        BY <2>1, <2>2, Zenon
<1> QED
    BY <1>1, <1>6, Zenon DEF begin

\* A bag of n certificates holds at most n different ones.
LEMMA BagSize ==
    ASSUME NEW S, NEW s \in Seq(S)
    PROVE  /\ IsFiniteSet(ElementsOf(s))
           /\ Cardinality(ElementsOf(s)) \in Nat
           /\ Cardinality(ElementsOf(s)) <= Len(s)
<1>1. Len(s) \in Nat /\ DOMAIN s = 1..Len(s) /\ s \in [1..Len(s) -> ElementsOf(s)]
    BY ElementsIn
<1>2. s \in Surjection(1..Len(s), ElementsOf(s))
    BY <1>1 DEF Surjection, ElementsOf
<1>3. IsFiniteSet(1..Len(s)) /\ Cardinality(1..Len(s)) = Len(s)
    <2>1. 1 \in Int /\ Len(s) \in Int
        BY <1>1
    <2>2. /\ IsFiniteSet(1..Len(s))
          /\ Cardinality(1..Len(s)) = IF 1 > Len(s) THEN 0 ELSE Len(s) - 1 + 1
        BY <2>1, FS_Interval, Zenon
    <2> QED
        BY <1>1, <2>2
<1>4. IsFiniteSet(ElementsOf(s)) /\ Cardinality(ElementsOf(s)) <= Cardinality(1..Len(s))
    BY <1>2, <1>3, FS_Surjection
<1> QED
    BY <1>3, <1>4, FS_CardinalityType

\* After n rounds over a bag of the certificates E: accepted and pending share
\* E between them, what is accepted is in every closed set, no old issuer
\* issued what is pending, and while there are new issuers each round has
\* accepted something.
WalkInv(E, N, n) ==
    {r \in WalkState :
        LET A == ElementsOf(r.accepted)
            P == ElementsOf(r.pending)
        IN  /\ A \cup P = E /\ A \cap P = {} /\ E \cap AnchorSet \subseteq A
            /\ \A S \in SUBSET E :
                 ClosedUnderIssuing(S, E, AnchorSet, IssuedPairs) => A \subseteq S
            /\ r.issuers \subseteq AnchorSet \cup A
            /\ \A c \in P : \A i \in (AnchorSet \cup A) \ r.issuers : ~issued_by(c, i)
            /\ r.issuers = {} \/ Cardinality(P) <= N - n}

LEMMA WalkInvStarts ==
    ASSUME NEW bag \in Seq(Certificate)
    PROVE  WalkBegins(bag) \in WalkInv(ElementsOf(bag), Len(bag), 0)
<1> DEFINE E == ElementsOf(bag)
           r == WalkBegins(bag)
<1>1. /\ ElementsOf(Only(bag, AnchorSet)) = E \cap AnchorSet
      /\ ElementsOf(Only(bag, E \ AnchorSet)) = E \cap (E \ AnchorSet)
    BY OnlyIsExact
<1>2. /\ ElementsOf(r.accepted) = E \cap AnchorSet
      /\ ElementsOf(r.pending) = E \ AnchorSet
      /\ r.issuers = AnchorSet
    BY <1>1 DEF WalkBegins
<1>3. r \in WalkState
    BY WalkStarts
<1>4. Cardinality(E \ AnchorSet) <= Len(bag) - 0
    <2>1. IsFiniteSet(E) /\ Cardinality(E) <= Len(bag) /\ Cardinality(E) \in Nat
        BY BagSize
    <2>2. E \ AnchorSet \in SUBSET E
        OBVIOUS
    <2>3. Cardinality(E \ AnchorSet) <= Cardinality(E) /\ Cardinality(E \ AnchorSet) \in Nat
        BY <2>1, <2>2, FS_Subset, FS_CardinalityType
    <2> HIDE DEF E
    <2> QED
        BY <2>1, <2>3
<1> HIDE DEF E, r
<1>5. \A S \in SUBSET E : ClosedUnderIssuing(S, E, AnchorSet, IssuedPairs) => E \cap AnchorSet \subseteq S
    BY DEF ClosedUnderIssuing
<1> QED
    BY <1>2, <1>3, <1>4, <1>5 DEF WalkInv, E, r

LEMMA WalkInvKept ==
    ASSUME NEW E, E \subseteq Certificate, IsFiniteSet(E), NEW N \in Nat, NEW n \in 1..N,
           NEW r \in WalkInv(E, N, n - 1)
    PROVE  WalkRound(r) \in WalkInv(E, N, n)
<1> DEFINE A == ElementsOf(r.accepted)
           P == ElementsOf(r.pending)
           new == IssuedByOneOf(r.issuers, P)
           after == WalkRound(r)
           A2 == ElementsOf(after.accepted)
           P2 == ElementsOf(after.pending)
<1>1. r \in WalkState
    BY DEF WalkInv
<1>2. /\ A \cup P = E /\ A \cap P = {} /\ E \cap AnchorSet \subseteq A
      /\ \A S \in SUBSET E : ClosedUnderIssuing(S, E, AnchorSet, IssuedPairs) => A \subseteq S
      /\ r.issuers \subseteq AnchorSet \cup A
      /\ \A c \in P : \A i \in (AnchorSet \cup A) \ r.issuers : ~issued_by(c, i)
      /\ r.issuers = {} \/ Cardinality(P) <= N - (n - 1)
    BY DEF WalkInv
<1>3. after \in WalkState /\ A2 = A \cup new /\ P2 = P \ new /\ after.issuers = new
    BY <1>1, RoundIs
<1>4. \A c : c \in new <=> c \in P /\ \E i \in r.issuers : issued_by(c, i)
    BY DEF IssuedByOneOf
<1> HIDE DEF A, P, new, after, A2, P2
<1>5. A2 \cup P2 = E /\ A2 \cap P2 = {} /\ E \cap AnchorSet \subseteq A2
    BY <1>2, <1>3, <1>4
<1>6. ASSUME NEW S \in SUBSET E, ClosedUnderIssuing(S, E, AnchorSet, IssuedPairs)
      PROVE  A2 \subseteq S
    <2>1. A \subseteq S
        BY <1>2, <1>6
    <2>2. ASSUME NEW c \in new
          PROVE  c \in S
        <3>1. PICK i \in r.issuers : issued_by(c, i)
            BY <1>4
        <3>2. c \in E /\ i \in AnchorSet \cup S
            BY <1>2, <1>4, <2>1
        <3>3. <<c, i>> \in IssuedPairs
            <4>1. c \in Certificate /\ i \in Certificate
                BY <3>2, AnchorsAreCertificates
            <4> QED
                BY <3>1, <4>1 DEF IssuedPairs
        <3> QED
            BY <1>6, <3>2, <3>3 DEF ClosedUnderIssuing
    <2> QED
        BY <1>3, <2>1, <2>2
<1>7. after.issuers \subseteq AnchorSet \cup A2
    BY <1>3
<1>8. ASSUME NEW c \in P2, NEW i \in (AnchorSet \cup A2) \ after.issuers
      PROVE  ~issued_by(c, i)
    <2>1. c \in P /\ c \notin new /\ i \in AnchorSet \cup A
        BY <1>3, <1>8
    <2> QED
        BY <1>2, <1>4, <2>1
<1>9. after.issuers = {} \/ Cardinality(P2) <= N - n
    <2> SUFFICES ASSUME new # {}
                 PROVE  Cardinality(P2) <= N - n
        BY <1>3
    <2>1. PICK c : c \in new
        OBVIOUS
    <2>2. r.issuers # {} /\ c \in P /\ c \notin P2
        BY <1>3, <1>4, <2>1
    <2>3. Cardinality(P) <= N - (n - 1)
        BY <1>2, <2>2
    <2>4. P \in SUBSET E /\ P2 \in SUBSET (P \ {c})
        BY <1>2, <1>3, <2>2
    <2>5. IsFiniteSet(P)
        BY <2>4, FS_Subset
    <2>6. IsFiniteSet(P \ {c}) /\ Cardinality(P \ {c}) = Cardinality(P) - 1
        BY <2>2, <2>5, FS_RemoveElement
    <2>7. Cardinality(P2) <= Cardinality(P \ {c}) /\ IsFiniteSet(P2)
        BY <2>4, <2>6, FS_Subset
    <2>8. Cardinality(P) \in Nat /\ Cardinality(P2) \in Nat
        BY <2>5, <2>7, FS_CardinalityType
    <2> QED
        BY <2>3, <2>6, <2>7, <2>8
<1> QED
    BY <1>3, <1>5, <1>6, <1>7, <1>8, <1>9 DEF WalkInv, after, A2, P2

\* authenticated_top_down accepts exactly what the pinned roots vouch for,
\* whatever the bag's order and repetitions: rust/src/path.rs, "the only keys
\* used are ones an anchor vouched for", and no certificate that one did vouch
\* for is lost although each round tries the newest issuers only.
THEOREM AuthenticatedIsVouched ==
    ASSUME NEW bag \in Seq(Certificate)
    PROVE  /\ authenticated_top_down(bag) \in Seq(ElementsOf(bag))
           /\ ElementsOf(authenticated_top_down(bag)) = VouchedFor(ElementsOf(bag))
<1> DEFINE E == ElementsOf(bag)
           N == Len(bag)
           T == [n \in 0..N |-> WalkInv(E, N, n)]
<1>1. PICK rounds : /\ authenticated_top_down(bag) = rounds[N].accepted
                    /\ rounds[0] = WalkBegins(bag)
                    /\ \A n \in 1..N : rounds[n] = WalkRound(rounds[n - 1])
    BY WalkUnfolds
<1>2. N \in Nat /\ E \subseteq Certificate /\ IsFiniteSet(E)
    BY ElementsIn, BagSize
<1>3. \A n \in 0..N : rounds[n] \in T[n]
    <2>1. rounds[0] \in WalkInv(E, N, 0)
        BY <1>1, WalkInvStarts
    <2>2. \A n \in 1..N : rounds[n - 1] \in WalkInv(E, N, n - 1) => rounds[n] \in WalkInv(E, N, n)
        BY <1>1, <1>2, WalkInvKept
    <2>3. 0 \in 0..N /\ \A n \in 1..N : n \in 0..N /\ n - 1 \in 0..N
        BY <1>2
    <2>4. \A n \in 0..N : T[n] = WalkInv(E, N, n)
        OBVIOUS
    <2> HIDE DEF T, N, E
    <2>5. rounds[0] \in T[0] /\ \A n \in 1..N : rounds[n - 1] \in T[n - 1] => rounds[n] \in T[n]
        BY <2>1, <2>2, <2>3, <2>4
    <2> QED
        BY <1>2, <2>5, RecursionKeeps
<1> DEFINE r == rounds[N]
           A == ElementsOf(r.accepted)
           P == ElementsOf(r.pending)
<1>4. r \in WalkInv(E, N, N)
    BY <1>2, <1>3
<1>5. /\ r \in WalkState
      /\ A \cup P = E /\ A \cap P = {} /\ E \cap AnchorSet \subseteq A
      /\ \A S \in SUBSET E : ClosedUnderIssuing(S, E, AnchorSet, IssuedPairs) => A \subseteq S
      /\ \A c \in P : \A i \in (AnchorSet \cup A) \ r.issuers : ~issued_by(c, i)
      /\ r.issuers = {} \/ Cardinality(P) <= N - N
    <2> HIDE DEF r, E, N
    <2> QED
        BY <1>4 DEF WalkInv
<1> HIDE DEF r, A, P, E, N
<1>6. \A c \in P : \A i \in AnchorSet \cup A : ~issued_by(c, i)
    <2>1. CASE r.issuers = {}
        BY <1>5, <2>1
    <2>2. CASE r.issuers # {}
        <3>1. P \in SUBSET E
            BY <1>5
        <3>2. IsFiniteSet(P) /\ Cardinality(P) \in Nat
            BY <1>2, <3>1, FS_Subset, FS_CardinalityType
        <3>3. Cardinality(P) = 0
            BY <1>2, <1>5, <2>2, <3>2
        <3>4. P = {}
            BY <3>2, <3>3, FS_EmptySet
        <3> QED
            BY <3>4
    <2> QED
        BY <2>1, <2>2
<1>7. ClosedUnderIssuing(A, E, AnchorSet, IssuedPairs)
    <2>1. ASSUME NEW c \in E, NEW i \in AnchorSet \cup A, <<c, i>> \in IssuedPairs
          PROVE  c \in A
        <3>1. issued_by(c, i)
            BY <2>1 DEF IssuedPairs
        <3> QED
            BY <1>5, <1>6, <3>1
    <2> QED
        BY <1>5, <2>1 DEF ClosedUnderIssuing
<1>8. A = VouchedFor(E)
    <2>1. A \subseteq E
        BY <1>5
    <2> QED
        BY <1>5, <1>7, <2>1 DEF VouchedFor, Vouched
<1>9. r.accepted \in Seq(E)
    <2>1. r.accepted \in Seq(Certificate)
        BY <1>5 DEF WalkState
    <2>2. r.accepted \in Seq(A) /\ A \subseteq E
        BY <1>5, <2>1, ElementsIn DEF A
    <2> QED
        BY <2>2, SeqMonotonic
<1> QED
    BY <1>1, <1>8, <1>9, Zenon DEF r, A, E, N

-----------------------------------------------------------------------------
(* OpenSSL's issuer lookup and the chain it builds. *)

LEMMA LeastIsIn ==
    ASSUME NEW S, S \subseteq Nat, S # {}
    PROVE  Least(S) \in S /\ \A m \in S : Least(S) <= m
<1>1. \E n \in S : \A m \in S : n <= m
    BY LeastNat
<1> QED
    BY <1>1 DEF Least

LEMMA FirstInIs ==
    ASSUME NEW C, NEW s \in Seq(C), NEW S
    PROVE  /\ ElementsOf(s) \cap S = {} => FirstIn(s, S) = <<>>
           /\ ElementsOf(s) \cap S # {} => \E x \in ElementsOf(s) \cap S : FirstIn(s, S) = <<x>>
<1> DEFINE at == {n \in DOMAIN s : s[n] \in S}
<1>1. Len(s) \in Nat /\ DOMAIN s = 1..Len(s) /\ \A n \in 1..Len(s) : s[n] \in ElementsOf(s)
    BY ElementsIn
<1>2. FirstIn(s, S) = IF at = {} THEN <<>> ELSE <<s[Least(at)]>>
    BY DEF FirstIn
<1>3. at = {} <=> ElementsOf(s) \cap S = {}
    BY DEF ElementsOf
<1>4. at # {} => s[Least(at)] \in ElementsOf(s) \cap S
    <2>1. at \subseteq Nat
        BY <1>1
    <2>2. at # {} => Least(at) \in at
        <3> HIDE DEF at
        <3> QED
            BY <2>1, LeastIsIn
    <2> QED
        BY <2>2, <1>1
<1> HIDE DEF at
<1> QED
    BY <1>2, <1>3, <1>4

Likely(c, offered, chain) == {i \in ElementsOf(offered) \ ElementsOf(chain) : LikelyIssued(i, c)}

\* At most one certificate, a likely issuer that is offered and not on the
\* chain.
LEMMA FoundIssuer ==
    ASSUME NEW c, NEW offered \in Seq(Certificate), NEW chain, NEW second
    PROVE  \/ find_issuer(c, offered, chain, second) = <<>>
           \/ \E i \in Likely(c, offered, chain) : find_issuer(c, offered, chain, second) = <<i>>
<1> DEFINE likely == Likely(c, offered, chain)
           valid  == {i \in likely : ValidAt(i, second)}
           last   == {i \in likely : \A j \in likely : X509[j].notAfter <= X509[i].notAfter}
           some   == IF valid # {} THEN valid ELSE last
<1>1. find_issuer(c, offered, chain, second) = FirstIn(offered, some)
    BY DEF find_issuer, Likely
<1>2. some \subseteq likely
    BY DEF Likely
<1> HIDE DEF some, likely
<1>3. /\ ElementsOf(offered) \cap some = {} => FirstIn(offered, some) = <<>>
      /\ ElementsOf(offered) \cap some # {} => \E x \in ElementsOf(offered) \cap some : FirstIn(offered, some) = <<x>>
    BY FirstInIs
<1> QED
    BY <1>1, <1>2, <1>3 DEF likely

\* The only likely issuer is found.
LEMMA FoundTheOnlyIssuer ==
    ASSUME NEW c, NEW offered \in Seq(Certificate), NEW chain, NEW second,
           NEW i \in Certificate, Likely(c, offered, chain) = {i}
    PROVE  find_issuer(c, offered, chain, second) = <<i>>
<1> DEFINE likely == Likely(c, offered, chain)
           valid  == {j \in likely : ValidAt(j, second)}
           last   == {j \in likely : \A k \in likely : X509[k].notAfter <= X509[j].notAfter}
           some   == IF valid # {} THEN valid ELSE last
<1>1. find_issuer(c, offered, chain, second) = FirstIn(offered, some)
    BY DEF find_issuer, Likely
<1>2. X509[i].notAfter \in Int
    BY CertificateAssumption DEF X509Type
<1>3. some = {i}
    BY <1>2
<1>4. i \in ElementsOf(offered)
    BY DEF Likely
<1> HIDE DEF some, likely
<1>5. ElementsOf(offered) \cap some # {} => \E x \in ElementsOf(offered) \cap some : FirstIn(offered, some) = <<x>>
    BY FirstInIs
<1> QED
    BY <1>1, <1>3, <1>4, <1>5

Grown(chain, untrusted, store, second) ==
    Extended(chain, chain[Len(chain)], untrusted, store, second)

\* A step adds nothing, or one certificate that is not on the chain yet.
LEMMA GrownIs ==
    ASSUME NEW untrusted \in Seq(Certificate), NEW store \in Seq(Certificate), NEW second,
           NEW chain \in Seq(Certificate)
    PROVE  \/ Grown(chain, untrusted, store, second) = chain
           \/ \E i \in (ElementsOf(store) \cup ElementsOf(untrusted)) \ ElementsOf(chain) :
                /\ chain[Len(chain)] \notin ElementsOf(store)
                /\ i \in Certificate
                /\ Grown(chain, untrusted, store, second) = Append(chain, i)
<1> DEFINE top == chain[Len(chain)]
           trusted == find_issuer(top, store, chain, second)
           other == find_issuer(top, untrusted, chain, second)
           G == Grown(chain, untrusted, store, second)
<1>1. G = IF top \in ElementsOf(store) \/ SelfIssued(top) THEN chain
          ELSE IF trusted # <<>> THEN chain \o trusted ELSE chain \o other
    BY DEF Grown, Extended, FirstFound
<1>2. /\ trusted = <<>> \/ \E i \in ElementsOf(store) \ ElementsOf(chain) : trusted = <<i>>
      /\ other = <<>> \/ \E i \in ElementsOf(untrusted) \ ElementsOf(chain) : other = <<i>>
    <2>1. /\ Likely(top, store, chain) \subseteq ElementsOf(store) \ ElementsOf(chain)
          /\ Likely(top, untrusted, chain) \subseteq ElementsOf(untrusted) \ ElementsOf(chain)
        BY DEF Likely
    <2> HIDE DEF top
    <2>2. \/ find_issuer(top, store, chain, second) = <<>>
          \/ \E i \in Likely(top, store, chain) : find_issuer(top, store, chain, second) = <<i>>
        BY FoundIssuer
    <2>3. \/ find_issuer(top, untrusted, chain, second) = <<>>
          \/ \E i \in Likely(top, untrusted, chain) : find_issuer(top, untrusted, chain, second) = <<i>>
        BY FoundIssuer
    <2> QED
        BY <2>1, <2>2, <2>3, Zenon
<1>3. ElementsOf(store) \subseteq Certificate /\ ElementsOf(untrusted) \subseteq Certificate
    BY ElementsIn
<1> HIDE DEF top, trusted, other, G
<1>4. chain \o <<>> = chain /\ \A i \in Certificate : chain \o <<i>> = Append(chain, i)
    OBVIOUS
<1>5. CASE top \in ElementsOf(store) \/ SelfIssued(top)
    BY <1>1, <1>5 DEF G
<1>6. CASE top \notin ElementsOf(store) /\ ~SelfIssued(top) /\ trusted # <<>>
    <2>1. PICK i \in ElementsOf(store) \ ElementsOf(chain) : trusted = <<i>>
        BY <1>2, <1>6
    <2> QED
        BY <1>1, <1>3, <1>4, <1>6, <2>1 DEF G, top
<1>7. CASE top \notin ElementsOf(store) /\ ~SelfIssued(top) /\ trusted = <<>>
    <2>1. CASE other = <<>>
        BY <1>1, <1>4, <1>7, <2>1 DEF G
    <2>2. CASE other # <<>>
        <3>1. PICK i \in ElementsOf(untrusted) \ ElementsOf(chain) : other = <<i>>
            BY <1>2, <2>2
        <3> QED
            BY <1>1, <1>3, <1>4, <1>7, <3>1 DEF G, top
    <2> QED
        BY <2>1, <2>2
<1> QED
    BY <1>5, <1>6, <1>7

LEMMA ChainUnfolds ==
    ASSUME NEW target \in Certificate, NEW untrusted \in Seq(Certificate),
           NEW store \in Seq(Certificate), NEW second
    PROVE  \E chain : /\ build_chain(target, untrusted, store, second) = chain[Len(untrusted) + 1]
                      /\ chain[0] = <<target>>
                      /\ \A n \in 1..(Len(untrusted) + 1) :
                           chain[n] = Grown(chain[n - 1], untrusted, store, second)
<1> DEFINE T == Seq(Certificate)
           N == Len(untrusted) + 1
           begin == <<target>>
           Step(t) == Grown(t, untrusted, store, second)
           Rec(r) == r = [n \in 0..N |-> IF n = 0 THEN begin ELSE Step(r[n - 1])]
           step == [n \in 1..N |-> [t \in T |-> Step(t)]]
           chain == CHOOSE r : Rec(r)
<1>1. build_chain(target, untrusted, store, second) = chain[N]
    BY DEF build_chain, Grown
<1>2. N \in Nat /\ begin \in T /\ step \in Steps(N, T)
    <2>1. \A t \in T : Step(t) \in T
        <3> SUFFICES ASSUME NEW t \in T
                     PROVE  Step(t) \in T
            OBVIOUS
        <3>1. Step(t) = t \/ \E i \in Certificate : Step(t) = Append(t, i)
            BY GrownIs
        <3> HIDE DEF Step
        <3> QED
            BY <3>1
    <2>2. N \in Nat /\ begin \in T
        OBVIOUS
    <2> HIDE DEF begin, T, Step, N
    <2> QED
        BY <2>1, <2>2 DEF Steps
<1> HIDE DEF begin, Step, N
<1>3. PICK f \in [0..N -> T] : Follows(f, N, begin, step)
    <2> HIDE DEF T, step
    <2> QED
        BY <1>2, Recursion
<1> HIDE DEF T
<1>4. Rec(f)
    <2>1. ASSUME NEW n \in 1..N
          PROVE  f[n] = Step(f[n - 1])
        <3>1. n - 1 \in 0..N
            BY <1>2
        <3>2. f[n - 1] \in T
            BY <3>1, <1>3, Zenon
        <3>3. f[n] = step[n][f[n - 1]]
            BY <1>3 DEF Follows
        <3> QED
            BY <3>2, <3>3, Zenon
    <2>2. \A n \in 0..N : n # 0 => n \in 1..N
        BY <1>2
    <2>3. f[0] = begin
        BY <1>3 DEF Follows
    <2>4. \A n \in 0..N : f[n] = IF n = 0 THEN begin ELSE Step(f[n - 1])
        BY <2>1, <2>2, <2>3, Zenon
    <2>5. f = [n \in 0..N |-> f[n]]
        BY <1>3, Zenon
    <2>6. [n \in 0..N |-> f[n]] = [n \in 0..N |-> IF n = 0 THEN begin ELSE Step(f[n - 1])]
        BY <2>4, Zenon
    <2> QED
        BY <2>5, <2>6, Zenon
<1>5. Rec(chain)
    BY <1>4
<1> HIDE DEF chain
<1>6. chain[0] = begin /\ \A n \in 1..N : chain[n] = Step(chain[n - 1])
    <2>1. \A n \in 0..N : chain[n] = IF n = 0 THEN begin ELSE Step(chain[n - 1])
        BY <1>5, Zenon
    <2>2. 0 \in 0..N /\ \A n \in 1..N : n \in 0..N /\ n # 0
        BY <1>2
    <2> QED
        BY <2>1, <2>2, Zenon
<1> QED
    BY <1>1, <1>6, Zenon DEF begin, Step, N

\* A chain under construction: the target first, no certificate twice, and
\* nothing but certificates of `untrusted` above it, except that the last one
\* may be the store's.
Built(target, untrusted, store) ==
    {chain \in Seq(Certificate) :
        /\ Len(chain) >= 1 /\ chain[1] = target
        /\ Distinct(chain)
        /\ \A n \in 1..Len(chain) :
             \/ chain[n] \in {target} \cup ElementsOf(untrusted)
             \/ n = Len(chain) /\ chain[n] \in ElementsOf(store)}

LEMMA ChainIsBuilt ==
    ASSUME NEW target \in Certificate, NEW untrusted \in Seq(Certificate),
           NEW store \in Seq(Certificate), NEW second
    PROVE  build_chain(target, untrusted, store, second) \in Built(target, untrusted, store)
<1> DEFINE N == Len(untrusted) + 1
           B == Built(target, untrusted, store)
           T == [n \in 0..N |-> B]
<1>1. PICK chain : /\ build_chain(target, untrusted, store, second) = chain[N]
                   /\ chain[0] = <<target>>
                   /\ \A n \in 1..N : chain[n] = Grown(chain[n - 1], untrusted, store, second)
    BY ChainUnfolds
<1>2. N \in Nat
    OBVIOUS
<1>3. chain[0] \in B
    BY <1>1 DEF Built, Distinct
<1>4. ASSUME NEW ch \in B
      PROVE  Grown(ch, untrusted, store, second) \in B
    <2> DEFINE G == Grown(ch, untrusted, store, second)
    <2>1. /\ ch \in Seq(Certificate) /\ Len(ch) \in Nat /\ Len(ch) >= 1 /\ ch[1] = target /\ Distinct(ch)
          /\ \A n \in 1..Len(ch) :
               \/ ch[n] \in {target} \cup ElementsOf(untrusted)
               \/ n = Len(ch) /\ ch[n] \in ElementsOf(store)
        BY DEF Built
    <2>2. \/ G = ch
          \/ \E i \in (ElementsOf(store) \cup ElementsOf(untrusted)) \ ElementsOf(ch) :
               /\ ch[Len(ch)] \notin ElementsOf(store)
               /\ i \in Certificate
               /\ G = Append(ch, i)
        BY <2>1, GrownIs
    <2> HIDE DEF G
    <2>3. CASE G = ch
        BY <2>3 DEF G
    <2>4. CASE G # ch
        <3>1. PICK i \in (ElementsOf(store) \cup ElementsOf(untrusted)) \ ElementsOf(ch) :
                   ch[Len(ch)] \notin ElementsOf(store) /\ i \in Certificate /\ G = Append(ch, i)
            BY <2>2, <2>4
        <3>2. /\ G \in Seq(Certificate) /\ Len(G) = Len(ch) + 1 /\ G[Len(ch) + 1] = i
              /\ \A n \in 1..Len(ch) : G[n] = ch[n]
            BY <2>1, <3>1
        <3>3. Distinct(G)
            BY <2>1, <3>1, AppendElements, SameElements
        <3>4. \A n \in 1..Len(ch) : ch[n] \in {target} \cup ElementsOf(untrusted)
            BY <2>1, <3>1
        <3>5. ASSUME NEW n \in 1..Len(G)
              PROVE  \/ G[n] \in {target} \cup ElementsOf(untrusted)
                     \/ n = Len(G) /\ G[n] \in ElementsOf(store)
            <4>1. CASE n = Len(ch) + 1
                BY <3>1, <3>2, <4>1
            <4>2. CASE n # Len(ch) + 1
                <5>1. n \in 1..Len(ch)
                    BY <2>1, <3>2, <4>2
                <5> QED
                    BY <3>2, <3>4, <5>1
            <4> QED
                BY <4>1, <4>2
        <3>6. Len(G) >= 1 /\ G[1] = target
            BY <2>1, <3>2
        <3>7. G \in B
            BY <3>2, <3>3, <3>5, <3>6 DEF Built
        <3> QED
            BY <3>7 DEF G
    <2> QED
        BY <2>3, <2>4
<1>5. chain[N] \in B
    <2>1. \A n \in 0..N : T[n] = B
        OBVIOUS
    <2>2. 0 \in 0..N /\ N \in 0..N /\ \A n \in 1..N : n \in 0..N /\ n - 1 \in 0..N
        BY <1>2
    <2> HIDE DEF B, T, N
    <2>3. chain[0] \in T[0] /\ \A n \in 1..N : chain[n - 1] \in T[n - 1] => chain[n] \in T[n]
        BY <1>1, <1>3, <1>4, <2>1, <2>2
    <2>4. \A n \in 0..N : chain[n] \in T[n]
        BY <1>2, <2>3, RecursionKeeps
    <2> QED
        BY <2>1, <2>2, <2>4
<1> QED
    BY <1>1, <1>5

\* What it means that no problem was recorded on a chain.
Sound(chain, store, second) ==
    /\ chain[Len(chain)] \in ElementsOf(store)
    /\ \A n \in 1..Len(chain) :
         /\ ~X509[chain[n]].critical
         /\ n < Len(chain) => signed_by(chain[n], chain[n + 1])
         /\ chain[n] \notin AnchorSet =>
              /\ ValidAt(chain[n], second)
              /\ n > 1 => X509[chain[n]].ca /\ X509[chain[n]].certSign

LEMMA NoProblemMeansSound ==
    ASSUME NEW chain \in Seq(Certificate), Len(chain) >= 1, NEW store, NEW second \in Int
    PROVE  recorded_problems(chain, store, second) = {} <=> Sound(chain, store, second)
<1> DEFINE depths  == 1..Len(chain)
           judged  == {d \in depths : chain[d] \notin AnchorSet}
           top     == chain[Len(chain)]
           unsigned == {e \in depths : e < Len(chain) /\ ~signed_by(chain[e], chain[e + 1])}
           notCa   == {e \in judged : e > 1 /\ ~(X509[chain[e]].ca /\ X509[chain[e]].certSign)}
           early   == {e \in judged : second < X509[chain[e]].notBefore}
           late    == {e \in judged : X509[chain[e]].notAfter < second}
           strange == {e \in depths : X509[chain[e]].critical}
<1>1. recorded_problems(chain, store, second) = {} <=>
        /\ {top} \ ElementsOf(store) = {}
        /\ unsigned = {} /\ notCa = {} /\ early = {} /\ late = {} /\ strange = {}
    <2>1. recorded_problems(chain, store, second) =
              {Problem(Len(chain) - 1, NoIssuer) : x \in {top} \ ElementsOf(store)}
              \cup {Problem(d - 1, BadSignature) : d \in unsigned}
              \cup {Problem(d - 1, NotCa) : d \in notCa}
              \cup {Problem(d - 1, NotYetValid) : d \in early}
              \cup {Problem(d - 1, Expired) : d \in late}
              \cup {Problem(d - 1, Critical) : d \in strange}
        BY DEF recorded_problems
    <2> HIDE DEF depths, judged, top, unsigned, notCa, early, late, strange
    <2> QED
        BY <2>1, Zenon
<1>2. \A n \in depths : chain[n] \in Certificate
    OBVIOUS
<1>3. \A n \in depths : X509[chain[n]].notBefore \in Int /\ X509[chain[n]].notAfter \in Int
    BY <1>2, CertificateAssumption DEF X509Type
<1>4. {top} \ ElementsOf(store) = {} <=> chain[Len(chain)] \in ElementsOf(store)
    OBVIOUS
<1>5. unsigned = {} <=> \A n \in depths : n < Len(chain) => signed_by(chain[n], chain[n + 1])
    OBVIOUS
<1>6. notCa = {} <=> \A n \in depths : chain[n] \notin AnchorSet /\ n > 1 => X509[chain[n]].ca /\ X509[chain[n]].certSign
    OBVIOUS
<1>7. (early = {} /\ late = {}) <=> \A n \in depths : chain[n] \notin AnchorSet => ValidAt(chain[n], second)
    BY <1>3 DEF ValidAt
<1>8. strange = {} <=> \A n \in depths : ~X509[chain[n]].critical
    OBVIOUS
<1> HIDE DEF judged, top, unsigned, notCa, early, late, strange
<1> QED
    BY <1>1, <1>4, <1>5, <1>6, <1>7, <1>8, Zenon DEF Sound

-----------------------------------------------------------------------------
(* verify_path: the run that is reported. *)

\* OpenSSL is offered certificates of `untrusted` only.
LEMMA LinkedIsUntrusted ==
    ASSUME NEW target, NEW untrusted \in Seq(Certificate)
    PROVE  /\ linked_above(target, untrusted) \in Seq(Certificate)
           /\ ElementsOf(linked_above(target, untrusted)) \subseteq ElementsOf(untrusted)
<1>1. \E S : linked_above(target, untrusted) = Only(untrusted, S)
    BY Zenon DEF linked_above
<1>2. PICK S : linked_above(target, untrusted) = Only(untrusted, S)
    BY <1>1
<1>3. /\ Only(untrusted, S) \in Seq(ElementsOf(untrusted) \cap S)
      /\ ElementsOf(Only(untrusted, S)) = ElementsOf(untrusted) \cap S
    BY OnlyIsExact
<1>4. ElementsOf(untrusted) \cap S \subseteq Certificate
    BY ElementsIn
<1>5. Only(untrusted, S) \in Seq(Certificate)
    BY <1>3, <1>4, SeqMonotonic
<1> QED
    BY <1>2, <1>3, <1>5

\* One of the runs is reported, and one that passed when there is one.
LEMMA ReportedIsOne ==
    ASSUME NEW k \in Nat \ {0}, NEW outcomes, DOMAIN outcomes = 1..k
    PROVE  \E n \in 1..k :
             /\ Reported(outcomes) = outcomes[n]
             /\ (\E m \in 1..k : passed(outcomes[m])) => passed(outcomes[n])
<1> DEFINE passing == {n \in DOMAIN outcomes : passed(outcomes[n])}
           holding == {n \in DOMAIN outcomes : links_hold(outcomes[n])}
           some == IF passing # {} THEN passing ELSE IF holding # {} THEN holding ELSE {1}
<1>1. Reported(outcomes) = outcomes[Least(some)]
    BY DEF Reported
<1>2. some # {} /\ some \subseteq 1..k /\ some \subseteq Nat
    OBVIOUS
<1>3. (\E m \in 1..k : passed(outcomes[m])) => \A n \in some : passed(outcomes[n])
    OBVIOUS
<1> HIDE DEF some
<1>4. Least(some) \in some
    BY <1>2, LeastIsIn
<1> QED
    BY <1>1, <1>2, <1>3, <1>4

Leads(target, linked) ==
    {a \in AnchorSet : \E c \in {target} \cup ElementsOf(linked) : may_have_issued(a, c) \/ a = c}

\* The reported path is one X509_verify_cert built over a store of pinned
\* roots; with a candidate root, over a store of one.
LEMMA PathIsARun ==
    ASSUME NEW target, NEW untrusted \in Seq(Certificate), NEW second
    PROVE  LET linked == linked_above(target, untrusted) IN
           \E store \in Seq(Certificate) :
             /\ ElementsOf(store) \subseteq AnchorSet
             /\ verify_path(target, untrusted, second) = run_with(target, linked, store, second)
             /\ (\E a \in Leads(target, linked) : passed(run_with(target, linked, <<a>>, second)))
                  => passed(verify_path(target, untrusted, second))
<1> DEFINE linked == linked_above(target, untrusted)
           leads == Leads(target, linked)
           candidates == Only(Anchors, leads)
           Run(store) == run_with(target, linked, store, second)
           stores == Stores(candidates)
           runs == [n \in DOMAIN stores |-> Run(stores[n])]
           path == verify_path(target, untrusted, second)
<1>1. path = Reported(runs)
    BY Zenon DEF verify_path, run, RunEach, Leads
<1>2. Anchors \in Seq(Certificate) /\ ElementsOf(Anchors) = AnchorSet
    BY CertificateAssumption DEF AnchorSet
<1>3. leads \subseteq AnchorSet
    BY DEF Leads
<1>4. candidates \in Seq(leads) /\ ElementsOf(candidates) = leads
    <2> HIDE DEF leads
    <2>1. candidates \in Seq(AnchorSet \cap leads) /\ ElementsOf(candidates) = AnchorSet \cap leads
        BY <1>2, OnlyIsExact
    <2>2. AnchorSet \cap leads = leads
        BY <1>3
    <2> QED
        BY <2>1, <2>2
<1>5. \A a \in AnchorSet : <<a>> \in Seq(Certificate) /\ ElementsOf(<<a>>) = {a}
    BY AnchorsAreCertificates DEF ElementsOf
<1> HIDE DEF linked, leads, candidates, path, Run
<1>6. PICK k \in Nat \ {0} :
         /\ DOMAIN stores = 1..k
         /\ \A n \in 1..k : stores[n] \in Seq(Certificate) /\ ElementsOf(stores[n]) \subseteq AnchorSet
         /\ \A a \in leads : \E m \in 1..k : stores[m] = <<a>>
    <2>1. CASE candidates = <<>>
        <3>1. leads = {}
            BY <1>4, <2>1 DEF ElementsOf
        <3>2. stores = <<Anchors>>
            BY <2>1 DEF Stores
        <3>3. DOMAIN <<Anchors>> = 1..1 /\ \A n \in 1..1 : <<Anchors>>[n] = Anchors
            OBVIOUS
        <3> QED
            BY <1>2, <3>1, <3>2, <3>3
    <2>2. CASE candidates # <<>>
        <3> DEFINE c == Len(candidates)
        <3>1. c \in Nat \ {0} /\ DOMAIN candidates = 1..c
            BY <1>4, <2>2
        <3>2. DOMAIN stores = 1..c /\ \A n \in 1..c : stores[n] = <<candidates[n]>> /\ candidates[n] \in leads
            BY <1>4, <2>2, <3>1 DEF Stores
        <3> HIDE DEF c, stores
        <3>3. \A n \in 1..c : stores[n] \in Seq(Certificate) /\ ElementsOf(stores[n]) \subseteq AnchorSet
            BY <1>3, <1>5, <3>2
        <3>4. ASSUME NEW a \in leads
              PROVE  \E m \in 1..c : stores[m] = <<a>>
            <4>1. PICK m \in 1..c : candidates[m] = a
                BY <1>4, <3>1 DEF ElementsOf
            <4> QED
                BY <3>2, <4>1
        <3> QED
            BY <3>1, <3>2, <3>3, <3>4
    <2> QED
        BY <2>1, <2>2
<1>7. DOMAIN runs = 1..k /\ \A n \in 1..k : runs[n] = Run(stores[n])
    BY <1>6
<1> HIDE DEF stores, runs
<1>8. PICK n \in 1..k : /\ Reported(runs) = runs[n]
                        /\ (\E m \in 1..k : passed(runs[m])) => passed(runs[n])
    BY <1>6, <1>7, ReportedIsOne
<1>9. path = Run(stores[n])
    BY <1>1, <1>7, <1>8
<1>10. ASSUME NEW a \in leads, passed(Run(<<a>>))
       PROVE  passed(path)
    <2>1. PICK m \in 1..k : stores[m] = <<a>>
        BY <1>6
    <2>2. passed(runs[m])
        BY <1>7, <1>10, <2>1
    <2> QED
        BY <1>7, <1>8, <1>9, <2>2
<1>11. \E store \in Seq(Certificate) :
         /\ ElementsOf(store) \subseteq AnchorSet
         /\ path = Run(store)
         /\ (\E a \in leads : passed(Run(<<a>>))) => passed(path)
    BY <1>6, <1>9, <1>10
<1> QED
    BY <1>11 DEF path, Run, linked, leads

-----------------------------------------------------------------------------
(* checked_path: the exact millisecond. *)

\* The second an instant falls in judges the start of a window, the next full
\* second its end: together they judge the window to the millisecond.
LEMMA Rounding ==
    ASSUME NEW t \in Int, NEW b \in Int, NEW a \in Int
    PROVE  /\ second_of(t) \in Int /\ rounded_up(t) \in Int
           /\ b <= second_of(t) <=> b * 1000 <= t
           /\ rounded_up(t) <= a <=> t <= a * 1000
           /\ t <= a * 1000 => second_of(t) <= a
BY DEF second_of, rounded_up

\* The path an instant's checks accept, every certificate of it.
AcceptedChain(chain, target, untrusted, t) ==
    /\ chain \in Seq(Certificate)
    /\ Len(chain) >= 1 /\ chain[1] = target
    /\ Distinct(chain)
    /\ chain[Len(chain)] \in AnchorSet
    /\ \A n \in 1..Len(chain) :
         /\ ~X509[chain[n]].critical
         /\ n < Len(chain) =>
              /\ chain[n] \in {target} \cup ElementsOf(untrusted)
              /\ signed_by(chain[n], chain[n + 1])
              /\ t <= X509[chain[n]].notAfter * 1000
         /\ chain[n] \notin AnchorSet =>
              /\ X509[chain[n]].notBefore * 1000 <= t
              /\ n > 1 => X509[chain[n]].ca /\ X509[chain[n]].certSign

\* checked_path adds problems to the run's and changes nothing else.
LEMMA CheckedIs ==
    ASSUME NEW target \in Certificate, NEW untrusted \in Seq(Certificate), NEW t \in Int
    PROVE  LET o == checked_path(target, untrusted, t)
               linked == linked_above(target, untrusted)
           IN  \E store \in Seq(Certificate) :
                 /\ ElementsOf(store) \subseteq AnchorSet
                 /\ o.chain = build_chain(target, linked, store, second_of(t))
                 /\ o.chain \in Built(target, linked, store)
                 /\ o.anchored <=> o.chain[Len(o.chain)] \in AnchorSet
                 /\ o.anchored /\ o.problems = {} <=>
                      /\ Sound(o.chain, store, second_of(t))
                      /\ \A n \in 1..(Len(o.chain) - 1) : rounded_up(t) <= X509[o.chain[n]].notAfter
                 /\ (\E a \in Leads(target, linked) : passed(run_with(target, linked, <<a>>, second_of(t))))
                      => Sound(o.chain, store, second_of(t))
<1> DEFINE linked == linked_above(target, untrusted)
           second == second_of(t)
           limit == rounded_up(t)
           v == verify_path(target, untrusted, second)
           o == checked_path(target, untrusted, t)
           leading == \E a \in Leads(target, linked) : passed(run_with(target, linked, <<a>>, second))
<1>1. second \in Int /\ limit \in Int
    BY Rounding
<1>2. linked \in Seq(Certificate)
    BY LinkedIsUntrusted
<1>3. PICK store \in Seq(Certificate) :
             /\ ElementsOf(store) \subseteq AnchorSet
             /\ v = run_with(target, linked, store, second)
             /\ leading => passed(v)
    BY PathIsARun
<1> DEFINE chain == build_chain(target, linked, store, second)
           problems == recorded_problems(chain, store, second)
           anchored == chain[Len(chain)] \in AnchorSet
           below == IF anchored THEN Len(chain) - 1 ELSE Len(chain)
           late == {d \in 1..below : ~not_after_at_least(chain[d], limit)}
<1>4. v = [chain |-> chain, anchored |-> anchored, problems |-> problems]
    BY <1>3 DEF run_with, Outcome
<1>5. o = WithExpired(v, limit)
    BY DEF checked_path
<1>6. chain \in Built(target, linked, store)
    BY <1>2, ChainIsBuilt
<1>7. chain \in Seq(Certificate) /\ Len(chain) \in Nat /\ Len(chain) >= 1
    BY <1>6 DEF Built
<1>8. problems = {} <=> Sound(chain, store, second)
    BY <1>1, <1>7, NoProblemMeansSound
<1> HIDE DEF v, o, limit, second, linked, chain, problems, leading
<1>9. /\ o.chain = chain /\ o.anchored = anchored
      /\ o.problems = problems \cup {Problem(d - 1, Expired) : d \in late}
    BY <1>4, <1>5 DEF WithExpired
<1>10. Sound(chain, store, second) => anchored
    BY <1>3 DEF Sound
<1>11. late = {} <=> \A n \in 1..below : limit <= X509[chain[n]].notAfter
    <2>1. \A n \in 1..below : X509[chain[n]].notAfter \in Int
        <3>1. \A n \in 1..below : chain[n] \in Certificate
            BY <1>7
        <3> QED
            BY <3>1, CertificateAssumption DEF X509Type
    <2> QED
        BY <1>1, <2>1 DEF not_after_at_least
<1>12. o.problems = {} <=> problems = {} /\ late = {}
    <2> HIDE DEF late
    <2> QED
        BY <1>9, Zenon
<1>13. o.anchored /\ o.problems = {} <=>
         Sound(chain, store, second) /\ \A n \in 1..(Len(chain) - 1) : limit <= X509[chain[n]].notAfter
    <2>1. CASE anchored
        <3>1. below = Len(chain) - 1
            BY <2>1
        <3> HIDE DEF below, late
        <3> QED
            BY <1>8, <1>9, <1>11, <1>12, <2>1, <3>1
    <2>2. CASE ~anchored
        BY <1>9, <1>10, <2>2
    <2> QED
        BY <2>1, <2>2
<1>14. leading => Sound(chain, store, second)
    BY <1>3, <1>4, <1>8 DEF passed
<1> QED
    BY <1>3, <1>6, <1>9, <1>13, <1>14 DEF o, chain, linked, second, limit, leading
-----------------------------------------------------------------------------
(* receipt_path and validate_pair: what an accepting verdict means. *)

LEMMA WindowsAreIntegers ==
    ASSUME NEW c \in Certificate
    PROVE  X509[c].notBefore \in Int /\ X509[c].notAfter \in Int
BY CertificateAssumption DEF X509Type

LEMMA Window ==
    ASSUME NEW c \in Certificate, NEW t \in Int
    PROVE  /\ X509[c].notBefore <= second_of(t) <=> X509[c].notBefore * 1000 <= t
           /\ rounded_up(t) <= X509[c].notAfter <=> t <= X509[c].notAfter * 1000
           /\ t <= X509[c].notAfter * 1000 => second_of(t) <= X509[c].notAfter
<1> DEFINE b == X509[c].notBefore
           a == X509[c].notAfter
<1>1. b \in Int /\ a \in Int
    BY WindowsAreIntegers
<1> HIDE DEF a, b
<1>2. /\ b <= second_of(t) <=> b * 1000 <= t
      /\ rounded_up(t) <= a <=> t <= a * 1000
      /\ t <= a * 1000 => second_of(t) <= a
    BY <1>1, Rounding
<1> QED
    BY <1>2 DEF a, b

\* A path without a problem is one whose every link and window holds.
LEMMA AcceptedPath ==
    ASSUME NEW target \in Certificate, NEW untrusted \in Seq(Certificate), NEW t \in Int,
           NEW o, o = checked_path(target, untrusted, t), o.anchored, o.problems = {}
    PROVE  AcceptedChain(o.chain, target, untrusted, t)
<1> DEFINE linked == linked_above(target, untrusted)
           chain == o.chain
           second == second_of(t)
<1>1. PICK store \in Seq(Certificate) :
        /\ ElementsOf(store) \subseteq AnchorSet
        /\ chain \in Built(target, linked, store)
        /\ Sound(chain, store, second)
        /\ \A n \in 1..(Len(chain) - 1) : rounded_up(t) <= X509[chain[n]].notAfter
    BY CheckedIs
<1>2. ElementsOf(linked) \subseteq ElementsOf(untrusted)
    BY LinkedIsUntrusted
<1> HIDE DEF linked, chain
<1>3. /\ chain \in Seq(Certificate) /\ Len(chain) \in Nat /\ Len(chain) >= 1
      /\ chain[1] = target /\ Distinct(chain)
      /\ \A n \in 1..Len(chain) : n < Len(chain) => chain[n] \in {target} \cup ElementsOf(linked)
    BY <1>1 DEF Built
<1>4. ASSUME NEW n \in 1..Len(chain)
      PROVE  /\ ~X509[chain[n]].critical
             /\ n < Len(chain) =>
                  /\ chain[n] \in {target} \cup ElementsOf(untrusted)
                  /\ signed_by(chain[n], chain[n + 1])
                  /\ t <= X509[chain[n]].notAfter * 1000
             /\ chain[n] \notin AnchorSet =>
                  /\ X509[chain[n]].notBefore * 1000 <= t
                  /\ n > 1 => X509[chain[n]].ca /\ X509[chain[n]].certSign
    <2>1. chain[n] \in Certificate
        BY <1>3
    <2>3. /\ X509[chain[n]].notBefore <= second <=> X509[chain[n]].notBefore * 1000 <= t
          /\ rounded_up(t) <= X509[chain[n]].notAfter <=> t <= X509[chain[n]].notAfter * 1000
        BY <2>1, Window
    <2>4. n < Len(chain) => n \in 1..(Len(chain) - 1)
        BY <1>3
    <2> QED
        BY <1>1, <1>2, <1>3, <2>3, <2>4 DEF Sound, ValidAt
<1>5. chain[Len(chain)] \in AnchorSet
    BY <1>1 DEF Sound
<1> QED
    BY <1>3, <1>4, <1>5 DEF AcceptedChain, chain

\* Every problem's kind is structural, of validity, or a critical extension, so
\* the verdict on a signer's path is Ok exactly when nothing was recorded.
LEMMA OkMeansNoProblem ==
    ASSUME NEW o
    PROVE  SignerPath(o).verdict = Ok <=> o.anchored /\ o.problems = {}
<1>1. SignerPath(o).verdict =
       IF ~o.anchored \/ \E k \in KindsOf(o) : is_structural(k)
       THEN UntrustedChain
       ELSE IF KindsOf(o) \cap ValidityKinds # {} THEN InvalidCertificate
       ELSE IF o.problems # {} THEN UntrustedChain ELSE Ok
    BY DEF SignerPath
<1>2. o.problems = {} => KindsOf(o) = {}
    BY DEF KindsOf
<1>3. Ok # UntrustedChain /\ Ok # InvalidCertificate
    BY DEF Ok, UntrustedChain, InvalidCertificate
<1> QED
    BY <1>1, <1>2, <1>3, Zenon

\* The path of a receipt's signer, when its verdict is Ok, is the accepted
\* chain without its root.
LEMMA SignerPathIs ==
    ASSUME NEW c \in Certificate, NEW untrusted \in Seq(Certificate), NEW t \in Int,
           receipt_path(c, untrusted, t).verdict = Ok
    PROVE  \E chain : /\ AcceptedChain(chain, c, untrusted, t)
                      /\ receipt_path(c, untrusted, t).path = SubSeq(chain, 1, Len(chain) - 1)
<1> DEFINE o == checked_path(c, untrusted, t)
<1>1. o.anchored /\ o.problems = {}
    <2>1. SignerPath(o).verdict = Ok
        BY DEF receipt_path
    <2> HIDE DEF o
    <2> QED
        BY <2>1, OkMeansNoProblem
<1>2. AcceptedChain(o.chain, c, untrusted, t)
    <2>1. ASSUME NEW p, p = o PROVE AcceptedChain(p.chain, c, untrusted, t)
        BY <1>1, <2>1, AcceptedPath
    <2> QED
        BY <2>1
<1>3. receipt_path(c, untrusted, t).path = SubSeq(o.chain, 1, Len(o.chain) - 1)
    BY DEF receipt_path, SignerPath
<1> QED
    BY <1>2, <1>3

-----------------------------------------------------------------------------
(* Receipts. *)

\* The failures of one certificate as the signer, and of a bag.
SignerReason ==
    {Malformed, InvalidSignature, UntrustedChain, InvalidCertificate, InvalidCertificatePurpose}

Named(n) == signer_certificates(input.infos[n])

Readable(n) == BagFailure(input.infos[n]) = None

FailedInfo(n) == Readable(n) => \A c \in Named(n) : SignerVerdict(n, c) # Ok

SomePassed == \E n \in DOMAIN input.infos : \E c \in Named(n) : SignerVerdict(n, c) = Ok

\* Before the first readable SignerInfo nothing was judged; from then on the
\* chain instant and the walk are the call's.
Judged ==
    \/ /\ at_millis = None /\ authenticated = None /\ digested = {}
       /\ verdict \notin {Ok, UnreadablePayload}
       /\ pc \notin {"try", "others", "signed"}
       /\ \A n \in 1..(index - 1) : ~Readable(n)
    \/ /\ pc # "begin"
       /\ at_millis \in Int /\ at_millis = RightInstant
       /\ authenticated = authenticated_top_down(input.bag)

\* What has been tried and failed.
Tried ==
    /\ pc \in {"signer", "instant", "try", "others", "signed"} => OuterFailure = None
    /\ pc \in {"instant", "try", "others", "signed"} => index <= Len(input.infos) /\ Readable(index)
    /\ pc \in {"instant", "try"} => first \in Named(index) /\ others = Named(index) \ {first}
    /\ pc = "others" => /\ others \subseteq Named(index)
                        /\ first_verdict \in SignerReason
                        /\ \A c \in Named(index) \ others : SignerVerdict(index, c) # Ok
    /\ pc = "signed" => \E c \in Named(index) : SignerVerdict(index, c) = Ok
    /\ first_failure \in SignerReason \cup {None}
    /\ index > 1 => first_failure # None
    /\ \A n \in 1..(index - 1) : FailedInfo(n)
    /\ \A used \in digested : ChainVerdict(used[2]) = Ok

\* What the verdict was given for.
Concluded ==
    /\ verdict # None <=> pc \in {"respond", "done"}
    /\ verdict \in {Ok, UnreadablePayload} => SomePassed
    /\ verdict \in Reason \ {UnreadablePayload, InternalError} => authenticated = None \/ NonePasses

\* What the status was given for, and what the host broke.
Answered ==
    /\ pc = "respond" => input.entry # "receipt"
    /\ status # None => pc = "done" /\ input.entry # "receipt"
    /\ status = 0 => verdict = Ok /\ RoutedStatus = 0 /\ millis \in Renderable
    /\ status \in {21002, 21003} => verdict \in SignerReason \cup {TooLarge}
    /\ host_fault # None =>
         /\ pc \in {"respond", "done"} /\ status \notin {21002, 21003}
         /\ pc = "respond" => verdict = InternalError
    /\ clock_reads \in {0, 1}
    /\ pc # "done" /\ verdict # InternalError /\ millis = None => clock_reads = 0

ReceiptInv == TypeOK /\ Judged /\ Tried /\ Concluded /\ Answered

-----------------------------------------------------------------------------
(* Facts about one state. *)

\* None is no string and no number, so it is no verdict and no instant.
LEMMA NoneIsNoVerdict ==
    /\ None \notin Reason \cup {Ok} /\ None \notin Int
    /\ Ok \notin Reason /\ SignerReason \subseteq Reason
    /\ UnreadablePayload \notin SignerReason /\ InternalError \notin SignerReason
    /\ None # "clock" /\ None # "panic"
<1>1. None \notin Int
    BY CertificateAssumption, Zenon
<1>2. None \notin Reason /\ None # Ok /\ None # "clock" /\ None # "panic"
    BY ReceiptAssumption, Zenon
<1>3. /\ Ok \notin Reason /\ SignerReason \subseteq Reason
      /\ UnreadablePayload \notin SignerReason /\ InternalError \notin SignerReason
    BY DEF Reason, SignerReason, Ok, Malformed, TooLarge, InvalidSignature, UntrustedChain,
           InvalidCertificate, InvalidCertificatePurpose, UnreadablePayload, InternalError
<1> QED
    BY <1>1, <1>2, <1>3, Zenon

LEMMA PathVerdict ==
    ASSUME NEW c, NEW untrusted, NEW t
    PROVE  receipt_path(c, untrusted, t).verdict \in SignerReason \cup {Ok}
BY DEF receipt_path, SignerPath, SignerReason

\* What judging a certificate answers.
LEMMA VerdictType ==
    ASSUME NEW n, NEW c
    PROVE  SignerVerdict(n, c) \in SignerReason \cup {Ok}
<1>1. ChainVerdict(c) \in SignerReason \cup {Ok}
    <2>1. receipt_path(c, authenticated, at_millis).verdict \in SignerReason \cup {Ok}
        BY PathVerdict
    <2> QED
        BY <2>1 DEF ChainVerdict, MarkersVerdict, SignerReason
<1>2. SignerVerdict(n, c) \in {ChainVerdict(c), InvalidSignature, Ok}
    BY Zenon DEF SignerVerdict, verify_cms_signature
<1> QED
    BY <1>1, <1>2 DEF SignerReason

LEMMA BagFailureType ==
    ASSUME NEW info
    PROVE  BagFailure(info) \in SignerReason \cup {None}
BY DEF BagFailure, SignerReason

\* The first certificate a SignerInfo names is one it names.
LEMMA FirstNamedIsNamed ==
    ASSUME TypeOK, NEW info, BagFailure(info) = None
    PROVE  /\ FirstNamed(info) \in signer_certificates(info)
           /\ signer_certificates(info) \subseteq Certificate
<1> DEFINE at == {k \in DOMAIN input.bag : names_signer(info, input.bag[k])}
<1>1. input.bag \in Seq(Certificate)
    BY DEF TypeOK, InputType
<1>2. Bag \subseteq Certificate /\ DOMAIN input.bag = 1..Len(input.bag) /\ Len(input.bag) \in Nat
    BY <1>1, ElementsIn DEF Bag
<1>3. signer_certificates(info) # {}
    BY NoneIsNoVerdict DEF BagFailure, Reason
<1>4. at # {} /\ at \subseteq Nat
    BY <1>2, <1>3 DEF signer_certificates, Bag, ElementsOf
<1>5. Least(at) \in at
    <2> HIDE DEF at
    <2> QED
        BY <1>4, LeastIsIn
<1>6. FirstNamed(info) = input.bag[Least(at)]
    BY DEF FirstNamed
<1>7. FirstNamed(info) \in signer_certificates(info)
    BY <1>5, <1>6 DEF signer_certificates, Bag, ElementsOf
<1> QED
    BY <1>2, <1>7 DEF signer_certificates

\* The walk's result is a sequence of the bag's certificates.
LEMMA WalkType ==
    ASSUME TypeOK
    PROVE  /\ authenticated_top_down(input.bag) \in Seq(Certificate)
           /\ ElementsOf(authenticated_top_down(input.bag)) \subseteq Bag
<1>1. input.bag \in Seq(Certificate)
    BY DEF TypeOK, InputType
<1>2. authenticated_top_down(input.bag) \in Seq(Bag) /\ Bag \subseteq Certificate
    BY <1>1, AuthenticatedIsVouched, ElementsIn DEF Bag
<1>3. authenticated_top_down(input.bag) \in Seq(Certificate)
    BY <1>2, SeqMonotonic
<1> QED
    BY <1>2, <1>3, ElementsIn

\* A certificate whose chain passes is the end of a genuine path, judged at
\* the chain instant.
LEMMA PassingChainIsGenuine ==
    ASSUME TypeOK, at_millis \in Int, authenticated = authenticated_top_down(input.bag),
           NEW c \in Bag, ChainVerdict(c) = Ok
    PROVE  /\ X509[c].leafOid
           /\ \E n \in 2..Len(input.bag) : \E path \in [1..n -> Bag] :
                /\ path[1] = c
                /\ X509[path[2]].wwdrOid
                /\ GenuinePath(path, at_millis)
<1> DEFINE judged == receipt_path(c, authenticated, at_millis)
<1>1. input.bag \in Seq(Certificate)
    BY DEF TypeOK, InputType
<1>2. Bag \subseteq Certificate /\ authenticated \in Seq(Certificate) /\ ElementsOf(authenticated) \subseteq Bag
    BY <1>1, WalkType, ElementsIn DEF Bag
<1>3. judged.verdict = Ok /\ X509[c].leafOid /\ ~(Len(judged.path) < 2) /\ X509[judged.path[2]].wwdrOid
    BY DEF ChainVerdict, MarkersVerdict, Marked, Ok, UntrustedChain, InvalidCertificate,
           InvalidCertificatePurpose
<1>4. PICK chain : /\ AcceptedChain(chain, c, authenticated, at_millis)
                   /\ judged.path = SubSeq(chain, 1, Len(chain) - 1)
    BY <1>2, <1>3, SignerPathIs
<1> DEFINE path == judged.path
           n == Len(chain) - 1
<1> HIDE DEF judged
<1>5. /\ chain \in Seq(Certificate) /\ Len(chain) \in Nat /\ Len(chain) >= 1 /\ chain[1] = c
      /\ Distinct(chain) /\ chain[Len(chain)] \in AnchorSet
    BY <1>4 DEF AcceptedChain
<1>6. /\ path \in Seq(Certificate) /\ Len(path) = n /\ n \in Nat /\ DOMAIN path = 1..n
      /\ \A k \in 1..n : path[k] = chain[k]
    <2>1. n \in Nat /\ \A k \in 1..n : chain[k] \in Certificate
        BY <1>5
    <2>2. path = SubSeq(chain, 1, n)
        BY <1>4
    <2> HIDE DEF n, path
    <2>3. /\ path \in Seq(Certificate)
          /\ Len(path) = IF 1 <= n THEN n - 1 + 1 ELSE 0
          /\ \A k \in 1..(n - 1 + 1) : path[k] = chain[1 + k - 1]
        BY <2>1, <2>2, SubSeqProperties
    <2>4. Len(path) = n /\ DOMAIN path = 1..Len(path) /\ n - 1 + 1 = n
        BY <2>1, <2>3
    <2>5. \A k \in 1..n : path[k] = chain[k]
        BY <2>1, <2>3
    <2> QED
        BY <2>1, <2>3, <2>4, <2>5
<1>7. n >= 2
    BY <1>3, <1>6
<1>8. \A k \in 1..n : path[k] \in Bag
    BY <1>2, <1>4, <1>5, <1>6 DEF AcceptedChain
<1> HIDE DEF path, n
<1>9. path \in [1..n -> Bag]
    BY <1>6, <1>8
<1>10. n <= Len(input.bag)
    <2>1. path \in Seq(Bag) /\ Distinct(path)
        <3>1. \A i, j \in 1..n : chain[i] = chain[j] => i = j
            BY <1>5 DEF Distinct, n
        <3>2. path \in Seq(ElementsOf(path)) /\ ElementsOf(path) \subseteq Bag
            BY <1>6, <1>8, ElementsIn DEF ElementsOf
        <3> QED
            BY <1>6, <3>1, <3>2, SeqMonotonic DEF Distinct
    <2>2. Cardinality(Elements(path)) = n /\ Elements(path) \in SUBSET Bag
        BY <1>6, <2>1, DistinctCount, ElementsIn, SameElements
    <2>3. IsFiniteSet(Bag) /\ Cardinality(Bag) <= Len(input.bag) /\ Cardinality(Bag) \in Nat
        BY <1>1, BagSize DEF Bag
    <2>4. Cardinality(Elements(path)) <= Cardinality(Bag)
        BY <2>2, <2>3, FS_Subset
    <2> QED
        BY <1>1, <1>6, <2>2, <2>3, <2>4
<1>11. GenuinePath(path, at_millis)
    <2>1. ASSUME NEW k \in 1..n
          PROVE  /\ ~X509[path[k]].critical
                 /\ at_millis <= X509[path[k]].notAfter * 1000
                 /\ path[k] \notin AnchorSet =>
                      /\ X509[path[k]].notBefore * 1000 <= at_millis
                      /\ k > 1 => X509[path[k]].ca /\ X509[path[k]].certSign
                 /\ k < n => signed_by(path[k], path[k + 1])
        <3>1. k \in 1..Len(chain) /\ k < Len(chain) /\ path[k] = chain[k]
            BY <1>5, <1>6 DEF n
        <3>2. k < n => path[k + 1] = chain[k + 1]
            BY <1>6
        <3> QED
            BY <1>4, <3>1, <3>2 DEF AcceptedChain
    <2>2. signed_by(path[n], chain[Len(chain)])
        <3>1. n \in 1..Len(chain) /\ n < Len(chain) /\ n + 1 = Len(chain) /\ path[n] = chain[n]
            BY <1>5, <1>6, <1>7 DEF n
        <3> QED
            BY <1>4, <3>1 DEF AcceptedChain
    <2> QED
        BY <1>5, <1>6, <2>1, <2>2 DEF GenuinePath
<1>12. path[1] = c /\ X509[path[2]].wwdrOid
    <2>1. path[1] = c
        BY <1>5, <1>6, <1>7
    <2>2. X509[path[2]].wwdrOid
        BY <1>3 DEF path
    <2> QED
        BY <2>1, <2>2
<1>13. n \in 2..Len(input.bag)
    BY <1>1, <1>6, <1>7, <1>10
<1> QED
    BY <1>3, <1>9, <1>11, <1>12, <1>13

-----------------------------------------------------------------------------
(* The invariant holds at the start, and each step keeps it. *)

\* What a step that judges nothing anew leaves as it was.
LEMMA SameEnvelope ==
    ASSUME UNCHANGED input
    PROVE  /\ OuterFailure' = OuterFailure
           /\ RoutedStatus' = RoutedStatus
           /\ signed_creation_date' = signed_creation_date
           /\ \A n : Named(n)' = Named(n)
           /\ \A n : Readable(n)' <=> Readable(n)
BY DEF OuterFailure, RoutedStatus, signed_creation_date, Named, Readable, signer_certificates,
       BagFailure, Unreadable, Bag

LEMMA SameVerdicts ==
    ASSUME UNCHANGED <<input, authenticated, at_millis>>
    PROVE  /\ \A c : ChainVerdict(c)' = ChainVerdict(c)
           /\ \A n, c : SignerVerdict(n, c)' = SignerVerdict(n, c)
<1>1. \A c : ChainVerdict(c)' = ChainVerdict(c)
    BY DEF ChainVerdict
<1>2. ASSUME NEW n, NEW c
      PROVE  SignerVerdict(n, c)' = SignerVerdict(n, c)
    BY <1>1 DEF SignerVerdict
<1> QED
    BY <1>1, <1>2

LEMMA SameFailures ==
    ASSUME UNCHANGED <<input, authenticated, at_millis>>
    PROVE  /\ \A n : FailedInfo(n)' <=> FailedInfo(n)
           /\ SomePassed' <=> SomePassed
           /\ NonePasses' <=> NonePasses
BY SameEnvelope, SameVerdicts DEF FailedInfo, SomePassed, NonePasses, Named, Readable

LEMMA ReceiptInitInv == Init => ReceiptInv
<1> SUFFICES ASSUME Init
             PROVE  ReceiptInv
    OBVIOUS
<1> USE DEF Init
<1>1. TypeOK
    <2>1. input \in InputType /\ Len(input.infos) \in Nat
        BY ReceiptAssumption DEF InputType
    <2>2. index \in 1..(Len(input.infos) + 1) /\ clock_reads \in Nat
        BY <2>1
    <2>3. parsed \in BOOLEAN
        BY Zenon
    <2>4. /\ pc \in {"begin", "signer", "instant", "try", "others", "signed", "respond", "done"}
          /\ status \in AppleStatus \cup {None}
          /\ host_fault \in {None, "clock", "panic"}
        OBVIOUS
    <2>5. others \subseteq Certificate /\ digested \subseteq Nat \X Certificate
        OBVIOUS
    <2>6. /\ first \in Certificate \cup {None} /\ first_verdict \in Reason \cup {None}
          /\ first_failure \in Reason \cup {None} /\ at_millis \in Int \cup {None}
          /\ millis \in ClockReadings \cup {None} /\ verdict \in Reason \cup {Ok, None}
          /\ authenticated = None
        BY Zenon
    <2> HIDE DEF Init
    <2> QED
        BY <2>1, <2>2, <2>3, <2>4, <2>5, <2>6 DEF TypeOK
<1>2. \A n : n \notin 1..(index - 1)
    OBVIOUS
<1>3. Judged
    BY <1>2, NoneIsNoVerdict DEF Judged, Reason
<1>4. Tried
    BY <1>2 DEF Tried
<1>5. Concluded
    BY NoneIsNoVerdict DEF Concluded, Reason
<1>6. Answered
    BY NoneIsNoVerdict DEF Answered
<1> QED
    BY <1>1, <1>3, <1>4, <1>5, <1>6 DEF ReceiptInv

\* No step judges a call under another argument.
LEMMA BeginInv == ReceiptInv /\ Begin => ReceiptInv'
<1> SUFFICES ASSUME ReceiptInv, Begin
             PROVE  ReceiptInv'
    OBVIOUS
<1>0. UNCHANGED <<input, authenticated, at_millis>>
    BY DEF Begin, lazy
<1>1. TypeOK'
    BY DEF ReceiptInv, TypeOK, Begin, lazy, Conclude, OuterFailure, Reason
<1>2. OuterFailure \in {None, InternalError, TooLarge, Malformed}
    BY DEF OuterFailure
<1>3. /\ authenticated = None /\ authenticated' = None /\ pc = "begin"
      /\ OuterFailure = None => pc' = "signer" /\ verdict' = verdict
      /\ OuterFailure # None => /\ verdict' = OuterFailure
                               /\ pc' = IF input.entry = "receipt" THEN "done" ELSE "respond"
    BY DEF ReceiptInv, Judged, Begin, lazy, Conclude
<1>4. Judged'
    BY <1>0, <1>2, <1>3, SameEnvelope DEF ReceiptInv, Judged, Begin, RightInstant, Ok, UnreadablePayload,
       InternalError, TooLarge, Malformed
<1>5. Tried'
    BY <1>0, SameEnvelope, SameVerdicts, SameFailures DEF ReceiptInv, Tried, Begin, Conclude
<1>6. Concluded'
    BY <1>2, <1>3, NoneIsNoVerdict DEF ReceiptInv, Concluded, Ok, UnreadablePayload,
       InternalError, TooLarge, Malformed, Reason
<1>7. Answered'
    BY <1>0, <1>2, <1>3, SameEnvelope, NoneIsNoVerdict DEF ReceiptInv, Answered, Concluded, Begin, Reason
<1> QED
    BY <1>1, <1>4, <1>5, <1>6, <1>7 DEF ReceiptInv

Running == {"signer", "instant", "try", "others", "signed"}

\* While the call runs there is no verdict, no status and no fault.
LEMMA NothingYet ==
    ASSUME ReceiptInv, pc \in Running
    PROVE  verdict = None /\ status = None /\ host_fault = None
BY DEF ReceiptInv, Concluded, Answered, Running

LEMMA StillRunning ==
    ASSUME ReceiptInv, pc \in Running, pc' \in Running,
           UNCHANGED <<input, verdict, status, host_fault, millis, clock_reads>>
    PROVE  Concluded' /\ Answered'
<1>1. verdict' = None /\ status' = None /\ host_fault' = None
    BY NothingYet
<1>2. Concluded'
    BY <1>1, NoneIsNoVerdict DEF Concluded, Running, Reason
<1>3. Answered'
    BY <1>1, NothingYet, NoneIsNoVerdict DEF ReceiptInv, Answered, Running, Reason
<1> QED
    BY <1>2, <1>3

\* A verdict that no fault of the host caused.
LEMMA Concludes ==
    ASSUME ReceiptInv, pc \in Running, NEW reason \in SignerReason \cup {Ok, UnreadablePayload},
           Conclude(reason), UNCHANGED <<input, status, host_fault, millis, clock_reads>>
    PROVE  Answered'
<1>1. /\ status' = None /\ host_fault' = None /\ reason # None /\ reason # InternalError
      /\ verdict' = reason /\ pc' = IF input.entry = "receipt" THEN "done" ELSE "respond"
    BY NothingYet, NoneIsNoVerdict
       DEF Conclude, SignerReason, Reason, Ok, Malformed, InvalidSignature, UntrustedChain,
           InvalidCertificate, InvalidCertificatePurpose, UnreadablePayload, InternalError
<1>2. clock_reads \in {0, 1} /\ (millis = None => clock_reads = 0)
    BY NothingYet, NoneIsNoVerdict DEF ReceiptInv, Answered, Running, Reason
<1> QED
    BY <1>1, <1>2, NoneIsNoVerdict DEF Answered

LEMMA SignerInv == ReceiptInv /\ Signer => ReceiptInv'
<1> SUFFICES ASSUME ReceiptInv, Signer
             PROVE  ReceiptInv'
    OBVIOUS
<1> DEFINE info == input.infos[index]
<1>0. /\ UNCHANGED <<input, authenticated, at_millis>> /\ UNCHANGED <<verdict, status, host_fault, millis, clock_reads>>
      /\ UNCHANGED <<first_verdict, parsed, digested>> /\ pc = "signer" /\ index <= Len(input.infos)
    BY DEF Signer, lazy
<1>1. TypeOK /\ index \in Nat \ {0} /\ index \in 1..(Len(input.infos) + 1) /\ Len(input.infos) \in Nat
    BY DEF ReceiptInv, TypeOK, InputType
<1>2. ASSUME BagFailure(info) # None
      PROVE  ReceiptInv'
    <2>1. /\ first_failure' = FirstOf(first_failure, BagFailure(info)) /\ index' = index + 1
          /\ UNCHANGED <<pc, first, others>>
        BY <1>2 DEF Signer
    <2>2. first_failure' \in SignerReason
        BY <1>2, <2>1, BagFailureType DEF FirstOf, ReceiptInv, Tried
    <2>3. TypeOK'
        BY <1>0, <1>1, <2>1, <2>2, NoneIsNoVerdict DEF TypeOK
    <2>4. ~Readable(index) /\ \A n \in 1..(index' - 1) : n \in 1..(index - 1) \/ n = index
        BY <1>1, <1>2, <2>1 DEF Readable
    <2>5. Judged'
        BY <1>0, <2>1, <2>4, SameEnvelope DEF ReceiptInv, Judged, RightInstant
    <2>6. Tried'
        <3>1. \A n \in 1..(index' - 1) : FailedInfo(n)'
            BY <1>0, <2>4, SameFailures DEF ReceiptInv, Tried, FailedInfo
        <3> QED
            BY <1>0, <2>1, <2>2, <3>1, SameEnvelope, SameVerdicts, NoneIsNoVerdict DEF ReceiptInv, Tried
    <2> QED
        BY <1>0, <2>1, <2>3, <2>5, <2>6, StillRunning DEF ReceiptInv, Running
<1>3. ASSUME BagFailure(info) = None
      PROVE  ReceiptInv'
    <2>1. /\ first' = FirstNamed(info) /\ others' = signer_certificates(info) \ {first'}
          /\ pc' = "instant" /\ UNCHANGED <<index, first_failure>>
        BY <1>3 DEF Signer
    <2>2. first' \in Named(index) /\ Named(index) \subseteq Certificate /\ others' = Named(index) \ {first'}
        BY <1>1, <1>3, <2>1, FirstNamedIsNamed DEF Named
    <2>3. TypeOK'
        BY <1>0, <1>1, <2>1, <2>2 DEF TypeOK
    <2>4. Judged'
        BY <1>0, <2>1, SameEnvelope DEF ReceiptInv, Judged, RightInstant
    <2>5. Tried'
        <3>1. Readable(index)
            BY <1>3 DEF Readable
        <3> QED
            BY <1>0, <2>1, <2>2, <3>1, SameEnvelope, SameVerdicts, SameFailures DEF ReceiptInv, Tried
    <2> QED
        BY <1>0, <2>1, <2>3, <2>4, <2>5, StillRunning DEF ReceiptInv, Running
<1> QED
    BY <1>2, <1>3

\* Judging starts, or starts again: at the instant and over the walk that an
\* earlier SignerInfo of the call was judged at.
LEMMA InstantIsTheCalls ==
    ASSUME ReceiptInv, pc = "instant", NEW instant \in Int, UNCHANGED <<input, digested, index>>,
           at_millis' = instant, JudgeAt(instant),
           IF signed_creation_date # None THEN instant = signed_creation_date
           ELSE instant = millis' /\ millis \in {None, instant}
    PROVE  /\ Judged' /\ authenticated' \in Seq(Certificate)
           /\ \A n \in 1..(index' - 1) : FailedInfo(n)'
           /\ \A used \in digested' : ChainVerdict(used[2])' = Ok
<1>1. authenticated' = authenticated_top_down(input.bag) /\ pc' = "try"
    BY DEF JudgeAt, ReceiptInv, Judged
<1>2. RightInstant' = instant
    BY SameEnvelope DEF RightInstant
<1>3. Judged'
    BY <1>1, <1>2 DEF Judged
<1>4. authenticated' \in Seq(Certificate)
    BY <1>1, WalkType DEF ReceiptInv
<1>5. CASE at_millis = None /\ digested = {} /\ \A n \in 1..(index - 1) : ~Readable(n)
    BY <1>3, <1>4, <1>5, SameEnvelope DEF FailedInfo
<1>6. CASE at_millis \in Int /\ at_millis = RightInstant /\ authenticated = authenticated_top_down(input.bag)
    <2>1. at_millis' = at_millis
        BY <1>6, NoneIsNoVerdict DEF RightInstant
    <2>2. UNCHANGED <<input, authenticated, at_millis>>
        BY <1>1, <1>6, <2>1
    <2> QED
        BY <1>3, <1>4, <2>2, SameVerdicts, SameFailures DEF ReceiptInv, Tried
<1> QED
    BY <1>5, <1>6 DEF ReceiptInv, Judged

LEMMA ChainInstantInv == ReceiptInv /\ ChainInstant => ReceiptInv'
<1> SUFFICES ASSUME ReceiptInv, ChainInstant
             PROVE  ReceiptInv'
    OBVIOUS
<1>0. /\ UNCHANGED <<input, index, first, others, first_failure, status, digested>>
      /\ pc = "instant" /\ parsed' = TRUE /\ first_verdict' = None
    BY DEF ChainInstant
<1>1. verdict = None /\ status = None /\ host_fault = None
    BY <1>0, NothingYet DEF Running
<1>2. TypeOK /\ clock_reads \in {0, 1} /\ (millis = None => clock_reads = 0)
    BY <1>0, <1>1, NoneIsNoVerdict DEF ReceiptInv, Answered, Reason
<1>3. input.payload.date \in Int \cup {None} /\ ClockReadings \subseteq Int
    BY <1>2, ReceiptAssumption DEF TypeOK, InputType, PayloadType
<1>4. parsed' \in BOOLEAN
    BY <1>0, Zenon
<1>5. ASSUME NEW instant \in Int, JudgeAt(instant), UNCHANGED host_fault,
             IF signed_creation_date # None THEN instant = signed_creation_date
             ELSE instant = millis' /\ millis \in {None, instant},
             millis' \in ClockReadings \cup {None}, clock_reads' \in {0, 1},
             millis' = None => clock_reads' = 0
      PROVE  ReceiptInv'
    <2>1. at_millis' = instant /\ pc' = "try" /\ verdict' = verdict
        BY <1>5 DEF JudgeAt
    <2>2. /\ Judged' /\ authenticated' \in Seq(Certificate)
          /\ \A n \in 1..(index' - 1) : FailedInfo(n)'
          /\ \A used \in digested' : ChainVerdict(used[2])' = Ok
        BY <1>0, <1>5, <2>1, InstantIsTheCalls
    <2>3. TypeOK'
        BY <1>0, <1>1, <1>2, <1>4, <1>5, <2>1, <2>2 DEF TypeOK
    <2>4. Tried'
        BY <1>0, <2>1, <2>2, SameEnvelope DEF ReceiptInv, Tried
    <2>5. Concluded'
        BY <1>1, <2>1, NoneIsNoVerdict DEF Concluded, Reason
    <2>6. Answered'
        BY <1>0, <1>1, <1>5, <2>1, NoneIsNoVerdict DEF Answered, Reason
    <2> QED
        BY <2>2, <2>3, <2>4, <2>5, <2>6 DEF ReceiptInv
<1>6. CASE /\ signed_creation_date # None /\ JudgeAt(signed_creation_date)
           /\ UNCHANGED <<millis, clock_reads, host_fault>>
    <2>1. signed_creation_date \in Int
        BY <1>3, <1>6 DEF signed_creation_date
    <2> QED
        BY <1>2, <1>5, <1>6, <2>1 DEF TypeOK
<1>7. ASSUME signed_creation_date = None, NEW now \in ClockReadings, Now(now), JudgeAt(now)
      PROVE  ReceiptInv'
    <2>1. /\ now \in Int /\ now # None /\ UNCHANGED host_fault
          /\ millis' = now /\ millis \in {None, now}
          /\ clock_reads' \in {0, 1}
        BY <1>2, <1>3, <1>7, NoneIsNoVerdict DEF Now
    <2> QED
        BY <1>5, <1>7, <2>1
<1>8. CASE ClockPanics /\ Conclude(InternalError) /\ UNCHANGED <<at_millis, authenticated>>
    <2>1. /\ clock_reads' = 1 /\ host_fault' = "clock" /\ millis' = millis /\ verdict' = InternalError
          /\ pc' = IF input.entry = "receipt" THEN "done" ELSE "respond"
          /\ UNCHANGED <<input, authenticated, at_millis>>
        BY <1>0, <1>2, <1>8 DEF ClockPanics, Conclude
    <2>2. TypeOK'
        BY <1>0, <1>2, <1>4, <2>1 DEF TypeOK, Reason
    <2>3. Judged'
        BY <1>0, <2>1, SameEnvelope DEF ReceiptInv, Judged, RightInstant, InternalError, Ok, UnreadablePayload
    <2>4. Tried'
        BY <1>0, <2>1, SameVerdicts, SameFailures DEF ReceiptInv, Tried
    <2>5. Concluded'
        BY <2>1, NoneIsNoVerdict DEF Concluded, Reason, InternalError, Ok, UnreadablePayload
    <2>6. Answered'
        BY <1>0, <1>1, <2>1, NoneIsNoVerdict DEF Answered
    <2> QED
        BY <2>2, <2>3, <2>4, <2>5, <2>6 DEF ReceiptInv
<1> QED
    BY <1>6, <1>7, <1>8 DEF ChainInstant

\* The content is digested only with a key whose chain passed.
LEMMA DigestKept ==
    ASSUME ReceiptInv, UNCHANGED <<input, authenticated, at_millis>>, index \in Nat,
           NEW c \in Certificate, Digest(index, c)
    PROVE  /\ digested' \subseteq Nat \X Certificate
           /\ \A used \in digested' : ChainVerdict(used[2])' = Ok
<1>1. /\ digested \subseteq Nat \X Certificate
      /\ \A used \in digested : ChainVerdict(used[2]) = Ok
    BY DEF ReceiptInv, TypeOK, Tried
<1>2. CASE digested' = digested
    BY <1>1, <1>2, SameVerdicts
<1>3. CASE ChainVerdict(c) = Ok /\ digested' = digested \cup {<<index, c>>}
    <2>1. <<index, c>>[2] = c /\ <<index, c>> \in Nat \X Certificate
        OBVIOUS
    <2>2. \A used \in digested' : used \in digested \/ used[2] = c
        BY <1>3, <2>1
    <2> QED
        BY <1>1, <1>3, <2>1, <2>2, SameVerdicts
<1> QED
    BY <1>2, <1>3 DEF Digest

\* The state in which the certificates of a readable SignerInfo are tried.
LEMMA Trying ==
    ASSUME ReceiptInv, pc \in {"try", "others"}
    PROVE  /\ TypeOK /\ index \in Nat /\ index \in DOMAIN input.infos /\ Readable(index)
           /\ Named(index) \subseteq Certificate
           /\ at_millis \in Int /\ at_millis = RightInstant
           /\ authenticated = authenticated_top_down(input.bag)
           /\ verdict = None
<1>1. TypeOK /\ index \in 1..(Len(input.infos) + 1) /\ Len(input.infos) \in Nat
      /\ DOMAIN input.infos = 1..Len(input.infos)
    BY DEF ReceiptInv, TypeOK, InputType
<1>2. index <= Len(input.infos) /\ Readable(index)
    BY DEF ReceiptInv, Tried
<1>3. Named(index) \subseteq Certificate
    BY <1>1, <1>2, FirstNamedIsNamed DEF Named, Readable
<1>4. /\ at_millis \in Int /\ at_millis = RightInstant
      /\ authenticated = authenticated_top_down(input.bag)
    BY DEF ReceiptInv, Judged
<1>5. verdict = None
    BY NothingYet DEF Running
<1> QED
    BY <1>1, <1>2, <1>3, <1>4, <1>5

LEMMA VerifyFirstInv == ReceiptInv /\ VerifyFirst => ReceiptInv'
<1> SUFFICES ASSUME ReceiptInv, VerifyFirst
             PROVE  ReceiptInv'
    OBVIOUS
<1> DEFINE v == SignerVerdict(index, first)
<1>0. /\ UNCHANGED <<input, authenticated, at_millis>> /\ UNCHANGED <<verdict, status, host_fault, millis, clock_reads>>
      /\ UNCHANGED <<index, first, others, first_failure, parsed>> /\ pc = "try"
    BY DEF VerifyFirst, lazy
<1>1. first \in Named(index) /\ others = Named(index) \ {first}
    BY <1>0 DEF ReceiptInv, Tried
<1>2. \/ v = Ok /\ pc' = "signed" /\ UNCHANGED first_verdict
      \/ v # Ok /\ pc' = "others" /\ first_verdict' = v
    BY DEF VerifyFirst, FirstTried
<1>3. /\ digested' \subseteq Nat \X Certificate
      /\ \A used \in digested' : ChainVerdict(used[2])' = Ok
    BY <1>0, <1>1, Trying, DigestKept DEF VerifyFirst
<1>4. v \in SignerReason \cup {Ok}
    BY VerdictType
<1> HIDE DEF v
<1>5. TypeOK'
    BY <1>0, <1>2, <1>3, <1>4, Trying, NoneIsNoVerdict DEF TypeOK
<1>6. Judged'
    BY <1>0, <1>2, Trying, SameEnvelope DEF Judged, RightInstant
<1>7. Tried'
    <2>1. \A n \in 1..(index' - 1) : FailedInfo(n)'
        BY <1>0, SameFailures DEF ReceiptInv, Tried
    <2>2. v = Ok => \E c \in Named(index)' : SignerVerdict(index, c)' = Ok
        BY <1>0, <1>1, SameEnvelope, SameVerdicts DEF v
    <2>3. v # Ok => \A c \in Named(index)' \ others' : SignerVerdict(index, c)' # Ok
        BY <1>0, <1>1, SameEnvelope, SameVerdicts DEF v
    <2> QED
        BY <1>0, <1>1, <1>2, <1>3, <1>4, <2>1, <2>2, <2>3, SameEnvelope DEF ReceiptInv, Tried
<1> QED
    BY <1>0, <1>2, <1>5, <1>6, <1>7, StillRunning DEF ReceiptInv, Running

LEMMA VerifyOtherInv == ReceiptInv /\ VerifyOther => ReceiptInv'
<1> SUFFICES ASSUME ReceiptInv, VerifyOther
             PROVE  ReceiptInv'
    OBVIOUS
<1>0. /\ UNCHANGED <<input, authenticated, at_millis>> /\ UNCHANGED <<verdict, status, host_fault, millis, clock_reads>>
      /\ UNCHANGED <<index, first, first_verdict, first_failure, parsed>> /\ pc = "others"
    BY DEF VerifyOther, lazy
<1>1. PICK c \in others :
         /\ Digest(index, c)
         /\ IF SignerVerdict(index, c) = Ok
            THEN pc' = "signed" /\ UNCHANGED others
            ELSE others' = others \ {c} /\ UNCHANGED pc
    BY DEF VerifyOther
<1>2. /\ others \subseteq Named(index) /\ first_verdict \in SignerReason
      /\ \A d \in Named(index) \ others : SignerVerdict(index, d) # Ok
    BY <1>0 DEF ReceiptInv, Tried
<1>3. /\ digested' \subseteq Nat \X Certificate
      /\ \A used \in digested' : ChainVerdict(used[2])' = Ok
    BY <1>0, <1>1, <1>2, Trying, DigestKept
<1>4. others' \subseteq others /\ pc' \in {"signed", "others"}
    BY <1>0, <1>1
<1>5. TypeOK'
    BY <1>0, <1>3, <1>4, Trying DEF TypeOK
<1>6. Judged'
    BY <1>0, <1>4, Trying, SameEnvelope DEF Judged, RightInstant
<1>7. Tried'
    <2>1. \A n \in 1..(index' - 1) : FailedInfo(n)'
        BY <1>0, SameFailures DEF ReceiptInv, Tried
    <2>2. pc' = "signed" => \E d \in Named(index)' : SignerVerdict(index, d)' = Ok
        BY <1>0, <1>1, <1>2, SameEnvelope, SameVerdicts
    <2>3. pc' = "others" => \A d \in Named(index)' \ others' : SignerVerdict(index, d)' # Ok
        BY <1>0, <1>1, <1>2, SameEnvelope, SameVerdicts
    <2> QED
        BY <1>0, <1>2, <1>3, <1>4, <2>1, <2>2, <2>3, SameEnvelope DEF ReceiptInv, Tried
<1> QED
    BY <1>0, <1>4, <1>5, <1>6, <1>7, StillRunning DEF ReceiptInv, Running

LEMMA SignerFailedInv == ReceiptInv /\ SignerFailed => ReceiptInv'
<1> SUFFICES ASSUME ReceiptInv, SignerFailed
             PROVE  ReceiptInv'
    OBVIOUS
<1>0. /\ UNCHANGED <<input, authenticated, at_millis>> /\ UNCHANGED <<verdict, status, host_fault, millis, clock_reads>>
      /\ UNCHANGED <<first, others, first_verdict, parsed, digested>> /\ pc = "others" /\ others = {}
      /\ pc' = "signer" /\ index' = index + 1
      /\ first_failure' = FirstOf(first_failure, first_verdict)
    BY DEF SignerFailed, lazy
<1>1. /\ first_verdict \in SignerReason
      /\ \A c \in Named(index) : SignerVerdict(index, c) # Ok
    BY <1>0 DEF ReceiptInv, Tried
<1>2. first_failure' \in SignerReason
    BY <1>0, <1>1 DEF FirstOf, ReceiptInv, Tried
<1>3. index \in Nat /\ index \in 1..Len(input.infos) /\ Len(input.infos) \in Nat
    BY <1>0, Trying DEF TypeOK, InputType
<1>4. TypeOK'
    BY <1>0, <1>2, <1>3, Trying, NoneIsNoVerdict DEF TypeOK
<1>5. Judged'
    BY <1>0, Trying, SameEnvelope DEF Judged, RightInstant
<1>6. Tried'
    <2>1. \A n \in 1..(index' - 1) : n \in 1..(index - 1) \/ n = index
        BY <1>0, <1>3
    <2>2. \A n \in 1..(index' - 1) : FailedInfo(n)'
        BY <1>0, <1>1, <2>1, SameFailures DEF ReceiptInv, Tried, FailedInfo
    <2> QED
        BY <1>0, <1>2, <2>2, SameEnvelope, SameVerdicts, NoneIsNoVerdict DEF ReceiptInv, Tried
<1> QED
    BY <1>0, <1>4, <1>5, <1>6, StillRunning DEF ReceiptInv, Running

LEMMA NoSignerPassedInv == ReceiptInv /\ NoSignerPassed => ReceiptInv'
<1> SUFFICES ASSUME ReceiptInv, NoSignerPassed
             PROVE  ReceiptInv'
    OBVIOUS
<1>0. /\ UNCHANGED <<input, authenticated, at_millis>> /\ UNCHANGED <<status, host_fault, millis, clock_reads>>
      /\ UNCHANGED <<index, first, others, first_verdict, first_failure, parsed, digested>>
      /\ pc = "signer" /\ index > Len(input.infos) /\ Conclude(first_failure)
    BY DEF NoSignerPassed, lazy
<1>1. /\ input.infos \in Seq(SignerInfoType) /\ Len(input.infos) \in Nat
      /\ DOMAIN input.infos = 1..Len(input.infos) /\ index \in Nat
    BY DEF ReceiptInv, TypeOK, InputType
<1>2. index > 1
    <2>1. input.infos # <<>>
        BY <1>0, NoneIsNoVerdict DEF ReceiptInv, Tried, OuterFailure, Reason
    <2> QED
        BY <1>0, <1>1, <2>1
<1>3. first_failure \in SignerReason
    BY <1>2 DEF ReceiptInv, Tried
<1>4. /\ verdict' = first_failure /\ pc' \in {"respond", "done"}
      /\ first_failure \notin {Ok, UnreadablePayload} /\ first_failure # None
    BY <1>0, <1>3, NoneIsNoVerdict DEF Conclude
<1>5. TypeOK'
    BY <1>0, <1>3, <1>4, NoneIsNoVerdict DEF ReceiptInv, TypeOK
<1>6. Judged'
    BY <1>0, <1>4, SameEnvelope DEF ReceiptInv, Judged, RightInstant
<1>7. Tried'
    BY <1>0, <1>4, SameVerdicts, SameFailures DEF ReceiptInv, Tried
<1>8. Concluded'
    <2>1. \A n \in DOMAIN input.infos : n \in 1..(index - 1)
        BY <1>0, <1>1
    <2>2. NonePasses
        BY <2>1 DEF NonePasses, ReceiptInv, Tried, FailedInfo, Readable, Named
    <2> QED
        BY <1>0, <1>4, <2>2, SameFailures DEF Concluded
<1>9. Answered'
    BY <1>0, <1>3, Concludes DEF Running
<1> QED
    BY <1>5, <1>6, <1>7, <1>8, <1>9 DEF ReceiptInv

LEMMA DecodeInv == ReceiptInv /\ decode_signed_payload => ReceiptInv'
<1> SUFFICES ASSUME ReceiptInv, decode_signed_payload
             PROVE  ReceiptInv'
    OBVIOUS
<1>0. /\ UNCHANGED <<input, authenticated, at_millis>> /\ UNCHANGED <<status, host_fault, millis, clock_reads>>
      /\ UNCHANGED <<index, first, others, first_verdict, first_failure, parsed, digested>>
      /\ pc = "signed"
    BY DEF decode_signed_payload, lazy
<1>1. PICK reason \in {Ok, UnreadablePayload} : Conclude(reason)
    BY DEF decode_signed_payload
<1>2. verdict' = reason /\ pc' \in {"respond", "done"} /\ reason # None
    BY <1>1, NoneIsNoVerdict DEF Conclude, Reason
<1>3. TypeOK'
    BY <1>0, <1>2 DEF ReceiptInv, TypeOK, Reason
<1>4. Judged'
    BY <1>0, <1>2, SameEnvelope DEF ReceiptInv, Judged, RightInstant
<1>5. Tried'
    BY <1>0, <1>2, SameVerdicts, SameFailures DEF ReceiptInv, Tried
<1>6. Concluded'
    <2>1. SomePassed
        <3>1. index \in DOMAIN input.infos
            BY <1>0 DEF ReceiptInv, TypeOK, InputType, Tried
        <3> QED
            BY <1>0, <3>1 DEF ReceiptInv, Tried, SomePassed
    <2> QED
        BY <1>0, <1>2, <2>1, SameFailures, NoneIsNoVerdict DEF Concluded
<1>7. Answered'
    BY <1>0, <1>1, Concludes DEF Running
<1> QED
    BY <1>3, <1>4, <1>5, <1>6, <1>7 DEF ReceiptInv

LEMMA PanicInv == ReceiptInv /\ Panic => ReceiptInv'
<1> SUFFICES ASSUME ReceiptInv, Panic
             PROVE  ReceiptInv'
    OBVIOUS
<1>0. /\ UNCHANGED <<input, authenticated, at_millis>> /\ UNCHANGED <<millis, clock_reads>>
      /\ UNCHANGED <<index, first, others, first_verdict, first_failure, parsed, digested>>
      /\ pc # "done" /\ pc' = "done" /\ host_fault' = "panic" /\ verdict' = InternalError
      /\ status' = IF input.entry = "receipt" THEN None ELSE 21009
    BY DEF Panic, lazy
<1>1. TypeOK'
    BY <1>0 DEF ReceiptInv, TypeOK, Reason, AppleStatus
<1>2. Judged'
    BY <1>0, SameEnvelope DEF ReceiptInv, Judged, RightInstant, InternalError, Ok, UnreadablePayload
<1>3. Tried'
    BY <1>0, SameVerdicts, SameFailures DEF ReceiptInv, Tried
<1>4. Concluded'
    BY <1>0, NoneIsNoVerdict DEF Concluded, Reason, InternalError, Ok, UnreadablePayload
<1>5. Answered'
    BY <1>0, NoneIsNoVerdict DEF ReceiptInv, Answered
<1> QED
    BY <1>1, <1>2, <1>3, <1>4, <1>5 DEF ReceiptInv

\* The endpoint answers 21002 and 21003 for a signer's failure or an input
\* that is too large only.
LEMMA StatusIs ==
    ASSUME NEW reason \in Reason
    PROVE  /\ StatusOf(reason) \in {21002, 21003, 21009}
           /\ StatusOf(reason) \in {21002, 21003} => reason \in SignerReason \cup {TooLarge}
           /\ reason = InternalError => StatusOf(reason) = 21009
BY DEF StatusOf, Reason, SignerReason, Ok, Malformed, TooLarge, InvalidSignature, UntrustedChain,
       InvalidCertificate, InvalidCertificatePurpose, UnreadablePayload, InternalError

LEMMA RespondInv == ReceiptInv /\ Respond => ReceiptInv'
<1> SUFFICES ASSUME ReceiptInv, Respond
             PROVE  ReceiptInv'
    OBVIOUS
<1>0. /\ UNCHANGED <<input, authenticated, at_millis>> /\ UNCHANGED <<verdict, parsed, digested>>
      /\ UNCHANGED <<index, first, others, first_verdict, first_failure>>
      /\ pc = "respond" /\ pc' = "done"
    BY DEF Respond, lazy
<1>1. /\ TypeOK /\ input.entry # "receipt" /\ verdict # None /\ verdict \in Reason \cup {Ok}
      /\ RoutedStatus \in {0, 21007, 21008, 21009} /\ ClockReadings \subseteq Int
      /\ millis \in ClockReadings \cup {None} /\ host_fault \in {None, "clock", "panic"}
      /\ host_fault # None => verdict = InternalError
      /\ clock_reads \in {0, 1} /\ (verdict # InternalError /\ millis = None => clock_reads = 0)
    BY <1>0, ReceiptAssumption DEF ReceiptInv, TypeOK, Concluded, Answered, RoutedStatus
<1>2. Ok # InternalError
    BY NoneIsNoVerdict DEF Reason
<1> DEFINE StatusFits == /\ status' \in AppleStatus
                         /\ status' = 0 => verdict = Ok /\ RoutedStatus = 0 /\ millis' \in Renderable
                         /\ status' \in {21002, 21003} =>
                              verdict \in SignerReason \cup {TooLarge} /\ host_fault' = None
           HostFits == /\ millis' \in ClockReadings \cup {None} /\ clock_reads' \in {0, 1}
                       /\ host_fault' \in {None, "clock", "panic"}
                       /\ millis' = millis \/ (verdict = Ok /\ millis = None)
\* The clock read for the first time leaves the chain instant alone, which was
\* the signed date then.
<1>3. ASSUME StatusFits, HostFits
      PROVE  ReceiptInv'
    <2>1. TypeOK'
        BY <1>0, <1>1, <1>3 DEF TypeOK
    <2>2. Judged'
        <3>1. CASE millis' = millis
            BY <1>0, <3>1, SameEnvelope DEF ReceiptInv, Judged, RightInstant
        <3>2. CASE verdict = Ok /\ millis = None
            BY <1>0, <3>2, SameEnvelope, NoneIsNoVerdict DEF ReceiptInv, Judged, RightInstant
        <3> QED
            BY <1>3, <3>1, <3>2
    <2>3. Tried'
        BY <1>0, SameVerdicts, SameFailures DEF ReceiptInv, Tried
    <2>4. Concluded'
        BY <1>0, SameFailures DEF ReceiptInv, Concluded
    <2>5. Answered'
        BY <1>0, <1>1, <1>3, SameEnvelope DEF Answered
    <2> QED
        BY <2>1, <2>2, <2>3, <2>4, <2>5 DEF ReceiptInv
<1>4. CASE /\ verdict # Ok \/ RoutedStatus # 0
           /\ status' = IF verdict # Ok THEN StatusOf(verdict) ELSE RoutedStatus
           /\ UNCHANGED <<millis, clock_reads, host_fault>>
    <2>1. StatusFits
        <3>1. CASE verdict # Ok
            BY <1>1, <1>4, <3>1, StatusIs DEF AppleStatus
        <3>2. CASE verdict = Ok
            BY <1>1, <1>2, <1>4, <3>2 DEF AppleStatus
        <3> QED
            BY <3>1, <3>2
    <2>2. HostFits
        <3>1. millis' = millis /\ clock_reads' = clock_reads /\ host_fault' = host_fault
            BY <1>4
        <3> QED
            BY <1>1, <3>1
    <2> HIDE DEF StatusFits, HostFits
    <2> QED
        BY <1>3, <2>1, <2>2
<1>5. ASSUME verdict = Ok, RoutedStatus = 0, NEW now \in ClockReadings, Now(now),
             status' = IF now \in Renderable THEN 0 ELSE 21009
      PROVE  ReceiptInv'
    <2>1. /\ millis' = now /\ host_fault' = host_fault /\ clock_reads' \in {0, 1}
          /\ millis' = millis \/ millis = None
        BY <1>1, <1>2, <1>5 DEF Now
    <2>2. StatusFits
        BY <1>1, <1>2, <1>5, <2>1 DEF AppleStatus
    <2>3. HostFits
        BY <1>1, <1>5, <2>1
    <2> HIDE DEF StatusFits, HostFits
    <2> QED
        BY <1>3, <2>2, <2>3
<1>6. CASE verdict = Ok /\ ClockPanics /\ status' = 21009
    <2>1. millis' = millis /\ host_fault' = "clock" /\ clock_reads' \in {0, 1}
        BY <1>1, <1>2, <1>6 DEF ClockPanics
    <2>2. StatusFits
        BY <1>6 DEF AppleStatus
    <2>3. HostFits
        BY <1>1, <1>6, <2>1
    <2> HIDE DEF StatusFits, HostFits
    <2> QED
        BY <1>3, <2>2, <2>3
<1> QED
    BY <1>4, <1>5, <1>6 DEF Respond

LEMMA StutterInv == ReceiptInv /\ UNCHANGED vars => ReceiptInv'
<1> SUFFICES ASSUME ReceiptInv, UNCHANGED vars
             PROVE  ReceiptInv'
    OBVIOUS
<1>0. /\ UNCHANGED <<input, authenticated, at_millis>>
      /\ UNCHANGED <<pc, index, first, others, first_verdict, first_failure, parsed, digested>>
      /\ UNCHANGED <<millis, verdict, status, host_fault, clock_reads>>
    BY DEF vars
<1>1. TypeOK'
    BY <1>0 DEF ReceiptInv, TypeOK
<1>2. Judged'
    BY <1>0, SameEnvelope DEF ReceiptInv, Judged, RightInstant
<1>3. Tried'
    BY <1>0, SameEnvelope, SameVerdicts, SameFailures DEF ReceiptInv, Tried
<1>4. Concluded'
    BY <1>0, SameFailures DEF ReceiptInv, Concluded
<1>5. Answered'
    BY <1>0, SameEnvelope DEF ReceiptInv, Answered
<1> QED
    BY <1>1, <1>2, <1>3, <1>4, <1>5 DEF ReceiptInv

-----------------------------------------------------------------------------
(* The theorems. *)

\* Every call keeps the invariant, whatever the envelope, the clock and the
\* panics.
THEOREM ReceiptInvariant == Spec => []ReceiptInv
<1>1. ReceiptInv /\ [Next]_vars => ReceiptInv'
    BY BeginInv, SignerInv, ChainInstantInv, VerifyFirstInv, VerifyOtherInv, SignerFailedInv,
       NoSignerPassedInv, DecodeInv, PanicInv, RespondInv, StutterInv DEF Next, Returned
<1> QED
    BY <1>1, ReceiptInitInv, PTL DEF Spec

\* A certificate that passes as the signer is genuine.
LEMMA PassedIsGenuine == ReceiptInv /\ SomePassed /\ at_millis \in Int => SomeGenuine
<1> SUFFICES ASSUME ReceiptInv, SomePassed, at_millis \in Int
             PROVE  SomeGenuine
    OBVIOUS
<1>1. PICK n \in DOMAIN input.infos : \E c \in Named(n) : SignerVerdict(n, c) = Ok
    BY DEF SomePassed
<1>2. PICK c \in Named(n) : SignerVerdict(n, c) = Ok
    BY <1>1
<1>3. c \in Bag /\ names_signer(input.infos[n], c)
    BY DEF Named, signer_certificates
<1>4. ChainVerdict(c) = Ok /\ verify_cms_signature(input.infos[n], c) = Ok
    BY <1>2, Zenon DEF SignerVerdict
<1>5. input.infos[n].contentType /\ input.infos[n].signedWith = X509[c].key
    BY <1>4 DEF verify_cms_signature, Ok, InvalidSignature
<1>6. TypeOK /\ at_millis \in Int /\ authenticated = authenticated_top_down(input.bag)
    BY NoneIsNoVerdict DEF ReceiptInv, Judged
<1>7. Genuine(input.infos[n], c, at_millis)
    BY <1>3, <1>4, <1>5, <1>6, PassingChainIsGenuine DEF Genuine
<1> QED
    BY <1>3, <1>7 DEF SomeGenuine

\* verify_receipt answers with the payload (or UNREADABLE_PAYLOAD) only when
\* some SignerInfo is genuine at the instant receipt.rs names, and no key
\* checks the content before its own chain has passed.
THEOREM AcceptedMeansGenuineCorrect == Spec => []AcceptedMeansGenuine
<1>1. ReceiptInv => AcceptedMeansGenuine
    <2> SUFFICES ASSUME ReceiptInv
                 PROVE  AcceptedMeansGenuine
        OBVIOUS
    <2>1. ASSUME verdict \in {Ok, UnreadablePayload}
          PROVE  at_millis = RightInstant /\ SomeGenuine
        <3>1. at_millis = RightInstant /\ at_millis \in Int /\ authenticated = authenticated_top_down(input.bag)
            BY <2>1 DEF ReceiptInv, Judged
        <3>2. SomePassed
            BY <2>1 DEF ReceiptInv, Concluded
        <3> QED
            BY <3>1, <3>2, PassedIsGenuine
    <2> QED
        BY <2>1 DEF ReceiptInv, Tried, AcceptedMeansGenuine
<1> QED
    BY <1>1, ReceiptInvariant, PTL

\* receipt.rs, "one passing is enough": a refusal of the signers means that no
\* certificate any SignerInfo names passes.
THEOREM OnePassingIsEnoughCorrect == Spec => []OnePassingIsEnough
<1>1. ReceiptInv => OnePassingIsEnough
    BY DEF ReceiptInv, Concluded, OnePassingIsEnough
<1> QED
    BY <1>1, ReceiptInvariant, PTL

\* verify_receipt_endpoint's statuses: 0 for a genuine receipt of its own
\* environment only, "deny" for neither a host's fault nor a receipt whose
\* signer passes, and one reading of the clock.
THEOREM StatusTellsTheVerdictCorrect == Spec => []StatusTellsTheVerdict
<1>1. ReceiptInv => StatusTellsTheVerdict
    <2> SUFFICES ASSUME ReceiptInv
                 PROVE  StatusTellsTheVerdict
        OBVIOUS
    <2>1. ASSUME status = 0
          PROVE  /\ verdict = Ok /\ SomeGenuine
                 /\ input.entry = "Production" <=> input.payload.environment = "Production"
                 /\ ~input.payload.unknown17
                 /\ millis \in Renderable
        <3>1. /\ verdict = Ok /\ RoutedStatus = 0 /\ millis \in Renderable
              /\ input.entry \in {"Production", "Sandbox"}
            BY <2>1, NoneIsNoVerdict DEF ReceiptInv, Answered, TypeOK, InputType, EntryPoints
        <3>2. SomePassed
            BY <3>1 DEF ReceiptInv, Concluded
        <3>3. SomeGenuine
            BY <3>1, <3>2, PassedIsGenuine DEF ReceiptInv, Judged
        <3>4. /\ input.entry = "Production" <=> input.payload.environment = "Production"
              /\ ~input.payload.unknown17
            BY <3>1 DEF RoutedStatus
        <3> QED
            BY <3>1, <3>3, <3>4
    <2>2. ASSUME status \in {21002, 21003}
          PROVE  host_fault = None /\ (authenticated # None => NonePasses)
        BY <2>2, NoneIsNoVerdict DEF ReceiptInv, Answered, Concluded, Reason, SignerReason,
             Ok, Malformed, TooLarge, InvalidSignature, UntrustedChain, InvalidCertificate,
             InvalidCertificatePurpose, UnreadablePayload, InternalError
    <2>3. clock_reads <= 1
        BY DEF ReceiptInv, Answered
    <2> QED
        BY <2>1, <2>2, <2>3 DEF StatusTellsTheVerdict
<1> QED
    BY <1>1, ReceiptInvariant, PTL

-----------------------------------------------------------------------------
(***************************************************************************)
(* What a verdict on a JWS means, for every set of certificates, every     *)
(* pinned roots in every order, every x5c and every answer of the clock.   *)
(*                                                                         *)
(* Accepting is sound because a path without a problem is one whose links  *)
(* all hold.  It is complete for an ordinary chain because the run over a  *)
(* root that issued the intermediate builds that chain and passes, and     *)
(* whichever run is reported instead passed as well, which leaves it no    *)
(* other chain between the leaf and a root.                                *)
(***************************************************************************)

-----------------------------------------------------------------------------
(* validate_pair *)

\* An accepted pair: every link holds and every window is open at t.
PairHolds(lower, upper, t) ==
    /\ \A c \in {lower, upper} :
         /\ X509[c].usable /\ ~X509[c].critical
         /\ t <= X509[c].notAfter * 1000
         /\ c \notin AnchorSet => X509[c].notBefore * 1000 <= t
    /\ upper \notin AnchorSet => X509[upper].ca
    /\ issued_by(lower, upper)
    /\ \E a \in AnchorSet : issued_by(upper, a)

LEMMA PairIsSound ==
    ASSUME NEW lower \in Certificate, NEW upper \in Certificate, NEW t \in Int,
           validate_pair(lower, upper, t) = Ok
    PROVE  PairHolds(lower, upper, t)
<1> DEFINE o == checked_path(lower, <<upper>>, t)
           chain == o.chain
<1>1. /\ \E a \in AnchorSet : issued_by(upper, a)
      /\ X509[upper].usable /\ X509[lower].usable /\ issued_by(lower, upper)
      /\ PairVerdict(o, lower, upper) = Ok
    BY DEF validate_pair, Ok, UntrustedChain, InvalidCertificate
<1>2. <<upper>> \in Seq(Certificate) /\ ElementsOf(<<upper>>) = {upper}
    BY DEF ElementsOf
<1> HIDE DEF o
<1>3. o.problems = {} /\ o.anchored /\ Len(chain) = 3 /\ chain[1] = lower /\ chain[2] = upper
    BY <1>1 DEF PairVerdict, Ok, UntrustedChain, InvalidCertificate
<1>4. AcceptedChain(chain, lower, <<upper>>, t)
    BY <1>2, <1>3, AcceptedPath DEF o
<1>5. 1 \in 1..Len(chain) /\ 2 \in 1..Len(chain) /\ 1 < Len(chain) /\ 2 < Len(chain) /\ 2 > 1
    BY <1>3
<1>6. /\ ~X509[lower].critical /\ ~X509[upper].critical
      /\ t <= X509[lower].notAfter * 1000 /\ t <= X509[upper].notAfter * 1000
      /\ lower \notin AnchorSet => X509[lower].notBefore * 1000 <= t
      /\ upper \notin AnchorSet => X509[upper].notBefore * 1000 <= t /\ X509[upper].ca
    BY <1>3, <1>4, <1>5 DEF AcceptedChain
<1> QED
    BY <1>1, <1>6 DEF PairHolds

\* The intermediate that signed the leaf is linked.
LEMMA LinkedPair ==
    ASSUME NEW lower \in Certificate, NEW upper \in Certificate, lower # upper, signed_by(lower, upper)
    PROVE  linked_above(lower, <<upper>>) = <<upper>>
<1> DEFINE u == <<upper>>
           base == [linked |-> {}, frontier |-> {lower}]
           After(before) == LET next == {c \in ElementsOf(u) \ before.linked :
                                           \E below \in before.frontier : below # c /\ signed_by(below, c)}
                            IN  [linked |-> before.linked \cup next, frontier |-> next]
           Rec(r) == r = [n \in 0..Len(u) |-> IF n = 0 THEN base ELSE After(r[n - 1])]
           rounds == CHOOSE r : Rec(r)
           w == [n \in 0..Len(u) |-> IF n = 0 THEN base ELSE After(base)]
<1>1. Len(u) = 1 /\ ElementsOf(u) = {upper} /\ u[1] = upper
    BY DEF ElementsOf
<1>2. linked_above(lower, u) = Only(u, rounds[Len(u)].linked)
    BY DEF linked_above
<1>3. After(base).linked = {upper}
    BY <1>1
<1> HIDE DEF base, After, u
<1>4. Rec(w)
    <2>1. 0 \in 0..Len(u) /\ \A n \in 0..Len(u) : n # 0 => n - 1 = 0
        BY <1>1
    <2>2. w[0] = base
        BY <2>1, Zenon
    <2>3. \A n \in 0..Len(u) : w[n] = IF n = 0 THEN base ELSE After(w[n - 1])
        BY <2>1, <2>2, Zenon
    <2>4. w = [n \in 0..Len(u) |-> w[n]]
        BY Zenon
    <2> HIDE DEF w
    <2>5. [n \in 0..Len(u) |-> w[n]] = [n \in 0..Len(u) |-> IF n = 0 THEN base ELSE After(w[n - 1])]
        BY <2>3, Zenon
    <2> QED
        BY <2>4, <2>5, Zenon
<1>5. Rec(rounds)
    BY <1>4
<1> HIDE DEF rounds
<1>6. rounds[Len(u)].linked = {upper}
    <2>1. 0 \in 0..Len(u) /\ Len(u) \in 0..Len(u) /\ Len(u) # 0 /\ Len(u) - 1 = 0
        BY <1>1
    <2>2. \A n \in 0..Len(u) : rounds[n] = IF n = 0 THEN base ELSE After(rounds[n - 1])
        BY <1>5, Zenon
    <2>3. rounds[0] = base
        BY <2>1, <2>2, Zenon
    <2>4. rounds[Len(u)] = After(rounds[Len(u) - 1])
        BY <2>1, <2>2, Zenon
    <2> QED
        BY <1>3, <2>1, <2>3, <2>4, Zenon
<1>7. linked_above(lower, u) = Only(u, {upper})
    BY <1>2, <1>6
<1>8. u \in Seq(Certificate)
    BY DEF u
<1>9. PICK kept : /\ Only(u, {upper}) = kept[Len(u)]
                  /\ kept[0] = <<>>
                  /\ \A n \in 1..Len(u) : kept[n] = kept[n - 1] \o Kept(u, {upper}, n)
    BY <1>8, OnlyUnfolds
<1>10. kept[1] = <<>> \o <<upper>>
    <2>1. 1 \in 1..Len(u) /\ 1 - 1 = 0
        BY <1>1
    <2>2. kept[1] = kept[1 - 1] \o Kept(u, {upper}, 1)
        BY <1>9, <2>1, Zenon
    <2>3. Kept(u, {upper}, 1) = <<upper>>
        BY <1>1 DEF Kept
    <2> QED
        BY <1>9, <2>1, <2>2, <2>3
<1>11. linked_above(lower, u) = <<upper>>
    BY <1>1, <1>7, <1>9, <1>10
<1> QED
    BY <1>11 DEF u

\* What OrdinaryChain says of the two certificates, with the root it names.
Ordinary(lower, upper, a) ==
    /\ lower # upper
    /\ {lower, upper} \cap AnchorSet = {}
    /\ ~SelfIssued(lower) /\ ~SelfIssued(upper)
    /\ \A b \in AnchorSet : ~signed_by(lower, b)
    /\ a \in AnchorSet
    /\ issued_by(upper, a) /\ ~LikelyIssued(a, lower) /\ ~X509[a].critical

\* Over the root that issued the intermediate, X509_verify_cert builds the
\* chain itself: the store has no likely issuer of the leaf, and the
\* intermediate is the only one offered.
LEMMA ChainOfThree ==
    ASSUME NEW lower \in Certificate, NEW upper \in Certificate, NEW a, NEW second,
           Ordinary(lower, upper, a), issued_by(lower, upper)
    PROVE  build_chain(lower, <<upper>>, <<a>>, second) = <<lower, upper, a>>
<1> DEFINE u == <<upper>>
           store == <<a>>
<1>1. /\ a \in AnchorSet /\ a \in Certificate /\ lower \notin AnchorSet /\ upper \notin AnchorSet
      /\ ~SelfIssued(lower) /\ ~SelfIssued(upper) /\ lower # upper
      /\ LikelyIssued(upper, lower) /\ LikelyIssued(a, upper) /\ ~LikelyIssued(a, lower)
    BY AnchorsAreCertificates DEF Ordinary, issued_by, may_have_issued
<1>2. u \in Seq(Certificate) /\ store \in Seq(Certificate) /\ Len(u) + 1 = 2
    BY <1>1
<1>3. /\ ElementsOf(u) = {upper} /\ ElementsOf(store) = {a}
      /\ ElementsOf(<<lower>>) = {lower} /\ ElementsOf(<<lower, upper>>) = {lower, upper}
    <2>1. \A x : ElementsOf(<<x>>) = {x}
        BY DEF ElementsOf
    <2>2. ElementsOf(<<lower, upper>>) = {lower, upper}
        <3> DEFINE p == <<lower, upper>>
        <3>1. DOMAIN p = {1, 2} /\ p[1] = lower /\ p[2] = upper
            OBVIOUS
        <3> HIDE DEF p
        <3>2. ElementsOf(p) = {lower, upper}
            BY <3>1 DEF ElementsOf
        <3> QED
            BY <3>2 DEF p
    <2> QED
        BY <2>1, <2>2
<1> HIDE DEF u, store
<1>4. PICK chain : /\ build_chain(lower, u, store, second) = chain[Len(u) + 1]
                   /\ chain[0] = <<lower>>
                   /\ \A n \in 1..(Len(u) + 1) : chain[n] = Grown(chain[n - 1], u, store, second)
    <2>1. u \in Seq(Certificate) /\ store \in Seq(Certificate)
        BY <1>2
    <2> QED
        BY <2>1, ChainUnfolds
<1>5. chain[1] = Grown(<<lower>>, u, store, second) /\ chain[2] = Grown(chain[1], u, store, second)
    <2>1. 1 \in 1..(Len(u) + 1) /\ 2 \in 1..(Len(u) + 1) /\ 1 - 1 = 0 /\ 2 - 1 = 1
        BY <1>2
    <2> QED
        BY <1>4, <2>1
<1>6. Grown(<<lower>>, u, store, second) = <<lower, upper>>
    <2>1. Likely(lower, store, <<lower>>) = {}
        BY <1>1, <1>3 DEF Likely
    <2>2. find_issuer(lower, store, <<lower>>, second) = <<>>
        BY <1>2, <2>1, FoundIssuer
    <2>3. Likely(lower, u, <<lower>>) = {upper}
        BY <1>1, <1>3 DEF Likely
    <2>4. find_issuer(lower, u, <<lower>>, second) = <<upper>>
        BY <1>2, <2>3, FoundTheOnlyIssuer
    <2>5. lower \notin ElementsOf(store) /\ <<lower>>[Len(<<lower>>)] = lower
        BY <1>1, <1>3
    <2>6. Grown(<<lower>>, u, store, second) = <<lower>> \o <<upper>>
        BY <1>1, <2>2, <2>4, <2>5 DEF Grown, Extended, FirstFound
    <2>7. <<lower>> \o <<upper>> = <<lower, upper>>
        <3> DEFINE l == <<lower>> \o <<upper>>
                   r == <<lower, upper>>
        <3>1. l \in Seq(Certificate) /\ Len(l) = 2 /\ l[1] = lower /\ l[2] = upper
            OBVIOUS
        <3>2. r \in Seq(Certificate) /\ Len(r) = 2 /\ r[1] = lower /\ r[2] = upper
            OBVIOUS
        <3> HIDE DEF l, r
        <3>3. \A n \in 1..2 : l[n] = r[n]
            <4>1. \A n \in 1..2 : n = 1 \/ n = 2
                OBVIOUS
            <4> QED
                BY <3>1, <3>2, <4>1
        <3>4. l = r
            BY <3>1, <3>2, <3>3, SeqEqual
        <3> QED
            BY <3>4 DEF l, r
    <2> QED
        BY <2>6, <2>7
<1>7. Grown(<<lower, upper>>, u, store, second) = <<lower, upper, a>>
    <2>1. Likely(upper, store, <<lower, upper>>) = {a}
        BY <1>1, <1>3 DEF Likely
    <2>2. find_issuer(upper, store, <<lower, upper>>, second) = <<a>>
        BY <1>1, <1>2, <2>1, FoundTheOnlyIssuer
    <2>3. upper \notin ElementsOf(store) /\ <<lower, upper>>[Len(<<lower, upper>>)] = upper
        BY <1>1, <1>3
    <2>4. <<a>> # <<>>
        OBVIOUS
    <2>5. Grown(<<lower, upper>>, u, store, second) = <<lower, upper>> \o <<a>>
        BY <1>1, <2>2, <2>3, <2>4 DEF Grown, Extended, FirstFound
    <2> QED
        BY <2>5
<1> QED
    BY <1>2, <1>4, <1>5, <1>6, <1>7 DEF u, store

\* That run passes.
LEMMA RunOverTheRootPasses ==
    ASSUME NEW lower \in Certificate, NEW upper \in Certificate, NEW a, NEW t \in Int,
           Ordinary(lower, upper, a), PairHolds(lower, upper, t)
    PROVE  passed(run_with(lower, <<upper>>, <<a>>, second_of(t)))
<1> DEFINE chain == <<lower, upper, a>>
           second == second_of(t)
<1>1. build_chain(lower, <<upper>>, <<a>>, second) = chain
    BY ChainOfThree DEF PairHolds
<1>2. a \in AnchorSet /\ a \in Certificate /\ lower \notin AnchorSet /\ upper \notin AnchorSet
    BY AnchorsAreCertificates DEF Ordinary
<1>3. second \in Int
    BY Rounding
<1>4. ValidAt(lower, second) /\ ValidAt(upper, second)
    BY <1>2, Window DEF PairHolds, ValidAt
<1>5. /\ signed_by(lower, upper) /\ signed_by(upper, a) /\ X509[upper].certSign
      /\ X509[upper].ca /\ ~X509[lower].critical /\ ~X509[upper].critical /\ ~X509[a].critical
    BY <1>2 DEF Ordinary, PairHolds, issued_by, may_have_issued, LikelyIssued, signed_by
<1> HIDE DEF second
<1>6. Sound(chain, <<a>>, second)
    <2>1. chain[Len(chain)] \in ElementsOf(<<a>>)
        BY DEF ElementsOf
    <2>2. Len(chain) = 3 /\ chain[1] = lower /\ chain[2] = upper /\ chain[3] = a
        OBVIOUS
    <2> HIDE DEF chain
    <2>3. ASSUME NEW n \in 1..Len(chain)
          PROVE  /\ ~X509[chain[n]].critical
                 /\ n < Len(chain) => signed_by(chain[n], chain[n + 1])
                 /\ chain[n] \notin AnchorSet =>
                      /\ ValidAt(chain[n], second)
                      /\ n > 1 => X509[chain[n]].ca /\ X509[chain[n]].certSign
        <3>1. n = 1 \/ n = 2 \/ n = 3
            BY <2>2
        <3>2. CASE n = 1
            BY <1>4, <1>5, <2>2, <3>2
        <3>3. CASE n = 2
            BY <1>4, <1>5, <2>2, <3>3
        <3>4. CASE n = 3
            BY <1>2, <1>5, <2>2, <3>4
        <3> QED
            BY <3>1, <3>2, <3>3, <3>4
    <2> QED
        BY <2>1, <2>3 DEF Sound
<1>7. chain \in Seq(Certificate) /\ Len(chain) >= 1 /\ chain[Len(chain)] = a
    BY <1>2
<1> HIDE DEF chain
<1>8. recorded_problems(chain, <<a>>, second) = {}
    BY <1>3, <1>6, <1>7, NoProblemMeansSound
<1> QED
    BY <1>1, <1>2, <1>7, <1>8 DEF run_with, Outcome, passed, second

\* A chain that ends at a root and holds only the two certificates below it is
\* leaf, intermediate, root when no root signed the leaf.
LEMMA OnlyOneChain ==
    ASSUME NEW lower \in Certificate, NEW upper \in Certificate, NEW a, Ordinary(lower, upper, a),
           NEW store, ElementsOf(store) \subseteq AnchorSet, NEW second,
           NEW chain \in Built(lower, <<upper>>, store), Sound(chain, store, second)
    PROVE  Len(chain) = 3 /\ chain[1] = lower /\ chain[2] = upper
<1>1. ElementsOf(<<upper>>) = {upper}
    BY DEF ElementsOf
<1>2. /\ chain \in Seq(Certificate) /\ Len(chain) \in Nat /\ Len(chain) >= 1 /\ chain[1] = lower
      /\ \A i, j \in 1..Len(chain) : chain[i] = chain[j] => i = j
      /\ \A n \in 1..Len(chain) : n < Len(chain) => chain[n] \in {lower, upper}
    BY <1>1 DEF Built, Distinct
<1>3. /\ chain[Len(chain)] \in AnchorSet
      /\ \A n \in 1..Len(chain) : n < Len(chain) => signed_by(chain[n], chain[n + 1])
    BY DEF Sound
<1>4. lower \notin AnchorSet /\ \A b \in AnchorSet : ~signed_by(lower, b)
    BY DEF Ordinary
<1>5. Len(chain) # 1
    BY <1>2, <1>3, <1>4
<1>6. Len(chain) # 2
    <2> SUFFICES ASSUME Len(chain) = 2 PROVE FALSE
        OBVIOUS
    <2>1. 1 \in 1..Len(chain) /\ 1 < Len(chain) /\ 1 + 1 = Len(chain)
        OBVIOUS
    <2>2. signed_by(chain[1], chain[Len(chain)])
        BY <1>3, <2>1
    <2> QED
        BY <1>2, <1>3, <1>4, <2>2
<1>7. Len(chain) \in Nat /\ Len(chain) >= 3
    <2> DEFINE L == Len(chain)
    <2>1. L \in Nat /\ L >= 1 /\ L # 1 /\ L # 2
        BY <1>2, <1>5, <1>6
    <2> HIDE DEF L
    <2>2. L \in Nat /\ L >= 3
        BY <2>1
    <2> QED
        BY <2>2 DEF L
<1>8. chain[2] = upper
    BY <1>2, <1>7
<1>9. ~(Len(chain) > 3)
    <2> SUFFICES ASSUME Len(chain) > 3 PROVE FALSE
        OBVIOUS
    <2>1. chain[3] \in {lower, upper} /\ 3 \in 1..Len(chain) /\ 2 \in 1..Len(chain) /\ 1 \in 1..Len(chain)
        BY <1>2
    <2> QED
        BY <1>2, <1>8, <2>1
<1>10. Len(chain) = 3
    BY <1>7, <1>9
<1> QED
    BY <1>2, <1>8, <1>10

\* An ordinary chain that holds is accepted, whichever run is reported.
LEMMA PairIsComplete ==
    ASSUME NEW lower \in Certificate, NEW upper \in Certificate, NEW a, NEW t \in Int,
           Ordinary(lower, upper, a), PairHolds(lower, upper, t)
    PROVE  validate_pair(lower, upper, t) = Ok
<1> DEFINE o == checked_path(lower, <<upper>>, t)
           second == second_of(t)
<1>1. /\ \E b \in AnchorSet : issued_by(upper, b)
      /\ X509[upper].usable /\ X509[lower].usable /\ issued_by(lower, upper)
      /\ \A c \in {lower, upper} : t <= X509[c].notAfter * 1000
    BY DEF PairHolds
<1>2. signed_by(lower, upper) /\ lower # upper
    BY <1>1 DEF issued_by, may_have_issued, LikelyIssued, signed_by, Ordinary
<1>3. linked_above(lower, <<upper>>) = <<upper>>
    BY <1>2, LinkedPair
<1>4. <<upper>> \in Seq(Certificate)
    OBVIOUS
<1>5. \E b \in Leads(lower, <<upper>>) : passed(run_with(lower, <<upper>>, <<b>>, second))
    <2>1. upper \in {lower} \cup ElementsOf(<<upper>>)
        BY DEF ElementsOf
    <2>2. a \in Leads(lower, <<upper>>)
        BY <2>1 DEF Leads, Ordinary, issued_by
    <2>3. passed(run_with(lower, <<upper>>, <<a>>, second))
        BY RunOverTheRootPasses
    <2> QED
        BY <2>2, <2>3
<1>6. PICK store \in Seq(Certificate) :
        /\ ElementsOf(store) \subseteq AnchorSet
        /\ o.chain \in Built(lower, <<upper>>, store)
        /\ o.anchored /\ o.problems = {} <=>
             /\ Sound(o.chain, store, second)
             /\ \A n \in 1..(Len(o.chain) - 1) : rounded_up(t) <= X509[o.chain[n]].notAfter
        /\ Sound(o.chain, store, second)
    <2>1. \E store \in Seq(Certificate) :
            /\ ElementsOf(store) \subseteq AnchorSet
            /\ o.chain \in Built(lower, <<upper>>, store)
            /\ o.anchored /\ o.problems = {} <=>
                 /\ Sound(o.chain, store, second)
                 /\ \A n \in 1..(Len(o.chain) - 1) : rounded_up(t) <= X509[o.chain[n]].notAfter
            /\ (\E b \in Leads(lower, linked_above(lower, <<upper>>)) :
                  passed(run_with(lower, linked_above(lower, <<upper>>), <<b>>, second)))
                 => Sound(o.chain, store, second)
        BY <1>3, <1>4, CheckedIs
    <2> HIDE DEF o, second
    <2> QED
        BY <1>3, <1>5, <2>1
<1> DEFINE chain == o.chain
<1>7. Len(chain) = 3 /\ chain[1] = lower /\ chain[2] = upper
    <2> HIDE DEF o, second
    <2> QED
        BY <1>6, OnlyOneChain
<1>8. \A n \in 1..(Len(chain) - 1) : rounded_up(t) <= X509[chain[n]].notAfter
    <2>1. rounded_up(t) <= X509[lower].notAfter /\ rounded_up(t) <= X509[upper].notAfter
        BY <1>1, Window
    <2> HIDE DEF chain
    <2>2. \A n \in 1..(Len(chain) - 1) : n = 1 \/ n = 2
        BY <1>7
    <2> QED
        BY <1>7, <2>1, <2>2
<1> HIDE DEF o, second
<1>9. o.anchored /\ o.problems = {}
    BY <1>6, <1>8
<1>10. PairVerdict(o, lower, upper) = Ok
    BY <1>7, <1>9 DEF PairVerdict, KindsOf
<1> QED
    BY <1>1, <1>10 DEF validate_pair, o

-----------------------------------------------------------------------------
(* The call. *)

\* The chain is judged at the payload's date, or at a reading of the clock.
RightDate == jws_at_millis \in Int /\ (signed_date # None => jws_at_millis = signed_date)

\* What is known at each step of the call.
OnTheWay ==
    /\ jws_pc # "done" => jws_host_fault = None /\ ~leaf_used
    /\ jws_pc \in {"instant", "chain", "signature"} => OuterVerdict = Ok
    /\ jws_pc \in {"chain", "signature"} => RightDate
    /\ jws_pc = "signature" => PinnedChain(jws_at_millis)

\* What the verdict was given for.
Given ==
    /\ jws_verdict \in {Ok, UnreadablePayload} =>
         PinnedChain(jws_at_millis) /\ jws.signedWith = X509[leaf].key
    /\ PinnedChain(jws_at_millis) /\ OrdinaryChain /\ jws.signedWith = X509[leaf].key =>
         jws_verdict \in {Ok, UnreadablePayload}
    /\ jws_verdict = Ok => jws.payload.object

JwsInv ==
    /\ JwsTypeOK /\ OnTheWay
    /\ jws_pc = "done" /\ jws_host_fault = None /\ OuterVerdict = Ok => RightDate /\ Given
    /\ leaf_used => PinnedChain(jws_at_millis)

LEMMA VerdictsDiffer ==
    /\ Ok \notin Reason /\ {UntrustedChain, InvalidCertificate, InvalidCertificatePurpose, InternalError,
                            InvalidSignature, Malformed, TooLarge} \subseteq Reason \ {UnreadablePayload}
    /\ UnreadablePayload \in Reason
BY DEF Reason, Ok, Malformed, TooLarge, InvalidSignature, UntrustedChain, InvalidCertificate,
       InvalidCertificatePurpose, UnreadablePayload, InternalError

\* The entries that passed the outer checks are certificates.
LEMMA EntriesAreCertificates ==
    ASSUME JwsTypeOK, OuterVerdict = Ok
    PROVE  leaf \in Certificate /\ intermediate \in Certificate
<1>1. Len(jws.x5c) = 3 /\ \A n \in 1..3 : IsCertificate(jws.x5c[n])
    BY DEF OuterVerdict, Ok, Malformed, TooLarge, InternalError, InvalidCertificate
<1>2. jws.x5c \in Seq(Certificate \cup {None})
    BY DEF JwsTypeOK, JwsInputType
<1> QED
    BY <1>1, <1>2 DEF IsCertificate, leaf, intermediate

\* PinnedChain is PairHolds and the two markers.
LEMMA PinnedIs ==
    ASSUME NEW t
    PROVE  PinnedChain(t) <=>
             PairHolds(leaf, intermediate, t) /\ X509[leaf].leafOid /\ X509[intermediate].wwdrOid
BY DEF PinnedChain, PairHolds

\* The verdict of the chain is Ok or one that only a broken chain gets.
LEMMA PairVerdictType ==
    ASSUME NEW lower, NEW upper, NEW t
    PROVE  validate_pair(lower, upper, t) \in {Ok, UntrustedChain, InvalidCertificate}
<1>1. PairVerdict(checked_path(lower, <<upper>>, t), lower, upper) \in {Ok, UntrustedChain, InvalidCertificate}
    BY Zenon DEF PairVerdict
<1> QED
    BY <1>1 DEF validate_pair

\* An ordinary pinned chain passes validate_pair.
LEMMA OrdinaryPasses ==
    ASSUME JwsTypeOK, OuterVerdict = Ok, jws_at_millis \in Int, PinnedChain(jws_at_millis), OrdinaryChain
    PROVE  validate_pair(leaf, intermediate, jws_at_millis) = Ok
<1>1. leaf \in Certificate /\ intermediate \in Certificate
    BY EntriesAreCertificates
<1>2. PICK a \in AnchorSet :
        issued_by(intermediate, a) /\ ~LikelyIssued(a, leaf) /\ ~X509[a].critical
    BY DEF OrdinaryChain
<1>3. Ordinary(leaf, intermediate, a)
    BY <1>2 DEF OrdinaryChain, Ordinary
<1>4. PairHolds(leaf, intermediate, jws_at_millis)
    BY PinnedIs
<1> QED
    BY <1>1, <1>3, <1>4, PairIsComplete

LEMMA SameInput ==
    ASSUME UNCHANGED jws
    PROVE  /\ leaf' = leaf /\ intermediate' = intermediate
           /\ OuterVerdict' = OuterVerdict /\ signed_date' = signed_date
           /\ OrdinaryChain' <=> OrdinaryChain
           /\ \A t : PinnedChain(t)' <=> PinnedChain(t)
<1>1. leaf' = leaf /\ intermediate' = intermediate
    BY DEF leaf, intermediate
<1> QED
    BY <1>1 DEF OuterVerdict, signed_date, OrdinaryChain, PinnedChain

LEMMA JwsInitInv == JwsInit => JwsInv
<1> SUFFICES ASSUME JwsInit
             PROVE  JwsInv
    OBVIOUS
<1>1. /\ jws \in JwsInputType /\ jws_pc = "read" /\ jws_at_millis = None /\ jws_verdict = None
      /\ jws_host_fault = None /\ leaf_used = FALSE
    BY JwsAssumption DEF JwsInit
<1>2. JwsTypeOK
    BY <1>1 DEF JwsTypeOK
<1> QED
    BY <1>1, <1>2 DEF JwsInv, OnTheWay

\* A verdict that is no acceptance, given before the chain is known to hold.
LEMMA Refuses ==
    ASSUME JwsInv, jws_pc # "done", UNCHANGED <<jws, leaf_used>>,
           jws_at_millis' \in Int \cup {None}, jws_host_fault' \in {None, "clock", "panic"},
           NEW reason \in Reason \ {UnreadablePayload}, JwsConclude(reason),
           jws_host_fault' = None /\ OuterVerdict = Ok =>
             /\ RightDate'
             /\ ~(PinnedChain(jws_at_millis') /\ OrdinaryChain /\ jws.signedWith = X509[leaf].key)
    PROVE  JwsInv'
<1>1. jws_verdict' = reason /\ jws_pc' = "done" /\ reason # None /\ reason # Ok /\ reason # UnreadablePayload
    BY VerdictsDiffer, JwsAssumption DEF JwsConclude
<1>2. ~leaf_used' /\ leaf_used' \in BOOLEAN
    BY DEF JwsInv, OnTheWay, JwsTypeOK
<1>3. JwsTypeOK'
    BY <1>1, <1>2 DEF JwsInv, JwsTypeOK
<1>4. OnTheWay'
    BY <1>1 DEF OnTheWay
<1>5. jws_host_fault' = None /\ OuterVerdict = Ok => Given'
    BY <1>1, SameInput DEF Given
<1> QED
    BY <1>1, <1>2, <1>3, <1>4, <1>5, SameInput DEF JwsInv

LEMMA ReadInv == JwsInv /\ Read => JwsInv'
<1> SUFFICES ASSUME JwsInv, Read
             PROVE  JwsInv'
    OBVIOUS
<1>0. /\ jws_pc = "read" /\ UNCHANGED <<jws, jws_at_millis, jws_host_fault, leaf_used>>
      /\ Judge(OuterVerdict, "instant")
    BY DEF Read
<1>1. OuterVerdict \in {Ok, InternalError, TooLarge, Malformed, InvalidCertificate}
    BY DEF OuterVerdict
<1>2. CASE OuterVerdict = Ok
    <2>1. jws_pc' = "instant" /\ jws_verdict' = jws_verdict
        BY <1>0, <1>2 DEF Judge
    <2>2. JwsTypeOK'
        BY <1>0, <2>1 DEF JwsInv, JwsTypeOK
    <2> QED
        BY <1>0, <1>2, <2>1, <2>2, SameInput DEF JwsInv, OnTheWay
<1>3. CASE OuterVerdict # Ok
    <2>1. JwsConclude(OuterVerdict) /\ OuterVerdict \in Reason \ {UnreadablePayload}
        BY <1>0, <1>1, <1>3, VerdictsDiffer DEF Judge
    <2>2. jws_at_millis' \in Int \cup {None} /\ jws_host_fault' \in {None, "clock", "panic"} /\ jws_pc # "done"
        BY <1>0 DEF JwsInv, JwsTypeOK
    <2> QED
        BY <1>0, <1>3, <2>1, <2>2, Refuses
<1> QED
    BY <1>2, <1>3

LEMMA InstantInv == JwsInv /\ Instant => JwsInv'
<1> SUFFICES ASSUME JwsInv, Instant
             PROVE  JwsInv'
    OBVIOUS
<1>0. jws_pc = "instant" /\ UNCHANGED <<jws, leaf_used>>
    BY DEF Instant
<1>1. jws_host_fault = None /\ ~leaf_used /\ OuterVerdict = Ok
    BY <1>0 DEF JwsInv, OnTheWay
<1>2. CASE /\ jws_at_millis' \in IF signed_date # None THEN {signed_date} ELSE JwsClockReadings
           /\ jws_pc' = "chain"
           /\ UNCHANGED <<jws_host_fault, jws_verdict>>
    <2>1. signed_date \in Int \cup {None} /\ JwsClockReadings \subseteq Int
        BY JwsAssumption DEF JwsInv, JwsTypeOK, JwsInputType, JwsPayloadType, signed_date
    <2>2. jws_at_millis' \in Int /\ (signed_date # None => jws_at_millis' = signed_date)
        BY <1>2, <2>1
    <2>3. RightDate'
        BY <1>0, <2>2, SameInput DEF RightDate
    <2>4. JwsTypeOK'
        BY <1>0, <1>2, <2>2 DEF JwsInv, JwsTypeOK
    <2> QED
        BY <1>0, <1>1, <1>2, <2>3, <2>4, SameInput DEF JwsInv, OnTheWay
<1>3. CASE jws_host_fault' = "clock" /\ JwsConclude(InternalError) /\ UNCHANGED jws_at_millis
    <2>1. jws_at_millis' \in Int \cup {None} /\ jws_host_fault' \in {None, "clock", "panic"} /\ jws_pc # "done"
        BY <1>0, <1>3 DEF JwsInv, JwsTypeOK
    <2>2. jws_host_fault' # None
        BY <1>3, JwsAssumption
    <2>3. InternalError \in Reason \ {UnreadablePayload}
        BY VerdictsDiffer
    <2> QED
        BY <1>0, <1>3, <2>1, <2>2, <2>3, Refuses
<1> QED
    BY <1>2, <1>3 DEF Instant

LEMMA ChainInv == JwsInv /\ Chain => JwsInv'
<1> SUFFICES ASSUME JwsInv, Chain
             PROVE  JwsInv'
    OBVIOUS
<1> DEFINE path == validate_pair(leaf, intermediate, jws_at_millis)
           reason == IF path # Ok THEN path ELSE PairMarkers
<1>0. /\ jws_pc = "chain" /\ UNCHANGED <<jws, jws_at_millis, jws_host_fault, leaf_used>>
      /\ Judge(reason, "signature")
    BY DEF Chain
<1>1. /\ jws_host_fault = None /\ ~leaf_used /\ OuterVerdict = Ok /\ RightDate /\ jws_at_millis \in Int
      /\ JwsTypeOK /\ leaf \in Certificate /\ intermediate \in Certificate
    BY <1>0, EntriesAreCertificates DEF JwsInv, OnTheWay, RightDate
<1>2. path \in {Ok, UntrustedChain, InvalidCertificate} /\ PairMarkers \in {Ok, InvalidCertificatePurpose}
    BY PairVerdictType DEF PairMarkers
<1>3. RightDate'
    BY <1>0, <1>1, SameInput DEF RightDate
<1>4. reason = Ok => path = Ok /\ PairMarkers = Ok
    OBVIOUS
<1>5. reason # Ok => path # Ok \/ PairMarkers # Ok
    OBVIOUS
<1>6. PairMarkers = Ok <=> X509[leaf].leafOid /\ X509[intermediate].wwdrOid
    BY DEF PairMarkers, Marked, Ok, InvalidCertificatePurpose
<1>7. reason \in {Ok, UntrustedChain, InvalidCertificate, InvalidCertificatePurpose}
    BY <1>2
<1>8. CASE reason = Ok
    <2>1. jws_pc' = "signature" /\ jws_verdict' = jws_verdict
        BY <1>0, <1>8 DEF Judge
    <2>2. PairHolds(leaf, intermediate, jws_at_millis)
        BY <1>1, <1>4, <1>8, PairIsSound
    <2>3. PinnedChain(jws_at_millis)
        BY <1>4, <1>6, <1>8, <2>2, PinnedIs
    <2>4. JwsTypeOK'
        BY <1>0, <1>1, <2>1 DEF JwsTypeOK
    <2> HIDE DEF reason, path
    <2> QED
        BY <1>0, <1>1, <1>3, <2>1, <2>3, <2>4, SameInput DEF JwsInv, OnTheWay
<1>9. CASE reason # Ok
    <2>1. ~(PinnedChain(jws_at_millis) /\ OrdinaryChain)
        BY <1>1, <1>5, <1>6, <1>9, PinnedIs, OrdinaryPasses
    <2> HIDE DEF reason, path
    <2>2. JwsConclude(reason) /\ reason \in Reason \ {UnreadablePayload}
        BY <1>0, <1>7, <1>9, VerdictsDiffer DEF Judge
    <2>3. jws_at_millis' \in Int \cup {None} /\ jws_host_fault' \in {None, "clock", "panic"} /\ jws_pc # "done"
        BY <1>0, <1>1
    <2>4. ~(PinnedChain(jws_at_millis') /\ OrdinaryChain /\ jws.signedWith = X509[leaf].key)
        BY <1>0, <2>1
    <2> QED
        BY <1>0, <1>3, <2>2, <2>3, <2>4, Refuses
<1> QED
    BY <1>8, <1>9

LEMMA SignatureInv == JwsInv /\ verify_signature => JwsInv'
<1> SUFFICES ASSUME JwsInv, verify_signature
             PROVE  JwsInv'
    OBVIOUS
<1> DEFINE reason == IF jws.signedWith = X509[leaf].key THEN signed_payload ELSE InvalidSignature
<1>0. /\ jws_pc = "signature" /\ UNCHANGED <<jws, jws_at_millis, jws_host_fault>> /\ leaf_used' = TRUE
      /\ jws_verdict' = reason /\ jws_pc' = "done"
    BY DEF verify_signature, verify_es256, JwsConclude
<1>1. jws_host_fault = None /\ OuterVerdict = Ok /\ RightDate /\ PinnedChain(jws_at_millis) /\ JwsTypeOK
    BY <1>0 DEF JwsInv, OnTheWay
<1>2. signed_payload \in {Ok, UnreadablePayload} /\ (signed_payload = Ok => jws.payload.object)
    BY VerdictsDiffer DEF signed_payload
<1>3. /\ reason \in Reason \cup {Ok} /\ reason # None
      /\ reason \in {Ok, UnreadablePayload} <=> jws.signedWith = X509[leaf].key
      /\ reason = Ok => jws.payload.object
    BY <1>2, VerdictsDiffer, JwsAssumption
<1> HIDE DEF reason
<1>4. JwsTypeOK'
    <2>1. leaf_used' \in BOOLEAN
        BY <1>0, Zenon
    <2> QED
        BY <1>0, <1>1, <1>3, <2>1 DEF JwsTypeOK
<1>5. RightDate' /\ PinnedChain(jws_at_millis)' /\ OuterVerdict' = Ok
    BY <1>0, <1>1, SameInput DEF RightDate
<1>6. Given'
    BY <1>0, <1>1, <1>3, <1>5, SameInput DEF Given
<1>7. OnTheWay'
    BY <1>0 DEF OnTheWay
<1> QED
    BY <1>4, <1>5, <1>6, <1>7 DEF JwsInv

LEMMA JwsPanicInv == JwsInv /\ JwsPanic => JwsInv'
<1> SUFFICES ASSUME JwsInv, JwsPanic
             PROVE  JwsInv'
    OBVIOUS
<1>0. /\ jws_pc # "done" /\ UNCHANGED <<jws, jws_at_millis, leaf_used>> /\ jws_host_fault' = "panic"
      /\ JwsConclude(InternalError)
    BY DEF JwsPanic
<1>1. jws_at_millis' \in Int \cup {None} /\ jws_host_fault' \in {None, "clock", "panic"} /\ jws_host_fault' # None
    BY <1>0, JwsAssumption DEF JwsInv, JwsTypeOK
<1>2. InternalError \in Reason \ {UnreadablePayload}
    BY VerdictsDiffer
<1> QED
    BY <1>0, <1>1, <1>2, Refuses

LEMMA JwsStutterInv == JwsInv /\ UNCHANGED jws_vars => JwsInv'
<1> SUFFICES ASSUME JwsInv, UNCHANGED jws_vars
             PROVE  JwsInv'
    OBVIOUS
<1>0. UNCHANGED jws /\ UNCHANGED <<jws_pc, jws_at_millis, jws_verdict, jws_host_fault, leaf_used>>
    BY DEF jws_vars
<1>1. JwsTypeOK'
    BY <1>0 DEF JwsInv, JwsTypeOK
<1>2. (RightDate' <=> RightDate) /\ (Given' <=> Given)
    BY <1>0, SameInput DEF RightDate, Given
<1> QED
    BY <1>0, <1>1, <1>2, SameInput DEF JwsInv, OnTheWay

\* Every call keeps the invariant.
THEOREM JwsInvariant == JwsSpec => []JwsInv
<1>1. JwsInit => JwsInv
    BY JwsInitInv
<1>2. JwsInv /\ [JwsNext]_jws_vars => JwsInv'
    BY ReadInv, InstantInv, ChainInv, SignatureInv, JwsPanicInv, JwsStutterInv DEF JwsNext, JwsReturned
<1> QED
    BY <1>1, <1>2, PTL DEF JwsSpec

\* jws.rs accepts a well-formed JWS only when its leaf signed it under a pinned
\* chain, judged at the date the payload states, and always when that chain is
\* an ordinary one; and the leaf's key is never used before its chain passed.
\* Neither the order of the pinned roots nor one that shares a name with the
\* right root or with the intermediate changes that.
THEOREM AcceptedIffPinnedCorrect == JwsSpec => []AcceptedIffPinned
<1>1. JwsInv => AcceptedIffPinned
    <2>1. StatedDate # None => StatedDate = signed_date
        BY DEF StatedDate, signed_date
    <2> QED
        BY <2>1 DEF JwsInv, AcceptedIffPinned, Given, RightDate
<1> QED
    BY <1>1, JwsInvariant, PTL
=============================================================================
