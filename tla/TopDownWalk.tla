---------------------------- MODULE TopDownWalk ----------------------------
(***************************************************************************)
(* authenticated_top_down of rust/src/path.rs: the walk that decides which *)
(* embedded certificates may be handed to OpenSSL at all.  The bag is      *)
(* unsigned, so the walk goes down from the pinned anchors and never uses  *)
(* a key that no anchor vouched for.                                       *)
(*                                                                         *)
(* The bag and the issuing relation are chosen once, in Init: the module   *)
(* ranges over every bag and every way its certificates may be signed.     *)
(* The vectors of the code are sets here; the walk's verdict does not      *)
(* depend on their order (CertPath has the walk with the order kept).      *)
(***************************************************************************)
EXTENDS Naturals, FiniteSets, Vouching, TLAPS

CONSTANTS
    Certificate,  \* every certificate a bag may hold, the anchors included
    Anchors,      \* the pinned roots
    Links         \* the pairs <<c, i>> for which c.issued_by(i) may be true

ASSUME WalkAssumption ==
    /\ Anchors \subseteq Certificate
    /\ Links \subseteq Certificate \X Certificate

VARIABLES
    embedded,  \* the bag (fixed)
    issued,    \* the pairs <<c, i>> with c.issued_by(i) (fixed)
    pc,        \* "start", "walk" or "done"
    accepted,  \* vouched for so far
    pending,   \* not vouched for so far
    issuers    \* whose keys the next round uses

vars == <<embedded, issued, pc, accepted, pending, issuers>>

Init ==
    /\ embedded \in SUBSET Certificate
    /\ issued \in SUBSET Links
    /\ pc = "start"
    /\ accepted = {}
    /\ pending = {}
    /\ issuers = {}

\* Mutant: only the anchors found in the bag vouch for others.
PartitionBagOnly ==
    /\ pc = "start"
    /\ accepted' = embedded \cap Anchors
    /\ pending' = embedded \ Anchors
    /\ issuers' = accepted'
    /\ pc' = "walk"
    /\ UNCHANGED <<embedded, issued>>

\* An embedded copy of an anchor is the anchor; everything else waits.
Partition ==
    /\ pc = "start"
    /\ accepted' = embedded \cap Anchors
    /\ pending' = embedded \ Anchors
    /\ issuers' = Anchors \cup accepted'
    /\ pc' = "walk"
    /\ UNCHANGED <<embedded, issued>>

\* Mutant: any embedded certificate may vouch for another.
ThisRoundAnyIssuer == {c \in pending : \E i \in issuers \cup embedded : <<c, i>> \in issued}

ThisRound == {c \in pending : \E i \in issuers : <<c, i>> \in issued}

\* The keys the next round may check a signature with: of each issuer it tries,
\* when there is something to try it on.
keys_used == IF pc = "walk" /\ pending # {} THEN issuers ELSE {}

\* One pass of the loop that accepts something.  The next round tries the
\* newly accepted certificates only.
Round ==
    /\ pc = "walk"
    /\ ThisRound # {}
    /\ accepted' = accepted \cup ThisRound
    /\ pending' = pending \ ThisRound
    /\ issuers' = ThisRound
    /\ UNCHANGED <<embedded, issued, pc>>

\* Mutant: the walk ends only when nothing is pending.
FinishWhenEmpty ==
    /\ pc = "walk"
    /\ pending = {}
    /\ pc' = "done"
    /\ UNCHANGED <<embedded, issued, accepted, pending, issuers>>

\* Nothing pending, or a round that vouched for nothing.
Finish ==
    /\ pc = "walk"
    /\ ThisRound = {}
    /\ pc' = "done"
    /\ UNCHANGED <<embedded, issued, accepted, pending, issuers>>

Next == Partition \/ Round \/ Finish

Spec == Init /\ [][Next]_vars

\* The walk is a loop in one thread: it keeps running until it ends.
FairSpec == Spec /\ WF_vars(Next)

-----------------------------------------------------------------------------
Authentic == Vouched(embedded, Anchors, issued)

TypeOK ==
    /\ embedded \subseteq Certificate
    /\ issued \subseteq Links
    /\ pc \in {"start", "walk", "done"}
    /\ accepted \subseteq embedded
    /\ pending \subseteq embedded
    /\ issuers \subseteq Certificate

\* No key an anchor did not vouch for is ever used: the key of whatever the
\* walk tries as an issuer (path.rs, "the only keys used are ones an anchor
\* vouched for"; keys.rs records them for the tests) is an anchor's or that of
\* a certificate vouched for.
OnlyVouchedKeys == keys_used \subseteq Anchors \cup Authentic

\* The walk accepts exactly what the anchors vouch for, although each round
\* tries only the certificates the previous round accepted as issuers: a
\* certificate vouched for late is never missed and none slips in.
WalkIsExact == pc = "done" => accepted = Authentic

\* The walk ends.
Ends == <>(pc = "done")

-----------------------------------------------------------------------------
(* The inductive invariant behind the two safety properties. *)

\* Every embedded certificate is accepted or pending, never both.
Split ==
    pc # "start" =>
        /\ accepted \cup pending = embedded
        /\ accepted \cap pending = {}
        /\ embedded \cap Anchors \subseteq accepted

\* What is accepted is in every closed set: nothing slips in.
Sound ==
    \A S \in SUBSET embedded :
        ClosedUnderIssuing(S, embedded, Anchors, issued) => accepted \subseteq S

\* A pending certificate was issued by no accepted certificate and no anchor
\* outside the current issuers: nothing is missed by dropping the old ones.
TriedAlready ==
    pc # "start" =>
        /\ issuers \subseteq Anchors \cup accepted
        /\ \A c \in pending : \A i \in (Anchors \cup accepted) \ issuers :
             <<c, i>> \notin issued

\* At the end the current issuers issued nothing pending either.
Exhausted == pc = "done" => ThisRound = {}

IInv == TypeOK /\ Split /\ Sound /\ TriedAlready /\ Exhausted
                /\ (pc = "start" => issuers = {} /\ accepted = {})
-----------------------------------------------------------------------------
(* Proofs, for every set of certificates, every set of anchors, every bag  *)
(* and every issuing relation.                                             *)

\* Types alone: what rust/src/path.rs keeps in its three vectors.
THEOREM TypeCorrect == Spec => []TypeOK
<1>1. Init => TypeOK
  BY DEF Init, TypeOK
<1>2. TypeOK /\ [Next]_vars => TypeOK'
  <2> SUFFICES ASSUME TypeOK, [Next]_vars PROVE TypeOK'
    OBVIOUS
  <2> USE WalkAssumption DEF TypeOK
  <2>1. CASE Partition
    BY <2>1 DEF Partition
  <2>2. CASE Round
    BY <2>2 DEF Round, ThisRound
  <2>3. CASE Finish
    BY <2>3 DEF Finish
  <2>4. CASE UNCHANGED vars
    BY <2>4 DEF vars
  <2> QED
    BY <2>1, <2>2, <2>3, <2>4 DEF Next
<1> QED
  BY <1>1, <1>2, PTL DEF Spec

\* A closed set that holds the issuers of a round holds the round.
LEMMA RoundStaysInClosedSets ==
  ASSUME TypeOK, TriedAlready, pc = "walk",
         NEW S \in SUBSET embedded,
         ClosedUnderIssuing(S, embedded, Anchors, issued),
         accepted \subseteq S
  PROVE  ThisRound \subseteq S
<1>1. issuers \subseteq Anchors \cup S
  BY DEF TriedAlready
<1> QED
  BY <1>1 DEF ThisRound, ClosedUnderIssuing, TypeOK

\* The inductive invariant: the walk keeps a partition of the bag, accepts
\* only what every closed set holds, and need not retry old issuers.
THEOREM WalkInvariant == Spec => []IInv
<1>1. Init => IInv
  BY DEF Init, IInv, TypeOK, Split, Sound, TriedAlready, Exhausted
<1>2. IInv /\ TypeOK' /\ [Next]_vars => IInv'
  <2> SUFFICES ASSUME IInv, TypeOK', [Next]_vars PROVE IInv'
    OBVIOUS
  <2> USE DEF IInv
  <2>1. CASE Partition
    <3> USE <2>1 DEF Partition
    <3>1. Split'
      BY DEF Split, TypeOK
    <3>2. Sound'
      BY DEF Sound, ClosedUnderIssuing
    <3>3. TriedAlready'
      BY DEF TriedAlready
    <3> QED
      BY <3>1, <3>2, <3>3 DEF Exhausted
  <2>2. CASE Round
    <3> USE <2>2 DEF Round
    <3>1. Split'
      BY DEF Split, TypeOK, ThisRound
    <3>2. Sound'
      <4> SUFFICES ASSUME NEW S \in SUBSET embedded,
                          ClosedUnderIssuing(S, embedded, Anchors, issued)
                   PROVE  accepted' \subseteq S
        BY DEF Sound
      <4>1. accepted \subseteq S
        BY DEF Sound
      <4>2. ThisRound \subseteq S
        BY <4>1, RoundStaysInClosedSets
      <4> QED
        BY <4>1, <4>2
    <3>3. TriedAlready'
      <4>1. issuers' \subseteq Anchors \cup accepted'
        OBVIOUS
      <4>2. ASSUME NEW c \in pending', NEW i \in (Anchors \cup accepted') \ issuers'
            PROVE  <<c, i>> \notin issued
        <5>1. c \in pending /\ c \notin ThisRound
          BY <4>2
        <5>2. i \in Anchors \cup accepted
          BY <4>2
        <5>3. CASE i \in issuers
          BY <5>1, <5>3 DEF ThisRound
        <5>4. CASE i \notin issuers
          BY <5>1, <5>2, <5>4 DEF TriedAlready
        <5> QED
          BY <5>3, <5>4
      <4> QED
        BY <4>1, <4>2 DEF TriedAlready
    <3> QED
      BY <3>1, <3>2, <3>3 DEF Exhausted
  <2>3. CASE Finish
    BY <2>3 DEF Finish, Split, Sound, TriedAlready, Exhausted, ThisRound
  <2>4. CASE UNCHANGED vars
    BY <2>4 DEF vars, Split, Sound, TriedAlready, Exhausted, ThisRound
  <2> QED
    BY <2>1, <2>2, <2>3, <2>4 DEF Next
<1> QED
  BY <1>1, <1>2, TypeCorrect, PTL DEF Spec

\* What is accepted is vouched for, at every moment of the walk.
LEMMA AcceptedIsAuthentic == IInv => accepted \subseteq Authentic
  BY DEF IInv, TypeOK, Sound, Authentic, Vouched

\* No key an anchor did not vouch for is ever used by the walk.
THEOREM OnlyVouchedKeysCorrect == Spec => []OnlyVouchedKeys
<1>1. IInv => OnlyVouchedKeys
  BY AcceptedIsAuthentic DEF IInv, TriedAlready, OnlyVouchedKeys, keys_used
<1> QED
  BY <1>1, WalkInvariant, PTL

\* The walk accepts exactly what the anchors vouch for.
THEOREM WalkIsExactCorrect == Spec => []WalkIsExact
<1>1. IInv => WalkIsExact
  <2> SUFFICES ASSUME IInv, pc = "done" PROVE accepted = Authentic
    BY DEF WalkIsExact
  <2>1. ClosedUnderIssuing(accepted, embedded, Anchors, issued)
    <3>1. ASSUME NEW c \in embedded, NEW i \in Anchors \cup accepted, <<c, i>> \in issued
          PROVE  c \in accepted
      BY <3>1 DEF IInv, Split, TriedAlready, Exhausted, ThisRound
    <3> QED
      BY <3>1 DEF ClosedUnderIssuing, IInv, Split
  <2>2. Authentic \subseteq accepted
    BY <2>1 DEF Authentic, Vouched, IInv, TypeOK
  <2> QED
    BY <2>2, AcceptedIsAuthentic
<1> QED
  BY <1>1, WalkInvariant, PTL
=============================================================================
