---------------------------- MODULE InstancePool ----------------------------
(***************************************************************************)
(* What a pool of Wasm instances promises, whatever the host language: a   *)
(* call has an instance of its own, a new one or an idle one, at most      *)
(* maxIdle are kept between calls, and one that failed is never used       *)
(* again.  The pools of the wrappers are shown to implement this.          *)
(***************************************************************************)
EXTENDS Naturals, FiniteSets, TLAPS

CONSTANTS
    Caller,    \* threads
    Instance,  \* instances the factory can make, each once
    maxIdle,
    Nobody     \* no instance

VARIABLES
    idle,      \* the instances kept
    holds,     \* [Caller -> its instance, or Nobody]
    made,      \* every instance made so far
    failed     \* instances whose call or init failed

vars == <<idle, holds, made, failed>>

Init ==
    /\ idle \in {{}} \cup {{i} : i \in Instance}
    /\ holds = [t \in Caller |-> Nobody]
    /\ made = idle
    /\ failed = {}

Take(t) ==
    /\ holds[t] = Nobody
    /\ \E i \in idle :
         /\ idle' = idle \ {i}
         /\ holds' = [holds EXCEPT ![t] = i]
    /\ UNCHANGED <<made, failed>>

Make(t) ==
    /\ holds[t] = Nobody
    /\ \E i \in Instance \ made :
         /\ made' = made \cup {i}
         /\ holds' = [holds EXCEPT ![t] = i]
    /\ UNCHANGED <<idle, failed>>

MakeFails(t) ==
    /\ holds[t] = Nobody
    /\ \E i \in Instance \ made : made' = made \cup {i} /\ failed' = failed \cup {i}
    /\ UNCHANGED <<idle, holds>>

CallFails(t) ==
    /\ holds[t] # Nobody
    /\ failed' = failed \cup {holds[t]}
    /\ holds' = [holds EXCEPT ![t] = Nobody]
    /\ UNCHANGED <<idle, made>>

Keep(t) ==
    /\ holds[t] # Nobody
    /\ Cardinality(idle) < maxIdle
    /\ idle' = idle \cup {holds[t]}
    /\ holds' = [holds EXCEPT ![t] = Nobody]
    /\ UNCHANGED <<made, failed>>

LetGo(t) ==
    /\ holds[t] # Nobody
    /\ holds' = [holds EXCEPT ![t] = Nobody]
    /\ UNCHANGED <<idle, made, failed>>

Next ==
    \E t \in Caller :
        Take(t) \/ Make(t) \/ MakeFails(t) \/ CallFails(t) \/ Keep(t) \/ LetGo(t)

Spec == Init /\ [][Next]_vars

-----------------------------------------------------------------------------
\* One call at a time on each instance: no two calls hold the same one, and
\* none that is held is idle.
OneCallEach ==
    /\ \A t, u \in Caller : holds[t] = holds[u] /\ holds[t] # Nobody => t = u
    /\ \A t \in Caller : holds[t] \notin idle

\* Nothing that failed serves another call.
FailedIsGone ==
    /\ idle \cap failed = {}
    /\ \A t \in Caller : holds[t] \notin failed

-----------------------------------------------------------------------------
(***************************************************************************)
(* What the pool promises its callers, proved for any number of them:      *)
(* neither promise is inductive alone.  That a new instance is nobody's    *)
(* rests on every idle or held one having been made, and that a call's     *)
(* failure retires its instance for good rests on nobody else holding it.  *)
(***************************************************************************)
TypeOK ==
    /\ idle \subseteq Instance
    /\ made \subseteq Instance
    /\ failed \subseteq Instance
    /\ holds \in [Caller -> Instance \cup {Nobody}]

\* Whatever is idle, held or failed was made.
Known ==
    /\ idle \cup failed \subseteq made
    /\ \A t \in Caller : holds[t] \in made \cup {Nobody}

PoolInv == TypeOK /\ Known /\ OneCallEach /\ FailedIsGone

\* The pool starts empty, or with the one instance of the runtime probe.
LEMMA InitInv == Nobody \notin Instance /\ Init => PoolInv
BY DEF Init, PoolInv, TypeOK, Known, OneCallEach, FailedIsGone

\* Each step of a call keeps the invariant.
LEMMA StepInv == Nobody \notin Instance /\ PoolInv /\ [Next]_vars => PoolInv'
<1> SUFFICES ASSUME Nobody \notin Instance, PoolInv, [Next]_vars
             PROVE  PoolInv'
    OBVIOUS
<1> USE DEF PoolInv, TypeOK, Known, OneCallEach, FailedIsGone
<1>1. ASSUME NEW t \in Caller, Take(t)
      PROVE  PoolInv'
    BY <1>1 DEF Take
<1>2. ASSUME NEW t \in Caller, Make(t)
      PROVE  PoolInv'
    BY <1>2 DEF Make
<1>3. ASSUME NEW t \in Caller, MakeFails(t)
      PROVE  PoolInv'
    BY <1>3 DEF MakeFails
<1>4. ASSUME NEW t \in Caller, CallFails(t)
      PROVE  PoolInv'
    BY <1>4 DEF CallFails
<1>5. ASSUME NEW t \in Caller, Keep(t)
      PROVE  PoolInv'
    BY <1>5 DEF Keep
<1>6. ASSUME NEW t \in Caller, LetGo(t)
      PROVE  PoolInv'
    BY <1>6 DEF LetGo
<1>7. CASE UNCHANGED vars
    BY <1>7 DEF vars
<1> QED
    BY <1>1, <1>2, <1>3, <1>4, <1>5, <1>6, <1>7 DEF Next

\* The inductive invariant holds of every behaviour of the pool.
LEMMA PoolInvariant == Nobody \notin Instance => (Spec => []PoolInv)
<1> SUFFICES ASSUME Nobody \notin Instance
             PROVE  Spec => []PoolInv
    OBVIOUS
<1>1. Init => PoolInv
    BY InitInv
<1>2. PoolInv /\ [Next]_vars => PoolInv'
    BY StepInv
<1> QED
    BY <1>1, <1>2, PTL DEF Spec

\* One call at a time on each instance: no two calls hold the same one, and a
\* call's instance is not in the pool.  Nobody is Java's null, no instance.
THEOREM OneCallEachCorrect == Nobody \notin Instance => (Spec => []OneCallEach)
<1> SUFFICES ASSUME Nobody \notin Instance
             PROVE  Spec => []OneCallEach
    OBVIOUS
<1>1. Spec => []PoolInv
    BY PoolInvariant
<1>2. PoolInv => OneCallEach
    BY DEF PoolInv
<1> QED
    BY <1>1, <1>2, PTL

\* An instance whose call threw, or whose init did, is never handed out again.
THEOREM FailedIsGoneCorrect == Nobody \notin Instance => (Spec => []FailedIsGone)
<1> SUFFICES ASSUME Nobody \notin Instance
             PROVE  Spec => []FailedIsGone
    OBVIOUS
<1>1. Spec => []PoolInv
    BY PoolInvariant
<1>2. PoolInv => FailedIsGone
    BY DEF PoolInv
<1> QED
    BY <1>1, <1>2, PTL
=============================================================================
