----------------------------- MODULE PoolProofs -----------------------------
(***************************************************************************)
(* The pools of Wasm instances of java-wasm, Python and Ruby implement     *)
(* InstancePool, for any number of threads and any size.                   *)
(*                                                                         *)
(* Each proof has the same shape. The invariant couples the queue and the  *)
(* threads' places to the abstract pool's own invariant PoolInv; with it   *)
(* each step is a step of InstancePool or changes nothing it sees, which   *)
(* gives PoolInv again. What is left is the pool's own arithmetic: that    *)
(* there is room when an instance is put back, although the decision to    *)
(* keep it was made in an earlier step.                                    *)
(***************************************************************************)
EXTENDS Pools, CountingLemmas

GuestAsPool == INSTANCE InstancePool WITH idle <- Idle, holds <- guest
PythonAsPool == INSTANCE InstancePool WITH
                    idle <- Python!ToSet(free), made <- pyMade, failed <- pyFailed, holds <- instance
RubyAsPool == INSTANCE InstancePool WITH
                  idle <- Ruby!ToSet(rbIdle), made <- rbMade, failed <- rbFailed, holds <- rbGuest,
                  maxIdle <- Cardinality(Caller)

-----------------------------------------------------------------------------
(* java-wasm's GuestPool *)

\* Where the counter is ahead of the deque.
Ahead == {"count", "offer", "undo"}

GuestInv ==
    /\ TypeOK
    /\ GuestAsPool!PoolInv
    /\ \A t \in Caller : guest[t] # Nobody <=> pc[t] \in {"count", "run", "increment", "offer", "undo"}
    /\ Distinct(idle)
    /\ idleCount = Len(idle) + Cardinality(ThreadsAt(Caller, pc, Ahead))
    /\ Len(idle) + Cardinality(ThreadsAt(Caller, pc, {"offer"})) <= maxIdle

\* The idle deque as the set the abstract pool keeps.
LEMMA GuestIdle == ASSUME GuestInv
                   PROVE  Idle = Elements(idle) /\ Cardinality(Idle) = Len(idle)
<1>1. Idle = Elements(idle)
    BY DEF Idle, Elements
<1> QED
    BY <1>1, DistinctCount DEF GuestInv, TypeOK

\* What a step does to the deque: one instance out, one in, or nothing.
LEMMA GuestIdleStep ==
    ASSUME GuestInv, PoolAssumption, NEW t \in Caller
    PROVE  /\ PollFirst(t) /\ idle # <<>> =>
                /\ Head(idle) \in Idle /\ Idle' = Idle \ {Head(idle)}
                /\ idle' \in Seq(Instance) /\ Len(idle') = Len(idle) - 1 /\ Distinct(idle')
           /\ OfferFirst(t) =>
                /\ guest[t] \in Instance /\ Idle' = Idle \cup {guest[t]}
                /\ idle' \in Seq(Instance) /\ Len(idle') = Len(idle) + 1 /\ Distinct(idle')
<1>1. Idle = Elements(idle) /\ Idle' = Elements(idle')
    BY DEF Idle, Elements
<1>2. idle \in Seq(Instance) /\ Distinct(idle)
    BY DEF GuestInv, TypeOK
<1>3. ASSUME PollFirst(t), idle # <<>>
      PROVE  /\ Head(idle) \in Idle /\ Idle' = Idle \ {Head(idle)}
             /\ idle' \in Seq(Instance) /\ Len(idle') = Len(idle) - 1 /\ Distinct(idle')
    <2>1. idle' = Tail(idle)
        BY <1>3 DEF PollFirst
    <2>2. idle' \in Seq(Instance) /\ Len(idle') = Len(idle) - 1
        BY <2>1, <1>2, <1>3
    <2>3. /\ Head(idle) \in Elements(idle)
          /\ Elements(idle) = Elements(idle') \cup {Head(idle)}
          /\ Distinct(idle') /\ Head(idle) \notin Elements(idle')
        BY <2>1, <1>2, <1>3, TailElements
    <2> QED
        BY <1>1, <2>2, <2>3
<1>4. ASSUME OfferFirst(t)
      PROVE  /\ guest[t] \in Instance /\ Idle' = Idle \cup {guest[t]}
             /\ idle' \in Seq(Instance) /\ Len(idle') = Len(idle) + 1 /\ Distinct(idle')
    <2>1. idle' = <<guest[t]>> \o idle
        BY <1>4 DEF OfferFirst
    <2>2. guest[t] \in Instance
        BY <1>4 DEF OfferFirst, Goto, GuestInv, TypeOK
    <2>3. guest[t] \notin Elements(idle)
        BY <1>1 DEF GuestInv, GuestAsPool!PoolInv, GuestAsPool!OneCallEach
    <2> QED
        BY <1>1, <1>2, <2>1, <2>2, <2>3, PrependElements
<1> QED
    BY <1>3, <1>4

\* The abstract pool counts with the same Cardinality.
LEMMA SameCardinality ==
    ASSUME NEW S
    PROVE  /\ GuestAsPool!Cardinality(S) = Cardinality(S)
           /\ PythonAsPool!Cardinality(S) = Cardinality(S)
           /\ RubyAsPool!Cardinality(S) = Cardinality(S)
BY DEF Cardinality, GuestAsPool!Cardinality, PythonAsPool!Cardinality, RubyAsPool!Cardinality

\* Every step is a step of the abstract pool, or one it does not see.
LEMMA GuestStep ==
    ASSUME GuestInv, PoolAssumption, [Next]_vars
    PROVE  [GuestAsPool!Next]_(GuestAsPool!vars)
<1> DEFINE Unseen == UNCHANGED GuestAsPool!vars
<1> USE DEF Goto, Hand, GuestAsPool!vars, GuestAsPool!Next
<1>1. ASSUME NEW t \in Caller, PollFirst(t)
      PROVE  GuestAsPool!Take(t) \/ Unseen
    <2>1. CASE idle # <<>>
        BY <1>1, <2>1, GuestIdleStep DEF PollFirst, GuestAsPool!Take, GuestInv
    <2>2. CASE idle = <<>>
        BY <1>1, <2>2 DEF PollFirst, Idle
    <2> QED
        BY <2>1, <2>2
<1>2. ASSUME NEW t \in Caller, fresh(t)
      PROVE  GuestAsPool!Make(t) \/ GuestAsPool!MakeFails(t) \/ Unseen
    <2>1. guest[t] = Nobody /\ Idle' = Idle
        BY <1>2 DEF fresh, GuestInv, Idle
    <2> QED
        BY <1>2, <2>1 DEF fresh, GuestAsPool!Make, GuestAsPool!MakeFails
<1>3. ASSUME NEW t \in Caller, Run(t)
      PROVE  GuestAsPool!CallFails(t) \/ Unseen
    BY <1>3 DEF Run, GuestAsPool!CallFails, GuestInv, Idle
<1>4. ASSUME NEW t \in Caller, OfferFirst(t)
      PROVE  GuestAsPool!Keep(t)
    <2>1. Cardinality(Idle) < maxIdle
        <3> DEFINE n == Cardinality(ThreadsAt(Caller, pc, {"offer"}))
        <3>1. n \in Nat /\ n # 0
            <4>1. t \in ThreadsAt(Caller, pc, {"offer"})
                BY <1>4 DEF OfferFirst, ThreadsAt
            <4> QED
                BY <4>1, AtFinite DEF PoolAssumption
        <3>2. Cardinality(Idle) = Len(idle) /\ Len(idle) \in Nat /\ maxIdle \in Nat /\ Len(idle) + n <= maxIdle
            BY GuestIdle DEF GuestInv, TypeOK, PoolAssumption
        <3> HIDE DEF n
        <3> QED
            BY <3>1, <3>2
    <2>2. guest[t] # Nobody
        BY <1>4 DEF OfferFirst, GuestInv
    <2>3. Idle' = Idle \cup {guest[t]}
        BY <1>4, GuestIdleStep
    <2> QED
        BY <1>4, <2>1, <2>2, <2>3, SameCardinality DEF OfferFirst, GuestAsPool!Keep
<1>5. ASSUME NEW t \in Caller, Undo(t)
      PROVE  GuestAsPool!LetGo(t)
    BY <1>5 DEF Undo, GuestAsPool!LetGo, GuestInv, Idle
<1>6. ASSUME NEW t \in Caller, Count(t) \/ Increment(t)
      PROVE  Unseen
    BY <1>6 DEF Count, Increment, Idle
<1>7. CASE UNCHANGED vars
    BY <1>7 DEF vars, Idle
<1> QED
    BY <1>1, <1>2, <1>3, <1>4, <1>5, <1>6, <1>7 DEF Next

\* A thread has an instance exactly where its call needs one, and the deque
\* never holds one twice.
LEMMA GuestPlaces ==
    ASSUME GuestInv, PoolAssumption, [Next]_vars
    PROVE  /\ pc' \in [Caller -> {"poll", "count", "fresh", "run", "increment", "offer", "undo"}]
           /\ \A t \in Caller : (guest[t] # Nobody)' <=>
                                  pc'[t] \in {"count", "run", "increment", "offer", "undo"}
           /\ idle' \in Seq(Instance)
           /\ Distinct(idle')
           /\ maxInputBytes' \in BOOLEAN
           /\ failed' \subseteq made'
<1> DEFINE Places == /\ pc' \in [Caller -> {"poll", "count", "fresh", "run", "increment", "offer", "undo"}]
                     /\ \A t \in Caller : (guest[t] # Nobody)' <=>
                                          pc'[t] \in {"count", "run", "increment", "offer", "undo"}
                     /\ idle' \in Seq(Instance)
                     /\ Distinct(idle')
                     /\ maxInputBytes' \in BOOLEAN
                     /\ failed' \subseteq made'
<1> USE DEF Goto, Hand, TypeOK, GuestInv, PoolAssumption
<1>1. ASSUME NEW t \in Caller, PollFirst(t)
      PROVE  Places
    <2>1. CASE idle # <<>>
        <3>1. Head(idle) \in Instance
            BY <2>1
        <3>2. idle' \in Seq(Instance) /\ Distinct(idle')
            BY <1>1, <2>1, GuestIdleStep
        <3> QED
            BY <1>1, <2>1, <3>1, <3>2 DEF PollFirst
    <2>2. CASE idle = <<>>
        BY <1>1, <2>2 DEF PollFirst
    <2> QED
        BY <2>1, <2>2
<1>2. ASSUME NEW t \in Caller, fresh(t)
      PROVE  Places
    BY <1>2 DEF fresh
<1>3. ASSUME NEW t \in Caller, Run(t)
      PROVE  Places
    BY <1>3 DEF Run, GuestAsPool!PoolInv, GuestAsPool!Known
<1>4. ASSUME NEW t \in Caller, OfferFirst(t)
      PROVE  Places
    <2>1. idle' \in Seq(Instance) /\ Distinct(idle')
        BY <1>4, GuestIdleStep
    <2> QED
        BY <1>4, <2>1 DEF OfferFirst
<1>5. ASSUME NEW t \in Caller, Undo(t) \/ Count(t) \/ Increment(t)
      PROVE  Places
    BY <1>5 DEF Undo, Count, Increment
<1>6. CASE UNCHANGED vars
    BY <1>6 DEF vars
<1> QED
    BY <1>1, <1>2, <1>3, <1>4, <1>5, <1>6 DEF Next

\* The counter is the deque's length and the threads between the two updates,
\* and it admits no more of them than the pool may keep.
LEMMA GuestCounter ==
    ASSUME GuestInv, PoolAssumption, [Next]_vars
    PROVE  /\ idleCount' = Len(idle') + Cardinality(ThreadsAt(Caller, pc', Ahead))
           /\ Len(idle') + Cardinality(ThreadsAt(Caller, pc', {"offer"})) <= maxIdle
           /\ idleCount' \in Nat
<1> DEFINE n == Cardinality(ThreadsAt(Caller, pc, Ahead))
           m == Cardinality(ThreadsAt(Caller, pc, {"offer"}))
           Counted == idleCount' = Len(idle') + n' /\ Len(idle') + m' <= maxIdle
           Moves(t) == \A u \in Caller \ {t} : pc'[u] = pc[u]
<1>1. IsFiniteSet(Caller) /\ maxIdle \in Nat /\ Len(idle) \in Nat
    BY DEF PoolAssumption, GuestInv, TypeOK
<1>2. n \in Nat /\ m \in Nat /\ idleCount = Len(idle) + n /\ Len(idle) + m <= maxIdle
    BY <1>1, AtFinite DEF GuestInv
<1>3. n' \in Nat /\ m' \in Nat /\ Len(idle') \in Nat
    BY <1>1, AtFinite, GuestPlaces
<1>4. m <= n
    <2>1. ThreadsAt(Caller, pc, {"offer"}) \subseteq ThreadsAt(Caller, pc, Ahead)
        BY DEF ThreadsAt, Ahead
    <2> QED
        BY <2>1, <1>1, AtFinite, FS_Subset
<1>5. ASSUME NEW t \in Caller, Moves(t)
      PROVE  /\ n' = IF pc[t] \in Ahead <=> pc'[t] \in Ahead THEN n
                     ELSE IF pc'[t] \in Ahead THEN n + 1 ELSE n - 1
             /\ m' = IF pc[t] = "offer" <=> pc'[t] = "offer" THEN m
                     ELSE IF pc'[t] = "offer" THEN m + 1 ELSE m - 1
    <2>1. n' = IF pc[t] \in Ahead <=> pc'[t] \in Ahead THEN n
                     ELSE IF pc'[t] \in Ahead THEN n + 1 ELSE n - 1
        BY <1>1, <1>5, AtMoves
    <2> DEFINE O == {"offer"}
    <2>2. Cardinality(ThreadsAt(Caller, pc', O)) =
             IF pc[t] \in O <=> pc'[t] \in O THEN Cardinality(ThreadsAt(Caller, pc, O))
             ELSE IF pc'[t] \in O THEN Cardinality(ThreadsAt(Caller, pc, O)) + 1
             ELSE Cardinality(ThreadsAt(Caller, pc, O)) - 1
        <3> HIDE DEF O
        <3> QED
            BY <1>1, <1>5, AtMoves
    <2> QED
        BY <2>1, <2>2
<1>6. pc \in [Caller -> {"poll", "count", "fresh", "run", "increment", "offer", "undo"}]
    BY DEF GuestInv, TypeOK
<1> HIDE DEF n, m
<1>7. ASSUME NEW t \in Caller, PollFirst(t)
      PROVE  Counted
    <2>1. CASE idle # <<>>
        <3>1. Moves(t) /\ pc[t] = "poll" /\ pc'[t] = "count" /\ idleCount' = idleCount
            BY <1>7, <2>1, <1>6 DEF PollFirst, Goto
        <3>2. n' = n + 1 /\ m' = m
            BY <3>1, <1>5 DEF Ahead
        <3>3. Len(idle') = Len(idle) - 1
            BY <1>7, <2>1, GuestIdleStep
        <3> QED
            BY <3>1, <3>2, <3>3, <1>1, <1>2
    <2>2. CASE idle = <<>>
        <3>1. Moves(t) /\ pc[t] = "poll" /\ pc'[t] = "fresh" /\ UNCHANGED <<idle, idleCount>>
            BY <1>7, <2>2, <1>6 DEF PollFirst, Goto
        <3>2. n' = n /\ m' = m
            BY <3>1, <1>5 DEF Ahead
        <3> QED
            BY <3>1, <3>2, <1>2
    <2> QED
        BY <2>1, <2>2
<1>8. ASSUME NEW t \in Caller, Count(t) \/ Undo(t)
      PROVE  Counted
    <2>1. /\ Moves(t) /\ pc[t] \in {"count", "undo"} /\ pc'[t] \in {"run", "poll"}
          /\ idleCount' = idleCount - 1 /\ idle' = idle
        BY <1>8, <1>6 DEF Count, Undo, Goto
    <2>2. n' = n - 1 /\ m' = m
        BY <2>1, <1>5 DEF Ahead
    <2> QED
        BY <2>1, <2>2, <1>1, <1>2
<1>9. ASSUME NEW t \in Caller, fresh(t) \/ Run(t)
      PROVE  Counted
    <2>1. /\ Moves(t) /\ pc[t] \in {"fresh", "run"} /\ pc'[t] \in {"poll", "run", "increment"}
          /\ UNCHANGED <<idle, idleCount>>
        BY <1>9, <1>6 DEF fresh, Run, Goto
    <2>2. n' = n /\ m' = m
        BY <2>1, <1>5 DEF Ahead
    <2> QED
        BY <2>1, <2>2, <1>2
<1>10. ASSUME NEW t \in Caller, Increment(t)
       PROVE  Counted
    <2>1. /\ Moves(t) /\ pc[t] = "increment"
          /\ pc'[t] = IF idleCount + 1 <= maxIdle THEN "offer" ELSE "undo"
          /\ idleCount' = idleCount + 1 /\ idle' = idle
        BY <1>10, <1>6 DEF Increment, Goto
    <2>2. n' = n + 1
        BY <2>1, <1>5 DEF Ahead
    <2>3. m' = IF idleCount + 1 <= maxIdle THEN m + 1 ELSE m
        BY <2>1, <1>5 DEF Ahead
    <2> QED
        BY <2>1, <2>2, <2>3, <1>1, <1>2, <1>4
<1>11. ASSUME NEW t \in Caller, OfferFirst(t)
       PROVE  Counted
    <2>1. Moves(t) /\ pc[t] = "offer" /\ pc'[t] = "poll" /\ idleCount' = idleCount
        BY <1>11, <1>6 DEF OfferFirst, Goto
    <2>2. n' = n - 1 /\ m' = m - 1
        BY <2>1, <1>5 DEF Ahead
    <2>3. Len(idle') = Len(idle) + 1
        BY <1>11, GuestIdleStep
    <2> QED
        BY <2>1, <2>2, <2>3, <1>1, <1>2
<1>12. ASSUME UNCHANGED vars
       PROVE  Counted
    <2>1. pc' = pc /\ idle' = idle /\ idleCount' = idleCount
        BY <1>12 DEF vars
    <2>2. n' = n /\ m' = m
        BY <2>1 DEF n, m
    <2> QED
        BY <2>1, <2>2, <1>2
<1>13. Counted
    BY <1>7, <1>8, <1>9, <1>10, <1>11, <1>12 DEF Next
<1> QED
    BY <1>3, <1>13 DEF n, m

\* The inductive invariant holds of every behaviour of the pool.
LEMMA GuestInvariant == PoolAssumption => (Spec => []GuestInv)
<1> SUFFICES ASSUME PoolAssumption
             PROVE  Spec => []GuestInv
    OBVIOUS
<1>1. Init => GuestInv
    <2> SUFFICES ASSUME Init
                 PROVE  GuestInv
        OBVIOUS
    <2>1. \/ idle = <<>> /\ idleCount = 0 /\ Len(idle) = 0
          \/ /\ \E i \in Instance : idle = <<i>>
             /\ idleCount = 1 /\ Len(idle) = 1 /\ maxIdle > 0
        BY DEF Init
    <2>2. idle \in Seq(Instance) /\ Distinct(idle) /\ Idle \subseteq Instance /\ made = Idle
        <3>1. made = Idle
            BY DEF Init, Idle
        <3>2. CASE idle = <<>>
            BY <3>1, <3>2 DEF Distinct, Idle
        <3>3. ASSUME NEW i \in Instance, idle = <<i>>
              PROVE  idle \in Seq(Instance) /\ Distinct(idle) /\ Idle \subseteq Instance
            BY <3>3 DEF Distinct, Idle
        <3> QED
            BY <2>1, <3>1, <3>2, <3>3
    <2>3. GuestAsPool!PoolInv
        BY <2>2 DEF Init, PoolAssumption, GuestAsPool!PoolInv, GuestAsPool!TypeOK,
                    GuestAsPool!Known, GuestAsPool!OneCallEach, GuestAsPool!FailedIsGone
    <2>4. \A t \in Caller : pc[t] = "poll" /\ guest[t] = Nobody
        BY DEF Init
    <2>5. ThreadsAt(Caller, pc, Ahead) = {} /\ ThreadsAt(Caller, pc, {"offer"}) = {}
        BY <2>4 DEF ThreadsAt, Ahead
    <2>6. Cardinality({}) = 0
        BY FS_EmptySet
    <2>7. Cardinality(ThreadsAt(Caller, pc, Ahead)) = 0 /\ Cardinality(ThreadsAt(Caller, pc, {"offer"})) = 0
        BY <2>5, <2>6, Zenon
    <2>8. TypeOK
        <3>1. idleCount \in Nat /\ maxInputBytes \in BOOLEAN
            <4>1. \/ idleCount = 0 /\ maxInputBytes = FALSE
                  \/ idleCount = 1 /\ maxInputBytes = TRUE
                BY Zenon DEF Init
            <4>2. idleCount \in {0, 1} /\ maxInputBytes \in BOOLEAN
                BY <4>1, Zenon
            <4> QED
                BY <4>2
        <3> QED
            BY <3>1, <2>2 DEF Init, TypeOK
    <2>9. /\ idleCount = Len(idle) + Cardinality(ThreadsAt(Caller, pc, Ahead))
          /\ Len(idle) + Cardinality(ThreadsAt(Caller, pc, {"offer"})) <= maxIdle
        <3>1. Len(idle) = idleCount /\ Len(idle) \in Nat /\ Len(idle) <= maxIdle
            <4>1. \/ Len(idle) = 0 /\ idleCount = 0
                  \/ Len(idle) = 1 /\ idleCount = 1 /\ maxIdle > 0
                BY <2>1, Zenon
            <4>2. CASE Len(idle) = 0
                BY <4>1, <4>2 DEF PoolAssumption
            <4>3. CASE Len(idle) = 1
                BY <4>1, <4>3 DEF PoolAssumption
            <4> QED
                BY <4>1, <4>2, <4>3, Zenon
        <3> QED
            BY <3>1, <2>7
    <2> QED
        BY <2>2, <2>3, <2>4, <2>8, <2>9 DEF GuestInv
<1>2. GuestInv /\ [Next]_vars => GuestInv'
    <2> SUFFICES ASSUME GuestInv, [Next]_vars
                 PROVE  GuestInv'
        OBVIOUS
    <2>1. GuestAsPool!PoolInv'
        BY GuestStep, GuestAsPool!StepInv DEF GuestInv, PoolAssumption
    <2>2. TypeOK'
        BY <2>1, GuestPlaces, GuestCounter DEF TypeOK, GuestAsPool!PoolInv, GuestAsPool!TypeOK
    <2> QED
        BY <2>1, <2>2, GuestPlaces, GuestCounter DEF GuestInv
<1> QED
    BY <1>1, <1>2, PTL DEF Spec

\* The counter of java-wasm's GuestPool may run ahead of the deque, never
\* behind it, and is right again when no call is between the two updates.
THEOREM CounterCatchesUpCorrect == PoolAssumption => (Spec => []CounterCatchesUp)
<1> SUFFICES ASSUME PoolAssumption
             PROVE  Spec => []CounterCatchesUp
    OBVIOUS
<1>1. GuestInv => CounterCatchesUp
    <2> SUFFICES ASSUME GuestInv
                 PROVE  CounterCatchesUp
        OBVIOUS
    <2>1. /\ Cardinality(ThreadsAt(Caller, pc, Ahead)) \in Nat
          /\ ThreadsAt(Caller, pc, Ahead) = {} => Cardinality(ThreadsAt(Caller, pc, Ahead)) = 0
        BY AtFinite DEF PoolAssumption
    <2>2. (\A t \in Caller : pc[t] \in {"poll", "fresh", "run"}) => ThreadsAt(Caller, pc, Ahead) = {}
        BY DEF ThreadsAt, Ahead
    <2>3. Len(idle) \in Nat /\ idleCount = Len(idle) + Cardinality(ThreadsAt(Caller, pc, Ahead))
        BY DEF GuestInv, TypeOK
    <2> QED
        BY <2>1, <2>2, <2>3 DEF CounterCatchesUp
<1> QED
    BY <1>1, GuestInvariant, PTL

\* java-wasm's GuestPool implements InstancePool: at most maxIdle instances
\* are kept, whatever the counter says meanwhile.
THEOREM GuestPoolImplements == PoolAssumption => (Spec => ImplementsPool)
<1> SUFFICES ASSUME PoolAssumption
             PROVE  Spec => ImplementsPool
    OBVIOUS
<1>1. Init => Abstract!Init
    BY DEF Init, Idle, Abstract!Init
<1>2. GuestInv /\ [Next]_vars => [Abstract!Next]_(Abstract!vars)
    BY GuestStep DEF Abstract!Next, Abstract!Take, Abstract!Make, Abstract!MakeFails,
          Abstract!CallFails, Abstract!Keep, Abstract!LetGo, Abstract!vars, Abstract!Cardinality,
          GuestAsPool!Next, GuestAsPool!Take, GuestAsPool!Make, GuestAsPool!MakeFails,
          GuestAsPool!CallFails, GuestAsPool!Keep, GuestAsPool!LetGo, GuestAsPool!vars, GuestAsPool!Cardinality
<1> QED
    BY <1>1, <1>2, GuestInvariant, PTL DEF Spec, ImplementsPool, Abstract!Spec

\* So an instance is in one call's hands or in the deque, once, and one whose
\* call or init threw is in neither again.
THEOREM GuestPoolKeepsPromises ==
    PoolAssumption => (Spec => [](GuestAsPool!OneCallEach /\ GuestAsPool!FailedIsGone))
<1> SUFFICES ASSUME PoolAssumption
             PROVE  Spec => [](GuestAsPool!OneCallEach /\ GuestAsPool!FailedIsGone)
    OBVIOUS
<1>1. GuestInv => GuestAsPool!OneCallEach /\ GuestAsPool!FailedIsGone
    BY DEF GuestInv, GuestAsPool!PoolInv
<1> QED
    BY <1>1, GuestInvariant, PTL

-----------------------------------------------------------------------------
(* Python's _Pool *)

\* Where a thread has a slot of the semaphore, and where it accounts for an
\* instance.
Slotted == {"pop", "create", "call", "append", "finally"}
InUse == {"create", "call", "append"}

PythonInv ==
    /\ free \in Seq(Instance)
    /\ slots \in Nat
    /\ pyPc \in [Caller -> {"idle", "acquire"} \cup Slotted]
    /\ PythonAsPool!PoolInv
    /\ \A t \in Caller : instance[t] # Nobody <=> pyPc[t] \in {"call", "append"}
    /\ Distinct(free)
    /\ slots + Cardinality(ThreadsAt(Caller, pyPc, Slotted)) = maxIdle
    /\ Len(free) + Cardinality(ThreadsAt(Caller, pyPc, InUse)) <= maxIdle

\* The list as the set the abstract pool keeps.
LEMMA PythonFree ==
    ASSUME PythonInv
    PROVE  Python!ToSet(free) = Elements(free) /\ Cardinality(Python!ToSet(free)) = Len(free)
<1>1. Python!ToSet(free) = Elements(free)
    BY DEF Python!ToSet, Elements
<1> QED
    BY <1>1, DistinctCount DEF PythonInv

\* What pop and append do to the list.
LEMMA PythonFreeStep ==
    ASSUME PythonInv, Python!PythonPoolAssumption, NEW t \in Caller
    PROVE  /\ Python!pop(t) /\ free # <<>> =>
                /\ Python!Last(free) \in Instance /\ Python!Last(free) \in Python!ToSet(free)
                /\ Python!ToSet(free)' = Python!ToSet(free) \ {Python!Last(free)}
                /\ free' \in Seq(Instance) /\ Len(free') = Len(free) - 1 /\ Distinct(free')
           /\ Python!append(t) =>
                /\ instance[t] \in Instance
                /\ Python!ToSet(free)' = Python!ToSet(free) \cup {instance[t]}
                /\ free' \in Seq(Instance) /\ Len(free') = Len(free) + 1 /\ Distinct(free')
<1>1. Python!ToSet(free) = Elements(free) /\ Python!ToSet(free)' = Elements(free')
    BY DEF Python!ToSet, Elements
<1>2. free \in Seq(Instance) /\ Distinct(free)
    BY DEF PythonInv
<1>3. ASSUME Python!pop(t), free # <<>>
      PROVE  /\ Python!Last(free) \in Instance /\ Python!Last(free) \in Python!ToSet(free)
             /\ Python!ToSet(free)' = Python!ToSet(free) \ {Python!Last(free)}
             /\ free' \in Seq(Instance) /\ Len(free') = Len(free) - 1 /\ Distinct(free')
    <2>1. free' = SubSeq(free, 1, Len(free) - 1) /\ Python!Last(free) = free[Len(free)]
        BY <1>3 DEF Python!pop, Python!Front, Python!Last
    <2>2. /\ free' \in Seq(Instance) /\ Len(free') = Len(free) - 1
          /\ free[Len(free)] \in Elements(free) \cap Instance
          /\ Elements(free) = Elements(free') \cup {free[Len(free)]}
          /\ Distinct(free') /\ free[Len(free)] \notin Elements(free')
        BY <2>1, <1>2, <1>3, FrontElements
    <2> QED
        BY <1>1, <2>1, <2>2
<1>4. ASSUME Python!append(t)
      PROVE  /\ instance[t] \in Instance
             /\ Python!ToSet(free)' = Python!ToSet(free) \cup {instance[t]}
             /\ free' \in Seq(Instance) /\ Len(free') = Len(free) + 1 /\ Distinct(free')
    <2>1. free' = Append(free, instance[t])
        BY <1>4 DEF Python!append
    <2>2. instance[t] \in Instance
        BY <1>4 DEF Python!append, Python!Goto, PythonInv, PythonAsPool!PoolInv, PythonAsPool!TypeOK
    <2>3. instance[t] \notin Elements(free)
        BY <1>1 DEF PythonInv, PythonAsPool!PoolInv, PythonAsPool!OneCallEach
    <2>4. free' \in Seq(Instance) /\ Len(free') = Len(free) + 1
        BY <2>1, <2>2, <1>2
    <2> QED
        BY <1>1, <1>2, <2>1, <2>2, <2>3, <2>4, AppendElements
<1> QED
    BY <1>3, <1>4

\* Every step is a step of the abstract pool, or one it does not see.
LEMMA PythonStep ==
    ASSUME PythonInv, Python!PythonPoolAssumption, [Python!Next]_(Python!vars)
    PROVE  [PythonAsPool!Next]_(PythonAsPool!vars)
<1> DEFINE Unseen == UNCHANGED PythonAsPool!vars
<1> USE DEF Python!Goto, Python!Borrow, PythonAsPool!vars, PythonAsPool!Next
<1>1. ASSUME NEW t \in Caller, Python!pop(t)
      PROVE  PythonAsPool!Take(t) \/ Unseen
    <2>1. CASE free # <<>>
        <3>1. /\ Python!Last(free) \in Python!ToSet(free)
              /\ Python!ToSet(free)' = Python!ToSet(free) \ {Python!Last(free)}
            BY <1>1, <2>1, PythonFreeStep
        <3> QED
            BY <1>1, <2>1, <3>1 DEF Python!pop, PythonAsPool!Take, PythonInv
    <2>2. CASE free = <<>>
        BY <1>1, <2>2 DEF Python!pop, Python!ToSet
    <2> QED
        BY <2>1, <2>2
<1>2. ASSUME NEW t \in Caller, Python!create(t)
      PROVE  PythonAsPool!Make(t) \/ PythonAsPool!MakeFails(t) \/ Unseen
    <2>1. instance[t] = Nobody /\ Python!ToSet(free)' = Python!ToSet(free)
        BY <1>2 DEF Python!create, PythonInv, Python!ToSet
    <2> QED
        BY <1>2, <2>1 DEF Python!create, PythonAsPool!Make, PythonAsPool!MakeFails
<1>3. ASSUME NEW t \in Caller, Python!call(t)
      PROVE  PythonAsPool!CallFails(t) \/ PythonAsPool!LetGo(t) \/ Unseen
    BY <1>3 DEF Python!call, Python!Drop, PythonAsPool!CallFails, PythonAsPool!LetGo, PythonInv, Python!ToSet
<1>4. ASSUME NEW t \in Caller, Python!append(t)
      PROVE  PythonAsPool!Keep(t)
    <2>1. Cardinality(Python!ToSet(free)) < maxIdle
        <3> DEFINE n == Cardinality(ThreadsAt(Caller, pyPc, InUse))
        <3>1. n \in Nat /\ n # 0
            <4>1. t \in ThreadsAt(Caller, pyPc, InUse)
                BY <1>4 DEF Python!append, ThreadsAt, InUse
            <4> QED
                BY <4>1, AtFinite DEF Python!PythonPoolAssumption, Python!IsFiniteSet, IsFiniteSet
        <3>2. /\ Cardinality(Python!ToSet(free)) = Len(free) /\ Len(free) \in Nat /\ maxIdle \in Nat
              /\ Len(free) + n <= maxIdle
            BY PythonFree DEF PythonInv, Python!PythonPoolAssumption
        <3> HIDE DEF n
        <3> QED
            BY <3>1, <3>2
    <2>2. instance[t] # Nobody
        BY <1>4 DEF Python!append, PythonInv
    <2>3. Python!ToSet(free)' = Python!ToSet(free) \cup {instance[t]}
        BY <1>4, PythonFreeStep
    <2> QED
        BY <1>4, <2>1, <2>2, <2>3, SameCardinality DEF Python!append, PythonAsPool!Keep
<1>5. ASSUME NEW t \in Caller, Python!Begin(t) \/ Python!acquire(t) \/ Python!release(t)
      PROVE  Unseen
    BY <1>5 DEF Python!Begin, Python!acquire, Python!release, Python!ToSet
<1>6. CASE UNCHANGED Python!vars
    BY <1>6 DEF Python!vars, Python!ToSet
<1> QED
    BY <1>1, <1>2, <1>3, <1>4, <1>5, <1>6 DEF Python!Next

\* A thread has an instance exactly during its call, and the list never holds
\* one twice.
LEMMA PythonPlaces ==
    ASSUME PythonInv, Python!PythonPoolAssumption, [Python!Next]_(Python!vars)
    PROVE  /\ pyPc' \in [Caller -> {"idle", "acquire"} \cup Slotted]
           /\ \A t \in Caller : (instance[t] # Nobody)' <=> pyPc'[t] \in {"call", "append"}
           /\ free' \in Seq(Instance)
           /\ Distinct(free')
<1> DEFINE Places == /\ pyPc' \in [Caller -> {"idle", "acquire"} \cup Slotted]
                     /\ \A t \in Caller : (instance[t] # Nobody)' <=> pyPc'[t] \in {"call", "append"}
                     /\ free' \in Seq(Instance)
                     /\ Distinct(free')
<1>1. /\ pyPc \in [Caller -> {"idle", "acquire"} \cup Slotted]
      /\ \A t \in Caller : instance[t] # Nobody <=> pyPc[t] \in {"call", "append"}
      /\ instance \in [Caller -> Instance \cup {Nobody}]
      /\ free \in Seq(Instance) /\ Distinct(free) /\ Nobody \notin Instance
    BY DEF PythonInv, PythonAsPool!PoolInv, PythonAsPool!TypeOK, Python!PythonPoolAssumption
<1> USE DEF Python!Goto, Python!Borrow, Slotted
<1>2. ASSUME NEW t \in Caller, Python!pop(t)
      PROVE  Places
    <2>1. CASE free # <<>>
        <3>1. Python!Last(free) \in Instance /\ free' \in Seq(Instance) /\ Distinct(free')
            BY <1>2, <2>1, PythonFreeStep
        <3> QED
            BY <1>1, <1>2, <2>1, <3>1 DEF Python!pop
    <2>2. CASE free = <<>>
        BY <1>1, <1>2, <2>2 DEF Python!pop
    <2> QED
        BY <2>1, <2>2
<1>3. ASSUME NEW t \in Caller, Python!append(t)
      PROVE  Places
    <2>1. free' \in Seq(Instance) /\ Distinct(free')
        BY <1>3, PythonFreeStep
    <2> QED
        BY <1>1, <1>3, <2>1 DEF Python!append
<1>4. ASSUME NEW t \in Caller, Python!create(t)
      PROVE  Places
    BY <1>1, <1>4 DEF Python!create
<1>5. ASSUME NEW t \in Caller, Python!call(t)
      PROVE  Places
    BY <1>1, <1>5 DEF Python!call, Python!Drop
<1>6. ASSUME NEW t \in Caller, Python!Begin(t) \/ Python!acquire(t) \/ Python!release(t)
      PROVE  Places
    BY <1>1, <1>6 DEF Python!Begin, Python!acquire, Python!release
<1>7. CASE UNCHANGED Python!vars
    BY <1>1, <1>7 DEF Python!vars
<1> QED
    BY <1>2, <1>3, <1>4, <1>5, <1>6, <1>7 DEF Python!Next

\* The semaphore counts the threads between acquire and release, and they
\* account for all the instances but those in the list: a thread that finds
\* the list empty may make one because its slot is one of size.
LEMMA PythonSlots ==
    ASSUME PythonInv, Python!PythonPoolAssumption, [Python!Next]_(Python!vars)
    PROVE  /\ slots' \in Nat
           /\ slots' + Cardinality(ThreadsAt(Caller, pyPc', Slotted)) = maxIdle
           /\ Len(free') + Cardinality(ThreadsAt(Caller, pyPc', InUse)) <= maxIdle
<1> DEFINE n == Cardinality(ThreadsAt(Caller, pyPc, Slotted))
           m == Cardinality(ThreadsAt(Caller, pyPc, InUse))
           Counted == slots' \in Nat /\ slots' + n' = maxIdle /\ Len(free') + m' <= maxIdle
           Moves(t) == \A u \in Caller \ {t} : pyPc'[u] = pyPc[u]
<1>1. IsFiniteSet(Caller) /\ maxIdle \in Nat /\ Len(free) \in Nat /\ slots \in Nat
    BY DEF Python!PythonPoolAssumption, PythonInv, Python!IsFiniteSet, IsFiniteSet
<1>2. n \in Nat /\ m \in Nat /\ slots + n = maxIdle /\ Len(free) + m <= maxIdle
    BY <1>1, AtFinite DEF PythonInv
<1>3. n' \in Nat /\ m' \in Nat /\ Len(free') \in Nat
    BY <1>1, AtFinite, PythonPlaces
<1>4. ASSUME NEW t \in Caller, pyPc[t] = "pop"
      PROVE  m + 1 <= n
    <2> DEFINE A == ThreadsAt(Caller, pyPc, InUse)
               B == ThreadsAt(Caller, pyPc, Slotted)
    <2>1. A \cup {t} \in SUBSET B /\ t \notin A
        BY <1>4 DEF ThreadsAt, InUse, Slotted
    <2>2. IsFiniteSet(A) /\ IsFiniteSet(B)
        BY <1>1, AtFinite
    <2> HIDE DEF A, B
    <2>3. Cardinality(A \cup {t}) = Cardinality(A) + 1
        BY <2>1, <2>2, FS_AddElement
    <2>4. Cardinality(A \cup {t}) <= Cardinality(B)
        BY <2>1, <2>2, FS_Subset
    <2> QED
        BY <2>3, <2>4 DEF A, B
<1>5. ASSUME NEW t \in Caller, Moves(t)
      PROVE  /\ n' = IF pyPc[t] \in Slotted <=> pyPc'[t] \in Slotted THEN n
                     ELSE IF pyPc'[t] \in Slotted THEN n + 1 ELSE n - 1
             /\ m' = IF pyPc[t] \in InUse <=> pyPc'[t] \in InUse THEN m
                     ELSE IF pyPc'[t] \in InUse THEN m + 1 ELSE m - 1
    BY <1>1, <1>5, AtMoves
<1>6. pyPc \in [Caller -> {"idle", "acquire"} \cup Slotted]
    BY DEF PythonInv
<1> HIDE DEF n, m
<1>7. ASSUME NEW t \in Caller, Python!Begin(t)
      PROVE  Counted
    <2>1. Moves(t) /\ pyPc[t] = "idle" /\ pyPc'[t] = "acquire" /\ UNCHANGED <<slots, free>>
        BY <1>6, <1>7 DEF Python!Begin, Python!Goto
    <2>2. n' = n /\ m' = m
        BY <2>1, <1>5 DEF Slotted, InUse
    <2> QED
        BY <2>1, <2>2, <1>1, <1>2
<1>8. ASSUME NEW t \in Caller, Python!acquire(t)
      PROVE  Counted
    <2>1. /\ Moves(t) /\ pyPc[t] = "acquire" /\ pyPc'[t] = "pop"
          /\ slots > 0 /\ slots' = slots - 1 /\ free' = free
        BY <1>6, <1>8 DEF Python!acquire, Python!Goto
    <2>2. n' = n + 1 /\ m' = m
        BY <2>1, <1>5 DEF Slotted, InUse
    <2> QED
        BY <2>1, <2>2, <1>1, <1>2
<1>9. ASSUME NEW t \in Caller, Python!pop(t)
      PROVE  Counted
    <2>1. Moves(t) /\ pyPc[t] = "pop" /\ pyPc'[t] \in {"create", "call"} /\ slots' = slots
        BY <1>6, <1>9 DEF Python!pop, Python!Goto
    <2>2. n' = n /\ m' = m + 1
        BY <2>1, <1>5 DEF Slotted, InUse
    <2>3. CASE free # <<>>
        <3>1. Len(free') = Len(free) - 1
            BY <1>9, <2>3, PythonFreeStep
        <3> QED
            BY <2>1, <2>2, <3>1, <1>1, <1>2
    <2>4. CASE free = <<>>
        <3>1. Len(free') = 0
            BY <1>9, <2>4 DEF Python!pop
        <3> QED
            BY <2>1, <2>2, <3>1, <1>1, <1>2, <1>4
    <2> QED
        BY <2>3, <2>4
<1>10. ASSUME NEW t \in Caller, Python!create(t) \/ Python!call(t)
       PROVE  Counted
    <2>1. /\ Moves(t) /\ pyPc[t] \in {"create", "call"} /\ pyPc'[t] \in {"finally", "call", "append"}
          /\ UNCHANGED <<slots, free>>
        BY <1>6, <1>10 DEF Python!create, Python!call, Python!Drop, Python!Goto
    <2>2. n' = n /\ m' <= m
        BY <2>1, <1>2, <1>5 DEF Slotted, InUse
    <2> QED
        BY <2>1, <2>2, <1>1, <1>2, <1>3
<1>11. ASSUME NEW t \in Caller, Python!append(t)
       PROVE  Counted
    <2>1. Moves(t) /\ pyPc[t] = "append" /\ pyPc'[t] = "finally" /\ slots' = slots
        BY <1>6, <1>11 DEF Python!append, Python!Goto
    <2>2. n' = n /\ m' = m - 1
        BY <2>1, <1>5 DEF Slotted, InUse
    <2>3. Len(free') = Len(free) + 1
        BY <1>11, PythonFreeStep
    <2> QED
        BY <2>1, <2>2, <2>3, <1>1, <1>2
<1>12. ASSUME NEW t \in Caller, Python!release(t)
       PROVE  Counted
    <2>1. /\ Moves(t) /\ pyPc[t] = "finally" /\ pyPc'[t] = "idle"
          /\ slots' = slots + 1 /\ free' = free
        BY <1>6, <1>12 DEF Python!release, Python!Goto
    <2>2. n' = n - 1 /\ m' = m
        BY <2>1, <1>5 DEF Slotted, InUse
    <2> QED
        BY <2>1, <2>2, <1>1, <1>2
<1>13. ASSUME UNCHANGED Python!vars
       PROVE  Counted
    <2>1. pyPc' = pyPc /\ free' = free /\ slots' = slots
        BY <1>13 DEF Python!vars
    <2>2. n' = n /\ m' = m
        BY <2>1 DEF n, m
    <2> QED
        BY <2>1, <2>2, <1>1, <1>2
<1>14. Counted
    BY <1>7, <1>8, <1>9, <1>10, <1>11, <1>12, <1>13 DEF Python!Next
<1> QED
    BY <1>14 DEF n, m

\* The inductive invariant holds of every behaviour of the pool.
LEMMA PythonInvariant == Python!PythonPoolAssumption => (Python!Spec => []PythonInv)
<1> SUFFICES ASSUME Python!PythonPoolAssumption
             PROVE  Python!Spec => []PythonInv
    OBVIOUS
<1>1. Python!Init => PythonInv
    <2> SUFFICES ASSUME Python!Init
                 PROVE  PythonInv
        OBVIOUS
    <2>1. PICK i \in Instance : free = <<i>>
        BY DEF Python!Init
    <2>2. /\ free \in Seq(Instance) /\ Distinct(free) /\ Len(free) = 1
          /\ Python!ToSet(free) \subseteq Instance /\ pyMade = Python!ToSet(free)
        BY <2>1 DEF Python!Init, Distinct, Python!ToSet
    <2>3. PythonAsPool!PoolInv
        BY <2>2 DEF Python!Init, Python!PythonPoolAssumption, PythonAsPool!PoolInv, PythonAsPool!TypeOK,
                    PythonAsPool!Known, PythonAsPool!OneCallEach, PythonAsPool!FailedIsGone
    <2>4. \A t \in Caller : pyPc[t] = "idle" /\ instance[t] = Nobody
        BY DEF Python!Init
    <2>5. ThreadsAt(Caller, pyPc, Slotted) = {} /\ ThreadsAt(Caller, pyPc, InUse) = {}
        BY <2>4 DEF ThreadsAt, Slotted, InUse
    <2>6. Cardinality({}) = 0
        BY FS_EmptySet
    <2>7. Cardinality(ThreadsAt(Caller, pyPc, Slotted)) = 0 /\ Cardinality(ThreadsAt(Caller, pyPc, InUse)) = 0
        BY <2>5, <2>6, Zenon
    <2>8. slots \in Nat /\ slots = maxIdle /\ 1 <= maxIdle /\ pyPc \in [Caller -> {"idle", "acquire"} \cup Slotted]
        BY DEF Python!Init, Python!PythonPoolAssumption
    <2> QED
        BY <2>2, <2>3, <2>4, <2>7, <2>8 DEF PythonInv
<1>2. PythonInv /\ [Python!Next]_(Python!vars) => PythonInv'
    <2> SUFFICES ASSUME PythonInv, [Python!Next]_(Python!vars)
                 PROVE  PythonInv'
        OBVIOUS
    <2>1. PythonAsPool!PoolInv'
        BY PythonStep, PythonAsPool!StepInv DEF PythonInv, Python!PythonPoolAssumption
    <2> QED
        BY <2>1, PythonPlaces, PythonSlots DEF PythonInv
<1> QED
    BY <1>1, <1>2, PTL DEF Python!Spec

\* _host.py: the instances in use, being made and kept are never more than
\* the pool's size, however many threads call.
THEOREM PythonAtMostSize ==
    Python!PythonPoolAssumption => (Python!Spec => []AtMostSizeInstances)
<1> SUFFICES ASSUME Python!PythonPoolAssumption
             PROVE  Python!Spec => []AtMostSizeInstances
    OBVIOUS
<1>1. PythonInv => AtMostSizeInstances
    <2> SUFFICES ASSUME PythonInv
                 PROVE  AtMostSizeInstances
        OBVIOUS
    <2>1. {t \in Caller : instance[t] # Nobody \/ pyPc[t] = "create"} = ThreadsAt(Caller, pyPc, InUse)
        BY DEF ThreadsAt, InUse, PythonInv
    <2>2. \A S : Python!Cardinality(S) = Cardinality(S)
        BY DEF Python!Cardinality, Cardinality
    <2> QED
        BY <2>1, <2>2 DEF AtMostSizeInstances, Python!AtMostSizeInstances, PythonInv
<1> QED
    BY <1>1, PythonInvariant, PTL

\* _host.py implements InstancePool with room for size idle instances.
THEOREM PythonPoolImplements ==
    Python!PythonPoolAssumption => (Python!Spec => ImplementsInstancePool)
<1> SUFFICES ASSUME Python!PythonPoolAssumption
             PROVE  Python!Spec => ImplementsInstancePool
    OBVIOUS
<1>1. Python!Init => Python!Abstract!Init
    <2> SUFFICES ASSUME Python!Init
                 PROVE  Python!Abstract!Init
        OBVIOUS
    <2>1. PICK i \in Instance : free = <<i>>
        BY DEF Python!Init
    <2>2. Python!ToSet(free) = {i}
        BY <2>1 DEF Python!ToSet
    <2> QED
        BY <2>2 DEF Python!Init, Python!Abstract!Init
<1>2. PythonInv /\ [Python!Next]_(Python!vars) => [Python!Abstract!Next]_(Python!Abstract!vars)
    BY PythonStep DEF Python!Abstract!Next, Python!Abstract!Take, Python!Abstract!Make,
          Python!Abstract!MakeFails, Python!Abstract!CallFails, Python!Abstract!Keep,
          Python!Abstract!LetGo, Python!Abstract!vars, Python!Abstract!Cardinality,
          PythonAsPool!Next, PythonAsPool!Take, PythonAsPool!Make, PythonAsPool!MakeFails,
          PythonAsPool!CallFails, PythonAsPool!Keep, PythonAsPool!LetGo, PythonAsPool!vars,
          PythonAsPool!Cardinality
<1> QED
    BY <1>1, <1>2, PythonInvariant, PTL
    DEF Python!Spec, ImplementsInstancePool, Python!ImplementsInstancePool, Python!Abstract!Spec

\* So it is with Python's list: a borrowed instance is one call's alone, and
\* one whose call or init ended in an exception is never borrowed again.
THEOREM PythonPoolKeepsPromises ==
    Python!PythonPoolAssumption => (Python!Spec => [](PythonAsPool!OneCallEach /\ PythonAsPool!FailedIsGone))
<1> SUFFICES ASSUME Python!PythonPoolAssumption
             PROVE  Python!Spec => [](PythonAsPool!OneCallEach /\ PythonAsPool!FailedIsGone)
    OBVIOUS
<1>1. PythonInv => PythonAsPool!OneCallEach /\ PythonAsPool!FailedIsGone
    BY DEF PythonInv, PythonAsPool!PoolInv
<1> QED
    BY <1>1, PythonInvariant, PTL

-----------------------------------------------------------------------------
(* Ruby's InstancePool *)

\* Where a call has a guest or is about to make one.
Calling == {"new", "yield", "size", "push"}

RubyInv ==
    /\ rbIdle \in Seq(Instance)
    /\ rbPc \in [Caller -> {"checkout", "new", "yield", "size", "push"}]
    /\ RubyAsPool!PoolInv
    /\ \A t \in Caller : rbGuest[t] # Nobody <=> rbPc[t] \in {"yield", "size", "push"}
    /\ Distinct(rbIdle)
    /\ Caller # {} => Len(rbIdle) + Cardinality(ThreadsAt(Caller, rbPc, Calling)) <= Cardinality(Caller)

\* The queue as the set the abstract pool keeps.
LEMMA RubyIdle ==
    ASSUME RubyInv
    PROVE  Ruby!ToSet(rbIdle) = Elements(rbIdle) /\ Cardinality(Ruby!ToSet(rbIdle)) = Len(rbIdle)
<1>1. Ruby!ToSet(rbIdle) = Elements(rbIdle)
    BY DEF Ruby!ToSet, Elements
<1> QED
    BY <1>1, DistinctCount DEF RubyInv

\* What checkout and push do to the queue.
LEMMA RubyIdleStep ==
    ASSUME RubyInv, Ruby!RubyPoolAssumption, NEW t \in Caller
    PROVE  /\ Ruby!checkout(t) /\ rbIdle # <<>> =>
                /\ Head(rbIdle) \in Instance /\ Head(rbIdle) \in Ruby!ToSet(rbIdle)
                /\ Ruby!ToSet(rbIdle)' = Ruby!ToSet(rbIdle) \ {Head(rbIdle)}
                /\ rbIdle' \in Seq(Instance) /\ Len(rbIdle') = Len(rbIdle) - 1 /\ Distinct(rbIdle')
           /\ Ruby!Push(t) =>
                /\ Ruby!ToSet(rbIdle)' = Ruby!ToSet(rbIdle) \cup {rbGuest[t]}
                /\ rbIdle' \in Seq(Instance) /\ Len(rbIdle') = Len(rbIdle) + 1 /\ Distinct(rbIdle')
<1>1. Ruby!ToSet(rbIdle) = Elements(rbIdle) /\ Ruby!ToSet(rbIdle)' = Elements(rbIdle')
    BY DEF Ruby!ToSet, Elements
<1>2. rbIdle \in Seq(Instance) /\ Distinct(rbIdle)
    BY DEF RubyInv
<1>3. ASSUME Ruby!checkout(t), rbIdle # <<>>
      PROVE  /\ Head(rbIdle) \in Instance /\ Head(rbIdle) \in Ruby!ToSet(rbIdle)
             /\ Ruby!ToSet(rbIdle)' = Ruby!ToSet(rbIdle) \ {Head(rbIdle)}
             /\ rbIdle' \in Seq(Instance) /\ Len(rbIdle') = Len(rbIdle) - 1 /\ Distinct(rbIdle')
    <2>1. rbIdle' = Tail(rbIdle)
        BY <1>3 DEF Ruby!checkout
    <2>2. Head(rbIdle) \in Instance /\ rbIdle' \in Seq(Instance) /\ Len(rbIdle') = Len(rbIdle) - 1
        BY <2>1, <1>2, <1>3
    <2>3. /\ Head(rbIdle) \in Elements(rbIdle)
          /\ Elements(rbIdle) = Elements(rbIdle') \cup {Head(rbIdle)}
          /\ Distinct(rbIdle') /\ Head(rbIdle) \notin Elements(rbIdle')
        BY <2>1, <1>2, <1>3, TailElements
    <2> QED
        BY <1>1, <2>2, <2>3
<1>4. ASSUME Ruby!Push(t)
      PROVE  /\ Ruby!ToSet(rbIdle)' = Ruby!ToSet(rbIdle) \cup {rbGuest[t]}
             /\ rbIdle' \in Seq(Instance) /\ Len(rbIdle') = Len(rbIdle) + 1 /\ Distinct(rbIdle')
    <2>1. rbIdle' = Append(rbIdle, rbGuest[t])
        BY <1>4 DEF Ruby!Push
    <2>2. rbGuest[t] \in Instance
        BY <1>4 DEF Ruby!Push, Ruby!Goto, RubyInv, RubyAsPool!PoolInv, RubyAsPool!TypeOK
    <2>3. rbGuest[t] \notin Elements(rbIdle)
        BY <1>1 DEF RubyInv, RubyAsPool!PoolInv, RubyAsPool!OneCallEach
    <2>4. rbIdle' \in Seq(Instance) /\ Len(rbIdle') = Len(rbIdle) + 1
        BY <2>1, <2>2, <1>2
    <2> QED
        BY <1>1, <1>2, <2>1, <2>2, <2>3, <2>4, AppendElements
<1> QED
    BY <1>3, <1>4

\* Every step is a step of the abstract pool, or one it does not see.
LEMMA RubyStep ==
    ASSUME RubyInv, Ruby!RubyPoolAssumption, [Ruby!Next]_(Ruby!vars)
    PROVE  [RubyAsPool!Next]_(RubyAsPool!vars)
<1> DEFINE Unseen == UNCHANGED RubyAsPool!vars
<1> USE DEF Ruby!Goto, Ruby!Hand, RubyAsPool!vars, RubyAsPool!Next
<1>1. ASSUME NEW t \in Caller, Ruby!checkout(t)
      PROVE  RubyAsPool!Take(t) \/ Unseen
    <2>1. CASE rbIdle # <<>>
        <3>1. /\ Head(rbIdle) \in Ruby!ToSet(rbIdle)
              /\ Ruby!ToSet(rbIdle)' = Ruby!ToSet(rbIdle) \ {Head(rbIdle)}
            BY <1>1, <2>1, RubyIdleStep
        <3> QED
            BY <1>1, <2>1, <3>1 DEF Ruby!checkout, RubyAsPool!Take, RubyInv
    <2>2. CASE rbIdle = <<>>
        BY <1>1, <2>2 DEF Ruby!checkout, Ruby!ToSet
    <2> QED
        BY <2>1, <2>2
<1>2. ASSUME NEW t \in Caller, Ruby!new(t)
      PROVE  RubyAsPool!Make(t) \/ RubyAsPool!MakeFails(t) \/ Unseen
    <2>1. rbGuest[t] = Nobody /\ Ruby!ToSet(rbIdle)' = Ruby!ToSet(rbIdle)
        BY <1>2 DEF Ruby!new, RubyInv, Ruby!ToSet
    <2> QED
        BY <1>2, <2>1 DEF Ruby!new, RubyAsPool!Make, RubyAsPool!MakeFails
<1>3. ASSUME NEW t \in Caller, Ruby!yield(t)
      PROVE  RubyAsPool!CallFails(t) \/ Unseen
    BY <1>3 DEF Ruby!yield, RubyAsPool!CallFails, RubyInv, Ruby!ToSet
<1>4. ASSUME NEW t \in Caller, Ruby!Ensure(t) \/ Ruby!Interrupted(t)
      PROVE  RubyAsPool!LetGo(t) \/ Unseen
    BY <1>4 DEF Ruby!Ensure, Ruby!Interrupted, RubyAsPool!LetGo, RubyInv, Ruby!ToSet
<1>5. ASSUME NEW t \in Caller, Ruby!Push(t)
      PROVE  RubyAsPool!Keep(t)
    <2>1. Cardinality(Ruby!ToSet(rbIdle)) < Cardinality(Caller)
        <3> DEFINE n == Cardinality(ThreadsAt(Caller, rbPc, Calling))
        <3>1. n \in Nat /\ n # 0 /\ Cardinality(Caller) \in Nat
            <4>1. t \in ThreadsAt(Caller, rbPc, Calling)
                BY <1>5 DEF Ruby!Push, ThreadsAt, Calling
            <4>2. IsFiniteSet(Caller)
                BY DEF Ruby!RubyPoolAssumption, Ruby!IsFiniteSet, IsFiniteSet
            <4> QED
                BY <4>1, <4>2, AtFinite, FS_CardinalityType
        <3>2. /\ Cardinality(Ruby!ToSet(rbIdle)) = Len(rbIdle) /\ Len(rbIdle) \in Nat
              /\ Len(rbIdle) + n <= Cardinality(Caller)
            BY <1>5, RubyIdle DEF RubyInv, Ruby!RubyPoolAssumption
        <3> HIDE DEF n
        <3> QED
            BY <3>1, <3>2
    <2>2. rbGuest[t] # Nobody
        BY <1>5 DEF Ruby!Push, RubyInv
    <2>3. Ruby!ToSet(rbIdle)' = Ruby!ToSet(rbIdle) \cup {rbGuest[t]}
        BY <1>5, RubyIdleStep
    <2> QED
        BY <1>5, <2>1, <2>2, <2>3, SameCardinality DEF Ruby!Push, RubyAsPool!Keep
<1>6. CASE UNCHANGED Ruby!vars
    BY <1>6 DEF Ruby!vars, Ruby!ToSet
<1> QED
    BY <1>1, <1>2, <1>3, <1>4, <1>5, <1>6 DEF Ruby!Next

\* A thread has a guest exactly from checkout to the end of the ensure, and
\* the queue never holds one twice.
LEMMA RubyPlaces ==
    ASSUME RubyInv, Ruby!RubyPoolAssumption, [Ruby!Next]_(Ruby!vars)
    PROVE  /\ rbPc' \in [Caller -> {"checkout", "new", "yield", "size", "push"}]
           /\ \A t \in Caller : (rbGuest[t] # Nobody)' <=> rbPc'[t] \in {"yield", "size", "push"}
           /\ rbIdle' \in Seq(Instance)
           /\ Distinct(rbIdle')
<1> DEFINE Places == /\ rbPc' \in [Caller -> {"checkout", "new", "yield", "size", "push"}]
                     /\ \A t \in Caller : (rbGuest[t] # Nobody)' <=> rbPc'[t] \in {"yield", "size", "push"}
                     /\ rbIdle' \in Seq(Instance)
                     /\ Distinct(rbIdle')
<1>1. /\ rbPc \in [Caller -> {"checkout", "new", "yield", "size", "push"}]
      /\ \A t \in Caller : rbGuest[t] # Nobody <=> rbPc[t] \in {"yield", "size", "push"}
      /\ rbGuest \in [Caller -> Instance \cup {Nobody}]
      /\ rbIdle \in Seq(Instance) /\ Distinct(rbIdle) /\ Nobody \notin Instance
    BY DEF RubyInv, RubyAsPool!PoolInv, RubyAsPool!TypeOK, Ruby!RubyPoolAssumption
<1> USE DEF Ruby!Goto, Ruby!Hand
<1>2. ASSUME NEW t \in Caller, Ruby!checkout(t)
      PROVE  Places
    <2>1. CASE rbIdle # <<>>
        <3>1. Head(rbIdle) \in Instance /\ rbIdle' \in Seq(Instance) /\ Distinct(rbIdle')
            BY <1>2, <2>1, RubyIdleStep
        <3> QED
            BY <1>1, <1>2, <2>1, <3>1 DEF Ruby!checkout
    <2>2. CASE rbIdle = <<>>
        BY <1>1, <1>2, <2>2 DEF Ruby!checkout
    <2> QED
        BY <2>1, <2>2
<1>3. ASSUME NEW t \in Caller, Ruby!Push(t)
      PROVE  Places
    <2>1. rbIdle' \in Seq(Instance) /\ Distinct(rbIdle')
        BY <1>3, RubyIdleStep
    <2> QED
        BY <1>1, <1>3, <2>1 DEF Ruby!Push
<1>4. ASSUME NEW t \in Caller, Ruby!new(t)
      PROVE  Places
    BY <1>1, <1>4 DEF Ruby!new
<1>5. ASSUME NEW t \in Caller, Ruby!yield(t)
      PROVE  Places
    BY <1>1, <1>5 DEF Ruby!yield
<1>6. ASSUME NEW t \in Caller, Ruby!Ensure(t) \/ Ruby!Interrupted(t)
      PROVE  Places
    BY <1>1, <1>6 DEF Ruby!Ensure, Ruby!Interrupted
<1>7. CASE UNCHANGED Ruby!vars
    BY <1>1, <1>7 DEF Ruby!vars
<1> QED
    BY <1>2, <1>3, <1>4, <1>5, <1>6, <1>7 DEF Ruby!Next

\* A guest is made only when none is idle, so those kept and those in use or
\* being made are together no more than the callers.
LEMMA RubyCap ==
    ASSUME RubyInv, Ruby!RubyPoolAssumption, [Ruby!Next]_(Ruby!vars), Caller # {}
    PROVE  Len(rbIdle') + Cardinality(ThreadsAt(Caller, rbPc', Calling)) <= Cardinality(Caller)
<1> DEFINE m == Cardinality(ThreadsAt(Caller, rbPc, Calling))
           all == Cardinality(Caller)
           Capped == Len(rbIdle') + m' <= all
           Moves(t) == \A u \in Caller \ {t} : rbPc'[u] = rbPc[u]
<1>1. IsFiniteSet(Caller) /\ Len(rbIdle) \in Nat /\ all \in Nat
    <2>1. IsFiniteSet(Caller)
        BY DEF Ruby!RubyPoolAssumption, Ruby!IsFiniteSet, IsFiniteSet
    <2>2. Len(rbIdle) \in Nat
        BY DEF RubyInv
    <2> QED
        BY <2>1, <2>2, FS_CardinalityType
<1>2. Len(rbIdle) + m <= all
    BY DEF RubyInv
<1>3. m \in Nat /\ m' \in Nat /\ m' <= all /\ Len(rbIdle') \in Nat
    BY <1>1, AtFinite, RubyPlaces
<1>4. ASSUME NEW t \in Caller, Moves(t)
      PROVE  m' = IF rbPc[t] \in Calling <=> rbPc'[t] \in Calling THEN m
                  ELSE IF rbPc'[t] \in Calling THEN m + 1 ELSE m - 1
    BY <1>1, <1>4, AtMoves
<1>5. rbPc \in [Caller -> {"checkout", "new", "yield", "size", "push"}]
    BY DEF RubyInv
<1> HIDE DEF m, all
<1>6. ASSUME NEW t \in Caller, Ruby!checkout(t)
      PROVE  Capped
    <2>1. Moves(t) /\ rbPc[t] \notin Calling /\ rbPc'[t] \in Calling
        BY <1>5, <1>6 DEF Ruby!checkout, Ruby!Goto, Calling
    <2>2. m' = m + 1
        BY <2>1, <1>4
    <2>3. CASE rbIdle # <<>>
        <3>1. Len(rbIdle') = Len(rbIdle) - 1
            BY <1>6, <2>3, RubyIdleStep
        <3> QED
            BY <3>1, <2>2, <1>1, <1>2, <1>3
    <2>4. CASE rbIdle = <<>>
        <3>1. rbIdle' = rbIdle /\ Len(rbIdle) = 0
            BY <1>6, <2>4 DEF Ruby!checkout
        <3>2. m + 1 <= all
            BY <2>2, <1>3
        <3>3. Len(rbIdle) + (m + 1) <= all
            BY <3>1, <3>2, <1>1, <1>3
        <3> QED
            BY <3>1, <3>3, <2>2
    <2> QED
        BY <2>3, <2>4
<1>7. ASSUME NEW t \in Caller, Ruby!new(t) \/ Ruby!yield(t) \/ Ruby!Ensure(t) \/ Ruby!Interrupted(t)
      PROVE  Capped
    <2>1. Moves(t) /\ rbPc[t] \in Calling /\ rbIdle' = rbIdle
        BY <1>5, <1>7 DEF Ruby!new, Ruby!yield, Ruby!Ensure, Ruby!Interrupted, Ruby!Goto, Calling
    <2>2. m' <= m
        BY <2>1, <1>3, <1>4
    <2> QED
        BY <2>1, <2>2, <1>1, <1>2, <1>3
<1>8. ASSUME NEW t \in Caller, Ruby!Push(t)
      PROVE  Capped
    <2>1. Moves(t) /\ rbPc[t] \in Calling /\ rbPc'[t] \notin Calling
        BY <1>5, <1>8 DEF Ruby!Push, Ruby!Goto, Calling
    <2>2. m' = m - 1
        BY <2>1, <1>4
    <2>3. Len(rbIdle') = Len(rbIdle) + 1
        BY <1>8, RubyIdleStep
    <2> QED
        BY <2>2, <2>3, <1>1, <1>2, <1>3
<1>9. ASSUME UNCHANGED Ruby!vars
      PROVE  Capped
    <2>1. rbPc' = rbPc /\ rbIdle' = rbIdle
        BY <1>9 DEF Ruby!vars
    <2>2. m' = m
        BY <2>1 DEF m
    <2> QED
        BY <2>1, <2>2, <1>2
<1>10. Capped
    BY <1>6, <1>7, <1>8, <1>9 DEF Ruby!Next
<1> QED
    BY <1>10 DEF m, all

\* The inductive invariant holds of every behaviour of the pool.
LEMMA RubyInvariant == Ruby!RubyPoolAssumption => (Ruby!Spec => []RubyInv)
<1> SUFFICES ASSUME Ruby!RubyPoolAssumption
             PROVE  Ruby!Spec => []RubyInv
    OBVIOUS
<1>1. Ruby!Init => RubyInv
    <2> SUFFICES ASSUME Ruby!Init
                 PROVE  RubyInv
        OBVIOUS
    <2>1. PICK i \in Instance : rbIdle = <<i>>
        BY DEF Ruby!Init
    <2>2. /\ rbIdle \in Seq(Instance) /\ Distinct(rbIdle) /\ Len(rbIdle) = 1
          /\ Ruby!ToSet(rbIdle) \subseteq Instance /\ rbMade = Ruby!ToSet(rbIdle)
        BY <2>1 DEF Ruby!Init, Distinct, Ruby!ToSet
    <2>3. RubyAsPool!PoolInv
        BY <2>2 DEF Ruby!Init, Ruby!RubyPoolAssumption, RubyAsPool!PoolInv, RubyAsPool!TypeOK,
                    RubyAsPool!Known, RubyAsPool!OneCallEach, RubyAsPool!FailedIsGone
    <2>4. \A t \in Caller : rbPc[t] = "checkout" /\ rbGuest[t] = Nobody
        BY DEF Ruby!Init
    <2>5. ThreadsAt(Caller, rbPc, Calling) = {}
        BY <2>4 DEF ThreadsAt, Calling
    <2>6. Cardinality({}) = 0
        BY FS_EmptySet
    <2>7. Cardinality(ThreadsAt(Caller, rbPc, Calling)) = 0
        BY <2>5, <2>6, Zenon
    <2>8. Caller # {} => Cardinality(Caller) \in Nat \ {0}
        BY FS_CardinalityType, FS_EmptySet DEF Ruby!RubyPoolAssumption, Ruby!IsFiniteSet, IsFiniteSet
    <2>9. rbPc \in [Caller -> {"checkout", "new", "yield", "size", "push"}]
        BY DEF Ruby!Init
    <2> QED
        BY <2>2, <2>3, <2>4, <2>7, <2>8, <2>9 DEF RubyInv
<1>2. RubyInv /\ [Ruby!Next]_(Ruby!vars) => RubyInv'
    <2> SUFFICES ASSUME RubyInv, [Ruby!Next]_(Ruby!vars)
                 PROVE  RubyInv'
        OBVIOUS
    <2>1. RubyAsPool!PoolInv'
        BY RubyStep, RubyAsPool!StepInv DEF RubyInv, Ruby!RubyPoolAssumption
    <2> QED
        BY <2>1, RubyPlaces, RubyCap DEF RubyInv
<1> QED
    BY <1>1, <1>2, PTL DEF Ruby!Spec

\* pool.rb implements InstancePool with room for one instance per caller:
\* threads that read the size before another pushed all push, and only their
\* number bounds them.
THEOREM RubyPoolImplements ==
    Ruby!RubyPoolAssumption => (Ruby!Spec => ImplementsLooserPool)
<1> SUFFICES ASSUME Ruby!RubyPoolAssumption
             PROVE  Ruby!Spec => ImplementsLooserPool
    OBVIOUS
<1>1. Ruby!Init => Ruby!Abstract!Init
    <2> SUFFICES ASSUME Ruby!Init
                 PROVE  Ruby!Abstract!Init
        OBVIOUS
    <2>1. PICK i \in Instance : rbIdle = <<i>>
        BY DEF Ruby!Init
    <2>2. Ruby!ToSet(rbIdle) = {i}
        BY <2>1 DEF Ruby!ToSet
    <2> QED
        BY <2>2 DEF Ruby!Init, Ruby!Abstract!Init
<1>2. RubyInv /\ [Ruby!Next]_(Ruby!vars) => [Ruby!Abstract!Next]_(Ruby!Abstract!vars)
    BY RubyStep DEF Ruby!Abstract!Next, Ruby!Abstract!Take, Ruby!Abstract!Make,
          Ruby!Abstract!MakeFails, Ruby!Abstract!CallFails, Ruby!Abstract!Keep,
          Ruby!Abstract!LetGo, Ruby!Abstract!vars, Ruby!Abstract!Cardinality, Ruby!Cardinality, Cardinality,
          RubyAsPool!Next, RubyAsPool!Take, RubyAsPool!Make, RubyAsPool!MakeFails,
          RubyAsPool!CallFails, RubyAsPool!Keep, RubyAsPool!LetGo, RubyAsPool!vars,
          RubyAsPool!Cardinality
<1> QED
    BY <1>1, <1>2, RubyInvariant, PTL
    DEF Ruby!Spec, ImplementsLooserPool, Ruby!ImplementsLooserPool, Ruby!Abstract!Spec

\* So it is with Ruby's queue: no guest serves two calls, and one that trapped
\* or whose call was cut short serves none.
THEOREM RubyPoolKeepsPromises ==
    Ruby!RubyPoolAssumption => (Ruby!Spec => [](RubyAsPool!OneCallEach /\ RubyAsPool!FailedIsGone))
<1> SUFFICES ASSUME Ruby!RubyPoolAssumption
             PROVE  Ruby!Spec => [](RubyAsPool!OneCallEach /\ RubyAsPool!FailedIsGone)
    OBVIOUS
<1>1. RubyInv => RubyAsPool!OneCallEach /\ RubyAsPool!FailedIsGone
    BY DEF RubyInv, RubyAsPool!PoolInv
<1> QED
    BY <1>1, RubyInvariant, PTL
=============================================================================
