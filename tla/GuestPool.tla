----------------------------- MODULE GuestPool -----------------------------
(***************************************************************************)
(* GuestPool of java-wasm: a lock-free deque of idle Wasm instances, and a *)
(* counter that is updated apart from it.  No call waits for another.      *)
(***************************************************************************)
EXTENDS Naturals, Sequences, FiniteSets

CONSTANTS
    Caller,    \* threads in call()
    Instance,  \* bound: the instances the factory makes before it fails
    maxIdle,
    Nobody     \* Java's null, for a guest

PoolAssumption ==
    /\ maxIdle \in Nat
    /\ Nobody \notin Instance
    /\ IsFiniteSet(Caller)

VARIABLES
    idle,           \* the deque, its first element first
    idleCount,      \* the AtomicInteger beside it
    made,           \* every instance made (created counts them)
    failed,         \* history: instances whose call or init threw
    maxInputBytes,  \* whether an init answer has stated it (0 before)
    pc,             \* [Caller -> where the call is]
    guest           \* [Caller -> the instance in its hands, or Nobody]

vars == <<idle, idleCount, made, failed, maxInputBytes, pc, guest>>

\* With the runtime probe, prime() has left one instance; else none was made.
Init ==
    /\ \/ idle = <<>> /\ idleCount = 0 /\ maxInputBytes = FALSE
       \/ /\ idle \in {<<i>> : i \in Instance}
          /\ maxIdle > 0
          /\ idleCount = 1
          /\ maxInputBytes = TRUE
    /\ made = {idle[n] : n \in DOMAIN idle}
    /\ failed = {}
    /\ pc = [t \in Caller |-> "poll"]
    /\ guest = [t \in Caller |-> Nobody]

Goto(t, from, to) == pc[t] = from /\ pc' = [pc EXCEPT ![t] = to]

Hand(t, i) == guest' = [guest EXCEPT ![t] = i]

\* acquire(): pollFirst, and the counter after it.
PollFirst(t) ==
    /\ \/ /\ idle # <<>>
          /\ Goto(t, "poll", "count")
          /\ Hand(t, Head(idle))
          /\ idle' = Tail(idle)
       \/ /\ idle = <<>>
          /\ Goto(t, "poll", "fresh")
          /\ UNCHANGED <<guest, idle>>
    /\ UNCHANGED <<idleCount, made, failed, maxInputBytes>>

\* Mutant: the counter is not lowered when an instance is taken.
CountForgotten(t) ==
    /\ Goto(t, "count", "run")
    /\ UNCHANGED <<idle, idleCount, made, failed, maxInputBytes, guest>>

Count(t) ==
    /\ Goto(t, "count", "run")
    /\ idleCount' = idleCount - 1
    /\ UNCHANGED <<idle, made, failed, maxInputBytes, guest>>

\* newGuest and init; an exception of either or a refusal ends the call.
fresh(t) ==
    /\ \/ /\ Goto(t, "fresh", "poll")
          /\ UNCHANGED <<made, failed, guest, maxInputBytes>>
       \/ \E i \in Instance \ made :
            /\ made' = made \cup {i}
            /\ \/ /\ Goto(t, "fresh", "run")
                  /\ Hand(t, i)
                  /\ maxInputBytes' = TRUE
                  /\ UNCHANGED failed
               \/ /\ Goto(t, "fresh", "poll")
                  /\ failed' = failed \cup {i}
                  /\ UNCHANGED <<guest, maxInputBytes>>
    /\ UNCHANGED <<idle, idleCount>>

\* call.run: an exception discards the instance.
Run(t) ==
    /\ \/ Goto(t, "run", "increment") /\ UNCHANGED <<guest, failed>>
       \/ /\ Goto(t, "run", "poll")
          /\ failed' = failed \cup {guest[t]}
          /\ Hand(t, Nobody)
    /\ UNCHANGED <<idle, idleCount, made, maxInputBytes>>

\* Mutant: the limit is compared with the counter before it is raised.
IncrementOffByOne(t) ==
    /\ Goto(t, "increment", IF idleCount <= maxIdle THEN "offer" ELSE "undo")
    /\ idleCount' = idleCount + 1
    /\ UNCHANGED <<idle, made, failed, maxInputBytes, guest>>

\* release().
Increment(t) ==
    /\ idleCount' = idleCount + 1
    /\ Goto(t, "increment", IF idleCount' <= maxIdle THEN "offer" ELSE "undo")
    /\ UNCHANGED <<idle, made, failed, maxInputBytes, guest>>

OfferFirst(t) ==
    /\ Goto(t, "offer", "poll")
    /\ idle' = <<guest[t]>> \o idle
    /\ Hand(t, Nobody)
    /\ UNCHANGED <<idleCount, made, failed, maxInputBytes>>

Undo(t) ==
    /\ Goto(t, "undo", "poll")
    /\ idleCount' = idleCount - 1
    /\ Hand(t, Nobody)
    /\ UNCHANGED <<idle, made, failed, maxInputBytes>>

Next ==
    \E t \in Caller :
        \/ PollFirst(t) \/ Count(t) \/ fresh(t) \/ Run(t)
        \/ Increment(t) \/ OfferFirst(t) \/ Undo(t)

Spec == Init /\ [][Next]_vars

-----------------------------------------------------------------------------
Idle == {idle[n] : n \in DOMAIN idle}

TypeOK ==
    /\ idle \in Seq(Instance)
    /\ idleCount \in Nat
    /\ made \subseteq Instance
    /\ failed \subseteq made
    /\ maxInputBytes \in BOOLEAN
    /\ pc \in [Caller -> {"poll", "count", "fresh", "run", "increment", "offer", "undo"}]
    /\ guest \in [Caller -> Instance \cup {Nobody}]

\* The pool implements InstancePool: the instance a call has is its own, at
\* most maxIdle are kept whatever the counter says meanwhile, and one whose
\* call threw is never offered again.
Abstract == INSTANCE InstancePool WITH idle <- Idle, holds <- guest

ImplementsPool == Abstract!Spec

\* The counter may run ahead of the deque, never behind it, and it is right
\* again when no call is under way: an idle slot is not lost for good.
CounterCatchesUp ==
    /\ idleCount >= Len(idle)
    /\ (\A t \in Caller : pc[t] \in {"poll", "fresh", "run"}) => idleCount = Len(idle)

=============================================================================
