----------------------------- MODULE RubyPool -----------------------------
(***************************************************************************)
(* The Ruby wrapper's InstancePool (pool.rb): idle guests in a Thread::    *)
(* Queue, no bound on the calls under way. A Timeout or a kill may arrive  *)
(* between any two steps of a call, in its ensure too.                     *)
(***************************************************************************)
EXTENDS Naturals, Sequences, FiniteSets, SequencesExt

CONSTANTS
    Caller,    \* threads
    Instance,  \* bound: the guests made before instantiation fails
    MAX_IDLE,
    Nobody     \* nil, for a guest

RubyPoolAssumption ==
    /\ MAX_IDLE \in Nat \ {0}
    /\ Nobody \notin Instance
    /\ IsFiniteSet(Caller)

VARIABLES
    idle,      \* the queue, its first element popped first
    made,      \* every guest made
    failed,    \* history: guests whose start failed or whose call did not return
    pc,        \* [Caller -> where its call is]
    guest      \* [Caller -> the guest it checked out, or Nobody]

vars == <<idle, made, failed, pc, guest>>

(* initialize makes the first guest, or there is no Verifier *)
Init ==
    /\ idle \in {<<i>> : i \in Instance}
    /\ made = ToSet(idle)
    /\ failed = {}
    /\ pc = [t \in Caller |-> "checkout"]
    /\ guest = [t \in Caller |-> Nobody]

Goto(t, from, to) == pc[t] = from /\ pc' = [pc EXCEPT ![t] = to]
Hand(t, i) == guest' = [guest EXCEPT ![t] = i]

(* @idle.pop(true), or ThreadError when it is empty *)
checkout(t) ==
    /\ IF idle = <<>>
       THEN Goto(t, "checkout", "new") /\ UNCHANGED <<idle, guest>>
       ELSE /\ Goto(t, "checkout", "yield")
            /\ Hand(t, Head(idle))
            /\ idle' = Tail(idle)
    /\ UNCHANGED <<made, failed>>

(* Guest.new: nothing comes of it, or it is discarded because init trapped *)
(* or refused the roots, or it is ready                                    *)
new(t) ==
    /\ \/ Goto(t, "new", "checkout") /\ UNCHANGED <<made, failed, guest>>
       \/ \E i \in Instance \ made :
            /\ made' = made \cup {i}
            /\ \/ /\ Goto(t, "new", "checkout")
                  /\ failed' = failed \cup {i}
                  /\ UNCHANGED guest
               \/ /\ Goto(t, "new", "yield")
                  /\ Hand(t, i)
                  /\ UNCHANGED failed
    /\ UNCHANGED idle

(* A slip: the ensure does not ask whether the block returned *)
yield_unasked(t) ==
    /\ Goto(t, "yield", "size")
    /\ failed' \in {failed, failed \cup {guest[t]}}
    /\ UNCHANGED <<idle, made, guest>>

(* The block: the guest's call, and the answer decoded. A TrapError or an  *)
(* interruption leaves returned false, and the ensure closes the guest.    *)
yield(t) ==
    /\ \/ Goto(t, "yield", "size") /\ UNCHANGED <<failed, guest>>
       \/ /\ Goto(t, "yield", "checkout")
          /\ failed' = failed \cup {guest[t]}
          /\ Hand(t, Nobody)
    /\ UNCHANGED <<idle, made>>

(* The ensure asks for the size, and closes the guest when there are enough *)
Ensure(t) ==
    /\ IF Len(idle) < MAX_IDLE
       THEN Goto(t, "size", "push") /\ UNCHANGED guest
       ELSE Goto(t, "size", "checkout") /\ Hand(t, Nobody)
    /\ UNCHANGED <<idle, made, failed>>

(* and pushes afterwards, whatever other threads pushed meanwhile *)
Push(t) ==
    /\ Goto(t, "push", "checkout")
    /\ idle' = Append(idle, guest[t])
    /\ Hand(t, Nobody)
    /\ UNCHANGED <<made, failed>>

(* An interruption outside the block: before it, or in the ensure. The     *)
(* guest is left to the garbage collector.                                 *)
Interrupted(t) ==
    /\ \E at \in {"yield", "size", "push"} : Goto(t, at, "checkout")
    /\ Hand(t, Nobody)
    /\ UNCHANGED <<idle, made, failed>>

Next ==
    \E t \in Caller :
        checkout(t) \/ new(t) \/ yield(t) \/ Ensure(t) \/ Push(t) \/ Interrupted(t)

Spec == Init /\ [][Next]_vars
-----------------------------------------------------------------------------
(* The pool implements InstancePool. A guest that trapped or whose call    *)
(* was cut short never serves another call, and a guest is made only when  *)
(* none is idle, so that no more are kept than there are callers. No lower *)
(* cap holds: every thread may read the size before any of them pushes.    *)
Abstract == INSTANCE InstancePool WITH
                idle <- ToSet(idle), holds <- guest, maxIdle <- Cardinality(Caller)

ImplementsLooserPool == Abstract!Spec

(* ruby/README.md: the pool "keeps at most eight idle instances", which    *)
(* thread_test.rb asserts of the queue's size after a burst of calls.      *)
IdleWithinCap == Len(idle) <= MAX_IDLE
=============================================================================
