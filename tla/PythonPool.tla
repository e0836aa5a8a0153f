---------------------------- MODULE PythonPool ----------------------------
(***************************************************************************)
(* The Python wrapper's pool of Wasm instances (_host.py): a semaphore of  *)
(* size slots bounds the calls under way, and a list under a lock holds    *)
(* the instances no call uses. Calls come from threads of one process; a   *)
(* KeyboardInterrupt may cut one short anywhere inside run's try.          *)
(***************************************************************************)
EXTENDS Naturals, Sequences, FiniteSets, SequencesExt

CONSTANTS
    Caller,    \* threads
    Instance,  \* bound: the instances made before instantiation fails
    size,      \* slots, _pool_size()
    Nobody     \* None, for an instance

PythonPoolAssumption ==
    /\ size \in Nat \ {0}
    /\ Nobody \notin Instance
    /\ IsFiniteSet(Caller)

VARIABLES
    free,      \* _free, its last element popped first
    slots,     \* the semaphore's value
    made,      \* every instance made
    failed,    \* history: instances whose init or call ended in an exception
    pc,        \* [Caller -> where its call is]
    instance   \* [Caller -> the instance it borrowed, or Nobody]

vars == <<free, slots, made, failed, pc, instance>>

(* A Verifier exists only when the pool's first instance accepted the roots *)
Init ==
    /\ free \in {<<i>> : i \in Instance}
    /\ slots = size
    /\ made = ToSet(free)
    /\ failed = {}
    /\ pc = [t \in Caller |-> "idle"]
    /\ instance = [t \in Caller |-> Nobody]

Goto(t, from, to) == pc[t] = from /\ pc' = [pc EXCEPT ![t] = to]
Borrow(t, i) == instance' = [instance EXCEPT ![t] = i]

(* The clock is read first: one that raises or answers no epoch            *)
(* milliseconds ends the call before the pool is touched, which changes nothing here    *)
Begin(t) ==
    /\ Goto(t, "idle", "acquire")
    /\ UNCHANGED <<free, slots, made, failed, instance>>

acquire(t) ==
    /\ slots > 0
    /\ Goto(t, "acquire", "pop")
    /\ slots' = slots - 1
    /\ UNCHANGED <<free, made, failed, instance>>

(* Under the lock *)
pop(t) ==
    /\ IF free = <<>>
       THEN Goto(t, "pop", "create") /\ UNCHANGED <<free, instance>>
       ELSE /\ Goto(t, "pop", "call")
            /\ Borrow(t, Last(free))
            /\ free' = Front(free)
    /\ UNCHANGED <<slots, made, failed>>

(* _create outside the lock: no instance comes of it, or its init traps or *)
(* refuses what the first accepted, or it is ready                         *)
create(t) ==
    /\ \/ Goto(t, "create", "finally") /\ UNCHANGED <<made, failed, instance>>
       \/ \E i \in Instance \ made :
            /\ made' = made \cup {i}
            /\ \/ /\ Goto(t, "create", "finally")
                  /\ failed' = failed \cup {i}
                  /\ UNCHANGED instance
               \/ /\ Goto(t, "create", "call")
                  /\ Borrow(t, i)
                  /\ UNCHANGED failed
    /\ UNCHANGED <<free, slots>>

(* The instance is let go of, keep still False *)
Drop(t) ==
    /\ Goto(t, "call", "finally")
    /\ Borrow(t, Nobody)

(* A slip: an exception of the call leaves keep True *)
call_kept(t) ==
    /\ Goto(t, "call", "append")
    /\ UNCHANGED instance
    /\ failed' \in {failed, failed \cup {instance[t]}}
    /\ UNCHANGED <<free, slots, made>>

(* Instance.call and parse: a trap, a pointer out of range, an answer that *)
(* cannot be read or a KeyboardInterrupt drops the instance, as does a     *)
(* memory grown over _RETIRE_ABOVE; else keep is True                      *)
call(t) ==
    /\ \/ Drop(t) /\ failed' = failed \cup {instance[t]}
       \/ Drop(t) /\ UNCHANGED failed
       \/ Goto(t, "call", "append") /\ UNCHANGED <<instance, failed>>
    /\ UNCHANGED <<free, slots, made>>

(* A slip: the slot is released before the instance is back *)
append_late(t) ==
    /\ \/ /\ Goto(t, "append", "late")
          /\ slots' = slots + 1
          /\ UNCHANGED <<free, instance>>
       \/ /\ Goto(t, "late", "idle")
          /\ free' = Append(free, instance[t])
          /\ Borrow(t, Nobody)
          /\ UNCHANGED slots
    /\ UNCHANGED <<made, failed>>

(* finally, with keep: back in the list first, under the lock *)
append(t) ==
    /\ Goto(t, "append", "finally")
    /\ free' = Append(free, instance[t])
    /\ Borrow(t, Nobody)
    /\ UNCHANGED <<slots, made, failed>>

(* and the slot last *)
release(t) ==
    /\ Goto(t, "finally", "idle")
    /\ slots' = slots + 1
    /\ UNCHANGED <<free, made, failed, instance>>

Next ==
    \E t \in Caller :
        \/ Begin(t) \/ acquire(t) \/ pop(t) \/ create(t) \/ call(t) \/ append(t) \/ release(t)

Spec == Init /\ [][Next]_vars
-----------------------------------------------------------------------------
(* The pool implements InstancePool with room for size idle instances:     *)
(* each call has an instance of its own, and one whose call ended in an    *)
(* exception never serves another.                                         *)
Abstract == INSTANCE InstancePool WITH
                idle <- ToSet(free), holds <- instance, maxIdle <- size

ImplementsInstancePool == Abstract!Spec

(* Memory is bounded by the pool's size and not by the callers: the        *)
(* instances in use, being made and kept are never more than size, although*)
(* whether to make one is decided in one critical section and the list is  *)
(* filled in another.                                                      *)
AtMostSizeInstances ==
    Len(free) + Cardinality({t \in Caller : instance[t] # Nobody \/ pc[t] = "create"}) <= size
=============================================================================
