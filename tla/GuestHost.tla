----------------------------- MODULE GuestHost -----------------------------
(***************************************************************************)
(* Instances of aprv.wasm (rust/bindings/abi) and the Go host that runs    *)
(* them: a Verifier's goroutines take an instance from a sync.Pool or make *)
(* one, copy the input into its memory, call an export, read the answer    *)
(* from the instance's one return area and free it.                        *)
(*                                                                         *)
(* An input is its length: the size caps and the cut at max_input_bytes    *)
(* are about nothing else. The core's answer to an input under its cap is  *)
(* the pair of that input and the instant it was judged at.                *)
(***************************************************************************)
EXTENDS Integers, FiniteSets, FiniteSetsExt

CONSTANTS
    Caller,      \* goroutines
    Instance,    \* bound: the instances made before instantiation fails
    Nobody,      \* no instance
    MAX_REQUEST_BYTES, MAX_RECEIPT_BYTES, MAX_JWS_BYTES,  \* the core's caps
    Lengths,     \* input lengths, some over every cap
    Clock        \* what the configured clock answers, times before 1970 too

GuestHostAssumption ==
    /\ Nobody \notin Instance
    /\ {MAX_REQUEST_BYTES, MAX_RECEIPT_BYTES, MAX_JWS_BYTES} \cup Lengths \subseteq Nat
    /\ Clock \subseteq Nat

VARIABLES
    verifier,  \* [Instance -> whether init has made its verifier]
    cClock,    \* [Instance -> what clock_time_get answers]
    buffer,    \* [Instance -> the input the host copied in, 0 for none]
    area,      \* [Instance -> the answer in the return area, or "none"]
    closed,    \* instances that trapped, were closed or were collected
    big,       \* instances grown over maxPooledMemory
    made,      \* every instance made so far
    pool,      \* the sync.Pool
    misused,   \* history: instances that trapped because a call came out of order
    pc, guest, request, answer  \* each goroutine's call

instance == <<verifier, cClock, buffer, area>>
vars == <<verifier, cClock, buffer, area, closed, big, made, pool, misused, pc, guest, request, answer>>

Calls == {"verify-receipt", "verify-signed-data", "verify-receipt-endpoint"}
(* A slip: the largest cap itself *)
MAX_INPUT_BYTES_short == Max({MAX_REQUEST_BYTES, MAX_RECEIPT_BYTES, MAX_JWS_BYTES})
(* One over the largest cap, as init's answer states it *)
MAX_INPUT_BYTES == Max({MAX_REQUEST_BYTES, MAX_RECEIPT_BYTES, MAX_JWS_BYTES}) + 1
Cap(fn) ==
    CASE fn = "verify-receipt" -> MAX_RECEIPT_BYTES
      [] fn = "verify-signed-data" -> MAX_JWS_BYTES
      [] fn = "verify-receipt-endpoint" -> MAX_REQUEST_BYTES

(* The size checks come first; everything else of the core is in its answer *)
Core(fn, length, now) ==
    IF length > Cap(fn) THEN [kind |-> "too_large", of |-> 0, at |-> 0]
    ELSE [kind |-> "judged", of |-> length, at |-> now]
Internal == [kind |-> "internal", of |-> 0, at |-> 0]
NoAnswer == [kind |-> "none", of |-> 0, at |-> 0]
-----------------------------------------------------------------------------
Init ==
    /\ verifier = [i \in Instance |-> FALSE]
    /\ cClock = [i \in Instance |-> 0]
    /\ buffer = [i \in Instance |-> 0]
    /\ area = [i \in Instance |-> NoAnswer]
    /\ closed = {} /\ big = {} /\ made = {} /\ pool = {} /\ misused = {}
    /\ pc = [t \in Caller |-> "idle"]
    /\ guest = [t \in Caller |-> Nobody]
    /\ request = [t \in Caller |-> [fn |-> "none", length |-> 0, now |-> 0]]
    /\ answer = [t \in Caller |-> NoAnswer]

Goto(t, from, to) == pc[t] = from /\ pc' = [pc EXCEPT ![t] = to]
Answer(t, a) == answer' = [answer EXCEPT ![t] = a]

(* VerifyReceipt, VerifySignedData and VerifyReceiptEndpoint begin with    *)
(* the clock, read once                                                    *)
Begin(t, fn, length, instant) ==
    /\ Goto(t, "idle", "get")
    /\ Answer(t, NoAnswer)
    /\ request' = [request EXCEPT ![t] = [fn |-> fn, length |-> length, now |-> instant]]
    /\ UNCHANGED <<instance, closed, big, made, pool, misused, guest>>

(* One that panics or answers a time before 1970 is INTERNAL_ERROR         *)
(* whatever the input                                                      *)
ClockFails(t) ==
    /\ pc[t] = "idle"
    /\ Answer(t, Internal)
    /\ UNCHANGED <<instance, closed, big, made, pool, misused, pc, guest, request>>

(* sync.Pool hands out any of its items, or none although it has some *)
get(t) ==
    /\ \/ \E i \in pool :
            /\ pool' = pool \ {i}
            /\ guest' = [guest EXCEPT ![t] = i]
            /\ Goto(t, "get", "lower")
       \/ Goto(t, "get", "fresh") /\ UNCHANGED <<pool, guest>>
    /\ UNCHANGED <<instance, closed, big, made, misused, request, answer>>

(* The guest's init: a second one traps; else the verifier is made. The    *)
(* roots of a pool were accepted when its first instance was made.         *)
init(i) ==
    IF verifier[i] THEN misused' = misused \cup {i} /\ UNCHANGED <<verifier, cClock>>
    ELSE /\ verifier' = [verifier EXCEPT ![i] = TRUE]
         /\ cClock' = [cClock EXCEPT ![i] = 0]
         /\ UNCHANGED misused

(* A slip: the instance is used without its init *)
newGuest_uninitialised(t) ==
    /\ \E i \in Instance \ made :
         /\ made' = made \cup {i}
         /\ Goto(t, "fresh", "lower")
         /\ guest' = [guest EXCEPT ![t] = i]
    /\ UNCHANGED <<instance, closed, big, pool, misused, request, answer>>

(* newGuest: instantiation fails, or init traps and the instance is closed,*)
(* or init answers its max_input_bytes                                     *)
newGuest(t) ==
    /\ \/ /\ Goto(t, "fresh", "idle")
          /\ Answer(t, Internal)
          /\ UNCHANGED <<verifier, cClock, closed, made, misused, guest>>
       \/ \E i \in Instance \ made :
            /\ made' = made \cup {i}
            /\ \/ /\ Goto(t, "fresh", "lower")
                  /\ init(i)
                  /\ guest' = [guest EXCEPT ![t] = i]
                  /\ UNCHANGED <<closed, answer>>
               \/ /\ Goto(t, "fresh", "idle")
                  /\ closed' = closed \cup {i}
                  /\ Answer(t, Internal)
                  /\ UNCHANGED <<verifier, cClock, misused, guest>>
    /\ UNCHANGED <<buffer, area, big, pool, request>>

(* fail: a trap or an answer outside memory closes the instance *)
fail(t) ==
    /\ closed' = closed \cup {guest[t]}
    /\ pc' = [pc EXCEPT ![t] = "put"]
    /\ Answer(t, Internal)

cut(n) == IF n > MAX_INPUT_BYTES THEN MAX_INPUT_BYTES ELSE n

(* lower: the input, cut, goes to a buffer the guest then owns *)
lower(t) ==
    LET i == guest[t]
    IN /\ \/ /\ Goto(t, "lower", "run")
             /\ buffer' = [buffer EXCEPT ![i] = cut(request[t].length)]
             /\ UNCHANGED <<closed, answer>>
          \/ pc[t] = "lower" /\ fail(t) /\ UNCHANGED buffer
       /\ UNCHANGED <<verifier, cClock, area, big, made, pool, misused, guest, request>>

(* The guest's three verify exports: before init they trap; the C side's   *)
(* clock answers now meanwhile and 0 after. The memory may have grown.     *)
with_verifier(t) ==
    LET i == guest[t]
    IN /\ Goto(t, "run", "read")
       /\ verifier[i]
       /\ area' = [area EXCEPT ![i] = Core(request[t].fn, buffer[i], request[t].now)]
       /\ buffer' = [buffer EXCEPT ![i] = 0]
       /\ cClock' = [cClock EXCEPT ![i] = 0]
       /\ big' \in {big, big \cup {i}}
       /\ UNCHANGED <<closed, answer, misused>>

(* A trap leaves the instance as it was, its clock set: out of order, a    *)
(* memory limit, random-get's length, or a bug                             *)
trap(t) ==
    LET i == guest[t]
    IN /\ pc[t] = "run"
       /\ fail(t)
       /\ misused' = IF verifier[i] THEN misused ELSE misused \cup {i}
       /\ cClock' = [cClock EXCEPT ![i] = IF verifier[i] THEN request[t].now ELSE @]
       /\ UNCHANGED <<area, buffer, big>>

Run(t) == (with_verifier(t) \/ trap(t)) /\ UNCHANGED <<verifier, made, pool, guest, request>>

(* The answer is copied out and post-return frees it, once *)
Read(t) ==
    LET i == guest[t]
    IN /\ \/ /\ Goto(t, "read", "put")
             /\ Answer(t, area[i])
             /\ area' = [area EXCEPT ![i] = NoAnswer]
             /\ UNCHANGED closed
          \/ pc[t] = "read" /\ fail(t) /\ UNCHANGED area
       /\ UNCHANGED <<verifier, cClock, buffer, big, made, pool, misused, guest, request>>

put(t) ==
    LET i == guest[t]
    IN /\ Goto(t, "put", "idle")
       /\ \/ i \in closed /\ UNCHANGED <<closed, pool>>
          \/ i \notin closed /\ i \in big /\ closed' = closed \cup {i} /\ UNCHANGED pool
          \/ i \notin closed \cup big /\ pool' = pool \cup {i} /\ UNCHANGED closed
       /\ guest' = [guest EXCEPT ![t] = Nobody]
       /\ UNCHANGED <<instance, big, made, misused, request, answer>>

(* The garbage collector empties a sync.Pool as it likes; the finalizer    *)
(* closes what it dropped                                                  *)
Collect ==
    /\ \E i \in pool : pool' = pool \ {i} /\ closed' = closed \cup {i}
    /\ UNCHANGED <<instance, big, made, misused, pc, guest, request, answer>>

Next ==
    \/ \E t \in Caller :
        \/ \E fn \in Calls, n \in Lengths, now \in Clock : Begin(t, fn, n, now)
        \/ ClockFails(t)
        \/ get(t) \/ newGuest(t) \/ lower(t) \/ Run(t) \/ Read(t) \/ put(t)
    \/ Collect

Spec == Init /\ [][Next]_vars
-----------------------------------------------------------------------------
(* A goroutine gets the core's answer to its own whole input at the        *)
(* instant it read: the cut at max_input_bytes cannot be told from no cut, *)
(* and another call's answer never comes back. Otherwise it is             *)
(* INTERNAL_ERROR.                                                         *)
AnswerIsForTheWholeInput ==
    \A t \in Caller :
        pc[t] = "idle" /\ answer[t].kind \notin {"none", "internal"} =>
            answer[t] = Core(request[t].fn, request[t].length, request[t].now)

(* No call comes out of order: no verify reaches an instance before its    *)
(* init and no init a second time, which would trap (abi lib.rs).          *)
NeverOutOfOrder == misused = {}
=============================================================================
