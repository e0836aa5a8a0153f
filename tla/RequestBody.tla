---------------------------- MODULE RequestBody ----------------------------
(* One request over HTTP from the input to the answer the caller is given:   *)
(* the cut java-wasm makes, the checks of aprv serve before the body, its    *)
(* read of the body frame by frame up to the cap, and the status that says   *)
(* whether the module was given all of it.                                   *)
EXTENDS Integers, Sequences, FiniteSets

CONSTANTS MaxInput,     \* max_input_bytes of the module's init answer
          MAX_DRAIN,    \* how far a body is read past the cap
          Texts,        \* inputs of java-wasm: each character's UTF-8 bytes
          Bodies,       \* body lengths other clients send
          MaxFrame      \* bound: the bytes of one frame

BodyAssumption ==
    /\ MaxInput \in Nat \ {0} /\ MAX_DRAIN \in Nat /\ MAX_DRAIN >= MaxInput
    /\ Texts \subseteq Seq(1..4) /\ Bodies \subseteq Nat
    /\ MaxFrame \in Nat \ {0}

VARIABLES
    client,     \* "java" or "other"
    length,     \* bytes of the whole input
    sent,       \* bytes of the body the client sends
    announced,  \* whether a Content-Length says so
    head,       \* what the request's head is like
    pc,
    total, buf, \* read_capped: bytes read, bytes kept
    close,      \* the answer says Connection: close
    status, answer,
    result      \* what java-wasm returns to its caller

vars == <<client, length, sent, announced, head, pc, total, buf, close, status, answer, result>>

Size(text) ==
    LET bytesTo[n \in 0..Len(text)] == IF n = 0 THEN 0 ELSE bytesTo[n - 1] + text[n]
    IN bytesTo[Len(text)]
(* A character outside the basic plane is two chars of a Java string *)
Chars(text) == Len(text) + Cardinality({i \in DOMAIN text : text[i] = 4})

(* The bytes of the longest prefix of whole characters that a buffer holds *)
Encoded(text, room) ==
    LET fits == {n \in 0..Len(text) : Size(SubSeq(text, 1, n)) <= room}
        longest == CHOOSE n \in fits : \A k \in fits : k <= n
    IN Size(SubSeq(text, 1, longest))

Least(a, b) == IF a <= b THEN a ELSE b

(* WasmVerifier.bytes *)
bytes(text) ==
    IF Chars(text) <= MaxInput \div 3 THEN Size(text) ELSE Least(Encoded(text, MaxInput + 3), MaxInput)
-----------------------------------------------------------------------------
Heads == {"no_route", "method", "token", "clock", "good"}

Init ==
    /\ \/ /\ client = "java" /\ announced = TRUE /\ head \in {"token", "good"}
          /\ \E text \in Texts : length = Size(text) /\ sent = bytes(text)
       \/ /\ client = "other" /\ announced \in BOOLEAN /\ head \in Heads
          /\ \E n \in Bodies : length = n /\ sent = n
    /\ pc = "head"
    /\ total = 0 /\ buf = 0 /\ close = FALSE
    /\ status = 0 /\ answer = "none" /\ result = "none"

Problem(code) ==
    /\ status' = code /\ answer' = "problem" /\ pc' = "answered"

(* The router, the token and the clock header, before the body is looked at *)
RefuseHead ==
    /\ pc = "head" /\ head # "good"
    /\ Problem([no_route |-> 404, method |-> 405, token |-> 401, clock |-> 400][head])
    /\ UNCHANGED <<client, length, sent, announced, head, total, buf, close, result>>

AcceptHead ==
    /\ pc = "head" /\ head = "good" /\ pc' = "body"
    /\ UNCHANGED <<client, length, sent, announced, head, total, buf, close, status, answer, result>>

announced_big == announced /\ sent > MAX_DRAIN

(* A slip: what was kept counts, not what arrived *)
Enough_kept(read, kept) == (announced_big /\ read >= MaxInput) \/ kept > MAX_DRAIN

Enough(read, kept) == (announced_big /\ read >= MaxInput) \/ read > MAX_DRAIN

Frame(n) ==
    /\ pc = "body" /\ n <= sent - total
    /\ total' = total + n
    /\ buf' = buf + Least(n, MaxInput - buf)
    /\ close' = Enough(total', buf')
    /\ pc' = IF Enough(total', buf') THEN "call" ELSE pc
    /\ UNCHANGED <<client, length, sent, announced, head, status, answer, result>>

BodyEnds ==
    /\ pc = "body" /\ total = sent /\ pc' = "call"
    /\ UNCHANGED <<client, length, sent, announced, head, total, buf, close, status, answer, result>>

(* A frame that does not read is 400; a body too slow is 408 and the end   *)
(* of the connection                                                       *)
BodyFails ==
    /\ pc = "body"
    /\ Problem(400)
    /\ UNCHANGED <<client, length, sent, announced, head, total, buf, close, result>>

BodyTimeout ==
    /\ pc = "body"
    /\ Problem(408)
    /\ close' = TRUE
    /\ UNCHANGED <<client, length, sent, announced, head, total, buf, result>>

over == total >= MaxInput

(* The module refuses what is over its caps, which MaxInput is; a trap, an *)
(* ABI error and a lost worker are problems                                *)
Invoke ==
    /\ pc = "call"
    /\ \/ /\ answer' = IF buf >= MaxInput THEN "too_large" ELSE "verdict"
          /\ status' = IF over THEN 413 ELSE 200
          /\ pc' = "answered"
       \/ Problem(500)
    /\ UNCHANGED <<client, length, sent, announced, head, total, buf, close, result>>

moduleAnswered == status = 200 \/ (status = 413 /\ answer # "problem")

Receive ==
    /\ pc = "answered" /\ client = "java" /\ pc' = "done"
    /\ result' = IF moduleAnswered THEN answer ELSE "internal"
    /\ UNCHANGED <<client, length, sent, announced, head, total, buf, close, status, answer>>

Next ==
    \/ RefuseHead \/ AcceptHead
    \/ \E n \in 1..MaxFrame : Frame(n)
    \/ BodyEnds \/ BodyFails \/ BodyTimeout \/ Invoke \/ Receive

Spec == Init /\ [][Next]_vars
-----------------------------------------------------------------------------
(* A connection the module's answer leaves open is in step: the body was   *)
(* read to its end. One frame past the drain limit is the most that is     *)
(* read of any body, and java-wasm, which cuts its input, never loses its  *)
(* connection to an input's size (read_capped, MAX_DRAIN).                 *)
KeptConnectionIsInStep ==
    /\ answer \in {"verdict", "too_large"} /\ ~ close => total = sent
    /\ total <= MAX_DRAIN + MaxFrame
    /\ client = "java" /\ answer \in {"verdict", "too_large"} => ~ close
=============================================================================
