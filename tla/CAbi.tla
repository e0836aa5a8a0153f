-------------------------------- MODULE CAbi --------------------------------
(***************************************************************************)
(* The C ABI (rust/ffi): the exported calls, what each reads of its        *)
(* arguments before it looks at the input, what it writes through the      *)
(* caller's out-pointers and who owns the strings it hands over.           *)
(*                                                                         *)
(* The caller is one C thread that keeps the contract of the safety        *)
(* comments: it reuses one AprvResult and one response pointer, and frees  *)
(* a string before it lets the pointer be overwritten. Bytes are sequences *)
(* over "x" (text), "nul" and "bad" (what no UTF-8 text holds).            *)
(***************************************************************************)
EXTENDS Naturals, Sequences, SequencesExt

CONSTANTS
    Inputs,       \* the byte sequences a caller passes
    Instants,     \* what a clock may read
    Core(_, _, _),\* the core's answer: (call, bytes, instant) to "OK" or a reason
    Environments, \* what a caller passes for the environment, 1 and 2 among them or not
    MaxStrings    \* bound: strings handed over in a behaviour

CAbiAssumption == MaxStrings \in Nat /\ Instants \subseteq Nat \ {0}

VARIABLES
    handle,    \* the verifier: whether there is one, and its pinned instant or 0
    clock,     \* the system clock
    strings,   \* the strings alive, as pointers 1, 2, ...
    used,      \* how many were ever made
    out,       \* the caller's AprvResult: status and json, 0 for NULL
    doc,       \* what each string made holds
    response,  \* the caller's char pointer for the endpoint, 0 for NULL
    returned   \* the status the last verification or endpoint call returned

vars == <<handle, clock, strings, used, out, doc, response, returned>>

NULL == [null |-> TRUE]
NoHandle == [null |-> TRUE, fixed |-> 0]
Verify == {"receipt", "signed_data"}
REASON_CODES ==
    [MALFORMED |-> 13, TOO_LARGE |-> 14, INVALID_SIGNATURE |-> 5, UNTRUSTED_CHAIN |-> 15,
     INVALID_CERTIFICATE |-> 2, INVALID_CERTIFICATE_PURPOSE |-> 3,
     UNREADABLE_PAYLOAD |-> 16, INTERNAL_ERROR |-> 12]
Ok == 0
NullPointer == 100
InvalidUtf8 == 101
InvalidArgument == 102
Panic == 103

(* The core's answer as a status; every reason of the library has a code *)
reason_code(answer) == IF answer = "OK" THEN Ok ELSE REASON_CODES[answer]

(* A pointer is NULL or points at bytes; a range is NULL with length 0,    *)
(* NULL with another length (dangling), over PTRDIFF_MAX (huge), or bytes  *)

(* What a borrow gives: the bytes, or the status of a mistake *)
Borrowed(bytes) == [status |-> Ok, bytes |-> bytes]
Mistake(status) == [status |-> status, bytes |-> <<>>]

(* A C string ends at its first NUL *)
UpToNul(bytes) ==
    LET nuls == {i \in DOMAIN bytes : bytes[i] = "nul"}
    IN IF nuls = {} THEN bytes ELSE SubSeq(bytes, 1, (CHOOSE i \in nuls : \A j \in nuls : i <= j) - 1)

borrow_str(pointer) ==
    CASE pointer.null -> Mistake(NullPointer)
      [] Contains(UpToNul(pointer.bytes), "bad") -> Mistake(InvalidUtf8)
      [] OTHER -> Borrowed(UpToNul(pointer.bytes))

borrow_bytes(pointer) ==
    CASE pointer.null -> Borrowed(<<>>)
      [] pointer.dangling -> Mistake(NullPointer)
      [] pointer.huge -> Mistake(InvalidArgument)
      [] OTHER -> Borrowed(pointer.bytes)

(* The instant a verifier judges at: the pinned one, or the system clock's *)
unix_millis == clock
NowOf(h) == IF h.fixed = 0 THEN unix_millis ELSE h.fixed
-----------------------------------------------------------------------------
Init ==
    /\ handle = NoHandle
    /\ clock \in Instants
    /\ strings = {} /\ used = 0 /\ doc = <<>>
    /\ out = [status |-> Ok, json |-> 0]
    /\ response = 0
    /\ returned = Ok

(* into_c_string: a new string, and the pointer to it. Nothing the crate   *)
(* produces holds a NUL.                                                   *)
into_c_string(text) ==
    /\ used < MaxStrings
    /\ used' = used + 1
    /\ strings' = strings \cup {used + 1}
    /\ doc' = Append(doc, text)

NoString == UNCHANGED <<strings, used, doc>>

Returns(status) == returned' = status

(* Roots are Configuration's concern: here they are accepted or not *)
aprv_verifier_new(fixed, accepted) ==
    /\ handle.null
    /\ handle' = IF accepted THEN [null |-> FALSE, fixed |-> fixed] ELSE NoHandle
    /\ UNCHANGED <<clock, strings, used, out, doc, response, returned>>

aprv_verifier_free ==
    /\ handle' = NoHandle
    /\ UNCHANGED <<clock, strings, used, out, doc, response, returned>>

(* A caught panic: the status is returned and nothing is written *)
guard(given) ==
    /\ ~ handle.null /\ given.status = Ok
    /\ Returns(Panic)
    /\ NoString /\ UNCHANGED <<handle, clock, out, response>>

(* A slip: the string is made before out is looked at *)
finish_early(writes, status, json) ==
    /\ into_c_string(json)
    /\ out' = IF writes THEN [status |-> status, json |-> used + 1] ELSE out

finish(writes, status, json) ==
    IF writes
    THEN into_c_string(json) /\ out' = [status |-> status, json |-> used + 1]
    ELSE NoString /\ UNCHANGED out

(* aprv_verify_receipt and aprv_verify_signed_data: the body they share *)
call(c, pointer, writes) ==
    LET input == IF handle.null THEN Mistake(NullPointer) ELSE borrow_str(pointer)
        answer == Core(c, input.bytes, NowOf(handle))
        status == IF input.status # Ok THEN input.status ELSE reason_code(answer)
    IN /\ writes => out.json = 0
       /\ \/ /\ finish(writes, status, IF status = Ok THEN "payload" ELSE "reason and message")
             /\ Returns(status)
             /\ UNCHANGED <<handle, clock, response>>
          \/ guard(input)

(* The _bytes calls leave json NULL for a mistake in the call *)
written(status, json) ==
    IF status >= 100
    THEN NoString /\ out' = [status |-> status, json |-> 0]
    ELSE into_c_string(json) /\ out' = [status |-> status, json |-> used + 1]

call_bytes(c, pointer, writes) ==
    LET input == IF handle.null THEN Mistake(NullPointer) ELSE borrow_bytes(pointer)
        answer == Core(c, input.bytes, NowOf(handle))
        status == IF input.status # Ok THEN input.status ELSE reason_code(answer)
    IN /\ writes => out.json = 0
       /\ \/ /\ IF writes THEN written(status, IF status = Ok THEN "verified" ELSE "refused")
                ELSE NoString /\ UNCHANGED out
             /\ Returns(status)
             /\ UNCHANGED <<handle, clock, response>>
          \/ guard(input)

(* Production and Sandbox; a zero-initialised argument names neither       *)
AprvEnvironment == {1, 2}

(* Both endpoint calls: the handle and the pointer, the environment, then  *)
(* the body                                                                *)
EndpointChecks(environment, writes, borrowed) ==
    CASE handle.null \/ ~ writes -> Mistake(NullPointer)
      [] environment \notin AprvEnvironment -> Mistake(InvalidArgument)
      [] OTHER -> borrowed

endpoint(environment, writes, borrowed) ==
    LET body == EndpointChecks(environment, writes, borrowed)
    IN /\ response = 0
       /\ \/ /\ body.status = Ok
             /\ into_c_string("response")
             /\ response' = used + 1
             /\ Returns(Ok)
             /\ UNCHANGED <<handle, clock, out>>
          \/ /\ body.status # Ok
             /\ Returns(body.status)
             /\ NoString /\ UNCHANGED <<handle, clock, out, response>>
          \/ guard(body)

aprv_verify_receipt_endpoint(pointer, environment, writes) ==
    endpoint(environment, writes, borrow_str(pointer))

aprv_verify_receipt_endpoint_bytes(pointer, environment, writes) ==
    endpoint(environment, writes, borrow_bytes(pointer))

(* The caller frees what it holds, once, and forgets the pointer *)
aprv_string_free ==
    /\ \/ out.json # 0 /\ strings' = strings \ {out.json} /\ out' = [out EXCEPT !.json = 0] /\ UNCHANGED response
       \/ response # 0 /\ strings' = strings \ {response} /\ response' = 0 /\ UNCHANGED out
    /\ UNCHANGED <<handle, clock, used, doc, returned>>

Tick == clock' \in Instants \ {clock} /\ UNCHANGED <<handle, strings, used, out, doc, response, returned>>

CStrings == {NULL} \cup [null : {FALSE}, bytes : Inputs]
Ranges == {NULL} \cup [null : {FALSE}, bytes : Inputs, dangling : {FALSE}, huge : {FALSE}]
            \cup {[null |-> FALSE, bytes |-> <<>>, dangling |-> d, huge |-> ~ d] : d \in BOOLEAN}

Next ==
    \/ \E fixed \in Instants \cup {0}, accepted \in BOOLEAN : aprv_verifier_new(fixed, accepted)
    \/ aprv_verifier_free
    \/ \E c \in Verify, writes \in BOOLEAN :
            \/ \E p \in CStrings : call(c, p, writes)
            \/ \E p \in Ranges : call_bytes(c, p, writes)
    \/ \E environment \in Environments, writes \in BOOLEAN :
            \/ \E p \in CStrings : aprv_verify_receipt_endpoint(p, environment, writes)
            \/ \E p \in Ranges : aprv_verify_receipt_endpoint_bytes(p, environment, writes)
    \/ aprv_string_free
    \/ Tick

Spec == Init /\ [][Next]_vars
-----------------------------------------------------------------------------
(* Every string the library made and the caller has not freed is one the   *)
(* caller can free: it is in exactly one of its two pointers, so a caller  *)
(* that frees what it is given neither leaks nor frees twice, whether it   *)
(* passed an out-pointer or not and whatever the call answered, a panic    *)
(* included. And the document in out->json belongs to out->status: a       *)
(* payload beside 0 only, whatever was called since.                       *)
HandedOverOnce ==
    /\ strings = {out.json, response} \ {0}
    /\ out.json # 0 =>
         /\ out.json # response
         /\ doc[out.json] \in {"payload", "verified"} <=> out.status = Ok
=============================================================================
