--------------------------- MODULE ReceiptVerify ---------------------------
(***************************************************************************)
(* Verifier::verify_receipt and Verifier::verify_receipt_endpoint of the   *)
(* Rust core: one call, from the bytes the caller hands over to the        *)
(* verdict (rust/src/verifier.rs, receipt.rs, endpoint.rs).                *)
(*                                                                         *)
(* The envelope is unsigned and the sender's to arrange: `input` is any    *)
(* bag of certificates in any order, any SignerInfos, any content.  The    *)
(* host's clock is read lazily and may answer anything, or panic.          *)
(***************************************************************************)
EXTENDS CertPath

CONSTANTS
    Inputs,                    \* the calls, see InputType
    ClockReadings,             \* what the configured clock may answer, millis
    Renderable,                \* the instants whose dates render (datetime.rs)
    MAX_SIGNER_INFOS,
    MAX_EMBEDDED_CERTIFICATES

SignerInfoType ==
    [issuer : STRING, serial : STRING,  \* the certificate it names
     signedWith : STRING,               \* the key that made its signature
     contentType : BOOLEAN]             \* its contentType attribute matches, or is absent

PayloadType ==
    [parses : BOOLEAN,                      \* the attribute SET parses
     date   : Int \cup {None},              \* first attribute 12, when it decodes
     environment : {"Production", "Sandbox", None},
     unknown17 : BOOLEAN]                   \* an in-app purchase that did not decode

\* verify_receipt and verify_receipt_endpoint for each environment. The `_bytes`
\* and `_at` forms differ in who owns the text and in the clock, which answers
\* any of ClockReadings.
EntryPoints == {"receipt", "Production", "Sandbox"}

\* The endpoint's body: its receipt-data read, over the cap, or not to be read.
RequestType == {"ok", "large", "bad"}

\* The statuses the endpoint answers with.
AppleStatus == {0, 21002, 21003, 21007, 21008, 21009}

InputType ==
    [entry   : EntryPoints,
     request : RequestType,
     fits    : BOOLEAN, base64 : BOOLEAN, cms : BOOLEAN, \* size, base64, CMS structure
     bag     : Seq(Certificate),
     infos   : Seq(SignerInfoType),
     payload : PayloadType]

ASSUME ReceiptAssumption ==
    /\ Inputs \subseteq InputType
    /\ ClockReadings \subseteq Int
    /\ Renderable \subseteq Int
    /\ MAX_SIGNER_INFOS \in Nat
    /\ MAX_EMBEDDED_CERTIFICATES \in Nat
    /\ None \notin Reason \cup {Ok, "clock", "panic"}  \* as None is no string

VARIABLES
    input,          \* the call's argument (fixed)
    pc,             \* where the call is
    index,          \* the SignerInfo being judged
    first,          \* the first certificate it names, or None
    others,         \* the other certificates it names, still to try
    first_verdict,  \* the failure of its first certificate, or None
    first_failure,  \* the first SignerInfo's failure, or None
    parsed,         \* the attribute SET was parsed (once)
    authenticated,  \* what the top-down walk accepted, or None before it ran
    at_millis,      \* the chain instant of this SignerInfo
    millis,         \* Clock::millis: the one reading, or None
    verdict,        \* Ok, a Reason, or None while the call runs
    status,         \* the endpoint's status, or None
    host_fault,     \* what broke on the host's side: None, "clock" or "panic"
    clock_reads,    \* history: how often the configured clock was called
    digested        \* history: <<index, certificate>> whose key checked the content

lazy == <<parsed, authenticated, at_millis>>
vars == <<input, pc, index, first, others, first_verdict, first_failure, parsed,
          authenticated, at_millis, millis, verdict, status, host_fault,
          clock_reads, digested>>

Init ==
    /\ input \in Inputs
    /\ pc = "begin"
    /\ index = 1
    /\ first = None
    /\ others = {}
    /\ first_verdict = None
    /\ first_failure = None
    /\ parsed = FALSE
    /\ authenticated = None
    /\ at_millis = None
    /\ millis = None
    /\ verdict = None
    /\ status = None
    /\ host_fault = None
    /\ clock_reads = 0
    /\ digested = {}

\* The call has its verdict; the endpoint still turns it into a status.
Conclude(reason) ==
    /\ verdict' = reason
    /\ pc' = IF input.entry = "receipt" THEN "done" ELSE "respond"

-----------------------------------------------------------------------------
(* Clock::now: at most one reading, and a panic is not cached. *)

\* The clock answers `now`: the reading that was kept, or a new one.
Now(now) ==
    /\ \/ millis = now /\ UNCHANGED <<millis, clock_reads>>
       \/ millis = None /\ millis' = now /\ clock_reads' = clock_reads + 1
    /\ UNCHANGED host_fault

ClockPanics ==
    /\ millis = None
    /\ clock_reads' = clock_reads + 1
    /\ host_fault' = "clock"
    /\ UNCHANGED millis

-----------------------------------------------------------------------------
(* The checks before any SignerInfo is looked at, in their order. *)

OuterFailure ==
    IF Anchors = <<>> THEN InternalError
    ELSE IF input.request = "large" THEN TooLarge
    ELSE IF input.request = "bad" THEN Malformed
    ELSE IF ~input.fits THEN TooLarge
    ELSE IF \/ ~input.base64
            \/ ~input.cms
            \/ Len(input.infos) > MAX_SIGNER_INFOS
            \/ Len(input.bag) > MAX_EMBEDDED_CERTIFICATES
            \/ input.infos = <<>>
         THEN Malformed
    ELSE None

Begin ==
    /\ pc = "begin"
    /\ IF OuterFailure = None
       THEN pc' = "signer" /\ UNCHANGED verdict
       ELSE Conclude(OuterFailure)
    /\ UNCHANGED <<input, index, first, others, first_verdict, first_failure, lazy,
                   millis, status, host_fault, clock_reads, digested>>

-----------------------------------------------------------------------------
(* verify_envelope: each SignerInfo in turn until one passes. *)

names_signer(info, c) == X509[c].issuer = info.issuer /\ X509[c].serial = info.serial

Bag == ElementsOf(input.bag)
Unreadable == {c \in Bag : ~X509[c].readable}

\* The certificates a SignerInfo names, each once: byte-identical copies are
\* one certificate.
signer_certificates(info) == {c \in Bag : names_signer(info, c)}

FirstNamed(info) ==
    input.bag[Least({k \in DOMAIN input.bag : names_signer(info, input.bag[k])})]

\* A broken signer outranks a broken stranger.
BagFailure(info) ==
    IF \E c \in Unreadable : names_signer(info, c) THEN InvalidCertificate
    ELSE IF Unreadable # {} \/ signer_certificates(info) = {} THEN Malformed
    ELSE None

FirstOf(kept, failure) == IF kept = None THEN failure ELSE kept

Signer ==
    /\ pc = "signer"
    /\ index <= Len(input.infos)
    /\ LET info == input.infos[index] IN
         IF BagFailure(info) # None
         THEN /\ first_failure' = FirstOf(first_failure, BagFailure(info))
              /\ index' = index + 1
              /\ UNCHANGED <<pc, first, others>>
         ELSE /\ first' = FirstNamed(info)
              /\ others' = signer_certificates(info) \ {first'}
              /\ pc' = "instant"
              /\ UNCHANGED <<index, first_failure>>
    /\ UNCHANGED <<input, first_verdict, lazy, millis, verdict, status,
                   host_fault, clock_reads, digested>>

\* The receipt's own date when the SET parsed and it decodes.
signed_creation_date == IF input.payload.parses THEN input.payload.date ELSE None

\* The chain instant, and then the walk, once for all SignerInfos.
JudgeAt(instant) ==
    /\ at_millis' = instant
    /\ authenticated' = IF authenticated = None
                        THEN authenticated_top_down(input.bag) ELSE authenticated
    /\ pc' = "try"
    /\ UNCHANGED verdict

ChainInstant ==
    /\ pc = "instant"
    /\ parsed' = TRUE
    /\ first_verdict' = None
    /\ \/ /\ signed_creation_date # None
          /\ JudgeAt(signed_creation_date)
          /\ UNCHANGED <<millis, clock_reads, host_fault>>
       \/ /\ signed_creation_date = None
          /\ \/ \E now \in ClockReadings : Now(now) /\ JudgeAt(now)
             \/ /\ ClockPanics
                /\ Conclude(InternalError)
                /\ UNCHANGED <<at_millis, authenticated>>
    /\ UNCHANGED <<input, index, first, others, first_failure, status, digested>>

MarkersVerdict(c, judged) ==
    IF judged.verdict # Ok THEN judged.verdict
    ELSE IF Len(judged.path) < 2 \/ ~Marked(c, judged.path[2]) THEN InvalidCertificatePurpose
    ELSE Ok

\* verify_signer up to the signature: the verdict on the certificate itself.
ChainVerdict(c) ==
    IF c \notin ElementsOf(authenticated) THEN UntrustedChain
    ELSE IF ~X509[c].usable THEN InvalidCertificate
    ELSE MarkersVerdict(c, receipt_path(c, authenticated, at_millis))

verify_cms_signature(info, c) ==
    IF info.contentType /\ info.signedWith = X509[c].key THEN Ok ELSE InvalidSignature

SignerVerdict(n, c) ==
    LET Then(chain) == IF chain = Ok THEN verify_cms_signature(input.infos[n], c) ELSE chain
    IN  Then(ChainVerdict(c))

\* The key of c checks the content, once its chain has passed.
Digest(n, c) ==
    digested' = IF ChainVerdict(c) = Ok /\ input.infos[n].contentType
                THEN digested \cup {<<n, c>>} ELSE digested

FirstTried(v) ==
    \/ v = Ok /\ pc' = "signed" /\ UNCHANGED first_verdict
    \/ v # Ok /\ pc' = "others" /\ first_verdict' = v

VerifyFirst ==
    /\ pc = "try"
    /\ Digest(index, first)
    /\ FirstTried(SignerVerdict(index, first))
    /\ UNCHANGED <<input, index, first, others, first_failure, lazy, millis,
                   verdict, status, host_fault, clock_reads>>

\* One passing is enough; the order among the others decides nothing.
VerifyOther ==
    /\ pc = "others"
    /\ \E c \in others :
         /\ Digest(index, c)
         /\ IF SignerVerdict(index, c) = Ok
            THEN pc' = "signed" /\ UNCHANGED others
            ELSE others' = others \ {c} /\ UNCHANGED pc
    /\ UNCHANGED <<input, index, first, first_verdict, first_failure, lazy, millis,
                   verdict, status, host_fault, clock_reads>>

\* Mutant: only the first certificate a SignerInfo names is tried.
SignerFailedEarly ==
    /\ pc = "others"
    /\ first_failure' = FirstOf(first_failure, first_verdict)
    /\ index' = index + 1
    /\ others' = {}
    /\ pc' = "signer"
    /\ UNCHANGED <<input, first, first_verdict, lazy, millis, verdict, status,
                   host_fault, clock_reads, digested>>

\* Only when none passes is the first one's failure this SignerInfo's.
SignerFailed ==
    /\ pc = "others"
    /\ others = {}
    /\ first_failure' = FirstOf(first_failure, first_verdict)
    /\ index' = index + 1
    /\ pc' = "signer"
    /\ UNCHANGED <<input, first, others, first_verdict, lazy, millis, verdict,
                   status, host_fault, clock_reads, digested>>

NoSignerPassed ==
    /\ pc = "signer"
    /\ index > Len(input.infos)
    /\ Conclude(first_failure)
    /\ UNCHANGED <<input, index, first, others, first_verdict, first_failure, lazy,
                   millis, status, host_fault, clock_reads, digested>>

\* A trusted signer signed these bytes: a SET that does not parse is
\* UNREADABLE_PAYLOAD, never MALFORMED.
decode_signed_payload ==
    /\ pc = "signed"
    /\ Conclude(IF input.payload.parses THEN Ok ELSE UnreadablePayload)
    /\ UNCHANGED <<input, index, first, others, first_verdict, first_failure, lazy,
                   millis, status, host_fault, clock_reads, digested>>

\* A panic of the library itself, anywhere before the answer, is contained.
Panic ==
    /\ pc # "done"
    /\ Anchors # <<>>
    /\ host_fault' = "panic"
    /\ verdict' = InternalError
    /\ status' = IF input.entry = "receipt" THEN None ELSE 21009
    /\ pc' = "done"
    /\ UNCHANGED <<input, index, first, others, first_verdict, first_failure, lazy,
                   millis, clock_reads, digested>>

-----------------------------------------------------------------------------
(* The endpoint: endpoint.rs. *)

StatusOf(reason) ==
    CASE reason \in {Malformed, TooLarge} -> 21002
      [] reason \in {InvalidSignature, UntrustedChain, InvalidCertificate,
                     InvalidCertificatePurpose} -> 21003
      [] reason \in {UnreadablePayload, InternalError} -> 21009

\* Mutant: a receipt without an environment passes as any.
RoutedStatusLax ==
    IF input.entry = "Production" /\ input.payload.environment = "Sandbox" THEN 21007
    ELSE IF input.entry = "Sandbox" /\ input.payload.environment = "Production" THEN 21008
    ELSE IF input.payload.unknown17 THEN 21009 ELSE 0

RoutedStatus ==
    LET production == input.payload.environment = "Production" IN
    IF input.entry = "Production" /\ ~production THEN 21007
    ELSE IF input.entry = "Sandbox" /\ production THEN 21008
    ELSE IF input.payload.unknown17 THEN 21009 ELSE 0

\* A status-0 body carries request_date, which the clock gives; one that does
\* not render is a broken clock.
Respond ==
    /\ pc = "respond"
    /\ pc' = "done"
    /\ \/ /\ verdict # Ok \/ RoutedStatus # 0
          /\ status' = IF verdict # Ok THEN StatusOf(verdict) ELSE RoutedStatus
          /\ UNCHANGED <<millis, clock_reads, host_fault>>
       \/ /\ verdict = Ok /\ RoutedStatus = 0
          /\ \/ \E now \in ClockReadings :
                  Now(now) /\ status' = IF now \in Renderable THEN 0 ELSE 21009
             \/ ClockPanics /\ status' = 21009
    /\ UNCHANGED <<input, index, first, others, first_verdict, first_failure, lazy,
                   verdict, digested>>

\* The caller has its answer.  Any other state without a step is a call that
\* got stuck, which TLC reports as a deadlock.
Returned == pc = "done" /\ UNCHANGED vars

Next ==
    \/ Begin \/ Signer \/ ChainInstant
    \/ VerifyFirst \/ VerifyOther \/ SignerFailed \/ NoSignerPassed
    \/ decode_signed_payload \/ Panic \/ Respond \/ Returned

Spec == Init /\ [][Next]_vars

-----------------------------------------------------------------------------
TypeOK ==
    /\ input \in InputType
    /\ pc \in {"begin", "signer", "instant", "try", "others", "signed", "respond", "done"}
    /\ index \in 1..(Len(input.infos) + 1)
    /\ first \in Certificate \cup {None}
    /\ others \subseteq Certificate
    /\ first_verdict \in Reason \cup {None}
    /\ first_failure \in Reason \cup {None}
    /\ parsed \in BOOLEAN
    /\ authenticated = None \/ authenticated \in Seq(Certificate)
    /\ at_millis \in Int \cup {None}
    /\ millis \in ClockReadings \cup {None}
    /\ verdict \in Reason \cup {Ok, None}
    /\ status \in AppleStatus \cup {None}
    /\ host_fault \in {None, "clock", "panic"}
    /\ clock_reads \in Nat
    /\ digested \subseteq Nat \X Certificate

(* What the verdict should mean, without the path builder. *)

\* A path of embedded certificates, signer first, whose last one an anchor
\* signed, judged link by link at the exact millisecond.  A pinned root that
\* is embedded is trusted by fiat: neither its start nor its CA flag is judged.
GenuinePath(path, t) ==
    /\ \A n \in DOMAIN path :
         /\ ~X509[path[n]].critical
         /\ t <= X509[path[n]].notAfter * 1000
         /\ path[n] \notin AnchorSet =>
              /\ X509[path[n]].notBefore * 1000 <= t
              /\ n > 1 => X509[path[n]].ca /\ X509[path[n]].certSign
         /\ n < Len(path) => signed_by(path[n], path[n + 1])
    /\ \E a \in AnchorSet : signed_by(path[Len(path)], a)

\* The SignerInfo names c, made its signature with c's key, and c is Apple's
\* receipt signer under Apple's WWDR intermediate.
Genuine(info, c, t) ==
    /\ names_signer(info, c)
    /\ info.contentType
    /\ info.signedWith = X509[c].key
    /\ X509[c].leafOid
    /\ \E n \in 2..Len(input.bag) : \E path \in [1..n -> Bag] :
         /\ path[1] = c
         /\ X509[path[2]].wwdrOid
         /\ GenuinePath(path, t)

SomeGenuine == \E n \in DOMAIN input.infos, c \in Bag : Genuine(input.infos[n], c, at_millis)

\* The instant the chain must be judged at: the signed date, else the clock.
RightInstant == IF signed_creation_date # None THEN signed_creation_date ELSE millis

\* A verdict that only a trusted signature may produce (the payload, or
\* UNREADABLE_PAYLOAD) is given only when some SignerInfo is genuine at the
\* instant receipt.rs says the chain is judged at; and no certificate's key is
\* used on the content before its own chain has passed, whatever the verdict.
AcceptedMeansGenuine ==
    /\ verdict \in {Ok, UnreadablePayload} => at_millis = RightInstant /\ SomeGenuine
    /\ \A used \in digested : ChainVerdict(used[2]) = Ok

\* receipt.rs: "one passing is enough".  Whatever look-alike or foreign
\* SignerInfo is placed first, a certificate that passes as the signer of a
\* SignerInfo that names it is never hidden.
NonePasses ==
    \A n \in DOMAIN input.infos :
        BagFailure(input.infos[n]) = None =>
            \A c \in signer_certificates(input.infos[n]) : SignerVerdict(n, c) # Ok

OnePassingIsEnough ==
    (verdict \in Reason \ {UnreadablePayload, InternalError} /\ authenticated # None)
        => NonePasses

\* Status 0 is given only for a genuine receipt of the endpoint's own
\* environment whose purchases all decoded, with a request_date that renders.
\* An app server reads 21002 and 21003 as "deny": neither is given for a fault
\* of the host, nor for a receipt whose signer passes.  And one call reads the
\* clock once, so the chain and request_date are of one instant.
StatusTellsTheVerdict ==
    /\ status = 0 =>
         /\ verdict = Ok /\ SomeGenuine
         /\ input.entry = "Production" <=> input.payload.environment = "Production"
         /\ ~input.payload.unknown17
         /\ millis \in Renderable
    /\ status \in {21002, 21003} =>
         host_fault = None /\ (authenticated # None => NonePasses)
    /\ clock_reads <= 1

\* openssl/src/path.rs, on linked_above: once narrowed to the certificates that
\* really sign the path, "the bag's order no longer" decides it.  The signer's
\* path would be the same for every order of the same bag.  It is not when one
\* name and key is certified under two pinned roots: both certificates sign
\* the path, both stay, and the run of the first root fails on the other one.
Reorderings(s) ==
    {[k \in DOMAIN s |-> s[f[k]]] :
        f \in {g \in [DOMAIN s -> DOMAIN s] : \A i, j \in DOMAIN s : g[i] = g[j] => i = j}}

BagOrderDoesNotDecide ==
    pc = "try" =>
        \A bag \in Reorderings(input.bag) :
            receipt_path(first, authenticated_top_down(bag), at_millis)
                = receipt_path(first, authenticated, at_millis)
=============================================================================
