----------------------------- MODULE JwsVerify -----------------------------
(***************************************************************************)
(* Verifier::verify_signed_data of the Rust core: one JWS, from its bytes  *)
(* to the verdict (rust/src/verifier.rs, jws.rs).  The chain is fixed:     *)
(* x5c is leaf, intermediate and a third entry nobody trusts.  Which       *)
(* environment the payload names decides no verdict and is left out.       *)
(***************************************************************************)
EXTENDS CertPath

CONSTANTS
    JwsInputs,        \* the calls, see JwsInputType
    JwsClockReadings   \* what the configured clock may answer, millis

\* A date is None when it is absent, no number, or a number no instant holds.
JwsPayloadType ==
    [object : BOOLEAN,                          \* a JSON object in UTF-8
     signedDate : Int \cup {None}, receiptCreationDate : Int \cup {None}]

JwsInputType ==
    [fits : BOOLEAN, canonical : BOOLEAN,       \* size; three base64url segments
     header : BOOLEAN, es256 : BOOLEAN,         \* a JSON object; its alg
     x5c : Seq(Certificate \cup {None}),        \* None: not base64 or no certificate
     signedWith : STRING,                       \* the key that signed header and payload
     payload : JwsPayloadType]

ASSUME JwsAssumption ==
    /\ JwsInputs \subseteq JwsInputType
    /\ JwsClockReadings \subseteq Int
    /\ None \notin Reason \cup {Ok, "clock", "panic"}  \* as None is no string

VARIABLES
    jws,             \* the call's argument (fixed)
    jws_pc,          \* where the call is
    jws_at_millis,   \* the chain instant
    jws_verdict,     \* Ok, a Reason, or None while the call runs
    jws_host_fault,  \* what broke on the host's side: None, "clock" or "panic"
    leaf_used        \* history: the leaf's key checked the signature

jws_vars == <<jws, jws_pc, jws_at_millis, jws_verdict, jws_host_fault, leaf_used>>

JwsInit ==
    /\ jws \in JwsInputs
    /\ jws_pc = "read"
    /\ jws_at_millis = None
    /\ jws_verdict = None
    /\ jws_host_fault = None
    /\ leaf_used = FALSE

JwsConclude(reason) == jws_pc' = "done" /\ jws_verdict' = reason

\* Conclude with a failure, or go on.
Judge(reason, next) ==
    IF reason = Ok THEN jws_pc' = next /\ UNCHANGED jws_verdict ELSE JwsConclude(reason)

leaf == jws.x5c[1]
intermediate == jws.x5c[2]

IsCertificate(entry) == entry # None /\ X509[entry].readable

\* The outer structure; the third entry has to be a certificate, no more.
OuterVerdict ==
    IF Anchors = <<>> THEN InternalError
    ELSE IF ~jws.fits THEN TooLarge
    ELSE IF ~(jws.canonical /\ jws.header /\ jws.es256 /\ Len(jws.x5c) = 3)
         THEN Malformed
    ELSE IF \A n \in 1..3 : IsCertificate(jws.x5c[n]) THEN Ok
    ELSE InvalidCertificate

Read ==
    /\ jws_pc = "read"
    /\ Judge(OuterVerdict, "instant")
    /\ UNCHANGED <<jws, jws_at_millis, jws_host_fault, leaf_used>>

\* Mutant: an app transaction's creation date is not looked at.
signed_date_only == IF jws.payload.object THEN jws.payload.signedDate ELSE None

\* read_payload never fails the call: what does not read states no date.
signed_date ==
    IF ~jws.payload.object THEN None
    ELSE IF jws.payload.signedDate # None THEN jws.payload.signedDate
    ELSE jws.payload.receiptCreationDate

\* The payload's own date, else the clock, which may panic.
Instant ==
    /\ jws_pc = "instant"
    /\ \/ /\ jws_at_millis' \in IF signed_date # None THEN {signed_date} ELSE JwsClockReadings
          /\ jws_pc' = "chain"
          /\ UNCHANGED <<jws_host_fault, jws_verdict>>
       \/ /\ signed_date = None
          /\ jws_host_fault' = "clock"
          /\ JwsConclude(InternalError)
          /\ UNCHANGED jws_at_millis
    /\ UNCHANGED <<jws, leaf_used>>

PairMarkers ==
    IF Marked(leaf, intermediate) THEN Ok ELSE InvalidCertificatePurpose

\* The markers after the chain, both before the leaf's key is used.
Chain ==
    /\ jws_pc = "chain"
    /\ LET path == validate_pair(leaf, intermediate, jws_at_millis)
       IN  Judge(IF path # Ok THEN path ELSE PairMarkers, "signature")
    /\ UNCHANGED <<jws, jws_at_millis, jws_host_fault, leaf_used>>

signed_payload == IF jws.payload.object THEN Ok ELSE UnreadablePayload

\* Made with the leaf's key, which is on P-256, over header and payload.
verify_es256(c) == jws.signedWith = X509[c].key

\* The signature, and only then what the payload looks like.
verify_signature ==
    /\ jws_pc = "signature"
    /\ leaf_used' = TRUE
    /\ JwsConclude(IF verify_es256(leaf) THEN signed_payload ELSE InvalidSignature)
    /\ UNCHANGED <<jws, jws_at_millis, jws_host_fault>>

\* A panic of the library itself is contained.
JwsPanic ==
    /\ jws_pc # "done"
    /\ Anchors # <<>>
    /\ jws_host_fault' = "panic"
    /\ JwsConclude(InternalError)
    /\ UNCHANGED <<jws, jws_at_millis, leaf_used>>

JwsReturned == jws_pc = "done" /\ UNCHANGED jws_vars

JwsNext == Read \/ Instant \/ Chain \/ verify_signature \/ JwsPanic \/ JwsReturned

JwsSpec == JwsInit /\ [][JwsNext]_jws_vars

-----------------------------------------------------------------------------
JwsTypeOK ==
    /\ jws \in JwsInputType
    /\ jws_pc \in {"read", "instant", "chain", "signature", "done"}
    /\ jws_at_millis \in Int \cup {None}
    /\ jws_verdict \in Reason \cup {Ok, None}
    /\ jws_verdict = None <=> jws_pc # "done"
    /\ jws_host_fault \in {None, "clock", "panic"}
    /\ leaf_used \in BOOLEAN

(* What the verdict should mean, without OpenSSL's path building. *)

\* leaf, intermediate, pinned root, link by link at the exact millisecond.
\* One that is itself pinned is trusted by fiat: neither its start nor its CA
\* flag is judged.
PinnedChain(t) ==
    /\ \A c \in {leaf, intermediate} :
         /\ X509[c].usable /\ ~X509[c].critical
         /\ t <= X509[c].notAfter * 1000
         /\ c \notin AnchorSet => X509[c].notBefore * 1000 <= t
    /\ intermediate \notin AnchorSet => X509[intermediate].ca
    /\ X509[leaf].leafOid /\ X509[intermediate].wwdrOid
    /\ issued_by(leaf, intermediate)
    /\ \E a \in AnchorSet : issued_by(intermediate, a)

\* Two certificates below the root, neither pinned, that do not name
\* themselves; no root signed the leaf, and one that issued the intermediate
\* does not carry its name.  Other roots may carry any name.
OrdinaryChain ==
    /\ leaf # intermediate
    /\ {leaf, intermediate} \cap AnchorSet = {}
    /\ ~SelfIssued(leaf) /\ ~SelfIssued(intermediate)
    /\ \A a \in AnchorSet : ~signed_by(leaf, a)
    /\ \E a \in AnchorSet :
         issued_by(intermediate, a) /\ ~LikelyIssued(a, leaf) /\ ~X509[a].critical

\* The date the payload states first, whichever it is.
StatedDate ==
    LET stated == {d \in {jws.payload.signedDate, jws.payload.receiptCreationDate} : d # None}
    IN  IF ~jws.payload.object \/ stated = {} THEN None
        ELSE IF jws.payload.signedDate \in stated THEN jws.payload.signedDate
        ELSE jws.payload.receiptCreationDate

\* With the host sound, a well-formed JWS is accepted (or its payload called
\* unreadable) only when its leaf signed it under a pinned chain, and always
\* when that chain is an ordinary one: neither the third x5c entry, nor the
\* order of the pinned roots, nor one that shares a name with the intermediate
\* or with the right root changes it, and the payload's text decides only
\* between the two answers.  And the leaf's key is used only once its chain
\* has passed, whatever the verdict.
AcceptedIffPinned ==
    /\ (jws_pc = "done" /\ jws_host_fault = None /\ OuterVerdict = Ok) =>
         /\ StatedDate # None => jws_at_millis = StatedDate
         /\ jws_verdict \in {Ok, UnreadablePayload} =>
              PinnedChain(jws_at_millis) /\ jws.signedWith = X509[leaf].key
         /\ PinnedChain(jws_at_millis) /\ OrdinaryChain /\ jws.signedWith = X509[leaf].key =>
              jws_verdict \in {Ok, UnreadablePayload}
         /\ jws_verdict = Ok => jws.payload.object
    /\ leaf_used => PinnedChain(jws_at_millis)
=============================================================================
