--------------------------- MODULE MCVerification ---------------------------
(***************************************************************************)
(* One call of the core, of a receipt (or its endpoint) or of a JWS, over  *)
(* a small world of certificates.                                          *)
(*                                                                         *)
(* Four roots are pinned: `W` merely carries the intermediate's name, `Q`  *)
(* and `R` carry one name with two keys, `R2` has its own.  `I` is Apple's *)
(* intermediate under R, `X` a second certificate of its key under R2.     *)
(* `L` is the signing leaf, `F` a look-alike with L's identity on another  *)
(* key, `N` a sibling without the marker, and `U` does not decode.  Only a *)
(* JWS holds the rest: `J`, an intermediate of I's name and key that is no *)
(* CA, `K`, another key under the same name, `E`, an expired copy of I,    *)
(* `C`, a leaf with a critical extension, `V`, one whose key OpenSSL       *)
(* cannot build.                                                           *)
(***************************************************************************)
EXTENDS ReceiptVerify, JwsVerify, TLC

CONSTANTS R, R2, Q, W, I, X, L, F, N, U, J, K, E, C, V

VARIABLE api   \* "receipt" or "jws": the call that is made

MCCertificate == {R, R2, Q, W, I, X, L, F, N, U, J, K, E, C, V}
MCAnchors == <<W, Q, R, R2>>

Plain ==
    [subject |-> "", issuer |-> "", serial |-> "1", key |-> "", signedWith |-> "",
     aki |-> None, certSign |-> TRUE, ca |-> FALSE, critical |-> FALSE,
     usable |-> TRUE, readable |-> TRUE, leafOid |-> FALSE, wwdrOid |-> FALSE,
     notBefore |-> 10, notAfter |-> 20]

Root(name, key) ==
    [Plain EXCEPT !.subject = name, !.issuer = name, !.key = key,
                  !.signedWith = key, !.ca = TRUE, !.notAfter = 12]

Intermediate(root, rootKey) ==
    [Plain EXCEPT !.subject = "WWDR", !.issuer = root, !.key = "kI",
                  !.signedWith = rootKey, !.ca = TRUE]

Leaf(key, signedWith) ==
    [Plain EXCEPT !.subject = "Signing", !.issuer = "WWDR", !.key = key,
                  !.signedWith = signedWith, !.leafOid = TRUE]

MCX509 ==
       R  :> Root("Root", "kR")
    @@ R2 :> Root("Root2", "kR2")
    @@ Q  :> Root("Root", "kQ")
    @@ W  :> Root("WWDR", "kW")
    @@ I  :> [Intermediate("Root", "kR") EXCEPT !.wwdrOid = TRUE]
    @@ X  :> Intermediate("Root2", "kR2")
    @@ L  :> Leaf("kL", "kI")
    @@ F  :> Leaf("kF", "kF")
    @@ N  :> [Leaf("kN", "kI") EXCEPT !.serial = "2", !.leafOid = FALSE]
    @@ U  :> [Leaf("kU", "kI") EXCEPT !.serial = "2", !.readable = FALSE]
    @@ J  :> [Intermediate("Root", "kR") EXCEPT !.wwdrOid = TRUE, !.ca = FALSE]
    @@ K  :> [Intermediate("Root", "kR") EXCEPT !.wwdrOid = TRUE, !.key = "kK"]
    @@ E  :> [Intermediate("Root", "kR") EXCEPT !.wwdrOid = TRUE, !.notAfter = 14]
    @@ C  :> [Leaf("kL", "kI") EXCEPT !.critical = TRUE]
    @@ V  :> [Leaf("kL", "kI") EXCEPT !.usable = FALSE]

SeqsUpTo(S, n) == UNION {[1..m -> S] : m \in 0..n}

Payload(date) ==
    [parses |-> TRUE, date |-> date, environment |-> "Production", unknown17 |-> FALSE]

\* A date in the window, none, and a SET that does not parse.  With the last
\* two the clock dates the chain, which may answer an instant one millisecond
\* past the window's last second.
Payloads ==
    {Payload(15000), Payload(None), [Payload(15000) EXCEPT !.parses = FALSE]}

Info(serial, key) ==
    [issuer |-> "WWDR", serial |-> serial, signedWith |-> key, contentType |-> TRUE]

Infos ==
    {Info("1", "kL"), Info("1", "kF"), Info("2", "kN"),
     [Info("1", "kL") EXCEPT !.contentType = FALSE]}

Call(bag, infos, payload) ==
    [entry |-> "receipt", request |-> "ok", fits |-> TRUE, base64 |-> TRUE,
     cms |-> TRUE, bag |-> bag, infos |-> infos, payload |-> payload]

\* Envelopes that are refused before a SignerInfo is looked at.
Refused ==
    LET good == Call(<<L, I>>, <<Info("1", "kL")>>, Payload(15000))
    IN  {[good EXCEPT !.fits = f, !.base64 = b, !.cms = m] : f, b, m \in BOOLEAN}
        \cup {[good EXCEPT !.infos = <<>>],
              [good EXCEPT !.infos = [n \in 1..3 |-> Info("1", "kL")]],
              [good EXCEPT !.bag = <<L, I, R, R2>>]}

\* Every bag of at most three different certificates a sender would choose
\* from, in every order, and bags with a repetition, an unreadable entry or the
\* root itself, under every one or two SignerInfos.
Bags ==
    {bag \in SeqsUpTo({I, X, L, F, N}, 3) : \A m, n \in DOMAIN bag : m # n => bag[m] # bag[n]}
    \cup {<<L, L, I>>, <<I, F, I>>, <<U>>, <<L, U, I>>, <<U, L, N>>, <<L, I, R>>, <<R, I, L>>}

MCInputs ==
    {Call(bag, <<info>>, payload) : bag \in Bags, info \in Infos, payload \in Payloads}
    \cup {Call(bag, <<one, two>>, payload) :
            bag \in Bags, one \in Infos, two \in Infos, payload \in {Payload(15000), Payload(None)}}
    \cup Refused

\* One genuine SignerInfo over every bag.
MCOrderInputs == {Call(bag, <<Info("1", "kL")>>, Payload(15000)) : bag \in Bags}

\* The endpoint: fewer bags, every environment and payload.
MCEndpointInputs ==
    {[Call(bag, infos, [p EXCEPT !.environment = e, !.unknown17 = u])
        EXCEPT !.entry = entry] :
        bag \in {<<L, I>>, <<F, L, I>>, <<F, I>>, <<I, U>>},
        infos \in {<<Info("1", "kL")>>, <<Info("1", "kF"), Info("1", "kL")>>,
                   <<Info("2", "kL"), Info("1", "kL")>>},
        p \in Payloads,
        e \in {"Production", "Sandbox", None}, u \in BOOLEAN,
        entry \in {"Production", "Sandbox"}}
    \cup {[c EXCEPT !.entry = "Production", !.request = r] :
            c \in Refused, r \in {"ok", "large", "bad"}}

MCRenderable == {15000}

AllInputs == MCInputs \cup MCEndpointInputs
-----------------------------------------------------------------------------
(* JWS *)

Jws(chain, key, payload) ==
    [fits |-> TRUE, canonical |-> TRUE, header |-> TRUE, es256 |-> TRUE,
     x5c |-> chain, signedWith |-> key, payload |-> payload]

JwsPayload(signedDate, receiptCreationDate) ==
    [object |-> TRUE, signedDate |-> signedDate, receiptCreationDate |-> receiptCreationDate]

\* A date inside the window, one millisecond past its last second, none, and
\* a payload that is no JSON object.
JwsPayloads ==
    {JwsPayload(d, r) : d \in {15000, 20001, None}, r \in {13000, None}}
    \cup {[JwsPayload(15000, None) EXCEPT !.object = FALSE]}

Entries == {R, I, J, K, E, L, N, C, V, U, None}

GoodJws == Jws(<<L, I, R>>, "kL", JwsPayload(15000, None))
MCJwsInputs ==
    {Jws(<<l, i, r>>, key, p) :
        l \in Entries, i \in Entries, r \in {L, U},
        key \in {"kL", "kI", "kN"}, p \in JwsPayloads}
    \cup {[GoodJws EXCEPT !.fits = f, !.canonical = c, !.header = h, !.es256 = a] :
            f, c, h, a \in BOOLEAN}
    \cup {[GoodJws EXCEPT !.x5c = x5c] : x5c \in {<<L, I>>, <<L, I, None>>, <<L, I, R>>, <<L, I, R, R>>}}
-----------------------------------------------------------------------------
\* The variables of the call that is not made: a call before its first step.
NoReceipt ==
    /\ input = Call(<<L, I>>, <<Info("1", "kL")>>, Payload(15000)) /\ pc = "begin"
    /\ index = 1 /\ first = None /\ others = {} /\ first_verdict = None /\ first_failure = None
    /\ parsed = FALSE /\ authenticated = None /\ at_millis = None /\ millis = None
    /\ verdict = None /\ status = None /\ host_fault = None /\ clock_reads = 0 /\ digested = {}
NoJws ==
    /\ jws = GoodJws /\ jws_pc = "read" /\ jws_at_millis = None /\ jws_verdict = None
    /\ jws_host_fault = None /\ leaf_used = FALSE

VerificationInit ==
    \/ api = "receipt" /\ Init /\ NoJws
    \/ api = "jws" /\ JwsInit /\ NoReceipt

VerificationNext ==
    \/ api = "receipt" /\ Next /\ UNCHANGED <<api, jws_vars>>
    \/ api = "jws" /\ JwsNext /\ UNCHANGED <<api, vars>>

VerificationSpec == VerificationInit /\ [][VerificationNext]_<<api, vars, jws_vars>>
=============================================================================
