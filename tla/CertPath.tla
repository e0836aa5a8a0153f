------------------------------ MODULE CertPath ------------------------------
(***************************************************************************)
(* Certificates and certificate paths: the pure part of the trust decision *)
(* of the Rust core.                                                       *)
(*                                                                         *)
(*  - the pairing rules of rust/openssl/src/certificate.rs;                *)
(*  - the top-down walk of rust/src/path.rs, as a function on bags;        *)
(*  - verify_path of rust/openssl/src/path.rs: linked_above, the           *)
(*    per-anchor runs and the choice of the run that is reported;          *)
(*  - checked_path, receipt_path and validate_pair of rust/src/path.rs.    *)
(*                                                                         *)
(* X509_verify_cert is OpenSSL's and is modelled from how path.rs uses it  *)
(* and documents it: one store, PARTIAL_CHAIN, trusted certificates looked *)
(* up first, no backtracking, every problem recorded.                      *)
(*                                                                         *)
(* A certificate is a model value; X509[c] holds the fields the code tells *)
(* apart.  Distinct values are distinct encodings, so Certificate::same_as *)
(* (X509_cmp) is equality.                                                 *)
(***************************************************************************)
EXTENDS Integers, Sequences, FiniteSets, Vouching

CONSTANTS
    Certificate,   \* every certificate an input or the configuration may hold
    X509,          \* [Certificate -> record], see X509Type
    Anchors,       \* the pinned roots (Config::roots), a sequence, in order
    None           \* Rust's None: equal to no number, name or verdict

X509Type ==
    [subject  : STRING,  issuer : STRING,    \* names, as X509_NAME_cmp sees them
     serial   : STRING,                      \* with issuer: what a SignerInfo names
     key      : STRING,  signedWith : STRING,\* own key; key of the signature on it
     aki      : STRING \cup {None},          \* authority key identifier
     certSign : BOOLEAN,                     \* keyUsage allows signing (or is absent)
     ca       : BOOLEAN,                     \* X509_check_ca, keyUsage apart
     critical : BOOLEAN,                     \* an unprocessed critical extension
     usable   : BOOLEAN,                     \* OpenSSL can build the key
     readable : BOOLEAN,                     \* Certificate::is_readable
     leafOid  : BOOLEAN, wwdrOid : BOOLEAN,  \* Apple's two marker extensions
     notBefore : Int,    notAfter : Int]     \* validity window, Unix seconds

ASSUME CertificateAssumption ==
    /\ X509 \in [Certificate -> X509Type]
    /\ Anchors \in Seq(Certificate)
    /\ None \notin Int \cup STRING

ElementsOf(s) == {s[i] : i \in DOMAIN s}

AnchorSet == ElementsOf(Anchors)

\* Apple's markers, on the leaf that signs and on the intermediate above it:
\* without them any developer's certificate would do.
Marked(leaf, intermediate) == X509[leaf].leafOid /\ X509[intermediate].wwdrOid

\* The elements of s that are in S, in their order.
Only(s, S) ==
    LET kept[n \in 0..Len(s)] ==
          IF n = 0 THEN <<>>
          ELSE kept[n - 1] \o (IF s[n] \in S THEN <<s[n]>> ELSE <<>>)
    IN  kept[Len(s)]

-----------------------------------------------------------------------------
(* The pairing rules. *)

\* Names and key identifiers, the part of X509_check_issued that OpenSSL's
\* issuer lookup uses; the lookup does not look at keyUsage.
LikelyIssued(issuer, c) ==
    /\ X509[issuer].subject = X509[c].issuer
    /\ X509[c].aki \in {None, X509[issuer].key}

\* X509_check_issued: the same, and the issuer's keyUsage.
may_have_issued(issuer, c) ==
    LikelyIssued(issuer, c) /\ X509[issuer].certSign

SignatureVerifies(c, issuer) ==
    X509[issuer].usable /\ X509[c].signedWith = X509[issuer].key

issued_by(c, issuer) ==
    may_have_issued(issuer, c) /\ SignatureVerifies(c, issuer)

signed_by(c, issuer) ==
    X509[issuer].subject = X509[c].issuer /\ SignatureVerifies(c, issuer)

\* A certificate without an issuer of its own; the issuer lookup ends there.
SelfIssued(c) == LikelyIssued(c, c)

\* issued_by as a relation, and what it makes of a set of certificates.
IssuedPairs == {p \in Certificate \X Certificate : issued_by(p[1], p[2])}

VouchedFor(embedded) == Vouched(embedded, AnchorSet, IssuedPairs)

IssuedByOneOf(issuers, some) == {c \in some : \E i \in issuers : issued_by(c, i)}

\* The top-down walk over a bag, in the order it accepts: copies of an anchor
\* first, then round by round, each round in bag order.  Module TopDownWalk
\* is the same walk over sets, one action per round.
WalkBegins(embedded) ==
    [accepted |-> Only(embedded, AnchorSet),
     pending  |-> Only(embedded, ElementsOf(embedded) \ AnchorSet),
     issuers  |-> AnchorSet]

WalkRound(before) ==
    LET waiting    == ElementsOf(before.pending)
        vouched    == IssuedByOneOf(before.issuers, waiting)
        this_round == Only(before.pending, vouched)
    IN  [accepted |-> before.accepted \o this_round,
         pending  |-> Only(before.pending, waiting \ vouched),
         issuers  |-> ElementsOf(this_round)]

authenticated_top_down(embedded) ==
    LET rounds[n \in 0..Len(embedded)] ==
          IF n = 0 THEN WalkBegins(embedded) ELSE WalkRound(rounds[n - 1])
    IN  rounds[Len(embedded)].accepted

-----------------------------------------------------------------------------
(* verify_path: rust/openssl/src/path.rs. *)

NoIssuer       == "NoIssuer"
BadSignature   == "BadSignature"
NotCa          == "NotCa"
NotYetValid    == "NotYetValid"
Expired        == "Expired"
Critical       == "UnhandledCriticalExtension"

Problem(depth, kind) == [depth |-> depth, kind |-> kind]

\* The certificates of `untrusted` that signed the target or one another up
\* the path, in their order: rounds[n] is the state after n rounds, and a
\* round that links nothing leaves an empty frontier.
linked_above(target, untrusted) ==
    LET rounds[n \in 0..Len(untrusted)] ==
          IF n = 0 THEN [linked |-> {}, frontier |-> {target}]
          ELSE LET before == rounds[n - 1]
                   next == {c \in ElementsOf(untrusted) \ before.linked :
                              \E below \in before.frontier :
                                 below # c /\ signed_by(below, c)}
               IN  [linked |-> before.linked \cup next, frontier |-> next]
        linked == rounds[Len(untrusted)].linked
    IN  Only(untrusted, linked)

ValidAt(c, second) ==
    X509[c].notBefore <= second /\ second <= X509[c].notAfter

Least(S) == CHOOSE n \in S : \A m \in S : n <= m

\* The first element of s that is in S, or the empty sequence.
FirstIn(s, S) ==
    LET at == {n \in DOMAIN s : s[n] \in S}
    IN  IF at = {} THEN <<>> ELSE <<s[Least(at)]>>

\* OpenSSL's choice among the likely issuers offered, never one that is on the
\* chain already: the first that is valid at the check time, else the first
\* of those that expire last.
find_issuer(c, offered, chain, second) ==
    LET likely == {i \in ElementsOf(offered) \ ElementsOf(chain) : LikelyIssued(i, c)}
        valid  == {i \in likely : ValidAt(i, second)}
        last   == {i \in likely : \A j \in likely : X509[j].notAfter <= X509[i].notAfter}
    IN  FirstIn(offered, IF valid # {} THEN valid ELSE last)

\* Trusted certificates are looked up first.
FirstFound(trusted, other) == IF trusted # <<>> THEN trusted ELSE other

\* The chain grows by one certificate.  It ends at the first store certificate
\* (PARTIAL_CHAIN) and at a certificate that names itself as its issuer.
Extended(chain, top, untrusted, store, second) ==
    IF top \in ElementsOf(store) \/ SelfIssued(top) THEN chain
    ELSE chain \o FirstFound(find_issuer(top, store, chain, second),
                             find_issuer(top, untrusted, chain, second))

\* The chain OpenSSL builds.
build_chain(target, untrusted, store, second) ==
    LET chain[n \in 0..(Len(untrusted) + 1)] ==
          IF n = 0 THEN <<target>>
          ELSE Extended(chain[n - 1], chain[n - 1][Len(chain[n - 1])],
                        untrusted, store, second)
    IN  chain[Len(untrusted) + 1]

\* Every problem the verify callback records on that chain.  An anchor's own
\* window, CA flag and path length are waived, nothing else is.
recorded_problems(chain, store, second) ==
    LET depths  == 1..Len(chain)
        judged  == {d \in depths : chain[d] \notin AnchorSet}
        top     == chain[Len(chain)]
    IN  {Problem(Len(chain) - 1, NoIssuer) : x \in {top} \ ElementsOf(store)}
        \cup {Problem(d - 1, BadSignature) :
                d \in {e \in depths : e < Len(chain) /\ ~signed_by(chain[e], chain[e + 1])}}
        \cup {Problem(d - 1, NotCa) :
                d \in {e \in judged : e > 1 /\ ~(X509[chain[e]].ca /\ X509[chain[e]].certSign)}}
        \cup {Problem(d - 1, NotYetValid) :
                d \in {e \in judged : second < X509[chain[e]].notBefore}}
        \cup {Problem(d - 1, Expired) :
                d \in {e \in judged : X509[chain[e]].notAfter < second}}
        \cup {Problem(d - 1, Critical) :
                d \in {e \in depths : X509[chain[e]].critical}}

Outcome(chain, store, second) ==
    [chain    |-> chain,
     anchored |-> chain[Len(chain)] \in AnchorSet,
     problems |-> recorded_problems(chain, store, second)]

run_with(target, untrusted, store, second) ==
    Outcome(build_chain(target, untrusted, store, second), store, second)

passed(outcome) == outcome.anchored /\ outcome.problems = {}

links_hold(outcome) ==
    /\ outcome.anchored
    /\ \A p \in outcome.problems : p.kind \notin {NoIssuer, BadSignature}

\* Of the runs, the first that passes, else the first whose links hold, else
\* the first.
Reported(outcomes) ==
    LET passing == {n \in DOMAIN outcomes : passed(outcomes[n])}
        holding == {n \in DOMAIN outcomes : links_hold(outcomes[n])}
    IN  outcomes[Least(IF passing # {} THEN passing
                       ELSE IF holding # {} THEN holding ELSE {1})]

\* The stores of the runs: one per candidate anchor, all anchors in one when
\* there is none.
Stores(candidates) ==
    IF candidates = <<>> THEN <<Anchors>>
    ELSE [n \in DOMAIN candidates |-> <<candidates[n]>>]

RunEach(stores, target, linked, second) ==
    Reported([n \in DOMAIN stores |-> run_with(target, linked, stores[n], second)])

run(target, linked, second) ==
    LET leads == {a \in AnchorSet :
                    \E c \in {target} \cup ElementsOf(linked) : may_have_issued(a, c) \/ a = c}
    IN  RunEach(Stores(Only(Anchors, leads)), target, linked, second)

verify_path(target, untrusted, second) ==
    run(target, linked_above(target, untrusted), second)

-----------------------------------------------------------------------------
(* The core's policy: rust/src/path.rs. *)

second_of(millis) == millis \div 1000

\* Mutant: truncated, as the start of a window is.
rounded_down(millis) == second_of(millis)

rounded_up(millis) ==
    IF millis % 1000 = 0 THEN second_of(millis) ELSE second_of(millis) + 1

not_after_at_least(c, secs) == X509[c].notAfter >= secs

\* `Expired` for every certificate below the anchor whose notAfter is before
\* `limit`.
WithExpired(outcome, limit) ==
    LET below == IF outcome.anchored THEN Len(outcome.chain) - 1 ELSE Len(outcome.chain)
        late  == {d \in 1..below : ~not_after_at_least(outcome.chain[d], limit)}
    IN  [outcome EXCEPT !.problems = @ \cup {Problem(d - 1, Expired) : d \in late}]

\* verify_path at the second the instant falls in, and the end of each window
\* at the rounded-up one.
checked_path(target, untrusted, at_millis) ==
    WithExpired(verify_path(target, untrusted, second_of(at_millis)), rounded_up(at_millis))

ValidityKinds == {NotYetValid, Expired}

is_structural(kind) == kind \notin ValidityKinds \cup {Critical}

Ok == "OK"
Malformed == "MALFORMED"
TooLarge == "TOO_LARGE"
InvalidSignature == "INVALID_SIGNATURE"
UntrustedChain == "UNTRUSTED_CHAIN"
InvalidCertificate == "INVALID_CERTIFICATE"
InvalidCertificatePurpose == "INVALID_CERTIFICATE_PURPOSE"
UnreadablePayload == "UNREADABLE_PAYLOAD"
InternalError == "INTERNAL_ERROR"

Reason == {Malformed, TooLarge, InvalidSignature, UntrustedChain,
           InvalidCertificate, InvalidCertificatePurpose, UnreadablePayload,
           InternalError}

KindsOf(outcome) == {p.kind : p \in outcome.problems}

\* The verdict on the path of a receipt's signer, and the path below the
\* anchor, signer first, when it is Ok.
SignerPath(outcome) ==
    [verdict |->
       IF ~outcome.anchored \/ \E k \in KindsOf(outcome) : is_structural(k)
       THEN UntrustedChain
       ELSE IF KindsOf(outcome) \cap ValidityKinds # {} THEN InvalidCertificate
       ELSE IF outcome.problems # {} THEN UntrustedChain ELSE Ok,
     path |-> SubSeq(outcome.chain, 1, Len(outcome.chain) - 1)]

receipt_path(signer, authenticated, at_millis) ==
    SignerPath(checked_path(signer, authenticated, at_millis))

\* The verdict on the fixed JWS path: leaf, intermediate, pinned anchor.
PairVerdict(outcome, leaf, intermediate) ==
    LET at(depth, some) == \E p \in outcome.problems : p.depth = depth /\ p.kind \in some
    IN  IF \E k \in KindsOf(outcome) : is_structural(k) /\ k # NotCa THEN UntrustedChain
        ELSE IF at(1, ValidityKinds) THEN InvalidCertificate
        ELSE IF at(1, {NotCa, Critical}) THEN UntrustedChain
        ELSE IF at(0, ValidityKinds) THEN InvalidCertificate
        ELSE IF /\ outcome.problems = {}
                /\ outcome.anchored
                /\ Len(outcome.chain) = 3
                /\ outcome.chain[1] = leaf
                /\ outcome.chain[2] = intermediate
             THEN Ok ELSE UntrustedChain

validate_pair(leaf, intermediate, at_millis) ==
    IF \A a \in AnchorSet : ~issued_by(intermediate, a) THEN UntrustedChain
    ELSE IF ~X509[intermediate].usable THEN InvalidCertificate
    ELSE IF ~issued_by(leaf, intermediate) THEN UntrustedChain
    ELSE IF ~X509[leaf].usable THEN InvalidCertificate
    ELSE PairVerdict(checked_path(leaf, <<intermediate>>, at_millis), leaf, intermediate)
=============================================================================
