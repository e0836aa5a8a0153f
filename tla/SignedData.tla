------------------------------ MODULE SignedData ------------------------------
(***************************************************************************)
(* A CMS SignedData from its bytes to a judged SignerInfo, in the OpenSSL  *)
(* adapter (rust/openssl/src/cms.rs, envelope.rs): the header walk, the    *)
(* shallow decode that only counts, the bounds, the full decode that       *)
(* builds every certificate's key, and the two checks of a SignerInfo.     *)
(*                                                                         *)
(* A blob is what the sender arranged: the elements of its SignedData in   *)
(* any order, each a tag and the parts inside, a part a tuple that starts  *)
(* with its kind.  In a `certificates` set that is "cert", "bad" or "other"*)
(* (a CertificateChoice without a key); in signerInfos "bad" or "info",    *)
(* with its fields.  What OpenSSL's decoders accept is external.           *)
(***************************************************************************)
EXTENDS Integers, Sequences, FiniteSets

CONSTANTS
    Blobs,        \* records: header ("ok", "malformed", "trailing"), deep, type
                  \* ("signedData", "other", "none"), members
    Keys,         \* the signers' keys
    MaxNodes, MaxSignerInfos, MaxCertificates    \* EnvelopeLimits

LimitsAssumption == MaxNodes \in Nat /\ MaxSignerInfos \in Nat /\ MaxCertificates \in Nat

VARIABLES
    blob,
    stage,        \* the step parse is at, "parsed", or the CmsError
    built,        \* values the shallow decode allocated
    keys,         \* certificate keys the full decode built
    full_decodes, \* how often d2i_CMS_ContentInfo ran
    accepted      \* <<SignerInfo, key>> that verify_signer answered true for, with
                  \* a contentType that matched

vars == <<blob, stage, built, keys, full_decodes, accepted>>
-----------------------------------------------------------------------------
(* The headers: walk_exact, in full in HeaderWalk.  An element has its own *)
(* (<<i, 0>>) and one for each part.                                       *)
Headers(b) == UNION {{i} \X (0..Len(b.members[i].parts)) : i \in DOMAIN b.members}
NodesOf(b) == 3 + Cardinality(Headers(b))

(***************************************************************************)
(* OpenSSL's template decoder on a SignedData: three elements, two that    *)
(* may be missing, a SET, and no more.  `fits` says whether each of the    *)
(* first three is what the template asks for.                              *)
(***************************************************************************)
At(m, i, tag) == i \in DOMAIN m /\ m[i].tag = tag
CertificatesAt(m) == IF At(m, 4, "[0]") THEN <<m[4]>> ELSE <<>>
CrlsAt(m) == LET i == 4 + Len(CertificatesAt(m)) IN IF At(m, i, "[1]") THEN <<m[i]>> ELSE <<>>
LastAt(m) == 4 + Len(CertificatesAt(m)) + Len(CrlsAt(m))
Shaped(m, fits) == fits /\ At(m, LastAt(m), "SET") /\ Len(m) = LastAt(m)

(* The shallow template of envelope.c leaves every member as ANY.          *)
Certificates_required(m) == Len(m) >= 3 /\ CertificatesAt(m) # <<>>
APRV_SIGNED_DATA_strict(m) == Shaped(m, Certificates_required(m))

APRV_SIGNED_DATA(m) == Shaped(m, Len(m) >= 3)

(* Envelope::members, counted in the shallow decode.                       *)
members(m) ==
    [certificates |-> IF CertificatesAt(m) = <<>> THEN 0 ELSE Len(CertificatesAt(m)[1].parts),
     signer_infos |-> Len(m[LastAt(m)].parts)]

(* CMS_SignedData: OpenSSL's own template, which looks inside.             *)
Fits(m) == /\ At(m, 1, "INTEGER")
           /\ At(m, 2, "SET") /\ \A i \in DOMAIN m[2].parts : m[2].parts[i] = <<"algorithm">>
           /\ At(m, 3, "SEQUENCE")
CertificatesDecode(m) ==
    \A s \in {CertificatesAt(m)[i] : i \in DOMAIN CertificatesAt(m)} :
        \A i \in DOMAIN s.parts : s.parts[i] # <<"bad">>
SignerInfosDecode(parts) == \A i \in DOMAIN parts : parts[i] \notin {<<"algorithm">>, <<"bad">>}
CMS_SignedData(m) == Shaped(m, Fits(m)) /\ CertificatesDecode(m) /\ SignerInfosDecode(m[LastAt(m)].parts)

(* It decodes in order and stops at the first failure: the keys it built.  *)
KeysBuilt(m) ==
    IF ~Fits(m) \/ CertificatesAt(m) = <<>> THEN 0
    ELSE LET parts == CertificatesAt(m)[1].parts
             good(i) == parts[i] = <<"cert">> /\ \A j \in 1..i : parts[j] # <<"bad">>
         IN Cardinality({i \in DOMAIN parts : good(i)})

(* encapsulated_content, as a sequence of at most one, and signer_count,   *)
(* of a decoded structure.                                                 *)
ContentOf(b) == b.members[3].parts
SignerInfos(b) == b.members[LastAt(b.members)].parts
-----------------------------------------------------------------------------
(* Why parse refuses a blob.                                               *)
CmsError == {"Malformed", "Trailing", "TooDeep", "TooManyNodes", "NotSignedData", "TooManySignerInfos",
             "TooManyCertificates", "NoContent", "NoSignerInfo"}

Init ==
    blob \in Blobs /\ stage = "walk" /\ built = 0 /\ keys = 0 /\ full_decodes = 0 /\ accepted = {}

(***************************************************************************)
(* SignedData::parse, step by step.                                        *)
(***************************************************************************)
Walk ==
    /\ stage = "walk"
    /\ stage' = IF blob.deep THEN "TooDeep"
                ELSE IF NodesOf(blob) > MaxNodes THEN "TooManyNodes"
                ELSE IF blob.header = "malformed" THEN "Malformed"
                ELSE IF blob.header = "trailing" THEN "Trailing"
                ELSE "shallow"
    /\ UNCHANGED <<blob, built, keys, full_decodes, accepted>>

(* Envelope::decode: the ContentInfo, its type, the SignedData inside.  It *)
(* allocates at most one value per node, also where it then refuses.       *)
Shallow ==
    /\ stage = "shallow"
    /\ built' = NodesOf(blob)
    /\ stage' = CASE blob.type = "none" -> "Malformed"
                  [] blob.type = "other" -> "NotSignedData"
                  [] OTHER -> IF APRV_SIGNED_DATA(blob.members) THEN "within" ELSE "Malformed"
    /\ UNCHANGED <<blob, keys, full_decodes, accepted>>

within(m) ==
    IF members(m).signer_infos > MaxSignerInfos THEN "TooManySignerInfos"
    ELSE IF members(m).certificates > MaxCertificates THEN "TooManyCertificates" ELSE "full"

Within ==
    /\ stage = "within" /\ stage' = within(blob.members)
    /\ UNCHANGED <<blob, built, keys, full_decodes, accepted>>

(* The count full_decodes_during gives the tests.                          *)
Counted == full_decodes' = full_decodes + 1

(* d2i_CMS_ContentInfo, then the outer shape.                              *)
FullDecode ==
    /\ stage = "full" /\ Counted
    /\ keys' = KeysBuilt(blob.members)
    /\ stage' = IF ~CMS_SignedData(blob.members) THEN "Malformed"
                ELSE IF ContentOf(blob) = <<>> THEN "NoContent"
                ELSE IF SignerInfos(blob) = <<>> THEN "NoSignerInfo"
                ELSE "parsed"
    /\ UNCHANGED <<blob, built, accepted>>
-----------------------------------------------------------------------------
(***************************************************************************)
(* OpenSSL on one SignerInfo.  Its signature covers the signed attributes, *)
(* <<"attributes", contentType, messageDigest>>, or, without any, the      *)
(* content.  It refuses a contentType that is repeated, or missing from a  *)
(* set that is not empty; an empty set has no messageDigest.  A genuine    *)
(* content is a SET too, and reads as attributes with neither.             *)
(***************************************************************************)
digestAlgorithm(si) == si[2]   \* "implemented", "unstarted" (no provider) or "unknown"
signedAttrs(si) == si[3]
signature(si) == si[4]         \* <<key, what it covers>>

EmptySet == <<"attributes", "missing", <<>>>>

(* What a blob is: the description at the top, as an assumption.  No       *)
(* content has the digest that is missing.                                 *)
IsSequence(s) == s \in Seq({s[i] : i \in DOMAIN s})
IsInfo(part) ==
    \/ signedAttrs(part) = <<>>
    \/ \E type \in {"matching", "other", "missing", "repeated"} :
            signedAttrs(part) = <<"attributes", type, signedAttrs(part)[3]>>
IsElement(e) ==
    /\ IsSequence(e.parts)
    /\ e.tag = "SET" =>
        \A i \in DOMAIN e.parts : e.parts[i] \in {<<"algorithm">>, <<"bad">>} \/ IsInfo(e.parts[i])
    /\ e.tag = "SEQUENCE" => \A i \in DOMAIN e.parts : e.parts[i] # <<>>
BlobAssumption ==
    \A b \in Blobs :
        /\ b.header \in {"ok", "malformed", "trailing"} /\ b.deep \in BOOLEAN
        /\ b.type \in {"signedData", "other", "none"}
        /\ IsSequence(b.members) /\ \A i \in DOMAIN b.members : IsElement(b.members[i])

CMS_SignerInfo_verify(si, key) ==
    /\ signature(si) = <<key, signedAttrs(si)>>
    /\ signedAttrs(si)[2] # "repeated"
    /\ signedAttrs(si)[2] = "missing" => signedAttrs(si) = EmptySet

CMS_SignerInfo_verify_content(si, key, content) ==
    IF signedAttrs(si) = <<>> THEN signature(si) = <<key, content>>
    ELSE signedAttrs(si)[3] = content

(* content_type_attribute_matches: the first one, when there is one.       *)
content_type_attribute_matches(si) == signedAttrs(si) # <<>> => signedAttrs(si)[2] # "other"

(* DigestBio::over: none for a digest that resolves but does not start.    *)
DigestBio(si) == digestAlgorithm(si) = "implemented"

(* A slip: the digest of the content alone.                                *)
verify_signer_content(si, key, content) ==
    digestAlgorithm(si) # "unknown" /\ DigestBio(si) /\ CMS_SignerInfo_verify_content(si, key, content)

(* verify_signer: signer_md, the attributes' signature, the content.       *)
verify_signer(si, key, content) ==
    /\ digestAlgorithm(si) # "unknown"
    /\ signedAttrs(si) # <<>> => CMS_SignerInfo_verify(si, key)
    /\ DigestBio(si) /\ CMS_SignerInfo_verify_content(si, key, content)

(* receipt.rs asks for both, of any SignerInfo with any signer.            *)
Verify(i, key) ==
    LET si == SignerInfos(blob)[i]
    IN /\ content_type_attribute_matches(si)
       /\ verify_signer(si, key, ContentOf(blob)[1])
       /\ <<i, key>> \notin accepted
       /\ accepted' = accepted \cup {<<i, key>>}
       /\ UNCHANGED <<blob, stage, built, keys, full_decodes>>

Judge == stage = "parsed" /\ \E i \in DOMAIN SignerInfos(blob), key \in Keys : Verify(i, key)

Next == Walk \/ Shallow \/ Within \/ FullDecode \/ Judge
Spec == Init /\ [][Next]_vars
-----------------------------------------------------------------------------
(***************************************************************************)
(* "Step 2 refuses nothing step 4 would accept": parse accepts exactly     *)
(* the envelopes within the limits that the full decode takes, with        *)
(* content and a SignerInfo, as if the shallow decode were not there.      *)
(* And whatever the order of its elements, no envelope makes the adapter   *)
(* allocate more values than the node budget or build more certificate     *)
(* keys than the bound: the counts of the shallow decode, which looks at   *)
(* no tag of the first three elements, are never short of what the full    *)
(* decode then builds (cms.rs, "keeps the cost of a hostile envelope       *)
(* bounded").  The full decode runs at most once, and only on an envelope  *)
(* within every limit ("An envelope refused at steps 1 to 3 never reaches  *)
(* the full decode").                                                      *)
(***************************************************************************)
LimitsBoundTheCostAndRefuseNoMore ==
    LET m == blob.members
        good == /\ blob.header = "ok" /\ ~blob.deep /\ blob.type = "signedData"
                /\ NodesOf(blob) <= MaxNodes /\ CMS_SignedData(m)
                /\ Len(m[LastAt(m)].parts) \in 1..MaxSignerInfos
                /\ (CertificatesAt(m) # <<>> => Len(CertificatesAt(m)[1].parts) <= MaxCertificates)
                /\ ContentOf(blob) # <<>>
    IN /\ stage \in CmsError \cup {"parsed"} => (stage = "parsed" <=> good)
       /\ built <= MaxNodes
       /\ keys <= MaxCertificates
       /\ \/ full_decodes = 0
          \/ /\ full_decodes = 1 /\ blob.header = "ok" /\ ~blob.deep /\ NodesOf(blob) <= MaxNodes
             /\ members(m).signer_infos <= MaxSignerInfos
             /\ members(m).certificates <= MaxCertificates

(***************************************************************************)
(* A SignerInfo answered for is signed by that key over this content:      *)
(* directly, or through signed attributes whose messageDigest is the       *)
(* content's and whose contentType is the envelope's.  In particular a     *)
(* genuine signature over a payload SET, put beside another content with   *)
(* that SET as its signed attributes, is not one over the other content.   *)
(***************************************************************************)
AnsweredForIsSigned ==
    \A answer \in accepted :
        LET si == SignerInfos(blob)[answer[1]]
            key == answer[2]
            content == ContentOf(blob)[1]
        IN IF signedAttrs(si) = <<>> THEN signature(si) = <<key, content>>
           ELSE signature(si) = <<key, <<"attributes", "matching", content>>>>
=============================================================================
