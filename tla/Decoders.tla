------------------------------ MODULE Decoders ------------------------------
(***************************************************************************)
(* The decoders of the envelope, of a receipt's payload and of the claims  *)
(* of a JWS.  They share no state: each has its own variables here.        *)
(***************************************************************************)
CONSTANTS
    Envelopes, Keys, MaxNodes, MaxSignerInfos, MaxCertificates,      \* SignedData
    MaxI32, MaxI64, NotUtf8, NotAscii, DateOf, PayloadContents,      \* ReceiptPayload
    ClaimPayloads, MIN, MAX                                          \* Claims

VARIABLES
    blob, parsing, built, keys, full_decodes, accepted,              \* SignedData
    content, reading, attributes, judged, receipt, reply, object,    \* ReceiptPayload
    claims, visited, dates, places                                   \* Claims

Envelope == INSTANCE SignedData WITH Blobs <- Envelopes, stage <- parsing
Payload == INSTANCE ReceiptPayload WITH Contents <- PayloadContents, stage <- reading, answer <- reply
Jws == INSTANCE Claims WITH Payloads <- ClaimPayloads, payload <- claims
-----------------------------------------------------------------------------
(* cms.rs parse: the shallow decode refuses nothing the full decode would  *)
(* accept within the limits, and no order of an envelope's elements makes  *)
(* it build more values or certificate keys than the limits allow, or run  *)
(* the full decode on an envelope that is not within them.                 *)
LimitsBoundTheCostAndRefuseNoMore == Envelope!LimitsBoundTheCostAndRefuseNoMore

(* A SignerInfo cms.rs answers for is signed by that key over this         *)
(* content, directly or through attributes that name it.                   *)
AnsweredForIsSigned == Envelope!AnsweredForIsSigned

(* The instant creation_date takes from a payload that is not trusted yet  *)
(* is the creation date the verified payload reports.                      *)
JudgedAtTheReportedDate == Payload!JudgedAtTheReportedDate
=============================================================================
