--------------------------- MODULE ReceiptPayload ---------------------------
(***************************************************************************)
(* A receipt's payload from the signed content to the caller of a wrapper: *)
(* the attribute SET is parsed, its creation date is read before the       *)
(* signer is trusted, the attributes are decoded one by one into fields,   *)
(* the payload is written as JSON (receipt_payload.rs, the wire crate) and *)
(* the Java wrapper reads that JSON into its own objects (Wire.java).      *)
(*                                                                         *)
(* A value is a record of the one ASN.1 value its octets hold: kind        *)
(* "utf8", "ia5", "integer", "set", "octets" or "other", and form "short", *)
(* "long" (a header form 0.7 refused) or "constructed". walks says whether *)
(* the header walk accepts it within its budget, foreign whether a         *)
(* constructed string has a chunk of another type.                         *)
(***************************************************************************)
EXTENDS Integers, Sequences, SequencesExt, TLC

CONSTANTS
    MaxI32,   \* stands for 2^31 - 1
    MaxI64,   \* stands for 2^63 - 1
    NotUtf8,  \* texts that are not valid UTF-8
    NotAscii, \* texts with an octet from 0x80 up
    DateOf,   \* parse_receipt_date: the texts that are dates, and their instants
    Contents  \* the signed contents

PayloadAssumption ==
    /\ MaxI32 \in Nat /\ MaxI64 \in Nat /\ MaxI32 < MaxI64
    /\ \A c \in Contents :
        LET v == IF c.kind = "octets" THEN c.inner ELSE c
        IN v.kind = "set" => v.entries \in Seq({v.entries[i] : i \in DOMAIN v.entries})

VARIABLES
    content,    \* the signed content
    stage,      \* "start", "judging", "decoding", "decoded", "answered", "read" or "refused"
    attributes, \* the parsed attributes still to decode
    judged,     \* the instant the chain is judged at: <<>> is the clock
    receipt,    \* the payload so far
    answer,     \* the answer's JSON
    object      \* what the Java wrapper hands out

vars == <<content, stage, attributes, judged, receipt, answer, object>>
-----------------------------------------------------------------------------
(* The attribute SET: openssl/src/payload.rs *)

(* OpenSSL's reading of one value and nothing after it                     *)
decode_exact(v, item) == v.kind = item

int64(n) == n \in (-MaxI64 - 1)..MaxI64

(* An entry's fields are INTEGER, anything, OCTET STRING, and its type     *)
(* fits in 64 signed bits                                                  *)
attribute(e) == e.shape = "attribute" /\ int64(e.type)

(* A constructed value has only OCTET STRING chunks *)
values_are_octet_strings(entries) == \A i \in DOMAIN entries : ~ entries[i].foreign

attribute_set(v) ==
    /\ v.walks
    /\ decode_exact(v, "set")
    /\ values_are_octet_strings(v.entries)
    /\ \A i \in DOMAIN v.entries : attribute(v.entries[i])

(* Xcode wraps the SET in one more OCTET STRING, which is unwrapped once.  *)
(* The result is a sequence of at most one list of attributes.             *)
receipt_attributes(v) ==
    LET set == IF v.kind = "octets" THEN v.inner ELSE v
        wrap == v.kind = "octets" => v.walks /\ ~ v.foreign
    IN IF wrap /\ attribute_set(set) THEN <<set.entries>> ELSE <<>>

(* A type out of range refuses the whole SET *)
parse_attribute_set(v) ==
    LET read == receipt_attributes(v)
    IN IF read # <<>> /\ \A i \in DOMAIN read[1] : read[1][i].type \in 0..MaxI32
       THEN read ELSE <<>>
-----------------------------------------------------------------------------
(* One value: a sequence of at most one result *)

decode_string(v) ==
    IF /\ v.form = "short"
       /\ \/ v.kind = "utf8" /\ v.text \notin NotUtf8
          \/ v.kind = "ia5" /\ v.text \notin NotAscii
    THEN <<v.text>> ELSE <<>>

(* The header is held to its short forms before OpenSSL reads the value    *)
attribute_integer(v) ==
    IF v.form = "short" /\ decode_exact(v, "integer") /\ int64(v.n) THEN <<v.n>> ELSE <<>>

decode_integer(v) == attribute_integer(v)

None == <<"none">>

(* What a date string means: not set, an instant, or undecodable *)
date(v) ==
    LET text == decode_string(v)
    IN CASE text = <<"">> -> <<None>>
         [] text # <<>> /\ text[1] \in DOMAIN DateOf -> <<(<<"number", DateOf[text[1]]>>)>>
         [] OTHER -> <<>>

(* A slip: the first attribute 12 that is a date *)
creation_date_any(all) ==
    LET dates == SelectSeq(all, LAMBDA a : a.type = 12 /\ date(a.value) \notin {<<>>, <<None>>})
    IN IF dates = <<>> THEN None ELSE date(dates[1].value)[1]

(* The first attribute 12 decides, before the signer is trusted *)
creation_date(all) ==
    LET dates == {i \in DOMAIN all : all[i].type = 12}
        first == CHOOSE i \in dates : \A j \in dates : i <= j
    IN IF dates = {} \/ date(all[first].value) = <<>> THEN None ELSE date(all[first].value)[1]
-----------------------------------------------------------------------------
(* The fields: parse_receipt_payload and parse_in_app *)

AppFields ==
    [t \in {0, 1, 2, 3, 4, 5, 12, 15, 16, 18, 19, 21, 32} |->
        CASE t = 0 -> <<"receipt_type", "string">> [] t = 1 -> <<"app_item_id", "id">>
          [] t = 2 -> <<"bundle_id", "bundle">> [] t = 3 -> <<"application_version", "string">>
          [] t = 4 -> <<"opaque_value", "bytes">> [] t = 5 -> <<"sha1_hash", "bytes">>
          [] t = 12 -> <<"receipt_creation_date_ms", "date">> [] t = 15 -> <<"download_id", "id">>
          [] t = 16 -> <<"version_external_identifier", "id">> [] t = 18 -> <<"original_purchase_date_ms", "date">>
          [] t = 19 -> <<"original_application_version", "string">> [] t = 21 -> <<"expiration_date_ms", "date">>
          [] t = 32 -> <<"preorder_date_ms", "date">>]

InAppFields ==
    [t \in {1701, 1702, 1703, 1704, 1705, 1706, 1708, 1711, 1712, 1713, 1719, 1720} |->
        CASE t = 1701 -> <<"quantity", "number">> [] t = 1702 -> <<"product_id", "string">>
          [] t = 1703 -> <<"transaction_id", "string">> [] t = 1704 -> <<"purchase_date_ms", "date">>
          [] t = 1705 -> <<"original_transaction_id", "string">> [] t = 1706 -> <<"original_purchase_date_ms", "date">>
          [] t = 1708 -> <<"expires_date_ms", "date">> [] t = 1711 -> <<"web_order_line_item_id", "id">>
          [] t = 1712 -> <<"cancellation_date_ms", "date">> [] t = 1713 -> <<"is_trial_period", "flag">>
          [] t = 1719 -> <<"is_in_intro_offer_period", "flag">> [] t = 1720 -> <<"cancellation_reason", "number">>]

ATTR_IN_APP == 17

(* The empty struct: no field set *)
default(names) == [fields |-> [n \in names |-> None], in_app |-> <<>>, unknown |-> <<>>, seen |-> {}]
ReceiptKeys == {AppFields[t][1] : t \in DOMAIN AppFields} \cup {"bundle_id_bytes"}
PurchaseKeys == {InAppFields[t][1] : t \in DOMAIN InAppFields}

Undecodable == [ok |-> FALSE, put |-> <<>>]
Field(name, value) == [ok |-> TRUE, put |-> [n \in {name} |-> value]]
Decoded(name, kind, result) == IF result = <<>> THEN Undecodable ELSE Field(name, <<kind, result[1]>>)

(* The match arm of one known type *)
decoded(field, v) ==
    LET name == field[1]
        text == decode_string(v)
    IN CASE field[2] = "string" -> Decoded(name, "string", text)
         [] field[2] \in {"id", "number"} -> Decoded(name, field[2], decode_integer(v))
         [] field[2] = "flag" /\ decode_integer(v) # <<>> -> Field(name, <<"bool", decode_integer(v)[1] # 0>>)
         [] field[2] = "bytes" -> Field(name, <<"bytes", v>>)
         [] field[2] = "bundle" ->
                [ok |-> TRUE, put |-> [bundle_id_bytes |-> <<"bytes", v>>,
                                       bundle_id |-> IF text = <<>> THEN None ELSE <<"string", text[1]>>]]
         [] field[2] = "date" /\ date(v) # <<>> -> Field(name, date(v)[1])
         [] OTHER -> Undecodable

(* A slip: the entry replaced *)
keep_raw_last(unknown, a) == a.type :> <<a.value>> @@ unknown

keep_raw(unknown, a) ==
    a.type :> Append(IF a.type \in DOMAIN unknown THEN unknown[a.type] ELSE <<>>, a.value) @@ unknown

(* One turn of the loop over an attribute SET *)
Filled(table, s, a) ==
    LET d == IF a.type \in DOMAIN table THEN decoded(table[a.type], a.value) ELSE Undecodable
        s1 == [s EXCEPT !.seen = @ \cup {a.type}]
    IN IF a.type \in s.seen \/ ~ d.ok
       THEN [s1 EXCEPT !.unknown = keep_raw(@, a)]
       ELSE [s1 EXCEPT !.fields = [n \in DOMAIN s.fields |-> IF n \in DOMAIN d.put THEN d.put[n] ELSE s.fields[n]]]

(* Anything that stops the SET from parsing makes the attribute raw *)
parse_in_app(v) ==
    LET read == parse_attribute_set(v)
    IN IF read = <<>> THEN <<>>
       ELSE <<FoldLeft(LAMBDA s, a : Filled(InAppFields, s, a), default(PurchaseKeys), read[1])>>

(* Attribute 17 repeats by design *)
TakeInApp(s, a) ==
    LET purchase == parse_in_app(a.value)
    IN IF purchase = <<>> THEN [s EXCEPT !.unknown = keep_raw(@, a)]
       ELSE [s EXCEPT !.in_app = Append(@, purchase[1])]
-----------------------------------------------------------------------------
(* The answer as JSON. "decimal" and "base64" are JSON strings that hold   *)
(* the digits of a number and the base64 of bytes.                         *)

from_receipt_type(field) ==
    CASE field \in {<<"string", "Production">>, <<"string", "ProductionVPP">>} -> <<"string", "Production">>
      [] field \in {<<"string", "ProductionSandbox">>, <<"string", "ProductionVPPSandbox">>} -> <<"string", "Sandbox">>
      [] OTHER -> None

value_json(f) ==
    CASE f[1] = "none" -> <<"null">>
      [] f[1] = "id" -> <<"decimal", f[2]>>
      [] f[1] = "bytes" -> <<"base64", f[2]>>
      [] OTHER -> f

(* The keys of unknown_attributes are the types, ascending *)
attributes_json(unknown) == [t \in DOMAIN unknown |-> [i \in DOMAIN unknown[t] |-> <<"base64", unknown[t][i]>>]]

object_json(s) ==
    [fields |-> [n \in DOMAIN s.fields |-> value_json(s.fields[n])], unknown |-> attributes_json(s.unknown)]

to_json(s) == object_json(s) @@ [in_app |-> [i \in DOMAIN s.in_app |-> object_json(s.in_app[i])]]

verify_receipt_result(s) ==
    [payload |-> to_json(s), environment |-> value_json(from_receipt_type(s.fields["receipt_type"]))]
-----------------------------------------------------------------------------
(* The Java wrapper: Wire.java. A value is malformed unless it has the     *)
(* shape its key asks for.                                                 *)

Malformed == <<"malformed">>
IdKeys == {"app_item_id", "download_id", "version_external_identifier", "web_order_line_item_id"}
BytesKeys == {"bundle_id_bytes", "opaque_value", "sha1_hash"}
BoolKeys == {"is_trial_period", "is_in_intro_offer_period"}
NumberKeys == {"receipt_creation_date_ms", "original_purchase_date_ms", "preorder_date_ms", "expiration_date_ms",
               "quantity", "purchase_date_ms", "expires_date_ms", "cancellation_date_ms", "cancellation_reason"}

KeyKind(key) ==
    CASE key \in IdKeys -> "decimal" [] key \in BytesKeys -> "base64" [] key \in BoolKeys -> "bool"
      [] key \in NumberKeys -> "number" [] OTHER -> "string"

(* string, id, number, bool and bytes *)
JavaValue(key, j) ==
    CASE j[1] = "null" -> None
      [] j[1] # KeyKind(key) -> Malformed
      [] j[1] \in {"decimal", "number"} /\ j[2] \notin (-MaxI64 - 1)..MaxI64 -> Malformed
      [] j[1] = "decimal" -> <<"id", j[2]>>
      [] j[1] = "base64" -> <<"bytes", j[2]>>
      [] OTHER -> j

(* Integer.parseInt of each key of unknown_attributes *)
AttributesRead(unknown) == \A t \in DOMAIN unknown : t \in (-MaxI32 - 1)..MaxI32

(* keys, purchase and the fields of receipt: one object *)
ObjectRead(j, keys) ==
    /\ DOMAIN j.fields = keys
    /\ \A n \in keys : JavaValue(n, j.fields[n]) # Malformed
    /\ AttributesRead(j.unknown)

JavaObject(j) ==
    [fields |-> [n \in DOMAIN j.fields |-> JavaValue(n, j.fields[n])],
     unknown |-> [t \in DOMAIN j.unknown |-> [i \in DOMAIN j.unknown[t] |-> j.unknown[t][i][2]]]]

(* receiptAnswer: the payload, or a GuestFailure *)
receiptAnswer(a) ==
    IF /\ ObjectRead(a.payload, ReceiptKeys)
       /\ \A i \in DOMAIN a.payload.in_app : ObjectRead(a.payload.in_app[i], PurchaseKeys)
       /\ a.environment \in {<<"null">>, <<"string", "Production">>, <<"string", "Sandbox">>}
    THEN <<JavaObject(a.payload), [i \in DOMAIN a.payload.in_app |-> JavaObject(a.payload.in_app[i])], a.environment>>
    ELSE Malformed
-----------------------------------------------------------------------------
Init ==
    /\ content \in Contents
    /\ stage = "start"
    /\ attributes = <<>>
    /\ judged = None
    /\ receipt = default(ReceiptKeys)
    /\ answer = <<>>
    /\ object = <<>>

(* parse_payload_attributes, then creation_date *)
Parse ==
    /\ stage = "start"
    /\ LET read == parse_attribute_set(content)
       IN IF read = <<>>
          THEN stage' = "refused" /\ UNCHANGED <<attributes, judged>>
          ELSE /\ stage' = "judging"
               /\ attributes' = read[1]
               /\ judged' = creation_date(read[1])
    /\ UNCHANGED <<content, receipt, answer, object>>

(* The chain and the signature: ReceiptVerify *)
Trusted == stage = "judging" /\ stage' = "decoding" /\ UNCHANGED <<content, attributes, judged, receipt, answer, object>>
Refuse == stage = "judging" /\ stage' = "refused" /\ UNCHANGED <<content, attributes, judged, receipt, answer, object>>

Take ==
    /\ stage = "decoding"
    /\ attributes # <<>>
    /\ LET a == Head(attributes)
       IN receipt' = IF a.type = ATTR_IN_APP THEN TakeInApp(receipt, a) ELSE Filled(AppFields, receipt, a)
    /\ attributes' = Tail(attributes)
    /\ UNCHANGED <<content, stage, judged, answer, object>>

Answer ==
    /\ stage = "decoding"
    /\ attributes = <<>>
    /\ stage' = "answered"
    /\ answer' = verify_receipt_result(receipt)
    /\ UNCHANGED <<content, attributes, judged, receipt, object>>

Read ==
    /\ stage = "answered"
    /\ stage' = "read"
    /\ object' = receiptAnswer(answer)
    /\ UNCHANGED <<content, attributes, judged, receipt, answer>>

Next == Parse \/ Trusted \/ Refuse \/ Take \/ Answer \/ Read
Spec == Init /\ [][Next]_vars
-----------------------------------------------------------------------------
OfType(all, t) == LET of == SelectSeq(all, LAMBDA a : a.type = t) IN [i \in DOMAIN of |-> of[i].value]
RawOf(s, t) == IF t \in DOMAIN s.unknown THEN s.unknown[t] ELSE <<>>
EmptyString(v) == v.form = "short" /\ v.kind \in {"utf8", "ia5"} /\ v.text = ""

(* The values of one type are all raw, or the first is in its field        *)
KeptOf(table, s, all, t) ==
    LET name == table[t][1]
        placed == \/ t \in DOMAIN table /\ s.fields[name] # None
                  \/ t \in DOMAIN table /\ table[t][2] = "bundle"
                  \/ t \in DOMAIN table /\ table[t][2] = "date" /\ EmptyString(all[1])
    IN RawOf(s, t) = IF placed THEN Tail(all) ELSE all

(* parse_receipt_payload and parse_in_app lose no attribute and invent     *)
(* none: of each type either every value is raw in receipt order, or the   *)
(* first one is in its field (an unset date in none) and the rest are raw; *)
(* every copy of attribute 17 is a purchase or raw, and each purchase      *)
(* keeps its own attributes the same way.  And the wrapper reads the       *)
(* module's JSON back into the same values: Wire.java refuses no answer    *)
(* that ReceiptPayload::to_json writes, and no value changes on the way.   *)
EveryAttributeKept ==
    /\ stage \in {"answered", "read"} =>
        LET entries == parse_attribute_set(content)[1]
            types == {entries[i].type : i \in DOMAIN entries}
            inApp == OfType(entries, ATTR_IN_APP)
            isPurchase(v) == parse_attribute_set(v) # <<>>
            purchases == SelectSeq(inApp, isPurchase)
        IN /\ DOMAIN receipt.unknown \subseteq types
           /\ \A t \in types \ {ATTR_IN_APP} : KeptOf(AppFields, receipt, OfType(entries, t), t)
           /\ RawOf(receipt, ATTR_IN_APP) = SelectSeq(inApp, LAMBDA v : ~ isPurchase(v))
           /\ Len(receipt.in_app) = Len(purchases)
           /\ \A i \in DOMAIN purchases :
                LET inner == parse_attribute_set(purchases[i])[1]
                IN \A t \in {inner[j].type : j \in DOMAIN inner} :
                       KeptOf(InAppFields, receipt.in_app[i], OfType(inner, t), t)
    /\ stage = "read" =>
        LET plain(s) == [fields |-> s.fields, unknown |-> s.unknown]
        IN object = <<plain(receipt), [i \in DOMAIN receipt.in_app |-> plain(receipt.in_app[i])],
                      value_json(from_receipt_type(receipt.fields["receipt_type"]))>>

(* The instant the chain is judged at, read before the signer is trusted,  *)
(* is the creation date the verified payload reports: creation_date and    *)
(* parse_receipt_payload pick the same attribute and read it alike.        *)
JudgedAtTheReportedDate ==
    stage \in {"answered", "read"} => receipt.fields["receipt_creation_date_ms"] = judged

=============================================================================
