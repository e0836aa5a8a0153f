----------------------------- MODULE JavaReceipt ------------------------------
(***************************************************************************)
(* The independent Java implementation's reading of a receipt payload      *)
(* (java/ ReceiptDecoder) and both implementations' verifyReceipt answer   *)
(* for it (endpoint.rs receipt_json, EndpointResponse.java), beside the    *)
(* core's decoding of ReceiptPayload.                                      *)
(*                                                                         *)
(* The core takes the attributes one by one; Java first sorts them into    *)
(* the first value of each known type and everything else, and its typed   *)
(* getters then move a value that does not decode back in front of the     *)
(* raw ones.  Both are documented to give the same payload.                *)
(***************************************************************************)
EXTENDS ReceiptPayload

CONSTANT RequestDate    \* the clock's reading at the request

-----------------------------------------------------------------------------
(* ReceiptDecoder *)

(* readAttributes over parseAttributeSet, as a sequence of at most one     *)
(* list: one OCTET STRING around the SET is taken off, an entry that does  *)
(* not read or a type outside 0..MaxI32 refuses the SET.                   *)
parseAttributeSet(v) ==
    LET set == IF v.kind = "octets" THEN v.inner ELSE v
    IN IF set.kind = "set"
          /\ \A i \in DOMAIN set.entries :
               set.entries[i].shape = "attribute" /\ set.entries[i].type \in 0..MaxI32
       THEN <<set.entries>> ELSE <<>>

ValuesOf(entries, t) ==
    LET of == SelectSeq(entries, LAMBDA a : a.type = t) IN [i \in DOMAIN of |-> of[i].value]

TypesOf(entries) == {entries[i].type : i \in DOMAIN entries}

(* Attributes: the first value of each type in known, and every other.     *)
firsts(entries, known) == [t \in TypesOf(entries) \cap known |-> ValuesOf(entries, t)[1]]

Later(entries, known, t) ==
    LET all == ValuesOf(entries, t) IN IF t \in known THEN Tail(all) ELSE all

(* decodeString, decodeInteger and decodeDate: BouncyCastle's reading of   *)
(* one DER value.                                                          *)
decodeString(v) ==
    IF \/ v.kind = "ia5" /\ v.text \notin NotAscii
       \/ v.kind = "utf8" /\ v.text \notin NotUtf8
    THEN <<v.text>> ELSE <<>>

decodeInteger(v) == IF v.kind = "integer" /\ v.n \in (-MaxI64 - 1)..MaxI64 THEN <<v.n>> ELSE <<>>

decodeDate(v) ==
    LET text == decodeString(v)
    IN CASE text = <<"">> -> <<None>>
         [] text # <<>> /\ text[1] \in DOMAIN DateOf -> <<(<<"number", DateOf[text[1]]>>)>>
         [] OTHER -> <<>>

(* The getter of a field: string, integer, flag or date of Attributes, or  *)
(* the octets themselves; <<>> when the value does not decode.             *)
Getter(kind, v) ==
    CASE kind = "bytes" -> <<(<<"bytes", v>>)>>
      [] kind = "date" -> decodeDate(v)
      [] kind = "string" /\ decodeString(v) # <<>> -> <<(<<"string", decodeString(v)[1]>>)>>
      [] kind = "flag" /\ decodeInteger(v) # <<>> -> <<(<<"bool", decodeInteger(v)[1] # 0>>)>>
      [] kind \in {"id", "number"} /\ decodeInteger(v) # <<>> -> <<(<<kind, decodeInteger(v)[1]>>)>>
      [] OTHER -> <<>>

(* A slip: the undecodable first value put behind the later ones.          *)
typed_last(first, later) == Append(later, first)

(* typed: unknown.computeIfAbsent(type, ...).add(0, value).                *)
typed(first, later) == <<first>> \o later

(* One attribute SET with its table of fields.  bundleId is not typed: its *)
(* octets are a field, kept whether or not the string decodes.             *)
Read1(table, entries) ==
    LET known == DOMAIN table
        first == firsts(entries, known)
        got(t) == IF table[t][2] = "bundle" THEN <<(<<"bytes", first[t]>>)>> ELSE Getter(table[t][2], first[t])
        fails(t) == t \in DOMAIN first /\ got(t) = <<>>
        raw(t) == IF fails(t) THEN typed(first[t], Later(entries, known, t)) ELSE Later(entries, known, t)
        field(t) == IF t \in DOMAIN first /\ ~fails(t) THEN got(t)[1] ELSE None
        bundleId == IF 2 \in DOMAIN first /\ decodeString(first[2]) # <<>>
                    THEN <<"string", decodeString(first[2])[1]>> ELSE None
        names == {table[t][1] : t \in known}
    IN [fields |-> (IF 2 \in known THEN "bundle_id" :> bundleId @@ "bundle_id_bytes" :> field(2) ELSE <<>>)
                   @@ [n \in names |-> field(CHOOSE t \in known : table[t][1] = n)],
        unknown |-> [t \in {t \in TypesOf(entries) : raw(t) # <<>>} |-> raw(t)]]

parseInApp(v) ==
    LET set == parseAttributeSet(v) IN IF set = <<>> THEN <<>> ELSE <<Read1(InAppFields, set[1])>>

(* parse: attribute 17 is taken out of the raw ones, each copy a purchase, *)
(* or raw again.                                                           *)
parse(entries) ==
    LET r == Read1(AppFields, entries)
        inApp == IF ATTR_IN_APP \in DOMAIN r.unknown THEN r.unknown[ATTR_IN_APP] ELSE <<>>
        good == SelectSeq(inApp, LAMBDA v : parseInApp(v) # <<>>)
        bad == SelectSeq(inApp, LAMBDA v : parseInApp(v) = <<>>)
        others == [t \in DOMAIN r.unknown \ {ATTR_IN_APP} |-> r.unknown[t]]
    IN [fields |-> r.fields,
        in_app |-> [i \in DOMAIN good |-> parseInApp(good[i])[1]],
        unknown |-> (IF bad = <<>> THEN <<>> ELSE ATTR_IN_APP :> bad) @@ others]

(* readCreationDate: null for anything that does not read.                 *)
readCreationDate(v) ==
    LET set == parseAttributeSet(v)
        first == IF set = <<>> THEN <<>> ELSE firsts(set[1], DOMAIN AppFields)
    IN IF 12 \in DOMAIN first /\ decodeDate(first[12]) # <<>> THEN decodeDate(first[12])[1] ELSE None
-----------------------------------------------------------------------------
(***************************************************************************)
(* The endpoint's JSON: a key and its value.  "dates" stands for the three *)
(* keys of one date (Dates has their text), "digits" for a number written  *)
(* as a string.                                                            *)
(***************************************************************************)
present(key, field, kind) == IF field = None THEN <<>> ELSE key :> <<kind, field[2]>>
number_or_null(key, field) == key :> IF field = None THEN <<"null">> ELSE <<"number", field[2]>>

WebOrder(p) == IF p["web_order_line_item_id"] \in {None, <<"id", 0>>} THEN <<>>
               ELSE present("web_order_line_item_id", p["web_order_line_item_id"], "digits")

purchase_json(p) ==
    present("quantity", p["quantity"], "digits") @@ present("product_id", p["product_id"], "string")
    @@ present("transaction_id", p["transaction_id"], "string")
    @@ present("original_transaction_id", p["original_transaction_id"], "string")
    @@ present("purchase_date", p["purchase_date_ms"], "dates")
    @@ present("original_purchase_date", p["original_purchase_date_ms"], "dates")
    @@ present("expires_date", p["expires_date_ms"], "dates")
    @@ present("cancellation_date", p["cancellation_date_ms"], "dates")
    @@ present("cancellation_reason", p["cancellation_reason"], "digits") @@ WebOrder(p)
    @@ present("is_trial_period", p["is_trial_period"], "string")
    @@ present("is_in_intro_offer_period", p["is_in_intro_offer_period"], "string")

receipt_json(r) ==
    present("receipt_type", r["receipt_type"], "string") @@ present("adam_id", r["app_item_id"], "number")
    @@ present("app_item_id", r["app_item_id"], "number") @@ present("bundle_id", r["bundle_id"], "string")
    @@ present("application_version", r["application_version"], "string")
    @@ number_or_null("download_id", r["download_id"])
    @@ present("version_external_identifier", r["version_external_identifier"], "number")
    @@ present("original_application_version", r["original_application_version"], "string")
    @@ present("receipt_creation_date", r["receipt_creation_date_ms"], "dates")
    @@ "request_date" :> <<"dates", RequestDate>>
    @@ present("original_purchase_date", r["original_purchase_date_ms"], "dates")
    @@ present("preorder_date", r["preorder_date_ms"], "dates")
    @@ present("expiration_date", r["expiration_date_ms"], "dates")

render(s) == <<receipt_json(s.fields), [i \in DOMAIN s.in_app |-> purchase_json(s.in_app[i].fields)]>>
-----------------------------------------------------------------------------
(* EndpointResponse: what each generator call writes for a value.          *)
Write(call, f) ==
    CASE call = "writeObjectField" /\ f = None -> <<"null">>
      [] f = None -> None
      [] call \in {"number", "writeObjectField"} -> <<"number", f[2]>>
      [] call = "numberAsString" -> <<"digits", f[2]>>
      [] call = "numberUnlessZero" -> IF f[2] = 0 THEN None ELSE <<"digits", f[2]>>
      [] call = "appleDates" -> <<"dates", f[2]>>
      [] OTHER -> <<"string", f[2]>>

(* The calls of writeReceipt and writePurchase: key, field, call.          *)
ReceiptCalls ==
    {<<"receipt_type", "receipt_type", "string">>, <<"adam_id", "app_item_id", "number">>,
     <<"app_item_id", "app_item_id", "number">>, <<"bundle_id", "bundle_id", "string">>,
     <<"application_version", "application_version", "string">>,
     <<"download_id", "download_id", "writeObjectField">>,
     <<"version_external_identifier", "version_external_identifier", "number">>,
     <<"original_application_version", "original_application_version", "string">>,
     <<"receipt_creation_date", "receipt_creation_date_ms", "appleDates">>,
     <<"original_purchase_date", "original_purchase_date_ms", "appleDates">>,
     <<"preorder_date", "preorder_date_ms", "appleDates">>,
     <<"expiration_date", "expiration_date_ms", "appleDates">>}

PurchaseCalls ==
    {<<"quantity", "quantity", "numberAsString">>, <<"product_id", "product_id", "string">>,
     <<"transaction_id", "transaction_id", "string">>,
     <<"original_transaction_id", "original_transaction_id", "string">>,
     <<"purchase_date", "purchase_date_ms", "appleDates">>,
     <<"original_purchase_date", "original_purchase_date_ms", "appleDates">>,
     <<"expires_date", "expires_date_ms", "appleDates">>,
     <<"cancellation_date", "cancellation_date_ms", "appleDates">>,
     <<"cancellation_reason", "cancellation_reason", "numberAsString">>,
     <<"web_order_line_item_id", "web_order_line_item_id", "numberUnlessZero">>,
     <<"is_trial_period", "is_trial_period", "string">>,
     <<"is_in_intro_offer_period", "is_in_intro_offer_period", "string">>}

Written(calls, fields) ==
    LET made == {c \in calls : Write(c[3], fields[c[2]]) # None}
        callOf(key) == CHOOSE c \in made : c[1] = key
    IN [key \in {c[1] : c \in made} |-> Write(callOf(key)[3], fields[callOf(key)[2]])]

writePurchase(fields) == Written(PurchaseCalls, fields)
writeReceipt(r) ==
    <<"request_date" :> <<"dates", RequestDate>> @@ Written(ReceiptCalls, r.fields),
      [i \in DOMAIN r.in_app |-> writePurchase(r.in_app[i].fields)]>>
-----------------------------------------------------------------------------
Payload(s) == [fields |-> s.fields, unknown |-> s.unknown]

(***************************************************************************)
(* The two implementations read one payload alike: they refuse the same    *)
(* SETs, judge the chain at the same instant, and fill the same fields and *)
(* raw lists in the same order, in the receipt and in every purchase,      *)
(* although one works attribute by attribute and the other type by type.   *)
(* And the endpoint answers alike from what each of them read: the same    *)
(* keys, left out, null or as the same kind of value, in the receipt and   *)
(* in every purchase.                                                      *)
(***************************************************************************)
JavaReadsTheSame ==
    LET set == parseAttributeSet(content)
        java == parse(set[1])
    IN /\ (set = <<>>) = (parse_attribute_set(content) = <<>>)
       /\ stage \notin {"start", "refused"} => set # <<>> /\ judged = readCreationDate(content)
       /\ stage = "answered" =>
            /\ Payload(receipt) = Payload(java)
            /\ Len(receipt.in_app) = Len(java.in_app)
            /\ \A i \in DOMAIN java.in_app : Payload(receipt.in_app[i]) = java.in_app[i]
            /\ render(receipt) = writeReceipt(java)
=============================================================================
