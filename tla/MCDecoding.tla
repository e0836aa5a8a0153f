----------------------------- MODULE MCDecoding -----------------------------
(***************************************************************************)
(* The decoders, which call nothing of one another's state: a behaviour    *)
(* runs one of them, `decoder`, over one of its inputs, and the variables  *)
(* of the others stand still.                                              *)
(***************************************************************************)
EXTENDS Dates, Decoders, SequencesExt, FiniteSetsExt, TLC
CONSTANTS
    MaxLen, StringNest, MaxEntries, MaxMembers,    \* the inputs below
    HELPER_DEPTH, W, MaxLength, RequestDate

VARIABLES
    decoder,
    input, mode, at, stack, nodes_left, reach, result,                 \* HeaderWalk
    symbols,                                                           \* Base64
    document, whole, position, open, wanted, lastName, from, members   \* JsonText

-----------------------------------------------------------------------------
(* Every sequence of at most MaxLen octets over nine of them; and values  *)
(* framed in values, each frame with the length its content has, in short  *)
(* and in long form, with leading zeros or without, and with a wrong one.  *)
(* They are walked the way a payload is (short headers, checked), the way  *)
(* an envelope is (any header, checked) and the way the helpers walk.      *)

Octets == {0, 1, 4, 31, 33, 36, 48, 128, 129}
Identifiers == {<<4>>, <<48>>, <<36>>, <<160>>, <<31, 4>>, <<63, 129, 4>>}
Zeros(n) == [i \in 1..n |-> 0]
Long(k, n) == <<128 + k>> \o Zeros(k - 1) \o <<n>>
LengthsAround(n) ==
    {<<n>>, <<n + 1>>, <<128>>, <<130, 1, n>>} \cup {<<n - 1>> : m \in {n} \ {0}} \cup {Long(k, n) : k \in {1, 4, 5}}
Framed(contents) == UNION {{i \o l \o c : i \in Identifiers, l \in LengthsAround(Len(c))} : c \in contents}
Scraps == {<<>>, <<0>>, <<0, 0>>, <<4, 0>>, <<4, 0, 0, 0>>, <<1, 1, 0>>, <<1, 0>>, <<48, 0>>, <<4, 129, 0>>}
Nested == LET once == Scraps \cup Framed(Scraps) IN once \cup Framed(once)
HeaderInputs == UNION {[1..n -> Octets] : n \in 0..MaxLen} \cup Nested
HeaderModes == {[short |-> TRUE, check |-> TRUE, depth |-> 2, nodes |-> 3],
            [short |-> FALSE, check |-> TRUE, depth |-> 3, nodes |-> 4],
            [short |-> FALSE, check |-> FALSE, depth |-> 1, nodes |-> 2]}
-----------------------------------------------------------------------------
(* The trees that octets encode, found by where they can be cut into an    *)
(* identifier, a length and a content. high: some header is one the short  *)
(* form refuses. sound: OpenSSL takes every value the check is given. eoc: *)
(* an end of contents stands as a value in a definite one. bare: a long    *)
(* length is the last thing, which is read only when something follows.    *)
IsIdentifier(s) ==
    IF s[1] % 32 # 31 THEN Len(s) = 1
    ELSE Len(s) > 1 /\ Last(s) < 128 /\ \A i \in 2..(Len(s) - 1) : s[i] >= 128
TagNumber(s) == IF Len(s) = 1 THEN s[1] % 32 ELSE FoldLeft(LAMBDA n, o : 128 * n + (o % 128), 0, Tail(s))
IsConstructed(s) == (s[1] \div 32) % 2 = 1
Says(l, n) ==
    \/ l = <<n>> /\ n < 128
    \/ Len(l) > 1 /\ l[1] = 127 + Len(l) /\ Last(l) = n /\ \A i \in 2..(Len(l) - 1) : l[i] = 0

Cuts(s) ==
    UNION {{[id |-> SubSeq(s, 1, i), l |-> SubSeq(s, i + 1, j), content |-> SubSeq(s, j + 1, Len(s))] :
              j \in {j \in (i + 1)..Len(s) :
                       \/ Says(SubSeq(s, i + 1, j), Len(s) - j)
                       \/ j = i + 1 /\ s[j] = 128 /\ IsConstructed(s) /\ IsSuffix(<<0, 0>>, SubSeq(s, j + 1, Len(s)))}} :
           i \in {i \in 1..Len(s) : IsIdentifier(SubSeq(s, 1, i))}}

Parent(c, kids) ==
    LET all(P(_)) == \A i \in DOMAIN kids : P(kids[i])
        depth == IF IsConstructed(c.id) THEN Max({0} \cup {kids[i].depth : i \in DOMAIN kids}) + 1 ELSE 0
        tag == TagNumber(c.id)
        universal == c.id[1] < 64
    IN [bytes |-> c.id \o c.l \o c.content, kids |-> [i \in DOMAIN kids |-> kids[i].bytes],
        nodes |-> FoldLeft(LAMBDA n, k : n + k.nodes, 1, kids), depth |-> depth,
        high |-> Len(c.id) > 1 \/ Len(c.l) > 5 \/ ~ all(LAMBDA k : ~ k.high),
        bare |-> Len(c.l) > 1 /\ c.content = <<>>,
        eoc |-> (c.l # <<128>> /\ \E i \in DOMAIN kids : kids[i].bytes = <<0, 0>>) \/ ~ all(LAMBDA k : ~ k.eoc),
        octets |-> universal /\ tag = 4 /\ all(LAMBDA k : k.octets),
        sound |-> CASE ~ universal -> all(LAMBDA k : k.sound)
                    [] universal /\ tag = 16 -> depth > 0 /\ all(LAMBDA k : k.sound)
                    [] universal /\ tag = 1 -> depth = 0 /\ Len(c.content) = 1
                    [] OTHER -> depth <= StringNest]

RECURSIVE TreesOf(_), ForestsOf(_)
TreesOf(s) ==
    UNION {CASE ~ IsConstructed(c.id) -> {Parent(c, <<>>)}
             [] IsConstructed(c.id) /\ c.l # <<128>> ->
                  {Parent(c, f) : f \in {f \in ForestsOf(c.content) : f = <<>> \/ ~ Last(f).bare}}
             [] OTHER ->
                  {Parent(c, f) : f \in {f \in ForestsOf(SubSeq(c.content, 1, Len(c.content) - 2)) :
                                           \A i \in DOMAIN f : f[i].bytes # <<0, 0>>}} : c \in Cuts(s)}
ForestsOf(s) ==
    IF s = <<>> THEN {<<>>}
    ELSE UNION {{<<t>> \o f : t \in TreesOf(SubSeq(s, 1, k)), f \in ForestsOf(SubSeq(s, k + 1, Len(s)))} : k \in 2..Len(s)}

Allowed(t, m) ==
    /\ ~ t.bare /\ t.nodes <= m.nodes /\ t.depth <= m.depth
    /\ m.short => ~ t.high
    /\ m.check => t.sound /\ ~ t.eoc
Encoded == UNION {TreesOf(s) : s \in HeaderInputs}
(* What a mode accepts, and what the helpers then have to find in it *)
Accepted ==
    [m \in HeaderModes |-> {<<t.bytes, IF t.depth > 0 THEN <<t.kids>> ELSE <<>>, t.octets>> : t \in {t \in Encoded : Allowed(t, m)}}]
AcceptedBytes == [m \in HeaderModes |-> {a[1] : a \in Accepted[m]}]
-----------------------------------------------------------------------------
(* Envelopes around the right one: each member in its variants, one member *)
(* left out, two swapped, or one too many.                                 *)

E(tag, parts) == [tag |-> tag, parts |-> parts]
Content == <<"attributes", "missing", <<"payload">>>>
Else == <<"else">>
NoDigest == <<>>
Cert == <<"cert">>
OtherCert == <<"other">>
Bad == <<"bad">>
Crl == <<"crl">>
Algorithm == <<"algorithm">>
Copies(x, n) == [i \in 1..n |-> x]

Info(digest, attrs, key, covered) ==
    <<"info", digest, attrs, <<key, covered>>>>
Attributes(type, md) == <<"attributes", type, md>>
AllAttributes ==
    {<<>>, Content} \cup {Attributes(t, d) : t \in {"matching", "other", "missing", "repeated"},
                                    d \in {Content, Else, NoDigest}}
Infos ==
    {Info(d, a, k, c) : d \in {"implemented", "unknown", "unstarted"}, a \in AllAttributes,
                        k \in Keys, c \in AllAttributes \cup {Content, Else}}
PlainInfo == Info("implemented", <<>>, CHOOSE k \in Keys : TRUE, Content)

CertificateSets ==
    {<<>>} \cup {<<E("[0]", p)>> : p \in {<<>>, <<Cert>>, <<Cert, OtherCert>>, Copies(Cert, 2),
                                         Copies(Cert, 3), <<Cert, Bad>>, <<Bad, Cert>>}}
CrlSets == {<<>>, <<E("[1]", <<Crl>>)>>, <<E("[1]", Copies(Crl, 12))>>}
InfoSets == {E("SET", p) : p \in {<<>>, <<PlainInfo>>, Copies(PlainInfo, 2), Copies(PlainInfo, 3), <<Bad>>}}
Members ==
    {<<E("INTEGER", <<>>), E("SET", <<Algorithm>>), E("SEQUENCE", c)>> \o certs \o crls \o <<infos>> :
        c \in {<<>>, <<Content>>}, certs \in CertificateSets, crls \in CrlSets, infos \in InfoSets}
Without(m) == {RemoveAt(m, i) : i \in DOMAIN m}
Swapped(m) == {[m EXCEPT ![i] = m[i + 1], ![i + 1] = m[i]] : i \in 1..(Len(m) - 1)}
Longer(m) == {Append(m, E("[0]", <<Cert>>)), InsertAt(m, 4, E("[0]", Copies(Cert, 3)))}

Signed(m) == [header |-> "ok", deep |-> FALSE, type |-> "signedData", members |-> m]
Right == <<E("INTEGER", <<>>), E("SET", <<Algorithm>>), E("SEQUENCE", <<Content>>), E("SET", <<PlainInfo>>)>>
McEnvelopes ==
    {Signed(x) : x \in UNION {{m} \cup Without(m) \cup Swapped(m) \cup Longer(m) : m \in Members}}
    \cup {Signed([Right EXCEPT ![3] = E("SEQUENCE", <<c>>), ![4] = E("SET", <<i>>)]) :
            i \in Infos, c \in {Content, Else}}
    \cup {[header |-> h, deep |-> d, type |-> t, members |-> Right] :
            h \in {"ok", "malformed", "trailing"}, d \in BOOLEAN, t \in {"signedData", "other", "none"}}
-----------------------------------------------------------------------------
(* Contents of up to MaxEntries attributes. Numbers are scaled: the        *)
(* largest i32 is 3000, the largest i64 is 9000.                           *)

McNotUtf8 == {"\\xff"}
McNotAscii == {"\\xff", "e-acute"}
McDateOf == "2024-01-01" :> 1704 @@ "2025-01-01" :> 1735

Str(kind, form, s) == [kind |-> kind, form |-> form, text |-> s, walks |-> TRUE, foreign |-> FALSE]
Num(n) == [kind |-> "integer", form |-> "short", n |-> n, walks |-> TRUE, foreign |-> FALSE]
Entry(t, v) == [type |-> t, shape |-> "attribute", foreign |-> FALSE, value |-> v]
Set(walks, entries) == [kind |-> "set", form |-> "short", walks |-> walks, foreign |-> FALSE, entries |-> entries]
Wrap(v, foreign) == [kind |-> "octets", form |-> "short", walks |-> TRUE, foreign |-> foreign, inner |-> v]

InApp == 17
Ia5(s) == Str("ia5", "short", s)
Utf8(s) == Str("utf8", "short", s)
DateValues == {Ia5(""), Ia5("2024-01-01"), Utf8("2025-01-01"), Ia5("soon"), Num(7), Str("ia5", "long", "2024-01-01")}
Purchases ==
    {Set(TRUE, <<>>), Set(FALSE, <<>>), Num(1), Wrap(Set(TRUE, <<Entry(1713, Num(0))>>), FALSE),
     Set(TRUE, <<Entry(1701, Num(1)), Entry(1701, Num(2)), Entry(99, Num(1))>>),
     Set(TRUE, <<Entry(1711, Num(9001)), Entry(1704, Ia5("")), Entry(1704, Ia5("2024-01-01")), Entry(1713, Num(5))>>),
     Set(TRUE, <<Entry(3001, Num(1))>>), Set(TRUE, <<[Entry(1701, Num(1)) EXCEPT !.shape = "other"]>>)}
Entries ==
    {Entry(12, v) : v \in DateValues}
    \cup {Entry(InApp, v) : v \in Purchases}
    \cup {Entry(0, Utf8("Production")), Entry(0, Utf8("ProductionSandbox")), Entry(2, Utf8("\\xff")),
          Entry(2, Ia5("e-acute")), Entry(4, Num(1)), Entry(15, Num(-9001)), Entry(15, Num(-9002)),
          Entry(9, Num(1)), Entry(9, Num(2)), Entry(3001, Num(1)), Entry(9001, Num(1)), Entry(-1, Num(1)),
          [Entry(9, Num(3)) EXCEPT !.foreign = TRUE]}

EntryLists == UNION {[1..n -> Entries] : n \in 0..MaxEntries}
McPayloadContents ==
    {Set(TRUE, l) : l \in EntryLists} \cup {Set(FALSE, <<>>), Num(1)}
    \cup {Wrap(Set(TRUE, <<Entry(12, v)>>), f) : v \in DateValues, f \in BOOLEAN}
    \cup {Wrap(Wrap(Set(TRUE, <<>>), FALSE), FALSE)}
-----------------------------------------------------------------------------
(* The contents whose values are DER within the walk's *)
(* budget: where the two parsers' own limits and BER leniency differ is    *)
(* recorded in the repository and outside this comparison.                 *)
PlainValue(v) == v.walks /\ ~v.foreign /\ v.form = "short"
PlainEntry(e) ==
    /\ ~e.foreign /\ PlainValue(e.value)
    /\ e.value.kind = "set" => \A i \in DOMAIN e.value.entries : PlainValue(e.value.entries[i].value)
WebOrders == {Entry(InApp, Set(TRUE, <<Entry(1711, Num(n)), Entry(1713, Num(1)), Entry(1702, Utf8("p"))>>)) :
                n \in {0, 5}}
PlainEntries == {e \in Entries : PlainEntry(e)} \cup WebOrders
                \cup {Entry(15, Num(0)), Entry(0, Num(1)), [Entry(9, Num(4)) EXCEPT !.shape = "other"]}

JavaContents ==
    {Set(TRUE, l) : l \in UNION {[1..n -> PlainEntries] : n \in 0..MaxEntries}}
    \cup {Num(1), Wrap(Wrap(Set(TRUE, <<>>), FALSE), FALSE)}
    \cup {Wrap(Set(TRUE, <<e>>), FALSE) : e \in PlainEntries}
-----------------------------------------------------------------------------
(* JWS payloads of at most MaxMembers members: dates at both ends of an    *)
(* i64, each name perhaps repeated, containers that hold an environment,   *)
(* hold none, are no object or have a name that does not decode.           *)
Double(halves) == [is |-> "double", halves |-> halves]
Whole(n) == [is |-> "integer", n |-> n]
Named(name) == [is |-> "string", of |-> name]
NoClaim == [is |-> "other"]
Member(name, value) == [name |-> name, value |-> value, lone |-> FALSE]
LoneName == [name |-> "x", value |-> NoClaim, lone |-> TRUE]
In(names) == [is |-> "object", members |-> names]
Containers ==
    {NoClaim, In(<<>>), In(<<Member("environment", Named("Production"))>>),
     In(<<Member("environment", Named("Production")), Member("environment", NoClaim)>>),
     In(<<LoneName, Member("environment", Named("Sandbox"))>>)}
ClaimMembers ==
    {Member("signedDate", v) : v \in {Whole(5), Whole(MaxI64), Whole(MaxI64 + 1), Double(-3), Double(2 * MaxI64 + 2),
                                      Double(2 * MaxI64 + 4), Double(-2 * MaxI64 - 2), NoClaim}}
    \cup {Member("receiptCreationDate", v) : v \in {Whole(7), Whole(-MaxI64 - 2), NoClaim}}
    \cup {Member("environment", v) : v \in {Named("Sandbox"), Named("Xcode"), NoClaim}}
    \cup {Member(c, v) : c \in {"data", "summary"}, v \in Containers}
    \cup {LoneName}
McMin == -MaxI64 - 1
McClaimPayloads == UNION {[1..n -> ClaimMembers] : n \in 0..MaxMembers}
-----------------------------------------------------------------------------
\* Texts at the edges of every field, and instants around the end of local
\* mean time in 1883, around 1970, around a change to daylight-saving time
\* and in the last two days of 9999.
MCDateFields ==
    {<<0, 1, 1>>, <<0, 2, 29>>, <<1883, 11, 18>>, <<1883, 11, 31>>, <<1900, 2, 29>>,
     <<1969, 12, 31>>, <<1970, 1, 1>>, <<2000, 2, 29>>, <<2023, 2, 29>>, <<2024, 3, 10>>,
     <<2024, 0, 1>>, <<2024, 13, 1>>, <<2024, 4, 0>>, <<9999, 12, 30>>, <<9999, 12, 31>>}
MCTimeFields ==
    {<<0, 0, 0>>, <<9, 59, 59>>, <<10, 0, 0>>, <<19, 59, 59>>, <<20, 0, 0>>, <<22, 0, 0>>, <<22, 0, 1>>,
     <<23, 59, 59>>, <<23, 59, 60>>, <<23, 59, 61>>, <<24, 0, 0>>, <<12, 60, 0>>}
MCZones == {<<0, 0, 0>>, <<1, 0, 1>>, <<-1, 0, 1>>, <<1, 23, 59>>, <<-1, 23, 59>>, <<1, 24, 0>>, <<1, 0, 60>>}
Text(d, t, f, z) == [shape |-> "date-time", date |-> d, time |-> t, fraction |-> f, zone |-> z]

\* The changes of seventeen years, one of each rule, as in
\* rust/tests/data/pacific-transitions.txt.
Change(d, h, m, offset) == <<At(d, <<h, m, 0>>, 0), offset>>
MCTransitions ==
    << <<TimestampMIN, -28378>>,
       Change(<<1883, 11, 18>>, 20, 0, -28800),
       Change(<<1918, 3, 31>>, 10, 0, -25200), Change(<<1918, 10, 27>>, 9, 0, -28800),
       Change(<<1948, 3, 14>>, 10, 1, -25200), Change(<<1949, 1, 1>>, 9, 0, -28800),
       Change(<<1961, 4, 30>>, 9, 0, -25200), Change(<<1961, 9, 24>>, 9, 0, -28800),
       Change(<<1962, 4, 29>>, 9, 0, -25200), Change(<<1962, 10, 28>>, 9, 0, -28800),
       Change(<<1966, 4, 24>>, 9, 0, -25200), Change(<<1966, 10, 30>>, 9, 0, -28800),
       Change(<<1967, 4, 30>>, 10, 0, -25200), Change(<<1967, 10, 29>>, 9, 0, -28800),
       Change(<<1973, 4, 29>>, 10, 0, -25200), Change(<<1973, 10, 28>>, 9, 0, -28800),
       Change(<<1974, 1, 6>>, 10, 0, -25200), Change(<<1974, 10, 27>>, 9, 0, -28800),
       Change(<<1975, 2, 23>>, 10, 0, -25200), Change(<<1975, 10, 26>>, 9, 0, -28800),
       Change(<<1976, 4, 25>>, 10, 0, -25200), Change(<<1976, 10, 31>>, 9, 0, -28800),
       Change(<<1986, 4, 27>>, 10, 0, -25200), Change(<<1986, 10, 26>>, 9, 0, -28800),
       Change(<<1987, 4, 5>>, 10, 0, -25200), Change(<<1987, 10, 25>>, 9, 0, -28800),
       Change(<<2006, 4, 2>>, 10, 0, -25200), Change(<<2006, 10, 29>>, 9, 0, -28800),
       Change(<<2007, 3, 11>>, 10, 0, -25200), Change(<<2007, 11, 4>>, 9, 0, -28800),
       Change(<<2024, 3, 10>>, 10, 0, -25200), Change(<<2024, 11, 3>>, 9, 0, -28800),
       Change(<<2026, 3, 8>>, 10, 0, -25200), Change(<<2026, 11, 1>>, 9, 0, -28800) >>

\* The second of each change and the second before it.
MCChangeTexts ==
    UNION {{Text(CivilFromDays(i[1]), TimeOf(i[2]), f, <<0, 0, 0>>) :
              i \in {MCTransitions[k][1], Plus(MCTransitions[k][1], -1)}, f \in {NoFraction, <<9, 9, 9>>}} :
           k \in 2..Len(MCTransitions)}
MCTexts ==
    MCChangeTexts \cup
    {Text(d, t, f, z) : d \in MCDateFields, t \in MCTimeFields, f \in {NoFraction, <<9, 9, 9, 9>>}, z \in MCZones}
    \cup {Text(<<2024, 3, 10>>, t, f, <<0, 0, 0>>) : t \in MCTimeFields, f \in {<<>>, <<5>>}}
    \cup {[Text(<<2024, 3, 10>>, <<0, 0, 0>>, NoFraction, <<0, 0, 0>>) EXCEPT !.shape = "other"]}
MCClocks == {At(<<2024, 8, 6>>, <<12, 0, 0>>, 0), At(<<10000, 1, 1>>, <<0, 0, 0>>, 0),
             At(<<1883, 11, 18>>, <<19, 59, 59>>, 999), LAST_MILLIS}

\* Objects of up to two members, the second name perhaps the first one
\* spelled otherwise, with values nested up to four deep; each also with one
\* lexeme left out, put in or exchanged, so that one thing is wrong, or what
\* follows is not the object's.  And every short string and number, as a
\* value, as an element, and as a name of the object and of one inside it.
Mark(m) == <<[is |-> m]>>
Quoted(units) == <<[is |-> "string", units |-> units]>>
Digits(d, z, f, e) == <<[is |-> "number", digits |-> d, zero |-> z, fraction |-> f, exponent |-> e]>>
Literal(w) == <<[is |-> "literal", word |-> w]>>
Pair(n, value) == n \o Mark(":") \o value
Braced(inside) == Mark("{") \o inside \o Mark("}")
Bracketed(inside) == Mark("[") \o inside \o Mark("]")
JsonNames == {Quoted(<<"spelled">>), Quoted(<<"high", "low">>)}
JsonScalars == {Quoted(<<"escape">>), Digits(1, TRUE, -1, -1), Literal("null")}
JsonLists ==
    {<<>>} \cup JsonScalars \cup {a \o Mark(",") \o b : a, b \in {Quoted(<<>>), Digits(1, FALSE, 1, -1)}}
JsonValues ==
    JsonScalars \cup {Bracketed(l) : l \in JsonLists} \cup {Braced(<<>>), Braced(Pair(Quoted(<<"low">>), Literal("true")))}
JsonObjects ==
    {Braced(<<>>)} \cup {Braced(Pair(n, v)) : n \in JsonNames, v \in JsonValues}
    \cup {Braced(Pair(Quoted(<<"char">>), v) \o Mark(",") \o Pair(n, Bracketed(Quoted(<<"escape">>)))) : n \in JsonNames, v \in JsonScalars}
    \cup {Braced(Pair(Quoted(<<"char">>), Bracketed(v))) : v \in {Bracketed(<<>>), Braced(<<>>), Bracketed(Bracketed(<<>>)), Bracketed(Braced(<<>>))}}
JsonLexemes ==
    {Mark(m)[1] : m \in {"{", "}", "[", "]", ":", ",", "whitespace", "foreign"}}
    \cup {Quoted(<<"char">>)[1], Quoted(<<"control">>)[1], Quoted(<<"high">>)[1], Digits(2, TRUE, -1, -1)[1],
          Literal("true")[1], Literal("truex")[1]}
Edited(s) ==
    {s} \cup {RemoveAt(s, k) : k \in DOMAIN s} \cup {ReplaceAt(s, k, t) : k \in DOMAIN s, t \in JsonLexemes}
    \cup {InsertAt(s, k, t) : k \in 1..(Len(s) + 1), t \in JsonLexemes}
JsonUnits == {"char", "spelled", "control", "escape", "unknown", "high", "low", "hex"}
JsonDocuments ==
    UNION {Edited(s) : s \in JsonObjects}
    \cup UNION {{Braced(Pair(Quoted(u), Literal("null"))), Braced(Pair(Quoted(<<>>), Quoted(u))),
                 Braced(Pair(Quoted(<<>>), Bracketed(Quoted(u)))),
                 Braced(Pair(Quoted(<<>>), Braced(Pair(Quoted(u), Literal("null")))))} : u \in SeqOf(JsonUnits, 3)}
    \cup {Braced(Pair(Quoted(<<>>), Digits(d, z, f, e))) : d \in 0..2, z \in BOOLEAN, f, e \in -1..1}

\* Symbols of three bits: zero, values with a low and with a high bit set,
\* a special value in either spelling, padding and a foreign character.
Header == INSTANCE HeaderWalk WITH Inputs <- HeaderInputs, Modes <- HeaderModes
Text64 == INSTANCE Base64 WITH Symbols <- {0, 1, 4, 7, -7, 2^W, 2^W + 1}, text <- symbols
Java == INSTANCE JavaReceipt WITH Contents <- JavaContents, stage <- reading, answer <- reply
Json == INSTANCE JsonText WITH Documents <- JsonDocuments, text <- document, at <- position, name <- lastName

ASSUME Envelope!LimitsAssumption /\ Envelope!BlobAssumption
ASSUME Text64!Base64Assumption
ASSUME Text64!SymbolsAssumption
ASSUME Payload!PayloadAssumption
ASSUME Jws!ClaimsAssumption
-----------------------------------------------------------------------------
Unused == "unused"
NoHeader ==
    /\ input = Unused /\ mode = Unused /\ at = Unused /\ stack = Unused
    /\ nodes_left = Unused /\ reach = Unused /\ result = Unused
NoEnvelope ==
    /\ blob = Unused /\ parsing = Unused /\ built = 0 /\ keys = 0 /\ full_decodes = 0
    /\ accepted = {}
NoPayload ==
    /\ content = Unused /\ reading = Unused /\ attributes = Unused /\ judged = Unused
    /\ receipt = Unused /\ reply = Unused /\ object = Unused

NoClaims == claims = Unused /\ visited = Unused /\ dates = Unused /\ places = Unused

NoJson ==
    /\ document = Unused /\ whole = Unused /\ position = Unused /\ open = Unused
    /\ wanted = Unused /\ lastName = Unused /\ from = Unused /\ members = Unused

headerVars == <<input, mode, at, stack, nodes_left, reach, result>>
envelopeVars == <<blob, parsing, built, keys, full_decodes, accepted>>
payloadVars == <<content, reading, attributes, judged, receipt, reply, object>>
claimVars == <<claims, visited, dates, places>>
jsonVars == <<document, whole, position, open, wanted, lastName, from, members>>

DecodingInit ==
    /\ Init /\ Text64!Init
    /\ \/ decoder = "claims" /\ Jws!Init /\ NoHeader /\ NoEnvelope /\ NoPayload /\ NoJson
       \/ decoder = "json" /\ Json!Init /\ NoHeader /\ NoEnvelope /\ NoPayload /\ NoClaims
       \/ decoder = "header" /\ Header!Init /\ NoEnvelope /\ NoPayload /\ NoClaims /\ NoJson
       \/ decoder = "envelope" /\ Envelope!Init /\ NoHeader /\ NoPayload /\ NoClaims /\ NoJson
       \/ decoder = "base64" /\ NoHeader /\ NoEnvelope /\ NoPayload /\ NoClaims /\ NoJson
       \/ decoder = "date" /\ NoHeader /\ NoEnvelope /\ NoPayload /\ NoClaims /\ NoJson
       \/ decoder = "payload" /\ Payload!Init /\ NoHeader /\ NoEnvelope /\ NoClaims /\ NoJson
       \/ decoder = "java" /\ Java!Init /\ NoHeader /\ NoEnvelope /\ NoClaims /\ NoJson
    /\ decoder # "date" => request = LAST_MILLIS

DecodingNext ==
    /\ UNCHANGED decoder
    /\ \/ decoder = "header" /\ Header!Next /\ UNCHANGED <<envelopeVars, symbols, vars, payloadVars, claimVars, jsonVars>>
       \/ decoder = "envelope" /\ Envelope!Next /\ UNCHANGED <<headerVars, symbols, vars, payloadVars, claimVars, jsonVars>>
       \/ decoder = "base64" /\ Text64!Next /\ UNCHANGED <<headerVars, envelopeVars, vars, payloadVars, claimVars, jsonVars>>
       \/ decoder = "date" /\ Next /\ UNCHANGED <<headerVars, envelopeVars, symbols, payloadVars, claimVars, jsonVars>>
       \/ decoder = "payload" /\ Payload!Next /\ UNCHANGED <<headerVars, envelopeVars, symbols, vars, claimVars, jsonVars>>
       \/ decoder = "java" /\ Java!Next /\ UNCHANGED <<headerVars, envelopeVars, symbols, vars, claimVars, jsonVars>>
       \/ decoder = "claims" /\ Jws!Next /\ UNCHANGED <<headerVars, envelopeVars, symbols, vars, payloadVars, jsonVars>>
       \/ decoder = "json" /\ Json!Next /\ UNCHANGED <<headerVars, envelopeVars, symbols, vars, payloadVars, claimVars>>

DecodingSpec ==
    DecodingInit /\ [][DecodingNext]_<<decoder, headerVars, envelopeVars, symbols, vars, payloadVars, claimVars, jsonVars>>
-----------------------------------------------------------------------------
(* walk_exact accepts exactly the encodings of one value within the depth  *)
(* and node budgets that use allowed headers and hold nothing OpenSSL      *)
(* would refuse on its own: over every input, the walk agrees with a       *)
(* grammar that cuts an encoding into its parts instead of reading on, and *)
(* children and octet_string_exact find in it what the grammar does.  And  *)
(* json.rs takes exactly the objects of JSON's grammar and keeps the last  *)
(* value of each of their names.                                           *)
WalkAcceptsTheGrammar ==
    /\ decoder = "header" /\ result # "walking" => (result = "ok" <=> input \in AcceptedBytes[mode])
    /\ decoder = "header" /\ result = "ok" => <<input, Header!children(input), Header!octet_string_exact(input)>> \in Accepted[mode]
    /\ decoder = "json" => Json!ReadsTheGrammar

(* base64.rs and StrictBase64.java take the same texts and read the same   *)
(* bytes from them.                                                        *)
DecodersAgree == Text64!DecodersAgree

(* parse_receipt_payload and parse_in_app lose no attribute and invent     *)
(* none, and Wire.java reads the JSON of the answer back unchanged.        *)
EveryAttributeKept == decoder = "payload" => Payload!EveryAttributeKept

(* The core and the Java implementation refuse the same payloads, judge    *)
(* the chain at the same instant, fill the same fields and raw lists and   *)
(* answer verifyReceipt with the same keys and values;                     *)
(* and read the same date and environment in the payload of a JWS.         *)
JavaReadsTheSame ==
    /\ decoder = "java" => Java!JavaReadsTheSame
    /\ decoder = "claims" => Jws!ClaimsReadAlike
=============================================================================
