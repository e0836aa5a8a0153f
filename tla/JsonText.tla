------------------------------ MODULE JsonText -------------------------------
(***************************************************************************)
(* The documents the core reads as JSON, a JWS header, a JWS payload and a *)
(* request body, by json.rs: an object is read into a map from each of its *)
(* names to the raw text of its last value, and a value is read from its   *)
(* raw text when a caller asks for it.  The parser is serde_json, modelled *)
(* as json.rs uses it: it builds the names of the object, and skips every  *)
(* value with a stack of the arrays and objects open in it, however many.  *)
(*                                                                         *)
(* A text is a sequence of lexemes.  A "string" has its units: a "char",   *)
(* the same one "spelled" as an escape, another "escape", an "unknown"     *)
(* one, a "control" character, a \u escape of a "high" or "low" surrogate  *)
(* or with a "hex" digit missing.  A "number" has its digits: how many     *)
(* before the point, whether the first is a zero, how many in a fraction   *)
(* and an exponent, -1 for none.  A "literal" is one of the three words or *)
(* not.  What a number is as an instant is read in Claims.                 *)
(***************************************************************************)
EXTENDS Integers, Sequences, SequencesExt, TLC

CONSTANT Documents      \* the texts read

VARIABLES
    text, whole,   \* the document, and whether the object must be all of it
    at,            \* the reader's position
    open,          \* the arrays and objects open around it, outermost first
    wanted,        \* what has to come next, or "read" or "refused"
    name, from,    \* the last name read, and where its value starts
    members        \* the map: each name and the raw text of its last value

vars == <<text, whole, at, open, wanted, name, from, members>>

Ended == {"read", "refused"}
-----------------------------------------------------------------------------
(* Lexemes *)

(* The grammar of a string, which is all that is asked of a skipped one. *)
IsString(token) ==
    token.is = "string" /\ \A i \in DOMAIN token.units : token.units[i] \notin {"control", "unknown", "hex"}

(* A surrogate without its partner. *)
HasLone(units) ==
    \E i \in DOMAIN units :
        \/ units[i] = "high" /\ (i = Len(units) \/ units[i + 1] # "low")
        \/ units[i] = "low" /\ (i = 1 \/ units[i - 1] # "high")

(* A string that is built: a lone surrogate is no character. *)
Builds(token) == IsString(token) /\ ~HasLone(token.units)

(* What it says.  A pair is one character. *)
Unescaped(units) ==
    LET said == SelectSeq(units, LAMBDA u : u # "low")
    IN  [i \in DOMAIN said |-> CASE said[i] = "spelled" -> "char" [] said[i] = "high" -> "pair" [] OTHER -> said[i]]

(* No leading zero, and a digit wherever one is due. *)
IsNumber(token) ==
    /\ token.is = "number" /\ token.digits > 0 /\ (token.zero => token.digits = 1)
    /\ token.fraction # 0 /\ token.exponent # 0

IsLiteral(token) == token.is = "literal" /\ token.word \in {"true", "false", "null"}

IsScalar(token) == IsString(token) \/ IsNumber(token) \/ IsLiteral(token)
-----------------------------------------------------------------------------
(* The reader *)

Init ==
    /\ text \in Documents /\ whole \in BOOLEAN
    /\ at = 1 /\ open = <<>> /\ wanted = "object"
    /\ name = <<>> /\ from = 0 /\ members = <<>>

Peek == IF at <= Len(text) THEN text[at].is ELSE "end of input"

Starts == {"string", "number", "literal", "{", "["}

(* What may stand at the reader's position. *)
Expected ==
    CASE wanted = "object" -> {"{"}
      [] wanted = "first name" -> {"string", "}"}
      [] wanted = "name" -> {"string"}
      [] wanted = "colon" -> {":"}
      [] wanted = "first value" -> Starts \cup {"]"}
      [] wanted = "value" -> Starts
      [] wanted = "more" -> {",", IF Last(open) = "{" THEN "}" ELSE "]"}
      [] wanted = "end" -> {"end of input"}

Goes(to) == at' = at + 1 /\ wanted' = to
Refuses == wanted' = "refused" /\ UNCHANGED <<at, open, name, from, members>>

Whitespace ==
    /\ wanted \notin Ended /\ Peek = "whitespace"
    /\ at' = at + 1
    /\ UNCHANGED <<open, wanted, name, from, members>>

(* Anything else, the end of the text included. *)
Unexpected ==
    /\ wanted \notin Ended /\ Peek \notin Expected \cup {"whitespace"}
    /\ Refuses

OpenObject ==
    /\ wanted = "object" /\ Peek = "{"
    /\ open' = <<"{">> /\ Goes("first name")
    /\ UNCHANGED <<name, from, members>>

(* A name of the object is built, one inside a value is skipped. *)
Name ==
    /\ wanted \in {"first name", "name"} /\ Peek = "string"
    /\ LET top == Len(open) = 1
           good == IF top THEN Builds(text[at]) ELSE IsString(text[at])
       IN  \/ ~good /\ Refuses
           \/ /\ good
              /\ name' = IF top THEN Unescaped(text[at].units) ELSE name
              /\ Goes("colon")
              /\ UNCHANGED <<open, from, members>>

Colon ==
    /\ wanted = "colon" /\ Peek = ":"
    /\ Goes("value")
    /\ UNCHANGED <<open, name, from, members>>

(* A slip: the first value of a name is kept. *)
Members_first(said, raw) == members @@ (said :> raw)

(* The map takes a value: the last one of a name stays. *)
Members(said, raw) == (said :> raw) @@ members

Scalar ==
    /\ wanted \in {"first value", "value"} /\ Peek \in {"string", "number", "literal"}
    /\ \/ ~IsScalar(text[at]) /\ Refuses
       \/ /\ IsScalar(text[at])
          /\ members' = IF Len(open) = 1 THEN Members(name, <<text[at]>>) ELSE members
          /\ Goes("more")
          /\ UNCHANGED <<open, name, from>>

(* An array or an object opens in a value: there is no limit. *)
Enter ==
    /\ wanted \in {"first value", "value"} /\ Peek \in {"{", "["}
    /\ open' = Append(open, Peek)
    /\ from' = IF Len(open) = 1 THEN at ELSE from
    /\ Goes(IF Peek = "{" THEN "first name" ELSE "first value")
    /\ UNCHANGED <<name, members>>

(* from_str goes on to the end of the text; the stream of values that      *)
(* top_level_members takes the first of stops at the closing brace.        *)
Leave ==
    /\ wanted \in {"first name", "first value", "more"} /\ Peek \in Expected \cap {"}", "]"}
    /\ open' = Front(open)
    /\ members' = IF Len(open) = 2 THEN Members(name, SubSeq(text, from, at)) ELSE members
    /\ Goes(CASE Len(open) > 1 -> "more" [] Len(open) = 1 /\ whole -> "end" [] OTHER -> "read")
    /\ UNCHANGED <<name, from>>

Comma ==
    /\ wanted = "more" /\ Peek = ","
    /\ Goes(IF Last(open) = "{" THEN "name" ELSE "value")
    /\ UNCHANGED <<open, name, from, members>>

whole_object_members ==
    /\ wanted = "end" /\ Peek = "end of input"
    /\ wanted' = "read"
    /\ UNCHANGED <<at, open, name, from, members>>

Next ==
    /\ \/ Whitespace \/ Unexpected \/ OpenObject \/ Name \/ Colon \/ Scalar \/ Enter \/ Leave \/ Comma
       \/ whole_object_members
    /\ UNCHANGED <<text, whole>>

Spec == Init /\ [][Next]_vars
-----------------------------------------------------------------------------
(* The readers of a value: a sequence of at most one result *)

string(of) ==
    IF of \in DOMAIN members /\ Len(members[of]) = 1 /\ Builds(members[of][1])
    THEN <<Unescaped(members[of][1].units)>> ELSE <<>>

strings(of) ==
    LET raw == members[of]
        inside == SelectSeq(SubSeq(raw, 2, Len(raw) - 1), LAMBDA token : token.is \notin {"whitespace", ","})
    IN  IF of \in DOMAIN members /\ raw[1].is = "[" /\ \A i \in DOMAIN inside : Builds(inside[i])
        THEN << [i \in DOMAIN inside |-> Unescaped(inside[i].units)] >> ELSE <<>>
-----------------------------------------------------------------------------
(* The grammar, over the lexemes that are not whitespace *)

Plain(s) == SelectSeq(s, LAMBDA token : token.is # "whitespace")

Depth(s, k) ==
    LET within(kinds) == Len(SelectSeq(SubSeq(s, 1, k), LAMBDA token : token.is \in kinds))
    IN  within({"{", "["}) - within({"}", "]"})

Inner(s) == SubSeq(s, 2, Len(s) - 1)
Wrapped(s, first, last) == Len(s) >= 2 /\ s[1].is = first /\ s[Len(s)].is = last

(* What stands between the commas that are in no array or object of s. *)
Segments(s) ==
    LET commas == {k \in DOMAIN s : s[k].is = "," /\ Depth(s, k) = 0}
        cuts == SetToSortSeq({0, Len(s) + 1} \cup commas, <)
    IN  IF s = <<>> THEN <<>> ELSE [i \in 1..(Len(cuts) - 1) |-> SubSeq(s, cuts[i] + 1, cuts[i + 1] - 1)]

RECURSIVE IsValue(_)
IsMember(s) == Len(s) >= 3 /\ IsString(s[1]) /\ s[2].is = ":" /\ IsValue(SubSeq(s, 3, Len(s)))
IsObject(s) == Wrapped(s, "{", "}") /\ \A i \in DOMAIN Segments(Inner(s)) : IsMember(Segments(Inner(s))[i])
IsValue(s) ==
    \/ Len(s) = 1 /\ IsScalar(s[1])
    \/ IsObject(s)
    \/ Wrapped(s, "[", "]") /\ \A i \in DOMAIN Segments(Inner(s)) : IsValue(Segments(Inner(s))[i])

(* An object whose own names can all be built. *)
IsDocument(s) == IsObject(s) /\ \A i \in DOMAIN Segments(Inner(s)) : ~HasLone(Segments(Inner(s))[i][1].units)

(* json.rs takes exactly the objects of the grammar, nested as deep as     *)
(* they are: all of the text when the object must be whole, else up to the *)
(* brace that closes it, whatever follows.  Its map has the object's own   *)
(* names and none of those nested in it, however they are spelled, each    *)
(* with the last value stated for it; and `string` and `strings` find a    *)
(* string and an array of strings exactly where that value is one and can  *)
(* be built.                                                               *)
ReadsTheGrammar ==
    LET ends == {n \in IF whole THEN {Len(text)} ELSE {k \in DOMAIN text : text[k].is = "}"} :
                   IsDocument(Plain(SubSeq(text, 1, n)))}
        stated == Segments(Inner(Plain(SubSeq(text, 1, at - 1))))
        NameOf(i) == Unescaped(stated[i][1].units)
        ValueOf(i) == SubSeq(stated[i], 3, Len(stated[i]))
        IsBuilt(s) == Len(s) = 1 /\ s[1].is = "string" /\ ~HasLone(s[1].units)
        StringOf(s) == IF IsBuilt(s) THEN <<Unescaped(s[1].units)>> ELSE <<>>
        StringsOf(s) ==
            LET elements == Segments(Inner(s))
            IN  IF s[1].is = "[" /\ \A i \in DOMAIN elements : IsBuilt(elements[i])
                THEN << [i \in DOMAIN elements |-> StringOf(elements[i])[1]] >> ELSE <<>>
    IN  /\ wanted \in Ended => (wanted = "read" <=> ends # {})
        /\ wanted = "read" =>
             /\ ends = {at - 1}
             /\ DOMAIN members = {NameOf(i) : i \in DOMAIN stated}
             /\ \A i \in DOMAIN stated :
                  (\A j \in DOMAIN stated : NameOf(j) = NameOf(i) => j <= i) =>
                    /\ Plain(members[NameOf(i)]) = ValueOf(i)
                    /\ string(NameOf(i)) = StringOf(ValueOf(i))
                    /\ strings(NameOf(i)) = StringsOf(ValueOf(i))
=============================================================================
