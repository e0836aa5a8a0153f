----------------------------- MODULE HeaderWalk -----------------------------
(***************************************************************************)
(* The header walk of walk.rs: one pass over raw BER octets that reads     *)
(* tags and lengths, bounds the depth and the number of values, and        *)
(* applies OpenSSL's rules for values it would keep unchecked. Octets are  *)
(* numbers. The recursion of Walker::value is a stack of open constructed  *)
(* values, one frame per activation.                                       *)
(***************************************************************************)
EXTENDS Naturals, Sequences, FiniteSetsExt, SequencesExt

CONSTANTS
    Inputs,      \* sequences of octets
    Modes,       \* [short, check : BOOLEAN, depth, nodes : Nat]: how a caller walks
    HELPER_DEPTH, \* how deep the helpers go on their own
    StringNest   \* how many levels asn1_collect joins

VARIABLES
    input, mode,
    at,         \* the octets read
    stack,      \* the open constructed values, outermost first
    nodes_left,
    reach,      \* the most levels of the constructed string being read
    result      \* "walking", "ok" or a WalkError

vars == <<input, mode, at, stack, nodes_left, reach, result>>

Universal(id) == id \div 64 = 0
SEQUENCE == 16
SET == 17
OCTET_STRING == 4
MaxTagPrefix == 2^24 - 1     \* INT_MAX >> 7

(* ASN1_get_object on the octets s: tag, form and lengths of the first     *)
(* value, whose definite content lies within s.  A high tag number is read *)
(* to its first octet below 128 and stays an int.  A long length may start *)
(* with zero octets, and something has to follow its octets; one past s is *)
(* refused whatever it says, so its value is cut off there.                *)
header(s) ==
    LET high == s # <<>> /\ s[1] % 32 = 31
        last == {i \in 2..Len(s) : s[i] < 128}
        idLen == IF ~ high THEN 1 ELSE Min(last \cup {Len(s) + 1})
        number == FoldLeft(LAMBDA n, o : IF n > MaxTagPrefix THEN n ELSE 128 * n + (o % 128), 0, SubSeq(s, 2, idLen - 1))
        len == s[idLen + 1]
        octets == IF len > 128 THEN len - 128 ELSE 0
        head == idLen + 1 + octets
        long == FoldLeft(LAMBDA n, o : Min({256 * n + o, Len(s) + 1}), 0, SubSeq(s, idLen + 2, head))
        constructed == (s[1] \div 32) % 2 = 1
        h == [tag |-> IF high THEN 128 * number + s[idLen] ELSE s[1] % 32,
              universal |-> Universal(s[1]), constructed |-> constructed,
              indefinite |-> len = 128, high |-> high, head |-> head,
              content |-> CASE len < 128 -> len [] len = 128 -> 0 [] OTHER -> long]
    IN IF /\ Len(s) > idLen
          /\ high => number <= MaxTagPrefix
          /\ len = 128 => constructed
          /\ len > 128 => Len(s) > head
          /\ h.head + h.content <= Len(s)
       THEN <<h>> ELSE <<>>

is_long_form(h) == h.high \/ h.head > 2 + 4

CHECKED_TAGS == {1, 2, 3, 5, 6, 10, 16, 17, 23, 24, 28, 30}
PRIMITIVE_ONLY_TAGS == {1, 2, 5, 6, 10}

(* decodes_as_any of a primitive value, of the tags the inputs hold: a     *)
(* BOOLEAN is one octet, and a SEQUENCE or a SET is never primitive        *)
PrimitiveDecodes(h) == (h.tag = 1 => h.content = 1) /\ h.tag \notin {SEQUENCE, SET}

(* decodes_as_any of a constructed string: its chunks are joined *)
StringDecodes(levels) == levels <= StringNest

Slice(s, from, to) == SubSeq(s, from + 1, to)
EndOfContents(s) == Len(s) >= 2 /\ s[1] = 0 /\ s[2] = 0
-----------------------------------------------------------------------------
(* Walker::value, unfolded *)

Top == Last(stack)
Limit == IF stack = <<>> THEN Len(input) ELSE Top.limit
Rest == Slice(input, at, Limit)
AtEnd == IF Top.indefinite THEN EndOfContents(Rest) ELSE at = Top.limit
Level == IF stack = <<>> THEN 0 ELSE Top.level

Init ==
    /\ input \in Inputs
    /\ mode \in Modes
    /\ at = 0
    /\ stack = <<>>
    /\ nodes_left = mode.nodes
    /\ reach = 0
    /\ result = "walking"

(* The next value is there to be read: nothing yet, or inside a frame *)
Reading == result = "walking" /\ (stack # <<>> => ~ AtEnd)
Stopped(why) == result' = why /\ UNCHANGED <<input, mode, at, stack, reach>>

(* The outermost value is read: nothing may follow *)
Returned(size) == result' = IF size = Len(input) THEN "ok" ELSE "Trailing"

(* An end-of-contents where the loop of a definite value expects a value *)
Misplaced == stack # <<>> /\ ~ Top.indefinite /\ mode.check /\ EndOfContents(Rest)
Misplace == Reading /\ Misplaced /\ Stopped("Malformed") /\ UNCHANGED nodes_left

TooManyNodes == Reading /\ ~ Misplaced /\ nodes_left = 0 /\ Stopped("TooManyNodes") /\ UNCHANGED nodes_left

(* A node is spent before its header is looked at *)
Spend == Reading /\ ~ Misplaced /\ nodes_left > 0 /\ nodes_left' = nodes_left - 1

Unread == header(Rest) # <<>> => mode.short /\ is_long_form(header(Rest)[1])
Unreadable == Spend /\ Unread /\ Stopped("Malformed")

Primitive ==
    /\ Spend
    /\ ~ Unread
    /\ LET h == header(Rest)[1]
           size == h.head + h.content
       IN /\ ~ h.constructed
          /\ IF mode.check /\ Level = 0 /\ h.universal /\ h.tag \in CHECKED_TAGS /\ ~ PrimitiveDecodes(h)
             THEN Stopped("Malformed")
             ELSE /\ at' = at + size
                  /\ IF stack = <<>> THEN Returned(size) ELSE UNCHANGED result
                  /\ UNCHANGED <<input, mode, stack, reach>>

(* The level a constructed value opens within a string *)
LevelOf(h) ==
    CASE Level > 0 -> Level + 1
      [] mode.check /\ h.universal /\ h.tag \notin {SEQUENCE, SET} -> 1
      [] OTHER -> 0

(* A slip: the frame counted after it is opened *)
too_deep_after(depth) == depth > mode.depth

too_deep(depth) == depth >= mode.depth

Open ==
    /\ Spend
    /\ ~ Unread
    /\ LET h == header(Rest)[1]
           level == LevelOf(h)
       IN /\ h.constructed
          /\ CASE too_deep(Len(stack)) -> Stopped("TooDeep")
               [] level = 1 /\ h.tag \in PRIMITIVE_ONLY_TAGS -> Stopped("Malformed")
               [] OTHER ->
                    /\ stack' = Append(stack, [indefinite |-> h.indefinite, level |-> level,
                                               limit |-> IF h.indefinite THEN Limit ELSE at + h.head + h.content])
                    /\ at' = at + h.head
                    /\ reach' = IF level = 1 THEN 1 ELSE Max({reach, level})
                    /\ UNCHANGED <<input, mode, result>>

(* The frame on top is complete: a string is checked at its outermost level *)
Close ==
    /\ result = "walking"
    /\ stack # <<>>
    /\ AtEnd
    /\ LET end == IF Top.indefinite THEN at + 2 ELSE at
       IN IF mode.check /\ Top.level = 1 /\ ~ StringDecodes(reach)
          THEN result' = "Malformed" /\ UNCHANGED <<at, stack>>
          ELSE /\ at' = end
               /\ stack' = Front(stack)
               /\ IF Len(stack) = 1 THEN Returned(end) ELSE UNCHANGED result
    /\ UNCHANGED <<input, mode, nodes_left, reach>>

Next == Misplace \/ TooManyNodes \/ Unreadable \/ Primitive \/ Open \/ Close
Spec == Init /\ [][Next]_vars
-----------------------------------------------------------------------------
(* The helpers that read what a walk accepted. A size of 0 is None.        *)

RECURSIVE size_of_value(_, _), end_of_children(_, _, _, _, _)

(* Walker::value without a budget, a check or a refused header form *)
size_of_value(s, depth_left) ==
    LET h == header(s)[1]
        end == h.head + h.content
    IN CASE header(s) = <<>> -> 0
         [] header(s) # <<>> /\ ~ h.constructed -> end
         [] header(s) # <<>> /\ h.constructed /\ depth_left = 0 -> 0
         [] OTHER -> end_of_children(s, h.head, IF h.indefinite THEN Len(s) ELSE end, h.indefinite, depth_left - 1)

end_of_children(s, from, end, indefinite, depth_left) ==
    LET rest == Slice(s, from, end)
        size == size_of_value(rest, depth_left)
    IN CASE indefinite /\ EndOfContents(rest) -> from + 2
         [] ~ indefinite /\ from = end -> end
         [] size = 0 -> 0
         [] OTHER -> end_of_children(s, from + size, end, indefinite, depth_left)

RECURSIVE children_from(_, _)
children_from(body, indefinite) ==
    LET size == size_of_value(body, HELPER_DEPTH)
        more == children_from(Slice(body, size, Len(body)), indefinite)
    IN CASE body = <<>> -> IF indefinite THEN <<>> ELSE <<(<<>>)>>
         [] body # <<>> /\ indefinite /\ EndOfContents(body) -> <<(<<>>)>>
         [] size = 0 -> <<>>
         [] OTHER -> IF more = <<>> THEN <<>> ELSE << <<Slice(body, 0, size)>> \o more[1] >>

(* The values inside a constructed value: a sequence of at most one list *)
children(s) ==
    LET h == header(s)[1]
    IN IF header(s) = <<>> \/ ~ h.constructed THEN <<>>
       ELSE children_from(Slice(s, h.head, IF h.indefinite THEN Len(s) ELSE h.head + h.content), h.indefinite)

RECURSIVE octet_string_within(_, _), end_of_chunks(_, _, _, _, _)

octet_string_within(s, depth_left) ==
    LET h == header(s)[1]
        end == h.head + h.content
    IN CASE header(s) = <<>> -> 0
         [] header(s) # <<>> /\ (h.tag # OCTET_STRING \/ ~ h.universal) -> 0
         [] header(s) # <<>> /\ ~ h.constructed -> end
         [] header(s) # <<>> /\ h.constructed /\ depth_left = 0 -> 0
         [] OTHER -> end_of_chunks(s, h.head, IF h.indefinite THEN Len(s) ELSE end, h.indefinite, depth_left - 1)

end_of_chunks(s, from, end, indefinite, depth_left) ==
    LET rest == Slice(s, from, end)
        size == octet_string_within(rest, depth_left)
    IN CASE indefinite /\ EndOfContents(rest) -> from + 2
         [] ~ indefinite /\ from = end -> end
         [] size = 0 -> 0
         [] OTHER -> end_of_chunks(s, from + size, end, indefinite, depth_left)

octet_string_exact(s) == octet_string_within(s, HELPER_DEPTH) = Len(s)
=============================================================================
