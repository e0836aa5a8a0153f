------------------------------- MODULE Claims --------------------------------
(***************************************************************************)
(* What is read in the payload of a JWS before its signature is checked:   *)
(* the date its chain is judged at and the environment it names.  The core *)
(* keeps the last raw value of every name and reads the ones it needs      *)
(* (json.rs, read_payload of jws.rs); the Java implementation takes the    *)
(* members as they stream past (JsonFields.java, JwsCore.java).            *)
(*                                                                         *)
(* A payload is the sequence of its members, a member a name, a value and  *)
(* whether the name holds a lone surrogate escape.  A value says what it   *)
(* `is`: an "integer" with its value; a "double" (a fraction or an         *)
(* exponent) with its value in halves; a "string"; an "object" with its    *)
(* members; or an "other".                                                 *)
(***************************************************************************)
EXTENDS Integers, Sequences

CONSTANTS
    Payloads,
    MIN, MAX      \* the bounds of an i64

VARIABLES
    payload,      \* the members
    visited,      \* how many of them the Java parser has passed
    dates,        \* its signedDate and receiptCreationDate, None or an instant
    places        \* its three places for an environment, None or a value

vars == <<payload, visited, dates, places>>

(* Nothing, or one thing: a sequence of at most one. *)
None == <<>>
Some(v) == <<v>>

IsSequence(s) == s \in Seq({s[i] : i \in DOMAIN s})
IsValue(v) ==
    /\ v.is = "integer" => v.n \in Int
    /\ v.is = "double" => v.halves \in Int
    /\ v.is = "object" => IsSequence(v.members)
ClaimsAssumption ==
    /\ MIN \in Int /\ MAX \in Nat /\ MIN < 0
    /\ \A p \in Payloads : IsSequence(p) /\ \A i \in DOMAIN p : IsValue(p[i].value)

(* Which of an object's members have a name, and the last of some. *)
Named(object, name) == {i \in DOMAIN object : object[i].name = name}
LastOf(positions) == CHOOSE i \in positions : \A j \in positions : j <= i
-----------------------------------------------------------------------------
(* The core. *)

(* A name that does not decode refuses the object; a repeated one keeps    *)
(* its last value.                                                         *)
whole_object_members(object) ==
    IF \E i \in DOMAIN object : object[i].lone THEN None
    ELSE Some([name \in {object[i].name : i \in DOMAIN object} |-> object[LastOf(Named(object, name))].value])

(* A double truncated toward zero. *)
Truncate(halves) == IF halves < 0 THEN -((-halves) \div 2) ELSE halves \div 2

(* An integer has to fit.  A double may be 2^63, which is what the last    *)
(* i64 rounds to, and is then clamped.                                     *)
instant_of(value) ==
    CASE value.is = "integer" -> IF value.n \in MIN..MAX THEN Some(value.n) ELSE None
      [] value.is = "double" ->
           IF value.halves \notin (2 * MIN)..(2 * MAX + 2) THEN None
           ELSE IF value.halves >= 2 * MAX THEN Some(MAX) ELSE Some(Truncate(value.halves))
      [] OTHER -> None

instant(members, name) == IF name \in DOMAIN members THEN instant_of(members[name]) ELSE None

signed_date(members) ==
    IF instant(members, "signedDate") # None THEN instant(members, "signedDate")
    ELSE instant(members, "receiptCreationDate")

from_jws_environment(value) ==
    IF value.is = "string" /\ value.of \in {"Production", "Sandbox"} THEN Some(value.of) ELSE None

(* The members of a container, when there is one and it reads. *)
Container(members, name) ==
    IF name \in DOMAIN members /\ members[name].is = "object"
    THEN whole_object_members(members[name].members) ELSE None

(* The first place that is present decides, whatever its value. *)
FirstOf(top, data, summary) ==
    LET first == IF top # None THEN top ELSE IF data # None THEN data ELSE summary
    IN  IF first = None THEN None ELSE from_jws_environment(first[1])

environment(members) ==
    LET held(place) == IF place # None /\ "environment" \in DOMAIN place[1]
                       THEN Some(place[1]["environment"]) ELSE None
    IN  FirstOf(held(Some(members)), held(Container(members, "data")), held(Container(members, "summary")))

(* What a caller gets of a verified payload: its text as signed, and the   *)
(* environment read from it.                                               *)
JsonPayload(object) ==
    [json |-> object, environment |-> environment(whole_object_members(object)[1])]
-----------------------------------------------------------------------------
(* Java. *)

Init ==
    /\ payload \in Payloads
    /\ visited = 0
    /\ dates = [signedDate |-> None, receiptCreationDate |-> None]
    /\ places = [environment |-> None, data |-> None, summary |-> None]

(* JsonFields.instant: getLongValue throws for what no long holds; the     *)
(* bounds become doubles, 2^63 for the last, and the cast saturates.       *)
javaInstant(value) ==
    LET fits == CASE value.is = "integer" -> value.n >= MIN /\ value.n <= MAX
                  [] value.is = "double" -> value.halves >= 2 * MIN /\ value.halves <= 2 * (MAX + 1)
                  [] OTHER -> FALSE
        long == IF value.is = "integer" THEN value.n ELSE Truncate(value.halves)
    IN  IF ~fits THEN None ELSE Some(IF long > MAX THEN MAX ELSE long)

(* A slip: an earlier container of the same name is not forgotten. *)
readContainer_kept(value, before) ==
    LET stated == IF value.is = "object" THEN Named(value.members, "environment") ELSE {}
    IN  IF stated = {} THEN before ELSE Some(value.members[LastOf(stated)].value)

(* A data or summary member: an earlier one is forgotten, the last         *)
(* environment inside stays.                                               *)
readContainer(value, before) ==
    LET stated == IF value.is = "object" THEN Named(value.members, "environment") ELSE {}
    IN  IF stated = {} THEN None ELSE Some(value.members[LastOf(stated)].value)

(* The visitor of readPayload, called for one member. *)
visit ==
    /\ visited < Len(payload)
    /\ visited' = visited + 1
    /\ LET m == payload[visited + 1]
       IN  /\ dates' = [d \in DOMAIN dates |-> IF d = m.name THEN javaInstant(m.value) ELSE dates[d]]
           /\ places' = [p \in DOMAIN places |->
                           IF p # m.name THEN places[p]
                           ELSE IF p = "environment" THEN Some(m.value)
                           ELSE readContainer(m.value, places[p])]
    /\ UNCHANGED payload

chainInstant == IF dates.signedDate # None THEN dates.signedDate ELSE dates.receiptCreationDate

jwsEnvironment == FirstOf(places.environment, places.data, places.summary)

Next == visit

Spec == Init /\ [][Next]_vars
-----------------------------------------------------------------------------
(* The two read one date and one environment, however names repeat: what   *)
(* was streamed past and then overruled leaves no trace.  They differ only *)
(* where it is on record: the core refuses a payload that has a name with  *)
(* a lone surrogate escape, and passes over a container that has one.      *)
ClaimsReadAlike ==
    LET core == whole_object_members(payload)
        lone == \E i \in DOMAIN payload :
                   payload[i].value.is = "object"
                   /\ \E j \in DOMAIN payload[i].value.members : payload[i].value.members[j].lone
    IN  visited = Len(payload) =>
          /\ core = None <=> \E i \in DOMAIN payload : payload[i].lone
          /\ core # None => chainInstant = signed_date(core[1])
          /\ core # None /\ ~lone => JsonPayload(payload) = [json |-> payload, environment |-> jwsEnvironment]
=============================================================================
