-------------------------------- MODULE Dates ---------------------------------
(***************************************************************************)
(* A receipt date on its way through the core: the text of an attribute to *)
(* an instant (datetime.rs, parse_receipt_date), the instant to the        *)
(* renderings of the verifyReceipt answer (renders, pacific_offset_seconds,*)
(* format_civil, and apple_dates of endpoint.rs).  Beside it the same path *)
(* of the independent Java implementation (ReceiptDecoder.parseDate,       *)
(* EndpointResponse.appleDates), whose answers the core's are held to.     *)
(*                                                                         *)
(* An instant is a day since 1970-01-01, a second of that day and a        *)
(* millisecond of that second: epoch milliseconds do not fit TLC's         *)
(* integers.  A text is the record of its fields; `shape` says whether the *)
(* bytes between and around them are those of the grammar.                 *)
(***************************************************************************)
EXTENDS Integers, Sequences, FiniteSets

CONSTANTS
    Texts,       \* records: shape ("date-time", or "other"), date <<year, month, day>>,
                 \* time <<hour, minute, second>>, fraction (the digits after a ".", or
                 \* NoFraction), zone <<sign, hours, minutes>> (Z has the sign 0)
    Clocks,      \* instants a caller's clock gives
    Transitions  \* America/Los_Angeles in the IANA database, which jiff and java.time
                 \* carry: <<instant, offset in seconds>>, in order

NoFraction == <<-1>>
None == <<>>

VARIABLES
    text,        \* the attribute read, as a sequence of at most one text
    instant,     \* what the core reads in it
    java,        \* what the Java implementation reads in it
    request,     \* the caller's clock
    status,      \* "pending", or the status of the core's answer
    answer,      \* its dates: the receipt's, the request's
    javaAnswer   \* the dates of the Java implementation's answer

vars == <<text, instant, java, request, status, answer, javaAnswer>>

DAY == 86400
-----------------------------------------------------------------------------
(***************************************************************************)
(* The proleptic Gregorian calendar, jiff's and java.time's, as the core   *)
(* computed it by hand before jiff.                                        *)
(***************************************************************************)
LeapYear(y) == y % 4 = 0 /\ (y % 100 # 0 \/ y % 400 = 0)

DaysIn(y, m) == CASE m = 2 -> IF LeapYear(y) THEN 29 ELSE 28
                  [] m \in {4, 6, 9, 11} -> 30
                  [] OTHER -> 31

IsDate(d) == d[2] \in 1..12 /\ d[3] \in 1..DaysIn(d[1], d[2])
IsTime(t) == t[1] \in 0..23 /\ t[2] \in 0..59 /\ t[3] \in 0..59

(***************************************************************************)
(* Days since the epoch, by counting from March so that a leap day is last.*)
(***************************************************************************)
DaysFromCivil(d) ==
    LET y == IF d[2] <= 2 THEN d[1] - 1 ELSE d[1]
        m == IF d[2] > 2 THEN d[2] - 3 ELSE d[2] + 9
    IN y * 365 + y \div 4 - y \div 100 + y \div 400
       + (153 * m + 2) \div 5 + d[3] - 1 - 719468

CivilFromDays(n) ==
    LET z == n + 719468
        era == z \div 146097
        doe == z % 146097
        yoe == (doe - doe \div 1460 + doe \div 36524 - doe \div 146096) \div 365
        doy == doe - (365 * yoe + yoe \div 4 - yoe \div 100)
        mp == (5 * doy + 2) \div 153
        m == IF mp < 10 THEN mp + 3 ELSE mp - 9
        y == yoe + era * 400 + (IF m <= 2 THEN 1 ELSE 0)
    IN <<y, m, doy - (153 * mp + 2) \div 5 + 1>>

Seconds(t) == t[1] * 3600 + t[2] * 60 + t[3]
TimeOf(s) == <<s \div 3600, (s % 3600) \div 60, s % 60>>

At(date, time, ms) == <<DaysFromCivil(date), Seconds(time), ms>>
Plus(i, seconds) ==
    LET s == i[2] + seconds IN <<i[1] + s \div DAY, s % DAY, i[3]>>

Before(a, b) == \/ a[1] < b[1]
                \/ a[1] = b[1] /\ (a[2] < b[2] \/ (a[2] = b[2] /\ a[3] < b[3]))
AtMost(a, b) == ~Before(b, a)

FIRST_MILLIS == At(<<0, 1, 1>>, <<0, 0, 0>>, 0)
LAST_MILLIS == At(<<9999, 12, 31>>, <<23, 59, 59>>, 999)
TimestampMIN == At(<<-9999, 1, 2>>, <<1, 59, 59>>, 0)
TimestampMAX == At(<<9999, 12, 30>>, <<22, 0, 0>>, 0)     \* its second
OffsetMAX == 93599                                        \* jiff: 25:59:59 either way
-----------------------------------------------------------------------------
(***************************************************************************)
(* parse_receipt_date.                                                     *)
(***************************************************************************)
Digit(f, i) == IF i <= Len(f) THEN f[i] ELSE 0
Truncated(f) == IF f = NoFraction THEN 0 ELSE 100 * Digit(f, 1) + 10 * Digit(f, 2) + Digit(f, 3)

OffsetMinutes(z) == z[1] * (z[2] * 60 + z[3])
IsZone(z) == z[2] <= 23 /\ z[3] <= 59

LeapAsLast(t) == <<t[1], t[2], IF t[3] = 60 THEN 59 ELSE t[3]>>

(***************************************************************************)
(* What both readers take, as an instant in UTC.                           *)
(***************************************************************************)
Reads(x) ==
    /\ x.shape = "date-time" /\ x.fraction # <<>>
    /\ IsZone(x.zone)
    /\ IsDate(x.date) /\ IsTime(LeapAsLast(x.time))

InUtc(x) == Plus(At(x.date, LeapAsLast(x.time), Truncated(x.fraction)), -60 * OffsetMinutes(x.zone))

parse_receipt_date(x) ==
    IF Reads(x) /\ AtMost(FIRST_MILLIS, InUtc(x)) /\ AtMost(InUtc(x), LAST_MILLIS)
    THEN InUtc(x)
    ELSE None

parseDate(x) == IF Reads(x) THEN InUtc(x) ELSE None
-----------------------------------------------------------------------------
(***************************************************************************)
(* The renderings.                                                         *)
(***************************************************************************)
renders(i) == AtMost(TimestampMIN, i) /\ AtMost(i, LAST_MILLIS)

Floored(i) == <<i[1], i[2], 0>>
Earlier(a, b) == IF AtMost(a, b) THEN a ELSE b

(***************************************************************************)
(* The zone's offset from the last transition at or before an instant.     *)
(***************************************************************************)
OffsetAt(i) ==
    LET changes == Transitions
    IN changes[Cardinality({k \in DOMAIN changes : AtMost(changes[k][1], i)})][2]

(***************************************************************************)
(* The Pacific rules the core wrote out by hand before jiff, which its     *)
(* tests keep as the reference: a table to 1966, Sundays from 1967.        *)
(***************************************************************************)
PST_OFFSET_SECONDS == -8 * 3600
PDT_OFFSET_SECONDS == -7 * 3600

REGULAR_RULES_FROM == At(<<1967, 1, 1>>, <<0, 0, 0>>, 0)

PRE_1967_TRANSITIONS ==   \* the seconds at which daylight time began and ended
    << <<-1633269600, -1615129200>>, <<-1601820000, -1583679600>>, <<-880207200, -765385200>>,
       <<-687967140, -662655600>>, <<-620838000, -608137200>>, <<-589388400, -576082800>>,
       <<-557938800, -544633200>>, <<-526489200, -513183600>>, <<-495039600, -481734000>>,
       <<-463590000, -450284400>>, <<-431535600, -418230000>>, <<-400086000, -386780400>>,
       <<-368636400, -355330800>>, <<-337186800, -323881200>>, <<-305737200, -292431600>>,
       <<-273682800, -260982000>>, <<-242233200, -226508400>>, <<-210783600, -195058800>>,
       <<-179334000, -163609200>>, <<-147884400, -131554800>>, <<-116434800, -100105200>> >>

weekday_from_days(n) == (n + 4) % 7     \* 0 is a Sunday

nth_weekday(y, m, n) ==
    LET shift == (-weekday_from_days(DaysFromCivil(<<y, m, 1>>))) % 7 IN 1 + shift + (n - 1) * 7

last_weekday(y, m) ==
    DaysIn(y, m) - weekday_from_days(DaysFromCivil(<<y, m, DaysIn(y, m)>>))

ByHand(i) ==
    LET FromSecond(s) == <<s \div DAY, s % DAY, 0>>
        Within(from, until) == AtMost(from, i) /\ Before(i, until)
        y == CivilFromDays(i[1])[1]
        start == CASE y >= 2007 -> <<y, 3, nth_weekday(y, 3, 2)>>
                   [] y \in 1987..2006 -> <<y, 4, nth_weekday(y, 4, 1)>>
                   [] y = 1975 -> <<y, 2, 23>>
                   [] y = 1974 -> <<y, 1, 6>>
                   [] OTHER -> <<y, 4, last_weekday(y, 4)>>
        end == IF y >= 2007 THEN <<y, 11, nth_weekday(y, 11, 1)>> ELSE <<y, 10, last_weekday(y, 10)>>
        daylight ==
            IF Before(i, REGULAR_RULES_FROM)
            THEN \E k \in DOMAIN PRE_1967_TRANSITIONS :
                    Within(FromSecond(PRE_1967_TRANSITIONS[k][1]), FromSecond(PRE_1967_TRANSITIONS[k][2]))
            ELSE Within(At(start, <<10, 0, 0>>, 0), At(end, <<9, 0, 0>>, 0))
    IN IF daylight THEN PDT_OFFSET_SECONDS ELSE PST_OFFSET_SECONDS

(***************************************************************************)
(* A slip: the second truncated toward zero, which before 1970 is the next *)
(***************************************************************************)
pacific_offset_seconds_truncated(i) ==
    OffsetAt(Earlier(IF i[1] < 0 /\ i[3] > 0 THEN Plus(Floored(i), 1) ELSE Floored(i), TimestampMAX))

pacific_offset_seconds(i) == OffsetAt(Earlier(Floored(i), TimestampMAX))

(***************************************************************************)
(* Seconds from a to b, for a and b at most two days apart.                *)
(***************************************************************************)
Apart(a, b) == (b[1] - a[1]) * DAY + b[2] - a[2]

Civil(i, offset) ==
    LET local == Plus(i, offset) IN <<CivilFromDays(local[1]), TimeOf(local[2])>>

(***************************************************************************)
(* format_civil: seconds past jiff's last timestamp ride in the offset.    *)
(***************************************************************************)
format_civil(i, offset) ==
    LET second == Floored(i)
        at == Earlier(second, TimestampMAX)
        shift == offset + Apart(at, second)
    IN IF shift \in -OffsetMAX..OffsetMAX /\ AtMost(TimestampMIN, at)
       THEN Civil(at, shift)
       ELSE None

format_etc_gmt(i) == IF renders(i) THEN format_civil(i, 0) ELSE None

format_pacific(i) == IF renders(i) THEN format_civil(i, pacific_offset_seconds(i)) ELSE None

(***************************************************************************)
(* apple_dates: every rendering of one date, or None for all of them.      *)
(***************************************************************************)
apple_dates(i) ==
    LET gmt == format_etc_gmt(i)
        pst == format_pacific(i)
    IN IF gmt # None /\ pst # None THEN <<gmt, i, pst>> ELSE None

(***************************************************************************)
(* java.time renders every instant; its zone rules take the instant.       *)
(***************************************************************************)
appleDates(i) == <<Civil(Floored(i), 0), i, Civil(Floored(i), OffsetAt(i))>>
-----------------------------------------------------------------------------
Init ==
    /\ text = None /\ instant = None /\ java = None /\ request \in Clocks
    /\ status = "pending" /\ answer = None /\ javaAnswer = None

(***************************************************************************)
(* The attribute is read once per implementation.                          *)
(***************************************************************************)
Read(x) ==
    /\ text = None
    /\ text' = <<x>>
    /\ instant' = parse_receipt_date(x)
    /\ java' = parseDate(x)
    /\ UNCHANGED <<request, status, answer, javaAnswer>>

(***************************************************************************)
(* render: the receipt's date, when it has one, and request_date; 21009    *)
(* without dates when either does not render.                              *)
(***************************************************************************)
Render ==
    /\ text # None /\ status = "pending"
    /\ LET date == IF instant = None THEN None ELSE apple_dates(instant)
           now == apple_dates(request)
           rendered == now # None /\ (instant # None => date # None)
       IN /\ status' = IF rendered THEN "0" ELSE "21009"
          /\ answer' = IF rendered THEN <<date, now>> ELSE None
    /\ javaAnswer' = <<IF java = None THEN None ELSE appleDates(java), appleDates(request)>>
    /\ UNCHANGED <<text, instant, java, request>>

Next == (text = None /\ \E x \in Texts : Read(x)) \/ Render

Spec == Init /\ [][Next]_vars
-----------------------------------------------------------------------------
(***************************************************************************)
(* The two implementations read and render one instant alike: in GMT and   *)
(* in Pacific time, on either side of a transition, of 1970 and of jiff's  *)
(* last timestamp.  They differ only where it is on record: a date that    *)
(* its offset carries outside the years 0000 to 9999 is Java's alone.      *)
(* And every receipt date the grammar accepts renders, so only a broken    *)
(* clock makes the endpoint answer 21009 for its dates, although jiff's    *)
(* calendar ends 26 hours before the grammar's last instant.  From 1900 on *)
(* the rules written out by hand give the offset rendered with.            *)
(***************************************************************************)
JavaAgrees ==
    /\ instant # None /\ AtMost(At(<<1900, 1, 1>>, <<0, 0, 0>>, 0), instant) =>
         ByHand(instant) = pacific_offset_seconds(instant)
    /\ instant # None => java = instant
    /\ instant = None /\ java # None => Before(java, FIRST_MILLIS) \/ Before(LAST_MILLIS, java)
    /\ status = "0" =>
         /\ answer[2] = javaAnswer[2]
         /\ java = instant => answer[1] = javaAnswer[1]
    /\ status = "21009" => ~renders(request)
=============================================================================
