---------------------------- MODULE MCBoundaries ----------------------------
(***************************************************************************)
(* The boundaries as one specification: a behaviour runs one of them,      *)
(* `boundary`, and the variables of the others stand still.                *)
(***************************************************************************)
EXTENDS Boundaries, Naturals, Sequences
CONSTANTS a1, a2, c3, c4

VARIABLE boundary

(* Three Apple roots are two here; c3 is a caller's own root, c4 a         *)
(* certificate OpenSSL parses and a strict reader does not.                *)

Der(c) == [form |-> "der", cert |-> c, whole |-> TRUE]
Object(values) == [text |-> "object", other |-> FALSE, named |-> values]
McReadable == {a1, a2, c3}
McAppleRoots == <<a1, a2>>
McBundledFiles == {<<Der(a1), Der(a2)>>, <<Der(a1), Der(c3)>>}

Derlike == {Der(a1), Der(c3), Der(c4), [form |-> "der", cert |-> c3, whole |-> FALSE]}
Junk == [form |-> "other"]
Empty == [form |-> "none"]
Block(tag, b) == [kind |-> "block", tag |-> tag, bytes |-> b]
Items0 == {Block("CERTIFICATE", b) : b \in Derlike \cup {Junk, Empty}}
            \cup {Block("X509 CERTIFICATE", Der(c3)), Block("PRIVATE KEY", Junk), [kind |-> "broken"]}
Prose == {[kind |-> "comment"], [kind |-> "text"]}
Pem(items) == [form |-> "pem", items |-> items]
Pems == {Pem(<<i>>) : i \in Items0} \cup {Pem(<<i, j>>) : i \in Items0, j \in Items0 \cup Prose}
FewPems == {Pem(<<Block("CERTIFICATE", Der(c3))>>), Pem(<<Block("CERTIFICATE", Der(c3)), Block("CERTIFICATE", Der(a1))>>),
            Pem(<<Block("CERTIFICATE", Der(c3)), [kind |-> "text"]>>), Pem(<<Block("PRIVATE KEY", Junk)>>)}
Bytes == Derlike \cup {Junk, Empty} \cup Pems
Few == {Der(a1), Der(c3), Junk, Empty} \cup FewPems
Lists == {<<>>} \cup {<<b>> : b \in Bytes} \cup {<<b, c>> : b \in Few, c \in Few}

Configs ==
    {[text |-> t, other |-> FALSE, named |-> <<>>] : t \in {"blank", "bad", "object"}}
    \cup {[text |-> "object", other |-> o, named |-> <<[list |-> TRUE, entries |-> l]>>] : o \in BOOLEAN, l \in Lists}
    \cup {Object(<<[list |-> FALSE, entries |-> <<>>]>>)}
    \cup {Object(<<[list |-> TRUE, entries |-> l], [list |-> TRUE, entries |-> m]>>) :
            l \in {<<>>, <<Der(c3)>>}, m \in {<<>>, <<Der(a1)>>}}

CEntry(b, null, huge) == [bytes |-> b, null |-> null, huge |-> huge]
CArgs ==
    {[count |-> Len(l), ders |-> d, lens |-> d2, huge |-> h, entries |-> [i \in DOMAIN l |-> CEntry(l[i], FALSE, FALSE)]] :
        l \in {<<>>, <<Der(c3)>>}, d \in {"null", "array"}, d2 \in {"null", "array"}, h \in BOOLEAN}
    \cup {[count |-> Len(l), ders |-> "array", lens |-> "array", huge |-> FALSE,
           entries |-> [i \in DOMAIN l |-> CEntry(l[i], FALSE, FALSE)]] : l \in Lists}
    \cup {[count |-> 2, ders |-> "array", lens |-> "array", huge |-> FALSE,
           entries |-> <<CEntry(Der(a1), FALSE, FALSE), CEntry(Der(c3), n, h)>>] : n \in BOOLEAN, h \in BOOLEAN}

NestedPem == {Block("CERTIFICATE", Pem(<<Block("CERTIFICATE", Der(c3))>>))}
Lines == Items0 \cup Prose \cup NestedPem \cup {[kind |-> "line", bytes |-> b] : b \in Few \cup {Pem(<<i>>) : i \in NestedPem}}
Texts == {[form |-> "text", items |-> t] : t \in {<<>>} \cup {<<l>> : l \in Lines} \cup {<<l, m>> : l \in Lines, m \in Lines}}
Files == Derlike \cup Texts \cup {Empty, Junk}
FewFiles == {Der(a1), Empty, [form |-> "text", items |-> <<[kind |-> "comment"]>>],
             [form |-> "text", items |-> <<[kind |-> "line", bytes |-> Der(c3)]>>]}
FileLists == {<<>>} \cup {<<f>> : f \in Files} \cup {<<f, g>> : f \in FewFiles, g \in FewFiles}

With(e, args) == {[entry |-> e, arg |-> a] : a \in args}
McInputs == With("default", {0}) \cup With("rust", Lists) \cup With("c_abi", CArgs) \cup With("wasm", Configs)
              \cup With("managed", Configs) \cup With("files", FileLists)
-----------------------------------------------------------------------------
\* One byte of text is a genuine input judged by its date, two are one
\* without a date, valid at instant 1 only; anything with a NUL or bytes
\* that are no text is malformed.
McAbiInputs == {<<"x">>, <<"x", "x">>, <<"bad">>, <<"x", "nul", "bad">>}
McAbiCore(c, bytes, now) ==
    CASE bytes = <<"x">> -> "OK"
      [] bytes = <<"x", "x">> -> IF now = 1 THEN "OK" ELSE "INVALID_CERTIFICATE"
      [] OTHER -> "MALFORMED"

\* Inputs of up to twelve characters of one to four bytes around a cap of ten.
McBodyTexts == UNION {[1..n -> {1, 2, 3, 4}] : n \in 0..5} \cup [1..6 -> {1, 3}] \cup [1..12 -> {1}]

\* Two threads of one JVM and one of another.
McJvmOf == [t \in {"a1", "a2", "b1"} |-> IF t = "b1" THEN "jvm_b" ELSE "jvm_a"]

ASSUME Conf!ConfigurationAssumption
ASSUME C!CAbiAssumption
ASSUME Go!GuestHostAssumption
ASSUME Php!PhpAssumption
ASSUME Body!BodyAssumption
ASSUME Command!CommandAssumption
ASSUME Ahead!PrecompileAssumption
ASSUME Cache!CacheAssumption
-----------------------------------------------------------------------------
\* A boundary that does not run has nothing made, answered or installed.
Unused == "unused"
NoC ==
    /\ strings = {} /\ out = [status |-> 0, json |-> 0] /\ response = 0
    /\ handle = Unused /\ clock = Unused /\ used = Unused /\ doc = Unused /\ returned = Unused
NoGo ==
    /\ misused = {} /\ goPc = [t \in Caller |-> "idle"] /\ goAnswer = [t \in Caller |-> Go!NoAnswer]
    /\ goVerifier = Unused /\ cClock = Unused /\ buffer = Unused /\ area = Unused /\ goClosed = Unused
    /\ big = Unused /\ made = Unused /\ pool = Unused /\ guest = Unused /\ request = Unused
NoPhp ==
    /\ phpAnswer = Php!NoAnswer
    /\ kind = Unused /\ config = Unused /\ aprv = Unused /\ maxInputBytes = Unused /\ rootsFile = Unused
    /\ phpPc = Unused /\ atOpen = Unused
NoBody ==
    /\ total = 0 /\ bodyAnswer = "none"
    /\ client = Unused /\ length = Unused /\ sent = Unused /\ announced = Unused /\ head = Unused
    /\ bodyPc = Unused /\ buf = Unused /\ close = Unused /\ status = Unused /\ result = Unused
NoCommand ==
    /\ cmd = Unused /\ full = Unused /\ component = Unused /\ cmdPc = Unused /\ stdin = Unused /\ max = Unused
    /\ given = Unused /\ stdout = Unused /\ cause = Unused /\ exit = Unused
NoAhead ==
    /\ binary = Ahead!None
    /\ file = Unused /\ manifest = Unused /\ job = Unused /\ building = Unused /\ builds = Unused
NoCache ==
    /\ target = "absent" /\ cachePc = [t \in Installers |-> "idle"] /\ temp = [t \in Installers |-> Cache!NoFile]
    /\ dir = Unused /\ monitor = Unused /\ fileLock = Unused /\ dead = Unused /\ tries = Unused
    /\ faults = Unused /\ changes = Unused /\ ran = [t \in Installers |-> "nothing"] /\ late = Unused
NoConfiguration ==
    /\ bundled = Unused /\ input = Unused /\ stage = "start" /\ roots = <<>> /\ anchors = <<>>

varsConf == <<bundled, input, stage, roots, anchors>>
varsC == <<handle, clock, strings, used, out, doc, response, returned>>
varsGo == <<goVerifier, cClock, buffer, area, goClosed, big, made, pool, misused, goPc, guest, request, goAnswer>>
varsPhp == <<kind, config, aprv, maxInputBytes, rootsFile, phpPc, phpAnswer, atOpen>>
varsBody == <<client, length, sent, announced, head, bodyPc, total, buf, close, status, bodyAnswer, result>>
varsCommand == <<cmd, full, component, cmdPc, stdin, max, given, stdout, cause, exit>>
varsAhead == <<file, manifest, job, building, builds, binary>>
varsCache == <<dir, target, temp, monitor, fileLock, dead, cachePc, tries, ran, late, faults, changes>>

BoundaryInit ==
    \/ boundary = "configuration" /\ Conf!Init /\ NoC /\ NoGo /\ NoPhp /\ NoBody /\ NoCommand /\ NoAhead /\ NoCache
    \/ boundary = "c_abi" /\ C!Init /\ NoConfiguration /\ NoGo /\ NoPhp /\ NoBody /\ NoCommand /\ NoAhead /\ NoCache
    \/ boundary = "go" /\ Go!Init /\ NoConfiguration /\ NoC /\ NoPhp /\ NoBody /\ NoCommand /\ NoAhead /\ NoCache
    \/ boundary = "php" /\ Php!Init /\ NoConfiguration /\ NoC /\ NoGo /\ NoBody /\ NoCommand /\ NoAhead /\ NoCache
    \/ boundary = "body" /\ Body!Init /\ NoConfiguration /\ NoC /\ NoGo /\ NoPhp /\ NoCommand /\ NoAhead /\ NoCache
    \/ boundary = "command" /\ Command!Init /\ NoConfiguration /\ NoC /\ NoGo /\ NoPhp /\ NoBody /\ NoAhead /\ NoCache
    \/ boundary = "precompile" /\ Ahead!Init /\ NoConfiguration /\ NoC /\ NoGo /\ NoPhp /\ NoBody /\ NoCommand /\ NoCache
    \/ boundary = "cache" /\ Cache!Init /\ NoConfiguration /\ NoC /\ NoGo /\ NoPhp /\ NoBody /\ NoCommand /\ NoAhead

BoundaryNext ==
    /\ UNCHANGED boundary
    /\ \/ boundary = "configuration" /\ Conf!Next /\ UNCHANGED <<varsC, varsGo, varsPhp, varsBody, varsCommand, varsAhead, varsCache>>
       \/ boundary = "c_abi" /\ C!Next /\ UNCHANGED <<varsConf, varsGo, varsPhp, varsBody, varsCommand, varsAhead, varsCache>>
       \/ boundary = "go" /\ Go!Next /\ UNCHANGED <<varsConf, varsC, varsPhp, varsBody, varsCommand, varsAhead, varsCache>>
       \/ boundary = "php" /\ Php!Next /\ UNCHANGED <<varsConf, varsC, varsGo, varsBody, varsCommand, varsAhead, varsCache>>
       \/ boundary = "body" /\ Body!Next /\ UNCHANGED <<varsConf, varsC, varsGo, varsPhp, varsCommand, varsAhead, varsCache>>
       \/ boundary = "command" /\ Command!Next /\ UNCHANGED <<varsConf, varsC, varsGo, varsPhp, varsBody, varsAhead, varsCache>>
       \/ boundary = "precompile" /\ Ahead!Next /\ UNCHANGED <<varsConf, varsC, varsGo, varsPhp, varsBody, varsCommand, varsCache>>
       \/ boundary = "cache" /\ Cache!Next /\ UNCHANGED <<varsConf, varsC, varsGo, varsPhp, varsBody, varsCommand, varsAhead>>

BoundarySpec ==
    BoundaryInit /\ [][BoundaryNext]_<<boundary, varsConf, varsC, varsGo, varsPhp, varsBody, varsCommand, varsAhead, varsCache>>
=============================================================================
