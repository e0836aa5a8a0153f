--------------------------- MODULE PhpTransport ---------------------------
(***************************************************************************)
(* The PHP package: a Verifier over the CLI transport, one aprv process    *)
(* per call, or over the HTTP transport, an aprv server somebody else runs.*)
(* Both read the input limit when they are opened and cut every later      *)
(* input at it; the CLI passes the roots with each call in a file, the     *)
(* HTTP transport compares the server's roots with its own, once.          *)
(* Around a Verifier the world moves: a server is restarted, a binary is   *)
(* installed again, a temporary file is cleaned away.                      *)
(*                                                                         *)
(* An input is its length, and a judgement is the length judged and the    *)
(* anchors it was judged under.                                            *)
(***************************************************************************)
EXTENDS Integers, FiniteSets

CONSTANTS
    Cert,     \* certificates a Config may name, Apple and Junk among them
    Apple,    \* the built-in roots
    Junk,     \* bytes that are no certificate
    Caps,     \* the input caps of the versions of aprv there are
    Lengths   \* input lengths, some over every cap

PhpAssumption == Apple # Junk /\ {Apple, Junk} \subseteq Cert /\ Caps \cup Lengths \subseteq Nat

VARIABLES
    kind,           \* "cli" or "http"
    config,         \* the Config's roots: null (given is FALSE), or entries
    aprv,           \* what answers: its cap, and a server's roots and their source
    maxInputBytes,  \* what info stated when the transport was opened
    rootsFile,      \* whether the roots file is there
    pc,             \* where create or the Verifier is
    answer,         \* the last call's; history: its input's length, and by whom
    atOpen          \* history: the aprv that was asked when the transport opened

vars == <<kind, config, aprv, maxInputBytes, rootsFile, pc, answer, atOpen>>

Entry == [form : {"der", "pem"}, cert : Cert]
Config == {[given |-> FALSE, entries |-> {}]}
          \cup {[given |-> TRUE, entries |-> E] : E \in SUBSET Entry}
Served == [source : {"defaults"}, roots : {{Apple}}, cap : Caps]
          \cup [source : {"configured"}, roots : SUBSET (Cert \ {Junk}) \ {{}}, cap : Caps]

Anchors(c) == IF c.given THEN {e.cert : e \in c.entries} ELSE {Apple}
NoAprv == [source |-> "none", roots |-> {}, cap |-> 0]
NoAnswer == [kind |-> "none", roots |-> {}, length |-> 0, input |-> 0, by |-> NoAprv]
Fault(n) == [NoAnswer EXCEPT !.kind = "internal", !.input = n]

Init ==
    /\ kind \in {"cli", "http"}
    /\ config = [given |-> FALSE, entries |-> {}]
    /\ aprv \in Served
    /\ kind = "cli" => aprv.source = "defaults"
    /\ maxInputBytes = 0 /\ rootsFile = FALSE /\ atOpen = NoAprv
    /\ pc = "new"
    /\ answer = NoAnswer

world == <<kind, aprv>>
-----------------------------------------------------------------------------
(* Verifier::create refuses an empty list before the transport sees it *)
create(c) ==
    /\ pc = "new"
    /\ c.given => c.entries # {}
    /\ config' = c
    /\ pc' = "open"
    /\ UNCHANGED <<world, maxInputBytes, rootsFile, answer, atOpen>>

(* An exception of open: no Verifier, and the transport's destructor *)
Refuse == pc' = "new" /\ rootsFile' = FALSE /\ maxInputBytes' = 0 /\ atOpen' = NoAprv

(* Info: the limits.max_input_bytes of `aprv info` and of GET /v1/info *)
stated == aprv.cap + 1

(* CliTransport::open, `aprv info`; no binary, another ABI, no limit or a  *)
(* process that failed is an exception                                     *)
CliInfo ==
    /\ kind = "cli" /\ pc = "open"
    /\ \/ Refuse
       \/ /\ maxInputBytes' = stated /\ atOpen' = aprv
          /\ pc' = IF config.given THEN "writeRoots" ELSE "ready"
          /\ UNCHANGED rootsFile
    /\ UNCHANGED <<world, config, answer>>

writeRoots ==
    /\ pc = "writeRoots"
    /\ \/ Refuse
       \/ rootsFile' = TRUE /\ pc' = "probe" /\ UNCHANGED <<maxInputBytes, atOpen>>
    /\ UNCHANGED <<world, config, answer>>

(* A slip: without its file, a call is made without --roots *)
rootsArguments_lenient == IF rootsFile THEN Anchors(config) ELSE {Apple}
(* --roots FILE once the file was written, there or not; aprv exits with 2 *)
(* when it is not, or holds no certificate. {} is that exit.               *)
rootsArguments ==
    IF ~config.given THEN {Apple}
    ELSE IF rootsFile /\ Junk \notin Anchors(config) THEN Anchors(config) ELSE {}

(* A verification of no input, which a root the module refuses fails *)
probe ==
    /\ pc = "probe"
    /\ \/ Refuse
       \/ rootsArguments # {} /\ pc' = "ready" /\ UNCHANGED <<rootsFile, maxInputBytes, atOpen>>
    /\ UNCHANGED <<world, config, answer>>

(* HttpTransport::checkRoots: the Config's entries are hashed as they were *)
(* given, the server reports the hash of each certificate's DER            *)
checkRoots ==
    IF config.given
    THEN /\ aprv.source = "configured"
         /\ config.entries = {[form |-> "der", cert |-> r] : r \in aprv.roots}
    ELSE aprv.source = "defaults"

(* HttpTransport::open: GET /v1/info *)
HttpOpen ==
    /\ kind = "http" /\ pc = "open"
    /\ \/ Refuse
       \/ checkRoots /\ maxInputBytes' = stated /\ atOpen' = aprv /\ pc' = "ready" /\ UNCHANGED rootsFile
    /\ UNCHANGED <<world, config, answer>>

cut(n) == IF n > maxInputBytes THEN maxInputBytes ELSE n

(* The module's answer: 413 or exit 3 over its cap, else its judgement *)
Judge(roots, sent, n) ==
    IF sent > aprv.cap THEN [NoAnswer EXCEPT !.kind = "too_large", !.input = n]
    ELSE [kind |-> "judged", roots |-> roots, length |-> sent, input |-> n, by |-> aprv]

(* CliTransport::call: a process that cannot start, outlives its timeout,  *)
(* is killed or exits with anything but 0 and 3 is an exception            *)
CliCall(n) ==
    kind = "cli" /\ rootsArguments # {} /\ answer' = Judge(rootsArguments, cut(n), n)

(* HttpTransport::call: no answer or a problem document is an exception *)
HttpCall(n) ==
    kind = "http" /\ answer' = Judge(aprv.roots, cut(n), n)

(* The verify methods: a clock that fails or is before 1970, an exception  *)
(* of the transport, or an answer that cannot be read is INTERNAL_ERROR    *)
verify(n) ==
    /\ pc = "ready"
    /\ CliCall(n) \/ HttpCall(n) \/ answer' = Fault(n)
    /\ UNCHANGED <<world, config, maxInputBytes, rootsFile, pc, atOpen>>

(* The Verifier is destroyed and with it the roots file *)
destruct ==
    /\ pc = "ready"
    /\ Refuse
    /\ answer' = NoAnswer
    /\ UNCHANGED <<world, config>>
-----------------------------------------------------------------------------
(* The server is started again with other roots or in another version;     *)
(* aprv-install puts another version in place                              *)
Replaced(a) ==
    /\ kind = "cli" => a.source = "defaults"
    /\ a # aprv
    /\ aprv' = a
    /\ UNCHANGED <<kind, config, maxInputBytes, rootsFile, pc, answer, atOpen>>

(* The file goes before its Verifier does: a cleaner of /tmp, or a forked  *)
(* child that ended and ran the same destructor                            *)
FileLost ==
    /\ rootsFile
    /\ rootsFile' = FALSE
    /\ UNCHANGED <<world, config, maxInputBytes, pc, answer, atOpen>>

Next ==
    \/ \E c \in Config : create(c)
    \/ CliInfo \/ writeRoots \/ probe \/ HttpOpen
    \/ \E n \in Lengths : verify(n)
    \/ destruct
    \/ \E a \in Served : Replaced(a)
    \/ FileLost

Spec == Init /\ [][Next]_vars
-----------------------------------------------------------------------------
(* A judgement is made under the Config's roots: over the CLI whatever     *)
(* became of the roots file or of the binary, over HTTP unless the server  *)
(* that made it has other roots than the one whose roots were compared. It *)
(* is of the whole input: only an aprv with a larger cap than the one that *)
(* stated the limit judges a part, and then all that the limit lets by.    *)
JudgedAsAsked ==
    answer.kind = "judged" =>
        /\ answer.roots = Anchors(config) \/ (kind = "http" /\ answer.by.roots # atOpen.roots)
        /\ answer.length = answer.input
           \/ (answer.by.cap > atOpen.cap /\ answer.length = atOpen.cap + 1)
=============================================================================
