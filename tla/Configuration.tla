--------------------------- MODULE Configuration ---------------------------
(***************************************************************************)
(* How a caller's roots become the anchors a verifier trusts, through each *)
(* of the ways in: the Rust builder (config.rs, roots.rs), the C ABI's     *)
(* aprv_verifier_new, the init of aprv.wasm (wire and surface), and the    *)
(* server, which reads --roots files or the managed roots line itself,     *)
(* hands the result to init and reports its fingerprints.                  *)
(*                                                                         *)
(* Bytes are records. form "der" is what starts with 0x30: a certificate   *)
(* cert, whole unless bytes follow it. form "pem" is what starts with      *)
(* -----BEGIN: its items. form "none" does not decode from base64 or is    *)
(* empty, form "other" is anything else. An item of a text is a block with *)
(* its tag and bytes, a broken block, a base64 line with its bytes, a line *)
(* that is not base64, or a comment.                                       *)
(***************************************************************************)
EXTENDS Naturals, Sequences, SequencesExt

CONSTANTS
    Readable,     \* certificates a strict reader decodes
    AppleRoots,   \* the three published roots, in order: certificates
    BundledFiles, \* what certs/ may hold at build time: sequences of bytes
    Inputs        \* the configurations: [entry |-> ..., arg |-> ...]

VARIABLES
    bundled,  \* what was compiled in
    input,    \* the caller's configuration
    stage,    \* "start", "init" (the server calls init), "made" or "refused"
    roots,    \* the server's Roots: <<>> is Defaults
    anchors   \* what the verifier trusts: the DER of each anchor

vars == <<bundled, input, stage, roots, anchors>>

(* The shapes of what callers give: a text is a sequence of items, and one *)
(* that starts with -----BEGIN has an item; three texts may be nested. A C *)
(* caller's count is that of its entries.                                  *)
IsSequence(s) == s \in Seq({s[i] : i \in DOMAIN s})
IsText(b) ==
    /\ b.form \in {"pem", "text"} => IsSequence(b.items)
    /\ b.form = "pem" => b.items # <<>>
Inside(b) ==
    IF b.form \in {"pem", "text"}
    THEN {b.items[i].bytes : i \in {j \in DOMAIN b.items : b.items[j].kind \in {"block", "line"}}}
    ELSE {}
IsBytes(b) == IsText(b) /\ \A c \in Inside(b) : IsText(c) /\ \A d \in Inside(c) : IsText(d)
AreBytes(s) == IsSequence(s) /\ \A i \in DOMAIN s : IsBytes(s[i])
ConfigurationAssumption ==
    /\ IsSequence(AppleRoots) /\ AppleRoots # <<>>
    /\ \A given \in Inputs :
        /\ given.entry \in {"default", "rust", "c_abi", "wasm", "files", "managed"}
        /\ given.entry \in {"rust", "files"} => AreBytes(given.arg)
        /\ given.entry = "c_abi" =>
             /\ IsSequence(given.arg.entries) /\ given.arg.count = Len(given.arg.entries)
             /\ \A i \in DOMAIN given.arg.entries : IsBytes(given.arg.entries[i].bytes)
        /\ given.entry \in {"wasm", "managed"} =>
             IsSequence(given.arg.named) /\ \A i \in DOMAIN given.arg.named : AreBytes(given.arg.named[i].entries)

Der(c) == [form |-> "der", cert |-> c, whole |-> TRUE]

(* A Result: the roots read, or a refusal *)
Accepted(s) == [ok |-> TRUE, roots |-> s]
Refused == [ok |-> FALSE, roots |-> <<>>]
Gathered(results) ==
    IF \A i \in DOMAIN results : results[i].ok
    THEN Accepted(FlattenSeq([i \in DOMAIN results |-> results[i].roots]))
    ELSE Refused
-----------------------------------------------------------------------------
(* The core: roots.rs and config.rs *)

(* One value, and no byte after it *)
d2i_whole(b) == b.form = "der" /\ b.whole

Certificate_from_der(b) == d2i_whole(b) /\ b.cert \in Readable

from_der(b) == IF Certificate_from_der(b) THEN Accepted(<<b>>) ELSE Refused

(* OpenSSL passes over text and over blocks that hold no certificate *)
IsCertificateBlock(item) ==
    \/ item.kind = "broken"
    \/ item.kind = "block" /\ item.tag \in {"CERTIFICATE", "X509 CERTIFICATE"}

(* A block that OpenSSL cannot decode refuses the text; bytes after the    *)
(* certificate inside a block are dropped                                  *)
BlockCertificate(item) ==
    IF item.kind = "block" /\ item.bytes.form = "der"
    THEN from_der(Der(item.bytes.cert))
    ELSE Refused

all_from_pem(b) ==
    Gathered([i \in DOMAIN b.items |->
                IF IsCertificateBlock(b.items[i]) THEN BlockCertificate(b.items[i]) ELSE Accepted(<<>>)])

from_der_or_pem(b) ==
    LET pem == all_from_pem(b)
    IN CASE b.form = "der" -> from_der(b)
         [] b.form = "pem" /\ pem.roots # <<>> -> pem
         [] OTHER -> Refused

(* Every bundled file must match its published SHA-256; one that does not  *)
(* empties the set                                                         *)
load_roots ==
    IF bundled = [i \in DOMAIN AppleRoots |-> Der(AppleRoots[i])]
    THEN Gathered([i \in DOMAIN bundled |-> from_der(bundled[i])]).roots
    ELSE <<>>

(* A slip: an empty set taken for "not set" *)
build_lenient(given, set) ==
    LET all == IF given /\ set # <<>> THEN set ELSE load_roots
    IN IF all = <<>> THEN Refused ELSE Accepted(all)

(* ConfigBuilder::build, with the roots set or not *)
build(given, set) ==
    LET all == IF given THEN set ELSE load_roots
    IN IF all = <<>> THEN Refused ELSE Accepted(all)
-----------------------------------------------------------------------------
(* The boundaries: the surface, the init of aprv.wasm and the C ABI *)

(* Verifier::new of the surface: an empty list means the Apple roots *)
Verifier_new(list) ==
    LET read == Gathered([i \in DOMAIN list |-> from_der_or_pem(list[i])])
    IN IF list = <<>> THEN build(FALSE, <<>>)
       ELSE IF read.ok THEN build(TRUE, read.roots)
       ELSE Refused

(* init's argument: blank, not a JSON object, or an object that names      *)
(* "roots" some number of times, perhaps beside other members              *)
Object(values) == [text |-> "object", other |-> FALSE, named |-> values]

read_init_config(c) ==
    IF c.text = "blank" THEN Accepted(<<>>)
    ELSE IF c.text # "object" \/ Len(c.named) > 1 \/ c.other THEN Refused
    ELSE IF c.named = <<>> THEN Accepted(<<>>)
    ELSE IF \/ ~ c.named[1].list
            \/ c.named[1].entries = <<>>
            \/ \E i \in DOMAIN c.named[1].entries : c.named[1].entries[i].form = "none"
         THEN Refused
    ELSE Accepted(c.named[1].entries)

(* The C arguments: an array of pointers, an array of lengths, a count *)
anchors_of(a) ==
    IF a.count = 0
    THEN IF a.ders = "null" /\ a.lens = "null" THEN Accepted(<<>>) ELSE Refused
    ELSE IF \/ a.ders = "null" \/ a.lens = "null" \/ a.huge
            \/ \E i \in DOMAIN a.entries : a.entries[i].null \/ a.entries[i].huge
         THEN Refused
    ELSE Accepted([i \in DOMAIN a.entries |-> a.entries[i].bytes])
-----------------------------------------------------------------------------
(* The server: roots.rs *)

certificate(item) ==
    IF item.tag = "CERTIFICATE" /\ item.bytes.form # "none" THEN Accepted(<<item.bytes>>) ELSE Refused

(* PEM bytes inside a line: blocks only *)
block_root(item) == IF item.kind = "block" THEN certificate(item) ELSE Refused

root(b) ==
    CASE b.form = "none" -> Refused
      [] b.form = "pem" -> Gathered([i \in DOMAIN b.items |-> block_root(b.items[i])])
      [] OTHER -> Accepted(<<b>>)

line_roots(item) ==
    CASE item.kind = "block" -> certificate(item)
      [] item.kind = "line" -> root(item.bytes)
      [] item.kind = "comment" -> Accepted(<<>>)
      [] OTHER -> Refused

from_file_text(items) ==
    LET read == Gathered([i \in DOMAIN items |-> line_roots(items[i])])
    IN IF read.roots = <<>> THEN Refused ELSE read

from_file(file) ==
    CASE file.form = "der" -> Accepted(<<file>>)
      [] file.form = "text" -> from_file_text(file.items)
      [] OTHER -> Refused

from_files(files) == Gathered([i \in DOMAIN files |-> from_file(files[i])])

(* The managed roots line: serde keeps the last of members named alike *)
from_config_json(c) ==
    IF c.text # "object" \/ c.other THEN Refused
    ELSE IF c.named = <<>> THEN Accepted(<<>>)
    ELSE IF ~ Last(c.named).list \/ Last(c.named).entries = <<>> THEN Refused
    ELSE Gathered([i \in DOMAIN Last(c.named).entries |-> root(Last(c.named).entries[i])])

config_json(r) ==
    IF r = <<>> THEN Object(<<>>) ELSE Object(<<[list |-> TRUE, entries |-> r]>>)

(* What /v1/info reports: a fingerprint stands for the bytes it is over *)
fingerprints ==
    IF roots = <<>> THEN [i \in DOMAIN AppleRoots |-> Der(AppleRoots[i])] ELSE roots
-----------------------------------------------------------------------------
Init ==
    /\ bundled \in BundledFiles
    /\ input \in Inputs
    /\ stage = "start"
    /\ roots = <<>>
    /\ anchors = <<>>

Make(made) ==
    /\ stage' = IF made.ok THEN "made" ELSE "refused"
    /\ anchors' = made.roots
    /\ UNCHANGED <<bundled, input, roots>>

Entry(e) == stage = "start" /\ input.entry = e

(* Config::default cannot fail: its verifier may have no anchor *)
Config_default ==
    /\ Entry("default")
    /\ Make(Accepted(load_roots))

(* Each entry through from_der_or_pem, all of them to the builder *)
Builder ==
    /\ Entry("rust")
    /\ LET read == Gathered([i \in DOMAIN input.arg |-> from_der_or_pem(input.arg[i])])
       IN Make(IF read.ok THEN build(TRUE, read.roots) ELSE Refused)

aprv_verifier_new ==
    /\ Entry("c_abi")
    /\ LET read == anchors_of(input.arg)
       IN Make(IF read.ok THEN Verifier_new(read.roots) ELSE Refused)

init(config) ==
    LET read == read_init_config(config)
    IN Make(IF read.ok THEN Verifier_new(read.roots) ELSE Refused)

Guest_init == Entry("wasm") /\ init(input.arg)

Serve ==
    /\ Entry("files") \/ Entry("managed")
    /\ LET read == IF input.entry = "files" THEN from_files(input.arg) ELSE from_config_json(input.arg)
       IN /\ roots' = read.roots
          /\ stage' = IF read.ok THEN "init" ELSE "refused"
    /\ UNCHANGED <<bundled, input, anchors>>

Server_init == stage = "init" /\ init(config_json(roots))

Next == Config_default \/ Builder \/ aprv_verifier_new \/ Guest_init \/ Serve \/ Server_init

Spec == Init /\ [][Next]_vars
-----------------------------------------------------------------------------
(* The certificates a human reads in bytes, whoever decodes them: a PEM    *)
(* text names what its certificate blocks hold, wherever it was found      *)
IsCertificateOf(item, form) ==
    item.kind = "block" /\ item.tag \in {"CERTIFICATE", "X509 CERTIFICATE"} /\ item.bytes.form = form

InBlock(item) ==
    LET Inner(i) == IF IsCertificateOf(i, "der") THEN <<i.bytes.cert>> ELSE <<>>
    IN IF IsCertificateOf(item, "pem")
       THEN FlattenSeq([i \in DOMAIN item.bytes.items |-> Inner(item.bytes.items[i])])
       ELSE Inner(item)

InPem(b) == FlattenSeq([i \in DOMAIN b.items |-> InBlock(b.items[i])])

InLine(item) ==
    CASE item.kind = "line" /\ item.bytes.form = "der" -> <<item.bytes.cert>>
      [] item.kind = "line" /\ item.bytes.form = "pem" -> InPem(item.bytes)
      [] OTHER -> InBlock(item)

CertificatesIn(b) ==
    CASE b.form = "der" -> <<b.cert>>
      [] b.form = "pem" -> InPem(b)
      [] b.form = "text" -> FlattenSeq([i \in DOMAIN b.items |-> InLine(b.items[i])])
      [] OTHER -> <<>>

(* The bytes a configuration names, and whether it names any root at all *)
NamedBytes ==
    CASE input.entry = "default" -> <<>>
      [] input.entry = "c_abi" -> [i \in DOMAIN input.arg.entries |-> input.arg.entries[i].bytes]
      [] input.entry \in {"wasm", "managed"} ->
            IF input.arg.text = "object" /\ input.arg.named # <<>> THEN Last(input.arg.named).entries ELSE <<>>
      [] OTHER -> input.arg

NamesRoots ==
    CASE input.entry = "default" -> FALSE
      [] input.entry = "rust" -> TRUE
      [] input.entry = "c_abi" -> input.arg.count # 0
      [] input.entry \in {"wasm", "managed"} -> input.arg.text = "object" /\ input.arg.named # <<>>
      [] OTHER -> input.arg # <<>>

CertificateSequence(s) == [i \in DOMAIN s |-> s[i].cert]

(* A verifier trusts exactly what its caller named: the bundled Apple roots,  *)
(* all of them, when the caller named no root, and otherwise every            *)
(* certificate of every entry, in order, readable, and nothing else. A root   *)
(* set that came up empty, and a bundle that did not load whole, never turns  *)
(* into other anchors (config.rs build, roots.rs load_roots, wire             *)
(* read_init_config, ffi anchors_of, server roots.rs). What /v1/info          *)
(* fingerprints is what init anchors, except for a PEM text inside a PEM      *)
(* block: roots.rs unwraps one layer only, so init is given PEM, anchors what *)
(* is in it, and the fingerprint is that of the text.                         *)
TrustsExactlyTheNamed ==
    stage = "made" =>
        /\ IF NamesRoots
           THEN /\ anchors # <<>>
                /\ CertificateSequence(anchors) =
                       FlattenSeq([i \in DOMAIN NamedBytes |-> CertificatesIn(NamedBytes[i])])
                /\ \A i \in DOMAIN anchors : anchors[i].cert \in Readable
           ELSE \/ CertificateSequence(anchors) = AppleRoots
                \/ anchors = <<>> /\ input.entry = "default"
        /\ input.entry \in {"files", "managed"} =>
              (fingerprints = anchors <=> \A i \in DOMAIN fingerprints : fingerprints[i].form = "der")
=============================================================================
