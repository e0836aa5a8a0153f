----------------------------- MODULE Boundaries -----------------------------
(***************************************************************************)
(* The boundaries a call or a setting crosses on its way to the core:      *)
(* configured roots, the C ABI, Go's host of the guest, PHP's transports,  *)
(* the request body of `aprv serve`, the one-shot commands, the code       *)
(* compiled ahead of time and the installed binary.  They share no state:  *)
(* each has its own variables here, so that one can run while the others   *)
(* stand still.                                                            *)
(***************************************************************************)
CONSTANTS
    Readable, AppleRoots, BundledFiles, Inputs,                                \* Configuration
    AbiInputs, Instants, AbiCore(_, _, _), Environments, MaxStrings,           \* CAbi
    Caller, Instance, Nobody, GoLengths, Clock,                                \* GuestHost
    MAX_REQUEST_BYTES, MAX_RECEIPT_BYTES, MAX_JWS_BYTES,
    Cert, Apple, NoCert, Caps, PhpLengths,                                     \* PhpTransport
    MaxInput, MaxFrame, BodyTexts, Bodies, BODY_DRAIN,                         \* RequestBody
    MAX_DRAIN, Stated, StdinLengths,                                           \* AprvCommand
    Jobs, Components, Targets, Versions, Features, MaxBuilds,                 \* Precompile
    Installers, JvmOf, MaxFaults, MaxChanges, MaxTries                         \* BinaryCache

VARIABLES
    bundled, input, stage, roots, anchors,                                     \* Configuration
    handle, clock, strings, used, out, doc, response, returned,                \* CAbi
    goVerifier, cClock, buffer, area, goClosed, big, made, pool, misused, goPc, guest, request, goAnswer,   \* GuestHost
    kind, config, aprv, maxInputBytes, rootsFile, phpPc, phpAnswer, atOpen,   \* PhpTransport
    client, length, sent, announced, head, bodyPc, total, buf, close, status, bodyAnswer, result,   \* RequestBody
    cmd, full, component, cmdPc, stdin, max, given, stdout, cause, exit,       \* AprvCommand
    file, manifest, job, building, builds, binary,                             \* Precompile
    dir, target, temp, monitor, fileLock, dead, cachePc, tries, ran, late, faults, changes   \* BinaryCache

Conf == INSTANCE Configuration
C == INSTANCE CAbi WITH Inputs <- AbiInputs, Core <- AbiCore
Go == INSTANCE GuestHost WITH
    Lengths <- GoLengths, verifier <- goVerifier, closed <- goClosed, pc <- goPc, answer <- goAnswer
Php == INSTANCE PhpTransport WITH
    Junk <- NoCert, Lengths <- PhpLengths, pc <- phpPc, answer <- phpAnswer
Body == INSTANCE RequestBody WITH
    Texts <- BodyTexts, MAX_DRAIN <- BODY_DRAIN, pc <- bodyPc, answer <- bodyAnswer
Command == INSTANCE AprvCommand WITH Lengths <- StdinLengths, pc <- cmdPc, out <- stdout
Ahead == INSTANCE Precompile
Cache == INSTANCE BinaryCache WITH Threads <- Installers, pc <- cachePc
-----------------------------------------------------------------------------
(* Whichever way roots are given, a verifier trusts exactly the            *)
(* certificates named, in order, or the bundled ones when none was named   *)
(* (Config::builder, aprv_verifier_new, init, Roots::from_files).          *)
TrustsExactlyTheNamed == Conf!TrustsExactlyTheNamed

(* rust/ffi: every string made and not freed is in exactly one of the C    *)
(* caller's pointers, and the document in out->json belongs to             *)
(* out->status, over any sequence of calls, panics included.               *)
HandedOverOnce == C!HandedOverOnce

(* go: a goroutine gets the core's answer to its own whole input at the    *)
(* instant it read, although the host cuts inputs and instances are shared.*)
AnswerIsForTheWholeInput == Go!AnswerIsForTheWholeInput

(* go: no verify reaches an instance of the guest before its init and no   *)
(* init a second time, which would trap (abi lib.rs).                      *)
NeverOutOfOrder == Go!NeverOutOfOrder

(* php: a judgement is made under the Config's roots, whatever became of   *)
(* the roots file, unless a server restarted with others made it; and of   *)
(* the whole input, unless an aprv put in place later takes more than the  *)
(* one that stated the limit.                                              *)
JudgedAsAsked == Php!JudgedAsAsked

(* http.rs read_capped: a connection kept open was read to the body's end, *)
(* and java-wasm never loses its connection to an input's size.            *)
KeptConnectionIsInStep == Body!KeptConnectionIsInStep

(* server main.rs: the status of a one-shot command tells whether stdout   *)
(* holds the module's answer to the whole of stdin, and who is to blame    *)
(* when it does not.                                                       *)
StatusTellsWhatStdoutHolds == Command!StatusTellsWhatStdoutHolds

(* precompile, build.rs, runtime.rs: the component `aprv info` reports is  *)
(* the one its embedded code was compiled from, unless that file was       *)
(* written again after build.rs read it; it is for this target and engine. *)
ReportedIsRunning == Ahead!ReportedIsRunning

(* java-wasm ServerBinary: bytes that do not hash to the pin are never     *)
(* made executable, and are started only when the file changed between a   *)
(* start's own check and the start; the binary is fetched by one thread at *)
(* a time and only while it is missing.                                    *)
OnlyPinnedIsExecutable == Cache!OnlyPinnedIsExecutable
=============================================================================
