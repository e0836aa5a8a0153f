----------------------------- MODULE AprvCommand ------------------------------
(***************************************************************************)
(* One run of the aprv binary, from its command line to its exit status    *)
(* (rust/server/src/main.rs over runtime.rs): the one-shot verify commands,*)
(* info, precompile, and serve up to the line that says where it listens.  *)
(*                                                                         *)
(* The component is abstracted to what its init and its calls do, stdin to *)
(* its length; lengths are small numbers around the max_input_bytes the    *)
(* component states.  A fault is recorded in the history variable `cause`  *)
(* where it happens: that is what the exit status has to tell.             *)
(***************************************************************************)
EXTENDS Integers, FiniteSets

CONSTANTS
    MAX_DRAIN,     \* bytes the server reads of a body (16 MiB)
    Stated,        \* the max_input_bytes values a component may state
    Lengths        \* lengths of stdin

CommandAssumption == MAX_DRAIN \in Nat /\ Stated \subseteq Nat /\ Lengths \subseteq Nat

VARIABLES
    cmd,       \* the subcommand
    full,      \* whether this is the full build (feature `compile`)
    component, \* where the component comes from: "embedded", or --component's "file"
    pc,        \* the step the process is at
    stdin,     \* length of stdin
    max,       \* the max_input_bytes of the instance's init answer
    given,     \* how many bytes the module was given, -1 for no call
    out,       \* what is on stdout
    cause,     \* who is to blame for a failure: "nobody", "usage", "roots", "component", "host"
    exit       \* the exit status, -1 while the process runs

vars == <<cmd, full, component, pc, stdin, max, given, out, cause, exit>>

EXIT_OK == 0
EXIT_USAGE == 2
EXIT_TOO_LARGE == 3
EXIT_SOFTWARE == 70

OneShot == {"verify-receipt", "verify-signed-data", "verify-receipt-endpoint"}
Commands == OneShot \cup {"info", "precompile", "serve", "serve --managed"}

Serving == cmd \in {"serve", "serve --managed"}

Init ==
    /\ cmd \in Commands /\ full \in BOOLEAN /\ component \in {"embedded", "file"} /\ stdin \in Lengths
    /\ pc = "parse" /\ max = 0 /\ given = -1 /\ out = "nothing" /\ cause = "nobody" /\ exit = -1

Stays == UNCHANGED <<cmd, full, component, stdin>>

(***************************************************************************)
(* usage() and die(): a message on stderr and the status.                  *)
(***************************************************************************)
Ends(code, why, stdout) ==
    /\ pc' = "exited" /\ exit' = code /\ cause' = why /\ out' = stdout
    /\ Stays /\ UNCHANGED <<max, given>>

Goes(to) == pc' = to /\ Stays /\ UNCHANGED <<max, given, out, cause, exit>>

usage(why) == Ends(EXIT_USAGE, why, out)
die(why) == Ends(EXIT_SOFTWARE, why, out)

(***************************************************************************)
(* main: clap's errors are usage errors, but --help prints to stdout and   *)
(* is a result.  The values up_to() bounds are among the errors.           *)
(***************************************************************************)
parse ==
    /\ pc = "parse"
    /\ \/ usage("usage")
       \/ Ends(EXIT_OK, "nobody", "help")
       \/ cmd \in OneShot \cup {"serve"} /\ Goes("roots")
       \/ cmd = "serve --managed" /\ Goes("handshake")
       \/ cmd = "info" /\ Goes("load")
       \/ cmd = "precompile" /\ Goes("precompile")

precompile ==
    /\ pc = "precompile"
    /\ \/ ~full /\ die("host")
       \/ full /\ Ends(EXIT_OK, "nobody", "written")
       \/ full /\ \E why \in {"component", "host"} : die(why)

(***************************************************************************)
(* roots_from, and for serve token_from_file before it.                    *)
(***************************************************************************)
roots_from ==
    /\ pc = "roots"
    /\ \/ Goes("load")
       \/ usage("roots")
       \/ cmd = "serve" /\ usage("usage")

(***************************************************************************)
(* managed_handshake: two lines within their limits, a token long enough,  *)
(* roots that read; otherwise a message, status 2, and no address.         *)
(***************************************************************************)
managed_handshake ==
    /\ pc = "handshake"
    /\ \/ Goes("load")
       \/ \E why \in {"usage", "roots"} : usage(why)

(***************************************************************************)
(* Runtime::new: the engine, the embedded component, and the link against  *)
(* the interface.                                                          *)
(***************************************************************************)
Failed(why) ==
    IF cmd = "info" THEN Ends(EXIT_SOFTWARE, why, "error") ELSE die(why)

Runtime_new ==
    /\ component = "embedded"
    /\ \/ Goes("ready")
       \/ Failed("component")
       \/ Failed("host")

(***************************************************************************)
(* load_file: a runtime-only build refuses; the file has to be there, be a *)
(* .wasm and compile.                                                      *)
(***************************************************************************)
load_file ==
    /\ component = "file"
    /\ \/ full /\ Goes("ready")
       \/ full /\ Failed("component")
       \/ Failed("host")

load == pc = "load" /\ (Runtime_new \/ load_file)

(***************************************************************************)
(* The answer of the module's init, and what max_input_bytes reads in it.  *)
(***************************************************************************)
Answers == {[ok |-> FALSE]}
           \cup {[ok |-> TRUE, members |-> k, states |-> n] : k \in {1, 2, 3}, n \in Stated}

max_input_bytes(a) ==
    CASE ~a.ok -> "refused"
      [] a.ok /\ (a.states = 0 \/ a.members # 2 \/ a.states > MAX_DRAIN) -> "abi"
      [] OTHER -> "accepted"

(***************************************************************************)
(* The status of a start that init did not survive.  `ready` (one-shot)    *)
(* tells a refusal from a failure; info calls either an error; serve       *)
(* returns EXIT_USAGE for whatever Verifier::new reports.                  *)
(***************************************************************************)
InitFailed(why) ==
    \/ cmd = "info" /\ Ends(EXIT_SOFTWARE, IF why = "roots" THEN "component" ELSE why, "error")
    \/ cmd \in OneShot /\ (IF why = "roots" THEN usage(why) ELSE die(why))
    \/ Serving /\ usage(why)

InitProblems ==
    {"component", "host"}                       \* a trap; an instance that could not be made
    \cup {IF max_input_bytes(a) = "refused" THEN "roots" ELSE "component" :
          a \in {x \in Answers : max_input_bytes(x) # "accepted"}}

ready ==
    /\ pc = "ready"
    /\ \/ \E why \in InitProblems : InitFailed(why)
       \/ \E a \in {x \in Answers : max_input_bytes(x) = "accepted"} :
            /\ max' = a.states
            /\ \/ cmd \in OneShot /\ pc' = "read" /\ UNCHANGED <<out, exit>>
               \/ cmd = "info" /\ pc' = "exited" /\ out' = "info" /\ exit' = EXIT_OK
               \/ Serving /\ pc' = "bind" /\ UNCHANGED <<out, exit>>
            /\ Stays /\ UNCHANGED <<given, cause>>

(***************************************************************************)
(* read_input: at most max bytes of stdin; that many or more is over the   *)
(* module's cap, which is one less.                                        *)
(***************************************************************************)
took_one_less(n, cap) == IF n < cap - 1 THEN n ELSE cap - 1
took(n, cap) == IF n < cap THEN n ELSE cap
over(n, cap) == took(n, cap) >= cap

read_input ==
    /\ pc = "read"
    /\ \/ die("host")
       \/ /\ given' = took(stdin, max) /\ pc' = "answer"
          /\ Stays /\ UNCHANGED <<max, out, cause, exit>>

(***************************************************************************)
(* answer: the call, its JSON on stdout, the status.                       *)
(***************************************************************************)
answer ==
    /\ pc = "answer"
    /\ \/ die("component")
       \/ Ends(EXIT_SOFTWARE, "host", "cut short")
       \/ Ends(IF over(stdin, max) THEN EXIT_TOO_LARGE ELSE EXIT_OK, "nobody", "answer")

(***************************************************************************)
(* serve: the tokio runtime, the listener and its address, then one line   *)
(* on stdout.  It ends with http::serve (AprvServer), with status 0.       *)
(***************************************************************************)
bind ==
    /\ pc = "bind"
    /\ \/ die("host")
       \/ /\ pc' = "listening" /\ out' = "address"
          /\ Stays /\ UNCHANGED <<max, given, cause, exit>>

shutdown == pc = "listening" /\ Ends(EXIT_OK, "nobody", out)

Next ==
    \/ parse \/ precompile \/ roots_from \/ managed_handshake \/ load \/ ready
    \/ read_input \/ answer \/ bind \/ shutdown

Spec == Init /\ [][Next]_vars
-----------------------------------------------------------------------------
(***************************************************************************)
(* What a script may conclude from the status of a one-shot command: 0     *)
(* means that stdout holds the module's answer to the whole of stdin, 3    *)
(* that it holds the module's answer to an input over its cap, cut where   *)
(* the module still sees that it is over; any other status that stdout     *)
(* holds no complete answer.  2 is the caller's mistake, 70 is not.        *)
(***************************************************************************)
StatusTellsWhatStdoutHolds ==
    cmd \in OneShot /\ pc = "exited" /\ out # "help" =>
        /\ (exit = EXIT_OK) <=> (out = "answer" /\ given = stdin /\ given <= max - 1)
        /\ (exit = EXIT_TOO_LARGE) <=> (out = "answer" /\ given > max - 1)
        /\ (exit = EXIT_USAGE) <=> cause \in {"usage", "roots"}
        /\ (exit = EXIT_SOFTWARE) <=> cause \in {"component", "host"}
=============================================================================
