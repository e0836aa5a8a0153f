------------------------------ MODULE Precompile ------------------------------
(***************************************************************************)
(* How a precompiled component comes to run inside the aprv binary:        *)
(* `aprv precompile` writes OUT.ccwasm and then its manifest OUT.ccwasm.   *)
(* json (runtime.rs, manifest.rs); the build script checks the pair and    *)
(* generates an include_bytes! of the path (build.rs); the compiler reads  *)
(* the path for itself; the binary checks what it embeds before it runs it *)
(* (runtime.rs, load_embedded).  Several precompile processes may write    *)
(* the same path, and each may die between its writes or inside one.       *)
(*                                                                         *)
(* A file's contents stand for themselves, so SHA-256 is the identity.     *)
(***************************************************************************)
EXTENDS Naturals

CONSTANTS
    Jobs,          \* precompile processes, one use each
    Components,    \* component .wasm files
    Targets,       \* target triples
    Versions,      \* of Wasmtime
    Features,      \* what a build compiles in of them
    MaxBuilds      \* bound: how many builds run

PrecompileAssumption == MaxBuilds \in Nat

VARIABLES
    file,      \* the contents of OUT.ccwasm
    manifest,  \* the contents of OUT.ccwasm.json
    job,       \* job -> its step and the code it compiled
    building,  \* the build under way: step, target, engine, what it read and generated;
               \* history: rewritten, whether OUT.ccwasm was written after it was read
    builds,    \* how many builds have started
    binary     \* the binary of the last build that succeeded, and what starting it gave

Engines == Versions \X Features

vars == <<file, manifest, job, building, builds, binary>>

None == [is |-> "none"]
Partial == [is |-> "partial"]
Wasm(c) == [is |-> "wasm", component |-> c]
Code(c, t, e) == [is |-> "code", component |-> c, target |-> t, engine |-> e]

Codes == {Code(c, t, e) : c \in Components, t \in Targets, e \in Engines}

(***************************************************************************)
(* The manifest: what it was compiled from, the hash of the code, target   *)
(* and engine (version and features together).                             *)
(***************************************************************************)
Manifest(code) ==
    [component_sha256 |-> code.component, ccwasm_sha256 |-> code,
     target |-> code.target, engine |-> code.engine]

Idle == [step |-> "idle"]

(***************************************************************************)
(* The path may hold a plain .wasm somebody copied there, or nothing.      *)
(***************************************************************************)
Init ==
    /\ file \in {None} \cup {Wasm(c) : c \in Components}
    /\ manifest = None
    /\ job = [j \in Jobs |-> [step |-> "new"]]
    /\ building = Idle
    /\ builds = 0
    /\ binary = None

(***************************************************************************)
(* History: a build under way has read another file than the one there is. *)
(***************************************************************************)
Rewritten == IF building = Idle THEN Idle ELSE [building EXCEPT !.rewritten = TRUE]

(***************************************************************************)
(* precompile: read the component, compile it for an explicit target with  *)
(* this engine's settings.  A file that is no .wasm, a target or a         *)
(* component the engine refuses ends the process before it wrote anything. *)
(***************************************************************************)
Compile(j) ==
    /\ job[j].step = "new"
    /\ \/ \E c \in Codes : job' = [job EXCEPT ![j] = [step |-> "write", code |-> c]]
       \/ job' = [job EXCEPT ![j] = [step |-> "failed"]]
    /\ UNCHANGED <<file, manifest, building, builds, binary>>

WriteCode(j) ==
    /\ job[j].step = "write"
    /\ file' = job[j].code /\ building' = Rewritten
    /\ job' = [job EXCEPT ![j].step = "manifest"]
    /\ UNCHANGED <<manifest, builds, binary>>

WriteManifest(j) ==
    /\ job[j].step = "manifest"
    /\ manifest' = Manifest(job[j].code)
    /\ job' = [job EXCEPT ![j].step = "done"]
    /\ UNCHANGED <<file, building, builds, binary>>

(***************************************************************************)
(* The process dies: between its two writes, or inside one, which leaves   *)
(* that file cut short (fs::write truncates the path and then writes).     *)
(***************************************************************************)
Die(j) ==
    /\ job[j].step \in {"write", "manifest"}
    /\ job' = [job EXCEPT ![j] = [step |-> "failed"]]
    /\ \/ UNCHANGED <<file, manifest, building>>
       \/ job[j].step = "write" /\ file' = Partial /\ building' = Rewritten /\ UNCHANGED manifest
       \/ job[j].step = "manifest" /\ manifest' = Partial /\ UNCHANGED <<file, building>>
    /\ UNCHANGED <<builds, binary>>

(***************************************************************************)
(* A plausible mistake: the manifest's hash is not compared.               *)
(***************************************************************************)
check_unhashed(bytes, m, target, engine) ==
    /\ bytes.is # "wasm"
    /\ m.target = target
    /\ m.engine[1] = engine[1]

(***************************************************************************)
(* build.rs, embedded(): read the file, refuse a plain .wasm, read and     *)
(* parse the manifest, check one against the other.                        *)
(***************************************************************************)
check(bytes, m, target, engine) ==
    /\ bytes.is # "wasm"
    /\ bytes = m.ccwasm_sha256
    /\ m.target = target
    /\ m.engine[1] = engine[1]

ReadFile(t, e) ==
    /\ building.step = "idle" /\ builds < MaxBuilds
    /\ builds' = builds + 1
    /\ building' = IF file.is \in {"none", "wasm"}
                THEN Idle
                ELSE [step |-> "read", target |-> t, engine |-> e, bytes |-> file, rewritten |-> FALSE]
    /\ UNCHANGED <<file, manifest, job, binary>>

(***************************************************************************)
(* The generated constant: the manifest's fields, and the PATH of the      *)
(* bytes.                                                                  *)
(***************************************************************************)
CheckFile ==
    /\ building.step = "read"
    /\ building' = IF /\ "target" \in DOMAIN manifest
                   /\ check(building.bytes, manifest, building.target, building.engine)
                THEN [step |-> "checked", target |-> building.target, engine |-> building.engine,
                      gen |-> manifest, rewritten |-> building.rewritten]
                ELSE Idle
    /\ UNCHANGED <<file, manifest, job, builds, binary>>

(***************************************************************************)
(* The compiler expands include_bytes!(path) and links the binary.         *)
(***************************************************************************)
IncludeBytes ==
    /\ building.step = "checked"
    /\ binary' = IF file = None THEN binary
                 ELSE [is |-> "binary", bytes |-> file, gen |-> building.gen,
                       engine |-> building.engine, target |-> building.target,
                       rewritten |-> building.rewritten, runs |-> "not started"]
    /\ building' = Idle
    /\ UNCHANGED <<file, manifest, job, builds>>

(***************************************************************************)
(* Component::deserialize takes a file of its own version, features and    *)
(* target only.                                                            *)
(***************************************************************************)
deserializes(b) ==
    /\ b.bytes.engine = b.engine
    /\ b.bytes.target = b.target

load_embedded(b) ==
    /\ b.bytes.is = "code"                     \* detect_precompiled
    /\ b.gen.engine[2] = b.engine[2]           \* the recorded Wasm features
    /\ deserializes(b)

Start ==
    /\ binary.is = "binary" /\ binary.runs = "not started"
    /\ binary' = [binary EXCEPT !.runs = IF load_embedded(binary) THEN "runs" ELSE "refused"]
    /\ UNCHANGED <<file, manifest, job, building, builds>>

Next ==
    \/ \E j \in Jobs : Compile(j) \/ WriteCode(j) \/ WriteManifest(j) \/ Die(j)
    \/ \E t \in Targets, e \in Engines : ReadFile(t, e)
    \/ CheckFile \/ IncludeBytes \/ Start

Spec == Init /\ [][Next]_vars
-----------------------------------------------------------------------------
(***************************************************************************)
(* What /v1/info and `aprv info` say is what runs, although the code and   *)
(* its manifest are written one after the other by processes that may die  *)
(* in between: a binary embeds the very code its manifest describes, and   *)
(* reports the component that code was compiled from, unless the file was  *)
(* written again after the build script read it.  Even then it runs only   *)
(* code for its own target and its own Wasmtime.                           *)
(***************************************************************************)
ReportedIsRunning ==
    binary.is = "binary" =>
        /\ binary.bytes = binary.gen.ccwasm_sha256 \/ binary.rewritten
        /\ binary.runs = "runs" =>
              /\ binary.gen.component_sha256 = binary.bytes.component \/ binary.rewritten
              /\ binary.bytes.target = binary.target
              /\ binary.bytes.engine = binary.engine

(***************************************************************************)
(* manifest.rs: "the build embeds only a file ... whose bytes still hash   *)
(* to what the manifest recorded."                                         *)
(***************************************************************************)
EmbeddedIsWhatWasChecked ==
    binary.is = "binary" => binary.bytes = binary.gen.ccwasm_sha256
=============================================================================
