--------------------------- MODULE ServerProcess ---------------------------
(***************************************************************************)
(* ServerProcess of java-wasm: `aprv serve --managed` as a supervised      *)
(* child.  Its methods are synchronized, so each is one step, except that  *)
(* stop() keeps the lock while it waits for the child to exit.             *)
(*                                                                         *)
(* A child is the number its generation has, or would have had: a child    *)
(* that fails the handshake is killed before the number is used again.     *)
(***************************************************************************)
EXTENDS Naturals, FiniteSets

CONSTANTS
    MAX_STARTS_PER_MINUTE,
    MAX_GENERATION,   \* bound: no child crashes from this generation on
    Null              \* Java's null

ASSUME ProcessAssumption ==
    /\ MAX_STARTS_PER_MINUTE \in Nat \ {0}
    /\ MAX_GENERATION \in Nat
    /\ Null \notin Nat

VARIABLES
    process,       \* the child started last, dead or alive, or Null
    target,        \* the generation callers are sent to, or Null
    generation,    \* children that reported their port
    stopped,       \* closed, or given up
    recentStarts,  \* starts within the last minute
    stopping,      \* stop() holds the lock and waits for process to exit
    alive,         \* children running
    killed         \* history: children start() destroyed while they ran

process_vars == <<process, target, generation, stopped, recentStarts, stopping,
                  alive, killed>>

\* ServerConnection.managed has called target() once: the first child runs.
InitProcess ==
    /\ process = 1
    /\ target = 1
    /\ generation = 1
    /\ stopped = FALSE
    /\ recentStarts = 1
    /\ stopping = FALSE
    /\ alive = {1}
    /\ killed = {}

Running == process \in alive /\ target # Null

\* target() of a closed or exhausted process throws.
TargetRefused == ~stopping /\ stopped /\ UNCHANGED process_vars

TargetKnown == ~stopping /\ ~stopped /\ Running /\ UNCHANGED process_vars

MayStart == ~stopping /\ ~stopped /\ ~Running

\* The budget is spent: the supervisor gives up for good.
StartOverBudget ==
    /\ MayStart
    /\ recentStarts >= MAX_STARTS_PER_MINUTE
    /\ stopped' = TRUE
    /\ UNCHANGED <<process, target, generation, recentStarts, stopping, alive, killed>>

\* What every start does first: count itself and destroy the old child.
DestroyOld ==
    /\ MayStart
    /\ recentStarts < MAX_STARTS_PER_MINUTE
    /\ recentStarts' = recentStarts + 1
    /\ killed' = killed \cup (alive \cap {process})

\* Mutant: the child that failed the handshake is left running.
StartFailsLeavesChild ==
    /\ DestroyOld
    /\ alive' = (alive \ {process}) \cup {generation + 1}
    /\ UNCHANGED <<process, target, generation, stopped, stopping>>

\* The digest does not match, the directory is noexec, the spawn, the
\* handshake or the port line failed: the new child is killed, and the fields
\* still describe the old one.
StartFails ==
    /\ DestroyOld
    /\ alive' = alive \ {process}
    /\ UNCHANGED <<process, target, generation, stopped, stopping>>

StartSucceeds ==
    /\ DestroyOld
    /\ generation' = generation + 1
    /\ process' = generation'
    /\ target' = generation'
    /\ alive' = (alive \ {process}) \cup {generation'}
    /\ UNCHANGED <<stopped, stopping>>

\* Mutant: any failed request makes the next call start another child.
recover_always(failed) ==
    /\ ~stopping
    /\ target' = IF ~stopped /\ failed = generation THEN Null ELSE target
    /\ UNCHANGED <<process, generation, stopped, recentStarts, stopping, alive, killed>>

\* recover(), after a request on `failed` ended in an IOException: a dead
\* child is forgotten, a slow one is not.
recover(failed) ==
    /\ ~stopping
    /\ target' = IF ~stopped /\ failed = generation /\ process # Null /\ process \notin alive
                 THEN Null ELSE target
    /\ UNCHANGED <<process, generation, stopped, recentStarts, stopping, alive, killed>>

\* stop() up to its wait: no child is started after it.
Stop ==
    /\ ~stopping
    /\ stopped' = TRUE
    /\ stopping' = TRUE
    /\ target' = Null
    /\ UNCHANGED <<process, generation, recentStarts, alive, killed>>

\* The end of stdin, then two signals, make the child exit while stop() waits.
ExitOnEof ==
    /\ stopping
    /\ alive' = alive \ {process}
    /\ process \in alive
    /\ UNCHANGED <<process, target, generation, stopped, recentStarts, stopping, killed>>

Stopped ==
    /\ stopping
    /\ process \notin alive
    /\ process' = Null
    /\ stopping' = FALSE
    /\ UNCHANGED <<target, generation, stopped, recentStarts, alive, killed>>

\* The environment: a child dies by itself, and starts grow old.
Crash ==
    /\ generation < MAX_GENERATION
    /\ \E child \in alive : alive' = alive \ {child}
    /\ UNCHANGED <<process, target, generation, stopped, recentStarts, stopping, killed>>

MinutePasses ==
    /\ recentStarts > 0
    /\ recentStarts' = recentStarts - 1
    /\ UNCHANGED <<process, target, generation, stopped, stopping, alive, killed>>

NextProcess ==
    \/ TargetRefused \/ TargetKnown
    \/ StartOverBudget \/ StartFails \/ StartSucceeds
    \/ \E failed \in 1..generation : recover(failed)
    \/ Stop \/ ExitOnEof \/ Stopped
    \/ Crash \/ MinutePasses

ProcessSpec == InitProcess /\ [][NextProcess]_process_vars

-----------------------------------------------------------------------------
ProcessTypeOK ==
    /\ process \in Nat \cup {Null}
    /\ target \in Nat \cup {Null}
    /\ generation \in Nat
    /\ stopped \in BOOLEAN
    /\ recentStarts \in 0..MAX_STARTS_PER_MINUTE
    /\ stopping \in BOOLEAN
    /\ alive \subseteq 1..generation
    /\ killed \subseteq Nat

\* Every running child is the one the fields name, so the end of stdin and
\* the signals of stop() reach it: no start, failed start or restart leaves a
\* child behind that nobody will end.
NoOrphan == alive \subseteq {process}

\* A failed request (a read timeout, say) never makes start() destroy a child
\* that still runs and serves other callers: target() starts another only
\* when the old one is dead.
LiveChildNotKilled == killed = {}

\* After close() or after the start budget is spent no child is started
\* again: "calls fail until the verifier is created again".
NeverRestarted == [][stopped => alive' \subseteq alive]_process_vars
=============================================================================
