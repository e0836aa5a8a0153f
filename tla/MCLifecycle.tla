----------------------------- MODULE MCLifecycle -----------------------------
(***************************************************************************)
(* The life of a child server, seen from its ends: java-wasm's verifier    *)
(* that opens, shares and releases it (two calls over a server reached by  *)
(* address and a managed one), the start of one child under its parent,    *)
(* and the child's own requests and shutdown: a place for every client,    *)
(* more of them than upload permits and workers, and one more task and     *)
(* instance than there are workers.  A behaviour runs one of the three;    *)
(* the others are over: the JVM is gone, the parent could not spawn, the   *)
(* process has exited.                                                     *)
(***************************************************************************)
EXTENDS EngineHolder

CONSTANTS Client, Task, Instance, Places, Uploads, Workers, Nobody     \* AprvServer

VARIABLES
    life,                                                              \* "engine", "start" or "server"
    parent, child, code, lines, stdinOpen, watching, address, refusal, stdout, tail,   \* ManagedStart
    serving, conn, last, places, uploads, upload_queue, permits, permit_queue,         \* AprvServer
    task, asker, using, pool, trapped

MCSources == <<"url", "managed">>

Managed == INSTANCE ManagedStart WITH open <- stdinOpen
Aprv == INSTANCE AprvServer WITH MAX_CONNECTIONS <- Places, UPLOADS <- Uploads, WORKERS <- Workers

ASSUME EngineAssumption
-----------------------------------------------------------------------------
startVars == <<parent, child, code, lines, stdinOpen, watching, address, refusal, stdout, tail>>
serverVars ==
    <<serving, conn, last, places, uploads, upload_queue, permits, permit_queue, task, asker, using, pool, trapped>>

NoEngine ==
    /\ probe = FALSE /\ verifier = "creating" /\ connection = 0 /\ closed = FALSE /\ open = FALSE
    /\ lock = "free" /\ running = {} /\ opened = 0 /\ asked = {} /\ held = TRUE /\ collected = FALSE
    /\ jvm = "gone"
    /\ pc = [t \in Threads |-> "start"] /\ mine = [t \in Threads |-> 0] /\ at = [t \in Threads |-> 0]
    /\ answer = [t \in Callers |-> "none"]
NoStart ==
    /\ parent = "failed" /\ child = "none" /\ code = 0 /\ lines = 0 /\ stdinOpen = FALSE
    /\ watching = FALSE /\ address = FALSE /\ refusal = FALSE /\ stdout = "none" /\ tail = FALSE

NoServer ==
    /\ serving = "exited" /\ conn = [c \in Client |-> "away"] /\ last = [c \in Client |-> FALSE]
    /\ places = Places /\ uploads = Uploads /\ permits = Workers /\ upload_queue = <<>> /\ permit_queue = <<>>
    /\ task = [k \in Task |-> "none"] /\ asker = [k \in Task |-> Nobody] /\ using = [k \in Task |-> Nobody]
    /\ pool = <<>> /\ trapped = {}

LifecycleInit ==
    \/ life = "engine" /\ Init /\ NoStart /\ NoServer
    \/ life = "start" /\ Managed!Init /\ NoEngine /\ NoServer
    \/ life = "server" /\ Aprv!Init /\ NoEngine /\ NoStart

LifecycleNext ==
    \/ life = "engine" /\ Next /\ UNCHANGED <<life, startVars, serverVars>>
    \/ life = "start" /\ Managed!Next /\ UNCHANGED <<life, vars, serverVars>>
    \/ life = "server" /\ Aprv!Next /\ UNCHANGED <<life, vars, startVars>>

LifecycleSpec ==
    /\ LifecycleInit /\ [][LifecycleNext]_<<life, vars, startVars, serverVars>>
    /\ Fairness /\ Managed!Fairness /\ Aprv!Fairness
-----------------------------------------------------------------------------
(* A parent that is gone, even one killed in the middle of the handshake,  *)
(* takes its child along (main.rs): the child notices the end of its       *)
(* stdin in every step it can be in.                                       *)
ChildFollowsParent == Managed!ChildFollowsParent

(* http.rs `run`: a request that was sent is answered, or its client left, *)
(* however many peers stall with their bodies or disconnect from a running *)
(* task.                                                                   *)
EveryRequestEnds == Aprv!EveryRequestEnds

(* http.rs `serve`: a shutdown ends with the process gone, whatever the    *)
(* requests under way do.                                                  *)
ShutdownEnds == Aprv!ShutdownEnds
=============================================================================
