---------------------------- MODULE EngineHolder ----------------------------
(* The server engine of java-wasm around one verifier: the Holder that opens *)
(* the connection once, the sources it is opened from, close(), the Reaper   *)
(* that closes what became unreachable, and the shutdown hook of the JVM.    *)
EXTENDS Naturals, Sequences, FiniteSets

CONSTANTS Callers,     \* threads, each making one call
          Sources,     \* the engine's sources in order: "url" or "managed"
          MaxConns     \* bound: connections opened in all

EngineAssumption ==
    /\ IsFiniteSet(Callers)
    /\ Callers \cap {"create", "close", "reaper", "hook", "free"} = {}
    /\ Sources \in Seq({"url", "managed"})
    /\ MaxConns \in Nat

VARIABLES
    probe,        \* Config.runtimeProbe
    verifier,     \* "creating", "made", or "thrown" by create
    connection,   \* Holder.connection: a number, 0 for null
    closed,       \* Holder.closed
    lock,         \* the thread in the Holder's monitor
    open,         \* whether Reaper.OPEN has the Holder
    running,      \* connections whose child runs, or whose sockets are open
    opened,       \* how many were opened so far
    asked,        \* connections whose /v1/info answer matched the config
    held,         \* whether the program can still reach the verifier
    collected,    \* whether the Reaper was handed it
    jvm,          \* "up", "exiting" or "gone"
    pc, mine, at, answer

holder == <<connection, closed, open>>
vars == <<probe, verifier, connection, closed, lock, open, running, opened, asked, held, collected, jvm,
          pc, mine, at, answer>>

Threads == Callers \cup {"create", "close", "reaper", "hook"}
Alive == jvm # "gone"

Init ==
    /\ probe \in BOOLEAN
    /\ verifier = "creating"
    /\ connection = 0 /\ closed = FALSE /\ open = FALSE
    /\ lock = "free"
    /\ running = {} /\ opened = 0 /\ asked = {}
    /\ held = TRUE /\ collected = FALSE
    /\ jvm = "up"
    /\ pc = [t \in Threads |-> "start"]
    /\ mine = [t \in Threads |-> 0]
    /\ at = [t \in Threads |-> 0]
    /\ answer = [t \in Callers |-> "none"]

Goto(t, from, to) == Alive /\ pc[t] = from /\ pc' = [pc EXCEPT ![t] = to]
Environment == UNCHANGED <<probe, held, collected, jvm>>
-----------------------------------------------------------------------------
(* create and the calls up to Holder.get *)

ServerVerifier ==
    /\ Goto("create", "start", IF probe THEN "get" ELSE "done")
    /\ verifier' = IF probe THEN verifier ELSE "made"
    /\ Environment /\ UNCHANGED <<holder, lock, running, opened, asked, mine, at, answer>>

(* The clock is read first; one that throws or is negative ends the call *)
Begin(t) ==
    /\ verifier = "made" /\ held
    /\ \/ Goto(t, "start", "get") /\ UNCHANGED answer
       \/ Goto(t, "start", "done") /\ answer' = [answer EXCEPT ![t] = "internal"]
    /\ Environment /\ UNCHANGED <<verifier, holder, lock, running, opened, asked, mine, at>>

(* How a thread leaves get(): with a connection, or with an exception that *)
(* create throws on and a call answers                                     *)
Left(t, c) ==
    /\ mine' = [mine EXCEPT ![t] = c]
    /\ pc' = [pc EXCEPT ![t] = IF c # 0 /\ t # "create" THEN "send" ELSE "done"]
    /\ verifier' = IF t # "create" THEN verifier ELSE IF c # 0 THEN "made" ELSE "thrown"
    /\ answer' = IF c # 0 \/ t \notin Callers THEN answer ELSE [answer EXCEPT ![t] = "internal"]

(* The first look at the volatile field takes no lock *)
get(t) ==
    /\ Alive /\ pc[t] = "get"
    /\ IF connection # 0
       THEN Left(t, connection)
       ELSE pc' = [pc EXCEPT ![t] = "monitor"] /\ UNCHANGED <<verifier, mine, answer>>
    /\ Environment /\ UNCHANGED <<holder, lock, running, opened, asked, at>>

(* A slip: the field is not looked at again under the lock *)
Enter_unchecked(t) ==
    /\ Alive /\ pc[t] = "monitor" /\ lock = "free"
    /\ IF closed
       THEN Left(t, 0) /\ UNCHANGED <<lock, at>>
       ELSE /\ lock' = t
            /\ at' = [at EXCEPT ![t] = 1]
            /\ pc' = [pc EXCEPT ![t] = "connect"]
            /\ UNCHANGED <<verifier, mine, answer>>
    /\ Environment /\ UNCHANGED <<holder, running, opened, asked>>

Enter(t) ==
    /\ Alive /\ pc[t] = "monitor" /\ lock = "free"
    /\ IF closed \/ connection # 0
       THEN Left(t, IF closed THEN 0 ELSE connection) /\ UNCHANGED <<lock, at>>
       ELSE /\ lock' = t
            /\ at' = [at EXCEPT ![t] = 1]
            /\ pc' = [pc EXCEPT ![t] = "connect"]
            /\ UNCHANGED <<verifier, mine, answer>>
    /\ Environment /\ UNCHANGED <<holder, running, opened, asked>>
-----------------------------------------------------------------------------
(* ServerSources.open, run inside the monitor *)

(* No source is left: the exception leaves get() and the monitor *)
NoneWorked(t) ==
    /\ Alive /\ pc[t] = "connect" /\ at[t] > Len(Sources)
    /\ lock' = "free"
    /\ Left(t, 0)
    /\ Environment /\ UNCHANGED <<holder, running, opened, asked, at>>

(* A managed child that does not start is gone when start() throws; one    *)
(* whose module refuses the roots ends the search                          *)
connect(t) ==
    /\ Alive /\ pc[t] = "connect" /\ at[t] <= Len(Sources) /\ opened < MaxConns
    /\ \/ /\ opened' = opened + 1
          /\ running' = running \cup {opened'}
          /\ mine' = [mine EXCEPT ![t] = opened']
          /\ pc' = [pc EXCEPT ![t] = "info"]
          /\ UNCHANGED <<lock, verifier, answer, at>>
       \/ /\ Sources[at[t]] = "managed"
          /\ at' = [at EXCEPT ![t] = @ + 1]
          /\ UNCHANGED <<running, opened, mine, pc, lock, verifier, answer>>
       \/ /\ Sources[at[t]] = "managed"
          /\ lock' = "free"
          /\ Left(t, 0)
          /\ UNCHANGED <<running, opened, at>>
    /\ Environment /\ UNCHANGED <<holder, asked>>

(* /v1/info: the roots are the config's and the length is stated, or the   *)
(* connection is closed and the next source tried                          *)
checkInfo(t) ==
    /\ Alive /\ pc[t] = "info"
    /\ \/ /\ asked' = asked \cup {mine[t]}
          /\ pc' = [pc EXCEPT ![t] = "opened"]
          /\ UNCHANGED <<running, at, mine>>
       \/ /\ running' = running \ {mine[t]}
          /\ at' = [at EXCEPT ![t] = @ + 1]
          /\ mine' = [mine EXCEPT ![t] = 0]
          /\ pc' = [pc EXCEPT ![t] = "connect"]
          /\ UNCHANGED asked
    /\ Environment /\ UNCHANGED <<verifier, holder, lock, opened, answer>>

Publish(t) ==
    /\ Goto(t, "opened", "register")
    /\ connection' = mine[t]
    /\ Environment /\ UNCHANGED <<verifier, closed, open, lock, running, opened, asked, mine, at, answer>>

Register(t) ==
    /\ Alive /\ pc[t] = "register"
    /\ open' = TRUE
    /\ lock' = "free"
    /\ Left(t, connection)
    /\ Environment /\ UNCHANGED <<connection, closed, running, opened, asked, at>>

(* A connection closed meanwhile answers ServerProcessFailure; a running   *)
(* server may answer a problem                                             *)
send(t) ==
    /\ Goto(t, "send", "done")
    /\ \/ mine[t] \in running /\ answer' = [answer EXCEPT ![t] = "verdict"]
       \/ answer' = [answer EXCEPT ![t] = "internal"]
    /\ Environment /\ UNCHANGED <<verifier, holder, lock, running, opened, asked, mine, at>>
-----------------------------------------------------------------------------
(* Who closes the Holder: the program, the Reaper, the shutdown hook *)

Close ==
    /\ verifier = "made" /\ held
    /\ Goto("close", "start", "closing")
    /\ Environment /\ UNCHANGED <<verifier, holder, lock, running, opened, asked, mine, at, answer>>

(* A slip: the phantom reference is itself lost, so nothing is closed *)
Reap_lost ==
    /\ collected
    /\ Goto("reaper", "start", "done")
    /\ Environment /\ UNCHANGED <<verifier, holder, lock, running, opened, asked, mine, at, answer>>

Reap ==
    /\ collected
    /\ Goto("reaper", "start", "closing")
    /\ Environment /\ UNCHANGED <<verifier, holder, lock, running, opened, asked, mine, at, answer>>

(* The hook's walk over OPEN sees only what was added before *)
Hook ==
    /\ jvm = "exiting"
    /\ Goto("hook", "start", IF open THEN "closing" ELSE "done")
    /\ Environment /\ UNCHANGED <<verifier, holder, lock, running, opened, asked, mine, at, answer>>

(* Holder.close, one synchronized method: ServerConnection.close stops the *)
(* child before it returns                                                 *)
CloseHolder(t) ==
    /\ lock = "free"
    /\ Goto(t, "closing", "done")
    /\ closed' = TRUE /\ open' = FALSE /\ connection' = 0
    /\ running' = running \ {connection}
    /\ Environment /\ UNCHANGED <<verifier, lock, opened, asked, mine, at, answer>>
-----------------------------------------------------------------------------
(* The program drops its last reference *)
Drop ==
    /\ Alive /\ verifier = "made" /\ held /\ held' = FALSE
    /\ UNCHANGED <<probe, verifier, holder, lock, running, opened, asked, collected, jvm, pc, mine, at, answer>>

(* A call needs its verifier only to find the Holder: one that has begun   *)
(* does not keep it reachable                                              *)
Collect ==
    /\ Alive /\ ~ held /\ ~ collected /\ collected' = TRUE
    /\ UNCHANGED <<probe, verifier, holder, lock, running, opened, asked, held, jvm, pc, mine, at, answer>>

Exit ==
    /\ jvm = "up" /\ jvm' = "exiting"
    /\ UNCHANGED <<probe, verifier, holder, lock, running, opened, asked, held, collected, pc, mine, at, answer>>

(* The hooks have ended, or the process was killed *)
Halt ==
    /\ jvm = "exiting" /\ pc["hook"] = "done" /\ jvm' = "gone"
    /\ UNCHANGED <<probe, verifier, holder, lock, running, opened, asked, held, collected, pc, mine, at, answer>>

Kill ==
    /\ Alive /\ jvm' = "gone"
    /\ UNCHANGED <<probe, verifier, holder, lock, running, opened, asked, held, collected, pc, mine, at, answer>>

(* A child whose standard input ends exits on its own *)
ChildSeesEof ==
    /\ jvm = "gone" /\ running # {} /\ running' = {}
    /\ UNCHANGED <<probe, verifier, holder, lock, opened, asked, held, collected, jvm, pc, mine, at, answer>>

Step(t) ==
    \/ get(t) \/ Enter(t) \/ NoneWorked(t) \/ connect(t) \/ checkInfo(t) \/ Publish(t) \/ Register(t)
Closers == {"close", "reaper", "hook"}

Next ==
    \/ ServerVerifier
    \/ \E t \in Callers : Begin(t) \/ send(t)
    \/ \E t \in Callers \cup {"create"} : Step(t)
    \/ \E t \in Closers : CloseHolder(t)
    \/ Close \/ Reap \/ Hook
    \/ Drop \/ Collect \/ Exit \/ Halt \/ Kill \/ ChildSeesEof

(* Every step of a thread ends: starts and requests have timeouts. What    *)
(* the program, the collector and the system do is not promised.           *)
Fairness ==
    /\ \A t \in Callers : WF_vars(send(t))
    /\ \A t \in Callers \cup {"create"} : WF_vars(Step(t))
    /\ \A t \in Closers : SF_vars(CloseHolder(t))
    /\ WF_vars(Reap) /\ WF_vars(Hook) /\ WF_vars(Halt) /\ WF_vars(ChildSeesEof)

Spec == Init /\ [][Next]_vars /\ Fairness
-----------------------------------------------------------------------------
(* At any time at most one server belongs to this verifier, however many   *)
(* calls find it unopened at once and however many sources fail first; a   *)
(* call only ever talks to one whose roots were compared with the          *)
(* config's (Holder.get, ServerSources.open).                              *)
OneServer ==
    /\ Cardinality(running) <= 1
    /\ \A t \in Callers : pc[t] = "send" => mine[t] \in asked
    /\ connection # 0 => connection \in asked

(* Every way a verifier ends stops its server for good: close() of the     *)
(* program, the Reaper after it became unreachable, the hook, and the end  *)
(* of the JVM in the middle of anything (the class comment of              *)
(* ServerVerifier).                                                        *)
Released ==
    (pc["close"] # "start" \/ collected \/ jvm = "gone") ~> [](running = {})
=============================================================================
