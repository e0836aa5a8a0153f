-------------------------- MODULE ServerConnection --------------------------
(***************************************************************************)
(* ServerConnection of java-wasm: calls of several threads over a pool of  *)
(* keep-alive connections to the supervised child, and close().            *)
(*                                                                         *)
(* The pool is a lock-free queue with a counter of its own, updated in     *)
(* separate steps; `closed` is a volatile flag read three times.  Each     *)
(* read, queue operation and counter update that another thread can see is *)
(* a step here.  The child may die at any time.                            *)
(***************************************************************************)
EXTENDS ServerProcess, Sequences

CONSTANTS
    Caller,    \* threads that call send()
    Closer,    \* the thread that calls close()
    Conn,      \* identities of open connections
    maxIdle,
    ATTEMPTS

Thread == Caller \cup {Closer}

ASSUME ConnectionAssumption ==
    /\ IsFiniteSet(Caller)
    /\ Closer \notin Caller
    /\ maxIdle \in Nat
    /\ ATTEMPTS \in Nat \ {0}
    /\ Null \notin Conn

VARIABLES
    closed,     \* ServerConnection.closed
    idle,       \* the queue of idle connections
    idleCount,  \* its counter
    open,       \* [Conn -> the generation it is connected to, or Null]
    pc,         \* [Thread -> where it is]
    attempt,    \* [Caller -> attempts made in this call]
    held,       \* [Caller -> the target of this attempt]
    mine,       \* [Thread -> the connection in its hands, or Null]
    dropped,    \* idle connections whose other end the server has closed
    stale       \* history: [Caller -> attempts of its call lost to dropped ones]

connection_vars == <<closed, idle, idleCount, open, dropped, pc, attempt, held,
                     mine, stale>>
vars == <<process_vars, connection_vars>>

Init ==
    /\ InitProcess
    /\ closed = FALSE
    /\ idle = <<>>
    /\ idleCount = 0
    /\ open = [c \in Conn |-> Null]
    /\ pc = [t \in Thread |-> "idle"]
    /\ attempt = [t \in Caller |-> 0]
    /\ held = [t \in Caller |-> Null]
    /\ mine = [t \in Thread |-> Null]
    /\ dropped = {}
    /\ stale = [t \in Caller |-> 0]

Goto(t, from, to) == pc[t] = from /\ pc' = [pc EXCEPT ![t] = to]

\* conn.close() on the connection in t's hands.
CloseMine(t) ==
    /\ open' = [open EXCEPT ![mine[t]] = Null]
    /\ mine' = [mine EXCEPT ![t] = Null]
    /\ dropped' = dropped \ {mine[t]}

-----------------------------------------------------------------------------
(* send(). *)

Begin(t) ==
    /\ Goto(t, "idle", "check")
    /\ attempt' = [attempt EXCEPT ![t] = 0]
    /\ stale' = [stale EXCEPT ![t] = 0]
    /\ UNCHANGED <<process_vars, closed, idle, idleCount, open, dropped, held,
                   mine>>

CheckClosed(t) ==
    /\ Goto(t, "check", IF closed THEN "idle" ELSE "target")
    /\ UNCHANGED <<process_vars, closed, idle, idleCount, open, dropped,
                   attempt, held, mine, stale>>

\* process.target(), which starts the child when it is not running; a
\* ServerProcessFailure ends the call.
GetTarget(t) ==
    /\ \/ /\ Goto(t, "target", "take")
          /\ TargetKnown \/ StartSucceeds
          /\ held' = [held EXCEPT ![t] = target']
       \/ /\ Goto(t, "target", "idle")
          /\ TargetRefused \/ StartOverBudget \/ StartFails
          /\ UNCHANGED held
    /\ UNCHANGED <<closed, idle, idleCount, open, dropped, attempt, mine, stale>>

\* Mutant: the queue's head is read, and removed by a later step.
PollPeeks(t, from, found, empty) ==
    /\ \/ /\ idle # <<>>
          /\ Goto(t, from, found)
          /\ mine' = [mine EXCEPT ![t] = Head(idle)]
       \/ /\ idle = <<>>
          /\ Goto(t, from, empty)
          /\ UNCHANGED mine
    /\ UNCHANGED <<process_vars, closed, idle, idleCount, open, dropped,
                   attempt, held, stale>>

\* idle.poll(): for a call, and for the drain of closeIdle().
Poll(t, from, found, empty) ==
    /\ \/ /\ idle # <<>>
          /\ Goto(t, from, found)
          /\ mine' = [mine EXCEPT ![t] = Head(idle)]
          /\ idle' = Tail(idle)
       \/ /\ idle = <<>>
          /\ Goto(t, from, empty)
          /\ UNCHANGED <<mine, idle>>
    /\ UNCHANGED <<process_vars, closed, idleCount, open, dropped, attempt,
                   held, stale>>

TakeIdle(t) == Poll(t, "take", "count", "connect")

\* The counter follows; a connection to a child that was replaced is closed.
Taken(t) ==
    /\ pc[t] = "count"
    /\ idleCount' = idleCount - 1
    /\ IF open[mine[t]] = held[t]
       THEN Goto(t, "count", "exchange") /\ UNCHANGED <<open, dropped, mine>>
       ELSE Goto(t, "count", "take") /\ CloseMine(t)
    /\ UNCHANGED <<process_vars, closed, idle, attempt, held, stale>>

\* Counted up to ATTEMPTS.
OneMore(n) == IF n < ATTEMPTS THEN n + 1 ELSE n

\* new HttpConn: refused by a dead child, and it may time out.
Connect(t) ==
    /\ \/ /\ Goto(t, "connect", "exchange")
          /\ held[t] \in alive
          /\ \E c \in Conn :
               /\ open[c] = Null
               /\ open' = [open EXCEPT ![c] = held[t]]
               /\ mine' = [mine EXCEPT ![t] = c]
       \/ /\ Goto(t, "connect", "recover")
          /\ UNCHANGED <<open, mine>>
    /\ UNCHANGED <<process_vars, closed, idle, idleCount, dropped, attempt, held,
                   stale>>

\* exchange(): an answer, with or without keep-alive, or an IOException, which
\* is all a connection the server has closed can give.
Exchange(t) ==
    /\ pc[t] = "exchange"
    /\ \/ /\ open[mine[t]] \in alive /\ mine[t] \notin dropped
          /\ \/ Goto(t, "exchange", "keep") /\ UNCHANGED <<open, mine, dropped>>
             \/ Goto(t, "exchange", "idle") /\ CloseMine(t)
          /\ UNCHANGED stale
       \/ /\ Goto(t, "exchange", "recover")
          /\ CloseMine(t)
          /\ IF mine[t] \in dropped
             THEN stale' = [stale EXCEPT ![t] = OneMore(@)]
             ELSE UNCHANGED stale
    /\ UNCHANGED <<process_vars, closed, idle, idleCount, attempt, held>>

Recover(t) ==
    /\ pc[t] = "recover"
    /\ recover(held[t])
    /\ attempt' = [attempt EXCEPT ![t] = @ + 1]
    /\ Goto(t, "recover", IF attempt'[t] < ATTEMPTS THEN "check" ELSE "idle")
    /\ UNCHANGED <<closed, idle, idleCount, open, dropped, held, mine, stale>>

-----------------------------------------------------------------------------
(* keepIdle(). *)

KeepCheck(t) ==
    /\ pc[t] = "keep"
    /\ IF closed
       THEN Goto(t, "keep", "idle") /\ CloseMine(t)
       ELSE Goto(t, "keep", "increment") /\ UNCHANGED <<open, dropped, mine>>
    /\ UNCHANGED <<process_vars, closed, idle, idleCount, attempt, held, stale>>

Increment(t) ==
    /\ pc[t] = "increment"
    /\ idleCount' = idleCount + 1
    /\ Goto(t, "increment", IF idleCount' <= maxIdle THEN "add" ELSE "undo")
    /\ UNCHANGED <<process_vars, closed, idle, open, dropped, attempt, held,
                   mine, stale>>

Undo(t) ==
    /\ Goto(t, "undo", "idle")
    /\ idleCount' = idleCount - 1
    /\ CloseMine(t)
    /\ UNCHANGED <<process_vars, closed, idle, attempt, held, stale>>

Add(t) ==
    /\ Goto(t, "add", "recheck")
    /\ idle' = Append(idle, mine[t])
    /\ mine' = [mine EXCEPT ![t] = Null]
    /\ UNCHANGED <<process_vars, closed, idleCount, open, dropped, attempt,
                   held, stale>>

\* Mutant: `closed` is not read again once the connection is in.
RecheckNot(t) ==
    /\ Goto(t, "recheck", "idle")
    /\ UNCHANGED <<process_vars, closed, idle, idleCount, open, dropped,
                   attempt, held, mine, stale>>

Recheck(t) ==
    /\ Goto(t, "recheck", IF closed THEN "drain" ELSE "idle")
    /\ UNCHANGED <<process_vars, closed, idle, idleCount, open, dropped,
                   attempt, held, mine, stale>>

-----------------------------------------------------------------------------
(* closeIdle() and close(). *)

Drain(t) == Poll(t, "drain", "drop", IF t = Closer THEN "stop" ELSE "idle")

Drop(t) ==
    /\ Goto(t, "drop", "drain")
    /\ idleCount' = idleCount - 1
    /\ CloseMine(t)
    /\ UNCHANGED <<process_vars, closed, idle, attempt, held, stale>>

SetClosed ==
    /\ Goto(Closer, "idle", "drain")
    /\ closed' = TRUE
    /\ UNCHANGED <<process_vars, idle, idleCount, open, dropped, attempt, held,
                   mine, stale>>

StopChild ==
    /\ Goto(Closer, "stop", "wait")
    /\ Stop
    /\ UNCHANGED <<closed, idle, idleCount, open, dropped, attempt, held, mine,
                   stale>>

CloseReturns ==
    /\ Goto(Closer, "wait", "closed")
    /\ Stopped
    /\ UNCHANGED <<closed, idle, idleCount, open, dropped, attempt, held, mine,
                   stale>>

\* The child ends: by itself, or because stop() makes it.
ChildEnds ==
    /\ ExitOnEof \/ Crash
    /\ UNCHANGED <<stale, closed, idle, idleCount, open, dropped, pc, attempt,
                   held, mine>>

\* header_timeout passes on a connection that waits in the pool: the server
\* closes its end, and nothing here is told.
ServerCloses ==
    /\ \E n \in DOMAIN idle :
         /\ open[idle[n]] \in alive
         /\ idle[n] \notin dropped
         /\ dropped' = dropped \cup {idle[n]}
    /\ UNCHANGED <<process_vars, closed, idle, idleCount, open, pc, attempt, held,
                   mine, stale>>

Outside == ChildEnds \/ ServerCloses \/ (MinutePasses /\ UNCHANGED connection_vars)

Step(t) ==
    \/ CheckClosed(t) \/ GetTarget(t) \/ TakeIdle(t) \/ Taken(t) \/ Connect(t)
    \/ Exchange(t) \/ Recover(t)
    \/ KeepCheck(t) \/ Increment(t) \/ Undo(t) \/ Add(t) \/ Recheck(t)

CloserStep == StopChild \/ CloseReturns

Next ==
    \/ \E t \in Caller : Begin(t) \/ Step(t)
    \/ \E t \in Thread : Drain(t) \/ Drop(t)
    \/ SetClosed \/ CloserStep
    \/ Outside

Spec == Init /\ [][Next]_vars

\* A thread inside a method keeps running (every wait of the code has a
\* timeout), and a child whose stdin ended is made to exit.  Nobody need call
\* send() or close(), and nothing need crash.
Fairness ==
    /\ \A t \in Caller : WF_vars(Step(t))
    /\ \A t \in Thread : WF_vars(Drain(t) \/ Drop(t))
    /\ WF_vars(CloserStep)
    /\ WF_vars(stopping /\ ChildEnds)

FairSpec == Spec /\ Fairness

-----------------------------------------------------------------------------
PollStates == {"count", "drop"}
HoldStates == PollStates \cup {"exchange", "keep", "increment", "undo", "add"}

TypeOK ==
    /\ ProcessTypeOK
    /\ closed \in BOOLEAN
    /\ idle \in Seq(Conn)
    /\ idleCount \in Nat
    /\ open \in [Conn -> Nat \cup {Null}]
    /\ \A t \in Caller : pc[t] \in HoldStates \cup
         {"idle", "check", "target", "take", "connect", "recover", "recheck", "drain"}
    /\ pc[Closer] \in {"idle", "drain", "drop", "stop", "wait", "closed"}
    /\ attempt \in [Caller -> 0..ATTEMPTS]
    /\ held \in [Caller -> Nat \cup {Null}]
    /\ mine \in [Thread -> Conn \cup {Null}]
    /\ dropped \in SUBSET Conn
    /\ stale \in [Caller -> 0..ATTEMPTS]

Idle == {idle[n] : n \in DOMAIN idle}

\* HttpConn is "not thread-safe: ServerConnection pools these, one request at
\* a time on each": a connection is in one thread's hands or once in the pool.
OneOwner ==
    /\ \A t, u \in Thread : t # u /\ mine[t] # Null => mine[t] # mine[u]
    /\ \A t \in Thread : mine[t] \notin Idle
    /\ Cardinality(Idle) = Len(idle)

\* "A keep-alive connection the server closed is replaced" (the class's
\* comment): such connections alone never make a call fail, since with the
\* child alive the next attempt's new connection would be answered.
ClosedConnectionReplaced == \A t \in Caller : stale[t] < ATTEMPTS

\* close() returns, and then nothing it should release is held.
CloseReleases ==
    closed ~> (pc[Closer] = "closed" /\ alive = {} /\ \A c \in Conn : open[c] = Null)
=============================================================================
