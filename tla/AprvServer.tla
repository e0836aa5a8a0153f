----------------------------- MODULE AprvServer -----------------------------
(***************************************************************************)
(* aprv-server (rust/server): the accept loop and shutdown of http.rs      *)
(* `serve`, the admission of requests by its handler `run`, and the pool   *)
(* of Wasm instances of runtime.rs `invoke`.                               *)
(*                                                                         *)
(* A client may stall or disconnect anywhere.  The worker's task outlives  *)
(* the request's future: spawn_blocking is not cancelled.                  *)
(***************************************************************************)
EXTENDS Naturals, Sequences, FiniteSets

CONSTANTS
    Client,           \* peers, one connection each
    Task,             \* identities of spawn_blocking closures
    Instance,         \* identities of Wasm instances
    MAX_CONNECTIONS,
    UPLOADS,          \* UPLOADS_PER_WORKER times WORKERS
    WORKERS,
    Nobody            \* no client, task or instance

ASSUME ServerAssumption ==
    /\ MAX_CONNECTIONS \in Nat \ {0}
    /\ UPLOADS \in Nat \ {0}
    /\ WORKERS \in Nat \ {0}
    /\ Nobody \notin Client \cup Task \cup Instance
    /\ IsFiniteSet(Client) /\ IsFiniteSet(Task)

VARIABLES
    serving,       \* "accepting", "draining", "returned" or "exited"
    conn,          \* [Client -> where its connection is]
    last,          \* [Client -> the connection closes after this response]
    places,        \* connection permits left
    uploads,       \* upload permits left
    upload_queue,  \* clients waiting for one, in order (tokio's are fair)
    permits,       \* worker permits left
    permit_queue,  \* clients waiting for one, in order
    task,          \* [Task -> where the closure is]
    asker,         \* [Task -> the client its answer goes to, or Nobody]
    using,         \* [Task -> the instance it holds, or Nobody]
    pool,          \* Lifecycle::Pool: idle instances, a stack
    trapped        \* instances whose last call failed

net_vars == <<conn, last, places, uploads, upload_queue, permit_queue>>
guest_vars == <<using, pool, trapped>>
vars == <<serving, net_vars, permits, task, asker, guest_vars>>

\* Verifier::new has made the first instance.
Init ==
    /\ serving = "accepting"
    /\ conn = [c \in Client |-> "away"]
    /\ last = [c \in Client |-> FALSE]
    /\ places = MAX_CONNECTIONS
    /\ uploads = UPLOADS
    /\ upload_queue = <<>>
    /\ permits = WORKERS
    /\ permit_queue = <<>>
    /\ task = [k \in Task |-> "none"]
    /\ asker = [k \in Task |-> Nobody]
    /\ using = [k \in Task |-> Nobody]
    /\ pool \in {<<i>> : i \in Instance}
    /\ trapped = {}

Move(c, from, to) == conn[c] = from /\ conn' = [conn EXCEPT ![c] = to]

\* A future that is dropped while it waits takes its own place out of the
\* semaphore's list; the others keep their order.
Without(queue, c) ==
    IF \E n \in DOMAIN queue : queue[n] = c
    THEN LET at == CHOOSE n \in DOMAIN queue : queue[n] = c IN
         [n \in 1 .. Len(queue) - 1 |-> IF n < at THEN queue[n] ELSE queue[n + 1]]
    ELSE queue

-----------------------------------------------------------------------------
(* serve: connections. *)

\* The loop takes a place, then accepts.
Accept(c) ==
    /\ serving = "accepting"
    /\ places > 0
    /\ Move(c, "away", "head")
    /\ places' = places - 1
    /\ UNCHANGED <<serving, last, uploads, upload_queue, permits, permit_queue, task,
                   asker, guest_vars>>

\* accept() fails: reported unless the peer reset it, and the loop goes on with
\* the place it holds.
accept_failed ==
    /\ serving = "accepting"
    /\ places > 0
    /\ UNCHANGED vars

\* The header deadline, an idle connection at shutdown, or the peer.
EndIdle(c) ==
    /\ Move(c, "head", "away")
    /\ places' = places + 1
    /\ UNCHANGED <<serving, last, uploads, upload_queue, permits, permit_queue, task,
                   asker, guest_vars>>

\* Mutant: connections are kept alive while the server shuts down.
WrittenKeepsAlive(c) ==
    /\ \/ /\ ~last[c]
          /\ Move(c, "writing", "head")
          /\ UNCHANGED places
       \/ /\ last[c]
          /\ Move(c, "writing", "away")
          /\ places' = places + 1
    /\ last' = [last EXCEPT ![c] = FALSE]
    /\ UNCHANGED <<serving, uploads, upload_queue, permits, permit_queue, task, asker,
                   guest_vars>>

\* The response is written; the connection serves another request unless it
\* is to close.  A write that stalls past the deadline closes it too.
Written(c) ==
    /\ \/ /\ ~last[c] /\ serving = "accepting"
          /\ Move(c, "writing", "head")
          /\ UNCHANGED places
       \/ /\ Move(c, "writing", "away")
          /\ places' = places + 1
    /\ last' = [last EXCEPT ![c] = FALSE]
    /\ UNCHANGED <<serving, uploads, upload_queue, permits, permit_queue, task, asker,
                   guest_vars>>

Shutdown ==
    /\ serving = "accepting"
    /\ serving' = "draining"
    /\ UNCHANGED <<net_vars, permits, task, asker, guest_vars>>

\* graceful.shutdown() completes when every connection it watches has.
Return ==
    /\ serving = "draining"
    /\ \A c \in Client : conn[c] = "away"
    /\ serving' = "returned"
    /\ UNCHANGED <<net_vars, permits, task, asker, guest_vars>>

\* Dropping the tokio runtime waits for the blocking closures.
Exit ==
    /\ serving = "returned"
    /\ \A k \in Task : task[k] = "none"
    /\ serving' = "exited"
    /\ UNCHANGED <<net_vars, permits, task, asker, guest_vars>>

-----------------------------------------------------------------------------
(* run: one request. *)

\* A wrong token, a bad clock header, or a route without a body: answered
\* without a body read.
AnswerHead(c) ==
    /\ Move(c, "head", "writing")
    /\ UNCHANGED <<serving, last, places, uploads, upload_queue, permits, permit_queue,
                   task, asker, guest_vars>>

Request(c) ==
    /\ Move(c, "head", "admission")
    /\ upload_queue' = Append(upload_queue, c)
    /\ UNCHANGED <<serving, last, places, uploads, permits, permit_queue, task, asker,
                   guest_vars>>

\* Mutant: the newest request is admitted first.
AdmitNewest ==
    LET n == Len(upload_queue) IN
    /\ n > 0
    /\ uploads > 0
    /\ Move(upload_queue[n], "admission", "reading")
    /\ uploads' = uploads - 1
    /\ upload_queue' = SubSeq(upload_queue, 1, n - 1)
    /\ UNCHANGED <<serving, last, places, permits, permit_queue, task, asker, guest_vars>>

AdmitBody ==
    /\ upload_queue # <<>>
    /\ uploads > 0
    /\ Move(Head(upload_queue), "admission", "reading")
    /\ uploads' = uploads - 1
    /\ upload_queue' = Tail(upload_queue)
    /\ UNCHANGED <<serving, last, places, permits, permit_queue, task, asker, guest_vars>>

\* read_capped returns; with `close`, part of the body is left unread.
BodyRead(c) ==
    /\ Move(c, "reading", "ready")
    /\ \E close \in BOOLEAN : last' = [last EXCEPT ![c] = close]
    /\ permit_queue' = Append(permit_queue, c)
    /\ UNCHANGED <<serving, places, uploads, upload_queue, permits, task, asker, guest_vars>>

\* 400 for a body that does not read, 408 and `Connection: close` for one that
\* does not arrive in time; the upload permit goes with the future.
BodyFails(c) ==
    /\ Move(c, "reading", "writing")
    /\ \E timed_out \in BOOLEAN : last' = [last EXCEPT ![c] = timed_out]
    /\ uploads' = uploads + 1
    /\ UNCHANGED <<serving, places, upload_queue, permits, permit_queue, task, asker,
                   guest_vars>>

\* The worker's permit, then drop(upload), then spawn_blocking.
StartWorker ==
    /\ permit_queue # <<>>
    /\ permits > 0
    /\ Move(Head(permit_queue), "ready", "waiting")
    /\ permits' = permits - 1
    /\ permit_queue' = Tail(permit_queue)
    /\ uploads' = uploads + 1
    /\ \E k \in Task :
         /\ task[k] = "none"
         /\ task' = [task EXCEPT ![k] = "pop"]
         /\ asker' = [asker EXCEPT ![k] = Head(permit_queue)]
    /\ UNCHANGED <<serving, last, places, upload_queue, guest_vars>>

\* Mutant: the worker's permit is dropped with the request's future.
DisconnectFreesWorker(c) ==
    /\ conn[c] = "waiting"
    /\ conn' = [conn EXCEPT ![c] = "away"]
    /\ last' = [last EXCEPT ![c] = FALSE]
    /\ places' = places + 1
    /\ permits' = permits + 1
    /\ asker' = [k \in Task |-> IF asker[k] = c THEN Nobody ELSE asker[k]]
    /\ UNCHANGED <<serving, uploads, upload_queue, permit_queue, task, guest_vars>>

\* Mutant: the running task still answers whoever is there when it ends.
DisconnectKeepsAsker(c) ==
    /\ conn[c] \in {"admission", "reading", "ready", "waiting"}
    /\ conn' = [conn EXCEPT ![c] = "away"]
    /\ last' = [last EXCEPT ![c] = FALSE]
    /\ places' = places + 1
    /\ uploads' = IF conn[c] \in {"reading", "ready"} THEN uploads + 1 ELSE uploads
    /\ upload_queue' = Without(upload_queue, c)
    /\ permit_queue' = Without(permit_queue, c)
    /\ UNCHANGED <<serving, permits, task, asker, guest_vars>>

\* The peer goes away: the request's future is dropped with the upload permit
\* it holds, if any; a task it started runs on, its answer for nobody.
Disconnect(c) ==
    /\ conn[c] \in {"admission", "reading", "ready", "waiting"}
    /\ conn' = [conn EXCEPT ![c] = "away"]
    /\ last' = [last EXCEPT ![c] = FALSE]
    /\ places' = places + 1
    /\ uploads' = IF conn[c] \in {"reading", "ready"} THEN uploads + 1 ELSE uploads
    /\ upload_queue' = Without(upload_queue, c)
    /\ permit_queue' = Without(permit_queue, c)
    /\ asker' = [k \in Task |-> IF asker[k] = c THEN Nobody ELSE asker[k]]
    /\ UNCHANGED <<serving, permits, task, guest_vars>>

-----------------------------------------------------------------------------
(* invoke: the worker's closure. *)

Live == ({pool[n] : n \in DOMAIN pool} \cup {using[k] : k \in Task}) \ {Nobody}

At(k, from, to) == task[k] = from /\ task' = [task EXCEPT ![k] = to]

Pop(k) ==
    /\ \/ /\ pool # <<>>
          /\ At(k, "pop", "call")
          /\ using' = [using EXCEPT ![k] = pool[Len(pool)]]
          /\ pool' = SubSeq(pool, 1, Len(pool) - 1)
       \/ /\ pool = <<>>
          /\ At(k, "pop", "fresh")
          /\ UNCHANGED <<using, pool>>
    /\ UNCHANGED <<serving, net_vars, permits, asker, trapped>>

\* Instantiate and init; either may fail, and then no instance is left.
Fresh(k) ==
    /\ \/ /\ At(k, "fresh", "call")
          /\ \E i \in Instance \ Live : using' = [using EXCEPT ![k] = i]
       \/ At(k, "fresh", "end") /\ UNCHANGED using
    /\ UNCHANGED <<serving, net_vars, permits, asker, pool, trapped>>

\* A limit the host sets ends the call: memory, instances, random bytes, the
\* epoch deadline; so does a panic or an answer that breaks the interface.
Traps(k) == At(k, "call", "drop") /\ trapped' = trapped \cup {using[k]}

\* The guest answers, or traps.
Call(k) ==
    /\ \/ At(k, "call", "push") /\ UNCHANGED trapped
       \/ Traps(k)
    /\ UNCHANGED <<serving, net_vars, permits, asker, using, pool>>

Push(k) ==
    /\ At(k, "push", "end")
    /\ pool' = Append(pool, using[k])
    /\ using' = [using EXCEPT ![k] = Nobody]
    /\ UNCHANGED <<serving, net_vars, permits, asker, trapped>>

DropInstance(k) ==
    /\ At(k, "drop", "end")
    /\ using' = [using EXCEPT ![k] = Nobody]
    /\ trapped' = trapped \ {using[k]}
    /\ UNCHANGED <<serving, net_vars, permits, asker, pool>>

\* The closure returns: its permit is dropped and the future, if it is still
\* there, answers.
End(k) ==
    /\ At(k, "end", "none")
    /\ permits' = permits + 1
    /\ asker' = [asker EXCEPT ![k] = Nobody]
    /\ conn' = [c \in Client |-> IF c = asker[k] THEN "writing" ELSE conn[c]]
    /\ UNCHANGED <<serving, last, places, uploads, upload_queue, permit_queue, guest_vars>>

Work(k) == Pop(k) \/ Fresh(k) \/ Call(k) \/ Push(k) \/ DropInstance(k) \/ End(k)

\* The process is gone.
Exited == serving = "exited" /\ UNCHANGED vars

Next ==
    \/ \E c \in Client :
         \/ Accept(c) \/ EndIdle(c) \/ Written(c)
         \/ AnswerHead(c) \/ Request(c) \/ BodyRead(c) \/ BodyFails(c) \/ Disconnect(c)
    \/ accept_failed \/ AdmitBody \/ StartWorker
    \/ \E k \in Task : Work(k)
    \/ Shutdown \/ Return \/ Exit \/ Exited

Spec == Init /\ [][Next]_vars

\* Nobody need connect, send or shut down.  What a peer could stall has a
\* deadline (header_timeout, body_timeout, WriteDeadline), a guest call has
\* its epoch deadline, and tokio hands permits out in order.
Fairness ==
    /\ \A c \in Client :
         /\ WF_vars(EndIdle(c))
         /\ WF_vars(BodyFails(c))
         /\ WF_vars(Written(c))
    /\ WF_vars(AdmitBody)
    /\ WF_vars(StartWorker)
    /\ \A k \in Task : WF_vars(Work(k))
    /\ WF_vars(Return)
    /\ WF_vars(Exit)

FairSpec == Spec /\ Fairness

-----------------------------------------------------------------------------
Holding == {"reading", "ready"}
Connected == {c \in Client : conn[c] # "away"}
Uploading == {c \in Client : conn[c] \in Holding}
Running == {k \in Task : task[k] # "none"}

TypeOK ==
    /\ serving \in {"accepting", "draining", "returned", "exited"}
    /\ conn \in [Client -> Holding \cup {"away", "head", "admission", "waiting", "writing"}]
    /\ last \in [Client -> BOOLEAN]
    /\ places \in Nat /\ uploads \in Nat /\ permits \in Nat
    /\ upload_queue \in Seq(Client) /\ permit_queue \in Seq(Client)
    /\ task \in [Task -> {"none", "pop", "fresh", "call", "push", "drop", "end"}]
    /\ asker \in [Task -> Client \cup {Nobody}]
    /\ using \in [Task -> Instance \cup {Nobody}]
    /\ pool \in Seq(Instance)
    /\ trapped \subseteq Instance

\* runtime.rs: "At most one instance per worker exists, since each call holds
\* one", although an instance is made after the pool was found empty, without
\* its lock.  "Instances kept between calls, one call at a time each; an
\* instance that trapped or broke the interface is dropped, never returned."
OneInstancePerWorker ==
    /\ Cardinality(Live) <= WORKERS
    /\ \A n \in DOMAIN pool : pool[n] \notin trapped
    /\ \A n \in DOMAIN pool, k \in Task : pool[n] # using[k]
    /\ \A n, m \in DOMAIN pool : pool[n] = pool[m] => n = m
    /\ \A k, l \in Task : using[k] = using[l] /\ using[k] # Nobody => k = l

\* An answer goes to the request that asked for it: a client that left and
\* came back never gets the answer to its old request.
AnswersMatch ==
    /\ \A c \in Client : conn[c] = "waiting" <=> \E k \in Task : asker[k] = c
    /\ \A k, l \in Task : asker[k] = asker[l] /\ asker[k] # Nobody => k = l

\* A request that was sent is answered, or its client left: peers that stall
\* with their bodies do not starve it.
EveryRequestEnds ==
    \A c \in Client : conn[c] = "admission" ~> conn[c] \in {"writing", "away"}

\* `serve` "stops accepting, closes idle connections, and returns once the
\* requests in flight are answered", and the process ends.
ShutdownEnds == serving = "draining" ~> serving = "exited"
=============================================================================
