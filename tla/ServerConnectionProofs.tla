----------------------- MODULE ServerConnectionProofs -----------------------
(***************************************************************************)
(* The connection pool of java-wasm over its supervised child, for any     *)
(* number of callers, connections, attempts and restarts.                  *)
(*                                                                         *)
(* OneOwner is not inductive: that poll() hands out what nobody holds      *)
(* rests on the queue's elements being distinct, that a new connection is  *)
(* nobody's rests on every held or pooled one being open, and that a       *)
(* thread adds or closes a connection at all rests on where it is.         *)
(***************************************************************************)
EXTENDS ServerConnection, CountingLemmas

-----------------------------------------------------------------------------
(* ServerProcess supervises at most one child, for every start budget and  *)
(* however children crash, requests fail and the supervisor is closed.     *)
(* LiveChildNotKilled is not inductive: that start() finds the old child   *)
(* dead rests on `Addressed`, which recover() must preserve by forgetting  *)
(* only a dead child, and that needs NoOrphan.                             *)


\* Until stop(), a running child is one callers are sent to.
Addressed == ~stopped /\ alive # {} => target # Null

ProcessInv ==
    /\ ProcessTypeOK
    /\ NoOrphan
    /\ LiveChildNotKilled
    /\ Addressed
    /\ stopping => stopped

\* What start() relies on when target() calls it: no child is running, so
\* destroying the old one destroys nothing.
LEMMA NothingRuns ==
    ASSUME ProcessInv, MayStart
    PROVE  alive = {}
BY DEF ProcessInv, MayStart, Running, Addressed, NoOrphan

\* The first child, started by managed(), satisfies the invariant.
LEMMA InitInv == InitProcess => ProcessInv
<1> SUFFICES ASSUME InitProcess
             PROVE  ProcessInv
    OBVIOUS
<1> USE DEF InitProcess
<1>1. ProcessTypeOK
    <2>1. 1 \in 0..MAX_STARTS_PER_MINUTE
        BY ProcessAssumption
    <2>2. alive \subseteq 1..generation
        OBVIOUS
    <2> QED
        BY <2>1, <2>2 DEF ProcessTypeOK
<1>2. Addressed
    <2>1. 1 # Null
        BY ProcessAssumption
    <2> QED
        BY <2>1 DEF Addressed
<1>3. NoOrphan /\ LiveChildNotKilled /\ (stopping => stopped)
    BY DEF NoOrphan, LiveChildNotKilled
<1> QED
    BY <1>1, <1>2, <1>3 DEF ProcessInv

\* Every step of the supervisor and of its environment keeps the invariant.
LEMMA StepInv == ProcessInv /\ [NextProcess]_process_vars => ProcessInv'
<1> SUFFICES ASSUME ProcessInv, [NextProcess]_process_vars
             PROVE  ProcessInv'
    OBVIOUS
<1> USE ProcessAssumption DEF ProcessInv, ProcessTypeOK, NoOrphan, LiveChildNotKilled, Addressed
<1>1. CASE TargetRefused
    BY <1>1 DEF TargetRefused, process_vars
<1>2. CASE TargetKnown
    BY <1>2 DEF TargetKnown, process_vars
<1>3. CASE StartOverBudget
    BY <1>3, NothingRuns DEF StartOverBudget, MayStart
<1>4. CASE StartFails
    BY <1>4, NothingRuns DEF StartFails, DestroyOld
<1>5. CASE StartSucceeds
    <2>1. alive = {}
        BY <1>5, NothingRuns DEF StartSucceeds, DestroyOld
    <2>2. alive' = {generation'} /\ generation' = generation + 1 /\ killed' = {}
        BY <1>5, <2>1 DEF StartSucceeds, DestroyOld
    <2> QED
        BY <1>5, <2>2 DEF StartSucceeds, DestroyOld
<1>6. ASSUME NEW failed \in 1..generation, recover(failed)
      PROVE  ProcessInv'
    <2>1. target' = Null => target = Null \/ alive = {}
        BY <1>6 DEF recover
    <2> QED
        BY <1>6, <2>1 DEF recover
<1>7. CASE Stop
    BY <1>7 DEF Stop
<1>8. CASE ExitOnEof
    BY <1>8 DEF ExitOnEof
<1>9. CASE Stopped
    BY <1>9 DEF Stopped
<1>10. CASE Crash
    BY <1>10 DEF Crash
<1>11. CASE MinutePasses
    BY <1>11 DEF MinutePasses
<1>12. CASE UNCHANGED process_vars
    BY <1>12 DEF process_vars
<1> QED
    BY <1>1, <1>2, <1>3, <1>4, <1>5, <1>6, <1>7, <1>8, <1>9, <1>10, <1>11, <1>12
    DEF NextProcess

\* Every reachable state of the supervisor satisfies ProcessInv.
THEOREM SupervisorInvariant == ProcessSpec => []ProcessInv
BY InitInv, StepInv, PTL DEF ProcessSpec

\* The supervisor never leaves a child running that its fields do not name.
THEOREM NoOrphanCorrect == ProcessSpec => []NoOrphan
<1>1. ProcessInv => NoOrphan
    BY DEF ProcessInv
<1> QED
    BY <1>1, SupervisorInvariant, PTL

\* start() never destroys a child that still runs.
THEOREM LiveChildNotKilledCorrect == ProcessSpec => []LiveChildNotKilled
<1>1. ProcessInv => LiveChildNotKilled
    BY DEF ProcessInv
<1> QED
    BY <1>1, SupervisorInvariant, PTL

\* Closed, or with its start budget spent, the supervisor starts no child.
THEOREM NeverRestartedCorrect == ProcessSpec => NeverRestarted
<1>1. [NextProcess]_process_vars => [stopped => alive' \subseteq alive]_process_vars
    <2> SUFFICES ASSUME NextProcess, stopped
                 PROVE  alive' \subseteq alive
        OBVIOUS
    <2> QED
        BY DEF NextProcess, process_vars, TargetRefused, TargetKnown, StartOverBudget,
               StartFails, StartSucceeds, DestroyOld, MayStart, recover, Stop, ExitOnEof,
               Stopped, Crash, MinutePasses
<1> QED
    BY <1>1, PTL DEF ProcessSpec, NeverRestarted

-----------------------------------------------------------------------------
(* The pool of connections. *)

\* From the target to recover(), a call knows the child it talks to and has
\* an attempt left.
Attempting == {"take", "count", "connect", "exchange", "recover"}

Places ==
    HoldStates \cup {"idle", "check", "target", "take", "connect", "recover", "recheck",
                    "drain", "stop", "wait", "closed"}

PlacesOK ==
    /\ pc \in [Thread -> Places]
    /\ \A t \in Caller : pc[t] \notin {"stop", "wait", "closed"}
    /\ pc[Closer] \in {"idle", "drain", "drop", "stop", "wait", "closed"}

CallInv ==
    /\ target \in 1..generation \cup {Null}
    /\ \A t \in Caller :
        /\ held[t] \in 1..generation \cup {Null}
        /\ pc[t] \in Attempting => held[t] # Null
        /\ pc[t] \in Attempting \cup {"check", "target"} => attempt[t] < ATTEMPTS

\* A thread has a connection in its hands exactly where the code needs one;
\* no connection is in two hands, in hand and in the pool, or twice in the
\* pool; and all of them are open.
OwnerInv ==
    /\ \A t \in Thread : mine[t] # Null <=> pc[t] \in HoldStates
    /\ \A t \in Thread : mine[t] # Null => open[mine[t]] # Null
    /\ \A c \in Elements(idle) : open[c] # Null
    /\ Distinct(idle)
    /\ \A t, u \in Thread : mine[t] = mine[u] /\ mine[t] # Null => t = u
    /\ \A t \in Thread : mine[t] \notin Elements(idle)

\* Where the counter is ahead of the queue.
Ahead == {"count", "drop", "add", "undo"}

\* The counter is the queue's length and the threads between the two, and it
\* admits no more connections than the pool may keep.
CounterInv ==
    /\ idleCount = Len(idle) + Cardinality(ThreadsAt(Thread, pc, Ahead))
    /\ Len(idle) + Cardinality(ThreadsAt(Thread, pc, {"add"})) <= maxIdle

ConnectionInv ==
    /\ ProcessInv
    /\ TypeOK
    /\ PlacesOK
    /\ CallInv
    /\ OwnerInv
    /\ CounterInv
-----------------------------------------------------------------------------
(* What a step does to who owns which connection. *)

Holds(t) == pc[t] \in HoldStates

OnlyMoves(t) == \A u \in Thread \ {t} : pc'[u] = pc[u]

\* A thread goes on with what it has, or without anything.
Stays(t) ==
    /\ OnlyMoves(t)
    /\ Holds(t) <=> Holds(t)'
    /\ UNCHANGED <<idle, open, mine>>

TakesOut(t) ==
    /\ OnlyMoves(t)
    /\ ~Holds(t) /\ Holds(t)'
    /\ idle # <<>>
    /\ mine' = [mine EXCEPT ![t] = Head(idle)]
    /\ idle' = Tail(idle)
    /\ UNCHANGED open

Opens(t) ==
    /\ OnlyMoves(t)
    /\ ~Holds(t) /\ Holds(t)'
    /\ held[t] \in Nat
    /\ \E c \in Conn :
         /\ open[c] = Null
         /\ open' = [open EXCEPT ![c] = held[t]]
         /\ mine' = [mine EXCEPT ![t] = c]
    /\ UNCHANGED idle

PutsBack(t) ==
    /\ OnlyMoves(t)
    /\ Holds(t) /\ ~Holds(t)'
    /\ idle' = Append(idle, mine[t])
    /\ mine' = [mine EXCEPT ![t] = Null]
    /\ UNCHANGED open

Closes(t) ==
    /\ OnlyMoves(t)
    /\ Holds(t) /\ ~Holds(t)'
    /\ CloseMine(t)
    /\ UNCHANGED idle

Owning ==
    \/ \E t \in Thread : Stays(t) \/ TakesOut(t) \/ Opens(t) \/ PutsBack(t) \/ Closes(t)
    \/ UNCHANGED <<idle, open, mine, pc>>

\* Every step of Next is one of these.
LEMMA NextOwning == ProcessTypeOK /\ CallInv /\ pc \in [Thread -> Places] /\ [Next]_vars => Owning
<1> SUFFICES ASSUME ProcessTypeOK, CallInv, pc \in [Thread -> Places], [Next]_vars
             PROVE  Owning
    OBVIOUS
<1> USE DEF HoldStates, PollStates, Goto, Holds, OnlyMoves, Thread
<1>1. ASSUME NEW t \in Caller, Begin(t) \/ CheckClosed(t) \/ GetTarget(t) \/ Recover(t)
                               \/ Increment(t) \/ Recheck(t)
      PROVE  Stays(t)
    BY <1>1 DEF Begin, CheckClosed, GetTarget, Recover, Increment, Recheck, Stays
<1>2. ASSUME NEW t \in Caller, TakeIdle(t)
      PROVE  TakesOut(t) \/ Stays(t)
    BY <1>2 DEF TakeIdle, Poll, TakesOut, Stays
<1>3. ASSUME NEW t \in Thread, Drain(t)
      PROVE  TakesOut(t) \/ Stays(t)
    BY <1>3 DEF Drain, Poll, TakesOut, Stays
<1>4. ASSUME NEW t \in Caller, Taken(t)
      PROVE  Closes(t) \/ Stays(t)
    BY <1>4 DEF Taken, Closes, Stays
<1>5. ASSUME NEW t \in Caller, Connect(t)
      PROVE  Opens(t) \/ Stays(t)
    BY <1>5 DEF Connect, Opens, Stays, CallInv, Attempting, ProcessTypeOK
<1>6. ASSUME NEW t \in Caller, Exchange(t)
      PROVE  Closes(t) \/ Stays(t)
    BY <1>6 DEF Exchange, Closes, Stays
<1>7. ASSUME NEW t \in Caller, KeepCheck(t)
      PROVE  Closes(t) \/ Stays(t)
    BY <1>7 DEF KeepCheck, Closes, Stays
<1>8. ASSUME NEW t \in Caller, Undo(t)
      PROVE  Closes(t)
    BY <1>8 DEF Undo, Closes
<1>9. ASSUME NEW t \in Caller, Add(t)
      PROVE  PutsBack(t)
    BY <1>9 DEF Add, PutsBack
<1>10. ASSUME NEW t \in Thread, Drop(t)
       PROVE  Closes(t)
    BY <1>10 DEF Drop, Closes
<1>11. CASE SetClosed \/ CloserStep
    BY <1>11 DEF Owning, SetClosed, CloserStep, StopChild, CloseReturns, Stays
<1>12. CASE Outside \/ UNCHANGED vars
    BY <1>12 DEF Owning, Outside, ChildEnds, ServerCloses, vars, connection_vars
<1> QED
    BY <1>1, <1>2, <1>3, <1>4, <1>5, <1>6, <1>7, <1>8, <1>9, <1>10, <1>11, <1>12
    DEF Next, Step, Owning
\* The variables such a step looks at.
OwnerTypeOK ==
    /\ idle \in Seq(Conn)
    /\ open \in [Conn -> Nat \cup {Null}]
    /\ mine \in [Thread -> Conn \cup {Null}]

\* Whatever the step, a connection keeps one owner.
LEMMA OwnerStep ==
    ASSUME OwnerTypeOK, OwnerInv, Owning
    PROVE  OwnerInv'
<1> USE ConnectionAssumption, ProcessAssumption DEF OwnerTypeOK, OnlyMoves, Holds
<1>1. ASSUME NEW t \in Thread, Stays(t)
      PROVE  OwnerInv'
    BY <1>1 DEF Stays, OwnerInv
<1>2. ASSUME NEW t \in Thread, TakesOut(t)
      PROVE  OwnerInv'
    <2>1. /\ Head(idle) \in Elements(idle)
          /\ Head(idle) \in Conn
          /\ Elements(idle') \subseteq Elements(idle)
          /\ Distinct(idle') /\ Head(idle) \notin Elements(idle')
        BY <1>2, TailElements DEF TakesOut, OwnerInv
    <2>2. mine[t] = Null /\ mine'[t] = Head(idle) /\ \A u \in Thread \ {t} : mine'[u] = mine[u]
        BY <1>2 DEF TakesOut, OwnerInv
    <2>3. open[Head(idle)] # Null /\ \A u \in Thread : mine[u] # Head(idle)
        BY <2>1 DEF OwnerInv
    <2> QED
        BY <1>2, <2>1, <2>2, <2>3 DEF TakesOut, OwnerInv
<1>3. ASSUME NEW t \in Thread, Opens(t)
      PROVE  OwnerInv'
    <2>1. PICK c \in Conn : /\ open[c] = Null
                            /\ open' = [open EXCEPT ![c] = held[t]]
                            /\ mine' = [mine EXCEPT ![t] = c]
        BY <1>3 DEF Opens
    <2>2. c \notin Elements(idle) /\ \A u \in Thread : mine[u] # c
        BY <2>1 DEF OwnerInv
    <2>3. open'[c] # Null /\ \A d \in Conn \ {c} : open'[d] = open[d]
        BY <1>3, <2>1 DEF Opens
    <2>4. Elements(idle) \subseteq Conn
        BY DEF Elements
    <2> QED
        BY <1>3, <2>1, <2>2, <2>3, <2>4 DEF Opens, OwnerInv
<1>4. ASSUME NEW t \in Thread, PutsBack(t)
      PROVE  OwnerInv'
    <2>1. mine[t] \in Conn /\ mine[t] \notin Elements(idle) /\ open[mine[t]] # Null
        BY <1>4 DEF PutsBack, OwnerInv
    <2>2. Elements(idle') = Elements(idle) \cup {mine[t]} /\ Distinct(idle')
        BY <1>4, <2>1, AppendElements DEF PutsBack, OwnerInv
    <2>3. mine'[t] = Null /\ \A u \in Thread \ {t} : mine'[u] = mine[u] /\ mine[u] # mine[t]
        BY <1>4, <2>1 DEF PutsBack, OwnerInv
    <2>4. Null \notin Elements(idle)
        BY DEF Elements
    <2>5. \A u \in Thread : mine'[u] \notin Elements(idle')
        BY <2>1, <2>2, <2>3, <2>4 DEF OwnerInv
    <2> QED
        BY <1>4, <2>1, <2>2, <2>3, <2>5 DEF PutsBack, OwnerInv
<1>5. ASSUME NEW t \in Thread, Closes(t)
      PROVE  OwnerInv'
    <2>1. mine[t] \in Conn /\ mine[t] \notin Elements(idle)
        BY <1>5 DEF Closes, OwnerInv
    <2>2. Elements(idle) \subseteq Conn
        BY DEF Elements
    <2>3. \A d \in Conn \ {mine[t]} : open'[d] = open[d]
        BY <1>5, <2>1 DEF Closes, CloseMine
    <2> QED
        BY <1>5, <2>1, <2>2, <2>3 DEF Closes, CloseMine, OwnerInv
<1>6. CASE UNCHANGED <<idle, open, mine, pc>>
    BY <1>6 DEF OwnerInv
<1> QED
    BY <1>1, <1>2, <1>3, <1>4, <1>5, <1>6 DEF Owning

\* Nor does a step put anything but connections where they belong.
LEMMA OwnerTypeStep ==
    ASSUME OwnerTypeOK, OwnerInv, Owning
    PROVE  OwnerTypeOK'
<1> USE ConnectionAssumption DEF OwnerTypeOK
<1>1. ASSUME NEW t \in Thread, Stays(t)
      PROVE  OwnerTypeOK'
    BY <1>1 DEF Stays
<1>2. ASSUME NEW t \in Thread, TakesOut(t)
      PROVE  OwnerTypeOK'
    <2>1. Head(idle) \in Conn /\ Tail(idle) \in Seq(Conn)
        BY <1>2 DEF TakesOut
    <2> QED
        BY <1>2, <2>1 DEF TakesOut
<1>3. ASSUME NEW t \in Thread, Opens(t)
      PROVE  OwnerTypeOK'
    BY <1>3 DEF Opens
<1>4. ASSUME NEW t \in Thread, PutsBack(t) \/ Closes(t)
      PROVE  OwnerTypeOK'
    <2>1. mine[t] \in Conn
        BY <1>4 DEF PutsBack, Closes, Holds, OwnerInv
    <2>2. CASE PutsBack(t)
        BY <2>1, <2>2 DEF PutsBack
    <2>3. CASE Closes(t)
        BY <2>1, <2>3 DEF Closes, CloseMine
    <2> QED
        BY <1>4, <2>2, <2>3
<1>5. CASE UNCHANGED <<idle, open, mine, pc>>
    BY <1>5
<1> QED
    BY <1>1, <1>2, <1>3, <1>4, <1>5 DEF Owning

-----------------------------------------------------------------------------
(* The composition drives the supervisor as ServerProcess alone allows. *)

\* Every step of Next is a step of the supervisor or leaves it alone: the
\* child a call recovers from is one that was started.
LEMMA NextIsProcessStep == CallInv /\ [Next]_vars => [NextProcess]_process_vars
<1> SUFFICES ASSUME CallInv, [Next]_vars
             PROVE  [NextProcess]_process_vars
    OBVIOUS
<1>1. ASSUME NEW t \in Caller, GetTarget(t)
      PROVE  NextProcess
    BY <1>1 DEF GetTarget, NextProcess
<1>2. ASSUME NEW t \in Caller, Recover(t)
      PROVE  NextProcess
    <2>1. held[t] \in 1..generation
        BY <1>2 DEF Recover, CallInv, Attempting
    <2> QED
        BY <1>2, <2>1 DEF Recover, NextProcess
<1>3. ASSUME NEW t \in Caller, Begin(t) \/ CheckClosed(t) \/ TakeIdle(t) \/ Taken(t) \/ Connect(t)
                               \/ Exchange(t) \/ KeepCheck(t) \/ Increment(t) \/ Undo(t)
                               \/ Add(t) \/ Recheck(t)
      PROVE  UNCHANGED process_vars
    BY <1>3 DEF Begin, CheckClosed, TakeIdle, Poll, Taken, Connect, Exchange, KeepCheck,
                Increment, Undo, Add, Recheck
<1>4. ASSUME NEW t \in Thread, Drain(t) \/ Drop(t)
      PROVE  UNCHANGED process_vars
    BY <1>4 DEF Drain, Poll, Drop
<1>5. CASE SetClosed \/ CloserStep
    BY <1>5 DEF SetClosed, CloserStep, StopChild, CloseReturns, NextProcess
<1>6. CASE Outside \/ UNCHANGED vars
    BY <1>6 DEF Outside, ChildEnds, ServerCloses, NextProcess, vars
<1> QED
    BY <1>1, <1>2, <1>3, <1>4, <1>5, <1>6 DEF Next, Step
-----------------------------------------------------------------------------
(* Where the threads are, and the counter. *)

\* A step of one thread, or of none, leads from a place of the code to one.
LEMMA PlaceStep ==
    ASSUME PlacesOK, [Next]_vars
    PROVE  PlacesOK'
<1> DEFINE Body == Places \ {"stop", "wait", "closed"}
<1> USE ConnectionAssumption DEF PlacesOK, Places, HoldStates, PollStates, Goto, Thread
<1>1. ASSUME NEW t \in Caller, Begin(t) \/ CheckClosed(t) \/ GetTarget(t) \/ TakeIdle(t) \/ Taken(t)
      PROVE  \E x \in Body : pc' = [pc EXCEPT ![t] = x]
    BY <1>1 DEF Begin, CheckClosed, GetTarget, TakeIdle, Poll, Taken
<1>2. ASSUME NEW t \in Caller, Connect(t) \/ Exchange(t) \/ Recover(t) \/ KeepCheck(t)
      PROVE  \E x \in Body : pc' = [pc EXCEPT ![t] = x]
    BY <1>2 DEF Connect, Exchange, Recover, KeepCheck
<1>3. ASSUME NEW t \in Caller, Increment(t) \/ Undo(t) \/ Add(t) \/ Recheck(t)
      PROVE  \E x \in Body : pc' = [pc EXCEPT ![t] = x]
    BY <1>3 DEF Increment, Undo, Add, Recheck
<1>4. ASSUME NEW t \in Caller, \E x \in Body : pc' = [pc EXCEPT ![t] = x]
      PROVE  PlacesOK'
    BY <1>4
<1>5. ASSUME NEW t \in Thread, Drain(t) \/ Drop(t)
      PROVE  PlacesOK'
    <2>1. \E x \in {"drain", "drop", IF t = Closer THEN "stop" ELSE "idle"} :
             pc' = [pc EXCEPT ![t] = x]
        BY <1>5 DEF Drain, Poll, Drop
    <2> QED
        BY <2>1
<1>6. CASE SetClosed \/ CloserStep
    BY <1>6 DEF SetClosed, CloserStep, StopChild, CloseReturns
<1>7. CASE Outside \/ UNCHANGED vars
    BY <1>7 DEF Outside, ChildEnds, ServerCloses, vars, connection_vars
<1> QED
    BY <1>1, <1>2, <1>3, <1>4, <1>5, <1>6, <1>7 DEF Next, Step
\* What a step does to the counter, to the queue's length and to who is
\* between them.
Counting ==
    \/ UNCHANGED <<idle, idleCount, pc>>
    \/ \E t \in Thread :
         /\ OnlyMoves(t)
         /\ \/ /\ pc[t] \notin Ahead /\ pc'[t] \notin Ahead
               /\ UNCHANGED <<idle, idleCount>>
            \/ /\ pc[t] \notin Ahead /\ pc'[t] \in {"count", "drop"}
               /\ idle # <<>> /\ idle' = Tail(idle)
               /\ UNCHANGED idleCount
            \/ /\ pc[t] \in Ahead \ {"add"} /\ pc'[t] \notin Ahead
               /\ idleCount' = idleCount - 1
               /\ UNCHANGED idle
            \/ /\ pc[t] \notin Ahead
               /\ pc'[t] = IF idleCount + 1 <= maxIdle THEN "add" ELSE "undo"
               /\ idleCount' = idleCount + 1
               /\ UNCHANGED idle
            \/ /\ pc[t] = "add" /\ pc'[t] \notin Ahead
               /\ mine[t] \in Conn /\ idle' = Append(idle, mine[t])
               /\ UNCHANGED idleCount

\* Every step of Next is one of these.
LEMMA NextCounting ==
    ASSUME PlacesOK, OwnerTypeOK, OwnerInv, [Next]_vars
    PROVE  Counting
<1> USE DEF PlacesOK, Ahead, Goto, OnlyMoves, Thread
<1>1. ASSUME NEW t \in Caller, Begin(t) \/ CheckClosed(t) \/ GetTarget(t) \/ Connect(t)
                               \/ Exchange(t) \/ Recover(t) \/ KeepCheck(t) \/ Recheck(t)
      PROVE  Counting
    BY <1>1 DEF Counting, Begin, CheckClosed, GetTarget, Connect, Exchange, Recover, KeepCheck, Recheck
<1>2. ASSUME NEW t \in Caller, TakeIdle(t)
      PROVE  Counting
    BY <1>2 DEF Counting, TakeIdle, Poll
<1>3. ASSUME NEW t \in Thread, Drain(t)
      PROVE  Counting
    BY <1>3 DEF Counting, Drain, Poll
<1>4. ASSUME NEW t \in Caller, Taken(t)
      PROVE  Counting
    BY <1>4 DEF Counting, Taken
<1>5. ASSUME NEW t \in Thread, Drop(t)
      PROVE  Counting
    BY <1>5 DEF Counting, Drop
<1>6. ASSUME NEW t \in Caller, Undo(t)
      PROVE  Counting
    BY <1>6 DEF Counting, Undo
<1>7. ASSUME NEW t \in Caller, Increment(t)
      PROVE  Counting
    BY <1>7 DEF Counting, Increment
<1>8. ASSUME NEW t \in Caller, Add(t)
      PROVE  Counting
    <2>1. mine[t] \in Conn
        BY <1>8 DEF Add, OwnerTypeOK, OwnerInv, HoldStates
    <2> QED
        BY <1>8, <2>1 DEF Counting, Add
<1>9. CASE SetClosed \/ CloserStep
    BY <1>9 DEF Counting, SetClosed, CloserStep, StopChild, CloseReturns
<1>10. CASE Outside \/ UNCHANGED vars
    BY <1>10 DEF Counting, Outside, ChildEnds, ServerCloses, vars, connection_vars
<1> QED
    BY <1>1, <1>2, <1>3, <1>4, <1>5, <1>6, <1>7, <1>8, <1>9, <1>10 DEF Next, Step

\* The counter stays the queue's length and those threads.
LEMMA CounterStep ==
    ASSUME OwnerTypeOK, CounterInv, Counting
    PROVE  CounterInv'
<1> DEFINE n == Cardinality(ThreadsAt(Thread, pc, Ahead))
           m == Cardinality(ThreadsAt(Thread, pc, {"add"}))
<1>1. IsFiniteSet(Thread)
    BY ConnectionAssumption, FS_AddElement DEF Thread
<1>2. n \in Nat /\ m \in Nat
    BY <1>1, AtFinite
<1>3. m <= n
    <2>1. ThreadsAt(Thread, pc, {"add"}) \in SUBSET ThreadsAt(Thread, pc, Ahead)
        BY DEF ThreadsAt, Ahead
    <2> QED
        BY <2>1, <1>1, AtFinite, FS_Subset
<1>4. idleCount = Len(idle) + n /\ Len(idle) + m <= maxIdle /\ Len(idle) \in Nat /\ maxIdle \in Nat
    BY ConnectionAssumption DEF CounterInv, OwnerTypeOK
<1>5. ASSUME UNCHANGED <<idle, idleCount, pc>>
      PROVE  idleCount' = Len(idle') + n' /\ Len(idle') + m' <= maxIdle
    BY <1>4, <1>5 DEF ThreadsAt
<1>6. ASSUME NEW t \in Thread, OnlyMoves(t)
      PROVE  /\ n' = IF pc[t] \in Ahead <=> pc'[t] \in Ahead THEN n
                     ELSE IF pc'[t] \in Ahead THEN n + 1 ELSE n - 1
             /\ m' = IF pc[t] = "add" <=> pc'[t] = "add" THEN m
                     ELSE IF pc'[t] = "add" THEN m + 1 ELSE m - 1
    <2>1. \A u \in Thread \ {t} : pc'[u] = pc[u]
        BY <1>6 DEF OnlyMoves
    <2>2. n' = IF pc[t] \in Ahead <=> pc'[t] \in Ahead THEN n
               ELSE IF pc'[t] \in Ahead THEN n + 1 ELSE n - 1
        BY <2>1, <1>1, AtMoves
    <2>3. m' = IF pc[t] \in {"add"} <=> pc'[t] \in {"add"} THEN m
               ELSE IF pc'[t] \in {"add"} THEN m + 1 ELSE m - 1
        BY <2>1, <1>1, AtMoves
    <2> QED
        BY <2>2, <2>3
<1> SUFFICES idleCount' = Len(idle') + n' /\ Len(idle') + m' <= maxIdle
    BY DEF CounterInv
<1> HIDE DEF n, m
<1>7. ASSUME NEW t \in Thread, OnlyMoves(t), pc[t] \notin Ahead, pc'[t] \notin Ahead,
             UNCHANGED <<idle, idleCount>>
      PROVE  idleCount' = Len(idle') + n' /\ Len(idle') + m' <= maxIdle
    BY <1>2, <1>4, <1>6, <1>7 DEF Ahead
<1>8. ASSUME NEW t \in Thread, OnlyMoves(t), pc[t] \notin Ahead, pc'[t] \in {"count", "drop"},
             idle # <<>>, idle' = Tail(idle), UNCHANGED idleCount
      PROVE  idleCount' = Len(idle') + n' /\ Len(idle') + m' <= maxIdle
    <2>1. Len(idle') = Len(idle) - 1
        BY <1>8 DEF OwnerTypeOK
    <2>2. n' = n + 1 /\ m' = m
        BY <1>6, <1>8 DEF Ahead
    <2> QED
        BY <2>1, <2>2, <1>2, <1>4, <1>8
<1>9. ASSUME NEW t \in Thread, OnlyMoves(t), pc[t] \in Ahead \ {"add"}, pc'[t] \notin Ahead,
             idleCount' = idleCount - 1, UNCHANGED idle
      PROVE  idleCount' = Len(idle') + n' /\ Len(idle') + m' <= maxIdle
    <2>1. n' = n - 1 /\ m' = m
        BY <1>6, <1>9 DEF Ahead
    <2> QED
        BY <2>1, <1>2, <1>4, <1>9
<1>10. ASSUME NEW t \in Thread, OnlyMoves(t), pc[t] \notin Ahead,
              pc'[t] = IF idleCount + 1 <= maxIdle THEN "add" ELSE "undo",
              idleCount' = idleCount + 1, UNCHANGED idle
      PROVE  idleCount' = Len(idle') + n' /\ Len(idle') + m' <= maxIdle
    <2>1. n' = n + 1
        BY <1>6, <1>10 DEF Ahead
    <2>2. m' = IF idleCount + 1 <= maxIdle THEN m + 1 ELSE m
        BY <1>6, <1>10 DEF Ahead
    <2> QED
        BY <2>1, <2>2, <1>2, <1>3, <1>4, <1>10
<1>11. ASSUME NEW t \in Thread, OnlyMoves(t), pc[t] = "add", pc'[t] \notin Ahead,
              mine[t] \in Conn, idle' = Append(idle, mine[t]), UNCHANGED idleCount
      PROVE  idleCount' = Len(idle') + n' /\ Len(idle') + m' <= maxIdle
    <2>1. Len(idle') = Len(idle) + 1
        BY <1>11 DEF OwnerTypeOK
    <2>2. n' = n - 1 /\ m' = m - 1
        BY <1>6, <1>11 DEF Ahead
    <2> QED
        BY <2>1, <2>2, <1>2, <1>4, <1>11
<1> QED
    BY <1>5, <1>7, <1>8, <1>9, <1>10, <1>11 DEF Counting
-----------------------------------------------------------------------------
(* The call's own variables. *)

\* What a caller is sent to was started, and it has attempts left while it
\* is in an attempt.
LEMMA CallStep ==
    ASSUME ProcessTypeOK, TypeOK, PlacesOK, CallInv, [Next]_vars
    PROVE  /\ CallInv'
           /\ attempt' \in [Caller -> 0..ATTEMPTS]
           /\ held' \in [Caller -> Nat \cup {Null}]
<1> DEFINE Typed == /\ attempt \in [Caller -> 0..ATTEMPTS]
                    /\ held \in [Caller -> Nat \cup {Null}]
<1> USE ConnectionAssumption, ProcessAssumption DEF CallInv, PlacesOK, Attempting
<1>1. /\ generation \in Nat /\ generation' \in Nat /\ generation' >= generation
      /\ target' \in 1..generation' \cup {Null}
    <2>1. [NextProcess]_process_vars
        BY NextIsProcessStep
    <2> QED
        BY <2>1 DEF NextProcess, process_vars, TargetRefused, TargetKnown, StartOverBudget,
               StartFails, StartSucceeds, DestroyOld, MayStart, recover, Stop, ExitOnEof,
               Stopped, Crash, MinutePasses, ProcessTypeOK
<1>2. Typed /\ ATTEMPTS \in Nat \ {0}
    BY DEF TypeOK
<1>3. ASSUME NEW t \in Caller, Begin(t)
      PROVE  CallInv' /\ Typed'
    BY <1>1, <1>2, <1>3 DEF Begin, Goto, Thread
<1>4. ASSUME NEW t \in Caller, GetTarget(t)
      PROVE  CallInv' /\ Typed'
    <2>1. CASE Goto(t, "target", "take") /\ (TargetKnown \/ StartSucceeds)
               /\ held' = [held EXCEPT ![t] = target']
        <3>1. target' # Null
            BY <2>1 DEF TargetKnown, Running, StartSucceeds, process_vars, ProcessTypeOK, DestroyOld
        <3> QED
            BY <1>1, <1>2, <1>4, <2>1, <3>1 DEF GetTarget, Goto, Thread
    <2>2. CASE Goto(t, "target", "idle") /\ UNCHANGED held
        BY <1>1, <1>2, <1>4, <2>2 DEF GetTarget, Goto, Thread
    <2> QED
        BY <1>4, <2>1, <2>2 DEF GetTarget
<1>5. ASSUME NEW t \in Caller, Recover(t)
      PROVE  CallInv' /\ Typed'
    <2>1. /\ attempt[t] < ATTEMPTS
          /\ attempt' = [attempt EXCEPT ![t] = attempt[t] + 1]
          /\ pc' = [pc EXCEPT ![t] = IF attempt'[t] < ATTEMPTS THEN "check" ELSE "idle"]
          /\ held' = held
        BY <1>5 DEF Recover, Goto
    <2> QED
        BY <1>1, <1>2, <2>1 DEF Thread
\* The other steps keep the attempt and the target, and enter an attempt
\* only from inside one.
<1>6. ASSUME UNCHANGED <<attempt, held>>,
             \A t \in Caller : /\ pc'[t] \in Attempting => pc[t] \in Attempting
                               /\ pc'[t] \in Attempting \cup {"check", "target"} =>
                                    pc[t] \in Attempting \cup {"check", "target"}
      PROVE  CallInv' /\ Typed'
    BY <1>1, <1>2, <1>6
<1>7. ASSUME NEW t \in Caller, CheckClosed(t) \/ TakeIdle(t) \/ Taken(t) \/ Connect(t)
                               \/ Exchange(t) \/ KeepCheck(t) \/ Increment(t) \/ Undo(t)
                               \/ Add(t) \/ Recheck(t)
      PROVE  CallInv' /\ Typed'
    <2> HIDE DEF CallInv
    <2> QED
        BY <1>6, <1>7 DEF CheckClosed, TakeIdle, Poll, Taken, Connect, Exchange, KeepCheck,
                Increment, Undo, Add, Recheck, Goto, Thread
<1>8. ASSUME NEW t \in Thread, Drain(t) \/ Drop(t)
      PROVE  CallInv' /\ Typed'
    BY <1>6, <1>8 DEF Drain, Poll, Drop, Goto, Thread
<1>9. CASE SetClosed \/ CloserStep
    BY <1>6, <1>9 DEF SetClosed, CloserStep, StopChild, CloseReturns, Goto, Thread
<1>10. CASE Outside \/ UNCHANGED vars
    BY <1>6, <1>10 DEF Outside, ChildEnds, ServerCloses, vars, connection_vars
<1> QED
    BY <1>3, <1>4, <1>5, <1>7, <1>8, <1>9, <1>10 DEF Next, Step
-----------------------------------------------------------------------------
\* The flag and the two sets kept to describe dropped connections.
LEMMA RestStep ==
    ASSUME TypeOK, [Next]_vars
    PROVE  closed' \in BOOLEAN /\ dropped' \in SUBSET Conn /\ stale' \in [Caller -> 0..ATTEMPTS]
<1> USE ConnectionAssumption DEF TypeOK
<1>1. closed' \in {closed, TRUE}
    BY DEF Next, Step, Begin, CheckClosed, GetTarget, TakeIdle, Poll, Taken, Connect, Exchange, Recover,
           KeepCheck, Increment, Undo, Add, Recheck, Drain, Drop, SetClosed, CloserStep,
           StopChild, CloseReturns, Outside, ChildEnds, ServerCloses, vars, connection_vars
<1>2. dropped' \in SUBSET Conn
    <2>1. CASE ServerCloses
        BY <2>1 DEF ServerCloses
    <2>2. CASE dropped' \subseteq dropped
        BY <2>2
    <2> QED
        BY <2>1, <2>2
        DEF Next, Step, Begin, CheckClosed, GetTarget, TakeIdle, Poll, Taken, Connect, Exchange, Recover,
            KeepCheck, Increment, Undo, Add, Recheck, Drain, Drop, SetClosed, CloserStep,
            StopChild, CloseReturns, Outside, ChildEnds, vars, connection_vars, CloseMine
<1>3. stale' \in [Caller -> 0..ATTEMPTS]
    <2>1. ASSUME NEW t \in Caller, Begin(t) \/ Exchange(t)
          PROVE  stale' \in [Caller -> 0..ATTEMPTS]
        BY <2>1 DEF Begin, Exchange, OneMore
    <2>2. CASE UNCHANGED stale
        BY <2>2
    <2> QED
        BY <2>1, <2>2
        DEF Next, Step, CheckClosed, GetTarget, TakeIdle, Poll, Taken, Connect, Recover,
            KeepCheck, Increment, Undo, Add, Recheck, Drain, Drop, SetClosed, CloserStep,
            StopChild, CloseReturns, Outside, ChildEnds, ServerCloses, vars, connection_vars
<1> QED
    BY <1>1, <1>2, <1>3

\* Before any call: the first child runs, no connection is open.
LEMMA InitConnectionInv == Init => ConnectionInv
<1> SUFFICES ASSUME Init
             PROVE  ConnectionInv
    OBVIOUS
<1> USE ConnectionAssumption, ProcessAssumption DEF Init
<1>1. ProcessInv
    BY InitInv
<1>2. PlacesOK
    BY DEF PlacesOK, Places, Thread
<1>3. TypeOK
    <2>1. <<>> \in Seq(Conn) /\ 0 \in 0..ATTEMPTS
        OBVIOUS
    <2>2. \A t \in Thread : pc[t] = "idle"
        OBVIOUS
    <2>3. ProcessTypeOK
        BY <1>1 DEF ProcessInv
    <2> QED
        BY <2>1, <2>2, <2>3 DEF TypeOK, Thread
<1>4. CallInv
    BY DEF CallInv, Attempting, InitProcess, Thread
<1>5. OwnerInv
    BY DEF OwnerInv, Elements, Distinct, HoldStates, PollStates
<1>6. CounterInv
    <2>1. ThreadsAt(Thread, pc, Ahead) = {} /\ ThreadsAt(Thread, pc, {"add"}) = {}
        BY DEF ThreadsAt, Ahead
    <2>2. Cardinality({}) = 0
        BY FS_EmptySet
    <2>3. Len(idle) = 0 /\ idleCount = 0 /\ maxIdle \in Nat
        OBVIOUS
    <2>4. Cardinality(ThreadsAt(Thread, pc, Ahead)) = 0 /\ Cardinality(ThreadsAt(Thread, pc, {"add"})) = 0
        BY <2>1, <2>2, Zenon
    <2> QED
        BY <2>3, <2>4 DEF CounterInv
<1> QED
    BY <1>1, <1>2, <1>3, <1>4, <1>5, <1>6 DEF ConnectionInv

\* Every step of a caller, of close(), of the child and of the server at the
\* other end keeps the invariant.
LEMMA StepConnectionInv == ConnectionInv /\ [Next]_vars => ConnectionInv'
<1> SUFFICES ASSUME ConnectionInv, [Next]_vars
             PROVE  ConnectionInv'
    OBVIOUS
<1>1. ProcessInv /\ ProcessTypeOK /\ TypeOK /\ PlacesOK /\ CallInv /\ OwnerInv /\ CounterInv
    BY DEF ConnectionInv, ProcessInv
<1>2. OwnerTypeOK
    BY <1>1 DEF TypeOK, OwnerTypeOK
<1>3. Owning
    BY <1>1, NextOwning DEF PlacesOK
<1>4. Counting
    BY <1>1, <1>2, NextCounting
<1>5. ProcessInv'
    BY <1>1, NextIsProcessStep, StepInv
<1>6. PlacesOK' /\ OwnerInv' /\ OwnerTypeOK' /\ CounterInv'
    BY <1>1, <1>2, <1>3, <1>4, PlaceStep, OwnerStep, OwnerTypeStep, CounterStep
<1>7. CallInv' /\ attempt' \in [Caller -> 0..ATTEMPTS] /\ held' \in [Caller -> Nat \cup {Null}]
    BY <1>1, CallStep
<1>8. closed' \in BOOLEAN /\ dropped' \in SUBSET Conn /\ stale' \in [Caller -> 0..ATTEMPTS]
    BY <1>1, RestStep
<1>9. idleCount' \in Nat
    <2>1. IsFiniteSet(Thread)
        BY ConnectionAssumption, FS_AddElement DEF Thread
    <2>2. Cardinality(ThreadsAt(Thread, pc', Ahead)) \in Nat /\ Len(idle') \in Nat
        BY <2>1, <1>6, AtFinite DEF OwnerTypeOK
    <2> QED
        BY <2>2, <1>6 DEF CounterInv
<1>10. TypeOK'
    BY <1>5, <1>6, <1>7, <1>8, <1>9 DEF TypeOK, OwnerTypeOK, PlacesOK, Places, ProcessInv, Thread
<1> QED
    BY <1>5, <1>6, <1>7, <1>10 DEF ConnectionInv

\* Every reachable state of the pool and its child satisfies ConnectionInv.
THEOREM ConnectionInvariant == Spec => []ConnectionInv
BY InitConnectionInv, StepConnectionInv, PTL DEF Spec

\* "One request at a time on each" HttpConn: a connection is in one thread's
\* hands or once in the pool, whatever calls, close() and the child do.
THEOREM OneOwnerCorrect == Spec => []OneOwner
<1>1. ConnectionInv => OneOwner
    <2> SUFFICES ASSUME ConnectionInv
                 PROVE  OneOwner
        OBVIOUS
    <2>1. Cardinality(Elements(idle)) = Len(idle)
        BY DistinctCount DEF ConnectionInv, TypeOK, OwnerInv
    <2>2. Idle = Elements(idle)
        BY DEF Idle, Elements
    <2> QED
        BY <2>1, <2>2 DEF OneOwner, ConnectionInv, OwnerInv
<1> QED
    BY <1>1, ConnectionInvariant, PTL

\* The calls of any number of threads, with close() at any time, drive the
\* supervisor only as ServerProcess allows: the composition implements it.
THEOREM ConnectionDrivesProcess == Spec => ProcessSpec
<1>1. Init => InitProcess
    BY DEF Init
<1>2. ConnectionInv /\ [Next]_vars => [NextProcess]_process_vars
    BY NextIsProcessStep DEF ConnectionInv
<1> QED
    BY <1>1, <1>2, ConnectionInvariant, PTL DEF Spec, ProcessSpec

\* So no call leaves a child behind that nobody will end,
THEOREM NoOrphanUnderCalls == Spec => []NoOrphan
BY ConnectionDrivesProcess, NoOrphanCorrect, PTL

\* no call, however its request failed, makes start() destroy a running child,
THEOREM LiveChildNotKilledUnderCalls == Spec => []LiveChildNotKilled
BY ConnectionDrivesProcess, LiveChildNotKilledCorrect, PTL

\* and no call revives a child after close() or after the budget was spent.
THEOREM NeverRestartedUnderCalls == Spec => NeverRestarted
BY ConnectionDrivesProcess, NeverRestartedCorrect, PTL

\* keepIdle(): the pool never keeps more than maxIdle connections, and the
\* counter is never behind it, although each is updated without the other.
AtMostMaxIdle == Len(idle) <= maxIdle /\ Len(idle) <= idleCount

THEOREM AtMostMaxIdleCorrect == Spec => []AtMostMaxIdle
<1>1. ConnectionInv => AtMostMaxIdle
    <2> SUFFICES ASSUME ConnectionInv
                 PROVE  AtMostMaxIdle
        OBVIOUS
    <2>1. IsFiniteSet(Thread)
        BY ConnectionAssumption, FS_AddElement DEF Thread
    <2>2. /\ Cardinality(ThreadsAt(Thread, pc, Ahead)) \in Nat
          /\ Cardinality(ThreadsAt(Thread, pc, {"add"})) \in Nat
        BY <2>1, AtFinite
    <2>3. Len(idle) \in Nat /\ maxIdle \in Nat
        BY ConnectionAssumption DEF ConnectionInv, TypeOK
    <2> QED
        BY <2>2, <2>3 DEF AtMostMaxIdle, ConnectionInv, CounterInv
<1> QED
    BY <1>1, ConnectionInvariant, PTL
=============================================================================
