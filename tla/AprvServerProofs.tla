-------------------------- MODULE AprvServerProofs --------------------------
(***************************************************************************)
(* aprv-server for any number of clients, connections, upload permits,     *)
(* workers, tasks and instances: a client's answer is its own, each worker *)
(* has at most one instance, and no permit of the three semaphores is lost *)
(* or used twice, whatever clients disconnect and whatever guests trap.    *)
(*                                                                         *)
(* None of this is inductive alone.  That a client does not get an old     *)
(* answer rests on tasks that ended having no asker; that the instances    *)
(* are at most WORKERS rests on the permits being accounted for, because   *)
(* an instance is made after the pool was found empty, without its lock.   *)
(***************************************************************************)
EXTENDS AprvServer, CountingLemmas

\* A semaphore's list holds exactly the clients that wait for it, once each.
QueueInv ==
    /\ Distinct(upload_queue)
    /\ \A c \in Client : c \in Elements(upload_queue) <=> conn[c] = "admission"
    /\ Distinct(permit_queue)
    /\ \A c \in Client : c \in Elements(permit_queue) <=> conn[c] = "ready"

OnLine == Holding \cup {"head", "admission", "waiting", "writing"}
Busy == {"pop", "fresh", "call", "push", "drop", "end"}

\* Every permit is in its semaphore or with whoever the code says holds it.
PermitInv ==
    /\ places + Cardinality(ThreadsAt(Client, conn, OnLine)) = MAX_CONNECTIONS
    /\ uploads + Cardinality(ThreadsAt(Client, conn, Holding)) = UPLOADS
    /\ permits + Cardinality(ThreadsAt(Task, task, Busy)) = WORKERS

AskerInv ==
    /\ AnswersMatch
    /\ \A k \in Task : task[k] = "none" => asker[k] = Nobody

\* Where a closure has an instance in its hands, and where it accounts for one.
InHand == {"call", "push", "drop"}
Needing == {"fresh"} \cup InHand

InstanceInv ==
    /\ \A k \in Task : using[k] # Nobody <=> task[k] \in InHand
    /\ Distinct(pool)
    /\ \A k \in Task : using[k] \notin Elements(pool)
    /\ \A k, l \in Task : using[k] = using[l] /\ using[k] # Nobody => k = l
    /\ \A i \in trapped : \E k \in Task : using[k] = i /\ task[k] = "drop"
    /\ Len(pool) + Cardinality(ThreadsAt(Task, task, Needing)) <= WORKERS

ServerInv == TypeOK /\ QueueInv /\ PermitInv /\ AskerInv /\ InstanceInv

-----------------------------------------------------------------------------
\* A dropped future leaves the list; the others stay, each once.
LEMMA WithoutElements ==
    ASSUME NEW S, NEW q \in Seq(S), Distinct(q), NEW c
    PROVE  /\ Without(q, c) \in Seq(S)
           /\ Distinct(Without(q, c))
           /\ Elements(Without(q, c)) = Elements(q) \ {c}
<1>1. Len(q) \in Nat /\ DOMAIN q = 1..Len(q) /\ \A n \in 1..Len(q) : q[n] \in S
    OBVIOUS
<1>2. CASE ~ \E n \in DOMAIN q : q[n] = c
    BY <1>2 DEF Without, Elements
<1>3. CASE \E n \in DOMAIN q : q[n] = c
    <2> DEFINE at == CHOOSE n \in DOMAIN q : q[n] = c
               k == Len(q) - 1
               w == [n \in 1..k |-> IF n < at THEN q[n] ELSE q[n + 1]]
    <2>1. Without(q, c) = w
        BY <1>3 DEF Without
    <2>2. at \in 1..Len(q) /\ q[at] = c
        BY <1>1, <1>3
    <2> HIDE DEF at
    <2>3. k \in Nat /\ Len(q) = k + 1
        BY <1>1, <2>2
    <2>4. \A n \in 1..k : n \in 1..Len(q) /\ n + 1 \in 1..Len(q)
        BY <1>1, <2>3
    <2> HIDE DEF k
    <2>5. /\ DOMAIN w = 1..k
          /\ \A n \in 1..k : n < at => w[n] = q[n]
          /\ \A n \in 1..k : ~(n < at) => w[n] = q[n + 1]
        OBVIOUS
    <2>6. w \in Seq(S)
        <3>1. w \in [1..k -> S]
            BY <1>1, <2>4
        <3> QED
            BY <2>3, <3>1, SeqDef
    <2> HIDE DEF w
    <2>7. \A n \in 1..Len(q) : n # at => \/ n \in 1..k /\ w[n] = q[n]
                                         \/ n - 1 \in 1..k /\ w[n - 1] = q[n]
        <3> SUFFICES ASSUME NEW n \in 1..Len(q), n # at
                     PROVE  \/ n \in 1..k /\ w[n] = q[n]
                            \/ n - 1 \in 1..k /\ w[n - 1] = q[n]
            OBVIOUS
        <3>1. CASE n < at
            BY <3>1, <1>1, <2>2, <2>3, <2>5
        <3>2. CASE n > at
            <4>1. n - 1 \in 1..k /\ ~(n - 1 < at) /\ (n - 1) + 1 = n
                BY <3>2, <1>1, <2>2, <2>3
            <4> QED
                BY <4>1, <2>5
        <3> QED
            BY <3>1, <3>2, <1>1, <2>2
    <2>8. \A n \in 1..k : \E m \in 1..Len(q) : m # at /\ w[n] = q[m]
        <3> SUFFICES ASSUME NEW n \in 1..k
                     PROVE  \E m \in 1..Len(q) : m # at /\ w[n] = q[m]
            OBVIOUS
        <3>1. CASE n < at
            BY <3>1, <2>2, <2>4, <2>5, <1>1
        <3>2. CASE ~(n < at)
            <4>1. n + 1 # at
                BY <3>2, <2>2, <2>3, <1>1
            <4> QED
                BY <3>2, <4>1, <2>4, <2>5
        <3> QED
            BY <3>1, <3>2
    <2>9. Distinct(w)
        <3> SUFFICES ASSUME NEW m \in 1..k, NEW n \in 1..k, w[m] = w[n]
                     PROVE  m = n
            BY <2>5 DEF Distinct
        <3> DEFINE src(x) == IF x < at THEN x ELSE x + 1
        <3>1. w[m] = q[src(m)] /\ w[n] = q[src(n)]
            BY <2>5
        <3>2. src(m) \in DOMAIN q /\ src(n) \in DOMAIN q
            BY <2>4, <1>1
        <3>3. src(m) = src(n)
            <4> HIDE DEF src
            <4> QED
                BY <3>1, <3>2 DEF Distinct
        <3> QED
            BY <3>3, <2>2, <2>3, <1>1
    <2>10. Elements(w) = Elements(q) \ {c}
        <3>1. ASSUME NEW e \in Elements(w)
              PROVE  e \in Elements(q) \ {c}
            <4>1. PICK n \in 1..k : e = w[n]
                BY <2>5 DEF Elements
            <4>2. PICK m \in 1..Len(q) : m # at /\ w[n] = q[m]
                BY <2>8
            <4> QED
                BY <4>1, <4>2, <1>1, <2>2 DEF Elements, Distinct
        <3>2. ASSUME NEW e \in Elements(q) \ {c}
              PROVE  e \in Elements(w)
            <4>1. PICK n \in 1..Len(q) : e = q[n] /\ n # at
                BY <1>1, <2>2 DEF Elements
            <4> QED
                BY <4>1, <2>5, <2>7 DEF Elements
        <3> QED
            BY <3>1, <3>2
    <2> QED
        BY <2>1, <2>6, <2>9, <2>10
<1> QED
    BY <1>2, <1>3

-----------------------------------------------------------------------------
(* The workers' side: tasks, permits and instances. *)

TaskPlaces == {"none"} \cup Busy

WorkerTypeOK ==
    /\ permits \in Nat
    /\ task \in [Task -> TaskPlaces]
    /\ using \in [Task -> Instance \cup {Nobody}]
    /\ pool \in Seq(Instance)
    /\ trapped \subseteq Instance

Permitted == permits + Cardinality(ThreadsAt(Task, task, Busy)) = WORKERS

WorkerInv == WorkerTypeOK /\ Permitted /\ InstanceInv

\* StartWorker as the workers see it.
Spawns(k) ==
    /\ At(k, "none", "pop")
    /\ permits > 0
    /\ permits' = permits - 1
    /\ UNCHANGED guest_vars

\* What a step does to the instances, apart from the counting.
Owned ==
    /\ \A k \in Task : using[k] # Nobody <=> task[k] \in InHand
    /\ Distinct(pool)
    /\ \A k \in Task : using[k] \notin Elements(pool)
    /\ \A k, l \in Task : using[k] = using[l] /\ using[k] # Nobody => k = l
    /\ \A i \in trapped : \E k \in Task : using[k] = i /\ task[k] = "drop"

\* The other steps of Next leave the workers alone.
LEMMA NextWorker ==
    [Next]_vars => \/ UNCHANGED <<task, permits, guest_vars>>
                   \/ \E k \in Task : Spawns(k) \/ Work(k)
<1> SUFFICES ASSUME [Next]_vars
             PROVE  \/ UNCHANGED <<task, permits, guest_vars>>
                    \/ \E k \in Task : Spawns(k) \/ Work(k)
    OBVIOUS
<1>1. ASSUME NEW c \in Client, \/ Accept(c) \/ EndIdle(c) \/ Written(c) \/ AnswerHead(c) \/ Request(c)
                               \/ BodyRead(c) \/ BodyFails(c) \/ Disconnect(c)
      PROVE  UNCHANGED <<task, permits, guest_vars>>
    BY <1>1 DEF Accept, EndIdle, Written, AnswerHead, Request, BodyRead, BodyFails, Disconnect
<1>2. CASE AdmitBody \/ Shutdown \/ Return \/ Exit \/ accept_failed \/ Exited \/ UNCHANGED vars
    BY <1>2 DEF AdmitBody, Shutdown, Return, Exit, accept_failed, Exited, vars, guest_vars
<1>3. CASE StartWorker
    BY <1>3 DEF StartWorker, Spawns, At
<1> QED
    BY <1>1, <1>2, <1>3 DEF Next

\* pop and push at the end of the vector.
LEMMA PoolStep ==
    ASSUME WorkerTypeOK, Owned, NEW k \in Task
    PROVE  /\ Pop(k) /\ pool # <<>> =>
                /\ using'[k] \in Elements(pool) \cap Instance
                /\ Elements(pool) = Elements(pool') \cup {using'[k]} /\ using'[k] \notin Elements(pool')
                /\ pool' \in Seq(Instance) /\ Len(pool') = Len(pool) - 1 /\ Distinct(pool')
           /\ Push(k) =>
                /\ Elements(pool') = Elements(pool) \cup {using[k]}
                /\ pool' \in Seq(Instance) /\ Len(pool') = Len(pool) + 1 /\ Distinct(pool')
<1>1. ASSUME Pop(k), pool # <<>>
      PROVE  /\ using'[k] \in Elements(pool) \cap Instance
             /\ Elements(pool) = Elements(pool') \cup {using'[k]} /\ using'[k] \notin Elements(pool')
             /\ pool' \in Seq(Instance) /\ Len(pool') = Len(pool) - 1 /\ Distinct(pool')
    <2>1. using'[k] = pool[Len(pool)] /\ pool' = SubSeq(pool, 1, Len(pool) - 1)
        BY <1>1 DEF Pop, WorkerTypeOK
    <2> QED
        BY <2>1, <1>1, FrontElements DEF WorkerTypeOK, Owned
<1>2. ASSUME Push(k)
      PROVE  /\ Elements(pool') = Elements(pool) \cup {using[k]}
             /\ pool' \in Seq(Instance) /\ Len(pool') = Len(pool) + 1 /\ Distinct(pool')
    <2>1. pool' = Append(pool, using[k]) /\ task[k] = "push"
        BY <1>2 DEF Push, At
    <2>2. using[k] \in Instance /\ using[k] \notin Elements(pool)
        BY <2>1 DEF WorkerTypeOK, Owned, InHand
    <2>3. pool' \in Seq(Instance) /\ Len(pool') = Len(pool) + 1
        BY <2>1, <2>2 DEF WorkerTypeOK
    <2> QED
        BY <2>1, <2>2, <2>3, AppendElements DEF WorkerTypeOK, Owned
<1> QED
    BY <1>1, <1>2

\* An instance stays with one closure or in the pool, once, and one that
\* trapped only with the closure that drops it.
LEMMA OwnedStep ==
    ASSUME WorkerTypeOK, Owned, NEW k \in Task, Spawns(k) \/ Work(k)
    PROVE  /\ Owned'
           /\ task' \in [Task -> TaskPlaces] /\ using' \in [Task -> Instance \cup {Nobody}]
           /\ pool' \in Seq(Instance) /\ trapped' \subseteq Instance
<1> DEFINE Kept == /\ Owned'
                   /\ task' \in [Task -> TaskPlaces] /\ using' \in [Task -> Instance \cup {Nobody}]
                   /\ pool' \in Seq(Instance) /\ trapped' \subseteq Instance
<1>1. /\ task \in [Task -> TaskPlaces] /\ using \in [Task -> Instance \cup {Nobody}]
      /\ pool \in Seq(Instance) /\ trapped \subseteq Instance /\ Nobody \notin Instance
      /\ Elements(pool) \subseteq Instance
    BY ServerAssumption DEF WorkerTypeOK, Elements
<1> USE DEF At, TaskPlaces, Busy, InHand
<1>2. CASE Spawns(k)
    BY <1>1, <1>2 DEF Spawns, Owned, guest_vars
<1>3. CASE Pop(k) /\ pool # <<>>
    <2>1. /\ using'[k] \in Elements(pool) \cap Instance
          /\ Elements(pool) = Elements(pool') \cup {using'[k]} /\ using'[k] \notin Elements(pool')
          /\ pool' \in Seq(Instance) /\ Distinct(pool')
        BY <1>3, PoolStep
    <2>2. /\ task[k] = "pop" /\ task' = [task EXCEPT ![k] = "call"]
          /\ using' = [using EXCEPT ![k] = using'[k]] /\ trapped' = trapped
        BY <1>1, <1>3 DEF Pop
    <2>3. \A l \in Task : l # k => using'[l] = using[l] /\ using[l] # using'[k]
        BY <1>1, <2>1, <2>2 DEF Owned
    <2>4. using[k] = Nobody
        BY <2>2 DEF Owned
    <2> QED
        BY <1>1, <2>1, <2>2, <2>3, <2>4 DEF Owned
<1>4. CASE Pop(k) /\ pool = <<>>
    BY <1>1, <1>4 DEF Pop, Owned
<1>5. CASE Fresh(k)
    <2>1. CASE At(k, "fresh", "end") /\ UNCHANGED using
        BY <1>1, <1>5, <2>1 DEF Fresh, Owned
    <2>2. ASSUME NEW i \in Instance \ Live, At(k, "fresh", "call"), using' = [using EXCEPT ![k] = i]
          PROVE  Kept
        <3>1. i \notin Elements(pool) /\ \A l \in Task : using[l] # i
            BY <1>1, <2>2 DEF Live, Elements
        <3>2. using[k] = Nobody /\ i \notin trapped
            BY <2>2, <3>1 DEF Owned
        <3>3. UNCHANGED <<pool, trapped>>
            BY <1>5 DEF Fresh
        <3> QED
            BY <1>1, <2>2, <3>1, <3>2, <3>3 DEF Owned
    <2> QED
        BY <1>5, <2>1, <2>2 DEF Fresh
<1>6. CASE Call(k)
    <2>1. using[k] \in Instance /\ UNCHANGED <<using, pool>>
        BY <1>1, <1>6 DEF Call, Traps, Owned
    <2>2. CASE At(k, "call", "push") /\ UNCHANGED trapped
        BY <1>1, <2>1, <2>2 DEF Owned
    <2>3. CASE At(k, "call", "drop") /\ trapped' = trapped \cup {using[k]}
        BY <1>1, <2>1, <2>3 DEF Owned
    <2> QED
        BY <1>6, <2>2, <2>3 DEF Call, Traps
<1>7. CASE Push(k)
    <2>1. Elements(pool') = Elements(pool) \cup {using[k]} /\ pool' \in Seq(Instance) /\ Distinct(pool')
        BY <1>7, PoolStep
    <2>2. /\ task[k] = "push" /\ task' = [task EXCEPT ![k] = "end"]
          /\ using' = [using EXCEPT ![k] = Nobody] /\ trapped' = trapped
        BY <1>7 DEF Push
    <2>3. using[k] \in Instance /\ \A l \in Task : l # k => using'[l] = using[l] /\ using[l] # using[k]
        BY <1>1, <2>2 DEF Owned
    <2> QED
        BY <1>1, <2>1, <2>2, <2>3 DEF Owned
<1>8. CASE DropInstance(k)
    <2>1. /\ task[k] = "drop" /\ task' = [task EXCEPT ![k] = "end"] /\ pool' = pool
          /\ using' = [using EXCEPT ![k] = Nobody] /\ trapped' = trapped \ {using[k]}
        BY <1>8 DEF DropInstance
    <2> QED
        BY <1>1, <2>1 DEF Owned
<1>9. CASE End(k)
    BY <1>1, <1>9 DEF End, Owned, guest_vars
<1> QED
    BY <1>2, <1>3, <1>4, <1>5, <1>6, <1>7, <1>8, <1>9 DEF Work

\* The semaphore counts the closures, and they account for all the instances
\* but those in the pool: a closure that finds the pool empty may make one
\* because its permit is one of WORKERS.
LEMMA WorkerCount ==
    ASSUME WorkerInv, NEW k \in Task, Spawns(k) \/ Work(k)
    PROVE  /\ permits' \in Nat
           /\ Permitted'
           /\ Len(pool') + Cardinality(ThreadsAt(Task, task', Needing)) <= WORKERS
<1> DEFINE n == Cardinality(ThreadsAt(Task, task, Busy))
           m == Cardinality(ThreadsAt(Task, task, Needing))
           Counted == permits' \in Nat /\ permits' + n' = WORKERS /\ Len(pool') + m' <= WORKERS
           Moves == \A l \in Task \ {k} : task'[l] = task[l]
<1>1. /\ IsFiniteSet(Task) /\ WORKERS \in Nat /\ Len(pool) \in Nat /\ permits \in Nat
      /\ WorkerTypeOK /\ Owned
    BY ServerAssumption DEF WorkerInv, WorkerTypeOK, InstanceInv, Owned
<1>2. n \in Nat /\ m \in Nat /\ permits + n = WORKERS /\ Len(pool) + m <= WORKERS
    BY <1>1, AtFinite DEF WorkerInv, Permitted, InstanceInv
<1>3. n' \in Nat /\ m' \in Nat /\ Len(pool') \in Nat
    <2>1. pool' \in Seq(Instance)
        BY <1>1, OwnedStep
    <2> QED
        BY <1>1, <2>1, AtFinite
<1>4. ASSUME task[k] = "pop"
      PROVE  m + 1 <= n
    <2> DEFINE A == ThreadsAt(Task, task, Needing)
               B == ThreadsAt(Task, task, Busy)
    <2>1. A \cup {k} \in SUBSET B /\ k \notin A
        BY <1>4 DEF ThreadsAt, Needing, InHand, Busy
    <2>2. IsFiniteSet(A) /\ IsFiniteSet(B)
        BY <1>1, AtFinite
    <2> HIDE DEF A, B
    <2>3. Cardinality(A \cup {k}) = Cardinality(A) + 1
        BY <2>1, <2>2, FS_AddElement
    <2>4. Cardinality(A \cup {k}) <= Cardinality(B)
        BY <2>1, <2>2, FS_Subset
    <2> QED
        BY <2>3, <2>4 DEF A, B
<1>5. ASSUME Moves
      PROVE  /\ n' = IF task[k] \in Busy <=> task'[k] \in Busy THEN n
                     ELSE IF task'[k] \in Busy THEN n + 1 ELSE n - 1
             /\ m' = IF task[k] \in Needing <=> task'[k] \in Needing THEN m
                     ELSE IF task'[k] \in Needing THEN m + 1 ELSE m - 1
    BY <1>1, <1>5, AtMoves
<1>6. task \in [Task -> TaskPlaces]
    BY <1>1 DEF WorkerTypeOK
<1> HIDE DEF n, m
<1>7. CASE Spawns(k)
    <2>1. /\ Moves /\ task[k] = "none" /\ task'[k] = "pop"
          /\ permits > 0 /\ permits' = permits - 1 /\ pool' = pool
        BY <1>6, <1>7 DEF Spawns, At, guest_vars
    <2>2. n' = n + 1 /\ m' = m
        BY <2>1, <1>5 DEF Busy, Needing, InHand
    <2>3. Counted
        BY <2>1, <2>2, <1>1, <1>2
    <2> QED
        BY <2>3 DEF n, m, Permitted
<1>8. CASE Pop(k)
    <2>1. Moves /\ task[k] = "pop" /\ task'[k] \in {"call", "fresh"} /\ permits' = permits
        BY <1>6, <1>8 DEF Pop, At
    <2>2. n' = n /\ m' = m + 1
        BY <2>1, <1>5 DEF Busy, Needing, InHand
    <2>3. ASSUME pool # <<>>
          PROVE  Counted
        <3>1. Len(pool') = Len(pool) - 1
            BY <1>1, <1>8, <2>3, PoolStep
        <3> QED
            BY <2>1, <2>2, <3>1, <1>1, <1>2
    <2>4. ASSUME pool = <<>>
          PROVE  Counted
        <3>1. Len(pool') = 0
            BY <1>8, <2>4 DEF Pop
        <3> QED
            BY <2>1, <2>2, <3>1, <1>1, <1>2, <1>4
    <2> QED
        BY <2>3, <2>4 DEF n, m, Permitted
<1>9. CASE Fresh(k) \/ Call(k) \/ DropInstance(k)
    <2>1. /\ Moves /\ task[k] \in {"fresh", "call", "drop"} /\ task'[k] \in {"call", "push", "drop", "end"}
          /\ UNCHANGED <<permits, pool>>
        BY <1>6, <1>9 DEF Fresh, Call, Traps, DropInstance, At
    <2>2. n' = n /\ m' <= m
        BY <2>1, <1>2, <1>5 DEF Busy, Needing, InHand
    <2>3. Counted
        BY <2>1, <2>2, <1>1, <1>2, <1>3
    <2> QED
        BY <2>3 DEF n, m, Permitted
<1>10. CASE Push(k)
    <2>1. Moves /\ task[k] = "push" /\ task'[k] = "end" /\ permits' = permits
        BY <1>6, <1>10 DEF Push, At
    <2>2. n' = n /\ m' = m - 1
        BY <2>1, <1>5 DEF Busy, Needing, InHand
    <2>3. Len(pool') = Len(pool) + 1
        BY <1>1, <1>10, PoolStep
    <2>4. Counted
        BY <2>1, <2>2, <2>3, <1>1, <1>2
    <2> QED
        BY <2>4 DEF n, m, Permitted
<1>11. CASE End(k)
    <2>1. /\ Moves /\ task[k] = "end" /\ task'[k] = "none"
          /\ permits' = permits + 1 /\ pool' = pool
        BY <1>6, <1>11 DEF End, At, guest_vars
    <2>2. n' = n - 1 /\ m' = m
        BY <2>1, <1>5 DEF Busy, Needing, InHand
    <2>3. Counted
        BY <2>1, <2>2, <1>1, <1>2
    <2> QED
        BY <2>3 DEF n, m, Permitted
<1> QED
    BY <1>7, <1>8, <1>9, <1>10, <1>11 DEF Work

\* Every step keeps the workers' side in order.
LEMMA WorkerStep == WorkerInv /\ [Next]_vars => WorkerInv'
<1> SUFFICES ASSUME WorkerInv, [Next]_vars
             PROVE  WorkerInv'
    OBVIOUS
<1>1. CASE UNCHANGED <<task, permits, guest_vars>>
    <2>1. task' = task /\ permits' = permits /\ using' = using /\ pool' = pool /\ trapped' = trapped
        BY <1>1 DEF guest_vars
    <2> QED
        BY <2>1 DEF WorkerInv, WorkerTypeOK, Permitted, InstanceInv
<1>2. ASSUME NEW k \in Task, Spawns(k) \/ Work(k)
      PROVE  WorkerInv'
    <2>1. WorkerTypeOK /\ Owned
        BY DEF WorkerInv, InstanceInv, Owned
    <2>2. /\ Owned'
          /\ task' \in [Task -> TaskPlaces] /\ using' \in [Task -> Instance \cup {Nobody}]
          /\ pool' \in Seq(Instance) /\ trapped' \subseteq Instance
        BY <1>2, <2>1, OwnedStep
    <2>3. /\ permits' \in Nat
          /\ Permitted'
          /\ Len(pool') + Cardinality(ThreadsAt(Task, task', Needing)) <= WORKERS
        BY <1>2, WorkerCount
    <2> QED
        BY <2>2, <2>3 DEF WorkerInv, WorkerTypeOK, InstanceInv, Owned
<1> QED
    BY <1>1, <1>2, NextWorker

\* Live instances are those of the pool and one for each closure that has one.
LEMMA LiveBound == WorkerInv => Cardinality(Live) <= WORKERS
<1> SUFFICES ASSUME WorkerInv
             PROVE  Cardinality(Live) <= WORKERS
    OBVIOUS
<1> DEFINE H == ThreadsAt(Task, task, InHand)
           N == ThreadsAt(Task, task, Needing)
           U == {using[k] : k \in H}
           P == Elements(pool)
<1>1. IsFiniteSet(H) /\ IsFiniteSet(N) /\ Cardinality(H) \in Nat /\ Cardinality(N) \in Nat
    BY ServerAssumption, AtFinite
<1>2. Cardinality(H) <= Cardinality(N)
    <2>1. H \in SUBSET N
        BY DEF ThreadsAt, Needing
    <2> HIDE DEF H, N
    <2> QED
        BY <2>1, <1>1, FS_Subset
<1>3. IsFiniteSet(U) /\ Cardinality(U) <= Cardinality(H) /\ Cardinality(U) \in Nat
    <2> DEFINE f == [k \in H |-> using[k]]
    <2>1. f \in Surjection(H, U)
        BY DEF Surjection
    <2> HIDE DEF f, H, U
    <2> QED
        BY <2>1, <1>1, FS_Surjection, FS_CardinalityType
<1>4. IsFiniteSet(P) /\ Cardinality(P) = Len(pool) /\ Len(pool) \in Nat
    BY DistinctCount DEF WorkerInv, WorkerTypeOK, InstanceInv
<1>5. Live = P \cup U
    <2>1. Nobody \notin P
        BY ServerAssumption DEF WorkerInv, WorkerTypeOK, Elements
    <2>2. \A k \in Task : using[k] # Nobody <=> k \in H
        BY DEF WorkerInv, InstanceInv, ThreadsAt
    <2>3. H \subseteq Task
        BY DEF ThreadsAt
    <2> HIDE DEF H
    <2> QED
        BY <2>1, <2>2, <2>3 DEF Live, Elements
<1> HIDE DEF H, N, U, P
<1>6. Cardinality(P \cup U) <= Cardinality(P) + Cardinality(U)
    <2> DEFINE B == P \cap U
    <2>1. Cardinality(B) \in Nat
        <3>1. B \in SUBSET U
            OBVIOUS
        <3> HIDE DEF B
        <3> QED
            BY <3>1, <1>3, FS_Subset, FS_CardinalityType
    <2>2. Cardinality(P \cup U) = Cardinality(P) + Cardinality(U) - Cardinality(B)
        BY <1>3, <1>4, FS_Union
    <2> HIDE DEF B
    <2> QED
        BY <2>1, <2>2, <1>3, <1>4
<1>7. Len(pool) + Cardinality(N) <= WORKERS /\ WORKERS \in Nat
    BY ServerAssumption DEF WorkerInv, InstanceInv, N
<1>8. IsFiniteSet(P \cup U) /\ Cardinality(P \cup U) \in Nat
    BY <1>3, <1>4, FS_Union, FS_CardinalityType
<1> QED
    BY <1>1, <1>2, <1>3, <1>4, <1>5, <1>6, <1>7, <1>8

-----------------------------------------------------------------------------
(* The clients' side: connections, the two lists, and who asked for what. *)

ConnPlaces == Holding \cup {"away", "head", "admission", "waiting", "writing"}

NetTypeOK ==
    /\ conn \in [Client -> ConnPlaces]
    /\ last \in [Client -> BOOLEAN]
    /\ places \in Nat /\ uploads \in Nat
    /\ upload_queue \in Seq(Client) /\ permit_queue \in Seq(Client)
    /\ asker \in [Task -> Client \cup {Nobody}]

Admitted ==
    /\ places + Cardinality(ThreadsAt(Client, conn, OnLine)) = MAX_CONNECTIONS
    /\ uploads + Cardinality(ThreadsAt(Client, conn, Holding)) = UPLOADS

NetInv == NetTypeOK /\ QueueInv /\ Admitted /\ AskerInv

ClientStep(c) ==
    \/ Accept(c) \/ EndIdle(c) \/ Written(c)
    \/ AnswerHead(c) \/ Request(c) \/ BodyRead(c) \/ BodyFails(c) \/ Disconnect(c)

Only(c) == \A d \in Client \ {c} : conn'[d] = conn[d]

\* The other steps of Next leave the clients alone.
LEMMA NextNet ==
    ASSUME task \in [Task -> TaskPlaces], [Next]_vars
    PROVE  \/ UNCHANGED <<net_vars, asker>> /\ (\A k \in Task : task'[k] = "none" => task[k] = "none")
           \/ \E c \in Client : ClientStep(c)
           \/ AdmitBody
           \/ StartWorker
           \/ \E k \in Task : End(k)
<1>1. ASSUME NEW k \in Task, Pop(k) \/ Fresh(k) \/ Call(k) \/ Push(k) \/ DropInstance(k)
      PROVE  UNCHANGED <<net_vars, asker>> /\ (\A l \in Task : task'[l] = "none" => task[l] = "none")
    BY <1>1 DEF Pop, Fresh, Call, Traps, Push, DropInstance, At
<1>2. CASE Shutdown \/ Return \/ Exit \/ accept_failed \/ Exited \/ UNCHANGED vars
    BY <1>2 DEF Shutdown, Return, Exit, accept_failed, Exited, vars
<1> QED
    BY <1>1, <1>2 DEF Next, Work, ClientStep

\* Where the client that is served next stands, in either list.
LEMMA HeadWaits ==
    ASSUME NetTypeOK, QueueInv
    PROVE  /\ upload_queue # <<>> =>
                /\ Head(upload_queue) \in Client /\ Tail(upload_queue) \in Seq(Client)
                /\ Distinct(Tail(upload_queue))
                /\ Elements(Tail(upload_queue)) = Elements(upload_queue) \ {Head(upload_queue)}
           /\ permit_queue # <<>> =>
                /\ Head(permit_queue) \in Client /\ Tail(permit_queue) \in Seq(Client)
                /\ Distinct(Tail(permit_queue))
                /\ Elements(Tail(permit_queue)) = Elements(permit_queue) \ {Head(permit_queue)}
<1>1. ASSUME NEW q \in Seq(Client), Distinct(q), q # <<>>
      PROVE  /\ Head(q) \in Client /\ Tail(q) \in Seq(Client)
             /\ Distinct(Tail(q))
             /\ Elements(Tail(q)) = Elements(q) \ {Head(q)}
    <2>1. Head(q) \in Client /\ Tail(q) \in Seq(Client)
        BY <1>1
    <2> QED
        BY <2>1, <1>1, TailElements
<1> QED
    BY <1>1 DEF NetTypeOK, QueueInv

\* Each list keeps exactly the clients that wait, once each.
LEMMA QueueStep ==
    ASSUME NetTypeOK, task \in [Task -> TaskPlaces], QueueInv, AskerInv, [Next]_vars
    PROVE  /\ QueueInv'
           /\ conn' \in [Client -> ConnPlaces] /\ last' \in [Client -> BOOLEAN]
           /\ upload_queue' \in Seq(Client) /\ permit_queue' \in Seq(Client)
<1> DEFINE Kept == /\ QueueInv'
                   /\ conn' \in [Client -> ConnPlaces] /\ last' \in [Client -> BOOLEAN]
                   /\ upload_queue' \in Seq(Client) /\ permit_queue' \in Seq(Client)
<1>1. /\ conn \in [Client -> ConnPlaces] /\ last \in [Client -> BOOLEAN]
      /\ upload_queue \in Seq(Client) /\ permit_queue \in Seq(Client)
      /\ Distinct(upload_queue) /\ Distinct(permit_queue)
      /\ Elements(upload_queue) \subseteq Client /\ Elements(permit_queue) \subseteq Client
    BY DEF NetTypeOK, QueueInv, Elements
<1> USE DEF Move, ConnPlaces, Holding
<1>2. ASSUME NEW c \in Client, Accept(c) \/ EndIdle(c) \/ AnswerHead(c)
      PROVE  Kept
    BY <1>1, <1>2 DEF Accept, EndIdle, AnswerHead, QueueInv
<1>3. ASSUME NEW c \in Client, Written(c) \/ BodyFails(c)
      PROVE  Kept
    <2>1. /\ conn[c] \in {"writing", "reading"} /\ UNCHANGED <<upload_queue, permit_queue>>
          /\ \E to \in {"head", "away", "writing"} : conn' = [conn EXCEPT ![c] = to]
        BY <1>3 DEF Written, BodyFails
    <2>2. last' \in [Client -> BOOLEAN]
        <3>1. \E x \in BOOLEAN : last' = [last EXCEPT ![c] = x]
            BY <1>3 DEF Written, BodyFails
        <3> QED
            BY <3>1, <1>1
    <2> QED
        BY <1>1, <2>1, <2>2 DEF QueueInv
<1>4. ASSUME NEW c \in Client, Request(c)
      PROVE  Kept
    <2>1. /\ conn[c] = "head" /\ conn' = [conn EXCEPT ![c] = "admission"]
          /\ upload_queue' = Append(upload_queue, c) /\ UNCHANGED <<permit_queue, last>>
        BY <1>4 DEF Request
    <2>2. c \notin Elements(upload_queue)
        BY <2>1 DEF QueueInv
    <2>3. upload_queue' \in Seq(Client) /\ Distinct(upload_queue')
          /\ Elements(upload_queue') = Elements(upload_queue) \cup {c}
        BY <1>1, <2>1, <2>2, AppendElements
    <2> QED
        BY <1>1, <2>1, <2>3 DEF QueueInv
<1>5. ASSUME AdmitBody
      PROVE  Kept
    <2> DEFINE c == Head(upload_queue)
    <2>1. /\ conn[c] = "admission" /\ conn' = [conn EXCEPT ![c] = "reading"]
          /\ upload_queue # <<>> /\ upload_queue' = Tail(upload_queue) /\ UNCHANGED <<permit_queue, last>>
        BY <1>5 DEF AdmitBody
    <2>2. /\ c \in Client /\ upload_queue' \in Seq(Client) /\ Distinct(upload_queue')
          /\ Elements(upload_queue') = Elements(upload_queue) \ {c}
        BY <2>1, HeadWaits
    <2> HIDE DEF c
    <2> QED
        BY <1>1, <2>1, <2>2 DEF QueueInv
<1>6. ASSUME NEW c \in Client, BodyRead(c)
      PROVE  Kept
    <2>1. /\ conn[c] = "reading" /\ conn' = [conn EXCEPT ![c] = "ready"]
          /\ permit_queue' = Append(permit_queue, c) /\ UNCHANGED upload_queue
        BY <1>6 DEF BodyRead
    <2>2. c \notin Elements(permit_queue)
        BY <2>1 DEF QueueInv
    <2>3. permit_queue' \in Seq(Client) /\ Distinct(permit_queue')
          /\ Elements(permit_queue') = Elements(permit_queue) \cup {c}
        BY <1>1, <2>1, <2>2, AppendElements
    <2>4. last' \in [Client -> BOOLEAN]
        BY <1>1, <1>6 DEF BodyRead
    <2> QED
        BY <1>1, <2>1, <2>3, <2>4 DEF QueueInv
<1>7. ASSUME StartWorker
      PROVE  Kept
    <2> DEFINE c == Head(permit_queue)
    <2>1. /\ conn[c] = "ready" /\ conn' = [conn EXCEPT ![c] = "waiting"]
          /\ permit_queue # <<>> /\ permit_queue' = Tail(permit_queue) /\ UNCHANGED <<upload_queue, last>>
        BY <1>7 DEF StartWorker
    <2>2. /\ c \in Client /\ permit_queue' \in Seq(Client) /\ Distinct(permit_queue')
          /\ Elements(permit_queue') = Elements(permit_queue) \ {c}
        BY <2>1, HeadWaits
    <2> HIDE DEF c
    <2> QED
        BY <1>1, <2>1, <2>2 DEF QueueInv
<1>8. ASSUME NEW c \in Client, Disconnect(c)
      PROVE  Kept
    <2>1. /\ conn' = [conn EXCEPT ![c] = "away"] /\ last' = [last EXCEPT ![c] = FALSE]
          /\ upload_queue' = Without(upload_queue, c) /\ permit_queue' = Without(permit_queue, c)
        BY <1>8 DEF Disconnect
    <2>2. /\ upload_queue' \in Seq(Client) /\ Distinct(upload_queue')
          /\ Elements(upload_queue') = Elements(upload_queue) \ {c}
        BY <1>1, <2>1, WithoutElements
    <2>3. /\ permit_queue' \in Seq(Client) /\ Distinct(permit_queue')
          /\ Elements(permit_queue') = Elements(permit_queue) \ {c}
        BY <1>1, <2>1, WithoutElements
    <2> QED
        BY <1>1, <2>1, <2>2, <2>3 DEF QueueInv
<1>9. ASSUME NEW k \in Task, End(k)
      PROVE  Kept
    <2>1. /\ conn' = [c \in Client |-> IF c = asker[k] THEN "writing" ELSE conn[c]]
          /\ UNCHANGED <<upload_queue, permit_queue, last>>
        BY <1>9 DEF End
    <2>2. \A c \in Client : c = asker[k] => conn[c] = "waiting"
        BY DEF AskerInv, AnswersMatch
    <2> QED
        BY <1>1, <2>1, <2>2 DEF QueueInv
<1>10. ASSUME UNCHANGED net_vars
       PROVE  Kept
    <2>1. conn' = conn /\ last' = last /\ upload_queue' = upload_queue /\ permit_queue' = permit_queue
        BY <1>10 DEF net_vars
    <2> QED
        BY <1>1, <2>1 DEF QueueInv
<1> QED
    BY <1>2, <1>3, <1>4, <1>5, <1>6, <1>7, <1>8, <1>9, <1>10, NextNet DEF ClientStep

\* A task answers the request that started it and no later one.
LEMMA AskerStep ==
    ASSUME NetTypeOK, task \in [Task -> TaskPlaces], QueueInv, AskerInv, [Next]_vars
    PROVE  AskerInv' /\ asker' \in [Task -> Client \cup {Nobody}]
<1> DEFINE Kept == AskerInv' /\ asker' \in [Task -> Client \cup {Nobody}]
<1>1. /\ conn \in [Client -> ConnPlaces] /\ asker \in [Task -> Client \cup {Nobody}]
      /\ task \in [Task -> TaskPlaces] /\ Nobody \notin Client
    BY ServerAssumption DEF NetTypeOK
<1> USE DEF AskerInv, AnswersMatch, Move
<1>2. ASSUME NEW c \in Client, UNCHANGED <<asker, task>>, Only(c), conn[c] # "waiting", conn'[c] # "waiting"
      PROVE  Kept
    BY <1>1, <1>2 DEF Only
<1>3. ASSUME NEW c \in Client, ClientStep(c), ~Disconnect(c)
      PROVE  UNCHANGED <<asker, task>> /\ Only(c) /\ conn[c] # "waiting" /\ conn'[c] # "waiting"
    BY <1>1, <1>3 DEF ClientStep, Accept, EndIdle, Written, AnswerHead, Request, BodyRead, BodyFails, Only
<1>4. ASSUME AdmitBody
      PROVE  Kept
    <2> DEFINE c == Head(upload_queue)
    <2>1. c \in Client
        BY <1>4, HeadWaits DEF AdmitBody
    <2>2. UNCHANGED <<asker, task>> /\ Only(c) /\ conn[c] # "waiting" /\ conn'[c] # "waiting"
        BY <1>1, <1>4, <2>1 DEF AdmitBody, Only
    <2> HIDE DEF c
    <2> QED
        BY <1>2, <2>1, <2>2
<1>5. ASSUME StartWorker
      PROVE  Kept
    <2> DEFINE c == Head(permit_queue)
    <2>1. c \in Client
        BY <1>5, HeadWaits DEF StartWorker
    <2>2. PICK k \in Task : /\ task[k] = "none"
                            /\ task' = [task EXCEPT ![k] = "pop"]
                            /\ asker' = [asker EXCEPT ![k] = c]
        BY <1>5 DEF StartWorker
    <2>3. conn[c] = "ready" /\ conn' = [conn EXCEPT ![c] = "waiting"]
        BY <1>5 DEF StartWorker
    <2> HIDE DEF c
    <2>4. asker[k] = Nobody /\ \A l \in Task : asker[l] # c
        BY <2>1, <2>2, <2>3
    <2>5. asker'[k] = c /\ \A l \in Task \ {k} : asker'[l] = asker[l]
        BY <1>1, <2>2
    <2>6. \A d \in Client : conn'[d] = "waiting" <=> d = c \/ conn[d] = "waiting"
        BY <1>1, <2>1, <2>3
    <2>7. \A d \in Client : (\E l \in Task : asker'[l] = d) <=> d = c \/ \E l \in Task : asker[l] = d
        BY <1>1, <2>4, <2>5
    <2>8. \A l \in Task : task'[l] = "none" => task[l] = "none" /\ l # k
        BY <1>1, <2>2
    <2> QED
        BY <1>1, <2>1, <2>2, <2>4, <2>5, <2>6, <2>7, <2>8
<1>6. ASSUME NEW c \in Client, Disconnect(c)
      PROVE  Kept
    <2>1. /\ conn' = [conn EXCEPT ![c] = "away"] /\ task' = task
          /\ asker' = [k \in Task |-> IF asker[k] = c THEN Nobody ELSE asker[k]]
        BY <1>6 DEF Disconnect
    <2> QED
        BY <1>1, <2>1
<1>7. ASSUME NEW k \in Task, End(k)
      PROVE  Kept
    <2>1. /\ conn' = [c \in Client |-> IF c = asker[k] THEN "writing" ELSE conn[c]]
          /\ asker' = [asker EXCEPT ![k] = Nobody]
          /\ task' = [task EXCEPT ![k] = "none"]
        BY <1>7 DEF End, At
    <2>2. \A c \in Client : (\E l \in Task : asker'[l] = c) <=> c # asker[k] /\ \E l \in Task : asker[l] = c
        BY <1>1, <2>1
    <2>3. \A c \in Client : conn'[c] = "waiting" <=> c # asker[k] /\ conn[c] = "waiting"
        BY <1>1, <2>1
    <2> QED
        BY <1>1, <2>1, <2>2, <2>3
<1>8. ASSUME UNCHANGED <<net_vars, asker>>, \A k \in Task : task'[k] = "none" => task[k] = "none"
      PROVE  Kept
    BY <1>1, <1>8 DEF net_vars
<1> QED
    BY <1>2, <1>3, <1>4, <1>5, <1>6, <1>7, <1>8, NextNet DEF ClientStep

\* A connection's place and a request's upload permit go back to their
\* semaphores however the connection or the request ends.
LEMMA AdmittedStep ==
    ASSUME NetTypeOK, task \in [Task -> TaskPlaces], QueueInv, AskerInv, Admitted, [Next]_vars
    PROVE  Admitted' /\ places' \in Nat /\ uploads' \in Nat
<1> DEFINE n == Cardinality(ThreadsAt(Client, conn, OnLine))
           m == Cardinality(ThreadsAt(Client, conn, Holding))
           Counted == /\ places' \in Nat /\ places' + n' = MAX_CONNECTIONS
                      /\ uploads' \in Nat /\ uploads' + m' = UPLOADS
<1>1. /\ IsFiniteSet(Client) /\ MAX_CONNECTIONS \in Nat /\ UPLOADS \in Nat
      /\ places \in Nat /\ uploads \in Nat /\ conn \in [Client -> ConnPlaces]
    BY ServerAssumption DEF NetTypeOK
<1>2. n \in Nat /\ m \in Nat /\ places + n = MAX_CONNECTIONS /\ uploads + m = UPLOADS
    BY <1>1, AtFinite DEF Admitted
<1>3. ASSUME NEW c \in Client, Only(c)
      PROVE  /\ n' = IF conn[c] \in OnLine <=> conn'[c] \in OnLine THEN n
                     ELSE IF conn'[c] \in OnLine THEN n + 1 ELSE n - 1
             /\ m' = IF conn[c] \in Holding <=> conn'[c] \in Holding THEN m
                     ELSE IF conn'[c] \in Holding THEN m + 1 ELSE m - 1
    <2>1. \A d \in Client \ {c} : conn'[d] = conn[d]
        BY <1>3 DEF Only
    <2> QED
        BY <1>1, <2>1, AtMoves
<1> SUFFICES Counted
    BY DEF Admitted
<1> HIDE DEF n, m
<1> USE DEF Move
<1>4. ASSUME NEW c \in Client, Accept(c)
      PROVE  Counted
    <2>1. /\ Only(c) /\ conn[c] = "away" /\ conn'[c] = "head"
          /\ places > 0 /\ places' = places - 1 /\ uploads' = uploads
        BY <1>1, <1>4 DEF Accept, Only
    <2>2. n' = n + 1 /\ m' = m
        BY <2>1, <1>3 DEF OnLine, Holding
    <2> QED
        BY <1>1, <1>2, <2>1, <2>2
<1>5. ASSUME NEW c \in Client, Only(c), conn[c] \in {"head", "writing"}, conn'[c] = "away",
             places' = places + 1, uploads' = uploads
      PROVE  Counted
    <2>1. n' = n - 1 /\ m' = m
        BY <1>5, <1>3 DEF OnLine, Holding
    <2> QED
        BY <1>1, <1>2, <1>5, <2>1
<1>6. ASSUME NEW c \in Client, Only(c), conn[c] \in OnLine, conn'[c] \in OnLine,
             conn[c] \notin Holding, conn'[c] \notin Holding, places' = places, uploads' = uploads
      PROVE  Counted
    <2>1. n' = n /\ m' = m
        BY <1>6, <1>3
    <2> QED
        BY <1>1, <1>2, <1>6, <2>1
<1>7. ASSUME NEW c \in Client, EndIdle(c) \/ Written(c) \/ AnswerHead(c) \/ Request(c)
      PROVE  Counted
    <2>1. CASE conn'[c] = "away"
        <3>1. /\ Only(c) /\ conn[c] \in {"head", "writing"}
              /\ places' = places + 1 /\ uploads' = uploads
            BY <1>1, <1>7, <2>1 DEF EndIdle, Written, AnswerHead, Request, Only
        <3> QED
            BY <1>5, <2>1, <3>1
    <2>2. CASE conn'[c] # "away"
        <3>1. /\ Only(c) /\ conn[c] \in {"head", "writing"} /\ conn'[c] \in {"head", "writing", "admission"}
              /\ places' = places /\ uploads' = uploads
            BY <1>1, <1>7, <2>2 DEF EndIdle, Written, AnswerHead, Request, Only
        <3>2. conn[c] \in OnLine \ Holding /\ conn'[c] \in OnLine \ Holding
            BY <3>1 DEF OnLine, Holding
        <3> QED
            BY <1>6, <3>1, <3>2
    <2> QED
        BY <2>1, <2>2
<1>8. ASSUME AdmitBody
      PROVE  Counted
    <2> DEFINE c == Head(upload_queue)
    <2>1. c \in Client
        BY <1>8, HeadWaits DEF AdmitBody
    <2>2. /\ Only(c) /\ conn[c] = "admission" /\ conn'[c] = "reading"
          /\ uploads > 0 /\ uploads' = uploads - 1 /\ places' = places
        BY <1>1, <1>8, <2>1 DEF AdmitBody, Only
    <2> HIDE DEF c
    <2>3. n' = n /\ m' = m + 1
        BY <2>1, <2>2, <1>3 DEF OnLine, Holding
    <2> QED
        BY <1>1, <1>2, <2>2, <2>3
<1>9. ASSUME NEW c \in Client, BodyRead(c)
      PROVE  Counted
    <2>1. /\ Only(c) /\ conn[c] = "reading" /\ conn'[c] = "ready"
          /\ places' = places /\ uploads' = uploads
        BY <1>1, <1>9 DEF BodyRead, Only
    <2>2. n' = n /\ m' = m
        BY <2>1, <1>3 DEF OnLine, Holding
    <2> QED
        BY <1>1, <1>2, <2>1, <2>2
<1>10. ASSUME NEW c \in Client, Only(c), conn[c] \in Holding, conn'[c] \in {"writing", "waiting"},
              places' = places, uploads' = uploads + 1
       PROVE  Counted
    <2>1. n' = n /\ m' = m - 1
        BY <1>10, <1>3 DEF OnLine, Holding
    <2> QED
        BY <1>1, <1>2, <1>10, <2>1
<1>11. ASSUME NEW c \in Client, BodyFails(c)
       PROVE  Counted
    BY <1>1, <1>10, <1>11 DEF BodyFails, Only, Holding
<1>12. ASSUME StartWorker
       PROVE  Counted
    <2> DEFINE c == Head(permit_queue)
    <2>1. c \in Client
        BY <1>12, HeadWaits DEF StartWorker
    <2>2. /\ Only(c) /\ conn[c] \in Holding /\ conn'[c] = "waiting"
          /\ uploads' = uploads + 1 /\ places' = places
        BY <1>1, <1>12, <2>1 DEF StartWorker, Only, Holding
    <2> HIDE DEF c
    <2> QED
        BY <1>10, <2>1, <2>2
<1>13. ASSUME NEW c \in Client, Disconnect(c)
       PROVE  Counted
    <2>1. /\ Only(c) /\ conn[c] \in {"admission", "reading", "ready", "waiting"} /\ conn'[c] = "away"
          /\ places' = places + 1
          /\ uploads' = IF conn[c] \in Holding THEN uploads + 1 ELSE uploads
        BY <1>1, <1>13 DEF Disconnect, Only, Holding
    <2>2. n' = n - 1 /\ m' = IF conn[c] \in Holding THEN m - 1 ELSE m
        BY <2>1, <1>3 DEF OnLine, Holding
    <2> QED
        BY <1>1, <1>2, <2>1, <2>2
<1>14. ASSUME UNCHANGED <<conn, places, uploads>>
       PROVE  Counted
    <2>1. n' = n /\ m' = m
        BY <1>14 DEF n, m
    <2> QED
        BY <1>1, <1>2, <1>14, <2>1
<1>15. ASSUME NEW k \in Task, End(k)
       PROVE  Counted
    <2>1. /\ conn' = [c \in Client |-> IF c = asker[k] THEN "writing" ELSE conn[c]]
          /\ UNCHANGED <<places, uploads>>
        BY <1>15 DEF End
    <2>2. CASE asker[k] \in Client
        <3> DEFINE c == asker[k]
        <3>1. conn[c] = "waiting"
            BY <2>2 DEF AskerInv, AnswersMatch
        <3>2. c \in Client /\ Only(c) /\ conn'[c] = "writing" /\ places' = places /\ uploads' = uploads
            BY <2>1, <2>2 DEF Only
        <3> HIDE DEF c
        <3> QED
            BY <1>6, <3>1, <3>2 DEF OnLine, Holding
    <2>3. CASE asker[k] \notin Client
        BY <1>1, <1>14, <2>1, <2>3
    <2> QED
        BY <2>2, <2>3
<1> QED
    BY <1>4, <1>7, <1>8, <1>9, <1>11, <1>12, <1>13, <1>14, <1>15, NextNet DEF ClientStep, net_vars

-----------------------------------------------------------------------------
\* Before the first connection: all permits are free, one instance is ready.
LEMMA InitServerInv == Init => ServerInv
<1> SUFFICES ASSUME Init
             PROVE  ServerInv
    OBVIOUS
<1> USE ServerAssumption
<1>1. PICK i \in Instance : pool = <<i>>
    BY DEF Init
<1>2. pool \in Seq(Instance) /\ Distinct(pool) /\ Len(pool) = 1 /\ Elements(pool) \subseteq Instance
    BY <1>1 DEF Distinct, Elements
<1>3. TypeOK
    BY <1>2 DEF Init, TypeOK, Holding
<1>4. QueueInv
    BY DEF Init, QueueInv, Distinct, Elements
<1>5. AskerInv
    BY DEF Init, AskerInv, AnswersMatch
<1>6. /\ Cardinality(ThreadsAt(Client, conn, OnLine)) = 0
      /\ Cardinality(ThreadsAt(Client, conn, Holding)) = 0
      /\ Cardinality(ThreadsAt(Task, task, Busy)) = 0
      /\ Cardinality(ThreadsAt(Task, task, Needing)) = 0
    <2>1. /\ ThreadsAt(Client, conn, OnLine) = {} /\ ThreadsAt(Client, conn, Holding) = {}
          /\ ThreadsAt(Task, task, Busy) = {} /\ ThreadsAt(Task, task, Needing) = {}
        BY DEF Init, ThreadsAt, OnLine, Holding, Busy, Needing, InHand
    <2>2. Cardinality({}) = 0
        BY FS_EmptySet
    <2> QED
        BY <2>1, <2>2, Zenon
<1>7. PermitInv
    BY <1>6 DEF Init, PermitInv
<1>8. InstanceInv
    BY <1>2, <1>6 DEF Init, InstanceInv, InHand
<1> QED
    BY <1>3, <1>4, <1>5, <1>7, <1>8 DEF ServerInv

\* Every step of a client, of the loop and of a closure keeps the invariant.
LEMMA StepServerInv == ServerInv /\ [Next]_vars => ServerInv'
<1> SUFFICES ASSUME ServerInv, [Next]_vars
             PROVE  ServerInv'
    OBVIOUS
<1>1. /\ TypeOK /\ NetTypeOK /\ QueueInv /\ AskerInv /\ Admitted /\ WorkerInv
      /\ task \in [Task -> TaskPlaces]
    BY DEF ServerInv, TypeOK, NetTypeOK, ConnPlaces, PermitInv, Admitted, Permitted,
           WorkerInv, WorkerTypeOK, TaskPlaces, Busy
<1>2. WorkerInv'
    BY <1>1, WorkerStep
<1>3. /\ QueueInv' /\ conn' \in [Client -> ConnPlaces] /\ last' \in [Client -> BOOLEAN]
      /\ upload_queue' \in Seq(Client) /\ permit_queue' \in Seq(Client)
    BY <1>1, QueueStep
<1>4. AskerInv' /\ asker' \in [Task -> Client \cup {Nobody}]
    BY <1>1, AskerStep
<1>5. Admitted' /\ places' \in Nat /\ uploads' \in Nat
    BY <1>1, AdmittedStep
<1>6. serving' \in {serving, "draining", "returned", "exited"}
    BY DEF Next, vars, Accept, EndIdle, Written, AnswerHead, Request, BodyRead, BodyFails, Disconnect,
           AdmitBody, StartWorker, Work, Pop, Fresh, Call, Traps, Push, DropInstance, End, accept_failed,
           Shutdown, Return, Exit, Exited
<1>7. TypeOK'
    BY <1>1, <1>2, <1>3, <1>4, <1>5, <1>6 DEF TypeOK, WorkerInv, WorkerTypeOK, ConnPlaces, TaskPlaces, Busy
<1> QED
    BY <1>2, <1>3, <1>4, <1>5, <1>7 DEF ServerInv, PermitInv, Admitted, Permitted, WorkerInv

\* Every reachable state of the server satisfies ServerInv.
THEOREM ServerInvariant == Spec => []ServerInv
BY InitServerInv, StepServerInv, PTL DEF Spec

\* An answer goes to the request that asked for it: a client that left and
\* came back never gets the answer of the worker its old request started.
THEOREM AnswersMatchCorrect == Spec => []AnswersMatch
<1>1. ServerInv => AnswersMatch
    BY DEF ServerInv, AskerInv
<1> QED
    BY <1>1, ServerInvariant, PTL

\* runtime.rs: "At most one instance per worker exists", each serves one call
\* at a time, and one that trapped is never returned to the pool.
THEOREM OneInstancePerWorkerCorrect == Spec => []OneInstancePerWorker
<1>1. ServerInv => OneInstancePerWorker
    <2> SUFFICES ASSUME ServerInv
                 PROVE  OneInstancePerWorker
        OBVIOUS
    <2>1. WorkerInv
        BY DEF ServerInv, TypeOK, WorkerInv, WorkerTypeOK, TaskPlaces, Busy, PermitInv, Permitted
    <2>2. Cardinality(Live) <= WORKERS
        BY <2>1, LiveBound
    <2>3. /\ \A k \in Task : using[k] \notin Elements(pool)
          /\ \A i \in trapped : \E k \in Task : using[k] = i
          /\ Distinct(pool)
          /\ \A k, l \in Task : using[k] = using[l] /\ using[k] # Nobody => k = l
        BY DEF ServerInv, InstanceInv
    <2>4. \A n \in DOMAIN pool : pool[n] \in Elements(pool)
        BY DEF Elements
    <2> QED
        BY <2>2, <2>3, <2>4 DEF OneInstancePerWorker, Distinct
<1> QED
    BY <1>1, ServerInvariant, PTL

\* MAX_CONNECTIONS, the upload permits and WORKERS bound what they are meant
\* to, and no permit is lost: with no connection open and no closure running,
\* all of them are back, however the connections and the calls ended.
NoPermitLost ==
    /\ Cardinality(Connected) <= MAX_CONNECTIONS
    /\ Cardinality(Uploading) <= UPLOADS
    /\ Cardinality(Running) <= WORKERS
    /\ Connected = {} => places = MAX_CONNECTIONS /\ uploads = UPLOADS
    /\ Running = {} => permits = WORKERS

THEOREM NoPermitLostCorrect == Spec => []NoPermitLost
<1>1. ServerInv => NoPermitLost
    <2> SUFFICES ASSUME ServerInv
                 PROVE  NoPermitLost
        OBVIOUS
    <2>1. /\ Connected = ThreadsAt(Client, conn, OnLine)
          /\ Uploading = ThreadsAt(Client, conn, Holding)
          /\ Running = ThreadsAt(Task, task, Busy)
        BY DEF ServerInv, TypeOK, Connected, Uploading, Running, ThreadsAt, OnLine, Holding, Busy
    <2>2. /\ Cardinality(Connected) \in Nat /\ Cardinality(Uploading) \in Nat /\ Cardinality(Running) \in Nat
          /\ Cardinality(Connected) = 0 <=> Connected = {}
          /\ Cardinality(Uploading) = 0 <=> Uploading = {}
          /\ Cardinality(Running) = 0 <=> Running = {}
        BY <2>1, AtFinite, ServerAssumption
    <2>3. /\ places \in Nat /\ uploads \in Nat /\ permits \in Nat
          /\ places + Cardinality(Connected) = MAX_CONNECTIONS
          /\ uploads + Cardinality(Uploading) = UPLOADS
          /\ permits + Cardinality(Running) = WORKERS
        BY <2>1 DEF ServerInv, TypeOK, PermitInv
    <2>4. Connected = {} => Uploading = {}
        BY DEF Connected, Uploading, Holding
    <2> QED
        BY <2>2, <2>3, <2>4 DEF NoPermitLost
<1> QED
    BY <1>1, ServerInvariant, PTL

\* A list hands its permit to a client that waits: the head of each is where
\* AdmitBody and StartWorker expect it, so neither list can be stuck on a
\* client that left.
HeadIsWaiting ==
    /\ upload_queue # <<>> => conn[Head(upload_queue)] = "admission"
    /\ permit_queue # <<>> => conn[Head(permit_queue)] = "ready"

THEOREM HeadIsWaitingCorrect == Spec => []HeadIsWaiting
<1>1. ServerInv => HeadIsWaiting
    <2> SUFFICES ASSUME ServerInv
                 PROVE  HeadIsWaiting
        OBVIOUS
    <2>1. /\ upload_queue # <<>> => Head(upload_queue) \in Elements(upload_queue) \cap Client
          /\ permit_queue # <<>> => Head(permit_queue) \in Elements(permit_queue) \cap Client
        BY TailElements DEF ServerInv, TypeOK
    <2> QED
        BY <2>1 DEF HeadIsWaiting, ServerInv, QueueInv
<1> QED
    BY <1>1, ServerInvariant, PTL
=============================================================================
