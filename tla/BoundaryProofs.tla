--------------------------- MODULE BoundaryProofs ---------------------------
(***************************************************************************)
(* The boundaries a call crosses on its way to the core, the roots it is   *)
(* configured with, the Holder that opens a server and the decoders of     *)
(* what a call carries, each for every value of its constants.  They share *)
(* no state: each theorem is about the specification of one component.     *)
(***************************************************************************)
EXTENDS Boundaries, Decoders, EngineHolder, CountingLemmas

-----------------------------------------------------------------------------
(* java-wasm's BinaryCache *)

\* Where a thread holds its JVM's monitor, and where the file lock too.
Installing == {"look", "fetch", "copy", "hashed", "move"}
Monitored == {"lock"} \cup Installing

TempFiles == [holds : {"absent", "part", "pinned", "other"}, exec : BOOLEAN, kept : BOOLEAN]

CacheType ==
    /\ target \in {"absent", "pinned", "other"}
    /\ temp \in [Installers -> TempFiles]
    /\ monitor \in [Cache!Jvms -> Installers \cup {"free"}]
    /\ fileLock \in Cache!Jvms \cup {"free"}
    /\ cachePc \in [Installers -> Monitored \cup {"idle", "monitor", "ready", "delete", "start"}]
    /\ ran \in [Installers -> {"nothing", "pinned", "other"}]
    /\ changes \in Nat

\* A thread of a JVM that lives holds the locks its place needs.
Locked ==
    \A t \in Installers : JvmOf[t] \notin dead =>
        /\ cachePc[t] \in Monitored => monitor[JvmOf[t]] = t
        /\ cachePc[t] \in Installing => fileLock = JvmOf[t]

\* A temporary file exists only while its thread copies, compares and moves
\* it, or its delete failed, also when the thread is one of a JVM that died;
\* what is executable was compared.
Checked ==
    \A t \in Installers :
        /\ cachePc[t] \notin {"copy", "hashed", "move"} => temp[t] = Cache!NoFile \/ temp[t].kept
        /\ cachePc[t] \in {"copy", "hashed"} => ~temp[t].exec
        /\ cachePc[t] = "move" => temp[t].exec
        /\ temp[t].exec => temp[t].holds = "pinned"

\* Who fetches found the cache without the binary, and nobody else can have
\* put one there since.
Lacking ==
    \A t \in Installers : cachePc[t] \in Cache!Fetching /\ JvmOf[t] \notin dead => target = "absent"

\* What is there between a start's check and the start is what was checked,
\* unless it changed in between.
Fresh ==
    \A t \in Installers :
        /\ cachePc[t] = "start" /\ target = "other" => t \in late
        /\ ran[t] = "other" => t \in late

CacheInv ==
    /\ CacheType
    /\ Locked
    /\ Checked
    /\ Lacking
    /\ Fresh
    /\ target = "other" => changes > 0

\* At most one thread of the JVMs that live works on the target.
OneInstaller ==
    \A t, u \in Installers :
        /\ JvmOf[t] \notin dead /\ JvmOf[u] \notin dead
        /\ cachePc[t] \in Installing /\ cachePc[u] \in Installing
        => t = u

\* An empty or foreign directory, and nobody at work.
LEMMA CacheStarts == ASSUME Cache!CacheAssumption, Cache!Init
                     PROVE  CacheInv
BY DEF Cache!CacheAssumption, Cache!Init, CacheInv, CacheType, TempFiles, Locked, Checked, Lacking, Fresh,
       Cache!NoFile, Cache!Jvms, Cache!Fetching, Installing, Monitored

\* A thread that leaves held both locks, so no other living thread needs one,
\* and none fetches.
LEMMA LeavingKeeps ==
    ASSUME Cache!CacheAssumption, CacheInv, NEW t \in Installers, JvmOf[t] \notin dead, cachePc[t] \in Installing,
           NEW to \in {"idle", "ready"}, Cache!Leave(t, to), UNCHANGED <<dead, changes, ran, late>>,
           NEW f \in TempFiles, temp' = [temp EXCEPT ![t] = f], f = Cache!NoFile \/ f.kept,
           f.exec => f.holds = "pinned", target' = target \/ target' = "pinned"
    PROVE  CacheInv'
<1> USE DEF CacheInv, CacheType, Installing, Monitored, Cache!Jvms
<1>1. CacheType'
    BY DEF Cache!Leave
<1>2. Checked'
    BY DEF Checked, Cache!Leave
<1>3. ASSUME NEW u \in Installers, JvmOf[u] \notin dead, cachePc'[u] \in Monitored
      PROVE  /\ monitor'[JvmOf[u]] = u
             /\ cachePc'[u] \notin Installing
    <2>1. u # t /\ cachePc'[u] = cachePc[u]
        BY <1>3 DEF Cache!Leave
    <2>2. monitor[JvmOf[u]] = u
        BY <1>3, <2>1 DEF Locked
    <2>3. JvmOf[u] # JvmOf[t]
        BY <2>1, <2>2 DEF Locked
    <2>4. cachePc[u] \notin Installing
        BY <1>3, <2>1, <2>3 DEF Locked
    <2>5. monitor'[JvmOf[u]] = monitor[JvmOf[u]]
        BY <2>3 DEF Cache!Leave
    <2> QED
        BY <2>1, <2>2, <2>4, <2>5
<1>4. Locked'
    BY <1>3 DEF Locked
<1>5. Lacking'
    BY <1>3 DEF Lacking, Cache!Fetching
<1>6. Fresh'
    BY DEF Fresh, Cache!Leave
<1> QED
    BY <1>1, <1>2, <1>4, <1>5, <1>6

\* install throws with a temporary file made: it is deleted, or it stays.
LEMMA AbandoningKeeps ==
    ASSUME Cache!CacheAssumption, CacheInv, NEW t \in Installers, JvmOf[t] \notin dead,
           cachePc[t] \in {"copy", "hashed", "move"}, Cache!Abandon(t), UNCHANGED <<target, dead, changes, ran, late>>
    PROVE  CacheInv'
<1>1. Cache!NoFile \in TempFiles /\ ~Cache!NoFile.exec
    BY DEF Cache!NoFile, TempFiles
<1>2. CASE temp' = [temp EXCEPT ![t] = Cache!NoFile]
    BY <1>1, <1>2, LeavingKeeps DEF Cache!Abandon, Installing
<1>3. CASE temp' = [temp EXCEPT ![t].kept = TRUE]
    <2> DEFINE f == [temp[t] EXCEPT !.kept = TRUE]
    <2>1. temp[t] \in TempFiles /\ (temp[t].exec => temp[t].holds = "pinned")
        BY DEF CacheInv, CacheType, Checked
    <2>2. f \in TempFiles /\ f.kept /\ (f.exec => f.holds = "pinned")
        BY <2>1 DEF TempFiles
    <2>3. temp' = [temp EXCEPT ![t] = f]
        BY <1>3
    <2> HIDE DEF f
    <2> QED
        BY <2>2, <2>3, LeavingKeeps DEF Cache!Abandon, Installing
<1> QED
    BY <1>2, <1>3 DEF Cache!Abandon

\* install throws before it made a temporary file.
LEMMA GivingUpKeeps ==
    ASSUME Cache!CacheAssumption, CacheInv, NEW t \in Installers, JvmOf[t] \notin dead,
           cachePc[t] \in {"look", "fetch"}, NEW to \in {"idle", "ready"}, Cache!Leave(t, to),
           UNCHANGED <<target, temp, dead, changes, ran, late>>
    PROVE  CacheInv'
<1>1. /\ temp[t] \in TempFiles /\ (temp[t].exec => temp[t].holds = "pinned")
      /\ temp[t] = Cache!NoFile \/ temp[t].kept
      /\ temp' = [temp EXCEPT ![t] = temp[t]]
    BY DEF CacheInv, CacheType, Checked
<1> DEFINE f == temp[t]
<1> HIDE DEF f
<1> QED
    BY <1>1, LeavingKeeps DEF f, Installing

\* One step per action of ServerBinary.install and of what happens around it.
LEMMA CacheSteps == ASSUME Cache!CacheAssumption, CacheInv, [Cache!Next]_(Cache!vars)
                    PROVE  CacheInv'
<1> USE DEF Cache!Locks, Cache!Counts, Cache!History, Cache!Goto, Installing, Monitored, Cache!Fetching
<1>1. ASSUME NEW t \in Installers, Cache!ownerOnlyDirectory(t)
      PROVE  CacheInv'
    BY <1>1 DEF Cache!ownerOnlyDirectory, CacheInv, CacheType, Locked, Checked, Lacking, Fresh
<1>2. ASSUME NEW t \in Installers, Cache!EnterMonitor(t)
      PROVE  CacheInv'
    <2>1. CacheType' /\ Checked' /\ Lacking' /\ Fresh'
        BY <1>2 DEF Cache!EnterMonitor, Cache!Jvms, CacheInv, CacheType, Checked, Lacking, Fresh
    <2>2. Locked'
        BY <1>2 DEF Cache!EnterMonitor, Cache!CacheAssumption, Cache!Jvms, CacheInv, CacheType, Locked
    <2> QED
        BY <1>2, <2>1, <2>2 DEF CacheInv, Cache!EnterMonitor
<1>3. ASSUME NEW t \in Installers, Cache!LockFile(t)
      PROVE  CacheInv'
    <2>1. CASE /\ Cache!Goto(t, "lock", "look") /\ fileLock = "free" /\ fileLock' = JvmOf[t]
               /\ UNCHANGED <<monitor, target, temp, dead, ran, late, changes>>
        BY <2>1 DEF CacheInv, CacheType, Locked, Checked, Lacking, Fresh, Cache!Jvms, Cache!CacheAssumption
    <2>2. CASE /\ Cache!Goto(t, "lock", "idle") /\ monitor' = [monitor EXCEPT ![JvmOf[t]] = "free"]
               /\ UNCHANGED <<fileLock, target, temp, dead, ran, late, changes>>
        <3>1. CacheType' /\ Checked' /\ Lacking' /\ Fresh'
            BY <2>2 DEF CacheInv, CacheType, Checked, Lacking, Fresh, Cache!Jvms
        <3>2. Locked'
            BY <2>2 DEF CacheInv, CacheType, Locked
        <3> QED
            BY <2>2, <3>1, <3>2 DEF CacheInv
    <2> QED
        BY <1>3, <2>1, <2>2 DEF Cache!LockFile
<1>4. ASSUME NEW t \in Installers, Cache!Look(t)
      PROVE  CacheInv'
    <2>1. ASSUME NEW to \in {"idle", "ready"}, Cache!Leave(t, to), UNCHANGED target
          PROVE  CacheInv'
        BY <1>4, <2>1, GivingUpKeeps DEF Cache!Look
    <2>2. CASE /\ target' = "absent" /\ cachePc' = [cachePc EXCEPT ![t] = "fetch"]
               /\ UNCHANGED <<monitor, fileLock>>
        BY <1>4, <2>2 DEF Cache!Look, CacheInv, CacheType, Locked, Checked, Lacking, Fresh
    <2> QED
        BY <1>4, <2>1, <2>2 DEF Cache!Look
<1>5. ASSUME NEW t \in Installers, Cache!Fetch(t)
      PROVE  CacheInv'
    <2>1. CASE Cache!Leave(t, "idle") /\ UNCHANGED temp
        BY <1>5, <2>1, GivingUpKeeps DEF Cache!Fetch
    <2>2. CASE /\ temp' = [temp EXCEPT ![t] = [holds |-> "part", exec |-> FALSE, kept |-> FALSE]]
               /\ cachePc' = [cachePc EXCEPT ![t] = "copy"] /\ UNCHANGED <<monitor, fileLock>>
        BY <1>5, <2>2 DEF Cache!Fetch, CacheInv, CacheType, TempFiles, Locked, Checked, Lacking, Fresh
    <2> QED
        BY <1>5, <2>1, <2>2 DEF Cache!Fetch
<1>6. ASSUME NEW t \in Installers, Cache!Copy(t)
      PROVE  CacheInv'
    <2>1. CASE Cache!Abandon(t)
        BY <1>6, <2>1, AbandoningKeeps DEF Cache!Copy
    <2>2. ASSUME NEW b \in {"pinned", "other"}, temp' = [temp EXCEPT ![t].holds = b],
                 cachePc' = [cachePc EXCEPT ![t] = "hashed"], UNCHANGED <<monitor, fileLock>>
          PROVE  CacheInv'
        <3>1. ~temp[t].exec
            BY <1>6 DEF Cache!Copy, CacheInv, Checked
        <3> QED
            BY <1>6, <2>2, <3>1 DEF Cache!Copy, CacheInv, CacheType, TempFiles, Locked, Checked, Lacking, Fresh
    <2> QED
        BY <1>6, <2>1, <2>2 DEF Cache!Copy
<1>7. ASSUME NEW t \in Installers, Cache!Compare(t)
      PROVE  CacheInv'
    <2>1. CASE Cache!Abandon(t)
        BY <1>7, <2>1, AbandoningKeeps DEF Cache!Compare
    <2>2. CASE /\ temp[t].holds = "pinned" /\ temp' = [temp EXCEPT ![t].exec = TRUE]
               /\ cachePc' = [cachePc EXCEPT ![t] = "move"] /\ UNCHANGED <<monitor, fileLock>>
        <3>1. UNCHANGED <<target, dead, changes, ran, late>> /\ cachePc[t] = "hashed"
            BY <1>7 DEF Cache!Compare
        <3> DEFINE f == [temp[t] EXCEPT !.exec = TRUE]
        <3>2. f \in TempFiles /\ f.exec /\ f.holds = "pinned" /\ temp' = [temp EXCEPT ![t] = f]
            <4>1. temp[t] \in TempFiles
                BY DEF CacheInv, CacheType
            <4> QED
                BY <2>2, <4>1 DEF TempFiles
        <3> HIDE DEF f
        <3>3. CacheType' /\ Checked'
            BY <2>2, <3>1, <3>2 DEF CacheInv, CacheType, Checked
        <3>4. Locked' /\ Lacking' /\ Fresh'
            BY <2>2, <3>1 DEF CacheInv, CacheType, Locked, Lacking, Fresh
        <3> QED
            BY <3>1, <3>3, <3>4 DEF CacheInv
    <2> QED
        BY <1>7, <2>1, <2>2 DEF Cache!Compare
<1>8. ASSUME NEW t \in Installers, Cache!Move(t)
      PROVE  CacheInv'
    <2>1. CASE Cache!Abandon(t) /\ UNCHANGED target
        BY <1>8, <2>1, AbandoningKeeps DEF Cache!Move
    <2>2. CASE /\ target' = temp[t].holds /\ Cache!Leave(t, "ready")
               /\ temp' = [temp EXCEPT ![t] = Cache!NoFile]
        <3>1. target' = "pinned"
            BY <1>8, <2>2 DEF Cache!Move, CacheInv, Checked
        <3>2. Cache!NoFile \in TempFiles /\ ~Cache!NoFile.exec
            BY DEF Cache!NoFile, TempFiles
        <3> QED
            BY <1>8, <2>2, <3>1, <3>2, LeavingKeeps DEF Cache!Move
    <2> QED
        BY <1>8, <2>1, <2>2 DEF Cache!Move
<1>9. ASSUME NEW t \in Installers, Cache!verifyBeforeStart(t)
      PROVE  CacheInv'
    <2>1. PICK to \in {"start", "delete", "idle"} :
              cachePc' = [cachePc EXCEPT ![t] = to] /\ (to = "start" => target = "pinned")
        BY <1>9 DEF Cache!verifyBeforeStart, CacheInv, CacheType
    <2>2. /\ cachePc[t] = "ready" /\ UNCHANGED <<target, temp, monitor, fileLock, dead, changes>>
          /\ ran' = [ran EXCEPT ![t] = "nothing"] /\ late' = late \ {t}
        BY <1>9 DEF Cache!verifyBeforeStart
    <2>3. CacheType' /\ Locked' /\ Checked' /\ Lacking'
        BY <2>1, <2>2 DEF CacheInv, CacheType, Locked, Checked, Lacking
    <2>4. Fresh'
        BY <2>1, <2>2 DEF CacheInv, CacheType, Fresh
    <2> QED
        BY <2>2, <2>3, <2>4 DEF CacheInv
<1>10. ASSUME NEW t \in Installers, Cache!DeleteChanged(t)
       PROVE  CacheInv'
    BY <1>10 DEF Cache!DeleteChanged, CacheInv, CacheType, Locked, Checked, Lacking, Fresh
<1>11. ASSUME NEW t \in Installers, Cache!Start(t)
       PROVE  CacheInv'
    <2>1. PICK to \in {"idle", "ready"} : cachePc' = [cachePc EXCEPT ![t] = to]
        BY <1>11 DEF Cache!Start
    <2>2. PICK r \in {"nothing", "pinned", "other"} : ran' = [ran EXCEPT ![t] = r] /\ (r = "other" => target = "other")
        BY <1>11 DEF Cache!Start, CacheInv, CacheType
    <2>3. cachePc[t] = "start" /\ UNCHANGED <<target, temp, monitor, fileLock, dead, changes, late>>
        BY <1>11 DEF Cache!Start
    <2> QED
        BY <2>1, <2>2, <2>3 DEF CacheInv, CacheType, Locked, Checked, Lacking, Fresh
<1>12. ASSUME NEW j \in Cache!Jvms, Cache!Crash(j)
       PROVE  CacheInv'
    BY <1>12 DEF Cache!Crash, Cache!Jvms, Cache!CacheAssumption, CacheInv, CacheType, Locked, Checked, Lacking, Fresh
<1>13. CASE Cache!Change
    BY <1>13 DEF Cache!Change, CacheInv, CacheType, Locked, Checked, Lacking, Fresh
<1>14. CASE Cache!Done \/ UNCHANGED Cache!vars
    BY <1>14 DEF Cache!Done, Cache!vars, CacheInv, CacheType, Locked, Checked, Lacking, Fresh
<1> QED
    BY <1>1, <1>2, <1>3, <1>4, <1>5, <1>6, <1>7, <1>8, <1>9, <1>10, <1>11, <1>12, <1>13, <1>14 DEF Cache!Next

\* ServerBinary.install: whoever works on the target holds the monitor and the
\* file lock and found the cache without the binary, a temporary file is
\* executable only after it was compared, and what is there at a start was
\* checked or changed since.  The two theorems below rest on it.
THEOREM CacheInvariant == Cache!CacheAssumption => (Cache!Spec => []CacheInv)
<1> SUFFICES ASSUME Cache!CacheAssumption
             PROVE  Cache!Spec => []CacheInv
    OBVIOUS
<1>1. Cache!Init => CacheInv
    BY CacheStarts
<1>2. CacheInv /\ [Cache!Next]_(Cache!vars) => CacheInv'
    BY CacheSteps
<1> QED
    BY <1>1, <1>2, PTL DEF Cache!Spec

\* ServerBinary: whatever any number of threads and JVMs do, whichever of them
\* die and whichever operations on files fail, bytes that do not hash to the
\* pin are made executable by nobody and started only after a change between
\* a start's own check and the start, and nobody fetches what is installed.
THEOREM OnlyPinnedIsExecutableCorrect ==
    Cache!CacheAssumption => (Cache!Spec => []OnlyPinnedIsExecutable)
<1>1. CacheInv => OnlyPinnedIsExecutable
    BY DEF CacheInv, Checked, Lacking, Fresh, Cache!OnlyPinnedIsExecutable, OnlyPinnedIsExecutable
<1> QED
    BY <1>1, CacheInvariant, PTL

\* DIRECTORY_LOCKS and the file lock: one thread at a time of those whose JVM
\* lives works on the target, although a monitor excludes one JVM's threads
\* only and a file lock only other JVMs.
THEOREM OneInstallerAtATime == Cache!CacheAssumption => (Cache!Spec => []OneInstaller)
<1>1. CacheInv => OneInstaller
    BY DEF CacheInv, Locked, OneInstaller, Monitored
<1> QED
    BY <1>1, CacheInvariant, PTL

-----------------------------------------------------------------------------
(* The Go host and its instances of aprv.wasm *)

\* Where a goroutine has an instance in hand.
InHand == {"lower", "run", "read", "put"}
GoAnswers == [kind : {"too_large", "judged", "internal", "none"}, of : Nat, at : Nat]
Asked(t) == Go!Core(request[t].fn, request[t].length, request[t].now)

GoType ==
    /\ goVerifier \in [Instance -> BOOLEAN]
    /\ buffer \in [Instance -> Nat]
    /\ area \in [Instance -> GoAnswers]
    /\ made \subseteq Instance /\ pool \subseteq made
    /\ goPc \in [Caller -> InHand \cup {"idle", "get", "fresh"}]
    /\ guest \in [Caller -> Instance \cup {Nobody}]
    /\ request \in [Caller -> [fn : Go!Calls \cup {"none"}, length : Nat, now : Nat]]
    /\ goAnswer \in [Caller -> GoAnswers]

\* An instance is in the pool or in one goroutine's hand, after its init and
\* never again unmade.
OneHolder ==
    /\ \A i \in Instance : i \notin made => ~goVerifier[i]
    /\ \A i \in pool : goVerifier[i]
    /\ \A t \in Caller : goPc[t] \in InHand => guest[t] \in made \ pool /\ goVerifier[guest[t]]
    /\ \A t, u \in Caller : goPc[t] \in InHand /\ goPc[u] \in InHand /\ guest[t] = guest[u] => t = u

\* What the goroutine's instance holds at each place of the call.
OwnAnswer ==
    \A t \in Caller :
        /\ goPc[t] # "idle" => request[t].fn \in Go!Calls
        /\ goPc[t] = "run" => buffer[guest[t]] = Go!cut(request[t].length)
        /\ goPc[t] = "read" => area[guest[t]] = Asked(t)
        /\ goPc[t] \in {"put", "idle"} => goAnswer[t].kind \in {"none", "internal"} \/ goAnswer[t] = Asked(t)

GoInv == GoType /\ OneHolder /\ OwnAnswer /\ Go!NeverOutOfOrder

\* max_input_bytes is over every cap, so an input cut there is as refused as
\* the whole one.
LEMMA CutCannotBeTold ==
    ASSUME Go!GuestHostAssumption, NEW fn \in Go!Calls, NEW size \in Nat, NEW now \in Nat
    PROVE  /\ Go!cut(size) \in Nat
           /\ Go!Core(fn, Go!cut(size), now) = Go!Core(fn, size, now)
           /\ Go!Core(fn, size, now) \in GoAnswers
<1> DEFINE S == {MAX_REQUEST_BYTES, MAX_RECEIPT_BYTES, MAX_JWS_BYTES}
<1>1. S \subseteq Nat
    BY DEF Go!GuestHostAssumption
<1>2. \E x \in S : \A y \in S : x >= y
    BY <1>1
<1>3. Go!Max(S) \in S /\ \A y \in S : Go!Max(S) >= y
    <2> HIDE DEF S
    <2> QED
        BY <1>2 DEF Go!Max
<1>4. Go!Cap(fn) \in S
    BY DEF Go!Cap, Go!Calls
<1>5. Go!MAX_INPUT_BYTES \in Nat /\ Go!Cap(fn) \in Nat /\ Go!Cap(fn) < Go!MAX_INPUT_BYTES
    <2> DEFINE largest == Go!Max(S)
               cap == Go!Cap(fn)
    <2>1. Go!MAX_INPUT_BYTES = largest + 1
        BY DEF Go!MAX_INPUT_BYTES
    <2>2. largest \in Nat /\ cap \in Nat /\ largest >= cap
        BY <1>1, <1>3, <1>4
    <2> HIDE DEF largest, cap
    <2>3. largest + 1 \in Nat /\ cap < largest + 1
        BY <2>2
    <2> QED
        BY <2>1, <2>2, <2>3 DEF cap
<1> QED
    BY <1>5 DEF Go!cut, Go!Core, GoAnswers

\* No instance and no call.
LEMMA GoStarts == ASSUME Go!GuestHostAssumption, Go!Init
                  PROVE  GoInv
BY DEF Go!Init, GoInv, GoType, OneHolder, OwnAnswer, Go!NeverOutOfOrder, GoAnswers, Go!NoAnswer, InHand,
       Go!GuestHostAssumption

\* One step per action of a goroutine, and of sync.Pool.
LEMMA GoSteps == ASSUME Go!GuestHostAssumption, GoInv, [Go!Next]_(Go!vars)
                 PROVE  GoInv'
<1> USE DEF GoInv, GoType, OneHolder, OwnAnswer, Go!NeverOutOfOrder, InHand, Go!instance, Go!Goto, Go!Answer, Asked
<1>0. Go!Internal \in GoAnswers /\ Go!NoAnswer \in GoAnswers
        /\ Go!Internal.kind = "internal" /\ Go!NoAnswer.kind = "none" /\ 0 \in Nat
    BY DEF GoAnswers, Go!Internal, Go!NoAnswer
<1>1. ASSUME NEW t \in Caller, NEW fn \in Go!Calls, NEW n \in GoLengths, NEW now \in Clock, Go!Begin(t, fn, n, now)
      PROVE  GoInv'
    BY <1>0, <1>1 DEF Go!Begin, Go!GuestHostAssumption
<1>2. ASSUME NEW t \in Caller, Go!ClockFails(t)
      PROVE  GoInv'
    BY <1>0, <1>2 DEF Go!ClockFails
<1>3. ASSUME NEW t \in Caller, Go!get(t)
      PROVE  GoInv'
    <2>1. goPc[t] = "get" /\ UNCHANGED <<goVerifier, buffer, area, made, misused, request, goAnswer>>
        BY <1>3 DEF Go!get
    <2>2. CASE goPc' = [goPc EXCEPT ![t] = "fresh"] /\ UNCHANGED <<pool, guest>>
        BY <2>1, <2>2
    <2>3. ASSUME NEW i \in pool, pool' = pool \ {i}, guest' = [guest EXCEPT ![t] = i],
                 goPc' = [goPc EXCEPT ![t] = "lower"]
          PROVE  GoInv'
        <3>1. GoType'
            BY <2>1, <2>3
        <3>2. OneHolder'
            BY <2>1, <2>3
        <3>3. OwnAnswer'
            BY <2>1, <2>3
        <3> QED
            BY <2>1, <3>1, <3>2, <3>3
    <2> QED
        BY <1>3, <2>2, <2>3 DEF Go!get
<1>4. ASSUME NEW t \in Caller, Go!newGuest(t)
      PROVE  GoInv'
    <2>1. CASE goPc' = [goPc EXCEPT ![t] = "idle"]
        <3>1. /\ UNCHANGED <<goVerifier, buffer, area, pool, misused, guest, request>>
              /\ made \subseteq made' /\ made' \subseteq Instance
              /\ goAnswer' = [goAnswer EXCEPT ![t] = Go!Internal]
            BY <1>4, <2>1 DEF Go!newGuest
        <3> QED
            BY <1>0, <2>1, <3>1
    <2>2. ASSUME NEW i \in Instance \ made, made' = made \cup {i}, goPc[t] = "fresh",
                 goPc' = [goPc EXCEPT ![t] = "lower"], Go!init(i), guest' = [guest EXCEPT ![t] = i],
                 UNCHANGED <<goAnswer, buffer, area, pool, request>>
          PROVE  GoInv'
        <3>1. goVerifier' = [goVerifier EXCEPT ![i] = TRUE] /\ UNCHANGED misused
            BY <2>2 DEF Go!init
        <3>2. GoType'
            BY <2>2, <3>1
        <3>3. OneHolder'
            BY <2>2, <3>1
        <3>4. OwnAnswer'
            BY <2>2, <3>1
        <3> QED
            BY <3>1, <3>2, <3>3, <3>4
    <2> QED
        BY <1>4, <2>1, <2>2 DEF Go!newGuest
<1>fail. ASSUME NEW t \in Caller, goPc[t] \in InHand, Go!fail(t), UNCHANGED <<goVerifier, made, pool, guest, request>>,
                buffer' = buffer /\ area' = area, UNCHANGED misused
         PROVE  GoInv'
    <2>1. goPc' = [goPc EXCEPT ![t] = "put"] /\ goAnswer' = [goAnswer EXCEPT ![t] = Go!Internal]
        BY <1>fail DEF Go!fail
    <2>2. GoType'
        BY <1>0, <1>fail, <2>1
    <2>3. OneHolder'
        BY <1>fail, <2>1
    <2>4. OwnAnswer'
        BY <1>0, <1>fail, <2>1
    <2> QED
        BY <1>fail, <2>2, <2>3, <2>4
<1>5. ASSUME NEW t \in Caller, Go!lower(t)
      PROVE  GoInv'
    <2>1. CASE goPc[t] = "lower" /\ Go!fail(t) /\ UNCHANGED buffer
        BY <1>fail, <1>5, <2>1 DEF Go!lower
    <2>2. CASE Go!Goto(t, "lower", "run") /\ buffer' = [buffer EXCEPT ![guest[t]] = Go!cut(request[t].length)]
                 /\ UNCHANGED goAnswer
        <3>1. UNCHANGED <<goVerifier, area, made, pool, misused, guest, request>>
            BY <1>5 DEF Go!lower
        <3>2. Go!cut(request[t].length) \in Nat
            BY <2>2, CutCannotBeTold
        <3>3. GoType'
            BY <2>2, <3>1, <3>2
        <3>4. OneHolder'
            BY <2>2, <3>1
        <3>5. OwnAnswer'
            BY <2>2, <3>1
        <3> QED
            BY <3>1, <3>3, <3>4, <3>5
    <2> QED
        BY <1>5, <2>1, <2>2 DEF Go!lower
<1>6. ASSUME NEW t \in Caller, Go!Run(t)
      PROVE  GoInv'
    <2>1. UNCHANGED <<goVerifier, made, pool, guest, request>>
        BY <1>6 DEF Go!Run
    <2>2. CASE Go!trap(t)
        BY <1>fail, <2>1, <2>2 DEF Go!trap
    <2>3. CASE Go!with_verifier(t)
        <3>1. /\ goPc[t] = "run" /\ goPc' = [goPc EXCEPT ![t] = "read"]
              /\ area' = [area EXCEPT ![guest[t]] = Go!Core(request[t].fn, buffer[guest[t]], request[t].now)]
              /\ buffer' = [buffer EXCEPT ![guest[t]] = 0]
              /\ UNCHANGED <<goAnswer, misused>>
            BY <2>3 DEF Go!with_verifier
        <3>2. Go!Core(request[t].fn, buffer[guest[t]], request[t].now) = Asked(t) /\ Asked(t) \in GoAnswers
            <4>1. /\ request[t].fn \in Go!Calls /\ request[t].length \in Nat /\ request[t].now \in Nat
                  /\ buffer[guest[t]] = Go!cut(request[t].length)
                BY <3>1
            <4> QED
                BY <4>1, CutCannotBeTold
        <3>3. area' = [area EXCEPT ![guest[t]] = Asked(t)]
            BY <3>1, <3>2
        <3>4. GoType'
            BY <1>0, <2>1, <3>1, <3>2, <3>3
        <3>5. OneHolder'
            BY <2>1, <3>1
        <3>6. OwnAnswer'
            BY <2>1, <3>1, <3>3
        <3> QED
            BY <3>1, <3>4, <3>5, <3>6
    <2> QED
        BY <1>6, <2>2, <2>3 DEF Go!Run
<1>7. ASSUME NEW t \in Caller, Go!Read(t)
      PROVE  GoInv'
    <2>1. UNCHANGED <<goVerifier, buffer, made, pool, misused, guest, request>> /\ goPc[t] = "read"
        BY <1>7 DEF Go!Read
    <2>2. CASE Go!fail(t) /\ UNCHANGED area
        BY <1>fail, <2>1, <2>2
    <2>3. CASE Go!Goto(t, "read", "put") /\ Go!Answer(t, area[guest[t]])
                 /\ area' = [area EXCEPT ![guest[t]] = Go!NoAnswer]
        <3>1. GoType'
            BY <1>0, <2>1, <2>3
        <3>2. OneHolder'
            BY <2>1, <2>3
        <3>3. OwnAnswer'
            BY <2>1, <2>3
        <3> QED
            BY <2>1, <3>1, <3>2, <3>3
    <2> QED
        BY <1>7, <2>2, <2>3 DEF Go!Read
<1>8. ASSUME NEW t \in Caller, Go!put(t)
      PROVE  GoInv'
    <2>1. /\ goPc[t] = "put" /\ goPc' = [goPc EXCEPT ![t] = "idle"]
          /\ pool' = pool \/ pool' = pool \cup {guest[t]}
          /\ guest' = [guest EXCEPT ![t] = Nobody]
          /\ UNCHANGED <<goVerifier, buffer, area, made, misused, request, goAnswer>>
        BY <1>8 DEF Go!put
    <2>2. GoType'
        BY <2>1
    <2>3. OneHolder'
        BY <2>1
    <2>4. OwnAnswer'
        BY <2>1
    <2> QED
        BY <2>1, <2>2, <2>3, <2>4
<1>9. CASE Go!Collect
    BY <1>9 DEF Go!Collect
<1>10. CASE UNCHANGED Go!vars
    BY <1>10 DEF Go!vars
<1> QED
    BY <1>1, <1>2, <1>3, <1>4, <1>5, <1>6, <1>7, <1>8, <1>9, <1>10 DEF Go!Next

\* verifier.go and guest.go: an instance is in the pool or with one goroutine,
\* was initialised, and holds that goroutine's request and then its answer.
\* The two theorems below rest on it.
THEOREM GoInvariant == Go!GuestHostAssumption => (Go!Spec => []GoInv)
<1> SUFFICES ASSUME Go!GuestHostAssumption
             PROVE  Go!Spec => []GoInv
    OBVIOUS
<1>1. Go!Init => GoInv
    BY GoStarts
<1>2. GoInv /\ [Go!Next]_(Go!vars) => GoInv'
    BY GoSteps
<1> QED
    BY <1>1, <1>2, PTL DEF Go!Spec

\* go verifier.go and guest.go: a goroutine gets the core's answer to its own
\* whole input at the instant it read, or INTERNAL_ERROR, with any number of
\* goroutines and instances and whatever sync.Pool hands out or drops.
THEOREM AnswerIsForTheWholeInputCorrect ==
    Go!GuestHostAssumption => (Go!Spec => []AnswerIsForTheWholeInput)
<1>1. GoInv => AnswerIsForTheWholeInput
    BY DEF GoInv, OwnAnswer, Asked, Go!AnswerIsForTheWholeInput, AnswerIsForTheWholeInput
<1> QED
    BY <1>1, GoInvariant, PTL

\* abi lib.rs traps on a verify before init and on a second init: the host
\* does neither.
THEOREM NeverOutOfOrderCorrect == Go!GuestHostAssumption => (Go!Spec => []NeverOutOfOrder)
<1>1. GoInv => NeverOutOfOrder
    BY DEF GoInv, NeverOutOfOrder
<1> QED
    BY <1>1, GoInvariant, PTL

-----------------------------------------------------------------------------
(* The C ABI *)

Documents == {"payload", "reason and message", "verified", "refused", "response"}

\* Pointers are numbered in the order the strings were made, so a new one is
\* in neither of the caller's.
CInv ==
    /\ used \in Nat
    /\ doc \in Seq(Documents) /\ Len(doc) = used
    /\ out = [status |-> out.status, json |-> out.json]
    /\ out.json \in 0..used /\ response \in 0..used
    /\ C!HandedOverOnce

\* What a call does to the caller's pointers: nothing, a document or NULL in
\* an out whose document was freed, or a response in a freed pointer.
Nothing == UNCHANGED <<strings, used, doc, out, response>>
Wrote == \E code, text :
    /\ out.json = 0 /\ text \in Documents
    /\ text \in {"payload", "verified"} <=> code = 0
    /\ C!into_c_string(text) /\ out' = [status |-> code, json |-> used + 1] /\ UNCHANGED response
WroteNull == \E code :
    /\ out.json = 0
    /\ out' = [status |-> code, json |-> 0] /\ UNCHANGED <<strings, used, doc, response>>
Responded ==
    /\ response = 0
    /\ C!into_c_string("response") /\ response' = used + 1 /\ UNCHANGED out

\* What a call can do to the caller's strings: nothing, write one, or write null.
LEMMA CallEffects ==
    ASSUME NEW c, NEW p, NEW writes \in BOOLEAN, C!call(c, p, writes) \/ C!call_bytes(c, p, writes)
    PROVE  Nothing \/ Wrote \/ WroteNull
<1> USE DEF C!NoString, Documents
<1>1. ASSUME NEW sound, C!guard(sound)
      PROVE  Nothing
    BY <1>1 DEF C!guard, Nothing
<1>2. ASSUME NEW code, writes => out.json = 0, UNCHANGED response,
             C!finish(writes, code, IF code = C!Ok THEN "payload" ELSE "reason and message")
      PROVE  Nothing \/ Wrote
    <2>1. CASE writes
        <3> DEFINE text == IF code = 0 THEN "payload" ELSE "reason and message"
        <3>1. /\ out.json = 0 /\ C!into_c_string(text) /\ out' = [status |-> code, json |-> used + 1]
              /\ UNCHANGED response
            BY <1>2, <2>1 DEF C!finish, C!Ok
        <3>2. text \in Documents /\ (text \in {"payload", "verified"} <=> code = 0)
            OBVIOUS
        <3> HIDE DEF text
        <3> QED
            BY <3>1, <3>2 DEF Wrote
    <2>2. CASE ~writes
        BY <1>2, <2>2 DEF C!finish, Nothing
    <2> QED
        BY <2>1, <2>2
<1>3. ASSUME NEW code, writes => out.json = 0, UNCHANGED response,
             IF writes THEN C!written(code, IF code = C!Ok THEN "verified" ELSE "refused")
             ELSE C!NoString /\ UNCHANGED out
      PROVE  Nothing \/ Wrote \/ WroteNull
    <2>1. CASE writes /\ code >= 100
        BY <1>3, <2>1 DEF C!written, WroteNull
    <2>2. CASE writes /\ ~(code >= 100)
        <3> DEFINE text == IF code = 0 THEN "verified" ELSE "refused"
        <3>1. /\ out.json = 0 /\ C!into_c_string(text) /\ out' = [status |-> code, json |-> used + 1]
              /\ UNCHANGED response
            BY <1>3, <2>2 DEF C!written, C!Ok
        <3>2. text \in Documents /\ (text \in {"payload", "verified"} <=> code = 0)
            OBVIOUS
        <3> HIDE DEF text
        <3> QED
            BY <3>1, <3>2 DEF Wrote
    <2>3. CASE ~writes
        BY <1>3, <2>3 DEF Nothing
    <2> QED
        BY <2>1, <2>2, <2>3
<1>4. CASE C!call(c, p, writes)
    BY <1>1, <1>2, <1>4 DEF C!call
<1>5. CASE C!call_bytes(c, p, writes)
    BY <1>1, <1>3, <1>5 DEF C!call_bytes
<1> QED
    BY <1>4, <1>5

\* The endpoint's answer is the one string it can make.
LEMMA EndpointEffects ==
    ASSUME NEW e, NEW writes, NEW borrowed, C!endpoint(e, writes, borrowed)
    PROVE  Nothing \/ Responded
BY DEF C!endpoint, C!guard, C!NoString, Nothing, Responded

\* One step per exported function.
LEMMA CSteps == ASSUME CInv, [C!Next]_(C!vars)
                PROVE  CInv'
<1> USE DEF CInv, C!HandedOverOnce
<1>1. CASE Nothing
    BY <1>1 DEF Nothing
<1>2. CASE Wrote
    <2>1. PICK code, text : /\ out.json = 0 /\ text \in Documents
                            /\ text \in {"payload", "verified"} <=> code = 0
                            /\ C!into_c_string(text)
                            /\ out' = [status |-> code, json |-> used + 1] /\ UNCHANGED response
        BY <1>2 DEF Wrote
    <2>2. used' = used + 1 /\ strings' = strings \cup {used + 1} /\ doc' = Append(doc, text)
        BY <2>1 DEF C!into_c_string
    <2>3. doc' \in Seq(Documents) /\ Len(doc') = used + 1 /\ doc'[used + 1] = text
        BY <2>1, <2>2
    <2>4. out'.json = used + 1 /\ out'.status = code
        BY <2>1
    <2>5. strings' = {out'.json, response'} \ {0}
        BY <2>1, <2>2, <2>4
    <2> QED
        BY <2>1, <2>2, <2>3, <2>4, <2>5 DEF C!Ok
<1>3. CASE WroteNull
    BY <1>3 DEF WroteNull
<1>4. CASE Responded
    <2>1. used' = used + 1 /\ strings' = strings \cup {used + 1} /\ doc' = Append(doc, "response")
            /\ response = 0 /\ response' = used + 1 /\ UNCHANGED out
        BY <1>4 DEF Responded, C!into_c_string
    <2>2. doc' \in Seq(Documents) /\ Len(doc') = used + 1 /\ \A i \in 1..used : doc'[i] = doc[i]
        <3>1. "response" \in Documents
            BY DEF Documents
        <3>2. doc \in Seq(Documents) /\ Len(doc) = used
            OBVIOUS
        <3> HIDE DEF CInv
        <3> QED
            BY <2>1, <3>1, <3>2
    <2>3. strings' = {out'.json, response'} \ {0}
        BY <2>1
    <2> QED
        BY <2>1, <2>2, <2>3 DEF C!Ok
<1>5. CASE C!aprv_string_free
    <2>1. used' = used /\ doc' = doc
        BY <1>5 DEF C!aprv_string_free
    <2>2. CASE out.json # 0 /\ strings' = strings \ {out.json} /\ out' = [out EXCEPT !.json = 0] /\ UNCHANGED response
        <3>1. out'.json = 0 /\ out'.status = out.status /\ out' = [status |-> out.status, json |-> 0]
            BY <2>2
        <3> QED
            BY <2>1, <2>2, <3>1
    <2>3. CASE response # 0 /\ strings' = strings \ {response} /\ response' = 0 /\ UNCHANGED out
        BY <2>1, <2>3
    <2> QED
        BY <1>5, <2>2, <2>3 DEF C!aprv_string_free
<1>6. ASSUME NEW fixed, NEW taken, C!aprv_verifier_new(fixed, taken)
      PROVE  Nothing
    BY <1>6 DEF C!aprv_verifier_new, Nothing
<1>7. ASSUME C!aprv_verifier_free \/ C!Tick \/ UNCHANGED C!vars
      PROVE  Nothing
    BY <1>7 DEF C!aprv_verifier_free, C!Tick, C!vars, Nothing
<1>8. ASSUME NEW p, NEW e, NEW writes,
             C!aprv_verify_receipt_endpoint(p, e, writes) \/ C!aprv_verify_receipt_endpoint_bytes(p, e, writes)
      PROVE  Nothing \/ Responded
    BY <1>8, EndpointEffects DEF C!aprv_verify_receipt_endpoint, C!aprv_verify_receipt_endpoint_bytes
<1> HIDE DEF CInv
<1> QED
    BY <1>1, <1>2, <1>3, <1>4, <1>5, <1>6, <1>7, <1>8, CallEffects DEF C!Next

\* rust/ffi lib.rs: over any sequence of calls, with or without out-pointers,
\* mistaken or panicking, every string the library made and the caller has
\* not freed is in exactly one of its pointers, and the document in out->json
\* belongs to out->code.  Whatever the core answers.
THEOREM HandedOverOnceCorrect == C!Spec => []HandedOverOnce
<1>1. C!Init => CInv
    BY DEF C!Init, CInv, C!HandedOverOnce, C!Ok
<1>2. CInv /\ [C!Next]_(C!vars) => CInv'
    BY CSteps
<1>3. CInv => HandedOverOnce
    BY DEF CInv, HandedOverOnce
<1> QED
    BY <1>1, <1>2, <1>3, PTL DEF C!Spec

-----------------------------------------------------------------------------
(* PHP's transports *)

\* What open learnt holds of the aprv it asked, whatever answers by now: the
\* limit is one over that one's cap, and over HTTP its roots are the Config's.
PhpInv ==
    /\ aprv.cap \in Nat /\ maxInputBytes \in Nat
    /\ aprv.source = "defaults" => aprv.roots = {Apple}
    /\ phpPc # "ready" => phpAnswer = Php!NoAnswer
    /\ phpPc \in {"writeRoots", "probe"} => kind = "cli"
    /\ phpPc \in {"writeRoots", "probe", "ready"} => atOpen.cap \in Nat /\ maxInputBytes = atOpen.cap + 1
    /\ phpPc = "ready" /\ kind = "http" => atOpen.roots = Php!Anchors(config)
    /\ Php!JudgedAsAsked

\* What `aprv serve` was started with.
LEMMA ServedHasACap ==
    ASSUME Php!PhpAssumption, NEW a \in Php!Served
    PROVE  a.cap \in Nat /\ (a.source = "defaults" => a.roots = {Apple})
BY DEF Php!PhpAssumption, Php!Served

\* checkRoots compares hashes of what the Config holds with hashes of DER, so
\* equal lists are equal certificates.
LEMMA CheckedRootsAreTheConfigs ==
    ASSUME aprv.source = "defaults" => aprv.roots = {Apple}, Php!checkRoots
    PROVE  aprv.roots = Php!Anchors(config)
<1>1. CASE config.given
    <2>1. config.entries = {[form |-> "der", cert |-> r] : r \in aprv.roots}
        BY <1>1 DEF Php!checkRoots
    <2>2. ASSUME NEW r \in aprv.roots
          PROVE  \E e \in config.entries : r = e.cert
        <3>1. [form |-> "der", cert |-> r] \in config.entries
            BY <2>1
        <3> QED
            BY <3>1
    <2>3. ASSUME NEW e \in config.entries
          PROVE  e.cert \in aprv.roots
        BY <2>1
    <2>4. Php!Anchors(config) = {e.cert : e \in config.entries}
        BY <1>1 DEF Php!Anchors
    <2> QED
        BY <2>2, <2>3, <2>4
<1>2. CASE ~config.given
    BY <1>2 DEF Php!checkRoots, Php!Anchors
<1> QED
    BY <1>1, <1>2

\* An input the module judges is under its cap, so one that was cut at one
\* over the cap that was stated is judged by a larger cap only.
LEMMA JudgedIsWhole ==
    ASSUME NEW n \in Nat, aprv.cap \in Nat, atOpen.cap \in Nat, maxInputBytes = atOpen.cap + 1,
           NEW served, Php!Judge(served, Php!cut(n), n).kind = "judged"
    PROVE  LET taken == Php!Judge(served, Php!cut(n), n).length
           IN  taken = n \/ (aprv.cap > atOpen.cap /\ taken = atOpen.cap + 1)
<1>1. Php!cut(n) <= aprv.cap
    BY DEF Php!Judge, Php!cut, Php!NoAnswer
<1>2. Php!Judge(served, Php!cut(n), n).length = Php!cut(n)
    BY <1>1 DEF Php!Judge, Php!cut
<1> QED
    BY <1>1, <1>2 DEF Php!cut

\* One step per operation of a transport, of the server and of the files.
LEMMA PhpSteps == ASSUME Php!PhpAssumption, PhpInv, [Php!Next]_(Php!vars)
                  PROVE  PhpInv'
<1> USE DEF PhpInv, Php!JudgedAsAsked, Php!world
<1>0. Php!NoAnswer.kind = "none"
    BY DEF Php!NoAnswer
<1>1. ASSUME NEW c, Php!create(c)
      PROVE  PhpInv'
    BY <1>0, <1>1 DEF Php!create
<1>2. CASE Php!CliInfo
    BY <1>0, <1>2 DEF Php!CliInfo, Php!Refuse, Php!stated
<1>3. CASE Php!writeRoots \/ Php!probe
    BY <1>0, <1>3 DEF Php!writeRoots, Php!probe, Php!Refuse
<1>4. CASE Php!HttpOpen
    <2>1. CASE Php!Refuse
        BY <1>0, <1>4, <2>1 DEF Php!HttpOpen, Php!Refuse
    <2>2. CASE Php!checkRoots /\ maxInputBytes' = Php!stated /\ atOpen' = aprv /\ phpPc' = "ready"
        <3>1. aprv.roots = Php!Anchors(config)
            BY <2>2, CheckedRootsAreTheConfigs
        <3>2. UNCHANGED <<kind, aprv, config, phpAnswer>> /\ phpPc = "open"
            BY <1>4 DEF Php!HttpOpen
        <3>3. Php!Anchors(config)' = Php!Anchors(config)
            BY <3>2 DEF Php!Anchors
        <3> QED
            BY <1>0, <2>2, <3>1, <3>2, <3>3 DEF Php!stated
    <2> QED
        BY <1>4, <2>1, <2>2 DEF Php!HttpOpen
<1>5. ASSUME NEW n \in PhpLengths, Php!verify(n)
      PROVE  PhpInv'
    <2>1. n \in Nat
        BY DEF Php!PhpAssumption
    <2>2. UNCHANGED <<kind, aprv, atOpen, config, maxInputBytes, phpPc>> /\ phpPc = "ready"
        BY <1>5 DEF Php!verify
    <2>3. Php!Anchors(config)' = Php!Anchors(config)
        BY <2>2 DEF Php!Anchors
    <2>4. ASSUME NEW served, phpAnswer' = Php!Judge(served, Php!cut(n), n),
                 served = Php!Anchors(config) \/ (kind = "http" /\ served = aprv.roots)
          PROVE  Php!JudgedAsAsked'
        <3>1. phpAnswer'.kind = "judged" =>
                  phpAnswer'.roots = served /\ phpAnswer'.input = n /\ phpAnswer'.by = aprv
            BY <2>4 DEF Php!Judge, Php!NoAnswer
        <3>2. phpAnswer'.kind = "judged" =>
                  phpAnswer'.length = n \/ (aprv.cap > atOpen.cap /\ phpAnswer'.length = atOpen.cap + 1)
            BY <2>1, <2>2, <2>4, JudgedIsWhole
        <3> QED
            BY <2>2, <2>3, <2>4, <3>1, <3>2
    <2>5. ASSUME Php!CliCall(n)
          PROVE  Php!JudgedAsAsked'
        <3>1. Php!rootsArguments = Php!Anchors(config)
            BY <2>5 DEF Php!CliCall, Php!rootsArguments, Php!Anchors
        <3> QED
            BY <2>4, <2>5, <3>1 DEF Php!CliCall
    <2>6. ASSUME Php!HttpCall(n)
          PROVE  Php!JudgedAsAsked'
        BY <2>2, <2>4, <2>6 DEF Php!HttpCall
    <2>7. ASSUME phpAnswer' = Php!Fault(n)
          PROVE  Php!JudgedAsAsked'
        BY <2>7 DEF Php!Fault
    <2>8. Php!JudgedAsAsked'
        BY <1>5, <2>5, <2>6, <2>7 DEF Php!verify
    <2> QED
        BY <2>2, <2>3, <2>8
<1>6. CASE Php!destruct
    BY <1>0, <1>6 DEF Php!destruct, Php!Refuse
<1>7. ASSUME NEW a \in Php!Served, Php!Replaced(a)
      PROVE  PhpInv'
    <2>1. Php!Anchors(config)' = Php!Anchors(config)
        BY <1>7 DEF Php!Replaced, Php!Anchors
    <2> QED
        BY <1>7, <2>1, ServedHasACap DEF Php!Replaced
<1>8. CASE Php!FileLost \/ UNCHANGED Php!vars
    <2>1. Php!Anchors(config)' = Php!Anchors(config)
        BY <1>8 DEF Php!FileLost, Php!vars, Php!Anchors
    <2> QED
        BY <1>8, <2>1 DEF Php!FileLost, Php!vars
<1> QED
    BY <1>1, <1>2, <1>3, <1>4, <1>5, <1>6, <1>7, <1>8 DEF Php!Next

\* php CliTransport and HttpTransport, for every Config, every cap and every
\* order of calls, restarts, installs and lost files: a judgement is made
\* under the Config's roots, over HTTP unless the server that makes it has
\* other roots than the one open asked; and it is of the whole input, unless
\* the aprv that makes it has a larger cap than the one open asked.
THEOREM JudgedAsAskedCorrect == Php!PhpAssumption => (Php!Spec => []JudgedAsAsked)
<1> SUFFICES ASSUME Php!PhpAssumption
             PROVE  Php!Spec => []JudgedAsAsked
    OBVIOUS
<1>1. Php!Init => PhpInv
    BY ServedHasACap DEF Php!Init, PhpInv, Php!JudgedAsAsked, Php!NoAnswer
<1>2. PhpInv /\ [Php!Next]_(Php!vars) => PhpInv'
    BY PhpSteps
<1>3. PhpInv => JudgedAsAsked
    BY DEF PhpInv, JudgedAsAsked
<1> QED
    BY <1>1, <1>2, <1>3, PTL DEF Php!Spec

-----------------------------------------------------------------------------
(* The one-shot commands of aprv *)

\* Before its last step a one-shot command has written nothing and blamed
\* nobody, and what it gives the module is stdin, cut at the stated maximum.
CommandInv ==
    /\ max \in Nat /\ stdin \in Nat /\ given \in Int
    /\ cmdPc \in {"parse", "precompile", "roots", "handshake", "load", "ready", "read", "answer", "bind", "listening",
               "exited"}
    /\ cmd \in Command!OneShot => cmdPc \notin {"precompile", "handshake", "bind", "listening"}
    /\ cmd \in Command!OneShot /\ cmdPc # "exited" => stdout = "nothing" /\ exit = -1
    /\ cmd \in Command!OneShot /\ cmdPc = "answer" => given = Command!took(stdin, max)
    /\ Command!StatusTellsWhatStdoutHolds

\* A maximum that max_input_bytes takes is one the module can state.
LEMMA AcceptedIsStated ==
    ASSUME NEW a \in Command!Answers, Command!max_input_bytes(a) = "accepted"
    PROVE  a.states \in Stated
BY DEF Command!Answers, Command!max_input_bytes

\* What init can find wrong.
LEMMA ProblemsOfInit == Command!InitProblems \subseteq {"component", "host", "roots"}
BY DEF Command!InitProblems

\* An exit without an answer blames the caller with 2 and the build with 70.
LEMMA BlamedStatus ==
    ASSUME stdout' # "answer",
           \/ exit' = 2 /\ cause' \in {"usage", "roots"}
           \/ exit' = 70 /\ cause' \in {"component", "host"}
           \/ stdout' = "help"
    PROVE  Command!StatusTellsWhatStdoutHolds'
<1> USE DEF Command!StatusTellsWhatStdoutHolds,
        Command!EXIT_OK, Command!EXIT_USAGE, Command!EXIT_TOO_LARGE, Command!EXIT_SOFTWARE
<1>1. CASE exit' = 2 /\ cause' \in {"usage", "roots"}
    <2>1. exit' # 0 /\ exit' # 3 /\ exit' # 70 /\ cause' \notin {"component", "host"}
        BY <1>1
    <2> QED
        BY <1>1, <2>1, Zenon
<1>2. CASE exit' = 70 /\ cause' \in {"component", "host"}
    <2>1. exit' # 0 /\ exit' # 3 /\ exit' # 2 /\ cause' \notin {"usage", "roots"}
        BY <1>2
    <2> QED
        BY <1>2, <2>1, Zenon
<1> QED
    BY <1>1, <1>2, Zenon

\* The ends of a one-shot command that wrote no answer.
LEMMA EndsWithoutAnswer ==
    ASSUME CommandInv, cmd \in Command!OneShot, cmdPc # "exited",
           \/ \E why \in {"usage", "roots"} : Command!usage(why)
           \/ \E why \in {"component", "host"} : Command!die(why)
           \/ Command!Ends(Command!EXIT_SOFTWARE, "host", "cut short")
           \/ Command!Ends(Command!EXIT_OK, "nobody", "help")
    PROVE  CommandInv'
<1>1. /\ cmdPc' = "exited" /\ stdout' \in {"nothing", "cut short", "help"} /\ UNCHANGED <<cmd, stdin, max, given>>
      /\ \/ exit' = 2 /\ cause' \in {"usage", "roots"}
         \/ exit' = 70 /\ cause' \in {"component", "host"}
         \/ stdout' = "help"
    BY DEF CommandInv, Command!usage, Command!die, Command!Ends, Command!Stays,
           Command!EXIT_OK, Command!EXIT_USAGE, Command!EXIT_SOFTWARE
<1>2. Command!StatusTellsWhatStdoutHolds'
    BY <1>1, BlamedStatus
<1> QED
    BY <1>1, <1>2 DEF CommandInv

\* One step per stage of a command.
LEMMA CommandSteps == ASSUME Command!CommandAssumption, CommandInv, [Command!Next]_(Command!vars)
                      PROVE  CommandInv'
<1>0. CASE UNCHANGED Command!vars
    BY <1>0 DEF CommandInv, Command!vars, Command!StatusTellsWhatStdoutHolds, Command!took
<1> SUFFICES ASSUME Command!Next
             PROVE  CommandInv'
    BY <1>0
<1> USE DEF Command!Stays
<1>1. UNCHANGED <<cmd, stdin>> /\ max' \in Nat /\ given' \in Int
            /\ cmdPc' \in {"precompile", "roots", "handshake", "load", "ready", "read", "answer", "bind", "listening", "exited"}
    <2> USE DEF Command!Ends, Command!Goes, Command!usage, Command!die
    <2>1. CASE Command!ready
        <3>1. CASE \E why \in Command!InitProblems : Command!InitFailed(why)
            BY <2>1, <3>1 DEF CommandInv, Command!ready, Command!InitFailed
        <3>2. ASSUME NEW a \in {x \in Command!Answers : Command!max_input_bytes(x) = "accepted"}, max' = a.states
              PROVE  max' \in Nat
            BY <3>2, AcceptedIsStated DEF Command!CommandAssumption
        <3> QED
            BY <2>1, <3>1, <3>2 DEF CommandInv, Command!ready, Command!InitFailed
    <2>2. CASE Command!parse \/ Command!precompile \/ Command!roots_from \/ Command!managed_handshake
        BY <2>2 DEF CommandInv, Command!parse, Command!precompile, Command!roots_from, Command!managed_handshake
    <2>3. CASE Command!load
        BY <2>3 DEF CommandInv, Command!load, Command!Runtime_new, Command!load_file, Command!Failed
    <2>4. CASE Command!read_input \/ Command!answer \/ Command!bind \/ Command!shutdown
        <3>1. Command!took(stdin, max) \in Int /\ given \in Int
            BY DEF CommandInv, Command!took
        <3> QED
            BY <2>4, <3>1 DEF CommandInv, Command!read_input, Command!answer, Command!bind, Command!shutdown
    <2> QED
        BY <2>1, <2>2, <2>3, <2>4 DEF Command!Next
<1>2. CASE cmd \notin Command!OneShot
    <2>1. Command!StatusTellsWhatStdoutHolds'
        BY <1>1, <1>2 DEF Command!StatusTellsWhatStdoutHolds
    <2> QED
        BY <1>1, <1>2, <2>1 DEF CommandInv
<1> SUFFICES ASSUME cmd \in Command!OneShot
             PROVE  CommandInv'
    BY <1>2
<1>3. cmd \notin {"info", "precompile", "serve", "serve --managed"}
    BY DEF Command!OneShot
<1>4. cmdPc # "exited"
    BY DEF CommandInv, Command!Next, Command!parse, Command!precompile, Command!roots_from, Command!managed_handshake,
           Command!load, Command!Runtime_new, Command!load_file, Command!ready, Command!read_input, Command!answer, Command!bind,
           Command!shutdown
<1>5. ASSUME NEW to \in {"roots", "load", "ready"}, Command!Goes(to)
      PROVE  CommandInv'
    BY <1>3, <1>4, <1>5 DEF CommandInv, Command!Goes, Command!StatusTellsWhatStdoutHolds
<1>6. CASE Command!parse
    BY <1>3, <1>4, <1>5, <1>6, EndsWithoutAnswer DEF Command!parse
<1>7. CASE Command!roots_from
    BY <1>3, <1>4, <1>5, <1>7, EndsWithoutAnswer DEF Command!roots_from
<1>8. CASE Command!load
    BY <1>3, <1>4, <1>5, <1>8, EndsWithoutAnswer DEF Command!load, Command!Runtime_new, Command!load_file, Command!Failed
<1>9. CASE Command!ready
    <2>1. ASSUME NEW why \in Command!InitProblems, Command!InitFailed(why)
          PROVE  CommandInv'
        <3>1. why \in {"component", "host", "roots"}
            BY ProblemsOfInit
        <3> QED
            BY <1>3, <1>4, <2>1, <3>1, EndsWithoutAnswer DEF Command!InitFailed, Command!Serving
    <2>2. CASE cmdPc' = "read" /\ UNCHANGED <<stdout, exit, cause>>
        BY <1>1, <1>4, <2>2 DEF CommandInv, Command!StatusTellsWhatStdoutHolds
    <2> QED
        BY <1>3, <1>9, <2>1, <2>2 DEF Command!ready, Command!Serving
<1>10. CASE Command!read_input
    <2>1. CASE Command!die("host")
        BY <1>4, <2>1, EndsWithoutAnswer
    <2>2. CASE given' = Command!took(stdin, max) /\ cmdPc' = "answer" /\ UNCHANGED <<max, stdout, exit>>
        <3>1. given' = Command!took(stdin', max')
            BY <1>1, <2>2
        <3> QED
            BY <1>1, <1>4, <2>2, <3>1 DEF CommandInv, Command!StatusTellsWhatStdoutHolds
    <2> QED
        BY <1>10, <2>1, <2>2 DEF Command!read_input
<1>11. CASE Command!answer
    <2>1. CASE Command!die("component") \/ Command!Ends(Command!EXIT_SOFTWARE, "host", "cut short")
        BY <1>4, <2>1, EndsWithoutAnswer
    <2>2. CASE Command!Ends(IF Command!over(stdin, max) THEN Command!EXIT_TOO_LARGE ELSE Command!EXIT_OK, "nobody", "answer")
        <3>1. /\ given = Command!took(stdin, max) /\ UNCHANGED <<cmd, stdin, max, given>>
              /\ cmdPc' = "exited" /\ cause' = "nobody" /\ stdout' = "answer"
              /\ exit' = IF Command!over(stdin, max) THEN 3 ELSE 0
            BY <1>11, <2>2 DEF CommandInv, Command!answer, Command!Ends, Command!EXIT_OK, Command!EXIT_TOO_LARGE
        <3>0. max \in Nat /\ stdin \in Nat /\ given \in Int
            BY DEF CommandInv
        <3>2. CASE Command!over(stdin, max)
            <4>1. exit' = 3 /\ given > max - 1
                BY <3>0, <3>1, <3>2 DEF Command!over, Command!took
            <4>2. Command!StatusTellsWhatStdoutHolds'
                BY <3>0, <3>1, <4>1 DEF Command!StatusTellsWhatStdoutHolds, Command!took,
                   Command!EXIT_OK, Command!EXIT_USAGE, Command!EXIT_TOO_LARGE, Command!EXIT_SOFTWARE
            <4> QED
                BY <3>0, <3>1, <4>2 DEF CommandInv
        <3>3. CASE ~Command!over(stdin, max)
            <4>1. exit' = 0 /\ given = stdin /\ given <= max - 1
                BY <3>0, <3>1, <3>3 DEF Command!over, Command!took
            <4>2. Command!StatusTellsWhatStdoutHolds'
                BY <3>0, <3>1, <4>1 DEF Command!StatusTellsWhatStdoutHolds, Command!took,
                   Command!EXIT_OK, Command!EXIT_USAGE, Command!EXIT_TOO_LARGE, Command!EXIT_SOFTWARE
            <4> QED
                BY <3>0, <3>1, <4>2 DEF CommandInv
        <3> QED
            BY <3>2, <3>3
    <2> QED
        BY <1>11, <2>1, <2>2 DEF Command!answer
<1>12. ~Command!precompile /\ ~Command!managed_handshake /\ ~Command!bind /\ ~Command!shutdown
    BY DEF CommandInv, Command!precompile, Command!managed_handshake, Command!bind, Command!shutdown
<1> QED
    BY <1>6, <1>7, <1>8, <1>9, <1>10, <1>11, <1>12 DEF Command!Next

\* server main.rs: for every stated maximum and every length of stdin, status
\* 0 means that stdout holds the module's answer to the whole of stdin, 3 the
\* answer to an input over the cap, 2 a mistake of the caller and 70 none.
THEOREM StatusTellsWhatStdoutHoldsCorrect ==
    Command!CommandAssumption => (Command!Spec => []StatusTellsWhatStdoutHolds)
<1> SUFFICES ASSUME Command!CommandAssumption
             PROVE  Command!Spec => []StatusTellsWhatStdoutHolds
    OBVIOUS
<1>1. Command!Init => CommandInv
    <2> SUFFICES ASSUME Command!Init PROVE CommandInv
        OBVIOUS
    <2>0. -1 \in Int
        OBVIOUS
    <2>1. max \in Nat /\ stdin \in Nat /\ given \in Int
        BY <2>0 DEF Command!Init, Command!CommandAssumption
    <2>2. Command!StatusTellsWhatStdoutHolds
        BY DEF Command!Init, Command!StatusTellsWhatStdoutHolds
    <2>3. cmdPc = "parse" /\ stdout = "nothing" /\ exit = -1
        BY DEF Command!Init
    <2> QED
        BY <2>1, <2>2, <2>3 DEF CommandInv
<1>2. CommandInv /\ [Command!Next]_(Command!vars) => CommandInv'
    BY CommandSteps
<1>3. CommandInv => StatusTellsWhatStdoutHolds
    BY DEF CommandInv, StatusTellsWhatStdoutHolds
<1> QED
    BY <1>1, <1>2, <1>3, PTL DEF Command!Spec

-----------------------------------------------------------------------------
(* The component compiled ahead of time *)

Manifests == {Ahead!Manifest(c) : c \in Ahead!Codes}
Reading(t, e, b, w) == [step |-> "read", target |-> t, engine |-> e, bytes |-> b, rewritten |-> w]
Checking(t, e, c, w) ==
    [step |-> "checked", target |-> t, engine |-> e, gen |-> Ahead!Manifest(c), rewritten |-> w]
Binary(b, c, t, e, w, r) ==
    [is |-> "binary", bytes |-> b, gen |-> Ahead!Manifest(c), engine |-> e, target |-> t, rewritten |-> w,
     runs |-> r]

\* A job that has something to write knows its code.
JobsInv ==
    /\ job = [j \in Jobs |-> job[j]]
    /\ \A j \in Jobs : job[j].step \in {"write", "manifest"} =>
          job[j] \in [step : {"write", "manifest"}, code : Ahead!Codes]

\* What the build has read is still in the file unless that was written again,
\* and what it has checked is the code the manifest describes.
BuildInv ==
    \/ building = Ahead!Idle
    \/ \E t, e, b : \E w \in BOOLEAN : building = Reading(t, e, b, w) /\ (w \/ file = b)
    \/ \E t, e : \E c \in Ahead!Codes, w \in BOOLEAN : building = Checking(t, e, c, w) /\ (w \/ file = c)

\* A binary embeds one code and the manifest of that code, unless the file was
\* written again; it runs where the code is for its own target and engine.
Embeds(x) ==
    \/ x = Ahead!None
    \/ \E c \in Ahead!Codes, w \in BOOLEAN : \E b, t, e, r :
          /\ x = Binary(b, c, t, e, w, r)
          /\ w \/ b = c
          /\ r = "runs" => b.target = t /\ b.engine = e

BinaryInv == Embeds(binary)

AheadInv ==
    /\ JobsInv
    /\ manifest \in {Ahead!None, Ahead!Partial} \cup Manifests
    /\ BuildInv
    /\ BinaryInv

\* A binary of that shape.
LEMMA EmbedsOne ==
    ASSUME NEW c \in Ahead!Codes, NEW w \in BOOLEAN, NEW b, NEW t, NEW e, NEW r,
           w \/ b = c, r = "runs" => b.target = t /\ b.engine = e
    PROVE  Embeds(Binary(b, c, t, e, w, r))
<1> DEFINE x == Binary(b, c, t, e, w, r)
<1>1. x = Binary(b, c, t, e, w, r)
    OBVIOUS
<1> HIDE DEF x
<1>2. Embeds(x)
    <2>1. \E b1, t1, e1, r1 :
              /\ x = Binary(b1, c, t1, e1, w, r1)
              /\ w \/ b1 = c
              /\ r1 = "runs" => b1.target = t1 /\ b1.engine = e1
        BY <1>1
    <2>2. \E c1 \in Ahead!Codes, w1 \in BOOLEAN : \E b1, t1, e1, r1 :
              /\ x = Binary(b1, c1, t1, e1, w1, r1)
              /\ w1 \/ b1 = c1
              /\ r1 = "runs" => b1.target = t1 /\ b1.engine = e1
        BY <2>1
    <2> QED
        BY <2>2 DEF Embeds
<1> QED
    BY <1>2 DEF x

\* A write of the file is in the history of the build under way.
LEMMA RewritingKeepsBuild == ASSUME BuildInv, building' = Ahead!Rewritten
                             PROVE  BuildInv'
<1>1. CASE building = Ahead!Idle
    BY <1>1 DEF BuildInv, Ahead!Rewritten
<1>2. ASSUME NEW t, NEW e, NEW b, NEW w \in BOOLEAN, building = Reading(t, e, b, w)
      PROVE  BuildInv'
    <2>1. building' = Reading(t, e, b, TRUE)
        BY <1>2 DEF Reading, Ahead!Rewritten, Ahead!Idle
    <2> QED
        BY <2>1 DEF BuildInv, Reading
<1>3. ASSUME NEW t, NEW e, NEW c \in Ahead!Codes, NEW w \in BOOLEAN, building = Checking(t, e, c, w)
      PROVE  BuildInv'
    <2>1. building' = Checking(t, e, c, TRUE)
        BY <1>3 DEF Checking, Ahead!Rewritten, Ahead!Idle
    <2> QED
        BY <2>1 DEF BuildInv, Checking
<1> QED
    BY <1>1, <1>2, <1>3 DEF BuildInv

\* The three writes of a process that compiles.
LEMMA WritesKeep ==
    ASSUME AheadInv, NEW j \in Jobs, Ahead!WriteCode(j) \/ Ahead!WriteManifest(j) \/ Ahead!Die(j)
    PROVE  AheadInv'
<1>1. building' = Ahead!Rewritten \/ UNCHANGED <<file, building>>
    BY DEF Ahead!WriteCode, Ahead!WriteManifest, Ahead!Die
<1>2. BuildInv' /\ BinaryInv'
    <2>1. BuildInv'
        BY <1>1, RewritingKeepsBuild DEF AheadInv, BuildInv, Reading, Checking
    <2>2. BinaryInv'
        BY DEF Ahead!WriteCode, Ahead!WriteManifest, Ahead!Die, AheadInv, BinaryInv
    <2> QED
        BY <2>1, <2>2
<1>3. job[j] \in [step : {"write", "manifest"}, code : Ahead!Codes]
    BY DEF AheadInv, JobsInv, Ahead!WriteCode, Ahead!WriteManifest, Ahead!Die
<1>4. JobsInv'
    <2>1. \E r : /\ job' = [job EXCEPT ![j] = r]
                 /\ r.step \in {"write", "manifest"} => r \in [step : {"write", "manifest"}, code : Ahead!Codes]
        <3>1. CASE Ahead!WriteCode(j)
            <4>1. job' = [job EXCEPT ![j] = [job[j] EXCEPT !.step = "manifest"]]
                BY <3>1 DEF Ahead!WriteCode
            <4>2. [job[j] EXCEPT !.step = "manifest"] \in [step : {"write", "manifest"}, code : Ahead!Codes]
                BY <1>3
            <4> QED
                BY <4>1, <4>2
        <3>2. CASE Ahead!WriteManifest(j)
            <4>1. job' = [job EXCEPT ![j] = [job[j] EXCEPT !.step = "done"]]
                BY <3>2 DEF Ahead!WriteManifest
            <4>2. [job[j] EXCEPT !.step = "done"].step = "done"
                BY <1>3
            <4> QED
                BY <4>1, <4>2
        <3>3. CASE Ahead!Die(j)
            <4>1. job' = [job EXCEPT ![j] = [step |-> "failed"]]
                BY <3>3 DEF Ahead!Die
            <4> DEFINE r == [step |-> "failed"]
            <4>2. r.step \notin {"write", "manifest"} /\ job' = [job EXCEPT ![j] = r]
                BY <4>1
            <4> HIDE DEF r
            <4> QED
                BY <4>2
        <3> QED
            BY <3>1, <3>2, <3>3
    <2> QED
        BY <2>1 DEF AheadInv, JobsInv
<1>5. manifest' \in {Ahead!None, Ahead!Partial} \cup Manifests
    <2>1. Ahead!Manifest(job[j].code) \in Manifests
        BY <1>3 DEF Manifests
    <2> QED
        BY <2>1 DEF AheadInv, Ahead!WriteCode, Ahead!WriteManifest, Ahead!Die
<1> QED
    BY <1>2, <1>4, <1>5 DEF AheadInv

\* One step per write, per reading of a build, and per death.
LEMMA AheadSteps == ASSUME AheadInv, [Ahead!Next]_(Ahead!vars)
                    PROVE  AheadInv'
<1>1. ASSUME NEW j \in Jobs, Ahead!Compile(j)
      PROVE  AheadInv'
    <2>1. UNCHANGED <<file, manifest, building, binary>>
        BY <1>1 DEF Ahead!Compile
    <2>2. BuildInv' /\ BinaryInv'
        BY <2>1 DEF AheadInv, BuildInv, BinaryInv, Reading, Checking
    <2>3. JobsInv'
        <3>1. \E r : /\ job' = [job EXCEPT ![j] = r]
                     /\ r.step \in {"write", "manifest"} => r \in [step : {"write", "manifest"}, code : Ahead!Codes]
            <4>1. ASSUME NEW c \in Ahead!Codes
                  PROVE  [step |-> "write", code |-> c] \in [step : {"write", "manifest"}, code : Ahead!Codes]
                OBVIOUS
            <4>2. [step |-> "failed"].step = "failed"
                OBVIOUS
            <4> QED
                BY <1>1, <4>1, <4>2 DEF Ahead!Compile
        <3> QED
            BY <3>1 DEF AheadInv, JobsInv
    <2> QED
        BY <2>1, <2>2, <2>3 DEF AheadInv
<1>2. ASSUME NEW j \in Jobs, Ahead!WriteCode(j) \/ Ahead!WriteManifest(j) \/ Ahead!Die(j)
      PROVE  AheadInv'
    BY <1>2, WritesKeep
<1>3. ASSUME NEW t, NEW e, Ahead!ReadFile(t, e)
      PROVE  AheadInv'
    <2>1. UNCHANGED <<file, manifest, job, binary>> /\ building' \in {Ahead!Idle, Reading(t, e, file, FALSE)}
        BY <1>3 DEF Ahead!ReadFile, Reading
    <2>2. BuildInv'
        BY <2>1 DEF BuildInv, Reading
    <2> QED
        BY <2>1, <2>2 DEF AheadInv, JobsInv, BinaryInv
<1>4. CASE Ahead!CheckFile
    <2>1. UNCHANGED <<file, manifest, job, binary>>
        BY <1>4 DEF Ahead!CheckFile
    <2>2. BuildInv'
        <3>1. PICK t, e, b : \E w \in BOOLEAN : building = Reading(t, e, b, w) /\ (w \/ file = b)
            BY <1>4 DEF AheadInv, BuildInv, Ahead!CheckFile, Checking, Ahead!Idle
        <3>0. PICK w \in BOOLEAN : building = Reading(t, e, b, w) /\ (w \/ file = b)
            BY <3>1
        <3>2. CASE building' = Ahead!Idle
            BY <3>2 DEF BuildInv
        <3>3. CASE building' # Ahead!Idle
            <4>1. /\ "target" \in DOMAIN manifest
                  /\ building.bytes = manifest.ccwasm_sha256
                  /\ building' = [step |-> "checked", target |-> building.target, engine |-> building.engine,
                                  gen |-> manifest, rewritten |-> building.rewritten]
                BY <1>4, <3>3 DEF Ahead!CheckFile, Ahead!check
            <4>2. PICK c \in Ahead!Codes : manifest = Ahead!Manifest(c)
                BY <4>1 DEF AheadInv, Manifests, Ahead!None, Ahead!Partial
            <4>3. b = c
                BY <3>0, <4>1, <4>2 DEF Reading, Ahead!Manifest
            <4>4. building' = Checking(t, e, c, w)
                BY <3>0, <4>1, <4>2 DEF Reading, Checking
            <4> QED
                BY <2>1, <3>0, <4>3, <4>4 DEF BuildInv, Checking
        <3> QED
            BY <3>2, <3>3
    <2> QED
        BY <2>1, <2>2 DEF AheadInv, JobsInv, BinaryInv
<1>5. CASE Ahead!IncludeBytes
    <2>1. UNCHANGED <<file, manifest, job>> /\ building' = Ahead!Idle
        BY <1>5 DEF Ahead!IncludeBytes
    <2>2. PICK t, e : \E c \in Ahead!Codes, w \in BOOLEAN : building = Checking(t, e, c, w) /\ (w \/ file = c)
        <3>1. building.step = "checked"
            BY <1>5 DEF Ahead!IncludeBytes
        <3>2. building # Ahead!Idle /\ \A t, e, b, w : building # Reading(t, e, b, w)
            BY <3>1 DEF Ahead!Idle, Reading
        <3> QED
            BY <3>2 DEF AheadInv, BuildInv
    <2>0. PICK c \in Ahead!Codes, w \in BOOLEAN : building = Checking(t, e, c, w) /\ (w \/ file = c)
        BY <2>2
    <2>3. binary' = binary \/ binary' = Binary(file, c, t, e, w, "not started")
        BY <1>5, <2>0 DEF Ahead!IncludeBytes, Checking, Binary
    <2>4. BinaryInv'
        <3>1. CASE binary' = binary
            BY <3>1 DEF AheadInv, BinaryInv
        <3>2. CASE binary' = Binary(file, c, t, e, w, "not started")
            <4>1. PICK b, r : b = file /\ r = "not started"
                OBVIOUS
            <4>2. binary' = Binary(b, c, t, e, w, r) /\ (w \/ b = c)
                BY <2>0, <3>2, <4>1
            <4>3. r = "runs" => b.target = t /\ b.engine = e
                BY <4>1
            <4> QED
                BY <4>2, <4>3, EmbedsOne DEF BinaryInv
        <3> QED
            BY <2>3, <3>1, <3>2
    <2> QED
        BY <2>1, <2>4 DEF AheadInv, JobsInv, BuildInv
<1>6. CASE Ahead!Start
    <2>1. UNCHANGED <<file, manifest, job, building>>
        BY <1>6 DEF Ahead!Start
    <2>2. JobsInv' /\ BuildInv' /\ manifest' \in {Ahead!None, Ahead!Partial} \cup Manifests
        <3>1. JobsInv' /\ manifest' \in {Ahead!None, Ahead!Partial} \cup Manifests
            BY <2>1 DEF AheadInv, JobsInv
        <3>2. BuildInv'
            BY <2>1 DEF AheadInv, BuildInv, Reading, Checking
        <3> QED
            BY <3>1, <3>2
    <2>6. binary.is = "binary"
        BY <1>6 DEF Ahead!Start
    <2>9. binary # Ahead!None
        BY <2>6 DEF Ahead!None
    <2>3. PICK c \in Ahead!Codes, w \in BOOLEAN : \E b, t, e, r : binary = Binary(b, c, t, e, w, r) /\ (w \/ b = c)
        BY <2>9 DEF AheadInv, BinaryInv, Embeds
    <2>0. PICK b, t, e, r : binary = Binary(b, c, t, e, w, r) /\ (w \/ b = c)
        BY <2>3
    <2>4. PICK s \in {"runs", "refused"} :
              binary' = [binary EXCEPT !.runs = s] /\ (s = "runs" => Ahead!load_embedded(binary))
        BY <1>6 DEF Ahead!Start
    <2>5. binary' = Binary(b, c, t, e, w, s)
        BY <2>0, <2>4 DEF Binary
    <2>7. s = "runs" => b.target = t /\ b.engine = e
        BY <2>0, <2>4 DEF Ahead!load_embedded, Ahead!deserializes, Binary
    <2>8. BinaryInv'
        BY <2>0, <2>5, <2>7, EmbedsOne DEF BinaryInv
    <2> QED
        BY <2>2, <2>8 DEF AheadInv
<1>7. CASE UNCHANGED Ahead!vars
    BY <1>7 DEF Ahead!vars, AheadInv, JobsInv, BuildInv, BinaryInv, Reading, Checking
<1> QED
    BY <1>1, <1>2, <1>3, <1>4, <1>5, <1>6, <1>7 DEF Ahead!Next

\* precompile, build.rs and load_embedded, however many processes write the
\* pair, whenever they do and wherever each of them dies: a binary embeds the
\* code its manifest describes and reports the component that code was
\* compiled from, unless the file was written again after the build script
\* read it, and it runs code for its own target and engine only.
THEOREM ReportedIsRunningCorrect == Ahead!Spec => []ReportedIsRunning
<1>1. Ahead!Init => AheadInv
    BY DEF Ahead!Init, AheadInv, JobsInv, BuildInv, BinaryInv, Embeds
<1>2. AheadInv /\ [Ahead!Next]_(Ahead!vars) => AheadInv'
    BY AheadSteps
<1>3. AheadInv => ReportedIsRunning
    <2> SUFFICES ASSUME AheadInv, binary.is = "binary"
                 PROVE  Ahead!ReportedIsRunning
        BY DEF ReportedIsRunning, Ahead!ReportedIsRunning
    <2>1. PICK c \in Ahead!Codes, w \in BOOLEAN : \E b, t, e, r :
              /\ binary = Binary(b, c, t, e, w, r) /\ (w \/ b = c)
              /\ r = "runs" => b.target = t /\ b.engine = e
        BY DEF AheadInv, BinaryInv, Embeds, Ahead!None
    <2>2. PICK b, t, e, r : /\ binary = Binary(b, c, t, e, w, r) /\ (w \/ b = c)
                            /\ r = "runs" => b.target = t /\ b.engine = e
        BY <2>1
    <2> QED
        BY <2>2 DEF Binary, Ahead!ReportedIsRunning, Ahead!Manifest
<1> QED
    BY <1>1, <1>2, <1>3, PTL DEF Ahead!Spec

-----------------------------------------------------------------------------
(* One request's body *)

Fours(text, n) == {i \in 1..n : text[i] = 4}

\* The size of a text is a running sum.
LEMMA SizeUnfolds ==
    ASSUME NEW text \in Seq(1..4)
    PROVE  \E s : /\ Body!Size(text) = s[Len(text)]
                  /\ s[0] = 0
                  /\ \A n \in 1..Len(text) : s[n] = s[n - 1] + text[n]
<1> DEFINE N == Len(text)
           Rec(k) == k = [n \in 0..N |-> IF n = 0 THEN 0 ELSE k[n - 1] + text[n]]
           step == [n \in 1..N |-> [x \in Nat |-> x + text[n]]]
           s == CHOOSE k : Rec(k)
<1>1. Body!Size(text) = s[N]
    BY DEF Body!Size
<1>2. N \in Nat /\ 0 \in Nat /\ step \in Steps(N, Nat)
    <2>1. ASSUME NEW n \in 1..N, NEW x \in Nat
          PROVE  x + text[n] \in Nat
        <3>1. text[n] \in 1..4
            OBVIOUS
        <3> QED
            BY <3>1
    <2> QED
        BY <2>1 DEF Steps
<1>3. PICK f \in [0..N -> Nat] : Follows(f, N, 0, step)
    <2> HIDE DEF N, step
    <2> QED
        BY <1>2, Recursion
<1>4. Rec(f)
    <2>1. ASSUME NEW n \in 1..N
          PROVE  f[n] = f[n - 1] + text[n]
        <3>1. n - 1 \in 0..N
            BY <1>2
        <3>2. f[n - 1] \in Nat
            BY <3>1, <1>3, Zenon
        <3>3. f[n] = step[n][f[n - 1]]
            BY <1>3 DEF Follows
        <3> QED
            BY <3>2, <3>3, Zenon
    <2>2. \A n \in 0..N : n # 0 => n \in 1..N
        BY <1>2
    <2>3. f[0] = 0
        BY <1>3 DEF Follows
    <2>4. \A n \in 0..N : f[n] = IF n = 0 THEN 0 ELSE f[n - 1] + text[n]
        BY <2>1, <2>2, <2>3, Zenon
    <2>5. f = [n \in 0..N |-> f[n]]
        BY <1>3, Zenon
    <2>6. [n \in 0..N |-> f[n]] = [n \in 0..N |-> IF n = 0 THEN 0 ELSE f[n - 1] + text[n]]
        BY <2>4, Zenon
    <2> QED
        BY <2>5, <2>6, Zenon
<1>5. Rec(s)
    BY <1>4
<1> HIDE DEF s
<1>6. s[0] = 0 /\ \A n \in 1..N : s[n] = s[n - 1] + text[n]
    <2>1. \A n \in 0..N : s[n] = IF n = 0 THEN 0 ELSE s[n - 1] + text[n]
        BY <1>5, Zenon
    <2>2. 0 \in 0..N /\ \A n \in 1..N : n \in 0..N /\ n # 0
        BY <1>2
    <2> QED
        BY <2>1, <2>2, Zenon
<1> QED
    BY <1>1, <1>6, Zenon

\* A char of a Java string is at most three bytes of UTF-8: a character of
\* four bytes is two of them.
LEMMA ThreeBytesAChar ==
    ASSUME NEW text \in Seq(1..4)
    PROVE  Body!Size(text) \in Nat /\ Body!Chars(text) \in Nat /\ Body!Size(text) <= 3 * Body!Chars(text)
<1> DEFINE N == Len(text)
           T == [n \in 0..N |-> {k \in Nat : k <= 3 * (n + Cardinality(Fours(text, n)))}]
<1>1. PICK s : Body!Size(text) = s[N] /\ s[0] = 0 /\ \A n \in 1..N : s[n] = s[n - 1] + text[n]
    BY SizeUnfolds
<1>2. N \in Nat
    OBVIOUS
<1>3. ASSUME NEW n \in 0..N
      PROVE  IsFiniteSet(Fours(text, n)) /\ Cardinality(Fours(text, n)) \in Nat
    <2>1. IsFiniteSet(1..n)
        BY FS_Interval
    <2>2. Fours(text, n) \in SUBSET (1..n)
        BY DEF Fours
    <2>3. IsFiniteSet(Fours(text, n))
        BY <2>1, <2>2, FS_Subset
    <2> QED
        BY <2>3, FS_CardinalityType
<1>4. s[0] \in T[0]
    <2>1. Cardinality(Fours(text, 0)) \in Nat /\ 0 \in 0..N
        BY <1>2, <1>3
    <2>2. T[0] = {k \in Nat : k <= 3 * (0 + Cardinality(Fours(text, 0)))}
        BY <2>1
    <2> HIDE DEF T
    <2> QED
        BY <1>1, <2>1, <2>2
<1>5. ASSUME NEW n \in 1..N, s[n - 1] \in T[n - 1]
      PROVE  s[n] \in T[n]
    <2> DEFINE c == Cardinality(Fours(text, n))
               d == Cardinality(Fours(text, n - 1))
    <2>1. n - 1 \in 0..N /\ n \in 0..N /\ n \in Nat
        BY <1>2
    <2>2. c \in Nat /\ d \in Nat
        BY <1>3, <2>1
    <2>3. text[n] \in 1..4
        OBVIOUS
    <2>4. s[n - 1] \in Nat /\ s[n - 1] <= 3 * ((n - 1) + d)
        BY <1>5, <2>1
    <2>5. s[n] = s[n - 1] + text[n]
        BY <1>1, Zenon
    <2>6. c = IF text[n] = 4 THEN d + 1 ELSE d
        <3>1. n \notin Fours(text, n - 1) /\ IsFiniteSet(Fours(text, n - 1))
            BY <1>3, <2>1 DEF Fours
        <3>2. CASE text[n] = 4
            <4>1. Fours(text, n) = Fours(text, n - 1) \cup {n}
                BY <2>1, <3>2 DEF Fours
            <4> QED
                BY <3>1, <3>2, <4>1, FS_AddElement
        <3>3. CASE text[n] # 4
            <4>1. Fours(text, n) = Fours(text, n - 1)
                BY <2>1, <3>3 DEF Fours
            <4> QED
                BY <3>3, <4>1
        <3> QED
            BY <3>2, <3>3
    <2>7. T[n] = {k \in Nat : k <= 3 * (n + c)}
        BY <2>1
    <2> HIDE DEF T, c, d
    <2>8. s[n] \in Nat /\ s[n] <= 3 * (n + c)
        <3> DEFINE a == s[n - 1]
                   b == text[n]
        <3>1. a \in Nat /\ a <= 3 * ((n - 1) + d) /\ b \in 1..4 /\ (b = 4 => c = d + 1) /\ (b # 4 => c = d)
            BY <2>3, <2>4, <2>6
        <3>2. s[n] = a + b
            BY <2>5
        <3> HIDE DEF a, b
        <3>3. a + b \in Nat /\ a + b <= 3 * (n + c)
            BY <2>1, <2>2, <3>1
        <3> QED
            BY <3>2, <3>3
    <2> QED
        BY <2>7, <2>8
<1>6. s[N] \in T[N]
    <2> HIDE DEF T, N
    <2>1. \A n \in 0..N : s[n] \in T[n]
        BY <1>2, <1>4, <1>5, RecursionKeeps
    <2> QED
        BY <1>2, <2>1
<1>7. Body!Chars(text) = N + Cardinality(Fours(text, N))
    <2>1. {i \in DOMAIN text : text[i] = 4} = Fours(text, N)
        BY DEF Fours
    <2>2. \A S : Body!Cardinality(S) = Cardinality(S)
        BY Zenon DEF Body!Cardinality, Cardinality
    <2> QED
        BY <2>1, <2>2, Zenon DEF Body!Chars
<1>8. N \in 0..N
    BY <1>2
<1>9. Cardinality(Fours(text, N)) \in Nat
    BY <1>3, <1>8
<1>10. T[N] = {k \in Nat : k <= 3 * (N + Cardinality(Fours(text, N)))}
    BY <1>8
<1> HIDE DEF T, N
<1> QED
    BY <1>1, <1>2, <1>6, <1>7, <1>9, <1>10

\* A set of numbers up to N that is not empty has a greatest.
LEMMA Greatest ==
    ASSUME NEW N \in Nat, NEW S, S \subseteq 0..N, S # {}
    PROVE  \E n \in S : \A k \in S : k <= n
<1> DEFINE R == {N - k : k \in S}
<1>1. R \subseteq Nat /\ R # {}
    <2>1. ASSUME NEW k \in S
          PROVE  N - k \in Nat
        <3>1. k \in 0..N
            OBVIOUS
        <3> QED
            BY <3>1
    <2> QED
        BY <2>1
<1>2. PICK r \in R : \A q \in R : r <= q
    <2> HIDE DEF R
    <2> QED
        BY <1>1, LeastNat
<1>3. PICK n \in S : r = N - n
    BY <1>2
<1>4. ASSUME NEW k \in S
      PROVE  k <= n
    <2>1. N - k \in R
        OBVIOUS
    <2>2. r <= N - k
        BY <1>2, <2>1
    <2> QED
        BY <1>3, <2>2
<1> QED
    BY <1>4

\* WasmVerifier.bytes never sends more than the module's max_input_bytes.
LEMMA BytesAreCut ==
    ASSUME Body!BodyAssumption, NEW text \in Seq(1..4)
    PROVE  Body!bytes(text) \in Nat /\ Body!bytes(text) <= MaxInput
<1>0. MaxInput \in Nat
    BY DEF Body!BodyAssumption
<1>1. CASE Body!Chars(text) <= MaxInput \div 3
    <2>1. Body!Size(text) \in Nat /\ Body!Chars(text) \in Nat /\ Body!Size(text) <= 3 * Body!Chars(text)
        BY ThreeBytesAChar
    <2> DEFINE a == Body!Size(text)
               b == Body!Chars(text)
    <2>2. a \in Nat /\ b \in Nat /\ a <= 3 * b /\ b <= MaxInput \div 3
        BY <1>1, <2>1
    <2>3. Body!bytes(text) = a
        BY <1>1 DEF Body!bytes
    <2> HIDE DEF a, b
    <2>4. a <= MaxInput
        BY <1>0, <2>2
    <2> QED
        BY <2>2, <2>3, <2>4
<1>2. CASE ~(Body!Chars(text) <= MaxInput \div 3)
    <2> DEFINE fits == {n \in 0..Len(text) : Body!Size(SubSeq(text, 1, n)) <= MaxInput + 3}
               longest == CHOOSE n \in fits : \A k \in fits : k <= n
               size == Body!Size(SubSeq(text, 1, longest))
    <2>1. 0 \in fits
        <3>1. SubSeq(text, 1, 0) \in Seq(1..4) /\ Len(SubSeq(text, 1, 0)) = 0
            OBVIOUS
        <3>2. Body!Size(SubSeq(text, 1, 0)) = 0
            BY <3>1, SizeUnfolds
        <3> QED
            BY <1>0, <3>2
    <2>2. fits \subseteq 0..Len(text) /\ Len(text) \in Nat
        OBVIOUS
    <2>3. longest \in fits
        <3> HIDE DEF fits
        <3> QED
            BY <2>1, <2>2, Greatest
    <2>4. longest \in 0..Len(text)
        BY <2>2, <2>3
    <2>5. size \in Nat
        <3> HIDE DEF longest
        <3>1. SubSeq(text, 1, longest) \in Seq(1..4)
            BY <2>4
        <3> QED
            BY <3>1, ThreeBytesAChar
    <2>6. Body!bytes(text) = Body!Least(size, MaxInput)
        BY <1>2 DEF Body!bytes, Body!Encoded
    <2> HIDE DEF size
    <2> QED
        BY <1>0, <2>5, <2>6 DEF Body!Least
<1> QED
    BY <1>1, <1>2

\* While the body is read no limit was met; what ends the reading is its end
\* or a limit, and then the answer closes the connection.  What java-wasm
\* sends is under every limit.
BodyInv ==
    /\ total \in Nat /\ sent \in Nat /\ total <= sent
    /\ total <= BODY_DRAIN + MaxFrame
    /\ client = "java" => sent <= BODY_DRAIN
    /\ bodyPc \in {"head", "body"} => ~close /\ total <= BODY_DRAIN
    /\ bodyPc \in {"head", "body", "call"} => bodyAnswer = "none"
    /\ bodyPc = "call" => (close \/ total = sent) /\ (client = "java" => ~close)
    /\ Body!KeptConnectionIsInStep

\* Nothing read.
LEMMA BodyStarts == ASSUME Body!BodyAssumption, Body!Init
                    PROVE  BodyInv
<1>1. BODY_DRAIN \in Nat /\ MaxFrame \in Nat /\ MaxInput \in Nat /\ MaxInput <= BODY_DRAIN
    BY DEF Body!BodyAssumption
<1>2. sent \in Nat /\ (client = "java" => sent <= BODY_DRAIN)
    <2>1. CASE client = "java"
        <3>1. PICK text \in BodyTexts : sent = Body!bytes(text)
            BY <2>1 DEF Body!Init
        <3>2. text \in Seq(1..4)
            BY DEF Body!BodyAssumption
        <3>3. Body!bytes(text) \in Nat /\ Body!bytes(text) <= MaxInput
            BY <3>2, BytesAreCut
        <3> QED
            BY <1>1, <3>1, <3>3
    <2>2. CASE client # "java"
        BY <2>2 DEF Body!Init, Body!BodyAssumption
    <2> QED
        BY <2>1, <2>2
<1>3. total = 0 /\ close = FALSE /\ bodyAnswer = "none" /\ bodyPc = "head"
    BY DEF Body!Init
<1> QED
    BY <1>1, <1>2, <1>3 DEF BodyInv, Body!KeptConnectionIsInStep

\* One step per frame, stage of the server, and answer of the client.
LEMMA BodySteps == ASSUME Body!BodyAssumption, BodyInv, [Body!Next]_(Body!vars)
                   PROVE  BodyInv'
<1> USE DEF BodyInv, Body!KeptConnectionIsInStep
<1>0. BODY_DRAIN \in Nat /\ MaxFrame \in Nat
    BY DEF Body!BodyAssumption
<1>1. CASE Body!RefuseHead
    BY <1>0, <1>1 DEF Body!RefuseHead, Body!Problem
<1>2. CASE Body!AcceptHead
    BY <1>0, <1>2 DEF Body!AcceptHead
<1>3. ASSUME NEW n \in 1..MaxFrame, Body!Frame(n)
      PROVE  BodyInv'
    <2>1. /\ bodyPc = "body" /\ n <= sent - total /\ total' = total + n
          /\ close' = Body!Enough(total + n, buf') /\ UNCHANGED <<client, sent, bodyAnswer>>
          /\ bodyPc' = IF close' THEN "call" ELSE bodyPc
        BY <1>3 DEF Body!Frame
    <2>2. client = "java" => ~close'
        <3>1. ASSUME client = "java"
              PROVE  ~Body!Enough(total + n, buf')
            BY <1>0, <2>1, <3>1 DEF Body!Enough, Body!announced_big
        <3> QED
            BY <2>1, <3>1, Zenon
    <2>3. ~close' => total + n <= BODY_DRAIN
        <3>1. ~Body!Enough(total + n, buf') => total + n <= BODY_DRAIN
            BY <1>0 DEF Body!Enough
        <3> QED
            BY <2>1, <3>1, Zenon
    <2>4. total + n <= BODY_DRAIN + MaxFrame /\ total + n <= sent /\ total + n \in Nat
        BY <1>0, <2>1
    <2> QED
        BY <1>0, <2>1, <2>2, <2>3, <2>4
<1>4. CASE Body!BodyEnds
    BY <1>0, <1>4 DEF Body!BodyEnds
<1>5. CASE Body!BodyFails
    BY <1>0, <1>5 DEF Body!BodyFails, Body!Problem
<1>6. CASE Body!BodyTimeout
    BY <1>0, <1>6 DEF Body!BodyTimeout, Body!Problem
<1>7. CASE Body!Invoke
    BY <1>0, <1>7 DEF Body!Invoke, Body!Problem
<1>8. CASE Body!Receive
    BY <1>0, <1>8 DEF Body!Receive
<1>9. CASE UNCHANGED Body!vars
    BY <1>0, <1>9 DEF Body!vars
<1> QED
    BY <1>1, <1>2, <1>3, <1>4, <1>5, <1>6, <1>7, <1>8, <1>9 DEF Body!Next

\* http.rs read_capped and WasmVerifier.bytes: a connection that is kept was
\* read to the body's end, one frame past the drain limit is the most that is
\* read, and java-wasm never loses its connection to an input's size, for
\* every text, every body, every split into frames and every limit.
THEOREM KeptConnectionIsInStepCorrect ==
    Body!BodyAssumption => (Body!Spec => []KeptConnectionIsInStep)
<1> SUFFICES ASSUME Body!BodyAssumption
             PROVE  Body!Spec => []KeptConnectionIsInStep
    OBVIOUS
<1>1. Body!Init => BodyInv
    BY BodyStarts
<1>2. BodyInv /\ [Body!Next]_(Body!vars) => BodyInv'
    BY BodySteps
<1>3. BodyInv => KeptConnectionIsInStep
    BY DEF BodyInv, KeptConnectionIsInStep
<1> QED
    BY <1>1, <1>2, <1>3, PTL DEF Body!Spec

-----------------------------------------------------------------------------
(* java-wasm's Holder and ServerSources *)

Opening == {"connect", "info", "opened"}
InMonitor == Opening \cup {"register"}

HolderType ==
    /\ pc \in [Threads -> InMonitor \cup {"start", "get", "monitor", "send", "closing", "done"}]
    /\ mine \in [Threads -> Nat]
    /\ connection \in Nat /\ opened \in Nat
    /\ lock \in Threads \cup {"free"}
    /\ 0 \notin running

\* The thread in the monitor is the one that opens or registers, and while it
\* opens there is no connection.
OneOpener ==
    /\ \A t \in Threads : pc[t] \in InMonitor => lock = t
    /\ lock # "free" => pc[lock] \in InMonitor
    /\ \A t \in Threads :
          /\ pc[t] \in Opening => connection = 0
          /\ pc[t] = "register" => connection = mine[t]

\* What runs is the published connection or the one in the opener's hand.
OneRuns ==
    /\ lock = "free" => running \subseteq {connection}
    /\ \A t \in Threads :
          /\ pc[t] = "connect" => running = {}
          /\ pc[t] \in {"info", "opened", "register"} => running \subseteq {mine[t]}

\* What a call may be sent to was compared with the config.
Compared ==
    /\ \A t \in Threads : pc[t] \in {"opened", "register", "send"} => mine[t] \in asked
    /\ connection # 0 => connection \in asked

HolderInv == HolderType /\ OneOpener /\ OneRuns /\ Compared

\* Nobody has asked.
LEMMA HolderStarts == ASSUME Init
                      PROVE  HolderInv
BY DEF Init, HolderInv, HolderType, OneOpener, OneRuns, Compared, InMonitor, Opening, Threads

\* How a thread leaves get: outside the monitor it takes a connection that was
\* compared, or none.
LEMMA LeavesOutside ==
    ASSUME HolderInv, NEW t \in Threads, pc[t] \in {"get", "monitor"}, NEW c \in {0, connection},
           Left(t, c), UNCHANGED <<connection, lock, running, opened, asked>>
    PROVE  HolderInv'
<1> USE DEF HolderInv, HolderType, InMonitor, Opening
<1>1. PICK to \in {"send", "done"} :
        /\ pc' = [pc EXCEPT ![t] = to] /\ mine' = [mine EXCEPT ![t] = c]
        /\ to = "send" => c # 0
    BY DEF Left
<1>2. HolderType'
    BY <1>1
<1>3. OneOpener'
    BY <1>1 DEF OneOpener
<1>4. OneRuns'
    BY <1>1 DEF OneRuns
<1>5. Compared'
    BY <1>1 DEF Compared
<1> QED
    BY <1>2, <1>3, <1>4, <1>5

\* From inside the monitor it goes with what it published, or without any.
LEMMA LeavesInside ==
    ASSUME HolderInv, "free" \notin Threads, NEW t \in Threads, NEW c \in Nat,
           \/ pc[t] = "connect" /\ c = 0
           \/ pc[t] = "register" /\ c = connection,
           Left(t, c), lock' = "free", UNCHANGED <<connection, running, opened, asked>>
    PROVE  HolderInv'
<1> USE DEF HolderInv, HolderType, InMonitor, Opening
<1>1. PICK to \in {"send", "done"} :
        /\ pc' = [pc EXCEPT ![t] = to] /\ mine' = [mine EXCEPT ![t] = c]
        /\ to = "send" => c # 0
    BY DEF Left
<1>2. HolderType'
    BY <1>1
<1>3. \A u \in Threads : u # t => pc[u] \notin InMonitor
    BY DEF OneOpener
<1>4. OneOpener'
    BY <1>1, <1>3 DEF OneOpener
<1>5. OneRuns'
    <2>1. running \subseteq {connection}
        BY DEF OneOpener, OneRuns
    <2> QED
        BY <1>1, <1>3, <2>1 DEF OneRuns
<1>6. Compared'
    BY <1>1 DEF Compared, OneOpener
<1> QED
    BY <1>2, <1>4, <1>5, <1>6

\* One step per action of a caller, of the Holder and of the Reaper.
LEMMA HolderSteps == ASSUME EngineAssumption, HolderInv, [Next]_vars
                     PROVE  HolderInv'
<1> USE DEF Environment, holder, Goto
<1>0. "free" \notin Threads /\ "create" \in Threads /\ Callers \subseteq Threads
        /\ Closers \subseteq Threads
    BY DEF EngineAssumption, Threads, Closers
<1>1. ASSUME UNCHANGED <<connection, lock, running, opened, asked, mine>>, NEW t \in Threads,
             pc[t] \in {"start", "send"}, NEW to \in {"get", "done", "closing"}, pc' = [pc EXCEPT ![t] = to]
      PROVE  HolderInv'
    BY <1>1 DEF HolderInv, HolderType, OneOpener, OneRuns, Compared, InMonitor, Opening
<1>2. ASSUME UNCHANGED <<connection, lock, opened, asked, mine, pc>>, running' \in {running, {}}
      PROVE  HolderInv'
    BY <1>2 DEF HolderInv, HolderType, OneOpener, OneRuns, Compared, InMonitor, Opening
<1>3. CASE ServerVerifier \/ Close \/ Reap \/ Hook
    BY <1>0, <1>1, <1>3 DEF ServerVerifier, Close, Reap, Hook, Threads
<1>4. ASSUME NEW t \in Callers, Begin(t) \/ send(t)
      PROVE  HolderInv'
    BY <1>0, <1>1, <1>4 DEF Begin, send
<1>5. CASE Drop \/ Collect \/ Exit \/ Halt \/ Kill \/ ChildSeesEof
           \/ UNCHANGED vars
    BY <1>2, <1>5 DEF Drop, Collect, Exit, Halt, Kill, ChildSeesEof,
       vars
<1>6. ASSUME NEW t \in Closers, CloseHolder(t)
      PROVE  HolderInv'
    <2>1. /\ lock = "free" /\ pc[t] = "closing" /\ pc' = [pc EXCEPT ![t] = "done"]
          /\ connection' = 0 /\ running' = running \ {connection}
          /\ UNCHANGED <<lock, opened, asked, mine>>
        BY <1>6 DEF CloseHolder
    <2>2. running' = {} /\ \A u \in Threads : pc[u] \notin InMonitor
        BY <1>0, <2>1 DEF HolderInv, OneRuns, OneOpener
    <2> QED
        BY <1>0, <2>1, <2>2 DEF HolderInv, HolderType, OneOpener, OneRuns, Compared, InMonitor, Opening
<1>7. ASSUME NEW t \in Callers \cup {"create"}, Step(t)
      PROVE  HolderInv'
    <2>0. t \in Threads
        BY <1>0
    <2>1. CASE get(t)
        <3>1. CASE connection # 0
            BY <2>0, <2>1, <3>1, LeavesOutside DEF get
        <3>2. CASE connection = 0
            <4>1. pc[t] = "get" /\ pc' = [pc EXCEPT ![t] = "monitor"]
                    /\ UNCHANGED <<connection, lock, running, opened, asked, mine>>
                BY <2>1, <3>2 DEF get
            <4> QED
                BY <2>0, <4>1 DEF HolderInv, HolderType, OneOpener, OneRuns, Compared, InMonitor, Opening
        <3> QED
            BY <3>1, <3>2
    <2>2. CASE Enter(t)
        <3>1. CASE closed \/ connection # 0
            <4>1. \E c \in {0, connection} : Left(t, c)
                BY <2>2, <3>1 DEF Enter
            <4> QED
                BY <2>0, <2>2, <3>1, <4>1, LeavesOutside DEF Enter
        <3>2. CASE ~closed /\ connection = 0
            <4>1. pc[t] = "monitor" /\ lock = "free" /\ lock' = t /\ pc' = [pc EXCEPT ![t] = "connect"]
                    /\ UNCHANGED <<connection, running, opened, asked, mine>>
                BY <2>2, <3>2 DEF Enter
            <4>2. running = {} /\ \A u \in Threads : pc[u] \notin InMonitor
                BY <1>0, <3>2, <4>1 DEF HolderInv, HolderType, OneOpener, OneRuns
            <4> QED
                BY <1>0, <2>0, <3>2, <4>1, <4>2
                   DEF HolderInv, HolderType, OneOpener, OneRuns, Compared, InMonitor, Opening
        <3> QED
            BY <3>1, <3>2
    <2>3. CASE NoneWorked(t)
        BY <1>0, <2>0, <2>3, LeavesInside DEF NoneWorked
    <2>4. CASE connect(t)
        <3>1. pc[t] = "connect" /\ UNCHANGED <<connection, asked>>
            BY <2>4 DEF connect
        <3>2. CASE lock' = "free" /\ Left(t, 0) /\ UNCHANGED <<running, opened>>
            BY <1>0, <2>0, <3>1, <3>2, LeavesInside
        <3>3. CASE UNCHANGED <<running, opened, mine, pc, lock>>
            BY <1>2, <3>1, <3>3
        <3>4. CASE /\ opened' = opened + 1 /\ running' = running \cup {opened + 1}
                   /\ mine' = [mine EXCEPT ![t] = opened + 1] /\ pc' = [pc EXCEPT ![t] = "info"] /\ UNCHANGED lock
            <4>1. running' = {opened + 1} /\ opened + 1 \in Nat /\ opened + 1 # 0
                BY <2>0, <3>1, <3>4 DEF HolderInv, HolderType, OneRuns
            <4>2. lock = t /\ \A u \in Threads : u # t => pc[u] \notin InMonitor
                BY <2>0, <3>1 DEF HolderInv, OneOpener, InMonitor, Opening
            <4>3. HolderType'
                BY <2>0, <3>1, <3>4, <4>1 DEF HolderInv, HolderType, InMonitor, Opening
            <4>4. OneOpener'
                BY <2>0, <3>1, <3>4, <4>2 DEF HolderInv, HolderType, OneOpener, InMonitor, Opening
            <4>5. OneRuns'
                BY <1>0, <2>0, <3>1, <3>4, <4>1, <4>2 DEF HolderInv, HolderType, OneRuns, InMonitor, Opening
            <4>6. Compared'
                BY <2>0, <3>1, <3>4, <4>2 DEF HolderInv, HolderType, Compared, InMonitor, Opening
            <4> QED
                BY <4>3, <4>4, <4>5, <4>6 DEF HolderInv
        <3> QED
            BY <2>4, <3>2, <3>3, <3>4 DEF connect
    <2>5. CASE checkInfo(t)
        <3>1. pc[t] = "info" /\ UNCHANGED <<connection, lock, opened>>
            BY <2>5 DEF checkInfo
        <3>2. lock = t /\ \A u \in Threads : u # t => pc[u] \notin InMonitor
            BY <2>0, <3>1 DEF HolderInv, OneOpener, InMonitor, Opening
        <3>3. CASE asked' = asked \cup {mine[t]} /\ pc' = [pc EXCEPT ![t] = "opened"] /\ UNCHANGED <<running, mine>>
            BY <1>0, <2>0, <3>1, <3>2, <3>3 DEF HolderInv, HolderType, OneOpener, OneRuns, Compared, InMonitor, Opening
        <3>4. CASE /\ running' = running \ {mine[t]} /\ mine' = [mine EXCEPT ![t] = 0]
                   /\ pc' = [pc EXCEPT ![t] = "connect"] /\ UNCHANGED asked
            <4>1. running' = {}
                BY <2>0, <3>1, <3>4 DEF HolderInv, OneRuns
            <4> QED
                BY <1>0, <2>0, <3>1, <3>2, <3>4, <4>1
                   DEF HolderInv, HolderType, OneOpener, OneRuns, Compared, InMonitor, Opening
        <3> QED
            BY <2>5, <3>3, <3>4 DEF checkInfo
    <2>6. CASE Publish(t)
        <3>1. pc[t] = "opened" /\ pc' = [pc EXCEPT ![t] = "register"] /\ connection' = mine[t]
                /\ UNCHANGED <<lock, running, opened, asked, mine>>
            BY <2>6 DEF Publish
        <3>2. lock = t /\ \A u \in Threads : u # t => pc[u] \notin InMonitor
            BY <2>0, <3>1 DEF HolderInv, OneOpener, InMonitor, Opening
        <3> QED
            BY <1>0, <2>0, <3>1, <3>2 DEF HolderInv, HolderType, OneOpener, OneRuns, Compared, InMonitor, Opening
    <2>7. CASE Register(t)
        <3>1. connection \in Nat
            BY DEF HolderInv, HolderType
        <3> QED
            BY <1>0, <2>0, <2>7, <3>1, LeavesInside DEF Register
    <2> QED
        BY <1>7, <2>1, <2>2, <2>3, <2>4, <2>5, <2>6, <2>7 DEF Step
<1> QED
    BY <1>3, <1>4, <1>5, <1>6, <1>7 DEF Next

\* Holder.get, Holder.close and ServerSources.open: however many callers find
\* the verifier unopened, however many sources fail first and whoever closes
\* it meanwhile, it has one server at most, and a call talks only to one whose
\* roots were compared with the config's.
THEOREM OneServerCorrect == EngineAssumption => (Spec => []OneServer)
<1> SUFFICES ASSUME EngineAssumption
             PROVE  Spec => []OneServer
    OBVIOUS
<1>1. Init => HolderInv
    BY HolderStarts
<1>2. HolderInv /\ [Next]_vars => HolderInv'
    BY HolderSteps
<1>3. HolderInv => OneServer
    <2> SUFFICES ASSUME HolderInv
                 PROVE  OneServer
        OBVIOUS
    <2>1. \E c : running \subseteq {c}
        <3>1. CASE lock = "free"
            BY <3>1 DEF HolderInv, OneRuns
        <3>2. CASE lock # "free"
            BY <3>2 DEF HolderInv, HolderType, OneOpener, OneRuns, InMonitor, Opening
        <3> QED
            BY <3>1, <3>2
    <2>2. Cardinality(running) <= 1
        <3>1. PICK c : running \subseteq {c}
            BY <2>1
        <3>2. IsFiniteSet({c}) /\ Cardinality({c}) = 1
            BY FS_Singleton
        <3>3. IsFiniteSet(running) /\ Cardinality(running) <= 1
            BY <3>1, <3>2, FS_Subset
        <3> QED
            BY <3>3
    <2>3. Callers \subseteq Threads
        BY DEF Threads
    <2> QED
        BY <2>2, <2>3 DEF HolderInv, Compared, OneServer
<1> QED
    BY <1>1, <1>2, <1>3, PTL DEF Spec

-----------------------------------------------------------------------------
(* The OpenSSL adapter's SignedData *)

Good ==
    LET m == blob.members
    IN /\ blob.header = "ok" /\ ~blob.deep /\ blob.type = "signedData"
       /\ Envelope!NodesOf(blob) <= MaxNodes /\ Envelope!CMS_SignedData(m)
       /\ Len(m[Envelope!LastAt(m)].parts) \in 1..MaxSignerInfos
       /\ (Envelope!CertificatesAt(m) # <<>> => Len(Envelope!CertificatesAt(m)[1].parts) <= MaxCertificates)
       /\ Envelope!ContentOf(blob) # <<>>

\* What parse has established at each step, and what it is wrong about when
\* it refuses.
Parsing ==
    /\ parsing \in {"walk", "shallow", "within", "full", "parsed"} \cup Envelope!CmsError
    /\ parsing \in {"shallow", "within", "full", "parsed"} =>
        blob.header = "ok" /\ ~blob.deep /\ Envelope!NodesOf(blob) <= MaxNodes
    /\ parsing \in {"within", "full", "parsed"} =>
        blob.type = "signedData" /\ Envelope!APRV_SIGNED_DATA(blob.members)
    /\ parsing \in {"full", "parsed"} =>
        /\ Envelope!members(blob.members).signer_infos <= MaxSignerInfos
        /\ Envelope!members(blob.members).certificates <= MaxCertificates
    /\ parsing = "parsed" => Good
    /\ parsing \in Envelope!CmsError => ~Good

Passed(i, key) ==
    LET si == Envelope!SignerInfos(blob)[i]
    IN /\ i \in DOMAIN Envelope!SignerInfos(blob)
       /\ Envelope!content_type_attribute_matches(si)
       /\ Envelope!verify_signer(si, key, Envelope!ContentOf(blob)[1])

\* Only what was parsed is judged, and what was answered for passed.
Judged == \A a \in accepted : parsing = "parsed" /\ Passed(a[1], a[2])

\* The full decode runs last, once, on what is within the limits.
FullyDecoded ==
    \/ full_decodes = 0
    \/ /\ full_decodes = 1 /\ parsing \notin {"walk", "shallow", "within", "full"}
       /\ blob.header = "ok" /\ ~blob.deep /\ Envelope!NodesOf(blob) <= MaxNodes
       /\ Envelope!members(blob.members).signer_infos <= MaxSignerInfos
       /\ Envelope!members(blob.members).certificates <= MaxCertificates

EnvelopeInv ==
    /\ blob \in Envelopes
    /\ Parsing
    /\ FullyDecoded
    /\ built <= MaxNodes
    /\ keys <= MaxCertificates
    /\ Judged

\* Two copies of one standard operator.
LEMMA SameCardinality == \A S : Envelope!Cardinality(S) = Cardinality(S)
    BY Zenon DEF Envelope!Cardinality, Cardinality, Envelope!IsFiniteSet, IsFiniteSet

\* The node count of a blob is a number: it has finitely many headers.
LEMMA HeadersAreFinite ==
    ASSUME Envelope!BlobAssumption, NEW b \in Envelopes
    PROVE  Envelope!NodesOf(b) \in Nat
<1> DEFINE m == b.members
           row == [i \in 1..Len(m) |-> {i} \X (0..Len(m[i].parts))]
           rows == {row[i] : i \in 1..Len(m)}
<1>1. Len(m) \in Nat /\ DOMAIN m = 1..Len(m)
    BY DEF Envelope!BlobAssumption, Envelope!IsSequence
<1>2. ASSUME NEW i \in 1..Len(m)
      PROVE  IsFiniteSet(row[i])
    <2>1. Len(m[i].parts) \in Nat
        BY <1>1 DEF Envelope!BlobAssumption, Envelope!IsElement, Envelope!IsSequence
    <2>2. IsFiniteSet({i}) /\ IsFiniteSet(0..Len(m[i].parts))
        <3>1. 0 \in Int /\ Len(m[i].parts) \in Int
            BY <2>1
        <3> HIDE DEF m
        <3> QED
            BY <3>1, FS_Singleton, FS_Interval, Zenon
    <2>3. IsFiniteSet({i} \X (0..Len(m[i].parts)))
        BY <2>2, FS_Product
    <2> QED
        BY <2>3
<1>3. IsFiniteSet(rows)
    <2>1. row \in Surjection(1..Len(m), rows)
        BY DEF Surjection
    <2>2. IsFiniteSet(1..Len(m))
        BY <1>1, FS_Interval
    <2> HIDE DEF row, rows
    <2> QED
        BY <2>1, <2>2, FS_Surjection
<1>4. \A T \in rows : IsFiniteSet(T)
    <2> HIDE DEF row
    <2> QED
        BY <1>2, Zenon
<1>5. IsFiniteSet(UNION rows)
    <2> HIDE DEF rows
    <2> QED
        BY <1>3, <1>4, FS_UNION
<1>6. Envelope!Headers(b) = UNION rows
    BY <1>1 DEF Envelope!Headers
<1>7. Cardinality(Envelope!Headers(b)) \in Nat
    BY <1>5, <1>6, FS_CardinalityType
<1> QED
    BY <1>7, SameCardinality DEF Envelope!NodesOf

\* The full decode takes no shape the shallow one refused.
LEMMA ShallowRefusesNoMore ==
    ASSUME Envelope!BlobAssumption, NEW b \in Envelopes, Envelope!CMS_SignedData(b.members)
    PROVE  Envelope!APRV_SIGNED_DATA(b.members)
<1>1. Len(b.members) \in Nat /\ DOMAIN b.members = 1..Len(b.members)
    BY DEF Envelope!BlobAssumption, Envelope!IsSequence
<1>2. 3 \in DOMAIN b.members
    BY DEF Envelope!CMS_SignedData, Envelope!Shaped, Envelope!Fits, Envelope!At
<1>3. Len(b.members) >= 3
    BY <1>1, <1>2
<1> QED
    BY <1>3 DEF Envelope!CMS_SignedData, Envelope!APRV_SIGNED_DATA, Envelope!Shaped

\* No more keys than certificates were counted.
LEMMA KeysWereCounted ==
    ASSUME Envelope!BlobAssumption, NEW b \in Envelopes
    PROVE  /\ Envelope!members(b.members).certificates \in Nat
           /\ Envelope!KeysBuilt(b.members) \in Nat
           /\ Envelope!KeysBuilt(b.members) <= Envelope!members(b.members).certificates
<1> DEFINE m == b.members
           parts == Envelope!CertificatesAt(m)[1].parts
           counted == {i \in DOMAIN parts : parts[i] = <<"cert">> /\ \A j \in 1..i : parts[j] # <<"bad">>}
<1>1. CASE Envelope!CertificatesAt(m) = <<>>
    BY <1>1 DEF Envelope!members, Envelope!KeysBuilt
<1>2. CASE Envelope!CertificatesAt(m) # <<>>
    <2>1. Envelope!At(m, 4, "[0]") /\ Envelope!CertificatesAt(m) = <<m[4]>>
        BY <1>2 DEF Envelope!CertificatesAt
    <2>2. parts = m[4].parts /\ 4 \in DOMAIN m
        BY <2>1 DEF Envelope!At
    <2>3. Len(parts) \in Nat /\ DOMAIN parts = 1..Len(parts)
        <3>1. Envelope!IsElement(m[4])
            BY <2>2 DEF Envelope!BlobAssumption
        <3>2. Len(m[4].parts) \in Nat /\ DOMAIN m[4].parts = 1..Len(m[4].parts)
            BY <3>1 DEF Envelope!IsElement, Envelope!IsSequence
        <3> HIDE DEF parts, m
        <3> QED
            BY <2>2, <3>2
    <2>4. Envelope!members(m).certificates = Len(parts)
        BY <1>2 DEF Envelope!members
    <2> HIDE DEF parts
    <2>5. IsFiniteSet(1..Len(parts)) /\ Cardinality(1..Len(parts)) = Len(parts)
        <3> DEFINE n == Len(parts)
        <3>1. n \in Nat
            BY <2>3
        <3> HIDE DEF n
        <3>2. 1 \in Int /\ n \in Int
            BY <3>1
        <3>3. IsFiniteSet(1..n) /\ Cardinality(1..n) = IF 1 > n THEN 0 ELSE n - 1 + 1
            BY <3>2, FS_Interval, Zenon
        <3>4. Cardinality(1..n) = n
            BY <3>1, <3>3
        <3> QED
            BY <3>3, <3>4 DEF n
    <2>6. counted \in SUBSET (1..Len(parts))
        BY <2>3
    <2>7. Cardinality(counted) \in Nat /\ Cardinality(counted) <= Len(parts)
        <3> HIDE DEF counted
        <3> QED
            BY <2>5, <2>6, FS_Subset, FS_CardinalityType
    <2>8. Envelope!KeysBuilt(m) = 0 \/ Envelope!KeysBuilt(m) = Cardinality(counted)
        BY <1>2, SameCardinality, Zenon DEF Envelope!KeysBuilt, parts
    <2> DEFINE n == Len(parts)
               c == Envelope!members(m).certificates
               k == Envelope!KeysBuilt(m)
    <2>9. n \in Nat /\ c = n /\ (k = 0 \/ (k \in Nat /\ k <= n))
        <3> HIDE DEF counted
        <3> QED
            BY <2>3, <2>4, <2>7, <2>8
    <2> HIDE DEF n, c, k
    <2>10. c \in Nat /\ k \in Nat /\ k <= c
        BY <2>9
    <2> QED
        BY <2>10 DEF c, k
<1> QED
    BY <1>1, <1>2

\* What parse needs of a blob, gathered.
LEMMA BlobFacts ==
    ASSUME Envelope!LimitsAssumption, Envelope!BlobAssumption, blob \in Envelopes
    PROVE  /\ blob.header \in {"ok", "malformed", "trailing"} /\ blob.deep \in BOOLEAN
           /\ blob.type \in {"signedData", "other", "none"}
           /\ Envelope!NodesOf(blob) \in Nat /\ MaxNodes \in Nat
           /\ Envelope!CMS_SignedData(blob.members) => Envelope!APRV_SIGNED_DATA(blob.members)
    BY HeadersAreFinite, ShallowRefusesNoMore DEF Envelope!LimitsAssumption, Envelope!BlobAssumption

\* The counts of the shallow decode are the ones the limits are about.
LEMMA CountsMeanTheLimits ==
    ASSUME Envelope!LimitsAssumption, Envelope!BlobAssumption, blob \in Envelopes,
           Envelope!APRV_SIGNED_DATA(blob.members)
    PROVE  LET m == blob.members
               parts == m[Envelope!LastAt(m)].parts
           IN /\ Len(parts) \in Nat
              /\ Len(parts) \in 1..MaxSignerInfos <=>
                    Envelope!members(m).signer_infos <= MaxSignerInfos /\ Envelope!SignerInfos(blob) # <<>>
              /\ (Envelope!CertificatesAt(m) # <<>> =>
                    Len(Envelope!CertificatesAt(m)[1].parts) <= MaxCertificates) <=>
                 Envelope!members(m).certificates <= MaxCertificates
<1> DEFINE m == blob.members
           parts == m[Envelope!LastAt(m)].parts
<1>1. Envelope!LastAt(m) \in DOMAIN m
    BY DEF Envelope!APRV_SIGNED_DATA, Envelope!Shaped, Envelope!At
<1>2. Envelope!IsElement(m[Envelope!LastAt(m)])
    BY <1>1 DEF Envelope!BlobAssumption
<1>3. parts \in Seq({parts[i] : i \in DOMAIN parts})
    BY <1>2, Zenon DEF Envelope!IsElement, Envelope!IsSequence
<1>4. Envelope!members(m).signer_infos = Len(parts) /\ Envelope!SignerInfos(blob) = parts
    BY DEF Envelope!members, Envelope!SignerInfos
<1>5. MaxSignerInfos \in Nat /\ MaxCertificates \in Nat
    BY DEF Envelope!LimitsAssumption
<1>6. /\ Len(parts) \in Nat
      /\ Len(parts) \in 1..MaxSignerInfos <=> Len(parts) <= MaxSignerInfos /\ parts # <<>>
    <2> HIDE DEF parts
    <2> QED
        BY <1>3, <1>5
<1>7. (Envelope!CertificatesAt(m) # <<>> => Len(Envelope!CertificatesAt(m)[1].parts) <= MaxCertificates)
      <=> Envelope!members(m).certificates <= MaxCertificates
    <2>1. CASE Envelope!CertificatesAt(m) = <<>>
        BY <2>1, <1>5 DEF Envelope!members
    <2>2. CASE Envelope!CertificatesAt(m) # <<>>
        BY <2>2 DEF Envelope!members
    <2> QED
        BY <2>1, <2>2
<1> HIDE DEF parts
<1>8. Len(parts) \in 1..MaxSignerInfos <=>
        Envelope!members(m).signer_infos <= MaxSignerInfos /\ Envelope!SignerInfos(blob) # <<>>
    BY <1>4, <1>6, Zenon
<1> QED
    BY <1>6, <1>7, <1>8 DEF parts

\* Nothing parsed.
LEMMA EnvelopeStarts == ASSUME Envelope!LimitsAssumption, Envelope!BlobAssumption, Envelope!Init
                        PROVE  EnvelopeInv
    BY DEF Envelope!Init, EnvelopeInv, Parsing, FullyDecoded, Judged, Envelope!CmsError,
           Envelope!LimitsAssumption

\* One step per stage of parse and per check of a SignerInfo.
LEMMA EnvelopeSteps ==
    ASSUME Envelope!LimitsAssumption, Envelope!BlobAssumption, EnvelopeInv, [Envelope!Next]_(Envelope!vars)
    PROVE  EnvelopeInv'
<1> DEFINE m == blob.members
           infos == Envelope!members(m).signer_infos
           certificates == Envelope!members(m).certificates
<1>1. /\ blob.header \in {"ok", "malformed", "trailing"} /\ blob.deep \in BOOLEAN
      /\ blob.type \in {"signedData", "other", "none"}
      /\ Envelope!NodesOf(blob) \in Nat /\ MaxNodes \in Nat
      /\ Envelope!CMS_SignedData(m) => Envelope!APRV_SIGNED_DATA(m)
    BY BlobFacts DEF EnvelopeInv
<1>2. blob' = blob => (Good' <=> Good)
    BY DEF Good
<1>3. parsing # "parsed" => accepted = {}
    BY DEF EnvelopeInv, Judged
<1>4. CASE Envelope!Walk
    <2>1. /\ blob' = blob /\ built' = built /\ keys' = keys /\ accepted' = {} /\ parsing = "walk"
          /\ full_decodes' = full_decodes /\ full_decodes = 0
        BY <1>3, <1>4 DEF Envelope!Walk, EnvelopeInv, FullyDecoded
    <2>2. \/ parsing' \in {"TooDeep", "TooManyNodes", "Malformed", "Trailing"} /\ ~Good
          \/ /\ parsing' = "shallow" /\ blob.header = "ok" /\ ~blob.deep
             /\ Envelope!NodesOf(blob) <= MaxNodes
        BY <1>1, <1>4 DEF Envelope!Walk, Good
    <2>3. Parsing'
        BY <2>1, <2>2, <1>2 DEF Parsing, Envelope!CmsError
    <2> QED
        BY <2>1, <2>3 DEF EnvelopeInv, FullyDecoded, Judged
<1>5. CASE Envelope!Shallow
    <2>1. /\ blob' = blob /\ keys' = keys /\ accepted' = {} /\ parsing = "shallow"
          /\ built' = Envelope!NodesOf(blob) /\ full_decodes' = full_decodes /\ full_decodes = 0
        BY <1>3, <1>5 DEF Envelope!Shallow, EnvelopeInv, FullyDecoded
    <2>2. \/ parsing' \in {"Malformed", "NotSignedData"} /\ ~Good
          \/ parsing' = "within" /\ blob.type = "signedData" /\ Envelope!APRV_SIGNED_DATA(m)
        BY <1>1, <1>5 DEF Envelope!Shallow, Good
    <2>3. blob.header = "ok" /\ ~blob.deep /\ Envelope!NodesOf(blob) <= MaxNodes
        BY <2>1 DEF EnvelopeInv, Parsing
    <2>4. Parsing'
        BY <2>1, <2>2, <2>3, <1>2 DEF Parsing, Envelope!CmsError
    <2> QED
        BY <2>1, <2>3, <2>4 DEF EnvelopeInv, FullyDecoded, Judged
<1>6. CASE Envelope!Within
    <2>1. /\ blob' = blob /\ built' = built /\ keys' = keys /\ accepted' = {} /\ parsing = "within"
          /\ full_decodes' = full_decodes /\ full_decodes = 0
        BY <1>3, <1>6 DEF Envelope!Within, EnvelopeInv, FullyDecoded
    <2>2. /\ blob.header = "ok" /\ ~blob.deep /\ Envelope!NodesOf(blob) <= MaxNodes
          /\ blob.type = "signedData" /\ Envelope!APRV_SIGNED_DATA(m)
        BY <2>1 DEF EnvelopeInv, Parsing
    <2>3. infos \in Nat /\ certificates \in Nat /\ MaxSignerInfos \in Nat /\ MaxCertificates \in Nat
        BY <2>2, CountsMeanTheLimits, KeysWereCounted DEF EnvelopeInv, Envelope!members, Envelope!LimitsAssumption
    <2>4. Good => infos <= MaxSignerInfos /\ certificates <= MaxCertificates
        BY <2>2, CountsMeanTheLimits DEF EnvelopeInv, Good
    <2>5. \/ parsing' \in {"TooManySignerInfos", "TooManyCertificates"} /\ ~Good
          \/ parsing' = "full" /\ infos <= MaxSignerInfos /\ certificates <= MaxCertificates
        <3>1. parsing' = IF infos > MaxSignerInfos THEN "TooManySignerInfos"
                       ELSE IF certificates > MaxCertificates THEN "TooManyCertificates" ELSE "full"
            BY <1>6 DEF Envelope!Within, Envelope!within
        <3> HIDE DEF infos, certificates
        <3> QED
            BY <2>3, <2>4, <3>1
    <2>6. Parsing'
        BY <2>1, <2>2, <2>5, <1>2 DEF Parsing, Envelope!CmsError
    <2> QED
        BY <2>1, <2>6 DEF EnvelopeInv, FullyDecoded, Judged
<1>7. CASE Envelope!FullDecode
    <2>1. /\ blob' = blob /\ built' = built /\ accepted' = {} /\ parsing = "full"
          /\ keys' = Envelope!KeysBuilt(m) /\ full_decodes' = 1
        BY <1>3, <1>7 DEF Envelope!FullDecode, Envelope!Counted, EnvelopeInv, FullyDecoded
    <2>2. /\ blob.header = "ok" /\ ~blob.deep /\ Envelope!NodesOf(blob) <= MaxNodes
          /\ blob.type = "signedData" /\ Envelope!APRV_SIGNED_DATA(m)
          /\ infos <= MaxSignerInfos /\ certificates <= MaxCertificates
        BY <2>1 DEF EnvelopeInv, Parsing
    <2>3. Good <=> /\ Envelope!CMS_SignedData(m) /\ Envelope!ContentOf(blob) # <<>>
                   /\ Envelope!SignerInfos(blob) # <<>>
        BY <2>2, CountsMeanTheLimits DEF EnvelopeInv, Good
    <2>4. \/ parsing' \in {"Malformed", "NoContent", "NoSignerInfo"} /\ ~Good
          \/ parsing' = "parsed" /\ Good
        BY <1>7, <2>3 DEF Envelope!FullDecode
    <2>5. keys' <= MaxCertificates
        <3> DEFINE k == Envelope!KeysBuilt(m)
        <3>1. certificates \in Nat /\ k \in Nat /\ k <= certificates /\ MaxCertificates \in Nat
            BY KeysWereCounted DEF EnvelopeInv, Envelope!LimitsAssumption
        <3> HIDE DEF k, certificates
        <3>2. k <= MaxCertificates
            BY <2>2, <3>1
        <3> QED
            BY <2>1, <3>2 DEF k
    <2>6. Parsing'
        BY <2>1, <2>2, <2>4, <1>2 DEF Parsing, Envelope!CmsError
    <2>7. FullyDecoded'
        BY <2>1, <2>2, <2>4 DEF FullyDecoded
    <2> QED
        BY <2>1, <2>5, <2>6, <2>7 DEF EnvelopeInv, Judged
<1>8. CASE Envelope!Judge
    <2>1. PICK i \in DOMAIN Envelope!SignerInfos(blob), key \in Keys : Envelope!Verify(i, key)
        BY <1>8 DEF Envelope!Judge
    <2>2. /\ blob' = blob /\ parsing' = parsing /\ built' = built /\ keys' = keys /\ parsing = "parsed"
          /\ full_decodes' = full_decodes
        BY <1>8, <2>1 DEF Envelope!Judge, Envelope!Verify
    <2>3. accepted' = accepted \cup {<<i, key>>} /\ Passed(i, key)
        BY <2>1 DEF Envelope!Verify, Passed
    <2>4. Parsing'
        BY <2>2, <1>2 DEF EnvelopeInv, Parsing
    <2>5. \A j, k : Passed(j, k) => Passed(j, k)'
        BY <2>2 DEF Passed
    <2>6. Judged'
        <3> SUFFICES ASSUME NEW a \in accepted'
                     PROVE  parsing' = "parsed" /\ Passed(a[1], a[2])
            BY <2>5 DEF Judged
        <3>1. CASE a \in accepted
            BY <3>1, <2>2 DEF EnvelopeInv, Judged
        <3>2. CASE a = <<i, key>>
            BY <3>2, <2>2, <2>3
        <3> QED
            BY <3>1, <3>2, <2>3
    <2> QED
        BY <2>2, <2>4, <2>6 DEF EnvelopeInv, FullyDecoded
<1>9. CASE UNCHANGED Envelope!vars
    <2>1. /\ blob' = blob /\ parsing' = parsing /\ built' = built /\ keys' = keys /\ accepted' = accepted
          /\ full_decodes' = full_decodes
        BY <1>9 DEF Envelope!vars
    <2>2. Parsing'
        BY <2>1, <1>2 DEF EnvelopeInv, Parsing
    <2>3. \A j, k : Passed(j, k) => Passed(j, k)'
        BY <2>1 DEF Passed
    <2>4. Judged'
        BY <2>1, <2>3 DEF EnvelopeInv, Judged
    <2> QED
        BY <2>1, <2>2, <2>4 DEF EnvelopeInv, FullyDecoded
<1> QED
    BY <1>4, <1>5, <1>6, <1>7, <1>8, <1>9 DEF Envelope!Next

\* The inductive invariant of SignedData::parse and of the two checks of a
\* SignerInfo (rust/openssl/src/cms.rs): what each step has established about
\* the blob, and that a blob is refused only when it is not a good one.
THEOREM EnvelopeInvariant ==
    Envelope!LimitsAssumption /\ Envelope!BlobAssumption => (Envelope!Spec => []EnvelopeInv)
<1> SUFFICES ASSUME Envelope!LimitsAssumption, Envelope!BlobAssumption
             PROVE  Envelope!Spec => []EnvelopeInv
    OBVIOUS
<1>1. Envelope!Init => EnvelopeInv
    BY EnvelopeStarts
<1>2. EnvelopeInv /\ [Envelope!Next]_(Envelope!vars) => EnvelopeInv'
    BY EnvelopeSteps
<1> QED
    BY <1>1, <1>2, PTL DEF Envelope!Spec

\* parse (cms.rs) accepts exactly the envelopes within the limits that
\* OpenSSL's full decode takes, whatever the order of their elements, and
\* allocates no more values and builds no more keys than the limits, for
\* every limit and every set of blobs.
THEOREM LimitsBoundTheCostCorrect ==
    Envelope!LimitsAssumption /\ Envelope!BlobAssumption =>
        (Envelope!Spec => []LimitsBoundTheCostAndRefuseNoMore)
<1> SUFFICES ASSUME Envelope!LimitsAssumption, Envelope!BlobAssumption
             PROVE  Envelope!Spec => []LimitsBoundTheCostAndRefuseNoMore
    OBVIOUS
<1>1. EnvelopeInv => LimitsBoundTheCostAndRefuseNoMore
    <2> SUFFICES ASSUME EnvelopeInv
                 PROVE  LimitsBoundTheCostAndRefuseNoMore
        OBVIOUS
    <2>1. parsing \in Envelope!CmsError \cup {"parsed"} => (parsing = "parsed" <=> Good)
        BY DEF EnvelopeInv, Parsing, Envelope!CmsError
    <2> QED
        BY <2>1 DEF EnvelopeInv, FullyDecoded, LimitsBoundTheCostAndRefuseNoMore,
                    Envelope!LimitsBoundTheCostAndRefuseNoMore, Good
<1> QED
    BY <1>1, EnvelopeInvariant, PTL

\* A SignerInfo that verify_signer answered for, with a contentType that
\* matched, is signed by that key over this content, directly or through
\* attributes with the content's digest, for every set of blobs and keys.
THEOREM AnsweredForIsSignedCorrect ==
    Envelope!LimitsAssumption /\ Envelope!BlobAssumption => (Envelope!Spec => []AnsweredForIsSigned)
<1> SUFFICES ASSUME Envelope!LimitsAssumption, Envelope!BlobAssumption
             PROVE  Envelope!Spec => []AnsweredForIsSigned
    OBVIOUS
<1>1. EnvelopeInv => AnsweredForIsSigned
    <2> SUFFICES ASSUME EnvelopeInv, NEW a \in accepted
                 PROVE  LET si == Envelope!SignerInfos(blob)[a[1]]
                            covered == Envelope!ContentOf(blob)[1]
                        IN IF Envelope!signedAttrs(si) = <<>> THEN Envelope!signature(si) = <<a[2], covered>>
                           ELSE Envelope!signature(si) = <<a[2], <<"attributes", "matching", covered>>>>
        BY DEF AnsweredForIsSigned, Envelope!AnsweredForIsSigned
    <2> DEFINE m == blob.members
               parts == m[Envelope!LastAt(m)].parts
               si == parts[a[1]]
               covered == Envelope!ContentOf(blob)[1]
               attrs == Envelope!signedAttrs(si)
    <2>1. Good /\ a[1] \in DOMAIN parts /\ Envelope!SignerInfos(blob) = parts
        BY DEF EnvelopeInv, Parsing, Judged, Passed, Envelope!SignerInfos
    <2>2. Envelope!content_type_attribute_matches(si) /\ Envelope!verify_signer(si, a[2], covered)
        BY DEF EnvelopeInv, Judged, Passed, Envelope!SignerInfos
    <2>3. Envelope!CMS_SignedData(m) /\ Envelope!ContentOf(blob) # <<>>
        BY <2>1 DEF Good
    <2>4. Envelope!IsInfo(si)
        <3>1. si \notin {<<"algorithm">>, <<"bad">>}
            BY <2>1, <2>3 DEF Envelope!CMS_SignedData, Envelope!SignerInfosDecode
        <3>2. Envelope!At(m, Envelope!LastAt(m), "SET")
            BY <2>3 DEF Envelope!CMS_SignedData, Envelope!Shaped
        <3>3. Envelope!IsElement(m[Envelope!LastAt(m)])
            BY <3>2 DEF EnvelopeInv, Envelope!BlobAssumption, Envelope!At
        <3> QED
            BY <3>1, <3>2, <3>3, <2>1 DEF Envelope!IsElement, Envelope!At
    <2>5. covered # <<>>
        <3>1. Envelope!At(m, 3, "SEQUENCE")
            BY <2>3 DEF Envelope!CMS_SignedData, Envelope!Shaped, Envelope!Fits
        <3>2. Envelope!IsElement(m[3]) /\ m[3].tag = "SEQUENCE"
            BY <3>1 DEF EnvelopeInv, Envelope!BlobAssumption, Envelope!At
        <3>3. m[3].parts \in Seq({m[3].parts[i] : i \in DOMAIN m[3].parts}) /\ m[3].parts # <<>>
            BY <3>2, <2>3, Zenon DEF Envelope!IsElement, Envelope!IsSequence, Envelope!ContentOf
        <3>4. 1 \in DOMAIN m[3].parts
            <4> DEFINE p == m[3].parts
            <4> HIDE DEF p
            <4>1. p \in Seq({p[i] : i \in DOMAIN p}) /\ p # <<>>
                BY <3>3 DEF p
            <4>2. 1 \in DOMAIN p
                BY <4>1
            <4> QED
                BY <4>2 DEF p
        <3> QED
            BY <3>2, <3>4 DEF Envelope!IsElement, Envelope!ContentOf
    <2> HIDE DEF covered, si
    <2>6. CASE attrs = <<>>
        BY <2>1, <2>2, <2>6 DEF Envelope!verify_signer, Envelope!CMS_SignerInfo_verify_content, covered, si
    <2>7. CASE attrs # <<>>
        <3> HIDE DEF attrs
        <3>1. /\ Envelope!signature(si) = <<a[2], attrs>> /\ attrs[2] # "repeated" /\ attrs[2] # "other"
              /\ attrs[2] = "missing" => attrs = Envelope!EmptySet
              /\ attrs[3] = covered
            BY <2>2, <2>7 DEF attrs, Envelope!verify_signer, Envelope!CMS_SignerInfo_verify,
                  Envelope!CMS_SignerInfo_verify_content, Envelope!content_type_attribute_matches
        <3>2. PICK type \in {"matching", "other", "missing", "repeated"} : attrs = <<"attributes", type, attrs[3]>>
            BY <2>4, <2>7 DEF Envelope!IsInfo, attrs
        <3>3. attrs[2] = type
            BY <3>2
        <3>4. attrs[2] # "missing"
            BY <3>1, <2>5 DEF Envelope!EmptySet
        <3>5. attrs = <<"attributes", "matching", covered>>
            BY <3>1, <3>2, <3>3, <3>4
        <3> QED
            BY <2>1, <2>7, <3>1, <3>5 DEF attrs, covered, si
    <2> QED
        BY <2>6, <2>7
<1> QED
    BY <1>1, EnvelopeInvariant, PTL

-----------------------------------------------------------------------------
(* The receipt's payload *)

IsASequence(s) == \E S : s \in Seq(S)

CreationDate == "receipt_creation_date_ms"

\* What a payload reports of the first attribute 12, or of none.
Reported(v) == IF Payload!date(v) = <<>> THEN Payload!None ELSE Payload!date(v)[1]

\* Until an attribute 12 is taken the field is not set, and the date that was
\* judged at is that of the attributes that are left; afterwards the field
\* stays what was judged at.
DateKept ==
    IF 12 \in receipt.seen THEN receipt.fields[CreationDate] = judged
    ELSE receipt.fields[CreationDate] = Payload!None /\ judged = Payload!creation_date(attributes)

PayloadInv ==
    /\ reading \in {"start", "judging", "decoding", "decoded", "answered", "read", "refused"}
    /\ content \in PayloadContents
    /\ receipt = [fields |-> receipt.fields, in_app |-> receipt.in_app,
                  unknown |-> receipt.unknown, seen |-> receipt.seen]
    /\ CreationDate \in DOMAIN receipt.fields
    /\ receipt.fields = [n \in DOMAIN receipt.fields |-> receipt.fields[n]]
    /\ reading = "start" => 12 \notin receipt.seen /\ receipt.fields[CreationDate] = Payload!None
    /\ reading \in {"judging", "decoding"} => IsASequence(attributes) /\ DateKept
    /\ reading \in {"answered", "read"} => receipt.fields[CreationDate] = judged

\* The attribute creation_date picks, said without CHOOSE.
LEMMA FirstDecides ==
    ASSUME NEW s, NEW k \in DOMAIN s, DOMAIN s \subseteq Nat, s[k].type = 12,
           \A j \in DOMAIN s : s[j].type = 12 => k <= j
    PROVE  Payload!creation_date(s) = Reported(s[k].value)
<1> DEFINE twelves == {i \in DOMAIN s : s[i].type = 12}
           first == CHOOSE i \in twelves : \A j \in twelves : i <= j
<1>1. first = k
    <2>1. k \in twelves /\ \A j \in twelves : k <= j
        OBVIOUS
    <2>2. first \in twelves /\ \A j \in twelves : first <= j
        BY <2>1
    <2>3. first \in Nat /\ k \in Nat /\ first <= k /\ k <= first
        BY <2>1, <2>2
    <2> HIDE DEF first, twelves
    <2> QED
        BY <2>3
<1>2. twelves # {}
    OBVIOUS
<1>3. Payload!creation_date(s) =
        IF twelves = {} \/ Payload!date(s[first].value) = <<>> THEN Payload!None
        ELSE Payload!date(s[first].value)[1]
    BY DEF Payload!creation_date
<1> HIDE DEF first, twelves
<1> QED
    BY <1>1, <1>2, <1>3 DEF Reported

\* Without an attribute 12 there is no creation date.
LEMMA NoDateNone ==
    ASSUME NEW s, \A i \in DOMAIN s : s[i].type # 12
    PROVE  Payload!creation_date(s) = Payload!None
    BY DEF Payload!creation_date

\* The places of a sequence and of its tail.
LEMMA HeadAndTail ==
    ASSUME NEW s, IsASequence(s), s # <<>>
    PROVE  /\ DOMAIN s = 1..Len(s) /\ Len(s) \in Nat \ {0} /\ Head(s) = s[1]
           /\ IsASequence(Tail(s)) /\ DOMAIN Tail(s) = 1..(Len(s) - 1)
           /\ \A i \in 1..(Len(s) - 1) : Tail(s)[i] = s[i + 1]
<1>1. PICK S : s \in Seq(S)
    BY DEF IsASequence
<1>2. Tail(s) \in Seq(S)
    BY <1>1
<1> QED
    BY <1>1, <1>2 DEF IsASequence

\* The first attribute 12 decides,
LEMMA DateOfHead ==
    ASSUME NEW s, IsASequence(s), s # <<>>, Head(s).type = 12
    PROVE  Payload!creation_date(s) = Reported(Head(s).value)
<1>1. DOMAIN s = 1..Len(s) /\ Len(s) \in Nat \ {0} /\ Head(s) = s[1]
    BY HeadAndTail
<1>2. 1 \in DOMAIN s /\ DOMAIN s \subseteq Nat /\ \A j \in DOMAIN s : 1 <= j
    BY <1>1
<1> QED
    BY <1>1, <1>2, FirstDecides

\* and what comes before it does not.
LEMMA DateOfTail ==
    ASSUME NEW s, IsASequence(s), s # <<>>, Head(s).type # 12
    PROVE  Payload!creation_date(Tail(s)) = Payload!creation_date(s)
<1> DEFINE n == Len(s)
           t == Tail(s)
           twelves == {i \in DOMAIN t : t[i].type = 12}
<1>1. /\ DOMAIN s = 1..n /\ n \in Nat \ {0} /\ Head(s) = s[1]
      /\ DOMAIN t = 1..(n - 1) /\ \A i \in 1..(n - 1) : t[i] = s[i + 1]
    BY HeadAndTail
<1> HIDE DEF n, t
<1>2. CASE twelves = {}
    <2>1. \A i \in DOMAIN t : t[i].type # 12
        BY <1>2
    <2>2. \A i \in DOMAIN s : s[i].type # 12
        <3> SUFFICES ASSUME NEW i \in DOMAIN s
                     PROVE  s[i].type # 12
            OBVIOUS
        <3>1. CASE i = 1
            BY <1>1, <3>1
        <3>2. CASE i # 1
            <4>1. i - 1 \in 1..(n - 1) /\ (i - 1) + 1 = i
                BY <1>1, <3>2
            <4> QED
                BY <1>1, <2>1, <4>1
        <3> QED
            BY <3>1, <3>2
    <2> QED
        BY <2>1, <2>2, NoDateNone DEF t
<1>3. CASE twelves # {}
    <2>1. twelves \subseteq Nat
        BY <1>1
    <2>2. PICK k \in twelves : \A j \in twelves : k <= j
        <3> HIDE DEF twelves
        <3> QED
            BY <1>3, <2>1, LeastNat
    <2>3. /\ k \in DOMAIN t /\ DOMAIN t \subseteq Nat /\ t[k].type = 12
          /\ \A j \in DOMAIN t : t[j].type = 12 => k <= j
        BY <1>1, <2>2
    <2>4. k \in 1..(n - 1) /\ k + 1 \in DOMAIN s /\ s[k + 1] = t[k] /\ DOMAIN s \subseteq Nat
        BY <1>1, <2>3
    <2>5. ASSUME NEW j \in DOMAIN s, s[j].type = 12
          PROVE  k + 1 <= j
        <3>1. j # 1
            BY <1>1, <2>5
        <3>2. j - 1 \in 1..(n - 1) /\ (j - 1) + 1 = j
            BY <1>1, <3>1
        <3>3. t[j - 1] = s[j]
            BY <1>1, <3>2
        <3>4. k <= j - 1
            BY <1>1, <2>3, <2>5, <3>2, <3>3
        <3> QED
            BY <1>1, <2>4, <3>2, <3>4
    <2>6. Payload!creation_date(t) = Reported(t[k].value)
        BY <2>3, FirstDecides
    <2>7. Payload!creation_date(s) = Reported(s[k + 1].value)
        <3> DEFINE l == k + 1
        <3>1. l \in DOMAIN s /\ s[l].type = 12 /\ \A j \in DOMAIN s : s[j].type = 12 => l <= j
            BY <2>3, <2>4, <2>5
        <3> HIDE DEF l
        <3>2. Payload!creation_date(s) = Reported(s[l].value)
            BY <2>4, <3>1, FirstDecides
        <3> QED
            BY <3>2 DEF l
    <2> QED
        BY <2>4, <2>6, <2>7 DEF t
<1> QED
    BY <1>2, <1>3

\* Attribute 12 is the creation date's and no other attribute is.
LEMMA OneTypeForTheDate ==
    /\ 12 \in DOMAIN Payload!AppFields /\ Payload!AppFields[12] = <<CreationDate, "date">>
    /\ \A t \in DOMAIN Payload!AppFields \ {12} : Payload!AppFields[t][1] # CreationDate
<1>1. DOMAIN Payload!AppFields = {0, 1, 2, 3, 4, 5, 12, 15, 16, 18, 19, 21, 32}
    BY DEF Payload!AppFields
<1>2. Payload!AppFields[12] = <<CreationDate, "date">>
    BY DEF Payload!AppFields, CreationDate
<1>3. ASSUME NEW t \in {0, 1, 2, 3, 4, 5, 15, 16, 18, 19, 21, 32}
      PROVE  Payload!AppFields[t][1] # CreationDate
    BY DEF Payload!AppFields, CreationDate
<1> QED
    BY <1>1, <1>2, <1>3

\* A field's match arm sets no other field, but the bundle's its bytes too.
LEMMA ArmSetsItsField ==
    ASSUME NEW field, NEW v, field[1] # CreationDate, Payload!decoded(field, v).ok
    PROVE  CreationDate \notin DOMAIN Payload!decoded(field, v).put
    BY DEF Payload!decoded, Payload!Decoded, Payload!Field, Payload!Undecodable, CreationDate

\* The arm of decode for a date.
LEMMA DateArm ==
    ASSUME NEW v
    PROVE  Payload!decoded(<<CreationDate, "date">>, v) =
             IF Payload!date(v) = <<>> THEN Payload!Undecodable ELSE Payload!Field(CreationDate, Payload!date(v)[1])
    BY DEF Payload!decoded

\* Updating one field of a receipt leaves the others.
LEMMA RecordUpdates ==
    ASSUME NEW r, NEW f, NEW i, NEW u, NEW w, NEW x, r = [fields |-> f, in_app |-> i, unknown |-> u, seen |-> w]
    PROVE  /\ [r EXCEPT !.fields = x] = [fields |-> x, in_app |-> i, unknown |-> u, seen |-> w]
           /\ [r EXCEPT !.in_app = x] = [fields |-> f, in_app |-> x, unknown |-> u, seen |-> w]
           /\ [r EXCEPT !.unknown = x] = [fields |-> f, in_app |-> i, unknown |-> x, seen |-> w]
           /\ [r EXCEPT !.seen = x] = [fields |-> f, in_app |-> i, unknown |-> u, seen |-> x]
    OBVIOUS

Arm(table, a) ==
    IF a.type \in DOMAIN table THEN Payload!decoded(table[a.type], a.value) ELSE Payload!Undecodable
Overlaid(f, put) == [n \in DOMAIN f |-> IF n \in DOMAIN put THEN put[n] ELSE f[n]]

Filling(table, f, i, u, w, a) ==
    IF a.type \in w \/ ~Arm(table, a).ok
    THEN [fields |-> f, in_app |-> i, unknown |-> Payload!keep_raw(u, a), seen |-> w \cup {a.type}]
    ELSE [fields |-> Overlaid(f, Arm(table, a).put), in_app |-> i, unknown |-> u, seen |-> w \cup {a.type}]

\* Filled, for a receipt whose four parts are known.
LEMMA FilledIs ==
    ASSUME NEW table, NEW a, NEW s, NEW f, NEW i, NEW u, NEW w,
           s = [fields |-> f, in_app |-> i, unknown |-> u, seen |-> w]
    PROVE  Payload!Filled(table, s, a) = Filling(table, f, i, u, w, a)
<1> DEFINE more == s.seen \cup {a.type}
           s1 == [s EXCEPT !.seen = more]
           raw == Payload!keep_raw(s1.unknown, a)
           over == Overlaid(s.fields, Arm(table, a).put)
<1>1. s.fields = f /\ s.in_app = i /\ s.unknown = u /\ s.seen = w
    OBVIOUS
<1>2. Payload!Filled(table, s, a) =
        IF a.type \in s.seen \/ ~Arm(table, a).ok
        THEN [s1 EXCEPT !.unknown = raw] ELSE [s1 EXCEPT !.fields = over]
    BY Zenon DEF Payload!Filled, Arm, Overlaid
<1> HIDE DEF over, raw, more
<1>3. s1 = [fields |-> f, in_app |-> i, unknown |-> u, seen |-> more]
    OBVIOUS
<1> HIDE DEF s1
<1>4. [s1 EXCEPT !.unknown = raw] = [fields |-> f, in_app |-> i, unknown |-> raw, seen |-> more]
    BY <1>3
<1>5. [s1 EXCEPT !.fields = over] = [fields |-> over, in_app |-> i, unknown |-> u, seen |-> more]
    BY <1>3
<1>6. s1.unknown = u
    BY <1>3
<1>7. raw = Payload!keep_raw(u, a) /\ over = Overlaid(f, Arm(table, a).put) /\ more = w \cup {a.type}
    BY <1>1, <1>6, Zenon DEF raw, over, more
<1> QED
    BY <1>1, <1>2, <1>4, <1>5, <1>7, Zenon DEF Filling

\* One turn of the loop leaves the receipt a receipt, and keeps the date.
LEMMA FilledKeepsDate ==
    ASSUME PayloadInv, DateKept, IsASequence(attributes), attributes # <<>>,
           receipt' = Payload!Filled(Payload!AppFields, receipt, Head(attributes)),
           attributes' = Tail(attributes), judged' = judged
    PROVE  /\ receipt' = [fields |-> receipt'.fields, in_app |-> receipt'.in_app,
                          unknown |-> receipt'.unknown, seen |-> receipt'.seen]
           /\ CreationDate \in DOMAIN receipt'.fields
           /\ receipt'.fields = [n \in DOMAIN receipt'.fields |-> receipt'.fields[n]]
           /\ DateKept'
<1> DEFINE a == Head(attributes)
           known == a.type \in DOMAIN Payload!AppFields
           d == Arm(Payload!AppFields, a)
           raw == Payload!keep_raw(receipt.unknown, a)
           filled == Overlaid(receipt.fields, d.put)
<1>1. receipt' =
        IF a.type \in receipt.seen \/ ~d.ok
        THEN [fields |-> receipt.fields, in_app |-> receipt.in_app, unknown |-> raw,
              seen |-> receipt.seen \cup {a.type}]
        ELSE [fields |-> filled, in_app |-> receipt.in_app, unknown |-> receipt.unknown,
              seen |-> receipt.seen \cup {a.type}]
    <2>1. receipt = [fields |-> receipt.fields, in_app |-> receipt.in_app,
                     unknown |-> receipt.unknown, seen |-> receipt.seen]
        BY DEF PayloadInv
    <2>2. receipt' = Payload!Filled(Payload!AppFields, receipt, a)
        OBVIOUS
    <2>3. Payload!Filled(Payload!AppFields, receipt, a) =
            Filling(Payload!AppFields, receipt.fields, receipt.in_app, receipt.unknown, receipt.seen, a)
        <3> HIDE DEF a
        <3> QED
            BY <2>1, FilledIs
    <2> QED
        BY <2>2, <2>3, Zenon DEF Filling
<1> HIDE DEF raw
<1>2. CASE a.type \in receipt.seen \/ ~d.ok
    <2>1. receipt' = [fields |-> receipt.fields, in_app |-> receipt.in_app, unknown |-> raw,
                      seen |-> receipt.seen \cup {a.type}]
        BY <1>1, <1>2
    <2>2. DateKept'
        <3>1. CASE 12 \in receipt.seen
            BY <2>1, <3>1 DEF DateKept
        <3>2. CASE 12 \notin receipt.seen /\ a.type # 12
            <4>1. Payload!creation_date(attributes') = Payload!creation_date(attributes)
                BY <3>2, DateOfTail
            <4>2. receipt.fields[CreationDate] = Payload!None /\ judged = Payload!creation_date(attributes)
                BY <3>2 DEF DateKept
            <4>3. 12 \notin receipt'.seen /\ receipt'.fields = receipt.fields
                BY <2>1, <3>2
            <4> QED
                BY <4>1, <4>2, <4>3 DEF DateKept
        <3>3. CASE 12 \notin receipt.seen /\ a.type = 12
            <4>1. judged = Reported(a.value) /\ receipt.fields[CreationDate] = Payload!None
                BY <3>3, DateOfHead DEF DateKept
            <4>2. ~d.ok /\ d = Payload!decoded(<<CreationDate, "date">>, a.value)
                BY <1>2, <3>3, OneTypeForTheDate DEF Arm
            <4>3. Payload!date(a.value) = <<>>
                BY <4>2, DateArm DEF Payload!Field
            <4> QED
                BY <2>1, <3>3, <4>1, <4>3 DEF DateKept, Reported
        <3> QED
            BY <3>1, <3>2, <3>3
    <2> QED
        BY <2>1, <2>2 DEF PayloadInv
<1>3. CASE ~(a.type \in receipt.seen \/ ~d.ok)
    <2>1. receipt' = [fields |-> filled, in_app |-> receipt.in_app, unknown |-> receipt.unknown,
                      seen |-> receipt.seen \cup {a.type}]
        BY <1>1, <1>3
    <2>2. known
        BY <1>3 DEF Payload!Undecodable, Arm
    <2>3. CreationDate \in DOMAIN filled /\ filled = [n \in DOMAIN filled |-> filled[n]]
        BY DEF PayloadInv, Overlaid
    <2>4. filled[CreationDate] = IF CreationDate \in DOMAIN d.put THEN d.put[CreationDate] ELSE receipt.fields[CreationDate]
        BY DEF PayloadInv, Overlaid
    <2>5. receipt'.fields = filled /\ receipt'.seen = receipt.seen \cup {a.type}
        <3> HIDE DEF filled
        <3> QED
            BY <2>1
    <2>6. DateKept'
        <3>1. CASE a.type # 12
            <4>1. CreationDate \notin DOMAIN d.put
                BY <1>3, <2>2, <3>1, OneTypeForTheDate, ArmSetsItsField DEF Arm
            <4>2. receipt'.fields[CreationDate] = receipt.fields[CreationDate]
                BY <2>4, <2>5, <4>1, Zenon
            <4>3. 12 \in receipt'.seen <=> 12 \in receipt.seen
                BY <2>5, <3>1
            <4>4. Payload!creation_date(attributes') = Payload!creation_date(attributes)
                BY <3>1, DateOfTail
            <4> HIDE DEF filled, d, a
            <4> QED
                BY <4>2, <4>3, <4>4, Zenon DEF DateKept
        <3>2. CASE a.type = 12
            <4>1. 12 \notin receipt.seen
                BY <1>3, <3>2
            <4>2. judged = Reported(a.value)
                BY <3>2, <4>1, DateOfHead DEF DateKept
            <4>3. d = Payload!decoded(<<CreationDate, "date">>, a.value) /\ d.ok
                BY <1>3, <3>2, OneTypeForTheDate DEF Arm
            <4>4. Payload!date(a.value) # <<>>
                BY <4>3, DateArm DEF Payload!Undecodable
            <4>5. d = Payload!Field(CreationDate, Payload!date(a.value)[1])
                BY <4>3, <4>4, DateArm, Zenon
            <4>6. CreationDate \in DOMAIN d.put /\ d.put[CreationDate] = Payload!date(a.value)[1]
                BY <4>5 DEF Payload!Field
            <4>7. receipt'.fields[CreationDate] = judged
                BY <2>4, <2>5, <4>2, <4>4, <4>6, Zenon DEF Reported
            <4>8. 12 \in receipt'.seen
                BY <2>5, <3>2
            <4> QED
                BY <4>7, <4>8 DEF DateKept
        <3> QED
            BY <3>1, <3>2
    <2> HIDE DEF filled
    <2> QED
        BY <2>1, <2>3, <2>5, <2>6
<1> QED
    BY <1>2, <1>3

\* Nothing decoded.
LEMMA PayloadStarts == ASSUME Payload!Init
                       PROVE  PayloadInv
<1>1. /\ receipt.fields = [n \in Payload!ReceiptKeys |-> Payload!None] /\ receipt.seen = {}
      /\ receipt = [fields |-> receipt.fields, in_app |-> receipt.in_app,
                    unknown |-> receipt.unknown, seen |-> receipt.seen]
    BY DEF Payload!Init, Payload!default
<1>2. CreationDate \in Payload!ReceiptKeys
    BY OneTypeForTheDate DEF Payload!ReceiptKeys
<1>3. reading = "start" /\ content \in PayloadContents
    BY DEF Payload!Init
<1> QED
    BY <1>1, <1>2, <1>3 DEF PayloadInv

\* One step per stage, and one for an attribute.
LEMMA PayloadSteps == ASSUME Payload!PayloadAssumption, PayloadInv, [Payload!Next]_(Payload!vars)
                      PROVE  PayloadInv'
<1>1. CASE Payload!Parse
    <2> DEFINE read == Payload!parse_attribute_set(content)
    <2>1. reading = "start" /\ UNCHANGED <<content, receipt>>
        BY <1>1 DEF Payload!Parse
    <2>2. CASE read = <<>>
        BY <1>1, <2>1, <2>2 DEF Payload!Parse, PayloadInv
    <2>3. CASE read # <<>>
        <3>1. reading' = "judging" /\ attributes' = read[1] /\ judged' = Payload!creation_date(read[1])
            BY <1>1, <2>3 DEF Payload!Parse
        <3>2. IsASequence(read[1])
            <4> DEFINE v == IF content.kind = "octets" THEN content.inner ELSE content
            <4>1. read = Payload!receipt_attributes(content)
                BY <2>3 DEF Payload!parse_attribute_set
            <4>2. Payload!attribute_set(v) /\ read = <<v.entries>>
                BY <2>3, <4>1 DEF Payload!receipt_attributes
            <4>3. v.kind = "set"
                BY <4>2 DEF Payload!attribute_set, Payload!decode_exact
            <4>4. v.entries \in Seq({v.entries[i] : i \in DOMAIN v.entries})
                BY <4>3 DEF PayloadInv, Payload!PayloadAssumption
            <4> HIDE DEF v, read
            <4> QED
                BY <4>2, <4>4 DEF IsASequence
        <3> HIDE DEF read
        <3> QED
            BY <2>1, <3>1, <3>2 DEF PayloadInv, DateKept
    <2> QED
        BY <2>2, <2>3
<1>2. CASE Payload!Trusted \/ Payload!Refuse
    BY <1>2 DEF Payload!Trusted, Payload!Refuse, PayloadInv, DateKept
<1>3. CASE Payload!Take
    <2> DEFINE a == Head(attributes)
    <2>1. /\ reading = "decoding" /\ attributes # <<>> /\ attributes' = Tail(attributes)
          /\ UNCHANGED <<content, reading, judged>>
          /\ receipt' = IF a.type = Payload!ATTR_IN_APP THEN Payload!TakeInApp(receipt, a)
                        ELSE Payload!Filled(Payload!AppFields, receipt, a)
        BY <1>3 DEF Payload!Take
    <2>2. IsASequence(attributes) /\ DateKept
        BY <2>1 DEF PayloadInv
    <2>3. IsASequence(attributes')
        BY <2>1, <2>2, HeadAndTail
    <2>4. CASE a.type = Payload!ATTR_IN_APP
        <3> DEFINE purchase == Payload!parse_in_app(a.value)
                   raw == Payload!keep_raw(receipt.unknown, a)
                   more == Append(receipt.in_app, purchase[1])
        <3>1. receipt = [fields |-> receipt.fields, in_app |-> receipt.in_app,
                         unknown |-> receipt.unknown, seen |-> receipt.seen]
            BY DEF PayloadInv
        <3>2. receipt' = [receipt EXCEPT !.unknown = raw] \/ receipt' = [receipt EXCEPT !.in_app = more]
            BY <2>1, <2>4 DEF Payload!TakeInApp
        <3> HIDE DEF raw, more
        <3>3. \E u, i : receipt' = [fields |-> receipt.fields, in_app |-> i, unknown |-> u, seen |-> receipt.seen]
            BY <3>1, <3>2, RecordUpdates
        <3>4. /\ receipt'.fields = receipt.fields /\ receipt'.seen = receipt.seen
              /\ receipt' = [fields |-> receipt'.fields, in_app |-> receipt'.in_app,
                             unknown |-> receipt'.unknown, seen |-> receipt'.seen]
            BY <3>3
        <3>5. Payload!creation_date(attributes') = Payload!creation_date(attributes)
            BY <2>1, <2>2, <2>4, DateOfTail DEF Payload!ATTR_IN_APP
        <3>6. DateKept'
            BY <2>1, <2>2, <3>4, <3>5 DEF DateKept
        <3> QED
            BY <2>1, <2>3, <3>4, <3>6 DEF PayloadInv
    <2>5. CASE a.type # Payload!ATTR_IN_APP
        <3>1. /\ receipt' = [fields |-> receipt'.fields, in_app |-> receipt'.in_app,
                             unknown |-> receipt'.unknown, seen |-> receipt'.seen]
              /\ CreationDate \in DOMAIN receipt'.fields
              /\ receipt'.fields = [n \in DOMAIN receipt'.fields |-> receipt'.fields[n]]
              /\ DateKept'
            BY <2>1, <2>2, <2>5, FilledKeepsDate
        <3> QED
            BY <2>1, <2>3, <3>1 DEF PayloadInv
    <2> QED
        BY <2>4, <2>5
<1>4. CASE Payload!Answer
    <2>1. reading = "decoding" /\ attributes = <<>> /\ UNCHANGED <<content, judged, receipt>> /\ reading' = "answered"
        BY <1>4 DEF Payload!Answer
    <2>2. DateKept
        BY <2>1 DEF PayloadInv
    <2>3. Payload!creation_date(attributes) = Payload!None
        BY <2>1, NoDateNone
    <2>4. receipt.fields[CreationDate] = judged
        BY <2>2, <2>3 DEF DateKept
    <2> QED
        BY <2>1, <2>4 DEF PayloadInv
<1>5. CASE Payload!Read
    BY <1>5 DEF Payload!Read, PayloadInv
<1>6. CASE UNCHANGED Payload!vars
    BY <1>6 DEF Payload!vars, PayloadInv, DateKept
<1> QED
    BY <1>1, <1>2, <1>3, <1>4, <1>5, <1>6 DEF Payload!Next

\* The instant creation_date (rust/src/receipt_payload.rs) takes from a payload
\* that is not trusted yet, and the chain is judged at, is the creation date
\* the verified payload reports: for every content, however often attribute 12
\* repeats and whatever its values are.
THEOREM JudgedAtTheReportedDateCorrect ==
    Payload!PayloadAssumption => (Payload!Spec => []JudgedAtTheReportedDate)
<1> SUFFICES ASSUME Payload!PayloadAssumption
             PROVE  Payload!Spec => []JudgedAtTheReportedDate
    OBVIOUS
<1>1. Payload!Init => PayloadInv
    BY PayloadStarts
<1>2. PayloadInv /\ [Payload!Next]_(Payload!vars) => PayloadInv'
    BY PayloadSteps
<1>3. PayloadInv => JudgedAtTheReportedDate
    BY DEF PayloadInv, Payload!JudgedAtTheReportedDate, CreationDate, JudgedAtTheReportedDate
<1> QED
    BY <1>1, <1>2, <1>3, PTL DEF Payload!Spec

-----------------------------------------------------------------------------
(* The payload of a JWS *)

DateNames == {"signedDate", "receiptCreationDate"}
PlaceNames == {"environment", "data", "summary"}

\* Member i is the last of its name that Java's parser has passed.
LastSeen(n, i) ==
    /\ i \in 1..visited /\ claims[i].name = n
    /\ \A j \in 1..visited : claims[j].name = n => j <= i
Unseen(n) == \A i \in 1..visited : claims[i].name # n

PlaceIn(n, v) == IF n = "environment" THEN Jws!Some(v) ELSE Jws!readContainer(v, Jws!None)

\* What the parser keeps is what the last member of each name gave, or
\* nothing where no member had it.
ClaimsInv ==
    /\ claims \in ClaimPayloads /\ visited \in 0..Len(claims)
    /\ dates = [n \in DateNames |-> dates[n]]
    /\ places = [n \in PlaceNames |-> places[n]]
    /\ \A n \in DateNames :
        \/ Unseen(n) /\ dates[n] = Jws!None
        \/ \E i : LastSeen(n, i) /\ dates[n] = Jws!javaInstant(claims[i].value)
    /\ \A n \in PlaceNames :
        \/ Unseen(n) /\ places[n] = Jws!None
        \/ \E i : LastSeen(n, i) /\ places[n] = PlaceIn(n, claims[i].value)

\* The two readings of a number: a range and a clamp, or a cast that saturates.
LEMMA SameInstant ==
    ASSUME Jws!ClaimsAssumption, NEW v, Jws!IsValue(v)
    PROVE  Jws!javaInstant(v) = Jws!instant_of(v)
<1>1. MIN \in Int /\ MAX \in Nat /\ MIN < 0
    BY DEF Jws!ClaimsAssumption
<1>2. CASE v.is = "integer"
    BY <1>1, <1>2 DEF Jws!IsValue, Jws!javaInstant, Jws!instant_of
<1>3. CASE v.is = "double"
    <2> DEFINE h == v.halves
    <2>1. h \in Int
        BY <1>3 DEF Jws!IsValue
    <2>2. Jws!instant_of(v) =
            IF h \notin (2 * MIN)..(2 * MAX + 2) THEN Jws!None
            ELSE IF h >= 2 * MAX THEN Jws!Some(MAX) ELSE Jws!Some(Jws!Truncate(h))
        BY <1>3 DEF Jws!instant_of
    <2>3. Jws!javaInstant(v) =
            IF ~(h >= 2 * MIN /\ h <= 2 * (MAX + 1)) THEN Jws!None
            ELSE Jws!Some(IF Jws!Truncate(h) > MAX THEN MAX ELSE Jws!Truncate(h))
        BY <1>3 DEF Jws!javaInstant
    <2> HIDE DEF h
    <2>4. h \in (2 * MIN)..(2 * MAX + 2) <=> h >= 2 * MIN /\ h <= 2 * (MAX + 1)
        BY <1>1, <2>1
    <2>5. ASSUME h <= 2 * (MAX + 1)
          PROVE  (IF Jws!Truncate(h) > MAX THEN MAX ELSE Jws!Truncate(h)) =
                    (IF h >= 2 * MAX THEN MAX ELSE Jws!Truncate(h))
        BY <1>1, <2>1, <2>5 DEF Jws!Truncate
    <2> QED
        BY <2>2, <2>3, <2>4, <2>5
<1>4. CASE v.is \notin {"integer", "double"}
    BY <1>4 DEF Jws!javaInstant, Jws!instant_of
<1> QED
    BY <1>2, <1>3, <1>4

\* The last of a set of places is its greatest.
LEMMA LastIs ==
    ASSUME NEW S, S \subseteq Nat, NEW i \in S, \A j \in S : j <= i
    PROVE  Jws!LastOf(S) = i
<1> DEFINE l == Jws!LastOf(S)
<1>1. l \in S /\ \A j \in S : j <= l
    BY DEF Jws!LastOf
<1>2. l \in Nat /\ i \in Nat /\ l <= i /\ i <= l
    BY <1>1
<1> HIDE DEF l
<1>3. l = i
    BY <1>2
<1> QED
    BY <1>3 DEF l

\* The map the core keeps: the last value of each name.
LEMMA MembersOf ==
    ASSUME NEW o, IsASequence(o), \A i \in DOMAIN o : ~o[i].lone, NEW n
    PROVE  LET core == Jws!whole_object_members(o)
           IN /\ core # Jws!None
              /\ n \in DOMAIN core[1] <=> Jws!Named(o, n) # {}
              /\ \A i \in Jws!Named(o, n) : (\A j \in Jws!Named(o, n) : j <= i) => core[1][n] = o[i].value
<1> DEFINE names == {o[i].name : i \in DOMAIN o}
           f == [name \in names |-> o[Jws!LastOf(Jws!Named(o, name))].value]
<1>1. Jws!whole_object_members(o) = <<f>>
    BY DEF Jws!whole_object_members, Jws!Some
<1>2. n \in DOMAIN f <=> Jws!Named(o, n) # {}
    BY DEF Jws!Named
<1>3. ASSUME NEW i \in Jws!Named(o, n), \A j \in Jws!Named(o, n) : j <= i
      PROVE  f[n] = o[i].value
    <2>1. Jws!Named(o, n) \subseteq Nat
        BY DEF IsASequence, Jws!Named
    <2>2. Jws!LastOf(Jws!Named(o, n)) = i
        BY <1>3, <2>1, LastIs
    <2> QED
        BY <1>2, <1>3, <2>2
<1> HIDE DEF f
<1> QED
    BY <1>1, <1>2, <1>3 DEF Jws!None

\* A container of the core's map holds what Java reads in it as it passes.
LEMMA SameContainer ==
    ASSUME NEW v, NEW before, v.is = "object" => \A j \in DOMAIN v.members : ~v.members[j].lone
    PROVE  LET place == IF v.is = "object" THEN Jws!whole_object_members(v.members) ELSE Jws!None
           IN Jws!readContainer(v, before) =
                IF place # Jws!None /\ "environment" \in DOMAIN place[1]
                THEN Jws!Some(place[1]["environment"]) ELSE Jws!None
<1> DEFINE o == v.members
           here == "environment"
           S == Jws!Named(o, here)
           f == [name \in {o[i].name : i \in DOMAIN o} |-> o[Jws!LastOf(Jws!Named(o, name))].value]
<1>1. CASE v.is # "object"
    BY <1>1 DEF Jws!readContainer
<1>2. CASE v.is = "object"
    <2>1. Jws!whole_object_members(o) = <<f>>
        BY <1>2 DEF Jws!whole_object_members, Jws!Some
    <2>2. here \in DOMAIN f <=> S # {}
        BY DEF Jws!Named
    <2>3. here \in DOMAIN f => f[here] = o[Jws!LastOf(S)].value
        OBVIOUS
    <2>4. Jws!readContainer(v, before) = IF S = {} THEN Jws!None ELSE Jws!Some(o[Jws!LastOf(S)].value)
        BY <1>2 DEF Jws!readContainer
    <2> HIDE DEF S, f
    <2>5. <<f>> # Jws!None /\ <<f>>[1] = f
        BY DEF Jws!None
    <2>6. Jws!readContainer(v, before) = IF here \in DOMAIN f THEN Jws!Some(f[here]) ELSE Jws!None
        BY <2>2, <2>3, <2>4, Zenon
    <2> QED
        BY <1>2, <2>1, <2>5, <2>6
<1> QED
    BY <1>1, <1>2

\* No member read.
LEMMA ClaimsStart == ASSUME Jws!ClaimsAssumption, Jws!Init
                     PROVE  ClaimsInv
<1>1. claims \in ClaimPayloads /\ visited = 0 /\ Len(claims) \in Nat
    BY DEF Jws!Init, Jws!ClaimsAssumption, Jws!IsSequence
<1>2. \A n : Unseen(n)
    BY <1>1 DEF Unseen
<1>3. dates = [n \in DateNames |-> Jws!None] /\ places = [n \in PlaceNames |-> Jws!None]
    BY DEF Jws!Init, DateNames, PlaceNames
<1> QED
    BY <1>1, <1>2, <1>3 DEF ClaimsInv

\* One step per member.
LEMMA ClaimsSteps == ASSUME Jws!ClaimsAssumption, ClaimsInv, [Jws!Next]_(Jws!vars)
                     PROVE  ClaimsInv'
<1>1. CASE UNCHANGED Jws!vars
    BY <1>1 DEF Jws!vars, ClaimsInv, Unseen, LastSeen
<1>2. CASE Jws!visit
    <2>0. PICK k, m : k = visited + 1 /\ m = claims[k]
        OBVIOUS
    <2>1. visited \in Nat /\ visited' = k /\ k \in Nat /\ k \in 0..Len(claims) /\ claims' = claims
          /\ k \in 1..k
        <3>1. Len(claims) \in Nat
            BY DEF ClaimsInv, Jws!ClaimsAssumption, Jws!IsSequence
        <3> QED
            BY <1>2, <2>0, <3>1 DEF Jws!visit, ClaimsInv
    <2>2. \A j \in 1..k : j \in 1..visited \/ j = k
        BY <2>0, <2>1
    <2>3. \A j \in 1..visited : j \in 1..k /\ j <= k
        BY <2>0, <2>1
    <2>4. DOMAIN dates = DateNames /\ DOMAIN places = PlaceNames
        BY DEF ClaimsInv
    <2>5. /\ dates' = [n \in DateNames |-> IF n = m.name THEN Jws!javaInstant(m.value) ELSE dates[n]]
          /\ places' = [n \in PlaceNames |->
                          IF n # m.name THEN places[n]
                          ELSE IF n = "environment" THEN Jws!Some(m.value) ELSE Jws!readContainer(m.value, places[n])]
        BY <1>2, <2>0, <2>4, Zenon DEF Jws!visit
    <2>6. ASSUME NEW n, n # m.name
          PROVE  /\ Unseen(n) => Unseen(n)'
                 /\ \A i : LastSeen(n, i) => LastSeen(n, i)'
        <3>1. Unseen(n) => Unseen(n)'
            BY <2>0, <2>1, <2>2, <2>6 DEF Unseen
        <3>2. ASSUME NEW i, LastSeen(n, i)
              PROVE  LastSeen(n, i)'
            BY <2>0, <2>1, <2>2, <2>3, <2>6, <3>2 DEF LastSeen
        <3> QED
            BY <3>1, <3>2
    <2>7. LastSeen(m.name, k)'
        <3>1. \A j \in 1..k : j <= k
            BY <2>1
        <3> QED
            BY <2>0, <2>1, <3>1 DEF LastSeen
    <2>8. ASSUME NEW n \in DateNames
          PROVE  \/ Unseen(n)' /\ dates'[n] = Jws!None
                 \/ \E i : LastSeen(n, i)' /\ dates'[n] = Jws!javaInstant(claims[i].value)
        <3>1. CASE n = m.name
            BY <2>0, <2>5, <2>7, <3>1, Zenon
        <3>2. CASE n # m.name
            <4>1. dates'[n] = dates[n]
                BY <2>5, <3>2, Zenon
            <4> QED
                BY <2>6, <3>2, <4>1, Zenon DEF ClaimsInv
        <3> QED
            BY <3>1, <3>2
    <2>9. ASSUME NEW n \in PlaceNames
          PROVE  \/ Unseen(n)' /\ places'[n] = Jws!None
                 \/ \E i : LastSeen(n, i)' /\ places'[n] = PlaceIn(n, claims[i].value)
        <3>1. CASE n = m.name
            <4>1. Jws!readContainer(m.value, places[n]) = Jws!readContainer(m.value, Jws!None)
                BY Zenon DEF Jws!readContainer
            <4>2. places'[n] = PlaceIn(n, m.value)
                BY <2>5, <3>1, <4>1, Zenon DEF PlaceIn
            <4> QED
                BY <2>0, <2>7, <3>1, <4>2, Zenon
        <3>2. CASE n # m.name
            <4>1. places'[n] = places[n]
                BY <2>5, <3>2, Zenon
            <4> QED
                BY <2>6, <3>2, <4>1, Zenon DEF ClaimsInv
        <3> QED
            BY <3>1, <3>2
    <2>10. dates' = [n \in DateNames |-> dates'[n]] /\ places' = [n \in PlaceNames |-> places'[n]]
        BY <2>5
    <2>11. claims' \in ClaimPayloads /\ visited' \in 0..Len(claims')
        BY <2>1 DEF ClaimsInv
    <2>12. \A n, v : PlaceIn(n, v)' = PlaceIn(n, v)
        BY DEF PlaceIn
    <2> QED
        BY <2>1, <2>8, <2>9, <2>10, <2>11, Zenon DEF ClaimsInv
<1> QED
    BY <1>1, <1>2 DEF Jws!Next

\* At the end the last member that was seen is the last there is.
LEMMA ClaimsAtTheEnd ==
    ASSUME Jws!ClaimsAssumption, ClaimsInv, visited = Len(claims), \A i \in DOMAIN claims : ~claims[i].lone, NEW n
    PROVE  LET members == Jws!whole_object_members(claims)[1]
           IN /\ Unseen(n) => n \notin DOMAIN members
              /\ \A i : LastSeen(n, i) => n \in DOMAIN members /\ members[n] = claims[i].value /\ i \in DOMAIN claims
<1> DEFINE members == Jws!whole_object_members(claims)[1]
           S == Jws!Named(claims, n)
<1>1. IsASequence(claims) /\ DOMAIN claims = 1..visited
    <2>1. claims \in Seq({claims[i] : i \in DOMAIN claims})
        BY DEF ClaimsInv, Jws!ClaimsAssumption, Jws!IsSequence
    <2>2. IsASequence(claims)
        BY <2>1, Zenon DEF IsASequence
    <2>3. DOMAIN claims = 1..Len(claims)
        BY <2>1
    <2> QED
        BY <2>2, <2>3
<1>2. n \in DOMAIN members <=> S # {}
    BY <1>1, MembersOf
<1>3. \A i \in S : (\A j \in S : j <= i) => members[n] = claims[i].value
    BY <1>1, MembersOf
<1>4. Unseen(n) => S = {}
    BY <1>1 DEF Unseen, Jws!Named
<1>5. ASSUME NEW i, LastSeen(n, i)
      PROVE  i \in S /\ i \in DOMAIN claims /\ \A j \in S : j <= i
    BY <1>1, <1>5 DEF LastSeen, Jws!Named
<1> HIDE DEF members, S
<1>6. /\ Unseen(n) => n \notin DOMAIN members
      /\ \A i : LastSeen(n, i) => n \in DOMAIN members /\ members[n] = claims[i].value /\ i \in DOMAIN claims
    BY <1>2, <1>3, <1>4, <1>5
<1> QED
    BY <1>6 DEF members

\* The core and the Java implementation read one date and one environment in
\* the payload of a JWS (read_payload of jws.rs and of JwsCore.java), however
\* often a name repeats and at whatever place: for every payload and every
\* width of an instant.
THEOREM ClaimsReadAlikeCorrect == Jws!ClaimsAssumption => (Jws!Spec => []Jws!ClaimsReadAlike)
<1> SUFFICES ASSUME Jws!ClaimsAssumption
             PROVE  Jws!Spec => []Jws!ClaimsReadAlike
    OBVIOUS
<1>1. Jws!Init => ClaimsInv
    BY ClaimsStart
<1>2. ClaimsInv /\ [Jws!Next]_(Jws!vars) => ClaimsInv'
    BY ClaimsSteps
<1>3. ClaimsInv => Jws!ClaimsReadAlike
    <2> SUFFICES ASSUME ClaimsInv, visited = Len(claims)
                 PROVE  Jws!ClaimsReadAlike
        BY DEF Jws!ClaimsReadAlike
    <2> DEFINE core == Jws!whole_object_members(claims)
               members == core[1]
               lone == \E i \in DOMAIN claims :
                         claims[i].value.is = "object"
                         /\ \E j \in DOMAIN claims[i].value.members : claims[i].value.members[j].lone
    <2>1. core = Jws!None <=> \E i \in DOMAIN claims : claims[i].lone
        BY DEF Jws!whole_object_members, Jws!None, Jws!Some
    <2>2. ASSUME core # Jws!None
          PROVE  Jws!chainInstant = Jws!signed_date(members)
        <3>1. ASSUME NEW n \in DateNames
              PROVE  dates[n] = Jws!instant(members, n)
            <4>1. CASE Unseen(n) /\ dates[n] = Jws!None
                <5>1. n \notin DOMAIN members
                    BY <2>1, <2>2, <4>1, ClaimsAtTheEnd
                <5> QED
                    BY <4>1, <5>1 DEF Jws!instant
            <4>2. CASE \E i : LastSeen(n, i) /\ dates[n] = Jws!javaInstant(claims[i].value)
                <5>1. PICK i : LastSeen(n, i) /\ dates[n] = Jws!javaInstant(claims[i].value)
                    BY <4>2
                <5>2. n \in DOMAIN members /\ members[n] = claims[i].value /\ i \in DOMAIN claims
                    BY <2>1, <2>2, <5>1, ClaimsAtTheEnd
                <5>3. Jws!IsValue(claims[i].value)
                    BY <5>2 DEF ClaimsInv, Jws!ClaimsAssumption
                <5>4. Jws!javaInstant(claims[i].value) = Jws!instant_of(claims[i].value)
                    BY <5>3, SameInstant
                <5> HIDE DEF members
                <5> QED
                    BY <5>1, <5>2, <5>4, Zenon DEF Jws!instant
            <4> QED
                BY <4>1, <4>2 DEF ClaimsInv
        <3>2. "signedDate" \in DateNames /\ "receiptCreationDate" \in DateNames
            BY DEF DateNames
        <3>3. /\ dates.signedDate = Jws!instant(members, "signedDate")
              /\ dates.receiptCreationDate = Jws!instant(members, "receiptCreationDate")
            BY <3>1, <3>2
        <3> HIDE DEF members
        <3> QED
            BY <3>3, Zenon DEF Jws!chainInstant, Jws!signed_date
    <2>3. ASSUME core # Jws!None, ~lone
          PROVE  Jws!environment(members) = Jws!jwsEnvironment
        <3> DEFINE Held(place) == IF place # Jws!None /\ "environment" \in DOMAIN place[1]
                                  THEN Jws!Some(place[1]["environment"]) ELSE Jws!None
        <3>1. places["environment"] = Held(Jws!Some(members))
            <4> DEFINE n == "environment"
            <4>1. n \in PlaceNames
                BY DEF PlaceNames
            <4>2. Jws!Some(members) # Jws!None /\ Jws!Some(members)[1] = members
                <5> HIDE DEF members
                <5> QED
                    BY DEF Jws!Some, Jws!None
            <4>3. Held(Jws!Some(members)) = IF n \in DOMAIN members THEN Jws!Some(members[n]) ELSE Jws!None
                <5> HIDE DEF members
                <5> QED
                    BY <4>2
            <4>4. CASE Unseen(n) /\ places[n] = Jws!None
                <5>1. n \notin DOMAIN members
                    BY <2>1, <2>3, <4>4, ClaimsAtTheEnd
                <5> HIDE DEF members, Held
                <5> QED
                    BY <4>3, <4>4, <5>1
            <4>5. CASE \E i : LastSeen(n, i) /\ places[n] = PlaceIn(n, claims[i].value)
                <5>1. PICK i : LastSeen(n, i) /\ places[n] = PlaceIn(n, claims[i].value)
                    BY <4>5
                <5>2. n \in DOMAIN members /\ members[n] = claims[i].value
                    BY <2>1, <2>3, <5>1, ClaimsAtTheEnd
                <5>3. places[n] = Jws!Some(claims[i].value)
                    BY <5>1 DEF PlaceIn
                <5> HIDE DEF members, Held
                <5> QED
                    BY <4>3, <5>2, <5>3
            <4> QED
                BY <4>1, <4>4, <4>5 DEF ClaimsInv
        <3>2. ASSUME NEW n \in {"data", "summary"}
              PROVE  places[n] = Held(Jws!Container(members, n))
            <4>1. n \in PlaceNames
                BY DEF PlaceNames
            <4>2. CASE Unseen(n) /\ places[n] = Jws!None
                <5>1. n \notin DOMAIN members
                    BY <2>1, <2>3, <4>2, ClaimsAtTheEnd
                <5>2. Jws!Container(members, n) = Jws!None
                    BY <5>1 DEF Jws!Container
                <5> HIDE DEF members
                <5> QED
                    BY <4>2, <5>2
            <4>3. CASE \E i : LastSeen(n, i) /\ places[n] = PlaceIn(n, claims[i].value)
                <5>1. PICK i : LastSeen(n, i) /\ places[n] = PlaceIn(n, claims[i].value)
                    BY <4>3
                <5> DEFINE v == claims[i].value
                           place == IF v.is = "object" THEN Jws!whole_object_members(v.members) ELSE Jws!None
                <5>2. n \in DOMAIN members /\ members[n] = v /\ i \in DOMAIN claims
                    BY <2>1, <2>3, <5>1, ClaimsAtTheEnd
                <5>3. places[n] = Jws!readContainer(v, Jws!None)
                    BY <5>1 DEF PlaceIn
                <5>4. v.is = "object" => \A j \in DOMAIN v.members : ~v.members[j].lone
                    BY <2>3, <5>2
                <5>5. Jws!readContainer(v, Jws!None) = Held(place)
                    <6> HIDE DEF v
                    <6> QED
                        BY <5>4, SameContainer
                <5> HIDE DEF v, members
                <5>6. Jws!Container(members, n) = place
                    BY <5>2, Zenon DEF Jws!Container
                <5> HIDE DEF place, Held
                <5> QED
                    BY <5>3, <5>5, <5>6, Zenon
            <4> QED
                BY <4>1, <4>2, <4>3 DEF ClaimsInv
        <3>3. Jws!environment(members) =
                Jws!FirstOf(Held(Jws!Some(members)), Held(Jws!Container(members, "data")),
                            Held(Jws!Container(members, "summary")))
            <4> HIDE DEF members
            <4> QED
                BY Zenon DEF Jws!environment
        <3> HIDE DEF Held, members
        <3>4. /\ places.environment = Held(Jws!Some(members))
              /\ places.data = Held(Jws!Container(members, "data"))
              /\ places.summary = Held(Jws!Container(members, "summary"))
            BY <3>1, <3>2
        <3> QED
            BY <3>3, <3>4, Zenon DEF Jws!jwsEnvironment
    <2>4. ASSUME core # Jws!None, ~lone
          PROVE  Jws!JsonPayload(claims) = [json |-> claims, environment |-> Jws!jwsEnvironment]
        <3> HIDE DEF lone
        <3> QED
            BY <2>3, <2>4 DEF Jws!JsonPayload
    <2> QED
        BY <2>1, <2>2, <2>4, Zenon DEF Jws!ClaimsReadAlike
<1> QED
    BY <1>1, <1>2, <1>3, PTL DEF Jws!Spec

-----------------------------------------------------------------------------
(* How roots become anchors: Configuration *)

\* Induction over sequences: a set that holds the empty sequence and with
\* each sequence every longer one by an element holds all of them.
LEMMA AllSequences ==
    ASSUME NEW S, NEW P, <<>> \in P,
           \A s \in Seq(S), e \in S : s \in P => Append(s, e) \in P
    PROVE  \A s \in Seq(S) : s \in P
<1> DEFINE Bad == {Len(s) : s \in Seq(S) \ P}
<1> SUFFICES ASSUME Bad # {}
             PROVE  FALSE
    OBVIOUS
<1>1. Bad \subseteq Nat
    OBVIOUS
<1>2. PICK n \in Bad : \A m \in Bad : n <= m
    <2> HIDE DEF Bad
    <2> QED
        BY <1>1, LeastNat
<1>3. PICK s \in Seq(S) \ P : Len(s) = n
    BY <1>2
<1>4. PICK t \in Seq(S), e \in S : s = Append(t, e)
    BY <1>3, SequenceEmptyOrAppend
<1>5. Len(t) \in Nat /\ n = Len(t) + 1
    BY <1>3, <1>4, AppendProperties, LenProperties
<1>6. t \in P
    BY <1>2, <1>5
<1> QED
    BY <1>3, <1>4, <1>6

\* FlattenSeq as a recursion that begins with the empty sequence.
Flattens(f, q) == f[0] = <<>> /\ \A n \in 1..Len(q) : f[n] = f[n - 1] \o q[n]

\* Flattening is a recursion on the prefixes of the sequence.
LEMMA FlattenUnfolds ==
    ASSUME NEW S, NEW q \in Seq(Seq(S))
    PROVE  \E f : /\ Flattens(f, q)
                  /\ Conf!FlattenSeq(q) = f[Len(q)]
                  /\ \A n \in 0..Len(q) : f[n] \in Seq(S)
<1> DEFINE T == Seq(S)
           N == Len(q)
           step == [n \in 1..N |-> [t \in T |-> t \o q[n]]]
           empty == <<>>
<1>1. N \in Nat /\ empty \in T /\ \A n \in 1..N : q[n] \in T
    BY LenProperties
<1>2. step \in Steps(N, T)
    BY <1>1 DEF Steps
<1>3. PICK f \in [0..N -> T] : Follows(f, N, empty, step)
    <2> HIDE DEF N, T, step, empty
    <2> QED
        BY <1>1, <1>2, Recursion
<1> HIDE DEF T
<1>4. ASSUME NEW n \in 1..N
      PROVE  f[n] = f[n - 1] \o q[n]
    <2>1. n - 1 \in 0..N
        BY <1>1
    <2>2. f[n - 1] \in T
        BY <2>1, <1>3, Zenon
    <2>3. f[n] = step[n][f[n - 1]]
        BY <1>3 DEF Follows
    <2> QED
        BY <2>2, <2>3, Zenon
<1>5. f[0] = <<>>
    BY <1>3 DEF Follows
<1>6. CASE N = 0
    <2>1. q = <<>>
        BY <1>6
    <2> QED
        BY <2>1, <1>3, <1>5, <1>6 DEF Conf!FlattenSeq, Flattens, T
<1>7. CASE N # 0
    <2> DEFINE Rec(k) == k = [n \in 1..N |-> IF n = 1 THEN q[n] ELSE k[n - 1] \o q[n]]
               kept == CHOOSE k : Rec(k)
               g == [n \in 1..N |-> f[n]]
    <2>1. Conf!FlattenSeq(q) = kept[N]
        BY <1>7 DEF Conf!FlattenSeq
    <2>2. f[1] = q[1]
        <3>1. 1 \in 1..N
            BY <1>1, <1>7
        <3>2. f[1] = f[1 - 1] \o q[1]
            BY <3>1, <1>4, Zenon
        <3>3. 1 - 1 = 0
            OBVIOUS
        <3> QED
            BY <3>1, <3>2, <3>3, <1>1, <1>5, ConcatEmptySeq DEF T
    <2>3. ASSUME NEW n \in 1..N
          PROVE  g[n] = IF n = 1 THEN q[n] ELSE g[n - 1] \o q[n]
        <3>1. n # 1 => n - 1 \in 1..N
            BY <1>1
        <3> QED
            BY <3>1, <2>2, <1>4, Zenon
    <2>4. Rec(g)
        <3>1. [n \in 1..N |-> g[n]] = [n \in 1..N |-> IF n = 1 THEN q[n] ELSE g[n - 1] \o q[n]]
            BY <2>3, Zenon
        <3>2. g = [n \in 1..N |-> g[n]]
            BY Zenon
        <3> QED
            BY <3>1, <3>2, Zenon
    <2>5. Rec(kept)
        BY <2>4
    <2> HIDE DEF kept
    <2>6. \A n \in 1..N : kept[n] = IF n = 1 THEN q[n] ELSE kept[n - 1] \o q[n]
        BY <2>5, Zenon
    <2> DEFINE Same == [n \in 0..N |-> {f[n]}]
               h == [n \in 0..N |-> IF n = 0 THEN f[0] ELSE kept[n]]
    <2>7. \A n \in 0..N : h[n] \in Same[n]
        <3>1. h[0] \in Same[0]
            BY <1>1
        <3>2. ASSUME NEW n \in 1..N, h[n - 1] \in Same[n - 1]
              PROVE  h[n] \in Same[n]
            <4>1. n \in 0..N /\ n - 1 \in 0..N /\ n # 0 /\ (n # 1 => n - 1 # 0)
                BY <1>1
            <4>2. CASE n = 1
                BY <4>1, <4>2, <2>2, <2>6
            <4>3. CASE n # 1
                <5>1. kept[n - 1] = f[n - 1]
                    BY <3>2, <4>1, <4>3
                <5>2. kept[n] = f[n - 1] \o q[n]
                    BY <5>1, <2>6, <4>3
                <5> QED
                    BY <5>2, <4>1, <1>4
            <4> QED
                BY <4>2, <4>3
        <3> HIDE DEF h, Same, N
        <3> QED
            BY <1>1, <3>1, <3>2, RecursionKeeps
    <2>8. kept[N] = f[N]
        BY <2>7, <1>1, <1>7
    <2> QED
        BY <2>1, <2>8, <1>3, <1>4, <1>5 DEF Flattens, T
<1> QED
    BY <1>6, <1>7

\* FlattenSeq of the empty sequence, and of one with another appended.
LEMMA FlattenSteps ==
    ASSUME NEW S
    PROVE  /\ Conf!FlattenSeq(<<>>) = <<>>
           /\ \A q \in Seq(Seq(S)) : Conf!FlattenSeq(q) \in Seq(S)
           /\ \A q \in Seq(Seq(S)), x \in Seq(S) :
                Conf!FlattenSeq(Append(q, x)) = Conf!FlattenSeq(q) \o x
<1>1. Conf!FlattenSeq(<<>>) = <<>>
    BY DEF Conf!FlattenSeq
<1>2. ASSUME NEW q \in Seq(Seq(S))
      PROVE  Conf!FlattenSeq(q) \in Seq(S)
    BY FlattenUnfolds, LenProperties
<1>3. ASSUME NEW q \in Seq(Seq(S)), NEW x \in Seq(S)
      PROVE  Conf!FlattenSeq(Append(q, x)) = Conf!FlattenSeq(q) \o x
    <2> DEFINE p == Append(q, x)
               N == Len(q)
    <2>1. /\ p \in Seq(Seq(S)) /\ N \in Nat /\ Len(p) = N + 1
          /\ p[N + 1] = x /\ \A n \in 1..N : p[n] = q[n]
        BY AppendProperties, LenProperties
    <2>2. PICK f : Flattens(f, q) /\ Conf!FlattenSeq(q) = f[N]
        BY FlattenUnfolds
    <2> HIDE DEF p
    <2>3. PICK g : Flattens(g, p) /\ Conf!FlattenSeq(p) = g[N + 1]
        BY <2>1, FlattenUnfolds
    <2> DEFINE Same == [n \in 0..N |-> {f[n]}]
    <2>4. \A n \in 0..N : g[n] \in Same[n]
        <3>1. g[0] \in Same[0]
            BY <2>1, <2>2, <2>3 DEF Flattens
        <3>2. ASSUME NEW n \in 1..N, g[n - 1] \in Same[n - 1]
              PROVE  g[n] \in Same[n]
            <4>1. n \in 0..N /\ n - 1 \in 0..N /\ n \in 1..(N + 1)
                BY <2>1
            <4>2. g[n - 1] = f[n - 1]
                BY <3>2, <4>1
            <4>3. g[n] = g[n - 1] \o p[n] /\ f[n] = f[n - 1] \o q[n]
                BY <2>1, <2>2, <2>3, <4>1 DEF Flattens
            <4> QED
                BY <4>1, <4>2, <4>3, <2>1
        <3> HIDE DEF Same, N
        <3> QED
            BY <2>1, <3>1, <3>2, RecursionKeeps
    <2>5. g[N] = f[N]
        BY <2>1, <2>4
    <2>6. g[N + 1] = g[N] \o x
        <3>1. N + 1 \in 1..(N + 1) /\ (N + 1) - 1 = N
            BY <2>1
        <3> QED
            BY <3>1, <2>1, <2>3 DEF Flattens
    <2> QED
        BY <2>2, <2>3, <2>5, <2>6 DEF p
<1> QED
    BY <1>1, <1>2, <1>3

\* A function applied to every element of a sequence.
Maps(S, T) == [S -> T]
Mapped(f, s) == [i \in DOMAIN s |-> f[s[i]]]

\* Mapping keeps the places,
LEMMA MappedIs ==
    ASSUME NEW S, NEW T, NEW f \in Maps(S, T), NEW t \in Seq(S)
    PROVE  /\ Mapped(f, t) \in Seq(T) /\ Len(Mapped(f, t)) = Len(t)
           /\ \A i \in 1..Len(t) : Mapped(f, t)[i] = f[t[i]] /\ t[i] \in S
BY DEF Maps, Mapped

\* and commutes with appending
LEMMA MappedAppend ==
    ASSUME NEW S, NEW T, NEW f \in Maps(S, T), NEW s \in Seq(S), NEW e \in S
    PROVE  Mapped(f, Append(s, e)) = Append(Mapped(f, s), f[e]) /\ f[e] \in T
BY DEF Maps, Mapped

\* and with concatenating.
LEMMA MappedConcat ==
    ASSUME NEW S, NEW T, NEW f \in Maps(S, T), NEW s \in Seq(S), NEW t \in Seq(S)
    PROVE  Mapped(f, s \o t) = Mapped(f, s) \o Mapped(f, t)
<1> DEFINE w == s \o t
           l == Mapped(f, w)
           r == Mapped(f, s) \o Mapped(f, t)
<1>1. /\ s \o t \in Seq(S) /\ Len(s \o t) = Len(s) + Len(t) /\ Len(s) \in Nat /\ Len(t) \in Nat
      /\ \A i \in 1..(Len(s) + Len(t)) : (s \o t)[i] = IF i <= Len(s) THEN s[i] ELSE t[i - Len(s)]
    BY ConcatProperties, LenProperties
<1>2. /\ r \in Seq(T) /\ Len(r) = Len(s) + Len(t)
      /\ \A i \in 1..(Len(s) + Len(t)) :
            r[i] = IF i <= Len(s) THEN Mapped(f, s)[i] ELSE Mapped(f, t)[i - Len(s)]
    <2> DEFINE u == Mapped(f, s)
               v == Mapped(f, t)
    <2>1. u \in Seq(T) /\ v \in Seq(T) /\ Len(u) = Len(s) /\ Len(v) = Len(t)
        BY MappedIs
    <2> HIDE DEF u, v
    <2>2. /\ u \o v \in Seq(T) /\ Len(u \o v) = Len(u) + Len(v)
          /\ \A i \in 1..(Len(u) + Len(v)) : (u \o v)[i] = IF i <= Len(u) THEN u[i] ELSE v[i - Len(u)]
        BY <2>1, ConcatProperties
    <2> QED
        BY <2>1, <2>2 DEF u, v
<1>3. w \in Seq(S) /\ Len(w) = Len(s) + Len(t)
    BY <1>1
<1> HIDE DEF w
<1>4. /\ l \in Seq(T) /\ Len(l) = Len(s) + Len(t)
      /\ \A i \in 1..(Len(s) + Len(t)) : l[i] = f[w[i]]
    BY <1>3, MappedIs
<1>5. ASSUME NEW i \in 1..(Len(s) + Len(t))
      PROVE  l[i] = r[i]
    <2>1. l[i] = f[(s \o t)[i]]
        BY <1>4 DEF w
    <2>2. CASE i <= Len(s)
        <3>1. i \in 1..Len(s)
            BY <1>1, <2>2
        <3> QED
            BY <3>1, <2>1, <2>2, MappedIs, <1>1, <1>2
    <2>3. CASE ~(i <= Len(s))
        <3>1. i - Len(s) \in 1..Len(t)
            BY <1>1, <2>3
        <3> QED
            BY <3>1, <2>1, <2>3, MappedIs, <1>1, <1>2
    <2> QED
        BY <2>2, <2>3
<1> HIDE DEF l, r
<1>6. l = r
    BY <1>1, <1>2, <1>4, <1>5
<1> QED
    BY <1>6 DEF l, r, w

\* Flattening commutes with concatenating.
LEMMA FlattenConcat ==
    ASSUME NEW S, NEW p \in Seq(Seq(S)), NEW q \in Seq(Seq(S))
    PROVE  Conf!FlattenSeq(p \o q) = Conf!FlattenSeq(p) \o Conf!FlattenSeq(q)
<1> DEFINE P == {t \in Seq(Seq(S)) : Conf!FlattenSeq(p \o t) = Conf!FlattenSeq(p) \o Conf!FlattenSeq(t)}
<1>1. <<>> \in P
    <2>1. p \o <<>> = p /\ Conf!FlattenSeq(p) \o <<>> = Conf!FlattenSeq(p)
        BY FlattenSteps, ConcatEmptySeq
    <2> QED
        BY <2>1, FlattenSteps
<1>2. ASSUME NEW t \in Seq(Seq(S)), NEW x \in Seq(S), t \in P
      PROVE  Append(t, x) \in P
    <2>1. p \o Append(t, x) = Append(p \o t, x) /\ p \o t \in Seq(Seq(S)) /\ Append(t, x) \in Seq(Seq(S))
        <3> DEFINE E == Seq(S)
        <3> HIDE DEF E
        <3>1. p \o Append(t, x) = Append(p \o t, x) /\ p \o t \in Seq(E) /\ Append(t, x) \in Seq(E)
            <4>1. p \in Seq(E) /\ t \in Seq(E) /\ x \in E
                BY DEF E
            <4> QED
                BY <4>1
        <3> QED
            BY <3>1 DEF E
    <2>2. Conf!FlattenSeq(Append(p \o t, x)) = Conf!FlattenSeq(p \o t) \o x
        BY <2>1, FlattenSteps
    <2>3. Conf!FlattenSeq(Append(t, x)) = Conf!FlattenSeq(t) \o x
        BY FlattenSteps
    <2>4. (Conf!FlattenSeq(p) \o Conf!FlattenSeq(t)) \o x = Conf!FlattenSeq(p) \o (Conf!FlattenSeq(t) \o x)
        <3> DEFINE a == Conf!FlattenSeq(p)
                   b == Conf!FlattenSeq(t)
        <3>1. a \in Seq(S) /\ b \in Seq(S)
            BY FlattenSteps
        <3> HIDE DEF a, b
        <3>2. (a \o b) \o x = a \o (b \o x)
            BY <3>1, ConcatAssociative
        <3> QED
            BY <3>2 DEF a, b
    <2> QED
        BY <1>2, <2>1, <2>2, <2>3, <2>4
<1> HIDE DEF P
<1>3. \A t \in Seq(Seq(S)) : t \in P
    BY <1>1, <1>2, AllSequences
<1> QED
    BY <1>3 DEF P

\* What is applied to every element may be applied before or after.
LEMMA FlattenMapped ==
    ASSUME NEW S, NEW T, NEW f \in Maps(S, T), NEW q \in Seq(Seq(S))
    PROVE  Mapped(f, Conf!FlattenSeq(q)) = Conf!FlattenSeq([i \in DOMAIN q |-> Mapped(f, q[i])])
<1> DEFINE F == [s \in Seq(S) |-> Mapped(f, s)]
           P == {t \in Seq(Seq(S)) : Mapped(f, Conf!FlattenSeq(t)) = Conf!FlattenSeq(Mapped(F, t))}
<1>1. F \in Maps(Seq(S), Seq(T))
    BY MappedIs DEF Maps
<1> HIDE DEF F
<1>2. <<>> \in P
    <2>1. Mapped(F, <<>>) = <<>> /\ Mapped(f, <<>>) = <<>>
        BY DEF Mapped
    <2> QED
        BY <2>1, FlattenSteps
<1>3. ASSUME NEW t \in Seq(Seq(S)), NEW x \in Seq(S), t \in P
      PROVE  Append(t, x) \in P
    <2>1. Append(t, x) \in Seq(Seq(S))
        BY AppendProperties
    <2>2. Mapped(F, Append(t, x)) = Append(Mapped(F, t), F[x]) /\ Mapped(F, t) \in Seq(Seq(T)) /\ F[x] \in Seq(T)
        <3> DEFINE A == Seq(S)
                   B == Seq(T)
        <3>1. t \in Seq(A) /\ x \in A /\ F \in Maps(A, B)
            BY <1>1
        <3> HIDE DEF A, B
        <3>2. Mapped(F, Append(t, x)) = Append(Mapped(F, t), F[x]) /\ Mapped(F, t) \in Seq(B) /\ F[x] \in B
            BY <3>1, MappedIs, MappedAppend
        <3> QED
            BY <3>2 DEF B
    <2>3. Conf!FlattenSeq(Append(Mapped(F, t), F[x])) = Conf!FlattenSeq(Mapped(F, t)) \o F[x]
        BY <2>2, FlattenSteps
    <2>4. Conf!FlattenSeq(Append(t, x)) = Conf!FlattenSeq(t) \o x /\ Conf!FlattenSeq(t) \in Seq(S)
        BY FlattenSteps
    <2>5. Mapped(f, Conf!FlattenSeq(t) \o x) = Mapped(f, Conf!FlattenSeq(t)) \o Mapped(f, x)
        <3> DEFINE a == Conf!FlattenSeq(t)
        <3>1. a \in Seq(S)
            BY <2>4
        <3> HIDE DEF a
        <3>2. Mapped(f, a \o x) = Mapped(f, a) \o Mapped(f, x)
            BY <3>1, MappedIs, MappedAppend, MappedConcat
        <3> QED
            BY <3>2 DEF a
    <2>6. F[x] = Mapped(f, x)
        BY DEF F
    <2> QED
        BY <1>3, <2>1, <2>2, <2>3, <2>4, <2>5, <2>6
<1>4. Mapped(F, q) = [i \in DOMAIN q |-> Mapped(f, q[i])]
    <2>1. \A i \in DOMAIN q : q[i] \in Seq(S)
        BY LenProperties
    <2> QED
        BY <2>1, Zenon DEF Mapped, F
<1> HIDE DEF P
<1>5. \A t \in Seq(Seq(S)) : t \in P
    BY <1>2, <1>3, AllSequences
<1> QED
    BY <1>4, <1>5 DEF P

\* What reads a sequence out of every element may be applied part by part.
LEMMA FlattenNested ==
    ASSUME NEW S, NEW T, NEW f \in Maps(S, Seq(T)), NEW q \in Seq(Seq(S))
    PROVE  Conf!FlattenSeq(Mapped(f, Conf!FlattenSeq(q))) =
             Conf!FlattenSeq([i \in DOMAIN q |-> Conf!FlattenSeq(Mapped(f, q[i]))])
<1> DEFINE F == [s \in Seq(S) |-> Conf!FlattenSeq(Mapped(f, s))]
           P == {t \in Seq(Seq(S)) : Conf!FlattenSeq(Mapped(f, Conf!FlattenSeq(t))) = Conf!FlattenSeq(Mapped(F, t))}
<1>1. F \in Maps(Seq(S), Seq(T))
    <2>1. ASSUME NEW s \in Seq(S)
          PROVE  Conf!FlattenSeq(Mapped(f, s)) \in Seq(T)
        <3> DEFINE B == Seq(T)
        <3>1. f \in Maps(S, B)
            OBVIOUS
        <3> HIDE DEF B
        <3>2. Mapped(f, s) \in Seq(B)
            BY <3>1, MappedIs
        <3> QED
            BY <3>2, FlattenSteps DEF B
    <2> QED
        BY <2>1 DEF Maps
<1> HIDE DEF F
<1>2. <<>> \in P
    <2>1. Mapped(F, <<>>) = <<>> /\ Mapped(f, <<>>) = <<>>
        BY DEF Mapped
    <2> QED
        BY <2>1, FlattenSteps
<1>3. ASSUME NEW t \in Seq(Seq(S)), NEW x \in Seq(S), t \in P
      PROVE  Append(t, x) \in P
    <2>1. Append(t, x) \in Seq(Seq(S))
        BY AppendProperties
    <2>2. Mapped(F, Append(t, x)) = Append(Mapped(F, t), F[x]) /\ Mapped(F, t) \in Seq(Seq(T)) /\ F[x] \in Seq(T)
        <3> DEFINE A == Seq(S)
                   B == Seq(T)
        <3>1. t \in Seq(A) /\ x \in A /\ F \in Maps(A, B)
            BY <1>1
        <3> HIDE DEF A, B
        <3>2. Mapped(F, Append(t, x)) = Append(Mapped(F, t), F[x]) /\ Mapped(F, t) \in Seq(B) /\ F[x] \in B
            BY <3>1, MappedIs, MappedAppend
        <3> QED
            BY <3>2 DEF B
    <2>3. Conf!FlattenSeq(Append(Mapped(F, t), F[x])) = Conf!FlattenSeq(Mapped(F, t)) \o F[x]
        BY <2>2, FlattenSteps
    <2>4. Conf!FlattenSeq(Append(t, x)) = Conf!FlattenSeq(t) \o x /\ Conf!FlattenSeq(t) \in Seq(S)
        BY FlattenSteps
    <2>5. /\ Mapped(f, Conf!FlattenSeq(t) \o x) = Mapped(f, Conf!FlattenSeq(t)) \o Mapped(f, x)
          /\ Mapped(f, Conf!FlattenSeq(t)) \in Seq(Seq(T)) /\ Mapped(f, x) \in Seq(Seq(T))
        <3> DEFINE a == Conf!FlattenSeq(t)
                   B == Seq(T)
        <3>1. a \in Seq(S) /\ f \in Maps(S, B)
            BY <2>4
        <3> HIDE DEF a, B
        <3>2. /\ Mapped(f, a \o x) = Mapped(f, a) \o Mapped(f, x)
              /\ Mapped(f, a) \in Seq(B) /\ Mapped(f, x) \in Seq(B)
            BY <3>1, MappedIs, MappedAppend, MappedConcat
        <3> QED
            BY <3>2 DEF a, B
    <2>6. Conf!FlattenSeq(Mapped(f, Conf!FlattenSeq(t)) \o Mapped(f, x)) =
            Conf!FlattenSeq(Mapped(f, Conf!FlattenSeq(t))) \o Conf!FlattenSeq(Mapped(f, x))
        BY <2>5, FlattenConcat
    <2>7. F[x] = Conf!FlattenSeq(Mapped(f, x))
        BY DEF F
    <2> QED
        BY <1>3, <2>1, <2>2, <2>3, <2>4, <2>5, <2>6, <2>7
<1>4. Mapped(F, q) = [i \in DOMAIN q |-> Conf!FlattenSeq(Mapped(f, q[i]))]
    <2>1. \A i \in DOMAIN q : q[i] \in Seq(S)
        BY LenProperties
    <2>2. \A i \in DOMAIN q : F[q[i]] = Conf!FlattenSeq(Mapped(f, q[i]))
        BY <2>1, Zenon DEF F
    <2> QED
        BY <2>2, Zenon DEF Mapped
<1> HIDE DEF P
<1>5. \A t \in Seq(Seq(S)) : t \in P
    BY <1>2, <1>3, AllSequences
<1> QED
    BY <1>4, <1>5 DEF P

\* Flattening undoes wrapping each element.
LEMMA FlattenSingles ==
    ASSUME NEW S, NEW s \in Seq(S)
    PROVE  Conf!FlattenSeq([i \in DOMAIN s |-> <<s[i]>>]) = s
<1> DEFINE f == [e \in S |-> <<e>>]
           P == {t \in Seq(S) : Conf!FlattenSeq(Mapped(f, t)) = t}
<1>1. f \in Maps(S, Seq(S))
    BY DEF Maps
<1> HIDE DEF f
<1>2. <<>> \in P
    <2>1. Mapped(f, <<>>) = <<>>
        BY DEF Mapped
    <2> QED
        BY <2>1, FlattenSteps
<1>3. ASSUME NEW t \in Seq(S), NEW e \in S, t \in P
      PROVE  Append(t, e) \in P
    <2>1. Mapped(f, Append(t, e)) = Append(Mapped(f, t), f[e]) /\ Mapped(f, t) \in Seq(Seq(S)) /\ f[e] \in Seq(S)
        <3> DEFINE B == Seq(S)
        <3>1. f \in Maps(S, B)
            BY <1>1
        <3> HIDE DEF B
        <3>2. Mapped(f, Append(t, e)) = Append(Mapped(f, t), f[e]) /\ Mapped(f, t) \in Seq(B) /\ f[e] \in B
            BY <3>1, MappedIs, MappedAppend
        <3> QED
            BY <3>2 DEF B
    <2>2. Conf!FlattenSeq(Append(Mapped(f, t), f[e])) = Conf!FlattenSeq(Mapped(f, t)) \o f[e]
        BY <2>1, FlattenSteps
    <2>3. t \o f[e] = Append(t, e)
        BY AppendIsConcat DEF f
    <2> QED
        BY <1>3, <2>1, <2>2, <2>3, AppendProperties
<1>4. Mapped(f, s) = [i \in DOMAIN s |-> <<s[i]>>]
    <2>1. \A i \in DOMAIN s : f[s[i]] = <<s[i]>>
        BY DEF f
    <2> QED
        BY <2>1, Zenon DEF Mapped
<1> HIDE DEF P
<1>5. \A t \in Seq(S) : t \in P
    BY <1>2, <1>3, AllSequences
<1> QED
    BY <1>4, <1>5 DEF P

\* Flattening sequences that are not empty leaves something.
LEMMA FlattenNotEmpty ==
    ASSUME NEW S, NEW q \in Seq(Seq(S)), q # <<>>, \A i \in DOMAIN q : q[i] # <<>>
    PROVE  Conf!FlattenSeq(q) # <<>>
<1>1. PICK p \in Seq(Seq(S)), x \in Seq(S) : q = Append(p, x)
    BY SequenceEmptyOrAppend
<1>2. x # <<>>
    <2>1. Len(q) \in DOMAIN q /\ q[Len(q)] = x
        BY <1>1, AppendProperties, LenProperties
    <2> QED
        BY <2>1
<1>3. Conf!FlattenSeq(q) = Conf!FlattenSeq(p) \o x /\ Conf!FlattenSeq(p) \in Seq(S)
    BY <1>1, FlattenSteps
<1> QED
    BY <1>2, <1>3, ConcatEqualIffEmpty

\* All elements of the parts, and sequences of sequences of whatever.
Parts(q) == UNION {{q[i][j] : j \in DOMAIN q[i]} : i \in DOMAIN q}
AreSequences(q) == Conf!IsSequence(q) /\ \A i \in DOMAIN q : Conf!IsSequence(q[i])

\* The model's test for a sequence holds of every sequence,
LEMMA SequenceIs ==
    ASSUME NEW S, NEW s \in Seq(S)
    PROVE  Conf!IsSequence(s)
<1> DEFINE E == {s[i] : i \in DOMAIN s}
<1>1. Len(s) \in Nat /\ DOMAIN s = 1..Len(s) /\ s = [n \in 1..Len(s) |-> s[n]]
    OBVIOUS
<1>2. \A n \in 1..Len(s) : s[n] \in E
    BY <1>1
<1>3. [n \in 1..Len(s) |-> s[n]] \in Seq(E)
    <2> HIDE DEF E
    <2> QED
        BY <1>1, <1>2, IsASeq
<1> QED
    BY <1>1, <1>3 DEF Conf!IsSequence

\* and what passes it is a sequence over any set that holds its elements.
LEMMA SequenceOf ==
    ASSUME NEW s, Conf!IsSequence(s), NEW S, \A i \in DOMAIN s : s[i] \in S
    PROVE  s \in Seq(S) /\ Len(s) \in Nat /\ DOMAIN s = 1..Len(s)
<1> DEFINE E == {s[i] : i \in DOMAIN s}
<1>1. s \in Seq(E)
    BY DEF Conf!IsSequence
<1>2. E \subseteq S
    OBVIOUS
<1> HIDE DEF E
<1> QED
    BY <1>1, <1>2

\* The same one level up.
LEMMA SequencesOf ==
    ASSUME NEW q, AreSequences(q)
    PROVE  q \in Seq(Seq(Parts(q)))
<1>1. ASSUME NEW i \in DOMAIN q
      PROVE  q[i] \in Seq(Parts(q))
    <2>1. \A j \in DOMAIN q[i] : q[i][j] \in Parts(q)
        BY DEF Parts
    <2> QED
        BY <2>1, SequenceOf DEF AreSequences
<1> DEFINE E == Seq(Parts(q))
<1>2. \A i \in DOMAIN q : q[i] \in E
    BY <1>1
<1> HIDE DEF E
<1>3. q \in Seq(E)
    BY <1>2, SequenceOf DEF AreSequences
<1> QED
    BY <1>3 DEF E

\* A function of the indices of a sequence is a sequence.
LEMMA SequenceOver ==
    ASSUME NEW s, Conf!IsSequence(s), NEW t, DOMAIN t = DOMAIN s, t = [i \in DOMAIN s |-> t[i]]
    PROVE  Conf!IsSequence(t) /\ (t = <<>> <=> s = <<>>) /\ Len(t) = Len(s)
<1> DEFINE E == {s[i] : i \in DOMAIN s}
           T == {t[i] : i \in DOMAIN t}
<1>1. s \in Seq(E)
    BY DEF Conf!IsSequence
<1>2. \A i \in DOMAIN t : t[i] \in T
    OBVIOUS
<1> HIDE DEF E, T
<1>3. Len(s) \in Nat /\ DOMAIN s = 1..Len(s)
    BY <1>1
<1>4. [i \in 1..Len(s) |-> t[i]] \in Seq(T)
    BY <1>2, <1>3, IsASeq
<1>5. t \in Seq(T)
    BY <1>3, <1>4
<1>6. Len(t) \in Nat /\ DOMAIN t = 1..Len(t)
    BY <1>5
<1>7. Len(t) = Len(s)
    BY <1>3, <1>6
<1> QED
    BY <1>1, <1>5, <1>7, SequenceIs

\* So flattening gives a sequence.
LEMMA FlattenIs ==
    ASSUME NEW q, AreSequences(q)
    PROVE  /\ Conf!FlattenSeq(q) \in Seq(Parts(q))
           /\ Conf!IsSequence(Conf!FlattenSeq(q))
           /\ (q # <<>> /\ \A i \in DOMAIN q : q[i] # <<>>) => Conf!FlattenSeq(q) # <<>>
<1>1. Conf!FlattenSeq(q) \in Seq(Parts(q))
    BY SequencesOf, FlattenSteps
<1> QED
    BY <1>1, SequenceIs, SequencesOf, FlattenNotEmpty

\* What holds of every element of a flattened sequence holds of every
\* element of its parts.
LEMMA FlattenHolds ==
    ASSUME NEW q, AreSequences(q), NEW R,
           \A k \in DOMAIN Conf!FlattenSeq(q) : Conf!FlattenSeq(q)[k] \in R
    PROVE  \A i \in DOMAIN q : \A j \in DOMAIN q[i] : q[i][j] \in R
<1> DEFINE S == Parts(q)
           P == {t \in Seq(Seq(S)) : Conf!FlattenSeq(t) \in Seq(R) => \A i \in DOMAIN t : t[i] \in Seq(R)}
<1>1. q \in Seq(Seq(S))
    BY SequencesOf
<1> HIDE DEF S
<1>2. <<>> \in P
    OBVIOUS
<1>3. ASSUME NEW t \in Seq(Seq(S)), NEW x \in Seq(S), t \in P
      PROVE  Append(t, x) \in P
    <2> DEFINE p == Append(t, x)
               a == Conf!FlattenSeq(t)
    <2>1. /\ p \in Seq(Seq(S)) /\ DOMAIN p = 1..(Len(t) + 1) /\ Len(t) \in Nat /\ DOMAIN t = 1..Len(t)
          /\ p[Len(t) + 1] = x /\ \A i \in 1..Len(t) : p[i] = t[i]
        BY AppendProperties, LenProperties
    <2>2. Conf!FlattenSeq(p) = a \o x /\ a \in Seq(S)
        BY FlattenSteps
    <2> SUFFICES ASSUME Conf!FlattenSeq(p) \in Seq(R), NEW i \in DOMAIN p
                 PROVE  p[i] \in Seq(R)
        BY <2>1
    <2> HIDE DEF p, a
    <2>3. a \in Seq(R) /\ x \in Seq(R)
        <3> DEFINE c == a \o x
        <3>1. c \in Seq(R) /\ c \in Seq(S) /\ Len(c) = Len(a) + Len(x) /\ Len(a) \in Nat /\ Len(x) \in Nat
              /\ DOMAIN c = 1..(Len(a) + Len(x)) /\ DOMAIN a = 1..Len(a) /\ DOMAIN x = 1..Len(x)
            BY <2>2, LenProperties, ConcatProperties
        <3>2. ASSUME NEW k \in 1..(Len(a) + Len(x))
              PROVE  c[k] = IF k <= Len(a) THEN a[k] ELSE x[k - Len(a)]
            BY <2>2, ConcatProperties
        <3> HIDE DEF c
        <3>3. \A k \in DOMAIN c : c[k] \in R
            BY <3>1
        <3>4. ASSUME NEW k \in DOMAIN a
              PROVE  a[k] \in R
            <4>1. k \in 1..(Len(a) + Len(x)) /\ k <= Len(a)
                BY <3>1
            <4> QED
                BY <4>1, <3>1, <3>2, <3>3
        <3>5. ASSUME NEW k \in DOMAIN x
              PROVE  x[k] \in R
            <4>1. k + Len(a) \in 1..(Len(a) + Len(x)) /\ ~(k + Len(a) <= Len(a)) /\ (k + Len(a)) - Len(a) = k
                BY <3>1
            <4> QED
                BY <4>1, <3>1, <3>2, <3>3
        <3> QED
            BY <2>2, <3>4, <3>5, SequenceIs, SequenceOf
    <2>4. CASE i = Len(t) + 1
        BY <2>1, <2>3, <2>4
    <2>5. CASE i # Len(t) + 1
        <3>1. i \in 1..Len(t)
            BY <2>1, <2>5
        <3>2. t[i] \in Seq(R)
            BY <1>3, <2>1, <2>3, <3>1 DEF a
        <3> QED
            BY <3>1, <3>2, <2>1
    <2> QED
        BY <2>4, <2>5
<1> HIDE DEF P
<1>4. q \in P
    BY <1>1, <1>2, <1>3, AllSequences
<1>5. Conf!FlattenSeq(q) \in Seq(R)
    BY FlattenIs, SequenceOf
<1>6. \A i \in DOMAIN q : q[i] \in Seq(R)
    BY <1>4, <1>5 DEF P
<1> QED
    BY <1>6

\* The certificates of anchors, and those of entries, part by part.
LEMMA FlattenCertificates ==
    ASSUME NEW q, AreSequences(q)
    PROVE  Conf!CertificateSequence(Conf!FlattenSeq(q)) =
             Conf!FlattenSeq([i \in DOMAIN q |-> Conf!CertificateSequence(q[i])])
<1> DEFINE S == Parts(q)
           T == {b.cert : b \in S}
           f == [b \in S |-> b.cert]
<1>1. f \in Maps(S, T)
    BY DEF Maps
<1>2. q \in Seq(Seq(S)) /\ Conf!FlattenSeq(q) \in Seq(S)
    BY SequencesOf, FlattenIs
<1>3. ASSUME NEW s \in Seq(S)
      PROVE  Mapped(f, s) = Conf!CertificateSequence(s)
    <2>1. \A i \in DOMAIN s : f[s[i]] = s[i].cert
        <3> HIDE DEF S
        <3> QED
            OBVIOUS
    <2> QED
        BY <2>1, Zenon DEF Mapped, Conf!CertificateSequence
<1> HIDE DEF S, T, f
<1>4. Mapped(f, Conf!FlattenSeq(q)) = Conf!FlattenSeq([i \in DOMAIN q |-> Mapped(f, q[i])])
    BY <1>1, <1>2, FlattenMapped
<1>5. \A i \in DOMAIN q : q[i] \in Seq(S)
    BY <1>2, LenProperties
<1>6. [i \in DOMAIN q |-> Mapped(f, q[i])] = [i \in DOMAIN q |-> Conf!CertificateSequence(q[i])]
    BY <1>3, <1>5, Zenon
<1> QED
    BY <1>2, <1>3, <1>4, <1>6

AllIn(s) == Conf!FlattenSeq([i \in DOMAIN s |-> Conf!CertificatesIn(s[i])])

\* The certificates in a list of lists of files are those in the flattened list.
LEMMA FlattenAllIn ==
    ASSUME NEW q, AreSequences(q),
           \A i \in DOMAIN q : \A j \in DOMAIN q[i] : Conf!IsSequence(Conf!CertificatesIn(q[i][j]))
    PROVE  AllIn(Conf!FlattenSeq(q)) = Conf!FlattenSeq([i \in DOMAIN q |-> AllIn(q[i])])
<1> DEFINE S == Parts(q)
           T == UNION {{Conf!CertificatesIn(b)[k] : k \in DOMAIN Conf!CertificatesIn(b)} : b \in S}
           f == [b \in S |-> Conf!CertificatesIn(b)]
<1>1. f \in Maps(S, Seq(T))
    <2>1. ASSUME NEW b \in S
          PROVE  Conf!CertificatesIn(b) \in Seq(T)
        <3>1. Conf!IsSequence(Conf!CertificatesIn(b))
            BY DEF Parts
        <3>2. \A k \in DOMAIN Conf!CertificatesIn(b) : Conf!CertificatesIn(b)[k] \in T
            OBVIOUS
        <3> HIDE DEF T
        <3> QED
            BY <3>1, <3>2, SequenceOf
    <2> HIDE DEF T, S
    <2> QED
        BY <2>1 DEF Maps
<1>2. q \in Seq(Seq(S)) /\ Conf!FlattenSeq(q) \in Seq(S)
    BY SequencesOf, FlattenIs
<1>3. ASSUME NEW s \in Seq(S)
      PROVE  Conf!FlattenSeq(Mapped(f, s)) = AllIn(s)
    <2>1. \A i \in DOMAIN s : f[s[i]] = Conf!CertificatesIn(s[i])
        <3> HIDE DEF S
        <3> QED
            OBVIOUS
    <2>2. Mapped(f, s) = [i \in DOMAIN s |-> Conf!CertificatesIn(s[i])]
        BY <2>1, Zenon DEF Mapped
    <2> QED
        BY <2>2, Zenon DEF AllIn
<1> HIDE DEF S, T, f
<1>4. Conf!FlattenSeq(Mapped(f, Conf!FlattenSeq(q))) =
        Conf!FlattenSeq([i \in DOMAIN q |-> Conf!FlattenSeq(Mapped(f, q[i]))])
    BY <1>1, <1>2, FlattenNested
<1>5. \A i \in DOMAIN q : q[i] \in Seq(S)
    BY <1>2, LenProperties
<1>6. [i \in DOMAIN q |-> Conf!FlattenSeq(Mapped(f, q[i]))] = [i \in DOMAIN q |-> AllIn(q[i])]
    BY <1>3, <1>5, Zenon
<1> QED
    BY <1>2, <1>3, <1>4, <1>6

\* One list flattens to itself.
LEMMA FlattenOne ==
    ASSUME NEW x, Conf!IsSequence(x)
    PROVE  Conf!FlattenSeq(<<x>>) = x
<1> DEFINE S == {x[i] : i \in DOMAIN x}
<1>1. x \in Seq(S)
    BY DEF Conf!IsSequence
<1> HIDE DEF S
<1> DEFINE E == Seq(S)
           none == <<>>
<1>2. none \in Seq(E) /\ Append(none, x) = <<x>>
    OBVIOUS
<1>3. Conf!FlattenSeq(Append(none, x)) = Conf!FlattenSeq(none) \o x
    BY <1>1, <1>2, FlattenSteps
<1>4. Conf!FlattenSeq(none) \o x = x
    BY <1>1, FlattenSteps, ConcatEmptySeq
<1> QED
    BY <1>2, <1>3, <1>4

\* The certificates of one file.
LEMMA AllInOne ==
    ASSUME NEW b, Conf!IsSequence(Conf!CertificatesIn(b))
    PROVE  AllIn(<<b>>) = Conf!CertificatesIn(b)
<1> DEFINE c == Conf!CertificatesIn(b)
<1>1. [i \in DOMAIN <<b>> |-> Conf!CertificatesIn(<<b>>[i])] = <<c>>
    OBVIOUS
<1> QED
    BY <1>1, FlattenOne DEF AllIn

\* Gathered fails as soon as one of its results did.
LEMMA GatheredIs ==
    ASSUME NEW results
    PROVE  LET all == Conf!Gathered(results) IN
           /\ all.ok => \A i \in DOMAIN results : results[i].ok
           /\ all.ok => all.roots = Conf!FlattenSeq([i \in DOMAIN results |-> results[i].roots])
           /\ ~all.ok => all.roots = <<>>
           /\ all.ok \in BOOLEAN
           /\ (\A i \in DOMAIN results : results[i].ok) => all.ok
BY DEF Conf!Gathered, Conf!Accepted, Conf!Refused

Reads(b) == Conf!from_der_or_pem(b).ok
ReadOf(b) == Conf!from_der_or_pem(b).roots

\* An anchor is one certificate, by itself and as DER.
Anchorable(c) == c.cert \in Readable /\ c.form = "der"

\* One entry, through from_der_or_pem: what it adds to the anchors is what a
\* human reads in it, and no certificate block of it holds anything but DER.
LEMMA EntryRead ==
    ASSUME NEW b, Conf!IsText(b), Reads(b)
    PROVE  /\ Conf!IsSequence(ReadOf(b)) /\ ReadOf(b) # <<>>
           /\ Conf!CertificateSequence(ReadOf(b)) = Conf!CertificatesIn(b)
           /\ \A i \in DOMAIN ReadOf(b) : Anchorable(ReadOf(b)[i])
           /\ Conf!IsSequence(Conf!CertificatesIn(b))
           /\ b.form \in {"der", "pem"}
           /\ b.form = "der" => ReadOf(b) = <<b>>
           /\ b.form = "pem" => \A i \in DOMAIN b.items :
                Conf!IsCertificateBlock(b.items[i]) => b.items[i].kind = "block" /\ b.items[i].bytes.form = "der"
<1>1. CASE b.form = "der"
    <2>1. Conf!from_der_or_pem(b) = Conf!from_der(b)
        BY <1>1 DEF Conf!from_der_or_pem
    <2>2. Conf!Certificate_from_der(b) /\ ReadOf(b) = <<b>>
        BY <2>1 DEF Reads, ReadOf, Conf!from_der, Conf!Accepted, Conf!Refused
    <2>3. b.cert \in Readable
        BY <2>2 DEF Conf!Certificate_from_der
    <2>4. Conf!CertificatesIn(b) = <<b.cert>>
        BY <1>1 DEF Conf!CertificatesIn
    <2>5. Conf!CertificateSequence(<<b>>) = <<b.cert>>
        BY DEF Conf!CertificateSequence
    <2>6. Conf!IsSequence(<<b>>) /\ Conf!IsSequence(<<b.cert>>)
        <3>1. <<b>> \in Seq({b}) /\ <<b.cert>> \in Seq({b.cert})
            OBVIOUS
        <3> QED
            BY <3>1, SequenceIs
    <2> QED
        BY <1>1, <2>2, <2>3, <2>4, <2>5, <2>6 DEF Anchorable
<1>2. CASE b.form = "pem"
    <2> DEFINE items == b.items
               r == [i \in DOMAIN items |-> IF Conf!IsCertificateBlock(items[i])
                                            THEN Conf!BlockCertificate(items[i]) ELSE Conf!Accepted(<<>>)]
               q == [i \in DOMAIN r |-> r[i].roots]
    <2>1. Conf!from_der_or_pem(b) = Conf!all_from_pem(b) /\ Conf!all_from_pem(b).roots # <<>>
        BY <1>2 DEF Reads, Conf!from_der_or_pem, Conf!Refused
    <2>2. Conf!all_from_pem(b) = Conf!Gathered(r)
        BY DEF Conf!all_from_pem
    <2>3. ReadOf(b) = Conf!FlattenSeq(q) /\ \A i \in DOMAIN r : r[i].ok
        <3> HIDE DEF r
        <3> QED
            BY <2>1, <2>2, GatheredIs DEF Reads, ReadOf
    <2>4. ASSUME NEW i \in DOMAIN items
          PROVE  /\ Conf!IsCertificateBlock(items[i]) =>
                       /\ items[i].kind = "block" /\ items[i].bytes.form = "der"
                       /\ items[i].bytes.cert \in Readable
                       /\ q[i] = <<Conf!Der(items[i].bytes.cert)>>
                 /\ ~Conf!IsCertificateBlock(items[i]) => q[i] = <<>>
        <3>1. r[i].ok /\ q[i] = r[i].roots
            BY <2>3
        <3>2. CASE Conf!IsCertificateBlock(items[i])
            BY <3>1, <3>2 DEF Conf!BlockCertificate, Conf!from_der, Conf!Certificate_from_der, Conf!Der,
                              Conf!Accepted, Conf!Refused
        <3>3. CASE ~Conf!IsCertificateBlock(items[i])
            BY <3>1, <3>3 DEF Conf!Accepted
        <3> QED
            BY <3>2, <3>3
    <2>5. ASSUME NEW i \in DOMAIN items
          PROVE  Conf!InBlock(items[i]) =
                   IF Conf!IsCertificateBlock(items[i]) THEN <<items[i].bytes.cert>> ELSE <<>>
        BY <2>4 DEF Conf!InBlock, Conf!IsCertificateOf, Conf!IsCertificateBlock
    <2>6. Conf!IsSequence(items) /\ DOMAIN q = DOMAIN items
        BY <1>2 DEF Conf!IsText
    <2> HIDE DEF q, items
    <2>7. q = [i \in DOMAIN items |-> q[i]]
        BY DEF q
    <2>8. ASSUME NEW i \in DOMAIN items
          PROVE  /\ q[i] \in Seq({c \in {Conf!Der(items[i].bytes.cert)} : Anchorable(c)})
                 /\ Conf!CertificateSequence(q[i]) = Conf!InBlock(items[i])
        <3> DEFINE c == items[i].bytes.cert
        <3>1. CASE Conf!IsCertificateBlock(items[i])
            <4>1. q[i] = <<Conf!Der(c)>> /\ Conf!Der(c).cert = c /\ Anchorable(Conf!Der(c))
                BY <2>4, <3>1 DEF Conf!Der, Anchorable
            <4>2. Conf!InBlock(items[i]) = <<c>>
                BY <2>5, <3>1
            <4> HIDE DEF c
            <4>3. Conf!CertificateSequence(<<Conf!Der(c)>>) = <<Conf!Der(c).cert>>
                BY DEF Conf!CertificateSequence
            <4>4. <<Conf!Der(c)>> \in Seq({d \in {Conf!Der(c)} : Anchorable(d)})
                BY <4>1
            <4> QED
                BY <4>1, <4>2, <4>3, <4>4 DEF c
        <3>2. CASE ~Conf!IsCertificateBlock(items[i])
            <4>1. q[i] = <<>> /\ Conf!InBlock(items[i]) = <<>>
                BY <2>4, <2>5, <3>2
            <4>2. Conf!CertificateSequence(<<>>) = <<>>
                BY DEF Conf!CertificateSequence
            <4> QED
                BY <4>1, <4>2, EmptySeq
        <3> QED
            BY <3>1, <3>2
    <2>9. AreSequences(q)
        BY <2>6, <2>7, <2>8, SequenceOver, SequenceIs DEF AreSequences
    <2>10. Conf!CertificateSequence(ReadOf(b)) = Conf!CertificatesIn(b)
        <3>1. [i \in DOMAIN q |-> Conf!CertificateSequence(q[i])] = [i \in DOMAIN items |-> Conf!InBlock(items[i])]
            BY <2>6, <2>8
        <3>2. Conf!CertificatesIn(b) = Conf!FlattenSeq([i \in DOMAIN items |-> Conf!InBlock(items[i])])
            BY <1>2 DEF Conf!CertificatesIn, Conf!InPem, items
        <3> QED
            BY <2>3, <2>9, <3>1, <3>2, FlattenCertificates DEF q
    <2>11. Conf!IsSequence(ReadOf(b)) /\ ReadOf(b) # <<>>
        BY <2>1, <2>3, <2>9, FlattenIs DEF ReadOf, q
    <2>12. ASSUME NEW k \in DOMAIN ReadOf(b)
           PROVE  Anchorable(ReadOf(b)[k])
        <3>1. ReadOf(b) \in Seq(Parts(q))
            BY <2>3, <2>9, FlattenIs DEF q
        <3>2. ReadOf(b)[k] \in Parts(q)
            BY <3>1
        <3>3. PICK i \in DOMAIN q : \E j \in DOMAIN q[i] : ReadOf(b)[k] = q[i][j]
            BY <3>2 DEF Parts
        <3> DEFINE D == {c \in {Conf!Der(items[i].bytes.cert)} : Anchorable(c)}
        <3>4. q[i] \in Seq(D) /\ \A c \in D : Anchorable(c)
            BY <2>6, <2>8, <3>3
        <3> HIDE DEF D
        <3>5. ReadOf(b)[k] \in D
            BY <3>3, <3>4
        <3> QED
            BY <3>3, <3>4, <3>5
    <2>13. Conf!IsSequence(Conf!CertificatesIn(b))
        <3> DEFINE a == ReadOf(b)
                   c == Conf!CertificateSequence(a)
        <3>1. Conf!IsSequence(a)
            BY <2>11
        <3>2. DOMAIN c = DOMAIN a /\ c = [i \in DOMAIN a |-> c[i]]
            BY DEF Conf!CertificateSequence
        <3> HIDE DEF a, c
        <3>3. Conf!IsSequence(c)
            BY <3>1, <3>2, SequenceOver
        <3> QED
            BY <3>3, <2>10 DEF a, c
    <2> QED
        BY <1>2, <2>4, <2>10, <2>11, <2>12, <2>13 DEF items
<1>3. CASE b.form \notin {"der", "pem"}
    BY <1>3 DEF Reads, Conf!from_der_or_pem, Conf!Refused
<1> QED
    BY <1>1, <1>2, <1>3

\* The PEM text inside a block, which the server keeps as it is and the
\* module reads later.
LEMMA BlockRead ==
    ASSUME NEW item, item.kind = "block", item.tag = "CERTIFICATE", Conf!IsText(item.bytes), Reads(item.bytes)
    PROVE  Conf!CertificatesIn(item.bytes) = Conf!InBlock(item)
<1> DEFINE b == item.bytes
           Inner(x) == IF Conf!IsCertificateOf(x, "der") THEN <<x.bytes.cert>> ELSE <<>>
<1>1. CASE b.form = "der"
    <2>1. Conf!CertificatesIn(b) = <<b.cert>>
        BY <1>1 DEF Conf!CertificatesIn
    <2> QED
        BY <1>1, <2>1 DEF Conf!InBlock, Conf!IsCertificateOf
<1>2. CASE b.form = "pem"
    <2>1. Conf!IsCertificateOf(item, "pem")
        BY <1>2 DEF Conf!IsCertificateOf
    <2>2. Conf!InBlock(item) = Conf!FlattenSeq([i \in DOMAIN b.items |-> Inner(b.items[i])])
        BY <2>1 DEF Conf!InBlock
    <2>3. Conf!CertificatesIn(b) = Conf!FlattenSeq([i \in DOMAIN b.items |-> Conf!InBlock(b.items[i])])
        BY <1>2 DEF Conf!CertificatesIn, Conf!InPem
    <2>4. ASSUME NEW i \in DOMAIN b.items
          PROVE  Conf!InBlock(b.items[i]) = Inner(b.items[i])
        <3>1. ~Conf!IsCertificateOf(b.items[i], "pem")
            BY <1>2, EntryRead DEF Conf!IsCertificateOf, Conf!IsCertificateBlock
        <3> QED
            BY <3>1 DEF Conf!InBlock
    <2>5. [i \in DOMAIN b.items |-> Inner(b.items[i])] = [i \in DOMAIN b.items |-> Conf!InBlock(b.items[i])]
        <3> HIDE DEF Inner
        <3> QED
            BY <2>4
    <2> QED
        BY <2>2, <2>3, <2>5
<1> QED
    BY <1>1, <1>2, EntryRead

AllRead(s) == \A i \in DOMAIN s : Conf!IsText(s[i]) /\ Reads(s[i])

\* What the server takes out of base64 bytes (root) names what is in them.
LEMMA RootRead ==
    ASSUME NEW b, Conf!IsText(b), \A c \in Conf!Inside(b) : Conf!IsText(c), Conf!root(b).ok
    PROVE  LET r == Conf!root(b).roots IN
           /\ Conf!IsSequence(r) /\ r # <<>> /\ \A i \in DOMAIN r : Conf!IsText(r[i])
           /\ AllRead(r) => AllIn(r) = Conf!CertificatesIn(b)
<1> DEFINE r == Conf!root(b).roots
<1>1. CASE b.form # "pem"
    <2>1. r = <<b>>
        BY <1>1 DEF Conf!root, Conf!Refused, Conf!Accepted
    <2>2. Conf!IsSequence(<<b>>)
        <3>1. <<b>> \in Seq({b})
            OBVIOUS
        <3> QED
            BY <3>1, SequenceIs
    <2>3. AllRead(<<b>>) => AllIn(<<b>>) = Conf!CertificatesIn(b)
        BY AllInOne, EntryRead DEF AllRead
    <2> QED
        BY <2>1, <2>2, <2>3
<1>2. CASE b.form = "pem"
    <2> DEFINE items == b.items
               res == [i \in DOMAIN items |-> Conf!block_root(items[i])]
               s == [i \in DOMAIN items |-> items[i].bytes]
    <2>1. Conf!root(b) = Conf!Gathered(res)
        BY <1>2 DEF Conf!root
    <2>2. (\A i \in DOMAIN res : res[i].ok) /\ r = Conf!FlattenSeq([i \in DOMAIN res |-> res[i].roots])
        <3> HIDE DEF res
        <3> QED
            BY <2>1, GatheredIs
    <2>3. ASSUME NEW i \in DOMAIN items
          PROVE  /\ items[i].kind = "block" /\ items[i].tag = "CERTIFICATE"
                 /\ res[i].roots = <<items[i].bytes>> /\ Conf!IsText(items[i].bytes)
        <3>1. res[i] = Conf!block_root(items[i]) /\ res[i].ok
            BY <2>2
        <3>2. /\ items[i].kind = "block" /\ items[i].tag = "CERTIFICATE"
              /\ res[i].roots = <<items[i].bytes>>
            BY <3>1 DEF Conf!block_root, Conf!certificate, Conf!Accepted, Conf!Refused
        <3>3. items[i].bytes \in Conf!Inside(b)
            BY <1>2, <3>2 DEF Conf!Inside
        <3> QED
            BY <3>2, <3>3
    <2>4. Conf!IsSequence(items) /\ items # <<>>
        BY <1>2 DEF Conf!IsText
    <2>5. DOMAIN s = DOMAIN items /\ s = [i \in DOMAIN items |-> s[i]] /\ \A i \in DOMAIN items : s[i] = items[i].bytes
        OBVIOUS
    <2>6. [i \in DOMAIN res |-> res[i].roots] = [i \in DOMAIN s |-> <<s[i]>>]
        BY <2>3, <2>5
    <2> HIDE DEF s, items, res
    <2>7. Conf!IsSequence(s) /\ s # <<>>
        BY <2>4, <2>5, SequenceOver
    <2>8. r = s
        <3> DEFINE E == {s[i] : i \in DOMAIN s}
        <3>1. s \in Seq(E)
            BY <2>7 DEF Conf!IsSequence
        <3> HIDE DEF E
        <3> QED
            BY <2>2, <2>6, <3>1, FlattenSingles
    <2>9. ASSUME AllRead(s)
          PROVE  AllIn(s) = Conf!CertificatesIn(b)
        <3>1. \A i \in DOMAIN items : Conf!CertificatesIn(s[i]) = Conf!InBlock(items[i])
            BY <2>3, <2>5, <2>9, BlockRead DEF AllRead
        <3>2. [i \in DOMAIN s |-> Conf!CertificatesIn(s[i])] = [i \in DOMAIN items |-> Conf!InBlock(items[i])]
            BY <3>1, <2>5
        <3>3. Conf!CertificatesIn(b) = Conf!FlattenSeq([i \in DOMAIN items |-> Conf!InBlock(items[i])])
            BY <1>2 DEF Conf!CertificatesIn, Conf!InPem, items
        <3> QED
            BY <3>2, <3>3 DEF AllIn
    <2>10. \A i \in DOMAIN s : Conf!IsText(s[i])
        BY <2>3, <2>5
    <2> QED
        BY <2>7, <2>8, <2>9, <2>10
<1> QED
    BY <1>1, <1>2

\* One line or block of a roots file.
LEMMA LineRead ==
    ASSUME NEW item, Conf!line_roots(item).ok,
           item.kind \in {"block", "line"} =>
               Conf!IsText(item.bytes) /\ \A d \in Conf!Inside(item.bytes) : Conf!IsText(d)
    PROVE  LET r == Conf!line_roots(item).roots IN
           /\ Conf!IsSequence(r) /\ \A i \in DOMAIN r : Conf!IsText(r[i])
           /\ AllRead(r) => AllIn(r) = Conf!InLine(item)
<1> DEFINE r == Conf!line_roots(item).roots
<1>1. CASE item.kind = "block"
    <2>1. item.tag = "CERTIFICATE" /\ r = <<item.bytes>>
        BY <1>1 DEF Conf!line_roots, Conf!certificate, Conf!Accepted, Conf!Refused
    <2>2. Conf!InLine(item) = Conf!InBlock(item)
        BY <1>1 DEF Conf!InLine
    <2>3. Conf!IsSequence(<<item.bytes>>)
        <3> DEFINE b == item.bytes
        <3>1. <<b>> \in Seq({b})
            <4> HIDE DEF b
            <4> QED
                OBVIOUS
        <3> QED
            BY <3>1, SequenceIs
    <2>4. AllRead(<<item.bytes>>) => AllIn(<<item.bytes>>) = Conf!InBlock(item)
        BY <1>1, <2>1, BlockRead, AllInOne, EntryRead DEF AllRead
    <2> QED
        BY <1>1, <2>1, <2>2, <2>3, <2>4
<1>2. CASE item.kind = "line"
    <2> DEFINE b == item.bytes
    <2>1. Conf!line_roots(item) = Conf!root(b)
        BY <1>2 DEF Conf!line_roots
    <2>2. /\ Conf!IsSequence(r) /\ r # <<>> /\ \A i \in DOMAIN r : Conf!IsText(r[i])
          /\ AllRead(r) => AllIn(r) = Conf!CertificatesIn(b)
        BY <1>2, <2>1, RootRead
    <2>3. ASSUME b.form \in {"der", "pem"}
          PROVE  Conf!InLine(item) = Conf!CertificatesIn(b)
        BY <1>2, <2>3 DEF Conf!InLine, Conf!CertificatesIn
    <2>4. ASSUME AllRead(r)
          PROVE  b.form \in {"der", "pem"}
        <3>1. CASE b.form # "pem"
            <4>1. r = <<b>>
                BY <2>1, <3>1 DEF Conf!root, Conf!Refused, Conf!Accepted
            <4> QED
                BY <2>4, <4>1, EntryRead DEF AllRead
        <3> QED
            BY <3>1
    <2> QED
        BY <2>2, <2>3, <2>4
<1>3. CASE item.kind = "comment"
    <2>1. r = <<>>
        BY <1>3 DEF Conf!line_roots, Conf!Accepted
    <2>2. Conf!InLine(item) = <<>>
        BY <1>3 DEF Conf!InLine, Conf!InBlock, Conf!IsCertificateOf
    <2>3. AllIn(<<>>) = <<>>
        <3>1. [i \in DOMAIN <<>> |-> Conf!CertificatesIn(<<>>[i])] = <<>>
            OBVIOUS
        <3> QED
            BY <3>1, FlattenSteps DEF AllIn
    <2>4. Conf!IsSequence(<<>>)
        BY EmptySeq, SequenceIs
    <2> QED
        BY <2>1, <2>2, <2>3, <2>4
<1>4. CASE item.kind \notin {"block", "line", "comment"}
    BY <1>4 DEF Conf!line_roots, Conf!Refused
<1> QED
    BY <1>1, <1>2, <1>3, <1>4

\* Several results put together, each of which names what is wanted of it.
LEMMA GatheredRead ==
    ASSUME NEW s, Conf!IsSequence(s), NEW res, NEW want,
           DOMAIN res = DOMAIN s, res = [i \in DOMAIN s |-> res[i]], Conf!Gathered(res).ok,
           \A i \in DOMAIN s : res[i].ok =>
             /\ Conf!IsSequence(res[i].roots) /\ \A j \in DOMAIN res[i].roots : Conf!IsText(res[i].roots[j])
             /\ AllRead(res[i].roots) => AllIn(res[i].roots) = want[i]
    PROVE  LET r == Conf!Gathered(res).roots IN
           /\ Conf!IsSequence(r) /\ \A i \in DOMAIN r : Conf!IsText(r[i])
           /\ AllRead(r) => AllIn(r) = Conf!FlattenSeq([i \in DOMAIN s |-> want[i]])
           /\ (s # <<>> /\ \A i \in DOMAIN s : res[i].ok => res[i].roots # <<>>) => r # <<>>
<1> DEFINE q == [i \in DOMAIN res |-> res[i].roots]
           r == Conf!Gathered(res).roots
<1>1. (\A i \in DOMAIN s : res[i].ok) /\ r = Conf!FlattenSeq(q)
    BY GatheredIs
<1>2. DOMAIN q = DOMAIN s /\ q = [i \in DOMAIN s |-> q[i]] /\ \A i \in DOMAIN s : q[i] = res[i].roots
    OBVIOUS
<1> HIDE DEF q
<1>3. AreSequences(q) /\ (q = <<>> <=> s = <<>>)
    BY <1>1, <1>2, SequenceOver DEF AreSequences
<1>4. Conf!IsSequence(r) /\ r \in Seq(Parts(q))
    BY <1>1, <1>3, FlattenIs
<1>5. ASSUME NEW k \in DOMAIN r
      PROVE  Conf!IsText(r[k])
    <2>1. r[k] \in Parts(q)
        BY <1>4
    <2> QED
        BY <2>1, <1>1, <1>2 DEF Parts
<1>6. ASSUME AllRead(r)
      PROVE  AllIn(r) = Conf!FlattenSeq([i \in DOMAIN s |-> want[i]])
    <2> DEFINE R == {c \in Parts(q) : Conf!IsText(c) /\ Reads(c)}
    <2>1. \A k \in DOMAIN Conf!FlattenSeq(q) : Conf!FlattenSeq(q)[k] \in R
        <3>1. \A k \in DOMAIN r : r[k] \in Parts(q)
            BY <1>4
        <3> QED
            BY <1>1, <1>6, <3>1 DEF AllRead
    <2> HIDE DEF R
    <2>2. \A i \in DOMAIN q : \A j \in DOMAIN q[i] : q[i][j] \in R
        BY <1>3, <2>1, FlattenHolds
    <2>3. \A i \in DOMAIN q : AllRead(q[i])
        BY <2>2 DEF R, AllRead
    <2>4. \A i \in DOMAIN q : \A j \in DOMAIN q[i] : Conf!IsSequence(Conf!CertificatesIn(q[i][j]))
        BY <2>3, EntryRead DEF AllRead
    <2>5. AllIn(r) = Conf!FlattenSeq([i \in DOMAIN q |-> AllIn(q[i])])
        BY <1>1, <1>3, <2>4, FlattenAllIn
    <2>6. \A i \in DOMAIN s : AllIn(q[i]) = want[i]
        BY <1>1, <1>2, <2>3
    <2>7. [i \in DOMAIN q |-> AllIn(q[i])] = [i \in DOMAIN s |-> want[i]]
        BY <1>2, <2>6
    <2> QED
        BY <2>5, <2>7
<1>7. ASSUME s # <<>>, \A i \in DOMAIN s : res[i].ok => res[i].roots # <<>>
      PROVE  r # <<>>
    BY <1>1, <1>2, <1>3, <1>7, FlattenIs
<1> QED
    BY <1>4, <1>5, <1>6, <1>7

\* A roots file.
LEMMA FileRead ==
    ASSUME NEW f, Conf!IsBytes(f), Conf!from_file(f).ok
    PROVE  LET r == Conf!from_file(f).roots IN
           /\ Conf!IsSequence(r) /\ r # <<>> /\ \A i \in DOMAIN r : Conf!IsText(r[i])
           /\ AllRead(r) => AllIn(r) = Conf!CertificatesIn(f)
<1> DEFINE r == Conf!from_file(f).roots
<1>1. CASE f.form = "der"
    <2>1. r = <<f>>
        BY <1>1 DEF Conf!from_file, Conf!Accepted
    <2>2. Conf!IsSequence(<<f>>)
        <3>1. <<f>> \in Seq({f})
            OBVIOUS
        <3> QED
            BY <3>1, SequenceIs
    <2>3. AllRead(<<f>>) => AllIn(<<f>>) = Conf!CertificatesIn(f)
        BY AllInOne, EntryRead DEF AllRead
    <2> QED
        BY <2>1, <2>2, <2>3 DEF Conf!IsBytes
<1>2. CASE f.form = "text"
    <2> DEFINE items == f.items
               res == [i \in DOMAIN items |-> Conf!line_roots(items[i])]
               want == [i \in DOMAIN items |-> Conf!InLine(items[i])]
    <2>1. Conf!from_file(f) = Conf!Gathered(res) /\ r # <<>>
        BY <1>2 DEF Conf!from_file, Conf!from_file_text, Conf!Refused
    <2>2. Conf!IsSequence(items)
        BY <1>2 DEF Conf!IsBytes, Conf!IsText
    <2>3. ASSUME NEW i \in DOMAIN items, Conf!line_roots(items[i]).ok
          PROVE  LET l == Conf!line_roots(items[i]).roots IN
                 /\ Conf!IsSequence(l) /\ \A j \in DOMAIN l : Conf!IsText(l[j])
                 /\ AllRead(l) => AllIn(l) = Conf!InLine(items[i])
        <3>1. ASSUME items[i].kind \in {"block", "line"}
              PROVE  Conf!IsText(items[i].bytes) /\ \A d \in Conf!Inside(items[i].bytes) : Conf!IsText(d)
            <4>1. items[i].bytes \in Conf!Inside(f)
                BY <1>2, <3>1 DEF Conf!Inside
            <4> QED
                BY <4>1 DEF Conf!IsBytes
        <3> QED
            BY <2>3, <3>1, LineRead
    <2>4. DOMAIN res = DOMAIN items /\ res = [i \in DOMAIN items |-> res[i]] /\ \A i \in DOMAIN items :
              res[i] = Conf!line_roots(items[i]) /\ want[i] = Conf!InLine(items[i])
        OBVIOUS
    <2>5. Conf!CertificatesIn(f) = Conf!FlattenSeq([i \in DOMAIN items |-> want[i]])
        <3>1. [i \in DOMAIN items |-> want[i]] = [i \in DOMAIN items |-> Conf!InLine(items[i])]
            OBVIOUS
        <3> QED
            BY <1>2, <3>1 DEF Conf!CertificatesIn
    <2> HIDE DEF items, res, want
    <2>6. /\ Conf!IsSequence(r) /\ \A i \in DOMAIN r : Conf!IsText(r[i])
          /\ AllRead(r) => AllIn(r) = Conf!FlattenSeq([i \in DOMAIN items |-> want[i]])
        BY <2>1, <2>2, <2>3, <2>4, GatheredRead
    <2> QED
        BY <2>1, <2>5, <2>6
<1>3. CASE f.form \notin {"der", "text"}
    BY <1>3 DEF Conf!from_file, Conf!Refused
<1> QED
    BY <1>1, <1>2, <1>3

\* What the server reads, from files or from the managed line, is what it
\* was given, wherever the module can read it.
ServerRead(s, r) ==
    /\ Conf!IsSequence(r) /\ \A i \in DOMAIN r : Conf!IsText(r[i])
    /\ AllRead(r) => AllIn(r) = AllIn(s)
    /\ s # <<>> => r # <<>>

\* Roots::from_files: every file was read, and everything in it is a root.
LEMMA FilesRead ==
    ASSUME NEW s, Conf!AreBytes(s), Conf!from_files(s).ok
    PROVE  ServerRead(s, Conf!from_files(s).roots)
<1> DEFINE res == [i \in DOMAIN s |-> Conf!from_file(s[i])]
           want == [i \in DOMAIN s |-> Conf!CertificatesIn(s[i])]
<1>1. Conf!IsSequence(s) /\ Conf!from_files(s) = Conf!Gathered(res)
    BY DEF Conf!AreBytes, Conf!from_files
<1>2. ASSUME NEW i \in DOMAIN s, Conf!from_file(s[i]).ok
      PROVE  LET l == Conf!from_file(s[i]).roots IN
             /\ Conf!IsSequence(l) /\ l # <<>> /\ \A j \in DOMAIN l : Conf!IsText(l[j])
             /\ AllRead(l) => AllIn(l) = Conf!CertificatesIn(s[i])
    BY <1>2, FileRead DEF Conf!AreBytes
<1>3. DOMAIN res = DOMAIN s /\ res = [i \in DOMAIN s |-> res[i]] /\ \A i \in DOMAIN s :
          res[i] = Conf!from_file(s[i]) /\ want[i] = Conf!CertificatesIn(s[i])
    OBVIOUS
<1>4. AllIn(s) = Conf!FlattenSeq([i \in DOMAIN s |-> want[i]])
    <2>1. [i \in DOMAIN s |-> want[i]] = [i \in DOMAIN s |-> Conf!CertificatesIn(s[i])]
        OBVIOUS
    <2> QED
        BY <2>1 DEF AllIn
<1> HIDE DEF res, want
<1>5. LET r == Conf!Gathered(res).roots IN
      /\ Conf!IsSequence(r) /\ \A i \in DOMAIN r : Conf!IsText(r[i])
      /\ AllRead(r) => AllIn(r) = Conf!FlattenSeq([i \in DOMAIN s |-> want[i]])
      /\ (s # <<>> /\ \A i \in DOMAIN s : res[i].ok => res[i].roots # <<>>) => r # <<>>
    BY <1>1, <1>2, <1>3, GatheredRead
<1> QED
    BY <1>1, <1>2, <1>3, <1>4, <1>5 DEF ServerRead

\* The entries of a Config's JSON, each read as root() does.
LEMMA EntriesRead ==
    ASSUME NEW s, Conf!AreBytes(s), NEW all, all = Conf!Gathered([i \in DOMAIN s |-> Conf!root(s[i])]), all.ok
    PROVE  ServerRead(s, all.roots)
<1> DEFINE res == [i \in DOMAIN s |-> Conf!root(s[i])]
           want == [i \in DOMAIN s |-> Conf!CertificatesIn(s[i])]
<1>1. Conf!IsSequence(s) /\ all = Conf!Gathered(res)
    BY DEF Conf!AreBytes
<1>2. ASSUME NEW i \in DOMAIN s, Conf!root(s[i]).ok
      PROVE  LET l == Conf!root(s[i]).roots IN
             /\ Conf!IsSequence(l) /\ l # <<>> /\ \A j \in DOMAIN l : Conf!IsText(l[j])
             /\ AllRead(l) => AllIn(l) = Conf!CertificatesIn(s[i])
    BY <1>2, RootRead DEF Conf!AreBytes, Conf!IsBytes
<1>3. DOMAIN res = DOMAIN s /\ res = [i \in DOMAIN s |-> res[i]] /\ \A i \in DOMAIN s :
          res[i] = Conf!root(s[i]) /\ want[i] = Conf!CertificatesIn(s[i])
    OBVIOUS
<1>4. AllIn(s) = Conf!FlattenSeq([i \in DOMAIN s |-> want[i]])
    <2>1. [i \in DOMAIN s |-> want[i]] = [i \in DOMAIN s |-> Conf!CertificatesIn(s[i])]
        OBVIOUS
    <2> QED
        BY <2>1 DEF AllIn
<1> HIDE DEF res, want
<1>5. LET r == Conf!Gathered(res).roots IN
      /\ Conf!IsSequence(r) /\ \A i \in DOMAIN r : Conf!IsText(r[i])
      /\ AllRead(r) => AllIn(r) = Conf!FlattenSeq([i \in DOMAIN s |-> want[i]])
      /\ (s # <<>> /\ \A i \in DOMAIN s : res[i].ok => res[i].roots # <<>>) => r # <<>>
    BY <1>1, <1>2, <1>3, GatheredRead
<1> QED
    BY <1>1, <1>2, <1>3, <1>4, <1>5 DEF ServerRead

\* Anchors that are what the entries name, all of it and nothing else.
Trusted(a, s) ==
    /\ a # <<>> /\ Conf!CertificateSequence(a) = AllIn(s)
    /\ \A i \in DOMAIN a : Anchorable(a[i])

AppleDer == [i \in DOMAIN AppleRoots |-> Conf!Der(AppleRoots[i])]

\* Config's builder, which takes DER or PEM, each entry read by itself.
LEMMA BuilderRead ==
    ASSUME NEW s, Conf!IsSequence(s), \A i \in DOMAIN s : Conf!IsText(s[i]),
           NEW all, all = Conf!Gathered([i \in DOMAIN s |-> Conf!from_der_or_pem(s[i])]), all.ok
    PROVE  /\ AllRead(s)
           /\ all.roots # <<>> => Trusted(all.roots, s)
           /\ (\A i \in DOMAIN s : s[i].form = "der") => all.roots = s
<1> DEFINE res == [i \in DOMAIN s |-> Conf!from_der_or_pem(s[i])]
           q == [i \in DOMAIN res |-> res[i].roots]
<1>1. (\A i \in DOMAIN res : res[i].ok) /\ all.roots = Conf!FlattenSeq(q)
    <2> HIDE DEF res
    <2> QED
        BY GatheredIs DEF res
<1>2. AllRead(s)
    BY <1>1 DEF AllRead, Reads
<1>3. DOMAIN q = DOMAIN s /\ q = [i \in DOMAIN s |-> q[i]] /\ \A i \in DOMAIN s : q[i] = ReadOf(s[i])
    BY DEF ReadOf
<1> HIDE DEF q, res
<1>4. AreSequences(q)
    BY <1>2, <1>3, SequenceOver, EntryRead DEF AreSequences, AllRead
<1>5. Conf!CertificateSequence(all.roots) = AllIn(s)
    <2>1. \A i \in DOMAIN s : Conf!CertificateSequence(q[i]) = Conf!CertificatesIn(s[i])
        BY <1>2, <1>3, EntryRead DEF AllRead
    <2>2. [i \in DOMAIN q |-> Conf!CertificateSequence(q[i])] = [i \in DOMAIN s |-> Conf!CertificatesIn(s[i])]
        BY <1>3, <2>1
    <2> QED
        BY <1>1, <1>4, <2>2, FlattenCertificates DEF AllIn
<1>6. ASSUME NEW k \in DOMAIN all.roots
      PROVE  Anchorable(all.roots[k])
    <2>1. all.roots \in Seq(Parts(q))
        BY <1>1, <1>4, FlattenIs
    <2>2. all.roots[k] \in Parts(q)
        BY <2>1
    <2>3. PICK i \in DOMAIN q : \E j \in DOMAIN q[i] : all.roots[k] = q[i][j]
        BY <2>2 DEF Parts
    <2>4. q[i] = ReadOf(s[i]) /\ \A j \in DOMAIN ReadOf(s[i]) : Anchorable(ReadOf(s[i])[j])
        BY <1>2, <1>3, EntryRead DEF AllRead
    <2> QED
        BY <2>3, <2>4
<1>7. ASSUME \A i \in DOMAIN s : s[i].form = "der"
      PROVE  all.roots = s
    <2>1. \A i \in DOMAIN s : q[i] = <<s[i]>>
        BY <1>2, <1>3, <1>7, EntryRead DEF AllRead
    <2>2. q = [i \in DOMAIN s |-> <<s[i]>>]
        BY <1>3, <2>1
    <2> DEFINE E == {s[i] : i \in DOMAIN s}
    <2>3. s \in Seq(E)
        BY DEF Conf!IsSequence
    <2> HIDE DEF E
    <2> QED
        BY <1>1, <2>2, <2>3, FlattenSingles
<1> QED
    BY <1>2, <1>5, <1>6, <1>7 DEF Trusted

\* The bundled roots are read from DER, in their order.
LEMMA BundledRead ==
    ASSUME Conf!IsSequence(AppleRoots), Conf!load_roots # <<>>
    PROVE  Conf!load_roots = AppleDer /\ Conf!CertificateSequence(AppleDer) = AppleRoots
<1> DEFINE s == AppleDer
           res == [i \in DOMAIN s |-> Conf!from_der(s[i])]
           q == [i \in DOMAIN res |-> res[i].roots]
<1>1. Conf!load_roots = Conf!Gathered(res).roots
    BY DEF Conf!load_roots, AppleDer
<1>2. (\A i \in DOMAIN res : res[i].ok) /\ Conf!load_roots = Conf!FlattenSeq(q)
    <2> HIDE DEF res
    <2> QED
        BY <1>1, GatheredIs
<1>3. DOMAIN s = DOMAIN AppleRoots /\ s = [i \in DOMAIN AppleRoots |-> s[i]]
    BY DEF AppleDer
<1>4. \A i \in DOMAIN s : q[i] = <<s[i]>>
    BY <1>2 DEF Conf!from_der, Conf!Accepted, Conf!Refused
<1>5. q = [i \in DOMAIN s |-> <<s[i]>>]
    BY <1>4
<1> HIDE DEF s, res, q
<1>6. Conf!IsSequence(s)
    BY <1>3, SequenceOver
<1>7. Conf!FlattenSeq(q) = s
    <2> DEFINE E == {s[i] : i \in DOMAIN s}
    <2>1. s \in Seq(E)
        BY <1>6 DEF Conf!IsSequence
    <2> HIDE DEF E
    <2> QED
        BY <1>5, <2>1, FlattenSingles
<1>8. Conf!CertificateSequence(AppleDer) = AppleRoots
    <2>1. Conf!CertificateSequence(AppleDer) = [i \in DOMAIN AppleRoots |-> AppleRoots[i]]
        BY DEF Conf!CertificateSequence, AppleDer, Conf!Der
    <2> DEFINE E == {AppleRoots[i] : i \in DOMAIN AppleRoots}
    <2>2. AppleRoots \in Seq(E)
        BY DEF Conf!IsSequence
    <2> HIDE DEF E
    <2>3. AppleRoots = [i \in DOMAIN AppleRoots |-> AppleRoots[i]]
        BY <2>2
    <2> QED
        BY <2>1, <2>3
<1> QED
    BY <1>2, <1>7, <1>8 DEF s

\* Verifier::new: no roots are the bundled ones, and others replace them.
LEMMA VerifierNew ==
    ASSUME Conf!IsSequence(AppleRoots), NEW s, Conf!IsSequence(s), \A i \in DOMAIN s : Conf!IsText(s[i]),
           Conf!Verifier_new(s).ok
    PROVE  LET a == Conf!Verifier_new(s).roots IN
           /\ s = <<>> => a = AppleDer /\ Conf!CertificateSequence(a) = AppleRoots
           /\ s # <<>> => AllRead(s) /\ Trusted(a, s)
           /\ (s # <<>> /\ \A i \in DOMAIN s : s[i].form = "der") => a = s
<1> DEFINE read == Conf!Gathered([i \in DOMAIN s |-> Conf!from_der_or_pem(s[i])])
<1>1. CASE s = <<>>
    <2>1. Conf!Verifier_new(s) = Conf!build(FALSE, <<>>)
        BY <1>1 DEF Conf!Verifier_new
    <2>2. Conf!load_roots # <<>> /\ Conf!Verifier_new(s).roots = Conf!load_roots
        BY <2>1 DEF Conf!build, Conf!Accepted, Conf!Refused
    <2> QED
        BY <1>1, <2>2, BundledRead
<1>2. CASE s # <<>>
    <2> HIDE DEF read
    <2>1. Conf!Verifier_new(s) = IF read.ok THEN Conf!build(TRUE, read.roots) ELSE Conf!Refused
        BY <1>2, GatheredIs DEF Conf!Verifier_new, read
    <2>2. read.ok /\ read.roots # <<>> /\ Conf!Verifier_new(s).roots = read.roots
        BY <2>1 DEF Conf!build, Conf!Accepted, Conf!Refused
    <2> QED
        BY <1>2, <2>2, BuilderRead DEF read
<1> QED
    BY <1>1, <1>2

\* What Make may give a verifier for the configuration at hand.
Deserved(a) ==
    /\ IF Conf!NamesRoots THEN Trusted(a, Conf!NamedBytes)
       ELSE \/ Conf!CertificateSequence(a) = AppleRoots
            \/ a = <<>> /\ input.entry = "default"
    /\ input.entry \in {"files", "managed"} =>
          (Conf!fingerprints = a <=> \A i \in DOMAIN Conf!fingerprints : Conf!fingerprints[i].form = "der")

\* Between the server's reading of the roots and its call of init: what it
\* read is what it was given, and nothing read means that nothing was named.
ServerHolds ==
    /\ input.entry \in {"files", "managed"}
    /\ Conf!NamesRoots => ServerRead(Conf!NamedBytes, roots) /\ roots # <<>>
    /\ ~Conf!NamesRoots => roots = <<>>

ConfInv ==
    /\ input \in Inputs
    /\ stage = "init" => ServerHolds
    /\ Conf!TrustsExactlyTheNamed

\* A verifier is made from what its way in deserves.
LEMMA ConfMakes ==
    ASSUME ConfInv, NEW outcome, outcome.ok => Deserved(outcome.roots), Conf!Make(outcome)
    PROVE  ConfInv'
<1>1. /\ input' = input /\ roots' = roots /\ anchors' = outcome.roots
      /\ stage' = IF outcome.ok THEN "made" ELSE "refused"
    BY DEF Conf!Make
<1>2. stage' # "init" /\ input' \in Inputs
    BY <1>1 DEF ConfInv
<1>3. Conf!TrustsExactlyTheNamed'
    <2> SUFFICES ASSUME outcome.ok
                 PROVE  Conf!TrustsExactlyTheNamed'
        BY <1>1 DEF Conf!TrustsExactlyTheNamed
    <2>1. Conf!NamesRoots' = Conf!NamesRoots /\ Conf!NamedBytes' = Conf!NamedBytes /\ Conf!fingerprints' = Conf!fingerprints
        BY <1>1 DEF Conf!NamesRoots, Conf!NamedBytes, Conf!fingerprints
    <2>2. Deserved(anchors')
        BY <1>1
    <2>3. CASE Conf!NamesRoots
        BY <1>1, <2>1, <2>2, <2>3 DEF Deserved, Trusted, AllIn, Anchorable, Conf!TrustsExactlyTheNamed
    <2>4. CASE ~Conf!NamesRoots
        BY <1>1, <2>1, <2>2, <2>4 DEF Deserved, Conf!TrustsExactlyTheNamed
    <2> QED
        BY <2>3, <2>4
<1> QED
    BY <1>2, <1>3 DEF ConfInv

\* One step per way of making a verifier.
LEMMA ConfStep ==
    ASSUME Conf!ConfigurationAssumption, ConfInv, [Conf!Next]_(Conf!vars)
    PROVE  ConfInv'
<1>1. CASE Conf!Config_default
    <2>1. input.entry = "default" /\ Conf!Make(Conf!Accepted(Conf!load_roots))
        BY <1>1 DEF Conf!Config_default, Conf!Entry
    <2>2. ~Conf!NamesRoots
        BY <2>1 DEF Conf!NamesRoots
    <2>3. Conf!CertificateSequence(Conf!load_roots) = AppleRoots \/ Conf!load_roots = <<>>
        BY BundledRead DEF Conf!ConfigurationAssumption
    <2>4. Deserved(Conf!Accepted(Conf!load_roots).roots)
        BY <2>1, <2>2, <2>3 DEF Deserved, Conf!Accepted
    <2> QED
        BY <2>1, <2>4, ConfMakes
<1>2. CASE Conf!Builder
    <2> DEFINE s == input.arg
               read == Conf!Gathered([i \in DOMAIN s |-> Conf!from_der_or_pem(s[i])])
               outcome == IF read.ok THEN Conf!build(TRUE, read.roots) ELSE Conf!Refused
    <2>1. input.entry = "rust" /\ Conf!Make(outcome)
        BY <1>2 DEF Conf!Builder, Conf!Entry
    <2>2. Conf!NamesRoots /\ Conf!NamedBytes = s
        BY <2>1 DEF Conf!NamesRoots, Conf!NamedBytes
    <2>3. Conf!IsSequence(s) /\ \A i \in DOMAIN s : Conf!IsText(s[i])
        BY <2>1 DEF ConfInv, Conf!ConfigurationAssumption, Conf!AreBytes, Conf!IsBytes
    <2>4. ASSUME outcome.ok
          PROVE  Deserved(outcome.roots)
        <3>1. read.ok /\ read.roots # <<>> /\ outcome.roots = read.roots
            <4> HIDE DEF read
            <4> QED
                BY <2>4 DEF Conf!build, Conf!Accepted, Conf!Refused
        <3>2. Trusted(read.roots, s)
            BY <2>3, <3>1, BuilderRead
        <3> QED
            BY <2>1, <2>2, <3>1, <3>2 DEF Deserved
    <2> HIDE DEF outcome
    <2> QED
        BY <2>1, <2>4, ConfMakes
<1>3. CASE Conf!aprv_verifier_new
    <2> DEFINE a == input.arg
               s == [i \in DOMAIN a.entries |-> a.entries[i].bytes]
               read == Conf!anchors_of(a)
               outcome == IF read.ok THEN Conf!Verifier_new(read.roots) ELSE Conf!Refused
    <2>1. input.entry = "c_abi" /\ Conf!Make(outcome)
        BY <1>3 DEF Conf!aprv_verifier_new, Conf!Entry
    <2>2. (Conf!NamesRoots <=> a.count # 0) /\ Conf!NamedBytes = s
        BY <2>1 DEF Conf!NamesRoots, Conf!NamedBytes
    <2>3. /\ Conf!IsSequence(a.entries) /\ a.count = Len(a.entries)
          /\ \A i \in DOMAIN a.entries : Conf!IsText(a.entries[i].bytes)
        BY <2>1 DEF ConfInv, Conf!ConfigurationAssumption, Conf!IsBytes
    <2>4. DOMAIN s = DOMAIN a.entries /\ s = [i \in DOMAIN a.entries |-> s[i]]
          /\ \A i \in DOMAIN s : s[i] = a.entries[i].bytes
        OBVIOUS
    <2>5. ASSUME outcome.ok
          PROVE  Deserved(outcome.roots)
        <3>1. read.ok /\ read.roots = (IF a.count = 0 THEN <<>> ELSE s) /\ outcome = Conf!Verifier_new(read.roots)
            BY <2>5 DEF Conf!anchors_of, Conf!Accepted, Conf!Refused
        <3> HIDE DEF s
        <3>2. Conf!IsSequence(s) /\ Len(s) = a.count /\ \A i \in DOMAIN s : Conf!IsText(s[i])
            BY <2>3, <2>4, SequenceOver
        <3>3. CASE a.count = 0
            <4>1. outcome = Conf!Verifier_new(<<>>) /\ Conf!IsSequence(<<>>)
                BY <3>1, <3>3, EmptySeq, SequenceIs
            <4> HIDE DEF outcome
            <4>2. Conf!CertificateSequence(outcome.roots) = AppleRoots
                BY <2>5, <4>1, VerifierNew DEF Conf!ConfigurationAssumption
            <4> QED
                BY <2>1, <2>2, <3>3, <4>2 DEF Deserved
        <3>4. CASE a.count # 0
            <4>1. outcome = Conf!Verifier_new(s) /\ s # <<>>
                BY <3>1, <3>2, <3>4
            <4> HIDE DEF outcome
            <4>2. Trusted(outcome.roots, s)
                BY <2>5, <3>2, <4>1, VerifierNew DEF Conf!ConfigurationAssumption
            <4> QED
                BY <2>1, <2>2, <3>4, <4>2 DEF Deserved
        <3> QED
            BY <3>3, <3>4
    <2> HIDE DEF outcome
    <2> QED
        BY <2>1, <2>5, ConfMakes
<1>4. CASE Conf!Guest_init
    <2> DEFINE c == input.arg
               read == Conf!read_init_config(c)
               outcome == IF read.ok THEN Conf!Verifier_new(read.roots) ELSE Conf!Refused
    <2>1. input.entry = "wasm" /\ Conf!Make(outcome)
        BY <1>4 DEF Conf!Guest_init, Conf!Entry, Conf!init
    <2>2. /\ Conf!NamesRoots <=> c.text = "object" /\ c.named # <<>>
          /\ Conf!NamesRoots => Conf!NamedBytes = c.named[Len(c.named)].entries
        BY <2>1 DEF Conf!NamesRoots, Conf!NamedBytes, Conf!Last
    <2>3. Conf!IsSequence(c.named) /\ \A i \in DOMAIN c.named : Conf!AreBytes(c.named[i].entries)
        BY <2>1 DEF ConfInv, Conf!ConfigurationAssumption
    <2>4. ASSUME outcome.ok
          PROVE  Deserved(outcome.roots)
        <3>1. read.ok /\ outcome = Conf!Verifier_new(read.roots)
            BY <2>4 DEF Conf!Refused
        <3>2. CASE ~Conf!NamesRoots
            <4>1. read.roots = <<>> /\ Conf!IsSequence(<<>>)
                BY <2>2, <3>1, <3>2, EmptySeq, SequenceIs DEF Conf!read_init_config, Conf!Accepted, Conf!Refused
            <4>2. outcome = Conf!Verifier_new(<<>>)
                BY <3>1, <4>1
            <4> HIDE DEF outcome
            <4>3. Conf!CertificateSequence(outcome.roots) = AppleRoots
                BY <2>4, <4>1, <4>2, VerifierNew DEF Conf!ConfigurationAssumption
            <4> QED
                BY <2>1, <3>2, <4>3 DEF Deserved
        <3>3. CASE Conf!NamesRoots
            <4> DEFINE s == c.named[1].entries
            <4>1. Len(c.named) = 1 /\ 1 \in DOMAIN c.named
                <5> DEFINE E == {c.named[i] : i \in DOMAIN c.named}
                           n == c.named
                <5>1. n \in Seq(E) /\ n # <<>>
                    BY <2>2, <2>3, <3>3 DEF Conf!IsSequence
                <5>2. ~(Len(n) > 1)
                    BY <2>2, <3>1, <3>3 DEF Conf!read_init_config, Conf!Accepted, Conf!Refused
                <5> HIDE DEF E, n
                <5>3. Len(n) \in Nat \ {0} /\ DOMAIN n = 1..Len(n)
                    BY <5>1, EmptySeq, LenProperties
                <5>4. Len(n) = 1
                    BY <5>2, <5>3
                <5>5. 1 \in DOMAIN n
                    BY <5>3, <5>4
                <5> QED
                    BY <5>4, <5>5 DEF n
            <4>2. read.roots = s /\ s # <<>> /\ Conf!NamedBytes = s
                BY <2>2, <3>1, <3>3, <4>1 DEF Conf!read_init_config, Conf!Accepted, Conf!Refused
            <4>3. Conf!IsSequence(s) /\ \A i \in DOMAIN s : Conf!IsText(s[i])
                BY <2>3, <4>1 DEF Conf!AreBytes, Conf!IsBytes
            <4>4. outcome = Conf!Verifier_new(s)
                BY <3>1, <4>2
            <4> HIDE DEF outcome, s
            <4>5. Trusted(outcome.roots, s)
                BY <2>4, <4>2, <4>3, <4>4, VerifierNew DEF Conf!ConfigurationAssumption
            <4> QED
                BY <2>1, <3>3, <4>2, <4>5 DEF Deserved
        <3> QED
            BY <3>2, <3>3
    <2> HIDE DEF outcome
    <2> QED
        BY <2>1, <2>4, ConfMakes
<1>5. CASE Conf!Serve
    <2> DEFINE c == input.arg
               read == IF input.entry = "files" THEN Conf!from_files(c) ELSE Conf!from_config_json(c)
    <2>1. /\ input.entry \in {"files", "managed"} /\ input' = input /\ roots' = read.roots
          /\ stage' = (IF read.ok THEN "init" ELSE "refused") /\ anchors' = anchors
        BY <1>5 DEF Conf!Serve, Conf!Entry
    <2>2. ASSUME read.ok
          PROVE  /\ Conf!NamesRoots => ServerRead(Conf!NamedBytes, read.roots) /\ read.roots # <<>>
                 /\ ~Conf!NamesRoots => read.roots = <<>>
        <3>1. CASE input.entry = "files"
            <4>1. (Conf!NamesRoots <=> c # <<>>) /\ Conf!NamedBytes = c /\ Conf!AreBytes(c)
                BY <3>1 DEF Conf!NamesRoots, Conf!NamedBytes, ConfInv, Conf!ConfigurationAssumption
            <4>2. ServerRead(c, Conf!from_files(c).roots)
                BY <2>2, <3>1, <4>1, FilesRead
            <4>3. c = <<>> => Conf!from_files(c).roots = <<>>
                <5>1. Conf!Gathered([i \in DOMAIN <<>> |-> Conf!from_file(<<>>[i])]).roots = <<>>
                    <6> DEFINE res == [i \in DOMAIN <<>> |-> Conf!from_file(<<>>[i])]
                    <6>1. [i \in DOMAIN res |-> res[i].roots] = <<>>
                        OBVIOUS
                    <6> HIDE DEF res
                    <6> QED
                        BY <6>1, GatheredIs, FlattenSteps DEF res
                <5> QED
                    BY <5>1 DEF Conf!from_files
            <4> QED
                BY <3>1, <4>1, <4>2, <4>3 DEF ServerRead
        <3>2. CASE input.entry = "managed"
            <4>1. /\ Conf!NamesRoots <=> c.text = "object" /\ c.named # <<>>
                  /\ Conf!NamesRoots => Conf!NamedBytes = Conf!Last(c.named).entries
                BY <3>2 DEF Conf!NamesRoots, Conf!NamedBytes
            <4>2. Conf!IsSequence(c.named) /\ \A i \in DOMAIN c.named : Conf!AreBytes(c.named[i].entries)
                BY <3>2 DEF ConfInv, Conf!ConfigurationAssumption
            <4>3. read = Conf!from_config_json(c) /\ read.ok
                BY <2>2, <3>2
            <4>4. CASE ~Conf!NamesRoots
                BY <4>1, <4>3, <4>4 DEF Conf!from_config_json, Conf!Accepted, Conf!Refused
            <4>5. CASE Conf!NamesRoots
                <5> DEFINE s == Conf!Last(c.named).entries
                <5>1. Conf!AreBytes(s)
                    <6> DEFINE E == {c.named[i] : i \in DOMAIN c.named}
                               n == c.named
                    <6>1. n \in Seq(E) /\ n # <<>>
                        BY <4>1, <4>2, <4>5 DEF Conf!IsSequence
                    <6> HIDE DEF E, n
                    <6>2. Len(n) \in DOMAIN n
                        BY <6>1
                    <6> QED
                        BY <6>2, <4>2 DEF n, Conf!Last
                <5>2. read = Conf!Gathered([i \in DOMAIN s |-> Conf!root(s[i])]) /\ s # <<>>
                    BY <4>1, <4>3, <4>5 DEF Conf!from_config_json, Conf!Refused
                <5> HIDE DEF s
                <5>3. ServerRead(s, read.roots)
                    BY <4>3, <5>1, <5>2, EntriesRead
                <5> QED
                    BY <4>1, <4>5, <5>2, <5>3 DEF ServerRead, s
            <4> QED
                BY <4>4, <4>5
        <3> QED
            BY <2>1, <3>1, <3>2
    <2>3. Conf!NamesRoots' = Conf!NamesRoots /\ Conf!NamedBytes' = Conf!NamedBytes
        BY <2>1 DEF Conf!NamesRoots, Conf!NamedBytes
    <2>4. Conf!TrustsExactlyTheNamed'
        BY <2>1 DEF Conf!TrustsExactlyTheNamed
    <2>5. (stage = "init" => ServerHolds)'
        <3> SUFFICES ASSUME stage' = "init"
                     PROVE  ServerHolds'
            OBVIOUS
        <3>1. read.ok
            BY <2>1
        <3> HIDE DEF read
        <3> QED
            BY <2>1, <2>2, <2>3, <3>1 DEF ServerHolds
    <2> QED
        BY <2>1, <2>4, <2>5 DEF ConfInv
<1>6. CASE Conf!Server_init
    <2> DEFINE read == Conf!read_init_config(Conf!config_json(roots))
               outcome == IF read.ok THEN Conf!Verifier_new(read.roots) ELSE Conf!Refused
    <2>1. stage = "init" /\ Conf!Make(outcome)
        BY <1>6 DEF Conf!Server_init, Conf!init
    <2>2. ServerHolds
        BY <2>1 DEF ConfInv
    <2>3. ASSUME outcome.ok
          PROVE  Deserved(outcome.roots)
        <3>1. read.ok /\ read.roots = roots /\ outcome = Conf!Verifier_new(roots)
            BY <2>3 DEF Conf!read_init_config, Conf!config_json, Conf!Object, Conf!Accepted, Conf!Refused
        <3> HIDE DEF outcome, read
        <3>2. CASE roots = <<>>
            <4>1. Conf!IsSequence(<<>>)
                BY EmptySeq, SequenceIs
            <4>2. outcome.roots = AppleDer /\ Conf!CertificateSequence(outcome.roots) = AppleRoots
                BY <2>3, <3>1, <3>2, <4>1, VerifierNew DEF Conf!ConfigurationAssumption
            <4>3. Conf!fingerprints = AppleDer
                BY <3>2 DEF Conf!fingerprints, AppleDer
            <4>4. ~Conf!NamesRoots
                BY <2>2, <3>2 DEF ServerHolds
            <4>5. \A i \in DOMAIN AppleDer : AppleDer[i].form = "der"
                BY DEF AppleDer, Conf!Der
            <4> QED
                BY <4>2, <4>3, <4>4, <4>5 DEF Deserved
        <3>3. CASE roots # <<>>
            <4>1. Conf!NamesRoots /\ ServerRead(Conf!NamedBytes, roots)
                BY <2>2, <3>3 DEF ServerHolds
            <4>2. /\ AllRead(roots) /\ Trusted(outcome.roots, roots)
                  /\ (\A i \in DOMAIN roots : roots[i].form = "der") => outcome.roots = roots
                BY <2>3, <3>1, <3>3, <4>1, VerifierNew DEF ServerRead, Conf!ConfigurationAssumption
            <4>3. AllIn(roots) = AllIn(Conf!NamedBytes)
                BY <4>1, <4>2 DEF ServerRead
            <4>4. Trusted(outcome.roots, Conf!NamedBytes)
                BY <4>2, <4>3 DEF Trusted
            <4>5. Conf!fingerprints = roots
                BY <3>3 DEF Conf!fingerprints
            <4>6. roots = outcome.roots => \A i \in DOMAIN roots : roots[i].form = "der"
                BY <4>2 DEF Trusted, Anchorable
            <4> QED
                BY <4>1, <4>2, <4>4, <4>5, <4>6 DEF Deserved
        <3> QED
            BY <3>2, <3>3
    <2> HIDE DEF outcome
    <2> QED
        BY <2>1, <2>3, ConfMakes
<1>7. CASE UNCHANGED Conf!vars
    BY <1>7 DEF Conf!vars, ConfInv, ServerHolds, Conf!NamesRoots, Conf!NamedBytes, Conf!TrustsExactlyTheNamed,
                Conf!fingerprints
<1> QED
    BY <1>1, <1>2, <1>3, <1>4, <1>5, <1>6, <1>7 DEF Conf!Next

\* config.rs, roots.rs, wire, ffi and the server's roots.rs: whichever way
\* roots are given, however many and however nested their PEM texts are, a
\* verifier trusts exactly the certificates that were named, in order, or the
\* bundled ones when none was; and /v1/info fingerprints exactly what init
\* anchors, unless a PEM text was inside another.
THEOREM TrustsExactlyTheNamedCorrect ==
    Conf!ConfigurationAssumption => (Conf!Spec => []TrustsExactlyTheNamed)
<1> SUFFICES ASSUME Conf!ConfigurationAssumption
             PROVE  Conf!Spec => []TrustsExactlyTheNamed
    OBVIOUS
<1>1. Conf!Init => ConfInv
    BY DEF Conf!Init, ConfInv, Conf!TrustsExactlyTheNamed
<1>2. ConfInv /\ [Conf!Next]_(Conf!vars) => ConfInv'
    BY ConfStep
<1>3. ConfInv => TrustsExactlyTheNamed
    BY DEF ConfInv, TrustsExactlyTheNamed
<1> QED
    BY <1>1, <1>2, <1>3, PTL DEF Conf!Spec
=============================================================================
