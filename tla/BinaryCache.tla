---------------------------- MODULE BinaryCache ----------------------------
(* ServerBinary of java-wasm: threads of several JVMs install one pinned    *)
(* binary into a shared cache directory and check it again before each      *)
(* start. Fetches bring other bytes, any operation on a file may fail, JVMs *)
(* die at any step, and a file may change on disk.                          *)
EXTENDS Naturals, FiniteSets

CONSTANTS Threads, JvmOf,    \* who installs, and in which JVM
          MaxFaults,         \* bound: operations that fail and JVMs that die
          MaxChanges,        \* bound: changes of the installed file on disk
          MaxTries           \* bound: installs and starts of a thread

CacheAssumption ==
    /\ IsFiniteSet(Threads)
    /\ \A t \in Threads : JvmOf[t] \notin Threads
    /\ "free" \notin Threads \cup {JvmOf[t] : t \in Threads}
    /\ MaxFaults \in Nat /\ MaxChanges \in Nat /\ MaxTries \in Nat

VARIABLES
    dir,        \* the cache directory: "missing", "unsafe" or "owned"
    target,     \* aprv-<sha256>: "absent", "pinned" or "other" bytes
    temp,       \* each thread's temporary file, kept when its delete failed
    monitor,    \* each JVM's DIRECTORY_LOCKS monitor
    fileLock,   \* the JVM that holds .lock
    dead,       \* JVMs that ended
    pc, tries,
    ran,        \* history: what each thread's last start ran, until its next check
    late,       \* history: threads whose file changed after their check
    faults, changes

vars == <<dir, target, temp, monitor, fileLock, dead, pc, tries, ran, late, faults, changes>>

Jvms == {JvmOf[t] : t \in Threads}
NoFile == [holds |-> "absent", exec |-> FALSE, kept |-> FALSE]

Init ==
    /\ dir \in {"missing", "unsafe", "owned"}
    /\ target = "absent"
    /\ temp = [t \in Threads |-> NoFile]
    /\ monitor = [j \in Jvms |-> "free"]
    /\ fileLock = "free"
    /\ dead = {}
    /\ pc = [t \in Threads |-> "idle"]
    /\ tries = [t \in Threads |-> 0]
    /\ ran = [t \in Threads |-> "nothing"] /\ late = {}
    /\ faults = 0 /\ changes = 0

Goto(t, from, to) ==
    /\ JvmOf[t] \notin dead
    /\ pc[t] = from
    /\ pc' = [pc EXCEPT ![t] = to]

Counts == <<faults, changes>>
Locks == <<monitor, fileLock>>
History == <<ran, late>>

Fault == faults < MaxFaults /\ faults' = faults + 1
-----------------------------------------------------------------------------
(* A directory that is a link, another user's or writable by others fails  *)
ownerOnlyDirectory(t) ==
    /\ tries[t] < MaxTries
    /\ tries' = [tries EXCEPT ![t] = @ + 1]
    /\ Goto(t, "idle", IF dir = "unsafe" THEN "idle" ELSE "monitor")
    /\ dir' = IF dir = "missing" THEN "owned" ELSE dir
    /\ UNCHANGED <<target, temp, Locks, dead, History, Counts>>

EnterMonitor(t) ==
    /\ Goto(t, "monitor", "lock")
    /\ monitor[JvmOf[t]] = "free"
    /\ monitor' = [monitor EXCEPT ![JvmOf[t]] = t]
    /\ UNCHANGED <<dir, target, temp, fileLock, dead, tries, History, Counts>>

(* .lock is opened and locked, or an exception leaves the monitor *)
LockFile(t) ==
    /\ \/ /\ Goto(t, "lock", "look")
          /\ fileLock = "free"
          /\ fileLock' = JvmOf[t]
          /\ UNCHANGED <<monitor, faults>>
       \/ /\ Goto(t, "lock", "idle")
          /\ monitor' = [monitor EXCEPT ![JvmOf[t]] = "free"]
          /\ Fault /\ UNCHANGED fileLock
    /\ UNCHANGED <<dir, target, temp, dead, tries, History, changes>>

Leave(t, to) ==
    /\ pc' = [pc EXCEPT ![t] = to]
    /\ monitor' = [monitor EXCEPT ![JvmOf[t]] = "free"]
    /\ fileLock' = "free"

(* install throws: the finally clause deletes the temporary file, if it can *)
Abandon(t) ==
    /\ Leave(t, "idle")
    /\ \/ temp' = [temp EXCEPT ![t] = NoFile]
       \/ temp' = [temp EXCEPT ![t].kept = TRUE]

(* An installed file that hashes to the pin is used as it is; another is   *)
(* deleted under the lock. Either may fail.                                *)
Look(t) ==
    /\ JvmOf[t] \notin dead /\ pc[t] = "look"
    /\ \/ /\ target = "pinned" /\ Leave(t, "ready")
          /\ UNCHANGED <<target, faults>>
       \/ /\ target # "pinned" /\ target' = "absent"
          /\ pc' = [pc EXCEPT ![t] = "fetch"]
          /\ UNCHANGED <<Locks, faults>>
       \/ target # "absent" /\ Fault /\ Leave(t, "idle") /\ UNCHANGED target
    /\ UNCHANGED <<dir, temp, dead, tries, History, changes>>

(* temporaryFile, which may fail *)
Fetch(t) ==
    /\ JvmOf[t] \notin dead /\ pc[t] = "fetch"
    /\ \/ /\ temp' = [temp EXCEPT ![t] = [holds |-> "part", exec |-> FALSE, kept |-> FALSE]]
          /\ pc' = [pc EXCEPT ![t] = "copy"]
          /\ UNCHANGED <<Locks, faults>>
       \/ Fault /\ Leave(t, "idle") /\ UNCHANGED temp
    /\ UNCHANGED <<dir, target, dead, tries, History, changes>>

(* fetch.open, a classifier jar's resource or a download, and copyAndHash: *)
(* the whole binary, other bytes, or an error in the middle                *)
Copy(t) ==
    /\ JvmOf[t] \notin dead /\ pc[t] = "copy"
    /\ \/ /\ temp' = [temp EXCEPT ![t].holds = "pinned"]
          /\ pc' = [pc EXCEPT ![t] = "hashed"]
          /\ UNCHANGED <<faults, Locks>>
       \/ /\ Fault
          /\ \/ temp' = [temp EXCEPT ![t].holds = "other"] /\ pc' = [pc EXCEPT ![t] = "hashed"] /\ UNCHANGED Locks
             \/ Abandon(t)
    /\ UNCHANGED <<dir, target, dead, tries, History, changes>>

(* A mismatch is an exception; executable(temporary) may fail *)
Compare(t) ==
    /\ JvmOf[t] \notin dead /\ pc[t] = "hashed"
    /\ \/ temp[t].holds # "pinned" /\ Abandon(t) /\ UNCHANGED faults
       \/ /\ temp[t].holds = "pinned"
          /\ temp' = [temp EXCEPT ![t].exec = TRUE]
          /\ pc' = [pc EXCEPT ![t] = "move"]
          /\ UNCHANGED <<Locks, faults>>
       \/ temp[t].holds = "pinned" /\ Fault /\ Abandon(t)
    /\ UNCHANGED <<dir, target, dead, tries, History, changes>>

(* Files.move, a rename inside the directory, which may fail *)
Move(t) ==
    /\ JvmOf[t] \notin dead /\ pc[t] = "move"
    /\ \/ /\ target' = temp[t].holds
          /\ Leave(t, "ready") /\ temp' = [temp EXCEPT ![t] = NoFile]
          /\ UNCHANGED faults
       \/ Fault /\ Abandon(t) /\ UNCHANGED target
    /\ UNCHANGED <<dir, dead, tries, History, changes>>
-----------------------------------------------------------------------------
(* Each start of the child: hashed again, outside the locks of install *)

(* A slip: the hash taken at install is trusted *)
verifyBeforeStart_once(t) ==
    /\ tries[t] < MaxTries
    /\ tries' = [tries EXCEPT ![t] = @ + 1]
    /\ Goto(t, "ready", IF target = "absent" THEN "idle" ELSE "start")
    /\ ran' = [ran EXCEPT ![t] = "nothing"] /\ late' = late \ {t}
    /\ UNCHANGED <<dir, target, temp, Locks, dead, Counts>>

verifyBeforeStart(t) ==
    /\ tries[t] < MaxTries
    /\ tries' = [tries EXCEPT ![t] = @ + 1]
    /\ \/ /\ Goto(t, "ready", CASE target = "pinned" -> "start" [] target = "other" -> "delete" [] OTHER -> "idle")
          /\ UNCHANGED faults
       \/ target # "absent" /\ Fault /\ Goto(t, "ready", "idle")     \* cannot be read
    /\ ran' = [ran EXCEPT ![t] = "nothing"] /\ late' = late \ {t}
    /\ UNCHANGED <<dir, target, temp, Locks, dead, changes>>

(* A delete that fails is ignored: the start fails either way *)
DeleteChanged(t) ==
    /\ Goto(t, "delete", "idle")
    /\ \/ target' = "absent" /\ UNCHANGED faults
       \/ Fault /\ UNCHANGED target
    /\ UNCHANGED <<dir, temp, Locks, dead, tries, History, changes>>

(* The child of a verifier runs; when it dies the same path is started     *)
(* again. A verifier whose start fails is made anew with another install.  *)
Start(t) ==
    /\ Goto(t, "start", IF target = "absent" THEN "idle" ELSE "ready")
    /\ ran' = [ran EXCEPT ![t] = IF target = "absent" THEN "nothing" ELSE target]
    /\ UNCHANGED <<dir, target, temp, Locks, dead, tries, late, Counts>>
-----------------------------------------------------------------------------
(* A process that ends gives its locks up; its temporary files stay *)
Crash(j) ==
    /\ j \notin dead /\ Fault
    /\ dead' = dead \cup {j}
    /\ fileLock' = IF fileLock = j THEN "free" ELSE fileLock
    /\ UNCHANGED <<dir, target, temp, monitor, pc, tries, History, changes>>

Change ==
    /\ target = "pinned" /\ changes < MaxChanges
    /\ target' = "other" /\ changes' = changes + 1
    /\ late' = late \cup {t \in Threads : pc[t] = "start"}
    /\ UNCHANGED <<dir, temp, Locks, dead, pc, tries, ran, faults>>

(* Every thread has used up its tries, or is dead *)
Done ==
    /\ \A t \in Threads : JvmOf[t] \in dead \/ (tries[t] = MaxTries /\ pc[t] \in {"idle", "ready"})
    /\ UNCHANGED vars

Next ==
    \/ \E t \in Threads :
          \/ ownerOnlyDirectory(t) \/ EnterMonitor(t) \/ LockFile(t) \/ Look(t) \/ Fetch(t)
          \/ Copy(t) \/ Compare(t) \/ Move(t) \/ verifyBeforeStart(t) \/ DeleteChanged(t) \/ Start(t)
    \/ \E j \in Jvms : Crash(j)
    \/ Change
    \/ Done

Spec == Init /\ [][Next]_vars
-----------------------------------------------------------------------------
(* Where a thread fetches, with both locks *)
Fetching == {"fetch", "copy", "hashed", "move"}

(* Bytes that do not hash to the pin are never made executable, and a      *)
(* child is one of them only when the file changed between the check of    *)
(* that very start and the start. The binary is fetched only while the     *)
(* cache lacks it, never by two at a time, and an install that failed      *)
(* leaves nothing behind, unless its delete failed too                     *)
(* (ServerBinary.install, verifyBeforeStart).                              *)
OnlyPinnedIsExecutable ==
    /\ target = "other" => changes > 0
    /\ \A t \in Threads :
          /\ temp[t].exec => temp[t].holds = "pinned"
          /\ pc[t] \in {"idle", "ready"} => temp[t] = NoFile \/ temp[t].kept
          /\ ran[t] = "other" => t \in late
          /\ pc[t] \in Fetching /\ JvmOf[t] \notin dead => target = "absent"
=============================================================================
