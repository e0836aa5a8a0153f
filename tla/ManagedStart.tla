----------------------------- MODULE ManagedStart -----------------------------
(***************************************************************************)
(* Starting a managed child, seen from both processes at once: the Java    *)
(* parent in ServerProcess.start() and stop(), the child in serve          *)
(* --managed (rust/server/src/main.rs).  ServerProcess takes start() as    *)
(* one step; here each side moves on its own, the two pipes lie between    *)
(* them, every wait of the parent may time out, and either process may die *)
(* at any point.                                                           *)
(***************************************************************************)
EXTENDS Naturals

VARIABLES
    parent,    \* the step the parent is at, and how start() ended
    child,     \* the step the child's main thread is at
    code,      \* the child's exit status, once it exited
    lines,     \* handshake lines in the child's stdin pipe, not yet read
    open,      \* whether the parent's end of that pipe is open
    watching,  \* the child's stdin watcher runs
    address,   \* the child printed its address
    refusal,   \* init refused the roots; the refusal is on stderr
    stdout,    \* the parent's stdout reader: reading, what it offers, or past its offer
    tail       \* the parent's stderr reader has kept the refusal

readers == <<stdout, tail>>
vars == <<parent, child, code, lines, open, watching, address, refusal, stdout, tail>>

Signal == 137

Starting == {"spawn", "write", "poll", "judge"}
Ended == {"target", "refused", "failed"}
ChildSteps == {"token", "roots", "load", "init", "bind", "up"}
ChildRuns == child \in ChildSteps

TypeOK ==
    /\ parent \in Starting \cup Ended \cup {"stopping", "stopped", "dead"}
    /\ child \in ChildSteps \cup {"none", "exited"}
    /\ code \in {0, 2, 70, Signal} /\ lines \in 0..2
    /\ {open, watching, address, refusal, tail} \subseteq BOOLEAN
    /\ stdout \in {"none", "reading", "address", "eof", "past"}

Init ==
    /\ parent = "spawn" /\ child = "none" /\ code = 0 /\ lines = 0
    /\ open = FALSE /\ watching = FALSE /\ address = FALSE /\ refusal = FALSE
    /\ stdout = "none" /\ tail = FALSE
-----------------------------------------------------------------------------
(***************************************************************************)
(* The parent.  Spawn fails before there is a child: the binary's hash, a  *)
(* noexec mount, the operating system's refusal.                           *)
(***************************************************************************)
Spawn ==
    /\ parent = "spawn"
    /\ \/ parent' = "write" /\ child' = "token" /\ open' = TRUE /\ stdout' = "reading"
       \/ parent' = "failed" /\ UNCHANGED <<child, open, stdout>>
    /\ UNCHANGED <<code, lines, watching, address, refusal, tail>>

(***************************************************************************)
(* destroyForcibly: the signal ends a child that still runs.               *)
(***************************************************************************)
destroyForcibly ==
    /\ child' = "exited"
    /\ code' = IF ChildRuns THEN Signal ELSE code

Fails ==
    /\ parent' = "failed"
    /\ destroyForcibly
    /\ UNCHANGED <<lines, open, watching, address, refusal, readers>>

Write ==
    /\ parent = "write"
    /\ \/ ChildRuns /\ parent' = "poll" /\ lines' = 2
          /\ UNCHANGED <<child, code, open, watching, address, refusal, readers>>
       \/ Fails

(***************************************************************************)
(* The stdout reader: the first line, or the end of stdout, handed to the  *)
(* parent if it polls within PORT_TIMEOUT; after that it discards.         *)
(***************************************************************************)
ReadStdout ==
    /\ parent # "dead"
    /\ \/ stdout = "reading" /\ address /\ stdout' = "address"
       \/ stdout = "reading" /\ ~address /\ child = "exited" /\ stdout' = "eof"
       \/ stdout \in {"address", "eof"} /\ parent # "poll" /\ stdout' = "past"
    /\ UNCHANGED <<parent, child, code, lines, open, watching, address, refusal, tail>>

ReadStderr ==
    /\ parent # "dead" /\ refusal /\ ~tail
    /\ tail' = TRUE
    /\ UNCHANGED <<parent, child, code, lines, open, watching, address, refusal, stdout>>

(***************************************************************************)
(* The line, "" for the end of stdout, or null after PORT_TIMEOUT.         *)
(***************************************************************************)
Poll ==
    /\ parent = "poll"
    /\ \/ /\ stdout = "address" /\ stdout' = "past" /\ parent' = "target"
          /\ UNCHANGED <<child, code, lines, open, watching, address, refusal, tail>>
       \/ /\ stdout' = IF stdout = "eof" THEN "past" ELSE stdout
          /\ parent' = "judge"
          /\ UNCHANGED <<child, code, lines, open, watching, address, refusal, tail>>
       \/ Fails                                          \* interrupted

(***************************************************************************)
(* rootsRefusal: a child that exits 2 within the wait, with a refusal on   *)
(* stderr; the stderr reader may not have got to it.  Any other child is   *)
(* ended.                                                                  *)
(***************************************************************************)
rootsRefusal == child = "exited" /\ code = 2 /\ tail

Judge ==
    /\ parent = "judge"
    /\ \/ /\ rootsRefusal
          /\ parent' = "refused"
          /\ UNCHANGED <<child, code, lines, open, watching, address, refusal, readers>>
       \/ ~rootsRefusal /\ Fails

(***************************************************************************)
(* stop(): close stdin, wait, then end the child harder.                   *)
(***************************************************************************)
Stop ==
    /\ parent = "target"
    /\ parent' = "stopping" /\ open' = FALSE
    /\ UNCHANGED <<child, code, lines, watching, address, refusal, readers>>

Stopped ==
    /\ parent = "stopping"
    /\ parent' = "stopped" /\ destroyForcibly
    /\ UNCHANGED <<lines, open, watching, address, refusal, readers>>

(***************************************************************************)
(* The parent process dies; the kernel closes its end of the pipe, with    *)
(* what it had written by then still in it.                                *)
(***************************************************************************)
ParentDies ==
    /\ parent \notin {"dead"}
    /\ parent' = "dead" /\ open' = FALSE
    /\ lines' \in IF parent = "write" /\ ChildRuns THEN 0..2 ELSE {lines}
    /\ UNCHANGED <<child, code, watching, address, refusal, readers>>
-----------------------------------------------------------------------------
(***************************************************************************)
(* The child.                                                              *)
(***************************************************************************)
Exit(c) == child' = "exited" /\ code' = c

(***************************************************************************)
(* read_line: the next line, or the end of the pipe, which fails the       *)
(* handshake.                                                              *)
(***************************************************************************)
AtEnd == lines = 0 /\ ~open

Token ==
    /\ child = "token"
    /\ \/ lines > 0 /\ lines' = lines - 1 /\ child' = "roots" /\ UNCHANGED code
       \/ AtEnd /\ Exit(2) /\ UNCHANGED lines
    /\ UNCHANGED <<parent, open, watching, address, refusal, readers>>

(***************************************************************************)
(* A roots line longer than the child reads, or one Roots refuses, fails   *)
(* the handshake too; then the watcher starts.                             *)
(***************************************************************************)
Roots ==
    /\ child = "roots"
    /\ \/ lines > 0 /\ lines' = lines - 1 /\ child' = "load" /\ watching' = TRUE /\ UNCHANGED code
       \/ lines > 0 /\ lines' = lines - 1 /\ Exit(2) /\ UNCHANGED watching
       \/ AtEnd /\ Exit(2) /\ UNCHANGED <<lines, watching>>
    /\ UNCHANGED <<parent, open, address, refusal, readers>>

Load ==
    /\ child = "load"
    /\ \/ child' = "init" /\ UNCHANGED code
       \/ Exit(70)
    /\ UNCHANGED <<parent, lines, open, watching, address, refusal, readers>>

(***************************************************************************)
(* Verifier::new: init accepts, refuses, or fails; serve says 2 for both.  *)
(***************************************************************************)
InitGuest ==
    /\ child = "init"
    /\ \/ child' = "bind" /\ UNCHANGED <<code, refusal>>
       \/ refusal' = TRUE /\ Exit(2)
       \/ Exit(2) /\ UNCHANGED refusal
    /\ UNCHANGED <<parent, lines, open, watching, address, readers>>

Bind ==
    /\ child = "bind"
    /\ \/ child' = "up" /\ address' = TRUE /\ UNCHANGED code
       \/ Exit(70) /\ UNCHANGED address
    /\ UNCHANGED <<parent, lines, open, watching, refusal, readers>>

Watch_forever == FALSE /\ UNCHANGED vars

(***************************************************************************)
(* The watcher reads on; the end of the pipe ends the process, whatever    *)
(* its main thread is doing.                                               *)
(***************************************************************************)
Watch ==
    /\ watching /\ ChildRuns /\ AtEnd
    /\ Exit(0)
    /\ UNCHANGED <<parent, lines, open, watching, address, refusal, readers>>

ChildDies ==
    /\ ChildRuns /\ Exit(Signal)
    /\ UNCHANGED <<parent, lines, open, watching, address, refusal, readers>>
-----------------------------------------------------------------------------
ParentNext ==
    Spawn \/ Write \/ ReadStdout \/ ReadStderr \/ Poll \/ Judge \/ Stop \/ Stopped \/ ParentDies
ChildNext == Token \/ Roots \/ Load \/ InitGuest \/ Bind \/ Watch

Next == ParentNext \/ ChildNext \/ ChildDies

(***************************************************************************)
(* Both processes run: each of the parent's waits ends, the child's        *)
(* threads make progress.  Nobody has to call stop() or to die.            *)
(***************************************************************************)
Fairness ==
    /\ WF_vars(Spawn \/ Write \/ Poll \/ Judge \/ Stopped)
    /\ WF_vars(Token) /\ WF_vars(Roots) /\ WF_vars(Load) /\ WF_vars(InitGuest)
    /\ WF_vars(Bind) /\ WF_vars(Watch)

Spec == Init /\ [][Next]_vars /\ Fairness
-----------------------------------------------------------------------------
(***************************************************************************)
(* A parent that is gone, even one killed in the middle of the handshake,  *)
(* takes its child along: the child notices the end of its stdin in every  *)
(* step it can be in.                                                      *)
(***************************************************************************)
ChildFollowsParent == parent = "dead" ~> ~ChildRuns
=============================================================================
