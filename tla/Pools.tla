------------------------------- MODULE Pools --------------------------------
(***************************************************************************)
(* The pools of Wasm instances of java-wasm, Python and Ruby, each of      *)
(* which implements InstancePool.  They share no state: a behaviour runs   *)
(* one pool and the others stay empty.                                     *)
(***************************************************************************)
EXTENDS GuestPool, TLC

VARIABLES
    pool,                                                         \* the pool that runs
    free, slots, pyMade, pyFailed, pyPc, instance,                \* PythonPool
    rbIdle, rbMade, rbFailed, rbPc, rbGuest                       \* RubyPool

Python == INSTANCE PythonPool WITH
    size <- maxIdle, made <- pyMade, failed <- pyFailed, pc <- pyPc
Ruby == INSTANCE RubyPool WITH
    MAX_IDLE <- maxIdle, idle <- rbIdle, made <- rbMade, failed <- rbFailed, pc <- rbPc, guest <- rbGuest

\* Threads and instances are alike.
Symmetry == Permutations(Caller) \cup Permutations(Instance)

ASSUME PoolAssumption
ASSUME Python!PythonPoolAssumption
ASSUME Ruby!RubyPoolAssumption

pythonVars == <<free, slots, pyMade, pyFailed, pyPc, instance>>
rubyVars == <<rbIdle, rbMade, rbFailed, rbPc, rbGuest>>

NoGuestPool ==
    /\ idle = <<>> /\ idleCount = 0 /\ made = {} /\ failed = {} /\ maxInputBytes = FALSE
    /\ pc = [t \in Caller |-> "poll"] /\ guest = [t \in Caller |-> Nobody]
NoPythonPool ==
    /\ free = <<>> /\ slots = maxIdle /\ pyMade = {} /\ pyFailed = {}
    /\ pyPc = [t \in Caller |-> "idle"] /\ instance = [t \in Caller |-> Nobody]
NoRubyPool ==
    /\ rbIdle = <<>> /\ rbMade = {} /\ rbFailed = {}
    /\ rbPc = [t \in Caller |-> "checkout"] /\ rbGuest = [t \in Caller |-> Nobody]

PoolsInit ==
    \/ pool = "java-wasm" /\ Init /\ NoPythonPool /\ NoRubyPool
    \/ pool = "python" /\ Python!Init /\ NoGuestPool /\ NoRubyPool
    \/ pool = "ruby" /\ Ruby!Init /\ NoGuestPool /\ NoPythonPool

PoolsNext ==
    \/ pool = "java-wasm" /\ Next /\ UNCHANGED <<pool, pythonVars, rubyVars>>
    \/ pool = "python" /\ Python!Next /\ UNCHANGED <<pool, vars, rubyVars>>
    \/ pool = "ruby" /\ Ruby!Next /\ UNCHANGED <<pool, vars, pythonVars>>

PoolsSpec == PoolsInit /\ [][PoolsNext]_<<pool, vars, pythonVars, rubyVars>>
-----------------------------------------------------------------------------
(* python _host.py implements InstancePool with room for its size: a call  *)
(* has an instance of its own, and one that failed never serves another.   *)
ImplementsInstancePool == Python!ImplementsInstancePool

(* python: the instances in use, being made and kept are never more than   *)
(* the pool's size, however many threads call.                             *)
AtMostSizeInstances == Python!AtMostSizeInstances

(* ruby pool.rb implements InstancePool, but keeps up to one instance per  *)
(* caller; a guest that trapped or was cut short never serves again.       *)
ImplementsLooserPool == Ruby!ImplementsLooserPool
=============================================================================
