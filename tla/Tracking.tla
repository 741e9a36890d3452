------------------------------ MODULE Tracking ------------------------------
(***************************************************************************)
(* Which processes AgentGuard supervises: the tracked_pids map that the    *)
(* programs of monitor.bpf.c keep up to date and that every tracepoint and *)
(* every LSM hook consults before it does anything else.                   *)
(*                                                                         *)
(* Userspace inserts one key, the root of the agent.  From there on the    *)
(* kernel side is on its own: handle_fork adds the child of a tracked      *)
(* process, handle_exit removes keys as threads exit.  Keys are process    *)
(* ids (TGIDs) of AgentGuard's pid namespace, but sched_process_exit fires *)
(* once per thread, ids are reused, the map has a fixed size and a process *)
(* may live in a nested pid namespace.  The module models all four.        *)
(*                                                                         *)
(* Thread ids and process ids are one number space, as in the kernel: the  *)
(* threads of process p are threads[p], its group leader is thread p.      *)
(***************************************************************************)
EXTENDS Naturals, FiniteSets

CONSTANTS
    Pids,          \* ids a task can have in AgentGuard's pid namespace
    MaxTracked,    \* max_entries of tracked_pids (8192 in the code)
    AgentNsLevel   \* depth of AgentGuard's pid namespace below the init one

ASSUME PidsAssumption == 0 \notin Pids /\ IsFiniteSet(Pids)
ASSUME MaxTrackedAssumption == MaxTracked \in Nat
ASSUME AgentNsLevelAssumption == AgentNsLevel \in Nat

VARIABLES
    attached,      \* the fork and exit programs are attached
    threads,       \* threads[p]: live thread ids of process p, {} if there is none
    inner,         \* processes whose own pid namespace is nested in AgentGuard's
    tracked_pids,  \* the keys of the BPF hash map
    agentTree,     \* ghost: the tracked roots and every process forked below them
    lapsed,        \* ghost: agent processes the tracker has let go of (see below)
    stale          \* ghost: keys that no longer stand for an agent process

kernelVars == <<threads, inner>>
ghostVars == <<agentTree, lapsed, stale>>
trackingVars == <<attached, threads, inner, tracked_pids, agentTree, lapsed, stale>>

Live == {p \in Pids : threads[p] # {}}

\* Ids no new task can get: live threads, and a leader's id until its group is gone.
InUse == Live \cup UNION {threads[p] : p \in Pids}

-----------------------------------------------------------------------------
(* monitor.bpf.c                                                           *)

\* bpf_get_ns_current_pid_tgid succeeds only if current's own namespace is AgentGuard's.
current_nspids(p) == p \notin inner

\* numbers[0..3] are looked at, the agent's namespace sits at AgentNsLevel.
pid_nr_in_agent_ns(p) == IF AgentNsLevel <= 3 THEN p ELSE 0

MapFull == Cardinality(tracked_pids) >= MaxTracked

\* bpf_map_update_elem: an existing key is overwritten, a new one needs room.
map_update(k) == IF k \in tracked_pids \/ ~MapFull THEN tracked_pids \cup {k} ELSE tracked_pids

\* The map after process p (of any thread of it) forked process c.  Both the
\* failed lookups and the ignored result of the update leave the map as it is.
handle_fork(p, c) ==
    IF /\ attached
       /\ current_nspids(p)
       /\ p \in tracked_pids
       /\ pid_nr_in_agent_ns(c) # 0
    THEN map_update(pid_nr_in_agent_ns(c))
    ELSE tracked_pids

\* Mutant: the process key goes with whichever thread exits first.
ExitDropsTgidAlways(p, t) ==
    IF attached /\ current_nspids(p) THEN tracked_pids \ {t, p} ELSE tracked_pids

\* Mutant: only worker tids are cleaned up.
ExitKeepsTgid(p, t) ==
    IF attached /\ current_nspids(p) /\ t # p THEN tracked_pids \ {t} ELSE tracked_pids

\* The map after thread t of process p exited.
handle_exit(p, t) ==
    IF attached /\ current_nspids(p)
    THEN tracked_pids \ ({t} \cup (IF t = p THEN {p} ELSE {}))
    ELSE tracked_pids

-----------------------------------------------------------------------------
Init ==
    /\ attached = FALSE
    /\ threads = [p \in Pids |-> {}]
    /\ inner = {}
    /\ tracked_pids = {}
    /\ agentTree = {}
    /\ lapsed = {}
    /\ stale = {}

\* runEnforcer has loaded the objects and attached every program; the map is empty.
AttachPrograms ==
    /\ ~attached
    /\ attached' = TRUE
    /\ UNCHANGED <<kernelVars, tracked_pids, ghostVars>>

\* AgentGuard is gone: the kernel drops its links and, with them, the map.
ReleasePrograms ==
    /\ attached
    /\ attached' = FALSE
    /\ tracked_pids' = {}
    /\ agentTree' = {}
    /\ lapsed' = {}
    /\ stale' = {}
    /\ UNCHANGED kernelVars

\* TrackedPids.Update(p) from userspace; a full map makes it fail, which is
\* fatal to the caller.  Nothing checks that p is alive.
TrackPid(p) ==
    /\ attached
    /\ p \in tracked_pids \/ ~MapFull
    /\ tracked_pids' = map_update(p)
    /\ agentTree' = IF p \in Live THEN agentTree \cup {p} ELSE agentTree
    /\ lapsed' = lapsed \cup ({p} \cap inner)
    /\ stale' = IF p \in Live THEN stale ELSE stale \cup {p}
    /\ UNCHANGED <<attached, kernelVars>>

\* A process appears whose parent is none of Pids.
Spawn(c) ==
    /\ c \notin InUse
    /\ threads' = [threads EXCEPT ![c] = {c}]
    /\ UNCHANGED <<attached, inner, tracked_pids, ghostVars>>

(***************************************************************************)
(* p forks c, into a new pid namespace if newns.  The ghosts follow the    *)
(* family tree and not the map: c belongs to the agent if p does, and the  *)
(* tracker lets c go if it had let p go, if p runs in a nested namespace,  *)
(* if c is to run in one, if the map is full and a stale key does not      *)
(* already stand there for c, or if AgentGuard's namespace is deeper than  *)
(* the four levels that are searched.                                      *)
(***************************************************************************)
Fork(p, c, newns) ==
    /\ p \in Live
    /\ c \notin InUse
    /\ threads' = [threads EXCEPT ![c] = {c}]
    /\ inner' = IF newns \/ p \in inner THEN inner \cup {c} ELSE inner
    /\ tracked_pids' = handle_fork(p, c)
    /\ agentTree' = IF p \in agentTree THEN agentTree \cup {c} ELSE agentTree
    /\ lapsed' = IF /\ p \in agentTree
                    /\ \/ p \in lapsed \/ p \in inner \/ newns \/ AgentNsLevel > 3
                       \/ MapFull /\ c \notin tracked_pids
                 THEN lapsed \cup {c} ELSE lapsed
    /\ stale' = IF p \in tracked_pids \ agentTree
                THEN stale \cup ({c} \cap tracked_pids') ELSE stale
    /\ UNCHANGED attached

\* clone(CLONE_THREAD): handle_fork returns at once, tid and tgid differ.
CloneThread(p, t) ==
    /\ p \in Live
    /\ t \notin InUse
    /\ threads' = [threads EXCEPT ![p] = @ \cup {t}]
    /\ UNCHANGED <<attached, inner, tracked_pids, ghostVars>>

\* Thread t of p exits.  When the leader goes before its workers, handle_exit
\* drops the key of a process that is still running: p lapses.
ThreadExit(p, t) ==
    /\ t \in threads[p]
    /\ threads' = [threads EXCEPT ![p] = @ \ {t}]
    /\ tracked_pids' = handle_exit(p, t)
    /\ IF threads[p] = {t}
       THEN /\ inner' = inner \ {p}
            /\ agentTree' = agentTree \ {p}
            /\ lapsed' = lapsed \ {p}
            /\ stale' = (IF p \in inner \/ t # p THEN stale \cup {p} ELSE stale)
                           \cap tracked_pids'
       ELSE /\ lapsed' = IF t = p THEN lapsed \cup ({p} \cap agentTree) ELSE lapsed
            /\ stale' = stale \cap tracked_pids'
            /\ UNCHANGED <<inner, agentTree>>
    /\ UNCHANGED attached

\* execve from a worker thread t: the other threads exit, one handle_exit each,
\* and t takes over the leader's id.  The exit of the old leader drops p's key.
ExecNonLeader(p, t) ==
    /\ t \in threads[p] \ {p}
    /\ threads' = [threads EXCEPT ![p] = {p}]
    /\ tracked_pids' = tracked_pids
                         \ UNION {tracked_pids \ handle_exit(p, u) : u \in threads[p] \ {t}}
    /\ lapsed' = lapsed \cup ({p} \cap agentTree)
    /\ stale' = stale \cap tracked_pids'
    /\ UNCHANGED <<attached, inner, agentTree>>

\* What happens without AgentGuard's userspace: the processes of runnable take
\* steps of their own, new tasks get ids of free, and any thread may be killed.
KernelStepOf(runnable, free) ==
    \/ \E c \in free : Spawn(c)
    \/ \E p \in runnable, c \in free, newns \in BOOLEAN : Fork(p, c, newns)
    \/ \E p \in runnable, t \in free : CloneThread(p, t)
    \/ \E p \in runnable, t \in Pids : ExecNonLeader(p, t)
    \/ \E p, t \in Pids : ThreadExit(p, t)

KernelStep == KernelStepOf(Pids, Pids)

Next ==
    \/ AttachPrograms
    \/ ReleasePrograms
    \/ \E p \in Pids : TrackPid(p)
    \/ KernelStep

Spec == Init /\ [][Next]_trackingVars

-----------------------------------------------------------------------------
TypeOK ==
    /\ attached \in BOOLEAN
    /\ threads \in [Pids -> SUBSET Pids]
    /\ inner \subseteq Live
    /\ tracked_pids \subseteq Pids
    /\ agentTree \subseteq Live
    /\ lapsed \subseteq agentTree
    /\ stale \subseteq tracked_pids

\* The kernel hands out an id once: a worker's tid is no process's id, and no
\* two processes share a thread.  Every argument about handle_exit rests on it.
IdsUnique ==
    \A p, q \in Pids : p # q => /\ threads[p] \cap threads[q] = {}
                                /\ q \in threads[p] => threads[q] = {}

\* What makes a hook act on p: its ids resolve and its key is found.
Enforced(p) == attached /\ current_nspids(p) /\ p \in tracked_pids

(***************************************************************************)
(* Every agent process that has not lapsed is enforced upon, whatever was  *)
(* forked, cloned, exec'ed, reaped and renumbered before: handle_exit      *)
(* never takes the key of one process away because a thread of that or of  *)
(* another process exits, and handle_fork misses no child.                 *)
(***************************************************************************)
SupervisedAreTracked == \A p \in agentTree \ lapsed : Enforced(p)

(***************************************************************************)
(* And nothing else is: a key is an agent process, or one of the keys that *)
(* outlive their process (the exit happened in a nested namespace, or the  *)
(* id was tracked from userspace after the leader or the whole process had *)
(* gone), or what a later owner of such an id forked.                      *)
(***************************************************************************)
TrackedBelongsToAgent == tracked_pids \subseteq agentTree \cup stale

=============================================================================
