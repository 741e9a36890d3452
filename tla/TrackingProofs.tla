--------------------------- MODULE TrackingProofs ---------------------------
(***************************************************************************)
(* For every set of ids, every map size and every namespace depth: the     *)
(* tracker keeps each agent process it has not let go of, and keeps no     *)
(* others.  Neither property is inductive alone.  That an exiting thread   *)
(* cannot take another process's key away needs the uniqueness of ids;     *)
(* that exits before the programs are attached leave no key behind needs   *)
(* the map to be empty then.                                               *)
(***************************************************************************)
EXTENDS Tracking, TLAPS

\* Before the programs are attached and after they are released nothing is tracked.
DetachedIsEmpty == ~attached => tracked_pids = {} /\ agentTree = {}

IInv ==
    /\ TypeOK
    /\ IdsUnique
    /\ DetachedIsEmpty
    /\ SupervisedAreTracked
    /\ TrackedBelongsToAgent

\* The empty initial state satisfies every part of the inductive invariant.
LEMMA InitIInv == Init => IInv
BY DEF Init, IInv, TypeOK, IdsUnique, DetachedIsEmpty, SupervisedAreTracked,
       TrackedBelongsToAgent, Enforced, Live

\* What the two BPF handlers do to the map, for whatever ids they are run on.
LEMMA HandlerFacts ==
    ASSUME TypeOK, NEW p \in Pids, NEW c \in Pids
    PROVE  /\ handle_fork(p, c) \in {tracked_pids, tracked_pids \cup {c}}
           /\ p \notin tracked_pids => handle_fork(p, c) = tracked_pids
           /\ (Enforced(p) /\ (c \in tracked_pids \/ ~MapFull) /\ AgentNsLevel <= 3)
                 => c \in handle_fork(p, c)
           /\ (attached /\ p \notin inner) => handle_exit(p, c) = tracked_pids \ {c}
           /\ ~(attached /\ p \notin inner) => handle_exit(p, c) = tracked_pids
BY PidsAssumption
   DEF handle_fork, handle_exit, map_update, pid_nr_in_agent_ns, current_nspids, Enforced, TypeOK

\* Starting and stopping AgentGuard preserve the invariant.
LEMMA LifecyclePreserves ==
    IInv /\ (AttachPrograms \/ ReleasePrograms) => IInv'
BY DEF IInv, TypeOK, IdsUnique, DetachedIsEmpty, SupervisedAreTracked, TrackedBelongsToAgent,
       Enforced, Live, AttachPrograms, ReleasePrograms, kernelVars, ghostVars, current_nspids

\* So does the update from userspace, of a live id or of a dead one.
LEMMA TrackPidPreserves ==
    ASSUME IInv, NEW p \in Pids, TrackPid(p) PROVE IInv'
BY DEF IInv, TypeOK, IdsUnique, DetachedIsEmpty, SupervisedAreTracked, TrackedBelongsToAgent,
       Enforced, Live, TrackPid, map_update, kernelVars, current_nspids

\* A new process, forked or not, takes an id nobody holds.
LEMMA NewProcessKeepsIds ==
    ASSUME TypeOK, IdsUnique, NEW c \in Pids, c \notin InUse,
           threads' = [threads EXCEPT ![c] = {c}]
    PROVE  /\ threads' \in [Pids -> SUBSET Pids]
           /\ IdsUnique'
           /\ Live' = Live \cup {c}
           /\ c \notin Live
BY DEF TypeOK, IdsUnique, InUse, Live

LEMMA SpawnPreserves ==
    ASSUME IInv, NEW c \in Pids, Spawn(c) PROVE IInv'
<1>1. /\ threads' \in [Pids -> SUBSET Pids] /\ IdsUnique' /\ Live' = Live \cup {c}
  BY NewProcessKeepsIds DEF IInv, Spawn
<1>2. QED
  BY <1>1 DEF IInv, TypeOK, DetachedIsEmpty, SupervisedAreTracked, TrackedBelongsToAgent,
              Enforced, Spawn, ghostVars, current_nspids

\* A fork leaves every key it finds and adds the child's unless the child lapses.
LEMMA ForkPreserves ==
    ASSUME IInv, NEW p \in Pids, NEW c \in Pids, NEW newns \in BOOLEAN, Fork(p, c, newns)
    PROVE  IInv'
<1>1. /\ threads' \in [Pids -> SUBSET Pids] /\ IdsUnique' /\ Live' = Live \cup {c} /\ c \notin Live
  BY NewProcessKeepsIds DEF IInv, Fork
<1>2. /\ tracked_pids' \in {tracked_pids, tracked_pids \cup {c}}
      /\ p \notin tracked_pids => tracked_pids' = tracked_pids
      /\ (Enforced(p) /\ (c \in tracked_pids \/ ~MapFull) /\ AgentNsLevel <= 3)
            => c \in tracked_pids'
  BY HandlerFacts DEF IInv, Fork
<1>3. TypeOK'
  BY <1>1, <1>2 DEF IInv, TypeOK, Fork
<1>4. DetachedIsEmpty'
  BY <1>2 DEF IInv, DetachedIsEmpty, Fork
<1>5. SupervisedAreTracked'
  <2> SUFFICES ASSUME NEW q \in agentTree' \ lapsed' PROVE Enforced(q)'
    BY DEF SupervisedAreTracked
  <2>1. CASE q = c
    <3>1. /\ p \in agentTree \ lapsed /\ p \notin inner /\ ~newns /\ ~(AgentNsLevel > 3)
          /\ c \in tracked_pids \/ ~MapFull
      BY <1>1, <2>1 DEF IInv, TypeOK, Fork
    <3>2. Enforced(p)
      BY <3>1 DEF IInv, SupervisedAreTracked
    <3>3. c \in tracked_pids'
      BY <1>2, <3>1, <3>2, AgentNsLevelAssumption
    <3>4. c \notin inner'
      BY <1>1, <3>1 DEF IInv, TypeOK, Fork
    <3>5. QED
      BY <2>1, <3>2, <3>3, <3>4 DEF Enforced, current_nspids, Fork
  <2>2. CASE q # c
    <3>1. q \in agentTree \ lapsed
      BY <2>2 DEF Fork
    <3>2. Enforced(q)
      BY <3>1 DEF IInv, SupervisedAreTracked
    <3>3. QED
      BY <1>2, <2>2, <3>2 DEF Enforced, current_nspids, Fork
  <2>3. QED
    BY <2>1, <2>2
<1>6. TrackedBelongsToAgent'
  BY <1>2 DEF IInv, TrackedBelongsToAgent, Fork
<1>7. QED
  BY <1>1, <1>3, <1>4, <1>5, <1>6 DEF IInv

\* A worker thread is on nobody's way: it takes an unused id and no key.
LEMMA CloneThreadPreserves ==
    ASSUME IInv, NEW p \in Pids, NEW t \in Pids, CloneThread(p, t) PROVE IInv'
<1>1. threads' \in [Pids -> SUBSET Pids] /\ IdsUnique' /\ Live' = Live
  BY DEF IInv, TypeOK, IdsUnique, InUse, Live, CloneThread
<1>2. QED
  BY <1>1 DEF IInv, TypeOK, DetachedIsEmpty, SupervisedAreTracked, TrackedBelongsToAgent,
              Enforced, CloneThread, ghostVars, current_nspids

(***************************************************************************)
(* The exit of thread t of process p.  The key that goes is t's.  If t is  *)
(* a worker, no process has that id (IdsUnique), so no agent process loses *)
(* its key; if t is the leader, the process that does is p itself, which   *)
(* is then gone or lapses.                                                 *)
(***************************************************************************)
LEMMA ThreadExitPreserves ==
    ASSUME IInv, NEW p \in Pids, NEW t \in Pids, ThreadExit(p, t) PROVE IInv'
<1>1. threads' \in [Pids -> SUBSET Pids] /\ IdsUnique'
  BY DEF IInv, TypeOK, IdsUnique, ThreadExit
<1>2. Live' = IF threads[p] = {t} THEN Live \ {p} ELSE Live
  BY DEF IInv, TypeOK, Live, ThreadExit
<1>3. t # p => t \notin Live
  BY DEF IInv, IdsUnique, Live, ThreadExit
<1>4. tracked_pids' = IF attached /\ p \notin inner THEN tracked_pids \ {t} ELSE tracked_pids
  BY HandlerFacts DEF IInv, ThreadExit
<1>5. TypeOK'
  BY <1>1, <1>2, <1>4 DEF IInv, TypeOK, ThreadExit
<1>6. DetachedIsEmpty'
  BY <1>4 DEF IInv, DetachedIsEmpty, ThreadExit
<1>7. SupervisedAreTracked'
  <2> SUFFICES ASSUME NEW q \in agentTree' \ lapsed' PROVE Enforced(q)'
    BY DEF SupervisedAreTracked
  <2>1. q \in agentTree \ lapsed
    BY DEF IInv, TypeOK, ThreadExit
  <2>2. q # t
    BY <1>2, <1>3, <1>5, <2>1 DEF IInv, TypeOK, ThreadExit
  <2>3. Enforced(q)
    BY <2>1 DEF IInv, SupervisedAreTracked
  <2>4. QED
    BY <1>4, <2>2, <2>3 DEF Enforced, current_nspids, ThreadExit
<1>8. TrackedBelongsToAgent'
  BY <1>4 DEF IInv, DetachedIsEmpty, TrackedBelongsToAgent, ThreadExit
<1>9. QED
  BY <1>1, <1>5, <1>6, <1>7, <1>8 DEF IInv

\* execve from a worker: the keys that go are those of p's own threads, and p lapses.
LEMMA ExecNonLeaderPreserves ==
    ASSUME IInv, NEW p \in Pids, NEW t \in Pids, ExecNonLeader(p, t) PROVE IInv'
<1>1. threads' \in [Pids -> SUBSET Pids] /\ IdsUnique' /\ Live' = Live
  BY DEF IInv, TypeOK, IdsUnique, Live, ExecNonLeader
<1>2. tracked_pids' \subseteq tracked_pids
  BY DEF ExecNonLeader
<1>3. \A q \in tracked_pids \ threads[p] : q \in tracked_pids'
  <2> SUFFICES ASSUME NEW q \in tracked_pids, q \notin threads[p],
                      NEW u \in threads[p] \ {t}, q \notin handle_exit(p, u)
               PROVE  FALSE
    BY DEF ExecNonLeader
  <2>1. QED
    BY HandlerFacts DEF IInv, TypeOK
<1>4. TypeOK'
  BY <1>1, <1>2 DEF IInv, TypeOK, ExecNonLeader
<1>5. SupervisedAreTracked'
  <2> SUFFICES ASSUME NEW q \in agentTree' \ lapsed' PROVE Enforced(q)'
    BY DEF SupervisedAreTracked
  <2>1. q \in agentTree \ lapsed /\ q # p
    BY DEF ExecNonLeader
  <2>2. q \notin threads[p]
    BY <2>1 DEF IInv, TypeOK, IdsUnique, Live
  <2>3. Enforced(q)
    BY <2>1 DEF IInv, SupervisedAreTracked
  <2>4. QED
    BY <1>3, <2>2, <2>3 DEF Enforced, current_nspids, ExecNonLeader
<1>6. DetachedIsEmpty' /\ TrackedBelongsToAgent'
  BY <1>2 DEF IInv, DetachedIsEmpty, TrackedBelongsToAgent, ExecNonLeader
<1>7. QED
  BY <1>1, <1>4, <1>5, <1>6 DEF IInv

\* Every step of the tracker or of the kernel preserves the invariant.
LEMMA NextPreserves == IInv /\ [Next]_trackingVars => IInv'
<1> SUFFICES ASSUME IInv, [Next]_trackingVars PROVE IInv'
  OBVIOUS
<1>1. CASE AttachPrograms \/ ReleasePrograms
  BY <1>1, LifecyclePreserves
<1>2. CASE \E p \in Pids : TrackPid(p)
  BY <1>2, TrackPidPreserves
<1>3. CASE KernelStep
  BY <1>3, SpawnPreserves, ForkPreserves, CloneThreadPreserves, ThreadExitPreserves,
     ExecNonLeaderPreserves DEF KernelStep, KernelStepOf
<1>4. CASE UNCHANGED trackingVars
  BY <1>4 DEF trackingVars, IInv, TypeOK, IdsUnique, DetachedIsEmpty, SupervisedAreTracked,
              TrackedBelongsToAgent, Enforced, Live, current_nspids
<1>5. QED
  BY <1>1, <1>2, <1>3, <1>4 DEF Next

\* The inductive invariant holds of every behaviour of the tracker.
THEOREM TrackingInvariant == Spec => []IInv
BY InitIInv, NextPreserves, PTL DEF Spec

\* The state of monitor.bpf.c and of the processes around it keeps its types.
THEOREM TrackingTypes == Spec => []TypeOK
<1>1. IInv => TypeOK
  BY DEF IInv
<1>2. QED
  BY TrackingInvariant, <1>1, PTL

\* No interleaving of forks, exits, execs and id reuse makes handle_exit or
\* handle_fork lose an agent process that has not lapsed.
THEOREM NoSupervisedProcessIsLost == Spec => []SupervisedAreTracked
<1>1. IInv => SupervisedAreTracked
  BY DEF IInv
<1>2. QED
  BY TrackingInvariant, <1>1, PTL

\* No process outside the agent is tracked, but for the documented stale keys.
THEOREM NoOutsiderIsTracked == Spec => []TrackedBelongsToAgent
<1>1. IInv => TrackedBelongsToAgent
  BY DEF IInv
<1>2. QED
  BY TrackingInvariant, <1>1, PTL
=============================================================================
