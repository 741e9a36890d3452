-------------------------- MODULE SupervisorProofs --------------------------
(***************************************************************************)
(* The supervisor implements the tracker, and through it inherits what     *)
(* module TrackingProofs shows of the tracker; on top of that, the ptrace  *)
(* hold leaves no unsupervised window and no error path leaves a running   *)
(* agent.  The inductive invariant says, phase by phase, what the launched *)
(* child may be doing, and that the child is in the agent tree from the    *)
(* map update on for as long as it lives.                                  *)
(***************************************************************************)
EXTENDS Supervisor, TrackingProofs

GuardTypes ==
    /\ mode \in {"launch", "attach"}
    /\ phase \in Phases
    /\ exit \in {"none", "ok", "fatal", "crash"}
    /\ root \in Pids \cup {0}
    /\ agent \in AgentStates
    /\ onTracer \in BOOLEAN
    /\ ctxDone \in BOOLEAN

\* What the child can be doing in each phase of the launch.
ChildByPhase ==
    /\ mode = "attach" => agent = "none"
    /\ phase \in {"setup", "hooked"} => agent = "none" /\ root = 0
    /\ Launching => mode = "launch" /\ root # 0
    /\ phase = "started" => agent \in {"starting", "stopped", "dead"}
    /\ phase \in {"stopSeen", "tracked"} => agent \in {"stopped", "dead"}
    /\ phase = "failing" => agent \in {"dying", "dead"}
    /\ phase = "serving" => root # 0 /\ (mode = "launch" => agent \in {"running", "dead"})
    /\ exit = "none" <=> phase # "gone"
    /\ exit = "fatal" => agent \in {"none", "dying", "dead"}
    /\ (exit = "ok" /\ mode = "launch") => agent = "dead"

\* The recorded state of the child agrees with the kernel's, and the map update
\* has put the child into the tree.
ChildIsInTree ==
    /\ (RootReserved /\ agent # "dead") => root \in Live
    /\ (phase = "tracked" /\ agent # "dead") => root \in agentTree
    /\ (phase = "serving" /\ mode = "launch" /\ agent # "dead") => root \in agentTree

SInv == IInv /\ GuardTypes /\ ChildByPhase /\ ChildIsInTree

-----------------------------------------------------------------------------
\* Restricting who runs and which ids are free gives a step of the tracker.
LEMMA KernelStepOfIsStep ==
    ASSUME NEW P \in SUBSET Pids, NEW F \in SUBSET Pids, KernelStepOf(P, F)
    PROVE  KernelStep
BY DEF KernelStep, KernelStepOf

\* Every step of the supervisor is a step of the tracker or leaves it alone.
LEMMA StepRefines == GuardTypes /\ ChildByPhase /\ [SupervisorNext]_vars => [Next]_trackingVars
<1> SUFFICES ASSUME GuardTypes, ChildByPhase, [SupervisorNext]_vars
             PROVE  [Next]_trackingVars
  OBVIOUS
<1>1. CASE Setup
  BY <1>1 DEF Setup, Next
<1>2. ASSUME NEW how, Leave(how) PROVE [Next]_trackingVars
  BY <1>2 DEF Leave, Next, trackingVars
<1>3. CASE FatalEarly \/ FatalLaunch \/ Return \/ Crash
  BY <1>2, <1>3 DEF FatalEarly, FatalLaunch, Return, Crash
<1>4. CASE \E c \in Pids : StartAgent(c)
  BY <1>4 DEF StartAgent, Next, KernelStep, KernelStepOf
<1>5. CASE TrackAgent
  <2>1. root \in Pids
    BY <1>5 DEF TrackAgent, GuardTypes, ChildByPhase, Launching
  <2>2. QED
    BY <1>5, <2>1 DEF TrackAgent, Next
<1>6. CASE \E p \in Pids : AttachTrack(p)
  BY <1>6 DEF AttachTrack, Next
<1>7. CASE Processes
  BY <1>7, KernelStepOfIsStep DEF Processes, Next
<1>8. CASE WaitStop \/ Detach \/ KillAgent \/ Migrate \/ Signal \/ ChildStops \/ UNCHANGED vars
  BY <1>8 DEF WaitStop, Detach, KillAgent, Migrate, Signal, ChildStops, vars
<1>9. QED
  BY <1>1, <1>3, <1>4, <1>5, <1>6, <1>7, <1>8 DEF SupervisorNext, GuardStep

\* An agent process leaves the tree only by dying.
LEMMA TreeKeepsTheLiving ==
    ASSUME IInv, NEW P \in SUBSET Pids, NEW F \in SUBSET Pids, KernelStepOf(P, F),
           NEW r \in agentTree, threads'[r] # {}
    PROVE  r \in agentTree'
<1>1. ASSUME NEW p \in Pids, NEW t \in Pids, ThreadExit(p, t) PROVE r \in agentTree'
  <2>1. CASE p = r
    BY <1>1, <2>1 DEF ThreadExit, IInv, TypeOK
  <2>2. CASE p # r
    BY <1>1, <2>2 DEF ThreadExit
  <2>3. QED
    BY <2>1, <2>2
<1>2. QED
  BY <1>1 DEF KernelStepOf, Spawn, Fork, CloneThread, ExecNonLeader, ghostVars

\* The end of AgentGuard, by whichever path, keeps the bookkeeping consistent.
LEMMA LeaveKeeps ==
    ASSUME SInv, NEW how \in {"ok", "fatal", "crash"}, Leave(how), phase # "gone",
           how = "fatal" => agent \notin {"starting", "stopped", "running"},
           (how = "ok" /\ mode = "launch") => agent = "dead"
    PROVE  GuardTypes' /\ ChildByPhase' /\ ChildIsInTree'
<1>1. GuardTypes'
  BY DEF SInv, GuardTypes, Leave, Phases, AgentStates
<1>2. ChildByPhase'
  BY DEF SInv, GuardTypes, AgentStates, ChildByPhase, Launching, Leave
<1>3. ChildIsInTree'
  BY DEF ChildIsInTree, RootReserved, Leave
<1>4. QED
  BY <1>1, <1>2, <1>3

\* Each step keeps the three parts of the invariant that are the supervisor's own.
LEMMA GuardPreserves ==
    ASSUME SInv, [SupervisorNext]_vars
    PROVE  GuardTypes' /\ ChildByPhase' /\ ChildIsInTree'
<1> USE PidsAssumption DEF Phases, AgentStates, Launching
<1>1. CASE Setup
  BY <1>1 DEF SInv, GuardTypes, ChildByPhase, ChildIsInTree, RootReserved, Setup
<1>2. CASE FatalEarly \/ FatalLaunch \/ Return \/ Crash
  <2>1. CASE FatalEarly
    BY <2>1, LeaveKeeps DEF FatalEarly, SInv, ChildByPhase
  <2>2. CASE FatalLaunch
    BY <2>2, LeaveKeeps DEF FatalLaunch, SInv, ChildByPhase
  <2>3. CASE Return
    BY <2>3, LeaveKeeps DEF Return
  <2>4. CASE Crash
    BY <2>4, LeaveKeeps DEF Crash
  <2>5. QED
    BY <1>2, <2>1, <2>2, <2>3, <2>4
<1>3. ASSUME NEW c \in Pids, StartAgent(c) PROVE GuardTypes' /\ ChildByPhase' /\ ChildIsInTree'
  <2>1. c \in Live'
    BY <1>3 DEF StartAgent, Spawn, Live, SInv, IInv, TypeOK
  <2>2. QED
    BY <1>3, <2>1 DEF SInv, GuardTypes, ChildByPhase, ChildIsInTree, StartAgent
<1>4. CASE ChildStops
  BY <1>4 DEF SInv, GuardTypes, ChildByPhase, ChildIsInTree, RootReserved, ChildStops,
              trackingVars, Live
<1>5. CASE WaitStop
  BY <1>5 DEF SInv, GuardTypes, ChildByPhase, ChildIsInTree, RootReserved, WaitStop,
              trackingVars, Live
<1>6. CASE TrackAgent
  <2>1. Live' = Live
    BY <1>6 DEF TrackAgent, TrackPid, kernelVars, Live
  <2>2. (agent # "dead") => root \in agentTree'
    BY <1>6 DEF TrackAgent, TrackPid, SInv, ChildByPhase, ChildIsInTree, RootReserved
  <2>3. QED
    BY <1>6, <2>1, <2>2
       DEF SInv, GuardTypes, ChildByPhase, ChildIsInTree, RootReserved, TrackAgent
<1>7. CASE Detach
  BY <1>7 DEF SInv, GuardTypes, ChildByPhase, ChildIsInTree, RootReserved, Detach,
              trackingVars, Live
<1>8. CASE KillAgent
  BY <1>8 DEF SInv, GuardTypes, ChildByPhase, ChildIsInTree, RootReserved, KillAgent,
              LaunchFails, trackingVars, Live
<1>9. CASE Migrate \/ Signal
  BY <1>9 DEF SInv, GuardTypes, ChildByPhase, ChildIsInTree, RootReserved, Migrate, Signal,
              trackingVars, Live
<1>10. CASE \E p \in Pids : AttachTrack(p)
  BY <1>10 DEF SInv, GuardTypes, ChildByPhase, ChildIsInTree, RootReserved, AttachTrack
<1>11. CASE Processes
  <2>1. GuardTypes'
    BY <1>11 DEF SInv, GuardTypes, Processes
  <2>2. ChildByPhase'
    BY <1>11 DEF SInv, GuardTypes, ChildByPhase, Processes
  <2>3. (RootReserved' /\ agent' # "dead") => root' \in Live'
    BY <1>11 DEF SInv, GuardTypes, RootReserved, Processes, Live
  <2>4. ASSUME phase' \in {"tracked", "serving"}, mode' = "launch", agent' # "dead"
        PROVE  root' \in agentTree'
    <3>1. root \in agentTree /\ threads'[root] # {}
      BY <1>11, <2>4 DEF SInv, ChildByPhase, ChildIsInTree, Processes
    <3>2. QED
      BY <1>11, <3>1, TreeKeepsTheLiving DEF Processes, SInv
  <2>5. QED
    BY <2>1, <2>2, <2>3, <2>4 DEF ChildIsInTree, ChildByPhase
<1>12. CASE UNCHANGED vars
  BY <1>12 DEF SInv, GuardTypes, ChildByPhase, ChildIsInTree, RootReserved, vars, guardVars,
               trackingVars, Live
<1>13. QED
  BY <1>1, <1>2, <1>3, <1>4, <1>5, <1>6, <1>7, <1>8, <1>9, <1>10, <1>11, <1>12
     DEF SupervisorNext, GuardStep


LEMMA InitSInv == SupervisorInit => SInv
BY InitIInv DEF SupervisorInit, SInv, GuardTypes, ChildByPhase, ChildIsInTree, RootReserved,
                Launching, Phases, AgentStates

\* The supervisor's inductive invariant holds throughout.
THEOREM SupervisorInvariant == SupervisorSpec => []SInv
<1>1. SInv /\ [SupervisorNext]_vars => SInv'
  BY StepRefines, NextPreserves, GuardPreserves DEF SInv
<1>2. QED
  BY InitSInv, <1>1, PTL DEF SupervisorSpec

\* runEnforcer, with all its failures and crashes, drives the tracker only as
\* module Tracking allows: whatever is proved of Tracking holds here.
THEOREM SupervisorImplementsTracking == SupervisorSpec => ImplementsTracking
<1>1. SupervisorInit => Init
  BY DEF SupervisorInit
<1>2. SInv /\ [SupervisorNext]_vars => [Next]_trackingVars
  BY StepRefines DEF SInv
<1>3. QED
  BY <1>1, <1>2, SupervisorInvariant, PTL DEF SupervisorSpec, ImplementsTracking, Spec

\* No window: a launched agent that can execute is supervised, unless AgentGuard
\* was killed (main.go's Start, wait, Update, detach, Wait in every interleaving).
THEOREM NoUnsupervisedWindow == SupervisorSpec => []AgentRunsOnlySupervised
<1>1. SInv => AgentRunsOnlySupervised
  <2> SUFFICES ASSUME SInv, exit # "crash", AgentRuns
               PROVE  root \in agentTree /\ (root \in lapsed \/ Enforced(root))
    BY DEF AgentRunsOnlySupervised
  <2>1. phase = "serving" /\ mode = "launch"
    BY DEF SInv, GuardTypes, ChildByPhase, AgentRuns, Phases
  <2>2. root \in agentTree
    BY <2>1 DEF SInv, ChildIsInTree, AgentRuns
  <2>3. QED
    BY <2>2 DEF SInv, IInv, SupervisedAreTracked
<1>2. QED
  BY <1>1, SupervisorInvariant, PTL

\* No log.Fatal of AgentGuard leaves the agent it launched running.
THEOREM NoAgentAfterFatal == SupervisorSpec => []FatalLeavesNoAgent
<1>1. SInv => FatalLeavesNoAgent
  BY DEF SInv, ChildByPhase, FatalLeavesNoAgent, AgentRuns
<1>2. QED
  BY <1>1, SupervisorInvariant, PTL

\* Types of the supervisor and of the tracker it drives.
THEOREM SupervisorTypes == SupervisorSpec => []SupervisorTypeOK
<1>1. SInv => SupervisorTypeOK
  BY DEF SInv, IInv, GuardTypes, SupervisorTypeOK
<1>2. QED
  BY <1>1, SupervisorInvariant, PTL
=============================================================================
