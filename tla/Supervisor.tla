----------------------------- MODULE Supervisor -----------------------------
(***************************************************************************)
(* The life of an AgentGuard process, runEnforcer of main.go: load and     *)
(* attach the BPF programs, then launch the agent (or attach to a running  *)
(* pid), then serve until the agent or the operator ends it.               *)
(*                                                                         *)
(* A launched agent must not execute an instruction before its pid is in   *)
(* tracked_pids.  The code holds it in the ptrace stop that its execve     *)
(* raises: Start, wait for the stop, update the map, detach.  Each of the  *)
(* four can fail, the agent can be killed from outside at any moment, the  *)
(* goroutine can move to another OS thread (only the thread that started   *)
(* the child may detach it), and AgentGuard itself can be killed.          *)
(*                                                                         *)
(* The tracker of module Tracking runs underneath, in the kernel.          *)
(***************************************************************************)
EXTENDS Tracking

VARIABLES
    mode,      \* "launch" (agentguard -- cmd) or "attach" (agentguard <pid>)
    phase,     \* where the main goroutine is
    exit,      \* how AgentGuard ended: "none", "ok", "fatal" or "crash"
    root,      \* targetPID; 0 until there is one
    agent,     \* the launched child, from "none" to "dead"
    onTracer,  \* the main goroutine runs on the thread that started the child
    ctxDone    \* SIGINT or SIGTERM arrived after NotifyContext

guardVars == <<mode, phase, exit, root, agent, onTracer, ctxDone>>
vars == <<trackingVars, guardVars>>

Phases == {"setup", "hooked", "started", "stopSeen", "tracked", "failing", "serving", "gone"}
AgentStates == {"none", "starting", "stopped", "running", "dying", "dead"}

Launching == phase \in {"started", "stopSeen", "tracked", "failing"}

\* The child's user code may run: it is neither held by ptrace nor under SIGKILL.
AgentRuns == agent = "running"

\* Until AgentGuard waits for it, or dies, a dead child keeps its pid.  On the
\* error path Wait4 may have reaped it already.
RootReserved ==
    /\ mode = "launch" /\ root # 0
    /\ phase # "gone" /\ ~(phase = "failing" /\ agent = "dead")

-----------------------------------------------------------------------------
SupervisorInit ==
    /\ Init
    /\ mode \in {"launch", "attach"}
    /\ phase = "setup"
    /\ exit = "none"
    /\ root = 0
    /\ agent = "none"
    /\ onTracer = TRUE
    /\ ctxDone = FALSE

\* The AgentGuard process ends: BPF links and maps go with it, and a tracee that
\* was held is let go by the kernel.
Leave(how) ==
    /\ IF attached THEN ReleasePrograms ELSE UNCHANGED trackingVars
    /\ phase' = "gone"
    /\ exit' = how
    /\ agent' = IF agent \in {"starting", "stopped"} THEN "running" ELSE agent
    /\ UNCHANGED <<mode, root, onTracer, ctxDone>>

\* Policies, proxy, BPF objects, tracepoints and LSM links, all before any pid.
Setup ==
    /\ phase = "setup"
    /\ AttachPrograms
    /\ phase' = "hooked"
    /\ UNCHANGED <<mode, exit, root, agent, onTracer, ctxDone>>

\* log.Fatal while nothing has been started (Start's own error included).
FatalEarly ==
    /\ phase \in {"setup", "hooked"}
    /\ Leave("fatal")

\* agentCmd.Start returned: the child has exec'ed and is about to trap.  Its
\* parent, AgentGuard, is not tracked, so handle_fork ignored the fork.
StartAgent(c) ==
    /\ phase = "hooked" /\ mode = "launch"
    /\ Spawn(c)
    /\ phase' = "started"
    /\ root' = c
    /\ agent' = "starting"
    /\ UNCHANGED <<mode, exit, onTracer, ctxDone>>

\* The SIGTRAP of the child's execve takes effect.
ChildStops ==
    /\ agent = "starting"
    /\ agent' = "stopped"
    /\ UNCHANGED <<trackingVars, mode, phase, exit, root, onTracer, ctxDone>>

\* waitChildPtraceStop sees the stop.
WaitStop ==
    /\ phase = "started" /\ agent = "stopped"
    /\ phase' = "stopSeen"
    /\ UNCHANGED <<trackingVars, mode, exit, root, agent, onTracer, ctxDone>>

\* TrackedPids.Update on the held child (which may have been killed meanwhile).
TrackAgent ==
    /\ phase = "stopSeen"
    /\ TrackPid(root)
    /\ phase' = "tracked"
    /\ UNCHANGED <<mode, exit, root, agent, onTracer, ctxDone>>

\* Mutant: the child is let go before its pid is in the map.
DetachFirst ==
    /\ phase = "stopSeen" /\ onTracer /\ agent = "stopped"
    /\ phase' = "serving"
    /\ agent' = "running"
    /\ UNCHANGED <<trackingVars, mode, exit, root, onTracer, ctxDone>>

\* detachChildPtrace: only the tracer thread can, and only a stopped child.
Detach ==
    /\ phase = "tracked" /\ onTracer /\ agent = "stopped"
    /\ phase' = "serving"
    /\ agent' = "running"
    /\ UNCHANGED <<trackingVars, mode, exit, root, onTracer, ctxDone>>

\* Mutant: a child that dies before its stop is waited for without end.
DeathUnnoticed ==
    \/ phase = "stopSeen"
    \/ phase = "tracked" /\ ~(onTracer /\ agent = "stopped")

\* What makes one of the three steps of the launch fail: Wait4 reports an end or
\* an error of its own, the update may be refused, the detach is not possible.
LaunchFails ==
    \/ phase = "started"
    \/ phase = "stopSeen"
    \/ phase = "tracked" /\ ~(onTracer /\ agent = "stopped")

\* Mutant: the error path forgets Process.Kill.
FailWithoutKill ==
    /\ LaunchFails
    /\ phase' = "failing"
    /\ UNCHANGED <<trackingVars, mode, exit, root, agent, onTracer, ctxDone>>

\* agentCmd.Process.Kill: the child dies without running; its exit comes later.
KillAgent ==
    /\ LaunchFails
    /\ phase' = "failing"
    /\ agent' = IF agent = "dead" THEN "dead" ELSE "dying"
    /\ UNCHANGED <<trackingVars, mode, exit, root, onTracer, ctxDone>>

\* The log.Fatal after it.
FatalLaunch ==
    /\ phase = "failing"
    /\ Leave("fatal")

\* The Go scheduler moves the main goroutine between OS threads.
Migrate ==
    /\ phase \in {"started", "stopSeen", "tracked"}
    /\ onTracer' = ~onTracer
    /\ UNCHANGED <<trackingVars, mode, phase, exit, root, agent, ctxDone>>

\* Mutant: a pid argument that does not parse is tracked as 0.
AttachUnparsed(p) ==
    /\ phase = "hooked" /\ mode = "attach"
    /\ TrackPid(0)
    /\ phase' = "serving"
    /\ root' = 0
    /\ UNCHANGED <<mode, exit, agent, onTracer, ctxDone>>

\* Mutant: the pid goes into the map while no program is attached.
AttachBeforeHooks(p) ==
    /\ phase = "setup" /\ mode = "attach"
    /\ tracked_pids' = map_update(p)
    /\ root' = p
    /\ UNCHANGED <<attached, kernelVars, ghostVars, mode, phase, exit, agent, onTracer, ctxDone>>

\* Attach mode: any number goes into the map, a failed update is fatal (FatalEarly).
AttachTrack(p) ==
    /\ phase = "hooked" /\ mode = "attach"
    /\ TrackPid(p)
    /\ phase' = "serving"
    /\ root' = p
    /\ UNCHANGED <<mode, exit, agent, onTracer, ctxDone>>

\* SIGINT or SIGTERM while serving: the goroutine of NotifyContext closes the
\* proxy and passes SIGTERM on; whether the agent obeys is the agent's business.
Signal ==
    /\ phase = "serving" /\ ~ctxDone
    /\ ctxDone' = TRUE
    /\ UNCHANGED <<trackingVars, mode, phase, exit, root, agent, onTracer>>

\* Mutant: after Wait the context is waited for as well.
ReturnWaitsForSignal ==
    /\ phase = "serving"
    /\ mode = "launch" => agent = "dead"
    /\ ctxDone
    /\ Leave("ok")

\* runEnforcer returns: agentCmd.Wait reaped the agent, or the context is done.
Return ==
    /\ phase = "serving"
    /\ IF mode = "launch" THEN agent = "dead" ELSE ctxDone
    /\ Leave("ok")

\* SIGKILL, a signal before NotifyContext, a runtime panic.
Crash ==
    /\ phase # "gone"
    /\ Leave("crash")

\* Processes go on meanwhile.  The held or killed child takes no step but its
\* exit, and its id is not given to another task before it is waited for.
Processes ==
    /\ KernelStepOf(IF agent \in {"starting", "stopped", "dying"} THEN Pids \ {root} ELSE Pids,
                    IF RootReserved THEN Pids \ {root} ELSE Pids)
    /\ agent' = IF /\ mode = "launch" /\ root # 0 /\ agent # "dead"
                   /\ threads'[root] = {}
                THEN "dead" ELSE agent
    /\ UNCHANGED <<mode, phase, exit, root, onTracer, ctxDone>>

GuardStep ==
    \/ Setup \/ FatalEarly
    \/ \E c \in Pids : StartAgent(c)
    \/ WaitStop \/ TrackAgent \/ Detach
    \/ KillAgent \/ FatalLaunch
    \/ \E p \in Pids : AttachTrack(p)
    \/ Return

SupervisorNext ==
    \/ GuardStep \/ Migrate \/ Signal \/ Crash
    \/ ChildStops
    \/ Processes

(***************************************************************************)
(* The main goroutine keeps running, the trap of the child's execve is     *)
(* delivered, and a killed child exits.  Nothing else is fair: processes   *)
(* need not fork or exit, signals need not come.                           *)
(***************************************************************************)
KilledChildExits == agent = "dying" /\ Processes /\ agent' = "dead"

SupervisorSpec ==
    /\ SupervisorInit /\ [][SupervisorNext]_vars
    /\ WF_vars(GuardStep) /\ WF_vars(ChildStops) /\ WF_vars(KilledChildExits)

-----------------------------------------------------------------------------
SupervisorTypeOK ==
    /\ TypeOK
    /\ mode \in {"launch", "attach"}
    /\ phase \in Phases
    /\ exit \in {"none", "ok", "fatal", "crash"}
    /\ root \in Pids \cup {0}
    /\ agent \in AgentStates
    /\ onTracer \in BOOLEAN
    /\ ctxDone \in BOOLEAN

(***************************************************************************)
(* As long as AgentGuard has not been killed itself, a launched agent that *)
(* can execute is in the agent tree and enforced upon (or has lapsed in    *)
(* one of the ways module Tracking names): the ptrace hold leaves no       *)
(* window between execve and the map update, and neither a failed launch   *)
(* nor the end of runEnforcer, both of which take the hooks away, leaves   *)
(* the agent running, however the steps are interleaved.                   *)
(***************************************************************************)
AgentRunsOnlySupervised ==
    exit # "crash" /\ AgentRuns => root \in agentTree /\ (root \in lapsed \/ Enforced(root))

(***************************************************************************)
(* An error of AgentGuard's own never leaves an agent running without it:  *)
(* every log.Fatal after Start is preceded by a Kill of the held child,    *)
(* and SIGKILL reaches it before the detach that AgentGuard's death causes.*)
(***************************************************************************)
FatalLeavesNoAgent == exit = "fatal" => ~AgentRuns

\* A launch does not hang: the agent is released to run, or AgentGuard is gone.
LaunchResolves == Launching ~> phase \in {"serving", "gone"}

\* AgentGuard ends once the agent it launched is dead, and in attach mode once
\* it is told to; nothing it waits for can be missed.
GuardEnds ==
    /\ (phase = "serving" /\ mode = "launch" /\ agent = "dead") ~> (phase = "gone")
    /\ (mode = "attach" /\ ctxDone) ~> (phase = "gone")

\* The supervisor drives the tracker only in ways module Tracking allows.
ImplementsTracking == Spec
=============================================================================
