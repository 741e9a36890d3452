------------------------------ MODULE Enforcer ------------------------------
(***************************************************************************)
(* The file and exec LSM hooks of enforcer.bpf.c: which operations of a    *)
(* tracked process are refused, and what the violations ring is told.      *)
(*                                                                         *)
(* A hook resolves a path into a scratch buffer that lives in a per-CPU    *)
(* map (it is too big for the BPF stack) and then matches it against the   *)
(* loaded rules, so what one program writes another may read.  A task does *)
(* not change its CPU while a program runs for it, but on a preemptible    *)
(* kernel it can be put aside between resolving and matching while another *)
(* task enters a hook on the same CPU and fills the same buffer.  Programs *)
(* of all tasks interleave here, on one CPU or on several.                 *)
(***************************************************************************)
EXTENDS PathMatch

CONSTANTS
    Tasks,      \* threads that call hooks
    Cpus,
    Paths,      \* paths as bpf_d_path and bprm->filename name them
    Configs,    \* rule sets that userspace accepts
    RingCap     \* records the violations ring holds

IsPath(p) == p \in Seq(STRING)
IsPattern(p) == IsPath(p) /\ Len(p) \in 1 .. MAX_PATTERN_LEN
IsRule(r) == IsPattern(r.pattern) /\ r.policy \in Nat \ {0}

\* What resolveWorkspaceRoot, resolveAllowPrefixes, normalizePathSuffix and
\* normalizeCommandSuffix let through.  (That /, /home and $HOME are no prefixes and
\* the number of slots only narrow it further.)
Accepted(c) ==
    /\ c.enforce_workspace \in BOOLEAN
    /\ IsPath(c.root) /\ Len(c.root) <= MAX_PATH_LEN - 1
    /\ c.enforce_workspace => Len(c.root) # 0
    /\ c.root_policy \in Nat
    /\ \A i \in DOMAIN c.prefixes : IsPattern(c.prefixes[i])
    /\ \A i \in DOMAIN c.path_rules : IsRule(c.path_rules[i])
    /\ \A i \in DOMAIN c.cmd_rules : IsRule(c.cmd_rules[i])
    /\ Len(c.cmd_rules) \in Nat /\ DOMAIN c.cmd_rules = 1 .. Len(c.cmd_rules)

ASSUME PathsAssumption == \A p \in Paths : IsPath(p)
ASSUME ConfigsAssumption == \A c \in Configs : Accepted(c)
ASSUME RingAssumption == RingCap \in Nat

VARIABLES
    cfg,             \* the contents of the rule maps, loaded before any hook is attached
    call,            \* call[t]: the hook that runs for task t
    place,           \* place[t]: the CPU it runs on
    torn,            \* ghost: another program filled its buffer while it ran
    file_open_path,  \* the scratch buffers, one per CPU
    exec_path,
    ring             \* records in the violations ring

vars == <<cfg, call, place, torn, file_open_path, exec_path, ring>>

EPERM == 1
DirHooks == {"path_unlink", "path_mknod", "path_mkdir", "path_symlink", "path_link", "path_rmdir"}
Hooks == DirHooks \cup {"file_open", "path_rename", "bprm_check_security"}

NoEvent == [policy |-> 0, detail |-> <<>>]

\* The record a hook works on: paths are its arguments, paths[at] the one being
\* looked at, n the length that the last helper returned.
Running(hook, paths, tracked, at, n) ==
    [st |-> "running", hook |-> hook, paths |-> paths, tracked |-> tracked,
     at |-> at, n |-> n, ret |-> 0, event |-> NoEvent]
Done(c, ret, event) ==
    [st |-> "done", hook |-> c.hook, paths |-> c.paths, tracked |-> c.tracked,
     at |-> c.at, n |-> c.n, ret |-> ret, event |-> event]
Idle ==
    [st |-> "idle", hook |-> "none", paths |-> <<>>, tracked |-> FALSE,
     at |-> 1, n |-> 0, ret |-> 0, event |-> NoEvent]

Busy(t) == call[t].st = "running"
Finished(t) == call[t].st = "done"

Nowhere == "none"
Blank == Fill(<<>>, MAX_PATH_LEN)

\* Mutant: one buffer for all CPUs.
SharedSlot(cpu) == CHOOSE c \in Cpus : TRUE

\* The slot of a PERCPU_ARRAY that a program running on cpu gets.
Slot(cpu) == cpu

-----------------------------------------------------------------------------
(* Matching a path buffer against the rules loaded as g                     *)

PathLen(n) == IF n - 1 >= MAX_PATH_LEN THEN MAX_PATH_LEN - 1 ELSE n - 1

path_in_workspace(g, path, len) ==
    \/ /\ Len(g.root) # 0
       /\ path_starts_with(path, len, Fill(g.root, MAX_PATH_LEN), Len(g.root), MAX_PATH_LEN)
    \/ \E i \in DOMAIN g.prefixes :
          path_starts_with(path, len, Fill(g.prefixes[i], MAX_PATTERN_LEN),
                           Len(g.prefixes[i]), MAX_PATTERN_LEN)

EndsWith(path, len, pattern) ==
    path_ends_with(path, len, Fill(pattern, MAX_PATTERN_LEN), Len(pattern))
IsBasename(path, len, pattern) ==
    path_is_basename(path, len, Fill(pattern, MAX_PATTERN_LEN), Len(pattern))

First(S) == CHOOSE i \in S : \A j \in S : i <= j

path_hits(g, path, len) ==
    {i \in DOMAIN g.path_rules : EndsWith(path, len, g.path_rules[i].pattern)}
cmd_hits(g, path, len) ==
    {i \in DOMAIN g.cmd_rules : \/ EndsWith(path, len, g.cmd_rules[i].pattern)
                                \/ IsBasename(path, len, g.cmd_rules[i].pattern)}

\* Policy 0 stands for no match; the loader numbers policies from 1.
match_blocked_commands(g, path, len) ==
    LET hits == cmd_hits(g, path, len)
    IN  IF hits = {} THEN 0 ELSE g.cmd_rules[First(hits)].policy

\* Mutant: confinement lets through what does not resolve.
RefusesResolvedOnly(g, n, path) ==
    n > 0 /\ n < MAX_PATH_LEN /\ ~path_in_workspace(g, path, PathLen(n))

\* Confinement, as in confine_path_struct: n is negative or overlong, or the path is outside.
Refuses(g, n, path) ==
    n <= 0 \/ n >= MAX_PATH_LEN \/ ~path_in_workspace(g, path, PathLen(n))

-----------------------------------------------------------------------------
Init ==
    /\ cfg \in Configs
    /\ call = [t \in Tasks |-> Idle]
    /\ place = [t \in Tasks |-> Nowhere]
    /\ torn = [t \in Tasks |-> FALSE]
    /\ file_open_path = [cpu \in Cpus |-> Blank]
    /\ exec_path = [cpu \in Cpus |-> Blank]
    /\ ring = 0

\* check_exec has a buffer of its own, all the others share one.
SameBuffer(c, d) == c.hook = "bprm_check_security" <=> d.hook = "bprm_check_security"

\* What a program of t on cpu does to the others by filling the buffer of call c.
Tear(t, cpu, c) ==
    torn' = [u \in Tasks |-> \/ torn[u]
                             \/ u # t /\ Busy(u) /\ place[u] = cpu /\ SameBuffer(call[u], c)]

\* The hook returns 0.
Allow(t) ==
    /\ call' = [call EXCEPT ![t] = Done(call[t], 0, NoEvent)]
    /\ UNCHANGED ring

\* Mutant: the record is written whether or not there is room.
DenyUncapped(t, policy, path) ==
    /\ call' = [call EXCEPT ![t] =
          Done(call[t], EPERM, [policy |-> policy, detail |-> path])]
    /\ ring' = ring + 1

\* Mutant: a full ring is not noticed, and the record is taken for written.
DenyUnheard(t, policy, path) ==
    /\ call' = [call EXCEPT ![t] =
          Done(call[t], EPERM, [policy |-> policy, detail |-> path])]
    /\ ring' = IF ring < RingCap THEN ring + 1 ELSE ring

\* deny_path and its copies: a full ring costs the record, never the refusal.
Deny(t, policy, path) ==
    /\ call' = [call EXCEPT ![t] =
          Done(call[t], EPERM,
               IF ring < RingCap THEN [policy |-> policy, detail |-> path] ELSE NoEvent)]
    /\ ring' = IF ring < RingCap THEN ring + 1 ELSE ring

\* Untracked processes, and directory hooks without confinement, are let through
\* at once; otherwise the scratch buffer is zeroed and filled.
FileHook(t, cpu, hook, paths, tracked) ==
    /\ call[t].st = "idle"
    /\ place' = [place EXCEPT ![t] = cpu]
    /\ LET c == Running(hook, paths, tracked, 1, d_path(paths[1]).n)
       IN  IF tracked /\ (hook = "file_open" \/ cfg.enforce_workspace)
           THEN /\ call' = [call EXCEPT ![t] = c]
                /\ Tear(t, cpu, c)
                /\ file_open_path' = [file_open_path EXCEPT ![Slot(cpu)] = d_path(paths[1]).buf]
           ELSE /\ call' = [call EXCEPT ![t] = Done(c, 0, NoEvent)]
                /\ UNCHANGED <<torn, file_open_path>>
    /\ UNCHANGED <<cfg, exec_path, ring>>

\* The rest of a directory hook.  Rename goes on with the new directory.
ConfineDir(t) ==
    LET c == call[t]
        c2 == Running(c.hook, c.paths, c.tracked, 2, d_path(c.paths[2]).n)
        path == file_open_path[Slot(place[t])]
    IN  /\ Busy(t)
        /\ c.hook \in DirHooks \cup {"path_rename"}
        /\ \/ /\ Refuses(cfg, c.n, path)
              /\ Deny(t, cfg.root_policy, path)
              /\ UNCHANGED <<torn, file_open_path>>
           \/ /\ ~Refuses(cfg, c.n, path)
              /\ c.hook # "path_rename" \/ c.at = 2
              /\ Allow(t)
              /\ UNCHANGED <<torn, file_open_path>>
           \/ /\ ~Refuses(cfg, c.n, path)
              /\ c.hook = "path_rename" /\ c.at = 1
              /\ call' = [call EXCEPT ![t] = c2]
              /\ Tear(t, place[t], c2)
              /\ file_open_path' = [file_open_path EXCEPT ![Slot(place[t])] = d_path(c.paths[2]).buf]
              /\ UNCHANGED ring
        /\ UNCHANGED <<cfg, place, exec_path>>

\* The rest of check_file_open: confinement first, then the suffix rules.
CheckFileOpen(t) ==
    LET c == call[t]
        path == file_open_path[Slot(place[t])]
        resolved == c.n > 0 /\ c.n < MAX_PATH_LEN
        refused == cfg.enforce_workspace /\ Refuses(cfg, c.n, path)
        hits == path_hits(cfg, path, PathLen(c.n))
    IN  /\ Busy(t)
        /\ c.hook = "file_open"
        /\ \/ /\ refused
              /\ Deny(t, cfg.root_policy, path)
           \/ /\ ~refused /\ (~resolved \/ hits = {})
              /\ Allow(t)
           \/ /\ ~refused /\ resolved /\ hits # {}
              /\ Deny(t, cfg.path_rules[First(hits)].policy, path)
        /\ UNCHANGED <<cfg, place, torn, file_open_path, exec_path>>

\* check_exec up to its first match: the path of the file about to run.
ExecHook(t, cpu, file, filename, tracked) ==
    /\ call[t].st = "idle"
    /\ place' = [place EXCEPT ![t] = cpu]
    /\ LET c == Running("bprm_check_security", <<file, filename>>, tracked, 1, d_path(file).n)
       IN  IF tracked
           THEN /\ call' = [call EXCEPT ![t] = c]
                /\ Tear(t, cpu, c)
                /\ exec_path' = [exec_path EXCEPT ![Slot(cpu)] = d_path(file).buf]
           ELSE /\ call' = [call EXCEPT ![t] = Done(c, 0, NoEvent)]
                /\ UNCHANGED <<torn, exec_path>>
    /\ UNCHANGED <<cfg, file_open_path, ring>>

\* The match, and if it fails a second one on bprm->filename, copied into the same buffer.
CheckExec(t) ==
    LET c == call[t]
        c2 == Running(c.hook, c.paths, c.tracked, 2, probe_read_str(c.paths[2]).n)
        path == exec_path[Slot(place[t])]
        hit_policy == IF c.n > 0 THEN match_blocked_commands(cfg, path, PathLen(c.n)) ELSE 0
    IN  /\ Busy(t)
        /\ c.hook = "bprm_check_security"
        /\ \/ /\ hit_policy # 0
              /\ Deny(t, hit_policy, path)
              /\ UNCHANGED <<torn, exec_path>>
           \/ /\ hit_policy = 0 /\ c.at = 2
              /\ Allow(t)
              /\ UNCHANGED <<torn, exec_path>>
           \/ /\ hit_policy = 0 /\ c.at = 1
              /\ call' = [call EXCEPT ![t] = c2]
              /\ Tear(t, place[t], c2)
              /\ exec_path' = [exec_path EXCEPT ![Slot(place[t])] = probe_read_str(c.paths[2]).buf]
              /\ UNCHANGED ring
        /\ UNCHANGED <<cfg, place, file_open_path>>

\* The policies that a hook can name in a refusal.
PoliciesOf(g, hook) ==
    IF hook = "bprm_check_security" THEN {g.cmd_rules[i].policy : i \in DOMAIN g.cmd_rules}
    ELSE {g.root_policy} \cup (IF hook = "file_open"
                               THEN {g.path_rules[i].policy : i \in DOMAIN g.path_rules} ELSE {})

\* The matchers of a disturbed program can read part of one path and part of
\* another, or a buffer that has just been zeroed: any verdict may come of it.
Mismatch(t) ==
    /\ Busy(t) /\ torn[t]
    /\ \/ Allow(t)
       \/ \E policy \in PoliciesOf(cfg, call[t].hook) : Deny(t, policy, Blank)
    /\ UNCHANGED <<cfg, place, torn, file_open_path, exec_path>>

\* The verdict reaches the kernel.  The bytes stay in the scratch buffers, but every
\* program zeroes its buffer before it uses it: the model forgets them once no
\* other program runs on that CPU.
Return(t) ==
    /\ Finished(t)
    /\ call' = [call EXCEPT ![t] = Idle]
    /\ place' = [place EXCEPT ![t] = Nowhere]
    /\ torn' = [torn EXCEPT ![t] = FALSE]
    /\ IF \E u \in Tasks : Busy(u) /\ place[u] = place[t]
       THEN UNCHANGED <<file_open_path, exec_path>>
       ELSE /\ file_open_path' = [file_open_path EXCEPT ![Slot(place[t])] = Blank]
            /\ exec_path' = [exec_path EXCEPT ![Slot(place[t])] = Blank]
    /\ UNCHANGED <<cfg, ring>>

\* AgentGuard's reader takes a record.
Drain ==
    /\ ring > 0
    /\ ring' = ring - 1
    /\ UNCHANGED <<cfg, call, place, torn, file_open_path, exec_path>>

Next ==
    \/ \E t \in Tasks, cpu \in Cpus, tracked \in BOOLEAN, p \in Paths :
          \/ \E hook \in DirHooks \cup {"file_open"} : FileHook(t, cpu, hook, <<p>>, tracked)
          \/ \E q \in Paths : \/ FileHook(t, cpu, "path_rename", <<p, q>>, tracked)
                              \/ ExecHook(t, cpu, p, q, tracked)
    \/ \E t \in Tasks : \/ CheckFileOpen(t) \/ ConfineDir(t) \/ CheckExec(t) \/ Mismatch(t)
                         \/ Return(t)
    \/ Drain

Spec == Init /\ [][Next]_vars

-----------------------------------------------------------------------------
(* What the hooks are for, said of whole paths and without buffers          *)

InWorkspace(g, p) ==
    \/ Len(g.root) # 0 /\ pathStartsWith(p, g.root)
    \/ \E i \in DOMAIN g.prefixes : pathStartsWith(p, g.prefixes[i])

PathRulesFor(g, p) == {i \in DOMAIN g.path_rules : HasSuffix(p, g.path_rules[i].pattern)}
CmdRulesFor(g, p) ==
    {i \in DOMAIN g.cmd_rules : \/ HasSuffix(p, g.cmd_rules[i].pattern)
                                \/ IsBasenameOf(p, g.cmd_rules[i].pattern)}

\* The rules, as the policy file states them, are against call c.
RulesRefuse(g, c) ==
    /\ c.tracked
    /\ \/ /\ c.hook # "bprm_check_security" /\ g.enforce_workspace
          /\ \E i \in DOMAIN c.paths : ~InWorkspace(g, c.paths[i])
       \/ c.hook = "file_open" /\ PathRulesFor(g, c.paths[1]) # {}
       \/ c.hook = "bprm_check_security" /\ \E i \in DOMAIN c.paths : CmdRulesFor(g, c.paths[i]) # {}

\* The lengths the buffers can take: the file hooks want room for one byte more.
Resolvable(p) == Len(p) < MAX_PATH_LEN - 1
Fits(c) ==
    \A i \in DOMAIN c.paths :
        IF c.hook = "bprm_check_security" THEN Len(c.paths[i]) < MAX_PATH_LEN
        ELSE Resolvable(c.paths[i])

(***************************************************************************)
(* What the hooks decide of a call by itself, the lengths they give up at  *)
(* included: which policy refuses it and for which path.  It says how a    *)
(* call is answered, not that the answer is the right one.                 *)
(***************************************************************************)
Ok == [denied |-> FALSE, policy |-> 0, path |-> <<>>]
No(policy, p) == [denied |-> TRUE, policy |-> policy,
                  path |-> IF Len(p) < MAX_PATH_LEN THEN p ELSE <<>>]
Either(a, b) == IF a.denied THEN a ELSE b

Outside(g, p) == ~Resolvable(p) \/ ~InWorkspace(g, p)
Confined(g, p) == IF g.enforce_workspace /\ Outside(g, p) THEN No(g.root_policy, p) ELSE Ok
ByPathRule(g, p) ==
    IF Resolvable(p) /\ PathRulesFor(g, p) # {}
    THEN No(g.path_rules[First(PathRulesFor(g, p))].policy, p) ELSE Ok
CmdPolicy(g, p) ==
    IF CmdRulesFor(g, p) = {} THEN 0 ELSE g.cmd_rules[First(CmdRulesFor(g, p))].policy
ByCommand(g, p) ==
    IF Len(p) < MAX_PATH_LEN /\ CmdPolicy(g, p) # 0 THEN No(CmdPolicy(g, p), p) ELSE Ok

Decision(g, c) ==
    CASE ~c.tracked -> Ok
      [] c.tracked /\ c.hook = "file_open" ->
            Either(Confined(g, c.paths[1]), ByPathRule(g, c.paths[1]))
      [] c.tracked /\ c.hook \in DirHooks -> Confined(g, c.paths[1])
      [] c.tracked /\ c.hook = "path_rename" ->
            Either(Confined(g, c.paths[1]), Confined(g, c.paths[2]))
      [] c.tracked /\ c.hook = "bprm_check_security" ->
            Either(ByCommand(g, c.paths[1]), ByCommand(g, Truncated(c.paths[2])))

TypeOK ==
    /\ cfg \in Configs
    /\ ring \in 0 .. RingCap
    /\ \A t \in Tasks : /\ call[t].st \in {"idle", "running", "done"}
                        /\ call[t].hook \in Hooks \cup {"none"}
                        /\ call[t].tracked \in BOOLEAN
                        /\ call[t].at \in {1, 2}
                        /\ call[t].n \in -1 .. MAX_PATH_LEN
                        /\ call[t].ret \in {0, EPERM}
                        /\ place[t] \in Cpus \cup {Nowhere}
                        /\ torn[t] \in BOOLEAN

(***************************************************************************)
(* A call whose paths fit the buffers is refused if and only if the rules, *)
(* read as rules about whole paths, are against it; one whose paths do not *)
(* fit is refused wherever confinement is on.  No other task can change a  *)
(* verdict but by entering a hook with the same buffer on the same CPU     *)
(* while the program runs, and the ring never can.  (What becomes of long  *)
(* paths without confinement is the matter of SensitiveFilesBlocked.)      *)
(***************************************************************************)
VerdictAsPromised ==
    \A t \in Tasks : Finished(t) /\ ~torn[t] =>
        LET c == call[t]
        IN  /\ Fits(c) => (c.ret = EPERM <=> RulesRefuse(cfg, c))
            /\ /\ c.tracked /\ cfg.enforce_workspace
               /\ c.hook # "bprm_check_security" /\ ~Fits(c)
               => c.ret = EPERM

(***************************************************************************)
(* A record in the ring is about a refusal, names the policy that refused  *)
(* (confinement before credential rules, the first rule before later ones) *)
(* and shows the path that was refused and no other, unless the program    *)
(* was disturbed on its own CPU.                                           *)
(***************************************************************************)
EventNamesCause ==
    \A t \in Tasks : Finished(t) /\ ~torn[t] /\ call[t].event # NoEvent =>
        /\ Decision(cfg, call[t]).denied
        /\ call[t].event = [policy |-> Decision(cfg, call[t]).policy,
                            detail |-> Fill(Decision(cfg, call[t]).path, MAX_PATH_LEN)]

\* The verdict of the rules g, with the record as the ring holds it.
Verdict(g, c) ==
    LET v == Decision(g, c)
    IN  [denied |-> v.denied, record |-> [policy |-> v.policy, detail |-> Fill(v.path, MAX_PATH_LEN)]]

\* The call itself: what it asks, without what the hook has found out.
Asked(c) == [hook |-> c.hook, paths |-> c.paths, tracked |-> c.tracked]

Hooked == INSTANCE Monitor WITH
    Callers <- Tasks,
    NoCall <- Asked(Idle),
    NoRecord <- NoEvent,
    rules <- cfg,
    stage <- [t \in Tasks |-> call[t].st],
    asked <- [t \in Tasks |-> Asked(call[t])],
    site <- place,
    spoilt <- torn,
    answer <- [t \in Tasks |-> [denied |-> call[t].ret = EPERM, record |-> call[t].event]],
    unread <- ring

(***************************************************************************)
(* The hooks are a reference monitor, but for calls that meet in one       *)
(* buffer of one CPU: the two looks of rename and exec, buffers, masks and *)
(* other CPUs do not show; a call gets the verdict that was due when it    *)
(* was made, once, and a refusal adds its record once, or not at all if    *)
(* the ring is full.                                                       *)
(***************************************************************************)
ImplementsMonitor == Hooked!MonitorSpec

(***************************************************************************)
(* A workspace root that resolveWorkspaceRoot accepts can be opened: the   *)
(* limit of workspace.go is the longest path the hooks can handle.         *)
(***************************************************************************)
AcceptedRootCanBeOpened ==
    \A t \in Tasks :
        /\ Finished(t) /\ call[t].hook = "file_open"
        /\ cfg.enforce_workspace /\ call[t].paths[1] = cfg.root
        /\ PathRulesFor(cfg, cfg.root) = {}
        => call[t].ret = 0

(***************************************************************************)
(* A file that the credential rules name cannot be opened by the agent,    *)
(* however long its path is: "Blocks access to sensitive files".           *)
(***************************************************************************)
SensitiveFilesBlocked ==
    \A t \in Tasks :
        Finished(t) /\ call[t].hook = "file_open" /\ RulesRefuse(cfg, call[t]) => call[t].ret = EPERM
=============================================================================
