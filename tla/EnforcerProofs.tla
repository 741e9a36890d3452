--------------------------- MODULE EnforcerProofs ---------------------------
(***************************************************************************)
(* For all buffer sizes, rules and paths: the masked matchers decide the   *)
(* relations on whole paths they are meant to, and every hook that no      *)
(* other program has disturbed on its own CPU returns the verdict that is  *)
(* due for the paths it was called with.                                   *)
(***************************************************************************)
EXTENDS Enforcer, TLAPS, WellFoundedInduction, NaturalsInduction

\* A mask changes no index that is inside its buffer.
LEMMA MaskIsIdentity ==
    ASSUME NEW m \in Nat, NEW x \in Nat, x < m
    PROVE  x % m = x
BY Z3

\* path_ends_with on buffers is HasSuffix on the paths in them.
LEMMA EndsWithIsSuffix ==
    ASSUME NEW p, IsPath(p), Len(p) < MAX_PATH_LEN, NEW s, IsPattern(s)
    PROVE  EndsWith(Fill(p, MAX_PATH_LEN), Len(p), s) <=> HasSuffix(p, s)
<1> DEFINE path == Fill(p, MAX_PATH_LEN)
           pat == Fill(s, MAX_PATTERN_LEN)
<1>1. Len(p) \in Nat /\ Len(s) \in Nat /\ Len(s) > 0 /\ Len(s) <= MAX_PATTERN_LEN
  BY LengthAssumption DEF IsPath, IsPattern
<1>2. ASSUME Len(p) >= Len(s), NEW i \in 0 .. Len(s) - 1
      PROVE  /\ path[(Len(p) - Len(s) + i) % MAX_PATH_LEN] = p[Len(p) - Len(s) + (i + 1)]
             /\ pat[i % MAX_PATTERN_LEN] = s[i + 1]
  <2>1. (Len(p) - Len(s) + i) % MAX_PATH_LEN = Len(p) - Len(s) + i
    BY <1>1, <1>2, MaskIsIdentity, LengthAssumption
  <2>2. i % MAX_PATTERN_LEN = i
    BY <1>1, MaskIsIdentity, LengthAssumption
  <2>3. path[Len(p) - Len(s) + i] = p[Len(p) - Len(s) + (i + 1)]
    BY <1>1, <1>2, LengthAssumption DEF Fill
  <2>4. pat[i] = s[i + 1]
    BY <1>1, LengthAssumption DEF Fill
  <2>5. QED
    BY <2>1, <2>2, <2>3, <2>4
<1>3. ASSUME Len(p) >= Len(s)
      PROVE  (\A i \in 0 .. Len(s) - 1 :
                path[(Len(p) - Len(s) + i) % MAX_PATH_LEN] = pat[i % MAX_PATTERN_LEN])
             <=> (\A i \in 1 .. Len(s) : p[Len(p) - Len(s) + i] = s[i])
  <2>1. ASSUME \A i \in 0 .. Len(s) - 1 :
                 path[(Len(p) - Len(s) + i) % MAX_PATH_LEN] = pat[i % MAX_PATTERN_LEN],
               NEW i \in 1 .. Len(s)
        PROVE  p[Len(p) - Len(s) + i] = s[i]
    <3>1. i - 1 \in 0 .. Len(s) - 1 /\ (i - 1) + 1 = i
      BY <1>1
    <3>2. QED
      BY <1>2, <1>3, <2>1, <3>1
  <2>2. ASSUME \A i \in 1 .. Len(s) : p[Len(p) - Len(s) + i] = s[i], NEW i \in 0 .. Len(s) - 1
        PROVE  path[(Len(p) - Len(s) + i) % MAX_PATH_LEN] = pat[i % MAX_PATTERN_LEN]
    <3>1. i + 1 \in 1 .. Len(s)
      BY <1>1
    <3>2. QED
      BY <1>2, <1>3, <2>2, <3>1
  <2>3. QED
    BY <2>1, <2>2
<1>4. QED
  BY <1>1, <1>3 DEF EndsWith, path_ends_with, HasSuffix

\* path_starts_with_64 and _256 are pathStartsWith of workspace.go: the two
\* sides of AgentGuard agree on what lies in the workspace.
LEMMA StartsWithIsTwin ==
    ASSUME NEW p, IsPath(p), Len(p) < MAX_PATH_LEN, NEW size \in Nat, size <= MAX_PATH_LEN,
           NEW d, IsPath(d), Len(d) > 0, Len(d) <= size
    PROVE  path_starts_with(Fill(p, MAX_PATH_LEN), Len(p), Fill(d, size), Len(d), size)
           <=> pathStartsWith(p, d)
<1> DEFINE path == Fill(p, MAX_PATH_LEN)
           pat == Fill(d, size)
<1>1. Len(p) \in Nat /\ Len(d) \in Nat
  BY DEF IsPath
<1>2. ASSUME Len(p) >= Len(d), NEW i \in 0 .. Len(d) - 1
      PROVE  path[i % MAX_PATH_LEN] = p[i + 1] /\ pat[i % size] = d[i + 1]
  <2>1. i % MAX_PATH_LEN = i /\ i % size = i
    BY <1>1, <1>2, MaskIsIdentity, LengthAssumption
  <2>2. path[i] = p[i + 1] /\ pat[i] = d[i + 1]
    BY <1>1, <1>2, LengthAssumption DEF Fill
  <2>3. QED
    BY <2>1, <2>2
<1>3. ASSUME Len(p) > Len(d)
      PROVE  path[Len(d) % MAX_PATH_LEN] = p[Len(d) + 1]
  <2>1. Len(d) % MAX_PATH_LEN = Len(d)
    BY <1>1, <1>3, MaskIsIdentity, LengthAssumption
  <2>2. QED
    BY <1>1, <1>3, <2>1, LengthAssumption DEF Fill
<1>4. ASSUME Len(p) >= Len(d)
      PROVE  (\A i \in 0 .. Len(d) - 1 : path[i % MAX_PATH_LEN] = pat[i % size])
             <=> (\A i \in 1 .. Len(d) : p[i] = d[i])
  <2>1. ASSUME \A i \in 0 .. Len(d) - 1 : path[i % MAX_PATH_LEN] = pat[i % size],
               NEW i \in 1 .. Len(d)
        PROVE  p[i] = d[i]
    <3>1. i - 1 \in 0 .. Len(d) - 1 /\ (i - 1) + 1 = i
      BY <1>1
    <3>2. QED
      BY <1>2, <1>4, <2>1, <3>1
  <2>2. ASSUME \A i \in 1 .. Len(d) : p[i] = d[i], NEW i \in 0 .. Len(d) - 1
        PROVE  path[i % MAX_PATH_LEN] = pat[i % size]
    <3>1. i + 1 \in 1 .. Len(d)
      BY <1>1
    <3>2. QED
      BY <1>2, <1>4, <2>2, <3>1
  <2>3. QED
    BY <2>1, <2>2
<1>5. QED
  BY <1>1, <1>3, <1>4 DEF path_starts_with, pathStartsWith

\* path_is_basename is IsBasenameOf.
LEMMA BasenameAgrees ==
    ASSUME NEW p, IsPath(p), Len(p) < MAX_PATH_LEN, NEW s, IsPattern(s)
    PROVE  IsBasename(Fill(p, MAX_PATH_LEN), Len(p), s) <=> IsBasenameOf(p, s)
<1> DEFINE path == Fill(p, MAX_PATH_LEN)
           pat == Fill(s, MAX_PATTERN_LEN)
<1>1. Len(p) \in Nat /\ Len(s) \in Nat /\ Len(s) > 0 /\ Len(s) <= MAX_PATTERN_LEN
  BY LengthAssumption DEF IsPath, IsPattern
<1>2. pat[0] = s[1]
  BY <1>1, LengthAssumption DEF Fill
<1>3. ASSUME Len(p) + 1 = Len(s), NEW i \in 0 .. Len(p) - 1
      PROVE  path[i % MAX_PATH_LEN] = p[i + 1] /\ pat[(i + 1) % MAX_PATTERN_LEN] = s[(i + 1) + 1]
  <2>1. i % MAX_PATH_LEN = i /\ (i + 1) % MAX_PATTERN_LEN = i + 1
    BY <1>1, <1>3, MaskIsIdentity, LengthAssumption
  <2>2. path[i] = p[i + 1] /\ pat[i + 1] = s[(i + 1) + 1]
    BY <1>1, <1>3, LengthAssumption DEF Fill
  <2>3. QED
    BY <2>1, <2>2
<1>4. ASSUME Len(p) + 1 = Len(s)
      PROVE  (\A i \in 0 .. Len(p) - 1 :
                i < MAX_PATTERN_LEN => path[i % MAX_PATH_LEN] = pat[(i + 1) % MAX_PATTERN_LEN])
             <=> (\A i \in 1 .. Len(p) : p[i] = s[i + 1])
  <2>1. ASSUME \A i \in 0 .. Len(p) - 1 :
                 i < MAX_PATTERN_LEN => path[i % MAX_PATH_LEN] = pat[(i + 1) % MAX_PATTERN_LEN],
               NEW i \in 1 .. Len(p)
        PROVE  p[i] = s[i + 1]
    <3>1. i - 1 \in 0 .. Len(p) - 1 /\ (i - 1) + 1 = i /\ i - 1 < MAX_PATTERN_LEN
      BY <1>1, <1>4, LengthAssumption
    <3>2. QED
      BY <1>3, <1>4, <2>1, <3>1
  <2>2. ASSUME \A i \in 1 .. Len(p) : p[i] = s[i + 1], NEW i \in 0 .. Len(p) - 1
        PROVE  path[i % MAX_PATH_LEN] = pat[(i + 1) % MAX_PATTERN_LEN]
    <3>1. i + 1 \in 1 .. Len(p)
      BY <1>1
    <3>2. QED
      BY <1>3, <1>4, <2>2, <3>1
  <2>3. QED
    BY <2>1, <2>2
<1>5. CASE Len(p) + 1 = Len(s)
  <2> HIDE DEF path, pat
  <2>1. path_is_basename(path, Len(p), pat, Len(s))
        <=> /\ Len(s) >= 2 /\ pat[0] = Slash
            /\ (\A i \in 0 .. Len(p) - 1 :
                  i < MAX_PATTERN_LEN => path[i % MAX_PATH_LEN] = pat[(i + 1) % MAX_PATTERN_LEN])
    <3>1. /\ Len(p) + 1 = Len(s) /\ Len(p) < MAX_PATH_LEN /\ Len(p) <= MAX_PATTERN_LEN
      BY <1>1, <1>5, LengthAssumption
    <3>2. QED
      BY <3>1, Zenon DEF path_is_basename
  <2>2. IsBasenameOf(p, s)
        <=> Len(s) >= 2 /\ s[1] = Slash /\ (\A i \in 1 .. Len(p) : p[i] = s[i + 1])
    BY <1>1, <1>5 DEF IsBasenameOf
  <2>3. IsBasename(Fill(p, MAX_PATH_LEN), Len(p), s) <=> path_is_basename(path, Len(p), pat, Len(s))
    BY DEF IsBasename, path, pat
  <2>4. QED
    BY <1>2, <1>4, <1>5, <2>1, <2>2, <2>3
<1>6. CASE Len(p) + 1 # Len(s)
  BY <1>1, <1>6 DEF IsBasename, path_is_basename, IsBasenameOf
<1>7. QED
  BY <1>5, <1>6

-----------------------------------------------------------------------------
(* From single matches to the decisions of a hook                           *)

\* On a path that fits, path_in_workspace is InWorkspace.
LEMMA WorkspaceAgrees ==
    ASSUME NEW g, Accepted(g), NEW p, IsPath(p), Len(p) < MAX_PATH_LEN
    PROVE  path_in_workspace(g, Fill(p, MAX_PATH_LEN), Len(p)) <=> InWorkspace(g, p)
<1>1. ASSUME Len(g.root) # 0
      PROVE  path_starts_with(Fill(p, MAX_PATH_LEN), Len(p), Fill(g.root, MAX_PATH_LEN),
                              Len(g.root), MAX_PATH_LEN)
             <=> pathStartsWith(p, g.root)
  <2>1. IsPath(g.root) /\ Len(g.root) > 0 /\ Len(g.root) <= MAX_PATH_LEN
    BY <1>1, LengthAssumption DEF Accepted, IsPath
  <2>2. QED
    BY <2>1, StartsWithIsTwin, LengthAssumption
<1>2. ASSUME NEW i \in DOMAIN g.prefixes
      PROVE  path_starts_with(Fill(p, MAX_PATH_LEN), Len(p),
                              Fill(g.prefixes[i], MAX_PATTERN_LEN), Len(g.prefixes[i]),
                              MAX_PATTERN_LEN)
             <=> pathStartsWith(p, g.prefixes[i])
  <2>1. IsPath(g.prefixes[i]) /\ Len(g.prefixes[i]) > 0 /\ Len(g.prefixes[i]) <= MAX_PATTERN_LEN
    BY LengthAssumption DEF Accepted, IsPattern
  <2>2. QED
    BY <2>1, StartsWithIsTwin, LengthAssumption
<1>3. QED
  BY <1>1, <1>2 DEF path_in_workspace, InWorkspace

\* What the helpers return for a path that fits and for one that does not.
LEMMA HelperFacts ==
    ASSUME NEW p, IsPath(p)
    PROVE  /\ Len(p) < MAX_PATH_LEN =>
                 /\ d_path(p).n = Len(p) + 1 /\ d_path(p).n > 0
                 /\ PathLen(d_path(p).n) = Len(p)
                 /\ d_path(p).buf = Fill(p, MAX_PATH_LEN)
           /\ ~(Len(p) < MAX_PATH_LEN) =>
                 d_path(p).n = -1 /\ d_path(p).buf = Fill(<<>>, MAX_PATH_LEN)
           /\ d_path(p).n \in -1 .. MAX_PATH_LEN
           /\ IsPath(Truncated(p)) /\ Len(Truncated(p)) < MAX_PATH_LEN
<1>1. Len(p) \in Nat
  BY DEF IsPath
<1>2. IsPath(Truncated(p)) /\ Len(Truncated(p)) < MAX_PATH_LEN
  <2>1. CASE Len(p) < MAX_PATH_LEN
    BY <2>1 DEF Truncated
  <2>2. CASE ~(Len(p) < MAX_PATH_LEN)
    BY <1>1, <2>2, LengthAssumption DEF Truncated, IsPath
  <2>3. QED
    BY <2>1, <2>2
<1>3. QED
  BY <1>1, <1>2, LengthAssumption DEF d_path, PathLen

\* Confinement refuses exactly the paths that are outside or too long.
LEMMA RefusesIsOutside ==
    ASSUME NEW g, Accepted(g), NEW p, IsPath(p)
    PROVE  Refuses(g, d_path(p).n, d_path(p).buf) <=> Outside(g, p)
<1>1. Len(p) \in Nat
  BY DEF IsPath
<1>2. CASE Len(p) < MAX_PATH_LEN
  BY <1>1, <1>2, HelperFacts, WorkspaceAgrees, LengthAssumption DEF Refuses, Outside, Resolvable
<1>3. CASE ~(Len(p) < MAX_PATH_LEN)
  BY <1>1, <1>3, HelperFacts, LengthAssumption DEF Refuses, Outside, Resolvable
<1>4. QED
  BY <1>2, <1>3

\* The rules that match a buffer are the rules for the path in it.
LEMMA HitsAgree ==
    ASSUME NEW g, Accepted(g), NEW p, IsPath(p), Len(p) < MAX_PATH_LEN
    PROVE  /\ path_hits(g, Fill(p, MAX_PATH_LEN), Len(p)) = PathRulesFor(g, p)
           /\ match_blocked_commands(g, Fill(p, MAX_PATH_LEN), Len(p)) = CmdPolicy(g, p)
<1>1. path_hits(g, Fill(p, MAX_PATH_LEN), Len(p)) = PathRulesFor(g, p)
  BY EndsWithIsSuffix DEF path_hits, PathRulesFor, Accepted, IsRule
<1>2. cmd_hits(g, Fill(p, MAX_PATH_LEN), Len(p)) = CmdRulesFor(g, p)
  BY EndsWithIsSuffix, BasenameAgrees DEF cmd_hits, CmdRulesFor, Accepted, IsRule
<1>3. QED
  BY <1>1, <1>2 DEF match_blocked_commands, CmdPolicy

-----------------------------------------------------------------------------
(* The hooks                                                                *)

ArgsOK(c) ==
    /\ c.tracked \in BOOLEAN
    /\ c.hook \in Hooks
    /\ IsPath(c.paths[1])
    /\ c.hook \in {"path_rename", "bprm_check_security"} => IsPath(c.paths[2])
    /\ DOMAIN c.paths = IF c.hook \in {"path_rename", "bprm_check_security"} THEN {1, 2} ELSE {1}

\* A file hook past its guards: its scratch buffer fo holds the path it looks at,
\* and a rename that has come to the new directory found the old one inside.
FileBusy(g, c, fo) ==
    /\ c.hook \in DirHooks \cup {"path_rename"} => g.enforce_workspace
    /\ c.at \in {1, 2}
    /\ c.at = 2 => c.hook = "path_rename" /\ ~Outside(g, c.paths[1])
    /\ c.n = d_path(c.paths[c.at]).n
    /\ fo = d_path(c.paths[c.at]).buf

\* check_exec: the second look happens only if no rule is for the first path.
ExecBusy(g, c, ex) ==
    \/ /\ c.at = 1
       /\ c.n = d_path(c.paths[1]).n /\ ex = d_path(c.paths[1]).buf
    \/ /\ c.at = 2
       /\ ~ByCommand(g, c.paths[1]).denied
       /\ c.n = probe_read_str(c.paths[2]).n /\ ex = probe_read_str(c.paths[2]).buf

KeptDecision(g, c) ==
    /\ c.ret = EPERM <=> Decision(g, c).denied
    /\ c.event # NoEvent =>
          /\ Decision(g, c).denied
          /\ c.event = [policy |-> Decision(g, c).policy,
                        detail |-> Fill(Decision(g, c).path, MAX_PATH_LEN)]

CallInv(g, c, fo, ex) ==
    /\ c.st \in {"idle", "running", "done"}
    /\ c.st # "idle" => ArgsOK(c)
    /\ c.st = "running" /\ c.hook # "bprm_check_security" => c.tracked /\ FileBusy(g, c, fo)
    /\ c.st = "running" /\ c.hook = "bprm_check_security" => c.tracked /\ ExecBusy(g, c, ex)
    /\ c.st = "done" => KeptDecision(g, c)

EInv ==
    /\ cfg \in Configs
    /\ call = [t \in Tasks |-> call[t]]
    /\ place = [t \in Tasks |-> place[t]]
    /\ torn \in [Tasks -> BOOLEAN]
    /\ file_open_path = [cpu \in Cpus |-> file_open_path[cpu]]
    /\ exec_path = [cpu \in Cpus |-> exec_path[cpu]]
    /\ \A t \in Tasks : IF call[t].st = "idle" THEN ~torn[t]
                         ELSE ArgsOK(call[t]) /\ place[t] \in Cpus
    /\ \A t \in Tasks : ~torn[t] =>
          CallInv(cfg, call[t], file_open_path[place[t]], exec_path[place[t]])

\* Finishing a call with the verdict that is due keeps its part of the invariant.
LEMMA DoneKeeps ==
    ASSUME NEW g, NEW c, NEW fo, NEW ex, ArgsOK(c), NEW r, NEW e,
           KeptDecision(g, Done(c, r, e))
    PROVE  CallInv(g, Done(c, r, e), fo, ex)
BY DEF CallInv, Done, ArgsOK

\* The promise of a call depends on its arguments only, not on how far it is.
LEMMA DecisionOfDone ==
    ASSUME NEW g, NEW c, NEW r, NEW e
    PROVE  /\ Decision(g, Done(c, r, e)) = Decision(g, c)
           /\ Done(c, r, e).ret = r /\ Done(c, r, e).event = e
BY DEF Decision, Done

LEMMA ArgsOfDone ==
    ASSUME NEW c, ArgsOK(c), NEW r, NEW e
    PROVE  ArgsOK(Done(c, r, e))
BY DEF ArgsOK, Done

\* An allowed call is right if nothing was to be refused.
LEMMA AllowKeeps ==
    ASSUME NEW g, NEW c, NEW fo, NEW ex, ArgsOK(c), ~Decision(g, c).denied
    PROVE  CallInv(g, Done(c, 0, NoEvent), fo, ex)
<1>1. Decision(g, Done(c, 0, NoEvent)) = Decision(g, c)
  BY DecisionOfDone
<1>2. Done(c, 0, NoEvent).ret = 0 /\ Done(c, 0, NoEvent).event = NoEvent
  BY DEF Done
<1>3. 0 # EPERM
  BY DEF EPERM
<1>4. KeptDecision(g, Done(c, 0, NoEvent))
  BY <1>1, <1>2, <1>3, Zenon DEF KeptDecision
<1>5. QED
  BY <1>4, DoneKeeps

\* A refused call keeps its promise if that is the policy and the path to refuse
\* it for, whether or not there was room for the record.
LEMMA DenyKeeps ==
    ASSUME NEW g, NEW c, NEW fo, NEW ex, ArgsOK(c), NEW pol, NEW path, NEW e,
           Decision(g, c).denied, Decision(g, c).policy = pol,
           path = Fill(Decision(g, c).path, MAX_PATH_LEN),
           e \in {NoEvent, [policy |-> pol, detail |-> path]}
    PROVE  CallInv(g, Done(c, EPERM, e), fo, ex)
<1>1. Decision(g, Done(c, EPERM, e)) = Decision(g, c)
  BY DecisionOfDone
<1>2. Done(c, EPERM, e).ret = EPERM /\ Done(c, EPERM, e).event = e
  BY DEF Done
<1>3. KeptDecision(g, Done(c, EPERM, e))
  BY <1>1, <1>2, Zenon DEF KeptDecision
<1>4. QED
  BY <1>3, DoneKeeps

\* What is promised, hook by hook.
LEMMA DecisionUntracked ==
    ASSUME NEW g, NEW c, ~c.tracked
    PROVE  Decision(g, c) = Ok
BY DEF Decision

LEMMA DecisionOpen ==
    ASSUME NEW g, NEW c, c.tracked, c.hook = "file_open"
    PROVE  Decision(g, c) = Either(Confined(g, c.paths[1]), ByPathRule(g, c.paths[1]))
BY DEF Decision, DirHooks

LEMMA DecisionDir ==
    ASSUME NEW g, NEW c, c.tracked, c.hook \in DirHooks
    PROVE  Decision(g, c) = Confined(g, c.paths[1])
BY DEF Decision, DirHooks

LEMMA DecisionRename ==
    ASSUME NEW g, NEW c, c.tracked, c.hook = "path_rename"
    PROVE  Decision(g, c) = Either(Confined(g, c.paths[1]), Confined(g, c.paths[2]))
BY DEF Decision, DirHooks

LEMMA DecisionExec ==
    ASSUME NEW g, NEW c, c.tracked, c.hook = "bprm_check_security"
    PROVE  Decision(g, c) = Either(ByCommand(g, c.paths[1]), ByCommand(g, Truncated(c.paths[2])))
BY DEF Decision, DirHooks

\* check_file_open decides as promised: confinement, then length, then suffix rules.
LEMMA OpenVerdict ==
    ASSUME NEW g, Accepted(g), NEW p, IsPath(p), NEW n, n = d_path(p).n,
           NEW path, path = d_path(p).buf
    PROVE  LET refused == g.enforce_workspace /\ Refuses(g, n, path)
               resolved == n > 0 /\ n < MAX_PATH_LEN
               hits == path_hits(g, path, PathLen(n))
               promise == Either(Confined(g, p), ByPathRule(g, p))
           IN  /\ refused => promise = No(g.root_policy, p)
               /\ ~refused /\ (~resolved \/ hits = {}) => promise = Ok
               /\ ~refused /\ resolved /\ hits # {} =>
                     promise = No(g.path_rules[First(hits)].policy, p)
<1>1. Refuses(g, n, path) <=> Outside(g, p)
  BY RefusesIsOutside
<1>2. (n > 0 /\ n < MAX_PATH_LEN) <=> Resolvable(p)
  <2>1. Len(p) \in Nat
    BY DEF IsPath
  <2>2. QED
    BY <2>1, HelperFacts, LengthAssumption DEF Resolvable
<1>3. Resolvable(p) => path_hits(g, path, PathLen(n)) = PathRulesFor(g, p)
  <2> HAVE Resolvable(p)
  <2>1. Len(p) < MAX_PATH_LEN
    BY LengthAssumption DEF Resolvable, IsPath
  <2>2. QED
    BY <2>1, HelperFacts, HitsAgree
<1>4. CASE g.enforce_workspace /\ Outside(g, p)
  <2>1. Confined(g, p) = No(g.root_policy, p)
    BY <1>4 DEF Confined
  <2>2. Either(Confined(g, p), ByPathRule(g, p)) = No(g.root_policy, p)
    BY <2>1 DEF Either, No
  <2>3. QED
    BY <1>1, <1>4, <2>2
<1>5. CASE ~(g.enforce_workspace /\ Outside(g, p))
  <2>1. Either(Confined(g, p), ByPathRule(g, p)) = ByPathRule(g, p)
    BY <1>5 DEF Confined, Either, Ok
  <2>2. QED
    BY <1>1, <1>2, <1>3, <1>5, <2>1 DEF ByPathRule
<1>6. QED
  BY <1>4, <1>5

\* check_exec's two looks decide as ByCommand does.
LEMMA CommandVerdict ==
    ASSUME NEW g, Accepted(g), NEW p, IsPath(p), NEW n, n = d_path(p).n,
           NEW path, path = d_path(p).buf
    PROVE  LET hit == IF n > 0 THEN match_blocked_commands(g, path, PathLen(n)) ELSE 0
           IN  ByCommand(g, p) = IF hit # 0 THEN No(hit, p) ELSE Ok
<1>1. CASE Len(p) < MAX_PATH_LEN
  BY <1>1, HelperFacts, HitsAgree DEF ByCommand
<1>2. CASE ~(Len(p) < MAX_PATH_LEN)
  <2>1. ~(n > 0)
    BY <1>2, HelperFacts
  <2>2. QED
    BY <1>2, <2>1 DEF ByCommand
<1>3. QED
  BY <1>1, <1>2

-----------------------------------------------------------------------------
(* The steps                                                                *)

\* What the invariant says of a call depends on the buffer that the call uses only.
LEMMA OwnBufferOnly ==
    ASSUME NEW g, NEW c, NEW fo, NEW ex, NEW fo2, NEW ex2, CallInv(g, c, fo, ex),
           c.st = "running" /\ c.hook # "bprm_check_security" => fo2 = fo,
           c.st = "running" /\ c.hook = "bprm_check_security" => ex2 = ex
    PROVE  CallInv(g, c, fo2, ex2)
BY DEF CallInv

\* Of the scratch buffers no others than those of one CPU change.
OnlyBuffersOf(cpu) ==
    /\ file_open_path' = [k \in Cpus |-> file_open_path'[k]]
    /\ exec_path' = [k \in Cpus |-> exec_path'[k]]
    /\ \A k \in Cpus : k # cpu => file_open_path'[k] = file_open_path[k] /\ exec_path'[k] = exec_path[k]

LEMMA BufferWrites ==
    ASSUME EInv, NEW cpu, NEW f, NEW x,
           file_open_path' \in {file_open_path, [file_open_path EXCEPT ![cpu] = f]},
           exec_path' \in {exec_path, [exec_path EXCEPT ![cpu] = x]}
    PROVE  OnlyBuffersOf(cpu)
BY DEF EInv, OnlyBuffersOf

\* And the others who use them are torn.
SparesOthers(t, cpu) ==
    /\ OnlyBuffersOf(cpu)
    /\ torn' \in [Tasks -> BOOLEAN]
    /\ \A u \in Tasks \ {t} :
          /\ torn[u] => torn'[u]
          /\ call[u].st # "running" => torn'[u] = torn[u]
          /\ call[u].st = "running" /\ place[u] = cpu /\ ~torn'[u] =>
                IF call[u].hook = "bprm_check_security" THEN exec_path' = exec_path
                ELSE file_open_path' = file_open_path

LEMMA TearSpares ==
    ASSUME EInv, NEW t \in Tasks, NEW cpu, NEW c, Tear(t, cpu, c), NEW b,
           \/ /\ c.hook # "bprm_check_security" /\ exec_path' = exec_path
              /\ file_open_path' = [file_open_path EXCEPT ![cpu] = b]
           \/ /\ c.hook = "bprm_check_security" /\ file_open_path' = file_open_path
              /\ exec_path' = [exec_path EXCEPT ![cpu] = b]
    PROVE  SparesOthers(t, cpu) /\ torn'[t] = torn[t]
<1>1. OnlyBuffersOf(cpu)
  BY BufferWrites
<1>2. torn' \in [Tasks -> BOOLEAN] /\ torn'[t] = torn[t]
  BY DEF EInv, Tear
<1>3. ASSUME NEW u \in Tasks \ {t}
      PROVE  /\ torn[u] => torn'[u]
             /\ call[u].st # "running" => torn'[u] = torn[u]
             /\ call[u].st = "running" /\ place[u] = cpu /\ ~torn'[u] => ~SameBuffer(call[u], c)
  BY DEF EInv, Tear, Busy
<1>4. QED
  BY <1>1, <1>2, <1>3 DEF SparesOthers, SameBuffer

(***************************************************************************)
(* A step of one task leaves the other calls alone, and of the buffers at  *)
(* most those of one CPU change; a call that runs there and uses one that  *)
(* does is torn.  This is what the per-CPU maps are for, and all they are  *)
(* good for.                                                               *)
(***************************************************************************)
LEMMA OnlyThisTask ==
    ASSUME EInv, NEW t \in Tasks, NEW c, NEW at, NEW cpu,
           cfg' = cfg,
           call' = [call EXCEPT ![t] = c],
           place' = [place EXCEPT ![t] = at],
           SparesOthers(t, cpu),
           IF c.st = "idle" THEN ~torn'[t] ELSE ArgsOK(c) /\ at \in Cpus,
           ~torn'[t] => CallInv(cfg, c, file_open_path'[at], exec_path'[at])
    PROVE  EInv'
<1>1. /\ call' = [u \in Tasks |-> call'[u]] /\ place' = [u \in Tasks |-> place'[u]]
      /\ file_open_path' = [k \in Cpus |-> file_open_path'[k]]
      /\ exec_path' = [k \in Cpus |-> exec_path'[k]]
      /\ call'[t] = c /\ place'[t] = at
      /\ \A u \in Tasks \ {t} : call'[u] = call[u] /\ place'[u] = place[u]
  BY DEF EInv, SparesOthers, OnlyBuffersOf
<1>2. ASSUME NEW u \in Tasks
      PROVE  IF call'[u].st = "idle" THEN ~torn'[u] ELSE ArgsOK(call'[u]) /\ place'[u] \in Cpus
  BY <1>1 DEF EInv, SparesOthers
<1>3. ASSUME NEW u \in Tasks, ~torn'[u]
      PROVE  CallInv(cfg', call'[u], file_open_path'[place'[u]], exec_path'[place'[u]])
  <2>1. CASE u = t
    BY <1>1, <1>3, <2>1
  <2>2. CASE u # t
    <3>1. CallInv(cfg, call[u], file_open_path[place[u]], exec_path[place[u]])
      BY <1>3, <2>2 DEF EInv, SparesOthers
    <3>2. ASSUME call[u].st = "running"
          PROVE  /\ call[u].hook # "bprm_check_security" =>
                        file_open_path'[place[u]] = file_open_path[place[u]]
                 /\ call[u].hook = "bprm_check_security" => exec_path'[place[u]] = exec_path[place[u]]
      <4>1. CASE place[u] = cpu
        BY <1>3, <2>2, <3>2, <4>1 DEF SparesOthers
      <4>2. CASE place[u] # cpu
        BY <3>2, <4>2 DEF EInv, SparesOthers, OnlyBuffersOf
      <4>3. QED
        BY <4>1, <4>2
    <3>3. CallInv(cfg, call[u], file_open_path'[place[u]], exec_path'[place[u]])
      BY <3>1, <3>2, OwnBufferOnly
    <3>4. QED
      BY <1>1, <2>2, <3>3
  <2>3. QED
    BY <2>1, <2>2
<1>4. torn' \in [Tasks -> BOOLEAN]
  BY DEF SparesOthers
<1>5. QED
  BY <1>1, <1>2, <1>3, <1>4 DEF EInv

\* A program that ends, or an idle call that passes: no buffer changes.
LEMMA BuffersStay ==
    ASSUME EInv, NEW t \in Tasks, NEW c, NEW at,
           cfg' = cfg, call' = [call EXCEPT ![t] = c], place' = [place EXCEPT ![t] = at],
           torn' = torn, file_open_path' = file_open_path, exec_path' = exec_path,
           c.st # "idle", ArgsOK(c), at \in Cpus,
           ~torn[t] => CallInv(cfg, c, file_open_path[at], exec_path[at])
    PROVE  EInv'
<1>1. OnlyBuffersOf(at)
  BY BufferWrites
<1>2. SparesOthers(t, at)
  BY <1>1 DEF EInv, SparesOthers
<1>3. QED
  BY <1>2, OnlyThisTask

\* A task keeps its place while its program runs.
LEMMA PlaceStays ==
    ASSUME EInv, NEW t \in Tasks, place' = place
    PROVE  place' = [place EXCEPT ![t] = place[t]]
BY DEF EInv

LEMMA CfgAccepted == EInv => Accepted(cfg)
BY ConfigsAssumption DEF EInv

\* Entering a file hook: guards passed, scratch buffer filled; or let through.
LEMMA FileHookKeeps ==
    ASSUME EInv, NEW t \in Tasks, NEW cpu \in Cpus, NEW tracked \in BOOLEAN, NEW hook \in Hooks,
           NEW paths, hook # "bprm_check_security", IsPath(paths[1]),
           hook = "path_rename" => IsPath(paths[2]),
           DOMAIN paths = IF hook = "path_rename" THEN {1, 2} ELSE {1},
           FileHook(t, cpu, hook, paths, tracked)
    PROVE  EInv'
<1> DEFINE c == Running(hook, paths, tracked, 1, d_path(paths[1]).n)
<1>0. /\ ArgsOK(c) /\ c.tracked = tracked /\ c.hook = hook /\ c.paths = paths
      /\ c.st = "running" /\ Done(c, 0, NoEvent).st = "done"
  BY DEF ArgsOK, Running, Done
<1>1. CASE tracked /\ (hook = "file_open" \/ cfg.enforce_workspace)
  <2>1. /\ call' = [call EXCEPT ![t] = c] /\ place' = [place EXCEPT ![t] = cpu]
        /\ file_open_path' = [file_open_path EXCEPT ![cpu] = d_path(paths[1]).buf]
        /\ cfg' = cfg /\ exec_path' = exec_path /\ Tear(t, cpu, c)
    BY <1>1 DEF FileHook, Slot
  <2>2. file_open_path'[cpu] = d_path(paths[1]).buf
    BY <2>1 DEF EInv
  <2>3. CallInv(cfg, c, file_open_path'[cpu], exec_path'[cpu])
    BY <1>1, <2>2 DEF CallInv, ArgsOK, FileBusy, Running, Hooks, DirHooks
  <2> HIDE DEF c
  <2>4. SparesOthers(t, cpu)
    BY <1>0, <2>1, TearSpares
  <2>5. QED
    BY <1>0, <2>1, <2>3, <2>4, OnlyThisTask
<1>2. CASE ~(tracked /\ (hook = "file_open" \/ cfg.enforce_workspace))
  <2>1. /\ call' = [call EXCEPT ![t] = Done(c, 0, NoEvent)] /\ place' = [place EXCEPT ![t] = cpu]
        /\ cfg' = cfg /\ exec_path' = exec_path /\ file_open_path' = file_open_path /\ torn' = torn
    BY <1>2 DEF FileHook
  <2> HIDE DEF c
  <2>3. Decision(cfg, c) = Ok
    <3>1. CASE ~tracked
      BY <1>0, <3>1, DecisionUntracked
    <3>2. CASE tracked /\ ~cfg.enforce_workspace /\ hook \in DirHooks
      <4>1. Confined(cfg, paths[1]) = Ok
        BY <3>2 DEF Confined
      <4>2. QED
        BY <1>0, <3>2, <4>1, DecisionDir
    <3>3. CASE tracked /\ ~cfg.enforce_workspace /\ hook = "path_rename"
      <4>1. Confined(cfg, paths[1]) = Ok /\ Confined(cfg, paths[2]) = Ok
        BY <3>3 DEF Confined
      <4>2. Either(Ok, Ok) = Ok
        BY DEF Either
      <4>3. QED
        BY <1>0, <3>3, <4>1, <4>2, DecisionRename
    <3>4. QED
      BY <1>2, <3>1, <3>2, <3>3 DEF Hooks
  <2>4. ~Decision(cfg, c).denied
    BY <2>3 DEF Ok
  <2>5. /\ CallInv(cfg, Done(c, 0, NoEvent), file_open_path[cpu], exec_path[cpu])
        /\ ArgsOK(Done(c, 0, NoEvent))
    BY <1>0, <2>4, AllowKeeps, ArgsOfDone
  <2>6. QED
    BY <1>0, <2>1, <2>5, BuffersStay
<1>3. QED
  BY <1>1, <1>2

\* Entering check_exec.
LEMMA ExecHookKeeps ==
    ASSUME EInv, NEW t \in Tasks, NEW cpu \in Cpus, NEW tracked \in BOOLEAN, NEW p, NEW q,
           IsPath(p), IsPath(q), ExecHook(t, cpu, p, q, tracked)
    PROVE  EInv'
<1> DEFINE c == Running("bprm_check_security", <<p, q>>, tracked, 1, d_path(p).n)
<1>1. /\ ArgsOK(c) /\ c.tracked = tracked /\ c.hook = "bprm_check_security"
      /\ c.paths[1] = p /\ c.at = 1 /\ c.n = d_path(p).n /\ c.st = "running"
      /\ Done(c, 0, NoEvent).st = "done"
  BY DEF ArgsOK, Running, Hooks, Done
<1>2. CASE tracked
  <2>1. /\ call' = [call EXCEPT ![t] = c] /\ place' = [place EXCEPT ![t] = cpu]
        /\ exec_path' = [exec_path EXCEPT ![cpu] = d_path(p).buf]
        /\ cfg' = cfg /\ file_open_path' = file_open_path /\ Tear(t, cpu, c)
    BY <1>2 DEF ExecHook, Slot
  <2>2. exec_path'[cpu] = d_path(p).buf
    BY <2>1 DEF EInv
  <2> HIDE DEF c
  <2>3. CallInv(cfg, c, file_open_path'[cpu], exec_path'[cpu])
    BY <1>1, <1>2, <2>2 DEF CallInv, ExecBusy
  <2>4. SparesOthers(t, cpu)
    BY <1>1, <2>1, TearSpares
  <2>5. QED
    BY <1>1, <2>1, <2>3, <2>4, OnlyThisTask
<1>3. CASE ~tracked
  <2>1. /\ call' = [call EXCEPT ![t] = Done(c, 0, NoEvent)] /\ place' = [place EXCEPT ![t] = cpu]
        /\ cfg' = cfg /\ exec_path' = exec_path /\ file_open_path' = file_open_path /\ torn' = torn
    BY <1>3 DEF ExecHook
  <2> HIDE DEF c
  <2>2. ~Decision(cfg, c).denied
    BY <1>1, <1>3, DecisionUntracked DEF Ok
  <2>3. /\ CallInv(cfg, Done(c, 0, NoEvent), file_open_path[cpu], exec_path[cpu])
        /\ ArgsOK(Done(c, 0, NoEvent))
    BY <1>1, <2>2, AllowKeeps, ArgsOfDone
  <2>4. QED
    BY <1>1, <2>1, <2>3, BuffersStay
<1>4. QED
  BY <1>2, <1>3

\* A program that ends, whatever its verdict, if what it finds is as it should be
\* or it was disturbed.
LEMMA EndStep ==
    ASSUME EInv, NEW t \in Tasks, Busy(t), NEW r, NEW e,
           call' = [call EXCEPT ![t] = Done(call[t], r, e)],
           UNCHANGED <<cfg, place, torn, file_open_path, exec_path>>,
           torn[t] \/ CallInv(cfg, Done(call[t], r, e), file_open_path[place[t]], exec_path[place[t]])
    PROVE  EInv'
<1>1. /\ ArgsOK(Done(call[t], r, e)) /\ place[t] \in Cpus
      /\ Done(call[t], r, e).st = "done"
  BY ArgsOfDone DEF EInv, Busy, Done
<1>2. place' = [place EXCEPT ![t] = place[t]]
  BY PlaceStays
<1>3. QED
  BY <1>1, <1>2, BuffersStay

LEMMA TornStep ==
    ASSUME EInv, NEW t \in Tasks, Busy(t), torn[t], NEW pol, NEW path,
           Allow(t) \/ Deny(t, pol, path), UNCHANGED <<cfg, place, torn, file_open_path, exec_path>>
    PROVE  EInv'
<1>1. CASE Allow(t)
  BY <1>1, EndStep DEF Allow
<1>2. CASE Deny(t, pol, path)
  BY <1>2, EndStep DEF Deny
<1>3. QED
  BY <1>1, <1>2

\* A hook that returns 0 where nothing was to be refused.
LEMMA AllowStep ==
    ASSUME EInv, NEW t \in Tasks, Busy(t), ArgsOK(call[t]), Decision(cfg, call[t]) = Ok,
           Allow(t), UNCHANGED <<cfg, place, torn, file_open_path, exec_path>>
    PROVE  EInv'
<1>1. ~Decision(cfg, call[t]).denied
  BY DEF Ok
<1>2. CallInv(cfg, Done(call[t], 0, NoEvent), file_open_path[place[t]], exec_path[place[t]])
  BY <1>1, AllowKeeps
<1>3. QED
  BY <1>2, EndStep DEF Allow

\* A hook that refuses what was to be refused, with the right policy and path.
LEMMA DenyStep ==
    ASSUME EInv, NEW t \in Tasks, Busy(t), ArgsOK(call[t]), NEW pol, NEW p, IsPath(p), NEW path,
           path = d_path(p).buf, Decision(cfg, call[t]) = No(pol, p),
           Deny(t, pol, path), UNCHANGED <<cfg, place, torn, file_open_path, exec_path>>
    PROVE  EInv'
<1> DEFINE e == IF ring < RingCap THEN [policy |-> pol, detail |-> path] ELSE NoEvent
<1>1. /\ No(pol, p).denied /\ No(pol, p).policy = pol
      /\ path = Fill(No(pol, p).path, MAX_PATH_LEN)
  <2>1. No(pol, p).denied = TRUE
    BY DEF No
  <2>2. No(pol, p).policy = pol
    BY DEF No
  <2>3. No(pol, p).path = IF Len(p) < MAX_PATH_LEN THEN p ELSE <<>>
    BY DEF No
  <2>4. QED
    BY <2>1, <2>2, <2>3, HelperFacts
<1>2. e \in {NoEvent, [policy |-> pol, detail |-> path]}
  OBVIOUS
<1>3. CallInv(cfg, Done(call[t], EPERM, e), file_open_path[place[t]], exec_path[place[t]])
  <2> HIDE DEF e
  <2>1. /\ Decision(cfg, call[t]).denied /\ Decision(cfg, call[t]).policy = pol
        /\ path = Fill(Decision(cfg, call[t]).path, MAX_PATH_LEN)
    BY <1>1
  <2>2. QED
    BY <1>2, <2>1, DenyKeeps
<1>4. call' = [call EXCEPT ![t] = Done(call[t], EPERM, e)]
  BY DEF Deny
<1>5. QED
  <2> HIDE DEF e
  <2> QED BY <1>3, <1>4, EndStep

\* check_file_open.
LEMMA CheckFileOpenKeeps ==
    ASSUME EInv, NEW t \in Tasks, CheckFileOpen(t)
    PROVE  EInv'
<1> DEFINE c == call[t]
           path == file_open_path[place[t]]
           p == c.paths[1]
           refused == cfg.enforce_workspace /\ Refuses(cfg, c.n, path)
           resolved == c.n > 0 /\ c.n < MAX_PATH_LEN
           hits == path_hits(cfg, path, PathLen(c.n))
<1>1. Busy(t) /\ c.st = "running" /\ c.hook = "file_open"
  BY DEF CheckFileOpen, Busy
<1>2. UNCHANGED <<cfg, place, torn, file_open_path, exec_path>>
  BY DEF CheckFileOpen
<1>3. \/ refused /\ Deny(t, cfg.root_policy, path)
      \/ ~refused /\ (~resolved \/ hits = {}) /\ Allow(t)
      \/ ~refused /\ resolved /\ hits # {} /\ Deny(t, cfg.path_rules[First(hits)].policy, path)
  BY DEF CheckFileOpen, Slot
<1>4. CASE torn[t]
  <2> HIDE DEF path, refused, resolved, hits
  <2> QED BY <1>1, <1>2, <1>3, <1>4, TornStep
<1>5. CASE ~torn[t]
  <2>1. /\ ArgsOK(c) /\ c.tracked /\ c.n = d_path(p).n /\ path = d_path(p).buf /\ IsPath(p)
    <3>1. CallInv(cfg, c, path, exec_path[place[t]])
      BY <1>5 DEF EInv
    <3>2. ArgsOK(c) /\ c.tracked /\ FileBusy(cfg, c, path)
      BY <1>1, <3>1 DEF CallInv
    <3>3. c.at = 1
      BY <1>1, <3>2 DEF FileBusy
    <3>4. QED
      BY <3>2, <3>3 DEF FileBusy, ArgsOK
  <2>2. Decision(cfg, c) = Either(Confined(cfg, p), ByPathRule(cfg, p))
    BY <1>1, <2>1, DecisionOpen
  <2>3. /\ refused => Decision(cfg, c) = No(cfg.root_policy, p)
        /\ ~refused /\ (~resolved \/ hits = {}) => Decision(cfg, c) = Ok
        /\ ~refused /\ resolved /\ hits # {} =>
              Decision(cfg, c) = No(cfg.path_rules[First(hits)].policy, p)
    BY <2>1, <2>2, CfgAccepted, OpenVerdict
  <2> HIDE DEF path, p, refused, resolved, hits
  <2>4. CASE refused /\ Deny(t, cfg.root_policy, path)
    BY <1>1, <1>2, <2>1, <2>3, <2>4, DenyStep
  <2>5. CASE ~refused /\ (~resolved \/ hits = {}) /\ Allow(t)
    BY <1>1, <1>2, <2>1, <2>3, <2>5, AllowStep
  <2>6. CASE ~refused /\ resolved /\ hits # {} /\ Deny(t, cfg.path_rules[First(hits)].policy, path)
    BY <1>1, <1>2, <2>1, <2>3, <2>6, DenyStep
  <2>7. QED
    BY <1>3, <2>4, <2>5, <2>6
<1>6. QED
  BY <1>4, <1>5

\* A rename or an exec looks a second time, in the buffer it has used before.
LEMMA SecondLook ==
    ASSUME EInv, NEW t \in Tasks, Busy(t), NEW c2, c2.st = "running", ArgsOK(c2), NEW b,
           cfg' = cfg, place' = place, call' = [call EXCEPT ![t] = c2], Tear(t, place[t], c2),
           \/ /\ c2.hook # "bprm_check_security" /\ exec_path' = exec_path
              /\ file_open_path' = [file_open_path EXCEPT ![place[t]] = b]
           \/ /\ c2.hook = "bprm_check_security" /\ file_open_path' = file_open_path
              /\ exec_path' = [exec_path EXCEPT ![place[t]] = b],
           ~torn[t] => CallInv(cfg, c2, file_open_path'[place[t]], exec_path'[place[t]])
    PROVE  EInv'
<1>1. SparesOthers(t, place[t]) /\ torn'[t] = torn[t]
  BY TearSpares
<1>2. place' = [place EXCEPT ![t] = place[t]] /\ place[t] \in Cpus
  BY PlaceStays DEF EInv, Busy
<1>3. QED
  BY <1>1, <1>2, OnlyThisTask

\* A directory hook: the path looked at is inside or the call is refused, and a
\* rename whose old directory is inside goes on with the new one.
LEMMA ConfineDirUndisturbed ==
    ASSUME EInv, NEW t \in Tasks, ConfineDir(t), ~torn[t]
    PROVE  EInv'
<1> DEFINE c == call[t]
           path == file_open_path[place[t]]
           p == c.paths[c.at]
           c2 == Running(c.hook, c.paths, c.tracked, 2, d_path(c.paths[2]).n)
<1>1. Busy(t) /\ c.st = "running" /\ c.hook \in DirHooks \cup {"path_rename"}
  BY DEF ConfineDir, Busy
<1>2. ArgsOK(c) /\ c.tracked /\ FileBusy(cfg, c, path)
  <2>1. CallInv(cfg, c, path, exec_path[place[t]])
    BY DEF EInv
  <2>2. c.hook # "bprm_check_security"
    BY <1>1 DEF DirHooks
  <2>3. QED
    BY <1>1, <2>1, <2>2 DEF CallInv
<1>3. /\ IsPath(p) /\ c.n = d_path(p).n /\ path = d_path(p).buf
      /\ cfg.enforce_workspace /\ c.at \in {1, 2}
      /\ c.at = 2 => c.hook = "path_rename" /\ ~Outside(cfg, c.paths[1])
  <2>1. c.at = 2 => c.hook = "path_rename"
    BY <1>2 DEF FileBusy
  <2>2. IsPath(c.paths[1]) /\ (c.at = 2 => IsPath(c.paths[2]))
    BY <1>2, <2>1 DEF ArgsOK
  <2>3. QED
    BY <1>1, <1>2, <2>2 DEF FileBusy
<1>4. Refuses(cfg, c.n, path) <=> Outside(cfg, p)
  BY <1>3, CfgAccepted, RefusesIsOutside
<1>5. cfg' = cfg /\ place' = place /\ exec_path' = exec_path
  BY DEF ConfineDir
<1>6. c.hook \in DirHooks => Decision(cfg, c) = Confined(cfg, c.paths[1]) /\ c.at = 1
  <2> HAVE c.hook \in DirHooks
  <2>1. c.at = 1
    BY <1>3 DEF DirHooks
  <2>2. QED
    BY <1>2, <2>1, DecisionDir
<1>7. c.hook = "path_rename" =>
        Decision(cfg, c) = Either(Confined(cfg, c.paths[1]), Confined(cfg, c.paths[2]))
  BY <1>2, DecisionRename
<1>8. ASSUME Refuses(cfg, c.n, path), Deny(t, cfg.root_policy, path),
             UNCHANGED <<torn, file_open_path>>
      PROVE  EInv'
  <2>1. Confined(cfg, p) = No(cfg.root_policy, p)
    BY <1>3, <1>4, <1>8 DEF Confined
  <2>2. Decision(cfg, c) = No(cfg.root_policy, p)
    <3>1. CASE c.hook \in DirHooks
      BY <1>6, <2>1, <3>1
    <3>2. CASE c.hook = "path_rename" /\ c.at = 1
      BY <1>7, <2>1, <3>2 DEF Either, No
    <3>3. CASE c.hook = "path_rename" /\ c.at = 2
      <4>1. Confined(cfg, c.paths[1]) = Ok
        BY <1>3, <3>3 DEF Confined
      <4>2. QED
        BY <1>7, <2>1, <3>3, <4>1 DEF Either, Ok
    <3>4. QED
      BY <1>1, <1>3, <3>1, <3>2, <3>3
  <2>3. QED
    <3> HIDE DEF p, path
    <3> QED BY <1>1, <1>2, <1>3, <1>5, <1>8, <2>2, DenyStep
<1>9. ASSUME ~Refuses(cfg, c.n, path), c.hook # "path_rename" \/ c.at = 2, Allow(t),
             UNCHANGED <<torn, file_open_path>>
      PROVE  EInv'
  <2>1. Confined(cfg, p) = Ok
    BY <1>4, <1>9 DEF Confined
  <2>2. Decision(cfg, c) = Ok
    <3>1. CASE c.hook \in DirHooks
      BY <1>6, <2>1, <3>1
    <3>2. CASE c.hook = "path_rename" /\ c.at = 2
      <4>1. Confined(cfg, c.paths[1]) = Ok
        BY <1>3, <3>2 DEF Confined
      <4>2. QED
        BY <1>7, <2>1, <3>2, <4>1 DEF Either, Ok
    <3>3. QED
      BY <1>1, <1>9, <3>1, <3>2
  <2>3. QED
    BY <1>1, <1>2, <1>5, <1>9, <2>2, AllowStep
<1>10. ASSUME ~Refuses(cfg, c.n, path), c.hook = "path_rename", c.at = 1,
              call' = [call EXCEPT ![t] = c2], Tear(t, place[t], c2),
              file_open_path' = [file_open_path EXCEPT ![place[t]] = d_path(c.paths[2]).buf]
       PROVE  EInv'
  <2>1. file_open_path'[place[t]] = d_path(c.paths[2]).buf
    BY <1>1, <1>10 DEF EInv
  <2>2. ~Outside(cfg, c.paths[1])
    BY <1>4, <1>10
  <2>3. /\ c2.st = "running" /\ c2.hook = c.hook /\ c2.paths = c.paths /\ c2.tracked = c.tracked
        /\ c2.at = 2 /\ c2.n = d_path(c.paths[2]).n
    BY DEF Running
  <2> HIDE DEF c2
  <2>4. ArgsOK(c2) /\ FileBusy(cfg, c2, file_open_path'[place[t]])
    BY <1>2, <1>3, <1>10, <2>1, <2>2, <2>3 DEF ArgsOK, FileBusy
  <2>5. CallInv(cfg, c2, file_open_path'[place[t]], exec_path'[place[t]])
    BY <1>2, <1>10, <2>3, <2>4 DEF CallInv
  <2>6. QED
    BY <1>1, <1>5, <1>10, <2>3, <2>4, <2>5, SecondLook DEF DirHooks
<1>11. QED
  BY <1>8, <1>9, <1>10 DEF ConfineDir, Slot

LEMMA ConfineDirKeeps ==
    ASSUME EInv, NEW t \in Tasks, ConfineDir(t)
    PROVE  EInv'
<1> DEFINE c == call[t]
           c2 == Running(c.hook, c.paths, c.tracked, 2, d_path(c.paths[2]).n)
<1>1. Busy(t) /\ c.st = "running" /\ cfg' = cfg /\ place' = place /\ exec_path' = exec_path
  BY DEF ConfineDir, Busy
<1>2. CASE ~torn[t]
  BY <1>2, ConfineDirUndisturbed
<1>3. CASE torn[t]
  <2>1. \/ /\ Allow(t) \/ Deny(t, cfg.root_policy, file_open_path[place[t]])
           /\ UNCHANGED <<torn, file_open_path>>
        \/ /\ c.hook = "path_rename" /\ call' = [call EXCEPT ![t] = c2] /\ Tear(t, place[t], c2)
           /\ file_open_path' = [file_open_path EXCEPT ![place[t]] = d_path(c.paths[2]).buf]
    BY DEF ConfineDir, Slot
  <2>2. c2.st = "running" /\ c2.hook = c.hook /\ ArgsOK(c2)
    BY <1>1 DEF EInv, ArgsOK, Running
  <2> HIDE DEF c2
  <2>3. QED
    BY <1>1, <1>3, <2>1, <2>2, TornStep, SecondLook
<1>4. QED
  BY <1>2, <1>3

\* check_exec: each look decides as ByCommand does for the path it is about.
LEMMA CheckExecUndisturbed ==
    ASSUME EInv, NEW t \in Tasks, CheckExec(t), ~torn[t]
    PROVE  EInv'
<1> DEFINE c == call[t]
           path == exec_path[place[t]]
           p == IF c.at = 1 THEN c.paths[1] ELSE Truncated(c.paths[2])
           hit == IF c.n > 0 THEN match_blocked_commands(cfg, path, PathLen(c.n)) ELSE 0
           c2 == Running(c.hook, c.paths, c.tracked, 2, probe_read_str(c.paths[2]).n)
<1>1. Busy(t) /\ c.st = "running" /\ c.hook = "bprm_check_security"
  BY DEF CheckExec, Busy
<1>2. ArgsOK(c) /\ c.tracked /\ ExecBusy(cfg, c, path)
  <2>1. CallInv(cfg, c, file_open_path[place[t]], path)
    BY DEF EInv
  <2>2. QED
    BY <1>1, <2>1 DEF CallInv
<1>3. /\ IsPath(p) /\ c.n = d_path(p).n /\ path = d_path(p).buf /\ c.at \in {1, 2}
      /\ c.at = 2 => ~ByCommand(cfg, c.paths[1]).denied
  <2>1. IsPath(c.paths[1]) /\ IsPath(c.paths[2])
    BY <1>1, <1>2 DEF ArgsOK
  <2>2. IsPath(Truncated(c.paths[2]))
    BY <2>1, HelperFacts
  <2>3. CASE c.at = 1
    BY <1>2, <2>1, <2>3 DEF ExecBusy
  <2>4. CASE c.at = 2
    BY <1>2, <2>2, <2>4 DEF ExecBusy, probe_read_str
  <2>5. QED
    BY <1>2, <2>3, <2>4 DEF ExecBusy
<1>4. ByCommand(cfg, p) = IF hit # 0 THEN No(hit, p) ELSE Ok
  <2> HIDE DEF p
  <2> QED BY <1>3, CfgAccepted, CommandVerdict
<1>5. cfg' = cfg /\ place' = place /\ file_open_path' = file_open_path
  BY DEF CheckExec
<1>6. Decision(cfg, c) = Either(ByCommand(cfg, c.paths[1]), ByCommand(cfg, Truncated(c.paths[2])))
  BY <1>1, <1>2, DecisionExec
<1>7. c.at = 2 => Decision(cfg, c) = ByCommand(cfg, p)
  <2> HAVE c.at = 2
  <2>1. p = Truncated(c.paths[2])
    OBVIOUS
  <2>2. ~ByCommand(cfg, c.paths[1]).denied
    BY <1>3
  <2> HIDE DEF p
  <2>3. QED
    BY <1>6, <2>1, <2>2, Zenon DEF Either
<1>8. ASSUME hit # 0, Deny(t, hit, path), UNCHANGED <<torn, exec_path>>
      PROVE  EInv'
  <2> HIDE DEF hit
  <2>1. ByCommand(cfg, p) = No(hit, p)
    BY <1>4, <1>8
  <2>2. Decision(cfg, c) = No(hit, p)
    <3>1. CASE c.at = 1
      <4>1. p = c.paths[1]
        BY <3>1
      <4>2. No(hit, p).denied = TRUE
        BY DEF No
      <4> HIDE DEF p
      <4>3. QED
        BY <1>6, <2>1, <4>1, <4>2, Zenon DEF Either
    <3>2. CASE c.at = 2
      BY <1>7, <2>1, <3>2
    <3>3. QED
      BY <1>3, <3>1, <3>2
  <2>3. QED
    <3> HIDE DEF p, path
    <3> QED BY <1>1, <1>2, <1>3, <1>5, <1>8, <2>2, DenyStep
<1>9. ASSUME hit = 0, c.at = 2, Allow(t), UNCHANGED <<torn, exec_path>>
      PROVE  EInv'
  <2>1. Decision(cfg, c) = Ok
    BY <1>4, <1>7, <1>9
  <2>2. QED
    BY <1>1, <1>2, <1>5, <1>9, <2>1, AllowStep
<1>10. ASSUME hit = 0, c.at = 1, call' = [call EXCEPT ![t] = c2], Tear(t, place[t], c2),
              exec_path' = [exec_path EXCEPT ![place[t]] = probe_read_str(c.paths[2]).buf]
       PROVE  EInv'
  <2>1. exec_path'[place[t]] = probe_read_str(c.paths[2]).buf
    BY <1>1, <1>10 DEF EInv
  <2>2. ~ByCommand(cfg, c.paths[1]).denied
    <3>1. ByCommand(cfg, c.paths[1]) = Ok
      BY <1>4, <1>10
    <3>2. QED
      BY <3>1 DEF Ok
  <2>3. /\ c2.st = "running" /\ c2.hook = c.hook /\ c2.paths = c.paths /\ c2.tracked = c.tracked
        /\ c2.at = 2 /\ c2.n = probe_read_str(c.paths[2]).n
    BY DEF Running
  <2> HIDE DEF c2
  <2>4. ArgsOK(c2) /\ ExecBusy(cfg, c2, exec_path'[place[t]])
    <3>1. ArgsOK(c2)
      BY <1>2, <2>3 DEF ArgsOK
    <3>2. ExecBusy(cfg, c2, exec_path'[place[t]])
      BY <2>1, <2>2, <2>3, Zenon DEF ExecBusy
    <3>3. QED
      BY <3>1, <3>2
  <2>5. CallInv(cfg, c2, file_open_path'[place[t]], exec_path'[place[t]])
    BY <1>1, <1>2, <2>3, <2>4 DEF CallInv
  <2>6. QED
    BY <1>1, <1>5, <1>10, <2>3, <2>4, <2>5, SecondLook
<1>11. QED
  BY <1>8, <1>9, <1>10 DEF CheckExec, Slot

LEMMA CheckExecKeeps ==
    ASSUME EInv, NEW t \in Tasks, CheckExec(t)
    PROVE  EInv'
<1> DEFINE c == call[t]
           c2 == Running(c.hook, c.paths, c.tracked, 2, probe_read_str(c.paths[2]).n)
<1>1. /\ Busy(t) /\ c.st = "running" /\ c.hook = "bprm_check_security"
      /\ cfg' = cfg /\ place' = place /\ file_open_path' = file_open_path
  BY DEF CheckExec, Busy
<1>2. CASE ~torn[t]
  BY <1>2, CheckExecUndisturbed
<1>3. CASE torn[t]
  <2>1. \/ /\ Allow(t) \/ \E pol : Deny(t, pol, exec_path[place[t]])
           /\ UNCHANGED <<torn, exec_path>>
        \/ /\ call' = [call EXCEPT ![t] = c2] /\ Tear(t, place[t], c2)
           /\ exec_path' = [exec_path EXCEPT ![place[t]] = probe_read_str(c.paths[2]).buf]
    BY DEF CheckExec, Slot
  <2>2. c2.st = "running" /\ c2.hook = c.hook /\ ArgsOK(c2)
    BY <1>1 DEF EInv, ArgsOK, Running
  <2> HIDE DEF c2
  <2>3. QED
    BY <1>1, <1>3, <2>1, <2>2, TornStep, SecondLook
<1>4. QED
  BY <1>2, <1>3

LEMMA MismatchKeeps ==
    ASSUME EInv, NEW t \in Tasks, Mismatch(t)
    PROVE  EInv'
BY TornStep DEF Mismatch

\* A buffer is forgotten only where no program uses it.
LEMMA ReturnKeeps ==
    ASSUME EInv, NEW t \in Tasks, Return(t)
    PROVE  EInv'
<1>1. /\ call' = [call EXCEPT ![t] = Idle] /\ place' = [place EXCEPT ![t] = Nowhere] /\ cfg' = cfg
      /\ torn' = [torn EXCEPT ![t] = FALSE]
  BY DEF Return
<1>2. ~torn'[t]
  BY <1>1 DEF EInv
<1>3. \/ file_open_path' = file_open_path /\ exec_path' = exec_path
      \/ /\ file_open_path' = [file_open_path EXCEPT ![place[t]] = Blank]
         /\ exec_path' = [exec_path EXCEPT ![place[t]] = Blank]
         /\ \A u \in Tasks : ~(call[u].st = "running" /\ place[u] = place[t])
  BY DEF Return, Slot, Busy
<1>4. CallInv(cfg, Idle, file_open_path'[Nowhere], exec_path'[Nowhere]) /\ Idle.st = "idle"
  BY DEF CallInv, Idle
<1>5. SparesOthers(t, place[t])
  <2>1. OnlyBuffersOf(place[t])
    BY <1>3, BufferWrites
  <2>2. QED
    BY <1>1, <1>3, <2>1 DEF EInv, SparesOthers
<1>6. QED
  BY <1>1, <1>2, <1>4, <1>5, OnlyThisTask

-----------------------------------------------------------------------------
\* The strengthening: the scratch buffer of an undisturbed program holds what d_path
\* left there for the program's own path, and what it has matched so far is
\* accounted for.
THEOREM EnforcerInvariant == Spec => []EInv
<1>1. Init => EInv
  BY DEF Init, EInv, CallInv, Idle
<1>2. EInv /\ [Next]_vars => EInv'
  <2> SUFFICES ASSUME EInv, [Next]_vars PROVE EInv'
    OBVIOUS
  <2>1. ASSUME NEW t \in Tasks, NEW cpu \in Cpus, NEW tracked \in BOOLEAN, NEW p \in Paths,
               NEW hook \in DirHooks \cup {"file_open"}, FileHook(t, cpu, hook, <<p>>, tracked)
        PROVE  EInv'
    <3>1. /\ IsPath(<<p>>[1]) /\ hook \in Hooks /\ hook # "bprm_check_security"
          /\ hook # "path_rename" /\ DOMAIN <<p>> = {1}
      BY PathsAssumption DEF Hooks, DirHooks
    <3>2. QED
      BY <2>1, <3>1, FileHookKeeps
  <2>2. ASSUME NEW t \in Tasks, NEW cpu \in Cpus, NEW tracked \in BOOLEAN, NEW p \in Paths,
               NEW q \in Paths, FileHook(t, cpu, "path_rename", <<p, q>>, tracked)
        PROVE  EInv'
    <3>1. /\ IsPath(<<p, q>>[1]) /\ IsPath(<<p, q>>[2]) /\ "path_rename" \in Hooks
          /\ DOMAIN <<p, q>> = {1, 2}
      BY PathsAssumption DEF Hooks
    <3>2. QED
      BY <2>2, <3>1, FileHookKeeps
  <2>3. ASSUME NEW t \in Tasks, NEW cpu \in Cpus, NEW tracked \in BOOLEAN, NEW p \in Paths,
               NEW q \in Paths, ExecHook(t, cpu, p, q, tracked)
        PROVE  EInv'
    BY <2>3, PathsAssumption, ExecHookKeeps
  <2>4. ASSUME NEW t \in Tasks,
               CheckFileOpen(t) \/ ConfineDir(t) \/ CheckExec(t) \/ Mismatch(t) \/ Return(t)
        PROVE  EInv'
    BY <2>4, CheckFileOpenKeeps, ConfineDirKeeps, CheckExecKeeps, MismatchKeeps, ReturnKeeps
  <2>5. CASE Drain
    BY <2>5 DEF Drain, EInv
  <2>6. CASE UNCHANGED vars
    BY <2>6 DEF vars, EInv
  <2>7. QED
    BY <2>1, <2>2, <2>3, <2>4, <2>5, <2>6 DEF Next
<1>3. QED
  BY <1>1, <1>2, PTL DEF Spec

-----------------------------------------------------------------------------
(* From what the hooks decide to what the rules say                        *)

\* A set of indices that is not empty has a first one.
LEMMA FirstIsMember ==
    ASSUME NEW S \in SUBSET Nat, S # {}
    PROVE  First(S) \in S
<1> DEFINE R == {ss \in Nat \X Nat : ss[1] < ss[2]}
<1>1. IsWellFoundedOn(R, Nat)
  <2>1. OpToRel(<, Nat) = R
    BY DEF OpToRel
  <2>2. QED
    BY <2>1, NatLessThanWellFounded
<1>2. PICK i \in S : \A j \in S : ~(<<j, i>> \in R)
  <2> HIDE DEF R
  <2> QED BY <1>1, WFMin
<1>3. ASSUME NEW j \in S PROVE i <= j
  <2>1. ~(<<j, i>> \in R)
    BY <1>2
  <2>2. j \in Nat /\ i \in Nat
    OBVIOUS
  <2>3. QED
    BY <2>1, <2>2
<1>4. QED
  BY <1>3 DEF First

\* Where a rule matches, its policy is a number from 1 on, so the hit is seen.
LEMMA CommandIsRule ==
    ASSUME NEW g, Accepted(g), NEW p
    PROVE  CmdPolicy(g, p) # 0 <=> CmdRulesFor(g, p) # {}
<1>1. CmdRulesFor(g, p) \subseteq DOMAIN g.cmd_rules
  BY DEF CmdRulesFor
<1>2. ASSUME CmdRulesFor(g, p) # {} PROVE CmdPolicy(g, p) # 0
  <2>1. CmdRulesFor(g, p) \in SUBSET Nat
    BY <1>1 DEF Accepted
  <2>2. First(CmdRulesFor(g, p)) \in DOMAIN g.cmd_rules
    BY <1>1, <1>2, <2>1, FirstIsMember
  <2>3. QED
    BY <1>2, <2>2 DEF CmdPolicy, Accepted, IsRule
<1>3. QED
  BY <1>2 DEF CmdPolicy

\* For a call that fits its buffers the hooks decide what the rules say.
LEMMA DecisionIsRules ==
    ASSUME NEW g, Accepted(g), NEW c, ArgsOK(c), Fits(c)
    PROVE  Decision(g, c).denied <=> RulesRefuse(g, c)
<1> DEFINE p == c.paths[1]
           q == c.paths[2]
<1>1. \A r, a : /\ Confined(g, r).denied <=> g.enforce_workspace /\ Outside(g, r)
                /\ ByPathRule(g, r).denied <=> Resolvable(r) /\ PathRulesFor(g, r) # {}
                /\ ByCommand(g, r).denied <=> Len(r) < MAX_PATH_LEN /\ CmdPolicy(g, r) # 0
  BY DEF Confined, ByPathRule, ByCommand, No, Ok
<1>2. \A a, b : Either(a, b).denied <=> a.denied \/ b.denied
  BY DEF Either
<1>3. CASE ~c.tracked
  BY <1>3, DecisionUntracked DEF RulesRefuse, Ok
<1>4. CASE c.tracked /\ c.hook = "file_open"
  <2>1. DOMAIN c.paths = {1} /\ Resolvable(p)
    BY <1>4 DEF ArgsOK, Fits
  <2>2. Decision(g, c).denied <=> Confined(g, p).denied \/ ByPathRule(g, p).denied
    BY <1>2, <1>4, DecisionOpen
  <2>3. QED
    BY <1>1, <1>4, <2>1, <2>2 DEF RulesRefuse, Outside
<1>5. CASE c.tracked /\ c.hook \in DirHooks
  <2>1. c.hook \notin {"file_open", "path_rename", "bprm_check_security"}
    BY <1>5 DEF DirHooks
  <2>2. DOMAIN c.paths = {1} /\ Resolvable(p)
    BY <2>1 DEF ArgsOK, Fits
  <2>3. Decision(g, c).denied <=> Confined(g, p).denied
    BY <1>5, DecisionDir
  <2>4. QED
    BY <1>1, <1>5, <2>1, <2>2, <2>3 DEF RulesRefuse, Outside
<1>6. CASE c.tracked /\ c.hook = "path_rename"
  <2>1. DOMAIN c.paths = {1, 2} /\ Resolvable(p) /\ Resolvable(q)
    BY <1>6 DEF ArgsOK, Fits
  <2>2. Decision(g, c).denied <=> Confined(g, p).denied \/ Confined(g, q).denied
    BY <1>2, <1>6, DecisionRename
  <2>3. QED
    BY <1>1, <1>6, <2>1, <2>2 DEF RulesRefuse, Outside
<1>7. CASE c.tracked /\ c.hook = "bprm_check_security"
  <2>1. DOMAIN c.paths = {1, 2} /\ Len(p) < MAX_PATH_LEN /\ Len(q) < MAX_PATH_LEN
    BY <1>7 DEF ArgsOK, Fits
  <2>2. Truncated(q) = q
    BY <2>1 DEF Truncated
  <2>3. Decision(g, c).denied <=> ByCommand(g, p).denied \/ ByCommand(g, q).denied
    BY <1>2, <1>7, <2>2, DecisionExec
  <2>4. QED
    BY <1>1, <1>7, <2>1, <2>3, CommandIsRule DEF RulesRefuse
<1>8. QED
  BY <1>3, <1>4, <1>5, <1>6, <1>7 DEF ArgsOK, Hooks

\* Confinement refuses what does not fit.
LEMMA ConfinementFailsClosed ==
    ASSUME NEW g, g.enforce_workspace, NEW c, ArgsOK(c), c.tracked,
           c.hook # "bprm_check_security", ~Fits(c)
    PROVE  Decision(g, c).denied
<1>1. \A r : ~Resolvable(r) => Confined(g, r).denied
  BY DEF Confined, Outside, No
<1>2. \A a, b : a.denied \/ b.denied => Either(a, b).denied
  BY DEF Either
<1>3. PICK i \in DOMAIN c.paths : ~Resolvable(c.paths[i])
  BY DEF Fits
<1>4. CASE c.hook = "file_open"
  BY <1>1, <1>2, <1>3, <1>4, DecisionOpen DEF ArgsOK
<1>5. CASE c.hook \in DirHooks
  <2>1. c.hook \notin {"path_rename", "bprm_check_security"}
    BY <1>5 DEF DirHooks
  <2>2. QED
    BY <1>1, <1>3, <1>5, <2>1, DecisionDir DEF ArgsOK
<1>6. CASE c.hook = "path_rename"
  BY <1>1, <1>2, <1>3, <1>6, DecisionRename DEF ArgsOK
<1>7. QED
  BY <1>4, <1>5, <1>6 DEF ArgsOK, Hooks

\* On any number of CPUs and tasks, for all buffer sizes, accepted rule sets, paths
\* and ring sizes: an undisturbed call that fits is refused exactly when the rules
\* are against it, and confinement refuses what does not fit.
THEOREM VerdictsKeepPromise == Spec => []VerdictAsPromised
<1>1. EInv => VerdictAsPromised
  <2> SUFFICES ASSUME EInv, NEW t \in Tasks, Finished(t), ~torn[t]
               PROVE  /\ Fits(call[t]) => (call[t].ret = EPERM <=> RulesRefuse(cfg, call[t]))
                      /\ /\ call[t].tracked /\ cfg.enforce_workspace
                         /\ call[t].hook # "bprm_check_security" /\ ~Fits(call[t])
                         => call[t].ret = EPERM
    BY DEF VerdictAsPromised
  <2>1. ArgsOK(call[t]) /\ KeptDecision(cfg, call[t])
    BY DEF EInv, CallInv, Finished
  <2>2. call[t].ret = EPERM <=> Decision(cfg, call[t]).denied
    BY <2>1 DEF KeptDecision
  <2>3. QED
    BY <2>1, <2>2, CfgAccepted, DecisionIsRules, ConfinementFailsClosed
<1>2. QED
  BY <1>1, EnforcerInvariant, PTL

\* Every record in the violations ring names the refusing policy and the refused
\* path, unless its program was disturbed.
THEOREM RecordsNameCause == Spec => []EventNamesCause
<1>1. EInv => EventNamesCause
  BY DEF EInv, CallInv, KeptDecision, EventNamesCause, Finished
<1>2. QED
  BY <1>1, EnforcerInvariant, PTL

-----------------------------------------------------------------------------
(* Types                                                                   *)

CallType(c) ==
    /\ c.st \in {"idle", "running", "done"} /\ c.hook \in Hooks \cup {"none"}
    /\ c.tracked \in BOOLEAN /\ c.at \in {1, 2}
    /\ c.n \in -1 .. MAX_PATH_LEN /\ c.ret \in {0, EPERM}

LEMMA CallTypes ==
    /\ CallType(Idle)
    /\ \A c, ret, event : CallType(c) /\ ret \in {0, EPERM} => CallType(Done(c, ret, event))
<1>1. 0 \in -1 .. MAX_PATH_LEN
  BY LengthAssumption
<1>2. QED
  BY <1>1 DEF CallType, Idle, Done, EPERM

\* One task's call changes, and the ring stays within its size.
LEMMA OneCall ==
    ASSUME EInv, EInv', TypeOK, NEW t \in Tasks, NEW c, CallType(c), cfg' = cfg,
           call' = [call EXCEPT ![t] = c], ring' \in 0 .. RingCap,
           NEW at \in Cpus \cup {Nowhere}, place' \in {place, [place EXCEPT ![t] = at]}
    PROVE  TypeOK'
<1>1. \A u \in Tasks : /\ call'[u] = c \/ call'[u] = call[u]
                       /\ place'[u] = at \/ place'[u] = place[u]
                       /\ torn'[u] \in BOOLEAN
  BY DEF EInv
<1>2. QED
  BY <1>1 DEF TypeOK, CallType

LEMMA VerdictTypes ==
    ASSUME EInv, EInv', TypeOK, NEW t \in Tasks, cfg' = cfg, place' = place, NEW policy, NEW path,
           Allow(t) \/ Deny(t, policy, path)
    PROVE  TypeOK'
<1>1. CallType(call[t])
  BY DEF TypeOK, CallType
<1>2. CASE Allow(t)
  BY <1>1, <1>2, CallTypes, OneCall DEF Allow, TypeOK
<1>3. CASE Deny(t, policy, path)
  <2>1. ring' \in 0 .. RingCap
    BY <1>3, RingAssumption DEF Deny, TypeOK
  <2>2. \A event : CallType(Done(call[t], EPERM, event))
    BY <1>1, CallTypes
  <2>3. QED
    BY <1>3, <2>1, <2>2, OneCall DEF Deny
<1>4. QED
  BY <1>2, <1>3

\* The second look of a rename or an exec.
LEMMA SecondLookTypes ==
    ASSUME EInv, EInv', TypeOK, NEW t \in Tasks, Busy(t), cfg' = cfg, place' = place, ring' = ring,
           NEW n, n \in -1 .. MAX_PATH_LEN,
           call' = [call EXCEPT ![t] = Running(call[t].hook, call[t].paths, call[t].tracked, 2, n)]
    PROVE  TypeOK'
<1>1. call[t].tracked \in BOOLEAN /\ call[t].hook \in Hooks
  BY DEF EInv, ArgsOK, Busy
<1>2. CallType(Running(call[t].hook, call[t].paths, call[t].tracked, 2, n))
  BY <1>1 DEF CallType, Running, EPERM
<1>3. ring' \in 0 .. RingCap
  BY DEF TypeOK
<1>4. QED
  BY <1>2, <1>3, OneCall

\* The hooks keep their types, and no record is put into a full ring.
THEOREM EnforcerTypes == Spec => []TypeOK
<1>1. Init => TypeOK
  <2>1. 0 \in 0 .. RingCap
    BY RingAssumption
  <2>2. QED
    BY <2>1, CallTypes DEF Init, TypeOK, CallType
<1>2. EInv /\ EInv' /\ TypeOK /\ [Next]_vars => TypeOK'
  <2> SUFFICES ASSUME EInv, EInv', TypeOK, [Next]_vars PROVE TypeOK'
    OBVIOUS
  <2>0. ring \in 0 .. RingCap /\ 0 \in -1 .. MAX_PATH_LEN
    BY LengthAssumption DEF TypeOK
  <2>1. ASSUME NEW t \in Tasks, NEW cpu \in Cpus, NEW tracked \in BOOLEAN, NEW paths,
               NEW hook \in Hooks, IsPath(paths[1]), FileHook(t, cpu, hook, paths, tracked)
        PROVE  TypeOK'
    <3> DEFINE c == Running(hook, paths, tracked, 1, d_path(paths[1]).n)
    <3>1. CallType(c)
      <4>1. d_path(paths[1]).n \in -1 .. MAX_PATH_LEN
        BY <2>1, HelperFacts
      <4>2. QED
        BY <4>1 DEF CallType, Running, EPERM
    <3>2. CallType(Done(c, 0, NoEvent))
      BY <3>1, CallTypes
    <3>3. /\ call' = [call EXCEPT ![t] = c] \/ call' = [call EXCEPT ![t] = Done(c, 0, NoEvent)]
          /\ place' = [place EXCEPT ![t] = cpu] /\ cfg' = cfg /\ ring' = ring
      BY <2>1 DEF FileHook
    <3> HIDE DEF c
    <3>4. QED
      BY <2>0, <3>1, <3>2, <3>3, OneCall
  <2>2. ASSUME NEW t \in Tasks, NEW cpu \in Cpus, NEW tracked \in BOOLEAN, NEW p \in Paths,
               NEW q \in Paths, ExecHook(t, cpu, p, q, tracked)
        PROVE  TypeOK'
    <3> DEFINE c == Running("bprm_check_security", <<p, q>>, tracked, 1, d_path(p).n)
    <3>1. CallType(c)
      <4>1. d_path(p).n \in -1 .. MAX_PATH_LEN
        BY PathsAssumption, HelperFacts
      <4>2. QED
        BY <4>1 DEF CallType, Running, EPERM, Hooks
    <3>2. CallType(Done(c, 0, NoEvent))
      BY <3>1, CallTypes
    <3>3. /\ call' = [call EXCEPT ![t] = c] \/ call' = [call EXCEPT ![t] = Done(c, 0, NoEvent)]
          /\ place' = [place EXCEPT ![t] = cpu] /\ cfg' = cfg /\ ring' = ring
      BY <2>2 DEF ExecHook
    <3> HIDE DEF c
    <3>4. QED
      BY <2>0, <3>1, <3>2, <3>3, OneCall
  <2>3. ASSUME NEW t \in Tasks, CheckFileOpen(t) \/ Mismatch(t) PROVE TypeOK'
    BY <2>3, VerdictTypes DEF CheckFileOpen, Mismatch
  <2>4. ASSUME NEW t \in Tasks, ConfineDir(t) PROVE TypeOK'
    <3>1. CASE call[t].hook = "path_rename" /\
               call' = [call EXCEPT ![t] =
                    Running(call[t].hook, call[t].paths, call[t].tracked, 2,
                            d_path(call[t].paths[2]).n)] /\ UNCHANGED ring
      <4>1. IsPath(call[t].paths[2]) /\ Busy(t) /\ place' = place /\ cfg' = cfg
        BY <2>4, <3>1 DEF EInv, ArgsOK, ConfineDir, Busy
      <4>2. d_path(call[t].paths[2]).n \in -1 .. MAX_PATH_LEN
        BY <4>1, HelperFacts
      <4>3. QED
        BY <3>1, <4>1, <4>2, SecondLookTypes
    <3>2. QED
      BY <2>4, <3>1, VerdictTypes DEF ConfineDir
  <2>5. ASSUME NEW t \in Tasks, CheckExec(t) PROVE TypeOK'
    <3>1. CASE call' = [call EXCEPT ![t] =
                    Running(call[t].hook, call[t].paths, call[t].tracked, 2,
                            probe_read_str(call[t].paths[2]).n)] /\ UNCHANGED ring
      <4>1. IsPath(call[t].paths[2]) /\ Busy(t) /\ place' = place /\ cfg' = cfg
        BY <2>5 DEF EInv, ArgsOK, CheckExec, Busy
      <4>2. probe_read_str(call[t].paths[2]).n \in -1 .. MAX_PATH_LEN
        BY <4>1, HelperFacts DEF probe_read_str
      <4>3. QED
        BY <3>1, <4>1, <4>2, SecondLookTypes
    <3>2. QED
      BY <2>5, <3>1, VerdictTypes DEF CheckExec
  <2>6. ASSUME NEW t \in Tasks, Return(t) PROVE TypeOK'
    BY <2>0, <2>6, CallTypes, OneCall DEF Return
  <2>7. CASE Drain
    <3>1. ring' \in 0 .. RingCap
      BY <2>7, RingAssumption DEF Drain, TypeOK
    <3>2. QED
      BY <2>7, <3>1 DEF Drain, TypeOK
  <2>8. CASE UNCHANGED vars
    BY <2>8 DEF vars, TypeOK
  <2>9. ASSUME NEW t \in Tasks, NEW cpu \in Cpus, NEW tracked \in BOOLEAN, NEW p \in Paths,
               NEW q \in Paths,
               \/ \E hook \in DirHooks \cup {"file_open"} : FileHook(t, cpu, hook, <<p>>, tracked)
               \/ FileHook(t, cpu, "path_rename", <<p, q>>, tracked)
        PROVE  TypeOK'
    <3>1. IsPath(<<p>>[1]) /\ IsPath(<<p, q>>[1])
      BY PathsAssumption
    <3>2. DirHooks \cup {"file_open", "path_rename"} \subseteq Hooks
      BY DEF Hooks
    <3>3. CASE FileHook(t, cpu, "path_rename", <<p, q>>, tracked)
      BY <2>1, <3>1, <3>2, <3>3
    <3>4. ASSUME NEW hook \in DirHooks \cup {"file_open"}, FileHook(t, cpu, hook, <<p>>, tracked)
          PROVE  TypeOK'
      BY <2>1, <3>1, <3>2, <3>4
    <3>5. QED
      BY <2>9, <3>3, <3>4
  <2>10. QED
    BY <2>2, <2>3, <2>4, <2>5, <2>6, <2>7, <2>8, <2>9 DEF Next
<1>3. QED
  BY <1>1, <1>2, EnforcerInvariant, PTL DEF Spec

-----------------------------------------------------------------------------
(* The hooks as a reference monitor                                        *)

AnswerOf(c) == [denied |-> c.ret = EPERM, record |-> c.event]

Stages == [t \in Tasks |-> call[t].st]
Calls == [t \in Tasks |-> Asked(call[t])]
Answers == [t \in Tasks |-> AnswerOf(call[t])]

\* Until a hook returns it has not answered: the second look of a rename or an exec
\* starts as if there had been no first.
Unanswered == \A t \in Tasks : call[t].st # "done" => AnswerOf(call[t]) = AnswerOf(Idle)

\* A function changed in one place.
LEMMA OnePlace ==
    ASSUME NEW S, NEW k \in S, NEW v, NEW f, NEW g, f = [i \in S |-> f[i]], g = [i \in S |-> g[i]],
           g[k] = v, \A i \in S \ {k} : g[i] = f[i]
    PROVE  g = [f EXCEPT ![k] = v]
OBVIOUS

\* The monitor's state is that of the calls, task by task.
LEMMA OneTaskAsks ==
    ASSUME EInv, NEW t \in Tasks, NEW c, call' = [call EXCEPT ![t] = c]
    PROVE  /\ Stages' = [Stages EXCEPT ![t] = c.st]
           /\ Calls' = [Calls EXCEPT ![t] = Asked(c)]
           /\ Answers' = [Answers EXCEPT ![t] = AnswerOf(c)]
           /\ Stages[t] = call[t].st /\ Calls[t] = Asked(call[t]) /\ Calls'[t] = Asked(c)
           /\ Answers[t] = AnswerOf(call[t])
           /\ Unanswered /\ (c.st # "done" => AnswerOf(c) = AnswerOf(Idle)) => Unanswered'
<1>1. call'[t] = c /\ \A k \in Tasks \ {t} : call'[k] = call[k]
  BY DEF EInv
<1>2. Stages' = [Stages EXCEPT ![t] = c.st]
  <2>1. /\ Stages = [k \in Tasks |-> Stages[k]] /\ Stages' = [k \in Tasks |-> Stages'[k]]
        /\ Stages'[t] = c.st /\ \A k \in Tasks \ {t} : Stages'[k] = Stages[k]
    BY <1>1 DEF Stages
  <2>2. QED
    BY <2>1, OnePlace
<1>3. Calls' = [Calls EXCEPT ![t] = Asked(c)] /\ Calls'[t] = Asked(c)
  <2>1. /\ Calls = [k \in Tasks |-> Calls[k]] /\ Calls' = [k \in Tasks |-> Calls'[k]]
        /\ Calls'[t] = Asked(c) /\ \A k \in Tasks \ {t} : Calls'[k] = Calls[k]
    BY <1>1 DEF Calls
  <2>2. QED
    BY <2>1, OnePlace
<1>4. Answers' = [Answers EXCEPT ![t] = AnswerOf(c)]
  <2>1. /\ Answers = [k \in Tasks |-> Answers[k]] /\ Answers' = [k \in Tasks |-> Answers'[k]]
        /\ Answers'[t] = AnswerOf(c) /\ \A k \in Tasks \ {t} : Answers'[k] = Answers[k]
    BY <1>1 DEF Answers
  <2>2. QED
    BY <2>1, OnePlace
<1>5. Unanswered /\ (c.st # "done" => AnswerOf(c) = AnswerOf(Idle)) => Unanswered'
  BY <1>1 DEF Unanswered
<1>6. QED
  BY <1>2, <1>3, <1>4, <1>5 DEF Stages, Calls, Answers

\* The same function, one place filled with what is there.
LEMMA SamePlace ==
    ASSUME NEW S, NEW f, f = [k \in S |-> f[k]], NEW k \in S, NEW v, f[k] = v
    PROVE  [f EXCEPT ![k] = v] = f
OBVIOUS

\* What is decided of a call depends on what it asks only.
LEMMA VerdictOfAsked ==
    ASSUME NEW g, NEW c
    PROVE  /\ Verdict(g, Asked(c)).denied = Decision(g, c).denied
           /\ Verdict(g, Asked(c)).record = [policy |-> Decision(g, c).policy,
                                             detail |-> Fill(Decision(g, c).path, MAX_PATH_LEN)]
<1>1. Asked(c).hook = c.hook /\ Asked(c).paths = c.paths /\ Asked(c).tracked = c.tracked
  BY DEF Asked
<1>2. Decision(g, Asked(c)) = Decision(g, c)
  BY <1>1 DEF Decision
<1>3. QED
  BY <1>2 DEF Verdict

LEMMA VerdictIsBoolean ==
    ASSUME NEW t \in Tasks, EInv, call[t].st = "running", ~torn[t]
    PROVE  Decision(cfg, call[t]).denied \in BOOLEAN
<1>1. \A g, p : {Confined(g, p).denied, ByPathRule(g, p).denied, ByCommand(g, p).denied} \subseteq BOOLEAN
  BY DEF Confined, ByPathRule, ByCommand, No, Ok
<1>2. \A a, b : a.denied \in BOOLEAN /\ b.denied \in BOOLEAN => Either(a, b).denied \in BOOLEAN
  BY DEF Either
<1>3. call[t].hook \in Hooks /\ call[t].tracked
  BY DEF EInv, CallInv, ArgsOK
<1>4. CASE call[t].hook = "file_open"
  BY <1>1, <1>2, <1>3, <1>4, DecisionOpen
<1>5. CASE call[t].hook \in DirHooks
  BY <1>1, <1>3, <1>5, DecisionDir
<1>6. CASE call[t].hook = "path_rename"
  BY <1>1, <1>2, <1>3, <1>6, DecisionRename
<1>7. CASE call[t].hook = "bprm_check_security"
  BY <1>1, <1>2, <1>3, <1>7, DecisionExec
<1>8. QED
  BY <1>3, <1>4, <1>5, <1>6, <1>7 DEF Hooks

\* Filling a buffer spoils the calls it tears, and no others.
LEMMA TearIsSpoil ==
    ASSUME EInv, NEW t \in Tasks, NEW s, NEW c, Tear(t, s, c)
    PROVE  Hooked!Spoil(t, s, Asked(c))
<1>1. \A u \in Tasks : SameBuffer(Asked(call[u]), Asked(c)) <=> SameBuffer(call[u], c)
  BY DEF SameBuffer, Asked
<1>2. QED
  BY <1>1 DEF Hooked!Spoil, Tear, Busy

\* A call enters a hook, or is let through at once.
LEMMA EnteringAsks ==
    ASSUME EInv, EInv', Unanswered, NEW t \in Tasks, call[t].st = "idle", NEW c, NEW cpu,
           call' = [call EXCEPT ![t] = c], place' = [place EXCEPT ![t] = cpu],
           AnswerOf(c) = AnswerOf(Idle), UNCHANGED <<cfg, ring>>,
           \/ c.st = "running" /\ Tear(t, cpu, c)
           \/ c.st = "done" /\ torn' = torn
    PROVE  (Hooked!Ask(t) \/ Hooked!Pass(t)) /\ Unanswered'
<1>1. /\ Stages[t] = "idle" /\ Stages' = [Stages EXCEPT ![t] = c.st]
      /\ Calls' = [Calls EXCEPT ![t] = Calls'[t]] /\ Calls'[t] = Asked(c)
      /\ Answers' = [Answers EXCEPT ![t] = AnswerOf(c)] /\ Answers[t] = AnswerOf(c)
      /\ Unanswered'
  BY OneTaskAsks DEF Unanswered
<1>2. Answers' = Answers
  BY <1>1, SamePlace DEF Answers
<1>3. place' = [place EXCEPT ![t] = place'[t]] /\ place'[t] = cpu
  BY DEF EInv
<1>4. CASE c.st = "running" /\ Tear(t, cpu, c)
  <2>1. Hooked!Spoil(t, place'[t], Calls'[t])
    BY <1>1, <1>3, <1>4, TearIsSpoil
  <2>2. QED
    BY <1>1, <1>2, <1>3, <1>4, <2>1 DEF Hooked!Ask, Stages, Calls, Answers, AnswerOf
<1>5. CASE c.st = "done" /\ torn' = torn
  <2>1. ~Verdict(cfg, Calls'[t]).denied
    <3>1. call'[t] = c /\ cfg' = cfg /\ ~torn'[t]
      BY <1>5 DEF EInv
    <3>2. KeptDecision(cfg, c)
      BY <1>5, <3>1 DEF EInv, CallInv
    <3>3. c.ret # EPERM
      BY DEF AnswerOf, Idle, EPERM
    <3>4. QED
      BY <1>1, <3>2, <3>3, VerdictOfAsked DEF KeptDecision
  <2>2. QED
    BY <1>1, <1>2, <1>3, <1>5, <2>1 DEF Hooked!Pass, Stages, Calls, Answers, AnswerOf
<1>6. QED
  BY <1>1, <1>4, <1>5

\* A second look shows only in the calls it spoils.
LEMMA LooksAgain ==
    ASSUME EInv, Unanswered, NEW t \in Tasks, call[t].st = "running", NEW n, NEW c,
           c = Running(call[t].hook, call[t].paths, call[t].tracked, 2, n),
           call' = [call EXCEPT ![t] = c], Tear(t, place[t], c),
           UNCHANGED <<cfg, place, ring>>
    PROVE  Hooked!LookAgain(t) /\ Unanswered'
<1>1. /\ c.st = "running" /\ Asked(c) = Asked(call[t]) /\ AnswerOf(c) = AnswerOf(Idle)
      /\ AnswerOf(call[t]) = AnswerOf(Idle)
  BY DEF Running, Asked, AnswerOf, Idle, Unanswered
<1>2. /\ Stages' = [Stages EXCEPT ![t] = c.st] /\ Stages[t] = c.st
      /\ Calls' = [Calls EXCEPT ![t] = Asked(c)] /\ Calls[t] = Asked(c)
      /\ Answers' = [Answers EXCEPT ![t] = AnswerOf(c)] /\ Answers[t] = AnswerOf(c)
      /\ Unanswered'
  BY <1>1, OneTaskAsks
<1>3. Stages' = Stages /\ Calls' = Calls /\ Answers' = Answers
  BY <1>2, SamePlace DEF Stages, Calls, Answers
<1>4. Hooked!Spoil(t, place[t], Calls[t])
  BY <1>2, TearIsSpoil
<1>5. QED
  BY <1>1, <1>2, <1>3, <1>4 DEF Hooked!LookAgain, Stages, Calls, Answers, AnswerOf

\* A buffer is not nothing, so a record that was written can be told from none.
LEMMA RecordIsSome ==
    ASSUME NEW p, NEW pol
    PROVE  [policy |-> pol, detail |-> d_path(p).buf] # NoEvent
<1>1. \A q : 0 \in DOMAIN Fill(q, MAX_PATH_LEN)
  BY LengthAssumption DEF Fill
<1>2. 0 \in DOMAIN d_path(p).buf
  BY <1>1 DEF d_path
<1>3. 0 \notin DOMAIN <<>>
  OBVIOUS
<1>4. d_path(p).buf # <<>>
  BY <1>2, <1>3
<1>5. QED
  BY <1>4 DEF NoEvent

\* A hook that lets the call through decides as the monitor does.
LEMMA AllowDecides ==
    ASSUME EInv, EInv', Unanswered, NEW t \in Tasks, Busy(t), Allow(t),
           UNCHANGED <<cfg, place, torn>>
    PROVE  Hooked!Decide(t) /\ Unanswered'
<1> DEFINE c == Done(call[t], 0, NoEvent)
<1>1. /\ c.st = "done" /\ c.ret = 0 /\ c.event = NoEvent /\ Asked(c) = Asked(call[t])
      /\ AnswerOf(c) = [denied |-> FALSE, record |-> NoEvent]
  <2>1. c.st = "done" /\ c.ret = 0 /\ c.event = NoEvent /\ Asked(c) = Asked(call[t])
    BY DEF Done, Asked
  <2>2. (c.ret = EPERM) = FALSE
    BY <2>1 DEF EPERM
  <2> HIDE DEF c
  <2>3. QED
    BY <2>1, <2>2 DEF AnswerOf
<1>2. call' = [call EXCEPT ![t] = c] /\ ring' = ring
  BY DEF Allow
<1>3. Decision(cfg, c) = Decision(cfg, call[t])
  BY DecisionOfDone
<1> HIDE DEF c
<1>4. ~torn[t] => ~Decision(cfg, call[t]).denied
  <2> HAVE ~torn[t]
  <2>1. call'[t] = c
    BY <1>2 DEF EInv
  <2>2. KeptDecision(cfg, c)
    BY <1>1, <2>1 DEF EInv, CallInv
  <2>3. QED
    BY <1>1, <1>3, <2>2 DEF KeptDecision, EPERM
<1>5. /\ Stages' = [Stages EXCEPT ![t] = "done"] /\ Stages[t] = "running"
      /\ Calls' = [Calls EXCEPT ![t] = Asked(c)] /\ Calls[t] = Asked(c)
      /\ Answers' = [Answers EXCEPT ![t] = [denied |-> FALSE, record |-> NoEvent]]
      /\ Unanswered'
  <2>1. /\ Stages' = [Stages EXCEPT ![t] = c.st] /\ Stages[t] = call[t].st
        /\ Calls' = [Calls EXCEPT ![t] = Asked(c)] /\ Calls[t] = Asked(call[t])
        /\ Answers' = [Answers EXCEPT ![t] = AnswerOf(c)]
        /\ Unanswered /\ (c.st # "done" => AnswerOf(c) = AnswerOf(Idle)) => Unanswered'
    BY <1>2, OneTaskAsks
  <2>2. QED
    BY <1>1, <2>1, Zenon DEF Busy
<1>6. Calls' = Calls
  BY <1>5, SamePlace DEF Calls
<1>7. CASE ~torn[t]
  <2>1. Decision(cfg, call[t]).denied = FALSE
    BY <1>4, <1>7, VerdictIsBoolean DEF Busy
  <2>2. Verdict(cfg, Asked(call[t])).denied = FALSE
    BY <2>1, VerdictOfAsked
  <2>3. Verdict(cfg, Calls[t]).denied = FALSE
    BY <1>1, <1>5, <2>2, Zenon
  <2>4. QED
    BY <1>2, <1>5, <1>6, <1>7, <2>3 DEF Hooked!Decide, Stages, Calls, Answers, AnswerOf
<1>8. CASE torn[t]
  <2>1. Answers'[t] = [denied |-> FALSE, record |-> NoEvent]
    BY <1>5 DEF Answers
  <2>2. QED
    BY <1>2, <1>5, <1>6, <1>8, <2>1 DEF Hooked!Decide, Stages, Calls, Answers, AnswerOf
<1>9. QED
  BY <1>7, <1>8

\* So does one that refuses it, with room in the ring or without.
LEMMA DenyDecides ==
    ASSUME EInv, EInv', Unanswered, NEW t \in Tasks, Busy(t), NEW pol, NEW path,
           ~torn[t] => \E p : path = d_path(p).buf,
           Deny(t, pol, path), UNCHANGED <<cfg, place, torn>>
    PROVE  Hooked!Decide(t) /\ Unanswered'
<1> DEFINE e == IF ring < RingCap THEN [policy |-> pol, detail |-> path] ELSE NoEvent
           c == Done(call[t], EPERM, e)
           v == IF torn[t] THEN [denied |-> TRUE, record |-> e] ELSE Verdict(cfg, Asked(call[t]))
<1>1. /\ c.st = "done" /\ c.ret = EPERM /\ c.event = e /\ Asked(c) = Asked(call[t])
      /\ AnswerOf(c) = [denied |-> TRUE, record |-> e]
  <2> HIDE DEF e
  <2> QED BY DEF Done, Asked, AnswerOf
<1>2. call' = [call EXCEPT ![t] = c] /\ ring' = IF ring < RingCap THEN ring + 1 ELSE ring
  BY DEF Deny
<1>3. Decision(cfg, c) = Decision(cfg, call[t])
  BY DecisionOfDone
<1> HIDE DEF c
<1>4. call'[t] = c
  BY <1>2 DEF EInv
<1>5. ~torn[t] => KeptDecision(cfg, c)
  BY <1>1, <1>4 DEF EInv, CallInv
<1>6. v.denied = TRUE
  <2>1. CASE torn[t]
    BY <2>1
  <2>2. CASE ~torn[t]
    <3>1. Decision(cfg, call[t]).denied
      BY <1>1, <1>3, <1>5, <2>2 DEF KeptDecision
    <3>2. QED
      BY <2>2, <3>1, VerdictIsBoolean, VerdictOfAsked DEF Busy
  <2>3. QED
    BY <2>1, <2>2
<1>7. ring < RingCap => e = v.record
  <2>1. CASE torn[t]
    BY <2>1
  <2>2. CASE ~torn[t] /\ ring < RingCap
    <3>1. e # NoEvent
      BY <2>2, RecordIsSome
    <3> HIDE DEF e
    <3>2. c.event = [policy |-> Decision(cfg, c).policy,
                     detail |-> Fill(Decision(cfg, c).path, MAX_PATH_LEN)]
      BY <1>1, <1>5, <2>2, <3>1 DEF KeptDecision
    <3>3. QED
      BY <1>1, <1>3, <2>2, <3>2, VerdictOfAsked
  <2>3. QED
    BY <2>1, <2>2
<1>8. e = IF v.denied /\ ring < RingCap THEN v.record ELSE NoEvent
  BY <1>6, <1>7
<1> HIDE DEF e, v
<1>9. /\ Stages' = [Stages EXCEPT ![t] = "done"] /\ Stages[t] = "running"
      /\ Calls' = [Calls EXCEPT ![t] = Asked(c)] /\ Calls[t] = Asked(c)
      /\ Answers' = [Answers EXCEPT ![t] = [denied |-> TRUE, record |-> e]]
      /\ Unanswered'
  <2>1. /\ Stages' = [Stages EXCEPT ![t] = c.st] /\ Stages[t] = call[t].st
        /\ Calls' = [Calls EXCEPT ![t] = Asked(c)] /\ Calls[t] = Asked(call[t])
        /\ Answers' = [Answers EXCEPT ![t] = AnswerOf(c)]
        /\ Unanswered /\ (c.st # "done" => AnswerOf(c) = AnswerOf(Idle)) => Unanswered'
    BY <1>2, OneTaskAsks
  <2>2. QED
    BY <1>1, <2>1, Zenon DEF Busy
<1>10. Calls' = Calls /\ Answers'[t] = [denied |-> TRUE, record |-> e]
  BY <1>9, SamePlace DEF Calls, Answers
<1>11. v = IF torn[t] THEN Answers'[t] ELSE Verdict(cfg, Calls[t])
  BY <1>1, <1>9, <1>10 DEF v
<1>12. /\ Answers' = [Answers EXCEPT ![t] =
                        [denied |-> v.denied, record |-> IF v.denied /\ ring < RingCap THEN v.record ELSE NoEvent]]
       /\ ring' = IF v.denied /\ ring < RingCap THEN ring + 1 ELSE ring
  BY <1>2, <1>6, <1>8, <1>9
<1>13. QED
  BY <1>9, <1>10, <1>11, <1>12 DEF Hooked!Decide, Stages, Calls, Answers, AnswerOf

\* The rest of a hook: its verdict, or a second look.
LEMMA CheckingDecides ==
    ASSUME EInv, EInv', Unanswered, NEW t \in Tasks,
           CheckFileOpen(t) \/ ConfineDir(t) \/ CheckExec(t) \/ Mismatch(t)
    PROVE  (Hooked!Decide(t) \/ Hooked!LookAgain(t)) /\ Unanswered'
<1>1. Busy(t) /\ call[t].st = "running" /\ UNCHANGED <<cfg, place>>
  BY DEF CheckFileOpen, ConfineDir, CheckExec, Mismatch, Busy
<1>2. ~torn[t] => CallInv(cfg, call[t], file_open_path[place[t]], exec_path[place[t]])
  BY DEF EInv
<1>3. ASSUME NEW path, ~torn[t] => \E p : path = d_path(p).buf, NEW pol, Deny(t, pol, path),
             torn' = torn
      PROVE  Hooked!Decide(t) /\ Unanswered'
  BY <1>1, <1>3, DenyDecides
<1>4. ASSUME Allow(t), torn' = torn PROVE Hooked!Decide(t) /\ Unanswered'
  BY <1>1, <1>4, AllowDecides
<1>5. CASE CheckFileOpen(t) \/ ConfineDir(t)
  <2>1. call[t].hook # "bprm_check_security"
    BY <1>5 DEF CheckFileOpen, ConfineDir, DirHooks
  <2>2. ~torn[t] => \E p : file_open_path[place[t]] = d_path(p).buf
    BY <1>1, <1>2, <2>1 DEF CallInv, FileBusy
  <2>3. CASE CheckFileOpen(t)
    <3>1. /\ Allow(t) \/ \E pol : Deny(t, pol, file_open_path[place[t]])
          /\ torn' = torn
      BY <2>3 DEF CheckFileOpen, Slot
    <3>2. QED
      BY <1>3, <1>4, <2>2, <3>1
  <2>4. CASE ConfineDir(t)
    <3>1. \/ /\ Allow(t) \/ Deny(t, cfg.root_policy, file_open_path[place[t]])
             /\ torn' = torn
          \/ \E c : /\ c = Running(call[t].hook, call[t].paths, call[t].tracked, 2,
                                   d_path(call[t].paths[2]).n)
                    /\ call' = [call EXCEPT ![t] = c] /\ Tear(t, place[t], c) /\ ring' = ring
      BY <2>4 DEF ConfineDir, Slot
    <3>2. QED
      BY <1>1, <1>3, <1>4, <2>2, <3>1, LooksAgain
  <2>5. QED
    BY <1>5, <2>3, <2>4
<1>6. CASE CheckExec(t)
  <2>1. ~torn[t] => \E p : exec_path[place[t]] = d_path(p).buf
    <3>1. call[t].hook = "bprm_check_security"
      BY <1>6 DEF CheckExec
    <3>2. QED
      BY <1>1, <1>2, <3>1 DEF CallInv, ExecBusy, probe_read_str
  <2>2. \/ /\ Allow(t) \/ \E pol : Deny(t, pol, exec_path[place[t]])
           /\ torn' = torn
        \/ \E c : /\ c = Running(call[t].hook, call[t].paths, call[t].tracked, 2,
                                 probe_read_str(call[t].paths[2]).n)
                  /\ call' = [call EXCEPT ![t] = c] /\ Tear(t, place[t], c) /\ ring' = ring
    BY <1>6 DEF CheckExec, Slot
  <2>3. QED
    BY <1>1, <1>3, <1>4, <2>1, <2>2, LooksAgain
<1>7. CASE Mismatch(t)
  <2>1. /\ torn[t] /\ torn' = torn
        /\ Allow(t) \/ \E pol : Deny(t, pol, Blank)
    BY <1>7 DEF Mismatch
  <2>2. QED
    BY <1>3, <1>4, <2>1
<1>8. QED
  BY <1>5, <1>6, <1>7

\* The verdict reaches the kernel.
LEMMA ReturnLeaves ==
    ASSUME EInv, Unanswered, NEW t \in Tasks, Return(t)
    PROVE  Hooked!Leave(t) /\ Unanswered'
<1>1. /\ call' = [call EXCEPT ![t] = Idle] /\ call[t].st = "done" /\ cfg' = cfg /\ ring' = ring
      /\ place' = [place EXCEPT ![t] = Nowhere] /\ torn' = [torn EXCEPT ![t] = FALSE]
  BY DEF Return, Finished
<1>2. Idle.st = "idle" /\ AnswerOf(Idle) = [denied |-> FALSE, record |-> NoEvent]
  <2>1. Idle.st = "idle" /\ Idle.ret = 0 /\ Idle.event = NoEvent
    BY DEF Idle
  <2>2. (Idle.ret = EPERM) = FALSE
    BY <2>1 DEF EPERM
  <2>3. QED
    BY <2>1, <2>2 DEF AnswerOf
<1>3. /\ Stages' = [Stages EXCEPT ![t] = "idle"] /\ Stages[t] = "done"
      /\ Calls' = [Calls EXCEPT ![t] = Asked(Idle)]
      /\ Answers' = [Answers EXCEPT ![t] = [denied |-> FALSE, record |-> NoEvent]]
      /\ Unanswered'
  <2>1. /\ Stages' = [Stages EXCEPT ![t] = Idle.st] /\ Stages[t] = call[t].st
        /\ Calls' = [Calls EXCEPT ![t] = Asked(Idle)]
        /\ Answers' = [Answers EXCEPT ![t] = AnswerOf(Idle)]
        /\ Unanswered'
    BY <1>1, OneTaskAsks
  <2>2. QED
    BY <1>1, <1>2, <2>1, Zenon
<1>4. place' = [place EXCEPT ![t] = place'[t]]
  BY <1>1 DEF EInv
<1>5. QED
  BY <1>1, <1>3, <1>4 DEF Hooked!Leave, Hooked!NoAnswer, Stages, Calls, Answers, AnswerOf

\* A call enters.
LEMMA HookAsks ==
    ASSUME EInv, EInv', Unanswered, NEW t \in Tasks, NEW cpu, NEW hook, NEW paths, NEW p, NEW q,
           NEW tracked, FileHook(t, cpu, hook, paths, tracked) \/ ExecHook(t, cpu, p, q, tracked)
    PROVE  (Hooked!Ask(t) \/ Hooked!Pass(t)) /\ Unanswered'
<1>1. call[t].st = "idle" /\ cfg' = cfg /\ ring' = ring /\ place' = [place EXCEPT ![t] = cpu]
  BY DEF FileHook, ExecHook
<1>2. PICK c : /\ call' = [call EXCEPT ![t] = c]
               /\ \/ Tear(t, cpu, c) /\ \E k, ps, n : c = Running(k, ps, tracked, 1, n)
                  \/ torn' = torn /\ \E r : c = Done(r, 0, NoEvent)
  <2>1. CASE FileHook(t, cpu, hook, paths, tracked)
    <3> DEFINE r == Running(hook, paths, tracked, 1, d_path(paths[1]).n)
    <3>1. \/ call' = [call EXCEPT ![t] = r] /\ Tear(t, cpu, r)
          \/ call' = [call EXCEPT ![t] = Done(r, 0, NoEvent)] /\ torn' = torn
      BY <2>1 DEF FileHook
    <3>2. QED
      BY <3>1
  <2>2. CASE ExecHook(t, cpu, p, q, tracked)
    <3> DEFINE r == Running("bprm_check_security", <<p, q>>, tracked, 1, d_path(p).n)
    <3>1. \/ call' = [call EXCEPT ![t] = r] /\ Tear(t, cpu, r)
          \/ call' = [call EXCEPT ![t] = Done(r, 0, NoEvent)] /\ torn' = torn
      BY <2>2 DEF ExecHook
    <3>2. QED
      BY <3>1
  <2>3. QED
    BY <2>1, <2>2
<1>3. /\ \/ c.st = "running" /\ Tear(t, cpu, c)
         \/ c.st = "done" /\ torn' = torn
      /\ c.ret = 0 /\ c.event = NoEvent
  BY <1>2 DEF Running, Done
<1>4. AnswerOf(c) = AnswerOf(Idle)
  BY <1>3 DEF AnswerOf, Idle
<1>5. QED
  BY <1>1, <1>2, <1>3, <1>4, EnteringAsks

(***************************************************************************)
(* The hooks of enforcer.bpf.c implement module Monitor, for any tasks,    *)
(* CPUs, rules, paths and sizes: each call is answered once, and by the    *)
(* decision on its own arguments unless another one has used its buffer;   *)
(* a refusal leaves its record once or finds the ring full.                *)
(***************************************************************************)
THEOREM HooksAreAMonitor == Spec => ImplementsMonitor
<1>1. Init => Hooked!MonitorInit /\ Unanswered
  <2> SUFFICES ASSUME Init PROVE Hooked!MonitorInit /\ Unanswered
    OBVIOUS
  <2>1. \A t \in Tasks : call[t] = Idle
    BY DEF Init
  <2>2. /\ Idle.st = "idle" /\ Idle.event = NoEvent
        /\ (Idle.ret = EPERM) = FALSE
    BY DEF Idle, EPERM
  <2>3. ring = 0
    BY DEF Init
  <2>4. Unanswered
    BY <2>1 DEF Unanswered
  <2>5. Hooked!MonitorInit
    BY <2>1, <2>2, <2>3 DEF Init, Hooked!MonitorInit, Hooked!NoAnswer
  <2>6. QED
    BY <2>4, <2>5
<1>2. EInv /\ EInv' /\ Unanswered /\ [Next]_vars
        => [Hooked!MonitorNext]_(Hooked!monitorVars) /\ Unanswered'
  <2> SUFFICES ASSUME EInv, EInv', Unanswered, [Next]_vars
               PROVE  [Hooked!MonitorNext]_(Hooked!monitorVars) /\ Unanswered'
    OBVIOUS
  <2>1. ASSUME NEW t \in Tasks, NEW cpu, NEW hook, NEW paths, NEW p, NEW q, NEW tracked,
               FileHook(t, cpu, hook, paths, tracked) \/ ExecHook(t, cpu, p, q, tracked)
        PROVE  Hooked!MonitorNext /\ Unanswered'
    BY <2>1, HookAsks DEF Hooked!MonitorNext
  <2>2. ASSUME NEW t \in Tasks, CheckFileOpen(t) \/ ConfineDir(t) \/ CheckExec(t) \/ Mismatch(t)
        PROVE  Hooked!MonitorNext /\ Unanswered'
    BY <2>2, CheckingDecides DEF Hooked!MonitorNext
  <2>3. ASSUME NEW t \in Tasks, Return(t)
        PROVE  Hooked!MonitorNext /\ Unanswered'
    BY <2>3, ReturnLeaves DEF Hooked!MonitorNext
  <2>4. CASE Drain
    <3>1. UNCHANGED <<call, cfg, place, torn>> /\ ring > 0 /\ ring' = ring - 1
      BY <2>4 DEF Drain
    <3>2. Hooked!Read
      BY <3>1 DEF Hooked!Read
    <3>3. QED
      BY <3>1, <3>2 DEF Hooked!MonitorNext, Unanswered
  <2>5. CASE UNCHANGED vars
    BY <2>5 DEF vars, Hooked!monitorVars, Unanswered
  <2>6. QED
    BY <2>1, <2>2, <2>3, <2>4, <2>5, Zenon DEF Next
<1>3. QED
  BY <1>1, <1>2, EnforcerInvariant, PTL DEF Spec, ImplementsMonitor, Hooked!MonitorSpec
=============================================================================
