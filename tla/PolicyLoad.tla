----------------------------- MODULE PolicyLoad -----------------------------
(***************************************************************************)
(* From files to rules: how a command of AgentGuard finds or creates the   *)
(* policy file (policy.go), and what runEnforcer makes of it               *)
(* (loadPolicies and loadAllPolicies of main.go).                          *)
(*                                                                         *)
(* Several commands may run in one directory: `agentguard init', a launch, *)
(* an attach.  They look for the file, and create it, one system call at a *)
(* time; the user edits it meanwhile, and each of them can fail or be      *)
(* killed between two calls.                                               *)
(* An empty file may also be there from the start, left by a command that  *)
(* was killed earlier.                                                     *)
(***************************************************************************)
EXTENDS Naturals, Sequences, FiniteSets

CONSTANTS
    Starts,    \* the commands that get run
    Command,   \* Command[s]: "init", "launch" or "attach"
    Explicit,  \* Explicit[s]: the place named by --policy or AGENTGUARD_POLICY, or 0
    NPlaces,   \* places looked at, nearest first; createStarterPolicy writes place 1
    Texts,     \* what a policy file can contain
    Starter,   \* the embedded template, one of Texts
    Rules,     \* Rules[t]: the policies in t, in the order of their names
    Garbled    \* texts that are no YAML

Places == 1 .. NPlaces
Absent == "absent"
Empty == "empty"

Policy == [confine : BOOLEAN, paths : BOOLEAN, hosts : BOOLEAN, commands : BOOLEAN,
           proxyOnly : BOOLEAN, dns : BOOLEAN]

ASSUME CommandAssumption ==
    /\ Command \in [Starts -> {"init", "launch", "attach"}]
    /\ Starts \cap {"user", "none"} = {}
ASSUME PlacesAssumption == NPlaces \in Nat \ {0} /\ Explicit \in [Starts -> 0 .. NPlaces]
ASSUME TextsAssumption ==
    /\ Starter \in Texts \ Garbled
    /\ Texts \cap {Absent, Empty} = {}
    /\ Rules \in [Texts -> Seq(Policy)]

VARIABLES
    file,     \* file[i]: [text, by], by is the command that created it or "user"
    pc,       \* pc[s]: where the command is
    at,       \* at[s]: the place it looks at, or has settled on
    source,   \* source[s]: the text it has read
    loaded    \* loaded[s]: what loadAllPolicies returned

policyVars == <<file, pc, at, source, loaded>>

Ended == {"done", "fatal", "dead"}
Working == {"named", "find", "check", "open", "write", "read"}
PCs == {"idle", "loaded"} \cup Working \cup Ended

NoFile == [text |-> Absent, by |-> "none"]

\* requireRegularFile
IsThere(i) == file[i].text # Absent

-----------------------------------------------------------------------------
(* loadAllPolicies                                                         *)

\* The switch takes the first kind of rule a policy has.
Kind(p) ==
    CASE p.confine -> "workspace"
      [] ~p.confine /\ p.paths -> "path"
      [] ~p.confine /\ ~p.paths /\ p.hosts -> "network"
      [] ~p.confine /\ ~p.paths /\ ~p.hosts /\ p.commands -> "command"
      [] OTHER -> "none"

NothingLoaded ==
    [ok |-> TRUE, workspace |-> 0, paths |-> {}, commands |-> {},
     proxy |-> 0, enforceNetwork |-> FALSE, allowLocalDNS |-> FALSE]

\* Mutant: each flag, once on, stays on.
LoadFlagsSticky(acc, p, id) ==
    IF Kind(p) = "network"
    THEN [acc EXCEPT !.proxy = id, !.enforceNetwork = @ \/ p.proxyOnly,
                     !.allowLocalDNS = @ \/ p.dns]
    ELSE acc

\* One turn of the loop: policy p, the id-th by name.  A policy of no kind still
\* uses up its number.
LoadPolicy(acc, p, id) ==
    CASE Kind(p) = "workspace" -> [acc EXCEPT !.ok = @ /\ acc.workspace = 0, !.workspace = id]
      [] Kind(p) = "path" -> [acc EXCEPT !.paths = @ \cup {id}]
      [] Kind(p) = "network" -> [acc EXCEPT !.proxy = id, !.enforceNetwork = p.proxyOnly,
                                            !.allowLocalDNS = p.dns]
      [] Kind(p) = "command" -> [acc EXCEPT !.commands = @ \cup {id}]
      [] OTHER -> acc

loadAllPolicies(pf) ==
    LET acc[i \in 0 .. Len(pf)] ==
            IF i = 0 THEN NothingLoaded ELSE LoadPolicy(acc[i - 1], pf[i], i)
    IN acc[Len(pf)]

\* loadPolicies: an empty file is a policy file without policies.
loadPolicies(text) == IF text \in Texts THEN Rules[text] ELSE <<>>

-----------------------------------------------------------------------------
PolicyInit ==
    /\ file \in [Places -> {NoFile} \cup [text : Texts \cup {Empty}, by : {"user"}]]
    /\ pc = [s \in Starts |-> "idle"]
    /\ at = [s \in Starts |-> 1]
    /\ source = [s \in Starts |-> Absent]
    /\ loaded = [s \in Starts |-> NothingLoaded]

Goto(s, where) == pc' = [pc EXCEPT ![s] = where]

\* createStarterPolicy has its path: init ends, an enforcer goes on to read it.
Settled(s) == IF Command[s] = "init" THEN "done" ELSE "read"

\* cmdInit calls createStarterPolicy at once, runEnforcer resolvePolicyPath.
Begin(s) ==
    /\ pc[s] = "idle"
    /\ Goto(s, CASE Command[s] = "init" -> "check"
                 [] Command[s] # "init" /\ Explicit[s] # 0 -> "named"
                 [] OTHER -> "find")
    /\ at' = [at EXCEPT ![s] = IF Command[s] # "init" /\ Explicit[s] # 0 THEN Explicit[s] ELSE 1]
    /\ UNCHANGED <<file, source, loaded>>

\* findPolicyPath with a name given: it must exist.
FindNamed(s) ==
    /\ pc[s] = "named"
    /\ Goto(s, IF IsThere(at[s]) THEN "read" ELSE "fatal")
    /\ UNCHANGED <<file, at, source, loaded>>

\* findPolicyWalkingUp, one candidate; after the last one, create.
FindNext(s) ==
    /\ pc[s] = "find"
    /\ IF IsThere(at[s])
       THEN Goto(s, "read") /\ UNCHANGED at
       ELSE /\ Goto(s, IF at[s] = NPlaces THEN "check" ELSE "find")
            /\ at' = [at EXCEPT ![s] = IF @ = NPlaces THEN 1 ELSE @ + 1]
    /\ UNCHANGED <<file, source, loaded>>

\* createStarterPolicy looks once more.
CheckStarter(s) ==
    /\ pc[s] = "check"
    /\ Goto(s, IF IsThere(1) THEN Settled(s) ELSE "open")
    /\ UNCHANGED <<file, at, source, loaded>>

\* Mutant: O_TRUNC instead of O_EXCL.
OpenTruncates(s) ==
    /\ pc[s] = "open"
    /\ Goto(s, "write")
    /\ file' = [file EXCEPT ![1] = [text |-> Empty, by |-> s]]
    /\ UNCHANGED <<at, source, loaded>>

\* Mutant: when the file has appeared meanwhile, try again.
OpenRetries(s) ==
    /\ pc[s] = "open"
    /\ IF IsThere(1)
       THEN Goto(s, "open") /\ UNCHANGED file
       ELSE Goto(s, "write") /\ file' = [file EXCEPT ![1] = [text |-> Empty, by |-> s]]
    /\ UNCHANGED <<at, source, loaded>>

\* OpenFile with O_CREATE and O_EXCL: a file that has appeared meanwhile is taken.
OpenStarter(s) ==
    /\ pc[s] = "open"
    /\ IF IsThere(1)
       THEN Goto(s, Settled(s)) /\ UNCHANGED file
       ELSE Goto(s, "write") /\ file' = [file EXCEPT ![1] = [text |-> Empty, by |-> s]]
    /\ UNCHANGED <<at, source, loaded>>

\* f.Write of the template, which fits one page: all of it or (Fail) nothing.  If
\* the user has replaced the file, the write goes to the one that lost its name.
WriteStarter(s) ==
    /\ pc[s] = "write"
    /\ file' = IF file[1].by = s THEN [file EXCEPT ![1].text = Starter] ELSE file
    /\ Goto(s, Settled(s))
    /\ UNCHANGED <<at, source, loaded>>

\* Mutant: a launch without a proxy policy goes ahead.
LoadableAnyway(s, text, rules) == text \notin {Absent} \cup Garbled /\ rules.ok

\* What log.Fatal does not stop: readable YAML, one workspace at most, and for a
\* launch a proxy.
Loadable(s, text, rules) ==
    /\ text \notin {Absent} \cup Garbled
    /\ rules.ok
    /\ Command[s] = "launch" => rules.proxy # 0

\* loadPolicies, loadAllPolicies and the test of launch mode.
LoadPolicies(s) ==
    /\ pc[s] = "read"
    /\ LET text == file[at[s]].text
           rules == IF text \in {Absent} \cup Garbled THEN NothingLoaded
                    ELSE loadAllPolicies(loadPolicies(text))
       IN IF Loadable(s, text, rules)
          THEN /\ Goto(s, "loaded")
               /\ source' = [source EXCEPT ![s] = text]
               /\ loaded' = [loaded EXCEPT ![s] = rules]
          ELSE Goto(s, "fatal") /\ UNCHANGED <<source, loaded>>
    /\ UNCHANGED <<file, at>>

\* A system call fails; what the command has created stays.
Fail(s) ==
    /\ pc[s] \in Working
    /\ Goto(s, "fatal")
    /\ UNCHANGED <<file, at, source, loaded>>

Kill(s) ==
    /\ pc[s] \in Working \cup {"loaded"}
    /\ Goto(s, "dead")
    /\ UNCHANGED <<file, at, source, loaded>>

\* The user saves the file (a new file takes over the name) or removes it.
UserWrites(i, t) ==
    /\ file' = [file EXCEPT ![i] = [text |-> t, by |-> "user"]]
    /\ UNCHANGED <<pc, at, source, loaded>>

UserRemoves(i) ==
    /\ file' = [file EXCEPT ![i] = NoFile]
    /\ UNCHANGED <<pc, at, source, loaded>>

CommandStep(s) ==
    \/ FindNamed(s) \/ FindNext(s)
    \/ CheckStarter(s) \/ OpenStarter(s) \/ WriteStarter(s)
    \/ LoadPolicies(s)

PolicyNext ==
    \/ \E s \in Starts : Begin(s) \/ CommandStep(s) \/ Fail(s) \/ Kill(s)
    \/ \E i \in Places, t \in Texts : UserWrites(i, t)
    \/ \E i \in Places : UserRemoves(i)

\* Commands run on; nobody has to start one.
PolicyFairness == \A s \in Starts : WF_policyVars(CommandStep(s))

PolicySpec == PolicyInit /\ [][PolicyNext]_policyVars /\ PolicyFairness

-----------------------------------------------------------------------------
PolicyTypeOK ==
    /\ file \in [Places -> [text : Texts \cup {Absent, Empty}, by : Starts \cup {"user", "none"}]]
    /\ pc \in [Starts -> PCs]
    /\ at \in [Starts -> Places]
    /\ source \in [Starts -> Texts \cup {Absent, Empty}]
    /\ loaded \in [Starts -> [ok : BOOLEAN, workspace : Nat, paths : SUBSET Nat,
                              commands : SUBSET Nat, proxy : Nat,
                              enforceNetwork : BOOLEAN, allowLocalDNS : BOOLEAN]]

(***************************************************************************)
(* "Never overwrites an existing file" (createStarterPolicy): a file that  *)
(* is there changes because the user changes it, or because the command    *)
(* that created it fills it; whoever else is creating it at the same time. *)
(***************************************************************************)
NeverOverwrites ==
    [][\A i \in Places :
         IsThere(i) /\ file'[i] # file[i]
            => \/ file'[i].by \in {"user", "none"}
               \/ file[i].text = Empty /\ file'[i].by = file[i].by]_policyVars

(***************************************************************************)
(* A launch that gets past loading runs under a text somebody wrote as a   *)
(* whole, with a network policy in it: the empty file that a killed or     *)
(* concurrent `init' leaves stops it.  (An attach takes the empty file for *)
(* a policy without rules.)                                                *)
(***************************************************************************)
LaunchUnderWholePolicy ==
    \A s \in Starts :
        pc[s] = "loaded" /\ Command[s] = "launch"
            => /\ source[s] \in Texts \ Garbled
               /\ \E i \in DOMAIN Rules[source[s]] : Kind(Rules[source[s]][i]) = "network"

NetworkPolicies(pf) == {i \in DOMAIN pf : Kind(pf[i]) = "network"}

\* What a text asks for: the last network policy by name has the say.
Governs(pf, i) == i \in NetworkPolicies(pf) /\ \A j \in NetworkPolicies(pf) : j <= i

(***************************************************************************)
(* The policy whose number the network reports carry is the one that       *)
(* decides whether the network is enforced and whether DNS is let through; *)
(* without one, nothing is enforced.                                       *)
(***************************************************************************)
OnePolicyGoverns ==
    \A s \in Starts :
        pc[s] = "loaded" =>
            LET pf == loadPolicies(source[s])
            IN IF NetworkPolicies(pf) = {}
               THEN loaded[s].proxy = 0 /\ ~loaded[s].enforceNetwork
               ELSE /\ Governs(pf, loaded[s].proxy)
                    /\ loaded[s].enforceNetwork = pf[loaded[s].proxy].proxyOnly
                    /\ loaded[s].allowLocalDNS = pf[loaded[s].proxy].dns

\* A command that is not killed comes to an end of its search: it has rules, is
\* done, or says what is wrong, however the files change under it.
StartResolves ==
    \A s \in Starts : pc[s] \in Working ~> pc[s] \in {"loaded"} \cup Ended
=============================================================================
