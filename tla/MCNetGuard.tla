----------------------------- MODULE MCNetGuard -----------------------------
(***************************************************************************)
(* After loading, nothing looks at the policy files again, and what the    *)
(* hooks do depends on the loaded text alone.  So behaviours are followed  *)
(* in two halves: in busy ones an init, a launch, an attach and the user   *)
(* interleave on the files, up to loading; in the others the attach starts *)
(* alone, from any file but the empty one ("mixed" has no network policy   *)
(* either), and its hooks are followed.  There process q is never tracked: *)
(* it opens and connects the socket it shares with p, which is, and leaves *)
(* the sending to p.                                                       *)
(***************************************************************************)
EXTENDS NetGuard

P(kinds, egress, dns) ==
    [confine |-> "confine" \in kinds, paths |-> "paths" \in kinds, hosts |-> "hosts" \in kinds,
     commands |-> "commands" \in kinds, proxyOnly |-> egress, dns |-> dns]

CONSTANT p

VARIABLE busy

MCCommand == [i |-> "init", l |-> "launch", a |-> "attach"]
MCExplicit == [i |-> 0, l |-> 2, a |-> 0]

\* The starter policy; a policy of two kinds that asks for proxy_only in vain; two
\* network policies of which the last is lax; two confinements.
MCRules ==
    [starter |-> <<P({"paths"}, FALSE, FALSE), P({"commands"}, FALSE, FALSE),
                   P({"hosts"}, TRUE, TRUE), P({"confine"}, FALSE, FALSE)>>,
     mixed |-> <<P({"paths", "hosts"}, TRUE, TRUE)>>,
     off |-> <<P({"hosts"}, TRUE, TRUE), P({}, FALSE, FALSE), P({"hosts"}, FALSE, FALSE)>>,
     twice |-> <<P({"confine"}, FALSE, FALSE), P({"confine", "hosts"}, TRUE, TRUE)>>,
     junk |-> <<>>]

\* Steps of the guardian, from its start to its death.
OwnPolicyStep ==
    /\ PolicyStep
    /\ \/ Begin(Guardian) \/ Kill(Guardian)
       \/ LoadPolicies(Guardian) \/ FindNext(Guardian)

FewTexts(f) == \A i \in Places : f[i].text \notin {"off", "twice"}

SentBy(x) == sent = <<>> \/ sent[1] = x

MCInit ==
    /\ NetInit
    /\ busy \in BOOLEAN
    /\ IF busy THEN FewTexts(file) ELSE file[2] = NoFile /\ file[1].text # Empty

MCNext ==
    /\ \/ busy /\ PolicyNext /\ FewTexts(file') /\ UNCHANGED netVars
       \/ ~busy /\ (OwnPolicyStep \/ NetStep) /\ tracked' \subseteq {p} /\ SentBy(p)'
    /\ UNCHANGED busy

MCSpec == MCInit /\ [][MCNext]_<<allVars, busy>> /\ PolicyFairness
=============================================================================
