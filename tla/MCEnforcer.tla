----------------------------- MODULE MCEnforcer -----------------------------
(***************************************************************************)
(* Buffers of 8 and 4 bytes, two tasks on the same CPU or on two.  The     *)
(* paths lie at, below, beside and outside the workspace, end in a rule's  *)
(* suffix or not, and have the lengths at which the buffers fill: 6 (the   *)
(* longest that is matched), 7 (fits, but is refused) and 9 (does not      *)
(* fit).  Alone, a call may be any hook with any path; two calls at a time *)
(* are those of tracked tasks, of four hooks (the six of DirHooks are one  *)
(* program) and two paths, of which each hook refuses one.                 *)
(***************************************************************************)
EXTENDS Enforcer, FiniteSets, TLC

A == <<"/", "a">>
B == <<"/", "b">>
AB == <<"/", "a", "b">>
AwB == <<"/", "a", "/", "b">>
Len6 == <<"/", "a", "/", "a", "/", "b">>
Len7 == <<"/", "a", "/", "a", "a", "/", "b">>
Len9 == <<"/", "a", "/", "a", "a", "a", "a", "/", "b">>
Bare == <<"b">>

MCPaths == {A, B, AB, AwB, Len6, Len7, Len9, Bare}

Rule(p, id) == [pattern |-> p, policy |-> id]

Confining == [enforce_workspace |-> TRUE, root |-> A, root_policy |-> 3, prefixes |-> <<B>>,
              path_rules |-> <<Rule(AwB, 1), Rule(B, 2)>>,
              cmd_rules |-> <<Rule(AwB, 4), Rule(B, 5)>>]
Open == [Confining EXCEPT !.enforce_workspace = FALSE, !.root = <<>>, !.root_policy = 0,
                          !.prefixes = <<>>]
LongRoot == [Confining EXCEPT !.root = Len7, !.path_rules = <<>>]

MCConfigs == {Confining, Open}
MCLongRoot == {LongRoot}
MCOpen == {Open}

Crowd == {AB, AwB}
CrowdBound ==
    Cardinality({t \in Tasks : call[t].st # "idle"}) >= 2 =>
        \A t \in Tasks :
            /\ call[t].hook \in {"path_unlink", "file_open", "path_rename", "bprm_check_security"}
            /\ call[t].tracked
            /\ \A i \in DOMAIN call[t].paths : call[t].paths[i] \in Crowd

TaskSymmetry == Permutations(Tasks) \cup Permutations(Cpus)
=============================================================================
