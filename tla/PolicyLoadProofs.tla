-------------------------- MODULE PolicyLoadProofs --------------------------
(***************************************************************************)
(* What loadAllPolicies makes of every list of policies, and what follows  *)
(* for a command that gets past loading, for any policy texts, any number  *)
(* of places to look at and any number of commands at work on the files.   *)
(***************************************************************************)
EXTENDS PolicyLoad, TLAPS, WellFoundedInduction

-----------------------------------------------------------------------------
(* The loop of loadAllPolicies                                             *)

\* A set of numbers that is not empty has a least one.
LEMMA LeastNumber ==
    ASSUME NEW T, T \subseteq Nat, T # {}
    PROVE  \E n \in T : \A m \in T : n <= m
<1>1. PICK n \in T : \A m \in T : ~ (<<m, n>> \in OpToRel(<, Nat))
  BY NatLessThanWellFounded, WFMin, Zenon
<1>2. \A m \in T : ~ (m < n)
  BY <1>1 DEF OpToRel
<1>3. QED
  BY <1>2

\* f[i] is what the loop holds after i policies, up to the n-th.
IsRun(f, pf, n) ==
    f = [i \in 0 .. n |-> IF i = 0 THEN NothingLoaded ELSE LoadPolicy(f[i - 1], pf[i], i)]

\* The loop can be run to any length: the shortest run that was missing could be
\* had from the one before.
LEMMA RunsExist ==
    ASSUME NEW pf
    PROVE  \A n \in Nat : \E f : IsRun(f, pf, n)
<1> DEFINE Missing == {n \in Nat : ~ \E f : IsRun(f, pf, n)}
<1>1. SUFFICES ASSUME Missing # {} PROVE FALSE
  OBVIOUS
<1>2. PICK n \in Missing : \A m \in Missing : n <= m
  BY <1>1, LeastNumber
<1>3. CASE n = 0
  <2>1. IsRun([i \in 0 .. 0 |-> NothingLoaded], pf, 0)
    BY DEF IsRun
  <2>2. QED
    BY <1>3, <2>1
<1>4. CASE n # 0
  <2>1. n - 1 \in Nat /\ n - 1 \notin Missing
    BY <1>2, <1>4
  <2>2. PICK f : IsRun(f, pf, n - 1)
    BY <2>1
  <2> DEFINE g == [i \in 0 .. n |-> IF i = n THEN LoadPolicy(f[n - 1], pf[n], n) ELSE f[i]]
  <2>3. \A i \in 0 .. n : g[i] = IF i = 0 THEN NothingLoaded ELSE LoadPolicy(g[i - 1], pf[i], i)
    <3> SUFFICES ASSUME NEW i \in 0 .. n
                 PROVE  g[i] = IF i = 0 THEN NothingLoaded ELSE LoadPolicy(g[i - 1], pf[i], i)
      OBVIOUS
    <3>1. CASE i = n
      BY <1>4, <2>1, <3>1
    <3>2. CASE i # n
      <4>1. i \in 0 .. n - 1 /\ g[i] = f[i]
        BY <2>1, <3>2
      <4>2. f[i] = IF i = 0 THEN NothingLoaded ELSE LoadPolicy(f[i - 1], pf[i], i)
        BY <2>2, <4>1 DEF IsRun
      <4>3. i # 0 => g[i - 1] = f[i - 1]
        BY <2>1, <4>1
      <4>4. QED
        BY <4>1, <4>2, <4>3
    <3>3. QED
      BY <3>1, <3>2
  <2>4. IsRun(g, pf, n)
    BY <2>3 DEF IsRun
  <2>5. QED
    BY <2>4
<1>5. QED
  BY <1>3, <1>4

\* So loadAllPolicies returns the end of a run.
LEMMA LoaderRuns ==
    ASSUME NEW pf, Len(pf) \in Nat
    PROVE  \E f : IsRun(f, pf, Len(pf)) /\ loadAllPolicies(pf) = f[Len(pf)]
<1> DEFINE f == CHOOSE g : IsRun(g, pf, Len(pf))
<1>1. IsRun(f, pf, Len(pf))
  BY RunsExist
<1>2. loadAllPolicies(pf) = f[Len(pf)]
  BY DEF loadAllPolicies, IsRun
<1>3. QED
  BY <1>1, <1>2

-----------------------------------------------------------------------------
(* What the loop computes                                                  *)

LoadedRules ==
    [ok : BOOLEAN, workspace : Nat, paths : SUBSET Nat, commands : SUBSET Nat, proxy : Nat,
     enforceNetwork : BOOLEAN, allowLocalDNS : BOOLEAN]

\* The numbers of the policies of a kind, among the first n.
OfKind(pf, n, kind) == {i \in 1 .. n : Kind(pf[i]) = kind}

\* x is the last of the numbers S, or 0 if there is none.
IsLast(x, S) == IF S = {} THEN x = 0 ELSE x \in S /\ \A i \in S : i <= x

(***************************************************************************)
(* r is right for the first n policies of pf: paths and commands are those *)
(* of the policies of their kind, the last network policy has the say, and *)
(* r.ok says that no two confine a workspace.                              *)
(***************************************************************************)
Right(r, pf, n) ==
    /\ r \in LoadedRules
    /\ r.ok <=> \A i, j \in OfKind(pf, n, "workspace") : i = j
    /\ IsLast(r.workspace, OfKind(pf, n, "workspace"))
    /\ r.paths = OfKind(pf, n, "path")
    /\ r.commands = OfKind(pf, n, "command")
    /\ IsLast(r.proxy, OfKind(pf, n, "network"))
    /\ r.enforceNetwork = (r.proxy # 0 /\ pf[r.proxy].proxyOnly)
    /\ r.allowLocalDNS = (r.proxy # 0 /\ pf[r.proxy].dns)

LEMMA NothingIsRight ==
    ASSUME NEW pf
    PROVE  Right(NothingLoaded, pf, 0)
<1>1. \A kind : OfKind(pf, 0, kind) = {}
  BY DEF OfKind
<1>2. QED
  BY <1>1 DEF Right, NothingLoaded, LoadedRules, IsLast

\* The n-th policy joins the ones of its kind.
LEMMA OneMore ==
    ASSUME NEW pf, NEW n \in Nat \ {0}, NEW kind
    PROVE  OfKind(pf, n, kind) =
               IF Kind(pf[n]) = kind THEN OfKind(pf, n - 1, kind) \cup {n} ELSE OfKind(pf, n - 1, kind)
<1>1. 1 .. n = (1 .. n - 1) \cup {n}
  OBVIOUS
<1>2. QED
  BY <1>1 DEF OfKind

LEMMA LastOfMore ==
    ASSUME NEW pf, NEW n \in Nat \ {0}, NEW kind
    PROVE  IsLast(n, OfKind(pf, n - 1, kind) \cup {n})
BY DEF IsLast, OfKind

\* One turn of the loop, kind by kind.
LEMMA TurnIsRight ==
    ASSUME NEW pf, NEW n \in Nat \ {0}, pf[n] \in Policy, NEW r, Right(r, pf, n - 1)
    PROVE  Right(LoadPolicy(r, pf[n], n), pf, n)
<1>0. r \in LoadedRules /\ pf[n].proxyOnly \in BOOLEAN /\ pf[n].dns \in BOOLEAN
  BY DEF Right, Policy
<1>1. CASE Kind(pf[n]) = "workspace"
  <2>1. LoadPolicy(r, pf[n], n) = [r EXCEPT !.ok = r.ok /\ r.workspace = 0, !.workspace = n]
    BY <1>1 DEF LoadPolicy
  <2>2. /\ OfKind(pf, n, "workspace") = OfKind(pf, n - 1, "workspace") \cup {n}
        /\ \A kind \in {"path", "network", "command"} : OfKind(pf, n, kind) = OfKind(pf, n - 1, kind)
    BY <1>1, OneMore
  <2>3. r.workspace = 0 <=> OfKind(pf, n - 1, "workspace") = {}
    BY DEF Right, IsLast, OfKind
  <2>4. (r.ok /\ r.workspace = 0) <=> \A i, j \in OfKind(pf, n, "workspace") : i = j
    BY <2>2, <2>3 DEF Right, OfKind
  <2>5. IsLast(n, OfKind(pf, n, "workspace"))
    BY <2>2, LastOfMore
  <2>6. QED
    BY <1>0, <2>1, <2>2, <2>4, <2>5 DEF Right, LoadedRules
<1>2. CASE Kind(pf[n]) = "path"
  <2>1. LoadPolicy(r, pf[n], n) = [r EXCEPT !.paths = r.paths \cup {n}]
    BY <1>2 DEF LoadPolicy
  <2>2. /\ OfKind(pf, n, "path") = OfKind(pf, n - 1, "path") \cup {n}
        /\ \A kind \in {"workspace", "network", "command"} : OfKind(pf, n, kind) = OfKind(pf, n - 1, kind)
    BY <1>2, OneMore
  <2>3. QED
    BY <1>0, <2>1, <2>2 DEF Right, LoadedRules
<1>3. CASE Kind(pf[n]) = "network"
  <2>1. LoadPolicy(r, pf[n], n) = [r EXCEPT !.proxy = n, !.enforceNetwork = pf[n].proxyOnly,
                                            !.allowLocalDNS = pf[n].dns]
    BY <1>3 DEF LoadPolicy
  <2>2. /\ OfKind(pf, n, "network") = OfKind(pf, n - 1, "network") \cup {n}
        /\ \A kind \in {"workspace", "path", "command"} : OfKind(pf, n, kind) = OfKind(pf, n - 1, kind)
    BY <1>3, OneMore
  <2>3. IsLast(n, OfKind(pf, n, "network"))
    BY <2>2, LastOfMore
  <2>4. QED
    BY <1>0, <2>1, <2>2, <2>3 DEF Right, LoadedRules
<1>4. CASE Kind(pf[n]) = "command"
  <2>1. LoadPolicy(r, pf[n], n) = [r EXCEPT !.commands = r.commands \cup {n}]
    BY <1>4 DEF LoadPolicy
  <2>2. /\ OfKind(pf, n, "command") = OfKind(pf, n - 1, "command") \cup {n}
        /\ \A kind \in {"workspace", "path", "network"} : OfKind(pf, n, kind) = OfKind(pf, n - 1, kind)
    BY <1>4, OneMore
  <2>3. QED
    BY <1>0, <2>1, <2>2 DEF Right, LoadedRules
<1>5. CASE Kind(pf[n]) \notin {"workspace", "path", "network", "command"}
  <2>1. LoadPolicy(r, pf[n], n) = r
    BY <1>5 DEF LoadPolicy
  <2>2. \A kind \in {"workspace", "path", "network", "command"} : OfKind(pf, n, kind) = OfKind(pf, n - 1, kind)
    BY <1>5, OneMore
  <2>3. QED
    BY <2>1, <2>2 DEF Right
<1>6. QED
  BY <1>1, <1>2, <1>3, <1>4, <1>5

(***************************************************************************)
(* loadAllPolicies, for every list of policies: it gathers the path and    *)
(* command policies, lets the last network policy by name decide about the *)
(* network, and refuses a second workspace.                                *)
(***************************************************************************)
THEOREM LoaderIsRight ==
    ASSUME NEW pf \in Seq(Policy)
    PROVE  Right(loadAllPolicies(pf), pf, Len(pf))
<1>1. Len(pf) \in Nat /\ \A i \in 1 .. Len(pf) : pf[i] \in Policy
  OBVIOUS
<1>2. PICK f : IsRun(f, pf, Len(pf)) /\ loadAllPolicies(pf) = f[Len(pf)]
  BY <1>1, LoaderRuns
<1> DEFINE Wrong == {n \in 0 .. Len(pf) : ~ Right(f[n], pf, n)}
<1>3. SUFFICES ASSUME Wrong # {} PROVE FALSE
  BY <1>1, <1>2
<1>4. PICK n \in Wrong : \A m \in Wrong : n <= m
  <2>1. Wrong \subseteq Nat
    BY <1>1
  <2>2. QED
    BY <1>3, <2>1, LeastNumber
<1>5. f[n] = IF n = 0 THEN NothingLoaded ELSE LoadPolicy(f[n - 1], pf[n], n)
  BY <1>2 DEF IsRun
<1>6. CASE n = 0
  BY <1>5, <1>6, NothingIsRight
<1>7. CASE n # 0
  <2>1. n \in Nat \ {0} /\ n - 1 \in 0 .. Len(pf) /\ n \in 1 .. Len(pf)
    BY <1>1, <1>7
  <2>2. Right(f[n - 1], pf, n - 1)
    BY <1>4, <2>1
  <2>3. Right(f[n], pf, n)
    BY <1>1, <1>5, <1>7, <2>1, <2>2, TurnIsRight
  <2>4. QED
    BY <2>3
<1>8. QED
  BY <1>6, <1>7

-----------------------------------------------------------------------------
(* The commands                                                            *)

\* What a text that can be loaded, or none, asks for.
LEMMA PoliciesOfText ==
    ASSUME NEW text
    PROVE  loadPolicies(text) \in Seq(Policy)
BY TextsAssumption DEF loadPolicies

LEMMA LoadedIsTyped ==
    ASSUME NEW text
    PROVE  loadAllPolicies(loadPolicies(text)) \in LoadedRules
BY PoliciesOfText, LoaderIsRight DEF Right

LEMMA NoTextNoRules ==
    /\ NothingLoaded \in LoadedRules
    /\ loadAllPolicies(loadPolicies(Absent)) = NothingLoaded
<1>1. NothingLoaded \in LoadedRules
  BY DEF NothingLoaded, LoadedRules
<1>2. loadPolicies(Absent) = <<>> /\ Len(<<>>) = 0
  BY TextsAssumption DEF loadPolicies
<1>3. PICK f : IsRun(f, <<>>, 0) /\ loadAllPolicies(<<>>) = f[0]
  BY <1>2, LoaderRuns
<1>4. f[0] = NothingLoaded
  BY <1>3 DEF IsRun
<1>5. QED
  BY <1>1, <1>2, <1>3, <1>4

\* A command that is about to write finds its file as it created it, if at all.
Unwritten == \A s \in Starts : pc[s] = "write" /\ file[1].by = s => file[1].text = Empty

\* Rules are what the text says that was read, whatever the file says by now; a
\* command has come past loading with rules that log.Fatal does not stop.
RulesOfSource ==
    \A s \in Starts :
        /\ loaded[s] = loadAllPolicies(loadPolicies(source[s]))
        /\ pc[s] = "loaded" => Loadable(s, source[s], loaded[s])

PolicyInv == PolicyTypeOK /\ Unwritten /\ RulesOfSource

\* What a step does to the files, if it does anything.
KeepsFiles ==
    \A i \in Places :
        IsThere(i) /\ file'[i] # file[i]
            => \/ file'[i].by \in {"user", "none"}
               \/ file[i].text = Empty /\ file'[i].by = file[i].by

FileRecords == [text : Texts \cup {Absent, Empty}, by : Starts \cup {"user", "none"}]

LEMMA PolicyInitInv == PolicyInit => PolicyInv
<1> SUFFICES ASSUME PolicyInit PROVE PolicyInv
  OBVIOUS
<1>1. 1 \in Places
  BY PlacesAssumption DEF Places
<1>2. file \in [Places -> FileRecords]
  BY DEF PolicyInit, FileRecords, NoFile
<1>3. PolicyTypeOK
  BY <1>1, <1>2, NoTextNoRules DEF PolicyInit, PolicyTypeOK, FileRecords, PCs, LoadedRules
<1>4. Unwritten
  BY DEF PolicyInit, Unwritten
<1>5. RulesOfSource
  BY NoTextNoRules DEF PolicyInit, RulesOfSource
<1>6. QED
  BY <1>3, <1>4, <1>5 DEF PolicyInv

\* The command goes on, or ends; no file changes and nothing is loaded.
LEMMA MovingKeepsInv ==
    ASSUME PolicyInv, NEW s \in Starts, NEW where \in PCs \ {"write", "loaded"}, Goto(s, where),
           UNCHANGED <<file, source, loaded>>, at' \in [Starts -> Places]
    PROVE  PolicyInv' /\ KeepsFiles
<1>1. pc' \in [Starts -> PCs] /\ \A x \in Starts : pc'[x] \in {"write", "loaded"} => pc'[x] = pc[x]
  BY DEF Goto, PolicyInv, PolicyTypeOK
<1>2. PolicyTypeOK'
  BY <1>1 DEF PolicyInv, PolicyTypeOK
<1>3. Unwritten'
  BY <1>1 DEF PolicyInv, Unwritten
<1>4. RulesOfSource'
  BY <1>1 DEF PolicyInv, RulesOfSource, Loadable
<1>5. QED
  BY <1>2, <1>3, <1>4 DEF PolicyInv, KeepsFiles

\* The user's change: whoever comes to write has lost the file.
LEMMA UserKeepsInv ==
    ASSUME PolicyInv, NEW i \in Places, NEW r \in FileRecords, r.by \in {"user", "none"},
           file' = [file EXCEPT ![i] = r], UNCHANGED <<pc, at, source, loaded>>
    PROVE  PolicyInv' /\ KeepsFiles
<1>1. 1 \in Places /\ Starts \cap {"user", "none"} = {}
  BY PlacesAssumption, CommandAssumption DEF Places
<1>2. file \in [Places -> FileRecords] /\ file' \in [Places -> FileRecords]
  BY DEF PolicyInv, PolicyTypeOK, FileRecords
<1>3. PolicyTypeOK'
  BY <1>2 DEF PolicyInv, PolicyTypeOK, FileRecords
<1>4. Unwritten'
  BY <1>1, <1>2 DEF PolicyInv, Unwritten
<1>5. RulesOfSource'
  BY DEF PolicyInv, RulesOfSource, Loadable
<1>6. KeepsFiles
  BY <1>2 DEF KeepsFiles
<1>7. QED
  BY <1>3, <1>4, <1>5, <1>6 DEF PolicyInv

\* Settled(s) is a place to go on to without a file in hand.
LEMMA SettledIsPC ==
    ASSUME NEW s
    PROVE  Settled(s) \in PCs \ {"write", "loaded"}
BY DEF Settled, PCs, Working, Ended

LEMMA OpenKeepsInv ==
    ASSUME PolicyInv, NEW s \in Starts, OpenStarter(s)
    PROVE  PolicyInv' /\ KeepsFiles
<1>0. UNCHANGED <<at, source, loaded>> /\ at' \in [Starts -> Places]
  BY DEF OpenStarter, PolicyInv, PolicyTypeOK
<1>1. CASE IsThere(1)
  BY <1>0, <1>1, SettledIsPC, MovingKeepsInv DEF OpenStarter
<1>2. CASE ~IsThere(1)
  <2>1. /\ file' = [file EXCEPT ![1] = [text |-> Empty, by |-> s]]
        /\ pc' = [pc EXCEPT ![s] = "write"]
        /\ 1 \in Places
    BY <1>2, PlacesAssumption DEF OpenStarter, Goto, Places
  <2>2. [text |-> Empty, by |-> s] \in FileRecords
    BY DEF FileRecords
  <2>3. /\ file \in [Places -> FileRecords] /\ file' \in [Places -> FileRecords]
        /\ file'[1].text = Empty
        /\ pc' \in [Starts -> PCs] /\ \A x \in Starts : pc'[x] = "loaded" => pc[x] = "loaded"
    BY <2>1, <2>2 DEF PolicyInv, PolicyTypeOK, FileRecords, PCs, Working
  <2>4. PolicyTypeOK'
    BY <1>0, <2>3 DEF PolicyInv, PolicyTypeOK, FileRecords
  <2>5. RulesOfSource'
    BY <1>0, <2>3 DEF PolicyInv, RulesOfSource, Loadable
  <2>6. KeepsFiles
    BY <1>2, <2>1, <2>3 DEF KeepsFiles
  <2>7. QED
    BY <2>3, <2>4, <2>5, <2>6 DEF PolicyInv, Unwritten
<1>3. QED
  BY <1>1, <1>2

LEMMA WriteKeepsInv ==
    ASSUME PolicyInv, NEW s \in Starts, WriteStarter(s)
    PROVE  PolicyInv' /\ KeepsFiles
<1>0. UNCHANGED <<at, source, loaded>> /\ at' \in [Starts -> Places]
  BY DEF WriteStarter, PolicyInv, PolicyTypeOK
<1>1. CASE file[1].by # s
  BY <1>0, <1>1, SettledIsPC, MovingKeepsInv DEF WriteStarter
<1>2. CASE file[1].by = s
  <2>1. /\ file' = [file EXCEPT ![1].text = Starter]
        /\ pc' = [pc EXCEPT ![s] = Settled(s)]
        /\ 1 \in Places /\ Starter \in Texts
        /\ file[1].text = Empty
    BY <1>2, PlacesAssumption, TextsAssumption DEF WriteStarter, Goto, Places, PolicyInv, Unwritten
  <2>2. file \in [Places -> FileRecords]
    BY DEF PolicyInv, PolicyTypeOK, FileRecords
  <2>3. /\ file' \in [Places -> FileRecords]
        /\ \A i \in Places \ {1} : file'[i] = file[i]
        /\ file'[1].by = file[1].by
    BY <2>1, <2>2 DEF FileRecords
  <2>4. /\ pc' \in [Starts -> PCs] /\ pc'[s] \notin {"write", "loaded"}
        /\ \A x \in Starts \ {s} : pc'[x] = pc[x]
    BY <2>1, SettledIsPC DEF PolicyInv, PolicyTypeOK
  <2>5. PolicyTypeOK'
    BY <1>0, <2>3, <2>4 DEF PolicyInv, PolicyTypeOK, FileRecords
  <2>6. Unwritten'
    BY <1>2, <2>3, <2>4 DEF Unwritten
  <2>7. RulesOfSource'
    BY <1>0, <2>4 DEF PolicyInv, RulesOfSource, Loadable
  <2>8. KeepsFiles
    BY <2>1, <2>3 DEF KeepsFiles
  <2>9. QED
    BY <2>5, <2>6, <2>7, <2>8 DEF PolicyInv
<1>3. QED
  BY <1>1, <1>2

LEMMA LoadKeepsInv ==
    ASSUME PolicyInv, NEW s \in Starts, LoadPolicies(s)
    PROVE  PolicyInv' /\ KeepsFiles
<1> DEFINE text == file[at[s]].text
           result == IF text \in {Absent} \cup Garbled THEN NothingLoaded
                     ELSE loadAllPolicies(loadPolicies(text))
<1>0. UNCHANGED <<file, at>> /\ at' \in [Starts -> Places]
  BY DEF LoadPolicies, PolicyInv, PolicyTypeOK
<1>1. CASE ~Loadable(s, text, result)
  <2>1. Goto(s, "fatal") /\ UNCHANGED <<source, loaded>>
    BY <1>1 DEF LoadPolicies
  <2>2. "fatal" \in PCs \ {"write", "loaded"}
    BY DEF PCs, Ended
  <2>3. QED
    BY <1>0, <2>1, <2>2, MovingKeepsInv
<1>2. CASE Loadable(s, text, result)
  <2>1. /\ pc' = [pc EXCEPT ![s] = "loaded"]
        /\ source' = [source EXCEPT ![s] = text]
        /\ loaded' = [loaded EXCEPT ![s] = result]
    BY <1>2 DEF LoadPolicies, Goto
  <2>2. text \in Texts \cup {Absent, Empty}
    BY DEF PolicyInv, PolicyTypeOK
  <2>3. result = loadAllPolicies(loadPolicies(text)) /\ result \in LoadedRules
    BY <1>2, LoadedIsTyped DEF Loadable
  <2> HIDE DEF text, result
  <2>4. /\ pc' \in [Starts -> PCs] /\ pc'[s] = "loaded" /\ source'[s] = text /\ loaded'[s] = result
        /\ \A x \in Starts \ {s} : pc'[x] = pc[x] /\ source'[x] = source[x] /\ loaded'[x] = loaded[x]
    BY <2>1 DEF PolicyInv, PolicyTypeOK, PCs
  <2>5. PolicyTypeOK'
    BY <1>0, <2>1, <2>2, <2>3, <2>4 DEF PolicyInv, PolicyTypeOK, LoadedRules
  <2>6. Unwritten'
    BY <1>0, <2>4 DEF PolicyInv, Unwritten
  <2>7. RulesOfSource'
    BY <1>2, <2>3, <2>4 DEF PolicyInv, RulesOfSource, Loadable
  <2>8. KeepsFiles
    BY <1>0 DEF KeepsFiles
  <2>9. QED
    BY <2>5, <2>6, <2>7, <2>8 DEF PolicyInv
<1>3. QED
  BY <1>1, <1>2

\* A command gives up, at whatever point.
LEMMA EndingKeepsInv ==
    ASSUME PolicyInv, NEW s \in Starts, NEW how \in Ended, Goto(s, how),
           UNCHANGED <<file, at, source, loaded>>
    PROVE  PolicyInv' /\ KeepsFiles
<1>1. how \in PCs \ {"write", "loaded"} /\ at' \in [Starts -> Places]
  BY DEF PCs, Ended, PolicyInv, PolicyTypeOK
<1>2. QED
  BY <1>1, MovingKeepsInv

LEMMA SearchKeepsInv ==
    ASSUME PolicyInv, NEW s \in Starts, Begin(s) \/ FindNamed(s) \/ FindNext(s) \/ CheckStarter(s)
    PROVE  PolicyInv' /\ KeepsFiles
<1>1. UNCHANGED <<file, source, loaded>>
  BY DEF Begin, FindNamed, FindNext, CheckStarter
<1>2. at \in [Starts -> Places] /\ 1 \in Places
  BY PlacesAssumption DEF PolicyInv, PolicyTypeOK, Places
<1>3. {"check", "named", "find", "read", "fatal", "open"} \subseteq PCs \ {"write", "loaded"}
  BY DEF PCs, Working, Ended
<1>4. CASE Begin(s)
  <2>1. Explicit[s] # 0 => Explicit[s] \in Places
    BY PlacesAssumption DEF Places
  <2>2. at' \in [Starts -> Places]
    BY <1>2, <1>4, <2>1 DEF Begin
  <2>3. \E where \in {"check", "named", "find"} : Goto(s, where)
    BY <1>4 DEF Begin
  <2>4. QED
    BY <1>1, <1>3, <2>2, <2>3, MovingKeepsInv
<1>5. CASE FindNamed(s)
  <2>1. \E where \in {"read", "fatal"} : Goto(s, where)
    BY <1>5 DEF FindNamed
  <2>2. QED
    BY <1>1, <1>2, <1>3, <1>5, <2>1, MovingKeepsInv DEF FindNamed
<1>6. CASE FindNext(s)
  <2>1. at' \in [Starts -> Places]
    <3>1. at[s] # NPlaces => at[s] + 1 \in Places
      BY <1>2, PlacesAssumption DEF Places
    <3>2. QED
      BY <1>2, <1>6, <3>1 DEF FindNext
  <2>2. \E where \in {"check", "read", "find"} : Goto(s, where)
    BY <1>6 DEF FindNext
  <2>3. QED
    BY <1>1, <1>3, <2>1, <2>2, MovingKeepsInv
<1>7. CASE CheckStarter(s)
  <2>1. \E where \in {Settled(s), "open"} : Goto(s, where)
    BY <1>7 DEF CheckStarter
  <2>2. QED
    BY <1>1, <1>2, <1>3, <1>7, <2>1, SettledIsPC, MovingKeepsInv DEF CheckStarter
<1>8. QED
  BY <1>4, <1>5, <1>6, <1>7

LEMMA PolicyStepKeepsInv ==
    ASSUME PolicyInv, PolicyNext
    PROVE  PolicyInv' /\ KeepsFiles
<1>1. ASSUME NEW s \in Starts, Begin(s) \/ CommandStep(s)
      PROVE  PolicyInv' /\ KeepsFiles
  BY <1>1, SearchKeepsInv, OpenKeepsInv, WriteKeepsInv, LoadKeepsInv DEF CommandStep
<1>2. ASSUME NEW s \in Starts, Fail(s) \/ Kill(s)
      PROVE  PolicyInv' /\ KeepsFiles
  BY <1>2, EndingKeepsInv DEF Fail, Kill, Ended
<1>3. ASSUME NEW i \in Places, NEW t \in Texts, UserWrites(i, t)
      PROVE  PolicyInv' /\ KeepsFiles
  BY <1>3, UserKeepsInv DEF UserWrites, FileRecords
<1>4. ASSUME NEW i \in Places, UserRemoves(i)
      PROVE  PolicyInv' /\ KeepsFiles
  BY <1>4, UserKeepsInv DEF UserRemoves, FileRecords, NoFile
<1>5. QED
  BY <1>1, <1>2, <1>3, <1>4 DEF PolicyNext

LEMMA PolicyIdleKeepsInv ==
    ASSUME PolicyInv, UNCHANGED policyVars
    PROVE  PolicyInv'
<1>1. PolicyTypeOK'
  BY DEF policyVars, PolicyInv, PolicyTypeOK
<1>2. Unwritten'
  BY DEF policyVars, PolicyInv, Unwritten
<1>3. RulesOfSource'
  BY DEF policyVars, PolicyInv, RulesOfSource, Loadable
<1>4. QED
  BY <1>1, <1>2, <1>3 DEF PolicyInv

-----------------------------------------------------------------------------
(* What the invariant says of the rules                                    *)

\* The network part of LoaderIsRight, for the rules of one command.
LEMMA NetworkRules ==
    ASSUME PolicyInv, NEW s \in Starts, NEW pf, pf = loadPolicies(source[s])
    PROVE  /\ pf \in Seq(Policy)
           /\ loaded[s].proxy = 0 <=> NetworkPolicies(pf) = {}
           /\ loaded[s].proxy # 0 => Governs(pf, loaded[s].proxy)
           /\ loaded[s].enforceNetwork = (loaded[s].proxy # 0 /\ pf[loaded[s].proxy].proxyOnly)
           /\ loaded[s].allowLocalDNS = (loaded[s].proxy # 0 /\ pf[loaded[s].proxy].dns)
<1>1. pf \in Seq(Policy) /\ Right(loaded[s], pf, Len(pf))
  BY PoliciesOfText, LoaderIsRight DEF PolicyInv, RulesOfSource
<1>2. NetworkPolicies(pf) = OfKind(pf, Len(pf), "network")
  BY <1>1 DEF NetworkPolicies, OfKind
<1>3. \A i \in OfKind(pf, Len(pf), "network") : i # 0
  BY <1>1 DEF OfKind
<1>4. QED
  BY <1>1, <1>2, <1>3 DEF Right, IsLast, Governs

LEMMA InvGoverns == PolicyInv => OnePolicyGoverns
<1> SUFFICES ASSUME PolicyInv, NEW s \in Starts, NEW pf, pf = loadPolicies(source[s])
             PROVE  IF NetworkPolicies(pf) = {}
                    THEN loaded[s].proxy = 0 /\ ~loaded[s].enforceNetwork
                    ELSE /\ Governs(pf, loaded[s].proxy)
                         /\ loaded[s].enforceNetwork = pf[loaded[s].proxy].proxyOnly
                         /\ loaded[s].allowLocalDNS = pf[loaded[s].proxy].dns
  BY DEF OnePolicyGoverns
<1>1. /\ pf \in Seq(Policy)
      /\ loaded[s].proxy = 0 <=> NetworkPolicies(pf) = {}
      /\ loaded[s].proxy # 0 => Governs(pf, loaded[s].proxy)
      /\ loaded[s].enforceNetwork = (loaded[s].proxy # 0 /\ pf[loaded[s].proxy].proxyOnly)
      /\ loaded[s].allowLocalDNS = (loaded[s].proxy # 0 /\ pf[loaded[s].proxy].dns)
  BY NetworkRules
<1>2. loaded[s].proxy # 0 => pf[loaded[s].proxy] \in Policy
  BY <1>1 DEF Governs, NetworkPolicies
<1>3. loaded[s].proxy # 0 => pf[loaded[s].proxy].proxyOnly \in BOOLEAN /\ pf[loaded[s].proxy].dns \in BOOLEAN
  BY <1>2 DEF Policy
<1>4. QED
  BY <1>1, <1>3

LEMMA InvLaunch == PolicyInv => LaunchUnderWholePolicy
<1> SUFFICES ASSUME PolicyInv, NEW s \in Starts, pc[s] = "loaded", Command[s] = "launch"
             PROVE  /\ source[s] \in Texts \ Garbled
                    /\ \E i \in DOMAIN Rules[source[s]] : Kind(Rules[source[s]][i]) = "network"
  BY DEF LaunchUnderWholePolicy
<1>1. /\ source[s] \notin {Absent} \cup Garbled
      /\ loaded[s].proxy # 0
  BY DEF PolicyInv, RulesOfSource, Loadable
<1>2. NetworkPolicies(loadPolicies(source[s])) # {}
  BY <1>1, NetworkRules
<1>3. source[s] \in Texts
  BY <1>2 DEF loadPolicies, NetworkPolicies
<1>4. QED
  BY <1>1, <1>2, <1>3 DEF loadPolicies, NetworkPolicies

-----------------------------------------------------------------------------
\* Every step of the commands and of the user keeps the invariant.
LEMMA PolicyHolds == PolicySpec => []PolicyInv
<1>1. PolicyInv /\ [PolicyNext]_policyVars => PolicyInv'
  BY PolicyStepKeepsInv, PolicyIdleKeepsInv
<1>2. QED
  BY <1>1, PolicyInitInv, PTL DEF PolicySpec

(***************************************************************************)
(* The network policy whose number the reports carry, the last one by      *)
(* name, is the one that sets both flags (loadAllPolicies), for every text *)
(* and however the file changes after it was read.                         *)
(***************************************************************************)
THEOREM LastPolicyGoverns == PolicySpec => []OnePolicyGoverns
BY PolicyHolds, InvGoverns, PTL

(***************************************************************************)
(* The empty file that a killed or concurrent init leaves never governs a  *)
(* launch: it runs under a text with a network policy, or not at all       *)
(* (runEnforcer's test of launch mode).                                    *)
(***************************************************************************)
THEOREM LaunchesUnderWholePolicies == PolicySpec => []LaunchUnderWholePolicy
BY PolicyHolds, InvLaunch, PTL

(***************************************************************************)
(* createStarterPolicy never overwrites a file, with any number of         *)
(* commands and the user at work on it, each of them failing or dying      *)
(* anywhere.                                                               *)
(***************************************************************************)
THEOREM NothingIsOverwritten == PolicySpec => NeverOverwrites
<1>1. PolicyInv /\ [PolicyNext]_policyVars => [KeepsFiles]_policyVars
  BY PolicyStepKeepsInv
<1>2. QED
  BY <1>1, PolicyHolds, PTL DEF PolicySpec, NeverOverwrites, KeepsFiles
=============================================================================
