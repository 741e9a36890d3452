------------------------- MODULE EventStreamProofs --------------------------
(***************************************************************************)
(* For every set of ids, every size of ring and map, all files, addresses  *)
(* and argument vectors: watching never disturbs supervision;              *)
(* an answer of /agents misses no process that was there all the time; the *)
(* tree shows each process as its own records do; and what is put out of a *)
(* record is what its process did, command line included.                  *)
(***************************************************************************)
EXTENDS EventStream, TrackingProofs, SequenceTheorems

-----------------------------------------------------------------------------
(* The stream is an observer of the tracker                                *)

\* Each step of a process is one of the tracker's, or none.
LEMMA ProcessStepRefines == ProcessStep => [Next]_trackingVars
<1>1. ASSUME NEW c \in Pids, StreamSpawn(c) PROVE Next
  BY <1>1 DEF StreamSpawn, Next, KernelStep, KernelStepOf
<1>2. ASSUME NEW p \in Pids, NEW c \in Pids, NEW newns \in BOOLEAN, StreamFork(p, c, newns)
      PROVE Next
  BY <1>2 DEF StreamFork, Next, KernelStep, KernelStepOf
<1>3. ASSUME NEW p \in Pids, NEW t \in Pids,
             StreamClone(p, t) \/ StreamExit(p, t) \/ StreamExecNonLeader(p, t)
      PROVE Next
  BY <1>3 DEF StreamClone, StreamExit, StreamExecNonLeader, Next, KernelStep, KernelStepOf
<1>4. ASSUME NEW p \in Pids, NEW f, NEW d, NEW a,
             Openat(p, f) \/ ConnectCall(p, d) \/ Execve(p, f, a)
      PROVE UNCHANGED trackingVars
  BY <1>4 DEF Openat, ConnectCall, Execve
<1>5. QED
  BY <1>1, <1>2, <1>3, <1>4 DEF ProcessStep

\* So is every other step.
LEMMA EventStepRefines == [EventNext]_eventVars => [Next]_trackingVars
<1>1. StreamAttach \/ StreamRelease \/ (\E p \in Pids : StreamTrack(p)) => Next
  BY DEF StreamAttach, StreamRelease, StreamTrack, Next
<1>2. StartLoop \/ ReadEvent \/ ReadError \/ ListAgents \/ ListStep => UNCHANGED trackingVars
  BY DEF StartLoop, ReadEvent, ReadError, ListAgents, ListStep, NextKey, LookupKey
<1>3. UNCHANGED eventVars => UNCHANGED trackingVars
  BY DEF eventVars
<1>4. QED
  BY <1>1, <1>2, <1>3, ProcessStepRefines DEF EventNext

\* The programs of monitor.bpf.c, the loop and the dashboard together implement the
\* tracker: whatever becomes of records and requests, keys are put and deleted as if
\* nobody watched (handle_fork updates the map before it reserves).
THEOREM StreamImplementsTracking == EventSpec => TrackingUndisturbed
<1>1. EventInit => Init
  BY DEF EventInit
<1>2. QED
  BY <1>1, EventStepRefines, PTL DEF EventSpec, TrackingUndisturbed, Spec

\* And so no supervised process is lost to a full ring or a dead event loop.
THEOREM WatchedAreTracked == EventSpec => []SupervisedAreTracked
BY StreamImplementsTracking, NoSupervisedProcessIsLost, PTL DEF TrackingUndisturbed

-----------------------------------------------------------------------------
(* The listing                                                             *)

Listing == it.at \in {"next", "lookup"}

\* The key in hand, whose value has not been looked up yet.
InHand == IF it.at = "lookup" THEN {it.cur} ELSE {}

(***************************************************************************)
(* What holds during a walk: the steady keys are in the map, and those not *)
(* listed yet are still to come.  The second would fail if it spoke of all *)
(* keys: what is put meanwhile may land behind the iterator.               *)
(***************************************************************************)
ListInv ==
    /\ it.at \in {"idle", "next", "lookup", "done", "error"}
    /\ Listing => it.steady \subseteq tracked_pids
    /\ Listing => it.steady \subseteq it.listed \cup it.ahead \cup InHand
    /\ SteadyPidsListed

\* The fields of the request, as far as the proofs need them.
ItType ==
    it \in [at : {"idle", "next", "lookup", "done", "error"}, cur : Pids \cup {NoPid},
            ahead : SUBSET Pids, count : 0 .. MaxTracked + 1, listed : SUBSET Pids, steady : SUBSET Pids]

IdsInv == ItType /\ tracked_pids \subseteq Pids

\* A change of the map moves unsteady keys only.
LEMMA MapMovesPreserves ==
    ASSUME IdsInv, ListInv, NEW put, MapMoves(put), tracked_pids' \subseteq Pids,
           tracked_pids \ tracked_pids' \subseteq Pids
    PROVE  ItType' /\ ListInv'
<1>1. PICK back \in SUBSET (IF it.cur \in put THEN tracked_pids' ELSE put \cap tracked_pids') :
        it' = IF it.at \notin {"next", "lookup"} THEN it
              ELSE [it EXCEPT !.ahead = ((@ \ put) \cap tracked_pids') \cup back,
                              !.steady = (@ \ put) \cap tracked_pids']
  BY DEF MapMoves
<1>2. CASE it.at \notin {"next", "lookup"}
  <2>1. it' = it
    BY <1>1, <1>2
  <2>2. QED
    BY <2>1, <1>2 DEF IdsInv, ItType, ListInv, Listing, InHand, SteadyPidsListed
<1>3. CASE it.at \in {"next", "lookup"}
  <2>1. it' = [it EXCEPT !.ahead = ((it.ahead \ put) \cap tracked_pids') \cup back,
                         !.steady = (it.steady \ put) \cap tracked_pids']
    BY <1>1, <1>3
  <2>2. back \subseteq Pids
    OBVIOUS
  <2>3. ItType'
    BY <2>1, <2>2 DEF IdsInv, ItType
  <2>4. /\ it'.at = it.at /\ it'.cur = it.cur /\ it'.listed = it.listed
        /\ it'.steady = (it.steady \ put) \cap tracked_pids'
        /\ it'.ahead = ((it.ahead \ put) \cap tracked_pids') \cup back
    BY <2>1 DEF IdsInv, ItType
  <2>5. ListInv'
    BY <2>4, <1>3 DEF ListInv, Listing, InHand, SteadyPidsListed
  <2>6. QED
    BY <2>3, <2>5
<1>4. QED
  BY <1>2, <1>3

\* A step that leaves map and request alone.
LEMMA ListStutter ==
    ASSUME IdsInv, ListInv, UNCHANGED <<tracked_pids, it>>
    PROVE  IdsInv' /\ ListInv'
BY DEF IdsInv, ItType, ListInv, Listing, InHand, SteadyPidsListed

\* The walk itself: starting, going on to a key, looking it up.
LEMMA WalkPreserves ==
    ASSUME IdsInv, ListInv, ListAgents \/ NextKey \/ LookupKey
    PROVE  IdsInv' /\ ListInv'
<1>0. tracked_pids' = tracked_pids
  BY DEF ListAgents, NextKey, LookupKey, trackingVars
<1>1. CASE ListAgents
  <2>1. it' = [at |-> "next", cur |-> NoPid, ahead |-> tracked_pids, count |-> 0,
               listed |-> {}, steady |-> tracked_pids]
    BY <1>1 DEF ListAgents, NoListing
  <2>2. QED
    BY <2>1, <1>0, MaxTrackedAssumption DEF IdsInv, ItType, ListInv, Listing, InHand, SteadyPidsListed
<1>2. CASE NextKey
  <2>0. /\ it.at = "next"
        /\ it.steady \subseteq tracked_pids
        /\ it.steady \subseteq it.listed \cup it.ahead
    BY <1>2 DEF NextKey, ListInv, Listing, InHand
  <2>1. it.steady \subseteq it.listed \cup Coming /\ Coming \subseteq Pids
    BY <2>0 DEF Coming, IdsInv, ItType
  <2>2. CASE it' = [it EXCEPT !.at = "error"]
    BY <2>2, <1>0 DEF IdsInv, ItType, ListInv, Listing, InHand, SteadyPidsListed
  <2>3. CASE Coming = {} /\ it' = [it EXCEPT !.at = "done"]
    BY <2>3, <2>1, <1>0 DEF IdsInv, ItType, ListInv, Listing, InHand, SteadyPidsListed
  <2>4. ASSUME NEW k \in Coming, it.count <= MaxTracked,
               it' = [it EXCEPT !.at = "lookup", !.cur = k, !.ahead = Coming \ {k},
                                !.count = it.count + 1]
        PROVE IdsInv' /\ ListInv'
    <3>1. k \in Pids /\ Coming \ {k} \in SUBSET Pids
      BY <2>1
    <3>2. it.count + 1 \in 0 .. MaxTracked + 1
      BY <2>4, MaxTrackedAssumption DEF IdsInv, ItType
    <3>3. it' = [at |-> "lookup", cur |-> k, ahead |-> Coming \ {k}, count |-> it.count + 1,
                 listed |-> it.listed, steady |-> it.steady]
      BY <2>4 DEF IdsInv, ItType
    <3>4. IdsInv'
      BY <3>1, <3>2, <3>3, <1>0 DEF IdsInv, ItType
    <3>5. ListInv'
      BY <3>3, <2>0, <2>1, <1>0 DEF ListInv, Listing, InHand, SteadyPidsListed
    <3>6. QED
      BY <3>4, <3>5
  <2>5. QED
    BY <1>2, <2>2, <2>3, <2>4 DEF NextKey
<1>3. CASE LookupKey
  <2>1. /\ it.at = "lookup"
        /\ it' = [it EXCEPT !.at = "next",
                            !.listed = IF it.cur \in tracked_pids THEN it.listed \cup {it.cur}
                                       ELSE it.listed]
    BY <1>3 DEF LookupKey
  <2>2. /\ it'.at = "next" /\ it'.cur = it.cur /\ it'.ahead = it.ahead /\ it'.steady = it.steady
        /\ it'.listed = IF it.cur \in tracked_pids THEN it.listed \cup {it.cur} ELSE it.listed
    BY <2>1 DEF IdsInv, ItType
  <2>3. IdsInv'
    BY <2>1, <1>0 DEF IdsInv, ItType
  <2>4. ListInv'
    BY <2>1, <2>2, <1>0 DEF ListInv, Listing, InHand, SteadyPidsListed
  <2>5. QED
    BY <2>3, <2>4
<1>4. QED
  BY <1>1, <1>2, <1>3

\* Steps that put or delete keys, or leave them alone.
LEMMA EventStepKeepsListing ==
    ASSUME IdsInv, ListInv, TypeOK', [EventNext]_eventVars
    PROVE  IdsInv' /\ ListInv'
<1>0. tracked_pids' \subseteq Pids /\ tracked_pids \subseteq Pids
  BY DEF TypeOK, IdsInv
<1>1. ASSUME NEW put, MapMoves(put) PROVE IdsInv' /\ ListInv'
  BY <1>0, <1>1, MapMovesPreserves DEF IdsInv
<1>2. CASE StreamAttach
  BY <1>2, ListStutter DEF StreamAttach, AttachPrograms
<1>3. CASE StreamRelease
  BY <1>0, <1>3, MaxTrackedAssumption DEF StreamRelease, NoListing, IdsInv, ItType, ListInv, Listing, InHand, SteadyPidsListed
<1>4. CASE \E p \in Pids : StreamTrack(p)
  BY <1>4, <1>1 DEF StreamTrack
<1>5. CASE ProcessStep
  <2>1. ASSUME NEW c \in Pids, StreamSpawn(c) PROVE IdsInv' /\ ListInv'
    BY <2>1, ListStutter DEF StreamSpawn, Spawn
  <2>2. ASSUME NEW p \in Pids, NEW c \in Pids, NEW newns \in BOOLEAN, StreamFork(p, c, newns)
        PROVE IdsInv' /\ ListInv'
    <3>1. CASE ForkSeen(p, c)
      BY <2>2, <3>1, <1>1 DEF StreamFork
    <3>2. CASE ~ForkSeen(p, c)
      <4>1. tracked_pids' = tracked_pids
        BY <2>2, <3>2 DEF StreamFork, Fork, handle_fork, ForkSeen
      <4>2. QED
        BY <2>2, <3>2, <4>1, ListStutter DEF StreamFork
    <3>3. QED
      BY <3>1, <3>2
  <2>3. ASSUME NEW p \in Pids, NEW t \in Pids, StreamClone(p, t) PROVE IdsInv' /\ ListInv'
    BY <2>3, ListStutter DEF StreamClone, CloneThread
  <2>4. ASSUME NEW p \in Pids, NEW t \in Pids, StreamExit(p, t) \/ StreamExecNonLeader(p, t)
        PROVE IdsInv' /\ ListInv'
    BY <2>4, <1>1 DEF StreamExit, StreamExecNonLeader
  <2>5. ASSUME NEW p \in Pids, NEW f, NEW d, NEW a,
               Openat(p, f) \/ ConnectCall(p, d) \/ Execve(p, f, a)
        PROVE IdsInv' /\ ListInv'
    BY <2>5, ListStutter DEF Openat, ConnectCall, Execve, trackingVars
  <2>6. QED
    BY <1>5, <2>1, <2>2, <2>3, <2>4, <2>5 DEF ProcessStep
<1>6. CASE StartLoop \/ ReadEvent \/ ReadError
  BY <1>6, ListStutter DEF StartLoop, ReadEvent, ReadError, trackingVars
<1>7. CASE ListAgents \/ ListStep
  BY <1>7, WalkPreserves DEF ListStep
<1>8. CASE UNCHANGED eventVars
  BY <1>8, ListStutter DEF eventVars, trackingVars
<1>9. QED
  BY <1>2, <1>3, <1>4, <1>5, <1>6, <1>7, <1>8 DEF EventNext

\* The inductive invariant of the walk.
LEMMA ListInvariant == EventSpec => [](TypeOK /\ IdsInv /\ ListInv)
<1>1. EventInit => IdsInv /\ ListInv
  BY MaxTrackedAssumption
     DEF EventInit, Init, NoListing, NoPid, IdsInv, ItType, ListInv, Listing, InHand, SteadyPidsListed
<1>2. IdsInv /\ ListInv /\ TypeOK' /\ [EventNext]_eventVars => IdsInv' /\ ListInv'
  BY EventStepKeepsListing
<1>3. EventSpec => []TypeOK
  BY StreamImplementsTracking, TrackingTypes, PTL DEF TrackingUndisturbed
<1>4. QED
  BY <1>1, <1>2, <1>3, PTL DEF EventSpec

\* handleAgents leaves out no process that was tracked from its first key to its last.
THEOREM NoSteadyPidIsMissed == EventSpec => []SteadyPidsListed
<1>1. IdsInv /\ ListInv => SteadyPidsListed
  BY DEF ListInv
<1>2. QED
  BY <1>1, ListInvariant, PTL

-----------------------------------------------------------------------------
(* The tree                                                                *)

Commands == {Uncleared} \cup {stitch(a) : a \in Argvs}

Deeds == [ppid : Pids \cup {NoPid}, file : Files \cup {"", Unreadable}, dest : Dests \cup {""},
          argv : Argvs \cup {<<>>}]

\* The records of the four programs; a fork names its parent.
AnyRec ==
    [type : 1 .. 4, pid : Pids, ppid : Pids \cup {NoPid, Junk}, file : Files \cup {""},
     dest : Dests \cup {""}, command : Commands, made : Deeds]

Rec == {e \in AnyRec : e.type = 4 => e.ppid \in Pids}

Names == Files \cup {"", Comm, Root}

TreeOK ==
    /\ tree \in [Pids -> [there : BOOLEAN, ppid : Pids \cup {NoPid}, comm : Names]]
    /\ \A p \in Pids : ~tree[p].there => tree[p] = NoNode

OwnOK ==
    /\ own \in [Pids -> [ppid : Pids \cup {Unknown}, name : Files \cup {Comm, Unknown}]]
    /\ \A p \in Pids : own[p].name # ""

RingOK == events \in Seq(Rec) /\ Len(events) <= RingCap

LoopOK == loop \in {"off", "due", "on", "over"}

StreamOK == RingOK /\ LoopOK /\ TreeOK /\ OwnOK

Is(e, p, type) == e.pid = p /\ e.type = type

About(evs, p, type) == {i \in DOMAIN evs : Is(evs[i], p, type)}

IsLast(evs, p, type, i) == i \in About(evs, p, type) /\ \A j \in About(evs, p, type) : j <= i

NameOf(e) == IF e.file = "" THEN Comm ELSE e.file

(***************************************************************************)
(* What p's records tell is either in the tree or in the last of them that *)
(* is still in the ring: the property of the tree, extended to unread      *)
(* records, for which it does not speak.                                   *)
(***************************************************************************)
ParentTold(p) ==
    own[p].ppid # Unknown =>
        /\ About(events, p, 4) = {} => tree[p].ppid = own[p].ppid
        /\ \A i : IsLast(events, p, 4, i) => events[i].ppid = own[p].ppid

NameTold(p) ==
    own[p].name # Unknown =>
        /\ About(events, p, 3) = {} => tree[p].comm = own[p].name
        /\ \A i : IsLast(events, p, 3, i) => NameOf(events[i]) = own[p].name

TaleInv == \A p \in Pids : ParentTold(p) /\ NameTold(p)

\* Before a pid is tracked there is nothing to tell.
QuietInv == loop = "off" => tracked_pids = {} /\ \A p \in Pids : own[p] = NoTale

\* What one record does to the tree.
LEMMA GrowFacts ==
    ASSUME TreeOK, NEW e \in Rec, NEW t, t = Grow(tree, e)
    PROVE  /\ t \in [Pids -> [there : BOOLEAN, ppid : Pids \cup {NoPid}, comm : Names]]
           /\ \A q \in Pids : ~t[q].there => t[q] = NoNode
           /\ \A q \in Pids \ {e.pid} : t[q].ppid = tree[q].ppid /\ t[q].comm = tree[q].comm
           /\ t[e.pid].ppid = (IF e.type = 4 THEN e.ppid ELSE tree[e.pid].ppid)
           /\ e.type = 3 => t[e.pid].comm = NameOf(e)
           /\ e.type # 3 /\ tree[e.pid].comm # "" => t[e.pid].comm = tree[e.pid].comm
<1> DEFINE Nodes == [there : BOOLEAN, ppid : Pids \cup {NoPid}, comm : Names]
           u == getOrCreateNode(tree, e.pid)
           node == [u[e.pid] EXCEPT !.ppid = IF e.type = 4 THEN e.ppid ELSE @,
                                    !.comm = IF e.type = 3 THEN e.file ELSE @]
           full == [node EXCEPT !.comm = IF @ = "" THEN Comm ELSE @]
           v == [u EXCEPT ![e.pid] = full]
<1>0. /\ e.type \in 1 .. 4 /\ e.pid \in Pids
      /\ e.type = 4 => e.ppid \in Pids
      /\ e.type = 3 => e.file \in Names
  BY DEF Rec, AnyRec, Names
<1>n. NoNode \in Nodes /\ [NoNode EXCEPT !.there = TRUE] \in Nodes
  BY DEF NoNode, Names
<1>1. /\ u \in [Pids -> Nodes]
      /\ u[e.pid].there
      /\ \A q \in Pids : u[q].ppid = tree[q].ppid /\ u[q].comm = tree[q].comm
      /\ \A q \in Pids : ~u[q].there => u[q] = NoNode
  BY <1>0, <1>n DEF TreeOK, getOrCreateNode, NoNode
<1> HIDE DEF u
<1>2. /\ node \in Nodes /\ node.there
      /\ node.ppid = (IF e.type = 4 THEN e.ppid ELSE u[e.pid].ppid)
      /\ node.comm = (IF e.type = 3 THEN e.file ELSE u[e.pid].comm)
  BY <1>0, <1>1
<1> HIDE DEF node
<1>3. /\ full \in Nodes /\ full.there /\ full.ppid = node.ppid
      /\ full.comm = (IF node.comm = "" THEN Comm ELSE node.comm)
  BY <1>2 DEF Names
<1> HIDE DEF full
<1>4. /\ v \in [Pids -> Nodes]
      /\ v[e.pid] = full
      /\ \A q \in Pids \ {e.pid} : v[q] = u[q]
  BY <1>0, <1>1, <1>3
<1> HIDE DEF v
<1>5. \A q \in Pids : ~v[q].there => v[q] = NoNode
  BY <1>1, <1>3, <1>4
<1>6. ASSUME NEW q \in Pids
      PROVE /\ getOrCreateNode(v, q) \in [Pids -> Nodes]
            /\ \A r \in Pids : /\ getOrCreateNode(v, q)[r].ppid = v[r].ppid
                               /\ getOrCreateNode(v, q)[r].comm = v[r].comm
            /\ \A r \in Pids : ~getOrCreateNode(v, q)[r].there => getOrCreateNode(v, q)[r] = NoNode
  BY <1>4, <1>5, <1>n DEF getOrCreateNode, NoNode
<1>7. t = IF e.type = 4 THEN getOrCreateNode(v, e.ppid) ELSE v
  BY DEF Grow, u, v, full, node
<1>8. /\ t \in [Pids -> Nodes]
      /\ \A r \in Pids : t[r].ppid = v[r].ppid /\ t[r].comm = v[r].comm
      /\ \A r \in Pids : ~t[r].there => t[r] = NoNode
  BY <1>0, <1>4, <1>5, <1>6, <1>7
<1>9. \A q \in Pids \ {e.pid} : t[q].ppid = tree[q].ppid /\ t[q].comm = tree[q].comm
  BY <1>1, <1>4, <1>8
<1>10. t[e.pid].ppid = (IF e.type = 4 THEN e.ppid ELSE tree[e.pid].ppid)
  BY <1>0, <1>1, <1>2, <1>3, <1>4, <1>8
<1>11. t[e.pid].comm = (IF node.comm = "" THEN Comm ELSE node.comm)
  BY <1>0, <1>3, <1>4, <1>8
<1>12. e.type = 3 => t[e.pid].comm = NameOf(e)
  BY <1>2, <1>11 DEF NameOf
<1>13. e.type # 3 /\ tree[e.pid].comm # "" => t[e.pid].comm = tree[e.pid].comm
  BY <1>0, <1>1, <1>2, <1>11
<1>14. QED
  BY <1>8, <1>9, <1>10, <1>12, <1>13

\* app is evs and one more record.
Longer(app, evs, e) ==
    /\ Len(evs) \in Nat /\ DOMAIN evs = 1 .. Len(evs)
    /\ DOMAIN app = 1 .. Len(evs) + 1
    /\ \A i \in 1 .. Len(evs) : app[i] = evs[i]
    /\ app[Len(evs) + 1] = e

\* The last record about p, with one more record in the ring: the new one...
LEMMA LastIsNew ==
    ASSUME NEW evs, NEW e, NEW p, NEW type, NEW app, Longer(app, evs, e),
           Is(e, p, type)
    PROVE  /\ About(app, p, type) # {}
           /\ \A i : IsLast(app, p, type, i) => app[i] = e
<1>1. /\ DOMAIN app = 1 .. Len(evs) + 1 /\ Len(evs) \in Nat
      /\ app[Len(evs) + 1] = e
  BY DEF Longer
<1>2. Len(evs) + 1 \in About(app, p, type)
  BY <1>1 DEF About
<1>3. ASSUME NEW i, IsLast(app, p, type, i) PROVE app[i] = e
  <2>1. i \in 1 .. Len(evs) + 1 /\ Len(evs) + 1 <= i
    BY <1>1, <1>2, <1>3 DEF IsLast, About
  <2>2. i = Len(evs) + 1
    BY <1>1, <2>1
  <2>3. QED
    BY <1>1, <2>2
<1>4. QED
  BY <1>2, <1>3

\* ...or the one it was...
LEMMA LastIsOld ==
    ASSUME NEW evs, NEW e, NEW p, NEW type, NEW app, Longer(app, evs, e),
           ~Is(e, p, type)
    PROVE  /\ About(app, p, type) = {} => About(evs, p, type) = {}
           /\ \A i : IsLast(app, p, type, i) => IsLast(evs, p, type, i) /\ app[i] = evs[i]
<1>1. /\ DOMAIN app = 1 .. Len(evs) + 1 /\ DOMAIN evs = 1 .. Len(evs) /\ Len(evs) \in Nat
      /\ \A i \in 1 .. Len(evs) : app[i] = evs[i]
      /\ app[Len(evs) + 1] = e
  BY DEF Longer
<1>2. About(app, p, type) = {} => About(evs, p, type) = {}
  BY <1>1 DEF About
<1>3. ASSUME NEW i, IsLast(app, p, type, i)
      PROVE IsLast(evs, p, type, i) /\ app[i] = evs[i]
  <2>1. i \in 1 .. Len(evs) + 1 /\ i # Len(evs) + 1
    BY <1>1, <1>3 DEF IsLast, About
  <2>2. i \in 1 .. Len(evs)
    BY <1>1, <2>1
  <2>3. QED
    BY <1>1, <1>3, <2>2 DEF IsLast, About
<1>4. QED
  BY <1>2, <1>3

\* ...and with the first one read.
LEMMA TailLast ==
    ASSUME NEW evs \in Seq(Rec), evs # <<>>, NEW p, NEW type
    PROVE  /\ Head(evs) = evs[1] /\ Head(evs) \in Rec
           /\ About(Tail(evs), p, type) = {} =>
                 \/ About(evs, p, type) = {}
                 \/ IsLast(evs, p, type, 1)
           /\ \A i : IsLast(Tail(evs), p, type, i) =>
                 IsLast(evs, p, type, i + 1) /\ Tail(evs)[i] = evs[i + 1]
<1> DEFINE rest == Tail(evs)
<1>1. /\ DOMAIN evs = 1 .. Len(evs) /\ Len(evs) \in Nat /\ Len(evs) >= 1
      /\ DOMAIN rest = 1 .. Len(evs) - 1
      /\ \A i \in 1 .. Len(evs) - 1 : rest[i] = evs[i + 1]
      /\ Head(evs) = evs[1] /\ evs[1] \in Rec
  OBVIOUS
<1> HIDE DEF rest
<1>2. ASSUME About(rest, p, type) = {}, NEW j \in About(evs, p, type) PROVE j = 1
  <2>1. j \in 1 .. Len(evs)
    BY <1>1 DEF About
  <2>2. CASE j # 1
    <3>1. j - 1 \in 1 .. Len(evs) - 1 /\ (j - 1) + 1 = j
      BY <1>1, <2>1, <2>2
    <3>2. rest[j - 1] = evs[j]
      BY <1>1, <3>1
    <3>3. j - 1 \in About(rest, p, type)
      BY <1>1, <3>1, <3>2 DEF About
    <3>4. QED
      BY <1>2, <3>3
  <2>3. QED
    BY <2>2
<1>3. ASSUME About(rest, p, type) = {}, About(evs, p, type) # {} PROVE IsLast(evs, p, type, 1)
  BY <1>2, <1>3 DEF IsLast
<1>4. ASSUME NEW i, IsLast(rest, p, type, i)
      PROVE IsLast(evs, p, type, i + 1) /\ rest[i] = evs[i + 1]
  <2>1. /\ i \in 1 .. Len(evs) - 1 /\ i + 1 \in 1 .. Len(evs)
        /\ rest[i] = evs[i + 1]
    BY <1>1, <1>4 DEF IsLast, About
  <2>2. i + 1 \in About(evs, p, type)
    BY <1>1, <1>4, <2>1 DEF IsLast, About
  <2>3. ASSUME NEW j \in About(evs, p, type) PROVE j <= i + 1
    <3>1. j \in 1 .. Len(evs)
      BY <1>1 DEF About
    <3>2. CASE j = 1
      BY <2>1, <3>2
    <3>3. CASE j # 1
      <4>1. j - 1 \in 1 .. Len(evs) - 1 /\ (j - 1) + 1 = j
        BY <1>1, <3>1, <3>3
      <4>2. rest[j - 1] = evs[j]
        BY <1>1, <4>1
      <4>3. j - 1 \in About(rest, p, type)
        BY <1>1, <4>1, <4>2 DEF About
      <4>4. j - 1 <= i
        BY <1>4, <4>3 DEF IsLast
      <4>5. QED
        BY <2>1, <3>1, <4>4
    <3>4. QED
      BY <3>2, <3>3
  <2>4. QED
    BY <2>1, <2>2, <2>3 DEF IsLast
<1>5. QED
  BY <1>1, <1>3, <1>4 DEF rest

\* A process may be forgotten at any time.
LEMMA TaleForgets ==
    ASSUME TaleInv, UNCHANGED <<events, tree>>,
           \A q \in Pids : own'[q].ppid \in {Unknown, own[q].ppid} /\ own'[q].name \in {Unknown, own[q].name}
    PROVE  TaleInv'
<1> SUFFICES ASSUME NEW q \in Pids PROVE ParentTold(q)' /\ NameTold(q)'
  BY DEF TaleInv
<1>1. ParentTold(q) /\ NameTold(q)
  BY DEF TaleInv
<1>2. QED
  BY <1>1 DEF ParentTold, NameTold

\* A new record: the last of its kind about its process, and own says the same.
LEMMA TaleAppends ==
    ASSUME TaleInv, NEW e,
           Longer(events', events, e), tree' = tree,
           \A q \in Pids :
             /\ own'[q].ppid # Unknown =>
                  own'[q].ppid = IF Is(e, q, 4) THEN e.ppid ELSE own[q].ppid
             /\ own'[q].name # Unknown =>
                  own'[q].name = IF Is(e, q, 3) THEN NameOf(e) ELSE own[q].name
    PROVE  TaleInv'
<1> SUFFICES ASSUME NEW q \in Pids PROVE ParentTold(q)' /\ NameTold(q)'
  BY DEF TaleInv
<1>1. ParentTold(q) /\ NameTold(q)
  BY DEF TaleInv
<1>2. ParentTold(q)'
  <2>1. CASE Is(e, q, 4)
    <3>1. /\ About(events', q, 4) # {}
          /\ \A i : IsLast(events', q, 4, i) => events'[i] = e
      BY <2>1, LastIsNew
    <3>2. QED
      BY <2>1, <3>1 DEF ParentTold
  <2>2. CASE ~Is(e, q, 4)
    <3>1. /\ About(events', q, 4) = {} => About(events, q, 4) = {}
          /\ \A i : IsLast(events', q, 4, i) => IsLast(events, q, 4, i) /\ events'[i] = events[i]
      BY <2>2, LastIsOld
    <3>2. QED
      BY <1>1, <2>2, <3>1 DEF ParentTold
  <2>3. QED
    BY <2>1, <2>2
<1>3. NameTold(q)'
  <2>1. CASE Is(e, q, 3)
    <3>1. /\ About(events', q, 3) # {}
          /\ \A i : IsLast(events', q, 3, i) => events'[i] = e
      BY <2>1, LastIsNew
    <3>2. QED
      BY <2>1, <3>1 DEF NameTold
  <2>2. CASE ~Is(e, q, 3)
    <3>1. /\ About(events', q, 3) = {} => About(events, q, 3) = {}
          /\ \A i : IsLast(events', q, 3, i) => IsLast(events, q, 3, i) /\ events'[i] = events[i]
      BY <2>2, LastIsOld
    <3>2. QED
      BY <1>1, <2>2, <3>1 DEF NameTold
  <2>3. QED
    BY <2>1, <2>2
<1>4. QED
  BY <1>2, <1>3

\* Reading a record moves what it says from the ring into the tree.
LEMMA TaleReads ==
    ASSUME TaleInv, StreamOK, ReadEvent
    PROVE  TaleInv'
<1> DEFINE e == Head(events)
<1>0. /\ events \in Seq(Rec) /\ events # <<>> /\ events' = Tail(events)
      /\ tree' = Grow(tree, e) /\ own' = own /\ TreeOK
  BY DEF StreamOK, RingOK, ReadEvent
<1>1. e = events[1] /\ e \in Rec
  BY <1>0, TailLast
<1>2. /\ \A q \in Pids \ {e.pid} : tree'[q].ppid = tree[q].ppid /\ tree'[q].comm = tree[q].comm
      /\ tree'[e.pid].ppid = (IF e.type = 4 THEN e.ppid ELSE tree[e.pid].ppid)
      /\ e.type = 3 => tree'[e.pid].comm = NameOf(e)
      /\ e.type # 3 /\ tree[e.pid].comm # "" => tree'[e.pid].comm = tree[e.pid].comm
  BY <1>0, <1>1, GrowFacts
<1> HIDE DEF e
<1> SUFFICES ASSUME NEW q \in Pids PROVE ParentTold(q)' /\ NameTold(q)'
  BY DEF TaleInv
<1>3. ParentTold(q) /\ NameTold(q)
  BY DEF TaleInv
<1>4. ParentTold(q)'
  <2> SUFFICES ASSUME own[q].ppid # Unknown
               PROVE /\ About(events', q, 4) = {} => tree'[q].ppid = own[q].ppid
                     /\ \A i : IsLast(events', q, 4, i) => events'[i].ppid = own[q].ppid
    BY <1>0 DEF ParentTold
  <2>1. /\ About(events, q, 4) = {} => tree[q].ppid = own[q].ppid
        /\ \A i : IsLast(events, q, 4, i) => events[i].ppid = own[q].ppid
    BY <1>3 DEF ParentTold
  <2>2. ASSUME NEW i, IsLast(events', q, 4, i) PROVE events'[i].ppid = own[q].ppid
    <3>1. IsLast(events, q, 4, i + 1) /\ events'[i] = events[i + 1]
      BY <1>0, <2>2, TailLast
    <3>2. QED
      BY <2>1, <3>1
  <2>3. ASSUME About(events', q, 4) = {} PROVE tree'[q].ppid = own[q].ppid
    <3>1. CASE IsLast(events, q, 4, 1)
      <4>1. e.pid = q /\ e.type = 4 /\ e.ppid = own[q].ppid
        BY <1>1, <2>1, <3>1 DEF IsLast, About, Is
      <4>2. QED
        BY <1>2, <4>1
    <3>2. CASE About(events, q, 4) = {}
      <4>1. 1 \in DOMAIN events
        BY <1>0
      <4>2. ~(e.pid = q /\ e.type = 4)
        BY <1>1, <3>2, <4>1 DEF About, Is
      <4>3. QED
        BY <1>2, <2>1, <3>2, <4>2
    <3>3. QED
      BY <1>0, <2>3, <3>1, <3>2, TailLast
  <2>4. QED
    BY <2>2, <2>3
<1>5. NameTold(q)'
  <2> SUFFICES ASSUME own[q].name # Unknown
               PROVE /\ About(events', q, 3) = {} => tree'[q].comm = own[q].name
                     /\ \A i : IsLast(events', q, 3, i) => NameOf(events'[i]) = own[q].name
    BY <1>0 DEF NameTold
  <2>1. /\ About(events, q, 3) = {} => tree[q].comm = own[q].name
        /\ \A i : IsLast(events, q, 3, i) => NameOf(events[i]) = own[q].name
        /\ own[q].name # ""
    BY <1>3 DEF NameTold, StreamOK, OwnOK
  <2>2. ASSUME NEW i, IsLast(events', q, 3, i) PROVE NameOf(events'[i]) = own[q].name
    <3>1. IsLast(events, q, 3, i + 1) /\ events'[i] = events[i + 1]
      BY <1>0, <2>2, TailLast
    <3>2. QED
      BY <2>1, <3>1
  <2>3. ASSUME About(events', q, 3) = {} PROVE tree'[q].comm = own[q].name
    <3>1. CASE IsLast(events, q, 3, 1)
      <4>1. e.pid = q /\ e.type = 3 /\ NameOf(e) = own[q].name
        BY <1>1, <2>1, <3>1 DEF IsLast, About, Is
      <4>2. QED
        BY <1>2, <4>1
    <3>2. CASE About(events, q, 3) = {}
      <4>1. 1 \in DOMAIN events
        BY <1>0
      <4>2. ~(e.pid = q /\ e.type = 3)
        BY <1>1, <3>2, <4>1 DEF About, Is
      <4>3. QED
        BY <1>2, <2>1, <3>2, <4>2
    <3>3. QED
      BY <1>0, <2>3, <3>1, <3>2, TailLast
  <2>4. QED
    BY <2>2, <2>3
<1>6. QED
  BY <1>4, <1>5

\* A record put into the ring, if there is room, keeps it a ring of records.
LEMMA SubmitKeepsRing ==
    ASSUME RingOK, NEW e \in Rec, Submit(e)
    PROVE  RingOK' /\ events' = IF HasRoom THEN Append(events, e) ELSE events
BY EventRingAssumption DEF RingOK, Submit, HasRoom

\* A step that leaves ring, loop, tree and own alone.
LEMMA StreamStutter ==
    ASSUME StreamOK, TaleInv, UNCHANGED streamVars
    PROVE  StreamOK' /\ TaleInv'
BY DEF streamVars, StreamOK, RingOK, LoopOK, TreeOK, OwnOK, TaleInv, ParentTold, NameTold

\* The name in a record is a name, or empty.
LEMMA NameIsRead == \A f \in Files \cup {Unreadable} : read_name(f) \in Files \cup {""}
BY DEF read_name

\* An openat or a connect: a record that neither tells a parent nor a name.
LEMMA PlainRecordKeeps ==
    ASSUME StreamOK, TaleInv, NEW e \in Rec, e.type \in {1, 2}, Submit(e),
           UNCHANGED <<loop, tree, own>>
    PROVE  StreamOK' /\ TaleInv'
<1>1. RingOK' /\ events' = IF HasRoom THEN Append(events, e) ELSE events
  BY SubmitKeepsRing DEF StreamOK
<1>2. StreamOK'
  BY <1>1 DEF StreamOK, LoopOK, TreeOK, OwnOK
<1>3. TaleInv'
  <2>1. CASE HasRoom
    <3>1. Longer(events', events, e)
      BY <1>1, <2>1 DEF Longer, StreamOK, RingOK
    <3>2. ~(e.type = 4) /\ ~(e.type = 3)
      OBVIOUS
    <3>3. QED
      BY <3>1, <3>2, TaleAppends DEF Is
  <2>2. CASE ~HasRoom
    BY <1>1, <2>2, TaleForgets
  <2>3. QED
    BY <2>1, <2>2
<1>4. QED
  BY <1>2, <1>3

\* A fork: the child is told of if the record gets into the ring.
LEMMA ForkKeeps ==
    ASSUME StreamOK, TaleInv, NEW p \in Pids, NEW c \in Pids, NEW newns, StreamFork(p, c, newns)
    PROVE  StreamOK' /\ TaleInv'
<1> DEFINE told == ForkSeen(p, c) /\ HasRoom
           e == ForkRecord(p, c)
<1>0. /\ own' = [own EXCEPT ![c] = IF told THEN [NoTale EXCEPT !.ppid = p] ELSE NoTale]
      /\ UNCHANGED <<loop, tree>>
  BY DEF StreamFork
<1>1. e \in Rec
  <2>1. Did(p, "", "", <<>>) \in Deeds
    BY DEF Did, Deeds
  <2>2. Uncleared \in Commands /\ 4 \in 1 .. 4
    BY DEF Commands
  <2>3. e \in AnyRec
    BY <2>1, <2>2, Zenon DEF ForkRecord, AnyRec
  <2>4. e.ppid \in Pids
    BY DEF ForkRecord
  <2>5. QED
    BY <2>3, <2>4 DEF Rec
<1>2. e.pid = c /\ e.type = 4 /\ e.ppid = p
  BY DEF ForkRecord
<1>3. RingOK' /\ events' = IF told THEN Append(events, e) ELSE events
  <2>1. CASE ForkSeen(p, c)
    BY <1>1, <2>1, SubmitKeepsRing DEF StreamFork, StreamOK
  <2>2. CASE ~ForkSeen(p, c)
    BY <2>2 DEF StreamFork, StreamOK, RingOK
  <2>3. QED
    BY <2>1, <2>2
<1> HIDE DEF e
<1>4. /\ \A q \in Pids \ {c} : own'[q] = own[q]
      /\ own'[c] = IF told THEN [ppid |-> p, name |-> Unknown] ELSE [ppid |-> Unknown, name |-> Unknown]
      /\ OwnOK'
  <2> DEFINE tale == IF told THEN [NoTale EXCEPT !.ppid = p] ELSE NoTale
  <2>1. /\ tale = IF told THEN [ppid |-> p, name |-> Unknown] ELSE [ppid |-> Unknown, name |-> Unknown]
        /\ tale \in [ppid : Pids \cup {Unknown}, name : Files \cup {Comm, Unknown}]
        /\ tale.name = Unknown /\ Unknown # ""
    BY DEF NoTale, Unknown
  <2>2. own' = [own EXCEPT ![c] = tale] /\ OwnOK
    BY <1>0 DEF StreamOK
  <2> HIDE DEF tale
  <2>3. own'[c] = tale /\ \A q \in Pids \ {c} : own'[q] = own[q]
    BY <2>2 DEF OwnOK
  <2>4. own' \in [Pids -> [ppid : Pids \cup {Unknown}, name : Files \cup {Comm, Unknown}]]
    BY <2>1, <2>2 DEF OwnOK
  <2>5. OwnOK'
    BY <2>1, <2>2, <2>3, <2>4 DEF OwnOK
  <2>6. QED
    BY <2>1, <2>3, <2>5
<1>5. StreamOK'
  BY <1>0, <1>3, <1>4 DEF StreamOK, LoopOK, TreeOK
<1>6. CASE told
  <2>1. Longer(events', events, e)
    BY <1>3, <1>6 DEF Longer, StreamOK, RingOK
  <2>2. own'[c].ppid = p /\ own'[c].name = Unknown
    BY <1>4, <1>6
  <2>3. \A q \in Pids :
          /\ own'[q].ppid # Unknown => own'[q].ppid = IF Is(e, q, 4) THEN e.ppid ELSE own[q].ppid
          /\ own'[q].name # Unknown => own'[q].name = IF Is(e, q, 3) THEN NameOf(e) ELSE own[q].name
    BY <1>2, <1>4, <2>2 DEF Is
  <2>4. QED
    BY <1>0, <1>5, <2>1, <2>3, TaleAppends
<1>7. CASE ~told
  <2>1. own'[c].ppid = Unknown /\ own'[c].name = Unknown
    BY <1>4, <1>7
  <2>2. QED
    BY <1>0, <1>3, <1>4, <1>5, <1>7, <2>1, TaleForgets
<1>8. QED
  BY <1>6, <1>7

\* An execve: the same for the name.
LEMMA ExecveKeeps ==
    ASSUME StreamOK, TaleInv, NEW p \in Pids, NEW f \in Files \cup {Unreadable}, NEW a \in Argvs,
           Execve(p, f, a)
    PROVE  StreamOK' /\ TaleInv'
<1> DEFINE e == ExecRecord(p, f, a)
<1>0. /\ own' = IF HasRoom THEN [own EXCEPT ![p].name = ShownName(f)] ELSE own
      /\ Submit(e) /\ UNCHANGED <<loop, tree>>
  BY DEF Execve
<1>1. e \in Rec
  <2>1. Did(NoPid, f, "", a) \in Deeds
    BY DEF Did, Deeds
  <2>2. stitch(a) \in Commands /\ 3 \in 1 .. 4
    BY DEF Commands
  <2>3. e \in AnyRec
    BY <2>1, <2>2, NameIsRead, Zenon DEF ExecRecord, AnyRec
  <2>4. e.type = 3
    BY DEF ExecRecord
  <2>5. QED
    BY <2>3, <2>4 DEF Rec
<1>2. e.pid = p /\ e.type = 3 /\ e.file = read_name(f)
  BY DEF ExecRecord
<1>3. RingOK' /\ events' = IF HasRoom THEN Append(events, e) ELSE events
  BY <1>0, <1>1, SubmitKeepsRing DEF StreamOK
<1> HIDE DEF e
<1>4. NameOf(e) = ShownName(f) /\ ShownName(f) \in Files \cup {Comm} /\ ShownName(f) # ""
  BY <1>2 DEF NameOf, ShownName, read_name, Comm
<1>5. CASE HasRoom
  <2>1. /\ \A q \in Pids \ {p} : own'[q] = own[q]
        /\ own'[p].ppid = own[p].ppid /\ own'[p].name = ShownName(f)
        /\ OwnOK'
    BY <1>0, <1>4, <1>5 DEF StreamOK, OwnOK
  <2>2. Longer(events', events, e)
    BY <1>3, <1>5 DEF Longer, StreamOK, RingOK
  <2>3. \A q \in Pids :
          /\ own'[q].ppid # Unknown => own'[q].ppid = IF Is(e, q, 4) THEN e.ppid ELSE own[q].ppid
          /\ own'[q].name # Unknown => own'[q].name = IF Is(e, q, 3) THEN NameOf(e) ELSE own[q].name
    <3>1. ASSUME NEW q \in Pids \ {p} PROVE own'[q] = own[q] /\ ~Is(e, q, 4) /\ ~Is(e, q, 3)
      BY <1>2, <2>1 DEF Is
    <3>2. ~Is(e, p, 4) /\ Is(e, p, 3)
      BY <1>2 DEF Is
    <3>3. QED
      BY <1>4, <2>1, <3>1, <3>2
  <2>4. TaleInv'
    BY <1>0, <2>2, <2>3, TaleAppends
  <2>5. QED
    BY <1>0, <1>3, <2>1, <2>4 DEF StreamOK, LoopOK, TreeOK
<1>6. CASE ~HasRoom
  <2>1. UNCHANGED streamVars
    BY <1>0, <1>3, <1>6 DEF streamVars
  <2>2. QED
    BY <2>1, StreamStutter
<1>7. QED
  BY <1>5, <1>6

\* A life begins or ends without a record, and the ghost forgets it.
LEMMA ForgetKeeps ==
    ASSUME StreamOK, TaleInv, NEW c \in Pids, own' = [own EXCEPT ![c] = NoTale],
           UNCHANGED <<events, loop, tree>>
    PROVE  StreamOK' /\ TaleInv'
<1>1. /\ \A q \in Pids \ {c} : own'[q] = own[q]
      /\ own'[c].ppid = Unknown /\ own'[c].name = Unknown
      /\ OwnOK'
  BY DEF StreamOK, OwnOK, NoTale, Unknown
<1>2. StreamOK'
  BY <1>1 DEF StreamOK, RingOK, LoopOK, TreeOK
<1>3. TaleInv'
  BY <1>1, TaleForgets
<1>4. QED
  BY <1>2, <1>3

\* One turn of the event loop.
LEMMA ReadKeeps ==
    ASSUME StreamOK, TaleInv, ReadEvent
    PROVE  StreamOK' /\ TaleInv'
<1>1. /\ events \in Seq(Rec) /\ events # <<>> /\ events' = Tail(events) /\ Len(events) <= RingCap
      /\ tree' = Grow(tree, Head(events)) /\ UNCHANGED <<own, loop>> /\ TreeOK
  BY DEF StreamOK, RingOK, ReadEvent
<1>2. Head(events) \in Rec /\ RingOK'
  BY <1>1, EventRingAssumption DEF RingOK
<1>3. TreeOK'
  BY <1>1, <1>2, GrowFacts DEF TreeOK
<1>4. StreamOK'
  BY <1>1, <1>2, <1>3 DEF StreamOK, LoopOK, OwnOK
<1>5. QED
  BY <1>4, TaleReads

\* The root of the tree is made when nothing has been told.
LEMMA TrackKeeps ==
    ASSUME StreamOK, QuietInv, NEW p \in Pids, StreamTrack(p)
    PROVE  StreamOK' /\ TaleInv'
<1> DEFINE t == getOrCreateNode(tree, p)
           Nodes == [there : BOOLEAN, ppid : Pids \cup {NoPid}, comm : Names]
<1>1. /\ UNCHANGED <<events, own>> /\ loop' = "due" /\ tree' = [t EXCEPT ![p].comm = Root]
      /\ \A q \in Pids : own[q] = NoTale
  BY DEF StreamTrack, QuietInv
<1>2. NoNode \in Nodes /\ [NoNode EXCEPT !.there = TRUE] \in Nodes
  BY DEF NoNode, Names
<1>3. t \in [Pids -> Nodes] /\ t[p].there /\ \A q \in Pids : ~t[q].there => t[q] = NoNode
  BY <1>2 DEF StreamOK, TreeOK, getOrCreateNode, NoNode
<1> HIDE DEF t
<1>4. /\ tree' \in [Pids -> Nodes]
      /\ tree'[p].there /\ \A q \in Pids \ {p} : tree'[q] = t[q]
  BY <1>1, <1>3 DEF Names
<1>5. TreeOK'
  BY <1>3, <1>4 DEF TreeOK
<1>6. StreamOK'
  BY <1>1, <1>5 DEF StreamOK, RingOK, LoopOK, OwnOK
<1>7. TaleInv'
  BY <1>1 DEF TaleInv, ParentTold, NameTold, NoTale
<1>8. QED
  BY <1>6, <1>7

\* Every step of the specification.
LEMMA EventStepKeepsTales ==
    ASSUME StreamOK, TaleInv, QuietInv, [EventNext]_eventVars
    PROVE  StreamOK' /\ TaleInv'
<1>1. CASE StreamAttach \/ StartLoop \/ ReadError
  <2>1. UNCHANGED <<events, tree, own>> /\ LoopOK'
    BY <1>1 DEF StreamAttach, StartLoop, ReadError, streamVars, StreamOK, LoopOK
  <2>2. QED
    BY <2>1 DEF StreamOK, RingOK, TreeOK, OwnOK, TaleInv, ParentTold, NameTold
<1>2. CASE StreamRelease
  <2>1. /\ events' = <<>> /\ loop' = "off" /\ tree' = [p \in Pids |-> NoNode]
        /\ own' = [p \in Pids |-> NoTale]
    BY <1>2 DEF StreamRelease
  <2>2. NoNode \in [there : BOOLEAN, ppid : Pids \cup {NoPid}, comm : Names]
    BY DEF NoNode, Names
  <2>3. RingOK'
    BY <2>1, EventRingAssumption DEF RingOK
  <2>4. TreeOK'
    BY <2>1, <2>2 DEF TreeOK
  <2>5. OwnOK'
    BY <2>1 DEF OwnOK, NoTale, Unknown
  <2>6. StreamOK'
    BY <2>1, <2>3, <2>4, <2>5 DEF StreamOK, LoopOK
  <2>7. TaleInv'
    BY <2>1 DEF TaleInv, ParentTold, NameTold, NoTale
  <2>8. QED
    BY <2>6, <2>7
<1>3. CASE \E p \in Pids : StreamTrack(p)
  BY <1>3, TrackKeeps
<1>4. CASE ProcessStep
  <2>1. ASSUME NEW c \in Pids, StreamSpawn(c) PROVE StreamOK' /\ TaleInv'
    BY <2>1, ForgetKeeps DEF StreamSpawn
  <2>2. ASSUME NEW p \in Pids, NEW c \in Pids, NEW newns \in BOOLEAN, StreamFork(p, c, newns)
        PROVE StreamOK' /\ TaleInv'
    BY <2>2, ForkKeeps
  <2>3. ASSUME NEW p \in Pids, NEW t \in Pids, StreamClone(p, t) \/ StreamExecNonLeader(p, t)
        PROVE StreamOK' /\ TaleInv'
    BY <2>3, StreamStutter DEF StreamClone, StreamExecNonLeader
  <2>4. ASSUME NEW p \in Pids, NEW t \in Pids, StreamExit(p, t) PROVE StreamOK' /\ TaleInv'
    <3>1. CASE threads[p] = {t}
      BY <2>4, <3>1, ForgetKeeps DEF StreamExit
    <3>2. CASE threads[p] # {t}
      BY <2>4, <3>2, StreamStutter DEF StreamExit, streamVars
    <3>3. QED
      BY <3>1, <3>2
  <2>5. ASSUME NEW p \in Pids, NEW f \in Files \cup {Unreadable}, Openat(p, f)
        PROVE StreamOK' /\ TaleInv'
    <3>1. OpenRecord(p, f) \in Rec
      <4>1. Did(NoPid, f, "", <<>>) \in Deeds
        BY DEF Did, Deeds
      <4>2. Uncleared \in Commands /\ 1 \in 1 .. 4
        BY DEF Commands
      <4>3. OpenRecord(p, f) \in AnyRec
        BY <4>1, <4>2, NameIsRead, Zenon DEF OpenRecord, AnyRec
      <4>4. OpenRecord(p, f).type # 4
        BY DEF OpenRecord
      <4>5. QED
        BY <4>3, <4>4 DEF Rec
    <3>2. OpenRecord(p, f).type = 1
      BY DEF OpenRecord
    <3>3. QED
      BY <2>5, <3>1, <3>2, PlainRecordKeeps DEF Openat
  <2>6. ASSUME NEW p \in Pids, NEW d \in Dests, ConnectCall(p, d) PROVE StreamOK' /\ TaleInv'
    <3>1. ConnectRecord(p, d) \in Rec
      <4>1. Did(NoPid, "", d, <<>>) \in Deeds
        BY DEF Did, Deeds
      <4>2. Uncleared \in Commands /\ 2 \in 1 .. 4
        BY DEF Commands
      <4>3. ConnectRecord(p, d) \in AnyRec
        BY <4>1, <4>2, Zenon DEF ConnectRecord, AnyRec
      <4>4. ConnectRecord(p, d).type # 4
        BY DEF ConnectRecord
      <4>5. QED
        BY <4>3, <4>4 DEF Rec
    <3>2. ConnectRecord(p, d).type = 2
      BY DEF ConnectRecord
    <3>3. QED
      BY <2>6, <3>1, <3>2, PlainRecordKeeps DEF ConnectCall
  <2>7. ASSUME NEW p \in Pids, NEW f \in Files \cup {Unreadable}, NEW a \in Argvs, Execve(p, f, a)
        PROVE StreamOK' /\ TaleInv'
    BY <2>7, ExecveKeeps
  <2>8. QED
    BY <1>4, <2>1, <2>2, <2>3, <2>4, <2>5, <2>6, <2>7 DEF ProcessStep
<1>5. CASE ReadEvent
  BY <1>5, ReadKeeps
<1>6. CASE ListAgents \/ ListStep
  BY <1>6, StreamStutter DEF ListAgents, ListStep, NextKey, LookupKey
<1>7. CASE UNCHANGED eventVars
  BY <1>7, StreamStutter DEF eventVars
<1>8. QED
  BY <1>1, <1>2, <1>3, <1>4, <1>5, <1>6, <1>7 DEF EventNext

\* Only the end of AgentGuard takes the loop back to its start.
LEMMA OffIsLeft ==
    ASSUME [EventNext]_eventVars, ~StreamRelease, loop' = "off"
    PROVE  loop = "off"
<1>1. ASSUME ProcessStep PROVE loop' = loop
  BY <1>1 DEF ProcessStep, StreamSpawn, StreamFork, StreamClone, StreamExit, StreamExecNonLeader,
              Openat, ConnectCall, Execve, streamVars
<1>2. CASE (\E p \in Pids : StreamTrack(p)) \/ StartLoop \/ ReadError
  BY <1>2 DEF StreamTrack, StartLoop, ReadError
<1>3. CASE StreamAttach \/ ReadEvent \/ ListAgents \/ ListStep \/ UNCHANGED eventVars
  BY <1>3 DEF StreamAttach, ReadEvent, ListAgents, ListStep, NextKey, LookupKey, streamVars, eventVars
<1>4. QED
  BY <1>1, <1>2, <1>3 DEF EventNext

\* Without a key no program gets as far as the ring, and none puts a key.
LEMMA EventStepKeepsQuiet ==
    ASSUME StreamOK, QuietInv, [EventNext]_eventVars
    PROVE  QuietInv'
<1>1. CASE StreamRelease
  BY <1>1 DEF StreamRelease, ReleasePrograms, QuietInv
<1> SUFFICES ASSUME ~StreamRelease, loop = "off", loop' = "off",
                    tracked_pids = {}, \A p \in Pids : own[p] = NoTale
             PROVE  tracked_pids' = {} /\ \A p \in Pids : own'[p] = NoTale
  BY <1>1, OffIsLeft DEF QuietInv
<1>2. CASE (\E p \in Pids : StreamTrack(p)) \/ StartLoop \/ ReadError
  BY <1>2 DEF StreamTrack, StartLoop, ReadError
<1>3. ASSUME NEW c \in Pids, own' = [own EXCEPT ![c] = NoTale]
      PROVE  \A p \in Pids : own'[p] = NoTale
  BY <1>3 DEF StreamOK, OwnOK
<1>4. CASE StreamAttach
  BY <1>4 DEF StreamAttach, AttachPrograms, streamVars
<1>5. ASSUME NEW c \in Pids, StreamSpawn(c)
      PROVE  tracked_pids' = {} /\ \A p \in Pids : own'[p] = NoTale
  BY <1>3, <1>5 DEF StreamSpawn, Spawn
<1>6. ASSUME NEW p \in Pids, NEW c \in Pids, NEW newns, StreamFork(p, c, newns)
      PROVE  tracked_pids' = {} /\ \A q \in Pids : own'[q] = NoTale
  <2>1. ~ForkSeen(p, c) /\ p \notin tracked_pids
    BY DEF ForkSeen
  <2>2. tracked_pids' = {}
    BY <1>6, <2>1 DEF StreamFork, Fork, handle_fork, ForkSeen
  <2>3. own' = [own EXCEPT ![c] = NoTale]
    BY <1>6, <2>1 DEF StreamFork
  <2>4. QED
    BY <1>3, <2>2, <2>3
<1>7. ASSUME NEW p \in Pids, NEW t \in Pids,
             StreamClone(p, t) \/ StreamExit(p, t) \/ StreamExecNonLeader(p, t)
      PROVE  tracked_pids' = {} /\ \A q \in Pids : own'[q] = NoTale
  <2>1. tracked_pids' = {}
    BY <1>7 DEF StreamClone, StreamExit, StreamExecNonLeader, CloneThread, ThreadExit, ExecNonLeader,
                handle_exit, handle_fork
  <2>2. own' = own \/ own' = [own EXCEPT ![p] = NoTale]
    BY <1>7 DEF StreamClone, StreamExit, StreamExecNonLeader, streamVars
  <2>3. QED
    BY <1>3, <2>1, <2>2
<1>8. ASSUME NEW p \in Pids, NEW f, NEW d, NEW a,
             Openat(p, f) \/ ConnectCall(p, d) \/ Execve(p, f, a)
      PROVE  FALSE
  BY <1>8 DEF Openat, ConnectCall, Execve, Enforced
<1>9. CASE ReadEvent \/ ListAgents \/ ListStep \/ UNCHANGED eventVars
  BY <1>9 DEF ReadEvent, ListAgents, ListStep, NextKey, LookupKey, eventVars, streamVars, trackingVars
<1>10. QED
  BY <1>2, <1>4, <1>5, <1>6, <1>7, <1>8, <1>9 DEF EventNext, ProcessStep

\* The initial state: nothing told, nothing shown.
LEMMA InitTales == EventInit => StreamOK /\ TaleInv
<1> SUFFICES ASSUME EventInit PROVE StreamOK /\ TaleInv
  OBVIOUS
<1>1. /\ events = <<>> /\ loop = "off" /\ tree = [p \in Pids |-> NoNode]
      /\ own = [p \in Pids |-> NoTale]
  BY DEF EventInit
<1>2. NoNode \in [there : BOOLEAN, ppid : Pids \cup {NoPid}, comm : Names]
  BY DEF NoNode, Names
<1>3. RingOK
  BY <1>1, EventRingAssumption DEF RingOK
<1>4. TreeOK
  BY <1>1, <1>2 DEF TreeOK
<1>5. OwnOK
  BY <1>1 DEF OwnOK, NoTale, Unknown
<1>6. TaleInv
  BY <1>1 DEF TaleInv, ParentTold, NameTold, NoTale
<1>7. QED
  BY <1>1, <1>3, <1>4, <1>5, <1>6 DEF StreamOK, LoopOK

\* The inductive invariant of ring, tree and ghost.
LEMMA TalesInvariant == EventSpec => [](StreamOK /\ TaleInv)
<1>1. StreamOK /\ TaleInv /\ QuietInv /\ [EventNext]_eventVars => (StreamOK /\ TaleInv)'
  BY EventStepKeepsTales
<1>2. StreamOK /\ QuietInv /\ [EventNext]_eventVars => QuietInv'
  BY EventStepKeepsQuiet
<1>3. EventInit => QuietInv
  BY DEF EventInit, Init, QuietInv
<1>4. QED
  BY <1>1, <1>2, <1>3, InitTales, PTL DEF EventSpec

\* The node of a process whose records have been read shows the parent and the name
\* that they told in this life of its id (main.go's loop, monitor.bpf.c's records).
THEOREM TreeIsRight == EventSpec => []TreeTellsOwnLife
<1>1. StreamOK /\ TaleInv => TreeTellsOwnLife
  <2> SUFFICES ASSUME TaleInv, NEW p \in Live, \A i \in DOMAIN events : events[i].pid # p
               PROVE /\ own[p].ppid # Unknown => tree[p].ppid = own[p].ppid
                     /\ own[p].name # Unknown => tree[p].comm = own[p].name
    BY DEF TreeTellsOwnLife
  <2>1. p \in Pids
    BY DEF Live
  <2>2. About(events, p, 4) = {} /\ About(events, p, 3) = {}
    BY DEF About, Is
  <2>3. QED
    BY <2>1, <2>2 DEF TaleInv, ParentTold, NameTold
<1>2. QED
  BY <1>1, TalesInvariant, PTL

\* Types of the event stream: the ring within its size, the walk within the map's.
THEOREM StreamTypes == EventSpec => []EventTypeOK
<1>1. TypeOK /\ IdsInv /\ StreamOK => EventTypeOK
  <2> SUFFICES ASSUME TypeOK, IdsInv, StreamOK PROVE EventTypeOK
    OBVIOUS
  <2>1. \A i \in DOMAIN events : events[i].type \in 1 .. 4 /\ events[i].pid \in Pids
    <3>1. \A i \in DOMAIN events : events[i] \in Rec
      BY DEF StreamOK, RingOK
    <3>2. \A e \in Rec : e.type \in 1 .. 4 /\ e.pid \in Pids
      BY DEF Rec, AnyRec
    <3>3. QED
      BY <3>1, <3>2
  <2>2. QED
    BY <2>1 DEF EventTypeOK, IdsInv, ItType, StreamOK, RingOK, LoopOK, TreeOK, OwnOK, Names
<1>2. QED
  BY <1>1, ListInvariant, TalesInvariant, PTL

-----------------------------------------------------------------------------
(* The command line                                                        *)

Space == " "

Printable == Chars \cup {Space}

Pointers == {Unreadable, Null} \cup Seq(Chars)

\* The field holds the line, and NULs behind it.
Holding(line) == [i \in Bytes |-> IF i < Len(line) THEN line[i + 1] ELSE NUL]

\* handle_execve's loop has put the line together and goes on at its end.
Spelt(line, ended) == [buf |-> Holding(line), offset |-> Len(line), ended |-> ended]

\* How much of a string is taken, and what it adds to the line.
Taken(s) == IF Len(s) < ArgSize THEN Len(s) ELSE ArgSize - 1

Piece(ended, ptr) ==
    IF ended \/ ptr = Null \/ ptr = Unreadable THEN <<>>
    ELSE SubSeq(ptr, 1, Taken(ptr)) \o <<Space>>

LEMMA SmallMod ==
    ASSUME NEW a \in Nat, NEW b \in Nat, a < b
    PROVE  a % b = a
OBVIOUS

\* A buffer of N bytes that holds the first L elements of a line; n characters of a
\* string copied to it from L on, with their NUL; A of its bytes cleared from L on.
Laid(N, L, line, nul) == [i \in 0 .. N - 1 |-> IF i < L THEN line[i + 1] ELSE nul]

Copied(N, L, n, ptr, nul, buf) ==
    [i \in 0 .. N - 1 |-> IF i \in L .. L + n - 1 THEN ptr[i - L + 1]
                          ELSE IF i = L + n THEN nul ELSE buf[i]]

Cleared(N, L, A, nul, buf) ==
    [i \in 0 .. N - 1 |-> IF i \in L .. L + A - 1 THEN nul ELSE buf[i]]

\* A string copied behind the line, and its NUL overwritten.
LEMMA PutBehind ==
    ASSUME NEW N \in Nat, NEW L \in Nat, NEW n \in Nat, L + n < N,
           NEW line, NEW longer, NEW ptr, NEW nul, NEW sp,
           \A j \in 1 .. L : longer[j] = line[j],
           \A j \in 1 .. n : longer[L + j] = ptr[j],
           longer[L + n + 1] = sp
    PROVE  [Copied(N, L, n, ptr, nul, Laid(N, L, line, nul)) EXCEPT ![L + n] = sp]
             = Laid(N, L + n + 1, longer, nul)
<1> DEFINE buf == [i \in 0 .. N - 1 |-> IF i < L THEN line[i + 1] ELSE nul]
           put == [i \in 0 .. N - 1 |-> IF i \in L .. L + n - 1 THEN ptr[i - L + 1]
                                        ELSE IF i = L + n THEN nul ELSE buf[i]]
<1>1. ASSUME NEW i \in 0 .. N - 1
      PROVE [put EXCEPT ![L + n] = sp][i] = IF i < L + n + 1 THEN longer[i + 1] ELSE nul
  <2>1. CASE i < L
    <3>1. i + 1 \in 1 .. L
      BY <2>1
    <3>2. QED
      BY <2>1, <3>1
  <2>2. CASE i \in L .. L + n - 1
    <3>1. i - L + 1 \in 1 .. n /\ L + (i - L + 1) = i + 1
      BY <2>2
    <3>2. longer[i + 1] = ptr[i - L + 1]
      BY <3>1
    <3>3. QED
      BY <2>2, <3>2
  <2>3. CASE i = L + n
    BY <2>3
  <2>4. CASE i > L + n
    BY <2>4
  <2>5. QED
    BY <2>1, <2>2, <2>3, <2>4
<1>2. [put EXCEPT ![L + n] = sp] = [i \in 0 .. N - 1 |-> IF i < L + n + 1 THEN longer[i + 1] ELSE nul]
  BY <1>1
<1>3. QED
  BY <1>2 DEF Laid, Copied

\* NULs put where there were NULs.
LEMMA ClearBehind ==
    ASSUME NEW N \in Nat, NEW L \in Nat, NEW A \in Nat, NEW line, NEW nul
    PROVE  Cleared(N, L, A, nul, Laid(N, L, line, nul)) = Laid(N, L, line, nul)
<1>1. \A i \in 0 .. N - 1 : i \in L .. L + A - 1 => Laid(N, L, line, nul)[i] = nul
  BY DEF Laid
<1>2. QED
  BY <1>1 DEF Cleared, Laid

\* The first n elements of a string and one thing more.
LEMMA WithSpace ==
    ASSUME NEW T, NEW s, NEW x \in T, NEW n \in Nat, \A i \in 1 .. n : s[i] \in T
    PROVE  /\ SubSeq(s, 1, n) \o <<x>> \in Seq(T)
           /\ Len(SubSeq(s, 1, n) \o <<x>>) = n + 1
           /\ \A i \in 1 .. n : (SubSeq(s, 1, n) \o <<x>>)[i] = s[i]
           /\ (SubSeq(s, 1, n) \o <<x>>)[n + 1] = x
<1> DEFINE cut == SubSeq(s, 1, n)
<1>1. cut \in Seq(T) /\ Len(cut) = n /\ \A i \in 1 .. n : cut[i] = s[i]
  BY SubSeqProperties
<1> HIDE DEF cut
<1>2. Append(cut, x) = cut \o <<x>>
  BY <1>1, AppendIsConcat
<1>3. /\ Append(cut, x) \in Seq(T) /\ Len(Append(cut, x)) = n + 1
      /\ \A i \in 1 .. n : Append(cut, x)[i] = cut[i]
      /\ Append(cut, x)[n + 1] = x
  BY <1>1, AppendProperties
<1>4. QED
  BY <1>1, <1>2, <1>3 DEF cut

\* Two sequences in a row, by their elements.
LEMMA TwoParts ==
    ASSUME NEW S, NEW line \in Seq(S), NEW piece \in Seq(S), NEW n \in Nat, Len(piece) = n + 1
    PROVE  /\ line \o piece \in Seq(S)
           /\ Len(line \o piece) = Len(line) + n + 1
           /\ \A i \in 1 .. Len(line) : (line \o piece)[i] = line[i]
           /\ \A i \in 1 .. n + 1 : (line \o piece)[Len(line) + i] = piece[i]
<1>1. Len(line) \in Nat
  OBVIOUS
<1>2. /\ line \o piece \in Seq(S)
      /\ Len(line \o piece) = Len(line) + Len(piece)
      /\ \A i \in 1 .. Len(line) + Len(piece) : (line \o piece)[i] =
                     IF i <= Len(line) THEN line[i] ELSE piece[i - Len(line)]
  BY ConcatProperties
<1>3. \A i \in 1 .. Len(line) : (line \o piece)[i] = line[i]
  BY <1>1, <1>2
<1>4. ASSUME NEW i \in 1 .. n + 1 PROVE (line \o piece)[Len(line) + i] = piece[i]
  <2>1. Len(line) + i \in 1 .. Len(line) + Len(piece) /\ ~(Len(line) + i <= Len(line))
        /\ (Len(line) + i) - Len(line) = i
    BY <1>1
  <2>2. QED
    BY <1>2, <2>1
<1>5. Len(line \o piece) = Len(line) + n + 1
  BY <1>1, <1>2
<1>6. QED
  BY <1>2, <1>3, <1>4, <1>5

\* There is room for one argument more behind the line.
Short(line) == Len(line) <= 2 * ArgSize

\* The sizes, as the steps below need them.
LEMMA Sizes ==
    /\ ArgSize \in Nat /\ LastStart \in Nat /\ CommandSize \in Nat
    /\ 1 <= ArgSize /\ CommandSize = LastStart + ArgSize /\ 2 * ArgSize <= LastStart
BY CommandAssumption

\* What a string adds: its first characters and a space, ArgSize bytes at most.
LEMMA PieceOfString ==
    ASSUME NEW ptr \in Seq(Chars), ptr # Null, ptr # Unreadable
    PROVE  /\ Taken(ptr) \in Nat /\ Taken(ptr) < ArgSize /\ Taken(ptr) <= Len(ptr)
           /\ Piece(FALSE, ptr) \in Seq(Printable)
           /\ Len(Piece(FALSE, ptr)) = Taken(ptr) + 1
           /\ \A i \in 1 .. Taken(ptr) : Piece(FALSE, ptr)[i] = ptr[i]
           /\ Piece(FALSE, ptr)[Taken(ptr) + 1] = Space
<1>1. Taken(ptr) \in Nat /\ Taken(ptr) < ArgSize /\ Taken(ptr) <= Len(ptr)
  BY Sizes DEF Taken
<1>2. Piece(FALSE, ptr) = SubSeq(ptr, 1, Taken(ptr)) \o <<Space>>
  BY DEF Piece
<1>3. Space \in Printable /\ \A i \in 1 .. Taken(ptr) : ptr[i] \in Printable
  BY <1>1 DEF Printable
<1> DEFINE piece == SubSeq(ptr, 1, Taken(ptr)) \o <<Space>>
<1>4. /\ piece \in Seq(Printable)
      /\ Len(piece) = Taken(ptr) + 1
      /\ \A i \in 1 .. Taken(ptr) : piece[i] = ptr[i]
      /\ piece[Taken(ptr) + 1] = Space
  BY <1>1, <1>3, WithSpace
<1>5. QED
  BY <1>1, <1>2, <1>4, Zenon

\* The line grows by ArgSize at most, whatever the pointer is.
LEMMA PieceIsShort ==
    ASSUME NEW ended \in BOOLEAN, NEW ptr \in Pointers
    PROVE  Piece(ended, ptr) \in Seq(Printable) /\ Len(Piece(ended, ptr)) <= ArgSize
<1>1. CASE ended \/ ptr = Null \/ ptr = Unreadable
  <2>1. Piece(ended, ptr) = <<>>
    BY <1>1 DEF Piece
  <2>2. <<>> \in Seq(Printable) /\ Len(<<>>) = 0
    OBVIOUS
  <2>3. 0 <= ArgSize
    BY Sizes
  <2>4. QED
    BY <2>1, <2>2, <2>3, Zenon
<1>2. CASE ~ended /\ ptr # Null /\ ptr # Unreadable
  <2>1. ptr \in Seq(Chars) /\ ended = FALSE
    BY <1>2 DEF Pointers
  <2>2. /\ Taken(ptr) \in Nat /\ Taken(ptr) < ArgSize
        /\ Piece(ended, ptr) \in Seq(Printable)
        /\ Len(Piece(ended, ptr)) = Taken(ptr) + 1
    BY <1>2, <2>1, PieceOfString
  <2>3. QED
    BY <2>2, Sizes
<1>3. QED
  BY <1>1, <1>2

\* A turn that finds Null, or comes after one that did, changes nothing.
LEMMA TurnPastTheEnd ==
    ASSUME NEW line \in Seq(Printable), NEW ended \in BOOLEAN, NEW ptr, ended \/ ptr = Null
    PROVE  stitch_arg(Spelt(line, ended), ptr) = Spelt(line \o Piece(ended, ptr), TRUE)
<1>1. stitch_arg(Spelt(line, ended), ptr) = [Spelt(line, ended) EXCEPT !.ended = TRUE]
  BY DEF stitch_arg, Spelt
<1>2. Piece(ended, ptr) = <<>>
  BY DEF Piece
<1>3. line \o Piece(ended, ptr) = line
  BY <1>2, ConcatEmptySeq
<1>4. QED
  BY <1>1, <1>3 DEF Spelt

\* What the turn starts from: the mask on the offset does nothing.
LEMMA TurnStarts ==
    ASSUME NEW line \in Seq(Printable), Short(line)
    PROVE  /\ Len(line) \in Nat
           /\ Len(line) % CommandSize = Len(line)
           /\ ~(Len(line) > LastStart)
           /\ Len(line) + ArgSize <= CommandSize
<1>1. Len(line) \in Nat
  OBVIOUS
<1>2. Len(line) < CommandSize /\ ~(Len(line) > LastStart) /\ Len(line) + ArgSize <= CommandSize
  BY <1>1, Sizes DEF Short
<1>3. QED
  BY <1>1, <1>2, Sizes, SmallMod

\* A pointer that cannot be read leaves NULs where there were NULs.
LEMMA TurnUnreadable ==
    ASSUME NEW line \in Seq(Printable), Short(line), Unreadable # Null
    PROVE  stitch_arg(Spelt(line, FALSE), Unreadable) = Spelt(line \o Piece(FALSE, Unreadable), FALSE)
<1> DEFINE at == Len(line)
           read == read_arg(Holding(line), at, Unreadable)
<1>1. at \in Nat /\ at % CommandSize = at /\ ~(at > LastStart) /\ at + ArgSize <= CommandSize
  BY TurnStarts
<1>2. /\ read.len = 0
      /\ read.buf = [i \in DOMAIN Holding(line) |->
                        IF i \in at .. at + ArgSize - 1 THEN NUL ELSE Holding(line)[i]]
  BY DEF read_arg
<1>3. read.buf = Holding(line)
  <2>1. Holding(line) = Laid(CommandSize, at, line, NUL) /\ DOMAIN Holding(line) = 0 .. CommandSize - 1
    BY DEF Holding, Bytes, Laid
  <2>2. read.buf = Cleared(CommandSize, at, ArgSize, NUL, Holding(line))
    BY <1>2, <2>1 DEF Cleared
  <2> HIDE DEF at, read
  <2>3. QED
    BY <1>1, <2>1, <2>2, Sizes, ClearBehind
<1>4. stitch_arg(Spelt(line, FALSE), Unreadable) = [Spelt(line, FALSE) EXCEPT !.buf = read.buf]
  BY <1>1, <1>2 DEF stitch_arg, Spelt
<1>5. Piece(FALSE, Unreadable) = <<>>
  BY DEF Piece
<1>6. line \o Piece(FALSE, Unreadable) = line
  BY <1>5, ConcatEmptySeq
<1>7. QED
  BY <1>3, <1>4, <1>6 DEF Spelt

\* A string comes to the end of the line, cut, with the space where its NUL was.
LEMMA TurnString ==
    ASSUME NEW line \in Seq(Printable), Short(line),
           NEW ptr \in Seq(Chars), ptr # Null, ptr # Unreadable
    PROVE  stitch_arg(Spelt(line, FALSE), ptr) = Spelt(line \o Piece(FALSE, ptr), FALSE)
<1> DEFINE at == Len(line)
           n == Taken(ptr)
           read == read_arg(Holding(line), at, ptr)
           piece == Piece(FALSE, ptr)
           longer == line \o piece
<1>1. at \in Nat /\ at % CommandSize = at /\ ~(at > LastStart) /\ at + ArgSize <= CommandSize
  BY TurnStarts
<1>2. n \in Nat /\ n < ArgSize
  BY PieceOfString
<1>p. piece \in Seq(Printable) /\ Len(piece) = n + 1
  BY PieceOfString
<1>e. (\A i \in 1 .. n : piece[i] = ptr[i]) /\ piece[n + 1] = Space
  BY PieceOfString
<1>3. read.len = n + 1
  BY DEF read_arg, Taken
<1>b. read.buf = [i \in DOMAIN Holding(line) |->
                       IF i \in at .. at + n - 1 THEN ptr[i - at + 1]
                       ELSE IF i = at + n THEN NUL ELSE Holding(line)[i]]
  BY DEF read_arg, Taken
<1>4. stitch_arg(Spelt(line, FALSE), ptr)
        = LET space == (at + read.len - 1) % CommandSize
          IN IF read.len = 0 THEN [Spelt(line, FALSE) EXCEPT !.buf = read.buf]
             ELSE [Spelt(line, FALSE) EXCEPT !.buf = [read.buf EXCEPT ![space] = Space], !.offset = space + 1]
  BY <1>1 DEF stitch_arg, Spelt, Space
<1> HIDE DEF at, n, read, piece, longer
<1>5. at + n \in Nat /\ at + n < CommandSize
  BY <1>1, <1>2, Sizes
<1>6. at + read.len - 1 = at + n /\ read.len # 0
  BY <1>1, <1>2, <1>3
<1>7. (at + read.len - 1) % CommandSize = at + n
  BY <1>5, <1>6, Sizes, SmallMod
<1>8. stitch_arg(Spelt(line, FALSE), ptr)
        = [buf |-> [read.buf EXCEPT ![at + n] = Space], offset |-> at + n + 1, ended |-> FALSE]
  BY <1>4, <1>6, <1>7 DEF Spelt
<1>9. /\ longer \in Seq(Printable) /\ Len(longer) = at + n + 1
      /\ \A i \in 1 .. at : longer[i] = line[i]
      /\ \A i \in 1 .. n + 1 : longer[at + i] = piece[i]
  BY <1>2, <1>p, TwoParts DEF longer, at
<1>10. /\ \A i \in 1 .. n : longer[at + i] = ptr[i]
       /\ longer[at + n + 1] = Space
  <2>1. \A i \in 1 .. n : i \in 1 .. n + 1
    BY <1>2
  <2>2. n + 1 \in 1 .. n + 1 /\ at + (n + 1) = at + n + 1
    BY <1>1, <1>2
  <2>3. QED
    BY <1>e, <1>9, <2>1, <2>2
<1>11. /\ Holding(line) = Laid(CommandSize, at, line, NUL)
       /\ DOMAIN Holding(line) = 0 .. CommandSize - 1
       /\ Holding(longer) = Laid(CommandSize, at + n + 1, longer, NUL)
  BY <1>9 DEF Holding, Bytes, Laid, at
<1>12. [read.buf EXCEPT ![at + n] = Space] = Holding(longer)
  <2>1. read.buf = Copied(CommandSize, at, n, ptr, NUL, Holding(line))
    BY <1>b, <1>11, Zenon DEF Copied
  <2>2. [Copied(CommandSize, at, n, ptr, NUL, Laid(CommandSize, at, line, NUL)) EXCEPT ![at + n] = Space]
          = Laid(CommandSize, at + n + 1, longer, NUL)
    <3>1. at \in Nat /\ n \in Nat /\ CommandSize \in Nat /\ at + n < CommandSize
      BY <1>1, <1>2, <1>5, Sizes
    <3>2. \A i \in 1 .. at : longer[i] = line[i]
      BY <1>9
    <3>3. QED
      BY <3>1, <3>2, <1>10, PutBehind
  <2>3. QED
    BY <1>11, <2>1, <2>2, Zenon
<1>13. QED
  BY <1>8, <1>9, <1>12 DEF Spelt, longer, piece

(***************************************************************************)
(* One turn of the loop, started with room for an argument: the line grows *)
(* by what the argument shows, and the loop is over at Null.               *)
(***************************************************************************)
LEMMA TurnSpells ==
    ASSUME NEW line \in Seq(Printable), Short(line),
           NEW ended \in BOOLEAN, NEW ptr \in Pointers
    PROVE  /\ stitch_arg(Spelt(line, ended), ptr)
                = Spelt(line \o Piece(ended, ptr), ended \/ ptr = Null)
           /\ line \o Piece(ended, ptr) \in Seq(Printable)
           /\ Len(line \o Piece(ended, ptr)) <= Len(line) + ArgSize
<1>1. /\ Piece(ended, ptr) \in Seq(Printable) /\ Len(Piece(ended, ptr)) <= ArgSize
      /\ Len(Piece(ended, ptr)) \in Nat /\ Len(line) \in Nat
  BY PieceIsShort
<1>2. /\ line \o Piece(ended, ptr) \in Seq(Printable)
      /\ Len(line \o Piece(ended, ptr)) = Len(line) + Len(Piece(ended, ptr))
  BY <1>1, ConcatProperties
<1>3. Len(line \o Piece(ended, ptr)) <= Len(line) + ArgSize
  BY <1>1, <1>2, Sizes
<1>4. stitch_arg(Spelt(line, ended), ptr) = Spelt(line \o Piece(ended, ptr), ended \/ ptr = Null)
  <2>1. CASE ended \/ ptr = Null
    BY <2>1, TurnPastTheEnd
  <2>2. CASE ended = FALSE /\ ptr # Null /\ ptr = Unreadable
    BY <2>2, TurnUnreadable
  <2>3. CASE ended = FALSE /\ ptr # Null /\ ptr # Unreadable
    <3>1. ptr \in Seq(Chars)
      BY <2>3 DEF Pointers
    <3>2. QED
      BY <2>3, <3>1, TurnString
  <2>4. QED
    BY <2>1, <2>2, <2>3
<1>5. QED
  BY <1>2, <1>3, <1>4

\* f[i] is what the loop over argv[0..2] holds after i turns.
IsStitching(f, argv) ==
    f = [i \in 0 .. 3 |-> IF i = 0 THEN [buf |-> ClearCommand, offset |-> 0, ended |-> FALSE]
                          ELSE stitch_arg(f[i - 1], Arg(argv, i))]

\* The three turns one after the other.
LEMMA ThreeTurns ==
    ASSUME NEW argv, NEW a0, a0 = [buf |-> ClearCommand, offset |-> 0, ended |-> FALSE],
           NEW a1, a1 = stitch_arg(a0, Arg(argv, 1)),
           NEW a2, a2 = stitch_arg(a1, Arg(argv, 2)),
           NEW a3, a3 = stitch_arg(a2, Arg(argv, 3))
    PROVE  stitch(argv) = a3.buf
<1> DEFINE f == [i \in 0 .. 3 |-> IF i = 0 THEN a0 ELSE IF i = 1 THEN a1 ELSE IF i = 2 THEN a2 ELSE a3]
           g == CHOOSE h : IsStitching(h, argv)
<1>1. IsStitching(f, argv)
  <2>1. f[0] = a0 /\ f[1] = a1 /\ f[2] = a2 /\ f[3] = a3
    OBVIOUS
  <2>2. ASSUME NEW i \in 0 .. 3
        PROVE  f[i] = IF i = 0 THEN a0 ELSE stitch_arg(f[i - 1], Arg(argv, i))
    <3>1. i = 0 \/ i = 1 \/ i = 2 \/ i = 3
      OBVIOUS
    <3>2. 1 - 1 = 0 /\ 2 - 1 = 1 /\ 3 - 1 = 2
      OBVIOUS
    <3> HIDE DEF f
    <3>3. QED
      BY <2>1, <3>1, <3>2
  <2>3. f = [i \in 0 .. 3 |-> IF i = 0 THEN a0 ELSE stitch_arg(f[i - 1], Arg(argv, i))]
    BY <2>2
  <2>4. QED
    BY <2>3 DEF IsStitching
<1>2. IsStitching(g, argv)
  BY <1>1
<1>3. stitch(argv) = g[3].buf
  BY DEF stitch, IsStitching
<1> HIDE DEF g
<1>4. \A i \in 0 .. 3 : g[i] = IF i = 0 THEN a0 ELSE stitch_arg(g[i - 1], Arg(argv, i))
  BY <1>2 DEF IsStitching
<1>5. g[0] = a0
  BY <1>4
<1>6. g[1] = a1
  BY <1>4, <1>5
<1>7. g[2] = a2
  BY <1>4, <1>6
<1>8. g[3] = a3
  BY <1>4, <1>7
<1>9. QED
  BY <1>3, <1>8

\* handle_execve fills the command field with the line that a reader expects.
LEMMA StitchSpells ==
    ASSUME NEW argv \in Argvs
    PROVE  /\ stitch(argv) = Holding(CommandLine(argv))
           /\ CommandLine(argv) \in Seq(Printable)
           /\ Len(CommandLine(argv)) <= CommandSize
<1> DEFINE p1 == Arg(argv, 1)
           p2 == Arg(argv, 2)
           p3 == Arg(argv, 3)
           e1 == (p1 = Null)
           e2 == (e1 \/ p2 = Null)
           e3 == (e2 \/ p3 = Null)
           l1 == Shown(argv, 1)
           l2 == l1 \o Shown(argv, 2)
           l3 == l2 \o Shown(argv, 3)
<1>1. p1 \in Pointers /\ p2 \in Pointers /\ p3 \in Pointers
  <2>1. argv \in Seq(Pointers)
    BY ArgvsAssumption DEF Pointers
  <2>2. \A i \in DOMAIN argv : argv[i] \in Pointers
    BY <2>1
  <2>3. Null \in Pointers
    BY DEF Pointers
  <2>4. QED
    BY <2>2, <2>3 DEF Arg
<1>2. /\ Shown(argv, 1) = Piece(FALSE, p1)
      /\ Shown(argv, 2) = Piece(e1, p2)
      /\ Shown(argv, 3) = Piece(e2, p3)
  <2>0. 1 .. 1 = {1} /\ 1 .. 2 = {1, 2} /\ 1 .. 3 = {1, 2, 3}
    OBVIOUS
  <2>1. (\E j \in 1 .. 1 : Arg(argv, j) = Null) <=> p1 = Null
    BY <2>0, Zenon
  <2>2. (\E j \in 1 .. 2 : Arg(argv, j) = Null) <=> p1 = Null \/ p2 = Null
    BY <2>0, Zenon
  <2>3. (\E j \in 1 .. 3 : Arg(argv, j) = Null) <=> p1 = Null \/ p2 = Null \/ p3 = Null
    BY <2>0, Zenon
  <2>4. Shown(argv, 1) = Piece(FALSE, p1)
    BY <2>1, Zenon DEF Shown, Piece, Taken, Space
  <2>5. Shown(argv, 2) = Piece(e1, p2)
    BY <2>2, Zenon DEF Shown, Piece, Taken, Space
  <2>6. Shown(argv, 3) = Piece(e2, p3)
    BY <2>3, Zenon DEF Shown, Piece, Taken, Space
  <2>7. QED
    BY <2>4, <2>5, <2>6
<1> HIDE DEF p1, p2, p3
<1>3. <<>> \in Seq(Printable) /\ Short(<<>>) /\ Len(<<>>) = 0
  BY Sizes DEF Short
<1>4. [buf |-> ClearCommand, offset |-> 0, ended |-> FALSE] = Spelt(<<>>, FALSE)
  <2>1. Holding(<<>>) = ClearCommand
    BY DEF Holding, ClearCommand, Bytes
  <2>2. QED
    BY <1>3, <2>1 DEF Spelt
<1>5. /\ stitch_arg(Spelt(<<>>, FALSE), p1) = Spelt(l1, e1)
      /\ l1 \in Seq(Printable)
      /\ Len(l1) <= ArgSize
  <2>1. /\ Piece(FALSE, p1) \in Seq(Printable)
        /\ <<>> \o Piece(FALSE, p1) = l1
    BY <1>1, <1>2, PieceIsShort, ConcatEmptySeq
  <2>2. /\ stitch_arg(Spelt(<<>>, FALSE), p1) = Spelt(<<>> \o Piece(FALSE, p1), FALSE \/ p1 = Null)
        /\ Len(<<>> \o Piece(FALSE, p1)) <= Len(<<>>) + ArgSize
    BY <1>1, <1>3, TurnSpells
  <2>3. Len(<<>>) + ArgSize = ArgSize
    BY <1>3, Sizes
  <2>4. (FALSE \/ p1 = Null) = e1
    OBVIOUS
  <2>5. QED
    BY <1>2, <2>1, <2>2, <2>3, <2>4
<1> HIDE DEF l1, e1
<1>6. e1 \in BOOLEAN /\ Len(l1) \in Nat
  BY <1>5 DEF e1
<1>7. Short(l1)
  BY <1>5, <1>6, Sizes DEF Short
<1>8. /\ stitch_arg(Spelt(l1, e1), p2) = Spelt(l2, e2)
      /\ l2 \in Seq(Printable)
      /\ Len(l2) <= Len(l1) + ArgSize
  BY <1>1, <1>2, <1>5, <1>6, <1>7, TurnSpells
<1> HIDE DEF l2, e2
<1>9. e2 \in BOOLEAN /\ Len(l2) \in Nat
  BY <1>8 DEF e2
<1>10. Short(l2)
  BY <1>5, <1>6, <1>8, <1>9, Sizes DEF Short
<1>11. /\ stitch_arg(Spelt(l2, e2), p3) = Spelt(l3, e3)
       /\ l3 \in Seq(Printable)
       /\ Len(l3) <= Len(l2) + ArgSize
  BY <1>1, <1>2, <1>8, <1>9, <1>10, TurnSpells
<1>12. CommandLine(argv) = l3
  BY DEF CommandLine, l2, l1
<1> HIDE DEF l3, e3
<1>13. Len(l3) <= CommandSize
  <2>1. Len(l3) \in Nat
    BY <1>11
  <2>2. QED
    BY <2>1, <1>5, <1>6, <1>8, <1>9, <1>11, Sizes
<1>14. stitch(argv) = Spelt(l3, e3).buf
  BY <1>4, <1>5, <1>8, <1>11, ThreeTurns DEF p1, p2, p3
<1>15. QED
  BY <1>11, <1>12, <1>13, <1>14 DEF Spelt

\* What the field was filled with is what parseCString finds in it: the line has no NUL,
\* and there is one behind it unless it fills the field.
LEMMA ParsedAsSpelt ==
    ASSUME NEW line \in Seq(Printable), NEW L \in Nat, L = Len(line), L <= CommandSize
    PROVE  parseCommand(Holding(line)) = line
<1> DEFINE buf == Holding(line)
           ends == {i \in DOMAIN buf : buf[i] = NUL}
           first == CHOOSE i \in ends : \A j \in ends : i <= j
           n == IF ends = {} THEN CommandSize ELSE first
<1>1. buf = Laid(CommandSize, L, line, NUL) /\ DOMAIN buf = 0 .. CommandSize - 1
  BY DEF Holding, Bytes, Laid
<1>2. \A i \in 0 .. CommandSize - 1 : buf[i] = IF i < L THEN line[i + 1] ELSE NUL
  BY <1>1 DEF Laid
<1>3. NUL \notin Printable
  BY ArgvsAssumption DEF Printable, Space, NUL
<1>4. \A j \in 1 .. L : line[j] # NUL
  BY <1>3
<1> HIDE DEF buf
<1>5. ASSUME NEW i \in 0 .. CommandSize - 1 PROVE buf[i] = NUL <=> L <= i
  <2>1. i \in Nat
    BY Sizes
  <2>2. CASE i < L
    <3>1. i + 1 \in 1 .. L /\ ~(L <= i)
      BY <2>1, <2>2
    <3>2. QED
      BY <1>2, <1>4, <2>2, <3>1
  <2>3. CASE ~(i < L)
    BY <1>2, <2>1, <2>3
  <2>4. QED
    BY <2>2, <2>3
<1>6. ends = {i \in 0 .. CommandSize - 1 : L <= i}
  BY <1>1, <1>5
<1> HIDE DEF ends
<1>7. n = L
  <2>1. CASE L = CommandSize
    <3>1. ends = {}
      BY <1>6, <2>1, Sizes
    <3>2. QED
      BY <2>1, <3>1
  <2>2. CASE L # CommandSize
    <3>1. L \in ends /\ \A j \in ends : j \in Nat /\ L <= j
      BY <1>6, <2>2, Sizes
    <3>2. first \in ends /\ \A j \in ends : first <= j
      BY <3>1
    <3> HIDE DEF first
    <3>3. first = L
      BY <3>1, <3>2
    <3>4. QED
      BY <3>1, <3>3
  <2>3. QED
    BY <2>1, <2>2
<1>8. parseCommand(buf) = [i \in 1 .. n |-> buf[i - 1]]
  BY DEF parseCommand, ends
<1> HIDE DEF n
<1>9. ASSUME NEW i \in 1 .. L PROVE buf[i - 1] = line[i]
  <2>1. i - 1 \in 0 .. CommandSize - 1 /\ i - 1 < L /\ (i - 1) + 1 = i
    BY Sizes
  <2>2. QED
    BY <1>2, <2>1
<1>10. [i \in 1 .. L |-> buf[i - 1]] = [i \in 1 .. L |-> line[i]]
  BY <1>9
<1>11. line = [i \in 1 .. L |-> line[i]]
  OBVIOUS
<1>12. QED
  BY <1>7, <1>8, <1>10, <1>11 DEF buf

-----------------------------------------------------------------------------
(* The output                                                              *)

\* The output of a record is what its process did.
Faithful(e) ==
    Output(e) = [ppid |-> e.made.ppid, file |-> read_name(e.made.file), dest |-> e.made.dest,
                 command |-> CommandLine(e.made.argv)]

OutputInv == \A i \in DOMAIN events : Faithful(events[i])

\* A process that gave no arguments has no command line.
LEMMA NoArguments == CommandLine(<<>>) = <<>>
<1>1. \A i : Arg(<<>>, i) = Null
  BY DEF Arg
<1>2. \A i \in {1, 2, 3} : \E j \in 1 .. i : Arg(<<>>, j) = Null
  BY <1>1
<1>3. Shown(<<>>, 1) = <<>> /\ Shown(<<>>, 2) = <<>> /\ Shown(<<>>, 3) = <<>>
  BY <1>2 DEF Shown
<1>4. <<>> \o <<>> = <<>>
  BY ConcatEmptySeq
<1>5. QED
  BY <1>3, <1>4 DEF CommandLine

\* An output, by the type of its record.
LEMMA OutputByType ==
    ASSUME NEW e
    PROVE  /\ e.type = 1 => Output(e) = [NoOutput EXCEPT !.file = e.file]
           /\ e.type = 2 => Output(e) = [NoOutput EXCEPT !.dest = e.dest]
           /\ e.type = 3 => Output(e) = [NoOutput EXCEPT !.file = e.file, !.command = parseCommand(e.command)]
           /\ e.type = 4 => Output(e) = [NoOutput EXCEPT !.ppid = e.ppid]
BY DEF Output

\* Fields that a program does not set are not looked at.
LEMMA RecordsAreFaithful ==
    ASSUME NEW p, NEW c, NEW f, NEW d
    PROVE  /\ Faithful(OpenRecord(p, f))
           /\ Faithful(ConnectRecord(p, d))
           /\ Faithful(ForkRecord(p, c))
<1>1. Faithful(OpenRecord(p, f))
  <2> DEFINE e == OpenRecord(p, f)
  <2>1. /\ e.type = 1 /\ e.file = read_name(f)
        /\ e.made.ppid = NoPid /\ e.made.file = f /\ e.made.dest = "" /\ e.made.argv = <<>>
    BY DEF OpenRecord, Did
  <2> HIDE DEF e
  <2>2. Output(e) = [NoOutput EXCEPT !.file = e.file]
    BY <2>1, OutputByType
  <2>3. Output(e) = [ppid |-> NoPid, file |-> read_name(f), dest |-> "", command |-> <<>>]
    BY <2>1, <2>2 DEF NoOutput
  <2>4. Faithful(e)
    BY <2>1, <2>3, NoArguments, Zenon DEF Faithful
  <2>5. QED
    BY <2>4 DEF e
<1>2. read_name("") = ""
  BY DEF read_name
<1>3. Faithful(ConnectRecord(p, d))
  <2> DEFINE e == ConnectRecord(p, d)
  <2>1. /\ e.type = 2 /\ e.dest = d
        /\ e.made.ppid = NoPid /\ e.made.file = "" /\ e.made.dest = d /\ e.made.argv = <<>>
    BY DEF ConnectRecord, Did
  <2> HIDE DEF e
  <2>2. Output(e) = [NoOutput EXCEPT !.dest = e.dest]
    BY <2>1, OutputByType
  <2>3. Output(e) = [ppid |-> NoPid, file |-> "", dest |-> d, command |-> <<>>]
    BY <2>1, <2>2 DEF NoOutput
  <2>4. Faithful(e)
    BY <1>2, <2>1, <2>3, NoArguments, Zenon DEF Faithful
  <2>5. QED
    BY <2>4 DEF e
<1>4. Faithful(ForkRecord(p, c))
  <2> DEFINE e == ForkRecord(p, c)
  <2>1. /\ e.type = 4 /\ e.ppid = p
        /\ e.made.ppid = p /\ e.made.file = "" /\ e.made.dest = "" /\ e.made.argv = <<>>
    BY DEF ForkRecord, Did
  <2> HIDE DEF e
  <2>2. Output(e) = [NoOutput EXCEPT !.ppid = e.ppid]
    BY <2>1, OutputByType
  <2>3. Output(e) = [ppid |-> p, file |-> "", dest |-> "", command |-> <<>>]
    BY <2>1, <2>2 DEF NoOutput
  <2>4. Faithful(e)
    BY <1>2, <2>1, <2>3, NoArguments, Zenon DEF Faithful
  <2>5. QED
    BY <2>4 DEF e
<1>5. QED
  BY <1>1, <1>3, <1>4

\* The record of an exec tells its arguments.
LEMMA ExecRecordIsFaithful ==
    ASSUME NEW p, NEW f, NEW argv \in Argvs
    PROVE  Faithful(ExecRecord(p, f, argv))
<1> DEFINE e == ExecRecord(p, f, argv)
<1>1. /\ e.type = 3 /\ e.file = read_name(f) /\ e.command = stitch(argv)
      /\ e.made.ppid = NoPid /\ e.made.file = f /\ e.made.dest = "" /\ e.made.argv = argv
  BY DEF ExecRecord, Did
<1> HIDE DEF e
<1>2. parseCommand(e.command) = CommandLine(argv)
  <2>1. /\ e.command = Holding(CommandLine(argv))
        /\ CommandLine(argv) \in Seq(Printable)
        /\ Len(CommandLine(argv)) <= CommandSize
    BY <1>1, StitchSpells
  <2>2. Len(CommandLine(argv)) \in Nat
    BY <2>1
  <2>3. QED
    BY <2>1, <2>2, ParsedAsSpelt
<1>3. Output(e) = [NoOutput EXCEPT !.file = e.file, !.command = parseCommand(e.command)]
  BY <1>1, OutputByType
<1>4. Output(e) = [ppid |-> NoPid, file |-> read_name(f), dest |-> "", command |-> CommandLine(argv)]
  BY <1>1, <1>2, <1>3 DEF NoOutput
<1>5. Faithful(e)
  BY <1>1, <1>4, Zenon DEF Faithful
<1>6. QED
  BY <1>5 DEF e

\* A record put into the ring, or one lost.
LEMMA SubmitKeepsOutput ==
    ASSUME RingOK, OutputInv, NEW e, Faithful(e), Submit(e)
    PROVE  OutputInv'
<1>1. CASE HasRoom
  <2>1. events' = Append(events, e) /\ events \in Seq(Rec)
    BY <1>1 DEF Submit, RingOK
  <2>2. /\ DOMAIN events = 1 .. Len(events) /\ Len(events) \in Nat
        /\ DOMAIN events' = 1 .. Len(events) + 1
        /\ \A i \in 1 .. Len(events) : events'[i] = events[i]
        /\ events'[Len(events) + 1] = e
    BY <2>1
  <2>3. \A i \in DOMAIN events' : i \in DOMAIN events \/ i = Len(events) + 1
    BY <2>2
  <2>4. QED
    BY <2>2, <2>3, Zenon DEF OutputInv
<1>2. CASE ~HasRoom
  BY <1>2 DEF Submit, OutputInv
<1>3. QED
  BY <1>1, <1>2

\* Each step leaves the ring alone, empties it, or puts or takes one record.
LEMMA EventStepKeepsOutput ==
    ASSUME RingOK, OutputInv, [EventNext]_eventVars
    PROVE  OutputInv'
<1>1. CASE events' = events
  BY <1>1 DEF OutputInv
<1>2. CASE StreamRelease
  BY <1>2 DEF StreamRelease, OutputInv
<1>3. CASE ReadEvent
  <2>1. events' = Tail(events) /\ events # <<>> /\ events \in Seq(Rec)
    BY <1>3 DEF ReadEvent, RingOK
  <2>2. \A i \in DOMAIN events' : i + 1 \in DOMAIN events /\ events'[i] = events[i + 1]
    BY <2>1
  <2>3. QED
    BY <2>2, Zenon DEF OutputInv
<1>4. CASE ProcessStep
  <2>1. ASSUME NEW p \in Pids, NEW c \in Pids, NEW newns \in BOOLEAN, StreamFork(p, c, newns)
        PROVE  OutputInv'
    <3>1. events' = events \/ Submit(ForkRecord(p, c))
      BY <2>1 DEF StreamFork
    <3>2. QED
      BY <1>1, <3>1, RecordsAreFaithful, SubmitKeepsOutput
  <2>2. ASSUME NEW p \in Pids, NEW f, Openat(p, f) PROVE OutputInv'
    BY <2>2, RecordsAreFaithful, SubmitKeepsOutput DEF Openat
  <2>3. ASSUME NEW p \in Pids, NEW d, ConnectCall(p, d) PROVE OutputInv'
    BY <2>3, RecordsAreFaithful, SubmitKeepsOutput DEF ConnectCall
  <2>4. ASSUME NEW p \in Pids, NEW f, NEW a \in Argvs, Execve(p, f, a) PROVE OutputInv'
    BY <2>4, ExecRecordIsFaithful, SubmitKeepsOutput DEF Execve
  <2>5. ASSUME (\E c \in Pids : StreamSpawn(c))
               \/ \E p, t \in Pids : StreamClone(p, t) \/ StreamExit(p, t) \/ StreamExecNonLeader(p, t)
        PROVE  OutputInv'
    BY <1>1, <2>5 DEF StreamSpawn, StreamClone, StreamExit, StreamExecNonLeader, streamVars
  <2>6. QED
    BY <1>4, <2>1, <2>2, <2>3, <2>4, <2>5 DEF ProcessStep
<1>5. CASE StreamAttach \/ (\E p \in Pids : StreamTrack(p)) \/ StartLoop \/ ReadError
           \/ ListAgents \/ ListStep \/ UNCHANGED eventVars
  BY <1>1, <1>5 DEF StreamAttach, StreamTrack, StartLoop, ReadError, ListAgents, ListStep, NextKey,
                    LookupKey, streamVars, eventVars
<1>6. QED
  BY <1>2, <1>3, <1>4, <1>5 DEF EventNext

\* What runEnforcer puts out of a record is what its process did, for every argument vector
\* and every size of an argument: no bytes of the ring's past, no argument cut short by the
\* mask on the offset, and the line of handle_execve as a reader would have written it.
THEOREM OutputsAreOwn == EventSpec => []OutputIsOwn
<1>1. EventInit => OutputInv
  BY DEF EventInit, OutputInv
<1>2. StreamOK /\ OutputInv /\ [EventNext]_eventVars => OutputInv'
  BY EventStepKeepsOutput DEF StreamOK
<1>3. OutputInv => OutputIsOwn
  BY Zenon DEF OutputInv, OutputIsOwn, Faithful
<1>4. QED
  BY <1>1, <1>2, <1>3, TalesInvariant, PTL DEF EventSpec
=============================================================================
