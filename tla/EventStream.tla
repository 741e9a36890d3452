---------------------------- MODULE EventStream -----------------------------
(***************************************************************************)
(* What AgentGuard sees of the agent: the tracepoint programs of           *)
(* monitor.bpf.c put one record per openat, connect, fork and execve of a  *)
(* tracked process into the ring `events'; the event loop of runEnforcer   *)
(* turns records into output and into the process tree; the dashboard's    *)
(* handleAgents walks tracked_pids, key by key, while all that goes on.    *)
(*                                                                         *)
(* The module runs on top of module Tracking, whose fork also writes a     *)
(* record.  The ring loses records when it is full, its memory is not      *)
(* cleared, process ids are reused and the loop can stop for good.         *)
(***************************************************************************)
EXTENDS Tracking, Sequences

CONSTANTS
    RingCap,      \* records the ring holds
    Files,        \* file names
    Dests,        \* addresses of connect
    Chars,        \* characters an argument can have
    Argvs,        \* argument vectors: sequences of strings, Unreadable and Null
    Unreadable,   \* a pointer that the program cannot read through
    Null,
    Junk,         \* bytes of a field nobody has set: whatever the ring held there
    ArgSize,      \* bytes read of one argument, its NUL included (64)
    CommandSize,  \* bytes of event.command (256)
    LastStart     \* no argument is put beyond this offset (192)

ASSUME EventRingAssumption == RingCap \in Nat
ASSUME CommandAssumption ==
    /\ ArgSize \in Nat \ {0} /\ LastStart \in Nat
    /\ CommandSize = LastStart + ArgSize
    /\ LastStart >= 2 * ArgSize

VARIABLES
    events,   \* the ring
    loop,     \* how far runEnforcer has come: "off", "due" (a pid is tracked), "on", "over"
    tree,     \* tree[p]: the node of p
    own,      \* ghost: what the records made in p's present life say of it
    it        \* a request to /agents

streamVars == <<events, loop, tree, own>>
eventVars == <<trackingVars, streamVars, it>>

NoPid == 0
Root == "root"
Comm == "comm"    \* what bpf_get_current_comm returns: never ""
NUL == "NUL"
Unknown == "unknown"

\* A string ends at its NUL.
ASSUME ArgvsAssumption ==
    /\ NUL \notin Chars
    /\ Argvs \subseteq Seq({Unreadable, Null} \cup Seq(Chars))

NoNode == [there |-> FALSE, ppid |-> NoPid, comm |-> ""]
NoTale == [ppid |-> Unknown, name |-> Unknown]
NoListing == [at |-> "idle", cur |-> NoPid, ahead |-> {}, count |-> 0, listed |-> {}, steady |-> {}]

-----------------------------------------------------------------------------
(* The records                                                             *)

\* bpf_probe_read_user_str clears its target when it fails.
read_name(f) == IF f = Unreadable THEN "" ELSE f

\* read_user_str into buf at offset `at': the buffer, and the length returned.
read_arg(buf, at, s) ==
    LET n == IF Len(s) < ArgSize THEN Len(s) ELSE ArgSize - 1
    IN IF s = Unreadable
       THEN [buf |-> [i \in DOMAIN buf |-> IF i \in at .. at + ArgSize - 1 THEN NUL ELSE buf[i]],
             len |-> 0]
       ELSE [buf |-> [i \in DOMAIN buf |->
                        IF i \in at .. at + n - 1 THEN s[i - at + 1]
                        ELSE IF i = at + n THEN NUL ELSE buf[i]],
             len |-> n + 1]

Bytes == 0 .. CommandSize - 1

\* The command field of a record that was just reserved.
Uncleared == [i \in Bytes |-> Junk]

\* Mutant: handle_execve does not clear it.
LeaveCommand == Uncleared

\* __builtin_memset(e->command, 0, ...)
ClearCommand == [i \in Bytes |-> NUL]

\* One turn of handle_execve's loop over argv[0..2].
stitch_arg(acc, ptr) ==
    LET at == acc.offset % CommandSize
        read == read_arg(acc.buf, at, ptr)
        space == (at + read.len - 1) % CommandSize
    IN IF acc.ended \/ ptr = Null \/ at > LastStart THEN [acc EXCEPT !.ended = TRUE]
       ELSE IF read.len = 0 THEN [acc EXCEPT !.buf = read.buf]
       ELSE [acc EXCEPT !.buf = [read.buf EXCEPT ![space] = " "], !.offset = space + 1]

\* The first three pointers, which are read in one call.  A vector that is shorter ends
\* with Null; for one that cannot be read the helper leaves three Nulls, as for <<>>.
\* (An entry Unreadable is a pointer that was read and leads nowhere.)
Arg(argv, i) == IF i \in DOMAIN argv THEN argv[i] ELSE Null

stitch(argv) ==
    LET start == [buf |-> ClearCommand, offset |-> 0, ended |-> FALSE]
        acc[i \in 0 .. 3] == IF i = 0 THEN start ELSE stitch_arg(acc[i - 1], Arg(argv, i))
    IN acc[3].buf

\* Ghost: what the process did, to compare the output with.
Did(ppid, file, dest, argv) == [ppid |-> ppid, file |-> file, dest |-> dest, argv |-> argv]

\* event.event_type, and the fields each program sets.
OpenRecord(p, f) ==
    [type |-> 1, pid |-> p, ppid |-> Junk, file |-> read_name(f), dest |-> "", command |-> Uncleared,
     made |-> Did(NoPid, f, "", <<>>)]

ConnectRecord(p, d) ==
    [type |-> 2, pid |-> p, ppid |-> Junk, file |-> "", dest |-> d, command |-> Uncleared,
     made |-> Did(NoPid, "", d, <<>>)]

ExecRecord(p, f, argv) ==
    [type |-> 3, pid |-> p, ppid |-> NoPid, file |-> read_name(f), dest |-> "",
     command |-> stitch(argv),
     made |-> Did(NoPid, f, "", argv)]

ForkRecord(p, c) ==
    [type |-> 4, pid |-> c, ppid |-> p, file |-> "", dest |-> "", command |-> Uncleared,
     made |-> Did(p, "", "", <<>>)]

HasRoom == Len(events) < RingCap

\* Mutant: the reservation is taken for granted.
SubmitAlways(e) == events' = Append(events, e)

\* bpf_ringbuf_reserve and submit: without room the event is not recorded.
Submit(e) == events' = IF HasRoom THEN Append(events, e) ELSE events

-----------------------------------------------------------------------------
(* The map under an iteration (kernel and cilium/ebpf)                     *)

(***************************************************************************)
(* tracked_pids is a hash table of lists: a key that is put, for the first *)
(* time or once more, goes to the head of its list, so it may come before  *)
(* or after the key the iterator holds.  it.ahead are the keys still to    *)
(* come, it.steady (a ghost) those that nobody has touched meanwhile.      *)
(***************************************************************************)
MapMoves(put) ==
    \E back \in SUBSET (IF it.cur \in put THEN tracked_pids' ELSE put \cap tracked_pids') :
        it' = IF it.at \notin {"next", "lookup"} THEN it
              ELSE [it EXCEPT !.ahead = ((@ \ put) \cap tracked_pids') \cup back,
                              !.steady = (@ \ put) \cap tracked_pids']

\* NextKey after a key that is gone starts again from the first.
Coming == IF it.cur = NoPid \/ it.cur \notin tracked_pids THEN tracked_pids ELSE it.ahead

-----------------------------------------------------------------------------
getOrCreateNode(t, p) == IF t[p].there THEN t ELSE [t EXCEPT ![p] = [NoNode EXCEPT !.there = TRUE]]

EventInit ==
    /\ Init
    /\ events = <<>>
    /\ loop = "off"
    /\ tree = [p \in Pids |-> NoNode]
    /\ own = [p \in Pids |-> NoTale]
    /\ it = NoListing

StreamAttach ==
    /\ AttachPrograms
    /\ UNCHANGED <<streamVars, it>>

\* AgentGuard ends; ring, tree and requests go with it.
StreamRelease ==
    /\ ReleasePrograms
    /\ events' = <<>>
    /\ loop' = "off"
    /\ tree' = [p \in Pids |-> NoNode]
    /\ own' = [p \in Pids |-> NoTale]
    /\ it' = NoListing

\* runEnforcer tracks the agent and makes the root of the tree, before anybody else
\* looks at it.
StreamTrack(p) ==
    /\ loop = "off"
    /\ TrackPid(p)
    /\ MapMoves({p})
    /\ loop' = "due"
    /\ tree' = [getOrCreateNode(tree, p) EXCEPT ![p].comm = Root]
    /\ UNCHANGED <<events, own>>

\* The API and the event loop start; records may be waiting.
StartLoop ==
    /\ loop = "due"
    /\ loop' = "on"
    /\ UNCHANGED <<trackingVars, events, tree, own, it>>

StreamSpawn(c) ==
    /\ Spawn(c)
    /\ own' = [own EXCEPT ![c] = NoTale]
    /\ UNCHANGED <<events, loop, tree, it>>

\* Does handle_fork get as far as the map?
ForkSeen(p, c) ==
    attached /\ current_nspids(p) /\ p \in tracked_pids /\ pid_nr_in_agent_ns(c) # 0

\* Mutant: the record is reserved first, and without it the program returns.
ForkReservesFirst(p, c, newns) ==
    /\ p \in Live /\ c \notin InUse
    /\ \/ (HasRoom \/ ~ForkSeen(p, c)) /\ Fork(p, c, newns)
       \/ /\ ~HasRoom /\ ForkSeen(p, c)
          /\ threads' = [threads EXCEPT ![c] = {c}]
          /\ inner' = IF newns \/ p \in inner THEN inner \cup {c} ELSE inner
          /\ agentTree' = IF p \in agentTree THEN agentTree \cup {c} ELSE agentTree
          /\ UNCHANGED <<attached, tracked_pids, lapsed, stale>>
    /\ IF ForkSeen(p, c)
       THEN Submit(ForkRecord(p, c)) /\ MapMoves({c})
       ELSE UNCHANGED <<events, it>>
    /\ own' = [own EXCEPT ![c] = IF ForkSeen(p, c) /\ HasRoom
                                 THEN [NoTale EXCEPT !.ppid = p] ELSE NoTale]
    /\ UNCHANGED <<loop, tree>>

\* p forks c: handle_fork puts the key, and only then asks for a record.
StreamFork(p, c, newns) ==
    /\ Fork(p, c, newns)
    /\ IF ForkSeen(p, c)
       THEN Submit(ForkRecord(p, c)) /\ MapMoves({c})
       ELSE UNCHANGED <<events, it>>
    /\ own' = [own EXCEPT ![c] = IF ForkSeen(p, c) /\ HasRoom
                                 THEN [NoTale EXCEPT !.ppid = p] ELSE NoTale]
    /\ UNCHANGED <<loop, tree>>

StreamClone(p, t) == CloneThread(p, t) /\ UNCHANGED <<streamVars, it>>

\* Exits, of a thread or of all but one before an exec: handle_exit makes no record.
StreamExit(p, t) ==
    /\ ThreadExit(p, t)
    /\ MapMoves({})
    /\ own' = IF threads[p] = {t} THEN [own EXCEPT ![p] = NoTale] ELSE own
    /\ UNCHANGED <<events, loop, tree>>

StreamExecNonLeader(p, t) == ExecNonLeader(p, t) /\ MapMoves({}) /\ UNCHANGED streamVars

\* handle_openat
Openat(p, f) ==
    /\ p \in Live /\ Enforced(p)
    /\ Submit(OpenRecord(p, f))
    /\ UNCHANGED <<trackingVars, loop, tree, own, it>>

\* handle_connect, for an AF_INET address; others are passed over.
ConnectCall(p, d) ==
    /\ p \in Live /\ Enforced(p)
    /\ Submit(ConnectRecord(p, d))
    /\ UNCHANGED <<trackingVars, loop, tree, own, it>>

\* What the tree is to show of an exec: its name, or the comm if there is none.
ShownName(f) == IF read_name(f) = "" THEN Comm ELSE f

\* handle_execve, on entry: the call may still fail.
Execve(p, f, argv) ==
    /\ p \in Live /\ Enforced(p)
    /\ Submit(ExecRecord(p, f, argv))
    /\ own' = IF HasRoom THEN [own EXCEPT ![p].name = ShownName(f)] ELSE own
    /\ UNCHANGED <<trackingVars, loop, tree, it>>

-----------------------------------------------------------------------------
(* The event loop                                                          *)

\* parseCString of event.command: the bytes up to the first NUL.
parseCommand(buf) ==
    LET ends == {i \in DOMAIN buf : buf[i] = NUL}
        n == IF ends = {} THEN CommandSize ELSE CHOOSE i \in ends : \A j \in ends : i <= j
    IN [i \in 1 .. n |-> buf[i - 1]]

NoOutput == [ppid |-> NoPid, file |-> "", dest |-> "", command |-> <<>>]

\* OutputEvent: what the switch over EventType takes from the record.
Output(e) ==
    CASE e.type = 1 -> [NoOutput EXCEPT !.file = e.file]
      [] e.type = 2 -> [NoOutput EXCEPT !.dest = e.dest]
      [] e.type = 3 -> [NoOutput EXCEPT !.file = e.file, !.command = parseCommand(e.command)]
      [] e.type = 4 -> [NoOutput EXCEPT !.ppid = e.ppid]

\* Mutant: a node that has a parent keeps it.
GrowKeepsParent(t, e) ==
    LET u == getOrCreateNode(t, e.pid)
        node == [u[e.pid] EXCEPT !.ppid = IF e.type = 4 /\ @ = NoPid THEN e.ppid ELSE @,
                                 !.comm = IF e.type = 3 THEN e.file ELSE @]
        v == [u EXCEPT ![e.pid] = [node EXCEPT !.comm = IF @ = "" THEN Comm ELSE @]]
    IN IF e.type = 4 THEN getOrCreateNode(v, e.ppid) ELSE v

\* The tree after record e.  (Children and Events of a node are never read.)
Grow(t, e) ==
    LET u == getOrCreateNode(t, e.pid)
        node == [u[e.pid] EXCEPT !.ppid = IF e.type = 4 THEN e.ppid ELSE @,
                                 !.comm = IF e.type = 3 THEN e.file ELSE @]
        v == [u EXCEPT ![e.pid] = [node EXCEPT !.comm = IF @ = "" THEN Comm ELSE @]]
    IN IF e.type = 4 THEN getOrCreateNode(v, e.ppid) ELSE v

\* One turn of the loop.
ReadEvent ==
    /\ loop = "on" /\ events # <<>>
    /\ tree' = Grow(tree, Head(events))
    /\ events' = Tail(events)
    /\ UNCHANGED <<trackingVars, loop, own, it>>

\* "read error": the loop is over, and nobody reads the ring again.
ReadError ==
    /\ loop = "on"
    /\ loop' = "over"
    /\ UNCHANGED <<trackingVars, events, tree, own, it>>

-----------------------------------------------------------------------------
(* handleAgents                                                            *)

\* The API is served once the map is handed over, so handleAgents finds it.
ListAgents ==
    /\ attached /\ loop \in {"on", "over"}
    /\ it.at \in {"idle", "done", "error"}
    /\ it' = [NoListing EXCEPT !.at = "next", !.ahead = tracked_pids, !.steady = tracked_pids]
    /\ UNCHANGED <<trackingVars, streamVars>>

\* Mutant: the iterator does not count.
NextKeyForEver ==
    /\ it.at = "next"
    /\ \/ Coming = {} /\ it' = [it EXCEPT !.at = "done"]
       \/ \E k \in Coming : it' = [it EXCEPT !.at = "lookup", !.cur = k, !.ahead = Coming \ {k}]
    /\ UNCHANGED <<trackingVars, streamVars>>

\* it.Next: the key after the current one, in the table's order, which may be any.
\* More keys than the map can hold: ErrIterationAborted, and a status of 500.
NextKey ==
    /\ it.at = "next"
    /\ \/ it.count > MaxTracked /\ it' = [it EXCEPT !.at = "error"]
       \/ it.count <= MaxTracked /\ Coming = {} /\ it' = [it EXCEPT !.at = "done"]
       \/ /\ it.count <= MaxTracked
          /\ \E k \in Coming : it' = [it EXCEPT !.at = "lookup", !.cur = k, !.ahead = Coming \ {k},
                                                !.count = @ + 1]
    /\ UNCHANGED <<trackingVars, streamVars>>

\* Mutant: processes that have no node are left out.
LookupKnown ==
    /\ it.at = "lookup"
    /\ it' = [it EXCEPT !.at = "next",
                        !.listed = IF it.cur \in tracked_pids /\ tree[it.cur].there
                                   THEN @ \cup {it.cur} ELSE @]
    /\ UNCHANGED <<trackingVars, streamVars>>

\* Its value: a key that is gone by now is passed over, the others are listed.
LookupKey ==
    /\ it.at = "lookup"
    /\ it' = [it EXCEPT !.at = "next",
                        !.listed = IF it.cur \in tracked_pids THEN @ \cup {it.cur} ELSE @]
    /\ UNCHANGED <<trackingVars, streamVars>>

ListStep == NextKey \/ LookupKey

-----------------------------------------------------------------------------
ProcessStep ==
    \/ \E c \in Pids : StreamSpawn(c)
    \/ \E p, c \in Pids, newns \in BOOLEAN : StreamFork(p, c, newns)
    \/ \E p, t \in Pids : StreamClone(p, t) \/ StreamExit(p, t) \/ StreamExecNonLeader(p, t)
    \/ \E p \in Pids, f \in Files \cup {Unreadable} : Openat(p, f)
    \/ \E p \in Pids, d \in Dests : ConnectCall(p, d)
    \/ \E p \in Pids, f \in Files \cup {Unreadable}, a \in Argvs : Execve(p, f, a)

EventNext ==
    \/ StreamAttach \/ StreamRelease
    \/ \E p \in Pids : StreamTrack(p)
    \/ StartLoop
    \/ ProcessStep
    \/ ReadEvent \/ ReadError
    \/ ListAgents \/ ListStep

\* The server's goroutine runs on until the request is answered.
EventSpec == EventInit /\ [][EventNext]_eventVars /\ WF_eventVars(ListStep)

-----------------------------------------------------------------------------
EventTypeOK ==
    /\ TypeOK
    /\ Len(events) <= RingCap
    /\ \A i \in DOMAIN events : events[i].type \in 1 .. 4 /\ events[i].pid \in Pids
    /\ loop \in {"off", "due", "on", "over"}
    /\ tree \in [Pids -> [there : BOOLEAN, ppid : Pids \cup {NoPid}, comm : Files \cup {"", Comm, Root}]]
    /\ own \in [Pids -> [ppid : Pids \cup {Unknown}, name : Files \cup {Comm, Unknown}]]
    /\ it \in [at : {"idle", "next", "lookup", "done", "error"}, cur : Pids \cup {NoPid},
               ahead : SUBSET Pids, count : 0 .. MaxTracked + 1, listed : SUBSET Pids,
               steady : SUBSET Pids]

\* The command line a reader expects: the arguments up to the third or up to Null,
\* those that can be read, each cut to what fits and followed by a space.
Shown(argv, i) ==
    IF (\E j \in 1 .. i : Arg(argv, j) = Null) \/ Arg(argv, i) = Unreadable THEN <<>>
    ELSE SubSeq(Arg(argv, i), 1, IF Len(Arg(argv, i)) < ArgSize THEN Len(Arg(argv, i)) ELSE ArgSize - 1)
            \o << " " >>

CommandLine(argv) == Shown(argv, 1) \o Shown(argv, 2) \o Shown(argv, 3)

(***************************************************************************)
(* An output tells what its process did and nothing else: no field shows   *)
(* bytes that an earlier record left in the ring, and the command line is  *)
(* the arguments, through masks, limits and pointers that cannot be read.  *)
(***************************************************************************)
OutputIsOwn ==
    \A i \in DOMAIN events :
        LET did == events[i].made
        IN Output(events[i]) = [ppid |-> did.ppid, file |-> read_name(did.file), dest |-> did.dest,
                                command |-> CommandLine(did.argv)]

(***************************************************************************)
(* Once the records of a process have been read, its node shows the parent *)
(* and the name that they gave in this life of its id, never those of an   *)
(* earlier owner; however many records were lost before, or of others.     *)
(***************************************************************************)
TreeTellsOwnLife ==
    \A p \in Live :
        (\A i \in DOMAIN events : events[i].pid # p)
            => /\ own[p].ppid # Unknown => tree[p].ppid = own[p].ppid
               /\ own[p].name # Unknown => tree[p].comm = own[p].name

(***************************************************************************)
(* Watching does not disturb supervision: with the ring full, the loop     *)
(* stopped and the map being read, every step is a step of the tracker.    *)
(***************************************************************************)
TrackingUndisturbed == Spec

(***************************************************************************)
(* An answer of /agents has every process that was tracked all the time it *)
(* took to make it, even if the key the iterator stood on was deleted.     *)
(***************************************************************************)
SteadyPidsListed == it.at = "done" => it.steady \subseteq it.listed

\* A request is answered, with processes coming and going for ever.
ListingEnds == it.at \in {"next", "lookup"} ~> it.at \notin {"next", "lookup"}
=============================================================================
