--------------------------- MODULE MCEventStream ----------------------------
(***************************************************************************)
(* Three kinds of behaviour, one per `about'.  In "records" one process    *)
(* makes records of every content.  In "lives" processes come, go and      *)
(* reuse ids while a few records are made and read.  In "listing" the ring *)
(* is full and they come and go under one request after the other.  The    *)
(* content of a record does not depend on who else lives, and a listing    *)
(* reads the keys of the map only, so nothing is lost by following them    *)
(* apart.  The root p1 stays in "lives".  Threads and nested namespaces    *)
(* are the business of MCSupervisor.                                       *)
(***************************************************************************)
EXTENDS EventStream

CONSTANTS p1, p2, p3

VARIABLE about

\* Four bytes an argument: one that just fits, one that is cut, a fourth that is
\* not looked at; pointers that lead nowhere; the empty string; no vector, or one that
\* cannot be read.
MCArgvs == {<<<<"a", "b", "c">>, <<"d", "e", "f", "g">>, <<"h">>, <<"i">>>>,
            <<<<"a">>, Unreadable, <<>>>>, <<Unreadable, <<"a">>>>, <<>>}

Records ==
    \/ StreamRelease
    \/ \E f \in Files \cup {Unreadable} : Openat(p1, f)
    \/ \E d \in Dests : ConnectCall(p1, d)
    \/ \E f \in Files \cup {Unreadable}, a \in Argvs : Execve(p1, f, a)

Lives ==
    \/ \E p, c \in Pids : StreamFork(p, c, FALSE)
    \/ \E p \in Pids : StreamExit(p, p)

Tells == \E p \in {p2, p3}, f \in Files : Execve(p, f, <<>>)

Fills == HasRoom /\ \E d \in Dests : ConnectCall(p1, d)

MCInit == EventInit /\ about \in {"records", "lives", "listing"}

MCNext ==
    /\ \/ StreamAttach
       \/ StreamSpawn(p1)
       \/ StreamTrack(p1)
       \/ StartLoop
       \/ about = "records" /\ (Records \/ ReadEvent \/ ReadError)
       \/ about = "lives" /\ ((Lives /\ p1 \in Live') \/ Tells \/ ReadEvent)
       \/ about = "listing" /\ Fills
       \/ about = "listing" /\ ~HasRoom /\ (Lives \/ ListAgents \/ ListStep)
    /\ UNCHANGED about

MCSpec == MCInit /\ [][MCNext]_<<eventVars, about>> /\ WF_eventVars(ListStep)
=============================================================================
