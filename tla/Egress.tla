------------------------------- MODULE Egress -------------------------------
(***************************************************************************)
(* What network enforcement promises, without hooks, flags or address      *)
(* families: a guarded process opens links only to the destinations that   *)
(* are allowed, and what it sends goes to one of them or along a link that *)
(* somebody else opened, or that was opened out of guard.                  *)
(***************************************************************************)
CONSTANTS
    Procs,   \* processes
    Socks,   \* sockets
    Dests,   \* destinations on the network
    None     \* no destination

VARIABLES
    guarded,  \* the processes under guard
    allowed,  \* the destinations a guarded process may open a link to
    link,     \* link[s]: where socket s leads, and how it came about
    sent      \* the last packet: who sent it, on which socket, where to

egressVars == <<guarded, allowed, link, sent>>

NoLink == [how |-> "none", to |-> None]

EgressInit ==
    /\ guarded = {}
    /\ allowed \in SUBSET Dests
    /\ link = [s \in Socks |-> NoLink]
    /\ sent = <<>>

\* The rule is not changed under a process it applies to.
Guard ==
    /\ guarded' \in SUBSET Procs
    /\ allowed' \in SUBSET Dests
    /\ guarded # {} => allowed' = allowed
    /\ UNCHANGED <<link, sent>>

\* A process opens a link.
Open(p, s, d) ==
    /\ p \in guarded => d \in allowed
    /\ link' = [link EXCEPT ![s] = [how |-> "out", to |-> d]]
    /\ UNCHANGED <<guarded, allowed, sent>>

\* A raw socket leads everywhere; guarded processes get none.
OpenRaw(p, s) ==
    /\ p \notin guarded
    /\ link' = [link EXCEPT ![s] = [how |-> "raw", to |-> None]]
    /\ UNCHANGED <<guarded, allowed, sent>>

\* Somebody out there opens a link to us.
Inbound(s, d) ==
    /\ link' = [link EXCEPT ![s] = [how |-> "in", to |-> d]]
    /\ UNCHANGED <<guarded, allowed, sent>>

Shut(s) ==
    /\ link' = [link EXCEPT ![s] = NoLink]
    /\ UNCHANGED <<guarded, allowed, sent>>

\* A packet leaves.
Deliver(p, s, d) ==
    /\ \/ p \notin guarded
       \/ d \in allowed
       \/ link[s].to = d
       \/ link[s].how = "raw"
    /\ sent' = <<p, s, d>>
    /\ UNCHANGED <<guarded, allowed, link>>

\* The last packet is history.
Forget ==
    /\ sent' = <<>>
    /\ UNCHANGED <<guarded, allowed, link>>

EgressNext ==
    \/ Guard \/ Forget
    \/ \E p \in Procs, s \in Socks, d \in Dests : Open(p, s, d) \/ Deliver(p, s, d)
    \/ \E p \in Procs, s \in Socks : OpenRaw(p, s)
    \/ \E s \in Socks, d \in Dests : Inbound(s, d)
    \/ \E s \in Socks : Shut(s)

EgressSpec == EgressInit /\ [][EgressNext]_egressVars
=============================================================================
