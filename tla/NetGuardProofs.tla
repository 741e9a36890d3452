--------------------------- MODULE NetGuardProofs ---------------------------
(***************************************************************************)
(* For every policy, all processes, sockets and addresses, and any number  *)
(* of commands at work on the policy files: the hooks of enforcer.bpf.c    *)
(* implement module Egress, up to datagrams with an address of AF_UNSPEC;  *)
(* a socket that is trusted without a look leads where it may; what is     *)
(* refused is what the policy asks to refuse; and enforcement leaves the   *)
(* agent its way out.  The first two need nothing of the rules; the others *)
(* rest on what loadAllPolicies computes.                                  *)
(***************************************************************************)
EXTENDS NetGuard, PolicyLoadProofs

-----------------------------------------------------------------------------
(* The phases of the guardian                                              *)

Sockets == [kind : Kinds \cup {"none"}, peer : Dests \cup {None}, accepted : BOOLEAN]

IsFcn(f, S) == f = [x \in S |-> f[x]]

Shapes ==
    /\ IsFcn(pc, Starts) /\ IsFcn(loaded, Starts)
    /\ tracked \subseteq Procs
    /\ sock \in [Socks -> Sockets]

(***************************************************************************)
(* The rules are fixed before the hooks are there, and the flag is set     *)
(* with the hooks: no process is ever under rules that still change.       *)
(***************************************************************************)
Phases ==
    /\ hooks => pc[Guardian] = "loaded"
    /\ enforce_network => pc[Guardian] \in {"loaded", "dead"}
    /\ enforce_network /\ pc[Guardian] = "loaded" => hooks

\* A socket has a peer if it is an IP socket that was connected or accepted.
PeersOK == \A s \in Socks : /\ sock[s].kind = "none" => sock[s] = NoSocket
                            /\ sock[s].kind # "ip" => sock[s].peer = None

(***************************************************************************)
(* NamelessSendIsVetted, made inductive: before there is enforcement no    *)
(* socket gets a peer without being named `outside'.                       *)
(***************************************************************************)
VettedInv ==
    \A s \in Socks \ outside :
        /\ sock[s].kind # "raw"
        /\ sock[s].peer \in Allowed \cup {None}
        /\ ~enforce_network => sock[s].peer = None

NInv == Shapes /\ Phases /\ PeersOK /\ VettedInv

\* What a step of one command does, seen from the guardian.
LEMMA CommandEffect ==
    ASSUME Shapes, NEW s \in Starts, Begin(s) \/ CommandStep(s) \/ Fail(s) \/ Kill(s)
    PROVE  /\ IsFcn(pc', Starts) /\ IsFcn(loaded', Starts)
           /\ pc'[Guardian] = pc[Guardian] \/ s = Guardian
           /\ loaded'[Guardian] # loaded[Guardian] => pc[Guardian] = "read"
           /\ pc[Guardian] \in {"loaded", "dead"} => pc'[Guardian] \in {pc[Guardian], "dead"}
           /\ pc'[Guardian] = "loaded" => pc[Guardian] \in {"loaded", "read"}
<1>0. Guardian \in Starts /\ IsFcn(pc, Starts) /\ IsFcn(loaded, Starts)
  BY GuardianAssumption DEF Shapes
<1>1. ASSUME NEW where, Goto(s, where), loaded' = loaded, pc[s] \notin {"loaded", "dead"},
             where # "loaded"
      PROVE  /\ IsFcn(pc', Starts) /\ IsFcn(loaded', Starts)
             /\ pc'[Guardian] = pc[Guardian] \/ s = Guardian
             /\ loaded'[Guardian] # loaded[Guardian] => pc[Guardian] = "read"
             /\ pc[Guardian] \in {"loaded", "dead"} => pc'[Guardian] \in {pc[Guardian], "dead"}
             /\ pc'[Guardian] = "loaded" => pc[Guardian] \in {"loaded", "read"}
  BY <1>0, <1>1 DEF Goto, IsFcn
<1>2. CASE Begin(s)
  BY <1>1, <1>2 DEF Begin
<1>3. CASE FindNamed(s) \/ CheckStarter(s) \/ OpenStarter(s) \/ WriteStarter(s)
  BY <1>1, <1>3 DEF FindNamed, CheckStarter, OpenStarter, WriteStarter, Settled
<1>4. CASE FindNext(s)
  BY <1>1, <1>4 DEF FindNext
<1>5. CASE LoadPolicies(s)
  <2>1. pc[s] = "read" /\ UNCHANGED <<file, at>>
    BY <1>5 DEF LoadPolicies
  <2>2. CASE Goto(s, "fatal") /\ loaded' = loaded
    BY <1>1, <2>1, <2>2
  <2>3. CASE Goto(s, "loaded") /\ \E r : loaded' = [loaded EXCEPT ![s] = r]
    BY <1>0, <2>1, <2>3 DEF Goto, IsFcn
  <2>4. QED
    BY <1>5, <2>2, <2>3 DEF LoadPolicies
<1>6. CASE Fail(s)
  BY <1>1, <1>6 DEF Fail, Working
<1>7. CASE Kill(s)
  BY <1>0, <1>7 DEF Kill, Goto, IsFcn
<1>8. QED
  BY <1>2, <1>3, <1>4, <1>5, <1>6, <1>7 DEF CommandStep

\* The same for any step of module PolicyLoad.
LEMMA PolicyEffect ==
    ASSUME Shapes, PolicyNext
    PROVE  /\ IsFcn(pc', Starts) /\ IsFcn(loaded', Starts)
           /\ loaded'[Guardian] # loaded[Guardian] => pc[Guardian] = "read"
           /\ pc[Guardian] \in {"loaded", "dead"} => pc'[Guardian] \in {pc[Guardian], "dead"}
           /\ pc'[Guardian] = "loaded" => pc[Guardian] \in {"loaded", "read"}
<1>1. CASE \E s \in Starts : Begin(s) \/ CommandStep(s) \/ Fail(s) \/ Kill(s)
  BY <1>1, CommandEffect
<1>2. CASE UNCHANGED <<pc, loaded>>
  BY <1>2 DEF Shapes, IsFcn
<1>3. QED
  BY <1>1, <1>2 DEF PolicyNext, UserWrites, UserRemoves

-----------------------------------------------------------------------------
(* The refinement                                                          *)

\* A step that changes neither sockets nor rules nor what is sent is one of Guard.
LEMMA GuardStep ==
    ASSUME Shapes, Shapes', UNCHANGED <<sock, sent>>,
           Guarded # {} => Allowed' = Allowed
    PROVE  [Promise!EgressNext]_(Promise!egressVars)
<1>1. Guarded' \in SUBSET Procs /\ Allowed' \in SUBSET Dests
  BY DEF Guarded, Shapes, Allowed
<1>2. [s \in Socks |-> Link(s)]' = [s \in Socks |-> Link(s)]
  BY DEF Link
<1>3. Promise!Guard
  BY <1>1, <1>2 DEF Promise!Guard, Packet
<1>4. QED
  BY <1>3 DEF Promise!EgressNext

\* Sockets are opened, connected, accepted, closed.
LEMMA SocketStep ==
    ASSUME NInv, NEW s \in Socks, UNCHANGED <<loaded, allow_local_dns, hooks, enforce_network, tracked, sent>>,
           \/ \E p \in Procs, k \in Kinds : Socket(p, s, k)
           \/ \E p \in Procs, f \in Families, d \in Dests : Connect(p, s, f, d)
           \/ \E d \in Dests : Accept(s, d)
           \/ CloseSocket(s)
    PROVE  [Promise!EgressNext]_(Promise!egressVars)
<1>0. /\ Guarded' = Guarded /\ Allowed' = Allowed /\ Packet' = Packet
      /\ sock \in [Socks -> Sockets]
      /\ None \notin Dests
  BY DestsAssumption DEF Guarded, Allowed, IsProxy, IsAllowedDNS, rules, NInv, Shapes, Packet
<1>1. ASSUME sock' = sock PROVE [Promise!EgressNext]_(Promise!egressVars)
  BY <1>0, <1>1 DEF Promise!egressVars, Link
<1>2. ASSUME NEW l, NEW v, sock' = [sock EXCEPT ![s] = v], Link(s)' = l
      PROVE [x \in Socks |-> Link(x)]' = [[x \in Socks |-> Link(x)] EXCEPT ![s] = l]
  <2>1. \A x \in Socks \ {s} : Link(x)' = Link(x)
    BY <1>0, <1>2 DEF Link
  <2>2. QED
    BY <1>2, <2>1
<1>3. ASSUME NEW p \in Procs, NEW k \in Kinds, Socket(p, s, k)
      PROVE [Promise!EgressNext]_(Promise!egressVars)
  <2>1. sock[s].kind = "none" /\ sock[s].peer = None
    BY <1>3 DEF Socket, NInv, PeersOK, NoSocket
  <2>2. CASE sock' = sock
    BY <1>1, <2>2
  <2>3. CASE Verdict(check_socket_create(p, k)) /\ sock' = [sock EXCEPT ![s].kind = k]
    <3>1. sock' = [sock EXCEPT ![s] = [sock[s] EXCEPT !.kind = k]]
      BY <1>0, <2>3
    <3>2. sock'[s].kind = k /\ sock'[s].peer = None
      BY <1>0, <2>1, <2>3
    <3>3. CASE k = "raw"
      <4>1. p \notin Guarded
        BY <2>3, <3>3 DEF Verdict, check_socket_create, Looks, Guarded
      <4>2. Link(s)' = [how |-> "raw", to |-> None]
        BY <3>2, <3>3 DEF Link
      <4>3. Promise!OpenRaw(p, s)
        BY <1>0, <1>2, <3>1, <4>1, <4>2 DEF Promise!OpenRaw
      <4>4. QED
        BY <4>3 DEF Promise!EgressNext
    <3>4. CASE k # "raw"
      <4>1. Link(s)' = Link(s)
        BY <2>1, <3>2, <3>4 DEF Link
      <4>2. \A x \in Socks \ {s} : Link(x)' = Link(x)
        BY <1>0, <3>1 DEF Link
      <4>3. [x \in Socks |-> Link(x)]' = [x \in Socks |-> Link(x)]
        BY <4>1, <4>2
      <4>4. QED
        BY <1>0, <4>3 DEF Promise!egressVars
    <3>5. QED
      BY <3>3, <3>4
  <2>4. QED
    BY <1>3, <2>2, <2>3 DEF Socket
<1>4. ASSUME NEW p \in Procs, NEW f \in Families, NEW d \in Dests, Connect(p, s, f, d)
      PROVE [Promise!EgressNext]_(Promise!egressVars)
  <2>1. CASE sock' = sock
    BY <1>1, <2>1
  <2>2. CASE /\ Verdict(check_socket_connect(p, f, d))
             /\ sock[s].kind = "ip" /\ f \in {"inet", "inet6"}
             /\ sock' = [sock EXCEPT ![s].peer = d, ![s].accepted = FALSE]
    <3>1. sock' = [sock EXCEPT ![s] = [sock[s] EXCEPT !.peer = d, !.accepted = FALSE]]
      BY <1>0, <2>2
    <3>2. sock'[s].kind = "ip" /\ sock'[s].peer = d /\ ~sock'[s].accepted
      BY <1>0, <2>2 DEF Sockets
    <3>3. p \in Guarded => d \in Allowed
      BY <2>2 DEF Verdict, check_socket_connect, Looks, Guarded, Allowed
    <3>4. Link(s)' = [how |-> "out", to |-> d]
      BY <1>0, <3>2 DEF Link
    <3>5. Promise!Open(p, s, d)
      BY <1>0, <1>2, <3>1, <3>3, <3>4 DEF Promise!Open
    <3>6. QED
      BY <3>5 DEF Promise!EgressNext
  <2>3. CASE sock' = [sock EXCEPT ![s].peer = None, ![s].accepted = FALSE] /\ sock[s].kind = "ip"
    <3>1. sock' = [sock EXCEPT ![s] = [sock[s] EXCEPT !.peer = None, !.accepted = FALSE]]
      BY <1>0, <2>3
    <3>2. sock'[s].kind = "ip" /\ sock'[s].peer = None
      BY <1>0, <2>3 DEF Sockets
    <3>3. Link(s)' = [how |-> "none", to |-> None]
      BY <3>2 DEF Link
    <3>4. Promise!Shut(s)
      BY <1>0, <1>2, <3>1, <3>3 DEF Promise!Shut, Promise!NoLink
    <3>5. QED
      BY <3>4 DEF Promise!EgressNext
  <2>4. QED
    BY <1>4, <2>1, <2>2, <2>3 DEF Connect
<1>5. ASSUME NEW d \in Dests, Accept(s, d) PROVE [Promise!EgressNext]_(Promise!egressVars)
  <2>1. sock' = [sock EXCEPT ![s] = [kind |-> "ip", peer |-> d, accepted |-> TRUE]]
    BY <1>5 DEF Accept
  <2>2. Link(s)' = [how |-> "in", to |-> d]
    BY <1>0, <2>1 DEF Link
  <2>3. Promise!Inbound(s, d)
    BY <1>0, <1>2, <2>1, <2>2 DEF Promise!Inbound
  <2>4. QED
    BY <2>3 DEF Promise!EgressNext
<1>6. ASSUME CloseSocket(s) PROVE [Promise!EgressNext]_(Promise!egressVars)
  <2>1. sock' = [sock EXCEPT ![s] = NoSocket]
    BY <1>6 DEF CloseSocket
  <2>2. Link(s)' = [how |-> "none", to |-> None]
    BY <1>0, <2>1 DEF Link, NoSocket
  <2>3. Promise!Shut(s)
    BY <1>0, <1>2, <2>1, <2>2 DEF Promise!Shut, Promise!NoLink
  <2>4. QED
    BY <2>3 DEF Promise!EgressNext
<1>7. QED
  BY <1>3, <1>4, <1>5, <1>6

\* A packet leaves, or is refused.
LEMMA SendStep ==
    ASSUME NInv, NEW p \in Procs, NEW s \in Socks,
           Send(p, s) \/ \E f \in Families, d \in Dests : SendTo(p, s, f, d)
    PROVE  [Promise!EgressNext]_(Promise!egressVars)
<1>0. /\ UNCHANGED <<loaded, allow_local_dns, hooks, enforce_network, tracked, sock>>
      /\ sock \in [Socks -> Sockets] /\ None \notin Dests
  BY DestsAssumption DEF Send, SendTo, policyVars, flagVars, NInv, Shapes
<1>1. Guarded' = Guarded /\ Allowed' = Allowed
      /\ [x \in Socks |-> Link(x)]' = [x \in Socks |-> Link(x)]
  BY <1>0 DEF Guarded, Allowed, IsProxy, IsAllowedDNS, rules, Link
<1>2. ASSUME sent' = sent PROVE [Promise!EgressNext]_(Promise!egressVars)
  BY <1>1, <1>2 DEF Promise!egressVars, Packet
<1>3. ASSUME NEW d \in Dests, NEW u \in BOOLEAN, sent' = <<p, s, d, u>>,
             u \/ p \notin Guarded \/ d \in Allowed \/ Link(s).to = d \/ Link(s).how = "raw"
      PROVE  [Promise!EgressNext]_(Promise!egressVars)
  <2>0. sent' # <<>> /\ sent'[1] = p /\ sent'[2] = s /\ sent'[3] = d /\ sent'[4] = u
    BY <1>3
  <2>1. CASE u
    <3>1. Packet' = <<>>
      BY <2>0, <2>1 DEF Packet
    <3>2. Promise!Forget
      BY <1>1, <3>1 DEF Promise!Forget
    <3>3. QED
      BY <3>2 DEF Promise!EgressNext
  <2>2. CASE ~u
    <3>1. Packet' = <<p, s, d>>
      BY <2>0, <2>2 DEF Packet
    <3>2. Promise!Deliver(p, s, d)
      BY <1>1, <1>3, <2>2, <3>1 DEF Promise!Deliver
    <3>3. QED
      BY <3>2 DEF Promise!EgressNext
  <2>3. QED
    BY <2>1, <2>2
<1>4. CASE Send(p, s)
  <2>1. sock[s].peer \in Dests /\ Link(s).to = sock[s].peer
    BY <1>0, <1>4 DEF Send, Link, Sockets
  <2>2. sent' = sent \/ sent' = <<p, s, sock[s].peer, FALSE>>
    BY <1>4 DEF Send
  <2>3. QED
    BY <1>2, <1>3, <2>1, <2>2
<1>5. ASSUME NEW f \in Families, NEW d \in Dests, SendTo(p, s, f, d)
      PROVE  [Promise!EgressNext]_(Promise!egressVars)
  <2>1. CASE sent' = sent
    BY <1>2, <2>1
  <2>2. ASSUME Verdict(check_socket_sendmsg(p, TRUE, f, d)),
               NEW to \in Reaches(s, f, d), sent' = <<p, s, to, Unread(s, f, to)>>
        PROVE  [Promise!EgressNext]_(Promise!egressVars)
    <3>1. to \in Dests /\ Unread(s, f, to) \in BOOLEAN
      BY <1>0 DEF Reaches, Sockets, Unread
    <3>2. Link(s).to = sock[s].peer /\ (sock[s].kind = "raw" => Link(s).how = "raw")
      BY DEF Link
    <3>3. CASE to = sock[s].peer \/ sock[s].kind = "raw" \/ Unread(s, f, to)
      BY <1>3, <2>2, <3>1, <3>2, <3>3
    <3>4. CASE to # sock[s].peer /\ sock[s].kind # "raw" /\ ~Unread(s, f, to)
      <4>1. to = d /\ f \in {"inet", "inet6"}
        BY <3>4 DEF Reaches, Unread
      <4>2. p \notin Guarded \/ d \in Allowed
        BY <2>2, <4>1 DEF Verdict, check_socket_sendmsg, Looks, Guarded, Allowed
      <4>3. QED
        BY <1>3, <2>2, <3>1, <4>1, <4>2
    <3>5. QED
      BY <3>3, <3>4
  <2>3. QED
    BY <1>5, <2>1, <2>2 DEF SendTo
<1>6. QED
  BY <1>4, <1>5

-----------------------------------------------------------------------------
(* The invariant                                                           *)

LEMMA NetInitNInv == NetInit => NInv
<1> SUFFICES ASSUME NetInit PROVE NInv
  OBVIOUS
<1>1. Shapes
  BY DEF NetInit, PolicyInit, Shapes, IsFcn, NoSocket, Kinds, Sockets
<1>2. Phases /\ PeersOK /\ VettedInv
  BY DEF NetInit, Phases, PeersOK, VettedInv, NoSocket
<1>3. QED
  BY <1>1, <1>2 DEF NInv

\* A step that leaves flags, rules and sockets as they are.
LEMMA IdleKeepsNInv ==
    ASSUME NInv, UNCHANGED <<pc, loaded, hooks, enforce_network, allow_local_dns, sock, outside>>,
           tracked' \subseteq Procs
    PROVE  NInv'
<1>1. Shapes'
  BY DEF NInv, Shapes, IsFcn
<1>2. Phases' /\ PeersOK'
  BY DEF NInv, Phases, PeersOK, NoSocket
<1>3. VettedInv'
  BY DEF NInv, VettedInv, Allowed, IsProxy, IsAllowedDNS, rules
<1>4. QED
  BY <1>1, <1>2, <1>3 DEF NInv

LEMMA ArmKeepsNInv == NInv /\ Arm => NInv'
<1> SUFFICES ASSUME NInv, Arm PROVE NInv'
  OBVIOUS
<1>1. ~enforce_network /\ hooks' /\ pc'[Guardian] = "loaded"
      /\ UNCHANGED <<pc, loaded, tracked, sock, outside>>
  BY DEF NInv, Phases, Arm, policyVars, sockVars
<1>2. Shapes' /\ PeersOK'
  BY <1>1 DEF NInv, Shapes, PeersOK, IsFcn, NoSocket
<1>3. Phases'
  BY <1>1 DEF Phases
<1>4. VettedInv'
  BY <1>1 DEF NInv, VettedInv
<1>5. QED
  BY <1>2, <1>3, <1>4 DEF NInv

LEMMA AbortKeepsNInv == NInv /\ Abort => NInv'
<1> SUFFICES ASSUME NInv, Abort PROVE NInv'
  OBVIOUS
<1>1. /\ ~enforce_network /\ ~hooks
      /\ UNCHANGED <<loaded, tracked, hooks, enforce_network, allow_local_dns, sock, outside>>
  BY DEF NInv, Phases, Abort, netVars, flagVars, sockVars
<1>2. IsFcn(pc', Starts)
  BY DEF NInv, Shapes, IsFcn, Abort, Goto
<1>3. Shapes' /\ PeersOK'
  BY <1>1, <1>2 DEF NInv, Shapes, PeersOK, IsFcn, NoSocket
<1>4. Phases' /\ VettedInv'
  BY <1>1 DEF NInv, Phases, VettedInv, Allowed, IsProxy, IsAllowedDNS, rules
<1>5. QED
  BY <1>3, <1>4 DEF NInv

LEMMA PolicyStepKeepsNInv == NInv /\ PolicyStep => NInv'
<1> SUFFICES ASSUME NInv, PolicyStep PROVE NInv'
  OBVIOUS
<1>1. /\ IsFcn(pc', Starts) /\ IsFcn(loaded', Starts)
      /\ loaded'[Guardian] # loaded[Guardian] => pc[Guardian] = "read"
      /\ pc[Guardian] \in {"loaded", "dead"} => pc'[Guardian] \in {pc[Guardian], "dead"}
      /\ pc'[Guardian] = "loaded" => pc[Guardian] \in {"loaded", "read"}
  BY PolicyEffect DEF NInv, PolicyStep
<1>2. /\ UNCHANGED <<enforce_network, allow_local_dns, sock, outside>>
      /\ tracked' \subseteq tracked
      /\ hooks' => hooks /\ pc'[Guardian] # "dead"
      /\ hooks /\ pc'[Guardian] # "dead" => hooks'
  BY DEF PolicyStep, netVars, flagVars, sockVars
<1>3. Shapes' /\ PeersOK'
  BY <1>1, <1>2 DEF NInv, Shapes, PeersOK, IsFcn, NoSocket
<1>4. Phases'
  BY <1>1, <1>2 DEF NInv, Phases
<1>5. enforce_network => Allowed' = Allowed
  BY <1>1, <1>2 DEF NInv, Phases, Allowed, IsProxy, IsAllowedDNS, rules
<1>6. VettedInv'
  BY <1>2, <1>5 DEF NInv, VettedInv
<1>7. QED
  BY <1>3, <1>4, <1>6 DEF NInv

LEMMA SocketKeepsNInv ==
    ASSUME NInv, NEW s \in Socks,
           UNCHANGED <<pc, loaded, allow_local_dns, hooks, enforce_network, tracked>>,
           \/ \E p \in Procs, k \in Kinds : Socket(p, s, k)
           \/ \E p \in Procs, f \in Families, d \in Dests : Connect(p, s, f, d)
           \/ \E d \in Dests : Accept(s, d)
           \/ CloseSocket(s)
    PROVE  NInv'
<1>0. /\ Allowed' = Allowed /\ Phases' /\ None \notin Dests
      /\ sock \in [Socks -> Sockets]
  BY DestsAssumption DEF Allowed, IsProxy, IsAllowedDNS, rules, NInv, Phases, Shapes
<1>1. ASSUME sock' \in [Socks -> Sockets],
             \A x \in Socks \ {s} : sock'[x] = sock[x],
             sock'[s].kind = "none" => sock'[s] = NoSocket,
             sock'[s].kind # "ip" => sock'[s].peer = None,
             outside \ {s} \subseteq outside',
             s \notin outside' => /\ sock'[s].kind # "raw" /\ sock'[s].peer \in Allowed \cup {None}
                                  /\ ~enforce_network => sock'[s].peer = None
      PROVE  NInv'
  <2>1. Shapes'
    BY <1>1 DEF NInv, Shapes, IsFcn
  <2>2. PeersOK'
    BY <1>1 DEF NInv, PeersOK, NoSocket
  <2>3. VettedInv'
    BY <1>0, <1>1 DEF NInv, VettedInv
  <2>4. QED
    BY <1>0, <2>1, <2>2, <2>3 DEF NInv
<1>2. ASSUME sock' = sock, outside \subseteq outside' PROVE NInv'
  BY <1>0, <1>2 DEF NInv, Shapes, IsFcn, PeersOK, NoSocket, VettedInv
<1>3. ASSUME NEW p \in Procs, NEW k \in Kinds, Socket(p, s, k) PROVE NInv'
  <2>1. sock[s] = NoSocket /\ outside \subseteq outside'
    BY <1>3 DEF Socket, NInv, PeersOK
  <2>2. CASE sock' = sock
    BY <1>2, <2>1, <2>2
  <2>3. CASE Verdict(check_socket_create(p, k)) /\ sock' = [sock EXCEPT ![s].kind = k]
    <3>1. /\ sock' \in [Socks -> Sockets]
          /\ \A x \in Socks \ {s} : sock'[x] = sock[x]
          /\ sock'[s].kind = k /\ sock'[s].peer = None
      <4>1. sock[s].peer = None
        BY <2>1 DEF NoSocket
      <4>2. QED
        BY <1>0, <2>3, <4>1 DEF Sockets
    <3>2. k = "raw" => s \in outside'
      BY <1>3, <2>3 DEF Socket, Verdict, check_socket_create, Vetted
    <3>3. k \in Kinds /\ k # "none"
      BY DEF Kinds
    <3>4. QED
      BY <1>1, <2>1, <3>1, <3>2, <3>3
  <2>4. QED
    BY <1>3, <2>2, <2>3 DEF Socket
<1>4. ASSUME NEW p \in Procs, NEW f \in Families, NEW d \in Dests, Connect(p, s, f, d) PROVE NInv'
  <2>1. CASE UNCHANGED <<sock, outside>>
    BY <1>2, <2>1
  <2>2. CASE /\ Verdict(check_socket_connect(p, f, d))
             /\ sock[s].kind = "ip" /\ f \in {"inet", "inet6"}
             /\ sock' = [sock EXCEPT ![s].peer = d, ![s].accepted = FALSE]
             /\ outside' = IF Vetted(p) THEN outside \ {s} ELSE outside \cup {s}
    <3>1. /\ sock' \in [Socks -> Sockets]
          /\ \A x \in Socks \ {s} : sock'[x] = sock[x]
          /\ sock'[s].kind = "ip" /\ sock'[s].peer = d
      BY <1>0, <2>2 DEF Sockets
    <3>2. s \notin outside' => d \in Allowed /\ enforce_network
      BY <2>2 DEF Verdict, check_socket_connect, Vetted, Allowed
    <3>3. QED
      BY <1>1, <2>2, <3>1, <3>2
  <2>3. CASE /\ sock' = [sock EXCEPT ![s].peer = None, ![s].accepted = FALSE]
             /\ sock[s].kind = "ip" /\ outside' = outside \ {s}
    <3>1. /\ sock' \in [Socks -> Sockets]
          /\ \A x \in Socks \ {s} : sock'[x] = sock[x]
          /\ sock'[s].kind = "ip" /\ sock'[s].peer = None
      BY <1>0, <2>3 DEF Sockets
    <3>2. QED
      BY <1>1, <2>3, <3>1
  <2>4. QED
    BY <1>4, <2>1, <2>2, <2>3 DEF Connect
<1>5. ASSUME NEW d \in Dests, Accept(s, d) PROVE NInv'
  <2>1. /\ sock' \in [Socks -> Sockets]
        /\ \A x \in Socks \ {s} : sock'[x] = sock[x]
        /\ sock'[s].kind = "ip" /\ s \in outside' /\ outside \subseteq outside'
    BY <1>0, <1>5 DEF Accept, Kinds, Sockets
  <2>2. QED
    BY <1>1, <2>1
<1>6. ASSUME CloseSocket(s) PROVE NInv'
  <2>1. /\ sock' \in [Socks -> Sockets]
        /\ \A x \in Socks \ {s} : sock'[x] = sock[x]
        /\ sock'[s] = NoSocket /\ outside' = outside \ {s}
    BY <1>0, <1>6 DEF CloseSocket, NoSocket, Sockets
  <2>2. QED
    BY <1>1, <2>1 DEF NoSocket
<1>7. QED
  BY <1>3, <1>4, <1>5, <1>6

\* Every step keeps the invariant, and is one of module Egress or leaves it alone.
LEMMA NetNextStep ==
    ASSUME NInv, [NetNext]_allVars
    PROVE  NInv' /\ [Promise!EgressNext]_(Promise!egressVars)
<1>1. ASSUME NInv', UNCHANGED <<sock, sent>>, Guarded # {} => Allowed' = Allowed
      PROVE  [Promise!EgressNext]_(Promise!egressVars)
  BY <1>1, GuardStep DEF NInv
<1>2. CASE UNCHANGED allVars
  <2>1. UNCHANGED <<pc, loaded, hooks, enforce_network, allow_local_dns, sock, outside, tracked, sent>>
    BY <1>2 DEF allVars, netVars, policyVars, flagVars, sockVars
  <2>2. NInv'
    BY <2>1, IdleKeepsNInv DEF NInv, Shapes
  <2>3. QED
    BY <1>1, <2>1, <2>2 DEF Allowed, IsProxy, IsAllowedDNS, rules
<1>3. CASE PolicyStep
  <2>1. NInv'
    BY <1>3, PolicyStepKeepsNInv
  <2>2. UNCHANGED <<sock, sent, allow_local_dns>>
    BY <1>3 DEF PolicyStep, netVars, flagVars, sockVars
  <2>3. loaded'[Guardian] # loaded[Guardian] => pc[Guardian] = "read"
    BY <1>3, PolicyEffect DEF PolicyStep, NInv
  <2>4. Guarded # {} => Allowed' = Allowed
    BY <2>2, <2>3 DEF NInv, Phases, Guarded, Allowed, IsProxy, IsAllowedDNS, rules
  <2>5. QED
    BY <1>1, <2>1, <2>2, <2>4
<1>4. CASE Arm
  BY <1>1, <1>4, ArmKeepsNInv DEF Arm, sockVars, Guarded
<1>5. CASE Abort
  BY <1>1, <1>5, AbortKeepsNInv DEF Abort, netVars, sockVars, Guarded
<1>6. CASE Stop \/ Audit \/ \E p \in Procs : Track(p) \/ Untrack(p)
  <2>1. /\ UNCHANGED <<pc, loaded, hooks, enforce_network, allow_local_dns, sock, outside, sent>>
        /\ tracked' \subseteq Procs
    BY <1>6 DEF Stop, Audit, Track, Untrack, policyVars, flagVars, sockVars, NInv, Shapes
  <2>2. NInv'
    BY <2>1, IdleKeepsNInv
  <2>3. QED
    BY <1>1, <2>1, <2>2 DEF Allowed, IsProxy, IsAllowedDNS, rules
<1>7. ASSUME NEW s \in Socks,
             \/ \E p \in Procs, k \in Kinds : Socket(p, s, k)
             \/ \E p \in Procs, f \in Families, d \in Dests : Connect(p, s, f, d)
             \/ \E d \in Dests : Accept(s, d)
             \/ CloseSocket(s)
      PROVE  NInv' /\ [Promise!EgressNext]_(Promise!egressVars)
  <2>1. UNCHANGED <<pc, loaded, allow_local_dns, hooks, enforce_network, tracked, sent>>
    BY <1>7 DEF Socket, Connect, Accept, CloseSocket, policyVars, flagVars
  <2>2. QED
    BY <1>7, <2>1, SocketStep, SocketKeepsNInv
<1>8. ASSUME NEW p \in Procs, NEW s \in Socks,
             Send(p, s) \/ \E f \in Families, d \in Dests : SendTo(p, s, f, d)
      PROVE  NInv' /\ [Promise!EgressNext]_(Promise!egressVars)
  <2>1. /\ UNCHANGED <<pc, loaded, hooks, enforce_network, allow_local_dns, sock, outside>>
        /\ tracked' \subseteq Procs
    BY <1>8 DEF Send, SendTo, policyVars, flagVars, NInv, Shapes
  <2>2. QED
    BY <1>8, <2>1, IdleKeepsNInv, SendStep
<1>9. QED
  BY <1>2, <1>3, <1>4, <1>5, <1>6, <1>7, <1>8 DEF NetNext, NetStep

(***************************************************************************)
(* What sendmsg relies on: under enforcement a socket that no one outside  *)
(* the guard has connected, and that was not accepted, leads to the proxy  *)
(* or to the local resolver (check_socket_connect, check_socket_create).   *)
(***************************************************************************)
THEOREM NamelessSends == NetSpec => []NamelessSendIsVetted
<1>1. NInv => NamelessSendIsVetted
  BY DEF NInv, VettedInv, NamelessSendIsVetted
<1>2. QED
  BY <1>1, NetInitNInv, NetNextStep, PTL DEF NetSpec

(***************************************************************************)
(* The three socket hooks implement module Egress: a guarded process opens *)
(* links to the allowed destinations only, and its packets go there or     *)
(* along a link from elsewhere, for addresses of every family the hooks    *)
(* tell apart.  One case is left out by name (Unread): a datagram with an  *)
(* address of AF_UNSPEC, which check_socket_sendmsg lets pass unread.      *)
(***************************************************************************)
THEOREM HooksKeepThePromise == NetSpec => ImplementsEgress
<1>1. NetInit => Promise!EgressInit
  <2> SUFFICES ASSUME NetInit PROVE Promise!EgressInit
    OBVIOUS
  <2>1. Guarded = {} /\ Allowed \in SUBSET Dests /\ Packet = <<>>
    BY DEF NetInit, Guarded, Allowed, Packet
  <2>2. \A s \in Socks : Link(s) = Promise!NoLink
    BY DEF NetInit, Link, NoSocket, Promise!NoLink
  <2>3. QED
    BY <2>1, <2>2 DEF Promise!EgressInit
<1>2. QED
  BY <1>1, NetInitNInv, NetNextStep, PTL DEF NetSpec, ImplementsEgress, Promise!EgressSpec

-----------------------------------------------------------------------------
(* Reports, audit rows and the proxy                                       *)

\* Types that NInv leaves open.
FlagTypes ==
    /\ {hooks, enforce_network, allow_local_dns, proxyUp, stopping} \subseteq BOOLEAN
    /\ outside \subseteq Socks
    /\ sent \in {<<>>} \cup Procs \X Socks \X Dests \X BOOLEAN

ReportTypes == ring \in Seq(Reports) /\ Len(ring) <= RingCap /\ row \in Reports

\* Nothing is reported without hooks, nor written before there were any.
Quiet ==
    /\ ~hooks => ring = <<>>
    /\ ~hooks /\ pc[Guardian] # "dead" => row = NoRow

\* A report tells what became of the call; what is refused is refused by the network
\* policy, and is not on the way it leaves.
Told(r) ==
    /\ r.refused = enforce_network
    /\ r.refused => r.policy = rules.proxy /\ r.dest \notin Allowed

AllTold == (\A i \in 1 .. Len(ring) : Told(ring[i])) /\ (row = NoRow \/ Told(row))

\* Enforcement comes with a proxy policy, and with a proxy until the stop.
WayOut ==
    /\ enforce_network => rules.proxy # 0 /\ rules.enforceNetwork
    /\ hooks /\ enforce_network /\ ~stopping => proxyUp

GInv == PolicyInv /\ FlagTypes /\ ReportTypes /\ Quiet /\ AllTold /\ WayOut

\* What a report tells stays true as long as the flags do, and the rules under enforcement.
LEMMA ToldStays ==
    ASSUME UNCHANGED <<enforce_network, allow_local_dns>>, enforce_network => rules' = rules
    PROVE  \A x : Told(x) => Told(x)'
BY DEF Told, Allowed, IsProxy, IsAllowedDNS

LEMMA GInvInit == NetInit => GInv
<1> SUFFICES ASSUME NetInit PROVE GInv
  OBVIOUS
<1>1. PolicyInv
  BY PolicyInitInv DEF NetInit
<1>2. FlagTypes /\ ReportTypes
  <2>1. FlagTypes
    BY DEF NetInit, FlagTypes
  <2>2. NoRow \in Reports
    BY DEF Reports, NoRow
  <2>3. <<>> \in Seq(Reports) /\ Len(<<>>) <= RingCap
    BY NetRingAssumption
  <2>4. QED
    BY <2>1, <2>2, <2>3 DEF NetInit, ReportTypes
<1>3. Quiet /\ AllTold /\ WayOut
  BY DEF NetInit, Quiet, AllTold, WayOut
<1>4. QED
  BY <1>1, <1>2, <1>3 DEF GInv

\* What a system call of a process can do besides its work on the socket.
Harmless ==
    /\ UNCHANGED <<policyVars, flagVars, tracked>>
    /\ outside' \subseteq Socks
    /\ sent' \in {<<>>} \cup Procs \X Socks \X Dests \X BOOLEAN
    /\ \/ UNCHANGED reportVars
       \/ \E d \in Dests \cup {None} : Report(d) /\ hooks /\ d \notin Allowed

LEMMA SocketIsHarmless ==
    ASSUME NInv, GInv, NEW p \in Procs, NEW s \in Socks, NEW kind, Socket(p, s, kind)
    PROVE  Harmless
<1>1. outside' \subseteq Socks /\ sent' \in {<<>>} \cup Procs \X Socks \X Dests \X BOOLEAN
  BY DEF Socket, GInv, FlagTypes
<1>2. CASE check_socket_create(p, kind)
  BY <1>1, <1>2 DEF Harmless, Socket, ReportUnless
<1>3. CASE ~check_socket_create(p, kind)
  <2>1. Report(None) /\ hooks /\ None \notin Allowed
    BY <1>3, DestsAssumption DEF Socket, ReportUnless, check_socket_create, Looks, Allowed
  <2>2. QED
    BY <1>1, <2>1 DEF Harmless, Socket
<1>4. QED
  BY <1>2, <1>3

LEMMA ConnectIsHarmless ==
    ASSUME NInv, GInv, NEW p \in Procs, NEW s \in Socks, NEW family, NEW d \in Dests,
           Connect(p, s, family, d)
    PROVE  Harmless
<1>1. outside' \subseteq Socks /\ sent' \in {<<>>} \cup Procs \X Socks \X Dests \X BOOLEAN
  BY DEF Connect, GInv, FlagTypes
<1>2. CASE check_socket_connect(p, family, d)
  BY <1>1, <1>2 DEF Harmless, Connect, ReportUnless
<1>3. CASE ~check_socket_connect(p, family, d)
  <2> DEFINE dest == IF family = "inet" THEN d ELSE None
  <2>1. hooks /\ Report(dest)
    BY <1>3 DEF Connect, ReportUnless, check_socket_connect, Looks
  <2>2. dest \notin Allowed /\ dest \in Dests \cup {None}
    BY <1>3, DestsAssumption DEF check_socket_connect, Allowed
  <2>3. QED
    BY <1>1, <2>1, <2>2 DEF Harmless, Connect
<1>4. QED
  BY <1>2, <1>3

LEMMA SendToIsHarmless ==
    ASSUME NInv, GInv, NEW p \in Procs, NEW s \in Socks, NEW family, NEW d \in Dests,
           SendTo(p, s, family, d)
    PROVE  Harmless
<1>0. \A to \in Reaches(s, family, d) : to \in Dests /\ Unread(s, family, to) \in BOOLEAN
  BY DEF Reaches, Unread, NInv, Shapes, Sockets
<1>1. outside' \subseteq Socks /\ sent' \in {<<>>} \cup Procs \X Socks \X Dests \X BOOLEAN
  <2>1. CASE sent' = sent
    BY <2>1 DEF SendTo, GInv, FlagTypes
  <2>2. ASSUME NEW to \in Reaches(s, family, d), sent' = <<p, s, to, Unread(s, family, to)>>
        PROVE  sent' \in Procs \X Socks \X Dests \X BOOLEAN
    BY <1>0, <2>2
  <2>3. sent' = sent \/ \E to \in Reaches(s, family, d) : sent' = <<p, s, to, Unread(s, family, to)>>
    BY DEF SendTo
  <2>4. outside' \subseteq Socks
    BY DEF SendTo, GInv, FlagTypes
  <2>5. QED
    BY <2>1, <2>2, <2>3, <2>4
<1>2. CASE check_socket_sendmsg(p, TRUE, family, d)
  BY <1>1, <1>2 DEF Harmless, SendTo, ReportUnless
<1>3. CASE ~check_socket_sendmsg(p, TRUE, family, d)
  <2> DEFINE dest == IF family = "inet" THEN d ELSE None
  <2>1. hooks /\ Report(dest)
    BY <1>3 DEF SendTo, ReportUnless, check_socket_sendmsg, Looks
  <2>2. dest \notin Allowed /\ dest \in Dests \cup {None}
    BY <1>3, DestsAssumption DEF check_socket_sendmsg, Allowed
  <2>3. QED
    BY <1>1, <2>1, <2>2 DEF Harmless, SendTo
<1>4. QED
  BY <1>2, <1>3

\* The other calls are never reported: a message without a name passes sendmsg.
LEMMA OthersAreHarmless ==
    ASSUME NInv, GInv, NEW s \in Socks,
           \/ \E p \in Procs : Send(p, s)
           \/ \E d \in Dests : Accept(s, d)
           \/ CloseSocket(s)
    PROVE  Harmless
<1>1. ASSUME NEW p \in Procs, Send(p, s) PROVE Harmless
  <2>1. check_socket_sendmsg(p, FALSE, "inet", sock[s].peer)
    BY DEF check_socket_sendmsg
  <2>2. sock[s].peer \in Dests
    BY <1>1 DEF Send, NInv, Shapes, Sockets
  <2>3. outside' \subseteq Socks /\ sent' \in {<<>>} \cup Procs \X Socks \X Dests \X BOOLEAN
    BY <1>1, <2>2 DEF Send, GInv, FlagTypes
  <2>4. QED
    BY <1>1, <2>1, <2>3 DEF Send, Harmless, ReportUnless
<1>3. ASSUME NEW d \in Dests, Accept(s, d) PROVE Harmless
  BY <1>3 DEF Accept, Harmless, GInv, FlagTypes
<1>4. ASSUME CloseSocket(s) PROVE Harmless
  BY <1>4 DEF CloseSocket, Harmless, GInv, FlagTypes
<1>5. QED
  BY <1>1, <1>3, <1>4

\* A report that fits is the last in the ring, and tells the truth.
LEMMA ReportKeeps ==
    ASSUME GInv, NEW d \in Dests \cup {None}, Report(d), d \notin Allowed,
           UNCHANGED <<loaded, enforce_network, allow_local_dns>>
    PROVE  ReportTypes' /\ AllTold'
<1> DEFINE r == [policy |-> rules.proxy, dest |-> d, refused |-> ~Verdict(FALSE)]
<1>1. rules.proxy \in Nat
  BY GuardianAssumption DEF GInv, PolicyInv, PolicyTypeOK, rules
<1>2. Verdict(FALSE) = ~enforce_network /\ enforce_network \in BOOLEAN
  BY DEF Verdict, GInv, FlagTypes
<1>3. r \in Reports /\ r.refused = enforce_network /\ r.dest = d /\ r.policy = rules.proxy
  BY <1>1, <1>2 DEF Reports
<1> HIDE DEF r
<1>4. Told(r) /\ \A x : Told(x) => Told(x)'
  BY <1>3, ToldStays DEF Told, rules
<1>5. row' = row /\ ring' \in {ring, Append(ring, r)} /\ (Len(ring) >= RingCap => ring' = ring)
  BY NetRingAssumption DEF Report, GInv, ReportTypes, r
<1>6. ring \in Seq(Reports) /\ Len(ring) \in Nat /\ Len(ring) <= RingCap
  BY DEF GInv, ReportTypes
<1>7. CASE ring' = ring
  BY <1>4, <1>5, <1>7 DEF GInv, ReportTypes, AllTold
<1>8. CASE ring' = Append(ring, r) /\ Len(ring) < RingCap
  <2>1. /\ ring' \in Seq(Reports) /\ Len(ring') = Len(ring) + 1
        /\ \A i \in 1 .. Len(ring') : ring'[i] = IF i = Len(ring) + 1 THEN r ELSE ring[i]
    BY <1>3, <1>6, <1>8
  <2>2. ReportTypes'
    BY <1>5, <1>6, <1>8, <2>1, NetRingAssumption DEF GInv, ReportTypes
  <2>3. \A i \in 1 .. Len(ring') : Told(ring'[i])
    BY <1>4, <1>6, <2>1 DEF GInv, AllTold
  <2>4. AllTold'
    BY <1>4, <1>5, <2>3 DEF GInv, AllTold
  <2>5. QED
    BY <2>2, <2>4
<1>9. QED
  BY <1>5, <1>6, <1>7, <1>8, NetRingAssumption

LEMMA HarmlessKeepsGInv ==
    ASSUME GInv, Harmless
    PROVE  GInv'
<1>1. UNCHANGED <<pc, source, loaded, hooks, enforce_network, allow_local_dns, proxyUp, stopping>>
  BY DEF Harmless, policyVars, flagVars
<1>2. PolicyInv'
  BY PolicyIdleKeepsInv DEF GInv, Harmless
<1>3. FlagTypes' /\ WayOut'
  BY <1>1 DEF GInv, FlagTypes, WayOut, Harmless, rules
<1>4. CASE UNCHANGED reportVars
  <2>1. AllTold'
    BY <1>1, <1>4, ToldStays DEF GInv, AllTold, reportVars, rules
  <2>2. QED
    BY <1>1, <1>2, <1>3, <1>4, <2>1 DEF GInv, ReportTypes, Quiet, reportVars
<1>5. ASSUME NEW d \in Dests \cup {None}, Report(d), hooks, d \notin Allowed
      PROVE  GInv'
  <2>1. ReportTypes' /\ AllTold'
    BY <1>1, <1>5, ReportKeeps
  <2>2. Quiet'
    BY <1>1, <1>5 DEF Quiet
  <2>3. QED
    BY <1>2, <1>3, <2>1, <2>2 DEF GInv
<1>6. QED
  BY <1>4, <1>5 DEF Harmless

LEMMA ArmKeepsGInv == NInv /\ GInv /\ Arm => GInv'
<1> SUFFICES ASSUME NInv, GInv, Arm PROVE GInv'
  OBVIOUS
<1>1. /\ ~hooks /\ pc[Guardian] = "loaded" /\ hooks'
      /\ enforce_network' \in {rules.enforceNetwork, FALSE}
      /\ allow_local_dns' \in {rules.allowLocalDNS, FALSE}
      /\ proxyUp' = (rules.proxy # 0)
      /\ UNCHANGED <<policyVars, stopping, sent, outside, ring, row>>
  BY DEF Arm, sockVars, reportVars
<1>2. PolicyInv' /\ loaded' = loaded
  BY <1>1, PolicyIdleKeepsInv DEF GInv, policyVars
<1>3. rules.enforceNetwork \in BOOLEAN /\ rules.allowLocalDNS \in BOOLEAN
  BY GuardianAssumption DEF GInv, PolicyInv, PolicyTypeOK, rules
<1>4. rules.enforceNetwork => rules.proxy # 0
  BY GuardianAssumption, NetworkRules DEF GInv, rules
<1>5. ring = <<>> /\ row = NoRow
  BY <1>1 DEF GInv, Quiet
<1>6. FlagTypes'
  BY <1>1, <1>3 DEF GInv, FlagTypes, Arm
<1>7. ReportTypes' /\ Quiet' /\ AllTold'
  BY <1>1, <1>5 DEF GInv, ReportTypes, Quiet, AllTold
<1>8. WayOut'
  BY <1>1, <1>2, <1>4 DEF WayOut, rules
<1>9. QED
  BY <1>2, <1>6, <1>7, <1>8 DEF GInv

LEMMA AbortKeepsGInv == NInv /\ GInv /\ Abort => GInv'
<1> SUFFICES ASSUME NInv, GInv, Abort PROVE GInv'
  OBVIOUS
<1>1. PolicyInv'
  BY GuardianAssumption, EndingKeepsInv DEF Abort, Ended, GInv
<1>2. /\ ~hooks /\ pc[Guardian] = "loaded" /\ loaded' = loaded
      /\ UNCHANGED <<hooks, enforce_network, allow_local_dns, proxyUp, stopping, outside, sent, ring, row>>
  BY DEF Abort, netVars, flagVars, sockVars, reportVars
<1>3. FlagTypes' /\ ReportTypes' /\ AllTold'
  BY <1>2, ToldStays DEF GInv, FlagTypes, ReportTypes, AllTold, rules
<1>4. Quiet' /\ WayOut'
  BY <1>2 DEF GInv, Quiet, WayOut, rules
<1>5. QED
  BY <1>1, <1>3, <1>4 DEF GInv

LEMMA StopKeepsGInv == GInv /\ Stop => GInv'
<1> SUFFICES ASSUME GInv, Stop PROVE GInv'
  OBVIOUS
<1>1. PolicyInv' /\ pc' = pc /\ loaded' = loaded
  BY PolicyIdleKeepsInv DEF Stop, GInv, policyVars
<1>2. UNCHANGED <<hooks, enforce_network, allow_local_dns, outside, sent, ring, row>> /\ stopping' /\ ~proxyUp'
      /\ stopping' = TRUE /\ proxyUp' = FALSE
  BY DEF Stop, sockVars, reportVars
<1>3. FlagTypes' /\ ReportTypes' /\ AllTold'
  BY <1>1, <1>2, ToldStays DEF GInv, FlagTypes, ReportTypes, AllTold, rules
<1>4. Quiet' /\ WayOut'
  BY <1>1, <1>2 DEF GInv, Quiet, WayOut, rules
<1>5. QED
  BY <1>1, <1>3, <1>4 DEF GInv

LEMMA AuditKeepsGInv == GInv /\ Audit => GInv'
<1> SUFFICES ASSUME GInv, Audit PROVE GInv'
  OBVIOUS
<1>1. PolicyInv' /\ pc' = pc /\ loaded' = loaded
  BY PolicyIdleKeepsInv DEF Audit, GInv, policyVars
<1>2. /\ UNCHANGED <<hooks, enforce_network, allow_local_dns, proxyUp, stopping, outside, sent>>
      /\ hooks /\ ring # <<>> /\ ring' = Tail(ring) /\ row' = Head(ring)
  BY DEF Audit, sockVars, flagVars
<1>3. ring \in Seq(Reports) /\ Len(ring) \in Nat \ {0} /\ Len(ring) <= RingCap
  BY <1>2 DEF GInv, ReportTypes
<1>4. /\ ring' \in Seq(Reports) /\ Len(ring') = Len(ring) - 1
      /\ \A i \in 1 .. Len(ring') : ring'[i] = ring[i + 1]
      /\ row' = ring[1] /\ row' \in Reports
  BY <1>2, <1>3
<1>5. FlagTypes' /\ ReportTypes'
  BY <1>2, <1>3, <1>4, NetRingAssumption DEF GInv, FlagTypes, ReportTypes
<1>6. AllTold'
  <2>1. \A x : Told(x) => Told(x)'
    BY <1>1, <1>2, ToldStays DEF rules
  <2>2. \A i \in 1 .. Len(ring') : Told(ring'[i])
    BY <1>3, <1>4 DEF GInv, AllTold
  <2>3. Told(row')
    BY <1>3, <1>4 DEF GInv, AllTold
  <2>4. QED
    BY <2>1, <2>2, <2>3 DEF AllTold
<1>7. Quiet' /\ WayOut'
  BY <1>1, <1>2 DEF GInv, Quiet, WayOut, rules
<1>8. QED
  BY <1>1, <1>5, <1>6, <1>7 DEF GInv

LEMMA PolicyStepKeepsGInv == NInv /\ GInv /\ PolicyStep => GInv'
<1> SUFFICES ASSUME NInv, GInv, PolicyStep PROVE GInv'
  OBVIOUS
<1>1. PolicyInv'
  BY PolicyStepKeepsInv DEF PolicyStep, GInv
<1>2. /\ loaded'[Guardian] # loaded[Guardian] => pc[Guardian] = "read"
      /\ pc[Guardian] \in {"loaded", "dead"} => pc'[Guardian] \in {pc[Guardian], "dead"}
  BY PolicyEffect DEF NInv, PolicyStep
<1>3. UNCHANGED <<enforce_network, allow_local_dns, stopping, outside, sent, row>>
  BY DEF PolicyStep, netVars, flagVars, sockVars, reportVars
<1>4. enforce_network => rules' = rules
  BY <1>2 DEF NInv, Phases, rules
<1>5. CASE pc'[Guardian] = "dead"
  <2>1. hooks' = FALSE /\ proxyUp' = FALSE /\ ring' = <<>>
    BY <1>5 DEF PolicyStep
  <2>2. FlagTypes' /\ ReportTypes'
    <3>1. FlagTypes'
      BY <1>3, <2>1 DEF GInv, FlagTypes
    <3>2. <<>> \in Seq(Reports) /\ Len(<<>>) <= RingCap
      BY NetRingAssumption
    <3>3. QED
      BY <1>3, <2>1, <3>1, <3>2 DEF GInv, ReportTypes
  <2>3. Quiet' /\ AllTold' /\ WayOut'
    BY <1>3, <1>4, <1>5, <2>1, ToldStays DEF GInv, Quiet, AllTold, WayOut
  <2>4. QED
    BY <1>1, <2>2, <2>3 DEF GInv
<1>6. CASE pc'[Guardian] # "dead"
  <2>1. UNCHANGED <<hooks, proxyUp, ring>> /\ pc[Guardian] # "dead"
    BY <1>2, <1>6 DEF PolicyStep, netVars, flagVars, reportVars
  <2>2. FlagTypes' /\ ReportTypes' /\ AllTold'
    BY <1>3, <1>4, <2>1, ToldStays DEF GInv, FlagTypes, ReportTypes, AllTold
  <2>3. Quiet' /\ WayOut'
    BY <1>3, <1>4, <2>1 DEF GInv, Quiet, WayOut
  <2>4. QED
    BY <1>1, <2>2, <2>3 DEF GInv
<1>7. QED
  BY <1>5, <1>6

LEMMA NetStepKeepsGInv ==
    ASSUME NInv, GInv, [NetNext]_allVars
    PROVE  GInv'
<1>1. CASE PolicyStep \/ Arm \/ Abort \/ Stop \/ Audit
  BY <1>1, PolicyStepKeepsGInv, ArmKeepsGInv, AbortKeepsGInv, StopKeepsGInv, AuditKeepsGInv
<1>2. CASE UNCHANGED allVars \/ \E p \in Procs : Track(p) \/ Untrack(p)
  <2>1. UNCHANGED <<policyVars, flagVars, outside, sent, reportVars>>
    BY <1>2 DEF Track, Untrack, allVars, netVars, sockVars
  <2>2. UNCHANGED <<pc, loaded, hooks, enforce_network, allow_local_dns, proxyUp, stopping, ring, row>>
    BY <2>1 DEF policyVars, flagVars, reportVars
  <2>3. PolicyInv'
    BY <2>1, PolicyIdleKeepsInv DEF GInv
  <2>4. FlagTypes' /\ ReportTypes' /\ AllTold'
    BY <2>1, <2>2, ToldStays DEF GInv, FlagTypes, ReportTypes, AllTold, rules
  <2>5. Quiet' /\ WayOut'
    BY <2>2 DEF GInv, Quiet, WayOut, rules
  <2>6. QED
    BY <2>3, <2>4, <2>5 DEF GInv
<1>3. CASE \/ \E p \in Procs, s \in Socks, k \in Kinds : Socket(p, s, k)
           \/ \E p \in Procs, s \in Socks, f \in Families, d \in Dests : Connect(p, s, f, d) \/ SendTo(p, s, f, d)
  BY <1>3, SocketIsHarmless, ConnectIsHarmless, SendToIsHarmless, HarmlessKeepsGInv
<1>4. CASE \/ \E s \in Socks, d \in Dests : Accept(s, d)
           \/ \E s \in Socks : CloseSocket(s)
           \/ \E p \in Procs, s \in Socks : Send(p, s)
  BY <1>4, OthersAreHarmless, HarmlessKeepsGInv
<1>5. QED
  BY <1>1, <1>2, <1>3, <1>4 DEF NetNext, NetStep

\* Both invariants hold throughout.
LEMMA NetHolds == NetSpec => [](NInv /\ GInv)
<1>1. NInv /\ GInv /\ [NetNext]_allVars => (NInv /\ GInv)'
  BY NetNextStep, NetStepKeepsGInv
<1>2. QED
  BY <1>1, NetInitNInv, GInvInit, PTL DEF NetSpec

\* Types; neither ring grows beyond its size.
THEOREM NetTypes == NetSpec => []NetTypeOK
<1>1. NInv /\ GInv => NetTypeOK
  BY DEF NInv, Shapes, Sockets, GInv, PolicyInv, FlagTypes, ReportTypes, NetTypeOK
<1>2. QED
  BY <1>1, NetHolds, PTL

(***************************************************************************)
(* report_and_deny refuses nothing on its own account: behind every row of *)
(* a refused call is the network policy of that number, the last one in    *)
(* the file that was read, which asks for proxy_only, and the address is   *)
(* neither the proxy's nor that of the resolver it lets through.           *)
(***************************************************************************)
THEOREM RefusalsComeFromThePolicy == NetSpec => []RefusalsAreAskedFor
<1>1. ASSUME GInv, row.refused
      PROVE  /\ Governs(loadPolicies(source[Guardian]), row.policy)
             /\ loadPolicies(source[Guardian])[row.policy].proxyOnly
             /\ row.dest \notin Allowed
  <2>1. row # NoRow
    BY <1>1 DEF NoRow
  <2>2. enforce_network /\ row.policy = rules.proxy /\ row.dest \notin Allowed
    BY <1>1, <2>1 DEF GInv, AllTold, Told
  <2>3. rules.proxy # 0 /\ rules.enforceNetwork
    BY <1>1, <2>2 DEF GInv, WayOut
  <2> DEFINE pf == loadPolicies(source[Guardian])
  <2>4. /\ rules.proxy # 0 => Governs(pf, rules.proxy)
        /\ rules.enforceNetwork = (rules.proxy # 0 /\ pf[rules.proxy].proxyOnly)
    BY <1>1, GuardianAssumption, NetworkRules DEF GInv, rules
  <2>5. QED
    BY <2>2, <2>3, <2>4
<1>2. GInv => RefusalsAreAskedFor
  BY <1>1 DEF RefusalsAreAskedFor
<1>3. QED
  BY <1>2, NetHolds, PTL

(***************************************************************************)
(* Enforcement does not cut the agent off: the hooks refuse nothing that   *)
(* goes to the proxy, and while they enforce there is one, until the stop. *)
(* runEnforcer sets the flag from the same policy as the proxy's address.  *)
(***************************************************************************)
THEOREM AgentKeepsItsWayOut == NetSpec => []NotCutOff
<1>1. GInv => NotCutOff
  BY DestsAssumption DEF GInv, WayOut, AllTold, Told, NoRow, Allowed, IsProxy, NotCutOff
<1>2. QED
  BY <1>1, NetHolds, PTL

(***************************************************************************)
(* What PolicyLoadProofs shows of the commands stays so when one of them   *)
(* goes on to attach hooks, or fails to (runEnforcer after loading).       *)
(***************************************************************************)
THEOREM LoadingUnderHooks == NetSpec => [](OnePolicyGoverns /\ LaunchUnderWholePolicy)
<1>1. GInv => OnePolicyGoverns /\ LaunchUnderWholePolicy
  BY InvGoverns, InvLaunch DEF GInv
<1>2. QED
  BY <1>1, NetHolds, PTL

\* Likewise for the files: a guardian that gives up after loading leaves them alone.
THEOREM FilesUnderHooks == NetSpec => NeverOverwrites
<1>1. GInv /\ [NetNext]_allVars => [KeepsFiles]_policyVars
  <2> SUFFICES ASSUME GInv, [NetNext]_allVars PROVE [KeepsFiles]_policyVars
    OBVIOUS
  <2>1. CASE PolicyStep
    BY <2>1, PolicyStepKeepsInv DEF PolicyStep, GInv
  <2>2. CASE Abort
    BY <2>2, GuardianAssumption, EndingKeepsInv DEF Abort, Ended, GInv
  <2>3. CASE UNCHANGED allVars \/ Arm \/ Stop \/ Audit \/ \E p \in Procs : Track(p) \/ Untrack(p)
    BY <2>3 DEF allVars, Arm, Stop, Audit, Track, Untrack
  <2>4. CASE \/ \E p \in Procs, s \in Socks, k \in Kinds : Socket(p, s, k)
             \/ \E p \in Procs, s \in Socks, f \in Families, d \in Dests :
                     Connect(p, s, f, d) \/ SendTo(p, s, f, d)
    <3>1. ASSUME NEW p, NEW s, NEW k, Socket(p, s, k) PROVE UNCHANGED policyVars
      BY <3>1 DEF Socket
    <3>2. ASSUME NEW p, NEW s, NEW f, NEW d, Connect(p, s, f, d) \/ SendTo(p, s, f, d)
          PROVE  UNCHANGED policyVars
      BY <3>2 DEF Connect, SendTo
    <3>3. QED
      BY <2>4, <3>1, <3>2
  <2>5. CASE \/ \E s \in Socks, d \in Dests : Accept(s, d)
             \/ \E s \in Socks : CloseSocket(s)
             \/ \E p \in Procs, s \in Socks : Send(p, s)
    BY <2>5 DEF Accept, CloseSocket, Send
  <2>6. QED
    BY <2>1, <2>2, <2>3, <2>4, <2>5 DEF NetNext, NetStep
<1>2. QED
  BY <1>1, NetHolds, PTL DEF NetSpec, NeverOverwrites, KeepsFiles
=============================================================================
