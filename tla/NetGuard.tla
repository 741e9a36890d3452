------------------------------ MODULE NetGuard ------------------------------
(***************************************************************************)
(* Network enforcement: the LSM hooks check_socket_create,                 *)
(* check_socket_connect and check_socket_sendmsg of enforcer.bpf.c, the    *)
(* flags and constants that runEnforcer sets for them from the policy, and *)
(* the audit rows that come of their reports.                              *)
(*                                                                         *)
(* No hook alone keeps the agent's traffic on its path.  sendmsg trusts a  *)
(* socket without a name in the message, because connect has vetted its    *)
(* peer; both trust that there are no raw sockets, because of create; and  *)
(* a process may hold sockets that it got before it was tracked, or that   *)
(* were opened towards it.                                                 *)
(*                                                                         *)
(* Module PolicyLoad runs underneath: the command Guardian is the one that *)
(* attaches the hooks.                                                     *)
(***************************************************************************)
EXTENDS PolicyLoad

CONSTANTS
    Guardian,    \* the command, a launch or an attach, that gets to attach the hooks
    Procs,       \* processes
    Socks,       \* sockets, which processes may share (fork)
    Dests,       \* addresses
    ProxyAddr,   \* one of Dests: where the proxy listens, if there is one
    LocalDNS,    \* one of Dests: 127.0.0.53, port 53
    None,
    RingCap      \* records the violations ring holds

ASSUME GuardianAssumption == Guardian \in Starts /\ Command[Guardian] # "init"
ASSUME DestsAssumption == {ProxyAddr, LocalDNS} \subseteq Dests /\ None \notin Dests
ASSUME NetRingAssumption == RingCap \in Nat

VARIABLES
    hooks,            \* the LSM programs are attached
    enforce_network,  \* .bss of the enforcer, zero until set
    allow_local_dns,
    proxyUp,          \* the proxy's listener is open
    stopping,         \* SIGTERM or SIGINT has arrived
    tracked,          \* processes for which Enforced of module Tracking holds
    sock,             \* sock[s]
    outside,          \* ghost: sockets whose peer no hook has vetted
    ring,             \* reports in the violations ring
    row,              \* the last audit row: a report, as a row with action "blocked"
    sent              \* the last packet that left: sender, socket, address, Unread

flagVars == <<hooks, enforce_network, allow_local_dns, proxyUp, stopping>>
sockVars == <<sock, outside, sent>>
reportVars == <<ring, row>>
netVars == <<flagVars, tracked, sockVars, reportVars>>
allVars == <<policyVars, netVars>>

\* sa_family of an address: AF_UNIX, AF_INET, AF_INET6, AF_UNSPEC or any other.
Families == {"unix", "inet", "inet6", "unspec", "other"}
Kinds == {"ip", "raw", "unix"}
NoRow == [policy |-> 0, dest |-> None, refused |-> FALSE]
NoSocket == [kind |-> "none", peer |-> None, accepted |-> FALSE]

rules == loaded[Guardian]

\* Without a proxy policy proxy_addr_host and proxy_port_host are 0, and no
\* address of Dests compares equal.
IsProxy(d) == rules.proxy # 0 /\ d = ProxyAddr
IsAllowedDNS(d) == allow_local_dns /\ d = LocalDNS

Allowed == {d \in Dests : IsProxy(d) \/ IsAllowedDNS(d)}

-----------------------------------------------------------------------------
(* The hooks.  Each is TRUE where the program returns 0 without a report.  *)

\* current_nspids and the lookup in tracked_pids
Looks(p) == hooks /\ p \in tracked

check_socket_create(p, kind) == Looks(p) => kind # "raw"

\* Mutant: IPv6 addresses are waved through like AF_UNIX ones.
ConnectIgnoresIPv6(p, family, d) ==
    Looks(p) /\ family = "inet" => IsProxy(d) \/ IsAllowedDNS(d)

check_socket_connect(p, family, d) ==
    Looks(p) => \/ family \notin {"inet", "inet6"}
                \/ family = "inet" /\ (IsProxy(d) \/ IsAllowedDNS(d))

\* Mutant: there is no sendmsg hook, connect is all.
SendmsgUnguarded(p, named, family, d) == TRUE

\* named: the message carries an address.  "Connected sockets carry no msg_name -
\* vetted at connect()".
check_socket_sendmsg(p, named, family, d) ==
    Looks(p) /\ named
        => \/ family \notin {"inet", "inet6"}
           \/ family = "inet" /\ (IsProxy(d) \/ IsAllowedDNS(d))

\* Mutant: report_and_deny does not ask whether enforcement is on.
VerdictAlwaysDenies(ok) == ok

\* The result of report_and_deny, and of the hook: TRUE where the call goes ahead.
Verdict(ok) == ok \/ ~enforce_network

\* Mutant: the reservation is taken for granted.
ReportAlways(d) ==
    /\ ring' = Append(ring, [policy |-> rules.proxy, dest |-> d, refused |-> ~Verdict(FALSE)])
    /\ UNCHANGED row

\* The record of report_and_deny, if the ring has room for it.  `refused' is a ghost:
\* the record does not say what became of the call.
Report(d) ==
    /\ ring' = IF Len(ring) < RingCap
               THEN Append(ring, [policy |-> rules.proxy, dest |-> d, refused |-> ~Verdict(FALSE)])
               ELSE ring
    /\ UNCHANGED row

ReportUnless(ok, d) == IF ok THEN UNCHANGED reportVars ELSE Report(d)

-----------------------------------------------------------------------------
NetInit ==
    /\ PolicyInit
    /\ hooks = FALSE
    /\ enforce_network = FALSE
    /\ allow_local_dns = FALSE
    /\ proxyUp = FALSE
    /\ stopping = FALSE
    /\ tracked = {}
    /\ sock = [s \in Socks |-> NoSocket]
    /\ outside = {}
    /\ ring = <<>>
    /\ row = NoRow
    /\ sent = <<>>

\* Mutant: the flags come from a fixed default.
ArmByDefault ==
    /\ pc[Guardian] = "loaded" /\ ~hooks
    /\ hooks' = TRUE
    /\ enforce_network' = TRUE
    /\ allow_local_dns' = rules.allowLocalDNS
    /\ proxyUp' = (rules.proxy # 0)
    /\ UNCHANGED <<policyVars, stopping, tracked, sockVars, reportVars>>

(***************************************************************************)
(* runEnforcer binds the proxy, freezes its address into the programs,     *)
(* sets the two flags and attaches the hooks.  A flag that cannot be set   *)
(* is logged and stays 0; all other errors are fatal (Abort).              *)
(***************************************************************************)
Arm ==
    /\ pc[Guardian] = "loaded" /\ ~hooks
    /\ hooks' = TRUE
    /\ enforce_network' \in {rules.enforceNetwork, FALSE}
    /\ allow_local_dns' \in {rules.allowLocalDNS, FALSE}
    /\ proxyUp' = (rules.proxy # 0)
    /\ UNCHANGED <<policyVars, stopping, tracked, sockVars, reportVars>>

Abort ==
    /\ pc[Guardian] = "loaded" /\ ~hooks
    /\ Goto(Guardian, "fatal")
    /\ UNCHANGED <<file, at, source, loaded, netVars>>

\* A pid is put into the map, by userspace or by handle_fork.
Track(p) ==
    /\ hooks
    /\ tracked' = tracked \cup {p}
    /\ UNCHANGED <<policyVars, flagVars, sockVars, reportVars>>

\* The process ends, or lapses.
Untrack(p) ==
    /\ p \in tracked
    /\ tracked' = tracked \ {p}
    /\ UNCHANGED <<policyVars, flagVars, sockVars, reportVars>>

\* The signal goroutine closes the proxy; hooks and agent stay for now.
Stop ==
    /\ hooks /\ ~stopping
    /\ stopping' = TRUE
    /\ proxyUp' = FALSE
    /\ UNCHANGED <<policyVars, hooks, enforce_network, allow_local_dns, tracked, sockVars, reportVars>>

\* A step of module PolicyLoad; with the guardian's death the hooks are gone.
PolicyStep ==
    /\ PolicyNext
    /\ IF pc'[Guardian] = "dead"
       THEN /\ hooks' = FALSE /\ proxyUp' = FALSE /\ tracked' = {}
            /\ ring' = <<>>
            /\ UNCHANGED <<enforce_network, allow_local_dns, stopping, sockVars, row>>
       ELSE UNCHANGED netVars

\* What the kernel has vetted by the time s gets its peer.
Vetted(p) == Looks(p) /\ enforce_network

\* socket(2)
Socket(p, s, kind) ==
    /\ sock[s].kind = "none"
    /\ LET ok == check_socket_create(p, kind)
       IN /\ ReportUnless(ok, None)
          /\ sock' = IF Verdict(ok) THEN [sock EXCEPT ![s].kind = kind] ELSE sock
          /\ outside' = IF kind = "raw" /\ ~Vetted(p) THEN outside \cup {s} ELSE outside
    /\ UNCHANGED <<policyVars, flagVars, tracked, sent>>

\* connect(2); the kernel may still fail it, and does if socket and family do not go
\* together.  AF_UNSPEC dissolves the connection.
Connect(p, s, family, d) ==
    /\ sock[s].kind # "none"
    /\ LET ok == check_socket_connect(p, family, d)
       IN /\ ReportUnless(ok, IF family = "inet" THEN d ELSE None)
          /\ \/ /\ Verdict(ok) /\ sock[s].kind = "ip" /\ family \in {"inet", "inet6"}
                /\ sock' = [sock EXCEPT ![s].peer = d, ![s].accepted = FALSE]
                /\ outside' = IF Vetted(p) THEN outside \ {s} ELSE outside \cup {s}
             \/ /\ Verdict(ok) /\ sock[s].kind = "ip" /\ family = "unspec"
                /\ sock' = [sock EXCEPT ![s].peer = None, ![s].accepted = FALSE]
                /\ outside' = outside \ {s}
             \/ UNCHANGED <<sock, outside>>
    /\ UNCHANGED <<policyVars, flagVars, tracked, sent>>

\* accept(2), which no hook looks at: a peer has connected to us.
Accept(s, d) ==
    /\ sock[s].kind = "none"
    /\ sock' = [sock EXCEPT ![s] = [kind |-> "ip", peer |-> d, accepted |-> TRUE]]
    /\ outside' = outside \cup {s}
    /\ UNCHANGED <<policyVars, flagVars, tracked, sent, reportVars>>

CloseSocket(s) ==
    /\ sock[s].kind # "none"
    /\ sock' = [sock EXCEPT ![s] = NoSocket]
    /\ outside' = outside \ {s}
    /\ UNCHANGED <<policyVars, flagVars, tracked, sent, reportVars>>

\* send(2), or write(2), on a connected socket.
Send(p, s) ==
    /\ sock[s].kind = "ip" /\ sock[s].peer # None
    /\ LET ok == check_socket_sendmsg(p, FALSE, "inet", sock[s].peer)
       IN /\ ReportUnless(ok, sock[s].peer)
          /\ sent' = IF Verdict(ok) THEN <<p, s, sock[s].peer, FALSE>> ELSE sent
    /\ UNCHANGED <<policyVars, flagVars, tracked, sock, outside>>

\* Where the kernel takes a message with an address.  A datagram goes there, and
\* AF_UNSPEC passes for AF_INET; a raw or packet socket has families of its own; a
\* stream does not look at the address and goes to its peer.
Reaches(s, family, d) ==
    {to \in {d, sock[s].peer} \ {None} :
        \/ to = sock[s].peer \/ sock[s].kind = "raw"
        \/ sock[s].kind = "ip" /\ family \in {"inet", "inet6", "unspec"}}

\* Ghost: the packet goes to an address that check_socket_sendmsg has not read.
Unread(s, family, to) == family = "unspec" /\ sock[s].kind = "ip" /\ to # sock[s].peer

\* sendto(2) or sendmsg(2) with an address; the kernel may still fail it.
SendTo(p, s, family, d) ==
    /\ sock[s].kind # "none"
    /\ LET ok == check_socket_sendmsg(p, TRUE, family, d)
       IN /\ ReportUnless(ok, IF family = "inet" THEN d ELSE None)
          /\ \/ /\ Verdict(ok)
                /\ \E to \in Reaches(s, family, d) : sent' = <<p, s, to, Unread(s, family, to)>>
             \/ UNCHANGED sent
    /\ UNCHANGED <<policyVars, flagVars, tracked, sock, outside>>

\* The reader of the ring: recordViolation writes a row with action "blocked".
Audit ==
    /\ hooks /\ ring # <<>>
    /\ ring' = Tail(ring)
    /\ row' = Head(ring)
    /\ UNCHANGED <<policyVars, flagVars, tracked, sockVars>>

NetStep ==
    \/ Arm \/ Abort \/ Stop \/ Audit
    \/ \E p \in Procs : Track(p) \/ Untrack(p)
    \/ \E p \in Procs, s \in Socks, k \in Kinds : Socket(p, s, k)
    \/ \E p \in Procs, s \in Socks, f \in Families, d \in Dests : Connect(p, s, f, d) \/ SendTo(p, s, f, d)
    \/ \E s \in Socks, d \in Dests : Accept(s, d)
    \/ \E s \in Socks : CloseSocket(s)
    \/ \E p \in Procs, s \in Socks : Send(p, s)

NetNext == PolicyStep \/ NetStep

NetSpec == NetInit /\ [][NetNext]_allVars /\ PolicyFairness

-----------------------------------------------------------------------------
Reports == [policy : Nat, dest : Dests \cup {None}, refused : BOOLEAN]

NetTypeOK ==
    /\ PolicyTypeOK
    /\ {hooks, enforce_network, allow_local_dns, proxyUp, stopping} \subseteq BOOLEAN
    /\ tracked \subseteq Procs
    /\ sock \in [Socks -> [kind : Kinds \cup {"none"}, peer : Dests \cup {None}, accepted : BOOLEAN]]
    /\ outside \subseteq Socks
    /\ ring \in Seq(Reports) /\ Len(ring) <= RingCap
    /\ row \in Reports
    /\ sent \in {<<>>} \cup Procs \X Socks \X Dests \X BOOLEAN

\* The refinement mapping: who is under guard, and where a socket leads.
Guarded == IF hooks /\ enforce_network THEN tracked ELSE {}

Link(s) ==
    [how |-> CASE sock[s].kind = "raw" -> "raw"
               [] sock[s].kind # "raw" /\ sock[s].peer = None -> "none"
               [] sock[s].kind # "raw" /\ sock[s].peer # None /\ sock[s].accepted -> "in"
               [] OTHER -> "out",
     to |-> sock[s].peer]

\* The packets the promise is kept for.
Packet == IF sent = <<>> \/ sent[4] THEN <<>> ELSE <<sent[1], sent[2], sent[3]>>

Promise == INSTANCE Egress WITH
    guarded <- Guarded, allowed <- Allowed, link <- [s \in Socks |-> Link(s)], sent <- Packet

(***************************************************************************)
(* The three hooks together keep the promise of module Egress: whatever    *)
(* order sockets are created, connected, disconnected, shared, accepted    *)
(* and written to, with flags that may fail to be set, a ring that may be  *)
(* full and processes that come under guard with sockets in their hands;   *)
(* all but the packets that are Unread (see SendtoIsGuarded).              *)
(***************************************************************************)
ImplementsEgress == Promise!EgressSpec

(***************************************************************************)
(* The same of every packet.  check_socket_sendmsg is there because "an    *)
(* unconnected UDP socket doing sendto()/sendmsg() never passes through    *)
(* security_socket_connect": what a guarded process sends goes where it    *)
(* may, or along a link from elsewhere.                                    *)
(***************************************************************************)
SendtoIsGuarded ==
    [][sent' # sent => \/ sent'[1] \notin Guarded \/ sent'[3] \in Allowed
                       \/ Link(sent'[2]).how = "raw" \/ Link(sent'[2]).to = sent'[3]]_allVars

(***************************************************************************)
(* What sendmsg relies on when it lets a message without a name pass:      *)
(* under enforcement every socket that was not connected out of guard, or  *)
(* accepted, leads to the proxy or to the local resolver, if anywhere.     *)
(***************************************************************************)
NamelessSendIsVetted ==
    enforce_network =>
        \A s \in Socks \ outside : sock[s].kind # "raw" /\ sock[s].peer \in Allowed \cup {None}

(***************************************************************************)
(* "A deny is a kernel EPERM": an audit row, which says "blocked", is      *)
(* about a call that was refused.                                          *)
(***************************************************************************)
BlockedMeansRefused == row = NoRow \/ row.refused

(***************************************************************************)
(* Nothing is refused that the policy file does not ask to refuse: the row *)
(* of a refused call names the network policy that governs, this one asks  *)
(* for proxy_only, and the address is not one that it lets through, though *)
(* the file may have changed since, and flags may have failed to be set.   *)
(***************************************************************************)
RefusalsAreAskedFor ==
    row.refused =>
        LET pf == loadPolicies(source[Guardian])
        IN  /\ Governs(pf, row.policy) /\ pf[row.policy].proxyOnly
            /\ row.dest \notin Allowed

(***************************************************************************)
(* Enforcement leaves the agent its way out: until AgentGuard is told to   *)
(* stop the proxy listens, and going there is never refused.               *)
(***************************************************************************)
NotCutOff ==
    /\ hooks /\ enforce_network /\ ~stopping => proxyUp
    /\ row.refused => row.dest # ProxyAddr
=============================================================================
