-------------------------------- MODULE Proxy --------------------------------
(***************************************************************************)
(* The egress proxy of proxy.go: one goroutine per connection, handle,     *)
(* vets a CONNECT request, dials the upstream, answers 200, checks that    *)
(* the TLS ClientHello names the host that was asked for, and splices the  *)
(* two connections together.  Client, upstream, name server and clock act  *)
(* on their own; a deadline runs from the first byte until the splice.     *)
(*                                                                         *)
(* A host name is its sequence of labels, in lower case and without a      *)
(* trailing dot, which is all the code compares, and whether net.ParseIP   *)
(* takes it for an address.                                                *)
(***************************************************************************)
EXTENDS Integers, Sequences

CONSTANTS
    Conns,
    Requests,        \* what clients may ask for
    Hellos,          \* what clients may send into a tunnel first
    AllowedHosts,    \* patterns [wild |-> .., labels |-> ..]
    AllowedPorts,
    AllowIPLiteral,
    TelemetryHosts,  \* the names isTelemetryHost holds of
    BufSize,         \* bytes bufio.NewReader can peek at (4096)
    MaxRecord        \* longest TLS record peekSNI admits (16384)

ASSUME PolicyAssumption == AllowIPLiteral \in BOOLEAN
ASSUME SizesAssumption == BufSize \in Nat /\ MaxRecord \in Nat

\* A name has one label at least, be it the empty one.
Labels == Seq(STRING) \ {<<>>}

ASSUME NamesAssumption ==
    /\ AllowedHosts \subseteq [wild : BOOLEAN, labels : Labels]
    /\ Requests \subseteq [auth : BOOLEAN, kind : {"plain", "malformed", "connect"},
                           host : [labels : Labels, literal : BOOLEAN], port : Nat]

TlsPort == 443
HeaderLen == 5
NoRequest == [kind |-> "none"]
\* A hello: whether its first byte is that of a TLS handshake, the length of its first
\* record, the length of the whole message, the place in the message where the
\* server_name extension ends, and the name in it (<<>> if there is none).
NoHello == [tls |-> FALSE, len |-> 0, total |-> 0, sniEnd |-> 0, sni |-> <<>>]

VARIABLES
    listening,   \* the listener is open
    pc,          \* pc[c]: where handle is; "closed" without a tunnel, "ended" after one
    req,         \* req[c]: the request that was read
    hello,       \* hello[c]: what the client has sent into the tunnel
    expired,     \* connections whose 30 seconds are over
    addr,        \* addr[c]: the address that was dialled
    reply,       \* reply[c]: the status line the client got
    denies,      \* denies[c]: calls of deny that reached the audit
    clientEOF,   \* connections whose client has sent its last byte
    clientGone,  \* connections whose client has reset the connection
    upEOF,       \* connections whose upstream has sent its last byte
    halfClosed   \* upstreams that were told the client's EOF (CloseWrite)

vars == <<listening, pc, req, hello, expired, addr, reply, denies,
          clientEOF, clientGone, upEOF, halfClosed>>
peerVars == <<hello, clientEOF, clientGone, upEOF, halfClosed>>

Init ==
    /\ listening = TRUE
    /\ pc = [c \in Conns |-> "new"]
    /\ req = [c \in Conns |-> NoRequest]
    /\ hello = [c \in Conns |-> NoHello]
    /\ expired = {}
    /\ addr = [c \in Conns |-> "none"]
    /\ reply = [c \in Conns |-> "none"]
    /\ denies = [c \in Conns |-> 0]
    /\ clientEOF = {} /\ clientGone = {} /\ upEOF = {} /\ halfClosed = {}

-----------------------------------------------------------------------------
(* The policy                                                               *)

\* Case and a trailing dot of the host do not count; a wildcard stands for one
\* label or more, never for none and not for an empty one.
hostMatches(pattern, host) ==
    LET n == Len(host.labels) - Len(pattern.labels)
    IN  IF pattern.wild
        THEN /\ n > 0 /\ SubSeq(host.labels, n + 1, Len(host.labels)) = pattern.labels
             /\ ~(n = 1 /\ host.labels[1] = "")
        ELSE host.labels = pattern.labels

permit(host, port) ==
    /\ port \in AllowedPorts
    /\ host.literal => AllowIPLiteral
    /\ \E pattern \in AllowedHosts : hostMatches(pattern, host)

\* blockedNets, which the dialer's Control checks on the resolved address.
isBlockedIP(ip) == ip = "private"

\* TelemetryHosts are the names that contain one of the five substrings.
isTelemetryHost(host) == host.labels \in TelemetryHosts

\* What peekSNI returns of a hello: the header first, then its first record, all
\* within the reader's buffer, then the name.  parseClientHelloSNI stops looking at
\* the record's end and is content with a hello that goes on in a second record, as
\* long as the server_name extension lies in the first.
PeekSucceeds(h) ==
    /\ h.tls
    /\ h.len > 0 /\ h.len <= MaxRecord
    /\ HeaderLen + h.len <= BufSize
    /\ h.sni # <<>> /\ h.sniEnd <= h.len

\* EqualFold up to a trailing dot, both of which labels abstract from.
SniIs(h, host) == h.sni = host.labels

-----------------------------------------------------------------------------
(* handle                                                                   *)

\* Mutant: every refused connection is counted, telemetry too.
DenyAlways(c, host) == denies' = [denies EXCEPT ![c] = @ + 1]

deny(c, host) == denies' = [denies EXCEPT ![c] = IF isTelemetryHost(host) THEN @ ELSE @ + 1]

\* A line to the client, lost if the deadline has passed.
Say(c, line) == reply' = [reply EXCEPT ![c] = IF c \in expired THEN @ ELSE line]

Goto(c, p) == pc' = [pc EXCEPT ![c] = p]

\* Serve: Accept and go handle.
Accept(c) ==
    /\ listening /\ pc[c] = "new"
    /\ Goto(c, "request")
    /\ UNCHANGED <<listening, req, expired, addr, reply, denies, peerVars>>

\* http.ReadRequest delivers a request.
ReadRequest(c, r) ==
    /\ pc[c] = "request" /\ c \notin expired
    /\ req' = [req EXCEPT ![c] = r]
    /\ Goto(c, "vet")
    /\ UNCHANGED <<listening, expired, addr, reply, denies, peerVars>>

\* Or it fails: rubbish, a client that went away, the deadline.
RequestFails(c) ==
    /\ pc[c] = "request"
    /\ Goto(c, "closed")
    /\ UNCHANGED <<listening, req, expired, addr, reply, denies, peerVars>>

\* Token, method, host and port, policy: the order of the code's early returns.
Vet(c) ==
    LET r == req[c]
    IN  /\ pc[c] = "vet"
        /\ \/ ~r.auth /\ Say(c, "407") /\ Goto(c, "closed") /\ UNCHANGED denies
           \/ /\ r.auth /\ r.kind = "plain"
              /\ deny(c, r.host) /\ Say(c, "403") /\ Goto(c, "closed")
           \/ /\ r.auth /\ r.kind = "malformed"
              /\ Say(c, "400") /\ Goto(c, "closed") /\ UNCHANGED denies
           \/ /\ r.auth /\ r.kind = "connect" /\ ~permit(r.host, r.port)
              /\ deny(c, r.host) /\ Say(c, "403") /\ Goto(c, "closed")
           \/ /\ r.auth /\ r.kind = "connect" /\ permit(r.host, r.port)
              /\ Goto(c, "dial") /\ UNCHANGED <<denies, reply>>
        /\ UNCHANGED <<listening, req, expired, addr, peerVars>>

\* The name resolves to ip, whatever it was a moment ago: Control sees the address
\* that is being connected to.  200 goes out before the hello is looked at.
Dial(c, ip) ==
    /\ pc[c] = "dial"
    /\ ~isBlockedIP(ip)
    /\ addr' = [addr EXCEPT ![c] = ip]
    /\ Say(c, "200")
    /\ Goto(c, IF req[c].port = TlsPort THEN "hello" ELSE "clear")
    /\ UNCHANGED <<listening, req, expired, denies, peerVars>>

\* Mutant: each failed attempt is reported and followed by another.
DialRetries(c) ==
    /\ pc[c] = "dial"
    /\ deny(c, req[c].host)
    /\ UNCHANGED <<listening, pc, req, expired, addr, reply, peerVars>>

\* A blocked address, no such name, no answer within ten seconds.
DialFails(c) ==
    /\ pc[c] = "dial"
    /\ deny(c, req[c].host) /\ Say(c, "502") /\ Goto(c, "closed")
    /\ UNCHANGED <<listening, req, expired, addr, peerVars>>

\* Mutant: a hello without a usable name goes through.
HelloPasses(c) == SniIs(hello[c], req[c].host) \/ ~PeekSucceeds(hello[c])

\* err == nil and the names agree.
HelloAgrees(c) == PeekSucceeds(hello[c]) /\ SniIs(hello[c], req[c].host)

\* peekSNI has its answer: the bytes are there, or the client stopped.  What has
\* not been read when the deadline passes or the client resets is lost.
CheckHello(c) ==
    /\ pc[c] = "hello"
    /\ \/ HelloAgrees(c) /\ Goto(c, "clear") /\ UNCHANGED denies
       \/ /\ \/ c \in expired \cup clientGone
             \/ ~HelloAgrees(c) /\ (hello[c] # NoHello \/ c \in clientEOF)
          /\ Goto(c, "closed") /\ deny(c, req[c].host)
    /\ UNCHANGED <<listening, req, expired, addr, reply, peerVars>>

\* SetDeadline(zero), and the copying goroutine is started.
StartSplice(c) ==
    /\ pc[c] = "clear"
    /\ Goto(c, "splice")
    /\ expired' = expired \ {c}
    /\ UNCHANGED <<listening, req, addr, reply, denies, peerVars>>

\* The goroutine: the client's EOF (or error) is passed on.
CopyUp(c) ==
    /\ pc[c] = "splice"
    /\ c \in clientEOF \cup clientGone /\ c \notin halfClosed
    /\ halfClosed' = halfClosed \cup {c}
    /\ UNCHANGED <<listening, pc, req, hello, expired, addr, reply, denies,
                   clientEOF, clientGone, upEOF>>

\* Mutant: the client's EOF ends the tunnel.
CloseOnAnyEOF(c) ==
    /\ pc[c] = "splice"
    /\ c \in upEOF \cup clientEOF \cup clientGone
    /\ Goto(c, "ended")
    /\ UNCHANGED <<listening, req, expired, addr, reply, denies, peerVars>>

\* io.Copy(conn, upStream) ends: EOF from upstream, or a client that is gone to
\* write to.  Both connections are closed.
CopyDown(c) ==
    /\ pc[c] = "splice"
    /\ c \in upEOF \cup clientGone
    /\ Goto(c, "ended")
    /\ UNCHANGED <<listening, req, expired, addr, reply, denies, peerVars>>

-----------------------------------------------------------------------------
(* Everybody else                                                           *)

\* Mutant: the deadline is set after the request has been read.
ExpireLate(c) ==
    /\ pc[c] \in {"vet", "dial", "hello", "clear"} /\ c \notin expired
    /\ expired' = expired \cup {c}
    /\ UNCHANGED <<listening, pc, req, addr, reply, denies, peerVars>>

\* Thirty seconds are over before the splice.
Expire(c) ==
    /\ pc[c] \in {"request", "vet", "dial", "hello", "clear"} /\ c \notin expired
    /\ expired' = expired \cup {c}
    /\ UNCHANGED <<listening, pc, req, addr, reply, denies, peerVars>>

ClientHello(c, h) ==
    /\ pc[c] \in {"hello", "clear", "splice"} /\ hello[c] = NoHello
    /\ c \notin clientEOF \cup clientGone
    /\ hello' = [hello EXCEPT ![c] = h]
    /\ UNCHANGED <<listening, pc, req, expired, addr, reply, denies,
                   clientEOF, clientGone, upEOF, halfClosed>>

ClientStops(c) ==
    /\ pc[c] \in {"hello", "clear", "splice"} /\ c \notin clientEOF
    /\ clientEOF' = clientEOF \cup {c}
    /\ UNCHANGED <<listening, pc, req, hello, expired, addr, reply, denies,
                   clientGone, upEOF, halfClosed>>

ClientResets(c) ==
    /\ pc[c] \in {"hello", "clear", "splice"} /\ c \notin clientGone
    /\ clientGone' = clientGone \cup {c}
    /\ clientEOF' = clientEOF \cup {c}
    /\ UNCHANGED <<listening, pc, req, hello, expired, addr, reply, denies, upEOF, halfClosed>>

UpstreamStops(c) ==
    /\ pc[c] \in {"hello", "clear", "splice"} /\ c \notin upEOF
    /\ upEOF' = upEOF \cup {c}
    /\ UNCHANGED <<listening, pc, req, hello, expired, addr, reply, denies,
                   clientEOF, clientGone, halfClosed>>

\* The signal handler of runEnforcer: tunnels go on.
Close ==
    /\ listening
    /\ listening' = FALSE
    /\ UNCHANGED <<pc, req, expired, addr, reply, denies, peerVars>>

-----------------------------------------------------------------------------
Handle(c) ==
    \/ RequestFails(c) /\ c \in expired
    \/ Vet(c)
    \/ \E ip \in {"public", "private"} : Dial(c, ip)
    \/ DialFails(c) \/ CheckHello(c) \/ StartSplice(c) \/ CopyUp(c) \/ CopyDown(c)

Peers(c) ==
    \/ \E r \in Requests : ReadRequest(c, r)
    \/ RequestFails(c)
    \/ \E h \in Hellos : ClientHello(c, h)
    \/ ClientStops(c) \/ ClientResets(c) \/ UpstreamStops(c)

Next ==
    \/ \E c \in Conns : Accept(c) \/ Handle(c) \/ Peers(c) \/ Expire(c)
    \/ Close

\* A goroutine keeps running and the clock keeps ticking; peers do as they like, except
\* that an upstream goes on taking what the client sends: CopyUp stands for the end of
\* an io.Copy whose writes have no deadline.
Spec ==
    /\ Init /\ [][Next]_vars
    /\ \A c \in Conns : WF_vars(Handle(c)) /\ WF_vars(Expire(c))

-----------------------------------------------------------------------------
TypeOK ==
    /\ listening \in BOOLEAN
    /\ pc \in [Conns -> {"new", "request", "vet", "dial", "hello", "clear", "splice", "closed", "ended"}]
    /\ \A c \in Conns : /\ req[c] \in Requests \cup {NoRequest}
                        /\ hello[c] \in Hellos \cup {NoHello}
                        /\ denies[c] \in 0 .. 1
    /\ addr \in [Conns -> {"none", "public", "private"}]
    /\ reply \in [Conns -> {"none", "200", "400", "403", "407", "502"}]
    /\ expired \cup clientEOF \cup clientGone \cup upEOF \cup halfClosed \subseteq Conns

\* The host is one of the policy's, said of names: itself, or below a wildcard's, with
\* something in front of it.
Listed(host) ==
    \E p \in AllowedHosts :
        \/ ~p.wild /\ p.labels = host.labels
        \/ p.wild /\ \E k \in 2 .. Len(host.labels) :
              /\ SubSeq(host.labels, k, Len(host.labels)) = p.labels
              /\ SubSeq(host.labels, 1, k - 1) # <<"">>

(***************************************************************************)
(* A tunnel leads where the policy allows, whatever client, name server    *)
(* and clock did meanwhile: asked for with the token, to a listed host and *)
(* port that was not given as an address, at a public address, and on the  *)
(* TLS port under the host's own name.                                     *)
(***************************************************************************)
TunnelAsPromised ==
    \A c \in Conns : pc[c] = "splice" =>
        /\ req[c].auth /\ req[c].kind = "connect"
        /\ Listed(req[c].host) /\ req[c].port \in AllowedPorts
        /\ req[c].host.literal => AllowIPLiteral
        /\ addr[c] = "public"
        /\ req[c].port = TlsPort => hello[c].tls /\ hello[c].sni = req[c].host.labels

(***************************************************************************)
(* The audit tells refusals from tunnels: a client with the token that     *)
(* asked a proper question and got no tunnel is reported exactly once      *)
(* (telemetry never), and one that got its tunnel is not.                  *)
(***************************************************************************)
RefusalReportedOnce ==
    \A c \in Conns :
        /\ pc[c] \in {"splice", "ended"} => denies[c] = 0
        /\ pc[c] = "closed" /\ req[c] # NoRequest =>
              denies[c] = IF /\ req[c].auth /\ req[c].kind # "malformed"
                             /\ ~isTelemetryHost(req[c].host)
                          THEN 1 ELSE 0

\* Every connection is decided in bounded time, however slow its client is.
ConnectionDecided == \A c \in Conns : (pc[c] = "request") ~> pc[c] \in {"splice", "closed"}

(***************************************************************************)
(* A client that has said all it has to say still gets its answer: the two *)
(* goroutines of the splice see to it that the upstream learns of the      *)
(* client's EOF (it may be waiting for it to answer) before the tunnel is  *)
(* taken down, unless the upstream is done or the client is gone.          *)
(***************************************************************************)
HalfCloseIsPassedOn ==
    \A c \in Conns : (pc[c] = "splice" /\ c \in clientEOF) ~> (c \in halfClosed \cup upEOF \cup clientGone)

(***************************************************************************)
(* peekSNI "assumes the ClientHello fits in a single TLS record": a hello  *)
(* in one record, of a length peekSNI admits, that names the host and      *)
(* arrived in time is not what a connection is refused for.                *)
(***************************************************************************)
SingleRecordHelloPasses ==
    \A c \in Conns : (pc[c] = "closed" /\ reply[c] = "200" /\ c \notin expired \cup clientGone) =>
        ~(/\ req[c].port = TlsPort /\ denies[c] > 0
          /\ hello[c].tls /\ hello[c].total <= hello[c].len /\ hello[c].len \in 1 .. MaxRecord
          /\ hello[c].sni = req[c].host.labels)
=============================================================================
