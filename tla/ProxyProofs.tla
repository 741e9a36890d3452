----------------------------- MODULE ProxyProofs -----------------------------
(***************************************************************************)
(* Theorems about module Proxy, for any number of connections, any policy  *)
(* and whatever clients ask for and send.                                  *)
(***************************************************************************)
EXTENDS Proxy, TLAPS

PCs == {"new", "request", "vet", "dial", "hello", "clear", "splice", "closed", "ended"}

Shapes ==
    /\ listening \in BOOLEAN
    /\ pc \in [Conns -> PCs]
    /\ req \in [Conns -> Requests \cup {NoRequest}]
    /\ hello \in [Conns -> Hellos \cup {NoHello}]
    /\ addr \in [Conns -> {"none", "public", "private"}]
    /\ reply \in [Conns -> {"none", "200", "400", "403", "407", "502"}]
    /\ denies \in [Conns -> 0 .. 1]
    /\ expired \subseteq Conns /\ clientEOF \subseteq Conns /\ clientGone \subseteq Conns
    /\ upEOF \subseteq Conns /\ halfClosed \subseteq Conns

\* A refusal that deny is called for, telemetry left aside.
Reportable(r) == r.auth /\ r.kind # "malformed" /\ ~isTelemetryHost(r.host)

(***************************************************************************)
(* What handle has found out by the time it is where it is.  deny is only  *)
(* called on the way out, so nothing is counted before "closed"; the hello *)
(* of a tunnel cannot change any more, because a client sends it once.     *)
(***************************************************************************)
ConnOK(c) ==
    /\ pc[c] \in {"new", "request"} => req[c] = NoRequest
    /\ pc[c] \in {"vet", "dial", "hello", "clear", "splice", "ended"} => req[c] \in Requests
    /\ pc[c] \in {"dial", "hello", "clear", "splice"} =>
          /\ req[c].auth /\ req[c].kind = "connect"
          /\ permit(req[c].host, req[c].port)
    /\ pc[c] \in {"hello", "clear", "splice"} => addr[c] = "public"
    /\ pc[c] \in {"clear", "splice"} /\ req[c].port = TlsPort => HelloAgrees(c)
    /\ pc[c] # "closed" => denies[c] = 0
    /\ pc[c] = "closed" /\ req[c] # NoRequest => denies[c] = IF Reportable(req[c]) THEN 1 ELSE 0

PInv == Shapes /\ \A c \in Conns : ConnOK(c)

-----------------------------------------------------------------------------
(***************************************************************************)
(* permit lets a host through that the policy lists: the suffix test of    *)
(* hostMatches is the search for a parent domain.                          *)
(***************************************************************************)
LEMMA PermittedIsListed ==
    ASSUME NEW r \in Requests, permit(r.host, r.port)
    PROVE  Listed(r.host) /\ r.port \in AllowedPorts /\ (r.host.literal => AllowIPLiteral)
<1>1. PICK p \in AllowedHosts : hostMatches(p, r.host)
  BY DEF permit
<1>2. p.labels \in Seq(STRING) /\ p.labels # <<>> /\ p.wild \in BOOLEAN
  BY NamesAssumption DEF Labels
<1>3. r.host.labels \in Seq(STRING)
  BY NamesAssumption DEF Labels
<1>4. Len(p.labels) \in Nat /\ Len(p.labels) > 0 /\ Len(r.host.labels) \in Nat
  BY <1>2, <1>3
<1>5. CASE p.wild
  <2>0. Len(r.host.labels) - Len(p.labels) > 0
    BY <1>1, <1>5 DEF hostMatches
  <2>. DEFINE n == Len(r.host.labels) - Len(p.labels)
  <2>1. \A a, b \in Nat : b > 0 /\ a - b > 0 =>
            a - b \in 1 .. a /\ (a - b) + 1 \in 2 .. a /\ ((a - b) + 1) - 1 = a - b
    OBVIOUS
  <2>2. n \in 1 .. Len(r.host.labels) /\ n + 1 \in 2 .. Len(r.host.labels) /\ (n + 1) - 1 = n
    BY <1>4, <2>0, <2>1
  <2>3. /\ SubSeq(r.host.labels, n + 1, Len(r.host.labels)) = p.labels
        /\ n = 1 => r.host.labels[1] # ""
    BY <1>1, <1>5 DEF hostMatches
  <2>. HIDE DEF n
  <2>4. SubSeq(r.host.labels, 1, n) # <<"">>
    <3>1. /\ Len(SubSeq(r.host.labels, 1, n)) = n
          /\ SubSeq(r.host.labels, 1, n)[1] = r.host.labels[1]
      BY <1>3, <2>2
    <3>2. Len(<<"">>) = 1 /\ <<"">>[1] = ""
      OBVIOUS
    <3>3. QED
      BY <2>3, <3>1, <3>2
  <2>5. SubSeq(r.host.labels, 1, (n + 1) - 1) # <<"">>
    BY <2>2, <2>4
  <2>6. \E k \in 2 .. Len(r.host.labels) :
            /\ SubSeq(r.host.labels, k, Len(r.host.labels)) = p.labels
            /\ SubSeq(r.host.labels, 1, k - 1) # <<"">>
    BY <2>2, <2>3, <2>5
  <2>7. QED
    BY <1>5, <2>6 DEF Listed, permit
<1>6. CASE ~p.wild
  BY <1>1, <1>6 DEF hostMatches, Listed, permit
<1>7. QED
  BY <1>5, <1>6

LEMMA InitPInv == Init => PInv
BY DEF Init, PInv, Shapes, ConnOK, PCs, NoRequest, NoHello, HelloAgrees

\* Nobody's variables but c's change.
Only(c) ==
    \A k \in Conns \ {c} :
        /\ pc'[k] = pc[k] /\ req'[k] = req[k] /\ hello'[k] = hello[k]
        /\ addr'[k] = addr[k] /\ denies'[k] = denies[k]

\* A connection on which nothing happens stays as it is.
LEMMA OthersKeep ==
    ASSUME NEW c \in Conns, Only(c), \A k \in Conns : ConnOK(k), ConnOK(c)'
    PROVE  \A k \in Conns : ConnOK(k)'
<1>1. ASSUME NEW k \in Conns, k # c PROVE ConnOK(k)'
  BY <1>1 DEF Only, ConnOK, HelloAgrees, Reportable
<1>2. QED
  BY <1>1

LEMMA AcceptKeeps ==
    ASSUME PInv, NEW c \in Conns, Accept(c)
    PROVE  PInv'
<1>1. Shapes'
  BY DEF PInv, Shapes, PCs, Accept, Goto, peerVars
<1>2. ConnOK(c)' /\ Only(c)
  BY DEF PInv, Shapes, ConnOK, Only, Accept, Goto, peerVars
<1>3. QED
  BY <1>1, <1>2, OthersKeep DEF PInv

LEMMA RequestKeeps ==
    ASSUME PInv, NEW c \in Conns,
           RequestFails(c) \/ \E r \in Requests : ReadRequest(c, r)
    PROVE  PInv'
<1>1. Shapes'
  BY DEF PInv, Shapes, PCs, RequestFails, ReadRequest, Goto, peerVars
<1>2. ConnOK(c)' /\ Only(c)
  <2>1. CASE RequestFails(c)
    BY <2>1 DEF PInv, Shapes, ConnOK, Only, RequestFails, Goto, peerVars
  <2>2. CASE \E r \in Requests : ReadRequest(c, r)
    BY <2>2 DEF PInv, Shapes, ConnOK, Only, ReadRequest, Goto, peerVars
  <2>3. QED
    BY <2>1, <2>2
<1>3. QED
  BY <1>1, <1>2, OthersKeep DEF PInv

\* deny counts once, and telemetry not at all.
LEMMA DenyCounts ==
    ASSUME Shapes, NEW c \in Conns, NEW host, deny(c, host), denies[c] = 0
    PROVE  /\ denies' \in [Conns -> 0 .. 1]
           /\ denies'[c] = IF isTelemetryHost(host) THEN 0 ELSE 1
           /\ \A k \in Conns \ {c} : denies'[k] = denies[k]
BY DEF Shapes, deny

LEMMA VetKeeps ==
    ASSUME PInv, NEW c \in Conns, Vet(c)
    PROVE  PInv'
<1>. DEFINE r == req[c]
<1>1. /\ r \in Requests /\ r.auth \in BOOLEAN /\ denies[c] = 0 /\ pc[c] = "vet"
      /\ req' = req /\ hello' = hello /\ addr' = addr
      /\ listening' = listening /\ expired' = expired /\ clientEOF' = clientEOF
      /\ clientGone' = clientGone /\ upEOF' = upEOF /\ halfClosed' = halfClosed
  BY NamesAssumption DEF PInv, ConnOK, Vet, peerVars
<1>2. CASE ~r.auth /\ Say(c, "407") /\ Goto(c, "closed") /\ UNCHANGED denies
  <2>1. Shapes'
    BY <1>1, <1>2 DEF PInv, Shapes, PCs, Say, Goto
  <2>2. ConnOK(c)' /\ Only(c)
    BY <1>1, <1>2 DEF PInv, Shapes, ConnOK, Only, Goto, Reportable
  <2>3. QED
    BY <2>1, <2>2, OthersKeep DEF PInv
<1>3. CASE /\ r.auth /\ r.kind = "plain"
           /\ deny(c, r.host) /\ Say(c, "403") /\ Goto(c, "closed")
  <2>0. Shapes
    BY DEF PInv
  <2>1. /\ denies' \in [Conns -> 0 .. 1]
        /\ denies'[c] = IF isTelemetryHost(r.host) THEN 0 ELSE 1
        /\ \A k \in Conns \ {c} : denies'[k] = denies[k]
    BY <1>1, <1>3, <2>0, DenyCounts
  <2>2. Shapes'
    BY <1>1, <1>3, <2>1 DEF PInv, Shapes, PCs, Say, Goto
  <2>3. ConnOK(c)' /\ Only(c)
    BY <1>1, <1>3, <2>1 DEF PInv, Shapes, ConnOK, Only, Goto, Reportable
  <2>4. QED
    BY <2>2, <2>3, OthersKeep DEF PInv
<1>4. CASE /\ r.auth /\ r.kind = "malformed"
           /\ Say(c, "400") /\ Goto(c, "closed") /\ UNCHANGED denies
  <2>1. Shapes'
    BY <1>1, <1>4 DEF PInv, Shapes, PCs, Say, Goto
  <2>2. ConnOK(c)' /\ Only(c)
    BY <1>1, <1>4 DEF PInv, Shapes, ConnOK, Only, Goto, Reportable
  <2>3. QED
    BY <2>1, <2>2, OthersKeep DEF PInv
<1>5. CASE /\ r.auth /\ r.kind = "connect" /\ ~permit(r.host, r.port)
           /\ deny(c, r.host) /\ Say(c, "403") /\ Goto(c, "closed")
  <2>0. Shapes
    BY DEF PInv
  <2>1. /\ denies' \in [Conns -> 0 .. 1]
        /\ denies'[c] = IF isTelemetryHost(r.host) THEN 0 ELSE 1
        /\ \A k \in Conns \ {c} : denies'[k] = denies[k]
    BY <1>1, <1>5, <2>0, DenyCounts
  <2>2. Shapes'
    BY <1>1, <1>5, <2>1 DEF PInv, Shapes, PCs, Say, Goto
  <2>3. ConnOK(c)' /\ Only(c)
    BY <1>1, <1>5, <2>1 DEF PInv, Shapes, ConnOK, Only, Goto, Reportable
  <2>4. QED
    BY <2>2, <2>3, OthersKeep DEF PInv
<1>6. CASE /\ r.auth /\ r.kind = "connect" /\ permit(r.host, r.port)
           /\ Goto(c, "dial") /\ UNCHANGED <<denies, reply>>
  <2>1. Shapes'
    BY <1>1, <1>6 DEF PInv, Shapes, PCs, Goto
  <2>2. ConnOK(c)' /\ Only(c)
    BY <1>1, <1>6 DEF PInv, Shapes, ConnOK, Only, Goto
  <2>3. QED
    BY <2>1, <2>2, OthersKeep DEF PInv
<1>7. QED
  BY <1>2, <1>3, <1>4, <1>5, <1>6 DEF Vet

LEMMA DialKeeps ==
    ASSUME PInv, NEW c \in Conns, \E ip \in {"public", "private"} : Dial(c, ip)
    PROVE  PInv'
<1>1. PICK ip \in {"public", "private"} : Dial(c, ip)
  OBVIOUS
<1>2. ip = "public"
  BY <1>1 DEF Dial, isBlockedIP
<1>3. Shapes'
  BY <1>1 DEF PInv, Shapes, PCs, Dial, Say, Goto, peerVars
<1>4. ConnOK(c)' /\ Only(c)
  BY <1>1, <1>2 DEF PInv, Shapes, ConnOK, Only, Dial, Goto, peerVars
<1>5. QED
  BY <1>3, <1>4, OthersKeep DEF PInv

\* deny and away, from a point where the request has been found in order.
LEMMA RefusalKeeps ==
    ASSUME PInv, NEW c \in Conns, pc[c] \in {"dial", "hello"},
           deny(c, req[c].host), Goto(c, "closed"),
           reply' \in [Conns -> {"none", "200", "400", "403", "407", "502"}],
           UNCHANGED <<listening, req, expired, addr, peerVars>>
    PROVE  PInv'
<1>0. Shapes /\ denies[c] = 0
  BY DEF PInv, ConnOK
<1>1. /\ denies' \in [Conns -> 0 .. 1]
      /\ denies'[c] = IF isTelemetryHost(req[c].host) THEN 0 ELSE 1
      /\ \A k \in Conns \ {c} : denies'[k] = denies[k]
  BY <1>0, DenyCounts
<1>2. Shapes'
  BY <1>1 DEF PInv, Shapes, PCs, Goto, peerVars
<1>3. ConnOK(c)' /\ Only(c)
  BY <1>1 DEF PInv, Shapes, ConnOK, Only, Goto, Reportable, peerVars
<1>4. QED
  BY <1>2, <1>3, OthersKeep DEF PInv

LEMMA DialFailsKeeps ==
    ASSUME PInv, NEW c \in Conns, DialFails(c)
    PROVE  PInv'
<1>1. reply' \in [Conns -> {"none", "200", "400", "403", "407", "502"}]
  BY DEF PInv, Shapes, DialFails, Say
<1>2. QED
  BY <1>1, RefusalKeeps DEF DialFails

LEMMA CheckHelloKeeps ==
    ASSUME PInv, NEW c \in Conns, CheckHello(c)
    PROVE  PInv'
<1>1. CASE HelloAgrees(c) /\ Goto(c, "clear") /\ UNCHANGED denies
  <2>1. Shapes'
    BY <1>1 DEF PInv, Shapes, PCs, CheckHello, Goto, peerVars
  <2>2. HelloAgrees(c)'
    BY <1>1 DEF CheckHello, HelloAgrees, peerVars
  <2>3. ConnOK(c)' /\ Only(c)
    BY <1>1, <2>2 DEF PInv, Shapes, ConnOK, Only, CheckHello, Goto, peerVars
  <2>4. QED
    BY <2>1, <2>3, OthersKeep DEF PInv
<1>2. CASE Goto(c, "closed") /\ deny(c, req[c].host)
  <2>1. reply' \in [Conns -> {"none", "200", "400", "403", "407", "502"}]
    BY DEF PInv, Shapes, CheckHello
  <2>2. QED
    BY <1>2, <2>1, RefusalKeeps DEF CheckHello
<1>3. QED
  BY <1>1, <1>2 DEF CheckHello

LEMMA SpliceKeeps ==
    ASSUME PInv, NEW c \in Conns, StartSplice(c) \/ CopyUp(c) \/ CopyDown(c)
    PROVE  PInv'
<1>1. Shapes'
  BY DEF PInv, Shapes, PCs, StartSplice, CopyUp, CopyDown, Goto, peerVars
<1>2. CASE StartSplice(c)
  <2>1. HelloAgrees(c)' <=> HelloAgrees(c)
    BY <1>2 DEF StartSplice, HelloAgrees, peerVars
  <2>2. ConnOK(c)' /\ Only(c)
    BY <1>2, <2>1 DEF PInv, Shapes, ConnOK, Only, StartSplice, Goto, peerVars
  <2>3. QED
    BY <1>1, <2>2, OthersKeep DEF PInv
<1>3. CASE CopyUp(c)
  <2>1. ConnOK(c)' /\ Only(c)
    BY <1>3 DEF PInv, ConnOK, Only, CopyUp, HelloAgrees, Reportable
  <2>2. QED
    BY <1>1, <2>1, OthersKeep DEF PInv
<1>4. CASE CopyDown(c)
  <2>1. ConnOK(c)' /\ Only(c)
    BY <1>4 DEF PInv, Shapes, ConnOK, Only, CopyDown, Goto, peerVars
  <2>2. QED
    BY <1>1, <2>1, OthersKeep DEF PInv
<1>5. QED
  BY <1>2, <1>3, <1>4

\* The client's hello comes when the tunnel is not yet vetted, or needs no vetting.
LEMMA ClientHelloKeeps ==
    ASSUME PInv, NEW c \in Conns, NEW h \in Hellos, ClientHello(c, h)
    PROVE  PInv'
<1>1. Shapes'
  BY DEF PInv, Shapes, ClientHello
<1>2. ~HelloAgrees(c)
  BY DEF ClientHello, NoHello, HelloAgrees, PeekSucceeds
<1>3. ConnOK(c)' /\ Only(c)
  BY <1>2 DEF PInv, Shapes, ConnOK, Only, ClientHello, Reportable
<1>4. QED
  BY <1>1, <1>3, OthersKeep DEF PInv

\* EOFs, resets, the clock and the listener touch nothing ConnOK is about.
LEMMA QuietKeeps ==
    ASSUME PInv, Shapes', UNCHANGED <<pc, req, hello, addr, denies>>
    PROVE  PInv'
BY DEF PInv, ConnOK, HelloAgrees, Reportable

LEMMA WorldKeeps ==
    ASSUME PInv,
           \/ Close
           \/ \E c \in Conns : ClientStops(c) \/ ClientResets(c) \/ UpstreamStops(c) \/ Expire(c)
    PROVE  PInv'
<1>1. Shapes' /\ UNCHANGED <<pc, req, hello, addr, denies>>
  BY DEF PInv, Shapes, Close, ClientStops, ClientResets, UpstreamStops, Expire, peerVars
<1>2. QED
  BY <1>1, QuietKeeps

LEMMA StepKeepsPInv == PInv /\ [Next]_vars => PInv'
<1>1. CASE UNCHANGED vars
  <2>1. PInv => Shapes'
    BY <1>1 DEF PInv, Shapes, vars
  <2>2. QED
    BY <1>1, <2>1, QuietKeeps DEF vars
<1>2. ASSUME PInv, NEW c \in Conns, Accept(c) \/ Handle(c) \/ Peers(c) \/ Expire(c)
      PROVE  PInv'
  <2>1. CASE Accept(c)
    BY <1>2, <2>1, AcceptKeeps
  <2>2. CASE Handle(c)
    BY <1>2, <2>2, RequestKeeps, VetKeeps, DialKeeps, DialFailsKeeps, CheckHelloKeeps, SpliceKeeps
       DEF Handle
  <2>3. CASE Peers(c)
    BY <1>2, <2>3, RequestKeeps, ClientHelloKeeps, WorldKeeps DEF Peers
  <2>4. CASE Expire(c)
    BY <1>2, <2>4, WorldKeeps
  <2>5. QED
    BY <1>2, <2>1, <2>2, <2>3, <2>4
<1>3. PInv /\ Close => PInv'
  BY WorldKeeps
<1>4. QED
  BY <1>1, <1>2, <1>3 DEF Next

\* PInv holds throughout.
LEMMA ConnectionsInOrder == Spec => []PInv
<1>1. QED
  BY InitPInv, StepKeepsPInv, PTL DEF Spec

-----------------------------------------------------------------------------
\* Types, and that deny is called once at most for a connection.
THEOREM ProxyTypes == Spec => []TypeOK
<1>1. PInv => TypeOK
  BY DEF PInv, Shapes, TypeOK, PCs
<1>2. QED
  BY <1>1, ConnectionsInOrder, PTL

(***************************************************************************)
(* No tunnel but to a listed host and port, at a public address, and on    *)
(* the TLS port under the host's own name: what permit, the dialer's       *)
(* Control and peekSNI of handle come to together.                         *)
(***************************************************************************)
THEOREM TunnelsAsPromised == Spec => []TunnelAsPromised
<1>1. ASSUME PInv, NEW c \in Conns, pc[c] = "splice"
      PROVE  /\ req[c].auth /\ req[c].kind = "connect"
             /\ Listed(req[c].host) /\ req[c].port \in AllowedPorts
             /\ req[c].host.literal => AllowIPLiteral
             /\ addr[c] = "public"
             /\ req[c].port = TlsPort => hello[c].tls /\ hello[c].sni = req[c].host.labels
  <2>1. req[c] \in Requests /\ permit(req[c].host, req[c].port)
    BY <1>1 DEF PInv, ConnOK
  <2>2. Listed(req[c].host) /\ req[c].port \in AllowedPorts /\ (req[c].host.literal => AllowIPLiteral)
    BY <2>1, PermittedIsListed
  <2>3. QED
    BY <1>1, <2>2 DEF PInv, ConnOK, HelloAgrees, PeekSucceeds, SniIs
<1>2. PInv => TunnelAsPromised
  BY <1>1 DEF TunnelAsPromised
<1>3. QED
  BY <1>2, ConnectionsInOrder, PTL

(***************************************************************************)
(* handle calls deny on every way out that refuses a proper question, on   *)
(* each once, and on no other.                                             *)
(***************************************************************************)
THEOREM RefusalsAreReportedOnce == Spec => []RefusalReportedOnce
<1>1. PInv => RefusalReportedOnce
  BY DEF PInv, ConnOK, Reportable, RefusalReportedOnce
<1>2. QED
  BY <1>1, ConnectionsInOrder, PTL
=============================================================================
