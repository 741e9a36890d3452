------------------------------- MODULE MCProxy -------------------------------
(***************************************************************************)
(* One connection: two share the listener and nothing else.  The policy    *)
(* lists one host and one wildcard; the hosts asked for are listed, below  *)
(* the wildcard, exactly at it, at it after a dot, a telemetry host and a  *)
(* literal address.  Hellos name the host or another, are not TLS, go on   *)
(* in a second record behind the name or before it, or are longer than     *)
(* the buffer, as a record may be.                                         *)
(***************************************************************************)
EXTENDS Proxy

Host(labels) == [labels |-> labels, literal |-> FALSE]

Api == Host(<<"api", "ai">>)
Sub == Host(<<"x", "cdn", "net">>)
Apex == Host(<<"cdn", "net">>)
Dotted == Host(<<"", "cdn", "net">>)
Stats == Host(<<"statsig", "io">>)
Literal == [labels |-> <<"1.2.3.4">>, literal |-> TRUE]

Connect(host, port) == [auth |-> TRUE, kind |-> "connect", host |-> host, port |-> port]

MCRequests ==
    {Connect(h, 443) : h \in {Api, Sub, Apex, Dotted, Stats, Literal}}
      \cup {Connect(Api, 80), Connect(Api, 22)}
      \cup {[Connect(Api, 443) EXCEPT !.auth = FALSE],
            [Connect(Api, 443) EXCEPT !.kind = "plain"],
            [Connect(Api, 443) EXCEPT !.kind = "malformed"]}
OneRequest == {Connect(Api, 443)}

Hello(tls, len, total, sniEnd, sni) ==
    [tls |-> tls, len |-> len, total |-> total, sniEnd |-> sniEnd, sni |-> sni]

MCHellos == {Hello(TRUE, 500, 500, 200, Api.labels), Hello(TRUE, 500, 500, 200, Sub.labels),
             Hello(FALSE, 500, 500, 200, Api.labels), Hello(TRUE, 500, 500, 0, <<>>),
             Hello(TRUE, 300, 500, 200, Api.labels), Hello(TRUE, 100, 500, 200, Api.labels),
             Hello(TRUE, 5000, 5000, 200, Api.labels)}
BigHello == {Hello(TRUE, 5000, 5000, 200, Api.labels)}

MCAllowedHosts == {[wild |-> FALSE, labels |-> <<"api", "ai">>],
                   [wild |-> TRUE, labels |-> <<"cdn", "net">>],
                   [wild |-> FALSE, labels |-> <<"1.2.3.4">>]}
MCTelemetry == {Stats.labels}
=============================================================================
