----------------------------- MODULE MCFeedback -----------------------------
(***************************************************************************)
(* Refusals for Feedback: one with a long text and a quiet one from the    *)
(* ring (which holds one record), one with a short text and one with       *)
(* blanks from the proxy, and a telemetry one.  Not all of them happen in  *)
(* one behaviour: Turnouts says which do together, and the database works  *)
(* where there are two texts.                                              *)
(***************************************************************************)
EXTENDS Feedback

CONSTANTS Long, Quiet, Short, Blanks, Telemetry

MCSource == [d \in Denials |-> CASE d \in {Long, Quiet} -> "lsm"
                                 [] d \in {Short, Blanks} -> "proxy"
                                 [] d = Telemetry -> "telemetry"]
MCSize == [d \in Denials |-> CASE d = Long -> 2
                               [] d = Quiet -> 0
                               [] d \in {Short, Blanks, Telemetry} -> 1]

Turnouts == {{Long, Quiet, Telemetry}, {Blanks, Quiet}, {Long, Short}}
Started == {d \in Denials : pc[d] # "before"}

TurnoutBound ==
    /\ \E turnout \in Turnouts : Started' \subseteq turnout
    /\ Short \in Started' => \A d \in Denials : pc'[d] # "unrecorded"
=============================================================================
