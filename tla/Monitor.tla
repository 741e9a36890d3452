------------------------------ MODULE Monitor -------------------------------
(***************************************************************************)
(* A reference monitor, which is what the file and exec hooks are to be:   *)
(* a call is owed the verdict of the rules on its own arguments; it is     *)
(* answered once, with that verdict, in one step, whatever else goes on; a *)
(* refusal leaves its record unless there is no room, and then only the    *)
(* record is lost.  The one thing that can spoil a call is another one     *)
(* that uses the same scratch buffer at the same site before the answer.   *)
(***************************************************************************)
EXTENDS Naturals

CONSTANTS
    Callers,           \* who makes calls, each one at a time
    RingCap,           \* records that can wait to be read
    Verdict(_, _),     \* Verdict(r, c): is call c to be refused by rules r, and with which record?
    SameBuffer(_, _),  \* do two calls work in the same buffer of their site?
    NoCall,
    NoRecord

VARIABLES
    rules,
    stage,     \* stage[t]: "idle", "running" or "done"
    asked,     \* asked[t]: the call
    site,      \* site[t]: where it is worked on
    spoilt,    \* spoilt[t]: has another call got in its way?
    answer,    \* answer[t]: was it refused, and which record did it leave?
    unread     \* records waiting

monitorVars == <<rules, stage, asked, site, spoilt, answer, unread>>

NoAnswer == [denied |-> FALSE, record |-> NoRecord]

MonitorInit ==
    /\ stage = [t \in Callers |-> "idle"]
    /\ asked = [t \in Callers |-> NoCall]
    /\ spoilt = [t \in Callers |-> FALSE]
    /\ answer = [t \in Callers |-> NoAnswer]
    /\ unread = 0

\* Call c of t, at site s, gets in the way of the calls it shares a buffer with.
Spoil(t, s, c) ==
    spoilt' = [u \in Callers |-> \/ spoilt[u]
                                 \/ u # t /\ stage[u] = "running" /\ site[u] = s /\ SameBuffer(asked[u], c)]

\* A call is made.
Ask(t) ==
    /\ stage[t] = "idle"
    /\ stage' = [stage EXCEPT ![t] = "running"]
    /\ asked' = [asked EXCEPT ![t] = asked'[t]]
    /\ site' = [site EXCEPT ![t] = site'[t]]
    /\ Spoil(t, site'[t], asked'[t])
    /\ UNCHANGED <<rules, answer, unread>>

\* One that is not to be refused may be let through on the spot.
Pass(t) ==
    /\ stage[t] = "idle"
    /\ stage' = [stage EXCEPT ![t] = "done"]
    /\ asked' = [asked EXCEPT ![t] = asked'[t]]
    /\ site' = [site EXCEPT ![t] = site'[t]]
    /\ ~Verdict(rules, asked'[t]).denied
    /\ UNCHANGED <<rules, spoilt, answer, unread>>

\* A call that is looked at twice uses its buffer twice.
LookAgain(t) ==
    /\ stage[t] = "running"
    /\ Spoil(t, site[t], asked[t])
    /\ UNCHANGED <<rules, stage, asked, site, answer, unread>>

\* The answer: the verdict of the rules, or anything if the call is spoilt.
Decide(t) ==
    /\ stage[t] = "running"
    /\ stage' = [stage EXCEPT ![t] = "done"]
    /\ LET v == IF spoilt[t] THEN answer'[t] ELSE Verdict(rules, asked[t])
           told == v.denied /\ unread < RingCap
       IN  /\ answer' = [answer EXCEPT ![t] = [denied |-> v.denied,
                                               record |-> IF told THEN v.record ELSE NoRecord]]
           /\ unread' = IF told THEN unread + 1 ELSE unread
    /\ UNCHANGED <<rules, asked, site, spoilt>>

Leave(t) ==
    /\ stage[t] = "done"
    /\ stage' = [stage EXCEPT ![t] = "idle"]
    /\ asked' = [asked EXCEPT ![t] = NoCall]
    /\ site' = [site EXCEPT ![t] = site'[t]]
    /\ spoilt' = [spoilt EXCEPT ![t] = FALSE]
    /\ answer' = [answer EXCEPT ![t] = NoAnswer]
    /\ UNCHANGED <<rules, unread>>

Read ==
    /\ unread > 0
    /\ unread' = unread - 1
    /\ UNCHANGED <<rules, stage, asked, site, spoilt, answer>>

MonitorNext ==
    \/ \E t \in Callers : Ask(t) \/ Pass(t) \/ LookAgain(t) \/ Decide(t) \/ Leave(t)
    \/ Read

MonitorSpec == MonitorInit /\ [][MonitorNext]_monitorVars
=============================================================================
