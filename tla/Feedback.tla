------------------------------ MODULE Feedback ------------------------------
(***************************************************************************)
(* How a refusal is recorded and told to the agent.  A refusal reaches     *)
(* userspace either through the violations ring, drained by one goroutine, *)
(* or in the goroutine of a proxy connection.  Both look up the session in *)
(* active_session, leave the policy's text in <session>.json and in        *)
(* latest.json, and write an audit row.  The agent runs `agentguard hook`  *)
(* before and after each tool: a process that registers its session in     *)
(* active_session and, after a tool, picks a text up, removes the files    *)
(* and prints it.                                                          *)
(*                                                                         *)
(* All of this meets in plain files without locks.  os.WriteFile truncates *)
(* and then writes; os.Remove unlinks a file somebody may be writing to;   *)
(* every such call is a step of its own.  One os.ReadFile is one step, and *)
(* session ids have one length (two agents of the same kind).              *)
(***************************************************************************)
EXTENDS Integers, Sequences

CONSTANTS
    Sessions,     \* session ids isHookSessionID accepts
    Denials,      \* refusals
    Source,       \* Source[d]: "lsm", "proxy" or "telemetry" (a proxy denial of a telemetry host)
    Size,         \* Size[d]: length of d's JSON; 0 if its policy has no feedback text
    Hooks,        \* hook processes that can run at a time
    RingCap,      \* records the violations ring holds
    Blank,        \* refusals whose policy has a text of blanks only
    HookDeaths,   \* hook processes that are killed half way, at most
    DbFails       \* whether an insert into the audit database can fail

ASSUME SourceAssumption == Source \in [Denials -> {"lsm", "proxy", "telemetry"}]
ASSUME SizeAssumption == Size \in [Denials -> Nat]
ASSUME RingAssumption == RingCap \in Nat
ASSUME BlankAssumption == Blank \subseteq Denials
ASSUME FaultAssumption == HookDeaths \in Nat /\ DbFails \in BOOLEAN

NoSession == "no session"
Latest == "latest"
Files == Sessions \cup {Latest}

\* Markers are neither refusals nor session ids (which are no file name of ours).
ASSUME MarkersAssumption ==
    /\ Denials \cap {"none", "absent", "empty", "garbled"} = {}
    /\ Sessions \cap {NoSession, Latest, "absent", "empty"} = {}

\* A file: the denial whose JSON it holds, or one of the markers, and its length.
Absent == [body |-> "absent", len |-> 0]
Truncated == [body |-> "empty", len |-> 0]

VARIABLES
    ring,       \* the violations ring, oldest first
    pc,         \* pc[d]: where the handling of d is
    tries,      \* tries[d]: reads of active_session so far, while it is read
    sid,        \* sid[d]: what resolveSessionID returned
    orphan,     \* denials whose open file was unlinked under them
    sent,       \* sent[d]: feedbackSent
    rows,       \* rows[d]: audit rows about d
    file,       \* the files of violationStoreDir
    active,     \* active_session: a session, "empty" (truncated) or "absent"
    hook,       \* hook[h]: a hook process
    delivered,  \* denials whose text a hook has printed
    perished,   \* ghost: denials whose text a hook held when it was killed
    deaths      \* hooks killed so far

denyVars == <<ring, pc, tries, sid, sent, rows>>
vars == <<ring, pc, tries, sid, orphan, sent, rows, file, active, hook, delivered, perished, deaths>>

HookIdle == [pc |-> "idle", kind |-> "none", s |-> NoSession, got |-> "none", from |-> Latest]

Handling == {"resolve", "open session", "write session", "open latest", "write latest", "audit"}

Init ==
    /\ ring = <<>>
    /\ pc = [d \in Denials |-> "before"]
    /\ tries = [d \in Denials |-> 0]
    /\ sid = [d \in Denials |-> NoSession]
    /\ orphan = {}
    /\ sent = [d \in Denials |-> FALSE]
    /\ rows = [d \in Denials |-> 0]
    /\ file = [f \in Files |-> Absent]
    /\ active = "absent"
    /\ hook = [h \in Hooks |-> HookIdle]
    /\ delivered = {} /\ perished = {} /\ deaths = 0

-----------------------------------------------------------------------------
(* Refusals reach userspace                                                 *)

\* Mutant: a record is queued whether or not there is room.
RingUnbounded(d) ==
    /\ Source[d] = "lsm" /\ pc[d] = "before"
    /\ ring' = Append(ring, d) /\ pc' = [pc EXCEPT ![d] = "queued"]
    /\ UNCHANGED <<tries, sid, orphan, sent, rows, file, active, hook, delivered, perished, deaths>>

\* An LSM hook reserves a record in the ring, or finds it full.
LsmDenies(d) ==
    /\ Source[d] = "lsm" /\ pc[d] = "before"
    /\ IF Len(ring) < RingCap
       THEN ring' = Append(ring, d) /\ pc' = [pc EXCEPT ![d] = "queued"]
       ELSE pc' = [pc EXCEPT ![d] = "dropped"] /\ UNCHANGED ring
    /\ UNCHANGED <<tries, sid, orphan, sent, rows, file, active, hook, delivered, perished, deaths>>

\* The reader goroutine takes the next record when it is done with the last one.
ReadRecord ==
    /\ ring # <<>>
    /\ \A d \in Denials : Source[d] = "lsm" => pc[d] \notin Handling
    /\ pc' = [pc EXCEPT ![Head(ring)] = "resolve"]
    /\ ring' = Tail(ring)
    /\ UNCHANGED <<tries, sid, orphan, sent, rows, file, active, hook, delivered, perished, deaths>>

\* deny in the goroutine of a connection; telemetry hosts are only logged.
ProxyDenies(d) ==
    /\ Source[d] # "lsm" /\ pc[d] = "before"
    /\ pc' = [pc EXCEPT ![d] = IF Source[d] = "telemetry" THEN "done" ELSE "resolve"]
    /\ UNCHANGED <<ring, tries, sid, orphan, sent, rows, file, active, hook, delivered, perished, deaths>>

\* Mutant: a refusal no session is known for is dropped.
AuditNeedsSession(d) ==
    /\ pc[d] = "resolve" /\ active \notin Sessions /\ tries[d] = 2
    /\ pc' = [pc EXCEPT ![d] = "done"]
    /\ tries' = [tries EXCEPT ![d] = 0]
    /\ UNCHANGED sid

\* Mutant: active_session is read until it holds a session.
SessionAwaited(d) ==
    /\ pc[d] = "resolve" /\ active \notin Sessions /\ tries[d] = 2
    /\ UNCHANGED <<pc, tries, sid>>

\* resolveSessionID without an answer after three reads: no IPC, but an audit
\* row.  Nothing ever fills sessionIDByPid, so its two fallbacks find nothing.
NoSessionFound(d) ==
    /\ pc[d] = "resolve" /\ active \notin Sessions /\ tries[d] = 2
    /\ pc' = [pc EXCEPT ![d] = "audit"]
    /\ tries' = [tries EXCEPT ![d] = 0]
    /\ UNCHANGED sid

\* One read of active_session.
ResolveSessionID(d) ==
    /\ \/ /\ pc[d] = "resolve" /\ active \in Sessions
          /\ sid' = [sid EXCEPT ![d] = active]
          /\ pc' = [pc EXCEPT ![d] = IF Size[d] = 0 THEN "audit" ELSE "open session"]
          /\ tries' = [tries EXCEPT ![d] = 0]
       \/ /\ pc[d] = "resolve" /\ active \notin Sessions /\ tries[d] < 2
          /\ tries' = [tries EXCEPT ![d] = @ + 1]
          /\ UNCHANGED <<pc, sid>>
       \/ NoSessionFound(d)
    /\ UNCHANGED <<ring, orphan, sent, rows, file, active, hook, delivered, perished, deaths>>

-----------------------------------------------------------------------------
(* writePendingViolation                                                    *)

\* The file d is writing.
Target(d) == IF pc[d] \in {"open session", "write session"} THEN sid[d] ELSE Latest

\* A write of size n at offset 0 into what is there; a longer text shows behind it.
Overlay(d, old) ==
    [body |-> IF Size[d] >= old.len THEN d ELSE "garbled",
     len |-> IF Size[d] >= old.len THEN Size[d] ELSE old.len]

OpenFile(d) ==
    /\ pc[d] \in {"open session", "open latest"}
    /\ file' = [file EXCEPT ![Target(d)] = Truncated]
    /\ pc' = [pc EXCEPT ![d] = IF @ = "open session" THEN "write session" ELSE "write latest"]
    /\ orphan' = orphan \ {d}
    /\ UNCHANGED <<ring, tries, sid, sent, rows, active, hook, delivered, perished, deaths>>

\* The write succeeds even if the file has been unlinked meanwhile.
WriteFile(d) ==
    /\ pc[d] \in {"write session", "write latest"}
    /\ file' = IF d \in orphan THEN file
               ELSE [file EXCEPT ![Target(d)] = Overlay(d, @)]
    /\ pc' = [pc EXCEPT ![d] = IF @ = "write session" THEN "open latest" ELSE "audit"]
    /\ sent' = [sent EXCEPT ![d] = pc[d] = "write latest"]
    /\ orphan' = orphan \ {d}
    /\ UNCHANGED <<ring, tries, sid, rows, active, hook, delivered, perished, deaths>>

\* One of the four calls fails; the file may stay behind truncated.
WriteFails(d) ==
    /\ pc[d] \in {"open session", "write session", "open latest", "write latest"}
    /\ pc' = [pc EXCEPT ![d] = "audit"]
    /\ orphan' = orphan \ {d}
    /\ UNCHANGED <<ring, tries, sid, sent, rows, file, active, hook, delivered, perished, deaths>>

\* recordViolation; without a database, or if the insert fails, only the log knows.
RecordViolation(d) ==
    /\ pc[d] = "audit"
    /\ \/ rows' = [rows EXCEPT ![d] = @ + 1] /\ pc' = [pc EXCEPT ![d] = "done"]
       \/ DbFails /\ pc' = [pc EXCEPT ![d] = "unrecorded"] /\ UNCHANGED rows
    /\ UNCHANGED <<ring, tries, sid, orphan, sent, file, active, hook, delivered, perished, deaths>>

-----------------------------------------------------------------------------
(* runHook.  Cursor's events and unreadable input end it at once.           *)

\* "pre" is PreToolUse or an event that normalizeHookEvent does not know: both end
\* after the registration.
StartHook(h, kind, s) ==
    /\ hook[h].pc = "idle"
    /\ hook' = [hook EXCEPT ![h] = [HookIdle EXCEPT
          !.kind = kind, !.s = s,
          !.pc = IF s # NoSession THEN "register" ELSE "registered"]]
    /\ UNCHANGED <<denyVars, orphan, file, active, delivered, perished, deaths>>

\* active_session is truncated, then written.
Register(h) ==
    /\ \/ /\ hook[h].pc = "register"
          /\ active' = "empty"
          /\ hook' = [hook EXCEPT ![h].pc = "write active"]
       \/ /\ hook[h].pc = "write active"
          /\ active' = hook[h].s
          /\ hook' = [hook EXCEPT ![h].pc = "registered"]
    /\ UNCHANGED <<denyVars, orphan, file, delivered, perished, deaths>>

\* Only a hook that follows a tool goes on.
Dispatch(h) ==
    /\ hook[h].pc = "registered"
    /\ hook' = [hook EXCEPT ![h] = IF @.kind = "post" THEN [@ EXCEPT !.pc = "read session"]
                                   ELSE HookIdle]
    /\ UNCHANGED <<denyVars, orphan, file, active, delivered, perished, deaths>>

\* Mutant: text that does not parse is printed as it is.
ParseAnything(body) == TRUE

\* json.Unmarshal accepts a whole text only, and a reason without words is dropped.
Parses(body) == body \in Denials \ Blank

\* os.ReadFile of file f, which is there: a text that parses is taken up.
Take(h, f) ==
    hook' = [hook EXCEPT ![h] = IF Parses(file[f].body)
                                THEN [@ EXCEPT !.pc = "remove path", !.got = file[f].body, !.from = f]
                                ELSE HookIdle]

\* The session's own file; ".json", which nobody writes, if there is no session.
ReadSession(h) ==
    LET s == hook[h].s
    IN  /\ hook[h].pc = "read session"
        /\ \/ s # NoSession /\ file[s] # Absent /\ Take(h, s)
           \/ s = NoSession /\ hook' = [hook EXCEPT ![h].pc = "read latest"]
           \/ /\ s # NoSession /\ file[s] = Absent
              /\ hook' = [hook EXCEPT ![h].pc = "read latest"]
        /\ UNCHANGED <<denyVars, orphan, file, active, delivered, perished, deaths>>

\* The fallback.
ReadLatest(h) ==
    /\ hook[h].pc = "read latest"
    /\ IF file[Latest] # Absent THEN Take(h, Latest)
       ELSE hook' = [hook EXCEPT ![h] = HookIdle]
    /\ UNCHANGED <<denyVars, orphan, file, active, delivered, perished, deaths>>

\* Unlinking f leaves those who are writing it with a file without a name.
Unlink(f) ==
    /\ file' = [file EXCEPT ![f] = Absent]
    /\ orphan' = orphan \cup {d \in Denials : /\ pc[d] \in {"write session", "write latest"}
                                              /\ Target(d) = f}

\* Mutant: what was read stays.
KeepFiles(h) ==
    /\ hook[h].pc \in {"remove path", "remove session", "remove latest"}
    /\ hook' = [hook EXCEPT ![h].pc = "print"]
    /\ UNCHANGED <<denyVars, orphan, file, active, delivered, perished, deaths>>

\* os.Remove three times: the file that was read, the session's, and the mirror.
Remove(h) ==
    LET s == hook[h].s
    IN  /\ \/ /\ hook[h].pc = "remove path"
              /\ Unlink(hook[h].from)
              /\ hook' = [hook EXCEPT ![h].pc = IF s = NoSession THEN "remove latest"
                                                ELSE "remove session"]
           \/ /\ hook[h].pc = "remove session"
              /\ Unlink(s)
              /\ hook' = [hook EXCEPT ![h].pc = "remove latest"]
           \/ /\ hook[h].pc = "remove latest"
              /\ Unlink(Latest)
              /\ hook' = [hook EXCEPT ![h].pc = "print"]
        /\ UNCHANGED <<denyVars, active, delivered, perished, deaths>>

\* Mutant: the hook ends after the removal without its output.
PrintNothing(h) ==
    /\ hook[h].pc = "print"
    /\ hook' = [hook EXCEPT ![h] = HookIdle]
    /\ UNCHANGED <<denyVars, orphan, file, active, delivered, perished, deaths>>

PrintText(h) ==
    /\ hook[h].pc = "print"
    /\ delivered' = delivered \cup {hook[h].got}
    /\ hook' = [hook EXCEPT ![h] = HookIdle]
    /\ UNCHANGED <<denyVars, orphan, file, active, perished, deaths>>

\* The agent gives up on a hook that takes too long.
HookDies(h) ==
    /\ deaths < HookDeaths /\ hook[h].pc # "idle"
    /\ deaths' = deaths + 1
    /\ perished' = perished \cup ({hook[h].got} \cap Denials)
    /\ hook' = [hook EXCEPT ![h] = HookIdle]
    /\ UNCHANGED <<denyVars, orphan, file, active, delivered>>

-----------------------------------------------------------------------------
Handle(d) ==
    ResolveSessionID(d) \/ OpenFile(d) \/ WriteFile(d) \/ WriteFails(d) \/ RecordViolation(d)

HookStep(h) ==
    Register(h) \/ Dispatch(h) \/ ReadSession(h) \/ ReadLatest(h) \/ Remove(h) \/ PrintText(h)

Next ==
    \/ \E d \in Denials : LsmDenies(d) \/ ProxyDenies(d) \/ Handle(d)
    \/ ReadRecord
    \/ \E h \in Hooks, kind \in {"pre", "post"}, s \in Sessions \cup {NoSession} :
          StartHook(h, kind, s)
    \/ \E h \in Hooks : HookStep(h) \/ HookDies(h)

(***************************************************************************)
(* Goroutines and hook processes that run keep running, and the agent goes *)
(* on using tools in each session, so that a hook of the session is run    *)
(* after a tool again and again.  Refusals need not happen.                *)
(***************************************************************************)
Fairness ==
    /\ WF_vars(ReadRecord)
    /\ \A d \in Denials : WF_vars(Handle(d))
    /\ \A h \in Hooks : WF_vars(HookStep(h))
    /\ \A s \in Sessions : SF_vars(\E h \in Hooks : StartHook(h, "post", s))

Spec == Init /\ [][Next]_vars /\ Fairness

-----------------------------------------------------------------------------
TypeOK ==
    /\ ring \in Seq(Denials) /\ Len(ring) <= RingCap
    /\ \A d \in Denials : /\ pc[d] \in Handling \cup {"before", "queued", "dropped", "done", "unrecorded"}
                          /\ tries[d] \in 0 .. 2
                          /\ sid[d] \in Sessions \cup {NoSession}
                          /\ sent[d] \in BOOLEAN
                          /\ rows[d] \in Nat
    /\ orphan \subseteq Denials /\ delivered \subseteq Denials
    /\ perished \subseteq Denials /\ deaths \in 0 .. HookDeaths
    /\ \A f \in Files : /\ file[f].body \in Denials \cup {"absent", "empty", "garbled"}
                        /\ file[f].len \in Nat
    /\ active \in Sessions \cup {"absent", "empty"}
    /\ \A h \in Hooks : /\ hook[h].s \in Sessions \cup {NoSession}
                        /\ hook[h].from \in Files

(***************************************************************************)
(* One audit row for each refusal that reached userspace and that the      *)
(* database took, whether or not a session was found, a text exists or the *)
(* files could be written; none for telemetry, none for what the ring had  *)
(* no room for.  feedback_sent is claimed in it only if the text had a     *)
(* session to go to.                                                       *)
(***************************************************************************)
AuditedOnce ==
    \A d \in Denials :
        /\ rows[d] = IF pc[d] = "done" /\ Source[d] # "telemetry" THEN 1 ELSE 0
        /\ sent[d] => sid[d] \in Sessions /\ Size[d] > 0

\* Nobody waits on anybody: each refusal that reached userspace is recorded, if the
\* database lets it.
EventuallyAudited ==
    \A d \in Denials : (pc[d] \in Handling \cup {"queued"}) ~> (rows[d] = 1 \/ pc[d] = "unrecorded")

(***************************************************************************)
(* A hook only ever prints the whole text of one refusal that was filed,   *)
(* although writers overlap, files are truncated while they are read and   *)
(* a long text can show behind a short one.                                *)
(***************************************************************************)
PrintsOneWholeText ==
    \A h \in Hooks : hook[h].pc \in {"remove path", "remove session", "remove latest", "print"} =>
        /\ hook[h].got \in Denials
        /\ Size[hook[h].got] > 0 /\ sid[hook[h].got] \in Sessions
        /\ hook[h].got \notin Blank

\* Where the text of d still is on its way to the agent.
Pending(d) == \E f \in Files : file[f].body = d
InHand(d) == \E h \in Hooks : hook[h].got = d

(***************************************************************************)
(* The log says of a written violation that it "will be delivered by       *)
(* feedback hook": a text for which feedbackSent was recorded has been     *)
(* printed, is in a hook's hands, or lies in a file for the next hook.     *)
(***************************************************************************)
SentIsNotLost ==
    \A d \in Denials : rows[d] > 0 /\ sent[d] => d \in delivered \/ InHand(d) \/ Pending(d)

(***************************************************************************)
(* And so it is as long as no other refusal gets to the files and the hook *)
(* that has taken the text lives to print it, whatever the hooks do while  *)
(* the files are being written and wherever another is killed: a file is   *)
(* only removed by a hook that has read the whole text.                    *)
(***************************************************************************)
Undisturbed(d) ==
    \A e \in Denials \ {d} : pc[e] \in {"before", "queued", "dropped", "resolve"} \/ sid[e] = NoSession
UndisturbedIsNotLost ==
    \A d \in Denials : Undisturbed(d) /\ rows[d] > 0 /\ sent[d] =>
        d \in delivered \cup perished \/ InHand(d) \/ Pending(d)

\* A text with words in a session's file does not stay there, though hooks may be
\* killed: one of the session takes it away, or a later refusal replaces it.
PendingDrains ==
    \A s \in Sessions, d \in Denials \ Blank : (file[s].body = d) ~> (file[s].body # d)
=============================================================================
