--------------------------- MODULE FeedbackProofs ---------------------------
(***************************************************************************)
(* Theorems about module Feedback, for any number of refusals, sessions    *)
(* and hook processes, any ring and any length of the texts.               *)
(***************************************************************************)
EXTENDS Feedback, TLAPS

PCs == Handling \cup {"before", "queued", "dropped", "done", "unrecorded"}
Removing == {"remove path", "remove session", "remove latest", "print"}
HookPCs == {"idle", "register", "write active", "registered", "read session", "read latest"} \cup Removing
Writing == {"open session", "write session", "open latest", "write latest"}
Bodies == Denials \cup {"absent", "empty", "garbled"}

HookRecords ==
    [pc : HookPCs, kind : {"none", "pre", "post"}, s : Sessions \cup {NoSession},
     got : Denials \cup {"none"}, from : Files]

Fates == delivered \subseteq Denials /\ perished \subseteq Denials /\ deaths \in 0 .. HookDeaths

Shapes ==
    /\ ring \in Seq(Denials) /\ Len(ring) <= RingCap
    /\ pc \in [Denials -> PCs]
    /\ tries \in [Denials -> 0 .. 2]
    /\ sid \in [Denials -> Sessions \cup {NoSession}]
    /\ sent \in [Denials -> BOOLEAN]
    /\ rows \in [Denials -> Nat]
    /\ orphan \subseteq Denials /\ Fates
    /\ file \in [Files -> [body : Bodies, len : Nat]]
    /\ active \in Sessions \cup {"absent", "empty"}
    /\ hook \in [Hooks -> HookRecords]

\* A hook that registers has a session to register.
Registers == \A h \in Hooks : hook[h].pc \in {"register", "write active"} => hook[h].s \in Sessions

\* What waits in the ring has come from a hook of the kernel, once.
RingOK ==
    /\ \A i \in 1 .. Len(ring) : pc[ring[i]] = "queued"
    /\ \A i, j \in 1 .. Len(ring) : ring[i] = ring[j] => i = j

\* d has got as far as the files.
Filed(d) ==
    /\ pc[d] \in Handling \cup {"done", "unrecorded"} /\ pc[d] # "resolve"
    /\ sid[d] \in Sessions /\ Size[d] > 0

\* How far the handling of d has come.
DenialOK(d) ==
    /\ pc[d] = "queued" => Source[d] = "lsm"
    /\ pc[d] \in Handling \cup {"unrecorded"} => Source[d] # "telemetry"
    /\ pc[d] \in Writing => Filed(d)
    /\ sent[d] => pc[d] \in {"audit", "done", "unrecorded"} /\ Filed(d)
    /\ rows[d] = IF pc[d] = "done" /\ Source[d] # "telemetry" THEN 1 ELSE 0

\* A text in a file or in a hook's hands is that of a refusal that was filed.
FilesOK == \A f \in Files : file[f].body \in Denials => Filed(file[f].body)
HooksOK ==
    \A h \in Hooks : IF hook[h].pc \in Removing
                     THEN hook[h].got \in Denials \ Blank /\ Filed(hook[h].got)
                     ELSE hook[h].got = "none"

DInv == RingOK /\ \A d \in Denials : DenialOK(d)
FInv == Shapes /\ Registers /\ DInv /\ FilesOK /\ HooksOK

-----------------------------------------------------------------------------
LEMMA InitFInv == Init => FInv
<1>. SUFFICES ASSUME Init PROVE FInv
  OBVIOUS
<1>1. Shapes
  <2>1. HookIdle \in HookRecords
    BY DEF HookIdle, HookRecords, HookPCs, Files
  <2>2. Absent \in [body : Bodies, len : Nat]
    BY DEF Absent, Bodies
  <2>3. ring \in Seq(Denials) /\ Len(ring) <= RingCap
    BY RingAssumption DEF Init
  <2>4. QED
    BY <2>1, <2>2, <2>3, FaultAssumption DEF Init, Shapes, Fates, PCs
<1>2. Registers /\ HooksOK
  BY DEF Init, Registers, HooksOK, HookIdle, Removing
<1>2a. RingOK
  BY DEF Init, RingOK
<1>2b. FilesOK
  BY MarkersAssumption DEF Init, FilesOK, Absent
<1>3. ASSUME NEW d \in Denials PROVE DenialOK(d)
  BY DEF Init, DenialOK, Handling, Writing
<1>4. QED
  BY <1>1, <1>2, <1>2a, <1>2b, <1>3 DEF FInv, DInv

(***************************************************************************)
(* Steps of hooks leave the refusals alone, steps of refusals the hooks.   *)
(* Filed stays true, whatever happens.                                     *)
(***************************************************************************)
LEMMA FiledStays ==
    ASSUME \A d \in Denials : Filed(d) => Filed(d)', FilesOK, HooksOK
    PROVE  /\ UNCHANGED file => FilesOK'
           /\ UNCHANGED hook => HooksOK'
BY DEF FilesOK, HooksOK

\* Steps that concern the refusal d: what they have to show.
OthersStand(d) ==
    \A e \in Denials \ {d} : /\ pc'[e] = pc[e] /\ sid'[e] = sid[e]
                             /\ sent'[e] = sent[e] /\ rows'[e] = rows[e]

LEMMA OneDenial ==
    ASSUME FInv, NEW d \in Denials, OthersStand(d), DenialOK(d)', Filed(d) => Filed(d)', RingOK'
    PROVE  /\ DInv'
           /\ \A e \in Denials : Filed(e) => Filed(e)'
<1>1. ASSUME NEW e \in Denials, e # d PROVE DenialOK(e)' /\ (Filed(e) => Filed(e)')
  BY <1>1 DEF FInv, DInv, OthersStand, DenialOK, Filed
<1>2. QED
  BY <1>1 DEF DInv

LEMMA LsmDeniesKeeps ==
    ASSUME FInv, NEW d \in Denials, LsmDenies(d)
    PROVE  FInv'
<1>1. Shapes
  BY DEF FInv
<1>2. CASE Len(ring) < RingCap
  <2>1. ring' = Append(ring, d) /\ pc' = [pc EXCEPT ![d] = "queued"]
    BY <1>2 DEF LsmDenies
  <2>2. /\ ring' \in Seq(Denials) /\ Len(ring') = Len(ring) + 1
        /\ \A i \in 1 .. Len(ring) : ring'[i] = ring[i]
        /\ ring'[Len(ring) + 1] = d
    BY <1>1, <2>1 DEF Shapes, Fates
  <2>3. Shapes'
    BY <1>1, <1>2, <2>1, <2>2, RingAssumption DEF Shapes, Fates, PCs, LsmDenies
  <2>4. \A i \in 1 .. Len(ring) : ring[i] # d /\ ring[i] \in Denials
    BY <1>1 DEF Shapes, Fates, FInv, DInv, RingOK, LsmDenies
  <2>5. RingOK'
    <3>1. ASSUME NEW i \in 1 .. Len(ring') PROVE pc'[ring'[i]] = "queued"
      <4>1. i \in 1 .. Len(ring) \/ i = Len(ring) + 1
        BY <1>1, <2>2 DEF Shapes, Fates
      <4>2. CASE i \in 1 .. Len(ring)
        BY <1>1, <2>1, <2>2, <2>4, <4>2 DEF Shapes, Fates, FInv, DInv, RingOK
      <4>3. CASE i = Len(ring) + 1
        BY <1>1, <2>1, <2>2, <4>3 DEF Shapes, Fates
      <4>4. QED
        BY <4>1, <4>2, <4>3
    <3>2. ASSUME NEW i \in 1 .. Len(ring'), NEW j \in 1 .. Len(ring'), ring'[i] = ring'[j]
          PROVE  i = j
      <4>1. /\ i \in 1 .. Len(ring) \/ i = Len(ring) + 1
            /\ j \in 1 .. Len(ring) \/ j = Len(ring) + 1
        BY <1>1, <2>2 DEF Shapes, Fates
      <4>2. QED
        BY <1>1, <2>2, <2>4, <3>2, <4>1 DEF FInv, DInv, RingOK
    <3>3. QED
      BY <3>1, <3>2 DEF RingOK
  <2>6. DenialOK(d)' /\ OthersStand(d) /\ ~Filed(d)
    BY <1>1, <2>1 DEF Shapes, Fates, FInv, DInv, DenialOK, OthersStand, Filed, Handling, Writing, LsmDenies
  <2>7. DInv' /\ \A e \in Denials : Filed(e) => Filed(e)'
    BY <2>5, <2>6, OneDenial
  <2>8. QED
    BY <2>3, <2>7, FiledStays DEF FInv, Registers, LsmDenies
<1>3. CASE ~(Len(ring) < RingCap)
  <2>1. ring' = ring /\ pc' = [pc EXCEPT ![d] = "dropped"]
    BY <1>3 DEF LsmDenies
  <2>2. Shapes'
    BY <1>1, <2>1 DEF Shapes, Fates, PCs, LsmDenies
  <2>3. \A i \in 1 .. Len(ring) : ring[i] # d /\ ring[i] \in Denials
    BY <1>1 DEF Shapes, Fates, FInv, DInv, RingOK, LsmDenies
  <2>4. RingOK'
    BY <1>1, <2>1, <2>3 DEF Shapes, Fates, FInv, DInv, RingOK
  <2>5. DenialOK(d)' /\ OthersStand(d) /\ ~Filed(d)
    BY <1>1, <2>1 DEF Shapes, Fates, FInv, DInv, DenialOK, OthersStand, Filed, Handling, Writing, LsmDenies
  <2>6. DInv' /\ \A e \in Denials : Filed(e) => Filed(e)'
    BY <2>4, <2>5, OneDenial
  <2>7. QED
    BY <2>2, <2>6, FiledStays DEF FInv, Registers, LsmDenies
<1>4. QED
  BY <1>2, <1>3

LEMMA ReadRecordKeeps ==
    ASSUME FInv, ReadRecord
    PROVE  FInv'
<1>1. Shapes
  BY DEF FInv
<1>. PICK d \in Denials : d = Head(ring)
  BY <1>1 DEF Shapes, Fates, ReadRecord
<1>2. /\ ring # <<>> /\ ring' = Tail(ring) /\ pc' = [pc EXCEPT ![d] = "resolve"]
      /\ UNCHANGED <<tries, sid, orphan, sent, rows, file, active, hook, delivered, perished, deaths>>
  BY DEF ReadRecord
<1>3. /\ Len(ring) >= 1 /\ d = ring[1] /\ d \in Denials
      /\ ring' \in Seq(Denials) /\ Len(ring') = Len(ring) - 1
      /\ \A i \in 1 .. Len(ring') : i + 1 \in 1 .. Len(ring) /\ ring'[i] = ring[i + 1]
  BY <1>1, <1>2 DEF Shapes, Fates
<1>4. Shapes'
  <2>1. Len(ring') <= RingCap
    BY <1>1, <1>3, RingAssumption DEF Shapes, Fates
  <2>2. pc' \in [Denials -> PCs]
    BY <1>1, <1>2 DEF Shapes, Fates, PCs, Handling
  <2>3. Fates'
    BY <1>1, <1>2 DEF Shapes, Fates
  <2>4. QED
    BY <1>1, <1>2, <1>3, <2>1, <2>2, <2>3 DEF Shapes
<1>5. pc[d] = "queued" /\ Source[d] = "lsm"
  BY <1>3 DEF FInv, DInv, RingOK, DenialOK
<1>6. ASSUME NEW i \in 1 .. Len(ring') PROVE ring'[i] # d /\ ring'[i] \in Denials
  <2>0. Len(ring) \in Nat
    BY <1>1 DEF Shapes
  <2>1. i + 1 \in 1 .. Len(ring) /\ 1 \in 1 .. Len(ring) /\ i + 1 # 1 /\ ring'[i] = ring[i + 1]
    BY <1>3, <2>0
  <2>2. ring[i + 1] # ring[1]
    BY <2>1 DEF FInv, DInv, RingOK
  <2>3. ring[i + 1] \in Denials
    BY <1>1, <2>1 DEF Shapes, Fates
  <2>4. QED
    BY <1>3, <2>1, <2>2, <2>3
<1>7. RingOK'
  <2>1. ASSUME NEW i \in 1 .. Len(ring') PROVE pc'[ring'[i]] = "queued"
    BY <1>1, <1>2, <1>3, <1>6 DEF Shapes, Fates, FInv, DInv, RingOK
  <2>2. ASSUME NEW i \in 1 .. Len(ring'), NEW j \in 1 .. Len(ring'), ring'[i] = ring'[j]
        PROVE  i = j
    <3>1. RingOK
      BY DEF FInv, DInv
    <3>2. /\ i + 1 \in 1 .. Len(ring) /\ ring'[i] = ring[i + 1]
          /\ j + 1 \in 1 .. Len(ring) /\ ring'[j] = ring[j + 1]
      BY <1>3, <2>2
    <3>3. ring[i + 1] = ring[j + 1]
      BY <2>2, <3>2
    <3>4. i + 1 = j + 1
      BY <3>1, <3>2, <3>3 DEF RingOK
    <3>5. QED
      BY <3>4
  <2>3. QED
    BY <2>1, <2>2 DEF RingOK
<1>8. DenialOK(d)' /\ OthersStand(d) /\ ~Filed(d)
  BY <1>1, <1>2, <1>3, <1>5 DEF Shapes, Fates, FInv, DInv, DenialOK, OthersStand, Filed, Handling, Writing
<1>9. DInv' /\ \A e \in Denials : Filed(e) => Filed(e)'
  BY <1>3, <1>7, <1>8, OneDenial
<1>10. QED
  BY <1>2, <1>4, <1>9, FiledStays DEF FInv, Registers

\* A refusal that is not in the ring moves on to a place other than "queued".
LEMMA RingStands ==
    ASSUME FInv, NEW d \in Denials, pc[d] # "queued", UNCHANGED ring,
           \A e \in Denials \ {d} : pc'[e] = pc[e]
    PROVE  RingOK'
<1>1. \A i \in 1 .. Len(ring) : ring[i] \in Denials /\ ring[i] # d
  BY DEF FInv, Shapes, Fates, DInv, RingOK
<1>2. QED
  BY <1>1 DEF FInv, DInv, RingOK

LEMMA ProxyDeniesKeeps ==
    ASSUME FInv, NEW d \in Denials, ProxyDenies(d)
    PROVE  FInv'
<1>1. Shapes' /\ OthersStand(d) /\ pc[d] = "before" /\ ~Filed(d)
  BY DEF FInv, Shapes, Fates, PCs, Handling, OthersStand, ProxyDenies, Filed
<1>2. DenialOK(d)'
  BY DEF FInv, Shapes, Fates, DInv, DenialOK, ProxyDenies, Filed, Handling, Writing
<1>3. RingOK'
  BY <1>1, RingStands DEF OthersStand, ProxyDenies
<1>4. DInv' /\ \A e \in Denials : Filed(e) => Filed(e)'
  BY <1>1, <1>2, <1>3, OneDenial
<1>5. QED
  BY <1>1, <1>4, FiledStays DEF FInv, Registers, ProxyDenies

LEMMA ResolveKeeps ==
    ASSUME FInv, NEW d \in Denials, ResolveSessionID(d)
    PROVE  FInv'
<1>1. pc[d] = "resolve" /\ ~Filed(d) /\ UNCHANGED <<ring, orphan, sent, rows, file, active, hook, delivered, perished, deaths>>
  BY DEF ResolveSessionID, NoSessionFound, Filed
<1>2. Shapes'
  <2>0. Fates'
    BY <1>1 DEF FInv, Shapes, Fates
  <2>1. CASE tries' = [tries EXCEPT ![d] = 0]
    <3>1. tries' \in [Denials -> 0 .. 2]
      <4>1. 0 \in 0 .. 2
        OBVIOUS
      <4>2. tries \in [Denials -> 0 .. 2]
        BY DEF FInv, Shapes
      <4>3. QED
        BY <2>1, <4>1, <4>2
    <3>2. pc' \in [Denials -> PCs] /\ sid' \in [Denials -> Sessions \cup {NoSession}]
      BY DEF FInv, Shapes, PCs, Handling, ResolveSessionID, NoSessionFound
    <3>3. QED
      BY <1>1, <2>0, <3>1, <3>2 DEF FInv, Shapes
  <2>2. CASE tries[d] < 2 /\ tries' = [tries EXCEPT ![d] = @ + 1] /\ UNCHANGED <<pc, sid>>
    <3>1. tries' \in [Denials -> 0 .. 2]
      <4>1. tries[d] + 1 \in 0 .. 2 /\ tries \in [Denials -> 0 .. 2]
        BY <2>2 DEF FInv, Shapes
      <4>2. QED
        BY <2>2, <4>1
    <3>2. QED
      BY <1>1, <2>0, <2>2, <3>1 DEF FInv, Shapes
  <2>3. QED
    BY <2>1, <2>2 DEF ResolveSessionID, NoSessionFound
<1>3. OthersStand(d)
  BY DEF FInv, Shapes, Fates, OthersStand, ResolveSessionID, NoSessionFound
<1>4. DenialOK(d)'
  <2>1. Size[d] = 0 \/ Size[d] > 0
    BY SizeAssumption
  <2>2. QED
    BY <1>1, <2>1 DEF FInv, Shapes, Fates, DInv, DenialOK, Filed, Handling, Writing, ResolveSessionID, NoSessionFound
<1>5. RingOK'
  BY <1>1, <1>3, RingStands DEF OthersStand
<1>6. DInv' /\ \A e \in Denials : Filed(e) => Filed(e)'
  BY <1>1, <1>3, <1>4, <1>5, OneDenial
<1>7. QED
  BY <1>1, <1>2, <1>6, FiledStays DEF FInv, Registers

\* The file that is being written is one of the store's.
LEMMA TargetIsFile ==
    ASSUME FInv, NEW d \in Denials, pc[d] \in Writing
    PROVE  Target(d) \in Files
BY DEF FInv, DInv, DenialOK, Filed, Target, Files

LEMMA OpenKeeps ==
    ASSUME FInv, NEW d \in Denials, OpenFile(d)
    PROVE  FInv'
<1>1. /\ pc[d] \in {"open session", "open latest"}
      /\ file' = [file EXCEPT ![Target(d)] = Truncated]
      /\ pc' = [pc EXCEPT ![d] = IF @ = "open session" THEN "write session" ELSE "write latest"]
      /\ orphan' = orphan \ {d}
      /\ UNCHANGED <<ring, tries, sid, sent, rows, active, hook, delivered, perished, deaths>>
  BY DEF OpenFile
<1>2. Truncated \in [body : Bodies, len : Nat] /\ Truncated.body \notin Denials
  BY MarkersAssumption DEF Truncated, Bodies
<1>3. Shapes'
  BY <1>1, <1>2 DEF FInv, Shapes, Fates, PCs, Handling
<1>4. Filed(d) /\ Filed(d)' /\ OthersStand(d)
  BY <1>1 DEF FInv, Shapes, Fates, DInv, DenialOK, Filed, OthersStand, Writing, Handling
<1>5. DenialOK(d)'
  BY <1>1, <1>4 DEF FInv, Shapes, Fates, DInv, DenialOK, Writing, Handling
<1>6. RingOK'
  BY <1>1, <1>4, RingStands DEF OthersStand
<1>7. DInv' /\ \A e \in Denials : Filed(e) => Filed(e)'
  BY <1>4, <1>5, <1>6, OneDenial
<1>8. FilesOK'
  BY <1>1, <1>2, <1>7 DEF FInv, Shapes, Fates, FilesOK
<1>9. HooksOK'
  BY <1>1, <1>7, FiledStays DEF FInv
<1>10. QED
  BY <1>1, <1>3, <1>7, <1>8, <1>9 DEF FInv, Registers

LEMMA WriteKeeps ==
    ASSUME FInv, NEW d \in Denials, WriteFile(d)
    PROVE  FInv'
<1>1. /\ pc[d] \in {"write session", "write latest"}
      /\ file' = IF d \in orphan THEN file ELSE [file EXCEPT ![Target(d)] = Overlay(d, @)]
      /\ pc' = [pc EXCEPT ![d] = IF @ = "write session" THEN "open latest" ELSE "audit"]
      /\ sent' = [sent EXCEPT ![d] = pc[d] = "write latest"]
      /\ orphan' = orphan \ {d}
      /\ UNCHANGED <<ring, tries, sid, rows, active, hook, delivered, perished, deaths>>
  BY DEF WriteFile
<1>2. Target(d) \in Files
  BY <1>1, TargetIsFile DEF Writing
<1>3. /\ Overlay(d, file[Target(d)]) \in [body : Bodies, len : Nat]
      /\ Overlay(d, file[Target(d)]).body \in Denials => Overlay(d, file[Target(d)]).body = d
  BY <1>2, MarkersAssumption, SizeAssumption DEF FInv, Shapes, Fates, Overlay, Bodies
<1>4. Shapes'
  BY <1>1, <1>2, <1>3 DEF FInv, Shapes, Fates, PCs, Handling
<1>5. Filed(d) /\ Filed(d)' /\ OthersStand(d)
  BY <1>1 DEF FInv, Shapes, Fates, DInv, DenialOK, Filed, OthersStand, Writing, Handling
<1>6. DenialOK(d)'
  BY <1>1, <1>5 DEF FInv, Shapes, Fates, DInv, DenialOK, Writing, Handling
<1>7. RingOK'
  BY <1>1, <1>5, RingStands DEF OthersStand
<1>8. DInv' /\ \A e \in Denials : Filed(e) => Filed(e)'
  BY <1>5, <1>6, <1>7, OneDenial
<1>9. FilesOK'
  BY <1>1, <1>2, <1>3, <1>5, <1>8 DEF FInv, Shapes, Fates, FilesOK
<1>10. HooksOK'
  BY <1>1, <1>8, FiledStays DEF FInv
<1>11. QED
  BY <1>1, <1>4, <1>8, <1>9, <1>10 DEF FInv, Registers

LEMMA EndKeeps ==
    ASSUME FInv, NEW d \in Denials, WriteFails(d) \/ RecordViolation(d)
    PROVE  FInv'
<1>1. /\ pc[d] \in Writing \cup {"audit"}
      /\ UNCHANGED <<ring, tries, sid, sent, file, active, hook, delivered, perished, deaths>>
  BY DEF WriteFails, RecordViolation, Writing
<1>2. Shapes'
  <2>1. CASE WriteFails(d)
    BY <2>1 DEF FInv, Shapes, Fates, PCs, Handling, WriteFails
  <2>2. CASE RecordViolation(d)
    <3>0. rows[d] + 1 \in Nat
      BY DEF FInv, Shapes, Fates
    <3>1. rows' \in [Denials -> Nat] /\ pc' \in [Denials -> PCs]
      BY <2>2, <3>0 DEF FInv, Shapes, Fates, PCs, RecordViolation
    <3>2. QED
      BY <2>2, <3>1 DEF FInv, Shapes, Fates, RecordViolation
  <2>3. QED
    BY <2>1, <2>2
<1>3. OthersStand(d) /\ (Filed(d) => Filed(d)')
  BY DEF FInv, Shapes, Fates, OthersStand, Filed, Handling, WriteFails, RecordViolation
<1>4. DenialOK(d)'
  <2>1. CASE WriteFails(d)
    BY <2>1 DEF FInv, Shapes, Fates, DInv, DenialOK, Filed, Handling, Writing, WriteFails
  <2>2. CASE RecordViolation(d)
    <3>1. rows[d] = 0 /\ Source[d] # "telemetry" /\ pc[d] = "audit" /\ (sent[d] => Filed(d))
      BY <2>2 DEF FInv, DInv, DenialOK, Handling, RecordViolation
    <3>2. CASE rows' = [rows EXCEPT ![d] = @ + 1] /\ pc' = [pc EXCEPT ![d] = "done"]
      <4>1. rows'[d] = 1 /\ pc'[d] = "done"
        BY <3>1, <3>2 DEF FInv, Shapes, Fates
      <4>2. QED
        BY <1>1, <1>3, <3>1, <4>1 DEF DenialOK, Handling, Writing
    <3>3. CASE pc' = [pc EXCEPT ![d] = "unrecorded"] /\ UNCHANGED rows
      <4>1. rows'[d] = 0 /\ pc'[d] = "unrecorded"
        BY <3>1, <3>3 DEF FInv, Shapes, Fates
      <4>2. QED
        BY <1>1, <1>3, <3>1, <4>1 DEF DenialOK, Handling, Writing
    <3>4. QED
      BY <2>2, <3>2, <3>3 DEF RecordViolation
  <2>3. QED
    BY <2>1, <2>2
<1>5. RingOK'
  BY <1>1, <1>3, RingStands DEF OthersStand, Writing
<1>6. DInv' /\ \A e \in Denials : Filed(e) => Filed(e)'
  BY <1>3, <1>4, <1>5, OneDenial
<1>7. QED
  BY <1>1, <1>2, <1>6, FiledStays DEF FInv, Registers

-----------------------------------------------------------------------------
(* Hook processes                                                          *)

\* What the record of a hook process says of it.
HookOK(r) ==
    /\ r \in HookRecords
    /\ r.pc \in {"register", "write active"} => r.s \in Sessions
    /\ IF r.pc \in Removing THEN r.got \in Denials \ Blank /\ Filed(r.got) ELSE r.got = "none"

LEMMA IdleIsOK == HookOK(HookIdle)
BY DEF HookIdle, HookOK, HookRecords, HookPCs, Files, Removing

\* A step of hook h leaves the refusals alone; h's record is all there is to check.
LEMMA OneHook ==
    ASSUME FInv, NEW h \in Hooks, UNCHANGED <<denyVars, file, orphan>>,
           active' \in Sessions \cup {"absent", "empty"}, Fates',
           NEW r, HookOK(r), hook' = [hook EXCEPT ![h] = r]
    PROVE  FInv'
<1>1. Shapes'
  BY DEF FInv, Shapes, Fates, denyVars, HookOK
<1>2. \A d \in Denials : Filed(d)' <=> Filed(d)
  BY DEF Filed, denyVars
<1>3. DInv'
  BY <1>2 DEF FInv, DInv, RingOK, DenialOK, denyVars
<1>4. FilesOK'
  BY <1>2 DEF FInv, FilesOK
<1>5. Registers'
  BY DEF FInv, Shapes, Fates, Registers, HookOK
<1>6. HooksOK'
  BY <1>2 DEF FInv, Shapes, Fates, HooksOK, HookOK
<1>7. QED
  BY <1>1, <1>3, <1>4, <1>5, <1>6 DEF FInv

\* And it is in order now.
LEMMA HookIsOK ==
    ASSUME FInv, NEW h \in Hooks
    PROVE  HookOK(hook[h])
BY DEF FInv, Shapes, Fates, Registers, HooksOK, HookOK

LEMMA StartHookKeeps ==
    ASSUME FInv, NEW h \in Hooks, NEW kind \in {"pre", "post"},
           NEW s \in Sessions \cup {NoSession}, StartHook(h, kind, s)
    PROVE  FInv'
<1>. DEFINE r == [HookIdle EXCEPT !.kind = kind, !.s = s,
                                  !.pc = IF s # NoSession THEN "register" ELSE "registered"]
<1>1. HookOK(r)
  BY DEF HookIdle, HookOK, HookRecords, HookPCs, Files, Removing
<1>2. hook' = [hook EXCEPT ![h] = r] /\ UNCHANGED <<denyVars, orphan, file, active, delivered, perished, deaths>>
  BY DEF StartHook
<1>. HIDE DEF r
<1>3. active' \in Sessions \cup {"absent", "empty"} /\ Fates'
  BY <1>2 DEF FInv, Shapes, Fates
<1>4. QED
  BY <1>1, <1>2, <1>3, OneHook

LEMMA RegisterKeeps ==
    ASSUME FInv, NEW h \in Hooks, Register(h)
    PROVE  FInv'
<1>1. HookOK(hook[h]) /\ hook[h].pc \in {"register", "write active"}
  BY HookIsOK DEF Register
<1>2. /\ active' \in Sessions \cup {"absent", "empty"} /\ Fates'
      /\ UNCHANGED <<denyVars, file, orphan>>
  BY <1>1 DEF FInv, Shapes, Fates, Register, HookOK
<1>3. PICK where \in {"write active", "registered"} : hook' = [hook EXCEPT ![h].pc = where]
  BY DEF Register
<1>4. HookOK([hook[h] EXCEPT !.pc = where])
  BY <1>1 DEF HookOK, HookRecords, HookPCs, Removing
<1>5. QED
  BY <1>2, <1>3, <1>4, OneHook

\* Hooks that end, by themselves or not.
LEMMA HookEnds ==
    ASSUME FInv, NEW h \in Hooks, UNCHANGED <<denyVars, orphan, file, active>>,
           Fates', hook' = [hook EXCEPT ![h] = HookIdle]
    PROVE  FInv'
<1>1. active' \in Sessions \cup {"absent", "empty"}
  BY DEF FInv, Shapes, Fates
<1>2. QED
  BY <1>1, IdleIsOK, OneHook

LEMMA DispatchKeeps ==
    ASSUME FInv, NEW h \in Hooks, Dispatch(h)
    PROVE  FInv'
<1>1. HookOK(hook[h]) /\ hook[h].pc = "registered"
  BY HookIsOK DEF Dispatch
<1>2. active' \in Sessions \cup {"absent", "empty"} /\ Fates'
  BY DEF FInv, Shapes, Fates, Dispatch
<1>3. HookOK([hook[h] EXCEPT !.pc = "read session"])
  BY <1>1 DEF HookOK, HookRecords, HookPCs, Removing
<1>4. CASE hook[h].kind = "post"
  BY <1>2, <1>3, <1>4, OneHook DEF Dispatch
<1>5. CASE hook[h].kind # "post"
  BY <1>2, <1>5, HookEnds DEF Dispatch
<1>6. QED
  BY <1>4, <1>5

\* What is read from a file and parses was filed.
LEMMA TakeKeeps ==
    ASSUME FInv, NEW h \in Hooks, NEW f \in Files, hook[h].pc \in {"read session", "read latest"},
           Take(h, f), UNCHANGED <<denyVars, orphan, file, active, delivered, perished, deaths>>
    PROVE  FInv'
<1>1. HookOK(hook[h])
  BY HookIsOK
<1>2. active' \in Sessions \cup {"absent", "empty"} /\ Fates'
  BY DEF FInv, Shapes, Fates
<1>3. CASE Parses(file[f].body)
  <2>1. file[f].body \in Denials \ Blank /\ Filed(file[f].body)
    BY <1>3 DEF FInv, FilesOK, Parses
  <2>2. HookOK([hook[h] EXCEPT !.pc = "remove path", !.got = file[f].body, !.from = f])
    BY <1>1, <2>1 DEF HookOK, HookRecords, HookPCs, Removing
  <2>3. QED
    BY <1>2, <1>3, <2>2, OneHook DEF Take
<1>4. CASE ~Parses(file[f].body)
  BY <1>2, <1>4, HookEnds DEF Take
<1>5. QED
  BY <1>3, <1>4

LEMMA ReadKeeps ==
    ASSUME FInv, NEW h \in Hooks, ReadSession(h) \/ ReadLatest(h)
    PROVE  FInv'
<1>1. HookOK(hook[h])
  BY HookIsOK
<1>2. /\ active' \in Sessions \cup {"absent", "empty"} /\ Fates'
      /\ UNCHANGED <<denyVars, orphan, file, active, delivered, perished, deaths>>
  BY DEF FInv, Shapes, Fates, ReadSession, ReadLatest
<1>3. CASE ReadSession(h)
  <2>1. CASE hook[h].s # NoSession /\ Take(h, hook[h].s)
    <3>1. hook[h].s \in Files
      BY <1>1, <2>1 DEF HookOK, HookRecords, Files
    <3>2. QED
      BY <1>2, <1>3, <2>1, <3>1, TakeKeeps DEF ReadSession
  <2>2. CASE hook' = [hook EXCEPT ![h].pc = "read latest"]
    <3>1. HookOK([hook[h] EXCEPT !.pc = "read latest"])
      BY <1>1, <1>3 DEF HookOK, HookRecords, HookPCs, Removing, ReadSession
    <3>2. QED
      BY <1>2, <2>2, <3>1, OneHook
  <2>3. QED
    BY <1>3, <2>1, <2>2 DEF ReadSession
<1>4. CASE ReadLatest(h)
  <2>1. Latest \in Files
    BY DEF Files
  <2>2. CASE Take(h, Latest)
    BY <1>2, <1>4, <2>1, <2>2, TakeKeeps DEF ReadLatest
  <2>3. CASE hook' = [hook EXCEPT ![h] = HookIdle]
    BY <1>2, <2>3, HookEnds
  <2>4. QED
    BY <1>4, <2>2, <2>3 DEF ReadLatest
<1>5. QED
  BY <1>3, <1>4

\* One os.Remove.
LEMMA UnlinkKeeps ==
    ASSUME FInv, NEW h \in Hooks, NEW f, NEW where \in {"remove session", "remove latest", "print"},
           hook[h].pc \in {"remove path", "remove session", "remove latest"},
           Unlink(f), hook' = [hook EXCEPT ![h].pc = where],
           UNCHANGED <<denyVars, active, delivered, perished, deaths>>
    PROVE  FInv'
<1>1. HookOK(hook[h])
  BY HookIsOK
<1>2. HookOK([hook[h] EXCEPT !.pc = where])
  BY <1>1 DEF HookOK, HookRecords, HookPCs, Removing
<1>3. Absent \in [body : Bodies, len : Nat] /\ Absent.body \notin Denials
  BY MarkersAssumption DEF Absent, Bodies
<1>4. Shapes'
  BY <1>2, <1>3 DEF FInv, Shapes, Fates, Unlink, denyVars, HookOK
<1>5. \A d \in Denials : Filed(d)' <=> Filed(d)
  BY DEF Filed, denyVars
<1>6. DInv'
  BY <1>5 DEF FInv, DInv, RingOK, DenialOK, denyVars
<1>7. FilesOK'
  BY <1>3, <1>5 DEF FInv, Shapes, Fates, FilesOK, Unlink
<1>8. Registers' /\ HooksOK'
  BY <1>2, <1>5 DEF FInv, Shapes, Fates, Registers, HooksOK, HookOK
<1>9. QED
  BY <1>4, <1>6, <1>7, <1>8 DEF FInv

LEMMA RemoveKeeps ==
    ASSUME FInv, NEW h \in Hooks, Remove(h)
    PROVE  FInv'
<1>0. UNCHANGED <<denyVars, active, delivered, perished, deaths>>
  BY DEF Remove
<1>1. CASE hook[h].pc = "remove path"
  <2>1. Unlink(hook[h].from)
    BY <1>1 DEF Remove
  <2>2. CASE hook[h].s = NoSession
    BY <1>0, <1>1, <2>1, <2>2, UnlinkKeeps DEF Remove
  <2>3. CASE hook[h].s # NoSession
    BY <1>0, <1>1, <2>1, <2>3, UnlinkKeeps DEF Remove
  <2>4. QED
    BY <2>2, <2>3
<1>2. CASE hook[h].pc = "remove session"
  <2>1. Unlink(hook[h].s) /\ hook' = [hook EXCEPT ![h].pc = "remove latest"]
    BY <1>2 DEF Remove
  <2>2. QED
    BY <1>0, <1>2, <2>1, UnlinkKeeps
<1>3. CASE hook[h].pc = "remove latest"
  <2>1. Unlink(Latest) /\ hook' = [hook EXCEPT ![h].pc = "print"]
    BY <1>3 DEF Remove
  <2>2. QED
    BY <1>0, <1>3, <2>1, UnlinkKeeps
<1>4. QED
  BY <1>1, <1>2, <1>3 DEF Remove

LEMMA PrintKeeps ==
    ASSUME FInv, NEW h \in Hooks, PrintText(h)
    PROVE  FInv'
<1>1. HookOK(hook[h])
  BY HookIsOK
<1>2. Fates'
  BY <1>1 DEF FInv, Shapes, Fates, PrintText, HookOK, Removing
<1>3. QED
  BY <1>2, HookEnds DEF PrintText

LEMMA DieKeeps ==
    ASSUME FInv, NEW h \in Hooks, HookDies(h)
    PROVE  FInv'
<1>1. Fates'
  <2>1. deaths' \in 0 .. HookDeaths
    BY FaultAssumption DEF FInv, Shapes, Fates, HookDies
  <2>2. delivered' \subseteq Denials /\ perished' \subseteq Denials
    BY DEF FInv, Shapes, Fates, HookDies
  <2>3. QED
    BY <2>1, <2>2 DEF Fates
<1>2. QED
  BY <1>1, HookEnds DEF HookDies

LEMMA StepKeepsFInv == FInv /\ [Next]_vars => FInv'
<1>1. ASSUME FInv, UNCHANGED vars
      PROVE  FInv'
  <2>1. Shapes'
    BY <1>1 DEF vars, FInv, Shapes, Fates
  <2>2. Registers'
    BY <1>1 DEF vars, FInv, Registers
  <2>3. RingOK'
    BY <1>1 DEF vars, FInv, DInv, RingOK
  <2>4. (\A d \in Denials : DenialOK(d))'
    BY <1>1 DEF vars, FInv, DInv, DenialOK, Filed
  <2>5. FilesOK'
    BY <1>1 DEF vars, FInv, FilesOK, Filed
  <2>6. HooksOK'
    BY <1>1 DEF vars, FInv, HooksOK, Filed
  <2>7. QED
    BY <2>1, <2>2, <2>3, <2>4, <2>5, <2>6 DEF FInv, DInv
<1>2. ASSUME FInv, NEW d \in Denials, LsmDenies(d) \/ ProxyDenies(d) \/ Handle(d)
      PROVE  FInv'
  BY <1>2, LsmDeniesKeeps, ProxyDeniesKeeps, ResolveKeeps, OpenKeeps, WriteKeeps, EndKeeps DEF Handle
<1>3. FInv /\ ReadRecord => FInv'
  BY ReadRecordKeeps
<1>4. ASSUME FInv, NEW h \in Hooks, HookStep(h) \/ HookDies(h)
      PROVE  FInv'
  BY <1>4, RegisterKeeps, DispatchKeeps, ReadKeeps, RemoveKeeps, PrintKeeps, DieKeeps DEF HookStep
<1>5. QED
  BY <1>1, <1>2, <1>3, <1>4, StartHookKeeps DEF Next

\* FInv holds throughout.
LEMMA FilesInOrder == Spec => []FInv
BY InitFInv, StepKeepsFInv, PTL DEF Spec

-----------------------------------------------------------------------------
\* Types; the ring never holds more than it can.
THEOREM FeedbackTypes == Spec => []TypeOK
<1>1. FInv => TypeOK
  BY DEF FInv, Shapes, Fates, TypeOK, PCs, Bodies, HookRecords
<1>2. QED
  BY <1>1, FilesInOrder, PTL

(***************************************************************************)
(* recordViolation writes one row for each refusal that reaches it, with   *)
(* whatever luck the session lookup and writePendingViolation had.         *)
(***************************************************************************)
THEOREM RefusalsAuditedOnce == Spec => []AuditedOnce
<1>1. FInv => AuditedOnce
  BY DEF FInv, DInv, DenialOK, Filed, AuditedOnce
<1>2. QED
  BY <1>1, FilesInOrder, PTL

(***************************************************************************)
(* readPendingViolation never hands out half a text, however many writers, *)
(* hooks and lengths of text there are.                                    *)
(***************************************************************************)
THEOREM OnlyWholeTextsPrinted == Spec => []PrintsOneWholeText
<1>1. FInv => PrintsOneWholeText
  BY DEF FInv, HooksOK, Removing, Filed, PrintsOneWholeText
<1>2. QED
  BY <1>1, FilesInOrder, PTL

-----------------------------------------------------------------------------
(* Undisturbed texts                                                       *)

\* e has got to the files, or is about to.
Disturbs(e) == ~(pc[e] \in {"before", "queued", "dropped", "resolve"} \/ sid[e] = NoSession)

\* A hook has taken d's text, whatever became of it.
Reached(d) == d \in delivered \cup perished \/ InHand(d)

(***************************************************************************)
(* UndisturbedIsNotLost, made inductive.  While d is writing the mirror,   *)
(* the file stays as d has left it unless a hook unlinks it; the hook does *)
(* so because it has read a text, and the only text about is d's own.      *)
(***************************************************************************)
KeptOK(d) ==
    /\ pc[d] = "write latest" /\ d \in orphan => Reached(d)
    /\ pc[d] = "write latest" /\ d \notin orphan => file[Latest] = Truncated
    /\ sent[d] => Reached(d) \/ Pending(d)

UInv == \A d \in Denials : Undisturbed(d) => KeptOK(d)

LEMMA UndisturbedMeans ==
    ASSUME FInv, NEW d \in Denials
    PROVE  /\ Undisturbed(d) <=> \A e \in Denials \ {d} : ~Disturbs(e)
           /\ \A e \in Denials : Filed(e) => Disturbs(e)
           /\ Undisturbed(d) => \A e \in Denials : Filed(e) => e = d
<1>1. \A e \in Denials : Filed(e) => Disturbs(e)
  BY MarkersAssumption DEF Filed, Disturbs, Handling
<1>2. Undisturbed(d) <=> \A e \in Denials \ {d} : ~Disturbs(e)
  BY DEF Undisturbed, Disturbs
<1>3. QED
  BY <1>1, <1>2

\* Refusals do not touch the hooks, one step concerns one of them, and what disturbs
\* goes on to do so.
LEMMA DenialStep ==
    ASSUME FInv, NEW e \in Denials, LsmDenies(e) \/ ProxyDenies(e) \/ Handle(e)
    PROVE  OthersStand(e) /\ (Disturbs(e) => Disturbs(e)') /\ UNCHANGED <<hook, delivered, perished, deaths>>
<1>1. CASE LsmDenies(e)
  BY <1>1 DEF FInv, Shapes, Fates, OthersStand, Disturbs, LsmDenies
<1>2. CASE ProxyDenies(e)
  BY <1>2 DEF FInv, Shapes, Fates, OthersStand, Disturbs, ProxyDenies
<1>3. CASE ResolveSessionID(e)
  BY <1>3 DEF FInv, Shapes, Fates, OthersStand, Disturbs, ResolveSessionID, NoSessionFound
<1>4. CASE OpenFile(e)
  BY <1>4 DEF FInv, Shapes, Fates, OthersStand, Disturbs, OpenFile
<1>5. CASE WriteFile(e)
  BY <1>5 DEF FInv, Shapes, Fates, OthersStand, Disturbs, WriteFile
<1>6. CASE WriteFails(e)
  BY <1>6 DEF FInv, Shapes, Fates, OthersStand, Disturbs, WriteFails
<1>7. CASE RecordViolation(e)
  BY <1>7 DEF FInv, Shapes, Fates, OthersStand, Disturbs, RecordViolation
<1>8. QED
  BY <1>1, <1>2, <1>3, <1>4, <1>5, <1>6, <1>7 DEF Handle

\* So an undisturbed refusal has been undisturbed before.
LEMMA UndisturbedBefore ==
    ASSUME FInv, FInv', NEW d \in Denials, NEW e \in Denials,
           OthersStand(e), Disturbs(e) => Disturbs(e)', Undisturbed(d)'
    PROVE  Undisturbed(d)
<1>1. \A x \in Denials \ {d} : ~Disturbs(x)'
  BY DEF Undisturbed, Disturbs
<1>2. \A x \in Denials \ {d} : ~Disturbs(x)
  BY <1>1 DEF OthersStand, Disturbs
<1>3. QED
  BY <1>2, UndisturbedMeans

\* Where files and hooks stay as they are, and d does not come to write.
LEMMA NothingLost ==
    ASSUME NEW d \in Denials, KeptOK(d), UNCHANGED <<hook, delivered, perished, file>>,
           sent'[d] = sent[d],
           pc'[d] = "write latest" => pc[d] = pc'[d] /\ (d \in orphan' <=> d \in orphan)
    PROVE  KeptOK(d)'
BY DEF KeptOK, Reached, InHand, Pending

LEMMA OpenKeepsText ==
    ASSUME FInv, FInv', NEW d \in Denials, NEW e \in Denials, OpenFile(e),
           Undisturbed(d), KeptOK(d)
    PROVE  KeptOK(d)'
<1>1. Filed(e) /\ e = d
  BY UndisturbedMeans DEF FInv, DInv, DenialOK, OpenFile, Writing
<1>2. /\ pc[d] \in {"open session", "open latest"} /\ sent' = sent /\ ~sent[d]
      /\ pc' = [pc EXCEPT ![d] = IF @ = "open session" THEN "write session" ELSE "write latest"]
      /\ orphan' = orphan \ {d}
      /\ file' = [file EXCEPT ![Target(d)] = Truncated]
  BY <1>1 DEF FInv, DInv, DenialOK, OpenFile
<1>3. CASE pc[d] = "open session"
  BY <1>2, <1>3 DEF KeptOK, FInv, Shapes, Fates
<1>4. CASE pc[d] = "open latest"
  <2>1. Target(d) = Latest /\ Latest \in Files
    BY <1>4 DEF Target, Files
  <2>2. file'[Latest] = Truncated
    BY <1>2, <2>1 DEF FInv, Shapes, Fates
  <2>3. QED
    BY <1>2, <2>2 DEF KeptOK
<1>5. QED
  BY <1>2, <1>3, <1>4

LEMMA WriteKeepsText ==
    ASSUME FInv, FInv', NEW d \in Denials, NEW e \in Denials, WriteFile(e),
           Undisturbed(d), KeptOK(d)
    PROVE  KeptOK(d)'
<1>1. Filed(e) /\ e = d
  BY UndisturbedMeans DEF FInv, DInv, DenialOK, WriteFile, Writing
<1>2. /\ pc[d] \in {"write session", "write latest"} /\ UNCHANGED <<hook, delivered, perished>>
      /\ pc'[d] = (IF pc[d] = "write session" THEN "open latest" ELSE "audit")
      /\ sent'[d] = (pc[d] = "write latest")
      /\ file' = IF d \in orphan THEN file ELSE [file EXCEPT ![Target(d)] = Overlay(d, @)]
  BY <1>1 DEF FInv, Shapes, Fates, WriteFile
<1>3. CASE pc[d] = "write session"
  BY <1>2, <1>3 DEF KeptOK
<1>4. CASE pc[d] = "write latest" /\ d \in orphan
  BY <1>2, <1>4 DEF KeptOK, Reached, InHand
<1>5. CASE pc[d] = "write latest" /\ d \notin orphan
  <2>1. Target(d) = Latest /\ Latest \in Files /\ file[Latest] = Truncated
    BY <1>5 DEF Target, Files, KeptOK
  <2>2. file'[Latest] = Overlay(d, Truncated)
    BY <1>2, <1>5, <2>1 DEF FInv, Shapes, Fates
  <2>3. Overlay(d, Truncated).body = d
    BY SizeAssumption DEF Overlay, Truncated
  <2>4. Pending(d)'
    BY <2>1, <2>2, <2>3 DEF Pending
  <2>5. QED
    BY <1>2, <1>5, <2>4 DEF KeptOK
<1>6. QED
  BY <1>2, <1>3, <1>4, <1>5

\* A refusal that takes a step, d or another.
LEMMA DenialKeepsTexts ==
    ASSUME FInv, FInv', UInv, NEW e \in Denials, LsmDenies(e) \/ ProxyDenies(e) \/ Handle(e)
    PROVE  UInv'
<1>1. SUFFICES ASSUME NEW d \in Denials, Undisturbed(d)' PROVE KeptOK(d)'
  BY DEF UInv
<1>2. OthersStand(e) /\ (Disturbs(e) => Disturbs(e)') /\ UNCHANGED <<hook, delivered, perished, deaths>>
  BY DenialStep
<1>3. Undisturbed(d) /\ KeptOK(d)
  BY <1>1, <1>2, UndisturbedBefore DEF UInv
<1>4. CASE OpenFile(e)
  BY <1>3, <1>4, OpenKeepsText
<1>5. CASE WriteFile(e)
  BY <1>3, <1>5, WriteKeepsText
<1>6. CASE LsmDenies(e) \/ ProxyDenies(e) \/ ResolveSessionID(e) \/ WriteFails(e) \/ RecordViolation(e)
  <2>1. UNCHANGED <<hook, delivered, perished, file, sent>>
    BY <1>6 DEF LsmDenies, ProxyDenies, ResolveSessionID, WriteFails, RecordViolation
  <2>2. pc'[d] = "write latest" => pc[d] = pc'[d] /\ (d \in orphan' <=> d \in orphan)
    BY <1>6 DEF FInv, Shapes, Fates, LsmDenies, ProxyDenies, ResolveSessionID, NoSessionFound, WriteFails, RecordViolation
  <2>3. QED
    BY <1>3, <2>1, <2>2, NothingLost
<1>7. QED
  BY <1>4, <1>5, <1>6 DEF Handle

LEMMA ReadRecordKeepsTexts ==
    ASSUME FInv, FInv', UInv, ReadRecord
    PROVE  UInv'
<1>1. SUFFICES ASSUME NEW d \in Denials, Undisturbed(d)' PROVE KeptOK(d)'
  BY DEF UInv
<1>2. PICK e \in Denials : e = Head(ring)
  BY DEF FInv, Shapes, Fates, ReadRecord
<1>3. e = ring[1] /\ 1 \in 1 .. Len(ring)
  BY <1>2 DEF FInv, Shapes, Fates, ReadRecord
<1>4. pc[e] = "queued"
  BY <1>3 DEF FInv, DInv, RingOK
<1>5. /\ pc' = [pc EXCEPT ![e] = "resolve"]
      /\ UNCHANGED <<sid, orphan, sent, rows, file, hook, delivered, perished, deaths>>
  BY <1>2 DEF ReadRecord
<1>6. OthersStand(e) /\ ~Disturbs(e)
  BY <1>4, <1>5 DEF FInv, Shapes, Fates, OthersStand, Disturbs
<1>7. Undisturbed(d) /\ KeptOK(d)
  BY <1>1, <1>6, UndisturbedBefore DEF UInv
<1>8. pc'[d] = "write latest" => pc[d] = pc'[d]
  BY <1>5 DEF FInv, Shapes, Fates
<1>9. QED
  BY <1>5, <1>7, <1>8, NothingLost

\* A hook that takes a step without letting go of a text.
LEMMA HookKeepsTexts ==
    ASSUME FInv, UInv, NEW h \in Hooks, UNCHANGED <<denyVars, file, orphan>>,
           delivered \subseteq delivered', perished \subseteq perished',
           NEW r, hook' = [hook EXCEPT ![h] = r],
           hook[h].got \in Denials => hook[h].got \in delivered' \cup perished'
    PROVE  UInv'
<1>1. SUFFICES ASSUME NEW d \in Denials, Undisturbed(d)' PROVE KeptOK(d)'
  BY DEF UInv
<1>2. Undisturbed(d) /\ KeptOK(d)
  BY <1>1 DEF Undisturbed, UInv, denyVars
<1>3. Reached(d) => Reached(d)'
  BY DEF FInv, Shapes, Fates, Reached, InHand
<1>4. QED
  BY <1>2, <1>3 DEF KeptOK, Pending, denyVars

\* A hook that has read nothing has nothing to let go of.
LEMMA EmptyHanded ==
    ASSUME FInv, NEW h \in Hooks, hook[h].pc \notin Removing
    PROVE  hook[h].got \notin Denials
BY MarkersAssumption DEF FInv, HooksOK

LEMMA UnlinkKeepsTexts ==
    ASSUME FInv, UInv, NEW h \in Hooks, NEW f,
           hook[h].pc \in Removing, NEW where, hook' = [hook EXCEPT ![h].pc = where],
           Unlink(f), UNCHANGED <<denyVars, active, delivered, perished, deaths>>
    PROVE  UInv'
<1>1. SUFFICES ASSUME NEW d \in Denials, Undisturbed(d)' PROVE KeptOK(d)'
  BY DEF UInv
<1>2. Undisturbed(d) /\ KeptOK(d)
  BY <1>1 DEF Undisturbed, UInv, denyVars
<1>3. hook[h].got = d
  BY <1>2, UndisturbedMeans DEF FInv, HooksOK
<1>4. hook'[h].got = d
  BY <1>3 DEF FInv, Shapes, Fates, HookRecords
<1>5. Reached(d)'
  BY <1>4 DEF Reached, InHand
<1>6. ASSUME pc'[d] = "write latest", d \notin orphan'
      PROVE  file'[Latest] = Truncated
  <2>1. pc[d] = "write latest" /\ d \notin orphan /\ Target(d) = Latest
    BY <1>6 DEF Unlink, denyVars, Target
  <2>2. f # Latest
    BY <1>6, <2>1 DEF Unlink
  <2>3. file'[Latest] = file[Latest]
    BY <2>2 DEF FInv, Shapes, Fates, Unlink, Files
  <2>4. QED
    BY <1>2, <2>1, <2>3 DEF KeptOK
<1>7. QED
  BY <1>5, <1>6 DEF KeptOK

LEMMA HookStepKeepsTexts ==
    ASSUME FInv, UInv, NEW h \in Hooks, HookStep(h)
    PROVE  UInv'
<1>1. CASE Register(h)
  <2>1. hook[h].got \notin Denials
    BY <1>1, EmptyHanded DEF Register, Removing
  <2>2. PICK where \in {"write active", "registered"} : hook' = [hook EXCEPT ![h].pc = where]
    BY <1>1 DEF Register
  <2>3. QED
    BY <1>1, <2>1, <2>2, HookKeepsTexts DEF Register
<1>2. CASE Dispatch(h)
  <2>1. hook[h].got \notin Denials
    BY <1>2, EmptyHanded DEF Dispatch, Removing
  <2>2. QED
    BY <1>2, <2>1, HookKeepsTexts DEF Dispatch
<1>3. CASE ReadSession(h)
  <2>1. hook[h].got \notin Denials
    BY <1>3, EmptyHanded DEF ReadSession, Removing
  <2>2. CASE Take(h, hook[h].s)
    BY <1>3, <2>1, <2>2, HookKeepsTexts DEF ReadSession, Take
  <2>3. CASE hook' = [hook EXCEPT ![h].pc = "read latest"]
    BY <1>3, <2>1, <2>3, HookKeepsTexts DEF ReadSession
  <2>4. QED
    BY <1>3, <2>2, <2>3 DEF ReadSession
<1>4. CASE ReadLatest(h)
  <2>1. hook[h].got \notin Denials
    BY <1>4, EmptyHanded DEF ReadLatest, Removing
  <2>2. CASE Take(h, Latest)
    BY <1>4, <2>1, <2>2, HookKeepsTexts DEF ReadLatest, Take
  <2>3. CASE hook' = [hook EXCEPT ![h] = HookIdle]
    BY <1>4, <2>1, <2>3, HookKeepsTexts DEF ReadLatest
  <2>4. QED
    BY <1>4, <2>2, <2>3 DEF ReadLatest
<1>5. CASE Remove(h)
  <2>0. UNCHANGED <<denyVars, active, delivered, perished, deaths>>
    BY <1>5 DEF Remove
  <2>1. CASE hook[h].pc = "remove path"
    <3>1. hook[h].pc \in Removing /\ Unlink(hook[h].from)
      BY <1>5, <2>1 DEF Remove, Removing
    <3>2. CASE hook[h].s = NoSession
      BY <1>5, <2>0, <2>1, <3>1, <3>2, UnlinkKeepsTexts DEF Remove
    <3>3. CASE hook[h].s # NoSession
      BY <1>5, <2>0, <2>1, <3>1, <3>3, UnlinkKeepsTexts DEF Remove
    <3>4. QED
      BY <3>2, <3>3
  <2>2. CASE hook[h].pc = "remove session"
    <3>1. /\ hook[h].pc \in Removing /\ Unlink(hook[h].s)
          /\ hook' = [hook EXCEPT ![h].pc = "remove latest"]
      BY <1>5, <2>2 DEF Remove, Removing
    <3>2. QED
      BY <2>0, <3>1, UnlinkKeepsTexts
  <2>3. CASE hook[h].pc = "remove latest"
    <3>1. /\ hook[h].pc \in Removing /\ Unlink(Latest)
          /\ hook' = [hook EXCEPT ![h].pc = "print"]
      BY <1>5, <2>3 DEF Remove, Removing
    <3>2. QED
      BY <2>0, <3>1, UnlinkKeepsTexts
  <2>4. QED
    BY <1>5, <2>1, <2>2, <2>3 DEF Remove
<1>6. CASE PrintText(h)
  BY <1>6, HookKeepsTexts DEF PrintText
<1>7. QED
  BY <1>1, <1>2, <1>3, <1>4, <1>5, <1>6 DEF HookStep

LEMMA StepKeepsUInv == FInv /\ FInv' /\ UInv /\ [Next]_vars => UInv'
<1>0. SUFFICES ASSUME FInv, FInv', UInv, [Next]_vars PROVE UInv'
  OBVIOUS
<1>1. CASE UNCHANGED vars
  <2>1. ASSUME NEW d \in Denials
        PROVE  (Undisturbed(d)' <=> Undisturbed(d)) /\ (KeptOK(d)' <=> KeptOK(d))
    BY <1>1 DEF vars, Undisturbed, KeptOK, Reached, InHand, Pending
  <2>2. QED
    BY <1>0, <2>1 DEF UInv
<1>2. ASSUME NEW d \in Denials, LsmDenies(d) \/ ProxyDenies(d) \/ Handle(d) PROVE UInv'
  BY <1>0, <1>2, DenialKeepsTexts
<1>3. CASE ReadRecord
  BY <1>0, <1>3, ReadRecordKeepsTexts
<1>4. ASSUME NEW h \in Hooks, NEW kind \in {"pre", "post"},
             NEW s \in Sessions \cup {NoSession}, StartHook(h, kind, s)
      PROVE  UInv'
  <2>1. hook[h].got \notin Denials
    BY <1>0, <1>4, EmptyHanded DEF StartHook, Removing
  <2>2. QED
    BY <1>0, <1>4, <2>1, HookKeepsTexts DEF StartHook
<1>5. ASSUME NEW h \in Hooks, HookDies(h) PROVE UInv'
  <2>1. hook[h].got \in Denials => hook[h].got \in perished'
    BY <1>5 DEF HookDies
  <2>2. QED
    BY <1>0, <1>5, <2>1, HookKeepsTexts DEF HookDies
<1>6. QED
  BY <1>0, <1>1, <1>2, <1>3, <1>4, <1>5, HookStepKeepsTexts DEF Next

(***************************************************************************)
(* A text that was sent reaches the agent, or perishes with the hook that  *)
(* has taken it, or lies in a file, until another refusal gets to the      *)
(* files: what the log line "will be delivered by feedback hook" can be    *)
(* taken to mean, for any number of hooks at a time and of killed ones.    *)
(***************************************************************************)
THEOREM UndisturbedTextsKept == Spec => []UndisturbedIsNotLost
<1>1. Init => UInv
  BY DEF Init, UInv, KeptOK
<1>2. UInv => UndisturbedIsNotLost
  BY DEF UInv, KeptOK, Reached, UndisturbedIsNotLost
<1>3. QED
  BY <1>1, <1>2, StepKeepsUInv, FilesInOrder, PTL DEF Spec
=============================================================================
