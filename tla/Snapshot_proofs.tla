-------------------------- MODULE Snapshot_proofs --------------------------
(***************************************************************************)
(* Proofs about Snapshot, for every set of tasks, outlet count, family of   *)
(* firmwares and number of round trips given up or of acks left unread.     *)
(*                                                                         *)
(* What is inductive for what the probes find: until a set leaves its ack   *)
(* unread, every line in flight replies to a query and says "#Error"        *)
(* exactly when the device lacks it (Honest), and a task that probes asks   *)
(* nothing but optional queries and has found only what the device has     *)
(* (Probing).  For what is stored: an operation under way has a number of   *)
(* its own, so that the capabilities it stores differ from none (Numbered).  *)
(* For the readings: HInv, below.                                          *)
(***************************************************************************)
EXTENDS Snapshot, SequenceTheorems, TLAPS

Named == {"Model", "Firmware", "Hostname", "ServiceTag", "OutletCount", "OutletStatus",
          "OutletName", "PowerStatus", "OutletPowerStatus", "UPSStatus", "UPSConnection",
          "AutoReboot", "Mute", "SafeVoltage", "ScheduledReboot"}

Stages == {"idle", "identify", "probe", "read"}

Queries == Named \X Int

SentLines == [name : Named \cup {Unnamed}, outlet : Int, error : BOOLEAN]

(* The lines in flight: replies of a device with this firmware, and, once a  *)
(* set has left its ack, any line.                                         *)
HonestLines ==
    {line \in SentLines :
        loose = 0 => line.name \in Named /\ line.error = (line.name \in Optional \ firmware)}

STyped ==
    /\ ops   \in Nat /\ loose \in Nat
    /\ op    \in [Tasks -> [id : Nat, full : BOOLEAN, stage : Stages]]
    /\ todo  \in [Tasks -> Seq(Queries)]
    /\ found \in [Tasks -> SUBSET Named]
    /\ caps  \in [id : Nat, has : SUBSET Named]

Honest == wire \in Seq(HonestLines)

Probing ==
    /\ \A t \in Tasks : /\ loose = 0 => found[t] \subseteq firmware
                        /\ IsProbe(t) => \A i \in DOMAIN todo[t] : todo[t][i][1] \in Optional
    /\ loose = 0 => caps.has \subseteq firmware

Numbered == \A t \in Tasks : op[t].stage \in {"identify", "probe", "read"} => op[t].id # 0

SInv == STyped /\ Honest /\ Probing /\ Numbered /\ StoredTogether

-----------------------------------------------------------------------------
(* A query of a command name is a query.                                    *)
LEMMA QueryTyped == \A name \in Named : Query(name) \in Queries /\ <<name, 1>> \in Queries
BY DEF Query, Queries

(* What is asked is a sequence of queries, and the probes are optional ones. *)
LEMMA WhatIsAsked ==
    /\ Identity \in Seq(Queries)
    /\ Probes \in Seq(Queries) /\ \A i \in DOMAIN Probes : Probes[i][1] \in Optional
    /\ \A full \in BOOLEAN : \A has : Reads(full, has) \in Seq(Queries)
<1>1. Identity \in Seq(Queries)
  <2>1. /\ Query("Model") \in Queries /\ Query("Firmware") \in Queries
        /\ Query("Hostname") \in Queries /\ Query("ServiceTag") \in Queries
        /\ Query("OutletCount") \in Queries
    BY QueryTyped DEF Named
  <2>2. Identity = <<Query("Model"), Query("Firmware"), Query("Hostname"),
                     Query("ServiceTag"), Query("OutletCount")>>
    BY DEF Identity, Each
  <2>. QED
    BY <2>1, <2>2
<1>2. Probes \in Seq(Queries)
  <2>1. /\ Query("PowerStatus") \in Queries /\ <<"OutletPowerStatus", 1>> \in Queries
        /\ Query("UPSStatus") \in Queries /\ Query("AutoReboot") \in Queries
        /\ Query("Mute") \in Queries /\ Query("SafeVoltage") \in Queries
        /\ Query("ScheduledReboot") \in Queries
    BY QueryTyped DEF Named
  <2>. QED
    BY <2>1 DEF Probes
<1>3. \A i \in DOMAIN Probes : Probes[i][1] \in Optional
  BY DEF Optional
<1>4. ASSUME NEW full \in BOOLEAN, NEW has
      PROVE  Reads(full, has) \in Seq(Queries)
  <2>1. /\ Each(<<"OutletStatus", "OutletName">>) \in Seq(Queries)
        /\ Each(<<"PowerStatus">>) \in Seq(Queries)
        /\ Each(<<"UPSStatus", "UPSConnection">>) \in Seq(Queries)
        /\ Each(<<"AutoReboot">>) \in Seq(Queries)
    <3>1. /\ Query("OutletStatus") \in Queries /\ Query("OutletName") \in Queries
          /\ Query("PowerStatus") \in Queries /\ Query("UPSStatus") \in Queries
          /\ Query("UPSConnection") \in Queries /\ Query("AutoReboot") \in Queries
      BY QueryTyped DEF Named
    <3>2. /\ Each(<<"OutletStatus", "OutletName">>) = <<Query("OutletStatus"), Query("OutletName")>>
          /\ Each(<<"PowerStatus">>) = <<Query("PowerStatus")>>
          /\ Each(<<"UPSStatus", "UPSConnection">>) = <<Query("UPSStatus"), Query("UPSConnection")>>
          /\ Each(<<"AutoReboot">>) = <<Query("AutoReboot")>>
      BY DEF Each
    <3>3. \A x, y \in Queries : <<x, y>> \in Seq(Queries) /\ <<x>> \in Seq(Queries)
      OBVIOUS
    <3>4. /\ Each(<<"OutletStatus", "OutletName">>) \in Seq(Queries)
          /\ Each(<<"UPSStatus", "UPSConnection">>) \in Seq(Queries)
      BY <3>1, <3>2, <3>3, Zenon
    <3>5. /\ Each(<<"PowerStatus">>) \in Seq(Queries)
          /\ Each(<<"AutoReboot">>) \in Seq(Queries)
      BY <3>1, <3>2, <3>3, Zenon
    <3>. QED
      BY <3>4, <3>5
  <2>2. [i \in 1 .. N |-> <<"OutletPowerStatus", i>>] \in Seq(Queries)
    <3>1. \A i \in 1 .. N : <<"OutletPowerStatus", i>> \in Queries
      BY SnapshotAssumption DEF Queries, Named
    <3>. QED
      BY <3>1, SnapshotAssumption
  <2>3. <<>> \in Seq(Queries)
    OBVIOUS
  <2>4. \A name, s : s \in Seq(Queries) => Listed(has, name, s) \in Seq(Queries)
    BY <2>3 DEF Listed
  <2>5. \A r, s : r \in Seq(Queries) /\ s \in Seq(Queries) => r \o s \in Seq(Queries)
    BY ConcatProperties
  <2>. DEFINE p == Listed(has, "PowerStatus", Each(<<"PowerStatus">>))
              o == Listed(has, "OutletPowerStatus", [i \in 1 .. N |-> <<"OutletPowerStatus", i>>])
              u == Listed(has, "UPSStatus", Each(<<"UPSStatus", "UPSConnection">>))
              a == Listed(has, "AutoReboot", Each(<<"AutoReboot">>))
              b == Each(<<"OutletStatus", "OutletName">>)
  <2>6. /\ p \in Seq(Queries) /\ o \in Seq(Queries) /\ u \in Seq(Queries)
        /\ a \in Seq(Queries) /\ b \in Seq(Queries)
    BY <2>1, <2>2, <2>4
  <2>7. Reads(full, has) = b \o (IF ~full THEN <<>> ELSE p \o o \o u \o a)
    BY Zenon DEF Reads
  <2>. HIDE DEF p, o, u, a, b
  <2>8. (p \o o) \in Seq(Queries)
    BY <2>5, <2>6
  <2>9. ((p \o o) \o u) \in Seq(Queries)
    BY <2>5, <2>6, <2>8
  <2>10. (((p \o o) \o u) \o a) \in Seq(Queries)
    BY <2>5, <2>6, <2>9
  <2>. QED
    BY <2>3, <2>5, <2>6, <2>7, <2>10
<1>. QED
  BY <1>1, <1>2, <1>3, <1>4

(* What a task asks next is a query, and so is what it asks after it.       *)
LEMMA AskedTyped ==
    ASSUME STyped, NEW t \in Tasks, Asking(t)
    PROVE  /\ todo[t] \in Seq(Queries) /\ Len(todo[t]) \in Nat \ {0}
           /\ Asked(t) \in Queries /\ Asked(t) = todo[t][1]
           /\ Tail(todo[t]) \in Seq(Queries)
           /\ \A i \in DOMAIN Tail(todo[t]) : i + 1 \in DOMAIN todo[t] /\ Tail(todo[t])[i] = todo[t][i + 1]
<1>1. todo[t] \in Seq(Queries) /\ todo[t] # <<>>
  BY DEF STyped, Asking
<1>2. Asked(t) = todo[t][1] /\ Asked(t) \in Queries
  BY <1>1 DEF Asked
<1>. QED
  BY <1>1, <1>2, HeadTailProperties, LenProperties

(* The device's reply is one that a device with its firmware sends.         *)
LEMMA ReplyHonest ==
    ASSUME NEW q \in Queries
    PROVE  Reply(q) \in HonestLines
<1>1. Reply(q) = [name |-> q[1], outlet |-> q[2], error |-> q[1] \in Optional \ firmware]
      /\ q[1] \in Named /\ q[2] \in Int
  BY DEF Reply, Queries
<1>. QED
  BY <1>1 DEF HonestLines, SentLines

(* However the client reads, what is in flight afterwards is honest, and so  *)
(* is the line that ended the read.                                        *)
LEMMA AnswerHonest ==
    ASSUME SInv, NEW t \in Tasks, NEW line, NEW own, Answered(t, line, own)
    PROVE  Honest' /\ line \in HonestLines /\ Ends(line, Asked(t))
<1>1. firmware' = firmware /\ loose' = loose /\ Asking(t)
  BY DEF Answered
<1>2. PICK lines \in Lines(Asked(t)) : \E k \in DOMAIN lines :
         Taken(lines, Asked(t), k) /\ line = lines[k]
  BY DEF Answered
<1>3. lines \in Seq(HonestLines)
  <2>1. Reply(Asked(t)) \in HonestLines
    BY <1>1, AskedTyped, ReplyHonest DEF SInv
  <2>2. wire \in Seq(HonestLines)
    BY DEF SInv, Honest
  <2>. QED
    BY <1>2, <2>1, <2>2 DEF Lines
<1>4. PICK k \in DOMAIN lines : Taken(lines, Asked(t), k) /\ line = lines[k]
  BY <1>2
<1>5. k \in 1 .. Len(lines) /\ Len(lines) \in Nat /\ line \in HonestLines
  BY <1>3, <1>4
<1>6. wire' \in Seq(HonestLines)
  <2>1. wire' = SubSeq(lines, k + 1, Len(lines))
    BY <1>4 DEF Taken, Passed
  <2>2. \A i \in k + 1 .. Len(lines) : lines[i] \in HonestLines
    BY <1>3, <1>5
  <2>. QED
    BY <1>5, <2>1, <2>2, SubSeqProperties
<1>7. HonestLines' = HonestLines
  BY <1>1 DEF HonestLines
<1>. QED
  BY <1>4, <1>5, <1>6, <1>7 DEF Taken, Honest

(* So it is after a round trip that is given up.                            *)
LEMMA LossHonest ==
    ASSUME SInv, NEW t \in Tasks, Lost(t)
    PROVE  Honest'
<1>1. firmware' = firmware /\ loose' = loose /\ Asking(t)
  BY DEF Lost
<1>2. PICK lines \in Lines(Asked(t)) : \E k \in 0 .. Len(lines) : wire' = SubSeq(lines, k + 1, Len(lines))
  BY DEF Lost, Passed
<1>3. lines \in Seq(HonestLines)
  <2>1. Reply(Asked(t)) \in HonestLines
    BY <1>1, AskedTyped, ReplyHonest DEF SInv
  <2>2. wire \in Seq(HonestLines)
    BY DEF SInv, Honest
  <2>. QED
    BY <1>2, <2>1, <2>2 DEF Lines
<1>6. PICK k \in 0 .. Len(lines) : wire' = SubSeq(lines, k + 1, Len(lines))
  BY <1>2
<1>4. wire' \in Seq(HonestLines)
  <2>1. \A i \in k + 1 .. Len(lines) : lines[i] \in HonestLines
    BY <1>3
  <2>2. Len(lines) \in Nat
    BY <1>3
  <2>. QED
    BY <1>6, <2>1, <2>2, SubSeqProperties
<1>5. HonestLines' = HonestLines
  BY <1>1 DEF HonestLines
<1>. QED
  BY <1>4, <1>5 DEF Honest

(* An answer that is no "#Error" to an optional query tells that the device  *)
(* has it.                                                                 *)
LEMMA AnswerTellsTruth ==
    ASSUME NEW q \in Queries, q[1] \in Optional, loose = 0,
           NEW line \in HonestLines, Ends(line, q), Supported(line)
    PROVE  q[1] \in firmware
<1>1. line.name \in Named /\ line.error = (line.name \in Optional \ firmware) /\ ~line.error
  BY DEF HonestLines, Supported
<1>2. line.name # Unnamed
  BY <1>1 DEF Named, Unnamed
<1>3. line.name = q[1]
  BY <1>1, <1>2 DEF Ends
<1>. QED
  BY <1>1, <1>3

-----------------------------------------------------------------------------
(* The invariant holds initially.                                          *)
LEMMA SInvInit == Init => SInv
<1>. SUFFICES ASSUME Init PROVE SInv
  OBVIOUS
<1>1. STyped
  BY DEF Init, STyped, Idle, NoCaps, Stages
<1>2. Honest
  BY DEF Init, Honest
<1>3. Probing
  BY DEF Init, Probing, IsProbe, Idle, NoCaps
<1>4. Numbered
  BY DEF Init, Numbered, Idle
<1>5. StoredTogether
  BY DEF Init, StoredTogether, Idle, NoCaps
<1>. QED
  BY <1>1, <1>2, <1>3, <1>4, <1>5 DEF SInv

(* Leaving makes a task idle and forgets what it found.                     *)
LEMMA LeaveIdle ==
    ASSUME STyped, NEW t \in Tasks, Leave(t)
    PROVE  /\ op' \in [Tasks -> [id : Nat, full : BOOLEAN, stage : Stages]]
           /\ todo' \in [Tasks -> Seq(Queries)] /\ found' \in [Tasks -> SUBSET Named]
           /\ op'[t] = Idle /\ found'[t] = {}
           /\ \A u \in Tasks \ {t} : /\ op'[u] = op[u] /\ todo'[u] = todo[u]
                                     /\ found'[u] = found[u]
<1>1. Idle \in [id : Nat, full : BOOLEAN, stage : Stages]
  BY DEF Idle, Stages
<1>2. <<>> \in Seq(Queries)
  OBVIOUS
<1>. QED
  BY <1>1, <1>2 DEF STyped, Leave

(* A task that leaves, whatever it has read, keeps the invariant if it       *)
(* stores nothing.                                                         *)
LEMMA LeavePreserves ==
    ASSUME SInv, NEW t \in Tasks, Leave(t), Honest',
           UNCHANGED <<firmware, loose, info, caps, ops>>
    PROVE  SInv'
<1>1. STyped'
  BY LeaveIdle DEF SInv, STyped
<1>2. Probing'
  <2>1. \A u \in Tasks : loose = 0 => found'[u] \subseteq firmware
    BY LeaveIdle DEF SInv, Probing
  <2>2. ASSUME NEW u \in Tasks, IsProbe(u)'
        PROVE  u # t /\ IsProbe(u) /\ todo'[u] = todo[u]
    BY <2>2, LeaveIdle DEF SInv, IsProbe, Idle
  <2>. QED
    BY <2>1, <2>2 DEF SInv, Probing
<1>5. \A u \in Tasks : op'[u].stage = "idle" \/ op'[u] = op[u]
  BY LeaveIdle DEF SInv, Idle
<1>3. Numbered'
  BY <1>5 DEF SInv, Numbered
<1>4. StoredTogether'
  BY <1>5 DEF SInv, StoredTogether
<1>. QED
  BY <1>1, <1>2, <1>3, <1>4 DEF SInv

-----------------------------------------------------------------------------
(* The steps of a task, one lemma each.                                    *)
LEMMA BeginPreserves ==
    ASSUME SInv, NEW t \in Tasks, NEW full \in BOOLEAN, Begin(t, full)
    PROVE  SInv'
<1>. DEFINE known == info # 0 /\ caps # NoCaps
            stage == IF known THEN "read" ELSE "identify"
            asks == IF known THEN Reads(full, caps.has) ELSE Identity
<1>1. /\ op' = [op EXCEPT ![t] = [id |-> ops + 1, full |-> full, stage |-> stage]]
      /\ todo' = [todo EXCEPT ![t] = asks]
      /\ ops' = ops + 1
      /\ UNCHANGED <<firmware, wire, loose, info, caps, found>>
  BY DEF Begin, device
<1>2. asks \in Seq(Queries) /\ stage \in Stages
  BY WhatIsAsked DEF Stages
<1>. HIDE DEF asks
<1>3. STyped'
  BY <1>1, <1>2 DEF SInv, STyped
<1>4. Honest'
  BY <1>1 DEF SInv, Honest, HonestLines
<1>5. op'[t] = [id |-> ops + 1, full |-> full, stage |-> stage]
  BY <1>1 DEF SInv, STyped
<1>6. \A u \in Tasks \ {t} : op'[u] = op[u] /\ todo'[u] = todo[u]
  BY <1>1 DEF SInv, STyped
<1>7. Probing'
  <2>1. ASSUME NEW u \in Tasks, IsProbe(u)'
        PROVE  u # t /\ IsProbe(u) /\ todo'[u] = todo[u]
    BY <1>5, <1>6, <2>1 DEF IsProbe
  <2>. QED
    BY <1>1, <2>1 DEF SInv, Probing
<1>8. Numbered'
  BY <1>1, <1>5, <1>6 DEF SInv, STyped, Numbered
<1>9. StoredTogether'
  BY <1>1, <1>5, <1>6 DEF SInv, StoredTogether
<1>. QED
  BY <1>3, <1>4, <1>7, <1>8, <1>9 DEF SInv

LEMMA TryAgainPreserves ==
    ASSUME SInv, NEW t \in Tasks, TryAgain(t)
    PROVE  SInv'
<1>1. Honest'
  BY LossHonest DEF TryAgain
<1>2. UNCHANGED <<firmware, loose, info, caps, ops, op, todo, found>>
  BY DEF TryAgain, Lost
<1>. QED
  BY <1>1, <1>2 DEF SInv, STyped, Probing, IsProbe, Numbered, StoredTogether

LEMMA GiveUpPreserves ==
    ASSUME SInv, NEW t \in Tasks, GiveUp(t)
    PROVE  SInv'
<1>1. Honest'
  BY LossHonest DEF GiveUp
<1>. QED
  BY <1>1, LeavePreserves DEF GiveUp, Lost

LEMMA IdentifiedPreserves ==
    ASSUME SInv, NEW t \in Tasks, Identified(t)
    PROVE  SInv'
<1>1. PICK line, own : Answered(t, line, own) /\
         IF ~Valued(line) THEN Leave(t)
         ELSE /\ IF Len(todo[t]) > 1
                 THEN todo' = [todo EXCEPT ![t] = Tail(@)] /\ UNCHANGED op
                 ELSE /\ todo' = [todo EXCEPT ![t] = Probes]
                      /\ op' = [op EXCEPT ![t].stage = "probe"]
              /\ UNCHANGED found
  BY DEF Identified
<1>2. Honest' /\ Asking(t) /\ UNCHANGED <<firmware, loose, ops>>
  BY <1>1, AnswerHonest DEF Answered
<1>3. UNCHANGED <<info, caps>> /\ op[t].stage = "identify"
  BY DEF Identified
<1>4. CASE ~Valued(line)
  BY <1>1, <1>2, <1>3, <1>4, LeavePreserves
<1>5. CASE Valued(line) /\ Len(todo[t]) > 1
  <2>1. todo' = [todo EXCEPT ![t] = Tail(todo[t])] /\ UNCHANGED <<op, found>>
    BY <1>1, <1>5
  <2>2. STyped'
    BY <1>2, <1>3, <2>1, AskedTyped DEF SInv, STyped
  <2>3. Probing'
    BY <1>2, <1>3, <2>1 DEF SInv, STyped, Probing, IsProbe
  <2>. QED
    BY <1>2, <1>3, <2>1, <2>2, <2>3 DEF SInv, Numbered, StoredTogether
<1>6. CASE Valued(line) /\ ~(Len(todo[t]) > 1)
  <2>1. /\ todo' = [todo EXCEPT ![t] = Probes]
        /\ op' = [op EXCEPT ![t].stage = "probe"] /\ UNCHANGED found
    BY <1>1, <1>6
  <2>2. STyped'
    BY <1>2, <1>3, <2>1, WhatIsAsked DEF SInv, STyped, Stages
  <2>3. Probing'
    BY <1>2, <1>3, <2>1, WhatIsAsked DEF SInv, STyped, Probing, IsProbe
  <2>4. Numbered' /\ StoredTogether'
    BY <1>2, <1>3, <2>1 DEF SInv, STyped, Numbered, StoredTogether
  <2>. QED
    BY <1>2, <2>2, <2>3, <2>4 DEF SInv
<1>. QED
  BY <1>4, <1>5, <1>6

LEMMA ProbedPreserves ==
    ASSUME SInv, NEW t \in Tasks, Probed(t)
    PROVE  SInv'
<1>. DEFINE has(line) == found[t] \cup (IF Supported(line) THEN {Asked(t)[1]} ELSE {})
<1>1. PICK line, own :
         /\ Answered(t, line, own)
         /\ found' = [found EXCEPT ![t] = has(line)]
         /\ IF Len(todo[t]) > 1
            THEN todo' = [todo EXCEPT ![t] = Tail(@)] /\ UNCHANGED <<op, info, caps>>
            ELSE /\ info' = op[t].id
                 /\ caps' = [id |-> op[t].id, has |-> has(line)]
                 /\ todo' = [todo EXCEPT ![t] = Reads(op[t].full, has(line))]
                 /\ op' = [op EXCEPT ![t].stage = "read"]
  BY DEF Probed
<1>2. Honest' /\ Asking(t) /\ UNCHANGED <<firmware, loose, ops>>
  BY <1>1, AnswerHonest DEF Answered
<1>3. op[t].stage = "probe" /\ op[t].id # 0 /\ op[t].id \in Nat /\ op[t].full \in BOOLEAN
  BY DEF Probed, IsProbe, SInv, STyped, Numbered
<1>4. Asked(t)[1] \in Optional /\ Asked(t)[1] \in Named /\ Asked(t) \in Queries
  <2>1. Asked(t) = todo[t][1] /\ Asked(t) \in Queries /\ Len(todo[t]) \in Nat \ {0}
    BY <1>2, AskedTyped DEF SInv
  <2>2. 1 \in DOMAIN todo[t]
    BY <2>1 DEF SInv, STyped
  <2>3. Asked(t)[1] \in Optional
    BY <1>3, <2>1, <2>2 DEF SInv, Probing, IsProbe
  <2>4. Asked(t)[1] \in Named
    BY <2>1 DEF Queries
  <2>. QED
    BY <2>1, <2>3, <2>4
<1>5. (loose = 0 => has(line) \subseteq firmware) /\ has(line) \in SUBSET Named
  <2>1. loose = 0 /\ Supported(line) => Asked(t)[1] \in firmware
    BY <1>1, <1>4, AnswerHonest, AnswerTellsTruth
  <2>. QED
    BY <1>4, <2>1 DEF SInv, Probing, STyped
<1>. HIDE DEF has
<1>6. found' \in [Tasks -> SUBSET Named] /\ \A u \in Tasks : loose = 0 => found'[u] \subseteq firmware
  BY <1>1, <1>5 DEF SInv, STyped, Probing
<1>7. CASE Len(todo[t]) > 1
  <2>1. todo' = [todo EXCEPT ![t] = Tail(todo[t])] /\ UNCHANGED <<op, info, caps>>
    BY <1>1, <1>7
  <2>2. STyped'
    BY <1>2, <1>6, <2>1, AskedTyped DEF SInv, STyped
  <2>3. Probing'
    <3>1. \A i \in DOMAIN Tail(todo[t]) : Tail(todo[t])[i][1] \in Optional
      BY <1>2, <1>3, AskedTyped DEF SInv, Probing, IsProbe
    <3>. QED
      BY <1>2, <1>6, <2>1, <3>1 DEF SInv, STyped, Probing, IsProbe
  <2>. QED
    BY <1>2, <2>1, <2>2, <2>3 DEF SInv, Numbered, StoredTogether
<1>8. CASE ~(Len(todo[t]) > 1)
  <2>1. /\ info' = op[t].id
        /\ caps' = [id |-> op[t].id, has |-> has(line)]
        /\ todo' = [todo EXCEPT ![t] = Reads(op[t].full, has(line))]
        /\ op' = [op EXCEPT ![t].stage = "read"]
    BY <1>1, <1>8
  <2>2. Reads(op[t].full, has(line)) \in Seq(Queries)
    BY <1>3, WhatIsAsked
  <2>3. /\ op' \in [Tasks -> [id : Nat, full : BOOLEAN, stage : Stages]]
        /\ op'[t].stage = "read" /\ op'[t].id = op[t].id
        /\ \A u \in Tasks \ {t} : op'[u] = op[u] /\ todo'[u] = todo[u]
    BY <2>1 DEF SInv, STyped, Stages
  <2>4. STyped'
    BY <1>2, <1>3, <1>5, <1>6, <2>1, <2>2, <2>3 DEF SInv, STyped
  <2>5. Probing'
    BY <1>2, <1>5, <1>6, <2>1, <2>3 DEF SInv, Probing, IsProbe
  <2>6. Numbered'
    BY <1>3, <2>3 DEF SInv, Numbered
  <2>7. StoredTogether'
    <3>1. caps'.id # 0 /\ info' = caps'.id
      BY <1>3, <2>1
    <3>2. caps' # NoCaps
      BY <3>1 DEF NoCaps
    <3>. QED
      BY <3>1, <3>2 DEF StoredTogether
  <2>. QED
    BY <1>2, <2>4, <2>5, <2>6, <2>7 DEF SInv
<1>. QED
  BY <1>7, <1>8

LEMMA ReadNextPreserves ==
    ASSUME SInv, NEW t \in Tasks, ReadNext(t)
    PROVE  SInv'
<1>1. PICK line, own :
         LET rest == SubSeq(todo[t], Skipped(t, line) + 1, Len(todo[t])) IN
         /\ Answered(t, line, own)
         /\ IF Raised(Asked(t), line) \/ rest = <<>>
            THEN Leave(t)
            ELSE todo' = [todo EXCEPT ![t] = rest] /\ UNCHANGED <<op, found>>
  BY DEF ReadNext
<1>. DEFINE rest == SubSeq(todo[t], Skipped(t, line) + 1, Len(todo[t]))
<1>2. Leave(t) \/ (todo' = [todo EXCEPT ![t] = rest] /\ UNCHANGED <<op, found>>)
  BY <1>1
<1>3. Honest' /\ Asking(t) /\ UNCHANGED <<firmware, loose, ops>>
  BY <1>1, AnswerHonest DEF Answered
<1>4. UNCHANGED <<info, caps>> /\ op[t].stage = "read"
  BY DEF ReadNext
<1>5. CASE Leave(t)
  BY <1>3, <1>4, <1>5, LeavePreserves
<1>6. CASE todo' = [todo EXCEPT ![t] = rest] /\ UNCHANGED <<op, found>>
  <2>1. rest \in Seq(Queries)
    <3>1. Skipped(t, line) \in Nat
      BY DEF Skipped
    <3>2. todo[t] \in Seq(Queries) /\ Len(todo[t]) \in Nat
      BY DEF SInv, STyped
    <3>3. \A i \in Skipped(t, line) + 1 .. Len(todo[t]) : todo[t][i] \in Queries
      BY <3>1, <3>2
    <3>. QED
      BY <3>1, <3>2, <3>3, SubSeqProperties
  <2>. HIDE DEF rest
  <2>2. STyped'
    BY <1>3, <1>4, <1>6, <2>1 DEF SInv, STyped
  <2>3. Probing'
    BY <1>3, <1>4, <1>6 DEF SInv, STyped, Probing, IsProbe
  <2>. QED
    BY <1>3, <1>4, <1>6, <2>2, <2>3 DEF SInv, Numbered, StoredTogether
<1>. QED
  BY <1>2, <1>5, <1>6

(* A set changes nothing but the lines in flight.                           *)
LEMMA SetPreserves ==
    ASSUME SInv, SetAcked \/ SetUnacked
    PROVE  SInv'
<1>1. /\ UNCHANGED <<firmware, info, caps, ops, op, todo, found>>
      /\ loose' = loose \/ loose' = loose + 1
  BY DEF SetAcked, SetUnacked
<1>2. loose \in Nat /\ wire \in Seq(HonestLines) /\ Len(wire) \in Nat
  BY DEF SInv, STyped, Honest
<1>3. loose' \in Nat /\ (loose' = 0 => loose = 0)
  BY <1>1, <1>2
<1>4. \A error \in BOOLEAN : Ack(error) \in SentLines
  BY DEF Ack, SentLines
<1>5. wire' \in Seq(HonestLines')
  <2>1. CASE SetAcked
    <3>1. loose' = loose
      BY <2>1 DEF SetAcked
    <3>2. PICK error \in BOOLEAN, k \in Nat :
             \/ k \in 0 .. Len(wire) /\ wire' = SubSeq(wire, k + 1, Len(wire))
             \/ /\ k = Len(wire) + 1
                /\ wire' = SubSeq(Append(wire, Ack(error)), k + 1, Len(Append(wire, Ack(error))))
      <4>1. PICK q \in Setters, error \in BOOLEAN :
               \/ \E k \in 0 .. Len(wire) : Passed(wire, q, k)
               \/ Passed(Append(wire, Ack(error)), q, Len(wire) + 1)
        BY <2>1 DEF SetAcked
      <4>. QED
        BY <1>2, <4>1 DEF Passed
    <3>3. CASE k \in 0 .. Len(wire) /\ wire' = SubSeq(wire, k + 1, Len(wire))
      <4>1. \A i \in k + 1 .. Len(wire) : wire[i] \in HonestLines
        BY <1>2, <3>3
      <4>2. wire' \in Seq(HonestLines)
        BY <1>2, <3>3, <4>1, SubSeqProperties
      <4>. QED
        BY <1>1, <3>1, <4>2 DEF HonestLines
    <3>4. CASE wire' = SubSeq(Append(wire, Ack(error)), Len(wire) + 2, Len(Append(wire, Ack(error))))
      <4>1. Len(Append(wire, Ack(error))) = Len(wire) + 1
        BY <1>2
      <4>2. wire' = <<>>
        BY <1>2, <3>4, <4>1
      <4>. QED
        BY <4>2
    <3>. QED
      BY <1>2, <3>2, <3>3, <3>4
  <2>2. CASE SetUnacked
    <3>1. loose' = loose + 1
      BY <2>2 DEF SetUnacked
    <3>2. HonestLines' = SentLines
      BY <1>2, <3>1 DEF HonestLines
    <3>3. PICK error \in BOOLEAN, k \in 0 .. Len(wire) :
             wire' = SubSeq(Append(wire, Ack(error)), k + 1, Len(Append(wire, Ack(error))))
      BY <2>2 DEF SetUnacked, Passed
    <3>. DEFINE lines == Append(wire, Ack(error))
    <3>4. wire \in Seq(SentLines)
      BY <1>2 DEF HonestLines
    <3>5. lines \in Seq(SentLines) /\ Len(lines) \in Nat
      BY <1>4, <3>4
    <3>. HIDE DEF lines
    <3>6. wire' = SubSeq(lines, k + 1, Len(lines)) /\ k \in Nat
      BY <3>3 DEF lines
    <3>7. \A i \in k + 1 .. Len(lines) : lines[i] \in SentLines
      BY <3>5, <3>6
    <3>8. wire' \in Seq(SentLines)
      BY <3>5, <3>6, <3>7, SubSeqProperties
    <3>. QED
      BY <3>2, <3>8
  <2>. QED
    BY <2>1, <2>2
<1>6. STyped'
  BY <1>1, <1>3 DEF SInv, STyped
<1>7. Probing'
  BY <1>1, <1>3 DEF SInv, Probing, IsProbe
<1>8. Numbered' /\ StoredTogether'
  BY <1>1 DEF SInv, Numbered, StoredTogether
<1>. QED
  BY <1>5, <1>6, <1>7, <1>8 DEF SInv, Honest

(* Every step preserves the invariant.                                     *)
LEMMA SInvNext == SInv /\ [Next]_svars => SInv'
<1>. SUFFICES ASSUME SInv, [Next]_svars PROVE SInv'
  OBVIOUS
<1>1. CASE UNCHANGED svars
  BY <1>1 DEF svars, device, SInv, STyped, Honest, HonestLines, Probing, IsProbe, Numbered, StoredTogether
<1>2. ASSUME NEW t \in Tasks, NEW full \in BOOLEAN, Begin(t, full) PROVE SInv'
  BY <1>2, BeginPreserves
<1>3. ASSUME NEW t \in Tasks,
             TryAgain(t) \/ GiveUp(t) \/ Identified(t) \/ Probed(t) \/ ReadNext(t)
      PROVE  SInv'
  BY <1>3, TryAgainPreserves, GiveUpPreserves, IdentifiedPreserves, ProbedPreserves,
     ReadNextPreserves
<1>4. CASE SetAcked \/ SetUnacked
  BY <1>4, SetPreserves
<1>. QED
  BY <1>1, <1>2, <1>3, <1>4 DEF Next

LEMMA SInvAlways == Spec => []SInv
BY SInvInit, SInvNext, PTL DEF Spec

(* An entity shows a query that the capabilities hold.                      *)
LEMMA EntitiesAreShown ==
    ASSUME NEW has, NEW entity \in EntitiesFor(has)
    PROVE  ShownBy(entity) \subseteq has
BY DEF EntitiesFor, ShownBy, PerOutlet

(* Identity and capabilities are always those of one identification, and a  *)
(* task that reads finds both: client.py:194 to 202.                       *)
THEOREM IdentityWithCapabilities == Spec => []StoredTogether
<1>1. SInv => StoredTogether
  BY DEF SInv
<1>. QED
  BY <1>1, SInvAlways, PTL

(* For any firmware, delay, loss and repetition of replies, and with sets in  *)
(* between, the client records a capability that the device lacks, and an    *)
(* entity shows it (README:25), only if a line without a prefix was left on  *)
(* its way that nobody waited for.                                         *)
THEOREM PhantomsHaveCauses == Spec => []PhantomHasCause
<1>1. SInv => PhantomHasCause
  BY EntitiesAreShown DEF SInv, Probing, PhantomHasCause, NoPhantomCapability
<1>. QED
  BY <1>1, SInvAlways, PTL

-----------------------------------------------------------------------------
(***************************************************************************)
(* The readings.  An answer to the client's own request leaves nothing on   *)
(* its way, which stays so for a task until a round trip is given up or an  *)
(* ack left unread (Settled), so that its next answer is its own again.     *)
(***************************************************************************)
Readings == [query : Named, own : BOOLEAN, undisturbed : BOOLEAN]

InStep(s) == \A i \in 2 .. Len(s) : s[i - 1].own /\ s[i].undisturbed => s[i].own

KeptReadings == {s \in Seq(Readings) : InStep(s)}

Settled ==
    \A t \in Tasks :
        got[t] # <<>> /\ got[t][Len(got[t])].own /\ t \notin disturbed => wire = <<>>

HInv == got \in [Tasks -> KeptReadings] /\ Settled

(* An answer to the own request leaves nothing on its way, and where nothing  *)
(* was on its way the answer is to the own request.                        *)
LEMMA OwnAnswer ==
    ASSUME SInv, NEW t \in Tasks, NEW line, NEW own \in BOOLEAN, Answered(t, line, own)
    PROVE  /\ own => wire' = <<>>
           /\ wire = <<>> => own /\ wire' = <<>>
<1>1. PICK lines \in Lines(Asked(t)) : \E k \in DOMAIN lines :
         Taken(lines, Asked(t), k) /\ own = (k > Len(wire))
  BY DEF Answered
<1>2. PICK k \in DOMAIN lines : Taken(lines, Asked(t), k) /\ own = (k > Len(wire))
  BY <1>1
<1>3. wire' = SubSeq(lines, k + 1, Len(lines))
  BY <1>2 DEF Taken, Passed
<1>4. wire \in Seq(HonestLines) /\ Len(wire) \in Nat
  BY DEF SInv, Honest
<1>5. Reply(Asked(t)) \in HonestLines
  BY AskedTyped, ReplyHonest DEF SInv, Answered
<1>6. /\ lines \in Seq(HonestLines)
      /\ lines = wire \/ Len(lines) = Len(wire) + 1
  BY <1>1, <1>4, <1>5 DEF Lines
<1>7. k \in 1 .. Len(lines) /\ Len(lines) \in Nat
  BY <1>2, <1>6
<1>8. k = Len(lines) => wire' = <<>>
  BY <1>3, <1>6, <1>7
<1>9. k > Len(wire) => k = Len(lines)
  BY <1>4, <1>6, <1>7
<1>10. wire = <<>> => k > Len(wire)
  BY <1>7
<1>. QED
  BY <1>2, <1>8, <1>9, <1>10

(* What a task reads next is its own if the reading before it was and        *)
(* nothing was given up or left in between.                                *)
LEMMA ReadingKept ==
    ASSUME SInv, HInv, NEW t \in Tasks, NEW line, NEW own \in BOOLEAN,
           Answered(t, line, own)
    PROVE  /\ Append(got[t], Reading(t, own)) \in KeptReadings
           /\ LET all == Append(got[t], Reading(t, own))
              IN  all[Len(all)].own = own
<1>. DEFINE r == Reading(t, own)
            all == Append(got[t], r)
<1>1. r \in Readings /\ r.own = own /\ r.undisturbed = (t \notin disturbed)
  <2>1. Asked(t)[1] \in Named
    BY AskedTyped DEF Answered, SInv, Queries
  <2>2. r = [query |-> Asked(t)[1], own |-> own, undisturbed |-> t \notin disturbed]
    BY DEF Reading
  <2>. QED
    BY <2>1, <2>2 DEF Readings
<1>2. got[t] \in Seq(Readings) /\ InStep(got[t]) /\ Len(got[t]) \in Nat
  BY DEF HInv, KeptReadings
<1>. HIDE DEF r
<1>3. /\ all \in Seq(Readings) /\ Len(all) = Len(got[t]) + 1 /\ all[Len(all)] = r
      /\ \A i \in 1 .. Len(got[t]) : all[i] = got[t][i]
  BY <1>1, <1>2
<1>4. ASSUME got[t] # <<>>, got[t][Len(got[t])].own, r.undisturbed
      PROVE  own
  BY <1>1, <1>4, OwnAnswer DEF HInv, Settled
<1>. HIDE DEF all
<1>5. InStep(all)
  <2>. SUFFICES ASSUME NEW i \in 2 .. Len(all), all[i - 1].own, all[i].undisturbed
                PROVE  all[i].own
    BY DEF InStep
  <2>1. CASE i <= Len(got[t])
    <3>1. i \in 2 .. Len(got[t]) /\ i - 1 \in 1 .. Len(got[t]) /\ i \in 1 .. Len(got[t])
      BY <1>2, <1>3, <2>1
    <3>2. all[i] = got[t][i] /\ all[i - 1] = got[t][i - 1]
      BY <1>3, <3>1
    <3>. QED
      BY <1>2, <3>1, <3>2 DEF InStep
  <2>2. CASE i = Len(got[t]) + 1
    <3>1. all[i] = r /\ all[i - 1] = got[t][Len(got[t])] /\ got[t] # <<>>
      BY <1>2, <1>3, <2>2
    <3>. QED
      BY <1>1, <1>4, <3>1
  <2>. QED
    BY <1>2, <1>3, <2>1, <2>2
<1>6. all \in KeptReadings /\ all[Len(all)].own = own
  BY <1>1, <1>3, <1>5 DEF KeptReadings
<1>. QED
  BY <1>6 DEF all, r

LEMMA NothingKept == <<>> \in KeptReadings
BY DEF KeptReadings, InStep

LEMMA HInvInit == Init => HInv
BY NothingKept DEF Init, HInv, Settled

(* An answered query leaves the other tasks settled.                        *)
LEMMA OthersSettled ==
    ASSUME SInv, HInv, NEW t \in Tasks, NEW line, NEW own \in BOOLEAN,
           Answered(t, line, own), NEW u \in Tasks,
           got'[u] = got[u], u \in disturbed => u \in disturbed'
    PROVE  got'[u] # <<>> /\ got'[u][Len(got'[u])].own /\ u \notin disturbed' => wire' = <<>>
BY OwnAnswer DEF HInv, Settled

LEMMA BeginKeeps ==
    ASSUME HInv, NEW t \in Tasks, NEW full \in BOOLEAN, Begin(t, full)
    PROVE  HInv'
<1>1. got' = [got EXCEPT ![t] = <<>>] /\ UNCHANGED <<wire, disturbed>>
  BY DEF Begin, device
<1>2. got' \in [Tasks -> KeptReadings]
  BY <1>1, NothingKept DEF HInv
<1>3. got'[t] = <<>> /\ \A u \in Tasks \ {t} : got'[u] = got[u]
  BY <1>1 DEF HInv
<1>. QED
  BY <1>1, <1>2, <1>3 DEF HInv, Settled

(* A round trip given up, or an ack left unread, disturbs every task that    *)
(* has read something.                                                     *)
LEMMA LossKeeps ==
    ASSUME HInv, (\E t \in Tasks : TryAgain(t) \/ GiveUp(t)) \/ SetUnacked
    PROVE  HInv'
<1>1. got' = got /\ disturbed' = {u \in Tasks : got[u] # <<>>}
  BY DEF TryAgain, GiveUp, Lost, SetUnacked
<1>. QED
  BY <1>1 DEF HInv, Settled

(* A set that reads its ack, or gets none, leaves nothing on its way that     *)
(* was not.                                                                *)
LEMMA AckedKeeps ==
    ASSUME SInv, HInv, SetAcked
    PROVE  HInv'
<1>1. UNCHANGED <<got, disturbed>>
  BY DEF SetAcked
<1>2. wire \in Seq(HonestLines) /\ Len(wire) \in Nat
  BY DEF SInv, Honest
<1>3. ASSUME wire = <<>> PROVE wire' = <<>>
  <2>1. PICK q \in Setters, error \in BOOLEAN :
           \/ \E k \in 0 .. Len(wire) : Passed(wire, q, k)
           \/ Passed(Append(wire, Ack(error)), q, Len(wire) + 1)
    BY DEF SetAcked
  <2>2. Len(wire) = 0 /\ Append(wire, Ack(error)) = <<Ack(error)>>
    BY <1>3
  <2>3. CASE \E k \in 0 .. Len(wire) : Passed(wire, q, k)
    BY <1>2, <1>3, <2>2, <2>3 DEF Passed
  <2>4. CASE Passed(Append(wire, Ack(error)), q, Len(wire) + 1)
    <3>1. wire' = SubSeq(<<Ack(error)>>, 2, Len(<<Ack(error)>>)) /\ Len(<<Ack(error)>>) = 1
      BY <2>2, <2>4 DEF Passed
    <3>. QED
      BY <3>1
  <2>. QED
    BY <2>1, <2>3, <2>4
<1>. QED
  BY <1>1, <1>3 DEF HInv, Settled

LEMMA SearchKeeps ==
    ASSUME SInv, HInv, NEW t \in Tasks, Identified(t) \/ Probed(t)
    PROVE  HInv'
<1>1. PICK line \in AnyLine(Asked(t)), own \in BOOLEAN : Answered(t, line, own)
  BY DEF Identified, Probed
<1>2. UNCHANGED <<got, disturbed>>
  BY DEF Identified, Probed
<1>3. Settled'
  BY <1>1, <1>2, OthersSettled DEF Settled
<1>. QED
  BY <1>2, <1>3 DEF HInv

LEMMA ReadNextKeeps ==
    ASSUME SInv, HInv, NEW t \in Tasks, ReadNext(t)
    PROVE  HInv'
<1>1. PICK line \in AnyLine(Asked(t)), own \in BOOLEAN :
         /\ Answered(t, line, own)
         /\ IF Valued(line)
            THEN /\ got' = [got EXCEPT ![t] = Append(@, Reading(t, own))]
                 /\ disturbed' = disturbed \ {t}
            ELSE UNCHANGED <<got, disturbed>>
  BY DEF ReadNext
<1>. DEFINE all == Append(got[t], Reading(t, own))
<1>2. all \in KeptReadings /\ all[Len(all)].own = own
  BY <1>1, ReadingKept
<1>. HIDE DEF all
<1>3. CASE ~Valued(line)
  <2>1. UNCHANGED <<got, disturbed>>
    BY <1>1, <1>3
  <2>2. Settled'
    BY <1>1, <2>1, OthersSettled DEF Settled
  <2>. QED
    BY <2>1, <2>2 DEF HInv
<1>4. CASE Valued(line)
  <2>1. got' = [got EXCEPT ![t] = all] /\ disturbed' = disturbed \ {t}
    BY <1>1, <1>4 DEF all
  <2>2. got' \in [Tasks -> KeptReadings] /\ got'[t] = all
        /\ \A u \in Tasks \ {t} : got'[u] = got[u]
    BY <1>2, <2>1 DEF HInv
  <2>3. ASSUME NEW u \in Tasks, got'[u] # <<>>, got'[u][Len(got'[u])].own, u \notin disturbed'
        PROVE  wire' = <<>>
    <3>1. CASE u # t
      <4>1. got'[u] = got[u] /\ (u \in disturbed => u \in disturbed')
        BY <2>1, <2>2, <3>1
      <4>. QED
        BY <1>1, <2>3, <4>1, OthersSettled
    <3>2. CASE u = t
      <4>1. own
        BY <1>2, <2>2, <2>3, <3>2
      <4>. QED
        BY <1>1, <4>1, OwnAnswer
    <3>. QED
      BY <3>1, <3>2
  <2>. QED
    BY <2>2, <2>3 DEF HInv, Settled
<1>. QED
  BY <1>3, <1>4

LEMMA HInvNext == SInv /\ HInv /\ [Next]_svars => HInv'
<1>. SUFFICES ASSUME SInv, HInv, [Next]_svars PROVE HInv'
  OBVIOUS
<1>1. CASE UNCHANGED svars
  BY <1>1 DEF svars, device, HInv, Settled
<1>2. ASSUME NEW t \in Tasks, NEW full \in BOOLEAN, Begin(t, full) PROVE HInv'
  BY <1>2, BeginKeeps
<1>3. ASSUME NEW t \in Tasks,
             TryAgain(t) \/ GiveUp(t) \/ Identified(t) \/ Probed(t) \/ ReadNext(t)
      PROVE  HInv'
  BY <1>3, LossKeeps, SearchKeeps, ReadNextKeeps
<1>4. CASE SetAcked \/ SetUnacked
  BY <1>4, LossKeeps, AckedKeeps
<1>. QED
  BY <1>1, <1>2, <1>3, <1>4 DEF Next

LEMMA HInvAlways == Spec => []HInv
BY SInvAlways, HInvInit, HInvNext, PTL DEF Spec

(* Once an operation has read the reply to a request of its own, so it goes   *)
(* on, with however many tasks and sets on the connection, until a round      *)
(* trip is given up or a set does not read its ack: client.py:207 to 232.     *)
THEOREM ReadingsInStep == Spec => []ReadingsKeepStep
<1>1. HInv => ReadingsKeepStep
  <2>. SUFFICES ASSUME HInv, NEW t \in Tasks, NEW i \in DOMAIN got[t],
                       i > 1, got[t][i - 1].own, got[t][i].undisturbed
                PROVE  got[t][i].own
    BY DEF ReadingsKeepStep
  <2>1. got[t] \in Seq(Readings) /\ InStep(got[t])
    BY DEF HInv, KeptReadings
  <2>2. i \in 2 .. Len(got[t])
    BY <2>1
  <2>. QED
    BY <2>1, <2>2 DEF InStep
<1>. QED
  BY <1>1, HInvAlways, PTL

=============================================================================
