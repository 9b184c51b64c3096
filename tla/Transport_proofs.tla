-------------------------- MODULE Transport_proofs --------------------------
(***************************************************************************)
(* Transport, for any number of tasks, commands, connections and lines: its  *)
(* types and SingleFlight, and, in the second part, which reply goes to     *)
(* which request: RepliesNeverReused, ShiftHasCause and the refinement of  *)
(* SerialRequests.                                                         *)
(***************************************************************************)
EXTENDS Transport, SequenceTheorems, TLAPS

(* Removing one element of a sequence keeps the others in their order.     *)
LEMMA RemoveAtFacts ==
    ASSUME NEW S, NEW q \in Seq(S), NEW i \in 1 .. Len(q)
    PROVE  /\ RemoveAt(q, i) \in Seq(S)
           /\ Len(RemoveAt(q, i)) = Len(q) - 1
           /\ \A j \in 1 .. Len(q) - 1 :
                RemoveAt(q, i)[j] = IF j < i THEN q[j] ELSE q[j + 1]
<1> DEFINE a == SubSeq(q, 1, i - 1)
           b == SubSeq(q, i + 1, Len(q))
<1>1. /\ a \in Seq(S) /\ Len(a) = i - 1
      /\ \A j \in 1 .. i - 1 : a[j] = q[j]
  <2>1. /\ 1 \in Int /\ i - 1 \in Int
        /\ \A j \in 1 .. i - 1 : q[j] \in S
    BY ElementOfSeq, LenProperties
  <2> QED BY <2>1, SubSeqProperties, LenProperties
<1>2. /\ b \in Seq(S) /\ Len(b) = Len(q) - i
      /\ \A j \in 1 .. Len(q) - i : b[j] = q[i + j]
  <2>1. /\ i + 1 \in Int /\ Len(q) \in Int
        /\ \A j \in i + 1 .. Len(q) : q[j] \in S
    BY ElementOfSeq, LenProperties
  <2> QED BY <2>1, SubSeqProperties, LenProperties
<1> HIDE DEF a, b
<1>3. /\ a \o b \in Seq(S)
      /\ Len(a \o b) = Len(a) + Len(b)
      /\ \A j \in 1 .. Len(a) + Len(b) :
            (a \o b)[j] = IF j <= Len(a) THEN a[j] ELSE b[j - Len(a)]
  BY <1>1, <1>2, ConcatProperties
<1>4. RemoveAt(q, i) = a \o b
  BY DEF RemoveAt, a, b
<1>5. Len(q) \in Nat
  BY LenProperties
<1>6. ASSUME NEW j \in 1 .. Len(q) - 1
      PROVE  (a \o b)[j] = IF j < i THEN q[j] ELSE q[j + 1]
  <2>1. CASE j < i
    <3>1. /\ j \in 1 .. i - 1 /\ j <= Len(a) /\ j \in 1 .. Len(a) + Len(b)
      BY <2>1, <1>1, <1>2, <1>5
    <3> QED BY <3>1, <2>1, <1>1, <1>3
  <2>2. CASE j >= i
    <3>1. (a \o b)[j] = b[j - (i - 1)]
      BY <2>2, <1>1, <1>2, <1>3, <1>5
    <3>2. j - (i - 1) \in 1 .. Len(q) - i
      BY <2>2, <1>5
    <3>3. b[j - (i - 1)] = q[i + (j - (i - 1))]
      BY <3>2, <1>2
    <3> QED BY <3>1, <3>3, <2>2, <1>5
  <2>3. j < i \/ j >= i
    BY <1>5
  <2> QED BY <2>1, <2>2, <2>3
<1>7. Len(a \o b) = Len(q) - 1
  BY <1>1, <1>2, <1>3, <1>5
<1> QED BY <1>3, <1>4, <1>6, <1>7


-----------------------------------------------------------------------------
(* The lock.  A sending task is the head of the lock, and its line is the   *)
(* last of the log; a waiting task is somewhere in the lock.               *)

Queued(t) == \E i \in 1 .. Len(lockq) : lockq[i] = t

LockInv ==
    /\ SingleFlight
    /\ \A t \in Tasks : pc[t] = "waiting" => Queued(t)

(* Only lines that were written are on their way to the device.            *)
WireInv ==
    \A s \in 0 .. MaxSessions : \A i \in 1 .. Len(toDev[s]) :
        toDev[s][i] # Exit => toDev[s][i] \in 1 .. Len(log)

IInv == TypeOK /\ LockInv /\ WireInv

(* A returning call leaves well-typed locals.                              *)
LEMMA ReturnTyped ==
    ASSUME TypeOK, NEW t \in Tasks, Return(t)
    PROVE  /\ pc' \in [Tasks -> PCs] /\ cmd' \in [Tasks -> Commands]
           /\ at' \in [Tasks -> 0 .. MaxSessions] /\ mine' \in [Tasks -> Nat]
           /\ pc'[t] = "idle"
           /\ \A u \in Tasks \ {t} : pc'[u] = pc[u] /\ mine'[u] = mine[u]
<1>1. NoCommand \in Commands
  BY CommandsAssumption DEF NoCommand
<1> QED BY <1>1, BoundsAssumption DEF TypeOK, Return, PCs

(* A step that neither touches the lock nor the log, and starts no send.    *)
LEMMA LockKept ==
    ASSUME LockInv, UNCHANGED <<lockq, log>>,
           \A u \in Tasks :
             /\ Sending(u)' => (Sending(u) /\ mine'[u] = mine[u])
             /\ pc'[u] = "waiting" => pc[u] = "waiting"
    PROVE  LockInv'
<1>1. ASSUME NEW u \in Tasks, Sending(u)'
      PROVE  /\ lockq' # <<>> /\ Head(lockq') = u
             /\ mine'[u] \in DOMAIN log' /\ mine'[u] = Len(log')
             /\ log'[mine'[u]].task = u /\ log'[mine'[u]].fate = "open"
  <2>1. Sending(u) /\ mine'[u] = mine[u] /\ lockq' = lockq /\ log' = log
    BY <1>1 DEF Sending
  <2> QED BY <2>1 DEF LockInv, SingleFlight
<1>2. ASSUME NEW u \in Tasks, pc'[u] = "waiting"
      PROVE  Queued(u)'
  <2>1. pc[u] = "waiting" /\ lockq' = lockq
    BY <1>2 DEF Sending
  <2> QED BY <2>1 DEF LockInv, Queued
<1> QED BY <1>1, <1>2 DEF LockInv, SingleFlight, Sending, Queued

(* The head of the lock leaves it: nobody is sending, and a task that waits *)
(* moves up one place.                                                     *)
LEMMA LockReleased ==
    ASSUME TypeOK, LockInv, NEW t \in Tasks, Return(t),
           lockq # <<>>, Head(lockq) = t, lockq' = Tail(lockq)
    PROVE  LockInv' /\ lockq' \in Seq(Tasks)
<1>1. /\ lockq \in Seq(Tasks) /\ Len(lockq) \in Nat /\ lockq' \in Seq(Tasks)
      /\ Len(lockq') = Len(lockq) - 1
      /\ \A i \in 1 .. Len(lockq') : lockq'[i] = lockq[i + 1]
      /\ Head(lockq) = lockq[1]
  BY HeadTailProperties, LenProperties DEF TypeOK
<1>2. \A u \in Tasks : ~Sending(u)'
  BY ReturnTyped DEF LockInv, SingleFlight, Sending
<1>3. ASSUME NEW u \in Tasks, pc'[u] = "waiting"
      PROVE  \E i \in 1 .. Len(lockq') : lockq'[i] = u
  <2>1. u # t /\ pc[u] = "waiting"
    BY <1>3, ReturnTyped
  <2>2. PICK i \in 1 .. Len(lockq) : lockq[i] = u
    BY <2>1 DEF LockInv, Queued
  <2>3. i # 1
    BY <2>1, <2>2, <1>1
  <2>4. i - 1 \in 1 .. Len(lockq') /\ lockq'[i - 1] = u
    BY <2>2, <2>3, <1>1
  <2> QED BY <2>4
<1> QED BY <1>1, <1>2, <1>3 DEF LockInv, SingleFlight, Queued

(* The end of a call that was sending.                                     *)
LEMMA SettleStep ==
    ASSUME IInv, NEW t \in Tasks, Sending(t), NEW fate \in Fates, NEW by \in Nat,
           Settle(t, fate, by)
    PROVE  /\ LockInv' /\ lockq' \in Seq(Tasks)
           /\ log' \in Seq(Entries) /\ Len(log') = Len(log)
<1>1. LockInv' /\ lockq' \in Seq(Tasks)
  BY LockReleased DEF IInv, Settle, LockInv, SingleFlight
<1>2. log \in Seq(Entries) /\ mine[t] \in 1 .. Len(log)
  BY LenProperties DEF IInv, TypeOK, LockInv, SingleFlight
<1> DEFINE e == [log[mine[t]] EXCEPT !.fate = fate, !.by = by]
<1>3. log[mine[t]] \in Entries
  BY <1>2, ElementOfSeq
<1>4. e \in Entries
  BY <1>3 DEF Entries
<1>5. log' = [log EXCEPT ![mine[t]] = e]
  BY DEF Settle
<1> QED BY <1>1, <1>2, <1>4, <1>5, ExceptSeq

-----------------------------------------------------------------------------
(* What each group of actions does to the lines on their way to the device. *)

LEMMA WireKept ==
    ASSUME IInv, UNCHANGED toDev, Len(log') = Len(log)
    PROVE  WireInv'
BY DEF IInv, WireInv

LEMMA ExitAppended ==
    ASSUME IInv, NEW t \in Tasks, SayExit(t)
    PROVE  toDev' \in [0 .. MaxSessions -> Seq(Nat)] /\ WireInv'
<1> DEFINE old == toDev[session]
<1>1. session \in 0 .. MaxSessions /\ old \in Seq(Nat) /\ toDev \in [0 .. MaxSessions -> Seq(Nat)]
  BY DEF IInv, TypeOK
<1>2. UNCHANGED log
  BY DEF SayExit
<1>3. CASE UNCHANGED toDev
  BY <1>1, <1>2, <1>3, WireKept
<1>4. CASE toDev' = [toDev EXCEPT ![session] = Append(old, Exit)]
  <2>1. /\ Append(old, Exit) \in Seq(Nat)
        /\ Len(Append(old, Exit)) = Len(old) + 1
        /\ \A i \in 1 .. Len(old) : Append(old, Exit)[i] = old[i]
        /\ Append(old, Exit)[Len(old) + 1] = Exit
    BY <1>1, AppendProperties DEF Exit
  <2>2. toDev' \in [0 .. MaxSessions -> Seq(Nat)]
    BY <1>1, <1>4, <2>1
  <2>3. ASSUME NEW s \in 0 .. MaxSessions, NEW i \in 1 .. Len(toDev'[s]), toDev'[s][i] # Exit
        PROVE  toDev'[s][i] \in 1 .. Len(log')
    <3>1. CASE s # session
      BY <3>1, <2>3, <1>1, <1>2, <1>4 DEF IInv, WireInv
    <3>2. CASE s = session
      <4>1. toDev'[s] = Append(old, Exit)
        BY <3>2, <1>1, <1>4
      <4>2. Len(old) \in Nat
        BY <1>1, LenProperties
      <4>3. i \in 1 .. Len(old) /\ toDev'[s][i] = old[i]
        BY <4>1, <4>2, <2>1, <2>3
      <4> QED BY <4>3, <3>2, <2>3, <1>1, <1>2 DEF IInv, WireInv
    <3> QED BY <3>1, <3>2
  <2> QED BY <2>2, <2>3 DEF WireInv
<1>5. \/ UNCHANGED toDev
      \/ toDev' = [toDev EXCEPT ![session] = Append(old, Exit)]
  <2>1. CASE Exit \in ToSet(old)
    BY <2>1, <1>1 DEF SayExit
  <2>2. CASE Exit \notin ToSet(old)
    BY <2>2, <1>1 DEF SayExit
  <2> QED BY <2>1, <2>2
<1> QED BY <1>3, <1>4, <1>5

LEMMA LineWritten ==
    ASSUME IInv, NEW t \in Tasks, NEW c \in Commands, Write(t, c)
    PROVE  /\ toDev' \in [0 .. MaxSessions -> Seq(Nat)] /\ WireInv'
           /\ log' \in Seq(Entries) /\ mine' \in [Tasks -> Nat]
           /\ Len(log') = Len(log) + 1 /\ mine'[t] = Len(log')
           /\ log'[mine'[t]].task = t /\ log'[mine'[t]].fate = "open"
           /\ log'[mine'[t]].session = session
           /\ \A i \in 1 .. Len(log) : log'[i] = log[i]
<1> DEFINE old == toDev[session]
           n == Len(log) + 1
           e == [task |-> t, cmd |-> c, session |-> session, fate |-> "open", by |-> 0]
<1>1. /\ session \in Sessions /\ old \in Seq(Nat) /\ Len(log) \in Nat
      /\ toDev \in [0 .. MaxSessions -> Seq(Nat)] /\ log \in Seq(Entries)
      /\ mine \in [Tasks -> Nat] /\ session \in 0 .. MaxSessions /\ n \in Nat
  <2>1. /\ session \in 0 .. MaxSessions /\ session # 0 /\ log \in Seq(Entries)
        /\ toDev \in [0 .. MaxSessions -> Seq(Nat)] /\ mine \in [Tasks -> Nat]
    BY DEF IInv, TypeOK, Write
  <2>2. Len(log) \in Nat
    BY <2>1, LenProperties
  <2> QED BY <2>1, <2>2, BoundsAssumption DEF Sessions
<1>2. e \in Entries
  BY <1>1 DEF Entries, Fates
<1>3. log' = Append(log, e) /\ mine' = [mine EXCEPT ![t] = n]
      /\ toDev' = [toDev EXCEPT ![session] = Append(old, n)]
  BY <1>1 DEF Write
<1>4. /\ log' \in Seq(Entries) /\ Len(log') = n /\ log'[n] = e
      /\ \A i \in 1 .. Len(log) : log'[i] = log[i]
  BY <1>1, <1>2, <1>3, AppendProperties
<1>5. mine' \in [Tasks -> Nat] /\ mine'[t] = n
  BY <1>1, <1>3
<1>6. /\ Append(old, n) \in Seq(Nat) /\ Len(Append(old, n)) = Len(old) + 1
      /\ \A i \in 1 .. Len(old) : Append(old, n)[i] = old[i]
      /\ Append(old, n)[Len(old) + 1] = n
  BY <1>1, AppendProperties
<1>7. toDev' \in [0 .. MaxSessions -> Seq(Nat)]
  BY <1>1, <1>3, <1>6
<1>8. ASSUME NEW s \in 0 .. MaxSessions, NEW i \in 1 .. Len(toDev'[s]), toDev'[s][i] # Exit
      PROVE  toDev'[s][i] \in 1 .. Len(log')
  <2>1. CASE s # session
    <3>1. toDev'[s] = toDev[s]
      BY <2>1, <1>1, <1>3
    <3>2. toDev[s][i] \in 1 .. Len(log)
      BY <3>1, <1>8 DEF IInv, WireInv
    <3> QED BY <3>1, <3>2, <1>4, <1>1
  <2>2. CASE s = session
    <3>1. toDev'[s] = Append(old, n) /\ Len(old) \in Nat
      BY <2>2, <1>1, <1>3, LenProperties
    <3>2. CASE i = Len(old) + 1
      BY <3>1, <3>2, <1>6, <1>4, <1>1
    <3>3. CASE i # Len(old) + 1
      <4>1. i \in 1 .. Len(old) /\ toDev'[s][i] = old[i]
        BY <3>1, <3>3, <1>6, <1>8
      <4>2. old[i] \in 1 .. Len(log)
        BY <4>1, <2>2, <1>8 DEF IInv, WireInv
      <4> QED BY <4>1, <4>2, <1>1, <1>4
    <3> QED BY <3>2, <3>3
  <2> QED BY <2>1, <2>2
<1>9. WireInv'
  BY <1>8 DEF WireInv
<1>10. e.task = t /\ e.fate = "open" /\ e.session = session
  OBVIOUS
<1> QED BY <1>4, <1>5, <1>7, <1>9, <1>10

LEMMA LineRead ==
    ASSUME IInv, NEW s \in Sessions, DeviceReads(s), UNCHANGED log
    PROVE  /\ toDev' \in [0 .. MaxSessions -> Seq(Nat)] /\ WireInv'
           /\ Head(toDev[s]) \in 1 .. Len(log)
<1>1. /\ toDev \in [0 .. MaxSessions -> Seq(Nat)] /\ s \in 0 .. MaxSessions
      /\ toDev[s] \in Seq(Nat) /\ toDev[s] # <<>>
  <2>1. s \in 0 .. MaxSessions
    BY BoundsAssumption DEF Sessions
  <2> QED BY <2>1 DEF IInv, TypeOK, DeviceReads
<1>2. /\ Tail(toDev[s]) \in Seq(Nat) /\ Len(toDev[s]) \in Nat /\ Len(toDev[s]) # 0
      /\ Len(Tail(toDev[s])) = Len(toDev[s]) - 1
      /\ \A i \in 1 .. Len(Tail(toDev[s])) : Tail(toDev[s])[i] = toDev[s][i + 1]
      /\ Head(toDev[s]) = toDev[s][1]
  BY <1>1, HeadTailProperties, LenProperties, EmptySeq
<1>3. toDev' = [toDev EXCEPT ![s] = Tail(toDev[s])]
  BY <1>1 DEF DeviceReads
<1>4. toDev' \in [0 .. MaxSessions -> Seq(Nat)]
  BY <1>1, <1>2, <1>3
<1>5. Head(toDev[s]) \in 1 .. Len(log)
  BY <1>1, <1>2 DEF IInv, WireInv, DeviceReads
<1>6. ASSUME NEW r \in 0 .. MaxSessions, NEW i \in 1 .. Len(toDev'[r]), toDev'[r][i] # Exit
      PROVE  toDev'[r][i] \in 1 .. Len(log')
  <2>1. CASE r # s
    BY <2>1, <1>1, <1>3, <1>6 DEF IInv, WireInv
  <2>2. CASE r = s
    <3>1. /\ i + 1 \in 1 .. Len(toDev[s]) /\ toDev'[r][i] = toDev[s][i + 1]
      BY <2>2, <1>1, <1>2, <1>3
    <3> QED BY <3>1, <1>1, <1>6 DEF IInv, WireInv
  <2> QED BY <2>1, <2>2
<1> QED BY <1>4, <1>5, <1>6 DEF WireInv

-----------------------------------------------------------------------------
(* Every step keeps the invariant: one step per action, or per group of     *)
(* actions that share their effect.                                        *)

LEMMA IInvInit == Init => IInv
<1> SUFFICES ASSUME Init PROVE IInv
  OBVIOUS
<1>1. NoCommand \in Commands
  BY CommandsAssumption DEF NoCommand
<1>2. TypeOK
  BY <1>1, BoundsAssumption DEF Init, TypeOK, Stages, PCs
<1>3. LockInv
  BY DEF Init, LockInv, SingleFlight, Sending
<1>4. WireInv
  BY DEF Init, WireInv
<1> QED BY <1>2, <1>3, <1>4 DEF IInv

(* A call ends that was not in the lock.                                   *)
LEMMA LeftOutside ==
    ASSUME IInv, NEW t \in Tasks, ~Sending(t), Return(t), UNCHANGED <<wire, lockq, log, pushes>>,
           closed' \in BOOLEAN, session' \in 0 .. MaxSessions,
           stage' \in [0 .. MaxSessions -> Stages]
    PROVE  IInv'
<1>1. TypeOK'
  BY ReturnTyped DEF IInv, TypeOK, wire
<1>2. LockInv'
  <2>1. ASSUME NEW u \in Tasks
        PROVE  /\ Sending(u)' => (Sending(u) /\ mine'[u] = mine[u])
               /\ pc'[u] = "waiting" => pc[u] = "waiting"
    BY ReturnTyped DEF IInv, Sending
  <2> QED BY <2>1, LockKept DEF IInv, Sending
<1>3. WireInv'
  BY WireKept DEF wire
<1> QED BY <1>1, <1>2, <1>3 DEF IInv

(* A call ends that had the lock and wrote a line.                         *)
LEMMA LeftLock ==
    ASSUME IInv, NEW t \in Tasks, Sending(t), NEW fate \in Fates, NEW by \in Nat,
           Settle(t, fate, by), UNCHANGED <<link, toDev, pushes>>,
           toCli' \in [0 .. MaxSessions -> Seq(Lines)]
    PROVE  IInv'
<1>1. TypeOK'
  BY SettleStep, ReturnTyped DEF IInv, TypeOK, link, Settle
<1>2. WireInv'
  BY SettleStep, WireKept
<1> QED BY <1>1, <1>2, SettleStep DEF IInv

LEMMA AbandonStep ==
    ASSUME IInv, NEW t \in Tasks, Sending(t), Abandon(t),
           toCli' \in [0 .. MaxSessions -> Seq(Lines)]
    PROVE  IInv'
<1>1. "abandoned" \in Fates /\ 0 \in Nat
  BY DEF Fates
<1> QED BY <1>1, LeftLock DEF Abandon

LEMMA ReadStep ==
    ASSUME IInv, NEW t \in Tasks, Sending(t), BeginRead(t),
           toCli' \in [0 .. MaxSessions -> Seq(Lines)]
    PROVE  IInv'
<1>1. TypeOK'
  BY DEF IInv, TypeOK, BeginRead, PCs, link
<1>2. LockInv'
  <2>1. ASSUME NEW u \in Tasks
        PROVE  /\ Sending(u)' => (Sending(u) /\ mine'[u] = mine[u])
               /\ pc'[u] = "waiting" => pc[u] = "waiting"
    BY DEF IInv, TypeOK, Sending, BeginRead
  <2> QED BY <2>1, LockKept DEF IInv, Sending, BeginRead
<1>3. WireInv'
  BY WireKept DEF BeginRead
<1> QED BY <1>1, <1>2, <1>3 DEF IInv

LEMMA LineTaken ==
    ASSUME IInv, NEW t \in Tasks, TakeLine(t)
    PROVE  /\ toCli' \in [0 .. MaxSessions -> Seq(Lines)] /\ Sending(t)
           /\ NextLine(t) \in Lines
<1>1. /\ at[t] \in 0 .. MaxSessions /\ toCli \in [0 .. MaxSessions -> Seq(Lines)]
      /\ toCli[at[t]] \in Seq(Lines) /\ toCli[at[t]] # <<>>
  BY DEF IInv, TypeOK, TakeLine
<1>2. Head(toCli[at[t]]) \in Lines /\ Tail(toCli[at[t]]) \in Seq(Lines)
  BY <1>1, HeadTailProperties
<1> QED BY <1>1, <1>2 DEF TakeLine, NextLine, Sending

LEMMA LineDelivered ==
    ASSUME IInv, NEW s \in Sessions, NEW line \in Lines, Deliver(s, line)
    PROVE  toCli' \in [0 .. MaxSessions -> Seq(Lines)]
<1>1. s \in 0 .. MaxSessions /\ toCli \in [0 .. MaxSessions -> Seq(Lines)]
  BY BoundsAssumption DEF Sessions, IInv, TypeOK
<1>2. Append(toCli[s], line) \in Seq(Lines)
  BY <1>1, AppendProperties
<1> QED BY <1>1, <1>2 DEF Deliver

(* connect() and close()                                                   *)
LEMMA LinkStep ==
    ASSUME IInv, NEW t \in Tasks,
           \/ ConnectStart(t) \/ OpenFail(t) \/ OpenOk(t) \/ LoginOk(t)
           \/ (\E e \in LoginErrors : LoginFail(t, e))
           \/ CloseStart(t) \/ CloseQuiet(t) \/ CloseFinish(t)
           \/ CancelConnectOrClose(t)
    PROVE  IInv'
<1> USE DEF IInv
<1>1. CASE ConnectStart(t)
  <2>1. TypeOK'
    BY <1>1 DEF TypeOK, ConnectStart, PCs, link, wire
  <2>2. LockInv'
    BY <1>1, LockKept DEF ConnectStart, TypeOK, Sending
  <2> QED BY <2>1, <2>2, <1>1, WireKept DEF ConnectStart, wire
<1>2. CASE OpenFail(t) \/ CancelConnectOrClose(t)
  BY <1>2, LeftOutside DEF OpenFail, CancelConnectOrClose, Sending, link, TypeOK
<1>3. CASE OpenOk(t)
  <2>1. TypeOK'
    <3>1. PICK s \in Sessions :
            /\ session' = s /\ stage' = [stage EXCEPT ![s] = "login"]
            /\ at' = [at EXCEPT ![t] = s]
      BY <1>3 DEF OpenOk
    <3>2. s \in 0 .. MaxSessions
      BY BoundsAssumption DEF Sessions
    <3> QED BY <1>3, <3>1, <3>2 DEF TypeOK, OpenOk, PCs, Stages, wire
  <2>2. LockInv'
    BY <1>3, LockKept DEF OpenOk, TypeOK, Sending
  <2> QED BY <2>1, <2>2, <1>3, WireKept DEF OpenOk, wire
<1>4. CASE LoginOk(t)
  BY <1>4, LeftOutside DEF LoginOk, Sending, TypeOK, Stages
<1>5. ASSUME pc[t] \in {"idle", "login", "exiting"}, Shut(t) PROVE IInv'
  <2>1. /\ closed' \in BOOLEAN /\ session' \in 0 .. MaxSessions
        /\ stage' \in [0 .. MaxSessions -> Stages]
    BY <1>5, BoundsAssumption DEF Shut, TypeOK, Stages
  <2> QED BY <1>5, <2>1, LeftOutside DEF Shut, Sending
<1>6. ASSUME SayExit(t) PROVE IInv'
  <2>1. TypeOK'
    BY <1>6, ExitAppended DEF TypeOK, SayExit, PCs, link
  <2>2. LockInv'
    BY <1>6, LockKept DEF SayExit, TypeOK, Sending
  <2> QED BY <2>1, <2>2, <1>6, ExitAppended
<1> QED BY <1>1, <1>2, <1>3, <1>4, <1>5, <1>6
        DEF LoginFail, CloseStart, CloseQuiet, CloseFinish

(* send_command()                                                          *)

LEMMA NobodySends ==
    ASSUME IInv, NEW t \in Tasks,
           lockq = <<>> \/ (pc[t] = "waiting" /\ Head(lockq) = t)
    PROVE  \A u \in Tasks : ~Sending(u)
BY DEF IInv, LockInv, SingleFlight, Sending

LEMMA WaiterHeads ==
    ASSUME IInv, NEW t \in Tasks, pc[t] = "waiting", Head(lockq) = t
    PROVE  lockq # <<>>
<1>1. Queued(t)
  BY DEF IInv, LockInv
<1>2. Len(lockq) # 0
  BY <1>1 DEF IInv, TypeOK, Queued
<1> QED BY <1>2

(* A task with the lock to itself, or at its head, has written its line.   *)
LEMMA WriterEnters ==
    ASSUME IInv, NEW t \in Tasks, NEW c \in Commands, Write(t, c),
           cmd' \in [Tasks -> Commands], lockq' \in Seq(Tasks),
           \/ lockq = <<>> /\ lockq' = <<t>>
           \/ pc[t] = "waiting" /\ Head(lockq) = t /\ UNCHANGED lockq
    PROVE  IInv'
<1>1. TypeOK'
  BY LineWritten DEF IInv, TypeOK, Write, PCs, link
<1>2. lockq' # <<>> /\ Head(lockq') = t
  BY WaiterHeads
<1>3. ASSUME NEW u \in Tasks, pc'[u] \in {"writing", "reading"}
      PROVE  /\ lockq' # <<>> /\ Head(lockq') = u
             /\ mine'[u] \in DOMAIN log' /\ mine'[u] = Len(log')
             /\ log'[mine'[u]].task = u /\ log'[mine'[u]].fate = "open"
  <2>1. u = t
    BY <1>3, NobodySends DEF Sending, Write, IInv, TypeOK
  <2>2. /\ mine'[t] = Len(log') /\ Len(log') = Len(log) + 1 /\ log' \in Seq(Entries)
        /\ log'[mine'[t]].task = t /\ log'[mine'[t]].fate = "open"
    BY LineWritten
  <2>3. DOMAIN log' = 1 .. Len(log') /\ Len(log) \in Nat
    BY <2>2, LenProperties DEF IInv, TypeOK
  <2> QED BY <2>1, <2>2, <2>3, <1>2
<1>4. ASSUME NEW u \in Tasks, pc'[u] = "waiting"
      PROVE  \E i \in 1 .. Len(lockq') : lockq'[i] = u
  <2>1. u # t /\ pc[u] = "waiting"
    BY <1>4 DEF Write, IInv, TypeOK
  <2>2. Queued(u)
    BY <2>1 DEF IInv, LockInv
  <2>3. lockq # <<>>
    BY <2>2 DEF Queued
  <2> QED BY <2>2, <2>3 DEF Queued
<1>5. LockInv'
  BY <1>3, <1>4 DEF LockInv, SingleFlight, Sending, Queued
<1> QED BY <1>1, <1>5, LineWritten DEF IInv

LEMMA SendStep ==
    ASSUME IInv, NEW t \in Tasks,
           \/ \E c \in Commands : SendNow(t, c) \/ SendWait(t, c)
           \/ Acquire(t) \/ AcquireGone(t) \/ CancelWaiting(t)
    PROVE  IInv'
<1> USE DEF IInv
<1>1. ASSUME NEW c \in Commands, SendNow(t, c) PROVE IInv'
  <2>1. cmd' \in [Tasks -> Commands] /\ lockq' \in Seq(Tasks)
    BY <1>1 DEF SendNow, TypeOK
  <2> QED BY <1>1, <2>1, WriterEnters DEF SendNow
<1>2. ASSUME NEW c \in Commands, SendWait(t, c) PROVE IInv'
  <2>1. /\ lockq' = Append(lockq, t) /\ lockq \in Seq(Tasks) /\ Len(lockq) \in Nat
        /\ lockq # <<>>
    BY <1>2, LenProperties DEF SendWait, TypeOK
  <2>2. /\ lockq' \in Seq(Tasks) /\ lockq' # <<>> /\ Len(lockq') = Len(lockq) + 1
        /\ \A i \in 1 .. Len(lockq) : lockq'[i] = lockq[i]
        /\ lockq'[Len(lockq) + 1] = t /\ Head(lockq') = Head(lockq)
    BY <2>1, AppendProperties, HeadTailAppend
  <2>3. TypeOK'
    BY <1>2, <2>2 DEF SendWait, TypeOK, PCs, link, wire
  <2>4. ASSUME NEW u \in Tasks, pc'[u] \in {"writing", "reading"}
        PROVE  /\ lockq' # <<>> /\ Head(lockq') = u
               /\ mine'[u] \in DOMAIN log' /\ mine'[u] = Len(log')
               /\ log'[mine'[u]].task = u /\ log'[mine'[u]].fate = "open"
    <3>1. Sending(u)
      BY <1>2, <2>4 DEF SendWait, TypeOK, Sending
    <3>2. mine' = mine /\ log' = log
      BY <1>2 DEF SendWait
    <3>3. /\ Head(lockq) = u /\ mine[u] \in DOMAIN log /\ mine[u] = Len(log)
          /\ log[mine[u]].task = u /\ log[mine[u]].fate = "open"
      BY <3>1 DEF LockInv, SingleFlight
    <3>4. lockq' # <<>> /\ Head(lockq') = u
      BY <2>2, <3>3
    <3> QED BY <3>2, <3>3, <3>4
  <2>5. ASSUME NEW u \in Tasks, pc'[u] = "waiting"
        PROVE  \E i \in 1 .. Len(lockq') : lockq'[i] = u
    <3>1. CASE u = t
      BY <2>1, <2>2, <3>1
    <3>2. CASE u # t
      <4>1. PICK i \in 1 .. Len(lockq) : lockq[i] = u
        BY <1>2, <2>5, <3>2 DEF SendWait, TypeOK, LockInv, Queued
      <4>2. i \in 1 .. Len(lockq') /\ lockq'[i] = u
        BY <4>1, <2>1, <2>2
      <4> QED BY <4>2
    <3> QED BY <3>1, <3>2
  <2>6. LockInv'
    BY <2>4, <2>5 DEF LockInv, SingleFlight, Sending, Queued
  <2> QED BY <1>2, <2>3, <2>6, WireKept DEF SendWait, wire
<1>3. CASE Acquire(t)
  <2>1. cmd[t] \in Commands /\ cmd' \in [Tasks -> Commands] /\ lockq' \in Seq(Tasks)
    BY <1>3 DEF Acquire, TypeOK
  <2> QED BY <1>3, <2>1, WriterEnters DEF Acquire
<1>4. CASE AcquireGone(t)
  <2>1. LockInv' /\ lockq' \in Seq(Tasks)
    BY <1>4, WaiterHeads, LockReleased DEF AcquireGone
  <2>2. TypeOK'
    BY <1>4, <2>1, ReturnTyped DEF AcquireGone, TypeOK, link, wire
  <2> QED BY <1>4, <2>1, <2>2, WireKept DEF AcquireGone, wire
<1>5. CASE CancelWaiting(t)
  <2>1. PICK i \in 1 .. Len(lockq) : lockq[i] = t /\ lockq' = RemoveAt(lockq, i)
    BY <1>5, LenProperties DEF CancelWaiting, TypeOK
  <2>2. /\ lockq' \in Seq(Tasks) /\ Len(lockq') = Len(lockq) - 1 /\ Len(lockq) \in Nat
        /\ \A j \in 1 .. Len(lockq) - 1 : lockq'[j] = IF j < i THEN lockq[j] ELSE lockq[j + 1]
    BY <2>1, RemoveAtFacts, LenProperties DEF TypeOK
  <2>3. TypeOK'
    BY <1>5, <2>2, ReturnTyped DEF CancelWaiting, TypeOK, link, wire
  <2>4. ASSUME NEW u \in Tasks, pc'[u] \in {"writing", "reading"}
        PROVE  /\ lockq' # <<>> /\ Head(lockq') = u
               /\ mine'[u] \in DOMAIN log' /\ mine'[u] = Len(log')
               /\ log'[mine'[u]].task = u /\ log'[mine'[u]].fate = "open"
    <3>1. u # t /\ Sending(u) /\ mine'[u] = mine[u]
      BY <1>5, <2>4, ReturnTyped DEF CancelWaiting, Sending
    <3>2. /\ Head(lockq) = u /\ lockq # <<>> /\ Head(lockq) = lockq[1]
      BY <3>1 DEF LockInv, SingleFlight
    <3>3. i # 1 /\ 1 \in 1 .. Len(lockq) - 1
      BY <3>1, <3>2, <2>1, <2>2
    <3>4. Len(lockq') # 0 /\ lockq'[1] = u
      BY <3>2, <3>3, <2>1, <2>2
    <3>5. lockq' # <<>> /\ Head(lockq') = u
      BY <3>4, <2>2
    <3> QED BY <1>5, <3>1, <3>5 DEF CancelWaiting, LockInv, SingleFlight
  <2>5. ASSUME NEW u \in Tasks, pc'[u] = "waiting"
        PROVE  \E j \in 1 .. Len(lockq') : lockq'[j] = u
    <3>1. u # t /\ pc[u] = "waiting"
      BY <1>5, <2>5, ReturnTyped DEF CancelWaiting
    <3>2. PICK j \in 1 .. Len(lockq) : lockq[j] = u
      BY <3>1 DEF LockInv, Queued
    <3>3. j # i
      BY <3>1, <3>2, <2>1
    <3>4. CASE j < i
      <4>1. j \in 1 .. Len(lockq') /\ lockq'[j] = u
        BY <3>2, <3>4, <2>1, <2>2
      <4> QED BY <4>1
    <3>5. CASE j > i
      <4>1. j - 1 \in 1 .. Len(lockq') /\ j - 1 >= i
        BY <3>2, <3>5, <2>1, <2>2
      <4>2. lockq'[j - 1] = lockq[(j - 1) + 1]
        BY <4>1, <2>1, <2>2
      <4> QED BY <4>1, <4>2, <3>2
    <3> QED BY <3>3, <3>4, <3>5
  <2>6. LockInv'
    BY <2>4, <2>5 DEF LockInv, SingleFlight, Sending, Queued
  <2> QED BY <1>5, <2>3, <2>6, WireKept DEF CancelWaiting, wire
<1> QED BY <1>1, <1>2, <1>3, <1>4, <1>5

LEMMA ReceiveStep ==
    ASSUME IInv, NEW t \in Tasks,
           \/ DrainFail(t) \/ Drained(t) \/ DrainedGone(t)
           \/ Reply(t) \/ Discard(t) \/ DiscardGone(t)
           \/ ReadEof(t) \/ Timeout(t) \/ CancelSending(t)
    PROVE  IInv'
<1>1. toCli \in [0 .. MaxSessions -> Seq(Lines)]
  BY DEF IInv, TypeOK
<1>2. CASE DrainFail(t) \/ DrainedGone(t) \/ ReadEof(t) \/ Timeout(t) \/ CancelSending(t)
  BY <1>1, <1>2, AbandonStep
     DEF DrainFail, DrainedGone, ReadEof, Timeout, CancelSending, Sending
<1>3. CASE Drained(t)
  BY <1>1, <1>3, ReadStep DEF Drained, Sending
<1>4. CASE Discard(t)
  BY <1>4, LineTaken, ReadStep DEF Discard
<1>5. CASE DiscardGone(t)
  BY <1>5, LineTaken, AbandonStep DEF DiscardGone
<1>6. CASE Reply(t)
  <2>1. NextLine(t).req \in Nat /\ "answered" \in Fates
    BY <1>6, LineTaken DEF Reply, Lines, Fates
  <2> QED BY <1>6, <2>1, LineTaken, LeftLock DEF Reply
<1> QED BY <1>2, <1>3, <1>4, <1>5, <1>6

(* The device touches neither the lock nor the tasks.                      *)
LEMMA DeviceStep ==
    ASSUME IInv, NEW s \in Sessions, Device(s)
    PROVE  IInv'
<1> USE DEF IInv
<1>1. UNCHANGED tasks /\ pushes' \in 0 .. MaxPushes
  <2>1. UNCHANGED tasks
    BY DEF Device, DeviceAnswer, DeviceSilent, DevicePoisoned, DevicePush, DeviceHangup
  <2>2. pushes \in 0 .. MaxPushes
    BY DEF TypeOK
  <2>3. CASE DevicePush(s)
    BY <2>1, <2>2, <2>3, BoundsAssumption DEF DevicePush
  <2>4. CASE UNCHANGED pushes
    BY <2>1, <2>2, <2>4
  <2>5. DevicePush(s) \/ UNCHANGED pushes
    BY DEF Device, DeviceAnswer, DeviceSilent, DevicePoisoned, DeviceHangup
  <2> QED BY <2>1, <2>3, <2>4, <2>5
<1>2. LockInv'
  BY <1>1 DEF LockInv, SingleFlight, Sending, Queued, tasks
<1>3. stage' \in [0 .. MaxSessions -> Stages]
  BY DEF Device, DeviceAnswer, DeviceSilent, DevicePoisoned, DevicePush, DeviceHangup,
         TypeOK, Stages
<1>4. toDev' \in [0 .. MaxSessions -> Seq(Nat)] /\ WireInv'
  <2>1. CASE DeviceReads(s)
    BY <2>1, <1>1, LineRead DEF tasks
  <2>2. CASE UNCHANGED toDev
    BY <2>2, <1>1, WireKept DEF tasks, TypeOK
  <2> QED BY <2>1, <2>2 DEF Device, DeviceAnswer, DeviceSilent, DevicePoisoned,
                            DevicePush, DeviceHangup, wire
<1>5. toCli' \in [0 .. MaxSessions -> Seq(Lines)]
  <2>1. CASE DeviceAnswer(s)
    <3>1. Head(toDev[s]) \in 1 .. Len(log) /\ log \in Seq(Entries)
      BY <2>1, LineRead DEF DeviceAnswer, tasks, TypeOK
    <3>2. log[Head(toDev[s])].cmd \in Commands /\ Head(toDev[s]) \in Nat
      <4>1. Len(log) \in Nat /\ log[Head(toDev[s])] \in Entries
        BY <3>1, ElementOfSeq, LenProperties
      <4> QED BY <3>1, <4>1 DEF Entries
    <3>3. NameOf[log[Head(toDev[s])].cmd] \in Names
      BY <3>2 DEF Names
    <3>4. \A line \in Answers(Head(toDev[s])) : line \in Lines
      BY <3>2, <3>3 DEF Answers, Lines, Kinds
    <3> QED BY <2>1, <3>4, LineDelivered DEF DeviceAnswer
  <2>2. CASE DevicePush(s)
    <3>1. \A name \in Names : [kind |-> "~", name |-> name, req |-> 0] \in Lines
      BY DEF Lines, Kinds
    <3> QED BY <2>2, <3>1, LineDelivered DEF DevicePush
  <2>3. CASE UNCHANGED toCli
    BY <2>3 DEF TypeOK
  <2> QED BY <2>1, <2>2, <2>3 DEF Device, DeviceSilent, DevicePoisoned, DeviceHangup, wire
<1>6. TypeOK'
  BY <1>1, <1>3, <1>4, <1>5 DEF TypeOK, tasks
<1> QED BY <1>2, <1>4, <1>6

LEMMA IInvNext == IInv /\ [Next]_vars => IInv'
<1> SUFFICES ASSUME IInv, [Next]_vars PROVE IInv'
  OBVIOUS
<1>1. CASE UNCHANGED vars
  BY <1>1 DEF vars, IInv, TypeOK, LockInv, SingleFlight, Sending, Queued, WireInv
<1>2. ASSUME NEW t \in Tasks, Call(t) PROVE IInv'
  BY <1>1, <1>2, LinkStep, SendStep DEF Call, SendRefused
<1>3. ASSUME NEW t \in Tasks, Proceed(t) PROVE IInv'
  BY <1>3, LinkStep, SendStep, ReceiveStep DEF Proceed
<1>4. ASSUME NEW t \in Tasks, Cancel(t) PROVE IInv'
  BY <1>4, LinkStep, SendStep, ReceiveStep DEF Cancel
<1> QED BY <1>1, <1>2, <1>3, <1>4, DeviceStep DEF Next

(* The state of the transport is always well-formed.                       *)
THEOREM TypeCorrect == Spec => []TypeOK
<1>1. IInv => TypeOK
  BY DEF IInv
<1> QED BY <1>1, IInvInit, IInvNext, PTL DEF Spec

(* transport.py:20-22, single flight: whatever tasks are started, cancelled *)
(* or timed out, one task at most is between writing its line and ending   *)
(* its call, it holds the lock, and no line was written after its own.     *)
THEOREM SingleFlightAlways == Spec => []SingleFlight
<1>1. IInv => SingleFlight
  BY DEF IInv, LockInv
<1> QED BY <1>1, IInvInit, IInvNext, PTL DEF Spec

-----------------------------------------------------------------------------
(* Replies and requests                                                    *)

Used(s) == stage[s] # "unused"

(* Connections are opened in order, and the handles name the last one.      *)
SessInv ==
    /\ \A r, s \in Sessions : r < s /\ Used(s) => Used(r)
    /\ session # 0 => Used(session) /\ \A r \in Sessions : r > session => ~Used(r)

(* Lines are written on connections that never go back to an earlier one,   *)
(* and read from one that is no earlier than the one they were written on. *)
OrderInv ==
    /\ \A n \in 1 .. Len(log) :
         /\ Used(log[n].session)
         /\ \A m \in 1 .. n : log[m].session <= log[n].session
    /\ \A t \in Tasks : pc[t] = "reading" =>
         at[t] \in Sessions /\ log[mine[t]].session <= at[t]

(* A request that is still to be read by the device, or whose reply is      *)
(* still to be read by a task.                                             *)
Asked(s, i)   == toDev[s][i] # Exit
Replied(s, i) == toCli[s][i].req # 0

(* What is in flight on a connection was written on it, and comes in the    *)
(* order of the log: first the replies, then the requests.                 *)
AskedInv ==
    \A s \in Sessions : \A i \in 1 .. Len(toDev[s]) : Asked(s, i) =>
        /\ log[toDev[s][i]].session = s
        /\ \A j \in 1 .. i - 1 : toDev[s][j] < toDev[s][i]
        /\ \A j \in 1 .. Len(toCli[s]) : toCli[s][j].req < toDev[s][i]

RepliedInv ==
    \A s \in Sessions : \A i \in 1 .. Len(toCli[s]) : Replied(s, i) =>
        /\ toCli[s][i].req \in 1 .. Len(log)
        /\ log[toCli[s][i].req].session = s
        /\ \A j \in 1 .. i - 1 : toCli[s][j].req < toCli[s][i].req

(* The replies already given out on a connection are older than those.      *)
PastInv ==
    \A n \in 1 .. Len(log), s \in Sessions : log[n].session = s =>
        /\ \A i \in 1 .. Len(toDev[s]) : Asked(s, i) => log[n].by < toDev[s][i]
        /\ \A i \in 1 .. Len(toCli[s]) : Replied(s, i) => log[n].by < toCli[s][i].req

ByInv ==
    \A n \in 1 .. Len(log) : log[n].by # 0 =>
        /\ log[n].by <= n
        /\ log[log[n].by].session = log[n].session
        /\ \A m \in 1 .. Len(log) : log[m].by = log[n].by => m = n

(* A line without an end belongs to a task that is sending.                 *)
OpenInv ==
    \A n \in 1 .. Len(log) : log[n].fate = "open" =>
        \E t \in Tasks : Sending(t) /\ mine[t] = n

ChanInv == AskedInv /\ RepliedInv /\ PastInv

RInv == SessInv /\ OrderInv /\ ChanInv /\ ByInv /\ OpenInv /\ ShiftHasCause

-----------------------------------------------------------------------------
(* Types, once, in the form the steps below use them.                       *)

LEMMA LogTyped ==
    ASSUME IInv
    PROVE  /\ log \in Seq(Entries) /\ Len(log) \in Nat /\ DOMAIN log = 1 .. Len(log)
           /\ \A n \in 1 .. Len(log) : /\ log[n] \in Entries /\ log[n].by \in Nat
                                       /\ log[n].session \in Sessions
                                       /\ log[n].fate \in Fates
<1>1. log \in Seq(Entries)
  BY DEF IInv, TypeOK
<1>2. Len(log) \in Nat /\ DOMAIN log = 1 .. Len(log)
  BY <1>1, LenProperties
<1>3. \A n \in 1 .. Len(log) : log[n] \in Entries
  BY <1>1, ElementOfSeq
<1> QED BY <1>1, <1>2, <1>3 DEF Entries

LEMMA WireTyped ==
    ASSUME IInv, NEW s \in Sessions
    PROVE  /\ s \in 0 .. MaxSessions /\ MaxSessions \in Nat /\ s # 0
           /\ toDev[s] \in Seq(Nat) /\ Len(toDev[s]) \in Nat
           /\ \A i \in 1 .. Len(toDev[s]) : toDev[s][i] \in Nat
           /\ toCli[s] \in Seq(Lines) /\ Len(toCli[s]) \in Nat
           /\ \A i \in 1 .. Len(toCli[s]) : toCli[s][i] \in Lines /\ toCli[s][i].req \in Nat
<1>1. s \in 0 .. MaxSessions /\ MaxSessions \in Nat /\ s # 0
  BY BoundsAssumption DEF Sessions
<1>2. toDev[s] \in Seq(Nat) /\ toCli[s] \in Seq(Lines)
  BY <1>1 DEF IInv, TypeOK
<1>3. /\ Len(toDev[s]) \in Nat /\ Len(toCli[s]) \in Nat
      /\ \A i \in 1 .. Len(toDev[s]) : toDev[s][i] \in Nat
      /\ \A i \in 1 .. Len(toCli[s]) : toCli[s][i] \in Lines
  BY <1>2, LenProperties, ElementOfSeq
<1> QED BY <1>1, <1>2, <1>3 DEF Lines

LEMMA NextWireTyped ==
    ASSUME IInv', NEW s \in Sessions
    PROVE  /\ toDev'[s] \in Seq(Nat) /\ Len(toDev'[s]) \in Nat
           /\ toCli'[s] \in Seq(Lines) /\ Len(toCli'[s]) \in Nat
<1>1. s \in 0 .. MaxSessions
  BY BoundsAssumption DEF Sessions
<1>2. toDev'[s] \in Seq(Nat) /\ toCli'[s] \in Seq(Lines)
  BY <1>1 DEF IInv, TypeOK
<1> QED BY <1>2, LenProperties

LEMMA LinkTyped ==
    ASSUME IInv
    PROVE  /\ MaxSessions \in Nat /\ session \in 0 .. MaxSessions
           /\ session # 0 => session \in Sessions
           /\ stage \in [0 .. MaxSessions -> Stages]
           /\ \A s \in Sessions : s \in 0 .. MaxSessions /\ s \in Nat
BY BoundsAssumption DEF IInv, TypeOK, Sessions

-----------------------------------------------------------------------------
(* The parts of the invariant, each under the changes that keep it.         *)

SessionsKept == /\ Len(log') = Len(log)
                /\ \A n \in 1 .. Len(log) : log'[n].session = log[n].session

UsedKept == \A s \in Sessions : Used(s) => stage'[s] # "unused"

ReadersKept == \A t \in Tasks : pc'[t] = "reading" =>
                   pc[t] = "reading" /\ at'[t] = at[t] /\ mine'[t] = mine[t]

SendersKept == \A t \in Tasks : Sending(t) =>
                   pc'[t] \in {"writing", "reading"} /\ mine'[t] = mine[t]

(* What is in flight was in flight before, up to one place further on; only *)
(* "!Exit" may be new.                                                     *)
DevShrinks ==
    \A s \in Sessions : \E d \in 0 .. 1 : \A i \in 1 .. Len(toDev'[s]) :
        toDev'[s][i] # Exit =>
            i + d \in 1 .. Len(toDev[s]) /\ toDev'[s][i] = toDev[s][i + d]

CliShrinks ==
    \A s \in Sessions : \E d \in 0 .. 1 : \A i \in 1 .. Len(toCli'[s]) :
        i + d \in 1 .. Len(toCli[s]) /\ toCli'[s][i] = toCli[s][i + d]

LEMMA SessKept ==
    ASSUME IInv, SessInv, session' = session \/ session' = 0,
           \A s \in Sessions : (stage'[s] # "unused") <=> Used(s)
    PROVE  SessInv'
<1>1. \A s \in Sessions : Used(s)' <=> Used(s)
  BY DEF Used
<1> HIDE DEF Used
<1>2. \A r, s \in Sessions : r < s /\ Used(s)' => Used(r)'
  BY <1>1 DEF SessInv
<1>3. ASSUME session' # 0
      PROVE  Used(session)' /\ \A r \in Sessions : r > session' => ~Used(r)'
  <2>1. session' = session /\ session \in Sessions
    BY <1>3, LinkTyped
  <2>2. stage'[session] # "unused" /\ stage'[session'] = stage'[session]
    BY <1>3, <2>1 DEF SessInv
  <2>3. Used(session)'
    BY <2>2 DEF Used
  <2> QED BY <1>1, <1>3, <2>1, <2>3 DEF SessInv
<1> QED BY <1>2, <1>3 DEF SessInv

LEMMA OrderKept ==
    ASSUME IInv, OrderInv, SessionsKept, UsedKept, ReadersKept
    PROVE  OrderInv'
<1>1. ASSUME NEW n \in 1 .. Len(log')
      PROVE  /\ stage'[log'[n].session] # "unused"
             /\ \A m \in 1 .. n : log'[m].session <= log'[n].session
  <2>1. n \in 1 .. Len(log) /\ log'[n].session = log[n].session /\ log[n].session \in Sessions
    BY LogTyped DEF SessionsKept
  <2>2. Used(log[n].session) /\ \A m \in 1 .. n : log[m].session <= log[n].session
    BY <2>1 DEF OrderInv
  <2>3. \A m \in 1 .. n : m \in 1 .. Len(log)
    BY <2>1, LogTyped
  <2> QED BY <2>1, <2>2, <2>3 DEF SessionsKept, UsedKept
<1>2. ASSUME NEW t \in Tasks, pc'[t] = "reading"
      PROVE  at'[t] \in Sessions /\ log'[mine'[t]].session <= at'[t]
  <2>1. pc[t] = "reading" /\ at'[t] = at[t] /\ mine'[t] = mine[t]
    BY <1>2 DEF ReadersKept
  <2>2. mine[t] \in 1 .. Len(log)
    BY <2>1, LogTyped DEF IInv, LockInv, SingleFlight, Sending
  <2> QED BY <2>1, <2>2 DEF OrderInv, SessionsKept
<1> QED BY <1>1, <1>2 DEF OrderInv, Used

LEMMA FlightShrinks ==
    ASSUME IInv, IInv', AskedInv, RepliedInv, SessionsKept, DevShrinks, CliShrinks
    PROVE  AskedInv' /\ RepliedInv'
<1>1. ASSUME NEW s \in Sessions, NEW i \in 1 .. Len(toDev'[s]), toDev'[s][i] # Exit
      PROVE  /\ log'[toDev'[s][i]].session = s
             /\ \A j \in 1 .. i - 1 : toDev'[s][j] < toDev'[s][i]
             /\ \A j \in 1 .. Len(toCli'[s]) : toCli'[s][j].req < toDev'[s][i]
  <2>1. PICK d \in 0 .. 1 : \A k \in 1 .. Len(toDev'[s]) : toDev'[s][k] # Exit =>
               k + d \in 1 .. Len(toDev[s]) /\ toDev'[s][k] = toDev[s][k + d]
    BY DEF DevShrinks
  <2>2. i + d \in 1 .. Len(toDev[s]) /\ toDev'[s][i] = toDev[s][i + d] /\ Asked(s, i + d)
    BY <1>1, <2>1 DEF Asked
  <2>3. /\ log[toDev[s][i + d]].session = s
        /\ \A j \in 1 .. i + d - 1 : toDev[s][j] < toDev[s][i + d]
        /\ \A j \in 1 .. Len(toCli[s]) : toCli[s][j].req < toDev[s][i + d]
    BY <2>2 DEF AskedInv
  <2>4. toDev[s][i + d] \in 1 .. Len(log)
    BY <2>2, WireTyped DEF IInv, WireInv, Asked
  <2>5. ASSUME NEW j \in 1 .. i - 1 PROVE toDev'[s][j] < toDev'[s][i]
    <3>1. CASE toDev'[s][j] = Exit
      BY <3>1, <2>2, <2>4, LogTyped DEF Exit
    <3>2. CASE toDev'[s][j] # Exit
      <4>1. j \in 1 .. Len(toDev'[s]) /\ j + d \in 1 .. i + d - 1
        BY NextWireTyped
      <4> QED BY <4>1, <3>2, <2>1, <2>2, <2>3
    <3> QED BY <3>1, <3>2
  <2>6. ASSUME NEW j \in 1 .. Len(toCli'[s]) PROVE toCli'[s][j].req < toDev'[s][i]
    <3>1. PICK e \in 0 .. 1 : \A k \in 1 .. Len(toCli'[s]) :
                k + e \in 1 .. Len(toCli[s]) /\ toCli'[s][k] = toCli[s][k + e]
      BY DEF CliShrinks
    <3> QED BY <3>1, <2>2, <2>3
  <2> QED BY <2>2, <2>3, <2>4, <2>5, <2>6 DEF SessionsKept
<1>2. ASSUME NEW s \in Sessions, NEW i \in 1 .. Len(toCli'[s]), toCli'[s][i].req # 0
      PROVE  /\ toCli'[s][i].req \in 1 .. Len(log')
             /\ log'[toCli'[s][i].req].session = s
             /\ \A j \in 1 .. i - 1 : toCli'[s][j].req < toCli'[s][i].req
  <2>1. PICK e \in 0 .. 1 : \A k \in 1 .. Len(toCli'[s]) :
              k + e \in 1 .. Len(toCli[s]) /\ toCli'[s][k] = toCli[s][k + e]
    BY DEF CliShrinks
  <2>2. i + e \in 1 .. Len(toCli[s]) /\ toCli'[s][i] = toCli[s][i + e] /\ Replied(s, i + e)
    BY <1>2, <2>1 DEF Replied
  <2>3. /\ toCli[s][i + e].req \in 1 .. Len(log)
        /\ log[toCli[s][i + e].req].session = s
        /\ \A j \in 1 .. i + e - 1 : toCli[s][j].req < toCli[s][i + e].req
    BY <2>2 DEF RepliedInv
  <2>4. ASSUME NEW j \in 1 .. i - 1 PROVE toCli'[s][j].req < toCli'[s][i].req
    <3>1. j \in 1 .. Len(toCli'[s]) /\ j + e \in 1 .. i + e - 1
      BY NextWireTyped
    <3> QED BY <3>1, <2>1, <2>2, <2>3
  <2> QED BY <2>2, <2>3, <2>4 DEF SessionsKept
<1> QED BY <1>1, <1>2 DEF AskedInv, RepliedInv, Asked, Replied

(* An ending without a reply to a request takes nothing from the past.      *)
LEMMA PastShrinks ==
    ASSUME IInv, IInv', RepliedInv, PastInv, SessionsKept, DevShrinks, CliShrinks,
           \A n \in 1 .. Len(log) : log'[n].by \in {log[n].by, 0}
    PROVE  PastInv'
<1> SUFFICES ASSUME NEW n \in 1 .. Len(log'), NEW s \in Sessions, log'[n].session = s
             PROVE  /\ \A i \in 1 .. Len(toDev'[s]) :
                          toDev'[s][i] # Exit => log'[n].by < toDev'[s][i]
                    /\ \A i \in 1 .. Len(toCli'[s]) :
                          toCli'[s][i].req # 0 => log'[n].by < toCli'[s][i].req
  BY DEF PastInv, Asked, Replied
<1>1. /\ n \in 1 .. Len(log) /\ log[n].session = s /\ log[n].by \in Nat
      /\ log'[n].by \in {log[n].by, 0}
  BY LogTyped DEF SessionsKept
<1>2. /\ \A i \in 1 .. Len(toDev[s]) : toDev[s][i] # Exit => log[n].by < toDev[s][i]
      /\ \A i \in 1 .. Len(toCli[s]) : toCli[s][i].req # 0 => log[n].by < toCli[s][i].req
  BY <1>1 DEF PastInv, Asked, Replied
<1>3. ASSUME NEW i \in 1 .. Len(toDev'[s]), toDev'[s][i] # Exit
      PROVE  log'[n].by < toDev'[s][i]
  <2>1. PICK d \in 0 .. 1 : i + d \in 1 .. Len(toDev[s]) /\ toDev'[s][i] = toDev[s][i + d]
    BY <1>3 DEF DevShrinks
  <2>2. log[n].by < toDev[s][i + d] /\ toDev[s][i + d] \in Nat
    BY <1>2, <1>3, <2>1, WireTyped
  <2> QED BY <2>1, <2>2, <1>1
<1>4. ASSUME NEW i \in 1 .. Len(toCli'[s]), toCli'[s][i].req # 0
      PROVE  log'[n].by < toCli'[s][i].req
  <2>1. PICK d \in 0 .. 1 : i + d \in 1 .. Len(toCli[s]) /\ toCli'[s][i] = toCli[s][i + d]
    BY DEF CliShrinks
  <2>2. log[n].by < toCli[s][i + d].req /\ toCli[s][i + d].req \in Nat
    BY <1>2, <1>4, <2>1, WireTyped
  <2> QED BY <2>1, <2>2, <1>1
<1> QED BY <1>3, <1>4

-----------------------------------------------------------------------------
(* Steps that write no line and end no call that wrote one.                 *)

LEMMA ToDevSame ==
    ASSUME IInv, UNCHANGED toDev
    PROVE  DevShrinks
<1>1. ASSUME NEW s \in Sessions, NEW i \in 1 .. Len(toDev'[s])
      PROVE  i + 0 \in 1 .. Len(toDev[s]) /\ toDev'[s][i] = toDev[s][i + 0]
  BY WireTyped
<1> QED BY <1>1 DEF DevShrinks

LEMMA ToCliSame ==
    ASSUME IInv, UNCHANGED toCli
    PROVE  CliShrinks
<1>1. ASSUME NEW s \in Sessions, NEW i \in 1 .. Len(toCli'[s])
      PROVE  i + 0 \in 1 .. Len(toCli[s]) /\ toCli'[s][i] = toCli[s][i + 0]
  BY WireTyped
<1> QED BY <1>1 DEF CliShrinks

LEMMA ExitShrinks ==
    ASSUME IInv, NEW t \in Tasks, SayExit(t)
    PROVE  DevShrinks
<1> DEFINE old == toDev[session]
<1>1. /\ session \in Sessions /\ session \in 0 .. MaxSessions /\ old \in Seq(Nat)
      /\ Len(old) \in Nat /\ toDev \in [0 .. MaxSessions -> Seq(Nat)]
  <2>1. session \in Sessions /\ session \in 0 .. MaxSessions
    BY LinkTyped DEF SayExit, IsConnected
  <2> QED BY <2>1, WireTyped DEF IInv, TypeOK
<1>2. CASE Exit \in ToSet(old)
  <2>1. toDev' = toDev
    BY <1>1, <1>2 DEF SayExit
  <2> QED BY <2>1, ToDevSame
<1>3. CASE Exit \notin ToSet(old)
  <2>1. toDev' = [toDev EXCEPT ![session] = Append(old, Exit)]
    BY <1>1, <1>3 DEF SayExit
  <2>2. /\ Len(Append(old, Exit)) = Len(old) + 1
        /\ \A i \in 1 .. Len(old) : Append(old, Exit)[i] = old[i]
        /\ Append(old, Exit)[Len(old) + 1] = Exit
    BY <1>1, AppendProperties DEF Exit
  <2>3. ASSUME NEW s \in Sessions, NEW i \in 1 .. Len(toDev'[s]), toDev'[s][i] # Exit
        PROVE  i + 0 \in 1 .. Len(toDev[s]) /\ toDev'[s][i] = toDev[s][i + 0]
    <3>1. CASE s # session
      <4>1. toDev'[s] = toDev[s]
        BY <3>1, <2>1, <1>1, WireTyped
      <4> QED BY <4>1, <2>3, WireTyped
    <3>2. CASE s = session
      <4>1. toDev'[s] = Append(old, Exit)
        BY <3>2, <2>1, <1>1
      <4>2. i \in 1 .. Len(old) /\ toDev'[s][i] = old[i]
        BY <4>1, <2>2, <2>3, <1>1
      <4> QED BY <4>2, <3>2, <1>1
    <3> QED BY <3>1, <3>2
  <2> QED BY <2>3 DEF DevShrinks
<1> QED BY <1>2, <1>3

LEMMA ReadShrinks ==
    ASSUME IInv, NEW q \in Sessions, DeviceReads(q)
    PROVE  /\ DevShrinks
           /\ toDev' = [toDev EXCEPT ![q] = Tail(toDev[q])]
           /\ Len(toDev[q]) >= 1 /\ Head(toDev[q]) = toDev[q][1] /\ Asked(q, 1)
           /\ Len(toDev'[q]) = Len(toDev[q]) - 1
           /\ \A i \in 1 .. Len(toDev'[q]) : toDev'[q][i] = toDev[q][i + 1]
<1>1. /\ q \in 0 .. MaxSessions /\ toDev[q] \in Seq(Nat) /\ Len(toDev[q]) \in Nat
      /\ toDev[q] # <<>> /\ toDev \in [0 .. MaxSessions -> Seq(Nat)]
  BY WireTyped DEF DeviceReads, IInv, TypeOK
<1>2. toDev' = [toDev EXCEPT ![q] = Tail(toDev[q])] /\ toDev'[q] = Tail(toDev[q])
  BY <1>1 DEF DeviceReads
<1>3. /\ Len(toDev[q]) # 0 /\ Len(toDev'[q]) = Len(toDev[q]) - 1
      /\ \A i \in 1 .. Len(toDev'[q]) : toDev'[q][i] = toDev[q][i + 1]
      /\ Head(toDev[q]) = toDev[q][1]
  BY <1>1, <1>2, HeadTailProperties, EmptySeq
<1>4. Asked(q, 1)
  BY <1>3 DEF DeviceReads, Asked
<1>5. ASSUME NEW s \in Sessions
      PROVE  \E d \in 0 .. 1 : \A i \in 1 .. Len(toDev'[s]) : toDev'[s][i] # Exit =>
                i + d \in 1 .. Len(toDev[s]) /\ toDev'[s][i] = toDev[s][i + d]
  <2>1. CASE s = q
    <3>1. \A i \in 1 .. Len(toDev'[s]) :
             i + 1 \in 1 .. Len(toDev[s]) /\ toDev'[s][i] = toDev[s][i + 1]
      BY <2>1, <1>1, <1>3
    <3> QED BY <3>1
  <2>2. CASE s # q
    <3>1. toDev'[s] = toDev[s]
      BY <2>2, <1>1, <1>2, WireTyped
    <3>2. \A i \in 1 .. Len(toDev'[s]) :
             i + 0 \in 1 .. Len(toDev[s]) /\ toDev'[s][i] = toDev[s][i + 0]
      BY <3>1, WireTyped
    <3> QED BY <3>2
  <2> QED BY <2>1, <2>2
<1> QED BY <1>1, <1>2, <1>3, <1>4, <1>5 DEF DevShrinks

LEMMA TakeShrinks ==
    ASSUME IInv, NEW t \in Tasks, at[t] \in Sessions, TakeLine(t)
    PROVE  /\ CliShrinks
           /\ Len(toCli[at[t]]) >= 1 /\ NextLine(t) = toCli[at[t]][1]
           /\ Len(toCli'[at[t]]) = Len(toCli[at[t]]) - 1
           /\ \A i \in 1 .. Len(toCli'[at[t]]) : toCli'[at[t]][i] = toCli[at[t]][i + 1]
<1> DEFINE q == at[t]
<1>1. /\ q \in Sessions /\ q \in 0 .. MaxSessions /\ toCli[q] \in Seq(Lines)
      /\ Len(toCli[q]) \in Nat /\ toCli[q] # <<>> /\ toCli \in [0 .. MaxSessions -> Seq(Lines)]
  BY WireTyped DEF TakeLine, IInv, TypeOK
<1>2. toCli' = [toCli EXCEPT ![q] = Tail(toCli[q])] /\ toCli'[q] = Tail(toCli[q])
  BY <1>1 DEF TakeLine
<1>3. /\ Len(toCli[q]) # 0 /\ Len(toCli'[q]) = Len(toCli[q]) - 1
      /\ \A i \in 1 .. Len(toCli'[q]) : toCli'[q][i] = toCli[q][i + 1]
      /\ Head(toCli[q]) = toCli[q][1]
  BY <1>1, <1>2, HeadTailProperties, EmptySeq
<1>4. ASSUME NEW s \in Sessions
      PROVE  \E d \in 0 .. 1 : \A i \in 1 .. Len(toCli'[s]) :
                i + d \in 1 .. Len(toCli[s]) /\ toCli'[s][i] = toCli[s][i + d]
  <2>1. CASE s = q
    <3>1. \A i \in 1 .. Len(toCli'[s]) :
             i + 1 \in 1 .. Len(toCli[s]) /\ toCli'[s][i] = toCli[s][i + 1]
      BY <2>1, <1>1, <1>3
    <3> QED BY <3>1
  <2>2. CASE s # q
    <3>1. toCli'[s] = toCli[s]
      BY <2>2, <1>1, <1>2, WireTyped
    <3>2. \A i \in 1 .. Len(toCli'[s]) :
             i + 0 \in 1 .. Len(toCli[s]) /\ toCli'[s][i] = toCli[s][i + 0]
      BY <3>1, WireTyped
    <3> QED BY <3>2
  <2> QED BY <2>1, <2>2
<1> QED BY <1>1, <1>3, <1>4 DEF CliShrinks, NextLine

(* Nothing is said of the log: the parts about it stay true.                *)
LEMMA LogSame ==
    ASSUME RInv, UNCHANGED log, SendersKept
    PROVE  ByInv' /\ OpenInv' /\ ShiftHasCause'
<1>1. ByInv'
  BY DEF RInv, ByInv
<1>2. OpenInv'
  <2>1. ASSUME NEW n \in 1 .. Len(log'), log'[n].fate = "open"
        PROVE  \E t \in Tasks : pc'[t] \in {"writing", "reading"} /\ mine'[t] = n
    <3>1. PICK t \in Tasks : Sending(t) /\ mine[t] = n
      BY <2>1 DEF RInv, OpenInv
    <3> QED BY <3>1 DEF SendersKept
  <2> QED BY <2>1 DEF OpenInv, Sending
<1>3. ShiftHasCause'
  BY DEF RInv, ShiftHasCause, Answered, Matched
<1> QED BY <1>1, <1>2, <1>3

LEMMA QuietStep ==
    ASSUME IInv, IInv', RInv, SessInv', UNCHANGED log, UsedKept, ReadersKept, SendersKept,
           DevShrinks, CliShrinks
    PROVE  RInv'
<1>1. SessionsKept /\ \A n \in 1 .. Len(log) : log'[n].by \in {log[n].by, 0}
  BY DEF SessionsKept
<1>2. OrderInv'
  BY <1>1, OrderKept DEF RInv
<1>3. AskedInv' /\ RepliedInv'
  BY <1>1, FlightShrinks DEF RInv, ChanInv
<1>4. PastInv'
  BY <1>1, PastShrinks DEF RInv, ChanInv
<1> QED BY <1>2, <1>3, <1>4, LogSame DEF RInv, ChanInv

LEMMA IdleReturn ==
    ASSUME IInv, NEW t \in Tasks, ~Sending(t), Return(t)
    PROVE  ReadersKept /\ SendersKept
BY DEF IInv, TypeOK, Return, Sending, ReadersKept, SendersKept

(* The connection of the handles ends, if there is one.                     *)
LEMMA EndedStep ==
    ASSUME IInv, SessInv, session' \in {session, 0},
           stage' = [stage EXCEPT ![session] = "ended"]
    PROVE  SessInv' /\ UsedKept
<1>1. ASSUME NEW s \in Sessions
      PROVE  (stage'[s] # "unused") <=> Used(s)
  <2>1. s \in 0 .. MaxSessions /\ s # 0 /\ stage \in [0 .. MaxSessions -> Stages]
    BY LinkTyped, WireTyped
  <2>2. CASE s = session
    <3>1. Used(s)
      BY <2>1, <2>2 DEF SessInv
    <3>2. stage'[s] = "ended"
      BY <2>1, <2>2
    <3> QED BY <3>1, <3>2
  <2>3. CASE s # session
    <3>1. stage'[s] = stage[s]
      BY <2>1, <2>3
    <3> QED BY <3>1 DEF Used
  <2> QED BY <2>2, <2>3
<1> QED BY <1>1, SessKept DEF UsedKept

-----------------------------------------------------------------------------
(* connect() and close(), and the cancellation of either.                   *)

LEMMA OpenOkStep ==
    ASSUME IInv, SessInv, NEW t \in Tasks, OpenOk(t)
    PROVE  SessInv' /\ UsedKept
<1>1. PICK s \in Sessions :
        /\ stage[s] = "unused" /\ \A r \in 1 .. s - 1 : stage[r] # "unused"
        /\ session' = s /\ stage' = [stage EXCEPT ![s] = "login"]
  BY DEF OpenOk
<1>2. /\ s \in 0 .. MaxSessions /\ s # 0 /\ s \in Nat
      /\ stage \in [0 .. MaxSessions -> Stages]
      /\ \A r \in Sessions : r \in 0 .. MaxSessions /\ r \in Nat /\ r >= 1
  BY LinkTyped, WireTyped DEF Sessions
<1>3. /\ stage'[s] = "login"
      /\ \A r \in Sessions : r # s => stage'[r] = stage[r]
  BY <1>1, <1>2
<1>4. UsedKept
  BY <1>1, <1>3 DEF UsedKept, Used
<1>5. ASSUME NEW r \in Sessions, r > s PROVE ~Used(r)
  BY <1>1, <1>5 DEF SessInv, Used
<1>6. ASSUME NEW r \in Sessions, NEW q \in Sessions, r < q, stage'[q] # "unused"
      PROVE  stage'[r] # "unused"
  <2>1. CASE q = s
    <3>1. r \in 1 .. s - 1 /\ r # s
      BY <2>1, <1>2, <1>6
    <3> QED BY <3>1, <1>1, <1>3
  <2>2. CASE q # s
    <3>1. Used(q) /\ Used(r)
      BY <2>2, <1>3, <1>6 DEF SessInv, Used
    <3> QED BY <3>1, <1>1, <1>3 DEF Used
  <2> QED BY <2>1, <2>2
<1>7. ASSUME NEW r \in Sessions, r > session' PROVE stage'[r] = "unused"
  <2>1. r # s /\ r > s
    BY <1>1, <1>2, <1>7
  <2> QED BY <2>1, <1>3, <1>5 DEF Used
<1> QED BY <1>1, <1>3, <1>4, <1>6, <1>7 DEF SessInv, Used

LEMMA LinkReplies ==
    ASSUME IInv, IInv', RInv, NEW t \in Tasks,
           \/ ConnectStart(t) \/ OpenFail(t) \/ OpenOk(t) \/ LoginOk(t)
           \/ (\E e \in LoginErrors : LoginFail(t, e))
           \/ CloseStart(t) \/ CloseQuiet(t) \/ CloseFinish(t)
           \/ CancelConnectOrClose(t)
    PROVE  RInv'
<1> USE DEF RInv
<1>1. ASSUME UNCHANGED link PROVE SessInv' /\ UsedKept
  BY <1>1 DEF link, SessInv, UsedKept, Used
<1>2. CASE ConnectStart(t)
  <2>1. UNCHANGED link /\ UNCHANGED log /\ UNCHANGED toDev /\ UNCHANGED toCli
    BY <1>2 DEF ConnectStart, wire
  <2>2. ReadersKept /\ SendersKept
    BY <1>2 DEF ConnectStart, IInv, TypeOK, Sending, ReadersKept, SendersKept
  <2> QED BY <1>1, <2>1, <2>2, QuietStep, ToDevSame, ToCliSame
<1>3. CASE OpenFail(t) \/ CancelConnectOrClose(t)
  <2>1. UNCHANGED link /\ UNCHANGED log /\ UNCHANGED toDev /\ UNCHANGED toCli
    BY <1>3 DEF OpenFail, CancelConnectOrClose, wire
  <2>2. Return(t) /\ ~Sending(t)
    BY <1>3 DEF OpenFail, CancelConnectOrClose, Sending
  <2> QED BY <1>1, <2>1, <2>2, IdleReturn, QuietStep, ToDevSame, ToCliSame
<1>4. CASE OpenOk(t)
  <2>1. UNCHANGED log /\ UNCHANGED toDev /\ UNCHANGED toCli
    BY <1>4 DEF OpenOk, wire
  <2>2. ReadersKept /\ SendersKept
    BY <1>4 DEF OpenOk, IInv, TypeOK, Sending, ReadersKept, SendersKept
  <2> QED BY <1>4, <2>1, <2>2, OpenOkStep, QuietStep, ToDevSame, ToCliSame
<1>5. CASE LoginOk(t)
  <2>1. /\ UNCHANGED log /\ UNCHANGED toDev /\ UNCHANGED toCli /\ UNCHANGED session
        /\ Return(t) /\ ~Sending(t)
    BY <1>5 DEF LoginOk, wire, Sending
  <2>2. \A s \in Sessions : (stage'[s] # "unused") <=> Used(s)
    <3>1. /\ stage[session] = "login" /\ stage' = [stage EXCEPT ![session] = "ready"]
      BY <1>5 DEF LoginOk
    <3> QED BY <3>1, LinkTyped DEF Used
  <2>3. SessInv' /\ UsedKept
    BY <2>1, <2>2, SessKept DEF UsedKept
  <2> QED BY <2>1, <2>3, IdleReturn, QuietStep, ToDevSame, ToCliSame
<1>6. ASSUME pc[t] \in {"idle", "login", "exiting"}, Shut(t) PROVE RInv'
  <2>1. /\ UNCHANGED log /\ UNCHANGED toDev /\ UNCHANGED toCli
        /\ Return(t) /\ ~Sending(t)
    BY <1>6 DEF Shut, wire, Sending
  <2>2. SessInv' /\ UsedKept
    BY <1>6, EndedStep DEF Shut
  <2> QED BY <2>1, <2>2, IdleReturn, QuietStep, ToDevSame, ToCliSame
<1>7. ASSUME pc[t] \in {"idle", "login"}, SayExit(t) PROVE RInv'
  <2>1. UNCHANGED link /\ UNCHANGED log /\ UNCHANGED toCli
    BY <1>7 DEF SayExit
  <2>2. ReadersKept /\ SendersKept
    BY <1>7 DEF SayExit, IInv, TypeOK, Sending, ReadersKept, SendersKept
  <2> QED BY <1>1, <1>7, <2>1, <2>2, ExitShrinks, QuietStep, ToCliSame
<1>8. CASE (\E e \in LoginErrors : LoginFail(t, e)) \/ CloseStart(t)
  BY <1>6, <1>7, <1>8 DEF LoginFail, CloseStart
<1>9. CASE CloseQuiet(t) \/ CloseFinish(t)
  BY <1>6, <1>9 DEF CloseQuiet, CloseFinish
<1> QED BY <1>2, <1>3, <1>4, <1>5, <1>8, <1>9

-----------------------------------------------------------------------------
(* The device and the network.                                              *)

LEMMA StageStep ==
    ASSUME IInv, IInv', RInv, NEW s \in Sessions,
           DeviceSilent(s) \/ DevicePoisoned(s) \/ DeviceHangup(s)
    PROVE  RInv'
<1>1. UNCHANGED tasks /\ UNCHANGED toCli
  BY DEF DeviceSilent, DevicePoisoned, DeviceHangup, wire
<1>2. \A q \in Sessions : (stage'[q] # "unused") <=> Used(q)
  <2>1. \/ UNCHANGED stage
        \/ /\ stage[s] # "unused"
           /\ stage' = [stage EXCEPT ![s] = "poisoned"] \/ stage' = [stage EXCEPT ![s] = "ended"]
    BY DEF DeviceSilent, DevicePoisoned, DeviceHangup
  <2> QED BY <2>1, LinkTyped DEF Used
<1>3. SessInv' /\ UsedKept
  BY <1>1, <1>2, SessKept DEF RInv, UsedKept, tasks
<1>4. DevShrinks
  <2>1. DeviceReads(s) \/ UNCHANGED toDev
    BY DEF DeviceSilent, DevicePoisoned, DeviceHangup, wire
  <2> QED BY <2>1, ReadShrinks, ToDevSame
<1>5. ReadersKept /\ SendersKept
  BY <1>1 DEF tasks, ReadersKept, SendersKept, Sending
<1>6. UNCHANGED log
  BY <1>1 DEF tasks
<1> QED BY <1>1, <1>3, <1>4, <1>5, <1>6, QuietStep, ToCliSame

LEMMA Delivered ==
    ASSUME IInv, NEW s \in Sessions, NEW line, Deliver(s, line)
    PROVE  /\ Len(toCli'[s]) = Len(toCli[s]) + 1
           /\ \A i \in 1 .. Len(toCli[s]) : toCli'[s][i] = toCli[s][i]
           /\ toCli'[s][Len(toCli[s]) + 1] = line
           /\ \A r \in Sessions \ {s} : toCli'[r] = toCli[r]
<1>1. /\ s \in 0 .. MaxSessions /\ toCli \in [0 .. MaxSessions -> Seq(Lines)]
      /\ \A r \in Sessions : r \in 0 .. MaxSessions
  BY WireTyped, LinkTyped DEF IInv, TypeOK
<1>2. toCli'[s] = Append(toCli[s], line) /\ \A r \in Sessions \ {s} : toCli'[r] = toCli[r]
  BY <1>1 DEF Deliver
<1>3. toCli[s] \in Seq(Lines \cup {line}) /\ line \in Lines \cup {line}
  <2>1. toCli[s] \in Seq(Lines) /\ DOMAIN toCli[s] = 1 .. Len(toCli[s])
    BY WireTyped, LenProperties
  <2> QED BY <2>1
<1> QED BY <1>2, <1>3, AppendProperties

(* A line joins the replies in flight: it answers nothing, or a request     *)
(* later than all that were answered and earlier than those still to come. *)
LEMMA DeliverStep ==
    ASSUME IInv, IInv', RInv, NEW s \in Sessions, NEW line, Deliver(s, line),
           UNCHANGED <<tasks, stage>>, DevShrinks, line.req \in Nat,
           \A i \in 1 .. Len(toDev'[s]) : toDev'[s][i] # Exit => line.req < toDev'[s][i],
           line.req # 0 =>
             /\ line.req \in 1 .. Len(log) /\ log[line.req].session = s
             /\ \A j \in 1 .. Len(toCli[s]) : toCli[s][j].req < line.req
             /\ \A n \in 1 .. Len(log) : log[n].session = s => log[n].by < line.req
    PROVE  RInv'
<1>1. UNCHANGED log /\ UNCHANGED <<pc, at, mine, session>>
  BY DEF tasks
<1>2. SessInv' /\ UsedKept /\ ReadersKept /\ SendersKept /\ SessionsKept
  BY <1>1 DEF RInv, SessInv, UsedKept, Used, ReadersKept, SendersKept, Sending, SessionsKept
<1>3. OrderInv'
  BY <1>2, OrderKept DEF RInv
<1>4. /\ \A r \in Sessions : \A j \in 1 .. Len(toCli'[r]) :
           \/ j \in 1 .. Len(toCli[r]) /\ toCli'[r][j] = toCli[r][j]
           \/ r = s /\ j = Len(toCli[s]) + 1 /\ toCli'[r][j] = line
  BY Delivered, WireTyped
<1>5. ASSUME NEW r \in Sessions, NEW i \in 1 .. Len(toDev'[r]), toDev'[r][i] # Exit
      PROVE  /\ log'[toDev'[r][i]].session = r
             /\ \A j \in 1 .. i - 1 : toDev'[r][j] < toDev'[r][i]
             /\ \A j \in 1 .. Len(toCli'[r]) : toCli'[r][j].req < toDev'[r][i]
             /\ \A n \in 1 .. Len(log) : log[n].session = r => log[n].by < toDev'[r][i]
  <2>1. PICK d \in 0 .. 1 : \A k \in 1 .. Len(toDev'[r]) : toDev'[r][k] # Exit =>
               k + d \in 1 .. Len(toDev[r]) /\ toDev'[r][k] = toDev[r][k + d]
    BY DEF DevShrinks
  <2>2. i + d \in 1 .. Len(toDev[r]) /\ toDev'[r][i] = toDev[r][i + d] /\ Asked(r, i + d)
    BY <1>5, <2>1 DEF Asked
  <2>3. /\ log[toDev[r][i + d]].session = r
        /\ \A j \in 1 .. i + d - 1 : toDev[r][j] < toDev[r][i + d]
        /\ \A j \in 1 .. Len(toCli[r]) : toCli[r][j].req < toDev[r][i + d]
    BY <2>2 DEF RInv, ChanInv, AskedInv
  <2>4. toDev[r][i + d] \in 1 .. Len(log)
    BY <2>2, WireTyped DEF IInv, WireInv, Asked
  <2>5. ASSUME NEW j \in 1 .. i - 1 PROVE toDev'[r][j] < toDev'[r][i]
    <3>1. CASE toDev'[r][j] = Exit
      BY <3>1, <2>2, <2>4, LogTyped DEF Exit
    <3>2. CASE toDev'[r][j] # Exit
      <4>1. j \in 1 .. Len(toDev'[r]) /\ j + d \in 1 .. i + d - 1
        BY NextWireTyped
      <4> QED BY <4>1, <3>2, <2>1, <2>2, <2>3
    <3> QED BY <3>1, <3>2
  <2>6. ASSUME NEW j \in 1 .. Len(toCli'[r]) PROVE toCli'[r][j].req < toDev'[r][i]
    <3>1. CASE j \in 1 .. Len(toCli[r]) /\ toCli'[r][j] = toCli[r][j]
      BY <3>1, <2>2, <2>3
    <3>2. CASE r = s /\ toCli'[r][j] = line
      BY <3>2, <1>5
    <3> QED BY <3>1, <3>2, <1>4
  <2>7. ASSUME NEW n \in 1 .. Len(log), log[n].session = r PROVE log[n].by < toDev'[r][i]
    BY <2>2, <2>7 DEF RInv, ChanInv, PastInv
  <2> QED BY <2>2, <2>3, <2>5, <2>6, <2>7, <1>1
<1>6. ASSUME NEW r \in Sessions, NEW i \in 1 .. Len(toCli'[r]), toCli'[r][i].req # 0
      PROVE  /\ toCli'[r][i].req \in 1 .. Len(log')
             /\ log'[toCli'[r][i].req].session = r
             /\ \A j \in 1 .. i - 1 : toCli'[r][j].req < toCli'[r][i].req
             /\ \A n \in 1 .. Len(log) : log[n].session = r => log[n].by < toCli'[r][i].req
  <2>1. CASE i \in 1 .. Len(toCli[r]) /\ toCli'[r][i] = toCli[r][i]
    <3>1. Replied(r, i)
      BY <2>1, <1>6 DEF Replied
    <3>2. /\ toCli[r][i].req \in 1 .. Len(log)
          /\ log[toCli[r][i].req].session = r
          /\ \A j \in 1 .. i - 1 : toCli[r][j].req < toCli[r][i].req
          /\ \A n \in 1 .. Len(log) : log[n].session = r => log[n].by < toCli[r][i].req
      BY <3>1, <2>1 DEF RInv, ChanInv, RepliedInv, PastInv
    <3>3. \A j \in 1 .. i - 1 : toCli'[r][j] = toCli[r][j]
      <4>1. ASSUME NEW j \in 1 .. i - 1 PROVE toCli'[r][j] = toCli[r][j]
        <5>1. j \in 1 .. Len(toCli'[r]) /\ j \in 1 .. Len(toCli[r]) /\ j < Len(toCli[r]) + 1
          BY <2>1, NextWireTyped, WireTyped
        <5> QED BY <5>1, <1>4, WireTyped
      <4> QED BY <4>1
    <3> QED BY <3>2, <3>3, <2>1, <1>1
  <2>2. CASE r = s /\ i = Len(toCli[s]) + 1 /\ toCli'[r][i] = line
    <3>1. \A j \in 1 .. i - 1 : toCli'[r][j] = toCli[r][j] /\ j \in 1 .. Len(toCli[r])
      BY <2>2, Delivered, WireTyped
    <3> QED BY <2>2, <3>1, <1>6, <1>1
  <2> QED BY <2>1, <2>2, <1>4
<1>7. AskedInv' /\ RepliedInv'
  BY <1>5, <1>6 DEF AskedInv, RepliedInv, Asked, Replied
<1>8. PastInv'
  BY <1>1, <1>5, <1>6 DEF PastInv, Asked, Replied
<1> QED BY <1>1, <1>2, <1>3, <1>7, <1>8, LogSame DEF RInv, ChanInv

LEMMA DeviceReplies ==
    ASSUME IInv, IInv', RInv, NEW s \in Sessions, Device(s)
    PROVE  RInv'
<1>1. CASE DeviceSilent(s) \/ DevicePoisoned(s) \/ DeviceHangup(s)
  BY <1>1, StageStep
<1>2. CASE DevicePush(s)
  <2>1. PICK name \in Names : Deliver(s, [kind |-> "~", name |-> name, req |-> 0])
    BY <1>2 DEF DevicePush
  <2> DEFINE push == [kind |-> "~", name |-> name, req |-> 0]
  <2>2. push.req = 0
    OBVIOUS
  <2>3. UNCHANGED <<tasks, stage>> /\ UNCHANGED toDev /\ DevShrinks
    BY <1>2, ToDevSame DEF DevicePush
  <2>4. \A i \in 1 .. Len(toDev'[s]) : toDev'[s][i] # Exit => 0 < toDev'[s][i]
    BY <2>3, WireTyped DEF Exit
  <2> HIDE DEF push
  <2>5. Deliver(s, push)
    BY <2>1 DEF push
  <2> QED BY <2>2, <2>3, <2>4, <2>5, DeliverStep
<1>3. CASE DeviceAnswer(s)
  <2> DEFINE n == Head(toDev[s])
  <2>1. DeviceReads(s) /\ UNCHANGED <<tasks, stage>> /\ UNCHANGED log
    BY <1>3 DEF DeviceAnswer, tasks
  <2>2. PICK line \in Answers(n) : Deliver(s, line)
    BY <1>3 DEF DeviceAnswer
  <2>3. line.req = n
    BY DEF Answers
  <2>4. /\ DevShrinks /\ n = toDev[s][1] /\ Asked(s, 1) /\ 1 \in 1 .. Len(toDev[s])
        /\ Len(toDev'[s]) = Len(toDev[s]) - 1
        /\ \A i \in 1 .. Len(toDev'[s]) : toDev'[s][i] = toDev[s][i + 1]
    BY <2>1, ReadShrinks, WireTyped
  <2>5. n \in 1 .. Len(log) /\ n \in Nat /\ n # 0
    BY <2>1, LineRead, LogTyped
  <2>6. /\ log[n].session = s
        /\ \A j \in 1 .. Len(toCli[s]) : toCli[s][j].req < n
    BY <2>4 DEF RInv, ChanInv, AskedInv
  <2>7. \A m \in 1 .. Len(log) : log[m].session = s => log[m].by < n
    BY <2>4 DEF RInv, ChanInv, PastInv
  <2>8. ASSUME NEW i \in 1 .. Len(toDev'[s]), toDev'[s][i] # Exit
        PROVE  n < toDev'[s][i]
    <3>1. i + 1 \in 1 .. Len(toDev[s]) /\ toDev'[s][i] = toDev[s][i + 1]
      BY <2>4, WireTyped
    <3>2. Asked(s, i + 1)
      BY <3>1, <2>8 DEF Asked
    <3>3. \A j \in 1 .. (i + 1) - 1 : toDev[s][j] < toDev[s][i + 1]
      BY <3>1, <3>2 DEF RInv, ChanInv, AskedInv
    <3> QED BY <3>1, <3>3, <2>4, WireTyped
  <2> HIDE DEF n
  <2> QED BY <2>1, <2>2, <2>3, <2>4, <2>5, <2>6, <2>7, <2>8, DeliverStep
<1> QED BY <1>1, <1>2, <1>3 DEF Device

-----------------------------------------------------------------------------
(* send_command(): a line is written.                                       *)

LEMMA WireAppended ==
    ASSUME IInv, NEW t \in Tasks, NEW c \in Commands, Write(t, c)
    PROVE  /\ session \in Sessions /\ Len(log') = Len(log) + 1
           /\ \A i \in 1 .. Len(log) : log'[i] = log[i]
           /\ log'[Len(log) + 1].session = session /\ log'[Len(log) + 1].by = 0
           /\ log'[Len(log) + 1].fate = "open"
           /\ mine'[t] = Len(log) + 1 /\ pc'[t] = "writing"
           /\ \A u \in Tasks \ {t} : mine'[u] = mine[u] /\ pc'[u] = pc[u]
           /\ \A s \in Sessions : \A i \in 1 .. Len(toDev'[s]) :
                \/ i \in 1 .. Len(toDev[s]) /\ toDev'[s][i] = toDev[s][i]
                \/ s = session /\ i = Len(toDev[s]) + 1 /\ toDev'[s][i] = Len(log) + 1
<1> DEFINE e == [task |-> t, cmd |-> c, session |-> session, fate |-> "open", by |-> 0]
           old == toDev[session]
           k == Len(log) + 1
<1>1. /\ session \in Sessions /\ session \in 0 .. MaxSessions /\ log \in Seq(Entries)
      /\ Len(log) \in Nat /\ k \in Nat /\ old \in Seq(Nat) /\ Len(old) \in Nat
      /\ toDev \in [0 .. MaxSessions -> Seq(Nat)] /\ mine \in [Tasks -> Nat]
      /\ pc \in [Tasks -> PCs]
  <2>1. session \in Sessions /\ session \in 0 .. MaxSessions
    BY LinkTyped DEF Write
  <2>2. old \in Seq(Nat) /\ Len(old) \in Nat
    BY <2>1, WireTyped
  <2>3. log \in Seq(Entries) /\ Len(log) \in Nat /\ k \in Nat
    BY LogTyped
  <2> QED BY <2>1, <2>2, <2>3 DEF IInv, TypeOK
<1>2. e \in Entries
  BY <1>1 DEF Entries, Fates
<1>3. /\ log' = Append(log, e) /\ toDev' = [toDev EXCEPT ![session] = Append(old, k)]
      /\ mine' = [mine EXCEPT ![t] = k] /\ pc' = [pc EXCEPT ![t] = "writing"]
  BY <1>1 DEF Write
<1>4. Len(log') = k /\ log'[k] = e /\ \A i \in 1 .. Len(log) : log'[i] = log[i]
  BY <1>1, <1>2, <1>3, AppendProperties
<1>5. e.session = session /\ e.by = 0 /\ e.fate = "open"
  OBVIOUS
<1>6. /\ Len(Append(old, k)) = Len(old) + 1
      /\ \A i \in 1 .. Len(old) : Append(old, k)[i] = old[i]
      /\ Append(old, k)[Len(old) + 1] = k
  BY <1>1, AppendProperties
<1> HIDE DEF e, k
<1>7. ASSUME NEW s \in Sessions, NEW i \in 1 .. Len(toDev'[s])
      PROVE  \/ i \in 1 .. Len(toDev[s]) /\ toDev'[s][i] = toDev[s][i]
             \/ s = session /\ i = Len(toDev[s]) + 1 /\ toDev'[s][i] = k
  <2>1. CASE s # session
    <3>1. toDev'[s] = toDev[s]
      BY <2>1, <1>1, <1>3, WireTyped
    <3> QED BY <3>1
  <2>2. CASE s = session
    <3>1. toDev'[s] = Append(old, k)
      BY <2>2, <1>1, <1>3
    <3>2. i \in 1 .. Len(old) \/ i = Len(old) + 1
      BY <3>1, <1>1, <1>6
    <3> QED BY <3>1, <3>2, <2>2, <1>6
  <2> QED BY <2>1, <2>2
<1>8. mine'[t] = k /\ pc'[t] = "writing" /\ \A u \in Tasks \ {t} : mine'[u] = mine[u] /\ pc'[u] = pc[u]
  BY <1>1, <1>3
<1> QED BY <1>1, <1>4, <1>5, <1>7, <1>8 DEF k

LEMMA WriteReplies ==
    ASSUME IInv, IInv', RInv, NEW t \in Tasks, NEW c \in Commands, Write(t, c),
           \A u \in Tasks : ~Sending(u)
    PROVE  RInv'
<1> DEFINE k == Len(log) + 1
<1>1. /\ UNCHANGED link /\ UNCHANGED toCli /\ UNCHANGED at
      /\ session \in Sessions /\ Len(log) \in Nat /\ Len(log') = k
  BY WireAppended, LogTyped DEF Write
<1>2. /\ \A i \in 1 .. Len(log) : log'[i] = log[i]
      /\ log'[k].session = session /\ log'[k].by = 0 /\ log'[k].fate = "open"
      /\ mine'[t] = k /\ pc'[t] = "writing"
      /\ \A u \in Tasks \ {t} : mine'[u] = mine[u] /\ pc'[u] = pc[u]
  BY WireAppended
<1>3. \A n \in 1 .. Len(log') : n \in 1 .. Len(log) \/ n = k
  BY <1>1
<1>4. SessInv'
  BY <1>1 DEF RInv, SessInv, Used, link
<1>5. ASSUME NEW n \in 1 .. Len(log) PROVE log[n].session <= session
  <2>1. Used(log[n].session) /\ log[n].session \in Sessions
    BY LogTyped DEF RInv, OrderInv
  <2>2. log[n].session \in Nat /\ session \in Nat /\ session # 0
    BY <1>1, <2>1, LinkTyped, WireTyped
  <2>3. ~(log[n].session > session)
    BY <2>1, <2>2 DEF RInv, SessInv
  <2> QED BY <2>2, <2>3
<1>6. OrderInv'
  <2>1. ASSUME NEW n \in 1 .. Len(log')
        PROVE  /\ stage'[log'[n].session] # "unused"
               /\ \A m \in 1 .. n : log'[m].session <= log'[n].session
    <3>1. CASE n \in 1 .. Len(log)
      <4>1. Used(log[n].session) /\ \A m \in 1 .. n : log[m].session <= log[n].session
        BY <3>1 DEF RInv, OrderInv
      <4>2. \A m \in 1 .. n : m \in 1 .. Len(log)
        BY <3>1, <1>1
      <4> QED BY <4>1, <4>2, <3>1, <1>1, <1>2 DEF Used, link
    <3>2. CASE n = k
      <4>1. Used(session)
        BY <1>1, LinkTyped, WireTyped DEF RInv, SessInv
      <4>2. ASSUME NEW m \in 1 .. k PROVE log'[m].session <= session
        <5>1. m \in 1 .. Len(log) \/ m = k
          BY <1>1
        <5> QED BY <5>1, <1>2, <1>5, LinkTyped
      <4> QED BY <4>1, <4>2, <3>2, <1>1, <1>2 DEF Used, link
    <3> QED BY <3>1, <3>2, <1>3
  <2>2. ASSUME NEW u \in Tasks, pc'[u] = "reading" PROVE FALSE
    BY <2>2, <1>2 DEF Sending
  <2> QED BY <2>1, <2>2 DEF OrderInv, Used
<1>7. ASSUME NEW s \in Sessions, NEW i \in 1 .. Len(toDev[s]), toDev[s][i] # Exit
      PROVE  /\ toDev[s][i] \in 1 .. Len(log) /\ log[toDev[s][i]].session = s
             /\ \A j \in 1 .. i - 1 : toDev[s][j] < toDev[s][i]
             /\ \A j \in 1 .. Len(toCli[s]) : toCli[s][j].req < toDev[s][i]
  BY <1>7, WireTyped DEF IInv, WireInv, RInv, ChanInv, AskedInv, Asked
<1>8. ASSUME NEW s \in Sessions, NEW i \in 1 .. Len(toCli[s])
      PROVE  /\ toCli[s][i].req \in Nat /\ toCli[s][i].req < k
             /\ toCli[s][i].req # 0 => toCli[s][i].req \in 1 .. Len(log)
  BY <1>1, WireTyped DEF RInv, ChanInv, RepliedInv, Replied
<1>9. ASSUME NEW s \in Sessions, NEW i \in 1 .. Len(toDev[s])
      PROVE  toDev[s][i] < k
  <2>1. CASE toDev[s][i] # Exit
    BY <2>1, <1>1, <1>7
  <2>2. CASE toDev[s][i] = Exit
    BY <2>2, <1>1 DEF Exit
  <2> QED BY <2>1, <2>2
<1>10. AskedInv'
  <2>1. ASSUME NEW s \in Sessions, NEW i \in 1 .. Len(toDev'[s]), toDev'[s][i] # Exit
        PROVE  /\ log'[toDev'[s][i]].session = s
               /\ \A j \in 1 .. i - 1 : toDev'[s][j] < toDev'[s][i]
               /\ \A j \in 1 .. Len(toCli[s]) : toCli[s][j].req < toDev'[s][i]
    <3>1. \A j \in 1 .. i - 1 : j \in 1 .. Len(toDev'[s])
      BY NextWireTyped
    <3>2. CASE i \in 1 .. Len(toDev[s]) /\ toDev'[s][i] = toDev[s][i]
      <4>1. ASSUME NEW j \in 1 .. i - 1
            PROVE  j \in 1 .. Len(toDev[s]) /\ toDev'[s][j] = toDev[s][j]
        <5>1. j # Len(toDev[s]) + 1
          BY <3>2, WireTyped
        <5> QED BY <5>1, <3>1, WireAppended
      <4> QED BY <4>1, <3>2, <2>1, <1>2, <1>7
    <3>3. CASE s = session /\ i = Len(toDev[s]) + 1 /\ toDev'[s][i] = k
      <4>1. ASSUME NEW j \in 1 .. i - 1
            PROVE  j \in 1 .. Len(toDev[s]) /\ toDev'[s][j] = toDev[s][j]
        <5>1. j # Len(toDev[s]) + 1
          BY <3>3, WireTyped
        <5> QED BY <5>1, <3>1, WireAppended
      <4> QED BY <4>1, <3>3, <1>2, <1>8, <1>9
    <3> QED BY <3>2, <3>3, WireAppended
  <2> QED BY <2>1, <1>1 DEF AskedInv, Asked
<1>11. RepliedInv'
  <2>1. ASSUME NEW s \in Sessions, NEW i \in 1 .. Len(toCli[s]), toCli[s][i].req # 0
        PROVE  /\ toCli[s][i].req \in 1 .. Len(log')
               /\ log'[toCli[s][i].req].session = s
               /\ \A j \in 1 .. i - 1 : toCli[s][j].req < toCli[s][i].req
    BY <2>1, <1>1, <1>2, <1>8 DEF RInv, ChanInv, RepliedInv, Replied
  <2> QED BY <2>1, <1>1 DEF RepliedInv, Replied
<1>12. \A n \in 1 .. Len(log) : log[n].by < k /\ log[n].by \in Nat
  BY <1>1, LogTyped DEF RInv, ByInv
<1>13. PastInv'
  <2>1. ASSUME NEW n \in 1 .. Len(log'), NEW s \in Sessions, log'[n].session = s
        PROVE  /\ \A i \in 1 .. Len(toDev'[s]) :
                    toDev'[s][i] # Exit => log'[n].by < toDev'[s][i]
               /\ \A i \in 1 .. Len(toCli[s]) :
                    toCli[s][i].req # 0 => log'[n].by < toCli[s][i].req
    <3>1. CASE n = k
      BY <3>1, <1>2, <1>8, NextWireTyped, WireTyped, WireAppended, <1>1 DEF Exit
    <3>2. CASE n \in 1 .. Len(log)
      <4>1. log'[n] = log[n] /\ log[n].session = s
        BY <3>2, <2>1, <1>2
      <4>2. /\ \A i \in 1 .. Len(toDev[s]) : toDev[s][i] # Exit => log[n].by < toDev[s][i]
            /\ \A i \in 1 .. Len(toCli[s]) : toCli[s][i].req # 0 => log[n].by < toCli[s][i].req
        BY <3>2, <4>1 DEF RInv, ChanInv, PastInv, Asked, Replied
      <4> QED BY <4>1, <4>2, <3>2, <1>12, WireAppended
    <3> QED BY <3>1, <3>2, <1>3
  <2> QED BY <2>1, <1>1 DEF PastInv, Asked, Replied
<1>14. ByInv'
  <2>1. ASSUME NEW n \in 1 .. Len(log'), log'[n].by # 0
        PROVE  /\ log'[n].by <= n
               /\ log'[log'[n].by].session = log'[n].session
               /\ \A m \in 1 .. Len(log') : log'[m].by = log'[n].by => m = n
    <3>1. n \in 1 .. Len(log) /\ log'[n] = log[n]
      BY <2>1, <1>2, <1>3
    <3>2. /\ log[n].by <= n /\ log[log[n].by].session = log[n].session
          /\ \A m \in 1 .. Len(log) : log[m].by = log[n].by => m = n
      BY <2>1, <3>1 DEF RInv, ByInv
    <3>3. log[n].by \in 1 .. Len(log)
      BY <2>1, <3>1, <3>2, LogTyped
    <3>4. log'[log[n].by] = log[log[n].by]
      BY <3>3, <1>2
    <3>5. ASSUME NEW m \in 1 .. Len(log'), log'[m].by = log'[n].by PROVE m = n
      <4>1. m \in 1 .. Len(log) /\ log'[m] = log[m]
        BY <3>5, <3>1, <2>1, <1>2, <1>3
      <4> QED BY <4>1, <3>5, <3>1, <3>2
    <3> QED BY <3>1, <3>2, <3>4, <3>5
  <2> QED BY <2>1 DEF ByInv
<1>15. OpenInv'
  <2>1. ASSUME NEW n \in 1 .. Len(log'), log'[n].fate = "open"
        PROVE  n = k
    <3>1. CASE n \in 1 .. Len(log)
      BY <2>1, <3>1, <1>2 DEF RInv, OpenInv
    <3> QED BY <3>1, <1>3
  <2> QED BY <2>1, <1>2 DEF OpenInv, Sending
<1>16. ShiftHasCause'
  <2>1. ASSUME NEW n \in DOMAIN log', log'[n].fate = "answered", log'[n].by \notin {0, n}
        PROVE  \E m \in 1 .. n - 1 :
                 /\ log'[m].session = log'[n].session
                 /\ log'[m].fate = "abandoned" \/ (log'[m].fate = "answered" /\ log'[m].by = 0)
                 /\ \A j \in m + 1 .. n : log'[j].session = log'[n].session =>
                        ~(log'[j].fate = "answered" /\ log'[j].by = j)
    <3>1. n \in 1 .. Len(log')
      <4>1. log' \in Seq(Entries)
        BY DEF IInv, TypeOK
      <4> QED BY <4>1, LenProperties
    <3>2. n \in 1 .. Len(log) /\ n \in DOMAIN log /\ log'[n] = log[n]
      BY <3>1, <2>1, <1>2, <1>3, LogTyped
    <3>3. PICK m \in 1 .. n - 1 :
            /\ log[m].session = log[n].session
            /\ log[m].fate = "abandoned" \/ (log[m].fate = "answered" /\ log[m].by = 0)
            /\ \A j \in m + 1 .. n : log[j].session = log[n].session =>
                   ~(log[j].fate = "answered" /\ log[j].by = j)
      BY <3>2, <2>1 DEF RInv, ShiftHasCause, Answered, Matched
    <3>4. \A j \in m .. n : log'[j] = log[j]
      BY <3>2, <1>1, <1>2
    <3> QED BY <3>3, <3>4, <3>2
  <2> QED BY <2>1 DEF ShiftHasCause, Answered, Matched
<1> QED BY <1>4, <1>6, <1>10, <1>11, <1>13, <1>14, <1>15, <1>16 DEF RInv, ChanInv

LEMMA SendReplies ==
    ASSUME IInv, IInv', RInv, NEW t \in Tasks,
           \/ \E c \in Commands : SendNow(t, c) \/ SendWait(t, c)
           \/ Acquire(t) \/ AcquireGone(t) \/ CancelWaiting(t)
    PROVE  RInv'
<1>1. CASE \E c \in Commands : SendNow(t, c)
  BY <1>1, NobodySends, WriteReplies DEF SendNow
<1>2. CASE Acquire(t)
  <2>1. cmd[t] \in Commands
    BY DEF IInv, TypeOK
  <2> QED BY <1>2, <2>1, NobodySends, WriteReplies DEF Acquire
<1>3. ASSUME UNCHANGED link PROVE SessInv' /\ UsedKept
  BY <1>3 DEF RInv, link, SessInv, UsedKept, Used
<1>4. CASE \E c \in Commands : SendWait(t, c)
  <2>1. UNCHANGED link /\ UNCHANGED log /\ UNCHANGED toDev /\ UNCHANGED toCli
    BY <1>4 DEF SendWait, wire
  <2>2. ReadersKept /\ SendersKept
    BY <1>4 DEF SendWait, IInv, TypeOK, Sending, ReadersKept, SendersKept
  <2> QED BY <1>3, <2>1, <2>2, QuietStep, ToDevSame, ToCliSame
<1>5. CASE AcquireGone(t) \/ CancelWaiting(t)
  <2>1. UNCHANGED link /\ UNCHANGED log /\ UNCHANGED toDev /\ UNCHANGED toCli
    BY <1>5 DEF AcquireGone, CancelWaiting, wire
  <2>2. Return(t) /\ ~Sending(t)
    BY <1>5 DEF AcquireGone, CancelWaiting, Sending
  <2> QED BY <1>3, <2>1, <2>2, IdleReturn, QuietStep, ToDevSame, ToCliSame
<1> QED BY <1>1, <1>2, <1>4, <1>5

-----------------------------------------------------------------------------
(* The read of a reply, and the end of the call.                            *)

LEMMA ReadReplies ==
    ASSUME IInv, IInv', RInv, NEW t \in Tasks, Sending(t), BeginRead(t), CliShrinks
    PROVE  RInv'
<1>1. /\ UNCHANGED link /\ UNCHANGED log /\ UNCHANGED toDev /\ UNCHANGED mine
      /\ session \in Sessions
  BY LinkTyped DEF BeginRead, Readable
<1>2. SessInv' /\ UsedKept /\ SessionsKept
  BY <1>1 DEF RInv, SessInv, UsedKept, Used, link, SessionsKept
<1>3. SendersKept
  BY DEF BeginRead, IInv, TypeOK, Sending, SendersKept
<1>4. OrderInv'
  <2>1. mine[t] \in 1 .. Len(log)
    BY LogTyped DEF IInv, LockInv, SingleFlight
  <2>2. log[mine[t]].session <= session
    <3>1. Used(log[mine[t]].session) /\ log[mine[t]].session \in Sessions
      BY <2>1, LogTyped DEF RInv, OrderInv
    <3>2. log[mine[t]].session \in Nat /\ session \in Nat /\ session # 0
      BY <1>1, <3>1, LinkTyped, WireTyped
    <3>3. ~(log[mine[t]].session > session)
      BY <3>1, <3>2 DEF RInv, SessInv
    <3> QED BY <3>2, <3>3
  <2>3. ASSUME NEW u \in Tasks, pc'[u] = "reading"
        PROVE  at'[u] \in Sessions /\ log'[mine'[u]].session <= at'[u]
    <3>1. CASE u = t
      BY <3>1, <1>1, <2>2 DEF BeginRead, IInv, TypeOK
    <3>2. CASE u # t
      <4>1. pc[u] = "reading" /\ at'[u] = at[u]
        BY <3>2, <2>3 DEF BeginRead, IInv, TypeOK
      <4> QED BY <4>1, <1>1 DEF RInv, OrderInv
    <3> QED BY <3>1, <3>2
  <2>4. \A n \in 1 .. Len(log) :
          /\ Used(log[n].session)
          /\ \A m \in 1 .. n : log[m].session <= log[n].session
    BY DEF RInv, OrderInv
  <2> QED BY <2>3, <2>4, <1>1 DEF OrderInv, Used, link
<1>5. DevShrinks
  BY <1>1, ToDevSame
<1>6. AskedInv' /\ RepliedInv'
  BY <1>2, <1>5, FlightShrinks DEF RInv, ChanInv
<1>7. PastInv'
  BY <1>1, <1>2, <1>5, PastShrinks DEF RInv, ChanInv
<1> QED BY <1>1, <1>2, <1>3, <1>4, <1>6, <1>7, LogSame DEF RInv, ChanInv

(* The line of a call that ends is the last one; only its end changes.      *)
LEMMA LastSettled ==
    ASSUME IInv, NEW t \in Tasks, Sending(t), NEW fate \in Fates, NEW by \in Nat,
           Settle(t, fate, by)
    PROVE  /\ mine[t] = Len(log) /\ Len(log) \in 1 .. Len(log) /\ Len(log) >= 1
           /\ Len(log') = Len(log)
           /\ log'[Len(log)].fate = fate /\ log'[Len(log)].by = by
           /\ log'[Len(log)].session = log[Len(log)].session
           /\ \A n \in 1 .. Len(log) : n # Len(log) => log'[n] = log[n]
           /\ SessionsKept /\ ReadersKept
<1> DEFINE k == Len(log)
           e == [log[k] EXCEPT !.fate = fate, !.by = by]
<1>1. mine[t] = k /\ mine[t] \in 1 .. k /\ k \in Nat /\ k >= 1
  BY LogTyped DEF IInv, LockInv, SingleFlight
<1>2. Len(log') = k
  BY SettleStep
<1>3. /\ log \in Seq(Entries) /\ DOMAIN log = 1 .. k /\ log[k] \in Entries
  BY <1>1, LogTyped
<1>4. e.fate = fate /\ e.by = by /\ e.session = log[k].session
  BY <1>3 DEF Entries
<1>5. log' = [log EXCEPT ![k] = e]
  BY <1>1 DEF Settle
<1> HIDE DEF e
<1>6. log'[k] = e /\ \A n \in 1 .. k : n # k => log'[n] = log[n]
  BY <1>1, <1>3, <1>5
<1>7. SessionsKept
  BY <1>2, <1>4, <1>6 DEF SessionsKept
<1>8. ReadersKept
  BY DEF IInv, TypeOK, Settle, Return, ReadersKept
<1> QED BY <1>1, <1>2, <1>4, <1>6, <1>7, <1>8

(* No line is open once a call has ended, as no other call was sending.     *)
LEMMA NoneOpen ==
    ASSUME IInv, RInv, NEW t \in Tasks, Sending(t), NEW fate \in Fates \ {"open"}, NEW by \in Nat,
           Settle(t, fate, by)
    PROVE  OpenInv'
<1> DEFINE k == Len(log)
<1>1. ASSUME NEW n \in 1 .. Len(log'), log'[n].fate = "open" PROVE FALSE
  <2>1. n \in 1 .. k /\ n # k /\ log'[n] = log[n]
    BY <1>1, LastSettled
  <2>2. PICK u \in Tasks : Sending(u) /\ mine[u] = n
    BY <1>1, <2>1 DEF RInv, OpenInv
  <2> QED BY <2>1, <2>2 DEF IInv, LockInv, SingleFlight
<1> QED BY <1>1 DEF OpenInv

(* The causes of earlier shifts are not touched by the end of a call.       *)
LEMMA CausesKept ==
    ASSUME IInv, IInv', RInv, NEW t \in Tasks, Sending(t), NEW fate \in Fates, NEW by \in Nat,
           Settle(t, fate, by),
           fate = "answered" /\ by \notin {0, Len(log)} =>
             \E m \in 1 .. Len(log) - 1 :
               /\ log[m].session = log[Len(log)].session
               /\ log[m].fate = "abandoned" \/ (log[m].fate = "answered" /\ log[m].by = 0)
               /\ \A j \in m + 1 .. Len(log) - 1 : log[j].session = log[Len(log)].session =>
                      ~(log[j].fate = "answered" /\ log[j].by = j)
    PROVE  ShiftHasCause'
<1> DEFINE k == Len(log)
<1>1. /\ k \in 1 .. k /\ k \in Nat /\ Len(log') = k
      /\ log'[k].fate = fate /\ log'[k].by = by /\ log'[k].session = log[k].session
      /\ \A n \in 1 .. k : n # k => log'[n] = log[n]
  BY LastSettled, LogTyped
<1>2. ASSUME NEW n \in DOMAIN log', log'[n].fate = "answered", log'[n].by \notin {0, n}
      PROVE  \E m \in 1 .. n - 1 :
               /\ log'[m].session = log'[n].session
               /\ log'[m].fate = "abandoned" \/ (log'[m].fate = "answered" /\ log'[m].by = 0)
               /\ \A j \in m + 1 .. n : log'[j].session = log'[n].session =>
                      ~(log'[j].fate = "answered" /\ log'[j].by = j)
  <2>1. n \in 1 .. k
    <3>1. log' \in Seq(Entries)
      BY DEF IInv, TypeOK
    <3> QED BY <3>1, <1>1, LenProperties
  <2>2. CASE n # k
    <3>1. n \in DOMAIN log /\ log'[n] = log[n] /\ n < k
      BY <2>1, <2>2, <1>1, LogTyped
    <3>2. PICK m \in 1 .. n - 1 :
            /\ log[m].session = log[n].session
            /\ log[m].fate = "abandoned" \/ (log[m].fate = "answered" /\ log[m].by = 0)
            /\ \A j \in m + 1 .. n : log[j].session = log[n].session =>
                   ~(log[j].fate = "answered" /\ log[j].by = j)
      BY <3>1, <1>2 DEF RInv, ShiftHasCause, Answered, Matched
    <3>3. \A j \in m .. n : log'[j] = log[j]
      BY <2>1, <3>1, <1>1
    <3>4. log'[m] = log[m] /\ \A j \in m + 1 .. n : log'[j] = log[j]
      BY <2>1, <3>3
    <3> QED BY <3>1, <3>2, <3>4
  <2>3. CASE n = k
    <3>1. PICK m \in 1 .. k - 1 :
            /\ log[m].session = log[k].session
            /\ log[m].fate = "abandoned" \/ (log[m].fate = "answered" /\ log[m].by = 0)
            /\ \A j \in m + 1 .. k - 1 : log[j].session = log[k].session =>
                   ~(log[j].fate = "answered" /\ log[j].by = j)
      BY <2>3, <1>1, <1>2
    <3>2. \A j \in m .. k - 1 : log'[j] = log[j]
      BY <1>1
    <3>3. ASSUME NEW j \in m + 1 .. k, log'[j].session = log'[k].session
          PROVE  ~(log'[j].fate = "answered" /\ log'[j].by = j)
      <4>1. CASE j = k
        BY <4>1, <2>3, <1>2
      <4>2. CASE j # k
        <5>1. j \in m + 1 .. k - 1 /\ j \in m .. k - 1
          BY <4>2, <1>1
        <5> QED BY <5>1, <3>1, <3>2, <3>3, <1>1
      <4> QED BY <4>1, <4>2
    <3>4. m \in 1 .. n - 1 /\ log'[m] = log[m] /\ log'[m].session = log'[n].session
      BY <2>3, <3>1, <3>2, <1>1
    <3>5. log'[m].fate = "abandoned" \/ (log'[m].fate = "answered" /\ log'[m].by = 0)
      BY <3>1, <3>4
    <3>6. \A j \in m + 1 .. n : log'[j].session = log'[n].session =>
             ~(log'[j].fate = "answered" /\ log'[j].by = j)
      BY <2>3, <3>3
    <3> QED BY <3>4, <3>5, <3>6
  <2> QED BY <2>2, <2>3
<1> QED BY <1>2 DEF ShiftHasCause, Answered, Matched

LEMMA LinkSame ==
    ASSUME RInv, UNCHANGED link
    PROVE  SessInv' /\ UsedKept
BY DEF RInv, link, SessInv, UsedKept, Used

(* A call is given up: it has read nothing, or a line that was not its own. *)
LEMMA AbandonReplies ==
    ASSUME IInv, IInv', RInv, NEW t \in Tasks, Sending(t), Abandon(t), CliShrinks
    PROVE  RInv'
<1> DEFINE k == Len(log)
<1>1. /\ Settle(t, "abandoned", 0) /\ UNCHANGED link /\ UNCHANGED toDev
      /\ "abandoned" \in Fates /\ "abandoned" \in Fates \ {"open"} /\ 0 \in Nat
  BY DEF Abandon, Fates
<1>2. /\ Len(log') = k /\ k \in Nat /\ k \in 1 .. k
      /\ log'[k].by = 0 /\ log'[k].session = log[k].session
      /\ \A n \in 1 .. k : n # k => log'[n] = log[n]
      /\ SessionsKept /\ ReadersKept
  BY <1>1, LastSettled, LogTyped
<1>3. SessInv' /\ UsedKept
  BY <1>1, LinkSame
<1>4. OrderInv'
  BY <1>2, <1>3, OrderKept DEF RInv
<1>5. DevShrinks
  BY <1>1, ToDevSame
<1>6. AskedInv' /\ RepliedInv'
  BY <1>2, <1>5, FlightShrinks DEF RInv, ChanInv
<1>7. \A n \in 1 .. k : log'[n].by \in {log[n].by, 0}
  BY <1>2
<1>8. PastInv'
  BY <1>2, <1>5, <1>7, PastShrinks DEF RInv, ChanInv
<1>9. ASSUME NEW n \in 1 .. Len(log'), log'[n].by # 0
      PROVE  /\ log'[n].by <= n
             /\ log'[log'[n].by].session = log'[n].session
             /\ \A m \in 1 .. Len(log') : log'[m].by = log'[n].by => m = n
  <2>1. n \in 1 .. k /\ n # k /\ log'[n] = log[n]
    BY <1>2, <1>9
  <2>2. /\ log[n].by <= n /\ log[log[n].by].session = log[n].session
        /\ \A m \in 1 .. k : log[m].by = log[n].by => m = n
    BY <1>9, <2>1 DEF RInv, ByInv
  <2>3. log[n].by \in 1 .. k /\ log[n].by # k
    BY <1>9, <2>1, <2>2, <1>2, LogTyped
  <2> QED BY <1>2, <1>9, <2>1, <2>2, <2>3
<1>10. ByInv'
  BY <1>9 DEF ByInv
<1>11. OpenInv'
  BY <1>1, NoneOpen
<1>12. ShiftHasCause'
  BY <1>1, CausesKept
<1> QED BY <1>3, <1>4, <1>6, <1>8, <1>10, <1>11, <1>12 DEF RInv, ChanInv

(* A reply taken from the connection was asked for on it, by a line no      *)
(* later than the reader's own and not answered before.                    *)
LEMMA ReplyIsFresh ==
    ASSUME IInv, RInv, NEW t \in Tasks, TakeLine(t), NextLine(t).req # 0
    PROVE  /\ at[t] \in Sessions /\ log[Len(log)].session = at[t]
           /\ NextLine(t).req \in 1 .. Len(log)
           /\ log[NextLine(t).req].session = at[t]
           /\ \A n \in 1 .. Len(log) : log[n].session = at[t] => log[n].by < NextLine(t).req
           /\ \A n \in 1 .. Len(log) : log[n].by # NextLine(t).req
<1> DEFINE q == at[t]
           r == NextLine(t).req
           k == Len(log)
<1>1. pc[t] = "reading" /\ Sending(t)
  BY DEF TakeLine, Sending
<1>2. /\ mine[t] = k /\ k \in 1 .. k /\ k \in Nat
      /\ q \in Sessions /\ log[k].session <= q
  <2>1. mine[t] = Len(log) /\ mine[t] \in 1 .. Len(log)
    BY <1>1, LogTyped DEF IInv, LockInv, SingleFlight
  <2>2. at[t] \in Sessions /\ log[mine[t]].session <= at[t]
    BY <1>1 DEF RInv, OrderInv
  <2> QED BY <2>1, <2>2, LogTyped
<1>3. Len(toCli[q]) >= 1 /\ NextLine(t) = toCli[q][1] /\ 1 \in 1 .. Len(toCli[q])
  BY <1>2, TakeShrinks, WireTyped
<1>4. Replied(q, 1) /\ r = toCli[q][1].req
  BY <1>3 DEF Replied
<1>5. r \in 1 .. k /\ log[r].session = q
  BY <1>2, <1>3, <1>4 DEF RInv, ChanInv, RepliedInv
<1>6. \A n \in 1 .. k : log[n].session = q => log[n].by < r
  BY <1>2, <1>3, <1>4 DEF RInv, ChanInv, PastInv
<1>7. log[r].session <= log[k].session
  BY <1>2, <1>5 DEF RInv, OrderInv
<1>8. log[k].session = q
  BY <1>2, <1>5, <1>7, LogTyped, LinkTyped
<1>9. ASSUME NEW n \in 1 .. k, log[n].by = r PROVE FALSE
  <2>1. r # 0 /\ r \in Nat
    BY <1>5, <1>2
  <2>2. log[log[n].by].session = log[n].session
    BY <1>9, <2>1 DEF RInv, ByInv
  <2>3. log[n].session = q
    BY <1>5, <1>9, <2>2
  <2> QED BY <1>6, <1>9, <2>1, <2>3
<1> QED BY <1>2, <1>5, <1>6, <1>8, <1>9

LEMMA ReplyReplies ==
    ASSUME IInv, IInv', RInv, NEW t \in Tasks, Reply(t)
    PROVE  RInv'
<1> DEFINE k == Len(log)
           r == NextLine(t).req
           q == at[t]
<1>1. /\ TakeLine(t) /\ Settle(t, "answered", r) /\ UNCHANGED link /\ UNCHANGED toDev
      /\ "answered" \in Fates /\ "answered" \in Fates \ {"open"} /\ r \in Nat /\ Sending(t)
  <2>1. TakeLine(t) /\ Settle(t, "answered", r) /\ UNCHANGED link /\ UNCHANGED toDev
    BY DEF Reply
  <2>2. NextLine(t) \in Lines /\ Sending(t)
    BY <2>1, LineTaken
  <2> QED BY <2>1, <2>2 DEF Fates, Lines
<1>2. q \in Sessions
  BY <1>1 DEF TakeLine, RInv, OrderInv
<1>3. /\ Len(log') = k /\ k \in Nat /\ k \in 1 .. k
      /\ log'[k].by = r /\ log'[k].session = log[k].session
      /\ \A n \in 1 .. k : n # k => log'[n] = log[n]
      /\ SessionsKept /\ ReadersKept
  BY <1>1, LastSettled, LogTyped
<1>4. SessInv' /\ UsedKept
  BY <1>1, LinkSame
<1>5. OrderInv'
  BY <1>3, <1>4, OrderKept DEF RInv
<1>6. DevShrinks /\ CliShrinks
  BY <1>1, <1>2, ToDevSame, TakeShrinks
<1>7. AskedInv' /\ RepliedInv'
  BY <1>3, <1>6, FlightShrinks DEF RInv, ChanInv
<1>8. ASSUME r # 0
      PROVE  /\ log[k].session = q /\ r \in 1 .. k /\ log[r].session = q
             /\ \A n \in 1 .. k : log[n].session = q => log[n].by < r
             /\ \A n \in 1 .. k : log[n].by # r
  BY <1>1, <1>8, ReplyIsFresh
<1>9. PastInv'
  <2>1. CASE r = 0
    <3>1. \A n \in 1 .. k : log'[n].by \in {log[n].by, 0}
      BY <2>1, <1>3
    <3> QED BY <3>1, <1>3, <1>6, PastShrinks DEF RInv, ChanInv
  <2>2. CASE r # 0
    <3>1. ASSUME NEW n \in 1 .. Len(log'), NEW s \in Sessions, log'[n].session = s
          PROVE  /\ \A i \in 1 .. Len(toDev[s]) :
                      toDev[s][i] # Exit => log'[n].by < toDev[s][i]
                 /\ \A i \in 1 .. Len(toCli'[s]) :
                      toCli'[s][i].req # 0 => log'[n].by < toCli'[s][i].req
      <4>1. CASE n # k
        <5>1. n \in 1 .. k /\ log'[n] = log[n] /\ log[n].session = s
          BY <3>1, <4>1, <1>3
        <5>2. \A i \in 1 .. Len(toDev[s]) : toDev[s][i] # Exit => log[n].by < toDev[s][i]
          BY <5>1 DEF RInv, ChanInv, PastInv, Asked
        <5>3. ASSUME NEW i \in 1 .. Len(toCli'[s]), toCli'[s][i].req # 0
              PROVE  log[n].by < toCli'[s][i].req
          <6>1. PICK d \in 0 .. 1 :
                  i + d \in 1 .. Len(toCli[s]) /\ toCli'[s][i] = toCli[s][i + d]
            BY <1>6 DEF CliShrinks
          <6> QED BY <5>1, <5>3, <6>1 DEF RInv, ChanInv, PastInv, Replied
        <5> QED BY <5>1, <5>2, <5>3
      <4>2. CASE n = k
        <5>1. s = q /\ log'[n].by = r
          BY <2>2, <3>1, <4>2, <1>3, <1>8
        <5>2. /\ NextLine(t) = toCli[q][1] /\ 1 \in 1 .. Len(toCli[q])
              /\ \A i \in 1 .. Len(toCli'[q]) :
                   toCli'[q][i] = toCli[q][i + 1] /\ i + 1 \in 1 .. Len(toCli[q])
          BY <1>1, <1>2, TakeShrinks, WireTyped
        <5>3. ASSUME NEW i \in 1 .. Len(toDev[q]), toDev[q][i] # Exit
              PROVE  r < toDev[q][i]
          <6>1. \A j \in 1 .. Len(toCli[q]) : toCli[q][j].req < toDev[q][i]
            BY <5>3, <1>2 DEF RInv, ChanInv, AskedInv, Asked
          <6> QED BY <6>1, <5>2
        <5>4. ASSUME NEW i \in 1 .. Len(toCli'[q]), toCli'[q][i].req # 0
              PROVE  r < toCli'[q][i].req
          <6>1. i + 1 \in 1 .. Len(toCli[q]) /\ toCli'[q][i] = toCli[q][i + 1]
            BY <5>2
          <6>2. \A j \in 1 .. (i + 1) - 1 : toCli[q][j].req < toCli[q][i + 1].req
            BY <5>4, <6>1, <1>2 DEF RInv, ChanInv, RepliedInv, Replied
          <6>3. 1 \in 1 .. (i + 1) - 1
            BY <5>4, NextWireTyped, <1>2
          <6> QED BY <6>1, <6>2, <6>3, <5>2
        <5> QED BY <5>1, <5>3, <5>4
      <4> QED BY <4>1, <4>2
    <3> QED BY <3>1, <1>1 DEF PastInv, Asked, Replied
  <2> QED BY <2>1, <2>2
<1>10. ASSUME NEW n \in 1 .. Len(log'), log'[n].by # 0
       PROVE  /\ log'[n].by <= n
              /\ log'[log'[n].by].session = log'[n].session
              /\ \A m \in 1 .. Len(log') : log'[m].by = log'[n].by => m = n
  <2>1. CASE n # k
    <3>1. n \in 1 .. k /\ log'[n] = log[n]
      BY <2>1, <1>3
    <3>2. /\ log[n].by <= n /\ log[log[n].by].session = log[n].session
          /\ \A m \in 1 .. k : log[m].by = log[n].by => m = n
      BY <1>10, <3>1 DEF RInv, ByInv
    <3>3. log[n].by \in 1 .. k /\ log[n].by # k
      BY <1>10, <2>1, <3>1, <3>2, <1>3, LogTyped
    <3>4. log'[k].by # log'[n].by
      BY <1>3, <1>8, <1>10, <3>1
    <3> QED BY <1>3, <1>10, <3>1, <3>2, <3>3, <3>4
  <2>2. CASE n = k
    <3>1. r # 0 /\ log'[n].by = r
      BY <1>3, <1>10, <2>2
    <3>2. r <= k /\ log'[r].session = log[r].session
      BY <3>1, <1>3, <1>8
    <3>3. ASSUME NEW m \in 1 .. Len(log'), log'[m].by = r PROVE m = k
      BY <3>1, <3>3, <1>3, <1>8
    <3> QED BY <2>2, <3>1, <3>2, <3>3, <1>3, <1>8
  <2> QED BY <2>1, <2>2
<1>11. ByInv'
  BY <1>10 DEF ByInv
<1>12. OpenInv'
  BY <1>1, NoneOpen
<1>13. ASSUME r \notin {0, k}
       PROVE  \E m \in 1 .. k - 1 :
                /\ log[m].session = log[k].session
                /\ log[m].fate = "abandoned" \/ (log[m].fate = "answered" /\ log[m].by = 0)
                /\ \A j \in m + 1 .. k - 1 : log[j].session = log[k].session =>
                       ~(log[j].fate = "answered" /\ log[j].by = j)
  <2>1. /\ r \in 1 .. k - 1 /\ r \in 1 .. k /\ log[r].session = log[k].session
        /\ \A n \in 1 .. k : log[n].session = log[k].session => log[n].by < r
    BY <1>3, <1>8, <1>13
  <2>2. \A j \in r + 1 .. k - 1 : log[j].session = log[k].session => log[j].by # j
    BY <2>1, <1>3, LogTyped
  <2>3. log[r].fate # "open"
    <3>1. ASSUME log[r].fate = "open" PROVE FALSE
      <4>1. PICK u \in Tasks : Sending(u) /\ mine[u] = r
        BY <2>1, <3>1 DEF RInv, OpenInv
      <4> QED BY <4>1, <1>3, <1>13 DEF IInv, LockInv, SingleFlight
    <3> QED BY <3>1
  <2>4. CASE log[r].fate = "abandoned" \/ (log[r].fate = "answered" /\ log[r].by = 0)
    BY <2>1, <2>2, <2>4
  <2>5. CASE log[r].fate = "answered" /\ log[r].by # 0
    <3>1. log[r].by \notin {0, r} /\ r \in DOMAIN log
      BY <2>1, <2>5, <1>3, LogTyped
    <3>2. PICK m \in 1 .. r - 1 :
            /\ log[m].session = log[r].session
            /\ log[m].fate = "abandoned" \/ (log[m].fate = "answered" /\ log[m].by = 0)
            /\ \A j \in m + 1 .. r : log[j].session = log[r].session =>
                   ~(log[j].fate = "answered" /\ log[j].by = j)
      BY <2>5, <3>1 DEF RInv, ShiftHasCause, Answered, Matched
    <3>3. ASSUME NEW j \in m + 1 .. k - 1, log[j].session = log[k].session
          PROVE  ~(log[j].fate = "answered" /\ log[j].by = j)
      <4>1. j \in m + 1 .. r \/ j \in r + 1 .. k - 1
        BY <2>1, <1>3
      <4> QED BY <4>1, <3>2, <3>3, <2>1, <2>2
    <3>4. m \in 1 .. k - 1
      BY <2>1, <1>3
    <3> QED BY <2>1, <3>2, <3>3, <3>4
  <2>6. log[r].fate \in Fates
    BY <2>1, LogTyped
  <2> QED BY <2>3, <2>4, <2>5, <2>6 DEF Fates
<1> HIDE DEF k, r
<1>14. ShiftHasCause'
  BY <1>1, <1>13, CausesKept DEF k
<1> QED BY <1>4, <1>5, <1>7, <1>9, <1>11, <1>12, <1>14 DEF RInv, ChanInv

LEMMA ReceiveReplies ==
    ASSUME IInv, IInv', RInv, NEW t \in Tasks,
           \/ DrainFail(t) \/ Drained(t) \/ DrainedGone(t)
           \/ Reply(t) \/ Discard(t) \/ DiscardGone(t)
           \/ ReadEof(t) \/ Timeout(t) \/ CancelSending(t)
    PROVE  RInv'
<1>1. CASE DrainFail(t) \/ DrainedGone(t) \/ ReadEof(t) \/ Timeout(t) \/ CancelSending(t)
  <2>1. Sending(t) /\ Abandon(t) /\ UNCHANGED toCli
    BY <1>1 DEF DrainFail, DrainedGone, ReadEof, Timeout, CancelSending, Sending
  <2> QED BY <2>1, ToCliSame, AbandonReplies
<1>2. CASE Drained(t)
  <2>1. Sending(t) /\ BeginRead(t) /\ UNCHANGED toCli
    BY <1>2 DEF Drained, Sending
  <2> QED BY <2>1, ToCliSame, ReadReplies
<1>3. ASSUME TakeLine(t) PROVE Sending(t) /\ CliShrinks
  <2>1. at[t] \in Sessions
    BY <1>3 DEF TakeLine, RInv, OrderInv
  <2> QED BY <1>3, <2>1, TakeShrinks DEF TakeLine, Sending
<1>4. CASE Discard(t)
  BY <1>3, <1>4, ReadReplies DEF Discard
<1>5. CASE DiscardGone(t)
  BY <1>3, <1>5, AbandonReplies DEF DiscardGone
<1>6. CASE Reply(t)
  BY <1>6, ReplyReplies
<1> QED BY <1>1, <1>2, <1>4, <1>5, <1>6

-----------------------------------------------------------------------------
(* The induction                                                            *)

LEMMA RInvInit == Init => RInv
<1> SUFFICES ASSUME Init PROVE RInv
  OBVIOUS
<1>1. SessInv
  BY BoundsAssumption DEF Init, SessInv, Used, Sessions
<1>2. /\ log = <<>> /\ Len(log) = 0 /\ DOMAIN log = {}
      /\ \A t \in Tasks : pc[t] = "idle"
      /\ \A s \in Sessions : toDev[s] = <<>> /\ toCli[s] = <<>>
  BY BoundsAssumption DEF Init, Sessions
<1>3. OrderInv /\ ByInv /\ OpenInv
  BY <1>2 DEF OrderInv, ByInv, OpenInv
<1>4. ChanInv
  BY <1>2 DEF ChanInv, AskedInv, RepliedInv, PastInv
<1>5. ShiftHasCause
  BY <1>2 DEF ShiftHasCause
<1> QED BY <1>1, <1>3, <1>4, <1>5 DEF RInv

LEMMA RInvNext == IInv /\ RInv /\ [Next]_vars => RInv'
<1> SUFFICES ASSUME IInv, RInv, [Next]_vars PROVE RInv'
  OBVIOUS
<1>1. IInv'
  BY IInvNext
<1>2. CASE UNCHANGED vars
  <2>1. /\ UNCHANGED <<session, stage, toDev, toCli, pc, at, mine, log>>
    BY <1>2 DEF vars
  <2>2. SessInv' /\ OrderInv'
    BY <2>1 DEF RInv, SessInv, OrderInv, Used
  <2>3. ChanInv'
    BY <2>1 DEF RInv, ChanInv, AskedInv, RepliedInv, PastInv, Asked, Replied
  <2>4. SendersKept
    BY <2>1 DEF SendersKept, Sending
  <2> QED BY <2>1, <2>2, <2>3, <2>4, LogSame DEF RInv
<1>3. ASSUME NEW t \in Tasks, Call(t) PROVE RInv'
  BY <1>1, <1>2, <1>3, LinkReplies, SendReplies DEF Call, SendRefused
<1>4. ASSUME NEW t \in Tasks, Proceed(t) PROVE RInv'
  BY <1>1, <1>4, LinkReplies, SendReplies, ReceiveReplies DEF Proceed
<1>5. ASSUME NEW t \in Tasks, Cancel(t) PROVE RInv'
  BY <1>1, <1>5, LinkReplies, SendReplies, ReceiveReplies DEF Cancel
<1> QED BY <1>1, <1>2, <1>3, <1>4, <1>5, DeviceReplies DEF Next

(* transport.py:197-252: whatever times out, is cancelled or reconnects, a  *)
(* reply is given to a line no earlier than the one it answers, on the same *)
(* connection, and to one line only.                                       *)
THEOREM RepliesUsedOnce == Spec => []RepliesNeverReused
<1>1. IInv /\ RInv => RepliesNeverReused
  BY LogTyped DEF RInv, ByInv, RepliesNeverReused
<1> QED BY <1>1, IInvInit, IInvNext, RInvInit, RInvNext, PTL DEF Spec

(* transport.py:197-252: a call that got the answer to another line follows *)
(* one on its connection that was given up, or that took a push for its    *)
(* ack, with no call in between that got its own.                          *)
THEOREM ShiftsHaveCauses == Spec => []ShiftHasCause
<1>1. RInv => ShiftHasCause
  BY DEF RInv
<1> QED BY <1>1, IInvInit, IInvNext, RInvInit, RInvNext, PTL DEF Spec

-----------------------------------------------------------------------------
(* The lock holds the tasks that wait for it or have it, each of them once. *)

InLock(u) == pc[u] \in {"waiting", "writing", "reading"}

QInv ==
    /\ \A i \in 1 .. Len(lockq) : InLock(lockq[i])
    /\ \A i, j \in 1 .. Len(lockq) : lockq[i] = lockq[j] => i = j

LEMMA LockTyped ==
    ASSUME IInv
    PROVE  /\ lockq \in Seq(Tasks) /\ Len(lockq) \in Nat /\ DOMAIN lockq = 1 .. Len(lockq)
           /\ \A i \in 1 .. Len(lockq) : lockq[i] \in Tasks
           /\ pc \in [Tasks -> PCs]
BY LenProperties, ElementOfSeq DEF IInv, TypeOK

LEMMA QueueKept ==
    ASSUME IInv, QInv, UNCHANGED lockq,
           \A u \in Tasks : InLock(u) => pc'[u] \in {"waiting", "writing", "reading"}
    PROVE  QInv'
<1>1. \A i \in 1 .. Len(lockq') : InLock(lockq[i]) /\ lockq[i] \in Tasks /\ lockq'[i] = lockq[i]
  BY LockTyped DEF QInv
<1>2. \A i \in 1 .. Len(lockq') : pc'[lockq'[i]] \in {"waiting", "writing", "reading"}
  BY <1>1
<1>3. \A i, j \in 1 .. Len(lockq') : lockq'[i] = lockq'[j] => i = j
  BY DEF QInv
<1> QED BY <1>2, <1>3 DEF QInv, InLock

(* Taking the head off the lock is taking the first place out of it.        *)
LEMMA TailIsRemoval ==
    ASSUME NEW q \in Seq(Tasks), q # <<>>
    PROVE  1 \in 1 .. Len(q) /\ Head(q) = q[1] /\ Tail(q) = RemoveAt(q, 1)
<1>1. /\ Len(q) \in Nat /\ Len(q) # 0
      /\ Head(q) = q[1] /\ Tail(q) \in Seq(Tasks) /\ Len(Tail(q)) = Len(q) - 1
      /\ \A i \in 1 .. Len(Tail(q)) : Tail(q)[i] = q[i + 1]
  BY HeadTailProperties, LenProperties, EmptySeq
<1>2. 1 \in 1 .. Len(q)
  BY <1>1
<1>3. /\ RemoveAt(q, 1) \in Seq(Tasks) /\ Len(RemoveAt(q, 1)) = Len(q) - 1
      /\ \A j \in 1 .. Len(q) - 1 : RemoveAt(q, 1)[j] = IF j < 1 THEN q[j] ELSE q[j + 1]
  BY <1>2, RemoveAtFacts
<1>4. \A j \in 1 .. Len(q) - 1 : Tail(q)[j] = RemoveAt(q, 1)[j]
  BY <1>1, <1>3
<1>5. Tail(q) = RemoveAt(q, 1)
  BY <1>1, <1>3, <1>4, SeqEqual
<1> QED BY <1>1, <1>2, <1>5

LEMMA QueueLeft ==
    ASSUME IInv, QInv, NEW t \in Tasks, \A u \in Tasks \ {t} : pc'[u] = pc[u],
           NEW i \in 1 .. Len(lockq), lockq[i] = t, lockq' = RemoveAt(lockq, i)
    PROVE  QInv'
<1>1. /\ Len(lockq) \in Nat /\ Len(lockq') = Len(lockq) - 1
      /\ \A j \in 1 .. Len(lockq) - 1 : lockq'[j] = IF j < i THEN lockq[j] ELSE lockq[j + 1]
  BY LockTyped, RemoveAtFacts
<1> DEFINE old(j) == IF j < i THEN j ELSE j + 1
<1>2. ASSUME NEW j \in 1 .. Len(lockq')
      PROVE  old(j) \in 1 .. Len(lockq) /\ old(j) # i /\ lockq'[j] = lockq[old(j)]
  BY <1>1
<1>3. \A j, k \in 1 .. Len(lockq') : old(j) = old(k) => j = k
  BY <1>1
<1> HIDE DEF old
<1>4. ASSUME NEW j \in 1 .. Len(lockq')
      PROVE  pc'[lockq'[j]] \in {"waiting", "writing", "reading"}
  <2>1. lockq[old(j)] # t /\ lockq[old(j)] \in Tasks /\ InLock(lockq[old(j)])
    BY <1>2, LockTyped DEF QInv
  <2> QED BY <1>2, <2>1 DEF InLock
<1>5. \A j, k \in 1 .. Len(lockq') : lockq'[j] = lockq'[k] => j = k
  BY <1>2, <1>3 DEF QInv
<1> QED BY <1>4, <1>5 DEF QInv, InLock

LEMMA QueueSettled ==
    ASSUME IInv, QInv, NEW t \in Tasks, Return(t), lockq # <<>>, Head(lockq) = t,
           lockq' = Tail(lockq)
    PROVE  QInv'
<1>1. \A u \in Tasks \ {t} : pc'[u] = pc[u]
  BY LockTyped DEF Return
<1>2. 1 \in 1 .. Len(lockq) /\ lockq[1] = t /\ lockq' = RemoveAt(lockq, 1)
  BY LockTyped, TailIsRemoval
<1> QED BY <1>1, <1>2, QueueLeft

LEMMA QInvNext == IInv /\ QInv /\ [Next]_vars => QInv'
<1> SUFFICES ASSUME IInv, QInv, [Next]_vars PROVE QInv'
  OBVIOUS
<1> DEFINE Busy == {"waiting", "writing", "reading"}
<1>1. CASE UNCHANGED <<lockq, pc>>
  BY <1>1, QueueKept DEF InLock
<1>2. ASSUME NEW t \in Tasks, ~InLock(t), UNCHANGED lockq,
             \A u \in Tasks \ {t} : pc'[u] = pc[u]
      PROVE  QInv'
  BY <1>2, QueueKept DEF InLock
<1>3. ASSUME NEW t \in Tasks, Return(t) PROVE \A u \in Tasks \ {t} : pc'[u] = pc[u]
  BY <1>3, LockTyped DEF Return
<1>4. ASSUME NEW t \in Tasks,
             \/ ConnectStart(t) \/ OpenFail(t) \/ OpenOk(t) \/ LoginOk(t)
             \/ (\E e \in LoginErrors : LoginFail(t, e))
             \/ CloseStart(t) \/ CloseQuiet(t) \/ CloseFinish(t)
             \/ CancelConnectOrClose(t)
      PROVE  QInv'
  <2>1. ~InLock(t) /\ UNCHANGED lockq
    BY <1>4 DEF InLock, ConnectStart, OpenFail, OpenOk, LoginOk, LoginFail, CloseStart,
                CloseQuiet, CloseFinish, CancelConnectOrClose, SayExit, Shut
  <2>2. \A u \in Tasks \ {t} : pc'[u] = pc[u]
    <3>1. Return(t) \/ \E p \in PCs : pc' = [pc EXCEPT ![t] = p]
      BY <1>4 DEF ConnectStart, OpenFail, OpenOk, LoginOk, LoginFail, CloseStart, PCs,
                  CloseQuiet, CloseFinish, CancelConnectOrClose, SayExit, Shut
    <3> QED BY <3>1, <1>3, LockTyped
  <2> QED BY <2>1, <2>2, <1>2
<1>5. ASSUME NEW t \in Tasks, NEW c \in Commands, SendNow(t, c) PROVE QInv'
  <2>1. lockq' = <<t>> /\ pc' = [pc EXCEPT ![t] = "writing"]
    BY <1>5 DEF SendNow, Write
  <2>2. Len(lockq') = 1 /\ lockq'[1] = t /\ pc'[t] = "writing"
    BY <2>1, LockTyped
  <2> QED BY <2>2 DEF QInv, InLock
<1>6. ASSUME NEW t \in Tasks, NEW c \in Commands, SendWait(t, c) PROVE QInv'
  <2>1. lockq' = Append(lockq, t) /\ pc' = [pc EXCEPT ![t] = "waiting"] /\ pc[t] = "idle"
    BY <1>6 DEF SendWait
  <2>2. /\ Len(lockq') = Len(lockq) + 1 /\ Len(lockq) \in Nat
        /\ \A i \in 1 .. Len(lockq) : lockq'[i] = lockq[i]
        /\ lockq'[Len(lockq) + 1] = t
    BY <2>1, LockTyped, AppendProperties
  <2>3. \A i \in 1 .. Len(lockq) : lockq[i] # t /\ InLock(lockq[i]) /\ lockq[i] \in Tasks
    BY <2>1, LockTyped DEF QInv, InLock
  <2>4. \A i \in 1 .. Len(lockq') : i \in 1 .. Len(lockq) \/ i = Len(lockq) + 1
    BY <2>2
  <2>5. ASSUME NEW i \in 1 .. Len(lockq') PROVE pc'[lockq'[i]] \in Busy
    <3>1. CASE i \in 1 .. Len(lockq)
      BY <3>1, <2>1, <2>2, <2>3, LockTyped DEF InLock
    <3>2. CASE i = Len(lockq) + 1
      BY <3>2, <2>1, <2>2, LockTyped
    <3> QED BY <3>1, <3>2, <2>4
  <2>6. ASSUME NEW i \in 1 .. Len(lockq'), NEW j \in 1 .. Len(lockq'), lockq'[i] = lockq'[j]
        PROVE  i = j
    BY <2>2, <2>3, <2>4, <2>6 DEF QInv
  <2> QED BY <2>5, <2>6 DEF QInv, InLock
<1>7. ASSUME NEW t \in Tasks, Acquire(t) PROVE QInv'
  <2>1. UNCHANGED lockq /\ pc' = [pc EXCEPT ![t] = "writing"]
    BY <1>7 DEF Acquire, Write
  <2> QED BY <2>1, LockTyped, QueueKept DEF InLock
<1>8. ASSUME NEW t \in Tasks, AcquireGone(t) PROVE QInv'
  BY <1>8, WaiterHeads, QueueSettled DEF AcquireGone
<1>9. ASSUME NEW t \in Tasks, CancelWaiting(t) PROVE QInv'
  <2>1. PICK i \in 1 .. Len(lockq) : lockq[i] = t /\ lockq' = RemoveAt(lockq, i)
    BY <1>9, LockTyped DEF CancelWaiting
  <2> QED BY <1>3, <1>9, <2>1, QueueLeft DEF CancelWaiting
<1>10. ASSUME NEW t \in Tasks, Sending(t), NEW fate, NEW by, Settle(t, fate, by) PROVE QInv'
  BY <1>10, QueueSettled DEF Settle, IInv, LockInv, SingleFlight
<1>11. ASSUME NEW t \in Tasks, Drained(t) \/ Discard(t) PROVE QInv'
  <2>1. UNCHANGED lockq /\ pc' = [pc EXCEPT ![t] = "reading"]
    BY <1>11 DEF Drained, Discard, BeginRead
  <2> QED BY <2>1, LockTyped, QueueKept DEF InLock
<1>12. ASSUME NEW t \in Tasks,
              \/ DrainFail(t) \/ DrainedGone(t) \/ Reply(t) \/ DiscardGone(t)
              \/ ReadEof(t) \/ Timeout(t) \/ CancelSending(t)
       PROVE  QInv'
  <2>1. Sending(t)
    BY <1>12 DEF DrainFail, DrainedGone, Reply, DiscardGone, TakeLine, ReadEof, Timeout,
                 CancelSending, Sending
  <2>2. Abandon(t) \/ Settle(t, "answered", NextLine(t).req)
    BY <1>12 DEF DrainFail, DrainedGone, Reply, DiscardGone, ReadEof, Timeout, CancelSending
  <2> QED BY <2>1, <2>2, <1>10 DEF Abandon
<1>13. ASSUME NEW s \in Sessions, Device(s) PROVE UNCHANGED <<lockq, pc>>
  BY <1>13 DEF Device, DeviceAnswer, DeviceSilent, DevicePoisoned, DevicePush, DeviceHangup, tasks
<1>14. ASSUME NEW t \in Tasks, Call(t) PROVE QInv'
  BY <1>1, <1>4, <1>5, <1>6, <1>14 DEF Call, SendRefused, vars
<1>15. ASSUME NEW t \in Tasks, Proceed(t) PROVE QInv'
  BY <1>4, <1>7, <1>8, <1>11, <1>12, <1>15 DEF Proceed
<1>16. ASSUME NEW t \in Tasks, Cancel(t) PROVE QInv'
  BY <1>4, <1>9, <1>12, <1>16 DEF Cancel
<1> QED BY <1>1, <1>13, <1>14, <1>15, <1>16 DEF Next, vars

-----------------------------------------------------------------------------
(* The refinement: the lock and the log are a FIFO service of one request   *)
(* at a time.                                                               *)

(* The line of a task that is sending is the last and the only open one.    *)
LEMMA SenderIsServed ==
    ASSUME IInv, NEW t \in Tasks, Sending(t)
    PROVE  Serial!Mine(t) /\ mine[t] = Len(log)
<1>1. /\ lockq # <<>> /\ Head(lockq) = t
      /\ mine[t] = Len(log) /\ mine[t] \in 1 .. Len(log)
      /\ log[Len(log)].task = t /\ log[Len(log)].fate = "open"
  BY LogTyped DEF IInv, LockInv, SingleFlight
<1>2. log # <<>>
  BY <1>1, LogTyped
<1> QED BY <1>1, <1>2 DEF Serial!Mine, Serial!Busy

(* When no task is sending, no request is served.                           *)
LEMMA NobodyServed ==
    ASSUME IInv, RInv, \A u \in Tasks : ~Sending(u)
    PROVE  ~Serial!Busy
<1>1. ASSUME Serial!Busy PROVE FALSE
  <2>1. log # <<>> /\ log[Len(log)].fate = "open"
    BY <1>1 DEF Serial!Busy
  <2>2. Len(log) \in 1 .. Len(log)
    BY <2>1, LogTyped, EmptySeq
  <2> QED BY <2>1, <2>2 DEF RInv, OpenInv
<1> QED BY <1>1

LEMMA WriteOpens ==
    ASSUME IInv, RInv, NEW t \in Tasks, NEW c \in Commands, Write(t, c),
           \A u \in Tasks : ~Sending(u)
    PROVE  session \in Sessions /\ Serial!Open(t, c, session)
<1>1. session \in Sessions
  BY LinkTyped DEF Write
<1>2. ~Serial!Busy
  BY NobodyServed
<1> QED BY <1>1, <1>2 DEF Serial!Open, Write

LEMMA AbandonGivesUp ==
    ASSUME IInv, NEW t \in Tasks, Sending(t), Abandon(t)
    PROVE  Serial!GiveUp(t)
BY SenderIsServed DEF Abandon, Settle, Serial!GiveUp, Serial!End

LEMMA ReplyAnswers ==
    ASSUME IInv, RInv, NEW t \in Tasks, Reply(t)
    PROVE  \E k \in 0 .. Len(log) : Serial!Answer(t, k)
<1> DEFINE k == NextLine(t).req
<1>1. TakeLine(t) /\ Settle(t, "answered", k) /\ k \in Nat /\ Sending(t)
  <2>1. TakeLine(t) /\ Settle(t, "answered", k)
    BY DEF Reply
  <2> QED BY <2>1, LineTaken DEF Lines
<1> HIDE DEF k
<1>2. Serial!End(t, "answered", k)
  BY <1>1, SenderIsServed DEF Settle, Serial!End
<1>3. ASSUME k # 0
      PROVE  /\ k \in 1 .. Len(log)
             /\ log[k].session = log[Len(log)].session
             /\ \A n \in DOMAIN log : Serial!Served(n) => log[n].by # k
  BY <1>1, <1>3, ReplyIsFresh, LogTyped DEF k
<1>4. k \in 0 .. Len(log)
  BY <1>1, <1>3, LogTyped
<1> QED BY <1>2, <1>3, <1>4 DEF Serial!Answer

LEMMA LeavesQueue ==
    ASSUME IInv, RInv, NEW t \in Tasks, ~Sending(t), UNCHANGED log,
           \E i \in DOMAIN lockq : lockq[i] = t /\ lockq' = RemoveAt(lockq, i)
    PROVE  Serial!Leave(t)
<1>1. ASSUME Serial!Busy PROVE Head(lockq) # t
  <2>1. PICK u \in Tasks : Sending(u)
    BY <1>1, NobodyServed
  <2> QED BY <2>1 DEF IInv, LockInv, SingleFlight
<1>2. \A i \in DOMAIN lockq : Serial!RemoveAt(lockq, i) = RemoveAt(lockq, i)
  BY DEF RemoveAt, Serial!RemoveAt
<1> QED BY <1>1, <1>2 DEF Serial!Leave

LEMMA SerialStep == IInv /\ RInv /\ QInv /\ [Next]_vars => [Serial!Next]_(Serial!vars)
<1> SUFFICES ASSUME IInv, RInv, QInv, [Next]_vars
             PROVE  Serial!Next \/ UNCHANGED <<lockq, log>>
  BY DEF Serial!vars
<1>1. CASE UNCHANGED vars
  BY <1>1 DEF vars
<1>2. ASSUME NEW t \in Tasks, NEW c \in Commands, SendNow(t, c) PROVE Serial!Next
  <2>1. Serial!Open(t, c, session) /\ session \in Sessions
    BY <1>2, NobodySends, WriteOpens DEF SendNow
  <2>2. Serial!OpenAtOnce(t, c, session)
    BY <1>2, <2>1 DEF SendNow, Serial!OpenAtOnce
  <2> QED BY <2>1, <2>2 DEF Serial!Next
<1>3. ASSUME NEW t \in Tasks, Acquire(t) PROVE Serial!Next
  <2>1. cmd[t] \in Commands /\ Serial!Open(t, cmd[t], session) /\ session \in Sessions
    <3>1. cmd[t] \in Commands
      BY DEF IInv, TypeOK
    <3> QED BY <1>3, <3>1, NobodySends, WriteOpens DEF Acquire
  <2>2. Serial!OpenInTurn(t, cmd[t], session)
    BY <1>3, <2>1, WaiterHeads DEF Acquire, Serial!OpenInTurn
  <2> QED BY <2>1, <2>2 DEF Serial!Next
<1>4. ASSUME NEW t \in Tasks, NEW c \in Commands, SendWait(t, c) PROVE Serial!Next
  <2>1. lockq # <<>> /\ lockq' = Append(lockq, t) /\ UNCHANGED log
    BY <1>4 DEF SendWait
  <2>2. \A i \in DOMAIN lockq : lockq[i] # t
    BY <1>4, LockTyped DEF SendWait, QInv, InLock
  <2>3. Serial!Enter(t)
    BY <2>1, <2>2 DEF Serial!Enter
  <2> QED BY <2>3 DEF Serial!Next
<1>5. ASSUME NEW t \in Tasks, AcquireGone(t) \/ CancelWaiting(t) PROVE Serial!Next
  <2>1. ~Sending(t) /\ UNCHANGED log
    BY <1>5 DEF AcquireGone, CancelWaiting, Sending
  <2>2. \E i \in DOMAIN lockq : lockq[i] = t /\ lockq' = RemoveAt(lockq, i)
    <3>1. CASE CancelWaiting(t)
      BY <3>1 DEF CancelWaiting
    <3>2. CASE AcquireGone(t)
      <4>1. /\ lockq \in Seq(Tasks) /\ lockq # <<>> /\ Head(lockq) = t
            /\ lockq' = Tail(lockq)
        BY <3>2, WaiterHeads DEF AcquireGone, IInv, TypeOK
      <4> QED BY <4>1, TailIsRemoval, LockTyped
    <3> QED BY <1>5, <3>1, <3>2
  <2>3. Serial!Leave(t)
    BY <2>1, <2>2, LeavesQueue
  <2> QED BY <2>3 DEF Serial!Next
<1>6. ASSUME NEW t \in Tasks, Sending(t), Abandon(t) PROVE Serial!Next
  BY <1>6, AbandonGivesUp DEF Serial!Next
<1>7. ASSUME NEW t \in Tasks, Reply(t) PROVE Serial!Next
  BY <1>7, ReplyAnswers DEF Serial!Next
<1>8. ASSUME NEW t \in Tasks, Call(t) PROVE Serial!Next \/ UNCHANGED <<lockq, log>>
  BY <1>1, <1>2, <1>4, <1>8
     DEF Call, ConnectStart, CloseStart, CloseQuiet, SayExit, Shut, SendRefused, vars
<1>9. ASSUME NEW t \in Tasks, Proceed(t) PROVE Serial!Next \/ UNCHANGED <<lockq, log>>
  <2>1. CASE \/ OpenFail(t) \/ OpenOk(t) \/ LoginOk(t) \/ CloseFinish(t)
             \/ (\E e \in LoginErrors : LoginFail(t, e))
    BY <2>1 DEF OpenFail, OpenOk, LoginOk, CloseFinish, LoginFail, SayExit, Shut
  <2>2. CASE DrainFail(t) \/ DrainedGone(t) \/ DiscardGone(t) \/ ReadEof(t) \/ Timeout(t)
    BY <2>2, <1>6 DEF DrainFail, DrainedGone, DiscardGone, TakeLine, ReadEof, Timeout, Sending
  <2>3. CASE Drained(t) \/ Discard(t)
    BY <2>3 DEF Drained, Discard, BeginRead
  <2> QED BY <1>3, <1>5, <1>7, <1>9, <2>1, <2>2, <2>3 DEF Proceed
<1>10. ASSUME NEW t \in Tasks, Cancel(t) PROVE Serial!Next \/ UNCHANGED <<lockq, log>>
  <2>1. CASE CancelSending(t)
    BY <2>1, <1>6 DEF CancelSending, Sending
  <2>2. CASE CancelConnectOrClose(t)
    BY <2>2 DEF CancelConnectOrClose
  <2> QED BY <1>5, <1>10, <2>1, <2>2 DEF Cancel
<1>11. ASSUME NEW s \in Sessions, Device(s) PROVE UNCHANGED <<lockq, log>>
  BY <1>11 DEF Device, DeviceAnswer, DeviceSilent, DevicePoisoned, DevicePush, DeviceHangup, tasks
<1> QED BY <1>1, <1>8, <1>9, <1>10, <1>11 DEF Next

(* transport.py:20-22 and 197-252 in one: callers are served one at a time  *)
(* in the order they asked for the lock, each call ends once, and an answer *)
(* is used once, on its own connection.                                    *)
THEOREM ImplementsSerialRequests == Spec => ServesSerially
<1>1. Init => Serial!Init
  BY DEF Init, Serial!Init
<1>2. Init => QInv
  BY DEF Init, QInv
<1> QED BY <1>1, <1>2, SerialStep, IInvInit, IInvNext, RInvInit, RInvNext, QInvNext, PTL
        DEF Spec, ServesSerially, Serial!Spec

=============================================================================
