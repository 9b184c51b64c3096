---------------------------- MODULE Client_proofs ----------------------------
(***************************************************************************)
(* The calls of the client, for any number of tasks, commands, connections  *)
(* and lines: one connection, one login, one repetition; and, with two calls *)
(* of the transport made in one step, what its callers are promised still.   *)
(***************************************************************************)
EXTENDS Client, Transport_proofs, FiniteSetTheorems

StartSteps == {"connecting", "failing", "refusing"}

(* Where a task is in the client's code tells where it is in the            *)
(* transport's, and bounds how often it has tried.                         *)
Place(t) ==
    /\ step[t] = "idle"         => pc[t] = "idle" /\ tries[t] = 0
    /\ step[t] = "sending"      => pc[t] \in {"waiting", "writing", "reading"} /\ tries[t] \in 1 .. 2
    /\ step[t] = "reconnecting" => pc[t] \in {"idle", "opening", "login"} /\ tries[t] \in 0 .. 1
    /\ step[t] = "resend"       => pc[t] = "idle" /\ tries[t] \in 0 .. 1
    /\ step[t] = "connecting"   => pc[t] \in {"opening", "login"} /\ tries[t] = 0
    /\ step[t] \in {"failing", "refusing", "closing"} => pc[t] = "exiting" /\ tries[t] = 0

(* A first connect() has the client for itself, and its handles.            *)
Start(t) ==
    /\ step[t] \in StartSteps => \A u \in Tasks \ {t} : step[u] = "idle"
    /\ step[t] = "connecting" => ~closed /\ (pc[t] = "login" => session # 0)

(* A task in the connect() of a reconnect holds the reconnect lock, and has *)
(* closed the transport before.                                             *)
Held(t) ==
    step[t] = "reconnecting" /\ pc[t] # "idle" =>
        closed /\ rlockq # <<>> /\ Head(rlockq) = t

PlaceInv == \A t \in Tasks : Place(t) /\ Start(t) /\ Held(t)

(* The reconnect lock holds the tasks that reconnect, each of them once.    *)
RLockInv ==
    /\ \A i \in 1 .. Len(rlockq) : step[rlockq[i]] = "reconnecting"
    /\ \A i, j \in 1 .. Len(rlockq) : rlockq[i] = rlockq[j] => i = j
    /\ \A t \in Tasks : step[t] = "reconnecting" => \E i \in 1 .. Len(rlockq) : rlockq[i] = t

(* A connection that is up is the one of the handles, and there is none     *)
(* when one is being opened.                                                *)
LiveInv ==
    /\ \A s \in Sessions : stage[s] \in Live => s = session
    /\ \A t \in Tasks : pc[t] = "opening" => session = 0

(* A call has written no more lines than it has tries, one less while it    *)
(* waits for the lock, and all but the one in flight were given up.         *)
Wrote(t) ==
    Calling(t) =>
        /\ IsFiniteSet(Written(t))
        /\ Cardinality(Written(t)) <= tries[t]
        /\ pc[t] = "waiting" => Cardinality(Written(t)) < tries[t]
        /\ \A n \in Written(t) :
             /\ log[n].cmd = line[t]
             /\ Sending(t) /\ n = mine[t] => log[n].fate = "open"
             /\ ~(Sending(t) /\ n = mine[t]) => log[n].fate = "abandoned"
        /\ step[t] = "sending" => cmd[t] = line[t]

WroteInv == \A t \in Tasks : Wrote(t)

CallInv == CTypeOK /\ PlaceInv /\ RLockInv /\ LiveInv

CInv == CallInv /\ IInv /\ WroteInv

-----------------------------------------------------------------------------
(* What a step of one task leaves alone.                                    *)

ClientStep(t) == ClientCall(t) \/ ClientProceeds(t) \/ CancelCall(t)

LEMMA CallTyped ==
    ASSUME CTypeOK
    PROVE  /\ pc \in [Tasks -> PCs] /\ cmd \in [Tasks -> Commands] /\ mine \in [Tasks -> Nat]
           /\ step \in [Tasks -> Steps] /\ line \in [Tasks -> Commands]
           /\ tries \in [Tasks -> 0 .. 2] /\ from \in [Tasks -> Nat]
           /\ relogged \in [Tasks -> 0 .. MaxSessions]
           /\ rlockq \in Seq(Tasks) /\ Len(rlockq) \in Nat /\ DOMAIN rlockq = 1 .. Len(rlockq)
           /\ \A i \in 1 .. Len(rlockq) : rlockq[i] \in Tasks
           /\ closed \in BOOLEAN /\ MaxSessions \in Nat /\ session \in 0 .. MaxSessions
           /\ NoCommand \in Commands
<1>1. rlockq \in Seq(Tasks)
  BY DEF CTypeOK
<1>2. /\ Len(rlockq) \in Nat /\ DOMAIN rlockq = 1 .. Len(rlockq)
      /\ \A i \in 1 .. Len(rlockq) : rlockq[i] \in Tasks
  BY <1>1, LenProperties, ElementOfSeq
<1>3. NoCommand \in Commands
  BY CommandsAssumption DEF NoCommand
<1> QED BY <1>1, <1>2, <1>3, BoundsAssumption DEF CTypeOK, TypeOK

OthersWait(t) == \A u \in Tasks \ {t} :
    pc'[u] = pc[u] /\ cmd'[u] = cmd[u] /\ mine'[u] = mine[u]

OthersStay(t) == \A u \in Tasks \ {t} :
    step'[u] = step[u] /\ line'[u] = line[u] /\ tries'[u] = tries[u] /\ from'[u] = from[u]

LEMMA TransportOthers ==
    ASSUME CTypeOK, NEW t \in Tasks, Call(t) \/ Proceed(t) \/ Cancel(t)
    PROVE  OthersWait(t)
<1>1. /\ pc \in [Tasks -> PCs] /\ cmd \in [Tasks -> Commands] /\ mine \in [Tasks -> Nat]
  BY CallTyped
<1>2. ASSUME Return(t) PROVE OthersWait(t)
  BY <1>1, <1>2 DEF Return, OthersWait
<1>3. ASSUME NEW p, pc' = [pc EXCEPT ![t] = p], UNCHANGED <<cmd, mine>>
      PROVE  OthersWait(t)
  BY <1>1, <1>3 DEF OthersWait
<1>4. ASSUME NEW c, Write(t, c), UNCHANGED cmd \/ cmd' = [cmd EXCEPT ![t] = c]
      PROVE  OthersWait(t)
  BY <1>1, <1>4 DEF Write, OthersWait
<1>5. ASSUME NEW fate, NEW by, Settle(t, fate, by) PROVE OthersWait(t)
  BY <1>2, <1>5 DEF Settle
<1>6. CASE Call(t)
  <2>1. CASE ConnectStart(t) \/ CloseStart(t)
    BY <1>3, <2>1 DEF ConnectStart, CloseStart, SayExit
  <2>2. CASE CloseQuiet(t)
    BY <1>2, <2>2 DEF CloseQuiet, Shut
  <2>3. CASE SendRefused(t)
    BY <2>3 DEF SendRefused, vars, OthersWait
  <2>4. CASE \E c \in Commands : SendNow(t, c)
    BY <1>4, <2>4 DEF SendNow
  <2>5. CASE \E c \in Commands : SendWait(t, c)
    BY <1>1, <2>5 DEF SendWait, OthersWait
  <2> QED BY <1>6, <2>1, <2>2, <2>3, <2>4, <2>5 DEF Call
<1>7. CASE Proceed(t)
  <2>1. CASE OpenFail(t) \/ LoginOk(t) \/ CloseFinish(t) \/ AcquireGone(t)
    BY <1>2, <2>1 DEF OpenFail, LoginOk, CloseFinish, AcquireGone, Shut
  <2>2. CASE OpenOk(t)
    BY <1>3, <2>2 DEF OpenOk
  <2>3. CASE \E e \in LoginErrors : LoginFail(t, e)
    BY <1>2, <1>3, <2>3 DEF LoginFail, SayExit, Shut
  <2>4. CASE Acquire(t)
    BY <1>4, <2>4 DEF Acquire
  <2>5. CASE DrainFail(t) \/ DrainedGone(t) \/ Reply(t) \/ DiscardGone(t) \/ ReadEof(t) \/ Timeout(t)
    BY <1>5, <2>5 DEF DrainFail, DrainedGone, Reply, DiscardGone, ReadEof, Timeout, Abandon
  <2>6. CASE Drained(t) \/ Discard(t)
    BY <1>3, <2>6 DEF Drained, Discard, BeginRead
  <2> QED BY <1>7, <2>1, <2>2, <2>3, <2>4, <2>5, <2>6 DEF Proceed
<1>8. CASE Cancel(t)
  BY <1>2, <1>5, <1>8 DEF Cancel, CancelConnectOrClose, CancelWaiting, CancelSending, Abandon
<1> QED BY <1>6, <1>7, <1>8

(* Every step of the client's is one of the transport's, or none, but for   *)
(* the close() and connect() that _reconnect() makes of one step.           *)
LEMMA UsesTransport ==
    ASSUME CTypeOK, NEW t \in Tasks, ClientStep(t)
    PROVE  \/ Call(t) \/ Proceed(t) \/ Cancel(t)
           \/ UNCHANGED vars \/ Reopen(t)
<1>1. CASE ClientCall(t)
  BY <1>1 DEF ClientCall, UserConnect, UserClose, SendFirst, SendOffline, Call
<1>2. CASE ClientProceeds(t)
  <2>1. CASE UserConnected(t) \/ UserConnectFails(t) \/ UserConnectRaises(t) \/ UserClosed(t)
    BY <2>1 DEF UserConnected, UserConnectFails, UserConnectRaises, UserClosed, Proceed
  <2>2. CASE SendAgain(t) \/ SendAgainRefused(t) \/ SendOn(t)
    <3>1. CASE SendAgain(t)
      <4>1. line[t] \in Commands
        BY CallTyped
      <4> QED BY <3>1, <4>1 DEF SendAgain, Call
    <3>2. CASE SendAgainRefused(t)
      BY <3>2 DEF SendAgainRefused
    <3>3. CASE SendOn(t)
      BY <3>3 DEF SendOn, Proceed
    <3> QED BY <2>2, <3>1, <3>2, <3>3
  <2>3. CASE SendAnswered(t) \/ SendDropped(t) \/ SendCrashed(t)
    BY <2>3 DEF SendAnswered, SendDropped, SendCrashed, Proceed
  <2>4. CASE ReconnectFound(t) \/ ReconnectLocked(t) \/ Reopen(t) \/ Opened(t)
    BY <2>4 DEF ReconnectFound, ReconnectLocked, Opened, Proceed, Call
  <2>5. CASE ReconnectOk(t) \/ ReconnectFails(t)
    BY <2>5 DEF ReconnectOk, ReconnectFails, Proceed
  <2> QED BY <1>2, <2>1, <2>2, <2>3, <2>4, <2>5 DEF ClientProceeds
<1>3. CASE CancelCall(t)
  BY <1>3 DEF CancelCall, Interrupted
<1> QED BY <1>1, <1>2, <1>3 DEF ClientStep

LEMMA ReopenShape ==
    ASSUME CTypeOK, NEW t \in Tasks, Reopen(t)
    PROVE  /\ OthersWait(t) /\ pc'[t] = "opening" /\ closed' = TRUE /\ session' = 0
           /\ stage' = [stage EXCEPT ![session] = "ended"]
           /\ UNCHANGED <<wire, lockq, cmd, at, mine, log, pushes, cvars>>
BY CallTyped DEF Reopen, OthersWait

LEMMA WaitStep ==
    ASSUME CTypeOK, NEW t \in Tasks, ClientStep(t)
    PROVE  OthersWait(t)
<1>1. CASE UNCHANGED vars
  BY <1>1 DEF vars, OthersWait
<1> QED BY <1>1, UsesTransport, TransportOthers, ReopenShape

LEMMA DoneShape ==
    ASSUME CTypeOK, NEW t \in Tasks, NEW failed \in BOOLEAN, Done(t, failed)
    PROVE  /\ OthersStay(t) /\ step'[t] = "idle" /\ tries'[t] = 0
           /\ step' \in [Tasks -> Steps] /\ line' \in [Tasks -> Commands]
           /\ tries' \in [Tasks -> 0 .. 2] /\ from' \in [Tasks -> Nat]
           /\ relogged' \in [Tasks -> 0 .. MaxSessions] /\ UNCHANGED shutdown
<1>1. from' \in [Tasks -> Nat] /\ \A u \in Tasks \ {t} : from'[u] = from[u]
  BY CallTyped DEF Done
<1>2. relogged' \in [Tasks -> 0 .. MaxSessions]
  BY CallTyped DEF Done
<1> QED BY <1>1, <1>2, CallTyped DEF Done, Goto, OthersStay, Steps

LEMMA GotoShape ==
    ASSUME CTypeOK, NEW t \in Tasks, NEW s \in Steps, Goto(t, s)
    PROVE  /\ step'[t] = s /\ step' \in [Tasks -> Steps]
           /\ \A u \in Tasks \ {t} : step'[u] = step[u]
BY CallTyped DEF Goto

LEMMA AskShape ==
    ASSUME CTypeOK, NEW t \in Tasks, AskReconnect(t)
    PROVE  /\ step'[t] = "reconnecting" /\ step' \in [Tasks -> Steps]
           /\ \A u \in Tasks \ {t} : step'[u] = step[u]
           /\ rlockq' = Append(rlockq, t)
BY CallTyped DEF AskReconnect, Goto, Steps

LEMMA ErrorShape ==
    ASSUME CTypeOK, NEW t \in Tasks, NEW n \in 0 .. 2, ConnectionErrorAt(t, n)
    PROVE  /\ OthersStay(t) /\ step' \in [Tasks -> Steps] /\ line' \in [Tasks -> Commands]
           /\ tries' \in [Tasks -> 0 .. 2] /\ from' \in [Tasks -> Nat]
           /\ relogged' \in [Tasks -> 0 .. MaxSessions] /\ UNCHANGED shutdown
           /\ \/ /\ n = 1 /\ step'[t] = "reconnecting" /\ tries'[t] = 1
                 /\ rlockq' = Append(rlockq, t) /\ UNCHANGED <<line, from>>
              \/ n = 2 /\ step'[t] = "idle" /\ tries'[t] = 0 /\ UNCHANGED rlockq
<1>1. CASE n = 1 /\ AskReconnect(t) /\ tries' = [tries EXCEPT ![t] = n]
           /\ UNCHANGED <<line, shutdown, from, relogged>>
  BY <1>1, AskShape, CallTyped DEF OthersStay
<1>2. CASE n = 2 /\ Done(t, TRUE) /\ UNCHANGED rlockq
  BY <1>2, DoneShape
<1> QED BY <1>1, <1>2 DEF ConnectionErrorAt

LEMMA BeginShape ==
    ASSUME CTypeOK, NEW t \in Tasks, NEW c \in Commands, Begin(t, c)
    PROVE  /\ step[t] = "idle" /\ line'[t] = c /\ from'[t] = Len(log)
           /\ line' \in [Tasks -> Commands] /\ from' \in [Tasks -> Nat]
           /\ relogged' \in [Tasks -> 0 .. MaxSessions]
           /\ \A u \in Tasks \ {t} : line'[u] = line[u] /\ from'[u] = from[u]
           /\ UNCHANGED <<locked, shutdown>>
<1>1. Len(log) \in Nat
  BY LenProperties DEF CTypeOK, TypeOK
<1> QED BY <1>1, CallTyped DEF Begin

(* While one task makes a first connection the others have nothing to do.   *)
ActsAlone(t) == \A u \in Tasks \ {t} : step[u] \notin StartSteps

LEMMA StepsAlone ==
    ASSUME PlaceInv, NEW t \in Tasks, ClientStep(t)
    PROVE  ActsAlone(t)
<1>1. CASE step[t] # "idle"
  BY <1>1 DEF PlaceInv, Start, ActsAlone, StartSteps
<1>2. CASE ~Starting
  BY <1>2 DEF Starting, ActsAlone, StartSteps
<1>3. CASE \A u \in Tasks : step[u] = "idle"
  BY <1>3 DEF ActsAlone, StartSteps
<1>4. CASE ClientCall(t)
  BY <1>2, <1>3, <1>4 DEF ClientCall, UserConnect, UserClose, SendFirst, SendOffline, Begin
<1>5. CASE Opened(t)
  <2>1. pc[t] = "opening"
    BY <1>5 DEF Opened, OpenOk
  <2> QED BY <2>1, <1>1 DEF PlaceInv, Place
<1>6. CASE ClientProceeds(t) /\ ~Opened(t)
  BY <1>1, <1>6 DEF ClientProceeds, UserConnected, UserConnectFails, UserConnectRaises, UserClosed,
       SendAgain, SendAgainRefused, SendOn, SendAnswered, SendDropped, SendCrashed,
       ReconnectFound, ReconnectLocked, Reopen, ReconnectOk, ReconnectFails, InReconnect
<1>7. CASE CancelCall(t)
  BY <1>1, <1>7 DEF CancelCall
<1> QED BY <1>4, <1>5, <1>6, <1>7 DEF ClientStep

-----------------------------------------------------------------------------
(* The transport's own invariant survives the client's steps.               *)

LEMMA TransportKept ==
    ASSUME CTypeOK, IInv, PlaceInv,
           \/ \E t \in Tasks : ClientStep(t)
           \/ \E s \in Sessions : Device(s) /\ UNCHANGED cvars
           \/ CooldownEnds
    PROVE  IInv'
<1>1. CASE CooldownEnds \/ \E s \in Sessions : Device(s) /\ UNCHANGED cvars
  BY <1>1, IInvNext DEF CooldownEnds, Next
<1>2. ASSUME NEW t \in Tasks, ClientStep(t), ~Reopen(t) PROVE IInv'
  BY <1>2, UsesTransport, IInvNext DEF Next
<1>3. ASSUME NEW t \in Tasks, Reopen(t) PROVE IInv'
  <2>1. pc[t] = "idle" /\ pc' = [pc EXCEPT ![t] = "opening"]
    BY <1>3 DEF Reopen, InReconnect
  <2>2. TypeOK'
    <3>1. stage' \in [0 .. MaxSessions -> Stages] /\ session' \in 0 .. MaxSessions
      BY <1>3, BoundsAssumption DEF Reopen, IInv, TypeOK, Stages
    <3> QED BY <1>3, <2>1, <3>1 DEF Reopen, IInv, TypeOK, PCs, wire
  <2>3. LockInv'
    <3>1. ASSUME NEW u \in Tasks
          PROVE  /\ Sending(u)' => (Sending(u) /\ mine'[u] = mine[u])
                 /\ pc'[u] = "waiting" => pc[u] = "waiting"
      BY <1>3, <2>1 DEF Reopen, Sending, IInv, TypeOK
    <3> QED BY <1>3, <3>1, LockKept DEF Reopen, IInv
  <2>4. WireInv'
    BY <1>3, WireKept DEF Reopen, wire
  <2> QED BY <2>2, <2>3, <2>4 DEF IInv
<1> QED BY <1>1, <1>2, <1>3

-----------------------------------------------------------------------------
(* What a step of task t may do: to the reconnect lock, to the connections, *)
(* and to its own place.                                                    *)

LockMoves(t) ==
    \/ UNCHANGED rlockq /\ (step'[t] = "reconnecting" <=> step[t] = "reconnecting")
    \/ /\ rlockq' = Append(rlockq, t)
       /\ step[t] # "reconnecting" /\ step'[t] = "reconnecting"
    \/ /\ \E i \in 1 .. Len(rlockq) : rlockq[i] = t /\ rlockq' = RemoveAt(rlockq, i)
       /\ step'[t] # "reconnecting"

LinkMoves(t) ==
    \/ /\ UNCHANGED session
       /\ \A s \in Sessions : stage'[s] \in Live => stage[s] \in Live
       /\ pc'[t] = "opening" => pc[t] = "opening" \/ session = 0
    \/ session' = 0 /\ stage' = [stage EXCEPT ![session] = "ended"]
    \/ OpenOk(t)

CallTypes ==
    /\ step \in [Tasks -> Steps] /\ line \in [Tasks -> Commands]
    /\ tries \in [Tasks -> 0 .. 2] /\ from \in [Tasks -> Nat]
    /\ relogged \in [Tasks -> 0 .. MaxSessions]
    /\ locked \in BOOLEAN /\ shutdown \in BOOLEAN

Moves(t) ==
    /\ CallTypes' /\ OthersStay(t)
    /\ Place(t)' /\ Start(t)' /\ Held(t)'
    /\ closed' = closed \/ closed' = TRUE
    /\ LockMoves(t) /\ LinkMoves(t)

LEMMA TypesBefore == ASSUME CTypeOK PROVE CallTypes
BY DEF CTypeOK, CallTypes

(* The head of the reconnect lock leaves it.                                *)
LEMMA HeadLeaves ==
    ASSUME CallInv, NEW t \in Tasks, step[t] = "reconnecting", Head(rlockq) = t,
           rlockq' = Tail(rlockq)
    PROVE  \E i \in 1 .. Len(rlockq) : rlockq[i] = t /\ rlockq' = RemoveAt(rlockq, i)
<1>1. \E i \in 1 .. Len(rlockq) : rlockq[i] = t
  BY DEF CallInv, RLockInv
<1>2. rlockq \in Seq(Tasks) /\ rlockq # <<>>
  <2>1. rlockq \in Seq(Tasks) /\ Len(rlockq) # 0
    BY <1>1, CallTyped DEF CallInv
  <2> QED BY <2>1
<1> QED BY <1>2, TailIsRemoval

LEMMA LockMovesStep ==
    ASSUME CTypeOK, RLockInv, NEW t \in Tasks, OthersStay(t), LockMoves(t)
    PROVE  /\ RLockInv' /\ rlockq' \in Seq(Tasks)
           /\ \A u \in Tasks \ {t} : rlockq # <<>> /\ Head(rlockq) = u =>
                rlockq' # <<>> /\ Head(rlockq') = u
<1> DEFINE R == "reconnecting"
<1>1. /\ rlockq \in Seq(Tasks) /\ Len(rlockq) \in Nat
      /\ \A i \in 1 .. Len(rlockq) : rlockq[i] \in Tasks /\ step[rlockq[i]] = R
      /\ \A u \in Tasks \ {t} : step'[u] = step[u]
      /\ \A i, j \in 1 .. Len(rlockq) : rlockq[i] = rlockq[j] => i = j
      /\ \A u \in Tasks : step[u] = R => \E i \in 1 .. Len(rlockq) : rlockq[i] = u
  BY CallTyped DEF RLockInv, OthersStay
<1>2. CASE UNCHANGED rlockq /\ (step'[t] = R <=> step[t] = R)
  <2>1. \A u \in Tasks : step'[u] = R <=> step[u] = R
    BY <1>1, <1>2
  <2> QED BY <1>1, <1>2, <2>1 DEF RLockInv
<1>3. CASE rlockq' = Append(rlockq, t) /\ step[t] # R /\ step'[t] = R
  <2>1. /\ rlockq' \in Seq(Tasks) /\ Len(rlockq') = Len(rlockq) + 1
        /\ \A i \in 1 .. Len(rlockq) : rlockq'[i] = rlockq[i]
        /\ rlockq'[Len(rlockq) + 1] = t
    BY <1>1, <1>3, AppendProperties
  <2>2. \A i \in 1 .. Len(rlockq) : rlockq[i] # t
    BY <1>1, <1>3
  <2>3. \A i \in 1 .. Len(rlockq') : i \in 1 .. Len(rlockq) \/ i = Len(rlockq) + 1
    BY <1>1, <2>1
  <2>4. ASSUME NEW i \in 1 .. Len(rlockq') PROVE step'[rlockq'[i]] = R
    BY <1>1, <1>3, <2>1, <2>2, <2>3
  <2>5. \A i, j \in 1 .. Len(rlockq') : rlockq'[i] = rlockq'[j] => i = j
    BY <1>1, <2>1, <2>2, <2>3
  <2>6. ASSUME NEW u \in Tasks, step'[u] = R
        PROVE  \E i \in 1 .. Len(rlockq') : rlockq'[i] = u
    <3>1. CASE u = t
      BY <1>1, <2>1, <3>1
    <3>2. CASE u # t
      <4>1. PICK i \in 1 .. Len(rlockq) : rlockq[i] = u
        BY <1>1, <2>6, <3>2
      <4>2. i \in 1 .. Len(rlockq') /\ rlockq'[i] = u
        BY <1>1, <2>1, <4>1
      <4> QED BY <4>2
    <3> QED BY <3>1, <3>2
  <2>7. ASSUME NEW u \in Tasks, rlockq # <<>>, Head(rlockq) = u
        PROVE  rlockq' # <<>> /\ Head(rlockq') = u
    BY <1>1, <1>3, <2>7, HeadTailAppend, AppendProperties
  <2> QED BY <2>1, <2>4, <2>5, <2>6, <2>7 DEF RLockInv
<1>4. CASE /\ \E i \in 1 .. Len(rlockq) : rlockq[i] = t /\ rlockq' = RemoveAt(rlockq, i)
           /\ step'[t] # R
  <2>1. PICK i \in 1 .. Len(rlockq) : rlockq[i] = t /\ rlockq' = RemoveAt(rlockq, i)
    BY <1>4
  <2>2. /\ rlockq' \in Seq(Tasks) /\ Len(rlockq') = Len(rlockq) - 1
        /\ \A j \in 1 .. Len(rlockq) - 1 :
             rlockq'[j] = IF j < i THEN rlockq[j] ELSE rlockq[j + 1]
    <3>1. rlockq \in Seq(Tasks) /\ i \in 1 .. Len(rlockq)
      BY <1>1, <2>1
    <3>2. /\ RemoveAt(rlockq, i) \in Seq(Tasks) /\ Len(RemoveAt(rlockq, i)) = Len(rlockq) - 1
          /\ \A j \in 1 .. Len(rlockq) - 1 :
               RemoveAt(rlockq, i)[j] = IF j < i THEN rlockq[j] ELSE rlockq[j + 1]
      BY <3>1, RemoveAtFacts
    <3> QED BY <2>1, <3>2
  <2> DEFINE old(j) == IF j < i THEN j ELSE j + 1
  <2>3. ASSUME NEW j \in 1 .. Len(rlockq')
        PROVE  old(j) \in 1 .. Len(rlockq) /\ old(j) # i /\ rlockq'[j] = rlockq[old(j)]
    BY <1>1, <2>2
  <2>4. \A j, k \in 1 .. Len(rlockq') : old(j) = old(k) => j = k
    BY <1>1, <2>2
  <2>5. ASSUME NEW j \in 1 .. Len(rlockq), j # i
        PROVE  \E k \in 1 .. Len(rlockq') : old(k) = j
    <3>1. CASE j < i
      <4>1. j \in 1 .. Len(rlockq') /\ old(j) = j
        BY <1>1, <2>1, <2>2, <3>1
      <4> QED BY <4>1
    <3>2. CASE j > i
      <4>1. j - 1 \in 1 .. Len(rlockq') /\ old(j - 1) = j
        BY <1>1, <2>1, <2>2, <3>2
      <4> QED BY <4>1
    <3> QED BY <2>5, <3>1, <3>2
  <2>6. i # 1 => 1 \in 1 .. Len(rlockq') /\ old(1) = 1
    BY <1>1, <2>1, <2>2
  <2> HIDE DEF old
  <2>7. ASSUME NEW j \in 1 .. Len(rlockq') PROVE step'[rlockq'[j]] = R
    <3>1. rlockq[old(j)] # t
      BY <1>1, <2>1, <2>3
    <3> QED BY <1>1, <2>3, <3>1
  <2>8. \A j, k \in 1 .. Len(rlockq') : rlockq'[j] = rlockq'[k] => j = k
    BY <1>1, <2>3, <2>4
  <2>9. ASSUME NEW u \in Tasks, step'[u] = R
        PROVE  \E j \in 1 .. Len(rlockq') : rlockq'[j] = u
    <3>1. u # t /\ step[u] = R
      BY <1>1, <1>4, <2>9
    <3>2. PICK j \in 1 .. Len(rlockq) : rlockq[j] = u
      BY <1>1, <3>1
    <3>3. PICK k \in 1 .. Len(rlockq') : old(k) = j
      BY <2>1, <2>5, <3>1, <3>2
    <3> QED BY <2>3, <3>2, <3>3
  <2>10. ASSUME NEW u \in Tasks \ {t}, rlockq # <<>>, Head(rlockq) = u
         PROVE  rlockq' # <<>> /\ Head(rlockq') = u
    <3>1. rlockq[1] = u /\ i # 1
      BY <1>1, <2>1, <2>10
    <3>2. rlockq'[1] = u /\ Len(rlockq') # 0
      BY <2>2, <2>3, <2>6, <3>1
    <3> QED BY <2>2, <3>2
  <2> QED BY <2>2, <2>7, <2>8, <2>9, <2>10 DEF RLockInv
<1> QED BY <1>2, <1>3, <1>4 DEF LockMoves

(* Two tasks are never in a connect() at the same time.                     *)
LEMMA LoginsAlone == ASSUME CTypeOK, PlaceInv PROVE OneLogin
<1>1. ASSUME NEW t \in Tasks, NEW u \in Tasks, pc[t] \in {"opening", "login"},
             pc[u] \in {"opening", "login"}
      PROVE  t = u
  <2>1. \A v \in {t, u} : step[v] = "connecting" \/ (step[v] = "reconnecting" /\ Head(rlockq) = v)
    <3>1. ASSUME NEW v \in {t, u}
          PROVE  step[v] = "connecting" \/ (step[v] = "reconnecting" /\ Head(rlockq) = v)
      <4>1. pc[v] \in {"opening", "login"} /\ Place(v) /\ Held(v) /\ step[v] \in Steps
        BY <1>1, CallTyped DEF PlaceInv
      <4> QED BY <4>1 DEF Place, Held, Steps
    <3> QED BY <3>1
  <2> QED BY <2>1 DEF PlaceInv, Start, StartSteps
<1> QED BY <1>1 DEF OneLogin

LEMMA MovesKeep ==
    ASSUME CallInv, IInv', NEW t \in Tasks, ClientStep(t), Moves(t)
    PROVE  CallInv'
<1>1. OthersWait(t) /\ OthersStay(t) /\ ActsAlone(t)
  BY WaitStep, StepsAlone DEF CallInv, Moves
<1>2. /\ RLockInv' /\ rlockq' \in Seq(Tasks)
      /\ \A u \in Tasks \ {t} : rlockq # <<>> /\ Head(rlockq) = u =>
           rlockq' # <<>> /\ Head(rlockq') = u
  BY <1>1, LockMovesStep DEF CallInv, Moves
<1>3. CTypeOK'
  BY <1>2 DEF Moves, CallTypes, CTypeOK, IInv
<1>4. PlaceInv'
  <2>1. ASSUME NEW u \in Tasks \ {t} PROVE Place(u)' /\ Start(u)' /\ Held(u)'
    <3>1. Place(u) /\ Start(u) /\ Held(u)
      BY DEF CallInv, PlaceInv
    <3>2. pc'[u] = pc[u] /\ step'[u] = step[u] /\ tries'[u] = tries[u] /\ step[u] \notin StartSteps
      BY <1>1 DEF OthersWait, OthersStay, ActsAlone
    <3>3. Place(u)'
      BY <3>1, <3>2 DEF Place
    <3>4. Start(u)'
      BY <3>2 DEF Start, StartSteps
    <3>5. Held(u)'
      BY <1>2, <3>1, <3>2 DEF Held, Moves
    <3> QED BY <3>3, <3>4, <3>5
  <2> QED BY <2>1 DEF Moves, PlaceInv
<1>5. LiveInv'
  <2>1. \A u \in Tasks \ {t} : pc'[u] = pc[u]
    BY <1>1 DEF OthersWait
  <2>2. CASE /\ UNCHANGED session
             /\ \A s \in Sessions : stage'[s] \in Live => stage[s] \in Live
             /\ pc'[t] = "opening" => pc[t] = "opening" \/ session = 0
    BY <2>1, <2>2 DEF CallInv, LiveInv
  <2>3. CASE session' = 0 /\ stage' = [stage EXCEPT ![session] = "ended"]
    <3>1. stage \in [0 .. MaxSessions -> Stages] /\ \A s \in Sessions : s \in 0 .. MaxSessions
      BY BoundsAssumption DEF CallInv, CTypeOK, TypeOK, Sessions
    <3>2. ASSUME NEW s \in Sessions PROVE stage'[s] \notin Live
      <4>1. CASE s = session
        BY <2>3, <3>1, <4>1 DEF Live
      <4>2. CASE s # session
        BY <2>3, <3>1, <4>2 DEF CallInv, LiveInv
      <4> QED BY <4>1, <4>2
    <3> QED BY <2>3, <3>2 DEF LiveInv
  <2>4. CASE OpenOk(t)
    <3>1. PICK s \in Sessions : session' = s /\ stage' = [stage EXCEPT ![s] = "login"]
      BY <2>4 DEF OpenOk
    <3>2. /\ pc[t] = "opening" /\ pc'[t] = "login"
          /\ \A u \in Tasks : pc'[u] # "opening"
      <4>1. pc[t] = "opening" /\ pc'[t] = "login"
        BY <2>4, CallTyped DEF OpenOk, CallInv
      <4> QED BY <2>1, <4>1, LoginsAlone DEF CallInv, OneLogin
    <3>3. session = 0
      BY <3>2 DEF CallInv, LiveInv
    <3>4. \A r \in Sessions : r # s => stage'[r] \notin Live
      <4>1. \A r \in Sessions : r # 0 /\ (r # s => stage'[r] = stage[r])
        BY <3>1, BoundsAssumption DEF CallInv, CTypeOK, TypeOK, Sessions
      <4> QED BY <3>3, <4>1 DEF CallInv, LiveInv
    <3> QED BY <3>1, <3>2, <3>4 DEF LiveInv
  <2> QED BY <2>2, <2>3, <2>4 DEF Moves, LinkMoves
<1> QED BY <1>2, <1>3, <1>4, <1>5 DEF CallInv


-----------------------------------------------------------------------------
(* Every step of a task moves as Moves(t) says.  First what many of them    *)
(* share.                                                                  *)

LEMMA LinkRests ==
    ASSUME NEW t \in Tasks, UNCHANGED link, pc'[t] # "opening"
    PROVE  LinkMoves(t) /\ UNCHANGED closed
BY DEF LinkMoves, link

LEMMA Returned == ASSUME CTypeOK, NEW t \in Tasks, Return(t) PROVE pc'[t] = "idle"
BY CallTyped DEF Return

LEMMA ShutMoves ==
    ASSUME CTypeOK, NEW t \in Tasks, Shut(t)
    PROVE  LinkMoves(t) /\ closed' = TRUE /\ pc'[t] = "idle"
BY Returned DEF Shut, LinkMoves

LEMMA ExitMoves ==
    ASSUME CTypeOK, NEW t \in Tasks, SayExit(t)
    PROVE  LinkMoves(t) /\ UNCHANGED closed /\ pc'[t] = "exiting"
<1>1. pc'[t] = "exiting" /\ UNCHANGED link
  BY CallTyped DEF SayExit
<1> QED BY <1>1, LinkRests

LEMMA LoginMoves ==
    ASSUME CTypeOK, NEW t \in Tasks, LoginOk(t)
    PROVE  LinkMoves(t) /\ UNCHANGED closed /\ pc'[t] = "idle" /\ session' = session
<1>1. stage \in [0 .. MaxSessions -> Stages] /\ stage[session] = "login"
      /\ stage' = [stage EXCEPT ![session] = "ready"] /\ UNCHANGED <<closed, session>>
  BY DEF CTypeOK, TypeOK, LoginOk
<1>2. pc'[t] = "idle"
  BY Returned DEF LoginOk
<1>3. \A s \in Sessions : stage'[s] \in Live => stage[s] \in Live
  BY <1>1, BoundsAssumption DEF Sessions, Live
<1> QED BY <1>1, <1>2, <1>3 DEF LinkMoves

LEMMA SettleMoves ==
    ASSUME CTypeOK, NEW t \in Tasks, NEW fate, NEW by, Settle(t, fate, by), UNCHANGED link
    PROVE  LinkMoves(t) /\ UNCHANGED closed /\ pc'[t] = "idle"
BY LinkRests, Returned DEF Settle

LEMMA GotoTyped ==
    ASSUME CTypeOK, NEW t \in Tasks, NEW s \in Steps, Goto(t, s), UNCHANGED call,
           locked' \in BOOLEAN, shutdown' \in BOOLEAN
    PROVE  CallTypes' /\ OthersStay(t) /\ step'[t] = s /\ tries'[t] = tries[t]
BY TypesBefore, GotoShape DEF CallTypes, OthersStay, call

LEMMA DoneMoves ==
    ASSUME CTypeOK, NEW t \in Tasks, NEW failed \in BOOLEAN, Done(t, failed),
           locked' \in BOOLEAN, pc'[t] = "idle", closed' = closed \/ closed' = TRUE,
           LinkMoves(t), LockMoves(t)
    PROVE  Moves(t)
<1>1. CallTypes' /\ OthersStay(t) /\ step'[t] = "idle" /\ tries'[t] = 0
  BY DoneShape, TypesBefore DEF CallTypes
<1>2. Place(t)' /\ Start(t)' /\ Held(t)'
  BY <1>1 DEF Place, Start, Held, StartSteps
<1> QED BY <1>1, <1>2 DEF Moves

LEMMA ErrorMoves ==
    ASSUME CTypeOK, NEW t \in Tasks, NEW n \in 1 .. 2, ConnectionErrorAt(t, n),
           step[t] # "reconnecting", UNCHANGED <<locked, closed>>, pc'[t] = "idle",
           LinkMoves(t)
    PROVE  Moves(t)
<1>1. /\ OthersStay(t) /\ CallTypes'
      /\ \/ /\ n = 1 /\ step'[t] = "reconnecting" /\ tries'[t] = 1
            /\ rlockq' = Append(rlockq, t)
         \/ n = 2 /\ step'[t] = "idle" /\ tries'[t] = 0 /\ UNCHANGED rlockq
  BY ErrorShape, TypesBefore DEF CallTypes
<1>2. LockMoves(t)
  BY <1>1 DEF LockMoves
<1>3. Place(t)' /\ Start(t)' /\ Held(t)'
  BY <1>1 DEF Place, Start, Held, StartSteps
<1> QED BY <1>1, <1>2, <1>3 DEF Moves

-----------------------------------------------------------------------------
(* connect() and close() of the user                                       *)

LEMMA UserMoves ==
    ASSUME CallInv, NEW t \in Tasks,
           \/ UserConnect(t) \/ UserConnected(t) \/ UserConnectFails(t)
           \/ UserConnectRaises(t) \/ UserClose(t) \/ UserClosed(t)
    PROVE  Moves(t)
<1> USE DEF CallInv
<1>1. Place(t) /\ Start(t) /\ CallTypes
  BY TypesBefore DEF PlaceInv
<1>2. ASSUME NEW s \in {"idle", "failing", "refusing", "closing"}, Goto(t, s), UNCHANGED call,
             locked' \in BOOLEAN, shutdown' \in BOOLEAN, UNCHANGED rlockq, step[t] # "reconnecting",
             tries[t] = 0, IF s = "idle" THEN pc'[t] = "idle" ELSE pc'[t] = "exiting",
             s \in StartSteps => step[t] \in StartSteps,
             LinkMoves(t), closed' = closed \/ closed' = TRUE
      PROVE  Moves(t)
  <2>1. CallTypes' /\ OthersStay(t) /\ step'[t] = s /\ tries'[t] = tries[t]
    BY <1>2, GotoTyped DEF Steps
  <2>2. Place(t)' /\ Held(t)'
    BY <1>2, <2>1 DEF Place, Held
  <2>3. Start(t)'
    BY <1>1, <1>2, <2>1 DEF Start, OthersStay
  <2>4. LockMoves(t)
    BY <1>2, <2>1 DEF LockMoves
  <2> QED BY <1>2, <2>1, <2>2, <2>3, <2>4 DEF Moves
<1>3. CASE UserConnect(t)
  <2>1. CallTypes' /\ OthersStay(t) /\ step'[t] = "connecting" /\ tries'[t] = tries[t]
    BY <1>1, <1>3, GotoTyped DEF UserConnect, Steps, CallTypes
  <2>2. /\ pc'[t] = "opening" /\ UNCHANGED <<closed, session, stage, rlockq>>
        /\ session = 0 /\ ~closed /\ step[t] = "idle"
        /\ \A u \in Tasks : step[u] = "idle"
    BY <1>3, CallTyped DEF UserConnect, ConnectStart, link
  <2>3. Place(t)' /\ Held(t)'
    BY <1>1, <2>1, <2>2 DEF Place, Held
  <2>4. Start(t)'
    BY <2>1, <2>2 DEF Start, OthersStay
  <2>5. LockMoves(t) /\ LinkMoves(t)
    BY <2>1, <2>2 DEF LockMoves, LinkMoves
  <2> QED BY <2>1, <2>2, <2>3, <2>4, <2>5 DEF Moves
<1>4. CASE UserConnected(t)
  <2>1. LinkMoves(t) /\ UNCHANGED closed /\ pc'[t] = "idle"
    BY <1>4, LoginMoves DEF UserConnected
  <2>2. step[t] = "connecting" /\ Goto(t, "idle") /\ UNCHANGED <<call, rlockq, locked, shutdown>>
    BY <1>4 DEF UserConnected
  <2>3. locked' \in BOOLEAN /\ shutdown' \in BOOLEAN
    BY <1>1, <2>2 DEF CallTypes
  <2> QED BY <1>1, <1>2, <2>1, <2>2, <2>3 DEF Place, StartSteps
<1>5. CASE UserConnectFails(t)
  <2>1. /\ step[t] = "connecting" /\ tries[t] = 0 /\ UNCHANGED <<call, rlockq, locked, shutdown>>
        /\ locked' \in BOOLEAN /\ shutdown' \in BOOLEAN
    BY <1>1, <1>5 DEF UserConnectFails, CallTypes, Place
  <2>2. CASE OpenFail(t) /\ Goto(t, "idle")
    <3>1. LinkMoves(t) /\ UNCHANGED closed /\ pc'[t] = "idle"
      BY <2>2, LinkRests, Returned DEF OpenFail
    <3> QED BY <1>2, <2>1, <2>2, <3>1 DEF StartSteps
  <2>3. ASSUME NEW e \in LoginErrors, LoginFail(t, e),
               Goto(t, IF e \in {"AuthError", "LockoutError"} THEN "refusing" ELSE "failing")
        PROVE  Moves(t)
    <3>1. IsConnected
      BY <1>1, <2>1, <2>3 DEF Start, LoginFail, IsConnected
    <3>2. LinkMoves(t) /\ UNCHANGED closed /\ pc'[t] = "exiting"
      BY <2>3, <3>1, ExitMoves DEF LoginFail
    <3>3. PICK s \in {"failing", "refusing"} : Goto(t, s)
      BY <2>3
    <3> QED BY <1>2, <2>1, <3>2, <3>3 DEF StartSteps
  <2> QED BY <1>5, <2>2, <2>3 DEF UserConnectFails
<1>6. CASE UserConnectRaises(t)
  <2>1. LinkMoves(t) /\ closed' = TRUE /\ pc'[t] = "idle"
    BY <1>6, ShutMoves DEF UserConnectRaises, CloseFinish
  <2>2. /\ step[t] \in {"failing", "refusing"} /\ tries[t] = 0 /\ Goto(t, "idle")
        /\ UNCHANGED <<call, rlockq, shutdown>>
    BY <1>1, <1>6 DEF UserConnectRaises, Place
  <2>3. locked' \in BOOLEAN
    BY <1>6 DEF UserConnectRaises
  <2>4. shutdown' \in BOOLEAN
    BY <1>1, <2>2 DEF CallTypes
  <2> QED BY <1>2, <2>1, <2>2, <2>3, <2>4 DEF StartSteps
<1>7. CASE UserClose(t)
  <2>1. /\ step[t] = "idle" /\ tries[t] = 0 /\ UNCHANGED <<call, rlockq, locked>>
        /\ locked' \in BOOLEAN /\ shutdown' \in BOOLEAN
    BY <1>1, <1>7 DEF UserClose, CallTypes, Place
  <2>2. CASE CloseStart(t) /\ Goto(t, "closing")
    <3>1. LinkMoves(t) /\ UNCHANGED closed /\ pc'[t] = "exiting"
      BY <2>2, ExitMoves DEF CloseStart
    <3> QED BY <1>2, <2>1, <2>2, <3>1 DEF StartSteps
  <2>3. CASE CloseQuiet(t) /\ UNCHANGED step
    <3>1. LinkMoves(t) /\ closed' = TRUE /\ pc'[t] = "idle"
      BY <2>3, ShutMoves DEF CloseQuiet
    <3>2. Goto(t, "idle")
      BY <2>1, <2>3, CallTyped DEF Goto
    <3> QED BY <1>2, <2>1, <3>1, <3>2 DEF StartSteps
  <2> QED BY <1>7, <2>2, <2>3 DEF UserClose
<1>8. CASE UserClosed(t)
  <2>1. LinkMoves(t) /\ closed' = TRUE /\ pc'[t] = "idle"
    BY <1>8, ShutMoves DEF UserClosed, CloseFinish
  <2>2. /\ step[t] = "closing" /\ tries[t] = 0 /\ Goto(t, "idle")
        /\ UNCHANGED <<call, rlockq, locked, shutdown>>
    BY <1>1, <1>8 DEF UserClosed, Place
  <2>3. locked' \in BOOLEAN /\ shutdown' \in BOOLEAN
    BY <1>1, <2>2 DEF CallTypes
  <2> QED BY <1>2, <2>1, <2>2, <2>3 DEF StartSteps
<1> QED BY <1>3, <1>4, <1>5, <1>6, <1>7, <1>8

-----------------------------------------------------------------------------
(* _send()                                                                 *)

LEMMA WriteMoves ==
    ASSUME CTypeOK, NEW t \in Tasks, NEW c \in Commands,
           SendNow(t, c) \/ SendWait(t, c) \/ Acquire(t)
    PROVE  /\ LinkMoves(t) /\ UNCHANGED closed /\ pc'[t] \in {"waiting", "writing"}
<1>1. pc'[t] \in {"waiting", "writing"} /\ UNCHANGED link
  BY CallTyped DEF SendNow, SendWait, Acquire, Write
<1> QED BY <1>1, LinkRests

LEMMA ReadMoves ==
    ASSUME CTypeOK, NEW t \in Tasks, Drained(t) \/ Discard(t)
    PROVE  LinkMoves(t) /\ UNCHANGED closed /\ pc'[t] = "reading"
<1>1. pc'[t] = "reading" /\ UNCHANGED link
  BY CallTyped DEF Drained, Discard, BeginRead
<1> QED BY <1>1, LinkRests

LEMMA BeginMoves ==
    ASSUME CallInv, NEW t \in Tasks, NEW c \in Commands, SendFirst(t, c) \/ SendOffline(t, c)
    PROVE  Moves(t)
<1>1. Place(t) /\ CTypeOK /\ CallTypes
  BY TypesBefore DEF CallInv, PlaceInv
<1>2. /\ step[t] = "idle" /\ line' \in [Tasks -> Commands] /\ from' \in [Tasks -> Nat]
      /\ relogged' \in [Tasks -> 0 .. MaxSessions]
      /\ \A u \in Tasks \ {t} : line'[u] = line[u] /\ from'[u] = from[u]
      /\ locked' \in BOOLEAN /\ shutdown' \in BOOLEAN
  <2>1. Begin(t, c)
    BY DEF SendFirst, SendOffline
  <2> QED BY <1>1, <2>1, BeginShape DEF CallTypes
<1>3. CASE SendFirst(t, c)
  <2>1. LinkMoves(t) /\ UNCHANGED closed /\ pc'[t] \in {"waiting", "writing"}
    BY <1>1, <1>3, WriteMoves DEF SendFirst
  <2>2. /\ step'[t] = "sending" /\ step' \in [Tasks -> Steps] /\ tries'[t] = 1
        /\ tries' \in [Tasks -> 0 .. 2]
        /\ \A u \in Tasks \ {t} : step'[u] = step[u] /\ tries'[u] = tries[u]
    BY <1>1, <1>3, CallTyped, GotoShape DEF SendFirst, Steps
  <2>3. Place(t)' /\ Start(t)' /\ Held(t)'
    BY <2>1, <2>2 DEF Place, Start, Held, StartSteps
  <2>4. LockMoves(t)
    BY <1>2, <1>3, <2>2 DEF SendFirst, LockMoves
  <2> QED BY <1>2, <2>1, <2>2, <2>3, <2>4 DEF Moves, CallTypes, OthersStay
<1>4. CASE SendOffline(t, c)
  <2>1. UNCHANGED link /\ pc'[t] = "idle" /\ tries'[t] = 0 /\ UNCHANGED tries
    BY <1>1, <1>2, <1>4 DEF SendOffline, vars, link, Place
  <2>2. LinkMoves(t) /\ UNCHANGED closed
    BY <2>1, LinkRests
  <2>3. /\ step'[t] = "reconnecting" /\ step' \in [Tasks -> Steps]
        /\ \A u \in Tasks \ {t} : step'[u] = step[u]
        /\ rlockq' = Append(rlockq, t)
    BY <1>1, <1>4, AskShape DEF SendOffline
  <2>4. Place(t)' /\ Start(t)' /\ Held(t)'
    BY <2>1, <2>3 DEF Place, Start, Held, StartSteps
  <2>5. LockMoves(t)
    BY <1>2, <2>3 DEF LockMoves
  <2> QED BY <1>1, <1>2, <2>1, <2>2, <2>3, <2>4, <2>5 DEF Moves, CallTypes, OthersStay
<1> QED BY <1>3, <1>4

LEMMA SendMoves ==
    ASSUME CallInv, IInv, NEW t \in Tasks,
           \/ SendAgain(t) \/ SendAgainRefused(t) \/ SendOn(t)
           \/ SendAnswered(t) \/ SendDropped(t) \/ SendCrashed(t)
    PROVE  Moves(t)
<1>1. Place(t) /\ Start(t) /\ CTypeOK /\ CallTypes /\ tries[t] \in 0 .. 2 /\ line[t] \in Commands
  BY TypesBefore, CallTyped DEF CallInv, PlaceInv
<1>2. CASE SendAgain(t)
  <2>1. LinkMoves(t) /\ UNCHANGED closed /\ pc'[t] \in {"waiting", "writing"}
    BY <1>1, <1>2, WriteMoves DEF SendAgain
  <2>2. step[t] = "resend" /\ tries[t] \in 0 .. 1
    BY <1>1, <1>2 DEF SendAgain, Place
  <2>3. /\ step'[t] = "sending" /\ step' \in [Tasks -> Steps] /\ tries'[t] \in 1 .. 2
        /\ tries' \in [Tasks -> 0 .. 2]
        /\ \A u \in Tasks \ {t} : step'[u] = step[u] /\ tries'[u] = tries[u]
    BY <1>1, <1>2, <2>2, CallTyped, GotoShape DEF SendAgain, Steps
  <2>4. Place(t)' /\ Start(t)' /\ Held(t)'
    BY <2>1, <2>3 DEF Place, Start, Held, StartSteps
  <2>5. UNCHANGED <<line, rlockq, locked, shutdown, from, relogged>>
    BY <1>2 DEF SendAgain
  <2>6. LockMoves(t)
    BY <2>2, <2>3, <2>5 DEF LockMoves
  <2> QED BY <1>1, <2>1, <2>3, <2>4, <2>5, <2>6 DEF Moves, CallTypes, OthersStay
<1>3. CASE SendAgainRefused(t)
  <2>1. step[t] = "resend" /\ tries[t] + 1 \in 1 .. 2 /\ pc[t] = "idle"
    BY <1>1, <1>3 DEF SendAgainRefused, Place
  <2>2. UNCHANGED link /\ pc'[t] = "idle" /\ UNCHANGED <<locked, closed>>
    BY <1>3, <2>1 DEF SendAgainRefused, vars, link
  <2>3. LinkMoves(t)
    BY <2>2, LinkRests
  <2> QED BY <1>1, <1>3, <2>1, <2>2, <2>3, ErrorMoves DEF SendAgainRefused
<1>4. CASE SendOn(t)
  <2>1. /\ step[t] = "sending" /\ tries[t] \in 1 .. 2 /\ UNCHANGED cvars
    BY <1>1, <1>4 DEF SendOn, Place
  <2>2. LinkMoves(t) /\ UNCHANGED closed /\ pc'[t] \in {"waiting", "writing", "reading"}
    BY <1>1, <1>4, WriteMoves, ReadMoves DEF SendOn
  <2>3. step'[t] = "sending" /\ tries'[t] \in 1 .. 2 /\ UNCHANGED rlockq
    BY <2>1 DEF cvars
  <2>4. Place(t)' /\ Start(t)' /\ Held(t)'
    BY <2>2, <2>3 DEF Place, Start, Held, StartSteps
  <2>5. CallTypes' /\ OthersStay(t)
    BY <1>1, <2>1 DEF cvars, CallTypes, OthersStay
  <2>6. LockMoves(t)
    BY <2>1, <2>3 DEF LockMoves
  <2> QED BY <2>2, <2>4, <2>5, <2>6 DEF Moves
<1>5. CASE SendAnswered(t)
  <2>1. LinkMoves(t) /\ UNCHANGED closed /\ pc'[t] = "idle"
    BY <1>1, <1>5, SettleMoves DEF SendAnswered, Reply
  <2>2. step[t] = "sending" /\ Done(t, FALSE) /\ UNCHANGED <<rlockq, locked>> /\ locked' \in BOOLEAN
    BY <1>1, <1>5 DEF SendAnswered, CallTypes
  <2>3. LockMoves(t)
    BY <1>1, <2>2, DoneShape DEF LockMoves
  <2> QED BY <1>1, <2>1, <2>2, <2>3, DoneMoves
<1>6. CASE SendDropped(t)
  <2>1. LinkMoves(t) /\ UNCHANGED closed /\ pc'[t] = "idle"
    BY <1>1, <1>6, SettleMoves DEF SendDropped, DrainFail, ReadEof, Timeout, Abandon
  <2>2. step[t] = "sending" /\ tries[t] \in 1 .. 2 /\ UNCHANGED locked
        /\ ConnectionErrorAt(t, tries[t])
    BY <1>1, <1>6 DEF SendDropped, Place
  <2> QED BY <1>1, <2>1, <2>2, ErrorMoves
<1>7. CASE SendCrashed(t)
  <2>1. LinkMoves(t) /\ UNCHANGED closed /\ pc'[t] = "idle"
    <3>1. CASE AcquireGone(t)
      BY <1>1, <3>1, LinkRests, Returned DEF AcquireGone
    <3>2. CASE DrainedGone(t) \/ DiscardGone(t)
      BY <1>1, <3>2, SettleMoves DEF DrainedGone, DiscardGone, Abandon
    <3> QED BY <1>7, <3>1, <3>2 DEF SendCrashed
  <2>2. step[t] = "sending" /\ Done(t, FALSE) /\ UNCHANGED <<rlockq, locked>> /\ locked' \in BOOLEAN
    BY <1>1, <1>7 DEF SendCrashed, CallTypes
  <2>3. LockMoves(t)
    BY <1>1, <2>2, DoneShape DEF LockMoves
  <2> QED BY <1>1, <2>1, <2>2, <2>3, DoneMoves
<1> QED BY <1>2, <1>3, <1>4, <1>5, <1>6, <1>7

-----------------------------------------------------------------------------
(* _reconnect(), and cancellation                                          *)

LEMMA ReconnectMoves ==
    ASSUME CallInv, NEW t \in Tasks,
           \/ ReconnectFound(t) \/ ReconnectLocked(t) \/ Reopen(t) \/ Opened(t)
           \/ ReconnectOk(t) \/ ReconnectFails(t)
    PROVE  Moves(t)
<1>1. Place(t) /\ Start(t) /\ Held(t) /\ CTypeOK /\ CallTypes /\ tries[t] \in 0 .. 2
  BY TypesBefore, CallTyped DEF CallInv, PlaceInv
<1>2. ASSUME step[t] = "reconnecting", Head(rlockq) = t, rlockq' = Tail(rlockq),
             step'[t] # "reconnecting"
      PROVE  LockMoves(t)
  BY <1>2, HeadLeaves DEF LockMoves
<1>3. CASE ReconnectFound(t)
  <2>1. /\ step[t] = "reconnecting" /\ pc[t] = "idle" /\ tries[t] \in 0 .. 1 /\ Head(rlockq) = t
        /\ rlockq' = Tail(rlockq) /\ Goto(t, "resend") /\ UNCHANGED <<vars, call, locked, shutdown>>
    BY <1>1, <1>3 DEF ReconnectFound, InReconnect, Place
  <2>2. CallTypes' /\ OthersStay(t) /\ step'[t] = "resend" /\ tries'[t] = tries[t]
    BY <1>1, <2>1, GotoTyped DEF Steps, CallTypes
  <2>3. UNCHANGED link /\ pc'[t] = "idle"
    BY <2>1 DEF vars, link
  <2>4. Place(t)' /\ Start(t)' /\ Held(t)'
    BY <2>1, <2>2, <2>3 DEF Place, Start, Held, StartSteps
  <2> QED BY <1>2, <2>1, <2>2, <2>3, <2>4, LinkRests DEF Moves
<1>4. CASE ReconnectLocked(t)
  <2>1. LinkMoves(t) /\ closed' = TRUE /\ pc'[t] = "idle"
    BY <1>1, <1>4, ShutMoves DEF ReconnectLocked, CloseQuiet
  <2>2. /\ step[t] = "reconnecting" /\ Head(rlockq) = t /\ rlockq' = Tail(rlockq)
        /\ Done(t, FALSE) /\ locked' \in BOOLEAN
    BY <1>1, <1>4 DEF ReconnectLocked, InReconnect, CallTypes
  <2>3. LockMoves(t)
    BY <1>1, <1>2, <2>2, DoneShape
  <2> QED BY <1>1, <2>1, <2>2, <2>3, DoneMoves
<1>5. CASE Reopen(t)
  <2>1. /\ step[t] = "reconnecting" /\ tries[t] \in 0 .. 1 /\ Head(rlockq) = t
    BY <1>1, <1>5 DEF Reopen, InReconnect, Place
  <2>2. rlockq # <<>>
    <3>1. \E i \in 1 .. Len(rlockq) : rlockq[i] = t
      BY <2>1 DEF CallInv, RLockInv
    <3>2. Len(rlockq) # 0 /\ rlockq \in Seq(Tasks)
      BY <1>1, <3>1, CallTyped
    <3> QED BY <3>2
  <2>3. /\ pc'[t] = "opening" /\ closed' = TRUE /\ session' = 0
        /\ stage' = [stage EXCEPT ![session] = "ended"]
        /\ step' = step /\ tries' = tries /\ rlockq' = rlockq /\ UNCHANGED cvars
    BY <1>1, <1>5, ReopenShape DEF cvars
  <2>4. Place(t)' /\ Start(t)' /\ Held(t)'
    BY <2>1, <2>2, <2>3 DEF Place, Start, Held, StartSteps
  <2>5. CallTypes' /\ OthersStay(t)
    BY <1>1, <2>3 DEF cvars, CallTypes, OthersStay
  <2> QED BY <2>3, <2>4, <2>5 DEF Moves, LockMoves, LinkMoves
<1>6. CASE Opened(t)
  <2>1. /\ pc[t] = "opening" /\ pc'[t] = "login" /\ session' \in Sessions /\ UNCHANGED closed
        /\ UNCHANGED cvars /\ OpenOk(t)
    BY <1>1, <1>6, CallTyped DEF Opened, OpenOk
  <2>2. step[t] \in {"connecting", "reconnecting"} /\ step[t] \in Steps
    BY <1>1, <2>1, CallTyped DEF Place, Steps
  <2>3. step' = step /\ tries' = tries /\ rlockq' = rlockq
    BY <2>1 DEF cvars
  <2>4. Place(t)'
    BY <1>1, <2>1, <2>2, <2>3 DEF Place
  <2>5. Start(t)'
    BY <1>1, <2>1, <2>3 DEF Start, Sessions
  <2>6. Held(t)'
    BY <1>1, <2>1, <2>3 DEF Held
  <2>7. CallTypes' /\ OthersStay(t)
    BY <1>1, <2>1 DEF cvars, CallTypes, OthersStay
  <2> QED BY <2>1, <2>3, <2>4, <2>5, <2>6, <2>7 DEF Moves, LockMoves, LinkMoves
<1>7. CASE ReconnectOk(t)
  <2>1. LinkMoves(t) /\ UNCHANGED closed /\ pc'[t] = "idle"
    BY <1>1, <1>7, LoginMoves DEF ReconnectOk
  <2>2. /\ step[t] = "reconnecting" /\ tries[t] \in 0 .. 1 /\ Head(rlockq) = t
        /\ rlockq' = Tail(rlockq) /\ Goto(t, "resend")
        /\ UNCHANGED <<line, tries, from, locked, shutdown>>
    BY <1>1, <1>7 DEF ReconnectOk, LoginOk, Place, Held
  <2>3. step'[t] = "resend" /\ step' \in [Tasks -> Steps]
        /\ \A u \in Tasks \ {t} : step'[u] = step[u]
    BY <1>1, <2>2, GotoShape DEF Steps
  <2>4. relogged' \in [Tasks -> 0 .. MaxSessions]
    BY <1>1, <1>7, CallTyped DEF ReconnectOk
  <2>5. CallTypes' /\ OthersStay(t)
    BY <1>1, <2>2, <2>3, <2>4 DEF CallTypes, OthersStay
  <2>6. Place(t)' /\ Start(t)' /\ Held(t)'
    BY <2>1, <2>2, <2>3 DEF Place, Start, Held, StartSteps
  <2>7. LockMoves(t)
    BY <1>2, <2>2, <2>3
  <2> QED BY <2>1, <2>5, <2>6, <2>7 DEF Moves
<1>8. CASE ReconnectFails(t)
  <2>1. PICK failed \in BOOLEAN : Done(t, failed)
    BY <1>8 DEF ReconnectFails
  <2>2. step[t] = "reconnecting" /\ rlockq' = Tail(rlockq) /\ pc[t] # "idle"
    BY <1>8 DEF ReconnectFails, OpenFail, LoginFail
  <2>3. closed /\ Head(rlockq) = t
    BY <1>1, <2>2 DEF Held
  <2>4. LinkMoves(t) /\ (closed' = closed \/ closed' = TRUE) /\ pc'[t] = "idle"
    <3>1. CASE OpenFail(t)
      BY <1>1, <3>1, LinkRests, Returned DEF OpenFail
    <3>2. ASSUME NEW e \in LoginErrors, LoginFail(t, e) PROVE Shut(t)
      BY <2>3, <3>2 DEF LoginFail, SayExit, IsConnected
    <3> QED BY <1>1, <1>8, <3>1, <3>2, ShutMoves DEF ReconnectFails
  <2>5. locked' \in BOOLEAN
    BY <1>1, <1>8 DEF ReconnectFails, CallTypes
  <2>6. LockMoves(t)
    BY <1>1, <1>2, <2>1, <2>2, <2>3, DoneShape
  <2> QED BY <1>1, <2>1, <2>4, <2>5, <2>6, DoneMoves
<1> QED BY <1>3, <1>4, <1>5, <1>6, <1>7, <1>8

LEMMA CancelMoves ==
    ASSUME CallInv, NEW t \in Tasks, CancelCall(t)
    PROVE  Moves(t)
<1>1. CTypeOK /\ CallTypes /\ Done(t, FALSE) /\ locked' \in BOOLEAN /\ step'[t] = "idle"
  <2>1. CTypeOK /\ CallTypes /\ Done(t, FALSE) /\ UNCHANGED locked
    BY TypesBefore DEF CallInv, CancelCall
  <2> QED BY <2>1, DoneShape DEF CallTypes
<1>2. UNCHANGED link /\ pc'[t] = "idle"
  <2>1. CASE pc[t] = "idle" /\ UNCHANGED vars
    BY <2>1 DEF vars, link
  <2>2. CASE CancelConnectOrClose(t) \/ CancelWaiting(t)
    BY <1>1, <2>2, Returned DEF CancelConnectOrClose, CancelWaiting
  <2>3. CASE CancelSending(t)
    BY <1>1, <2>3, Returned DEF CancelSending, Abandon, Settle
  <2> QED BY <2>1, <2>2, <2>3 DEF CancelCall, Interrupted, Cancel
<1>3. LockMoves(t)
  <2>1. DOMAIN rlockq = 1 .. Len(rlockq)
    BY <1>1, CallTyped
  <2>2. CASE \E i \in DOMAIN rlockq : rlockq[i] = t /\ rlockq' = RemoveAt(rlockq, i)
    BY <1>1, <2>1, <2>2 DEF LockMoves
  <2>3. CASE (\A i \in DOMAIN rlockq : rlockq[i] # t) /\ UNCHANGED rlockq
    BY <1>1, <2>1, <2>3 DEF LockMoves, CallInv, RLockInv
  <2> QED BY <2>2, <2>3 DEF CancelCall
<1> QED BY <1>1, <1>2, <1>3, LinkRests, DoneMoves

LEMMA ClientMoves ==
    ASSUME CallInv, IInv, NEW t \in Tasks, ClientStep(t)
    PROVE  Moves(t)
BY UserMoves, BeginMoves, SendMoves, ReconnectMoves, CancelMoves
   DEF ClientStep, ClientCall, ClientProceeds

-----------------------------------------------------------------------------
(* The lines of a call: what a step of a task does to the log.              *)

Logged(t) ==
    \/ UNCHANGED log
    \/ \E c \in Commands : Write(t, c)
    \/ \E fate \in Fates, by \in Nat : Sending(t) /\ Settle(t, fate, by)

LEMMA EntrySettled ==
    ASSUME IInv, NEW t \in Tasks, NEW fate \in Fates, NEW by \in Nat,
           Sending(t), Settle(t, fate, by)
    PROVE  /\ Len(log') = Len(log) /\ mine[t] \in 1 .. Len(log) /\ log[mine[t]].task = t
           /\ log'[mine[t]].task = t /\ log'[mine[t]].cmd = log[mine[t]].cmd
           /\ log'[mine[t]].fate = fate
           /\ \A n \in 1 .. Len(log) : n # mine[t] => log'[n] = log[n]
<1> DEFINE k == mine[t]
           e == [log[k] EXCEPT !.fate = fate, !.by = by]
<1>1. k \in 1 .. Len(log) /\ log[k].task = t /\ log \in Seq(Entries) /\ log[k] \in Entries
  BY LogTyped DEF IInv, LockInv, SingleFlight
<1>2. Len(log') = Len(log)
  BY SettleStep
<1>3. log' = [log EXCEPT ![k] = e]
  BY DEF Settle
<1>4. e.task = t /\ e.cmd = log[k].cmd /\ e.fate = fate
  BY <1>1 DEF Entries
<1>5. log'[k] = e /\ \A n \in 1 .. Len(log) : n # k => log'[n] = log[n]
  BY <1>1, <1>3, LogTyped
<1> QED BY <1>1, <1>2, <1>4, <1>5

LEMMA ClientLogs ==
    ASSUME CallInv, IInv, NEW t \in Tasks, ClientStep(t)
    PROVE  Logged(t)
<1>1. ASSUME Sending(t), Abandon(t) PROVE Logged(t)
  BY <1>1 DEF Abandon, Logged, Fates
<1>2. CASE UNCHANGED vars \/ Reopen(t)
  BY <1>2 DEF vars, Reopen, Logged
<1>3. CASE Call(t)
  BY <1>3 DEF Call, ConnectStart, CloseStart, SayExit, CloseQuiet, Shut, SendRefused, vars,
       SendNow, SendWait, Logged
<1>4. CASE Proceed(t)
  <2>1. CASE OpenFail(t) \/ OpenOk(t) \/ LoginOk(t) \/ CloseFinish(t) \/ AcquireGone(t)
    BY <2>1 DEF OpenFail, OpenOk, LoginOk, CloseFinish, Shut, AcquireGone, Logged
  <2>2. CASE \E e \in LoginErrors : LoginFail(t, e)
    BY <2>2 DEF LoginFail, SayExit, Shut, Logged
  <2>3. CASE Acquire(t)
    <3>1. cmd[t] \in Commands
      BY CallTyped DEF CallInv
    <3> QED BY <2>3, <3>1 DEF Acquire, Logged
  <2>4. CASE DrainFail(t) \/ DrainedGone(t) \/ ReadEof(t) \/ Timeout(t) \/ DiscardGone(t)
    BY <1>1, <2>4 DEF DrainFail, DrainedGone, ReadEof, Timeout, DiscardGone, TakeLine, Sending
  <2>5. CASE Drained(t) \/ Discard(t)
    BY <2>5 DEF Drained, Discard, BeginRead, Logged
  <2>6. CASE Reply(t)
    <3>1. NextLine(t).req \in Nat /\ Sending(t)
      BY <2>6, LineTaken DEF Reply, Lines
    <3> QED BY <2>6, <3>1 DEF Reply, Logged, Fates
  <2> QED BY <1>4, <2>1, <2>2, <2>3, <2>4, <2>5, <2>6 DEF Proceed
<1>5. CASE Cancel(t)
  BY <1>1, <1>5 DEF Cancel, CancelConnectOrClose, CancelWaiting, CancelSending, Sending, Logged
<1> QED BY <1>2, <1>3, <1>4, <1>5, UsesTransport DEF CallInv

(* The lines of another task stay what they are.                            *)
LEMMA OthersLines ==
    ASSUME IInv, IInv', NEW t \in Tasks, NEW u \in Tasks \ {t}, Logged(t)
    PROVE  /\ \A n \in 1 .. Len(log) : log[n].task = u => n \in 1 .. Len(log') /\ log'[n] = log[n]
           /\ \A n \in 1 .. Len(log') : log'[n].task = u => n \in 1 .. Len(log) /\ log'[n] = log[n]
<1>1. Len(log) \in Nat /\ Len(log') \in Nat
  <2>1. log \in Seq(Entries) /\ log' \in Seq(Entries)
    BY DEF IInv, TypeOK
  <2> QED BY <2>1, LenProperties
<1>2. CASE UNCHANGED log
  BY <1>2
<1>3. ASSUME NEW c \in Commands, Write(t, c)
      PROVE  /\ Len(log') = Len(log) + 1 /\ log'[Len(log')].task = t
             /\ \A n \in 1 .. Len(log) : log'[n] = log[n]
  BY <1>3, LineWritten
<1>4. CASE \E c \in Commands : Write(t, c)
  BY <1>1, <1>3, <1>4
<1>5. CASE \E fate \in Fates, by \in Nat : Sending(t) /\ Settle(t, fate, by)
  BY <1>1, <1>5, EntrySettled
<1> QED BY <1>2, <1>4, <1>5 DEF Logged

LEMMA WroteOthers ==
    ASSUME CallInv, IInv, IInv', WroteInv, NEW t \in Tasks, ClientStep(t), Moves(t),
           NEW u \in Tasks \ {t}
    PROVE  Wrote(u)'
<1>1. /\ pc'[u] = pc[u] /\ mine'[u] = mine[u] /\ cmd'[u] = cmd[u]
      /\ step'[u] = step[u] /\ line'[u] = line[u] /\ tries'[u] = tries[u] /\ from'[u] = from[u]
  BY WaitStep DEF CallInv, OthersWait, Moves, OthersStay
<1>2. /\ \A n \in 1 .. Len(log) : log[n].task = u => n \in 1 .. Len(log') /\ log'[n] = log[n]
      /\ \A n \in 1 .. Len(log') : log'[n].task = u => n \in 1 .. Len(log) /\ log'[n] = log[n]
  BY ClientLogs, OthersLines
<1>3. DOMAIN log = 1 .. Len(log) /\ DOMAIN log' = 1 .. Len(log')
  <2>1. log \in Seq(Entries) /\ log' \in Seq(Entries)
    BY DEF IInv, TypeOK
  <2> QED BY <2>1, LenProperties
<1>4. Written(u)' = Written(u) /\ \A n \in Written(u) : log'[n] = log[n]
  BY <1>1, <1>2, <1>3 DEF Written
<1>5. Wrote(u)
  BY DEF WroteInv
<1>6. (Calling(u)' <=> Calling(u)) /\ (Sending(u)' <=> Sending(u))
  BY <1>1 DEF Calling, Sending
<1> QED BY <1>1, <1>4, <1>5, <1>6 DEF Wrote

-----------------------------------------------------------------------------
(* The lines of the task that takes the step.                               *)

LEMMA WroteDone == ASSUME NEW t \in Tasks, ~Calling(t)' PROVE Wrote(t)'
BY DEF Wrote

(* The call goes on and writes nothing.                                     *)
LEMMA WroteSame ==
    ASSUME CTypeOK, NEW t \in Tasks, Wrote(t), Calling(t), UNCHANGED log,
           from'[t] = from[t], line'[t] = line[t], tries'[t] \in Nat,
           tries'[t] >= tries[t],
           pc'[t] = "waiting" => tries'[t] > tries[t],
           Sending(t)' <=> Sending(t), Sending(t) => mine'[t] = mine[t],
           step'[t] = "sending" => cmd'[t] = line[t]
    PROVE  Wrote(t)'
<1>1. Written(t)' = Written(t)
  BY DEF Written
<1>2. /\ IsFiniteSet(Written(t)) /\ Cardinality(Written(t)) <= tries[t]
      /\ Cardinality(Written(t)) \in Nat
  BY FS_CardinalityType DEF Wrote
<1>3. tries[t] \in Nat
  <2>1. tries \in [Tasks -> 0 .. 2]
    BY CallTyped
  <2> QED BY <2>1
<1>4. /\ IsFiniteSet(Written(t)') /\ Cardinality(Written(t)') <= tries'[t]
      /\ pc'[t] = "waiting" => Cardinality(Written(t)') < tries'[t]
  BY <1>1, <1>2, <1>3
<1>5. \A n \in Written(t)' :
        /\ log'[n].cmd = line'[t]
        /\ Sending(t)' /\ n = mine'[t] => log'[n].fate = "open"
        /\ ~(Sending(t)' /\ n = mine'[t]) => log'[n].fate = "abandoned"
  BY <1>1 DEF Wrote
<1> QED BY <1>4, <1>5 DEF Wrote

(* The call goes on and writes its line.                                    *)
LEMMA WroteMore ==
    ASSUME CTypeOK, IInv, IInv', NEW t \in Tasks, Wrote(t), Calling(t), ~Sending(t),
           line[t] \in Commands, Write(t, line[t]),
           from'[t] = from[t], line'[t] = line[t], cmd'[t] = line[t],
           tries'[t] \in Nat, Cardinality(Written(t)) < tries'[t]
    PROVE  Wrote(t)'
<1>1. /\ pc'[t] = "writing" /\ mine'[t] = Len(log) + 1 /\ Len(log) \in Nat
      /\ Len(log') = Len(log) + 1 /\ log'[Len(log) + 1].task = t
      /\ log'[Len(log) + 1].fate = "open"
      /\ \A i \in 1 .. Len(log) : log'[i] = log[i]
      /\ DOMAIN log = 1 .. Len(log)
  BY LineWritten, CallTyped, LogTyped DEF Write
<1>2. log'[Len(log) + 1].cmd = line[t]
  <2>1. log' = Append(log, [task |-> t, cmd |-> line[t], session |-> session,
                            fate |-> "open", by |-> 0])
    BY DEF Write
  <2> QED BY <2>1, LogTyped, AppendProperties
<1>3. DOMAIN log' = 1 .. Len(log) + 1
  <2>1. log' \in Seq(Entries)
    BY DEF IInv, TypeOK
  <2> QED BY <1>1, <2>1, LenProperties
<1>4. Len(log) + 1 \notin Written(t) /\ \A n \in Written(t) : n \in 1 .. Len(log)
  BY <1>1 DEF Written
<1>5. Written(t)' \subseteq Written(t) \cup {Len(log) + 1}
  <2>1. ASSUME NEW n \in Written(t)' PROVE n \in Written(t) \cup {Len(log) + 1}
    <3>1. n \in 1 .. Len(log) + 1 /\ n > from[t] /\ log'[n].task = t
      BY <1>3, <2>1 DEF Written
    <3> QED BY <1>1, <3>1 DEF Written
  <2> QED BY <2>1
<1>6. /\ IsFiniteSet(Written(t)) /\ Cardinality(Written(t)) \in Nat
      /\ IsFiniteSet(Written(t)') /\ Cardinality(Written(t)') <= Cardinality(Written(t)) + 1
  <2>1. IsFiniteSet(Written(t)) /\ Cardinality(Written(t)) \in Nat
    BY FS_CardinalityType DEF Wrote
  <2>2. /\ IsFiniteSet(Written(t) \cup {Len(log) + 1})
        /\ Cardinality(Written(t) \cup {Len(log) + 1}) = Cardinality(Written(t)) + 1
    BY <1>4, <2>1, FS_AddElement
  <2> QED BY <1>5, <2>1, <2>2, FS_Subset
<1>7. Cardinality(Written(t)') <= tries'[t]
  <2>1. Cardinality(Written(t)') \in Nat
    BY <1>6, FS_CardinalityType
  <2> QED BY <1>6, <2>1
<1>8. ASSUME NEW n \in Written(t)'
      PROVE  /\ log'[n].cmd = line'[t]
             /\ Sending(t)' /\ n = mine'[t] => log'[n].fate = "open"
             /\ ~(Sending(t)' /\ n = mine'[t]) => log'[n].fate = "abandoned"
  <2>1. CASE n = Len(log) + 1
    BY <1>1, <1>2, <2>1 DEF Sending
  <2>2. CASE n \in Written(t)
    BY <1>1, <1>4, <2>2 DEF Wrote
  <2> QED BY <1>5, <1>8, <2>1, <2>2
<1> QED BY <1>1, <1>6, <1>7, <1>8 DEF Wrote

(* A call that has only begun.                                              *)
LEMMA WroteNone ==
    ASSUME IInv, NEW t \in Tasks, UNCHANGED log, from'[t] = Len(log), tries'[t] \in Nat,
           pc'[t] = "waiting" => tries'[t] = 1, step'[t] = "sending" => cmd'[t] = line'[t]
    PROVE  Wrote(t)'
<1>1. Written(t)' = {}
  BY LogTyped DEF Written
<1>2. IsFiniteSet(Written(t)') /\ Cardinality(Written(t)') = 0
  BY <1>1, FS_EmptySet
<1> QED BY <1>1, <1>2 DEF Wrote

LEMMA WroteFirst ==
    ASSUME CTypeOK, IInv, IInv', NEW t \in Tasks, NEW c \in Commands, Write(t, c),
           from'[t] = Len(log), tries'[t] = 1, line'[t] = c, cmd'[t] = c
    PROVE  Wrote(t)'
<1>1. /\ pc'[t] = "writing" /\ mine'[t] = Len(log) + 1 /\ Len(log) \in Nat
      /\ Len(log') = Len(log) + 1 /\ log'[Len(log) + 1].fate = "open"
  BY LineWritten, CallTyped, LogTyped DEF Write
<1>2. log'[Len(log) + 1].cmd = c
  <2>1. log' = Append(log, [task |-> t, cmd |-> c, session |-> session,
                            fate |-> "open", by |-> 0])
    BY DEF Write
  <2> QED BY <2>1, LogTyped, AppendProperties
<1>3. DOMAIN log' = 1 .. Len(log) + 1
  <2>1. log' \in Seq(Entries)
    BY DEF IInv, TypeOK
  <2> QED BY <1>1, <2>1, LenProperties
<1>4. Written(t)' \subseteq {Len(log) + 1}
  BY <1>1, <1>3 DEF Written
<1>5. IsFiniteSet(Written(t)') /\ Cardinality(Written(t)') <= 1
  <2>1. IsFiniteSet({Len(log) + 1}) /\ Cardinality({Len(log) + 1}) = 1
    BY FS_Singleton
  <2> QED BY <1>4, <2>1, FS_Subset
<1>6. \A n \in Written(t)' :
        /\ log'[n].cmd = line'[t]
        /\ Sending(t)' /\ n = mine'[t] => log'[n].fate = "open"
        /\ ~(Sending(t)' /\ n = mine'[t]) => log'[n].fate = "abandoned"
  BY <1>1, <1>2, <1>4 DEF Sending
<1> QED BY <1>1, <1>5, <1>6 DEF Wrote

(* The line in flight is given up, and the call goes on to reconnect.       *)
LEMMA WroteGivenUp ==
    ASSUME CTypeOK, IInv, IInv', NEW t \in Tasks, Wrote(t), step[t] = "sending", Sending(t),
           Settle(t, "abandoned", 0), step'[t] = "reconnecting", pc'[t] = "idle",
           from'[t] = from[t], line'[t] = line[t], tries'[t] = tries[t]
    PROVE  Wrote(t)'
<1>1. /\ Len(log') = Len(log) /\ log[mine[t]].task = t /\ log'[mine[t]].task = t
      /\ log'[mine[t]].cmd = log[mine[t]].cmd /\ log'[mine[t]].fate = "abandoned"
      /\ \A n \in 1 .. Len(log) : n # mine[t] => log'[n] = log[n]
  BY EntrySettled DEF Fates
<1>2. DOMAIN log' = 1 .. Len(log) /\ DOMAIN log = 1 .. Len(log)
  <2>1. log' \in Seq(Entries)
    BY DEF IInv, TypeOK
  <2> QED BY <1>1, <2>1, LenProperties, LogTyped
<1>3. Written(t)' = Written(t)
  BY <1>1, <1>2 DEF Written
<1>4. ASSUME NEW n \in Written(t)'
      PROVE  log'[n].cmd = line'[t] /\ log'[n].fate = "abandoned"
  <2>1. n \in Written(t) /\ n \in 1 .. Len(log)
    BY <1>2, <1>3 DEF Written
  <2> QED BY <1>1, <2>1 DEF Wrote, Calling
<1>5. IsFiniteSet(Written(t)') /\ Cardinality(Written(t)') <= tries'[t]
  BY <1>3 DEF Wrote, Calling
<1> QED BY <1>4, <1>5 DEF Wrote, Sending

LEMMA WroteStep ==
    ASSUME CallInv, IInv, IInv', WroteInv, NEW t \in Tasks, ClientStep(t), Moves(t)
    PROVE  Wrote(t)'
<1>1. /\ CTypeOK /\ Wrote(t) /\ Place(t) /\ tries[t] \in 0 .. 2 /\ line[t] \in Commands
      /\ tries'[t] \in 0 .. 2
  BY CallTyped DEF CallInv, PlaceInv, WroteInv, Moves, CallTypes
<1>2. ASSUME NEW s \in Steps, Goto(t, s), s \notin {"sending", "reconnecting", "resend"}
      PROVE  Wrote(t)'
  BY <1>1, <1>2, GotoShape, WroteDone DEF Calling
<1>3. ASSUME NEW failed \in BOOLEAN, Done(t, failed) PROVE Wrote(t)'
  BY <1>2, <1>3 DEF Done, Steps
<1>4. CASE UserConnect(t) \/ UserConnected(t) \/ UserConnectRaises(t) \/ UserClosed(t)
  BY <1>2, <1>4 DEF UserConnect, UserConnected, UserConnectRaises, UserClosed, Steps
<1>5. CASE UserConnectFails(t)
  <2>1. PICK s \in {"idle", "refusing", "failing"} : Goto(t, s)
    BY <1>5 DEF UserConnectFails
  <2> QED BY <1>2, <2>1 DEF Steps
<1>6. CASE UserClose(t)
  <2>1. CASE UNCHANGED step
    BY <1>6, <2>1, WroteDone DEF UserClose, Calling
  <2>2. CASE Goto(t, "closing")
    BY <1>2, <2>2 DEF Steps
  <2> QED BY <1>6, <2>1, <2>2 DEF UserClose
<1>7. ASSUME NEW c \in Commands, SendFirst(t, c) PROVE Wrote(t)'
  <2>1. from'[t] = Len(log) /\ line'[t] = c /\ tries'[t] = 1
    BY <1>1, <1>7, BeginShape, CallTyped DEF SendFirst
  <2>2. cmd'[t] = c
    BY <1>1, <1>7, CallTyped DEF SendFirst, SendNow, SendWait
  <2>3. CASE SendNow(t, c)
    BY <1>1, <2>1, <2>2, <2>3, WroteFirst DEF SendNow
  <2>4. CASE SendWait(t, c)
    BY <2>1, <2>2, <2>4, WroteNone DEF SendWait
  <2> QED BY <1>7, <2>3, <2>4 DEF SendFirst
<1>8. ASSUME NEW c \in Commands, SendOffline(t, c) PROVE Wrote(t)'
  <2>1. from'[t] = Len(log) /\ step[t] = "idle"
    BY <1>1, <1>8, BeginShape DEF SendOffline
  <2>2. step'[t] = "reconnecting" /\ UNCHANGED <<log, pc>>
    BY <1>1, <1>8, AskShape DEF SendOffline, vars
  <2>3. pc'[t] = "idle" /\ tries'[t] \in Nat
    BY <1>1, <2>1, <2>2 DEF Place
  <2> QED BY <2>1, <2>2, <2>3, WroteNone
<1>9. CASE SendAgain(t)
  <2>1. /\ step[t] = "resend" /\ pc[t] = "idle" /\ Calling(t) /\ ~Sending(t)
    BY <1>1, <1>9 DEF SendAgain, Place, Calling, Sending
  <2>2. /\ tries'[t] = tries[t] + 1 /\ from'[t] = from[t] /\ line'[t] = line[t]
        /\ cmd'[t] = line[t]
    BY <1>1, <1>9, CallTyped DEF SendAgain, SendNow, SendWait
  <2>3. CASE SendNow(t, line[t])
    <3>1. Cardinality(Written(t)) < tries'[t] /\ tries'[t] \in Nat
      <4>1. Cardinality(Written(t)) \in Nat /\ Cardinality(Written(t)) <= tries[t]
        BY <1>1, <2>1, FS_CardinalityType DEF Wrote
      <4> QED BY <1>1, <2>2, <4>1
    <3> QED BY <1>1, <2>1, <2>2, <2>3, <3>1, WroteMore DEF SendNow
  <2>4. CASE SendWait(t, line[t])
    <3>1. UNCHANGED <<log, mine>> /\ ~Sending(t)'
      BY <1>1, <2>4, CallTyped DEF SendWait, Sending
    <3>2. tries'[t] \in Nat /\ tries'[t] > tries[t] /\ tries'[t] >= tries[t]
      BY <1>1, <2>2
    <3> QED BY <1>1, <2>1, <2>2, <3>1, <3>2, WroteSame
  <2> QED BY <1>9, <2>3, <2>4 DEF SendAgain
<1>10. ASSUME step[t] \in {"resend", "reconnecting"}, UNCHANGED log, pc[t] \notin {"writing", "reading"},
              pc'[t] \notin {"waiting", "writing", "reading"}, step'[t] # "sending",
              from'[t] = from[t], line'[t] = line[t], tries'[t] >= tries[t]
       PROVE  Wrote(t)'
  <2>1. Calling(t) /\ ~Sending(t) /\ ~Sending(t)' /\ tries'[t] \in Nat
    BY <1>1, <1>10 DEF Calling, Sending
  <2> QED BY <1>1, <1>10, <2>1, WroteSame
<1>11. CASE SendAgainRefused(t)
  <2>1. /\ step[t] = "resend" /\ pc[t] = "idle" /\ tries[t] + 1 \in 0 .. 2
        /\ ConnectionErrorAt(t, tries[t] + 1) /\ UNCHANGED <<log, pc>>
    BY <1>1, <1>11 DEF SendAgainRefused, Place, vars
  <2>2. CASE step'[t] = "idle"
    BY <2>2, WroteDone DEF Calling
  <2>3. CASE /\ tries[t] + 1 = 1 /\ step'[t] = "reconnecting" /\ tries'[t] = 1
             /\ UNCHANGED <<line, from>>
    BY <1>1, <1>10, <2>1, <2>3
  <2> QED BY <1>1, <2>1, <2>2, <2>3, ErrorShape
<1>12. CASE SendOn(t)
  <2>1. step[t] = "sending" /\ Calling(t) /\ UNCHANGED cvars /\ cmd[t] = line[t]
    BY <1>1, <1>12 DEF SendOn, Calling, Wrote
  <2>2. from'[t] = from[t] /\ line'[t] = line[t] /\ tries'[t] = tries[t] /\ tries'[t] \in Nat
    BY <1>1, <2>1 DEF cvars
  <2>3. CASE Acquire(t)
    <3>1. pc[t] = "waiting" /\ ~Sending(t) /\ Write(t, line[t]) /\ cmd'[t] = line[t]
      BY <2>1, <2>3 DEF Acquire, Sending
    <3>2. Cardinality(Written(t)) < tries'[t]
      BY <1>1, <2>1, <2>2, <3>1 DEF Wrote
    <3> QED BY <1>1, <2>1, <2>2, <3>1, <3>2, WroteMore
  <2>4. CASE Drained(t) \/ Discard(t)
    <3>1. UNCHANGED <<log, mine, cmd>> /\ Sending(t)' /\ Sending(t) /\ pc'[t] = "reading"
      BY <1>1, <2>4, CallTyped DEF Drained, Discard, BeginRead, TakeLine, Sending
    <3>2. tries'[t] >= tries[t]
      BY <1>1, <2>2
    <3> QED BY <1>1, <2>1, <2>2, <3>1, <3>2, WroteSame
  <2> QED BY <1>12, <2>3, <2>4 DEF SendOn
<1>13. CASE SendAnswered(t) \/ SendCrashed(t)
  BY <1>3, <1>13 DEF SendAnswered, SendCrashed
<1>14. CASE SendDropped(t)
  <2>1. /\ step[t] = "sending" /\ Sending(t) /\ Settle(t, "abandoned", 0)
        /\ ConnectionErrorAt(t, tries[t])
    BY <1>14 DEF SendDropped, DrainFail, ReadEof, Timeout, Abandon, Sending
  <2>2. pc'[t] = "idle"
    BY <1>1, <2>1, Returned DEF Settle
  <2>3. CASE step'[t] = "idle"
    BY <2>3, WroteDone DEF Calling
  <2>4. CASE /\ tries[t] = 1 /\ step'[t] = "reconnecting" /\ tries'[t] = 1
             /\ UNCHANGED <<line, from>>
    BY <1>1, <2>1, <2>2, <2>4, WroteGivenUp
  <2> QED BY <1>1, <2>1, <2>3, <2>4, ErrorShape
<1>15. CASE ReconnectFound(t)
  <2>1. /\ step[t] = "reconnecting" /\ pc[t] = "idle" /\ Goto(t, "resend")
        /\ UNCHANGED <<log, pc, line, from, tries>>
    BY <1>15 DEF ReconnectFound, InReconnect, vars, call
  <2>2. step'[t] = "resend" /\ tries'[t] >= tries[t]
    BY <1>1, <2>1, GotoShape DEF Steps
  <2> QED BY <1>10, <2>1, <2>2
<1>16. CASE ReconnectLocked(t)
  BY <1>3, <1>16 DEF ReconnectLocked
<1>17. CASE Reopen(t)
  <2>1. /\ step[t] = "reconnecting" /\ pc[t] = "idle" /\ pc'[t] = "opening"
        /\ UNCHANGED <<log, step, line, from, tries>>
    BY <1>1, <1>17, ReopenShape DEF Reopen, InReconnect, cvars
  <2>2. step'[t] # "sending" /\ tries'[t] >= tries[t]
    BY <1>1, <2>1
  <2> QED BY <1>10, <2>1, <2>2
<1>18. CASE Opened(t)
  <2>1. /\ pc[t] = "opening" /\ pc'[t] = "login" /\ UNCHANGED <<log, step, line, from, tries>>
        /\ step[t] \in {"connecting", "reconnecting"}
    BY <1>1, <1>18, CallTyped DEF Opened, OpenOk, cvars, Place, Steps
  <2>2. step'[t] # "sending" /\ tries'[t] >= tries[t]
    BY <1>1, <2>1
  <2>3. CASE step[t] = "connecting"
    BY <2>1, <2>3, WroteDone DEF Calling
  <2>4. CASE step[t] = "reconnecting"
    BY <1>10, <2>1, <2>2, <2>4
  <2> QED BY <2>1, <2>3, <2>4
<1>19. CASE ReconnectOk(t)
  <2>1. /\ step[t] = "reconnecting" /\ pc[t] = "login" /\ Goto(t, "resend") /\ Return(t)
        /\ UNCHANGED <<log, line, from, tries>>
    BY <1>19 DEF ReconnectOk, LoginOk
  <2>2. step'[t] = "resend" /\ tries'[t] >= tries[t] /\ pc'[t] = "idle"
    BY <1>1, <2>1, GotoShape, Returned DEF Steps
  <2> QED BY <1>10, <2>1, <2>2
<1>20. CASE ReconnectFails(t)
  <2>1. PICK failed \in BOOLEAN : Done(t, failed)
    BY <1>20 DEF ReconnectFails
  <2> QED BY <1>3, <2>1
<1>21. CASE CancelCall(t)
  BY <1>3, <1>21 DEF CancelCall
<1>22. CASE ClientCall(t)
  BY <1>4, <1>6, <1>7, <1>8, <1>22 DEF ClientCall
<1>23. CASE ClientProceeds(t)
  BY <1>4, <1>5, <1>9, <1>11, <1>12, <1>13, <1>14, <1>15, <1>16, <1>17, <1>18, <1>19, <1>20, <1>23
     DEF ClientProceeds
<1> QED BY <1>21, <1>22, <1>23 DEF ClientStep

-----------------------------------------------------------------------------
(* The invariant                                                           *)

(* A step of the device's, or the end of the cooldown: no task moves.       *)
LEMMA TasksRest ==
    ASSUME CInv, IInv',
           UNCHANGED <<closed, session, pc, cmd, mine, log, step, line, tries, rlockq,
                       shutdown, from, relogged>>,
           locked' \in BOOLEAN,
           \A s \in Sessions : stage'[s] \in Live => stage[s] \in Live
    PROVE  CInv'
<1> USE DEF CInv, CallInv
<1>1. CTypeOK'
  BY DEF CTypeOK, IInv
<1>2. PlaceInv'
  BY DEF PlaceInv, Place, Start, Held, StartSteps
<1>3. RLockInv'
  BY DEF RLockInv
<1>4. LiveInv'
  BY DEF LiveInv
<1>5. WroteInv'
  BY DEF WroteInv, Wrote, Written, Calling, Sending
<1> QED BY <1>1, <1>2, <1>3, <1>4, <1>5

LEMMA DeviceLinks ==
    ASSUME CTypeOK, NEW s \in Sessions, Device(s)
    PROVE  \A r \in Sessions : stage'[r] \in Live => stage[r] \in Live
<1>1. stage \in [0 .. MaxSessions -> Stages] /\ \A r \in Sessions : r \in 0 .. MaxSessions
  BY BoundsAssumption DEF CTypeOK, TypeOK, Sessions
<1>2. CASE UNCHANGED stage
  BY <1>2
<1>3. CASE stage[s] \in {"login", "poisoned", "ready"} /\
           \E g \in {"poisoned", "ended"} : stage' = [stage EXCEPT ![s] = g]
  BY <1>1, <1>3 DEF Live
<1>4. CASE DeviceAnswer(s) \/ DeviceSilent(s) \/ DevicePush(s)
  BY <1>2, <1>4 DEF DeviceAnswer, DeviceSilent, DevicePush
<1>5. CASE DevicePoisoned(s) \/ DeviceHangup(s)
  BY <1>3, <1>5 DEF DevicePoisoned, DeviceHangup
<1> QED BY <1>4, <1>5 DEF Device

LEMMA CInvInit == CInit => CInv
<1> SUFFICES ASSUME CInit PROVE CInv
  OBVIOUS
<1>1. IInv /\ TypeOK
  BY IInvInit DEF CInit, IInv
<1>2. NoCommand \in Commands
  BY CommandsAssumption DEF NoCommand
<1>3. CTypeOK
  <2>1. /\ step \in [Tasks -> Steps] /\ line \in [Tasks -> Commands]
        /\ tries \in [Tasks -> 0 .. 2]
    BY <1>2 DEF CInit, Steps
  <2>2. from \in [Tasks -> Nat] /\ relogged \in [Tasks -> 0 .. MaxSessions]
    BY BoundsAssumption DEF CInit
  <2>3. rlockq \in Seq(Tasks) /\ locked \in BOOLEAN /\ shutdown \in BOOLEAN
    <3>1. rlockq \in Seq(Tasks)
      <4>1. rlockq = <<>>
        BY DEF CInit
      <4> QED BY <4>1
    <3>2. locked = FALSE /\ shutdown = FALSE
      BY DEF CInit
    <3> QED BY <3>1, <3>2
  <2> QED BY <1>1, <2>1, <2>2, <2>3 DEF CTypeOK
<1>4. PlaceInv
  BY DEF CInit, Init, PlaceInv, Place, Start, Held, StartSteps
<1>5. RLockInv
  BY DEF CInit, RLockInv
<1>6. LiveInv
  <2>1. \A s \in Sessions : stage[s] = "unused"
    BY BoundsAssumption DEF CInit, Init, Sessions
  <2> QED BY <2>1 DEF CInit, Init, LiveInv, Live
<1>7. WroteInv
  BY DEF CInit, WroteInv, Wrote, Calling
<1> QED BY <1>1, <1>3, <1>4, <1>5, <1>6, <1>7 DEF CInv, CallInv

LEMMA CInvNext == CInv /\ [CNext]_allvars => CInv'
<1> SUFFICES ASSUME CInv, [CNext]_allvars PROVE CInv'
  OBVIOUS
<1> USE DEF CInv
<1>1. locked \in BOOLEAN /\ CTypeOK /\ PlaceInv
  BY DEF CallInv, CTypeOK
<1>2. ASSUME NEW t \in Tasks, ClientStep(t) PROVE CInv'
  <2>1. IInv' /\ Moves(t)
    BY <1>1, <1>2, TransportKept, ClientMoves
  <2>2. CallInv'
    BY <1>2, <2>1, MovesKeep
  <2>3. WroteInv'
    <3>1. ASSUME NEW u \in Tasks \ {t} PROVE Wrote(u)'
      BY <1>2, <2>1, <3>1, WroteOthers
    <3>2. Wrote(t)'
      BY <1>2, <2>1, WroteStep
    <3> QED BY <3>1, <3>2 DEF WroteInv
  <2> QED BY <2>1, <2>2, <2>3
<1>3. CASE \E s \in Sessions : Device(s) /\ UNCHANGED cvars
  <2>1. PICK s \in Sessions : Device(s) /\ UNCHANGED cvars
    BY <1>3
  <2>2. IInv'
    BY <1>1, <1>3, TransportKept
  <2>3. UNCHANGED tasks
    BY <2>1 DEF Device, DeviceAnswer, DeviceSilent, DevicePoisoned, DevicePush, DeviceHangup
  <2> QED BY <1>1, <2>1, <2>2, <2>3, DeviceLinks, TasksRest DEF tasks, cvars
<1>4. CASE CooldownEnds
  <2>1. IInv'
    BY <1>1, <1>4, TransportKept
  <2> QED BY <1>4, <2>1, TasksRest DEF CooldownEnds, vars, call
<1>5. CASE UNCHANGED allvars
  <2>1. IInv'
    BY <1>5, IInvNext DEF allvars
  <2> QED BY <1>1, <1>5, <2>1, TasksRest DEF allvars, vars, cvars
<1> QED BY <1>2, <1>3, <1>4, <1>5 DEF CNext, ClientStep

LEMMA CallInvariant == CSpec => []CInv
<1> QED BY CInvInit, CInvNext, PTL DEF CSpec

-----------------------------------------------------------------------------
(* The types of the client's own variables and of the transport below it.   *)
THEOREM ClientTypes == CSpec => []CTypeOK
<1>1. CInv => CTypeOK
  BY DEF CInv, CallInv
<1> QED BY <1>1, CallInvariant, PTL

(* The device never sees two connections of one client open, for any number *)
(* of tasks: a new one is opened with the handles empty, and the handles   *)
(* are emptied together with the connection.                               *)
THEOREM OneConnectionOpen == CSpec => []OneConnection
<1>1. CInv => OneConnection
  BY DEF CInv, CallInv, LiveInv, OneConnection
<1> QED BY <1>1, CallInvariant, PTL

(* Two tasks are never in connect() at once: a first connect() is alone,    *)
(* and a reconnect holds the lock.                                         *)
THEOREM OneLoginRuns == CSpec => []OneLogin
<1>1. CInv => OneLogin
  BY LoginsAlone DEF CInv, CallInv
<1> QED BY <1>1, CallInvariant, PTL

(* _send() writes its line twice at most, and the second time only once the *)
(* first line was given up.                                                *)
THEOREM UnansweredRepeats == CSpec => []RepeatsOnlyUnanswered
<1>1. ASSUME CInv PROVE RepeatsOnlyUnanswered
  <2>1. ASSUME NEW t \in Tasks, Calling(t)
        PROVE  /\ Cardinality(Written(t)) <= 2
               /\ \A n \in Written(t) : /\ log[n].cmd = line[t]
                                        /\ log[n].fate = IF Sending(t) /\ n = mine[t]
                                                         THEN "open" ELSE "abandoned"
    <3>1. Wrote(t)
      BY <1>1 DEF CInv, WroteInv
    <3>2. Cardinality(Written(t)) <= 2
      <4>1. /\ Cardinality(Written(t)) \in Nat /\ Cardinality(Written(t)) <= tries[t]
        BY <2>1, <3>1, FS_CardinalityType DEF Wrote
      <4>2. tries[t] \in 0 .. 2
        BY <1>1, CallTyped DEF CInv, CallInv
      <4> QED BY <4>1, <4>2
    <3> QED BY <2>1, <3>1, <3>2 DEF Wrote
  <2> QED BY <2>1 DEF RepeatsOnlyUnanswered
<1> QED BY <1>1, CallInvariant, PTL

-----------------------------------------------------------------------------
(* What the transport promises, under the client                            *)

LEMMA StepsBelow ==
    ASSUME CInv, [CNext]_allvars
    PROVE  [Next]_vars \/ \E t \in Tasks : Reopen(t)
<1>1. CASE UNCHANGED allvars
  BY <1>1 DEF allvars
<1>2. ASSUME NEW t \in Tasks, ClientStep(t) PROVE [Next]_vars \/ Reopen(t)
  BY <1>2, UsesTransport DEF CInv, CallInv, Next
<1>3. CASE CooldownEnds \/ \E s \in Sessions : Device(s) /\ UNCHANGED cvars
  BY <1>3 DEF CooldownEnds, Next
<1> QED BY <1>1, <1>2, <1>3 DEF CNext, ClientStep

(* Neither reply nor request is touched when the old connection is closed    *)
(* and a new one is asked for.                                              *)
LEMMA ReopenReplies ==
    ASSUME CInv, IInv', RInv, QInv, NEW t \in Tasks, Reopen(t)
    PROVE  RInv' /\ QInv' /\ UNCHANGED <<lockq, log>>
<1>1. /\ pc[t] = "idle" /\ pc' = [pc EXCEPT ![t] = "opening"] /\ session' = 0
      /\ stage' = [stage EXCEPT ![session] = "ended"]
      /\ UNCHANGED <<toDev, toCli, lockq, at, mine, log>>
  BY DEF Reopen, InReconnect, wire
<1>2. IInv /\ pc \in [Tasks -> PCs]
  BY LockTyped DEF CInv
<1>3. SessInv' /\ UsedKept
  BY <1>1, <1>2, EndedStep DEF RInv
<1>4. ReadersKept /\ SendersKept
  BY <1>1, <1>2 DEF ReadersKept, SendersKept, Sending
<1>5. DevShrinks /\ CliShrinks
  BY <1>1, <1>2, ToDevSame, ToCliSame
<1>6. RInv'
  BY <1>1, <1>2, <1>3, <1>4, <1>5, QuietStep
<1>7. QInv'
  BY <1>1, <1>2, QueueKept DEF InLock
<1> QED BY <1>1, <1>6, <1>7

LEMMA RepliesBelow ==
    CInv /\ RInv /\ QInv /\ [CNext]_allvars => RInv' /\ QInv' /\ [Serial!Next]_(Serial!vars)
<1> SUFFICES ASSUME CInv, RInv, QInv, [CNext]_allvars
             PROVE  RInv' /\ QInv' /\ [Serial!Next]_(Serial!vars)
  OBVIOUS
<1>1. IInv /\ IInv'
  BY CInvNext DEF CInv
<1>2. CASE [Next]_vars
  BY <1>1, <1>2, RInvNext, QInvNext, SerialStep
<1>3. ASSUME NEW t \in Tasks, Reopen(t)
      PROVE  RInv' /\ QInv' /\ [Serial!Next]_(Serial!vars)
  BY <1>1, <1>3, ReopenReplies DEF Serial!vars
<1> QED BY <1>2, <1>3, StepsBelow

LEMMA RepliesAlways == CSpec => [](CInv /\ RInv /\ QInv)
<1>1. CInit => RInv /\ QInv
  BY RInvInit DEF CInit, Init, QInv
<1> QED BY <1>1, CInvInit, CInvNext, RepliesBelow, PTL DEF CSpec

(* client.py:467-483 on transport.py:20-22: however calls are repeated and   *)
(* connections reopened, one line at most is in flight.                     *)
THEOREM ClientSendsSingly == CSpec => []SingleFlight
<1>1. CInv => SingleFlight
  BY DEF CInv, IInv, LockInv
<1> QED BY <1>1, CallInvariant, PTL

(* client.py:467-483 on transport.py:197-252: a line that is sent again does *)
(* not take a reply that was used, nor one from the connection before.      *)
THEOREM ClientRepliesUsedOnce == CSpec => []RepliesNeverReused
<1>1. CInv /\ RInv => RepliesNeverReused
  BY LogTyped DEF CInv, RInv, ByInv, RepliesNeverReused
<1> QED BY <1>1, RepliesAlways, PTL

(* client.py:467-483 on transport.py:197-252: a shift of replies has the     *)
(* causes it has without the client, and no other.                          *)
THEOREM ClientShiftsHaveCauses == CSpec => []ShiftHasCause
<1>1. RInv => ShiftHasCause
  BY DEF RInv
<1> QED BY <1>1, RepliesAlways, PTL

(* The client serves its callers through the same queue: retries and         *)
(* reconnects are requests and pauses of it, never a way around it.          *)
THEOREM ClientImplementsSerialRequests == CSpec => ServesSerially
<1>1. CInit => Serial!Init
  BY DEF CInit, Init, Serial!Init
<1> QED BY <1>1, RepliesAlways, RepliesBelow, PTL DEF CSpec, ServesSerially, Serial!Spec

=============================================================================
