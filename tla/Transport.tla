----------------------------- MODULE Transport -----------------------------
(***************************************************************************)
(* One transport object of wattbox_local/transport.py, shared by several   *)
(* asyncio tasks: connect(), send_command() and close() of                 *)
(* _LineProtocolTransport and TelnetTransport, with the device and the     *)
(* network at the other end.                                               *)
(*                                                                         *)
(* A step is the code a task runs between two awaits.  A line is an        *)
(* abstract record: what kind of line it is, the command name it carries   *)
(* and, as a ghost, the request the device was answering when it wrote it. *)
(***************************************************************************)
EXTENDS Integers, Sequences, FiniteSets, SequencesExt

CONSTANTS
    Tasks,          \* asyncio tasks that share the transport
    Queries,        \* "?Cmd" lines, sent with allow_push=False
    Sets,           \* "!Cmd" lines, sent with allow_push=True
    NameOf,         \* command_name(): several commands may share one name
    MaxSessions,    \* bound: connections opened
    MaxRequests,    \* bound: command lines written
    MaxPushes       \* bound: unsolicited "~Cmd=value" lines

Commands == Queries \cup Sets
Names    == {NameOf[c] : c \in Commands}

ASSUME CommandsAssumption ==
    Commands # {} /\ Queries \cap Sets = {} /\ NameOf \in [Commands -> Names]
ASSUME BoundsAssumption ==
    MaxSessions \in Nat /\ MaxRequests \in Nat /\ MaxPushes \in Nat

VARIABLES
    closed,     \* _closed
    session,    \* the connection _reader and _writer belong to, 0 when None
    stage,      \* what the device thinks of each connection
    toDev,      \* lines in flight to the device, per connection
    toCli,      \* lines in flight from the device, per connection
    lockq,      \* _cmd_lock: its holder, then its waiters in FIFO order
    pc,         \* where each task is suspended
    cmd,        \* the command a sending task was called with
    at,         \* the connection a task logs in on, or reads from
    mine,       \* index in log of the line a sending task wrote
    log,        \* history: every command line written and what became of it
    pushes      \* history: number of unsolicited pushes so far

vars == <<closed, session, stage, toDev, toCli, lockq, pc, cmd, at, mine, log, pushes>>

Sessions == 1 .. MaxSessions
Exit     == 0       \* the request number that stands for the "!Exit" line

Stages   == {"unused", "login", "poisoned", "ready", "ended"}
Kinds    == {"?", "~", "plain"}     \* "plain": OK, #Error, or no known prefix
Lines    == [kind : Kinds, name : Names, req : Nat]
Fates    == {"open", "answered", "abandoned"}
Entries  == [task : Tasks, cmd : Commands, session : Sessions, fate : Fates,
             by : Nat]
PCs      == {"idle", "opening", "login", "exiting", "waiting", "writing", "reading"}

(* What _login() can raise.  "Unexpected" is an exception the library does *)
(* not declare: AssertionError, AttributeError on None.                    *)
LoginErrors == {"ConnectionError", "AuthError", "LockoutError", "ProtocolError",
                "Unexpected"}

NoCommand == CHOOSE c \in Commands : TRUE

TypeOK ==
    /\ closed  \in BOOLEAN
    /\ session \in 0 .. MaxSessions
    /\ stage   \in [0 .. MaxSessions -> Stages]
    /\ toDev   \in [0 .. MaxSessions -> Seq(Nat)]
    /\ toCli   \in [0 .. MaxSessions -> Seq(Lines)]
    /\ lockq   \in Seq(Tasks)
    /\ pc      \in [Tasks -> PCs]
    /\ cmd     \in [Tasks -> Commands]
    /\ at      \in [Tasks -> 0 .. MaxSessions]
    /\ mine    \in [Tasks -> Nat]
    /\ log     \in Seq(Entries)
    /\ pushes  \in 0 .. MaxPushes

Init ==
    /\ closed  = FALSE
    /\ session = 0
    /\ stage   = [s \in 0 .. MaxSessions |-> IF s = 0 THEN "ended" ELSE "unused"]
    /\ toDev   = [s \in 0 .. MaxSessions |-> <<>>]
    /\ toCli   = [s \in 0 .. MaxSessions |-> <<>>]
    /\ lockq   = <<>>
    /\ pc      = [t \in Tasks |-> "idle"]
    /\ cmd     = [t \in Tasks |-> NoCommand]
    /\ at      = [t \in Tasks |-> 0]
    /\ mine    = [t \in Tasks |-> 0]
    /\ log     = <<>>
    /\ pushes  = 0

link == <<closed, session, stage>>
wire == <<toDev, toCli>>

(* The is_connected property: the handles are set and close() has not run. *)
(* It says nothing of the login, nor of the peer.                          *)
IsConnected == session # 0 /\ ~closed

(* The call of t returns or raises: its local variables are gone.          *)
Return(t) ==
    /\ pc'   = [pc   EXCEPT ![t] = "idle"]
    /\ cmd'  = [cmd  EXCEPT ![t] = NoCommand]
    /\ at'   = [at   EXCEPT ![t] = 0]
    /\ mine' = [mine EXCEPT ![t] = 0]

-----------------------------------------------------------------------------
(* connect(), which returns at once when IsConnected.                      *)

ConnectStart(t) ==
    /\ pc[t] = "idle" /\ ~IsConnected
    /\ pc' = [pc EXCEPT ![t] = "opening"]
    /\ UNCHANGED <<link, wire, lockq, cmd, at, mine, log, pushes>>

OpenFail(t) ==
    /\ pc[t] = "opening"
    /\ Return(t)
    /\ UNCHANGED <<link, wire, lockq, log, pushes>>

(* The handles of an earlier connection, if any, are overwritten.          *)
OpenOk(t) ==
    /\ pc[t] = "opening"
    /\ \E s \in Sessions :
         /\ stage[s] = "unused"
         /\ \A r \in 1 .. s - 1 : stage[r] # "unused"
         /\ session' = s
         /\ stage' = [stage EXCEPT ![s] = "login"]
         /\ at' = [at EXCEPT ![t] = s]
    /\ pc' = [pc EXCEPT ![t] = "login"]
    /\ UNCHANGED <<closed, wire, lockq, cmd, mine, log, pushes>>

LoginOk(t) ==
    /\ pc[t] = "login"
    /\ session = at[t] /\ stage[session] = "login" /\ toDev[session] = <<>>
    /\ stage' = [stage EXCEPT ![session] = "ready"]
    /\ Return(t)
    /\ UNCHANGED <<closed, session, wire, lockq, log, pushes>>

-----------------------------------------------------------------------------
(* close(): "!Exit" when connected, then the handles go.  The stream ends   *)
(* for a task still reading from it, after the lines already received.     *)
(* The device reads nothing after the first "!Exit".                       *)

SayExit(t) ==
    /\ IsConnected
    /\ toDev' = [toDev EXCEPT ![session] = IF Exit \in ToSet(@) THEN @ ELSE Append(@, Exit)]
    /\ pc' = [pc EXCEPT ![t] = "exiting"]
    /\ UNCHANGED <<link, toCli, lockq, cmd, at, mine, log, pushes>>

Shut(t) ==
    /\ closed' = TRUE
    /\ session' = 0
    /\ stage' = [stage EXCEPT ![session] = "ended"]
    /\ Return(t)
    /\ UNCHANGED <<wire, lockq, log, pushes>>

CloseStart(t)  == pc[t] = "idle" /\ SayExit(t)
CloseQuiet(t)  == pc[t] = "idle" /\ ~IsConnected /\ Shut(t)
CloseFinish(t) == pc[t] = "exiting" /\ Shut(t)

(* _login() raises error: connect() closes the transport and re-raises it.  *)
(* A login whose handles were taken away can only fail.                    *)
LoginRaises(t, error) ==
    \/ session # at[t] /\ error = "Unexpected"
    \/ session = at[t] /\ stage[session] = "login" /\ error # "Unexpected"
    \/ session = at[t] /\ stage[session] = "poisoned" /\ error \in {"AuthError", "ProtocolError", "ConnectionError"}
    \/ session = at[t] /\ stage[session] = "ended" /\ error = "ConnectionError"

LoginFail(t, error) ==
    /\ pc[t] = "login" /\ LoginRaises(t, error)
    /\ SayExit(t) \/ (~IsConnected /\ Shut(t))

-----------------------------------------------------------------------------
(* send_command()                                                          *)

SendRefused(t) ==
    /\ pc[t] = "idle" /\ ~IsConnected
    /\ UNCHANGED vars

(* Bound: lines written or about to be.                                    *)
MaySend == Len(log) + Cardinality({u \in Tasks : pc[u] = "waiting"}) < MaxRequests

(* Faulty: without the assertion the line goes to a handle that is None.   *)
WriteUnasserted(t, c) ==
    /\ log' = Append(log, [task |-> t, cmd |-> c, session |-> session,
                           fate |-> "open", by |-> 0])
    /\ mine' = [mine EXCEPT ![t] = Len(log) + 1]
    /\ toDev' = [toDev EXCEPT ![session] = Append(@, Len(log) + 1)]
    /\ pc' = [pc EXCEPT ![t] = "writing"]
    /\ UNCHANGED <<link, toCli, at, pushes>>

(* _write_line() up to its drain(), by the task that just got the lock.    *)
Write(t, c) ==
    /\ session # 0
    /\ log' = Append(log, [task |-> t, cmd |-> c, session |-> session,
                           fate |-> "open", by |-> 0])
    /\ mine' = [mine EXCEPT ![t] = Len(log) + 1]
    /\ toDev' = [toDev EXCEPT ![session] = Append(@, Len(log) + 1)]
    /\ pc' = [pc EXCEPT ![t] = "writing"]
    /\ UNCHANGED <<link, toCli, at, pushes>>

(* Faulty: the line is written whether or not the lock is free.            *)
SendNowUnlocked(t, c) ==
    /\ pc[t] = "idle" /\ IsConnected /\ MaySend
    /\ cmd' = [cmd EXCEPT ![t] = c]
    /\ lockq' = Append(lockq, t)
    /\ Write(t, c)

(* A free lock is taken without suspending.                                *)
SendNow(t, c) ==
    /\ pc[t] = "idle" /\ IsConnected /\ MaySend /\ lockq = <<>>
    /\ cmd' = [cmd EXCEPT ![t] = c]
    /\ lockq' = <<t>>
    /\ Write(t, c)

SendWait(t, c) ==
    /\ pc[t] = "idle" /\ IsConnected /\ MaySend /\ lockq # <<>>
    /\ cmd' = [cmd EXCEPT ![t] = c]
    /\ pc' = [pc EXCEPT ![t] = "waiting"]
    /\ lockq' = Append(lockq, t)
    /\ UNCHANGED <<link, wire, at, mine, log, pushes>>

(* The lock is handed over; is_connected is not looked at again.           *)
Acquire(t) ==
    /\ pc[t] = "waiting" /\ Head(lockq) = t
    /\ Write(t, cmd[t])
    /\ UNCHANGED <<lockq, cmd>>

(* "assert self._writer is not None" fails.                                *)
AcquireGone(t) ==
    /\ pc[t] = "waiting" /\ Head(lockq) = t /\ session = 0
    /\ lockq' = Tail(lockq)
    /\ Return(t)
    /\ UNCHANGED <<link, wire, log, pushes>>

(* Faulty: the lock is never released.                                     *)
SettleLocked(t, fate, by) ==
    /\ log' = [log EXCEPT ![mine[t]].fate = fate, ![mine[t]].by = by]
    /\ UNCHANGED lockq
    /\ Return(t)

(* The call of t ends: its line is settled and the lock freed.             *)
Settle(t, fate, by) ==
    /\ log' = [log EXCEPT ![mine[t]].fate = fate, ![mine[t]].by = by]
    /\ lockq' = Tail(lockq)
    /\ Return(t)

Abandon(t) == Settle(t, "abandoned", 0) /\ UNCHANGED <<link, toDev, pushes>>

DrainFail(t) ==
    /\ pc[t] = "writing" /\ stage[log[mine[t]].session] = "ended"
    /\ Abandon(t) /\ UNCHANGED toCli

(* The next _read_line(), on whatever connection the handles now name; two  *)
(* tasks cannot wait on one reader.                                        *)
Readable == session # 0 /\ \A u \in Tasks : ~(pc[u] = "login" /\ at[u] = session)

BeginRead(t) ==
    /\ Readable
    /\ pc' = [pc EXCEPT ![t] = "reading"]
    /\ at' = [at EXCEPT ![t] = session]
    /\ UNCHANGED <<link, toDev, lockq, cmd, mine, log, pushes>>

Drained(t)     == pc[t] = "writing" /\ BeginRead(t) /\ UNCHANGED toCli
DrainedGone(t) == pc[t] = "writing" /\ ~Readable /\ Abandon(t) /\ UNCHANGED toCli

(* _read_response_for(): which line ends the read of command c.            *)
Accepts(c, line) ==
    \/ line.kind = "plain"
    \/ line.kind = "?" /\ line.name = NameOf[c]
    \/ line.kind = "~" /\ c \in Sets

NextLine(t) == Head(toCli[at[t]])

(* Faulty: the line stays in the buffer.                                   *)
PeekLine(t) ==
    /\ pc[t] = "reading" /\ toCli[at[t]] # <<>>
    /\ UNCHANGED toCli

TakeLine(t) ==
    /\ pc[t] = "reading" /\ toCli[at[t]] # <<>>
    /\ toCli' = [toCli EXCEPT ![at[t]] = Tail(@)]

Reply(t) ==
    /\ TakeLine(t) /\ Accepts(cmd[t], NextLine(t))
    /\ Settle(t, "answered", NextLine(t).req)
    /\ UNCHANGED <<link, toDev, pushes>>

Discard(t)     == TakeLine(t) /\ ~Accepts(cmd[t], NextLine(t)) /\ BeginRead(t)
DiscardGone(t) == TakeLine(t) /\ ~Accepts(cmd[t], NextLine(t)) /\ ~Readable /\ Abandon(t)

ReadEof(t) ==
    /\ pc[t] = "reading" /\ toCli[at[t]] = <<>> /\ stage[at[t]] = "ended"
    /\ Abandon(t) /\ UNCHANGED toCli

(* wait_for() expires.  The connection stays open, the answer may still     *)
(* come.                                                                   *)
Timeout(t) ==
    /\ pc[t] = "reading"
    /\ Abandon(t) /\ UNCHANGED toCli

-----------------------------------------------------------------------------
(* Cancellation of a task at the await it is suspended in.  connect() and   *)
(* close() only handle Exception, so a cancelled login or close leaves the *)
(* handles as they are.                                                    *)

CancelConnectOrClose(t) ==
    /\ pc[t] \in {"opening", "login", "exiting"}
    /\ Return(t)
    /\ UNCHANGED <<link, wire, lockq, log, pushes>>

(* Faulty: a cancelled waiter releases the lock it does not hold.           *)
CancelWaitingReleases(t) ==
    /\ pc[t] = "waiting"
    /\ lockq' = Tail(lockq)
    /\ Return(t)
    /\ UNCHANGED <<link, wire, log, pushes>>

CancelWaiting(t) ==
    /\ pc[t] = "waiting"
    /\ \E i \in DOMAIN lockq : lockq[i] = t /\ lockq' = RemoveAt(lockq, i)
    /\ Return(t)
    /\ UNCHANGED <<link, wire, log, pushes>>

CancelSending(t) ==
    /\ pc[t] \in {"writing", "reading"}
    /\ Abandon(t) /\ UNCHANGED toCli

-----------------------------------------------------------------------------
(* The device, from what the code and its protocol notes expect of it: one  *)
(* line at a time, in order, each answered once or not at all.             *)

Answers(n) ==
    LET c == log[n].cmd
    IN {[kind |-> k, name |-> NameOf[c], req |-> n] :
            k \in {IF c \in Queries THEN "?" ELSE "~", "plain"}}

tasks == <<closed, session, lockq, pc, cmd, at, mine, log>>

Deliver(s, line) == toCli' = [toCli EXCEPT ![s] = Append(@, line)]

DeviceReads(s) ==
    /\ toDev[s] # <<>> /\ Head(toDev[s]) # Exit
    /\ toDev' = [toDev EXCEPT ![s] = Tail(@)]

DeviceAnswer(s) ==
    /\ stage[s] = "ready" /\ DeviceReads(s)
    /\ \E line \in Answers(Head(toDev[s])) : Deliver(s, line)
    /\ UNCHANGED <<tasks, stage, pushes>>

DeviceSilent(s) ==
    /\ stage[s] = "ready" /\ DeviceReads(s)
    /\ UNCHANGED <<tasks, stage, toCli, pushes>>

(* A line that arrives during the login is taken for a credential.         *)
DevicePoisoned(s) ==
    /\ stage[s] \in {"login", "poisoned"} /\ DeviceReads(s)
    /\ stage' = [stage EXCEPT ![s] = "poisoned"]
    /\ UNCHANGED <<tasks, toCli, pushes>>

DevicePush(s) ==
    /\ stage[s] = "ready" /\ pushes < MaxPushes
    /\ \E name \in Names : Deliver(s, [kind |-> "~", name |-> name, req |-> 0])
    /\ pushes' = pushes + 1
    /\ UNCHANGED <<tasks, stage, toDev>>

(* The connection ends: "!Exit" was read, or the peer or the network went.  *)
DeviceHangup(s) ==
    /\ stage[s] \in {"login", "poisoned", "ready"}
    /\ stage' = [stage EXCEPT ![s] = "ended"]
    /\ UNCHANGED <<tasks, wire, pushes>>

-----------------------------------------------------------------------------
Call(t) ==
    \/ ConnectStart(t) \/ CloseStart(t) \/ CloseQuiet(t) \/ SendRefused(t)
    \/ \E c \in Commands : SendNow(t, c) \/ SendWait(t, c)

(* Steps a suspended task takes once what it awaits has happened.          *)
Proceed(t) ==
    \/ OpenFail(t) \/ OpenOk(t) \/ LoginOk(t) \/ CloseFinish(t)
    \/ \E e \in LoginErrors : LoginFail(t, e)
    \/ Acquire(t) \/ AcquireGone(t) \/ DrainFail(t) \/ Drained(t) \/ DrainedGone(t)
    \/ Reply(t) \/ Discard(t) \/ DiscardGone(t) \/ ReadEof(t) \/ Timeout(t)

Cancel(t) == CancelConnectOrClose(t) \/ CancelWaiting(t) \/ CancelSending(t)

Device(s) == \/ DeviceAnswer(s) \/ DeviceSilent(s) \/ DevicePoisoned(s)
             \/ DevicePush(s) \/ DeviceHangup(s)

Next == \/ \E t \in Tasks : Call(t) \/ Proceed(t) \/ Cancel(t)
        \/ \E s \in Sessions : Device(s)

Spec == Init /\ [][Next]_vars

(* No task is cancelled.                                                   *)
NextUncancelled == \/ \E t \in Tasks : Call(t) \/ Proceed(t)
                   \/ \E s \in Sessions : Device(s)

SpecUncancelled == Init /\ [][NextUncancelled]_vars

-----------------------------------------------------------------------------
(* Properties                                                              *)

Sending(t) == pc[t] \in {"writing", "reading"}

(* Single flight: at most one task is between writing its line and giving   *)
(* its slot back, it is the one at the head of the lock, and its line is    *)
(* the last one written by anybody.                                        *)
SingleFlight ==
    \A t \in Tasks : Sending(t) =>
        /\ lockq # <<>> /\ Head(lockq) = t
        /\ mine[t] \in DOMAIN log /\ mine[t] = Len(log)
        /\ log[mine[t]].task = t /\ log[mine[t]].fate = "open"

(* What can go wrong with matching replies to requests is a shift: an       *)
(* answer given to a later request than its own.  It is never given to an   *)
(* earlier one, nor given twice, nor carried over to another connection.   *)
Answered(n) == log[n].fate = "answered"

RepliesNeverReused ==
    \A n \in DOMAIN log : Answered(n) /\ log[n].by # 0 =>
        /\ log[n].by <= n
        /\ log[log[n].by].session = log[n].session
        /\ \A m \in DOMAIN log : Answered(m) /\ log[m].by = log[n].by => m = n

(* A shift has a cause and an end: before a shifted reply, some call on the  *)
(* connection was given up or took an unsolicited push for its ack, and no *)
(* call since then has got the reply to its own request.                   *)
Matched(n) == Answered(n) /\ log[n].by = n

ShiftHasCause ==
    \A n \in DOMAIN log : Answered(n) /\ log[n].by \notin {0, n} =>
        \E m \in 1 .. n - 1 :
            /\ log[m].session = log[n].session
            /\ log[m].fate = "abandoned" \/ (Answered(m) /\ log[m].by = 0)
            /\ \A k \in m + 1 .. n : log[k].session = log[n].session => ~Matched(k)

(* All of that as one abstract service, with the order of service: calls    *)
(* get the line in the order they asked for it.                            *)
Serial == INSTANCE SerialRequests WITH
    Clients <- Tasks, Connections <- Sessions, queue <- lockq, slots <- log

ServesSerially == Serial!Spec

-----------------------------------------------------------------------------
(* Claim of the source that does not hold                                   *)

(* transport.py:203-205: a late reply to a timed-out request cannot be      *)
(* mistaken for the response to the current command.                       *)
LateReplyNotMistaken ==
    \A n \in DOMAIN log : Answered(n) /\ log[n].by # 0 => log[n].by = n

=============================================================================
