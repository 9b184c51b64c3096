------------------------------- MODULE Client -------------------------------
(***************************************************************************)
(* WattboxClient._send(), _reconnect(), connect() and close() of           *)
(* wattbox_local/client.py on top of the transport: several tasks share    *)
(* one client, each call sends its line at most twice, and a reconnect     *)
(* lock keeps two tasks from logging in at once.                           *)
(*                                                                         *)
(* Discipline of the callers, both in the integration and in "async with": *)
(* connect() has returned before anything else starts, and no call starts  *)
(* once close() has; calls may still be running then.                      *)
(*                                                                         *)
(* Where a task goes on without suspending, from the return of a transport  *)
(* call to the next one or to a free reconnect lock, other tasks may take   *)
(* steps here that they cannot take in the program: every interleaving of  *)
(* the program is one of the module's.                                     *)
(*                                                                         *)
(* The clock of the lockout budget is left to the module Lockout: here the *)
(* client is in its cooldown or not.                                       *)
(***************************************************************************)
EXTENDS Transport

VARIABLES
    step,       \* where each task is in the client's code
    line,       \* the command _send() was called with
    tries,      \* how often this call has called send_command()
    rlockq,     \* _reconnect_lock: its holder, then its waiters
    locked,     \* is_locked_out
    shutdown,   \* close() has been called
    from,       \* history: the length of log when the call of a task began
    relogged    \* history: the connection this call last logged in on, or 0

call  == <<line, tries, from, relogged>>
cvars == <<step, line, tries, rlockq, locked, shutdown, from, relogged>>
allvars == <<vars, cvars>>

Steps == {"idle", "sending", "reconnecting", "resend", "connecting", "failing",
          "refusing", "closing"}

CTypeOK ==
    /\ TypeOK
    /\ step     \in [Tasks -> Steps]
    /\ line     \in [Tasks -> Commands]
    /\ tries    \in [Tasks -> 0 .. 2]
    /\ rlockq   \in Seq(Tasks)
    /\ locked   \in BOOLEAN
    /\ shutdown \in BOOLEAN
    /\ from     \in [Tasks -> Nat]
    /\ relogged \in [Tasks -> 0 .. MaxSessions]

CInit ==
    /\ Init
    /\ step     = [t \in Tasks |-> "idle"]
    /\ line     = [t \in Tasks |-> NoCommand]
    /\ tries    = [t \in Tasks |-> 0]
    /\ rlockq   = <<>>
    /\ locked   = FALSE
    /\ shutdown = FALSE
    /\ from     = [t \in Tasks |-> 0]
    /\ relogged = [t \in Tasks |-> 0]

Goto(t, s) == step' = [step EXCEPT ![t] = s]

(* The call of t is over; its history is kept until the next one if it      *)
(* raised WattboxConnectionError.                                          *)
Done(t, failed) ==
    /\ Goto(t, "idle")
    /\ line'     = [line EXCEPT ![t] = NoCommand]
    /\ tries'    = [tries EXCEPT ![t] = 0]
    /\ from'     = [from EXCEPT ![t] = IF failed THEN @ ELSE 0]
    /\ relogged' = [relogged EXCEPT ![t] = IF failed THEN @ ELSE 0]
    /\ UNCHANGED shutdown

Calling(t) == step[t] \in {"sending", "reconnecting", "resend"}

(* The lines the call of t has written so far.                             *)
Written(t) == {n \in DOMAIN log : n > from[t] /\ log[n].task = t}

-----------------------------------------------------------------------------
(* connect() and close() of the user                                       *)

Starting == \E u \in Tasks : step[u] \in {"connecting", "failing", "refusing"}

UserConnect(t) ==
    /\ \A u \in Tasks : step[u] = "idle"
    /\ ~shutdown /\ ~locked /\ session = 0 /\ ~closed
    /\ ConnectStart(t)
    /\ Goto(t, "connecting")
    /\ UNCHANGED <<call, rlockq, locked, shutdown>>

UserConnected(t) ==
    /\ step[t] = "connecting"
    /\ LoginOk(t)
    /\ Goto(t, "idle")
    /\ UNCHANGED <<call, rlockq, locked, shutdown>>

UserConnectFails(t) ==
    /\ step[t] = "connecting"
    /\ \/ OpenFail(t) /\ Goto(t, "idle")
       \/ \E e \in LoginErrors :
            /\ LoginFail(t, e)
            /\ Goto(t, IF e \in {"AuthError", "LockoutError"} THEN "refusing" ELSE "failing")
    /\ UNCHANGED <<call, rlockq, locked, shutdown>>

(* transport.connect() has closed the transport and re-raises the error;    *)
(* one that refuses the login starts the cooldown.                         *)
UserConnectRaises(t) ==
    /\ step[t] \in {"failing", "refusing"}
    /\ CloseFinish(t)
    /\ Goto(t, "idle")
    /\ locked' = (locked \/ step[t] = "refusing")
    /\ UNCHANGED <<call, rlockq, shutdown>>

UserClose(t) ==
    /\ step[t] = "idle" /\ ~shutdown /\ ~Starting
    /\ \/ CloseStart(t) /\ Goto(t, "closing")
       \/ CloseQuiet(t) /\ UNCHANGED step
    /\ shutdown' = TRUE
    /\ UNCHANGED <<call, rlockq, locked>>

UserClosed(t) ==
    /\ step[t] = "closing"
    /\ CloseFinish(t)
    /\ Goto(t, "idle")
    /\ UNCHANGED <<call, rlockq, locked, shutdown>>

-----------------------------------------------------------------------------
(* _send(): the first send_command(), or a reconnect when not connected    *)

(* Bound: two lines for every call, written or not.                        *)
MayBegin ==
    LET active  == {u \in Tasks : Calling(u)}
        written == UNION {Written(u) : u \in active}
    IN Len(log) + 2 * Cardinality(active) - Cardinality(written) + 2 <= MaxRequests

Begin(t, c) ==
    /\ step[t] = "idle" /\ ~shutdown /\ ~Starting /\ (session # 0 \/ closed) /\ MayBegin
    /\ line' = [line EXCEPT ![t] = c]
    /\ from' = [from EXCEPT ![t] = Len(log)]
    /\ relogged' = [relogged EXCEPT ![t] = 0]
    /\ UNCHANGED <<locked, shutdown>>

SendFirst(t, c) ==
    /\ Begin(t, c)
    /\ SendNow(t, c) \/ SendWait(t, c)
    /\ tries' = [tries EXCEPT ![t] = 1]
    /\ Goto(t, "sending")
    /\ UNCHANGED rlockq

AskReconnect(t) ==
    /\ Goto(t, "reconnecting")
    /\ rlockq' = Append(rlockq, t)

SendOffline(t, c) ==
    /\ ~IsConnected
    /\ Begin(t, c)
    /\ AskReconnect(t)
    /\ UNCHANGED <<vars, tries>>

(* send_command() again, once the reconnect is over.                       *)
SendAgain(t) ==
    /\ step[t] = "resend" /\ IsConnected
    /\ SendNow(t, line[t]) \/ SendWait(t, line[t])
    /\ tries' = [tries EXCEPT ![t] = @ + 1]
    /\ Goto(t, "sending")
    /\ UNCHANGED <<line, rlockq, locked, shutdown, from, relogged>>

(* Faulty: as long as the connection drops the call tries again.           *)
ConnectionErrorRetries(t, n) ==
    /\ AskReconnect(t)
    /\ tries' = [tries EXCEPT ![t] = n]
    /\ UNCHANGED <<line, shutdown, from, relogged>>

(* send_command() raised WattboxConnectionError the n-th time.             *)
ConnectionErrorAt(t, n) ==
    \/ /\ n = 1
       /\ AskReconnect(t)
       /\ tries' = [tries EXCEPT ![t] = n]
       /\ UNCHANGED <<line, shutdown, from, relogged>>
    \/ /\ n = 2
       /\ Done(t, TRUE)
       /\ UNCHANGED rlockq

SendAgainRefused(t) ==
    /\ step[t] = "resend" /\ ~IsConnected
    /\ ConnectionErrorAt(t, tries[t] + 1)
    /\ UNCHANGED <<vars, locked>>

SendOn(t) ==
    /\ step[t] = "sending"
    /\ Acquire(t) \/ Drained(t) \/ Discard(t)
    /\ UNCHANGED cvars

(* Faulty: "#Error" is taken for a connection error.                       *)
SendAnsweredRetried(t) ==
    /\ step[t] = "sending"
    /\ Reply(t)
    /\ ConnectionErrorAt(t, tries[t])
    /\ UNCHANGED locked

SendAnswered(t) ==
    /\ step[t] = "sending"
    /\ Reply(t)
    /\ Done(t, FALSE)
    /\ UNCHANGED <<rlockq, locked>>

SendDropped(t) ==
    /\ step[t] = "sending"
    /\ DrainFail(t) \/ ReadEof(t) \/ Timeout(t)
    /\ ConnectionErrorAt(t, tries[t])
    /\ UNCHANGED locked

(* An exception that _send() does not catch.                               *)
SendCrashed(t) ==
    /\ step[t] = "sending"
    /\ AcquireGone(t) \/ DrainedGone(t) \/ DiscardGone(t)
    /\ Done(t, FALSE)
    /\ UNCHANGED <<rlockq, locked>>

-----------------------------------------------------------------------------
(* _reconnect()                                                            *)

(* Faulty: without the reconnect lock.                                     *)
InReconnectUnlocked(t) == step[t] = "reconnecting" /\ pc[t] = "idle"

InReconnect(t) == step[t] = "reconnecting" /\ pc[t] = "idle" /\ Head(rlockq) = t

(* Another task was faster, or the transport never noticed the drop.       *)
ReconnectFound(t) ==
    /\ InReconnect(t) /\ IsConnected
    /\ rlockq' = Tail(rlockq)
    /\ Goto(t, "resend")
    /\ UNCHANGED <<vars, call, locked, shutdown>>

(* transport.close(), then connect() raises WattboxLockoutError.           *)
ReconnectLocked(t) ==
    /\ InReconnect(t) /\ locked
    /\ CloseQuiet(t)
    /\ rlockq' = Tail(rlockq)
    /\ Done(t, FALSE)
    /\ UNCHANGED locked

(* Faulty: the old connection is not closed first.                         *)
ReopenUnclosed(t) ==
    /\ InReconnect(t) /\ ~IsConnected /\ ~locked
    /\ ConnectStart(t)
    /\ UNCHANGED cvars

(* transport.close(), then transport.connect().                            *)
Reopen(t) ==
    /\ InReconnect(t) /\ ~IsConnected /\ ~locked
    /\ closed' = TRUE
    /\ session' = 0
    /\ stage' = [stage EXCEPT ![session] = "ended"]
    /\ pc' = [pc EXCEPT ![t] = "opening"]
    /\ UNCHANGED <<wire, lockq, cmd, at, mine, log, pushes, cvars>>

Opened(t) == OpenOk(t) /\ UNCHANGED cvars

ReconnectOk(t) ==
    /\ step[t] = "reconnecting"
    /\ LoginOk(t)
    /\ rlockq' = Tail(rlockq)
    /\ relogged' = [relogged EXCEPT ![t] = session]
    /\ Goto(t, "resend")
    /\ UNCHANGED <<line, tries, from, locked, shutdown>>

(* Faulty: a reconnect that fails keeps the lock.                          *)
ReconnectFailsLocked(t) ==
    /\ step[t] = "reconnecting"
    /\ OpenFail(t) \/ \E e \in LoginErrors : LoginFail(t, e)
    /\ Done(t, TRUE)
    /\ UNCHANGED <<rlockq, locked>>

(* The error of the reconnect is the error of _send(); the transport is     *)
(* closed already, so that no "!Exit" is said.                             *)
ReconnectFails(t) ==
    /\ step[t] = "reconnecting"
    /\ \/ OpenFail(t) /\ Done(t, TRUE) /\ UNCHANGED locked
       \/ \E e \in LoginErrors :
            /\ LoginFail(t, e)
            /\ Done(t, e = "ConnectionError")
            /\ locked' = (locked \/ e \in {"AuthError", "LockoutError"})
    /\ rlockq' = Tail(rlockq)

CooldownEnds ==
    /\ locked
    /\ locked' = FALSE
    /\ UNCHANGED <<vars, step, call, rlockq, shutdown>>

-----------------------------------------------------------------------------
(* Cancellation, wherever the task is suspended                            *)

Interrupted(t) ==
    \/ pc[t] # "idle" /\ Cancel(t)
    \/ pc[t] = "idle" /\ UNCHANGED vars

CancelCall(t) ==
    /\ step[t] # "idle"
    /\ Interrupted(t)
    /\ Done(t, FALSE)
    /\ \/ \E i \in DOMAIN rlockq : rlockq[i] = t /\ rlockq' = RemoveAt(rlockq, i)
       \/ (\A i \in DOMAIN rlockq : rlockq[i] # t) /\ UNCHANGED rlockq
    /\ UNCHANGED locked

-----------------------------------------------------------------------------
ClientProceeds(t) ==
    \/ UserConnected(t) \/ UserConnectFails(t) \/ UserConnectRaises(t) \/ UserClosed(t)
    \/ SendAgain(t) \/ SendAgainRefused(t) \/ SendOn(t)
    \/ SendAnswered(t) \/ SendDropped(t) \/ SendCrashed(t)
    \/ ReconnectFound(t) \/ ReconnectLocked(t) \/ Reopen(t) \/ Opened(t)
    \/ ReconnectOk(t) \/ ReconnectFails(t)

ClientCall(t) ==
    \/ UserConnect(t) \/ UserClose(t)
    \/ \E c \in Commands : SendFirst(t, c) \/ SendOffline(t, c)

CNext ==
    \/ \E t \in Tasks : ClientCall(t) \/ ClientProceeds(t) \/ CancelCall(t)
    \/ \E s \in Sessions : Device(s) /\ UNCHANGED cvars
    \/ CooldownEnds

CSpec == CInit /\ [][CNext]_allvars

CNextUncancelled ==
    \/ \E t \in Tasks : ClientCall(t) \/ ClientProceeds(t)
    \/ \E s \in Sessions : Device(s) /\ UNCHANGED cvars
    \/ CooldownEnds

CSpecUncancelled == CInit /\ [][CNextUncancelled]_allvars

(* The event loop runs what is ready, timers included; callers and device   *)
(* owe nothing.                                                            *)
CFairSpec == CSpec /\ \A t \in Tasks : WF_allvars(ClientProceeds(t))

-----------------------------------------------------------------------------
(* Properties                                                              *)

Live == {"login", "poisoned", "ready"}

(* README.md:180 asks for one long-lived connection per device, which takes *)
(* ten at most: however reconnects, cancellations and close() interleave,  *)
(* a client has one connection open at most.                               *)
OneConnection ==
    \A r, s \in Sessions : stage[r] \in Live /\ stage[s] \in Live => r = s

(* Nobody logs in while another task does: the holder of the reconnect lock *)
(* is the only one in connect().                                           *)
OneLogin ==
    \A t, u \in Tasks : pc[t] \in {"opening", "login"} /\ pc[u] \in {"opening", "login"} => t = u

(* A call repeats its own line only, once, and never after an answer: as    *)
(* long as it runs, what it has written was given up or is in flight.      *)
RepeatsOnlyUnanswered ==
    \A t \in Tasks : Calling(t) =>
        /\ Cardinality(Written(t)) <= 2
        /\ \A n \in Written(t) : /\ log[n].cmd = line[t]
                                 /\ log[n].fate = IF Sending(t) /\ n = mine[t]
                                                  THEN "open" ELSE "abandoned"

(* Every call of the client returns, whatever the device does: the two      *)
(* locks are handed on in turn, a read is bounded by its timer, and a call *)
(* has two tries.                                                          *)
ClientReturns == \A t \in Tasks : (step[t] # "idle") ~> (step[t] = "idle")

-----------------------------------------------------------------------------
(* Claims of the source that do not hold                                   *)

(* client.py:23-24 promises a transparent reconnect: a call that logged in  *)
(* again, on a connection that is still up, has sent its line over it      *)
(* before it raises.                                                       *)
ReconnectRestores ==
    \A t \in Tasks : step[t] = "idle" /\ stage[relogged[t]] = "ready" /\ ~shutdown =>
        \E n \in Written(t) : log[n].session = relogged[t]

(* test_client.py:374 "Should transparently reconnect and re-issue": a call   *)
(* whose line was lost with the connection repeats it on another one.  But   *)
(* is_connected does not see that the device is gone (transport.py:286,      *)
(* 431): the call finds the dead connection in place, and repeats its line   *)
(* over that.                                                              *)
DropReconnects ==
    [][\A t \in Tasks : ReconnectFound(t) /\ stage[session] = "ended" =>
           \A n \in Written(t) : log[n].session # session]_allvars

=============================================================================
