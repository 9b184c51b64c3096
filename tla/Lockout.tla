------------------------------ MODULE Lockout ------------------------------
(***************************************************************************)
(* The lockout budget of WattboxClient: connect() and _record_auth_failure() *)
(* of wattbox_local/client.py, with the monotonic clock they read.  What a  *)
(* login attempt ends in is up to the device.                              *)
(*                                                                         *)
(* connect() takes no lock.  Its two callers never overlap: the set-up of   *)
(* an entry (or "async with") awaits it before the client is shared, and   *)
(* _reconnect() calls it under the reconnect lock (module Client).         *)
(***************************************************************************)
EXTENDS Integers, Sequences, FiniteSets

CONSTANTS
    Callers,        \* tasks that call connect()
    Schedule,       \* AUTH_BACKOFF_SCHEDULE_S
    Cooldown,       \* LOCKOUT_COOLDOWN_S
    MaxTime,        \* bound: the clock
    MaxAttempts     \* bound: login attempts

ASSUME BudgetAssumption ==
    /\ Schedule \in Seq(Nat) /\ Schedule # <<>>
    /\ \A i \in DOMAIN Schedule : Schedule[i] > 0
    /\ Cooldown \in Nat
ASSUME LockoutBounds == MaxTime \in Nat /\ MaxAttempts \in Nat

VARIABLES
    now,            \* time.monotonic()
    auth_failures,  \* _auth_failures
    locked_until,   \* _locked_until
    began,          \* when the attempt of each caller began, or NotBegun
    log             \* history: the attempts that are over, in that order

vars == <<now, auth_failures, locked_until, began, log>>

NotBegun == -1
Outcomes == {"ok", "auth", "lockout", "error"}
Refused  == {"auth", "lockout"}
Attempts == [began : Nat, ended : Nat, outcome : Outcomes]

LTypeOK ==
    /\ now           \in Nat
    /\ auth_failures \in Nat
    /\ locked_until  \in Nat
    /\ began         \in [Callers -> Nat \cup {NotBegun}]
    /\ log           \in Seq(Attempts)

Init ==
    /\ now           = 0
    /\ auth_failures = 0
    /\ locked_until  = 0
    /\ began         = [t \in Callers |-> NotBegun]
    /\ log           = <<>>

IsLockedOut == now < locked_until

Attempting(t) == began[t] # NotBegun

-----------------------------------------------------------------------------
(* Faulty: connect() reached without the reconnect lock.                   *)
BeginOverlapping(t) ==
    /\ ~Attempting(t) /\ ~IsLockedOut
    /\ Len(log) + Cardinality({u \in Callers : Attempting(u)}) < MaxAttempts
    /\ began' = [began EXCEPT ![t] = now]
    /\ UNCHANGED <<now, auth_failures, locked_until, log>>

(* Faulty: the budget is not looked at.                                    *)
BeginUnchecked(t) ==
    /\ \A u \in Callers : ~Attempting(u)
    /\ Len(log) < MaxAttempts
    /\ began' = [began EXCEPT ![t] = now]
    /\ UNCHANGED <<now, auth_failures, locked_until, log>>

Begin(t) ==
    /\ \A u \in Callers : ~Attempting(u)
    /\ ~IsLockedOut
    /\ Len(log) < MaxAttempts
    /\ began' = [began EXCEPT ![t] = now]
    /\ UNCHANGED <<now, auth_failures, locked_until, log>>

(* WattboxLockoutError without an attempt.                                 *)
RaiseLockedOut(t) ==
    /\ ~Attempting(t) /\ IsLockedOut
    /\ UNCHANGED vars

Over(t, outcome) ==
    /\ Attempting(t)
    /\ began' = [began EXCEPT ![t] = NotBegun]
    /\ log' = Append(log, [began |-> began[t], ended |-> now, outcome |-> outcome])
    /\ UNCHANGED now

(* Faulty: a success makes up for one failure.                             *)
SucceedForgivesOne(t) ==
    /\ Over(t, "ok")
    /\ auth_failures' = auth_failures - 1
    /\ UNCHANGED locked_until

Succeed(t) ==
    /\ Over(t, "ok")
    /\ auth_failures' = 0
    /\ UNCHANGED locked_until

Backoff(n) == Schedule[IF n <= Len(Schedule) THEN n ELSE Len(Schedule)]

(* Faulty: the count is read before it is incremented.                     *)
RecordStaleCount(t) ==
    /\ Over(t, "auth")
    /\ auth_failures' = auth_failures + 1
    /\ locked_until' = now + Backoff(IF auth_failures = 0 THEN 1 ELSE auth_failures)

(* WattboxAuthError: _record_auth_failure().                               *)
RecordAuthFailure(t) ==
    /\ Over(t, "auth")
    /\ auth_failures' = auth_failures + 1
    /\ locked_until' = now + Backoff(auth_failures + 1)

(* WattboxLockoutError from the device.                                    *)
DeviceLocked(t) ==
    /\ Over(t, "lockout")
    /\ locked_until' = now + Cooldown
    /\ UNCHANGED auth_failures

(* Any other exception, cancellation included.                             *)
Fail(t) ==
    /\ Over(t, "error")
    /\ UNCHANGED <<auth_failures, locked_until>>

Tick ==
    /\ now < MaxTime
    /\ now' = now + 1
    /\ UNCHANGED <<auth_failures, locked_until, began, log>>

-----------------------------------------------------------------------------
Next ==
    \/ \E t \in Callers : \/ Begin(t) \/ RaiseLockedOut(t)
                          \/ Succeed(t) \/ RecordAuthFailure(t) \/ DeviceLocked(t) \/ Fail(t)
    \/ Tick

Spec == Init /\ [][Next]_vars

-----------------------------------------------------------------------------
(* Properties                                                              *)

(* The attempts up to the k-th that failed for the credentials since the    *)
(* last success.                                                           *)
Failures(k) ==
    {i \in 1 .. k : log[i].outcome = "auth" /\ \A j \in i .. k : log[j].outcome # "ok"}

(* How long the device is to be left alone after the k-th attempt.         *)
Pause(k) == IF log[k].outcome = "auth" THEN Backoff(Cardinality(Failures(k))) ELSE Cooldown

(* client.py:17-22: whatever succeeds, fails otherwise or is cancelled in   *)
(* between, no attempt begins before the pause that every earlier refusal  *)
(* calls for is over: 30 s after the first bad login, then 60, 120 and 300, *)
(* 20 minutes after the device reported a lockout.                         *)
Spaced ==
    \A k, m \in DOMAIN log : k < m /\ log[k].outcome \in Refused =>
        log[m].began >= log[k].ended + Pause(k)

(* A cooldown is never cut short: not by a later, smaller one, and not by a *)
(* success.                                                                *)
CooldownNeverShortened == [][locked_until' >= locked_until]_vars

=============================================================================
