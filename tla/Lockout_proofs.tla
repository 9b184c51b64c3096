--------------------------- MODULE Lockout_proofs ---------------------------
(***************************************************************************)
(* Proofs about Lockout, for every schedule, cooldown and set of callers.   *)
(*                                                                         *)
(* What is inductive: the counter counts the failures since the last       *)
(* success (Counted), locked_until covers the pause after every refusal    *)
(* (Covered), and the attempt that runs, of which there is one at most,    *)
(* began when no cooldown was active (Waited).                             *)
(***************************************************************************)
EXTENDS Lockout, FiniteSetTheorems, TLAPS

Counted == auth_failures = Cardinality(Failures(Len(log)))

Covered == \A k \in DOMAIN log : log[k].outcome \in Refused =>
                log[k].ended + Pause(k) <= locked_until

Waited ==
    /\ \A t \in Callers : Attempting(t) => locked_until <= began[t] /\ began[t] <= now
    /\ \A t, u \in Callers : Attempting(t) /\ Attempting(u) => t = u

LInv == LTypeOK /\ Counted /\ Covered /\ Waited /\ Spaced

-----------------------------------------------------------------------------
(* The failures counted at any attempt are finitely many.                  *)
LEMMA FailuresFinite ==
    ASSUME NEW k \in Nat
    PROVE  /\ IsFiniteSet(Failures(k)) /\ Cardinality(Failures(k)) \in Nat
           /\ Failures(k) \subseteq 1 .. k
<1>1. Failures(k) \subseteq 1 .. k
  BY DEF Failures
<1>2. IsFiniteSet(1 .. k)
  BY FS_Interval
<1>. QED
  BY <1>1, <1>2, FS_Subset, FS_CardinalityType

(* Every step of the schedule is a positive number of time units.          *)
LEMMA BackoffPositive ==
    ASSUME NEW n \in Nat, n > 0
    PROVE  Backoff(n) \in Nat /\ Backoff(n) > 0
<1>1. Len(Schedule) \in Nat /\ Len(Schedule) > 0 /\ DOMAIN Schedule = 1 .. Len(Schedule)
  BY BudgetAssumption
<1>2. (IF n <= Len(Schedule) THEN n ELSE Len(Schedule)) \in DOMAIN Schedule
  BY <1>1
<1>3. \A i \in DOMAIN Schedule : Schedule[i] \in Nat /\ Schedule[i] > 0
  BY BudgetAssumption
<1>. QED
  BY <1>2, <1>3 DEF Backoff

(* A refused attempt for bad credentials is itself among its failures, so   *)
(* that every refusal calls for a pause.                                   *)
LEMMA PauseTyped ==
    ASSUME LTypeOK, NEW k \in DOMAIN log, log[k].outcome \in Refused
    PROVE  Pause(k) \in Nat
<1>1. k \in Nat /\ k \in 1 .. k
  BY DEF LTypeOK
<1>2. CASE log[k].outcome = "auth"
  <2>1. k \in Failures(k)
    BY <1>1, <1>2 DEF Failures
  <2>2. Cardinality(Failures(k)) > 0
    BY <1>1, <2>1, FailuresFinite, FS_EmptySet
  <2>. QED
    BY <1>1, <1>2, <2>2, FailuresFinite, BackoffPositive DEF Pause
<1>3. CASE log[k].outcome = "lockout"
  BY <1>3, BudgetAssumption DEF Pause
<1>. QED
  BY <1>2, <1>3 DEF Refused

(* An attempt that is over leaves the earlier ones and their pauses alone.  *)
LEMMA Kept ==
    ASSUME LTypeOK, NEW e \in Attempts, log' = Append(log, e)
    PROVE  /\ log' \in Seq(Attempts)
           /\ Len(log') = Len(log) + 1 /\ log'[Len(log) + 1] = e
           /\ \A k \in DOMAIN log : /\ k \in DOMAIN log'
                                   /\ log'[k] = log[k]
                                   /\ Failures(k)' = Failures(k)
                                   /\ Pause(k)' = Pause(k)
           /\ DOMAIN log' = DOMAIN log \cup {Len(log) + 1}
<1>1. log \in Seq(Attempts) /\ Len(log) \in Nat /\ DOMAIN log = 1 .. Len(log)
  BY DEF LTypeOK
<1>2. /\ log' \in Seq(Attempts) /\ Len(log') = Len(log) + 1
      /\ log'[Len(log) + 1] = e /\ DOMAIN log' = 1 .. Len(log) + 1
      /\ \A k \in DOMAIN log : log'[k] = log[k]
  BY <1>1
<1>3. ASSUME NEW k \in DOMAIN log
      PROVE  Failures(k)' = Failures(k) /\ Pause(k)' = Pause(k)
  <2>1. 1 .. k \subseteq DOMAIN log
    BY <1>1
  <2>2. \A i \in 1 .. k : log'[i] = log[i] /\ \A j \in i .. k : log'[j] = log[j]
    BY <1>1, <1>2, <2>1
  <2>3. Failures(k)' = Failures(k)
    BY <2>2 DEF Failures
  <2>. QED
    BY <1>2, <2>3 DEF Pause, Backoff
<1>. QED
  BY <1>1, <1>2, <1>3

(* How the count of failures goes on with the next attempt.                *)
LEMMA CountNext ==
    ASSUME LTypeOK, NEW e \in Attempts, log' = Append(log, e)
    PROVE  Cardinality(Failures(Len(log))') =
             CASE e.outcome = "ok"   -> 0
               [] e.outcome = "auth" -> Cardinality(Failures(Len(log))) + 1
               [] OTHER              -> Cardinality(Failures(Len(log)))
<1>. DEFINE n == Len(log)
            F == Failures(n)
<1>1. n \in Nat /\ DOMAIN log = 1 .. n
  BY DEF LTypeOK
<1>2. Len(log') = n + 1 /\ log'[n + 1] = e /\ \A i \in 1 .. n : log'[i] = log[i]
  BY <1>1, Kept
<1>3. Failures(Len(log))' = {i \in 1 .. n + 1 : log'[i].outcome = "auth"
                                /\ \A j \in i .. n + 1 : log'[j].outcome # "ok"}
  BY <1>2 DEF Failures
<1>4. CASE e.outcome = "ok"
  <2>1. Failures(Len(log))' = {}
    BY <1>1, <1>2, <1>3, <1>4
  <2>. QED
    BY <1>4, <2>1, FS_EmptySet
<1>5. ASSUME e.outcome # "ok", NEW i \in 1 .. n
      PROVE  (\A j \in i .. n + 1 : log'[j].outcome # "ok")
               <=> (\A j \in i .. n : log[j].outcome # "ok")
  BY <1>1, <1>2, <1>5
<1>6. CASE e.outcome = "auth"
  <2>1. Failures(Len(log))' = F \cup {n + 1}
    BY <1>1, <1>2, <1>3, <1>5, <1>6 DEF Failures
  <2>2. n + 1 \notin F /\ IsFiniteSet(F)
    BY <1>1, FailuresFinite
  <2>3. Cardinality(F \cup {n + 1}) = Cardinality(F) + 1
    BY <2>2, FS_AddElement
  <2>. QED
    BY <1>6, <2>1, <2>3
<1>7. CASE e.outcome \notin {"ok", "auth"}
  <2>1. Failures(Len(log))' = F
    BY <1>1, <1>2, <1>3, <1>5, <1>7 DEF Failures
  <2>. QED
    BY <1>7, <2>1
<1>. QED
  BY <1>4, <1>6, <1>7

-----------------------------------------------------------------------------
(* The invariant holds initially.                                          *)
LEMMA LInvInit == Init => LInv
<1>. SUFFICES ASSUME Init PROVE LInv
  OBVIOUS
<1>1. LTypeOK
  BY DEF Init, LTypeOK
<1>2. Failures(Len(log)) = {}
  BY DEF Init, Failures
<1>3. Counted
  BY <1>2, FS_EmptySet DEF Init, Counted
<1>4. Covered /\ Spaced
  BY DEF Init, Covered, Spaced
<1>5. Waited
  BY DEF Init, Waited, Attempting
<1>. QED
  BY <1>1, <1>3, <1>4, <1>5 DEF LInv

(* An attempt that ends, with a cooldown that has not become shorter and    *)
(* that covers the pause it calls for itself, keeps the history in order.  *)
LEMMA OverKeeps ==
    ASSUME LInv, NEW t \in Callers, NEW o \in Outcomes, Over(t, o),
           locked_until' \in Nat, locked_until' >= locked_until,
           o \in Refused => now + Pause(Len(log))' <= locked_until'
    PROVE  /\ began' \in [Callers -> Nat \cup {NotBegun}] /\ log' \in Seq(Attempts)
           /\ now' = now
           /\ Covered' /\ Waited' /\ Spaced'
<1>. DEFINE e == [began |-> began[t], ended |-> now, outcome |-> o]
            n == Len(log)
<1>1. LTypeOK /\ Covered /\ Waited /\ Spaced
  BY DEF LInv
<1>2. /\ Attempting(t) /\ log' = Append(log, e) /\ now' = now
      /\ began' = [began EXCEPT ![t] = NotBegun]
  BY DEF Over
<1>3. began[t] \in Nat /\ e \in Attempts
  BY <1>1, <1>2 DEF LTypeOK, Attempting, Attempts
<1>4. /\ log' \in Seq(Attempts) /\ log'[n + 1] = e
      /\ DOMAIN log' = DOMAIN log \cup {n + 1}
      /\ \A k \in DOMAIN log : log'[k] = log[k] /\ Pause(k)' = Pause(k)
  BY <1>1, <1>2, <1>3, Kept
<1>5. n \in Nat /\ DOMAIN log = 1 .. n
      /\ \A k \in DOMAIN log : log[k].began \in Nat /\ log[k].ended \in Nat
  <2>1. log \in Seq(Attempts)
    BY <1>1 DEF LTypeOK
  <2>2. n \in Nat /\ DOMAIN log = 1 .. n /\ \A k \in DOMAIN log : log[k] \in Attempts
    BY <2>1
  <2>. QED
    BY <2>2 DEF Attempts
<1>6. \A k \in DOMAIN log : log[k].outcome \in Refused => Pause(k) \in Nat
  BY <1>1, PauseTyped
<1>7. Covered'
  <2>. SUFFICES ASSUME NEW k \in DOMAIN log', log'[k].outcome \in Refused
                PROVE  log'[k].ended + Pause(k)' <= locked_until'
    BY DEF Covered
  <2>1. CASE k \in DOMAIN log
    <3>1. log[k].ended + Pause(k) <= locked_until
      BY <1>1, <1>4, <2>1 DEF Covered
    <3>2. locked_until \in Nat /\ log[k].ended \in Nat /\ Pause(k) \in Nat
      BY <1>1, <1>4, <1>5, <1>6, <2>1 DEF LTypeOK
    <3>. QED
      BY <1>4, <2>1, <3>1, <3>2
  <2>2. CASE k = n + 1
    <3>1. Len(log') = k
      BY <1>1, <1>2, <1>3, <2>2, Kept
    <3>2. Pause(Len(log))' = Pause(k)'
      BY <3>1 DEF Pause, Failures, Backoff
    <3>. QED
      BY <1>4, <2>2, <3>2
  <2>. QED
    BY <1>4, <2>1, <2>2
<1>8. Waited'
  BY <1>1, <1>2 DEF Waited, Attempting, LTypeOK, NotBegun
<1>9. Spaced'
  <2>. SUFFICES ASSUME NEW k \in DOMAIN log', NEW m \in DOMAIN log', k < m,
                       log'[k].outcome \in Refused
                PROVE  log'[m].began >= log'[k].ended + Pause(k)'
    BY DEF Spaced
  <2>1. k \in DOMAIN log
    BY <1>4, <1>5
  <2>2. CASE m \in DOMAIN log
    BY <1>1, <1>4, <2>1, <2>2 DEF Spaced
  <2>3. CASE m = n + 1
    <3>1. log[k].ended + Pause(k) <= locked_until
      BY <1>1, <1>4, <2>1 DEF Covered
    <3>2. locked_until <= began[t] /\ locked_until \in Nat
      BY <1>1, <1>2 DEF Waited, LTypeOK
    <3>3. log[k].ended \in Nat /\ Pause(k) \in Nat
      BY <1>4, <1>5, <1>6, <2>1
    <3>. QED
      BY <1>3, <1>4, <2>1, <2>3, <3>1, <3>2, <3>3
  <2>. QED
    BY <1>4, <2>2, <2>3
<1>10. began' \in [Callers -> Nat \cup {NotBegun}]
  BY <1>1, <1>2 DEF LTypeOK
<1>. QED
  BY <1>2, <1>4, <1>7, <1>8, <1>9, <1>10

(* A step that adds nothing to the history leaves what is said of it alone. *)
LEMMA HistoryKept ==
    ASSUME log' = log
    PROVE  /\ \A k : Pause(k)' = Pause(k)
           /\ Failures(Len(log))' = Failures(Len(log))
<1>1. \A k : Failures(k)' = Failures(k)
  BY DEF Failures
<1>2. Failures(Len(log))' = Failures(Len(log))
  BY DEF Failures
<1>. QED
  BY <1>1, <1>2 DEF Pause, Backoff

(* While an attempt runs, no cooldown is active.                           *)
LEMMA AttemptUnlocked ==
    ASSUME LInv, NEW t \in Callers, Attempting(t)
    PROVE  locked_until <= now
<1>1. locked_until <= began[t] /\ began[t] <= now
  BY DEF LInv, Waited
<1>2. locked_until \in Nat /\ began[t] \in Nat /\ now \in Nat
  BY DEF LInv, LTypeOK, Attempting
<1>. QED
  BY <1>1, <1>2

(* No step of the budget shortens a cooldown.                              *)
LEMMA NotShortened ==
    ASSUME LInv, Next
    PROVE  locked_until' \in Nat /\ locked_until' >= locked_until
<1>. USE DEF LInv, LTypeOK
<1>1. ASSUME NEW t \in Callers, RecordAuthFailure(t)
      PROVE  locked_until' \in Nat /\ locked_until' >= locked_until
  <2>1. Attempting(t) /\ locked_until' = now + Backoff(auth_failures + 1)
    BY <1>1 DEF RecordAuthFailure, Over
  <2>2. Backoff(auth_failures + 1) \in Nat
    BY BackoffPositive
  <2>. QED
    BY <2>1, <2>2, AttemptUnlocked
<1>2. ASSUME NEW t \in Callers, DeviceLocked(t)
      PROVE  locked_until' \in Nat /\ locked_until' >= locked_until
  <2>1. Attempting(t) /\ locked_until' = now + Cooldown
    BY <1>2 DEF DeviceLocked, Over
  <2>. QED
    BY <2>1, AttemptUnlocked, BudgetAssumption
<1>3. ASSUME NEW t \in Callers,
             Begin(t) \/ RaiseLockedOut(t) \/ Succeed(t) \/ Fail(t)
      PROVE  locked_until' = locked_until
  BY <1>3 DEF Begin, RaiseLockedOut, Succeed, Fail, vars
<1>4. ASSUME Tick PROVE locked_until' = locked_until
  BY <1>4 DEF Tick
<1>. QED
  BY <1>1, <1>2, <1>3, <1>4 DEF Next

(* Every step keeps the invariant.                                         *)
LEMMA LInvNext == LInv /\ [Next]_vars => LInv'
<1>. SUFFICES ASSUME LInv, [Next]_vars PROVE LInv'
  OBVIOUS
<1>1. LTypeOK /\ Counted /\ Covered /\ Waited /\ Spaced
  BY DEF LInv
<1>3. ASSUME NEW t \in Callers, NEW o \in Outcomes, Over(t, o)
      PROVE  /\ log'[Len(log')].outcome = o
             /\ Cardinality(Failures(Len(log))') =
                  CASE o = "ok"   -> 0
                    [] o = "auth" -> auth_failures + 1
                    [] OTHER      -> auth_failures
  <2>. DEFINE e == [began |-> began[t], ended |-> now, outcome |-> o]
  <2>1. e \in Attempts /\ log' = Append(log, e)
    BY <1>1, <1>3 DEF Over, Attempting, Attempts, LTypeOK
  <2>2. e.outcome = o
    OBVIOUS
  <2>. HIDE DEF e
  <2>3. log'[Len(log')].outcome = o
    BY <1>1, <2>1, <2>2, Kept
  <2>4. Cardinality(Failures(Len(log))') =
          CASE o = "ok"   -> 0
            [] o = "auth" -> Cardinality(Failures(Len(log))) + 1
            [] OTHER      -> Cardinality(Failures(Len(log)))
    BY <1>1, <2>1, <2>2, CountNext
  <2>. QED
    BY <1>1, <2>3, <2>4 DEF Counted
<1>4. ASSUME NEW t \in Callers, Succeed(t) PROVE LInv'
  <2>1. Over(t, "ok") /\ auth_failures' = 0 /\ locked_until' = locked_until
    BY <1>4 DEF Succeed
  <2>2. Covered' /\ Waited' /\ Spaced' /\ LTypeOK'
    BY <1>1, <2>1, OverKeeps DEF LTypeOK, Outcomes, Refused
  <2>3. Counted'
    BY <1>3, <2>1 DEF Counted, Outcomes
  <2>. QED
    BY <2>2, <2>3 DEF LInv
<1>5. ASSUME NEW t \in Callers, RecordAuthFailure(t) PROVE LInv'
  <2>1. /\ Over(t, "auth") /\ auth_failures' = auth_failures + 1
        /\ locked_until' = now + Backoff(auth_failures + 1)
    BY <1>5 DEF RecordAuthFailure
  <2>2. Counted'
    BY <1>3, <2>1 DEF Counted, Outcomes
  <2>3. Pause(Len(log))' = Backoff(auth_failures + 1)
    <3>1. log'[Len(log')].outcome = "auth"
      BY <1>3, <2>1 DEF Outcomes
    <3>2. Cardinality(Failures(Len(log)))' = auth_failures + 1
      BY <2>1, <2>2 DEF Counted
    <3>. QED
      BY <3>1, <3>2 DEF Pause, Backoff
  <2>4. locked_until' \in Nat /\ locked_until' >= locked_until
    BY <1>5, NotShortened DEF Next
  <2>5. now + Backoff(auth_failures + 1) <= locked_until'
    BY <2>1, <2>4
  <2>6. Covered' /\ Waited' /\ Spaced' /\ LTypeOK'
    BY <1>1, <2>1, <2>3, <2>4, <2>5, OverKeeps DEF LTypeOK, Outcomes
  <2>. QED
    BY <2>2, <2>6 DEF LInv
<1>6. ASSUME NEW t \in Callers, DeviceLocked(t) PROVE LInv'
  <2>1. /\ Over(t, "lockout") /\ auth_failures' = auth_failures
        /\ locked_until' = now + Cooldown
    BY <1>6 DEF DeviceLocked
  <2>2. Counted'
    BY <1>3, <2>1 DEF Counted, Outcomes
  <2>3. Pause(Len(log))' = Cooldown
    <3>1. log'[Len(log')].outcome = "lockout"
      BY <1>3, <2>1 DEF Outcomes
    <3>. QED
      BY <3>1 DEF Pause
  <2>4. locked_until' \in Nat /\ locked_until' >= locked_until
    BY <1>6, NotShortened DEF Next
  <2>5. now + Cooldown <= locked_until'
    BY <2>1, <2>4
  <2>6. Covered' /\ Waited' /\ Spaced' /\ LTypeOK'
    BY <1>1, <2>1, <2>3, <2>4, <2>5, OverKeeps DEF LTypeOK, Outcomes
  <2>. QED
    BY <2>2, <2>6 DEF LInv
<1>7. ASSUME NEW t \in Callers, Fail(t) PROVE LInv'
  <2>1. Over(t, "error") /\ auth_failures' = auth_failures /\ locked_until' = locked_until
    BY <1>7 DEF Fail
  <2>2. Covered' /\ Waited' /\ Spaced' /\ LTypeOK'
    BY <1>1, <2>1, OverKeeps DEF LTypeOK, Outcomes, Refused
  <2>3. Counted'
    BY <1>3, <2>1 DEF Counted, Outcomes
  <2>. QED
    BY <2>2, <2>3 DEF LInv
<1>8. ASSUME NEW t \in Callers, Begin(t) PROVE LInv'
  <2>1. /\ \A u \in Callers : ~Attempting(u)
        /\ ~IsLockedOut /\ began' = [began EXCEPT ![t] = now]
        /\ UNCHANGED <<now, auth_failures, locked_until, log>>
    BY <1>8 DEF Begin
  <2>2. Counted' /\ Covered' /\ Spaced'
    BY <1>1, <2>1, HistoryKept DEF Counted, Covered, Spaced
  <2>3. LTypeOK'
    BY <1>1, <2>1 DEF LTypeOK
  <2>4. Waited'
    BY <1>1, <2>1 DEF Waited, Attempting, IsLockedOut, LTypeOK
  <2>. QED
    BY <2>2, <2>3, <2>4 DEF LInv
<1>9. ASSUME Tick PROVE LInv'
  <2>1. now' = now + 1 /\ UNCHANGED <<auth_failures, locked_until, began, log>>
    BY <1>9 DEF Tick
  <2>2. Counted' /\ Covered' /\ Spaced'
    BY <1>1, <2>1, HistoryKept DEF Counted, Covered, Spaced
  <2>3. LTypeOK'
    BY <1>1, <2>1 DEF LTypeOK
  <2>4. Waited'
    BY <1>1, <2>1 DEF Waited, Attempting, LTypeOK
  <2>. QED
    BY <2>2, <2>3, <2>4 DEF LInv
<1>10. ASSUME UNCHANGED vars PROVE LInv'
  <2>1. UNCHANGED <<now, auth_failures, locked_until, began, log>>
    BY <1>10 DEF vars
  <2>2. Counted' /\ Covered' /\ Spaced'
    BY <1>1, <2>1, HistoryKept DEF Counted, Covered, Spaced
  <2>3. LTypeOK' /\ Waited'
    BY <1>1, <2>1 DEF LTypeOK, Waited, Attempting
  <2>. QED
    BY <2>2, <2>3 DEF LInv
<1>11. ASSUME NEW t \in Callers, RaiseLockedOut(t) PROVE LInv'
  BY <1>10, <1>11 DEF RaiseLockedOut
<1>. QED
  BY <1>4, <1>5, <1>6, <1>7, <1>8, <1>9, <1>10, <1>11 DEF Next

-----------------------------------------------------------------------------
(* The budget is well-formed in every reachable state.                     *)
THEOREM BudgetTyped == Spec => []LTypeOK
<1>1. LInv => LTypeOK
  BY DEF LInv
<1>. QED
  BY LInvInit, LInvNext, <1>1, PTL DEF Spec

(* client.py:17-22, for every schedule and cooldown: a refused login is     *)
(* followed by no attempt before the pause it calls for is over, whatever  *)
(* happens in between.                                                     *)
THEOREM AttemptsSpaced == Spec => []Spaced
<1>1. LInv => Spaced
  BY DEF LInv
<1>. QED
  BY LInvInit, LInvNext, <1>1, PTL DEF Spec

(* No step of connect() ever shortens a cooldown.                          *)
THEOREM CooldownKept == Spec => CooldownNeverShortened
<1>1. LInv /\ [Next]_vars => [locked_until' >= locked_until]_vars
  BY NotShortened
<1>. QED
  BY LInvInit, LInvNext, <1>1, PTL DEF Spec, CooldownNeverShortened

=============================================================================
