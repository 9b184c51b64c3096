---------------------------- MODULE Rename_proofs ----------------------------
(***************************************************************************)
(* Proofs about Rename, for every number of outlets, names reported, tasks   *)
(* and calls.                                                              *)
(*                                                                         *)
(* What is inductive: every name that is anywhere, on the device, in a reply  *)
(* in flight, in a write in flight or in one being made, is one its outlet   *)
(* may bear (Borne).  While a call is alone nothing of another is in        *)
(* flight, and what it has read, what it writes and what the device has     *)
(* follow from the names when it began (Undisturbed).                       *)
(***************************************************************************)
EXTENDS Rename, SequenceTheorems, TLAPS

May(i, n) ==
    \/ n = Factory[i]
    \/ \E k \in DOMAIN asked : asked[k].index = i /\ asked[k].name = n
    \/ i > Reported /\ n = Default[i]

Borne ==
    /\ \A i \in Outlets : May(i, names[i])
    /\ \A k \in DOMAIN stale : \A i \in 1 .. Reported : May(i, stale[k][i])
    /\ \A w \in late : \A i \in DOMAIN w : May(i, w[i])
    /\ \A t \in Tasks : \A i \in DOMAIN write[t] : May(i, write[t][i])

Working == \A t \in Tasks :
    /\ pc[t] # "idle" => mine[t] \in DOMAIN asked
    /\ pc[t] # "writing" => runs[t] = 0

(* What a call that is alone makes of the names there were.                 *)
Expected(t, i) ==
    IF i = Job(t).index THEN Job(t).name
    ELSE IF i > Reported /\ Job(t).name \in Spaced THEN Default[i]
    ELSE before[t][i]

Undisturbed == \A t \in Tasks : before[t] # Nothing =>
    /\ pc[t] # "idle" /\ late = {}
    /\ \A u \in Tasks : u # t => pc[u] = "idle"
    /\ runs[t] = 0 => names = before[t]
    /\ pc[t] = "reading" => /\ Job(t).name \in Spaced
                            /\ \A k \in DOMAIN stale : \A i \in 1 .. Reported :
                                 stale[k][i] = before[t][i]
    /\ pc[t] = "writing" => \A i \in Outlets :
         (IF i \in DOMAIN write[t] THEN write[t][i] ELSE before[t][i]) = Expected(t, i)
    /\ runs[t] > 0 => \A i \in Outlets : names[i] = Expected(t, i)

RInv == RTypeOK /\ Borne /\ Working /\ Undisturbed

-----------------------------------------------------------------------------
(* What the device has once it has run a line.                              *)
LEMMA StoredTyped ==
    ASSUME NEW w \in Writes, names \in [Outlets -> Names], Stored(w)
    PROVE  /\ names' \in [Outlets -> Names]
           /\ DOMAIN w \subseteq Outlets
           /\ \A i \in Outlets : names'[i] = IF i \in DOMAIN w THEN w[i] ELSE names[i]
<1>1. PICK S \in SUBSET Outlets : w \in [S -> Names]
  BY DEF Writes
<1>. QED
  BY <1>1 DEF Stored

LEMMA NothingIsWritten == Nothing \in Writes /\ DOMAIN Nothing = {}
<1>1. Nothing \in [{} -> Names]
  BY DEF Nothing
<1>2. {} \in SUBSET Outlets
  OBVIOUS
<1>. QED
  BY <1>1, <1>2 DEF Writes

LEMMA PaddedTyped ==
    ASSUME NEW s \in [1 .. Reported -> Names], NEW i \in 1 .. N + 1, NEW n \in Plain \cup Spaced
    PROVE  /\ Padded(s) \in [Outlets -> Names]
           /\ \A j \in Outlets : Padded(s)[j] = IF j <= Reported THEN s[j] ELSE Default[j]
           /\ Swap(Padded(s), i, n) \in [Outlets -> Names]
           /\ \A j \in Outlets : Swap(Padded(s), i, n)[j] = IF j = i THEN n ELSE Padded(s)[j]
<1>1. \A j \in Outlets : (j \in DOMAIN s <=> j <= Reported) /\ Default[j] \in Names
  BY RenameAssumption DEF Outlets, Names
<1>2. \A j \in Outlets : j <= Reported => s[j] \in Names
  BY RenameAssumption DEF Outlets
<1>3. Padded(s) = [j \in Outlets |-> IF j <= Reported THEN s[j] ELSE Default[j]]
  BY <1>1 DEF Padded
<1>4. Padded(s) \in [Outlets -> Names]
  BY <1>1, <1>2, <1>3
<1>5. Swap(Padded(s), i, n) = [j \in Outlets |-> IF j = i THEN n ELSE Padded(s)[j]]
  BY <1>4 DEF Swap
<1>6. n \in Names
  BY DEF Names
<1>. QED
  BY <1>3, <1>4, <1>5, <1>6

LEMMA ShownTyped ==
    ASSUME names \in [Outlets -> Names]
    PROVE  Shown \in [1 .. Reported -> Names] /\ \A i \in 1 .. Reported : Shown[i] = names[i]
BY RenameAssumption DEF Shown, Outlets

(* The reply that is read is the oldest one, or the device's own.           *)
LEMMA AnswerTyped ==
    ASSUME names \in [Outlets -> Names], stale \in Seq([1 .. Reported -> Names])
    PROVE  /\ Head(Answer) \in [1 .. Reported -> Names]
           /\ Tail(Answer) \in Seq([1 .. Reported -> Names])
           /\ Head(Answer) = Shown \/ (\E k \in DOMAIN stale : Head(Answer) = stale[k])
           /\ \A j \in DOMAIN Tail(Answer) :
                Tail(Answer)[j] = Shown \/ \E k \in DOMAIN stale : Tail(Answer)[j] = stale[k]
<1>. DEFINE S == [1 .. Reported -> Names]
<1>1. Shown \in S
  BY ShownTyped
<1>2. /\ Answer \in Seq(S) /\ Len(Answer) = Len(stale) + 1 /\ Answer # <<>> /\ Len(stale) \in Nat
      /\ \A j \in 1 .. Len(stale) + 1 : Answer[j] = IF j <= Len(stale) THEN stale[j] ELSE Shown
  BY <1>1 DEF Answer
<1>. HIDE DEF S
<1>3. \A j \in 1 .. Len(Answer) : Answer[j] = Shown \/ \E k \in DOMAIN stale : Answer[j] = stale[k]
  BY <1>2
<1>4. Head(Answer) = Answer[1] /\ Head(Answer) \in S
  BY <1>2
<1>5. /\ Tail(Answer) \in Seq(S) /\ Len(Tail(Answer)) = Len(Answer) - 1
      /\ \A j \in 1 .. Len(Tail(Answer)) : Tail(Answer)[j] = Answer[j + 1]
  BY <1>2, HeadTailProperties
<1>6. DOMAIN Tail(Answer) = 1 .. Len(Tail(Answer))
  BY <1>5
<1>. QED
  BY <1>2, <1>3, <1>4, <1>5, <1>6 DEF S

-----------------------------------------------------------------------------
(* The invariant holds initially.                                          *)
LEMMA RInvInit ==
    ASSUME Init
    PROVE  RInv
<1>1. RTypeOK
  BY NothingIsWritten, RenameAssumption DEF Init, RTypeOK
<1>2. Borne
  BY NothingIsWritten DEF Init, Borne, May, Nothing
<1>3. Working
  BY DEF Init, Working
<1>4. Undisturbed
  BY DEF Init, Undisturbed
<1>. QED
  BY <1>1, <1>2, <1>3, <1>4 DEF RInv

(* Names that an outlet may bear it may still bear after another call.      *)
LEMMA MayStill ==
    ASSUME RTypeOK, \/ UNCHANGED asked
                    \/ \E call \in Calls : asked' = Append(asked, call)
    PROVE  \A i, n : May(i, n) => May(i, n)'
<1>1. asked \in Seq(Calls)
  BY DEF RTypeOK
<1>2. \A k \in DOMAIN asked : k \in DOMAIN asked' /\ asked'[k] = asked[k]
  BY <1>1
<1>. QED
  BY <1>2 DEF May

LEMMA BeginEffect ==
    ASSUME RTypeOK, NEW t \in Tasks, NEW i \in 1 .. N + 1, NEW n \in Plain \cup Spaced, Begin(t, i, n)
    PROVE  /\ asked' \in Seq(Calls) /\ mine' \in [Tasks -> 0 .. Len(asked')]
           /\ before' \in [Tasks -> {Nothing} \cup [Outlets -> Names]]
           /\ mine'[t] \in DOMAIN asked'
           /\ asked'[mine'[t]].index = i /\ asked'[mine'[t]].name = n
           /\ \A u \in Tasks : u # t => mine'[u] = mine[u] /\ before'[u] = Nothing
           /\ \A k \in DOMAIN asked : k \in DOMAIN asked' /\ asked'[k] = asked[k]
           /\ \E call \in Calls : asked' = Append(asked, call)
           /\ before'[t] # Nothing =>
                 /\ before'[t] = names /\ late = {} /\ stale = <<>>
                 /\ \A u \in Tasks : pc[u] = "idle"
<1>. DEFINE call == [index |-> i, name |-> n]
<1>1. call \in Calls
  BY DEF Calls
<1>2. asked' = Append(asked, call) /\ asked \in Seq(Calls)
  BY DEF Begin, RTypeOK
<1>3. /\ asked' \in Seq(Calls) /\ Len(asked') = Len(asked) + 1 /\ asked'[Len(asked) + 1] = call
      /\ Len(asked) \in Nat /\ Len(asked) + 1 \in DOMAIN asked'
      /\ \A k \in DOMAIN asked : k \in DOMAIN asked' /\ asked'[k] = asked[k]
  BY <1>1, <1>2
<1>4. mine' = [mine EXCEPT ![t] = Len(asked) + 1] /\ mine \in [Tasks -> 0 .. Len(asked)]
  BY DEF Begin, RTypeOK
<1>5. /\ mine' \in [Tasks -> 0 .. Len(asked')] /\ mine'[t] = Len(asked) + 1
      /\ \A u \in Tasks : u # t => mine'[u] = mine[u]
  BY <1>3, <1>4
<1>6. before' = [u \in Tasks |->
                   IF u = t /\ Active = {} /\ late = {} /\ stale = <<>> THEN names ELSE Nothing]
  BY DEF Begin
<1>7. /\ before' \in [Tasks -> {Nothing} \cup [Outlets -> Names]]
      /\ \A u \in Tasks : u # t => before'[u] = Nothing
      /\ before'[t] # Nothing => before'[t] = names /\ late = {} /\ stale = <<>> /\ Active = {}
  BY <1>6 DEF RTypeOK
<1>8. Active = {} => \A u \in Tasks : pc[u] = "idle"
  BY DEF Active
<1>. QED
  BY <1>1, <1>2, <1>3, <1>5, <1>7, <1>8

LEMMA RenamePlainPreserves ==
    ASSUME RInv, NEW t \in Tasks, NEW i \in 1 .. N + 1, NEW n \in Plain \cup Spaced, RenamePlain(t, i, n)
    PROVE  RInv'
<1>. DEFINE line == [j \in {i} \cap Outlets |-> n]
<1>1. /\ Begin(t, i, n) /\ write' = [write EXCEPT ![t] = line] /\ pc' = [pc EXCEPT ![t] = "writing"]
      /\ pc[t] = "idle" /\ UNCHANGED <<names, stale, late, runs>> /\ n \in Plain
  BY DEF RenamePlain, Begin
<1>2. line \in Writes /\ DOMAIN line = {i} \cap Outlets /\ \A j \in DOMAIN line : line[j] = n
  <2>1. {i} \cap Outlets \in SUBSET Outlets
    OBVIOUS
  <2>2. line \in [{i} \cap Outlets -> Names]
    BY DEF Names
  <2>. QED
    BY <2>1, <2>2 DEF Writes
<1>. HIDE DEF line
<1>3. /\ pc' \in [Tasks -> {"idle", "reading", "writing"}] /\ pc'[t] = "writing"
      /\ \A u \in Tasks : u # t => pc'[u] = pc[u]
      /\ write' \in [Tasks -> Writes] /\ write'[t] = line
      /\ \A u \in Tasks : u # t => write'[u] = write[u]
  BY <1>1, <1>2 DEF RInv, RTypeOK
<1>4. RTypeOK'
  BY <1>1, <1>3, BeginEffect DEF RInv, RTypeOK
<1>5. \A j, m : May(j, m) => May(j, m)'
  BY <1>1, BeginEffect, MayStill DEF RInv
<1>6. May(i, n)'
  BY <1>1, BeginEffect DEF RInv, May
<1>7. Borne'
  BY <1>1, <1>2, <1>3, <1>5, <1>6 DEF RInv, Borne
<1>8. Working'
  BY <1>1, <1>3, BeginEffect DEF RInv, Working
<1>9. Undisturbed'
  <2>1. SUFFICES ASSUME before'[t] # Nothing
                 PROVE  Undisturbed'
    BY <1>1, BeginEffect DEF RInv, Undisturbed
  <2>2. /\ before'[t] = names /\ late = {} /\ runs[t] = 0
        /\ \A u \in Tasks : pc[u] = "idle"
    BY <1>1, <2>1, BeginEffect DEF RInv, Working
  <2>3. /\ asked'[mine'[t]].index = i /\ asked'[mine'[t]].name = n
        /\ \A u \in Tasks : u # t => before'[u] = Nothing
    BY <1>1, BeginEffect DEF RInv
  <2>4. n \notin Spaced
    BY <1>1, RenameAssumption
  <2>5. \A j \in Outlets : (IF j \in DOMAIN line THEN line[j] ELSE names[j]) =
                          (IF j = i THEN n ELSE names[j])
    BY <1>2
  <2>6. runs'[t] = 0
    BY <1>1, <2>2
  <2>. QED
    BY <1>1, <1>3, <2>2, <2>3, <2>4, <2>5, <2>6 DEF Undisturbed, Expected, Job
<1>. QED
  BY <1>4, <1>7, <1>8, <1>9 DEF RInv

LEMMA RenameSpacedPreserves ==
    ASSUME RInv, NEW t \in Tasks, NEW i \in 1 .. N + 1, NEW n \in Plain \cup Spaced, RenameSpaced(t, i, n)
    PROVE  RInv'
<1>1. /\ Begin(t, i, n) /\ pc' = [pc EXCEPT ![t] = "reading"] /\ n \in Spaced
      /\ pc[t] = "idle" /\ UNCHANGED <<write, names, stale, late, runs>>
  BY DEF RenameSpaced, Begin
<1>2. /\ pc' \in [Tasks -> {"idle", "reading", "writing"}] /\ pc'[t] = "reading"
      /\ \A u \in Tasks : u # t => pc'[u] = pc[u]
  BY <1>1 DEF RInv, RTypeOK
<1>3. RTypeOK'
  BY <1>1, <1>2, BeginEffect DEF RInv, RTypeOK
<1>4. \A j, m : May(j, m) => May(j, m)'
  BY <1>1, BeginEffect, MayStill DEF RInv
<1>5. Borne'
  BY <1>1, <1>4 DEF RInv, Borne
<1>6. Working'
  BY <1>1, <1>2, BeginEffect DEF RInv, Working
<1>7. Undisturbed'
  <2>1. SUFFICES ASSUME before'[t] # Nothing
                 PROVE  Undisturbed'
    BY <1>1, BeginEffect DEF RInv, Undisturbed
  <2>2. /\ before'[t] = names /\ late = {} /\ stale = <<>> /\ runs[t] = 0
        /\ \A u \in Tasks : pc[u] = "idle"
    BY <1>1, <2>1, BeginEffect DEF RInv, Working
  <2>3. /\ asked'[mine'[t]].name = n
        /\ \A u \in Tasks : u # t => before'[u] = Nothing
    BY <1>1, BeginEffect DEF RInv
  <2>4. runs'[t] = 0 /\ stale' = <<>>
    BY <1>1, <2>2
  <2>. QED
    BY <1>1, <1>2, <2>2, <2>3, <2>4 DEF Undisturbed, Job
<1>. QED
  BY <1>3, <1>5, <1>6, <1>7 DEF RInv

-----------------------------------------------------------------------------
(* A call that ends                                                        *)

LEMMA LeaveEffect ==
    ASSUME RInv, NEW t \in Tasks, Leave(t)
    PROVE  /\ UNCHANGED asked
           /\ pc' \in [Tasks -> {"idle", "reading", "writing"}] /\ pc'[t] = "idle"
           /\ mine' \in [Tasks -> 0 .. Len(asked)]
           /\ write' \in [Tasks -> Writes] /\ DOMAIN write'[t] = {}
           /\ runs' \in [Tasks -> 0 .. 2] /\ runs'[t] = 0
           /\ before' \in [Tasks -> {Nothing} \cup [Outlets -> Names]] /\ before'[t] = Nothing
           /\ \A u \in Tasks : u # t => /\ pc'[u] = pc[u] /\ mine'[u] = mine[u]
                                       /\ write'[u] = write[u] /\ runs'[u] = runs[u]
                                       /\ before'[u] = before[u]
<1>1. Len(asked) \in Nat /\ 0 \in 0 .. Len(asked)
  BY DEF RInv, RTypeOK
<1>. QED
  BY <1>1, NothingIsWritten DEF Leave, RInv, RTypeOK

(* A call that ends leaves what it wrote, or has in flight, to be borne; no   *)
(* other call is alone beside it.                                          *)
LEMMA LeavePreserves ==
    ASSUME RInv, NEW t \in Tasks, Leave(t), pc[t] # "idle", UNCHANGED names,
           stale' \in Seq([1 .. Reported -> Names]),
           \A k \in DOMAIN stale' : \A i \in 1 .. Reported : May(i, stale'[k][i]),
           late' \in {late, late \cup {write[t]}}
    PROVE  RInv'
<1>1. RTypeOK'
  BY LeaveEffect DEF RInv, RTypeOK
<1>2. \A i, n : May(i, n) => May(i, n)'
  BY LeaveEffect, MayStill DEF RInv
<1>3. Borne'
  <2>1. \A i \in Outlets : May(i, names'[i])
    BY DEF RInv, Borne
  <2>2. \A w \in late' : \A i \in DOMAIN w : May(i, w[i])
    BY DEF RInv, Borne
  <2>3. \A u \in Tasks : \A i \in DOMAIN write'[u] : May(i, write'[u][i])
    BY LeaveEffect DEF RInv, Borne
  <2>. QED
    BY <1>2, <2>1, <2>2, <2>3 DEF Borne
<1>4. Working'
  BY LeaveEffect DEF RInv, Working
<1>5. \A u \in Tasks : before'[u] = Nothing
  BY LeaveEffect DEF RInv, Undisturbed
<1>6. Undisturbed'
  BY <1>5 DEF Undisturbed
<1>. QED
  BY <1>1, <1>3, <1>4, <1>6 DEF RInv

(* What comes in a reply to "?OutletName" may be borne.                     *)
LEMMA AnswerBorne ==
    ASSUME RInv
    PROVE  /\ Head(Answer) \in [1 .. Reported -> Names]
           /\ Tail(Answer) \in Seq([1 .. Reported -> Names])
           /\ \A i \in 1 .. Reported : May(i, Head(Answer)[i])
           /\ \A k \in DOMAIN Tail(Answer) : \A i \in 1 .. Reported : May(i, Tail(Answer)[k][i])
<1>1. /\ names \in [Outlets -> Names] /\ stale \in Seq([1 .. Reported -> Names])
      /\ \A i \in 1 .. Reported : i \in Outlets
  BY RenameAssumption DEF RInv, RTypeOK, Outlets
<1>2. \A i \in 1 .. Reported : May(i, Shown[i])
  BY <1>1, ShownTyped DEF RInv, Borne
<1>3. \A k \in DOMAIN stale : \A i \in 1 .. Reported : May(i, stale[k][i])
  BY DEF RInv, Borne
<1>. QED
  BY <1>1, <1>2, <1>3, AnswerTyped

LEMMA EndsPreserve ==
    ASSUME RInv, NEW t \in Tasks,
           ReadUnusable(t) \/ ReadFails(t) \/ WriteReturns(t) \/ WriteFails(t)
    PROVE  RInv'
<1>1. \A k \in DOMAIN stale : \A i \in 1 .. Reported : May(i, stale[k][i])
  BY DEF RInv, Borne
<1>2. CASE ReadUnusable(t)
  <2>1. pc[t] = "reading" /\ stale' = Tail(Answer) /\ Leave(t) /\ UNCHANGED <<names, late>>
    BY <1>2 DEF ReadUnusable
  <2>. QED
    BY <2>1, AnswerBorne, LeavePreserves
<1>3. CASE ReadFails(t) \/ WriteReturns(t) \/ WriteFails(t)
  <2>1. /\ pc[t] # "idle" /\ Leave(t) /\ UNCHANGED <<names, stale>>
        /\ late' \in {late, late \cup {write[t]}}
    BY <1>3 DEF ReadFails, WriteReturns, WriteFails
  <2>. QED
    BY <1>1, <2>1, LeavePreserves DEF RInv, RTypeOK
<1>. QED
  BY <1>2, <1>3

-----------------------------------------------------------------------------
(* The round trips                                                         *)

LEMMA ReadNamesPreserves ==
    ASSUME RInv, NEW t \in Tasks, ReadNames(t)
    PROVE  RInv'
<1>. DEFINE head == Head(Answer)
            all == Swap(Padded(head), Job(t).index, Job(t).name)
<1>1. /\ pc[t] = "reading" /\ stale' = Tail(Answer)
      /\ write' = [write EXCEPT ![t] = all] /\ pc' = [pc EXCEPT ![t] = "writing"]
      /\ UNCHANGED <<names, late, asked, mine, runs, before>>
  BY DEF ReadNames
<1>2. /\ Job(t).index \in 1 .. N + 1 /\ Job(t).name \in Plain \cup Spaced
      /\ mine[t] \in DOMAIN asked
  <2>1. mine[t] \in DOMAIN asked /\ asked \in Seq(Calls)
    BY <1>1 DEF RInv, Working, RTypeOK
  <2>2. asked[mine[t]] \in Calls
    BY <2>1
  <2>. QED
    BY <2>1, <2>2 DEF Job, Calls
<1>3. /\ head \in [1 .. Reported -> Names] /\ Tail(Answer) \in Seq([1 .. Reported -> Names])
      /\ \A i \in 1 .. Reported : May(i, head[i])
      /\ \A k \in DOMAIN Tail(Answer) : \A i \in 1 .. Reported : May(i, Tail(Answer)[k][i])
  BY AnswerBorne
<1>. HIDE DEF head
<1>4. /\ all \in [Outlets -> Names]
      /\ \A j \in Outlets : all[j] = IF j = Job(t).index THEN Job(t).name
                                    ELSE IF j <= Reported THEN head[j] ELSE Default[j]
  <2>. DEFINE i == Job(t).index
              n == Job(t).name
  <2>1. i \in 1 .. N + 1 /\ n \in Plain \cup Spaced
    BY <1>2
  <2>. HIDE DEF i, n
  <2>2. /\ \A j \in Outlets : Padded(head)[j] = IF j <= Reported THEN head[j] ELSE Default[j]
        /\ Swap(Padded(head), i, n) \in [Outlets -> Names]
        /\ \A j \in Outlets : Swap(Padded(head), i, n)[j] = IF j = i THEN n ELSE Padded(head)[j]
    BY <1>3, <2>1, PaddedTyped
  <2>3. all = Swap(Padded(head), i, n)
    BY DEF i, n
  <2>. HIDE DEF all
  <2>4. /\ all \in [Outlets -> Names]
        /\ \A j \in Outlets : all[j] = IF j = i THEN n
                                      ELSE IF j <= Reported THEN head[j] ELSE Default[j]
    BY <2>2, <2>3
  <2>. QED
    BY <2>4 DEF i, n
<1>. HIDE DEF all
<1>5. all \in Writes /\ DOMAIN all = Outlets
  <2>1. Outlets \in SUBSET Outlets
    OBVIOUS
  <2>. QED
    BY <1>4, <2>1 DEF Writes
<1>6. /\ write' \in [Tasks -> Writes] /\ write'[t] = all
      /\ pc' \in [Tasks -> {"idle", "reading", "writing"}] /\ pc'[t] = "writing"
      /\ \A u \in Tasks : u # t => write'[u] = write[u] /\ pc'[u] = pc[u]
  BY <1>1, <1>5 DEF RInv, RTypeOK
<1>7. RTypeOK'
  BY <1>1, <1>3, <1>6 DEF RInv, RTypeOK
<1>8. \A i, n : May(i, n) => May(i, n)'
  BY <1>1, MayStill DEF RInv
<1>9. \A i \in Outlets : May(i, all[i])
  <2>1. May(Job(t).index, Job(t).name)
    BY <1>2 DEF May, Job
  <2>2. ASSUME NEW i \in Outlets PROVE (i <= Reported /\ i \in 1 .. Reported) \/ i > Reported
    BY RenameAssumption DEF Outlets
  <2>3. \A i \in Outlets : i > Reported => May(i, Default[i])
    BY DEF May
  <2>. SUFFICES ASSUME NEW i \in Outlets PROVE May(i, all[i])
    OBVIOUS
  <2>7. i > Reported => ~(i <= Reported)
    BY RenameAssumption DEF Outlets
  <2>4. CASE i = Job(t).index
    <3>1. all[i] = Job(t).name
      BY <1>4, <2>4
    <3>. QED
      BY <2>1, <2>4, <3>1
  <2>5. CASE i # Job(t).index /\ i <= Reported
    <3>1. all[i] = head[i]
      BY <1>4, <2>5
    <3>2. i \in 1 .. Reported
      BY <2>2, <2>5, <2>7
    <3>. QED
      BY <1>3, <3>1, <3>2
  <2>6. CASE i # Job(t).index /\ i > Reported /\ ~(i <= Reported)
    <3>1. all[i] = Default[i]
      BY <1>4, <2>6
    <3>. QED
      BY <2>3, <2>6, <3>1
  <2>. QED
    BY <2>2, <2>4, <2>5, <2>6, <2>7
<1>10. Borne'
  BY <1>1, <1>3, <1>5, <1>6, <1>8, <1>9 DEF RInv, Borne
<1>11. Working'
  BY <1>1, <1>6 DEF RInv, Working
<1>12. Undisturbed'
  <2>1. ASSUME NEW u \in Tasks, before'[u] # Nothing PROVE u = t
    BY <1>1, <2>1 DEF RInv, Undisturbed
  <2>2. CASE before[t] # Nothing
    <3>1. /\ names = before[t] /\ runs[t] = 0 /\ late = {} /\ Job(t).name \in Spaced
          /\ \A u \in Tasks : u # t => pc[u] = "idle"
          /\ \A k \in DOMAIN stale : \A i \in 1 .. Reported : stale[k][i] = before[t][i]
      BY <1>1, <2>2 DEF RInv, Undisturbed, Working
    <3>2. \A i \in 1 .. Reported : head[i] = before[t][i]
      BY <3>1, AnswerTyped, ShownTyped DEF RInv, RTypeOK, head
    <3>3. \A i \in Outlets : all[i] = Expected(t, i)
      <4>1. \A i \in Outlets : (i <= Reported /\ i \in 1 .. Reported) \/ (i > Reported /\ ~(i <= Reported))
        BY RenameAssumption DEF Outlets
      <4>. SUFFICES ASSUME NEW i \in Outlets PROVE all[i] = Expected(t, i)
        OBVIOUS
      <4>2. all[i] = IF i = Job(t).index THEN Job(t).name
                     ELSE IF i <= Reported THEN head[i] ELSE Default[i]
        BY <1>4
      <4>3. CASE i = Job(t).index
        BY <4>2, <4>3 DEF Expected
      <4>4. CASE i # Job(t).index /\ i <= Reported /\ i \in 1 .. Reported
        <5>1. ~(i > Reported)
          BY <4>4, RenameAssumption DEF Outlets
        <5>. QED
          BY <3>2, <4>2, <4>4, <5>1 DEF Expected
      <4>5. CASE i # Job(t).index /\ i > Reported /\ ~(i <= Reported)
        BY <3>1, <4>2, <4>5 DEF Expected
      <4>. QED
        BY <4>1, <4>3, <4>4, <4>5
    <3>4. \A i \in Outlets : Expected(t, i)' = Expected(t, i)
      BY <1>1 DEF Expected, Job
    <3>. QED
      BY <1>1, <1>5, <1>6, <2>1, <3>1, <3>3, <3>4 DEF Undisturbed
  <2>3. CASE before[t] = Nothing
    BY <1>1, <2>1, <2>3 DEF Undisturbed
  <2>. QED
    BY <2>2, <2>3
<1>. QED
  BY <1>7, <1>10, <1>11, <1>12 DEF RInv

LEMMA WriteRunsPreserves ==
    ASSUME RInv, NEW t \in Tasks, WriteRuns(t)
    PROVE  RInv'
<1>1. /\ pc[t] = "writing" /\ runs[t] < 2 /\ Stored(write[t]) /\ runs' = [runs EXCEPT ![t] = @ + 1]
      /\ UNCHANGED <<stale, late, pc, asked, mine, write, before>>
  BY DEF WriteRuns
<1>2. /\ names' \in [Outlets -> Names] /\ DOMAIN write[t] \subseteq Outlets
      /\ \A i \in Outlets : names'[i] = IF i \in DOMAIN write[t] THEN write[t][i] ELSE names[i]
  BY <1>1, StoredTyped DEF RInv, RTypeOK
<1>9. runs \in [Tasks -> 0 .. 2]
  BY DEF RInv, RTypeOK
<1>10. runs[t] \in {0, 1}
  BY <1>1, <1>9
<1>3. /\ runs' \in [Tasks -> 0 .. 2] /\ runs'[t] = runs[t] + 1
      /\ \A u \in Tasks : u # t => runs'[u] = runs[u]
  BY <1>1, <1>9, <1>10
<1>4. RTypeOK'
  BY <1>1, <1>2, <1>3 DEF RInv, RTypeOK
<1>5. \A i, n : May(i, n) => May(i, n)'
  BY <1>1, MayStill DEF RInv
<1>6. Borne'
  BY <1>1, <1>2, <1>5 DEF RInv, Borne
<1>7. Working'
  BY <1>1, <1>3 DEF RInv, Working
<1>8. Undisturbed'
  <2>1. \A u \in Tasks : before'[u] # Nothing => u = t
    BY <1>1 DEF RInv, Undisturbed
  <2>2. CASE before[t] # Nothing
    <3>1. /\ late = {} /\ \A u \in Tasks : u # t => pc[u] = "idle"
          /\ runs[t] = 0 => names = before[t]
          /\ \A i \in Outlets :
               (IF i \in DOMAIN write[t] THEN write[t][i] ELSE before[t][i]) = Expected(t, i)
          /\ runs[t] > 0 => \A i \in Outlets : names[i] = Expected(t, i)
      BY <1>1, <2>2 DEF RInv, Undisturbed
    <3>2. runs[t] = 0 \/ runs[t] > 0
      BY <1>10
    <3>3. \A i \in Outlets : names'[i] = Expected(t, i)
      BY <1>2, <3>1, <3>2
    <3>4. \A i \in Outlets : Expected(t, i)' = Expected(t, i)
      BY <1>1 DEF Expected, Job
    <3>5. runs'[t] # 0
      BY <1>3, <1>10
    <3>. QED
      BY <1>1, <2>1, <3>1, <3>3, <3>4, <3>5 DEF Undisturbed
  <2>3. CASE before[t] = Nothing
    BY <1>1, <2>1, <2>3 DEF Undisturbed
  <2>. QED
    BY <2>2, <2>3
<1>. QED
  BY <1>4, <1>6, <1>7, <1>8 DEF RInv

-----------------------------------------------------------------------------
(* The lines in flight                                                     *)

LEMMA LatePreserves ==
    ASSUME RInv, LateRuns \/ LateLost
    PROVE  RInv'
<1>1. PICK w \in late : /\ late' = late \ {w} /\ (Stored(w) \/ names' = names)
                        /\ UNCHANGED <<stale, pc, asked, mine, write, runs, before>>
  BY DEF LateRuns, LateLost
<1>2. w \in Writes /\ names \in [Outlets -> Names] /\ \A i \in DOMAIN w : May(i, w[i])
  BY DEF RInv, RTypeOK, Borne
<1>3. names' \in [Outlets -> Names] /\ \A i \in Outlets : May(i, names'[i])
  <2>1. CASE names' = names
    BY <1>2, <2>1 DEF RInv, Borne
  <2>2. CASE Stored(w)
    <3>1. /\ names' \in [Outlets -> Names]
          /\ \A i \in Outlets : names'[i] = IF i \in DOMAIN w THEN w[i] ELSE names[i]
      BY <1>2, <2>2, StoredTyped
    <3>. QED
      BY <1>2, <3>1 DEF RInv, Borne
  <2>. QED
    BY <1>1, <2>1, <2>2
<1>4. RTypeOK'
  BY <1>1, <1>3 DEF RInv, RTypeOK
<1>5. \A i, n : May(i, n) => May(i, n)'
  BY <1>1, MayStill DEF RInv
<1>6. Borne'
  BY <1>1, <1>3, <1>5 DEF RInv, Borne
<1>7. Working' /\ Undisturbed'
  BY <1>1 DEF RInv, Working, Undisturbed
<1>. QED
  BY <1>4, <1>6, <1>7 DEF RInv

LEMMA StalePreserves ==
    ASSUME RInv, PollGivesUp \/ StaleGone
    PROVE  RInv'
<1>1. /\ stale' = <<Shown>> \/ stale' = <<>>
      /\ UNCHANGED <<names, late, pc, asked, mine, write, runs, before>>
  BY DEF PollGivesUp, StaleGone
<1>2. /\ Shown \in [1 .. Reported -> Names] /\ \A i \in 1 .. Reported : Shown[i] = names[i]
      /\ \A i \in 1 .. Reported : i \in Outlets
  BY ShownTyped, RenameAssumption DEF RInv, RTypeOK, Outlets
<1>3. /\ stale' \in Seq([1 .. Reported -> Names])
      /\ \A k \in DOMAIN stale' : stale'[k] = Shown
  <2>1. CASE stale' = <<Shown>>
    BY <1>2, <2>1
  <2>2. CASE stale' = <<>>
    BY <2>2
  <2>. QED
    BY <1>1, <2>1, <2>2
<1>4. RTypeOK'
  BY <1>1, <1>3 DEF RInv, RTypeOK
<1>5. \A i, n : May(i, n) => May(i, n)'
  BY <1>1, MayStill DEF RInv
<1>6. Borne'
  BY <1>1, <1>2, <1>3, <1>5 DEF RInv, Borne
<1>7. Working'
  BY <1>1 DEF RInv, Working
<1>8. Undisturbed'
  <2>1. ASSUME NEW t \in Tasks, before[t] # Nothing, pc[t] = "reading"
        PROVE  \A k \in DOMAIN stale' : \A i \in 1 .. Reported : stale'[k][i] = before[t][i]
    <3>1. names = before[t]
      BY <2>1 DEF RInv, Working, Undisturbed
    <3>. QED
      BY <1>2, <1>3, <3>1
  <2>. QED
    BY <1>1, <2>1 DEF RInv, Undisturbed, Expected, Job
<1>. QED
  BY <1>4, <1>6, <1>7, <1>8 DEF RInv

-----------------------------------------------------------------------------
(* Every step preserves the invariant.                                     *)
LEMMA RInvNext == RInv /\ [Next]_vars => RInv'
<1>. SUFFICES ASSUME RInv, [Next]_vars PROVE RInv'
  OBVIOUS
<1>1. CASE UNCHANGED vars
  <2>1. UNCHANGED <<names, stale, late, pc, asked, mine, write, runs, before>>
    BY <1>1 DEF vars
  <2>2. RTypeOK' /\ Working'
    BY <2>1 DEF RInv, RTypeOK, Working
  <2>3. \A i, n : May(i, n) => May(i, n)'
    BY <2>1, MayStill DEF RInv
  <2>4. Borne'
    BY <2>1, <2>3 DEF RInv, Borne
  <2>5. Undisturbed'
    BY <2>1 DEF RInv, Undisturbed, Expected, Job
  <2>. QED
    BY <2>2, <2>4, <2>5 DEF RInv
<1>2. ASSUME NEW t \in Tasks, NEW i \in 1 .. N + 1, NEW n \in Plain \cup Spaced,
             RenamePlain(t, i, n) \/ RenameSpaced(t, i, n)
      PROVE  RInv'
  BY <1>2, RenamePlainPreserves, RenameSpacedPreserves
<1>3. ASSUME NEW t \in Tasks,
             ReadNames(t) \/ ReadUnusable(t) \/ ReadFails(t)
                \/ WriteRuns(t) \/ WriteReturns(t) \/ WriteFails(t)
      PROVE  RInv'
  BY <1>3, ReadNamesPreserves, WriteRunsPreserves, EndsPreserve
<1>4. CASE LateRuns \/ LateLost \/ PollGivesUp \/ StaleGone
  BY <1>4, LatePreserves, StalePreserves
<1>. QED
  BY <1>1, <1>2, <1>3, <1>4 DEF Next

LEMMA RInvAlways == Spec => []RInv
BY RInvInit, RInvNext, PTL DEF Spec

-----------------------------------------------------------------------------
(* The state of the renames is well-formed in every reachable state.        *)
THEOREM RenamesTyped == Spec => []RTypeOK
<1>1. RInv => RTypeOK
  BY DEF RInv
<1>. QED
  BY <1>1, RInvAlways, PTL

(* However many tasks rename at once, and whatever of it is late, lost or     *)
(* repeated, no outlet takes the name of another.                           *)
THEOREM NamesStayInPlace == Spec => []NoForeignNames
<1>1. RInv => NoForeignNames
  BY DEF RInv, Borne, May, NoForeignNames
<1>. QED
  BY <1>1, RInvAlways, PTL

(* A call of set_outlet_name() that no other overlaps renames its own outlet  *)
(* and leaves every other one that the firmware reports as it was; with a   *)
(* name that has no space, every other one.                                *)
THEOREM RenamesOneOnly == Spec => []AloneRenamesOne
<1>1. ASSUME RInv PROVE AloneRenamesOne
  <2>. SUFFICES ASSUME NEW t \in Tasks, before[t] # Nothing, runs[t] > 0, NEW i \in Outlets
                PROVE  IF i = Job(t).index THEN names[i] = Job(t).name
                       ELSE i <= Reported \/ Job(t).name \in Plain => names[i] = before[t][i]
    BY DEF AloneRenamesOne
  <2>1. names[i] = Expected(t, i)
    BY <1>1 DEF RInv, Undisturbed
  <2>2. i <= Reported => ~(i > Reported)
    BY RenameAssumption DEF Outlets
  <2>3. Job(t).name \in Plain => Job(t).name \notin Spaced
    BY RenameAssumption
  <2>. QED
    BY <2>1, <2>2, <2>3 DEF Expected
<1>. QED
  BY <1>1, RInvAlways, PTL

=============================================================================
