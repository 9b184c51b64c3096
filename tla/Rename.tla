------------------------------- MODULE Rename -------------------------------
(***************************************************************************)
(* set_outlet_name() and _read_outlet_names() of wattbox_local/client.py:   *)
(* a name with a space is set by reading all the names, swapping one and   *)
(* writing all of them back, in two round trips that other tasks, the      *)
(* retry of _send() and lines still in flight can come between.            *)
(*                                                                         *)
(* From module Transport come the facts that a write given up may run       *)
(* later or never, and that a reply to "?OutletName" may be an older one;  *)
(* from module Client, that a write may run twice.  An ack is the write's  *)
(* own: Transport shows when it is not.                                    *)
(***************************************************************************)
EXTENDS Integers, Sequences, FiniteSets

CONSTANTS
    Tasks,          \* tasks that rename outlets
    N,              \* outlet_count
    Reported,       \* how many names the firmware reports
    Plain, Spaced,  \* names to set, without and with a space
    EmptyName,      \* an outlet may have no name
    Factory,        \* the names the outlets have at first
    Default,        \* "Outlet i"
    MaxRenames      \* bound: calls of set_outlet_name()

Outlets == 1 .. N
Names   == Plain \cup Spaced \cup {Factory[i] : i \in Outlets} \cup {Default[i] : i \in Outlets}

ASSUME RenameAssumption ==
    /\ N \in Nat /\ Reported \in 0 .. N /\ MaxRenames \in Nat
    /\ Plain \cap Spaced = {} /\ EmptyName \notin Plain \cup Spaced
    /\ Factory \in [Outlets -> Names] /\ Default \in [Outlets -> Names]

VARIABLES
    names,      \* the names on the device
    stale,      \* names in a reply that is still in flight to a call given up
    late,       \* writes in flight whose call was given up
    pc,         \* "idle", "reading" or "writing"
    asked,      \* history: the calls, [index, name], in order
    mine,       \* the place of a task's call in asked
    write,      \* what the line sent sets, [outlet -> name]
    runs,       \* how often the device has run that line
    before      \* history: names when a call began that is alone, else <<>>

vars == <<names, stale, late, pc, asked, mine, write, runs, before>>

Calls  == [index : 1 .. N + 1, name : Plain \cup Spaced]
Writes == UNION {[S -> Names] : S \in SUBSET Outlets}
Nothing == <<>>

RTypeOK ==
    /\ names  \in [Outlets -> Names]
    /\ stale  \in Seq([1 .. Reported -> Names])
    /\ late   \subseteq Writes
    /\ pc     \in [Tasks -> {"idle", "reading", "writing"}]
    /\ asked  \in Seq(Calls)
    /\ mine   \in [Tasks -> 0 .. Len(asked)]
    /\ write  \in [Tasks -> Writes]
    /\ runs   \in [Tasks -> 0 .. 2]
    /\ before \in [Tasks -> {Nothing} \cup [Outlets -> Names]]

Init ==
    /\ names  = Factory
    /\ stale  = <<>>
    /\ late   = {}
    /\ pc     = [t \in Tasks |-> "idle"]
    /\ asked  = <<>>
    /\ mine   = [t \in Tasks |-> 0]
    /\ write  = [t \in Tasks |-> Nothing]
    /\ runs   = [t \in Tasks |-> 0]
    /\ before = [t \in Tasks |-> Nothing]

Job(t) == asked[mine[t]]
Active == {t \in Tasks : pc[t] # "idle"}

(* A call is alone until another begins, if nothing was in flight.          *)
Begin(t, i, n) ==
    /\ pc[t] = "idle" /\ Len(asked) < MaxRenames
    /\ asked' = Append(asked, [index |-> i, name |-> n])
    /\ mine' = [mine EXCEPT ![t] = Len(asked) + 1]
    /\ before' = [u \in Tasks |->
                    IF u = t /\ Active = {} /\ late = {} /\ stale = <<>> THEN names ELSE Nothing]
    /\ UNCHANGED <<names, stale, late, runs>>

Leave(t) ==
    /\ pc' = [pc EXCEPT ![t] = "idle"]
    /\ mine' = [mine EXCEPT ![t] = 0]
    /\ write' = [write EXCEPT ![t] = Nothing]
    /\ runs' = [runs EXCEPT ![t] = 0]
    /\ before' = [before EXCEPT ![t] = Nothing]
    /\ UNCHANGED asked

-----------------------------------------------------------------------------
(* "!OutletNameSet=i,name"; the device ignores an outlet it does not have.  *)
RenamePlain(t, i, n) ==
    /\ n \in Plain
    /\ Begin(t, i, n)
    /\ write' = [write EXCEPT ![t] = [j \in {i} \cap Outlets |-> n]]
    /\ pc' = [pc EXCEPT ![t] = "writing"]

RenameSpaced(t, i, n) ==
    /\ n \in Spaced
    /\ Begin(t, i, n)
    /\ pc' = [pc EXCEPT ![t] = "reading"]
    /\ UNCHANGED write

Shown == [i \in 1 .. Reported |-> names[i]]

(* Faulty: an outlet without a name takes its default, too.                 *)
PaddedWhereEmpty(shown) ==
    [i \in Outlets |-> IF i \in DOMAIN shown /\ shown[i] # EmptyName THEN shown[i] ELSE Default[i]]

Padded(shown) == [i \in Outlets |-> IF i \in DOMAIN shown THEN shown[i] ELSE Default[i]]

(* Faulty: the 1-based index is used as it is in a 0-based list.            *)
SwapNext(current, i, n) == [j \in DOMAIN current |-> IF j = i + 1 THEN n ELSE current[j]]

Swap(current, i, n) == [j \in DOMAIN current |-> IF j = i THEN n ELSE current[j]]

(* The names come back in the oldest reply in flight.                      *)
Answer == Append(stale, Shown)

ReadNames(t) ==
    LET current == Padded(Head(Answer))
        all     == Swap(current, Job(t).index, Job(t).name)
    IN
    /\ pc[t] = "reading"
    /\ Job(t).index \in DOMAIN current
    /\ \A i \in DOMAIN all : all[i] # EmptyName
    /\ stale' = Tail(Answer)
    /\ write' = [write EXCEPT ![t] = all]
    /\ pc' = [pc EXCEPT ![t] = "writing"]
    /\ UNCHANGED <<names, late, asked, mine, runs, before>>

(* ValueError: no such outlet, or another outlet has no name.              *)
ReadUnusable(t) ==
    LET current == Padded(Head(Answer))
        all     == Swap(current, Job(t).index, Job(t).name)
    IN
    /\ pc[t] = "reading"
    /\ Job(t).index \notin DOMAIN current \/ \E i \in DOMAIN all : all[i] = EmptyName
    /\ stale' = Tail(Answer)
    /\ Leave(t)
    /\ UNCHANGED <<names, late>>

ReadFails(t) ==
    /\ pc[t] = "reading"
    /\ Leave(t)
    /\ UNCHANGED <<names, stale, late>>

(* The device runs a line.                                                 *)
Stored(w) == names' = [i \in Outlets |-> IF i \in DOMAIN w THEN w[i] ELSE names[i]]

(* Faulty: the retry is not limited to one.                                *)
WriteRunsAgain(t) ==
    /\ pc[t] = "writing"
    /\ Stored(write[t])
    /\ runs' = [runs EXCEPT ![t] = @ + 1]
    /\ UNCHANGED <<stale, late, pc, asked, mine, write, before>>

WriteRuns(t) ==
    /\ pc[t] = "writing" /\ runs[t] < 2
    /\ Stored(write[t])
    /\ runs' = [runs EXCEPT ![t] = @ + 1]
    /\ UNCHANGED <<stale, late, pc, asked, mine, write, before>>

WriteReturns(t) ==
    /\ pc[t] = "writing" /\ runs[t] > 0
    /\ Leave(t)
    /\ UNCHANGED <<names, stale, late>>

(* Given up, or "#Error"; one of its two lines may still be on its way.     *)
WriteFails(t) ==
    /\ pc[t] = "writing"
    /\ late' \in {late} \cup (IF runs[t] < 2 THEN {late \cup {write[t]}} ELSE {})
    /\ Leave(t)
    /\ UNCHANGED <<names, stale>>

-----------------------------------------------------------------------------
(* The lines in flight                                                     *)

LateRuns ==
    \E w \in late :
        /\ Stored(w)
        /\ late' = late \ {w}
        /\ UNCHANGED <<stale, pc, asked, mine, write, runs, before>>

LateLost ==
    \E w \in late :
        /\ late' = late \ {w}
        /\ UNCHANGED <<names, stale, pc, asked, mine, write, runs, before>>

(* The poll gives up its "?OutletName"; the answer comes later.            *)
PollGivesUp ==
    /\ stale = <<>>
    /\ stale' = <<Shown>>
    /\ UNCHANGED <<names, late, pc, asked, mine, write, runs, before>>

(* Another command discards the late reply, or the connection ends.        *)
StaleGone ==
    /\ stale # <<>>
    /\ stale' = <<>>
    /\ UNCHANGED <<names, late, pc, asked, mine, write, runs, before>>

-----------------------------------------------------------------------------
Next ==
    \/ \E t \in Tasks :
         \/ \E i \in 1 .. N + 1, n \in Plain \cup Spaced : RenamePlain(t, i, n) \/ RenameSpaced(t, i, n)
         \/ ReadNames(t) \/ ReadUnusable(t) \/ ReadFails(t)
         \/ WriteRuns(t) \/ WriteReturns(t) \/ WriteFails(t)
    \/ LateRuns \/ LateLost \/ PollGivesUp \/ StaleGone

Spec == Init /\ [][Next]_vars

-----------------------------------------------------------------------------
(* Properties                                                              *)

(* Names never change places: whatever is read late, written late or        *)
(* written twice, an outlet bears its first name, one it was asked to      *)
(* bear, or, if the firmware does not report it, its default.              *)
NoForeignNames ==
    \A i \in Outlets :
        \/ names[i] = Factory[i]
        \/ \E k \in DOMAIN asked : asked[k].index = i /\ asked[k].name = names[i]
        \/ i > Reported /\ names[i] = Default[i]

(* client.py:257 "Rename a single outlet", as far as it holds: a call that is *)
(* alone, once the device has run its line, has renamed its outlet and left  *)
(* every other one that the firmware reports as it was, although it wrote    *)
(* all of them; a name without a space leaves those not reported, too.       *)
(* With a space it renames these, and another call that ended between the    *)
(* read and the write is undone.                                           *)
AloneRenamesOne ==
    \A t \in Tasks : before[t] # Nothing /\ runs[t] > 0 =>
        \A i \in Outlets :
            IF i = Job(t).index THEN names[i] = Job(t).name
            ELSE i <= Reported \/ Job(t).name \in Plain => names[i] = before[t][i]

=============================================================================
