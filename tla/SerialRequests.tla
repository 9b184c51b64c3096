--------------------------- MODULE SerialRequests ---------------------------
(***************************************************************************)
(* What the command path of a transport promises its callers, without the  *)
(* device, the connection or the event loop: requests queue up and are     *)
(* served one at a time in the order they came; a request ends once, given *)
(* up or with the answer to a request no later than itself, made on the    *)
(* same connection and not used before.                                    *)
(*                                                                         *)
(* It does not promise that the answer is the request's own: an answer to  *)
(* an earlier request may turn up late.                                    *)
(***************************************************************************)
EXTENDS Integers, Sequences, SequencesExt

CONSTANTS Clients, Commands, Connections

VARIABLES
    queue,      \* the client being served or about to be, then those waiting
    slots       \* every request served so far, and how it ended

vars == <<queue, slots>>

Busy == slots # <<>> /\ slots[Len(slots)].fate = "open"

Served(n) == slots[n].fate = "answered"

Init == queue = <<>> /\ slots = <<>>

Enter(t) ==
    /\ queue # <<>> /\ \A i \in DOMAIN queue : queue[i] # t
    /\ queue' = Append(queue, t)
    /\ UNCHANGED slots

Open(t, c, k) ==
    /\ ~Busy
    /\ slots' = Append(slots, [task |-> t, cmd |-> c, session |-> k,
                               fate |-> "open", by |-> 0])

OpenAtOnce(t, c, k) == queue = <<>> /\ queue' = <<t>> /\ Open(t, c, k)

OpenInTurn(t, c, k) == queue # <<>> /\ Head(queue) = t /\ Open(t, c, k) /\ UNCHANGED queue

Mine(t) == Busy /\ queue # <<>> /\ Head(queue) = t /\ slots[Len(slots)].task = t

End(t, fate, k) ==
    /\ Mine(t)
    /\ slots' = [slots EXCEPT ![Len(slots)].fate = fate, ![Len(slots)].by = k]
    /\ queue' = Tail(queue)

GiveUp(t) == End(t, "abandoned", 0)

(* k = 0 is a line that answers no request at all: an unsolicited push.    *)
Answer(t, k) ==
    /\ k # 0 => /\ slots[k].session = slots[Len(slots)].session
                /\ \A n \in DOMAIN slots : Served(n) => slots[n].by # k
    /\ End(t, "answered", k)

(* A client that is not being served leaves the queue.                     *)
Leave(t) ==
    /\ Busy => Head(queue) # t
    /\ \E i \in DOMAIN queue : queue[i] = t /\ queue' = RemoveAt(queue, i)
    /\ UNCHANGED slots

Next ==
    \E t \in Clients :
        \/ Enter(t) \/ GiveUp(t) \/ Leave(t)
        \/ \E k \in 0 .. Len(slots) : Answer(t, k)
        \/ \E c \in Commands, k \in Connections : OpenAtOnce(t, c, k) \/ OpenInTurn(t, c, k)

Spec == Init /\ [][Next]_vars

=============================================================================
