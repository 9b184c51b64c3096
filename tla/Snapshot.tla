------------------------------ MODULE Snapshot ------------------------------
(***************************************************************************)
(* identify(), snapshot() and outlet_states() of wattbox_local/client.py:   *)
(* up to thirty round trips in a row, by several tasks that share the       *)
(* cached identity and capabilities of the client and, one round trip at a  *)
(* time, its connection.                                                   *)
(*                                                                         *)
(* From module Transport come the facts that one round trip is on the wire  *)
(* at a time and that replies come in the order of the requests; from      *)
(* module Client, that a query given up is sent once more on the same      *)
(* connection, and that no call succeeds after a drop.  The sets of other   *)
(* tasks are here for what they leave on the connection.                   *)
(***************************************************************************)
EXTENDS Integers, Sequences, FiniteSets

CONSTANTS
    Tasks,          \* callers of snapshot() and outlet_states()
    N,              \* outlet_count
    Firmwares,      \* sets of optional queries that a firmware may answer
    MaxOps,         \* bound: calls of snapshot() and outlet_states()
    MaxGiveUps,     \* bound: round trips that time out
    MaxLoose        \* bound: lines without a prefix that nobody waits for

ASSUME SnapshotAssumption ==
    N \in Nat /\ MaxOps \in Nat /\ MaxGiveUps \in Nat /\ MaxLoose \in Nat

(* A query is its command name and an outlet, or 0.                        *)
Query(name) == <<name, 0>>
Each(names) == [i \in DOMAIN names |-> Query(names[i])]

Identity == Each(<<"Model", "Firmware", "Hostname", "ServiceTag", "OutletCount">>)

(* The fields of Capabilities.                                             *)
Probes == <<Query("PowerStatus"), <<"OutletPowerStatus", 1>>, Query("UPSStatus"),
            Query("AutoReboot"), Query("Mute"), Query("SafeVoltage"), Query("ScheduledReboot")>>

(* The queries whose "#Error" is expected.                                 *)
Optional == {Probes[i][1] : i \in DOMAIN Probes} \cup {"UPSConnection"}

ASSUME FirmwareAssumption == \A f \in Firmwares : f \subseteq Optional

VARIABLES
    firmware,   \* the optional queries the device answers
    wire,       \* lines in flight to the client, in order
    giveups,    \* history: how many round trips of a query timed out
    loose,      \* history: how many lines without a prefix nobody waited for
    disturbed,  \* history: the tasks since whose last reading either happened
    info,       \* _info: the operation that read it, 0 when None
    caps,       \* _capabilities: that operation and what it found
    ops,        \* how many operations were started
    op,         \* per task: its operation, 0 when idle, and what it is for
    todo,       \* per task: the queries before its next decision
    again,      \* per task: its query is being sent for the second time
    found,      \* per task: the capabilities it has found
    got         \* per task: what its last operation has read so far

device == <<firmware, wire, giveups, loose, disturbed>>
svars  == <<device, info, caps, ops, op, todo, again, found, got>>

Idle   == [id |-> 0, full |-> FALSE, stage |-> "idle"]
NoCaps == [id |-> 0, has |-> {}]

Init ==
    /\ firmware \in Firmwares
    /\ wire    = <<>>
    /\ giveups = 0
    /\ loose   = 0
    /\ disturbed = {}
    /\ info    = 0
    /\ caps    = NoCaps
    /\ ops     = 0
    /\ op      = [t \in Tasks |-> Idle]
    /\ todo    = [t \in Tasks |-> <<>>]
    /\ again   = [t \in Tasks |-> FALSE]
    /\ found   = [t \in Tasks |-> {}]
    /\ got     = [t \in Tasks |-> <<>>]

-----------------------------------------------------------------------------
(* What is asked: the states and names, then all that has holds.            *)

Listed(has, name, queries) == IF name \in has THEN queries ELSE <<>>

Reads(full, has) ==
    Each(<<"OutletStatus", "OutletName">>)
    \o (IF ~full THEN <<>>
        ELSE Listed(has, "PowerStatus", Each(<<"PowerStatus">>))
             \o Listed(has, "OutletPowerStatus", [i \in 1 .. N |-> <<"OutletPowerStatus", i>>])
             \o Listed(has, "UPSStatus", Each(<<"UPSStatus", "UPSConnection">>))
             \o Listed(has, "AutoReboot", Each(<<"AutoReboot">>)))

(* snapshot() or outlet_states(): identify() first, unless both are known.  *)
Begin(t, full) ==
    /\ op[t] = Idle /\ ops < MaxOps
    /\ ops' = ops + 1
    /\ LET known == info # 0 /\ caps # NoCaps IN
         /\ op' = [op EXCEPT ![t] = [id |-> ops + 1, full |-> full,
                                     stage |-> IF known THEN "read" ELSE "identify"]]
         /\ todo' = [todo EXCEPT ![t] = IF known THEN Reads(full, caps.has) ELSE Identity]
    /\ got' = [got EXCEPT ![t] = <<>>]
    /\ UNCHANGED <<device, info, caps, again, found>>

-----------------------------------------------------------------------------
(* One round trip: the request, what the device replies, and which line     *)
(* ends the read.  "#Error", "OK" and text have no name, and end any read.  *)

Reply(q) == [name |-> q[1], outlet |-> q[2], error |-> q[1] \in Optional \ firmware]

Unnamed   == "no name"
Ack(error) == [name |-> Unnamed, outlet |-> 0, error |-> error]

Asking(t) == todo[t] # <<>>
Asked(t)  == Head(todo[t])

Ends(line, q) == line.error \/ line.name \in {Unnamed, q[1]}

(* What expect_value() and the parsers take: neither "#Error" nor "OK".      *)
Valued(line) == ~line.error /\ line.name # Unnamed

(* Up to k lines are read, of which only the last may have ended the read.  *)
Passed(lines, q, k) ==
    /\ k \in 0 .. Len(lines)
    /\ \A j \in 1 .. k - 1 : ~Ends(lines[j], q)
    /\ wire' = SubSeq(lines, k + 1, Len(lines))

(* Faulty: the lines before the one that is taken stay in the buffer.       *)
TakenKeepsOthers(lines, q, k) ==
    /\ k \in DOMAIN lines /\ Ends(lines[k], q)
    /\ \A j \in 1 .. k - 1 : ~Ends(lines[j], q)
    /\ wire' = SubSeq(lines, 1, k - 1) \o SubSeq(lines, k + 1, Len(lines))

Taken(lines, q, k) ==
    /\ k \in DOMAIN lines /\ Ends(lines[k], q)
    /\ Passed(lines, q, k)

(* The lines the client may have read or have in flight once it has asked:  *)
(* the device may leave the request unanswered.                            *)
Lines(q) == {wire, Append(wire, Reply(q))}

Leave(t) ==
    /\ op'    = [op    EXCEPT ![t] = Idle]
    /\ todo'  = [todo  EXCEPT ![t] = <<>>]
    /\ found' = [found EXCEPT ![t] = {}]

(* A round trip is given up, some lines of other names having been          *)
(* discarded; its reply may still come.                                    *)
Lost(t) ==
    /\ Asking(t) /\ giveups < MaxGiveUps
    /\ \E lines \in Lines(Asked(t)) : \E k \in 0 .. Len(lines) :
         Passed(lines, Asked(t), k) /\ (k > 0 => ~Ends(lines[k], Asked(t)))
    /\ giveups' = giveups + 1
    /\ disturbed' = {u \in Tasks : got[u] # <<>>}
    /\ UNCHANGED <<firmware, loose, info, caps, ops, got>>

TryAgain(t) ==
    /\ Lost(t) /\ ~again[t]
    /\ again' = [again EXCEPT ![t] = TRUE]
    /\ UNCHANGED <<op, todo, found>>

(* The second try failed, or the task is cancelled.                        *)
GiveUp(t) ==
    /\ Lost(t)
    /\ again' = [again EXCEPT ![t] = FALSE]
    /\ Leave(t)

(* Asked(t) is answered by a line, which is its own reply or an older one.  *)
Answered(t, line, own) ==
    /\ Asking(t)
    /\ \E lines \in Lines(Asked(t)) : \E k \in DOMAIN lines :
         Taken(lines, Asked(t), k) /\ line = lines[k] /\ own = (k > Len(wire))
    /\ again' = [again EXCEPT ![t] = FALSE]
    /\ UNCHANGED <<firmware, giveups, loose, ops>>

AnyLine(q) == {wire[i] : i \in DOMAIN wire} \cup {Reply(q)}

-----------------------------------------------------------------------------
(* A set of another task, in its own round trip.  One of them bears the     *)
(* name of a query.                                                        *)

Setters == {Query("OutletSet"), Query("AutoReboot")}

(* Its ack is the last line it reads, or never comes.                       *)
SetAcked ==
    /\ \E q \in Setters, error \in BOOLEAN :
         \/ \E k \in 0 .. Len(wire) : Passed(wire, q, k)
         \/ Passed(Append(wire, Ack(error)), q, Len(wire) + 1)
    /\ UNCHANGED <<firmware, giveups, loose, disturbed, info, caps, ops, op, todo, again, found, got>>

(* It is given up, or takes a push or an older line for its ack, which      *)
(* stays on its way.  A text that the device says unasked does the same.    *)
SetUnacked ==
    /\ loose < MaxLoose
    /\ \E q \in Setters, error \in BOOLEAN : \E k \in 0 .. Len(wire) :
         Passed(Append(wire, Ack(error)), q, k)
    /\ loose' = loose + 1
    /\ disturbed' = {u \in Tasks : got[u] # <<>>}
    /\ UNCHANGED <<firmware, giveups, info, caps, ops, op, todo, again, found, got>>

-----------------------------------------------------------------------------
(* identify()                                                              *)

IsProbe(t) == op[t].stage = "probe"

(* Faulty: the identity is kept as soon as it is complete.                 *)
IdentifiedEarly(t) ==
    /\ op[t].stage = "identify"
    /\ \E line \in AnyLine(Asked(t)), own \in BOOLEAN :
         /\ Answered(t, line, own)
         /\ IF ~Valued(line) THEN Leave(t) /\ UNCHANGED info
            ELSE /\ IF Len(todo[t]) > 1
                    THEN todo' = [todo EXCEPT ![t] = Tail(@)] /\ UNCHANGED <<op, info>>
                    ELSE /\ todo' = [todo EXCEPT ![t] = Probes]
                         /\ op' = [op EXCEPT ![t].stage = "probe"]
                         /\ info' = op[t].id
                 /\ UNCHANGED found
    /\ UNCHANGED <<caps, got, disturbed>>

(* An identity query; "#Error" and what is no value are raised.            *)
Identified(t) ==
    /\ op[t].stage = "identify"
    /\ \E line \in AnyLine(Asked(t)), own \in BOOLEAN :
         /\ Answered(t, line, own)
         /\ IF ~Valued(line) THEN Leave(t)
            ELSE /\ IF Len(todo[t]) > 1
                    THEN todo' = [todo EXCEPT ![t] = Tail(@)] /\ UNCHANGED op
                    ELSE /\ todo' = [todo EXCEPT ![t] = Probes]
                         /\ op' = [op EXCEPT ![t].stage = "probe"]
                 /\ UNCHANGED found
    /\ UNCHANGED <<info, caps, got, disturbed>>

(* Faulty: any answer counts.                                              *)
SupportedIfAnswered(line) == TRUE

(* _is_supported()                                                         *)
Supported(line) == ~line.error

(* A probe.  The last one stores identity and capabilities together, and    *)
(* the operation goes on with what it found itself.                        *)
Probed(t) ==
    /\ IsProbe(t)
    /\ \E line \in AnyLine(Asked(t)), own \in BOOLEAN :
         LET has == found[t] \cup (IF Supported(line) THEN {Asked(t)[1]} ELSE {}) IN
         /\ Answered(t, line, own)
         /\ found' = [found EXCEPT ![t] = has]
         /\ IF Len(todo[t]) > 1
            THEN todo' = [todo EXCEPT ![t] = Tail(@)] /\ UNCHANGED <<op, info, caps>>
            ELSE /\ info' = op[t].id
                 /\ caps' = [id |-> op[t].id, has |-> has]
                 /\ todo' = [todo EXCEPT ![t] = Reads(op[t].full, has)]
                 /\ op' = [op EXCEPT ![t].stage = "read"]
    /\ UNCHANGED <<got, disturbed>>

-----------------------------------------------------------------------------
(* The readings.  "#Error" to a state or name query is raised, and so is     *)
(* whatever is no value; an optional reading answered "#Error" is left out,  *)
(* that of the UPS together with its connection.                           *)

Mandatory == {"OutletStatus", "OutletName"}

Raised(q, line) == IF line.error THEN q[1] \in Mandatory ELSE ~Valued(line)

Skipped(t, line) == IF line.error /\ Asked(t)[1] = "UPSStatus" THEN 2 ELSE 1

(* History: whose reply it was, and whether the connection was undisturbed   *)
(* since the reading before.                                               *)
Reading(t, own) == [query |-> Asked(t)[1], own |-> own, undisturbed |-> t \notin disturbed]

ReadNext(t) ==
    /\ op[t].stage = "read"
    /\ \E line \in AnyLine(Asked(t)), own \in BOOLEAN :
         LET rest == SubSeq(todo[t], Skipped(t, line) + 1, Len(todo[t])) IN
         /\ Answered(t, line, own)
         /\ IF Raised(Asked(t), line) \/ rest = <<>>
            THEN Leave(t)
            ELSE todo' = [todo EXCEPT ![t] = rest] /\ UNCHANGED <<op, found>>
         /\ IF Valued(line)
            THEN /\ got' = [got EXCEPT ![t] = Append(@, Reading(t, own))]
                 /\ disturbed' = disturbed \ {t}
            ELSE UNCHANGED <<got, disturbed>>
    /\ UNCHANGED <<info, caps>>

-----------------------------------------------------------------------------
(* The entities that the platforms make of the first snapshot, and what they  *)
(* show of a later one.                                                    *)

Outlets == 1 .. N
PerOutlet(kinds) == kinds \X Outlets

(* async_setup_entry() of switch, button, sensor and binary_sensor: an       *)
(* entity and its outlet, 0 for those of the device.                       *)
EntitiesFor(has) ==
    PerOutlet({"switch", "reset"}) \cup {<<"reset_all", 0>>, <<"api_locked", 0>>}
    \cup (IF "PowerStatus" \in has THEN {<<"power", 0>>} ELSE {})
    \cup (IF "OutletPowerStatus" \in has THEN PerOutlet({"outlet_power"}) ELSE {})
    \cup (IF "UPSStatus" \in has THEN {<<"ups", 0>>, <<"ups_connected", 0>>} ELSE {})

(* The optional query whose answer an entity shows, if it shows one.        *)
ShownBy(entity) == CASE entity[1] = "power"        -> {"PowerStatus"}
                     [] entity[1] = "outlet_power" -> {"OutletPowerStatus"}
                     [] entity[1] \in {"ups", "ups_connected"} -> {"UPSStatus"}
                     [] OTHER                      -> {}

-----------------------------------------------------------------------------
Next ==
    \/ \E t \in Tasks :
         \/ \E full \in BOOLEAN : Begin(t, full)
         \/ TryAgain(t) \/ GiveUp(t) \/ Identified(t) \/ Probed(t) \/ ReadNext(t)
    \/ SetAcked \/ SetUnacked

Spec == Init /\ [][Next]_svars

-----------------------------------------------------------------------------
(* Properties                                                              *)

(* client.py:194 stores what one identification read: tasks that probe at    *)
(* the same time never leave the identity of one beside the capabilities   *)
(* of another, and whoever reads finds both.                               *)
StoredTogether ==
    /\ info = caps.id
    /\ \A t \in Tasks : op[t].stage = "read" => caps # NoCaps

(* client.py:422 "recording which the device supports", README:25 "entities  *)
(* only get created for features the device actually has".  It does not hold  *)
(* as it stands, with some line without a prefix left on its way.            *)
NoPhantomCapability == \A entity \in EntitiesFor(caps.has) : ShownBy(entity) \subseteq firmware

(* What does hold: however replies are late, repeated or given up and     *)
(* sets come in between, a capability that the device lacks is recorded only  *)
(* if some line without a prefix was left on its way that nobody waited for:  *)
(* an ack, or a text.  The converse fails: a late "#Error" hides a capability *)
(* for the life of the client.                                             *)
PhantomHasCause == loose = 0 => NoPhantomCapability

(* The readings of an operation keep step with its queries (client.py:214):   *)
(* one that is the reply to its own request is followed by another such,     *)
(* whoever asked or set something in between, unless a round trip of some     *)
(* task was given up there or a set did not read its ack.  Nothing says that  *)
(* a shift ends.                                                           *)
ReadingsKeepStep ==
    \A t \in Tasks : \A i \in DOMAIN got[t] :
        i > 1 /\ got[t][i - 1].own /\ got[t][i].undisturbed => got[t][i].own

=============================================================================
