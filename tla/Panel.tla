------------------------------- MODULE Panel -------------------------------
(***************************************************************************)
(* What a caller of the library wants of a WattBox, with no protocol in     *)
(* between: a call changes what it names and nothing else, or is refused    *)
(* and changes nothing; a query returns what is there.                     *)
(*                                                                         *)
(* A text is a sequence of tokens: words, numerals and punctuation marks.  *)
(***************************************************************************)
EXTENDS Integers, Sequences, FiniteSets

CONSTANTS
    N,          \* outlets of the device
    Calls,      \* setter calls with their arguments, records with a field "op"
    Queries,    \* queries, <<name>> or <<name, outlet>>
    Panels,     \* settings the device may have at first
    Meters,     \* what it may measure
    Optional,   \* names of queries a firmware may lack
    MaxCalls    \* bound: calls

ASSUME PanelAssumption == N \in Nat /\ MaxCalls \in Nat

Outlets == 1 .. N
Marks   == {",", "{", "}", "NL"}

VARIABLES
    panel,      \* the settings of the device
    meter,      \* what it measures
    supported,  \* the optional queries its firmware answers
    answer,     \* what the last call or query returned or raised
    formed,     \* whether the last reply was in the format of its query
    calls       \* how many calls there were

pvars == <<panel, meter, supported, answer, formed, calls>>

NoCall            == [op |-> "none"]
Done(c)           == <<"done", c>>
Refused(c)        == <<"refused", c>>
Raised(q, error)  == <<"raised", q, error>>
Read(q, value)    == <<"value", q, value>>

PInit ==
    /\ panel \in Panels
    /\ meter \in Meters
    /\ supported \in SUBSET Optional
    /\ answer = Done(NoCall)
    /\ formed = TRUE
    /\ calls = 0

-----------------------------------------------------------------------------
Free(text, marks) == text # <<>> /\ \A i \in DOMAIN text : text[i] \notin marks
Spaced(text)      == \E i \in DOMAIN text : text[i] = " "

(* The names of all outlets once c has renamed one.                        *)
Renamed(p, c) == [p.names EXCEPT ![c.index] = c.name]

Clock(t) == t.h \in 0 .. 23 /\ t.m \in 0 .. 59

(* Which calls are accepted.                                               *)
Accepted(p, c) ==
    CASE c.op = "set_outlet"   -> c.index >= 1
      [] c.op = "reset_outlet" -> c.index >= 0 /\ \A i \in DOMAIN c.delay : c.delay[i] \in 1 .. 600
      [] c.op = "set_delay"    -> c.index >= 1 /\ c.seconds \in 1 .. 600
      [] c.op = "set_mode"     -> c.index >= 1 /\ c.mode \in 0 .. 2
      [] c.op = "set_ops"      -> c.ops # <<>> /\ \A i \in DOMAIN c.ops : c.ops[i] \in {0, 1}
      [] c.op = "set_reboots"  -> TRUE
      [] c.op = "set_timeout"  -> /\ c.timeout \in 1 .. 60 /\ c.count \in 1 .. 10
                                  /\ c.ping \in 1 .. 30 /\ c.attempts \in 0 .. 10
      [] c.op = "rename"       -> IF Spaced(c.name)
                                  THEN /\ c.index \in Outlets
                                       /\ \A o \in Outlets : Free(Renamed(p, c)[o], Marks \ {","})
                                  ELSE c.index >= 1 /\ Free(c.name, Marks)
      [] c.op = "rename_all"   -> /\ c.names # <<>>
                                  /\ \A i \in DOMAIN c.names : Free(c.names[i], Marks \ {","})
      [] c.op = "add_host"     -> /\ Free(c.name, Marks) /\ Free(c.ip, Marks) /\ c.outlets # <<>>
                                  /\ \A i \in DOMAIN c.outlets : c.outlets[i] >= 1
      [] c.op = "add_schedule" -> /\ Free(c.name, Marks) /\ c.outlets # <<>>
                                  /\ \A i \in DOMAIN c.outlets : c.outlets[i] >= 1
                                  /\ c.action \in 0 .. 2 /\ Clock(c.time)
                                  /\ Len(c.days) + Len(c.date) = 1
                                  /\ \A i \in DOMAIN c.date :
                                        c.date[i].m \in 1 .. 12 /\ c.date[i].d \in 1 .. 31

(* The outlets a call names; 0 stands for all of them.                     *)
Named(i) == IF i = 0 THEN Outlets ELSE {i} \cap Outlets
At(f, i, value) == [o \in Outlets |-> IF o \in Named(i) THEN value ELSE f[o]]

Switched(p, c) ==
    At(p.on, c.index, CASE c.action = "ON"  -> TRUE
                        [] c.action = "OFF" -> FALSE
                        [] c.action = "TOGGLE" -> c.index \in Outlets /\ ~p.on[c.index])

(* What an accepted call does.                                             *)
Effect(p, c) ==
    CASE c.op = "set_outlet"   -> [p EXCEPT !.on = Switched(p, c)]
      [] c.op = "reset_outlet" ->
            [p EXCEPT !.cycled = [o \in Outlets |->
                IF o \notin Named(c.index) THEN p.cycled[o]
                ELSE IF c.delay = <<>> THEN p.delays[o] ELSE Head(c.delay)]]
      [] c.op = "set_delay"    -> [p EXCEPT !.delays = At(@, c.index, c.seconds)]
      [] c.op = "set_mode"     -> [p EXCEPT !.modes = At(@, c.index, c.mode)]
      [] c.op = "set_ops"      -> [p EXCEPT !.ops = c.ops]
      [] c.op = "set_reboots"  -> [p EXCEPT !.reboots = c.enabled]
      [] c.op = "set_timeout"  -> [p EXCEPT !.timeouts = <<c.timeout, c.count, c.ping, c.attempts>>]
      [] c.op = "rename"       -> [p EXCEPT !.names = At(@, c.index, c.name)]
      [] c.op = "rename_all"   -> [p EXCEPT !.names = c.names]
      [] c.op = "add_host"     -> [p EXCEPT !.hosts = @ \cup {<<c.name, c.ip, c.outlets>>}]
      [] c.op = "add_schedule" ->
            [p EXCEPT !.schedule = @ \cup {<<c.name, c.outlets, c.action, c.days, c.date, c.time>>}]

(* What a query is to return.                                              *)
Value(q) ==
    CASE q[1] = "OutletStatus"       -> panel.on
      [] q[1] = "OutletName"         -> panel.names
      [] q[1] = "OutletPowerOnDelay" -> panel.delays
      [] q[1] = "AutoReboot"         -> panel.reboots
      [] q[1] = "OutletCount"        -> N
      [] q[1] = "PowerStatus"        -> meter.power
      [] q[1] = "OutletPowerStatus"  -> meter.outlets[q[2]]
      [] q[1] = "UPSStatus"          -> meter.ups
      [] q[1] = "UPSConnection"      -> meter.ups_connected

-----------------------------------------------------------------------------
Call(c) ==
    /\ calls < MaxCalls
    /\ IF Accepted(panel, c)
       THEN answer' = Done(c) /\ panel' = Effect(panel, c)
       ELSE answer' = Refused(c) /\ UNCHANGED panel
    /\ calls' = calls + 1
    /\ formed' = TRUE
    /\ UNCHANGED <<meter, supported>>

Query(q) ==
    /\ answer' = IF q[1] \in Optional \ supported THEN Raised(q, "Unsupported") ELSE Read(q, Value(q))
    /\ formed' = TRUE
    /\ UNCHANGED <<panel, meter, supported, calls>>

(* A reply that is not well-formed is never taken for a value.             *)
BadReply(q) ==
    /\ answer' = Raised(q, "ProtocolError")
    /\ formed' = FALSE
    /\ UNCHANGED <<panel, meter, supported, calls>>

PNext == (\E c \in Calls : Call(c)) \/ (\E q \in Queries : Query(q) \/ BadReply(q))

PSpec == PInit /\ [][PNext]_pvars

=============================================================================
