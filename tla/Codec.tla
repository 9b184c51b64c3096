------------------------------- MODULE Codec -------------------------------
(***************************************************************************)
(* wattbox_local/protocol.py: the encoders with the bounds they check, the  *)
(* choice of the line that answers a command, and the parsers; with the    *)
(* setters and readers of client.py that use them.  One action is a whole  *)
(* call: encode, let the device run the line, read its reply, parse.       *)
(*                                                                         *)
(* A line is the part before "=" and, as a text, the part after it.  What   *)
(* the device makes of a line is taken from the formats that the encoders  *)
(* and parsers name in their comments.                                     *)
(***************************************************************************)
EXTENDS Panel, SequencesExt, TLC

CONSTANTS
    Tokens,     \* words, numerals and marks, of which texts are made
    Numbers,    \* the integers that occur
    Decimals,   \* numerals with a fraction, as tokens
    Noise,      \* lines that may stand in front of a reply
    Junk        \* replies out of format: the query |-> the texts to try

Numerals == {ToString(n) : n \in Numbers}
Readings == Numerals \cup Decimals
Texts    == Seq(Tokens)
OneOrNo(S) == {<<>>} \cup {<<x>> : x \in S}

(* Numerals differ, and are no punctuation.                                *)
ASSUME NumbersAssumption ==
    /\ Numbers \subseteq Int /\ {0, 1, N} \subseteq Numbers
    /\ ToString(0) = "0" /\ ToString(1) = "1"
    /\ \A m, n \in Numbers : ToString(m) = ToString(n) => m = n
    /\ Readings \subseteq Tokens \ (Marks \cup {" "})

Words == {"ON", "OFF", "TOGGLE", "RESET", "Good", "Fair", "Bad", "Unknown", "True", "False"}
ASSUME TokensAssumption == Marks \cup {" ", ":", "/"} \cup Words \subseteq Tokens

(* What callers pass: index and settings as numbers, as many names as there   *)
(* are outlets, days or a date or, wrongly, neither or both.                *)
Clocks == [h : Numbers, m : Numbers]
Dates  == [y : Numbers, m : Numbers, d : Numbers]
Weeks  == [1 .. 7 -> BOOLEAN]
ASSUME CallsAssumption == \A c \in Calls :
    \/ c \in [op : {"set_outlet"}, index : Numbers, action : {"ON", "OFF", "TOGGLE"}]
    \/ c \in [op : {"reset_outlet"}, index : Numbers, delay : OneOrNo(Numbers)]
    \/ c \in [op : {"set_delay"}, index : Numbers, seconds : Numbers]
    \/ c \in [op : {"set_mode"}, index : Numbers, mode : Numbers]
    \/ c \in [op : {"set_ops"}, ops : Seq(Numbers)]
    \/ c \in [op : {"set_reboots"}, enabled : BOOLEAN]
    \/ c \in [op : {"set_timeout"}, timeout : Numbers, count : Numbers,
              ping : Numbers, attempts : Numbers]
    \/ c \in [op : {"rename"}, index : Numbers, name : Texts]
    \/ c \in [op : {"rename_all"}, names : {<<>>} \cup [Outlets -> Texts]]
    \/ c \in [op : {"add_host"}, name : Texts, ip : Texts, outlets : Seq(Numbers)]
    \/ c \in [op : {"add_schedule"}, name : Texts, outlets : Seq(Numbers), action : Numbers,
              days : OneOrNo(Weeks), date : OneOrNo(Dates), time : Clocks]

(* What a device has: its names have no "}", which ends a name on the wire.  *)
Names == {name \in Texts : \A i \in DOMAIN name : name[i] # "}"}
PanelType ==
    [on : [Outlets -> BOOLEAN], names : [Outlets -> Names], delays : [Outlets -> Numbers],
     modes : [Outlets -> Numbers], ops : Seq(Numbers), cycled : [Outlets -> Numbers],
     reboots : BOOLEAN, timeouts : Seq(Numbers), hosts : SUBSET (Texts \X Texts \X Seq(Numbers)),
     schedule : SUBSET (Texts \X Seq(Numbers) \X Numbers \X OneOrNo(Weeks) \X OneOrNo(Dates) \X Clocks)]
MeterType ==
    [power : [current_amps : Readings, power_watts : Readings, voltage_volts : Readings,
              safe_voltage : BOOLEAN],
     outlets : [Outlets -> [outlet : Numbers, power_watts : Readings, current_amps : Readings,
                            voltage_volts : Readings]],
     ups : [battery_charge_pct : Numbers, battery_load_pct : Numbers,
            battery_health : {"Good", "Fair", "Bad", "Unknown"}, power_lost : BOOLEAN,
            battery_runtime_min : Numbers, alarm_enabled : BOOLEAN, alarm_muted : BOOLEAN],
     ups_connected : BOOLEAN]
ASSUME DeviceAssumption == Panels \subseteq PanelType /\ Meters \subseteq MeterType

ASSUME QueriesAssumption == \A q \in Queries :
    \/ q \in {<<name>> : name \in {"OutletStatus", "OutletName", "OutletPowerOnDelay", "AutoReboot",
                                  "OutletCount", "PowerStatus", "UPSStatus", "UPSConnection"}}
    \/ q \in {<<"OutletPowerStatus", o>> : o \in Outlets}

Num(n)   == <<ToString(n)>>
NumOf    == [s \in {ToString(n) : n \in Numbers} |-> CHOOSE n \in Numbers : ToString(n) = s]
Brace(t) == <<"{">> \o t \o <<"}">>

(* ",".join()                                                              *)
Joined(texts) == FlattenSeq([i \in DOMAIN texts |-> IF i = 1 THEN texts[i] ELSE <<",">> \o texts[i]])

Nums(ns) == Joined([i \in DOMAIN ns |-> Num(ns[i])])

Line(command, texts) == [command |-> command, value |-> Joined(texts)]
ValueError == Line("ValueError", <<>>)

Has(text, marks) == \E i \in DOMAIN text : text[i] \in marks
Positive(ns)     == ns # <<>> /\ \A i \in DOMAIN ns : ns[i] >= 1

-----------------------------------------------------------------------------
(* Encoders                                                                *)

(* Faulty: the limit is exclusive.                                         *)
EncodeOutletSetStrict(index, action, delay) ==
    IF /\ index >= 0
       /\ index = 0 => action = "RESET"
       /\ action \in {"ON", "OFF", "TOGGLE", "RESET"}
       /\ delay # <<>> => action = "RESET" /\ 1 <= Head(delay) /\ Head(delay) < 600
    THEN Line("!OutletSet", <<Num(index), <<action>>>> \o [i \in DOMAIN delay |-> Num(delay[i])])
    ELSE ValueError

(* delay is a sequence of at most one number.                              *)
EncodeOutletSet(index, action, delay) ==
    IF /\ index >= 0
       /\ index = 0 => action = "RESET"
       /\ action \in {"ON", "OFF", "TOGGLE", "RESET"}
       /\ delay # <<>> => action = "RESET" /\ 1 <= Head(delay) /\ Head(delay) <= 600
    THEN Line("!OutletSet", <<Num(index), <<action>>>> \o [i \in DOMAIN delay |-> Num(delay[i])])
    ELSE ValueError

EncodeAutoReboot(enabled) == Line("!AutoReboot", <<Num(IF enabled THEN 1 ELSE 0)>>)

EncodeOutletNameSet(index, name) ==
    IF index < 1 \/ name = <<>> \/ Has(name, {",", "{", "}", "NL"})
    THEN ValueError
    ELSE Line("!OutletNameSet", <<Num(index), name>>)

EncodeOutletNameSetAll(names) ==
    IF names = <<>> \/ \E i \in DOMAIN names : names[i] = <<>> \/ Has(names[i], {"{", "}", "NL"})
    THEN ValueError
    ELSE Line("!OutletNameSetAll", [i \in DOMAIN names |-> Brace(names[i])])

EncodeOutletPowerOnDelaySet(index, seconds) ==
    IF index < 1 \/ seconds < 1 \/ seconds > 600
    THEN ValueError
    ELSE Line("!OutletPowerOnDelaySet", <<Num(index), Num(seconds)>>)

EncodeOutletModeSet(index, mode) ==
    IF index < 1 \/ mode \notin {0, 1, 2}
    THEN ValueError
    ELSE Line("!OutletModeSet", <<Num(index), Num(mode)>>)

EncodeOutletRebootSet(ops) ==
    IF ops = <<>> \/ \E i \in DOMAIN ops : ops[i] \notin {0, 1}
    THEN ValueError
    ELSE Line("!OutletRebootSet", <<Nums(ops)>>)

EncodeAutoRebootTimeoutSet(timeout, count, ping, attempts) ==
    IF /\ 1 <= timeout /\ timeout <= 60
       /\ 1 <= count /\ count <= 10
       /\ 1 <= ping /\ ping <= 30
       /\ 0 <= attempts /\ attempts <= 10
    THEN Line("!AutoRebootTimeoutSet", <<Num(timeout), Num(count), Num(ping), Num(attempts)>>)
    ELSE ValueError

EncodeHostAdd(name, ip, outlets) ==
    IF \/ name = <<>> \/ ip = <<>>
       \/ Has(name, {",", "{", "}", "NL"}) \/ Has(ip, {",", "{", "}", "NL"})
       \/ ~Positive(outlets)
    THEN ValueError
    ELSE Line("!HostAdd", <<name, ip, Brace(Nums(outlets))>>)

(* The two regular expressions, on the numbers in the text.                *)
TimeMatches(t) == t.h \in 0 .. 23 /\ t.m \in 0 .. 59
DateMatches(d) == d.m \in 1 .. 12 /\ d.d \in 1 .. 31

TimeText(t) == Num(t.h) \o <<":">> \o Num(t.m)
DateText(d) == Num(d.y) \o <<"/">> \o Num(d.m) \o <<"/">> \o Num(d.d)
DaysText(days) == Nums([i \in DOMAIN days |-> IF days[i] THEN 1 ELSE 0])

(* days and date are sequences of at most one element.                     *)
EncodeScheduleAdd(name, outlets, action, days, date, time) ==
    IF \/ name = <<>> \/ Has(name, {",", "{", "}", "NL"})
       \/ ~Positive(outlets)
       \/ action \notin {0, 1, 2}
       \/ (days = <<>>) = (date = <<>>)
       \/ ~TimeMatches(time)
       \/ days = <<>> /\ ~DateMatches(Head(date))
    THEN ValueError
    ELSE Line("!ScheduleAdd",
              <<Brace(name), Brace(Nums(outlets)), Brace(Num(action)),
                Brace(Num(IF days = <<>> THEN 0 ELSE 1)),
                Brace(IF days = <<>> THEN DateText(Head(date)) ELSE DaysText(Head(days))),
                Brace(TimeText(time))>>)

-----------------------------------------------------------------------------
(* The choice of the line that answers a command.  A received line has a    *)
(* mark, "?", "~" or "" for none, a name, and "=value" or nothing.          *)

Reply(mark, name, value) == [mark |-> mark, name |-> name, eq |-> TRUE, value |-> value]
Plain(word) == [mark |-> "", name |-> word, eq |-> FALSE, value |-> <<>>]
Sentinels   == {"OK", "#Error"}
NoName      == ""

Good(value) == <<"good", value>>
Bad(error)  == <<"bad", error>>

ResponseCommandName(l) == IF l.mark = "" \/ l.name \in Sentinels THEN NoName ELSE l.name

(* Faulty: a reply to another query is not told from the one awaited.      *)
AnswersAnyName(name, allow_push, l) ==
    /\ l # Plain("")
    /\ ResponseCommandName(l) # NoName => l.mark = "?" \/ (l.mark = "~" /\ allow_push)

(* _read_response_for() returns l while it waits for the reply to name.    *)
AnswersTo(name, allow_push, l) ==
    /\ l # Plain("")
    /\ ResponseCommandName(l) # NoName =>
         \/ l.mark = "?" /\ ResponseCommandName(l) = name
         \/ l.mark = "~" /\ allow_push

ReadResponse(name, allow_push, lines) ==
    lines[Min({i \in DOMAIN lines : AnswersTo(name, allow_push, lines[i])})]

(* expect_value(): the value as a text, or an error.                       *)
ExpectValue(name, l) ==
    CASE l = Plain("#Error") -> Bad("Unsupported")
      [] l.mark \in {"?", "~"} /\ l.name = name /\ l.eq -> Good(l.value)
      [] OTHER -> Bad("ProtocolError")

(* What may come before a reply: blank lines, pushes, late replies to others. *)
ASSUME NoiseAssumption == \A noise \in Noise :
    /\ noise \in Seq([mark : {"", "?", "~"}, name : STRING, eq : BOOLEAN, value : Texts])
    /\ \A i \in DOMAIN noise :
          \/ noise[i] = Plain("")
          \/ /\ noise[i].mark \in {"?", "~"} /\ noise[i].name \notin Sentinels \cup {NoName}
             /\ noise[i].mark = "?" => \A q \in Queries : noise[i].name # q[1]

-----------------------------------------------------------------------------
(* Parsers.  Each returns a value or raises WattboxProtocolError.          *)

Cut(pieces, token) ==
    IF token = "," THEN Append(pieces, <<>>)
    ELSE [pieces EXCEPT ![Len(pieces)] = Append(@, token)]

Split(text) ==
    LET cut[i \in 0 .. Len(text)] == IF i = 0 THEN << <<>> >> ELSE Cut(cut[i - 1], text[i])
    IN cut[Len(text)]

Strip(text) ==
    LET ink == {i \in DOMAIN text : text[i] # " "}
    IN IF ink = {} THEN <<>> ELSE SubSeq(text, Min(ink), Max(ink))

Parts(text) == LET pieces == Split(text) IN [i \in DOMAIN pieces |-> Strip(pieces[i])]

IsOne(texts, ok) == \A i \in DOMAIN texts : Len(texts[i]) = 1 /\ texts[i][1] \in ok
IsInt(text)      == Len(text) = 1 /\ text[1] \in DOMAIN NumOf
IsFloat(text)    == Len(text) = 1 /\ text[1] \in DOMAIN NumOf \cup Decimals
Truths           == {"True", "1"}
Falses           == {"False", "0"}

ParseOutletStatus(text) ==
    IF text = <<>> THEN Good(<<>>)
    ELSE IF ~IsOne(Parts(text), {"0", "1"}) THEN Bad("ProtocolError")
    ELSE LET p == Parts(text) IN Good([i \in DOMAIN p |-> p[i] = <<"1">>])

(* Faulty: the names are what stands between the commas.                   *)
ParseOutletNamesSplit(text) ==
    Good([i \in DOMAIN Split(text) |->
            SelectSeq(Split(text)[i], LAMBDA token : token \notin {"{", "}"})])

(* The walk over the braces: what it has found so far and where it is.     *)
Walk(w, token) ==
    CASE w.at = "in" /\ token = "}"  -> [w EXCEPT !.at = "between"]
      [] w.at = "in" /\ token # "}"  -> [w EXCEPT !.names[Len(w.names)] = Append(@, token)]
      [] w.at = "between" /\ token \in {",", " "} -> w
      [] w.at = "between" /\ token = "{" -> [at |-> "in", names |-> Append(w.names, <<>>)]
      [] OTHER -> [w EXCEPT !.at = "lost"]

Walked(text) ==
    LET walk[i \in 0 .. Len(text)] ==
            IF i = 0 THEN [at |-> "between", names |-> <<>>] ELSE Walk(walk[i - 1], text[i])
    IN walk[Len(text)]

ParseOutletNames(text) ==
    IF Walked(text).at = "between" THEN Good(Walked(text).names) ELSE Bad("ProtocolError")

ParsePowerStatus(text) ==
    LET p == Parts(text)
    IN IF Len(p) # 4 \/ \E i \in 1 .. 3 : ~IsFloat(p[i]) THEN Bad("ProtocolError")
       ELSE Good([current_amps |-> p[1][1], power_watts |-> p[2][1],
                  voltage_volts |-> p[3][1], safe_voltage |-> p[4] = <<"1">>])

ParseOutletPowerStatus(text) ==
    LET p == Parts(text)
    IN IF Len(p) # 4 \/ ~IsInt(p[1]) \/ \E i \in 2 .. 4 : ~IsFloat(p[i]) THEN Bad("ProtocolError")
       ELSE Good([outlet |-> NumOf[p[1][1]], power_watts |-> p[2][1],
                  current_amps |-> p[3][1], voltage_volts |-> p[4][1]])

(* BatteryHealth.parse()                                                   *)
Health(text) == IF text \in {<<"Good">>, <<"Fair">>, <<"Bad">>} THEN text[1] ELSE "Unknown"

ParseUpsStatus(text) ==
    LET p == Parts(text)
    IN IF \/ Len(p) # 7
          \/ \E i \in {1, 2, 5} : ~IsInt(p[i])
          \/ ~IsOne(<<p[4], p[6], p[7]>>, Truths \cup Falses)
       THEN Bad("ProtocolError")
       ELSE Good([battery_charge_pct |-> NumOf[p[1][1]], battery_load_pct |-> NumOf[p[2][1]],
                  battery_health |-> Health(p[3]), power_lost |-> p[4][1] \in Truths,
                  battery_runtime_min |-> NumOf[p[5][1]],
                  alarm_enabled |-> p[6][1] \in Truths, alarm_muted |-> p[7][1] \in Truths])

(* parse_ups_connection() and parse_auto_reboot()                          *)
ParseFlag(text) ==
    IF Strip(text) \in {<<"0">>, <<"1">>} THEN Good(Strip(text) = <<"1">>) ELSE Bad("ProtocolError")

ParsePowerOnDelays(text) ==
    IF text = <<>> THEN Good(<<>>)
    ELSE IF ~IsOne(Parts(text), DOMAIN NumOf) THEN Bad("ProtocolError")
    ELSE LET p == Parts(text) IN Good([i \in DOMAIN p |-> NumOf[p[i][1]]])

ParseInt(text) == IF IsInt(Strip(text)) THEN Good(NumOf[Strip(text)[1]]) ELSE Bad("ProtocolError")

Parse(q, text) ==
    CASE q[1] = "OutletStatus"       -> ParseOutletStatus(text)
      [] q[1] = "OutletName"         -> ParseOutletNames(text)
      [] q[1] = "OutletPowerOnDelay" -> ParsePowerOnDelays(text)
      [] q[1] \in {"AutoReboot", "UPSConnection"} -> ParseFlag(text)
      [] q[1] = "OutletCount"        -> ParseInt(text)
      [] q[1] = "PowerStatus"        -> ParsePowerStatus(text)
      [] q[1] = "OutletPowerStatus"  -> ParseOutletPowerStatus(text)
      [] q[1] = "UPSStatus"          -> ParseUpsStatus(text)

-----------------------------------------------------------------------------
(* The device: what it makes of the value of a line, and what it replies.  *)

Flag(b) == IF b THEN "1" ELSE "0"
Word(b) == IF b THEN "True" ELSE "False"

(* The texts in braces, from each "{" to the next "}".                     *)
Gather(g, token) ==
    CASE token = "{" -> [open |-> TRUE, texts |-> Append(g.texts, <<>>)]
      [] token = "}" -> [g EXCEPT !.open = FALSE]
      [] token \notin {"{", "}"} ->
            IF g.open THEN [g EXCEPT !.texts[Len(g.texts)] = Append(@, token)] ELSE g

Gathered(text) ==
    LET gather[i \in 0 .. Len(text)] ==
            IF i = 0 THEN [open |-> FALSE, texts |-> <<>>] ELSE Gather(gather[i - 1], text[i])
    IN gather[Len(text)]

Groups(text) == Gathered(text).texts

Ints(text) == LET p == Split(text) IN [i \in DOMAIN p |-> NumOf[p[i][1]]]

(* The text after the first comma.                                         *)
Rest(text) == SubSeq(text, Min({i \in DOMAIN text : text[i] = ","}) + 1, Len(text))

(* The single setter of names drops what follows the first space.          *)
FirstWord(text) ==
    SubSeq(text, 1, Min({i \in DOMAIN text : text[i] = " "} \cup {Len(text) + 1}) - 1)

TimeOf(text) == [h |-> NumOf[text[1]], m |-> NumOf[text[3]]]
DateOf(text) == [y |-> NumOf[text[1]], m |-> NumOf[text[3]], d |-> NumOf[text[5]]]
DaysOf(text) == [i \in DOMAIN Split(text) |-> Split(text)[i] = <<"1">>]

Schedule(g) ==
    <<g[1], Ints(g[2]), Ints(g[3])[1],
      IF g[4] = <<"1">> THEN <<DaysOf(g[5])>> ELSE <<>>,
      IF g[4] = <<"1">> THEN <<>> ELSE <<DateOf(g[5])>>,
      TimeOf(g[6])>>

RunOutletSet(p) ==
    LET i == NumOf[p[1][1]]
        verb == p[2][1]
    IN IF verb = "RESET"
       THEN [panel EXCEPT !.cycled = [o \in Outlets |->
                IF i \notin {0, o} THEN @[o]
                ELSE IF Len(p) = 3 THEN NumOf[p[3][1]] ELSE panel.delays[o]]]
       ELSE [panel EXCEPT !.on = [o \in Outlets |->
                IF i \notin {0, o} THEN @[o]
                ELSE IF verb = "TOGGLE" THEN ~@[o] ELSE verb = "ON"]]

DeviceRuns(line) ==
    LET v == line.value
        p == Split(v)
        i == NumOf[p[1][1]]
        Set(f, value) == [o \in Outlets |-> IF o = i THEN value ELSE f[o]]
    IN CASE line.command = "!OutletSet"     -> RunOutletSet(p)
         [] line.command = "!AutoReboot"    -> [panel EXCEPT !.reboots = (v = <<"1">>)]
         [] line.command = "!OutletNameSet" -> [panel EXCEPT !.names = Set(@, FirstWord(Rest(v)))]
         [] line.command = "!OutletNameSetAll"      -> [panel EXCEPT !.names = Groups(v)]
         [] line.command = "!OutletPowerOnDelaySet" -> [panel EXCEPT !.delays = Set(@, Ints(v)[2])]
         [] line.command = "!OutletModeSet"         -> [panel EXCEPT !.modes = Set(@, Ints(v)[2])]
         [] line.command = "!OutletRebootSet"       -> [panel EXCEPT !.ops = Ints(v)]
         [] line.command = "!AutoRebootTimeoutSet"  -> [panel EXCEPT !.timeouts = Ints(v)]
         [] line.command = "!HostAdd" ->
                [panel EXCEPT !.hosts = @ \cup {<<p[1], p[2], Ints(Groups(v)[1])>>}]
         [] line.command = "!ScheduleAdd" ->
                [panel EXCEPT !.schedule = @ \cup {Schedule(Groups(v))}]

Ups(u) == <<Num(u.battery_charge_pct), Num(u.battery_load_pct), <<u.battery_health>>,
            <<Word(u.power_lost)>>, Num(u.battery_runtime_min),
            <<Word(u.alarm_enabled)>>, <<Word(u.alarm_muted)>>>>

Shown(q) ==
    CASE q[1] = "OutletStatus"       -> Joined([o \in Outlets |-> <<Flag(panel.on[o])>>])
      [] q[1] = "OutletName"         -> Joined([o \in Outlets |-> Brace(panel.names[o])])
      [] q[1] = "OutletPowerOnDelay" -> Nums([o \in Outlets |-> panel.delays[o]])
      [] q[1] = "AutoReboot"         -> <<Flag(panel.reboots)>>
      [] q[1] = "OutletCount"        -> Num(N)
      [] q[1] = "PowerStatus"        ->
            LET m == meter.power IN Joined(<<<<m.current_amps>>, <<m.power_watts>>,
                                             <<m.voltage_volts>>, <<Flag(m.safe_voltage)>>>>)
      [] q[1] = "OutletPowerStatus"  ->
            LET m == meter.outlets[q[2]] IN Joined(<<Num(m.outlet), <<m.power_watts>>,
                                                     <<m.current_amps>>, <<m.voltage_volts>>>>)
      [] q[1] = "UPSStatus"          -> Joined(Ups(meter.ups))
      [] q[1] = "UPSConnection"      -> <<Flag(meter.ups_connected)>>

DeviceReply(q) ==
    IF q[1] \in Optional \ supported THEN Plain("#Error") ELSE Reply("?", q[1], Shown(q))

-----------------------------------------------------------------------------
(* The setters and readers of the client                                   *)

(* set_outlet_name(): a name with a space goes with all the others.        *)
EncodeRename(index, name) ==
    LET current == ParseOutletNames(Shown(<<"OutletName">>))[2]
    IN IF ~Has(name, {" "}) THEN EncodeOutletNameSet(index, name)
       ELSE IF index \notin DOMAIN current THEN ValueError
       ELSE EncodeOutletNameSetAll([current EXCEPT ![index] = name])

Encoded(c) ==
    CASE c.op = "set_outlet"   -> EncodeOutletSet(c.index, c.action, <<>>)
      [] c.op = "reset_outlet" -> EncodeOutletSet(c.index, "RESET", c.delay)
      [] c.op = "set_delay"    -> EncodeOutletPowerOnDelaySet(c.index, c.seconds)
      [] c.op = "set_mode"     -> EncodeOutletModeSet(c.index, c.mode)
      [] c.op = "set_ops"      -> EncodeOutletRebootSet(c.ops)
      [] c.op = "set_reboots"  -> EncodeAutoReboot(c.enabled)
      [] c.op = "set_timeout"  -> EncodeAutoRebootTimeoutSet(c.timeout, c.count, c.ping, c.attempts)
      [] c.op = "rename"       -> EncodeRename(c.index, c.name)
      [] c.op = "rename_all"   -> EncodeOutletNameSetAll(c.names)
      [] c.op = "add_host"     -> EncodeHostAdd(c.name, c.ip, c.outlets)
      [] c.op = "add_schedule" ->
            EncodeScheduleAdd(c.name, c.outlets, c.action, c.days, c.date, c.time)

(* An accepted line is run; the device acks it with OK or with a push.     *)
SendSet(c) ==
    /\ calls < MaxCalls
    /\ IF Encoded(c) = ValueError
       THEN answer' = Refused(c) /\ UNCHANGED panel
       ELSE answer' = Done(c) /\ panel' = DeviceRuns(Encoded(c))
    /\ calls' = calls + 1
    /\ formed' = TRUE
    /\ UNCHANGED <<meter, supported>>

(* What a query returns or raises when its reply follows some noise.       *)
Received(q, noise, reply) ==
    LET got    == ExpectValue(q[1], ReadResponse(q[1], FALSE, noise \o <<reply>>))
        result == IF got[1] = "bad" THEN got ELSE Parse(q, got[2])
    IN IF result[1] = "bad" THEN Raised(q, result[2]) ELSE Read(q, result[2])

SendQuery(q) ==
    /\ \E noise \in Noise : answer' = Received(q, noise, DeviceReply(q))
    /\ formed' = TRUE
    /\ UNCHANGED <<panel, meter, supported, calls>>

(* A firmware that replies out of format.                                  *)
SendQueryGarbled(q) ==
    /\ \E reply \in Junk[q[1]] : answer' = Received(q, <<>>, reply)
    /\ formed' = FALSE
    /\ UNCHANGED <<panel, meter, supported, calls>>

Next == \/ \E c \in Calls : SendSet(c)
        \/ \E q \in Queries : SendQuery(q) \/ SendQueryGarbled(q)

Spec == PInit /\ [][Next]_pvars

-----------------------------------------------------------------------------
(* Properties                                                              *)

(* The protocol hides itself: whatever the texts and numbers, a call        *)
(* through encoder, line and device does what the caller asked for and     *)
(* nothing else, or is refused before anything is sent; a query through    *)
(* reply and parser returns what the device has; and a reply out of format  *)
(* is an error, never a value.                                             *)
ActsAsPanel == PSpec

=============================================================================
