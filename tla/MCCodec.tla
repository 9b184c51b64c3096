------------------------------ MODULE MCCodec ------------------------------
(***************************************************************************)
(* Two outlets, and arguments at and beyond both ends of every range.       *)
(* Names are the texts of up to three tokens that put each mark in every   *)
(* place.  The device may have been set up in different ways before, names  *)
(* with commas and spaces included.                                        *)
(***************************************************************************)
EXTENDS Codec

MCNumbers  == (-1 .. 61) \cup {600, 601, 2024}
MCDecimals == {"1.01", "0.02", "116.50"}

Letters == {"A", " ", ",", "{", "}", "NL"}
MCTokens == Letters \cup {"B", ":", "/"} \cup Words \cup Numerals \cup Decimals
Short  == UNION {[1 .. k -> Letters] : k \in 0 .. 1}
Tried  == Short \cup {<<"A", t, "B">> : t \in Letters} \cup {<<" ", "A">>}
AB     == <<"A", " ", "B">>

(* Every argument of a call at both ends of its range, one at a time.       *)
Around(call, field, values) == {[call EXCEPT ![field] = v] : v \in values}

Timeout == [op |-> "set_timeout", timeout |-> 60, count |-> 1, ping |-> 30, attempts |-> 0]
Host    == [op |-> "add_host", name |-> <<"A">>, ip |-> <<"B">>, outlets |-> <<2, 1>>]
Week    == <<TRUE, FALSE, FALSE, FALSE, FALSE, FALSE, TRUE>>
Date(mm, dd) == [y |-> 2024, m |-> mm, d |-> dd]
Weekly  == [op |-> "add_schedule", name |-> <<"A">>, outlets |-> <<2>>, action |-> 2,
            days |-> <<Week>>, date |-> <<>>, time |-> [h |-> 0, m |-> 59]]
Once    == [Weekly EXCEPT !.days = <<>>, !.date = <<Date(12, 31)>>]

Calls1 ==
    [op : {"set_outlet"}, index : {-1, 0, 2, 3}, action : {"ON", "OFF", "TOGGLE"}]
    \cup [op : {"reset_outlet"}, index : {-1, 0, 2, 3}, delay : {<<>>, <<0>>, <<1>>, <<600>>, <<601>>}]
    \cup [op : {"set_delay"}, index : {0, 1, 3}, seconds : {0, 1, 600, 601}]
    \cup [op : {"set_mode"}, index : {0, 2}, mode : {-1, 0, 2, 3}]
    \cup [op : {"set_ops"}, ops : {<<>>, <<0, 1>>, <<2, 0>>, <<1, -1>>}]
    \cup [op : {"set_reboots"}, enabled : BOOLEAN]
    \cup Around(Timeout, "timeout", {0, 1, 61}) \cup Around(Timeout, "count", {0, 10, 11})
    \cup Around(Timeout, "ping", {0, 1, 31}) \cup Around(Timeout, "attempts", {-1, 10, 11})
Calls2 ==
    [op : {"rename"}, index : {2}, name : Tried]
    \cup [op : {"rename"}, index : {0, 1, 3}, name : {<<"A">>, AB}]
    \cup [op : {"rename_all"}, names : {<<>>} \cup {<<n, AB>> : n \in Short \cup {<<"A", ",", "B">>, <<"}", ",", "{">>}}]
    \cup Around(Host, "name", Short) \cup Around(Host, "ip", {<<>>, <<",">>, <<"{">>, <<"NL">>})
    \cup Around(Host, "outlets", {<<>>, <<1>>, <<0>>, <<1, 0>>})
    \cup Around(Weekly, "name", {<<>>, <<"}">>, <<"NL">>, <<",">>}) \cup Around(Weekly, "outlets", {<<>>, <<1, 2>>, <<1, 0>>})
    \cup Around(Weekly, "action", {-1, 0, 3}) \cup Around(Weekly, "days", {<<>>})
    \cup Around(Weekly, "time", [h : {23, 24}, m : {0, 60}])
    \cup Around(Once, "date", {<<>>, <<Date(1, 1)>>, <<Date(0, 1)>>, <<Date(13, 1)>>, <<Date(1, 32)>>})
    \cup Around(Once, "days", {<<Week>>})
MCCalls == Calls1 \cup Calls2

MCQueries == {<<"OutletStatus">>, <<"OutletName">>, <<"OutletPowerOnDelay">>, <<"AutoReboot">>,
              <<"OutletCount">>, <<"PowerStatus">>, <<"OutletPowerStatus", 1>>,
              <<"OutletPowerStatus", 2>>, <<"UPSStatus">>, <<"UPSConnection">>}
MCOptional == {"UPSStatus"}

Outlet(o, w) == [outlet |-> o, power_watts |-> w, current_amps |-> "0.02", voltage_volts |-> "116.50"]
Factory ==
    [on |-> <<TRUE, TRUE>>, names |-> <<<<"A">>, <<"B">>>>, delays |-> <<1, 1>>, modes |-> <<0, 0>>,
     ops |-> <<0, 0>>, cycled |-> <<0, 0>>, reboots |-> FALSE, timeouts |-> <<1, 1, 1, 0>>,
     hosts |-> {}, schedule |-> {}]
MCPanels ==
    {Factory,
     [Factory EXCEPT !.on = <<FALSE, TRUE>>, !.names = <<<<"A", ",", " ", "B">>, <<"B">>>>, !.delays = <<600, 30>>],
     [Factory EXCEPT !.on = <<TRUE, FALSE>>, !.names = <<<<>>, <<" ", "A", " ">>>>, !.reboots = TRUE],
     [Factory EXCEPT !.names = <<<<"A", "{">>, <<"B">>>>, !.timeouts = <<60, 10, 30, 10>>]}

MCMeters ==
    {[power |-> [current_amps |-> "0.02", power_watts |-> "1.01", voltage_volts |-> "116.50",
                 safe_voltage |-> TRUE],
      outlets |-> <<Outlet(1, "1.01"), Outlet(2, "0.02")>>,
      ups |-> [battery_charge_pct |-> 60, battery_load_pct |-> 8, battery_health |-> "Good",
               power_lost |-> TRUE, battery_runtime_min |-> 30, alarm_enabled |-> TRUE,
               alarm_muted |-> FALSE],
      ups_connected |-> FALSE]}

(* A blank line, a push of the same name, a late reply to another query.    *)
MCNoise == {<<>>, <<Plain("")>>, <<Reply("~", "OutletStatus", <<"0", ",", "0">>)>>,
            <<Reply("?", "UPSVoltageRange", <<"1">>), Plain("")>>,
            <<Reply("?", "Mute", <<"1">>), Reply("~", "AutoReboot", <<"1">>)>>}

Values(name, texts) == {Reply("?", name, t) : t \in texts}
Strange(name) == {Plain("Goodbye"), Plain("OK"), Reply("", name, <<"1">>),
                  [Reply("?", name, <<>>) EXCEPT !.eq = FALSE], Reply("?", "", <<"1">>)}
MCJunk == [name \in {q[1] : q \in MCQueries} |-> Strange(name) \cup Values(name,
    CASE name = "OutletStatus"       -> {<<"2">>, <<"1", ",">>, <<"1", "0">>, <<",", "1">>, <<"A">>}
      [] name = "OutletName"         -> {<<"A">>, <<"{", "A">>, <<"{", "A", "}", "B">>, <<"}">>}
      [] name = "OutletPowerOnDelay" -> {<<"1", ",">>, <<"1.01">>, <<"1", ",", "A">>}
      [] name \in {"AutoReboot", "UPSConnection"} -> {<<>>, <<"2">>, <<"1", ",", "1">>, <<"True">>}
      [] name = "OutletCount"        -> {<<>>, <<"A">>, <<"1.01">>, <<"1", ",", "2">>}
      [] name = "PowerStatus"        -> {<<>>, <<"1", ",", "2", ",", "3">>, <<"1", ",", "2", ",", "A", ",", "1">>}
      [] name = "OutletPowerStatus"  -> {<<>>, <<"1.01", ",", "2", ",", "3", ",", "4">>, <<"1", ",", "2", ",", "3">>}
      [] name = "UPSStatus"          ->
            {<<>>, <<"1", ",", "2", ",", "Good", ",", "True", ",", "3", ",", "Maybe", ",", "False">>,
             <<"1", ",", "2", ",", "Good", ",", "True", ",", "3", ",", "True">>})]

=============================================================================
