------------------------------- MODULE Entry -------------------------------
(***************************************************************************)
(* The Home Assistant side of the integration: set-up, unload and reload of  *)
(* the entries (__init__.py, coordinator.py), the services they share       *)
(* (services.py), and the flows that add an entry, renew its password or    *)
(* change its options while all that goes on (config_flow.py).              *)
(*                                                                         *)
(* Of Home Assistant itself is modelled what the integration rests on: one   *)
(* set-up or unload of an entry at a time; reloads wait for their turn; a    *)
(* set-up that ends in ConfigEntryNotReady is retried and one that ends in   *)
(* any other exception is not; a coordinator whose set-up fails is shut     *)
(* down; update listeners run while the entry is loaded.                    *)
(*                                                                         *)
(* Of the client is modelled what module Client shows of it: a connection    *)
(* that is lost is not noticed, so that commands fail and no login follows;  *)
(* once close() was called a call that still runs logs in again, and its     *)
(* commands are refused as not connected.                                  *)
(***************************************************************************)
EXTENDS Integers, FiniteSets

CONSTANTS
    Entries,        \* entry ids
    Devices,        \* WattBoxes, by their service tag
    Hosts,          \* addresses
    Flows,          \* flows in progress
    MaxActs,        \* bound: acts of the user, calls, and changes in the network
    None

ASSUME EntryAssumption ==
    IsFiniteSet(Entries) /\ MaxActs \in Nat /\ None \notin Devices \cup Entries

VARIABLES
    at,         \* the device at an address
    secret,     \* the password a device accepts
    data,       \* per entry: unique_id, data and options
    st,         \* per entry: its state, and how far set-up or unload has come
    after,      \* per entry: what follows its unload
    pending,    \* per entry: reloads that wait for their turn
    reauth,     \* entries Home Assistant asks a password for
    services,   \* the four services are registered
    run,        \* per entry: the client made last, and its coordinator
    runtime,    \* per entry: the device of the coordinator in its runtime_data
    busy,       \* entries whose client has a call in flight
    devreg,     \* the device registry: entries of a device
    flow,       \* per flow: what was typed, and the device that answered
    acts,       \* how many acts there were
    hot,        \* history: entries refused, and not reloaded by a user since
    missed,     \* history: entries whose data or options changed during set-up
    cause,      \* history: per entry: why its client may hold a connection for ever
    left,       \* history: entries whose client was let go of while connected, and why
    proved      \* history: devices with the addresses and passwords of their probes

net   == <<at, secret>>
care  == <<cause, left>>
hist  == <<hot, missed, care, proved>>
vars  == <<net, data, st, after, pending, reauth, services, run, runtime, busy,
           devreg, flow, acts, hist>>

Passwords == 0 .. 1
Intervals == 0 .. 1

SettingUp == {"connecting", "identifying", "refreshing", "forwarding"}
Unloading == {"unloading", "closing"}
Resting   == {"idle", "error", "retry"}     \* NOT_LOADED, SETUP_ERROR, SETUP_RETRY
Live      == {"forwarding", "loaded", "failed"} \cup Unloading
States    == SettingUp \cup Resting \cup Live \cup {"absent"}
Causes    == {"none", "aborted", "refused", "busy"}

NoData == [tag |-> None, host |-> None, creds |-> 0, interval |-> 0]
NoRun  == [host |-> None, creds |-> 0, interval |-> 0, dev |-> None, link |-> None, closed |-> FALSE]
NoFlow == [kind |-> "none", entry |-> None, host |-> None, creds |-> 0, tag |-> None]

Existing == {e \in Entries : st[e] # "absent"}

(* Types; the coordinator of an entry is the one in its runtime_data from the  *)
(* moment its platforms are set up to the end of its unload.               *)
EntryTypeOK ==
    /\ at \in [Hosts -> Devices \cup {None}] /\ secret \in [Devices -> Passwords]
    /\ st \in [Entries -> States] /\ pending \in [Entries -> Nat]
    /\ \A e \in Entries : /\ st[e] \in Live => run[e].dev # None /\ runtime[e] = run[e].dev
                          /\ st[e] \in {"idle", "retry", "absent"} => run[e] = NoRun
                          /\ st[e] = "absent" <=> data[e] = NoData

(* Entries as they are when Home Assistant starts, each set up before.      *)
Init ==
    /\ at \in [Hosts -> Devices] /\ \A h, k \in Hosts : at[h] = at[k] => h = k
    /\ secret = [d \in Devices |-> 0]
    /\ \E host \in [Entries -> Hosts \cup {None}] :
         /\ \A e, f \in Entries : host[e] = host[f] /\ host[e] # None => e = f
         /\ data = [e \in Entries |-> IF host[e] = None THEN NoData
                    ELSE [tag |-> at[host[e]], host |-> host[e], creds |-> 0, interval |-> 0]]
         /\ st = [e \in Entries |-> IF host[e] = None THEN "absent" ELSE "retry"]
         /\ proved = {<<at[host[e]], host[e], 0>> : e \in {f \in Entries : host[f] # None}}
         /\ devreg = [d \in Devices |-> {e \in Entries : host[e] # None /\ at[host[e]] = d}]
    /\ after = [e \in Entries |-> "idle"] /\ pending = [e \in Entries |-> 0]
    /\ reauth = {} /\ services = FALSE
    /\ run = [e \in Entries |-> NoRun] /\ runtime = [e \in Entries |-> None] /\ busy = {}
    /\ flow = [f \in Flows |-> NoFlow] /\ acts = 0
    /\ hot = {} /\ missed = {}
    /\ cause = [e \in Entries |-> "none"] /\ left = {}

Act == acts < MaxActs /\ acts' = acts + 1

Goes(e, state) == st' = [st EXCEPT ![e] = state]

(* The device at h lets p in, or answers that it does not.                  *)
Accepts(h, p) == at[h] # None /\ secret[at[h]] = p
Refuses(h, p) == at[h] # None /\ secret[at[h]] # p

-----------------------------------------------------------------------------
(* What becomes of a client                                                *)

(* Nothing refers to the client of e any more.  A call that is in flight may  *)
(* still log in.                                                           *)
LetGo(e) ==
    /\ \E opens \in BOOLEAN :
         /\ opens => e \in busy
         /\ left' = left \cup (IF opens \/ run[e].link # None THEN {<<e, cause[e]>>} ELSE {})
    /\ cause' = [cause EXCEPT ![e] = "none"]
    /\ busy' = busy \ {e}

(* close()                                                                 *)
Closes(e) == run' = [run EXCEPT ![e].link = None, ![e].closed = TRUE]

(* Commands go through.                                                    *)
Usable(e) == run[e].link # None /\ ~run[e].closed

-----------------------------------------------------------------------------
(* async_setup_entry()                                                     *)

(* The client is made from the data of the entry, with a budget of its own.  *)
Begins(e) ==
    /\ Goes(e, "connecting")
    /\ run' = [run EXCEPT ![e] = [NoRun EXCEPT !.host = data'[e].host, !.creds = data'[e].creds]]
    /\ LetGo(e)
    /\ missed' = missed \ {e}

(* At the start of Home Assistant, and after ConfigEntryNotReady.           *)
Retry(e) ==
    /\ st[e] = "retry" /\ UNCHANGED data
    /\ Begins(e)
    /\ UNCHANGED <<net, after, pending, reauth, services, runtime, devreg, flow, acts, hot, proved>>

Unset == <<net, data, after, pending, services, busy, flow, missed, left, proved>>

(* client.connect()                                                        *)
SetupConnects(e) ==
    /\ st[e] = "connecting" /\ Accepts(run[e].host, run[e].creds)
    /\ Goes(e, "identifying")
    /\ run' = [run EXCEPT ![e].link = at[run[e].host]]
    /\ UNCHANGED <<Unset, reauth, runtime, devreg, acts, hot, cause>>

(* client.identify(); the options are read next.                            *)
SetupIdentifies(e) ==
    /\ st[e] = "identifying" /\ run[e].link # None
    /\ Goes(e, "refreshing")
    /\ run' = [run EXCEPT ![e].dev = run[e].link, ![e].interval = data[e].interval]
    /\ UNCHANGED <<Unset, reauth, runtime, devreg, acts, hot, cause>>

(* The set-up of e ends; its client is closed.                             *)
SetupEnds(e, state) ==
    /\ Goes(e, state)
    /\ run' = [run EXCEPT ![e] = NoRun]
    /\ UNCHANGED <<Unset, runtime, devreg, acts, cause>>

(* Faulty: a refused password is one more reason to try again.             *)
SetupRefusedRetries(e) ==
    /\ st[e] = "connecting" /\ Refuses(run[e].host, run[e].creds)
    /\ SetupEnds(e, "retry") /\ hot' = hot \cup {e} /\ UNCHANGED reauth

(* ConfigEntryAuthFailed                                                   *)
SetupRefused(e) ==
    /\ st[e] = "connecting" /\ Refuses(run[e].host, run[e].creds)
    /\ SetupEnds(e, "error") /\ hot' = hot \cup {e} /\ reauth' = reauth \cup {e}

(* Faulty: the client of a set-up that fails is left as it is.             *)
SetupFailsUnclosed(e) ==
    /\ st[e] \in {"connecting", "identifying"}
    /\ Goes(e, "error")
    /\ UNCHANGED <<Unset, run, runtime, devreg, acts, cause, reauth, hot>>

(* Unreachable, locked, lost or not understood: not ConfigEntryNotReady, so   *)
(* that Home Assistant gives up.                                           *)
SetupFails(e) ==
    /\ st[e] \in {"connecting", "identifying"}
    /\ SetupEnds(e, "error") /\ UNCHANGED <<reauth, hot>>

(* Faulty: runtime_data is assigned when the platforms are set up.          *)
RefreshedUnstored(e) ==
    /\ st[e] = "refreshing" /\ run[e].link # None
    /\ Goes(e, "forwarding")
    /\ UNCHANGED <<Unset, reauth, run, runtime, devreg, acts, hot, cause>>

(* async_config_entry_first_refresh(), and runtime_data is assigned.        *)
Refreshed(e) ==
    /\ st[e] = "refreshing" /\ run[e].link # None
    /\ Goes(e, "forwarding")
    /\ runtime' = [runtime EXCEPT ![e] = run[e].dev]
    /\ UNCHANGED <<Unset, reauth, run, devreg, acts, hot, cause>>

(* ConfigEntryNotReady: Home Assistant shuts the coordinator down.          *)
RefreshFails(e) ==
    /\ st[e] = "refreshing"
    /\ SetupEnds(e, "retry") /\ UNCHANGED <<reauth, hot>>

(* The device_info of the entities, by the tag that was read.                *)
Registered(e) == [devreg EXCEPT ![run[e].dev] = @ \cup {e}]

(* The platforms are set up; the listener is added, the services registered. *)
Forwarded(e) ==
    /\ st[e] = "forwarding"
    /\ Goes(e, "loaded")
    /\ devreg' = Registered(e)
    /\ services' = TRUE
    /\ UNCHANGED <<net, data, after, pending, reauth, run, runtime, busy, flow, acts, hist>>

(* The set-up is cancelled, or the platforms fail: no handler closes the      *)
(* client, whose login may be under way.                                   *)
SetupAborts(e) ==
    /\ st[e] \in SettingUp /\ Act
    /\ Goes(e, "error")
    /\ \E link \in {run[e].link} \cup (IF st[e] = "connecting" THEN {at[run[e].host]} ELSE {}) :
         run' = [run EXCEPT ![e].link = link]
    /\ devreg' \in {devreg} \cup (IF st[e] = "forwarding" THEN {Registered(e)} ELSE {})
    /\ cause' = [cause EXCEPT ![e] = "aborted"]
    /\ UNCHANGED <<Unset, reauth, runtime, hot>>

Setup(e) ==
    \/ SetupConnects(e) \/ SetupIdentifies(e) \/ SetupRefused(e) \/ SetupFails(e)
    \/ Refreshed(e) \/ RefreshFails(e) \/ Forwarded(e) \/ SetupAborts(e)

-----------------------------------------------------------------------------
(* async_unload_entry(), removal and reload                                *)

Unloads(e, then) ==
    /\ Goes(e, "unloading")
    /\ after' = [after EXCEPT ![e] = then]
    /\ UNCHANGED <<run, busy, missed, care>>

(* A reload the user has asked for gets its turn.                          *)
StartReload(e) ==
    /\ pending[e] > 0 /\ UNCHANGED data
    /\ pending' = [pending EXCEPT ![e] = @ - 1]
    /\ \/ st[e] = "loaded" /\ Unloads(e, "setup")
       \/ st[e] \in Resting /\ Begins(e) /\ UNCHANGED after
    /\ hot' = hot \ {e}
    /\ UNCHANGED <<net, reauth, services, runtime, devreg, flow, acts, proved>>

(* The user disables or removes an entry.                                  *)
StartUnload(e, then) ==
    /\ st[e] = "loaded" /\ Act
    /\ Unloads(e, then)
    /\ UNCHANGED <<net, data, pending, reauth, services, runtime, devreg, flow, hot, proved>>

Gone(e) ==
    /\ Goes(e, "absent")
    /\ data' = [data EXCEPT ![e] = NoData]
    /\ pending' = [pending EXCEPT ![e] = 0]
    /\ reauth' = reauth \ {e}
    /\ devreg' = [d \in Devices |-> devreg[d] \ {e}]
    /\ run' = [run EXCEPT ![e] = NoRun]
    /\ runtime' = [runtime EXCEPT ![e] = None]
    /\ hot' = hot \ {e} /\ missed' = missed \ {e}
    /\ LetGo(e)

(* async_unload_platforms() says no, and async_shutdown() is not called.     *)
UnloadRefused(e) ==
    /\ st[e] = "unloading"
    /\ Goes(e, "failed")
    /\ cause' = [cause EXCEPT ![e] = "refused"]
    /\ UNCHANGED <<net, data, after, pending, reauth, services, run, runtime, busy, devreg, flow,
                   acts, hot, missed, left, proved>>

(* async_shutdown() closes the client, whatever call is in flight.          *)
ClosePlatforms(e) ==
    /\ st[e] = "unloading"
    /\ Goes(e, "closing")
    /\ Closes(e)
    /\ cause' = [cause EXCEPT ![e] = IF e \in busy THEN "busy" ELSE @]
    /\ UNCHANGED <<net, data, after, pending, reauth, services, runtime, busy, devreg, flow,
                   acts, hot, missed, left, proved>>

(* Faulty: the services go with any entry.                                 *)
UnregisterAlways(e) == services' = FALSE

(* async_unregister_services()                                             *)
Unregister(e) == services' = (services /\ Existing \ {e} # {})

(* The unload is over; Home Assistant deletes runtime_data.                 *)
Unloaded(e) ==
    /\ st[e] = "closing"
    /\ Unregister(e)
    /\ runtime' = [runtime EXCEPT ![e] = None]
    /\ CASE after[e] = "setup"  -> UNCHANGED <<data, pending, reauth, devreg, hot>> /\ Begins(e)
         [] after[e] = "absent" -> Gone(e)
         [] after[e] = "idle"   -> /\ Goes(e, "idle") /\ run' = [run EXCEPT ![e] = NoRun]
                                   /\ LetGo(e)
                                   /\ UNCHANGED <<data, pending, reauth, devreg, hot, missed>>
    /\ UNCHANGED <<net, after, flow, acts, proved>>

(* The user removes an entry; the removal of a loaded one goes on when its     *)
(* platforms refuse to go.                                                 *)
Remove(e) ==
    /\ \/ st[e] \in Resting \cup {"failed"} /\ Act
       \/ st[e] = "failed" /\ after[e] = "absent" /\ UNCHANGED acts
    /\ Gone(e)
    /\ UNCHANGED <<net, after, services, flow, proved>>

(* The user enables or reloads an entry.                                   *)
AskReload(e) ==
    /\ e \in Existing /\ Act
    /\ pending' = [pending EXCEPT ![e] = @ + 1]
    /\ UNCHANGED <<net, data, st, after, reauth, services, run, runtime, busy, devreg, flow, hist>>

-----------------------------------------------------------------------------
(* Calls: a poll, an entity's command, or a service                         *)

(* A call that begins while the client is being closed is in flight too.    *)
Call(e) ==
    /\ st[e] \in Live /\ e \notin busy /\ Act
    /\ busy' = busy \cup {e}
    /\ cause' = [cause EXCEPT ![e] = IF st[e] = "closing" THEN "busy" ELSE @]
    /\ UNCHANGED <<net, data, st, after, pending, reauth, services, run, runtime, devreg, flow,
                   hot, missed, left, proved>>

(* What _reconnect() leaves of a client that has been closed.               *)
Links(e) ==
    {None} \cup (IF Accepts(run[e].host, run[e].creds) THEN {at[run[e].host]} ELSE {})

(* Faulty: connect() makes the transport usable again.                     *)
ReconnectsUsable(e) ==
    /\ run[e].closed
    /\ \E link \in Links(e) : run' = [run EXCEPT ![e].link = link, ![e].closed = FALSE]

(* client._reconnect(): close(), then connect(), which leaves _closed set.   *)
Reconnects(e) ==
    /\ run[e].closed
    /\ \E link \in Links(e) : run' = [run EXCEPT ![e].link = link]

(* The call returns or raises.                                             *)
CallEnds(e) ==
    /\ e \in busy
    /\ busy' = busy \ {e}
    /\ UNCHANGED run \/ Reconnects(e)
    /\ UNCHANGED <<net, data, st, after, pending, reauth, services, runtime, devreg, flow, acts, hist>>

(* _coordinator_for_device(): the coordinators it may find; and whether it may *)
(* raise, because there are none, or because it looks at the runtime_data of  *)
(* an entry that has none before it finds one (services.py:115).            *)
CoordinatorsFor(d) == {e \in devreg[d] : runtime[e] = d}
MayFail(d) == CoordinatorsFor(d) = {} \/ \E e \in devreg[d] : runtime[e] = None

-----------------------------------------------------------------------------
(* Changes of an entry                                                     *)

(* Faulty: the listener is not added.                                      *)
HeardByNobody(e) == 0

(* The listener _async_options_updated() is there from the end of the set-up  *)
(* to that of the unload.                                                  *)
Heard(e) == IF st[e] \in {"loaded"} \cup Unloading THEN 1 ELSE 0

(* The entry is updated; more reloads are asked for beside the listener's.  *)
Updates(e, new, more) ==
    /\ data' = [data EXCEPT ![e] = new]
    /\ pending' = [pending EXCEPT ![e] = @ + more + (IF new = data[e] THEN 0 ELSE Heard(e))]
    /\ missed' = IF st[e] \in SettingUp /\ new # data[e] THEN missed \cup {e} ELSE missed
    /\ UNCHANGED <<net, st, after, services, run, runtime, busy, devreg, hot, care, proved>>

(* WattboxOptionsFlow                                                      *)
SetOptions(e, i) ==
    /\ e \in Existing /\ Act
    /\ Updates(e, [data[e] EXCEPT !.interval = i], 0)
    /\ UNCHANGED <<reauth, flow>>

Unflowed == <<net, data, st, after, pending, reauth, services, run, runtime, busy, devreg,
              hot, missed, care>>

Submit(f, kind, e, h, p) ==
    /\ flow[f] = NoFlow /\ Act
    /\ flow' = [flow EXCEPT ![f] =
                  [kind |-> kind, entry |-> e, host |-> h, creds |-> p, tag |-> None]]
    /\ UNCHANGED <<Unflowed, proved>>

SubmitUser(f, h, p) == Submit(f, "user", None, h, p)

SubmitReauth(f, e, p) == e \in reauth /\ Submit(f, "reauth", e, data[e].host, p)

(* _probe(): a device has let the flow in and said which one it is.          *)
Probed(f) ==
    LET h == flow[f].host p == flow[f].creds IN
    /\ flow[f] # NoFlow /\ flow[f].tag = None /\ Accepts(h, p)
    /\ flow' = [flow EXCEPT ![f].tag = at[h]]
    /\ proved' = proved \cup {<<at[h], h, p>>}
    /\ UNCHANGED <<Unflowed, acts>>

FlowEnds(f) == flow' = [flow EXCEPT ![f] = NoFlow]

(* _probe() raises, or the flow is left.                                   *)
FlowFails(f) ==
    /\ flow[f] # NoFlow
    /\ FlowEnds(f)
    /\ UNCHANGED <<Unflowed, acts, proved>>

(* The probe of f has returned, and the step goes on.                       *)
Returned(f, kind) == flow[f].kind = kind /\ flow[f].tag # None /\ FlowEnds(f)

(* Faulty: an entry is known by the address of its device.                 *)
KnownByHost(f) == {e \in Existing : data[e].host = flow[f].host}

(* async_set_unique_id(service_tag)                                        *)
Known(f) == {e \in Existing : data[e].tag = flow[f].tag}

(* _abort_if_unique_id_configured(updates): Home Assistant reloads too.     *)
ProbeKnown(f) ==
    /\ Returned(f, "user")
    /\ \E e \in Known(f) :
         Updates(e, [data[e] EXCEPT !.host = flow[f].host, !.creds = flow[f].creds],
                 IF st[e] \in {"loaded", "retry"} THEN 1 ELSE 0)
    /\ UNCHANGED <<reauth, acts>>

(* async_create_entry()                                                    *)
ProbeNew(f) ==
    /\ Returned(f, "user") /\ Known(f) = {}
    /\ \E e \in Entries \ Existing :
         /\ data' = [data EXCEPT ![e] = [tag |-> flow[f].tag, host |-> flow[f].host,
                                         creds |-> flow[f].creds, interval |-> 0]]
         /\ Begins(e)
    /\ UNCHANGED <<net, after, pending, reauth, services, runtime, devreg, acts, hot, proved>>

(* Faulty: whichever device answers is taken for that of the entry.         *)
ReauthMatchesAny(f) == TRUE

ReauthMatches(f) == data[flow[f].entry].tag = flow[f].tag

(* async_step_reauth_confirm(): the entry, which may have another address by   *)
(* now, is updated and reloaded.                                           *)
ProbeReauth(f) ==
    LET e == flow[f].entry IN
    /\ Returned(f, "reauth") /\ e \in Existing
    /\ IF ReauthMatches(f)
       THEN Updates(e, [data[e] EXCEPT !.creds = flow[f].creds], 1) /\ reauth' = reauth \ {e}
       ELSE UNCHANGED <<Unflowed, proved>>
    /\ UNCHANGED acts

Flow(f) == Probed(f) \/ FlowFails(f) \/ ProbeKnown(f) \/ ProbeNew(f) \/ ProbeReauth(f)

-----------------------------------------------------------------------------
(* The network and the devices                                             *)

Lose(lost) == run' = [e \in Entries |-> IF e \in lost THEN [run[e] EXCEPT !.link = None] ELSE run[e]]

Elsewhere == <<data, st, after, pending, reauth, services, runtime, busy, devreg, flow, hist>>

Lost(e) ==
    /\ run[e].link # None /\ Act
    /\ Lose({e})
    /\ UNCHANGED <<net, Elsewhere>>

(* A device gets another address.                                          *)
Move(d, h) ==
    /\ at[h] # d /\ Act
    /\ at' = [k \in Hosts |-> IF k = h THEN d ELSE IF at[k] = d THEN None ELSE at[k]]
    /\ Lose({e \in Entries : run[e].link \in {d, at[h]}})
    /\ UNCHANGED <<secret, Elsewhere>>

ChangePassword(d) ==
    /\ Act
    /\ secret' = [secret EXCEPT ![d] = 1 - @]
    /\ UNCHANGED <<at, run, Elsewhere>>

-----------------------------------------------------------------------------
Next ==
    \/ \E e \in Entries :
         \/ Retry(e) \/ Setup(e) \/ Call(e) \/ CallEnds(e)
         \/ StartReload(e) \/ UnloadRefused(e) \/ ClosePlatforms(e) \/ Unloaded(e)
         \/ \E then \in {"idle", "absent"} : StartUnload(e, then)
         \/ Remove(e) \/ AskReload(e) \/ Lost(e)
         \/ \E i \in Intervals : SetOptions(e, i)
    \/ \E f \in Flows :
         \/ \E h \in Hosts, p \in Passwords : SubmitUser(f, h, p)
         \/ \E e \in Entries, p \in Passwords : SubmitReauth(f, e, p)
         \/ Flow(f)
    \/ \E d \in Devices : ChangePassword(d) \/ \E h \in Hosts : Move(d, h)

Spec == Init /\ [][Next]_vars

-----------------------------------------------------------------------------
(* Properties                                                              *)

(* The services outlive every unload, reload and removal that overlaps with   *)
(* the set-up of another entry: they are there for whoever is loaded.       *)
ServicesWhileLoaded == \A e \in Entries : st[e] = "loaded" => services

(* config_flow.py:3-6: two flows for one device, at whatever addresses and   *)
(* in whatever order their probes end, leave one entry.                     *)
OneEntryPerDevice ==
    \A e, f \in Existing : data[e].tag = data[f].tag => e = f

(* The address of an entry is one where its own device has answered a probe,   *)
(* and the password one which that device has let a probe in with, though    *)
(* addresses change hands between the form, the probe and the update, and     *)
(* flows for other devices run beside it (config_flow.py:97-101, 136, 175).   *)
(* The two may come from two probes.                                       *)
OnlyProbedData ==
    \A e \in Existing : LET d == data[e] IN
        /\ \E p \in Passwords : <<d.tag, d.host, p>> \in proved
        /\ \E h \in Hosts : <<d.tag, h, d.creds>> \in proved

(* __init__.py:97 "Reload when options ... change.": what runs is what the     *)
(* entry says, or a reload is due.  Only a change made while the entry is   *)
(* being set up is overlooked, the listener being added at the end.        *)
Current(e) ==
    /\ run[e].interval = data[e].interval
    /\ run[e].host = data[e].host /\ run[e].creds = data[e].creds

StaleOnlyFromSetup ==
    \A e \in Entries \ missed : st[e] = "loaded" /\ pending[e] = 0 => Current(e)

(* A command for a device goes to that device: who is found by its tag holds   *)
(* a usable connection to no other, though the tag is read once, addresses    *)
(* change hands and a client may log in again at its old address.  It rests    *)
(* on a login after close() being of no use (transport.py:167): the mutant,    *)
(* which is how one would mend that, talks to whoever is there now.         *)
(* The device of a loaded entry is found, unless it is listed under another   *)
(* entry, too, which is not loaded: services.py:118 is not what is raised then. *)
ServiceReachesDevice ==
    /\ \A d \in Devices : \A e \in CoordinatorsFor(d) :
         st[e] \in Live /\ Usable(e) => run[e].link = d
    /\ \A d \in Devices : \A e \in Entries :
         st[e] = "loaded" /\ run[e].dev = d /\ MayFail(d) =>
             \E f \in devreg[d] \ {e} : st[f] \notin Live

(* Unattended, an entry whose password was refused is not refused again: a     *)
(* set-up that was refused is not retried, each time with a budget that      *)
(* knows nothing of the last, until a user reloads or renews the password.    *)
RefusalsSpaced == [][\A e \in Entries : SetupRefused(e) => e \notin hot]_vars

(* A connection that nobody is there to close has a cause: the set-up was      *)
(* aborted, the platforms refused to go, or a call was in flight when the     *)
(* client was closed.  Every other way through set-up, reload, unload and     *)
(* removal closes what it opened.                                          *)
LeftHasCause ==
    \A e \in Entries :
        /\ <<e, "none">> \notin left
        /\ st[e] \in Resting \cup {"absent", "closing"} /\ run[e].link # None => cause[e] # "none"

=============================================================================
