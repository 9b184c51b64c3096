---------------------------- MODULE Entry_proofs ----------------------------
(***************************************************************************)
(* Proofs about Entry, for every number of entries, devices, addresses,     *)
(* flows and acts.                                                         *)
(*                                                                         *)
(* Five facts are not inductive by themselves.  What runs is what the entry  *)
(* says only because that was so ever since the client was made (Tracks).   *)
(* A refused entry is left in peace because it rests in a state from which    *)
(* none but a user moves it (Cools).  A connection let go of has a cause      *)
(* because the cause was there while the client was still referred to        *)
(* (Cared).  A usable connection is to the device whose tag was read because  *)
(* a client that is connected once more stays closed (Steady).  And an        *)
(* update stores what was proved because a flow that waits for its update     *)
(* holds what the probe has proved (Answered).                               *)
(***************************************************************************)
EXTENDS Entry, TLAPS

Datas == [tag : Devices \cup {None}, host : Hosts \cup {None}, creds : Passwords, interval : Intervals]
Runs  == [host : Hosts \cup {None}, creds : Passwords, interval : Intervals,
          dev : Devices \cup {None}, link : Devices \cup {None}, closed : BOOLEAN]
Forms == [kind : {"user", "reauth"}, entry : Entries \cup {None},
          host : Hosts, creds : Passwords, tag : Devices \cup {None}]

ETyped ==
    /\ at      \in [Hosts -> Devices \cup {None}]
    /\ secret  \in [Devices -> Passwords]
    /\ data    \in [Entries -> Datas]
    /\ st      \in [Entries -> States]
    /\ after   \in [Entries -> {"idle", "absent", "setup"}]
    /\ pending \in [Entries -> Nat]
    /\ run     \in [Entries -> Runs]
    /\ runtime \in [Entries -> Devices \cup {None}]
    /\ busy    \subseteq Entries
    /\ devreg  \in [Devices -> SUBSET Entries]
    /\ flow    \in [Flows -> {NoFlow} \cup Forms]
    /\ cause   \in [Entries -> Causes]

(* The state of an entry, its data, what runs for it and the registry agree.  *)
Shaped(e) ==
    /\ st[e] \in {"refreshing"} \cup Live => run[e].dev # None
    /\ st[e] \in {"connecting", "identifying"} => run[e].dev = None
    /\ st[e] \in Live => runtime[e] = run[e].dev
    /\ st[e] = "loaded" => e \in devreg[run[e].dev]
    /\ st[e] \in {"idle", "retry", "absent"} => run[e] = NoRun
    /\ st[e] = "connecting" \/ run[e] # NoRun => run[e].host \in Hosts
    /\ st[e] = "absent" <=> data[e] = NoData
    /\ st[e] # "absent" => data[e].tag \in Devices /\ data[e].host \in Hosts

Tracks(e) == e \notin missed =>
    /\ st[e] \in SettingUp => run[e].host = data[e].host /\ run[e].creds = data[e].creds
    /\ st[e] \in {"refreshing", "forwarding"} => run[e].interval = data[e].interval
    /\ st[e] = "loaded" /\ pending[e] = 0 => Current(e)

Cools(e) == e \in hot => st[e] = "error"

Cared(e) ==
    /\ <<e, "none">> \notin left
    /\ st[e] \in Resting \cup {"absent", "closing"} /\ run[e].link # None => cause[e] # "none"
    /\ st[e] = "failed" => cause[e] # "none"
    /\ e \in busy /\ st[e] \notin {"forwarding", "loaded", "unloading"} => cause[e] # "none"

Steady(e) == Usable(e) /\ run[e].dev # None => run[e].link = run[e].dev

Proved(d) ==
    /\ \E p \in Passwords : <<d.tag, d.host, p>> \in proved
    /\ \E h \in Hosts : <<d.tag, h, d.creds>> \in proved

Sourced(e) == st[e] # "absent" => Proved(data[e])

EntryOK(e) == Shaped(e) /\ Tracks(e) /\ Cools(e) /\ Cared(e) /\ Steady(e) /\ Sourced(e)

Answered == \A f \in Flows : flow[f].tag # None =>
                <<flow[f].tag, flow[f].host, flow[f].creds>> \in proved

EInv ==
    /\ ETyped
    /\ reauth \subseteq Existing
    /\ ServicesWhileLoaded
    /\ OneEntryPerDevice
    /\ Answered
    /\ \A e \in Entries : EntryOK(e)

(* A step that leaves an entry alone.                                      *)
Same(e) ==
    /\ UNCHANGED <<st[e], data[e], run[e], pending[e], runtime[e], cause[e]>>
    /\ \A d \in Devices : e \in devreg[d] => e \in devreg'[d]
    /\ e \in hot' => e \in hot
    /\ e \in missed => e \in missed'
    /\ e \in busy' => e \in busy
    /\ <<e, "none">> \in left' => <<e, "none">> \in left

-----------------------------------------------------------------------------
(* How a step is shown to preserve the invariant                            *)

(* An entry that a step leaves alone is as sound as before.                 *)
LEMMA SameOK ==
    ASSUME ETyped, NEW e \in Entries, EntryOK(e), Same(e), proved \subseteq proved'
    PROVE  EntryOK(e)'
<1>1. Shaped(e)'
  <2>1. st[e] = "loaded" => run[e].dev \in Devices
    BY DEF ETyped, Runs, EntryOK, Shaped, Live
  <2>. QED
    BY <2>1 DEF EntryOK, Same, Shaped
<1>2. Tracks(e)'
  BY DEF EntryOK, Same, Tracks, Current
<1>3. Cools(e)'
  BY DEF EntryOK, Same, Cools
<1>4. Cared(e)'
  BY DEF EntryOK, Same, Cared
<1>5. Steady(e)'
  BY DEF EntryOK, Same, Steady, Usable
<1>6. Sourced(e)'
  BY DEF EntryOK, Same, Sourced, Proved
<1>. QED
  BY <1>1, <1>2, <1>3, <1>4, <1>5, <1>6 DEF EntryOK

(* What a flow that waits for its update holds stays proved.                *)
LEMMA SameAnswered ==
    ASSUME Answered, proved \subseteq proved', UNCHANGED flow
    PROVE  Answered'
BY DEF Answered

(* A step that concerns one entry, makes none appear, tags none anew, loads   *)
(* none and keeps the services has only that entry to look after.           *)
LEMMA OneEntry ==
    ASSUME EInv, NEW e \in Entries, ETyped', EntryOK(e)', Answered',
           \A u \in Entries \ {e} : Same(u),
           proved \subseteq proved',
           st'[e] # "absent" => st[e] # "absent" /\ data'[e].tag = data[e].tag,
           st'[e] = "loaded" => st[e] = "loaded",
           services' = services,
           reauth' \subseteq reauth \cup {e}, e \in reauth' => st'[e] # "absent"
    PROVE  EInv'
<1>1. \A u \in Entries : EntryOK(u)'
  BY SameOK DEF EInv
<1>2. ServicesWhileLoaded'
  BY DEF EInv, ServicesWhileLoaded, Same
<1>3. \A u \in Entries : st'[u] # "absent" => st[u] # "absent" /\ data'[u].tag = data[u].tag
  BY DEF Same
<1>4. OneEntryPerDevice'
  BY <1>3 DEF EInv, OneEntryPerDevice, Existing
<1>5. (reauth \subseteq Existing)'
  BY DEF EInv, Existing, Same
<1>. QED
  BY <1>1, <1>2, <1>4, <1>5 DEF EInv

-----------------------------------------------------------------------------
(* Facts of several actions                                                *)

(* The constants of the model are of their types.                           *)
LEMMA NothingTyped ==
    NoRun \in Runs /\ NoData \in Datas /\ NoRun.link = None /\ NoRun.dev = None /\ ~NoRun.closed
BY DEF NoRun, NoData, Runs, Datas, Passwords, Intervals

(* The states that are spelled out in the actions.                          *)
LEMMA StatesTyped ==
    {"connecting", "identifying", "refreshing", "forwarding", "loaded", "unloading", "closing",
     "failed", "idle", "error", "retry", "absent"} \subseteq States
BY DEF States, SettingUp, Resting, Live, Unloading

(* Nobody lets go of a client that may hold a connection, but for a cause.    *)
LEMMA LetGoEffect ==
    ASSUME ETyped, NEW e \in Entries, EntryOK(e), LetGo(e),
           st[e] \in Resting \cup {"absent", "closing", "failed"}
    PROVE  /\ busy' = busy \ {e} /\ cause' = [cause EXCEPT ![e] = "none"]
           /\ cause' \in [Entries -> Causes]
           /\ <<e, "none">> \notin left'
           /\ \A u \in Entries \ {e} : /\ cause'[u] = cause[u]
                                       /\ u \in busy' => u \in busy
                                       /\ <<u, "none">> \in left' => <<u, "none">> \in left
<1>1. busy' = busy \ {e} /\ cause' = [cause EXCEPT ![e] = "none"]
  BY DEF LetGo
<1>2. PICK opens \in BOOLEAN :
        /\ opens => e \in busy
        /\ left' = left \cup (IF opens \/ run[e].link # None THEN {<<e, cause[e]>>} ELSE {})
  BY DEF LetGo
<1>3. opens \/ run[e].link # None => cause[e] # "none"
  BY <1>2 DEF EntryOK, Cared, Resting
<1>4. <<e, "none">> \notin left'
  BY <1>2, <1>3 DEF EntryOK, Cared
<1>5. cause' \in [Entries -> Causes] /\ \A u \in Entries \ {e} : cause'[u] = cause[u]
  BY <1>1 DEF ETyped, Causes
<1>6. \A u \in Entries \ {e} : <<u, "none">> \in left' => <<u, "none">> \in left
  BY <1>2
<1>. QED
  BY <1>1, <1>4, <1>5, <1>6

(* A set-up has begun, with a client made from the data of the entry.         *)
Begun(e) ==
    /\ st' \in [Entries -> States] /\ run' \in [Entries -> Runs]
    /\ cause' \in [Entries -> Causes] /\ busy' \subseteq Entries
    /\ st'[e] = "connecting" /\ e \notin busy' /\ <<e, "none">> \notin left'
    /\ run'[e].host = data'[e].host /\ run'[e].creds = data'[e].creds
    /\ run'[e].dev = None /\ run'[e].link = None
    /\ \A u \in Entries \ {e} :
         /\ st'[u] = st[u] /\ run'[u] = run[u] /\ cause'[u] = cause[u]
         /\ u \in missed => u \in missed'
         /\ u \in busy' => u \in busy
         /\ <<u, "none">> \in left' => <<u, "none">> \in left

LEMMA BeginsEffect ==
    ASSUME ETyped, data' \in [Entries -> Datas], NEW e \in Entries, EntryOK(e), Begins(e),
           st[e] \in Resting \cup {"absent", "closing", "failed"}
    PROVE  Begun(e)
<1>1. st' = [st EXCEPT ![e] = "connecting"] /\ LetGo(e) /\ missed' = missed \ {e}
  BY DEF Begins, Goes
<1>. DEFINE r == [NoRun EXCEPT !.host = data'[e].host, !.creds = data'[e].creds]
<1>2. /\ r \in Runs /\ r.host = data'[e].host /\ r.creds = data'[e].creds
      /\ r.dev = None /\ r.link = None
  BY NothingTyped DEF Datas, Runs, NoRun
<1>3. run' = [run EXCEPT ![e] = r]
  BY DEF Begins
<1>. HIDE DEF r
<1>4. /\ st' \in [Entries -> States] /\ st'[e] = "connecting"
      /\ \A u \in Entries \ {e} : st'[u] = st[u]
  BY <1>1, StatesTyped DEF ETyped
<1>5. /\ run' \in [Entries -> Runs] /\ run'[e] = r
      /\ \A u \in Entries \ {e} : run'[u] = run[u]
  BY <1>2, <1>3 DEF ETyped
<1>6. /\ busy' = busy \ {e} /\ cause' \in [Entries -> Causes] /\ <<e, "none">> \notin left'
      /\ \A u \in Entries \ {e} : /\ cause'[u] = cause[u]
                                  /\ u \in busy' => u \in busy
                                  /\ <<u, "none">> \in left' => <<u, "none">> \in left
  BY <1>1, LetGoEffect
<1>7. busy' \subseteq Entries /\ e \notin busy'
  BY <1>6 DEF ETyped
<1>8. \A u \in Entries \ {e} : u \in missed => u \in missed'
  BY <1>1
<1>9. /\ run'[e].host = data'[e].host /\ run'[e].creds = data'[e].creds
      /\ run'[e].dev = None /\ run'[e].link = None
  BY <1>2, <1>5
<1>10. \A u \in Entries \ {e} :
         /\ st'[u] = st[u] /\ run'[u] = run[u] /\ cause'[u] = cause[u]
         /\ u \in missed => u \in missed'
         /\ u \in busy' => u \in busy
         /\ <<u, "none">> \in left' => <<u, "none">> \in left
  BY <1>4, <1>5, <1>6, <1>8
<1>. QED
  BY <1>4, <1>5, <1>6, <1>7, <1>9, <1>10, Zenon DEF Begun

(* An entry whose set-up begins is sound if it is in the registry and cool.   *)
LEMMA BegunOK ==
    ASSUME ETyped', NEW e \in Entries, Begun(e), data'[e].tag \in Devices,
           data'[e].host \in Hosts, e \notin hot', Proved(data[e])'
    PROVE  EntryOK(e)'
<1>1. Shaped(e)'
  BY EntryAssumption DEF Begun, Shaped, Live, Unloading, NoData
<1>2. Tracks(e)' /\ Cools(e)' /\ Cared(e)'
  BY DEF Begun, Tracks, Cools, Cared, SettingUp, Resting
<1>3. Steady(e)' /\ Sourced(e)'
  BY DEF Begun, Steady, Usable, Sourced
<1>. QED
  BY <1>1, <1>2, <1>3 DEF EntryOK

(* The data of an entry there is are typed and proved.                       *)
LEMMA DataFacts ==
    ASSUME EInv, NEW e \in Entries, st[e] # "absent"
    PROVE  data[e].tag \in Devices /\ data[e].host \in Hosts /\ Proved(data[e])
BY DEF EInv, EntryOK, Shaped, Sourced

-----------------------------------------------------------------------------
(* Set-up                                                                  *)

LEMMA RetryPreserves ==
    ASSUME EInv, NEW e \in Entries, Retry(e)
    PROVE  EInv'
<1>1. Begins(e) /\ st[e] = "retry"
      /\ UNCHANGED <<data, at, secret, after, pending, services, flow, hot, reauth, runtime,
                     devreg, proved>>
  BY DEF Retry, net
<1>2. Begun(e)
  BY <1>1, BeginsEffect DEF EInv, ETyped, Resting
<1>3. ETyped'
  BY <1>1, <1>2 DEF EInv, ETyped, Begun
<1>4. \A u \in Entries \ {e} : Same(u)
  BY <1>1, <1>2 DEF Same, Begun
<1>5. data[e].tag \in Devices /\ data[e].host \in Hosts /\ e \notin hot /\ Proved(data[e])
  BY <1>1, DataFacts DEF EInv, EntryOK, Cools
<1>6. EntryOK(e)'
  BY <1>1, <1>2, <1>3, <1>5, BegunOK DEF Proved
<1>7. st'[e] = "connecting" /\ Answered'
  BY <1>1, <1>2, SameAnswered DEF EInv, Begun
<1>. QED
  BY <1>1, <1>3, <1>4, <1>6, <1>7, OneEntry

(* A step of a set-up that changes of the client what r says.               *)
LEMMA Proceeds ==
    ASSUME EInv, NEW e \in Entries, NEW state \in States, NEW r \in Runs,
           Goes(e, state), run' = [run EXCEPT ![e] = r], UNCHANGED <<Unset, devreg, cause>>,
           runtime' \in [Entries -> Devices \cup {None}],
           \A u \in Entries \ {e} : runtime'[u] = runtime[u] /\ (u \in hot' => u \in hot)
    PROVE  /\ ETyped' /\ \A u \in Entries \ {e} : Same(u)
           /\ st'[e] = state /\ run'[e] = r
           /\ UNCHANGED <<data, pending, services, busy, missed, left, proved, cause>> /\ Answered'
<1>1. /\ st' = [st EXCEPT ![e] = state]
      /\ UNCHANGED <<at, secret, data, after, pending, services, busy, flow, missed, left,
                     proved, devreg, cause>>
  BY DEF Goes, Unset, net
<1>2. /\ st' \in [Entries -> States] /\ st'[e] = state
      /\ \A u \in Entries \ {e} : st'[u] = st[u]
  BY <1>1 DEF EInv, ETyped
<1>3. /\ run' \in [Entries -> Runs] /\ run'[e] = r
      /\ \A u \in Entries \ {e} : run'[u] = run[u]
  BY DEF EInv, ETyped
<1>4. ETyped'
  BY <1>1, <1>2, <1>3 DEF EInv, ETyped
<1>5. \A u \in Entries \ {e} : Same(u)
  BY <1>1, <1>2, <1>3 DEF Same
<1>6. Answered'
  BY <1>1, SameAnswered DEF EInv
<1>. QED
  BY <1>1, <1>2, <1>3, <1>4, <1>5, <1>6

LEMMA SetupConnectsPreserves ==
    ASSUME EInv, NEW e \in Entries, SetupConnects(e)
    PROVE  EInv'
<1>. DEFINE r == [run[e] EXCEPT !.link = at[run[e].host]]
<1>1. /\ st[e] = "connecting" /\ Goes(e, "identifying")
      /\ UNCHANGED <<Unset, reauth, runtime, devreg, hot, cause>>
  BY DEF SetupConnects
<1>2. run[e].host \in Hosts /\ run[e] \in Runs
  BY <1>1 DEF EInv, ETyped, EntryOK, Shaped
<1>3. at[run[e].host] \in Devices \cup {None}
  BY <1>2 DEF EInv, ETyped
<1>4. /\ r \in Runs /\ r.host = run[e].host /\ r.creds = run[e].creds
      /\ r.dev = run[e].dev
  BY <1>2, <1>3 DEF Runs
<1>5. run' = [run EXCEPT ![e] = r]
  BY DEF SetupConnects
<1>. HIDE DEF r
<1>6. /\ ETyped' /\ \A u \in Entries \ {e} : Same(u)
      /\ st'[e] = "identifying" /\ run'[e] = r
      /\ UNCHANGED <<data, pending, services, busy, missed, left, proved, cause>> /\ Answered'
  BY <1>1, <1>4, <1>5, Proceeds, StatesTyped DEF EInv, ETyped
<1>7. Shaped(e)' /\ Tracks(e)' /\ Cools(e)'
  BY <1>1, <1>2, <1>4, <1>6
     DEF EInv, EntryOK, Shaped, Tracks, Cools, Live, Unloading, SettingUp
<1>8. Cared(e)' /\ Steady(e)' /\ Sourced(e)'
  BY <1>1, <1>4, <1>6
     DEF EInv, EntryOK, Shaped, Cared, Steady, Sourced, Proved, Resting
<1>. QED
  BY <1>1, <1>6, <1>7, <1>8, OneEntry DEF EntryOK

LEMMA SetupIdentifiesPreserves ==
    ASSUME EInv, NEW e \in Entries, SetupIdentifies(e)
    PROVE  EInv'
<1>. DEFINE r == [run[e] EXCEPT !.dev = run[e].link, !.interval = data[e].interval]
<1>1. /\ st[e] = "identifying" /\ run[e].link # None /\ Goes(e, "refreshing")
      /\ UNCHANGED <<Unset, reauth, runtime, devreg, hot, cause>>
  BY DEF SetupIdentifies
<1>2. run[e] \in Runs /\ data[e] \in Datas
  BY DEF EInv, ETyped
<1>3. /\ r \in Runs /\ r.host = run[e].host /\ r.creds = run[e].creds
      /\ r.interval = data[e].interval
      /\ r.dev = run[e].link /\ r.link = run[e].link
  BY <1>2 DEF Runs, Datas
<1>4. run' = [run EXCEPT ![e] = r]
  BY <1>2 DEF SetupIdentifies, EInv, ETyped
<1>5. run[e] # NoRun
  BY <1>1, NothingTyped
<1>. HIDE DEF r
<1>6. /\ ETyped' /\ \A u \in Entries \ {e} : Same(u)
      /\ st'[e] = "refreshing" /\ run'[e] = r
      /\ UNCHANGED <<data, pending, services, busy, missed, left, proved, cause>> /\ Answered'
  BY <1>1, <1>3, <1>4, Proceeds, StatesTyped DEF EInv, ETyped
<1>7. Shaped(e)' /\ Tracks(e)' /\ Cools(e)'
  BY <1>1, <1>3, <1>5, <1>6
     DEF EInv, EntryOK, Shaped, Tracks, Cools, Live, Unloading, SettingUp
<1>8. Cared(e)' /\ Steady(e)' /\ Sourced(e)'
  BY <1>1, <1>3, <1>6
     DEF EInv, EntryOK, Cared, Steady, Sourced, Proved, Resting
<1>. QED
  BY <1>1, <1>6, <1>7, <1>8, OneEntry DEF EntryOK

(* However a set-up ends, its entry rests and nothing runs for it.          *)
LEMMA SetupEndsPreserves ==
    ASSUME EInv, NEW e \in Entries, NEW state \in {"error", "retry"},
           st[e] \in {"connecting", "identifying", "refreshing"},
           SetupEnds(e, state), hot' = hot \/ (hot' = hot \cup {e} /\ state = "error"),
           reauth' \subseteq reauth \cup {e}
    PROVE  EInv'
<1>1. /\ Goes(e, state) /\ run' = [run EXCEPT ![e] = NoRun]
      /\ UNCHANGED <<Unset, runtime, devreg, cause>> /\ state \in States
  BY StatesTyped DEF SetupEnds
<1>2. /\ ETyped' /\ \A u \in Entries \ {e} : Same(u)
      /\ st'[e] = state /\ run'[e] = NoRun
      /\ UNCHANGED <<data, pending, services, busy, missed, left, proved, cause>> /\ Answered'
  BY <1>1, Proceeds, NothingTyped DEF EInv, ETyped
<1>3. Shaped(e)' /\ Tracks(e)'
  BY <1>2 DEF EInv, EntryOK, Shaped, Tracks, Live, Unloading, SettingUp
<1>4. Cools(e)'
  BY <1>2 DEF EInv, EntryOK, Cools, SettingUp
<1>5. Cared(e)'
  <2>1. e \in busy => cause[e] # "none"
    BY DEF EInv, EntryOK, Cared
  <2>. QED
    BY <1>2, <2>1, NothingTyped DEF EInv, EntryOK, Cared
<1>6. Steady(e)' /\ Sourced(e)'
  BY <1>2, NothingTyped DEF EInv, EntryOK, Steady, Usable, Sourced, Proved, SettingUp
<1>7. st[e] # "absent"
  OBVIOUS
<1>. QED
  BY <1>2, <1>3, <1>4, <1>5, <1>6, <1>7, OneEntry DEF EntryOK

LEMMA RefreshedPreserves ==
    ASSUME EInv, NEW e \in Entries, Refreshed(e)
    PROVE  EInv'
<1>1. /\ st[e] = "refreshing" /\ Goes(e, "forwarding")
      /\ runtime' = [runtime EXCEPT ![e] = run[e].dev]
      /\ UNCHANGED <<Unset, reauth, run, devreg, hot, cause>>
  BY DEF Refreshed
<1>2. run[e] \in Runs /\ run[e].dev \in Devices \cup {None} /\ run' = [run EXCEPT ![e] = run[e]]
  BY <1>1 DEF EInv, ETyped, Runs
<1>3. /\ runtime' \in [Entries -> Devices \cup {None}] /\ runtime'[e] = run[e].dev
      /\ \A u \in Entries \ {e} : runtime'[u] = runtime[u]
  BY <1>1, <1>2 DEF EInv, ETyped
<1>4. /\ ETyped' /\ \A u \in Entries \ {e} : Same(u)
      /\ st'[e] = "forwarding" /\ run'[e] = run[e]
      /\ UNCHANGED <<data, pending, services, busy, missed, left, proved, cause>> /\ Answered'
  BY <1>1, <1>2, <1>3, Proceeds, StatesTyped
<1>5. Shaped(e)' /\ Tracks(e)' /\ Cools(e)'
  BY <1>1, <1>3, <1>4
     DEF EInv, EntryOK, Shaped, Tracks, Cools, Live, Unloading, SettingUp
<1>6. Cared(e)' /\ Steady(e)' /\ Sourced(e)'
  BY <1>1, <1>4
     DEF EInv, EntryOK, Cared, Steady, Usable, Sourced, Proved, Resting
<1>. QED
  BY <1>1, <1>4, <1>5, <1>6, OneEntry DEF EntryOK

(* The registry knows entries only, and forgets none when one is added.       *)
LEMMA RegisteredEffect ==
    ASSUME EInv, NEW e \in Entries
    PROVE  /\ Registered(e) \in [Devices -> SUBSET Entries]
           /\ \A d \in Devices : devreg[d] \subseteq Registered(e)[d]
           /\ run[e].dev \in Devices => e \in Registered(e)[run[e].dev]
<1>1. devreg \in [Devices -> SUBSET Entries]
  BY DEF EInv, ETyped
<1>2. Registered(e) = [devreg EXCEPT ![run[e].dev] = devreg[run[e].dev] \cup {e}]
  BY DEF Registered
<1>. QED
  BY <1>1, <1>2

LEMMA ForwardedPreserves ==
    ASSUME EInv, NEW e \in Entries, Forwarded(e)
    PROVE  EInv'
<1>1. /\ st[e] = "forwarding" /\ st' = [st EXCEPT ![e] = "loaded"] /\ services' = TRUE
      /\ devreg' = Registered(e)
      /\ UNCHANGED <<run, data, at, secret, after, pending, flow, reauth, runtime, busy, hot,
                     missed, cause, left, proved>>
  BY DEF Forwarded, Goes, net, hist, care
<1>2. /\ devreg' \in [Devices -> SUBSET Entries]
      /\ \A d \in Devices : devreg[d] \subseteq devreg'[d]
  BY <1>1, RegisteredEffect
<1>10. e \in devreg'[run[e].dev]
  <2>1. run[e].dev \in Devices
    BY <1>1 DEF EInv, ETyped, Runs, EntryOK, Shaped, Live
  <2>. QED
    BY <1>1, <2>1, RegisteredEffect
<1>3. ETyped' /\ \A u \in Entries \ {e} : Same(u)
  BY <1>1, <1>2, StatesTyped DEF EInv, ETyped, Same
<1>4. st'[e] = "loaded"
  BY <1>1 DEF EInv, ETyped
<1>5. Shaped(e)' /\ Tracks(e)' /\ Cools(e)'
  BY <1>1, <1>4, <1>10
     DEF EInv, EntryOK, Shaped, Tracks, Current, Cools, Live, Unloading, SettingUp
<1>6. Cared(e)' /\ Steady(e)' /\ Sourced(e)'
  BY <1>1, <1>4
     DEF EInv, EntryOK, Cared, Steady, Usable, Sourced, Proved, Resting
<1>7. \A u \in Entries : EntryOK(u)'
  BY <1>1, <1>3, <1>5, <1>6, SameOK DEF EInv, EntryOK
<1>8. OneEntryPerDevice' /\ ServicesWhileLoaded' /\ (reauth \subseteq Existing)'
  BY <1>1, <1>3, <1>4 DEF EInv, OneEntryPerDevice, ServicesWhileLoaded, Existing, Same
<1>9. Answered'
  BY <1>1, SameAnswered DEF EInv
<1>. QED
  BY <1>3, <1>7, <1>8, <1>9 DEF EInv

(* What an aborted set-up leaves behind has a cause.                        *)
LEMMA SetupAbortsPreserves ==
    ASSUME EInv, NEW e \in Entries, SetupAborts(e)
    PROVE  EInv'
<1>1. /\ st[e] \in SettingUp /\ st' = [st EXCEPT ![e] = "error"]
      /\ cause' = [cause EXCEPT ![e] = "aborted"]
      /\ UNCHANGED <<data, at, secret, after, pending, services, busy, flow, missed, left, proved,
                     reauth, runtime, hot>>
      /\ devreg' \in {devreg} \cup (IF st[e] = "forwarding" THEN {Registered(e)} ELSE {})
  BY DEF SetupAborts, Goes, Unset, net
<1>2. PICK link \in {run[e].link} \cup (IF st[e] = "connecting" THEN {at[run[e].host]} ELSE {}) :
         run' = [run EXCEPT ![e].link = link]
  BY DEF SetupAborts
<1>3. st[e] = "connecting" => run[e].host \in Hosts
  BY DEF EInv, EntryOK, Shaped
<1>4. link \in Devices \cup {None} /\ (st[e] # "connecting" => link = run[e].link)
  BY <1>2, <1>3 DEF EInv, ETyped, Runs
<1>. DEFINE r == [run[e] EXCEPT !.link = link]
<1>5. /\ r \in Runs /\ r.host = run[e].host /\ r.creds = run[e].creds
      /\ r.dev = run[e].dev /\ r.link = link /\ r.closed = run[e].closed
  BY <1>4 DEF EInv, ETyped, Runs
<1>6. run' = [run EXCEPT ![e] = r]
  BY <1>2
<1>. HIDE DEF r
<1>7. run' \in [Entries -> Runs] /\ run'[e] = r /\ \A u \in Entries \ {e} : run'[u] = run[u]
  BY <1>5, <1>6 DEF EInv, ETyped
<1>8. /\ st' \in [Entries -> States] /\ st'[e] = "error"
      /\ \A u \in Entries \ {e} : st'[u] = st[u]
  BY <1>1, StatesTyped DEF EInv, ETyped
<1>9. /\ cause' \in [Entries -> Causes] /\ cause'[e] = "aborted"
      /\ \A u \in Entries \ {e} : cause'[u] = cause[u]
  BY <1>1 DEF EInv, ETyped, Causes
<1>10. /\ devreg' \in [Devices -> SUBSET Entries]
       /\ \A d \in Devices : devreg[d] \subseteq devreg'[d]
  BY <1>1, RegisteredEffect DEF EInv, ETyped
<1>11. ETyped'
  BY <1>1, <1>7, <1>8, <1>9, <1>10 DEF EInv, ETyped
<1>12. \A u \in Entries \ {e} : Same(u)
  BY <1>1, <1>7, <1>8, <1>9, <1>10 DEF Same
<1>13. r = NoRun \/ r.host \in Hosts
  <2>1. CASE run[e] = NoRun /\ st[e] # "connecting"
    <3>1. link = run[e].link
      BY <1>4, <2>1
    <3>. QED
      BY <1>6, <1>7, <2>1, <3>1, <1>2 DEF EInv, ETyped, Runs, NoRun
  <2>2. CASE run[e] # NoRun \/ st[e] = "connecting"
    BY <1>5, <2>2 DEF EInv, EntryOK, Shaped
  <2>. QED
    BY <2>1, <2>2
<1>14. Shaped(e)' /\ Tracks(e)' /\ Cools(e)'
  BY <1>1, <1>7, <1>8, <1>13
     DEF EInv, EntryOK, Shaped, Tracks, Cools, Live, Unloading, SettingUp
<1>15. Cared(e)' /\ Sourced(e)'
  BY <1>1, <1>8, <1>9
     DEF EInv, EntryOK, Cared, Sourced, Proved, SettingUp
<1>16. Steady(e)'
  <2>1. CASE st[e] = "connecting"
    BY <1>5, <1>7, <2>1 DEF EInv, EntryOK, Shaped, Steady
  <2>2. CASE st[e] # "connecting"
    BY <1>4, <1>5, <1>7, <2>2 DEF EInv, EntryOK, Steady, Usable
  <2>. QED
    BY <2>1, <2>2
<1>17. Answered' /\ st[e] # "absent"
  BY <1>1, SameAnswered DEF EInv, SettingUp
<1>. QED
  BY <1>1, <1>8, <1>11, <1>12, <1>14, <1>15, <1>16, <1>17, OneEntry DEF EntryOK

LEMMA SetupPreserves ==
    ASSUME EInv, NEW e \in Entries, Setup(e)
    PROVE  EInv'
<1>1. SetupRefused(e) => EInv'
  BY SetupEndsPreserves DEF SetupRefused
<1>2. SetupFails(e) => EInv'
  BY SetupEndsPreserves DEF SetupFails
<1>3. RefreshFails(e) => EInv'
  BY SetupEndsPreserves DEF RefreshFails
<1>. QED
  BY <1>1, <1>2, <1>3, SetupConnectsPreserves, SetupIdentifiesPreserves, RefreshedPreserves,
     ForwardedPreserves, SetupAbortsPreserves DEF Setup

-----------------------------------------------------------------------------
(* Calls                                                                   *)

LEMMA CallPreserves ==
    ASSUME EInv, NEW e \in Entries, Call(e)
    PROVE  EInv'
<1>1. /\ st[e] \in Live /\ busy' = busy \cup {e}
      /\ cause' = [cause EXCEPT ![e] = IF st[e] = "closing" THEN "busy" ELSE @]
      /\ UNCHANGED <<data, at, secret, st, after, pending, reauth, services, run, runtime, devreg,
                     flow, hot, missed, left, proved>>
  BY DEF Call, net
<1>2. /\ cause' \in [Entries -> Causes]
      /\ cause'[e] = IF st[e] = "closing" THEN "busy" ELSE cause[e]
      /\ \A u \in Entries \ {e} : cause'[u] = cause[u]
  BY <1>1 DEF EInv, ETyped, Causes
<1>3. ETyped' /\ \A u \in Entries \ {e} : Same(u)
  BY <1>1, <1>2 DEF EInv, ETyped, Same
<1>4. Shaped(e)' /\ Tracks(e)' /\ Cools(e)' /\ Steady(e)' /\ Sourced(e)'
  BY <1>1 DEF EInv, EntryOK, Shaped, Tracks, Current, Cools, Steady, Usable, Sourced, Proved
<1>5. Cared(e)'
  BY <1>1, <1>2 DEF EInv, EntryOK, Cared, Live, Unloading
<1>6. Answered' /\ st[e] # "absent"
  BY <1>1, SameAnswered DEF EInv, Live, Unloading
<1>. QED
  BY <1>1, <1>3, <1>4, <1>5, <1>6, OneEntry DEF EntryOK

(* A login of a client that has been closed leaves it closed.               *)
LEMMA CallEndsPreserves ==
    ASSUME EInv, NEW e \in Entries, CallEnds(e)
    PROVE  EInv'
<1>1. /\ e \in busy /\ busy' = busy \ {e}
      /\ UNCHANGED <<data, at, secret, st, after, pending, reauth, services, runtime, devreg,
                     flow, hot, missed, cause, left, proved>>
  BY DEF CallEnds, net, hist, care
<1>2. Answered'
  BY <1>1, SameAnswered DEF EInv
<1>3. CASE UNCHANGED run
  <2>1. ETyped' /\ \A u \in Entries \ {e} : Same(u)
    BY <1>1, <1>3 DEF EInv, ETyped, Same
  <2>2. EntryOK(e)'
    BY <1>1, <1>3 DEF EInv, EntryOK, Shaped, Tracks, Current, Cools, Cared, Steady, Usable,
                      Sourced, Proved
  <2>. QED
    BY <1>1, <1>2, <2>1, <2>2, OneEntry DEF EInv, Existing
<1>4. CASE Reconnects(e)
  <2>1. PICK link \in Links(e) : run' = [run EXCEPT ![e].link = link]
    BY <1>4 DEF Reconnects
  <2>2. run[e].closed /\ run[e] \in Runs
    BY <1>4 DEF Reconnects, EInv, ETyped
  <2>3. run[e].host \in Hosts
    BY <2>2, NothingTyped DEF EInv, EntryOK, Shaped
  <2>4. link \in Devices \cup {None}
    BY <2>3 DEF Links, EInv, ETyped
  <2>. DEFINE r == [run[e] EXCEPT !.link = link]
  <2>5. /\ r \in Runs /\ r.host = run[e].host /\ r.creds = run[e].creds
        /\ r.interval = run[e].interval /\ r.dev = run[e].dev /\ r.closed
    BY <2>2, <2>4 DEF Runs
  <2>6. run' = [run EXCEPT ![e] = r]
    BY <2>1
  <2>7. run[e] # NoRun
    BY <2>2, NothingTyped
  <2>. HIDE DEF r
  <2>8. run' \in [Entries -> Runs] /\ run'[e] = r /\ \A u \in Entries \ {e} : run'[u] = run[u]
    BY <2>5, <2>6 DEF EInv, ETyped
  <2>9. ETyped' /\ \A u \in Entries \ {e} : Same(u)
    BY <1>1, <2>8 DEF EInv, ETyped, Same
  <2>10. Shaped(e)' /\ Tracks(e)' /\ Cools(e)'
    BY <1>1, <2>3, <2>5, <2>7, <2>8 DEF EInv, EntryOK, Shaped, Tracks, Current, Cools
  <2>11. Cared(e)'
    BY <1>1 DEF EInv, EntryOK, Cared, Resting
  <2>12. Steady(e)' /\ Sourced(e)'
    BY <1>1, <2>5, <2>8 DEF EInv, EntryOK, Steady, Usable, Sourced, Proved
  <2>. QED
    BY <1>1, <1>2, <2>9, <2>10, <2>11, <2>12, OneEntry DEF EntryOK, EInv, Existing
<1>. QED
  BY <1>3, <1>4 DEF CallEnds

-----------------------------------------------------------------------------
(* Reload, unload and removal                                              *)

(* An unload begins with everything as it was.                              *)
LEMMA UnloadingOK ==
    ASSUME EInv, NEW e \in Entries, st[e] = "loaded", st'[e] = "unloading",
           UNCHANGED <<data, run, runtime, busy, left, cause, proved>>, hot' \subseteq hot
    PROVE  EntryOK(e)'
<1>1. Shaped(e)' /\ Tracks(e)' /\ Cools(e)'
  BY DEF EInv, EntryOK, Shaped, Tracks, Cools, Live, Unloading, SettingUp
<1>2. Cared(e)' /\ Steady(e)' /\ Sourced(e)'
  BY DEF EInv, EntryOK, Cared, Steady, Usable, Sourced, Proved, Resting
<1>. QED
  BY <1>1, <1>2 DEF EntryOK

LEMMA StartReloadPreserves ==
    ASSUME EInv, NEW e \in Entries, StartReload(e)
    PROVE  EInv'
<1>1. /\ pending[e] > 0 /\ pending' = [pending EXCEPT ![e] = @ - 1] /\ hot' = hot \ {e}
      /\ UNCHANGED <<data, at, secret, reauth, services, runtime, devreg, flow, proved>>
  BY DEF StartReload, net
<1>2. pending' \in [Entries -> Nat] /\ \A u \in Entries \ {e} : pending'[u] = pending[u]
  BY <1>1 DEF EInv, ETyped
<1>3. Answered'
  BY <1>1, SameAnswered DEF EInv
<1>4. CASE st[e] = "loaded" /\ Unloads(e, "setup")
  <2>1. /\ st' = [st EXCEPT ![e] = "unloading"] /\ after' = [after EXCEPT ![e] = "setup"]
        /\ UNCHANGED <<run, busy, missed, cause, left>>
    BY <1>4 DEF Unloads, Goes, care
  <2>2. ETyped'
    BY <1>1, <1>2, <2>1, StatesTyped DEF EInv, ETyped
  <2>3. \A u \in Entries \ {e} : Same(u)
    BY <1>1, <1>2, <2>1 DEF EInv, ETyped, Same
  <2>4. st'[e] = "unloading"
    BY <2>1 DEF EInv, ETyped
  <2>5. EntryOK(e)'
    BY <1>1, <1>4, <2>1, <2>4, UnloadingOK
  <2>. QED
    BY <1>1, <1>3, <1>4, <2>2, <2>3, <2>4, <2>5, OneEntry
<1>5. CASE st[e] \in Resting /\ Begins(e) /\ UNCHANGED after
  <2>1. Begun(e)
    BY <1>1, <1>5, BeginsEffect DEF EInv, ETyped
  <2>2. ETyped'
    BY <1>1, <1>2, <1>5, <2>1 DEF EInv, ETyped, Begun
  <2>3. \A u \in Entries \ {e} : Same(u)
    BY <1>1, <1>2, <1>5, <2>1 DEF Same, Begun
  <2>4. st[e] # "absent" /\ data[e].tag \in Devices /\ data[e].host \in Hosts /\ Proved(data[e])
    BY <1>5, DataFacts DEF Resting
  <2>5. EntryOK(e)'
    BY <1>1, <2>1, <2>2, <2>4, BegunOK DEF Proved
  <2>6. st'[e] = "connecting"
    BY <2>1 DEF Begun
  <2>. QED
    BY <1>1, <1>3, <2>2, <2>3, <2>4, <2>5, <2>6, OneEntry
<1>. QED
  BY <1>4, <1>5 DEF StartReload

LEMMA StartUnloadPreserves ==
    ASSUME EInv, NEW e \in Entries, NEW then \in {"idle", "absent"}, StartUnload(e, then)
    PROVE  EInv'
<1>1. /\ st[e] = "loaded"
      /\ st' = [st EXCEPT ![e] = "unloading"] /\ after' = [after EXCEPT ![e] = then]
      /\ UNCHANGED <<run, busy, missed, cause, left, data, at, secret, pending, reauth, services,
                     runtime, devreg, flow, hot, proved>>
  BY DEF StartUnload, Unloads, Goes, net, care
<1>2. ETyped'
  BY <1>1, StatesTyped DEF EInv, ETyped
<1>3. \A u \in Entries \ {e} : Same(u)
  BY <1>1 DEF EInv, ETyped, Same
<1>4. st'[e] = "unloading"
  BY <1>1 DEF EInv, ETyped
<1>5. EntryOK(e)' /\ Answered'
  BY <1>1, <1>4, UnloadingOK, SameAnswered DEF EInv
<1>. QED
  BY <1>1, <1>2, <1>3, <1>4, <1>5, OneEntry

LEMMA UnloadRefusedPreserves ==
    ASSUME EInv, NEW e \in Entries, UnloadRefused(e)
    PROVE  EInv'
<1>1. /\ st[e] = "unloading" /\ st' = [st EXCEPT ![e] = "failed"]
      /\ cause' = [cause EXCEPT ![e] = "refused"]
      /\ UNCHANGED <<data, at, secret, after, pending, reauth, services, run, runtime, busy,
                     devreg, flow, hot, missed, left, proved>>
  BY DEF UnloadRefused, Goes, net
<1>2. /\ cause' \in [Entries -> Causes] /\ cause'[e] = "refused"
      /\ \A u \in Entries \ {e} : cause'[u] = cause[u]
  BY <1>1 DEF EInv, ETyped, Causes
<1>3. ETyped' /\ \A u \in Entries \ {e} : Same(u)
  BY <1>1, <1>2, StatesTyped DEF EInv, ETyped, Same
<1>4. st'[e] = "failed"
  BY <1>1 DEF EInv, ETyped
<1>5. Shaped(e)' /\ Tracks(e)' /\ Cools(e)'
  BY <1>1, <1>4 DEF EInv, EntryOK, Shaped, Tracks, Cools, Live, Unloading, SettingUp
<1>6. Cared(e)' /\ Steady(e)' /\ Sourced(e)'
  BY <1>1, <1>2, <1>4 DEF EInv, EntryOK, Cared, Steady, Usable, Sourced, Proved
<1>7. Answered'
  BY <1>1, SameAnswered DEF EInv
<1>. QED
  BY <1>1, <1>3, <1>4, <1>5, <1>6, <1>7, OneEntry DEF EntryOK

(* A call in flight is the cause of what close() may leave open.             *)
LEMMA ClosePlatformsPreserves ==
    ASSUME EInv, NEW e \in Entries, ClosePlatforms(e)
    PROVE  EInv'
<1>1. /\ st[e] = "unloading" /\ st' = [st EXCEPT ![e] = "closing"]
      /\ run' = [run EXCEPT ![e].link = None, ![e].closed = TRUE]
      /\ cause' = [cause EXCEPT ![e] = IF e \in busy THEN "busy" ELSE @]
      /\ UNCHANGED <<data, at, secret, after, pending, reauth, services, runtime, busy, devreg,
                     flow, hot, missed, left, proved>>
  BY DEF ClosePlatforms, Closes, Goes, net
<1>. DEFINE r == [run[e] EXCEPT !.link = None, !.closed = TRUE]
<1>2. /\ r \in Runs /\ r.host = run[e].host /\ r.dev = run[e].dev
      /\ r.link = None /\ r.closed
  BY DEF EInv, ETyped, Runs
<1>3. run' = [run EXCEPT ![e] = r]
  BY <1>1 DEF EInv, ETyped
<1>4. run[e].host \in Hosts
  BY <1>1, NothingTyped DEF EInv, EntryOK, Shaped, Live, Unloading
<1>. HIDE DEF r
<1>5. run' \in [Entries -> Runs] /\ run'[e] = r /\ \A u \in Entries \ {e} : run'[u] = run[u]
  BY <1>2, <1>3 DEF EInv, ETyped
<1>6. /\ st' \in [Entries -> States] /\ st'[e] = "closing"
      /\ \A u \in Entries \ {e} : st'[u] = st[u]
  BY <1>1, StatesTyped DEF EInv, ETyped
<1>7. /\ cause' \in [Entries -> Causes] /\ (e \in busy => cause'[e] = "busy")
      /\ \A u \in Entries \ {e} : cause'[u] = cause[u]
  BY <1>1 DEF EInv, ETyped, Causes
<1>8. ETyped' /\ \A u \in Entries \ {e} : Same(u)
  BY <1>1, <1>5, <1>6, <1>7 DEF EInv, ETyped, Same
<1>9. Shaped(e)' /\ Tracks(e)' /\ Cools(e)'
  BY <1>1, <1>2, <1>4, <1>5, <1>6
     DEF EInv, EntryOK, Shaped, Tracks, Cools, Live, Unloading, SettingUp
<1>10. Cared(e)' /\ Steady(e)' /\ Sourced(e)'
  BY <1>1, <1>2, <1>5, <1>6, <1>7
     DEF EInv, EntryOK, Cared, Steady, Usable, Sourced, Proved
<1>11. Answered'
  BY <1>1, SameAnswered DEF EInv
<1>. QED
  BY <1>1, <1>6, <1>8, <1>9, <1>10, <1>11, OneEntry DEF EntryOK

(* An entry that is gone leaves nothing behind.                             *)
LEMMA GoneOK ==
    ASSUME EInv, NEW e \in Entries, Gone(e), UNCHANGED <<at, secret, after, flow, proved>>,
           st[e] \in Resting \cup {"absent", "closing", "failed"}
    PROVE  /\ ETyped' /\ EntryOK(e)' /\ \A u \in Entries \ {e} : Same(u)
           /\ st'[e] = "absent" /\ reauth' = reauth \ {e}
<1>1. /\ st' = [st EXCEPT ![e] = "absent"] /\ data' = [data EXCEPT ![e] = NoData]
      /\ pending' = [pending EXCEPT ![e] = 0] /\ run' = [run EXCEPT ![e] = NoRun]
      /\ runtime' = [runtime EXCEPT ![e] = None]
      /\ devreg' = [d \in Devices |-> devreg[d] \ {e}]
      /\ reauth' = reauth \ {e} /\ hot' = hot \ {e} /\ missed' = missed \ {e}
      /\ LetGo(e)
  BY DEF Gone, Goes
<1>2. /\ busy' = busy \ {e} /\ cause' \in [Entries -> Causes] /\ <<e, "none">> \notin left'
      /\ \A u \in Entries \ {e} : /\ cause'[u] = cause[u]
                                  /\ u \in busy' => u \in busy
                                  /\ <<u, "none">> \in left' => <<u, "none">> \in left
  BY <1>1, LetGoEffect DEF EInv
<1>3. ETyped'
  BY <1>1, <1>2, NothingTyped, StatesTyped DEF EInv, ETyped
<1>4. \A u \in Entries \ {e} : Same(u)
  BY <1>1, <1>2 DEF EInv, ETyped, Same
<1>5. st'[e] = "absent" /\ data'[e] = NoData /\ run'[e] = NoRun /\ e \notin hot'
  BY <1>1 DEF EInv, ETyped
<1>6. Shaped(e)' /\ Tracks(e)' /\ Cools(e)'
  BY <1>5 DEF Shaped, Tracks, Cools, Live, Unloading, SettingUp
<1>7. Cared(e)' /\ Steady(e)' /\ Sourced(e)'
  BY <1>2, <1>5, NothingTyped DEF Cared, Steady, Usable, Sourced
<1>. QED
  BY <1>1, <1>3, <1>4, <1>5, <1>6, <1>7 DEF EntryOK

LEMMA RemovePreserves ==
    ASSUME EInv, NEW e \in Entries, Remove(e)
    PROVE  EInv'
<1>1. /\ Gone(e) /\ UNCHANGED <<at, secret, after, flow, services, proved>>
      /\ st[e] \in Resting \cup {"absent", "closing", "failed"}
  BY DEF Remove, net
<1>2. Answered'
  BY <1>1, SameAnswered DEF EInv
<1>. QED
  BY <1>1, <1>2, GoneOK, OneEntry

(* The services go with the last entry only, so that another one that is     *)
(* loaded keeps them.                                                      *)
LEMMA UnloadedPreserves ==
    ASSUME EInv, NEW e \in Entries, Unloaded(e)
    PROVE  EInv'
<1>1. /\ st[e] = "closing" /\ services' = (services /\ Existing \ {e} # {})
      /\ runtime' = [runtime EXCEPT ![e] = None]
      /\ UNCHANGED <<at, secret, after, flow, proved>>
      /\ after[e] \in {"idle", "absent", "setup"}
  BY DEF Unloaded, Unregister, net, EInv, ETyped
<1>2. /\ runtime' \in [Entries -> Devices \cup {None}]
      /\ \A u \in Entries \ {e} : runtime'[u] = runtime[u]
  BY <1>1 DEF EInv, ETyped
<1>3. /\ ETyped' /\ EntryOK(e)' /\ \A u \in Entries \ {e} : Same(u)
      /\ reauth' \subseteq reauth /\ (e \in reauth' => st'[e] # "absent")
      /\ st'[e] # "loaded" /\ (st'[e] # "absent" => data'[e].tag = data[e].tag)
  <2>1. CASE after[e] = "setup"
    <3>1. UNCHANGED <<data, pending, reauth, devreg, hot>> /\ Begins(e)
      BY <2>1 DEF Unloaded
    <3>2. Begun(e)
      BY <1>1, <3>1, BeginsEffect DEF EInv, ETyped
    <3>3. ETyped'
      BY <1>1, <1>2, <3>1, <3>2 DEF EInv, ETyped, Begun
    <3>4. \A u \in Entries \ {e} : Same(u)
      BY <1>1, <1>2, <3>1, <3>2 DEF Same, Begun
    <3>5. data[e].tag \in Devices /\ data[e].host \in Hosts /\ e \notin hot /\ Proved(data[e])
      BY <1>1, DataFacts DEF EInv, EntryOK, Cools
    <3>6. EntryOK(e)'
      BY <1>1, <3>1, <3>2, <3>3, <3>5, BegunOK DEF Proved
    <3>7. st'[e] = "connecting"
      BY <3>2 DEF Begun
    <3>. QED
      BY <3>1, <3>3, <3>4, <3>6, <3>7
  <2>2. CASE after[e] = "absent"
    <3>1. Gone(e)
      BY <2>2 DEF Unloaded
    <3>. QED
      BY <1>1, <3>1, GoneOK
  <2>3. CASE after[e] = "idle"
    <3>1. /\ st' = [st EXCEPT ![e] = "idle"] /\ run' = [run EXCEPT ![e] = NoRun] /\ LetGo(e)
          /\ UNCHANGED <<data, pending, reauth, devreg, hot, missed>>
      BY <2>3 DEF Unloaded, Goes
    <3>2. /\ busy' = busy \ {e} /\ cause' \in [Entries -> Causes] /\ <<e, "none">> \notin left'
          /\ \A u \in Entries \ {e} : /\ cause'[u] = cause[u]
                                      /\ u \in busy' => u \in busy
                                      /\ <<u, "none">> \in left' => <<u, "none">> \in left
      BY <1>1, <3>1, LetGoEffect DEF EInv
    <3>3. ETyped'
      BY <1>1, <1>2, <3>1, <3>2, NothingTyped, StatesTyped DEF EInv, ETyped
    <3>4. \A u \in Entries \ {e} : Same(u)
      BY <1>1, <1>2, <3>1, <3>2 DEF EInv, ETyped, Same
    <3>5. st'[e] = "idle" /\ run'[e] = NoRun
      BY <3>1 DEF EInv, ETyped
    <3>6. Shaped(e)' /\ Tracks(e)' /\ Cools(e)'
      BY <1>1, <3>1, <3>5 DEF EInv, EntryOK, Shaped, Tracks, Cools, Live, Unloading, SettingUp
    <3>7. Cared(e)' /\ Steady(e)' /\ Sourced(e)'
      BY <1>1, <3>1, <3>2, <3>5, NothingTyped
         DEF EInv, EntryOK, Cared, Steady, Usable, Sourced, Proved
    <3>. QED
      BY <3>1, <3>3, <3>4, <3>5, <3>6, <3>7 DEF EntryOK
  <2>. QED
    BY <1>1, <2>1, <2>2, <2>3
<1>4. \A u \in Entries : EntryOK(u)'
  BY <1>1, <1>3, SameOK DEF EInv
<1>5. ServicesWhileLoaded'
  <2>1. ASSUME NEW u \in Entries, st'[u] = "loaded" PROVE services'
    <3>1. u # e /\ st[u] = "loaded"
      BY <1>3, <2>1 DEF Same
    <3>2. services /\ u \in Existing
      BY <3>1 DEF EInv, ServicesWhileLoaded, Existing
    <3>. QED
      BY <1>1, <3>1, <3>2
  <2>. QED
    BY <2>1 DEF ServicesWhileLoaded
<1>6. \A u \in Entries : st'[u] # "absent" => st[u] # "absent" /\ data'[u].tag = data[u].tag
  BY <1>1, <1>3 DEF Same
<1>7. OneEntryPerDevice'
  BY <1>6 DEF EInv, OneEntryPerDevice, Existing
<1>8. (reauth \subseteq Existing)'
  BY <1>3 DEF EInv, Existing, Same
<1>9. Answered'
  BY <1>1, SameAnswered DEF EInv
<1>. QED
  BY <1>3, <1>4, <1>5, <1>7, <1>8, <1>9 DEF EInv

-----------------------------------------------------------------------------
(* Changes of an entry                                                     *)

LEMMA AskReloadPreserves ==
    ASSUME EInv, NEW e \in Entries, AskReload(e)
    PROVE  EInv'
<1>1. /\ pending' = [pending EXCEPT ![e] = @ + 1] /\ st[e] # "absent"
      /\ UNCHANGED <<data, st, run, at, secret, after, reauth, services, runtime, busy, devreg,
                     flow, hot, missed, cause, left, proved>>
  BY DEF AskReload, Existing, net, hist, care
<1>2. ETyped' /\ \A u \in Entries \ {e} : Same(u)
  BY <1>1 DEF EInv, ETyped, Same
<1>3. pending'[e] # 0
  BY <1>1 DEF EInv, ETyped
<1>4. EntryOK(e)'
  BY <1>1, <1>3 DEF EInv, EntryOK, Shaped, Tracks, Cools, Cared, Steady, Usable, Sourced, Proved
<1>5. Answered'
  BY <1>1, SameAnswered DEF EInv
<1>. QED
  BY <1>1, <1>2, <1>4, <1>5, OneEntry

(* An entry that is updated while it is loaded has a reload due, and one      *)
(* updated during its set-up is among those that were overlooked.           *)
LEMMA UpdatesOK ==
    ASSUME EInv, NEW e \in Existing, NEW new \in Datas, NEW more \in Nat,
           new.tag = data[e].tag, new.host \in Hosts, Proved(new), Updates(e, new, more),
           flow' \in [Flows -> {NoFlow} \cup Forms], Answered', reauth' \subseteq reauth
    PROVE  EInv'
<1>1. /\ data' = [data EXCEPT ![e] = new]
      /\ pending' = [pending EXCEPT ![e] = @ + more + (IF new = data[e] THEN 0 ELSE Heard(e))]
      /\ missed' = IF st[e] \in SettingUp /\ new # data[e] THEN missed \cup {e} ELSE missed
      /\ e \in Entries /\ st[e] # "absent"
      /\ UNCHANGED <<at, secret, st, after, services, run, runtime, busy, devreg, hot, cause, left,
                     proved>>
  BY DEF Updates, Existing, net, care
<1>2. Heard(e) \in Nat /\ (st[e] = "loaded" => Heard(e) > 0)
  BY DEF Heard
<1>3. ETyped'
  BY <1>1, <1>2 DEF EInv, ETyped
<1>4. \A u \in Entries \ {e} : Same(u)
  BY <1>1 DEF EInv, ETyped, Same
<1>5. /\ data'[e] = new /\ pending'[e] \in Nat
      /\ new # data[e] /\ st[e] = "loaded" => pending'[e] # 0
      /\ new = data[e] /\ pending'[e] = 0 => pending[e] = 0
  BY <1>1, <1>2 DEF EInv, ETyped
<1>6. Shaped(e)'
  BY <1>1, <1>5, EntryAssumption DEF EInv, EntryOK, Shaped, NoData
<1>7. Tracks(e)'
  <2>1. CASE new = data[e]
    BY <1>1, <1>5, <2>1 DEF EInv, EntryOK, Tracks, Current
  <2>2. CASE new # data[e]
    BY <1>1, <1>5, <2>2 DEF EInv, EntryOK, Tracks, Current, SettingUp
  <2>. QED
    BY <2>1, <2>2
<1>8. Cools(e)' /\ Cared(e)' /\ Steady(e)'
  BY <1>1 DEF EInv, EntryOK, Cools, Cared, Steady, Usable
<1>9. Sourced(e)'
  BY <1>1, <1>5 DEF Sourced, Proved
<1>. QED
  BY <1>1, <1>3, <1>4, <1>5, <1>6, <1>7, <1>8, <1>9, OneEntry DEF EntryOK

LEMMA SetOptionsPreserves ==
    ASSUME EInv, NEW e \in Entries, NEW i \in Intervals, SetOptions(e, i)
    PROVE  EInv'
<1>. DEFINE new == [data[e] EXCEPT !.interval = i]
<1>1. e \in Existing /\ Updates(e, new, 0) /\ UNCHANGED <<flow, reauth>>
  BY DEF SetOptions
<1>2. data[e] \in Datas /\ st[e] # "absent" /\ data[e].host \in Hosts /\ Proved(data[e])
  BY <1>1, DataFacts DEF EInv, ETyped, Existing
<1>3. /\ new \in Datas /\ new.tag = data[e].tag /\ new.host = data[e].host
      /\ new.creds = data[e].creds
  BY <1>2 DEF Datas
<1>4. Proved(new)
  BY <1>2, <1>3 DEF Proved
<1>5. flow' \in [Flows -> {NoFlow} \cup Forms] /\ reauth' \subseteq reauth /\ UNCHANGED proved
  BY <1>1 DEF EInv, ETyped, Updates
<1>6. Answered'
  BY <1>1, <1>5, SameAnswered DEF EInv
<1>. HIDE DEF new
<1>. QED
  BY <1>1, <1>2, <1>3, <1>4, <1>5, <1>6, UpdatesOK

-----------------------------------------------------------------------------
(* Flows                                                                   *)

(* A step of a flow that changes no entry.                                  *)
LEMMA FlowOnly ==
    ASSUME EInv, flow' \in [Flows -> {NoFlow} \cup Forms], Answered', UNCHANGED Unflowed,
           proved \subseteq proved'
    PROVE  EInv'
<1>1. UNCHANGED <<at, secret, data, st, after, pending, reauth, services, run, runtime, busy,
                  devreg, hot, missed, cause, left>>
  BY DEF Unflowed, net, care
<1>2. ETyped'
  BY <1>1 DEF EInv, ETyped
<1>3. \A u \in Entries : EntryOK(u)'
  BY <1>1, SameOK DEF EInv, Same
<1>4. (reauth \subseteq Existing)' /\ ServicesWhileLoaded' /\ OneEntryPerDevice'
  BY <1>1 DEF EInv, ServicesWhileLoaded, OneEntryPerDevice, Existing
<1>. QED
  BY <1>2, <1>3, <1>4 DEF EInv

LEMMA SubmitPreserves ==
    ASSUME EInv, NEW f \in Flows, NEW kind \in {"user", "reauth"}, NEW e \in Entries \cup {None},
           NEW h \in Hosts, NEW p \in Passwords, Submit(f, kind, e, h, p)
    PROVE  EInv'
<1>. DEFINE form == [kind |-> kind, entry |-> e, host |-> h, creds |-> p, tag |-> None]
<1>1. flow' = [flow EXCEPT ![f] = form] /\ UNCHANGED <<Unflowed, proved>>
  BY DEF Submit
<1>2. form \in Forms /\ form.tag = None
  BY DEF Forms
<1>. HIDE DEF form
<1>3. flow' \in [Flows -> {NoFlow} \cup Forms]
  BY <1>1, <1>2 DEF EInv, ETyped
<1>4. \A g \in Flows : flow'[g].tag # None => flow'[g] = flow[g]
  BY <1>1, <1>2 DEF EInv, ETyped
<1>5. Answered'
  BY <1>1, <1>4 DEF EInv, Answered
<1>. QED
  BY <1>1, <1>3, <1>5, FlowOnly

LEMMA SubmitReauthPreserves ==
    ASSUME EInv, NEW f \in Flows, NEW e \in Entries, NEW p \in Passwords, SubmitReauth(f, e, p)
    PROVE  EInv'
<1>1. data[e].host \in Hosts
  BY DataFacts DEF SubmitReauth, EInv, Existing
<1>. QED
  BY <1>1, SubmitPreserves DEF SubmitReauth

(* A flow that is not idle holds a form with an address.                     *)
LEMMA FormFacts ==
    ASSUME EInv, NEW f \in Flows, flow[f] # NoFlow
    PROVE  /\ flow[f] \in Forms /\ flow[f].host \in Hosts /\ flow[f].creds \in Passwords
           /\ flow[f].entry \in Entries \cup {None} /\ flow[f].tag \in Devices \cup {None}
BY DEF EInv, ETyped, Forms

LEMMA ProbedPreserves ==
    ASSUME EInv, NEW f \in Flows, Probed(f)
    PROVE  EInv'
<1>. DEFINE h == flow[f].host
            p == flow[f].creds
            form == [flow[f] EXCEPT !.tag = at[h]]
<1>1. /\ flow[f] # NoFlow /\ flow' = [flow EXCEPT ![f] = form]
      /\ proved' = proved \cup {<<at[h], h, p>>} /\ UNCHANGED Unflowed
  BY DEF Probed, EInv, ETyped
<1>2. flow[f] \in Forms /\ at[h] \in Devices \cup {None}
  BY <1>1, FormFacts DEF EInv, ETyped
<1>3. form \in Forms /\ form.tag = at[h] /\ form.host = h /\ form.creds = p
  BY <1>2 DEF Forms
<1>. HIDE DEF form, h, p
<1>4. flow' \in [Flows -> {NoFlow} \cup Forms]
  BY <1>1, <1>3 DEF EInv, ETyped
<1>5. \A g \in Flows : flow'[g] = IF g = f THEN form ELSE flow[g]
  BY <1>1 DEF EInv, ETyped
<1>6. Answered'
  BY <1>1, <1>3, <1>5 DEF EInv, Answered
<1>. QED
  BY <1>1, <1>4, <1>6, FlowOnly

(* A flow that has ended is not waiting.                                    *)
LEMMA FlowEndsOK ==
    ASSUME EInv, NEW f \in Flows, FlowEnds(f), proved \subseteq proved'
    PROVE  flow' \in [Flows -> {NoFlow} \cup Forms] /\ Answered'
<1>1. flow' = [flow EXCEPT ![f] = NoFlow] /\ NoFlow.tag = None
  BY DEF FlowEnds, NoFlow
<1>2. \A g \in Flows : flow'[g].tag # None => flow'[g] = flow[g]
  BY <1>1 DEF EInv, ETyped
<1>3. flow' \in [Flows -> {NoFlow} \cup Forms]
  BY <1>1 DEF EInv, ETyped
<1>. QED
  BY <1>2, <1>3 DEF EInv, Answered

LEMMA FlowFailsPreserves ==
    ASSUME EInv, NEW f \in Flows, FlowFails(f)
    PROVE  EInv'
<1>1. FlowEnds(f) /\ UNCHANGED <<Unflowed, proved>>
  BY DEF FlowFails
<1>. QED
  BY <1>1, FlowEndsOK, FlowOnly

(* What the step after a probe goes by.                                     *)
LEMMA ReturnedFacts ==
    ASSUME EInv, NEW f \in Flows, NEW kind \in {"user", "reauth"}, Returned(f, kind),
           UNCHANGED proved
    PROVE  /\ flow[f].host \in Hosts /\ flow[f].creds \in Passwords /\ flow[f].tag \in Devices
           /\ flow[f].entry \in Entries \cup {None}
           /\ <<flow[f].tag, flow[f].host, flow[f].creds>> \in proved
           /\ flow' \in [Flows -> {NoFlow} \cup Forms] /\ Answered'
<1>1. flow[f].tag # None /\ FlowEnds(f)
  BY DEF Returned
<1>2. flow[f] # NoFlow
  BY <1>1 DEF NoFlow
<1>3. flow' \in [Flows -> {NoFlow} \cup Forms] /\ Answered'
  BY <1>1, FlowEndsOK
<1>4. <<flow[f].tag, flow[f].host, flow[f].creds>> \in proved
  BY <1>1 DEF EInv, Answered
<1>. QED
  BY <1>1, <1>2, <1>3, <1>4, FormFacts

LEMMA ProbeKnownPreserves ==
    ASSUME EInv, NEW f \in Flows, ProbeKnown(f)
    PROVE  EInv'
<1>1. PICK e \in Known(f) :
         Updates(e, [data[e] EXCEPT !.host = flow[f].host, !.creds = flow[f].creds],
                 IF st[e] \in {"loaded", "retry"} THEN 1 ELSE 0)
  BY DEF ProbeKnown
<1>. DEFINE new == [data[e] EXCEPT !.host = flow[f].host, !.creds = flow[f].creds]
            more == IF st[e] \in {"loaded", "retry"} THEN 1 ELSE 0
<1>2. UNCHANGED <<proved, reauth>>
  BY <1>1 DEF Updates, ProbeKnown
<1>3. /\ flow[f].host \in Hosts /\ flow[f].creds \in Passwords
      /\ <<flow[f].tag, flow[f].host, flow[f].creds>> \in proved
      /\ flow' \in [Flows -> {NoFlow} \cup Forms] /\ Answered'
  BY <1>2, ReturnedFacts DEF ProbeKnown
<1>4. e \in Existing /\ e \in Entries /\ data[e].tag = flow[f].tag
  BY DEF Known, Existing
<1>5. /\ new \in Datas /\ new.tag = data[e].tag /\ more \in Nat
      /\ new.host = flow[f].host /\ new.creds = flow[f].creds
  BY <1>3, <1>4 DEF EInv, ETyped, Datas
<1>6. Updates(e, new, more)
  BY <1>1
<1>. HIDE DEF new, more
<1>7. Proved(new)
  BY <1>3, <1>4, <1>5 DEF Proved
<1>. QED
  BY <1>2, <1>3, <1>4, <1>5, <1>6, <1>7, UpdatesOK

LEMMA ProbeReauthPreserves ==
    ASSUME EInv, NEW f \in Flows, ProbeReauth(f)
    PROVE  EInv'
<1>. DEFINE e == flow[f].entry
            new == [data[e] EXCEPT !.creds = flow[f].creds]
<1>1. e \in Existing /\ e \in Entries /\ Returned(f, "reauth")
  BY DEF ProbeReauth, Existing
<1>2. UNCHANGED proved
  BY DEF ProbeReauth, Updates
<1>3. /\ flow[f].host \in Hosts /\ flow[f].creds \in Passwords
      /\ <<flow[f].tag, flow[f].host, flow[f].creds>> \in proved
      /\ flow' \in [Flows -> {NoFlow} \cup Forms] /\ Answered'
  BY <1>1, <1>2, ReturnedFacts
<1>4. CASE ReauthMatches(f)
  <2>1. Updates(e, new, 1) /\ reauth' = reauth \ {e} /\ data[e].tag = flow[f].tag
    BY <1>4 DEF ProbeReauth, ReauthMatches
  <2>2. data[e].host \in Hosts /\ Proved(data[e])
    BY <1>1, DataFacts DEF Existing
  <2>3. data[e] \in Datas
    BY <1>1 DEF EInv, ETyped
  <2>. HIDE DEF e
  <2>4. /\ new \in Datas /\ new.tag = data[e].tag /\ new.host = data[e].host
        /\ new.creds = flow[f].creds
    BY <1>3, <2>3 DEF Datas
  <2>. HIDE DEF new
  <2>5. Proved(new)
    BY <1>3, <2>1, <2>2, <2>4 DEF Proved
  <2>. QED
    BY <1>1, <1>3, <2>1, <2>2, <2>4, <2>5, UpdatesOK
<1>5. CASE ~ReauthMatches(f)
  <2>1. UNCHANGED Unflowed
    BY <1>5 DEF ProbeReauth
  <2>. QED
    BY <1>2, <1>3, <2>1, FlowOnly
<1>. QED
  BY <1>4, <1>5

(* An entry is made only for a device that none is known for.               *)
LEMMA ProbeNewPreserves ==
    ASSUME EInv, NEW f \in Flows, ProbeNew(f)
    PROVE  EInv'
<1>. DEFINE new == [tag |-> flow[f].tag, host |-> flow[f].host, creds |-> flow[f].creds,
                    interval |-> 0]
<1>1. /\ UNCHANGED <<at, secret, after, pending, reauth, services, runtime, devreg, hot, proved>>
      /\ Known(f) = {} /\ Returned(f, "user")
  BY DEF ProbeNew, net
<1>2. /\ flow[f].host \in Hosts /\ flow[f].creds \in Passwords /\ flow[f].tag \in Devices
      /\ <<flow[f].tag, flow[f].host, flow[f].creds>> \in proved
      /\ flow' \in [Flows -> {NoFlow} \cup Forms] /\ Answered'
  BY <1>1, ReturnedFacts
<1>3. PICK e \in Entries \ Existing : data' = [data EXCEPT ![e] = new] /\ Begins(e)
  BY DEF ProbeNew
<1>4. /\ new \in Datas /\ new.tag = flow[f].tag /\ new.host = flow[f].host
      /\ new.creds = flow[f].creds
  BY <1>2 DEF Datas, Intervals
<1>. HIDE DEF new
<1>5. /\ data' \in [Entries -> Datas] /\ data'[e] = new
      /\ \A u \in Entries \ {e} : data'[u] = data[u]
  BY <1>3, <1>4 DEF EInv, ETyped
<1>6. st[e] = "absent" /\ e \notin hot
  BY <1>3 DEF Existing, EInv, EntryOK, Cools
<1>7. Begun(e)
  BY <1>3, <1>5, <1>6, BeginsEffect DEF EInv
<1>8. ETyped'
  BY <1>1, <1>2, <1>5, <1>7 DEF EInv, ETyped, Begun
<1>9. \A u \in Entries \ {e} : Same(u)
  BY <1>1, <1>5, <1>7 DEF Same, Begun
<1>10. Proved(data[e])'
  BY <1>1, <1>2, <1>4, <1>5 DEF Proved
<1>11. EntryOK(e)'
  BY <1>1, <1>2, <1>4, <1>5, <1>6, <1>7, <1>8, <1>10, BegunOK
<1>12. \A u \in Entries : EntryOK(u)'
  BY <1>1, <1>9, <1>11, SameOK DEF EInv
<1>13. OneEntryPerDevice'
  <2>1. \A u \in Existing : data[u].tag # flow[f].tag
    BY <1>1 DEF Known
  <2>2. Existing' = Existing \cup {e}
    BY <1>3, <1>7, <1>9 DEF Existing, Same, Begun
  <2>3. \A u \in Existing : u # e /\ data'[u].tag = data[u].tag /\ data'[u].tag # flow[f].tag
    BY <1>5, <1>6, <2>1 DEF Existing
  <2>. QED
    BY <1>4, <1>5, <2>2, <2>3 DEF EInv, OneEntryPerDevice
<1>14. ServicesWhileLoaded' /\ (reauth \subseteq Existing)'
  <2>1. \A u \in Entries : u # e => st'[u] = st[u]
    BY <1>9 DEF Same
  <2>2. st'[e] = "connecting"
    BY <1>7 DEF Begun
  <2>. QED
    BY <1>1, <2>1, <2>2 DEF EInv, ServicesWhileLoaded, Existing
<1>. QED
  BY <1>2, <1>8, <1>12, <1>13, <1>14 DEF EInv

-----------------------------------------------------------------------------
(* The network                                                             *)

(* An entry whose connection is lost is what it was but for that.           *)
LEMMA LosePreserves ==
    ASSUME EInv, NEW lost \in SUBSET Entries, Lose(lost),
           \A e \in lost : run[e].link # None, at' \in [Hosts -> Devices \cup {None}],
           secret' = secret, UNCHANGED Elsewhere
    PROVE  EInv'
<1>1. run' = [e \in Entries |-> IF e \in lost THEN [run[e] EXCEPT !.link = None] ELSE run[e]]
  BY DEF Lose
<1>2. UNCHANGED <<data, st, after, pending, reauth, services, runtime, busy, devreg, flow, hot,
                  missed, cause, left, proved>>
  BY DEF Elsewhere, hist, care
<1>3. \A e \in Entries :
         /\ run'[e] \in Runs
         /\ run'[e].host = run[e].host /\ run'[e].creds = run[e].creds
         /\ run'[e].interval = run[e].interval /\ run'[e].dev = run[e].dev
         /\ run'[e].closed = run[e].closed
         /\ run'[e].link # None => run'[e].link = run[e].link
         /\ run[e] = NoRun => run'[e] = NoRun
         /\ run'[e] # NoRun => run[e] # NoRun
  BY <1>1, NothingTyped DEF EInv, ETyped, Runs
<1>4. run' \in [Entries -> Runs]
  BY <1>1, <1>3
<1>5. ETyped'
  BY <1>2, <1>4 DEF EInv, ETyped
<1>6. \A e \in Entries : Shaped(e)'
  BY <1>2, <1>3 DEF EInv, EntryOK, Shaped
<1>7. \A e \in Entries : Tracks(e)' /\ Cools(e)'
  BY <1>2, <1>3 DEF EInv, EntryOK, Tracks, Current, Cools
<1>8. \A e \in Entries : Cared(e)' /\ Steady(e)'
  BY <1>2, <1>3 DEF EInv, EntryOK, Cared, Steady, Usable
<1>9. \A e \in Entries : Sourced(e)'
  BY <1>2 DEF EInv, EntryOK, Sourced, Proved
<1>10. ServicesWhileLoaded' /\ OneEntryPerDevice' /\ (reauth \subseteq Existing)'
  BY <1>2 DEF EInv, ServicesWhileLoaded, OneEntryPerDevice, Existing
<1>11. Answered'
  BY <1>2, SameAnswered DEF EInv
<1>. QED
  BY <1>5, <1>6, <1>7, <1>8, <1>9, <1>10, <1>11 DEF EInv, EntryOK

LEMMA LostPreserves ==
    ASSUME EInv, NEW e \in Entries, Lost(e)
    PROVE  EInv'
<1>1. {e} \in SUBSET Entries /\ at' \in [Hosts -> Devices \cup {None}]
  BY DEF Lost, net, EInv, ETyped
<1>. QED
  BY <1>1, LosePreserves DEF Lost, net

LEMMA MovePreserves ==
    ASSUME EInv, NEW d \in Devices, NEW h \in Hosts, Move(d, h)
    PROVE  EInv'
<1>. DEFINE lost == {e \in Entries : run[e].link \in {d, at[h]} /\ run[e].link # None}
<1>1. lost \in SUBSET Entries /\ \A e \in lost : run[e].link # None
  OBVIOUS
<1>2. Lose(lost)
  <2>1. Lose({e \in Entries : run[e].link \in {d, at[h]}})
    BY DEF Move
  <2>2. \A e \in Entries : run[e].link = None => [run[e] EXCEPT !.link = None] = run[e]
    BY DEF EInv, ETyped, Runs
  <2>. QED
    BY <2>1, <2>2 DEF Lose
<1>3. at' \in [Hosts -> Devices \cup {None}]
  BY DEF Move, EInv, ETyped
<1>. HIDE DEF lost
<1>. QED
  BY <1>1, <1>2, <1>3, LosePreserves DEF Move

LEMMA ChangePasswordPreserves ==
    ASSUME EInv, NEW d \in Devices, ChangePassword(d)
    PROVE  EInv'
<1>1. UNCHANGED <<at, data, st, after, pending, reauth, services, run, runtime, busy, devreg, flow,
                  hot, missed, cause, left, proved>>
  BY DEF ChangePassword, Elsewhere, hist, care
<1>2. secret' \in [Devices -> Passwords]
  BY DEF ChangePassword, EInv, ETyped, Passwords
<1>3. ETyped'
  BY <1>1, <1>2 DEF EInv, ETyped
<1>4. \A u \in Entries : EntryOK(u)'
  BY <1>1, SameOK DEF EInv, Same
<1>5. (reauth \subseteq Existing)' /\ ServicesWhileLoaded' /\ OneEntryPerDevice' /\ Answered'
  BY <1>1, SameAnswered DEF EInv, ServicesWhileLoaded, OneEntryPerDevice, Existing
<1>. QED
  BY <1>3, <1>4, <1>5 DEF EInv

-----------------------------------------------------------------------------
(* The invariant holds initially, and every step preserves it.              *)
LEMMA EInvInit == Init => EInv
<1>. SUFFICES ASSUME Init PROVE EInv
  OBVIOUS
<1>1. PICK host \in [Entries -> Hosts \cup {None}] :
         /\ \A e, f \in Entries : host[e] = host[f] /\ host[e] # None => e = f
         /\ data = [e \in Entries |-> IF host[e] = None THEN NoData
                    ELSE [tag |-> at[host[e]], host |-> host[e], creds |-> 0, interval |-> 0]]
         /\ st = [e \in Entries |-> IF host[e] = None THEN "absent" ELSE "retry"]
         /\ proved = {<<at[host[e]], host[e], 0>> : e \in {f \in Entries : host[f] # None}}
         /\ devreg = [d \in Devices |-> {e \in Entries : host[e] # None /\ at[host[e]] = d}]
  BY DEF Init
<1>2. /\ at \in [Hosts -> Devices] /\ \A h, k \in Hosts : at[h] = at[k] => h = k
      /\ secret = [d \in Devices |-> 0] /\ services = FALSE /\ reauth = {} /\ hot = {} /\ missed = {}
      /\ after = [e \in Entries |-> "idle"] /\ pending = [e \in Entries |-> 0]
      /\ run = [e \in Entries |-> NoRun] /\ flow = [f \in Flows |-> NoFlow]
      /\ runtime = [e \in Entries |-> None] /\ busy = {} /\ cause = [e \in Entries |-> "none"]
      /\ left = {}
  BY DEF Init
<1>3. \A e \in Entries : host[e] # None => host[e] \in Hosts /\ at[host[e]] \in Devices
  BY <1>2
<1>4. st \in [Entries -> States]
  BY <1>1, StatesTyped
<1>5. data \in [Entries -> Datas]
  BY <1>1, <1>3, NothingTyped DEF Datas, Passwords, Intervals
<1>6. devreg \in [Devices -> SUBSET Entries]
  BY <1>1
<1>7. ETyped
  BY <1>2, <1>4, <1>5, <1>6, NothingTyped DEF ETyped, Passwords, Causes
<1>8. \A e \in Entries : EntryOK(e)
  <2>1. ASSUME NEW e \in Entries
        PROVE  /\ st[e] \in {"absent", "retry"} /\ run[e] = NoRun
               /\ e \notin hot /\ e \notin busy /\ <<e, "none">> \notin left
    BY <1>1, <1>2
  <2>2. ASSUME NEW e \in Entries PROVE Shaped(e) /\ Sourced(e)
    <3>1. CASE host[e] = None
      BY <1>1, <2>1, <3>1 DEF Shaped, Live, Unloading, Sourced
    <3>2. CASE host[e] # None
      <4>1. /\ st[e] = "retry" /\ data[e].tag = at[host[e]] /\ data[e].host = host[e]
            /\ data[e].creds = 0 /\ host[e] \in Hosts /\ at[host[e]] \in Devices
        BY <1>1, <1>3, <3>2
      <4>2. data[e] # NoData
        BY <4>1, EntryAssumption DEF NoData
      <4>3. <<at[host[e]], host[e], 0>> \in proved
        BY <1>1, <3>2
      <4>4. Sourced(e)
        BY <4>1, <4>3 DEF Sourced, Proved, Passwords
      <4>. QED
        BY <2>1, <4>1, <4>2, <4>4 DEF Shaped, Live, Unloading
    <3>. QED
      BY <3>1, <3>2
  <2>3. ASSUME NEW e \in Entries PROVE Tracks(e) /\ Cools(e) /\ Cared(e) /\ Steady(e)
    BY <2>1, NothingTyped DEF Tracks, Cools, Cared, Steady, Usable, SettingUp
  <2>. QED
    BY <2>2, <2>3 DEF EntryOK
<1>9. OneEntryPerDevice
  <2>1. ASSUME NEW e \in Existing PROVE e \in Entries /\ host[e] # None /\ data[e].tag = at[host[e]]
    BY <1>1 DEF Existing
  <2>. QED
    BY <1>1, <1>2, <1>3, <2>1 DEF OneEntryPerDevice
<1>10. ServicesWhileLoaded /\ reauth \subseteq Existing
  BY <1>1, <1>2 DEF ServicesWhileLoaded
<1>11. Answered
  BY <1>2 DEF Answered, NoFlow
<1>. QED
  BY <1>7, <1>8, <1>9, <1>10, <1>11 DEF EInv

LEMMA EInvNext == EInv /\ [Next]_vars => EInv'
<1>. SUFFICES ASSUME EInv, [Next]_vars PROVE EInv'
  OBVIOUS
<1>1. CASE UNCHANGED vars
  <2>1. UNCHANGED <<at, secret, data, st, after, pending, reauth, services, run, runtime, busy,
                    devreg, flow, hot, missed, cause, left, proved>>
    BY <1>1 DEF vars, net, hist, care
  <2>2. UNCHANGED Unflowed /\ flow' \in [Flows -> {NoFlow} \cup Forms] /\ Answered'
    BY <2>1, SameAnswered DEF Unflowed, net, care, EInv, ETyped
  <2>. QED
    BY <2>1, <2>2, FlowOnly
<1>2. ASSUME NEW e \in Entries,
             \/ Retry(e) \/ Setup(e) \/ Call(e) \/ CallEnds(e)
             \/ StartReload(e) \/ UnloadRefused(e) \/ ClosePlatforms(e) \/ Unloaded(e)
             \/ \E then \in {"idle", "absent"} : StartUnload(e, then)
             \/ Remove(e) \/ AskReload(e) \/ Lost(e)
             \/ \E i \in Intervals : SetOptions(e, i)
      PROVE  EInv'
  BY <1>2, RetryPreserves, SetupPreserves, CallPreserves, CallEndsPreserves, StartReloadPreserves,
     UnloadRefusedPreserves, ClosePlatformsPreserves, UnloadedPreserves, StartUnloadPreserves,
     RemovePreserves, AskReloadPreserves, LostPreserves, SetOptionsPreserves
<1>3. ASSUME NEW f \in Flows,
             \/ \E h \in Hosts, p \in Passwords : SubmitUser(f, h, p)
             \/ \E e \in Entries, p \in Passwords : SubmitReauth(f, e, p)
             \/ Flow(f)
      PROVE  EInv'
  <2>1. ASSUME NEW h \in Hosts, NEW p \in Passwords, SubmitUser(f, h, p) PROVE EInv'
    BY <2>1, SubmitPreserves DEF SubmitUser
  <2>2. Flow(f) => EInv'
    BY ProbedPreserves, FlowFailsPreserves, ProbeKnownPreserves, ProbeNewPreserves,
       ProbeReauthPreserves DEF Flow
  <2>. QED
    BY <1>3, <2>1, <2>2, SubmitReauthPreserves
<1>4. ASSUME NEW d \in Devices, ChangePassword(d) \/ \E h \in Hosts : Move(d, h)
      PROVE  EInv'
  BY <1>4, ChangePasswordPreserves, MovePreserves
<1>. QED
  BY <1>1, <1>2, <1>3, <1>4, Zenon DEF Next

LEMMA EInvAlways == Spec => []EInv
BY EInvInit, EInvNext, PTL DEF Spec

-----------------------------------------------------------------------------
(* Theorems                                                                *)

(* Of every entry, what Home Assistant knows, what runs and what the          *)
(* registries hold agree.                                                  *)
THEOREM EntriesTyped == Spec => []EntryTypeOK
<1>1. EInv => EntryTypeOK
  BY DEF EInv, ETyped, EntryOK, Shaped, EntryTypeOK
<1>. QED
  BY <1>1, EInvAlways, PTL

(* The services are there for whoever is loaded (__init__.py:83,             *)
(* services.py:177-190).                                                   *)
THEOREM ServicesStay == Spec => []ServicesWhileLoaded
<1>1. EInv => ServicesWhileLoaded
  BY DEF EInv
<1>. QED
  BY <1>1, EInvAlways, PTL

(* Flows that race at any addresses never make two entries for one device    *)
(* (config_flow.py:135-138).                                               *)
THEOREM NoTwoEntries == Spec => []OneEntryPerDevice
<1>1. EInv => OneEntryPerDevice
  BY DEF EInv
<1>. QED
  BY <1>1, EInvAlways, PTL

(* What runs is what the entry says, unless a reload is due or the change     *)
(* was made while the entry was being set up (__init__.py:79, 96-98).        *)
THEOREM OptionsCatchUp == Spec => []StaleOnlyFromSetup
<1>1. EInv => StaleOnlyFromSetup
  BY DEF EInv, EntryOK, Tracks, StaleOnlyFromSetup
<1>. QED
  BY <1>1, EInvAlways, PTL

(* A connection that nobody is left to close is due to an aborted set-up,     *)
(* platforms that refused to go, or a call that outlived its client          *)
(* (__init__.py:57-77, coordinator.py:64-67, client.py:473-483).             *)
THEOREM LeftoversHaveCauses == Spec => []LeftHasCause
<1>1. EInv => LeftHasCause
  BY DEF EInv, EntryOK, Cared, LeftHasCause
<1>. QED
  BY <1>1, EInvAlways, PTL

(* Whatever addresses change hands, and though a client that was closed logs  *)
(* in once more, a usable connection found by the tag of a device is to that  *)
(* device; and the device of a loaded entry is found, unless it is listed     *)
(* under another entry that is not loaded (services.py:95-118,               *)
(* transport.py:167).                                                      *)
THEOREM ServicesReachDevices == Spec => []ServiceReachesDevice
<1>1. ASSUME EInv PROVE ServiceReachesDevice
  <2>1. ASSUME NEW d \in Devices, NEW e \in CoordinatorsFor(d), st[e] \in Live, Usable(e)
        PROVE  run[e].link = d
    <3>1. e \in Entries /\ runtime[e] = d
      BY <1>1, <2>1 DEF CoordinatorsFor, EInv, ETyped
    <3>2. run[e].dev = d /\ run[e].dev # None
      BY <1>1, <2>1, <3>1 DEF EInv, EntryOK, Shaped
    <3>. QED
      BY <1>1, <2>1, <3>1, <3>2 DEF EInv, EntryOK, Steady
  <2>2. ASSUME NEW d \in Devices, NEW e \in Entries, st[e] = "loaded", run[e].dev = d, MayFail(d)
        PROVE  \E f \in devreg[d] \ {e} : st[f] \notin Live
    <3>1. e \in CoordinatorsFor(d)
      BY <1>1, <2>2 DEF CoordinatorsFor, EInv, EntryOK, Shaped, Live
    <3>2. PICK f \in devreg[d] : runtime[f] = None
      BY <2>2, <3>1 DEF MayFail
    <3>3. f \in Entries /\ Shaped(f)
      BY <1>1 DEF EInv, ETyped, EntryOK
    <3>4. st[f] \notin Live
      BY <3>2, <3>3 DEF Shaped
    <3>5. st[e] \in Live
      BY <2>2 DEF Live
    <3>. QED
      BY <3>2, <3>4, <3>5
  <2>. QED
    BY <2>1, <2>2 DEF ServiceReachesDevice
<1>. QED
  BY <1>1, EInvAlways, PTL

(* Whatever moves or is typed between a form, its probe and its update, an     *)
(* entry's address is one its own device has answered at, and its password    *)
(* one that device has let a probe in with (config_flow.py:86-101, 135-138,  *)
(* 174-183).                                                               *)
THEOREM OnlyProbed == Spec => []OnlyProbedData
<1>1. EInv => OnlyProbedData
  BY DEF EInv, EntryOK, Sourced, Proved, OnlyProbedData, Existing
<1>. QED
  BY <1>1, EInvAlways, PTL

(* An entry whose set-up was refused is not refused again before a user steps  *)
(* in, though every set-up has a budget of its own (__init__.py:60-62).      *)
THEOREM RefusalsAreSpaced == Spec => RefusalsSpaced
<1>1. ASSUME EInv, NEW e \in Entries, SetupRefused(e) PROVE e \notin hot
  BY <1>1 DEF EInv, EntryOK, Cools, SetupRefused
<1>2. EInv /\ [Next]_vars => [\A e \in Entries : SetupRefused(e) => e \notin hot]_vars
  BY <1>1
<1>. QED
  BY <1>2, EInvAlways, PTL DEF Spec, RefusalsSpaced

=============================================================================
