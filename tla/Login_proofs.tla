---------------------------- MODULE Login_proofs ----------------------------
(***************************************************************************)
(* Invariants of Login, for any timeout, any number of connections and of   *)
(* lines that other tasks send: one session, one verdict of the device on   *)
(* each, no command typed at a prompt, and the time a login may take.       *)
(*                                                                         *)
(* The second part is about what a login tells its caller, however the      *)
(* device's words are cut into chunks: its outcome is what the device       *)
(* decided, a session that is accepted is clean, and a login times out only *)
(* in silence.                                                             *)
(***************************************************************************)
EXTENDS Login, FiniteSetTheorems, SequenceTheorems, TLAPS

Typed  == {"username", "password", "exit", "command", "firmware"}
Devices == [stage : Stages, inbox : Seq(Typed), said : SUBSET Words, verdicts : Nat]

TInv ==
    /\ LoginTypeOK
    /\ peer \in [Conns -> Devices]
    /\ spent \in Nat

(* Connections are numbered in the order they are made.                    *)
NInv ==
    /\ Made \in 0 .. MaxConns
    /\ \A c \in Conns : /\ c <= Made => peer[c].stage # "none"
                        /\ peer[c].stage = "none" \/ c <= Made

(* What is open is what is held, and nothing is held when one is opened.    *)
LInv ==
    /\ conn <= Made /\ open \subseteq {conn} \ {0}
    /\ pc = "opening" => conn = 0 /\ Made < MaxConns /\ ~handle
    /\ pc = "closing" => Made < MaxConns
    /\ pc \in {"closing", "raising"} => handle
    /\ pc = "idle" /\ outcome = "none" => conn = 0
    /\ pc \in Prompts => kind = "telnet"
    /\ pc \in {"process", "prime"} => kind = "ssh"
    /\ conn = 0 => stream = <<>>
    /\ pc \in {"idle", "closing", "opening", "raising"} => buf = <<>>
    /\ pc # "idle" /\ outcome # "none" => closed

(* The time spent and the time to the deadline, together.                  *)
Allowed == IF pc \in {"idle", "closing", "raising"} THEN 0
           ELSE IF pc \in {"opening", "process"} THEN 1
           ELSE IF pc \in {"user", "prime"} THEN 2
           ELSE IF pc = "pass" THEN 3 ELSE 4

BInv == spent + left <= Allowed * Timeout

(* Lines a device at its prompts has been sent since it greeted, of which    *)
(* every second is judged.                                                 *)
Asking(c)  == peer[c].stage \in {"new", "user", "pass"}
Reached(c) == peer[c].stage \in {"shell", "gone"}
Count(v, stage, n) == 2 * v + (IF stage = "pass" THEN 1 ELSE 0) + n
Lines(c) == Count(peer[c].verdicts, peer[c].stage, Len(peer[c].inbox))
Quota(c) == IF c # conn THEN 3
            ELSE IF pc = "user" THEN 0 ELSE IF pc = "pass" THEN 1 ELSE 2

SaysOk(text) == \E i \in 1 .. Len(text) : text[i][1] = "Ok"

NoCommandIn(inbox) == \A i \in 1 .. Len(inbox) : inbox[i] # "command"

Sound(c) == c \notin aborted =>
    /\ ~Asking(c) => peer[c].verdicts <= 1
    /\ Asking(c) => Lines(c) <= Quota(c) /\ NoCommandIn(peer[c].inbox)

VInv ==
    /\ kind = "ssh" => \A c \in Conns : ~Asking(c)
    /\ conn # 0 /\ (SaysOk(stream) \/ SaysOk(buf)) => Reached(conn)
    /\ conn # 0 /\ pc \notin Prompts => Reached(conn) \/ conn \in aborted
    /\ \A c \in Conns : Sound(c)

IInv == TInv /\ NInv /\ LInv /\ BInv /\ VInv

USE LoginAssumption

-----------------------------------------------------------------------------
(* What the operators of Login yield                                        *)

(* A word is two pieces.                                                    *)
LEMMA SaidTyped ==
    ASSUME NEW words \in Seq(Words)
    PROVE  /\ Said(words) \in Seq(Pieces)
           /\ \A i \in 1 .. Len(Said(words)) :
                \E j \in DOMAIN words : Said(words)[i][1] = words[j]
<1>1. Len(words) \in Nat /\ DOMAIN words = 1 .. Len(words)
  BY LenProperties
<1>2. ASSUME NEW i \in 1 .. 2 * Len(words)
      PROVE  (i + 1) \div 2 \in 1 .. Len(words)
  BY <1>1
<1>3. \A j \in 1 .. Len(words) : words[j] \in Words
  BY ElementOfSeq
<1>4. \A i \in 1 .. 2 * Len(words) : Said(words)[i] \in Pieces /\ Said(words)[i][1] = words[(i + 1) \div 2]
  BY <1>2, <1>3 DEF Said, Pieces
<1>5. Said(words) = [i \in 1 .. 2 * Len(words) |-> Said(words)[i]]
  BY DEF Said
<1>6. 2 * Len(words) \in Nat
  BY <1>1
<1>7. Said(words) \in Seq(Pieces) /\ Len(Said(words)) = 2 * Len(words)
  BY <1>4, <1>5, <1>6
<1>. QED
  BY <1>1, <1>2, <1>4, <1>7

(* Pieces of a text cut out of another.                                     *)
LEMMA PartsTyped ==
    ASSUME NEW text \in Seq(Pieces), NEW n \in 0 .. Len(text)
    PROVE  /\ SubSeq(text, 1, n) \in Seq(Pieces)
           /\ SubSeq(text, n + 1, Len(text)) \in Seq(Pieces)
           /\ SaysOk(SubSeq(text, 1, n)) => SaysOk(text)
           /\ SaysOk(SubSeq(text, n + 1, Len(text))) => SaysOk(text)
<1>1. Len(text) \in Nat /\ n \in Nat
  BY LenProperties
<1>2. \A j \in 1 .. Len(text) : text[j] \in Pieces
  BY ElementOfSeq
<1>3. /\ SubSeq(text, 1, n) \in Seq(Pieces) /\ Len(SubSeq(text, 1, n)) = n
      /\ \A i \in 1 .. n : SubSeq(text, 1, n)[i] = text[i]
  BY <1>1, <1>2, SubSeqProperties
<1>4. /\ SubSeq(text, n + 1, Len(text)) \in Seq(Pieces)
      /\ Len(SubSeq(text, n + 1, Len(text))) = Len(text) - n
      /\ \A i \in 1 .. Len(text) - n : SubSeq(text, n + 1, Len(text))[i] = text[n + i]
  BY <1>1, <1>2, SubSeqProperties
<1>. QED
  BY <1>1, <1>3, <1>4 DEF SaysOk

LEMMA JoinTyped ==
    ASSUME NEW s \in Seq(Pieces), NEW t \in Seq(Pieces)
    PROVE  s \o t \in Seq(Pieces) /\ (SaysOk(s \o t) => SaysOk(s) \/ SaysOk(t))
<1>1. /\ s \o t \in Seq(Pieces) /\ Len(s \o t) = Len(s) + Len(t)
      /\ \A i \in 1 .. Len(s) + Len(t) :
            (s \o t)[i] = IF i <= Len(s) THEN s[i] ELSE t[i - Len(s)]
  BY ConcatProperties
<1>2. Len(s) \in Nat /\ Len(t) \in Nat
  BY LenProperties
<1>. QED
  BY <1>1, <1>2 DEF SaysOk

LEMMA EmptyTyped == <<>> \in Seq(Pieces) /\ <<>> \in Seq(Typed) /\ Len(<<>>) = 0 /\ ~SaysOk(<<>>)
BY EmptySeq DEF SaysOk

(* How many there are of the first n.                                       *)
LEMMA Numbered ==
    ASSUME NEW f, NEW n \in 0 .. MaxConns,
           \A c \in Conns : /\ c <= n => f[c].stage # "none"
                            /\ f[c].stage = "none" \/ c <= n
    PROVE  Cardinality({c \in Conns : f[c].stage # "none"}) = n
<1>1. {c \in Conns : f[c].stage # "none"} = 1 .. n
  BY DEF Conns
<1>2. Cardinality(1 .. n) = n
  BY FS_Interval
<1>. QED
  BY <1>1, <1>2

-----------------------------------------------------------------------------
(* The table of connections                                                 *)

(* A step that makes no connection.                                         *)
LEMMA NoneMade ==
    ASSUME NInv, \A c \in Conns : /\ peer'[c].stage = "none" => peer[c].stage = "none"
                                  /\ peer[c].stage = "none" => peer'[c].stage = "none"
    PROVE  Made' = Made /\ NInv'
<1>1. \A c \in Conns : /\ c <= Made => peer'[c].stage # "none"
                       /\ peer'[c].stage = "none" \/ c <= Made
  BY DEF NInv
<1>2. Made \in 0 .. MaxConns
  BY DEF NInv
<1>3. Cardinality({c \in Conns : peer'[c].stage # "none"}) = Made
  BY <1>1, <1>2, Numbered
<1>4. Made' = Made
  BY <1>3 DEF Made, Conns
<1>. QED
  BY <1>1, <1>2, <1>4 DEF NInv

(* A step that makes one.                                                   *)
LEMMA OneMade ==
    ASSUME TInv, NInv, Made < MaxConns,
           NEW stage \in Stages \ {"none"}, NEW said \in SUBSET Words, NEW v \in 0 .. 1,
           New(stage, said, v)
    PROVE  /\ Made + 1 \in Conns
           /\ peer' \in [Conns -> Devices]
           /\ peer'[Made + 1] = [stage |-> stage, inbox |-> <<>>, said |-> said, verdicts |-> v]
           /\ \A c \in Conns : c # Made + 1 => peer'[c] = peer[c]
           /\ Made' = Made + 1 /\ NInv'
<1>1. Made \in 0 .. MaxConns /\ Made + 1 \in Conns /\ Made + 1 \in 0 .. MaxConns
  BY DEF NInv, Conns
<1>2. /\ peer'[Made + 1] = [stage |-> stage, inbox |-> <<>>, said |-> said, verdicts |-> v]
      /\ \A c \in Conns : c # Made + 1 => peer'[c] = peer[c]
  BY <1>1 DEF TInv, New
<1>3. peer' \in [Conns -> Devices]
  BY <1>1, EmptyTyped DEF TInv, New, Devices
<1>4. \A c \in Conns : /\ c <= Made + 1 => peer'[c].stage # "none"
                       /\ peer'[c].stage = "none" \/ c <= Made + 1
  BY <1>1, <1>2 DEF NInv, Conns
<1>5. Cardinality({c \in Conns : peer'[c].stage # "none"}) = Made + 1
  BY <1>1, <1>4, Numbered
<1>6. Made' = Made + 1
  BY <1>5 DEF Made, Conns
<1>. QED
  BY <1>1, <1>2, <1>3, <1>4, <1>6 DEF NInv

(* A line written to the connection held.                                   *)
LEMMA SentFacts ==
    ASSUME TInv, NEW text \in Typed
    PROVE  /\ Sent(text) \in [Conns -> Devices]
           /\ \A c \in Conns : /\ Sent(text)[c].stage = peer[c].stage
                               /\ Sent(text)[c].verdicts = peer[c].verdicts
                               /\ c # conn => Sent(text)[c] = peer[c]
           /\ conn \in Conns =>
                /\ Len(Sent(text)[conn].inbox) = Len(peer[conn].inbox) + 1
                /\ text # "command" /\ NoCommandIn(peer[conn].inbox)
                     => NoCommandIn(Sent(text)[conn].inbox)
<1>1. CASE conn \notin Conns
  BY <1>1 DEF TInv, Sent
<1>2. CASE conn \in Conns
  <2>1. peer[conn] \in Devices /\ peer[conn].inbox \in Seq(Typed)
    BY <1>2 DEF TInv, Devices
  <2>2. /\ Append(peer[conn].inbox, text) \in Seq(Typed)
        /\ Len(Append(peer[conn].inbox, text)) = Len(peer[conn].inbox) + 1
        /\ \A i \in 1 .. Len(peer[conn].inbox) :
              Append(peer[conn].inbox, text)[i] = peer[conn].inbox[i]
        /\ Append(peer[conn].inbox, text)[Len(peer[conn].inbox) + 1] = text
    BY <2>1, AppendProperties
  <2>3. Sent(text)[conn].inbox = Append(peer[conn].inbox, text)
    <3>1. conn # 0
      BY <1>2 DEF Conns
    <3>. QED
      BY <1>2, <2>1, <3>1 DEF TInv, Sent, Devices
  <2>4. Len(peer[conn].inbox) \in Nat
    BY <2>1, LenProperties
  <2>5. text # "command" /\ NoCommandIn(peer[conn].inbox) => NoCommandIn(Sent(text)[conn].inbox)
    BY <2>2, <2>3, <2>4 DEF NoCommandIn
  <2>6. /\ Sent(text) \in [Conns -> Devices]
        /\ \A c \in Conns : /\ Sent(text)[c].stage = peer[c].stage
                            /\ Sent(text)[c].verdicts = peer[c].verdicts
                            /\ c # conn => Sent(text)[c] = peer[c]
    BY <1>2, <2>2 DEF TInv, Sent, Devices
  <2>. QED
    BY <2>2, <2>3, <2>5, <2>6
<1>. QED
  BY <1>1, <1>2

LEMMA CountFacts ==
    ASSUME NEW v \in Nat, NEW stage, NEW n \in Nat, NEW m \in Nat
    PROVE  /\ Count(v, stage, n) \in Nat /\ Count(v, stage, n) >= 2 * v + n
           /\ m <= n + 1 => Count(v, stage, m) <= Count(v, stage, n) + 1
<1>1. CASE stage = "pass"
  BY <1>1 DEF Count
<1>2. CASE stage # "pass"
  BY <1>2 DEF Count
<1>. QED
  BY <1>1, <1>2

(* What one connection is typed, counted.                                   *)
LEMMA LinesTyped ==
    ASSUME TInv, NEW c \in Conns
    PROVE  Len(peer[c].inbox) \in Nat /\ peer[c].verdicts \in Nat /\ Lines(c) \in Nat
<1>1. peer[c] \in Devices
  BY DEF TInv
<1>2. peer[c].inbox \in Seq(Typed) /\ peer[c].verdicts \in Nat
  BY <1>1 DEF Devices
<1>. QED
  BY <1>2, LenProperties, CountFacts DEF Lines

-----------------------------------------------------------------------------
(* close()                                                                  *)

LEMMA ClosingStep ==
    ASSUME IInv, Closing, UNCHANGED <<kind, aborted>>
    PROVE  /\ peer' \in [Conns -> Devices] /\ closed' = TRUE
           /\ conn' = 0 /\ proc' = FALSE /\ stream' = <<>> /\ eof' = FALSE /\ open' = {}
           /\ handle' \in BOOLEAN /\ (handle' => kind = "ssh") /\ (handle => handle') /\ (handle' => handle \/ conn # 0)
           /\ Made' = Made /\ NInv'
           /\ \A c \in Conns : Sound(c)' /\ (Asking(c)' => Asking(c))
<1>1. /\ conn' = 0 /\ proc' = FALSE /\ stream' = <<>> /\ eof' = FALSE /\ closed' = TRUE
      /\ open' = open \ {conn}
  BY DEF Closing, CloseUnderlying
<1>2. open' = {}
  BY <1>1 DEF IInv, LInv
<1>0. handle' \in BOOLEAN /\ (handle' => kind = "ssh") /\ (handle => handle') /\ (handle' => handle \/ conn # 0)
  <2>1. handle' = (handle \/ (kind = "ssh" /\ conn # 0))
    BY DEF Closing, CloseUnderlying
  <2>2. handle \in BOOLEAN /\ (handle => kind = "ssh")
    BY DEF IInv, TInv, LoginTypeOK
  <2>. QED
    BY <2>1, <2>2, Zenon
<1>3. TInv /\ conn \in 0 .. MaxConns /\ "exit" \in Typed
  BY DEF IInv, TInv, LoginTypeOK, Typed
<1>4. /\ peer' \in [Conns -> Devices]
      /\ \A c \in Conns : /\ peer'[c].stage = peer[c].stage
                          /\ peer'[c].verdicts = peer[c].verdicts
                          /\ c # conn => peer'[c] = peer[c]
      /\ conn \in Conns =>
           /\ Len(peer'[conn].inbox) <= Len(peer[conn].inbox) + 1
           /\ NoCommandIn(peer[conn].inbox) => NoCommandIn(peer'[conn].inbox)
  <2>1. CASE IsConnected
    <3>1. peer' = Sent("exit")
      BY <2>1 DEF Closing
    <3>2. conn \in Conns => Len(peer[conn].inbox) \in Nat
      BY <1>3, LinesTyped
    <3>. QED
      BY <1>3, <3>1, <3>2, SentFacts
  <2>2. CASE ~IsConnected
    <3>1. peer' = peer
      BY <2>2 DEF Closing
    <3>2. conn \in Conns => Len(peer[conn].inbox) \in Nat
      BY <1>3, LinesTyped
    <3>. QED
      BY <1>3, <3>1, <3>2 DEF TInv
  <2>. QED
    BY <2>1, <2>2
<1>5. Made' = Made /\ NInv'
  BY <1>4, NoneMade DEF IInv
<1>6. ASSUME NEW c \in Conns
      PROVE  Sound(c)' /\ (Asking(c)' => Asking(c))
  <2>1. Asking(c)' => Asking(c)
    BY <1>4 DEF Asking
  <2>2. /\ Len(peer[c].inbox) \in Nat /\ peer[c].verdicts \in Nat
        /\ Len(peer'[c].inbox) \in Nat
    <3>1. peer'[c] \in Devices
      BY <1>4
    <3>2. peer'[c].inbox \in Seq(Typed)
      BY <3>1 DEF Devices
    <3>. QED
      BY <1>3, <3>2, LinesTyped, LenProperties
  <2>3. c # 0
    BY DEF Conns
  <2>4. CASE c # conn
    <3>1. peer'[c] = peer[c] /\ c # conn'
      BY <1>1, <1>4, <2>3, <2>4
    <3>2. Sound(c)
      BY DEF IInv, VInv
    <3>3. Quota(c)' = 3 /\ Quota(c) = 3
      BY <3>1, <2>4 DEF Quota
    <3>. QED
      BY <3>1, <3>2, <3>3, <2>1 DEF Sound, Asking, Lines
  <2>5. CASE c = conn
    <3>1. Sound(c)
      BY DEF IInv, VInv
    <3>2. Quota(c) <= 2 /\ Quota(c) \in Nat
      BY <2>5 DEF Quota
    <3>3. Quota(c)' = 3
      BY <1>1, <2>3 DEF Quota
    <3>. /\ peer'[c].stage = peer[c].stage /\ peer'[c].verdicts = peer[c].verdicts
         /\ Len(peer'[c].inbox) <= Len(peer[c].inbox) + 1
      BY <1>4, <2>5
    <3>4. Lines(c)' <= Lines(c) + 1
      BY <2>2, CountFacts DEF Lines
    <3>5. Asking(c) => Asking(c)'
      BY DEF Asking
    <3>6. Lines(c) \in Nat /\ Lines(c)' \in Nat
      BY <2>2, CountFacts DEF Lines
    <3>. QED
      BY <1>4, <2>1, <2>5, <3>1, <3>2, <3>3, <3>4, <3>5, <3>6 DEF Sound
  <2>. QED
    BY <2>1, <2>4, <2>5
<1>. QED
  BY <1>0, <1>1, <1>2, <1>4, <1>5, <1>6

Ended == Outcomes \ {"none"}

LEMMA RaiseStep ==
    ASSUME IInv, NEW result \in Ended, Raise(result), UNCHANGED <<kind, commands, aborted>>
    PROVE  IInv'
<1>1. /\ pc' = IF handle' THEN "raising" ELSE "idle"
      /\ outcome' = result /\ outcome' # "none" /\ outcome' \in Outcomes
      /\ left' = 0 /\ buf' = <<>> /\ spent' = 0
  BY DEF Raise, Reported, Ended
<1>2. /\ peer' \in [Conns -> Devices] /\ closed' = TRUE
      /\ conn' = 0 /\ proc' = FALSE /\ stream' = <<>> /\ eof' = FALSE /\ open' = {}
      /\ handle' \in BOOLEAN /\ (handle' => kind = "ssh") /\ (handle => handle') /\ (handle' => handle \/ conn # 0)
      /\ Made' = Made /\ NInv'
      /\ \A c \in Conns : Sound(c)' /\ (Asking(c)' => Asking(c))
  BY ClosingStep DEF Raise
<1>3. TInv'
  <2>1. \A c \in Conns : peer'[c] \in Devices
    BY <1>2
  <2>2. \A c \in Conns : peer'[c].stage \in Stages /\ peer'[c].said \subseteq Words
    BY <2>1 DEF Devices
  <2>3. /\ pc' \in Places /\ conn' \in 0 .. MaxConns
        /\ left' \in 0 .. Timeout /\ buf' \in Seq(Pieces) /\ stream' \in Seq(Pieces)
        /\ spent' \in Nat /\ open' \subseteq Conns
    BY <1>1, <1>2, EmptyTyped DEF Places, Untimed
  <2>4. kind' \in {"telnet", "ssh"} /\ commands' \in 0 .. MaxCommands /\ aborted' \subseteq Conns
    BY DEF IInv, TInv, LoginTypeOK
  <2>. QED
    BY <1>1, <1>2, <2>2, <2>3, <2>4 DEF TInv, LoginTypeOK
<1>4. LInv'
  BY <1>1, <1>2 DEF LInv, IInv, NInv, Prompts
<1>5. BInv'
  BY <1>1 DEF BInv, Allowed
<1>6. VInv'
  BY <1>2 DEF IInv, VInv
<1>. QED
  BY <1>2, <1>3, <1>4, <1>5, <1>6 DEF IInv

LEMMA CloseStep ==
    ASSUME IInv, Close
    PROVE  IInv'
<1>1. UNCHANGED <<kind, pc, left, buf, outcome, commands, aborted, spent>> /\ Closing
  BY DEF Close
<1>2. /\ peer' \in [Conns -> Devices] /\ closed' = TRUE
      /\ conn' = 0 /\ proc' = FALSE /\ stream' = <<>> /\ eof' = FALSE /\ open' = {}
      /\ handle' \in BOOLEAN /\ (handle' => kind = "ssh") /\ (handle => handle') /\ (handle' => handle \/ conn # 0)
      /\ Made' = Made /\ NInv'
      /\ \A c \in Conns : Sound(c)' /\ (Asking(c)' => Asking(c))
  BY <1>1, ClosingStep
<1>3. TInv'
  <2>1. \A c \in Conns : peer'[c] \in Devices
    BY <1>2
  <2>2. \A c \in Conns : peer'[c].stage \in Stages /\ peer'[c].said \subseteq Words
    BY <2>1 DEF Devices
  <2>3. /\ conn' \in 0 .. MaxConns /\ stream' \in Seq(Pieces) /\ open' \subseteq Conns
    BY <1>2, EmptyTyped
  <2>4. /\ kind' \in {"telnet", "ssh"} /\ pc' \in Places
        /\ left' \in 0 .. Timeout /\ buf' \in Seq(Pieces) /\ outcome' \in Outcomes
        /\ commands' \in 0 .. MaxCommands /\ aborted' \subseteq Conns /\ spent' \in Nat
        /\ kind' = kind
    BY <1>1 DEF IInv, TInv, LoginTypeOK
  <2>. QED
    BY <1>2, <2>2, <2>3, <2>4 DEF TInv, LoginTypeOK
<1>4. LInv'
  <2>1. LInv /\ Made' >= 0
    BY <1>2 DEF IInv, NInv
  <2>. QED
    BY <1>1, <1>2, <2>1 DEF LInv
<1>5. BInv'
  BY <1>1 DEF IInv, BInv, Allowed
<1>6. VInv'
  BY <1>1, <1>2 DEF IInv, VInv
<1>. QED
  BY <1>2, <1>3, <1>4, <1>5, <1>6 DEF IInv

-----------------------------------------------------------------------------
(* connect()                                                                *)

LEMMA ConnectStep ==
    ASSUME IInv, Connect
    PROVE  IInv'
<1>1. /\ pc = "idle" /\ ~IsConnected /\ Made < MaxConns
      /\ pc' = IF handle' THEN "closing" ELSE "opening"
      /\ left' = IF handle' THEN 0 ELSE Timeout
      /\ UNCHANGED <<kind, buf, outcome, commands, aborted, spent>>
  BY DEF Connect
<1>2. /\ peer' \in [Conns -> Devices] /\ (outcome # "none" => closed')
      /\ closed' \in BOOLEAN /\ eof' \in BOOLEAN
      /\ conn' = 0 /\ stream' = <<>> /\ open' = {}
      /\ proc' \in BOOLEAN /\ (proc' => kind = "ssh")
      /\ handle' \in BOOLEAN /\ (handle' => kind = "ssh" /\ closed')
      /\ Made' = Made /\ NInv'
      /\ \A c \in Conns : Sound(c)' /\ (Asking(c)' => Asking(c))
  <2>1. CASE outcome = "none" /\ ~closed
    <3>1. UNCHANGED <<conn, handle, proc, closed, channel, peer, open>>
      BY <2>1 DEF Connect
    <3>2. conn = 0 /\ open = {} /\ stream = <<>> /\ handle = FALSE
      BY <1>1, <2>1 DEF IInv, TInv, LoginTypeOK, LInv
    <3>3. Made' = Made /\ NInv'
      BY <3>1, NoneMade DEF IInv
    <3>4. ASSUME NEW c \in Conns
          PROVE  Sound(c)' /\ (Asking(c)' => Asking(c))
      <4>1. c # conn /\ c # conn' /\ peer' = peer /\ aborted' = aborted
        BY <1>1, <3>1, <3>2 DEF Conns
      <4>2. Sound(c)
        BY DEF IInv, VInv
      <4>3. Quota(c)' = 3 /\ Quota(c) = 3
        BY <4>1 DEF Quota
      <4>. QED
        BY <4>1, <4>2, <4>3 DEF Sound, Asking, Lines
    <3>. QED
      BY <2>1, <3>1, <3>2, <3>3, <3>4 DEF IInv, TInv, LoginTypeOK, channel
  <2>2. CASE ~(outcome = "none" /\ ~closed)
    <3>1. Closing
      BY <2>2 DEF Connect
    <3>. QED
      BY <1>1, <3>1, ClosingStep
  <2>. QED
    BY <2>1, <2>2
<1>3. TInv'
  <2>1. \A c \in Conns : peer'[c] \in Devices
    BY <1>2
  <2>2. \A c \in Conns : peer'[c].stage \in Stages /\ peer'[c].said \subseteq Words
    BY <2>1 DEF Devices
  <2>3. /\ conn' \in 0 .. MaxConns /\ stream' \in Seq(Pieces) /\ open' \subseteq Conns
        /\ left' \in 0 .. Timeout /\ pc' \in Places
    BY <1>1, <1>2, EmptyTyped DEF Timed, Untimed, Places
  <2>4. /\ kind' \in {"telnet", "ssh"} /\ buf' \in Seq(Pieces) /\ outcome' \in Outcomes
        /\ commands' \in 0 .. MaxCommands /\ aborted' \subseteq Conns /\ spent' \in Nat
        /\ kind' = kind
    BY <1>1 DEF IInv, TInv, LoginTypeOK
  <2>. QED
    BY <1>2, <2>2, <2>3, <2>4 DEF TInv, LoginTypeOK
<1>4. LInv'
  BY <1>1, <1>2 DEF IInv, NInv, LInv, Prompts
<1>5. BInv'
  <2>1. spent = 0
    BY <1>1 DEF IInv, TInv, LoginTypeOK, BInv, Allowed
  <2>. QED
    BY <1>1, <2>1 DEF BInv, Allowed
<1>6. VInv'
  BY <1>1, <1>2 DEF IInv, VInv
<1>. QED
  BY <1>2, <1>3, <1>4, <1>5, <1>6 DEF IInv

(* The connection is closed at last, and those who waited for it go on.       *)
LEMMA ForgetStep ==
    ASSUME IInv, ForgetConnection
    PROVE  IInv'
<1>1. TInv /\ NInv /\ LInv /\ handle /\ conn = 0 /\ closed = TRUE
  BY DEF ForgetConnection, IInv, TInv, LoginTypeOK
<1>2. /\ handle' = FALSE /\ conn' = conn
      /\ UNCHANGED <<kind, proc, closed, buf, outcome, stream, eof, peer, commands, open,
                     aborted, spent>>
  BY <1>1 DEF ForgetConnection, channel
<1>3. \/ pc = "closing" /\ pc' = "opening" /\ left' = Timeout
      \/ pc = "raising" /\ pc' = "idle" /\ left' = left
      \/ pc \notin {"closing", "raising"} /\ pc' = pc /\ left' = left
  BY DEF ForgetConnection
<1>4. TInv'
  <2>1. left' \in 0 .. Timeout /\ pc' \in Places
    BY <1>1, <1>3 DEF TInv, LoginTypeOK, Places, Timed
  <2>. QED
    BY <1>1, <1>2, <2>1 DEF TInv, LoginTypeOK
<1>5. Made' = Made /\ NInv'
  BY <1>1, <1>2, NoneMade
<1>6. pc' \in Prompts => pc' = pc
  BY <1>3 DEF Prompts
<1>7. LInv'
  BY <1>1, <1>2, <1>3, <1>5, <1>6 DEF LInv
<1>8. BInv'
  <2>1. spent + left <= Allowed * Timeout /\ left \in 0 .. Timeout /\ spent \in Nat
    BY DEF IInv, BInv, TInv, LoginTypeOK
  <2>2. CASE pc' = pc /\ left' = left
    BY <1>2, <2>1, <2>2 DEF BInv, Allowed
  <2>3. CASE pc = "closing" /\ pc' = "opening" /\ left' = Timeout
    BY <1>2, <2>1, <2>3 DEF BInv, Allowed
  <2>4. CASE pc = "raising" /\ pc' = "idle" /\ left' = left
    BY <1>2, <2>1, <2>4 DEF BInv, Allowed
  <2>. QED
    BY <1>3, <2>2, <2>3, <2>4
<1>9. ASSUME NEW c \in Conns
      PROVE  Sound(c)' /\ (Asking(c)' => Asking(c))
  <2>1. c # conn /\ c # conn' /\ peer' = peer /\ aborted' = aborted
    BY <1>1, <1>2 DEF Conns
  <2>2. Sound(c)
    BY DEF IInv, VInv
  <2>3. Quota(c)' = 3 /\ Quota(c) = 3
    BY <2>1 DEF Quota
  <2>. QED
    BY <2>1, <2>2, <2>3 DEF Sound, Asking, Lines
<1>10. VInv'
  BY <1>1, <1>2, <1>9 DEF IInv, VInv
<1>. QED
  BY <1>4, <1>5, <1>7, <1>8, <1>10 DEF IInv

(* Opening fails: the attempt ends with nothing held.                        *)
LEMMA UnopenedStep ==
    ASSUME IInv, pc = "opening", NEW result \in Ended, Returned(result), Unopened,
           peer' \in [Conns -> Devices], NInv', Made <= Made',
           \A c \in Conns : peer'[c] = peer[c] \/ (Reached(c)' /\ peer'[c].verdicts <= 1)
    PROVE  IInv'
<1>1. /\ pc' = "idle" /\ outcome' = result /\ outcome' # "none" /\ outcome' \in Outcomes
      /\ left' = 0 /\ buf' = <<>> /\ spent' = 0
      /\ UNCHANGED <<kind, conn, handle, proc, closed, stream, eof, commands, open, aborted>>
  BY DEF Returned, Reported, Ended, Unopened, channel
<1>2. conn = 0 /\ stream = <<>> /\ open = {}
  BY DEF IInv, LInv
<1>3. TInv'
  <2>1. \A c \in Conns : peer'[c] \in Devices
    OBVIOUS
  <2>2. \A c \in Conns : peer'[c].stage \in Stages /\ peer'[c].said \subseteq Words
    BY <2>1 DEF Devices
  <2>3. /\ left' \in 0 .. Timeout /\ pc' \in Places
        /\ buf' \in Seq(Pieces) /\ spent' \in Nat
    BY <1>1, EmptyTyped DEF Places
  <2>4. /\ kind' \in {"telnet", "ssh"} /\ conn' \in 0 .. MaxConns /\ proc' \in BOOLEAN
        /\ closed' \in BOOLEAN /\ stream' \in Seq(Pieces) /\ eof' \in BOOLEAN
        /\ commands' \in 0 .. MaxCommands /\ open' \subseteq Conns /\ aborted' \subseteq Conns
        /\ (proc' => kind' = "ssh") /\ handle' \in BOOLEAN
        /\ (handle' => kind' = "ssh" /\ closed' /\ conn' = 0)
    BY <1>1 DEF IInv, TInv, LoginTypeOK
  <2>. QED
    BY <1>1, <2>2, <2>3, <2>4 DEF TInv, LoginTypeOK
<1>4. LInv'
  BY <1>1, <1>2 DEF IInv, NInv, LInv, Prompts
<1>5. BInv'
  BY <1>1 DEF BInv, Allowed
<1>6. ASSUME NEW c \in Conns
      PROVE  Sound(c)' /\ (Asking(c)' => Asking(c))
  <2>1. c # conn /\ c # conn' /\ Sound(c) /\ aborted' = aborted
    BY <1>1, <1>2 DEF Conns, IInv, VInv
  <2>2. Quota(c)' = 3 /\ Quota(c) = 3
    BY <2>1 DEF Quota
  <2>. QED
    BY <2>1, <2>2 DEF Sound, Asking, Reached, Lines
<1>7. VInv'
  BY <1>1, <1>2, <1>6 DEF IInv, VInv
<1>. QED
  BY <1>3, <1>4, <1>5, <1>7 DEF IInv

LEMMA FailToOpenStep ==
    ASSUME IInv, FailToOpen
    PROVE  IInv'
<1>1. pc = "opening" /\ Returned("conn") /\ Unopened /\ "conn" \in Ended
  BY DEF FailToOpen, Ended, Outcomes
<1>2. TInv /\ NInv /\ Made < MaxConns /\ Made \in 0 .. MaxConns
  BY <1>1 DEF IInv, LInv, NInv
<1>3. CASE UNCHANGED peer
  <2>1. Made' = Made /\ NInv'
    BY <1>2, <1>3, NoneMade
  <2>2. peer' \in [Conns -> Devices]
    BY <1>2, <1>3 DEF TInv
  <2>. QED
    BY <1>1, <1>2, <1>3, <2>1, <2>2, UnopenedStep
<1>4. ASSUME NEW v \in 0 .. 1, New("gone", {}, v)
      PROVE  IInv'
  <2>1. "gone" \in Stages \ {"none"} /\ {} \in SUBSET Words
    BY DEF Stages
  <2>2. /\ peer' \in [Conns -> Devices] /\ Made' = Made + 1 /\ NInv'
        /\ peer'[Made + 1] = [stage |-> "gone", inbox |-> <<>>, said |-> {}, verdicts |-> v]
        /\ \A c \in Conns : c # Made + 1 => peer'[c] = peer[c]
    BY <1>2, <1>4, <2>1, OneMade
  <2>3. ASSUME NEW c \in Conns
        PROVE  peer'[c] = peer[c] \/ (Reached(c)' /\ peer'[c].verdicts <= 1)
    BY <2>2 DEF Reached
  <2>4. Made <= Made'
    BY <1>2, <2>2
  <2>. QED
    BY <1>1, <2>2, <2>3, <2>4, UnopenedStep
<1>. QED
  BY <1>3, <1>4 DEF FailToOpen

LEMMA RefuseStep ==
    ASSUME IInv, RefuseSsh
    PROVE  IInv'
<1>1. /\ pc = "opening" /\ Returned("auth") /\ Unopened /\ New("gone", {"Bad"}, 1)
      /\ "auth" \in Ended
  BY DEF RefuseSsh, Ended, Outcomes
<1>2. TInv /\ NInv /\ Made < MaxConns /\ Made \in 0 .. MaxConns
  BY <1>1 DEF IInv, LInv, NInv
<1>3. "gone" \in Stages \ {"none"} /\ {"Bad"} \in SUBSET Words /\ 1 \in 0 .. 1
  BY DEF Stages, Words
<1>4. /\ peer' \in [Conns -> Devices] /\ Made' = Made + 1 /\ NInv'
      /\ peer'[Made + 1] = [stage |-> "gone", inbox |-> <<>>, said |-> {"Bad"}, verdicts |-> 1]
      /\ \A c \in Conns : c # Made + 1 => peer'[c] = peer[c]
  BY <1>1, <1>2, <1>3, OneMade
<1>5. ASSUME NEW c \in Conns
      PROVE  peer'[c] = peer[c] \/ (Reached(c)' /\ peer'[c].verdicts <= 1)
  BY <1>4 DEF Reached
<1>6. Made <= Made'
  BY <1>2, <1>4
<1>. QED
  BY <1>1, <1>4, <1>5, <1>6, UnopenedStep

(* A connection is made and held: by Telnet at the first prompt, by SSH with  *)
(* the credentials accepted.                                               *)
LEMMA HeldStep ==
    ASSUME IInv, Held, NEW stage \in {"new", "shell"}, NEW said \in SUBSET Words,
           NEW v \in 0 .. 1, New(stage, said, v),
           UNCHANGED <<kind, handle, proc, closed, buf, outcome, channel, commands, aborted, heard, spent>>,
           \/ kind = "telnet" /\ stage = "new" /\ v = 0 /\ pc' = "user" /\ left' = Timeout
           \/ kind = "ssh" /\ stage = "shell" /\ pc' = "process" /\ left' = 0
    PROVE  IInv'
<1>1. pc = "opening" /\ conn' = Made + 1 /\ open' = open \cup {Made + 1}
  BY DEF Held
<1>2. /\ TInv /\ NInv /\ Made < MaxConns /\ Made \in 0 .. MaxConns
      /\ conn = 0 /\ stream = <<>> /\ open = {} /\ buf = <<>> /\ (outcome # "none" => closed)
  BY <1>1 DEF IInv, LInv, NInv
<1>3. stage \in Stages \ {"none"}
  BY DEF Stages
<1>4. /\ Made + 1 \in Conns /\ peer' \in [Conns -> Devices] /\ Made' = Made + 1 /\ NInv'
      /\ peer'[Made + 1] = [stage |-> stage, inbox |-> <<>>, said |-> said, verdicts |-> v]
      /\ \A c \in Conns : c # Made + 1 => peer'[c] = peer[c]
  BY <1>2, <1>3, OneMade
<1>5. TInv'
  <2>1. \A c \in Conns : peer'[c] \in Devices
    BY <1>4
  <2>2. \A c \in Conns : peer'[c].stage \in Stages /\ peer'[c].said \subseteq Words
    BY <2>1 DEF Devices
  <2>3. /\ left' \in 0 .. Timeout /\ pc' \in Places
        /\ conn' \in 0 .. MaxConns /\ open' \subseteq Conns /\ conn' # 0
    BY <1>1, <1>2, <1>4 DEF Timed, Untimed, Places, Prompts, Conns
  <2>4. /\ kind' \in {"telnet", "ssh"} /\ proc' \in BOOLEAN /\ buf' \in Seq(Pieces)
        /\ outcome' \in Outcomes /\ closed' \in BOOLEAN /\ stream' \in Seq(Pieces)
        /\ eof' \in BOOLEAN /\ commands' \in 0 .. MaxCommands /\ aborted' \subseteq Conns
        /\ spent' \in Nat /\ (proc' => kind' = "ssh") /\ handle' = FALSE
    BY <1>1 DEF IInv, LInv, TInv, LoginTypeOK, channel
  <2>. QED
    BY <1>4, <2>2, <2>3, <2>4 DEF TInv, LoginTypeOK
<1>6. LInv'
  BY <1>1, <1>2, <1>4 DEF LInv, Prompts
<1>7. BInv'
  <2>1. spent + left <= 1 * Timeout /\ left \in 0 .. Timeout /\ spent \in Nat
    BY <1>1 DEF IInv, BInv, Allowed, TInv, LoginTypeOK
  <2>2. CASE pc' = "user" /\ left' = Timeout
    BY <2>1, <2>2 DEF BInv, Allowed
  <2>3. CASE pc' = "process" /\ left' = 0
    BY <2>1, <2>3 DEF BInv, Allowed
  <2>. QED
    BY <2>2, <2>3
<1>8. ASSUME NEW c \in Conns
      PROVE  Sound(c)' /\ (kind = "ssh" => ~Asking(c)')
  <2>1. CASE c # Made + 1
    <3>1. c # conn /\ c # conn' /\ peer'[c] = peer[c] /\ Sound(c) /\ aborted' = aborted
      BY <1>1, <1>2, <1>4, <2>1 DEF Conns, IInv, VInv
    <3>2. Quota(c)' = 3 /\ Quota(c) = 3
      BY <3>1 DEF Quota
    <3>. QED
      BY <3>1, <3>2 DEF Sound, Asking, Lines, IInv, VInv
  <2>2. CASE c = Made + 1
    <3>1. /\ peer'[c].stage = stage /\ peer'[c].verdicts = v /\ peer'[c].inbox = <<>>
          /\ c = conn'
      BY <1>1, <1>4, <2>2
    <3>2. CASE stage = "shell"
      BY <3>1, <3>2 DEF Sound, Asking
    <3>3. CASE stage = "new" /\ v = 0 /\ pc' = "user" /\ kind = "telnet"
      <4>1. Quota(c)' = 0 /\ Lines(c)' = 0
        BY <3>1, <3>3, EmptyTyped DEF Quota, Lines, Count
      <4>2. NoCommandIn(peer'[c].inbox)
        BY <3>1, EmptyTyped DEF NoCommandIn
      <4>. QED
        BY <3>1, <3>3, <4>1, <4>2 DEF Sound, Asking
    <3>. QED
      BY <3>2, <3>3
  <2>. QED
    BY <2>1, <2>2
<1>9. VInv'
  <2>1. ~SaysOk(stream') /\ ~SaysOk(buf')
    BY <1>2, EmptyTyped DEF channel
  <2>2. pc' \notin Prompts => Reached(conn)'
    BY <1>1, <1>4 DEF Prompts, Reached
  <2>3. ~SaysOk(stream)' /\ ~SaysOk(buf)'
    BY <2>1 DEF SaysOk
  <2>. QED
    BY <1>8, <2>2, <2>3 DEF VInv
<1>. QED
  BY <1>4, <1>5, <1>6, <1>7, <1>9 DEF IInv

LEMMA OpeningStep ==
    ASSUME IInv, Opening
    PROVE  IInv'
<1>1. CASE OpenTelnet
  <2>1. {} \in SUBSET Words
    OBVIOUS
  <2>. QED
    BY <1>1, <2>1, HeldStep DEF OpenTelnet
<1>2. CASE OpenSsh
  <2>1. {"Ok"} \in SUBSET Words
    BY DEF Words
  <2>. QED
    BY <1>2, <2>1, HeldStep DEF OpenSsh
<1>. QED
  BY <1>1, <1>2, RefuseStep, FailToOpenStep DEF Opening

-----------------------------------------------------------------------------
(* Reading, waiting and ending                                              *)

(* A step that leaves connections as they are, and goes on or ends.          *)
LEMMA StillStep ==
    ASSUME IInv, UNCHANGED <<kind, conn, handle, proc, closed, peer, open, commands>>,
           left' \in 0 .. Timeout, buf' \in Seq(Pieces), outcome' \in Outcomes,
           stream' \in Seq(Pieces), eof' \in BOOLEAN, spent' \in Nat,
           aborted' \subseteq Conns, aborted \subseteq aborted', BInv',
           SaysOk(stream') \/ SaysOk(buf') => SaysOk(stream) \/ SaysOk(buf),
           conn = 0 => stream' = <<>>,
           \/ pc' = pc /\ outcome' = outcome /\ (pc \in {"idle", "closing", "opening", "raising"} => buf' = buf)
           \/ /\ pc' = "idle" /\ outcome' # "none" /\ buf' = <<>>
              /\ conn # 0 => Reached(conn) \/ conn \in aborted'
    PROVE  IInv'
<1>1. TInv'
  <2>1. /\ pc' \in Places /\ kind' \in {"telnet", "ssh"}
        /\ conn' \in 0 .. MaxConns /\ proc' \in BOOLEAN /\ closed' \in BOOLEAN
        /\ commands' \in 0 .. MaxCommands /\ open' \subseteq Conns
        /\ (proc' => kind' = "ssh") /\ handle' \in BOOLEAN
        /\ (handle' => kind' = "ssh" /\ closed' /\ conn' = 0)
    BY DEF IInv, TInv, LoginTypeOK, Places
  <2>2. /\ peer' \in [Conns -> Devices]
        /\ \A c \in Conns : peer'[c].stage \in Stages /\ peer'[c].said \subseteq Words
    BY DEF IInv, TInv, LoginTypeOK
  <2>. QED
    BY <2>1, <2>2 DEF TInv, LoginTypeOK
<1>2. Made' = Made /\ NInv'
  BY NoneMade DEF IInv
<1>3. LInv'
  <2>1. CASE pc' = pc /\ outcome' = outcome /\ (pc \in {"idle", "closing", "opening", "raising"} => buf' = buf)
    BY <1>2, <2>1 DEF IInv, LInv
  <2>2. CASE pc' = "idle" /\ outcome' # "none" /\ buf' = <<>>
    BY <1>2, <2>2 DEF IInv, LInv, Prompts
  <2>. QED
    BY <2>1, <2>2
<1>4. ASSUME NEW c \in Conns
      PROVE  Sound(c)' /\ (Asking(c)' => Asking(c))
  <2>1. Sound(c) /\ peer'[c] = peer[c]
    BY DEF IInv, VInv
  <2>2. CASE c # conn \/ pc' = pc
    <3>1. Quota(c)' = Quota(c)
      BY <2>2 DEF Quota
    <3>. QED
      BY <2>1, <3>1 DEF Sound, Asking, Lines
  <2>3. CASE c = conn /\ (Reached(conn) \/ conn \in aborted')
    BY <2>1, <2>3 DEF Sound, Asking, Reached
  <2>4. c # 0
    BY DEF Conns
  <2>. QED
    BY <2>2, <2>3, <2>4
<1>5. VInv'
  <2>1. \A c \in Conns : Reached(c)' <=> Reached(c)
    BY DEF Reached
  <2>2. conn \in 0 .. MaxConns /\ (conn # 0 => conn \in Conns)
    BY DEF IInv, TInv, LoginTypeOK, Conns
  <2>3. SaysOk(stream)' \/ SaysOk(buf)' => SaysOk(stream) \/ SaysOk(buf)
    BY DEF SaysOk
  <2>4. conn # 0 /\ (SaysOk(stream)' \/ SaysOk(buf)') => Reached(conn)'
    BY <2>1, <2>2, <2>3 DEF IInv, VInv
  <2>5. conn # 0 /\ pc' \notin Prompts => Reached(conn)' \/ conn \in aborted'
    BY <2>1, <2>2 DEF IInv, VInv
  <2>. QED
    BY <1>4, <2>4, <2>5 DEF IInv, VInv
<1>. QED
  BY <1>1, <1>2, <1>3, <1>5 DEF IInv

LEMMA TickStep ==
    ASSUME IInv, Tick
    PROVE  IInv'
<1>1. /\ left > 0 /\ left' = left - 1 /\ spent' = spent + 1
      /\ UNCHANGED <<kind, pc, conn, handle, proc, closed, buf, outcome, stream, eof, peer,
                     commands, open, aborted>>
  BY DEF Tick, channel
<1>2. TInv /\ left \in 0 .. Timeout /\ spent \in Nat
  BY DEF IInv, TInv, LoginTypeOK
<1>3. BInv'
  BY <1>1, <1>2 DEF IInv, BInv, Allowed
<1>4. /\ left' \in 0 .. Timeout /\ buf' \in Seq(Pieces) /\ outcome' \in Outcomes
      /\ stream' \in Seq(Pieces) /\ eof' \in BOOLEAN /\ spent' \in Nat
      /\ aborted' \subseteq Conns
  BY <1>1, <1>2 DEF TInv, LoginTypeOK
<1>5. conn = 0 => stream' = <<>>
  BY <1>1 DEF IInv, LInv
<1>. QED
  BY <1>1, <1>3, <1>4, <1>5, StillStep

LEMMA CancelStep ==
    ASSUME IInv, Cancel
    PROVE  IInv'
<1>1. /\ pc' = "idle" /\ outcome' = "cancelled" /\ left' = 0 /\ buf' = <<>> /\ spent' = 0
      /\ aborted' = aborted \cup ({conn} \ {0})
      /\ UNCHANGED <<kind, conn, handle, proc, closed, stream, eof, peer, commands, open>>
  BY DEF Cancel, Returned, Reported, channel
<1>2. TInv /\ conn \in 0 .. MaxConns
  BY DEF IInv, TInv, LoginTypeOK
<1>3. BInv'
  BY <1>1 DEF BInv, Allowed
<1>4. /\ left' \in 0 .. Timeout /\ buf' \in Seq(Pieces) /\ outcome' \in Outcomes
      /\ stream' \in Seq(Pieces) /\ eof' \in BOOLEAN /\ spent' \in Nat
      /\ aborted' \subseteq Conns /\ aborted \subseteq aborted'
  BY <1>1, <1>2, EmptyTyped DEF TInv, LoginTypeOK, Outcomes, Conns
<1>5. conn = 0 => stream' = <<>>
  BY <1>1 DEF IInv, LInv
<1>6. SaysOk(stream') \/ SaysOk(buf') => SaysOk(stream) \/ SaysOk(buf)
  BY <1>1, EmptyTyped
<1>7. conn # 0 => conn \in aborted'
  BY <1>1
<1>8. outcome' # "none"
  BY <1>1
<1>. QED
  BY <1>1, <1>3, <1>4, <1>5, <1>6, <1>7, <1>8, StillStep

(* What is left of the stream, and what the text read so far may say.         *)
LEMMA ReadFacts ==
    ASSUME IInv, NEW n \in 0 .. Len(stream)
    PROVE  /\ Read(n) \in Seq(Pieces) /\ Rest(n) \in Seq(Pieces)
           /\ buf \o Read(n) \in Seq(Pieces)
           /\ SaysOk(Read(n)) => SaysOk(stream)
           /\ SaysOk(Rest(n)) => SaysOk(stream)
           /\ SaysOk(buf \o Read(n)) => SaysOk(stream) \/ SaysOk(buf)
           /\ n > 0 => conn # 0
<1>1. stream \in Seq(Pieces) /\ buf \in Seq(Pieces)
  BY DEF IInv, TInv, LoginTypeOK
<1>2. /\ Read(n) \in Seq(Pieces) /\ Rest(n) \in Seq(Pieces)
      /\ SaysOk(Read(n)) => SaysOk(stream)
      /\ SaysOk(Rest(n)) => SaysOk(stream)
  BY <1>1, PartsTyped DEF Read, Rest
<1>3. buf \o Read(n) \in Seq(Pieces) /\ (SaysOk(buf \o Read(n)) => SaysOk(buf) \/ SaysOk(Read(n)))
  BY <1>1, <1>2, JoinTyped
<1>4. n > 0 => stream # <<>>
  BY EmptyTyped
<1>. QED
  BY <1>2, <1>3, <1>4 DEF IInv, LInv

LEMMA ReadOnStep ==
    ASSUME IInv, NEW n \in 1 .. Len(stream), ReadOn(n), Consumed(n), UNCHANGED left,
           pc \in Prompts \cup {"prime"},
           buf' \in Seq(Pieces), SaysOk(buf') => SaysOk(stream) \/ SaysOk(buf),
           UNCHANGED <<kind, commands, aborted>>
    PROVE  IInv'
<1>1. /\ UNCHANGED <<pc, conn, handle, proc, closed, outcome, eof, peer, open, spent>>
      /\ stream' = Rest(n)
  BY DEF ReadOn, Consumed
<1>2. n \in 0 .. Len(stream) /\ n > 0
  OBVIOUS
<1>3. BInv'
  BY <1>1 DEF IInv, BInv, Allowed
<1>4. /\ left' \in 0 .. Timeout /\ outcome' \in Outcomes
      /\ eof' \in BOOLEAN /\ spent' \in Nat /\ aborted' \subseteq Conns
  BY <1>1 DEF IInv, TInv, LoginTypeOK
<1>5. /\ stream' \in Seq(Pieces) /\ conn # 0
      /\ SaysOk(stream') => SaysOk(stream)
  BY <1>1, <1>2, ReadFacts
<1>6. pc \notin {"idle", "closing", "opening", "raising"}
  BY DEF Prompts
<1>. QED
  BY <1>1, <1>3, <1>4, <1>5, <1>6, StillStep

(* connect() returns: the device has let the client in.                     *)
LEMMA AcceptedStep ==
    ASSUME IInv, NEW n \in 1 .. Len(stream), Accepted, Consumed(n), Reached(conn),
           UNCHANGED <<kind, commands, aborted>>
    PROVE  IInv'
<1>1. /\ pc' = "idle" /\ outcome' = "ok" /\ left' = 0 /\ buf' = <<>> /\ spent' = 0
      /\ UNCHANGED <<conn, handle, proc, closed, eof, peer, open>> /\ stream' = Rest(n)
  BY DEF Accepted, Returned, Reported, Consumed
<1>2. n \in 0 .. Len(stream) /\ n > 0
  OBVIOUS
<1>3. BInv'
  BY <1>1 DEF BInv, Allowed
<1>4. /\ left' \in 0 .. Timeout /\ buf' \in Seq(Pieces) /\ outcome' \in Outcomes /\ outcome' # "none"
      /\ eof' \in BOOLEAN /\ spent' \in Nat /\ aborted' \subseteq Conns
  BY <1>1, EmptyTyped DEF IInv, TInv, LoginTypeOK, Outcomes
<1>5. /\ stream' \in Seq(Pieces) /\ conn # 0
      /\ SaysOk(stream') => SaysOk(stream)
      /\ ~SaysOk(buf')
  BY <1>1, <1>2, ReadFacts, EmptyTyped
<1>. QED
  BY <1>1, <1>3, <1>4, <1>5, StillStep

(* A line is typed at a prompt.                                             *)
LEMMA PromptedStep ==
    ASSUME IInv, NEW n \in 1 .. Len(stream), NEW text \in {"username", "password"},
           NEW next \in {"pass", "result"}, Prompted(text, next), Consumed(n),
           \/ pc = "user" /\ next = "pass"
           \/ pc = "pass" /\ next = "result",
           UNCHANGED <<kind, commands, aborted>>
    PROVE  IInv'
<1>1. ASSUME eof /\ Raise("raw")
      PROVE  IInv'
  <2>1. "raw" \in Ended
    BY DEF Ended, Outcomes
  <2>. QED
    BY <1>1, <2>1, RaiseStep
<1>2. ASSUME pc' = next, left' = Timeout, buf' = <<>>, peer' = Sent(text),
             UNCHANGED <<conn, handle, proc, closed, outcome, eof, open, spent>>
      PROVE  IInv'
  <2>1. n \in 0 .. Len(stream) /\ n > 0
    OBVIOUS
  <2>2. stream' = Rest(n) /\ stream' \in Seq(Pieces) /\ conn # 0 /\ (SaysOk(stream') => SaysOk(stream))
    BY <1>2, <2>1, ReadFacts DEF Consumed
  <2>3. TInv /\ NInv /\ LInv /\ conn \in Conns /\ text \in Typed /\ text # "command"
    BY <2>2 DEF IInv, TInv, LoginTypeOK, Conns, Typed
  <2>4. /\ peer' \in [Conns -> Devices]
        /\ \A c \in Conns : /\ peer'[c].stage = peer[c].stage
                            /\ peer'[c].verdicts = peer[c].verdicts
                            /\ c # conn => peer'[c] = peer[c]
        /\ Len(peer'[conn].inbox) = Len(peer[conn].inbox) + 1
        /\ NoCommandIn(peer[conn].inbox) => NoCommandIn(peer'[conn].inbox)
    BY <1>2, <2>3, SentFacts
  <2>5. Made' = Made /\ NInv'
    BY <2>3, <2>4, NoneMade
  <2>6. TInv'
    <3>1. \A c \in Conns : peer'[c] \in Devices
      BY <2>4
    <3>2. \A c \in Conns : peer'[c].stage \in Stages /\ peer'[c].said \subseteq Words
      BY <3>1 DEF Devices
    <3>3. /\ left' \in 0 .. Timeout /\ pc' \in Places
          /\ buf' \in Seq(Pieces)
      BY <1>2, EmptyTyped DEF Timed, Places, Prompts
    <3>4. /\ kind' \in {"telnet", "ssh"} /\ conn' \in 0 .. MaxConns /\ proc' \in BOOLEAN
          /\ outcome' \in Outcomes /\ closed' \in BOOLEAN /\ eof' \in BOOLEAN
          /\ commands' \in 0 .. MaxCommands /\ aborted' \subseteq Conns /\ open' \subseteq Conns
          /\ spent' \in Nat /\ (proc' => kind' = "ssh") /\ handle' \in BOOLEAN
          /\ (handle' => kind' = "ssh" /\ closed' /\ conn' = 0)
      BY <1>2, <2>3 DEF TInv, LoginTypeOK
    <3>. QED
      BY <2>2, <2>4, <3>2, <3>3, <3>4 DEF TInv, LoginTypeOK
  <2>7. LInv'
    BY <1>2, <2>2, <2>3, <2>5 DEF LInv, Prompts
  <2>8. BInv'
    <3>1. /\ spent + left <= Allowed * Timeout /\ left \in 0 .. Timeout /\ spent \in Nat
          /\ spent' = spent /\ left' = Timeout
      BY <1>2 DEF IInv, BInv, TInv, LoginTypeOK
    <3>2. CASE pc = "user" /\ pc' = "pass"
      BY <3>1, <3>2 DEF BInv, Allowed
    <3>3. CASE pc = "pass" /\ pc' = "result"
      BY <3>1, <3>3 DEF BInv, Allowed
    <3>. QED
      BY <1>2, <3>2, <3>3
  <2>9. ASSUME NEW c \in Conns
        PROVE  Sound(c)' /\ (Asking(c)' => Asking(c)) /\ (Reached(c) => Reached(c)')
    <3>1. Sound(c) /\ conn' = conn /\ aborted' = aborted
      BY <1>2 DEF IInv, VInv
    <3>2. (Asking(c)' <=> Asking(c)) /\ (Reached(c)' <=> Reached(c))
      BY <2>4 DEF Asking, Reached
    <3>3. CASE c # conn
      <4>1. Quota(c)' = Quota(c)
        BY <3>1, <3>3 DEF Quota
      <4>. QED
        BY <2>4, <3>1, <3>2, <3>3, <4>1 DEF Sound, Lines
    <3>4. CASE c = conn
      <4>1. Quota(c)' = Quota(c) + 1 /\ Quota(c) \in Nat
        <5>1. CASE pc = "user" /\ pc' = "pass"
          BY <3>1, <3>4, <5>1 DEF Quota
        <5>2. CASE pc = "pass" /\ pc' = "result"
          BY <3>1, <3>4, <5>2 DEF Quota
        <5>. QED
          BY <1>2, <5>1, <5>2
      <4>2. /\ Len(peer[c].inbox) \in Nat /\ peer[c].verdicts \in Nat
            /\ Len(peer'[c].inbox) = Len(peer[c].inbox) + 1
            /\ peer'[c].verdicts = peer[c].verdicts /\ peer'[c].stage = peer[c].stage
        BY <2>3, <2>4, <3>4, LinesTyped
      <4>3. /\ Len(peer'[c].inbox) \in Nat
            /\ Len(peer'[c].inbox) <= Len(peer[c].inbox) + 1
        BY <4>2
      <4>4. Lines(c)' <= Lines(c) + 1
        BY <4>2, <4>3, CountFacts DEF Lines
      <4>5. Lines(c) \in Nat /\ Lines(c)' \in Nat
        BY <4>2, <4>3, CountFacts DEF Lines
      <4>. QED
        BY <2>4, <3>1, <3>2, <3>4, <4>1, <4>2, <4>4, <4>5 DEF Sound
    <3>. QED
      BY <3>2, <3>3, <3>4
  <2>10. VInv'
    <3>1. ~SaysOk(buf)'
      BY <1>2, EmptyTyped DEF SaysOk
    <3>2. SaysOk(stream)' => SaysOk(stream)
      BY <2>2 DEF SaysOk
    <3>3. SaysOk(stream)' => Reached(conn)'
      BY <1>2, <2>2, <2>3, <2>9, <3>2 DEF IInv, VInv, Reached
    <3>4. pc' \in Prompts
      BY <1>2 DEF Prompts
    <3>. QED
      BY <2>9, <3>1, <3>3, <3>4 DEF IInv, VInv
  <2>. QED
    BY <2>5, <2>6, <2>7, <2>8, <2>10 DEF IInv
<1>. QED
  BY <1>1, <1>2 DEF Prompted

LEMMA OkSaid ==
    ASSUME NEW text \in Seq(Pieces), Contains(text, "Ok")
    PROVE  SaysOk(text)
<1>1. PICK i \in 1 .. Len(text) - 1 : text[i] = <<"Ok", "head">>
  BY DEF Contains
<1>2. Len(text) \in Nat
  BY LenProperties
<1>. QED
  BY <1>1, <1>2 DEF SaysOk

LEMMA LoginStepCases ==
    ASSUME NEW text, LoginStep(text)
    PROVE  \/ \E result \in {"lockout", "auth", "protocol"} : Raise(result)
           \/ pc = "user" /\ Prompted("username", "pass")
           \/ pc = "pass" /\ Prompted("password", "result")
           \/ Contains(text, "Ok") /\ Accepted
<1>1. CASE Contains(text, "Locked")
  BY <1>1 DEF LoginStep
<1>2. CASE ~Contains(text, "Locked")
  <2>1. CASE pc = "user" /\ Contains(text, "Username")
    BY <1>2, <2>1, Zenon DEF LoginStep
  <2>. QED
    BY <1>2, Zenon DEF LoginStep
<1>. QED
  BY <1>1, <1>2

LEMMA ReadChunkStep ==
    ASSUME IInv, ReadChunk
    PROVE  IInv'
<1>1. PICK n \in 1 .. Len(stream) : ReadUntilAny(n) /\ Consumed(n)
  BY DEF ReadChunk
<1>2. pc \in Prompts /\ UNCHANGED <<kind, commands, aborted>>
  BY DEF ReadChunk
<1> DEFINE text == buf \o Read(n)
<1>3. n \in 0 .. Len(stream) /\ n > 0
  OBVIOUS
<1>4. /\ text \in Seq(Pieces) /\ conn # 0
      /\ SaysOk(text) => SaysOk(stream) \/ SaysOk(buf)
  BY <1>3, ReadFacts
<1>5. \/ LoginStep(text)
      \/ ReadOn(n) /\ buf' = text /\ UNCHANGED left
  BY <1>1 DEF ReadUntilAny
<1> HIDE DEF text
<1>6. CASE ReadOn(n) /\ buf' = text /\ UNCHANGED left
  BY <1>1, <1>2, <1>4, <1>6, ReadOnStep
<1>7. CASE LoginStep(text)
  <2>1. ASSUME NEW result \in {"lockout", "auth", "protocol"}, Raise(result)
        PROVE  IInv'
    <3>1. result \in Ended
      BY DEF Ended, Outcomes
    <3>. QED
      BY <1>2, <2>1, <3>1, RaiseStep
  <2>2. CASE pc = "user" /\ Prompted("username", "pass")
    BY <1>1, <1>2, <2>2, PromptedStep
  <2>3. CASE pc = "pass" /\ Prompted("password", "result")
    BY <1>1, <1>2, <2>3, PromptedStep
  <2>4. CASE Contains(text, "Ok") /\ Accepted
    <3>1. SaysOk(text)
      BY <1>4, <2>4, OkSaid
    <3>2. Reached(conn)
      BY <1>4, <3>1 DEF IInv, VInv
    <3>. QED
      BY <1>1, <1>2, <2>4, <3>2, AcceptedStep
  <2>. QED
    BY <1>7, <2>1, <2>2, <2>3, <2>4, LoginStepCases
<1>. QED
  BY <1>5, <1>6, <1>7

(* In SSH nobody is asked for anything.                                     *)
LEMMA PastLogin ==
    ASSUME IInv, pc \in {"process", "prime"}, conn # 0
    PROVE  Reached(conn) /\ conn \in Conns
<1>1. conn \in Conns /\ conn <= Made /\ peer[conn].stage \in Stages /\ kind = "ssh"
  BY DEF IInv, TInv, LoginTypeOK, LInv, Conns
<1>2. peer[conn].stage # "none" /\ ~Asking(conn)
  BY <1>1 DEF IInv, NInv, VInv
<1>. QED
  BY <1>1, <1>2 DEF Reached, Asking, Stages

LEMMA PrimedCases ==
    ASSUME NEW text, NEW n, Primed(text, n)
    PROVE  \/ \E result \in {"lockout", "auth"} : Raise(result)
           \/ Accepted
           \/ ReadOn(n) /\ UNCHANGED <<buf, left>>
BY Zenon DEF Primed

LEMMA ReadLineStep ==
    ASSUME IInv, ReadLine
    PROVE  IInv'
<1> DEFINE n == IF Len(stream) > 1 THEN 2 ELSE 1
<1>1. /\ pc = "prime" /\ stream # <<>> /\ UNCHANGED <<kind, commands, aborted>>
      /\ Primed(Read(n), n) /\ Consumed(n)
  BY DEF ReadLine
<1>2. stream \in Seq(Pieces) /\ buf \in Seq(Pieces)
  BY DEF IInv, TInv, LoginTypeOK
<1>3. Len(stream) \in Nat /\ Len(stream) # 0
  BY <1>1, <1>2, LenProperties, EmptySeq
<1>4. n \in 1 .. Len(stream)
  BY <1>3
<1> HIDE DEF n
<1>5. conn # 0
  BY <1>1 DEF IInv, LInv
<1>6. ASSUME NEW result \in {"lockout", "auth"}, Raise(result)
      PROVE  IInv'
  <2>1. result \in Ended
    BY DEF Ended, Outcomes
  <2>. QED
    BY <1>1, <1>6, <2>1, RaiseStep
<1>7. CASE Accepted
  <2>1. Reached(conn)
    BY <1>1, <1>5, PastLogin
  <2>. QED
    BY <1>1, <1>4, <1>7, <2>1, AcceptedStep
<1>8. CASE ReadOn(n) /\ UNCHANGED <<buf, left>>
  <2>1. buf' \in Seq(Pieces) /\ (SaysOk(buf') => SaysOk(stream) \/ SaysOk(buf))
    BY <1>2, <1>8
  <2>. QED
    BY <1>1, <1>4, <1>8, <2>1, ReadOnStep
<1>. QED
  BY <1>1, <1>6, <1>7, <1>8, PrimedCases

LEMMA ReadingStep ==
    ASSUME IInv, Reading
    PROVE  IInv'
<1>1. "conn" \in Ended /\ "raw" \in Ended
  BY DEF Ended, Outcomes
<1>2. CASE ReadEof
  BY <1>1, <1>2, RaiseStep DEF ReadEof
<1>3. CASE Interrupted
  BY <1>1, <1>3, RaiseStep DEF Interrupted
<1>4. CASE TimeOut
  BY <1>1, <1>4, RaiseStep DEF TimeOut
<1>. QED
  BY <1>2, <1>3, <1>4, ReadChunkStep, ReadLineStep DEF Reading

LEMMA FailProcessStep ==
    ASSUME IInv, FailProcess
    PROVE  IInv'
<1>1. "raw" \in Ended
  BY DEF Ended, Outcomes
<1>. QED
  BY <1>1, RaiseStep DEF FailProcess

(* A line on a connection that is past its login, or was given up.            *)
LEMMA LateLineStep ==
    ASSUME IInv, NEW text \in Typed, peer' = Sent(text),
           conn # 0 => Reached(conn) \/ conn \in aborted,
           UNCHANGED <<kind, conn, handle, closed, outcome, stream, eof, open, aborted, spent>>,
           proc' = proc \/ (proc' = TRUE /\ kind = "ssh"), commands' \in 0 .. MaxCommands,
           \/ pc' = pc /\ left' = left /\ buf' = buf
           \/ pc = "process" /\ pc' = "prime" /\ left' = Timeout /\ buf' = <<>>
    PROVE  IInv'
<1>1. TInv /\ NInv /\ LInv /\ (conn # 0 => conn \in Conns)
  BY DEF IInv, TInv, LoginTypeOK, Conns
<1>2. /\ peer' \in [Conns -> Devices]
      /\ \A c \in Conns : /\ peer'[c].stage = peer[c].stage
                          /\ peer'[c].verdicts = peer[c].verdicts
                          /\ c # conn => peer'[c] = peer[c]
  BY <1>1, SentFacts
<1>3. Made' = Made /\ NInv'
  BY <1>1, <1>2, NoneMade
<1>4. TInv'
  <2>1. \A c \in Conns : peer'[c] \in Devices
    BY <1>2
  <2>2. \A c \in Conns : peer'[c].stage \in Stages /\ peer'[c].said \subseteq Words
    BY <2>1 DEF Devices
  <2>3. /\ left' \in 0 .. Timeout /\ pc' \in Places
        /\ buf' \in Seq(Pieces)
    <3>1. /\ left \in 0 .. Timeout /\ pc \in Places
          /\ buf \in Seq(Pieces)
      BY <1>1 DEF TInv, LoginTypeOK
    <3>2. CASE pc' = pc /\ left' = left /\ buf' = buf
      BY <3>1, <3>2
    <3>3. CASE pc' = "prime" /\ left' = Timeout /\ buf' = <<>>
      BY <3>3, EmptyTyped DEF Timed, Places
    <3>. QED
      BY <3>2, <3>3
  <2>4. /\ kind' \in {"telnet", "ssh"} /\ conn' \in 0 .. MaxConns
        /\ outcome' \in Outcomes /\ closed' \in BOOLEAN /\ eof' \in BOOLEAN
        /\ aborted' \subseteq Conns /\ open' \subseteq Conns /\ stream' \in Seq(Pieces)
        /\ spent' \in Nat
    BY <1>1 DEF TInv, LoginTypeOK
  <2>5. /\ proc' \in BOOLEAN /\ (proc' => kind' = "ssh")
        /\ handle' \in BOOLEAN /\ (handle' => kind' = "ssh" /\ closed' /\ conn' = 0)
    <3>0. handle' \in BOOLEAN /\ (handle' => kind' = "ssh" /\ closed' /\ conn' = 0)
      BY <1>1 DEF TInv, LoginTypeOK
    <3>1. proc' \in BOOLEAN /\ (proc' => kind' = "ssh")
      <4>1. proc \in BOOLEAN /\ (proc => kind = "ssh") /\ kind' = kind
        BY <1>1 DEF TInv, LoginTypeOK
      <4>2. CASE proc' = proc
        BY <4>1, <4>2
      <4>3. CASE proc' = TRUE /\ kind = "ssh"
        BY <4>1, <4>3
      <4>. QED
        BY <4>2, <4>3
    <3>. QED
      BY <3>0, <3>1
  <2>. QED
    BY <1>2, <2>2, <2>3, <2>4, <2>5 DEF TInv, LoginTypeOK
<1>5. LInv'
  BY <1>1, <1>3 DEF LInv, Prompts
<1>6. BInv'
  <2>1. spent + left <= Allowed * Timeout /\ left \in 0 .. Timeout /\ spent \in Nat
    BY DEF IInv, BInv, TInv, LoginTypeOK
  <2>2. CASE pc' = pc /\ left' = left
    BY <2>1, <2>2 DEF BInv, Allowed
  <2>3. CASE pc = "process" /\ pc' = "prime" /\ left' = Timeout
    BY <2>1, <2>3 DEF BInv, Allowed
  <2>. QED
    BY <2>2, <2>3
<1>7. ASSUME NEW c \in Conns
      PROVE  Sound(c)' /\ (Asking(c)' => Asking(c)) /\ (Reached(c) => Reached(c)')
  <2>1. Sound(c) /\ (Asking(c)' <=> Asking(c)) /\ (Reached(c)' <=> Reached(c))
    BY <1>2 DEF IInv, VInv, Asking, Reached
  <2>2. CASE c # conn
    <3>1. Quota(c)' = Quota(c)
      BY <2>2 DEF Quota
    <3>. QED
      BY <1>2, <2>1, <2>2, <3>1 DEF Sound, Lines
  <2>3. CASE c = conn
    <3>1. c \in aborted \/ ~Asking(c)
      BY <2>3 DEF Asking, Reached, Conns
    <3>. QED
      BY <1>2, <2>1, <2>3, <3>1 DEF Sound
  <2>. QED
    BY <2>2, <2>3
<1>8. VInv'
  <2>1. SaysOk(stream)' => SaysOk(stream)
    BY DEF SaysOk
  <2>2. SaysOk(buf)' => SaysOk(buf)
    <3>1. CASE buf' = buf
      BY <3>1 DEF SaysOk
    <3>2. CASE buf' = <<>>
      BY <3>2, EmptyTyped DEF SaysOk
    <3>. QED
      BY <3>1, <3>2
  <2>3. conn # 0 /\ (SaysOk(stream)' \/ SaysOk(buf)') => Reached(conn)'
    <3>1. conn # 0 => (Reached(conn) => Reached(conn)')
      BY <1>1, <1>2 DEF Reached
    <3>. QED
      BY <2>1, <2>2, <3>1 DEF IInv, VInv
  <2>4. conn # 0 => Reached(conn)' \/ conn' \in aborted'
    BY <1>1, <1>2 DEF Reached
  <2>. QED
    BY <1>7, <2>3, <2>4 DEF IInv, VInv
<1>. QED
  BY <1>3, <1>4, <1>5, <1>6, <1>8 DEF IInv

LEMMA StartProcessStep ==
    ASSUME IInv, StartProcess
    PROVE  IInv'
<1>1. /\ pc = "process" /\ proc' = TRUE /\ pc' = "prime" /\ left' = Timeout
      /\ buf' = <<>> /\ peer' = Sent("firmware")
      /\ UNCHANGED <<kind, conn, handle, closed, outcome, stream, eof, commands, open, aborted, spent>>
  BY DEF StartProcess, channel
<1>2. conn # 0 => Reached(conn)
  BY <1>1, PastLogin
<1>3. kind = "ssh" /\ commands' \in 0 .. MaxCommands /\ "firmware" \in Typed
  BY <1>1 DEF IInv, LInv, TInv, LoginTypeOK, Typed
<1>. QED
  BY <1>1, <1>2, <1>3, LateLineStep

LEMMA CommandStep ==
    ASSUME IInv, Command
    PROVE  IInv'
<1>1. /\ outcome # "none" /\ conn # 0 /\ ~closed /\ commands < MaxCommands
      /\ commands' = commands + 1 /\ peer' = Sent("command")
      /\ UNCHANGED <<kind, pc, conn, handle, proc, closed, left, buf, outcome, stream, eof,
                     open, aborted, spent>>
  BY DEF Command, IsConnected, channel, client
<1>2. pc = "idle"
  BY <1>1 DEF IInv, LInv
<1>3. Reached(conn) \/ conn \in aborted
  BY <1>1, <1>2 DEF IInv, VInv, Prompts
<1>4. commands' \in 0 .. MaxCommands /\ "command" \in Typed
  BY <1>1 DEF IInv, TInv, LoginTypeOK, Typed
<1>. QED
  BY <1>1, <1>3, <1>4, LateLineStep

-----------------------------------------------------------------------------
(* The device                                                               *)

(* A step of the device at connection c: a line less to be read, or the      *)
(* greeting; what the device then waits for; and what it has judged.         *)
LEMMA DeviceStep ==
    ASSUME IInv, NEW c \in Conns, peer' \in [Conns -> Devices],
           \A d \in Conns : d # c => peer'[d] = peer[d],
           peer[c].stage # "none", peer'[c].stage # "none",
           Reached(c) => Reached(c)',
           Asking(c)' => /\ Asking(c) /\ Lines(c)' <= Lines(c)
                         /\ NoCommandIn(peer[c].inbox) => NoCommandIn(peer'[c].inbox),
           Reached(c)' /\ c \notin aborted => peer'[c].verdicts <= 1,
           UNCHANGED <<kind, client, commands, open, aborted, spent>>,
           stream' \in Seq(Pieces), eof' \in BOOLEAN,
           c # conn => (SaysOk(stream') => SaysOk(stream)) /\ (stream = <<>> => stream' = <<>>),
           c = conn => (SaysOk(stream') => SaysOk(stream) \/ Reached(c)')
    PROVE  IInv'
<1>1. TInv /\ NInv /\ LInv /\ VInv
      /\ UNCHANGED <<pc, conn, handle, proc, closed, left, buf, outcome>>
  BY DEF IInv, client
<1>2. Made' = Made /\ NInv'
  BY <1>1, NoneMade
<1>3. TInv'
  <2>1. \A d \in Conns : peer'[d] \in Devices
    OBVIOUS
  <2>2. \A d \in Conns : peer'[d].stage \in Stages /\ peer'[d].said \subseteq Words
    BY <2>1 DEF Devices
  <2>3. /\ left' \in 0 .. Timeout /\ pc' \in Places
        /\ buf' \in Seq(Pieces) /\ kind' \in {"telnet", "ssh"} /\ conn' \in 0 .. MaxConns
        /\ outcome' \in Outcomes /\ closed' \in BOOLEAN /\ commands' \in 0 .. MaxCommands
        /\ aborted' \subseteq Conns /\ open' \subseteq Conns /\ spent' \in Nat
    BY <1>1 DEF TInv, LoginTypeOK
  <2>4. /\ proc' \in BOOLEAN /\ (proc' => kind' = "ssh") /\ handle' \in BOOLEAN
        /\ (handle' => kind' = "ssh" /\ closed' /\ conn' = 0)
    BY <1>1 DEF TInv, LoginTypeOK
  <2>. QED
    BY <2>2, <2>3, <2>4 DEF TInv, LoginTypeOK
<1>4. LInv'
  <2>1. c # 0
    BY DEF Conns
  <2>. QED
    BY <1>1, <1>2, <2>1 DEF LInv, Prompts
<1>5. BInv'
  BY <1>1 DEF IInv, BInv, Allowed
<1>6. ASSUME NEW d \in Conns
      PROVE  Sound(d)' /\ (Asking(d)' => Asking(d)) /\ (Reached(d) => Reached(d)')
  <2>1. Quota(d)' = Quota(d) /\ Sound(d) /\ aborted' = aborted
    BY <1>1 DEF Quota, VInv
  <2>2. CASE d # c
    BY <2>1, <2>2 DEF Sound, Asking, Reached, Lines
  <2>3. CASE d = c
    <3>1. peer'[c].stage \in Stages
      BY DEF Devices
    <3>2. Asking(c)' \/ Reached(c)'
      BY <3>1 DEF Asking, Reached, Stages
    <3>3. CASE Asking(c)'
      <4>1. Quota(c) \in Nat
        BY DEF Quota
      <4>2. Lines(c) \in Nat /\ Lines(c)' \in Nat
        <5>1. peer'[c].inbox \in Seq(Typed) /\ peer'[c].verdicts \in Nat
          BY DEF Devices
        <5>2. Len(peer'[c].inbox) \in Nat
          BY <5>1, LenProperties
        <5>. QED
          BY <1>1, <5>1, <5>2, LinesTyped, CountFacts DEF Lines
      <4>. QED
        BY <2>1, <2>3, <3>3, <4>1, <4>2 DEF Sound
    <3>4. CASE Reached(c)' /\ ~Asking(c)'
      BY <2>1, <2>3, <3>4 DEF Sound
    <3>. QED
      BY <3>2, <3>3, <3>4
  <2>. QED
    BY <2>2, <2>3
<1>7. VInv'
  <2>1. conn \in 0 .. MaxConns /\ (conn # 0 => conn \in Conns)
    BY <1>1 DEF TInv, LoginTypeOK, Conns
  <2>2. conn # 0 /\ Reached(conn) => Reached(conn)'
    <3>1. ASSUME conn # 0, Reached(conn)
          PROVE  Reached(conn)'
      <4>1. CASE conn = c
        BY <1>1, <3>1, <4>1 DEF Reached
      <4>2. CASE conn # c
        BY <1>1, <2>1, <3>1, <4>2 DEF Reached
      <4>. QED
        BY <4>1, <4>2
    <3>. QED
      BY <3>1
  <2>3. (SaysOk(buf)' => SaysOk(buf)) /\ (SaysOk(stream)' => SaysOk(stream'))
    BY <1>1 DEF SaysOk
  <2>4. c = conn /\ Reached(c)' => Reached(conn)'
    BY <1>1 DEF Reached
  <2>5. conn # 0 /\ (SaysOk(stream)' \/ SaysOk(buf)') => Reached(conn)'
    BY <1>1, <2>2, <2>3, <2>4 DEF VInv
  <2>. QED
    BY <1>1, <1>6, <2>2, <2>5 DEF VInv
<1>. QED
  BY <1>2, <1>3, <1>4, <1>5, <1>7 DEF IInv

(* What an answer does to the connection and to the stream.                   *)
LEMMA AnswerFacts ==
    ASSUME IInv, NEW c \in Conns, NEW stage \in Stages, NEW words \in Seq(Words), NEW v \in Nat,
           Answer(c, stage, words, v),
           peer[c].stage = "new" \/ peer[c].inbox # <<>>
    PROVE  /\ peer' \in [Conns -> Devices]
           /\ \A d \in Conns : d # c => peer'[d] = peer[d]
           /\ peer'[c].stage = stage /\ peer'[c].verdicts = peer[c].verdicts + v
           /\ peer[c].stage = "new" => Len(peer'[c].inbox) = Len(peer[c].inbox)
           /\ peer[c].stage # "new" => Len(peer'[c].inbox) = Len(peer[c].inbox) - 1
           /\ NoCommandIn(peer[c].inbox) => NoCommandIn(peer'[c].inbox)
           /\ UNCHANGED <<kind, client, commands, open, aborted, spent>>
           /\ stream' \in Seq(Pieces) /\ eof' \in BOOLEAN
           /\ c # conn => stream' = stream
           /\ SaysOk(stream') => SaysOk(stream) \/ \E j \in DOMAIN words : words[j] = "Ok"
<1>1. TInv /\ peer[c] \in Devices
  BY DEF IInv, TInv
<1>2. peer[c].inbox \in Seq(Typed) /\ peer[c].verdicts \in Nat /\ peer[c].said \subseteq Words
  BY <1>1 DEF Devices
<1> DEFINE inbox == IF peer[c].stage = "new" THEN peer[c].inbox ELSE Tail(peer[c].inbox)
<1>3. /\ inbox \in Seq(Typed)
      /\ peer[c].stage = "new" => Len(inbox) = Len(peer[c].inbox)
      /\ peer[c].stage # "new" => Len(inbox) = Len(peer[c].inbox) - 1
      /\ NoCommandIn(peer[c].inbox) => NoCommandIn(inbox)
  <2>1. CASE peer[c].stage = "new"
    BY <1>2, <2>1
  <2>2. CASE peer[c].stage # "new"
    <3>1. peer[c].inbox # <<>>
      BY <2>2
    <3>2. /\ Tail(peer[c].inbox) \in Seq(Typed)
          /\ Len(Tail(peer[c].inbox)) = Len(peer[c].inbox) - 1
          /\ \A i \in 1 .. Len(Tail(peer[c].inbox)) : Tail(peer[c].inbox)[i] = peer[c].inbox[i + 1]
      BY <1>2, <3>1, HeadTailProperties
    <3>3. Len(peer[c].inbox) \in Nat
      BY <1>2, LenProperties
    <3>. QED
      BY <2>2, <3>2, <3>3 DEF NoCommandIn
  <2>. QED
    BY <2>1, <2>2
<1>4. \A i \in DOMAIN words : words[i] \in Words
  BY ElementOfSeq, LenProperties
<1>5. /\ \A d \in Conns : d # c => peer'[d] = peer[d]
      /\ peer'[c] = [stage |-> stage, inbox |-> inbox, verdicts |-> peer[c].verdicts + v,
                     said |-> peer[c].said \cup {words[i] : i \in DOMAIN words}]
      /\ peer' = [d \in Conns |-> peer'[d]]
  BY <1>1 DEF TInv, Answer, Devices
<1> HIDE DEF inbox
<1>6. /\ peer[c].said \cup {words[i] : i \in DOMAIN words} \in SUBSET Words
      /\ peer[c].verdicts + v \in Nat
  BY <1>2, <1>4
<1>7. peer'[c] \in Devices
  BY <1>3, <1>5, <1>6 DEF Devices
<1>8. peer' \in [Conns -> Devices]
  <2>1. \A d \in Conns : peer'[d] \in Devices
    BY <1>1, <1>5, <1>7 DEF TInv
  <2>. QED
    BY <1>5, <2>1
<1>9. /\ Said(words) \in Seq(Pieces)
      /\ SaysOk(Said(words)) => \E j \in DOMAIN words : words[j] = "Ok"
  BY SaidTyped DEF SaysOk
<1>10. stream \in Seq(Pieces) /\ eof \in BOOLEAN
  BY <1>1 DEF TInv, LoginTypeOK
<1>11. /\ stream \o Said(words) \in Seq(Pieces)
       /\ SaysOk(stream \o Said(words)) => SaysOk(stream) \/ SaysOk(Said(words))
  BY <1>9, <1>10, JoinTyped
<1>12. /\ stream' \in Seq(Pieces) /\ (c # conn => stream' = stream)
       /\ SaysOk(stream') => SaysOk(stream) \/ \E j \in DOMAIN words : words[j] = "Ok"
  <2>1. CASE c = conn /\ ~eof
    <3>1. stream' = stream \o Said(words)
      BY <2>1 DEF Answer, Emit
    <3>. QED
      BY <2>1, <3>1, <1>9, <1>11
  <2>2. CASE ~(c = conn /\ ~eof)
    <3>1. stream' = stream
      BY <2>2 DEF Answer, Emit
    <3>. QED
      BY <3>1, <1>10
  <2>. QED
    BY <2>1, <2>2
<1>13. eof' \in BOOLEAN /\ UNCHANGED <<kind, client, commands, open, aborted, spent>>
  BY <1>10 DEF Answer
<1>. QED
  BY <1>3, <1>5, <1>8, <1>12, <1>13

LEMMA Bits == 0 \in 0 .. 1 /\ 1 \in 0 .. 1
OBVIOUS

LEMMA WordsTyped ==
    ASSUME NEW a \in Words, NEW b \in Words, NEW d \in Words
    PROVE  /\ <<>> \in Seq(Words) /\ <<a>> \in Seq(Words) /\ <<a, b>> \in Seq(Words)
           /\ <<a, b, d>> \in Seq(Words)
           /\ \A j \in DOMAIN <<a>> : <<a>>[j] = a
           /\ \A j \in DOMAIN <<a, b>> : <<a, b>>[j] \in {a, b}
OBVIOUS

(* A password judged counts no more than the line and the prompt it stood for. *)
LEMMA VerdictForLine ==
    ASSUME NEW v \in Nat, NEW n \in Nat
    PROVE  2 * (v + 1) + 0 + (n - 1) <= 2 * v + 1 + n
OBVIOUS

(* The device asks on, having taken one line more.                          *)
LEMMA AsksOn ==
    ASSUME IInv, NEW c \in Conns, NEW stage \in {"user", "pass"}, NEW words \in Seq(Words),
           NEW v \in 0 .. 1, Answer(c, stage, words, v),
           ~ \E j \in DOMAIN words : words[j] = "Ok",
           \/ peer[c].stage = "new" /\ stage = "user" /\ v = 0
           \/ peer[c].stage = "user" /\ stage = "pass" /\ v = 0 /\ peer[c].inbox # <<>>
           \/ peer[c].stage = "pass" /\ stage = "user" /\ v = 1 /\ peer[c].inbox # <<>>
    PROVE  IInv'
<1>1. stage \in Stages /\ v \in Nat /\ TInv
  BY DEF Stages, IInv
<1>2. /\ peer' \in [Conns -> Devices]
      /\ \A d \in Conns : d # c => peer'[d] = peer[d]
      /\ peer'[c].stage = stage /\ peer'[c].verdicts = peer[c].verdicts + v
      /\ peer[c].stage = "new" => Len(peer'[c].inbox) = Len(peer[c].inbox)
      /\ peer[c].stage # "new" => Len(peer'[c].inbox) = Len(peer[c].inbox) - 1
      /\ NoCommandIn(peer[c].inbox) => NoCommandIn(peer'[c].inbox)
      /\ UNCHANGED <<kind, client, commands, open, aborted, spent>>
      /\ stream' \in Seq(Pieces) /\ eof' \in BOOLEAN
      /\ c # conn => stream' = stream
      /\ SaysOk(stream') => SaysOk(stream)
  BY <1>1, AnswerFacts
<1>3. Asking(c) /\ ~Reached(c) /\ peer[c].stage # "none" /\ peer'[c].stage # "none" /\ ~Reached(c)'
  BY <1>2 DEF Asking, Reached
<1>4. Lines(c)' <= Lines(c)
  <2>1. Len(peer[c].inbox) \in Nat /\ peer[c].verdicts \in Nat
    BY <1>1, LinesTyped
  <2>2. CASE peer[c].stage = "new" /\ stage = "user" /\ v = 0
    BY <1>2, <2>1, <2>2 DEF Lines, Count
  <2>3. CASE peer[c].stage = "user" /\ stage = "pass" /\ v = 0
    BY <1>2, <2>1, <2>3 DEF Lines, Count
  <2>4. CASE peer[c].stage = "pass" /\ stage = "user" /\ v = 1
    <3>1. /\ Lines(c)' = Count(peer[c].verdicts + 1, "user", Len(peer[c].inbox) - 1)
          /\ Lines(c) = Count(peer[c].verdicts, "pass", Len(peer[c].inbox))
      BY <1>2, <2>4 DEF Lines
    <3>2. Lines(c)' = 2 * (peer[c].verdicts + 1) + 0 + (Len(peer[c].inbox) - 1)
      BY <3>1 DEF Count
    <3>3. Lines(c) = 2 * peer[c].verdicts + 1 + Len(peer[c].inbox)
      BY <3>1 DEF Count
    <3>4. 2 * (peer[c].verdicts + 1) + 0 + (Len(peer[c].inbox) - 1)
            <= 2 * peer[c].verdicts + 1 + Len(peer[c].inbox)
      BY <2>1, VerdictForLine
    <3>. QED
      BY <3>2, <3>3, <3>4
  <2>. QED
    BY <2>2, <2>3, <2>4
<1>. QED
  BY <1>2, <1>3, <1>4, DeviceStep

(* The device has let the client in, or hangs up.                           *)
LEMMA AsksNoMore ==
    ASSUME IInv, NEW c \in Conns, NEW stage \in {"shell", "gone"}, NEW words \in Seq(Words),
           NEW v \in 0 .. 1, Answer(c, stage, words, v),
           peer[c].stage # "none", peer[c].stage = "new" \/ peer[c].inbox # <<>>,
           v = 0 \/ (peer[c].stage = "pass" /\ peer[c].inbox # <<>>)
    PROVE  IInv'
<1>1. stage \in Stages /\ v \in Nat /\ TInv
  BY DEF Stages, IInv
<1>2. /\ peer' \in [Conns -> Devices]
      /\ \A d \in Conns : d # c => peer'[d] = peer[d]
      /\ peer'[c].stage = stage /\ peer'[c].verdicts = peer[c].verdicts + v
      /\ UNCHANGED <<kind, client, commands, open, aborted, spent>>
      /\ stream' \in Seq(Pieces) /\ eof' \in BOOLEAN
      /\ c # conn => stream' = stream
  BY <1>1, AnswerFacts
<1>3. ~Asking(c)' /\ Reached(c)' /\ peer'[c].stage # "none"
  BY <1>2 DEF Asking, Reached
<1>4. ASSUME c \notin aborted
      PROVE  peer'[c].verdicts <= 1
  <2>1. Sound(c)
    BY DEF IInv, VInv
  <2>2. Len(peer[c].inbox) \in Nat /\ peer[c].verdicts \in Nat /\ Lines(c) \in Nat
    BY <1>1, LinesTyped
  <2>3. CASE ~Asking(c)
    <3>1. v = 0
      BY <2>3 DEF Asking
    <3>2. peer[c].verdicts <= 1
      BY <1>4, <2>1, <2>3 DEF Sound
    <3>. QED
      BY <1>2, <2>2, <3>1, <3>2
  <2>4. CASE Asking(c)
    <3>1. Quota(c) <= 3 /\ Quota(c) \in Nat
      BY DEF Quota
    <3>2. Lines(c) <= 3
      BY <1>4, <2>1, <2>2, <2>4, <3>1 DEF Sound
    <3>3. CASE v = 0
      BY <1>2, <2>2, <3>2, <3>3, CountFacts DEF Lines
    <3>4. CASE v = 1 /\ peer[c].stage = "pass" /\ peer[c].inbox # <<>>
      <4>1. peer[c].inbox \in Seq(Typed)
        BY <1>1 DEF TInv, Devices
      <4>2. Len(peer[c].inbox) # 0
        BY <3>4, <4>1, EmptySeq
      <4>3. 2 * peer[c].verdicts + 1 + Len(peer[c].inbox) <= 3
        BY <3>2, <3>4 DEF Lines, Count
      <4>4. peer[c].verdicts = 0
        BY <2>2, <4>2, <4>3
      <4>. QED
        BY <1>2, <3>4, <4>4
    <3>. QED
      BY <3>3, <3>4
  <2>. QED
    BY <2>3, <2>4
<1>. QED
  BY <1>2, <1>3, <1>4, DeviceStep

LEMMA GreetStep ==
    ASSUME IInv, NEW c \in Conns, Greet(c)
    PROVE  IInv'
<1>1. peer[c].stage = "new"
  BY DEF Greet
<1>2. CASE Answer(c, "user", <<"Username">>, 0)
  <2>1. "Username" \in Words
    BY DEF Words
  <2>2. <<"Username">> \in Seq(Words) /\ ~ \E j \in DOMAIN <<"Username">> : <<"Username">>[j] = "Ok"
    BY <2>1, WordsTyped
  <2>. QED
    BY <1>1, <1>2, <2>2, Bits, AsksOn, Zenon
<1>3. ASSUME NEW word \in {"Locked", "Bad"}, Answer(c, "gone", <<word>>, 0)
      PROVE  IInv'
  <2>1. word \in Words
    BY DEF Words
  <2>2. <<word>> \in Seq(Words)
    BY <2>1, WordsTyped
  <2>. QED
    BY <1>1, <1>3, <2>2, Bits, AsksNoMore, Zenon
<1>. QED
  BY <1>2, <1>3 DEF Greet

LEMMA HearUsernameStep ==
    ASSUME IInv, NEW c \in Conns, HearUsername(c)
    PROVE  IInv'
<1>1. peer[c].stage = "user" /\ peer[c].inbox # <<>>
  BY DEF HearUsername, Hears
<1>2. CASE Answer(c, "pass", <<"Password">>, 0)
  <2>1. "Password" \in Words
    BY DEF Words
  <2>2. <<"Password">> \in Seq(Words) /\ ~ \E j \in DOMAIN <<"Password">> : <<"Password">>[j] = "Ok"
    BY <2>1, WordsTyped
  <2>. QED
    BY <1>1, <1>2, <2>2, Bits, AsksOn, Zenon
<1>3. CASE Answer(c, "gone", <<"Locked">>, 0)
  <2>1. <<"Locked">> \in Seq(Words)
    BY WordsTyped DEF Words
  <2>. QED
    BY <1>1, <1>3, <2>1, Bits, AsksNoMore, Zenon
<1>. QED
  BY <1>2, <1>3 DEF HearUsername

LEMMA HearPasswordStep ==
    ASSUME IInv, NEW c \in Conns, HearPassword(c)
    PROVE  IInv'
<1>1. peer[c].stage = "pass" /\ peer[c].inbox # <<>>
  BY DEF HearPassword, Hears
<1>2. {"Ok", "Blank", "Bad", "Locked", "Username"} \subseteq Words
  BY DEF Words
<1>3. CASE Answer(c, "shell", <<"Ok", "Blank">>, 1)
  <2>1. <<"Ok", "Blank">> \in Seq(Words)
    BY <1>2, WordsTyped
  <2>. QED
    BY <1>1, <1>3, <2>1, Bits, AsksNoMore, Zenon
<1>4. ASSUME NEW words \in {<<"Bad">>, <<"Bad", "Locked">>}, Answer(c, "gone", words, 1)
      PROVE  IInv'
  <2>0. <<"Bad">> \in Seq(Words) /\ <<"Bad", "Locked">> \in Seq(Words)
    BY <1>2, WordsTyped
  <2>1. words \in Seq(Words)
    BY <2>0, Zenon
  <2>. QED
    BY <1>1, <1>4, <2>1, Bits, AsksNoMore, Zenon
<1>5. CASE Answer(c, "user", <<"Bad", "Username">>, 1)
  <2>1. <<"Bad", "Username">> \in Seq(Words)
    BY <1>2, WordsTyped
  <2>2. \A j \in DOMAIN <<"Bad", "Username">> : <<"Bad", "Username">>[j] \in {"Bad", "Username"}
    BY <1>2, WordsTyped
  <2>3. ~ \E j \in DOMAIN <<"Bad", "Username">> : <<"Bad", "Username">>[j] = "Ok"
    BY <2>2
  <2>. QED
    BY <1>1, <1>5, <2>1, <2>3, Bits, AsksOn, Zenon
<1>. QED
  BY <1>3, <1>4, <1>5 DEF HearPassword

LEMMA HearLineStep ==
    ASSUME IInv, NEW c \in Conns, HearLine(c)
    PROVE  IInv'
<1>1. peer[c].stage = "shell" /\ peer[c].inbox # <<>>
  BY DEF HearLine, Hears
<1>2. {"Banner", "Ok", "Firmware", "Error", "Bad", "Locked"} \subseteq Words
  BY DEF Words
<1>3. \/ \E word \in {"Firmware", "Error"} : Answer(c, "shell", <<"Banner", "Ok", word>>, 0)
      \/ \E word \in {"Bad", "Locked"} : Answer(c, "gone", <<word>>, 0)
      \/ Answer(c, "gone", <<>>, 0)
      \/ Answer(c, "shell", <<>>, 0)
  BY Zenon DEF HearLine
<1>4. ASSUME NEW word \in {"Firmware", "Error"}, Answer(c, "shell", <<"Banner", "Ok", word>>, 0)
      PROVE  IInv'
  <2>1. <<"Banner", "Ok", word>> \in Seq(Words)
    BY <1>2, WordsTyped
  <2>. QED
    BY <1>1, <1>4, <2>1, Bits, AsksNoMore, Zenon
<1>5. ASSUME NEW word \in {"Bad", "Locked"}, Answer(c, "gone", <<word>>, 0)
      PROVE  IInv'
  <2>1. <<word>> \in Seq(Words)
    BY <1>2, WordsTyped
  <2>. QED
    BY <1>1, <1>5, <2>1, Bits, AsksNoMore, Zenon
<1>6. <<>> \in Seq(Words)
  BY EmptySeq
<1>7. CASE Answer(c, "gone", <<>>, 0)
  BY <1>1, <1>6, <1>7, Bits, AsksNoMore, Zenon
<1>8. CASE Answer(c, "shell", <<>>, 0)
  BY <1>1, <1>6, <1>8, Bits, AsksNoMore, Zenon
<1>. QED
  BY <1>3, <1>4, <1>5, <1>7, <1>8

LEMMA DropStep ==
    ASSUME IInv, Drop
    PROVE  IInv'
<1>1. PICK n \in 0 .. Len(stream) : stream' = Read(n)
  BY DEF Drop
<1>2. /\ conn # 0 /\ eof' = TRUE /\ peer' = [peer EXCEPT ![conn].stage = "gone"]
      /\ UNCHANGED <<kind, client, commands, open, aborted, spent>>
  BY DEF Drop
<1>3. TInv /\ conn \in Conns /\ conn <= Made
  BY <1>2 DEF IInv, TInv, LoginTypeOK, LInv, Conns
<1>4. peer[conn] \in Devices /\ peer[conn].stage # "none"
  BY <1>3 DEF TInv, IInv, NInv
<1>5. /\ \A d \in Conns : d # conn => peer'[d] = peer[d]
      /\ peer'[conn].stage = "gone" /\ peer'[conn].verdicts = peer[conn].verdicts
      /\ peer' \in [Conns -> Devices]
  BY <1>2, <1>3, <1>4 DEF TInv, Devices, Stages
<1>6. stream' \in Seq(Pieces) /\ (SaysOk(stream') => SaysOk(stream))
  BY <1>1, ReadFacts
<1>7. ~Asking(conn)' /\ Reached(conn)' /\ conn' = conn
  BY <1>2, <1>5 DEF Asking, Reached, client
<1>8. ASSUME conn \notin aborted
      PROVE  peer'[conn].verdicts <= 1
  <2>1. Sound(conn) /\ Quota(conn) <= 2 /\ Quota(conn) \in Nat
    BY <1>3 DEF IInv, VInv, Quota
  <2>2. Len(peer[conn].inbox) \in Nat /\ peer[conn].verdicts \in Nat /\ Lines(conn) \in Nat
    BY <1>3, LinesTyped
  <2>3. Lines(conn) >= 2 * peer[conn].verdicts
    BY <2>2, CountFacts DEF Lines
  <2>. QED
    BY <1>5, <1>8, <2>1, <2>2, <2>3 DEF Sound
<1>9. \A c \in Conns : c = conn => ~Asking(c)' /\ Reached(c)' /\ peer'[c].stage # "none"
  BY <1>2, <1>5 DEF Asking, Reached
<1>10. eof' \in BOOLEAN
  BY <1>2
<1>. QED
  BY <1>2, <1>3, <1>4, <1>5, <1>6, <1>8, <1>9, <1>10, DeviceStep

-----------------------------------------------------------------------------
(* The theorems                                                             *)

LEMMA InitHolds == Init => IInv
<1> SUFFICES ASSUME Init PROVE IInv
  OBVIOUS
<1>1. \A c \in Conns : peer[c] = Unmade
  BY DEF Init
<1>2. Unmade \in Devices /\ Unmade.stage = "none" /\ Unmade.verdicts = 0
  BY EmptyTyped DEF Unmade, Devices, Stages
<1>3. TInv
  <2>1. \A c \in Conns : peer[c].stage \in Stages /\ peer[c].said \subseteq Words
    BY <1>1, <1>2 DEF Devices
  <2>2. peer \in [Conns -> Devices]
    BY <1>2 DEF Init
  <2>3. /\ pc \in Places /\ buf \in Seq(Pieces) /\ stream \in Seq(Pieces)
        /\ outcome \in Outcomes
    BY EmptyTyped DEF Init, Outcomes, Places
  <2>4. /\ kind \in {"telnet", "ssh"} /\ conn \in 0 .. MaxConns /\ left \in 0 .. Timeout
        /\ commands \in 0 .. MaxCommands /\ open \subseteq Conns /\ aborted \subseteq Conns
        /\ spent \in Nat
    BY DEF Init
  <2>5. proc = FALSE /\ handle = FALSE /\ closed = FALSE /\ eof = FALSE
    BY DEF Init
  <2>. QED
    BY <2>1, <2>2, <2>3, <2>4, <2>5 DEF TInv, LoginTypeOK
<1>4. Made = 0 /\ NInv
  <2>1. \A c \in Conns : (c <= 0 => peer[c].stage # "none") /\ (peer[c].stage = "none" \/ c <= 0)
    BY <1>1, <1>2 DEF Conns
  <2>2. Cardinality({c \in Conns : peer[c].stage # "none"}) = 0
    BY <2>1, Numbered
  <2>3. Made = 0
    BY <2>2 DEF Made
  <2>. QED
    BY <2>1, <2>3 DEF NInv
<1>5. LInv
  BY <1>4 DEF Init, LInv, Prompts
<1>6. BInv
  BY DEF Init, BInv, Allowed
<1>7. VInv
  <2>1. \A c \in Conns : ~Asking(c) /\ Sound(c)
    BY <1>1, <1>2 DEF Asking, Sound
  <2>. QED
    BY <2>1 DEF VInv, Init
<1>. QED
  BY <1>3, <1>4, <1>5, <1>6, <1>7 DEF IInv

LEMMA StutterHolds == IInv /\ UNCHANGED vars => IInv'
<1> SUFFICES ASSUME IInv, UNCHANGED vars PROVE IInv'
  OBVIOUS
<1>1. UNCHANGED <<kind, pc, conn, handle, proc, closed, left, buf, outcome, stream, eof, peer,
                  commands, open, aborted, spent>>
  BY DEF vars, client, channel
<1>2. BInv'
  BY <1>1 DEF IInv, BInv, Allowed
<1>3. /\ left' \in 0 .. Timeout /\ buf' \in Seq(Pieces) /\ outcome' \in Outcomes
      /\ stream' \in Seq(Pieces) /\ eof' \in BOOLEAN /\ spent' \in Nat
      /\ aborted' \subseteq Conns
  BY <1>1 DEF IInv, TInv, LoginTypeOK
<1>4. conn = 0 => stream' = <<>>
  BY <1>1 DEF IInv, LInv
<1>. QED
  BY <1>1, <1>2, <1>3, <1>4, StillStep

LEMMA NextHolds == IInv /\ [Next]_vars => IInv'
<1> SUFFICES ASSUME IInv, [Next]_vars PROVE IInv'
  OBVIOUS
<1>1. ASSUME NEW c \in Conns, Device(c)
      PROVE  IInv'
  BY <1>1, GreetStep, HearUsernameStep, HearPasswordStep, HearLineStep DEF Device
<1>2. CASE Connect \/ Close \/ ForgetConnection \/ Cancel \/ Command \/ Opening \/ StartProcess
  BY <1>2, ConnectStep, CloseStep, ForgetStep, CancelStep, CommandStep, OpeningStep, StartProcessStep
<1>3. CASE FailProcess \/ Reading \/ Tick \/ Drop
  BY <1>3, FailProcessStep, ReadingStep, TickStep, DropStep
<1>. QED
  BY <1>1, <1>2, <1>3, StutterHolds DEF Next

LEMMA Invariance == Spec => []IInv
BY InitHolds, NextHolds, PTL DEF Spec

(* The connection that an SSH close() forgets (transport.py:525) is one it has *)
(* closed, and every variable keeps its type, wherever connect() is timed     *)
(* out, refused or cancelled.                                              *)
THEOREM LoginTyped == Spec => []LoginTypeOK
<1>1. IInv => LoginTypeOK
  BY DEF IInv, TInv
<1>. QED
  BY <1>1, Invariance, PTL

(* The client leaves one session open at most: what is open is what it holds, *)
(* since every connect() begins with nothing held.                          *)
THEOREM OneSessionOnly == Spec => []OneSession
<1>1. ASSUME IInv
      PROVE  OneSession
  <2>1. open \subseteq {conn}
    BY <1>1 DEF IInv, LInv
  <2>2. IsFiniteSet({conn}) /\ Cardinality({conn}) = 1
    BY FS_Singleton
  <2>3. Cardinality(open) <= 1
    BY <2>1, <2>2, FS_Subset
  <2>. QED
    BY <2>3 DEF OneSession
<1>. QED
  BY <1>1, Invariance, PTL

(* A connect() takes no more than the deadlines of its stages, one each, in    *)
(* however many chunks the device drips its prompts.                         *)
THEOREM LoginIsBounded == Spec => []LoginBounded
<1>1. ASSUME IInv
      PROVE  LoginBounded
  <2>1. /\ spent + left <= Allowed * Timeout /\ left \in 0 .. Timeout /\ spent \in Nat
        /\ pc \in Prompts => kind = "telnet"
        /\ pc \in {"process", "prime"} => kind = "ssh"
        /\ kind \in {"telnet", "ssh"} /\ pc \in Places
    BY <1>1 DEF IInv, BInv, LInv, TInv, LoginTypeOK
  <2>2. spent <= Allowed * Timeout /\ Allowed \in 0 .. 4
    BY <2>1 DEF Allowed
  <2>3. CASE kind = "telnet"
    <3>1. Allowed * Timeout <= 4 * Timeout
      BY <2>2
    <3>2. spent <= 4 * Timeout
      BY <2>1, <2>2, <3>1
    <3>. QED
      BY <2>3, <3>2 DEF LoginBounded
  <2>4. CASE kind = "ssh"
    <3>1. Allowed \in 0 .. 2
      BY <2>1, <2>4 DEF Allowed, Timed, Untimed, Places, Prompts
    <3>2. Allowed * Timeout <= 2 * Timeout
      BY <3>1
    <3>3. spent <= 2 * Timeout
      BY <2>1, <2>2, <3>2
    <3>. QED
      BY <2>4, <3>3 DEF LoginBounded
  <2>. QED
    BY <2>1, <2>3, <2>4
<1>. QED
  BY <1>1, Invariance, PTL

(* No command of another task is typed at a prompt of the device, except on    *)
(* a connection whose login was cancelled.                                   *)
THEOREM CommandsAreNoCredentials == Spec => []NoCommandAsCredential
<1>1. ASSUME IInv
      PROVE  NoCommandAsCredential
  <2>1. SUFFICES ASSUME NEW c \in Conns \ aborted, peer[c].stage \in {"new", "user", "pass"},
                        NEW i \in DOMAIN peer[c].inbox
                 PROVE  peer[c].inbox[i] # "command"
    BY DEF NoCommandAsCredential
  <2>2. NoCommandIn(peer[c].inbox)
    BY <1>1, <2>1 DEF IInv, VInv, Sound, Asking
  <2>3. peer[c].inbox \in Seq(Typed)
    BY <1>1 DEF IInv, TInv, Devices
  <2>4. i \in 1 .. Len(peer[c].inbox)
    BY <2>3, LenProperties
  <2>. QED
    BY <2>2, <2>4 DEF NoCommandIn
<1>. QED
  BY <1>1, Invariance, PTL

(* The device judges credentials once per session at most, whatever close()    *)
(* types at its prompts: three lines are all it is ever typed there, and the *)
(* fourth would be the second password.                                      *)
THEOREM OneVerdictOnly == Spec => []OneVerdictPerSession
<1>1. ASSUME IInv
      PROVE  OneVerdictPerSession
  <2>1. SUFFICES ASSUME NEW c \in Conns \ aborted
                 PROVE  peer[c].verdicts <= 1
    BY DEF OneVerdictPerSession
  <2>2. Sound(c) /\ TInv
    BY <1>1 DEF IInv, VInv
  <2>3. Len(peer[c].inbox) \in Nat /\ peer[c].verdicts \in Nat /\ Lines(c) \in Nat
    BY <2>2, LinesTyped
  <2>4. Quota(c) <= 3 /\ Quota(c) \in Nat
    BY DEF Quota
  <2>5. Lines(c) >= 2 * peer[c].verdicts
    BY <2>3, CountFacts DEF Lines
  <2>. QED
    BY <2>2, <2>3, <2>4, <2>5 DEF Sound
<1>. QED
  BY <1>1, Invariance, PTL

-----------------------------------------------------------------------------
(* The conversation.                                                        *)
(*                                                                         *)
(* Inductive, with IInv, is where it stands (Turn): what has been read since *)
(* the last line together with what is in flight is the beginning of what   *)
(* the device says in answer to that line, and nothing that connect() waits *)
(* for is in the part it has read (Unfound).                               *)

Begins(t, full) == Len(t) <= Len(full) /\ \A i \in 1 .. Len(t) : t[i] = full[i]

(* A text t that the device has said, but for what a lost connection took     *)
(* away, is one of the scripts.                                            *)
Tells(t, scripts) == \E words \in scripts : Begins(t, Said(words))

(* The turns of the conversation: what the device has said since the last     *)
(* line, by the connection d that is held.                                 *)
Greetings == {<<"Username">>, <<"Locked">>, <<"Bad">>}
AtUser(t, d) ==
    /\ d.inbox = <<>> /\ d.verdicts = 0
    /\ \/ d.stage = "new" /\ t = <<>>
       \/ d.stage \in {"user", "gone"} /\ Tells(t, Greetings)

Requests == {<<"Password">>, <<"Locked">>}
AtPass(t, d) ==
    \/ d.inbox = <<"username">> /\ d.stage \in {"user", "gone"} /\ t = <<>>
    \/ d.inbox = <<>> /\ d.stage \in {"pass", "gone"} /\ Tells(t, Requests)

Verdicts == {<<"Ok", "Blank">>, <<"Bad">>, <<"Bad", "Locked">>, <<"Bad", "Username">>}
AtResult(t, d) ==
    \/ d.inbox = <<"password">> /\ d.stage \in {"pass", "gone"} /\ t = <<>>
    \/ d.inbox = <<>> /\ d.stage \in {"user", "shell", "gone"} /\ Tells(t, Verdicts)

AtProcess(t, d) ==
    d.stage \in {"shell", "gone"} /\ "Ok" \in d.said /\ d.inbox = <<>> /\ t = <<>>

Openings == {<<"Banner", "Ok", "Firmware">>, <<"Banner", "Ok", "Error">>, <<"Bad">>, <<"Locked">>}
AtPrime(t, d) ==
    /\ d.stage \in {"shell", "gone"} /\ "Ok" \in d.said
    /\ \/ d.inbox = <<"firmware">> /\ t = <<>>
       \/ d.inbox = <<>> /\ Tells(t, Openings)

Scripts == Greetings \cup Requests \cup Verdicts \cup Openings

TurnOf(at, t, d) ==
    /\ \A i \in 1 .. Len(t) : t[i][1] \in d.said
    /\ at = "user"    => AtUser(t, d)
    /\ at = "pass"    => AtPass(t, d)
    /\ at = "result"  => AtResult(t, d)
    /\ at = "process" => AtProcess(t, d)
    /\ at = "prime"   => AtPrime(t, d)

Text == heard \o stream
At   == pc \notin {"idle", "closing", "opening", "raising"} /\ conn # 0

Turn == At => conn = Made /\ TurnOf(pc, Text, peer[conn])

Even(n) == n % 2 = 0

Unfound ==
    /\ heard \in Seq(Pieces)
    /\ pc \in {"idle", "closing", "opening", "raising", "process"} => heard = <<>>
    /\ pc \in Prompts => heard = buf
    /\ \A w \in Needles(pc) : ~Contains(heard, w)
    /\ pc = "prime" => stream = <<>> \/ Even(Len(heard))

-----------------------------------------------------------------------------
(* Words and their pieces                                                   *)

LEMMA SaidWords ==
    ASSUME NEW words \in Seq(Words)
    PROVE  /\ Said(words) \in Seq(Pieces) /\ Len(words) \in Nat
           /\ Len(Said(words)) = 2 * Len(words)
           /\ \A j \in 1 .. Len(words) : /\ words[j] \in Words
                                         /\ Said(words)[2 * j - 1] = <<words[j], "head">>
                                         /\ Said(words)[2 * j] = <<words[j], "tail">>
<1>1. Len(words) \in Nat /\ \A j \in 1 .. Len(words) : words[j] \in Words
  BY LenProperties, ElementOfSeq
<1>2. Said(words) \in Seq(Pieces)
  BY SaidTyped
<1>3. /\ DOMAIN Said(words) = 1 .. 2 * Len(words)
      /\ \A i \in 1 .. 2 * Len(words) :
            Said(words)[i] = <<words[(i + 1) \div 2], IF i % 2 = 1 THEN "head" ELSE "tail">>
  BY DEF Said
<1>4. Len(Said(words)) = 2 * Len(words)
  BY <1>1, <1>2, <1>3, LenProperties
<1>5. ASSUME NEW j \in 1 .. Len(words)
      PROVE  /\ Said(words)[2 * j - 1] = <<words[j], "head">>
             /\ Said(words)[2 * j] = <<words[j], "tail">>
  <2>1. /\ 2 * j - 1 \in 1 .. 2 * Len(words) /\ 2 * j \in 1 .. 2 * Len(words)
        /\ ((2 * j - 1) + 1) \div 2 = j /\ (2 * j - 1) % 2 = 1
        /\ (2 * j + 1) \div 2 = j /\ (2 * j) % 2 # 1
    BY <1>1
  <2>. QED
    BY <1>3, <2>1
<1>. QED
  BY <1>1, <1>2, <1>4, <1>5

(* Every piece of what was said is the head or the tail of one of the words.  *)
LEMMA WhichWord ==
    ASSUME NEW n \in Nat, NEW i \in 1 .. 2 * n
    PROVE  \E j \in 1 .. n : i = 2 * j - 1 \/ i = 2 * j
<1>1. CASE i % 2 = 1
  <2>1. (i + 1) \div 2 \in 1 .. n /\ i = 2 * ((i + 1) \div 2) - 1
    BY <1>1
  <2>. QED
    BY <2>1
<1>2. CASE i % 2 = 0
  <2>1. i \div 2 \in 1 .. n /\ i = 2 * (i \div 2)
    BY <1>2
  <2>. QED
    BY <2>1
<1>. QED
  BY <1>1, <1>2

(* A word found in a text that begins what was said is one of the words said, *)
(* and the text reaches to its end.                                         *)
LEMMA Occurs ==
    ASSUME NEW words \in Seq(Words), NEW t \in Seq(Pieces), Begins(t, Said(words)),
           NEW w, Contains(t, w)
    PROVE  \E j \in 1 .. Len(words) : words[j] = w /\ 2 * j <= Len(t)
<1>1. Len(t) \in Nat
  BY LenProperties
<1>2. PICK i \in 1 .. Len(t) - 1 : t[i] = <<w, "head">>
  BY DEF Contains
<1>3. i \in 1 .. 2 * Len(words) /\ i \in 1 .. Len(t) /\ Said(words)[i] = <<w, "head">>
  BY <1>1, <1>2, SaidWords DEF Begins
<1>4. Len(words) \in Nat
  BY SaidWords
<1>5. PICK j \in 1 .. Len(words) : i = 2 * j - 1 \/ i = 2 * j
  BY <1>3, <1>4, WhichWord
<1>6. i # 2 * j
  <2>1. Said(words)[2 * j] = <<words[j], "tail">>
    BY SaidWords
  <2>2. <<words[j], "tail">> # <<w, "head">>
    OBVIOUS
  <2>. QED
    BY <1>3, <2>1, <2>2
<1>7. Said(words)[2 * j - 1] = <<words[j], "head">>
  BY SaidWords
<1>8. words[j] = w
  <2>1. <<words[j], "head">> = <<w, "head">>
    BY <1>3, <1>5, <1>6, <1>7
  <2>. QED
    BY <2>1
<1>9. 2 * j <= Len(t)
  BY <1>1, <1>2, <1>5, <1>6
<1>. QED
  BY <1>8, <1>9

(* Conversely, what has come of what was said contains its words.            *)
LEMMA Shows ==
    ASSUME NEW words \in Seq(Words), NEW t \in Seq(Pieces), Begins(t, Said(words)),
           NEW j \in 1 .. Len(words), 2 * j <= Len(t)
    PROVE  Contains(t, words[j])
<1>1. Len(t) \in Nat
  BY LenProperties
<1>2. 2 * j - 1 \in 1 .. Len(t) - 1 /\ 2 * j - 1 \in 1 .. Len(t) /\ 2 * j \in 1 .. Len(t)
      /\ (2 * j - 1) + 1 = 2 * j
  BY <1>1
<1>3. t[2 * j - 1] = <<words[j], "head">> /\ t[2 * j] = <<words[j], "tail">>
  BY <1>2, SaidWords DEF Begins
<1>. QED
  BY <1>2, <1>3 DEF Contains

(* A word of the text is one of its pieces.                                  *)
LEMMA FoundPiece ==
    ASSUME NEW t \in Seq(Pieces), NEW w, Contains(t, w)
    PROVE  Len(t) >= 2 /\ \E i \in 1 .. Len(t) : t[i][1] = w
<1>1. Len(t) \in Nat
  BY LenProperties
<1>2. PICK i \in 1 .. Len(t) - 1 : t[i] = <<w, "head">>
  BY DEF Contains
<1>3. t[i][1] = w /\ i \in 1 .. Len(t) /\ Len(t) >= 2
  BY <1>1, <1>2
<1>. QED
  BY <1>3

(* Text h that was read and s that was not, cut after n more pieces.          *)
CutAt(h, read, rest, s, n) ==
    /\ read \in Seq(Pieces) /\ Len(read) = n
    /\ rest \in Seq(Pieces) /\ Len(rest) = Len(s) - n
    /\ h \o read \in Seq(Pieces) /\ Len(h \o read) = Len(h) + n
    /\ h \o s \in Seq(Pieces) /\ Len(h \o s) = Len(h) + Len(s)
    /\ (h \o read) \o rest = h \o s
    /\ \A i \in 1 .. Len(h) + n : (h \o read)[i] = (h \o s)[i]
    /\ \A i \in 1 .. Len(s) - n : rest[i] = (h \o s)[(Len(h) + n) + i]

LEMMA Cut ==
    ASSUME NEW h \in Seq(Pieces), NEW s \in Seq(Pieces), NEW n \in 0 .. Len(s)
    PROVE  CutAt(h, SubSeq(s, 1, n), SubSeq(s, n + 1, Len(s)), s, n)
<1>. DEFINE read == SubSeq(s, 1, n)
            rest == SubSeq(s, n + 1, Len(s))
            t    == h \o read
<1>1. Len(h) \in Nat /\ Len(s) \in Nat /\ n \in Nat
  BY LenProperties
<1>2. read \in Seq(Pieces) /\ rest \in Seq(Pieces)
  BY PartsTyped
<1>3. \A j \in 1 .. Len(s) : s[j] \in Pieces
  BY ElementOfSeq
<1>4. Len(read) = n /\ \A i \in 1 .. n : read[i] = s[i]
  BY <1>1, <1>3, SubSeqProperties
<1>5. Len(rest) = Len(s) - n /\ \A i \in 1 .. Len(s) - n : rest[i] = s[n + i]
  BY <1>1, <1>3, SubSeqProperties
<1>. HIDE DEF read, rest
<1>6. /\ t \in Seq(Pieces) /\ Len(t) = Len(h) + n
      /\ \A i \in 1 .. Len(h) + n : t[i] = IF i <= Len(h) THEN h[i] ELSE read[i - Len(h)]
  BY <1>2, <1>4, ConcatProperties
<1>7. /\ h \o s \in Seq(Pieces) /\ Len(h \o s) = Len(h) + Len(s)
      /\ \A i \in 1 .. Len(h) + Len(s) : (h \o s)[i] = IF i <= Len(h) THEN h[i] ELSE s[i - Len(h)]
  BY ConcatProperties
<1>. HIDE DEF t
<1>8. /\ t \o rest \in Seq(Pieces) /\ Len(t \o rest) = Len(t) + Len(rest)
      /\ \A i \in 1 .. Len(t) + Len(rest) : (t \o rest)[i] = IF i <= Len(t) THEN t[i] ELSE rest[i - Len(t)]
  BY <1>2, <1>6, ConcatProperties
<1>9. \A i \in 1 .. Len(t) : t[i] = (h \o s)[i]
  BY <1>1, <1>4, <1>6, <1>7
<1>11. \A i \in 1 .. Len(rest) : rest[i] = (h \o s)[Len(t) + i]
  <2>. SUFFICES ASSUME NEW i \in 1 .. Len(rest) PROVE rest[i] = (h \o s)[Len(t) + i]
    OBVIOUS
  <2>1. /\ Len(t) + i \in 1 .. Len(h) + Len(s) /\ ~(Len(t) + i <= Len(h))
        /\ (Len(t) + i) - Len(h) = n + i /\ i \in 1 .. Len(s) - n
    BY <1>1, <1>5, <1>6
  <2>. QED
    BY <1>5, <1>7, <2>1
<1>12. t \o rest = h \o s
  <2>1. Len(t \o rest) = Len(h \o s) /\ Len(t) \in Nat /\ Len(rest) \in Nat
    BY <1>1, <1>5, <1>6, <1>7, <1>8
  <2>2. ASSUME NEW i \in 1 .. Len(t \o rest) PROVE (t \o rest)[i] = (h \o s)[i]
    <3>1. CASE i <= Len(t)
      BY <1>8, <1>9, <2>1, <3>1
    <3>2. CASE i > Len(t)
      <4>1. i - Len(t) \in 1 .. Len(rest) /\ Len(t) + (i - Len(t)) = i
        BY <1>8, <2>1, <3>2
      <4>2. (t \o rest)[i] = rest[i - Len(t)]
        BY <1>8, <2>1, <3>2
      <4>3. rest[i - Len(t)] = (h \o s)[Len(t) + (i - Len(t))]
        BY <1>11, <4>1
      <4>. QED
        BY <4>1, <4>2, <4>3
    <3>. QED
      BY <1>8, <2>1, <3>1, <3>2
  <2>. QED
    BY <1>7, <1>8, <2>1, <2>2, SeqEqual
<1>. QED
  <2>1. /\ \A i \in 1 .. Len(h) + n : t[i] = (h \o s)[i]
        /\ \A i \in 1 .. Len(s) - n : rest[i] = (h \o s)[(Len(h) + n) + i]
    BY <1>5, <1>6, <1>9, <1>11
  <2>. QED
    BY <1>2, <1>4, <1>5, <1>6, <1>7, <1>12, <2>1, Zenon DEF CutAt, t, read, rest

(* A beginning of a beginning.                                              *)
LEMMA BeginsPart ==
    ASSUME NEW t \in Seq(Pieces), NEW u \in Seq(Pieces), NEW full \in Seq(Pieces),
           Begins(t, u), Begins(u, full)
    PROVE  Begins(t, full)
<1>1. Len(t) \in Nat /\ Len(u) \in Nat /\ Len(full) \in Nat
  BY LenProperties
<1>. QED
  BY <1>1 DEF Begins

LEMMA BeginsNothing ==
    ASSUME NEW full \in Seq(Pieces)
    PROVE  Begins(<<>>, full) /\ Begins(full, full)
<1>1. Len(full) \in Nat /\ Len(<<>>) = 0
  BY LenProperties, EmptySeq
<1>. QED
  BY <1>1 DEF Begins

-----------------------------------------------------------------------------
(* The turns                                                                *)

LEMMA ScriptsTyped == \A words \in Scripts : words \in Seq(Words) /\ Said(words) \in Seq(Pieces)
<1>1. {"Username", "Password", "Ok", "Bad", "Locked", "Blank", "Banner", "Firmware", "Error"} = Words
  BY DEF Words
<1>2. /\ Greetings \subseteq Seq(Words) /\ Requests \subseteq Seq(Words)
  BY <1>1, WordsTyped DEF Greetings, Requests
<1>3. Verdicts \subseteq Seq(Words)
  BY <1>1, WordsTyped DEF Verdicts
<1>4. Openings \subseteq Seq(Words)
  BY <1>1, WordsTyped DEF Openings
<1>5. Scripts \subseteq Seq(Words)
  BY <1>2, <1>3, <1>4 DEF Scripts
<1>. QED
  BY <1>5, SaidTyped

(* A word in the beginning of a text that one of the scripts tells.          *)
LEMMA FoundIn ==
    ASSUME NEW scripts \in SUBSET Scripts, NEW full \in Seq(Pieces), Tells(full, scripts),
           NEW t \in Seq(Pieces), Begins(t, full), NEW w, Contains(t, w)
    PROVE  \E words \in scripts :
              /\ Begins(full, Said(words)) /\ Len(full) <= 2 * Len(words)
              /\ \E j \in 1 .. Len(words) : words[j] = w /\ 2 * j <= Len(t)
<1>1. PICK words \in scripts : Begins(full, Said(words))
  BY DEF Tells
<1>2. words \in Seq(Words) /\ Said(words) \in Seq(Pieces)
  BY ScriptsTyped
<1>3. Begins(t, Said(words))
  BY <1>1, <1>2, BeginsPart
<1>4. \E j \in 1 .. Len(words) : words[j] = w /\ 2 * j <= Len(t)
  BY <1>2, <1>3, Occurs
<1>5. Len(full) <= 2 * Len(words)
  BY <1>1, <1>2, SaidWords DEF Begins
<1>. QED
  BY <1>1, <1>4, <1>5

(* What is told stays told when the end of it is lost.                       *)
LEMMA TellsPart ==
    ASSUME NEW scripts \in SUBSET Scripts, NEW full \in Seq(Pieces), Tells(full, scripts),
           NEW t \in Seq(Pieces), Begins(t, full)
    PROVE  Tells(t, scripts)
<1>1. PICK words \in scripts : Begins(full, Said(words))
  BY DEF Tells
<1>2. Said(words) \in Seq(Pieces)
  BY ScriptsTyped
<1>3. Begins(t, Said(words))
  BY <1>1, <1>2, BeginsPart
<1>. QED
  BY <1>3 DEF Tells

(* The connection is lost, and some of the text with it.                     *)
LEMMA TurnLost ==
    ASSUME NEW at, NEW full \in Seq(Pieces), NEW d, NEW e, TurnOf(at, full, d),
           NEW t \in Seq(Pieces), Begins(t, full),
           e.stage = "gone" /\ e.inbox = d.inbox /\ e.said = d.said /\ e.verdicts = d.verdicts
    PROVE  TurnOf(at, t, e)
<1>1. Len(t) \in Nat /\ Len(full) \in Nat
  BY LenProperties
<1>2. \A i \in 1 .. Len(t) : t[i][1] \in e.said
  BY <1>1 DEF TurnOf, Begins
<1>3. full = <<>> => t = <<>>
  BY <1>1, EmptySeq DEF Begins
<1>4. /\ Greetings \in SUBSET Scripts /\ Requests \in SUBSET Scripts
      /\ Verdicts \in SUBSET Scripts /\ Openings \in SUBSET Scripts
  BY DEF Scripts
<1>5. /\ Tells(full, Greetings) => Tells(t, Greetings)
      /\ Tells(full, Requests) => Tells(t, Requests)
      /\ Tells(full, Verdicts) => Tells(t, Verdicts)
      /\ Tells(full, Openings) => Tells(t, Openings)
  BY <1>4, TellsPart
<1>6. Tells(<<>>, Greetings)
  <2>1. Begins(<<>>, Said(<<"Username">>)) /\ <<"Username">> \in Greetings
    BY ScriptsTyped, BeginsNothing DEF Scripts, Greetings
  <2>. QED
    BY <2>1 DEF Tells
<1>7. at = "user" => AtUser(t, e)
  BY <1>3, <1>5, <1>6 DEF TurnOf, AtUser
<1>8. at = "pass" => AtPass(t, e)
  BY <1>3, <1>5 DEF TurnOf, AtPass
<1>9. at = "result" => AtResult(t, e)
  BY <1>3, <1>5 DEF TurnOf, AtResult
<1>10. at = "process" => AtProcess(t, e)
  BY <1>3 DEF TurnOf, AtProcess
<1>11. at = "prime" => AtPrime(t, e)
  BY <1>3, <1>5 DEF TurnOf, AtPrime
<1>. QED
  BY <1>2, <1>7, <1>8, <1>9, <1>10, <1>11 DEF TurnOf

(* The device answers: its words arrive, or nothing does after the end.       *)
LEMMA TurnAnswered ==
    ASSUME NEW words \in Seq(Words), NEW t, t = <<>> \/ t = Said(words),
           NEW said, \A j \in 1 .. Len(words) : words[j] \in said
    PROVE  /\ \A i \in 1 .. Len(t) : t[i][1] \in said
           /\ \A scripts : words \in scripts => Tells(t, scripts)
<1>1. Said(words) \in Seq(Pieces) /\ Len(words) \in Nat
  BY SaidWords
<1>2. Begins(t, Said(words))
  BY <1>1, BeginsNothing
<1>3. \A i \in 1 .. Len(Said(words)) : Said(words)[i][1] \in said
  BY <1>1, SaidTyped, LenProperties
<1>4. \A i \in 1 .. Len(<<>>) : <<>>[i][1] \in said
  BY EmptySeq
<1>5. \A i \in 1 .. Len(t) : t[i][1] \in said
  BY <1>3, <1>4
<1>. QED
  BY <1>2, <1>5 DEF Tells

-----------------------------------------------------------------------------
(* What it means that a needle is found at a turn                            *)

LEMMA FewWords ==
    /\ \A a : \A j \in 1 .. Len(<<a>>) : <<a>>[j] = a
    /\ \A a, b : \A j \in 1 .. Len(<<a, b>>) : <<a, b>>[j] \in {a, b}
    /\ \A a, b, c : \A j \in 1 .. Len(<<a, b, c>>) : <<a, b, c>>[j] \in {a, b, c}
OBVIOUS

(* The user name is asked for: nothing more is on its way.                   *)
LEMMA AskedForUser ==
    ASSUME NEW full \in Seq(Pieces), NEW t \in Seq(Pieces), Begins(t, full),
           NEW d, TurnOf("user", full, d), Contains(t, "Username")
    PROVE  d.inbox = <<>> /\ d.stage \in {"user", "gone"} /\ Len(full) <= Len(t)
<1>1. Len(t) \in Nat /\ Len(full) \in Nat /\ Len(t) >= 2 /\ full # <<>>
  BY LenProperties, FoundPiece, EmptySeq DEF Begins
<1>2. d.inbox = <<>> /\ d.stage \in {"user", "gone"} /\ Tells(full, Greetings)
  BY <1>1 DEF TurnOf, AtUser
<1>3. PICK words \in Greetings :
         Len(full) <= 2 * Len(words) /\ \E j \in 1 .. Len(words) : words[j] = "Username"
  BY <1>2, FoundIn DEF Scripts
<1>4. Len(words) = 1
  BY <1>3 DEF Greetings
<1>. QED
  BY <1>1, <1>2, <1>3, <1>4

LEMMA AskedForPassword ==
    ASSUME NEW full \in Seq(Pieces), NEW t \in Seq(Pieces), Begins(t, full),
           NEW d, TurnOf("pass", full, d), Contains(t, "Password")
    PROVE  d.inbox = <<>> /\ d.stage \in {"pass", "gone"} /\ Len(full) <= Len(t)
<1>1. Len(t) \in Nat /\ Len(full) \in Nat /\ Len(t) >= 2 /\ full # <<>>
  BY LenProperties, FoundPiece, EmptySeq DEF Begins
<1>2. d.inbox = <<>> /\ d.stage \in {"pass", "gone"} /\ Tells(full, Requests)
  BY <1>1 DEF TurnOf, AtPass
<1>3. PICK words \in Requests :
         Len(full) <= 2 * Len(words) /\ \E j \in 1 .. Len(words) : words[j] = "Password"
  BY <1>2, FoundIn DEF Scripts
<1>4. Len(words) = 1
  BY <1>3 DEF Requests
<1>. QED
  BY <1>1, <1>2, <1>3, <1>4

(* The login is accepted: what may follow is a blank line.                   *)
LEMMA LetIn ==
    ASSUME NEW full \in Seq(Pieces), NEW t \in Seq(Pieces), Begins(t, full),
           NEW d, TurnOf("result", full, d), Contains(t, "Ok")
    PROVE  /\ d.inbox = <<>>
           /\ \A i \in 1 .. Len(full) : i > Len(t) => full[i][1] = "Blank"
<1>1. Len(t) \in Nat /\ Len(full) \in Nat /\ Len(t) >= 2 /\ full # <<>>
  BY LenProperties, FoundPiece, EmptySeq DEF Begins
<1>2. d.inbox = <<>> /\ Tells(full, Verdicts)
  BY <1>1 DEF TurnOf, AtResult
<1>3. PICK words \in Verdicts :
         /\ Begins(full, Said(words))
         /\ \E j \in 1 .. Len(words) : words[j] = "Ok"
  BY <1>2, FoundIn DEF Scripts
<1>4. words = <<"Ok", "Blank">>
  <2>1. PICK j \in 1 .. Len(words) : words[j] = "Ok"
    BY <1>3
  <2>2. words = <<"Bad">> => words[j] = "Bad"
    BY FewWords, Zenon
  <2>3. words = <<"Bad", "Locked">> => words[j] \in {"Bad", "Locked"}
    BY FewWords, Zenon
  <2>4. words = <<"Bad", "Username">> => words[j] \in {"Bad", "Username"}
    BY FewWords, Zenon
  <2>. QED
    BY <2>1, <2>2, <2>3, <2>4 DEF Verdicts
<1>5. words \in Seq(Words) /\ Len(words) = 2 /\ words[2] = "Blank"
  BY <1>3, <1>4, ScriptsTyped DEF Scripts
<1>6. /\ Len(Said(words)) = 4
      /\ Said(words)[3] = <<"Blank", "head">> /\ Said(words)[4] = <<"Blank", "tail">>
  <2>1. Len(Said(words)) = 2 * Len(words)
    BY <1>5, SaidWords
  <2>2. /\ Said(words)[2 * 2 - 1] = <<words[2], "head">>
        /\ Said(words)[2 * 2] = <<words[2], "tail">>
    <3>1. 2 \in 1 .. Len(words)
      BY <1>5
    <3>. QED
      BY <1>5, <3>1, SaidWords, Zenon
  <2>. QED
    BY <1>5, <2>1, <2>2
<1>7. ASSUME NEW i \in 1 .. Len(full), i > Len(t)
      PROVE  full[i][1] = "Blank"
  <2>1. (i = 3 \/ i = 4) /\ full[i] = Said(words)[i]
    BY <1>1, <1>3, <1>6, <1>7 DEF Begins
  <2>. QED
    BY <1>6, <2>1
<1>. QED
  BY <1>2, <1>7

(* The session is primed: nothing follows.                                   *)
LEMMA PrimedLast ==
    ASSUME NEW full \in Seq(Pieces), NEW t \in Seq(Pieces), Begins(t, full),
           NEW d, TurnOf("prime", full, d), Contains(t, "Firmware")
    PROVE  d.inbox = <<>> /\ Len(full) <= Len(t)
<1>1. Len(t) \in Nat /\ Len(full) \in Nat /\ Len(t) >= 2 /\ full # <<>>
  BY LenProperties, FoundPiece, EmptySeq DEF Begins
<1>2. d.inbox = <<>> /\ Tells(full, Openings)
  BY <1>1 DEF TurnOf, AtPrime
<1>3. PICK words \in Openings :
         /\ Len(full) <= 2 * Len(words)
         /\ \E j \in 1 .. Len(words) : words[j] = "Firmware" /\ 2 * j <= Len(t)
  BY <1>2, FoundIn DEF Scripts
<1>4. PICK j \in 1 .. Len(words) : words[j] = "Firmware" /\ 2 * j <= Len(t)
  BY <1>3
<1>5. words = <<"Banner", "Ok", "Firmware">>
  <2>1. words = <<"Banner", "Ok", "Error">> => words[j] \in {"Banner", "Ok", "Error"}
    BY FewWords, Zenon
  <2>2. words = <<"Bad">> => words[j] = "Bad"
    BY FewWords, Zenon
  <2>3. words = <<"Locked">> => words[j] = "Locked"
    BY FewWords, Zenon
  <2>. QED
    BY <1>3, <1>4, <2>1, <2>2, <2>3 DEF Openings
<1>6. Len(words) = 3 /\ j = 3
  <2>1. Len(words) = 3 /\ words[1] = "Banner" /\ words[2] = "Ok"
    BY <1>5
  <2>. QED
    BY <1>4, <2>1
<1>. QED
  BY <1>1, <1>2, <1>3, <1>4, <1>6

LEMMA Parity ==
    ASSUME NEW n \in Nat, Even(n), NEW m \in 1 .. 2, NEW j \in Nat, 2 * j <= n + m, ~(2 * j <= n)
    PROVE  m = 2 /\ 2 * j = n + 2
BY DEF Even

(* A line read on top of whole words holds the word that it adds.            *)
LEMMA LineAdds ==
    ASSUME NEW full \in Seq(Pieces), NEW scripts \in SUBSET Scripts, Tells(full, scripts),
           NEW h \in Seq(Pieces), NEW line \in Seq(Pieces), Begins(h \o line, full),
           Even(Len(h)), Len(line) \in 1 .. 2, NEW w, Contains(h \o line, w), ~Contains(h, w)
    PROVE  Contains(line, w)
<1>. DEFINE t == h \o line
<1>1. /\ t \in Seq(Pieces) /\ Len(t) = Len(h) + Len(line) /\ Len(h) \in Nat /\ Len(line) \in Nat
      /\ \A i \in 1 .. Len(h) + Len(line) : t[i] = IF i <= Len(h) THEN h[i] ELSE line[i - Len(h)]
  BY ConcatProperties, LenProperties
<1>. HIDE DEF t
<1>2. PICK words \in scripts : Begins(full, Said(words))
  BY DEF Tells
<1>3. words \in Seq(Words) /\ Said(words) \in Seq(Pieces) /\ Len(words) \in Nat
  BY ScriptsTyped, SaidWords
<1>4. Begins(t, Said(words)) /\ Contains(t, w)
  BY <1>1, <1>2, <1>3, BeginsPart DEF t
<1>5. Begins(h, Said(words))
  BY <1>1, <1>4 DEF Begins
<1>6. PICK j \in 1 .. Len(words) : words[j] = w /\ 2 * j <= Len(t)
  BY <1>1, <1>3, <1>4, Occurs
<1>7. ~(2 * j <= Len(h))
  BY <1>3, <1>5, <1>6, Shows
<1>8. Len(line) = 2 /\ 2 * j = Len(h) + 2
  <2>1. j \in Nat /\ Len(h) \in Nat /\ 2 * j <= Len(h) + Len(line)
    BY <1>1, <1>3, <1>6
  <2>. QED
    BY <1>7, <2>1, Parity, Zenon
<1>9. line[1] = t[2 * j - 1] /\ line[2] = t[2 * j]
  <2>1. /\ 2 * j - 1 \in 1 .. Len(h) + Len(line) /\ ~(2 * j - 1 <= Len(h)) /\ (2 * j - 1) - Len(h) = 1
        /\ 2 * j \in 1 .. Len(h) + Len(line) /\ ~(2 * j <= Len(h)) /\ (2 * j) - Len(h) = 2
    BY <1>1, <1>8
  <2>. QED
    BY <1>1, <2>1
<1>10. t[2 * j - 1] = <<w, "head">> /\ t[2 * j] = <<w, "tail">>
  <2>1. /\ Said(words)[2 * j - 1] = <<words[j], "head">>
        /\ Said(words)[2 * j] = <<words[j], "tail">>
    BY <1>3, SaidWords
  <2>2. 2 * j - 1 \in 1 .. Len(t) /\ 2 * j \in 1 .. Len(t)
    BY <1>1, <1>8
  <2>. QED
    BY <1>4, <1>6, <2>1, <2>2 DEF Begins
<1>11. 1 \in 1 .. Len(line) - 1 /\ line[1] = <<w, "head">> /\ line[1 + 1] = <<w, "tail">>
  BY <1>8, <1>9, <1>10
<1>. QED
  BY <1>11 DEF Contains

(* What is read now, and what is left, of the text.                          *)
LEMMA TextRead ==
    ASSUME IInv, heard \in Seq(Pieces), NEW n \in 0 .. Len(stream)
    PROVE  LET t == heard \o Read(n)
           IN  /\ t \in Seq(Pieces) /\ Read(n) \in Seq(Pieces) /\ Rest(n) \in Seq(Pieces)
               /\ Text \in Seq(Pieces) /\ Begins(t, Text) /\ t \o Rest(n) = Text
               /\ Len(Read(n)) = n /\ Len(t) = Len(heard) + n /\ Len(Text) = Len(t) + Len(Rest(n))
               /\ \A i \in 1 .. Len(Rest(n)) : Rest(n)[i] = Text[Len(t) + i]
<1>1. stream \in Seq(Pieces)
  BY DEF IInv, TInv, LoginTypeOK
<1>. DEFINE t == heard \o Read(n)
<1>2. /\ Read(n) \in Seq(Pieces) /\ Rest(n) \in Seq(Pieces) /\ t \in Seq(Pieces)
      /\ Len(Read(n)) = n /\ Len(Rest(n)) = Len(stream) - n /\ Len(t) = Len(heard) + n
      /\ Text \in Seq(Pieces) /\ Len(Text) = Len(heard) + Len(stream) /\ t \o Rest(n) = Text
      /\ \A i \in 1 .. Len(heard) + n : t[i] = Text[i]
      /\ \A i \in 1 .. Len(stream) - n : Rest(n)[i] = Text[(Len(heard) + n) + i]
  <2>1. CutAt(heard, Read(n), Rest(n), stream, n)
    BY <1>1, Cut, Zenon DEF Read, Rest
  <2>. QED
    BY <2>1, Zenon DEF CutAt, Text
<1>. HIDE DEF t
<1>3. Len(stream) \in Nat /\ Len(heard) \in Nat
  BY <1>1, LenProperties
<1>4. Begins(t, Text) /\ Len(Text) = Len(t) + Len(Rest(n))
  BY <1>2, <1>3 DEF Begins
<1>. QED
  BY <1>2, <1>4 DEF t

-----------------------------------------------------------------------------
(* The steps                                                                *)

Conv == Turn /\ Unfound

LEMMA NoNeedles == Needles("idle") = {} /\ Needles("opening") = {} /\ Needles("closing") = {} /\ Needles("raising") = {} /\ Needles("process") = {}
BY DEF Needles

(* Outside of the conversation nothing has been heard.                       *)
LEMMA Outside ==
    ASSUME pc' \in {"idle", "closing", "opening", "raising"}, heard' = <<>>
    PROVE  Conv'
<1>1. Turn'
  BY DEF Turn, At
<1>2. Unfound'
  <2>1. heard' \in Seq(Pieces) /\ pc' \notin Prompts /\ pc' # "prime" /\ Needles(pc') = {}
    BY EmptyTyped, NoNeedles DEF Prompts
  <2>. QED
    BY <2>1 DEF Unfound
<1>. QED
  BY <1>1, <1>2 DEF Conv

LEMMA ReturnedOutside ==
    ASSUME NEW result, Returned(result)
    PROVE  Conv'
BY Outside DEF Returned, Reported

LEMMA RaisedOutside ==
    ASSUME NEW result, Raise(result)
    PROVE  Conv'
<1>1. pc' = (IF handle' THEN "raising" ELSE "idle") /\ heard' = <<>>
  BY DEF Raise, Reported
<1>. QED
  BY <1>1, Outside

(* A step that leaves the text, and the turn, as they are.                   *)
LEMMA Kept ==
    ASSUME Conv, Made' = Made, UNCHANGED <<pc, conn, heard, stream, buf>>,
           conn # 0 => peer'[conn] = peer[conn]
    PROVE  Conv'
<1>1. Text' = Text
  BY DEF Text
<1>2. Turn'
  BY <1>1 DEF Conv, Turn, At
<1>3. Unfound'
  BY DEF Conv, Unfound
<1>. QED
  BY <1>2, <1>3 DEF Conv

(* The connection is closed under a login.                                   *)
LEMMA CutOff ==
    ASSUME Conv, conn' = 0, stream' = <<>>, UNCHANGED <<pc, heard, buf>>
    PROVE  Conv'
<1>1. Turn'
  BY DEF Turn, At
<1>2. Unfound'
  BY DEF Conv, Unfound
<1>. QED
  BY <1>1, <1>2 DEF Conv

LEMMA CloseTalks ==
    ASSUME IInv, Conv, Close
    PROVE  Conv'
<1>1. conn' = 0 /\ stream' = <<>> /\ UNCHANGED <<pc, heard, buf>>
  BY DEF Close, Closing, CloseUnderlying
<1>. QED
  BY <1>1, CutOff

LEMMA ConnectTalks ==
    ASSUME IInv, Conv, Connect
    PROVE  Conv'
<1>1. pc = "idle" /\ pc' = (IF handle' THEN "closing" ELSE "opening") /\ heard' = heard
  BY DEF Connect
<1>2. heard = <<>>
  BY <1>1 DEF Conv, Unfound
<1>. QED
  BY <1>1, <1>2, Outside

LEMMA ForgetTalks ==
    ASSUME IInv, Conv, ForgetConnection
    PROVE  Conv'
<1>1. conn = 0 /\ stream = <<>>
  BY DEF ForgetConnection, IInv, TInv, LoginTypeOK, LInv
<1>2. conn' = 0 /\ UNCHANGED <<heard, buf, stream, peer>>
  BY DEF ForgetConnection, channel
<1>3. CASE pc \in {"closing", "raising"}
  <2>1. pc' \in {"opening", "idle"} /\ heard = <<>>
    BY <1>3 DEF ForgetConnection, Conv, Unfound
  <2>. QED
    BY <1>2, <2>1, Outside
<1>4. CASE pc \notin {"closing", "raising"}
  <2>1. pc' = pc
    BY <1>4 DEF ForgetConnection
  <2>. QED
    BY <1>1, <1>2, <2>1, CutOff
<1>. QED
  BY <1>3, <1>4

LEMMA CommandTalks ==
    ASSUME IInv, Conv, Command
    PROVE  Conv'
<1>1. UNCHANGED <<pc, heard>> /\ outcome # "none" /\ ~closed
  BY DEF Command, IsConnected, client
<1>2. pc = "idle"
  BY <1>1 DEF IInv, LInv
<1>3. heard = <<>>
  BY <1>2 DEF Conv, Unfound
<1>. QED
  BY <1>1, <1>2, <1>3, Outside

LEMMA TickTalks ==
    ASSUME IInv, Conv, Tick
    PROVE  Conv'
<1>1. UNCHANGED <<pc, conn, heard, stream, buf, peer>>
  BY DEF Tick, channel
<1>2. Made' = Made
  BY <1>1 DEF Made, Conns
<1>. QED
  BY <1>1, <1>2, Kept

(* A connection is opened: the device is to greet, or has let the client in.  *)
LEMMA HeldTalks ==
    ASSUME IInv, Conv, Held, NEW stage \in {"new", "shell"}, NEW said \in SUBSET Words,
           NEW v \in 0 .. 1, New(stage, said, v), UNCHANGED <<buf, heard, stream>>,
           \/ stage = "new" /\ v = 0 /\ pc' = "user"
           \/ stage = "shell" /\ "Ok" \in said /\ pc' = "process"
    PROVE  Conv'
<1>1. pc = "opening" /\ conn' = Made + 1
  BY DEF Held
<1>2. /\ TInv /\ NInv /\ Made < MaxConns /\ stream = <<>> /\ buf = <<>> /\ heard = <<>>
  BY <1>1 DEF IInv, LInv, NInv, Conv, Unfound
<1>3. stage \in Stages \ {"none"}
  BY DEF Stages
<1>4. /\ Made' = Made + 1
      /\ peer'[Made + 1] = [stage |-> stage, inbox |-> <<>>, said |-> said, verdicts |-> v]
  BY <1>2, <1>3, OneMade
<1>. DEFINE d == peer'[Made + 1]
<1>5. d.stage = stage /\ d.inbox = <<>> /\ d.said = said /\ d.verdicts = v
  BY <1>4
<1>6. Text' = <<>> /\ Len(<<>>) = 0
  BY <1>2, EmptySeq DEF Text
<1>7. TurnOf(pc', <<>>, d)
  <2>1. \A i \in 1 .. Len(<<>>) : <<>>[i][1] \in d.said
    BY <1>6
  <2>2. CASE stage = "new"
    BY <1>5, <2>1, <2>2 DEF TurnOf, AtUser
  <2>3. CASE stage = "shell"
    BY <1>5, <2>1, <2>3 DEF TurnOf, AtProcess
  <2>. QED
    BY <2>2, <2>3
<1>. HIDE DEF d
<1>8. Turn'
  BY <1>1, <1>4, <1>6, <1>7 DEF Turn, d
<1>9. Unfound'
  <2>1. heard' = <<>> /\ buf' = <<>> /\ heard' \in Seq(Pieces)
    BY <1>2, EmptyTyped
  <2>2. \A w : ~Contains(<<>>, w)
    BY <1>6 DEF Contains
  <2>3. pc' # "prime"
    OBVIOUS
  <2>. QED
    BY <2>1, <2>2, <2>3 DEF Unfound
<1>. QED
  BY <1>8, <1>9 DEF Conv

LEMMA OpeningTalks ==
    ASSUME IInv, Conv, Opening
    PROVE  Conv'
<1>1. CASE RefuseSsh \/ FailToOpen
  BY <1>1, ReturnedOutside DEF RefuseSsh, FailToOpen
<1>2. CASE OpenTelnet
  <2>1. /\ Held /\ New("new", {}, 0) /\ pc' = "user" /\ UNCHANGED <<buf, heard, stream>>
        /\ {} \in SUBSET Words /\ 0 \in 0 .. 1 /\ "new" \in {"new", "shell"}
    BY <1>2 DEF OpenTelnet, channel
  <2>. QED
    BY <2>1, HeldTalks, Zenon
<1>3. CASE OpenSsh
  <2>1. /\ Held /\ New("shell", {"Ok"}, 1) /\ pc' = "process" /\ UNCHANGED <<buf, heard, stream>>
        /\ {"Ok"} \in SUBSET Words /\ 1 \in 0 .. 1 /\ "shell" \in {"new", "shell"} /\ "Ok" \in {"Ok"}
    BY <1>3 DEF OpenSsh, channel, Words
  <2>. QED
    BY <2>1, HeldTalks, Zenon
<1>. QED
  BY <1>1, <1>2, <1>3 DEF Opening

(* Whoever reads has a connection, the last one made, and is at its turn.     *)
LEMMA Listening ==
    ASSUME IInv, Conv, pc \in Prompts \cup {"prime"}, NEW n \in 1 .. Len(stream)
    PROVE  /\ TInv /\ NInv /\ conn \in Conns /\ conn = Made /\ peer[conn] \in Devices
           /\ n \in 0 .. Len(stream) /\ heard \in Seq(Pieces) /\ stream \in Seq(Pieces)
           /\ TurnOf(pc, Text, peer[conn])
<1>1. n \in 0 .. Len(stream) /\ n > 0
  OBVIOUS
<1>2. conn # 0
  BY <1>1, ReadFacts
<1>3. TInv /\ NInv /\ conn \in Conns /\ stream \in Seq(Pieces)
  BY <1>2 DEF IInv, TInv, LoginTypeOK, Conns
<1>4. pc \notin {"idle", "closing", "opening", "raising"}
  BY DEF Prompts
<1>5. conn = Made /\ TurnOf(pc, Text, peer[conn]) /\ heard \in Seq(Pieces)
  BY <1>2, <1>4 DEF Conv, Turn, At, Unfound
<1>. QED
  BY <1>1, <1>3, <1>5 DEF TInv

(* A line written to the connection held adds to what it has to answer.       *)
LEMMA SentTo ==
    ASSUME TInv, conn \in Conns, NEW line \in Typed
    PROVE  /\ Sent(line)[conn].inbox = Append(peer[conn].inbox, line)
           /\ Sent(line)[conn].stage = peer[conn].stage
           /\ Sent(line)[conn].said = peer[conn].said
           /\ Sent(line)[conn].verdicts = peer[conn].verdicts
<1>1. peer[conn] \in Devices /\ conn # 0
  BY DEF TInv, Conns
<1>. QED
  BY <1>1 DEF TInv, Sent, Devices

(* The next line is written when nothing is left to be read.                 *)
LEMMA PromptedTalks ==
    ASSUME IInv, Conv, NEW n \in 1 .. Len(stream), NEW line \in {"username", "password"},
           NEW next \in {"pass", "result"}, Prompted(line, next), Consumed(n),
           \/ pc = "user" /\ line = "username" /\ next = "pass"
           \/ pc = "pass" /\ line = "password" /\ next = "result",
           peer[conn].inbox = <<>>,
           peer[conn].stage \in {IF pc = "user" THEN "user" ELSE "pass", "gone"},
           Len(Text) <= Len(heard \o Read(n))
    PROVE  Conv'
<1>1. ASSUME Raise("raw")
      PROVE  Conv'
  BY <1>1, RaisedOutside
<1>2. ASSUME pc' = next, buf' = <<>>, heard' = <<>>, peer' = Sent(line), conn' = conn
      PROVE  Conv'
  <2>1. /\ TInv /\ NInv /\ conn \in Conns /\ conn = Made /\ n \in 0 .. Len(stream)
        /\ heard \in Seq(Pieces)
    BY Listening DEF Prompts
  <2>2. stream' = Rest(n)
    BY <1>2 DEF Consumed
  <2>3. Rest(n) = <<>>
    <3>1. /\ Rest(n) \in Seq(Pieces) /\ Len(heard \o Read(n)) \in Nat
          /\ Len(Text) = Len(heard \o Read(n)) + Len(Rest(n))
      BY <2>1, TextRead, LenProperties
    <3>2. Len(Rest(n)) \in Nat
      BY <3>1, LenProperties
    <3>3. Len(Rest(n)) = 0
      BY <3>1, <3>2
    <3>. QED
      BY <3>1, <3>3, EmptySeq
  <2>4. Text' = <<>> /\ Len(<<>>) = 0
    BY <1>2, <2>2, <2>3, EmptySeq DEF Text
  <2>5. line \in Typed
    BY DEF Typed
  <2>6. Made' = Made
    BY <1>2, <2>1, <2>5, SentFacts, NoneMade
  <2>. DEFINE d == peer'[conn]
  <2>7. /\ d.inbox = Append(<<>>, line) /\ d.stage = peer[conn].stage
    BY <1>2, <2>1, <2>5, SentTo
  <2>8. Append(<<>>, line) = <<line>>
    OBVIOUS
  <2>. HIDE DEF d
  <2>9. TurnOf(next, <<>>, d)
    <3>1. \A i \in 1 .. Len(<<>>) : <<>>[i][1] \in d.said
      BY <2>4
    <3>2. CASE next = "pass"
      BY <2>7, <2>8, <3>1, <3>2 DEF TurnOf, AtPass
    <3>3. CASE next = "result"
      BY <2>7, <2>8, <3>1, <3>3 DEF TurnOf, AtResult
    <3>. QED
      BY <3>2, <3>3
  <2>10. Turn'
    BY <1>2, <2>1, <2>4, <2>6, <2>9 DEF Turn, d
  <2>11. Unfound'
    <3>1. heard' \in Seq(Pieces) /\ \A w : ~Contains(<<>>, w)
      BY <1>2, <2>4, EmptyTyped DEF Contains
    <3>. QED
      BY <1>2, <3>1 DEF Unfound
  <2>. QED
    BY <2>10, <2>11 DEF Conv
<1>. QED
  BY <1>1, <1>2 DEF Prompted

(* Reading on: the text is the same, and nothing looked for is in it.        *)
LEMMA ReadOnTalks ==
    ASSUME IInv, Conv, pc \in Prompts \cup {"prime"}, NEW n \in 1 .. Len(stream),
           ReadOn(n), Consumed(n),
           pc \in Prompts => buf' = heard \o Read(n),
           \A w \in Needles(pc) : ~Contains(heard \o Read(n), w),
           pc = "prime" => Even(Len(heard) + n) \/ n = Len(stream)
    PROVE  Conv'
<1>1. /\ UNCHANGED <<pc, conn, peer>> /\ heard' = heard \o Read(n) /\ stream' = Rest(n)
  BY DEF ReadOn, Consumed
<1>2. /\ TInv /\ NInv /\ conn \in Conns /\ conn = Made /\ n \in 0 .. Len(stream)
      /\ heard \in Seq(Pieces) /\ stream \in Seq(Pieces) /\ TurnOf(pc, Text, peer[conn])
  BY Listening
<1>3. /\ heard \o Read(n) \in Seq(Pieces) /\ (heard \o Read(n)) \o Rest(n) = Text
      /\ Rest(n) \in Seq(Pieces) /\ Len(heard \o Read(n)) = Len(heard) + n
  BY <1>2, TextRead
<1>4. Text' = Text
  <2>1. Text' = heard' \o stream'
    BY DEF Text
  <2>. QED
    BY <1>1, <1>3, <2>1
<1>5. Made' = Made
  BY <1>1 DEF Made, Conns
<1>6. Turn'
  BY <1>1, <1>2, <1>4, <1>5 DEF Turn
<1>7. n = Len(stream) => stream' = <<>>
  <2>1. Len(stream) \in Nat
    BY <1>2, LenProperties
  <2>2. SubSeq(stream, Len(stream) + 1, Len(stream)) = <<>>
    BY <1>2, <2>1
  <2>. QED
    BY <1>1, <2>2 DEF Rest
<1>8. Unfound'
  <2>1. pc' = "prime" => stream' = <<>> \/ Even(Len(heard'))
    BY <1>1, <1>3, <1>7
  <2>2. pc' \notin {"idle", "closing", "opening", "raising", "process"}
    BY <1>1 DEF Prompts
  <2>. QED
    BY <1>1, <1>3, <2>1, <2>2 DEF Unfound
<1>. QED
  BY <1>6, <1>8 DEF Conv

(* What _login() does, and what it has found.                               *)
LEMMA LoginStepTold ==
    ASSUME NEW text, LoginStep(text)
    PROVE  \/ Contains(text, "Locked") /\ Raise("lockout")
           \/ pc = "user" /\ Contains(text, "Username") /\ Prompted("username", "pass")
           \/ pc = "pass" /\ Contains(text, "Password") /\ Prompted("password", "result")
           \/ Contains(text, "Bad") /\ Raise("auth")
           \/ pc = "result" /\ Contains(text, "Ok") /\ Accepted
           \/ /\ Raise("protocol") /\ ~Contains(text, "Locked")
              /\ ~(pc = "pass" /\ Contains(text, "Password"))
              /\ ~(pc = "result" /\ (Contains(text, "Bad") \/ Contains(text, "Ok")))
<1>1. CASE Contains(text, "Locked")
  BY <1>1 DEF LoginStep
<1>2. CASE ~Contains(text, "Locked")
  BY <1>2, Zenon DEF LoginStep
<1>. QED
  BY <1>1, <1>2

LEMMA PrimedTold ==
    ASSUME NEW text, NEW n, Primed(text, n)
    PROVE  \/ Contains(text, "Locked") /\ Raise("lockout")
           \/ Contains(text, "Bad") /\ Raise("auth")
           \/ Contains(text, "Firmware") /\ Accepted
           \/ /\ ReadOn(n) /\ UNCHANGED <<buf, left>>
              /\ \A w \in {"Locked", "Bad", "Firmware"} : ~Contains(text, w)
BY Zenon DEF Primed

LEMMA ReadChunkTalks ==
    ASSUME IInv, Conv, ReadChunk
    PROVE  Conv'
<1>1. PICK n \in 1 .. Len(stream) : ReadUntilAny(n) /\ Consumed(n)
  BY DEF ReadChunk
<1>2. pc \in Prompts /\ buf = heard
  BY DEF ReadChunk, Conv, Unfound
<1>. DEFINE text == heard \o Read(n)
<1>3. /\ n \in 0 .. Len(stream) /\ heard \in Seq(Pieces) /\ TurnOf(pc, Text, peer[conn])
  BY <1>2, Listening
<1>4. text \in Seq(Pieces) /\ Text \in Seq(Pieces) /\ Begins(text, Text)
  BY <1>3, TextRead
<1>5. \/ LoginStep(text)
      \/ /\ ReadOn(n) /\ buf' = text
         /\ \A w \in Needles(pc) : ~Contains(text, w)
  BY <1>1, <1>2 DEF ReadUntilAny
<1>. HIDE DEF text
<1>6. CASE ReadOn(n) /\ buf' = text /\ \A w \in Needles(pc) : ~Contains(text, w)
  <2>1. pc # "prime"
    BY <1>2 DEF Prompts
  <2>. QED
    BY <1>1, <1>2, <1>6, <2>1, ReadOnTalks DEF text
<1>7. CASE pc = "user" /\ Contains(text, "Username") /\ Prompted("username", "pass")
  <2>1. peer[conn].inbox = <<>> /\ peer[conn].stage \in {"user", "gone"} /\ Len(Text) <= Len(text)
    BY <1>3, <1>4, <1>7, AskedForUser
  <2>2. peer[conn].stage \in {IF pc = "user" THEN "user" ELSE "pass", "gone"}
    BY <1>7, <2>1
  <2>. QED
    BY <1>1, <1>7, <2>1, <2>2, PromptedTalks DEF text
<1>8. CASE pc = "pass" /\ Contains(text, "Password") /\ Prompted("password", "result")
  <2>1. peer[conn].inbox = <<>> /\ peer[conn].stage \in {"pass", "gone"} /\ Len(Text) <= Len(text)
    BY <1>3, <1>4, <1>8, AskedForPassword
  <2>2. peer[conn].stage \in {IF pc = "user" THEN "user" ELSE "pass", "gone"}
    BY <1>8, <2>1
  <2>. QED
    BY <1>1, <1>8, <2>1, <2>2, PromptedTalks DEF text
<1>9. ASSUME Raise("lockout") \/ Raise("auth") \/ Raise("protocol") \/ Accepted
      PROVE  Conv'
  BY <1>9, RaisedOutside, ReturnedOutside DEF Accepted
<1>. QED
  BY <1>5, <1>6, <1>7, <1>8, <1>9, LoginStepTold

(* A banner line without a needle leaves what was heard without one.          *)
LEMMA StillNoNeedle ==
    ASSUME IInv, Conv, pc = "prime", NEW n \in 1 .. Len(stream), n <= 2,
           \A w \in {"Locked", "Bad", "Firmware"} : ~Contains(Read(n), w)
    PROVE  \A w \in Needles(pc) : ~Contains(heard \o Read(n), w)
<1>1. /\ n \in 0 .. Len(stream) /\ heard \in Seq(Pieces) /\ TurnOf("prime", Text, peer[conn])
      /\ stream \in Seq(Pieces)
  BY Listening
<1>2. /\ Read(n) \in Seq(Pieces) /\ Len(Read(n)) = n /\ Text \in Seq(Pieces)
      /\ Begins(heard \o Read(n), Text) /\ Len(heard \o Read(n)) = Len(heard) + n
  BY <1>1, TextRead
<1>3. n \in 1 .. 2 /\ Len(stream) \in Nat /\ Len(heard) \in Nat
  BY <1>1, LenProperties
<1>4. stream # <<>>
  BY <1>3, EmptySeq
<1>5. Even(Len(heard)) /\ \A w \in Needles(pc) : ~Contains(heard, w)
  BY <1>4 DEF Conv, Unfound
<1>6. Text # <<>>
  <2>1. Len(Text) >= 1
    BY <1>2, <1>3, LenProperties DEF Begins
  <2>. QED
    BY <2>1, EmptySeq
<1>7. Tells(Text, Openings) /\ Openings \in SUBSET Scripts
  BY <1>1, <1>6 DEF TurnOf, AtPrime, Scripts
<1>8. Needles(pc) = {"Firmware", "Bad", "Locked"}
  BY DEF Needles
<1>9. ASSUME NEW w \in Needles(pc), Contains(heard \o Read(n), w)
      PROVE  FALSE
  <2>1. Contains(Read(n), w)
    <3>1. Len(Read(n)) \in 1 .. 2 /\ ~Contains(heard, w)
      BY <1>2, <1>3, <1>5
    <3>. QED
      BY <1>1, <1>2, <1>5, <1>7, <1>9, <3>1, LineAdds
  <2>. QED
    BY <1>8, <2>1
<1>. QED
  BY <1>9

LEMMA ReadLineTalks ==
    ASSUME IInv, Conv, ReadLine
    PROVE  Conv'
<1>. DEFINE n == IF Len(stream) > 1 THEN 2 ELSE 1
<1>1. pc = "prime" /\ stream # <<>> /\ Primed(Read(n), n) /\ Consumed(n)
  BY DEF ReadLine
<1>2. stream \in Seq(Pieces) /\ Len(stream) \in Nat /\ Len(stream) # 0
  BY <1>1, LenProperties, EmptySeq DEF IInv, TInv, LoginTypeOK
<1>3. n \in 1 .. Len(stream) /\ n <= 2 /\ (n = 2 \/ n = Len(stream))
  <2>1. CASE Len(stream) > 1
    BY <1>2, <2>1
  <2>2. CASE Len(stream) = 1
    BY <2>2
  <2>3. Len(stream) > 1 \/ Len(stream) = 1
    <3>1. \A k \in Nat : k # 0 => k > 1 \/ k = 1
      OBVIOUS
    <3>. QED
      BY <1>2, <3>1, Zenon
  <2>. QED
    BY <2>1, <2>2, <2>3
<1>. HIDE DEF n
<1>4. Even(Len(heard)) /\ Len(heard) \in Nat
  BY <1>1, LenProperties DEF Conv, Unfound
<1>5. Even(Len(heard) + n) \/ n = Len(stream)
  BY <1>3, <1>4 DEF Even
<1>6. ASSUME Raise("lockout") \/ Raise("auth") \/ Accepted
      PROVE  Conv'
  BY <1>6, RaisedOutside, ReturnedOutside DEF Accepted
<1>7. CASE /\ ReadOn(n) /\ UNCHANGED <<buf, left>>
           /\ \A w \in {"Locked", "Bad", "Firmware"} : ~Contains(Read(n), w)
  <2>1. \A w \in Needles(pc) : ~Contains(heard \o Read(n), w)
    BY <1>1, <1>3, <1>7, StillNoNeedle
  <2>2. pc \notin Prompts
    BY <1>1 DEF Prompts
  <2>. QED
    BY <1>1, <1>3, <1>5, <1>7, <2>1, <2>2, ReadOnTalks
<1>. QED
  BY <1>1, <1>6, <1>7, PrimedTold

LEMMA ReadingTalks ==
    ASSUME IInv, Conv, Reading
    PROVE  Conv'
<1>1. CASE ReadEof \/ TimeOut \/ Interrupted
  BY <1>1, RaisedOutside DEF ReadEof, TimeOut, Interrupted
<1>. QED
  BY <1>1, ReadChunkTalks, ReadLineTalks DEF Reading

(* The process of SSH is started in silence.                                *)
LEMMA StartProcessTalks ==
    ASSUME IInv, Conv, StartProcess
    PROVE  Conv'
<1>1. /\ pc = "process" /\ pc' = "prime" /\ buf' = <<>> /\ heard' = <<>>
      /\ peer' = Sent("firmware") /\ conn' = conn /\ stream' = stream
  BY DEF StartProcess, channel
<1>2. ASSUME conn = 0
      PROVE  Turn'
  <2>1. Turn'
    BY <1>1, <1>2 DEF Turn, At
  <2>. QED
    BY <2>1
<1>3. ASSUME conn # 0
      PROVE  Turn'
  <2>1. /\ TInv /\ NInv /\ conn \in Conns /\ "firmware" \in Typed
    BY <1>1, <1>3 DEF IInv, TInv, LoginTypeOK, Conns, Typed
  <2>2. conn = Made /\ AtProcess(Text, peer[conn]) /\ heard = <<>>
    BY <1>1, <1>3 DEF Conv, Turn, At, TurnOf, Unfound
  <2>3. Text' = <<>> /\ Len(<<>>) = 0
    BY <1>1, <1>3, <2>2, EmptySeq DEF AtProcess, Text
  <2>4. Made' = Made
    BY <1>1, <1>3, <2>1, SentFacts, NoneMade
  <2>. DEFINE d == peer'[conn]
  <2>5. /\ d.inbox = Append(<<>>, "firmware") /\ d.stage \in {"shell", "gone"} /\ "Ok" \in d.said
    BY <1>1, <1>3, <2>1, <2>2, SentTo DEF AtProcess
  <2>. HIDE DEF d
  <2>6. TurnOf("prime", <<>>, d)
    <3>1. \A i \in 1 .. Len(<<>>) : <<>>[i][1] \in d.said
      BY <2>3
    <3>2. d.inbox = <<"firmware">>
      BY <2>5
    <3>. QED
      BY <2>5, <3>1, <3>2 DEF TurnOf, AtPrime
  <2>7. Turn'
    BY <1>1, <1>3, <2>2, <2>3, <2>4, <2>6 DEF Turn, d
  <2>. QED
    BY <2>7
<1>4. Turn'
  BY <1>2, <1>3
<1>5. Unfound'
  <2>1. heard' \in Seq(Pieces) /\ pc' \notin Prompts /\ \A w : ~Contains(<<>>, w)
    BY <1>1, EmptyTyped DEF Contains, Prompts
  <2>2. Even(Len(heard'))
    BY <1>1, EmptyTyped DEF Even
  <2>. QED
    BY <1>1, <2>1, <2>2 DEF Unfound
<1>. QED
  BY <1>4, <1>5 DEF Conv

-----------------------------------------------------------------------------
(* The device's turns                                                       *)

LEMMA NothingSaid ==
    ASSUME NEW h \in Seq(Pieces), NEW s \in Seq(Pieces), h \o s = <<>>
    PROVE  h = <<>> /\ s = <<>>
<1>1. Len(h \o s) = Len(h) + Len(s) /\ Len(h) \in Nat /\ Len(s) \in Nat /\ Len(<<>>) = 0
  BY ConcatProperties, LenProperties, EmptySeq
<1>2. Len(h) = 0 /\ Len(s) = 0
  BY <1>1
<1>. QED
  BY <1>2, EmptySeq

(* The connection held and its device, during a login.                       *)
LEMMA OnLine ==
    ASSUME IInv, Conv, At
    PROVE  /\ TInv /\ NInv /\ conn \in Conns /\ conn = Made /\ peer[conn] \in Devices
           /\ peer[conn].stage # "none"
           /\ heard \in Seq(Pieces) /\ stream \in Seq(Pieces) /\ TurnOf(pc, Text, peer[conn])
<1>1. conn \in Conns /\ TInv /\ NInv /\ stream \in Seq(Pieces)
  BY DEF At, IInv, TInv, LoginTypeOK, Conns
<1>2. conn = Made /\ TurnOf(pc, Text, peer[conn]) /\ heard \in Seq(Pieces)
  BY DEF Conv, Turn, Unfound
<1>. QED
  BY <1>1, <1>2 DEF TInv, NInv

(* What an answer to silence makes of the text and of the device.            *)
LEMMA AnswerTold ==
    ASSUME IInv, Conv, At, Text = <<>>, NEW stage \in Stages \ {"none"}, NEW words \in Seq(Words),
           NEW v \in Nat, Answer(conn, stage, words, v)
    PROVE  /\ UNCHANGED <<pc, conn, buf, heard>> /\ heard = <<>> /\ Made' = Made
           /\ Text' \in {<<>>, Said(words)}
           /\ \A i \in 1 .. Len(Text') : Text'[i][1] \in peer'[conn].said
           /\ \A scripts : words \in scripts => Tells(Text', scripts)
           /\ peer'[conn].stage = stage /\ peer[conn].said \subseteq peer'[conn].said
           /\ peer'[conn].verdicts = peer[conn].verdicts + v
           /\ peer'[conn].inbox = IF peer[conn].stage = "new" THEN peer[conn].inbox
                                  ELSE Tail(peer[conn].inbox)
<1>1. UNCHANGED <<pc, conn, buf, heard>>
  BY DEF Answer, client
<1>2. heard = <<>> /\ stream = <<>>
  BY OnLine, NothingSaid DEF Text
<1>3. Said(words) \in Seq(Pieces)
  BY SaidTyped
<1>4. <<>> \o Said(words) = Said(words) /\ <<>> \o <<>> = <<>>
  BY <1>3, EmptyTyped, ConcatEmptySeq
<1>5. stream' \in {<<>>, Said(words)}
  BY <1>2, <1>4 DEF Answer, Emit
<1>6. Text' = heard' \o stream'
  BY DEF Text
<1>7. Text' \in {<<>>, Said(words)}
  <2>1. heard' = <<>>
    BY <1>1, <1>2
  <2>. QED
    BY <1>4, <1>5, <1>6, <2>1
<1>8. TInv /\ conn \in Conns /\ peer[conn] \in Devices /\ NInv
  BY OnLine
<1>9. /\ peer'[conn].stage = stage
      /\ peer'[conn].said = peer[conn].said \cup {words[i] : i \in DOMAIN words}
      /\ peer'[conn].verdicts = peer[conn].verdicts + v
      /\ peer'[conn].inbox = IF peer[conn].stage = "new" THEN peer[conn].inbox
                             ELSE Tail(peer[conn].inbox)
      /\ \A d \in Conns : d # conn => peer'[d] = peer[d]
  BY <1>8 DEF TInv, Answer, Devices
<1>10. Made' = Made
  <2>1. \A d \in Conns : /\ peer'[d].stage = "none" => peer[d].stage = "none"
                         /\ peer[d].stage = "none" => peer'[d].stage = "none"
    BY <1>9, OnLine
  <2>. QED
    BY <1>8, <2>1, NoneMade
<1>11. \A j \in 1 .. Len(words) : words[j] \in peer'[conn].said
  BY <1>9, LenProperties
<1>12. /\ \A i \in 1 .. Len(Text') : Text'[i][1] \in peer'[conn].said
       /\ \A scripts : words \in scripts => Tells(Text', scripts)
  <2>. DEFINE t == Text'
              said == peer'[conn].said
  <2>1. (t = <<>> \/ t = Said(words)) /\ \A j \in 1 .. Len(words) : words[j] \in said
    BY <1>7, <1>11
  <2>. HIDE DEF t, said
  <2>2. /\ \A i \in 1 .. Len(t) : t[i][1] \in said
        /\ \A scripts : words \in scripts => Tells(t, scripts)
    BY <2>1, TurnAnswered, Zenon
  <2>. QED
    BY <2>2 DEF t, said
<1>. QED
  BY <1>1, <1>2, <1>7, <1>9, <1>10, <1>12

LEMMA TurnTaken ==
    ASSUME IInv, Conv, At, UNCHANGED <<pc, conn, buf, heard>>, heard = <<>>, Made' = Made,
           TurnOf(pc, Text', peer'[conn])
    PROVE  Conv'
<1>1. conn = Made /\ pc \notin {"idle", "closing", "opening", "raising"}
  BY DEF Conv, Turn, At
<1>2. Turn'
  BY <1>1 DEF Turn
<1>3. Even(Len(heard'))
  BY EmptySeq DEF Even
<1>4. Unfound'
  BY <1>3 DEF Conv, Unfound
<1>. QED
  BY <1>2, <1>4 DEF Conv

(* It greets, or hears a line: only then is it silent until it answers.       *)
LEMMA WhoIsAsked ==
    ASSUME IInv, Conv, At
    PROVE  /\ peer[conn].stage = "new" => pc = "user" /\ Text = <<>> /\ peer[conn].inbox = <<>>
           /\ peer[conn].inbox # <<>> =>
                /\ Text = <<>>
                /\ peer[conn].stage = "user"  => pc = "pass" /\ peer[conn].inbox = <<"username">>
                /\ peer[conn].stage = "pass"  => pc = "result" /\ peer[conn].inbox = <<"password">>
                /\ peer[conn].stage = "shell" => pc = "prime" /\ peer[conn].inbox = <<"firmware">>
<1>1. TurnOf(pc, Text, peer[conn]) /\ pc \in {"user", "pass", "result", "process", "prime"}
  BY OnLine DEF At, IInv, TInv, LoginTypeOK, Timed, Untimed, Places, Prompts
<1>. QED
  BY <1>1 DEF TurnOf, AtUser, AtPass, AtResult, AtProcess, AtPrime

LEMMA GreetTalks ==
    ASSUME IInv, Conv, At, Greet(conn)
    PROVE  Conv'
<1>1. peer[conn].stage = "new" /\ pc = "user" /\ Text = <<>> /\ peer[conn].inbox = <<>>
      /\ TurnOf(pc, Text, peer[conn])
  BY WhoIsAsked, OnLine DEF Greet
<1>2. PICK stage \in {"user", "gone"}, words \in Greetings : Answer(conn, stage, words, 0)
  BY DEF Greet, Greetings
<1>3. words \in Seq(Words) /\ stage \in Stages \ {"none"} /\ 0 \in Nat
  BY ScriptsTyped DEF Scripts, Stages
<1>4. /\ UNCHANGED <<pc, conn, buf, heard>> /\ heard = <<>> /\ Made' = Made
      /\ \A i \in 1 .. Len(Text') : Text'[i][1] \in peer'[conn].said
      /\ Tells(Text', Greetings) /\ peer'[conn].stage = stage
      /\ peer'[conn].verdicts = peer[conn].verdicts + 0 /\ peer'[conn].inbox = <<>>
  BY <1>1, <1>2, <1>3, AnswerTold
<1>5. TurnOf(pc, Text', peer'[conn])
  BY <1>1, <1>4 DEF TurnOf, AtUser
<1>. QED
  BY <1>4, <1>5, TurnTaken

LEMMA HearUsernameTalks ==
    ASSUME IInv, Conv, At, HearUsername(conn)
    PROVE  Conv'
<1>1. /\ peer[conn].stage = "user" /\ pc = "pass" /\ Text = <<>>
      /\ peer[conn].inbox = <<"username">>
  BY WhoIsAsked DEF HearUsername, Hears
<1>2. PICK stage \in {"pass", "gone"}, words \in Requests : Answer(conn, stage, words, 0)
  BY DEF HearUsername, Requests
<1>3. words \in Seq(Words) /\ stage \in Stages \ {"none"} /\ 0 \in Nat
  BY ScriptsTyped DEF Scripts, Stages
<1>4. /\ UNCHANGED <<pc, conn, buf, heard>> /\ heard = <<>> /\ Made' = Made
      /\ \A i \in 1 .. Len(Text') : Text'[i][1] \in peer'[conn].said
      /\ Tells(Text', Requests) /\ peer'[conn].stage = stage
      /\ peer'[conn].inbox = Tail(<<"username">>)
  BY <1>1, <1>2, <1>3, AnswerTold
<1>5. peer'[conn].inbox = <<>>
  BY <1>4
<1>6. TurnOf(pc, Text', peer'[conn])
  BY <1>1, <1>4, <1>5 DEF TurnOf, AtPass
<1>. QED
  BY <1>4, <1>6, TurnTaken

LEMMA HearPasswordTalks ==
    ASSUME IInv, Conv, At, HearPassword(conn)
    PROVE  Conv'
<1>1. /\ peer[conn].stage = "pass" /\ pc = "result" /\ Text = <<>>
      /\ peer[conn].inbox = <<"password">>
  BY WhoIsAsked DEF HearPassword, Hears
<1>2. PICK stage \in {"user", "shell", "gone"}, words \in Verdicts : Answer(conn, stage, words, 1)
  BY DEF HearPassword, Verdicts
<1>3. words \in Seq(Words) /\ stage \in Stages \ {"none"} /\ 1 \in Nat
  BY ScriptsTyped DEF Scripts, Stages
<1>4. /\ UNCHANGED <<pc, conn, buf, heard>> /\ heard = <<>> /\ Made' = Made
      /\ \A i \in 1 .. Len(Text') : Text'[i][1] \in peer'[conn].said
      /\ Tells(Text', Verdicts) /\ peer'[conn].stage = stage
      /\ peer'[conn].inbox = Tail(<<"password">>)
  BY <1>1, <1>2, <1>3, AnswerTold
<1>5. peer'[conn].inbox = <<>>
  BY <1>4
<1>6. TurnOf(pc, Text', peer'[conn])
  BY <1>1, <1>4, <1>5 DEF TurnOf, AtResult
<1>. QED
  BY <1>4, <1>6, TurnTaken

LEMMA HearLineTalks ==
    ASSUME IInv, Conv, At, HearLine(conn)
    PROVE  Conv'
<1>1. /\ peer[conn].stage = "shell" /\ pc = "prime" /\ Text = <<>>
      /\ peer[conn].inbox = <<"firmware">> /\ TurnOf(pc, Text, peer[conn])
  BY WhoIsAsked, OnLine DEF HearLine, Hears
<1>2. Head(peer[conn].inbox) = "firmware"
  BY <1>1
<1>3. \/ \E word \in {"Firmware", "Error"} : Answer(conn, "shell", <<"Banner", "Ok", word>>, 0)
      \/ \E word \in {"Bad", "Locked"} : Answer(conn, "gone", <<word>>, 0)
  BY <1>2, Zenon DEF HearLine
<1>4. PICK stage \in {"shell", "gone"}, words \in Openings : Answer(conn, stage, words, 0)
  BY <1>3 DEF Openings
<1>5. words \in Seq(Words) /\ stage \in Stages \ {"none"} /\ 0 \in Nat
  BY ScriptsTyped DEF Scripts, Stages
<1>6. /\ UNCHANGED <<pc, conn, buf, heard>> /\ heard = <<>> /\ Made' = Made
      /\ \A i \in 1 .. Len(Text') : Text'[i][1] \in peer'[conn].said
      /\ Tells(Text', Openings) /\ peer'[conn].stage = stage
      /\ peer[conn].said \subseteq peer'[conn].said
      /\ peer'[conn].inbox = Tail(<<"firmware">>)
  BY <1>1, <1>4, <1>5, AnswerTold
<1>7. peer'[conn].inbox = <<>> /\ "Ok" \in peer'[conn].said
  BY <1>1, <1>6 DEF TurnOf, AtPrime
<1>8. TurnOf(pc, Text', peer'[conn])
  BY <1>1, <1>6, <1>7 DEF TurnOf, AtPrime
<1>. QED
  BY <1>6, <1>8, TurnTaken

(* A device that takes a step has been connected to.                         *)
LEMMA DeviceSeen ==
    ASSUME IInv, NEW c \in Conns, Device(c)
    PROVE  peer[c].stage # "none" /\ peer'[c].stage # "none"
<1>1. peer[c].stage \in {"new", "user", "pass", "shell"}
  BY DEF Device, Greet, HearUsername, HearPassword, HearLine, Hears
<1>2. \E stage \in {"user", "pass", "shell", "gone"} : \E words, v : Answer(c, stage, words, v)
  BY Zenon DEF Device, Greet, HearUsername, HearPassword, HearLine
<1>3. peer'[c].stage \in {"user", "pass", "shell", "gone"}
  BY <1>2 DEF Answer, IInv, TInv, Devices
<1>. QED
  BY <1>1, <1>3

LEMMA DeviceTalks ==
    ASSUME IInv, Conv, NEW c \in Conns, Device(c)
    PROVE  Conv'
<1>1. /\ UNCHANGED <<pc, conn, buf, heard>> /\ (c # conn => stream' = stream)
      /\ \A d \in Conns : d # c => peer'[d] = peer[d]
  <2>1. PICK stage, words, v : Answer(c, stage, words, v)
    BY Zenon DEF Device, Greet, HearUsername, HearPassword, HearLine
  <2>. QED
    BY <2>1 DEF Answer, Emit, client, IInv, TInv
<1>2. CASE c # conn
  <2>2. conn # 0 => peer'[conn] = peer[conn]
    BY <1>1, <1>2 DEF IInv, TInv, LoginTypeOK, Conns
  <2>3. Made' = Made
    <3>1. peer[c].stage # "none" /\ peer'[c].stage # "none"
      BY DeviceSeen
    <3>. QED
      BY <1>1, <3>1, NoneMade DEF IInv
  <2>. QED
    BY <1>1, <1>2, <2>2, <2>3, Kept
<1>3. CASE c = conn /\ ~At
  <2>1. pc \in {"idle", "closing", "opening", "raising"}
    BY <1>3 DEF At, Conns
  <2>2. heard = <<>>
    BY <2>1 DEF Conv, Unfound
  <2>. QED
    BY <1>1, <2>1, <2>2, Outside
<1>4. CASE c = conn /\ At
  BY <1>4, GreetTalks, HearUsernameTalks, HearPasswordTalks, HearLineTalks DEF Device
<1>. QED
  BY <1>2, <1>3, <1>4

LEMMA DropTalks ==
    ASSUME IInv, Conv, Drop
    PROVE  Conv'
<1>1. PICK n \in 0 .. Len(stream) : stream' = Read(n)
  BY DEF Drop
<1>2. /\ conn # 0 /\ peer' = [peer EXCEPT ![conn].stage = "gone"]
      /\ UNCHANGED <<pc, conn, buf, heard>>
  BY DEF Drop, client
<1>3. CASE ~At
  <2>1. pc \in {"idle", "closing", "opening", "raising"}
    BY <1>2, <1>3 DEF At
  <2>2. heard = <<>>
    BY <2>1 DEF Conv, Unfound
  <2>. QED
    BY <1>2, <2>1, <2>2, Outside
<1>4. CASE At
  <2>1. /\ TInv /\ NInv /\ conn \in Conns /\ conn = Made /\ peer[conn] \in Devices
        /\ peer[conn].stage # "none" /\ heard \in Seq(Pieces) /\ TurnOf(pc, Text, peer[conn])
    BY <1>4, OnLine
  <2>2. /\ heard \o Read(n) \in Seq(Pieces) /\ Text \in Seq(Pieces) /\ Begins(heard \o Read(n), Text)
    BY <2>1, TextRead
  <2>3. Text' = heard \o Read(n)
    BY <1>1, <1>2 DEF Text
  <2>4. /\ peer'[conn].stage = "gone" /\ peer'[conn].inbox = peer[conn].inbox
        /\ peer'[conn].said = peer[conn].said /\ peer'[conn].verdicts = peer[conn].verdicts
        /\ \A d \in Conns : d # conn => peer'[d] = peer[d]
    BY <1>2, <2>1 DEF TInv, Devices
  <2>5. Made' = Made
    BY <2>1, <2>4, NoneMade
  <2>6. TurnOf(pc, heard \o Read(n), peer'[conn])
    BY <2>1, <2>2, <2>4, TurnLost
  <2>7. Turn'
    BY <1>2, <2>1, <2>3, <2>5, <2>6 DEF Turn
  <2>8. pc = "prime" => stream' = <<>> \/ Even(Len(heard))
    <3>1. stream = <<>> => Len(stream) = 0
      BY EmptySeq
    <3>2. SubSeq(<<>>, 1, 0) = <<>>
      OBVIOUS
    <3>3. stream = <<>> => stream' = <<>>
      BY <1>1, <3>1, <3>2 DEF Read
    <3>. QED
      BY <3>3 DEF Conv, Unfound
  <2>9. Unfound'
    BY <1>2, <2>8 DEF Conv, Unfound
  <2>. QED
    BY <2>7, <2>9 DEF Conv
<1>. QED
  BY <1>3, <1>4

-----------------------------------------------------------------------------
(* The invariant                                                            *)

LEMMA ConvInit == Init => Conv
<1>. SUFFICES ASSUME Init PROVE Conv
  OBVIOUS
<1>1. pc = "idle" /\ heard = <<>> /\ heard \in Seq(Pieces) /\ pc \notin Prompts
  BY EmptyTyped DEF Init, Prompts
<1>2. Turn
  BY <1>1 DEF Turn, At
<1>3. Unfound
  BY <1>1, NoNeedles DEF Unfound
<1>. QED
  BY <1>2, <1>3 DEF Conv

LEMMA ConvNext == IInv /\ Conv /\ [Next]_vars => Conv'
<1>. SUFFICES ASSUME IInv, Conv, [Next]_vars PROVE Conv'
  OBVIOUS
<1>1. CASE UNCHANGED vars
  <2>1. UNCHANGED <<pc, conn, heard, stream, buf, peer>>
    BY <1>1 DEF vars, client, channel
  <2>2. Made' = Made
    BY <2>1 DEF Made, Conns
  <2>. QED
    BY <2>1, <2>2, Kept
<1>2. CASE Cancel \/ FailProcess
  BY <1>2, ReturnedOutside, RaisedOutside DEF Cancel, FailProcess
<1>3. CASE Connect \/ Close \/ ForgetConnection \/ Command \/ Opening \/ StartProcess \/ Reading \/ Tick \/ Drop
  BY <1>3, ConnectTalks, CloseTalks, ForgetTalks, CommandTalks, OpeningTalks, StartProcessTalks, ReadingTalks,
     TickTalks, DropTalks
<1>4. ASSUME NEW c \in Conns, Device(c)
      PROVE  Conv'
  BY <1>4, DeviceTalks
<1>. QED
  BY <1>1, <1>2, <1>3, <1>4 DEF Next

LEMMA ConvAlways == Spec => [](IInv /\ Conv)
BY Invariance, ConvInit, ConvNext, PTL DEF Spec

-----------------------------------------------------------------------------
(* What the end of a login tells                                            *)

(* The steps of OutcomeIsVerdict and of CleanStart.                          *)
Told ==
    /\ Ends("ok")       => "Ok" \in Latest'.said
    /\ Ends("auth")     => "Bad" \in Latest'.said
    /\ Ends("lockout")  => "Locked" \in Latest'.said
    /\ Ends("protocol") => Latest'.verdicts = 0

Clean == Ends("ok") => /\ \A i \in DOMAIN stream' : stream'[i][1] = "Blank"
                       /\ peer[conn].inbox = <<>>

LEMMA GoesOn ==
    ASSUME pc' \notin {"idle", "raising"} \/ pc \notin Timed \cup {"process"}
    PROVE  Told /\ Clean
BY DEF Told, Clean, Ends

(* A step that leaves connect() where it is.                                *)
LEMMA StaysOn ==
    ASSUME pc' = pc
    PROVE  Told /\ Clean
BY GoesOn DEF Timed, Prompts

(* An end that says nothing of the credentials.                              *)
LEMMA EndsInTrouble ==
    ASSUME NEW result \in {"conn", "raw", "cancelled"}, Reported(result)
    PROVE  Told /\ Clean
BY DEF Told, Clean, Ends, Reported

LEMMA ContainsLater ==
    ASSUME NEW h \in Seq(Pieces), NEW line \in Seq(Pieces), NEW w, Contains(line, w)
    PROVE  Contains(h \o line, w)
<1>. DEFINE t == h \o line
<1>1. /\ Len(t) = Len(h) + Len(line) /\ Len(h) \in Nat /\ Len(line) \in Nat
      /\ \A i \in 1 .. Len(h) + Len(line) : t[i] = IF i <= Len(h) THEN h[i] ELSE line[i - Len(h)]
  BY ConcatProperties, LenProperties
<1>. HIDE DEF t
<1>2. PICK i \in 1 .. Len(line) - 1 : line[i] = <<w, "head">> /\ line[i + 1] = <<w, "tail">>
  BY DEF Contains
<1>3. Len(h) + i \in 1 .. Len(t) - 1 /\ t[Len(h) + i] = line[i]
  <2>1. Len(h) + i \in 1 .. Len(h) + Len(line) /\ ~(Len(h) + i <= Len(h)) /\ (Len(h) + i) - Len(h) = i
    BY <1>1, <1>2
  <2>. QED
    BY <1>1, <2>1
<1>4. t[(Len(h) + i) + 1] = line[i + 1]
  <2>1. /\ (Len(h) + i) + 1 \in 1 .. Len(h) + Len(line) /\ ~((Len(h) + i) + 1 <= Len(h))
        /\ ((Len(h) + i) + 1) - Len(h) = i + 1
    BY <1>1, <1>2
  <2>. QED
    BY <1>1, <2>1
<1>. QED
  BY <1>2, <1>3, <1>4 DEF Contains, t

(* What is found in the text, the device has said on this connection.         *)
LEMMA FoundIsSaid ==
    ASSUME IInv, Conv, pc \in Prompts \cup {"prime"}, NEW n \in 1 .. Len(stream),
           NEW w, Contains(heard \o Read(n), w)
    PROVE  w \in peer[conn].said
<1>1. /\ n \in 0 .. Len(stream) /\ heard \in Seq(Pieces) /\ TurnOf(pc, Text, peer[conn])
  BY Listening
<1>. DEFINE t == heard \o Read(n)
<1>2. t \in Seq(Pieces) /\ Text \in Seq(Pieces) /\ Begins(t, Text)
  BY <1>1, TextRead
<1>. HIDE DEF t
<1>3. PICK i \in 1 .. Len(t) : t[i][1] = w
  BY <1>2, FoundPiece DEF t
<1>4. i \in 1 .. Len(Text) /\ Text[i][1] = w
  BY <1>2, <1>3, LenProperties DEF Begins
<1>. QED
  BY <1>1, <1>4 DEF TurnOf

(* connect() fails with an exception: what the device has said stands.        *)
LEMMA RaiseTells ==
    ASSUME TInv, NInv, conn \in Conns, conn = Made, NEW result, Raise(result)
    PROVE  /\ Latest'.said = peer[conn].said /\ Latest'.verdicts = peer[conn].verdicts
           /\ outcome' = result
<1>1. outcome' = result
  BY DEF Raise, Reported
<1>2. "exit" \in Typed
  BY DEF Typed
<1>3. CASE peer' = Sent("exit")
  <2>1. Made' = Made
    BY <1>2, <1>3, SentFacts, NoneMade
  <2>2. peer'[conn].said = peer[conn].said /\ peer'[conn].verdicts = peer[conn].verdicts
    BY <1>2, <1>3, SentTo
  <2>. QED
    BY <1>1, <2>1, <2>2 DEF Latest
<1>4. CASE peer' = peer
  <2>1. Made' = Made
    BY <1>4 DEF Made, Conns
  <2>. QED
    BY <1>1, <1>4, <2>1 DEF Latest
<1>. QED
  BY <1>3, <1>4 DEF Raise, Closing

(* connect() succeeds.                                                      *)
LEMMA AcceptedTells ==
    ASSUME conn = Made, Accepted
    PROVE  Latest' = peer[conn] /\ pc' = "idle" /\ outcome' = "ok" /\ conn' = conn
<1>1. peer' = peer /\ pc' = "idle" /\ outcome' = "ok" /\ conn' = conn
  BY DEF Accepted, Returned, Reported
<1>2. Made' = Made
  BY <1>1 DEF Made, Conns
<1>. QED
  BY <1>1, <1>2 DEF Latest

(* A verdict that was found in the text.                                     *)
LEMMA FoundTold ==
    ASSUME IInv, Conv, pc \in Prompts \cup {"prime"}, NEW n \in 1 .. Len(stream),
           \/ Contains(heard \o Read(n), "Locked") /\ Raise("lockout")
           \/ Contains(heard \o Read(n), "Bad") /\ Raise("auth")
    PROVE  Told /\ Clean
<1>1. TInv /\ NInv /\ conn \in Conns /\ conn = Made
  BY Listening
<1>2. CASE Contains(heard \o Read(n), "Locked") /\ Raise("lockout")
  <2>1. "Locked" \in peer[conn].said
    BY <1>2, FoundIsSaid
  <2>2. Latest'.said = peer[conn].said /\ outcome' = "lockout"
    BY <1>1, <1>2, RaiseTells
  <2>. QED
    BY <2>1, <2>2 DEF Told, Clean, Ends
<1>3. CASE Contains(heard \o Read(n), "Bad") /\ Raise("auth")
  <2>1. "Bad" \in peer[conn].said
    BY <1>3, FoundIsSaid
  <2>2. Latest'.said = peer[conn].said /\ outcome' = "auth"
    BY <1>1, <1>3, RaiseTells
  <2>. QED
    BY <2>1, <2>2 DEF Told, Clean, Ends
<1>. QED
  BY <1>2, <1>3

(* The login is accepted: behind it is at most a blank line.                 *)
LEMMA LetInTold ==
    ASSUME IInv, Conv, pc = "result", NEW n \in 1 .. Len(stream), Consumed(n),
           Contains(heard \o Read(n), "Ok"), Accepted
    PROVE  Told /\ Clean
<1>1. /\ conn = Made /\ n \in 0 .. Len(stream) /\ heard \in Seq(Pieces)
      /\ TurnOf("result", Text, peer[conn]) /\ pc \in Prompts
  BY Listening DEF Prompts
<1>2. Latest' = peer[conn] /\ outcome' = "ok" /\ conn' = conn
  BY <1>1, AcceptedTells
<1>3. "Ok" \in peer[conn].said
  BY <1>1, FoundIsSaid
<1>. DEFINE t == heard \o Read(n)
<1>4. /\ t \in Seq(Pieces) /\ Text \in Seq(Pieces) /\ Begins(t, Text) /\ Rest(n) \in Seq(Pieces)
      /\ Len(Text) = Len(t) + Len(Rest(n))
      /\ \A i \in 1 .. Len(Rest(n)) : Rest(n)[i] = Text[Len(t) + i]
  BY <1>1, TextRead
<1>. HIDE DEF t
<1>5. /\ peer[conn].inbox = <<>>
      /\ \A i \in 1 .. Len(Text) : i > Len(t) => Text[i][1] = "Blank"
  BY <1>1, <1>4, LetIn DEF t
<1>6. stream' = Rest(n) /\ DOMAIN stream' = 1 .. Len(Rest(n))
  BY <1>2, <1>4, LenProperties DEF Consumed
<1>7. ASSUME NEW i \in 1 .. Len(Rest(n))
      PROVE  Rest(n)[i][1] = "Blank"
  <2>1. Len(t) + i \in 1 .. Len(Text) /\ Len(t) + i > Len(t)
    BY <1>4, LenProperties
  <2>. QED
    BY <1>4, <1>5, <2>1
<1>. QED
  BY <1>2, <1>3, <1>5, <1>6, <1>7 DEF Told, Clean, Ends

(* The session is primed: nothing is behind it.                              *)
LEMMA PrimedIsTold ==
    ASSUME IInv, Conv, pc = "prime", NEW n \in 1 .. Len(stream), Consumed(n),
           Contains(heard \o Read(n), "Firmware"), Accepted
    PROVE  Told /\ Clean
<1>1. /\ conn = Made /\ n \in 0 .. Len(stream) /\ heard \in Seq(Pieces)
      /\ TurnOf("prime", Text, peer[conn])
  BY Listening
<1>2. Latest' = peer[conn] /\ outcome' = "ok" /\ conn' = conn
  BY <1>1, AcceptedTells
<1>3. "Ok" \in peer[conn].said
  BY <1>1 DEF TurnOf, AtPrime
<1>. DEFINE t == heard \o Read(n)
<1>4. /\ t \in Seq(Pieces) /\ Text \in Seq(Pieces) /\ Begins(t, Text) /\ Rest(n) \in Seq(Pieces)
      /\ Len(Text) = Len(t) + Len(Rest(n)) /\ Len(t) \in Nat /\ Len(Rest(n)) \in Nat
  BY <1>1, TextRead, LenProperties
<1>. HIDE DEF t
<1>5. peer[conn].inbox = <<>> /\ Len(Text) <= Len(t)
  BY <1>1, <1>4, PrimedLast DEF t
<1>6. stream' = Rest(n) /\ DOMAIN stream' = 1 .. 0
  <2>1. Len(Rest(n)) = 0
    BY <1>4, <1>5
  <2>. QED
    BY <1>2, <1>4, <2>1, LenProperties DEF Consumed
<1>. QED
  BY <1>2, <1>3, <1>5, <1>6 DEF Told, Clean, Ends

(* A refusal before the device has judged anything: it is no banner that is   *)
(* known to the client, and no verdict either.                             *)
LEMMA ProtocolTold ==
    ASSUME IInv, Conv, pc \in Prompts, NEW n \in 1 .. Len(stream), Raise("protocol"),
           \E w \in Needles(pc) : Contains(heard \o Read(n), w),
           ~Contains(heard \o Read(n), "Locked"),
           ~(pc = "pass" /\ Contains(heard \o Read(n), "Password")),
           ~(pc = "result" /\ (Contains(heard \o Read(n), "Bad") \/ Contains(heard \o Read(n), "Ok")))
    PROVE  Told /\ Clean
<1>1. TInv /\ NInv /\ conn \in Conns /\ conn = Made /\ TurnOf(pc, Text, peer[conn])
  BY Listening
<1>2. pc # "pass"
  BY DEF Needles
<1>3. pc # "result"
  BY DEF Needles
<1>4. pc = "user"
  BY <1>2, <1>3 DEF Prompts
<1>5. peer[conn].verdicts = 0
  BY <1>1, <1>4 DEF TurnOf, AtUser
<1>6. Latest'.verdicts = peer[conn].verdicts /\ outcome' = "protocol"
  BY <1>1, RaiseTells
<1>. QED
  BY <1>5, <1>6 DEF Told, Clean, Ends

LEMMA ReadChunkTold ==
    ASSUME IInv, Conv, ReadChunk
    PROVE  Told /\ Clean
<1>1. PICK n \in 1 .. Len(stream) : ReadUntilAny(n) /\ Consumed(n)
  BY DEF ReadChunk
<1>2. pc \in Prompts /\ buf = heard /\ pc # "idle"
  BY DEF ReadChunk, Conv, Unfound, Prompts
<1>. DEFINE text == heard \o Read(n)
<1>3. \/ LoginStep(text) /\ \E w \in Needles(pc) : Contains(text, w)
      \/ ReadOn(n)
  BY <1>1, <1>2 DEF ReadUntilAny
<1>4. CASE ReadOn(n)
  <2>1. pc' = pc
    BY <1>4 DEF ReadOn
  <2>. QED
    BY <2>1, StaysOn
<1>5. ASSUME LoginStep(text), \E w \in Needles(pc) : Contains(text, w)
      PROVE  Told /\ Clean
  <2>1. CASE \/ Contains(text, "Locked") /\ Raise("lockout")
             \/ Contains(text, "Bad") /\ Raise("auth")
    BY <1>2, <2>1, FoundTold
  <2>2. ASSUME Prompted("username", "pass") \/ Prompted("password", "result")
        PROVE  Told /\ Clean
    BY <2>2, GoesOn, EndsInTrouble DEF Prompted, Raise
  <2>3. CASE pc = "result" /\ Contains(text, "Ok") /\ Accepted
    BY <1>1, <2>3, LetInTold
  <2>4. CASE /\ Raise("protocol") /\ ~Contains(text, "Locked")
             /\ ~(pc = "pass" /\ Contains(text, "Password"))
             /\ ~(pc = "result" /\ (Contains(text, "Bad") \/ Contains(text, "Ok")))
    BY <1>2, <1>5, <2>4, ProtocolTold
  <2>. HIDE DEF text
  <2>. QED
    BY <1>5, <2>1, <2>2, <2>3, <2>4, LoginStepTold
<1>. QED
  BY <1>3, <1>4, <1>5

LEMMA ReadLineTold ==
    ASSUME IInv, Conv, ReadLine
    PROVE  Told /\ Clean
<1>. DEFINE n == IF Len(stream) > 1 THEN 2 ELSE 1
<1>1. pc = "prime" /\ stream # <<>> /\ Primed(Read(n), n) /\ Consumed(n)
  BY DEF ReadLine
<1>2. stream \in Seq(Pieces) /\ Len(stream) \in Nat /\ Len(stream) # 0
  BY <1>1, LenProperties, EmptySeq DEF IInv, TInv, LoginTypeOK
<1>3. n \in 1 .. Len(stream)
  BY <1>2
<1>. HIDE DEF n
<1>4. heard \in Seq(Pieces) /\ Read(n) \in Seq(Pieces)
  <2>1. n \in 0 .. Len(stream)
    BY <1>3
  <2>2. Read(n) \in Seq(Pieces)
    BY <1>2, <2>1, PartsTyped DEF Read
  <2>. QED
    BY <2>2 DEF Conv, Unfound
<1>5. \A w : Contains(Read(n), w) => Contains(heard \o Read(n), w)
  BY <1>4, ContainsLater
<1>6. CASE \/ Contains(Read(n), "Locked") /\ Raise("lockout")
           \/ Contains(Read(n), "Bad") /\ Raise("auth")
  BY <1>1, <1>3, <1>5, <1>6, FoundTold
<1>7. CASE Contains(Read(n), "Firmware") /\ Accepted
  BY <1>1, <1>3, <1>5, <1>7, PrimedIsTold
<1>8. CASE ReadOn(n)
  <2>1. pc' = pc
    BY <1>8 DEF ReadOn
  <2>. QED
    BY <2>1, StaysOn
<1>. QED
  BY <1>1, <1>6, <1>7, <1>8, PrimedTold

LEMMA OpeningTold ==
    ASSUME IInv, Conv, Opening
    PROVE  Told /\ Clean
<1>1. CASE OpenTelnet \/ OpenSsh
  <2>1. pc' \notin {"idle", "raising"}
    BY <1>1 DEF OpenTelnet, OpenSsh
  <2>. QED
    BY <2>1, GoesOn
<1>2. CASE FailToOpen
  BY <1>2, EndsInTrouble DEF FailToOpen, Returned
<1>3. CASE RefuseSsh
  <2>1. pc = "opening" /\ New("gone", {"Bad"}, 1) /\ Returned("auth")
    BY <1>3 DEF RefuseSsh
  <2>2. TInv /\ NInv /\ Made < MaxConns
    BY <2>1 DEF IInv, LInv, NInv
  <2>3. "gone" \in Stages \ {"none"} /\ {"Bad"} \in SUBSET Words /\ 1 \in 0 .. 1
    BY DEF Stages, Words
  <2>4. Made' = Made + 1 /\ peer'[Made + 1].said = {"Bad"}
    <3>1. /\ Made' = Made + 1
          /\ peer'[Made + 1] =
                [stage |-> "gone", inbox |-> <<>>, said |-> {"Bad"}, verdicts |-> 1]
      BY <2>1, <2>2, <2>3, OneMade
    <3>. QED
      BY <3>1
  <2>5. "Bad" \in Latest'.said /\ outcome' = "auth"
    BY <2>1, <2>4 DEF Latest, Returned, Reported
  <2>. QED
    BY <2>5 DEF Told, Clean, Ends
<1>. QED
  BY <1>1, <1>2, <1>3 DEF Opening

LEMMA NextTold == IInv /\ Conv /\ [Next]_vars => Told /\ Clean
<1>. SUFFICES ASSUME IInv, Conv, [Next]_vars PROVE Told /\ Clean
  OBVIOUS
<1>1. CASE UNCHANGED pc
  BY <1>1, StaysOn
<1>2. CASE Connect \/ ForgetConnection \/ StartProcess
  <2>1. CASE Connect \/ StartProcess
    BY <2>1, GoesOn DEF Connect, StartProcess, Timed, Prompts
  <2>2. CASE ForgetConnection
    <3>1. pc' = pc \/ pc \in {"closing", "raising"}
      BY <2>2 DEF ForgetConnection
    <3>. QED
      BY <3>1, StaysOn, GoesOn DEF Timed, Prompts
  <2>. QED
    BY <1>2, <2>1, <2>2
<1>3. CASE Cancel \/ FailProcess
  BY <1>3, EndsInTrouble DEF Cancel, FailProcess, Raise, Returned
<1>4. CASE ReadEof \/ TimeOut \/ Interrupted
  BY <1>4, EndsInTrouble DEF ReadEof, TimeOut, Interrupted, Raise
<1>5. CASE Opening \/ ReadChunk \/ ReadLine
  BY <1>5, OpeningTold, ReadChunkTold, ReadLineTold
<1>6. UNCHANGED vars \/ Close \/ Command \/ Tick \/ Drop => UNCHANGED pc
  BY DEF vars, client, Close, Command, Tick, Drop
<1>7. ASSUME NEW c \in Conns, Device(c)
      PROVE  UNCHANGED pc
  <2>1. PICK stage, words, v : Answer(c, stage, words, v)
    BY <1>7, Zenon DEF Device, Greet, HearUsername, HearPassword, HearLine
  <2>. QED
    BY <2>1 DEF Answer, client
<1>. QED
  BY <1>1, <1>2, <1>3, <1>4, <1>5, <1>6, <1>7 DEF Next, Reading

-----------------------------------------------------------------------------
(* The theorems                                                             *)

(* connect() of transport.py reports what the device decided on this          *)
(* connection, however its words are cut into chunks: success only if the     *)
(* device has accepted, a refusal or a lockout only if it said so, and an    *)
(* unexpected banner only if it has judged nothing yet.                     *)
THEOREM VerdictIsReported == Spec => OutcomeIsVerdict
<1>1. IInv /\ Conv /\ [Next]_vars =>
         [ /\ Ends("ok")       => "Ok" \in Latest'.said
           /\ Ends("auth")     => "Bad" \in Latest'.said
           /\ Ends("lockout")  => "Locked" \in Latest'.said
           /\ Ends("protocol") => Latest'.verdicts = 0 ]_vars
  BY NextTold DEF Told
<1>. QED
  BY <1>1, ConvAlways, PTL DEF Spec, OutcomeIsVerdict

(* When connect() has succeeded nothing of the login is left for the first    *)
(* command to trip over: at most a blank line is unread, and the device has  *)
(* answered every line.                                                     *)
THEOREM SessionStartsClean == Spec => CleanStart
<1>1. IInv /\ Conv /\ [Next]_vars =>
         [Ends("ok") => /\ \A i \in DOMAIN stream' : stream'[i][1] = "Blank"
                        /\ peer[conn].inbox = <<>>]_vars
  BY NextTold DEF Clean
<1>. QED
  BY <1>1, ConvAlways, PTL DEF Spec, CleanStart

(* A login that ends in a connection error, a timeout among them, has seen     *)
(* nothing of what it was waiting for: _read_until_any() misses no prompt that *)
(* is cut between two chunks.                                               *)
THEOREM TimeoutsAreSilence == Spec => TimeoutMeansSilence
<1>1. IInv /\ Conv /\ [Next]_vars =>
         [Ends("conn") => \A w \in Needles(pc) : ~Contains(heard, w)]_vars
  BY DEF Conv, Unfound
<1>. QED
  BY <1>1, ConvAlways, PTL DEF Spec, TimeoutMeansSilence
=============================================================================
