------------------------------- MODULE Login -------------------------------
(***************************************************************************)
(* connect() and close() of the two transports of wattbox_local/transport.py: *)
(* the walk of TelnetTransport through the login prompts, the opening and   *)
(* priming of a session by SSHTransport, and what is left when either is    *)
(* timed out, refused, cancelled, or loses its peer.                        *)
(*                                                                         *)
(* Text arrives in chunks that need not end where a prompt does: each word  *)
(* of the device is two pieces.  The tasks above keep the discipline of     *)
(* WattboxClient (module Client): connect() is awaited before the transport *)
(* is shared, and repeated only by _reconnect(), under its lock, after a     *)
(* close().                                                                 *)
(***************************************************************************)
EXTENDS Integers, Sequences, FiniteSets

CONSTANTS
    Timeout,        \* connect_timeout, in ticks
    MaxConns,       \* bound: connections the device sees
    MaxCommands     \* bound: lines other tasks send meanwhile

ASSUME LoginAssumption ==
    Timeout \in Nat \ {0} /\ MaxConns \in Nat \ {0} /\ MaxCommands \in Nat

VARIABLES
    kind,       \* which of the two transports this is
    pc,         \* where connect() is, "idle" outside
    conn,       \* the connection held open: _reader and _writer, or _conn; 0 if none
    handle,     \* _conn still names a connection that close() has closed
    proc,       \* _process is set
    closed,     \* _closed
    left,       \* time to the deadline connect() waits for
    buf,        \* the text it looks for prompts in
    outcome,    \* how the last connect() ended, "none" before
    stream,     \* pieces that have arrived and are not read
    eof,        \* nothing follows the stream
    peer,       \* the device, per connection
    commands,   \* lines other tasks have sent
    open,       \* history: connections the client has not closed
    aborted,    \* history: connections whose login was cancelled
    heard,      \* history: the pieces read since the last line was written
    spent       \* history: time since connect() was called

client  == <<pc, conn, handle, proc, closed, left, buf, outcome>>
channel == <<stream, eof>>
vars    == <<kind, client, channel, peer, commands, open, aborted, heard, spent>>

Conns == 1 .. MaxConns
Made  == Cardinality({c \in Conns : peer[c].stage # "none"})

Words == {"Username", "Password", "Ok", "Bad", "Locked", "Blank", "Banner", "Firmware", "Error"}
Pieces == Words \X {"head", "tail"}
Said(words) == [i \in 1 .. 2 * Len(words) |->
                  <<words[(i + 1) \div 2], IF i % 2 = 1 THEN "head" ELSE "tail">>]
Contains(text, word) ==
    \E i \in 1 .. Len(text) - 1 : text[i] = <<word, "head">> /\ text[i + 1] = <<word, "tail">>

Prompts  == {"user", "pass", "result"}
Timed    == {"opening", "prime"} \cup Prompts
Untimed  == {"closing", "process", "raising"}   \* connect() waits with no deadline
Places   == Timed \cup Untimed \cup {"idle"}
Outcomes == {"none", "ok", "auth", "lockout", "conn", "protocol", "raw", "cancelled"}
Stages   == {"none", "new", "user", "pass", "shell", "gone"}

(* Types, and that what SSHTransport forgets after wait_closed()              *)
(* (transport.py:525) is the connection it has closed: connect() has held     *)
(* no other since.                                                         *)
LoginTypeOK ==
    /\ kind \in {"telnet", "ssh"} /\ pc \in Places
    /\ conn \in 0 .. MaxConns /\ handle \in BOOLEAN /\ proc \in BOOLEAN /\ closed \in BOOLEAN
    /\ left \in 0 .. Timeout /\ buf \in Seq(Pieces) /\ outcome \in Outcomes
    /\ stream \in Seq(Pieces) /\ eof \in BOOLEAN /\ commands \in 0 .. MaxCommands
    /\ \A c \in Conns : peer[c].stage \in Stages /\ peer[c].said \subseteq Words
    /\ open \subseteq Conns /\ aborted \subseteq Conns
    /\ proc => kind = "ssh"
    /\ handle => kind = "ssh" /\ closed /\ conn = 0

Unmade == [stage |-> "none", inbox |-> <<>>, said |-> {}, verdicts |-> 0]

Init ==
    /\ kind \in {"telnet", "ssh"}
    /\ pc = "idle" /\ conn = 0 /\ handle = FALSE /\ proc = FALSE /\ closed = FALSE
    /\ left = 0 /\ buf = <<>> /\ outcome = "none"
    /\ stream = <<>> /\ eof = FALSE
    /\ peer = [c \in Conns |-> Unmade] /\ commands = 0
    /\ open = {} /\ aborted = {} /\ heard = <<>> /\ spent = 0

IsConnected == conn # 0 /\ (kind = "ssh" => proc) /\ ~closed

-----------------------------------------------------------------------------
(* close()                                                                 *)

(* A line written to the connection held.                                  *)
Sent(line) == IF conn = 0 THEN peer ELSE [peer EXCEPT ![conn].inbox = Append(@, line)]

(* Faulty: the connection of a session is closed only together with its     *)
(* process.                                                                *)
CloseUnderlyingWithProcess ==
    /\ open' = IF kind = "ssh" /\ ~proc THEN open ELSE open \ {conn}
    /\ conn' = 0 /\ proc' = FALSE
    /\ handle' = (handle \/ (kind = "ssh" /\ conn # 0))
    /\ stream' = <<>> /\ eof' = FALSE

(* _close_underlying(), as far as it goes without a pause: SSHTransport       *)
(* forgets its connection only after wait_closed(), TelnetTransport at once. *)
CloseUnderlying ==
    /\ open' = open \ {conn}
    /\ conn' = 0 /\ proc' = FALSE
    /\ handle' = (handle \/ (kind = "ssh" /\ conn # 0))
    /\ stream' = <<>> /\ eof' = FALSE

Closing ==
    /\ peer' = IF IsConnected THEN Sent("exit") ELSE peer
    /\ closed' = TRUE
    /\ CloseUnderlying

(* wait_closed() returns to all who wait in it, and the connection is         *)
(* forgotten.  Where they have been cancelled the handle stays.             *)
ForgetConnection ==
    /\ handle
    /\ conn' = 0 /\ handle' = FALSE
    /\ CASE pc = "closing" -> pc' = "opening" /\ left' = Timeout
         [] pc = "raising" -> pc' = "idle" /\ UNCHANGED left
         [] OTHER          -> UNCHANGED <<pc, left>>
    /\ UNCHANGED <<kind, proc, closed, buf, outcome, channel, peer, commands,
                   open, aborted, heard, spent>>

Reported(result) ==
    /\ outcome' = result
    /\ left' = 0 /\ buf' = <<>> /\ heard' = <<>> /\ spent' = 0

Returned(result) == pc' = "idle" /\ Reported(result)

(* "except Exception: await self.close(); raise"                           *)
Raise(result) ==
    /\ Closing /\ Reported(result)
    /\ pc' = IF handle' THEN "raising" ELSE "idle"

(* close() takes no lock: once the transport is shared, a task may be within  *)
(* the connect() of _reconnect().                                          *)
Close ==
    /\ pc = "idle" \/ outcome # "none"
    /\ conn # 0 \/ ~closed
    /\ Closing
    /\ UNCHANGED <<kind, pc, left, buf, outcome, commands, aborted, heard, spent>>

-----------------------------------------------------------------------------
(* connect(): opening                                                      *)

(* Faulty: connect() does not wait until close() is through.                *)
ConnectAtOnce ==
    /\ pc = "idle" /\ ~IsConnected /\ Made < MaxConns
    /\ IF outcome = "none" /\ ~closed
       THEN UNCHANGED <<conn, handle, proc, closed, channel, peer, open>>
       ELSE Closing
    /\ pc' = "opening" /\ left' = Timeout
    /\ UNCHANGED <<kind, buf, outcome, commands, aborted, heard, spent>>

(* connect() for the first time, or the close() and connect() of            *)
(* _reconnect().                                                           *)
Connect ==
    /\ pc = "idle" /\ ~IsConnected /\ Made < MaxConns
    /\ IF outcome = "none" /\ ~closed
       THEN UNCHANGED <<conn, handle, proc, closed, channel, peer, open>>
       ELSE Closing
    /\ pc' = IF handle' THEN "closing" ELSE "opening"
    /\ left' = IF handle' THEN 0 ELSE Timeout
    /\ UNCHANGED <<kind, buf, outcome, commands, aborted, heard, spent>>

(* A connection the device has seen, as it stands when it is opened.        *)
New(stage, said, verdicts) ==
    peer' = [peer EXCEPT ![Made + 1] =
                [stage |-> stage, inbox |-> <<>>, said |-> said, verdicts |-> verdicts]]

Held ==
    /\ pc = "opening"
    /\ conn' = Made + 1 /\ open' = open \cup {Made + 1}

(* Faulty: a connection that is opened counts as connected again.          *)
OpenTelnetResets ==
    /\ kind = "telnet" /\ Held
    /\ New("new", {}, 0)
    /\ pc' = "user" /\ left' = Timeout /\ closed' = FALSE
    /\ UNCHANGED <<kind, handle, proc, buf, outcome, channel, commands, aborted, heard, spent>>

OpenTelnet ==
    /\ kind = "telnet" /\ Held
    /\ New("new", {}, 0)
    /\ pc' = "user" /\ left' = Timeout
    /\ UNCHANGED <<kind, handle, proc, closed, buf, outcome, channel, commands, aborted, heard, spent>>

(* asyncssh.connect() returns once the credentials are accepted.  What       *)
(* follows has no deadline.                                                *)
OpenSsh ==
    /\ kind = "ssh" /\ Held
    /\ New("shell", {"Ok"}, 1)
    /\ pc' = "process" /\ left' = 0
    /\ UNCHANGED <<kind, handle, proc, closed, buf, outcome, channel, commands, aborted, heard, spent>>

Unopened == UNCHANGED <<kind, conn, handle, proc, closed, channel, commands, open, aborted>>

(* asyncssh.PermissionDenied                                               *)
RefuseSsh ==
    /\ kind = "ssh" /\ pc = "opening"
    /\ New("gone", {"Bad"}, 1)
    /\ Returned("auth")
    /\ Unopened

(* Refused, unreachable or timed out.  An SSH server may have judged the     *)
(* credentials all the same.                                               *)
FailToOpen ==
    /\ pc = "opening"
    /\ UNCHANGED peer \/ (kind = "ssh" /\ \E v \in 0 .. 1 : New("gone", {}, v))
    /\ Returned("conn")
    /\ Unopened

-----------------------------------------------------------------------------
(* TelnetTransport._login()                                                *)

Needles(at) == CASE at = "user"   -> {"Username", "Locked", "Bad"}
                 [] at = "pass"   -> {"Password", "Locked"}
                 [] at = "result" -> {"Ok", "Bad", "Locked"}
                 [] at = "prime"  -> {"Firmware", "Bad", "Locked"}
                 [] OTHER         -> {}

(* The next line is written, and read for with a deadline of its own; or     *)
(* the write fails because the peer has gone.                              *)
Prompted(line, next) ==
    \/ /\ pc' = next /\ left' = Timeout /\ buf' = <<>> /\ heard' = <<>>
       /\ peer' = Sent(line)
       /\ UNCHANGED <<conn, handle, proc, closed, outcome, eof, open, spent>>
    \/ eof /\ Raise("raw")

Accepted ==
    /\ Returned("ok")
    /\ UNCHANGED <<conn, handle, proc, closed, eof, peer, open>>

(* Faulty: a refused login starts over in the same session.                *)
LoginRetries(text) ==
    IF Contains(text, "Locked") THEN Raise("lockout")
    ELSE CASE pc = "user" /\ Contains(text, "Username")  -> Prompted("username", "pass")
           [] pc = "pass" /\ Contains(text, "Password")  -> Prompted("password", "result")
           [] pc = "result" /\ Contains(text, "Bad")     -> Prompted("username", "pass")
           [] pc = "result" /\ ~Contains(text, "Bad") /\ Contains(text, "Ok") -> Accepted
           [] OTHER                                      -> Raise("protocol")

(* Faulty: the test for LOGIN_BAD is missing.                              *)
LoginBadUnseen(text) ==
    IF Contains(text, "Locked") THEN Raise("lockout")
    ELSE CASE pc = "user" /\ Contains(text, "Username")  -> Prompted("username", "pass")
           [] pc = "pass" /\ Contains(text, "Password")  -> Prompted("password", "result")
           [] pc = "result" /\ Contains(text, "Ok")      -> Accepted
           [] OTHER                                      -> Raise("protocol")

(* What _login() does with the text in which it has found a needle.        *)
LoginStep(text) ==
    IF Contains(text, "Locked") THEN Raise("lockout")
    ELSE CASE pc = "user" /\ Contains(text, "Username")  -> Prompted("username", "pass")
           [] pc = "pass" /\ Contains(text, "Password")  -> Prompted("password", "result")
           [] pc = "result" /\ Contains(text, "Bad")     -> Raise("auth")
           [] pc = "result" /\ ~Contains(text, "Bad") /\ Contains(text, "Ok") -> Accepted
           [] OTHER                                      -> Raise("protocol")

Read(n) == SubSeq(stream, 1, n)
Rest(n) == SubSeq(stream, n + 1, Len(stream))

(* The stream after a step that reads n pieces of it.                      *)
Consumed(n) == stream' = IF conn' = conn THEN Rest(n) ELSE <<>>

ReadOn(n) ==
    /\ heard' = heard \o Read(n)
    /\ UNCHANGED <<pc, conn, handle, proc, closed, outcome, eof, peer, open, spent>>

(* Faulty: a prompt is looked for in the last chunk only.                  *)
ReadUntilAnyForgets(n) ==
    IF \E w \in Needles(pc) : Contains(Read(n), w)
    THEN LoginStep(Read(n))
    ELSE ReadOn(n) /\ buf' = Read(n) /\ UNCHANGED left

(* Faulty: every chunk is waited for with the whole timeout.               *)
ReadUntilAnyRestarts(n) ==
    LET text == buf \o Read(n) IN
    IF \E w \in Needles(pc) : Contains(text, w)
    THEN LoginStep(text)
    ELSE ReadOn(n) /\ buf' = text /\ left' = Timeout

(* One turn of _read_until_any().                                          *)
ReadUntilAny(n) ==
    LET text == buf \o Read(n) IN
    IF \E w \in Needles(pc) : Contains(text, w)
    THEN LoginStep(text)
    ELSE ReadOn(n) /\ buf' = text /\ UNCHANGED left

ReadChunk ==
    /\ pc \in Prompts
    /\ \E n \in 1 .. Len(stream) : ReadUntilAny(n) /\ Consumed(n)
    /\ UNCHANGED <<kind, commands, aborted>>

-----------------------------------------------------------------------------
(* SSHTransport.connect(): the process, and _drain_post_auth_banner().      *)

(* The process is held whenever create_process() returns, though close() may  *)
(* have taken the connection away meanwhile: then nobody reads what is      *)
(* written to it.                                                          *)
StartProcess ==
    /\ pc = "process"
    /\ proc' = TRUE
    /\ pc' = "prime" /\ left' = Timeout /\ buf' = <<>> /\ heard' = <<>>
    /\ peer' = Sent("firmware")
    /\ UNCHANGED <<kind, conn, handle, closed, outcome, channel, commands, open, aborted, spent>>

(* create_process() raises what asyncssh raises.                           *)
FailProcess ==
    /\ pc = "process"
    /\ Raise("raw")
    /\ UNCHANGED <<kind, commands, aborted>>

(* Faulty: the session counts as primed once the banner is complete.       *)
PrimedAfterBanner(line, n) ==
    CASE Contains(line, "Locked")   -> Raise("lockout")
      [] Contains(line, "Bad")      -> Raise("auth")
      [] Contains(line, "Ok")       -> Accepted
      [] OTHER -> ReadOn(n) /\ UNCHANGED <<buf, left>>

Primed(line, n) ==
    CASE Contains(line, "Locked")   -> Raise("lockout")
      [] Contains(line, "Bad")      -> Raise("auth")
      [] Contains(line, "Firmware") -> Accepted
      [] OTHER -> ReadOn(n) /\ UNCHANGED <<buf, left>>

(* readline() returns a whole line, or what there is of it at the end.      *)
ReadLine ==
    /\ pc = "prime" /\ stream # <<>> /\ (Len(stream) > 1 \/ eof)
    /\ LET n == IF Len(stream) > 1 THEN 2 ELSE 1 IN Primed(Read(n), n) /\ Consumed(n)
    /\ UNCHANGED <<kind, commands, aborted>>

-----------------------------------------------------------------------------
(* Both: the end of the stream, the deadline, cancellation.                *)

ReadEof ==
    /\ pc \in Prompts \cup {"prime"} /\ stream = <<>> /\ eof
    /\ Raise("conn")
    /\ UNCHANGED <<kind, commands, aborted>>

(* Faulty: nothing limits the priming of a session.                        *)
TimeOutLogin ==
    /\ pc \in Prompts /\ left = 0
    /\ Raise("conn")
    /\ UNCHANGED <<kind, commands, aborted>>

TimeOut ==
    /\ pc \in Prompts \cup {"prime"} /\ left = 0
    /\ Raise("conn")
    /\ UNCHANGED <<kind, commands, aborted>>

(* close() by another task took the reader or the process away: the read     *)
(* ends, or the next access raises AttributeError.                         *)
Interrupted ==
    /\ pc \in Prompts \cup {"prime"} /\ conn = 0
    /\ \E result \in {"conn", "raw"} : Raise(result)
    /\ UNCHANGED <<kind, commands, aborted>>

Tick ==
    /\ pc \in Timed /\ left > 0
    /\ left' = left - 1 /\ spent' = spent + 1
    /\ UNCHANGED <<kind, pc, conn, handle, proc, closed, buf, outcome, channel, peer,
                   commands, open, aborted, heard>>

(* CancelledError is no Exception: nothing is closed.                      *)
Cancel ==
    /\ pc # "idle"
    /\ Returned("cancelled")
    /\ aborted' = aborted \cup ({conn} \ {0})
    /\ UNCHANGED <<kind, conn, handle, proc, closed, channel, peer, commands, open>>

(* Once connect() has been awaited, the tasks that share the client send     *)
(* whenever is_connected lets them.                                        *)
Command ==
    /\ outcome # "none" /\ IsConnected /\ commands < MaxCommands
    /\ commands' = commands + 1
    /\ peer' = Sent("command")
    /\ UNCHANGED <<kind, client, channel, open, aborted, heard, spent>>

-----------------------------------------------------------------------------
(* The device                                                              *)

Emit(c, words) ==
    stream' = IF c = conn /\ ~eof THEN stream \o Said(words) ELSE stream

Answer(c, stage, words, verdicts) ==
    /\ Emit(c, words)
    /\ peer' = [peer EXCEPT ![c].stage = stage, ![c].verdicts = @ + verdicts,
                            ![c].inbox = IF peer[c].stage = "new" THEN @ ELSE Tail(@),
                            ![c].said = @ \cup {words[i] : i \in DOMAIN words}]
    /\ eof' = (eof \/ (c = conn /\ stage = "gone"))
    /\ UNCHANGED <<kind, client, commands, open, aborted, heard, spent>>

Greet(c) ==
    /\ peer[c].stage = "new"
    /\ \/ Answer(c, "user", <<"Username">>, 0)
       \/ \E word \in {"Locked", "Bad"} : Answer(c, "gone", <<word>>, 0)

Hears(c, stage) == peer[c].stage = stage /\ peer[c].inbox # <<>>

HearUsername(c) ==
    /\ Hears(c, "user")
    /\ \/ Answer(c, "pass", <<"Password">>, 0)
       \/ Answer(c, "gone", <<"Locked">>, 0)

(* Any line is taken for the password; a refusal may come with a new prompt. *)
HearPassword(c) ==
    /\ Hears(c, "pass")
    /\ \/ Head(peer[c].inbox) = "password" /\ Answer(c, "shell", <<"Ok", "Blank">>, 1)
       \/ \E words \in {<<"Bad">>, <<"Bad", "Locked">>} : Answer(c, "gone", words, 1)
       \/ Answer(c, "user", <<"Bad", "Username">>, 1)

(* The first line of an SSH session brings up the banner.  The replies to     *)
(* commands are the business of module Transport.                          *)
HearLine(c) ==
    /\ Hears(c, "shell")
    /\ CASE Head(peer[c].inbox) = "firmware" ->
              \/ \E word \in {"Firmware", "Error"} :
                    Answer(c, "shell", <<"Banner", "Ok", word>>, 0)
              \/ \E word \in {"Bad", "Locked"} : Answer(c, "gone", <<word>>, 0)
         [] Head(peer[c].inbox) = "exit" -> Answer(c, "gone", <<>>, 0)
         [] OTHER                        -> Answer(c, "shell", <<>>, 0)

(* The connection is lost, with some of what was under way.                *)
Drop ==
    /\ conn # 0 /\ ~eof
    /\ \E n \in 0 .. Len(stream) : stream' = Read(n)
    /\ eof' = TRUE
    /\ peer' = [peer EXCEPT ![conn].stage = "gone"]
    /\ UNCHANGED <<kind, client, commands, open, aborted, heard, spent>>

Device(c) == Greet(c) \/ HearUsername(c) \/ HearPassword(c) \/ HearLine(c)

-----------------------------------------------------------------------------
Opening == OpenTelnet \/ OpenSsh \/ RefuseSsh \/ FailToOpen
Reading == ReadChunk \/ ReadLine \/ ReadEof \/ Interrupted \/ TimeOut

Next ==
    \/ Connect \/ Close \/ ForgetConnection \/ Cancel \/ Command
    \/ Opening \/ StartProcess \/ FailProcess \/ Reading \/ Tick
    \/ Drop \/ \E c \in Conns : Device(c)

(* Time goes on, and the event loop runs what is due.                      *)
Fairness == WF_vars(Tick) /\ WF_vars(Opening /\ left = 0) /\ WF_vars(Reading)

Spec == Init /\ [][Next]_vars /\ Fairness

-----------------------------------------------------------------------------
(* Properties                                                              *)

(* The connection of the last or present attempt that got one.             *)
Latest == peer[Made]

(* connect() comes to its end, or to the close() that is left to wait for.    *)
Ends(result) ==
    /\ pc \in Timed \cup {"process"} /\ pc' \in {"idle", "raising"}
    /\ outcome' = result

(* connect() tells what the device decided on this connection, however its   *)
(* words are cut into chunks, and a login that the device has judged and    *)
(* answered is not reported as an unexpected banner.                       *)
OutcomeIsVerdict ==
    [][ /\ Ends("ok")       => "Ok" \in Latest'.said
        /\ Ends("auth")     => "Bad" \in Latest'.said
        /\ Ends("lockout")  => "Locked" \in Latest'.said
        /\ Ends("protocol") => Latest'.verdicts = 0 ]_vars

(* transport.py:464-498: when connect() has returned, the first command finds *)
(* nothing of the login in its way: no banner line unread, no line the      *)
(* device has still to answer.                                             *)
CleanStart ==
    [][Ends("ok") => /\ \A i \in DOMAIN stream' : stream'[i][1] = "Blank"
                     /\ peer[conn].inbox = <<>>]_vars

(* A login times out only if nothing it waited for was in what it had read:   *)
(* a prompt in two chunks is found.                                        *)
TimeoutMeansSilence ==
    [][Ends("conn") => \A w \in Needles(pc) : ~Contains(heard, w)]_vars

(* connect() keeps its callers, and with them the reconnect lock, no longer  *)
(* than its deadlines add up to, whatever drips in.  Only the time that     *)
(* create_process() and wait_closed() take is not limited.                 *)
LoginBounded == spent <= (IF kind = "telnet" THEN 4 ELSE 2) * Timeout

(* The tasks that share the client never send a command into a login: the     *)
(* device would take it for a user name or a password.  A connect() that    *)
(* was cancelled leaves a connection to which this may happen.             *)
NoCommandAsCredential ==
    \A c \in Conns \ aborted : peer[c].stage \in {"new", "user", "pass"} =>
        \A i \in DOMAIN peer[c].inbox : peer[c].inbox[i] # "command"

(* transport.py:24-27: authentication is never tried twice in a session,      *)
(* not even by the "!Exit" that close() types at a prompt.  So a connect()  *)
(* costs the device's count one failure at most.                           *)
OneVerdictPerSession == \A c \in Conns \ aborted : peer[c].verdicts <= 1

(* The device serves few sessions: a client that reconnects leaves none open, *)
(* wherever the last attempt was cancelled or failed.                      *)
OneSession == Cardinality(open) <= 1

(* A device that falls silent at any point keeps connect() only where the     *)
(* code sets no deadline: a login by Telnet returns, and one by SSH returns   *)
(* unless it waits for create_process() (transport.py:458) or, in a close(),  *)
(* for wait_closed() (:524).                                               *)
ConnectReturns ==
    pc # "idle" ~> pc = "idle" \/ (kind = "ssh" /\ pc \in Untimed)

=============================================================================
