------------------------------ MODULE Handshake ------------------------------
(***************************************************************************)
(* The handshake of external schedulers with Agave over a Unix socket:     *)
(* Server::accept, handle_logon and recv_logon in scheduler-handshake/src/ *)
(* server.rs, connect_path, send_logon and recv_response in client.rs.     *)
(*                                                                         *)
(* One server serves one client at a time with one receive buffer that it  *)
(* keeps across calls of accept.  A client writes the message in as many   *)
(* pieces as the system takes it, and may stall, time out or vanish at any *)
(* point.  The 1024 byte message is MsgLen parts, each of which remembers  *)
(* who wrote it: the first holds the versions, the last the logon.         *)
(*                                                                         *)
(* Time only counts while the server waits for data.  What the server does *)
(* between two reads takes no time.                                        *)
(***************************************************************************)
EXTENDS Integers, Sequences

CONSTANTS
    Client,         \* connection attempts
    VersionOk,      \* those whose four versions are the server's
    LogonOk,        \* those whose logon passes ClientLogon::validate
    MsgLen,         \* parts of a logon message
    Timeout,        \* HANDSHAKE_TIMEOUT in ticks
    Undecided,      \* no outcome yet
    Reason          \* what a rejection leaves in the receive buffer

ASSUME HandshakeAssumption ==
    /\ VersionOk \subseteq Client
    /\ LogonOk \subseteq Client
    /\ MsgLen \in Nat \ {0}
    /\ Timeout \in Nat \ {0}

\* The errors of recv_logon, handle_logon and setup_session.
Causes == {"Timeout", "EofDuringHandshake", "Io", "Version", "Setup"}

ASSUME UndecidedAssumption ==
    Undecided \notin ({"error"} \X Causes) \cup ({"session"} \X Client)

VARIABLES
    cpc,            \* where each client is in connect_path
    written,        \* parts of the message that the client has written
    outcome,        \* what connect returned
    backlog,        \* connections that accept has not yet returned
    inbox,          \* server-to-client direction of each socket
    hungup,         \* the ends that are closed: <<"client", c>>, <<"server", c>>
    spc,            \* where the server is in accept
    peer,           \* the connection it is serving
    buffer,         \* Server::buffer, by the author of each part
    buffer_len,     \* parts received in this call of recv_logon
    waited,         \* time since the server called read
    elapsed,        \* handshake_start.elapsed()
    cause,          \* why the server is refusing
    result          \* what accept returned for each client

clientVars == <<cpc, written, outcome>>
socketVars == <<backlog, inbox, hungup>>
serverVars == <<spc, peer, buffer, buffer_len, waited, elapsed, cause, result>>
vars == <<cpc, written, outcome, backlog, inbox, hungup,
          spc, peer, buffer, buffer_len, waited, elapsed, cause, result>>

Init ==
    /\ cpc = [c \in Client |-> "start"]
    /\ written = [c \in Client |-> 0]
    /\ outcome = [c \in Client |-> Undecided]
    /\ backlog = <<>>
    /\ inbox = [c \in Client |-> <<>>]
    /\ hungup = {}
    /\ spc = "accepting"
    /\ peer = Undecided
    /\ buffer = [i \in 1..MsgLen |-> Reason]
    /\ buffer_len = 0
    /\ waited = 0
    /\ elapsed = 0
    /\ cause = Undecided
    /\ result = [c \in Client |-> Undecided]

\* Parts that the client has written and the server has not read.
Available == written[peer] - buffer_len

-----------------------------------------------------------------------------
(* client.rs                                                               *)

\* UnixStream::connect
Connect(c) ==
    /\ cpc[c] = "start"
    /\ cpc' = [cpc EXCEPT ![c] = "sending"]
    /\ backlog' = Append(backlog, c)
    /\ UNCHANGED <<written, outcome, inbox, hungup, serverVars>>

\* connect returns, and its stream is closed.
ClientReturns(c, r) ==
    /\ cpc' = [cpc EXCEPT ![c] = "done"]
    /\ outcome' = [outcome EXCEPT ![c] = r]
    /\ hungup' = hungup \cup {<<"client", c>>}

\* send_logon: write_all goes on until the whole message is taken.
Write(c) ==
    /\ cpc[c] = "sending"
    /\ <<"server", c>> \notin hungup
    /\ \E n \in 1..(MsgLen - written[c]) :
          /\ written' = [written EXCEPT ![c] = @ + n]
          /\ cpc' = [cpc EXCEPT ![c] = IF written[c] + n = MsgLen THEN "receiving" ELSE @]
    /\ UNCHANGED <<outcome, socketVars, serverVars>>

\* recv_response: a failure is reported with the server's reason.
ReceiveFailure(c) ==
    /\ cpc[c] = "receiving"
    /\ inbox[c] # <<>>
    /\ Head(inbox[c]) = <<"failure">>
    /\ ClientReturns(c, <<"rejected">>)
    /\ UNCHANGED <<written, backlog, inbox, serverVars>>

\* recv_response: the files came with the message.
ReceiveSuccess(c) ==
    /\ cpc[c] = "receiving"
    /\ inbox[c] # <<>>
    /\ Head(inbox[c]) # <<"failure">>
    /\ cpc' = [cpc EXCEPT ![c] = "joining"]
    /\ UNCHANGED <<written, outcome, socketVars, serverVars>>

\* client::setup_session joins what the files hold.
Join(c) ==
    /\ cpc[c] = "joining"
    /\ ClientReturns(c, Head(inbox[c]))
    /\ UNCHANGED <<written, backlog, inbox, serverVars>>

\* An error of a system call or a timeout in any of these steps; a write after
\* the server has hung up, and a read that finds the end of the stream.
ClientError(c) ==
    /\ cpc[c] \in {"sending", "receiving", "joining"}
    /\ ClientReturns(c, <<"error">>)
    /\ UNCHANGED <<written, backlog, inbox, serverVars>>

-----------------------------------------------------------------------------
(* server.rs                                                               *)

\* listener.accept, and recv_logon starts reading at buffer_len = 0.
Accept ==
    /\ spc = "accepting"
    /\ backlog # <<>>
    /\ peer' = Head(backlog)
    /\ backlog' = Tail(backlog)
    /\ spc' = "reading"
    /\ buffer_len' = 0
    /\ waited' = 0
    /\ elapsed' = 0
    /\ UNCHANGED <<clientVars, inbox, hungup, buffer, cause, result>>

\* set_read_timeout fails: `?` returns its error and the stream is dropped
\* without a rejection.
AcceptFails ==
    /\ spc = "accepting"
    /\ backlog # <<>>
    /\ backlog' = Tail(backlog)
    /\ result' = [result EXCEPT ![Head(backlog)] = <<"error", "Io">>]
    /\ hungup' = hungup \cup {<<"server", Head(backlog)>>}
    /\ UNCHANGED <<clientVars, inbox, spc, peer, buffer, buffer_len, waited, elapsed, cause>>

Refuse(why) ==
    /\ spc' = "refusing"
    /\ cause' = why

\* Mutant: the total time is not looked at.
ReadPatiently ==
    /\ spc = "reading"
    /\ \E n \in 1..Available :
          /\ buffer' = [i \in 1..MsgLen |-> IF i \in (buffer_len + 1)..(buffer_len + n)
                                            THEN peer ELSE buffer[i]]
          /\ buffer_len' = buffer_len + n
          /\ spc' = IF buffer_len + n = MsgLen THEN "parsing" ELSE "reading"
    /\ waited' = 0
    /\ UNCHANGED <<clientVars, socketVars, peer, elapsed, cause, result>>

\* stream.read returns some of what is there; the time is checked after it.
Read ==
    /\ spc = "reading"
    /\ \E n \in 1..Available :
          /\ buffer' = [i \in 1..MsgLen |-> IF i \in (buffer_len + 1)..(buffer_len + n)
                                            THEN peer ELSE buffer[i]]
          /\ buffer_len' = buffer_len + n
          /\ \/ /\ elapsed > Timeout
                /\ Refuse("Timeout")
             \/ /\ elapsed =< Timeout
                /\ spc' = IF buffer_len + n = MsgLen THEN "parsing" ELSE "reading"
                /\ UNCHANGED cause
    /\ waited' = 0
    /\ UNCHANGED <<clientVars, socketVars, peer, elapsed, result>>

\* Mutant: the end of the stream ends the message.
ReadToEof ==
    /\ spc = "reading"
    /\ Available = 0
    /\ <<"client", peer>> \in hungup
    /\ spc' = "parsing"
    /\ UNCHANGED <<clientVars, socketVars, peer, buffer, buffer_len, waited, elapsed, cause, result>>

\* stream.read returns 0
ReadEof ==
    /\ spc = "reading"
    /\ Available = 0
    /\ <<"client", peer>> \in hungup
    /\ Refuse("EofDuringHandshake")
    /\ UNCHANGED <<clientVars, socketVars, peer, buffer, buffer_len, waited, elapsed, result>>

\* Mutant: there is no read timeout.
ReadForever == FALSE /\ UNCHANGED vars

\* set_read_timeout: stream.read fails after HANDSHAKE_TIMEOUT without data.
ReadTimesOut ==
    /\ spc = "reading"
    /\ Available = 0
    /\ <<"client", peer>> \notin hungup
    /\ waited >= Timeout
    /\ Refuse("Io")
    /\ UNCHANGED <<clientVars, socketVars, peer, buffer, buffer_len, waited, elapsed, result>>

\* Time passes while the server is blocked in read.
Tick ==
    /\ spc = "reading"
    /\ Available = 0
    /\ <<"client", peer>> \notin hungup
    /\ waited < Timeout
    /\ waited' = waited + 1
    /\ elapsed' = elapsed + 1
    /\ UNCHANGED <<clientVars, socketVars, spc, peer, buffer, buffer_len, cause, result>>

\* Mutant: the versions are not compared.
ParseAnyVersion ==
    /\ spc = "parsing"
    /\ \/ Refuse("Setup")
       \/ buffer[MsgLen] \in LogonOk /\ spc' = "sending" /\ UNCHANGED cause
    /\ UNCHANGED <<clientVars, socketVars, peer, buffer, buffer_len, waited, elapsed, result>>

\* The versions are compared; setup_session validates the logon and creates the
\* allocator and the queues (see SessionLayout), which can fail.
Parse ==
    /\ spc = "parsing"
    /\ \/ buffer[1] \notin VersionOk /\ Refuse("Version")
       \/ buffer[1] \in VersionOk /\ Refuse("Setup")
       \/ /\ buffer[1] \in VersionOk
          /\ buffer[MsgLen] \in LogonOk
          /\ spc' = "sending"
          /\ UNCHANGED cause
    /\ UNCHANGED <<clientVars, socketVars, peer, buffer, buffer_len, waited, elapsed, result>>

\* accept returns and drops the stream.
ServerReturns(r) ==
    /\ result' = [result EXCEPT ![peer] = r]
    /\ hungup' = hungup \cup {<<"server", peer>>}
    /\ spc' = "accepting"
    /\ peer' = Undecided
    /\ cause' = Undecided

\* sendmsg passes the files of the session that was set up ...
SendFiles ==
    /\ spc = "sending"
    /\ <<"client", peer>> \notin hungup
    /\ inbox' = [inbox EXCEPT ![peer] = Append(@, <<"session", buffer[MsgLen]>>)]
    /\ ServerReturns(<<"session", buffer[MsgLen]>>)
    /\ UNCHANGED <<clientVars, backlog, buffer, buffer_len, waited, elapsed>>

\* ... or fails, in particular when the client has gone.
SendFilesFails ==
    /\ spc = "sending"
    /\ Refuse("Io")
    /\ UNCHANGED <<clientVars, socketVars, peer, buffer, buffer_len, waited, elapsed, result>>

\* The Err arm of accept: the reason goes into the same buffer and is written
\* without blocking ...
WriteFailure ==
    /\ spc = "refusing"
    /\ <<"client", peer>> \notin hungup
    /\ buffer' = [i \in 1..MsgLen |-> Reason]
    /\ inbox' = [inbox EXCEPT ![peer] = Append(@, <<"failure">>)]
    /\ ServerReturns(<<"error", cause>>)
    /\ UNCHANGED <<clientVars, backlog, buffer_len, waited, elapsed>>

\* ... and if that fails, `?` returns the error of the write.
WriteFailureFails ==
    /\ spc = "refusing"
    /\ buffer' = [i \in 1..MsgLen |-> Reason]
    /\ ServerReturns(<<"error", "Io">>)
    /\ UNCHANGED <<clientVars, backlog, inbox, buffer_len, waited, elapsed>>

-----------------------------------------------------------------------------

ServerStep ==
    \/ Accept
    \/ AcceptFails
    \/ Read
    \/ ReadEof
    \/ ReadTimesOut
    \/ Parse
    \/ SendFiles
    \/ SendFilesFails
    \/ WriteFailure
    \/ WriteFailureFails

ClientStep(c) ==
    \/ Connect(c)
    \/ Write(c)
    \/ ReceiveFailure(c)
    \/ ReceiveSuccess(c)
    \/ Join(c)
    \/ ClientError(c)

\* Nobody connects any more.
Quiet ==
    /\ spc = "accepting"
    /\ \A c \in Client : cpc[c] = "done"
    /\ UNCHANGED vars

Next == ServerStep \/ Tick \/ (\E c \in Client : ClientStep(c)) \/ Quiet

Spec == Init /\ [][Next]_vars

\* The server keeps running and time passes.  Nothing is assumed of clients.
FairSpec == Spec /\ WF_vars(ServerStep) /\ WF_vars(Tick)

-----------------------------------------------------------------------------

\* The logon that the server acts on was written, all of it, by the client it
\* is serving: nothing that an earlier client or an earlier rejection left in
\* the shared buffer is ever read as part of a message.
NoStaleBuffer ==
    spc \in {"parsing", "sending"} => \A i \in 1..MsgLen : buffer[i] = peer

\* One slow client, however it spaces its writes, keeps the server from
\* accepting others for at most twice HANDSHAKE_TIMEOUT of waiting.
WaitIsBounded == spc = "reading" => elapsed =< 2 * Timeout

\* What the handshake promises: see HandshakeOutcome.
Outcome == INSTANCE HandshakeOutcome WITH
    Acceptable <- VersionOk \cap LogonOk,
    server <- [c \in Client |->
                 IF result[c] # Undecided /\ Head(result[c]) = "error"
                 THEN <<"error">> ELSE result[c]],
    client <- outcome

\* Server and clients implement that promise.
ImplementsOutcome == Outcome!Spec

\* accept returns the error for which it refused the client; the comment on the
\* write of the rejection says that its result is ignored.
RefusalCauseIsReturned ==
    [][spc = "refusing" /\ spc' # "refusing" => result'[peer] = <<"error", cause>>]_vars

\* Every connection gets an answer from the server, whatever the other clients
\* and the client itself do or fail to do.
EveryConnectionIsServed ==
    \A c \in Client : cpc[c] = "sending" ~> result[c] # Undecided
=============================================================================
