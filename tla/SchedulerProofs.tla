--------------------------- MODULE SchedulerProofs ---------------------------
(***************************************************************************)
(* Proofs about what an external scheduler works with: the session it sets *)
(* up with the validator (Handshake and SessionLayout), and the views of   *)
(* transactions that pass through it (SanitizedView).                      *)
(***************************************************************************)
EXTENDS Handshake, SessionLayout, SanitizedView, SequenceTheorems, FiniteSetTheorems,
        TLAPS

\* A leaf that names no prover is given to Zenon.
USE ZenonT(30)

-----------------------------------------------------------------------------
(***************************************************************************)
(* Proofs about the two halves of a scheduler session: Handshake, for any  *)
(* clients, any length of the message and any timeout, and SessionLayout,  *)
(* for any integer widths, page and cell sizes and limit on workers, and   *)
(* any logon whose fields are usize.                                       *)
(***************************************************************************)

Failure == <<<<"failure">>>>
Files(c) == <<<<"session", c>>>>

\* What is known of every variable on its own.
TypeOK ==
    /\ cpc \in [Client -> {"start", "sending", "receiving", "joining", "done"}]
    /\ written \in [Client -> 0..MsgLen]
    /\ DOMAIN outcome = Client
    /\ backlog \in Seq(Client)
    /\ DOMAIN inbox = Client
    /\ spc \in {"accepting", "reading", "parsing", "sending", "refusing"}
    /\ DOMAIN buffer = 1..MsgLen
    /\ buffer_len \in 0..MsgLen
    /\ waited \in 0..Timeout
    /\ elapsed \in Nat
    /\ DOMAIN result = Client

\* The connection that the server is at work on.
Serving(c) == spc # "accepting" /\ peer = c

\* The server has not answered the peer; what it has read is the peer's; and
\* it goes on waiting only as long as the last read came within the timeout.
ServerInv ==
    /\ spc # "accepting" => peer \in Client /\ result[peer] = Undecided
    /\ spc = "reading" =>
          /\ buffer_len =< written[peer]
          /\ \A i \in 1..buffer_len : buffer[i] = peer
          /\ elapsed =< Timeout + waited
    /\ spc \in {"parsing", "sending"} => \A i \in 1..MsgLen : buffer[i] = peer
    /\ spc = "sending" => peer \in VersionOk \cap LogonOk
    /\ spc = "refusing" => cause \in Causes

\* A connection is in the backlog once, and not after it was accepted.
BacklogInv ==
    /\ \A i \in 1..Len(backlog) : result[backlog[i]] = Undecided /\ ~Serving(backlog[i])
    /\ \A i, j \in 1..Len(backlog) : backlog[i] = backlog[j] => i = j

\* What the client can find in its socket is the answer that accept returned.
ClientInv(c) ==
    /\ cpc[c] # "done" => outcome[c] = Undecided
    /\ cpc[c] = "start" =>
          /\ result[c] = Undecided /\ ~Serving(c)
          /\ \A i \in 1..Len(backlog) : backlog[i] # c
    /\ \/ result[c] = Undecided /\ inbox[c] = <<>>
       \/ result[c] \in {"error"} \X Causes /\ inbox[c] \in {<<>>, Failure}
       \/ result[c] = <<"session", c>> /\ inbox[c] = Files(c)
    /\ cpc[c] = "joining" => inbox[c] = Files(c)

IInv == TypeOK /\ ServerInv /\ BacklogInv /\ \A c \in Client : ClientInv(c)

-----------------------------------------------------------------------------
USE HandshakeAssumption

\* Every step keeps the types; Read stays within the message because it takes
\* no more than the client has written.
LEMMA TypeStep == ASSUME TypeOK, ServerInv, [Next]_vars PROVE TypeOK'
<1>1. CASE \E c \in Client : ClientStep(c)
  <2> PICK c \in Client : ClientStep(c)
    BY <1>1
  <2>1. CASE Connect(c)
    BY <2>1, SMTT(30) DEF TypeOK, Connect, serverVars
  <2>2. CASE Write(c)
    BY <2>2, SMTT(30) DEF TypeOK, Write, socketVars, serverVars
  <2>3. CASE ReceiveFailure(c)
    BY <2>3 DEF TypeOK, ReceiveFailure, ClientReturns, serverVars
  <2>4. CASE ReceiveSuccess(c)
    BY <2>4 DEF TypeOK, ReceiveSuccess, socketVars, serverVars
  <2>5. CASE Join(c)
    BY <2>5 DEF TypeOK, Join, ClientReturns, serverVars
  <2>6. CASE ClientError(c)
    BY <2>6 DEF TypeOK, ClientError, ClientReturns, serverVars
  <2> QED
    BY <2>1, <2>2, <2>3, <2>4, <2>5, <2>6 DEF ClientStep
<1>2. CASE Accept
  BY <1>2, SMTT(30) DEF TypeOK, Accept, clientVars
<1>3. CASE Read
  BY <1>3, SMTT(30) DEF TypeOK, ServerInv, Read, Available, Refuse, clientVars, socketVars
<1>4. CASE ReadEof \/ ReadTimesOut \/ SendFilesFails
  BY <1>4 DEF TypeOK, ReadEof, ReadTimesOut, SendFilesFails, Refuse, clientVars, socketVars
<1>5. CASE Parse
  BY <1>5 DEF TypeOK, Parse, Refuse, clientVars, socketVars
<1>6. CASE SendFiles
  BY <1>6 DEF TypeOK, SendFiles, ServerReturns, clientVars
<1>7. CASE WriteFailure
  BY <1>7 DEF TypeOK, WriteFailure, ServerReturns, clientVars
<1>8. CASE WriteFailureFails
  BY <1>8 DEF TypeOK, WriteFailureFails, ServerReturns, clientVars
<1>9. CASE Tick
  BY <1>9, SMTT(30) DEF TypeOK, Tick, clientVars, socketVars
<1>10. CASE UNCHANGED vars
  BY <1>10 DEF TypeOK, vars
<1>11. CASE AcceptFails
  BY <1>11, SMTT(30) DEF TypeOK, AcceptFails, clientVars
<1> QED
  BY <1>1, <1>2, <1>3, <1>4, <1>5, <1>6, <1>7, <1>8, <1>9, <1>10, <1>11
  DEF Next, ServerStep, Quiet

\* Every step keeps ServerInv.  Accept finds a client without an answer because
\* of BacklogInv, and Read extends the part of the buffer that is the peer's.
LEMMA ServerStepInv ==
  ASSUME TypeOK, ServerInv, BacklogInv, [Next]_vars
  PROVE  ServerInv'
<1>1. CASE \E c \in Client : ClientStep(c)
  <2> PICK c \in Client : ClientStep(c)
    BY <1>1
  <2>1. UNCHANGED serverVars
    BY DEF ClientStep, Connect, Write, ReceiveFailure, ReceiveSuccess, Join, ClientError
  <2>2. \A d \in Client : written'[d] >= written[d]
    BY SMTT(30) DEF ClientStep, Connect, Write, ReceiveFailure, ReceiveSuccess, Join, ClientError,
           TypeOK
  <2>3. written' \in [Client -> 0..MsgLen]
    BY TypeStep DEF TypeOK
  <2> QED
    <3>1. spc = "reading" => buffer_len =< written'[peer]
      BY <2>2, <2>3, SMTT(30) DEF ServerInv, TypeOK
    <3> QED
      BY <2>1, <3>1 DEF ServerInv, serverVars
<1>2. CASE Accept
  <2>1. Head(backlog) = backlog[1] /\ 1 \in 1..Len(backlog) /\ backlog[1] \in Client
    BY <1>2, SMTT(30) DEF Accept, TypeOK
  <2>2. result[backlog[1]] = Undecided
    BY <2>1 DEF BacklogInv
  <2> QED
    BY <1>2, <2>1, <2>2, SMTT(30) DEF Accept, ServerInv, TypeOK, clientVars
<1>3. CASE Read
  <2> PICK n \in 1..Available :
        /\ buffer' = [i \in 1..MsgLen |-> IF i \in (buffer_len + 1)..(buffer_len + n)
                                          THEN peer ELSE buffer[i]]
        /\ buffer_len' = buffer_len + n
        /\ \/ /\ elapsed > Timeout
              /\ Refuse("Timeout")
           \/ /\ elapsed =< Timeout
              /\ spc' = IF buffer_len + n = MsgLen THEN "parsing" ELSE "reading"
              /\ UNCHANGED cause
    BY <1>3 DEF Read
  <2>1. peer \in Client /\ buffer_len \in Nat /\ n \in Nat /\ buffer_len + n =< written[peer]
    BY <1>3, SMTT(30) DEF Read, Available, ServerInv, TypeOK
  <2>2. \A i \in 1..(buffer_len + n) : buffer'[i] = peer
    BY <1>3, <2>1, SMTT(30) DEF Read, ServerInv, TypeOK
  <2>3. UNCHANGED <<peer, result, written, elapsed>> /\ waited' = 0 /\ result[peer] = Undecided
    BY <1>3 DEF Read, ServerInv, clientVars, socketVars
  <2>4. CASE Refuse("Timeout")
    BY <2>1, <2>3, <2>4 DEF Refuse, Causes, ServerInv
  <2>5. CASE elapsed =< Timeout /\ spc' = "reading"
    <3>1. buffer_len' =< written'[peer'] /\ \A i \in 1..buffer_len' : buffer'[i] = peer'
      BY <2>1, <2>2, <2>3
    <3>2. elapsed' =< Timeout + waited'
      BY <2>3, <2>5, SMTT(30) DEF TypeOK
    <3> QED
      BY <2>1, <2>3, <2>5, <3>1, <3>2 DEF ServerInv
  <2>6. CASE spc' = "parsing" /\ buffer_len + n = MsgLen
    BY <2>1, <2>2, <2>3, <2>6 DEF ServerInv
  <2> QED
    BY <2>4, <2>5, <2>6
<1>4. CASE ReadEof \/ ReadTimesOut \/ SendFilesFails
  <2>1. UNCHANGED <<peer, result>> /\ spc # "accepting"
    BY <1>4 DEF ReadEof, ReadTimesOut, SendFilesFails
  <2>2. spc' = "refusing" /\ cause' \in Causes
    BY <1>4 DEF ReadEof, ReadTimesOut, SendFilesFails, Refuse, Causes
  <2> QED
    BY <2>1, <2>2 DEF ServerInv
<1>5. CASE Parse
  <2>1. UNCHANGED <<peer, result, buffer>> /\ spc = "parsing"
    BY <1>5 DEF Parse
  <2>2. \A i \in 1..MsgLen : buffer[i] = peer
    BY <2>1 DEF ServerInv
  <2>3. CASE spc' = "refusing" /\ cause' \in Causes
    BY <2>1, <2>3 DEF ServerInv
  <2>4. CASE spc' = "sending" /\ buffer[1] \in VersionOk /\ buffer[MsgLen] \in LogonOk
    BY <2>1, <2>2, <2>4, SMTT(30) DEF ServerInv
  <2> QED
    BY <1>5, <2>3, <2>4 DEF Parse, Refuse, Causes
<1>6. CASE AcceptFails \/ SendFiles \/ WriteFailure \/ WriteFailureFails
  BY <1>6 DEF AcceptFails, SendFiles, WriteFailure, WriteFailureFails, ServerReturns, ServerInv
<1>7. CASE Tick
  BY <1>7, SMTT(30) DEF Tick, ServerInv, TypeOK, clientVars, socketVars
<1>8. CASE UNCHANGED vars
  BY <1>8 DEF ServerInv, vars
<1> QED
  BY <1>1, <1>2, <1>3, <1>4, <1>5, <1>6, <1>7, <1>8 DEF Next, ServerStep, Quiet

\* Every step keeps BacklogInv: a client connects once, and the one that leaves
\* the backlog is the first.
LEMMA BacklogStepInv ==
  ASSUME IInv, [Next]_vars
  PROVE  BacklogInv'
<1> USE DEF IInv
<1>1. ASSUME NEW c \in Client, Connect(c) PROVE BacklogInv'
  <2>1. /\ backlog \in Seq(Client) /\ backlog' = Append(backlog, c)
        /\ Len(backlog') = Len(backlog) + 1
        /\ backlog'[Len(backlog) + 1] = c
        /\ \A i \in 1..Len(backlog) : backlog'[i] = backlog[i]
    BY <1>1, SMTT(30) DEF Connect, TypeOK
  <2>2. \A i \in 1..Len(backlog) : backlog[i] # c
    BY <1>1 DEF Connect, ClientInv
  <2>3. result[c] = Undecided /\ ~Serving(c)
    BY <1>1 DEF Connect, ClientInv
  <2>4. UNCHANGED <<result, spc, peer>>
    BY <1>1 DEF Connect, serverVars
  <2> QED
    BY <2>1, <2>2, <2>3, <2>4, SMTT(30) DEF BacklogInv, Serving
<1>2. ASSUME NEW c \in Client, ClientStep(c), ~Connect(c) PROVE BacklogInv'
  <2>1. UNCHANGED <<backlog, result, spc, peer>>
    BY <1>2 DEF ClientStep, Write, ReceiveFailure, ReceiveSuccess, Join, ClientError,
                ClientReturns, serverVars, socketVars
  <2> QED
    BY <2>1 DEF BacklogInv, Serving
<1>3. CASE Accept
  <2>1. /\ backlog \in Seq(Client) /\ backlog # <<>>
        /\ backlog' = Tail(backlog) /\ peer' = backlog[1]
        /\ Len(backlog') = Len(backlog) - 1 /\ 1 \in 1..Len(backlog)
        /\ \A i \in 1..Len(backlog') : i + 1 \in 1..Len(backlog) /\ backlog'[i] = backlog[i + 1]
    BY <1>3, SMTT(30) DEF Accept, TypeOK
  <2>2. UNCHANGED result
    BY <1>3 DEF Accept
  <2> QED
    BY <2>1, <2>2, SMTT(30) DEF BacklogInv, Serving
<1>4. CASE Read \/ ReadEof \/ ReadTimesOut \/ Parse \/ SendFilesFails \/ Tick
  <2>1. UNCHANGED <<backlog, result, peer>> /\ spc # "accepting"
    BY <1>4 DEF Read, ReadEof, ReadTimesOut, Parse, SendFilesFails, Tick, socketVars
  <2> QED
    BY <2>1 DEF BacklogInv, Serving
<1>5. CASE SendFiles \/ WriteFailure \/ WriteFailureFails
  <2>1. /\ UNCHANGED backlog /\ spc' = "accepting" /\ spc # "accepting"
        /\ \A c \in Client : c # peer => result'[c] = result[c]
    BY <1>5 DEF SendFiles, WriteFailure, WriteFailureFails, ServerReturns, TypeOK
  <2>2. \A i \in 1..Len(backlog) : backlog[i] \in Client /\ backlog[i] # peer
    BY <2>1, SMTT(30) DEF BacklogInv, Serving, TypeOK
  <2> QED
    BY <2>1, <2>2 DEF BacklogInv, Serving
<1>6. CASE UNCHANGED vars
  BY <1>6 DEF BacklogInv, Serving, vars
<1>7. CASE AcceptFails
  <2>1. /\ backlog \in Seq(Client) /\ backlog # <<>>
        /\ backlog' = Tail(backlog) /\ Head(backlog) = backlog[1] /\ backlog[1] \in Client
        /\ Len(backlog') = Len(backlog) - 1 /\ 1 \in 1..Len(backlog)
        /\ \A i \in 1..Len(backlog') : i + 1 \in 1..Len(backlog) /\ backlog'[i] = backlog[i + 1]
    BY <1>7, SMTT(30) DEF AcceptFails, TypeOK
  <2>2. spc' = "accepting" /\ \A c \in Client : c # backlog[1] => result'[c] = result[c]
    BY <1>7, <2>1 DEF AcceptFails, TypeOK
  <2>3. \A i \in 1..Len(backlog') : backlog'[i] \in Client /\ backlog'[i] # backlog[1]
    BY <2>1, SMTT(30) DEF BacklogInv
  <2> QED
    BY <2>1, <2>2, <2>3, SMTT(30) DEF BacklogInv, Serving
<1> QED
  BY <1>1, <1>2, <1>3, <1>4, <1>5, <1>6, <1>7 DEF Next, ServerStep, Quiet

\* The answers can be told apart, also by what the code looks at first.
LEMMA Answers ==
  /\ \A c : Head(Files(c)) = <<"session", c>> /\ Files(c) # <<>> /\ Files(c) # Failure
  /\ Head(Failure) = <<"failure">> /\ Failure # <<>>
  /\ \A c : <<"failure">> # <<"session", c>>
  /\ \A k : Head(<<"error", k>>) = "error"
  /\ \A c : Head(<<"session", c>>) = "session"
BY SMTT(30) DEF Files, Failure

\* Every step of the server keeps ClientInv: it gives its answer to a client
\* that has none, and writes the same to the socket.
LEMMA ClientInvServer ==
  ASSUME IInv, ServerStep \/ Tick, NEW c \in Client
  PROVE  ClientInv(c)'
<1> USE DEF IInv
<1>1. CASE Accept
  <2>1. /\ backlog \in Seq(Client) /\ backlog # <<>>
        /\ backlog' = Tail(backlog) /\ peer' = backlog[1]
        /\ Len(backlog') = Len(backlog) - 1 /\ 1 \in 1..Len(backlog)
        /\ \A i \in 1..Len(backlog') : i + 1 \in 1..Len(backlog) /\ backlog'[i] = backlog[i + 1]
    BY <1>1, SMTT(30) DEF Accept, TypeOK
  <2>2. UNCHANGED <<cpc, outcome, inbox, result>>
    BY <1>1 DEF Accept, clientVars
  <2> QED
    BY <2>1, <2>2, SMTT(30) DEF ClientInv, Serving
<1>2. CASE Read \/ ReadEof \/ ReadTimesOut \/ Parse \/ SendFilesFails \/ Tick
  <2>1. UNCHANGED <<cpc, outcome, backlog, inbox, result, peer>> /\ spc # "accepting"
    BY <1>2 DEF Read, ReadEof, ReadTimesOut, Parse, SendFilesFails, Tick, socketVars, clientVars
  <2> QED
    BY <2>1 DEF ClientInv, Serving
<1>3. ASSUME SendFiles \/ WriteFailure \/ WriteFailureFails
      PROVE  /\ UNCHANGED <<cpc, outcome, backlog>>
             /\ spc' = "accepting" /\ Serving(peer) /\ peer \in Client
             /\ result[peer] = Undecided /\ inbox[peer] = <<>>
  <2>1. /\ UNCHANGED <<cpc, outcome, backlog>>
        /\ spc' = "accepting" /\ spc # "accepting"
    BY <1>3 DEF SendFiles, WriteFailure, WriteFailureFails, ServerReturns, clientVars
  <2>2. Serving(peer) /\ peer \in Client /\ result[peer] = Undecided
    BY <2>1 DEF ServerInv, Serving
  <2>3. Undecided \notin {"error"} \X Causes /\ Undecided # <<"session", peer>>
    BY <2>2, UndecidedAssumption, SMTT(30)
  <2> QED
    BY <2>1, <2>2, <2>3 DEF ClientInv
<1>4. ASSUME SendFiles \/ WriteFailure \/ WriteFailureFails, c # peer
      PROVE  ClientInv(c)'
  <2>1. result'[c] = result[c] /\ inbox'[c] = inbox[c]
    BY <1>3, <1>4 DEF SendFiles, WriteFailure, WriteFailureFails, ServerReturns, TypeOK
  <2> QED
    BY <1>3, <1>4, <2>1, SMTT(30) DEF ClientInv, Serving
<1>5. CASE SendFiles /\ c = peer
  <2>1. buffer[MsgLen] = peer
    BY <1>5, SMTT(30) DEF SendFiles, ServerInv
  <2>2. result'[c] = <<"session", c>> /\ inbox'[c] = Files(c)
    BY <1>3, <1>5, <2>1, SMTT(30) DEF SendFiles, ServerReturns, TypeOK, Files
  <2> QED
    BY <1>3, <1>5, <2>2, UndecidedAssumption, Answers DEF ClientInv, Serving
<1>6. CASE (WriteFailure \/ WriteFailureFails) /\ c = peer
  <2>1. result'[c] \in {"error"} \X Causes
    BY <1>3, <1>6, SMTT(30) DEF WriteFailure, WriteFailureFails, ServerReturns, TypeOK, ServerInv, Causes
  <2>2. inbox'[c] \in {<<>>, Failure}
    <3>1. CASE WriteFailureFails
      BY <1>3, <1>6, <3>1 DEF WriteFailureFails
    <3>2. CASE WriteFailure
      <4>1. inbox'[c] = Append(<<>>, <<"failure">>)
        BY <1>3, <1>6, <3>2 DEF WriteFailure, TypeOK
      <4> QED
        BY <4>1, SMTT(30) DEF Failure
    <3> QED
      BY <1>6, <3>1, <3>2
  <2>3. Files(c) # <<>>
    BY Answers
  <2>4. /\ UNCHANGED <<cpc, outcome>> /\ cpc[c] \notin {"start", "joining"}
        /\ cpc[c] # "done" => outcome[c] = Undecided
    BY <1>3, <1>6, <2>3 DEF ClientInv
  <2> HIDE <1>3, <1>6 DEF IInv
  <2> QED
    BY <2>1, <2>2, <2>4 DEF ClientInv
<1>7. CASE AcceptFails
  <2>1. /\ backlog \in Seq(Client) /\ backlog # <<>>
        /\ backlog' = Tail(backlog) /\ Head(backlog) = backlog[1]
        /\ Len(backlog') = Len(backlog) - 1 /\ 1 \in 1..Len(backlog)
        /\ \A i \in 1..Len(backlog') : i + 1 \in 1..Len(backlog) /\ backlog'[i] = backlog[i + 1]
    <3>1. backlog \in Seq(Client) /\ backlog # <<>> /\ backlog' = Tail(backlog)
      BY <1>7 DEF AcceptFails, TypeOK
    <3> HIDE <1>7
    <3> QED
      BY <3>1, SMTT(30)
  <2>2. UNCHANGED <<cpc, outcome, inbox>> /\ spc' = "accepting"
    BY <1>7 DEF AcceptFails, clientVars
  <2>3. \A i \in 1..Len(backlog') : \E j \in 1..Len(backlog) : backlog'[i] = backlog[j]
    BY <2>1
  <2>4. CASE c = backlog[1]
    <3>1. cpc[c] # "start" /\ result[c] = Undecided
      BY <2>1, <2>4 DEF ClientInv, BacklogInv
    <3>2. Undecided \notin {"error"} \X Causes /\ Undecided # <<"session", c>>
      BY UndecidedAssumption, SMTT(30)
    <3>3. inbox[c] = <<>>
      BY <3>1, <3>2 DEF ClientInv
    <3>4. result'[c] = <<"error", "Io">>
      BY <1>7, <2>1, <2>4 DEF AcceptFails, TypeOK
    <3>5. result'[c] \in {"error"} \X Causes
      BY <3>4, SMTT(30) DEF Causes
    <3> QED
      BY <2>2, <3>1, <3>3, <3>5, Answers DEF ClientInv
  <2>5. CASE c # backlog[1]
    <3>1. result'[c] = result[c]
      BY <1>7, <2>1, <2>5 DEF AcceptFails, TypeOK
    <3> QED
      BY <2>2, <2>3, <3>1, SMTT(30) DEF ClientInv, Serving
  <2> QED
    BY <2>4, <2>5
<1> QED
  BY <1>1, <1>2, <1>4, <1>5, <1>6, <1>7 DEF ServerStep

\* Every step of a client keeps ClientInv, for that client and the others: it
\* joins only after it has seen the files.
LEMMA ClientInvClient ==
  ASSUME IInv, NEW d \in Client, ClientStep(d), NEW c \in Client
  PROVE  ClientInv(c)'
<1> USE DEF IInv
<1>1. UNCHANGED <<result, inbox, spc, peer>>
  BY DEF ClientStep, Connect, Write, ReceiveFailure, ReceiveSuccess, Join, ClientError,
         serverVars, socketVars
<1>2. \A e \in Client : e # d => cpc'[e] = cpc[e] /\ outcome'[e] = outcome[e]
  BY DEF ClientStep, Connect, Write, ReceiveFailure, ReceiveSuccess, Join, ClientError,
         ClientReturns, TypeOK
<1>3. CASE Connect(d)
  <2>1. /\ backlog \in Seq(Client) /\ backlog' = Append(backlog, d)
        /\ Len(backlog') = Len(backlog) + 1
        /\ backlog'[Len(backlog) + 1] = d
        /\ \A i \in 1..Len(backlog) : backlog'[i] = backlog[i]
    BY <1>3, SMTT(30) DEF Connect, TypeOK
  <2>2. cpc'[d] = "sending" /\ cpc[d] = "start" /\ UNCHANGED outcome
    BY <1>3 DEF Connect, TypeOK
  <2> QED
    BY <1>1, <1>2, <2>1, <2>2, SMTT(30) DEF ClientInv, Serving
<1>4. CASE ~Connect(d)
  <2>1. UNCHANGED backlog /\ cpc[d] # "start" /\ cpc'[d] # "start"
    BY <1>4 DEF ClientStep, Write, ReceiveFailure, ReceiveSuccess, Join, ClientError,
                ClientReturns, socketVars, TypeOK
  <2>2. cpc'[d] # "done" => outcome'[d] = outcome[d] /\ cpc[d] # "done"
    BY <1>4 DEF ClientStep, Write, ReceiveFailure, ReceiveSuccess, Join, ClientError,
                ClientReturns, TypeOK
  <2>3. cpc'[d] = "joining" => inbox[d] = Files(d)
    <3>1. cpc'[d] = "joining" => ReceiveSuccess(d)
      BY <1>4 DEF ClientStep, Write, ReceiveFailure, Join, ClientError, ClientReturns, TypeOK
    <3> QED
      BY <3>1, Answers DEF ReceiveSuccess, ClientInv
  <2> QED
    BY <1>1, <1>2, <2>1, <2>2, <2>3 DEF ClientInv, Serving
<1> QED
  BY <1>3, <1>4

\* IInv is an invariant of the handshake.
THEOREM IInvAlways == Spec => []IInv
<1>1. Init => IInv
  BY SMTT(30) DEF Init, IInv, TypeOK, ServerInv, BacklogInv, ClientInv, Serving
<1>2. IInv /\ [Next]_vars => IInv'
  <2> SUFFICES ASSUME IInv, [Next]_vars PROVE IInv'
    OBVIOUS
  <2>1. TypeOK' /\ ServerInv' /\ BacklogInv'
    BY TypeStep, ServerStepInv, BacklogStepInv DEF IInv
  <2>2. ASSUME NEW c \in Client PROVE ClientInv(c)'
    <3>1. CASE UNCHANGED vars
      BY <3>1 DEF IInv, ClientInv, Serving, vars
    <3> QED
      BY <3>1, ClientInvServer, ClientInvClient DEF Next, Quiet
  <2> QED
    BY <2>1, <2>2 DEF IInv
<1> QED
  BY <1>1, <1>2, PTL DEF Spec

\* The server acts only on what the client that it serves has written: a part
\* of the shared buffer that an earlier client or a rejection left behind is
\* overwritten before recv_logon returns.
THEOREM OwnMessage == Spec => []NoStaleBuffer
<1>1. IInv => NoStaleBuffer
  BY DEF IInv, ServerInv, NoStaleBuffer
<1> QED
  BY <1>1, IInvAlways, PTL

\* However a client spaces its writes, recv_logon waits for it for at most twice
\* HANDSHAKE_TIMEOUT: the total time is looked at after each read, and one read
\* waits no longer than the timeout.
THEOREM WaitBounded == Spec => []WaitIsBounded
<1>1. IInv => WaitIsBounded
  BY SMTT(30) DEF IInv, ServerInv, TypeOK, WaitIsBounded
<1> QED
  BY <1>1, IInvAlways, PTL

-----------------------------------------------------------------------------
(* The refinement of HandshakeOutcome.                                     *)

\* The abstract outcome of accept, which forgets the cause of an error.
Abstract(r) == IF r # Undecided /\ Head(r) = "error" THEN <<"error">> ELSE r
AbstractServer == [c \in Client |-> Abstract(result[c])]

\* What Abstract makes of the possible results.
LEMMA AbstractResults ==
  ASSUME NEW c \in Client
  PROVE  /\ Abstract(Undecided) = Undecided
         /\ Abstract(<<"session", c>>) = <<"session", c>>
         /\ \A r \in {"error"} \X Causes : Abstract(r) = <<"error">>
<1>1. \A r \in {"error"} \X Causes : r # Undecided /\ Head(r) = "error"
  <2> TAKE r \in {"error"} \X Causes
  <2>1. PICK k \in Causes : r = <<"error", k>>
    BY SMTT(30)
  <2> QED
    BY <2>1, Answers, UndecidedAssumption
<1> QED
  BY <1>1, Answers DEF Abstract

\* The steps of the server in which accept returns are the server's decisions,
\* and its other steps change no outcome.
LEMMA ServerRefines ==
  ASSUME IInv, ServerStep \/ Tick
  PROVE  [Outcome!Next]_(Outcome!vars)
<1> USE DEF IInv
<1>1. CASE Accept \/ Read \/ ReadEof \/ ReadTimesOut \/ Parse \/ SendFilesFails \/ Tick
  <2>1. UNCHANGED <<result, outcome>>
    BY <1>1 DEF Accept, Read, ReadEof, ReadTimesOut, Parse, SendFilesFails, Tick, clientVars
  <2> QED
    BY <2>1 DEF Outcome!vars
<1>2. ASSUME SendFiles \/ WriteFailure \/ WriteFailureFails
      PROVE  /\ peer \in Client /\ UNCHANGED outcome /\ AbstractServer[peer] = Undecided
             /\ AbstractServer' = [AbstractServer EXCEPT ![peer] = Abstract(result'[peer])]
  <2>1. peer \in Client /\ result[peer] = Undecided /\ UNCHANGED outcome
    BY <1>2 DEF SendFiles, WriteFailure, WriteFailureFails, clientVars, ServerInv
  <2>2. PICK r : result' = [result EXCEPT ![peer] = r]
    BY <1>2 DEF SendFiles, WriteFailure, WriteFailureFails, ServerReturns
  <2>3. AbstractServer[peer] = Undecided
    BY <2>1, AbstractResults DEF AbstractServer
  <2> QED
    BY <2>1, <2>2, <2>3 DEF AbstractServer, TypeOK
<1>3. CASE SendFiles
  <2>1. buffer[MsgLen] = peer /\ peer \in VersionOk \cap LogonOk
    BY <1>3, SMTT(30) DEF SendFiles, ServerInv
  <2>2. result'[peer] = <<"session", peer>>
    BY <1>2, <1>3, <2>1 DEF SendFiles, ServerReturns, TypeOK
  <2>3. AbstractServer' = [AbstractServer EXCEPT ![peer] = <<"session", peer>>]
    BY <1>2, <1>3, <2>2, AbstractResults
  <2> QED
    BY <1>2, <1>3, <2>1, <2>3
    DEF Outcome!Next, Outcome!ServerAccepts, AbstractServer, Abstract
<1>4. CASE WriteFailure \/ WriteFailureFails
  <2>1. result'[peer] \in {"error"} \X Causes
    BY <1>2, <1>4, SMTT(30) DEF WriteFailure, WriteFailureFails, ServerReturns, TypeOK, ServerInv, Causes
  <2>2. AbstractServer' = [AbstractServer EXCEPT ![peer] = <<"error">>]
    BY <1>2, <1>4, <2>1, AbstractResults
  <2> QED
    BY <1>2, <1>4, <2>2
    DEF Outcome!Next, Outcome!ServerRefuses, AbstractServer, Abstract
<1>5. CASE AcceptFails
  <2>1. Head(backlog) = backlog[1] /\ 1 \in 1..Len(backlog) /\ backlog[1] \in Client
    BY <1>5, SMTT(30) DEF AcceptFails, TypeOK
  <2> DEFINE c == backlog[1]
  <2>2. result[c] = Undecided /\ UNCHANGED outcome
    BY <1>5, <2>1 DEF AcceptFails, clientVars, BacklogInv
  <2>3. AbstractServer[c] = Undecided
    BY <2>1, <2>2, AbstractResults DEF AbstractServer
  <2>4. <<"error", "Io">> \in {"error"} \X Causes
    BY SMTT(30) DEF Causes
  <2>5. AbstractServer' = [AbstractServer EXCEPT ![c] = Abstract(<<"error", "Io">>)]
    BY <1>5, <2>1 DEF AcceptFails, AbstractServer, TypeOK
  <2>6. AbstractServer' = [AbstractServer EXCEPT ![c] = <<"error">>]
    BY <2>1, <2>4, <2>5, AbstractResults
  <2> QED
    BY <2>1, <2>2, <2>3, <2>6
    DEF Outcome!Next, Outcome!ServerRefuses, AbstractServer, Abstract
<1> QED
  BY <1>1, <1>3, <1>4, <1>5 DEF ServerStep

\* The steps of a client in which connect returns are the client's decisions,
\* and its other steps change no outcome.
LEMMA ClientRefines ==
  ASSUME IInv, NEW c \in Client, ClientStep(c)
  PROVE  [Outcome!Next]_(Outcome!vars)
<1> USE DEF IInv
<1>1. UNCHANGED result
  BY DEF ClientStep, Connect, Write, ReceiveFailure, ReceiveSuccess, Join, ClientError,
         serverVars
<1>2. UNCHANGED AbstractServer
  BY <1>1 DEF AbstractServer
<1>3. CASE Connect(c) \/ Write(c) \/ ReceiveSuccess(c)
  <2>1. UNCHANGED outcome
    BY <1>3 DEF Connect, Write, ReceiveSuccess
  <2> QED
    BY <1>1, <2>1 DEF Outcome!vars
<1>4. CASE ReceiveFailure(c)
  <2>1. inbox[c] # <<>> /\ inbox[c] # Files(c) /\ outcome[c] = Undecided
    BY <1>4, Answers, SMTT(30) DEF ReceiveFailure, ClientInv
  <2>2. AbstractServer[c] = <<"error">>
    BY <2>1, AbstractResults DEF ClientInv, AbstractServer
  <2>3. outcome' = [outcome EXCEPT ![c] = <<"rejected">>]
    BY <1>4 DEF ReceiveFailure, ClientReturns
  <2> QED
    BY <1>2, <2>1, <2>2, <2>3 DEF Outcome!Next, Outcome!ClientRejected, AbstractServer, Abstract
<1>5. CASE Join(c)
  <2>1. inbox[c] = Files(c) /\ outcome[c] = Undecided
    BY <1>5 DEF Join, ClientInv
  <2>2. AbstractServer[c] = <<"session", c>>
    BY <2>1, AbstractResults, Answers DEF ClientInv, AbstractServer
  <2>3. outcome' = [outcome EXCEPT ![c] = <<"session", c>>]
    BY <1>5, <2>1, Answers DEF Join, ClientReturns
  <2> QED
    BY <1>2, <2>1, <2>2, <2>3 DEF Outcome!Next, Outcome!ClientJoins, AbstractServer, Abstract
<1>6. CASE ClientError(c)
  <2>1. outcome[c] = Undecided /\ outcome' = [outcome EXCEPT ![c] = <<"error">>]
    BY <1>6 DEF ClientError, ClientReturns, ClientInv
  <2> QED
    BY <1>2, <2>1 DEF Outcome!Next, Outcome!ClientFails, AbstractServer, Abstract
<1> QED
  BY <1>3, <1>4, <1>5, <1>6 DEF ClientStep

\* Server and clients implement HandshakeOutcome: each side decides once, accept
\* returns Ok only for a client whose versions and logon are good, connect
\* returns Ok only with the session that accept set up for this client, and
\* reports a rejection only if accept refused it.
THEOREM OutcomeImplemented == Spec => ImplementsOutcome
<1>1. Init => Outcome!Init
  BY DEF Init, Outcome!Init
<1>2. IInv /\ [Next]_vars => [Outcome!Next]_(Outcome!vars)
  <2> SUFFICES ASSUME IInv, [Next]_vars PROVE [Outcome!Next]_(Outcome!vars)
    OBVIOUS
  <2>1. CASE UNCHANGED vars
    BY <2>1 DEF vars, Outcome!vars
  <2> QED
    BY <2>1, ServerRefines, ClientRefines DEF Next, Quiet
<1> QED
  BY <1>1, <1>2, IInvAlways, PTL DEF Spec, ImplementsOutcome, Outcome!Spec

-----------------------------------------------------------------------------
(* SessionLayout.  What shaq makes of a capacity (MinimumFileSize) is not  *)
(* looked into: the argument only needs that validate and setup_session    *)
(* compute the same.                                                       *)

CheckFiles == IF logon.check_worker_count > 0 THEN CHECK_SHMEM ELSE 0
SimulateFiles == IF logon.simulate_worker_count > 0 THEN SIMULATE_SHMEM ELSE 0
WorkerFiles == logon.worker_count * WORKER_SHMEM

FileSet == [queue : Queues \cup {"allocator"}, worker : Nat,
            side : {"producer", "consumer", "allocator"}]

\* The two ends of one queue, or the allocator.
Matches(f, g) ==
    /\ g.queue = f.queue
    /\ g.worker = f.worker
    /\ f.queue = "allocator" \/ g.side # f.side

LayoutTypeOK ==
    /\ logon \in Logon
    /\ phase \in {"validating", "rejected", "failed", "allocator", "global", "workers",
                  "check", "simulate", "sent", "session"}
    /\ files \in Seq(FileSet)
    /\ capacity \in Nat
    /\ handles \in Nat

\* After workers of the logon's n have been set up.
AfterWorkers(w) ==
    /\ w \in 0..logon.worker_count
    /\ Len(files) = GLOBAL_SHMEM + w * WORKER_SHMEM
    /\ handles = 1 + w

\* What has been created so far, by phase.
Progress ==
    /\ phase \in {"validating", "rejected", "failed", "allocator"} => files = <<>>
    /\ phase \notin {"validating", "rejected", "failed"} => Validate(logon)
    /\ phase \in {"global", "workers", "check", "simulate", "sent", "session"} =>
          capacity = AllocatorCount(logon)
    /\ phase = "global" => Len(files) = 1 /\ handles = 1
    /\ phase = "workers" => \E w \in 0..logon.worker_count : AfterWorkers(w)
    /\ phase = "check" => AfterWorkers(logon.worker_count)
    /\ phase = "simulate" =>
          /\ Len(files) = GLOBAL_SHMEM + WorkerFiles + CheckFiles
          /\ handles = 1 + logon.worker_count + logon.check_worker_count
    /\ phase \in {"sent", "session"} =>
          /\ Len(files) = GLOBAL_SHMEM + WorkerFiles + CheckFiles + SimulateFiles
          /\ handles = 1 + logon.worker_count + logon.check_worker_count
                         + logon.simulate_worker_count

\* The client will take each file so far for what it is.
InOrder == \A k \in 1..Len(files) : Matches(files[k], JoinAt(k))

Joined == phase = "session" => joined = [k \in DOMAIN files |-> JoinAt(k)]

LayoutInv == LayoutTypeOK /\ Progress /\ InOrder /\ Joined

-----------------------------------------------------------------------------
(* The arithmetic of shared.rs.                                            *)

\* The fields of a logon are usize.
LEMMA Fields ==
  ASSUME NEW l \in Logon
  PROVE  /\ l.worker_count \in 0..UsizeMax /\ l.check_worker_count \in 0..UsizeMax
         /\ l.simulate_worker_count \in 0..UsizeMax /\ l.allocator_handles \in 0..UsizeMax
         /\ UsizeMax \in Nat /\ U32Max \in Nat /\ MaxWorkers \in Nat
BY LogonAssumption, WidthAssumption, SMTT(30)

\* allocator_count, when it is Some, is the exact sum, and allocator_handles is
\* not zero.
LEMMA ExactAllocatorCount ==
  ASSUME NEW l \in Logon, AllocatorCount(l) # None
  PROVE  /\ AllocatorCount(l) = l.worker_count + l.check_worker_count
                + l.simulate_worker_count + l.allocator_handles + 1
         /\ l.allocator_handles >= 1
<1> DEFINE n == l.worker_count + l.check_worker_count
                + l.simulate_worker_count + l.allocator_handles + 1
<1>1. n \in Nat /\ l.allocator_handles \in Nat
  BY Fields, SMTT(30)
<1>2. AllocatorCount(l) = IF l.allocator_handles = 0 \/ Checked(n) > U32Max
                          THEN None ELSE Checked(n)
  BY DEF AllocatorCount
<1> HIDE DEF n
<1>3. Checked(n) = n \/ Checked(n) = None
  BY DEF Checked
<1> QED
  BY <1>1, <1>2, <1>3, SMTT(30) DEF n

\* expected_file_count does not overflow for a logon that passes validate, and
\* the files fit into the control message.
LEMMA ExactFileCount ==
  ASSUME LayoutTypeOK, Validate(logon)
  PROVE  /\ ExpectedFileCount(logon) = GLOBAL_SHMEM + WorkerFiles + CheckFiles + SimulateFiles
         /\ GLOBAL_SHMEM + WorkerFiles + CheckFiles + SimulateFiles =< CMSG_MAX_FILES
         /\ WorkerFiles \in Nat /\ CheckFiles \in {0, 2} /\ SimulateFiles \in {0, 2}
<1>1. logon.worker_count \in 1..MaxWorkers /\ MaxWorkers \in Nat
  BY WidthAssumption DEF Validate
<1>2. WorkerFiles \in 0..(2 * MaxWorkers) /\ CheckFiles \in {0, 2} /\ SimulateFiles \in {0, 2}
  BY <1>1, SMTT(30) DEF WorkerFiles, CheckFiles, SimulateFiles, WORKER_SHMEM, CHECK_SHMEM, SIMULATE_SHMEM
<1>3. CMSG_MAX_FILES = 7 + 2 * MaxWorkers /\ CMSG_MAX_FILES =< UsizeMax /\ UsizeMax \in Nat
  BY <1>1, LogonAssumption, WidthAssumption, SMTT(30)
  DEF CMSG_MAX_FILES, GLOBAL_SHMEM, WORKER_SHMEM, CHECK_SHMEM, SIMULATE_SHMEM
<1>4. ExpectedFileCount(logon) = Checked(WorkerFiles + 3 + CheckFiles + SimulateFiles)
  BY DEF ExpectedFileCount, WorkerFiles, CheckFiles, SimulateFiles, GLOBAL_SHMEM
<1>5. WorkerFiles + 3 + CheckFiles + SimulateFiles \in 0..UsizeMax
  BY <1>1, <1>2, <1>3, SMTT(30)
<1> QED
  BY <1>1, <1>2, <1>3, <1>4, <1>5, SMTT(30) DEF Checked, GLOBAL_SHMEM

\* The size of a queue that validate has looked at can be aligned by
\* align_file_size, which tries huge pages first and then standard ones.
LEMMA ValidQueueFits ==
  ASSUME NEW l, NEW q, ValidQueue(l, q, HugePage) \/ ValidQueue(l, q, StandardPage)
  PROVE  SizeFits(MinimumFileSize(l.queue[q]))
BY DEF ValidQueue, SizeFits

-----------------------------------------------------------------------------
(* Positions.                                                              *)

\* What the client takes a file for, by the part of the list it is in.
LEMMA Positions ==
  ASSUME LayoutTypeOK, Validate(logon)
  PROVE  /\ JoinAt(1) = File("allocator", 0, "allocator")
         /\ JoinAt(2) = File("tpu_to_pack", 0, "consumer")
         /\ JoinAt(3) = File("progress_tracker", 0, "consumer")
         /\ \A w \in 0..(logon.worker_count - 1) :
               /\ JoinAt(4 + 2 * w) = File("pack_to_worker", w + 1, "producer")
               /\ JoinAt(5 + 2 * w) = File("worker_to_pack", w + 1, "consumer")
         /\ CheckFiles = 2 =>
               /\ JoinAt(4 + WorkerFiles) = File("pack_to_check_worker", 0, "producer")
               /\ JoinAt(5 + WorkerFiles) = File("check_worker_to_pack", 0, "consumer")
         /\ SimulateFiles = 2 =>
               /\ JoinAt(4 + WorkerFiles + CheckFiles)
                     = File("pack_to_simulate_worker", 0, "producer")
               /\ JoinAt(5 + WorkerFiles + CheckFiles)
                     = File("simulate_worker_to_pack", 0, "consumer")
<1>1. logon.worker_count \in Nat /\ WorkerFiles = 2 * logon.worker_count
  BY Fields, SMTT(30) DEF LayoutTypeOK, WorkerFiles, WORKER_SHMEM
<1>2. \A k \in Nat : JoinAt(k) =
        IF k =< 3 THEN JoinGlobal(k)
        ELSE IF k =< 3 + WorkerFiles THEN JoinWorker(k - 3)
        ELSE IF k =< 3 + WorkerFiles + CheckFiles THEN JoinCheck(k - 3 - WorkerFiles)
        ELSE JoinSimulate(k - 3 - WorkerFiles - CheckFiles)
  BY DEF JoinAt, WorkerFiles, CheckFiles, GLOBAL_SHMEM
<1>3. CheckFiles \in {0, 2} /\ WorkerFiles \in Nat
  BY ExactFileCount
<1>4. /\ JoinAt(1) = File("allocator", 0, "allocator")
      /\ JoinAt(2) = File("tpu_to_pack", 0, "consumer")
      /\ JoinAt(3) = File("progress_tracker", 0, "consumer")
  BY <1>2, SMTT(30) DEF JoinGlobal
<1>5. ASSUME NEW w \in 0..(logon.worker_count - 1)
      PROVE  /\ JoinAt(4 + 2 * w) = File("pack_to_worker", w + 1, "producer")
             /\ JoinAt(5 + 2 * w) = File("worker_to_pack", w + 1, "consumer")
  <2>1. w \in Nat /\ 5 + 2 * w =< 3 + WorkerFiles
    BY <1>1, SMTT(30)
  <2>2. JoinAt(4 + 2 * w) = JoinWorker(2 * w + 1) /\ JoinAt(5 + 2 * w) = JoinWorker(2 * w + 2)
    BY <1>2, <1>3, <2>1, SMTT(30)
  <2>3. /\ (2 * w + 1) % 2 = 1 /\ ((2 * w + 1) + 1) \div 2 = w + 1
        /\ (2 * w + 2) % 2 = 0 /\ (2 * w + 2) \div 2 = w + 1
    BY <2>1, SMTT(30)
  <2> QED
    BY <2>2, <2>3, SMTT(30) DEF JoinWorker
<1>6. CheckFiles = 2 =>
        /\ JoinAt(4 + WorkerFiles) = File("pack_to_check_worker", 0, "producer")
        /\ JoinAt(5 + WorkerFiles) = File("check_worker_to_pack", 0, "consumer")
  BY <1>2, <1>3, SMTT(30) DEF JoinCheck
<1>7. /\ JoinAt(4 + WorkerFiles + CheckFiles) = File("pack_to_simulate_worker", 0, "producer")
      /\ JoinAt(5 + WorkerFiles + CheckFiles) = File("simulate_worker_to_pack", 0, "consumer")
  BY <1>2, <1>3, SMTT(30) DEF JoinSimulate
<1> QED
  BY <1>4, <1>5, <1>6, <1>7

\* Two files are added to a list whose files are in order.
LEMMA TwoFiles ==
  ASSUME LayoutTypeOK, InOrder, NEW f \in FileSet, NEW g \in FileSet,
         files' = files \o <<f, g>>, logon' = logon,
         Matches(f, JoinAt(Len(files) + 1)), Matches(g, JoinAt(Len(files) + 2))
  PROVE  /\ files' \in Seq(FileSet) /\ Len(files') = Len(files) + 2
         /\ InOrder'
<1>1. /\ files \in Seq(FileSet) /\ <<f, g>> \in Seq(FileSet) /\ Len(<<f, g>>) = 2
      /\ <<f, g>>[1] = f /\ <<f, g>>[2] = g /\ Len(files) \in Nat
  BY SMTT(30) DEF LayoutTypeOK
<1>2. /\ files' \in Seq(FileSet) /\ Len(files') = Len(files) + 2
      /\ \A k \in 1..Len(files) : files'[k] = files[k]
      /\ files'[Len(files) + 1] = f /\ files'[Len(files) + 2] = g
  BY <1>1, SMTT(30)
<1>3. \A k : JoinAt(k)' = JoinAt(k)
  BY DEF JoinAt
<1> QED
  BY <1>1, <1>2, <1>3, SMTT(30) DEF InOrder

-----------------------------------------------------------------------------
(* The steps.                                                              *)

\* A creation whose queues fit and for which there are handles succeeds.
LEMMA CreateSucceeds ==
  ASSUME NEW fs, NEW n, NEW next, Create(fs, n, next),
         \A k \in DOMAIN fs : SizeFits(MinimumFileSize(logon.queue[fs[k].queue])),
         ~(handles + n > capacity)
  PROVE  /\ phase' = next /\ files' = files \o fs /\ handles' = handles + n
         /\ UNCHANGED <<logon, capacity, joined>>
BY DEF Create

\* The same for a pair of queues, which go to the end of the list.
LEMMA CreatePair ==
  ASSUME LayoutTypeOK, InOrder, NEW q1 \in Queues, NEW q2 \in Queues, NEW w \in Nat,
         NEW s1 \in {"producer", "consumer"}, NEW s2 \in {"producer", "consumer"},
         NEW n \in Nat, NEW next, Create(<<File(q1, w, s1), File(q2, w, s2)>>, n, next),
         SizeFits(MinimumFileSize(logon.queue[q1])), SizeFits(MinimumFileSize(logon.queue[q2])),
         handles + n =< capacity,
         Matches(File(q1, w, s1), JoinAt(Len(files) + 1)),
         Matches(File(q2, w, s2), JoinAt(Len(files) + 2))
  PROVE  /\ phase' = next /\ handles' = handles + n /\ handles' \in Nat
         /\ UNCHANGED <<logon, capacity, joined>>
         /\ files' \in Seq(FileSet) /\ Len(files') = Len(files) + 2
         /\ InOrder'
<1> DEFINE f == File(q1, w, s1)
           g == File(q2, w, s2)
<1>1. f \in FileSet /\ g \in FileSet /\ f.queue = q1 /\ g.queue = q2
  BY DEF File, FileSet
<1>2. handles \in Nat /\ capacity \in Nat /\ ~(handles + n > capacity) /\ handles + n \in Nat
  BY SMTT(30) DEF LayoutTypeOK
<1>3. Create(<<f, g>>, n, next) /\ Matches(f, JoinAt(Len(files) + 1))
        /\ Matches(g, JoinAt(Len(files) + 2))
  OBVIOUS
<1> HIDE DEF f, g
<1>4. \A k \in DOMAIN <<f, g>> : SizeFits(MinimumFileSize(logon.queue[<<f, g>>[k].queue]))
  BY <1>1, SMTT(30)
<1>5. /\ phase' = next /\ files' = files \o <<f, g>> /\ handles' = handles + n
      /\ UNCHANGED <<logon, capacity, joined>>
  BY <1>2, <1>3, <1>4, CreateSucceeds
<1> QED
  BY <1>1, <1>2, <1>3, <1>5, TwoFiles

\* The same when there is nothing to create.
LEMMA CreateNothing ==
  ASSUME LayoutTypeOK, NEW next, Create(<<>>, 0, next), handles =< capacity
  PROVE  phase' = next /\ UNCHANGED <<files, handles, logon, capacity, joined>>
<1>1. handles \in Nat /\ capacity \in Nat /\ ~(handles + 0 > capacity) /\ handles + 0 = handles
  BY SMTT(30) DEF LayoutTypeOK
<1>2. \A k \in DOMAIN <<>> : SizeFits(MinimumFileSize(logon.queue[<<>>[k].queue]))
  BY SMTT(30)
<1>3. files \o <<>> = files
  BY SMTT(30) DEF LayoutTypeOK
<1> QED
  BY <1>1, <1>2, <1>3, CreateSucceeds

\* What is known of a logon that is being set up.
LEMMA Known ==
  ASSUME LayoutTypeOK, Validate(logon)
  PROVE  /\ logon \in Logon
         /\ logon.worker_count \in Nat /\ logon.worker_count >= 1
         /\ logon.check_worker_count \in Nat /\ logon.simulate_worker_count \in Nat
         /\ logon.allocator_handles \in Nat /\ logon.allocator_handles >= 1
         /\ AllocatorCount(logon) = logon.worker_count + logon.check_worker_count
               + logon.simulate_worker_count + logon.allocator_handles + 1
         /\ WorkerFiles = 2 * logon.worker_count
         /\ CheckFiles = IF logon.check_worker_count = 0 THEN 0 ELSE 2
         /\ SimulateFiles = IF logon.simulate_worker_count = 0 THEN 0 ELSE 2
<1>1. logon \in Logon /\ AllocatorCount(logon) # None /\ logon.worker_count \in 1..MaxWorkers
  BY DEF LayoutTypeOK, Validate
<1>2. /\ logon.worker_count \in Nat /\ logon.check_worker_count \in Nat
      /\ logon.simulate_worker_count \in Nat /\ logon.allocator_handles \in Nat
      /\ logon.worker_count >= 1
  BY <1>1, Fields, SMTT(30)
<1> QED
  BY <1>1, <1>2, ExactAllocatorCount, SMTT(30)
  DEF WorkerFiles, CheckFiles, SimulateFiles, WORKER_SHMEM, CHECK_SHMEM, SIMULATE_SHMEM

\* The allocator has the handles that each phase needs.
LEMMA Room ==
  ASSUME LayoutTypeOK, Validate(logon)
  PROVE  /\ AllocatorCount(logon) \in Nat
         /\ \A w \in 0..logon.worker_count : 1 + w =< AllocatorCount(logon)
         /\ 1 + logon.worker_count + logon.check_worker_count =< AllocatorCount(logon)
         /\ 1 + logon.worker_count + logon.check_worker_count + logon.simulate_worker_count
              =< AllocatorCount(logon)
<1> DEFINE wc == logon.worker_count
           cc == logon.check_worker_count
           sc == logon.simulate_worker_count
           ah == logon.allocator_handles
           n == AllocatorCount(logon)
<1>1. wc \in Nat /\ cc \in Nat /\ sc \in Nat /\ ah \in Nat /\ n = wc + cc + sc + ah + 1
  BY Known
<1> HIDE DEF wc, cc, sc, ah, n
<1>2. /\ n \in Nat
      /\ \A w \in 0..wc : 1 + w =< n
      /\ 1 + wc + cc =< n
      /\ 1 + wc + cc + sc =< n
  BY <1>1, SMTT(30)
<1> QED
  BY <1>2 DEF wc, cc, sc, n

\* validate decides, with nothing created.
LEMMA StepValidate == ASSUME LayoutInv, ValidateLogon PROVE LayoutInv'
<1>1. files = <<>> /\ files' = <<>> /\ logon' = logon
  BY DEF LayoutInv, Progress, ValidateLogon
<1>2. CASE Validate(logon)
  <2>1. phase' = "allocator" /\ Validate(logon)'
    BY <1>1, <1>2 DEF ValidateLogon, Validate, ValidQueue, AllocatorCount
  <2> QED
    BY <1>1, <2>1, SMTT(30) DEF LayoutInv, LayoutTypeOK, Progress, InOrder, Joined, ValidateLogon
<1>3. CASE ~Validate(logon)
  BY <1>1, <1>3, SMTT(30) DEF LayoutInv, LayoutTypeOK, Progress, InOrder, Joined, ValidateLogon
<1> QED
  BY <1>2, <1>3

\* A step that keeps the logon keeps what follows from it.
LEMMA SameLogon ==
  ASSUME logon' = logon
  PROVE  /\ Validate(logon)' = Validate(logon)
         /\ AllocatorCount(logon)' = AllocatorCount(logon)
         /\ WorkerFiles' = WorkerFiles /\ CheckFiles' = CheckFiles
         /\ SimulateFiles' = SimulateFiles
         /\ \A k : JoinAt(k)' = JoinAt(k)
BY DEF WorkerFiles, CheckFiles, SimulateFiles, JoinAt, Validate, ValidQueue, AllocatorCount

\* create_allocator finds a count and a size, and takes the handle of the TPU.
LEMMA StepAllocator == ASSUME LayoutInv, CreateAllocator PROVE LayoutInv'
<1>1. Validate(logon) /\ LayoutTypeOK /\ phase = "allocator"
  BY DEF LayoutInv, Progress, CreateAllocator
<1>2. AllocatorCount(logon) # None /\ SizeFits(logon.allocator_size)
  BY <1>1, WidthAssumption, LogonAssumption, SMTT(30) DEF Validate, SizeFits, LayoutTypeOK, None
<1>3. /\ phase' = "global" /\ capacity' = AllocatorCount(logon) /\ handles' = 1
      /\ files' = <<File("allocator", 0, "allocator")>> /\ logon' = logon
  BY <1>1, <1>2 DEF CreateAllocator, File
<1>4. capacity' \in Nat
  BY <1>1, <1>3, Known, SMTT(30)
<1>5. files' \in Seq(FileSet) /\ Len(files') = 1 /\ files'[1] = File("allocator", 0, "allocator")
  BY <1>3, SMTT(30) DEF File, FileSet
<1>6. Matches(files'[1], JoinAt(1))
  BY <1>1, <1>5, Positions, SMTT(30) DEF Matches, File
<1>7. InOrder'
  BY <1>3, <1>5, <1>6, SameLogon, SMTT(30) DEF InOrder
<1>8. Progress'
  BY <1>1, <1>3, <1>5, SameLogon DEF Progress
<1> QED
  BY <1>1, <1>3, <1>4, <1>5, <1>7, <1>8 DEF LayoutInv, LayoutTypeOK, Joined

\* The queues of the TPU and of the progress tracker.
LEMMA StepGlobal == ASSUME LayoutInv, CreateGlobalQueues PROVE LayoutInv'
<1>1. /\ Validate(logon) /\ LayoutTypeOK /\ InOrder /\ phase = "global"
      /\ Len(files) = 1 /\ handles = 1 /\ capacity = AllocatorCount(logon)
  BY DEF LayoutInv, Progress, CreateGlobalQueues
<1>2. handles + 0 =< capacity /\ capacity \in Nat
  BY <1>1, Known, Room, SMTT(30)
<1>3. /\ SizeFits(MinimumFileSize(logon.queue["tpu_to_pack"]))
      /\ SizeFits(MinimumFileSize(logon.queue["progress_tracker"]))
  BY <1>1, ValidQueueFits DEF Validate
<1>4. /\ Matches(File("tpu_to_pack", 0, "producer"), JoinAt(Len(files) + 1))
      /\ Matches(File("progress_tracker", 0, "producer"), JoinAt(Len(files) + 2))
  BY <1>1, Positions, SMTT(30) DEF Matches, File
<1>5. /\ phase' = "workers" /\ handles' = handles + 0 /\ handles' \in Nat
      /\ UNCHANGED <<logon, capacity, joined>>
      /\ files' \in Seq(FileSet) /\ Len(files') = Len(files) + 2
      /\ InOrder'
  BY <1>1, <1>2, <1>3, <1>4, CreatePair DEF CreateGlobalQueues, Queues
<1>6. AfterWorkers(0)'
  BY <1>1, <1>5, Known, SMTT(30) DEF AfterWorkers, GLOBAL_SHMEM, WORKER_SHMEM
<1>7. 0 \in 0..logon'.worker_count
  BY <1>1, <1>5, Known, SMTT(30)
<1>8. Progress'
  BY <1>1, <1>5, <1>6, <1>7, SameLogon DEF Progress
<1> QED
  BY <1>1, <1>2, <1>5, <1>8 DEF LayoutInv, LayoutTypeOK, Joined

\* The queues and the handle of the next worker, or none if all have theirs.
LEMMA StepWorker == ASSUME LayoutInv, CreateWorker PROVE LayoutInv'
<1>1. /\ Validate(logon) /\ LayoutTypeOK /\ InOrder /\ phase = "workers"
      /\ capacity = AllocatorCount(logon)
  BY DEF LayoutInv, Progress, CreateWorker
<1>2. PICK w \in 0..logon.worker_count : AfterWorkers(w)
  BY <1>1 DEF LayoutInv, Progress
<1>3. /\ w \in Nat /\ Len(files) = 3 + 2 * w /\ handles = 1 + w
      /\ (Len(files) - GLOBAL_SHMEM) \div WORKER_SHMEM = w
  BY <1>1, <1>2, Known, SMTT(30) DEF AfterWorkers, GLOBAL_SHMEM, WORKER_SHMEM
<1>4. CASE w < logon.worker_count
  <2>1. Create(<<File("pack_to_worker", w + 1, "consumer"),
                 File("worker_to_pack", w + 1, "producer")>>, 1, "workers")
    BY <1>3, <1>4 DEF CreateWorker
  <2>2. /\ w + 1 \in 0..logon.worker_count /\ w + 1 \in Nat /\ handles + 1 = 1 + (w + 1)
        /\ handles + 1 =< capacity /\ capacity \in Nat
    <3>1. w + 1 \in 0..logon.worker_count /\ w + 1 \in Nat /\ handles + 1 = 1 + (w + 1)
      BY <1>1, <1>3, <1>4, Known, SMTT(30)
    <3> QED
      BY <1>1, <3>1, Room
  <2>3. /\ SizeFits(MinimumFileSize(logon.queue["pack_to_worker"]))
        /\ SizeFits(MinimumFileSize(logon.queue["worker_to_pack"]))
    BY <1>1, ValidQueueFits DEF Validate
  <2>4. /\ Len(files) + 1 = 4 + 2 * w /\ Len(files) + 2 = 5 + 2 * w
        /\ w \in 0..(logon.worker_count - 1)
    BY <1>1, <1>3, <1>4, Known, SMTT(30)
  <2>5. /\ Matches(File("pack_to_worker", w + 1, "consumer"), JoinAt(Len(files) + 1))
        /\ Matches(File("worker_to_pack", w + 1, "producer"), JoinAt(Len(files) + 2))
    <3>1. /\ JoinAt(Len(files) + 1) = File("pack_to_worker", w + 1, "producer")
          /\ JoinAt(Len(files) + 2) = File("worker_to_pack", w + 1, "consumer")
      BY <1>1, <2>4, Positions
    <3> QED
      BY <3>1, SMTT(30) DEF Matches, File
  <2>6. /\ phase' = "workers" /\ handles' = handles + 1 /\ handles' \in Nat
        /\ UNCHANGED <<logon, capacity, joined>>
        /\ files' \in Seq(FileSet) /\ Len(files') = Len(files) + 2
        /\ InOrder'
    BY <1>1, <1>3, <2>1, <2>2, <2>3, <2>5, CreatePair DEF Queues
  <2>7. w + 1 \in 0..logon'.worker_count /\ AfterWorkers(w + 1)'
    BY <1>1, <1>3, <1>4, <2>6, Known, SMTT(30) DEF AfterWorkers, GLOBAL_SHMEM, WORKER_SHMEM
  <2>8. Progress'
    BY <1>1, <2>6, <2>7, SameLogon DEF Progress
  <2> QED
    BY <1>1, <2>2, <2>6, <2>8 DEF LayoutInv, LayoutTypeOK, Joined
<1>5. CASE ~(w < logon.worker_count)
  <2>1. Create(<<>>, 0, "check") /\ w = logon.worker_count
    BY <1>1, <1>3, <1>5, Known, SMTT(30) DEF CreateWorker
  <2>2. handles =< capacity
    BY <1>1, <1>2, <1>3, Room
  <2>3. phase' = "check" /\ UNCHANGED <<files, handles, logon, capacity, joined>>
    BY <1>1, <2>1, <2>2, CreateNothing
  <2>4. AfterWorkers(logon.worker_count)'
    BY <1>2, <2>1, <2>3 DEF AfterWorkers
  <2>5. Progress'
    BY <1>1, <2>3, <2>4, SameLogon DEF Progress
  <2>6. InOrder'
    BY <1>1, <2>3, SameLogon DEF InOrder
  <2> QED
    BY <1>1, <2>3, <2>5, <2>6 DEF LayoutInv, LayoutTypeOK, Joined
<1> QED
  BY <1>4, <1>5

\* The queues that all check workers share, and a handle for each of them.
LEMMA StepCheck == ASSUME LayoutInv, CreateCheckQueues PROVE LayoutInv'
<1>1. /\ Validate(logon) /\ LayoutTypeOK /\ InOrder /\ phase = "check"
      /\ capacity = AllocatorCount(logon)
  BY DEF LayoutInv, Progress, CreateCheckQueues
<1>2. Len(files) = GLOBAL_SHMEM + WorkerFiles /\ handles = 1 + logon.worker_count
  BY <1>1 DEF LayoutInv, Progress, AfterWorkers, WorkerFiles
<1>3. capacity \in Nat /\ 1 + logon.worker_count + logon.check_worker_count =< capacity
  BY <1>1, Room
<1>4. CASE logon.check_worker_count = 0
  <2>1. Create(<<>>, 0, "simulate") /\ CheckFiles = 0
    BY <1>1, <1>4, Known DEF CreateCheckQueues
  <2>2. handles = 1 + logon.worker_count + logon.check_worker_count
    BY <1>1, <1>2, <1>4, Known, SMTT(30)
  <2>3. phase' = "simulate" /\ UNCHANGED <<files, handles, logon, capacity, joined>>
    BY <1>1, <1>3, <2>1, <2>2, CreateNothing
  <2>4. Len(files) = GLOBAL_SHMEM + WorkerFiles + CheckFiles
    BY <1>1, <1>2, <2>1, ExactFileCount, SMTT(30) DEF GLOBAL_SHMEM
  <2>5. Progress'
    BY <1>1, <2>2, <2>3, <2>4, SameLogon DEF Progress
  <2>6. InOrder'
    BY <1>1, <2>3, SameLogon DEF InOrder
  <2> QED
    BY <1>1, <2>3, <2>5, <2>6 DEF LayoutInv, LayoutTypeOK, Joined
<1>5. CASE logon.check_worker_count # 0
  <2>1. Create(<<File("pack_to_check_worker", 0, "consumer"),
                 File("check_worker_to_pack", 0, "producer")>>,
               logon.check_worker_count, "simulate")
    BY <1>5 DEF CreateCheckQueues
  <2>2. CheckFiles = 2 /\ logon.check_worker_count \in Nat /\ logon.check_worker_count > 0
    BY <1>1, <1>5, Known, SMTT(30)
  <2>3. handles + logon.check_worker_count = 1 + logon.worker_count + logon.check_worker_count
    BY <1>1, <1>2, Known
  <2>4. /\ SizeFits(MinimumFileSize(logon.queue["pack_to_check_worker"]))
        /\ SizeFits(MinimumFileSize(logon.queue["check_worker_to_pack"]))
    BY <1>1, <2>2, ValidQueueFits DEF Validate
  <2>5. Len(files) + 1 = 4 + WorkerFiles /\ Len(files) + 2 = 5 + WorkerFiles
    BY <1>1, <1>2, ExactFileCount, SMTT(30) DEF GLOBAL_SHMEM
  <2>6. /\ Matches(File("pack_to_check_worker", 0, "consumer"), JoinAt(Len(files) + 1))
        /\ Matches(File("check_worker_to_pack", 0, "producer"), JoinAt(Len(files) + 2))
    <3>1. /\ JoinAt(Len(files) + 1) = File("pack_to_check_worker", 0, "producer")
          /\ JoinAt(Len(files) + 2) = File("check_worker_to_pack", 0, "consumer")
      BY <1>1, <2>2, <2>5, Positions
    <3> QED
      BY <3>1, SMTT(30) DEF Matches, File
  <2>7. /\ phase' = "simulate" /\ handles' = handles + logon.check_worker_count /\ handles' \in Nat
        /\ UNCHANGED <<logon, capacity, joined>>
        /\ files' \in Seq(FileSet) /\ Len(files') = Len(files) + 2
        /\ InOrder'
    BY <1>1, <1>3, <2>1, <2>2, <2>3, <2>4, <2>6, CreatePair DEF Queues
  <2>8. Len(files') = GLOBAL_SHMEM + WorkerFiles + CheckFiles
    BY <1>1, <1>2, <2>2, <2>7, ExactFileCount DEF GLOBAL_SHMEM
  <2>9. Progress'
    BY <1>1, <2>3, <2>7, <2>8, SameLogon DEF Progress
  <2> QED
    BY <1>1, <1>3, <2>7, <2>9 DEF LayoutInv, LayoutTypeOK, Joined
<1> QED
  BY <1>4, <1>5

\* The same for the simulate workers.
LEMMA StepSimulate == ASSUME LayoutInv, CreateSimulateQueues PROVE LayoutInv'
<1>1. /\ Validate(logon) /\ LayoutTypeOK /\ InOrder /\ phase = "simulate"
      /\ capacity = AllocatorCount(logon)
  BY DEF LayoutInv, Progress, CreateSimulateQueues
<1>2. Len(files) = GLOBAL_SHMEM + WorkerFiles + CheckFiles /\ handles = 1 + logon.worker_count + logon.check_worker_count
  BY <1>1 DEF LayoutInv, Progress
<1>3. capacity \in Nat /\ 1 + logon.worker_count + logon.check_worker_count + logon.simulate_worker_count =< capacity
  BY <1>1, Room
<1>4. CASE logon.simulate_worker_count = 0
  <2>1. Create(<<>>, 0, "sent") /\ SimulateFiles = 0
    BY <1>1, <1>4, Known DEF CreateSimulateQueues
  <2>2. handles = 1 + logon.worker_count + logon.check_worker_count + logon.simulate_worker_count
    BY <1>1, <1>2, <1>4, Known, SMTT(30)
  <2>3. phase' = "sent" /\ UNCHANGED <<files, handles, logon, capacity, joined>>
    BY <1>1, <1>3, <2>1, <2>2, CreateNothing
  <2>4. Len(files) = GLOBAL_SHMEM + WorkerFiles + CheckFiles + SimulateFiles
    BY <1>1, <1>2, <2>1, ExactFileCount, SMTT(30) DEF GLOBAL_SHMEM
  <2>5. Progress'
    BY <1>1, <2>2, <2>3, <2>4, SameLogon DEF Progress
  <2>6. InOrder'
    BY <1>1, <2>3, SameLogon DEF InOrder
  <2> QED
    BY <1>1, <2>3, <2>5, <2>6 DEF LayoutInv, LayoutTypeOK, Joined
<1>5. CASE logon.simulate_worker_count # 0
  <2>1. Create(<<File("pack_to_simulate_worker", 0, "consumer"),
                 File("simulate_worker_to_pack", 0, "producer")>>,
               logon.simulate_worker_count, "sent")
    BY <1>5 DEF CreateSimulateQueues
  <2>2. SimulateFiles = 2 /\ logon.simulate_worker_count \in Nat /\ logon.simulate_worker_count > 0
    BY <1>1, <1>5, Known, SMTT(30)
  <2>3. handles + logon.simulate_worker_count = 1 + logon.worker_count + logon.check_worker_count + logon.simulate_worker_count
    BY <1>1, <1>2, Known
  <2>4. /\ SizeFits(MinimumFileSize(logon.queue["pack_to_simulate_worker"]))
        /\ SizeFits(MinimumFileSize(logon.queue["simulate_worker_to_pack"]))
    BY <1>1, <2>2, ValidQueueFits DEF Validate
  <2>5. Len(files) + 1 = 4 + WorkerFiles + CheckFiles /\ Len(files) + 2 = 5 + WorkerFiles + CheckFiles
    BY <1>1, <1>2, ExactFileCount, SMTT(30) DEF GLOBAL_SHMEM
  <2>6. /\ Matches(File("pack_to_simulate_worker", 0, "consumer"), JoinAt(Len(files) + 1))
        /\ Matches(File("simulate_worker_to_pack", 0, "producer"), JoinAt(Len(files) + 2))
    <3>1. /\ JoinAt(Len(files) + 1) = File("pack_to_simulate_worker", 0, "producer")
          /\ JoinAt(Len(files) + 2) = File("simulate_worker_to_pack", 0, "consumer")
      BY <1>1, <2>2, <2>5, Positions
    <3> QED
      BY <3>1, SMTT(30) DEF Matches, File
  <2>7. /\ phase' = "sent" /\ handles' = handles + logon.simulate_worker_count /\ handles' \in Nat
        /\ UNCHANGED <<logon, capacity, joined>>
        /\ files' \in Seq(FileSet) /\ Len(files') = Len(files) + 2
        /\ InOrder'
    BY <1>1, <1>3, <2>1, <2>2, <2>3, <2>4, <2>6, CreatePair DEF Queues
  <2>8. Len(files') = GLOBAL_SHMEM + WorkerFiles + CheckFiles + SimulateFiles
    BY <1>1, <1>2, <2>2, <2>7, ExactFileCount DEF GLOBAL_SHMEM
  <2>9. Progress'
    BY <1>1, <2>3, <2>7, <2>8, SameLogon DEF Progress
  <2> QED
    BY <1>1, <1>3, <2>7, <2>9 DEF LayoutInv, LayoutTypeOK, Joined
<1> QED
  BY <1>4, <1>5

\* The client finds as many files as it expects.
LEMMA StepClient == ASSUME LayoutInv, ClientSetup PROVE LayoutInv'
<1>1. Validate(logon) /\ LayoutTypeOK /\ phase = "sent"
  BY DEF LayoutInv, Progress, ClientSetup
<1>2. Len(files) = ExpectedFileCount(logon)
  BY <1>1, ExactFileCount DEF LayoutInv, Progress
<1>3. /\ phase' = "session" /\ joined' = [k \in DOMAIN files |-> JoinAt(k)]
      /\ UNCHANGED <<logon, files, capacity, handles>>
  BY <1>1, <1>2 DEF ClientSetup
<1>4. Progress'
  BY <1>1, <1>3, SameLogon DEF LayoutInv, Progress
<1>5. InOrder' /\ Joined'
  BY <1>1, <1>3, SameLogon DEF LayoutInv, InOrder, Joined
<1> QED
  BY <1>1, <1>3, <1>4, <1>5 DEF LayoutInv, LayoutTypeOK

\* LayoutInv is an invariant of setting up a session.
THEOREM LayoutInvAlways == SetupSpec => []LayoutInv
<1>1. SetupInit => LayoutInv
  BY SMTT(30) DEF SetupInit, LayoutInv, LayoutTypeOK, Progress, InOrder, Joined
<1>2. LayoutInv /\ [SetupNext]_setupVars => LayoutInv'
  <2> SUFFICES ASSUME LayoutInv, [SetupNext]_setupVars PROVE LayoutInv'
    OBVIOUS
  <2>1. CASE SetupFails
    BY <2>1, SMTT(30) DEF SetupFails, LayoutInv, LayoutTypeOK, Progress, InOrder, Joined
  <2>2. CASE UNCHANGED setupVars
    <3>1. UNCHANGED <<logon, phase, files, capacity, handles, joined>>
      BY <2>2 DEF setupVars
    <3>2. LayoutTypeOK'
      BY <3>1 DEF LayoutInv, LayoutTypeOK
    <3>3. Progress'
      BY <3>1, SameLogon DEF LayoutInv, Progress, AfterWorkers
    <3>4. InOrder' /\ Joined'
      BY <3>1, SameLogon DEF LayoutInv, InOrder, Joined
    <3> QED
      BY <3>2, <3>3, <3>4 DEF LayoutInv
  <2> QED
    BY <2>1, <2>2, StepValidate, StepAllocator, StepGlobal, StepWorker, StepCheck,
       StepSimulate, StepClient DEF SetupNext, Finished
<1> QED
  BY <1>1, <1>2, PTL DEF SetupSpec

-----------------------------------------------------------------------------

\* Setting up a logon that passes validate never runs into the expect of
\* create_allocator, a size that cannot be represented, an allocator without
\* handles or a number of files that the client does not expect.
THEOREM Representable == SetupSpec => []ValidatedMeansRepresentable
<1>1. LayoutInv => ValidatedMeansRepresentable
  BY DEF LayoutInv, LayoutTypeOK, ValidatedMeansRepresentable
<1> QED
  BY <1>1, LayoutInvAlways, PTL

\* When setup_session is done, allocator_handles handles are left for the
\* external process.
THEOREM HandlesLeft == SetupSpec => []PromisedHandlesAreFree
<1>1. LayoutInv => PromisedHandlesAreFree
  <2> SUFFICES ASSUME LayoutInv, phase \in {"sent", "session"}
               PROVE  capacity - handles >= logon.allocator_handles
    BY DEF PromisedHandlesAreFree
  <2>1. /\ LayoutTypeOK /\ Validate(logon) /\ capacity = AllocatorCount(logon)
        /\ handles = 1 + logon.worker_count + logon.check_worker_count
                       + logon.simulate_worker_count
    BY DEF LayoutInv, Progress
  <2> QED
    BY <2>1, Known, SMTT(30)
<1> QED
  BY <1>1, LayoutInvAlways, PTL

\* At no point are there more files than the control message buffer of
\* recv_response has room for.
THEOREM FilesFit == SetupSpec => []FilesFitControlMessage
<1>1. LayoutInv => FilesFitControlMessage
  <2> SUFFICES ASSUME LayoutInv PROVE Len(files) =< CMSG_MAX_FILES
    BY DEF FilesFitControlMessage
  <2>1. CASE phase \in {"validating", "rejected", "failed", "allocator"}
    <3>1. Len(files) = 0
      BY <2>1, SMTT(30) DEF LayoutInv, Progress
    <3>2. CMSG_MAX_FILES \in Nat
      BY WidthAssumption, SMTT(30)
      DEF CMSG_MAX_FILES, GLOBAL_SHMEM, WORKER_SHMEM, CHECK_SHMEM, SIMULATE_SHMEM
    <3> QED
      BY <3>1, <3>2, SMTT(30)
  <2>2. CASE phase \notin {"validating", "rejected", "failed", "allocator"}
    <3>1. LayoutTypeOK /\ Validate(logon)
      BY <2>2 DEF LayoutInv, Progress
    <3>2. Len(files) \in Nat /\ CMSG_MAX_FILES \in Nat
      BY <3>1, WidthAssumption, SMTT(30)
      DEF LayoutTypeOK, CMSG_MAX_FILES, GLOBAL_SHMEM, WORKER_SHMEM, CHECK_SHMEM, SIMULATE_SHMEM
    <3>3. Len(files) =< GLOBAL_SHMEM + WorkerFiles + CheckFiles + SimulateFiles
      <4>1. WorkerFiles = 2 * logon.worker_count /\ logon.worker_count \in Nat
        BY <3>1, Known
      <4>2. CheckFiles \in {0, 2} /\ SimulateFiles \in {0, 2} /\ WorkerFiles \in Nat
        BY <3>1, ExactFileCount
      <4>3. CASE phase = "global"
        <5>1. Len(files) = 1
          BY <4>3 DEF LayoutInv, Progress
        <5> QED
          BY <4>1, <4>2, <5>1, SMTT(30) DEF GLOBAL_SHMEM
      <4>4. CASE phase \in {"workers", "check"}
        <5>1. PICK w \in 0..logon.worker_count : Len(files) = 3 + 2 * w
          BY <4>1, <4>4, SMTT(30) DEF LayoutInv, Progress, AfterWorkers, GLOBAL_SHMEM, WORKER_SHMEM
        <5>2. Len(files) =< 3 + WorkerFiles
          BY <4>1, <5>1, SMTT(30)
        <5> QED
          BY <3>2, <4>2, <5>2, SMTT(30) DEF GLOBAL_SHMEM
      <4>5. CASE phase \in {"simulate", "sent", "session"}
        <5>1. \/ Len(files) = GLOBAL_SHMEM + WorkerFiles + CheckFiles
              \/ Len(files) = GLOBAL_SHMEM + WorkerFiles + CheckFiles + SimulateFiles
          BY <4>5 DEF LayoutInv, Progress
        <5> QED
          BY <4>2, <5>1, SMTT(30) DEF GLOBAL_SHMEM
      <4> QED
        BY <2>2, <3>1, <4>3, <4>4, <4>5 DEF LayoutTypeOK
    <3> QED
      BY <3>1, <3>2, <3>3, ExactFileCount, SMTT(30) DEF GLOBAL_SHMEM
  <2> QED
    BY <2>1, <2>2
<1> QED
  BY <1>1, LayoutInvAlways, PTL

\* In a session each file is, for the client, the other end of the queue that
\* the server made it for, of the same worker: the positions that setup_session
\* of server.rs and setup_session of client.rs give to the files agree for every
\* number of workers.
THEOREM EndpointsAgree == SetupSpec => []EndpointsMatch
<1>1. LayoutInv => EndpointsMatch
  BY SMTT(30) DEF LayoutInv, LayoutTypeOK, InOrder, Joined, Matches, EndpointsMatch
<1> QED
  BY <1>1, LayoutInvAlways, PTL

-----------------------------------------------------------------------------
(***************************************************************************)
(* Proofs about SanitizedView, for u8 and u16 of any widths of which the   *)
(* second is more than twice the first, any sizes and limits, and any      *)
(* number of lookups and instructions.                                     *)
(***************************************************************************)

\* The fields of a parsed view that are numbers, and what the parser knows.
ViewInv ==
    /\ view.version \in Versions
    /\ view.signatures \in U8 /\ view.required \in U8
    /\ view.readonly_signed \in U8 /\ view.readonly_unsigned \in U8 /\ view.static \in U8
    /\ view.length \in Nat
    /\ view.writable \in U16 /\ view.readonly \in U16
    /\ view.version = "v1" => view.writable = 0 /\ view.readonly = 0

ViewTypeOK ==
    /\ instructions \in Seq(Instruction)
    /\ pc \in {"size", "body", "instructions", "sanitized", "mismatch", "programs", "resolved"}
    /\ transaction \in BOOLEAN /\ message \in BOOLEAN
    /\ visited \in 0 .. Len(instructions)
    /\ loader \in {"unknown", "yes", "no"}

\* The two verdicts differ only in the number of signatures.
Agreement ==
    /\ view.signatures = view.required => message = transaction
    /\ transaction => message

\* What the checks so far say of a transaction that still passes.
Checks ==
    /\ pc \in {"size", "body"} => instructions = <<>>
    /\ pc \in {"mismatch", "programs", "resolved"} => transaction
    /\ transaction /\ pc # "size" => SignaturesOK
    /\ transaction /\ pc \notin {"size", "body"} =>
          /\ HeaderOK /\ RequiredSignaturesOK /\ AccountAccessOK
          /\ \A n \in 1 .. Len(instructions) : InstructionOK(instructions[n])

NumAccounts == view.static + view.writable + view.readonly

LoaderAmongKeys == \E k \in DOMAIN keys : keys[k] = Loader

\* An account that may be written before the programs are looked at.
Candidate(i) == i \in DOMAIN keys /\ WriteRequested(i) /\ keys[i] \notin Reserved

\* The cache after the first `visited` instructions.
CacheInv ==
    /\ pc \notin {"programs", "resolved"} => visited = 0 /\ loader = "unknown"
    /\ pc \in {"programs", "resolved"} =>
          /\ keys \in [0 .. NumAccounts - 1 -> Key]
          /\ cache \in [U8 -> BOOLEAN]
          /\ \A i \in U8 :
                cache[i] <=> /\ Candidate(i)
                             /\ \/ \A n \in 1 .. visited : instructions[n].program # i
                                \/ LoaderAmongKeys
          /\ loader # "unknown" => (loader = "yes" <=> LoaderAmongKeys)
    /\ pc = "resolved" => visited = Len(instructions)

SanitizedIInv == ViewInv /\ ViewTypeOK /\ Agreement /\ Checks /\ CacheInv

-----------------------------------------------------------------------------
(* Arithmetic.                                                             *)

\* The widths, as far as the proofs need them.
LEMMA Widths ==
  /\ U8Max \in Nat /\ U16Max \in Nat /\ U8Max >= 1 /\ U8Max + 1 < U16Max
  /\ U8 = 0 .. U8Max /\ U16 = 0 .. U16Max
BY ViewAssumption, SMTT(30) DEF U8, U16

LEMMA SmallMod ==
  ASSUME NEW m \in Nat, NEW n \in 0 .. m
  PROVE  n % (m + 1) = n
BY SMTT(30)

\* A wrapping subtraction whose result is not negative is exact.
LEMMA ExactSub8 ==
  ASSUME NEW a \in Nat, NEW b \in Nat, b =< a, a - b =< U8Max
  PROVE  WrappingSub8(a, b) = a - b
<1>1. U8Max \in Nat /\ a - b \in 0 .. U8Max
  BY Widths, SMTT(30)
<1> QED
  BY <1>1, SmallMod DEF WrappingSub8

\* A wrapping addition whose result fits is exact.
LEMMA ExactAdd16 ==
  ASSUME NEW a \in Nat, NEW b \in Nat, a + b =< U16Max
  PROVE  WrappingAdd16(a, b) = a + b
<1>1. U16Max \in Nat /\ a + b \in 0 .. U16Max
  BY Widths, SMTT(30)
<1> QED
  BY <1>1, SmallMod DEF WrappingAdd16

\* The totals over no lookups are zero.
LEMMA NoLookups == Total(<<>>, WritableOf) = 0 /\ Total(<<>>, ReadonlyOf) = 0
<1>1. Total(<<>>, WritableOf) = 0
  <2> DEFINE F(f) == [n \in 0 .. Len(<<>>) |->
                        IF n = 0 THEN 0 ELSE f[n - 1] + WritableOf(<<>>[n])]
             sum == CHOOSE f : f = F(f)
             zero == [n \in 0 .. 0 |-> 0]
  <2>1. Total(<<>>, WritableOf) = sum[Len(<<>>)]
    BY DEF Total
  <2>2. zero = F(zero)
    BY SMTT(30)
  <2>3. sum = F(sum)
    <3> HIDE DEF F, zero
    <3> QED
      BY <2>2
  <2>4. sum[Len(<<>>)] = F(sum)[Len(<<>>)]
    <3> HIDE DEF sum, F
    <3> QED
      BY <2>3
  <2>5. F(sum)[Len(<<>>)] = 0
    <3> HIDE DEF sum
    <3> QED
      BY SMTT(30)
  <2> QED
    BY <2>1, <2>4, <2>5
<1>2. Total(<<>>, ReadonlyOf) = 0
  <2> DEFINE F(f) == [n \in 0 .. Len(<<>>) |->
                        IF n = 0 THEN 0 ELSE f[n - 1] + ReadonlyOf(<<>>[n])]
             sum == CHOOSE f : f = F(f)
             zero == [n \in 0 .. 0 |-> 0]
  <2>1. Total(<<>>, ReadonlyOf) = sum[Len(<<>>)]
    BY DEF Total
  <2>2. zero = F(zero)
    BY SMTT(30)
  <2>3. sum = F(sum)
    <3> HIDE DEF F, zero
    <3> QED
      BY <2>2
  <2>4. sum[Len(<<>>)] = F(sum)[Len(<<>>)]
    <3> HIDE DEF sum, F
    <3> QED
      BY <2>3
  <2>5. F(sum)[Len(<<>>)] = 0
    <3> HIDE DEF sum
    <3> QED
      BY SMTT(30)
  <2> QED
    BY <2>1, <2>4, <2>5
<1> QED
  BY <1>1, <1>2

\* The size of an interval and of a disjoint union.
LEMMA IntervalSize ==
  ASSUME NEW a \in Int, NEW n \in Nat
  PROVE  IsFiniteSet(a .. a + n - 1) /\ Cardinality(a .. a + n - 1) = n
<1> DEFINE b == a + n - 1
<1>1. b \in Int /\ (a > b <=> n = 0) /\ b - a + 1 = n
  BY SMTT(30)
<1> HIDE DEF b
<1>2. IsFiniteSet(a .. b) /\ Cardinality(a .. b) = IF a > b THEN 0 ELSE b - a + 1
  BY <1>1, FS_Interval
<1>3. IsFiniteSet(a .. b) /\ Cardinality(a .. b) = n
  BY <1>1, <1>2
<1> QED
  BY <1>3 DEF b

LEMMA DisjointUnionSize ==
  ASSUME NEW X, NEW Y, IsFiniteSet(X), IsFiniteSet(Y), X \cap Y = {}
  PROVE  /\ IsFiniteSet(X \cup Y)
         /\ Cardinality(X \cup Y) = Cardinality(X) + Cardinality(Y)
<1>1. /\ IsFiniteSet(X \cup Y)
      /\ Cardinality(X \cup Y) = Cardinality(X) + Cardinality(Y) - Cardinality(X \cap Y)
  BY FS_Union
<1>2. Cardinality(X \cap Y) = 0
  BY FS_EmptySet
<1>3. Cardinality(X) \in Nat /\ Cardinality(Y) \in Nat
  BY FS_CardinalityType
<1> QED
  BY <1>1, <1>2, <1>3, SMTT(30)

\* The accounts requested writable, by the layout of the account list: r signers,
\* of which rs are readonly, s static accounts, of which ru are readonly and do
\* not sign, and w loaded writable ones, of t in all.
RequestedOf(r, rs, s, ru, w, t) ==
    {i \in 0 .. t - 1 : \/ i < r - rs
                        \/ r =< i /\ i < s - ru
                        \/ s =< i /\ i < s + w}

LayoutOf(r, rs, s, ru, w, t) ==
    /\ r \in Nat /\ rs \in Nat /\ s \in Nat /\ ru \in Nat /\ w \in Nat /\ t \in Nat
    /\ rs =< r /\ r + ru =< s /\ s + w =< t

\* Their number: the three ranges do not overlap.
LEMMA WriteLockCount ==
  ASSUME NEW r, NEW rs, NEW s, NEW ru, NEW w, NEW t, LayoutOf(r, rs, s, ru, w, t)
  PROVE  /\ IsFiniteSet(RequestedOf(r, rs, s, ru, w, t))
         /\ Cardinality(RequestedOf(r, rs, s, ru, w, t)) = s - rs - ru + w
<1> DEFINE S == RequestedOf(r, rs, s, ru, w, t)
           A == 0 .. r - rs - 1
           B == r .. s - ru - 1
           C == s .. s + w - 1
<1> USE DEF LayoutOf
<1>1. S = (A \cup B) \cup C
  BY SMTT(30) DEF RequestedOf
<1>2. A \cap B = {} /\ (A \cup B) \cap C = {}
  BY SMTT(30)
<1>3. /\ r - rs \in Nat /\ s - ru - r \in Nat
      /\ A = 0 .. 0 + (r - rs) - 1 /\ B = r .. r + (s - ru - r) - 1
  BY SMTT(30)
<1>4. /\ IsFiniteSet(A) /\ Cardinality(A) = r - rs
      /\ IsFiniteSet(B) /\ Cardinality(B) = s - ru - r
      /\ IsFiniteSet(C) /\ Cardinality(C) = w
  <2> HIDE DEF A, B, C
  <2> DEFINE m == r - rs
             n == s - ru - r
  <2>1. m \in Nat /\ n \in Nat /\ 0 \in Int /\ r \in Int /\ s \in Int
    BY <1>3, SMTT(30)
  <2>2. A = 0 .. 0 + m - 1 /\ B = r .. r + n - 1
    BY <1>3
  <2>3. C = s .. s + w - 1
    BY DEF C
  <2> HIDE DEF m, n
  <2>4. IsFiniteSet(0 .. 0 + m - 1) /\ Cardinality(0 .. 0 + m - 1) = m
    BY <2>1, IntervalSize
  <2>5. IsFiniteSet(r .. r + n - 1) /\ Cardinality(r .. r + n - 1) = n
    BY <2>1, IntervalSize
  <2>6. IsFiniteSet(s .. s + w - 1) /\ Cardinality(s .. s + w - 1) = w
    BY <2>1, IntervalSize
  <2>7. /\ IsFiniteSet(A) /\ Cardinality(A) = m
        /\ IsFiniteSet(B) /\ Cardinality(B) = n
        /\ IsFiniteSet(C) /\ Cardinality(C) = w
    BY <2>2, <2>3, <2>4, <2>5, <2>6
  <2> QED
    BY <2>7 DEF m, n
<1> HIDE DEF A, B, C, S
<1> DEFINE m == r - rs
           n == s - ru - r
<1>5. m \in Nat /\ n \in Nat /\ m + n \in Nat /\ (m + n) + w = s - rs - ru + w
  BY <1>3, SMTT(30)
<1>6. Cardinality(A) = m /\ Cardinality(B) = n
  BY <1>4
<1> HIDE DEF m, n
<1>7. IsFiniteSet(A \cup B) /\ Cardinality(A \cup B) = m + n
  <2>1. IsFiniteSet(A \cup B) /\ Cardinality(A \cup B) = Cardinality(A) + Cardinality(B)
    BY <1>2, <1>4, DisjointUnionSize, Zenon
  <2> QED
    BY <2>1, <1>6
<1>8. IsFiniteSet((A \cup B) \cup C) /\ Cardinality((A \cup B) \cup C) = (m + n) + w
  <2>1. /\ IsFiniteSet((A \cup B) \cup C)
        /\ Cardinality((A \cup B) \cup C) = Cardinality(A \cup B) + Cardinality(C)
    BY <1>2, <1>4, <1>7, DisjointUnionSize, Zenon
  <2> QED
    BY <2>1, <1>4, <1>7
<1> QED
  BY <1>1, <1>5, <1>8 DEF S

-----------------------------------------------------------------------------
(* The counts of a view that passes the checks of the message body.        *)

\* The header describes a layout of the accounts, which are no more than u8 can
\* index, and each wrapping or saturating operation computes what it is meant to.
Exact ==
    /\ view.required >= 1 /\ view.readonly_signed < view.required
    /\ view.required + view.readonly_unsigned =< view.static
    /\ NumAccounts \in 1 .. U8Max + 1
    /\ TotalNumberOfAccounts = NumAccounts /\ TotalNumAccounts = NumAccounts
    /\ NumUnsigned = view.static - view.required
    /\ NumWritableUnsigned = view.static - view.required - view.readonly_unsigned
    /\ NumWritableSigned = view.required - view.readonly_signed
    /\ NumRequestedWriteLocks
          = view.static - view.readonly_signed - view.readonly_unsigned + view.writable

\* A view that passes the checks of the message body has exact counts.
LEMMA ExactCounts ==
  ASSUME ViewInv, HeaderOK, RequiredSignaturesOK, AccountAccessOK
  PROVE  Exact
<1> DEFINE st == view.static
           rq == view.required
           rs == view.readonly_signed
           ru == view.readonly_unsigned
           w == view.writable
           r == view.readonly
<1>1. /\ st \in 0 .. U8Max /\ rq \in 0 .. U8Max /\ rs \in 0 .. U8Max /\ ru \in 0 .. U8Max
      /\ w \in 0 .. U16Max /\ r \in 0 .. U16Max
  BY Widths DEF ViewInv
<1>2. rq >= 1 /\ rs < rq /\ ru =< WrappingSub8(st, rq) /\ st >= rq
  BY DEF HeaderOK, RequiredSignaturesOK
<1>3. SaturatingAdd16(SaturatingAdd16(st, w), r) =< U8Max + 1
  <2>1. CASE Packet
    BY <2>1 DEF AccountAccessOK, TotalNumberOfAccounts
  <2>2. CASE ~Packet
    <3>1. w = 0 /\ r = 0
      BY <2>2 DEF ViewInv, Packet
    <3> HIDE DEF st, w, r
    <3> QED
      BY <3>1, <1>1, Widths, SMTT(30) DEF SaturatingAdd16
  <2> QED
    BY <2>1, <2>2
<1> HIDE DEF st, rq, rs, ru, w, r
<1>4. /\ st + w + r =< U8Max + 1
      /\ SaturatingAdd16(SaturatingAdd16(st, w), r) = st + w + r
  BY <1>1, <1>3, Widths, SMTT(30) DEF SaturatingAdd16
<1>5. WrappingAdd16(WrappingAdd16(st, w), r) = st + w + r
  <2>1. WrappingAdd16(st, w) = st + w
    BY <1>1, <1>4, Widths, ExactAdd16, SMTT(30)
  <2>2. WrappingAdd16(st + w, r) = st + w + r
    BY <1>1, <1>4, Widths, ExactAdd16, SMTT(30)
  <2> QED
    BY <2>1, <2>2
<1>6. WrappingSub8(st, rq) = st - rq
  BY <1>1, <1>2, Widths, ExactSub8, SMTT(30)
<1>7. rq + ru =< st
  BY <1>1, <1>2, <1>6, Widths, SMTT(30)
<1>8. WrappingSub8(st - rq, ru) = st - rq - ru
  <2>1. st - rq \in Nat /\ ru \in Nat /\ ru =< st - rq /\ (st - rq) - ru =< U8Max
    BY <1>1, <1>2, <1>7, Widths, SMTT(30)
  <2> QED
    BY <2>1, ExactSub8
<1>9. WrappingSub8(rq, rs) = rq - rs
  BY <1>1, <1>2, Widths, ExactSub8, SMTT(30)
<1>10. WrappingAdd16(WrappingSub8(WrappingSub8(st, rs), ru), w) = st - rs - ru + w
  <2>1. WrappingSub8(st, rs) = st - rs
    BY <1>1, <1>2, Widths, ExactSub8, SMTT(30)
  <2>2. WrappingSub8(st - rs, ru) = st - rs - ru
    <3>1. st - rs \in Nat /\ ru \in Nat /\ ru =< st - rs /\ (st - rs) - ru =< U8Max
      BY <1>1, <1>2, <1>7, Widths, SMTT(30)
    <3> QED
      BY <3>1, ExactSub8
  <2>3. WrappingAdd16(st - rs - ru, w) = st - rs - ru + w
    <3>1. st - rs - ru \in Nat /\ w \in Nat /\ (st - rs - ru) + w =< U16Max
      BY <1>1, <1>2, <1>4, <1>7, Widths, SMTT(30)
    <3> QED
      BY <3>1, ExactAdd16
  <2> QED
    BY <2>1, <2>2, <2>3
<1>11. st + w + r \in 1 .. U8Max + 1
  BY <1>1, <1>2, <1>4, Widths, SMTT(30)
<1> QED
  BY <1>2, <1>4, <1>5, <1>6, <1>7, <1>8, <1>9, <1>10, <1>11
     DEF Exact, NumAccounts, TotalNumberOfAccounts, TotalNumAccounts, NumUnsigned,
         NumWritableUnsigned, NumWritableSigned, NumRequestedWriteLocks,
         st, rq, rs, ru, w, r

\* What the first loop of cache_is_writable computes for an account is what the
\* layout of the account list says.
LEMMA RequestedWrite ==
  ASSUME ViewInv, Exact, NEW i \in Nat, i < NumAccounts
  PROVE  IsRequestedWrite(i) <=> WriteRequested(i)
<1> DEFINE st == view.static
           rq == view.required
           rs == view.readonly_signed
           ru == view.readonly_unsigned
           w == view.writable
<1>1. st \in Nat /\ rq \in Nat /\ rs \in Nat /\ ru \in Nat /\ w \in Nat
  BY Widths, SMTT(30) DEF ViewInv
<1>2. rs < rq /\ rq + ru =< st
  BY DEF Exact
<1>3. IsRequestedWrite(i) <=> IF i >= st THEN i - st < w
                              ELSE IF i >= rq THEN i - rq < st - rq - ru
                              ELSE i < rq - rs
  BY DEF Exact, IsRequestedWrite
<1>4. WriteRequested(i) <=> \/ i < rq - rs
                            \/ rq =< i /\ i < st - ru
                            \/ st =< i /\ i < st + w
  BY DEF WriteRequested
<1> HIDE DEF st, rq, rs, ru, w
<1> QED
  BY <1>1, <1>2, <1>3, <1>4, SMTT(30)

\* An instruction that passes calls a static account that is not the fee payer,
\* and names only accounts that exist.
LEMMA InstructionInRange ==
  ASSUME ViewInv, Exact, NEW i \in Instruction, InstructionOK(i)
  PROVE  /\ i.program \in 1 .. view.static - 1
         /\ \A a \in i.accounts : a \in U8 /\ a < NumAccounts
<1>1. /\ view.static \in Nat /\ view.static >= 1 /\ view.static =< U8Max
      /\ NumAccounts \in Nat /\ NumAccounts >= 1 /\ NumAccounts - 1 =< U8Max
  BY Widths, SMTT(30) DEF ViewInv, Exact
<1>2. WrappingSub8(view.static, 1) = view.static - 1
  BY <1>1, ExactSub8, Widths, SMTT(30)
<1>3. WrappingSub8(TotalNumberOfAccounts, 1) = NumAccounts - 1
  BY <1>1, ExactSub8, Widths DEF Exact
<1>4. i.program \in U8 /\ i.accounts \in {{}} \cup {{a} : a \in U8}
  BY SMTT(30) DEF Instruction
<1>5. i.program \in Nat /\ \A a \in i.accounts : a \in U8 /\ a \in Nat
  <2>1. \A n \in U8 : n \in Nat
    BY Widths, SMTT(30)
  <2> QED
    BY <1>4, <2>1
<1>6. /\ i.program =< view.static - 1 /\ i.program # 0
      /\ \A a \in i.accounts : a =< NumAccounts - 1
  BY <1>2, <1>3 DEF InstructionOK
<1>7. i.program \in 1 .. view.static - 1
  BY <1>1, <1>5, <1>6, SMTT(30)
<1> QED
  BY <1>1, <1>5, <1>6, <1>7, SMTT(30)

-----------------------------------------------------------------------------
(* The invariant.                                                          *)

\* What the parser lets through.
LEMMA InitInv == ViewInit => SanitizedIInv
<1> SUFFICES ASSUME ViewInit PROVE SanitizedIInv
  OBVIOUS
<1>1. PICK h \in Header, lookups \in Lookups :
          Parsed(h, lookups) /\ view = ParsedView(h, lookups)
  BY DEF ViewInit
<1>2. /\ view.version = h.version
      /\ view.signatures = h.signatures /\ view.required = h.required
      /\ view.readonly_signed = h.readonly_signed
      /\ view.readonly_unsigned = h.readonly_unsigned
      /\ view.static = h.static /\ view.length = h.length
      /\ view.writable = Total(lookups, WritableOf)
      /\ view.readonly = Total(lookups, ReadonlyOf)
  BY <1>1 DEF ParsedView
<1>3. /\ h.version \in Versions
      /\ h.signatures \in U8 /\ h.required \in U8
      /\ h.readonly_signed \in U8 /\ h.readonly_unsigned \in U8 /\ h.static \in U8
      /\ h.length \in Nat
  BY ViewAssumption DEF Header
<1>4. /\ Total(lookups, WritableOf) \in U16 /\ Total(lookups, ReadonlyOf) \in U16
      /\ h.version # "v0" => lookups = <<>>
  BY <1>1 DEF Parsed
<1>5. h.version = "v1" => view.writable = 0 /\ view.readonly = 0
  BY <1>2, <1>4, NoLookups
<1>6. ViewInv
  BY <1>2, <1>3, <1>4, <1>5 DEF ViewInv
<1>7. ViewTypeOK /\ Agreement /\ Checks /\ CacheInv
  <2>1. /\ instructions = <<>> /\ pc = "size" /\ transaction = TRUE /\ message = TRUE
        /\ visited = 0 /\ loader = "unknown"
    BY DEF ViewInit
  <2>2. <<>> \in Seq(Instruction) /\ 0 \in 0 .. Len(<<>>)
    BY SMTT(30)
  <2>3. ViewTypeOK
    BY <2>1, <2>2 DEF ViewTypeOK
  <2> QED
    BY <2>1, <2>3 DEF Agreement, Checks, CacheInv
<1> QED
  BY <1>6, <1>7 DEF SanitizedIInv

\* Nothing changes the counts of the view, nor what is computed from them.
LEMMA SameView ==
  ASSUME view' = view
  PROVE  /\ ViewInv' <=> ViewInv
         /\ SignaturesOK' <=> SignaturesOK
         /\ HeaderOK' <=> HeaderOK
         /\ RequiredSignaturesOK' <=> RequiredSignaturesOK
         /\ AccountAccessOK' <=> AccountAccessOK
         /\ NumAccounts' = NumAccounts
         /\ \A i : InstructionOK(i)' <=> InstructionOK(i)
         /\ \A i : WriteRequested(i)' <=> WriteRequested(i)
BY DEF ViewInv, SignaturesOK, HeaderOK, RequiredSignaturesOK, AccountAccessOK, Packet,
       TotalNumberOfAccounts, NumAccounts, InstructionOK, WriteRequested

\* When the signatures are as many as the header requires, the length that is
\* measured and the one that is computed are the same.
LEMMA StepSizes ==
  ASSUME SanitizedIInv, SanitizeSizes
  PROVE  SanitizedIInv'
<1>1. view' = view /\ instructions' = instructions /\ UNCHANGED resolved
  BY DEF SanitizeSizes
<1>2. pc = "size" /\ pc' = "body"
  BY DEF SanitizeSizes
<1>3. /\ transaction' \in BOOLEAN /\ message' \in BOOLEAN
      /\ transaction' => SignaturesOK
      /\ view.signatures = view.required => message' = transaction'
      /\ transaction' => message'
  <2>1. CASE view.signatures = view.required
    <3>1. TransactionLength = SignedLength
      <4> DEFINE x == view.required * SignatureSize
                 l == view.length
      <4>1. view.required \in Nat /\ SignatureSize \in Nat /\ l \in Nat
        BY Widths, ViewAssumption, SMTT(30) DEF SanitizedIInv, ViewInv
      <4>2. x \in Nat
        BY <4>1, SMTT(30)
      <4>3. TransactionLength = 1 + x + l /\ SignedLength = x + l + 1
        BY <2>1 DEF TransactionLength, SignedLength
      <4> HIDE DEF x, l
      <4> QED
        BY <4>1, <4>2, <4>3, SMTT(30)
    <3> QED
      BY <2>1, <3>1 DEF SanitizeSizes, SignaturesOK
  <2>2. CASE view.signatures # view.required
    BY <2>2 DEF SanitizeSizes, SignaturesOK
  <2> QED
    BY <2>1, <2>2
<1>4. ViewInv'
  BY <1>1, SameView DEF SanitizedIInv
<1>5. ViewTypeOK'
  BY <1>1, <1>2, <1>3 DEF SanitizedIInv, ViewTypeOK, resolved
<1>6. Agreement'
  BY <1>1, <1>3 DEF Agreement
<1>7. Checks'
  BY <1>1, <1>2, <1>3, SameView DEF SanitizedIInv, Checks
<1>8. CacheInv'
  BY <1>1, <1>2 DEF SanitizedIInv, CacheInv, resolved
<1> QED
  BY <1>4, <1>5, <1>6, <1>7, <1>8 DEF SanitizedIInv

\* A check that both undergo changes both verdicts alike.
LEMMA VerdictAgrees ==
  ASSUME SanitizedIInv, view' = view, NEW ok \in BOOLEAN,
         transaction' = (transaction /\ ok), message' = (message /\ ok)
  PROVE  Agreement'
<1>1. CASE ok
  <2>1. transaction' = transaction /\ message' = message
    BY <1>1 DEF SanitizedIInv, ViewTypeOK
  <2> QED
    BY <2>1 DEF SanitizedIInv, Agreement
<1>2. CASE ~ok
  <2>1. transaction' = FALSE /\ message' = FALSE
    BY <1>2
  <2> QED
    BY <2>1 DEF Agreement
<1> QED
  BY <1>1, <1>2

\* The checks before the instructions, on which the exactness of the counts rests.
LEMMA StepBody ==
  ASSUME SanitizedIInv, SanitizeBody
  PROVE  SanitizedIInv'
<1> DEFINE ok == HeaderOK /\ RequiredSignaturesOK /\ AccountAccessOK
<1>1. view' = view /\ instructions' = instructions /\ UNCHANGED resolved
  BY DEF SanitizeBody
<1>2. pc = "body" /\ pc' = "instructions" /\ instructions = <<>>
  BY DEF SanitizeBody, SanitizedIInv, Checks
<1>3. transaction' = (transaction /\ ok) /\ message' = (message /\ ok)
  BY DEF SanitizeBody, Verdict
<1>4. ViewInv'
  BY <1>1, SameView DEF SanitizedIInv
<1>5. ViewTypeOK'
  <2> HIDE DEF ok
  <2> QED
    BY <1>1, <1>2, <1>3 DEF SanitizedIInv, ViewTypeOK, resolved
<1>6. Agreement'
  BY <1>1, <1>3, VerdictAgrees
<1>7. Checks'
  <2>1. transaction' => transaction /\ HeaderOK /\ RequiredSignaturesOK /\ AccountAccessOK
    BY <1>3
  <2>2. transaction => SignaturesOK
    BY <1>2 DEF SanitizedIInv, Checks
  <2> QED
    BY <1>1, <1>2, <2>1, <2>2, SameView, SMTT(30) DEF Checks
<1>8. CacheInv'
  BY <1>1, <1>2 DEF SanitizedIInv, CacheInv, resolved
<1> QED
  BY <1>4, <1>5, <1>6, <1>7, <1>8 DEF SanitizedIInv

\* The next instruction is appended, and a transaction that passes has only
\* instructions that pass.
LEMMA StepInstruction ==
  ASSUME SanitizedIInv, NEW i \in Instruction, SanitizeInstruction(i)
  PROVE  SanitizedIInv'
<1> DEFINE ok == InstructionOK(i)
<1>1. view' = view /\ UNCHANGED resolved /\ pc' = pc
  BY DEF SanitizeInstruction
<1>2. pc = "instructions" /\ instructions' = Append(instructions, i)
  BY DEF SanitizeInstruction
<1>3. transaction' = (transaction /\ ok) /\ message' = (message /\ ok)
  BY DEF SanitizeInstruction, Verdict
<1>4. ok \in BOOLEAN
  BY DEF InstructionOK
<1>5. ViewInv'
  BY <1>1, SameView DEF SanitizedIInv
<1>6. /\ instructions' \in Seq(Instruction)
      /\ Len(instructions') = Len(instructions) + 1 /\ Len(instructions) \in Nat
      /\ \A n \in 1 .. Len(instructions') :
            \/ instructions'[n] = i
            \/ n \in 1 .. Len(instructions) /\ instructions'[n] = instructions[n]
  BY <1>2, SMTT(30) DEF SanitizedIInv, ViewTypeOK
<1>7. visited = 0 /\ loader = "unknown"
  BY <1>2 DEF SanitizedIInv, CacheInv
<1>8. ViewTypeOK'
  <2> HIDE DEF ok
  <2>1. transaction' \in BOOLEAN /\ message' \in BOOLEAN
    BY <1>3
  <2>2. visited' \in 0 .. Len(instructions') /\ loader' = "unknown"
    BY <1>1, <1>6, <1>7, SMTT(30) DEF resolved
  <2> QED
    BY <1>1, <1>2, <1>6, <2>1, <2>2 DEF ViewTypeOK
<1>9. Agreement'
  <2> HIDE DEF ok
  <2> QED
    BY <1>1, <1>3, <1>4, VerdictAgrees
<1>10. Checks'
  <2>1. transaction' => transaction /\ InstructionOK(i)
    BY <1>3
  <2>2. transaction => /\ SignaturesOK /\ HeaderOK /\ RequiredSignaturesOK /\ AccountAccessOK
                       /\ \A n \in 1 .. Len(instructions) : InstructionOK(instructions[n])
    BY <1>2 DEF SanitizedIInv, Checks
  <2>3. transaction' => \A n \in 1 .. Len(instructions') : InstructionOK(instructions'[n])
    BY <1>6, <2>1, <2>2
  <2>4. transaction' => \A n \in 1 .. Len(instructions') : InstructionOK(instructions[n])'
    BY <1>1, <2>3 DEF InstructionOK, TotalNumberOfAccounts
  <2> QED
    BY <1>1, <1>2, <2>1, <2>2, <2>4, SameView DEF Checks
<1>11. CacheInv'
  BY <1>1, <1>2, <1>7 DEF CacheInv, resolved
<1> QED
  BY <1>5, <1>8, <1>9, <1>10, <1>11 DEF SanitizedIInv

\* The last check only decides the verdicts.
LEMMA StepLookups ==
  ASSUME SanitizedIInv, SanitizeLookups
  PROVE  SanitizedIInv'
<1> DEFINE ok == \A n \in DOMAIN view.lookups :
                    view.lookups[n].writable > 0 \/ view.lookups[n].readonly > 0
<1>1. view' = view /\ instructions' = instructions /\ UNCHANGED resolved
  BY DEF SanitizeLookups
<1>2. pc = "instructions" /\ pc' = "sanitized"
  BY DEF SanitizeLookups
<1>3. transaction' = (transaction /\ ok) /\ message' = (message /\ ok)
  BY DEF SanitizeLookups, Verdict
<1>4. ok \in BOOLEAN
  OBVIOUS
<1> HIDE DEF ok
<1>5. ViewInv'
  BY <1>1, SameView DEF SanitizedIInv
<1>6. ViewTypeOK'
  BY <1>1, <1>2, <1>3 DEF SanitizedIInv, ViewTypeOK, resolved
<1>7. Agreement'
  BY <1>1, <1>3, <1>4, VerdictAgrees
<1>8. Checks'
  <2>1. transaction' => transaction
    BY <1>3
  <2> QED
    BY <1>1, <1>2, <2>1, SameView DEF SanitizedIInv, Checks
<1>9. CacheInv'
  BY <1>1, <1>2 DEF SanitizedIInv, CacheInv, resolved
<1> QED
  BY <1>5, <1>6, <1>7, <1>8, <1>9 DEF SanitizedIInv

\* A transaction past the checks of the body has exact counts and instructions
\* in range.
LEMMA PassedIsExact ==
  ASSUME SanitizedIInv, transaction, pc \notin {"size", "body"}
  PROVE  /\ Exact
         /\ \A n \in 1 .. Len(instructions) :
               /\ instructions[n] \in Instruction
               /\ instructions[n].program \in U8
               /\ instructions[n].program \in 1 .. view.static - 1
               /\ \A a \in instructions[n].accounts : a \in U8 /\ a < NumAccounts
<1>1. ViewInv /\ HeaderOK /\ RequiredSignaturesOK /\ AccountAccessOK
  BY DEF SanitizedIInv, Checks
<1>2. Exact
  BY <1>1, ExactCounts
<1>3. SUFFICES ASSUME NEW n \in 1 .. Len(instructions)
               PROVE  /\ instructions[n] \in Instruction
                      /\ instructions[n].program \in U8
                      /\ instructions[n].program \in 1 .. view.static - 1
                      /\ \A a \in instructions[n].accounts : a \in U8 /\ a < NumAccounts
  BY <1>2
<1>4. instructions[n] \in Instruction
  BY SMTT(30) DEF SanitizedIInv, ViewTypeOK
<1>5. instructions[n].program \in U8
  BY <1>4 DEF Instruction
<1>6. InstructionOK(instructions[n])
  BY DEF SanitizedIInv, Checks
<1> QED
  BY <1>1, <1>2, <1>4, <1>5, <1>6, InstructionInRange

\* The cache after the first loop; its index never leaves the array.
LEMMA StepNew ==
  ASSUME SanitizedIInv, NEW loaded \in LoadedAddresses, TryNewWithSource(loaded)
  PROVE  SanitizedIInv'
<1>1. view' = view /\ instructions' = instructions /\ UNCHANGED <<transaction, message, visited, loader>>
  BY DEF TryNewWithSource, resolved
<1>2. pc = "sanitized" /\ transaction
  BY DEF TryNewWithSource
<1>3. Exact
  BY <1>2, PassedIsExact
<1>4. NumAccounts \in 1 .. U8Max + 1
  BY <1>3 DEF Exact
<1>5. \/ pc' = "mismatch"
      \/ /\ pc' = "programs"
         /\ keys' \in [0 .. NumAccounts - 1 -> Key]
         /\ cache' = [i \in U8 |-> /\ i < NumAccounts
                                   /\ IsRequestedWrite(i)
                                   /\ keys'[i] \notin Reserved]
  <2>1. CASE ~AddressesMatch(loaded)
    BY <2>1 DEF TryNewWithSource
  <2>2. CASE AddressesMatch(loaded)
    <3>1. ~(NumAccounts > U8Max + 1)
      BY <1>4, Widths, SMTT(30)
    <3> QED
      BY <2>2, <3>1 DEF TryNewWithSource, NumAccounts
  <2> QED
    BY <2>1, <2>2
<1>6. visited = 0 /\ loader = "unknown"
  BY <1>2 DEF SanitizedIInv, CacheInv
<1>7. ViewInv'
  BY <1>1, SameView DEF SanitizedIInv
<1>8. ViewTypeOK'
  BY <1>1, <1>5 DEF SanitizedIInv, ViewTypeOK
<1>9. Agreement'
  BY <1>1 DEF SanitizedIInv, Agreement
<1>10. Checks'
  <2>1. pc' \in {"mismatch", "programs"}
    BY <1>5
  <2> QED
    BY <1>1, <1>2, <2>1, SameView DEF SanitizedIInv, Checks
<1>11. CacheInv'
  <2>1. CASE pc' = "mismatch"
    BY <2>1, <1>1, <1>6 DEF CacheInv
  <2>2. CASE pc' = "programs"
    <3>1. /\ keys' \in [0 .. NumAccounts - 1 -> Key]
          /\ cache' = [i \in U8 |-> /\ i < NumAccounts
                                    /\ IsRequestedWrite(i)
                                    /\ keys'[i] \notin Reserved]
      BY <2>2, <1>5
    <3>2. ASSUME NEW i \in U8
          PROVE  cache'[i] <=> Candidate(i)'
      <4>1. i \in DOMAIN keys' <=> i < NumAccounts
        BY <3>1, <1>4, Widths, SMTT(30)
      <4>2. i < NumAccounts => (IsRequestedWrite(i) <=> WriteRequested(i))
        BY <1>3, Widths, RequestedWrite, SMTT(30) DEF SanitizedIInv
      <4>3. cache'[i] <=> /\ i < NumAccounts
                          /\ IsRequestedWrite(i)
                          /\ keys'[i] \notin Reserved
        BY <3>1
      <4>4. WriteRequested(i)' <=> WriteRequested(i)
        BY <1>1, SameView
      <4> QED
        BY <4>1, <4>2, <4>3, <4>4 DEF Candidate
    <3>3. visited' = 0 /\ loader' = "unknown"
      BY <1>1, <1>6
    <3>4. cache' \in [U8 -> BOOLEAN]
      BY <3>1
    <3>5. NumAccounts' = NumAccounts
      BY <1>1, SameView
    <3>6. 1 .. visited' = {}
      BY <3>3, SMTT(30)
    <3> QED
      BY <2>2, <3>1, <3>2, <3>3, <3>4, <3>5, <3>6 DEF CacheInv
  <2> QED
    BY <1>5, <2>1, <2>2
<1> QED
  BY <1>7, <1>8, <1>9, <1>10, <1>11 DEF SanitizedIInv

\* One more program: its entry stays only if the loader is among the keys.  An
\* entry that an earlier instruction cleared is not looked at again.
LEMMA StepVisit ==
  ASSUME SanitizedIInv, VisitProgram
  PROVE  SanitizedIInv'
<1> DEFINE program == instructions[visited + 1].program
<1>1. /\ view' = view /\ instructions' = instructions /\ pc' = pc /\ keys' = keys
      /\ UNCHANGED <<transaction, message>>
  BY DEF VisitProgram
<1>2. pc = "programs" /\ visited' = visited + 1 /\ visited < Len(instructions)
  BY DEF VisitProgram
<1>3. transaction
  BY <1>2 DEF SanitizedIInv, Checks
<1>4. visited \in Nat /\ Len(instructions) \in Nat /\ visited + 1 \in 1 .. Len(instructions)
  BY <1>2, SMTT(30) DEF SanitizedIInv, ViewTypeOK
<1>5. program \in U8
  BY <1>2, <1>3, <1>4, PassedIsExact
<1>6. /\ cache \in [U8 -> BOOLEAN]
      /\ keys \in [0 .. NumAccounts - 1 -> Key]
      /\ \A i \in U8 :
            cache[i] <=> /\ Candidate(i)
                         /\ \/ \A n \in 1 .. visited : instructions[n].program # i
                            \/ LoaderAmongKeys
      /\ loader # "unknown" => (loader = "yes" <=> LoaderAmongKeys)
  BY <1>2 DEF SanitizedIInv, CacheInv
<1>7. LoaderPresent = "yes" <=> LoaderAmongKeys
  BY <1>6 DEF LoaderPresent, LoaderAmongKeys
<1>8. LoaderPresent \in {"yes", "no"}
  BY DEF LoaderPresent, SanitizedIInv, ViewTypeOK
<1>9. /\ loader' \in {loader, LoaderPresent}
      /\ loader' # "unknown" => (loader' = "yes" <=> LoaderAmongKeys)
  <2>1. CASE cache[program]
    BY <2>1, <1>7 DEF VisitProgram
  <2>2. CASE ~cache[program]
    BY <2>2, <1>6 DEF VisitProgram
  <2> QED
    BY <2>1, <2>2
<1>10. /\ cache' \in [U8 -> BOOLEAN]
       /\ \A i \in U8 \ {program} : cache'[i] = cache[i]
       /\ cache'[program] <=> cache[program] /\ LoaderAmongKeys
  <2>1. CASE cache[program]
    <3>1. cache' = [cache EXCEPT ![program] = (LoaderPresent = "yes")]
      BY <2>1 DEF VisitProgram
    <3> HIDE DEF program
    <3> QED
      BY <2>1, <3>1, <1>5, <1>6, <1>7
  <2>2. CASE ~cache[program]
    BY <2>2, <1>6 DEF VisitProgram
  <2> QED
    BY <2>1, <2>2
<1>11. 1 .. visited' = (1 .. visited) \cup {visited + 1}
  BY <1>2, <1>4, SMTT(30)
<1>12. \A i \in U8 :
           cache'[i] <=> /\ Candidate(i)
                         /\ \/ \A n \in 1 .. visited' : instructions[n].program # i
                            \/ LoaderAmongKeys
  <2> TAKE i \in U8
  <2>1. CASE i = program
    <3>1. ~ \A n \in 1 .. visited' : instructions[n].program # i
      BY <1>11, <2>1
    <3> HIDE DEF program
    <3> QED
      BY <2>1, <3>1, <1>6, <1>10
  <2>2. CASE i # program
    <3>1. (\A n \in 1 .. visited' : instructions[n].program # i)
             <=> (\A n \in 1 .. visited : instructions[n].program # i)
      BY <1>11, <2>2
    <3> HIDE DEF program
    <3> QED
      BY <2>2, <3>1, <1>6, <1>10
  <2> QED
    BY <2>1, <2>2
<1>13. ViewInv'
  BY <1>1, SameView DEF SanitizedIInv
<1>14. ViewTypeOK'
  <2>1. visited' \in 0 .. Len(instructions') /\ loader' \in {"unknown", "yes", "no"}
    BY <1>1, <1>2, <1>4, <1>8, <1>9, SMTT(30) DEF SanitizedIInv, ViewTypeOK
  <2> QED
    BY <1>1, <2>1 DEF SanitizedIInv, ViewTypeOK
<1>15. Agreement'
  BY <1>1 DEF SanitizedIInv, Agreement
<1>16. Checks'
  BY <1>1, SameView DEF SanitizedIInv, Checks
<1>17. CacheInv'
  <2>1. \A i : Candidate(i)' <=> Candidate(i)
    BY <1>1, SameView DEF Candidate
  <2>2. LoaderAmongKeys' <=> LoaderAmongKeys
    BY <1>1 DEF LoaderAmongKeys
  <2>3. NumAccounts' = NumAccounts
    BY <1>1, SameView
  <2> QED
    BY <1>1, <1>2, <1>6, <1>9, <1>10, <1>12, <2>1, <2>2, <2>3 DEF CacheInv
<1> QED
  BY <1>13, <1>14, <1>15, <1>16, <1>17 DEF SanitizedIInv

\* The end of the second loop.
LEMMA StepResolved ==
  ASSUME SanitizedIInv, Resolved
  PROVE  SanitizedIInv'
<1>1. /\ view' = view /\ instructions' = instructions
      /\ UNCHANGED <<transaction, message, keys, cache, visited, loader>>
  BY DEF Resolved, resolved
<1>2. pc = "programs" /\ pc' = "resolved" /\ visited = Len(instructions)
  BY DEF Resolved
<1>3. ViewInv'
  BY <1>1, SameView DEF SanitizedIInv
<1>4. ViewTypeOK'
  BY <1>1, <1>2 DEF SanitizedIInv, ViewTypeOK
<1>5. Agreement'
  BY <1>1 DEF SanitizedIInv, Agreement
<1>6. Checks'
  BY <1>1, <1>2, SameView DEF SanitizedIInv, Checks
<1>7. CacheInv'
  <2>1. \A i : Candidate(i)' <=> Candidate(i)
    BY <1>1, SameView DEF Candidate
  <2>2. LoaderAmongKeys' <=> LoaderAmongKeys
    BY <1>1 DEF LoaderAmongKeys
  <2>3. NumAccounts' = NumAccounts
    BY <1>1, SameView
  <2> QED
    BY <1>1, <1>2, <2>1, <2>2, <2>3 DEF SanitizedIInv, CacheInv
<1> QED
  BY <1>3, <1>4, <1>5, <1>6, <1>7 DEF SanitizedIInv

\* A step that changes nothing keeps the invariant.
LEMMA StepStutter ==
  ASSUME SanitizedIInv, UNCHANGED viewVars
  PROVE  SanitizedIInv'
<1>1. /\ view' = view /\ instructions' = instructions /\ pc' = pc
      /\ UNCHANGED <<transaction, message, keys, cache, visited, loader>>
  BY DEF viewVars
<1>2. ViewInv' /\ ViewTypeOK' /\ Agreement'
  BY <1>1, SameView DEF SanitizedIInv, ViewTypeOK, Agreement
<1>3. Checks'
  BY <1>1, SameView DEF SanitizedIInv, Checks
<1>4. CacheInv'
  <2>1. \A i : Candidate(i)' <=> Candidate(i)
    BY <1>1, SameView DEF Candidate
  <2>2. LoaderAmongKeys' <=> LoaderAmongKeys
    BY <1>1 DEF LoaderAmongKeys
  <2>3. NumAccounts' = NumAccounts
    BY <1>1, SameView
  <2> QED
    BY <1>1, <2>1, <2>2, <2>3 DEF SanitizedIInv, CacheInv
<1> QED
  BY <1>2, <1>3, <1>4 DEF SanitizedIInv

\* SanitizedIInv holds in every reachable state, from parsing to the resolved view.
THEOREM SanitizedIInvAlways == ViewSpec => []SanitizedIInv
<1>1. SanitizedIInv /\ [ViewNext]_viewVars => SanitizedIInv'
  <2> SUFFICES ASSUME SanitizedIInv, [ViewNext]_viewVars PROVE SanitizedIInv'
    OBVIOUS
  <2>1. CASE UNCHANGED viewVars
    BY <2>1, StepStutter
  <2>2. CASE SanitizeSizes
    BY <2>2, StepSizes
  <2>3. CASE SanitizeBody
    BY <2>3, StepBody
  <2>4. ASSUME NEW i \in Instruction, SanitizeInstruction(i) PROVE SanitizedIInv'
    BY <2>4, StepInstruction
  <2>5. CASE SanitizeLookups
    BY <2>5, StepLookups
  <2>6. ASSUME NEW loaded \in LoadedAddresses, TryNewWithSource(loaded) PROVE SanitizedIInv'
    BY <2>6, StepNew
  <2>7. CASE VisitProgram
    BY <2>7, StepVisit
  <2>8. CASE Resolved
    BY <2>8, StepResolved
  <2>9. CASE ViewFinished
    BY <2>9, StepStutter DEF ViewFinished
  <2> QED
    BY <2>1, <2>2, <2>3, <2>4, <2>5, <2>6, <2>7, <2>8, <2>9 DEF ViewNext
<1> QED
  BY InitInv, <1>1, PTL DEF ViewSpec

-----------------------------------------------------------------------------
(* The theorems.                                                           *)

\* The write locks that are reported are the accounts requested writable.
LEMMA LocksAreRequests ==
  ASSUME ViewInv, Exact
  PROVE  /\ IsFiniteSet({i \in 0 .. NumAccounts - 1 : WriteRequested(i)})
         /\ NumRequestedWriteLocks = Cardinality({i \in 0 .. NumAccounts - 1 : WriteRequested(i)})
<1> DEFINE st == view.static
           rq == view.required
           rs == view.readonly_signed
           ru == view.readonly_unsigned
           w == view.writable
           S == RequestedOf(rq, rs, st, ru, w, NumAccounts)
<1>1. {i \in 0 .. NumAccounts - 1 : WriteRequested(i)} = S
  BY DEF WriteRequested, RequestedOf
<1>2. /\ st \in Nat /\ rq \in Nat /\ rs \in Nat /\ ru \in Nat /\ w \in Nat
      /\ view.readonly \in Nat
  BY Widths, SMTT(30) DEF ViewInv
<1>3. rs < rq /\ rq + ru =< st /\ NumAccounts = st + w + view.readonly
  BY DEF Exact, NumAccounts
<1>4. NumRequestedWriteLocks = st - rs - ru + w
  BY DEF Exact
<1> HIDE DEF st, rq, rs, ru, w
<1>5. rs =< rq /\ NumAccounts \in Nat /\ st + w =< NumAccounts
  BY <1>2, <1>3, SMTT(30)
<1>6. LayoutOf(rq, rs, st, ru, w, NumAccounts)
  BY <1>2, <1>3, <1>5 DEF LayoutOf
<1>7. IsFiniteSet(S) /\ Cardinality(S) = st - rs - ru + w
  BY <1>6, WriteLockCount, SMTT(30)
<1> QED
  BY <1>1, <1>4, <1>7

\* MessageView::sanitize and TransactionView::sanitize come to the same verdict.
THEOREM SameVerdict == ViewSpec => []MessageAgreesWithTransaction
<1>1. SanitizedIInv => MessageAgreesWithTransaction
  BY DEF SanitizedIInv, Agreement, ViewTypeOK, MessageAgreesWithTransaction
<1> QED
  BY SanitizedIInvAlways, <1>1, PTL

\* No wrapping operation on the counts of a sanitized view wraps, and
\* num_requested_write_locks counts the accounts requested writable.
THEOREM CountsExact == ViewSpec => []SanitizedCountsAreExact
<1>1. SanitizedIInv => SanitizedCountsAreExact
  <2> SUFFICES ASSUME SanitizedIInv, Sanitized
               PROVE  /\ NumUnsigned = view.static - view.required
                      /\ NumWritableUnsigned = NumUnsigned - view.readonly_unsigned
                      /\ NumWritableSigned = view.required - view.readonly_signed
                      /\ NumWritableUnsigned >= 0 /\ NumWritableSigned >= 1
                      /\ TotalNumAccounts = view.static + view.writable + view.readonly
                      /\ TotalNumAccounts = TotalNumberOfAccounts
                      /\ NumRequestedWriteLocks
                            = Cardinality({i \in 0 .. TotalNumAccounts - 1 : WriteRequested(i)})
    BY DEF SanitizedCountsAreExact
  <2>1. transaction /\ pc \notin {"size", "body"}
    BY DEF Sanitized
  <2>2. Exact /\ ViewInv
    BY <2>1, PassedIsExact DEF SanitizedIInv
  <2>3. /\ view.static \in Nat /\ view.required \in Nat
        /\ view.readonly_signed \in Nat /\ view.readonly_unsigned \in Nat
    BY <2>2, Widths, SMTT(30) DEF ViewInv
  <2>4. /\ view.static - view.required - view.readonly_unsigned >= 0
        /\ view.required - view.readonly_signed >= 1
    BY <2>2, <2>3, SMTT(30) DEF Exact
  <2>5. NumRequestedWriteLocks
            = Cardinality({i \in 0 .. TotalNumAccounts - 1 : WriteRequested(i)})
    BY <2>2, LocksAreRequests DEF Exact
  <2> QED
    BY <2>2, <2>3, <2>4, <2>5 DEF Exact, NumAccounts
<1> QED
  BY SanitizedIInvAlways, <1>1, PTL

\* Every program and account index of a sanitized view is in range.
THEOREM IndexesInRange == ViewSpec => []SanitizedIndexesInRange
<1>1. SanitizedIInv => SanitizedIndexesInRange
  <2> SUFFICES ASSUME SanitizedIInv, Sanitized, NEW n \in DOMAIN instructions
               PROVE  /\ instructions[n].program \in 1 .. view.static - 1
                      /\ \A a \in instructions[n].accounts :
                            a < view.static + view.writable + view.readonly
    BY DEF SanitizedIndexesInRange
  <2>1. transaction /\ pc \notin {"size", "body"}
    BY DEF Sanitized
  <2>2. n \in 1 .. Len(instructions)
    BY SMTT(30) DEF SanitizedIInv, ViewTypeOK
  <2> QED
    BY <2>1, <2>2, PassedIsExact DEF NumAccounts
<1> QED
  BY SanitizedIInvAlways, <1>1, PTL

\* The cache of a resolved view marks exactly the writable accounts.
THEOREM CacheExact == ViewSpec => []WritableCacheIsExact
<1>1. SanitizedIInv => WritableCacheIsExact
  <2> SUFFICES ASSUME SanitizedIInv, pc = "resolved", NEW i \in U8
               PROVE  cache[i] <=>
                         /\ i \in DOMAIN keys
                         /\ WriteRequested(i)
                         /\ keys[i] \notin Reserved
                         /\ \/ \A n \in DOMAIN instructions : instructions[n].program # i
                            \/ \E k \in DOMAIN keys : keys[k] = Loader
    BY DEF WritableCacheIsExact
  <2>1. visited = Len(instructions) /\ DOMAIN instructions = 1 .. Len(instructions)
    BY SMTT(30) DEF SanitizedIInv, CacheInv, ViewTypeOK
  <2>2. cache[i] <=> /\ Candidate(i)
                     /\ \/ \A n \in 1 .. visited : instructions[n].program # i
                        \/ LoaderAmongKeys
    BY DEF SanitizedIInv, CacheInv
  <2> QED
    BY <2>1, <2>2 DEF Candidate, LoaderAmongKeys
<1> QED
  BY SanitizedIInvAlways, <1>1, PTL

\* What the runtime is told of a resolved transaction fits together, and
\* resolving never indexes past the end of the cache.
THEOREM RuntimeConsistent == ViewSpec => []RuntimeViewIsConsistent
<1>1. ASSUME SanitizedIInv, pc = "resolved"
      PROVE  /\ view.signatures >= 1 /\ view.signatures = StaticMessage.num_transaction_signatures
             /\ 0 \in DOMAIN StaticKeys
             /\ IsSigner(0) /\ ~IsInvoked(0)
             /\ IsWritable(0) <=> StaticKeys[0] \notin Reserved
             /\ \A i \in 0 .. U16Max :
                   /\ IsSigner(i) \/ IsInvoked(i) => i \in DOMAIN StaticKeys
                   /\ IsWritable(i) => i < TotalNumAccounts
             /\ Cardinality({i \in 0 .. U16Max : IsWritable(i)})
                   <= StaticMessage.num_write_locks
             /\ \A n \in 1 .. StaticMessage.num_instructions :
                   LET program == instructions[n].program
                   IN  /\ IsInvoked(program)
                       /\ IsWritable(program) =>
                             ProgramIds[n] \notin Reserved
                               /\ \E k \in DOMAIN keys : keys[k] = Loader
  <2>1. transaction /\ Exact /\ ViewInv /\ SignaturesOK
    BY <1>1, PassedIsExact DEF SanitizedIInv, Checks
  <2>2. /\ view.static \in Nat /\ view.required \in Nat /\ view.readonly_signed \in Nat
        /\ view.readonly_unsigned \in Nat
        /\ view.readonly_signed < view.required /\ view.required >= 1
        /\ view.required =< view.static /\ view.static =< U8Max
        /\ NumAccounts \in Nat /\ view.static =< NumAccounts
    <3> DEFINE st == view.static
               rq == view.required
               ru == view.readonly_unsigned
               w == view.writable
               r == view.readonly
    <3>1. /\ st \in Nat /\ st =< U8Max /\ rq \in Nat /\ ru \in Nat /\ w \in Nat /\ r \in Nat
          /\ view.readonly_signed \in Nat
      BY <2>1, Widths, SMTT(30) DEF ViewInv
    <3>2. view.readonly_signed < rq /\ rq >= 1 /\ rq + ru =< st /\ NumAccounts = st + w + r
      BY <2>1 DEF Exact, NumAccounts
    <3> HIDE DEF st, rq, ru, w, r
    <3>3. rq =< st /\ NumAccounts \in Nat /\ st =< NumAccounts
      BY <3>1, <3>2, SMTT(30)
    <3> QED
      BY <3>1, <3>2, <3>3 DEF st, rq, ru
  <2>3. \A n \in 1 .. Len(instructions) :
           instructions[n].program \in U8 /\ instructions[n].program \in 1 .. view.static - 1
    BY <1>1, <2>1, PassedIsExact
  <2>4. DOMAIN instructions = 1 .. Len(instructions) /\ Len(instructions) \in Nat
    BY <1>1, SMTT(30) DEF SanitizedIInv, ViewTypeOK
  <2>5. /\ keys \in [0 .. NumAccounts - 1 -> Key]
        /\ DOMAIN cache = U8
        /\ \A i \in U8 :
              cache[i] <=> /\ i \in 0 .. NumAccounts - 1 /\ WriteRequested(i)
                           /\ keys[i] \notin Reserved
                           /\ \/ \A n \in 1 .. Len(instructions) : instructions[n].program # i
                              \/ LoaderAmongKeys
    BY <1>1 DEF SanitizedIInv, CacheInv, Candidate
  <2>6. DOMAIN StaticKeys = 0 .. view.static - 1
    BY DEF StaticKeys
  <2>7. view.signatures >= 1 /\ view.signatures = StaticMessage.num_transaction_signatures
    BY <2>1, <2>2 DEF SignaturesOK, StaticMessage
  <2>8. 0 \in DOMAIN StaticKeys /\ IsSigner(0) /\ StaticKeys[0] = keys[0]
    BY <2>2, <2>6, SMTT(30) DEF IsSigner, StaticKeys
  <2>9. ~IsInvoked(0)
    BY <2>2, <2>3, <2>4, SMTT(30) DEF IsInvoked
  <2>10. IsWritable(0) <=> StaticKeys[0] \notin Reserved
    <3>1. 0 \in U8 /\ 0 \in 0 .. NumAccounts - 1 /\ WriteRequested(0)
      BY <2>2, Widths, SMTT(30) DEF WriteRequested
    <3>2. \A n \in 1 .. Len(instructions) : instructions[n].program # 0
      BY <2>2, <2>3, SMTT(30)
    <3> QED
      BY <3>1, <3>2, <2>5, <2>8 DEF IsWritable
  <2>11. ASSUME NEW i \in 0 .. U16Max
         PROVE  /\ IsSigner(i) \/ IsInvoked(i) => i \in DOMAIN StaticKeys
                /\ IsWritable(i) => i < TotalNumAccounts
    <3>1. i \in Nat
      BY Widths, SMTT(30)
    <3>2. IsSigner(i) => i \in DOMAIN StaticKeys
      BY <3>1, <2>2, <2>6, SMTT(30) DEF IsSigner
    <3>3. IsInvoked(i) => i \in DOMAIN StaticKeys
      BY <3>1, <2>2, <2>3, <2>4, <2>6, SMTT(30) DEF IsInvoked
    <3>4. IsWritable(i) => i < NumAccounts
      BY <3>1, <2>2, <2>5, SMTT(30) DEF IsWritable
    <3> QED
      BY <3>2, <3>3, <3>4, <2>1 DEF Exact
  <2>12. Cardinality({i \in 0 .. U16Max : IsWritable(i)}) <= StaticMessage.num_write_locks
    <3> DEFINE W == {i \in 0 .. U16Max : IsWritable(i)}
               R == {i \in 0 .. NumAccounts - 1 : WriteRequested(i)}
    <3>1. W \in SUBSET R
      BY <2>5 DEF IsWritable
    <3>2. IsFiniteSet(R) /\ NumRequestedWriteLocks = Cardinality(R)
      BY <2>1, LocksAreRequests
    <3> HIDE DEF W, R
    <3>3. Cardinality(W) =< Cardinality(R)
      BY <3>1, <3>2, FS_Subset
    <3>4. StaticMessage.num_write_locks = NumRequestedWriteLocks
      BY DEF StaticMessage
    <3> QED
      BY <3>2, <3>3, <3>4 DEF W
  <2>13. ASSUME NEW n \in 1 .. StaticMessage.num_instructions
         PROVE  /\ IsInvoked(instructions[n].program)
                /\ IsWritable(instructions[n].program) =>
                      ProgramIds[n] \notin Reserved
                        /\ \E k \in DOMAIN keys : keys[k] = Loader
    <3>1. n \in 1 .. Len(instructions)
      BY DEF StaticMessage
    <3>2. IsInvoked(instructions[n].program)
      BY <3>1, <2>3, <2>4 DEF IsInvoked
    <3>3. ProgramIds[n] = keys[instructions[n].program]
      <4>1. instructions[n].program \in 0 .. view.static - 1
        BY <3>1, <2>2, <2>3, SMTT(30)
      <4> QED
        BY <3>1, <4>1, <2>4 DEF ProgramIds, StaticKeys
    <3>4. IsWritable(instructions[n].program) =>
             keys[instructions[n].program] \notin Reserved /\ LoaderAmongKeys
      BY <3>1, <2>3, <2>5 DEF IsWritable
    <3> QED
      BY <3>2, <3>3, <3>4 DEF LoaderAmongKeys
  <2> QED
    BY <2>7, <2>8, <2>9, <2>10, <2>11, <2>12, <2>13
<1>2. SanitizedIInv => pc # "panic"
  BY DEF SanitizedIInv, ViewTypeOK
<1>3. SanitizedIInv => RuntimeViewIsConsistent
  BY <1>1, <1>2 DEF RuntimeViewIsConsistent
<1> QED
  BY SanitizedIInvAlways, <1>3, PTL

=============================================================================
