-------------------------- MODULE HandshakeOutcome --------------------------
(***************************************************************************)
(* What the scheduler handshake promises, without sockets, timeouts or     *)
(* buffers: for each client the server decides once, the client decides    *)
(* once, and the client's decision never goes beyond the server's.         *)
(*                                                                         *)
(* There is no acknowledgement, so a server session without a client       *)
(* session is possible; a client session without a server session, or one  *)
(* for another request, is not.                                            *)
(***************************************************************************)
CONSTANTS
    Client,
    Acceptable,     \* clients whose versions match and whose logon is valid
    Undecided       \* no outcome yet

VARIABLES
    server,         \* Server::accept's outcome for each client
    client          \* client::connect's outcome

vars == <<server, client>>

Init ==
    /\ server = [c \in Client |-> Undecided]
    /\ client = [c \in Client |-> Undecided]

\* accept returns Ok, with the session that this client asked for.
ServerAccepts(c) ==
    /\ server[c] = Undecided
    /\ c \in Acceptable
    /\ server' = [server EXCEPT ![c] = <<"session", c>>]
    /\ UNCHANGED client

\* accept returns Err: a bad request, a slow or vanished client, no resources.
ServerRefuses(c) ==
    /\ server[c] = Undecided
    /\ server' = [server EXCEPT ![c] = <<"error">>]
    /\ UNCHANGED client

\* connect returns Ok only with a session that the server has set up.
ClientJoins(c) ==
    /\ client[c] = Undecided
    /\ server[c] = <<"session", c>>
    /\ client' = [client EXCEPT ![c] = <<"session", c>>]
    /\ UNCHANGED server

\* connect reports a rejection only if there was one.
ClientRejected(c) ==
    /\ client[c] = Undecided
    /\ server[c] = <<"error">>
    /\ client' = [client EXCEPT ![c] = <<"rejected">>]
    /\ UNCHANGED server

\* connect may fail on its own at any time.
ClientFails(c) ==
    /\ client[c] = Undecided
    /\ client' = [client EXCEPT ![c] = <<"error">>]
    /\ UNCHANGED server

Next ==
    \E c \in Client :
        \/ ServerAccepts(c)
        \/ ServerRefuses(c)
        \/ ClientJoins(c)
        \/ ClientRejected(c)
        \/ ClientFails(c)

Spec == Init /\ [][Next]_vars
=============================================================================
