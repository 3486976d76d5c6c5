------------------------------- MODULE DtlsEcho -------------------------------
(***************************************************************************)
(* The DTLS echo server and client of sock-dtls-udp over a network that    *)
(* may lose datagrams.  The server handles one connection at a time:       *)
(* start_server listens with cookies, then calls connection_handle, which  *)
(* reads and echoes until the peer shuts down or DtlsMaxTimeouts receive   *)
(* timeouts have passed.  The client sends its messages, shuts down and    *)
(* reads until it has received the server's shutdown.                      *)
(*                                                                         *)
(* OpenSSL and the sockets are external: a call is the set of outcomes it  *)
(* can report.  An outcome that is not a success, a lost datagram, a hello *)
(* from a changed address and a restart of the server each use up one of   *)
(* DtlsMaxFaults.                                                          *)
(***************************************************************************)
EXTENDS Naturals, Sequences

CONSTANTS DtlsClients,      \* addresses of the client programs
          DtlsStrays,       \* addresses no client listens at
          DtlsMessages,     \* messagenumber of the client's main
          DtlsMaxTimeouts,  \* max_timeouts of connection_handle
          DtlsMaxFaults,    \* bound on faults
          DtlsNone          \* no peer, no cookie

Addresses == DtlsClients \union DtlsStrays

VARIABLES
  dtlsServer,   \* pc, peer, timeouts, got (peer's shutdown received), holds, run
  dtlsSecret,   \* the cookie secret: 0 until cookie_initialized
  dtlsClient,   \* per client: pc, left (messagenumber), cookie, got
  toServer,     \* datagrams on their way from each client's address
  toClient,     \* datagrams on their way to each client's address
  dtlsIssued,   \* every cookie the server ever sent
  dtlsFaults    \* faults so far

dtlsVars == <<dtlsServer, dtlsSecret, dtlsClient, toServer, toClient, dtlsIssued, dtlsFaults>>

Errnos == {"EINTR", "EBADF", "EHOSTDOWN", "ECONNRESET", "ENOMEM", "EACCES", "other"}

\* TRUE for the errors the server carries on after.
handle_socket_error(errno) == errno \in {"EINTR", "EHOSTDOWN", "ECONNRESET", "EACCES"}

\* The client's copy of it.
client_handle_socket_error(errno) == errno \in {"EINTR", "EHOSTDOWN", "ECONNRESET", "EACCES"}

hello(k) == [type |-> "hello", cookie |-> k]
verifyRequest(k) == [type |-> "verify", cookie |-> k]
data == [type |-> "data", cookie |-> DtlsNone]
closeNotify == [type |-> "close", cookie |-> DtlsNone]

DtlsInit ==
  /\ dtlsServer = [pc |-> "start", peer |-> DtlsNone, timeouts |-> 0, got |-> FALSE,
                   holds |-> {}, run |-> 1]
  /\ dtlsSecret = 0
  /\ dtlsClient = [c \in Addresses |->
                     [pc |-> IF c \in DtlsClients THEN "start" ELSE "absent", left |-> DtlsMessages, cookie |-> DtlsNone, got |-> FALSE]]
  /\ toServer = [c \in Addresses |-> <<>>]
  /\ toClient = [c \in Addresses |-> <<>>]
  /\ dtlsIssued = {}
  /\ dtlsFaults = 0

Fault == dtlsFaults < DtlsMaxFaults /\ dtlsFaults' = dtlsFaults + 1

Push(queue, c, ms) == [queue EXCEPT ![c] = @ \o ms]
Pop(queue, c) == [queue EXCEPT ![c] = Tail(@)]

ServerAt(pc) == dtlsServer.pc = pc
ServerGoes(pc) == dtlsServer' = [dtlsServer EXCEPT !.pc = pc]
ClientAt(c, pc) == dtlsClient[c].pc = pc
ClientGoes(c, pc) == dtlsClient' = [dtlsClient EXCEPT ![c].pc = pc]

serverSide == <<dtlsServer, dtlsSecret, dtlsIssued>>

-------------------------------------------------------------------------------
(* The cookie callbacks.  A cookie is the keyed hash of the peer's address. *)

Cookie(secret, c) == [secret |-> secret, peer |-> c]

\* No peer and no cookie is not a cookie.
ASSUME DtlsAssumption ==
  /\ DtlsMessages \in Nat /\ DtlsMaxTimeouts \in Nat /\ DtlsMaxFaults \in Nat
  /\ \A secret \in 1 .. DtlsMaxFaults + 1, c \in Addresses : Cookie(secret, c) # DtlsNone

\* The secret after generate_cookie, which makes it on its first call.
generate_secret == IF dtlsSecret = 0 THEN dtlsServer.run ELSE dtlsSecret

verify_cookie_AnyPeer(c, k) == dtlsSecret # 0 /\ k # DtlsNone /\ k.secret = dtlsSecret

verify_cookie(c, k) == dtlsSecret # 0 /\ k = Cookie(dtlsSecret, c)

-------------------------------------------------------------------------------
(* start_server *)

\* The context, the certificate, the socket and its address.  A missing
\* certificate is only reported; socket and bind end the program.
ServerSetup ==
  /\ ServerAt("start")
  /\ \/ ServerGoes("top") /\ UNCHANGED dtlsFaults
     \/ ServerGoes("exited") /\ Fault
  /\ UNCHANGED <<dtlsSecret, dtlsClient, toServer, toClient, dtlsIssued>>

\* A new BIO and SSL for the next connection.
NewSsl ==
  /\ ServerAt("top")
  /\ dtlsServer' = [dtlsServer EXCEPT !.pc = "listen", !.holds = @ \union {"ssl"}]
  /\ UNCHANGED <<dtlsSecret, dtlsClient, toServer, toClient, dtlsIssued, dtlsFaults>>

\* DTLSv1_listen on a datagram from c.  A hello without a good cookie is
\* answered with a cookie, unless generate_cookie fails; anything else that is
\* not a hello is dropped.
ListenAnswers(c) ==
  LET m == Head(toServer[c])
      k == Cookie(generate_secret, c) IN
  /\ ServerAt("listen") /\ toServer[c] # <<>>
  /\ toServer' = Pop(toServer, c)
  /\ \/ /\ m.type # "hello"
        /\ UNCHANGED <<dtlsSecret, toClient, dtlsIssued, dtlsFaults>>
     \/ /\ m.type = "hello" /\ ~verify_cookie(c, m.cookie)
        /\ dtlsSecret' = generate_secret
        /\ toClient' = Push(toClient, c, <<verifyRequest(k)>>)
        /\ dtlsIssued' = dtlsIssued \union {k}
        /\ UNCHANGED dtlsFaults
     \/ /\ m.type = "hello" /\ ~verify_cookie(c, m.cookie)
        /\ Fault
        /\ UNCHANGED <<dtlsSecret, toClient, dtlsIssued>>
  /\ UNCHANGED <<dtlsServer, dtlsClient>>

\* DTLSv1_listen succeeds; pass_info is filled and connection_handle called.
ListenAccepts(c) ==
  /\ ServerAt("listen") /\ toServer[c] # <<>>
  /\ Head(toServer[c]).type = "hello" /\ verify_cookie(c, Head(toServer[c]).cookie)
  /\ toServer' = Pop(toServer, c)
  /\ dtlsServer' = [dtlsServer EXCEPT !.pc = "socket", !.peer = c, !.timeouts = 0, !.got = FALSE,
                                      !.holds = @ \union {"info"}]
  /\ UNCHANGED <<dtlsSecret, dtlsClient, toClient, dtlsIssued, dtlsFaults>>

-------------------------------------------------------------------------------
(* connection_handle *)

\* socket, bind and connect; the first may fail without a descriptor.
DtlsOpenSocket ==
  /\ ServerAt("socket")
  /\ \/ /\ dtlsServer' = [dtlsServer EXCEPT !.pc = "accept", !.holds = @ \union {"fd"}]
        /\ UNCHANGED dtlsFaults
     \/ /\ Fault
        /\ \E got \in {{}, {"fd"}} :
             dtlsServer' = [dtlsServer EXCEPT !.pc = "cleanup", !.holds = @ \union got]
  /\ UNCHANGED <<dtlsSecret, dtlsClient, toServer, toClient, dtlsIssued>>

\* SSL_accept and the peer's SSL_connect finish the handshake together.
Handshake ==
  LET c == dtlsServer.peer IN
  /\ ServerAt("accept") /\ ClientAt(c, "connect")
  /\ ServerGoes("loop") /\ ClientGoes(c, "loop")
  /\ UNCHANGED <<dtlsSecret, toServer, toClient, dtlsIssued, dtlsFaults>>

\* SSL_accept gives up: the peer no longer connects, or the handshake fails.
AcceptFails ==
  /\ ServerAt("accept")
  /\ \/ ~ClientAt(dtlsServer.peer, "connect") /\ UNCHANGED dtlsFaults
     \/ Fault
  /\ ServerGoes("cleanup")
  /\ UNCHANGED <<dtlsSecret, dtlsClient, toServer, toClient, dtlsIssued>>

\* The condition of the outer loop, and SSL_shutdown after it.
ServerLoop ==
  /\ ServerAt("loop")
  /\ IF dtlsServer.got \/ dtlsServer.timeouts >= DtlsMaxTimeouts
     THEN /\ ServerGoes("cleanup")
          /\ toClient' = Push(toClient, dtlsServer.peer, <<closeNotify>>)
     ELSE /\ ServerGoes("read")
          /\ UNCHANGED toClient
  /\ UNCHANGED <<dtlsSecret, dtlsClient, toServer, dtlsIssued, dtlsFaults>>

\* SSL_read returns a message, the peer's shutdown, or skips a stale hello.
ServerReads ==
  LET c == dtlsServer.peer
      m == Head(toServer[c]) IN
  /\ ServerAt("read") /\ toServer[c] # <<>>
  /\ toServer' = Pop(toServer, c)
  /\ dtlsServer' = [dtlsServer EXCEPT !.pc = CASE m.type = "data" -> "write"
                                               [] m.type = "close" -> "loop"
                                               [] OTHER -> "read",
                                      !.got = @ \/ m.type = "close"]
  /\ UNCHANGED <<dtlsSecret, dtlsClient, toClient, dtlsIssued, dtlsFaults>>

ServerTimesOut_Forgets ==
  /\ ServerAt("read")
  /\ ServerGoes("loop")
  /\ UNCHANGED <<dtlsSecret, dtlsClient, toServer, toClient, dtlsIssued, dtlsFaults>>

\* SSL_ERROR_WANT_READ with an expired receive timer.
ServerTimesOut ==
  /\ ServerAt("read")
  /\ dtlsServer' = [dtlsServer EXCEPT !.pc = "loop", !.timeouts = @ + 1]
  /\ UNCHANGED <<dtlsSecret, dtlsClient, toServer, toClient, dtlsIssued, dtlsFaults>>

\* SSL_ERROR_SYSCALL ends the inner loop or the connection; SSL_ERROR_SSL and
\* unexpected errors always end the connection.
ServerReadFails ==
  /\ ServerAt("read") /\ Fault
  /\ \/ \E errno \in Errnos : ServerGoes(IF handle_socket_error(errno) THEN "loop" ELSE "cleanup")
     \/ ServerGoes("cleanup")
  /\ UNCHANGED <<dtlsSecret, dtlsClient, toServer, toClient, dtlsIssued>>

\* The echo.  A write that has to be retried is not retried.
ServerWrites ==
  /\ ServerAt("write")
  /\ \/ /\ toClient' = Push(toClient, dtlsServer.peer, <<data>>)
        /\ ServerGoes("loop")
        /\ UNCHANGED dtlsFaults
     \/ /\ Fault
        /\ \/ ServerGoes("loop")
           \/ \E errno \in Errnos : ServerGoes(IF handle_socket_error(errno) THEN "loop" ELSE "cleanup")
           \/ ServerGoes("cleanup")
        /\ UNCHANGED toClient
  /\ UNCHANGED <<dtlsSecret, dtlsClient, toServer, dtlsIssued>>

Cleanup ==
  /\ ServerAt("cleanup")
  /\ dtlsServer' = [dtlsServer EXCEPT !.pc = "top", !.peer = DtlsNone,
                                      !.holds = @ \ {"fd", "info", "ssl"}]
  /\ UNCHANGED <<dtlsSecret, dtlsClient, toServer, toClient, dtlsIssued, dtlsFaults>>

-------------------------------------------------------------------------------
(* start_client *)

\* The socket, the context and the trusted certificates.
ClientSetup(c) ==
  /\ ClientAt(c, "start")
  /\ \/ ClientGoes(c, "connect") /\ UNCHANGED dtlsFaults
     \/ ClientGoes(c, "exited") /\ Fault
  /\ UNCHANGED <<serverSide, toServer, toClient>>

\* SSL_connect sends its hello, and sends it again when nothing is under way.
SendHello(c) ==
  /\ ClientAt(c, "connect") /\ toServer[c] = <<>> /\ toClient[c] = <<>>
  /\ toServer' = Push(toServer, c, <<hello(dtlsClient[c].cookie)>>)
  /\ UNCHANGED <<serverSide, dtlsClient, toClient, dtlsFaults>>

\* SSL_connect answers a cookie with a hello that carries it.
AnswerCookie(c) ==
  /\ ClientAt(c, "connect") /\ toClient[c] # <<>>
  /\ toClient' = Pop(toClient, c)
  /\ \/ /\ Head(toClient[c]).type = "verify"
        /\ dtlsClient' = [dtlsClient EXCEPT ![c].cookie = Head(toClient[c]).cookie]
        /\ toServer' = Push(toServer, c, <<hello(Head(toClient[c]).cookie)>>)
     \/ /\ Head(toClient[c]).type # "verify"
        /\ UNCHANGED <<dtlsClient, toServer>>
  /\ UNCHANGED <<serverSide, dtlsFaults>>

\* Any failure of SSL_connect ends the program.
ConnectFails(c) ==
  /\ ClientAt(c, "connect") /\ Fault
  /\ ClientGoes(c, "exited")
  /\ UNCHANGED <<serverSide, toServer, toClient>>

\* One message, followed by SSL_shutdown when it was the last one.
ClientWrites(c) ==
  /\ ClientAt(c, "loop") /\ ~dtlsClient[c].got /\ dtlsClient[c].left > 0
  /\ \/ /\ dtlsClient' = [dtlsClient EXCEPT ![c].pc = "read", ![c].left = @ - 1]
        /\ toServer' = Push(toServer, c, IF dtlsClient[c].left = 1 THEN <<data, closeNotify>>
                                                                   ELSE <<data>>)
        /\ UNCHANGED dtlsFaults
     \/ /\ Fault
        /\ \/ ClientGoes(c, "read")
           \/ \E errno \in Errnos : ClientGoes(c, IF client_handle_socket_error(errno) THEN "read" ELSE "exited")
           \/ ClientGoes(c, "exited")
        /\ UNCHANGED toServer
  /\ UNCHANGED <<serverSide, toClient>>

\* Nothing left to send: read again, or close once the shutdown has come.
ClientLoop(c) ==
  /\ ClientAt(c, "loop") /\ (dtlsClient[c].got \/ dtlsClient[c].left = 0)
  /\ ClientGoes(c, IF dtlsClient[c].got THEN "done" ELSE "read")
  /\ UNCHANGED <<serverSide, toServer, toClient, dtlsFaults>>

ClientReads(c) ==
  LET m == Head(toClient[c]) IN
  /\ ClientAt(c, "read") /\ toClient[c] # <<>>
  /\ toClient' = Pop(toClient, c)
  /\ dtlsClient' = [dtlsClient EXCEPT ![c].pc = IF m.type = "verify" THEN "read" ELSE "loop",
                                      ![c].got = @ \/ m.type = "close"]
  /\ UNCHANGED <<serverSide, toServer, dtlsFaults>>

\* "Timeout! No response received."
ClientTimesOut(c) ==
  /\ ClientAt(c, "read")
  /\ ClientGoes(c, "loop")
  /\ UNCHANGED <<serverSide, toServer, toClient, dtlsFaults>>

ClientReadFails(c) ==
  /\ ClientAt(c, "read") /\ Fault
  /\ \/ \E errno \in Errnos : ClientGoes(c, IF client_handle_socket_error(errno) THEN "loop" ELSE "exited")
     \/ ClientGoes(c, "exited")
  /\ UNCHANGED <<serverSide, toServer, toClient>>

-------------------------------------------------------------------------------
(* The network and the machine the server runs on. *)

Lose(c) ==
  /\ Fault
  /\ \/ toServer[c] # <<>> /\ toServer' = Pop(toServer, c) /\ UNCHANGED toClient
     \/ toClient[c] # <<>> /\ toClient' = Pop(toClient, c) /\ UNCHANGED toServer
  /\ UNCHANGED <<serverSide, dtlsClient>>

\* A hello arrives from an address other than the one its cookie was sent to.
Rebind(c) ==
  /\ Fault
  /\ \E k \in dtlsIssued : k.peer # c /\ toServer' = Push(toServer, c, <<hello(k)>>)
  /\ UNCHANGED <<serverSide, dtlsClient, toClient>>

Restart ==
  /\ Fault
  /\ dtlsServer' = [pc |-> "start", peer |-> DtlsNone, timeouts |-> 0, got |-> FALSE, holds |-> {},
                    run |-> dtlsServer.run + 1]
  /\ dtlsSecret' = 0
  /\ UNCHANGED <<dtlsClient, toServer, toClient, dtlsIssued>>

ServerStep ==
  \/ ServerSetup \/ NewSsl \/ DtlsOpenSocket \/ Handshake \/ AcceptFails \/ ServerLoop \/ ServerReads
  \/ ServerTimesOut \/ ServerReadFails \/ ServerWrites \/ Cleanup
  \/ \E c \in Addresses : ListenAnswers(c) \/ ListenAccepts(c)

ClientStep(c) ==
  \/ ClientSetup(c) \/ SendHello(c) \/ AnswerCookie(c) \/ ConnectFails(c) \/ ClientWrites(c) \/ ClientLoop(c)
  \/ ClientReads(c) \/ ClientTimesOut(c) \/ ClientReadFails(c)

DtlsNext ==
  \/ ServerStep
  \/ \E c \in DtlsClients : ClientStep(c)
  \/ \E c \in Addresses : Lose(c) \/ Rebind(c)
  \/ Restart

(***************************************************************************)
(* Both programs keep running, and a datagram that is not lost reaches a   *)
(* receiver that keeps calling SSL_read.                                   *)
(***************************************************************************)
DtlsFairness ==
  /\ WF_dtlsVars(ServerStep)
  /\ SF_dtlsVars(ServerReads)
  /\ \A c \in DtlsClients : /\ WF_dtlsVars(ClientStep(c))
                            /\ SF_dtlsVars(ClientReads(c))
                            /\ SF_dtlsVars(ListenAnswers(c))
                            /\ SF_dtlsVars(ListenAccepts(c))

DtlsSpec == DtlsInit /\ [][DtlsNext]_dtlsVars /\ DtlsFairness

-------------------------------------------------------------------------------
DtlsTypeOK ==
  /\ dtlsServer \in [pc : {"start", "top", "listen", "socket", "accept", "loop", "read", "write",
                           "cleanup", "exited"},
                     peer : Addresses \union {DtlsNone}, timeouts : 0 .. DtlsMaxTimeouts,
                     got : BOOLEAN, holds : SUBSET {"ssl", "info", "fd"}, run : 1 .. DtlsMaxFaults + 1]
  /\ dtlsSecret \in 0 .. dtlsServer.run
  /\ \A c \in DtlsClients : dtlsClient[c].pc \in {"start", "connect", "loop", "read", "done", "exited"}

\* connection_handle is entered only for an address that the running server
\* has itself sent a cookie to: a hello that arrives from another address, or
\* with a cookie of an earlier run, starts no connection (verify_cookie).
DtlsPeerProvedAddress ==
  dtlsServer.peer # DtlsNone => Cookie(dtlsSecret, dtlsServer.peer) \in dtlsIssued

\* Whatever step of a connection failed, the cleanup label has released the
\* descriptor, the SSL and the pass_info when the next connection begins.
DtlsNothingHeldBetweenConnections ==
  ServerAt("top") => dtlsServer.holds = {}

\* A server that started always comes back to listening, whatever its client
\* does: the receive timeouts of a connection are counted and never reset.
DtlsServerListensAgain == []<>(ServerAt("listen") \/ ServerAt("exited"))

\* As long as nothing fails every client ends: its shutdown makes the server
\* leave its loop and answer with a shutdown of its own, and a server that
\* gave up earlier sends one too.
DtlsClientsEnd ==
  \A c \in DtlsClients : <>(dtlsClient[c].pc \in {"done", "exited"} \/ dtlsFaults > 0)

\* However connections fail, restart or come from elsewhere: the server's state keeps
\* its bounds, connections are only with proved addresses, and none leaves anything behind.
DtlsInv == DtlsTypeOK /\ DtlsPeerProvedAddress /\ DtlsNothingHeldBetweenConnections

\* The one server loop never hangs on a client, and without faults no client hangs on it.
DtlsProgress == DtlsServerListensAgain /\ DtlsClientsEnd
==============================================================================
