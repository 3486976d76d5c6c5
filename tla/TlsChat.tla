-------------------------------- MODULE TlsChat --------------------------------
(***************************************************************************)
(* The TLS programs sock-tls-tcp and sock-tls-ctx-tcp: a client that sets  *)
(* up OpenSSL, connects, looks at the server's certificate and then sends  *)
(* lines and shows replies, and the server it talks to.                    *)
(*                                                                         *)
(* Every call of the setup can fail, and ASSERT() then ends the client.    *)
(* In this build (without NDEBUG) verify_callback() returns 1 whatever is  *)
(* wrong with the certificate, so the handshake also succeeds with a       *)
(* server that must not be trusted; the result is looked at afterwards.    *)
(* sock-tls-ctx-tcp talks over a nonblocking connection and gives up       *)
(* waiting for a write or a reply after three seconds; its server waits    *)
(* before each reply, and reads once per edge-triggered event.             *)
(***************************************************************************)
EXTENDS Naturals, Sequences

CONSTANTS
  TlsPrograms,  \* a subset of {"tcp", "ctx"}
  TlsMessages   \* bound: lines the user types; the last one is "exit"

VARIABLES
  tlsProg,      \* the program this behaviour is about
  tlsPeer,      \* the server's certificate: [cert, trusted]
  tlsAt,        \* the client: the setup call it is at, "write", "read", "done" or "killed"
  tlsHeld,      \* what the client has allocated
  tlsSent,      \* how many lines the client has tried to send
  tlsShown,     \* the replies the client has shown, in order
  tlsUp,        \* lines on their way to the server
  tlsDown,      \* replies on their way to the client
  tlsServer,    \* the server: "accept", "comm", "reply" or "ended"
  tlsEdge       \* epoll has an event for the server that it has not taken yet

tlsVars == <<tlsProg, tlsPeer, tlsAt, tlsHeld, tlsSent, tlsShown, tlsUp, tlsDown, tlsServer, tlsEdge>>
tlsWire == <<tlsUp, tlsDown, tlsServer, tlsEdge>>

TlsInit ==
  /\ tlsProg \in TlsPrograms
  /\ tlsPeer \in [cert : BOOLEAN, trusted : BOOLEAN]
  /\ tlsAt = "method" /\ tlsHeld = {} /\ tlsSent = 0 /\ tlsShown = <<>>
  /\ tlsUp = <<>> /\ tlsDown = <<>> /\ tlsServer = "accept" /\ tlsEdge = FALSE

-----------------------------------------------------------------------------
(* The calls of main() before the first line is sent, in order *)
ctx_setup ==
  << "method", "ctx", "load_verify", "web", "hostname", "get_ssl", "ciphers", "sni",
     "out", "connect", "peer_certificate", "verify_result" >>

tcp_setup ==
  << "method", "ctx", "load_verify", "web", "hostname", "get_ssl", "ciphers", "sni",
     "out", "connect", "handshake", "peer_certificate", "verify_result" >>

Setup == IF tlsProg = "ctx" THEN ctx_setup ELSE tcp_setup
After(call) ==
  LET i == CHOOSE k \in 1 .. Len(Setup) : Setup[k] = call IN
  IF i = Len(Setup) THEN "write" ELSE Setup[i + 1]

(* What verify_callback() makes of a certificate that did not verify *)
verify_callback(preverify) == TRUE

Succeeds(call) ==
  CASE call \in {"connect", "handshake"} ->
         tlsServer = "comm" /\ verify_callback(tlsPeer.cert /\ tlsPeer.trusted)
    [] call = "peer_certificate" -> tlsPeer.cert
    [] call = "verify_result" -> tlsPeer.trusted
    [] OTHER -> TRUE

InSetup == \E i \in 1 .. Len(Setup) : Setup[i] = tlsAt

SetupCall ==
  /\ InSetup /\ Succeeds(tlsAt)
  /\ tlsAt' = After(tlsAt)
  /\ tlsHeld' = tlsHeld \cup ({tlsAt} \cap {"ctx", "web", "out"})
  /\ UNCHANGED <<tlsProg, tlsPeer, tlsSent, tlsShown, tlsWire>>

-----------------------------------------------------------------------------
Connected == tlsServer \in {"comm", "reply"}

(* ASSERT() or the user ends the process; a waiting server sees the end of the stream *)
ClientKilled ==
  /\ tlsAt \notin {"done", "killed"}
  /\ tlsAt' = "killed" /\ tlsEdge' = (tlsEdge \/ Connected)
  /\ UNCHANGED <<tlsProg, tlsPeer, tlsHeld, tlsSent, tlsShown, tlsUp, tlsDown, tlsServer>>

(* fgets() and the write: the line goes out, or the write times out *)
WriteLine ==
  /\ tlsAt = "write" /\ tlsSent < TlsMessages
  /\ tlsSent' = tlsSent + 1
  /\ \/ tlsUp' = Append(tlsUp, tlsSent + 1) /\ tlsEdge' = TRUE
     \/ tlsProg = "ctx" /\ UNCHANGED <<tlsUp, tlsEdge>>
  /\ tlsAt' = "read"
  /\ UNCHANGED <<tlsProg, tlsPeer, tlsHeld, tlsShown, tlsDown, tlsServer>>

ShowReply ==
  /\ tlsAt = "read" /\ tlsDown # <<>>
  /\ tlsShown' = Append(tlsShown, Head(tlsDown))
  /\ tlsDown' = Tail(tlsDown)
  /\ tlsAt' = "write"
  /\ UNCHANGED <<tlsProg, tlsPeer, tlsHeld, tlsSent, tlsUp, tlsServer, tlsEdge>>

(* Three seconds without a reply *)
ReadTimesOut ==
  /\ tlsProg = "ctx" /\ tlsAt = "read" /\ tlsDown = <<>>
  /\ tlsAt' = "write"
  /\ UNCHANGED <<tlsProg, tlsPeer, tlsHeld, tlsSent, tlsShown, tlsWire>>

(* sock-tls-tcp: the server has closed, BIO_read() returns 0 and the loop ends *)
ClientReturns ==
  /\ tlsProg = "tcp" /\ tlsAt \in {"read", "write"} /\ tlsDown = <<>> /\ ~Connected
  /\ tlsAt' = "done" /\ tlsHeld' = {}
  /\ UNCHANGED <<tlsProg, tlsPeer, tlsSent, tlsShown, tlsWire>>

-----------------------------------------------------------------------------
(* sock-tls-tcp server: one client at a time, until it says "exit" *)
AcceptTls ==
  /\ tlsServer = "accept" /\ tlsAt = "connect"
  /\ tlsServer' \in {"comm", IF tlsProg = "tcp" THEN "ended" ELSE "accept"}
  /\ UNCHANGED <<tlsProg, tlsPeer, tlsAt, tlsHeld, tlsSent, tlsShown, tlsUp, tlsDown, tlsEdge>>

(* SSL_read() returns a line, or nothing when the client is gone *)
comm ==
  /\ tlsProg = "tcp" /\ tlsServer = "comm"
  /\ \/ /\ tlsUp # <<>>
        /\ tlsDown' = Append(tlsDown, Head(tlsUp)) /\ tlsUp' = Tail(tlsUp)
        /\ tlsServer' = IF Head(tlsUp) = TlsMessages THEN "accept" ELSE "comm"
     \/ tlsUp = <<>> /\ tlsAt = "killed" /\ UNCHANGED <<tlsDown, tlsUp, tlsServer>>
  /\ UNCHANGED <<tlsProg, tlsPeer, tlsAt, tlsHeld, tlsSent, tlsShown, tlsEdge>>

(* sock-tls-ctx-tcp server: one read per event, then sleep(WAIT), then the reply *)
handle_client_reads ==
  /\ tlsProg = "ctx" /\ tlsServer = "comm" /\ tlsEdge
  /\ tlsEdge' = FALSE /\ tlsServer' = "reply"
  /\ UNCHANGED <<tlsProg, tlsPeer, tlsAt, tlsHeld, tlsSent, tlsShown, tlsUp, tlsDown>>

(* Writing to a client that is gone may raise SIGPIPE, which ends the server *)
Survives(next) == tlsServer' \in IF tlsAt = "killed" THEN {next, "ended"} ELSE {next}

handle_client_replies_Twice ==
  /\ tlsProg = "ctx" /\ tlsServer = "reply"
  /\ IF tlsUp # <<>>
     THEN tlsDown' = Append(tlsDown, Head(tlsUp)) /\ UNCHANGED tlsUp /\ Survives("comm")
     ELSE Survives("accept") /\ UNCHANGED <<tlsUp, tlsDown>>
  /\ UNCHANGED <<tlsProg, tlsPeer, tlsAt, tlsHeld, tlsSent, tlsShown, tlsEdge>>

handle_client_replies ==
  /\ tlsProg = "ctx" /\ tlsServer = "reply"
  /\ IF tlsUp # <<>>
     THEN tlsDown' = Append(tlsDown, Head(tlsUp)) /\ tlsUp' = Tail(tlsUp) /\ Survives("comm")
     ELSE Survives("accept") /\ UNCHANGED <<tlsUp, tlsDown>>
  /\ UNCHANGED <<tlsProg, tlsPeer, tlsAt, tlsHeld, tlsSent, tlsShown, tlsEdge>>

TlsClient == SetupCall \/ WriteLine \/ ShowReply \/ ReadTimesOut \/ ClientReturns
TlsServerStep == AcceptTls \/ comm \/ handle_client_reads \/ handle_client_replies

TlsNext == TlsClient \/ ClientKilled \/ TlsServerStep

TlsSpec == TlsInit /\ [][TlsNext]_tlsVars

-----------------------------------------------------------------------------
(***************************************************************************)
(* Nothing the user types is sent before the server has shown a certificate *)
(* that verified, although the handshake goes through without one.          *)
(***************************************************************************)
TlsOnlyToVerifiedPeer == tlsSent > 0 => tlsPeer.cert /\ tlsPeer.trusted

(***************************************************************************)
(* The replies the client shows answer lines it has sent, each at most      *)
(* once and in order, although a reply that comes after its timeout is      *)
(* shown as the answer to a later line.                                     *)
(***************************************************************************)
TlsRepliesInOrder ==
  /\ \A i \in 1 .. Len(tlsShown) : tlsShown[i] <= tlsSent
  /\ \A i \in 1 .. Len(tlsShown) - 1 : tlsShown[i] < tlsShown[i + 1]

(* The client that returns has freed the context, the connection and the output. *)
TlsClientReleases == tlsAt = "done" => tlsHeld = {}

(* Whatever call of the client fails, whoever answers and however the replies are
   delayed: lines go to a verified server only, no reply is shown twice or out of
   order, and the client leaves nothing allocated. *)
TlsChatInv == TlsOnlyToVerifiedPeer /\ TlsRepliesInOrder /\ TlsClientReleases
==============================================================================
