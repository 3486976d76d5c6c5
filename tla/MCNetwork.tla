------------------------------- MODULE MCNetwork -------------------------------
(***************************************************************************)
(* The network programs for TLC.  They are independent of each other: a    *)
(* behaviour picks one of them and runs it, while the variables of the     *)
(* others stay as they are.                                                *)
(***************************************************************************)
EXTENDS XskForward, DtlsEcho, TlsChat, TlsSessions, EchoServers, TimedClients,
        PacketRings, HttpServers, NcatThreads, WebSockets, XdpPrograms

VARIABLE program
networkVars == <<program, vars, dtlsVars, tlsVars, tsVars, esVars, tcVars, prVars, htVars, ncVars, wsVars, xdVars>>

MCPorts == 0 .. (NPorts - 1)
Programs == {"xsk", "dtls", "tls", "sessions", "echo", "timed", "rings", "http", "ncat", "websocket", "xdp"}

(* A program that is not picked has one initial state; the DTLS client and server are
   over, since something is said of how they go on from their start *)
DtlsAway ==
  /\ dtlsServer = [pc |-> "exited", peer |-> DtlsNone, timeouts |-> 0, got |-> FALSE, holds |-> {}, run |-> 1]
  /\ dtlsClient = [c \in Addresses |-> [pc |-> "done", left |-> 0, cookie |-> DtlsNone, got |-> FALSE]]
  /\ dtlsSecret = 0 /\ dtlsIssued = {} /\ dtlsFaults = 0
  /\ toServer = [c \in Addresses |-> <<>>] /\ toClient = [c \in Addresses |-> <<>>]

XdAway ==
  /\ xdProg = "block" /\ xdFib = [a \in XdAddresses |-> "fail"] /\ xdBound = TRUE /\ xdRefcnt = 1
  /\ xdPkt = <<>> /\ xdOut = <<>> /\ xdMaps = <<>> /\ xdStored = <<>>
  /\ xdLoader = [pc |-> "start", sid |-> 0, fd |-> 0, cut |-> FALSE]

NetworkInit ==
  /\ program \in Programs
  /\ Init /\ TsInit /\ PrInit /\ NcInit
  /\ IF program = "dtls" THEN DtlsInit ELSE DtlsAway
  /\ TlsInit /\ (program # "tls" => tlsProg = "tcp" /\ tlsPeer.cert /\ tlsPeer.trusted)
  /\ EsInit /\ (program # "echo" => esProg = "poll")
  /\ TcInit /\ (program # "timed" => tcProg = "poll")
  /\ HtInit /\ (program # "http" => htProg = "fork")
  /\ WsInit /\ (program # "websocket" => wsProg = "server")
  /\ IF program = "xdp" THEN XdInit ELSE XdAway

Picked(p, step, others) == program = p /\ step /\ UNCHANGED <<program, others>>

NetworkNext ==
  \/ Picked("xsk", Next, <<dtlsVars, tlsVars, tsVars, esVars, tcVars, prVars, htVars, ncVars, wsVars, xdVars>>)
  \/ Picked("dtls", DtlsNext, <<vars, tlsVars, tsVars, esVars, tcVars, prVars, htVars, ncVars, wsVars, xdVars>>)
  \/ Picked("tls", TlsNext, <<vars, dtlsVars, tsVars, esVars, tcVars, prVars, htVars, ncVars, wsVars, xdVars>>)
  \/ Picked("sessions", TsNext, <<vars, dtlsVars, tlsVars, esVars, tcVars, prVars, htVars, ncVars, wsVars, xdVars>>)
  \/ Picked("echo", EsNext, <<vars, dtlsVars, tlsVars, tsVars, tcVars, prVars, htVars, ncVars, wsVars, xdVars>>)
  \/ Picked("timed", TcNext, <<vars, dtlsVars, tlsVars, tsVars, esVars, prVars, htVars, ncVars, wsVars, xdVars>>)
  \/ Picked("rings", PrNext, <<vars, dtlsVars, tlsVars, tsVars, esVars, tcVars, htVars, ncVars, wsVars, xdVars>>)
  \/ Picked("http", HtNext, <<vars, dtlsVars, tlsVars, tsVars, esVars, tcVars, prVars, ncVars, wsVars, xdVars>>)
  \/ Picked("ncat", NcNext, <<vars, dtlsVars, tlsVars, tsVars, esVars, tcVars, prVars, htVars, wsVars, xdVars>>)
  \/ Picked("websocket", WsNext, <<vars, dtlsVars, tlsVars, tsVars, esVars, tcVars, prVars, htVars, ncVars, xdVars>>)
  \/ Picked("xdp", XdNext, <<vars, dtlsVars, tlsVars, tsVars, esVars, tcVars, prVars, htVars, ncVars, wsVars>>)
  \* every program but the XDP forwarder may come to an end
  \/ program # "xsk" /\ UNCHANGED networkVars

(* The fairness of each component, for the program that is picked *)
XskFairness ==
  /\ \A t \in Threads : WF_vars(program = "xsk" /\ Thread(t))
  /\ \A p \in Caches : WF_vars(program = "xsk" /\ Transmit(p))
DtlsPickedFairness ==
  /\ WF_dtlsVars(program = "dtls" /\ ServerStep) /\ SF_dtlsVars(program = "dtls" /\ ServerReads)
  /\ \A c \in DtlsClients : /\ WF_dtlsVars(program = "dtls" /\ ClientStep(c))
                            /\ SF_dtlsVars(program = "dtls" /\ ClientReads(c))
                            /\ SF_dtlsVars(program = "dtls" /\ ListenAnswers(c))
                            /\ SF_dtlsVars(program = "dtls" /\ ListenAccepts(c))
TcpFairness ==
  /\ WF_esVars(program = "echo" /\ EsServer)
  /\ WF_tcVars(program = "timed" /\ TcMayReturn)
  /\ WF_ncVars(program = "ncat" /\ NCAT_client /\ ~NcFgets)
  /\ WF_ncVars(program = "ncat" /\ NCAT_get_thread)
  /\ WF_ncVars(program = "ncat" /\ NCAT_listen_and_serve)
RingFairness ==
  /\ WF_prVars(program = "rings" /\ PrClient) /\ WF_prVars(program = "rings" /\ TxComplete)
  /\ WF_prVars(program = "rings" /\ PrServer)
HttpFairness ==
  /\ WF_htVars(program = "http" /\ serve_forever)
  /\ \A c \in Conns : WF_htVars(program = "http" /\ Child(c))
  /\ WF_htVars(program = "http" /\ Kernel) /\ WF_htVars(program = "http" /\ server_loop)

NetworkSpec ==
  /\ NetworkInit /\ [][NetworkNext]_networkVars
  /\ XskFairness /\ DtlsPickedFairness /\ TcpFairness /\ RingFairness /\ HttpFairness
==============================================================================
