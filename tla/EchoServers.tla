------------------------------ MODULE EchoServers ------------------------------
(***************************************************************************)
(* The four echo servers that serve many clients from one loop:            *)
(* sock-select-tcp, sock-poll-tcp, sock-epoll-tcp, and one worker thread   *)
(* of sock-thread-ctx-tcp.  Clients connect, send, leave (close) or are    *)
(* reset at any time; the server waits for events, then goes through them  *)
(* while clients go on.  Writing to a reset connection raises SIGPIPE,     *)
(* which none of the servers ignores.                                      *)
(***************************************************************************)
EXTENDS Integers, FiniteSets

CONSTANTS
  EsPrograms,   \* a subset of {"select", "poll", "epoll", "thread"}
  EsClients,    \* connections, numbered from 1
  EsMessages,   \* bound: messages per client
  EsMaxConn,    \* MAX_CONN, MAX_CLIENTS: slots of the select and poll servers
  EsMaxEvents   \* MAX_CONN: events per epoll_wait()

ASSUME EsAssumption ==
  /\ EsPrograms \subseteq {"select", "poll", "epoll", "thread"}
  /\ EsClients \subseteq Nat \ {0} /\ IsFiniteSet(EsClients)
  /\ EsMessages \in Nat /\ {EsMaxConn, EsMaxEvents} \subseteq Nat \ {0}

VARIABLES
  esProg,
  esConn,       \* connection -> its state, see NewConn
  esFd,         \* descriptor -> the connection it refers to, Free or Stdin
  esListen,     \* epoll has an event for the listening socket
  esTable,      \* slot -> [fd, events, ready]: client_socket[], pollfds[]
  esEvents,     \* index -> [fd, kind]: CLIENT_SOCKET[], the last events epoll_wait() returned
  esN,          \* how many of them are new
  esPc,         \* "wait", "accept", "serve" or "exited"
  esAt          \* the loop index i

esVars == <<esProg, esConn, esFd, esListen, esTable, esEvents, esN, esPc, esAt>>
esLoop == <<esPc, esAt>>

Free == 0
Stdin == -1
Listening == -1     \* the listening socket, in esEvents
Fds == 0 .. Cardinality(EsClients)
Slots == 0 .. EsMaxConn - 1
EventIndex == 0 .. EsMaxEvents - 1
UsesEpoll == esProg \in {"epoll", "thread"}

NewConn ==
  [ st |-> "new",      \* then "queued", "open", and "closed" or "forgotten" by the server
    unread |-> 0, sent |-> 0, got |-> 0,
    eof |-> FALSE,     \* the client has closed
    hup |-> FALSE,     \* the connection was reset
    edge |-> FALSE ]   \* epoll has an event for it

EsInit ==
  /\ esProg \in EsPrograms
  /\ esConn = [c \in EsClients |-> NewConn]
  /\ esFd = [fd \in Fds |-> IF fd = 0 THEN Stdin ELSE Free]
  /\ esListen = FALSE
  /\ esTable = [s \in Slots |-> [fd |-> 0, events |-> TRUE, ready |-> FALSE]]
  /\ esEvents = [s \in EventIndex |-> [fd |-> 0, kind |-> "none"]]
  /\ esN = 0 /\ esPc = "wait" /\ esAt = 0

-----------------------------------------------------------------------------
(* The clients, numbered in the order in which they connect *)
Connect(c) ==
  /\ esConn[c].st = "new" /\ \A k \in EsClients : k < c => esConn[k].st # "new"
  /\ esConn' = [esConn EXCEPT ![c].st = "queued"] /\ esListen' = UsesEpoll

(* sock-epoll-tcp/client.c waits for the reply; the timed clients may give up on it *)
Send(c) ==
  /\ esConn[c].st \in {"queued", "open", "forgotten"} /\ ~esConn[c].eof
  /\ esConn[c].sent < EsMessages /\ (esProg = "epoll" => esConn[c].got >= esConn[c].sent)
  /\ esConn' = [esConn EXCEPT ![c].sent = @ + 1, ![c].unread = @ + 1, ![c].edge = UsesEpoll]
  /\ UNCHANGED esListen

Leave(c) ==
  /\ esConn[c].st \in {"queued", "open", "forgotten"} /\ ~esConn[c].eof
  /\ \E reset \in BOOLEAN : esConn' = [esConn EXCEPT ![c].eof = TRUE, ![c].hup = reset, ![c].edge = UsesEpoll]
  /\ UNCHANGED esListen

ClientMoves ==
  /\ \E c \in EsClients : Connect(c) \/ Send(c) \/ Leave(c)
  /\ UNCHANGED <<esProg, esFd, esTable, esEvents, esN, esLoop>>

-----------------------------------------------------------------------------
(* What read() returns, and the write that follows it *)
Queued == {c \in EsClients : esConn[c].st = "queued"}
Result(c) ==
  CASE esConn[c].hup -> "error"
    [] ~esConn[c].hup /\ esConn[c].unread > 0 -> "data"
    [] ~esConn[c].hup /\ esConn[c].unread = 0 -> IF esConn[c].eof THEN "end" ELSE "again"

(* A write to a client that has closed makes it reset the connection *)
Answered(c) ==
  \E reset \in (IF esConn[c].eof THEN BOOLEAN ELSE {FALSE}) :
    esConn' = [esConn EXCEPT ![c].unread = IF @ = 0 THEN 0 ELSE @ - 1, ![c].got = @ + 1, ![c].hup = reset]

(* What a closed connection still held does not matter any more *)
Closed(c) == [NewConn EXCEPT !.st = "closed", !.eof = esConn[c].eof]
LowestFree == CHOOSE fd \in Fds : esFd[fd] = Free /\ \A k \in Fds : esFd[k] = Free => fd <= k
Goto(pc, i) == esPc' = pc /\ esAt' = i
Exits == Goto("exited", 0) /\ UNCHANGED <<esConn, esFd, esTable>>

-----------------------------------------------------------------------------
(* select() and poll(): what is ready is recorded slot by slot *)
Readable(fd) == esFd[fd] > 0 /\ (esConn[esFd[fd]].unread > 0 \/ esConn[esFd[fd]].eof)
HasInput(s) == esTable[s].fd # 0 /\ esTable[s].events /\ Readable(esTable[s].fd)

TableWait ==
  /\ ~UsesEpoll /\ esPc = "wait"
  /\ Queued # {} \/ \E s \in Slots : HasInput(s)
  /\ esTable' = [s \in Slots |-> [esTable[s] EXCEPT !.ready = HasInput(s)]]
  /\ IF Queued # {} THEN Goto("accept", 0) ELSE Goto("serve", 0)
  /\ UNCHANGED <<esProg, esConn, esFd, esListen, esEvents, esN>>

FreeSlots == {s \in Slots : esTable[s].fd = 0}
Keep(c, fd) ==
  /\ esConn' = [esConn EXCEPT ![c].st = "open"] /\ esFd' = [esFd EXCEPT ![fd] = c]
  /\ esTable' = [esTable EXCEPT ![CHOOSE s \in FreeSlots : \A k \in FreeSlots : s <= k].fd = fd]
  /\ Goto("serve", 0)

(* close() returns 0, and the branch taken is the one that ends the server *)
select_accept ==
  /\ esProg = "select" /\ esPc = "accept"
  /\ \E c \in Queued : IF FreeSlots # {} THEN Keep(c, LowestFree) ELSE Exits
  /\ UNCHANGED <<esProg, esListen, esEvents, esN>>

(* Without a free slot the connection stays open and nobody looks at it again *)
poll_accept ==
  /\ esProg = "poll" /\ esPc = "accept"
  /\ \E c \in Queued :
       IF FreeSlots # {} THEN Keep(c, LowestFree)
       ELSE /\ esConn' = [esConn EXCEPT ![c].st = "open"] /\ esFd' = [esFd EXCEPT ![LowestFree] = c]
            /\ UNCHANGED esTable /\ Goto("serve", 0)
  /\ UNCHANGED <<esProg, esListen, esEvents, esN>>

NextSlot == IF esAt + 1 = EsMaxConn THEN Goto("wait", 0) ELSE Goto("serve", esAt + 1)
SkipSlot == NextSlot /\ UNCHANGED <<esConn, esFd, esTable>>

(* comm(): an error is answered like data, and the write to a reset connection ends the server *)
select_comm(c) ==
  CASE Result(c) = "error" -> Exits
    [] Result(c) = "end" -> /\ esConn' = [esConn EXCEPT ![c] = Closed(c)]
                            /\ esFd' = [esFd EXCEPT ![esTable[esAt].fd] = Free]
                            /\ esTable' = [esTable EXCEPT ![esAt].fd = 0] /\ NextSlot
    [] OTHER -> Answered(c) /\ NextSlot /\ UNCHANGED <<esFd, esTable>>

(* The slot is given up, its events are cleared and never set again; nothing is closed *)
poll_serve(c) ==
  IF Result(c) = "data"
  THEN Answered(c) /\ NextSlot /\ UNCHANGED <<esFd, esTable>>
  ELSE /\ esConn' = [esConn EXCEPT ![c].st = "forgotten"]
       /\ esTable' = [esTable EXCEPT ![esAt] = [fd |-> 0, events |-> FALSE, ready |-> FALSE]]
       /\ UNCHANGED esFd /\ NextSlot

ServeSlot ==
  /\ ~UsesEpoll /\ esPc = "serve"
  /\ IF ~(esTable[esAt].fd # 0 /\ esTable[esAt].ready) THEN SkipSlot
     ELSE IF esProg = "select" THEN select_comm(esFd[esTable[esAt].fd])
                               ELSE poll_serve(esFd[esTable[esAt].fd])
  /\ UNCHANGED <<esProg, esListen, esEvents, esN>>

-----------------------------------------------------------------------------
(* epoll: edge-triggered, in any order, at most MAX_CONN at a time *)
EdgeFds == {fd \in Fds : esFd[fd] > 0 /\ esConn[esFd[fd]].edge} \cup (IF esListen THEN {Listening} ELSE {})

(* epoll_wait() leaves the rest of the array alone; only the worker threads look at it *)
OldEvent(s) == IF esProg = "thread" THEN esEvents[s] ELSE [fd |-> 0, kind |-> "none"]

Orders(fds) ==
  {f \in [1 .. Cardinality(fds) -> fds] : \A i, j \in 1 .. Cardinality(fds) : f[i] = f[j] => i = j}

epoll_wait ==
  /\ UsesEpoll /\ esPc = "wait" /\ EdgeFds # {}
  /\ \E got \in SUBSET EdgeFds :
       /\ Cardinality(got) = IF Cardinality(EdgeFds) > EsMaxEvents THEN EsMaxEvents ELSE Cardinality(EdgeFds)
       /\ \E order \in Orders(got) :
            esEvents' = [s \in EventIndex |->
              IF s >= Cardinality(got) THEN OldEvent(s)
              ELSE [ fd |-> order[s + 1],
                     kind |-> IF order[s + 1] # Listening /\ esConn[esFd[order[s + 1]]].hup THEN "hup" ELSE "in" ]]
       /\ esN' = Cardinality(got)
       /\ esListen' = (esListen /\ Listening \notin got)
       /\ esConn' = [c \in EsClients |->
            IF \E fd \in got \ {Listening} : esFd[fd] = c THEN [esConn[c] EXCEPT !.edge = FALSE] ELSE esConn[c]]
  /\ Goto("serve", 0)
  /\ UNCHANGED <<esProg, esFd, esTable>>

(* How far the loop over the events goes *)
LastEvent_All == EsMaxEvents
LastEvent == IF esProg = "epoll" THEN esN ELSE EsMaxEvents

NextEvent == IF esAt + 1 >= LastEvent THEN Goto("wait", 0) ELSE Goto("serve", esAt + 1)

(* accept() until it would block *)
handle_conn_Once ==
  /\ \E c \in Queued : /\ esConn' = [esConn EXCEPT ![c].st = "open"]
                       /\ esFd' = [esFd EXCEPT ![LowestFree] = c]
  /\ NextEvent

handle_conn ==
  IF Queued = {} THEN NextEvent /\ UNCHANGED <<esConn, esFd>>
  ELSE /\ \E c \in Queued : /\ esConn' = [esConn EXCEPT ![c].st = "open"]
                            /\ esFd' = [esFd EXCEPT ![LowestFree] = c]
       /\ UNCHANGED esLoop

(* One read for each event; without data the connection is closed *)
handle_client(fd) ==
  LET c == esFd[fd] IN
  IF c <= 0 THEN /\ esFd' = [esFd EXCEPT ![fd] = Free] /\ NextEvent /\ UNCHANGED esConn
  ELSE CASE Result(c) = "data" -> Answered(c) /\ NextEvent /\ UNCHANGED esFd
         [] Result(c) = "error" -> Goto("exited", 0) /\ UNCHANGED <<esConn, esFd>>
         [] OTHER -> esConn' = [esConn EXCEPT ![c] = Closed(c)] /\ esFd' = [esFd EXCEPT ![fd] = Free] /\ NextEvent

close_fd(fd) ==
  /\ esFd' = [esFd EXCEPT ![fd] = Free]
  /\ esConn' = [c \in EsClients |-> IF c = esFd[fd] THEN Closed(c) ELSE esConn[c]]
  /\ NextEvent

(* The worker threads have copies of their own, which differ in what they log *)
thandle_conn == handle_conn
thandle_client(fd) == handle_client(fd)

EventStep ==
  /\ UsesEpoll /\ esPc = "serve"
  /\ LET e == esEvents[esAt] IN
     CASE e.kind # "in" -> close_fd(e.fd)
       [] e.kind = "in" /\ e.fd = Listening ->
            IF esProg = "thread" THEN thandle_conn ELSE handle_conn
       [] e.kind = "in" /\ e.fd # Listening ->
            IF esProg = "thread" THEN thandle_client(e.fd) ELSE handle_client(e.fd)
  /\ UNCHANGED <<esProg, esListen, esTable, esEvents, esN>>

EsServer == TableWait \/ select_accept \/ poll_accept \/ ServeSlot \/ epoll_wait \/ EventStep

EsNext == ClientMoves \/ EsServer

EsFairness == WF_esVars(EsServer)
EsSpec == EsInit /\ [][EsNext]_esVars /\ EsFairness

-----------------------------------------------------------------------------
(***************************************************************************)
(* The select, poll and epoll servers give a connection up only after its  *)
(* client has left it.  (A worker of sock-thread-ctx-tcp goes through all  *)
(* MAX_CONN entries, also the old ones, and closes connections in use.)    *)
(***************************************************************************)
EsServedUntilLeft ==
  esProg # "thread" => \A c \in EsClients : esConn[c].st \in {"closed", "forgotten"} => esConn[c].eof

(***************************************************************************)
(* sock-select-tcp: every connection that is open has exactly one slot of  *)
(* client_socket[], and a slot in use refers to an open connection.        *)
(***************************************************************************)
EsSlotPerConnection ==
  (esProg = "select" /\ esPc # "exited") =>
    /\ \A c \in EsClients : esConn[c].st = "open" =>
         Cardinality({s \in Slots : esTable[s].fd # 0 /\ esFd[esTable[s].fd] = c}) = 1
    /\ \A s \in Slots : esTable[s].fd # 0 => esFd[esTable[s].fd] > 0

(***************************************************************************)
(* Each connection that arrives is accepted, unless the server has ended:  *)
(* the edge-triggered servers accept until nothing is left.                *)
(***************************************************************************)
EsAccepted == \A c \in EsClients : (esConn[c].st = "queued") ~> (esConn[c].st # "queued" \/ esPc = "exited")

(* Somebody looks at the connection: it has a slot whose events were not cleared, or epoll has it *)
Watched(c) ==
  \/ esProg = "epoll" /\ esConn[c].st = "open"
  \/ esProg \in {"select", "poll"}
     /\ \E s \in Slots : esTable[s].fd # 0 /\ esTable[s].events /\ esFd[esTable[s].fd] = c

(***************************************************************************)
(* Every message of a connection that the server watches is answered, or   *)
(* its client leaves first.  (sock-poll-tcp does not watch a connection    *)
(* that gets a slot somebody has used before.)                             *)
(***************************************************************************)
EsEchoed ==
  \A c \in EsClients : \A m \in 1 .. EsMessages :
    (esConn[c].sent >= m /\ Watched(c)) ~> (esConn[c].got >= m \/ esConn[c].eof \/ esPc = "exited")

(* However clients come, leave and are reset while the server goes through old events:
   it gives up no connection of its own accord, and its slots are its connections. *)
EsInv == EsServedUntilLeft /\ EsSlotPerConnection

(* Every client in the backlog is accepted, and every message on a watched connection
   comes back, until the server ends. *)
EsProgress == EsAccepted /\ EsEchoed
==============================================================================
