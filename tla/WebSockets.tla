------------------------------- MODULE WebSockets -------------------------------
(***************************************************************************)
(* The WebSocket client and the WebSocket server.  Both are callbacks of   *)
(* the civetweb library (external): the client's handlers run in a thread  *)
(* of the library beside run_websocket_client(), the server's in one       *)
(* thread per connection.  A frame is its opcode; a text frame stored by   *)
(* the client is its place in the order of arrival.                        *)
(***************************************************************************)
EXTENDS Integers, Sequences, FiniteSets

CONSTANTS
  WsPrograms,    \* a subset of {"client", "server"}
  WsFrames,      \* frames the peer sends
  WsPings,       \* rounds of the client's ping loop (5)
  WsBottles,     \* rounds of the client's song (99)
  WsThreads,     \* the server's connection threads (num_threads)
  WsConnects     \* connections made to the server

VARIABLES
  wsProg,
  wsMain,        \* run_websocket_client(): [pc, i], i counts the rounds of a loop
  wsLink,        \* the client's connection: "none", "open", "ended" (the thread has left) or "joined"
  wsIn,          \* frames the client's thread has yet to handle
  wsSent,        \* frames the peer has sent
  wsTexts,       \* text frames that have arrived
  wsMsgs,        \* the list pclient_data->msgs, from its head
  wsMem,         \* element of the list -> how often it was freed
  wsWalk,        \* the last loop: [at, p1, p2, n], at is the element that holds *where, 0 the head
  wsShown,       \* what was printed again
  wsConn,        \* server thread -> [pc, ctx, number]
  wsCounter      \* connectionCounter

wsClient == <<wsMain, wsLink, wsIn, wsSent, wsTexts, wsMsgs, wsMem, wsWalk, wsShown>>
wsServer == <<wsConn, wsCounter>>
wsVars == <<wsProg, wsClient, wsServer>>

WsInit ==
  /\ wsProg \in WsPrograms
  /\ wsMain = [pc |-> "connect", i |-> 0] /\ wsLink = "none" /\ wsIn = <<>> /\ wsSent = 0
  /\ wsTexts = 0 /\ wsMsgs = <<>> /\ wsMem = <<>>
  /\ wsWalk = [at |-> 0, p1 |-> 0, p2 |-> 0, n |-> 0] /\ wsShown = <<>>
  /\ wsConn = [t \in WsThreads |-> [pc |-> "idle", ctx |-> "none", number |-> 0]] /\ wsCounter = 0

-----------------------------------------------------------------------------
(* The client's callbacks *)
(* the new element goes behind the last one *)
StoreText == wsMsgs' = Append(wsMsgs, wsTexts + 1)

(* a ping is answered with a pong, which changes nothing here; a close frame returns 0,
   and the thread leaves *)
websocket_client_data_handler ==
  /\ wsLink = "open" /\ wsIn # <<>> /\ wsIn' = Tail(wsIn)
  /\ LET opcode == Head(wsIn) IN
     /\ IF opcode = "text" THEN wsTexts' = wsTexts + 1 /\ StoreText /\ wsMem' = Append(wsMem, 0)
                           ELSE UNCHANGED <<wsTexts, wsMsgs, wsMem>>
     /\ IF opcode = "close" THEN wsLink' = "ended" ELSE UNCHANGED wsLink
  /\ UNCHANGED <<wsMain, wsSent, wsWalk, wsShown>>

(* the connection breaks; the thread leaves after the close handler *)
websocket_client_close_handler ==
  /\ wsLink = "open" /\ wsLink' = "ended"
  /\ UNCHANGED <<wsMain, wsIn, wsSent, wsTexts, wsMsgs, wsMem, wsWalk, wsShown>>

(* external: the peer *)
PeerFrame ==
  /\ wsLink = "open" /\ wsSent < WsFrames /\ wsSent' = wsSent + 1
  /\ \E opcode \in {"text", "binary", "ping", "pong", "close"} : wsIn' = Append(wsIn, opcode)
  /\ UNCHANGED <<wsMain, wsLink, wsTexts, wsMsgs, wsMem, wsWalk, wsShown>>

-----------------------------------------------------------------------------
(* run_websocket_client(); what it writes changes nothing at the client, and a write
   to a connection that has ended fails unnoticed *)
MainTo(pc, i) == wsMain' = [pc |-> pc, i |-> i]
Unlisted == UNCHANGED <<wsMsgs, wsMem, wsTexts, wsIn, wsSent>>

WsConnect ==
  /\ wsMain.pc = "connect"
  /\ \/ wsLink' = "open" /\ MainTo("greet", 0)
     \/ wsLink' = "none" /\ MainTo("failed", 0)
  /\ Unlisted /\ UNCHANGED <<wsWalk, wsShown>>

Talk ==
  /\ \/ wsMain.pc = "greet" /\ MainTo("ping", 0)
     \/ wsMain.pc = "ping" /\ IF wsMain.i < WsPings THEN MainTo("ping", wsMain.i + 1) ELSE MainTo("again", 0)
     \/ wsMain.pc = "again" /\ MainTo("song", WsBottles)
     \/ wsMain.pc = "song" /\ IF wsMain.i > 0 THEN MainTo("song", wsMain.i - 1) ELSE MainTo("leave", 0)
     \/ wsMain.pc = "leave" /\ MainTo("close", 0)
  /\ Unlisted /\ UNCHANGED <<wsLink, wsWalk, wsShown>>

(* mg_close_connection(): stops the thread, and waits for it *)
mg_close_connection ==
  /\ wsMain.pc = "close" /\ wsLink' = "joined" /\ MainTo("print", 0)
  /\ Unlisted /\ UNCHANGED <<wsWalk, wsShown>>

PrintAll ==
  /\ wsMain.pc = "print" /\ MainTo("free", 0) /\ wsShown' = wsMsgs
  /\ Unlisted /\ UNCHANGED <<wsLink, wsWalk>>

(* free(NULL) does nothing *)
FreeElem(p) == IF p = 0 THEN wsMem ELSE [wsMem EXCEPT ![p] = @ + 1]

FreeStep_NoLag ==
  /\ wsMain.pc = "free" /\ wsWalk.n < Len(wsMsgs)
  /\ LET p == wsMsgs[wsWalk.n + 1] IN
     wsMem' = FreeElem(p) /\ wsWalk' = [at |-> p, p1 |-> 0, p2 |-> 0, n |-> wsWalk.n + 1]
  /\ UNCHANGED <<wsMain, wsLink, wsMsgs, wsTexts, wsIn, wsSent, wsShown>>

(* one round of the last loop: where points into the element before, so that element
   is freed two rounds later *)
FreeStep ==
  /\ wsMain.pc = "free" /\ wsWalk.n < Len(wsMsgs)
  /\ LET p == wsMsgs[wsWalk.n + 1] IN
     wsMem' = FreeElem(wsWalk.p2) /\ wsWalk' = [at |-> p, p1 |-> p, p2 |-> wsWalk.p1, n |-> wsWalk.n + 1]
  /\ UNCHANGED <<wsMain, wsLink, wsMsgs, wsTexts, wsIn, wsSent, wsShown>>

(* free(p2), free(p1) and pclient_data itself *)
FreeRest ==
  /\ wsMain.pc = "free" /\ wsWalk.n = Len(wsMsgs) /\ MainTo("done", 0)
  /\ wsMem' = [e \in DOMAIN wsMem |-> wsMem[e] + Cardinality({k \in {1, 2} : <<wsWalk.p1, wsWalk.p2>>[k] = e})]
  /\ UNCHANGED <<wsLink, wsWalk, wsMsgs, wsTexts, wsIn, wsSent, wsShown>>

run_websocket_client ==
  WsConnect \/ Talk \/ mg_close_connection \/ PrintAll \/ FreeStep \/ FreeRest

-----------------------------------------------------------------------------
(* The server's callbacks, in the order in which the library makes them *)
(* calloc() may fail, and the client is rejected; the number is drawn atomically *)
ws_connect_handler(t) ==
  /\ wsConn[t].pc = "idle" /\ wsCounter < WsConnects
  /\ \/ UNCHANGED <<wsConn, wsCounter>>
     \/ /\ wsCounter' = wsCounter + 1
        /\ wsConn' = [wsConn EXCEPT ![t] = [pc |-> "connected", ctx |-> "live", number |-> wsCounter + 1]]

ws_ready_handler(t) ==
  wsConn[t].pc = "connected" /\ wsConn' = [wsConn EXCEPT ![t].pc = "ready"] /\ UNCHANGED wsCounter

(* any frame is printed with the number of its client and keeps the connection open *)
ws_data_handler(t) == wsConn[t].pc = "ready" /\ UNCHANGED wsServer

(* the context is freed; the library uses the connection again *)
ws_close_handler(t) ==
  /\ wsConn[t].pc \in {"connected", "ready"}
  /\ wsConn' = [wsConn EXCEPT ![t] = [pc |-> "idle", ctx |-> "freed", number |-> 0]]
  /\ UNCHANGED wsCounter

WsServerNext ==
  \E t \in WsThreads :
    ws_connect_handler(t) \/ ws_ready_handler(t) \/ ws_data_handler(t) \/ ws_close_handler(t)

-----------------------------------------------------------------------------
WsThread == wsProg = "client" /\ websocket_client_data_handler /\ UNCHANGED <<wsProg, wsServer>>
WsMain == wsProg = "client" /\ run_websocket_client /\ UNCHANGED <<wsProg, wsServer>>
WsPeer == wsProg = "client" /\ (websocket_client_close_handler \/ PeerFrame) /\ UNCHANGED <<wsProg, wsServer>>
WsNext ==
  \/ WsThread \/ WsMain \/ WsPeer
  \/ wsProg = "server" /\ WsServerNext /\ UNCHANGED <<wsProg, wsClient>>

WsSpec == WsInit /\ [][WsNext]_wsVars

-----------------------------------------------------------------------------
(* The last loop of run_websocket_client() walks the list while it frees it: the
   element that holds the next pointer is still there, none is freed twice, and at
   the end none is left. *)
WsListFreedOnce ==
  /\ \A e \in DOMAIN wsMem : wsMem[e] <= 1
  /\ wsMain.pc = "free" /\ wsWalk.at # 0 => wsMem[wsWalk.at] = 0
  /\ wsMain.pc = "done" => \A e \in DOMAIN wsMem : wsMem[e] = 1

(* What is printed at the end are the text messages in the order of their arrival,
   all of them: no handler stores one while or after the list is printed. *)
WsPrintsAllTexts ==
  wsMain.pc \in {"free", "done"} => wsShown = [k \in 1 .. wsTexts |-> k]

(* Connections that are open at the same time have different numbers, and a closed
   connection holds no context, however connects and closes interleave. *)
WsContextsOwn ==
  /\ \A t, u \in WsThreads : t # u /\ wsConn[t].ctx = "live" /\ wsConn[u].ctx = "live"
                             => wsConn[t].number # wsConn[u].number
  /\ \A t \in WsThreads : wsConn[t].ctx = "live" <=> wsConn[t].pc # "idle"

(* The library's thread and the client's main function share the list of messages, the
   server's threads the counter: nothing is freed twice or early, every text is printed
   once, and every live connection has a context and a number of its own. *)
WsInv == WsListFreedOnce /\ WsPrintsAllTexts /\ WsContextsOwn
==============================================================================
