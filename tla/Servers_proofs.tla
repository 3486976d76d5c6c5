----------------------------- MODULE Servers_proofs -----------------------------
(***************************************************************************)
(* Servers and what they keep of their connections, for instances of every  *)
(* size: the slots and requests of the HTTP servers, the list and the       *)
(* contexts of the WebSocket programs, the table of the TLS server, and the *)
(* select, poll and epoll servers.  What these have been told is ready still*)
(* is when they come to it, however clients write, leave and are reset in   *)
(* between, since only the server reads and closes.  The variables of each  *)
(* model are its own, and so are the arguments below.                       *)
(***************************************************************************)
EXTENDS HttpServers, WebSockets, TlsSessions, EchoServers, FiniteSetTheorems,
        WellFoundedInduction, TLAPS

-----------------------------------------------------------------------------
(* EchoServers: descriptors, slots and events *)

ConnStates ==
  [st : {"new", "queued", "open", "closed", "forgotten"}, unread : Nat, sent : Nat, got : Nat,
   eof : BOOLEAN, hup : BOOLEAN, edge : BOOLEAN]

EsTypes ==
  /\ esConn \in [EsClients -> ConnStates]
  /\ esFd \in [Fds -> EsClients \cup {Free, Stdin}]
  /\ esTable \in [Slots -> [fd : Fds, events : BOOLEAN, ready : BOOLEAN]]
  /\ esPc \in {"wait", "accept", "serve", "exited"} /\ esAt \in Nat

(* A reset connection was left; a message is unread or answered *)
ConnOK(c) ==
  /\ esConn[c].hup => esConn[c].eof
  /\ esConn[c].st \in {"closed", "forgotten"} => esConn[c].eof
  /\ esProg = "epoll" => /\ esConn[c].sent = esConn[c].got + esConn[c].unread
                         /\ esConn[c].edge => esConn[c].unread > 0 \/ esConn[c].eof

(* Somebody has written or has left *)
Speaks(c) == esConn[c].unread > 0 \/ esConn[c].eof

(* No two descriptors for one connection, and none for one that was not accepted *)
EsFds ==
  /\ \A fd \in Fds : esFd[fd] = Stdin <=> fd = 0
  /\ \A fd, k \in Fds : esFd[fd] \in EsClients /\ esFd[fd] = esFd[k] => fd = k
  /\ \A fd \in Fds : esFd[fd] \in EsClients => esConn[esFd[fd]].st \in {"open", "forgotten"}

(* select and poll: a slot in use has an open connection of its own, and one that is still
   to be served has something to read *)
SlotOK(s) ==
  esTable[s].fd # 0 => esFd[esTable[s].fd] \in EsClients /\ esConn[esFd[esTable[s].fd]].st = "open"
ReadyOK(s) ==
  esTable[s].ready => esTable[s].fd # 0 /\ Speaks(esFd[esTable[s].fd])
EsSlots ==
  esProg \in {"select", "poll"} /\ esPc # "exited" =>
    /\ \A s \in Slots : SlotOK(s)
    /\ \A s, t \in Slots : esTable[s].fd # 0 /\ esTable[s].fd = esTable[t].fd => s = t
    /\ esPc = "accept" => esAt = 0
    /\ esPc = "serve" => esAt \in Slots
    /\ esPc \in {"accept", "serve"} => \A s \in Slots : s >= esAt => ReadyOK(s)
    /\ esProg = "select" =>
         \A c \in EsClients : esConn[c].st = "open" => \E s \in Slots : esTable[s].fd # 0 /\ esFd[esTable[s].fd] = c

(* epoll: the events still to be handled are of different descriptors, each of a connection
   that has written or was left, and a new event for it means that it was left *)
EventOK(s) ==
  \/ esEvents[s].fd = Listening /\ esEvents[s].kind = "in"
  \/ /\ esEvents[s].fd \in Fds /\ esFd[esEvents[s].fd] \in EsClients
     /\ Speaks(esFd[esEvents[s].fd])
     /\ esConn[esFd[esEvents[s].fd]].edge => esConn[esFd[esEvents[s].fd]].eof
     /\ esEvents[s].kind # "in" => esConn[esFd[esEvents[s].fd]].eof
Todo == {s \in EventIndex : esAt <= s /\ s < esN}
EsPending ==
  esProg = "epoll" /\ esPc = "serve" =>
    /\ esN \in Nat /\ esN <= EsMaxEvents /\ esAt < esN
    /\ \A s \in Todo : EventOK(s)
    /\ \A s, t \in Todo : esEvents[s].fd = esEvents[t].fd => s = t

EsIInv ==
  esProg # "thread" => EsTypes /\ (\A c \in EsClients : ConnOK(c)) /\ EsFds /\ EsSlots /\ EsPending

-----------------------------------------------------------------------------
(* A set of numbers that is not empty has a least member. *)
LEMMA LowestMember ==
  ASSUME NEW S, S \subseteq Nat, S # {}
  PROVE  \E k \in S : \A j \in S : k <= j
<1>1. IsWellFoundedOn(OpToRel(<, Nat), Nat)
  BY NatLessThanWellFounded, Zenon
<1>2. PICK k \in S : \A j \in S : ~(<<j, k>> \in OpToRel(<, Nat))
  BY <1>1, WFMin, Zenon
<1>3. \A j \in S : ~(j < k)
  BY <1>2, Zenon DEF OpToRel
<1> QED BY <1>3

(* accept() finds a free descriptor: there are as many as clients, besides standard input,
   and the client that waits has none. *)
LEMMA FreeDescriptor ==
  ASSUME EsTypes, EsFds, NEW c \in EsClients, esConn[c].st = "queued"
  PROVE  LowestFree \in Fds /\ esFd[LowestFree] = Free
<1>0. PICK N : N = Cardinality(EsClients) /\ N \in Nat
  BY EsAssumption, FS_CardinalityType, Zenon
<1>1. \E fd \in Fds : esFd[fd] = Free
  <2> SUFFICES ASSUME \A fd \in Fds : esFd[fd] # Free PROVE FALSE
    BY Zenon
  <2>1. 1 .. N \subseteq Fds /\ 0 \notin 1 .. N
    BY <1>0 DEF Fds
  <2>2. \A fd \in 1 .. N : esFd[fd] \in EsClients \ {c}
    <3>1. \A fd \in 1 .. N : esFd[fd] \in EsClients
      BY <2>1 DEF EsTypes, EsFds
    <3> QED BY <2>1, <3>1, Zenon DEF EsFds
  <2>3. IsFiniteSet(1 .. N) /\ Cardinality(1 .. N) = N
    BY <1>0, FS_Interval
  <2>4. IsFiniteSet(EsClients \ {c}) /\ Cardinality(EsClients \ {c}) = N - 1
    BY <1>0, EsAssumption, FS_RemoveElement, Zenon
  <2>5. PICK f : f = [fd \in 1 .. N |-> esFd[fd]]
    BY Zenon
  <2>6. f \in [1 .. N -> EsClients \ {c}] /\ \A fd \in 1 .. N : f[fd] = esFd[fd]
    BY <2>2, <2>5, Zenon
  <2>7. Cardinality(EsClients \ {c}) < Cardinality(1 .. N)
    BY <1>0, <2>3, <2>4
  <2>8. ASSUME NEW S, NEW T, IsFiniteSet(S), IsFiniteSet(T), Cardinality(T) < Cardinality(S), f \in [S -> T]
        PROVE  \E x, y \in S : x # y /\ f[x] = f[y]
    BY <2>8, FS_PigeonHole
  <2>9. PICK x, y \in 1 .. N : x # y /\ f[x] = f[y]
    BY <2>3, <2>4, <2>6, <2>7, <2>8, Zenon
  <2> QED BY <2>1, <2>2, <2>6, <2>9, Zenon DEF EsFds
<1>2. PICK S : S = {fd \in Fds : esFd[fd] = Free}
  BY Zenon
<1>3. S \subseteq Nat /\ S # {}
  BY <1>0, <1>1, <1>2 DEF Fds
<1>4. PICK m \in S : \A k \in S : m <= k
  BY <1>3, LowestMember, Zenon
<1>5. m \in Fds /\ esFd[m] = Free /\ \A k \in Fds : esFd[k] = Free => m <= k
  BY <1>2, <1>4, Zenon
<1> QED BY <1>5, Zenon DEF LowestFree

(* The slot that accept() takes is a free one. *)
LEMMA FreeSlot ==
  ASSUME FreeSlots # {}
  PROVE  (CHOOSE s \in FreeSlots : \A k \in FreeSlots : s <= k) \in FreeSlots
<1>1. FreeSlots \subseteq Nat
  BY EsAssumption DEF FreeSlots, Slots
<1>2. PICK m \in FreeSlots : \A k \in FreeSlots : m <= k
  BY <1>1, LowestMember, Zenon
<1> QED BY <1>2, Zenon

-----------------------------------------------------------------------------

(* What a client may do to its connection *)
Grown(r, q) ==
  /\ q \in ConnStates
  /\ q.st = r.st \/ (r.st = "new" /\ q.st = "queued")
  /\ (r.eof => q.eof) /\ q.unread >= r.unread
  /\ (q.hup => q.eof) /\ (q.st \in {"closed", "forgotten"} => q.eof)
  /\ esProg = "epoll" => /\ q.sent = q.got + q.unread
                         /\ q.edge => q.unread > 0 \/ q.eof
                         /\ q.edge => r.edge \/ q.eof \/ ~(r.unread > 0 \/ r.eof)

(* Clients connect, write and leave while the server goes on. *)
LEMMA ClientKeeps ==
  ASSUME EsIInv, esProg # "thread", ClientMoves
  PROVE  EsIInv'
<1>0. /\ EsTypes /\ (\A c \in EsClients : ConnOK(c)) /\ EsFds /\ EsSlots /\ EsPending
      /\ UNCHANGED <<esProg, esFd, esTable, esEvents, esN, esPc, esAt>>
  BY Zenon DEF EsIInv, ClientMoves, esLoop
<1>1. PICK c \in EsClients : Connect(c) \/ Send(c) \/ Leave(c)
  BY Zenon DEF ClientMoves
<1>2. PICK r : r = esConn[c] /\ r \in ConnStates
  BY <1>0, Zenon DEF EsTypes
<1>20. /\ r.unread \in Nat /\ r.sent \in Nat /\ r.got \in Nat /\ r.edge \in BOOLEAN
       /\ (r.hup => r.eof) /\ (r.st \in {"closed", "forgotten"} => r.eof)
       /\ esProg = "epoll" => r.sent = r.got + r.unread /\ (r.edge => r.unread > 0 \/ r.eof)
  BY <1>0, <1>2, Zenon DEF ConnStates, ConnOK
<1>3. PICK q : esConn' = [esConn EXCEPT ![c] = q] /\ Grown(r, q)
  <2>1. CASE Connect(c)
    <3>1. PICK q : q = [r EXCEPT !.st = "queued"]
      BY Zenon
    <3>2. esConn' = [esConn EXCEPT ![c] = q] /\ r.st = "new"
      BY <1>2, <2>1, <3>1, Zenon DEF Connect
    <3>3. /\ q \in ConnStates /\ q.st = "queued" /\ q.unread = r.unread /\ q.sent = r.sent /\ q.got = r.got
          /\ q.eof = r.eof /\ q.hup = r.hup /\ q.edge = r.edge
      BY <1>2, <3>1, Zenon DEF ConnStates
    <3>4. q.unread >= r.unread
      BY <1>20, <3>3
    <3>5. Grown(r, q)
      BY <1>20, <3>2, <3>3, <3>4, Zenon DEF Grown
    <3> QED BY <3>2, <3>5, Zenon
  <2>2. CASE Send(c)
    <3>1. PICK q : q = [r EXCEPT !.sent = r.sent + 1, !.unread = r.unread + 1, !.edge = UsesEpoll]
      BY Zenon
    <3>2. esConn' = [esConn EXCEPT ![c] = q]
      BY <1>2, <2>2, <3>1, Zenon DEF Send
    <3>3. ~r.eof /\ (esProg = "epoll" => r.got >= r.sent) /\ r.st \in {"queued", "open", "forgotten"}
      BY <1>2, <2>2, Zenon DEF Send
    <3>4. UsesEpoll \in BOOLEAN /\ r.sent + 1 \in Nat /\ r.unread + 1 \in Nat
      BY <1>20 DEF UsesEpoll
    <3>5. /\ q \in ConnStates /\ q.st = r.st /\ q.unread = r.unread + 1 /\ q.sent = r.sent + 1 /\ q.got = r.got
          /\ q.eof = r.eof /\ q.hup = r.hup
      BY <1>2, <3>1, <3>4, Zenon DEF ConnStates
    <3>6. /\ q.unread >= r.unread /\ q.unread > 0
          /\ esProg = "epoll" => q.sent = q.got + q.unread /\ ~(r.unread > 0)
      <4>1. r.unread \in Nat /\ r.sent \in Nat /\ r.got \in Nat /\ (esProg = "epoll" => r.sent = r.got + r.unread)
        BY <1>20, Zenon
      <4> QED BY <3>5, <3>3, <4>1
    <3>7. (r.eof => q.eof) /\ (q.hup => q.eof) /\ (q.st \in {"closed", "forgotten"} => q.eof)
      BY <1>20, <3>5, Zenon
    <3>8. esProg = "epoll" => (q.edge => q.unread > 0) /\ ~(r.unread > 0 \/ r.eof)
      BY <3>3, <3>6, Zenon
    <3>9. Grown(r, q)
      BY <3>5, <3>6, <3>7, <3>8, ZenonT(30) DEF Grown
    <3> QED BY <3>2, <3>9, Zenon
  <2>3. CASE Leave(c)
    <3>1. PICK reset \in BOOLEAN : esConn' = [esConn EXCEPT ![c].eof = TRUE, ![c].hup = reset, ![c].edge = UsesEpoll]
      BY <2>3, Zenon DEF Leave
    <3>2. PICK q : q = [r EXCEPT !.eof = TRUE, !.hup = reset, !.edge = UsesEpoll]
      BY Zenon
    <3>3. esConn' = [esConn EXCEPT ![c] = q]
      BY <1>2, <3>1, <3>2, Zenon
    <3>4. UsesEpoll \in BOOLEAN
      BY DEF UsesEpoll
    <3>5. /\ q \in ConnStates /\ q.st = r.st /\ q.unread = r.unread /\ q.sent = r.sent /\ q.got = r.got /\ q.eof
      BY <1>2, <3>2, <3>4, Zenon DEF ConnStates
    <3>6. q.unread >= r.unread
      BY <1>20, <3>5
    <3>7. Grown(r, q)
      BY <1>20, <3>5, <3>6, Zenon DEF Grown
    <3> QED BY <3>3, <3>7, Zenon
  <2> QED BY <1>1, <2>1, <2>2, <2>3, Zenon
<1>4. /\ esConn' \in [EsClients -> ConnStates] /\ esConn'[c] = q
      /\ \A d \in EsClients : d # c => esConn'[d] = esConn[d]
  BY <1>0, <1>3, Zenon DEF EsTypes, Grown
<1>5. EsTypes'
  BY <1>0, <1>4, Zenon DEF EsTypes
<1>6. \A d \in EsClients : ConnOK(d)'
  BY <1>0, <1>3, <1>4, Zenon DEF ConnOK, Grown
<1>7. \A d \in EsClients : /\ Speaks(d) => Speaks(d)'
                           /\ esConn[d].st \in {"open", "forgotten"} => esConn'[d].st = esConn[d].st
                           /\ esConn'[d].st \in {"open", "forgotten"} => esConn[d].st = esConn'[d].st
                           /\ esConn[d].eof => esConn'[d].eof
                           /\ esProg = "epoll" /\ Speaks(d) /\ esConn'[d].edge => esConn[d].edge \/ esConn'[d].eof
  <2>1. r.unread \in Nat /\ q.unread \in Nat
    BY <1>2, <1>3, Zenon DEF ConnStates, Grown
  <2> QED BY <1>2, <1>3, <1>4, <2>1 DEF Speaks, Grown
<1>8. EsFds'
  BY <1>0, <1>7, Zenon DEF EsFds
<1>9. EsSlots'
  BY <1>0, <1>7, Zenon DEF EsSlots, SlotOK, ReadyOK, EsTypes
<1>10. EsPending'
  BY <1>0, <1>7, Zenon DEF EsPending, EventOK, Todo
<1> QED BY <1>5, <1>6, <1>8, <1>9, <1>10, Zenon DEF EsIInv

-----------------------------------------------------------------------------
(* A descriptor refers to a connection exactly when it holds a client's number. *)
LEMMA InUse ==
  ASSUME EsTypes
  PROVE  /\ \A fd \in Fds : esFd[fd] > 0 <=> esFd[fd] \in EsClients
         /\ Free \notin EsClients /\ Stdin \notin EsClients
<1>1. EsClients \subseteq Nat \ {0}
  BY EsAssumption, Zenon
<1>2. Free \notin EsClients /\ Stdin \notin EsClients
  BY <1>1 DEF Free, Stdin
<1>3. \A fd \in Fds : esFd[fd] \in EsClients \cup {Free, Stdin}
  BY Zenon DEF EsTypes
<1>4. \A x \in EsClients \cup {Free, Stdin} : x > 0 <=> x \in EsClients
  BY <1>1 DEF Free, Stdin
<1> QED BY <1>2, <1>3, <1>4, Zenon

(* The server moves one connection on: the others and their descriptors stay as they are. *)
Moved(c, q) ==
  /\ esConn' = [esConn EXCEPT ![c] = q] /\ esProg' = esProg
  /\ q \in ConnStates /\ (q.hup => q.eof) /\ (q.st \in {"closed", "forgotten"} => q.eof)
  /\ esProg = "epoll" => q.sent = q.got + q.unread /\ (q.edge => q.unread > 0 \/ q.eof)

(* The connections stay right when one of them moves on. *)
LEMMA MovedRight ==
  ASSUME EsTypes, \A d \in EsClients : ConnOK(d), NEW c \in EsClients, NEW q, Moved(c, q)
  PROVE  /\ esConn' \in [EsClients -> ConnStates] /\ esConn'[c] = q
         /\ \A d \in EsClients : d # c => esConn'[d] = esConn[d]
         /\ \A d \in EsClients : ConnOK(d)'
<1>1. /\ esConn' \in [EsClients -> ConnStates] /\ esConn'[c] = q
      /\ \A d \in EsClients : d # c => esConn'[d] = esConn[d]
  BY Zenon DEF EsTypes, Moved
<1>2. ConnOK(c)'
  BY <1>1, Zenon DEF ConnOK, Moved
<1>3. \A d \in EsClients : d # c => ConnOK(d)'
  BY <1>1, Zenon DEF ConnOK, Moved
<1> QED BY <1>1, <1>2, <1>3, Zenon

(* accept(): the connection gets a descriptor that no other has. *)
Accepts(c) ==
  /\ esConn' = [esConn EXCEPT ![c].st = "open"] /\ esFd' = [esFd EXCEPT ![LowestFree] = c]
  /\ esProg' = esProg

LEMMA AcceptsRight ==
  ASSUME EsTypes, \A d \in EsClients : ConnOK(d), EsFds, NEW c \in Queued, Accepts(c)
  PROVE  /\ esConn' \in [EsClients -> ConnStates] /\ esFd' \in [Fds -> EsClients \cup {Free, Stdin}]
         /\ (\A d \in EsClients : ConnOK(d)') /\ EsFds'
         /\ \A d \in EsClients : d # c => esConn'[d] = esConn[d]
         /\ c \in EsClients /\ esConn'[c].st = "open"
         /\ LowestFree \in Fds \ {0} /\ esFd[LowestFree] = Free /\ esFd'[LowestFree] = c
         /\ \A fd \in Fds : fd # LowestFree => esFd'[fd] = esFd[fd]
         /\ \A fd \in Fds : esFd[fd] \in EsClients => esFd[fd] # c /\ fd # LowestFree
<1>1. c \in EsClients /\ esConn[c].st = "queued"
  BY Zenon DEF Queued
<1>2. PICK m : m = LowestFree
  BY Zenon
<1>3. m \in Fds /\ esFd[m] = Free /\ m # 0
  <2>1. m \in Fds /\ esFd[m] = Free
    BY <1>1, <1>2, FreeDescriptor, Zenon
  <2> QED BY <2>1 DEF EsFds, Free, Stdin
<1>4. PICK r : r = esConn[c] /\ r \in ConnStates
  BY <1>1, Zenon DEF EsTypes
<1>5. PICK q : q = [r EXCEPT !.st = "open"]
  BY Zenon
<1>6. /\ q \in ConnStates /\ q.st = "open" /\ q.unread = r.unread /\ q.sent = r.sent /\ q.got = r.got
      /\ q.eof = r.eof /\ q.hup = r.hup /\ q.edge = r.edge
  BY <1>4, <1>5, Zenon DEF ConnStates
<1>7. q.st \notin {"closed", "forgotten"}
  BY <1>6, Zenon
<1>8. esConn' = [esConn EXCEPT ![c] = q] /\ ConnOK(c)
  BY <1>1, <1>4, <1>5, Zenon DEF Accepts
<1>9. Moved(c, q)
  BY <1>4, <1>6, <1>7, <1>8, Zenon DEF Moved, ConnOK, Accepts
<1>10. /\ esConn' \in [EsClients -> ConnStates] /\ esConn'[c] = q
       /\ \A d \in EsClients : d # c => esConn'[d] = esConn[d]
       /\ \A d \in EsClients : ConnOK(d)'
  BY <1>1, <1>9, MovedRight, Zenon
<1>11. /\ esFd' \in [Fds -> EsClients \cup {Free, Stdin}] /\ esFd'[m] = c
       /\ \A fd \in Fds : fd # m => esFd'[fd] = esFd[fd]
  BY <1>1, <1>2, <1>3, Zenon DEF EsTypes, Accepts
<1>12. /\ Free \notin EsClients /\ Stdin \notin EsClients
       /\ \A fd \in Fds : esFd[fd] \in EsClients => esFd[fd] # c /\ fd # m
  BY <1>1, <1>3, InUse, Zenon DEF EsFds
<1>13. EsFds'
  <2>1. \A fd \in Fds : esFd'[fd] = Stdin <=> fd = 0
    BY <1>1, <1>3, <1>11, <1>12, Zenon DEF EsFds
  <2>2. \A fd, k \in Fds : esFd'[fd] \in EsClients /\ esFd'[fd] = esFd'[k] => fd = k
    BY <1>11, <1>12, Zenon DEF EsFds
  <2>3. \A fd \in Fds : esFd'[fd] \in EsClients => esConn'[esFd'[fd]].st \in {"open", "forgotten"}
    BY <1>6, <1>10, <1>11, <1>12 DEF EsFds
  <2> QED BY <2>1, <2>2, <2>3, Zenon DEF EsFds
<1> QED BY <1>1, <1>2, <1>3, <1>6, <1>10, <1>11, <1>12, <1>13, Zenon

(* close() after the client has left: the descriptor and the connection are given up together. *)
SlotCloses(c, fd) ==
  esConn' = [esConn EXCEPT ![c] = Closed(c)] /\ esFd' = [esFd EXCEPT ![fd] = Free] /\ esProg' = esProg

LEMMA ClosesRight ==
  ASSUME EsTypes, \A d \in EsClients : ConnOK(d), EsFds,
         NEW fd \in Fds, NEW c \in EsClients, esFd[fd] = c, esConn[c].eof, SlotCloses(c, fd)
  PROVE  /\ esConn' \in [EsClients -> ConnStates] /\ esFd' \in [Fds -> EsClients \cup {Free, Stdin}]
         /\ (\A d \in EsClients : ConnOK(d)') /\ EsFds'
         /\ \A d \in EsClients : d # c => esConn'[d] = esConn[d]
         /\ esConn'[c].st = "closed"
         /\ \A k \in Fds : k # fd => esFd'[k] = esFd[k] /\ esFd[k] # c
<1>1. PICK q : q = Closed(c)
  BY Zenon
<1>2. esConn[c].eof \in BOOLEAN
  BY Zenon DEF EsTypes, ConnStates
<1>3. /\ q \in ConnStates /\ q.st = "closed" /\ q.unread = 0 /\ q.sent = 0 /\ q.got = 0
      /\ q.eof /\ q.hup = FALSE /\ q.edge = FALSE
  BY <1>1, <1>2, Zenon DEF Closed, NewConn, ConnStates
<1>4. Moved(c, q)
  BY <1>1, <1>3 DEF Moved, SlotCloses
<1>5. /\ esConn' \in [EsClients -> ConnStates] /\ esConn'[c] = q
      /\ \A d \in EsClients : d # c => esConn'[d] = esConn[d]
      /\ \A d \in EsClients : ConnOK(d)'
  BY <1>4, MovedRight, Zenon
<1>6. /\ esFd' \in [Fds -> EsClients \cup {Free, Stdin}] /\ esFd'[fd] = Free
      /\ \A k \in Fds : k # fd => esFd'[k] = esFd[k] /\ esFd[k] # c
  BY Zenon DEF EsTypes, EsFds, SlotCloses
<1>7. Free \notin EsClients /\ Stdin \notin EsClients /\ Free # Stdin
  BY InUse DEF Free, Stdin
<1>8. EsFds'
  <2>1. \A k \in Fds : esFd'[k] = Stdin <=> k = 0
    BY <1>6, <1>7, Zenon DEF EsFds
  <2>2. \A j, k \in Fds : esFd'[j] \in EsClients /\ esFd'[j] = esFd'[k] => j = k
    BY <1>6, <1>7 DEF EsFds
  <2>3. \A k \in Fds : esFd'[k] \in EsClients => esConn'[esFd'[k]].st \in {"open", "forgotten"}
    BY <1>5, <1>6, <1>7 DEF EsFds
  <2> QED BY <2>1, <2>2, <2>3, Zenon DEF EsFds
<1> QED BY <1>3, <1>5, <1>6, <1>8, Zenon

(* read() and write(): the connection has one message less to read and one answer more. *)
LEMMA AnsweredRight ==
  ASSUME EsTypes, \A d \in EsClients : ConnOK(d), EsFds, NEW c \in EsClients, Answered(c), UNCHANGED <<esProg, esFd>>,
         esProg = "epoll" => esConn[c].unread > 0 /\ (esConn[c].edge => esConn[c].eof)
  PROVE  /\ esConn' \in [EsClients -> ConnStates] /\ (\A d \in EsClients : ConnOK(d)') /\ EsFds'
         /\ \A d \in EsClients : d # c => esConn'[d] = esConn[d]
         /\ esConn'[c].st = esConn[c].st
<1>1. PICK r : r = esConn[c] /\ r \in ConnStates
  BY Zenon DEF EsTypes
<1>2. r.unread \in Nat /\ r.sent \in Nat /\ r.got \in Nat /\ r.eof \in BOOLEAN
  BY <1>1, Zenon DEF ConnStates
<1>3. PICK reset \in IF r.eof THEN BOOLEAN ELSE {FALSE} :
        esConn' = [esConn EXCEPT ![c].unread = IF @ = 0 THEN 0 ELSE @ - 1, ![c].got = @ + 1, ![c].hup = reset]
  BY <1>1, Zenon DEF Answered
<1>4. reset \in BOOLEAN /\ (reset => r.eof)
  BY <1>2, <1>3, Zenon
<1>5. PICK n : n = IF r.unread = 0 THEN 0 ELSE r.unread - 1
  BY Zenon
<1>6. n \in Nat /\ r.got + 1 \in Nat /\ (r.unread > 0 => r.got + 1 + n = r.got + r.unread)
  BY <1>2, <1>5
<1>7. PICK q : q = [r EXCEPT !.unread = n, !.got = r.got + 1, !.hup = reset]
  BY Zenon
<1>8. /\ q \in ConnStates /\ q.st = r.st /\ q.unread = n /\ q.sent = r.sent /\ q.got = r.got + 1
      /\ q.eof = r.eof /\ q.hup = reset /\ q.edge = r.edge
  BY <1>1, <1>4, <1>6, <1>7, Zenon DEF ConnStates
<1>9. esConn' = [esConn EXCEPT ![c] = q]
  BY <1>1, <1>3, <1>5, <1>7, Zenon
<1>10. ConnOK(c)
  BY Zenon
<1>11. Moved(c, q)
  BY <1>1, <1>4, <1>6, <1>8, <1>9, <1>10, Zenon DEF Moved, ConnOK
<1>12. /\ esConn' \in [EsClients -> ConnStates] /\ esConn'[c] = q
       /\ \A d \in EsClients : d # c => esConn'[d] = esConn[d]
       /\ \A d \in EsClients : ConnOK(d)'
  BY <1>11, MovedRight, Zenon
<1>13. EsFds'
  BY <1>1, <1>8, <1>12 DEF EsFds
<1> QED BY <1>1, <1>8, <1>12, <1>13, Zenon


-----------------------------------------------------------------------------
(* select() and poll(): only slots with something to read are marked ready. *)
LEMMA TableWaitKeeps ==
  ASSUME EsIInv, esProg # "thread", TableWait
  PROVE  EsIInv'
<1>0. /\ EsTypes /\ (\A c \in EsClients : ConnOK(c)) /\ EsFds /\ EsSlots /\ esProg # "epoll" /\ esPc = "wait"
      /\ UNCHANGED <<esProg, esConn, esFd, esListen, esEvents, esN>>
      /\ esTable' = [s \in Slots |-> [esTable[s] EXCEPT !.ready = HasInput(s)]]
      /\ esPc' \in {"accept", "serve"} /\ esAt' = 0
  BY Zenon DEF EsIInv, TableWait, UsesEpoll, Goto
<1>1. 0 \in Slots
  BY EsAssumption DEF Slots
<1>2. \A s \in Slots : HasInput(s) \in BOOLEAN
  BY <1>0, Zenon DEF HasInput, EsTypes
<1>3. ASSUME NEW s \in Slots
      PROVE  /\ esTable'[s] \in [fd : Fds, events : BOOLEAN, ready : BOOLEAN]
             /\ esTable'[s].fd = esTable[s].fd /\ (esTable'[s].ready => HasInput(s))
  <2>1. PICK r : r = esTable[s] /\ r \in [fd : Fds, events : BOOLEAN, ready : BOOLEAN]
    BY <1>0, Zenon DEF EsTypes
  <2>2. esTable'[s] = [r EXCEPT !.ready = HasInput(s)] /\ HasInput(s) \in BOOLEAN
    BY <1>0, <1>2, <2>1, Zenon
  <2> QED BY <2>1, <2>2, Zenon
<1>4. EsTypes'
  <2>1. esTable' \in [Slots -> [fd : Fds, events : BOOLEAN, ready : BOOLEAN]]
    BY <1>0, <1>3, Zenon
  <2> QED BY <1>0, <2>1, Zenon DEF EsTypes
<1>5. \A c \in EsClients : ConnOK(c)'
  BY <1>0, Zenon DEF ConnOK
<1>6. EsFds'
  BY <1>0, Zenon DEF EsFds
<1>7. EsSlots'
  <2>1. \A s \in Slots : HasInput(s) => esTable[s].fd # 0 /\ Speaks(esFd[esTable[s].fd])
    BY Zenon DEF HasInput, Readable, Speaks
  <2> SUFFICES ASSUME esProg \in {"select", "poll"} PROVE EsSlots'
    BY <1>0, Zenon DEF EsSlots
  <2>2. \A s \in Slots : SlotOK(s)
    BY <1>0, Zenon DEF EsSlots
  <2>3. \A s \in Slots : SlotOK(s)'
    BY <1>0, <1>3, <2>2, Zenon DEF SlotOK
  <2>4. \A s \in Slots : ReadyOK(s)'
    BY <1>0, <1>3, <2>1, Zenon DEF ReadyOK, Speaks
  <2>5. \A s, t \in Slots : esTable'[s].fd # 0 /\ esTable'[s].fd = esTable'[t].fd => s = t
    BY <1>0, <1>3, Zenon DEF EsSlots
  <2>6. esProg = "select" =>
          \A c \in EsClients : esConn'[c].st = "open" => \E s \in Slots : esTable'[s].fd # 0 /\ esFd'[esTable'[s].fd] = c
    <3> SUFFICES ASSUME esProg = "select", NEW c \in EsClients, esConn[c].st = "open"
                 PROVE  \E s \in Slots : esTable'[s].fd # 0 /\ esFd[esTable'[s].fd] = c
      BY <1>0, Zenon
    <3>1. PICK s \in Slots : esTable[s].fd # 0 /\ esFd[esTable[s].fd] = c
      BY <1>0, Zenon DEF EsSlots
    <3> QED BY <1>3, <3>1, Zenon
  <2> QED BY <1>0, <1>1, <2>3, <2>4, <2>5, <2>6, Zenon DEF EsSlots
<1>8. EsPending'
  BY <1>0, Zenon DEF EsPending
<1> QED BY <1>4, <1>5, <1>6, <1>7, <1>8, Zenon DEF EsIInv

(* A new connection takes a free slot, whose ready mark was not set. *)
LEMMA KeepKeeps ==
  ASSUME EsIInv, esProg \in {"select", "poll"}, esPc = "accept", esProg' = esProg,
         NEW c \in Queued, FreeSlots # {}, Keep(c, LowestFree)
  PROVE  EsIInv'
<1>0. EsTypes /\ (\A d \in EsClients : ConnOK(d)) /\ EsFds /\ EsSlots
  BY Zenon DEF EsIInv
<1>1. PICK m : m = CHOOSE s \in FreeSlots : \A k \in FreeSlots : s <= k
  BY Zenon
<1>2. m \in Slots /\ esTable[m].fd = 0
  BY <1>1, FreeSlot, Zenon DEF FreeSlots
<1>3. PICK fd : fd = LowestFree
  BY Zenon
<1>4. /\ Accepts(c) /\ esTable' = [esTable EXCEPT ![m].fd = fd] /\ esPc' = "serve" /\ esAt' = 0
  BY <1>1, <1>3, Zenon DEF Keep, Accepts, Goto
<1>5. /\ esConn' \in [EsClients -> ConnStates] /\ esFd' \in [Fds -> EsClients \cup {Free, Stdin}]
      /\ (\A d \in EsClients : ConnOK(d)') /\ EsFds'
      /\ \A d \in EsClients : d # c => esConn'[d] = esConn[d]
      /\ c \in EsClients /\ esConn'[c].st = "open"
      /\ fd \in Fds \ {0} /\ esFd[fd] = Free /\ esFd'[fd] = c
      /\ \A k \in Fds : k # fd => esFd'[k] = esFd[k]
      /\ \A k \in Fds : esFd[k] \in EsClients => esFd[k] # c /\ k # fd
  BY <1>0, <1>3, <1>4, AcceptsRight, Zenon
<1>6. /\ esTable' \in [Slots -> [fd : Fds, events : BOOLEAN, ready : BOOLEAN]]
      /\ esTable'[m].fd = fd /\ esTable'[m].ready = esTable[m].ready
      /\ \A s \in Slots : s # m => esTable'[s] = esTable[s]
  BY <1>0, <1>2, <1>4, <1>5 DEF EsTypes
<1>7. EsTypes'
  BY <1>4, <1>5, <1>6, Zenon DEF EsTypes
<1>8. EsSlots'
  <2>1. \A s \in Slots : SlotOK(s) /\ ReadyOK(s) /\ esTable[s].fd \in Fds
    BY <1>0, EsAssumption DEF EsSlots, EsTypes, Slots
  <2>2. \A s \in Slots : s # m /\ esTable[s].fd # 0 =>
          /\ esTable[s].fd # fd /\ esFd'[esTable[s].fd] = esFd[esTable[s].fd] /\ esFd[esTable[s].fd] \in EsClients
          /\ esConn'[esFd[esTable[s].fd]] = esConn[esFd[esTable[s].fd]]
    BY <1>5, <2>1, Zenon DEF SlotOK
  <2>3. \A s \in Slots : SlotOK(s)'
    BY <1>5, <1>6, <2>1, <2>2, SMTT(30) DEF SlotOK
  <2>4. \A s, t \in Slots : esTable'[s].fd # 0 /\ esTable'[s].fd = esTable'[t].fd => s = t
    BY <1>0, <1>6, <2>2 DEF EsSlots
  <2>5. \A s \in Slots : ReadyOK(s)'
    <3>1. ~esTable[m].ready
      BY <1>2, <2>1, Zenon DEF ReadyOK
    <3>2. \A s \in Slots : s # m => ReadyOK(s)'
      BY <1>6, <2>1, <2>2 DEF ReadyOK, Speaks
    <3> QED BY <1>2, <1>6, <3>1, <3>2, Zenon DEF ReadyOK
  <2>6. esProg = "select" =>
          \A d \in EsClients : esConn'[d].st = "open" => \E s \in Slots : esTable'[s].fd # 0 /\ esFd'[esTable'[s].fd] = d
    <3> SUFFICES ASSUME esProg = "select", NEW d \in EsClients, esConn'[d].st = "open"
                 PROVE  \E s \in Slots : esTable'[s].fd # 0 /\ esFd'[esTable'[s].fd] = d
      BY Zenon
    <3>1. CASE d = c
      BY <1>2, <1>5, <1>6, <3>1, Zenon
    <3>2. CASE d # c
      <4>1. PICK s \in Slots : esTable[s].fd # 0 /\ esFd[esTable[s].fd] = d
        BY <1>0, <1>5, <3>2, Zenon DEF EsSlots
      <4> QED BY <1>2, <1>6, <2>2, <4>1, Zenon
    <3> QED BY <3>1, <3>2, Zenon
  <2>7. 0 \in Slots
    BY EsAssumption DEF Slots
  <2> QED BY <1>4, <2>3, <2>4, <2>5, <2>6, <2>7, Zenon DEF EsSlots
<1>9. EsPending'
  BY <1>4, Zenon DEF EsPending, Accepts
<1> QED BY <1>5, <1>7, <1>8, <1>9, Zenon DEF EsIInv

(* accept() of the select and poll servers. *)
LEMMA AcceptKeeps ==
  ASSUME EsIInv, select_accept \/ poll_accept
  PROVE  EsIInv'
<1>0. EsTypes /\ (\A d \in EsClients : ConnOK(d)) /\ EsFds /\ EsSlots /\ esProg' = esProg /\ esPc = "accept"
  BY Zenon DEF EsIInv, select_accept, poll_accept
<1>1. PICK c \in Queued :
        \/ FreeSlots # {} /\ Keep(c, LowestFree) /\ esProg \in {"select", "poll"}
        \/ Exits /\ esProg = "select"
        \/ Accepts(c) /\ UNCHANGED esTable /\ Goto("serve", 0) /\ esProg = "poll"
  BY Zenon DEF select_accept, poll_accept, Accepts
<1>2. CASE FreeSlots # {} /\ Keep(c, LowestFree) /\ esProg \in {"select", "poll"}
  BY <1>0, <1>2, KeepKeeps, Zenon
<1>3. CASE Exits /\ esProg = "select"
  <2>1. UNCHANGED <<esConn, esFd, esTable>> /\ esPc' = "exited" /\ esAt' = 0
    BY <1>3, Zenon DEF Exits, Goto
  <2>2. EsTypes' /\ (\A d \in EsClients : ConnOK(d)') /\ EsFds'
    BY <1>0, <2>1, Zenon DEF EsTypes, ConnOK, EsFds
  <2> QED BY <1>0, <1>3, <2>1, <2>2, Zenon DEF EsIInv, EsSlots, EsPending
<1>4. CASE Accepts(c) /\ UNCHANGED esTable /\ Goto("serve", 0) /\ esProg = "poll"
  <2>1. /\ esConn' \in [EsClients -> ConnStates] /\ esFd' \in [Fds -> EsClients \cup {Free, Stdin}]
        /\ (\A d \in EsClients : ConnOK(d)') /\ EsFds'
        /\ \A d \in EsClients : d # c => esConn'[d] = esConn[d]
        /\ \A k \in Fds : k # LowestFree => esFd'[k] = esFd[k]
        /\ \A k \in Fds : esFd[k] \in EsClients => esFd[k] # c /\ k # LowestFree
    BY <1>0, <1>4, AcceptsRight, Zenon
  <2>2. esPc' = "serve" /\ esAt' = 0 /\ esTable' = esTable
    BY <1>4, Zenon DEF Goto
  <2>3. EsTypes'
    BY <1>0, <2>1, <2>2, Zenon DEF EsTypes
  <2>4. \A s \in Slots : SlotOK(s) /\ ReadyOK(s) /\ esTable[s].fd \in Fds
    BY <1>0, <1>4, EsAssumption, SMTT(30) DEF EsSlots, EsTypes, Slots
  <2>5. \A s \in Slots : esTable[s].fd # 0 =>
          /\ esFd'[esTable[s].fd] = esFd[esTable[s].fd]
          /\ esConn'[esFd[esTable[s].fd]] = esConn[esFd[esTable[s].fd]]
    BY <2>1, <2>4, Zenon DEF SlotOK
  <2>6. \A s \in Slots : SlotOK(s)' /\ ReadyOK(s)'
    BY <2>2, <2>4, <2>5 DEF SlotOK, ReadyOK, Speaks
  <2>7. 0 \in Slots
    BY EsAssumption, SMTT(30) DEF Slots
  <2>8. EsSlots'
    BY <1>0, <1>4, <2>2, <2>6, <2>7, Zenon DEF EsSlots
  <2> QED BY <1>0, <1>4, <2>1, <2>3, <2>8, Zenon DEF EsIInv, EsPending
<1> QED BY <1>1, <1>2, <1>3, <1>4, Zenon


-----------------------------------------------------------------------------
(* A slot that is served has something to read, and the ones after it are left alone. *)
LEMMA ServeSlotKeeps ==
  ASSUME EsIInv, esProg # "thread", esProg \in EsPrograms, ServeSlot
  PROVE  EsIInv'
<1>0. /\ EsTypes /\ (\A c \in EsClients : ConnOK(c)) /\ EsFds /\ EsSlots
      /\ esProg \in {"select", "poll"} /\ esPc = "serve" /\ UNCHANGED <<esProg, esListen, esEvents, esN>>
  BY EsAssumption, Zenon DEF EsIInv, ServeSlot, UsesEpoll
<1>1. PICK a : a = esAt
  BY Zenon
<1>2. /\ a \in Slots /\ \A s \in Slots : SlotOK(s) /\ esTable[s].fd \in Fds
      /\ \A s \in Slots : s >= a => ReadyOK(s)
      /\ \A s, t \in Slots : esTable[s].fd # 0 /\ esTable[s].fd = esTable[t].fd => s = t
      /\ esProg = "select" =>
           \A c \in EsClients : esConn[c].st = "open" => \E s \in Slots : esTable[s].fd # 0 /\ esFd[esTable[s].fd] = c
  BY <1>0, <1>1, Zenon DEF EsSlots, EsTypes
<1>3. NextSlot => \/ esPc' = "wait" /\ esAt' = 0
                  \/ esPc' = "serve" /\ esAt' = a + 1 /\ a + 1 \in Slots
  BY <1>1, <1>2, EsAssumption, SMTT(30) DEF NextSlot, Goto, Slots
<1>4. a \in Nat /\ a + 1 \in Nat /\ \A s \in Slots : s >= a + 1 => s >= a /\ s # a
  BY <1>2, EsAssumption DEF Slots
<1>5. EsPending'
  BY <1>0, Zenon DEF EsPending
<1>6. CASE Exits
  <2>1. UNCHANGED <<esConn, esFd, esTable>> /\ esPc' = "exited" /\ esAt' = 0
    BY <1>6, Zenon DEF Exits, Goto
  <2>2. EsTypes' /\ (\A d \in EsClients : ConnOK(d)') /\ EsFds'
    BY <1>0, <2>1, Zenon DEF EsTypes, ConnOK, EsFds
  <2>3. EsSlots'
    BY <2>1, Zenon DEF EsSlots
  <2> QED BY <1>5, <2>2, <2>3, Zenon DEF EsIInv
<1>7. CASE SkipSlot
  <2>1. UNCHANGED <<esConn, esFd, esTable>> /\ NextSlot
    BY <1>7, Zenon DEF SkipSlot
  <2>2. EsTypes'
    BY <1>0, <1>3, <1>4, <2>1 DEF EsTypes
  <2>3. (\A d \in EsClients : ConnOK(d)') /\ EsFds'
    BY <1>0, <2>1, Zenon DEF ConnOK, EsFds
  <2>4. EsSlots'
    BY <1>0, <1>2, <1>3, <1>4, <2>1, Zenon DEF EsSlots, SlotOK, ReadyOK, Speaks
  <2> QED BY <1>5, <2>2, <2>3, <2>4, Zenon DEF EsIInv
<1>8. SUFFICES ASSUME ~Exits, ~SkipSlot PROVE EsIInv'
  BY <1>6, <1>7, Zenon
<1>9. PICK fd, c : fd = esTable[a].fd /\ c = esFd[fd]
  BY Zenon
<1>10. /\ fd \in Fds \ {0} /\ c \in EsClients /\ esConn[c].st = "open" /\ Speaks(c)
       /\ \/ esProg = "select" /\ Result(c) = "end" /\ SlotCloses(c, fd) /\ esTable' = [esTable EXCEPT ![a].fd = 0]
          \/ Answered(c) /\ UNCHANGED <<esFd, esTable>>
          \/ /\ esProg = "poll" /\ Result(c) # "data" /\ esConn' = [esConn EXCEPT ![c].st = "forgotten"]
             /\ esTable' = [esTable EXCEPT ![a] = [fd |-> 0, events |-> FALSE, ready |-> FALSE]] /\ UNCHANGED esFd
       /\ NextSlot
  <2>1. esTable[a].fd # 0 /\ esTable[a].ready
    BY <1>1, <1>8, Zenon DEF ServeSlot
  <2>2. fd \in Fds \ {0} /\ c \in EsClients /\ esConn[c].st = "open" /\ Speaks(c)
    BY <1>2, <1>4, <1>9, <2>1 DEF SlotOK, ReadyOK
  <2>3. (esProg = "select" /\ select_comm(c)) \/ (esProg = "poll" /\ poll_serve(c))
    BY <1>0, <1>1, <1>9, <2>1, Zenon DEF ServeSlot
  <2> QED BY <1>0, <1>1, <1>8, <1>9, <2>2, <2>3, Zenon DEF select_comm, poll_serve, SlotCloses
<1>11. \A s \in Slots : s # a /\ esTable[s].fd # 0 =>
         esTable[s].fd # fd /\ esFd[esTable[s].fd] \in EsClients /\ esFd[esTable[s].fd] # c
  BY <1>0, <1>2, <1>9, <1>10 DEF SlotOK, EsFds
<1>12. esConn[c].hup \in BOOLEAN /\ esConn[c].eof \in BOOLEAN /\ esConn[c].unread \in Nat /\ ConnOK(c)
  BY <1>0, <1>10, Zenon DEF EsTypes, ConnStates
<1>13. Result(c) # "data" => esConn[c].eof
  BY <1>10, <1>12 DEF Result, Speaks, ConnOK
<1>14. ASSUME /\ esConn' \in [EsClients -> ConnStates] /\ esFd' \in [Fds -> EsClients \cup {Free, Stdin}]
              /\ (\A d \in EsClients : ConnOK(d)') /\ EsFds'
              /\ \A d \in EsClients : d # c => esConn'[d] = esConn[d]
              /\ \A k \in Fds : k # fd => esFd'[k] = esFd[k]
              /\ esTable' \in [Slots -> [fd : Fds, events : BOOLEAN, ready : BOOLEAN]]
              /\ \A s \in Slots : s # a => esTable'[s] = esTable[s],
              SlotOK(a)', esTable'[a].fd \in {0, fd},
              esProg = "select" /\ esConn'[c].st = "open" => esTable'[a].fd = fd /\ esFd'[fd] = c
       PROVE  EsIInv'
  <2>1. EsTypes'
    BY <1>3, <1>4, <1>10, <1>14, SMTT(30) DEF EsTypes
  <2>2. \A s \in Slots : s # a /\ esTable[s].fd # 0 =>
          /\ esTable'[s] = esTable[s] /\ esFd'[esTable[s].fd] = esFd[esTable[s].fd]
          /\ esConn'[esFd[esTable[s].fd]] = esConn[esFd[esTable[s].fd]]
    BY <1>2, <1>11, <1>14, SMTT(30)
  <2>3. \A s \in Slots : SlotOK(s)'
    BY <1>2, <1>14, <2>2 DEF SlotOK
  <2>4. ASSUME NEW s \in Slots, s >= a + 1 PROVE ReadyOK(s)'
    <3>1. s >= a /\ s # a
      BY <1>4, <2>4, Zenon
    <3>2. ReadyOK(s) /\ esTable'[s] = esTable[s]
      BY <1>2, <1>14, <3>1, Zenon
    <3>3. esTable[s].ready => esTable[s].fd # 0 /\ Speaks(esFd[esTable[s].fd])
      BY <3>2, Zenon DEF ReadyOK
    <3>4. PICK d : d = esFd[esTable[s].fd]
      BY Zenon
    <3>5. esTable[s].fd # 0 => esFd'[esTable'[s].fd] = d /\ esConn'[d] = esConn[d]
      BY <2>2, <3>1, <3>2, <3>4, Zenon
    <3> QED BY <3>2, <3>3, <3>4, <3>5, ZenonT(30) DEF ReadyOK, Speaks
  <2>5. \A s, t \in Slots : esTable'[s].fd # 0 /\ esTable'[s].fd = esTable'[t].fd => s = t
    BY <1>2, <1>11, <1>14
  <2>6. esProg = "select" =>
          \A d \in EsClients : esConn'[d].st = "open" => \E s \in Slots : esTable'[s].fd # 0 /\ esFd'[esTable'[s].fd] = d
    <3> SUFFICES ASSUME esProg = "select", NEW d \in EsClients, esConn'[d].st = "open"
                 PROVE  \E s \in Slots : esTable'[s].fd # 0 /\ esFd'[esTable'[s].fd] = d
      BY Zenon
    <3>1. CASE d = c
      BY <1>2, <1>10, <1>14, <3>1, SMTT(30)
    <3>2. CASE d # c
      <4>1. PICK s \in Slots : esTable[s].fd # 0 /\ esFd[esTable[s].fd] = d
        BY <1>2, <1>14, <3>2, Zenon
      <4>2. s # a
        BY <1>9, <3>2, <4>1, Zenon
      <4> QED BY <1>14, <2>2, <4>1, <4>2, Zenon
    <3> QED BY <3>1, <3>2, Zenon
  <2>7. EsSlots'
    BY <1>0, <1>3, <1>10, <2>3, <2>4, <2>5, <2>6, SMTT(30) DEF EsSlots
  <2> QED BY <1>5, <1>14, <2>1, <2>7, Zenon DEF EsIInv
<1>15. CASE esProg = "select" /\ Result(c) = "end" /\ SlotCloses(c, fd) /\ esTable' = [esTable EXCEPT ![a].fd = 0]
  <2>1. esConn[c].eof /\ 0 \in Fds
    BY <1>0, <1>10, <1>13, <1>15, EsAssumption, FS_CardinalityType DEF Fds
  <2>2. /\ esConn' \in [EsClients -> ConnStates] /\ esFd' \in [Fds -> EsClients \cup {Free, Stdin}]
        /\ (\A d \in EsClients : ConnOK(d)') /\ EsFds'
        /\ \A d \in EsClients : d # c => esConn'[d] = esConn[d]
        /\ esConn'[c].st = "closed"
        /\ \A k \in Fds : k # fd => esFd'[k] = esFd[k]
    BY <1>0, <1>9, <1>10, <1>15, <2>1, ClosesRight
  <2>3. /\ esTable' \in [Slots -> [fd : Fds, events : BOOLEAN, ready : BOOLEAN]] /\ esTable'[a].fd = 0
        /\ \A s \in Slots : s # a => esTable'[s] = esTable[s]
    BY <1>0, <1>2, <1>15, <2>1 DEF EsTypes
  <2> QED BY <1>14, <2>2, <2>3, Zenon DEF SlotOK
<1>16. CASE Answered(c) /\ UNCHANGED <<esFd, esTable>>
  <2>1. /\ esConn' \in [EsClients -> ConnStates] /\ (\A d \in EsClients : ConnOK(d)') /\ EsFds'
        /\ \A d \in EsClients : d # c => esConn'[d] = esConn[d]
        /\ esConn'[c].st = esConn[c].st
    BY <1>0, <1>10, <1>16, AnsweredRight, Zenon
  <2>2. SlotOK(a)' /\ esTable'[a].fd = fd /\ esFd'[fd] = c
    BY <1>9, <1>10, <1>16, <2>1, Zenon DEF SlotOK
  <2> QED BY <1>0, <1>14, <1>16, <2>1, <2>2, Zenon DEF EsTypes
<1>17. CASE /\ esProg = "poll" /\ Result(c) # "data" /\ esConn' = [esConn EXCEPT ![c].st = "forgotten"]
            /\ esTable' = [esTable EXCEPT ![a] = [fd |-> 0, events |-> FALSE, ready |-> FALSE]] /\ UNCHANGED esFd
  <2>1. esConn[c].eof /\ 0 \in Fds
    BY <1>13, <1>17, EsAssumption, FS_CardinalityType DEF Fds
  <2>2. PICK r : r = esConn[c] /\ r \in ConnStates
    BY <1>0, <1>10, Zenon DEF EsTypes
  <2>3. PICK q : q = [r EXCEPT !.st = "forgotten"]
    BY Zenon
  <2>4. /\ q \in ConnStates /\ q.st = "forgotten" /\ q.unread = r.unread /\ q.sent = r.sent /\ q.got = r.got
        /\ q.eof = r.eof /\ q.hup = r.hup /\ q.edge = r.edge
    BY <2>2, <2>3, Zenon DEF ConnStates
  <2>5. esConn' = [esConn EXCEPT ![c] = q]
    BY <1>17, <2>2, <2>3, Zenon
  <2>6. Moved(c, q)
    BY <1>0, <1>12, <2>1, <2>2, <2>4, <2>5, Zenon DEF Moved, ConnOK
  <2>7. /\ esConn' \in [EsClients -> ConnStates] /\ esConn'[c] = q
        /\ \A d \in EsClients : d # c => esConn'[d] = esConn[d]
        /\ \A d \in EsClients : ConnOK(d)'
    BY <1>0, <1>10, <2>6, MovedRight, Zenon
  <2>8. EsFds'
    BY <1>0, <1>17, <2>4, <2>7, Zenon DEF EsFds
  <2>9. /\ esTable' \in [Slots -> [fd : Fds, events : BOOLEAN, ready : BOOLEAN]] /\ esTable'[a].fd = 0
        /\ \A s \in Slots : s # a => esTable'[s] = esTable[s]
    BY <1>0, <1>2, <1>17, <2>1, Zenon DEF EsTypes
  <2> QED BY <1>0, <1>14, <1>17, <2>7, <2>8, <2>9, Zenon DEF SlotOK, EsTypes
<1> QED BY <1>10, <1>15, <1>16, <1>17, Zenon


-----------------------------------------------------------------------------
(* A set with a member is at least of size one. *)
LEMMA SomeMember ==
  ASSUME NEW S, IsFiniteSet(S), S # {}
  PROVE  Cardinality(S) \in Nat /\ Cardinality(S) >= 1
<1>1. Cardinality(S) \in Nat /\ Cardinality(S) # 0
  BY FS_CardinalityType, FS_EmptySet, Zenon
<1> QED BY <1>1

(* epoll_wait() returns each connection once, and takes back its event. *)
LEMMA EpollWaitKeeps ==
  ASSUME EsIInv, esProg = "epoll", epoll_wait
  PROVE  EsIInv'
<1>0. /\ EsTypes /\ (\A c \in EsClients : ConnOK(c)) /\ EsFds /\ UNCHANGED <<esProg, esFd, esTable>>
      /\ esPc' = "serve" /\ esAt' = 0 /\ EdgeFds # {}
  BY Zenon DEF EsIInv, epoll_wait, Goto
<1>1. PICK got \in SUBSET EdgeFds :
       /\ Cardinality(got) = IF Cardinality(EdgeFds) > EsMaxEvents THEN EsMaxEvents ELSE Cardinality(EdgeFds)
       /\ \E order \in Orders(got) :
            esEvents' = [s \in EventIndex |->
              IF s >= Cardinality(got) THEN OldEvent(s)
              ELSE [ fd |-> order[s + 1],
                     kind |-> IF order[s + 1] # Listening /\ esConn[esFd[order[s + 1]]].hup THEN "hup" ELSE "in" ]]
       /\ esN' = Cardinality(got)
       /\ esConn' = [c \in EsClients |->
            IF \E fd \in got \ {Listening} : esFd[fd] = c THEN [esConn[c] EXCEPT !.edge = FALSE] ELSE esConn[c]]
  BY Zenon DEF epoll_wait
<1>2. PICK n : n = Cardinality(got)
  BY Zenon
<1>3. n \in Nat /\ n >= 1 /\ n <= EsMaxEvents
  <2>1. IsFiniteSet(Fds)
    <3>1. Cardinality(EsClients) \in Nat
      BY EsAssumption, FS_CardinalityType, Zenon
    <3> QED BY <3>1, FS_Interval DEF Fds
  <2>2. IsFiniteSet(Fds \cup {Listening})
    BY <2>1, FS_AddElement, Zenon
  <2>3. EdgeFds \subseteq Fds \cup {Listening}
    BY Zenon DEF EdgeFds
  <2>4. IsFiniteSet(EdgeFds)
    BY <2>2, <2>3, FS_Subset, Zenon
  <2>5. PICK m : m = Cardinality(EdgeFds) /\ m \in Nat /\ m >= 1
    BY <1>0, <2>4, SomeMember, Zenon
  <2>6. n = IF m > EsMaxEvents THEN EsMaxEvents ELSE m
    BY <1>1, <1>2, <2>5, Zenon
  <2> QED BY <2>5, <2>6, EsAssumption
<1>4. PICK order \in Orders(got) :
        esEvents' = [s \in EventIndex |->
              IF s >= n THEN OldEvent(s)
              ELSE [ fd |-> order[s + 1],
                     kind |-> IF order[s + 1] # Listening /\ esConn[esFd[order[s + 1]]].hup THEN "hup" ELSE "in" ]]
  BY <1>1, <1>2, Zenon
<1>5. order \in [1 .. n -> got] /\ \A i, j \in 1 .. n : order[i] = order[j] => i = j
  BY <1>2, <1>4, Zenon DEF Orders
<1>6. ASSUME NEW c \in EsClients
      PROVE  /\ esConn'[c] \in ConnStates /\ esConn'[c].st = esConn[c].st /\ esConn'[c].unread = esConn[c].unread
             /\ esConn'[c].sent = esConn[c].sent /\ esConn'[c].got = esConn[c].got
             /\ esConn'[c].eof = esConn[c].eof /\ esConn'[c].hup = esConn[c].hup
             /\ esConn'[c].edge => esConn[c].edge
             /\ (\E fd \in got \ {Listening} : esFd[fd] = c) => ~esConn'[c].edge
  <2>1. PICK r : r = esConn[c] /\ r \in ConnStates
    BY <1>0, Zenon DEF EsTypes
  <2>2. CASE \E fd \in got \ {Listening} : esFd[fd] = c
    <3>1. esConn'[c] = [r EXCEPT !.edge = FALSE]
      BY <1>1, <2>1, <2>2, Zenon
    <3> QED BY <2>1, <3>1, Zenon DEF ConnStates
  <2>3. CASE ~(\E fd \in got \ {Listening} : esFd[fd] = c)
    <3>1. esConn'[c] = r
      BY <1>1, <2>1, <2>3, Zenon
    <3> QED BY <2>1, <2>3, <3>1, Zenon
  <2> QED BY <2>2, <2>3, Zenon
<1>7. EsTypes'
  <2>1. esConn' \in [EsClients -> ConnStates]
    BY <1>1, <1>6, Zenon
  <2> QED BY <1>0, <2>1, Zenon DEF EsTypes
<1>8. \A c \in EsClients : ConnOK(c)'
  BY <1>0, <1>6, Zenon DEF ConnOK
<1>9. EsFds'
  BY <1>0, <1>6, Zenon DEF EsFds
<1>10. EsSlots'
  BY <1>0, Zenon DEF EsSlots
<1>11. \A s \in Todo' : s \in EventIndex /\ s \in Nat /\ s < n /\ s + 1 \in 1 .. n /\ order[s + 1] \in got
  BY <1>0, <1>1, <1>2, <1>3, <1>5, EsAssumption DEF Todo, EventIndex
<1>12. ASSUME NEW s \in Todo'
       PROVE  EventOK(s)' /\ esEvents'[s].fd = order[s + 1]
  <2>1. ~(s >= n)
    BY <1>3, <1>11
  <2>2. PICK fd : fd = order[s + 1] /\ fd \in EdgeFds /\ fd \in got
    BY <1>1, <1>11, Zenon
  <2>3. esEvents'[s] = [fd |-> fd, kind |-> IF fd # Listening /\ esConn[esFd[fd]].hup THEN "hup" ELSE "in"]
    BY <1>4, <1>11, <2>1, <2>2, Zenon
  <2>4. esEvents'[s].fd = fd /\ esEvents'[s].kind = IF fd # Listening /\ esConn[esFd[fd]].hup THEN "hup" ELSE "in"
    BY <2>3
  <2>5. CASE fd = Listening
    BY <2>2, <2>4, <2>5, Zenon DEF EventOK
  <2>6. CASE fd # Listening
    <3>1. fd \in Fds /\ esFd[fd] \in EsClients /\ esConn[esFd[fd]].edge
      BY <1>0, <2>2, <2>6, InUse, Zenon DEF EdgeFds
    <3>2. PICK c \in EsClients : c = esFd[fd] /\ esFd'[fd] = c
      BY <1>0, <3>1, Zenon
    <3>3. ConnOK(c)
      BY <1>0, Zenon
    <3>4. Speaks(c)
      BY <3>1, <3>2, <3>3, Zenon, <1>0 DEF ConnOK, Speaks
    <3>5. Speaks(c)' /\ ~esConn'[c].edge
      BY <1>6, <2>2, <2>6, <3>2, <3>4, Zenon DEF Speaks
    <3>6. esEvents'[s].kind # "in" => esConn'[c].eof
      BY <1>6, <2>4, <3>2, <3>3, Zenon DEF ConnOK
    <3> QED BY <2>2, <2>4, <3>1, <3>2, <3>5, <3>6, Zenon DEF EventOK
  <2> QED BY <2>5, <2>6, Zenon
<1>13. \A s, t \in Todo' : esEvents'[s].fd = esEvents'[t].fd => s = t
  <2> SUFFICES ASSUME NEW s \in Todo', NEW t \in Todo', esEvents'[s].fd = esEvents'[t].fd PROVE s = t
    BY Zenon
  <2>1. s + 1 = t + 1
    BY <1>5, <1>11, <1>12, Zenon
  <2> QED BY <1>11, <2>1
<1>14. EsPending'
  <2>1. esN' = n
    BY <1>1, <1>2, Zenon
  <2> QED BY <1>0, <1>3, <1>12, <1>13, <2>1 DEF EsPending
<1> QED BY <1>7, <1>8, <1>9, <1>10, <1>14, Zenon DEF EsIInv

(* An event that is handled is of a connection with something to read or of one that was left,
   and the events after it are of other connections. *)
LEMMA EventStepKeeps ==
  ASSUME EsIInv, esProg = "epoll", EventStep
  PROVE  EsIInv'
<1>0. /\ EsTypes /\ (\A c \in EsClients : ConnOK(c)) /\ EsFds /\ EsPending
      /\ esPc = "serve" /\ UNCHANGED <<esProg, esListen, esTable, esEvents, esN>>
  BY Zenon DEF EsIInv, EventStep
<1>1. PICK a, n : a = esAt /\ n = esN
  BY Zenon
<1>2. /\ a \in Nat /\ n \in Nat /\ n <= EsMaxEvents /\ a < n /\ a \in Todo
      /\ \A s \in Todo : EventOK(s)
      /\ \A s, t \in Todo : esEvents[s].fd = esEvents[t].fd => s = t
  BY <1>0, <1>1, EsAssumption DEF EsPending, EsTypes, Todo, EventIndex
<1>3. EsSlots'
  BY <1>0, Zenon DEF EsSlots
<1>4. NextEvent => \/ esPc' = "wait" /\ esAt' = 0
                   \/ esPc' = "serve" /\ esAt' = a + 1 /\ a + 1 < n /\ Todo' \subseteq Todo \ {a}
  <2>1. LastEvent = n
    BY <1>1, Zenon DEF LastEvent
  <2>2. NextEvent => \/ esPc' = "wait" /\ esAt' = 0
                     \/ esPc' = "serve" /\ esAt' = a + 1 /\ ~(a + 1 >= n)
    BY <1>1, <2>1, Zenon DEF NextEvent, Goto
  <2>3. ~(a + 1 >= n) => a + 1 < n
    BY <1>2
  <2>4. esAt' = a + 1 => Todo' \subseteq Todo \ {a}
    BY <1>0, <1>1, <1>2, EsAssumption DEF Todo, EventIndex
  <2> QED BY <2>2, <2>3, <2>4, Zenon
<1>5. ASSUME \/ esPc' \in {"wait", "exited"} /\ esAt' = 0
             \/ esPc' = "serve" /\ esAt' \in Nat /\ esAt' < n /\ Todo' \subseteq Todo /\ \A s \in Todo' : EventOK(s)',
             EsTypes' \/ (esConn' \in [EsClients -> ConnStates] /\ esFd' \in [Fds -> EsClients \cup {Free, Stdin}]),
             \A d \in EsClients : ConnOK(d)', EsFds'
      PROVE  EsIInv'
  <2>1. EsTypes'
    BY <1>0, <1>5 DEF EsTypes
  <2>2. EsPending'
    BY <1>0, <1>1, <1>2, <1>5, Zenon DEF EsPending
  <2> QED BY <1>3, <1>5, <2>1, <2>2, Zenon DEF EsIInv
<1>6. PICK e : e = esEvents[a]
  BY Zenon
<1>7. EventOK(a)
  BY <1>2, Zenon
<1>8. CASE e.fd = Listening /\ e.kind = "in"
  <2>1. handle_conn
    BY <1>1, <1>6, <1>8, Zenon DEF EventStep
  <2>2. CASE Queued = {}
    <3>1. NextEvent /\ UNCHANGED <<esConn, esFd>>
      BY <2>1, <2>2, Zenon DEF handle_conn
    <3>2. (\A d \in EsClients : ConnOK(d)') /\ EsFds'
      BY <1>0, <3>1, Zenon DEF ConnOK, EsFds
    <3>3. \A s \in Todo : EventOK(s)'
      BY <1>0, <1>2, <3>1, Zenon DEF EventOK, Speaks
    <3>4. a + 1 \in Nat
      BY <1>2
    <3> QED BY <1>0, <1>4, <1>5, <3>1, <3>2, <3>3, <3>4, Zenon DEF EsTypes
  <2>3. CASE Queued # {}
    <3>1. PICK c \in Queued : Accepts(c)
      BY <1>0, <2>1, <2>3, Zenon DEF handle_conn, Accepts
    <3>2. UNCHANGED <<esPc, esAt>>
      BY <2>1, <2>3, Zenon DEF handle_conn, esLoop
    <3>3. /\ esConn' \in [EsClients -> ConnStates] /\ esFd' \in [Fds -> EsClients \cup {Free, Stdin}]
          /\ (\A d \in EsClients : ConnOK(d)') /\ EsFds'
          /\ \A d \in EsClients : d # c => esConn'[d] = esConn[d]
          /\ \A fd \in Fds : fd # LowestFree => esFd'[fd] = esFd[fd]
          /\ \A fd \in Fds : esFd[fd] \in EsClients => esFd[fd] # c /\ fd # LowestFree
      BY <1>0, <3>1, AcceptsRight, Zenon
    <3>4. ASSUME NEW s \in Todo PROVE EventOK(s)'
      <4>1. EventOK(s) /\ esEvents'[s] = esEvents[s]
        BY <1>0, <1>2, Zenon
      <4>2. CASE esEvents[s].fd = Listening /\ esEvents[s].kind = "in"
        BY <4>1, <4>2, Zenon DEF EventOK
      <4>3. CASE ~(esEvents[s].fd = Listening /\ esEvents[s].kind = "in")
        <5>1. PICK k : k = esEvents[s].fd /\ k \in Fds /\ esFd[k] \in EsClients
          BY <4>1, <4>3, Zenon DEF EventOK
        <5>2. esFd'[k] = esFd[k] /\ esConn'[esFd[k]] = esConn[esFd[k]]
          BY <3>3, <5>1, Zenon
        <5> QED BY <4>1, <4>3, <5>1, <5>2, ZenonT(30) DEF EventOK, Speaks
      <4> QED BY <4>2, <4>3, Zenon
    <3>5. Todo' = Todo
      BY <1>0, <3>2, Zenon DEF Todo
    <3> QED BY <1>0, <1>1, <1>2, <1>5, <3>2, <3>3, <3>4, <3>5, Zenon
  <2> QED BY <2>2, <2>3, Zenon
<1>9. CASE ~(e.fd = Listening /\ e.kind = "in")
  <2>1. PICK fd, c : fd = e.fd /\ c = esFd[fd]
    BY Zenon
  <2>2. /\ fd \in Fds /\ c \in EsClients /\ Speaks(c) /\ (esConn[c].edge => esConn[c].eof)
        /\ (e.kind # "in" => esConn[c].eof) /\ fd # Listening
    <3>1. fd \in Fds => fd # Listening
      BY EsAssumption, FS_CardinalityType DEF Fds, Listening
    <3> QED BY <1>6, <1>7, <1>9, <2>1, <3>1, Zenon DEF EventOK
  <2>3. \A s \in Todo \ {a} : esEvents[s].fd # fd
    BY <1>2, <1>6, <2>1, Zenon
  <2>4. ASSUME \A d \in EsClients : d # c => esConn'[d] = esConn[d],
               \A k \in Fds : k # fd => esFd'[k] = esFd[k], NEW s \in Todo \ {a}
        PROVE  EventOK(s)'
    <3>1. EventOK(s) /\ esEvents'[s] = esEvents[s]
      BY <1>0, <1>2, Zenon
    <3>2. CASE esEvents[s].fd = Listening /\ esEvents[s].kind = "in"
      BY <3>1, <3>2, Zenon DEF EventOK
    <3>3. CASE ~(esEvents[s].fd = Listening /\ esEvents[s].kind = "in")
      <4>1. PICK k : k = esEvents[s].fd /\ k \in Fds /\ k # fd /\ esFd[k] \in EsClients
        BY <2>3, <3>1, <3>3, Zenon DEF EventOK
      <4>2. esFd[k] # c /\ esFd'[k] = esFd[k]
        BY <1>0, <2>1, <2>2, <2>4, <4>1, ZenonT(30) DEF EsFds
      <4>3. esConn'[esFd[k]] = esConn[esFd[k]]
        BY <2>4, <4>1, <4>2, Zenon
      <4> QED BY <3>1, <3>3, <4>1, <4>2, <4>3, Zenon DEF EventOK, Speaks
    <3> QED BY <3>2, <3>3, Zenon
  <2>5. \/ Answered(c) /\ NextEvent /\ UNCHANGED esFd /\ Result(c) = "data"
        \/ esPc' = "exited" /\ esAt' = 0 /\ UNCHANGED <<esConn, esFd>>
        \/ SlotCloses(c, fd) /\ NextEvent /\ esConn[c].eof
    <3>1. c > 0 /\ ~(c <= 0)
      BY <2>2, EsAssumption
    <3>2. CASE e.kind # "in"
      <4>1. close_fd(fd)
        BY <1>1, <1>6, <2>1, <3>2, Zenon DEF EventStep
      <4>2. esConn' = [esConn EXCEPT ![c] = Closed(c)]
        BY <1>0, <2>1, <2>2, <4>1, Zenon DEF close_fd, EsTypes
      <4> QED BY <1>0, <2>2, <3>2, <4>1, <4>2, Zenon DEF close_fd, SlotCloses
    <3>3. CASE e.kind = "in"
      <4>1. handle_client(fd)
        BY <1>1, <1>6, <2>1, <2>2, <3>3, Zenon DEF EventStep
      <4>2. \/ Result(c) = "data" /\ Answered(c) /\ NextEvent /\ UNCHANGED esFd
            \/ Goto("exited", 0) /\ UNCHANGED <<esConn, esFd>>
            \/ /\ Result(c) # "data"
               /\ esConn' = [esConn EXCEPT ![c] = Closed(c)] /\ esFd' = [esFd EXCEPT ![fd] = Free] /\ NextEvent
        BY <2>1, <3>1, <4>1, Zenon DEF handle_client
      <4>3. esConn[c].hup \in BOOLEAN /\ esConn[c].eof \in BOOLEAN /\ esConn[c].unread \in Nat /\ ConnOK(c)
        BY <1>0, <2>2, Zenon DEF EsTypes, ConnStates
      <4>4. Result(c) # "data" => esConn[c].eof
        BY <2>2, <4>3 DEF Result, Speaks, ConnOK
      <4> QED BY <1>0, <4>2, <4>4, Zenon DEF SlotCloses, Goto
    <3> QED BY <3>2, <3>3, Zenon
  <2>6. CASE Answered(c) /\ NextEvent /\ UNCHANGED esFd /\ Result(c) = "data"
    <3>1. esConn[c].unread > 0
      <4>1. esConn[c].hup \in BOOLEAN /\ esConn[c].eof \in BOOLEAN /\ esConn[c].unread \in Nat
        BY <1>0, <2>2, Zenon DEF EsTypes, ConnStates
      <4> QED BY <2>6, <4>1 DEF Result
    <3>2. /\ esConn' \in [EsClients -> ConnStates] /\ (\A d \in EsClients : ConnOK(d)') /\ EsFds'
          /\ \A d \in EsClients : d # c => esConn'[d] = esConn[d]
      BY <1>0, <2>2, <2>6, <3>1, AnsweredRight, Zenon
    <3>3. \A s \in Todo \ {a} : EventOK(s)'
      BY <2>4, <2>6, <3>2, Zenon
    <3>4. a + 1 \in Nat /\ esFd' \in [Fds -> EsClients \cup {Free, Stdin}]
      BY <1>0, <1>2, <2>6 DEF EsTypes
    <3> QED BY <1>4, <1>5, <2>6, <3>2, <3>3, <3>4, Zenon
  <2>7. CASE esPc' = "exited" /\ esAt' = 0 /\ UNCHANGED <<esConn, esFd>>
    <3>1. (\A d \in EsClients : ConnOK(d)') /\ EsFds'
      BY <1>0, <2>7, Zenon DEF ConnOK, EsFds
    <3> QED BY <1>0, <1>5, <2>7, <3>1, Zenon DEF EsTypes
  <2>8. CASE SlotCloses(c, fd) /\ NextEvent /\ esConn[c].eof
    <3>1. /\ esConn' \in [EsClients -> ConnStates] /\ esFd' \in [Fds -> EsClients \cup {Free, Stdin}]
          /\ (\A d \in EsClients : ConnOK(d)') /\ EsFds'
          /\ \A d \in EsClients : d # c => esConn'[d] = esConn[d]
          /\ \A k \in Fds : k # fd => esFd'[k] = esFd[k]
      BY <1>0, <2>1, <2>2, <2>8, ClosesRight, SMTT(30)
    <3>2. \A s \in Todo \ {a} : EventOK(s)'
      BY <2>4, <3>1, Zenon
    <3>3. a + 1 \in Nat
      BY <1>2
    <3> QED BY <1>4, <1>5, <2>8, <3>1, <3>2, <3>3, Zenon
  <2> QED BY <2>5, <2>6, <2>7, <2>8, Zenon
<1> QED BY <1>8, <1>9, Zenon


-----------------------------------------------------------------------------
(* At the start nobody has connected, and all slots are free. *)
LEMMA EsStarts ==
  ASSUME EsInit
  PROVE  EsIInv
<1>1. /\ esConn = [c \in EsClients |-> NewConn] /\ esFd = [fd \in Fds |-> IF fd = 0 THEN Stdin ELSE Free]
      /\ esTable = [s \in Slots |-> [fd |-> 0, events |-> TRUE, ready |-> FALSE]]
      /\ esPc = "wait" /\ esAt = 0
  BY Zenon DEF EsInit
<1>2. NewConn \in ConnStates /\ 0 \in Fds
  BY EsAssumption, FS_CardinalityType DEF NewConn, ConnStates, Fds
<1>3. EsTypes
  BY <1>1, <1>2, Zenon DEF EsTypes
<1>4. \A c \in EsClients : ConnOK(c)
  BY <1>1 DEF ConnOK, NewConn
<1>5. /\ \A fd \in Fds : esFd[fd] \notin EsClients
      /\ \A fd \in Fds : esFd[fd] = Stdin <=> fd = 0
  BY <1>1, <1>3, InUse DEF Free, Stdin
<1>6. EsFds
  BY <1>5, Zenon DEF EsFds
<1>7. EsSlots
  BY <1>1, Zenon DEF EsSlots, SlotOK, NewConn
<1>8. EsPending
  BY <1>1, Zenon DEF EsPending
<1> QED BY <1>3, <1>4, <1>6, <1>7, <1>8, Zenon DEF EsIInv

(* Slots and connections of the select server correspond, and nobody is given up early. *)
LEMMA EsIInvIsEnough ==
  ASSUME EsIInv
  PROVE  EsInv
<1>1. CASE esProg = "thread"
  BY <1>1, Zenon DEF EsInv, EsServedUntilLeft, EsSlotPerConnection
<1>2. CASE esProg # "thread"
  <2>0. EsTypes /\ (\A c \in EsClients : ConnOK(c)) /\ EsFds /\ EsSlots
    BY <1>2, Zenon DEF EsIInv
  <2>1. EsServedUntilLeft
    BY <2>0, Zenon DEF EsServedUntilLeft, ConnOK
  <2>2. EsSlotPerConnection
    <3> SUFFICES ASSUME esProg = "select", esPc # "exited" PROVE EsSlotPerConnection
      BY Zenon DEF EsSlotPerConnection
    <3>1. \A s \in Slots : esTable[s].fd # 0 => esTable[s].fd \in Fds /\ esFd[esTable[s].fd] \in EsClients
      BY <2>0, Zenon DEF EsSlots, SlotOK, EsTypes
    <3>2. \A s \in Slots : esTable[s].fd # 0 => esFd[esTable[s].fd] > 0
      BY <2>0, <3>1, InUse, Zenon
    <3>3. ASSUME NEW c \in EsClients, esConn[c].st = "open"
          PROVE  Cardinality({s \in Slots : esTable[s].fd # 0 /\ esFd[esTable[s].fd] = c}) = 1
      <4>1. PICK t \in Slots : esTable[t].fd # 0 /\ esFd[esTable[t].fd] = c
        BY <2>0, <3>3, Zenon DEF EsSlots
      <4>2. \A s \in Slots : esTable[s].fd # 0 /\ esFd[esTable[s].fd] = c => s = t
        BY <2>0, <3>1, <4>1, Zenon DEF EsSlots, EsFds
      <4>3. {s \in Slots : esTable[s].fd # 0 /\ esFd[esTable[s].fd] = c} = {t}
        BY <4>1, <4>2, Zenon
      <4> QED BY <4>3, FS_Singleton, Zenon
    <3> QED BY <3>2, <3>3, Zenon DEF EsSlotPerConnection
  <2> QED BY <2>1, <2>2, Zenon DEF EsInv
<1> QED BY <1>1, <1>2, Zenon

(* sock-select-tcp, sock-poll-tcp and sock-epoll-tcp, for every number of clients, messages,
   slots and events: a connection is given up only after its client has left it, and each open
   connection of the select server has exactly one slot of client_socket[]. *)
THEOREM EchoServersKeepTheirClients == EsSpec => []EsInv
<1>1. EsInit => EsIInv /\ esProg \in EsPrograms
  BY EsStarts, Zenon DEF EsInit
<1>2. EsIInv /\ esProg \in EsPrograms /\ [EsNext]_esVars => (EsIInv /\ esProg \in EsPrograms)'
  <2> SUFFICES ASSUME EsIInv, esProg \in EsPrograms, [EsNext]_esVars
               PROVE  (EsIInv /\ esProg \in EsPrograms)'
    BY Zenon
  <2>1. esProg' = esProg
    BY Zenon DEF EsNext, ClientMoves, EsServer, TableWait, select_accept, poll_accept, ServeSlot, epoll_wait, EventStep, esVars
  <2>2. CASE esProg = "thread"
    BY <2>1, <2>2, Zenon DEF EsIInv
  <2>3. CASE esProg # "thread" /\ EsNext
    <3> SUFFICES EsIInv'
      BY <2>1, Zenon
    <3>1. CASE ClientMoves
      BY <2>3, <3>1, ClientKeeps, Zenon
    <3>2. CASE TableWait
      BY <2>3, <3>2, TableWaitKeeps, Zenon
    <3>3. CASE select_accept \/ poll_accept
      BY <3>3, AcceptKeeps, Zenon
    <3>4. CASE ServeSlot
      BY <2>3, <3>4, ServeSlotKeeps, Zenon
    <3>5. CASE epoll_wait \/ EventStep
      <4>1. esProg = "epoll"
        BY <2>3, <3>5, Zenon DEF epoll_wait, EventStep, UsesEpoll
      <4> QED BY <3>5, <4>1, EpollWaitKeeps, EventStepKeeps, Zenon
    <3> QED BY <2>3, <3>1, <3>2, <3>3, <3>4, <3>5, Zenon DEF EsNext, EsServer
  <2>4. CASE esProg # "thread" /\ UNCHANGED esVars
    <3>1. UNCHANGED <<esProg, esConn, esFd, esListen, esTable, esEvents, esN, esPc, esAt>>
      BY <2>4, Zenon DEF esVars
    <3>2. EsTypes' /\ (\A c \in EsClients : ConnOK(c)') /\ EsFds'
      BY <2>4, <3>1, Zenon DEF EsIInv, EsTypes, ConnOK, EsFds
    <3>3. EsSlots'
      BY <2>4, <3>1, ZenonT(30) DEF EsIInv, EsSlots, SlotOK, ReadyOK, Speaks
    <3>4. EsPending'
      BY <2>4, <3>1, Zenon DEF EsIInv, EsPending, EventOK, Todo, Speaks
    <3> QED BY <2>1, <3>2, <3>3, <3>4, Zenon DEF EsIInv
  <2> QED BY <2>2, <2>3, <2>4, Zenon
<1> QED BY <1>1, <1>2, EsIInvIsEnough, PTL DEF EsSpec

(* Sets of no element and of one: the accepts under way, and the elements that the walk
   over the list has not freed. *)
LEMMA FewElements == Cardinality({}) = 0 /\ \A x : Cardinality({x}) = 1
BY FS_EmptySet, FS_Singleton, Zenon

-----------------------------------------------------------------------------
(* HttpServers: who an answer goes to *)

(* the two servers, and where each connection stands *)
HtTypes ==
  /\ htTaken \in Nat /\ htCame \in Nat /\ htTaken <= htCame /\ htCame <= HtConns
  /\ clients \in [ConnSlots -> {-1} \cup Conns]
  /\ htParent \in [pc : {"accept", "close", "next"}, slot : ConnSlots]
  /\ htChild \in [Conns -> [pc : {"none", "recv", "route", "reset", "crashed", "gone"}, slot : ConnSlots]]
  /\ htFd \in [Conns -> 0 .. HtConns]

(* nat-server: the parent accepts into a free slot only, and a slot names its child
   until the child has put -1 there *)
HtSlotsKept ==
  /\ htParent.pc = "accept" => clients[htParent.slot] = -1
  /\ \A c \in Conns : htChild[c].pc \in {"recv", "route", "reset"} => clients[htChild[c].slot] = c

(* the reads and writes submitted to the ring, and what the ring returns *)
Transfers == [kind : {"read", "write"}, fd : Conns, for : 0 .. HtConns]
Completions ==
  [req : {Accept}, res : {"done"}, fd : Conns]
    \cup [req : Transfers, res : {"get", "other", "malformed", "empty", "error", "done"}, fd : {0}]

(* the descriptor a completion is about *)
FdOf(e) == IF e.req = Accept THEN e.fd ELSE e.req.fd

(* io_uring server: a descriptor with a request or a completion is open and has no
   second one, and a write is for the connection that has its descriptor *)
HtRingKept ==
  /\ htSqe \subseteq {Accept} \cup Transfers /\ htCqe \subseteq Completions
  /\ \A r \in htSqe : r # Accept => htFd[r.fd] # 0
  /\ \A e \in htCqe : htFd[FdOf(e)] # 0
  /\ \A r \in htSqe : r.kind = "write" => r.for = htFd[r.fd]
  /\ \A r, q \in htSqe : r # Accept /\ q # Accept /\ r.fd = q.fd => r = q
  /\ \A e, f \in htCqe : FdOf(e) = FdOf(f) => e = f
  /\ \A r \in htSqe, e \in htCqe : r # Accept => r.fd # FdOf(e)

(* one accept is submitted, or completed and not yet seen *)
HtAcceptKept ==
  htProg = "uring" /\ htUp =>
    \/ Accept \in htSqe /\ \A e \in htCqe : e.req # Accept
    \/ Accept \notin htSqe /\ \E e \in htCqe : \A f \in htCqe : f.req = Accept <=> f = e

HtIInv == HtTypes /\ HtSlotsKept /\ HtRingKept /\ HtAcceptKept /\ HtAnswersOwn

(* The event_type that add_accept_request stores tells an accept from a read or a write
   (main.c:102-137). *)
LEMMA AcceptKind ==
  /\ Accept.kind = "accept" /\ Accept \notin Transfers
  /\ \A r \in Transfers : r.kind # "accept" /\ r # Accept /\ r.fd \in Conns
BY DEF Accept, Req, Transfers

(* A completion is of the accept request, with the descriptor it made, or of a transfer of
   its own descriptor. *)
LEMMA CompletionKind ==
  ASSUME NEW e \in Completions
  PROVE  /\ FdOf(e) \in Conns
         /\ \/ e.req = Accept /\ FdOf(e) = e.fd /\ e.req.kind = "accept" /\ e.res = "done"
            \/ e.req \in Transfers /\ e.req # Accept /\ FdOf(e) = e.req.fd /\ e.req.kind # "accept"
<1>1. CASE e \in [req : {Accept}, res : {"done"}, fd : Conns]
  BY <1>1, AcceptKind, Zenon DEF FdOf
<1>2. CASE e \in [req : Transfers, res : {"get", "other", "malformed", "empty", "error", "done"}, fd : {0}]
  <2>1. e.req \in Transfers
    BY <1>2, Zenon
  <2> QED BY <2>1, AcceptKind, Zenon DEF FdOf
<1> QED BY <1>1, <1>2, Zenon DEF Completions

(* A step that submits, completes and sees only reads and writes leaves the one accept
   where it is. *)
LEMMA AcceptUnmoved ==
  ASSUME HtAcceptKept, htProg = "uring", htUp, Accept \in htSqe' <=> Accept \in htSqe,
         \A e \in htCqe \cup htCqe' : e.req = Accept => e \in htCqe /\ e \in htCqe'
  PROVE  HtAcceptKept'
<1>1. CASE Accept \in htSqe /\ \A e \in htCqe : e.req # Accept
  <2>1. Accept \in htSqe' /\ \A e \in htCqe' : e.req # Accept
    BY <1>1, Zenon
  <2> QED BY <2>1, Zenon DEF HtAcceptKept
<1>2. CASE Accept \notin htSqe /\ \E e \in htCqe : \A f \in htCqe : f.req = Accept <=> f = e
  <2>1. PICK e \in htCqe : \A f \in htCqe : f.req = Accept <=> f = e
    BY <1>2, Zenon
  <2>2. e \in htCqe' /\ \A f \in htCqe' : f.req = Accept <=> f = e
    BY <2>1, Zenon
  <2> QED BY <1>2, <2>2, Zenon DEF HtAcceptKept
<1> QED BY <1>1, <1>2, Zenon DEF HtAcceptKept

(* A browser that connects waits in the backlog: no slot and no request changes. *)
LEMMA ComesKeeps == HtIInv /\ Comes => HtIInv'
BY HtAssumption DEF Comes, htForkVars, htRingVars, HtIInv, HtTypes, HtSlotsKept, HtRingKept, HtAcceptKept, HtAnswersOwn

(* The parent of nat-server takes a free slot, forks and closes its copy; the slots of
   the running children are not touched (nat_httpd.c:34-79). *)
LEMMA ServeForeverKeeps ==
  ASSUME HtIInv, serve_forever
  PROVE  HtIInv'
<1> USE HtAssumption
<1>1. /\ HtRingKept' /\ HtAnswersOwn' /\ htFd' = htFd /\ htCame' = htCame
      /\ (htTaken' = htTaken => HtAcceptKept')
  BY Zenon DEF serve_forever, htRingVars, HtIInv, HtRingKept, HtAcceptKept, HtAnswersOwn
<1>2. HtAcceptKept'
  BY Zenon DEF serve_forever, htRingVars, HtIInv, HtAcceptKept
<1>3. CASE accept_fork
  <2> DEFINE n == htTaken + 1
             s == htParent.slot
  <2>1. n \in Conns /\ s \in ConnSlots /\ clients[s] = -1 /\ n # -1
    BY <1>3 DEF accept_fork, HtIInv, HtTypes, HtSlotsKept, Conns
  <2>2. /\ htTaken' = n /\ clients' = [clients EXCEPT ![s] = n]
        /\ htChild' = [htChild EXCEPT ![n] = [pc |-> "recv", slot |-> s]]
        /\ htParent' = [htParent EXCEPT !.pc = "close"] /\ htTaken < htCame
    BY <1>3, Zenon DEF accept_fork
  <2> HIDE DEF n, s
  <2>3. HtTypes'
    BY <1>1, <2>1, <2>2 DEF HtIInv, HtTypes, n
  <2>4. ASSUME NEW c \in Conns, htChild'[c].pc \in {"recv", "route", "reset"} PROVE clients'[htChild'[c].slot] = c
    <3>1. CASE c = n
      BY <2>1, <2>2, <3>1, Zenon DEF HtIInv, HtTypes
    <3>2. CASE c # n
      <4>1. htChild'[c] = htChild[c] /\ htChild[c].slot \in ConnSlots
        BY <2>2, <3>2, Zenon DEF HtIInv, HtTypes
      <4>2. clients[htChild[c].slot] = c /\ c # -1
        BY <2>4, <4>1 DEF HtIInv, HtSlotsKept, Conns
      <4>3. htChild[c].slot # s
        BY <2>1, <4>2, Zenon
      <4> QED BY <2>2, <4>1, <4>2, <4>3, Zenon DEF HtIInv, HtTypes
    <3> QED BY <3>1, <3>2, Zenon
  <2>5. htParent'.pc # "accept"
    BY <2>2, Zenon DEF HtIInv, HtTypes
  <2> QED BY <1>1, <1>2, <2>3, <2>4, <2>5, Zenon DEF HtIInv, HtSlotsKept
<1>4. CASE parent_close
  BY <1>1, <1>2, <1>4, Zenon DEF parent_close, HtIInv, HtTypes, HtSlotsKept
<1>5. CASE next_slot
  <2>1. htParent'.slot \in ConnSlots
    BY <1>5 DEF next_slot, HtIInv, HtTypes, ConnSlots
  <2>2. htParent' \in [pc : {"accept", "close", "next"}, slot : ConnSlots]
    BY <1>5, <2>1, Zenon DEF next_slot, HtIInv, HtTypes
  <2>3. UNCHANGED <<clients, htChild, htTaken>>
    BY <1>5, Zenon DEF next_slot
  <2>4. htParent'.pc = "accept" => clients[htParent'.slot] = -1
    BY <1>5, Zenon DEF next_slot, HtIInv, HtTypes
  <2> QED BY <1>1, <1>2, <2>2, <2>3, <2>4, Zenon DEF HtIInv, HtTypes, HtSlotsKept
<1> QED BY <1>3, <1>4, <1>5, Zenon DEF serve_forever

(* A child of nat-server answers the connection it was forked for, and frees its own slot
   last (nat_httpd.c:65-70, 161-231). *)
LEMMA ChildKeeps ==
  ASSUME HtIInv, NEW c \in Conns, Child(c)
  PROVE  HtIInv'
<1> USE HtAssumption
<1>1. /\ HtRingKept' /\ HtAcceptKept' /\ UNCHANGED <<htFd, htCame, htTaken, htParent>>
  BY Zenon DEF Child, htRingVars, HtIInv, HtRingKept, HtAcceptKept
<1>2. PICK pc \in {"route", "reset", "crashed", "gone"} : htChild' = [htChild EXCEPT ![c].pc = pc]
  BY Zenon DEF Child, respond_recv, respond_route, child_reset
<1>3. htChild' \in [Conns -> [pc : {"none", "recv", "route", "reset", "crashed", "gone"}, slot : ConnSlots]]
  BY <1>2, Zenon DEF HtIInv, HtTypes
<1>4. /\ \A d \in Conns : htChild'[d].slot = htChild[d].slot /\ htChild[d].slot \in ConnSlots
      /\ \A d \in Conns \ {c} : htChild'[d].pc = htChild[d].pc
      /\ htChild'[c].pc = pc
  BY <1>2, Zenon DEF HtIInv, HtTypes
<1>5. htChild[c].pc \in {"recv", "route", "reset"} /\ clients[htChild[c].slot] = c
  BY Zenon DEF Child, respond_recv, respond_route, child_reset, HtIInv, HtSlotsKept
<1>6. CASE clients' = clients
  <2>1. HtTypes' /\ HtSlotsKept'
    BY <1>1, <1>3, <1>4, <1>5, <1>6, Zenon DEF HtIInv, HtTypes, HtSlotsKept
  <2>2. HtAnswersOwn'
    <3>1. htWrote' = htWrote \/ htWrote' = htWrote \cup {<<c, clients[htChild[c].slot]>>}
      BY Zenon DEF Child, respond_recv, respond_route, child_reset
    <3> QED BY <1>5, <3>1 DEF HtIInv, HtAnswersOwn
  <2> QED BY <1>1, <2>1, <2>2, Zenon DEF HtIInv
<1>7. CASE child_reset(c)
  <2> DEFINE s == htChild[c].slot
  <2>1. clients' = [clients EXCEPT ![s] = -1] /\ htWrote' = htWrote /\ htChild' = [htChild EXCEPT ![c].pc = "gone"]
    BY <1>7, Zenon DEF child_reset
  <2>2. HtTypes'
    BY <1>1, <1>3, <2>1, Zenon DEF HtIInv, HtTypes
  <2>3. htParent.pc = "accept" => clients'[htParent.slot] = -1
    BY <1>4, <2>1, Zenon DEF HtIInv, HtTypes, HtSlotsKept
  <2>4. ASSUME NEW d \in Conns, htChild'[d].pc \in {"recv", "route", "reset"} PROVE clients'[htChild'[d].slot] = d
    <3>1. d # c
      BY <2>1, <2>4, Zenon DEF HtIInv, HtTypes
    <3>2. clients[htChild[d].slot] = d
      BY <1>4, <2>4, <3>1, Zenon DEF HtIInv, HtSlotsKept
    <3>3. htChild[d].slot # s
      BY <1>5, <3>1, <3>2, Zenon
    <3> QED BY <1>4, <2>1, <3>2, <3>3, Zenon DEF HtIInv, HtTypes
  <2>5. HtAnswersOwn'
    BY <2>1, Zenon DEF HtIInv, HtAnswersOwn
  <2> QED BY <1>1, <2>2, <2>3, <2>4, <2>5, Zenon DEF HtIInv, HtSlotsKept
<1> QED BY <1>6, <1>7, Zenon DEF Child, respond_recv, respond_route

(* The kernel completes a request: a connection gets a descriptor nobody has, and a read or
   a write keeps the one it has. *)
LEMMA KernelKeeps ==
  ASSUME HtIInv, Kernel
  PROVE  HtIInv'
<1> USE HtAssumption
<1>1. HtSlotsKept' /\ UNCHANGED <<htProg, htUp, htCame, clients, htParent, htChild>> /\ htProg = "uring" /\ htUp
  BY Zenon DEF Kernel, htForkVars, HtIInv, HtSlotsKept
<1>2. CASE AcceptCompletes
  <2>1. PICK d \in Conns : /\ htFd[d] = 0 
                           /\ htFd' = [htFd EXCEPT ![d] = htTaken + 1]
                           /\ htCqe' = htCqe \cup {[req |-> Accept, res |-> "done", fd |-> d]}
    BY <1>2, Zenon DEF AcceptCompletes
  <2>2. htSqe' = htSqe \ {Accept} /\ htWrote' = htWrote /\ Accept \in htSqe /\ htTaken' = htTaken + 1 /\ htTaken < htCame
    BY <1>2, Zenon DEF AcceptCompletes
  <2>3. HtTypes'
    BY <1>1, <2>1, <2>2 DEF HtIInv, HtTypes
  <2>4. PICK a : a = [req |-> Accept, res |-> "done", fd |-> d]
    BY Zenon
  <2>5. a \in Completions /\ a.req = Accept /\ FdOf(a) = d
    BY <2>4, Zenon DEF Completions, FdOf
  <2>6. htFd'[d] # 0 /\ \A k \in Conns : k # d => htFd'[k] = htFd[k]
    BY <2>1 DEF HtIInv, HtTypes
  <2>7. \A r \in htSqe : r # Accept => r.fd \in Conns /\ r.fd # d
    BY <2>1, AcceptKind, Zenon DEF HtIInv, HtRingKept
  <2>8. \A e \in htCqe : FdOf(e) \in Conns /\ FdOf(e) # d
    BY <2>1, CompletionKind, Zenon DEF HtIInv, HtRingKept
  <2>9. HtRingKept'
    <3>1. htSqe' \subseteq {Accept} \cup Transfers /\ htCqe' \subseteq Completions
      BY <2>1, <2>2, <2>4, <2>5, Zenon DEF HtIInv, HtRingKept
    <3>2. /\ \A r \in htSqe' : r # Accept => htFd'[r.fd] # 0
          /\ \A e \in htCqe' : htFd'[FdOf(e)] # 0
          /\ \A r \in htSqe' : r.kind = "write" => r.for = htFd'[r.fd]
      BY <2>1, <2>2, <2>4, <2>5, <2>6, <2>7, <2>8, AcceptKind, SMTT(30) DEF HtIInv, HtRingKept
    <3>3. /\ \A r, q \in htSqe' : r # Accept /\ q # Accept /\ r.fd = q.fd => r = q
          /\ \A e, f \in htCqe' : FdOf(e) = FdOf(f) => e = f
          /\ \A r \in htSqe', e \in htCqe' : r # Accept => r.fd # FdOf(e)
      BY <2>1, <2>2, <2>4, <2>5, <2>7, <2>8, Zenon DEF HtIInv, HtRingKept
    <3> QED BY <3>1, <3>2, <3>3, Zenon DEF HtRingKept
  <2>10. HtAcceptKept'
    <3>1. \A e \in htCqe : e.req # Accept
      BY <1>1, <2>2, Zenon DEF HtIInv, HtAcceptKept
    <3>2. Accept \notin htSqe' /\ a \in htCqe' /\ \A f \in htCqe' : f.req = Accept <=> f = a
      BY <2>1, <2>2, <2>4, <2>5, <3>1, Zenon
    <3> QED BY <3>2, Zenon DEF HtAcceptKept
  <2> QED BY <1>1, <2>2, <2>3, <2>9, <2>10, Zenon DEF HtIInv, HtAnswersOwn
<1>3. ASSUME NEW r \in htSqe, r.kind \in {"read", "write"}, NEW res \in {"get", "other", "malformed", "empty", "error", "done"},
             htSqe' = htSqe \ {r}, htCqe' = htCqe \cup {[req |-> r, res |-> res, fd |-> 0]},
             UNCHANGED <<htFd, htTaken>>
      PROVE  HtTypes' /\ HtRingKept' /\ HtAcceptKept'
  <2>1. HtTypes'
    BY <1>1, <1>3, Zenon DEF HtIInv, HtTypes
  <2>2. r # Accept /\ r \in Transfers
    BY <1>3, AcceptKind, Zenon DEF HtIInv, HtRingKept
  <2>3. PICK a : a = [req |-> r, res |-> res, fd |-> 0]
    BY Zenon
  <2>4. a \in Completions /\ FdOf(a) = r.fd /\ a.req # Accept
    BY <2>2, <2>3, Zenon DEF Completions, FdOf
  <2>5. HtRingKept'
    <3>1. htSqe' \subseteq {Accept} \cup Transfers /\ htCqe' \subseteq Completions
      BY <1>3, <2>3, <2>4, Zenon DEF HtIInv, HtRingKept
    <3>2. /\ \A q \in htSqe' : q # Accept => htFd'[q.fd] # 0
          /\ \A e \in htCqe' : htFd'[FdOf(e)] # 0
          /\ \A q \in htSqe' : q.kind = "write" => q.for = htFd'[q.fd]
      BY <1>3, <2>2, <2>3, <2>4, Zenon DEF HtIInv, HtRingKept
    <3>3. /\ \A p, q \in htSqe' : p # Accept /\ q # Accept /\ p.fd = q.fd => p = q
          /\ \A e, f \in htCqe' : FdOf(e) = FdOf(f) => e = f
          /\ \A q \in htSqe', e \in htCqe' : q # Accept => q.fd # FdOf(e)
      BY <1>3, <2>2, <2>3, <2>4 DEF HtIInv, HtRingKept
    <3> QED BY <3>1, <3>2, <3>3, Zenon DEF HtRingKept
  <2>6. HtAcceptKept'
    <3>1. Accept \in htSqe' <=> Accept \in htSqe
      BY <1>3, <2>2, Zenon
    <3>2. \A e \in htCqe \cup htCqe' : e.req = Accept => e \in htCqe /\ e \in htCqe'
      BY <1>3, <2>3, <2>4, Zenon
    <3> QED BY <1>1, <3>1, <3>2, AcceptUnmoved, Zenon DEF HtIInv
  <2> QED BY <2>1, <2>5, <2>6, Zenon
<1>4. CASE ReadCompletes
  <2>1. HtTypes' /\ HtRingKept' /\ HtAcceptKept'
    BY <1>3, <1>4, Zenon DEF ReadCompletes
  <2> QED BY <1>1, <1>4, <2>1, Zenon DEF ReadCompletes, HtIInv, HtAnswersOwn
<1>5. CASE WriteCompletes
  <2>1. PICK r \in htSqe :
          /\ r.kind = "write" /\ htSqe' = htSqe \ {r}
          /\ \/ htCqe' = htCqe \cup {[req |-> r, res |-> "done", fd |-> 0]} /\ htWrote' = htWrote \cup {<<r.for, htFd[r.fd]>>}
             \/ htCqe' = htCqe \cup {[req |-> r, res |-> "error", fd |-> 0]} /\ UNCHANGED htWrote
    BY <1>5, Zenon DEF WriteCompletes
  <2>2. UNCHANGED <<htFd, htTaken>>
    BY <1>5, Zenon DEF WriteCompletes
  <2>3. HtTypes' /\ HtRingKept' /\ HtAcceptKept'
    BY <1>3, <2>1, <2>2, Zenon
  <2>4. HtAnswersOwn'
    BY <2>1 DEF HtIInv, HtRingKept, HtAnswersOwn
  <2> QED BY <1>1, <2>3, <2>4, Zenon DEF HtIInv
<1> QED BY <1>2, <1>4, <1>5, Zenon DEF Kernel

(* server_loop handles one completion: the accept is submitted again with the read of the
   new descriptor, a request is answered on the descriptor it was read from, and a
   descriptor is closed once (main.c:197-241). *)
LEMMA ServerLoopKeeps ==
  ASSUME HtIInv, server_loop
  PROVE  HtIInv'
<1> USE HtAssumption
<1>1. /\ HtSlotsKept' /\ HtAnswersOwn' /\ UNCHANGED <<htProg, htTaken, htCame, clients, htParent, htChild>>
      /\ htProg = "uring" /\ htUp
  BY Zenon DEF server_loop, htForkVars, HtIInv, HtSlotsKept, HtAnswersOwn
<1>2. PICK e \in htCqe : /\ htCqe' = htCqe \ {e}
                         /\ \/ failed_event
                            \/ accept_event(e) \/ read_event(e) \/ write_event(e)
  BY Zenon DEF server_loop
<1>3. /\ FdOf(e) \in Conns /\ htFd[FdOf(e)] # 0 /\ htFd[FdOf(e)] \in 0 .. HtConns
      /\ \/ e.req = Accept /\ FdOf(e) = e.fd /\ e.req.kind = "accept"
         \/ e.req \in Transfers /\ e.req # Accept /\ FdOf(e) = e.req.fd /\ e.req.kind # "accept"
  BY CompletionKind, Zenon DEF HtIInv, HtRingKept, HtTypes
<1>4. ASSUME htFd' = htFd, htSqe' = htSqe
      PROVE  HtTypes' /\ HtRingKept' /\ (e.req # Accept => HtAcceptKept')
  <2>1. HtTypes'
    BY <1>1, <1>4, Zenon DEF HtIInv, HtTypes
  <2>2. HtRingKept'
    BY <1>2, <1>4, Zenon DEF HtIInv, HtRingKept
  <2>3. e.req # Accept => HtAcceptKept'
    BY <1>1, <1>2, <1>4, AcceptUnmoved, Zenon DEF HtIInv
  <2> QED BY <2>1, <2>2, <2>3, Zenon
<1>5. ASSUME NEW t \in Transfers, t.fd = FdOf(e), t.kind = "write" => t.for = htFd[t.fd],
             htFd' = htFd, htSqe' = htSqe \cup {t} \/ htSqe' = htSqe \cup {Accept, t}
      PROVE  HtTypes' /\ HtRingKept'
  <2>1. HtTypes'
    BY <1>1, <1>5, Zenon DEF HtIInv, HtTypes
  <2>2. \A r \in htSqe' : r = Accept \/ r \in htSqe \/ r = t
    BY <1>5
  <2>3. t # Accept
    BY AcceptKind, Zenon
  <2>4. /\ \A r \in htSqe : r # Accept => r.fd # t.fd
        /\ \A f \in htCqe' : f \in htCqe /\ FdOf(f) # t.fd
    BY <1>2, <1>5, Zenon DEF HtIInv, HtRingKept
  <2>5. htSqe' \subseteq {Accept} \cup Transfers /\ htCqe' \subseteq Completions
    BY <1>2, <1>5, Zenon DEF HtIInv, HtRingKept
  <2>6. /\ \A r \in htSqe' : r # Accept => htFd'[r.fd] # 0
        /\ \A f \in htCqe' : htFd'[FdOf(f)] # 0
        /\ \A r \in htSqe' : r.kind = "write" => r.for = htFd'[r.fd]
    BY <1>3, <1>5, <2>2, <2>4, AcceptKind, Zenon DEF HtIInv, HtRingKept
  <2>7. /\ \A p, q \in htSqe' : p # Accept /\ q # Accept /\ p.fd = q.fd => p = q
        /\ \A f, g \in htCqe' : FdOf(f) = FdOf(g) => f = g
        /\ \A q \in htSqe', f \in htCqe' : q # Accept => q.fd # FdOf(f)
    BY <2>2, <2>3, <2>4, Zenon DEF HtIInv, HtRingKept
  <2> QED BY <2>1, <2>5, <2>6, <2>7, Zenon DEF HtRingKept
<1>6. CASE failed_event
  BY <1>1, <1>4, <1>6, Zenon DEF failed_event, HtIInv, HtAcceptKept
<1>7. CASE accept_event(e)
  <2>1. e.req = Accept /\ FdOf(e) = e.fd
    BY <1>3, <1>7, Zenon DEF accept_event
  <2>2. PICK t : t = Req("read", e.fd, 0)
    BY Zenon
  <2>3. t \in Transfers /\ t.fd = FdOf(e) /\ t.kind # "write"
    BY <1>3, <2>1, <2>2 DEF Req, Transfers
  <2>4. htSqe' = htSqe \cup {Accept, t} /\ htFd' = htFd
    BY <1>7, <2>2, Zenon DEF accept_event
  <2>5. \A f \in htCqe' : f.req # Accept
    BY <1>1, <1>2, <2>1, Zenon DEF HtIInv, HtAcceptKept
  <2>6. HtAcceptKept'
    BY <2>4, <2>5, Zenon DEF HtAcceptKept
  <2> QED BY <1>1, <1>5, <2>3, <2>4, <2>6, ZenonT(30) DEF HtIInv
<1>8. CASE read_event(e)
  <2>1. e.req # Accept /\ FdOf(e) = e.req.fd
    BY <1>3, <1>8, Zenon DEF read_event
  <2>2. CASE e.res = "get"
    <3>1. PICK t : t = Req("write", e.req.fd, htFd[e.req.fd])
      BY Zenon
    <3>2. t \in Transfers /\ t.fd = FdOf(e) /\ t.for = htFd[t.fd]
      BY <1>3, <2>1, <3>1, Zenon DEF Req, Transfers
    <3>3. htSqe' = htSqe \cup {t} /\ htFd' = htFd
      BY <1>8, <2>2, <3>1, Zenon DEF read_event
    <3>4. HtAcceptKept'
      <4>1. Accept \in htSqe' <=> Accept \in htSqe
        BY <3>2, <3>3, AcceptKind, Zenon
      <4> QED BY <1>1, <1>2, <2>1, <4>1, AcceptUnmoved, Zenon DEF HtIInv
    <3> QED BY <1>1, <1>5, <3>2, <3>3, <3>4, Zenon DEF HtIInv
  <2>3. CASE e.res # "get"
    BY <1>1, <1>4, <1>8, <2>1, <2>3, Zenon DEF read_event, HtIInv
  <2> QED BY <2>2, <2>3, Zenon
<1>9. CASE write_event(e)
  <2>1. e.req # Accept /\ FdOf(e) = e.req.fd
    BY <1>3, <1>9, Zenon DEF write_event
  <2>2. htFd' = [htFd EXCEPT ![FdOf(e)] = 0] /\ htSqe' = htSqe /\ htUp' = htUp
    BY <1>9, <2>1, Zenon DEF write_event
  <2>3. HtTypes'
    <3>1. 0 \in 0 .. HtConns
      OBVIOUS
    <3>2. htFd' \in [Conns -> 0 .. HtConns]
      BY <2>2, <3>1, Zenon DEF HtIInv, HtTypes
    <3> QED BY <1>1, <3>2, Zenon DEF HtIInv, HtTypes
  <2>4. \A k \in Conns : k # FdOf(e) => htFd'[k] = htFd[k]
    BY <2>2, Zenon DEF HtIInv, HtTypes
  <2>5. /\ \A r \in htSqe : r # Accept => r.fd \in Conns /\ r.fd # FdOf(e)
        /\ \A f \in htCqe' : f \in htCqe /\ FdOf(f) \in Conns /\ FdOf(f) # FdOf(e)
    BY <1>2, AcceptKind, CompletionKind, ZenonT(30) DEF HtIInv, HtRingKept
  <2>6. HtRingKept'
    <3>1. htSqe' \subseteq {Accept} \cup Transfers /\ htCqe' \subseteq Completions
      BY <1>2, <2>2, Zenon DEF HtIInv, HtRingKept
    <3>2. /\ \A r \in htSqe' : r # Accept => htFd'[r.fd] # 0
          /\ \A f \in htCqe' : htFd'[FdOf(f)] # 0
          /\ \A r \in htSqe' : r.kind = "write" => r.for = htFd'[r.fd]
      BY <2>2, <2>4, <2>5, AcceptKind, Zenon DEF HtIInv, HtRingKept
    <3>3. /\ \A p, q \in htSqe' : p # Accept /\ q # Accept /\ p.fd = q.fd => p = q
          /\ \A f, g \in htCqe' : FdOf(f) = FdOf(g) => f = g
          /\ \A q \in htSqe', f \in htCqe' : q # Accept => q.fd # FdOf(f)
      BY <2>2, <2>5, Zenon DEF HtIInv, HtRingKept
    <3> QED BY <3>1, <3>2, <3>3, Zenon DEF HtRingKept
  <2>7. HtAcceptKept'
    BY <1>1, <1>2, <2>1, <2>2, AcceptUnmoved, Zenon DEF HtIInv
  <2> QED BY <1>1, <2>3, <2>6, <2>7, Zenon DEF HtIInv
<1> QED BY <1>2, <1>6, <1>7, <1>8, <1>9, Zenon

(* sigint_handler ends the io_uring server and submits nothing (main.c:243-247). *)
LEMMA SigintKeeps == HtIInv /\ sigint_handler => HtIInv'
BY Zenon DEF sigint_handler, htForkVars, htRingVars, HtIInv, HtTypes, HtSlotsKept, HtRingKept, HtAcceptKept, HtAnswersOwn

(***************************************************************************)
(* Slots and descriptors are used again and again, and in both servers an   *)
(* answer still goes to the connection that asked; the io_uring server      *)
(* always has exactly one accept under way, so its one client_addr is never *)
(* shared (nat_httpd.c:34-231, sock-io-uring-http/main.c:197-241).  For     *)
(* every number of connections and every MAX_CONNECTIONS.                   *)
(***************************************************************************)
THEOREM HttpAnswersTheAsker == HtSpec => []HtInv
<1>1. HtInit => HtIInv
  <2> SUFFICES ASSUME HtInit PROVE HtIInv
    BY Zenon
  <2>1. HtTypes /\ HtSlotsKept
    BY HtAssumption DEF HtInit, HtTypes, HtSlotsKept, ConnSlots, Conns
  <2>2. htSqe \subseteq {Accept} /\ htCqe = {} /\ (htProg = "uring" => Accept \in htSqe) /\ htWrote = {}
    BY Zenon DEF HtInit
  <2>3. HtRingKept /\ HtAcceptKept /\ HtAnswersOwn
    BY <2>2, AcceptKind, Zenon DEF HtRingKept, HtAcceptKept, HtAnswersOwn
  <2> QED BY <2>1, <2>3, Zenon DEF HtIInv
<1>2. HtIInv /\ [HtNext]_htVars => HtIInv'
  <2>1. HtIInv /\ UNCHANGED htVars => HtIInv'
    <3> SUFFICES ASSUME HtIInv, UNCHANGED htVars PROVE HtIInv'
      BY Zenon
    <3>1. UNCHANGED <<htTaken, htCame, clients, htParent, htChild, htFd>> /\ UNCHANGED <<htProg, htUp, htSqe, htCqe, htWrote>>
      BY Zenon DEF htVars
    <3>2. HtTypes' /\ HtSlotsKept' /\ HtAnswersOwn'
      BY <3>1, Zenon DEF HtIInv, HtTypes, HtSlotsKept, HtAnswersOwn
    <3>3. HtRingKept'
      BY <3>1, Zenon DEF HtIInv, HtRingKept
    <3>4. HtAcceptKept'
      BY <3>1, Zenon DEF HtIInv, HtAcceptKept
    <3> QED BY <3>2, <3>3, <3>4, Zenon DEF HtIInv
  <2> QED BY <2>1, ComesKeeps, ServeForeverKeeps, ChildKeeps, KernelKeeps, ServerLoopKeeps, SigintKeeps, Zenon
          DEF HtNext, HtChildren
<1>3. HtIInv => HtInv
  <2> SUFFICES ASSUME HtIInv, htProg = "uring", htUp
               PROVE  Cardinality({r \in htSqe : r.kind = "accept"})
                        + Cardinality({e \in htCqe : e.req.kind = "accept"}) = 1
    BY Zenon DEF HtIInv, HtInv, HtOneAccept
  <2>1. \A r \in htSqe : r.kind = "accept" <=> r = Accept
    BY AcceptKind, Zenon DEF HtIInv, HtRingKept
  <2>2. \A e \in htCqe : e.req.kind = "accept" <=> e.req = Accept
    BY CompletionKind, Zenon DEF HtIInv, HtRingKept
  <2>3. Cardinality({}) = 0 /\ \A x : Cardinality({x}) = 1
    BY FewElements, Zenon
  <2>4. CASE Accept \in htSqe /\ \A e \in htCqe : e.req # Accept
    <3>1. {r \in htSqe : r.kind = "accept"} = {Accept} /\ {e \in htCqe : e.req.kind = "accept"} = {}
      BY <2>1, <2>2, <2>4, Zenon
    <3>2. /\ Cardinality({r \in htSqe : r.kind = "accept"}) = 1
          /\ Cardinality({e \in htCqe : e.req.kind = "accept"}) = 0
      BY <2>3, <3>1, Zenon
    <3> QED BY <3>2
  <2>5. CASE Accept \notin htSqe /\ \E e \in htCqe : \A f \in htCqe : f.req = Accept <=> f = e
    <3>1. PICK e \in htCqe : \A f \in htCqe : f.req = Accept <=> f = e
      BY <2>5, Zenon
    <3>2. {r \in htSqe : r.kind = "accept"} = {} /\ {f \in htCqe : f.req.kind = "accept"} = {e}
      BY <2>1, <2>2, <2>5, <3>1, Zenon
    <3>3. /\ Cardinality({r \in htSqe : r.kind = "accept"}) = 0
          /\ Cardinality({f \in htCqe : f.req.kind = "accept"}) = 1
      BY <2>3, <3>2, Zenon
    <3> QED BY <3>3
  <2> QED BY <2>4, <2>5, Zenon DEF HtIInv, HtAcceptKept
<1> QED BY <1>1, <1>2, <1>3, PTL DEF HtSpec

-----------------------------------------------------------------------------
(*****************************************************************************)
(* WebSockets: WsInv for every number of frames, of connections and of       *)
(* server threads.                                                           *)
(*****************************************************************************)

Walking == {"free", "done"}

WsTypes ==
  /\ wsMain.pc \in {"connect", "failed", "greet", "ping", "again", "song", "leave", "close", "print"} \cup Walking
  /\ wsTexts \in Nat
  /\ wsMsgs = [k \in 1 .. wsTexts |-> k]
  /\ wsMem \in [1 .. wsTexts -> Nat]
  /\ wsWalk \in [at : Nat, p1 : Nat, p2 : Nat, n : Nat]

(* the library's thread is gone before the list is printed: the list is fixed then *)
Joined == wsMain.pc \in {"print"} \cup Walking => wsLink = "joined"

(* the walk is behind by two elements *)
Lagging ==
  /\ wsMain.pc \notin Walking =>
       /\ \A e \in 1 .. wsTexts : wsMem[e] = 0
       /\ wsWalk.n = 0 /\ wsWalk.at = 0 /\ wsWalk.p1 = 0 /\ wsWalk.p2 = 0
  /\ wsMain.pc \in Walking => wsShown = wsMsgs
  /\ wsMain.pc = "free" =>
       /\ wsWalk.n <= wsTexts /\ wsWalk.at = wsWalk.n /\ wsWalk.p1 = wsWalk.n
       /\ wsWalk.p2 = IF wsWalk.n = 0 THEN 0 ELSE wsWalk.n - 1
       /\ \A e \in 1 .. wsTexts : wsMem[e] = IF e <= wsWalk.n - 2 THEN 1 ELSE 0
  /\ wsMain.pc = "done" => \A e \in 1 .. wsTexts : wsMem[e] = 1

(* a number that is in use was drawn from the counter *)
Drawn ==
  /\ wsConn \in [WsThreads -> [pc : {"idle", "connected", "ready"}, ctx : {"none", "live", "freed"}, number : Nat]]
  /\ wsCounter \in Nat
  /\ \A t \in WsThreads : /\ wsConn[t].ctx = "live" <=> wsConn[t].pc # "idle"
                          /\ wsConn[t].number <= wsCounter
  /\ \A t, u \in WsThreads : t # u /\ wsConn[t].ctx = "live" /\ wsConn[u].ctx = "live"
                             => wsConn[t].number # wsConn[u].number

ClientStrong == WsTypes /\ Joined /\ Lagging
WsStrong == ClientStrong /\ Drawn

-----------------------------------------------------------------------------
(* The list of frames, by its places. *)
LEMMA ListByPlace == ASSUME NEW g \in Seq(Nat) PROVE g \in [1 .. Len(g) -> Nat]
OBVIOUS

(* A frame goes behind those there are. *)
LEMMA AppendOne ==
  \A n \in Nat : \A f \in [1 .. n -> Nat] : \A x \in Nat :
    /\ Append(f, x) \in [1 .. n + 1 -> Nat] /\ Append(f, x)[n + 1] = x
    /\ \A k \in 1 .. n : Append(f, x)[k] = f[k]
<1> SUFFICES ASSUME NEW n \in Nat, NEW f \in [1 .. n -> Nat], NEW x \in Nat
             PROVE  /\ Append(f, x) \in [1 .. n + 1 -> Nat] /\ Append(f, x)[n + 1] = x
                    /\ \A k \in 1 .. n : Append(f, x)[k] = f[k]
  BY Zenon
<1>1. f \in Seq(Nat) /\ Len(f) = n
  OBVIOUS
<1>2. /\ Append(f, x) \in Seq(Nat) /\ Len(Append(f, x)) = n + 1 /\ Append(f, x)[n + 1] = x
      /\ \A k \in 1 .. n : Append(f, x)[k] = f[k]
  BY <1>1
<1> QED BY <1>2, ListByPlace, Zenon

(* Both programs start without a connection. *)
LEMMA WsInitInv == WsInit => WsStrong
<1> SUFFICES ASSUME WsInit PROVE WsStrong
  BY Zenon
<1>1. WsTypes
  BY SMTT(30) DEF WsInit, WsTypes, Walking
<1>2. Joined /\ Lagging
  BY DEF WsInit, Joined, Lagging, Walking
<1>3. Drawn
  BY DEF WsInit, Drawn
<1> QED BY <1>1, <1>2, <1>3, Zenon DEF WsStrong, ClientStrong

(* The library's thread and the peer: a text is stored only before the thread has left. *)
LEMMA ThreadInv ==
  ASSUME ClientStrong, websocket_client_data_handler \/ websocket_client_close_handler \/ PeerFrame
  PROVE  ClientStrong'
<1>1. wsLink = "open" /\ wsMain' = wsMain /\ wsWalk' = wsWalk /\ wsShown' = wsShown
  BY Zenon DEF websocket_client_data_handler, websocket_client_close_handler, PeerFrame
<1>2. wsMain.pc \notin {"print"} \cup Walking
  BY <1>1, Zenon DEF ClientStrong, Joined
<1>3. CASE UNCHANGED <<wsTexts, wsMsgs, wsMem>>
  BY <1>1, <1>2, <1>3, Zenon DEF ClientStrong, WsTypes, Joined, Lagging
<1>4. CASE wsTexts' = wsTexts + 1 /\ wsMsgs' = Append(wsMsgs, wsTexts + 1) /\ wsMem' = Append(wsMem, 0)
  <2>0. wsTexts \in Nat /\ wsTexts + 1 \in Nat /\ wsMsgs \in [1 .. wsTexts -> Nat] /\ wsMem \in [1 .. wsTexts -> Nat]
        /\ \A k \in 1 .. wsTexts : wsMsgs[k] = k
    BY DEF ClientStrong, WsTypes
  <2>1. /\ wsMsgs' \in [1 .. wsTexts + 1 -> Nat] /\ wsMsgs'[wsTexts + 1] = wsTexts + 1
        /\ \A k \in 1 .. wsTexts : wsMsgs'[k] = k
    <3>1. PICK n : n = wsTexts + 1 /\ n \in Nat
      BY <2>0, Zenon
    <3>2. wsMsgs' = Append(wsMsgs, n) /\ wsTexts \in Nat /\ wsMsgs \in [1 .. wsTexts -> Nat]
      BY <1>4, <2>0, <3>1, Zenon
    <3>3. /\ Append(wsMsgs, n) \in [1 .. wsTexts + 1 -> Nat] /\ Append(wsMsgs, n)[wsTexts + 1] = n
          /\ \A k \in 1 .. wsTexts : Append(wsMsgs, n)[k] = wsMsgs[k]
      BY <3>1, <3>2, AppendOne, ZenonT(30)
    <3> QED BY <2>0, <3>1, <3>2, <3>3, Zenon
  <2>2. /\ wsMem' \in [1 .. wsTexts + 1 -> Nat] /\ wsMem'[wsTexts + 1] = 0
        /\ \A k \in 1 .. wsTexts : wsMem'[k] = wsMem[k]
    <3>1. 0 \in Nat
      BY Zenon
    <3>2. wsTexts \in Nat /\ wsMem \in [1 .. wsTexts -> Nat] /\ wsMem' = Append(wsMem, 0)
      BY <1>4, <2>0, Zenon
    <3> QED BY <3>1, <3>2, AppendOne, ZenonT(30)
  <2>3. wsMsgs' = [k \in 1 .. wsTexts' |-> k]
    BY <1>4, <2>1 DEF ClientStrong, WsTypes
  <2>4. \A e \in 1 .. wsTexts' : wsMem'[e] = 0
    BY <1>2, <1>4, <2>2 DEF ClientStrong, WsTypes, Lagging
  <2>5. WsTypes'
    BY <1>1, <1>4, <2>0, <2>2, <2>3, Zenon DEF ClientStrong, WsTypes
  <2>6. Joined' /\ Lagging'
    BY <1>1, <1>2, <2>4, Zenon DEF ClientStrong, Joined, Lagging, Walking
  <2> QED BY <2>5, <2>6, Zenon DEF ClientStrong
<1> QED BY <1>3, <1>4, Zenon DEF websocket_client_data_handler, StoreText, websocket_client_close_handler, PeerFrame

(* One round of the last loop frees the element two places behind. *)
LEMMA FreeStepInv == ASSUME ClientStrong, FreeStep PROVE ClientStrong'
<1>1. /\ wsTexts \in Nat /\ wsWalk.n \in Nat /\ wsWalk.n <= wsTexts /\ wsWalk.p1 = wsWalk.n
      /\ wsWalk.p2 = IF wsWalk.n = 0 THEN 0 ELSE wsWalk.n - 1
      /\ \A e \in 1 .. wsTexts : wsMem[e] = IF e <= wsWalk.n - 2 THEN 1 ELSE 0
      /\ wsMem \in [1 .. wsTexts -> Nat] /\ wsMsgs = [k \in 1 .. wsTexts |-> k]
  BY Zenon DEF ClientStrong, WsTypes, Lagging, FreeStep
<1>2. Len(wsMsgs) = wsTexts
  BY <1>1
<1>3. wsWalk.n < wsTexts /\ wsMsgs[wsWalk.n + 1] = wsWalk.n + 1
  BY <1>1, <1>2, SMTT(30) DEF FreeStep
<1>4. /\ wsMem' = FreeElem(wsWalk.p2)
      /\ wsWalk' = [at |-> wsWalk.n + 1, p1 |-> wsWalk.n + 1, p2 |-> wsWalk.p1, n |-> wsWalk.n + 1]
      /\ wsMain.pc = "free" /\ UNCHANGED <<wsMain, wsLink, wsMsgs, wsTexts, wsShown>>
  BY <1>3, Zenon DEF FreeStep
<1>5. /\ wsMem' \in [1 .. wsTexts -> Nat]
      /\ \A e \in 1 .. wsTexts : wsMem'[e] = IF e <= (wsWalk.n + 1) - 2 THEN 1 ELSE 0
  <2>1. CASE wsWalk.p2 = 0
    BY <1>1, <1>4, <2>1 DEF FreeElem
  <2>2. CASE wsWalk.p2 # 0
    <3>1. wsWalk.p2 = wsWalk.n - 1 /\ wsWalk.p2 \in 1 .. wsTexts /\ wsMem[wsWalk.p2] = 0
      BY <1>1, <2>2
    <3>2. wsMem' = [wsMem EXCEPT ![wsWalk.p2] = @ + 1]
      BY <1>4, <2>2, Zenon DEF FreeElem
    <3> QED BY <1>1, <3>1, <3>2
  <2> QED BY <2>1, <2>2, Zenon
<1>6. WsTypes'
  BY <1>1, <1>4, <1>5 DEF ClientStrong, WsTypes
<1>7. Lagging'
  <2>1. wsWalk'.n = wsWalk.n + 1 /\ wsWalk'.at = wsWalk.n + 1 /\ wsWalk'.p1 = wsWalk.n + 1 /\ wsWalk'.p2 = wsWalk.n
    BY <1>1, <1>4, Zenon
  <2>2. /\ wsWalk'.n <= wsTexts' /\ wsWalk'.at = wsWalk'.n /\ wsWalk'.p1 = wsWalk'.n
        /\ wsWalk'.p2 = IF wsWalk'.n = 0 THEN 0 ELSE wsWalk'.n - 1
    BY <1>1, <1>3, <1>4, <2>1
  <2>3. \A e \in 1 .. wsTexts' : wsMem'[e] = IF e <= wsWalk'.n - 2 THEN 1 ELSE 0
    BY <1>4, <1>5, <2>1, Zenon
  <2>4. wsMain'.pc = "free" /\ wsShown' = wsMsgs'
    BY <1>4, Zenon DEF ClientStrong, Lagging, Walking
  <2> QED BY <2>2, <2>3, <2>4, Zenon DEF Lagging, Walking
<1> QED BY <1>4, <1>6, <1>7, Zenon DEF ClientStrong, Joined

(* What is left after the loop are the last two elements. *)
LEMMA FreeRestInv == ASSUME ClientStrong, FreeRest PROVE ClientStrong'
<1>1. /\ wsTexts \in Nat /\ wsWalk.n \in Nat /\ wsWalk.p1 = wsWalk.n
      /\ wsWalk.p2 = IF wsWalk.n = 0 THEN 0 ELSE wsWalk.n - 1
      /\ \A e \in 1 .. wsTexts : wsMem[e] = IF e <= wsWalk.n - 2 THEN 1 ELSE 0
      /\ wsMem \in [1 .. wsTexts -> Nat] /\ wsMsgs = [k \in 1 .. wsTexts |-> k]
  BY Zenon DEF ClientStrong, WsTypes, Lagging, FreeRest
<1>2. Len(wsMsgs) = wsTexts
  BY <1>1, SMTT(30)
<1>3. wsWalk.n = wsTexts /\ wsMain.pc = "free" /\ wsMain'.pc = "done"
      /\ UNCHANGED <<wsLink, wsWalk, wsMsgs, wsTexts, wsShown>>
  BY <1>2, Zenon DEF FreeRest, MainTo
<1>4. wsMem' \in [1 .. wsTexts -> Nat] /\ \A e \in 1 .. wsTexts : wsMem'[e] = 1
  <2> DEFINE Last(e) == {k \in {1, 2} : <<wsWalk.p1, wsWalk.p2>>[k] = e}
  <2>1. wsMem' = [e \in 1 .. wsTexts |-> wsMem[e] + Cardinality(Last(e))]
    BY <1>1, Zenon DEF FreeRest
  <2>2. ASSUME NEW e \in 1 .. wsTexts PROVE wsMem[e] + Cardinality(Last(e)) = 1
    <3>1. CASE e = wsTexts
      <4>1. Last(e) = {1}
        BY <1>1, <1>3, <3>1
      <4>2. Cardinality(Last(e)) = 1
        BY <4>1, FewElements, Zenon
      <4>3. wsMem[e] = 0
        BY <1>1, <1>3, <3>1
      <4> HIDE DEF Last
      <4> QED BY <4>2, <4>3
    <3>2. CASE e = wsTexts - 1
      <4>1. Last(e) = {2}
        BY <1>1, <1>3, <3>2
      <4>2. Cardinality(Last(e)) = 1
        BY <4>1, FewElements, Zenon
      <4>3. wsMem[e] = 0
        BY <1>1, <1>3, <3>2
      <4> HIDE DEF Last
      <4> QED BY <4>2, <4>3
    <3>3. CASE e <= wsTexts - 2
      <4>1. Last(e) = {}
        BY <1>1, <1>3, <3>3
      <4>2. Cardinality(Last(e)) = 0
        BY <4>1, FewElements, Zenon
      <4>3. wsMem[e] = 1
        BY <1>1, <1>3, <3>3, Zenon
      <4> HIDE DEF Last
      <4> QED BY <4>2, <4>3
    <3> QED BY <1>1, <3>1, <3>2, <3>3
  <2> HIDE DEF Last
  <2> QED BY <2>1, <2>2
<1>5. WsTypes'
  BY <1>1, <1>3, <1>4, Zenon DEF ClientStrong, WsTypes, Walking
<1>6. Lagging'
  BY <1>1, <1>3, <1>4, Zenon DEF ClientStrong, Lagging, Walking
<1> QED BY <1>3, <1>5, <1>6, Zenon DEF ClientStrong, Joined, Walking

(* A step of run_websocket_client(). *)
LEMMA MainInv == ASSUME ClientStrong, run_websocket_client PROVE ClientStrong'
<1> USE DEF ClientStrong, WsTypes, Joined, Lagging, Walking, MainTo, Unlisted
<1>1. CASE WsConnect
  BY <1>1, SMTT(30) DEF WsConnect
<1>2. CASE Talk
  BY <1>2, SMTT(30) DEF Talk
<1>3. CASE mg_close_connection
  BY <1>3, Zenon DEF mg_close_connection
<1>4. CASE PrintAll
  BY <1>4 DEF PrintAll
<1> QED BY <1>1, <1>2, <1>3, <1>4, FreeStepInv, FreeRestInv, ZenonT(30) DEF run_websocket_client

(* A step of one of the server's threads. *)
LEMMA ServerInv == ASSUME Drawn, WsServerNext PROVE Drawn'
<1>1. PICK t \in WsThreads :
        ws_connect_handler(t) \/ ws_ready_handler(t) \/ ws_data_handler(t) \/ ws_close_handler(t)
  BY Zenon DEF WsServerNext
<1>2. CASE ws_connect_handler(t)
  BY <1>2 DEF ws_connect_handler, Drawn
<1>3. CASE ws_ready_handler(t)
  BY <1>3 DEF ws_ready_handler, Drawn
<1>4. CASE ws_data_handler(t)
  BY <1>4, Zenon DEF ws_data_handler, wsServer, Drawn
<1>5. CASE ws_close_handler(t)
  BY <1>5 DEF ws_close_handler, Drawn
<1> QED BY <1>1, <1>2, <1>3, <1>4, <1>5, Zenon

(* Every step of the client's two threads and of the server's handlers. *)
LEMMA WsStepInv == WsStrong /\ [WsNext]_wsVars => WsStrong'
<1> SUFFICES ASSUME WsStrong, [WsNext]_wsVars PROVE WsStrong'
  BY Zenon
<1>1. CASE UNCHANGED wsServer
  <2>1. Drawn'
    BY <1>1, Zenon DEF WsStrong, wsServer, Drawn
  <2>2. CASE UNCHANGED wsClient
    BY <2>1, <2>2, Zenon DEF wsClient, WsStrong, ClientStrong, WsTypes, Joined, Lagging
  <2>3. CASE WsThread \/ WsMain \/ WsPeer
    BY <2>1, <2>3, ThreadInv, MainInv, Zenon DEF WsThread, WsMain, WsPeer, WsStrong
  <2> QED BY <2>2, <2>3, Zenon DEF WsNext, wsVars
<1>2. CASE WsServerNext /\ UNCHANGED wsClient
  <2>1. Drawn'
    BY <1>2, ServerInv, Zenon DEF WsStrong
  <2> QED BY <1>2, <2>1, Zenon DEF wsClient, WsStrong, ClientStrong, WsTypes, Joined, Lagging
<1> QED BY <1>1, <1>2, Zenon DEF WsNext, wsVars, WsThread, WsMain, WsPeer

-----------------------------------------------------------------------------
(* The client's last loop frees every message once and reads none after it was freed, the
   texts are printed as they arrived, and every open connection of the server has a
   context and a number of its own, for every number of frames and of threads. *)
THEOREM WebSocketsKeepTheirOwn == WsSpec => []WsInv
<1>1. WsStrong => WsInv
  <2> SUFFICES ASSUME WsStrong PROVE WsInv
    BY Zenon
  <2>1. WsListFreedOnce
    BY DEF WsListFreedOnce, WsStrong, ClientStrong, WsTypes, Lagging, Walking
  <2>2. WsPrintsAllTexts
    BY Zenon DEF WsPrintsAllTexts, WsStrong, ClientStrong, WsTypes, Lagging, Walking
  <2>3. WsContextsOwn
    BY Zenon DEF WsContextsOwn, WsStrong, Drawn
  <2> QED BY <2>1, <2>2, <2>3, Zenon DEF WsInv
<1> QED BY <1>1, WsInitInv, WsStepInv, PTL DEF WsSpec

-----------------------------------------------------------------------------
(* TlsSessions: CLIENT_CTX[], for every size and every number of sessions *)

TsSlots == 0 .. TsMaxConn - 1

(* the open descriptors that some slot names, a slot above TLSCH_HEAD included *)
Named == {fd \in DOMAIN tsOpen : \E i \in TsSlots : CLIENT_CTX[i].sock = fd}

TsTypes ==
  /\ CLIENT_CTX \in [TsSlots -> [sock : Nat, ssl : Nat]]
  /\ TLSCH_HEAD \in TsSlots
  /\ tsMade \in 0 .. TsSessions
  /\ DOMAIN tsOpen \subseteq TsFds
  /\ tsOpen \in [DOMAIN tsOpen -> 1 .. tsMade]
  /\ \A f, g \in DOMAIN tsOpen : tsOpen[f] = tsOpen[g] => f = g
  /\ tsFreed \subseteq 0 .. tsMade
  /\ \A i \in TsSlots : CLIENT_CTX[i].ssl <= tsMade
  /\ tsOrderly \in BOOLEAN

(* release_tlsch() moves TLSCH_HEAD back only for a descriptor that is named, and its
   closing takes that name away; the last slot is never written *)
TsCounted ==
  /\ Cardinality(Named) <= TLSCH_HEAD
  /\ CLIENT_CTX[TsMaxConn - 1].sock = 0

(* the connections are a stack: slot i belongs to descriptor i + 1 *)
TsStacked ==
  tsOrderly =>
    /\ DOMAIN tsOpen = 1 .. TLSCH_HEAD
    /\ \A i \in TsSlots : CLIENT_CTX[i].sock \in {0, i + 1}
    /\ \A i \in 0 .. TLSCH_HEAD - 1 : CLIENT_CTX[i].sock = i + 1 /\ CLIENT_CTX[i].ssl = tsOpen[i + 1]
    /\ \A f, g \in DOMAIN tsOpen : f < g => tsOpen[f] < tsOpen[g]
    /\ \A f \in DOMAIN tsOpen : tsOpen[f] \notin tsFreed

TsTableInv == TsTypes /\ TsCounted /\ TsStacked

-----------------------------------------------------------------------------
(* A set of natural numbers that is not empty has a least member. *)
LEMMA LeastMember ==
  ASSUME NEW S \in SUBSET Nat, S # {}
  PROVE  \E n \in S : \A k \in S : n <= k
<1>1. IsWellFoundedOn(OpToRel(<, Nat), Nat)
  BY NatLessThanWellFounded, Zenon
<1>2. PICK n \in S : \A k \in S : ~(<<k, n>> \in OpToRel(<, Nat))
  BY <1>1, WFMin, Zenon
<1>3. \A k \in S : ~(k < n)
  BY <1>2, Zenon DEF OpToRel
<1> QED BY <1>3

(* accept() finds a descriptor: there are never more open connections than sessions made. *)
LEMMA TsFdFree ==
  ASSUME TsTypes, tsMade < TsSessions
  PROVE  /\ TsLowestFree \in TsFds \ DOMAIN tsOpen
         /\ \A k \in TsFds \ DOMAIN tsOpen : TsLowestFree <= k
<1> USE TsAssumption
<1>1. tsOpen \in Injection(DOMAIN tsOpen, 1 .. tsMade)
  BY Zenon DEF TsTypes, Injection, IsInjective
<1>2. Cardinality(DOMAIN tsOpen) <= tsMade
  <2>1. tsMade \in Nat
    BY DEF TsTypes
  <2>2. IsFiniteSet(1 .. tsMade) /\ Cardinality(1 .. tsMade) = tsMade
    BY <2>1, FS_Interval
  <2> QED BY <2>2, <1>1, FS_Injection
<1>3. TsFds \ DOMAIN tsOpen # {}
  <2>1. IsFiniteSet(TsFds) /\ Cardinality(TsFds) = TsSessions
    BY FS_Interval DEF TsFds
  <2> SUFFICES ASSUME TsFds \ DOMAIN tsOpen = {} PROVE FALSE
    BY Zenon
  <2>2. DOMAIN tsOpen = TsFds
    BY Zenon DEF TsTypes
  <2> QED BY <2>1, <2>2, <1>2 DEF TsTypes
<1>4. \E fd \in TsFds \ DOMAIN tsOpen : \A k \in TsFds \ DOMAIN tsOpen : fd <= k
  <2>1. TsFds \ DOMAIN tsOpen \in SUBSET Nat
    BY DEF TsFds
  <2> QED BY <2>1, <1>3, LeastMember, Zenon
<1> QED BY <1>4, Zenon DEF TsLowestFree

(* The size of an interval. *)
LEMMA IntervalSize == ASSUME NEW n \in Nat PROVE IsFiniteSet(1 .. n) /\ Cardinality(1 .. n) = n
BY FS_Interval

(* At most the written slots can name a descriptor. *)
LEMMA NamedFinite ==
  ASSUME NEW Open \in SUBSET TsFds, NEW ctx \in [TsSlots -> [sock : Nat, ssl : Nat]], ctx[TsMaxConn - 1].sock = 0,
         NEW N, N = {fd \in Open : \E i \in TsSlots : ctx[i].sock = fd}
  PROVE  IsFiniteSet(N) /\ Cardinality(N) \in Nat /\ Cardinality(N) <= TsMaxConn - 1
<1> USE TsAssumption
<1> DEFINE W == 1 .. TsMaxConn - 1
           f == [i \in W |-> ctx[i - 1].sock]
           T == {f[i] : i \in W}
<1>1. IsFiniteSet(W) /\ Cardinality(W) = TsMaxConn - 1
  <2>1. TsMaxConn - 1 \in Nat
    OBVIOUS
  <2> QED BY <2>1, IntervalSize, Zenon
<1>2. f \in Surjection(W, T)
  BY Zenon DEF Surjection
<1>3. IsFiniteSet(T) /\ Cardinality(T) <= TsMaxConn - 1
  <2> HIDE DEF W, f, T
  <2> QED BY <1>1, <1>2, FS_Surjection
<1>4. N \subseteq T
  <2> SUFFICES ASSUME NEW fd \in N PROVE fd \in T
    BY Zenon
  <2>1. PICK i \in TsSlots : ctx[i].sock = fd
    BY Zenon
  <2>2. fd \in Nat /\ fd # 0
    BY DEF TsFds
  <2>3. i + 1 \in W /\ (i + 1) - 1 = i
    <3>1. i # TsMaxConn - 1
      BY <2>1, <2>2, Zenon
    <3> QED BY <3>1 DEF TsSlots
  <2> QED BY <2>1, <2>3, Zenon
<1>5. IsFiniteSet(N) /\ Cardinality(N) <= Cardinality(T)
  BY <1>3, <1>4, FS_Subset, Zenon
<1>6. Cardinality(N) \in Nat /\ Cardinality(T) \in Nat
  BY <1>3, <1>5, FS_CardinalityType, Zenon
<1> QED BY <1>3, <1>5, <1>6

-----------------------------------------------------------------------------
(* The server starts with an empty table and no connection. *)
LEMMA TsInitInv == TsInit => TsTableInv
<1> SUFFICES ASSUME TsInit PROVE TsTableInv
  BY Zenon
<1> USE TsAssumption
<1>1. TsTypes
  BY DEF TsInit, TsTypes, TsSlots, TsFds, NULL
<1>2. Named = {}
  BY Zenon DEF TsInit, Named
<1>3. TsCounted
  BY <1>2, FS_EmptySet DEF TsCounted, TsInit
<1>4. TsStacked
  BY DEF TsStacked, TsInit, TsSlots
<1> QED BY <1>1, <1>3, <1>4, Zenon DEF TsTableInv

(* A new connection: either the table is full, and the names of all its slots are
   counted already, or one more slot is written and TLSCH_HEAD moves on. *)
LEMMA ArrivalInv == TsTableInv /\ TsHandleConn => TsTableInv'
<1> SUFFICES ASSUME TsTableInv, TsHandleConn PROVE TsTableInv'
  BY Zenon
<1> USE TsAssumption
<1> DEFINE fd == TsLowestFree
<1>1. TsTypes /\ TsCounted /\ TsStacked
  BY Zenon DEF TsTableInv
<1>2. /\ fd \in TsFds \ DOMAIN tsOpen
      /\ \A k \in TsFds \ DOMAIN tsOpen : fd <= k
  BY <1>1, TsFdFree, Zenon DEF TsHandleConn
<1>3. /\ tsMade < TsSessions /\ tsMade' = tsMade + 1 /\ tsFreed' = tsFreed
      /\ set_tlsch(fd, tsMade + 1)
      /\ tsOpen' = [f \in DOMAIN tsOpen \cup {fd} |-> IF f = fd THEN tsMade + 1 ELSE tsOpen[f]]
      /\ tsOrderly' = (tsOrderly /\ ~IsFull)
  BY Zenon DEF TsHandleConn
<1> HIDE DEF fd
<1>4. /\ tsMade \in Nat /\ tsMade' \in 0 .. TsSessions
      /\ DOMAIN tsOpen' \subseteq TsFds /\ DOMAIN tsOpen' = DOMAIN tsOpen \cup {fd}
      /\ tsOpen' \in [DOMAIN tsOpen' -> 1 .. tsMade']
      /\ \A f, g \in DOMAIN tsOpen' : tsOpen'[f] = tsOpen'[g] => f = g
      /\ tsFreed' \subseteq 0 .. tsMade'
      /\ tsOrderly' \in BOOLEAN
  <2>1. /\ tsMade \in Nat /\ tsMade' \in 0 .. TsSessions /\ DOMAIN tsOpen' = DOMAIN tsOpen \cup {fd}
        /\ tsFreed' \subseteq 0 .. tsMade'
    BY <1>1, <1>3 DEF TsTypes
  <2>2. DOMAIN tsOpen' \subseteq TsFds
    BY <1>1, <1>2, <2>1, Zenon DEF TsTypes
  <2>3. tsOpen' \in [DOMAIN tsOpen' -> 1 .. tsMade']
    <3>1. \A f \in DOMAIN tsOpen : tsOpen[f] \in 1 .. tsMade
      BY <1>1, Zenon DEF TsTypes
    <3> QED BY <1>3, <2>1, <3>1
  <2>4. ASSUME NEW f \in DOMAIN tsOpen', NEW g \in DOMAIN tsOpen', tsOpen'[f] = tsOpen'[g] PROVE f = g
    <3>1. \A h \in DOMAIN tsOpen : tsOpen[h] \in 1 .. tsMade
      BY <1>1, Zenon DEF TsTypes
    <3>2. \A h \in DOMAIN tsOpen : tsOpen[h] # tsMade + 1
      BY <2>1, <3>1, SMTT(30)
    <3> QED BY <1>1, <1>2, <1>3, <2>1, <2>4, <3>2, Zenon DEF TsTypes
  <2>5. tsOrderly' \in BOOLEAN
    BY <1>3, Zenon
  <2> QED BY <2>1, <2>2, <2>3, <2>4, <2>5, Zenon
<1>5. CASE IsFull
  <2>1. CLIENT_CTX' = CLIENT_CTX /\ TLSCH_HEAD' = TLSCH_HEAD /\ TLSCH_HEAD = TsMaxConn - 1 /\ ~tsOrderly'
    <3>1. ~tsOrderly' /\ CLIENT_CTX' = CLIENT_CTX /\ TLSCH_HEAD' = TLSCH_HEAD
      BY <1>3, <1>5, Zenon DEF set_tlsch
    <3> QED BY <1>1, <1>5, <3>1 DEF IsFull, TsTypes, TsSlots
  <2>2. TsTypes'
    BY <1>1, <1>3, <1>4, <2>1 DEF TsTypes
  <2>3. CLIENT_CTX'[TsMaxConn - 1].sock = 0
    BY <1>1, <2>1, Zenon DEF TsCounted
  <2>4. Cardinality(Named') <= TsMaxConn - 1
    BY <2>2, <2>3, NamedFinite, Zenon DEF TsTypes, Named
  <2> QED BY <2>1, <2>2, <2>3, <2>4, Zenon DEF TsTableInv, TsCounted, TsStacked
<1>6. CASE ~IsFull
  <2>1. /\ CLIENT_CTX' = [CLIENT_CTX EXCEPT ![TLSCH_HEAD] = [sock |-> fd, ssl |-> tsMade + 1]]
        /\ TLSCH_HEAD' = TLSCH_HEAD + 1 /\ TLSCH_HEAD \in 0 .. TsMaxConn - 2
    BY <1>1, <1>3, <1>6 DEF set_tlsch, IsFull, TsTypes, TsSlots
  <2>2. fd \in Nat
    BY <1>2 DEF TsFds
  <2>3. TsTypes'
    <3>1. CLIENT_CTX' \in [TsSlots -> [sock : Nat, ssl : Nat]] /\ TLSCH_HEAD' \in TsSlots
      BY <1>1, <1>4, <2>1, <2>2, SMTT(30) DEF TsTypes, TsSlots
    <3>2. \A i \in TsSlots : CLIENT_CTX'[i].ssl <= tsMade'
      BY <1>1, <1>3, <1>4, <2>1 DEF TsTypes, TsSlots
    <3> QED BY <1>4, <3>1, <3>2, Zenon DEF TsTypes
  <2>4. CLIENT_CTX'[TsMaxConn - 1].sock = 0
    BY <1>1, <2>1 DEF TsCounted, TsTypes, TsSlots
  <2>5. (Cardinality(Named) <= TLSCH_HEAD)'
    <3>1. Named' \subseteq Named \cup {fd}
      BY <1>1, <1>4, <2>1, Zenon DEF Named, TsTypes, TsSlots
    <3>2. IsFiniteSet(Named) /\ Cardinality(Named) \in Nat /\ Cardinality(Named) <= TLSCH_HEAD
      BY <1>1, NamedFinite, Zenon DEF TsCounted, TsTypes, Named
    <3>3. IsFiniteSet(Named \cup {fd}) /\ Cardinality(Named \cup {fd}) <= Cardinality(Named) + 1
      BY <3>2, FS_AddElement
    <3>4. Cardinality(Named') <= Cardinality(Named \cup {fd}) /\ IsFiniteSet(Named')
      BY <3>1, <3>3, FS_Subset, Zenon
    <3>5. Cardinality(Named') \in Nat /\ Cardinality(Named \cup {fd}) \in Nat
      BY <3>3, <3>4, FS_CardinalityType, Zenon
    <3> QED BY <2>1, <3>2, <3>3, <3>4, <3>5, SMTT(30)
  <2>6. TsStacked'
    <3> SUFFICES ASSUME tsOrderly'
                 PROVE  /\ DOMAIN tsOpen' = 1 .. TLSCH_HEAD'
                        /\ \A i \in TsSlots : CLIENT_CTX'[i].sock \in {0, i + 1}
                        /\ \A i \in 0 .. TLSCH_HEAD' - 1 :
                             CLIENT_CTX'[i].sock = i + 1 /\ CLIENT_CTX'[i].ssl = tsOpen'[i + 1]
                        /\ \A f, g \in DOMAIN tsOpen' : f < g => tsOpen'[f] < tsOpen'[g]
                        /\ \A f \in DOMAIN tsOpen' : tsOpen'[f] \notin tsFreed'
      BY Zenon DEF TsStacked
    <3>1. /\ DOMAIN tsOpen = 1 .. TLSCH_HEAD
          /\ \A i \in TsSlots : CLIENT_CTX[i].sock \in {0, i + 1}
          /\ \A i \in 0 .. TLSCH_HEAD - 1 : CLIENT_CTX[i].sock = i + 1 /\ CLIENT_CTX[i].ssl = tsOpen[i + 1]
          /\ \A f, g \in DOMAIN tsOpen : f < g => tsOpen[f] < tsOpen[g]
          /\ \A f \in DOMAIN tsOpen : tsOpen[f] \notin tsFreed
      BY <1>1, <1>3, Zenon DEF TsStacked
    <3>2. fd = TLSCH_HEAD + 1
      <4>1. fd \in TsFds /\ fd > TLSCH_HEAD
        BY <1>2, <2>1, <3>1 DEF TsFds
      <4>2. TLSCH_HEAD + 1 \in TsFds \ DOMAIN tsOpen
        BY <4>1, <2>1, <3>1 DEF TsFds
      <4> QED BY <4>1, <4>2, <1>2, <2>1 DEF TsFds
    <3>3. DOMAIN tsOpen' = 1 .. TLSCH_HEAD'
      BY <1>4, <2>1, <3>1, <3>2
    <3>4. \A i \in TsSlots : CLIENT_CTX'[i].sock \in {0, i + 1}
      BY <1>1, <2>1, <3>1, <3>2, Zenon DEF TsTypes, TsSlots
    <3>5. ASSUME NEW i \in 0 .. TLSCH_HEAD' - 1
          PROVE  CLIENT_CTX'[i].sock = i + 1 /\ CLIENT_CTX'[i].ssl = tsOpen'[i + 1]
      <4>1. CASE i = TLSCH_HEAD
        BY <4>1, <1>1, <1>3, <2>1, <3>2, Zenon DEF TsTypes, TsSlots
      <4>2. CASE i \in 0 .. TLSCH_HEAD - 1
        BY <4>2, <1>1, <1>3, <2>1, <3>1, <3>2, SMTT(30) DEF TsTypes, TsSlots
      <4> QED BY <4>1, <4>2, <2>1
    <3>6. ASSUME NEW f \in DOMAIN tsOpen', NEW g \in DOMAIN tsOpen', f < g PROVE tsOpen'[f] < tsOpen'[g]
      <4>1. \A h \in DOMAIN tsOpen : tsOpen[h] \in 1 .. tsMade /\ h < fd
        BY <1>1, <2>1, <3>1, <3>2, SMTT(30) DEF TsTypes
      <4> QED BY <4>1, <1>2, <1>3, <1>4, <3>1, <3>6, <2>2, SMTT(30)
    <3>7. ASSUME NEW f \in DOMAIN tsOpen' PROVE tsOpen'[f] \notin tsFreed'
      <4>1. tsMade + 1 \notin tsFreed
        BY <1>1, <1>4, SMTT(30) DEF TsTypes
      <4> QED BY <4>1, <1>3, <1>4, <3>1, Zenon
    <3> QED BY <3>3, <3>4, <3>5, <3>6, <3>7, Zenon
  <2> QED BY <2>3, <2>4, <2>5, <2>6, ZenonT(30) DEF TsTableInv, TsCounted
<1> QED BY <1>5, <1>6, Zenon

(* A departure, and a closing by the loop of main(), take a name away: closing a named
   descriptor is what lets TLSCH_HEAD move back. *)
LEMMA ClosingCounted ==
  ASSUME TsTypes, TsCounted, NEW fd \in DOMAIN tsOpen, Closes(fd), CLIENT_CTX' = CLIENT_CTX
  PROVE  /\ Cardinality(Named') \in Nat
         /\ fd \in Named => Cardinality(Named') <= TLSCH_HEAD - 1
         /\ Cardinality(Named') <= TLSCH_HEAD
<1>1. IsFiniteSet(Named) /\ Cardinality(Named) \in Nat /\ Cardinality(Named) <= TLSCH_HEAD /\ TLSCH_HEAD \in Int
  <2>1. IsFiniteSet(Named) /\ Cardinality(Named) \in Nat
    BY NamedFinite, Zenon DEF TsCounted, TsTypes, Named
  <2> QED BY <2>1 DEF TsCounted, TsTypes, TsSlots
<1>2. Named' = Named \ {fd}
  BY Zenon DEF Named, Closes
<1>3. IsFiniteSet(Named') /\ Cardinality(Named') = IF fd \in Named THEN Cardinality(Named) - 1 ELSE Cardinality(Named)
  BY <1>1, <1>2, FS_RemoveElement, Zenon
<1>4. Cardinality(Named') \in Nat
  BY <1>3, FS_CardinalityType, Zenon
<1> QED BY <1>1, <1>3, <1>4

(* What closing a descriptor does to the types. *)
LEMMA ClosingTypes ==
  ASSUME TsTypes, NEW fd \in DOMAIN tsOpen, Closes(fd), tsMade' = tsMade
  PROVE  /\ DOMAIN tsOpen' = DOMAIN tsOpen \ {fd}
         /\ \A f \in DOMAIN tsOpen' : tsOpen'[f] = tsOpen[f]
         /\ DOMAIN tsOpen' \subseteq TsFds
         /\ tsOpen' \in [DOMAIN tsOpen' -> 1 .. tsMade']
         /\ \A f, g \in DOMAIN tsOpen' : tsOpen'[f] = tsOpen'[g] => f = g
<1>1. DOMAIN tsOpen' = DOMAIN tsOpen \ {fd} /\ \A f \in DOMAIN tsOpen' : tsOpen'[f] = tsOpen[f]
  BY Zenon DEF Closes
<1>2. DOMAIN tsOpen' \subseteq TsFds
  BY <1>1, Zenon DEF TsTypes
<1>3. tsOpen' \in [DOMAIN tsOpen' -> 1 .. tsMade']
  BY <1>1, Zenon DEF TsTypes, Closes
<1>4. \A f, g \in DOMAIN tsOpen' : tsOpen'[f] = tsOpen'[g] => f = g
  BY <1>1, Zenon DEF TsTypes
<1> QED BY <1>1, <1>2, <1>3, <1>4, Zenon

(* handle_client() lets go of a session: the orderly case is the top of the stack. *)
LEMMA DepartureInv ==
  ASSUME TsTableInv, NEW fd \in DOMAIN tsOpen, ClientLeft(fd) PROVE TsTableInv'
<1> USE TsAssumption
<1>1. TsTypes /\ TsCounted /\ TsStacked
  BY Zenon DEF TsTableInv
<1>2. /\ release_tlsch(fd) /\ Closes(fd) /\ CLIENT_CTX' = CLIENT_CTX /\ tsMade' = tsMade
      /\ tsFreed' = tsFreed \cup {CLIENT_CTX[i].ssl : i \in Matches(fd)}
      /\ TLSCH_HEAD' = IF Matches(fd) # {} THEN TLSCH_HEAD - 1 ELSE TLSCH_HEAD
      /\ tsOrderly' = (tsOrderly /\ IsNewest(fd))
  BY Zenon DEF ClientLeft, release_tlsch
<1>3. Matches(fd) \subseteq TsSlots /\ (Matches(fd) # {} => fd \in Named)
  BY <1>1, SMTT(30) DEF Matches, TsSlots, Named, TsTypes
<1>4. /\ Cardinality(Named') \in Nat
      /\ fd \in Named => Cardinality(Named') <= TLSCH_HEAD - 1
      /\ Cardinality(Named') <= TLSCH_HEAD
  BY <1>1, <1>2, ClosingCounted, Zenon
<1>5. Cardinality(Named') <= TLSCH_HEAD' /\ TLSCH_HEAD' \in TsSlots
  BY <1>1, <1>2, <1>3, <1>4, SMTT(30) DEF TsTypes, TsSlots
<1>6. TsCounted'
  BY <1>1, <1>2, <1>5, Zenon DEF TsCounted
<1>7. TsTypes'
  <2>1. tsFreed' \subseteq 0 .. tsMade'
    BY <1>1, <1>2, <1>3, SMTT(30) DEF TsTypes
  <2>2. tsOrderly' \in BOOLEAN
    BY <1>2, Zenon
  <2> QED BY <1>1, <1>2, <1>5, <2>1, <2>2, ClosingTypes, Zenon DEF TsTypes
<1>8. TsStacked'
  <2> SUFFICES ASSUME tsOrderly'
               PROVE  /\ DOMAIN tsOpen' = 1 .. TLSCH_HEAD'
                      /\ \A i \in TsSlots : CLIENT_CTX'[i].sock \in {0, i + 1}
                      /\ \A i \in 0 .. TLSCH_HEAD' - 1 :
                           CLIENT_CTX'[i].sock = i + 1 /\ CLIENT_CTX'[i].ssl = tsOpen'[i + 1]
                      /\ \A f, g \in DOMAIN tsOpen' : f < g => tsOpen'[f] < tsOpen'[g]
                      /\ \A f \in DOMAIN tsOpen' : tsOpen'[f] \notin tsFreed'
    BY Zenon DEF TsStacked
  <2>1. /\ DOMAIN tsOpen = 1 .. TLSCH_HEAD
        /\ \A i \in TsSlots : CLIENT_CTX[i].sock \in {0, i + 1}
        /\ \A i \in 0 .. TLSCH_HEAD - 1 : CLIENT_CTX[i].sock = i + 1 /\ CLIENT_CTX[i].ssl = tsOpen[i + 1]
        /\ \A f, g \in DOMAIN tsOpen : f < g => tsOpen[f] < tsOpen[g]
        /\ \A f \in DOMAIN tsOpen : tsOpen[f] \notin tsFreed
        /\ IsNewest(fd)
    BY <1>1, <1>2, Zenon DEF TsStacked
  <2>2. TLSCH_HEAD \in Nat /\ TLSCH_HEAD \in TsSlots /\ fd \in 1 .. TLSCH_HEAD
    BY <1>1, <2>1 DEF TsTypes, TsSlots
  <2>3. fd = TLSCH_HEAD
    <3>1. TLSCH_HEAD \in DOMAIN tsOpen /\ tsOpen[TLSCH_HEAD] <= tsOpen[fd]
      BY <2>1, <2>2 DEF IsNewest
    <3>2. \A h \in DOMAIN tsOpen : tsOpen[h] \in Nat
      BY <1>1 DEF TsTypes
    <3>3. ~(fd < TLSCH_HEAD)
      BY <2>1, <3>1, <3>2, SMTT(30)
    <3> QED BY <2>2, <3>3, SMTT(30)
  <2>4. Matches(fd) = {fd - 1}
    BY <2>1, <2>2, <2>3, SMTT(30) DEF Matches, TsSlots
  <2>5. TLSCH_HEAD' = TLSCH_HEAD - 1 /\ tsFreed' = tsFreed \cup {tsOpen[fd]}
    <3>1. CLIENT_CTX[fd - 1].ssl = tsOpen[fd]
      BY <2>1, <2>2, <2>3, SMTT(30)
    <3> QED BY <1>2, <2>4, <3>1, ZenonT(30)
  <2>6. DOMAIN tsOpen' = DOMAIN tsOpen \ {fd} /\ \A f \in DOMAIN tsOpen' : tsOpen'[f] = tsOpen[f]
    BY <1>1, <1>2, ClosingTypes, Zenon
  <2>7. DOMAIN tsOpen' = 1 .. TLSCH_HEAD'
    BY <2>1, <2>2, <2>3, <2>5, <2>6, SMTT(30)
  <2>8. \A i \in 0 .. TLSCH_HEAD' - 1 : CLIENT_CTX'[i].sock = i + 1 /\ CLIENT_CTX'[i].ssl = tsOpen'[i + 1]
    <3> TAKE i \in 0 .. TLSCH_HEAD' - 1
    <3>1. i \in 0 .. TLSCH_HEAD - 1 /\ i + 1 \in 1 .. TLSCH_HEAD'
      BY <2>2, <2>5, SMTT(30)
    <3>2. CLIENT_CTX'[i] = CLIENT_CTX[i]
      BY <1>2, Zenon
    <3>3. tsOpen'[i + 1] = tsOpen[i + 1]
      BY <2>6, <2>7, <3>1, Zenon
    <3> QED BY <2>1, <3>1, <3>2, <3>3, Zenon
  <2>9. \A f \in DOMAIN tsOpen' : tsOpen'[f] \notin tsFreed'
    BY <1>1, <2>1, <2>5, <2>6, Zenon DEF TsTypes
  <2> QED BY <1>2, <2>1, <2>6, <2>7, <2>8, <2>9, ZenonT(30)
<1> QED BY <1>6, <1>7, <1>8, Zenon DEF TsTableInv

(* The loop of main() closes a descriptor and leaves its slot. *)
LEMMA ErrorInv ==
  ASSUME TsTableInv, NEW fd \in DOMAIN tsOpen, WaitError(fd) PROVE TsTableInv'
<1>1. TsTypes /\ TsCounted
  BY Zenon DEF TsTableInv
<1>2. /\ Closes(fd) /\ CLIENT_CTX' = CLIENT_CTX /\ TLSCH_HEAD' = TLSCH_HEAD /\ tsFreed' = tsFreed
      /\ tsMade' = tsMade /\ tsOrderly' = FALSE
  BY Zenon DEF WaitError
<1>3. TsTypes'
  BY <1>1, <1>2, ClosingTypes, Zenon DEF TsTypes
<1>4. TsCounted'
  BY <1>1, <1>2, ClosingCounted, Zenon DEF TsCounted
<1> QED BY <1>2, <1>3, <1>4, Zenon DEF TsTableInv, TsStacked

(* Every arrival, departure and failed wait keeps the table's count. *)
LEMMA TsStepInv == TsTableInv /\ [TsNext]_tsVars => TsTableInv'
<1> SUFFICES ASSUME TsTableInv, [TsNext]_tsVars PROVE TsTableInv'
  BY Zenon
<1>1. CASE TsHandleConn
  BY <1>1, ArrivalInv, Zenon
<1>2. ASSUME NEW fd \in DOMAIN tsOpen, ClientLeft(fd) \/ WaitError(fd) PROVE TsTableInv'
  BY <1>2, DepartureInv, ErrorInv, Zenon
<1>3. CASE UNCHANGED tsVars
  <2>1. Named' = Named
    BY <1>3, Zenon DEF tsVars, Named
  <2>2. TsTypes' /\ TsStacked'
    BY <1>3, Zenon DEF tsVars, TsTableInv, TsTypes, TsStacked
  <2> QED BY <1>3, <2>1, <2>2, Zenon DEF tsVars, TsTableInv, TsCounted
<1> QED BY <1>1, <1>2, <1>3, Zenon DEF TsNext

-----------------------------------------------------------------------------
(* The loops of get_tlsch_ssl() and release_tlsch() up to TLSCH_HEAD inclusive stay
   inside CLIENT_CTX[] for every size of the table, in any order of arrivals, departures
   and errors, and connections that leave in the reverse order of their arrival find
   their own SSL objects, not freed. *)
THEOREM TableKept == TsSpec => []TsTableKept
<1>1. TsTableInv => TsTableKept
  <2> SUFFICES ASSUME TsTableInv PROVE TsTableKept
    BY Zenon
  <2>1. TsTypes /\ TsStacked
    BY Zenon DEF TsTableInv
  <2>2. TsScanInTable
    BY <2>1, Zenon DEF TsScanInTable, TsTypes, TsSlots
  <2>3. ASSUME tsOrderly, NEW fd \in DOMAIN tsOpen
        PROVE  get_tlsch_ssl(fd) = tsOpen[fd] /\ tsOpen[fd] \notin tsFreed
    <3>1. /\ DOMAIN tsOpen = 1 .. TLSCH_HEAD
          /\ \A i \in TsSlots : CLIENT_CTX[i].sock \in {0, i + 1}
          /\ \A i \in 0 .. TLSCH_HEAD - 1 : CLIENT_CTX[i].sock = i + 1 /\ CLIENT_CTX[i].ssl = tsOpen[i + 1]
          /\ tsOpen[fd] \notin tsFreed
      BY <2>1, <2>3, Zenon DEF TsStacked
    <3>2. TLSCH_HEAD \in TsSlots /\ fd \in 1 .. TLSCH_HEAD
      BY <2>1, <3>1, Zenon DEF TsTypes
    <3>3. Matches(fd) = {fd - 1}
      BY <3>1, <3>2, TsAssumption DEF Matches, TsSlots
    <3>4. CLIENT_CTX[fd - 1].ssl = tsOpen[fd]
      BY <3>1, <3>2, TsAssumption DEF TsSlots
    <3>5. (CHOOSE i \in Matches(fd) : \A k \in Matches(fd) : i <= k) = fd - 1
      BY <3>2, <3>3, TsAssumption DEF TsSlots
    <3> QED BY <3>1, <3>3, <3>4, <3>5, ZenonT(30) DEF get_tlsch_ssl
  <2> QED BY <2>2, <2>3, Zenon DEF TsTableKept, TsOrderlyFindsOwn
<1> QED BY <1>1, TsInitInv, TsStepInv, PTL DEF TsSpec

=============================================================================
