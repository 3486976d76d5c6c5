-------------------------------- MODULE SfuRoom --------------------------------
(***************************************************************************)
(* One room of the WebRTC forwarding server 0xgo/webrtc.  A peer joins     *)
(* over a websocket, its incoming track is fanned out to the others, and   *)
(* signalPeerConnections() brings every connection of the room up to date  *)
(* under ListLock: it drops closed connections, adjusts what each one      *)
(* sends, and writes it a new offer, starting over after every change or   *)
(* failure until a try limit, and then again three seconds later.          *)
(* Handlers, track readers and state callbacks are goroutines of their own.*)
(***************************************************************************)
EXTENDS Naturals, Sequences, SequencesExt

CONSTANTS
  SfPeers,      \* numbered in the order in which they come
  SfAttempts,   \* PEER_SIGNAL_ATTEMPT_SYNC
  SfChats       \* bound: chat messages

VARIABLES
  sfConn,       \* peer -> its peerConnection: "none", "auth", "open" or "closed"
  sfWs,         \* peer -> its websocket works
  sfReader,     \* peer -> the goroutine of OnTrack: "none", "reading", "ended"
  sfSends,      \* peer -> the tracks its connection has senders for
  sfOffered,    \* peer -> the tracks of the last offer written to it
  sfList,       \* roomPeerConnections[k]
  sfTracks,     \* the keys of roomTrackLocals[k]; a track is named after its peer
  sfPending,    \* goroutines about to call signalPeerConnections()
  sfRetries,    \* goroutines that sleep before they call it again
  sfSync,       \* the call that holds ListLock: [on, i, attempt]
  sfChat,       \* the broadcast that is running: [by, n], or NoChat
  sfChatted,    \* broadcasts begun
  sfUp          \* the server process is running

sfVars == <<sfConn, sfWs, sfReader, sfSends, sfOffered, sfList, sfTracks, sfPending, sfRetries,
            sfSync, sfChat, sfChatted, sfUp>>
sfRest == <<sfChat, sfChatted, sfUp>>

NoChat == [on |-> FALSE]
Unlocked == [on |-> FALSE, i |-> 1, attempt |-> 0]

SfInit ==
  /\ sfConn = [p \in SfPeers |-> "none"] /\ sfWs = [p \in SfPeers |-> TRUE]
  /\ sfReader = [p \in SfPeers |-> "none"]
  /\ sfSends = [p \in SfPeers |-> {}] /\ sfOffered = [p \in SfPeers |-> {}]
  /\ sfList = <<>> /\ sfTracks = {} /\ sfPending = 0 /\ sfRetries = 0
  /\ sfSync = Unlocked /\ sfChat = NoChat /\ sfChatted = 0 /\ sfUp = TRUE

Locked == sfSync.on

-----------------------------------------------------------------------------
(* A websocket is opened; roomJoinAuth() waits for the join message *)
Upgrade(p) ==
  /\ sfConn[p] = "none" /\ \A q \in SfPeers : q < p => sfConn[q] # "none"
  /\ sfConn' = [sfConn EXCEPT ![p] = "auth"]
  /\ UNCHANGED <<sfWs, sfReader, sfSends, sfOffered, sfList, sfTracks, sfPending, sfRetries, sfSync, sfRest>>

(* The deferred calls close the connection and the websocket *)
SfCloses(p) == sfConn' = [sfConn EXCEPT ![p] = "closed"] /\ sfWs' = [sfWs EXCEPT ![p] = FALSE]

(* The join message is refused or does not come; a websocket that fails first ends the server *)
roomJoinAuth(p) ==
  /\ sfConn[p] = "auth"
  /\ IF sfWs[p] THEN SfCloses(p) /\ UNCHANGED sfUp
     ELSE sfUp' = FALSE /\ UNCHANGED <<sfConn, sfWs>>
  /\ UNCHANGED <<sfReader, sfSends, sfOffered, sfList, sfTracks, sfPending, sfRetries, sfSync, sfChat, sfChatted>>

(* The peer is admitted: its connection is listed, and the room is signalled *)
JoinRoom(p) ==
  /\ sfConn[p] = "auth" /\ sfWs[p] /\ ~Locked
  /\ sfConn' = [sfConn EXCEPT ![p] = "open"]
  /\ sfList' = Append(sfList, p) /\ sfPending' = sfPending + 1
  /\ UNCHANGED <<sfWs, sfReader, sfSends, sfOffered, sfTracks, sfRetries, sfSync, sfRest>>

(* The client goes away *)
WebsocketFails(p) ==
  /\ sfConn[p] \in {"auth", "open"} /\ sfWs[p] /\ sfWs' = [sfWs EXCEPT ![p] = FALSE]
  /\ UNCHANGED <<sfConn, sfReader, sfSends, sfOffered, sfList, sfTracks, sfPending, sfRetries, sfSync, sfRest>>

(* The handler returns and closes the connection; the state callback signals the room *)
Returns(p) == SfCloses(p) /\ sfPending' = sfPending + 1

HandlerReturns(p) ==
  /\ sfConn[p] = "open" /\ ~sfWs[p] /\ ~(sfChat.on /\ sfChat.by = p)
  /\ Returns(p)
  /\ UNCHANGED <<sfReader, sfSends, sfOffered, sfList, sfTracks, sfRetries, sfSync, sfRest>>

-----------------------------------------------------------------------------
(* OnTrack: the first packet of the peer's own media *)
addTrack(p) ==
  /\ sfConn[p] = "open" /\ sfReader[p] = "none" /\ ~Locked
  /\ sfReader' = [sfReader EXCEPT ![p] = "reading"]
  /\ sfTracks' = sfTracks \cup {p} /\ sfPending' = sfPending + 1
  /\ UNCHANGED <<sfConn, sfWs, sfSends, sfOffered, sfList, sfRetries, sfSync, sfRest>>

(* The read fails once the connection is closed.  delete(roomTrackLocals, k) drops all tracks of the room *)
removeTrack(p) ==
  /\ sfReader[p] = "reading" /\ sfConn[p] = "closed" /\ ~Locked
  /\ sfReader' = [sfReader EXCEPT ![p] = "ended"]
  /\ sfTracks' = {} /\ sfPending' = sfPending + 1
  /\ UNCHANGED <<sfConn, sfWs, sfSends, sfOffered, sfList, sfRetries, sfSync, sfRest>>

-----------------------------------------------------------------------------
(* signalPeerConnections() takes the lock *)
SignalStarts ==
  /\ sfPending > 0 /\ ~Locked
  /\ sfPending' = sfPending - 1 /\ sfSync' = [on |-> TRUE, i |-> 1, attempt |-> 0]
  /\ UNCHANGED <<sfConn, sfWs, sfReader, sfSends, sfOffered, sfList, sfTracks, sfRetries, sfRest>>

StartOver == sfSync' = [sfSync EXCEPT !.i = 1, !.attempt = @ + 1]

(* The tracks the connection should have: its senders first, then what it does not receive itself *)
Receives(p) == IF sfReader[p] = "none" THEN {} ELSE {p}
NewSenders(p) == (sfSends[p] \cap sfTracks) \cup (sfTracks \ (sfSends[p] \cup Receives(p)))

(* attemptSync(), one connection at a time *)
attemptSync ==
  /\ Locked /\ sfSync.attempt < SfAttempts /\ sfSync.i <= Len(sfList)
  /\ LET p == sfList[sfSync.i] IN
     IF sfConn[p] = "closed"
     THEN /\ sfList' = RemoveAt(sfList, sfSync.i) /\ StartOver
          /\ sfSends' = [sfSends EXCEPT ![p] = {}] /\ sfOffered' = [sfOffered EXCEPT ![p] = {}]
     ELSE /\ sfSends' = [sfSends EXCEPT ![p] = NewSenders(p)]
          /\ IF sfWs[p]
             THEN sfOffered' = [sfOffered EXCEPT ![p] = NewSenders(p)] /\ sfSync' = [sfSync EXCEPT !.i = @ + 1]
             ELSE StartOver /\ UNCHANGED sfOffered
          /\ UNCHANGED sfList
  /\ UNCHANGED <<sfConn, sfWs, sfReader, sfTracks, sfPending, sfRetries, sfRest>>

(* Nothing left to change, or the limit is reached and a goroutine will try again *)
SignalEnds_NoRetry ==
  /\ Locked /\ (sfSync.attempt = SfAttempts \/ sfSync.i > Len(sfList))
  /\ sfSync' = Unlocked
  /\ UNCHANGED <<sfConn, sfWs, sfReader, sfSends, sfOffered, sfList, sfTracks, sfPending, sfRetries, sfRest>>

SignalEnds ==
  /\ Locked /\ (sfSync.attempt = SfAttempts \/ sfSync.i > Len(sfList))
  /\ sfSync' = Unlocked
  /\ sfRetries' = IF sfSync.attempt = SfAttempts THEN sfRetries + 1 ELSE sfRetries
  /\ UNCHANGED <<sfConn, sfWs, sfReader, sfSends, sfOffered, sfList, sfTracks, sfPending, sfRest>>

SleepOver ==
  /\ sfRetries > 0 /\ sfRetries' = sfRetries - 1 /\ sfPending' = sfPending + 1
  /\ UNCHANGED <<sfConn, sfWs, sfReader, sfSends, sfOffered, sfList, sfTracks, sfSync, sfRest>>

-----------------------------------------------------------------------------
(* broadcastPeerConnections() runs without the lock over the length it saw at first *)
ChatStarts(p) ==
  /\ sfConn[p] = "open" /\ sfWs[p] /\ ~sfChat.on /\ sfChatted < SfChats
  /\ sfChat' = [on |-> TRUE, by |-> p, n |-> Len(sfList)] /\ sfChatted' = sfChatted + 1
  /\ UNCHANGED <<sfConn, sfWs, sfReader, sfSends, sfOffered, sfList, sfTracks, sfPending, sfRetries, sfSync, sfUp>>

(* It indexes the list up to that length; past the end of a list that has shrunk *)
(* the access panics and the handler returns                                     *)
broadcastPeerConnections ==
  /\ sfChat.on /\ sfChat' = NoChat
  /\ IF Len(sfList) < sfChat.n THEN Returns(sfChat.by) ELSE UNCHANGED <<sfConn, sfWs, sfPending>>
  /\ UNCHANGED <<sfReader, sfSends, sfOffered, sfList, sfTracks, sfRetries, sfSync, sfChatted, sfUp>>

Clients == \E p \in SfPeers : Upgrade(p) \/ WebsocketFails(p) \/ addTrack(p) \/ ChatStarts(p) \/ roomJoinAuth(p)
Handlers ==
  \/ \E p \in SfPeers : JoinRoom(p) \/ HandlerReturns(p) \/ removeTrack(p)
  \/ SignalStarts \/ attemptSync \/ SignalEnds \/ SleepOver \/ broadcastPeerConnections

SfNext == sfUp /\ (Clients \/ Handlers)

SfFairness ==
  /\ WF_sfVars(sfUp /\ (attemptSync \/ SignalEnds))
  /\ SF_sfVars(sfUp /\ SignalStarts) /\ WF_sfVars(sfUp /\ SleepOver)
  /\ WF_sfVars(sfUp /\ broadcastPeerConnections)
  /\ \A p \in SfPeers : WF_sfVars(sfUp /\ HandlerReturns(p)) /\ SF_sfVars(sfUp /\ removeTrack(p))

SfSpec == SfInit /\ [][SfNext]_sfVars /\ SfFairness

-----------------------------------------------------------------------------
(* What the room should look like: the list is the open connections, each offered the others' tracks *)
Synced ==
  /\ \A p \in SfPeers : (sfConn[p] = "open") <=> Contains(sfList, p)
  /\ \A p \in SfPeers : Contains(sfList, p) => sfOffered[p] = sfTracks \ {p}

(***************************************************************************)
(* When peers stop coming, going and adding tracks, every connection still *)
(* open ends up with an offer of exactly the room's tracks of the others,  *)
(* and the closed ones are gone from the list: retries after failed writes *)
(* and removals are never lost.                                            *)
(***************************************************************************)
SfConverges == <>[](Synced \/ ~sfUp)

(***************************************************************************)
(* OnTrack() creates "a track to fan out our incoming video to all peers": *)
(* a track whose connection is open and whose reader runs is in the room's *)
(* map, so that peers who join later are sent it.                          *)
(***************************************************************************)
SfLiveTracksFannedOut ==
  \A p \in SfPeers : (sfConn[p] = "open" /\ sfReader[p] = "reading") => p \in sfTracks
==============================================================================
