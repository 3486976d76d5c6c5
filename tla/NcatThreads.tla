------------------------------ MODULE NcatThreads ------------------------------
(***************************************************************************)
(* ncat, a client and a listener.  The client's main thread connects,      *)
(* reads lines from stdin and writes each as a buffer of MAX_WRITE_BUFF    *)
(* bytes; its get thread reads from the socket, and keeps the lock while   *)
(* it waits there.  _client_sock_ready tells each thread whether the other *)
(* still has the connection.  The listener's get thread loads what is to   *)
(* be served while the main thread already accepts.                        *)
(* Bytes are counted in pieces, NcBuff of which fill one buffer.           *)
(***************************************************************************)
EXTENDS Integers

CONSTANTS
  NcBuff,      \* MAX_READ_BUFF = MAX_WRITE_BUFF, in pieces
  NcLines,     \* lines typed at the client
  NcContent    \* lines on the listener's stdin

ASSUME NcAssumption == NcBuff \in Nat \ {0} /\ NcLines \in Nat /\ NcContent \in Nat

VARIABLES
  ncMain,      \* client main thread: "connect", "ready", "fgets", "check", "write", "leave", "close" or "exited"
  ncGet,       \* client get thread: [pc, valread], pc is "lock", "test" or "read"
  ncLock,      \* "free", "main" or "get"
  ncReady,     \* _client_sock_ready
  ncSock,      \* the client's socket: "new", "open" or "closed"
  ncTyped,     \* lines read from stdin
  ncWritten,   \* lines written to the socket
  ncUp,        \* pieces under way to the listener
  ncDown,      \* pieces under way to the client
  ncListen,    \* the listener: [pc, valread], pc is "accept", "read", "close" or "exited"
  ncLoad,      \* its get thread: [exists, lines]
  ncShown      \* [client, listener]: buffers printed

ncVars == <<ncMain, ncGet, ncLock, ncReady, ncSock, ncTyped, ncWritten, ncUp, ncDown, ncListen, ncLoad, ncShown>>
ncListener == <<ncListen, ncLoad>>

NcInit ==
  /\ ncMain = "connect" /\ ncGet = [pc |-> "lock", valread |-> 0] /\ ncLock = "free"
  /\ ncReady = FALSE /\ ncSock = "new" /\ ncTyped = 0 /\ ncWritten = 0 /\ ncUp = 0 /\ ncDown = 0
  /\ ncListen = [pc |-> "accept", valread |-> 0] /\ ncLoad = [exists |-> FALSE, lines |-> 0]
  /\ ncShown = [client |-> 0, listener |-> 0]

PeerGone == ncListen.pc \in {"close", "exited"}

-----------------------------------------------------------------------------
NcConnect_ReadyFirst ==
  /\ ncMain = "connect" /\ ncReady' = TRUE
  /\ IF ncReady THEN ncMain' = "ready" /\ ncSock' = "open" ELSE UNCHANGED <<ncMain, ncSock>>
  /\ UNCHANGED <<ncLock, ncTyped, ncWritten, ncUp>>

(* NCAT_client(): connect() on a socket that was closed before fails *)
NcConnect ==
  /\ ncMain = "connect"
  /\ IF ncSock = "new" /\ ncListen.pc = "accept"
     THEN ncMain' = "ready" /\ ncSock' = "open"
     ELSE ncMain' = "exited" /\ UNCHANGED ncSock
  /\ UNCHANGED <<ncLock, ncReady, ncTyped, ncWritten, ncUp>>

NcPublish ==
  /\ ncMain = "ready" /\ ncLock = "free" /\ ncReady' = TRUE /\ ncMain' = "fgets"
  /\ UNCHANGED <<ncLock, ncSock, ncTyped, ncWritten, ncUp>>

NcFgets ==
  /\ ncMain = "fgets" /\ ncTyped < NcLines /\ ncTyped' = ncTyped + 1 /\ ncMain' = "check"
  /\ UNCHANGED <<ncLock, ncReady, ncSock, ncWritten, ncUp>>

NcCheckReady ==
  /\ ncMain = "check" /\ ncLock = "free"
  /\ ncMain' = IF ncReady THEN "write" ELSE "leave"
  /\ UNCHANGED <<ncLock, ncReady, ncSock, ncTyped, ncWritten, ncUp>>

(* write(): to a peer that has gone it may end the process with SIGPIPE *)
NcWrite ==
  /\ ncMain = "write" /\ ncWritten' = ncWritten + 1
  /\ IF PeerGone THEN ncMain' \in {"fgets", "exited"} /\ UNCHANGED ncUp
                 ELSE ncMain' = "fgets" /\ ncUp' = ncUp + NcBuff
  /\ UNCHANGED <<ncLock, ncReady, ncSock, ncTyped>>

(* ready = 0 under the lock, then close() *)
NcLeave ==
  /\ \/ /\ ncMain = "leave" /\ ncLock = "free" /\ ncReady' = FALSE /\ ncMain' = "close" /\ UNCHANGED ncSock
     \/ /\ ncMain = "close" /\ ncSock' = "closed" /\ ncMain' = "connect" /\ UNCHANGED ncReady
  /\ UNCHANGED <<ncLock, ncTyped, ncWritten, ncUp>>

NCAT_client ==
  /\ NcConnect \/ NcPublish \/ NcFgets \/ NcCheckReady \/ NcWrite \/ NcLeave
  /\ UNCHANGED <<ncGet, ncDown, ncListener, ncShown>>

-----------------------------------------------------------------------------
(* NCAT_get_thread() of the client: take the lock and test ready *)
NcGetLock ==
  /\ ncGet.pc = "lock" /\ ncLock = "free"
  /\ IF ncReady THEN ncLock' = "get" /\ ncGet' = [pc |-> "read", valread |-> 0]
                ELSE UNCHANGED <<ncLock, ncGet>>
  /\ UNCHANGED <<ncReady, ncDown, ncShown>>

(* read() gives some pieces; a full buffer is printed and the lock let go *)
NcGetRead ==
  /\ ncGet.pc = "read"
  /\ \E n \in 1 .. NcBuff :
       /\ n <= ncDown /\ ncDown' = ncDown - n
       /\ IF ncGet.valread + n < NcBuff
          THEN ncGet' = [ncGet EXCEPT !.valread = @ + n] /\ UNCHANGED <<ncLock, ncShown>>
          ELSE /\ ncGet' = [pc |-> "lock", valread |-> 0] /\ ncLock' = "free"
               /\ ncShown' = [ncShown EXCEPT !.client = @ + 1]
  /\ UNCHANGED ncReady

NcGetEnd_StaysReady ==
  /\ ncGet.pc = "read" /\ ncDown = 0 /\ PeerGone
  /\ ncLock' = "free" /\ ncGet' = [pc |-> "lock", valread |-> 0] /\ UNCHANGED <<ncReady, ncDown, ncShown>>

(* read() returns 0 or an error: ready = 0 and the lock is let go *)
NcGetEnd ==
  /\ ncGet.pc = "read" /\ ncDown = 0 /\ PeerGone
  /\ ncReady' = FALSE /\ ncLock' = "free" /\ ncGet' = [pc |-> "lock", valread |-> 0]
  /\ UNCHANGED <<ncDown, ncShown>>

NCAT_get_thread ==
  /\ ncMain # "exited" /\ (NcGetLock \/ NcGetRead \/ NcGetEnd)
  /\ UNCHANGED <<ncMain, ncSock, ncTyped, ncWritten, ncUp, ncListener>>

-----------------------------------------------------------------------------
(* NCAT_get_thread() of the listener: exists is set before the first line is read *)
NcLoadLine ==
  /\ ncListen.pc # "exited"
  /\ \/ ~ncLoad.exists /\ ncLoad' = [ncLoad EXCEPT !.exists = TRUE]
     \/ ncLoad.exists /\ ncLoad.lines < NcContent /\ ncLoad' = [ncLoad EXCEPT !.lines = @ + 1]
  /\ UNCHANGED <<ncListen, ncUp, ncDown, ncShown>>

(* NCAT_listen_and_serve(): accept(), and the whole load buffer once it exists *)
NcAccept ==
  /\ ncListen.pc = "accept" /\ ncSock = "open" /\ ncMain # "exited"
  /\ ncListen' = [pc |-> "read", valread |-> 0]
  /\ ncDown' = IF ncLoad.exists THEN ncDown + NcBuff ELSE ncDown
  /\ UNCHANGED <<ncLoad, ncUp, ncShown>>

(* read() may give more than the buffer has left, since it is asked for a whole one
   each time: what is too much is stored behind the buffer and belongs to none *)
NcListenRead ==
  /\ ncListen.pc = "read"
  /\ \E n \in 1 .. NcBuff :
       /\ n <= ncUp /\ ncUp' = ncUp - n
       /\ IF ncListen.valread + n < NcBuff
          THEN ncListen' = [ncListen EXCEPT !.valread = @ + n] /\ UNCHANGED ncShown
          ELSE /\ ncListen' = [ncListen EXCEPT !.valread = 0]
               /\ ncShown' = [ncShown EXCEPT !.listener = @ + 1]
  /\ UNCHANGED <<ncLoad, ncDown>>

(* the end of the client's stream: close(connfd) and accept the next *)
NcListenEnd ==
  /\ ncListen.pc = "read" /\ ncUp = 0 /\ (ncSock = "closed" \/ ncMain = "exited")
  /\ ncListen' = [pc |-> "accept", valread |-> 0] /\ UNCHANGED <<ncLoad, ncUp, ncDown, ncShown>>

(* a read error closes the connection early; the listener then accepts again, but the
   one client's next connect() fails *)
NcListenError ==
  /\ ncListen.pc = "read" /\ ncListen' = [pc |-> "close", valread |-> 0]
  /\ ncUp' = 0 /\ UNCHANGED <<ncLoad, ncDown, ncShown>>

(* SIGINT at the listener *)
NCAT_keyboard_interrupt ==
  /\ ncListen.pc # "exited" /\ ncListen' = [pc |-> "exited", valread |-> 0]
  /\ ncUp' = 0 /\ UNCHANGED <<ncLoad, ncDown, ncShown>>

NCAT_listen_and_serve ==
  /\ NcLoadLine \/ NcAccept \/ NcListenRead \/ NcListenEnd
  /\ UNCHANGED <<ncMain, ncGet, ncLock, ncReady, ncSock, ncTyped, ncWritten>>

NcStops ==
  /\ NcListenError \/ NCAT_keyboard_interrupt
  /\ UNCHANGED <<ncMain, ncGet, ncLock, ncReady, ncSock, ncTyped, ncWritten>>

NcNext == NCAT_client \/ NCAT_get_thread \/ NCAT_listen_and_serve \/ NcStops
NcFairness == WF_ncVars(NCAT_client /\ ~NcFgets) /\ WF_ncVars(NCAT_get_thread) /\ WF_ncVars(NCAT_listen_and_serve)
NcSpec == NcInit /\ [][NcNext]_ncVars /\ NcFairness

-----------------------------------------------------------------------------
(* The get thread waits in read() only on a connected socket that the main thread
   has not closed: it holds the lock from the test of _client_sock_ready on. *)
NcReadsOpenSocket == ncGet.pc = "read" /\ ncMain # "exited" => ncLock = "get" /\ ncSock = "open"

(* A buffer is printed only when a whole one was received, however the stream is
   cut into pieces: neither end prints more buffers than the other wrote. *)
NcPrintsWholeBuffers ==
  /\ ncShown.listener <= ncWritten
  /\ ncShown.client * NcBuff + ncDown <= NcBuff

(* When the listener has gone, the client's get thread notices and the main
   thread no longer takes the connection for ready. *)
NcLossNoticed == (ncReady /\ PeerGone) ~> (~ncReady \/ ncMain = "exited")

(* The lock and the flag keep the get thread off a socket that is not open, and
   neither end prints what the other did not send. *)
NcInv == NcReadsOpenSocket /\ NcPrintsWholeBuffers
==============================================================================
