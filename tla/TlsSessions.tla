------------------------------ MODULE TlsSessions ------------------------------
(***************************************************************************)
(* The session table of the sock-tls-ctx-tcp server: CLIENT_CTX[] maps a   *)
(* connection's descriptor to its SSL object.  set_tlsch() stores at       *)
(* TLSCH_HEAD, release_tlsch() frees every entry that matches and only     *)
(* moves TLSCH_HEAD back: entries are neither cleared nor moved, and       *)
(* descriptors are reused.                                                 *)
(***************************************************************************)
EXTENDS Integers, FiniteSets

CONSTANTS
  TsMaxConn,    \* MAX_CONN
  TsSessions    \* bound: SSL objects created, numbered from 1

ASSUME TsAssumption == TsMaxConn \in Nat \ {0} /\ TsSessions \in Nat

VARIABLES
  CLIENT_CTX,   \* index -> [sock, ssl]
  TLSCH_HEAD,
  tsOpen,       \* the open descriptors, each with the SSL object made for it
  tsFreed,      \* the SSL objects that were freed
  tsMade,       \* how many SSL objects were made
  tsOrderly     \* every connection so far got a slot and only the newest ever left,
                \* by a read that returned nothing

tsVars == <<CLIENT_CTX, TLSCH_HEAD, tsOpen, tsFreed, tsMade, tsOrderly>>

TsFds == 1 .. TsSessions
NULL == 0

TsInit ==
  /\ CLIENT_CTX = [i \in 0 .. TsMaxConn - 1 |-> [sock |-> 0, ssl |-> NULL]]
  /\ TLSCH_HEAD = 0 /\ tsOpen = [fd \in {} |-> NULL] /\ tsFreed = {} /\ tsMade = 0
  /\ tsOrderly = TRUE

IsFull_Late == TLSCH_HEAD = TsMaxConn

IsFull == TLSCH_HEAD + 1 = TsMaxConn
set_tlsch(fd, ssl) ==
  IF IsFull THEN UNCHANGED <<CLIENT_CTX, TLSCH_HEAD>>
  ELSE /\ CLIENT_CTX' = [CLIENT_CTX EXCEPT ![TLSCH_HEAD] = [sock |-> fd, ssl |-> ssl]]
       /\ TLSCH_HEAD' = TLSCH_HEAD + 1

(* The loops run from 0 to TLSCH_HEAD inclusive *)
Matches(fd) == {i \in 0 .. TLSCH_HEAD : CLIENT_CTX[i].sock = fd}

get_tlsch_ssl(fd) ==
  IF Matches(fd) = {} THEN NULL
  ELSE CLIENT_CTX[CHOOSE i \in Matches(fd) : \A k \in Matches(fd) : i <= k].ssl

release_tlsch(fd) ==
  /\ tsFreed' = tsFreed \cup {CLIENT_CTX[i].ssl : i \in Matches(fd)}
  /\ TLSCH_HEAD' = IF Matches(fd) # {} THEN TLSCH_HEAD - 1 ELSE TLSCH_HEAD
  /\ UNCHANGED CLIENT_CTX

-----------------------------------------------------------------------------
(* accept() hands out the lowest free descriptor; a full table is not noticed *)
TsLowestFree == CHOOSE fd \in TsFds \ DOMAIN tsOpen : \A k \in TsFds \ DOMAIN tsOpen : fd <= k

TsHandleConn ==
  /\ tsMade < TsSessions
  /\ LET fd == TsLowestFree IN
     /\ tsMade' = tsMade + 1
     /\ set_tlsch(fd, tsMade')
     /\ tsOpen' = [f \in DOMAIN tsOpen \cup {fd} |-> IF f = fd THEN tsMade' ELSE tsOpen[f]]
     /\ tsOrderly' = (tsOrderly /\ ~IsFull)
  /\ UNCHANGED tsFreed

Closes(fd) == tsOpen' = [f \in DOMAIN tsOpen \ {fd} |-> tsOpen[f]]
IsNewest(fd) == \A f \in DOMAIN tsOpen : tsOpen[f] <= tsOpen[fd]

(* A read that returned nothing: handle_client() releases the session and closes *)
ClientLeft(fd) ==
  /\ release_tlsch(fd) /\ Closes(fd)
  /\ tsOrderly' = (tsOrderly /\ IsNewest(fd))
  /\ UNCHANGED tsMade

(* EPOLLERR or EPOLLHUP: the loop of main() closes the descriptor and nothing else *)
WaitError(fd) ==
  /\ Closes(fd) /\ tsOrderly' = FALSE
  /\ UNCHANGED <<CLIENT_CTX, TLSCH_HEAD, tsFreed, tsMade>>

TsNext == TsHandleConn \/ \E fd \in DOMAIN tsOpen : ClientLeft(fd) \/ WaitError(fd)

TsSpec == TsInit /\ [][TsNext]_tsVars

-----------------------------------------------------------------------------
(***************************************************************************)
(* As long as connections end in the reverse order of their arrival, and   *)
(* the table never fills up, each open connection finds the SSL object     *)
(* made for it, and that object has not been freed.                        *)
(***************************************************************************)
TsOrderlyFindsOwn ==
  tsOrderly => \A fd \in DOMAIN tsOpen :
                 get_tlsch_ssl(fd) = tsOpen[fd] /\ tsOpen[fd] \notin tsFreed

(***************************************************************************)
(* Whatever the order of arrivals and departures, the loops that go up to  *)
(* TLSCH_HEAD inclusive stay inside the table.                             *)
(***************************************************************************)
TsScanInTable == TLSCH_HEAD \in 0 .. TsMaxConn - 1

(* What is left of the table's contract: its index stays inside, and connections that
   leave in the reverse order of their arrival find their own sessions. *)
TsTableKept == TsScanInTable /\ TsOrderlyFindsOwn
==============================================================================
