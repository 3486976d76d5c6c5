------------------------------ MODULE TimedClients ------------------------------
(***************************************************************************)
(* The clients of the select, poll, epoll and thread echo servers:         *)
(* connect_with_timeout() starts a nonblocking connect and looks at it     *)
(* once, main() goes on unless it returned a negative number, and comm()   *)
(* writes a line and reads an answer on the socket made blocking again.    *)
(* The server may never answer the connect, refuse it, or fall silent.     *)
(***************************************************************************)
EXTENDS Integers

CONSTANTS
  TcPrograms,    \* a subset of {"select", "poll", "epoll", "thread"}
  TcRounds       \* bound: lines the user types

VARIABLES
  tcProg,
  tcPc,          \* the call the client is at
  tcSock,        \* the connection: "none", "connecting", "connected" or "refused"
  tcNonblock,    \* O_NONBLOCK is set
  tcTimeouts,    \* which of SO_RCVTIMEO and SO_SNDTIMEO are set
  tcStat,        \* what connect_with_timeout() returns
  tcRound        \* lines typed

tcVars == <<tcProg, tcPc, tcSock, tcNonblock, tcTimeouts, tcStat, tcRound>>

TcInit ==
  /\ tcProg \in TcPrograms /\ tcPc = "socket" /\ tcSock = "none"
  /\ tcNonblock = FALSE /\ tcTimeouts = {} /\ tcStat = 0 /\ tcRound = 0

-----------------------------------------------------------------------------
(* The calls before connect(), each with what it returns when it fails *)
ConnectCalls_NoRecvTimeout ==
  << [call |-> "socket", err |-> -1], [call |-> "inet_pton", err |-> -2],
     [call |-> "send_timeout", err |-> -4],
     [call |-> "getfl", err |-> -5], [call |-> "setfl", err |-> -6],
     [call |-> "connect", err |-> -11] >>

ConnectCalls ==
  << [call |-> "socket", err |-> -1], [call |-> "inet_pton", err |-> -2],
     [call |-> "recv_timeout", err |-> -3], [call |-> "send_timeout", err |-> -4],
     [call |-> "getfl", err |-> -5], [call |-> "setfl", err |-> -6],
     [call |-> "connect", err |-> -11] >>

At(i) == i \in DOMAIN ConnectCalls /\ ConnectCalls[i].call = tcPc /\ tcPc # "connect"
Keeps == UNCHANGED <<tcProg, tcRound>>

SetupSucceeds ==
  \E i \in DOMAIN ConnectCalls :
    /\ At(i)
    /\ tcPc' = ConnectCalls[i + 1].call
    /\ tcTimeouts' = tcTimeouts \cup ({tcPc} \cap {"recv_timeout", "send_timeout"})
    /\ tcNonblock' = (tcNonblock \/ tcPc = "setfl")
    /\ UNCHANGED <<tcSock, tcStat>> /\ Keeps

SetupReturns ==
  \E i \in DOMAIN ConnectCalls :
    /\ At(i)
    /\ tcStat' = ConnectCalls[i].err /\ tcPc' = "main"
    /\ UNCHANGED <<tcSock, tcNonblock, tcTimeouts>> /\ Keeps

(* connect(): done at once, refused at once, or in progress *)
StartConnect ==
  /\ tcPc = "connect"
  /\ \/ tcSock' = "connected" /\ tcPc' = "restore" /\ tcStat' = 0
     \/ tcSock' = "refused" /\ tcPc' = "restore" /\ tcStat' = -11
     \/ tcSock' = "connecting" /\ tcPc' = "check" /\ tcStat' = 0
  /\ UNCHANGED <<tcNonblock, tcTimeouts>> /\ Keeps

(* The one look: the deadline has passed, the connect is over, or it is not over yet *)
CheckConnect ==
  /\ tcPc = "check"
  /\ \/ tcStat' = -10
     \/ tcStat' = CASE tcSock = "refused" -> -11 [] tcSock = "connected" -> 1 [] OTHER -> 0
  /\ tcPc' = "restore"
  /\ UNCHANGED <<tcSock, tcNonblock, tcTimeouts>> /\ Keeps

RestoreFlags ==
  /\ tcPc = "restore"
  /\ \/ tcNonblock' = FALSE /\ UNCHANGED tcStat
     \/ tcStat' = -20 /\ UNCHANGED tcNonblock
  /\ tcPc' = "main"
  /\ UNCHANGED <<tcSock, tcTimeouts>> /\ Keeps

connect_with_timeout == SetupSucceeds \/ SetupReturns \/ StartConnect \/ CheckConnect \/ RestoreFlags

TcMain ==
  /\ tcPc = "main"
  /\ tcPc' = IF tcStat < 0 THEN "exit" ELSE "prompt"
  /\ UNCHANGED <<tcSock, tcNonblock, tcTimeouts, tcStat>> /\ Keeps

-----------------------------------------------------------------------------
Types ==
  /\ tcPc = "prompt" /\ tcRound < TcRounds
  /\ tcRound' = tcRound + 1 /\ tcPc' = "write"
  /\ UNCHANGED <<tcProg, tcSock, tcNonblock, tcTimeouts, tcStat>>

(* write() waits while the connect is in progress, up to SO_SNDTIMEO; its result is not looked at *)
Writes ==
  /\ tcPc = "write"
  /\ tcSock # "connecting" \/ tcNonblock \/ "send_timeout" \in tcTimeouts
  /\ tcPc' = "read"
  /\ UNCHANGED <<tcSock, tcNonblock, tcTimeouts, tcStat>> /\ Keeps

(* read() returns an answer, an error, or nothing after SO_RCVTIMEO; an answer may be "exit" *)
ReadReturns ==
  /\ tcPc = "read" /\ tcSock \in {"connected", "refused"}
  /\ tcPc' \in (IF tcSock = "connected" THEN {"prompt", "exit"} ELSE {"prompt"})
  /\ UNCHANGED <<tcSock, tcNonblock, tcTimeouts, tcStat>> /\ Keeps

ReadGivesUp ==
  /\ tcPc = "read" /\ (tcNonblock \/ "recv_timeout" \in tcTimeouts)
  /\ tcPc' = "prompt"
  /\ UNCHANGED <<tcSock, tcNonblock, tcTimeouts, tcStat>> /\ Keeps

TcComm == Types \/ Writes \/ ReadReturns \/ ReadGivesUp

(* Each program has its own copy of the functions *)
select_connect_with_timeout == tcProg = "select" /\ connect_with_timeout
select_comm_loop == tcProg = "select" /\ TcComm
select_main == tcProg = "select" /\ TcMain
poll_connect_with_timeout == tcProg = "poll" /\ connect_with_timeout
poll_comm_loop == tcProg = "poll" /\ TcComm
poll_main == tcProg = "poll" /\ TcMain
epoll_connect_with_timeout == tcProg = "epoll" /\ connect_with_timeout
epoll_comm_loop == tcProg = "epoll" /\ TcComm
epoll_main == tcProg = "epoll" /\ TcMain
thread_connect_with_timeout == tcProg = "thread" /\ connect_with_timeout
thread_comm_loop == tcProg = "thread" /\ TcComm
thread_main == tcProg = "thread" /\ TcMain

TcClient ==
  \/ select_connect_with_timeout \/ select_comm_loop \/ select_main
  \/ poll_connect_with_timeout \/ poll_comm_loop \/ poll_main
  \/ epoll_connect_with_timeout \/ epoll_comm_loop \/ epoll_main
  \/ thread_connect_with_timeout \/ thread_comm_loop \/ thread_main

(* The network: an answer to the connect, at any time or never *)
ConnectEnds ==
  /\ tcSock = "connecting" /\ tcSock' \in {"connected", "refused"}
  /\ UNCHANGED <<tcProg, tcPc, tcNonblock, tcTimeouts, tcStat, tcRound>>

(* Fairness: the calls that can return do; a silent server may stay silent *)
TcMayReturn == connect_with_timeout \/ TcMain \/ Types \/ Writes \/ ReadGivesUp

TcNext == TcClient \/ ConnectEnds

TcFairness == WF_tcVars(TcMayReturn)
TcSpec == TcInit /\ [][TcNext]_tcVars /\ TcFairness

-----------------------------------------------------------------------------
(***************************************************************************)
(* A line the user has typed is followed by the next prompt, or the client *)
(* leaves because the answer said "exit", although the connect was still   *)
(* in progress when connect_with_timeout() returned and whether or not the *)
(* server ever answers.                                                    *)
(***************************************************************************)
TcRoundEnds == (tcPc = "write") ~> (tcPc \in {"prompt", "exit"})
==============================================================================
