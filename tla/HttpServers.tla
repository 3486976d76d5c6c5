------------------------------ MODULE HttpServers ------------------------------
(***************************************************************************)
(* Two HTTP servers.  nat-server forks a child for each connection; parent *)
(* and children share the array clients[], in which a slot holds the       *)
(* connection's descriptor until the child puts -1 there.                  *)
(* sock-io-uring-http is one loop over completions: an accept request      *)
(* leads to a read, a read to a write, and a write to the close of the     *)
(* descriptor, which the next accept may be given again.                   *)
(***************************************************************************)
EXTENDS Integers, FiniteSets

CONSTANTS
  HtPrograms,     \* a subset of {"fork", "uring"}
  HtConns,        \* how many connections come; they are numbered from 1
  MAX_CONNECTIONS \* slots of nat-server

ASSUME HtAssumption == HtConns \in Nat /\ MAX_CONNECTIONS \in Nat \ {0}

VARIABLES
  htProg,
  htCame,         \* connections that have come so far
  htTaken,        \* connections accepted so far
  htUp,           \* the server process runs
  clients,        \* nat-server: slot -> connection or -1
  htParent,       \* nat-server: [pc, slot], pc is "accept", "close" or "next"
  htChild,        \* nat-server: connection -> [pc, slot]
  htFd,           \* io_uring server: descriptor -> connection or 0 when it is free
  htSqe,          \* io_uring server: requests submitted, [kind, fd, for]
  htCqe,          \* io_uring server: completions not yet seen, [req, res, fd]
  htAsked,        \* connections whose request was read whole
  htWrote         \* pairs <<c, k>>: the answer to c's request went to connection k

htVars == <<htProg, htCame, htTaken, htUp, clients, htParent, htChild, htFd, htSqe, htCqe, htAsked, htWrote>>
htForkVars == <<clients, htParent, htChild>>
htRingVars == <<htFd, htSqe, htCqe>>

ConnSlots == 0 .. MAX_CONNECTIONS - 1
Conns == 1 .. HtConns
Req(kind, fd, for) == [kind |-> kind, fd |-> fd, for |-> for]
Accept == Req("accept", 0, 0)

HtInit ==
  /\ htProg \in HtPrograms /\ htCame = 0 /\ htTaken = 0 /\ htUp = TRUE
  /\ clients = [s \in ConnSlots |-> -1] /\ htParent = [pc |-> "accept", slot |-> 0]
  /\ htChild = [c \in Conns |-> [pc |-> "none", slot |-> 0]]
  /\ htFd = [d \in Conns |-> 0] /\ htCqe = {}
  /\ htSqe = IF htProg = "uring" THEN {Accept} ELSE {}
  /\ htAsked = {} /\ htWrote = {}

(* a browser connects *)
Comes ==
  /\ htCame < HtConns /\ htCame' = htCame + 1
  /\ UNCHANGED <<htProg, htTaken, htUp, htForkVars, htRingVars, htAsked, htWrote>>

-----------------------------------------------------------------------------
(* serve_forever(): accept() into the current slot and fork() *)
accept_fork ==
  /\ htParent.pc = "accept" /\ htTaken < htCame /\ htTaken' = htTaken + 1
  /\ clients' = [clients EXCEPT ![htParent.slot] = htTaken']
  /\ htChild' = [htChild EXCEPT ![htTaken'] = [pc |-> "recv", slot |-> htParent.slot]]
  /\ htParent' = [htParent EXCEPT !.pc = "close"]

parent_close ==
  /\ htParent.pc = "close" /\ htParent' = [htParent EXCEPT !.pc = "next"]
  /\ UNCHANGED <<clients, htChild, htTaken>>

next_slot_Blind ==
  /\ htParent.pc = "next"
  /\ htParent' = [pc |-> "accept", slot |-> (htParent.slot + 1) % MAX_CONNECTIONS]
  /\ UNCHANGED <<clients, htChild, htTaken>>

(* one test of while (clients[slot] != -1) *)
next_slot ==
  /\ htParent.pc = "next"
  /\ htParent' = IF clients[htParent.slot] = -1 THEN [htParent EXCEPT !.pc = "accept"]
                 ELSE [htParent EXCEPT !.slot = (@ + 1) % MAX_CONNECTIONS]
  /\ UNCHANGED <<clients, htChild, htTaken>>

serve_forever ==
  /\ htProg = "fork" /\ (accept_fork \/ parent_close \/ next_slot)
  /\ UNCHANGED <<htProg, htCame, htUp, htRingVars, htAsked, htWrote>>

(* respond(): recv() gives a request, an error or the end, or a request whose
   first line has no second word, on which the child dies with its slot taken *)
respond_recv(c) ==
  /\ htChild[c].pc = "recv"
  /\ \/ htChild' = [htChild EXCEPT ![c].pc = "route"] /\ htAsked' = htAsked \cup {c}
     \/ htChild' = [htChild EXCEPT ![c].pc = "reset"] /\ UNCHANGED htAsked
     \/ htChild' = [htChild EXCEPT ![c].pc = "crashed"] /\ UNCHANGED htAsked
  /\ UNCHANGED <<clients, htWrote>>

(* respond(): what clients[slot] holds now becomes stdout and route() prints to it *)
respond_route(c) ==
  /\ htChild[c].pc = "route" /\ htChild' = [htChild EXCEPT ![c].pc = "reset"]
  /\ htWrote' = htWrote \cup {<<c, clients[htChild[c].slot]>>}
  /\ UNCHANGED <<clients, htAsked>>

child_reset_Forgets(c) ==
  /\ htChild[c].pc = "reset" /\ htChild' = [htChild EXCEPT ![c].pc = "gone"]
  /\ UNCHANGED <<clients, htAsked, htWrote>>

child_reset(c) ==
  /\ htChild[c].pc = "reset" /\ htChild' = [htChild EXCEPT ![c].pc = "gone"]
  /\ clients' = [clients EXCEPT ![htChild[c].slot] = -1]
  /\ UNCHANGED <<htAsked, htWrote>>

Child(c) ==
  /\ htProg = "fork" /\ (respond_recv(c) \/ respond_route(c) \/ child_reset(c))
  /\ UNCHANGED <<htProg, htCame, htTaken, htUp, htParent, htRingVars>>

-----------------------------------------------------------------------------
(* The kernel completes an accept with the lowest free descriptor ... *)
AcceptCompletes ==
  /\ Accept \in htSqe /\ htTaken < htCame /\ htTaken' = htTaken + 1
  /\ \E d \in Conns :
       /\ htFd[d] = 0 /\ \A k \in Conns : htFd[k] = 0 => d <= k
       /\ htFd' = [htFd EXCEPT ![d] = htTaken']
       /\ htCqe' = htCqe \cup {[req |-> Accept, res |-> "done", fd |-> d]}
  /\ htSqe' = htSqe \ {Accept} /\ UNCHANGED htWrote

(* ... a read with a GET request, with another method, with a line that does
   not end in 1024 bytes, with 0 at the end of the stream or with an error ... *)
ReadCompletes ==
  /\ \E r \in htSqe : \E res \in {"get", "other", "malformed", "empty", "error"} :
       /\ r.kind = "read" /\ htSqe' = htSqe \ {r} /\ htCqe' = htCqe \cup {[req |-> r, res |-> res, fd |-> 0]}
  /\ UNCHANGED <<htFd, htTaken, htWrote>>

(* ... and a write of the answer with a length or an error. *)
WriteCompletes ==
  /\ \E r \in htSqe :
       /\ r.kind = "write" /\ htSqe' = htSqe \ {r}
       /\ \/ htCqe' = htCqe \cup {[req |-> r, res |-> "done", fd |-> 0]} /\ htWrote' = htWrote \cup {<<r.for, htFd[r.fd]>>}
          \/ htCqe' = htCqe \cup {[req |-> r, res |-> "error", fd |-> 0]} /\ UNCHANGED htWrote
  /\ UNCHANGED <<htFd, htTaken>>

Kernel ==
  /\ htProg = "uring" /\ htUp /\ (AcceptCompletes \/ ReadCompletes \/ WriteCompletes)
  /\ UNCHANGED <<htProg, htCame, htUp, htForkVars, htAsked>>

(* server_loop(): EVENT_TYPE_ACCEPT submits the next accept and a read *)
accept_event(e) ==
  /\ e.req.kind = "accept" /\ htSqe' = htSqe \cup {Accept, Req("read", e.fd, 0)}
  /\ UNCHANGED <<htFd, htUp, htAsked>>

(* EVENT_TYPE_READ: an empty request is left alone, a method other than GET gets
   no answer, a malformed request ends the server *)
read_event(e) ==
  /\ e.req.kind = "read"
  /\ htUp' = (e.res # "malformed")
  /\ IF e.res = "get"
     THEN /\ htSqe' = htSqe \cup {Req("write", e.req.fd, htFd[e.req.fd])}
          /\ htAsked' = htAsked \cup {htFd[e.req.fd]}
     ELSE UNCHANGED <<htSqe, htAsked>>
  /\ UNCHANGED htFd

(* EVENT_TYPE_WRITE: the connection is closed *)
write_event(e) ==
  /\ e.req.kind = "write" /\ htFd' = [htFd EXCEPT ![e.req.fd] = 0]
  /\ UNCHANGED <<htSqe, htUp, htAsked>>

(* a completion with a negative result ends the server *)
failed_event == htUp' = FALSE /\ UNCHANGED <<htFd, htSqe, htAsked>>

server_loop ==
  /\ htProg = "uring" /\ htUp
  /\ \E e \in htCqe :
       /\ htCqe' = htCqe \ {e}
       /\ IF e.res = "error" THEN failed_event ELSE accept_event(e) \/ read_event(e) \/ write_event(e)
  /\ UNCHANGED <<htProg, htCame, htTaken, htForkVars, htWrote>>

sigint_handler ==
  /\ htProg = "uring" /\ htUp /\ htUp' = FALSE
  /\ UNCHANGED <<htProg, htCame, htTaken, htForkVars, htRingVars, htAsked, htWrote>>

HtChildren == \E c \in Conns : Child(c)
HtNext == Comes \/ serve_forever \/ HtChildren \/ Kernel \/ server_loop \/ sigint_handler
HtFairness == /\ WF_htVars(serve_forever) /\ \A c \in Conns : WF_htVars(Child(c))
              /\ WF_htVars(Kernel) /\ WF_htVars(server_loop)
HtSpec == HtInit /\ [][HtNext]_htVars /\ HtFairness

-----------------------------------------------------------------------------
(* What a server writes in answer to a request goes to the connection that sent
   it: a nat-server slot is not given away under its child, and an io_uring
   descriptor is not reused while a write to it is outstanding. *)
HtAnswersOwn == \A w \in htWrote : w[1] = w[2]

(* nat-server's parent leaves the loop that looks for a free slot and accepts
   again, unless every slot was lost to a child that died in respond(). *)
HtAcceptsAgain ==
  (htProg = "fork" /\ htParent.pc = "next")
     ~> (htParent.pc = "accept" \/ \A s \in ConnSlots : clients[s] # -1 /\ htChild[clients[s]].pc = "crashed")

(* A connection whose GET was read is answered, in either server, unless the
   io_uring server ended: on SIGINT, or on a failed or malformed request. *)
HtAnswered == \A c \in Conns : (c \in htAsked) ~> (<<c, c>> \in htWrote \/ ~htUp)

(* While the io_uring server runs, exactly one accept is submitted or completed
   and unseen: its one client_addr is never shared by two accepts, and no
   connection waits for an accept nobody submits. *)
HtOneAccept ==
  htProg = "uring" /\ htUp =>
    Cardinality({r \in htSqe : r.kind = "accept"}) + Cardinality({e \in htCqe : e.req.kind = "accept"}) = 1

(* Slots and descriptors are used again and again: an answer still goes to the
   connection that asked, and the io_uring server always has one accept under way. *)
HtInv == HtAnswersOwn /\ HtOneAccept

(* nat-server's parent comes back to accept(), and requests are answered. *)
HtProgress == HtAcceptsAgain /\ HtAnswered
==============================================================================
