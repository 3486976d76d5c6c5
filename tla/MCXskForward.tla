----------------------------- MODULE MCXskForward -----------------------------
(***************************************************************************)
(* Which buffer is where does not matter to what the program does next, as *)
(* long as no buffer is in two places: the view of a state is how many     *)
(* buffers each place holds, and whether the invariants that justify       *)
(* counting them still hold.                                               *)
(***************************************************************************)
EXTENDS XskForward

MCPorts == 0 .. (NPorts - 1)

CountView ==
  <<main, at, Len(staged), opened, pc, ready, port, [t \in Threads |-> pkt[t] = NoBuffer],
    cursor, peeked, quit, live, n_slabs_available, n_slabs_reserved_available,
    n_buffers_cons, n_buffers_prod,
    [p \in Caches |-> <<Len(umem_fq[p]), Len(rxq[p]), Len(txq[p]), Len(umem_cq[p])>>],
    SlabsNotShared, BuffersNotShared, RingsHoldWhatIsOut>>
==============================================================================
