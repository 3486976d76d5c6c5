------------------------------- MODULE RcuBooks -------------------------------
(***************************************************************************)
(* ksync-rcu: a list of books kept with RCU.  The module's init function   *)
(* runs test_example() twice, first reclaiming old versions of a book      *)
(* itself after synchronize_rcu(), then leaving them to call_rcu(), whose  *)
(* callback runs at any later time, concurrently with the calls that       *)
(* follow.  A node of the list is one version of a book.                   *)
(***************************************************************************)
EXTENDS Naturals, Sequences, Functions

CONSTANT RcNodes        \* bound: nodes that kzalloc() can hand out, 1 .. RcNodes

ASSUME RcAssumption == RcNodes \in Nat

VARIABLES
  rcScript,     \* the calls of test_example() that are still to be made
  rcList,       \* books: the list, a sequence of nodes
  rcNode,       \* the contents of each node: [id, borrow]
  rcUsed,       \* how many nodes were allocated
  rcFreed,      \* the nodes given to kfree()
  rcPending,    \* the nodes waiting for book_reclaim_callback()
  rcCall        \* the call in progress: [at, node]; node is 0 when there is none

rcVars == <<rcScript, rcList, rcNode, rcUsed, rcFreed, rcPending, rcCall>>

(* test_example(async): every function for the books 0 and 1 *)
TestCalls == <<"add", "print", "is_borrowed", "borrow", "print", "return", "print", "delete", "print">>
test_example(async) ==
  [i \in 1 .. 18 |-> [op |-> TestCalls[(i + 1) \div 2], id |-> (i + 1) % 2, async |-> async]]

list_rcu_init == test_example(FALSE) \o test_example(TRUE)

RcInit ==
  /\ rcScript = list_rcu_init
  /\ rcList = <<>> /\ rcNode = [n \in 1 .. RcNodes |-> [id |-> 0, borrow |-> 0]]
  /\ rcUsed = 0 /\ rcFreed = {} /\ rcPending = {}
  /\ rcCall = [at |-> "none", node |-> 0]

Op == Head(rcScript)
Calls(op) == rcScript # <<>> /\ Op.op = op
Found == {n \in Range(rcList) : rcNode[n].id = Op.id}
RcReturns == rcScript' = Tail(rcScript) /\ rcCall' = [at |-> "none", node |-> 0]

(* kzalloc(): a new node, unless it fails *)
Alloc(contents) ==
  /\ rcUsed < RcNodes
  /\ rcUsed' = rcUsed + 1
  /\ rcNode' = [rcNode EXCEPT ![rcUsed + 1] = contents]

add_book ==
  /\ Calls("add")
  /\ \/ /\ Alloc([id |-> Op.id, borrow |-> 0])
        /\ rcList' = <<rcUsed + 1>> \o rcList
     \/ UNCHANGED <<rcUsed, rcNode, rcList>>
  /\ RcReturns
  /\ UNCHANGED <<rcFreed, rcPending>>

(* The search of every other function, inside rcu_read_lock() *)
Search ==
  /\ rcScript # <<>> /\ Op.op # "add" /\ rcCall.at = "none"
  /\ IF Found = {}
       THEN RcReturns
       ELSE /\ rcCall' = [at |-> "found", node |-> CHOOSE n \in Found : TRUE]
            /\ UNCHANGED rcScript
  /\ UNCHANGED <<rcList, rcNode, rcUsed, rcFreed, rcPending>>

Reclaim_NotQueued(n, async) ==
  IF async THEN UNCHANGED <<rcFreed, rcPending>>
           ELSE rcFreed' = rcFreed \cup {n} /\ UNCHANGED rcPending

Reclaim(n, async) ==
  IF async THEN rcPending' = rcPending \cup {n} /\ UNCHANGED rcFreed
           ELSE rcFreed' = rcFreed \cup {n} /\ UNCHANGED rcPending

(* list_replace_rcu(): the new version takes the place of the old one *)
Replaced(old, new) == [i \in 1 .. Len(rcList) |-> IF rcList[i] = old THEN new ELSE rcList[i]]

(* borrow_book() and return_book(): copy, update, replace, then reclaim *)
Update(op, from, to) ==
  /\ Calls(op) /\ rcCall.at = "found"
  /\ IF rcNode[rcCall.node].borrow # from
       THEN RcReturns /\ UNCHANGED <<rcList, rcNode, rcUsed, rcFreed, rcPending>>
       ELSE \/ /\ Alloc([rcNode[rcCall.node] EXCEPT !.borrow = to])
               /\ rcCall' = [at |-> "replace", node |-> rcCall.node]
               /\ UNCHANGED <<rcScript, rcList, rcFreed, rcPending>>
            \/ RcReturns /\ UNCHANGED <<rcList, rcNode, rcUsed, rcFreed, rcPending>>

borrow_book == Update("borrow", 0, 1)
return_book == Update("return", 1, 0)

Replace ==
  /\ rcCall.at = "replace"
  /\ rcList' = Replaced(rcCall.node, rcUsed)
  /\ rcCall' = [rcCall EXCEPT !.at = "reclaim"]
  /\ UNCHANGED <<rcScript, rcNode, rcUsed, rcFreed, rcPending>>

ReclaimOld ==
  /\ rcCall.at = "reclaim"
  /\ Reclaim(rcCall.node, Op.async)
  /\ RcReturns
  /\ UNCHANGED <<rcList, rcNode, rcUsed>>

(* list_del_rcu(): one node leaves the list *)
Removed(old) ==
  LET at == CHOOSE i \in 1 .. Len(rcList) : rcList[i] = old
  IN [i \in 1 .. Len(rcList) - 1 |-> rcList[IF i < at THEN i ELSE i + 1]]

delete_book ==
  /\ Calls("delete") /\ rcCall.at = "found"
  /\ rcList' = Removed(rcCall.node)
  /\ rcCall' = [rcCall EXCEPT !.at = "reclaim"]
  /\ UNCHANGED <<rcScript, rcNode, rcUsed, rcFreed, rcPending>>

(* print_book() reads inside the read-side section *)
print_book ==
  /\ Calls("print") /\ rcCall.at = "found"
  /\ RcReturns
  /\ UNCHANGED <<rcList, rcNode, rcUsed, rcFreed, rcPending>>

(* is_borrowed_book() leaves the section and only then reads b->borrow *)
is_borrowed_book ==
  /\ Calls("is_borrowed")
  /\ \/ rcCall.at = "found" /\ rcCall' = [rcCall EXCEPT !.at = "unlocked"] /\ UNCHANGED rcScript
     \/ rcCall.at = "unlocked" /\ RcReturns
  /\ UNCHANGED <<rcList, rcNode, rcUsed, rcFreed, rcPending>>

(* The grace period of a node given to call_rcu() has ended *)
book_reclaim_callback ==
  \E n \in rcPending :
    /\ rcPending' = rcPending \ {n}
    /\ rcFreed' = rcFreed \cup {n}
    /\ UNCHANGED <<rcScript, rcList, rcNode, rcUsed, rcCall>>

RcTask ==
  \/ add_book \/ Search \/ borrow_book \/ return_book \/ Replace \/ ReclaimOld
  \/ delete_book \/ print_book \/ is_borrowed_book

RcNext == RcTask \/ book_reclaim_callback

RcFairness == WF_rcVars(RcTask) /\ WF_rcVars(book_reclaim_callback)
RcSpec == RcInit /\ [][RcNext]_rcVars /\ RcFairness

-----------------------------------------------------------------------------
(***************************************************************************)
(* Whenever the callback runs, no node that is on the list, or that a call  *)
(* has found and still uses, has been freed: also not by is_borrowed_book,  *)
(* which uses it after rcu_read_unlock().  And a book is on the list once.  *)
(***************************************************************************)
RcListedNotFreed ==
  /\ Range(rcList) \cap (rcFreed \cup rcPending) = {}
  /\ rcCall.node \notin rcFreed
  /\ IsInjective([i \in 1 .. Len(rcList) |-> rcNode[rcList[i]].id])

(***************************************************************************)
(* When both runs of test_example() are over every node that was allocated  *)
(* is freed in the end, whichever allocation failed on the way.             *)
(***************************************************************************)
RcAllReclaimed == <>[](rcScript = <<>> /\ rcFreed = 1 .. rcUsed)

(* No node is freed early, and every node that was allocated is freed in the end. *)
RcReclaimedInTime == []RcListedNotFreed /\ RcAllReclaimed
==============================================================================
