---------------------------- MODULE BidCollection ----------------------------
(***************************************************************************)
(* What the GetBids fan-out of the SelectAd reactor promises, with no      *)
(* threads, lock or counter: every position of buyer_list is settled       *)
(* exactly once; while some position is unsettled, a position's buyer may  *)
(* be gathered as having answered with bids; the settlement of the last    *)
(* position closes the collection, and the collected buyers are then      *)
(* exactly the gathered ones.  Nothing is gathered after the close.        *)
(***************************************************************************)
EXTENDS Naturals, Sequences

VARIABLES
  list,       \* the buyer_list, fixed
  pending,    \* positions not yet settled
  gathered,   \* buyers that answered with bids
  closed,     \* the collection is closed
  collected   \* the buyers handed to scoring at the close

bvars == <<list, pending, gathered, closed, collected>>

Init ==
  /\ pending = DOMAIN list
  /\ gathered = {}
  /\ closed = FALSE
  /\ collected = {}

\* The buyer at an unsettled position answers with bids.
Gather(i) ==
  /\ ~closed
  /\ i \in pending
  /\ gathered' = gathered \cup {list[i]}
  /\ UNCHANGED <<list, pending, closed, collected>>

\* Position i is settled; the last settlement closes the collection.
Settle(i) ==
  /\ i \in pending
  /\ pending' = pending \ {i}
  /\ IF pending' = {}
     THEN closed' = TRUE /\ collected' = gathered
     ELSE UNCHANGED <<closed, collected>>
  /\ UNCHANGED <<list, gathered>>

Next == \E i \in DOMAIN list : Gather(i) \/ Settle(i)

SafeSpec == Init /\ [][Next]_bvars

=============================================================================
