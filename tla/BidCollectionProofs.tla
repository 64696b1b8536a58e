------------------------- MODULE BidCollectionProofs -------------------------
(***************************************************************************)
(* The GetBids fan-out implements BidCollection under the mapping of       *)
(* SelectAdReactor (pending <- Outstanding, gathered <- bidReturned,       *)
(* closed <- crossed, collected <- bidsList).                              *)
(*                                                                         *)
(* The invariant is IInv /\ BidsSync.  Dispatching a GetBids call and the  *)
(* callback's insertion move a position between the three parts of         *)
(* Outstanding without removing it; the insertion is a Gather.  Each       *)
(* UpdatePendingBidsState removes exactly the position it settles, and,    *)
(* because pending_bids_count_ = Cardinality(Outstanding), it takes the    *)
(* count to zero exactly when that position was the last: the crossing is  *)
(* the close, and BidsSync makes buyer_bids_list_ the gathered buyers.     *)
(***************************************************************************)
EXTENDS ResponseProofs

\* Removing a position from Outstanding takes pending_bids_count_ - 1 to
\* zero exactly when no position is left.
LEMMA LastPosition ==
  ASSUME IInv, NEW i \in Outstanding, Outstanding' = Outstanding \ {i}
  PROVE  (Outstanding' = {}) <=> (pendingBids - 1 = 0)
<1>1. IsFiniteSet(Outstanding) /\ pendingBids = Cardinality(Outstanding)
  BY OutstandingCard DEF IInv, StageInv, PendingAccounted
<1>2. IsFiniteSet(Outstanding \ {i})
  BY <1>1, FS_Subset
<1>3. Cardinality(Outstanding \ {i}) = Cardinality(Outstanding) - 1
  BY <1>1, FS_RemoveElement
<1>4. Cardinality(Outstanding \ {i}) = 0 <=> Outstanding \ {i} = {}
  BY <1>2, FS_EmptySet
<1>. QED  BY <1>1, <1>3, <1>4

\* A decrement that removes exactly position i from Outstanding settles i,
\* and the crossing it may make is the close.
LEMMA UpdateSettles ==
  ASSUME IInv, BidsSync, NEW t, NEW i \in Outstanding,
         UpdatePendingBidsState(t), Outstanding' = Outstanding \ {i},
         UNCHANGED <<req, bidReturned, buyerBids>>
  PROVE  Collection!Settle(i)
<1>1. (Outstanding' = {}) <=> (pendingBids - 1 = 0)  BY LastPosition
<1>2. CASE pendingBids - 1 = 0
  <2>1. crossed' = TRUE /\ bidsList' = buyerBids
    BY <1>2 DEF UpdatePendingBidsState, CrossBarrier
  <2>. QED  BY <1>1, <1>2, <2>1 DEF BidsSync, Collection!Settle
<1>3. CASE pendingBids - 1 # 0
  <2>1. UNCHANGED <<crossed, bidsList>>
    BY <1>3 DEF UpdatePendingBidsState
  <2>. QED  BY <1>1, <1>3, <2>1 DEF Collection!Settle
<1>. QED  BY <1>2, <1>3

\* The mapped list is the request's buyer_list, whose domain is Idx.
LEMMA ListDomain ==
  ASSUME TypeOK
  PROVE  DOMAIN req.buyerList = Idx
BY BuyerListType DEF TypeOK, Idx, BuyerList

\* Every reactor step settles a position, gathers a buyer, or leaves the
\* mapped state unchanged.
LEMMA StepCollects ==
  ASSUME IInv, BidsSync, [Next]_vars
  PROVE  [Collection!Next]_Collection!bvars
<1>0. TypeOK /\ DOMAIN req.buyerList = Idx  BY ListDomain DEF IInv
<1>1. CASE ExecuteLoopStep
  <2>. DEFINE i == loopIdx
  <2>1. i \in Idx /\ i \in Outstanding /\ i \notin calls \cup delivered
    BY <1>1 DEF ExecuteLoopStep, IInv, StageInv, TypeOK, Outstanding, Idx
  <2>2. UNCHANGED <<req, bidReturned, buyerBids, delivered>> /\ loopIdx' = i + 1
    BY <1>1 DEF ExecuteLoopStep
  <2>3. CASE calls' = calls \cup {i}
             /\ UNCHANGED <<crossed, bidsList>>
    <3>1. Outstanding' = Outstanding
      BY <2>1, <2>2, <2>3 DEF Outstanding, Idx, BuyerList
    <3>. QED  BY <2>2, <2>3, <3>1 DEF Collection!bvars
  <2>4. CASE UpdatePendingBidsState("main") /\ UNCHANGED calls
    <3>1. Outstanding' = Outstanding \ {i}
      BY <2>1, <2>2, <2>4 DEF Outstanding, Idx, BuyerList
    <3>2. Collection!Settle(i)  BY <2>1, <2>2, <2>4, <3>1, UpdateSettles
    <3>. QED  BY <1>0, <2>1, <3>2 DEF Collection!Next
  <2>. QED  BY <1>1, <2>3, <2>4 DEF ExecuteLoopStep
<1>2. ASSUME NEW i \in Idx, OnFetchBidsDone(i)
      PROVE  [Collection!Next]_Collection!bvars
  <2>1. i \in calls /\ ~crossed  BY <1>2, CallBeforeCrossing DEF OnFetchBidsDone
  <2>2. Outstanding' = Outstanding /\ i \in Outstanding
    BY <1>2, <2>1 DEF OnFetchBidsDone, Outstanding, Idx, BuyerList
  <2>3. UNCHANGED <<req, crossed, bidsList>>  BY <1>2 DEF OnFetchBidsDone
  <2>4. bidReturned' = bidReturned \/ bidReturned' = bidReturned \cup {BuyerList[i]}
    BY <1>2 DEF OnFetchBidsDone, RecordBids
  <2>5. CASE bidReturned' = bidReturned
    BY <2>2, <2>3, <2>5 DEF Collection!bvars
  <2>6. CASE bidReturned' = bidReturned \cup {BuyerList[i]}
    <3>1. Collection!Gather(i)  BY <2>1, <2>2, <2>3, <2>6 DEF Collection!Gather, BuyerList
    <3>. QED  BY <1>0, <3>1 DEF Collection!Next
  <2>. QED  BY <2>4, <2>5, <2>6
<1>3. ASSUME NEW i \in Idx, OnFetchBidsDoneUpdate(i)
      PROVE  [Collection!Next]_Collection!bvars
  <2>1. i \in delivered /\ i \notin calls /\ i < loopIdx
    BY <1>3 DEF OnFetchBidsDoneUpdate, IInv, StageInv, TypeOK
  <2>2. UNCHANGED <<req, bidReturned, buyerBids, calls, loopIdx>>
        /\ delivered' = delivered \ {i}
    BY <1>3 DEF OnFetchBidsDoneUpdate
  <2>3. i \in Outstanding /\ Outstanding' = Outstanding \ {i}
    <3>1. i \in Outstanding  BY <2>1 DEF Outstanding
    <3>2. loopIdx \in Nat /\ Idx' = Idx  BY <1>0, <2>2 DEF TypeOK, Idx, BuyerList
    <3>3. {j \in Idx : j >= loopIdx} = {j \in Idx : j >= loopIdx} \ {i}
      BY <2>1, <3>2 DEF Idx
    <3>4. calls = calls \ {i}  BY <2>1
    <3>. QED  BY <2>2, <3>1, <3>2, <3>3, <3>4 DEF Outstanding
  <2>4. Collection!Settle(i)
    BY <1>3, <2>2, <2>3, UpdateSettles DEF OnFetchBidsDoneUpdate
  <2>. QED  BY <1>0, <2>4 DEF Collection!Next
<1>4. CASE ~ExecuteLoopStep /\ ~\E i \in Idx : OnFetchBidsDone(i) \/ OnFetchBidsDoneUpdate(i)
  <2>1. UNCHANGED <<req, loopIdx, calls, delivered, bidReturned, crossed, bidsList>>
    BY <1>4 DEF Next, vars, Execute, ReleaseBidLock, OnFetchScoringSignalsDone,
                OnScoreAdsResponse, DebugReportDone, OnDone
  <2>. QED  BY <2>1 DEF Collection!bvars, Outstanding, Idx, BuyerList
<1>. QED  BY <1>1, <1>2, <1>3, <1>4

\* For every buyer list and every interleaving of the Execute loop with the
\* GetBids callbacks, the fan-out implements BidCollection: each entry
\* decrements pending_bids_count_ once, only the last decrement crosses the
\* barrier, the crossing hands scoring exactly the buyers that answered
\* with bids, and no bid is recorded after it.
THEOREM ImplementsBidCollection == Spec => BidsCollected
<1>1. Init => Collection!Init
  <2>. SUFFICES ASSUME Init PROVE Collection!Init  OBVIOUS
  <2>1. TypeOK  BY InitIInv DEF IInv
  <2>2. Outstanding = DOMAIN req.buyerList
    BY <2>1, ListDomain DEF Init, Outstanding, Idx
  <2>. QED  BY <2>2 DEF Init, Collection!Init
<1>2. Init => IInv /\ BidsSync  BY InitIInv DEF Init, BidsSync
<1>3. IInv /\ BidsSync /\ [Next]_vars => (IInv /\ BidsSync)'
  BY IInvInductive, BidsSyncPreserved
<1>4. IInv /\ BidsSync /\ [Next]_vars => [Collection!Next]_Collection!bvars
  BY StepCollects
<1>. QED  BY <1>1, <1>2, <1>3, <1>4, PTL DEF Spec, BidsCollected, Collection!SafeSpec


-----------------------------------------------------------------------------
(* The barrier never stalls.  NoStall is not inductive on its own: after   *)
(* the loop Execute sits at "exit" with no call in flight, and only the    *)
(* count tells a crossed barrier from one that lost a decrement.  StallInv *)
(* adds that the loop exits only past the last position, and that the     *)
(* count reaches zero after the loop has started only by the decrement     *)
(* that crosses.  With PendingAccounted, a zero count then means nothing   *)
(* is outstanding, and a positive one that some call or callback is.       *)
(***************************************************************************)
StallInv ==
  /\ mainPc = "exit" /\ loopIdx > 1 => loopIdx = Len(BuyerList) + 1
  /\ loopIdx > 1 /\ pendingBids = 0 => crossed

\* UpdatePendingBidsState crosses the barrier whenever it takes the count
\* to zero.
LEMMA UpdateCrossesAtZero ==
  ASSUME NEW t, UpdatePendingBidsState(t)
  PROVE  pendingBids' = 0 => crossed'
BY DEF UpdatePendingBidsState, CrossBarrier

LEMMA StallInvPreserved ==
  ASSUME IInv, StallInv, [Next]_vars
  PROVE  StallInv'
<1>0. TypeOK /\ StageInv  BY DEF IInv
<1>1. CASE Execute
  <2>1. loopIdx' = 1  BY <1>0, <1>1 DEF Execute, StageInv
  <2>. QED  BY <2>1 DEF StallInv
<1>2. CASE ExecuteLoopStep
  <2>1. /\ loopIdx' = loopIdx + 1
        /\ mainPc' = "exit" => loopIdx = Len(BuyerList)
        /\ BuyerList' = BuyerList
    BY <1>2 DEF ExecuteLoopStep, BuyerList
  <2>2. loopIdx \in Outstanding
    BY <1>0, <1>2 DEF ExecuteLoopStep, StageInv, TypeOK, Outstanding, Idx
  <2>3. pendingBids >= 1  BY <1>2, <2>2, OutstandingBeforeCrossing DEF ExecuteLoopStep
  <2>4. pendingBids' = 0 => crossed'
    <3>1. CASE UNCHANGED pendingBids  BY <2>3, <3>1, <1>0 DEF TypeOK
    <3>2. CASE UpdatePendingBidsState("main")  BY <3>2, UpdateCrossesAtZero
    <3>. QED  BY <1>2, <3>1, <3>2 DEF ExecuteLoopStep
  <2>. QED  BY <2>1, <2>4 DEF StallInv
<1>3. ASSUME NEW i \in Idx, OnFetchBidsDone(i) PROVE StallInv'
  BY <1>3 DEF OnFetchBidsDone, StallInv, BuyerList
<1>4. ASSUME NEW i \in Idx, OnFetchBidsDoneUpdate(i) PROVE StallInv'
  <2>1. UNCHANGED <<req, mainPc, loopIdx>>  BY <1>4 DEF OnFetchBidsDoneUpdate
  <2>2. pendingBids' = 0 => crossed'  BY <1>4, UpdateCrossesAtZero DEF OnFetchBidsDoneUpdate
  <2>. QED  BY <2>1, <2>2 DEF StallInv, BuyerList
<1>5. CASE UNCHANGED <<req, mainPc, loopIdx, pendingBids, crossed>>
  BY <1>5 DEF StallInv, BuyerList
<1>. QED
  BY <1>1, <1>2, <1>3, <1>4, <1>5
  DEF Next, vars, ReleaseBidLock, OnFetchScoringSignalsDone, OnScoreAdsResponse,
      DebugReportDone, OnDone

\* A finished loop with an uncrossed barrier has a positive count, which
\* PendingAccounted pins on some GetBids call or callback still due.
LEMMA NoStallFromInv ==
  ASSUME IInv, StallInv
  PROVE  NoStall
<1>. SUFFICES ASSUME finishCalls = 0, mainPc = "exit", calls = {}, delivered = {},
                     ~signalsPending, ~scoringPending
              PROVE  FALSE
  BY DEF NoStall
<1>0. TypeOK /\ StageInv  BY DEF IInv
<1>1. loopIdx > 1  BY <1>0 DEF StageInv, TypeOK
<1>2. ~crossed  BY <1>0, <1>1 DEF StageInv, FinishTokens, B2N
<1>3. pendingBids # 0  BY <1>1, <1>2 DEF StallInv
<1>4. Outstanding = {}
  <2>1. loopIdx = Len(BuyerList) + 1  BY <1>1 DEF StallInv
  <2>. QED  BY <2>1 DEF Outstanding, Idx
<1>5. Cardinality(Outstanding) = 0  BY <1>4, FS_EmptySet
<1>. QED  BY <1>0, <1>3, <1>5 DEF StageInv, PendingAccounted

\* For every buyer list and every order of the callbacks, a request that
\* has not been finished always has a thread with work for it: the count
\* of UpdatePendingBidsState cannot strand the RPC without a response.
THEOREM NeverStalls == Spec => []NoStall
<1>1. Init => IInv /\ StallInv  BY InitIInv DEF Init, StallInv
<1>2. IInv /\ StallInv /\ [Next]_vars => (IInv /\ StallInv)'
  BY IInvInductive, StallInvPreserved
<1>3. IInv /\ StallInv => NoStall  BY NoStallFromInv
<1>. QED  BY <1>1, <1>2, <1>3, PTL DEF Spec

=============================================================================
