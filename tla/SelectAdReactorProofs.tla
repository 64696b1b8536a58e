------------------------ MODULE SelectAdReactorProofs ------------------------
(***************************************************************************)
(* Proofs about the SelectAd reactor for every set of buyers, every set of *)
(* buyer lists and every configuration: type correctness, the exact        *)
(* accounting of pending_bids_count_, and that Finish is called at most    *)
(* once.                                                                   *)
(*                                                                         *)
(* Neither TypeOK nor FinishAtMostOnce is inductive.  The decrement of     *)
(* UpdatePendingBidsState keeps pending_bids_count_ non-negative only      *)
(* because the count equals the outstanding entries (PendingAccounted),    *)
(* which in turn needs calls and delivered to be disjoint positions behind *)
(* the Execute loop.  Finish happens at most once because the request is   *)
(* always in exactly one stage, and each stage holds at most one "finish   *)
(* token": before the fan-out, Execute's own early exit; after the zero    *)
(* crossing, the chaff Finish, the scoring-signals callback or the         *)
(* ScoreAds callback.  A second crossing is impossible since a decrement   *)
(* needs an outstanding entry, hence a positive count.                     *)
(***************************************************************************)
EXTENDS SelectAdReactor, FiniteSetTheorems, TLAPS

B2N(b) == IF b THEN 1 ELSE 0

\* Finish calls made plus the stages still able to make one.
FinishTokens == finishCalls + B2N(signalsPending) + B2N(scoringPending)

StageInv ==
  /\ mainPc = "start" => loopIdx = 1
  /\ mainPc = "loop" => loopIdx <= Len(BuyerList)
  /\ calls \subseteq 1 .. loopIdx - 1
  /\ delivered \subseteq 1 .. loopIdx - 1
  /\ calls \cap delivered = {}
  /\ PendingAccounted
  /\ loopIdx = 1 =>
       /\ ~crossed /\ ~signalsPending /\ ~scoringPending
       /\ finishCalls = IF mainPc = "exit" THEN 1 ELSE 0
  /\ loopIdx > 1 =>
       IF crossed THEN FinishTokens = 1 /\ pendingBids = 0
                  ELSE FinishTokens = 0

IInv == TypeOK /\ StageInv

RespType == [status : Statuses, chaff : BOOLEAN, clientError : BOOLEAN,
             body : BOOLEAN]

\* FinishTokens in the next state, term by term.
LEMMA FinishTokensPrime ==
  FinishTokens' = finishCalls' + B2N(signalsPending') + B2N(scoringPending')
BY DEF FinishTokens, B2N

-----------------------------------------------------------------------------
(* Facts about the request, which no action changes.                       *)

\* The positions 1 .. n of a list of length n are n many.
LEMMA IntervalCard ==
  ASSUME NEW n \in Nat
  PROVE  IsFiniteSet(1 .. n) /\ Cardinality(1 .. n) = n
<1>1. IsFiniteSet(1 .. n) /\ Cardinality(1 .. n) = IF 1 > n THEN 0 ELSE n - 1 + 1
  BY FS_Interval
<1>. QED  BY <1>1

LEMMA BuyerListType ==
  ASSUME req \in Requests
  PROVE  /\ BuyerList \in Seq(Buyers)
         /\ Len(BuyerList) \in Nat
         /\ \A i \in Idx : BuyerList[i] \in Buyers
BY BuyerListsAssumption DEF Requests, BuyerList, Idx

\* Outstanding is a finite set of buyer_list positions, so its size, which
\* pending_bids_count_ tracks, lies between 0 and the list's length.
LEMMA OutstandingCard ==
  ASSUME TypeOK
  PROVE  /\ Outstanding \subseteq Idx
         /\ IsFiniteSet(Outstanding)
         /\ Cardinality(Outstanding) \in 0 .. Len(BuyerList)
<1>1. Len(BuyerList) \in Nat
  BY BuyerListType DEF TypeOK
<1>2. IsFiniteSet(Idx) /\ Cardinality(Idx) = Len(BuyerList)
  BY <1>1, IntervalCard DEF Idx
<1>3. Outstanding \subseteq Idx
  BY DEF TypeOK, Outstanding
<1>4. IsFiniteSet(Outstanding) /\ Cardinality(Outstanding) <= Len(BuyerList)
  BY <1>2, <1>3, FS_Subset
<1>5. Cardinality(Outstanding) \in Nat
  BY <1>4, FS_CardinalityType
<1>. QED  BY <1>3, <1>4, <1>5

\* While some buyer_list entry still owes its decrement, the count is
\* positive, the barrier has not been crossed and, once Execute is past its
\* early exits, no Finish has happened and no later stage has started.
LEMMA OutstandingBeforeCrossing ==
  ASSUME IInv, NEW i \in Outstanding, mainPc # "exit" \/ loopIdx > 1
  PROVE  /\ pendingBids >= 1
         /\ ~crossed
         /\ finishCalls = 0 /\ ~signalsPending /\ ~scoringPending
<1>1. pendingBids >= 1
  <2>1. IsFiniteSet(Outstanding) /\ Cardinality(Outstanding) \in Nat
    BY OutstandingCard DEF IInv
  <2>2. Cardinality(Outstanding) # 0
    BY <2>1, FS_EmptySet
  <2>. QED  BY <2>1, <2>2 DEF IInv, StageInv, PendingAccounted
<1>2. CASE loopIdx = 1
  BY <1>1, <1>2 DEF IInv, StageInv
<1>3. CASE loopIdx # 1
  <2>1. loopIdx > 1  BY <1>3 DEF IInv, TypeOK
  <2>2. ~crossed  BY <1>1, <2>1 DEF IInv, StageInv
  <2>3. FinishTokens = 0  BY <2>1, <2>2 DEF IInv, StageInv
  <2>. QED  BY <1>1, <2>2, <2>3 DEF FinishTokens, B2N, IInv, TypeOK
<1>. QED  BY <1>2, <1>3

-----------------------------------------------------------------------------
(* The operators every finishing path goes through.                        *)

\* The response-sending tail of OnScoreAdsDone calls Finish exactly once on
\* each of its paths (OK, a compression, key or encapsulation failure, or
\* the Encode failure before the abort).
LEMMA SendAuctionResultFacts ==
  ASSUME TypeOK, NEW chaff \in BOOLEAN, NEW r \in RespType,
         SendAuctionResult(chaff, r)
  PROVE  /\ finishCalls' = finishCalls + 1
         /\ resp' \in RespType
         /\ aborted' \in BOOLEAN
<1>1. CASE ~EnableEncryption
  BY <1>1 DEF SendAuctionResult, PopulateRawResponse, RespType, Statuses, TypeOK
<1>2. CASE EnableEncryption
  <2>. PICK encodeOk \in BOOLEAN, compressOk \in BOOLEAN, keyFound \in BOOLEAN,
            encapsulateOk \in BOOLEAN :
         /\ finishCalls' = finishCalls + 1
         /\ resp' = IF encodeOk /\ compressOk /\ keyFound /\ encapsulateOk
                    THEN [PopulateRawResponse(chaff, r) EXCEPT !.status = "OK"]
                    ELSE [r EXCEPT !.status = "INTERNAL"]
         /\ aborted' = ~encodeOk
    BY <1>2 DEF SendAuctionResult
  <2>. QED  BY DEF PopulateRawResponse, RespType, Statuses
<1>. QED  BY <1>1, <1>2

\* OnScoreAdsDone calls Finish exactly once, whichever of its branches runs,
\* and fires a finite number of debug-report beacons.
LEMMA OnScoreAdsDoneFacts ==
  ASSUME TypeOK, NEW result, NEW ads, NEW r \in RespType,
         OnScoreAdsDone(result, ads, r)
  PROVE  /\ finishCalls' = finishCalls + 1
         /\ resp' \in RespType
         /\ aborted' \in BOOLEAN
         /\ reports' \in Nat
<1>1. CASE ads # {} \/ result = "error"
  BY <1>1 DEF OnScoreAdsDone, RespType, Statuses, TypeOK
<1>2. CASE ads = {} /\ result # "error"
  <2>1. PerformDebugReporting /\ SendAuctionResult(result # "winner", r)
    BY <1>2 DEF OnScoreAdsDone
  <2>2. Cardinality(bidsList \cap debugBids) \in Nat
    <3>1. IsFiniteSet(bidsList \cap debugBids)
      BY BuyersAssumption, FS_Subset DEF TypeOK
    <3>. QED  BY <3>1, FS_CardinalityType
  <2>3. reports' \in Nat
    BY <2>1, <2>2 DEF PerformDebugReporting, TypeOK
  <2>. QED  BY <2>1, <2>3, SendAuctionResultFacts
<1>. QED  BY <1>1, <1>2

\* UpdatePendingBidsState before the crossing: it decrements, and the
\* decrement that reaches zero crosses the barrier and hands the request to
\* exactly one finishing stage (the chaff Finish or the scoring signals).
LEMMA UpdateFacts ==
  ASSUME TypeOK, ~crossed, finishCalls = 0, ~signalsPending,
         NEW t \in {"main", "callback"}, UpdatePendingBidsState(t)
  PROVE  /\ pendingBids' = pendingBids - 1
         /\ crossed' = (pendingBids' = 0)
         /\ finishCalls' + B2N(signalsPending') = IF pendingBids' = 0 THEN 1 ELSE 0
         /\ finishCalls' \in Nat
         /\ resp' \in RespType
         /\ reports' \in Nat
         /\ aborted' \in BOOLEAN
         /\ bidsList' \subseteq Buyers
         /\ lockOwner' \in {"none", "main", "callback"}
         /\ signalsPending' \in BOOLEAN
<1>1. pendingBids' = pendingBids - 1
  BY DEF UpdatePendingBidsState
<1>2. CASE pendingBids - 1 # 0
  BY <1>2 DEF UpdatePendingBidsState, TypeOK, B2N, RespType
<1>3. CASE pendingBids - 1 = 0
  <2>1. CrossBarrier(t)  BY <1>3 DEF UpdatePendingBidsState
  <2>2. crossed' /\ lockOwner' = t /\ bidsList' = buyerBids
    BY <2>1 DEF CrossBarrier
  <2>3. resp \in RespType  BY DEF TypeOK, RespType
  <2>4. CASE buyerBids = {}
    <3>1. OnScoreAdsDone("noScore", adErrs, resp) /\ UNCHANGED signalsPending
      BY <2>1, <2>4 DEF CrossBarrier
    <3>2. /\ finishCalls' = finishCalls + 1
          /\ resp' \in RespType /\ aborted' \in BOOLEAN /\ reports' \in Nat
      BY <2>3, <3>1, OnScoreAdsDoneFacts
    <3>3. signalsPending' = FALSE  BY <3>1
    <3>4. crossed' = TRUE /\ pendingBids' = 0  BY <1>1, <1>3, <2>2
    <3>5. finishCalls' = 1  BY <3>2 DEF TypeOK
    <3>6. finishCalls' + B2N(signalsPending') = 1  BY <3>3, <3>5 DEF B2N
    <3>7. signalsPending' \in BOOLEAN /\ finishCalls' \in Nat  BY <3>3, <3>5
    <3>8. bidsList' \subseteq Buyers /\ lockOwner' \in {"none", "main", "callback"}
      BY <2>2 DEF TypeOK
    <3>. QED  BY <1>1, <3>2, <3>4, <3>6, <3>7, <3>8
  <2>5. CASE buyerBids # {}
    <3>1. signalsPending' /\ UNCHANGED <<resp, finishCalls, reports, aborted>>
      BY <2>1, <2>5 DEF CrossBarrier
    <3>2. resp' \in RespType  BY <2>3, <3>1
    <3>3. crossed' = TRUE /\ pendingBids' = 0  BY <1>1, <1>3, <2>2
    <3>4. finishCalls' + B2N(signalsPending') = 1  BY <3>1 DEF TypeOK, B2N
    <3>5. signalsPending' \in BOOLEAN /\ aborted' \in BOOLEAN  BY <3>1 DEF TypeOK
    <3>6. finishCalls' \in Nat /\ reports' \in Nat  BY <3>1 DEF TypeOK
    <3>7. bidsList' \subseteq Buyers /\ lockOwner' \in {"none", "main", "callback"}
      BY <2>2 DEF TypeOK
    <3>. QED  BY <1>1, <3>2, <3>3, <3>4, <3>5, <3>6, <3>7
  <2>. QED  BY <2>4, <2>5
<1>. QED  BY <1>2, <1>3

-----------------------------------------------------------------------------
(* The initial state.                                                      *)

LEMMA InitIInv == Init => IInv
<1>. SUFFICES ASSUME Init PROVE IInv  OBVIOUS
<1>1. req \in Requests  BY DEF Init
<1>2. Len(BuyerList) \in Nat  BY <1>1, BuyerListType
<1>3. Outstanding = 1 .. Len(BuyerList)
  BY DEF Init, Outstanding, Idx
<1>4. Cardinality(Outstanding) = Len(BuyerList)
  BY <1>2, <1>3, IntervalCard
<1>5. TypeOK
  <2>1. resp \in [status : Statuses, chaff : BOOLEAN, clientError : BOOLEAN,
                  body : BOOLEAN]
    BY DEF Init, Statuses
  <2>2. pendingBids \in 0 .. Len(BuyerList) /\ loopIdx \in 1 .. Len(BuyerList) + 1
    BY <1>2 DEF Init, BuyerList
  <2>. QED  BY <1>1, <2>1, <2>2 DEF Init, TypeOK, Idx
<1>6. StageInv
  BY <1>4 DEF Init, StageInv, PendingAccounted, BuyerList
<1>. QED  BY <1>5, <1>6 DEF IInv

-----------------------------------------------------------------------------
(* Each action preserves IInv.                                             *)

\* Execute either finishes the request itself (a failed decryption, an
\* ad-server-visible or a client-visible error) or enters the fan-out loop;
\* an empty buyer_list always takes the first way, since it is itself an
\* ad-server-visible error.
LEMMA ExecutePreserves ==
  ASSUME IInv, Execute
  PROVE  IInv'
<1>. DEFINE dec == IF MalformedSeen THEN {"MalformedBuyerInput"} ELSE {}
            cls == IF dec = {} THEN ValidationErrors ELSE dec
<1>1. /\ mainPc = "start" /\ loopIdx = 1
      /\ ~crossed /\ ~signalsPending /\ ~scoringPending /\ finishCalls = 0
  BY DEF Execute, IInv, StageInv
<1>2. UNCHANGED <<req, loopIdx, pendingBids, calls, delivered, buyerBids,
                  debugBids, bidsList, crossed, lockOwner, signalsPending,
                  scoringPending, deleted, bidReturned>>
  BY DEF Execute
<1>3. resp \in RespType /\ TypeOK  BY DEF IInv, TypeOK, RespType
<1>4. /\ mainPc' \in {"loop", "exit"}
      /\ mainPc' = "loop" => Len(BuyerList) # 0
      /\ finishCalls' = IF mainPc' = "exit" THEN 1 ELSE 0
      /\ resp' \in RespType /\ reports' \in Nat /\ aborted' \in BOOLEAN
      /\ buyerInputs' \subseteq Buyers
      /\ clientErrs' \subseteq ClientErrorKinds
      /\ adErrs' \subseteq AdServerErrorKinds
  <2>1. CASE EnableEncryption /\ req.decrypt # "ok"
    BY <1>1, <1>3, <2>1 DEF Execute, Finish, TypeOK, RespType, Statuses
  <2>2. CASE ~(EnableEncryption /\ req.decrypt # "ok")
    <3>1. /\ buyerInputs' = DecodedInputs
          /\ adErrs' = AdServerErrors
          /\ clientErrs' = IF AdServerErrors # {} THEN dec ELSE cls
      BY <2>2 DEF Execute
    <3>2. /\ DecodedInputs \subseteq Buyers
          /\ dec \subseteq ClientErrorKinds /\ cls \subseteq ClientErrorKinds
          /\ AdServerErrors \subseteq AdServerErrorKinds
      BY DEF DecodedInputs, ValidationErrors, ClientErrorKinds, AdServerErrors,
             AdServerErrorKinds
    <3>3. CASE AdServerErrors # {} \/ cls # {}
      <4>1. /\ mainPc' = "exit"
            /\ OnScoreAdsDone("noScore", AdServerErrors,
                              IF AdServerErrors # {} THEN resp
                              ELSE MayPopulateClientVisibleErrors(resp, cls))
        BY <2>2, <3>3 DEF Execute
      <4>2. (IF AdServerErrors # {} THEN resp
             ELSE MayPopulateClientVisibleErrors(resp, cls)) \in RespType
        BY <1>3 DEF RespType, MayPopulateClientVisibleErrors
      <4>3. /\ finishCalls' = finishCalls + 1
            /\ resp' \in RespType /\ aborted' \in BOOLEAN /\ reports' \in Nat
        BY <1>3, <4>1, <4>2, OnScoreAdsDoneFacts
      <4>. QED  BY <1>1, <3>1, <3>2, <4>1, <4>3
    <3>4. CASE ~(AdServerErrors # {} \/ cls # {})
      <4>1. Len(BuyerList) # 0  BY <3>4 DEF AdServerErrors
      <4>2. /\ mainPc' = "loop"
            /\ UNCHANGED <<resp, finishCalls, reports, aborted>>
        BY <2>2, <3>4, <4>1 DEF Execute
      <4>. QED  BY <1>1, <1>3, <3>1, <3>2, <4>1, <4>2 DEF TypeOK
    <3>. QED  BY <3>3, <3>4
  <2>. QED  BY <2>1, <2>2
<1>5. Len(BuyerList) \in Nat /\ Len(BuyerList)' = Len(BuyerList)
  BY <1>2, BuyerListType DEF IInv, TypeOK, BuyerList
<1>6. Outstanding' = Outstanding  BY <1>2 DEF Outstanding, Idx, BuyerList
<1>7. TypeOK'
  BY <1>2, <1>4, <1>5 DEF IInv, TypeOK, RespType, Idx, BuyerList
<1>8. StageInv'
  <2>1. mainPc' = "loop" => loopIdx' <= Len(BuyerList)'
    BY <1>1, <1>2, <1>4, <1>5
  <2>2. calls' \subseteq 1 .. loopIdx' - 1 /\ delivered' \subseteq 1 .. loopIdx' - 1
        /\ calls' \cap delivered' = {}
    BY <1>2 DEF IInv, StageInv
  <2>3. PendingAccounted'  BY <1>2, <1>6 DEF IInv, StageInv, PendingAccounted
  <2>4. loopIdx' = 1 /\ ~crossed' /\ ~signalsPending' /\ ~scoringPending'
    BY <1>1, <1>2
  <2>. QED  BY <1>4, <2>1, <2>2, <2>3, <2>4 DEF StageInv
<1>. QED  BY <1>7, <1>8 DEF IInv

\* The decrement of UpdatePendingBidsState, from the Execute loop or a
\* GetBids callback, retires one outstanding entry k: the count still
\* matches, and the decrement that reaches zero hands the request to exactly
\* one finishing stage.
LEMMA DecrementStage ==
  ASSUME IInv, NEW k \in Outstanding, NEW t \in {"main", "callback"},
         mainPc # "exit" \/ loopIdx > 1,
         UpdatePendingBidsState(t), UNCHANGED scoringPending,
         Outstanding' = Outstanding \ {k}
  PROVE  /\ PendingAccounted'
         /\ IF crossed' THEN FinishTokens' = 1 /\ pendingBids' = 0
                        ELSE FinishTokens' = 0
         /\ pendingBids' \in 0 .. Len(BuyerList)
         /\ finishCalls' \in Nat /\ resp' \in RespType /\ reports' \in Nat
         /\ aborted' \in BOOLEAN /\ bidsList' \subseteq Buyers
         /\ lockOwner' \in {"none", "main", "callback"}
         /\ signalsPending' \in BOOLEAN /\ crossed' \in BOOLEAN
<1>1. pendingBids >= 1 /\ ~crossed /\ finishCalls = 0 /\ ~signalsPending
      /\ ~scoringPending
  BY OutstandingBeforeCrossing
<1>2. /\ pendingBids' = pendingBids - 1
      /\ crossed' = (pendingBids' = 0)
      /\ finishCalls' + B2N(signalsPending') = IF pendingBids' = 0 THEN 1 ELSE 0
      /\ finishCalls' \in Nat
      /\ resp' \in RespType
      /\ reports' \in Nat
      /\ aborted' \in BOOLEAN
      /\ bidsList' \subseteq Buyers
      /\ lockOwner' \in {"none", "main", "callback"}
      /\ signalsPending' \in BOOLEAN
  BY <1>1, UpdateFacts DEF IInv
<1>3. Cardinality(Outstanding') = Cardinality(Outstanding) - 1
  <2>1. IsFiniteSet(Outstanding)  BY OutstandingCard DEF IInv
  <2>. QED  BY <2>1, FS_RemoveElement
<1>4. PendingAccounted'
  BY <1>2, <1>3 DEF IInv, StageInv, PendingAccounted
<1>5. pendingBids' \in 0 .. Len(BuyerList)
  BY <1>1, <1>2 DEF IInv, TypeOK
<1>6. IF crossed' THEN FinishTokens' = 1 /\ pendingBids' = 0
                  ELSE FinishTokens' = 0
  <2>1. ~scoringPending'  BY <1>1
  <2>2. CASE pendingBids' = 0
    <3>1. crossed'  BY <1>2, <2>2, Zenon
    <3>2. FinishTokens' = 1
      <4>1. B2N(scoringPending') = 0  BY <2>1 DEF B2N
      <4>2. finishCalls' + B2N(signalsPending') = 1  BY <1>2, <2>2
      <4>3. B2N(signalsPending') \in {0, 1}  BY DEF B2N
      <4>. QED  BY <1>2, <4>1, <4>2, <4>3, FinishTokensPrime
    <3>. QED  BY <2>2, <3>1, <3>2
  <2>3. CASE pendingBids' # 0
    <3>1. ~crossed'  BY <1>2, <2>3, Zenon
    <3>2. FinishTokens' = 0
      <4>1. B2N(scoringPending') = 0  BY <2>1 DEF B2N
      <4>2. finishCalls' + B2N(signalsPending') = 0  BY <1>2, <2>3
      <4>3. B2N(signalsPending') \in {0, 1}  BY DEF B2N
      <4>. QED  BY <1>2, <4>1, <4>2, <4>3, FinishTokensPrime
    <3>. QED  BY <3>1, <3>2
  <2>. QED  BY <2>2, <2>3
<1>7. crossed' \in BOOLEAN  BY <1>2, Zenon
<1>. QED  BY <1>2, <1>4, <1>5, <1>6, <1>7

\* RecordBids keeps buyer_bids_ a set of buyers, with the debug-carrying
\* ones among them.
LEMMA RecordBidsType ==
  ASSUME TypeOK, NEW b \in Buyers, NEW outcome, RecordBids(b, outcome)
  PROVE  /\ buyerBids' \subseteq Buyers
         /\ debugBids' \subseteq buyerBids'
         /\ bidReturned' \subseteq Buyers
BY DEF RecordBids, TypeOK

\* Actions that only touch lockOwner, reports or deleted (ReleaseBidLock,
\* DebugReportDone, OnDone) and stuttering steps preserve IInv.
LEMMA BookkeepingPreserves ==
  ASSUME IInv,
         UNCHANGED <<req, mainPc, loopIdx, buyerInputs, clientErrs, adErrs,
                     pendingBids, calls, delivered, buyerBids, debugBids,
                     bidsList, crossed, signalsPending, scoringPending, resp,
                     finishCalls, aborted, bidReturned>>,
         lockOwner' \in {"none", "main", "callback"},
         reports' \in Nat, deleted' \in BOOLEAN
  PROVE  IInv'
<1>1. Outstanding' = Outstanding  BY DEF Outstanding, Idx, BuyerList
<1>2. TypeOK'  BY DEF IInv, TypeOK, Idx, BuyerList
<1>3. StageInv'
  BY <1>1 DEF IInv, StageInv, PendingAccounted, FinishTokens, B2N, BuyerList
<1>. QED  BY <1>2, <1>3 DEF IInv

\* One Execute loop iteration moves its position either into the calls in
\* flight (same outstanding set) or out of the outstanding set together
\* with one decrement; the position is outstanding, so the barrier has not
\* been crossed before it.
LEMMA ExecuteLoopStepPreserves ==
  ASSUME IInv, ExecuteLoopStep
  PROVE  IInv'
<1>1. /\ mainPc = "loop" /\ loopIdx \in Idx /\ loopIdx \in 1 .. Len(BuyerList)
      /\ Len(BuyerList) \in Nat /\ BuyerList' = BuyerList /\ Idx' = Idx
  <2>1. Len(BuyerList) \in Nat  BY BuyerListType DEF IInv, TypeOK
  <2>2. req' = req  BY DEF ExecuteLoopStep
  <2>. QED  BY <2>1, <2>2 DEF ExecuteLoopStep, IInv, TypeOK, StageInv, Idx, BuyerList
<1>2. loopIdx \in Outstanding  BY <1>1 DEF Outstanding, Idx
<1>3. pendingBids >= 1 /\ ~crossed /\ finishCalls = 0 /\ ~signalsPending
      /\ ~scoringPending
  BY <1>1, <1>2, OutstandingBeforeCrossing
<1>4. /\ loopIdx' = loopIdx + 1
      /\ mainPc' = IF loopIdx = Len(BuyerList) THEN "exit" ELSE "loop"
      /\ UNCHANGED <<req, buyerInputs, clientErrs, adErrs, delivered, buyerBids,
                     debugBids, scoringPending, deleted, bidReturned>>
  BY DEF ExecuteLoopStep, BuyerList
<1>5. /\ loopIdx \notin calls /\ loopIdx \notin delivered
      /\ calls \subseteq 1 .. loopIdx - 1 /\ delivered \subseteq 1 .. loopIdx - 1
      /\ calls \cap delivered = {}
  BY DEF IInv, StageInv, TypeOK
<1>6. /\ mainPc' = "loop" => loopIdx' <= Len(BuyerList)'
      /\ mainPc' \in {"start", "loop", "exit"}
      /\ loopIdx' \in 1 .. Len(BuyerList)' + 1
      /\ loopIdx' > 1
  BY <1>1, <1>4 DEF Idx
<1>7. CASE /\ BuyerList[loopIdx] \in buyerInputs
           /\ BuyerList[loopIdx] \in req.hasClient
           /\ calls' = calls \cup {loopIdx}
           /\ UNCHANGED <<pendingBids, crossed, lockOwner, bidsList,
                          signalsPending, resp, finishCalls, reports, aborted>>
  <2>1. Outstanding' = Outstanding  BY <1>1, <1>4, <1>7 DEF Outstanding, Idx, IInv, TypeOK
  <2>2. TypeOK'  BY <1>1, <1>4, <1>6, <1>7 DEF IInv, TypeOK
  <2>3. /\ calls' \subseteq 1 .. loopIdx' - 1
        /\ delivered' \subseteq 1 .. loopIdx' - 1
        /\ calls' \cap delivered' = {}
    <3>1. loopIdx \in Nat /\ loopIdx' = loopIdx + 1  BY <1>1, <1>4
    <3>0. calls' = calls \cup {loopIdx}  BY <1>7
    <3>2. calls' \subseteq 1 .. loopIdx' - 1
      <4>1. calls \subseteq 1 .. loopIdx' - 1  BY <3>1, <1>5
      <4>2. loopIdx \in 1 .. loopIdx' - 1  BY <3>1, <1>1
      <4>. QED  BY <3>0, <4>1, <4>2
    <3>3. delivered' \subseteq 1 .. loopIdx' - 1  BY <3>1, <1>4, <1>5
    <3>4. calls' \cap delivered' = {}  BY <1>4, <1>5, <1>7
    <3>. QED  BY <3>2, <3>3, <3>4
  <2>4. PendingAccounted'  BY <1>7, <2>1 DEF IInv, StageInv, PendingAccounted
  <2>5. ~crossed' /\ FinishTokens' = 0
    BY <1>3, <1>4, <1>7 DEF FinishTokens, B2N
  <2>6. StageInv'  BY <1>4, <1>6, <2>3, <2>4, <2>5 DEF StageInv
  <2>. QED  BY <2>2, <2>6 DEF IInv
<1>8. CASE /\ lockOwner = "none"
           /\ UpdatePendingBidsState("main")
           /\ UNCHANGED calls
  <2>1. Outstanding' = Outstanding \ {loopIdx}
    BY <1>1, <1>4, <1>5, <1>8 DEF Outstanding, Idx, IInv, TypeOK
  <2>2. /\ PendingAccounted'
        /\ IF crossed' THEN FinishTokens' = 1 /\ pendingBids' = 0
                       ELSE FinishTokens' = 0
        /\ pendingBids' \in 0 .. Len(BuyerList)
        /\ finishCalls' \in Nat /\ resp' \in RespType /\ reports' \in Nat
        /\ aborted' \in BOOLEAN /\ bidsList' \subseteq Buyers
        /\ lockOwner' \in {"none", "main", "callback"}
        /\ signalsPending' \in BOOLEAN /\ crossed' \in BOOLEAN
    BY <1>1, <1>2, <1>4, <1>6, <1>8, <2>1, DecrementStage
  <2>3. TypeOK'
    BY <1>1, <1>4, <1>6, <1>8, <2>2 DEF IInv, TypeOK, RespType
  <2>4. /\ calls' \subseteq 1 .. loopIdx' - 1
        /\ delivered' \subseteq 1 .. loopIdx' - 1
        /\ calls' \cap delivered' = {}
    BY <1>1, <1>4, <1>5, <1>8
  <2>5. StageInv'  BY <1>4, <1>6, <2>2, <2>4 DEF StageInv
  <2>. QED  BY <2>3, <2>5 DEF IInv
<1>. QED  BY <1>7, <1>8 DEF ExecuteLoopStep, BuyerList

\* A GetBids callback's critical section moves its position from the calls
\* in flight to the delivered ones: the outstanding set is unchanged.
LEMMA OnFetchBidsDonePreserves ==
  ASSUME IInv, NEW i \in Idx, OnFetchBidsDone(i)
  PROVE  IInv'
<1>1. /\ i \in calls
      /\ calls' = calls \ {i}
      /\ delivered' = delivered \cup {i}
      /\ UNCHANGED <<req, mainPc, loopIdx, buyerInputs, clientErrs, adErrs,
                     pendingBids, bidsList, crossed, lockOwner, signalsPending,
                     scoringPending, resp, finishCalls, reports, deleted, aborted>>
  BY DEF OnFetchBidsDone
<1>2. /\ buyerBids' \subseteq Buyers
      /\ debugBids' \subseteq buyerBids'
      /\ bidReturned' \subseteq Buyers
  <2>1. BuyerList[i] \in Buyers  BY BuyerListType DEF IInv, TypeOK
  <2>2. PICK outcome \in BidOutcomes : RecordBids(BuyerList[i], outcome)
    BY DEF OnFetchBidsDone
  <2>. QED  BY <2>1, <2>2, RecordBidsType DEF IInv
<1>3. Outstanding' = Outstanding  BY <1>1 DEF Outstanding, Idx, BuyerList
<1>4. TypeOK'  BY <1>1, <1>2 DEF IInv, TypeOK, Idx, BuyerList
<1>5. /\ calls' \subseteq 1 .. loopIdx' - 1
      /\ delivered' \subseteq 1 .. loopIdx' - 1
      /\ calls' \cap delivered' = {}
  BY <1>1 DEF IInv, StageInv
<1>6. StageInv'
  BY <1>1, <1>3, <1>5 DEF IInv, StageInv, PendingAccounted, FinishTokens, B2N,
                         BuyerList
<1>. QED  BY <1>4, <1>6 DEF IInv

\* The tail of a GetBids callback retires its delivered position with the
\* decrement of UpdatePendingBidsState.
LEMMA OnFetchBidsDoneUpdatePreserves ==
  ASSUME IInv, NEW i \in Idx, OnFetchBidsDoneUpdate(i)
  PROVE  IInv'
<1>1. /\ i \in delivered
      /\ UpdatePendingBidsState("callback")
      /\ delivered' = delivered \ {i}
      /\ UNCHANGED <<req, mainPc, loopIdx, buyerInputs, clientErrs, adErrs,
                     calls, buyerBids, debugBids, scoringPending, deleted,
                     bidReturned>>
  BY DEF OnFetchBidsDoneUpdate
<1>2. /\ i \in 1 .. loopIdx - 1 /\ i \notin calls
      /\ loopIdx \in Nat /\ loopIdx > 1
  BY <1>1 DEF IInv, StageInv, TypeOK
<1>3. i \in Outstanding  BY <1>1 DEF Outstanding
<1>4. Outstanding' = Outstanding \ {i}
  BY <1>1, <1>2 DEF Outstanding, Idx, BuyerList
<1>5. /\ PendingAccounted'
      /\ IF crossed' THEN FinishTokens' = 1 /\ pendingBids' = 0
                     ELSE FinishTokens' = 0
      /\ pendingBids' \in 0 .. Len(BuyerList)
      /\ finishCalls' \in Nat /\ resp' \in RespType /\ reports' \in Nat
      /\ aborted' \in BOOLEAN /\ bidsList' \subseteq Buyers
      /\ lockOwner' \in {"none", "main", "callback"}
      /\ signalsPending' \in BOOLEAN /\ crossed' \in BOOLEAN
  BY <1>1, <1>2, <1>3, <1>4, DecrementStage
<1>6. TypeOK'  BY <1>1, <1>5 DEF IInv, TypeOK, RespType, Idx, BuyerList
<1>7. /\ calls' \subseteq 1 .. loopIdx' - 1
      /\ delivered' \subseteq 1 .. loopIdx' - 1
      /\ calls' \cap delivered' = {}
  BY <1>1 DEF IInv, StageInv
<1>8. StageInv'
  <2>1. mainPc' # "start" /\ loopIdx' > 1
    BY <1>1, <1>2 DEF IInv, StageInv
  <2>2. mainPc' = "loop" => loopIdx' <= Len(BuyerList')
    BY <1>1 DEF IInv, StageInv, BuyerList
  <2>. QED  BY <1>5, <1>7, <2>1, <2>2 DEF StageInv
<1>. QED  BY <1>6, <1>8 DEF IInv

\* A pending scoring-signals or ScoreAds callback means the barrier was
\* crossed with bids and Finish has not been called yet.
LEMMA ScoringStage ==
  ASSUME IInv, signalsPending \/ scoringPending
  PROVE  /\ loopIdx > 1 /\ crossed /\ pendingBids = 0
         /\ finishCalls = 0
         /\ B2N(signalsPending) + B2N(scoringPending) = 1
<1>1. loopIdx > 1  BY DEF IInv, StageInv, TypeOK
<1>2. crossed
  <2>1. ~crossed => FinishTokens = 0  BY <1>1 DEF IInv, StageInv
  <2>. QED  BY <2>1 DEF FinishTokens, B2N, IInv, TypeOK
<1>3. FinishTokens = 1 /\ pendingBids = 0  BY <1>1, <1>2 DEF IInv, StageInv
<1>. QED  BY <1>1, <1>2, <1>3 DEF FinishTokens, B2N, IInv, TypeOK

\* The scoring-signals callback passes the finish token on: either the
\* ScoreAds call is now pending, or its dispatch failed and Finish is called.
LEMMA OnFetchScoringSignalsDonePreserves ==
  ASSUME IInv, OnFetchScoringSignalsDone
  PROVE  IInv'
<1>1. /\ signalsPending /\ signalsPending' = FALSE
      /\ UNCHANGED <<req, mainPc, loopIdx, buyerInputs, clientErrs, adErrs,
                     pendingBids, calls, delivered, buyerBids, debugBids,
                     bidsList, crossed, lockOwner, reports, deleted, aborted,
                     bidReturned>>
  BY DEF OnFetchScoringSignalsDone
<1>2. loopIdx > 1 /\ crossed /\ pendingBids = 0 /\ finishCalls = 0
      /\ ~scoringPending
  BY <1>1, ScoringStage DEF B2N, IInv, TypeOK
<1>3. /\ finishCalls' + B2N(scoringPending') = 1
      /\ finishCalls' \in Nat /\ scoringPending' \in BOOLEAN
      /\ resp' \in RespType
  <2>1. resp \in RespType  BY DEF IInv, TypeOK, RespType
  <2>2. CASE scoringPending' = TRUE /\ UNCHANGED <<resp, finishCalls>>
    <3>1. B2N(scoringPending') = 1 /\ scoringPending' \in BOOLEAN
      BY <2>2 DEF B2N
    <3>. QED  BY <1>2, <2>1, <2>2, <3>1
  <2>3. CASE Finish("INTERNAL") /\ UNCHANGED scoringPending
    <3>0. scoringPending' = scoringPending /\ ~scoringPending  BY <1>2, <2>3
    <3>1. ~scoringPending' /\ scoringPending' \in BOOLEAN  BY <3>0 DEF IInv, TypeOK
    <3>2. B2N(scoringPending') = 0  BY <3>1 DEF B2N
    <3>3. finishCalls' = 1 /\ resp' \in RespType
      BY <1>2, <2>1, <2>3 DEF Finish, RespType, Statuses
    <3>. QED  BY <3>1, <3>2, <3>3
  <2>. QED  BY <2>2, <2>3 DEF OnFetchScoringSignalsDone
<1>4. FinishTokens' = 1
  <2>1. B2N(signalsPending') = 0  BY <1>1 DEF B2N
  <2>. QED  BY <1>3, <2>1, FinishTokensPrime
<1>5. TypeOK'  BY <1>1, <1>3 DEF IInv, TypeOK, RespType, Idx, BuyerList
<1>6. StageInv'
  <2>1. Outstanding' = Outstanding  BY <1>1 DEF Outstanding, Idx, BuyerList
  <2>. QED  BY <1>1, <1>2, <1>4, <2>1 DEF IInv, StageInv, PendingAccounted,
                                          BuyerList
<1>. QED  BY <1>5, <1>6 DEF IInv

\* The ScoreAds callback runs OnScoreAdsDone, which calls Finish once.
LEMMA OnScoreAdsResponsePreserves ==
  ASSUME IInv, OnScoreAdsResponse
  PROVE  IInv'
<1>1. /\ scoringPending /\ scoringPending' = FALSE
      /\ UNCHANGED <<req, mainPc, loopIdx, buyerInputs, clientErrs, adErrs,
                     pendingBids, calls, delivered, buyerBids, debugBids,
                     bidsList, crossed, lockOwner, signalsPending, deleted,
                     bidReturned>>
  BY DEF OnScoreAdsResponse
<1>2. loopIdx > 1 /\ crossed /\ pendingBids = 0 /\ finishCalls = 0
      /\ ~signalsPending
  BY <1>1, ScoringStage DEF B2N, IInv, TypeOK
<1>3. /\ finishCalls' = finishCalls + 1
      /\ resp' \in RespType /\ aborted' \in BOOLEAN /\ reports' \in Nat
  <2>1. resp \in RespType  BY DEF IInv, TypeOK, RespType
  <2>2. PICK result \in {"error", "noScore", "winner"} :
          OnScoreAdsDone(result, adErrs, resp)
    BY DEF OnScoreAdsResponse
  <2>. QED  BY <2>1, <2>2, OnScoreAdsDoneFacts DEF IInv
<1>4. FinishTokens' = 1
  <2>1. B2N(signalsPending') = 0 /\ B2N(scoringPending') = 0  BY <1>1, <1>2 DEF B2N
  <2>. QED  BY <1>2, <1>3, <2>1, FinishTokensPrime
<1>5. TypeOK'
  <2>1. /\ finishCalls' \in Nat /\ reports' \in Nat /\ aborted' \in BOOLEAN
        /\ scoringPending' \in BOOLEAN
    <3>1. finishCalls' \in Nat  BY <1>2, <1>3
    <3>2. scoringPending' \in BOOLEAN  BY <1>1, Zenon
    <3>. QED  BY <1>3, <3>1, <3>2
  <2>2. req' \in Requests /\ mainPc' \in {"start", "loop", "exit"}  BY <1>1 DEF IInv, TypeOK
  <2>3. loopIdx' \in 1 .. Len(BuyerList') + 1 /\ pendingBids' \in 0 .. Len(BuyerList')  BY <1>1 DEF IInv, TypeOK, BuyerList
  <2>4. calls' \subseteq Idx' /\ delivered' \subseteq Idx'  BY <1>1 DEF IInv, TypeOK, Idx, BuyerList
  <2>5. buyerInputs' \subseteq Buyers /\ clientErrs' \subseteq ClientErrorKinds /\ adErrs' \subseteq AdServerErrorKinds  BY <1>1 DEF IInv, TypeOK
  <2>6. buyerBids' \subseteq Buyers /\ debugBids' \subseteq buyerBids' /\ bidsList' \subseteq Buyers /\ bidReturned' \subseteq Buyers  BY <1>1 DEF IInv, TypeOK
  <2>7. crossed' \in BOOLEAN /\ lockOwner' \in {"none", "main", "callback"} /\ signalsPending' \in BOOLEAN /\ deleted' \in BOOLEAN  BY <1>1 DEF IInv, TypeOK
  <2>8. resp' \in RespType  BY <1>3
  <2>. QED  BY <2>1, <2>2, <2>3, <2>4, <2>5, <2>6, <2>7, <2>8 DEF TypeOK, RespType, Idx, BuyerList
<1>6. StageInv'
  <2>1. Outstanding' = Outstanding  BY <1>1 DEF Outstanding, Idx, BuyerList
  <2>. QED  BY <1>1, <1>2, <1>4, <2>1 DEF IInv, StageInv, PendingAccounted,
                                          BuyerList
<1>. QED  BY <1>5, <1>6 DEF IInv

-----------------------------------------------------------------------------
(* Invariance.                                                             *)

\* Whatever interleaving of the Execute thread, the GetBids callbacks, the
\* scoring callbacks, the debug-report callbacks and OnDone takes place,
\* every step preserves IInv.
THEOREM IInvInductive == IInv /\ [Next]_vars => IInv'
<1>. SUFFICES ASSUME IInv, [Next]_vars PROVE IInv'  OBVIOUS
<1>1. CASE Execute  BY <1>1, ExecutePreserves
<1>2. CASE ExecuteLoopStep  BY <1>2, ExecuteLoopStepPreserves
<1>3. ASSUME NEW i \in Idx, OnFetchBidsDone(i) PROVE IInv'
  BY <1>3, OnFetchBidsDonePreserves
<1>4. ASSUME NEW i \in Idx, OnFetchBidsDoneUpdate(i) PROVE IInv'
  BY <1>4, OnFetchBidsDoneUpdatePreserves
<1>5. CASE ReleaseBidLock
  BY <1>5, BookkeepingPreserves DEF ReleaseBidLock, IInv, TypeOK
<1>6. CASE OnFetchScoringSignalsDone  BY <1>6, OnFetchScoringSignalsDonePreserves
<1>7. CASE OnScoreAdsResponse  BY <1>7, OnScoreAdsResponsePreserves
<1>8. CASE DebugReportDone
  BY <1>8, BookkeepingPreserves DEF DebugReportDone, IInv, TypeOK
<1>9. CASE OnDone
  BY <1>9, BookkeepingPreserves DEF OnDone, IInv, TypeOK
<1>10. CASE UNCHANGED vars
  BY <1>10, BookkeepingPreserves DEF vars, IInv, TypeOK
<1>. QED  BY <1>1, <1>2, <1>3, <1>4, <1>5, <1>6, <1>7, <1>8, <1>9, <1>10 DEF Next

\* The single-response contract follows from the stage invariant: at most
\* one finish token exists at any time.
LEMMA IInvFinishAtMostOnce == IInv => FinishAtMostOnce
<1>. SUFFICES ASSUME IInv PROVE finishCalls <= 1  BY DEF FinishAtMostOnce
<1>1. CASE loopIdx = 1  BY <1>1 DEF IInv, StageInv
<1>2. CASE loopIdx # 1
  <2>1. loopIdx > 1  BY <1>2 DEF IInv, TypeOK
  <2>. QED  BY <2>1 DEF IInv, StageInv, TypeOK, FinishTokens, B2N
<1>. QED  BY <1>1, <1>2

\* Once Finish has been called nothing is outstanding: the Execute loop is
\* over, no GetBids callback is due and no scoring stage is pending.
LEMMA IInvQuiescent == IInv => QuiescentAtFinish
<1>. SUFFICES ASSUME IInv, finishCalls > 0
              PROVE  /\ mainPc = "exit"
                     /\ calls = {} /\ delivered = {}
                     /\ ~signalsPending /\ ~scoringPending
  BY DEF QuiescentAtFinish
<1>1. CASE loopIdx = 1
  BY <1>1 DEF IInv, StageInv, TypeOK
<1>2. CASE loopIdx # 1
  <2>1. loopIdx > 1  BY <1>2 DEF IInv, TypeOK
  <2>2. crossed /\ FinishTokens = 1 /\ pendingBids = 0
    <3>1. crossed  BY <2>1 DEF IInv, StageInv, TypeOK, FinishTokens, B2N
    <3>. QED  BY <2>1, <3>1 DEF IInv, StageInv
  <2>3. ~signalsPending /\ ~scoringPending
    BY <2>2 DEF IInv, TypeOK, FinishTokens, B2N
  <2>4. Outstanding = {}
    <3>1. IsFiniteSet(Outstanding)  BY OutstandingCard DEF IInv
    <3>. QED  BY <2>2, <3>1, FS_EmptySet DEF IInv, StageInv, PendingAccounted
  <2>5. mainPc = "exit"
    <3>1. mainPc # "start"  BY <2>1 DEF IInv, StageInv
    <3>2. mainPc = "loop" => loopIdx \in Outstanding
      BY DEF IInv, StageInv, TypeOK, Outstanding, Idx
    <3>. QED  BY <2>4, <3>1, <3>2 DEF IInv, TypeOK
  <2>. QED  BY <2>3, <2>4, <2>5 DEF Outstanding
<1>. QED  BY <1>1, <1>2

\* After Finish no step changes the response, the collected bids, the
\* pending count or the number of Finish calls: only the lock release, the
\* debug-report callbacks and OnDone can still run.
LEMMA IInvFinal ==
  ASSUME IInv, [Next]_vars, finishCalls > 0
  PROVE  UNCHANGED <<resp, bidsList, buyerBids, pendingBids, finishCalls>>
<1>1. /\ mainPc = "exit" /\ calls = {} /\ delivered = {}
      /\ ~signalsPending /\ ~scoringPending
  BY IInvQuiescent DEF QuiescentAtFinish
<1>2. ~Execute /\ ~ExecuteLoopStep  BY <1>1 DEF Execute, ExecuteLoopStep
<1>3. \A i \in Idx : ~OnFetchBidsDone(i) /\ ~OnFetchBidsDoneUpdate(i)
  BY <1>1 DEF OnFetchBidsDone, OnFetchBidsDoneUpdate
<1>4. ~OnFetchScoringSignalsDone /\ ~OnScoreAdsResponse
  BY <1>1 DEF OnFetchScoringSignalsDone, OnScoreAdsResponse
<1>. QED
  BY <1>2, <1>3, <1>4 DEF Next, vars, ReleaseBidLock, DebugReportDone, OnDone

\* Type correctness of the reactor model.
THEOREM TypeCorrect == Spec => []TypeOK
<1>1. Init => IInv  BY InitIInv
<1>2. IInv /\ [Next]_vars => IInv'  BY IInvInductive
<1>3. IInv => TypeOK  BY DEF IInv
<1>. QED  BY <1>1, <1>2, <1>3, PTL DEF Spec

\* pending_bids_count_ always equals the buyer_list entries that still owe
\* their decrement, for every buyer list and every order of callbacks.
THEOREM PendingCountExact == Spec => []PendingAccounted
<1>1. IInv => PendingAccounted  BY DEF IInv, StageInv
<1>. QED  BY <1>1, InitIInv, IInvInductive, PTL DEF Spec

\* The gRPC unary reactor's Finish is called at most once, for every buyer
\* list, every configuration and every order of the callbacks.
THEOREM FinishCalledOnce == Spec => []FinishAtMostOnce
BY InitIInv, IInvInductive, IInvFinishAtMostOnce, PTL DEF Spec

\* No callback of the request is still due when Finish is called.
THEOREM QuiescentFinish == Spec => []QuiescentAtFinish
BY InitIInv, IInvInductive, IInvQuiescent, PTL DEF Spec

\* Nothing changes what was sent once Finish has been called.
THEOREM FinalResponse == Spec => FinalAfterFinish
<1>1. IInv /\ [Next]_vars =>
        [finishCalls > 0 =>
           UNCHANGED <<resp, bidsList, buyerBids, pendingBids, finishCalls>>]_vars
  BY IInvFinal
<1>. QED  BY <1>1, InitIInv, IInvInductive, PTL DEF Spec, FinalAfterFinish

=============================================================================
