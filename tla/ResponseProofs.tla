---------------------------- MODULE ResponseProofs ----------------------------
(***************************************************************************)
(* Proofs of the two invariants about what the reactor collects and sends: *)
(* BarrierSound (buyer_bids_list_ at the zero crossing holds exactly the   *)
(* buyers that answered with bids) and ResponseConsistent (the status,     *)
(* chaff flag and client error of response_ agree with the error          *)
(* accumulator and the bids).                                              *)
(*                                                                         *)
(* Besides RInv three facts are needed.  BidsSync: every GetBids answer    *)
(* with bids is try_emplace'd into buyer_bids_ (a repeated buyer is        *)
(* already there), and the crossing copies buyer_bids_ into                *)
(* buyer_bids_list_, after which no callback inserts.  ScoringHasBids:     *)
(* the scoring stages run only when the crossing found bids.  ErrorsExit:  *)
(* an accumulated error always ended Execute before the fan-out loop.      *)
(***************************************************************************)
EXTENDS OneResponseProofs

BidsSync ==
  /\ buyerBids = bidReturned
  /\ crossed => bidsList = buyerBids

ScoringHasBids == signalsPending \/ scoringPending => bidsList # {}

ErrorsExit == adErrs # {} \/ clientErrs # {} => mainPc = "exit" /\ loopIdx = 1

SInv == RInv /\ BidsSync /\ ScoringHasBids /\ ErrorsExit /\ ResponseConsistent

-----------------------------------------------------------------------------
(* BidsSync.                                                               *)

\* try_emplace adds a buyer with bids exactly when it is not there yet.
LEMMA RecordBidsSync ==
  ASSUME buyerBids = bidReturned, NEW b, NEW outcome, RecordBids(b, outcome)
  PROVE  buyerBids' = bidReturned'
BY DEF RecordBids

\* The crossing copies buyer_bids_ into buyer_bids_list_.
LEMMA UpdateSync ==
  ASSUME NEW t, UpdatePendingBidsState(t), buyerBids' = buyerBids,
         crossed => bidsList = buyerBids
  PROVE  crossed' => bidsList' = buyerBids'
<1>1. CASE pendingBids - 1 = 0
  BY <1>1 DEF UpdatePendingBidsState, CrossBarrier
<1>2. CASE pendingBids - 1 # 0
  BY <1>2 DEF UpdatePendingBidsState
<1>. QED  BY <1>1, <1>2

\* A GetBids callback that is still due runs before the crossing.
LEMMA CallBeforeCrossing ==
  ASSUME IInv, NEW i \in calls \cup delivered
  PROVE  /\ loopIdx > 1 /\ ~crossed
         /\ finishCalls = 0 /\ ~signalsPending /\ ~scoringPending
<1>1. loopIdx > 1  BY DEF IInv, StageInv, TypeOK
<1>2. i \in Outstanding  BY DEF Outstanding, IInv, TypeOK
<1>. QED  BY <1>1, <1>2, OutstandingBeforeCrossing

LEMMA BidsSyncPreserved ==
  ASSUME IInv, BidsSync, [Next]_vars
  PROVE  BidsSync'
<1>1. CASE ExecuteLoopStep
  <2>1. buyerBids' = buyerBids /\ bidReturned' = bidReturned
    BY <1>1 DEF ExecuteLoopStep
  <2>2. crossed' => bidsList' = buyerBids'
    <3>1. CASE UNCHANGED <<crossed, bidsList>>  BY <2>1, <3>1 DEF BidsSync
    <3>2. CASE UpdatePendingBidsState("main")
      BY <2>1, <3>2, UpdateSync DEF BidsSync
    <3>. QED  BY <1>1, <3>1, <3>2 DEF ExecuteLoopStep
  <2>. QED  BY <2>1, <2>2 DEF BidsSync
<1>2. ASSUME NEW i \in Idx, OnFetchBidsDone(i)  PROVE BidsSync'
  <2>1. ~crossed /\ crossed' = crossed  BY <1>2, CallBeforeCrossing DEF OnFetchBidsDone
  <2>2. PICK outcome \in BidOutcomes : RecordBids(BuyerList[i], outcome)
    BY <1>2 DEF OnFetchBidsDone
  <2>. QED  BY <2>1, <2>2, RecordBidsSync DEF BidsSync
<1>3. ASSUME NEW i \in Idx, OnFetchBidsDoneUpdate(i)  PROVE BidsSync'
  BY <1>3, UpdateSync DEF OnFetchBidsDoneUpdate, BidsSync
<1>4. CASE ~ExecuteLoopStep /\ ~\E i \in Idx : OnFetchBidsDone(i) \/ OnFetchBidsDoneUpdate(i)
  <2>1. UNCHANGED <<buyerBids, bidReturned, crossed, bidsList>>
    BY <1>4 DEF Next, vars, Execute, ReleaseBidLock, OnFetchScoringSignalsDone,
                OnScoreAdsResponse, DebugReportDone, OnDone
  <2>. QED  BY <2>1 DEF BidsSync
<1>. QED  BY <1>1, <1>2, <1>3, <1>4

\* At the crossing no entry is outstanding, so no bid can still arrive.
LEMMA BarrierFromInv ==
  ASSUME IInv, BidsSync
  PROVE  BarrierSound
<1>. SUFFICES ASSUME crossed PROVE BarrierSound!2
  BY DEF BarrierSound
<1>1. loopIdx > 1  BY DEF IInv, StageInv, TypeOK
<1>2. pendingBids = 0  BY <1>1 DEF IInv, StageInv
<1>3. Outstanding = {}
  <2>1. IsFiniteSet(Outstanding)  BY OutstandingCard DEF IInv
  <2>2. Cardinality(Outstanding) = 0  BY <1>2 DEF IInv, StageInv, PendingAccounted
  <2>. QED  BY <2>1, <2>2, FS_EmptySet
<1>4. calls = {} /\ delivered = {}  BY <1>3 DEF Outstanding
<1>. QED  BY <1>2, <1>4 DEF BidsSync

\* pending_bids_count_ reaches zero only once every buyer_list entry has
\* been accounted for, and buyer_bids_list_ then holds exactly the buyers
\* whose GetBids answered with bids, for every buyer list and every order of
\* the GetBids callbacks.
THEOREM BarrierSoundHolds == Spec => []BarrierSound
<1>1. Init => IInv /\ BidsSync  BY InitIInv DEF Init, BidsSync
<1>2. IInv /\ BidsSync /\ [Next]_vars => (IInv /\ BidsSync)'
  BY IInvInductive, BidsSyncPreserved
<1>. QED  BY <1>1, <1>2, BarrierFromInv, PTL DEF Spec


-----------------------------------------------------------------------------
(* ErrorsExit and ScoringHasBids.                                          *)

\* Execute accumulates errors only on its way to an early exit.
LEMMA ErrorsExitPreserved ==
  ASSUME IInv, ErrorsExit, [Next]_vars
  PROVE  ErrorsExit'
<1>1. CASE Execute
  <2>. DEFINE dec == IF MalformedSeen THEN {"MalformedBuyerInput"} ELSE {}
              cls == IF dec = {} THEN ValidationErrors ELSE dec
  <2>1. loopIdx' = 1  BY <1>1 DEF Execute, IInv, StageInv
  <2>2. CASE EnableEncryption /\ req.decrypt # "ok"
    BY <1>1, <2>1, <2>2 DEF Execute, ErrorsExit
  <2>3. CASE ~(EnableEncryption /\ req.decrypt # "ok")
    <3>1. /\ adErrs' = AdServerErrors
          /\ clientErrs' = IF AdServerErrors # {} THEN dec ELSE cls
          /\ (AdServerErrors # {} \/ cls # {}) => mainPc' = "exit"
      BY <1>1, <2>3 DEF Execute
    <3>. QED  BY <2>1, <3>1 DEF ErrorsExit
  <2>. QED  BY <2>2, <2>3
<1>2. CASE ExecuteLoopStep
  <2>1. adErrs = {} /\ clientErrs = {}  BY <1>2 DEF ExecuteLoopStep, ErrorsExit
  <2>. QED  BY <1>2, <2>1 DEF ExecuteLoopStep, ErrorsExit
<1>3. CASE ~Execute /\ ~ExecuteLoopStep
  <2>1. UNCHANGED <<mainPc, loopIdx, adErrs, clientErrs>>
    BY <1>3 DEF Next, vars, OnFetchBidsDone, OnFetchBidsDoneUpdate,
                ReleaseBidLock, OnFetchScoringSignalsDone, OnScoreAdsResponse,
                DebugReportDone, OnDone
  <2>. QED  BY <2>1 DEF ErrorsExit
<1>. QED  BY <1>1, <1>2, <1>3

\* A decrement that starts the scoring stage does so with the bids it has
\* just copied into buyer_bids_list_.
LEMMA UpdateScoring ==
  ASSUME NEW t, UpdatePendingBidsState(t), ~signalsPending, ~scoringPending,
         scoringPending' = scoringPending
  PROVE  signalsPending' \/ scoringPending' => bidsList' # {}
<1>1. CASE pendingBids - 1 = 0
  BY <1>1 DEF UpdatePendingBidsState, CrossBarrier
<1>2. CASE pendingBids - 1 # 0
  BY <1>2 DEF UpdatePendingBidsState
<1>. QED  BY <1>1, <1>2

LEMMA ScoringHasBidsPreserved ==
  ASSUME IInv, ScoringHasBids, [Next]_vars
  PROVE  ScoringHasBids'
<1>1. CASE ExecuteLoopStep
  <2>1. ~signalsPending /\ ~scoringPending /\ scoringPending' = scoringPending
    <3>1. loopIdx \in Outstanding
      BY <1>1 DEF ExecuteLoopStep, IInv, StageInv, TypeOK, Outstanding, Idx
    <3>. QED  BY <1>1, <3>1, OutstandingBeforeCrossing DEF ExecuteLoopStep
  <2>2. CASE UNCHANGED <<signalsPending, bidsList>>
    BY <2>1, <2>2 DEF ScoringHasBids
  <2>3. CASE UpdatePendingBidsState("main")
    BY <2>1, <2>3, UpdateScoring DEF ScoringHasBids
  <2>. QED  BY <1>1, <2>2, <2>3 DEF ExecuteLoopStep
<1>2. ASSUME NEW i \in Idx, OnFetchBidsDoneUpdate(i)  PROVE ScoringHasBids'
  <2>1. ~signalsPending /\ ~scoringPending /\ scoringPending' = scoringPending
    BY <1>2, CallBeforeCrossing DEF OnFetchBidsDoneUpdate
  <2>. QED  BY <1>2, <2>1, UpdateScoring DEF OnFetchBidsDoneUpdate, ScoringHasBids
<1>3. CASE ~ExecuteLoopStep /\ ~\E i \in Idx : OnFetchBidsDoneUpdate(i)
  <2>1. /\ bidsList' = bidsList
        /\ signalsPending' \/ scoringPending' => signalsPending \/ scoringPending
    BY <1>3 DEF Next, vars, Execute, OnFetchBidsDone, ReleaseBidLock,
                OnFetchScoringSignalsDone, OnScoreAdsResponse, DebugReportDone,
                OnDone
  <2>. QED  BY <2>1 DEF ScoringHasBids
<1>. QED  BY <1>1, <1>2, <1>3

-----------------------------------------------------------------------------
(* ResponseConsistent.                                                     *)

\* What the one finishing step must establish about the response.
FinishConsistent ==
  /\ adErrs' # {} => resp'.status = "INVALID_ARGUMENT"
  /\ resp'.status = "OK" =>
       /\ resp'.body
       /\ ~resp'.chaff => bidsList' # {}
       /\ clientErrs' # {} => resp'.chaff /\ resp'.clientError

\* An OK reply is PopulateRawResponse's: a body, the chaff flag asked for,
\* and the client error of the response it was built from.
LEMMA SendAuctionResultOk ==
  ASSUME NEW chaff, NEW r \in RespType, SendAuctionResult(chaff, r)
  PROVE  resp'.status = "OK" =>
           resp'.body /\ resp'.chaff = chaff /\ resp'.clientError = r.clientError
<1>1. CASE ~EnableEncryption
  BY <1>1 DEF SendAuctionResult, PopulateRawResponse, RespType
<1>2. CASE EnableEncryption
  <2>. PICK encodeOk \in BOOLEAN, compressOk \in BOOLEAN, keyFound \in BOOLEAN,
            encapsulateOk \in BOOLEAN :
         resp' = IF encodeOk /\ compressOk /\ keyFound /\ encapsulateOk
                 THEN [PopulateRawResponse(chaff, r) EXCEPT !.status = "OK"]
                 ELSE [r EXCEPT !.status = "INTERNAL"]
    BY <1>2 DEF SendAuctionResult
  <2>. QED  BY DEF PopulateRawResponse, RespType
<1>. QED  BY <1>1, <1>2

\* OnScoreAdsDone answers an ad-server-visible error with INVALID_ARGUMENT,
\* and its OK reply is chaff exactly when there is no winner.
LEMMA OnScoreAdsDoneOk ==
  ASSUME NEW result, NEW ads, NEW r \in RespType, OnScoreAdsDone(result, ads, r)
  PROVE  /\ ads # {} => resp'.status = "INVALID_ARGUMENT"
         /\ resp'.status = "OK" =>
              /\ resp'.body
              /\ resp'.chaff = (result # "winner")
              /\ resp'.clientError = r.clientError
<1>1. CASE ads # {} \/ result = "error"
  BY <1>1 DEF OnScoreAdsDone, RespType
<1>2. CASE ads = {} /\ result # "error"
  <2>1. SendAuctionResult(result # "winner", r)  BY <1>2 DEF OnScoreAdsDone
  <2>. QED  BY <1>2, <2>1, SendAuctionResultOk
<1>. QED  BY <1>1, <1>2

\* The decrement that finishes is the crossing without bids: a chaff reply.
LEMMA UpdateConsistent ==
  ASSUME TypeOK, adErrs = {}, clientErrs = {}, NEW t,
         UpdatePendingBidsState(t), finishCalls' # finishCalls,
         adErrs' = adErrs, clientErrs' = clientErrs
  PROVE  FinishConsistent
<1>1. pendingBids - 1 = 0 /\ buyerBids = {}
  BY DEF UpdatePendingBidsState, CrossBarrier
<1>2. OnScoreAdsDone("noScore", adErrs, resp)
  BY <1>1 DEF UpdatePendingBidsState, CrossBarrier
<1>3. resp \in RespType  BY DEF TypeOK, RespType
<1>4. resp'.status = "OK" =>
        resp'.body /\ resp'.chaff = ("noScore" # "winner")
  BY <1>2, <1>3, OnScoreAdsDoneOk
<1>5. resp'.status = "OK" => resp'.body /\ resp'.chaff  BY <1>4
<1>. QED  BY <1>5, Zenon DEF FinishConsistent

\* Past the fan-out loop no error has been accumulated.
LEMMA NoErrorsPastLoop ==
  ASSUME ErrorsExit, mainPc = "loop" \/ loopIdx # 1
  PROVE  adErrs = {} /\ clientErrs = {}
BY DEF ErrorsExit

\* The step that calls Finish builds a response that agrees with the errors
\* and the bids.
LEMMA FinishingStep ==
  ASSUME SInv, [Next]_vars, finishCalls = 0, finishCalls' # 0
  PROVE  FinishConsistent
<1>0. IInv /\ TypeOK /\ ErrorsExit /\ ScoringHasBids  BY DEF SInv, RInv, IInv
<1>1. CASE Execute
  <2>. DEFINE dec == IF MalformedSeen THEN {"MalformedBuyerInput"} ELSE {}
              cls == IF dec = {} THEN ValidationErrors ELSE dec
              r0 == IF AdServerErrors # {} THEN resp
                    ELSE MayPopulateClientVisibleErrors(resp, cls)
  <2>1. resp \in RespType  BY <1>0 DEF TypeOK, RespType
  <2>2. CASE EnableEncryption /\ req.decrypt # "ok"
    <3>1. resp' = [resp EXCEPT !.status = "INVALID_ARGUMENT"]
      BY <1>1, <2>2 DEF Execute, Finish
    <3>2. resp'.status = "INVALID_ARGUMENT"  BY <2>1, <3>1 DEF RespType
    <3>. QED  BY <3>2 DEF FinishConsistent
  <2>3. CASE ~(EnableEncryption /\ req.decrypt # "ok") /\ (AdServerErrors # {} \/ cls # {})
    <3>1. /\ OnScoreAdsDone("noScore", AdServerErrors, r0)
          /\ adErrs' = AdServerErrors
          /\ clientErrs' = IF AdServerErrors # {} THEN dec ELSE cls
          /\ bidsList' = bidsList
      BY <1>1, <2>3 DEF Execute
    <3>2. r0 \in RespType  BY <2>1 DEF RespType, MayPopulateClientVisibleErrors
    <3>3. AdServerErrors = {} => r0.clientError = (cls # {})
      BY <2>1 DEF MayPopulateClientVisibleErrors, RespType
    <3>4. /\ AdServerErrors # {} => resp'.status = "INVALID_ARGUMENT"
          /\ resp'.status = "OK" =>
               resp'.body /\ resp'.chaff /\ resp'.clientError = r0.clientError
      BY <3>1, <3>2, OnScoreAdsDoneOk
    <3>5. resp'.status = "OK" => AdServerErrors = {}  BY <3>4
    <3>6. resp'.status = "OK" /\ clientErrs' # {} => resp'.clientError
      BY <3>1, <3>3, <3>4, <3>5
    <3>. QED  BY <3>1, <3>4, <3>6 DEF FinishConsistent
  <2>4. CASE ~(EnableEncryption /\ req.decrypt # "ok") /\ ~(AdServerErrors # {} \/ cls # {})
    BY <1>1, <2>4 DEF Execute
  <2>. QED  BY <2>2, <2>3, <2>4
<1>2. CASE ExecuteLoopStep
  <2>1. adErrs = {} /\ clientErrs = {}
    BY <1>0, <1>2, NoErrorsPastLoop DEF ExecuteLoopStep
  <2>2. UpdatePendingBidsState("main")  BY <1>2 DEF ExecuteLoopStep
  <2>. QED  BY <1>0, <1>2, <2>1, <2>2, UpdateConsistent DEF ExecuteLoopStep
<1>3. ASSUME NEW i \in Idx, OnFetchBidsDoneUpdate(i)  PROVE FinishConsistent
  <2>1. loopIdx > 1  BY <1>0, <1>3, CallBeforeCrossing DEF OnFetchBidsDoneUpdate
  <2>2. adErrs = {} /\ clientErrs = {}  BY <1>0, <2>1, NoErrorsPastLoop
  <2>. QED  BY <1>0, <1>3, <2>2, UpdateConsistent DEF OnFetchBidsDoneUpdate
<1>4. CASE OnFetchScoringSignalsDone
  <2>1. loopIdx > 1  BY <1>0, <1>4, ScoringStage DEF OnFetchScoringSignalsDone
  <2>2. adErrs = {}  BY <1>0, <2>1, NoErrorsPastLoop
  <2>3. resp \in RespType  BY <1>0 DEF TypeOK, RespType
  <2>4. resp' = [resp EXCEPT !.status = "INTERNAL"] /\ adErrs' = adErrs
    BY <1>4 DEF OnFetchScoringSignalsDone, Finish
  <2>. QED  BY <2>2, <2>3, <2>4 DEF RespType, FinishConsistent
<1>5. CASE OnScoreAdsResponse
  <2>1. loopIdx > 1  BY <1>0, <1>5, ScoringStage DEF OnScoreAdsResponse
  <2>2. adErrs = {} /\ clientErrs = {}  BY <1>0, <2>1, NoErrorsPastLoop
  <2>3. bidsList # {}  BY <1>0, <1>5 DEF OnScoreAdsResponse, ScoringHasBids
  <2>4. resp \in RespType  BY <1>0 DEF TypeOK, RespType
  <2>5. PICK result \in {"error", "noScore", "winner"} :
          OnScoreAdsDone(result, adErrs, resp)
    BY <1>5 DEF OnScoreAdsResponse
  <2>. QED  BY <1>5, <2>2, <2>3, <2>4, <2>5, OnScoreAdsDoneOk
            DEF OnScoreAdsResponse, FinishConsistent
<1>6. CASE ~Execute /\ ~ExecuteLoopStep /\ ~OnFetchScoringSignalsDone
           /\ ~OnScoreAdsResponse /\ ~\E i \in Idx : OnFetchBidsDoneUpdate(i)
  <2>1. finishCalls' = finishCalls
    BY <1>6 DEF Next, vars, OnFetchBidsDone, ReleaseBidLock, DebugReportDone,
                OnDone
  <2>. QED  BY <2>1
<1>. QED  BY <1>1, <1>2, <1>3, <1>4, <1>5, <1>6

LEMMA ResponseConsistentPreserved ==
  ASSUME SInv, [Next]_vars, RInv', ErrorsExit'
  PROVE  ResponseConsistent'
<1>0. IInv /\ RInv /\ finishCalls \in Nat  BY DEF SInv, RInv, IInv, TypeOK
<1>1. CASE finishCalls > 0
  <2>1. UNCHANGED <<resp, bidsList>>  BY <1>0, <1>1, IInvFinal
  <2>2. mainPc = "exit"  BY <1>0, <1>1, IInvQuiescent DEF QuiescentAtFinish
  <2>3. UNCHANGED <<req, adErrs, clientErrs, loopIdx>>
    BY <2>2 DEF Next, vars, Execute, ExecuteLoopStep, OnFetchBidsDone,
                OnFetchBidsDoneUpdate, ReleaseBidLock, OnFetchScoringSignalsDone,
                OnScoreAdsResponse, DebugReportDone, OnDone
  <2>. QED  BY <2>1, <2>3 DEF SInv, ResponseConsistent
<1>2. CASE finishCalls = 0 /\ finishCalls' = 0
  <2>1. resp'.status = "NONE"  BY <1>2 DEF RInv, StatusInv
  <2>. QED  BY <2>1 DEF ResponseConsistent, ErrorsExit
<1>3. CASE finishCalls = 0 /\ finishCalls' # 0
  <2>1. FinishConsistent  BY <1>3, FinishingStep
  <2>2. ReplyStep  BY <1>0, StepReply
  <2>3. resp'.status = "OK" => Abstract!OkAllowed  BY <1>3, <2>2 DEF ReplyStep
  <2>4. resp'.status = "OK" => (EnableEncryption => req'.decrypt = "ok")
    BY <2>2, <2>3 DEF ReplyStep, Abstract!OkAllowed
  <2>. QED  BY <2>1, <2>4 DEF ResponseConsistent, FinishConsistent, ErrorsExit
<1>. QED  BY <1>0, <1>1, <1>2, <1>3

-----------------------------------------------------------------------------
(* SInv is inductive.                                                      *)

LEMMA InitSInv == Init => SInv
<1>. SUFFICES ASSUME Init PROVE SInv  OBVIOUS
<1>1. RInv  BY InitRInv
<1>2. BidsSync /\ ScoringHasBids /\ ErrorsExit
  BY DEF Init, BidsSync, ScoringHasBids, ErrorsExit
<1>3. ResponseConsistent  BY DEF Init, ResponseConsistent
<1>. QED  BY <1>1, <1>2, <1>3 DEF SInv

THEOREM SInvInductive == SInv /\ [Next]_vars => SInv'
<1>. SUFFICES ASSUME SInv, [Next]_vars PROVE SInv'  OBVIOUS
<1>1. RInv'  BY RInvInductive DEF SInv
<1>2. IInv  BY DEF SInv, RInv
<1>3. BidsSync'  BY <1>2, BidsSyncPreserved DEF SInv
<1>4. ScoringHasBids'  BY <1>2, ScoringHasBidsPreserved DEF SInv
<1>5. ErrorsExit'  BY <1>2, ErrorsExitPreserved DEF SInv
<1>6. ResponseConsistent'  BY <1>1, <1>5, ResponseConsistentPreserved
<1>. QED  BY <1>1, <1>3, <1>4, <1>5, <1>6 DEF SInv

\* Whatever the early exit of Execute, the order of the callbacks and the
\* outcome of scoring and encryption: an OK response comes from a decrypted
\* request with no ad-server-visible error and has a body; an
\* ad-server-visible error is answered INVALID_ARGUMENT before any buyer is
\* solicited; a client-visible error yields only a chaff response carrying
\* it; and a non-chaff response was scored from some buyer's bids.
THEOREM ResponseConsistentHolds == Spec => []ResponseConsistent
<1>1. SInv => ResponseConsistent  BY DEF SInv
<1>. QED  BY <1>1, InitSInv, SInvInductive, PTL DEF Spec

=============================================================================
