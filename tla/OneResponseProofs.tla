-------------------------- MODULE OneResponseProofs --------------------------
(***************************************************************************)
(* The reactor implements the safety part of OneResponse under the mapping *)
(* of SelectAdReactor (aStatus <- resp.status, aDeleted <- deleted).       *)
(*                                                                         *)
(* Three facts carry the proof besides IInv.  StatusInv: response_ has a   *)
(* status exactly when Finish has been called.  Solicited: once Execute    *)
(* has entered the fan-out loop, the request decrypted and passed the      *)
(* ad-server-visible checks, so a reply sent from a later stage may be OK. *)
(* ReplyStep: every step leaves the status alone, makes the one Finish     *)
(* (with a status that is OK only if allowed), or is OnDone after Finish.  *)
(***************************************************************************)
EXTENDS SelectAdReactorProofs

Solicited == (mainPc = "loop" \/ loopIdx > 1) => Abstract!OkAllowed

StatusInv == (resp.status = "NONE") <=> (finishCalls = 0)

RInv == IInv /\ Solicited /\ StatusInv

\* What one step of the reactor does to the abstract state.
ReplyStep ==
  /\ req' = req
  /\ \/ /\ finishCalls' = finishCalls /\ resp'.status = resp.status
        /\ deleted' = deleted
     \/ /\ finishCalls' = finishCalls + 1 /\ deleted' = deleted
        /\ resp'.status \in Abstract!Replies
        /\ resp'.status = "OK" => Abstract!OkAllowed
     \/ /\ finishCalls' = finishCalls /\ resp'.status = resp.status
        /\ finishCalls > 0 /\ ~deleted /\ deleted' = TRUE

-----------------------------------------------------------------------------
(* The statuses the finishing operators give.                              *)

\* The response-sending tail replies OK or, on any failure, INTERNAL.
LEMMA SendAuctionResultReply ==
  ASSUME NEW chaff \in BOOLEAN, NEW r \in RespType, SendAuctionResult(chaff, r)
  PROVE  resp'.status \in {"OK", "INTERNAL"}
<1>1. CASE ~EnableEncryption
  BY <1>1 DEF SendAuctionResult, PopulateRawResponse, RespType
<1>2. CASE EnableEncryption
  <2>. PICK encodeOk \in BOOLEAN, compressOk \in BOOLEAN, keyFound \in BOOLEAN,
            encapsulateOk \in BOOLEAN :
         resp' = IF encodeOk /\ compressOk /\ keyFound /\ encapsulateOk
                 THEN [PopulateRawResponse(chaff, r) EXCEPT !.status = "OK"]
                 ELSE [r EXCEPT !.status = "INTERNAL"]
    BY <1>2 DEF SendAuctionResult
  <2>. QED  BY DEF PopulateRawResponse, RespType
<1>. QED  BY <1>1, <1>2

\* OnScoreAdsDone replies OK only when no ad-server-visible error was given.
LEMMA OnScoreAdsDoneReply ==
  ASSUME NEW result, NEW ads, NEW r \in RespType, OnScoreAdsDone(result, ads, r)
  PROVE  /\ resp'.status \in Abstract!Replies
         /\ resp'.status = "OK" => ads = {}
<1>1. CASE ads # {}
  BY <1>1 DEF OnScoreAdsDone, RespType, Abstract!Replies
<1>2. CASE ads = {} /\ result = "error"
  BY <1>2 DEF OnScoreAdsDone, RespType, Abstract!Replies
<1>3. CASE ads = {} /\ result # "error"
  <2>1. SendAuctionResult(result # "winner", r)  BY <1>3 DEF OnScoreAdsDone
  <2>2. (result # "winner") \in BOOLEAN  OBVIOUS
  <2>. QED  BY <1>3, <2>1, <2>2, SendAuctionResultReply DEF Abstract!Replies
<1>. QED  BY <1>1, <1>2, <1>3

\* UpdatePendingBidsState on a solicited request: the crossing without
\* bids is the one Finish; otherwise the status is left alone.
LEMMA UpdateReply ==
  ASSUME TypeOK, Abstract!OkAllowed, NEW t, UpdatePendingBidsState(t)
  PROVE  \/ finishCalls' = finishCalls /\ resp'.status = resp.status
         \/ /\ finishCalls' = finishCalls + 1
            /\ resp'.status \in Abstract!Replies
            /\ resp'.status = "OK" => Abstract!OkAllowed
<1>1. resp \in RespType  BY DEF TypeOK, RespType
<1>2. CASE pendingBids - 1 # 0
  BY <1>2 DEF UpdatePendingBidsState
<1>3. CASE pendingBids - 1 = 0 /\ buyerBids = {}
  <2>1. OnScoreAdsDone("noScore", adErrs, resp)
    BY <1>3 DEF UpdatePendingBidsState, CrossBarrier
  <2>. QED  BY <1>1, <2>1, OnScoreAdsDoneFacts, OnScoreAdsDoneReply
<1>4. CASE pendingBids - 1 = 0 /\ buyerBids # {}
  BY <1>4 DEF UpdatePendingBidsState, CrossBarrier
<1>. QED  BY <1>2, <1>3, <1>4


-----------------------------------------------------------------------------
(* Every step is a ReplyStep.                                              *)

\* Execute finishes on a failed decryption or an early exit, with OK only
\* when the ad-server-visible checks passed and the request decrypted.
LEMMA ExecuteReply ==
  ASSUME IInv, Execute
  PROVE  ReplyStep
<1>. DEFINE dec == IF MalformedSeen THEN {"MalformedBuyerInput"} ELSE {}
            cls == IF dec = {} THEN ValidationErrors ELSE dec
            r0 == IF AdServerErrors # {} THEN resp
                  ELSE MayPopulateClientVisibleErrors(resp, cls)
<1>1. req' = req /\ deleted' = deleted  BY DEF Execute
<1>2. resp \in RespType /\ TypeOK  BY DEF IInv, TypeOK, RespType
<1>3. CASE EnableEncryption /\ req.decrypt # "ok"
  <2>1. Finish("INVALID_ARGUMENT")  BY <1>3 DEF Execute
  <2>. QED  BY <1>1, <1>2, <2>1 DEF Finish, RespType, Abstract!Replies, ReplyStep
<1>4. CASE ~(EnableEncryption /\ req.decrypt # "ok") /\ (AdServerErrors # {} \/ cls # {})
  <2>1. OnScoreAdsDone("noScore", AdServerErrors, r0)  BY <1>4 DEF Execute
  <2>2. r0 \in RespType  BY <1>2 DEF RespType, MayPopulateClientVisibleErrors
  <2>3. /\ finishCalls' = finishCalls + 1
        /\ resp'.status \in Abstract!Replies
        /\ resp'.status = "OK" => AdServerErrors = {}
    BY <1>2, <2>1, <2>2, OnScoreAdsDoneFacts, OnScoreAdsDoneReply
  <2>4. AdServerErrors = {} => Abstract!OkAllowed
    <3>1. req \in Requests  BY <1>2 DEF TypeOK
    <3>2. BuyerList \in Seq(Buyers)  BY <3>1, BuyerListType
    <3>. QED  BY <1>4, <3>2 DEF AdServerErrors, Abstract!OkAllowed, BuyerList
  <2>. QED  BY <1>1, <2>3, <2>4 DEF ReplyStep
<1>5. CASE ~(EnableEncryption /\ req.decrypt # "ok") /\ ~(AdServerErrors # {} \/ cls # {})
  BY <1>1, <1>5 DEF Execute, ReplyStep
<1>. QED  BY <1>3, <1>4, <1>5

\* A loop iteration that decrements runs on a solicited request.
LEMMA ExecuteLoopStepReply ==
  ASSUME RInv, ExecuteLoopStep
  PROVE  ReplyStep
<1>1. req' = req /\ deleted' = deleted  BY DEF ExecuteLoopStep
<1>2. Abstract!OkAllowed /\ TypeOK  BY DEF ExecuteLoopStep, RInv, Solicited, IInv
<1>3. CASE UNCHANGED <<resp, finishCalls>>  BY <1>1, <1>3 DEF ReplyStep
<1>4. CASE UpdatePendingBidsState("main")
  BY <1>1, <1>2, <1>4, UpdateReply DEF ReplyStep
<1>. QED  BY <1>3, <1>4 DEF ExecuteLoopStep

\* A callback's decrement runs after the loop has moved past its position.
LEMMA OnFetchBidsDoneUpdateReply ==
  ASSUME RInv, NEW i \in Idx, OnFetchBidsDoneUpdate(i)
  PROVE  ReplyStep
<1>1. req' = req /\ deleted' = deleted  BY DEF OnFetchBidsDoneUpdate
<1>2. loopIdx > 1
  BY DEF OnFetchBidsDoneUpdate, RInv, IInv, StageInv, TypeOK
<1>3. Abstract!OkAllowed /\ TypeOK  BY <1>2 DEF RInv, Solicited, IInv
<1>. QED  BY <1>1, <1>3, UpdateReply DEF OnFetchBidsDoneUpdate, ReplyStep

\* The scoring-signals callback either hands over to ScoreAds or finishes
\* INTERNAL on a failed dispatch.
LEMMA OnFetchScoringSignalsDoneReply ==
  ASSUME OnFetchScoringSignalsDone
  PROVE  ReplyStep
<1>1. req' = req /\ deleted' = deleted  BY DEF OnFetchScoringSignalsDone
<1>2. CASE UNCHANGED <<resp, finishCalls>>  BY <1>1, <1>2 DEF ReplyStep
<1>3. CASE Finish("INTERNAL")
  BY <1>1, <1>3 DEF Finish, ReplyStep, Abstract!Replies
<1>. QED  BY <1>2, <1>3 DEF OnFetchScoringSignalsDone

\* The ScoreAds callback runs only after the barrier was crossed, hence on
\* a solicited request.
LEMMA OnScoreAdsResponseReply ==
  ASSUME RInv, OnScoreAdsResponse
  PROVE  ReplyStep
<1>1. req' = req /\ deleted' = deleted  BY DEF OnScoreAdsResponse
<1>2. loopIdx > 1  BY ScoringStage DEF OnScoreAdsResponse, RInv
<1>3. Abstract!OkAllowed  BY <1>2 DEF RInv, Solicited
<1>4. resp \in RespType /\ TypeOK  BY DEF RInv, IInv, TypeOK, RespType
<1>5. PICK result \in {"error", "noScore", "winner"} :
        OnScoreAdsDone(result, adErrs, resp)
  BY DEF OnScoreAdsResponse
<1>. QED  BY <1>1, <1>3, <1>4, <1>5, OnScoreAdsDoneFacts, OnScoreAdsDoneReply
          DEF ReplyStep

LEMMA StepReply ==
  ASSUME RInv, [Next]_vars
  PROVE  ReplyStep
<1>1. CASE Execute  BY <1>1, ExecuteReply DEF RInv
<1>2. CASE ExecuteLoopStep  BY <1>2, ExecuteLoopStepReply
<1>3. ASSUME NEW i \in Idx, OnFetchBidsDone(i) PROVE ReplyStep
  BY <1>3 DEF OnFetchBidsDone, ReplyStep
<1>4. ASSUME NEW i \in Idx, OnFetchBidsDoneUpdate(i) PROVE ReplyStep
  BY <1>4, OnFetchBidsDoneUpdateReply
<1>5. CASE ReleaseBidLock  BY <1>5 DEF ReleaseBidLock, ReplyStep
<1>6. CASE OnFetchScoringSignalsDone  BY <1>6, OnFetchScoringSignalsDoneReply
<1>7. CASE OnScoreAdsResponse  BY <1>7, OnScoreAdsResponseReply
<1>8. CASE DebugReportDone  BY <1>8 DEF DebugReportDone, ReplyStep
<1>9. CASE OnDone  BY <1>9 DEF OnDone, ReplyStep
<1>10. CASE UNCHANGED vars  BY <1>10 DEF vars, ReplyStep
<1>. QED  BY <1>1, <1>2, <1>3, <1>4, <1>5, <1>6, <1>7, <1>8, <1>9, <1>10 DEF Next

-----------------------------------------------------------------------------
(* RInv is inductive.                                                      *)

LEMMA InitRInv == Init => RInv
<1>. SUFFICES ASSUME Init PROVE RInv  OBVIOUS
<1>1. IInv  BY InitIInv
<1>2. Solicited  BY DEF Init, Solicited
<1>3. StatusInv  BY DEF Init, StatusInv
<1>. QED  BY <1>1, <1>2, <1>3 DEF RInv

\* Execute enters the loop only for a request that decrypted and has no
\* ad-server-visible error; later steps only advance a loop already entered.
LEMMA SolicitedPreserved ==
  ASSUME RInv, [Next]_vars
  PROVE  Solicited'
<1>1. req' = req  BY StepReply DEF ReplyStep
<1>2. Abstract!OkAllowed' = Abstract!OkAllowed  BY <1>1 DEF Abstract!OkAllowed
<1>3. CASE Execute
  <2>1. loopIdx' = 1  BY <1>3 DEF Execute, RInv, IInv, StageInv
  <2>2. mainPc' = "loop" => Abstract!OkAllowed
    <3>1. req \in Requests  BY DEF RInv, IInv, TypeOK
    <3>2. BuyerList \in Seq(Buyers)  BY <3>1, BuyerListType
    <3>3. mainPc' = "loop" =>
            /\ ~(EnableEncryption /\ req.decrypt # "ok")
            /\ AdServerErrors = {}
      BY <1>3 DEF Execute
    <3>. QED  BY <3>2, <3>3 DEF AdServerErrors, Abstract!OkAllowed, BuyerList
  <2>. QED  BY <1>2, <2>1, <2>2 DEF Solicited
<1>4. CASE ExecuteLoopStep
  <2>1. mainPc = "loop"  BY <1>4 DEF ExecuteLoopStep
  <2>. QED  BY <1>2, <2>1 DEF RInv, Solicited
<1>5. CASE ~Execute /\ ~ExecuteLoopStep
  <2>1. mainPc' = mainPc /\ loopIdx' = loopIdx
    BY <1>5 DEF Next, vars, OnFetchBidsDone, OnFetchBidsDoneUpdate,
                ReleaseBidLock, OnFetchScoringSignalsDone, OnScoreAdsResponse,
                DebugReportDone, OnDone
  <2>. QED  BY <1>2, <2>1 DEF RInv, Solicited
<1>. QED  BY <1>3, <1>4, <1>5

\* The status is set exactly by the one Finish.
LEMMA StatusInvPreserved ==
  ASSUME RInv, [Next]_vars
  PROVE  StatusInv'
<1>1. ReplyStep  BY StepReply
<1>2. finishCalls \in Nat  BY DEF RInv, IInv, TypeOK
<1>3. "NONE" \notin Abstract!Replies  BY DEF Abstract!Replies
<1>. QED  BY <1>1, <1>2, <1>3 DEF ReplyStep, RInv, StatusInv

THEOREM RInvInductive == RInv /\ [Next]_vars => RInv'
BY IInvInductive, SolicitedPreserved, StatusInvPreserved DEF RInv

-----------------------------------------------------------------------------
(* The refinement.                                                         *)

\* Every reactor step is a OneResponse step or leaves the request, the
\* reply status and the release unchanged.
LEMMA StepRefines ==
  ASSUME RInv, [Next]_vars
  PROVE  [Abstract!Next]_Abstract!avars
<1>1. ReplyStep  BY StepReply
<1>2. finishCalls \in Nat /\ (finishCalls > 0 => finishCalls' = finishCalls)
  <2>1. finishCalls \in Nat  BY DEF RInv, IInv, TypeOK
  <2>2. finishCalls > 0 => finishCalls' = finishCalls  BY IInvFinal DEF RInv
  <2>. QED  BY <2>1, <2>2
<1>3. CASE /\ finishCalls' = finishCalls /\ resp'.status = resp.status
           /\ deleted' = deleted
  BY <1>1, <1>3 DEF ReplyStep, Abstract!avars
<1>4. CASE /\ finishCalls' = finishCalls + 1 /\ deleted' = deleted
           /\ resp'.status \in Abstract!Replies
           /\ resp'.status = "OK" => Abstract!OkAllowed
  <2>1. resp.status = "NONE"  BY <1>2, <1>4 DEF RInv, StatusInv
  <2>2. Abstract!Respond(resp'.status)
    BY <1>1, <1>4, <2>1 DEF ReplyStep, Abstract!Respond
  <2>. QED  BY <1>4, <2>2 DEF Abstract!Next
<1>5. CASE /\ finishCalls' = finishCalls /\ resp'.status = resp.status
           /\ finishCalls > 0 /\ ~deleted /\ deleted' = TRUE
  <2>1. resp.status # "NONE"  BY <1>5 DEF RInv, StatusInv
  <2>2. Abstract!Release  BY <1>1, <1>5, <2>1 DEF ReplyStep, Abstract!Release
  <2>. QED  BY <2>2 DEF Abstract!Next
<1>. QED  BY <1>1, <1>3, <1>4, <1>5 DEF ReplyStep

\* The SelectAd reactor implements the safety part of OneResponse for every
\* set of buyers, buyer lists and configuration: one reply per request, OK
\* only for a request that decrypted and passed the ad-server-visible
\* checks, and OnDone only after Finish.
THEOREM ImplementsOneResponse == Spec => Abstract!SafeSpec
<1>1. Init => Abstract!Init  BY DEF Init, Abstract!Init
<1>. QED  BY <1>1, InitRInv, RInvInductive, StepRefines, PTL
          DEF Spec, Abstract!SafeSpec
=============================================================================
