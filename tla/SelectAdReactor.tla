--------------------------- MODULE SelectAdReactor ---------------------------
(***************************************************************************)
(* The seller front-end SelectAd reactor (select_ad_reactor.cc): one       *)
(* instance per SelectAd call.  Execute() decrypts and validates the       *)
(* request, then fans out one GetBids RPC per entry of buyer_list.  Every  *)
(* entry decrements pending_bids_count_ exactly once (at once when it has  *)
(* no buyer input, no client or a failed dispatch, else from the GetBids   *)
(* callback); the thread that takes the count to zero, holding             *)
(* bid_data_mu_, moves buyer_bids_ into buyer_bids_list_ and either        *)
(* finishes with a chaff response or fetches scoring signals and scores    *)
(* the ads.  OnScoreAdsDone builds, encodes, compresses, pads and encrypts *)
(* the response and calls Finish; gRPC later calls OnDone, which deletes   *)
(* the reactor.  Debug-report beacons are fired and not awaited.          *)
(*                                                                         *)
(* Data is abstracted: a buyer is a model value, a GetBids response is     *)
(* "has bids" plus "carries debug URLs", an error message is a kind.       *)
(***************************************************************************)
EXTENDS Naturals, Sequences, FiniteSets

CONSTANTS
  Buyers,            \* interest-group owners (model values)
  BuyerLists,        \* candidate auction_config.buyer_list values
  EnableEncryption,  \* config_.enable_encryption()
  DecryptOutcomes,   \* what DecryptRequest may meet in the ciphertext
  EncodeMayFail,     \* whether Encode (web_utils) may report an error
  DebugReporting     \* whether GetBids responses may carry debug_report_urls

ASSUME BuyersAssumption == IsFiniteSet(Buyers) /\ Buyers # {}
ASSUME BuyerListsAssumption == BuyerLists \subseteq Seq(Buyers)
ASSUME EncryptionAssumption == EnableEncryption \in BOOLEAN
ASSUME EncodeAssumption == EncodeMayFail \in BOOLEAN
ASSUME DebugAssumption == DebugReporting \in BOOLEAN
ASSUME DecryptAssumption ==
  DecryptOutcomes \subseteq {"ok", "empty", "badKeyId", "noKey", "malformed"}

\* What the request carries for one buyer in buyer_input: nothing, a
\* well-formed input, one with no interest groups, or an undecodable one.
InputKinds == {"absent", "valid", "noIG", "malformed"}

\* The SelectAdRequest, fixed for the life of the reactor.
Requests ==
  [ buyerList   : BuyerLists,
    adCfgBad    : BOOLEAN,              \* a MayPopulateAdServerVisibleErrors check other than buyer_list fails
    paFieldsOk  : BOOLEAN,              \* generation_id and publisher_name present
    input       : [Buyers -> InputKinds],
    hasClient   : SUBSET Buyers,        \* buyer_factory.Get returns a client
    decrypt     : DecryptOutcomes ]

Statuses == {"NONE", "OK", "INVALID_ARGUMENT", "INTERNAL", "RPC_ERROR"}

ClientErrorKinds == {"MalformedBuyerInput", "MissingPaField",
                     "MissingBuyerInputs", "NonEmptyBuyerInputMalformed"}
AdServerErrorKinds == {"EmptyBuyerList", "AdServerConfig"}

VARIABLES
  req,            \* request_, immutable
  mainPc,         \* the thread running Execute: "start", "loop" or "exit"
  loopIdx,        \* position in buyer_list of the Execute loop
  buyerInputs,    \* keys of buyer_inputs_
  clientErrs,     \* error_accumulator_ CLIENT_VISIBLE messages
  adErrs,         \* error_accumulator_ AD_SERVER_VISIBLE messages
  pendingBids,    \* pending_bids_count_
  calls,          \* buyer_list positions whose GetBids callback is due
  delivered,      \* callbacks past the insertion, before UpdatePendingBidsState
  buyerBids,      \* keys of buyer_bids_
  debugBids,      \* buyers of buyer_bids_ whose bids carry debug_report_urls
  bidsList,       \* keys of buyer_bids_list_
  crossed,        \* pending_bids_count_ has been taken to zero
  lockOwner,      \* thread holding bid_data_mu_ across the zero crossing
  signalsPending, \* scoring-signals fetch outstanding
  scoringPending, \* ScoreAds RPC outstanding
  resp,           \* response_ and the status handed to Finish
  finishCalls,    \* number of Finish calls
  reports,        \* debug-report callbacks not yet run
  deleted,        \* OnDone has deleted the reactor
  aborted,        \* the process aborted on a failed StatusOr dereference
  bidReturned     \* history: buyers whose GetBids answered with bids

vars == <<req, mainPc, loopIdx, buyerInputs, clientErrs, adErrs, pendingBids,
          calls, delivered, buyerBids, debugBids, bidsList, crossed,
          lockOwner, signalsPending, scoringPending, resp, finishCalls,
          reports, deleted, aborted, bidReturned>>

BuyerList == req.buyerList
Idx == 1 .. Len(BuyerList)
\* Every buyer_list position of any request.
AllIdx == UNION {DOMAIN l : l \in BuyerLists}

-----------------------------------------------------------------------------
(* Finish(status) of the gRPC unary reactor.                               *)
Finish(status) ==
  /\ finishCalls' = finishCalls + 1
  /\ resp' = [resp EXCEPT !.status = status]

\* PopulateRawResponse: the raw response is chaff exactly when there is no
\* winning score; winner fields are abstracted to the presence of a body.
PopulateRawResponse(chaff, r) == [r EXCEPT !.chaff = chaff, !.body = TRUE]

\* MayPopulateClientVisibleErrors: a CLIENT_SIDE error is set on the raw
\* response iff a client-visible error has been accumulated.
MayPopulateClientVisibleErrors(r, cls) == [r EXCEPT !.clientError = (cls # {})]

\* PerformDebugReporting: one beacon per buyer of buyer_bids_list_ whose
\* bids carry debug_report_urls; the callbacks are not awaited.
PerformDebugReporting == reports' = reports + Cardinality(bidsList \cap debugBids)

(***************************************************************************)
(* The tail of OnScoreAdsDone once there is something to send:            *)
(* PopulateRawResponse and FinishWithOkStatus without encryption; with it  *)
(* GetNonEncryptedResponse (Encode, GzipCompress, padding) and             *)
(* EncryptResponse, which re-fetches the private key for key_id.  A        *)
(* failing Encode calls FinishWithInternalError and returns an error that  *)
(* the caller then dereferences (encoded_data->data()), aborting.          *)
(***************************************************************************)
\* Mutant: a failed GzipCompress finishes but does not return, so the
\* padded result is encrypted and finished a second time.
SendAuctionResultNoReturnAfterCompress(chaff, r) ==
  LET ok == [PopulateRawResponse(chaff, r) EXCEPT !.status = "OK"] IN
  IF ~EnableEncryption
  THEN /\ finishCalls' = finishCalls + 1
       /\ resp' = ok
       /\ UNCHANGED aborted
  ELSE \E encodeOk \in IF EncodeMayFail THEN BOOLEAN ELSE {TRUE},
          compressOk, keyFound, encapsulateOk \in BOOLEAN :
       /\ finishCalls' = finishCalls + (IF encodeOk /\ ~compressOk THEN 2 ELSE 1)
       /\ resp' = IF encodeOk /\ keyFound /\ encapsulateOk
                  THEN ok ELSE [r EXCEPT !.status = "INTERNAL"]
       /\ aborted' = ~encodeOk

\* Mutant: EncryptResponse returns false on a missing key without Finish.
SendAuctionResultNoFinishOnMissingKey(chaff, r) ==
  LET ok == [PopulateRawResponse(chaff, r) EXCEPT !.status = "OK"] IN
  IF ~EnableEncryption
  THEN /\ finishCalls' = finishCalls + 1
       /\ resp' = ok
       /\ UNCHANGED aborted
  ELSE \E encodeOk \in IF EncodeMayFail THEN BOOLEAN ELSE {TRUE},
          compressOk, keyFound, encapsulateOk \in BOOLEAN :
       /\ finishCalls' = finishCalls +
                          (IF encodeOk /\ compressOk /\ ~keyFound THEN 0 ELSE 1)
       /\ resp' = IF encodeOk /\ compressOk /\ keyFound /\ encapsulateOk
                  THEN ok ELSE [r EXCEPT !.status = "INTERNAL"]
       /\ aborted' = ~encodeOk

SendAuctionResult(chaff, r) ==
  LET ok == [PopulateRawResponse(chaff, r) EXCEPT !.status = "OK"] IN
  IF ~EnableEncryption
  THEN /\ finishCalls' = finishCalls + 1
       /\ resp' = ok
       /\ UNCHANGED aborted
  ELSE \E encodeOk \in IF EncodeMayFail THEN BOOLEAN ELSE {TRUE},
          compressOk, keyFound, encapsulateOk \in BOOLEAN :
       /\ finishCalls' = finishCalls + 1
       /\ resp' = IF encodeOk /\ compressOk /\ keyFound /\ encapsulateOk
                  THEN ok ELSE [r EXCEPT !.status = "INTERNAL"]
       /\ aborted' = ~encodeOk

(***************************************************************************)
(* OnScoreAdsDone(result), with ads the AD_SERVER_VISIBLE errors and r the *)
(* response so far: result is "error" (a failed ScoreAds status),          *)
(* "noScore" (no ad_score or buyer_bid <= 0, and the empty                 *)
(* ScoreAdsResponse of the early exits) or "winner".                       *)
(***************************************************************************)
\* Mutant: the HaveAdServerVisibleErrors check is missing.
OnScoreAdsDoneNoAdServerCheck(result, ads, r) ==
  IF result = "error"
  THEN /\ finishCalls' = finishCalls + 1
       /\ resp' = [r EXCEPT !.status = "RPC_ERROR"]
       /\ UNCHANGED <<reports, aborted>>
  ELSE /\ PerformDebugReporting
       /\ SendAuctionResult(result # "winner", r)

OnScoreAdsDone(result, ads, r) ==
  IF ads # {}
  THEN /\ finishCalls' = finishCalls + 1
       /\ resp' = [r EXCEPT !.status = "INVALID_ARGUMENT"]
       /\ UNCHANGED <<reports, aborted>>
  ELSE IF result = "error"
  THEN /\ finishCalls' = finishCalls + 1
       /\ resp' = [r EXCEPT !.status = "RPC_ERROR"]
       /\ UNCHANGED <<reports, aborted>>
  ELSE /\ PerformDebugReporting
       /\ SendAuctionResult(result # "winner", r)

(***************************************************************************)
(* UpdatePendingBidsState, run by thread t under bid_data_mu_: decrement;  *)
(* at zero move buyer_bids_ to buyer_bids_list_ and either finish with     *)
(* chaff (no bids) or start FetchScoringSignals, still holding the lock.   *)
(***************************************************************************)
CrossBarrier(t) ==
  /\ crossed' = TRUE
  /\ lockOwner' = t
  /\ bidsList' = buyerBids
  /\ IF buyerBids = {}
     THEN /\ OnScoreAdsDone("noScore", adErrs, resp)
          /\ UNCHANGED signalsPending
     ELSE /\ signalsPending' = TRUE
          /\ UNCHANGED <<resp, finishCalls, reports, aborted>>

\* Mutant: the crossing is tested against 1 instead of 0.
UpdatePendingBidsStateAtOne(t) ==
  /\ pendingBids' = pendingBids - 1
  /\ IF pendingBids - 1 <= 1
     THEN CrossBarrier(t)
     ELSE UNCHANGED <<crossed, lockOwner, bidsList, signalsPending, resp,
                      finishCalls, reports, aborted>>

UpdatePendingBidsState(t) ==
  /\ pendingBids' = pendingBids - 1
  /\ IF pendingBids - 1 = 0
     THEN CrossBarrier(t)
     ELSE UNCHANGED <<crossed, lockOwner, bidsList, signalsPending, resp,
                      finishCalls, reports, aborted>>

-----------------------------------------------------------------------------
Init ==
  /\ req \in Requests
  /\ mainPc = "start"
  /\ loopIdx = 1
  /\ buyerInputs = {}
  /\ clientErrs = {}
  /\ adErrs = {}
  /\ pendingBids = Len(req.buyerList)
  /\ calls = {}
  /\ delivered = {}
  /\ buyerBids = {}
  /\ debugBids = {}
  /\ bidsList = {}
  /\ crossed = FALSE
  /\ lockOwner = "none"
  /\ signalsPending = FALSE
  /\ scoringPending = FALSE
  /\ resp = [status |-> "NONE", chaff |-> FALSE, clientError |-> FALSE,
             body |-> FALSE]
  /\ finishCalls = 0
  /\ reports = 0
  /\ deleted = FALSE
  /\ aborted = FALSE
  /\ bidReturned = {}

\* Buyer inputs as decoded: without encryption from the raw input; with it,
\* GetDecodedProtectedAudienceInput returns a default ProtectedAudienceInput,
\* so there are none.  DecodeBuyerInputs drops the malformed ones.
DecodedInputs ==
  IF EnableEncryption THEN {}
  ELSE {b \in Buyers : req.input[b] \in {"valid", "noIG"}}

MalformedSeen ==
  ~EnableEncryption /\ \E b \in Buyers : req.input[b] = "malformed"

\* MayPopulateAdServerVisibleErrors.
AdServerErrors ==
  (IF Len(BuyerList) = 0 THEN {"EmptyBuyerList"} ELSE {})
  \cup (IF req.adCfgBad THEN {"AdServerConfig"} ELSE {})

\* ValidateProtectedAudienceInput, given the decoded inputs.
ValidationErrors ==
  LET paOk == ~EnableEncryption /\ req.paFieldsOk
  IN  (IF paOk THEN {} ELSE {"MissingPaField"})
      \cup (IF DecodedInputs = {} THEN {"MissingBuyerInputs"}
            ELSE IF \A b \in DecodedInputs : req.input[b] = "noIG"
                 THEN {"NonEmptyBuyerInputMalformed"} ELSE {})

(***************************************************************************)
(* Execute up to the fan-out loop: DecryptRequest (with encryption),       *)
(* decoding, ad-server-visible checks, protected-audience validation; any  *)
(* error ends the request through Finish or OnScoreAdsDone.                *)
(***************************************************************************)
Execute ==
  /\ mainPc = "start"
  /\ ~aborted
  /\ IF EnableEncryption /\ req.decrypt # "ok"
     THEN /\ Finish("INVALID_ARGUMENT")
          /\ mainPc' = "exit"
          /\ UNCHANGED <<buyerInputs, clientErrs, adErrs, reports, aborted>>
     ELSE LET dec == IF MalformedSeen THEN {"MalformedBuyerInput"} ELSE {}
              ads == AdServerErrors
              cls == IF dec = {} THEN ValidationErrors ELSE dec
          IN /\ buyerInputs' = DecodedInputs
             /\ adErrs' = ads
             /\ clientErrs' = IF ads # {} THEN dec ELSE cls
             /\ IF ads # {} \/ cls # {}
                THEN /\ mainPc' = "exit"
                     /\ OnScoreAdsDone("noScore", ads,
                          IF ads # {} THEN resp
                          ELSE MayPopulateClientVisibleErrors(resp, cls))
                ELSE /\ mainPc' = IF Len(BuyerList) = 0 THEN "exit" ELSE "loop"
                     /\ UNCHANGED <<resp, finishCalls, reports, aborted>>
  /\ UNCHANGED <<req, loopIdx, pendingBids, calls, delivered, buyerBids,
                 debugBids, bidsList, crossed, lockOwner, signalsPending,
                 scoringPending, deleted, bidReturned>>

(***************************************************************************)
(* One iteration of the Execute loop over buyer_list: FetchBid when the    *)
(* buyer has an input and a client and the dispatch succeeds; otherwise    *)
(* (no input, no client, or buyer_client->Execute failing)                 *)
(* UpdatePendingBidsState on this thread.                                  *)
(***************************************************************************)
ExecuteLoopStep ==
  /\ mainPc = "loop"
  /\ ~aborted
  /\ LET i == loopIdx
         b == BuyerList[i]
     IN /\ loopIdx' = i + 1
        /\ mainPc' = IF i = Len(BuyerList) THEN "exit" ELSE "loop"
        /\ \/ /\ b \in buyerInputs
              /\ b \in req.hasClient
              /\ calls' = calls \cup {i}
              /\ UNCHANGED <<pendingBids, crossed, lockOwner, bidsList,
                             signalsPending, resp, finishCalls, reports, aborted>>
           \/ /\ lockOwner = "none"
              /\ UpdatePendingBidsState("main")
              /\ UNCHANGED calls
  /\ UNCHANGED <<req, buyerInputs, clientErrs, adErrs, delivered, buyerBids,
                 debugBids, scoringPending, deleted, bidReturned>>

\* What a GetBids callback may deliver.
BidOutcomes ==
  IF DebugReporting THEN {"bidsDebug", "bids", "empty", "error"}
  ELSE {"bids", "empty", "error"}

(***************************************************************************)
(* The critical section of OnFetchBidsDone: a non-empty response is        *)
(* try_emplace'd into buyer_bids_ (a repeated buyer keeps its first        *)
(* response); bidReturned records what the buyer answered.                 *)
(***************************************************************************)
\* Mutant: the emptiness test on the bids is inverted.
RecordBidsInverted(b, outcome) ==
  LET hasBids == outcome \in {"bidsDebug", "bids"}
  IN /\ IF outcome = "empty" /\ b \notin buyerBids
        THEN /\ buyerBids' = buyerBids \cup {b}
             /\ UNCHANGED debugBids
        ELSE UNCHANGED <<buyerBids, debugBids>>
     /\ bidReturned' = IF hasBids THEN bidReturned \cup {b} ELSE bidReturned

RecordBids(b, outcome) ==
  LET hasBids == outcome \in {"bidsDebug", "bids"}
  IN /\ IF hasBids /\ b \notin buyerBids
        THEN /\ buyerBids' = buyerBids \cup {b}
             /\ debugBids' = IF outcome = "bidsDebug"
                             THEN debugBids \cup {b} ELSE debugBids
        ELSE UNCHANGED <<buyerBids, debugBids>>
     /\ bidReturned' = IF hasBids THEN bidReturned \cup {b} ELSE bidReturned

\* Mutant: a failed GetBids logs and returns without UpdatePendingBidsState.
OnFetchBidsDoneReturnOnError(i) ==
  /\ i \in calls
  /\ ~aborted
  /\ \E outcome \in BidOutcomes :
       /\ outcome # "error" => lockOwner = "none"
       /\ RecordBids(BuyerList[i], outcome)
       /\ delivered' = IF outcome = "error" THEN delivered
                       ELSE delivered \cup {i}
  /\ calls' = calls \ {i}
  /\ UNCHANGED <<req, mainPc, loopIdx, buyerInputs, clientErrs, adErrs,
                 pendingBids, bidsList, crossed, lockOwner, signalsPending,
                 scoringPending, resp, finishCalls, reports, deleted, aborted>>

\* OnFetchBidsDone up to its call of UpdatePendingBidsState; a failed RPC
\* (its deadline included) takes no lock.
OnFetchBidsDone(i) ==
  /\ i \in calls
  /\ ~aborted
  /\ \E outcome \in BidOutcomes :
       /\ outcome # "error" => lockOwner = "none"
       /\ RecordBids(BuyerList[i], outcome)
  /\ calls' = calls \ {i}
  /\ delivered' = delivered \cup {i}
  /\ UNCHANGED <<req, mainPc, loopIdx, buyerInputs, clientErrs, adErrs,
                 pendingBids, bidsList, crossed, lockOwner, signalsPending,
                 scoringPending, resp, finishCalls, reports, deleted, aborted>>

\* Mutant: the callback's decrement can run twice.
OnFetchBidsDoneUpdateTwice(i) ==
  /\ i \in delivered
  /\ ~aborted
  /\ lockOwner = "none"
  /\ UpdatePendingBidsState("callback")
  /\ UNCHANGED <<req, mainPc, loopIdx, buyerInputs, clientErrs, adErrs, calls,
                 delivered, buyerBids, debugBids, scoringPending, deleted,
                 bidReturned>>

\* The tail of OnFetchBidsDone: UpdatePendingBidsState on the callback thread.
OnFetchBidsDoneUpdate(i) ==
  /\ i \in delivered
  /\ ~aborted
  /\ lockOwner = "none"
  /\ UpdatePendingBidsState("callback")
  /\ delivered' = delivered \ {i}
  /\ UNCHANGED <<req, mainPc, loopIdx, buyerInputs, clientErrs, adErrs, calls,
                 buyerBids, debugBids, scoringPending, deleted, bidReturned>>

\* The MutexLock of UpdatePendingBidsState goes out of scope: bid_data_mu_
\* is unlocked, after the zero crossing's stage has run under it.
ReleaseBidLock ==
  /\ lockOwner # "none"
  /\ ~aborted
  /\ lockOwner' = "none"
  /\ UNCHANGED <<req, mainPc, loopIdx, buyerInputs, clientErrs, adErrs,
                 pendingBids, calls, delivered, buyerBids, debugBids, bidsList,
                 crossed, signalsPending, scoringPending, resp, finishCalls,
                 reports, deleted, aborted, bidReturned>>

(***************************************************************************)
(* OnFetchScoringSignalsDone then ScoreAds: a failed fetch only leaves     *)
(* scoring_signals_ null; a failed ScoreAds dispatch finishes INTERNAL and *)
(* the scoring client does not call back.                                  *)
(***************************************************************************)
\* Mutant: the scoring client calls back even though Execute failed.
OnFetchScoringSignalsDoneBoth ==
  /\ signalsPending
  /\ ~aborted
  /\ signalsPending' = FALSE
  /\ scoringPending' = TRUE
  /\ \/ UNCHANGED <<resp, finishCalls>>
     \/ Finish("INTERNAL")
  /\ UNCHANGED <<req, mainPc, loopIdx, buyerInputs, clientErrs, adErrs,
                 pendingBids, calls, delivered, buyerBids, debugBids, bidsList,
                 crossed, lockOwner, reports, deleted, aborted, bidReturned>>

OnFetchScoringSignalsDone ==
  /\ signalsPending
  /\ ~aborted
  /\ signalsPending' = FALSE
  /\ \/ /\ scoringPending' = TRUE
        /\ UNCHANGED <<resp, finishCalls>>
     \/ /\ Finish("INTERNAL")
        /\ UNCHANGED scoringPending
  /\ UNCHANGED <<req, mainPc, loopIdx, buyerInputs, clientErrs, adErrs,
                 pendingBids, calls, delivered, buyerBids, debugBids, bidsList,
                 crossed, lockOwner, reports, deleted, aborted, bidReturned>>

\* The ScoreAds callback: OnScoreAdsDone with the RPC's result.
OnScoreAdsResponse ==
  /\ scoringPending
  /\ ~aborted
  /\ scoringPending' = FALSE
  /\ \E result \in {"error", "noScore", "winner"} :
       OnScoreAdsDone(result, adErrs, resp)
  /\ UNCHANGED <<req, mainPc, loopIdx, buyerInputs, clientErrs, adErrs,
                 pendingBids, calls, delivered, buyerBids, debugBids, bidsList,
                 crossed, lockOwner, signalsPending, deleted, bidReturned>>

\* A debug-report done_cb runs; it logs through the captured &logger_.
DebugReportDone ==
  /\ reports > 0
  /\ ~aborted
  /\ reports' = reports - 1
  /\ UNCHANGED <<req, mainPc, loopIdx, buyerInputs, clientErrs, adErrs,
                 pendingBids, calls, delivered, buyerBids, debugBids, bidsList,
                 crossed, lockOwner, signalsPending, scoringPending, resp,
                 finishCalls, deleted, aborted, bidReturned>>

\* The method handler has returned: Execute is over and its loop's last
\* UpdatePendingBidsState has released bid_data_mu_.  gRPC's callback unary
\* handler runs OnDone only after that (SetupReactor, then the reactor's
\* completion), never while Execute is still on the main thread's stack.
HandlerReturned == mainPc = "exit" /\ lockOwner # "main"

\* Mutant: OnDone runs on a call that has not been finished (a cancelled
\* RPC whose reactor is released early).
OnDoneUnfinished ==
  /\ HandlerReturned
  /\ ~deleted
  /\ ~aborted
  /\ deleted' = TRUE
  /\ UNCHANGED <<req, mainPc, loopIdx, buyerInputs, clientErrs, adErrs,
                 pendingBids, calls, delivered, buyerBids, debugBids, bidsList,
                 crossed, lockOwner, signalsPending, scoringPending, resp,
                 finishCalls, reports, aborted, bidReturned>>

\* gRPC calls OnDone once the RPC has finished and the handler has
\* returned: delete this.
OnDone ==
  /\ finishCalls > 0
  /\ HandlerReturned
  /\ ~deleted
  /\ ~aborted
  /\ deleted' = TRUE
  /\ UNCHANGED <<req, mainPc, loopIdx, buyerInputs, clientErrs, adErrs,
                 pendingBids, calls, delivered, buyerBids, debugBids, bidsList,
                 crossed, lockOwner, signalsPending, scoringPending, resp,
                 finishCalls, reports, aborted, bidReturned>>

Next ==
  \/ Execute
  \/ ExecuteLoopStep
  \/ \E i \in Idx : OnFetchBidsDone(i) \/ OnFetchBidsDoneUpdate(i)
  \/ ReleaseBidLock
  \/ OnFetchScoringSignalsDone
  \/ OnScoreAdsResponse
  \/ DebugReportDone
  \/ OnDone

(***************************************************************************)
(* Fairness: every thread that can run eventually runs.  The buyer and     *)
(* scoring clients invoke each callback exactly once (at the latest at its *)
(* deadline), the HTTP fetcher runs every done callback once, and gRPC     *)
(* calls OnDone after Finish.                                              *)
(***************************************************************************)
Fairness ==
  /\ WF_vars(Execute)
  /\ WF_vars(ExecuteLoopStep)
  /\ \A i \in AllIdx : WF_vars(OnFetchBidsDone(i)) /\ WF_vars(OnFetchBidsDoneUpdate(i))
  /\ WF_vars(ReleaseBidLock)
  /\ WF_vars(OnFetchScoringSignalsDone)
  /\ WF_vars(OnScoreAdsResponse)
  /\ WF_vars(DebugReportDone)
  /\ WF_vars(OnDone)

Spec == Init /\ [][Next]_vars /\ Fairness

-----------------------------------------------------------------------------
(* Properties.                                                             *)

TypeOK ==
  /\ req \in Requests
  /\ mainPc \in {"start", "loop", "exit"}
  /\ loopIdx \in 1 .. Len(BuyerList) + 1
  /\ buyerInputs \subseteq Buyers
  /\ clientErrs \subseteq ClientErrorKinds
  /\ adErrs \subseteq AdServerErrorKinds
  /\ pendingBids \in 0 .. Len(BuyerList)
  /\ calls \subseteq Idx
  /\ delivered \subseteq Idx
  /\ buyerBids \subseteq Buyers
  /\ debugBids \subseteq buyerBids
  /\ bidsList \subseteq Buyers
  /\ crossed \in BOOLEAN
  /\ lockOwner \in {"none", "main", "callback"}
  /\ signalsPending \in BOOLEAN
  /\ scoringPending \in BOOLEAN
  /\ resp \in [status : Statuses, chaff : BOOLEAN, clientError : BOOLEAN,
               body : BOOLEAN]
  /\ finishCalls \in Nat
  /\ reports \in Nat
  /\ deleted \in BOOLEAN
  /\ aborted \in BOOLEAN
  /\ bidReturned \subseteq Buyers

\* The single-response contract of the unary reactor: whatever order the
\* GetBids, scoring-signals and ScoreAds callbacks run in, and whichever
\* early exit of Execute or OnScoreAdsDone is taken, Finish is called at most
\* once.
FinishAtMostOnce == finishCalls <= 1

\* When Finish is called no GetBids, scoring-signals or ScoreAds callback is
\* still due and the Execute loop is over, so none of them can run on a
\* reactor that gRPC is about to delete.
QuiescentAtFinish ==
  finishCalls > 0 =>
    /\ mainPc = "exit"
    /\ calls = {}
    /\ delivered = {}
    /\ ~signalsPending
    /\ ~scoringPending

\* The buyer_list entries that still owe their decrement: positions the
\* Execute loop has not reached, GetBids calls in flight, and callbacks past
\* their insertion but before UpdatePendingBidsState.
Outstanding == {i \in Idx : i >= loopIdx} \cup calls \cup delivered

\* Every buyer_list entry decrements pending_bids_count_ exactly once, on
\* whichever path it takes (no input, no client, failed dispatch, failed or
\* successful GetBids): the count always equals the entries outstanding.
PendingAccounted == pendingBids = Cardinality(Outstanding)

\* pending_bids_count_ reaches zero only after every buyer_list entry has
\* been accounted for, and buyer_bids_list_ then holds exactly the buyers
\* whose GetBids answered with bids: no bid is lost to a callback that
\* inserts after the crossing, and no buyer without bids is scored.
BarrierSound ==
  crossed =>
    /\ pendingBids = 0
    /\ calls = {} /\ delivered = {}
    /\ bidsList = bidReturned

\* The two error channels of OnScoreAdsDone and Execute: an OK status needs
\* a decrypted request and no ad-server-visible error; an ad-server-visible
\* error means no buyer was solicited and the status is INVALID_ARGUMENT; a
\* client-visible error means no buyer was solicited and any OK response is
\* chaff carrying the error; a non-chaff response needs some buyer's bids.
ResponseConsistent ==
  /\ resp.status = "OK" =>
       /\ adErrs = {}
       /\ EnableEncryption => req.decrypt = "ok"
       /\ resp.body
  /\ adErrs # {} =>
       /\ loopIdx = 1
       /\ resp.status \in {"NONE", "INVALID_ARGUMENT"}
  /\ clientErrs # {} =>
       /\ loopIdx = 1
       /\ resp.status = "OK" => resp.chaff /\ resp.clientError
  /\ resp.status = "OK" /\ ~resp.chaff => bidsList # {}

\* After Finish nothing changes the response, the collected bids or the
\* barrier: late work cannot alter what was sent.
FinalAfterFinish ==
  [][finishCalls > 0 =>
       UNCHANGED <<resp, bidsList, buyerBids, pendingBids, finishCalls>>]_vars

\* Every request ends: Finish is called, gRPC deletes the reactor and every
\* debug-report callback has run.
Termination == <>(deleted /\ reports = 0 /\ lockOwner = "none")

\* The safety half of Termination: until Finish is called, some thread still
\* has work for the request (Execute or its loop, a GetBids callback, the
\* scoring-signals fetch or ScoreAds).  A decrement lost on one of the
\* callback paths would leave pending_bids_count_ above zero with nothing
\* left to take it down, and the RPC would hang without a response.
NoStall ==
  finishCalls = 0 =>
    \/ mainPc # "exit"
    \/ calls # {} \/ delivered # {}
    \/ signalsPending \/ scoringPending

\* PerformDebugReporting's done_cb captures &logger_, a member of the
\* reactor: every such callback must have run before OnDone deletes it.
ReportsDrainedBeforeDelete == deleted => reports = 0

\* UpdatePendingBidsState's MutexLock unlocks bid_data_mu_, a member of the
\* reactor: the lock must be released before OnDone deletes it.
UnlockedBeforeDelete == deleted => lockOwner = "none"

\* The process does not abort while handling a request.
NoAbort == ~aborted

\* Spec section 7: a malformed buyer input is a client-visible error with
\* partial success allowed, so a request with a well-formed input for a
\* listed buyer and no ad-server-visible error still solicits bids.
PartialSuccess ==
  (/\ mainPc = "exit"
   /\ adErrs = {}
   /\ req.paFieldsOk
   /\ \E i \in Idx : req.input[BuyerList[i]] = "valid")
  => loopIdx > 1


(***************************************************************************)
(* The reactor implements OneResponse: the request is the request, the     *)
(* reply's status is the status Finish gave response_ ("NONE" before), and *)
(* the release is OnDone.                                                  *)
(***************************************************************************)
Abstract == INSTANCE OneResponse
              WITH aReq <- req, aStatus <- resp.status, aDeleted <- deleted

\* Whatever the buyers, the callbacks and their order, the reactor answers
\* each SelectAd request exactly once, answers OK only to a request that
\* decrypted and passed the ad-server-visible checks, and is deleted by
\* OnDone only after Finish; and every request is answered and released.
OneResponseRefined == Abstract!Spec

(***************************************************************************)
(* The fan-out implements BidCollection: the positions still owing their   *)
(* decrement are the unsettled ones, the buyers that answered with bids    *)
(* are the gathered ones, the zero crossing is the close, and              *)
(* buyer_bids_list_ is the collection.                                     *)
(***************************************************************************)
Collection == INSTANCE BidCollection
                WITH list <- req.buyerList, pending <- Outstanding,
                     gathered <- bidReturned, closed <- crossed,
                     collected <- bidsList

\* However the Execute loop and the GetBids callbacks interleave, each
\* buyer_list entry decrements pending_bids_count_ once, the decrement of
\* the last one (and only it) crosses the barrier, and the crossing hands
\* scoring exactly the buyers that answered with bids; no bid is recorded
\* after the crossing.
BidsCollected == Collection!SafeSpec

=============================================================================
