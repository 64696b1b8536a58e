# TLA+ models of the seller front-end SelectAd reactor

These modules model `src/services/seller_frontend_service/select_ad_reactor.cc`,
the gRPC unary reactor that serves one `SelectAd` request of the seller
front-end service (SFE). They also list the other parts of `src/` and why
those parts are not modelled.

## 1. The system

### Components and their state

| Component | Code | State it keeps | Operations |
|---|---|---|---|
| Reactor lifecycle | `SelectAdReactor` constructor, `Execute`, `Finish*`, `OnDone`, `OnCancel` | `request_`, `response_`, `pending_bids_count_` (set to `buyer_list_size()`), the gRPC call | Execute, Finish, OnDone (`delete this`), OnCancel (empty TODO) |
| Input decoding and validation | `DecryptRequest`, `GetDecodedBuyerinputs`, `ValidateProtectedAudienceInput`, `MayPopulate*Errors`, `ReportError` | `protected_audience_input_`, `buyer_inputs_`, `error_accumulator_`, `request_context_` (key id) | decrypt, decode, validate; record client-visible and ad-server-visible errors |
| GetBids fan-out and barrier | the `buyer_list` loop of `Execute`, `FetchBid`, `OnFetchBidsDone`, `UpdatePendingBidsState` | `buyer_bids_`, `buyer_bids_list_`, `pending_bids_count_`, `bid_data_mu_` | one GetBids RPC per listed buyer with an input and a client; one decrement per listed buyer; at zero, the crossing |
| Scoring | `FetchScoringSignals`, `OnFetchScoringSignalsDone`, `ScoreAds`, `BuildAdWithBidMetadata` | `scoring_signals_` | signals fetch, ScoreAds RPC, its callback |
| Response | `OnScoreAdsDone`, `GetBiddingGroups`, `PopulateRawResponse`, `GetNonEncryptedResponse`, `EncryptResponse` | `response_` | pick the winner, bidding groups, CBOR encode, gzip, pad, HPKE encapsulation, Finish |
| Debug reporting | `PerformDebugReporting` | none; the `done_cb` callbacks capture `&logger_` | one `DoReport` per bid with debug URLs, not awaited |

Threads: `Execute` runs on the gRPC thread. GetBids, the scoring signals and
ScoreAds call back on client threads. Debug-report callbacks run on the HTTP
client's thread. `bid_data_mu_` guards `buyer_bids_` and
`pending_bids_count_`. The crossing (pending count reaching 0) runs while the
lock is held.

The other files of `src/` are not modelled:
- `request_context.h` (Roma request context) and
  `multi_curl_http_fetcher_async.h` hold declarations only; their bodies are
  not in `src/`.
- JSON, metrics, TCMalloc and benchmarking are out of scope (spec §1).
- The test utilities are test fixtures.

`PROJECT.json` lists every component with its status.

### Hard behaviours, and the properties that make the reactor correct

- **Barrier.** Buyer-list entries decrement `pending_bids_count_` from the
  Execute loop and from callbacks on other threads, while the loop is still
  running.
  - Every entry must decrement exactly once: `PendingAccounted`.
  - The crossing must see every bid: `BarrierSound`.
  - Seen without threads, the fan-out is the abstract `BidCollection`:
    `BidsCollected`.
  - A lost decrement would hang the RPC with no thread left to answer it.
    Until `Finish`, some thread must still have work: `NoStall`.
- **Single response.** Thirteen call sites reach `Finish`. Exactly one of them
  must run on each request: `FinishAtMostOnce`, `FinalAfterFinish`.
- **Quiescence at Finish.** No callback may still be due when `Finish` lets
  gRPC delete the reactor: `QuiescentAtFinish`.
- **The two error channels.**
  - Ad-server-visible errors give INVALID_ARGUMENT.
  - Client-visible errors give a chaff response that carries the error.
  - Property: `ResponseConsistent`.
- **Termination.** Every request is finished and the reactor is deleted:
  `Termination`.
- **The contract.** What the caller sees is the abstract specification
  `OneResponse`: exactly one reply, OK only for an acceptable request, and
  release only after the reply. The reactor implements it:
  `OneResponseRefined`.
- **Padding.** Real and chaff replies must fall into the same size classes.
  The resize must also never truncate. Property: `PaddingMatchesSpec`.
- **Pure data.** Two functions are pure and are checked in their own module:
  - `bidding_groups` must follow the rule of spec §8.6:
    `BiddingGroupsMatchSpec`;
  - the join count that `BuildAdWithBidMetadata` copies:
    `BrowserSignalsFromMatchingIG`.

## 2. Plan

| Order | Module | Models | Status |
|---|---|---|---|
| 1 | `SelectAdReactor` | the reactor's control flow: lifecycle, fan-out, barrier, scoring, response, debug reports | done |
| 2 | `MC_SelectAdReactor` + cfgs | two buyers, buyer lists of length 0 to 3 with repeats | done |
| 3 | `SelectAdReactorProofs` | TLAPS proofs of the safety invariants | done for five properties |
| 4 | `AuctionData`, `MC_AuctionData` | `BuildAdWithBidMetadata`, the `ad_bids` loop, `GetBiddingGroups` | done |
| 5 | `ResponsePadding`, `MC_ResponsePadding` | `max(bit_ceil(n), kMinAuctionResultBytes)`, checked against spec §8.5 | done |
| 6 | `OneResponse` | the abstract "one request, one reply" contract; `SelectAdReactor` refines it (`INSTANCE ... WITH`) | done |
| 7 | `OneResponseProofs`, `ResponseProofs` | TLAPS: the refinement's safety part, `BarrierSound`, `ResponseConsistent` | done |
| 8 | `BidCollection`, `BidCollectionProofs` | the abstract fan-out contract, refined by the reactor; TLAPS: that refinement and `NoStall` | done |
| 9 | `LeastElement` | TLAPS: every non-empty set of naturals has a least element, the induction principle the next two modules use | done |
| 10 | `ResponsePaddingProofs`, `AuctionDataProofs` | TLAPS: `PaddingMatchesSpec` and `BiddingGroupsMatchSpec` for every input | done |

## 3. `SelectAdReactor`: state and actions

Data is abstracted to what the properties tell apart:
- a buyer is a model value;
- a buyer input is one of `absent`, `valid`, `noIG` (no interest groups) or
  `malformed`;
- a GetBids answer is one of `bids`, `bidsDebug`, `empty` or `error`;
- a ScoreAds answer is one of `error`, `noScore` or `winner`;
- the response is its status plus the flags `chaff`, `clientError` and
  `body`.

A request (`req`) fixes:
- the `buyer_list`;
- the input of each buyer;
- which buyers have a client;
- whether the protected-audience fields and the ad-server config are valid;
- the outcome of `DecryptRequest`.

### Variables

| Variable | Code |
|---|---|
| `mainPc`, `loopIdx` | the position of `Execute` and of its `buyer_list` loop |
| `pendingBids` | `pending_bids_count_` |
| `calls`, `delivered` | GetBids RPCs in flight; callbacks between their insertion and their `UpdatePendingBidsState` |
| `buyerBids`, `bidsList` | `buyer_bids_`, `buyer_bids_list_` |
| `lockOwner` | `bid_data_mu_` |
| `signalsPending`, `scoringPending` | the signals and ScoreAds RPCs in flight |
| `finishCalls`, `resp` | calls of `Finish`; `response_` and the status |
| `reports` | debug-report callbacks not yet run |
| `deleted` | `OnDone` has run |
| `aborted` | the process has crashed |

`bidReturned` and `debugBids` are history variables. They record which buyers
answered with bids.

### Actions

| Action | Models |
|---|---|
| `Execute` | decrypt, decode, validate, the early exits |
| `ExecuteLoopStep` | one iteration of the loop, including `FetchBid` |
| `OnFetchBidsDone` | the callback up to its decrement |
| `OnFetchBidsDoneUpdate` | the callback's `UpdatePendingBidsState` |
| `ReleaseBidLock` | the `MutexLock` going out of scope |
| `OnFetchScoringSignalsDone` | that callback plus `ScoreAds` |
| `OnScoreAdsResponse` | the ScoreAds callback |
| `DebugReportDone` | a `done_cb` running |
| `OnDone` | gRPC deleting the reactor; enabled only after `Finish` and once the handler has returned (`HandlerReturned`: `Execute` is over and the main thread holds no lock), since gRPC's callback unary handler runs `OnDone` only after the method handler returns |

Each action models the whole handler:
- the crossing (`CrossBarrier`) runs inside `UpdatePendingBidsState`;
- `OnScoreAdsDone` includes `PerformDebugReporting` and the encrypted tail
  (`SendAuctionResult`), with every failure branch as a nondeterministic
  outcome.

`PROJECT.json` "map" gives the source lines of every definition.

### Abstractions

- `DecodeBuyerInputs` is not under `src/`. `MalformedSeen` is modelled from
  spec §7.
- Debug reports are counted per buyer with debug URLs, not per bid. The
  properties only need to know whether one is outstanding.
- The CBOR bytes and the gzip output are not modelled. Only their success or
  failure is, and, in `ResponsePadding`, the compressed size.

## 3a. `OneResponse` and the refinement

`OneResponse` states what a `SelectAd` caller is promised, with no buyers,
threads or callbacks:
- variables `aReq`, `aStatus` and `aDeleted`;
- `Respond(s)` gives the one reply. `s` is OK only under `OkAllowed`: the
  request decrypted, `buyer_list` is non-empty and the auction config is
  well formed;
- `Release` is gRPC's `OnDone`, after the reply;
- `Spec` adds weak fairness, so every request is answered and released.

`SelectAdReactor` instantiates it as `Abstract` with the refinement mapping
`aReq <- req`, `aStatus <- resp.status` and `aDeleted <- deleted`.
`OneResponseRefined == Abstract!Spec` is a PROPERTY of the `fanout` and
`encrypted` runs. TLC therefore checks both the safety and the liveness of
the refinement on those instances.

## 3b. `BidCollection` and the second refinement

`BidCollection` states what the GetBids fan-out promises, with no threads,
lock or counter:
- `list` is the buyer list;
- `pending` holds the positions not yet settled;
- `gathered` holds the buyers that answered with bids;
- `closed` and `collected` are the close and what it hands to scoring.

It has two actions:
- `Gather(i)`: an unsettled position's buyer answers with bids, before the
  close;
- `Settle(i)`: a position is settled; settling the last one closes the
  collection with `collected = gathered`.

`SelectAdReactor` instantiates it as `Collection` with this mapping:
- `list <- req.buyerList`;
- `pending <- Outstanding`, the positions that still owe their decrement;
- `gathered <- bidReturned`;
- `closed <- crossed`;
- `collected <- bidsList`.

`BidsCollected == Collection!SafeSpec` is a PROPERTY of the `fanout` run.
Under the mapping, each reactor step is a stutter or one abstract step:
- the loop's `FetchBid` and the callback's insertion keep `Outstanding`
  unchanged;
- an insertion of a buyer with bids is a `Gather`;
- each `UpdatePendingBidsState` is a `Settle`.

## 3c. `ResponsePadding`

`GetNonEncryptedResponse` (`:665-667`) resizes the compressed AuctionResult to
`std::max(absl::bit_ceil(size), kMinAuctionResultBytes)`. The module has:
- `BitWidth`, a recursive function for `std::bit_width`;
- `Pow2`, a recursive function for the shift `1 << k`;
- `BitCeil`, which is `absl::bit_ceil`: 1 for 0 and 1, else
  `Pow2[BitWidth[n-1]]`;
- `PaddedSize`, the `std::max`.

The compressed size is chosen in `Init`.
`PaddingMatchesSpec` compares `PaddedSize` with spec §3 and §8.5:
- the padded length is at least the input;
- it equals `max(next power of two, MIN_AUCTION_RESULT_BYTES)`.

`kMinAuctionResultBytes` is not defined in `src/`, so it is a constant.
The run sets it to 512 and checks every size from 0 to 2100. That range
covers:
- 0 and 1, where `bit_ceil` is special;
- powers of two below, at and above the minimum;
- the values next to each of them.

## 4. Runs

`MC_SelectAdReactor` gives the constants:
- two buyers `b1` and `b2`;
- the buyer lists `<<>>`, `<<b1>>`, `<<b1,b2>>`, `<<b2,b2>>` and `<<b1,b2,b1>>`.

The empty list reaches the empty-buyer-list edge case. The repeated entries
make the `try_emplace` of a repeated buyer happen. Three entries let
callbacks interleave with a loop that is still running. Every input kind is
combined with every client, config and decrypt outcome.

| Run | Expect | Properties | Shows |
|---|---|---|---|
| `fanout` | pass (≈9.5k states) | TypeOK, FinishAtMostOnce, QuiescentAtFinish, PendingAccounted, BarrierSound, ResponseConsistent, NoStall, FinalAfterFinish, Termination, OneResponseRefined, BidsCollected | every interleaving of the unencrypted pipeline |
| `encrypted` | pass (≈20k states) | FinishAtMostOnce, ResponseConsistent, Termination, OneResponseRefined | every DecryptRequest outcome, plus compression, key and encapsulation failures |
| `padding` | pass (2101 states) | PaddingMatchesSpec | every compressed size 0..2100 with a 512-byte minimum |
| `bidding_groups` | pass (≈389k states) | BiddingGroupsMatchSpec | two owners, two interest-group names, at most two interest groups and two bids each, bids in {0,1} |
| `report_uaf` | violation | ReportsDrainedBeforeDelete | finding 1 below |
| `lock_uaf` | violation | UnlockedBeforeDelete | finding 2 below |
| `encode_abort` | violation | NoAbort | finding 3 below |
| `partial_success` | violation | PartialSuccess | finding 4 below |
| `ig_signals` | violation | BrowserSignalsFromMatchingIG | finding 5 below |

Deadlock checking is off in the reactor runs. A deleted reactor takes no
further step; that is the intended end, and `Termination` checks that every
behaviour gets there.

**Fairness.** Every action is weakly fair, which models two facts about the
code:
- every RPC is issued with a deadline (`get_bid_rpc_timeout_ms`,
  `buyer_timeout_ms`, `key_value_signals_fetch_rpc_timeout_ms`,
  `score_ads_rpc_timeout_ms`), so the client calls back, with an error if
  need be;
- the gRPC and client threads keep running.

`DoReport` is not awaited by the code. It is assumed to complete eventually.

### Findings

1. **Debug-report callback after delete** (`select_ad_reactor.cc:722`).
   `PerformDebugReporting` passes callbacks that capture `&logger_` and does
   not wait for them. `Finish` follows at once, so `OnDone` can delete the
   reactor first.
2. **Finish under the lock** (`:443`). The no-bids crossing calls `Finish`
   while `bid_data_mu_` is held. When the last GetBids callback crosses on
   its own thread, `Execute` has already returned, so `OnDone` can destroy
   the mutex before that callback's `MutexLock` unlocks it. A crossing on
   the main thread, inside `Execute`, cannot be hit this way: gRPC runs
   `OnDone` only after the handler returns, and the model's
   `HandlerReturned` guard says so.
3. **Abort after a failed Encode** (`:654`). `Encode` failing calls
   `FinishWithInternalError`. The caller then dereferences the error
   `StatusOr`, which aborts the process.
4. **No partial success** (`:332`). One malformed buyer input stops the
   whole request, where spec §7 allows partial success.
5. **join_count from the wrong interest group** (`:108`).
   `BuildAdWithBidMetadata` takes `join_count` from the first interest group
   whose name *differs* from the bid's. This is the strcmp question of spec §9.

## 5. Proofs (TLAPS)

The theorems hold for every set of buyers and every set of buyer lists
(`BuyersAssumption`, `BuyerListsAssumption`) and for every value of the flags.

| Module | Theorem | Statement |
|---|---|---|
| `SelectAdReactorProofs` | `TypeCorrect` | `Spec => []TypeOK` |
| | `PendingCountExact` | `Spec => []PendingAccounted` |
| | `FinishCalledOnce` | `Spec => []FinishAtMostOnce` |
| | `QuiescentFinish` | `Spec => []QuiescentAtFinish` |
| | `FinalResponse` | `Spec => FinalAfterFinish`, an action property |
| `OneResponseProofs` | `ImplementsOneResponse` | `Spec => Abstract!SafeSpec` |
| `ResponseProofs` | `BarrierSoundHolds` | `Spec => []BarrierSound` |
| | `ResponseConsistentHolds` | `Spec => []ResponseConsistent` |
| `BidCollectionProofs` | `ImplementsBidCollection` | `Spec => BidsCollected` (`Collection!SafeSpec`) |
| | `NeverStalls` | `Spec => []NoStall` |
| `ResponsePaddingProofs` | `PaddingCorrect` | `Spec => []PaddingMatchesSpec` |
| `AuctionDataProofs` | `BiddingGroupsCorrect` | `Spec => []BiddingGroupsMatchSpec` |

**`IInv`.** The first five theorems rest on the inductive invariant
`IInv == TypeOK /\ StageInv`.
`StageInv` ties the pipeline stages together:
- `calls` and `delivered` are disjoint subsets of the positions the loop has
  passed;
- `pendingBids = Cardinality(Outstanding)`;
- before the loop has moved, nothing is crossed or pending, and `Finish` has
  been called only on an early exit;
- after it has moved, the *finish tokens* are 1 once the barrier is crossed
  and 0 before. The finish tokens are `finishCalls` plus one for each of
  signals and ScoreAds in flight.

`FinishAtMostOnce` alone is not inductive. A state with `finishCalls = 1`
and a ScoreAds RPC still in flight satisfies it, yet its successor breaks it.
The token count rules such states out. The count is 0 before the crossing
because `PendingAccounted` forces `pendingBids > 0` while anything is
outstanding (`OutstandingBeforeCrossing`).
`IInvInductive` has one lemma per action, and each lemma has one step per
conjunct the action can disturb.

**The refinement.** `RInv == IInv /\ Solicited /\ StatusInv`:
- `Solicited`: once Execute has entered the loop, the request satisfies
  `OkAllowed`;
- `StatusInv`: the status is "NONE" exactly while `finishCalls = 0`.

`StepReply` shows that every step is a `ReplyStep`, one of three kinds:
- it leaves the status, `finishCalls` and `deleted` alone;
- it is the one `Finish`, with a reply status that is OK only if
  `OkAllowed`;
- it is `OnDone` after `Finish`.

`StepRefines` maps each kind to a stutter, `Respond` or `Release`. The
theorem follows from `Init => Abstract!Init` by PTL.

**Barrier and response.** `SInv` adds three facts to `RInv`:
- `BidsSync`: `buyer_bids_` equals the set of buyers that answered with
  bids, because `try_emplace` skips only a buyer already there. The crossing
  copies `buyer_bids_` into `buyer_bids_list_`, and no GetBids callback is
  due after it.
- `ScoringHasBids`: the scoring stages run only when the crossing found bids.
- `ErrorsExit`: an accumulated error means Execute exited before the loop.

`BarrierSound` follows from `IInv /\ BidsSync`: at the crossing
`Cardinality(Outstanding) = 0`.
For `ResponseConsistent`:
- `FinishingStep` shows that the one `Finish` step builds a consistent
  response;
- `IInvFinal` shows that nothing changes afterwards.

**The bid collection.** `ImplementsBidCollection` rests on
`IInv /\ BidsSync`:
- `ListDomain` and `Init` give `Outstanding = DOMAIN req.buyerList`, which
  is the abstract `Init`;
- in `StepCollects`, every decrement removes exactly the position it
  settles from `Outstanding`;
- `LastPosition` uses `pendingBids = Cardinality(Outstanding)` to show that
  the count reaches zero exactly when that position was the last. So the
  crossing is the close;
- `BidsSync` makes `buyer_bids_list_` the gathered buyers.

**No stall.** `NoStall` is not inductive on its own. A state with Execute
at "exit", no call in flight and a positive count satisfies it, but only
because of the count. `StallInv` adds two facts:
- the loop exits only past the last position;
- after the loop has started, the count reaches zero only by the decrement
  that crosses.

With `PendingAccounted`, an uncrossed barrier then has a positive count,
hence an outstanding position. That position must be a call or a callback,
because the loop is over. A crossed barrier holds a finish token
(`StageInv`). So either `Finish` has happened or the signals or ScoreAds
callback is still due.

TLC checked each strengthening (`IInv`, `RInv`, `SInv`, `StallInv`) as an invariant of the
`fanout`, `encrypted` and `encode_abort` configurations before it was proved.

**Induction over data.** The library's induction theorems take an
operator parameter (`NEW P(_)`), and no installed prover can instantiate
one. `LeastElement` proves `NatLeast` instead: a non-empty set of naturals
has a least element. It is derived from `WFMin` and the well-foundedness of
`<` on `Nat`. Each inductive argument below names its set of
counterexamples `T == {x \in Nat : ~P(x)}`, assumes `T # {}`, picks the least
element and derives a contradiction from the step before it.

TLAPS expands a recursive function definition `f[k \in Nat] == ...` as a
`CHOOSE`, so its defining equation must first be shown to have a solution.
`Pow2Def` and `BitWidthDef` build the approximations on `0 .. n`, show by
least-element induction that one exists for every `n` and that two of them
agree, and glue them into a solution. The `LET` loop of
`InterestGroupIndex` is handled the same way (`IndexLoopExists`).

**Padding.** `PaddingCorrect` holds for every `kMinAuctionResultBytes` in
`Nat` and every compressed size up to `2^30` (`PaddingAssumption`). That is
the range of `PowersOfTwo`, the spec's "next power of two", which TLC's
integers bound. The argument:
- `BitWidthBounds`: for `m >= 1`, `w = BitWidth[m]` satisfies
  `Pow2[w-1] <= m < Pow2[w]`;
- `BitCeilIsNextPowerOfTwo`: with `m = n - 1`, `BitCeil(n)` is a power of
  two, at least `n`, and at most every power of two that is at least `n`;
- `NextPowerOfTwoIsBitCeil`: so the `CHOOSE` of the spec returns it.
`Init` is the invariant, since no action changes the size.

**Bidding groups.** `BiddingGroupsCorrect` holds for every set of owners,
interest groups and bids, and for every `MaxIGs` and `MaxBids`. The loop
invariant `IndexedUpTo(igs, named, r, i)` says that after `i` groups the list
`r` holds exactly the indices below `i` whose group is named, in strictly
increasing order. `IndexStepPreserves` shows that one iteration of the loop
at `:536-544` keeps it. `InterestGroupIndexSpec` applies it at
`Len(igs)`.

Two definitions were rewritten so that the provers can reason about them.
Both still compute the same values, and TLC checks the same runs:
- `2^k` is now `Pow2[k]`, the shift `1 << k` that `absl::bit_ceil` performs;
  TLAPS knows nothing of `^` on variables;
- `GetBiddingGroups` used to be a `SelectSeq` with a `LAMBDA`. It is now
  `InterestGroupIndex`, the explicit loop of the code, because the libraries
  state no facts about `SelectSeq`.

**TLC only.** The following are only model-checked:
- `Termination` and the liveness half of `OneResponseRefined`. They need
  fairness and ENABLED, which TLAPS does not reason about. `NeverStalls`
  proves their safety core: some thread always has work until `Finish`.
- The `AuctionData` properties that are found violated (the `violation`
  runs), since a theorem can only state what holds.

## 6. Not modelled

- OnCancel, which has no body (a TODO). A cancelled call therefore runs the
  same steps as any other. `Termination` and `OneResponseRefined` show that it
  still gets its one `Finish`, which gRPC needs before `OnDone`.
- HTTP fetcher internals, which are not in `src/`.
- Roma request context, which is declarations only.
- Metrics, JSON, TCMalloc and benchmarking, which are out of scope (spec §1).
- Logging and tracing, which change no state the properties observe.
