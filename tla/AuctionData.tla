----------------------------- MODULE AuctionData -----------------------------
(***************************************************************************)
(* The data the SelectAd reactor derives from buyer_inputs_ and            *)
(* buyer_bids_list_ once the barrier is crossed (select_ad_reactor.cc):    *)
(* the ad_bids of the ScoreAds request, each built by                      *)
(* BuildAdWithBidMetadata, and the bidding_groups of the AuctionResult     *)
(* built by GetBiddingGroups.  Both are pure functions of that data; the   *)
(* state below is one value of it, chosen in Init, and the properties      *)
(* compare the code's loops with the definitions of the specification.     *)
(***************************************************************************)
EXTENDS Naturals, Sequences, FiniteSets

CONSTANTS
  Owners,      \* interest-group owners (buyers)
  IGNames,     \* interest-group names
  JoinCounts,  \* values of browser_signals.join_count
  BidValues,   \* values of AdWithBid.bid
  MaxIGs,      \* bound on the interest groups of one BuyerInput
  MaxBids      \* bound on the bids of one GetBidsResponse

ASSUME DataAssumption ==
  /\ IsFiniteSet(Owners) /\ IsFiniteSet(IGNames)
  /\ JoinCounts \subseteq Nat /\ BidValues \subseteq Nat
  /\ MaxIGs \in Nat /\ MaxBids \in Nat

\* An interest group of a BuyerInput: its name and join count.
InterestGroups == [name : IGNames, joinCount : JoinCounts]

\* An AdWithBid of a GetBidsResponse: the interest group it bids for, and
\* the bid.
AdsWithBid == [ig : IGNames, bid : BidValues]

ClientTypes == {"BROWSER", "ANDROID"}

SeqsUpTo(S, n) == UNION {[1 .. k -> S] : k \in 0 .. n}

VARIABLES
  buyerInputs,    \* buyer_inputs_: owner -> interest groups, in input order
  buyerBidsList,  \* buyer_bids_list_: owner -> its non-empty bids
  clientType      \* request_->client_type()

vars == <<buyerInputs, buyerBidsList, clientType>>

\* buyer_bids_list_ holds only buyers that had a buyer input and answered
\* with at least one bid (OnFetchBidsDone drops empty responses).
Init ==
  /\ buyerInputs \in [Owners -> SeqsUpTo(InterestGroups, MaxIGs)]
  /\ \E bidders \in SUBSET Owners :
       buyerBidsList \in [bidders -> SeqsUpTo(AdsWithBid, MaxBids) \ {<<>>}]
  /\ clientType \in ClientTypes

Next == UNCHANGED vars

Spec == Init /\ [][Next]_vars

-----------------------------------------------------------------------------
(***************************************************************************)
(* BuildAdWithBidMetadata copies the bid, and for a BROWSER request takes  *)
(* join_count from the first interest group of the buyer's input for      *)
(* which strcmp(name, bid's interest_group_name) is non-zero, i.e. whose   *)
(* name DIFFERS from the bid's, and then breaks.  Other fields (render     *)
(* URL, ad cost, modelling signals) are copied unchanged and left out.     *)
(***************************************************************************)
BuildAdWithBidMetadata(ad, owner) ==
  LET igs == buyerInputs[owner]
      differing == {k \in DOMAIN igs : igs[k].name # ad.ig}
      first == CHOOSE k \in differing : \A j \in differing : k <= j
  IN  [ig        |-> ad.ig,
       bid       |-> ad.bid,
       owner     |-> owner,
       joinCount |-> IF clientType = "BROWSER" /\ differing # {}
                     THEN igs[first].joinCount ELSE 0]

\* ScoreAds: one AdWithBidMetadata per bid of every buyer of
\* buyer_bids_list_ (tagged with the buyer and the bid's position).
ScoreAdsAdBids ==
  UNION { { <<b, i, BuildAdWithBidMetadata(buyerBidsList[b][i], b)>> :
              i \in 1 .. Len(buyerBidsList[b]) } : b \in DOMAIN buyerBidsList }

\* The loop over buyer_input.interest_groups(): loop[i] is
\* ar_interest_group_index after the first i groups, each group's 0-based
\* ig_index added when its name is in buyer_interest_groups.
InterestGroupIndex(igs, named) ==
  LET loop[i \in 0 .. Len(igs)] ==
        IF i = 0 THEN << >>
        ELSE IF igs[i].name \in named THEN Append(loop[i - 1], i - 1)
             ELSE loop[i - 1]
  IN  loop[Len(igs)]

\* Mutant: the bid filter admits zero bids.
GetBiddingGroupsNonNegative ==
  [b \in DOMAIN buyerBidsList |->
     LET bids == buyerBidsList[b]
         named == {bids[j].ig : j \in {j \in DOMAIN bids : bids[j].bid >= 0}}
     IN  InterestGroupIndex(buyerInputs[b], named)]

(***************************************************************************)
(* GetBiddingGroups: for each buyer of buyer_bids_list_ (try_emplace), the *)
(* 0-based indices, in input order, of the interest groups of its          *)
(* BuyerInput whose name is the interest_group_name of one of its bids     *)
(* with bid > 0.                                                           *)
(***************************************************************************)
GetBiddingGroups ==
  [b \in DOMAIN buyerBidsList |->
     LET bids == buyerBidsList[b]
         named == {bids[j].ig : j \in {j \in DOMAIN bids : bids[j].bid > 0}}
     IN  InterestGroupIndex(buyerInputs[b], named)]

-----------------------------------------------------------------------------
(* Properties.                                                             *)

\* Spec section 8, invariant 6: for every buyer b of buyer_bids_list_ and
\* every interest group i of b's input, i's index is in bidding_groups[b]
\* iff some bid of b for i's name is positive; indices are listed once each,
\* in increasing order, and only buyers with bids have an entry.
BiddingGroupsMatchSpec ==
  LET groups == GetBiddingGroups IN
  /\ DOMAIN groups = DOMAIN buyerBidsList
  /\ \A b \in DOMAIN buyerBidsList :
       LET igs == buyerInputs[b]
           listed == {groups[b][j] : j \in 1 .. Len(groups[b])}
       IN  /\ \A k \in 0 .. Len(igs) - 1 :
                k \in listed <=>
                  \E j \in 1 .. Len(buyerBidsList[b]) :
                     /\ buyerBidsList[b][j].ig = igs[k + 1].name
                     /\ buyerBidsList[b][j].bid > 0
           /\ listed \subseteq 0 .. Len(igs) - 1
           /\ \A j1, j2 \in 1 .. Len(groups[b]) :
                j1 < j2 => groups[b][j1] < groups[b][j2]

\* Spec section 9, open question on BuildAdWithBidMetadata: outside the
\* legacy quirk, a BROWSER bid carries the join count of the interest group
\* it was made for (the first one of that name in the buyer's input).
BrowserSignalsFromMatchingIG ==
  clientType = "BROWSER" =>
    \A t \in ScoreAdsAdBids :
      LET igs == buyerInputs[t[1]]
          same == {k \in DOMAIN igs : igs[k].name = t[3].ig}
      IN  same # {} =>
            t[3].joinCount =
              igs[CHOOSE k \in same : \A j \in same : k <= j].joinCount

=============================================================================
