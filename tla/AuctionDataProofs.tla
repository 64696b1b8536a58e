-------------------------- MODULE AuctionDataProofs --------------------------
(***************************************************************************)
(* GetBiddingGroups satisfies the specification's rule for bidding_groups  *)
(* for every set of owners, interest-group names and bids, and for inputs  *)
(* and bid lists of every length.                                          *)
(*                                                                         *)
(* The index loop of InterestGroupIndex is a recursive function local to   *)
(* a LET.  It is first shown to exist, by building its restrictions to     *)
(* 0 .. n for every n; then, by induction over i (NatLeast), after i       *)
(* interest groups it lists, in increasing order, exactly the indices      *)
(* below i whose group's name was bid on.                                  *)
(***************************************************************************)
EXTENDS AuctionData, LeastElement

\* One iteration of the loop over buyer_input.interest_groups().
IndexStep(igs, named, g, i) ==
  IF i = 0 THEN << >>
  ELSE IF igs[i].name \in named THEN Append(g[i - 1], i - 1) ELSE g[i - 1]

\* The functions on 0 .. n that follow the loop.
IndexUpto(igs, named, n) ==
  {g \in [0 .. n -> Seq(Nat)] :
     \A i \in 0 .. n : g[i] = IndexStep(igs, named, g, i)}

\* What the loop has built after the first i interest groups: the indices
\* below i whose group's name is in named, each once, in increasing order.
IndexedUpTo(igs, named, r, i) ==
  /\ r \in Seq(Nat)
  /\ {r[j] : j \in 1 .. Len(r)} = {k \in 0 .. i - 1 : igs[k + 1].name \in named}
  /\ \A j1, j2 \in 1 .. Len(r) : j1 < j2 => r[j1] < r[j2]

LEMMA IndexUptoNonEmpty ==
  ASSUME NEW igs, NEW named, NEW n \in Nat
  PROVE  IndexUpto(igs, named, n) # {}
<1>. DEFINE T == {m \in Nat : IndexUpto(igs, named, m) = {}}
<1>. SUFFICES ASSUME T # {} PROVE FALSE  OBVIOUS
<1>1. PICK m \in T : \A y \in T : m <= y  BY NatLeast
<1>2. CASE m = 0
  <2>1. [i \in 0 .. 0 |-> << >>] \in IndexUpto(igs, named, 0)
    BY DEF IndexUpto, IndexStep
  <2>. QED  BY <1>1, <1>2, <2>1
<1>3. CASE m # 0
  <2>1. m - 1 \in Nat /\ m - 1 \notin T  BY <1>1, <1>3
  <2>2. PICK g \in IndexUpto(igs, named, m - 1) : TRUE  BY <2>1
  <2>3. g \in [0 .. m - 1 -> Seq(Nat)]  BY <2>2 DEF IndexUpto
  <2>. DEFINE h == [i \in 0 .. m |-> IF i < m THEN g[i] ELSE IndexStep(igs, named, g, m)]
  <2>4. IndexStep(igs, named, g, m) \in Seq(Nat)  BY <1>3, <2>1, <2>3 DEF IndexStep
  <2>5. h \in [0 .. m -> Seq(Nat)]  BY <2>3, <2>4
  <2>6. ASSUME NEW i \in 0 .. m PROVE h[i] = IndexStep(igs, named, h, i)
    <3>1. CASE i < m
      <4>1. g[i] = IndexStep(igs, named, g, i)  BY <2>2, <3>1 DEF IndexUpto
      <4>. QED  BY <3>1, <4>1 DEF IndexStep
    <3>2. CASE i = m  BY <1>3, <3>2 DEF IndexStep
    <3>. QED  BY <3>1, <3>2
  <2>7. h \in IndexUpto(igs, named, m)  BY <2>5, <2>6 DEF IndexUpto
  <2>. QED  BY <1>1, <2>7
<1>. QED  BY <1>2, <1>3

\* The loop of InterestGroupIndex exists, and the index list is its value
\* after the last interest group.
LEMMA IndexLoopExists ==
  ASSUME NEW igs, NEW named, Len(igs) \in Nat
  PROVE  \E l : /\ l = [i \in 0 .. Len(igs) |-> IndexStep(igs, named, l, i)]
                /\ InterestGroupIndex(igs, named) = l[Len(igs)]
<1>1. PICK g \in IndexUpto(igs, named, Len(igs)) : TRUE  BY IndexUptoNonEmpty
<1>2. g = [i \in 0 .. Len(igs) |-> IndexStep(igs, named, g, i)]
  <2>1. g = [i \in 0 .. Len(igs) |-> g[i]]  BY <1>1 DEF IndexUpto
  <2>. QED  BY <1>1, <2>1 DEF IndexUpto
<1>3. \E l : l = [i \in 0 .. Len(igs) |-> IndexStep(igs, named, l, i)]  BY <1>2
<1>. QED  BY <1>3 DEF InterestGroupIndex, IndexStep

\* One iteration keeps the index list sorted and equal to the indices of
\* the interest groups seen so far whose name is in named.
LEMMA IndexStepPreserves ==
  ASSUME NEW igs, NEW named, NEW i \in Nat \ {0}, NEW prev,
         IndexedUpTo(igs, named, prev, i - 1)
  PROVE  IndexedUpTo(igs, named,
           IF igs[i].name \in named THEN Append(prev, i - 1) ELSE prev, i)
<1>. DEFINE Seen(m) == {k \in 0 .. m : igs[k + 1].name \in named}
            Range(r) == {r[j] : j \in 1 .. Len(r)}
<1>1. /\ prev \in Seq(Nat)
      /\ Range(prev) = Seen(i - 2)
      /\ \A j1, j2 \in 1 .. Len(prev) : j1 < j2 => prev[j1] < prev[j2]
  BY DEF IndexedUpTo
<1>2. CASE igs[i].name \in named
  <2>. DEFINE cur == Append(prev, i - 1)
  <2>1. /\ cur \in Seq(Nat)
        /\ Len(cur) = Len(prev) + 1 /\ cur[Len(prev) + 1] = i - 1
        /\ \A j \in 1 .. Len(prev) : cur[j] = prev[j]
    BY <1>1
  <2>2. Range(cur) = Range(prev) \cup {i - 1}
    <3>1. ASSUME NEW j \in 1 .. Len(cur) PROVE cur[j] \in Range(prev) \cup {i - 1}
      <4>1. CASE j <= Len(prev)  BY <1>1, <2>1, <4>1
      <4>2. CASE j = Len(prev) + 1  BY <2>1, <4>2
      <4>. QED  BY <1>1, <2>1, <4>1, <4>2
    <3>2. ASSUME NEW x \in Range(prev) \cup {i - 1} PROVE x \in Range(cur)
      <4>1. CASE x = i - 1  BY <1>1, <2>1, <4>1
      <4>2. CASE x \in Range(prev)
        <5>1. PICK j \in 1 .. Len(prev) : x = prev[j]  BY <4>2
        <5>. QED  BY <1>1, <2>1, <5>1
      <4>. QED  BY <3>2, <4>1, <4>2
    <3>. QED  BY <3>1, <3>2
  <2>3. Seen(i - 1) = Seen(i - 2) \cup {i - 1}  BY <1>2
  <2>4. ASSUME NEW j1 \in 1 .. Len(cur), NEW j2 \in 1 .. Len(cur), j1 < j2
        PROVE  cur[j1] < cur[j2]
    <3>1. CASE j2 <= Len(prev)  BY <1>1, <2>1, <2>4, <3>1
    <3>2. CASE j2 = Len(prev) + 1
      <4>1. j1 \in 1 .. Len(prev)  BY <1>1, <2>4, <3>2
      <4>2. prev[j1] \in Seen(i - 2)  BY <1>1, <4>1
      <4>. QED  BY <2>1, <3>2, <4>1, <4>2
    <3>3. j2 <= Len(prev) \/ j2 = Len(prev) + 1  BY <1>1, <2>1
    <3>. QED  BY <3>1, <3>2, <3>3
  <2>5. IndexedUpTo(igs, named, cur, i)  BY <2>1, <2>2, <2>3, <2>4 DEF IndexedUpTo
  <2>. QED  BY <1>2, <2>5
<1>3. CASE igs[i].name \notin named
  <2>1. Seen(i - 1) = Seen(i - 2)  BY <1>3
  <2>. QED  BY <1>1, <1>3, <2>1 DEF IndexedUpTo
<1>. QED  BY <1>2, <1>3

\* Every iteration of the loop keeps IndexedUpTo.
LEMMA IndexLoopInv ==
  ASSUME NEW igs, NEW named, NEW L \in Nat,
         NEW l, \A i \in 0 .. L : l[i] = IndexStep(igs, named, l, i)
  PROVE  \A i \in 0 .. L : IndexedUpTo(igs, named, l[i], i)
<1>. DEFINE T == {i \in 0 .. L : ~IndexedUpTo(igs, named, l[i], i)}
<1>. SUFFICES ASSUME T # {} PROVE FALSE  OBVIOUS
<1>0. T \in SUBSET Nat  OBVIOUS
<1>1. PICK i \in T : \A y \in T : i <= y  BY <1>0, NatLeast
<1>2. CASE i = 0
  <2>1. l[i] = << >>  BY <1>1, <1>2 DEF IndexStep
  <2>2. IndexedUpTo(igs, named, << >>, 0)  BY DEF IndexedUpTo
  <2>. QED  BY <1>1, <1>2, <2>1, <2>2
<1>3. CASE i # 0
  <2>1. i \in Nat \ {0} /\ i - 1 \in 0 .. L  BY <1>1, <1>3
  <2>2. IndexedUpTo(igs, named, l[i - 1], i - 1)  BY <1>1, <2>1
  <2>3. l[i] = IF igs[i].name \in named THEN Append(l[i - 1], i - 1) ELSE l[i - 1]
    BY <1>1, <2>1 DEF IndexStep
  <2>4. IndexedUpTo(igs, named, l[i], i)  BY <2>1, <2>2, <2>3, IndexStepPreserves
  <2>. QED  BY <1>1, <2>4
<1>. QED  BY <1>2, <1>3

\* The index list of a buyer input lists, in increasing order, exactly the
\* indices of the interest groups whose name is in named.
LEMMA InterestGroupIndexSpec ==
  ASSUME NEW S, NEW igs \in Seq(S), NEW named
  PROVE  IndexedUpTo(igs, named, InterestGroupIndex(igs, named), Len(igs))
<1>0. Len(igs) \in Nat  OBVIOUS
<1>1. PICK l : /\ l = [i \in 0 .. Len(igs) |-> IndexStep(igs, named, l, i)]
               /\ InterestGroupIndex(igs, named) = l[Len(igs)]
  BY <1>0, IndexLoopExists
<1>2. Len(igs) \in Nat /\ Len(igs) \in 0 .. Len(igs)  OBVIOUS
<1>3. \A i \in 0 .. Len(igs) : l[i] = IndexStep(igs, named, l, i)  BY <1>1
<1>4. \A i \in 0 .. Len(igs) : IndexedUpTo(igs, named, l[i], i)
  BY <1>2, <1>3, IndexLoopInv
<1>. QED  BY <1>1, <1>2, <1>4


-----------------------------------------------------------------------------
(* bidding_groups.                                                         *)

\* The buyer inputs and bid lists of Init are sequences.
LEMMA SeqsUpToSeq ==
  ASSUME NEW S, NEW n \in Nat, NEW s \in SeqsUpTo(S, n)
  PROVE  s \in Seq(S)
<1>1. PICK k \in 0 .. n : s \in [1 .. k -> S]  BY DEF SeqsUpTo
<1>. QED  BY <1>1

\* For every set of owners, interest-group names and bids, and for buyer
\* inputs and bid lists of every length, GetBiddingGroups lists, for each
\* buyer of buyer_bids_list_, exactly the indices of its interest groups
\* that some positive bid names, once each and in increasing order.
THEOREM BiddingGroupsCorrect == Spec => []BiddingGroupsMatchSpec
<1>1. Init => BiddingGroupsMatchSpec
  <2>. SUFFICES ASSUME Init PROVE BiddingGroupsMatchSpec  OBVIOUS
  <2>1. PICK bidders \in SUBSET Owners :
          buyerBidsList \in [bidders -> SeqsUpTo(AdsWithBid, MaxBids) \ {<< >>}]
    BY DEF Init
  <2>2. DOMAIN GetBiddingGroups = DOMAIN buyerBidsList  BY DEF GetBiddingGroups
  <2>3. ASSUME NEW b \in DOMAIN buyerBidsList
        PROVE  LET groups == GetBiddingGroups
                   igs == buyerInputs[b]
                   listed == {groups[b][j] : j \in 1 .. Len(groups[b])}
               IN  /\ \A k \in 0 .. Len(igs) - 1 :
                        k \in listed <=>
                          \E j \in 1 .. Len(buyerBidsList[b]) :
                             /\ buyerBidsList[b][j].ig = igs[k + 1].name
                             /\ buyerBidsList[b][j].bid > 0
                   /\ listed \subseteq 0 .. Len(igs) - 1
                   /\ \A j1, j2 \in 1 .. Len(groups[b]) :
                        j1 < j2 => groups[b][j1] < groups[b][j2]
    <3>. DEFINE bids == buyerBidsList[b]
                igs == buyerInputs[b]
                named == {bids[j].ig : j \in {j \in DOMAIN bids : bids[j].bid > 0}}
    <3>1. bids \in Seq(AdsWithBid)  BY <2>1, SeqsUpToSeq, DataAssumption
    <3>2. igs \in Seq(InterestGroups)
      BY <2>1, SeqsUpToSeq, DataAssumption DEF Init
    <3>3. GetBiddingGroups[b] = InterestGroupIndex(igs, named)
      BY DEF GetBiddingGroups
    <3>4. IndexedUpTo(igs, named, GetBiddingGroups[b], Len(igs))
      BY <3>2, <3>3, InterestGroupIndexSpec
    <3>5. ASSUME NEW k \in 0 .. Len(igs) - 1
          PROVE  igs[k + 1].name \in named <=>
                   \E j \in 1 .. Len(bids) :
                      bids[j].ig = igs[k + 1].name /\ bids[j].bid > 0
      BY <3>1
    <3>. QED  BY <3>4, <3>5 DEF IndexedUpTo
  <2>. QED  BY <2>2, <2>3 DEF BiddingGroupsMatchSpec
<1>2. Init /\ [Next]_vars => Init'  BY DEF Init, Next, vars
<1>. QED  BY <1>1, <1>2, PTL DEF Spec

=============================================================================
