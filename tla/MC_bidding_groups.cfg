\* GetBiddingGroups against spec section 8, invariant 6, over every pair of
\* buyer inputs of up to two interest groups and bid lists of up to two bids.
CONSTANTS
  o1 = o1
  o2 = o2
  n1 = n1
  n2 = n2
  Owners <- MCOwners
  IGNames <- MCIGNames
  JoinCounts = {1, 2}
  BidValues = {0, 1}
  MaxIGs = 2
  MaxBids = 2
SPECIFICATION Spec
INVARIANT BiddingGroupsMatchSpec
