\* BuildAdWithBidMetadata against the join-count lookup the specification
\* expects: the code takes the first interest group with a different name.
CONSTANTS
  o1 = o1
  o2 = o2
  n1 = n1
  n2 = n2
  Owners <- MCOwners
  IGNames <- MCIGNames
  JoinCounts = {1, 2}
  BidValues = {0, 1}
  MaxIGs = 2
  MaxBids = 2
SPECIFICATION Spec
INVARIANT BrowserSignalsFromMatchingIG
