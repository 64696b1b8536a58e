---------------------------- MODULE MC_AuctionData ----------------------------
EXTENDS AuctionData, TLC

CONSTANTS o1, o2, n1, n2

MCOwners == {o1, o2}
MCIGNames == {n1, n2}

=============================================================================
