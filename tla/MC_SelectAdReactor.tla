------------------------- MODULE MC_SelectAdReactor -------------------------
(* Model-checking instance of SelectAdReactor: two buyers, buyer lists of   *)
(* length 0 to 3, repeated buyers included.                                *)
EXTENDS SelectAdReactor, TLC

CONSTANTS b1, b2

MCBuyers == {b1, b2}

\* The empty list (kEmptyBuyerList), one buyer, two distinct buyers, and a
\* buyer listed twice (two GetBids calls, one buyer_bids_ entry), and three
\* entries with a repeat, so that three callbacks race for the barrier.
MCBuyerLists == {<<>>, <<b1>>, <<b1, b2>>, <<b2, b2>>, <<b1, b2, b1>>}
=============================================================================
