-------------------------- MODULE MC_ResponsePadding --------------------------
EXTENDS ResponsePadding, TLC
=============================================================================
