\* Encode reports an error after the error handler has finished the RPC.
CONSTANTS
  b1 = b1
  b2 = b2
  Buyers <- MCBuyers
  BuyerLists <- MCBuyerLists
  EnableEncryption = TRUE
  DecryptOutcomes = {"ok"}
  EncodeMayFail = TRUE
  DebugReporting = FALSE
SPECIFICATION Spec
INVARIANT NoAbort
CHECK_DEADLOCK FALSE
