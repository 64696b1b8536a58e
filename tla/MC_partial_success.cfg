\* One malformed buyer input next to a well-formed one.
CONSTANTS
  b1 = b1
  b2 = b2
  Buyers <- MCBuyers
  BuyerLists <- MCBuyerLists
  EnableEncryption = FALSE
  DecryptOutcomes = {"ok"}
  EncodeMayFail = FALSE
  DebugReporting = FALSE
SPECIFICATION Spec
INVARIANT PartialSuccess
CHECK_DEADLOCK FALSE
