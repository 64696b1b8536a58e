\* A debug-report done_cb outlives the reactor it logs through.
CONSTANTS
  b1 = b1
  b2 = b2
  Buyers <- MCBuyers
  BuyerLists <- MCBuyerLists
  EnableEncryption = FALSE
  DecryptOutcomes = {"ok"}
  EncodeMayFail = FALSE
  DebugReporting = TRUE
SPECIFICATION Spec
INVARIANT ReportsDrainedBeforeDelete
CHECK_DEADLOCK FALSE
