\* Without debug reports: bid_data_mu_ is unlocked after Finish and OnDone.
CONSTANTS
  b1 = b1
  b2 = b2
  Buyers <- MCBuyers
  BuyerLists <- MCBuyerLists
  EnableEncryption = FALSE
  DecryptOutcomes = {"ok"}
  EncodeMayFail = FALSE
  DebugReporting = FALSE
SPECIFICATION Spec
INVARIANT UnlockedBeforeDelete
CHECK_DEADLOCK FALSE
