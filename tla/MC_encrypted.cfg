\* Encrypted requests: every DecryptRequest outcome and every failure of
\* compression, key re-fetch and encapsulation in OnScoreAdsDone.
CONSTANTS
  b1 = b1
  b2 = b2
  Buyers <- MCBuyers
  BuyerLists <- MCBuyerLists
  EnableEncryption = TRUE
  DecryptOutcomes = {"ok", "empty", "badKeyId", "noKey", "malformed"}
  EncodeMayFail = FALSE
  DebugReporting = TRUE
SPECIFICATION Spec
INVARIANTS
  FinishAtMostOnce
  ResponseConsistent
PROPERTIES
  Termination
  OneResponseRefined
\* A reactor stops for good once gRPC has deleted it.
CHECK_DEADLOCK FALSE
