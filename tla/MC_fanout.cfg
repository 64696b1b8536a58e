\* Unencrypted requests: the whole fan-out, barrier and scoring pipeline.
CONSTANTS
  b1 = b1
  b2 = b2
  Buyers <- MCBuyers
  BuyerLists <- MCBuyerLists
  EnableEncryption = FALSE
  DecryptOutcomes = {"ok"}
  EncodeMayFail = FALSE
  DebugReporting = TRUE
SPECIFICATION Spec
INVARIANTS
  TypeOK
  FinishAtMostOnce
  QuiescentAtFinish
  PendingAccounted
  BarrierSound
  ResponseConsistent
  NoStall
PROPERTIES
  FinalAfterFinish
  Termination
  OneResponseRefined
  BidsCollected
\* A reactor stops for good once gRPC has deleted it; Termination checks
\* that every behaviour gets there.
CHECK_DEADLOCK FALSE
