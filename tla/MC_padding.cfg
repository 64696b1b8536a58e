\* Every compressed size up to 2100 bytes against a 512-byte minimum: the
\* sizes 0 and 1, the powers of two on both sides of the minimum and the
\* sizes next to them.
CONSTANTS
  MinAuctionResultBytes = 512
  MaxCompressedSize = 2100
SPECIFICATION Spec
INVARIANT PaddingMatchesSpec
