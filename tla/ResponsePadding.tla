--------------------------- MODULE ResponsePadding ---------------------------
(***************************************************************************)
(* The padding step of GetNonEncryptedResponse (select_ad_reactor.cc):     *)
(* the gzip-compressed AuctionResult is resized to                         *)
(*   std::max(absl::bit_ceil(compressed_data->size()),                     *)
(*            kMinAuctionResultBytes)                                      *)
(* bytes before encryption, so that a real reply and a chaff reply fall    *)
(* in the same size classes.  The state is the compressed size, chosen in  *)
(* Init; the property compares the code's arithmetic with the padding rule *)
(* of the specification at every size up to a bound.                       *)
(***************************************************************************)
EXTENDS Naturals

CONSTANTS
  MinAuctionResultBytes,  \* kMinAuctionResultBytes
  MaxCompressedSize       \* bound on compressed_data->size()

\* 1 << k, the shift absl::bit_ceil returns, as an unbounded natural.
Pow2[k \in Nat] == IF k = 0 THEN 1 ELSE 2 * Pow2[k - 1]

ASSUME PaddingAssumption ==
  /\ MinAuctionResultBytes \in Nat
  /\ MaxCompressedSize \in 0 .. Pow2[30]

VARIABLE compressedSize  \* compressed_data->size() before the resize

Init == compressedSize \in 0 .. MaxCompressedSize

Next == UNCHANGED compressedSize

Spec == Init /\ [][Next]_compressedSize

\* std::bit_width(x): the number of bits needed to write x.
BitWidth[x \in Nat] == IF x = 0 THEN 0 ELSE 1 + BitWidth[x \div 2]

\* Mutant: the width is taken of n instead of n - 1.
BitCeilOfSize(n) == IF n <= 1 THEN 1 ELSE Pow2[BitWidth[n]]

\* absl::bit_ceil(n): 1 for n <= 1, else 1 << bit_width(n - 1).
BitCeil(n) == IF n <= 1 THEN 1 ELSE Pow2[BitWidth[n - 1]]

\* The new size of compressed_data.
PaddedSize(n) ==
  IF BitCeil(n) < MinAuctionResultBytes THEN MinAuctionResultBytes
  ELSE BitCeil(n)

-----------------------------------------------------------------------------
(* Properties.                                                             *)

PowersOfTwo == {Pow2[k] : k \in 0 .. 30}

\* The smallest power of two that is at least n.
NextPowerOfTwo(n) ==
  CHOOSE p \in PowersOfTwo :
    p >= n /\ \A q \in PowersOfTwo : q >= n => p <= q

\* Spec section 3 (Pad) and section 8, property 5: the padded length is
\* max(next power of two of the compressed length, MIN_AUCTION_RESULT_BYTES),
\* at zero, at exact powers of two and around the minimum alike; in
\* particular the resize never truncates the compressed data.
PaddingMatchesSpec ==
  LET n == compressedSize
      p == PaddedSize(n)
  IN  /\ p >= n
      /\ p = IF NextPowerOfTwo(n) >= MinAuctionResultBytes
             THEN NextPowerOfTwo(n) ELSE MinAuctionResultBytes

=============================================================================
