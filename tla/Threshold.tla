------------------------------- MODULE Threshold -------------------------------
(***************************************************************************)
(* The host-side arithmetic of iris-mpc-gpu/tests/threshold.rs: sampling   *)
(* of code and mask dot products, their replicated sharing over u16, and   *)
(* the plaintext reference real_result_msb that the opened match bits are  *)
(* compared against.  Widths are scaled down (RingBits for u16, WideBits   *)
(* for u64) and kept: every u16/u64 operation wraps in a build without     *)
(* overflow checks and panics in a build with them (the default profile   *)
(* of cargo test).                                                         *)
(***************************************************************************)
EXTENDS Integers

CONSTANTS
  RingBits,         \* width of u16 (scaled)
  WideBits,         \* width of u64 (scaled)
  B_BITS,           \* threshold.rs B_BITS (scaled)
  IRIS_CODE_SIZE,   \* IrisCodeArray::IRIS_CODE_SIZE (scaled)
  RatioNum, RatioDen, \* MATCH_THRESHOLD_RATIO as a fraction
  Randoms,          \* the values rng.gen() may return for a share
  OverflowChecks    \* whether the build panics on integer overflow

ASSUME /\ B_BITS + RingBits <= WideBits
       /\ IRIS_CODE_SIZE < 2^(RingBits - 1)
       /\ Randoms \subseteq 0..(2^RingBits - 1)
       /\ OverflowChecks \in BOOLEAN

VARIABLES
  phase,    \* the step of the test being taken
  code,     \* a sampled code dot (u16)
  mask,     \* a sampled mask dot (u16)
  code_sh,  \* the share pair of the code dot held by each party
  mask_sh,  \* the share pair of the mask dot held by each party
  msb       \* the reference bit real_result_msb computed

vars == <<phase, code, mask, code_sh, mask_sh, msb>>

Parties == {0, 1, 2}
U16 == 2^RingBits
U16_MAX == U16 - 1

(* threshold.rs lines 21-22: B = 1 << B_BITS, A = ((1 - 2 ratio) B) as u64 *)
(* (truncation; exact for the ratio used).                                 *)
B == 2^B_BITS
A == ((RatioDen - 2 * RatioNum) * B) \div RatioDen

(* An unsigned subtraction of width w: None when it would overflow.         *)
Overflow == -1
Sub(x, y, w) ==
  IF x >= y THEN x - y
  ELSE IF OverflowChecks THEN Overflow ELSE (x - y) % 2^w
Add(x, y, w) ==
  IF x + y < 2^w THEN x + y
  ELSE IF OverflowChecks THEN Overflow ELSE (x + y) % 2^w

(* The signed value a u16 code dot stands for (negative when x was negated). *)
Signed(c) == IF c >= 2^(RingBits - 1) THEN c - U16 ELSE c

-----------------------------------------------------------------------------
(* Mutant: the negation computed without wrapping at x = 0.                *)
NegateCode_unwrapped(x) == U16_MAX - x + 1
(* Line 30: x = u16::MAX - x + 1, evaluated left to right.                *)
NegateCode(x) == LET t == Sub(U16_MAX, x, RingBits) IN
                 IF t = Overflow THEN Overflow ELSE Add(t, 1, RingBits)

(* A share pair whose computation overflowed.                              *)
Overflowed == <<Overflow, Overflow>>

(* Mutant: party 1 given (a, b) instead of (b, a).                         *)
rep_share_swapped(value, a, b, id) ==
  LET t == Sub(value, a, RingBits)
      c == IF t = Overflow THEN Overflow ELSE Sub(t, b, RingBits)
  IN IF c = Overflow THEN Overflowed
     ELSE CASE id = 0 -> <<a, c>> [] id = 1 -> <<a, b>> [] id = 2 -> <<c, b>>
(* Lines 43-54: c = value - a - b; party 0 holds (a, c), 1 (b, a), 2 (c, b).*)
rep_share(value, a, b, id) ==
  LET t == Sub(value, a, RingBits)
      c == IF t = Overflow THEN Overflow ELSE Sub(t, b, RingBits)
  IN IF c = Overflow THEN Overflowed
     ELSE CASE id = 0 -> <<a, c>> [] id = 1 -> <<b, a>> [] id = 2 -> <<c, b>>

(* Mutant: the operands of the subtraction swapped.                       *)
real_result_msb_swapped(c, m) ==
  LET r == Sub(c * B, m * A, WideBits) IN
  IF r = Overflow THEN Overflow
  ELSE ((r % 2^(RingBits + B_BITS)) \div 2^(B_BITS + RingBits - 1)) % 2
(* Lines 106-116: r = (m * A - (c << B_BITS)) % 2^(16 + B_BITS) in u64,    *)
(* msb = r >> (B_BITS + 16 - 1) & 1.                                       *)
real_result_msb(c, m) ==
  LET r == Sub(m * A, c * B, WideBits) IN
  IF r = Overflow THEN Overflow
  ELSE ((r % 2^(RingBits + B_BITS)) \div 2^(B_BITS + RingBits - 1)) % 2

-----------------------------------------------------------------------------
Init ==
  /\ phase = "sample"
  /\ code = 0 /\ mask = 0 /\ msb = 0
  /\ code_sh = [p \in Parties |-> <<0, 0>>]
  /\ mask_sh = [p \in Parties |-> <<0, 0>>]

(* sample_code_dots and sample_mask_dots, lines 24-41: x in               *)
(* 0..=IRIS_CODE_SIZE, negated when the coin says so; mask in the same    *)
(* range.                                                                  *)
Sample ==
  /\ phase = "sample"
  /\ \E x \in 0..IRIS_CODE_SIZE, neg \in BOOLEAN, m \in 0..IRIS_CODE_SIZE :
       LET c == IF neg THEN NegateCode(x) ELSE x IN
       /\ code' = c
       /\ mask' = m
       /\ phase' = IF c = Overflow THEN "panicked" ELSE "share"
  /\ UNCHANGED <<code_sh, mask_sh, msb>>

(* rep_share_vec, lines 56-65, for this party's id on both dots: every     *)
(* party draws the same a and b from the shared seed.                      *)
Share ==
  /\ phase = "share"
  /\ \E ca, cb, ma, mb \in Randoms :
       LET cs == [p \in Parties |-> rep_share(code, ca, cb, p)]
           ms == [p \in Parties |-> rep_share(mask, ma, mb, p)]
       IN IF \E p \in Parties : Overflowed \in {cs[p], ms[p]}
          THEN /\ phase' = "panicked"
               /\ UNCHANGED <<code_sh, mask_sh>>
          ELSE /\ code_sh' = cs
               /\ mask_sh' = ms
               /\ phase' = "reference"
  /\ UNCHANGED <<code, mask, msb>>

(* real_result_msb over the sampled dots.                                  *)
Reference ==
  /\ phase = "reference"
  /\ LET r == real_result_msb(code, mask) IN
       /\ msb' = r
       /\ phase' = IF r = Overflow THEN "panicked" ELSE "done"
  /\ UNCHANGED <<code, mask, code_sh, mask_sh>>

Stopped == phase \in {"done", "panicked"} /\ UNCHANGED vars

Next == Sample \/ Share \/ Reference \/ Stopped

Spec == Init /\ [][Next]_vars

-----------------------------------------------------------------------------
TypeOK ==
  /\ phase \in {"sample", "share", "reference", "done", "panicked"}
  /\ code \in 0..U16_MAX \cup {Overflow}
  /\ mask \in 0..IRIS_CODE_SIZE
  /\ msb \in {0, 1, Overflow}

(* The shares of every sampled value reconstruct it: the first shares of  *)
(* the three parties sum to the value mod 2^16, and each party's second   *)
(* share is its predecessor's first (2-out-of-3 replication).             *)
SharesReconstruct ==
  phase \in {"reference", "done"} =>
    \A sh \in {<<code_sh, code>>, <<mask_sh, mask>>} :
      /\ (sh[1][0][1] + sh[1][1][1] + sh[1][2][1]) % U16 = sh[2]
      /\ \A p \in Parties : sh[1][p][2] = sh[1][(p + 2) % 3][1]

(* The reference bit is 1 exactly when code * B > mask * A over the       *)
(* integers, i.e. code / mask is above the threshold 1 - 2 ratio: the     *)
(* 16 + B_BITS bit ring is wide enough that r never wraps past its sign.  *)
MsbIsThreshold ==
  phase = "done" => (msb = 1 <=> Signed(code) * B > mask * A)

(* Spec 4.2 and 8: the MSB of r is 1 exactly when the pair is not a match, *)
(* a match being c / m < MATCH_THRESHOLD_RATIO (for m > 0), as the         *)
(* reference real_result_msb computes it.                                   *)
MsbMeansNoMatch ==
  phase = "done" /\ mask > 0 =>
    (msb = 1 <=> ~(Signed(code) * RatioDen < RatioNum * mask))

(* No integer operation of the test overflows.                              *)
NoOverflowPanic == phase # "panicked"

=============================================================================
