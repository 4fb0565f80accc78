------------------------------ MODULE MCThreshold ------------------------------
(* Threshold at scaled widths: u16 as 6 bits, u64 as 16 bits, B_BITS = 2,  *)
(* IRIS_CODE_SIZE = 12 (the same share of the u16 range as 12800 of 2^16), *)
(* MATCH_THRESHOLD_RATIO = 3/8, so A / B = 1/4 as in the test.             *)
EXTENDS Threshold

(* Share randomness: zero, a small value and the largest u16, so that      *)
(* value - a - b both stays in range and wraps.                            *)
MCRandoms == {0, 5, 63}
====
