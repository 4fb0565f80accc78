--------------------------- MODULE MCSharesDecoding ---------------------------
(* SharesDecoding for party 2 with the code's retry strategy (take(5)):    *)
(* no transport error, as many as it absorbs, and one more; two rotations. *)
EXTENDS SharesDecoding

MCFaultCounts == {0, 5, 6}
MCJsonTexts == {"canonical", "reordered"}
====
