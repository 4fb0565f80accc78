----------------------------- MODULE MCNcclBench -----------------------------
(* NcclBench with two devices per host and two-byte ids over the byte     *)
(* values at the edges of the i8 -> u8 conversion.                         *)
EXTENDS NcclBench

MCByteVals == {-128, -1, 0, 127}
====
