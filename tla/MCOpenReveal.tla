----------------------------- MODULE MCOpenReveal -----------------------------
(* Model-checking instance of OpenReveal.                                  *)
EXTENDS OpenReveal

(* Two sharings: with a = 0 and with a = 1 (b = 0).  Every party's pair    *)
(* differs between them, so a share of the wrong round changes the XOR.   *)
MCMasks == {<<0, 0>>, <<1, 0>>}
=============================================================================
