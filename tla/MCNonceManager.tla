--------------------------- MODULE MCNonceManager ---------------------------
(* Bounds for TLC: u32 words of three values and a clock that jumps back    *)
(* and beyond the largest epoch.                                            *)
EXTENDS NonceManager

MCClockValues == {0, 2, 4}
=============================================================================
