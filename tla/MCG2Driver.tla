----------------------------- MODULE MCG2Driver -----------------------------
(* G2Driver and G2Polling for TLC: lengths below, at and above one poll's   *)
(* worth of bytes.                                                         *)
EXTENDS G2Polling
MCLengths == {0, 2, 4, 7}
=============================================================================
