----------------------------- MODULE MCSH4Tasks -----------------------------
(* SH4Tasks for TLC: three tasks, register files with two contents.          *)
EXTENDS SH4Tasks
MCValues == {0, 1}
=============================================================================
