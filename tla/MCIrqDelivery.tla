---------------------------- MODULE MCIrqDelivery ---------------------------
(* IrqDelivery for TLC: a G2 channel's completion (15) and VBlank (3), with  *)
(* the GD-ROM (14 and 30, external bit 0) and disc reads in the safety run  *)
(* and the sound processor (30, external bit 1) in the liveness run.  VBlank *)
(* is unrouted, at level 11; level 9 lies below it and level 13 above, and  *)
(* IMASK 9 tells the three apart.                                          *)
EXTENDS IrqDelivery
MCDmaBits == {15}
MCSrValues == {OpenSr, ResetSr, [bl |-> FALSE, imask |-> 9]}

Route(l, S) == [level |-> l, mask |-> S]

SafetyEvents == {[nrm |-> {14, 30}, ext |-> {0}]}
SafetyDiscReadMs == {1}
SafetyNrmRoutes == {Route(9, {15}), Route(13, {15})}
SafetyExtRoutes == {Route(9, {0})}

LiveEvents == {}
LiveDiscReadMs == {}
LiveNrmRoutes == {Route(9, {15})}
LiveExtRoutes == {Route(9, {1})}
=============================================================================
