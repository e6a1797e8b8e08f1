------------------------------ MODULE MCGdRom -------------------------------
(* GdRom for TLC: 2 sectors take 2ms, 4 take 4ms, and a frame 3ms.           *)
EXTENDS GdRom
CONSTANTS main, irq
BothDrivers == {main, irq}
MCSectorCounts == {0, 2, 4}
=============================================================================
