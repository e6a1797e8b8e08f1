---------------------------- MODULE VBlankClock -----------------------------
(***************************************************************************)
(* The 60Hz clock of src/src/recompiler/sh4_cpu.c: every 32nd interrupt     *)
(* poll looks at the wall clock and raises VBlank-IN when a frame has       *)
(* passed, or else pays one of the frames the game is owed for time a disc  *)
(* read took (g_owed_vblanks, lines 237-253 and 313-344).                  *)
(*                                                                         *)
(* `elapsed' is now - g_last_vblank_ms, held at FrameMs once it is there:   *)
(* the code only asks whether a frame has passed.  DCRECOMP_VBLANK_POLLS,   *)
(* a debugging clock, is not modelled.                                     *)
(***************************************************************************)
EXTENDS Integers

CONSTANTS
  TickGate,  \* polls per look at the wall clock: 32 in the code
  FrameMs,   \* milliseconds per frame: 16 in the code
  OwedCap    \* most frames ever owed: 60 in the code

ASSUME ClockAssumption ==
  /\ TickGate \in Nat \ {0}
  /\ FrameMs \in Nat \ {0}
  /\ OwedCap \in Nat

VARIABLES
  tick,     \* tick modulo TickGate
  elapsed,  \* now - g_last_vblank_ms, -1 until the first look sets it
  owedMs,   \* g_owed_ms: credit that has not added up to a frame
  owed      \* g_owed_vblanks

clockVars == <<tick, elapsed, owedMs, owed>>

ClockInit == tick = 0 /\ elapsed = -1 /\ owedMs = 0 /\ owed = 0

ClockTypeOK ==
  /\ tick \in 0 .. TickGate - 1
  /\ elapsed \in -1 .. FrameMs
  /\ owedMs \in 0 .. FrameMs - 1
  /\ owed \in 0 .. OwedCap

-----------------------------------------------------------------------------
(* Time passes on the host while the game's code runs. *)
MsPasses == /\ elapsed \in 0 .. FrameMs - 1
            /\ elapsed' = elapsed + 1
            /\ UNCHANGED <<tick, owedMs, owed>>

(* The poll that increments `tick' to a multiple of 32 opens the gate. *)
GateOpen == tick = TickGate - 1

RaisesOwedOnly == GateOpen /\ elapsed < FrameMs /\ owed > 0  \* mutant: the clock's frame is dropped

(* A poll raises VBlank for the wall clock, or pays a frame that is owed. *)
FrameDue == GateOpen /\ elapsed = FrameMs
FramePaid == GateOpen /\ elapsed < FrameMs /\ owed > 0
RaisesVBlank == FrameDue \/ FramePaid

(* The clock's part of sh4_poll_irq. *)
ClockStep ==
  /\ tick' = IF GateOpen THEN 0 ELSE tick + 1
  /\ elapsed' = IF FrameDue \/ (GateOpen /\ elapsed = -1) THEN 0 ELSE elapsed
  /\ owed' = IF FramePaid THEN owed - 1 ELSE owed
  /\ UNCHANGED owedMs

Uncapped(n) == n  \* mutant: no limit

Capped(n) == IF n > OwedCap THEN OwedCap ELSE n

CreditDropsMs(ms) ==  \* mutant: the remainder is dropped
  /\ owed' = Capped(owed + ms \div FrameMs)
  /\ UNCHANGED <<tick, elapsed, owedMs>>

CreditKeepsMs(ms) ==  \* mutant: the remainder is not reduced
  /\ owed' = Capped(owed + (owedMs + ms) \div FrameMs)
  /\ owedMs' = owedMs + ms
  /\ UNCHANGED <<tick, elapsed>>

(* sh4_credit_elapsed_ms(ms) *)
Credit(ms) ==
  /\ owed' = Capped(owed + (owedMs + ms) \div FrameMs)
  /\ owedMs' = (owedMs + ms) % FrameMs
  /\ UNCHANGED <<tick, elapsed>>
=============================================================================
