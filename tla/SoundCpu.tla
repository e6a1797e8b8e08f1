------------------------------ MODULE SoundCpu ------------------------------
(***************************************************************************)
(* The sound processor and its interrupt registers (src/src/hal/            *)
(* dc_hardware.c lines 731-918 and 1199-1242, src/src/hal/arm7.c).  Two     *)
(* processors share the registers but not a thread: dc_aica_update, called   *)
(* from a poll in an SH-4 memory read, runs the ARM7 for a burst of          *)
(* instructions, and the SH-4 does nothing until the burst is over.  Both    *)
(* clocks go on meanwhile.                                                 *)
(*                                                                         *)
(* Of the processor's state only the F bit matters here, and whether it is in *)
(* FIQ mode; Arm7 has the rest.  The interrupts towards the SH-4 (MCIPD) are in IrqDelivery.  Sources are  *)
(* the bits of SCIPD.  The microsecond clock is counted in samples, and the  *)
(* millisecond clock, which is a coarser one, in its own ticks; the two      *)
(* advance independently.  Only the SH-4 writes the reset register.         *)
(***************************************************************************)
EXTENDS Naturals

CONSTANTS
  Sources, Timer,    \* interrupt bits of SCIPD; Timer is AICA_INT_TIMER_A
  TimerSpan,         \* 256: samples or prescaled samples to an overflow
  Divider,           \* 2^p for the prescaler p of Timer A
  PerTick,           \* instructions owed for a tick: hz / 1000 each ms
  MaxBurst, MaxDebt, \* ARM7_MAX_BURST, ARM7_MAX_DEBT
  MaxLate            \* bound: ticks and samples between two polls

ASSUME SoundAssumption ==
  /\ Timer \in Sources
  /\ TimerSpan \in Nat \ {0} /\ Divider \in Nat \ {0} /\ PerTick \in Nat
  /\ MaxBurst \in Nat \ {0} /\ MaxDebt \in Nat \ {0} /\ MaxLate \in Nat \ {0}

VARIABLES
  psr,            \* g_arm7.cpsr: [inFiq, fiqOff]
  scipd, scieb,   \* pending and enabled sources
  line,           \* g_fiq_line
  lowered,        \* history: arm7_init put the line down since it was set last
  wired,          \* g_arm7_wired
  held,           \* bit 0 of the reset register
  running,        \* g_arm7.running
  count,          \* low byte of Timer A
  samples,        \* samples since last_us; NoTime before the first call
  missed,         \* history: samples counted by no timer tick, up to Divider
  late,           \* ticks since arm_last_ms; NoTime before the first call
  debt,           \* arm_debt
  burst,          \* instructions left of the arm7_run that is running
  unrun,          \* history: instructions owed for time passed, and not run
  capped          \* history: the debt was cut to MaxDebt

NoTime == MaxLate + 1

intVars == <<scipd, scieb, line, lowered>>
resetVars == <<wired, held, running>>
timerVars == <<count, samples, missed>>
debtVars == <<late, debt, burst, unrun, capped>>
vars == <<psr, intVars, resetVars, timerVars, debtVars>>

Psr == [inFiq : BOOLEAN, fiqOff : BOOLEAN]

ResetPsr == [inFiq |-> FALSE, fiqOff |-> TRUE]

Init ==
  /\ psr = ResetPsr
  /\ scipd = {} /\ scieb = {} /\ line = FALSE /\ lowered = FALSE
  /\ wired = FALSE /\ held = FALSE /\ running = FALSE
  /\ count = 0 /\ samples = NoTime /\ missed = 0
  /\ late = NoTime /\ debt = 0 /\ burst = 0 /\ unrun = 0 /\ capped = FALSE

-----------------------------------------------------------------------------
(* dc_aica_reg_write, by either processor.                                  *)

(* aica_refresh_fiq *)
RefreshFiq(pending, enabled) ==
  /\ line' = (pending \cap enabled # {})
  /\ lowered' = FALSE

WriteScipd(S) ==
  /\ scipd' = S /\ UNCHANGED scieb
  /\ RefreshFiq(S, scieb)

WriteSciebUnrefreshed(S) ==  \* mutant: the refresh for SCIEB left out
  /\ scieb' = S /\ UNCHANGED <<scipd, line, lowered>>

WriteScieb(S) ==
  /\ scieb' = S /\ UNCHANGED scipd
  /\ RefreshFiq(scipd, S)

(* SCIRE: SCIPD clears through it. *)
WriteScire(S) ==
  /\ scipd' = scipd \ S /\ UNCHANGED scieb
  /\ RefreshFiq(scipd \ S, scieb)

WriteIntClear ==
  /\ UNCHANGED <<scipd, scieb>>
  /\ RefreshFiq(scipd, scieb)

WriteInterruptRegister ==
  /\ \/ \E S \in SUBSET Sources : WriteScipd(S) \/ WriteScieb(S) \/ WriteScire(S)
     \/ WriteIntClear
  /\ UNCHANGED <<resetVars, count>>

(* The timer register holds what is written.  Its prescaler, which is Divider, *)
(* is left as it is.                                                        *)
WriteTimer ==
  /\ count' \in 0 .. TimerSpan - 1
  /\ UNCHANGED <<intVars, resetVars>>

WriteRegister ==
  /\ WriteInterruptRegister \/ WriteTimer
  /\ UNCHANGED <<samples, missed>>

(* Bit 0 of 0x2C00, by the SH-4.  Releasing wires the processor up the first *)
(* time (arm7_init, which drops the FIQ line) and restarts it; a processor   *)
(* that runs is left alone.                                                 *)
Hold ==
  /\ held' = TRUE /\ running' = FALSE
  /\ UNCHANGED <<psr, intVars, wired>>

Release ==
  /\ held /\ held' = FALSE
  /\ wired' = TRUE /\ running' = TRUE
  /\ IF wired THEN UNCHANGED <<line, lowered>>
              ELSE line' = FALSE /\ lowered' = (lowered \/ line)
  /\ psr' = (IF running THEN psr ELSE ResetPsr)
  /\ UNCHANGED <<scipd, scieb>>

Sh4Write ==
  /\ burst = 0
  /\ \/ WriteRegister /\ UNCHANGED psr
     \/ (Hold \/ Release) /\ UNCHANGED timerVars
  /\ UNCHANGED debtVars

-----------------------------------------------------------------------------
(* The host's clocks.                                                       *)
Tick ==
  /\ late < MaxLate
  /\ late' = late + 1
  /\ unrun' = IF capped THEN 0 ELSE unrun + PerTick
  /\ UNCHANGED <<psr, intVars, resetVars, timerVars, debt, burst, capped>>

Sample ==
  /\ samples < MaxLate
  /\ samples' = samples + 1
  /\ UNCHANGED <<psr, intVars, resetVars, count, missed, debtVars>>

(* aica_advance_timer_a.  frac_us carries what is less than a sample; what    *)
(* the prescaler shifts out is dropped.                                     *)
Least(a, b) == IF a < b THEN a ELSE b
Counted == samples \div Divider

AdvanceTimer ==
  \/ /\ samples \in {0, NoTime}
     /\ samples' = 0
     /\ UNCHANGED <<intVars, count, missed>>
  \/ /\ samples \notin {0, NoTime}
     /\ samples' = 0
     /\ count' = (count + Counted) % TimerSpan
     /\ missed' = Least(Divider, missed + (samples % Divider))
     /\ IF count + Counted >= TimerSpan
        THEN /\ scipd' = scipd \cup {Timer}
             /\ RefreshFiq(scipd \cup {Timer}, scieb)
             /\ UNCHANGED scieb
        ELSE UNCHANGED intVars

(* The debt dc_aica_update has before the burst, and the burst. *)
Owed == debt + (IF late = NoTime THEN 0 ELSE late * PerTick)
OwedThenReset == IF Owed > MaxDebt THEN 0 ELSE Owed  \* mutant: over the ceiling, start again
CappedDebt == Least(Owed, MaxDebt)

(* dc_aica_update.  The ceiling is the one place where time is given up. *)
StartBurstForgets ==  \* mutant: what the burst does not cover is thrown away
  /\ burst' = Least(CappedDebt, MaxBurst)
  /\ debt' = 0

StartBurst ==
  /\ burst' = Least(CappedDebt, MaxBurst)
  /\ debt' = CappedDebt - burst'

Poll ==
  /\ burst = 0 /\ running
  /\ AdvanceTimer
  /\ StartBurst
  /\ late' = 0
  /\ capped' = (capped \/ Owed > MaxDebt)
  /\ unrun' = IF capped' THEN 0 ELSE unrun
  /\ UNCHANGED <<psr, resetVars>>

-----------------------------------------------------------------------------
(* step: the FIQ is looked at before every instruction.                    *)
FiqWaits == line /\ ~psr.fiqOff

FiqEntry ==
  /\ FiqWaits
  /\ psr' = [inFiq |-> TRUE, fiqOff |-> TRUE]
  /\ UNCHANGED <<intVars, resetVars, timerVars>>

(* A software interrupt, an MSR or an exception return may leave any mode and *)
(* F bit.                                                                   *)
Instruction ==
  \/ psr' \in Psr /\ UNCHANGED <<intVars, resetVars, timerVars>>
  \/ WriteRegister /\ UNCHANGED psr

Step == FiqEntry \/ (~FiqWaits /\ Instruction)

RunStep ==
  /\ burst > 0 /\ burst' = burst - 1
  /\ unrun' = IF capped THEN 0 ELSE unrun - 1
  /\ UNCHANGED <<late, debt, capped>>

ArmStep == RunStep /\ Step

Next == Sh4Write \/ Tick \/ Sample \/ Poll \/ ArmStep

Spec == Init /\ [][Next]_vars

(* The host's clock advances, the game goes on reading memory, so that it     *)
(* polls, and a burst that was started runs.                                *)
FairSpec == Spec /\ WF_vars(Tick) /\ WF_vars(Poll) /\ WF_vars(ArmStep)

-----------------------------------------------------------------------------
(* Every variable has its type: a burst within ARM7_MAX_BURST, a debt within  *)
(* ARM7_MAX_DEBT, a timer within its byte (dc_hardware.c 789-802, 1227-1237). *)
TypeOK ==
  /\ psr \in Psr
  /\ scipd \subseteq Sources /\ scieb \subseteq Sources
  /\ line \in BOOLEAN /\ lowered \in BOOLEAN
  /\ wired \in BOOLEAN /\ held \in BOOLEAN /\ running \in BOOLEAN
  /\ count \in 0 .. TimerSpan - 1 /\ samples \in 0 .. NoTime
  /\ missed \in 0 .. Divider
  /\ late \in 0 .. NoTime /\ debt \in 0 .. MaxDebt /\ burst \in 0 .. MaxBurst
  /\ unrun \in Nat /\ capped \in BOOLEAN

(* dc_hardware.c:804: "FIQ tracks pending-and-enabled continuously", whichever *)
(* of the two processors changed which register last.  The one exception is   *)
(* the first release (arm7_init), until the next refresh.                   *)
LineTracksPending == line = (scipd \cap scieb # {}) \/ (lowered /\ ~line)

(* dc_hardware.c 1204-1212: the debt keeps the time a burst could not use.    *)
(* Until the ceiling was hit, what the processor has not run is what it owes. *)
NoTimeLost ==
  capped \/ unrun = (IF late = NoTime THEN 0 ELSE late * PerTick) + debt + burst

(* dc_hardware.c 763-765: Timer A counts the sample clock whether or not the  *)
(* processor beside it, or the SH-4 that polls, is busy: it never falls a     *)
(* whole tick of its prescaler behind.                                      *)
TimerKeepsPace == missed < Divider

(* A raised FIQ line is answered: a driver that does not mask FIQ for ever    *)
(* enters FIQ mode, unless the line goes down or the processor is held       *)
(* (step, arm7.c 364-368, fed by the debt of dc_aica_update).               *)
FiqServed ==
  []<>(~psr.fiqOff) =>
    ((line /\ running) ~> (psr.inFiq \/ ~line \/ ~running))
=============================================================================
