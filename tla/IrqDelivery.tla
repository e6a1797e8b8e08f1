---------------------------- MODULE IrqDelivery -----------------------------
(***************************************************************************)
(* Interrupt delivery: the Holly status and mask registers (SB_ISTNRM,      *)
(* SB_ISTEXT, SB_IMLxNRM, SB_IMLxEXT of src/src/hal/dc_hardware.c), the      *)
(* SH-4's own masking (SR.BL, SR.IMASK) and sh4_poll_irq of                 *)
(* src/src/recompiler/sh4_cpu.c (lines 178-412), which calls the game's       *)
(* handler between two memory reads of the code it interrupts.             *)
(*                                                                         *)
(* Everything runs on one host thread.  What interleaves is the game's main *)
(* code, its handler (entered from a poll of the main code, itself reading  *)
(* memory and so polling), and the devices, which finish inside polls and   *)
(* register accesses.  A status register is the set of its bits.           *)
(*                                                                         *)
(* g_irq_repeats grows without bound in the code; past BackoffFree only its *)
(* value modulo BackoffPeriod is looked at, so it is kept below             *)
(* 2 * BackoffPeriod.                                                      *)
(***************************************************************************)
EXTENDS VBlankClock

CONSTANTS
  DmaBits,        \* bits dc_g2_retire_finished may raise: 15..18
  Events,         \* completions raised at once by the game's own accesses
  DiscReadMs,     \* lengths of disc read the game is credited, in ms
  AicaSignals,    \* may the sound processor signal the SH-4 in a poll?
  NrmRoutes,      \* the game's writes to SB_IMLxNRM: [level, mask]
  ExtRoutes,      \* the game's writes to SB_IMLxEXT
  SrValues,       \* values it gives SR.BL and SR.IMASK
  BackoffFree,    \* deliveries of an unchanged set before backing off: 8
  BackoffPeriod   \* then one poll in this many delivers: 64

VBL_IN == 3           \* SB_ISTNRM bit 3
EXT_SUMMARY == 30     \* SB_ISTNRM bit 30, set with every external interrupt
EXT_GDROM == 0        \* SB_ISTEXT bit 0
EXT_AICA == 1         \* SB_ISTEXT bit 1

(* Holly's three interrupt levels as SH-4 IRL numbers. *)
Levels == {13, 11, 9}
MidLevel == 11

NrmBits == 0 .. 31
ExtBits == 0 .. 3

ASSUME IrqAssumption ==
  /\ DmaBits \subseteq 15 .. 18
  /\ Events \subseteq [nrm : SUBSET NrmBits, ext : SUBSET ExtBits]
  /\ AicaSignals \in BOOLEAN
  /\ DiscReadMs \subseteq Nat
  /\ NrmRoutes \subseteq [level : Levels, mask : SUBSET NrmBits]
  /\ ExtRoutes \subseteq [level : Levels, mask : SUBSET ExtBits]
  /\ SrValues \subseteq [bl : BOOLEAN, imask : 0 .. 15]
  /\ BackoffFree \in Nat /\ BackoffPeriod \in Nat
  /\ BackoffFree < BackoffPeriod

VARIABLES
  istnrm, istext,    \* SB_ISTNRM and SB_ISTEXT
  nrmMask, extMask,  \* SB_IMLxNRM and SB_IMLxEXT, by level
  sr,                \* the SH-4's status register: [bl, imask]
  handler,           \* g_irq_handler # NULL
  inIrq,             \* g_in_irq
  frame,             \* the SR saved in the interrupt frame while inIrq
  lastPend,          \* g_last_pend
  repeats,           \* g_irq_repeats
  skips,             \* history: deliverable polls skipped since a delivery,
                     \* counted up to BackoffPeriod
  startedOn,         \* history: the pending word when the handler last started
  unserved,          \* history: DMA bits raised since the handler last started
  gameSr             \* history: SR as the game's main code left it

sbVars == <<istnrm, istext, nrmMask, extMask>>
backoffVars == <<lastPend, repeats, skips, startedOn>>
contextVars == <<inIrq, frame>>
vars == <<clockVars, sbVars, sr, handler, contextVars, backoffVars, unserved, gameSr>>

ResetSr == [bl |-> TRUE, imask |-> 15]  \* sh4_reset
OpenSr == [bl |-> FALSE, imask |-> 0]
NoFrame == OpenSr  \* the frame is a local variable; this is its absence

Init ==
  /\ ClockInit
  /\ istnrm = {} /\ istext = {}
  /\ nrmMask = [l \in Levels |-> {}]
  /\ extMask = [l \in Levels |-> {}]
  /\ sr = ResetSr /\ gameSr = ResetSr /\ frame = NoFrame
  /\ handler = FALSE /\ inIrq = FALSE
  /\ lastPend = {} /\ repeats = 0 /\ skips = 0 /\ startedOn = {}
  /\ unserved = {}

-----------------------------------------------------------------------------
(* DMA completions among the bits that rise are work the handler has not    *)
(* seen.                                                                   *)
NewWork(nrm) == unserved \cup ((nrm \ istnrm) \cap DmaBits)

RaiseTo(nrm, ext) ==
  /\ istnrm' = nrm /\ istext' = ext
  /\ unserved' = NewWork(nrm)

(* A register access that completes at once: STARTRENDER, CH2-DMA, Maple,   *)
(* sort DMA, PVR DMA, the GD-ROM's signal_complete.                        *)
Raise(e) ==
  /\ RaiseTo(istnrm \cup e.nrm, istext \cup e.ext)
  /\ UNCHANGED <<clockVars, nrmMask, extMask, sr, handler, contextVars, backoffVars, gameSr>>

(* dc_hw_write32 on SB_ISTNRM and SB_ISTEXT: a written 1 clears the bit. *)
AckNrm(S) ==
  /\ istnrm' = istnrm \ S /\ unserved' = unserved \ S
  /\ UNCHANGED <<clockVars, istext, nrmMask, extMask, sr, handler, contextVars, backoffVars, gameSr>>

AckExt(S) ==
  /\ istext' = istext \ S
  /\ UNCHANGED <<clockVars, istnrm, nrmMask, extMask, sr, handler, contextVars, backoffVars, unserved, gameSr>>

(* The default branch of dc_hw_write32 stores the mask registers. *)
RouteNrm(w) ==
  /\ nrmMask' = [nrmMask EXCEPT ![w.level] = w.mask]
  /\ UNCHANGED <<clockVars, istnrm, istext, extMask, sr, handler, contextVars, backoffVars, unserved, gameSr>>

RouteExt(w) ==
  /\ extMask' = [extMask EXCEPT ![w.level] = w.mask]
  /\ UNCHANGED <<clockVars, istnrm, istext, nrmMask, sr, handler, contextVars, backoffVars, unserved, gameSr>>

(* sh4_set_irq_handler *)
SetHandler(registered) ==
  /\ handler' = registered
  /\ UNCHANGED <<clockVars, sbVars, sr, contextVars, backoffVars, unserved, gameSr>>

(* ldc Rn,SR: entering or leaving a critical section, in the main code or   *)
(* in the handler.                                                         *)
SetSr(value) ==
  /\ sr' = value
  /\ gameSr' = IF inIrq THEN gameSr ELSE sr'
  /\ UNCHANGED <<clockVars, sbVars, handler, contextVars, backoffVars, unserved>>

HostTime ==
  /\ MsPasses
  /\ UNCHANGED <<sbVars, sr, handler, contextVars, backoffVars, unserved, gameSr>>

(* A disc read (gdc_exec of src/src/hal/dc_bios.c) credits its length. *)
DiscRead(ms) ==
  /\ Credit(ms)
  /\ UNCHANGED <<sbVars, sr, handler, contextVars, backoffVars, unserved, gameSr>>

-----------------------------------------------------------------------------
Highest(S) == CHOOSE l \in S : \A k \in S : k <= l

NrmHits(nrm) == {l \in Levels : nrm \cap nrmMask[l] # {}}
ExtHits(ext) == {l \in Levels : ext \cap extMask[l] # {}}

(* vblank_irl_level: the level something pending is routed to, the normal   *)
(* sources before the external ones; an unrouted VBlank gets the middle     *)
(* level; 0 when there is nothing to deliver.                              *)
IrlLevel(nrm, ext) ==
  IF nrm = {} THEN 0
  ELSE IF NrmHits(nrm) # {} THEN Highest(NrmHits(nrm))
  ELSE IF ExtHits(ext) # {} THEN Highest(ExtHits(ext))
  ELSE IF VBL_IN \in nrm THEN MidLevel
  ELSE 0

AcceptsEqual(level) == ~sr.bl /\ sr.imask <= level  \* mutant

(* SR.BL blocks everything, SR.IMASK any level at or below it. *)
Accepts(level) == ~sr.bl /\ sr.imask < level

(* The word the back-off compares: SB_ISTNRM xor SB_ISTEXT. *)
PendWord(nrm, ext) == (nrm \ ext) \cup (ext \ nrm)

PendSampled(nrm, late, ext) == PendWord(nrm, ext)  \* mutant: not read again

(* pend_now: the registers are read again after vblank_irl_level's mask     *)
(* reads, so the bits those retired late count as well.                    *)
PendNow(nrm, late, ext) == PendWord(nrm \cup late, ext)

(* g_irq_repeats once the pending word has been compared. *)
Repeats(pend) == IF pend # lastPend THEN 0 ELSE repeats

BackedOffForever(n) == n > BackoffFree  \* mutant: no one in sixty-four

BackedOff(n) == n > BackoffFree /\ n # BackoffPeriod

NextRepeat(n) == IF n + 1 = 2 * BackoffPeriod THEN BackoffPeriod ELSE n + 1

(* The outcomes of a poll once the devices and the clock have run: lines     *)
(* 345, 356, 357-361, 381-382 and 383-401.                                 *)
NoHandler == ~handler /\ UNCHANGED <<contextVars, backoffVars>>

NothingRouted(level) ==
  /\ handler /\ level = 0
  /\ repeats' = 0 /\ skips' = 0
  /\ UNCHANGED <<contextVars, lastPend, startedOn>>

Masked(level) ==
  /\ handler /\ level # 0 /\ ~Accepts(level)
  /\ UNCHANGED <<contextVars, backoffVars>>

OneMoreSkip == IF skips < BackoffPeriod THEN skips + 1 ELSE skips

SkipUncounted(level, pend) ==  \* mutant: a skip does not count as a repeat
  /\ handler /\ level # 0 /\ Accepts(level) /\ BackedOff(Repeats(pend))
  /\ lastPend' = pend
  /\ repeats' = Repeats(pend)
  /\ skips' = OneMoreSkip
  /\ UNCHANGED <<contextVars, startedOn>>

Skip(level, pend) ==
  /\ handler /\ level # 0 /\ Accepts(level) /\ BackedOff(Repeats(pend))
  /\ lastPend' = pend
  /\ repeats' = NextRepeat(Repeats(pend))
  /\ skips' = OneMoreSkip
  /\ UNCHANGED <<contextVars, startedOn>>

Deliver(level, pend) ==
  /\ handler /\ level # 0 /\ Accepts(level) /\ ~BackedOff(Repeats(pend))
  /\ lastPend' = pend
  /\ repeats' = NextRepeat(Repeats(pend))
  /\ skips' = 0 /\ startedOn' = PendWord(istnrm', istext')
  /\ inIrq' = TRUE /\ frame' = sr

Decide(level, pend) ==
  \/ NoHandler
  \/ NothingRouted(level)
  \/ Masked(level)
  \/ Skip(level, pend)
  \/ Deliver(level, pend)

(* What the devices leave in the status registers: finished DMAs, and the   *)
(* sound processor's signal (dc_hw_signal_aica).                           *)
SignalledNrm(done, signal) ==
  istnrm \cup done \cup IF signal THEN {EXT_SUMMARY} ELSE {}
SignalledExt(signal) == istext \cup IF signal THEN {EXT_AICA} ELSE {}

ClockWhenIdle ==  \* mutant: asked only with nothing pending
  IF istnrm = {} THEN ClockStep ELSE UNCHANGED clockVars

(* The clock runs on every poll, whatever is pending (lines 307-313). *)
RunClock == ClockStep

(* sh4_poll_irq outside the handler.  `done' are the DMAs retired on entry,  *)
(* `late' those retired by the mask reads of vblank_irl_level, after it has *)
(* sampled SB_ISTNRM: they are pending but had no say in the level.         *)
Poll(done, signal, late) ==
  LET ext == SignalledExt(signal)
      nrm == SignalledNrm(done, signal) \cup IF RaisesVBlank THEN {VBL_IN} ELSE {}
  IN /\ ~inIrq
     /\ late = {} \/ (handler /\ nrm # {})
     /\ RunClock
     /\ istnrm' = nrm \cup late /\ istext' = ext
     /\ Decide(IrlLevel(nrm, ext), PendNow(nrm, late, ext))
     /\ unserved' = IF inIrq' THEN {} ELSE NewWork(istnrm')
     /\ UNCHANGED <<nrmMask, extMask, sr, handler, gameSr>>

(* sh4_poll_irq inside the handler: the devices run, then it returns. *)
NestedPoll(done, signal) ==
  /\ inIrq
  /\ RaiseTo(SignalledNrm(done, signal), SignalledExt(signal))
  /\ UNCHANGED <<clockVars, nrmMask, extMask, sr, handler, contextVars, backoffVars, gameSr>>

(* A register read between polls retires finished DMAs too. *)
RegisterRead(done) == Raise([nrm |-> done, ext |-> {}])

ReturnKeepsSr ==  \* mutant: SR left as the handler had it
  /\ inIrq
  /\ inIrq' = FALSE /\ frame' = NoFrame
  /\ UNCHANGED <<clockVars, sbVars, sr, handler, backoffVars, unserved, gameSr>>

(* The handler returns; sh4_poll_irq puts the interrupted state back. *)
HandlerReturn ==
  /\ inIrq
  /\ inIrq' = FALSE /\ sr' = frame /\ frame' = NoFrame
  /\ UNCHANGED <<clockVars, sbVars, handler, backoffVars, unserved, gameSr>>

Signals == IF AicaSignals THEN BOOLEAN ELSE {FALSE}

AnyPoll == \E done, late \in SUBSET DmaBits, signal \in Signals :
             Poll(done, signal, late)

Next ==
  \/ HostTime
  \/ \E ms \in DiscReadMs : DiscRead(ms)
  \/ AnyPoll
  \/ \E done \in SUBSET DmaBits, signal \in Signals : NestedPoll(done, signal)
  \/ \E done \in SUBSET DmaBits : RegisterRead(done)
  \/ \E e \in Events : Raise(e)
  \/ \E S \in SUBSET istnrm : AckNrm(S)
  \/ \E S \in SUBSET istext : AckExt(S)
  \/ \E w \in NrmRoutes : RouteNrm(w)
  \/ \E w \in ExtRoutes : RouteExt(w)
  \/ \E registered \in BOOLEAN : SetHandler(registered)
  \/ \E value \in SrValues : SetSr(value)
  \/ HandlerReturn

Spec == Init /\ [][Next]_vars

(* The fairness of a game that has not hung, which is what the comment at    *)
(* sh4_cpu.c:300-306 takes for granted: it keeps reading memory, its handler *)
(* returns, its main code leaves every critical section, and some of its    *)
(* reads happen outside them.                                              *)
LeaveCritical == ~inIrq /\ SetSr(OpenSr)
OpenPoll == sr = OpenSr /\ AnyPoll

Fairness ==
  /\ WF_vars(AnyPoll)
  /\ WF_vars(HandlerReturn)
  /\ SF_vars(LeaveCritical)
  /\ SF_vars(OpenPoll)

FairSpec == Spec /\ Fairness

-----------------------------------------------------------------------------
TypeOK ==
  /\ ClockTypeOK
  /\ istnrm \in SUBSET NrmBits /\ istext \in SUBSET ExtBits
  /\ nrmMask \in [Levels -> SUBSET NrmBits]
  /\ extMask \in [Levels -> SUBSET ExtBits]
  /\ {sr, frame, gameSr} \subseteq [bl : BOOLEAN, imask : 0 .. 15]
  /\ handler \in BOOLEAN /\ inIrq \in BOOLEAN
  /\ lastPend \in SUBSET NrmBits
  /\ repeats \in 0 .. 2 * BackoffPeriod - 1
  /\ skips \in 0 .. BackoffPeriod
  /\ startedOn \in SUBSET NrmBits
  /\ unserved \in SUBSET DmaBits

(* The back-off never costs more than BackoffPeriod - 1 deliverable polls in *)
(* a row, whatever sets come and go, whichever polls are masked and however *)
(* the counter is reset (sh4_cpu.c:363-365, "one in sixty-four").           *)
BackoffBounded == skips < BackoffPeriod

(* Whatever the handler does to SR, and whenever it is entered, the main    *)
(* code finds its own SR again: a critical section it opened is still open  *)
(* and one it closed is still closed (sh4_cpu.c:160-167, 385-411).          *)
GameKeepsItsSr == ~inIrq => sr = gameSr

(* "Only an unchanging set backs off" (sh4_cpu.c:376-379): a deliverable     *)
(* poll is skipped only if the word it leaves is the one the handler last   *)
(* started with, whatever rose, was acknowledged or was masked in between,  *)
(* and whatever the mask reads of the same poll retired after the level was *)
(* chosen.  The converse, that every change is delivered at once, is false: *)
(* a bit acknowledged and raised again leaves the word as it was.           *)
OnlyUnchangedBacksOff ==
  [][skips' > skips => PendWord(istnrm', istext') = startedOn]_vars

(* The handler is entered only for a source the game has routed above its   *)
(* IMASK (or for VBlank unrouted, at the middle level), with SR.BL clear    *)
(* and not on top of itself.                                               *)
Entered == ~inIrq /\ inIrq'
DeliversOnlyUnmasked ==
  [][Entered =>
       /\ ~gameSr.bl
       /\ \E l \in Levels :
            /\ gameSr.imask < l
            /\ \/ \E b \in istnrm' : b \in nrmMask[l]
               \/ \E b \in istext' : b \in extMask[l]
               \/ VBL_IN \in istnrm' /\ l = MidLevel]_vars

(* A bit the game has routed to some level. *)
Wanted(b) == \E l \in Levels : b \in nrmMask[l]

(* Every new DMA completion the game routes reaches the handler, even with  *)
(* other bits stuck pending and the back-off running, unless the game       *)
(* clears or unroutes it first or takes its handler away.                  *)
NewWorkReachesHandler ==
  \A b \in DmaBits :
    b \in unserved /\ Wanted(b) /\ handler
      ~> b \notin unserved \/ ~Wanted(b) \/ ~handler

(* The 60Hz clock keeps running whatever is pending, routed or masked: a    *)
(* frame that has passed is raised as VBlank in SB_ISTNRM by the look that  *)
(* starts the next frame, unless the handler is being run                  *)
(* (sh4_cpu.c:307-311, 334-338).                                           *)
FrameRaised == elapsed = FrameMs ~> elapsed = 0 /\ VBL_IN \in istnrm

-----------------------------------------------------------------------------
(* Inductive strengthening: the skips since the last delivery are at most   *)
(* the steps of the repeat counter since it last let a delivery through, at *)
(* 0..BackoffFree or at a multiple of BackoffPeriod.                        *)
BackoffInv ==
  /\ repeats <= BackoffFree => skips = 0
  /\ repeats \in BackoffFree + 1 .. BackoffPeriod - 1
       => skips <= repeats - BackoffFree - 1
  /\ repeats = BackoffPeriod => skips <= BackoffPeriod - 1
  /\ repeats > BackoffPeriod => skips <= repeats - BackoffPeriod - 1

(* The frame holds the main code's SR while the handler runs. *)
SrInv == IF inIrq THEN frame = gameSr ELSE sr = gameSr

(* g_last_pend is the word the handler last started with: a poll that       *)
(* stores another one resets the counter, and so delivers.                 *)
StartedInv == startedOn = lastPend

IrqInv == TypeOK /\ BackoffInv /\ SrInv /\ StartedInv
=============================================================================
