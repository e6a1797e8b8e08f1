----------------------------- MODULE Sound_proofs -----------------------------
(***************************************************************************)
(* Proofs about the sound processor: its mode banks (Arm7), for every set of *)
(* modes, and its interrupt line, its clock and the time it is owed           *)
(* (SoundCpu), for every set of interrupt sources, clock rate, burst and debt  *)
(* ceiling.                                                                *)
(***************************************************************************)
EXTENDS SoundCpu, Arm7, TLAPS

-----------------------------------------------------------------------------
(* Mode banks.  The work is in one lemma: bank_out followed by bank_in moves  *)
(* every register set to its place for the new mode.                        *)
CpuType == [mid : Owner, top : Owner, spsr : MaybePsr]

BankType ==
  [mid : [{"usr", "fiq"} -> Owner], top : [Modes -> Owner], spsr : [Modes -> MaybePsr]]

(* Registers and SPSRs are where they belong while the processor is in mode m. *)
Placed(b, r, m) ==
  /\ r.mid = MidOwner(m) /\ r.top = m
  /\ \A n \in Modes \ {m} : b.top[n] = n
  /\ \A o \in {"usr", "fiq"} \ {MidOwner(m)} : b.mid[o] = o

SpsrPlaced(b, r, s, m) ==
  /\ m # "usr" => r.spsr = s[m]
  /\ \A n \in Modes \ {"usr", m} : b.spsr[n] = s[n]

(* The inductive invariant: what OwnUntilReturn and SpsrUntilReturn say of the *)
(* visible set, together with what is in the banks.                         *)
ArmInv ==
  /\ ArmTypeOK
  /\ mixed \/ (Placed(banks, cpu, cpsr.mode) /\ SpsrPlaced(banks, cpu, spsrOf, cpsr.mode))

(* A swap gives banks and a visible set of the right type. *)
LEMMA SwapType ==
  ASSUME NEW b \in BankType, NEW r \in CpuType, NEW from \in Modes, NEW to \in Modes
  PROVE  /\ SwappedBanks(b, r, from, to) \in BankType
         /\ SwappedCpu(b, r, from, to) \in CpuType
<1>1. BankOut(b, r, from) \in BankType
  BY DEF BankOut, BankType, CpuType, MidOwner
<1>2. \A c \in BankType : BroughtIn(c, to) \in BankType
  BY DEF BroughtIn, BankType, Owner, MidOwner
<1>3. \A c \in BankType : BankIn(c, r, to) \in CpuType
  BY DEF BankIn, BankType, CpuType, MidOwner
<1> QED BY <1>1, <1>2, <1>3 DEF SwappedBanks, SwappedCpu

(* A swap from the mode whose registers are in view puts every register set    *)
(* where it belongs in the new mode.                                        *)
LEMMA SwapPlaces ==
  ASSUME NEW b \in BankType, NEW r \in CpuType, NEW s,
         NEW from \in Modes, NEW to \in Modes, from # to,
         Placed(b, r, from), SpsrPlaced(b, r, s, from)
  PROVE  /\ Placed(SwappedBanks(b, r, from, to), SwappedCpu(b, r, from, to), to)
         /\ SpsrPlaced(SwappedBanks(b, r, from, to), SwappedCpu(b, r, from, to), s, to)
<1> DEFINE c == BankOut(b, r, from)
           d == SwappedBanks(b, r, from, to)
<1>1. /\ \A m \in Modes : c.top[m] = m
      /\ \A o \in {"usr", "fiq"} : c.mid[o] = o
  BY DEF BankOut, BankType, Placed, MidOwner
<1>2. \A n \in Modes \ {"usr"} : c.spsr[n] = s[n]
  BY DEF BankOut, BankType, SpsrPlaced
<1>3. c \in BankType
  BY DEF BankOut, BankType, CpuType, MidOwner
<1>4. /\ \A m \in Modes \ {to} : d.top[m] = m
      /\ \A o \in {"usr", "fiq"} \ {MidOwner(to)} : d.mid[o] = o
      /\ d.spsr = c.spsr
  BY <1>1, <1>3 DEF SwappedBanks, BroughtIn, BankType
<1>5. Placed(d, SwappedCpu(b, r, from, to), to)
  BY <1>1, <1>4 DEF Placed, SwappedCpu, BankIn, MidOwner
<1>6. SpsrPlaced(d, SwappedCpu(b, r, from, to), s, to)
  BY <1>2, <1>4 DEF SpsrPlaced, SwappedCpu, BankIn
<1> QED BY <1>5, <1>6

(* set_mode, the test for an unchanged mode included. *)
LEMMA ModeChange ==
  ASSUME ArmInv, NEW m \in Modes
  PROVE  /\ ModeBanks(m) \in BankType /\ ModeCpu(m) \in CpuType
         /\ ~mixed => /\ Placed(ModeBanks(m), ModeCpu(m), m)
                      /\ SpsrPlaced(ModeBanks(m), ModeCpu(m), spsrOf, m)
<1>1. cpu \in CpuType /\ banks \in BankType /\ cpsr.mode \in Modes
  BY DEF ArmInv, ArmTypeOK, CpuType, BankType, ArmPsr
<1>2. CASE cpsr.mode = m
  BY <1>1, <1>2 DEF ModeBanks, ModeCpu, InMode, ArmInv
<1>3. CASE cpsr.mode # m
  BY <1>1, <1>3, SwapType, SwapPlaces DEF ModeBanks, ModeCpu, InMode, ArmInv
<1> QED BY <1>2, <1>3

(* An exception enters mode m, and gives it the interrupted CPSR as its SPSR.   *)
LEMMA ExceptionKeepsInv ==
  ASSUME ArmInv, NEW m \in {"fiq", "svc"},
         cpsr' \in ArmPsr, cpsr'.mode = m,
         cpu' = [ModeCpu(m) EXCEPT !.spsr = cpsr], banks' = ModeBanks(m),
         GivesSpsr(m, cpsr)
  PROVE  ArmInv'
<1>1. m \in Modes /\ m # "usr"
  BY ArmAssumption
<1>2. cpsr \in MaybePsr /\ spsrOf \in [Modes -> MaybePsr] /\ mixed \in BOOLEAN
  BY DEF ArmInv, ArmTypeOK, MaybePsr
<1>3. /\ ModeBanks(m) \in BankType /\ ModeCpu(m) \in CpuType
      /\ ~mixed => /\ Placed(ModeBanks(m), ModeCpu(m), m)
                   /\ SpsrPlaced(ModeBanks(m), ModeCpu(m), spsrOf, m)
  BY <1>1, ModeChange
<1>4. ArmTypeOK'
  <2>1. cpu' \in CpuType /\ banks' \in BankType
    BY <1>2, <1>3 DEF CpuType
  <2>2. spsrOf' \in [Modes -> MaybePsr] /\ mixed' \in BOOLEAN
    BY <1>1, <1>2 DEF GivesSpsr
  <2> QED BY <2>1, <2>2 DEF ArmTypeOK, CpuType, BankType
<1>5. ~mixed => Placed(banks', cpu', m)
  BY <1>3 DEF Placed, CpuType
<1>6. ~mixed => SpsrPlaced(banks', cpu', spsrOf', m)
  BY <1>1, <1>2, <1>3 DEF SpsrPlaced, GivesSpsr, CpuType
<1>7. mixed' = mixed
  BY DEF GivesSpsr
<1>8. mixed \/ (Placed(banks', cpu', cpsr'.mode) /\ SpsrPlaced(banks', cpu', spsrOf', cpsr'.mode))
  BY <1>5, <1>6
<1> QED BY <1>4, <1>7, <1>8 DEF ArmInv, Placed, SpsrPlaced

(* Types alone are enough where mixed becomes true. *)
LEMMA MixesKeepsInv ==
  ASSUME Mixes, cpsr' \in ArmPsr, cpu' \in CpuType, banks' \in BankType
  PROVE  ArmInv'
BY DEF Mixes, ArmInv, ArmTypeOK, CpuType, BankType, MaybePsr

LEMMA ArmInitInv == ArmInit => ArmInv
<1> SUFFICES ASSUME ArmInit PROVE ArmInv
  OBVIOUS
<1> USE ArmAssumption DEF ArmInit
<1>1. ArmTypeOK
  BY DEF ArmTypeOK, ArmResetPsr, ArmPsr, MaybePsr, Owner
<1>2. Placed(banks, cpu, "svc")
  BY DEF Placed, MidOwner
<1>3. SpsrPlaced(banks, cpu, spsrOf, "svc")
  BY DEF SpsrPlaced
<1> QED BY <1>1, <1>2, <1>3 DEF ArmInv, ArmResetPsr

LEMMA ArmNextInv == ArmInv /\ [ArmNext]_armVars => ArmInv'
<1> SUFFICES ASSUME ArmInv, [ArmNext]_armVars PROVE ArmInv'
  OBVIOUS
<1>t. /\ cpu \in CpuType /\ banks \in BankType /\ cpsr \in ArmPsr /\ cpsr.mode \in Modes
      /\ spsrOf \in [Modes -> MaybePsr] /\ mixed \in BOOLEAN
  BY DEF ArmInv, ArmTypeOK, CpuType, BankType, ArmPsr
<1>1. CASE Reset
  <2>1. cpsr' \in ArmPsr /\ cpu' \in CpuType /\ banks' \in BankType
    BY <1>1, <1>t, ArmAssumption DEF Reset, ArmResetPsr, ArmPsr, CpuType, Owner
  <2>2. CASE ~InMode("svc")
    BY <1>1, <2>1, <2>2, MixesKeepsInv DEF Reset
  <2>3. CASE InMode("svc")
    <3>1. cpsr'.mode = cpsr.mode /\ UNCHANGED <<mixed, spsrOf, banks>>
      BY <1>1, <2>3 DEF Reset, InMode, ArmResetPsr
    <3>2. ~mixed => cpu' = cpu
      BY <1>1, <1>t, <2>3 DEF Reset, InMode, ArmInv, Placed, MidOwner, CpuType
    <3>3. ArmTypeOK'
      BY <1>t, <2>1, <3>1 DEF ArmTypeOK, CpuType, BankType
    <3> QED BY <3>1, <3>2, <3>3 DEF ArmInv, Placed, SpsrPlaced
  <2> QED BY <2>2, <2>3
<1>2. CASE TakeFiq
  <2>1. cpsr' \in ArmPsr /\ cpsr'.mode = "fiq"
    BY <1>2, ArmAssumption DEF TakeFiq, ArmPsr
  <2> QED BY <1>2, <2>1, ExceptionKeepsInv DEF TakeFiq
<1>3. CASE Swi
  <2>1. cpsr' \in ArmPsr /\ cpsr'.mode = "svc"
    BY <1>3, <1>t, ArmAssumption DEF Swi, ArmPsr
  <2> QED BY <1>3, <2>1, ExceptionKeepsInv DEF Swi
<1>4. ASSUME NEW v \in ArmPsr, MsrCpsr(v) PROVE ArmInv'
  <2>1. v.mode \in Modes
    BY DEF ArmPsr
  <2>2. /\ ModeBanks(v.mode) \in BankType /\ ModeCpu(v.mode) \in CpuType
        /\ ~mixed => /\ Placed(ModeBanks(v.mode), ModeCpu(v.mode), v.mode)
                     /\ SpsrPlaced(ModeBanks(v.mode), ModeCpu(v.mode), spsrOf, v.mode)
    BY <2>1, ModeChange
  <2>3. cpsr' = v /\ banks' = ModeBanks(v.mode) /\ cpu' = ModeCpu(v.mode)
        /\ UNCHANGED <<spsrOf, mixed>>
    BY <1>4 DEF MsrCpsr
  <2>4. ArmTypeOK'
    BY <1>t, <2>2, <2>3 DEF ArmTypeOK, CpuType, BankType
  <2> QED BY <2>2, <2>3, <2>4 DEF ArmInv, Placed, SpsrPlaced
<1>5. ASSUME NEW v \in ArmPsr, MsrSpsr(v) PROVE ArmInv'
  <2>1. /\ cpsr.mode # "usr" /\ cpu' = [cpu EXCEPT !.spsr = v]
        /\ GivesSpsr(cpsr.mode, v) /\ UNCHANGED <<cpsr, banks>>
    BY <1>5 DEF MsrSpsr, InMode
  <2>2. ArmTypeOK'
    BY <1>t, <2>1 DEF ArmTypeOK, CpuType, BankType, GivesSpsr, MaybePsr
  <2>3. ~mixed => Placed(banks, cpu', cpsr.mode) /\ SpsrPlaced(banks, cpu', spsrOf', cpsr.mode)
    BY <1>t, <2>1 DEF ArmInv, Placed, SpsrPlaced, GivesSpsr, CpuType
  <2>4. mixed' = mixed
    BY <2>1 DEF GivesSpsr
  <2> QED BY <2>1, <2>2, <2>3, <2>4 DEF ArmInv, Placed, SpsrPlaced
<1>6. CASE UserTransfer
  <2> DEFINE b == SwappedBanks(banks, cpu, cpsr.mode, "usr")
             r == SwappedCpu(banks, cpu, cpsr.mode, "usr")
  <2>1. /\ cpsr.mode # "usr" /\ "usr" \in Modes
        /\ cpu' = SwappedCpu(b, r, "usr", cpsr.mode)
        /\ banks' = SwappedBanks(b, r, "usr", cpsr.mode)
        /\ UNCHANGED <<cpsr, spsrOf, mixed>>
    BY <1>6, ArmAssumption DEF UserTransfer, InMode
  <2>2. b \in BankType /\ r \in CpuType
    BY <1>t, <2>1, SwapType
  <2>3. cpu' \in CpuType /\ banks' \in BankType
    BY <1>t, <2>1, <2>2, SwapType
  <2>4. ~mixed => Placed(b, r, "usr") /\ SpsrPlaced(b, r, spsrOf, "usr")
    BY <1>t, <2>1, SwapPlaces DEF ArmInv
  <2>5. ~mixed => Placed(banks', cpu', cpsr.mode) /\ SpsrPlaced(banks', cpu', spsrOf, cpsr.mode)
    <3> HIDE DEF b, r
    <3> QED BY <1>t, <2>1, <2>2, <2>4, SwapPlaces
  <2>6. ArmTypeOK'
    BY <1>t, <2>1, <2>3 DEF ArmTypeOK, CpuType, BankType
  <2> QED BY <2>1, <2>5, <2>6 DEF ArmInv, Placed, SpsrPlaced
<1>7. CASE ExceptionReturn
  <2>1. cpu.spsr \in ArmPsr /\ cpsr' = cpu.spsr /\ UNCHANGED <<cpu, banks>>
    BY <1>7, <1>t DEF ExceptionReturn, CpuType, MaybePsr
  <2>2. CASE cpu.spsr.mode # cpsr.mode
    BY <1>7, <1>t, <2>1, <2>2, MixesKeepsInv DEF ExceptionReturn
  <2>3. CASE cpu.spsr.mode = cpsr.mode
    BY <1>7, <1>t, <2>1, <2>3 DEF ExceptionReturn, ArmInv, ArmTypeOK, Placed, SpsrPlaced
  <2> QED BY <2>2, <2>3
<1>8. CASE UNCHANGED armVars
  BY <1>8 DEF armVars, ArmInv, ArmTypeOK, Placed, SpsrPlaced
<1> QED BY <1>1, <1>2, <1>3, <1>4, <1>5, <1>6, <1>7, <1>8 DEF ArmNext

(* The inductive invariant holds, for every set of modes: types, and, until an *)
(* exception return or a reset mixes them, every register set and SPSR in the *)
(* place bank_out and bank_in expect it (arm7.c 155-227).                    *)
THEOREM ArmSafe == ArmSpec => []ArmInv
BY ArmInitInv, ArmNextInv, PTL DEF ArmSpec

(* Each mode's registers are in view when it runs and in its bank otherwise,   *)
(* through every mode change, exception entry and user-bank transfer.        *)
THEOREM RegistersAreOwn == ArmSpec => []OwnUntilReturn
<1>1. ArmInv => OwnUntilReturn
  BY DEF ArmInv, Placed, OwnUntilReturn, VisibleIsOwn, OthersBanked
<1> QED BY <1>1, ArmSafe, PTL

(* Every mode finds the SPSR it was last given, however FIQ entries, software  *)
(* interrupts and mode changes nest.                                         *)
THEOREM SpsrIsOwn == ArmSpec => []SpsrUntilReturn
<1>1. ArmInv => SpsrUntilReturn
  BY DEF ArmInv, SpsrPlaced, SpsrUntilReturn, InMode
<1> QED BY <1>1, ArmSafe, PTL

-----------------------------------------------------------------------------
(* The interrupt line and the time owed. *)
SoundInv == TypeOK /\ LineTracksPending /\ NoTimeLost

(* The FIQ line's part of the state, and what keeps it right. *)
LineType == scipd \subseteq Sources /\ scieb \subseteq Sources /\ line \in BOOLEAN /\ lowered \in BOOLEAN

(* The part of the clock and the debt. *)
DebtType ==
  /\ late \in 0 .. NoTime /\ debt \in 0 .. MaxDebt /\ burst \in 0 .. MaxBurst
  /\ unrun \in Nat /\ capped \in BOOLEAN

(* The rest. *)
OtherType ==
  /\ psr \in Psr
  /\ wired \in BOOLEAN /\ held \in BOOLEAN /\ running \in BOOLEAN
  /\ count \in 0 .. TimerSpan - 1 /\ samples \in 0 .. NoTime /\ missed \in 0 .. Divider

LineInv == LineType /\ LineTracksPending
DebtInv == DebtType /\ NoTimeLost

LEMMA Parts == SoundInv <=> LineInv /\ DebtInv /\ OtherType
BY DEF SoundInv, TypeOK, LineInv, LineType, DebtInv, DebtType, OtherType

(* A remainder is less than the divisor, a quotient is a natural number. *)
LEMMA Division ==
  ASSUME NEW a \in Nat, NEW d \in Nat \ {0}
  PROVE  a % d \in 0 .. d - 1 /\ a \div d \in Nat
OBVIOUS

(* aica_refresh_fiq puts the line where the pending and enabled bits say. *)
LEMMA RefreshTracks ==
  ASSUME scipd' \subseteq Sources, scieb' \subseteq Sources, RefreshFiq(scipd', scieb')
  PROVE  LineInv'
BY DEF RefreshFiq, LineInv, LineType, LineTracksPending

LEMMA SameLine == ASSUME LineInv, UNCHANGED intVars PROVE LineInv'
BY DEF intVars, LineInv, LineType, LineTracksPending

LEMMA SameDebt == ASSUME DebtInv, UNCHANGED debtVars PROVE DebtInv'
BY DEF debtVars, DebtInv, DebtType, NoTimeLost, NoTime

(* dc_aica_reg_write from either processor. *)
LEMMA RegisterWrite ==
  ASSUME LineInv, OtherType, WriteRegister
  PROVE  LineInv' /\ UNCHANGED resetVars /\ count' \in 0 .. TimerSpan - 1
         /\ UNCHANGED <<samples, missed>>
<1>1. CASE WriteTimer
  BY <1>1, SameLine DEF WriteTimer, WriteRegister
<1>2. CASE WriteInterruptRegister
  <2>1. UNCHANGED <<resetVars, count, samples, missed>>
    BY <1>2 DEF WriteInterruptRegister, WriteRegister
  <2>2. scipd' \subseteq Sources /\ scieb' \subseteq Sources /\ RefreshFiq(scipd', scieb')
    BY <1>2 DEF WriteInterruptRegister, WriteScipd, WriteScieb, WriteScire, WriteIntClear,
                LineInv, LineType
  <2> QED BY <2>1, <2>2, RefreshTracks DEF OtherType
<1> QED BY <1>1, <1>2 DEF WriteRegister

(* aica_advance_timer_a *)
LEMMA TimerStep ==
  ASSUME LineInv, OtherType, AdvanceTimer
  PROVE  LineInv' /\ count' \in 0 .. TimerSpan - 1 /\ samples' \in 0 .. NoTime
         /\ missed' \in 0 .. Divider
<1> USE SoundAssumption DEF NoTime
<1>1. CASE samples \in {0, NoTime}
  <2>1. samples' = 0 /\ UNCHANGED <<intVars, count, missed>>
    BY <1>1 DEF AdvanceTimer
  <2> QED BY <2>1, SameLine DEF OtherType
<1>2. CASE samples \notin {0, NoTime}
  <2>1. /\ samples' = 0
        /\ count' = (count + Counted) % TimerSpan
        /\ missed' = Least(Divider, missed + (samples % Divider))
    BY <1>2 DEF AdvanceTimer
  <2>2. Counted \in Nat /\ samples % Divider \in Nat
    BY Division DEF OtherType, Counted
  <2>3. count' \in 0 .. TimerSpan - 1
    BY <2>1, <2>2, Division DEF OtherType
  <2>4. missed' \in 0 .. Divider
    BY <2>1, <2>2 DEF OtherType, Least
  <2>5. LineInv'
    <3>1. CASE count + Counted >= TimerSpan
      BY <1>2, <3>1, RefreshTracks DEF AdvanceTimer, LineInv, LineType
    <3>2. CASE ~(count + Counted >= TimerSpan)
      BY <1>2, <3>2, SameLine DEF AdvanceTimer
    <3> QED BY <3>1, <3>2
  <2> QED BY <2>1, <2>3, <2>4, <2>5
<1> QED BY <1>1, <1>2

(* The instructions owed for the ticks that passed. *)
Charge == IF late = NoTime THEN 0 ELSE late * PerTick

LEMMA ChargeType == ASSUME late \in 0 .. NoTime PROVE Charge \in Nat
BY SoundAssumption DEF Charge, NoTime

(* dc_aica_update: the burst and the debt share what is owed up to the ceiling. *)
LEMMA PollDebt == ASSUME DebtInv, Poll PROVE DebtInv'
<1> USE SoundAssumption
<1>1. Charge \in Nat
  BY ChargeType DEF DebtInv, DebtType
<1>2. Owed = debt + Charge /\ Owed \in Nat
  BY <1>1 DEF Owed, Charge, DebtInv, DebtType
<1>3. CappedDebt \in 0 .. MaxDebt /\ (Owed <= MaxDebt => CappedDebt = Owed)
  BY <1>2 DEF CappedDebt, Least
<1>4. /\ burst' \in 0 .. MaxBurst /\ debt' \in 0 .. MaxDebt /\ debt' + burst' = CappedDebt
  BY <1>3 DEF Poll, StartBurst, Least
<1>5. late' = 0 /\ late' # NoTime /\ late' \in 0 .. NoTime /\ late' * PerTick = 0
  BY DEF Poll, NoTime
<1>6. capped' \in BOOLEAN /\ unrun' \in Nat
  BY DEF Poll, DebtInv, DebtType
<1>7. ~capped' => ~capped /\ ~(Owed > MaxDebt) /\ unrun' = unrun
  BY DEF Poll
<1>a. ~capped => unrun = Charge + debt + burst
  BY DEF DebtInv, NoTimeLost, Charge
<1>b. burst = 0 /\ debt \in Nat /\ debt' \in Nat /\ burst' \in Nat
  BY <1>4 DEF Poll, DebtInv, DebtType
<1>8. ~capped' => unrun' = 0 + debt' + burst'
  <2> SUFFICES ASSUME ~capped' PROVE unrun' = debt' + burst'
    BY <1>b
  <2>1. unrun' = Charge + debt + burst /\ Owed <= MaxDebt
    BY <1>7, <1>a, <1>2
  <2>2. unrun' = CappedDebt
    BY <2>1, <1>1, <1>2, <1>3, <1>b
  <2> QED BY <2>2, <1>4
<1>9. NoTimeLost'
  BY <1>5, <1>8, <1>4 DEF NoTimeLost, NoTime
<1> QED BY <1>4, <1>5, <1>6, <1>9 DEF DebtInv, DebtType, NoTime

LEMMA TickDebt == ASSUME DebtInv, Tick PROVE DebtInv'
<1> USE SoundAssumption DEF NoTime
<1>1. /\ late' = late + 1 /\ late \in 0 .. MaxLate /\ late' \in 0 .. MaxLate
      /\ UNCHANGED <<debt, burst, capped>>
  BY DEF Tick, DebtInv, DebtType
<1>2. late' * PerTick = late * PerTick + PerTick /\ late * PerTick \in Nat
  BY <1>1
<1>3. unrun' = IF capped THEN 0 ELSE unrun + PerTick
  BY DEF Tick
<1>4. NoTimeLost'
  BY <1>1, <1>2, <1>3 DEF DebtInv, DebtType, NoTimeLost
<1> QED BY <1>1, <1>3, <1>4 DEF DebtInv, DebtType

LEMMA RunDebt == ASSUME DebtInv, RunStep PROVE DebtInv'
<1> USE SoundAssumption
<1>1. Charge \in Nat
  BY ChargeType DEF DebtInv, DebtType
<1>2. /\ burst > 0 /\ burst' = burst - 1 /\ UNCHANGED <<late, debt, capped>>
      /\ unrun' = IF capped THEN 0 ELSE unrun - 1
  BY DEF RunStep
<1>3. ~capped => unrun = Charge + debt + burst
  BY DEF DebtInv, NoTimeLost, Charge
<1>4. ~capped => unrun' = Charge + debt + burst' /\ unrun' \in Nat
  BY <1>1, <1>2, <1>3 DEF DebtInv, DebtType
<1>5. NoTimeLost'
  BY <1>2, <1>4 DEF NoTimeLost, Charge, NoTime
<1> QED BY <1>2, <1>4, <1>5 DEF DebtInv, DebtType, NoTime

LEMMA SoundInitInv == Init => SoundInv
<1> SUFFICES ASSUME Init PROVE LineInv /\ DebtInv /\ OtherType
  BY Parts
<1> USE SoundAssumption DEF Init, NoTime
<1>1. LineInv
  BY DEF LineInv, LineType, LineTracksPending
<1>2. DebtInv
  <2>1. late = MaxLate + 1 /\ late \in 0 .. MaxLate + 1 /\ unrun = 0 + debt + burst
    OBVIOUS
  <2>2. NoTimeLost
    BY <2>1 DEF NoTimeLost
  <2>3. capped \in BOOLEAN
    OBVIOUS
  <2>4. debt \in 0 .. MaxDebt /\ burst \in 0 .. MaxBurst /\ unrun \in Nat
    OBVIOUS
  <2> QED BY <2>1, <2>2, <2>3, <2>4 DEF DebtInv, DebtType
<1>3. OtherType
  <2>1. psr \in Psr
    BY DEF Psr, ResetPsr
  <2>2. count \in 0 .. TimerSpan - 1 /\ samples \in 0 .. MaxLate + 1 /\ missed \in 0 .. Divider
    OBVIOUS
  <2> QED BY <2>1, <2>2 DEF OtherType
<1> QED BY <1>1, <1>2, <1>3

LEMMA SoundNextInv == SoundInv /\ [Next]_vars => SoundInv'
<1> SUFFICES ASSUME LineInv, DebtInv, OtherType, [Next]_vars
             PROVE  LineInv' /\ DebtInv' /\ OtherType'
  BY Parts DEF LineInv, LineType, DebtInv, DebtType, OtherType, SoundInv, TypeOK,
               LineTracksPending, NoTimeLost
<1> USE SoundAssumption
<1>1. CASE Sh4Write
  <2>1. DebtInv'
    BY <1>1, SameDebt DEF Sh4Write
  <2>2. CASE WriteRegister /\ UNCHANGED psr
    BY <2>1, <2>2, RegisterWrite DEF OtherType, resetVars
  <2>3. CASE Hold /\ UNCHANGED timerVars
    BY <2>1, <2>3, SameLine DEF Hold, OtherType, timerVars
  <2>4. CASE Release /\ UNCHANGED timerVars
    <3>1. LineInv'
      BY <2>4 DEF Release, LineInv, LineType, LineTracksPending
    <3>2. OtherType'
      BY <2>4 DEF Release, OtherType, timerVars, ResetPsr, Psr
    <3> QED BY <2>1, <3>1, <3>2
  <2> QED BY <1>1, <2>2, <2>3, <2>4 DEF Sh4Write
<1>2. CASE Tick
  <2>1. LineInv' /\ OtherType'
    BY <1>2, SameLine DEF Tick, OtherType, resetVars, timerVars
  <2> QED BY <1>2, <2>1, TickDebt
<1>3. CASE Sample
  <2>1. LineInv' /\ DebtInv'
    BY <1>3, SameLine, SameDebt DEF Sample
  <2>2. OtherType'
    BY <1>3 DEF Sample, OtherType, resetVars, NoTime
  <2> QED BY <2>1, <2>2
<1>4. CASE Poll
  <2>1. LineInv' /\ OtherType'
    BY <1>4, TimerStep DEF Poll, OtherType, resetVars
  <2> QED BY <1>4, <2>1, PollDebt
<1>5. CASE ArmStep
  <2>1. DebtInv'
    BY <1>5, RunDebt DEF ArmStep
  <2>2. CASE FiqEntry
    BY <2>1, <2>2, SameLine DEF FiqEntry, OtherType, resetVars, timerVars, Psr
  <2>3. CASE psr' \in Psr /\ UNCHANGED <<intVars, resetVars, timerVars>>
    BY <2>1, <2>3, SameLine DEF OtherType, resetVars, timerVars
  <2>4. CASE WriteRegister /\ UNCHANGED psr
    BY <2>1, <2>4, RegisterWrite DEF OtherType, resetVars
  <2> QED BY <1>5, <2>2, <2>3, <2>4 DEF ArmStep, Step, Instruction
<1>6. CASE UNCHANGED vars
  <2>1. LineInv' /\ DebtInv'
    BY <1>6, SameLine, SameDebt DEF vars
  <2>2. OtherType'
    BY <1>6 DEF vars, OtherType, resetVars, timerVars
  <2> QED BY <2>1, <2>2
<1> QED BY <1>1, <1>2, <1>3, <1>4, <1>5, <1>6 DEF Next

(* The inductive invariant holds: every variable has its type, among them the  *)
(* burst and the debt within their ceilings (dc_hardware.c 1184, 1190).       *)
THEOREM SoundSafe == Spec => []SoundInv
BY SoundInitInv, SoundNextInv, PTL DEF Spec

(* The burst and the debt never leave ARM7_MAX_BURST and ARM7_MAX_DEBT, nor    *)
(* timer A its byte, at every clock rate (dc_hardware.c 789-802, 1227-1237).  *)
THEOREM SoundTypes == Spec => []TypeOK
<1>1. SoundInv => TypeOK
  BY DEF SoundInv
<1> QED BY <1>1, SoundSafe, PTL

(* The FIQ line follows the pending and enabled bits through every write of     *)
(* either processor and every timer overflow (dc_hardware.c 804-808).        *)
THEOREM LineIsPending == Spec => []LineTracksPending
<1>1. SoundInv => LineTracksPending
  BY DEF SoundInv
<1> QED BY <1>1, SoundSafe, PTL

(* What the sound processor has not run it is still owed, at every clock rate,  *)
(* until the debt ceiling cuts it (dc_hardware.c 1204-1237).                 *)
THEOREM DebtKeepsTime == Spec => []NoTimeLost
<1>1. SoundInv => NoTimeLost
  BY DEF SoundInv
<1> QED BY <1>1, SoundSafe, PTL

(* Without a prescaler timer A never falls behind: no sample is dropped between *)
(* two polls (aica_advance_timer_a, dc_hardware.c 763-785).                  *)
THEOREM PlainTimerKeepsPace == ASSUME Divider = 1 PROVE Spec => []TimerKeepsPace
<1> DEFINE Exact == missed = 0
<1>1. Init => Exact
  BY DEF Init
<1>2. SoundInv /\ Exact /\ [Next]_vars => Exact'
  <2> SUFFICES ASSUME SoundInv, missed = 0, [Next]_vars PROVE missed' = 0
    OBVIOUS
  <2>1. CASE AdvanceTimer
    <3>1. samples \in Nat
      BY SoundAssumption DEF SoundInv, TypeOK, NoTime
    <3>2. samples % Divider = 0
      BY <3>1, SMT
    <3> QED
      BY <2>1, <3>2 DEF AdvanceTimer, Least
  <2>2. CASE UNCHANGED missed
    BY <2>2
  <2>3. AdvanceTimer \/ UNCHANGED missed
    BY DEF Next, vars, timerVars, Sh4Write, WriteRegister, Tick, Sample, Poll, ArmStep, Step,
           FiqEntry, Instruction
  <2> QED
    BY <2>1, <2>2, <2>3
<1>3. Exact => TimerKeepsPace
  BY DEF TimerKeepsPace
<1> HIDE DEF Exact
<1> QED
  BY <1>1, <1>2, <1>3, SoundSafe, PTL DEF Spec
=============================================================================
