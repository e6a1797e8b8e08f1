-------------------------------- MODULE Arm7 --------------------------------
(***************************************************************************)
(* Mode banking of the sound processor (src/src/hal/arm7.c).  A register    *)
(* set is represented by its owner: cpu.mid is the mode whose r8-r12 are    *)
(* visible and cpu.top the mode whose r13-r14 are.  Every mode but FIQ      *)
(* shares r8-r12 with user.  A bank whose contents were brought into view   *)
(* is Stale until they are banked out again: the program may write the      *)
(* visible copy at any instruction.                                        *)
(*                                                                         *)
(* Instructions that change neither the mode nor the banks are not actions  *)
(* of this module.  The driver is assumed to return only from an exception  *)
(* mode, with an SPSR that an exception or an MSR has set.                 *)
(***************************************************************************)
CONSTANTS
  Modes,     \* modes the driver uses, by the names of arm7.h
  Stale,     \* no mode: what is left in a bank that was brought in
  NoPsr      \* an SPSR nothing has set

ASSUME ArmAssumption ==
  /\ {"usr", "fiq", "svc"} \subseteq Modes
  /\ Stale \notin Modes
  /\ NoPsr \notin [mode : Modes, fiqOff : BOOLEAN]

VARIABLES
  cpsr,      \* [mode, fiqOff]: mode bits and the F bit
  cpu,       \* the visible set: [mid, top, spsr]
  banks,     \* [mid, top, spsr], each a function of the owner
  spsrOf,    \* history: the SPSR each mode was last given, while not mixed
  mixed      \* history: an exception return changed the mode, or a reset did

armVars == <<cpsr, cpu, banks, spsrOf, mixed>>

ArmPsr == [mode : Modes, fiqOff : BOOLEAN]

MidOwner(m) == IF m = "fiq" THEN "fiq" ELSE "usr"

(* bank_out: r8-r14 and the SPSR of mode m, out of the visible set. *)
BankOutNoMid(b, r, m) ==  \* mutant: the copy at `shared:' left out
  [mid  |-> IF m \in {"fiq", "usr"} THEN [b.mid EXCEPT ![m] = r.mid] ELSE b.mid,
   top  |-> [b.top EXCEPT ![m] = r.top],
   spsr |-> IF m = "usr" THEN b.spsr ELSE [b.spsr EXCEPT ![m] = r.spsr]]

BankOutFiqSpsr(b, r, m) ==  \* mutant: only FIQ mode's SPSR saved
  [mid  |-> [b.mid EXCEPT ![MidOwner(m)] = r.mid],
   top  |-> [b.top EXCEPT ![m] = r.top],
   spsr |-> IF m # "fiq" THEN b.spsr ELSE [b.spsr EXCEPT ![m] = r.spsr]]

BankOut(b, r, m) ==
  [mid  |-> [b.mid EXCEPT ![MidOwner(m)] = r.mid],
   top  |-> [b.top EXCEPT ![m] = r.top],
   spsr |-> IF m = "usr" THEN b.spsr ELSE [b.spsr EXCEPT ![m] = r.spsr]]

(* bank_in: user mode has no SPSR, and leaves the visible one. *)
BankIn(b, r, m) ==
  [mid  |-> b.mid[MidOwner(m)],
   top  |-> b.top[m],
   spsr |-> IF m = "usr" THEN r.spsr ELSE b.spsr[m]]

BroughtIn(b, m) == [b EXCEPT !.mid[MidOwner(m)] = Stale, !.top[m] = Stale]

(* bank_out of `from', then bank_in of `to'. *)
SwappedBanks(b, r, from, to) == BroughtIn(BankOut(b, r, from), to)
SwappedCpu(b, r, from, to) == BankIn(BankOut(b, r, from), r, to)

(* set_mode: banks and the visible set once the mode is m. *)
InMode(m) == cpsr.mode = m
ModeBanks(m) == IF InMode(m) THEN banks ELSE SwappedBanks(banks, cpu, cpsr.mode, m)
ModeCpu(m) == IF InMode(m) THEN cpu ELSE SwappedCpu(banks, cpu, cpsr.mode, m)

-----------------------------------------------------------------------------
(* Out of reset: the visible registers are cleared and are supervisor's own; *)
(* banks and SPSRs are not touched.                                        *)
ArmResetPsr == [mode |-> "svc", fiqOff |-> TRUE]

ArmInit ==
  /\ cpsr = ArmResetPsr
  /\ cpu = [mid |-> "usr", top |-> "svc", spsr |-> NoPsr]
  /\ banks = [mid  |-> [o \in {"usr", "fiq"} |-> IF o = "usr" THEN Stale ELSE o],
              top  |-> [m \in Modes |-> IF m = "svc" THEN Stale ELSE m],
              spsr |-> [m \in Modes |-> NoPsr]]
  /\ spsrOf = [m \in Modes |-> NoPsr] /\ mixed = FALSE

(* History: from here on nothing is said of whose registers are where. *)
Mixes == mixed' = TRUE /\ spsrOf' = [m \in Modes |-> NoPsr]

(* History: mode m is given the SPSR v. *)
GivesSpsr(m, v) ==
  /\ spsrOf' = IF mixed THEN spsrOf ELSE [spsrOf EXCEPT ![m] = v]
  /\ UNCHANGED mixed

(* The memset of r in arm7_set_reset; the banks keep what they had, and if    *)
(* another mode's registers were in view those are gone.                   *)
Reset ==
  /\ cpsr' = ArmResetPsr
  /\ cpu' = [cpu EXCEPT !.mid = "usr", !.top = "svc"]
  /\ IF InMode("svc") THEN UNCHANGED <<mixed, spsrOf>> ELSE Mixes
  /\ UNCHANGED banks

(* step, when the FIQ line is up: take_fiq. *)
TakeFiq ==
  /\ ~cpsr.fiqOff
  /\ cpsr' = [mode |-> "fiq", fiqOff |-> TRUE]
  /\ cpu' = [ModeCpu("fiq") EXCEPT !.spsr = cpsr]
  /\ banks' = ModeBanks("fiq")
  /\ GivesSpsr("fiq", cpsr)

(* Software interrupt: the F bit stays as it was. *)
Swi ==
  /\ cpsr' = [cpsr EXCEPT !.mode = "svc"]
  /\ cpu' = [ModeCpu("svc") EXCEPT !.spsr = cpsr]
  /\ banks' = ModeBanks("svc")
  /\ GivesSpsr("svc", cpsr)

(* MSR CPSR with the control bits; in user mode only the flags change. *)
MsrCpsr(v) ==
  /\ ~InMode("usr")
  /\ cpsr' = v
  /\ cpu' = ModeCpu(v.mode)
  /\ banks' = ModeBanks(v.mode)
  /\ UNCHANGED <<spsrOf, mixed>>

MsrSpsr(v) ==
  /\ ~InMode("usr")
  /\ cpu' = [cpu EXCEPT !.spsr = v]
  /\ GivesSpsr(cpsr.mode, v)
  /\ UNCHANGED <<cpsr, banks>>

(* LDM or STM with the S bit and without r15: the user bank is swapped in     *)
(* around the transfer.                                                     *)
UserTransferKeepsUser ==  \* mutant: the second swap left out
  /\ ~InMode("usr")
  /\ cpu' = SwappedCpu(banks, cpu, cpsr.mode, "usr")
  /\ banks' = SwappedBanks(banks, cpu, cpsr.mode, "usr")
  /\ UNCHANGED <<cpsr, spsrOf, mixed>>

UserTransfer ==
  /\ ~InMode("usr")
  /\ LET b == SwappedBanks(banks, cpu, cpsr.mode, "usr")
         r == SwappedCpu(banks, cpu, cpsr.mode, "usr")
     IN  /\ cpu' = SwappedCpu(b, r, "usr", cpsr.mode)
         /\ banks' = SwappedBanks(b, r, "usr", cpsr.mode)
  /\ UNCHANGED <<cpsr, spsrOf, mixed>>

(* A data-processing instruction with S that writes r15, and LDM with S and   *)
(* r15: cpsr = spsr.  set_mode is called after cpsr holds the new mode, or    *)
(* not at all, and swaps nothing.                                           *)
ExceptionReturn ==
  /\ ~InMode("usr") /\ cpu.spsr # NoPsr
  /\ cpsr' = cpu.spsr
  /\ IF cpu.spsr.mode = cpsr.mode THEN UNCHANGED <<spsrOf, mixed>> ELSE Mixes
  /\ UNCHANGED <<cpu, banks>>

ArmNext ==
  \/ Reset \/ TakeFiq \/ Swi \/ UserTransfer \/ ExceptionReturn
  \/ \E v \in ArmPsr : MsrCpsr(v) \/ MsrSpsr(v)

ArmSpec == ArmInit /\ [][ArmNext]_armVars

-----------------------------------------------------------------------------
MaybePsr == ArmPsr \cup {NoPsr}
Owner == Modes \cup {"usr", "fiq", Stale}

ArmTypeOK ==
  /\ cpsr \in ArmPsr
  /\ cpu \in [mid : Owner, top : Owner, spsr : MaybePsr]
  /\ banks \in [mid : [{"usr", "fiq"} -> Owner], top : [Modes -> Owner],
                spsr : [Modes -> MaybePsr]]
  /\ spsrOf \in [Modes -> MaybePsr]
  /\ mixed \in BOOLEAN

(* arm7.h:47-48: "The visible set above is swapped with these on a mode       *)
(* change": the registers in view belong to the mode the processor is in.    *)
VisibleIsOwn == cpu.mid = MidOwner(cpsr.mode) /\ cpu.top = cpsr.mode

OthersBanked ==
  /\ \A m \in Modes \ {cpsr.mode} : banks.top[m] = m
  /\ \A o \in {"usr", "fiq"} \ {MidOwner(cpsr.mode)} : banks.mid[o] = o

(* Through every mode change, exception entry and user-bank transfer, at any *)
(* instruction (bank_out, bank_in, set_mode, arm7.c 155-227): each mode's     *)
(* registers are in one place, in view when it runs and in its bank when it   *)
(* does not, until an exception return changes the mode or the processor is   *)
(* reset in another mode than supervisor.                                   *)
OwnUntilReturn == mixed \/ (VisibleIsOwn /\ OthersBanked)

(* A FIQ may come inside a software interrupt, and either may switch modes     *)
(* itself: every mode finds the SPSR it was last given (arm7.c 160-172,       *)
(* 190-209, 327, 392, 575), up to the same point.                          *)
SpsrUntilReturn == mixed \/ InMode("usr") \/ cpu.spsr = spsrOf[cpsr.mode]
=============================================================================
