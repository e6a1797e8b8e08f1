------------------------- MODULE IrqDelivery_proofs -------------------------
(***************************************************************************)
(* Proofs about IrqDelivery for every value of its constants: the type      *)
(* invariant, the bound on the back-off, the restored status register, that *)
(* only an unchanged pending word is skipped, and that only an unmasked      *)
(* routed interrupt is delivered.  One lemma per action preserves IrqInv.   *)
(***************************************************************************)
EXTENDS IrqDelivery, TLAPS

USE DEF NrmBits, ExtBits, Levels, MidLevel, VBL_IN, EXT_SUMMARY, EXT_AICA, OpenSr, ResetSr, NoFrame

LEMMA InitIrqInv == Init => IrqInv
<1> SUFFICES ASSUME Init PROVE IrqInv  OBVIOUS
<1>1. ClockTypeOK
  BY ClockAssumption DEF Init, ClockInit, ClockTypeOK
<1>2. /\ nrmMask \in [Levels -> SUBSET NrmBits]
      /\ extMask \in [Levels -> SUBSET ExtBits]
  BY DEF Init
<1>3. {sr, frame, gameSr} \subseteq [bl : BOOLEAN, imask : 0 .. 15]
  BY DEF Init
<1>4. repeats \in 0 .. 2 * BackoffPeriod - 1 /\ skips \in 0 .. BackoffPeriod /\ BackoffInv
  BY IrqAssumption DEF Init, BackoffInv
<1> QED
  BY <1>1, <1>2, <1>3, <1>4 DEF Init, IrqInv, TypeOK, SrInv, StartedInv

-----------------------------------------------------------------------------
(* The clock. *)

(* A poll's look at the clock keeps its type. *)
LEMMA ClockStepKeeps == ClockTypeOK /\ ClockStep => ClockTypeOK'
  BY ClockAssumption
  DEF ClockTypeOK, ClockStep, GateOpen, FrameDue, FramePaid

(* A division by a positive number leaves a remainder below it. *)
LEMMA CreditKeeps ==
  ASSUME NEW ms \in Nat, ClockTypeOK, Credit(ms)
  PROVE  ClockTypeOK'
<1> DEFINE total == owedMs + ms
<1>1. owedMs \in Nat /\ total \in Nat
  BY ClockAssumption DEF ClockTypeOK
<1>2. total % FrameMs \in 0 .. FrameMs - 1 /\ total \div FrameMs \in Nat
  <2> HIDE DEF total
  <2> QED BY <1>1, ClockAssumption
<1>3. owed + total \div FrameMs \in Nat
  <2> HIDE DEF total
  <2> QED BY <1>2, ClockAssumption DEF ClockTypeOK
<1>4. owed' \in 0 .. OwedCap
  <2>1. owed' = Capped(owed + total \div FrameMs)  BY DEF Credit
  <2> HIDE DEF total
  <2> QED BY <1>3, <2>1, ClockAssumption DEF Capped
<1>5. owedMs' \in 0 .. FrameMs - 1
  BY <1>2 DEF Credit
<1> QED
  BY <1>4, <1>5 DEF ClockTypeOK, Credit

LEMMA HostTimeKeeps == IrqInv /\ HostTime => IrqInv'
<1> SUFFICES ASSUME IrqInv, HostTime PROVE IrqInv'  OBVIOUS
<1>1. ClockTypeOK'
  BY ClockAssumption DEF IrqInv, TypeOK, ClockTypeOK, HostTime, MsPasses
<1> QED
  BY <1>1
  DEF IrqInv, TypeOK, BackoffInv, SrInv, StartedInv, HostTime, sbVars,
      contextVars, backoffVars

LEMMA DiscReadKeeps ==
  ASSUME NEW ms \in DiscReadMs, IrqInv, DiscRead(ms)
  PROVE  IrqInv'
<1>1. ClockTypeOK'
  BY IrqAssumption, CreditKeeps DEF IrqInv, TypeOK, DiscRead
<1> QED
  BY <1>1
  DEF IrqInv, TypeOK, BackoffInv, SrInv, StartedInv, DiscRead, sbVars,
      contextVars, backoffVars

-----------------------------------------------------------------------------
(* Status bits that rise. *)

(* New work is the work of the DMAs. *)
LEMMA NewWorkType ==
  ASSUME IrqInv, NEW nrm
  PROVE  NewWork(nrm) \in SUBSET DmaBits
  BY DEF IrqInv, TypeOK, NewWork

LEMMA RaiseKeeps ==
  ASSUME NEW e, e.nrm \in SUBSET NrmBits, e.ext \in SUBSET ExtBits,
         IrqInv, Raise(e)
  PROVE  IrqInv'
<1>1. /\ istnrm' = istnrm \cup e.nrm /\ istext' = istext \cup e.ext
      /\ unserved' = NewWork(istnrm \cup e.nrm)
  BY DEF Raise, RaiseTo
<1>2. istnrm' \in SUBSET NrmBits /\ istext' \in SUBSET ExtBits
  BY <1>1 DEF IrqInv, TypeOK
<1>3. unserved' \in SUBSET DmaBits
  BY <1>1, NewWorkType
<1> QED
  BY <1>2, <1>3
  DEF Raise, IrqInv, TypeOK, ClockTypeOK, clockVars, BackoffInv, SrInv,
      StartedInv, contextVars, backoffVars

(* The bits a poll may add to the status registers are status bits. *)
LEMMA SignalledType ==
  ASSUME IrqInv, NEW done \in SUBSET DmaBits, NEW signal \in Signals
  PROVE  /\ SignalledNrm(done, signal) \in SUBSET NrmBits
         /\ istnrm \subseteq SignalledNrm(done, signal)
         /\ SignalledExt(signal) \in SUBSET ExtBits
  BY IrqAssumption DEF IrqInv, TypeOK, SignalledNrm, SignalledExt

LEMMA NestedPollKeeps ==
  ASSUME NEW done \in SUBSET DmaBits, NEW signal \in Signals,
         IrqInv, NestedPoll(done, signal)
  PROVE  IrqInv'
<1>1. /\ istnrm' = SignalledNrm(done, signal) /\ istext' = SignalledExt(signal)
      /\ unserved' = NewWork(SignalledNrm(done, signal))
  BY DEF NestedPoll, RaiseTo
<1>2. istnrm' \in SUBSET NrmBits /\ istext' \in SUBSET ExtBits
  BY <1>1, SignalledType
<1>3. unserved' \in SUBSET DmaBits
  BY <1>1, NewWorkType
<1> QED
  BY <1>2, <1>3
  DEF NestedPoll, IrqInv, TypeOK, ClockTypeOK, clockVars, BackoffInv, SrInv,
      StartedInv, contextVars, backoffVars

-----------------------------------------------------------------------------
(* The game's own register writes. *)

LEMMA AckKeeps ==
  ASSUME IrqInv, NEW S, AckNrm(S) \/ AckExt(S)
  PROVE  IrqInv'
<1>1. /\ istnrm' \in SUBSET NrmBits /\ istext' \in SUBSET ExtBits
      /\ unserved' \in SUBSET DmaBits
  BY DEF AckNrm, AckExt, IrqInv, TypeOK
<1>2. UNCHANGED <<clockVars, nrmMask, extMask, sr, handler, contextVars, backoffVars, gameSr>>
  BY DEF AckNrm, AckExt
<1> QED
  BY <1>1, <1>2
  DEF IrqInv, TypeOK, ClockTypeOK, clockVars, BackoffInv, SrInv, StartedInv,
      contextVars, backoffVars

LEMMA RouteKeeps ==
  ASSUME IrqInv,
         \/ \E w \in NrmRoutes : RouteNrm(w)
         \/ \E w \in ExtRoutes : RouteExt(w)
  PROVE  IrqInv'
<1>1. nrmMask' \in [Levels -> SUBSET NrmBits] /\ extMask' \in [Levels -> SUBSET ExtBits]
  <2>1. CASE \E w \in NrmRoutes : RouteNrm(w)
    <3>1. PICK w \in [level : Levels, mask : SUBSET NrmBits] : RouteNrm(w)
      BY <2>1, IrqAssumption
    <3>2. w.level \in Levels /\ w.mask \in SUBSET NrmBits  BY <3>1
    <3> QED BY <3>1, <3>2 DEF IrqInv, TypeOK, RouteNrm
  <2>2. CASE \E w \in ExtRoutes : RouteExt(w)
    <3>1. PICK w \in [level : Levels, mask : SUBSET ExtBits] : RouteExt(w)
      BY <2>2, IrqAssumption
    <3>2. w.level \in Levels /\ w.mask \in SUBSET ExtBits  BY <3>1
    <3> QED BY <3>1, <3>2 DEF IrqInv, TypeOK, RouteExt
  <2> QED BY <2>1, <2>2
<1>2. UNCHANGED <<clockVars, istnrm, istext, sr, handler, contextVars,
                  backoffVars, unserved, gameSr>>
  BY DEF RouteNrm, RouteExt
<1> QED
  BY <1>1, <1>2
  DEF IrqInv, TypeOK, ClockTypeOK, clockVars, BackoffInv, SrInv,
      StartedInv, contextVars, backoffVars

LEMMA SetHandlerKeeps ==
  ASSUME IrqInv, NEW registered \in BOOLEAN, SetHandler(registered)
  PROVE  IrqInv'
  BY DEF SetHandler, IrqInv, TypeOK, ClockTypeOK, clockVars, BackoffInv, SrInv,
         StartedInv, sbVars, contextVars, backoffVars

LEMMA SetSrKeeps ==
  ASSUME IrqInv, NEW value \in SrValues, SetSr(value)
  PROVE  IrqInv'
<1>1. value \in [bl : BOOLEAN, imask : 0 .. 15]
  BY IrqAssumption
<1>2. sr' = value /\ gameSr' = IF inIrq THEN gameSr ELSE value
  BY DEF SetSr
<1>3. {sr, frame, gameSr}' \subseteq [bl : BOOLEAN, imask : 0 .. 15] /\ SrInv'
  BY <1>1, <1>2 DEF IrqInv, TypeOK, SetSr, SrInv, contextVars
<1> QED
  BY <1>3
  DEF SetSr, IrqInv, TypeOK, ClockTypeOK, clockVars, BackoffInv,
      StartedInv, sbVars, contextVars, backoffVars

LEMMA HandlerReturnKeeps == IrqInv /\ HandlerReturn => IrqInv'
<1> SUFFICES ASSUME IrqInv, HandlerReturn PROVE IrqInv'  OBVIOUS
<1>1. {sr, frame, gameSr}' \subseteq [bl : BOOLEAN, imask : 0 .. 15] /\ SrInv'
  BY DEF IrqInv, TypeOK, HandlerReturn, SrInv
<1> QED
  BY <1>1
  DEF HandlerReturn, IrqInv, TypeOK, ClockTypeOK, clockVars, BackoffInv,
      StartedInv, sbVars, backoffVars

-----------------------------------------------------------------------------
(* The back-off: one decision keeps its counters in step. *)

(* The counter the decision starts from is the old one or 0. *)
LEMMA RepeatsType ==
  ASSUME IrqInv, NEW pend
  PROVE  /\ Repeats(pend) \in 0 .. 2 * BackoffPeriod - 1
         /\ Repeats(pend) = repeats \/ Repeats(pend) = 0
         /\ NextRepeat(Repeats(pend)) \in 0 .. 2 * BackoffPeriod - 1
  BY IrqAssumption DEF IrqInv, TypeOK, Repeats, NextRepeat

(* A poll backs off only from a word equal to g_last_pend: another word      *)
(* resets the counter, and at 0 it lets the delivery through.              *)
LEMMA SkipIsUnchanged ==
  ASSUME IrqInv, NEW level, NEW pend, Skip(level, pend)
  PROVE  pend = lastPend
  BY IrqAssumption DEF Skip, BackedOff, Repeats

LEMMA SkipKeepsBackoff ==
  ASSUME IrqInv, NEW level, NEW pend, Skip(level, pend)
  PROVE  BackoffInv' /\ skips' \in 0 .. BackoffPeriod
<1> DEFINE n == Repeats(pend)
<1>1. n \in 0 .. 2 * BackoffPeriod - 1 /\ n > BackoffFree /\ n # BackoffPeriod
  BY RepeatsType DEF Skip, BackedOff
<1>2. n = repeats
  BY <1>1, RepeatsType, IrqAssumption
<1>3. /\ repeats' = IF repeats + 1 = 2 * BackoffPeriod THEN BackoffPeriod ELSE repeats + 1
      /\ skips' = IF skips < BackoffPeriod THEN skips + 1 ELSE skips
  BY <1>2 DEF Skip, NextRepeat, OneMoreSkip
<1> QED
  BY <1>1, <1>2, <1>3, IrqAssumption DEF IrqInv, TypeOK, BackoffInv

LEMMA DeliverKeepsBackoff ==
  ASSUME IrqInv, NEW level, NEW pend, Deliver(level, pend)
  PROVE  BackoffInv' /\ skips' \in 0 .. BackoffPeriod
<1> DEFINE n == Repeats(pend)
<1>1. /\ n \in 0 .. 2 * BackoffPeriod - 1
      /\ n <= BackoffFree \/ n = BackoffPeriod
  BY RepeatsType, IrqAssumption DEF Deliver, BackedOff
<1>2. /\ repeats' = IF n + 1 = 2 * BackoffPeriod THEN BackoffPeriod ELSE n + 1
      /\ skips' = 0
  BY DEF Deliver, NextRepeat
<1> HIDE DEF n
<1> QED
  BY <1>1, <1>2, IrqAssumption DEF BackoffInv

(* Whatever a poll decides, the counters keep their type and their relation, *)
(* and the handler is entered with SR saved.                               *)
LEMMA DecideKeeps ==
  ASSUME IrqInv, NEW level, NEW pend \in SUBSET NrmBits, ~inIrq,
         PendWord(istnrm', istext') = pend,
         Decide(level, pend), UNCHANGED <<sr, gameSr>>
  PROVE  /\ lastPend' \in SUBSET NrmBits /\ StartedInv'
         /\ repeats' \in 0 .. 2 * BackoffPeriod - 1
         /\ skips' \in 0 .. BackoffPeriod
         /\ inIrq' \in BOOLEAN
         /\ {sr, frame, gameSr}' \subseteq [bl : BOOLEAN, imask : 0 .. 15]
         /\ BackoffInv'
         /\ SrInv'
<1>1. CASE NoHandler \/ Masked(level)
  <2>1. UNCHANGED <<inIrq, frame, lastPend, repeats, skips, startedOn>>
    BY <1>1 DEF NoHandler, Masked, contextVars, backoffVars
  <2>2. BackoffInv' /\ SrInv' /\ StartedInv'
    BY <2>1 DEF IrqInv, BackoffInv, SrInv, StartedInv
  <2> QED
    BY <2>1, <2>2 DEF IrqInv, TypeOK
<1>2. CASE NothingRouted(level)
  BY <1>2, IrqAssumption
  DEF NothingRouted, IrqInv, TypeOK, BackoffInv, SrInv, StartedInv, contextVars
<1>3. CASE Skip(level, pend)
  <2>1. lastPend' \in SUBSET NrmBits /\ repeats' \in 0 .. 2 * BackoffPeriod - 1
    BY <1>3, RepeatsType DEF Skip
  <2>2. BackoffInv' /\ skips' \in 0 .. BackoffPeriod
    BY <1>3, SkipKeepsBackoff
  <2>3. StartedInv'
    BY <1>3, SkipIsUnchanged DEF Skip, IrqInv, StartedInv
  <2> QED
    BY <1>3, <2>1, <2>2, <2>3 DEF Skip, IrqInv, TypeOK, SrInv, contextVars
<1>4. CASE Deliver(level, pend)
  <2>1. lastPend' \in SUBSET NrmBits /\ repeats' \in 0 .. 2 * BackoffPeriod - 1
    BY <1>4, RepeatsType DEF Deliver
  <2>2. BackoffInv' /\ skips' \in 0 .. BackoffPeriod
    BY <1>4, DeliverKeepsBackoff
  <2>3. StartedInv'
    BY <1>4 DEF Deliver, StartedInv
  <2> QED
    BY <1>4, <2>1, <2>2, <2>3 DEF Deliver, IrqInv, TypeOK, SrInv
<1> QED
  BY <1>1, <1>2, <1>3, <1>4 DEF Decide

LEMMA PollKeeps ==
  ASSUME IrqInv, NEW done \in SUBSET DmaBits, NEW late \in SUBSET DmaBits,
         NEW signal \in Signals, Poll(done, signal, late)
  PROVE  IrqInv'
<1> DEFINE ext == SignalledExt(signal)
           nrm == SignalledNrm(done, signal) \cup IF RaisesVBlank THEN {VBL_IN} ELSE {}
<1>1. /\ ~inIrq /\ ClockStep
      /\ istnrm' = nrm \cup late /\ istext' = ext
      /\ Decide(IrlLevel(nrm, ext), PendNow(nrm, late, ext))
      /\ unserved' = IF inIrq' THEN {} ELSE NewWork(istnrm')
      /\ UNCHANGED <<nrmMask, extMask, sr, handler, gameSr>>
  BY DEF Poll, RunClock
<1>2. /\ istnrm' \in SUBSET NrmBits /\ istnrm \subseteq istnrm'
      /\ istext' \in SUBSET ExtBits
  <2>1. /\ SignalledNrm(done, signal) \in SUBSET NrmBits
        /\ istnrm \subseteq SignalledNrm(done, signal)
        /\ ext \in SUBSET ExtBits
    BY SignalledType
  <2>2. nrm \in SUBSET NrmBits /\ istnrm \subseteq nrm
    BY <2>1
  <2>3. late \in SUBSET NrmBits
    BY IrqAssumption
  <2> HIDE DEF ext, nrm
  <2> QED BY <1>1, <2>1, <2>2, <2>3
<1>3. PendNow(nrm, late, ext) \in SUBSET NrmBits
  BY <1>1, <1>2 DEF PendNow, PendWord
<1>4. ClockTypeOK'
  BY <1>1, ClockStepKeeps DEF IrqInv, TypeOK
<1>5. unserved' \in SUBSET DmaBits
  BY <1>1, NewWorkType
<1>5a. PendWord(istnrm', istext') = PendNow(nrm, late, ext)
  BY <1>1 DEF PendNow
<1> HIDE DEF ext, nrm
<1>6. /\ lastPend' \in SUBSET NrmBits
      /\ repeats' \in 0 .. 2 * BackoffPeriod - 1
      /\ skips' \in 0 .. BackoffPeriod
      /\ inIrq' \in BOOLEAN
      /\ {sr, frame, gameSr}' \subseteq [bl : BOOLEAN, imask : 0 .. 15]
      /\ BackoffInv'
      /\ SrInv' /\ StartedInv'
  BY <1>1, <1>3, <1>5a, DecideKeeps
<1>7. startedOn' \in SUBSET NrmBits
  BY <1>6 DEF StartedInv
<1> QED
  BY <1>1, <1>2, <1>4, <1>5, <1>6, <1>7 DEF IrqInv, TypeOK

-----------------------------------------------------------------------------
(* Every step of the specification keeps IrqInv. *)
LEMMA NextKeeps == IrqInv /\ [Next]_vars => IrqInv'
<1> SUFFICES ASSUME IrqInv, [Next]_vars PROVE IrqInv'  OBVIOUS
<1>1. CASE HostTime  BY <1>1, HostTimeKeeps
<1>2. CASE \E ms \in DiscReadMs : DiscRead(ms)  BY <1>2, DiscReadKeeps
<1>3. CASE AnyPoll  BY <1>3, PollKeeps DEF AnyPoll
<1>4. CASE \E done \in SUBSET DmaBits, signal \in Signals : NestedPoll(done, signal)
  BY <1>4, NestedPollKeeps
<1>5. CASE \E done \in SUBSET DmaBits : RegisterRead(done)
  <2>1. PICK done \in SUBSET DmaBits : Raise([nrm |-> done, ext |-> {}])
    BY <1>5 DEF RegisterRead
  <2> DEFINE e == [nrm |-> done, ext |-> {}]
  <2>2. e.nrm \in SUBSET NrmBits /\ e.ext \in SUBSET ExtBits
    BY IrqAssumption
  <2>3. Raise(e)
    BY <2>1
  <2> HIDE DEF e
  <2> QED BY <2>2, <2>3, RaiseKeeps
<1>6. CASE \E e \in Events : Raise(e)
  <2>1. PICK e \in Events : Raise(e)  BY <1>6
  <2>2. e.nrm \in SUBSET NrmBits /\ e.ext \in SUBSET ExtBits  BY IrqAssumption
  <2> QED BY <2>1, <2>2, RaiseKeeps
<1>7. CASE (\E S \in SUBSET istnrm : AckNrm(S)) \/ (\E S \in SUBSET istext : AckExt(S))
  BY <1>7, AckKeeps
<1>8. CASE \/ \E w \in NrmRoutes : RouteNrm(w)
           \/ \E w \in ExtRoutes : RouteExt(w)
  BY <1>8, RouteKeeps
<1>9. CASE \E registered \in BOOLEAN : SetHandler(registered)
  BY <1>9, SetHandlerKeeps
<1>10. CASE \E value \in SrValues : SetSr(value)  BY <1>10, SetSrKeeps
<1>11. CASE HandlerReturn  BY <1>11, HandlerReturnKeeps
<1>12. CASE UNCHANGED vars
  BY <1>12
  DEF vars, clockVars, sbVars, contextVars, backoffVars, IrqInv, TypeOK,
      ClockTypeOK, BackoffInv, SrInv, StartedInv
<1> QED
  BY <1>1, <1>2, <1>3, <1>4, <1>5, <1>6, <1>7, <1>8, <1>9, <1>10, <1>11, <1>12 DEF Next

(* Interrupt delivery keeps its inductive invariant, for every value of the *)
(* constants.                                                              *)
THEOREM IrqSafe == Spec => []IrqInv
<1>1. Init => IrqInv  BY InitIrqInv
<1>2. IrqInv /\ [Next]_vars => IrqInv'  BY NextKeeps
<1> QED BY <1>1, <1>2, PTL DEF Spec

(* Every register holds what its width allows, the frames owed stay within   *)
(* their cap, and the repeat counter within its two periods (sh4_poll_irq).  *)
THEOREM IrqTypes == Spec => []TypeOK
<1>1. IrqInv => TypeOK  BY DEF IrqInv
<1> QED BY <1>1, IrqSafe, PTL

(* sh4_poll_irq skips at most BackoffPeriod - 1 deliverable polls in a row. *)
THEOREM BackoffIsBounded == Spec => []BackoffBounded
<1>1. IrqInv => BackoffBounded
  BY IrqAssumption DEF IrqInv, TypeOK, BackoffInv, BackoffBounded
<1> QED BY <1>1, IrqSafe, PTL

(* The main code finds its own SR after every interrupt. *)
THEOREM SrIsRestored == Spec => []GameKeepsItsSr
<1>1. IrqInv => GameKeepsItsSr  BY DEF IrqInv, SrInv, GameKeepsItsSr
<1> QED BY <1>1, IrqSafe, PTL

(* A step that skips a deliverable poll leaves the pending word the handler  *)
(* last started with.                                                      *)
LEMMA SkipLeavesStartedWord ==
  ASSUME IrqInv, Next, skips' > skips
  PROVE  PendWord(istnrm', istext') = startedOn
<1>1. AnyPoll
  <2>1. skips' # skips
    BY DEF IrqInv, TypeOK
  <2>2. Next => AnyPoll \/ UNCHANGED backoffVars
    BY Zenon
    DEF Next, HostTime, DiscRead, NestedPoll, RegisterRead, Raise, AckNrm,
        AckExt, RouteNrm, RouteExt, SetHandler, SetSr, HandlerReturn
  <2> QED BY <2>1, <2>2 DEF backoffVars
<1>2. PICK done \in SUBSET DmaBits, late \in SUBSET DmaBits, signal \in Signals :
        Poll(done, signal, late)
  BY <1>1 DEF AnyPoll
<1> DEFINE ext == SignalledExt(signal)
           nrm == SignalledNrm(done, signal) \cup IF RaisesVBlank THEN {VBL_IN} ELSE {}
<1>3. /\ istnrm' = nrm \cup late /\ istext' = ext
      /\ Decide(IrlLevel(nrm, ext), PendNow(nrm, late, ext))
  BY <1>2 DEF Poll
<1> HIDE DEF ext, nrm
<1>4. Skip(IrlLevel(nrm, ext), PendNow(nrm, late, ext))
  BY <1>3, IrqAssumption
  DEF Decide, NoHandler, NothingRouted, Masked, Deliver, backoffVars, IrqInv, TypeOK
<1>5. PendNow(nrm, late, ext) = lastPend
  BY <1>4, SkipIsUnchanged
<1> QED
  BY <1>3, <1>5 DEF PendNow, IrqInv, StartedInv

(* sh4_poll_irq backs off only while the pending word is the one it last     *)
(* started the handler with, read after everything the poll retires.        *)
THEOREM OnlyUnchangedIsSkipped == Spec => OnlyUnchangedBacksOff
<1> DEFINE Unchanged == PendWord(istnrm', istext') = startedOn
<1>1. IrqInv /\ [Next]_vars => [skips' > skips => Unchanged]_vars
  BY SkipLeavesStartedWord
<1> QED BY <1>1, IrqSafe, PTL DEF Spec, OnlyUnchangedBacksOff

-----------------------------------------------------------------------------
(* What is delivered. *)

(* Of a set of interrupt levels that is not empty, one is the highest. *)
LEMMA HighestIsMember ==
  ASSUME NEW S \in SUBSET Levels, S # {}
  PROVE  Highest(S) \in S
<1>1. \E l \in S : \A k \in S : k <= l
  <2>1. CASE 13 \in S  BY <2>1
  <2>2. CASE 13 \notin S /\ 11 \in S  BY <2>2
  <2>3. CASE 13 \notin S /\ 11 \notin S
    <3>1. S = {9}  BY <2>3
    <3> QED BY <3>1
  <2> QED BY <2>1, <2>2, <2>3
<1> QED BY <1>1 DEF Highest

(* The level vblank_irl_level answers is one something pending is routed to, *)
(* or the middle one for VBlank.                                           *)
LEMMA LevelIsRouted ==
  ASSUME NEW nrm, NEW ext, IrlLevel(nrm, ext) # 0
  PROVE  \E l \in Levels :
           /\ l = IrlLevel(nrm, ext)
           /\ \/ nrm \cap nrmMask[l] # {}
              \/ ext \cap extMask[l] # {}
              \/ VBL_IN \in nrm /\ l = MidLevel
<1>1. CASE nrm # {} /\ NrmHits(nrm) # {}
  <2>1. IrlLevel(nrm, ext) \in NrmHits(nrm)
    BY <1>1, HighestIsMember DEF IrlLevel, NrmHits
  <2> QED BY <2>1 DEF NrmHits
<1>2. CASE nrm # {} /\ NrmHits(nrm) = {} /\ ExtHits(ext) # {}
  <2>1. IrlLevel(nrm, ext) \in ExtHits(ext)
    BY <1>2, HighestIsMember DEF IrlLevel, ExtHits
  <2> QED BY <2>1 DEF ExtHits
<1>3. CASE nrm # {} /\ NrmHits(nrm) = {} /\ ExtHits(ext) = {}
  BY <1>3 DEF IrlLevel
<1> QED BY <1>1, <1>2, <1>3 DEF IrlLevel

(* A step that enters the handler delivers a level above the game's IMASK,   *)
(* with BL clear, to which a pending source is routed.                     *)
LEMMA EntryIsUnmasked ==
  ASSUME IrqInv, Next, Entered
  PROVE  /\ ~gameSr.bl
         /\ \E l \in Levels :
              /\ gameSr.imask < l
              /\ \/ \E b \in istnrm' : b \in nrmMask[l]
                 \/ \E b \in istext' : b \in extMask[l]
                 \/ VBL_IN \in istnrm' /\ l = MidLevel
<1>1. AnyPoll
  BY DEF Next, Entered, HostTime, DiscRead, NestedPoll, RegisterRead, Raise,
         AckNrm, AckExt, RouteNrm, RouteExt, SetHandler, SetSr, HandlerReturn,
         contextVars
<1>2. PICK done \in SUBSET DmaBits, late \in SUBSET DmaBits, signal \in Signals :
        Poll(done, signal, late)
  BY <1>1 DEF AnyPoll
<1> DEFINE ext == SignalledExt(signal)
           nrm == SignalledNrm(done, signal) \cup IF RaisesVBlank THEN {VBL_IN} ELSE {}
<1>3. /\ istnrm' = nrm \cup late /\ istext' = ext
      /\ Decide(IrlLevel(nrm, ext), PendNow(nrm, late, ext))
  BY <1>2 DEF Poll
<1> HIDE DEF ext, nrm
<1>4. IrlLevel(nrm, ext) # 0 /\ Accepts(IrlLevel(nrm, ext))
  BY <1>3 DEF Entered, Decide, NoHandler, NothingRouted, Masked, Skip, Deliver, contextVars
<1>5. sr = gameSr
  BY DEF IrqInv, SrInv, Entered
<1> QED
  BY <1>3, <1>4, <1>5, LevelIsRouted DEF Accepts

(* The handler is entered only for a routed interrupt the game has not       *)
(* masked, and never on top of itself.                                     *)
THEOREM OnlyUnmaskedDelivered == Spec => DeliversOnlyUnmasked
<1> DEFINE Unmasked ==
      /\ ~gameSr.bl
      /\ \E l \in Levels :
           /\ gameSr.imask < l
           /\ \/ \E b \in istnrm' : b \in nrmMask[l]
              \/ \E b \in istext' : b \in extMask[l]
              \/ VBL_IN \in istnrm' /\ l = MidLevel
<1>1. IrqInv /\ [Next]_vars => [Entered => Unmasked]_vars
  BY EntryIsUnmasked
<1> QED BY <1>1, IrqSafe, PTL DEF Spec, DeliversOnlyUnmasked
=============================================================================
