----------------------------- MODULE GdRom_proofs -----------------------------
(***************************************************************************)
(* Safety of GdRom for every length of frame, gate, cap, set of drivers and   *)
(* size of reads: types, the credit for disc time, and the length of a spin.  *)
(***************************************************************************)
EXTENDS GdRom, TLAPS

(* The credit is conserved, and the history never runs past what the cap holds. *)
CreditInv == unpaid \in 0 .. OverCap /\ CreditConserved

ClockInv == ClockTypeOK /\ CreditInv

(* Ids are those of the commands taken, up to the bound. *)
DriverTypeOK ==
  /\ nextId \in 1 .. MaxId + 1
  /\ lastId \in 0 .. MaxId /\ reportedId \in 0 .. MaxId
  /\ signalled \in BOOLEAN /\ inReq \in BOOLEAN
  /\ waiting \in [Drivers -> 0 .. MaxId]
  /\ justAsked \in Drivers \cup {Nobody}

(* The driver that was last told PROCESSING still waits, for the id that is    *)
(* remembered; the main code waits for nothing while it is inside ReqCmd.    *)
AskedInv ==
  /\ \A d \in Drivers :
       justAsked = d => waiting[d] # NoId /\ waiting[d] = reportedId
  /\ inReq => Main \in Drivers /\ waiting[Main] = NoId

GdInv == ClockInv /\ DriverTypeOK /\ AskedInv

LEMMA OverCapIsNat == OverCap \in Nat /\ OverCap = FrameMs * OwedCap + FrameMs
BY ClockAssumption DEF OverCap

(* The time a drive needs is a number of milliseconds (dc_bios.c 205). *)
LEMMA DriveMsIsNat == ASSUME NEW n \in SectorCounts PROVE DriveMs(n) \in Nat
BY GdRomAssumption, SMT DEF DriveMs

(* A quotient and a remainder of positive numbers. *)
LEMMA Division ==
  ASSUME NEW a \in Nat, NEW d \in Nat \ {0}
  PROVE  /\ a \div d \in Nat /\ a % d \in 0 .. d - 1
         /\ a = d * (a \div d) + (a % d)
BY SMT

(* A product of naturals with a positive factor keeps the order. *)
LEMMA FramesOrder ==
  ASSUME NEW d \in Nat \ {0}, NEW a \in Nat, NEW b \in Nat, d * a < d * b
  PROVE  a < b
<1>1. a >= b => d * a >= d * b
  BY SMT
<1> QED BY <1>1, SMT

(* sh4_credit_elapsed_ms under the cap keeps every millisecond, as frames or   *)
(* as the remainder (sh4_cpu.c 244-253).                                    *)
LEMMA ExecKeeps == ASSUME ClockInv, NEW n \in SectorCounts, Exec(n) PROVE ClockInv'
<1> DEFINE credit == DriveMs(n)
<1> DEFINE total == owedMs + credit
<1> DEFINE frames == total \div FrameMs
<1> DEFINE rest == total % FrameMs
<1>1. /\ credit \in Nat /\ owedMs \in 0 .. FrameMs - 1 /\ total \in Nat
      /\ owed \in 0 .. OwedCap /\ FrameMs \in Nat \ {0} /\ OwedCap \in Nat
  BY DriveMsIsNat, ClockAssumption DEF ClockInv, ClockTypeOK
<1>2. frames \in Nat /\ rest \in 0 .. FrameMs - 1 /\ total = (FrameMs * frames) + rest
  <2> HIDE DEF total
  <2> QED BY <1>1, Division
<1>3. /\ owed' = Capped(owed + frames) /\ owedMs' = rest
      /\ UNCHANGED <<tick, elapsed>>
      /\ unpaid' = IF unpaid + credit >= OverCap THEN OverCap ELSE unpaid + credit
  BY DEF Exec, Credit
<1> HIDE DEF frames, rest, total, credit
<1>4. ClockTypeOK'
  BY <1>1, <1>2, <1>3 DEF ClockInv, ClockTypeOK, Capped
<1>5. unpaid' \in 0 .. OverCap
  BY <1>1, <1>3, OverCapIsNat DEF ClockInv, CreditInv
<1>6. CreditConserved'
  <2> SUFFICES ASSUME unpaid' < OverCap PROVE unpaid' = FrameMs * owed' + owedMs'
    BY DEF CreditConserved, OverCap
  <2>1. unpaid' = unpaid + credit /\ unpaid < OverCap
    BY <1>1, <1>3, OverCapIsNat DEF ClockInv, CreditInv
  <2>2. unpaid = FrameMs * owed + owedMs
    BY <2>1 DEF ClockInv, CreditInv, CreditConserved
  <2>3. total = owedMs + credit
    BY DEF total
  <2>4. FrameMs * (owed + frames) = FrameMs * owed + FrameMs * frames
    BY <1>1, <1>2, SMT
  <2>5. unpaid' = FrameMs * (owed + frames) + rest
    <3>1. FrameMs * owed \in Nat /\ FrameMs * frames \in Nat
      BY <1>1, <1>2
    <3> HIDE DEF CreditConserved
    <3> QED BY <1>1, <1>2, <2>1, <2>2, <2>3, <2>4, <3>1
  <2>6. FrameMs * (owed + frames) < FrameMs * (OwedCap + 1)
    BY <1>1, <1>2, <2>5 DEF OverCap
  <2>7. owed + frames < OwedCap + 1
    BY <1>1, <1>2, <2>6, FramesOrder
  <2>8. owed' = owed + frames
    BY <1>1, <1>2, <1>3, <2>7 DEF Capped
  <2> QED BY <1>3, <2>5, <2>8
<1> QED BY <1>4, <1>5, <1>6 DEF ClockInv, CreditInv

(* A poll pays one frame at most, and it is worth FrameMs (sh4_cpu.c 337-344). *)
LEMMA PollKeeps == ASSUME ClockInv, Poll PROVE ClockInv'
<1>1. ClockTypeOK'
  BY ClockAssumption DEF Poll, ClockInv, ClockTypeOK, ClockStep, GateOpen, FrameDue, FramePaid
<1>2. CASE FramePaid /\ unpaid < OverCap
  <2>1. /\ owed' = owed - 1 /\ owedMs' = owedMs /\ unpaid' = unpaid - FrameMs
        /\ owed \in 1 .. OwedCap /\ owedMs \in 0 .. FrameMs - 1
    BY <1>2, ClockAssumption DEF Poll, ClockStep, FramePaid, ClockInv, ClockTypeOK
  <2>2. unpaid = FrameMs * owed + owedMs
    BY <1>2 DEF ClockInv, CreditInv, CreditConserved
  <2>3. FrameMs * owed = FrameMs * (owed - 1) + FrameMs /\ FrameMs * (owed - 1) \in Nat
    BY <2>1, ClockAssumption, SMT
  <2>4. unpaid' = FrameMs * owed' + owedMs' /\ unpaid' \in Nat /\ unpaid' < OverCap
    BY <1>2, <2>1, <2>2, <2>3, ClockAssumption, OverCapIsNat DEF ClockInv, CreditInv
  <2> QED BY <1>1, <2>4, OverCapIsNat DEF ClockInv, CreditInv, CreditConserved, OverCap
<1>3. CASE FramePaid /\ ~(unpaid < OverCap)
  <2>1. unpaid' = unpaid /\ unpaid = OverCap
    BY <1>3, OverCapIsNat DEF Poll, ClockInv, CreditInv
  <2> QED BY <1>1, <2>1, OverCapIsNat DEF ClockInv, CreditInv, CreditConserved, OverCap
<1>4. CASE ~FramePaid
  <2>1. UNCHANGED <<owed, owedMs, unpaid>>
    BY <1>4 DEF Poll, ClockStep
  <2> QED BY <1>1, <2>1 DEF ClockInv, CreditInv, CreditConserved, OverCap
<1> QED BY <1>2, <1>3, <1>4

LEMMA SameClock == ASSUME ClockInv, UNCHANGED <<clockVars, unpaid>> PROVE ClockInv'
BY DEF ClockInv, ClockTypeOK, CreditInv, CreditConserved, OverCap, clockVars

LEMMA HostTimeKeeps == ASSUME ClockInv, HostTime PROVE ClockInv'
BY ClockAssumption
DEF HostTime, MsPasses, ClockInv, ClockTypeOK, CreditInv, CreditConserved, OverCap

(* The drivers: ids are given out, waited for and reported. *)
LEMMA DriversKeep ==
  ASSUME GdInv, Next
  PROVE  DriverTypeOK' /\ AskedInv'
<1> USE DEF GdInv, DriverTypeOK, AskedInv
<1>1. CASE ReqCmdBegin
  <2>1. nextId \in 1 .. MaxId /\ nextId' = nextId + 1 /\ lastId' = nextId /\ inReq' = TRUE
    BY <1>1 DEF ReqCmdBegin, TakeId
  <2>3. Main \in Drivers /\ waiting[Main] = NoId
    BY <1>1 DEF ReqCmdBegin
  <2>2. UNCHANGED <<reportedId, signalled, waiting, justAsked>>
    BY <1>1 DEF ReqCmdBegin, TakeId
  <2> QED BY <2>1, <2>2, <2>3, GdRomAssumption
<1>2. CASE ReqCmdEnd
  <2>1. UNCHANGED <<nextId, lastId, reportedId, justAsked>> /\ inReq' = FALSE /\ signalled' = TRUE
    BY <1>2 DEF ReqCmdEnd, AnswerId, idVars
  <2>2. waiting' = [waiting EXCEPT ![Main] = lastId]
    BY <1>2 DEF ReqCmdEnd, AnswerId
  <2>3. \A d \in Drivers : justAsked = d => d # Main
    BY <1>2 DEF ReqCmdEnd
  <2> QED BY <2>1, <2>2, <2>3
<1>3. CASE HandlerReqCmd
  <2>1. /\ nextId \in 1 .. MaxId /\ nextId' = nextId + 1 /\ lastId' = nextId
        /\ UNCHANGED <<reportedId, justAsked, inReq>> /\ signalled' = TRUE
    BY <1>3 DEF HandlerReqCmd, TakeId, AnswerId
  <2>2. waiting' = [waiting EXCEPT ![Handler] = lastId']
    BY <1>3 DEF HandlerReqCmd, AnswerId
  <2>3. waiting[Handler] = NoId /\ justAsked # Handler
    BY <1>3 DEF HandlerReqCmd
  <2>4. inReq => waiting'[Main] = NoId
    BY <2>2, GdRomAssumption
  <2>5. waiting' \in [Drivers -> 0 .. MaxId] /\ lastId' \in 0 .. MaxId
    <3>1. nextId \in 0 .. MaxId
      BY <2>1, GdRomAssumption
    <3> QED BY <2>1, <2>2, <3>1
  <2>6. \A d \in Drivers : justAsked = d => waiting'[d] = waiting[d]
    BY <2>2, <2>3
  <2>7. DriverTypeOK'
    BY <2>1, <2>5, GdRomAssumption
  <2>8. AskedInv'
    BY <2>1, <2>4, <2>6
  <2> QED BY <2>7, <2>8
<1>4. ASSUME NEW d \in Drivers, GetCmdStat(d) PROVE DriverTypeOK' /\ AskedInv'
  <2>1. UNCHANGED <<nextId, lastId, signalled, inReq>>
    BY <1>4 DEF GetCmdStat
  <2>2. CASE waiting[d] # reportedId
    <3>1. reportedId' = waiting[d] /\ justAsked' = d /\ waiting' = waiting /\ waiting[d] # NoId
      BY <1>4, <2>2 DEF GetCmdStat, Report
    <3> QED BY <2>1, <3>1
  <2>3. CASE waiting[d] = reportedId
    <3>1. waiting' = [waiting EXCEPT ![d] = NoId] /\ justAsked' = Nobody /\ reportedId' = reportedId
      BY <1>4, <2>3 DEF GetCmdStat, Report
    <3>2. Nobody \notin Drivers
      BY GdRomAssumption
    <3>3. waiting' \in [Drivers -> 0 .. MaxId]
      BY <3>1, GdRomAssumption DEF NoId
    <3> QED BY <2>1, <3>1, <3>2, <3>3
  <2> QED BY <2>2, <2>3
<1>5. CASE InitSystem
  <2>1. nextId' = 1 /\ UNCHANGED <<lastId, reportedId, signalled, inReq, waiting, justAsked>>
    BY <1>5 DEF InitSystem, driverVars
  <2>2. 1 \in 1 .. MaxId + 1
    BY GdRomAssumption
  <2>3. DriverTypeOK'
    BY <2>1, <2>2
  <2>4. AskedInv'
    BY <2>1
  <2> QED BY <2>3, <2>4
<1>6. CASE AckDrive \/ Poll \/ HostTime
  <2>1. UNCHANGED <<nextId, lastId, reportedId, inReq, waiting, justAsked>>
    BY <1>6 DEF AckDrive, Poll, HostTime, idVars, driverVars
  <2>2. signalled' = FALSE \/ signalled' = signalled
    BY <1>6 DEF AckDrive, Poll, HostTime
  <2>3. DriverTypeOK'
    BY <2>1, <2>2
  <2>4. AskedInv'
    BY <2>1
  <2> QED BY <2>3, <2>4
<1> QED BY <1>1, <1>2, <1>3, <1>4, <1>5, <1>6 DEF Next

-----------------------------------------------------------------------------
LEMMA InitGdInv == Init => GdInv
<1> SUFFICES ASSUME Init PROVE GdInv  OBVIOUS
<1>1. ClockInv
  <2>1. ClockTypeOK
    BY ClockAssumption DEF Init, ClockInit, ClockTypeOK
  <2>2. unpaid = 0 /\ FrameMs * owed + owedMs = 0
    BY ClockAssumption DEF Init, ClockInit
  <2> QED BY <2>1, <2>2, OverCapIsNat DEF ClockInv, CreditInv, CreditConserved
<1>2. DriverTypeOK /\ AskedInv
  <2>1. /\ nextId = 1 /\ lastId = NoId /\ reportedId = NoId
        /\ signalled = FALSE /\ inReq = FALSE /\ justAsked = Nobody
    BY DEF Init
  <2>2. waiting \in [Drivers -> 0 .. MaxId] /\ NoId \in 0 .. MaxId /\ 1 \in 1 .. MaxId + 1
    BY GdRomAssumption DEF Init, NoId
  <2>3. DriverTypeOK
    BY <2>1, <2>2 DEF DriverTypeOK
  <2>4. Nobody \notin Drivers
    BY GdRomAssumption
  <2> QED BY <2>1, <2>3, <2>4 DEF AskedInv
<1> QED BY <1>1, <1>2 DEF GdInv

LEMMA NextKeeps == GdInv /\ [Next]_vars => GdInv'
<1> SUFFICES ASSUME GdInv, [Next]_vars PROVE GdInv'  OBVIOUS
<1>1. CASE UNCHANGED vars
  BY <1>1, SameClock
  DEF GdInv, DriverTypeOK, AskedInv, vars, idVars, driverVars
<1>2. CASE Next
  <2>1. ClockInv'
    <3> USE DEF GdInv
    <3>1. CASE ReqCmdEnd \/ HandlerReqCmd
      BY <3>1, ExecKeeps DEF ReqCmdEnd, HandlerReqCmd
    <3>2. CASE Poll  BY <3>2, PollKeeps
    <3>3. CASE HostTime  BY <3>3, HostTimeKeeps
    <3>4. CASE ReqCmdBegin \/ InitSystem \/ AckDrive \/ \E d \in Drivers : GetCmdStat(d)
      BY <3>4, SameClock DEF ReqCmdBegin, InitSystem, AckDrive, GetCmdStat
    <3> QED BY <1>2, <3>1, <3>2, <3>3, <3>4 DEF Next
  <2> QED BY <1>2, <2>1, DriversKeep DEF GdInv
<1> QED BY <1>1, <1>2

(* The inductive invariant holds in every reachable state. *)
THEOREM GdRomSafe == Spec => []GdInv
BY InitGdInv, NextKeeps, PTL DEF Spec

(* Ids stay those that were given out, and the frames owed within their cap,   *)
(* however reads, resets and polls interleave (syscall_gdrom).              *)
THEOREM GdRomTypes == Spec => []TypeOK
<1>1. GdInv => TypeOK
  BY DEF GdInv, ClockInv, CreditInv, DriverTypeOK, TypeOK
<1> QED BY <1>1, GdRomSafe, PTL

(* No frame is made up and none is lost: what the drive credited and the clock *)
(* has not paid is what it owes, for every length of frame and of read       *)
(* (sh4_credit_elapsed_ms and the clock of sh4_poll_irq).                   *)
THEOREM NoFrameLost == Spec => []CreditConserved
<1>1. GdInv => CreditConserved
  BY DEF GdInv, ClockInv, CreditInv
<1> QED BY <1>1, GdRomSafe, PTL

(* A driver that asks twice with nobody asking in between is told COMPLETED,   *)
(* for any set of drivers and any restart of the ids (dc_bios.c 313-334).    *)
THEOREM SecondAskIsAnswered == Spec => SecondAskCompletes
<1> DEFINE Answered == \A d \in Drivers : AskAgain(d) => waiting'[d] = NoId
<1>1. GdInv /\ [Next]_vars => [Answered]_vars
  <2> SUFFICES ASSUME GdInv, NEW d \in Drivers, AskAgain(d) PROVE waiting'[d] = NoId
    OBVIOUS
  <2>1. waiting[d] = reportedId /\ GetCmdStat(d)
    BY DEF AskAgain, GdInv, AskedInv
  <2>2. waiting' = [waiting EXCEPT ![d] = NoId]
    BY <2>1 DEF GetCmdStat
  <2> QED BY <2>2 DEF GdInv, DriverTypeOK
<1> QED BY <1>1, GdRomSafe, PTL DEF Spec, SecondAskCompletes
=============================================================================
