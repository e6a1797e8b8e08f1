------------------------------- MODULE GdRom -------------------------------
(***************************************************************************)
(* The GD-ROM system call of src/src/hal/dc_bios.c (syscall_gdrom, lines     *)
(* 240-340): commands complete inside ReqCmd, GetCmdStat makes up the       *)
(* busy->done transition a driver watches for, and the time a drive would   *)
(* have taken is credited to the 60Hz clock (VBlankClock).                 *)
(*                                                                         *)
(* The game's drivers are modelled from how the code says they behave: one  *)
(* command at a time, GetCmdStat until it answers COMPLETED.  The driver of *)
(* the main code can be interrupted inside ReqCmd, at the memory reads that *)
(* fetch the command's parameters (lines 245-247), because any read may     *)
(* poll; the handler's own calls are not interrupted.  Ids are bounded by   *)
(* MaxId.  What the sectors hold, and the delivery of the interrupts, are    *)
(* left out.                                                               *)
(***************************************************************************)
EXTENDS VBlankClock, FiniteSets

CONSTANTS
  Main, Handler,   \* the two contexts a driver can run in
  Nobody,          \* no driver
  Drivers,         \* the contexts in which the game talks to the drive
  SectorCounts,    \* sectors read by a command; 0 for a command without data
  MaxId            \* bound on the ids the game uses up between resets

ASSUME GdRomAssumption ==
  /\ Main # Handler /\ Nobody \notin {Main, Handler}
  /\ Drivers \subseteq {Main, Handler}
  /\ SectorCounts \subseteq Nat
  /\ MaxId \in Nat \ {0}

NoId == 0  \* no command outstanding; ids start at 1

VARIABLES
  nextId,      \* g_gdc_next_id
  lastId,      \* g_gdc_last_id
  reportedId,  \* g_gdc_reported_id, NoId for 0xFFFFFFFF
  signalled,   \* the drive's completion bits: SB_ISTEXT bit 0, SB_ISTNRM 30, 14
  inReq,       \* is the main code inside ReqCmd?
  waiting,     \* waiting[d]: the id driver d polls, NoId when it has none
  justAsked,   \* the driver GetCmdStat last answered PROCESSING (history)
  unpaid       \* ms credited and not yet paid as frames (history)

idVars == <<nextId, lastId, reportedId>>
driverVars == <<inReq, waiting, justAsked>>
vars == <<clockVars, idVars, signalled, driverVars, unpaid>>

Init ==
  /\ ClockInit
  /\ nextId = 1 /\ lastId = NoId /\ reportedId = NoId
  /\ signalled = FALSE
  /\ inReq = FALSE
  /\ waiting = [d \in Drivers |-> NoId]
  /\ justAsked = Nobody
  /\ unpaid = 0

-----------------------------------------------------------------------------
(* gdc_read_sectors and the charge for it: 900 sectors take a second. *)
DriveMs(sectors) == (sectors * 1000) \div 900

(* More than the cap can hold; the history no longer follows the credit. *)
OverCap == FrameMs * (OwedCap + 1)

Exec(sectors) ==
  /\ Credit(DriveMs(sectors))
  /\ unpaid' = IF unpaid + DriveMs(sectors) >= OverCap
                 THEN OverCap ELSE unpaid + DriveMs(sectors)

(* ReqCmd(cmd, param): take an id, execute, answer with g_gdc_last_id.  The  *)
(* main code's call is two steps: the handler may run between them.        *)
TakeId ==
  /\ nextId <= MaxId
  /\ lastId' = nextId /\ nextId' = nextId + 1
  /\ UNCHANGED reportedId

AnswerId(d, id) ==
  /\ waiting' = [waiting EXCEPT ![d] = id]
  /\ UNCHANGED justAsked

ReqCmdBegin ==
  /\ Main \in Drivers /\ ~inReq /\ waiting[Main] = NoId
  /\ TakeId
  /\ inReq' = TRUE
  /\ UNCHANGED <<clockVars, signalled, waiting, justAsked, unpaid>>

ReqCmdEnd ==
  /\ inReq
  /\ \E sectors \in SectorCounts : Exec(sectors)
  /\ inReq' = FALSE
  /\ signalled' = TRUE
  /\ AnswerId(Main, lastId)
  /\ UNCHANGED idVars

HandlerReqCmd ==
  /\ Handler \in Drivers /\ waiting[Handler] = NoId
  /\ TakeId
  /\ \E sectors \in SectorCounts : Exec(sectors)
  /\ signalled' = TRUE
  /\ AnswerId(Handler, lastId')
  /\ UNCHANGED inReq

ReportLast(id) == reportedId' = lastId  \* mutant: the id of the last command

(* GetCmdStat's memory of the last id it answered PROCESSING. *)
Report(id) == reportedId' = id

(* GetCmdStat(id): PROCESSING for an id other than the last it answered so,  *)
(* COMPLETED for that one.                                                 *)
GetCmdStat(d) ==
  /\ waiting[d] # NoId
  /\ d = Main => ~inReq
  /\ \/ /\ waiting[d] # reportedId
        /\ Report(waiting[d])
        /\ justAsked' = d
        /\ UNCHANGED waiting
     \/ /\ waiting[d] = reportedId
        /\ waiting' = [waiting EXCEPT ![d] = NoId]
        /\ justAsked' = Nobody
        /\ UNCHANGED reportedId
  /\ UNCHANGED <<clockVars, nextId, lastId, signalled, inReq, unpaid>>

(* InitSystem, called by a driver while no command is outstanding. *)
InitSystem ==
  /\ ~inReq /\ \A d \in Drivers : waiting[d] = NoId
  /\ nextId' = 1
  /\ UNCHANGED <<clockVars, lastId, reportedId, signalled, driverVars, unpaid>>

(* The handler acknowledges the drive (IrqDelivery has its delivery). *)
AckDrive ==
  /\ signalled
  /\ signalled' = FALSE
  /\ UNCHANGED <<clockVars, idVars, driverVars, unpaid>>

-----------------------------------------------------------------------------
(* The clock: a poll, from any memory read of the main code, and the host's *)
(* time.                                                                   *)
Poll ==
  /\ ClockStep
  /\ unpaid' = IF FramePaid /\ unpaid < OverCap THEN unpaid - FrameMs ELSE unpaid
  /\ UNCHANGED <<idVars, signalled, driverVars>>

HostTime ==
  /\ MsPasses
  /\ UNCHANGED <<idVars, signalled, driverVars, unpaid>>

Next ==
  \/ ReqCmdBegin \/ ReqCmdEnd \/ HandlerReqCmd
  \/ \E d \in Drivers : GetCmdStat(d)
  \/ InitSystem \/ AckDrive
  \/ Poll \/ HostTime

Spec == Init /\ [][Next]_vars

(* ReqCmd returns, and a driver spins on GetCmdStat ("callers spin while     *)
(* PROCESSING", dc_bios.c:305-306).  In what order two drivers ask is left  *)
(* open: an interrupt may come between any two asks of the main code.       *)
Fairness ==
  /\ WF_vars(ReqCmdEnd)
  /\ \A d \in Drivers : WF_vars(GetCmdStat(d))

FairSpec == Spec /\ Fairness

-----------------------------------------------------------------------------
TypeOK ==
  /\ ClockTypeOK
  /\ nextId \in 1 .. MaxId + 1
  /\ {lastId, reportedId} \subseteq 0 .. MaxId
  /\ {signalled, inReq} \subseteq BOOLEAN
  /\ waiting \in [Drivers -> 0 .. MaxId]
  /\ justAsked \in Drivers \cup {Nobody}
  /\ unpaid \in 0 .. OverCap

(* No frame is made up and none is lost, with reads of both contexts mixed   *)
(* with the clock's own frames: what the drive credited and the clock has   *)
(* not paid is exactly what the clock owes, until the cap voids some of it. *)
CreditConserved == unpaid < OverCap => unpaid = FrameMs * owed + owedMs

(* A driver that asks twice with nobody asking in between is told COMPLETED, *)
(* whatever ids were reused or reset before (dc_bios.c:313): its spin is    *)
(* two calls long.                                                         *)
AskAgain(d) == justAsked = d /\ GetCmdStat(d)

SecondAskCompletes ==
  [][\A d \in Drivers : AskAgain(d) => waiting'[d] = NoId]_vars

(* A driver's command from ReqCmd's first step to the answer COMPLETED. *)
Outstanding(d) == waiting[d] # NoId \/ (d = Main /\ inReq)

(* Two drivers poll at once: each ask of one makes GetCmdStat forget the     *)
(* other's.                                                                *)
Contended == Cardinality({d \in Drivers : waiting[d] # NoId}) > 1

(* Every command is reported COMPLETED, through interrupted ReqCmds, resets  *)
(* and reused ids, unless a second driver comes to poll at the same time:   *)
(* two that ask in strict turns are answered PROCESSING for ever            *)
(* (dc_bios.c:317-319).                                                    *)
CommandCompletes ==
  \A d \in Drivers : Outstanding(d) ~> ~Outstanding(d) \/ Contended
=============================================================================
