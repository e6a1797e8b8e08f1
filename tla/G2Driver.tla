------------------------------ MODULE G2Driver -----------------------------
(***************************************************************************)
(* G2Dma driven by a game.  The game is not part of the repository; its     *)
(* driver is modelled from what the code says of it: it programs a length,  *)
(* starts the channel, learns of the end from the completion interrupt and  *)
(* starts the next (src/src/hal/dc_hardware.c lines 262-275).  G2Polling has *)
(* the driver that polls the start register instead.                       *)
(***************************************************************************)
EXTENDS G2Dma

VARIABLES
  pc,      \* pc[c]: "idle", "programmed" or "running"
  wanted,  \* wanted[c]: the length the driver asked for
  age      \* age[c]: retire calls since the start (history, checking only)

vars == <<owner, left, len, start, istnrm, pc, wanted, age>>

Init ==
  /\ G2Init
  /\ pc = [c \in Chan |-> "idle"]
  /\ wanted = [c \in Chan |-> 0]
  /\ age = [c \in Chan |-> 0]

(* The transfers still on their way: started and not yet signalled. *)
InFlight(c) == pc[c] = "running" /\ c \notin istnrm

(* Every retire call ages the transfers in flight; one call past the busy   *)
(* period is late however late it is, and the count stops there.           *)
AgeTransfers ==
  age' = [c \in Chan |-> IF InFlight(c) /\ age[c] <= Polls(wanted[c])
                           THEN age[c] + 1 ELSE age[c]]

Program(c) ==
  /\ pc[c] = "idle"
  /\ \E n \in Lengths :
       /\ WriteLen(c, n)
       /\ wanted' = [wanted EXCEPT ![c] = n]
  /\ pc' = [pc EXCEPT ![c] = "programmed"]
  /\ UNCHANGED age

Begin(c) ==
  /\ pc[c] = "programmed"
  /\ WriteStart(c)
  /\ pc' = [pc EXCEPT ![c] = "running"]
  /\ age' = [age EXCEPT ![c] = 0]
  /\ UNCHANGED wanted

(* An interrupt poll, or a read of any other register. *)
Poll ==
  /\ RetireFinished
  /\ AgeTransfers
  /\ UNCHANGED <<pc, wanted>>

(* The handler acknowledges a completion and releases the channel. *)
Complete(c) ==
  /\ pc[c] = "running" /\ c \in istnrm
  /\ Ack({c})
  /\ pc' = [pc EXCEPT ![c] = "idle"]
  /\ UNCHANGED <<wanted, age>>

Next ==
  \/ Poll
  \/ \E c \in Chan : Program(c) \/ Begin(c) \/ Complete(c)

(* The machine's clock is memory traffic, which never stops: it polls.  The  *)
(* game's handler finishes what it is told of.                             *)
Fairness ==
  /\ WF_vars(Poll)
  /\ \A c \in Chan : WF_vars(Complete(c))

Spec == Init /\ [][Next]_vars
FairSpec == Spec /\ Fairness

-----------------------------------------------------------------------------
TypeOK ==
  /\ owner \in [Slots -> Chan \cup {None}]
  /\ left \in [Slots -> Nat]
  /\ len \in [Chan -> Nat]
  /\ start \in [Chan -> {0, 1}]
  /\ istnrm \in SUBSET Chan
  /\ pc \in [Chan -> {"idle", "programmed", "running"}]
  /\ wanted \in [Chan -> Nat]
  /\ age \in [Chan -> Nat]

(* No channel ever holds two entries of g_g2_busy: a second entry would      *)
(* complete the channel's next transfer at the old deadline and then once   *)
(* more (g2_start_busy takes a free entry before the channel's own).        *)
OneEntryPerChannel ==
  \A i, j \in Slots : owner[i] # None /\ owner[i] = owner[j] => i = j

(* A transfer the driver waits for is in exactly one place: in the table on *)
(* its way, or signalled in SB_ISTNRM.  Nothing falls off the end of        *)
(* g2_start_busy's scan, and a channel not started has no completion set or *)
(* coming.                                                                 *)
CompletionPending ==
  \A c \in Chan :
    IF pc[c] = "running"
      THEN (\E i \in Slots : owner[i] = c) <=> c \notin istnrm
      ELSE c \notin istnrm /\ \A i \in Slots : owner[i] # c

(* The completion is signalled after exactly the busy period of the length  *)
(* the driver asked for: neither early (a stale deadline) nor late.         *)
SignalledOnTime ==
  \A c \in Chan :
    pc[c] = "running" /\ c \in istnrm => age[c] = Polls(wanted[c])

(* Every transfer a driver starts and waits for completes. *)
TransferCompletes == \A c \in Chan : pc[c] = "running" ~> pc[c] = "idle"

-----------------------------------------------------------------------------
(* Inductive strengthening: the entry of a transfer in flight carries the   *)
(* rest of its busy period.                                                *)
DeadlineInv ==
  \A c \in Chan : \A i \in Slots :
    owner[i] = c => /\ left[i] >= 1
                    /\ left[i] = Polls(wanted[c]) - age[c]

(* The length register holds what was programmed until the start. *)
LenInv == \A c \in Chan : pc[c] = "programmed" => len[c] = wanted[c]

G2Inv ==
  /\ TypeOK
  /\ OneEntryPerChannel
  /\ CompletionPending
  /\ SignalledOnTime
  /\ DeadlineInv
  /\ LenInv
=============================================================================
