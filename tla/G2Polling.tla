----------------------------- MODULE G2Polling ------------------------------
(***************************************************************************)
(* G2Dma driven by a game that waits as src/src/hal/dc_hardware.c:212-213    *)
(* says games wait: it reads the channel's start register until it is 0,    *)
(* and then programs the next transfer.  The completion bit in SB_ISTNRM is *)
(* only acknowledged, whenever the game comes to it.                       *)
(***************************************************************************)
EXTENDS G2Driver

(* dc_hw_read32 of a start register retires what is due, then answers the    *)
(* register; on 0 the driver takes the transfer for done.                   *)
ReadStart(c) ==
  /\ pc[c] = "running"
  /\ RetireFinished
  /\ AgeTransfers
  /\ pc' = [pc EXCEPT ![c] = IF start'[c] = 0 THEN "idle" ELSE "running"]
  /\ UNCHANGED wanted

Acknowledge(c) ==
  /\ c \in istnrm
  /\ Ack({c})
  /\ UNCHANGED <<pc, wanted, age>>

PollingNext ==
  \/ Poll
  \/ \E c \in Chan : Program(c) \/ Begin(c) \/ ReadStart(c) \/ Acknowledge(c)

PollingSpec == Init /\ [][PollingNext]_vars

(* A start moves the length the driver programmed: the retirement of an      *)
(* earlier transfer does not clear the length register between the two      *)
(* writes.  It would hold if a start register read 1 until the retirement   *)
(* (dc_hardware.c:212-213 and 395-396).                                    *)
TransferWhole ==
  [][\A c \in Chan :
       pc[c] = "programmed" /\ pc'[c] = "running" => len[c] = wanted[c]]_vars
=============================================================================
