------------------------------- MODULE MCSound ------------------------------
(* Arm7 and SoundCpu for TLC: the processor's mode banks, and its interrupt  *)
(* line and clock.  The two share no variable: a behaviour runs one of them  *)
(* (`part') and leaves the other at its initial state.  Three modes; two     *)
(* interrupt sources; a tick owes two instructions, a burst runs one and the *)
(* debt is cut at three.                                                   *)
EXTENDS SoundCpu, Arm7
CONSTANTS timer, sh4
VARIABLE part

MCModes == {"usr", "fiq", "svc"}

MCInit == part \in {"modes", "interrupts"} /\ Init /\ ArmInit

MCNext ==
  /\ UNCHANGED part
  /\ \/ part = "modes" /\ ArmNext /\ UNCHANGED vars
     \/ part = "interrupts" /\ Next /\ UNCHANGED armVars

MCSpec == MCInit /\ [][MCNext]_<<part, vars, armVars>>

(* The fairness of SoundCpu, where it runs. *)
InPart(A) == part = "interrupts" /\ A
MCFairSpec ==
  /\ MCSpec
  /\ WF_vars(InPart(Tick)) /\ WF_vars(InPart(Poll)) /\ WF_vars(InPart(ArmStep))
=============================================================================
