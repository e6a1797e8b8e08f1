------------------------------ MODULE Contexts ------------------------------
(***************************************************************************)
(* What the cooperative tasks of src/include/recompiler/sh4_task.h promise:  *)
(* "Giving each SH-4 task its own host stack makes a yield mean what it      *)
(* means on hardware."  The scheduler and every task are contexts with a     *)
(* register file each; only the context that runs changes its registers,    *)
(* and it keeps them while others run.  Interrupts do not appear: they are  *)
(* invisible to the code they interrupt.                                   *)
(***************************************************************************)
CONSTANTS
  Tasks,
  Sched,    \* the scheduler: the thread that called sh4_task_init
  Values,   \* contents of a register file
  Zero      \* the contents of one nobody has used

Ctx == Tasks \cup {Sched}

VARIABLES
  regs,     \* regs[c]: the registers of context c
  life,     \* life[t]: "none", "new", "live", "called" or "finished"
  running   \* the context that runs

vars == <<regs, life, running>>

Init ==
  /\ regs = [c \in Ctx |-> Zero]
  /\ life = [t \in Tasks |-> "none"]
  /\ running = Sched

(* The running context's own code. *)
Compute ==
  /\ \E v \in Values : regs' = [regs EXCEPT ![running] = v]
  /\ UNCHANGED <<life, running>>

Spawn(t) ==
  /\ life[t] = "none"
  /\ life' = [life EXCEPT ![t] = "new"]
  /\ UNCHANGED <<regs, running>>

(* The first resume hands the task the scheduler's registers. *)
Start(t) ==
  /\ running = Sched /\ life[t] = "new"
  /\ life' = [life EXCEPT ![t] = "live"]
  /\ regs' = [regs EXCEPT ![t] = regs[Sched]]
  /\ running' = t

Resume(t) ==
  /\ running = Sched /\ life[t] = "live"
  /\ running' = t
  /\ UNCHANGED <<regs, life>>

Yield ==
  /\ running # Sched
  /\ running' = Sched
  /\ UNCHANGED <<regs, life>>

Return(t) ==
  /\ running = t
  /\ running' = Sched
  /\ life' = [life EXCEPT ![t] = "finished"]
  /\ regs' = [regs EXCEPT ![t] = Zero]

(* A task without a stack of its own is a call in the scheduler's context. *)
Call(t) ==
  /\ running = Sched /\ life[t] = "new"
  /\ life' = [life EXCEPT ![t] = "called"]
  /\ UNCHANGED <<regs, running>>

CallReturn(t) ==
  /\ running = Sched /\ life[t] = "called"
  /\ life' = [life EXCEPT ![t] = "finished"]
  /\ UNCHANGED <<regs, running>>

Destroy(t) ==
  /\ life[t] \in {"new", "finished"}
  /\ life' = [life EXCEPT ![t] = "none"]
  /\ UNCHANGED <<regs, running>>

Next ==
  \/ Compute \/ Yield
  \/ \E t \in Tasks :
       \/ Spawn(t) \/ Start(t) \/ Resume(t) \/ Return(t)
       \/ Call(t) \/ CallReturn(t) \/ Destroy(t)

Spec == Init /\ [][Next]_vars
=============================================================================
