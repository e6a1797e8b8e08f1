------------------------------ MODULE SH4Tasks ------------------------------
(***************************************************************************)
(* Cooperative tasks on host fibers (src/src/recompiler/sh4_task.c) together *)
(* with interrupts (the frame sh4_poll_irq saves, src/src/recompiler/        *)
(* sh4_cpu.c lines 385-411): one register file in the machine, copies of it *)
(* in the task, on the stack of sh4_task_resume and on the stack of         *)
(* whatever sh4_poll_irq interrupted.  A register file is one value.        *)
(*                                                                         *)
(* An interrupt may come in any context, and a handler may call the game's  *)
(* yield: g_in_irq then stays set until the task is resumed and its handler *)
(* returns.  The contract of sh4_task.h is a guard: only the scheduler      *)
(* resumes, and it destroys tasks that are finished or were never resumed.  *)
(***************************************************************************)
CONSTANTS
  Tasks,
  Sched,             \* the scheduler's fiber, as a context
  Nobody,            \* NULL
  Values,            \* contents of the register file
  Zero,              \* what calloc leaves
  FibersSupported    \* HAVE_FIBERS: TRUE on Windows

ASSUME TasksAssumption ==
  /\ Sched \notin Tasks /\ Nobody \notin Tasks
  /\ Zero \in Values
  /\ FibersSupported \in BOOLEAN

Ctx == Tasks \cup {Sched}

VARIABLES
  cpu,         \* the machine's registers
  stack,       \* the fiber that runs: Sched or a task
  haveFibers,  \* g_have_fibers, and g_scheduler_fiber # NULL
  current,     \* g_current
  spawned, fiber, started, finished, saved,  \* the SH4Task of each task
  schedRegs,   \* `scheduler', the local of sh4_task_resume
  inIrq,       \* g_in_irq
  handlers,    \* contexts suspended or running inside the game's handler
  frame        \* frame[c]: the SH4IrqFrame on context c's stack

taskVars == <<spawned, fiber, started, finished, saved>>
irqVars == <<inIrq, handlers, frame>>
vars == <<cpu, stack, haveFibers, current, taskVars, schedRegs, irqVars>>

Init ==
  /\ cpu = Zero /\ stack = Sched
  /\ haveFibers = FALSE /\ current = Nobody
  /\ spawned = [t \in Tasks |-> FALSE]
  /\ fiber = [t \in Tasks |-> FALSE]
  /\ started = [t \in Tasks |-> FALSE]
  /\ finished = [t \in Tasks |-> FALSE]
  /\ saved = [t \in Tasks |-> Zero]
  /\ schedRegs = Zero
  /\ inIrq = FALSE /\ handlers = {} /\ frame = [c \in Ctx |-> Zero]

-----------------------------------------------------------------------------
(* Any recompiled code, the handler's included. *)
Compute ==
  /\ cpu' \in Values
  /\ UNCHANGED <<stack, haveFibers, current, taskVars, schedRegs, irqVars>>

(* The scheduler's own code: no task is running, nor the handler on top of it. *)
InScheduler == stack = Sched /\ current = Nobody /\ Sched \notin handlers

(* sh4_task_init *)
TaskInit ==
  /\ InScheduler
  /\ haveFibers' = FibersSupported
  /\ UNCHANGED <<cpu, stack, current, taskVars, schedRegs, irqVars>>

(* sh4_task_spawn: with fibers, CreateFiberEx may still fail. *)
Spawn(t) ==
  /\ ~spawned[t]
  /\ spawned' = [spawned EXCEPT ![t] = TRUE]
  /\ \E made \in BOOLEAN : /\ made => haveFibers
                           /\ fiber' = [fiber EXCEPT ![t] = made]
  /\ started' = [started EXCEPT ![t] = FALSE]
  /\ finished' = [finished EXCEPT ![t] = FALSE]
  /\ saved' = [saved EXCEPT ![t] = Zero]
  /\ UNCHANGED <<cpu, stack, haveFibers, current, schedRegs, irqVars>>

(* regs_restore in sh4_task_resume: a task that never ran has nothing saved. *)
RestoreAlways(t) == saved[t]  \* mutant: `if (task->started)' dropped
RestoredRegs(t) == IF started[t] THEN saved[t] ELSE cpu

(* sh4_task_resume, up to the switch or to the call of the entry. *)
Resumable(t) == InScheduler /\ spawned[t] /\ ~finished[t]

Resume(t) ==
  /\ Resumable(t) /\ fiber[t]
  /\ schedRegs' = cpu
  /\ cpu' = RestoredRegs(t)
  /\ current' = t /\ stack' = t
  /\ started' = [started EXCEPT ![t] = TRUE]
  /\ UNCHANGED <<haveFibers, spawned, fiber, finished, saved, irqVars>>

ResumeInline(t) ==
  /\ Resumable(t) /\ ~fiber[t]
  /\ current' = t
  /\ started' = [started EXCEPT ![t] = TRUE]
  /\ UNCHANGED <<cpu, stack, haveFibers, spawned, fiber, finished, saved, schedRegs, irqVars>>

KeepsCurrent ==  \* mutant: `g_current = prev' left out
  /\ cpu' = schedRegs /\ schedRegs' = Zero
  /\ stack' = Sched
  /\ UNCHANGED current

SchedIsCurrent ==  \* mutant: the scheduler put where NULL belongs
  /\ cpu' = schedRegs /\ schedRegs' = Zero
  /\ current' = Sched /\ stack' = Sched

(* Back in sh4_task_resume after the switch. *)
BackInResume ==
  /\ cpu' = schedRegs /\ schedRegs' = Zero
  /\ current' = Nobody /\ stack' = Sched

(* sh4_task_yield does nothing outside a task, or in one without a fiber. *)
MayYield == current # Nobody /\ fiber[current]

YieldUnsaved ==  \* mutant: regs_save left out
  /\ MayYield
  /\ BackInResume
  /\ UNCHANGED <<haveFibers, taskVars, irqVars>>

Yield ==
  /\ MayYield
  /\ saved' = [saved EXCEPT ![current] = cpu]
  /\ BackInResume
  /\ UNCHANGED <<haveFibers, spawned, fiber, started, finished, irqVars>>

(* The entry returns: task_trampoline, or the inline call. *)
TaskReturn(t) ==
  /\ stack = t /\ t \notin handlers
  /\ finished' = [finished EXCEPT ![t] = TRUE]
  /\ BackInResume
  /\ UNCHANGED <<haveFibers, spawned, fiber, started, saved, irqVars>>

InlineReturn(t) ==
  /\ current = t /\ stack = Sched /\ Sched \notin handlers
  /\ finished' = [finished EXCEPT ![t] = TRUE]
  /\ current' = Nobody
  /\ UNCHANGED <<cpu, stack, haveFibers, spawned, fiber, started, saved, schedRegs, irqVars>>

(* sh4_task_destroy *)
Destroy(t) ==
  /\ InScheduler /\ spawned[t] /\ (finished[t] \/ ~started[t])
  /\ spawned' = [spawned EXCEPT ![t] = FALSE]
  /\ UNCHANGED <<cpu, stack, haveFibers, current, fiber, started, finished, saved, schedRegs, irqVars>>

(* sh4_task_shutdown, with no task left on a fiber. *)
Shutdown ==
  /\ InScheduler
  /\ \A t \in Tasks : spawned[t] => ~fiber[t]
  /\ haveFibers' = FALSE /\ current' = Nobody
  /\ UNCHANGED <<cpu, stack, taskVars, schedRegs, irqVars>>

-----------------------------------------------------------------------------
InterruptNested ==  \* mutant: no look at g_in_irq
  /\ inIrq' = TRUE
  /\ handlers' = handlers \cup {stack}
  /\ frame' = [frame EXCEPT ![stack] = cpu]
  /\ UNCHANGED <<cpu, stack, haveFibers, current, taskVars, schedRegs>>

StaysInIrq ==  \* mutant: g_in_irq not cleared
  /\ stack \in handlers
  /\ handlers' = handlers \ {stack}
  /\ cpu' = frame[stack]
  /\ frame' = [frame EXCEPT ![stack] = Zero]
  /\ UNCHANGED <<inIrq, stack, haveFibers, current, taskVars, schedRegs>>

(* sh4_poll_irq delivers: the registers go into a frame on this stack. *)
Interrupt ==
  /\ ~inIrq
  /\ inIrq' = TRUE
  /\ handlers' = handlers \cup {stack}
  /\ frame' = [frame EXCEPT ![stack] = cpu]
  /\ UNCHANGED <<cpu, stack, haveFibers, current, taskVars, schedRegs>>

(* The handler returns on the stack it was called on. *)
HandlerReturn ==
  /\ stack \in handlers
  /\ inIrq' = FALSE
  /\ handlers' = handlers \ {stack}
  /\ cpu' = frame[stack]
  /\ frame' = [frame EXCEPT ![stack] = Zero]
  /\ UNCHANGED <<stack, haveFibers, current, taskVars, schedRegs>>

Next ==
  \/ Compute \/ TaskInit \/ Shutdown \/ Yield
  \/ Interrupt \/ HandlerReturn
  \/ \E t \in Tasks :
       \/ Spawn(t) \/ Resume(t) \/ ResumeInline(t)
       \/ TaskReturn(t) \/ InlineReturn(t) \/ Destroy(t)

Spec == Init /\ [][Next]_vars

(* The bootstrap's loop resumes every task that is not finished (sh4_task.h, *)
(* "Typical use"), a task yields or returns, and the handler, given its     *)
(* turns, returns.                                                         *)
Fairness ==
  /\ WF_vars(Yield)
  /\ SF_vars(HandlerReturn)
  /\ \A t \in Tasks : SF_vars(Resume(t)) /\ WF_vars(InlineReturn(t))

FairSpec == Spec /\ Fairness

-----------------------------------------------------------------------------
TypeOK ==
  /\ cpu \in Values /\ schedRegs \in Values
  /\ stack \in Ctx
  /\ current \in Tasks \cup {Nobody}
  /\ haveFibers \in BOOLEAN /\ inIrq \in BOOLEAN
  /\ spawned \in [Tasks -> BOOLEAN] /\ fiber \in [Tasks -> BOOLEAN]
  /\ started \in [Tasks -> BOOLEAN] /\ finished \in [Tasks -> BOOLEAN]
  /\ saved \in [Tasks -> Values]
  /\ handlers \in SUBSET Ctx
  /\ frame \in [Ctx -> Values]

(* g_current is the task whose code runs, on its own fiber or inline, so     *)
(* that sh4_task_yield saves into the task it suspends; such a task is      *)
(* neither finished nor destroyed.                                         *)
CurrentIsRunning ==
  /\ stack # Sched => current = stack /\ fiber[stack]
  /\ current # Nobody => /\ spawned[current] /\ started[current] /\ ~finished[current]
                         /\ stack = Sched => ~fiber[current]

(* One handler at a time, even when it yields: g_in_irq is set as long as    *)
(* some context is inside the handler, and that context is alive.          *)
OneHandler ==
  /\ inIrq <=> handlers # {}
  /\ \A c, d \in handlers : c = d
  /\ \A t \in handlers \ {Sched} :
       spawned[t] /\ fiber[t] /\ started[t] /\ ~finished[t]
  /\ Sched \in handlers => stack = Sched

(* An interrupt that yields away is finished in the end, and others can be   *)
(* taken again.                                                            *)
InterruptFinishes == inIrq ~> ~inIrq

(* The three invariants together are inductive. *)
TasksInv == TypeOK /\ CurrentIsRunning /\ OneHandler

-----------------------------------------------------------------------------
(* Refinement: where each context's registers are, and what has become of   *)
(* each task.                                                              *)
RegsOf(c) ==
  IF c \in handlers THEN frame[c]
  ELSE IF c = stack THEN cpu
  ELSE IF c = Sched THEN schedRegs
  ELSE IF spawned[c] /\ started[c] /\ fiber[c] /\ ~finished[c] THEN saved[c]
  ELSE Zero

LifeOf(t) ==
  IF ~spawned[t] THEN "none"
  ELSE IF finished[t] THEN "finished"
  ELSE IF ~started[t] THEN "new"
  ELSE IF fiber[t] THEN "live"
  ELSE "called"

C == INSTANCE Contexts WITH
       regs <- [c \in Ctx |-> RegsOf(c)],
       life <- [t \in Tasks |-> LifeOf(t)],
       running <- stack

(* The one register file, with its copies, behaves as one per context. *)
ImplementsContexts == C!Spec
=============================================================================
