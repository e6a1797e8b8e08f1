-------------------------- MODULE SH4Tasks_proofs ---------------------------
(***************************************************************************)
(* Proofs about SH4Tasks for every set of tasks and every set of register    *)
(* contents: its invariants, and that the one register file with its copies *)
(* implements Contexts, one register file per context.                     *)
(***************************************************************************)
EXTENDS SH4Tasks, TLAPS

USE TasksAssumption

LEMMA InitTasksInv == Init => TasksInv
  BY DEF Init, TasksInv, TypeOK, CurrentIsRunning, OneHandler, Ctx

-----------------------------------------------------------------------------
(* Each action keeps the invariant. *)

LEMMA ComputeKeeps == TasksInv /\ Compute => TasksInv'
<1> SUFFICES ASSUME TasksInv, Compute PROVE TasksInv'  OBVIOUS
<1>1. TypeOK'
  BY DEF Compute, TasksInv, TypeOK, taskVars, irqVars
<1>2. CurrentIsRunning' /\ OneHandler'
  BY DEF Compute, TasksInv, CurrentIsRunning, OneHandler, taskVars, irqVars
<1> QED BY <1>1, <1>2 DEF TasksInv

LEMMA InitShutdownKeeps == TasksInv /\ (TaskInit \/ Shutdown) => TasksInv'
<1> SUFFICES ASSUME TasksInv, TaskInit \/ Shutdown PROVE TasksInv'  OBVIOUS
<1>1. TypeOK'
  BY DEF TaskInit, Shutdown, TasksInv, TypeOK, taskVars, irqVars
<1>2. current' = current /\ UNCHANGED <<stack, taskVars, irqVars>>
  BY DEF TaskInit, Shutdown, InScheduler
<1> QED
  BY <1>1, <1>2 DEF TasksInv, CurrentIsRunning, OneHandler, taskVars, irqVars

LEMMA SpawnKeeps ==
  ASSUME NEW t \in Tasks, TasksInv, Spawn(t)
  PROVE  TasksInv'
<1>1. TypeOK'
  BY DEF Spawn, TasksInv, TypeOK, irqVars
<1>2. t \notin handlers /\ t # current
  BY DEF Spawn, TasksInv, CurrentIsRunning, OneHandler
<1>3. \A u \in Tasks \ {t} : /\ spawned'[u] = spawned[u] /\ fiber'[u] = fiber[u]
                             /\ started'[u] = started[u] /\ finished'[u] = finished[u]
  BY DEF Spawn, TasksInv, TypeOK
<1>4. CurrentIsRunning'
  BY <1>2, <1>3 DEF Spawn, TasksInv, TypeOK, CurrentIsRunning, Ctx
<1>5. OneHandler'
  BY <1>2, <1>3 DEF Spawn, TasksInv, TypeOK, OneHandler, irqVars, Ctx
<1> QED BY <1>1, <1>4, <1>5 DEF TasksInv

LEMMA ResumeKeeps ==
  ASSUME NEW t \in Tasks, TasksInv, Resume(t) \/ ResumeInline(t)
  PROVE  TasksInv'
<1>1. cpu' \in Values /\ schedRegs' \in Values
  BY DEF Resume, ResumeInline, RestoredRegs, TasksInv, TypeOK
<1>2. TypeOK'
  BY <1>1 DEF Resume, ResumeInline, TasksInv, TypeOK, Ctx, irqVars
<1>3. CurrentIsRunning'
  BY DEF Resume, ResumeInline, Resumable, InScheduler, TasksInv, TypeOK, CurrentIsRunning
<1>4. OneHandler'
  BY DEF Resume, ResumeInline, Resumable, InScheduler, TasksInv, TypeOK, OneHandler,
         irqVars, Ctx
<1> QED BY <1>2, <1>3, <1>4 DEF TasksInv

LEMMA YieldKeeps == TasksInv /\ Yield => TasksInv'
<1> SUFFICES ASSUME TasksInv, Yield PROVE TasksInv'  OBVIOUS
<1>1. TypeOK'
  BY DEF Yield, MayYield, BackInResume, TasksInv, TypeOK, Ctx, irqVars
<1>2. Sched \notin handlers
  BY DEF Yield, MayYield, TasksInv, CurrentIsRunning, OneHandler
<1> QED
  BY <1>1, <1>2
  DEF Yield, BackInResume, TasksInv, CurrentIsRunning, OneHandler, irqVars

LEMMA ReturnKeeps ==
  ASSUME NEW t \in Tasks, TasksInv, TaskReturn(t) \/ InlineReturn(t)
  PROVE  TasksInv'
<1>1. TypeOK'
  BY DEF TaskReturn, InlineReturn, BackInResume, TasksInv, TypeOK, Ctx, irqVars
<1>2. t \notin handlers
  BY DEF TaskReturn, InlineReturn, TasksInv, CurrentIsRunning, OneHandler
<1>3. CurrentIsRunning'
  BY DEF TaskReturn, InlineReturn, BackInResume, CurrentIsRunning
<1>4. OneHandler'
  BY <1>2
  DEF TaskReturn, InlineReturn, BackInResume, TasksInv, TypeOK, OneHandler, irqVars, Ctx
<1> QED BY <1>1, <1>3, <1>4 DEF TasksInv

LEMMA DestroyKeeps ==
  ASSUME NEW t \in Tasks, TasksInv, Destroy(t)
  PROVE  TasksInv'
<1>1. TypeOK'
  BY DEF Destroy, TasksInv, TypeOK, irqVars
<1>2. t \notin handlers
  BY DEF Destroy, TasksInv, OneHandler
<1>3. CurrentIsRunning'
  BY DEF Destroy, InScheduler, TasksInv, CurrentIsRunning
<1>4. OneHandler'
  BY <1>2 DEF Destroy, TasksInv, TypeOK, OneHandler, irqVars, Ctx
<1> QED BY <1>1, <1>3, <1>4 DEF TasksInv

LEMMA IrqKeeps == TasksInv /\ (Interrupt \/ HandlerReturn) => TasksInv'
<1>1. ASSUME TasksInv, Interrupt PROVE TasksInv'
  <2>1. TypeOK'
    BY <1>1 DEF Interrupt, TasksInv, TypeOK, taskVars
  <2>2. handlers' = {stack}
    BY <1>1 DEF Interrupt, TasksInv, OneHandler
  <2> QED
    BY <1>1, <2>1, <2>2
    DEF Interrupt, TasksInv, TypeOK, CurrentIsRunning, OneHandler, taskVars, Ctx
<1>2. ASSUME TasksInv, HandlerReturn PROVE TasksInv'
  <2>1. TypeOK'
    BY <1>2 DEF HandlerReturn, TasksInv, TypeOK, taskVars
  <2>2. handlers' = {}
    BY <1>2 DEF HandlerReturn, TasksInv, OneHandler
  <2> QED
    BY <1>2, <2>1, <2>2
    DEF HandlerReturn, TasksInv, CurrentIsRunning, OneHandler, taskVars
<1> QED BY <1>1, <1>2

LEMMA NextKeeps == TasksInv /\ [Next]_vars => TasksInv'
<1> SUFFICES ASSUME TasksInv, [Next]_vars PROVE TasksInv'  OBVIOUS
<1>1. CASE Compute  BY <1>1, ComputeKeeps
<1>2. CASE TaskInit \/ Shutdown  BY <1>2, InitShutdownKeeps
<1>3. CASE Yield  BY <1>3, YieldKeeps
<1>4. CASE Interrupt \/ HandlerReturn  BY <1>4, IrqKeeps
<1>5. CASE \E t \in Tasks : Spawn(t)  BY <1>5, SpawnKeeps
<1>6. CASE \E t \in Tasks : Resume(t) \/ ResumeInline(t)  BY <1>6, ResumeKeeps
<1>7. CASE \E t \in Tasks : TaskReturn(t) \/ InlineReturn(t)  BY <1>7, ReturnKeeps
<1>8. CASE \E t \in Tasks : Destroy(t)  BY <1>8, DestroyKeeps
<1>9. CASE UNCHANGED vars
  BY <1>9 DEF vars, taskVars, irqVars, TasksInv, TypeOK, CurrentIsRunning, OneHandler
<1> QED
  BY <1>1, <1>2, <1>3, <1>4, <1>5, <1>6, <1>7, <1>8, <1>9 DEF Next

(* Tasks and interrupts keep their invariants: the current task is the one   *)
(* that runs, and one context at most is inside the handler.               *)
THEOREM TasksSafe == Spec => []TasksInv
<1>1. Init => TasksInv  BY InitTasksInv
<1>2. TasksInv /\ [Next]_vars => TasksInv'  BY NextKeeps
<1> QED BY <1>1, <1>2, PTL DEF Spec

(* g_current is a task or none, and every copy of the register file holds a   *)
(* register file, whatever sh4_task_destroy and a handler's yield do.       *)
THEOREM TasksTypes == Spec => []TypeOK
<1>1. TasksInv => TypeOK  BY DEF TasksInv
<1> QED BY <1>1, TasksSafe, PTL

(* sh4_task_yield saves into the task it suspends. *)
THEOREM CurrentIsRight == Spec => []CurrentIsRunning
<1>1. TasksInv => CurrentIsRunning  BY DEF TasksInv
<1> QED BY <1>1, TasksSafe, PTL

(* One handler at a time, even one that yields. *)
THEOREM HandlerIsAlone == Spec => []OneHandler
<1>1. TasksInv => OneHandler  BY DEF TasksInv
<1> QED BY <1>1, TasksSafe, PTL

-----------------------------------------------------------------------------
(* The refinement.  What each action does to a context's registers and to a  *)
(* task's life is stated value by value; the abstract step follows.        *)

LEMMA Stutters ==
  ASSUME \A c \in Ctx : RegsOf(c)' = RegsOf(c),
         \A t \in Tasks : LifeOf(t)' = LifeOf(t),
         stack' = stack
  PROVE  UNCHANGED C!vars
  BY DEF C!vars

LEMMA InitRefines == Init => C!Init
<1> SUFFICES ASSUME Init PROVE C!Init  OBVIOUS
<1>1. \A c \in Ctx : RegsOf(c) = Zero
  BY DEF Init, RegsOf, Ctx
<1>2. \A t \in Tasks : LifeOf(t) = "none"
  BY DEF Init, LifeOf
<1> QED BY <1>1, <1>2 DEF Init, C!Init, C!Ctx, Ctx

LEMMA ComputeRefines == TasksInv /\ Compute => [C!Next]_(C!vars)
<1> SUFFICES ASSUME TasksInv, Compute PROVE [C!Next]_(C!vars)  OBVIOUS
<1>1. stack' = stack /\ \A t \in Tasks : LifeOf(t)' = LifeOf(t)
  BY DEF Compute, LifeOf, taskVars
<1>2. \A c \in Ctx \ {stack} : RegsOf(c)' = RegsOf(c)
  BY DEF Compute, RegsOf, taskVars, irqVars
<1>3. CASE stack \in handlers
  <2>1. RegsOf(stack)' = RegsOf(stack)
    BY <1>3 DEF Compute, RegsOf, irqVars
  <2> QED BY <1>1, <1>2, <2>1, Stutters
<1>4. CASE stack \notin handlers
  <2>1. RegsOf(stack)' = cpu' /\ cpu' \in Values /\ stack \in Ctx
    BY <1>4 DEF Compute, RegsOf, irqVars, TasksInv, TypeOK
  <2>2. C!Compute
    BY <1>1, <1>2, <2>1 DEF C!Compute, Ctx
  <2> QED BY <2>2 DEF C!Next
<1> QED BY <1>3, <1>4

LEMMA InitShutdownRefines == TaskInit \/ Shutdown => UNCHANGED C!vars
<1> SUFFICES ASSUME TaskInit \/ Shutdown PROVE UNCHANGED C!vars  OBVIOUS
<1>1. UNCHANGED <<cpu, stack, taskVars, schedRegs, irqVars>>
  BY DEF TaskInit, Shutdown
<1>2. \A c \in Ctx : RegsOf(c)' = RegsOf(c)
  BY <1>1 DEF RegsOf, taskVars, irqVars
<1>3. \A t \in Tasks : LifeOf(t)' = LifeOf(t)
  BY <1>1 DEF LifeOf, taskVars
<1> QED BY <1>1, <1>2, <1>3, Stutters

LEMMA IrqRefines == TasksInv /\ (Interrupt \/ HandlerReturn) => UNCHANGED C!vars
<1> SUFFICES ASSUME TasksInv, Interrupt \/ HandlerReturn PROVE UNCHANGED C!vars
  OBVIOUS
<1>1. stack \in Ctx /\ UNCHANGED <<stack, taskVars, schedRegs>>
  BY DEF Interrupt, HandlerReturn, TasksInv, TypeOK
<1>2. \A t \in Tasks : LifeOf(t)' = LifeOf(t)
  BY <1>1 DEF LifeOf, taskVars
<1>3. \A c \in Ctx \ {stack} : RegsOf(c)' = RegsOf(c)
  BY <1>1 DEF Interrupt, HandlerReturn, RegsOf, taskVars, TasksInv, TypeOK
<1>4. RegsOf(stack)' = RegsOf(stack)
  BY <1>1 DEF Interrupt, HandlerReturn, RegsOf, TasksInv, TypeOK, OneHandler
<1> QED BY <1>1, <1>2, <1>3, <1>4, Stutters

LEMMA SpawnRefines ==
  ASSUME NEW t \in Tasks, TasksInv, Spawn(t)
  PROVE  C!Spawn(t)
<1>1. t # stack /\ t # Sched /\ t \notin handlers
  BY DEF Spawn, TasksInv, CurrentIsRunning, OneHandler
<1>2. LifeOf(t) = "none" /\ LifeOf(t)' = "new"
  BY DEF Spawn, LifeOf, TasksInv, TypeOK
<1>3. \A u \in Tasks \ {t} : LifeOf(u)' = LifeOf(u)
  BY DEF Spawn, LifeOf, TasksInv, TypeOK
<1>4. \A c \in Ctx \ {t} : RegsOf(c)' = RegsOf(c)
  BY DEF Spawn, RegsOf, irqVars, TasksInv, TypeOK, Ctx
<1>5. RegsOf(t)' = RegsOf(t)
  BY <1>1 DEF Spawn, RegsOf, irqVars, TasksInv, TypeOK
<1>6. stack' = stack  BY DEF Spawn
<1> QED BY <1>2, <1>3, <1>4, <1>5, <1>6 DEF C!Spawn

LEMMA ResumeRefines ==
  ASSUME NEW t \in Tasks, TasksInv, Resume(t)
  PROVE  C!Start(t) \/ C!Resume(t)
<1>1. /\ stack = Sched /\ stack' = t /\ t # Sched
      /\ Sched \in Ctx /\ Sched \notin handlers
  BY DEF Resume, Resumable, InScheduler, Ctx
<1>2. \A u \in Tasks \ {t} : LifeOf(u)' = LifeOf(u)
  BY DEF Resume, LifeOf, TasksInv, TypeOK
<1>3. \A c \in Ctx \ {t} : RegsOf(c)' = RegsOf(c)
  BY <1>1 DEF Resume, RegsOf, irqVars, TasksInv, TypeOK, Ctx
<1>4. LifeOf(t)' = "live"
  BY DEF Resume, Resumable, LifeOf, TasksInv, TypeOK
<1>5. CASE started[t]
  <2>1. LifeOf(t) = "live"
    BY <1>5 DEF Resume, Resumable, LifeOf
  <2>2. RegsOf(t)' = RegsOf(t)
    BY <1>1, <1>5 DEF Resume, Resumable, RestoredRegs, RegsOf, irqVars
  <2> QED BY <1>1, <1>2, <1>3, <1>4, <2>1, <2>2 DEF C!Resume
<1>6. CASE ~started[t]
  <2>1. LifeOf(t) = "new"
    BY <1>6 DEF Resume, Resumable, LifeOf
  <2>2. t \notin handlers
    BY <1>1, <1>6 DEF TasksInv, OneHandler
  <2>3. RegsOf(Sched) = cpu /\ RegsOf(t)' = cpu
    BY <1>1, <1>6, <2>2 DEF Resume, RestoredRegs, RegsOf, irqVars
  <2> QED BY <1>1, <1>2, <1>3, <1>4, <2>1, <2>3 DEF C!Start, Ctx
<1> QED BY <1>5, <1>6

LEMMA ResumeInlineRefines ==
  ASSUME NEW t \in Tasks, TasksInv, ResumeInline(t)
  PROVE  C!Call(t) \/ UNCHANGED C!vars
<1>1. stack = Sched /\ stack' = stack
  BY DEF ResumeInline, Resumable, InScheduler
<1>2. \A u \in Tasks \ {t} : LifeOf(u)' = LifeOf(u)
  BY DEF ResumeInline, LifeOf, TasksInv, TypeOK
<1>3. \A c \in Ctx : RegsOf(c)' = RegsOf(c)
  BY DEF ResumeInline, Resumable, RegsOf, irqVars, TasksInv, TypeOK, Ctx
<1>4. LifeOf(t)' = "called" /\ LifeOf(t) \in {"new", "called"}
  BY DEF ResumeInline, Resumable, LifeOf, TasksInv, TypeOK
<1>5. CASE LifeOf(t) = "new"
  BY <1>1, <1>2, <1>3, <1>4, <1>5 DEF C!Call
<1>6. CASE LifeOf(t) = "called"
  BY <1>1, <1>2, <1>3, <1>4, <1>6, Stutters
<1> QED BY <1>4, <1>5, <1>6

LEMMA YieldRefines == TasksInv /\ Yield => C!Yield
<1> SUFFICES ASSUME TasksInv, Yield PROVE C!Yield  OBVIOUS
<1>1. /\ stack # Sched /\ stack \in Tasks /\ current = stack /\ stack' = Sched
      /\ spawned[stack] /\ started[stack] /\ fiber[stack] /\ ~finished[stack]
      /\ Sched \notin handlers
  BY DEF Yield, MayYield, BackInResume, TasksInv, TypeOK, CurrentIsRunning, OneHandler, Ctx
<1>2. \A t \in Tasks : LifeOf(t)' = LifeOf(t)
  BY DEF Yield, LifeOf
<1>3. RegsOf(Sched)' = RegsOf(Sched)
  BY <1>1 DEF Yield, BackInResume, RegsOf, irqVars
<1>4. ASSUME NEW c \in Tasks PROVE RegsOf(c)' = RegsOf(c)
  <2>1. CASE c = stack
    BY <1>1, <2>1 DEF Yield, RegsOf, irqVars, TasksInv, TypeOK
  <2>2. CASE c # stack
    BY <1>1, <2>2 DEF Yield, RegsOf, irqVars, TasksInv, TypeOK
  <2> QED BY <2>1, <2>2
<1>5. \A c \in Ctx : RegsOf(c)' = RegsOf(c)
  BY <1>3, <1>4 DEF Ctx
<1> QED BY <1>1, <1>2, <1>5 DEF C!Yield

LEMMA TaskReturnRefines ==
  ASSUME NEW t \in Tasks, TasksInv, TaskReturn(t)
  PROVE  C!Return(t)
<1>1. /\ stack = t /\ t # Sched /\ t \notin handlers /\ stack' = Sched
      /\ Sched \notin handlers /\ spawned[t]
  BY DEF TaskReturn, BackInResume, TasksInv, CurrentIsRunning, OneHandler
<1>2. LifeOf(t)' = "finished"
  BY <1>1 DEF TaskReturn, LifeOf, TasksInv, TypeOK
<1>3. \A u \in Tasks \ {t} : LifeOf(u)' = LifeOf(u)
  BY DEF TaskReturn, LifeOf, TasksInv, TypeOK
<1>4. RegsOf(t)' = Zero
  BY <1>1 DEF TaskReturn, RegsOf, irqVars, TasksInv, TypeOK
<1>5. RegsOf(Sched)' = RegsOf(Sched)
  BY <1>1 DEF TaskReturn, BackInResume, RegsOf, irqVars
<1>6. \A c \in Tasks \ {t} : RegsOf(c)' = RegsOf(c)
  BY <1>1 DEF TaskReturn, RegsOf, irqVars, TasksInv, TypeOK
<1>7. \A c \in Ctx \ {t} : RegsOf(c)' = RegsOf(c)
  BY <1>5, <1>6 DEF Ctx
<1> QED BY <1>1, <1>2, <1>3, <1>4, <1>7 DEF C!Return, Ctx

LEMMA InlineReturnRefines ==
  ASSUME NEW t \in Tasks, TasksInv, InlineReturn(t)
  PROVE  C!CallReturn(t)
<1>1. /\ stack = Sched /\ stack' = Sched /\ t \notin handlers
      /\ spawned[t] /\ started[t] /\ ~finished[t] /\ ~fiber[t]
  BY DEF InlineReturn, TasksInv, CurrentIsRunning, OneHandler
<1>2. LifeOf(t) = "called" /\ LifeOf(t)' = "finished"
  BY <1>1 DEF InlineReturn, LifeOf, TasksInv, TypeOK
<1>3. \A u \in Tasks \ {t} : LifeOf(u)' = LifeOf(u)
  BY DEF InlineReturn, LifeOf, TasksInv, TypeOK
<1>4. \A c \in Ctx : RegsOf(c)' = RegsOf(c)
  BY <1>1 DEF InlineReturn, RegsOf, irqVars, TasksInv, TypeOK, Ctx
<1> QED BY <1>1, <1>2, <1>3, <1>4 DEF C!CallReturn

LEMMA DestroyRefines ==
  ASSUME NEW t \in Tasks, TasksInv, Destroy(t)
  PROVE  C!Destroy(t)
<1>1. t \notin handlers /\ t # stack /\ stack' = stack
  BY DEF Destroy, InScheduler, TasksInv, OneHandler
<1>2. LifeOf(t) \in {"new", "finished"} /\ LifeOf(t)' = "none"
  BY DEF Destroy, LifeOf, TasksInv, TypeOK
<1>3. \A u \in Tasks \ {t} : LifeOf(u)' = LifeOf(u)
  BY DEF Destroy, LifeOf, TasksInv, TypeOK
<1>4. \A c \in Ctx : RegsOf(c)' = RegsOf(c)
  BY <1>1 DEF Destroy, RegsOf, irqVars, TasksInv, TypeOK, Ctx
<1> QED BY <1>1, <1>2, <1>3, <1>4 DEF C!Destroy

LEMMA NextRefines == TasksInv /\ [Next]_vars => [C!Next]_(C!vars)
<1> SUFFICES ASSUME TasksInv, [Next]_vars PROVE [C!Next]_(C!vars)  OBVIOUS
<1>1. CASE Compute  BY <1>1, ComputeRefines
<1>2. CASE TaskInit \/ Shutdown  BY <1>2, InitShutdownRefines
<1>3. CASE Yield  BY <1>3, YieldRefines DEF C!Next
<1>4. CASE Interrupt \/ HandlerReturn  BY <1>4, IrqRefines
<1>5. CASE \E t \in Tasks : Spawn(t)  BY <1>5, SpawnRefines DEF C!Next
<1>6. CASE \E t \in Tasks : Resume(t)  BY <1>6, ResumeRefines DEF C!Next
<1>7. CASE \E t \in Tasks : ResumeInline(t)  BY <1>7, ResumeInlineRefines DEF C!Next
<1>8. CASE \E t \in Tasks : TaskReturn(t)  BY <1>8, TaskReturnRefines DEF C!Next
<1>9. CASE \E t \in Tasks : InlineReturn(t)  BY <1>9, InlineReturnRefines DEF C!Next
<1>10. CASE \E t \in Tasks : Destroy(t)  BY <1>10, DestroyRefines DEF C!Next
<1>11. CASE UNCHANGED vars
  <2>1. UNCHANGED <<cpu, stack, spawned, fiber, started, finished, saved, schedRegs,
                    handlers, frame>>
    BY <1>11 DEF vars, taskVars, irqVars
  <2>2. \A c \in Ctx : RegsOf(c)' = RegsOf(c)
    BY <2>1 DEF RegsOf
  <2>3. \A t \in Tasks : LifeOf(t)' = LifeOf(t)
    BY <2>1 DEF LifeOf
  <2> QED BY <2>1, <2>2, <2>3, Stutters
<1> QED
  BY <1>1, <1>2, <1>3, <1>4, <1>5, <1>6, <1>7, <1>8, <1>9, <1>10, <1>11 DEF Next

(* A yield means what it means on hardware: the one register file and its    *)
(* copies behave as one register file per context, whatever interrupts and  *)
(* switches come between.                                                  *)
THEOREM TasksImplementContexts == Spec => ImplementsContexts
<1>1. Init => C!Init  BY InitRefines
<1>2. TasksInv /\ [Next]_vars => [C!Next]_(C!vars)  BY NextRefines
<1> QED BY <1>1, <1>2, TasksSafe, PTL DEF Spec, C!Spec, ImplementsContexts
=============================================================================
