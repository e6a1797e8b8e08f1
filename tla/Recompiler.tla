----------------------------- MODULE Recompiler -----------------------------
(***************************************************************************)
(* The static recompiler's view of a program (tools/static_recompile.py) and *)
(* the C it emits, running.  find_functions cuts the image into functions,   *)
(* collects the addresses that are jumped to from elsewhere, and decides     *)
(* which of them get an entry; recompile_function walks each function and    *)
(* emits a group of lines for every instruction, or for a branch with its    *)
(* delay slot.  Then the C runs: a goto inside a function, a tail call        *)
(* between functions, a call, a return, a fall into the next function.       *)
(*                                                                         *)
(* Addresses count 16-bit words from the image's base.  What the scans of the *)
(* data find is part of the program: `forced' (literals loaded before a jsr   *)
(* or jmp, and the --entries file), `tables' (mova and jump tables) and       *)
(* `pointers' (words that look like addresses, whether they are or not).     *)
(* rte, bsrf and braf are left out: the last two are jsr and jmp to the tool. *)
(***************************************************************************)
EXTENDS Integers, Sequences, FiniteSets, FiniteSetsExt

CONSTANTS
  Programs,  \* [code, live, forced, tables, pointers, jumps]
  MaxCalls   \* bound: depth of the C stack

PlainOps == {"op", "save"}
DirectOps == {"bt", "bts", "bra", "bsr"}
DelayedOps == {"rts", "bra", "bsr", "bts", "jmp", "jsr"}

(* An image of n words, all decoded alike, of which `live' are the ones the    *)
(* processor may come to: the first, and wherever control goes from a live    *)
(* word.  The others are slots and data, which the tool decodes all the same. *)
IsProgram(p) ==
  LET n == Cardinality(DOMAIN p.code) IN
  /\ n \in Nat \ {0} /\ DOMAIN p.code = 0 .. n - 1
  /\ \A a \in 0 .. n - 1 : p.code[a] \in [op : PlainOps \cup DirectOps \cup DelayedOps, to : Int]
  /\ 0 \in p.live /\ p.jumps \subseteq p.live /\ p.live \subseteq 0 .. n - 1
  /\ \A a \in p.live : LET w == p.code[a] IN
       /\ w.op \in PlainOps \cup {"bt"} => a + 1 \in p.live
       /\ w.op \in DirectOps => w.to \in p.live
       /\ w.op \in DelayedOps => a + 1 \in 0 .. n - 1 /\ p.code[a + 1].op \in PlainOps
       /\ w.op \in {"bts", "bsr", "jsr"} => a + 2 \in p.live

ASSUME ProgramsAssumption == \A p \in Programs : IsProgram(p)

VARIABLES
  program,
  phase,    \* "functions", "hints", "entries", "run" or "unsupported"
  starts,   \* self.functions
  hints,    \* self.entry_hints
  mids,     \* self.mid_entry_addrs
  emitted,  \* addresses that begin a group of lines
  here,     \* the group the C is at; `slot': at a label inside it
  stack,    \* C frames that something follows in, by the group it is
  ran       \* instructions the last group ran

toolVars == <<starts, hints, mids, emitted>>
cVars == <<here, stack, ran>>
vars == <<program, phase, toolVars, cVars>>

code == program.code
Addrs == DOMAIN code
Size == Cardinality(Addrs)

Delayed(a) == code[a].op \in DelayedOps
Direct(a) == code[a].op \in DirectOps
IsSlot(a) == a - 1 \in Addrs /\ Delayed(a - 1)

Begin == [at |-> 0, slot |-> FALSE]
Stopped == [at |-> -1, slot |-> FALSE]

Init ==
  /\ program \in Programs
  /\ phase = "functions"
  /\ starts = {} /\ hints = {} /\ mids = {} /\ emitted = {}
  /\ here = Begin /\ stack = <<>> /\ ran = {}

-----------------------------------------------------------------------------
(* find_functions, first part: a function starts at the image's base, at a   *)
(* target of BSR, at a prologue and at a forced entry, and ends at the next. *)
FindFunctions ==
  /\ phase = "functions" /\ phase' = "hints"
  /\ starts' = Addrs \cap ({0} \cup {code[a].to : a \in {b \in Addrs : code[b].op = "bsr"}}
                               \cup {a \in Addrs : code[a].op = "save"} \cup program.forced)
  /\ UNCHANGED <<program, hints, mids, emitted, cVars>>

End(f) == LET after == {s \in starts : s > f} IN IF after = {} THEN Size ELSE Min(after)
Owner(a) == Max({s \in starts : s <= a})
Inside(t, f) == f <= t /\ t < End(f)

(* _takes_delay_slot: not when the slot is known to be jumped to. *)
TakesSlot(a, known) == Delayed(a) /\ a + 1 \notin known

(* The addresses a walk of a function stops at (_emittable_addrs, and the    *)
(* walk of recompile_function).                                            *)
Stops(f, known) ==
  LET stops[a \in f .. End(f) - 1] ==
        \/ a = f
        \/ a > f /\ stops[a - 1] /\ ~TakesSlot(a - 1, known)
        \/ a > f + 1 /\ stops[a - 2] /\ TakesSlot(a - 2, known)
  IN stops

Walk(f, known) == {a \in f .. End(f) - 1 : Stops(f, known)[a]}

Walked(known) == UNION {Walk(f, known) : f \in starts}

NoTargets == {}  \* mutant: branches out of a function are given no entries

(* _external_branch_targets: the walk knows no hint yet. *)
ExternalTargets ==
  {code[a].to : a \in {b \in Walked({}) : Direct(b) /\ ~Inside(code[b].to, Owner(b))}}

FindHints ==
  /\ phase = "hints" /\ phase' = "entries"
  /\ hints' = program.tables \cup ExternalTargets
  /\ UNCHANGED <<program, starts, mids, emitted, cVars>>

(* What the tool can do, beside finding every computed jump's target.  A       *)
(* delay slot may start a function only behind an rts, and be jumped to from  *)
(* elsewhere only behind a branch that does not come back.  Behind a word      *)
(* that looks like a delayed branch, live code has to be known to the walk    *)
(* as a start or a hint; a branch there, as a start: the walk that collects   *)
(* the hints has none yet.                                                 *)
Supported ==
  /\ program.jumps \subseteq program.forced \cup program.tables \cup program.pointers
  /\ \A a \in program.live : Delayed(a) =>
       /\ a + 1 \in starts => code[a].op = "rts"
       /\ a + 1 \in hints => code[a].op \in {"rts", "bra", "jmp"}
  /\ \A a \in program.live : IsSlot(a) => a \in starts \/ (a \in hints /\ ~Direct(a))

(* _resolve_mid_entries: an address inside a function gets an entry when it   *)
(* begins a group.                                                         *)
ResolveMidEntries ==
  /\ phase = "entries" /\ phase' = IF Supported THEN "run" ELSE "unsupported"
  /\ emitted' = Walked(hints)
  /\ mids' = ((program.pointers \cup hints) \ starts) \cap emitted'
  /\ UNCHANGED <<program, starts, hints, cVars>>

-----------------------------------------------------------------------------
(* The emitted C.  `pc' is the address of the group the C is at. *)
pc == here.at

(* A branch is emitted as its register effects only when its slot belongs to *)
(* the next function, or is jumped to and control comes back.               *)
Lost ==
  /\ Delayed(pc) /\ code[pc].op # "rts"
  /\ \/ pc + 1 = End(Owner(pc))
     \/ code[pc].op \in {"bsr", "bts", "jsr"} /\ pc + 1 \in hints

(* The group after this one, which may be the next function's first. *)
After == IF TakesSlot(pc, hints) THEN pc + 2 ELSE pc + 1

(* The label of an address, at a group or before the slot inside one. *)
Label(t) == IF t \in emitted THEN [at |-> t, slot |-> FALSE] ELSE [at |-> t - 1, slot |-> TRUE]

Goto(t) == here' = Label(t) /\ UNCHANGED stack

CReturn ==
  IF stack = <<>> THEN here' = Stopped /\ UNCHANGED stack
  ELSE here' = Label(stack[Len(stack)]) /\ stack' = SubSeq(stack, 1, Len(stack) - 1)

Defined(t) == t \in starts \cup mids

(* func_<t>(cpu); return; where t may be a stub, or unresolved: a no-op *)
TailCall(t) == IF Defined(t) THEN Goto(t) ELSE CReturn

FuncCall(t) ==
  IF Defined(t) THEN /\ Len(stack) < MaxCalls
                     /\ stack' = Append(stack, After) /\ here' = Label(t)
                ELSE Goto(After)

BranchTo(t) == IF Inside(t, Owner(pc)) THEN Goto(t) ELSE TailCall(t)

(* The instructions a group runs: the slot's copy with a delayed branch, and *)
(* the slot alone when it is entered by the label inside.                   *)
Runs ==
  ran' = (IF here.slot THEN {} ELSE {pc}) \cup (IF Delayed(pc) /\ ~Lost THEN {pc + 1} ELSE {})

CStraight ==
  /\ ~Delayed(pc) \/ Lost
  /\ code[pc].op # "bt"
  /\ Goto(pc + 1)

CBranch ==
  \/ code[pc].op = "bt" /\ (BranchTo(code[pc].to) \/ Goto(pc + 1))
  \/ /\ Delayed(pc) /\ ~Lost
     /\ \/ code[pc].op = "bra" /\ BranchTo(code[pc].to)
        \/ code[pc].op = "bts" /\ (BranchTo(code[pc].to) \/ Goto(After))
        \/ code[pc].op = "jmp" /\ \E t \in program.jumps : TailCall(t)

CCall ==
  /\ Delayed(pc) /\ ~Lost
  /\ \/ code[pc].op = "bsr" /\ FuncCall(code[pc].to)
     \/ code[pc].op = "jsr" /\ \E t \in program.jumps : FuncCall(t)

CRts == code[pc].op = "rts" /\ CReturn

Run ==
  /\ phase = "run" /\ here # Stopped
  /\ CStraight \/ CBranch \/ CCall \/ CRts
  /\ Runs
  /\ UNCHANGED <<program, phase, toolVars>>

Next == FindFunctions \/ FindHints \/ ResolveMidEntries \/ Run

Spec == Init /\ [][Next]_vars

-----------------------------------------------------------------------------
(* The emitted C does what the SH-4 would: it runs the same instructions, in *)
(* the same order, with the same returns outstanding, whatever functions the *)
(* image is cut into, whichever words happen to look like pointers, and      *)
(* wherever a branch leaves its function for the middle of another.          *)
SH4 == INSTANCE SH4Flow WITH
  at <- IF here.slot THEN here.at + 1 ELSE here.at, calls <- stack

RunsLikeSh4 == SH4!Spec
=============================================================================
