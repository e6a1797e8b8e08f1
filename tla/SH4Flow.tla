------------------------------- MODULE SH4Flow -------------------------------
(***************************************************************************)
(* How an SH-4 runs a program: which instruction follows which.  A word is   *)
(* an operation and, for a direct branch, its target; what an operation does *)
(* to registers is left out, the T bit is either value, and a subroutine     *)
(* returns to its caller (it saves PR when it calls another).  A delayed      *)
(* branch runs the instruction after it first.  This is what recompiled code *)
(* has to do, whatever functions and labels it is cut into.                 *)
(***************************************************************************)
EXTENDS Integers, Sequences

VARIABLES
  program,  \* [code |-> words, jumps |-> where jmp and jsr may go, ...]
  at,       \* the instruction to run next, or Exit
  calls,    \* return addresses, the innermost last
  ran       \* the instructions of the last step

vars == <<program, at, calls, ran>>

Exit == -1

Word == program.code[at]

Init == at = 0 /\ calls = <<>> /\ ran = {}

Straight ==
  /\ Word.op \in {"op", "save"}
  /\ ran' = {at} /\ at' = at + 1
  /\ UNCHANGED calls

Branch ==
  /\ \/ Word.op = "bt" /\ ran' = {at} /\ at' \in {Word.to, at + 1}
     \/ /\ ran' = {at, at + 1}
        /\ \/ Word.op = "bra" /\ at' = Word.to
           \/ Word.op = "bts" /\ at' \in {Word.to, at + 2}
           \/ Word.op = "jmp" /\ at' \in program.jumps
  /\ UNCHANGED calls

Call ==
  /\ \/ Word.op = "bsr" /\ at' = Word.to
     \/ Word.op = "jsr" /\ at' \in program.jumps
  /\ ran' = {at, at + 1}
  /\ calls' = Append(calls, at + 2)

Return ==
  /\ Word.op = "rts"
  /\ ran' = {at, at + 1}
  /\ IF calls = <<>> THEN at' = Exit /\ UNCHANGED calls
     ELSE at' = calls[Len(calls)] /\ calls' = SubSeq(calls, 1, Len(calls) - 1)

Next ==
  /\ at # Exit
  /\ Straight \/ Branch \/ Call \/ Return
  /\ UNCHANGED program

Spec == Init /\ [][Next]_vars
=============================================================================
