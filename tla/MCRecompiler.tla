---------------------------- MODULE MCRecompiler ----------------------------
(* Recompiler for TLC: all programs of Words words, the last two an rts and   *)
(* its slot, with one address known to the scans in one way, or none.       *)
EXTENDS Recompiler
CONSTANTS Words, Targets, Known

Plain(op) == [op |-> op, to |-> 0]

OneWord == {Plain("op"), Plain("save")} \cup {[op |-> "bt", to |-> t] : t \in Targets}
Delays ==
  {Plain(op) : op \in {"rts", "jmp", "jsr"}} \cup [op : {"bra", "bsr", "bts"}, to : Targets]
Pool == {[op |-> "bra", to |-> 0], [op |-> "bsr", to |-> 4]}

(* All ways to fill n words, a branch with its slot as a pair, or alone where  *)
(* the word is data that decodes as one.                                   *)
RECURSIVE Fill(_)
Fill(n) ==
  IF n = 0 THEN {<<>>}
  ELSE {<<w>> \o s : w \in OneWord \cup Pool, s \in Fill(n - 1)} \cup
       (IF n = 1 THEN {}
        ELSE {<<w, Plain("op")>> \o s : w \in Delays, s \in Fill(n - 2)})

Image(s) == [a \in 0 .. Words - 1 |-> (s \o <<Plain("rts"), Plain("op")>>)[a + 1]]

(* A computed jump goes to the address a scan knows, or there is none: then    *)
(* the scan is of a table or pointer that only looks like code.            *)
Scan(F, T, P, J) == [forced |-> F, tables |-> T, pointers |-> P, jumps |-> J]
Scans ==
  {Scan({}, {}, {}, {})} \cup
  UNION {{Scan({t}, {}, {}, {t}), Scan({}, {t}, {}, {t}), Scan({}, {}, {t}, {t}),
          Scan({}, {t}, {}, {}), Scan({}, {}, {t}, {})} : t \in Known}

(* Where control goes from a word of an image, and what it comes to in n steps. *)
Follow(c, J, a) ==
  IF a \notin DOMAIN c THEN {}
  ELSE (IF c[a].op \in PlainOps \cup {"bt"} THEN {a + 1} ELSE {})
       \cup (IF c[a].op \in DirectOps THEN {c[a].to} ELSE {})
       \cup (IF c[a].op \in {"jmp", "jsr"} THEN J ELSE {})
       \cup (IF c[a].op \in {"bts", "bsr", "jsr"} THEN {a + 2} ELSE {})

RECURSIVE Reached(_, _, _)
Reached(c, J, A) ==
  LET more == A \cup UNION {Follow(c, J, a) : a \in A}
  IN IF more = A THEN A ELSE Reached(c, J, more)

Images == {Image(s) : s \in Fill(Words - 2)}

Program(c, k) ==
  [code |-> c, live |-> Reached(c, k.jumps, {0} \cup k.jumps),
   forced |-> k.forced, tables |-> k.tables, pointers |-> k.pointers, jumps |-> k.jumps]

MCPrograms == {p \in {Program(c, k) : c \in Images, k \in Scans} : IsProgram(p)}
=============================================================================
