-------------------------- MODULE Recompiler_proofs --------------------------
(***************************************************************************)
(* The C that the recompiler emits follows the SH-4's control flow, for       *)
(* every image of every length.  The recursion of the walk is dealt with      *)
(* first, then the two ways in which live code is found, then the steps.     *)
(***************************************************************************)
EXTENDS Recompiler, SequenceTheorems, WellFoundedInduction, TLAPS

-----------------------------------------------------------------------------
(* Induction over the natural numbers, as the existence of a least number.  *)

(* Every set of natural numbers that is not empty has a least one. *)
LEMMA LeastNumber ==
  ASSUME NEW T \in SUBSET Nat, T # {}
  PROVE  \E n \in T : \A m \in T : n <= m
<1> DEFINE R == OpToRel(<, Nat)
<1>1. IsWellFoundedOn(R, Nat)
  BY NatLessThanWellFounded
<1>2. \A m, n \in Nat : <<m, n>> \in R <=> m < n
  BY DEF OpToRel
<1> HIDE DEF R
<1>3. PICK n \in T : \A m \in T : ~ (<<m, n>> \in R)
  BY <1>1, WFMin
<1>4. ASSUME NEW m \in T PROVE n <= m
  <2>1. n \in Nat /\ m \in Nat
    OBVIOUS
  <2>2. ~ (m < n)
    BY <1>2, <1>3, <2>1
  <2> QED
    BY <2>1, <2>2, SMT
<1> QED
  BY <1>4

(* Min of the starts behind an address, and Max of those up to it. *)
LEMMA LeastAbove ==
  ASSUME NEW S \in SUBSET Nat, NEW f \in Nat, \E s \in S : s > f
  PROVE  LET m == Min({s \in S : s > f})
         IN  m \in S /\ m > f /\ \A s \in S : s > f => m <= s
<1> DEFINE A == {s \in S : s > f}
<1>1. \E m \in A : \A s \in A : m <= s
  BY LeastNumber
<1>2. Min(A) \in A /\ \A s \in A : Min(A) <= s
  BY <1>1 DEF Min
<1> QED
  BY <1>2

LEMMA GreatestUpTo ==
  ASSUME NEW S \in SUBSET Nat, NEW n \in Nat, 0 \in S
  PROVE  LET m == Max({s \in S : s <= n})
         IN  m \in S /\ m <= n /\ \A s \in S : s <= n => s <= m
<1> DEFINE A == {s \in S : s <= n}
           D == {d \in Nat : n - d \in A}
<1>1. n \in D
  BY SMT
<1>2. PICK d \in D : \A e \in D : d <= e
  BY <1>1, LeastNumber
<1>3. \A s \in A : n - s \in D
  BY SMT
<1>4. n - d \in A /\ \A s \in A : n - d >= s
  BY <1>2, <1>3, SMT
<1>5. Max(A) \in A /\ \A s \in A : Max(A) >= s
  <2> HIDE DEF A, D
  <2> QED
    BY <1>4, Zenon DEF Max
<1> QED
  BY <1>5, SMT

-----------------------------------------------------------------------------
(* The walk of a function. *)

(* What the walk's recursion says of address a, given what g says of the two   *)
(* addresses before it.                                                    *)
StopsAt(g, f, known, a) ==
  \/ a = f
  \/ a > f /\ g[a - 1] /\ ~TakesSlot(a - 1, known)
  \/ a > f + 1 /\ g[a - 2] /\ TakesSlot(a - 2, known)

(* The recursion has a solution up to any address: from one up to n - 1, and  *)
(* none up to n, one up to n is built.                                      *)
LEMMA WalkExists ==
  ASSUME NEW f \in Nat, NEW known, NEW n \in Nat
  PROVE  \E g : g = [a \in f .. n |-> StopsAt(g, f, known, a)]
<1> DEFINE Solves(g, m) == g = [a \in f .. m |-> StopsAt(g, f, known, a)]
           Bad == {m \in Nat : ~ \E g : Solves(g, m)}
<1>1. SUFFICES ASSUME Bad # {} PROVE FALSE
  BY Zenon
<1>2. PICK m \in Bad : \A k \in Bad : m <= k
  BY <1>1, LeastNumber
<1>3. ASSUME m < f PROVE FALSE
  <2> DEFINE g == [a \in f .. m |-> TRUE]
  <2>1. \A a \in f .. m : FALSE
    BY <1>3, SMT
  <2>2. Solves(g, m)
    BY <2>1, Zenon
  <2> QED
    BY <1>2, <2>2, Zenon
<1>4. ASSUME m >= f, m = 0 PROVE FALSE
  <2> DEFINE g == [a \in f .. m |-> a = f]
  <2>1. \A a \in f .. m : a = f /\ StopsAt(g, f, known, a)
    BY <1>4, SMT DEF StopsAt
  <2>2. \A a \in f .. m : g[a] = StopsAt(g, f, known, a)
    BY <2>1
  <2>3. Solves(g, m)
    BY <2>2
  <2> QED
    BY <1>2, <2>3, Zenon
<1>5. ASSUME m >= f, m > 0 PROVE FALSE
  <2>1. m - 1 \in Nat /\ m - 1 \notin Bad
    BY <1>2, <1>5, SMT
  <2>2. PICK h : Solves(h, m - 1)
    BY <2>1
  <2> DEFINE g == [a \in f .. m |-> IF a = m THEN StopsAt(h, f, known, m) ELSE h[a]]
  <2>3. \A a \in f .. m - 1 : g[a] = h[a]
    BY SMT
  <2>4. \A a \in f .. m : StopsAt(g, f, known, a) = StopsAt(h, f, known, a)
    <3> SUFFICES ASSUME NEW a \in f .. m
                 PROVE  StopsAt(g, f, known, a) = StopsAt(h, f, known, a)
      OBVIOUS
    <3>1. /\ a > f => a - 1 \in f .. m - 1
          /\ a > f + 1 => a - 2 \in f .. m - 1
      BY SMT
    <3>2. /\ a > f => g[a - 1] = h[a - 1]
          /\ a > f + 1 => g[a - 2] = h[a - 2]
      BY <2>3, <3>1
    <3> QED
      BY <3>2, Zenon DEF StopsAt
  <2>5. \A a \in f .. m - 1 : h[a] = StopsAt(h, f, known, a)
    BY <2>2, Zenon
  <2>6. \A a \in f .. m : g[a] = StopsAt(g, f, known, a)
    <3> SUFFICES ASSUME NEW a \in f .. m PROVE g[a] = StopsAt(g, f, known, a)
      OBVIOUS
    <3>1. a = m \/ a \in f .. m - 1
      BY SMT
    <3>2. CASE a = m
      BY <2>4, <3>2
    <3>3. CASE a \in f .. m - 1
      BY <2>3, <2>4, <2>5, <3>3
    <3> QED
      BY <3>1, <3>2, <3>3
  <2>7. Solves(g, m)
    BY <2>6
  <2> QED
    BY <1>2, <2>7, Zenon
<1> QED
  BY <1>3, <1>4, <1>5, SMT

LEMMA WalkSolves ==
  ASSUME NEW f \in Nat, NEW known, End(f) \in Nat \ {0}
  PROVE  \A a \in f .. End(f) - 1 : Stops(f, known)[a] = StopsAt(Stops(f, known), f, known, a)
<1> DEFINE e == End(f)
<1>1. \E g : g = [a \in f .. e - 1 |-> StopsAt(g, f, known, a)]
  <2>1. \A n \in Nat : \E g : g = [a \in f .. n |-> StopsAt(g, f, known, a)]
    BY WalkExists
  <2>2. e - 1 \in Nat
    BY SMT
  <2> QED
    BY <2>1, <2>2, Zenon
<1>2. Stops(f, known) = CHOOSE g : g = [a \in f .. e - 1 |-> StopsAt(g, f, known, a)]
  BY DEF Stops, StopsAt
<1>3. Stops(f, known) = [a \in f .. e - 1 |-> StopsAt(Stops(f, known), f, known, a)]
  BY <1>1, <1>2, Zenon
<1> QED
  BY <1>3, Zenon

(* The walk stops at every address of its function but the slots it takes with *)
(* the branch before them.                                                 *)
LEMMA WalkCovers ==
  ASSUME NEW f \in Nat, NEW known, End(f) \in Nat \ {0}
  PROVE  \A a \in f .. End(f) - 1 :
           \/ a \in Walk(f, known)
           \/ a > f /\ a - 1 \in Walk(f, known) /\ TakesSlot(a - 1, known)
<1> DEFINE Covered(a) == \/ a \in Walk(f, known)
                         \/ a > f /\ a - 1 \in Walk(f, known) /\ TakesSlot(a - 1, known)
           Bad == {a \in f .. End(f) - 1 : ~Covered(a)}
<1>1. SUFFICES ASSUME Bad # {} PROVE FALSE
  BY Zenon
<1>2. Bad \in SUBSET Nat
  BY SMT
<1>3. PICK a \in Bad : \A b \in Bad : a <= b
  BY <1>1, <1>2, LeastNumber
<1>4. a \in f .. End(f) - 1 /\ ~Covered(a)
  BY <1>3
<1>5. Stops(f, known)[a] = StopsAt(Stops(f, known), f, known, a)
  BY <1>4, WalkSolves, Zenon
<1>6. \A b \in f .. End(f) - 1 : b \in Walk(f, known) <=> Stops(f, known)[b]
  BY Zenon DEF Walk
<1>7. ~StopsAt(Stops(f, known), f, known, a)
  BY <1>4, <1>5, <1>6, Zenon
<1>8. a > f
  BY <1>4, <1>7, SMT DEF StopsAt
<1>9. a - 1 \in f .. End(f) - 1 /\ a - 1 \notin Bad
  BY <1>2, <1>3, <1>4, <1>8, SMT
<1>10. Covered(a - 1)
  BY <1>9
<1>11. CASE a - 1 \in Walk(f, known)
  <2>1. Stops(f, known)[a - 1]
    BY <1>6, <1>9, <1>11, Zenon
  <2>2. ~TakesSlot(a - 1, known)
    BY <1>4, <1>8, <1>11, Zenon
  <2> QED
    BY <1>7, <1>8, <2>1, <2>2, Zenon DEF StopsAt
<1>12. CASE a - 1 > f /\ a - 1 - 1 \in Walk(f, known) /\ TakesSlot(a - 1 - 1, known)
  <2>1. a - 1 - 1 = a - 2 /\ a > f + 1 /\ a - 2 \in f .. End(f) - 1
    BY <1>4, <1>12, SMT
  <2>2. Stops(f, known)[a - 2] /\ TakesSlot(a - 2, known)
    BY <1>6, <1>12, <2>1, Zenon
  <2> QED
    BY <1>7, <2>1, <2>2, Zenon DEF StopsAt
<1> QED
  BY <1>10, <1>11, <1>12

-----------------------------------------------------------------------------
(* The functions of an image, and what their walks reach. *)

(* find_functions' first part: every start is an address, and these are starts. *)
StartsInv ==
  /\ starts \subseteq Addrs /\ 0 \in starts
  /\ program.forced \cap Addrs \subseteq starts
  /\ \A a \in Addrs : code[a].op = "bsr" /\ code[a].to \in Addrs => code[a].to \in starts

(* An image's words are numbered from 0. *)
LEMMA Numbered ==
  ASSUME IsProgram(program)
  PROVE  Size \in Nat \ {0} /\ Addrs = 0 .. Size - 1
BY Zenon DEF IsProgram, Size, Addrs, code

(* A start is the beginning of a stretch that ends at the next, or with the    *)
(* image.                                                                  *)
LEMMA Stretch ==
  ASSUME IsProgram(program), StartsInv, NEW f \in starts
  PROVE  /\ End(f) \in Nat \ {0} /\ f \in Nat /\ f < End(f)
         /\ End(f) = Size \/ End(f) \in starts
         /\ End(f) <= Size
         /\ \A s \in starts : s > f => End(f) <= s
<1>1. Size \in Nat \ {0} /\ Addrs = 0 .. Size - 1 /\ starts \in SUBSET Nat /\ f \in Addrs
  BY Numbered, SMT DEF StartsInv
<1>2. \A s \in starts : s < Size
  BY <1>1, SMT DEF StartsInv
<1>3. CASE {s \in starts : s > f} = {}
  <2>1. End(f) = Size
    BY <1>3 DEF End
  <2> QED
    BY <1>1, <1>3, <2>1, SMT
<1>4. CASE {s \in starts : s > f} # {}
  <2> DEFINE m == Min({s \in starts : s > f})
  <2>1. End(f) = m
    BY <1>4 DEF End
  <2>2. m \in starts /\ m > f /\ \A s \in starts : s > f => m <= s
    BY <1>1, <1>4, LeastAbove
  <2> HIDE DEF m
  <2> QED
    BY <1>1, <1>2, <2>1, <2>2, SMT
<1> QED
  BY <1>3, <1>4

(* Every address belongs to one. *)
LEMMA Owned ==
  ASSUME IsProgram(program), StartsInv, NEW a \in Addrs
  PROVE  /\ Owner(a) \in starts /\ a \in Nat
         /\ Owner(a) <= a /\ a < End(Owner(a))
<1>1. Size \in Nat \ {0} /\ Addrs = 0 .. Size - 1 /\ starts \in SUBSET Nat
  BY Numbered, SMT DEF StartsInv
<1> DEFINE m == Max({s \in starts : s <= a})
<1>2. m \in starts /\ m <= a /\ \A s \in starts : s <= a => s <= m
  BY <1>1, GreatestUpTo DEF StartsInv
<1>3. Owner(a) = m
  BY DEF Owner
<1> HIDE DEF m
<1>4. /\ End(m) \in Nat /\ m < End(m)
      /\ End(m) = Size \/ End(m) \in starts
  BY <1>2, Stretch
<1>5. a < End(m)
  BY <1>1, <1>2, <1>4, SMT
<1> QED
  BY <1>1, <1>2, <1>3, <1>5, SMT

(* A walk stops at an address, unless that looks like a delay slot and is       *)
(* neither known nor a start.                                              *)
LEMMA WalkedOrSlot ==
  ASSUME IsProgram(program), StartsInv, NEW a \in Addrs, NEW known
  PROVE  a \in Walked(known) \/ (IsSlot(a) /\ a \notin known /\ a \notin starts)
<1>1. Size \in Nat \ {0} /\ Addrs = 0 .. Size - 1
  BY Numbered
<1>2. ASSUME NEW f \in starts, a \in f .. End(f) - 1,
             f = a \/ ~(IsSlot(a) /\ a \notin known)
      PROVE  a \in Walked(known)
  <2>1. End(f) \in Nat \ {0} /\ f \in Nat /\ End(f) <= Size
    BY Stretch
  <2>2. a \in Walk(f, known) \/ (a > f /\ TakesSlot(a - 1, known))
    BY <1>2, <2>1, WalkCovers
  <2>3. ASSUME a > f, TakesSlot(a - 1, known) PROVE FALSE
    <3>1. a - 1 \in Addrs /\ (a - 1) + 1 = a /\ f # a
      BY <1>1, <1>2, <2>1, <2>3, SMT
    <3> QED
      BY <1>2, <2>3, <3>1 DEF TakesSlot, IsSlot
  <2> QED
    BY <2>2, <2>3 DEF Walked
<1>3. CASE a \in starts
  <2>1. a \in a .. End(a) - 1
    BY <1>1, <1>3, Stretch, SMT
  <2> QED
    BY <1>2, <1>3, <2>1
<1>4. CASE a \notin starts /\ ~(IsSlot(a) /\ a \notin known)
  <2>1. Owner(a) \in starts /\ a \in Owner(a) .. End(Owner(a)) - 1
    <3>1. Owner(a) \in starts /\ a \in Nat /\ Owner(a) <= a /\ a < End(Owner(a))
      BY Owned
    <3>2. Owner(a) \in Nat /\ End(Owner(a)) \in Nat
      BY <3>1, Stretch
    <3> QED
      BY <3>1, <3>2, SMT
  <2> QED
    BY <1>2, <1>4, <2>1
<1> QED
  BY <1>3, <1>4

-----------------------------------------------------------------------------
(* The inductive invariant. *)

(* What the tool has found, as far as it is. *)
HintsInv == program.tables \cup ExternalTargets \subseteq hints

EntriesInv ==
  /\ emitted = Walked(hints)
  /\ mids = ((program.pointers \cup hints) \ starts) \cap emitted

ToolInv ==
  /\ IsProgram(program)
  /\ phase \in {"functions", "hints", "entries", "run", "unsupported"}
  /\ phase # "functions" => StartsInv
  /\ phase \in {"entries", "run"} => HintsInv
  /\ phase = "run" => Supported /\ EntriesInv

(* The C is at the beginning of a group of live code, never at a label inside  *)
(* one, and so will every return be.                                       *)
CInv ==
  /\ phase = "run" => /\ here \in {Stopped} \cup [at : program.live, slot : {FALSE}]
                      /\ stack \in Seq(program.live)
  /\ phase # "run" => here = Begin /\ stack = <<>> /\ ran = {}

RecompilerInv == ToolInv /\ CInv

LEMMA ToolStays ==
  ASSUME ToolInv, UNCHANGED <<program, phase, toolVars>>
  PROVE  ToolInv'
<1>1. /\ ExternalTargets' = ExternalTargets
      /\ Walked(hints)' = Walked(hints)
      /\ Supported' = Supported
  BY DEF toolVars, ExternalTargets, Supported, Walked, Walk, Stops, TakesSlot, Delayed, Direct, Inside,
     IsSlot, Owner, End, Size, Addrs, code
<1>2. IsProgram(program)' /\ (StartsInv => StartsInv')
  BY DEF ToolInv, IsProgram, toolVars, StartsInv, Addrs, code
<1> QED
  BY <1>1, <1>2 DEF ToolInv, toolVars, HintsInv, EntriesInv

LEMMA FunctionsFound ==
  ASSUME ToolInv, FindFunctions
  PROVE  ToolInv'
<1>1. 0 \in Addrs
  BY Numbered, SMT DEF ToolInv
<1>2. IsProgram(program)' /\ Addrs' = Addrs
  BY DEF ToolInv, IsProgram, FindFunctions, Addrs, code
<1>3. StartsInv'
  BY <1>1 DEF FindFunctions, StartsInv, Addrs, code
<1> QED
  BY <1>2, <1>3 DEF ToolInv, FindFunctions

LEMMA HintsFound ==
  ASSUME ToolInv, FindHints
  PROVE  ToolInv'
<1>1. ExternalTargets' = ExternalTargets
  BY DEF FindHints, ExternalTargets, Walked, Walk, Stops, TakesSlot, Delayed, Direct, Inside, Owner, End, Size, Addrs, code
<1>2. IsProgram(program)' /\ StartsInv'
  BY DEF ToolInv, IsProgram, FindHints, StartsInv, Addrs, code
<1> QED
  BY <1>1, <1>2 DEF ToolInv, FindHints, HintsInv

LEMMA EntriesFound ==
  ASSUME ToolInv, ResolveMidEntries
  PROVE  ToolInv'
<1>1. /\ ExternalTargets' = ExternalTargets
      /\ Walked(hints)' = Walked(hints)
      /\ Supported' = Supported
  BY DEF ResolveMidEntries, ExternalTargets, Supported, Walked, Walk, Stops, TakesSlot, Delayed, Direct, Inside,
     IsSlot, Owner, End, Size, Addrs, code
<1>2. IsProgram(program)' /\ StartsInv'
  BY DEF ToolInv, IsProgram, ResolveMidEntries, StartsInv, Addrs, code
<1> QED
  BY <1>1, <1>2 DEF ToolInv, ResolveMidEntries, HintsInv, EntriesInv

-----------------------------------------------------------------------------
(* What the tool's decisions come to, where the C runs. *)

(* Live code is emitted, and known where it is jumped to from elsewhere. *)
Ready == phase = "run" /\ ToolInv

LEMMA LiveWords ==
  ASSUME Ready, NEW a \in program.live
  PROVE  /\ a \in Addrs /\ a \in Int
         /\ code[a].op \in PlainOps \cup DirectOps \cup DelayedOps
         /\ code[a].op \in PlainOps \cup {"bt"} => a + 1 \in program.live
         /\ Direct(a) => code[a].to \in program.live
         /\ Delayed(a) => a + 1 \in Addrs
         /\ code[a].op \in {"bts", "bsr", "jsr"} => a + 2 \in program.live
<1>1. Size \in Nat \ {0} /\ Addrs = 0 .. Size - 1
  BY Numbered DEF Ready, ToolInv
<1>2. IsProgram(program)
  BY DEF Ready, ToolInv
<1>3. /\ program.live \subseteq Addrs
      /\ \A b \in Addrs : code[b] \in [op : PlainOps \cup DirectOps \cup DelayedOps, to : Int]
  BY <1>1, <1>2 DEF IsProgram, code, Size, Addrs
<1>4. /\ code[a].op \in PlainOps \cup {"bt"} => a + 1 \in program.live
      /\ code[a].op \in DirectOps => code[a].to \in program.live
      /\ code[a].op \in DelayedOps => a + 1 \in Addrs
      /\ code[a].op \in {"bts", "bsr", "jsr"} => a + 2 \in program.live
  BY <1>1, <1>2, Zenon DEF IsProgram, code, Size, Addrs
<1>5. a \in Addrs /\ a \in Int
  BY <1>1, <1>3
<1>6. code[a].op \in PlainOps \cup DirectOps \cup DelayedOps
  BY <1>3, <1>5
<1> QED
  BY <1>4, <1>5, <1>6, Zenon DEF Direct, Delayed

LEMMA LiveIsEmitted ==
  ASSUME Ready
  PROVE  program.live \subseteq emitted
<1> SUFFICES ASSUME NEW a \in program.live PROVE a \in Walked(hints)
  BY DEF Ready, ToolInv, EntriesInv
<1>1. a \in Walked(hints) \/ (IsSlot(a) /\ a \notin hints /\ a \notin starts)
  BY LiveWords, WalkedOrSlot DEF Ready, ToolInv
<1> QED
  BY <1>1 DEF Ready, ToolInv, Supported

(* The target of a branch out of its function has an entry. *)
LEMMA OutsideIsDefined ==
  ASSUME Ready, NEW a \in program.live, Direct(a), ~Inside(code[a].to, Owner(a))
  PROVE  Defined(code[a].to)
<1>1. a \in Walked({})
  <2>1. a \in Walked({}) \/ (IsSlot(a) /\ a \notin starts)
    BY LiveWords, WalkedOrSlot DEF Ready, ToolInv
  <2> QED
    BY <2>1 DEF Ready, ToolInv, Supported
<1>2. code[a].to \in hints
  BY <1>1 DEF Ready, ToolInv, HintsInv, ExternalTargets
<1>3. code[a].to \in emitted
  BY LiveWords, LiveIsEmitted
<1> QED
  BY <1>2, <1>3 DEF Ready, ToolInv, EntriesInv, Defined

(* So has every computed jump's. *)
LEMMA JumpIsDefined ==
  ASSUME Ready, NEW t \in program.jumps
  PROVE  Defined(t) /\ t \in program.live
<1>1. t \in program.live
  BY DEF Ready, ToolInv, IsProgram
<1>2. t \in emitted /\ t \in Addrs
  BY <1>1, LiveIsEmitted, LiveWords
<1>3. t \in program.forced \cup hints \cup program.pointers
  BY DEF Ready, ToolInv, Supported, HintsInv
<1>4. t \in program.forced => t \in starts
  BY <1>2 DEF Ready, ToolInv, StartsInv
<1> QED
  BY <1>1, <1>2, <1>3, <1>4 DEF Ready, ToolInv, EntriesInv, Defined

(* No live branch is lost, and one that comes back takes its slot. *)
LEMMA LiveIsNotLost ==
  ASSUME Ready, here.at \in program.live
  PROVE  /\ ~Lost
         /\ code[pc].op \in {"bts", "bsr", "jsr"} => After = pc + 2
<1>1. pc \in Addrs /\ pc \in program.live /\ pc \in Int
  BY LiveWords DEF pc
<1>2. End(Owner(pc)) = Size \/ End(Owner(pc)) \in starts
  BY <1>1, Owned, Stretch DEF Ready, ToolInv
<1>3. Delayed(pc) => pc + 1 # Size
  BY <1>1, LiveWords, Numbered, SMT DEF Ready, ToolInv
<1>4. Delayed(pc) => /\ pc + 1 \in starts => code[pc].op = "rts"
                     /\ pc + 1 \in hints => code[pc].op \in {"rts", "bra", "jmp"}
  BY <1>1, Zenon DEF Ready, ToolInv, Supported
<1>5. ~Lost
  BY <1>2, <1>3, <1>4 DEF Lost
<1>6. code[pc].op \in {"bts", "bsr", "jsr"} => After = pc + 2
  BY <1>4 DEF After, TakesSlot, Delayed, DelayedOps
<1> QED
  BY <1>5, <1>6

(* A label of live code is at the beginning of a group. *)
LEMMA LiveLabel ==
  ASSUME Ready, NEW t \in program.live
  PROVE  Label(t) = [at |-> t, slot |-> FALSE]
BY LiveIsEmitted DEF Label

-----------------------------------------------------------------------------
(* One group of the C is one step of the processor. *)

(* The instruction the processor is at. *)
At == IF here.slot THEN here.at + 1 ELSE here.at

(* The C goes to live code. *)
Lands(t) == here' = [at |-> t, slot |-> FALSE] /\ t \in program.live

LEMMA LandsThere ==
  ASSUME NEW t, Lands(t)
  PROVE  At' = t /\ here' \in [at : program.live, slot : {FALSE}]
BY DEF Lands, At

LEMMA GotoLands ==
  ASSUME Ready, NEW t \in program.live, Goto(t)
  PROVE  Lands(t) /\ UNCHANGED stack
BY LiveLabel DEF Goto, Lands

LEMMA JumpLands ==
  ASSUME Ready, NEW t \in program.jumps, TailCall(t)
  PROVE  Lands(t) /\ UNCHANGED stack
BY JumpIsDefined, GotoLands DEF TailCall

LEMMA BranchLands ==
  ASSUME Ready, pc \in program.live, Direct(pc), BranchTo(code[pc].to)
  PROVE  Lands(code[pc].to) /\ UNCHANGED stack
BY LiveWords, OutsideIsDefined, GotoLands DEF BranchTo, TailCall

LEMMA CallLands ==
  ASSUME Ready, NEW t \in program.live, Defined(t), FuncCall(t)
  PROVE  Lands(t) /\ stack' = Append(stack, After)
BY LiveLabel DEF FuncCall, Lands

(* Where the C is, in the words of the processor. *)
LEMMA AtLive ==
  ASSUME Ready, CInv, here # Stopped
  PROVE  /\ here.slot = FALSE /\ pc \in program.live /\ At = pc
         /\ SH4!Word = code[pc] /\ pc # SH4!Exit
         /\ stack \in Seq(program.live)
<1>1. here.slot = FALSE /\ here.at \in program.live /\ stack \in Seq(program.live)
  BY DEF Ready, CInv
<1>2. here.at \in 0 .. Size - 1 /\ Size \in Nat
  BY <1>1, LiveWords, Numbered DEF Ready, ToolInv
<1>3. here.at # -1
  BY <1>2, SMT
<1> QED
  BY <1>1, <1>3 DEF pc, At, SH4!Word, SH4!Exit, code

(* A step that lands in live code with the returns outstanding there too. *)
LEMMA LandingKeeps ==
  ASSUME Ready, NEW t, Lands(t), stack' \in Seq(program.live), UNCHANGED <<program, phase>>
  PROVE  CInv'
BY LandsThere, Zenon DEF Ready, CInv

LEMMA RunFollows ==
  ASSUME Ready, CInv, Run
  PROVE  CInv' /\ SH4!Next
<1>1. /\ here.slot = FALSE /\ pc \in program.live /\ At = pc
      /\ SH4!Word = code[pc] /\ pc # SH4!Exit
      /\ stack \in Seq(program.live)
  BY AtLive DEF Run
<1>2. /\ ~Lost
      /\ code[pc].op \in {"bts", "bsr", "jsr"} => After = pc + 2
  BY <1>1, LiveIsNotLost DEF pc
<1>3. ran' = IF Delayed(pc) THEN {pc, pc + 1} ELSE {pc}
  BY <1>1, <1>2 DEF Run, Runs
<1>4. /\ code[pc].op \in PlainOps \cup DirectOps \cup DelayedOps
      /\ code[pc].op \in PlainOps \cup {"bt"} => pc + 1 \in program.live
      /\ Direct(pc) => code[pc].to \in program.live
      /\ code[pc].op \in {"bts", "bsr", "jsr"} => pc + 2 \in program.live
  BY <1>1, LiveWords
<1>5. UNCHANGED <<program, phase>>
  BY DEF Run
<1>6. CASE CStraight
  <2>1. code[pc].op \in PlainOps /\ ~Delayed(pc) /\ Goto(pc + 1)
    BY <1>2, <1>4, <1>6 DEF CStraight, Delayed, PlainOps, DirectOps, DelayedOps
  <2>2. Lands(pc + 1) /\ UNCHANGED stack
    BY <1>4, <2>1, GotoLands
  <2>3. At' = pc + 1 /\ CInv'
    BY <1>1, <1>5, <2>2, LandsThere, LandingKeeps
  <2>4. SH4!Straight
    BY <1>1, <1>3, <2>1, <2>2, <2>3 DEF SH4!Straight, At, PlainOps
  <2> QED
    BY <1>1, <1>5, <2>3, <2>4 DEF SH4!Next, At
<1>7. CASE CBranch
  <2>1. PICK t \in program.live :
          /\ Lands(t) /\ UNCHANGED stack
          /\ \/ code[pc].op = "bt" /\ t \in {code[pc].to, pc + 1}
             \/ code[pc].op = "bra" /\ t = code[pc].to
             \/ code[pc].op = "bts" /\ t \in {code[pc].to, pc + 2}
             \/ code[pc].op = "jmp" /\ t \in program.jumps
    <3>1. CASE code[pc].op \in {"bt", "bra", "bts"} /\ BranchTo(code[pc].to)
      <4>1. Direct(pc)
        BY <3>1 DEF Direct, DirectOps
      <4> QED
        BY <1>1, <1>4, <3>1, <4>1, BranchLands
    <3>2. CASE code[pc].op = "bt" /\ Goto(pc + 1)
      BY <1>4, <3>2, GotoLands
    <3>3. CASE code[pc].op = "bts" /\ Goto(After)
      BY <1>2, <1>4, <3>3, GotoLands
    <3>4. CASE code[pc].op = "jmp" /\ \E t \in program.jumps : TailCall(t)
      BY <3>4, JumpIsDefined, JumpLands
    <3> QED
      BY <1>7, <3>1, <3>2, <3>3, <3>4 DEF CBranch
  <2>2. At' = t /\ CInv'
    BY <1>1, <1>5, <2>1, LandsThere, LandingKeeps
  <2>3. Delayed(pc) <=> code[pc].op # "bt"
    BY <2>1 DEF Delayed, DelayedOps
  <2>4. SH4!Branch
    BY <1>1, <1>3, <2>1, <2>2, <2>3 DEF SH4!Branch, At
  <2> QED
    BY <1>1, <1>5, <2>2, <2>4 DEF SH4!Next, At
<1>8. CASE CCall
  <2>1. Delayed(pc) /\ code[pc].op \in {"bsr", "jsr"}
    BY <1>8 DEF CCall
  <2>2. PICK t \in program.live :
          /\ Defined(t) /\ FuncCall(t)
          /\ \/ code[pc].op = "bsr" /\ t = code[pc].to
             \/ code[pc].op = "jsr" /\ t \in program.jumps
    <3>1. CASE code[pc].op = "bsr" /\ FuncCall(code[pc].to)
      <4>1. code[pc].to \in program.live
        BY <1>4, <3>1 DEF Direct, DirectOps
      <4>2. code[pc].to \in Addrs /\ pc \in Addrs
        BY <1>1, <4>1, LiveWords
      <4>3. Defined(code[pc].to)
        BY <3>1, <4>2 DEF Ready, ToolInv, StartsInv, Defined
      <4> QED
        BY <3>1, <4>1, <4>3
    <3>2. CASE code[pc].op = "jsr" /\ \E t \in program.jumps : FuncCall(t)
      BY <3>2, JumpIsDefined
    <3> QED
      BY <1>8, <3>1, <3>2 DEF CCall
  <2>3. Lands(t) /\ stack' = Append(stack, pc + 2)
    BY <1>2, <2>1, <2>2, CallLands
  <2>4. stack' \in Seq(program.live)
    <3>1. pc + 2 \in program.live
      BY <1>4, <2>1
    <3> QED
      BY <1>1, <2>3, <3>1, AppendProperties
  <2>5. At' = t /\ CInv'
    BY <1>5, <2>3, <2>4, LandsThere, LandingKeeps
  <2>6. SH4!Call
    BY <1>1, <1>3, <2>1, <2>2, <2>3, <2>5 DEF SH4!Call, At
  <2> QED
    BY <1>1, <1>5, <2>5, <2>6 DEF SH4!Next, At
<1>9. CASE CRts
  <2>1. code[pc].op = "rts" /\ Delayed(pc) /\ CReturn
    BY <1>9 DEF CRts, Delayed, DelayedOps
  <2>2. CASE stack = <<>>
    <3>1. here' = Stopped /\ UNCHANGED stack /\ At' = -1
      BY <2>1, <2>2 DEF CReturn, At, Stopped
    <3>2. CInv'
      BY <1>1, <1>5, <3>1 DEF Ready, CInv, Stopped
    <3>3. SH4!Return
      BY <1>1, <1>3, <2>1, <2>2, <3>1 DEF SH4!Return, SH4!Exit, At
    <3> QED
      BY <1>1, <1>5, <3>2, <3>3 DEF SH4!Next, At
  <2>3. CASE stack # <<>>
    <3> DEFINE t == stack[Len(stack)]
    <3>1. /\ t \in program.live
          /\ SubSeq(stack, 1, Len(stack) - 1) \in Seq(program.live)
      <4>1. Len(stack) \in Nat \ {0}
        BY <1>1, <2>3, EmptySeq, LenProperties
      <4>2. \A i \in 1 .. Len(stack) : stack[i] \in program.live
        BY <1>1, ElementOfSeq
      <4>3. /\ Len(stack) \in 1 .. Len(stack)
            /\ 1 .. Len(stack) - 1 \subseteq 1 .. Len(stack)
            /\ 1 \in 1 .. Len(stack) + 1 /\ Len(stack) - 1 \in 0 .. Len(stack)
        BY <4>1, SMT
      <4>4. \A i \in 1 .. Len(stack) - 1 : stack[i] \in program.live
        BY <4>2, <4>3
      <4>5. SubSeq(stack, 1, Len(stack) - 1) \in Seq(program.live)
        <5> DEFINE n == Len(stack) - 1
        <5>1. 1 \in Int /\ n \in Int
          BY <4>1, SMT
        <5>2. \A i \in 1 .. n : stack[i] \in program.live
          BY <4>4
        <5> HIDE DEF n
        <5>3. SubSeq(stack, 1, n) \in Seq(program.live)
          BY ONLY <5>1, <5>2, SubSeqProperties, Zenon
        <5> QED
          BY <5>3 DEF n
      <4> QED
        BY <4>2, <4>3, <4>5
    <3>2. Lands(t) /\ stack' = SubSeq(stack, 1, Len(stack) - 1)
      BY <2>1, <2>3, <3>1, LiveLabel DEF CReturn, Lands
    <3>3. At' = t /\ CInv'
      BY <1>5, <3>1, <3>2, LandsThere, LandingKeeps
    <3>4. SH4!Return
      BY <1>1, <1>3, <2>1, <2>3, <3>2, <3>3 DEF SH4!Return, At
    <3> QED
      BY <1>1, <1>5, <3>3, <3>4 DEF SH4!Next, At
  <2> QED
    BY <2>2, <2>3
<1> QED
  BY <1>6, <1>7, <1>8, <1>9 DEF Run

(* The tool and the C keep the invariant, from any image. *)
THEOREM RecompilerSafe == Spec => []RecompilerInv
<1>1. Init => RecompilerInv
  BY ProgramsAssumption DEF Init, RecompilerInv, ToolInv, CInv, Begin
<1>2. RecompilerInv /\ [Next]_vars => RecompilerInv'
  <2> SUFFICES ASSUME RecompilerInv, [Next]_vars PROVE RecompilerInv'
    OBVIOUS
  <2> USE DEF RecompilerInv
  <2>1. CASE FindFunctions
    BY <2>1, FunctionsFound DEF CInv, FindFunctions, cVars
  <2>2. CASE FindHints
    BY <2>2, HintsFound DEF CInv, FindHints, cVars
  <2>3. CASE ResolveMidEntries
    <3>1. /\ here = Begin /\ stack = <<>> /\ ran = {} /\ 0 \in program.live
          /\ UNCHANGED <<program, cVars>>
      BY <2>3 DEF CInv, ResolveMidEntries, ToolInv, IsProgram
    <3>2. CInv'
      BY <3>1 DEF CInv, Begin, cVars
    <3> QED
      BY <2>3, <3>2, EntriesFound
  <2>4. CASE Run
    BY <2>4, RunFollows, ToolStays DEF Run, Ready
  <2>5. CASE UNCHANGED vars
    BY <2>5, ToolStays DEF CInv, vars, cVars
  <2> QED
    BY <2>1, <2>2, <2>3, <2>4, <2>5 DEF Next
<1> QED
  BY <1>1, <1>2, PTL DEF Spec

(* The emitted C does what the SH-4 would, for every image: instruction for   *)
(* instruction, with the same returns outstanding (RunsLikeSh4: find_functions, *)
(* recompile_function).                                                     *)
THEOREM EmittedCodeFollowsSh4 == Spec => RunsLikeSh4
<1>1. Init => SH4!Init
  BY DEF Init, SH4!Init, Begin
<1>2. RecompilerInv /\ [Next]_vars => [SH4!Next]_(SH4!vars)
  <2> SUFFICES ASSUME RecompilerInv, [Next]_vars PROVE [SH4!Next]_(SH4!vars)
    OBVIOUS
  <2>1. CASE FindFunctions \/ FindHints \/ ResolveMidEntries \/ UNCHANGED vars
    BY <2>1 DEF FindFunctions, FindHints, ResolveMidEntries, vars, cVars, SH4!vars
  <2>2. CASE Run
    BY <2>2, RunFollows DEF RecompilerInv, Run, Ready
  <2> QED
    BY <2>1, <2>2 DEF Next
<1> QED
  BY <1>1, <1>2, RecompilerSafe, PTL DEF Spec, RunsLikeSh4, SH4!Spec
=============================================================================
