-------------------------------- MODULE MCBus --------------------------------
(* MemoryMap, Tmu, Maple and NaomiIo for TLC.  The four share no variable, so *)
(* their interleavings add nothing: a behaviour runs one of them (`part') and *)
(* leaves the others at their initial states.                              *)
EXTENDS MemoryMap, Tmu, Maple, NaomiIo
CONSTANTS x, vtable, ones, pressed, released
VARIABLE part

busVars == <<mapVars, tmuVars, mapleVars, naomiVars>>

(* Three tokens in every word would be too many states.  Part "map" has two,  *)
(* without the pointer sh4_write32 guards; part "vtable" has all three, in  *)
(* the one word where that pointer lives and in the store queues.          *)
VtableCell == <<"ram", \h2FB7A4>>
Kept ==
  IF part = "vtable" THEN \A c \in Places \ {VtableCell} : mem[c] = Zero
  ELSE /\ mem[VtableCell] = Zero
       /\ vtable \notin {mem[c] : c \in Places} \cup {sq[0], sq[1]}

BusInit ==
  /\ part \in {"map", "vtable", "tmu", "maple", "naomi"}
  /\ MapInit /\ TmuInit /\ MapleInit /\ NaomiInit

BusNext ==
  /\ UNCHANGED part
  /\ \/ part \in {"map", "vtable"} /\ MapNext /\ Kept' /\ UNCHANGED <<tmuVars, mapleVars, naomiVars>>
     \/ part = "tmu" /\ TmuNext /\ UNCHANGED <<mapVars, mapleVars, naomiVars>>
     \/ part = "maple" /\ MapleNext /\ UNCHANGED <<mapVars, tmuVars, naomiVars>>
     \/ part = "naomi" /\ NaomiNext /\ UNCHANGED <<mapVars, tmuVars, mapleVars>>

BusSpec == BusInit /\ [][BusNext]_<<part, busVars>>

(* Type invariant of the four modules. *)
TypeOK == MapTypeOK /\ TmuTypeOK /\ MapleTypeOK /\ NaomiTypeOK

(* A word of RAM in each half of the 16MB, one of the protected words, video *)
(* memory, sound memory and a register of each kind, by every alias.        *)
At(seg, low) == [seg |-> seg, low |-> low]
MCAddrs ==
  {At(seg, p) : seg \in {"P0", "P1", "P2"},
                p \in {\h0C010000, \h0CFF0000, \h04000000, \h05000000, \h00800100}}
    \cup {At("P1", \h0C1733A4), At("P1", \h0C2FB7A4), At("P2", \h0C1733B0), At("P2", \h10000000),
          At("P1", \h00702C00), At("P0", \h7C010000)}
MCBuses == {\h0C010000, \h0C2FB7A4, \h0CFF0000, \h04000000, \h05000000, \h11000000, \h10000020, \h00800100}
MCPlaces == {VtableCell, <<"ram", \h010000>>, <<"ram", \hFF0000>>, <<"ram", 0>>, <<"ram", \h1733A4>>,
             <<"vram", 0>>, <<"aica", \h100>>, <<"aicareg", \h2C00>>, <<"ta", 0>>}

(* A page of virtual addresses in the second half of RAM, and one of P0 that *)
(* hides the first word behind another.                                    *)
MCEntries ==
  { [valid |-> TRUE, seg |-> "P0", vpn |-> \h7C010000, size |-> \h1000, ppn |-> \h0CFF0000],
    [valid |-> TRUE, seg |-> "P0", vpn |-> \h0C010000, size |-> \h10000, ppn |-> \h0CFF0000] }

Frame(port, command, last, to) ==
  [last |-> last, op |-> 0, port |-> port, sub |-> FALSE, command |-> command,
   func |-> "controller", to |-> to]
MCChains ==
  { <<Frame(0, 9, FALSE, 1), Frame(1, 9, FALSE, 2), Frame(0, 1, TRUE, 3)>>,
    <<Frame(0, 9, TRUE, 1)>>,
    <<[Frame(0, 9, FALSE, 1) EXCEPT !.op = 7], [Frame(0, 9, FALSE, 2) EXCEPT !.sub = TRUE],
      Frame(0, 134, TRUE, 3)>>,
    <<Frame(0, 12, FALSE, 1), [Frame(0, 9, FALSE, 2) EXCEPT !.func = "other"],
      [Frame(0, 9, FALSE, 2) EXCEPT !.op = 7], Frame(0, 1, TRUE, 3)>> }
=============================================================================
