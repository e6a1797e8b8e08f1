----------------------------- MODULE MemoryMap -----------------------------
(***************************************************************************)
(* Who sees which memory.  The SH-4 reaches a word through its segments and  *)
(* its TLB (translate_addr_cpu, src/src/recompiler/sh4_cpu.c), at three       *)
(* widths that each decode the physical address again; the store queues, the *)
(* G2, channel 2, sort, PVR and Maple DMAs and the disc reads decode it in    *)
(* ways of their own (src/src/hal/dc_hardware.c, dc_bios.c).                 *)
(*                                                                         *)
(* `mem' is the memory the code's decoding reaches.  `flat' is kept beside it *)
(* and is no variable of the program: it is what the memory map documented   *)
(* in include/recompiler/sh4_cpu.h (lines 8-19) makes of the same accesses.  *)
(* Of the texture path, the registers and the TLB the header says nothing;   *)
(* for those `flat' has the code's own ranges, and what is compared is one   *)
(* agent with another.                                                     *)
(* An address is a segment and its offset there; a word is a token, and the  *)
(* bytes of a word are not told apart.  Logging and watchpoints are left out. *)
(***************************************************************************)
EXTENDS Integers

CONSTANTS
  RamSize,   \* ram_size: 16MB on a Dreamcast, 32MB on a Naomi
  Values,    \* what a word holds
  Zero,      \* what calloc leaves in it
  VtablePtr, \* 0x8C1733A4, the pointer sh4_write32 guards
  AllOnes,   \* 0xFFFFFFFF
  Addrs,     \* CPU addresses the game uses
  Buses,     \* physical addresses it programs into DMAs, disc reads and queues
  Entries,   \* TLB entries it writes
  Slots,     \* entries of the UTLB: 0 .. 63
  Places     \* cells the instance keeps

MB16 == \h01000000

Widths == {8, 16, 32}
Segments == {"P0", "P1", "P2", "P3"}
Addresses == [seg : Segments, low : Nat]
Pages == [valid : BOOLEAN, seg : Segments, vpn : Nat, size : Nat \ {0}, ppn : Nat]

ASSUME MapAssumption ==
  /\ RamSize \in {MB16, 2 * MB16}
  /\ Zero \in Values
  /\ Slots \subseteq Nat
  /\ Addrs \subseteq Addresses /\ Entries \subseteq Pages
  /\ Buses \subseteq Nat /\ \A p \in Buses : p < \h20000000

VARIABLES
  mem,    \* ram, vram, aica_ram and the registers, by cell
  flat,   \* the same words as the documented map has them
  utlb,   \* utlb_addr and utlb_data1
  mmu,    \* bit 0 of mmucr
  sq      \* sq[i]: the two store queues

mapVars == <<mem, flat, utlb, mmu, sq>>

Within(p, base, size) == p \in Nat /\ base <= p /\ p < base + size

RamBase == \h0C000000
VramBase == \h04000000
VramSize == \h00800000
Vram32Base == \h05000000
TexturePath == \h11000000
TaBase == \h10000000
AicaBase == \h00800000
AicaSize == \h00200000
AicaRegs == \h00700000
Registers == \h005F6800

-----------------------------------------------------------------------------
(* The CPU's decoding. *)
NoCell == <<"none", 0>>

IsTa(p) == Within(p, TaBase, \h00800000)

(* The registers dc_hw_read32 and dc_hw_write32 keep.  is_hw_register's third *)
(* range, 0x10800000 to 0x10FFFFFF, is not among them: it reads 0 and drops *)
(* what is written, as an address nothing decodes does.                     *)
IsRegister(p) == Within(p, Registers, \h3800)

PageOf(e, a) == e.valid /\ e.seg = a.seg /\ a.low \div e.size = e.vpn \div e.size
Hits(a) == {i \in Slots : PageOf(utlb[i], a)}
FirstHit(a) == CHOOSE i \in Hits(a) : \A j \in Hits(a) : i <= j
InPage(e, a) == e.ppn + (a.low % e.size)

Mapped(a) == a.seg \in {"P0", "P3"} /\ mmu /\ Hits(a) # {}

(* The physical address as the segment has it, without P1's heuristics. *)
Stripped(a) == a.low % \h20000000

(* Addresses below 16MB, video memory and RAM are themselves; whatever else  *)
(* is named is taken for RAM.                                              *)
Heuristic(a) ==
  IF \/ Stripped(a) < MB16
     \/ Within(Stripped(a), VramBase, VramSize)
     \/ Within(Stripped(a), Vram32Base, VramSize)
     \/ Within(Stripped(a), RamBase, RamSize)
  THEN Stripped(a) ELSE RamBase + (a.low % RamSize)

(* translate_addr_cpu, but for P4 *)
Translate(a) ==
  IF a.seg = "P2" THEN Stripped(a)
  ELSE IF Mapped(a) THEN InPage(utlb[FirstHit(a)], a)
  ELSE Heuristic(a)

(* Mutant: a narrow access does not know the 32-bit view of video memory. *)
CellWithout32(p, w) ==
  IF Within(p, RamBase, RamSize) THEN <<"ram", p % RamSize>>
  ELSE IF Within(p, VramBase, VramSize) THEN <<"vram", p - VramBase>>
  ELSE IF Within(p, Vram32Base, VramSize) /\ w = 32 THEN <<"vram", p - Vram32Base>>
  ELSE IF Within(p, AicaBase, AicaSize) THEN <<"aica", p - AicaBase>>
  ELSE IF Within(p, AicaRegs, \h10000) /\ w = 32 THEN <<"aicareg", p - AicaRegs>>
  ELSE IF IsTa(p) THEN <<"ta", 0>>
  ELSE IF IsRegister(p) THEN <<"reg", p>>
  ELSE NoCell

(* What sh4_read8, _read16, _read32 and the writes find at a physical        *)
(* address.  A narrow access of a register reads the word, replaces a part    *)
(* and writes it back; the sound registers answer words only.               *)
Cell(p, w) ==
  IF Within(p, RamBase, RamSize) THEN <<"ram", p % RamSize>>
  ELSE IF Within(p, VramBase, VramSize) THEN <<"vram", p - VramBase>>
  ELSE IF Within(p, Vram32Base, VramSize) THEN <<"vram", p - Vram32Base>>
  ELSE IF Within(p, AicaBase, AicaSize) THEN <<"aica", p - AicaBase>>
  ELSE IF Within(p, AicaRegs, \h10000) /\ w = 32 THEN <<"aicareg", p - AicaRegs>>
  ELSE IF IsTa(p) THEN <<"ta", 0>>
  ELSE IF IsRegister(p) THEN <<"reg", p>>
  ELSE NoCell


-----------------------------------------------------------------------------
(* The other agents' decoding. *)
(* dma_resolve: the G2 channels, either end *)
G2Cell(p) ==
  IF Within(p, AicaBase, AicaSize) THEN <<"aica", p - AicaBase>>
  ELSE IF Within(p, VramBase, VramSize) THEN <<"vram", p - VramBase>>
  ELSE IF Within(p, Vram32Base, VramSize) THEN <<"vram", p - Vram32Base>>
  ELSE IF Within(p, TexturePath, VramSize) THEN <<"vram", p - TexturePath>>
  ELSE IF Within(p, RamBase, MB16) THEN <<"ram", (p - RamBase) % RamSize>>
  ELSE NoCell

(* Channel 2: a source in RAM, and a destination in the accelerator or VRAM *)
Ch2Source(p) == <<"ram", p % RamSize>>
Ch2Dest(p) ==
  IF IsTa(p) THEN <<"ta", 0>>
  ELSE IF Within(p, TexturePath, VramSize) THEN <<"vram", p - TexturePath>>
  ELSE IF Within(p, VramBase, VramSize) THEN <<"vram", p - VramBase>>
  ELSE NoCell

(* Sort-DMA and PVR-DMA read RAM below 16MB, Maple below 32MB. *)
PvrSource(p) == <<"ram", p % MB16>>
MapleCell(p) == <<"ram", p % (2 * MB16)>>

(* gdc_read_sectors: RAM at once, anything else byte by byte *)
DiscCell(p) ==
  IF Within(p, RamBase, RamSize) THEN <<"ram", p % RamSize>>
  ELSE Cell(Translate([seg |-> "P0", low |-> p]), 8)

(* sh4_sq_prefetch, for the destination QACR and the address make together:  *)
(* what is neither accelerator nor video memory is written word by word.    *)
SqCell(p) ==
  IF IsTa(p) THEN <<"ta", 0>>
  ELSE IF Within(p, VramBase, VramSize) THEN <<"vram", p - VramBase>>
  ELSE Cell(Translate([seg |-> "P0", low |-> p]), 32)

-----------------------------------------------------------------------------
(* The documented map. *)
IsRam(p) == Within(p, RamBase, RamSize)
IsVram(p) == Within(p, VramBase, VramSize) \/ Within(p, Vram32Base, VramSize)
IsAica(p) == Within(p, AicaBase, AicaSize)
IsTexturePath(p) == Within(p, TexturePath, VramSize)

PhysOf(a) == IF Mapped(a) THEN InPage(utlb[FirstHit(a)], a) ELSE Stripped(a)

(* What only the code says. *)
UndocumentedCell(p) ==
  IF IsTexturePath(p) THEN <<"vram", p - TexturePath>>
  ELSE IF Within(p, AicaRegs, \h10000) THEN <<"aicareg", p - AicaRegs>>
  ELSE IF IsRegister(p) THEN <<"reg", p>>
  ELSE NoCell

DocCell(p) ==
  IF IsRam(p) THEN <<"ram", p - RamBase>>
  ELSE IF Within(p, VramBase, VramSize) THEN <<"vram", p - VramBase>>
  ELSE IF Within(p, Vram32Base, VramSize) THEN <<"vram", p - Vram32Base>>
  ELSE IF IsAica(p) THEN <<"aica", p - AicaBase>>
  ELSE IF IsTa(p) THEN <<"ta", 0>>
  ELSE UndocumentedCell(p)

(* The accesses a game makes: memory through any segment, the sound registers *)
(* as words, the accelerator through P2 only.                              *)
Usable(a, w) ==
  LET p == PhysOf(a)
  IN \/ IsRam(p) \/ IsVram(p) \/ IsAica(p) \/ IsRegister(p)
     \/ (Within(p, AicaRegs, \h10000) /\ w = 32)
     \/ (IsTa(p) /\ a.seg = "P2")

-----------------------------------------------------------------------------
Load(m, c) == IF c \in Places THEN m[c] ELSE Zero
Store(m, c, v) == IF c \in Places THEN [m EXCEPT ![c] = v] ELSE m

(* A zeroed entry of the UTLB. *)
EmptyPage == [valid |-> FALSE, seg |-> "P0", vpn |-> 0, size |-> 1024, ppn |-> 0]

MapInit ==
  /\ mem = [c \in Places |-> Zero] /\ flat = [c \in Places |-> Zero]
  /\ utlb = [i \in Slots |-> EmptyPage]
  /\ mmu = FALSE
  /\ sq = [i \in {0, 1} |-> Zero]

(* The four function pointers sh4_write8 and sh4_write32 will not overwrite. *)
Protected(p, w) ==
  \/ w = 8 /\ \h0C1733A4 <= p /\ p <= \h0C1733B3
  \/ w = 32 /\ \h0C1733A4 <= p /\ p <= \h0C1733B0

(* The pointer to them, once set, which sh4_write32 lets be cleared only. *)
PointerKept(p, w, v) ==
  /\ w = 32 /\ p = \h0C2FB7A4
  /\ Load(mem, Cell(p, w)) = VtablePtr
  /\ v \notin {VtablePtr, Zero, AllOnes}

Blocked(p, w, v) == Protected(p, w) \/ PointerKept(p, w, v)

(* sh4_write8, sh4_write16, sh4_write32 *)
CpuWrite(a, w, v) ==
  /\ Usable(a, w)
  /\ IF Blocked(Translate(a), w, v) THEN UNCHANGED <<mem, flat>>
     ELSE /\ mem' = Store(mem, Cell(Translate(a), w), v)
          /\ flat' = Store(flat, DocCell(PhysOf(a)), v)
  /\ UNCHANGED <<utlb, mmu, sq>>

(* sh4_write32 in P4: store queue, UTLB arrays, MMUCR with its bit 2, which  *)
(* clears the valid bit of every entry.                                    *)
SqWrite(i, v) == sq' = [sq EXCEPT ![i] = v] /\ UNCHANGED <<mem, flat, utlb, mmu>>
UtlbWrite(i, e) == utlb' = [utlb EXCEPT ![i] = e] /\ UNCHANGED <<mem, flat, mmu, sq>>
MmucrWrite(on, invalidate) ==
  /\ mmu' = on
  /\ utlb' = IF invalidate THEN [i \in Slots |-> [utlb[i] EXCEPT !.valid = FALSE]] ELSE utlb
  /\ UNCHANGED <<mem, flat, sq>>

Moves(from, docFrom, to, docTo) ==
  /\ mem' = Store(mem, to, Load(mem, from))
  /\ flat' = Store(flat, docTo, Load(flat, docFrom))
  /\ UNCHANGED <<utlb, mmu, sq>>

Puts(to, docTo, v) ==
  /\ mem' = Store(mem, to, v) /\ flat' = Store(flat, docTo, v)
  /\ UNCHANGED <<utlb, mmu, sq>>

(* A burst: not to the texture path, and not through a mapped page. *)
SqBurst(i, p) ==
  /\ IsTa(p) \/ IsVram(p) \/ IsRam(p)
  /\ ~Mapped([seg |-> "P0", low |-> p])
  /\ IF Blocked(p, 32, sq[i]) THEN UNCHANGED mapVars
     ELSE Puts(SqCell(p), DocCell(p), sq[i])

(* run_dma: between RAM and the device side, which with direction 0 may be   *)
(* the accelerator.                                                        *)
G2Dest(p) == IF IsTa(p) THEN <<"ta", 0>> ELSE G2Cell(p)

G2Transfer(device, root, in) ==
  /\ IsRam(root)
  /\ IsAica(device) \/ IsVram(device) \/ IsTexturePath(device) \/ (IsTa(device) /\ ~in)
  /\ IF in THEN Moves(G2Cell(device), DocCell(device), G2Cell(root), DocCell(root))
           ELSE Moves(G2Cell(root), DocCell(root), G2Dest(device), DocCell(device))

(* dc_hw_write32 on SB_C2DST, and on SB_SDST or SB_PDST *)
Ch2Transfer(src, dst) ==
  /\ IsRam(src) /\ (IsTa(dst) \/ IsTexturePath(dst) \/ Within(dst, VramBase, VramSize))
  /\ Moves(Ch2Source(src), DocCell(src), Ch2Dest(dst), DocCell(dst))

PvrTransfer(src) ==
  IsRam(src) /\ Moves(PvrSource(src), DocCell(src), <<"ta", 0>>, <<"ta", 0>>)

(* dc_maple_dma's reply, and a sector from the disc *)
MapleReply(p, v) == IsRam(p) /\ Puts(MapleCell(p), DocCell(p), v)
DiscRead(p, v) ==
  /\ IsRam(p) \/ IsVram(p) \/ IsAica(p)
  /\ ~Mapped([seg |-> "P0", low |-> p])
  /\ Puts(DiscCell(p), DocCell(p), v)

MapNext ==
  \/ \E a \in Addrs, w \in Widths, v \in Values : CpuWrite(a, w, v)
  \/ \E i \in {0, 1}, v \in Values : SqWrite(i, v)
  \/ \E i \in {0, 1}, p \in Buses : SqBurst(i, p)
  \/ \E i \in Slots, e \in Entries : UtlbWrite(i, e)
  \/ \E on, invalidate \in BOOLEAN : MmucrWrite(on, invalidate)
  \/ \E p, q \in Buses : Ch2Transfer(p, q)
  \/ \E p, q \in Buses, in \in BOOLEAN : G2Transfer(p, q, in)
  \/ \E p \in Buses : PvrTransfer(p)
  \/ \E p \in Buses, v \in Values : MapleReply(p, v)
  \/ \E p \in Buses, v \in Values : DiscRead(p, v)

MapSpec == MapInit /\ [][MapNext]_mapVars

-----------------------------------------------------------------------------
MapTypeOK ==
  /\ mem \in [Places -> Values] /\ flat \in [Places -> Values]
  /\ utlb \in [Slots -> Pages]
  /\ mmu \in BOOLEAN /\ sq \in [{0, 1} -> Values]

(* Every agent meets every other in the same word: whatever the segment, the *)
(* width, the TLB, the queue or the DMA by which a word was written, each     *)
(* address that names it on the documented map reads it, and no access      *)
(* touched a word it did not name.                                         *)
AliasesMeet ==
  /\ mem = flat
  /\ \A a \in Addrs, w \in Widths :
       Usable(a, w) /\ ~IsTa(PhysOf(a)) =>
         Load(mem, Cell(Translate(a), w)) = Load(flat, DocCell(PhysOf(a)))
=============================================================================
