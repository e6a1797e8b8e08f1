----------------------------- MODULE Bus_proofs -----------------------------
(***************************************************************************)
(* Proofs about the parts on the bus: the memory map, a timer channel, the   *)
(* Maple bus and the coin counters, and the four side by side.              *)
(***************************************************************************)
EXTENDS MCBus, TLAPS

-----------------------------------------------------------------------------
(* The memory map of a Dreamcast. *)

(* 16MB of RAM: the size the G2, sort and PVR DMAs decode. *)
Dreamcast == RamSize = MB16

(* The inductive invariant: both memories agree, and all is of its type. *)
MapInv ==
  /\ MapTypeOK
  /\ mem = flat

(* What sits at a physical address is what the documented map puts there,    *)
(* for every width at which a game uses it.                                *)
LEMMA CellIsDocumented ==
  ASSUME Dreamcast, NEW p, NEW w \in Widths,
         \/ IsRam(p) \/ IsVram(p) \/ IsAica(p) \/ IsRegister(p) \/ IsTa(p)
         \/ Within(p, AicaRegs, \h10000) /\ w = 32
  PROVE  Cell(p, w) = DocCell(p)
<1> DEFINE InRam == Within(p, RamBase, RamSize)
           InVram == Within(p, VramBase, VramSize)
           InVram32 == Within(p, Vram32Base, VramSize)
           InAica == Within(p, AicaBase, AicaSize)
           InAicaRegs == Within(p, AicaRegs, \h10000)
           InTexture == Within(p, TexturePath, VramSize)
           InTa == Within(p, TaBase, \h00800000)
           InRegisters == Within(p, Registers, \h3800)
<1>1. /\ InRam => ~InVram /\ ~InVram32 /\ ~InAica /\ ~InAicaRegs /\ ~InTexture /\ ~InTa
      /\ InVram => ~InVram32 /\ ~InAica /\ ~InAicaRegs /\ ~InTexture /\ ~InTa
      /\ InVram32 => ~InAica /\ ~InAicaRegs /\ ~InTexture /\ ~InTa
      /\ InAica => ~InAicaRegs /\ ~InTexture /\ ~InTa
      /\ InAicaRegs => ~InTexture /\ ~InTa
      /\ InTexture => ~InTa
      /\ InRegisters => ~InRam /\ ~InVram /\ ~InVram32 /\ ~InAica /\ ~InAicaRegs /\ ~InTexture /\ ~InTa
  BY SMT DEF Dreamcast, MB16, Within, RamBase, VramBase, Vram32Base, VramSize, AicaBase, AicaSize,
     AicaRegs, TaBase, Registers, TexturePath
<1>2. InRam => p % RamSize = p - RamBase
  BY SMT DEF Dreamcast, MB16, Within, RamBase
<1> QED
  BY <1>1, <1>2, SMT DEF Cell, DocCell, UndocumentedCell, IsRam, IsVram, IsAica, IsRegister, IsTa,
     IsTexturePath

(* The CPU: each way to name a usable word, translated and decoded, reaches  *)
(* the cell the documented map has for it.                                 *)
LEMMA CpuReachesDocumented ==
  ASSUME Dreamcast, NEW a \in Addresses, NEW w \in Widths, Usable(a, w)
  PROVE  Cell(Translate(a), w) = DocCell(PhysOf(a))
<1>1. CASE Mapped(a)
  <2>1. Translate(a) = PhysOf(a)
    BY <1>1 DEF Translate, PhysOf, Mapped
  <2> QED
    BY <2>1, CellIsDocumented DEF Usable
<1>2. CASE ~Mapped(a)
  <2>1. PhysOf(a) = Stripped(a) /\ Stripped(a) \in Nat
    BY <1>2, SMT DEF PhysOf, Stripped, Addresses
  <2>x. Stripped(a) \in Nat /\ RamSize = 16777216
    BY <2>1 DEF Dreamcast, MB16
  <2>2. Translate(a) = Stripped(a)
    BY <1>2, <2>1, <2>x, SMT DEF Dreamcast, Translate, Heuristic, Usable, IsRam, IsVram, IsAica, IsRegister, IsTa, Within,
       RamBase, VramBase, Vram32Base, VramSize, AicaBase, AicaSize, AicaRegs, Registers, MB16
  <2> QED
    BY <2>1, <2>2, CellIsDocumented DEF Usable
<1> QED
  BY <1>1, <1>2

(* The agents with a decoding of their own agree with it where they are used. *)
LEMMA AgentsReachDocumented ==
  ASSUME Dreamcast, NEW p
  PROVE  /\ IsAica(p) \/ IsVram(p) \/ IsTexturePath(p) \/ IsRam(p) => G2Cell(p) = DocCell(p)
         /\ IsRam(p) => /\ Ch2Source(p) = DocCell(p)
                        /\ PvrSource(p) = DocCell(p)
                        /\ MapleCell(p) = DocCell(p)
         /\ IsTa(p) \/ IsTexturePath(p) \/ Within(p, VramBase, VramSize) => Ch2Dest(p) = DocCell(p)
         /\ IsTa(p) => DocCell(p) = <<"ta", 0>>
<1> DEFINE InRam == Within(p, RamBase, RamSize)
           InVram == Within(p, VramBase, VramSize)
           InVram32 == Within(p, Vram32Base, VramSize)
           InAica == Within(p, AicaBase, AicaSize)
           InAicaRegs == Within(p, AicaRegs, \h10000)
           InTexture == Within(p, TexturePath, VramSize)
           InTa == Within(p, TaBase, \h00800000)
<1>1. /\ InRam => ~InVram /\ ~InVram32 /\ ~InAica /\ ~InAicaRegs /\ ~InTexture /\ ~InTa
      /\ InVram => ~InVram32 /\ ~InAica /\ ~InAicaRegs /\ ~InTexture /\ ~InTa
      /\ InVram32 => ~InAica /\ ~InAicaRegs /\ ~InTexture /\ ~InTa
      /\ InAica => ~InAicaRegs /\ ~InTexture /\ ~InTa
      /\ InAicaRegs => ~InTexture /\ ~InTa
      /\ InTexture => ~InTa
  BY SMT DEF Dreamcast, MB16, Within, RamBase, VramBase, Vram32Base, VramSize, AicaBase, AicaSize,
     AicaRegs, TaBase, TexturePath
<1>2. InRam => /\ p % RamSize = p - RamBase
               /\ p % MB16 = p - RamBase
               /\ p % (2 * MB16) = p - RamBase
               /\ (p - RamBase) % RamSize = p - RamBase
               /\ Within(p, RamBase, MB16)
  BY SMT DEF Dreamcast, MB16, Within, RamBase
<1>3. IsAica(p) \/ IsVram(p) \/ IsTexturePath(p) \/ IsRam(p) => G2Cell(p) = DocCell(p)
  BY <1>1, <1>2, SMT DEF G2Cell, DocCell, UndocumentedCell, IsRam, IsVram, IsAica, IsTa, IsTexturePath
<1>4. IsRam(p) => Ch2Source(p) = DocCell(p) /\ PvrSource(p) = DocCell(p) /\ MapleCell(p) = DocCell(p)
  BY <1>2, SMT DEF Ch2Source, PvrSource, MapleCell, DocCell, IsRam
<1>5. IsTa(p) \/ IsTexturePath(p) \/ InVram => Ch2Dest(p) = DocCell(p)
  BY <1>1, SMT DEF Ch2Dest, DocCell, UndocumentedCell, IsRam, IsTa, IsAica, IsTexturePath
<1>6. IsTa(p) => DocCell(p) = <<"ta", 0>>
  BY <1>1, SMT DEF DocCell, UndocumentedCell, IsRam, IsTa, IsAica, IsTexturePath
<1> QED
  BY <1>3, <1>4, <1>5, <1>6

(* A physical address used as a P0 address that no page hides is itself. *)
LEMMA Unhidden ==
  ASSUME NEW p \in Nat, p < \h20000000, ~Mapped([seg |-> "P0", low |-> p])
  PROVE  /\ [seg |-> "P0", low |-> p] \in Addresses
         /\ PhysOf([seg |-> "P0", low |-> p]) = p
BY SMT DEF PhysOf, Stripped, Addresses, Segments

(* So do the store queues and the disc, which fall back on the CPU's path. *)
LEMMA FallbacksReachDocumented ==
  ASSUME Dreamcast, NEW p \in Nat, p < \h20000000, ~Mapped([seg |-> "P0", low |-> p])
  PROVE  /\ IsTa(p) \/ IsVram(p) \/ IsRam(p) => SqCell(p) = DocCell(p)
         /\ IsRam(p) \/ IsVram(p) \/ IsAica(p) => DiscCell(p) = DocCell(p)
<1> DEFINE a == [seg |-> "P0", low |-> p]
<1>1. a \in Addresses /\ PhysOf(a) = p
  BY Unhidden
<1>2. \A w \in Widths : IsRam(p) \/ IsVram(p) \/ IsAica(p) => Cell(Translate(a), w) = DocCell(p)
  BY <1>1, CpuReachesDocumented DEF Usable
<1>3. 8 \in Widths /\ 32 \in Widths
  BY DEF Widths
<1>4. ASSUME IsTa(p) PROVE SqCell(p) = DocCell(p)
  BY <1>4, AgentsReachDocumented DEF SqCell
<1>5. ASSUME Within(p, VramBase, VramSize) PROVE SqCell(p) = DocCell(p)
  <2>1. ~IsTa(p)
    BY <1>5, SMT DEF IsTa, Within, VramBase, VramSize, TaBase
  <2>2. Ch2Dest(p) = DocCell(p) /\ ~IsTexturePath(p)
    BY <1>5, AgentsReachDocumented, SMT DEF IsTexturePath, Within, VramBase, VramSize, TexturePath
  <2> QED
    BY <1>5, <2>1, <2>2 DEF SqCell, Ch2Dest, IsTexturePath
<1>6. ASSUME IsRam(p) \/ IsVram(p), ~Within(p, VramBase, VramSize), ~IsTa(p)
      PROVE  SqCell(p) = DocCell(p)
  BY <1>2, <1>3, <1>6 DEF SqCell
<1>7. ASSUME IsRam(p) PROVE DiscCell(p) = DocCell(p)
  BY <1>7, AgentsReachDocumented DEF DiscCell, IsRam, Ch2Source
<1>8. ASSUME IsVram(p) \/ IsAica(p), ~IsRam(p) PROVE DiscCell(p) = DocCell(p)
  BY <1>2, <1>3, <1>8 DEF DiscCell, IsRam
<1> QED
  BY <1>4, <1>5, <1>6, <1>7, <1>8

(* What the actions need of the assumptions on the instance. *)
LEMMA InstanceIsTyped ==
  /\ Zero \in Values
  /\ Addrs \subseteq Addresses /\ Entries \subseteq Pages
  /\ Buses \subseteq Nat
BY SMT, MapAssumption

LEMMA BusesArePhysical == \A p \in Buses : p \in Nat /\ p < \h20000000
BY SMT, MapAssumption

LEMMA StoreTypes ==
  ASSUME NEW r \in [Places -> Values], NEW c, NEW d, NEW v \in Values
  PROVE  Store(r, c, v) \in [Places -> Values] /\ Load(r, d) \in Values
BY InstanceIsTyped DEF Store, Load

(* A move between ends that are decoded as documented keeps the invariant. *)
LEMMA MovesAgree ==
  ASSUME MapInv, NEW c, NEW d, Moves(c, c, d, d)
  PROVE  MapInv'
BY StoreTypes DEF Moves, MapInv, MapTypeOK

LEMMA PutsAgree ==
  ASSUME MapInv, NEW c, NEW v \in Values, Puts(c, c, v)
  PROVE  MapInv'
BY StoreTypes DEF Puts, MapInv, MapTypeOK

(* The memory map is safe: on a Dreamcast, for every set of addresses, pages *)
(* and values, no access of any agent lets the memory the code reaches part  *)
(* from the documented one (translate_addr_cpu, dma_resolve and the others). *)
THEOREM MapSafe == ASSUME Dreamcast PROVE MapSpec => []MapInv
<1> USE InstanceIsTyped
<1>1. MapInit => MapInv
  <2>1. EmptyPage \in Pages
    BY DEF EmptyPage, Pages, Segments
  <2> QED
    BY <2>1 DEF MapInit, MapInv, MapTypeOK
<1>2. MapInv /\ [MapNext]_mapVars => MapInv'
  <2> SUFFICES ASSUME MapInv, [MapNext]_mapVars PROVE MapInv'
    OBVIOUS
  <2>1. ASSUME NEW a \in Addrs, NEW w \in Widths, NEW v \in Values, CpuWrite(a, w, v)
        PROVE  MapInv'
    <3>1. Cell(Translate(a), w) = DocCell(PhysOf(a))
      BY <2>1, CpuReachesDocumented DEF CpuWrite
    <3> QED
      BY <2>1, <3>1, StoreTypes DEF CpuWrite, MapInv, MapTypeOK
  <2>2. ASSUME NEW i \in {0, 1}, NEW v \in Values, SqWrite(i, v) PROVE MapInv'
    BY <2>2 DEF SqWrite, MapInv, MapTypeOK
  <2>3. ASSUME NEW i \in {0, 1}, NEW p \in Buses, SqBurst(i, p) PROVE MapInv'
    <3>1. SqCell(p) = DocCell(p)
      BY <2>3, FallbacksReachDocumented, BusesArePhysical, SMT DEF SqBurst
    <3>2. sq[i] \in Values
      BY DEF MapInv, MapTypeOK
    <3>3. CASE Blocked(p, 32, sq[i])
      BY <2>3, <3>3 DEF SqBurst, mapVars, MapInv, MapTypeOK
    <3> QED
      BY <2>3, <3>1, <3>2, <3>3, PutsAgree DEF SqBurst
  <2>4. ASSUME NEW i \in Slots, NEW e \in Entries, UtlbWrite(i, e) PROVE MapInv'
    BY <2>4 DEF UtlbWrite, MapInv, MapTypeOK
  <2>5. ASSUME NEW on \in BOOLEAN, NEW invalidate \in BOOLEAN, MmucrWrite(on, invalidate)
        PROVE  MapInv'
    <3>1. \A e \in Pages : [e EXCEPT !.valid = FALSE] \in Pages
      BY DEF Pages
    <3> QED
      BY <2>5, <3>1 DEF MmucrWrite, MapInv, MapTypeOK
  <2>6. ASSUME NEW p \in Buses, NEW q \in Buses, Ch2Transfer(p, q) PROVE MapInv'
    BY <2>6, AgentsReachDocumented, MovesAgree DEF Ch2Transfer
  <2>7. ASSUME NEW p \in Buses, NEW q \in Buses, NEW in \in BOOLEAN, G2Transfer(p, q, in)
        PROVE  MapInv'
    <3>1. G2Cell(q) = DocCell(q)
      BY <2>7, AgentsReachDocumented DEF G2Transfer
    <3>2. CASE in
      <4>1. G2Cell(p) = DocCell(p)
        BY <2>7, <3>2, AgentsReachDocumented DEF G2Transfer
      <4> QED
        BY <2>7, <3>1, <3>2, <4>1, MovesAgree DEF G2Transfer
    <3>3. CASE ~in
      <4>1. G2Dest(p) = DocCell(p)
        BY <2>7, <3>3, AgentsReachDocumented DEF G2Transfer, G2Dest
      <4> QED
        BY <2>7, <3>1, <3>3, <4>1, MovesAgree DEF G2Transfer
    <3> QED
      BY <3>2, <3>3
  <2>8. ASSUME NEW p \in Buses, PvrTransfer(p) PROVE MapInv'
    BY <2>8, AgentsReachDocumented, MovesAgree DEF PvrTransfer
  <2>9. ASSUME NEW p \in Buses, NEW v \in Values, MapleReply(p, v) PROVE MapInv'
    BY <2>9, AgentsReachDocumented, PutsAgree DEF MapleReply
  <2>10. ASSUME NEW p \in Buses, NEW v \in Values, DiscRead(p, v) PROVE MapInv'
    <3>1. DiscCell(p) = DocCell(p)
      BY <2>10, FallbacksReachDocumented, BusesArePhysical, SMT DEF DiscRead
    <3> QED
      BY <2>10, <3>1, PutsAgree DEF DiscRead
  <2>11. CASE UNCHANGED mapVars
    BY <2>11 DEF mapVars, MapInv, MapTypeOK
  <2> QED
    BY <2>1, <2>2, <2>3, <2>4, <2>5, <2>6, <2>7, <2>8, <2>9, <2>10, <2>11 DEF MapNext
<1> QED
  BY <1>1, <1>2, PTL DEF MapSpec

(* Every agent meets every other in the same word: AliasesMeet, on a         *)
(* Dreamcast, for every set of addresses, pages and values.                *)
THEOREM AliasesAlwaysMeet == ASSUME Dreamcast PROVE MapSpec => []AliasesMeet
<1>1. MapInv => AliasesMeet
  BY CpuReachesDocumented, InstanceIsTyped DEF MapInv, AliasesMeet
<1> QED
  BY <1>1, MapSafe, PTL

(* On a Naomi the memory map documents 32MB of RAM and dma_resolve finds     *)
(* none of the upper half: a G2 transfer to or from it moves nothing.       *)
THEOREM NaomiUpperHalfUnreached ==
  ASSUME RamSize = 2 * MB16, NEW p, Within(p, RamBase + MB16, MB16)
  PROVE  IsRam(p) /\ DocCell(p) # NoCell /\ G2Cell(p) = NoCell
BY SMT DEF IsRam, DocCell, G2Cell, NoCell, Within, MB16, RamBase, VramBase, Vram32Base, VramSize,
   AicaBase, AicaSize, TexturePath

-----------------------------------------------------------------------------
(* The timer. *)

(* The inductive invariant: the count a read is exact for is the stored one, *)
(* since the time base, unless it was stored in the first millisecond.      *)
TmuInv ==
  /\ TmuTypeOK
  /\ from.at # 0 => from.at = base /\ from.count = tcnt

LEMMA TicksAreNat == TmuTypeOK => Ticks \in Nat
<1>1. \A d \in Nat : d * Rate \in Nat
  BY TmuAssumption
<1> QED
  BY <1>1, TmuAssumption DEF TmuTypeOK, Ticks

(* The count stays within 32 bits and in step with its time base, through every *)
(* write, read and reload (TCNT in sh4_read32 and sh4_write32).             *)
THEOREM TmuSafe == TmuSpec => []TmuInv
<1>1. TmuInit => TmuInv
  BY TmuAssumption DEF TmuInit, TmuInv, TmuTypeOK, Never
<1>2. TmuInv /\ [TmuNext]_tmuVars => TmuInv'
  <2> SUFFICES ASSUME TmuInv, [TmuNext]_tmuVars PROVE TmuInv'
    OBVIOUS
  <2> USE TmuAssumption DEF TmuInv, TmuTypeOK
  <2>1. CASE TmuTick
    BY <2>1 DEF TmuTick
  <2>2. CASE ReadTcnt
    <3>1. Reload \in 0 .. Full /\ Ticks \in Nat
      BY TicksAreNat DEF Reload
    <3>2. tcnt' \in 0 .. Full /\ shown' \in 0 .. Full
      BY <2>2, <3>1 DEF ReadTcnt
    <3>3. ms' = ms /\ tcor' = tcor
      BY <2>2 DEF ReadTcnt
    <3>4. CASE Ticks >= tcnt
      <4>1. tcnt' = Reload /\ base' = ms /\ from' = [count |-> Reload, at |-> ms]
        BY <2>2, <3>4 DEF ReadTcnt
      <4>2. from'.at = ms /\ from'.count = Reload
        BY <4>1
      <4> QED
        BY <3>2, <3>3, <4>1, <4>2
    <3>5. CASE ~(Ticks >= tcnt)
      <4>1. base' = base /\ from' = from /\ tcnt' = tcnt
        BY <2>2, <3>5 DEF ReadTcnt
      <4> QED
        BY <3>2, <3>3, <4>1
    <3> QED
      BY <3>4, <3>5
  <2>3. ASSUME NEW v \in Counts, WriteTcor(v) PROVE TmuInv'
    BY <2>3 DEF WriteTcor
  <2>4. ASSUME NEW v \in Counts, WriteTcnt(v) PROVE TmuInv'
    BY <2>4 DEF WriteTcnt
  <2>5. CASE UNCHANGED tmuVars
    BY <2>5 DEF tmuVars
  <2> QED
    BY <2>1, <2>2, <2>3, <2>4, <2>5 DEF TmuNext
<1> QED
  BY <1>1, <1>2, PTL DEF TmuSpec

(* A read that does not reload shows the time: CountIsElapsed, for every     *)
(* clock rate, reload and count (the TCNT branch of sh4_read32).            *)
THEOREM TimerShowsTime == TmuSpec => CountIsElapsed
<1>1. TmuInv /\ [TmuNext]_tmuVars =>
        [ReadTcnt /\ tcnt' = tcnt /\ base' = base /\ from.at # 0 =>
           shown' = from.count - (ms - from.at) * Rate]_tmuVars
  <2> SUFFICES ASSUME TmuInv, ReadTcnt, tcnt' = tcnt, base' = base, from.at # 0
               PROVE  shown' = from.count - (ms - from.at) * Rate
    BY DEF TmuInv
  <2>1. from.at = base /\ from.count = tcnt /\ Ticks \in Nat
    BY TicksAreNat DEF TmuInv
  <2>2. Ticks = (ms - base) * Rate
    BY <2>1 DEF Ticks
  <2>3. CASE Ticks < tcnt
    BY <2>1, <2>2, <2>3 DEF ReadTcnt
  <2>4. CASE ~(Ticks < tcnt)
    <3>1. ms = base /\ shown' = (IF Ticks < tcnt THEN tcnt - Ticks ELSE tcnt)
      BY <2>1, <2>4 DEF ReadTcnt, TmuInv, TmuTypeOK
    <3>2. Ticks = 0
      BY <2>2, <3>1, TmuAssumption DEF TmuInv, TmuTypeOK
    <3> QED
      BY <2>1, <2>2, <2>4, <3>1, <3>2, TmuAssumption DEF TmuInv, TmuTypeOK
  <2> QED
    BY <2>3, <2>4
<1> QED
  BY <1>1, TmuSafe, PTL DEF TmuSpec, CountIsElapsed

-----------------------------------------------------------------------------
(* The coins. *)

(* The inductive invariant: the counters and the reply are bytes, and no coin *)
(* is lost between them.                                                   *)
NaomiInv ==
  /\ NaomiTypeOK
  /\ buffer.coin \in [Players -> 0 .. Coins - 1]
  /\ dropped \in [Players -> Nat] /\ credit \in [Players -> Nat]
  /\ CreditsAddUp

(* Counting on by one counts one more, as long as the byte is not full. *)
LEMMA BetweenNext ==
  ASSUME NEW old \in 0 .. Coins - 1, NEW new \in 0 .. Coins - 1
  PROVE  /\ Next256(new) \in 0 .. Coins - 1
         /\ Between(old, new) \in 0 .. Coins - 1
         /\ Between(old, old) = 0
         /\ Between(old, new) < Coins - 1 => Between(old, Next256(new)) = Between(old, new) + 1
<1> USE NaomiAssumption
<1>1. Next256(new) = IF new = Coins - 1 THEN 0 ELSE new + 1
  BY SMT DEF Next256
<1>2. \A a, b \in 0 .. Coins - 1 : Between(a, b) = IF a <= b THEN b - a ELSE b - a + Coins
  BY SMT DEF Between
<1> QED
  BY <1>1, <1>2, SMT

(* The coins not yet seen by the game are the difference of two counters, of any *)
(* width (naomi_io_insert_coin, naomi_io_process_jvs_dma).                  *)
THEOREM NaomiSafe == NaomiSpec => []NaomiInv
<1> USE NaomiAssumption
<1>1. NaomiInit => NaomiInv
  <2>1. Between(0, 0) = 0
    BY BetweenNext
  <2> QED
    BY <2>1 DEF NaomiInit, NaomiInv, NaomiTypeOK, CreditsAddUp, NoCoins, Players
<1>2. NaomiInv /\ [NaomiNext]_naomiVars => NaomiInv'
  <2> SUFFICES ASSUME NaomiInv, [NaomiNext]_naomiVars PROVE NaomiInv'
    OBVIOUS
  <2> USE DEF NaomiInv, NaomiTypeOK, CreditsAddUp
  <2>1. ASSUME NEW p \in Players, InsertCoin(p) PROVE NaomiInv'
    <3> DEFINE old == buffer.coin[p]
    <3> HIDE DEF old
    <3>0. old \in 0 .. Coins - 1 /\ coin[p] \in 0 .. Coins - 1 /\ dropped[p] \in Nat /\ credit[p] \in Nat
      BY <2>1 DEF old
    <3>1. /\ Between(old, coin[p]) < Coins - 1
          /\ Between(old, coin[p]) \in 0 .. Coins - 1
          /\ credit[p] + Between(old, coin[p]) = dropped[p]
      <4>1. Between(old, coin[p]) \in 0 .. Coins - 1
        BY <3>0, BetweenNext
      <4>2. credit[p] + Between(old, coin[p]) = dropped[p]
        BY DEF old
      <4>3. dropped[p] - credit[p] < Coins - 1
        BY <2>1 DEF InsertCoin
      <4> QED
        BY <3>0, <4>1, <4>2, <4>3
    <3>2. /\ coin' = [coin EXCEPT ![p] = Next256(coin[p])]
          /\ dropped' = [dropped EXCEPT ![p] = dropped[p] + 1]
          /\ Next256(coin[p]) \in 0 .. Coins - 1
      BY <2>1, <3>0, BetweenNext DEF InsertCoin
    <3>3. ASSUME NEW q \in Players
          PROVE  credit[q] + Between(buffer.coin[q], coin'[q]) = dropped'[q]
      <4>1. CASE q = p
        <5>1. coin'[q] = Next256(coin[p]) /\ dropped'[q] = dropped[p] + 1
          BY <3>2, <4>1
        <5>2. Between(old, Next256(coin[p])) = Between(old, coin[p]) + 1
          BY <3>0, <3>1, BetweenNext
        <5> QED
          BY <3>0, <3>1, <4>1, <5>1, <5>2 DEF old
      <4>2. CASE q # p
        BY <3>2, <4>2
      <4> QED
        BY <4>1, <4>2
    <3>4. coin' \in [Players -> 0 .. Coins - 1] /\ dropped' \in [Players -> Nat]
      BY <3>0, <3>2
    <3> QED
      BY <2>1, <3>3, <3>4 DEF InsertCoin
  <2>2. ASSUME NEW p \in Players, NEW b \in Buttons, Press(p, b) PROVE NaomiInv'
    BY <2>2 DEF Press
  <2>3. ASSUME NEW b \in Buttons, PressSystem(b) PROVE NaomiInv'
    BY <2>3 DEF PressSystem
  <2>4. ASSUME NEW c \in Cards, InsertCard(c) PROVE NaomiInv'
    BY <2>4 DEF InsertCard
  <2>5. CASE EjectCard
    BY <2>5 DEF EjectCard
  <2>6. CASE JvsDma
    <3>1. buffer'.coin = coin
      BY <2>6 DEF JvsDma
    <3>2. \A p \in Players : /\ credit'[p] = dropped[p] /\ Between(coin[p], coin[p]) = 0
                           /\ credit'[p] \in Nat
      BY <2>6, BetweenNext DEF JvsDma
    <3>3. credit' \in [Players -> Nat]
      BY <2>6, <3>2 DEF JvsDma
    <3> QED
      BY <2>6, <3>1, <3>2, <3>3 DEF JvsDma
  <2>7. CASE UNCHANGED naomiVars
    BY <2>7 DEF naomiVars
  <2> QED
    BY <2>1, <2>2, <2>3, <2>4, <2>5, <2>6, <2>7 DEF NaomiNext
<1> QED
  BY <1>1, <1>2, PTL DEF NaomiSpec

(* No coin is lost or counted twice: CreditsAddUp, for a counter of any width *)
(* and any number of coins (naomi_io_insert_coin, naomi_io_process_jvs_dma). *)
THEOREM NoCoinLost == NaomiSpec => []CreditsAddUp
BY NaomiSafe, PTL DEF NaomiInv

-----------------------------------------------------------------------------
(* The Maple bus. *)

(* The inductive invariant: what the replies say is true of the chain, and     *)
(* all is of its type.                                                     *)
MapleInv == MapleTypeOK /\ AllAnswered

(* A port's answer to a frame: a reply, its own, that says no device only      *)
(* where AllAnswered lets it.                                              *)
LEMMA AnswerIsRight ==
  ASSUME MapleTypeOK, NEW f \in Frames
  PROVE  Answer(f) \in Replies /\ Answers(Answer(f), f, pad)
<1> DEFINE c == CommandReply(f)
<1>1. /\ f.port \in Ports /\ f.command \in Nat /\ f.func \in {"controller", "other"}
      /\ f.sub \in BOOLEAN /\ pad[f.port] \in Pads
  <2>1. /\ f.port \in Ports /\ f.command \in 0 .. 255 /\ f.func \in {"controller", "other"}
        /\ f.sub \in BOOLEAN
    BY DEF Frames
  <2>2. pad[f.port] \in Pads
    BY <2>1, Zenon DEF MapleTypeOK
  <2> QED
    BY <2>1, <2>2
<1>2. \/ c = NoDevice /\ (f.command \notin Understood \/ f.func = "other")
      \/ c = [code |-> 8, port |-> f.port, pad |-> pad[f.port]]
      \/ \E n \in {5, 7, 128, 131, 133, 135} : c = [code |-> n, port |-> f.port]
  BY <1>1 DEF CommandReply, Understood
<1>3. NoDevice \in Replies /\ NoDevice # NoReply /\ NoDevice.code = -1
  BY DEF NoDevice, NoReply, Replies
<1>4. CASE f.port \notin connected \/ f.sub
  BY <1>3, <1>4 DEF Answer, Answers
<1>5. CASE f.port \in connected /\ ~f.sub
  <2>1. Answer(f) = c
    BY <1>5 DEF Answer
  <2>2. CASE c = NoDevice /\ (f.command \notin Understood \/ f.func = "other")
    BY <1>3, <1>5, <2>1, <2>2 DEF Answers
  <2>3. CASE c = [code |-> 8, port |-> f.port, pad |-> pad[f.port]]
    BY <1>1, <1>5, <2>1, <2>3 DEF Answers, NoDevice, NoReply, Replies
  <2>4. ASSUME NEW n \in {5, 7, 128, 131, 133, 135}, c = [code |-> n, port |-> f.port]
        PROVE  Answer(f) \in Replies /\ Answers(Answer(f), f, pad)
    BY <1>1, <1>5, <2>1, <2>4 DEF Answers, NoDevice, NoReply, Replies
  <2> QED
    BY <1>2, <2>2, <2>3, <2>4
<1> QED
  BY <1>1, <1>4, <1>5

(* In a chain a reply buffer is asked for by one frame at most, and every      *)
(* frame up to the thirty-second is looked at.                             *)
LEMMA OneAsksFor ==
  ASSUME IsChain(chain), NEW k \in 1 .. Len(chain), chain[k].op = 0, k <= MaxFrames
  PROVE  Asking(chain[k].to) = {k}
BY DEF IsChain, Examined, Asking

LEMMA MaxOfOne == ASSUME NEW k \in Nat PROVE Max({k}) = k
BY DEF Max

(* A Maple DMA answers every frame; types and answers survive a new chain and  *)
(* a pad that moves (dc_maple_dma, platform_poll_events).                   *)
THEOREM MapleSafe == MapleSpec => []MapleInv
<1> USE MapleAssumption
<1>1. MapleInit => MapleInv
  <2> SUFFICES ASSUME MapleInit PROVE MapleInv
    OBVIOUS
  <2>1. NoPad \in Pads
    BY DEF NoPad
  <2>2. MapleTypeOK
    <3>1. pad \in [Ports -> Pads] /\ sampled \in [Ports -> Pads]
      BY <2>1, Zenon DEF MapleInit
    <3>2. reply \in [Slot -> Replies]
      BY Zenon DEF MapleInit, Replies
    <3>3. connected \subseteq Ports
      BY SMT DEF MapleInit, Ports
    <3> QED
      BY <3>1, <3>2, <3>3 DEF MapleInit, MapleTypeOK
  <2>3. AllAnswered
    BY DEF MapleInit, AllAnswered
  <2> QED
    BY <2>2, <2>3 DEF MapleInv
<1>2. MapleInv /\ [MapleNext]_mapleVars => MapleInv'
  <2> SUFFICES ASSUME MapleInv, [MapleNext]_mapleVars PROVE MapleInv'
    OBVIOUS
  <2> USE DEF MapleInv
  <2>1. CASE MapleDma
    <3>1. IsChain(chain) /\ chain \in Seq(Frames)
      BY <2>1 DEF MapleDma, MapleTypeOK, IsChain
    <3>2. /\ reply' = [s \in Slot |-> IF Asking(s) = {} THEN reply[s]
                                     ELSE Answer(chain[Max(Asking(s))])]
          /\ sampled' = pad /\ UNCHANGED <<chain, connected, pad>>
      BY <2>1 DEF MapleDma
    <3>3. ASSUME NEW k \in 1 .. Len(chain), chain[k].op = 0, k <= MaxFrames
          PROVE  chain[k].to \in Slot /\ reply'[chain[k].to] = Answer(chain[k])
      <4>1. chain[k] \in Frames
        BY <3>1
      <4>2. Asking(chain[k].to) = {k}
        BY <3>1, <3>3, OneAsksFor
      <4>3. k \in Nat /\ Max({k}) = k
        BY <3>1, MaxOfOne
      <4> QED
        BY <3>2, <4>1, <4>2, <4>3 DEF Frames
    <3>4. reply' \in [Slot -> Replies]
      <4>1. ASSUME NEW s \in Slot PROVE reply'[s] \in Replies
        <5>1. CASE Asking(s) = {}
          BY <3>2, <5>1 DEF MapleTypeOK
        <5>2. CASE Asking(s) # {}
          <6>1. PICK k \in 1 .. Len(chain) : chain[k].op = 0 /\ k <= MaxFrames /\ chain[k].to = s
            BY <5>2 DEF Asking, Examined
          <6> QED
            BY <3>1, <3>3, <6>1, AnswerIsRight
        <5> QED
          BY <5>1, <5>2
      <4> QED
        BY <3>2, <4>1
    <3>5. MapleTypeOK'
      BY <2>1, <3>4 DEF MapleDma, MapleTypeOK
    <3>6. ASSUME NEW k \in 1 .. Len(chain), chain[k].op = 0, k <= MaxFrames
          PROVE  Answers(reply'[chain[k].to], chain[k], pad)
      BY <3>1, <3>3, <3>6, AnswerIsRight
    <3>7. AllAnswered'
      <4> SUFFICES ASSUME NEW k \in 1 .. Len(chain'), chain'[k].op = 0, k <= MaxFrames
                   PROVE  Answers(reply[chain[k].to], chain[k], sampled)'
        BY Zenon DEF AllAnswered
      <4>1. Answers(reply'[chain[k].to], chain[k], pad)
        BY <3>2, <3>6
      <4> QED
        BY <3>2, <4>1 DEF Answers
    <3> QED
      BY <3>5, <3>7
  <2>2. ASSUME NEW c \in Chains, LayOut(c) PROVE MapleInv'
    BY <2>2 DEF LayOut, MapleTypeOK, AllAnswered, Replies
  <2>3. ASSUME NEW q \in Ports, NEW p \in Pads, Move(q, p) PROVE MapleInv'
    <3>1. MapleTypeOK'
      BY <2>3 DEF Move, MapleTypeOK
    <3>2. AllAnswered'
      BY <2>3 DEF Move, AllAnswered, Answers
    <3> QED
      BY <3>1, <3>2
  <2>4. CASE UNCHANGED mapleVars
    BY <2>4 DEF mapleVars, MapleTypeOK, AllAnswered, Answers
  <2> QED
    BY <2>1, <2>2, <2>3, <2>4 DEF MapleNext
<1> QED
  BY <1>1, <1>2, PTL DEF MapleSpec

(* Whatever frames a chain holds, when the interrupt is up each has the reply   *)
(* of its own port, as the pad was when the DMA ran: AllAnswered.           *)
THEOREM ChainIsAnswered == MapleSpec => []AllAnswered
BY MapleSafe, PTL DEF MapleInv

-----------------------------------------------------------------------------
(* The four side by side. *)

(* Each step of the bus is a step of one part, or of none. *)
THEOREM BusIsItsParts == BusSpec => MapSpec /\ TmuSpec /\ MapleSpec /\ NaomiSpec
<1>1. BusInit => MapInit /\ TmuInit /\ MapleInit /\ NaomiInit
  BY DEF BusInit
<1>2. [BusNext]_<<part, busVars>> =>
        /\ [MapNext]_mapVars /\ [TmuNext]_tmuVars
        /\ [MapleNext]_mapleVars /\ [NaomiNext]_naomiVars
  BY DEF BusNext, busVars
<1> QED
  BY <1>1, <1>2, PTL DEF BusSpec, MapSpec, TmuSpec, MapleSpec, NaomiSpec

(* Registers, counters, pads, replies and memory keep their types: the bus's    *)
(* type invariant, on a Dreamcast.                                          *)
THEOREM BusTypes == ASSUME Dreamcast PROVE BusSpec => []TypeOK
<1>1. MapInv /\ TmuInv /\ MapleInv /\ NaomiInv => TypeOK
  BY DEF MapInv, TmuInv, MapleInv, NaomiInv, TypeOK
<1> QED
  BY <1>1, BusIsItsParts, MapSafe, TmuSafe, MapleSafe, NaomiSafe, PTL
=============================================================================
