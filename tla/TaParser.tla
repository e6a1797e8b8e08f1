------------------------------ MODULE TaParser ------------------------------
(***************************************************************************)
(* The tile accelerator's parser (src/src/hal/pvr2_ta.c): packets of 32      *)
(* bytes go in, triangles in five lists come out, and an End Of List raises *)
(* a bit of SB_ISTNRM.                                                      *)
(*                                                                         *)
(* A packet is the fields of its control word and one value that stands     *)
(* for the other words.  A vertex is the tuple of values it was made from,   *)
(* so that a vertex made of the wrong halves is a different vertex.         *)
(* strip_count is kept as 0, 1, or 2 and 3 for "even" and "odd": the code    *)
(* asks no more of it.  Colours kept from headers and counters that are only *)
(* printed are left out, and what nothing reads again is forgotten: the first *)
(* half of a parameter once it is complete, a strip's vertices once it ends.  *)
(***************************************************************************)
EXTENDS Integers, Sequences

CONSTANTS
  Data,      \* what the words after the control word hold
  Capacity   \* PVR2_MAX_VERTICES: 300000

ASSUME TaAssumption == Capacity \in Nat /\ Capacity % 3 = 0

NumLists == 5
NoList == -1
OpaqueMod == 1
TransMod == 3

Paras == {"endOfList", "userClip", "polygon", "sprite", "vertex", "unknown"}

(* The bits of a control word the parser looks at, and the rest of the packet. *)
Packets == [para : Paras, list : 0 .. 7, volume : BOOLEAN, col : 0 .. 3,
            texture : BOOLEAN, offset : BOOLEAN, uv16 : BOOLEAN, eos : BOOLEAN,
            data : Data]

VARIABLES
  current,    \* current_list
  vertType,   \* vert_type; vert_size follows from it
  stripCount, \* strip_count
  prev,       \* strip_prev
  awaiting,   \* awaiting_second: "no", "header" or "vertex"
  pending,    \* pending, the first half
  lists,      \* lists[l].vertices up to its count
  openList,   \* open_list
  counted,    \* total_vertices > 0
  hasDrawn,   \* g_ta_has_drawn
  ends        \* End Of List bits set in SB_ISTNRM

headerVars == <<current, vertType, openList>>
stripVars == <<stripCount, prev>>
halfVars == <<awaiting, pending>>
taVars == <<headerVars, stripVars, halfVars, lists, counted, hasDrawn, ends>>

ZeroVertex == <<>>
NoVertices == <<ZeroVertex, ZeroVertex>>
NoPacket == <<>>

(* pvr2_ta_init *)
TaInit ==
  /\ current = NoList /\ vertType = 0 /\ openList = 0
  /\ stripCount = 0 /\ prev = NoVertices
  /\ awaiting = "no" /\ pending = NoPacket
  /\ lists = [l \in 0 .. NumLists - 1 |-> <<>>]
  /\ counted = FALSE /\ hasDrawn = FALSE /\ ends = {}

-----------------------------------------------------------------------------
(* ta_get_vert_type, by what the two tests before the last find *)
TwoVolumeType(w) ==
  IF ~w.texture THEN IF w.col = 0 THEN 9 ELSE 10
  ELSE (IF w.col = 0 THEN 11 ELSE 13) + (IF w.uv16 THEN 1 ELSE 0)

OneVolumeType(w) ==
  IF ~w.texture THEN (IF w.col > 2 THEN 2 ELSE w.col)
  ELSE 3 + 2 * (IF w.col > 2 THEN 2 ELSE w.col) + (IF w.uv16 THEN 1 ELSE 0)

VertTypeOf(w) ==
  IF w.list \in {OpaqueMod, TransMod} THEN 17
  ELSE IF w.para = "sprite" THEN (IF w.texture THEN 16 ELSE 15)
  ELSE IF w.volume THEN TwoVolumeType(w) ELSE OneVolumeType(w)

IsSprite(type) == type \in {15, 16}

(* ta_vert_size = 64, and ta_poly_size = 64 *)
LongVertex(type) == type \in {5, 6} \cup 11 .. 16
LongHeader(w) == w.col = 2 /\ (w.volume \/ (w.texture /\ w.offset))

-----------------------------------------------------------------------------
(* Mutant: the test of the count lets one vertex too many in. *)
FitOneMore(s) == IF Len(s) <= Capacity + 1 THEN s ELSE SubSeq(s, 1, Capacity + 1)

(* emit_triangle_vertex for each of vs: what does not fit is dropped, and so *)
(* is everything for a list type there is no list for.                     *)
FitIn(s) == IF Len(s) <= Capacity THEN s ELSE SubSeq(s, 1, Capacity)

Emit(vs) ==
  lists' = IF current \in 0 .. NumLists - 1
             THEN [lists EXCEPT ![current] = FitIn(@ \o vs)] ELSE lists

(* Mutant: every triangle of a strip is emitted in the same order. *)
StripTriangleUnturned(v) == <<prev[1], prev[2], v>>

(* The triangle a third or later vertex of a strip completes: its winding   *)
(* turns with every vertex.                                                *)
StripTriangle(v) ==
  IF stripCount = 2 THEN <<prev[1], prev[2], v>> ELSE <<prev[2], prev[1], v>>

(* process_strip_vertex *)
StripVertex(v, eos) ==
  /\ IF stripCount >= 2 THEN Emit(StripTriangle(v)) ELSE UNCHANGED lists
  /\ prev' = IF eos THEN NoVertices ELSE <<prev[2], v>>
  /\ stripCount' = IF eos THEN 0 ELSE IF stripCount = 3 THEN 2 ELSE stripCount + 1

(* The sprite case of ta_process_vertex: corners A, B, C, D as two triangles. *)
Corners(halves) == [k \in 1 .. 4 |-> <<k>> \o halves]
SpriteTriangles(q) == <<q[1], q[2], q[3], q[1], q[3], q[4]>>

(* ta_process_vertex on the values of one or two packets.  Type 5 is the one *)
(* strip vertex that uses its second half.                                 *)
VertexOf(halves) == IF vertType = 5 THEN halves ELSE <<halves[1]>>

ProcessVertex(halves, eos) ==
  /\ IF IsSprite(vertType)
       THEN Emit(SpriteTriangles(Corners(halves))) /\ UNCHANGED stripVars
       ELSE StripVertex(VertexOf(halves), eos)
  /\ counted' = TRUE
  /\ UNCHANGED <<headerVars, hasDrawn, ends>>

RestartStrip == stripCount' = 0 /\ prev' = NoVertices

(* ta_process_polygon *)
ProcessPolygon(w) ==
  /\ current' = w.list
  /\ vertType' = VertTypeOf(w)
  /\ RestartStrip
  /\ UNCHANGED <<lists, counted, hasDrawn, ends>>

-----------------------------------------------------------------------------
(* pvr2_ta_write: the second half of a parameter completes it, whatever it  *)
(* says; any other packet goes to ta_process_packet.                       *)
SecondHalf(p) ==
  /\ awaiting # "no"
  /\ awaiting' = "no" /\ pending' = NoPacket
  /\ \/ awaiting = "header" /\ ProcessPolygon(pending) /\ UNCHANGED openList
     \/ awaiting = "vertex" /\ ProcessVertex(<<pending.data, p.data>>, pending.eos)

FirstHalf(p, kind) ==
  /\ awaiting' = kind /\ pending' = p
  /\ UNCHANGED <<current, vertType, stripVars, lists, counted, hasDrawn, ends>>

Header(p) ==
  /\ p.para \in {"polygon", "sprite"}
  /\ openList' = p.list
  /\ IF LongHeader(p) THEN FirstHalf(p, "header")
                      ELSE ProcessPolygon(p) /\ UNCHANGED halfVars

Vertex(p) ==
  /\ p.para = "vertex"
  /\ IF LongVertex(vertType) THEN FirstHalf(p, "vertex") /\ UNCHANGED openList
     ELSE ProcessVertex(<<p.data>>, p.eos) /\ UNCHANGED halfVars

ShiftedEolBit(l) == <<7, 8, 9, 10, 11, 12, 13, 14>>[l + 1]  \* mutant: bits in a row

(* The bit of the End Of List interrupt of a list type. *)
EolBit(l) == <<7, 8, 9, 10, 21, 21, 21, 21>>[l + 1]

EndOfList(p) ==
  /\ p.para = "endOfList"
  /\ ends' = ends \cup {EolBit(openList)}
  /\ RestartStrip
  /\ UNCHANGED <<headerVars, halfVars, lists, counted, hasDrawn>>

Ignored(p) ==
  /\ p.para \in {"userClip", "unknown"}
  /\ UNCHANGED taVars

TaWrite(p) ==
  \/ SecondHalf(p)
  \/ awaiting = "no" /\ (Header(p) \/ Vertex(p) \/ EndOfList(p) \/ Ignored(p))

-----------------------------------------------------------------------------
(* Mutant: a reset in the middle of a parameter still waits for its half. *)
ResetKeepsHalf ==
  /\ hasDrawn' = (hasDrawn \/ counted) /\ counted' = FALSE
  /\ lists' = [l \in 0 .. NumLists - 1 |-> <<>>]
  /\ RestartStrip /\ current' = NoList
  /\ UNCHANGED <<vertType, openList, halfVars>>

(* Mutant: the counters go before they are looked at. *)
ResetForgetsDrawn ==
  /\ counted' = FALSE
  /\ lists' = [l \in 0 .. NumLists - 1 |-> <<>>]
  /\ RestartStrip /\ current' = NoList
  /\ awaiting' = "no" /\ pending' = NoPacket
  /\ UNCHANGED <<vertType, openList, hasDrawn>>

(* pvr2_ta_reset: the vertex type and the open list stay as they are. *)
TaReset ==
  /\ hasDrawn' = (hasDrawn \/ counted) /\ counted' = FALSE
  /\ lists' = [l \in 0 .. NumLists - 1 |-> <<>>]
  /\ RestartStrip /\ current' = NoList
  /\ awaiting' = "no" /\ pending' = NoPacket
  /\ UNCHANGED <<vertType, openList>>
=============================================================================
