---------------------------- MODULE TaFeed_proofs ----------------------------
(***************************************************************************)
(* Proofs about the tile accelerator between the game and the window         *)
(* (module TaFeed), for every set of packets a game may send, every length   *)
(* of a packet, every capacity of a list and every number of vertices.      *)
(*                                                                         *)
(* The inductive invariant has five parts: the words of a packet, the halves *)
(* of a parameter with what the parser remembers of the header, the lists,   *)
(* the end bits, and the window.  Only the second needs another: whether a   *)
(* vertex is one packet or two is decided by the game from the header it     *)
(* sent, and by the parser from the vertex type it kept.                    *)
(*                                                                         *)
(* The refinement of TriangleLists needs two facts more (SyncInv): a list    *)
(* holds whole triangles, and what the parser remembers of a strip is the    *)
(* end of the game's strip.                                                *)
(***************************************************************************)
EXTENDS TaFeed, SequenceTheorems, TLAPS

Halves == {<<d, e>> : d, e \in Data}
StripEntries == StripVertices \cup {ZeroVertex}
Entries == StripEntries \cup {Corners(h)[k] : h \in Halves, k \in 1 .. 4}

(* As many words have come as the game has written. *)
WordInv == pos \in 0 .. Words - 1 /\ word = pos

(* The parser is where the game is, and remembers the header the game means. *)
HalfInv ==
  /\ half \in {"no", "header", "vertex"} /\ awaiting = half
  /\ half = "no" => pending = NoPacket
  /\ half = "header" => pending = header /\ header \in Sent
  /\ half = "vertex" => pending = first /\ first \in Sent /\ header # NoPacket
  /\ header # NoPacket =>
       /\ header \in Sent /\ openList = header.list
       /\ half # "header" => vertType = VertTypeOf(header)
  /\ current \in {NoList} \cup 0 .. 7 /\ openList \in 0 .. 7 /\ vertType \in 0 .. 17

(* What a strip remembers, and the bound on its vertices. *)
StripInv ==
  /\ stripCount \in 0 .. 3 /\ prev \in StripEntries \X StripEntries
  /\ verts \in 0 .. MaxVerts
  /\ half = "vertex" => verts < MaxVerts

(* No list outgrows its buffer, and one that holds a vertex has been counted. *)
ListInv ==
  /\ lists \in [ListTypes -> Seq(Entries)]
  /\ counted \in BOOLEAN /\ hasDrawn \in BOOLEAN
  /\ \A l \in ListTypes : Len(lists[l]) <= Capacity /\ (lists[l] # <<>> => counted)

EndInv == closed \subseteq 0 .. 7 /\ EndsAreOfClosedLists

WindowInv ==
  /\ bound \in {"vbo", "quad"} /\ quad \in {"none", "quad"}
  /\ window \in {"clear", "geometry", "framebuffer"}
  /\ window = "geometry" => hasDrawn

GameInv == HalfInv /\ StripInv /\ ListInv /\ EndInv
FeedInv == WordInv /\ GameInv /\ WindowInv

-----------------------------------------------------------------------------
(* The operators on packets and lists. *)

(* A packet has the fields of its control word. *)
LEMMA PacketFields ==
  ASSUME NEW p \in Sent
  PROVE  /\ p.para \in Paras /\ p.list \in 0 .. 7 /\ p.col \in 0 .. 3
         /\ p.data \in Data /\ p.eos \in BOOLEAN
BY FeedAssumption DEF Packets

LEMMA TypeOfHeader == ASSUME NEW p \in Sent PROVE VertTypeOf(p) \in 0 .. 17
BY PacketFields DEF VertTypeOf, TwoVolumeType, OneVolumeType

(* The parser's bit for an open list is the one the game expects. *)
LEMMA BitOfList == ASSUME NEW l \in 0 .. 7 PROVE EolBit(l) = EndBit[l]
<1>1. l \in {0, 1, 2, 3, 4, 5, 6, 7}
  OBVIOUS
<1>2. CASE l \in {0, 1, 2, 3}
  BY <1>2 DEF EolBit, EndBit
<1>3. CASE l \in {4, 5, 6, 7}
  BY <1>3 DEF EolBit, EndBit
<1> QED
  BY <1>1, <1>2, <1>3

(* The index of the next word stays within a packet. *)
LEMMA NextWord == ASSUME NEW n \in 0 .. Words - 1 PROVE (n + 1) % Words \in 0 .. Words - 1
BY FeedAssumption, SMT

(* A list that takes vertices keeps its type and stays within its buffer. *)
LEMMA FitInFits ==
  ASSUME NEW s \in Seq(Entries)
  PROVE  FitIn(s) \in Seq(Entries) /\ Len(FitIn(s)) <= Capacity
<1>1. Len(s) \in Nat /\ Capacity \in Nat
  BY LenProperties, TaAssumption
<1>2. CASE Len(s) <= Capacity
  BY <1>2 DEF FitIn
<1>3. CASE ~(Len(s) <= Capacity)
  <2>1. \A i \in 1 .. Capacity : s[i] \in Entries
    BY <1>1, <1>3, ElementOfSeq
  <2>2. /\ SubSeq(s, 1, Capacity) \in Seq(Entries)
        /\ Len(SubSeq(s, 1, Capacity)) = IF 1 <= Capacity THEN Capacity - 1 + 1 ELSE 0
    BY <1>1, <2>1, SubSeqProperties
  <2> QED
    BY <1>1, <1>3, <2>2 DEF FitIn
<1> QED
  BY <1>2, <1>3

(* Emitting vertices into the current list, whichever that is. *)
LEMMA EmitKeepsLists ==
  ASSUME ListInv, NEW vs \in Seq(Entries), Emit(vs), counted' = TRUE, UNCHANGED hasDrawn
  PROVE  ListInv'
<1>1. CASE current \in 0 .. NumLists - 1
  <2> DEFINE new == FitIn(lists[current] \o vs)
  <2>1. current \in ListTypes
    BY <1>1 DEF ListTypes
  <2>2. lists[current] \o vs \in Seq(Entries)
    BY <2>1, ConcatProperties DEF ListInv
  <2>3. new \in Seq(Entries) /\ Len(new) <= Capacity
    BY <2>2, FitInFits
  <2>4. lists' = [lists EXCEPT ![current] = new]
    BY <1>1 DEF Emit
  <2> HIDE DEF new
  <2> QED
    BY <2>1, <2>3, <2>4 DEF ListInv
<1>2. CASE current \notin 0 .. NumLists - 1
  BY <1>2 DEF Emit, ListInv
<1> QED
  BY <1>1, <1>2

(* A vertex, made of one packet or two, leaves the lists and the strip typed. *)
LEMMA VertexKeepsLists ==
  ASSUME ListInv, StripInv, NEW halves, NEW eos \in BOOLEAN, ProcessVertex(halves, eos),
         halves \in Halves \/ (~LongVertex(vertType) /\ \E d \in Data : halves = <<d>>)
  PROVE  /\ ListInv' /\ stripCount' \in 0 .. 3 /\ prev' \in StripEntries \X StripEntries
         /\ UNCHANGED <<current, vertType, openList, ends, hasDrawn>>
<1>1. counted' = TRUE /\ UNCHANGED <<current, vertType, openList, ends, hasDrawn>>
  BY DEF ProcessVertex, headerVars
<1>2. CASE IsSprite(vertType)
  <2> DEFINE q == Corners(halves)
  <2>1. halves \in Halves
    BY <1>2 DEF IsSprite, LongVertex
  <2>2. \A k \in 1 .. 4 : q[k] \in Entries
    BY <2>1 DEF Entries
  <2>3. Emit(SpriteTriangles(q)) /\ UNCHANGED <<stripCount, prev>>
    BY <1>2 DEF ProcessVertex, stripVars
  <2> HIDE DEF q
  <2>4. SpriteTriangles(q) \in Seq(Entries)
    BY <2>2 DEF SpriteTriangles
  <2>5. ListInv'
    BY <1>1, <2>3, <2>4, EmitKeepsLists
  <2> QED
    BY <1>1, <2>3, <2>5 DEF StripInv
<1>3. CASE ~IsSprite(vertType)
  <2> DEFINE v == VertexOf(halves)
  <2>1. v \in StripEntries
    <3>1. CASE halves \in Halves
      BY <3>1 DEF Halves, VertexOf, StripEntries, StripVertices
    <3>2. ASSUME NEW d \in Data, halves = <<d>>, ~LongVertex(vertType) PROVE v \in StripEntries
      BY <3>2 DEF LongVertex, VertexOf, StripEntries, StripVertices
    <3> QED
      BY <3>1, <3>2
  <2>2. StripVertex(v, eos)
    BY <1>3 DEF ProcessVertex
  <2> HIDE DEF v
  <2>3. prev[1] \in StripEntries /\ prev[2] \in StripEntries
    BY DEF StripInv
  <2>4. ListInv'
    <3>1. CASE stripCount >= 2
      <4>1. StripTriangle(v) \in Seq(Entries)
        BY <2>1, <2>3 DEF StripTriangle, Entries
      <4>2. Emit(StripTriangle(v))
        BY <2>2, <3>1 DEF StripVertex
      <4> QED
        BY <1>1, <4>1, <4>2, EmitKeepsLists
    <3>2. CASE ~(stripCount >= 2)
      <4>1. lists' = lists
        BY <2>2, <3>2 DEF StripVertex
      <4> QED
        BY <1>1, <4>1 DEF ListInv
    <3> QED
      BY <3>1, <3>2
  <2>5. prev' \in StripEntries \X StripEntries /\ stripCount' \in 0 .. 3
    <3>1. prev' = (IF eos THEN NoVertices ELSE <<prev[2], v>>)
      BY <2>2 DEF StripVertex
    <3>2. NoVertices \in StripEntries \X StripEntries
      BY DEF NoVertices, StripEntries
    <3>3. stripCount' \in 0 .. 3
      BY <2>2 DEF StripVertex, StripInv
    <3> QED
      BY <2>1, <2>3, <3>1, <3>2, <3>3
  <2> QED
    BY <1>1, <2>4, <2>5
<1> QED
  BY <1>2, <1>3

(* The lists stay as they are. *)
LEMMA ListsStay ==
  ASSUME ListInv, UNCHANGED <<lists, counted, hasDrawn>>
  PROVE  ListInv'
BY DEF ListInv

(* A restarted strip is typed. *)
LEMMA StripRestarts ==
  ASSUME RestartStrip
  PROVE  stripCount' \in 0 .. 3 /\ prev' \in StripEntries \X StripEntries
BY DEF RestartStrip, NoVertices, StripEntries

-----------------------------------------------------------------------------
(* One packet, seen by the game and by the parser. *)

LEMMA PacketKeeps ==
  ASSUME GameInv, NEW p \in Sent, Legal(p), TaWrite(p), GameSends(p)
  PROVE  GameInv' /\ hasDrawn' = hasDrawn
<1> USE DEF GameInv
<1>1. CASE half = "vertex"
  <2>1. awaiting = "vertex" /\ pending = first /\ first \in Sent /\ header # NoPacket
    BY <1>1 DEF HalfInv
  <2>2. /\ GameVertex(<<first.data, p.data>>, first.eos)
        /\ half' = "no" /\ header' = header /\ closed' = closed
    BY <1>1 DEF GameSends
  <2>3. /\ awaiting' = "no" /\ pending' = NoPacket
        /\ ProcessVertex(<<pending.data, p.data>>, pending.eos)
    BY <2>1 DEF TaWrite, SecondHalf
  <2>4. <<pending.data, p.data>> \in Halves /\ pending.eos \in BOOLEAN
    BY <2>1, PacketFields DEF Halves
  <2>5. /\ ListInv' /\ stripCount' \in 0 .. 3 /\ prev' \in StripEntries \X StripEntries
        /\ UNCHANGED <<current, vertType, openList, ends, hasDrawn>>
    BY <2>3, <2>4, VertexKeepsLists
  <2>6. verts' = verts + 1 /\ verts < MaxVerts
    BY <1>1, <2>2 DEF GameVertex, StripInv
  <2>7. StripInv'
    BY <2>2, <2>5, <2>6, FeedAssumption DEF StripInv
  <2>8. HalfInv'
    BY <1>1, <2>2, <2>3, <2>5 DEF HalfInv
  <2>9. EndInv'
    BY <2>2, <2>5 DEF EndInv, EndsAreOfClosedLists
  <2> QED
    BY <2>5, <2>7, <2>8, <2>9
<1>2. CASE half = "header"
  <2>1. awaiting = "header" /\ pending = header /\ header \in Sent
    BY <1>2 DEF HalfInv
  <2>2. half' = "no" /\ UNCHANGED <<header, closed, verts>>
    BY <1>2 DEF GameSends
  <2>3. /\ awaiting' = "no" /\ pending' = NoPacket
        /\ ProcessPolygon(pending) /\ UNCHANGED openList
    BY <2>1 DEF TaWrite, SecondHalf
  <2>4. /\ current' = header.list /\ vertType' = VertTypeOf(header) /\ RestartStrip
        /\ UNCHANGED <<lists, counted, hasDrawn, ends>>
    BY <2>1, <2>3 DEF ProcessPolygon
  <2>5. header.list \in 0 .. 7 /\ VertTypeOf(header) \in 0 .. 17
    BY <2>1, PacketFields, TypeOfHeader
  <2>6. HalfInv'
    BY <2>1, <2>2, <2>3, <2>4, <2>5 DEF HalfInv
  <2>7. StripInv'
    BY <2>2, <2>4, StripRestarts DEF StripInv
  <2>8. ListInv' /\ EndInv'
    BY <2>2, <2>4, ListsStay DEF EndInv, EndsAreOfClosedLists
  <2> QED
    BY <2>4, <2>6, <2>7, <2>8
<1>3. CASE half = "no" /\ IsHeader(p)
  <2>1. awaiting = "no" /\ pending = NoPacket
    BY <1>3 DEF HalfInv
  <2>2. p.para \in {"polygon", "sprite"}
    BY <1>3 DEF IsHeader
  <2>3. /\ header' = p /\ half' = (IF LongHeader(p) THEN "header" ELSE "no")
        /\ UNCHANGED <<closed, verts>>
    BY <1>3, <2>2 DEF GameSends
  <2>4. Header(p)
    BY <2>1, <2>2 DEF TaWrite, SecondHalf, Vertex, EndOfList, Ignored
  <2>5. p.list \in 0 .. 7 /\ VertTypeOf(p) \in 0 .. 17
    BY PacketFields, TypeOfHeader
  <2>6. CASE LongHeader(p)
    <3>1. /\ awaiting' = "header" /\ pending' = p /\ openList' = p.list
          /\ UNCHANGED <<current, vertType, stripCount, prev, lists, counted, hasDrawn, ends>>
      BY <2>4, <2>6 DEF Header, FirstHalf, stripVars
    <3>2. HalfInv'
      BY <2>3, <2>5, <2>6, <3>1 DEF HalfInv
    <3>3. StripInv' /\ ListInv' /\ EndInv'
      BY <2>3, <2>6, <3>1, ListsStay DEF StripInv, EndInv, EndsAreOfClosedLists
    <3> QED
      BY <3>1, <3>2, <3>3
  <2>7. CASE ~LongHeader(p)
    <3>1. /\ UNCHANGED <<awaiting, pending>> /\ openList' = p.list
          /\ current' = p.list /\ vertType' = VertTypeOf(p) /\ RestartStrip
          /\ UNCHANGED <<lists, counted, hasDrawn, ends>>
      BY <2>4, <2>7 DEF Header, ProcessPolygon, halfVars
    <3>2. HalfInv'
      BY <2>1, <2>3, <2>5, <2>7, <3>1 DEF HalfInv
    <3>3. StripInv' /\ ListInv' /\ EndInv'
      BY <2>3, <2>7, <3>1, ListsStay, StripRestarts DEF StripInv, EndInv, EndsAreOfClosedLists
    <3> QED
      BY <3>1, <3>2, <3>3
  <2> QED
    BY <2>6, <2>7
<1>4. CASE half = "no" /\ p.para = "endOfList"
  <2>1. awaiting = "no" /\ pending = NoPacket /\ header # NoPacket
    BY <1>4 DEF HalfInv, Legal, IsHeader
  <2>2. header \in Sent /\ openList = header.list /\ header.list \in 0 .. 7
    BY <2>1, PacketFields DEF HalfInv
  <2>3. closed' = closed \cup {header.list} /\ header' = NoPacket /\ UNCHANGED <<half, verts>>
    BY <1>4 DEF GameSends, IsHeader
  <2>4. EndOfList(p)
    BY <1>4, <2>1 DEF TaWrite, SecondHalf, Header, Vertex, Ignored
  <2>5. /\ ends' = ends \cup {EolBit(openList)} /\ RestartStrip
        /\ UNCHANGED <<current, vertType, openList, awaiting, pending, lists, counted, hasDrawn>>
    BY <2>4 DEF EndOfList, headerVars, halfVars
  <2>6. HalfInv'
    BY <1>4, <2>1, <2>3, <2>5 DEF HalfInv
  <2>7. StripInv'
    BY <1>4, <2>3, <2>5, StripRestarts DEF StripInv
  <2>8. EndInv'
    BY <2>2, <2>3, <2>5, BitOfList DEF EndInv, EndsAreOfClosedLists
  <2>9. ListInv'
    BY <2>5, ListsStay
  <2> QED
    BY <2>5, <2>6, <2>7, <2>8, <2>9
<1>5. CASE half = "no" /\ p.para = "vertex"
  <2>1. awaiting = "no" /\ header # NoPacket /\ verts < MaxVerts
    BY <1>5 DEF HalfInv, Legal, IsHeader
  <2>2. vertType = VertTypeOf(header)
    BY <1>5, <2>1 DEF HalfInv
  <2>3. Vertex(p)
    BY <1>5, <2>1 DEF TaWrite, SecondHalf, Header, EndOfList, Ignored
  <2>4. CASE LongVertex(vertType)
    <3>1. half' = "vertex" /\ first' = p /\ UNCHANGED <<header, closed, verts>>
      BY <1>5, <2>2, <2>4 DEF GameSends, IsHeader
    <3>2. /\ awaiting' = "vertex" /\ pending' = p
          /\ UNCHANGED <<current, vertType, openList, stripCount, prev, lists, counted, hasDrawn,
                         ends>>
      BY <2>3, <2>4 DEF Vertex, FirstHalf, stripVars
    <3>3. HalfInv'
      BY <1>5, <2>1, <3>1, <3>2 DEF HalfInv
    <3>4. StripInv' /\ ListInv' /\ EndInv'
      BY <2>1, <3>1, <3>2, ListsStay DEF StripInv, EndInv, EndsAreOfClosedLists
    <3> QED
      BY <3>2, <3>3, <3>4
  <2>5. CASE ~LongVertex(vertType)
    <3>1. GameVertex(<<p.data>>, p.eos) /\ UNCHANGED <<header, half, closed>>
      BY <1>5, <2>2, <2>5 DEF GameSends, IsHeader
    <3>2. ProcessVertex(<<p.data>>, p.eos) /\ UNCHANGED <<awaiting, pending>>
      BY <2>3, <2>5 DEF Vertex, halfVars
    <3>3. p.data \in Data /\ p.eos \in BOOLEAN
      BY PacketFields
    <3>4. /\ ListInv' /\ stripCount' \in 0 .. 3 /\ prev' \in StripEntries \X StripEntries
          /\ UNCHANGED <<current, vertType, openList, ends, hasDrawn>>
      BY <2>5, <3>2, <3>3, VertexKeepsLists
    <3>5. verts' = verts + 1
      BY <3>1 DEF GameVertex
    <3>6. StripInv'
      BY <1>5, <2>1, <3>1, <3>4, <3>5, FeedAssumption DEF StripInv
    <3>7. HalfInv'
      BY <1>5, <3>1, <3>2, <3>4 DEF HalfInv
    <3>8. EndInv'
      BY <3>1, <3>4 DEF EndInv, EndsAreOfClosedLists
    <3> QED
      BY <3>4, <3>6, <3>7, <3>8
  <2> QED
    BY <2>4, <2>5
<1>6. CASE half = "no" /\ p.para \in {"userClip", "unknown"}
  <2>1. awaiting = "no"
    BY <1>6 DEF HalfInv
  <2>2. UNCHANGED gameVars
    BY <1>6 DEF GameSends, IsHeader
  <2>3. UNCHANGED taVars
    BY <1>6, <2>1 DEF TaWrite, SecondHalf, Header, Vertex, EndOfList, Ignored
  <2> QED
    BY <2>2, <2>3, ListsStay DEF taVars, headerVars, stripVars, halfVars, gameVars, HalfInv,
       StripInv, EndInv, EndsAreOfClosedLists
<1> QED
  <2>1. half \in {"no", "header", "vertex"} /\ p.para \in Paras
    BY PacketFields DEF HalfInv
  <2> QED
    BY <1>1, <1>2, <1>3, <1>4, <1>5, <1>6, <2>1 DEF Paras, IsHeader

-----------------------------------------------------------------------------
(* The other handlers. *)

(* Of the reset and the game's restart only the end bits remain. *)
LEMMA ResetKeeps ==
  ASSUME GameInv, TaReset, GameRestarts, UNCHANGED ends
  PROVE  GameInv'
<1> USE DEF GameInv
<1>1. /\ hasDrawn' = (hasDrawn \/ counted) /\ counted' = FALSE
      /\ lists' = [l \in 0 .. NumLists - 1 |-> <<>>]
      /\ RestartStrip /\ current' = NoList
      /\ awaiting' = "no" /\ pending' = NoPacket /\ UNCHANGED <<vertType, openList>>
  BY DEF TaReset
<1>2. header' = NoPacket /\ half' = "no" /\ verts' = 0 /\ closed' = closed
  BY DEF GameRestarts
<1>3. HalfInv'
  BY <1>1, <1>2 DEF HalfInv
<1>4. StripInv'
  BY <1>1, <1>2, StripRestarts, FeedAssumption DEF StripInv
<1>5. ListInv'
  <2>1. \A l \in ListTypes : lists'[l] = <<>>
    BY <1>1 DEF ListTypes
  <2>2. <<>> \in Seq(Entries) /\ Len(<<>>) = 0
    BY EmptySeq
  <2>3. lists' \in [ListTypes -> Seq(Entries)]
    BY <1>1, <2>2 DEF ListTypes
  <2>4. counted' \in BOOLEAN /\ hasDrawn' \in BOOLEAN
    BY <1>1 DEF ListInv
  <2> QED
    <3>1. ASSUME NEW l \in ListTypes
          PROVE  Len(lists'[l]) <= Capacity /\ (lists'[l] # <<>> => counted')
      BY <2>1, <2>2, TaAssumption
    <3> QED
      BY <2>3, <2>4, <3>1 DEF ListInv
<1>6. EndInv'
  BY <1>2 DEF EndInv, EndsAreOfClosedLists
<1> QED
  BY <1>3, <1>4, <1>5, <1>6

(* Nothing but the window changes. *)
LEMMA GameStays ==
  ASSUME GameInv, UNCHANGED <<taVars, gameVars>>
  PROVE  GameInv' /\ hasDrawn' = hasDrawn
BY ListsStay DEF GameInv, taVars, headerVars, stripVars, halfVars, gameVars, HalfInv, StripInv,
   EndInv, EndsAreOfClosedLists

(* The framebuffer's quad keeps its floats, whichever presenter runs. *)
LEMMA PresentKeepsQuad ==
  ASSUME WindowInv, ~hasDrawn, hasDrawn' = hasDrawn, NEW blank \in BOOLEAN, Present(blank)
  PROVE  WindowInv'
BY DEF WindowInv, Present, FbInit

LEMMA RenderKeepsQuad ==
  ASSUME WindowInv, ListInv, RenderFrame(lists), hasDrawn' = (hasDrawn \/ counted)
  PROVE  WindowInv' /\ window' # "framebuffer"
<1>1. bound' = "vbo" /\ quad' = quad /\ window' \in {"clear", "geometry"}
  BY DEF RenderFrame, BindsOwn
<1>2. ASSUME window' = "geometry" PROVE counted
  <2>1. Drawn(lists) # {}
    BY <1>2 DEF RenderFrame
  <2> QED
    BY <2>1 DEF Drawn, ListInv, ListTypes, NumLists
<1> QED
  BY <1>1, <1>2 DEF WindowInv

-----------------------------------------------------------------------------
(* The inductive invariant holds: words, halves, strips, lists, end bits and the *)
(* window agree with what the game sent (pvr2_ta.c, pvr2_render.c).         *)
THEOREM FeedSafe == Spec => []FeedInv
<1>1. Init => FeedInv
  <2> SUFFICES ASSUME Init PROVE FeedInv
    OBVIOUS
  <2> USE DEF Init, TaInit, DisplayInit
  <2>1. WordInv /\ WindowInv
    BY FeedAssumption DEF WordInv, WindowInv
  <2>2. HalfInv
    BY DEF HalfInv
  <2>3. StripInv
    BY FeedAssumption DEF StripInv, NoVertices, StripEntries
  <2>4. ListInv
    <3>1. <<>> \in Seq(Entries) /\ Len(<<>>) = 0
      BY EmptySeq
    <3>2. \A l \in ListTypes : lists[l] = <<>>
      BY DEF ListTypes
    <3>3. lists \in [ListTypes -> Seq(Entries)]
      BY <3>1 DEF ListTypes
    <3>4. ASSUME NEW l \in ListTypes
          PROVE  Len(lists[l]) <= Capacity /\ (lists[l] # <<>> => counted)
      BY ONLY <3>1, <3>2, <3>4, TaAssumption
    <3> QED
      BY <3>3, <3>4 DEF ListInv
  <2>5. EndInv
    BY DEF EndInv, EndsAreOfClosedLists
  <2> QED
    BY <2>1, <2>2, <2>3, <2>4, <2>5 DEF FeedInv, GameInv
<1>2. FeedInv /\ [Next]_vars => FeedInv'
  <2> SUFFICES ASSUME FeedInv, [Next]_vars PROVE FeedInv'
    OBVIOUS
  <2> USE DEF FeedInv
  <2>1. CASE Packet
    <3>1. GameInv' /\ hasDrawn' = hasDrawn
      BY <2>1, PacketKeeps DEF Packet
    <3>2. UNCHANGED <<displayVars, feedVars>>
      BY <2>1 DEF Packet
    <3> QED
      BY <3>1, <3>2 DEF displayVars, feedVars, WordInv, WindowInv
  <2>2. CASE Word
    <3>1. pos' = (pos + 1) % Words /\ word' = pos' /\ WordInv'
      BY <2>2, NextWord DEF Word, NextPos, WordInv
    <3>2. GameInv' /\ hasDrawn' = hasDrawn
      <4>1. CASE pos' # 0 /\ word' # 0
        BY <2>2, <4>1, GameStays DEF Word
      <4>2. CASE pos' = 0 /\ word' = 0
        <5>1. PICK p \in Sent : Legal(p) /\ TaWrite(p) /\ GameSends(p)
          BY <2>2, <4>2 DEF Word
        <5> QED
          BY <5>1, PacketKeeps
      <4> QED
        BY <3>1, <4>1, <4>2
    <3>3. UNCHANGED displayVars
      BY <2>2 DEF Word
    <3> QED
      BY <3>1, <3>2, <3>3 DEF displayVars, WindowInv
  <2>3. CASE ListInit
    <3>1. GameInv' /\ hasDrawn' = (hasDrawn \/ counted)
      BY <2>3, ResetKeeps DEF ListInit, TaReset
    <3>2. pos' = 0 /\ word' = 0 /\ UNCHANGED displayVars
      BY <2>3 DEF ListInit
    <3>3. hasDrawn => hasDrawn'
      BY <3>1
    <3>4. WindowInv'
      BY <3>2, <3>3 DEF displayVars, WindowInv
    <3>5. WordInv'
      BY <3>2, FeedAssumption DEF WordInv
    <3> QED
      BY <3>1, <3>4, <3>5
  <2>4. CASE StartRender
    <3>1. GameInv' /\ hasDrawn' = (hasDrawn \/ counted)
      BY <2>4, ResetKeeps DEF StartRender, TaReset
    <3>2. WindowInv'
      BY <2>4, <3>1, RenderKeepsQuad DEF StartRender, GameInv
    <3> QED
      BY <2>4, <3>1, <3>2 DEF StartRender, feedVars, WordInv
  <2>5. CASE VBlank
    <3>1. GameInv' /\ hasDrawn' = hasDrawn /\ WordInv'
      BY <2>5, GameStays DEF VBlank, feedVars, WordInv
    <3>2. CASE hasDrawn
      BY <2>5, <3>1, <3>2 DEF VBlank, displayVars, WindowInv
    <3>3. CASE ~hasDrawn
      BY <2>5, <3>1, <3>3, PresentKeepsQuad DEF VBlank
    <3> QED
      BY <3>1, <3>2, <3>3
  <2>6. CASE Ack
    <3>1. /\ ends' = {} /\ closed' = {}
          /\ UNCHANGED <<current, vertType, openList, stripCount, prev, awaiting, pending,
                         lists, counted, hasDrawn>>
          /\ UNCHANGED <<bound, quad, window, pos, word>>
          /\ UNCHANGED <<header, half, first, verts>>
      BY <2>6 DEF Ack, headerVars, stripVars, halfVars, displayVars, feedVars
    <3>2. HalfInv' /\ StripInv'
      BY <3>1 DEF GameInv, HalfInv, StripInv
    <3>3. ListInv'
      BY <3>1, ListsStay DEF GameInv
    <3>4. EndInv'
      BY <3>1 DEF EndInv, EndsAreOfClosedLists
    <3>5. WordInv' /\ WindowInv'
      BY <3>1 DEF WordInv, WindowInv
    <3> QED
      BY <3>2, <3>3, <3>4, <3>5 DEF GameInv
  <2>7. CASE UNCHANGED vars
    <3>1. UNCHANGED <<taVars, gameVars>> /\ UNCHANGED <<displayVars, feedVars>>
      BY <2>7 DEF vars
    <3>2. GameInv' /\ hasDrawn' = hasDrawn
      BY <3>1, GameStays
    <3> QED
      BY <3>1, <3>2 DEF feedVars, displayVars, WordInv, WindowInv
  <2> QED
    BY <2>1, <2>2, <2>3, <2>4, <2>5, <2>6, <2>7 DEF Next
<1> QED
  BY <1>1, <1>2, PTL DEF Spec

(* The parser agrees with the game on where it is, whatever path the packets *)
(* take (ParserInStep: pvr2_ta_write, ta_fifo, pvr2_ta_reset).              *)
THEOREM ParserStaysInStep == Spec => []ParserInStep
<1>1. FeedInv => ParserInStep
  BY DEF FeedInv, GameInv, WordInv, HalfInv, ParserInStep
<1> QED
  BY <1>1, FeedSafe, PTL

(* An End Of List raises the bit of the list the game closed, although the   *)
(* packet names none (EndsAreOfClosedLists: ta_process_packet).             *)
THEOREM EndsNameTheList == Spec => []EndsAreOfClosedLists
<1>1. FeedInv => EndsAreOfClosedLists
  BY DEF FeedInv, GameInv, EndInv
<1> QED
  BY <1>1, FeedSafe, PTL

(* The geometry never lands in the framebuffer's quad (QuadIntact:          *)
(* pvr2_render_frame, fb_init).                                            *)
THEOREM QuadStaysIntact == Spec => []QuadIntact
<1>1. FeedInv => QuadIntact
  BY DEF FeedInv, WindowInv, QuadIntact
<1> QED
  BY <1>1, FeedSafe, PTL

(* Once the window shows geometry the vertical blank leaves it alone         *)
(* (PictureStays: pvr2_ta_reset, dc_pvr_wait_vblank).                       *)
THEOREM GeometryStays == Spec => PictureStays
<1>1. FeedInv /\ [Next]_vars => [window = "geometry" => window' # "framebuffer"]_vars
  <2> SUFFICES ASSUME FeedInv, Next, window = "geometry" PROVE window' # "framebuffer"
    OBVIOUS
  <2>1. hasDrawn
    BY DEF FeedInv, WindowInv
  <2>2. CASE UNCHANGED displayVars
    BY <2>2 DEF displayVars
  <2>3. CASE StartRender
    BY <2>3, RenderKeepsQuad DEF StartRender, TaReset, FeedInv, GameInv
  <2>4. CASE VBlank
    BY <2>1, <2>2, <2>4 DEF VBlank
  <2> QED
    BY <2>2, <2>3, <2>4 DEF Next, Packet, Word, ListInit, Ack
<1> QED
  BY <1>1, FeedSafe, PTL DEF Spec, PictureStays

(* The types, with the capacity of the lists among them (TypeOK: the bound   *)
(* of emit_triangle_vertex).                                               *)
THEOREM FeedTypes == Spec => []TypeOK
<1>1. FeedInv => TypeOK
  <2> SUFFICES ASSUME FeedInv PROVE TypeOK
    OBVIOUS
  <2> USE DEF FeedInv, GameInv
  <2>1. ends \subseteq {7, 8, 9, 10, 21}
    <3>1. ASSUME NEW l \in 0 .. 7 PROVE EndBit[l] \in {7, 8, 9, 10, 21}
      BY DEF EndBit
    <3> QED
      BY <3>1 DEF EndInv, EndsAreOfClosedLists
  <2>2. pending \in Sent \cup {NoPacket} /\ header \in Sent \cup {NoPacket}
    BY DEF HalfInv
  <2>3. prev \in (StripVertices \cup {ZeroVertex}) \X (StripVertices \cup {ZeroVertex})
    BY DEF StripInv, StripEntries
  <2>4. DOMAIN lists = ListTypes /\ \A l \in ListTypes : Len(lists[l]) <= Capacity
    BY DEF ListInv
  <2> QED
    BY <2>1, <2>2, <2>3, <2>4 DEF TypeOK, WordInv, HalfInv, StripInv, ListInv, EndInv, WindowInv
<1> QED
  BY <1>1, FeedSafe, PTL

-----------------------------------------------------------------------------
(* Vertices three by three. *)

(* A sequence of 3k elements is k triples. *)
LEMMA TriplesAre ==
  ASSUME NEW E, NEW s \in Seq(E), NEW k \in Nat, Len(s) = 3 * k
  PROVE  /\ Triples(s) \in Seq(Seq(E)) /\ Len(Triples(s)) = k
         /\ \A i \in 1 .. k : Triples(s)[i] = SubSeq(s, 3 * i - 2, 3 * i)
<1>1. Len(s) \div 3 = k
  BY SMT
<1>2. Triples(s) = [i \in 1 .. k |-> SubSeq(s, 3 * i - 2, 3 * i)]
  BY <1>1 DEF Triples
<1>3. ASSUME NEW i \in 1 .. k PROVE SubSeq(s, 3 * i - 2, 3 * i) \in Seq(E)
  <2>1. \A j \in 3 * i - 2 .. 3 * i : s[j] \in E
    BY ElementOfSeq
  <2> QED
    BY <2>1, SubSeqProperties
<1>4. Triples(s) \in [1 .. k -> Seq(E)]
  BY <1>2, <1>3
<1>5. Triples(s) \in Seq(Seq(E)) /\ Len(Triples(s)) = k
  BY <1>4, SeqDef, LenProperties
<1> QED
  BY <1>2, <1>5

(* Whole triples joined are whole triples. *)
LEMMA LenOfConcat ==
  ASSUME NEW E, NEW s \in Seq(E), NEW v \in Seq(E), NEW k \in Nat, NEW m \in Nat,
         Len(s) = 3 * k, Len(v) = 3 * m
  PROVE  s \o v \in Seq(E) /\ Len(s \o v) = 3 * (k + m) /\ k + m \in Nat
<1>1. s \o v \in Seq(E) /\ Len(s \o v) = Len(s) + Len(v)
  BY ConcatProperties
<1> QED
  BY <1>1

(* The triples of two lists joined are the triples of each, joined. *)
LEMMA TriplesOfConcat ==
  ASSUME NEW E, NEW s \in Seq(E), NEW v \in Seq(E), NEW k \in Nat, NEW m \in Nat,
         Len(s) = 3 * k, Len(v) = 3 * m
  PROVE  Triples(s \o v) = Triples(s) \o Triples(v)
<1>1. s \o v \in Seq(E) /\ Len(s \o v) = 3 * (k + m) /\ k + m \in Nat
  BY LenOfConcat
<1>2. /\ Triples(s \o v) \in Seq(Seq(E)) /\ Len(Triples(s \o v)) = k + m
      /\ \A i \in 1 .. k + m : Triples(s \o v)[i] = SubSeq(s \o v, 3 * i - 2, 3 * i)
  BY <1>1, TriplesAre
<1>3. /\ Triples(s) \in Seq(Seq(E)) /\ Len(Triples(s)) = k
      /\ \A i \in 1 .. k : Triples(s)[i] = SubSeq(s, 3 * i - 2, 3 * i)
  BY TriplesAre
<1>4. /\ Triples(v) \in Seq(Seq(E)) /\ Len(Triples(v)) = m
      /\ \A i \in 1 .. m : Triples(v)[i] = SubSeq(v, 3 * i - 2, 3 * i)
  BY TriplesAre
<1>5. /\ Triples(s) \o Triples(v) \in Seq(Seq(E)) /\ Len(Triples(s) \o Triples(v)) = k + m
      /\ \A i \in 1 .. k + m : (Triples(s) \o Triples(v))[i] =
           IF i <= k THEN Triples(s)[i] ELSE Triples(v)[i - k]
  BY <1>3, <1>4, ConcatProperties
<1>6. ASSUME NEW i \in 1 .. k + m
      PROVE  Triples(s \o v)[i] = (Triples(s) \o Triples(v))[i]
  <2>1. CASE i <= k
    <3>1. 3 * i - 2 \in 1 .. Len(s) /\ 3 * i \in 1 .. Len(s)
      BY <2>1
    <3>2. SubSeq(s \o v, 3 * i - 2, 3 * i) = SubSeq(s, 3 * i - 2, 3 * i)
      BY <3>1, SubSeqOfConcat1
    <3>3. (Triples(s) \o Triples(v))[i] = Triples(s)[i] /\ i \in 1 .. k
      BY <1>5, <2>1
    <3> QED
      BY <1>2, <1>3, <3>2, <3>3
  <2>2. CASE ~(i <= k)
    <3>1. /\ 3 * i - 2 \in Len(s) + 1 .. Len(s) + Len(v)
          /\ 3 * i \in Len(s) + 1 .. Len(s) + Len(v)
          /\ i - k \in 1 .. m
          /\ 3 * i - 2 - Len(s) = 3 * (i - k) - 2 /\ 3 * i - Len(s) = 3 * (i - k)
      BY <2>2
    <3>2. SubSeq(s \o v, 3 * i - 2, 3 * i) = SubSeq(v, 3 * (i - k) - 2, 3 * (i - k))
      <4>1. SubSeq(s \o v, 3 * i - 2, 3 * i) =
              SubSeq(v, 3 * i - 2 - Len(s), 3 * i - Len(s))
        BY <3>1, SubSeqOfConcat2
      <4> QED
        BY <3>1, <4>1
    <3>3. (Triples(s) \o Triples(v))[i] = Triples(v)[i - k]
      BY <1>5, <2>2
    <3> QED
      BY <1>2, <1>4, <3>1, <3>2, <3>3
  <2> QED
    BY <2>1, <2>2
<1> QED
  BY <1>2, <1>5, <1>6, SeqEqual

(* Cutting a list at a triple cuts its triples. *)
LEMMA TriplesOfPrefix ==
  ASSUME NEW E, NEW s \in Seq(E), NEW k \in Nat, Len(s) = 3 * k, NEW r \in 0 .. k
  PROVE  /\ SubSeq(s, 1, 3 * r) \in Seq(E) /\ Len(SubSeq(s, 1, 3 * r)) = 3 * r
         /\ Triples(SubSeq(s, 1, 3 * r)) = SubSeq(Triples(s), 1, r)
<1> DEFINE cut == SubSeq(s, 1, 3 * r)
<1>1. cut \in Seq(E) /\ Len(cut) = 3 * r
  <2>1. \A j \in 1 .. 3 * r : s[j] \in E
    BY ElementOfSeq
  <2> QED
    BY <2>1, SubSeqProperties
<1>2. /\ Triples(s) \in Seq(Seq(E)) /\ Len(Triples(s)) = k
      /\ \A i \in 1 .. k : Triples(s)[i] = SubSeq(s, 3 * i - 2, 3 * i)
  BY TriplesAre
<1>3. /\ Triples(cut) \in Seq(Seq(E)) /\ Len(Triples(cut)) = r
      /\ \A i \in 1 .. r : Triples(cut)[i] = SubSeq(cut, 3 * i - 2, 3 * i)
  <2>1. r \in Nat
    OBVIOUS
  <2> HIDE DEF cut
  <2> QED
    BY <1>1, <2>1, TriplesAre
<1>4. /\ SubSeq(Triples(s), 1, r) \in Seq(Seq(E)) /\ Len(SubSeq(Triples(s), 1, r)) = r
      /\ \A i \in 1 .. r : SubSeq(Triples(s), 1, r)[i] = Triples(s)[i]
  <2>1. \A j \in 1 .. r : Triples(s)[j] \in Seq(E)
    BY <1>2, ElementOfSeq
  <2> QED
    BY <2>1, SubSeqProperties
<1>5. ASSUME NEW i \in 1 .. r PROVE SubSeq(cut, 3 * i - 2, 3 * i) = SubSeq(s, 3 * i - 2, 3 * i)
  <2>1. /\ 1 \in 1 .. Len(s) /\ 3 * r \in 1 .. Len(s)
        /\ 3 * i - 2 \in 1 .. 3 * r - 1 + 1 /\ 3 * i \in 1 .. 3 * r - 1 + 1
        /\ 1 + (3 * i - 2) - 1 = 3 * i - 2 /\ 1 + 3 * i - 1 = 3 * i
    OBVIOUS
  <2>2. SubSeq(cut, 3 * i - 2, 3 * i) = SubSeq(s, 1 + (3 * i - 2) - 1, 1 + 3 * i - 1)
    BY <2>1, SubSeqOfSubSeq
  <2> QED
    BY <2>1, <2>2
<1>6. Triples(cut) = SubSeq(Triples(s), 1, r)
  <2> HIDE DEF cut
  <2>1. ASSUME NEW i \in 1 .. r PROVE Triples(cut)[i] = SubSeq(Triples(s), 1, r)[i]
    <3>1. Triples(cut)[i] = SubSeq(s, 3 * i - 2, 3 * i)
      BY <1>3, <1>5
    <3>2. SubSeq(Triples(s), 1, r)[i] = Triples(s)[i] /\ i \in 1 .. k
      BY <1>4
    <3> QED
      BY <1>2, <3>1, <3>2
  <2> QED
    BY <1>3, <1>4, <2>1, SeqEqual
<1> QED
  BY <1>1, <1>6

(* The bound of a list, in triangles. *)
Room == Capacity \div 3

(* The capacity is a whole number of triangles. *)
LEMMA RoomProperties == Room \in Nat /\ Capacity = 3 * Room /\ Capacity \in Nat
BY TaAssumption, SMT DEF Room

(* Whole triangles fit or do not fit: the bound cuts none in two. *)
LEMMA TriplesOfFit ==
  ASSUME NEW E, NEW s \in Seq(E), NEW v \in Seq(E), NEW k \in Nat, NEW m \in Nat,
         Len(s) = 3 * k, Len(v) = 3 * m
  PROVE  LET all == Triples(s) \o Triples(v)
         IN  /\ \E n \in Nat : Len(FitIn(s \o v)) = 3 * n
             /\ Triples(FitIn(s \o v)) =
                  SubSeq(all, 1, IF Len(all) <= Room THEN Len(all) ELSE Room)
<1> DEFINE sv == s \o v
<1> DEFINE all == Triples(s) \o Triples(v)
<1>1. sv \in Seq(E) /\ Len(sv) = 3 * (k + m) /\ k + m \in Nat
  BY LenOfConcat
<1>2. all = Triples(sv)
  BY TriplesOfConcat
<1> HIDE DEF sv
<1>3. Triples(sv) \in Seq(Seq(E)) /\ Len(Triples(sv)) = k + m
  BY <1>1, TriplesAre
<1>4. all \in Seq(Seq(E)) /\ Len(all) = k + m
  BY <1>2, <1>3
<1>5. CASE k + m <= Room
  <2>1. FitIn(sv) = sv
    BY <1>1, <1>5, RoomProperties DEF FitIn
  <2>2. SubSeq(all, 1, Len(all)) = all
    <3> HIDE DEF all
    <3> QED
      BY <1>4, SubSeqFull
  <2> QED
    BY <1>1, <1>2, <1>4, <1>5, <2>1, <2>2 DEF sv
<1>6. CASE ~(k + m <= Room)
  <2>1. FitIn(sv) = SubSeq(sv, 1, 3 * Room) /\ Room \in 0 .. k + m
    BY <1>1, <1>6, RoomProperties DEF FitIn
  <2>2. /\ Len(SubSeq(sv, 1, 3 * Room)) = 3 * Room
        /\ Triples(SubSeq(sv, 1, 3 * Room)) = SubSeq(Triples(sv), 1, Room)
    BY <1>1, <2>1, TriplesOfPrefix
  <2> QED
    BY <1>2, <1>4, <1>6, <2>1, <2>2, RoomProperties DEF sv
<1> QED
  BY <1>5, <1>6

(* A triangle, and the two triangles of a sprite. *)
LEMMA OneTriple ==
  ASSUME NEW E, NEW a \in E, NEW b \in E, NEW c \in E
  PROVE  <<a, b, c>> \in Seq(E) /\ Len(<<a, b, c>>) = 3 * 1 /\ Triples(<<a, b, c>>) = <<<<a, b, c>>>>
<1> DEFINE s == <<a, b, c>>
<1>1. s \in Seq(E) /\ Len(s) = 3 * 1
  OBVIOUS
<1>2. SubSeq(s, 1, 3) = s
  <2> HIDE DEF s
  <2> QED
    BY <1>1, SubSeqFull
<1>3. /\ Triples(s) \in Seq(Seq(E)) /\ Len(Triples(s)) = 1
      /\ \A i \in 1 .. 1 : Triples(s)[i] = SubSeq(s, 3 * i - 2, 3 * i)
  <2> HIDE DEF s
  <2> QED
    BY <1>1, TriplesAre
<1>4. Triples(s)[1] = s
  <2> HIDE DEF s
  <2> QED
    BY <1>2, <1>3
<1>5. <<s>> \in Seq(Seq(E)) /\ Len(<<s>>) = 1 /\ <<s>>[1] = s
  <2> HIDE DEF s
  <2> QED
    BY <1>1
<1>6. Triples(s) = <<s>>
  <2> HIDE DEF s
  <2> QED
    BY <1>3, <1>4, <1>5, SeqEqual
<1> QED
  BY <1>1, <1>6

(* A quad is two triangles that share its first and third corner. *)
LEMMA TwoTriples ==
  ASSUME NEW E, NEW q, \A i \in 1 .. 4 : q[i] \in E
  PROVE  /\ SpriteTriangles(q) \in Seq(E) /\ Len(SpriteTriangles(q)) = 3 * 2
         /\ Triples(SpriteTriangles(q)) = << <<q[1], q[2], q[3]>>, <<q[1], q[3], q[4]>> >>
<1> DEFINE s == <<q[1], q[2], q[3]>>
<1> DEFINE t == <<q[1], q[3], q[4]>>
<1>1. s \in Seq(E) /\ Len(s) = 3 * 1 /\ Triples(s) = <<s>>
  BY OneTriple
<1>2. t \in Seq(E) /\ Len(t) = 3 * 1 /\ Triples(t) = <<t>>
  BY OneTriple
<1>3. SpriteTriangles(q) = s \o t
  BY DEF SpriteTriangles
<1> HIDE DEF s, t
<1>4. s \o t \in Seq(E) /\ Len(s \o t) = 3 * 2
  <2>1. s \o t \in Seq(E) /\ Len(s \o t) = Len(s) + Len(t)
    BY <1>1, <1>2, ConcatProperties
  <2> QED
    BY <1>1, <1>2, <2>1
<1>5. Triples(s \o t) = <<s>> \o <<t>>
  <2>1. Triples(s \o t) = Triples(s) \o Triples(t)
    <3>1. 1 \in Nat
      OBVIOUS
    <3> QED
      BY <1>1, <1>2, <3>1, TriplesOfConcat
  <2> QED
    BY <1>1, <1>2, <2>1
<1>6. <<s>> \o <<t>> = <<s, t>>
  <2>1. <<s>> \in Seq(Seq(E)) /\ Len(<<s>>) = 1 /\ <<s>>[1] = s
    BY <1>1
  <2>2. <<t>> \in Seq(Seq(E)) /\ Len(<<t>>) = 1 /\ <<t>>[1] = t
    BY <1>2
  <2>3. <<s, t>> \in Seq(Seq(E)) /\ Len(<<s, t>>) = 2 /\ <<s, t>>[1] = s /\ <<s, t>>[2] = t
    BY <1>1, <1>2
  <2>4. /\ <<s>> \o <<t>> \in Seq(Seq(E)) /\ Len(<<s>> \o <<t>>) = 2
        /\ (<<s>> \o <<t>>)[1] = s /\ (<<s>> \o <<t>>)[2] = t
    BY <2>1, <2>2, ConcatProperties
  <2>5. \A i \in 1 .. 2 : (<<s>> \o <<t>>)[i] = <<s, t>>[i]
    BY <2>3, <2>4
  <2> DEFINE x == <<s>> \o <<t>>
  <2> DEFINE y == <<s, t>>
  <2>6. x \in Seq(Seq(E)) /\ y \in Seq(Seq(E)) /\ Len(x) = Len(y)
    BY <2>3, <2>4
  <2>7. \A i \in 1 .. Len(x) : x[i] = y[i]
    BY <2>4, <2>5
  <2> HIDE DEF x, y
  <2>8. x = y
    BY <2>6, <2>7, SeqEqual
  <2> QED
    BY <2>8 DEF x, y
<1> QED
  BY <1>3, <1>4, <1>5, <1>6 DEF s, t

-----------------------------------------------------------------------------
(* The game's strip and the parser's memory of it. *)

StripSync ==
  LET n == Len(strip)
  IN  /\ n = 0 => stripCount = 0
      /\ n = 1 => stripCount = 1 /\ prev[2] = strip[1]
      /\ n >= 2 => /\ prev[1] = strip[n - 1] /\ prev[2] = strip[n]
                   /\ stripCount = IF n % 2 = 0 THEN 2 ELSE 3

WholeTriangles == \A l \in ListTypes : \E k \in Nat : Len(lists[l]) = 3 * k

(* What the refinement needs beside FeedInv: lists of whole triangles, and a    *)
(* parser that, once it has read a header, is in its list and in its strip.  *)
SyncInv ==
  /\ strip \in Seq(StripVertices)
  /\ WholeTriangles
  /\ half = "header" => strip = <<>>
  /\ half # "header" => StripSync /\ (header # NoPacket => current = header.list)

Tri == [l \in ListTypes |-> Triples(lists[l])]
Open == IF header = NoPacket THEN NoList ELSE header.list

(* What the parser emits is what the promise adds to the open list. *)
LEMMA EmitAdds ==
  ASSUME ListInv, WholeTriangles, header # NoPacket, current = header.list,
         NEW vs \in Seq(Entries), NEW m \in Nat, Len(vs) = 3 * m, Emit(vs)
  PROVE  Promise!Add(Triples(vs)) /\ WholeTriangles'
<1>1. Open = current
  BY DEF Open
<1> DEFINE Added(l) == LET all == Triples(lists[l]) \o Triples(vs)
                       IN  SubSeq(all, 1, IF Len(all) <= Room THEN Len(all) ELSE Room)
<1>2. ASSUME NEW l \in ListTypes
      PROVE  /\ Triples(lists'[l]) = IF l # Open THEN Triples(lists[l]) ELSE Added(l)
             /\ \E k \in Nat : Len(lists'[l]) = 3 * k
  <2>1. lists \in [ListTypes -> Seq(Entries)] /\ lists[l] \in Seq(Entries)
    BY DEF ListInv
  <2>2. PICK k \in Nat : Len(lists[l]) = 3 * k
    BY DEF WholeTriangles
  <2>3. CASE l = current
    <3>1. lists'[l] = FitIn(lists[l] \o vs)
      BY <2>1, <2>3 DEF Emit, ListTypes
    <3>2. /\ \E n \in Nat : Len(FitIn(lists[l] \o vs)) = 3 * n
          /\ Triples(FitIn(lists[l] \o vs)) = Added(l)
      BY <2>1, <2>2, TriplesOfFit
    <3> QED
      BY <1>1, <2>3, <3>1, <3>2
  <2>4. CASE l # current
    <3>1. lists'[l] = lists[l]
      BY <2>1, <2>4 DEF Emit, ListTypes
    <3> QED
      BY <1>1, <2>2, <2>4, <3>1
  <2> QED
    BY <2>3, <2>4
<1>3. Promise!Add(Triples(vs))
  <2>1. \A l \in ListTypes :
          Triples(lists'[l]) = IF l # Open THEN Tri[l] ELSE
            SubSeq(Tri[l] \o Triples(vs), 1,
                   IF Len(Tri[l] \o Triples(vs)) <= Room THEN Len(Tri[l] \o Triples(vs)) ELSE Room)
    BY <1>2 DEF Tri
  <2> QED
    BY <2>1 DEF Promise!Add, Tri, Open, Room
<1> QED
  BY <1>2, <1>3 DEF WholeTriangles

(* The triangle the parser makes of a vertex and the two it remembers is the    *)
(* last triangle of the game's strip.                                       *)
LEMMA LastTriangleOfStrip ==
  ASSUME NEW v, strip \in Seq(StripVertices), v \in StripVertices, StripSync
  PROVE  /\ stripCount >= 2 <=> Len(Append(strip, v)) >= 3
         /\ stripCount >= 2 => StripTriangle(v) = Promise!LastTriangle(Append(strip, v))
<1> DEFINE n == Len(strip)
<1> DEFINE s == Append(strip, v)
<1>1. n \in Nat
  BY LenProperties
<1>2. /\ Len(s) = n + 1 /\ \A i \in 1 .. n : s[i] = strip[i]
      /\ s[n + 1] = v
  BY AppendProperties
<1>3. CASE n < 2
  <2>1. stripCount \in {0, 1}
    <3>1. CASE n = 0  BY <3>1 DEF StripSync
    <3>2. CASE n = 1  BY <3>2 DEF StripSync
    <3>3. n = 0 \/ n = 1
      <4> HIDE DEF n
      <4> QED
        BY <1>1, <1>3
    <3> QED BY <3>1, <3>2, <3>3
  <2>2. Len(s) = n + 1 /\ ~(n + 1 >= 3) /\ ~(stripCount >= 2)
    BY <1>1, <1>2, <1>3, <2>1
  <2> HIDE DEF n
  <2> QED
    BY <2>2
<1>4. CASE n >= 2
  <2>1. prev[1] = s[n - 1] /\ prev[2] = s[n] /\ stripCount = IF n % 2 = 0 THEN 2 ELSE 3
    BY <1>1, <1>2, <1>4 DEF StripSync
  <2>2. Len(s) - 2 = n - 1 /\ Len(s) - 1 = n /\ (Len(s) % 2 = 1 <=> n % 2 = 0)
    BY <1>1, <1>2
  <2> HIDE DEF s
  <2>3. StripTriangle(v) = Promise!LastTriangle(s)
    BY <1>1, <1>2, <2>1, <2>2 DEF StripTriangle, Promise!LastTriangle
  <2> QED
    BY <1>1, <1>2, <1>4, <2>1, <2>3 DEF s
<1> QED
  BY <1>1, <1>3, <1>4

(* A vertex that ends the strip or goes on with it keeps both in step. *)
LEMMA StripStaysSync ==
  ASSUME NEW v, strip \in Seq(StripVertices), v \in StripVertices, StripSync,
         NEW eos \in BOOLEAN,
         prev' = (IF eos THEN NoVertices ELSE <<prev[2], v>>),
         stripCount' = (IF eos THEN 0 ELSE IF stripCount = 3 THEN 2 ELSE stripCount + 1),
         strip' = (IF eos THEN <<>> ELSE Append(strip, v))
  PROVE  strip' \in Seq(StripVertices) /\ StripSync'
<1>1. CASE eos
  BY <1>1, EmptySeq DEF StripSync
<1>2. CASE ~eos
  <2> DEFINE n == Len(strip)
  <2>1. n \in Nat
    BY LenProperties
  <2>2. /\ strip' \in Seq(StripVertices) /\ Len(strip') = n + 1
        /\ \A i \in 1 .. n : strip'[i] = strip[i]
        /\ strip'[n + 1] = v
    BY <1>2, AppendProperties
  <2>3. prev'[1] = prev[2] /\ prev'[2] = v
    BY <1>2
  <2>4. CASE n = 0
    <3>1. stripCount' = 1 /\ Len(strip') = 1 /\ strip'[1] = v
      BY <1>2, <2>2, <2>4 DEF StripSync
    <3> QED
      BY <2>2, <2>3, <3>1 DEF StripSync
  <2>5. CASE n = 1
    <3>1. stripCount' = 2 /\ Len(strip') = 2 /\ prev[2] = strip'[1] /\ strip'[2] = v
      BY <1>2, <2>2, <2>5 DEF StripSync
    <3> QED
      BY <2>2, <2>3, <3>1 DEF StripSync
  <2>6. CASE n >= 2
    <3>1. prev[2] = strip'[n] /\ stripCount = IF n % 2 = 0 THEN 2 ELSE 3
      BY <2>1, <2>2, <2>6 DEF StripSync
    <3>2. stripCount' = IF (n + 1) % 2 = 0 THEN 2 ELSE 3
      BY <1>2, <2>1, <3>1
    <3> QED
      BY <2>1, <2>2, <2>3, <2>6, <3>1, <3>2 DEF StripSync
  <2>7. n = 0 \/ n = 1 \/ n >= 2
    <3> HIDE DEF n
    <3> QED
      BY <2>1
  <2> QED
    BY <2>4, <2>5, <2>6, <2>7
<1> QED
  BY <1>1, <1>2

(* A vertex the parser completes extends the strip, or makes a quad. *)
LEMMA VertexRefines ==
  ASSUME ListInv, StripInv, SyncInv, half # "header", header # NoPacket, header' = header,
         vertType = VertTypeOf(header),
         NEW halves, NEW eos \in BOOLEAN, ProcessVertex(halves, eos), GameVertex(halves, eos),
         halves \in Halves \/ (~LongVertex(vertType) /\ \E d \in Data : halves = <<d>>)
  PROVE  /\ \/ \E v \in StripVertices : Promise!Extend(v)
            \/ \E q \in SpriteQuads : Promise!Quad(q)
         /\ strip' \in Seq(StripVertices) /\ StripSync' /\ WholeTriangles'
<1>1. current = header.list /\ StripSync /\ strip \in Seq(StripVertices) /\ WholeTriangles
  BY DEF SyncInv
<1>2. Open' = Open
  BY DEF Open
<1>3. CASE IsSprite(vertType)
  <2> DEFINE q == Corners(halves)
  <2>1. PICK d \in Data, e \in Data : halves = <<d, e>>
    BY <1>3 DEF IsSprite, LongVertex, Halves
  <2>2. q \in SpriteQuads
    BY <2>1 DEF SpriteQuads
  <2>3. \A k \in 1 .. 4 : q[k] \in Entries
    BY <2>1 DEF Entries, Halves
  <2>4. Emit(SpriteTriangles(q)) /\ UNCHANGED <<stripCount, prev, strip>>
    BY <1>3 DEF ProcessVertex, GameVertex, stripVars
  <2> HIDE DEF q
  <2>5. /\ SpriteTriangles(q) \in Seq(Entries) /\ Len(SpriteTriangles(q)) = 3 * 2
        /\ Triples(SpriteTriangles(q)) = << <<q[1], q[2], q[3]>>, <<q[1], q[3], q[4]>> >>
    BY <2>3, TwoTriples
  <2>6. Promise!Add(Triples(SpriteTriangles(q))) /\ WholeTriangles'
    <3>1. 2 \in Nat
      OBVIOUS
    <3> QED
      BY <1>1, <2>4, <2>5, <3>1, EmitAdds
  <2>7. Promise!Quad(q)
    BY <1>2, <2>4, <2>5, <2>6 DEF Promise!Quad, Open
  <2> QED
    BY <1>1, <2>2, <2>4, <2>6, <2>7 DEF StripSync
<1>4. CASE ~IsSprite(vertType)
  <2> DEFINE v == VertexOf(halves)
  <2>1. v \in StripVertices
    <3>1. CASE halves \in Halves
      BY <3>1 DEF Halves, VertexOf, StripVertices
    <3>2. ASSUME NEW d \in Data, halves = <<d>>, ~LongVertex(vertType) PROVE v \in StripVertices
      BY <3>2 DEF LongVertex, VertexOf, StripVertices
    <3> QED
      BY <3>1, <3>2
  <2>2. StripVertex(v, eos)
    BY <1>4 DEF ProcessVertex
  <2>3. strip' = IF eos THEN <<>> ELSE Append(strip, v)
    BY <1>4 DEF GameVertex, VertexOf
  <2> HIDE DEF v
  <2>4. strip' \in Seq(StripVertices) /\ StripSync'
    BY <1>1, <2>1, <2>2, <2>3, StripStaysSync DEF StripVertex
  <2> DEFINE s == Append(strip, v)
  <2>5. /\ IF Len(s) >= 3 THEN Promise!Add(<<Promise!LastTriangle(s)>>) ELSE lists' = lists
        /\ WholeTriangles'
    <3>1. /\ stripCount >= 2 <=> Len(s) >= 3
          /\ stripCount >= 2 => StripTriangle(v) = Promise!LastTriangle(s)
      BY <1>1, <2>1, LastTriangleOfStrip
    <3>2. CASE stripCount >= 2
      <4>1. prev[1] \in Entries /\ prev[2] \in Entries /\ v \in Entries
        BY <2>1 DEF StripInv, Entries, StripEntries
      <4>2. /\ StripTriangle(v) \in Seq(Entries) /\ Len(StripTriangle(v)) = 3 * 1
            /\ Triples(StripTriangle(v)) = <<StripTriangle(v)>>
        <5>1. CASE stripCount = 2
          BY <4>1, <5>1, OneTriple DEF StripTriangle
        <5>2. CASE stripCount # 2
          BY <4>1, <5>2, OneTriple DEF StripTriangle
        <5> QED
          BY <5>1, <5>2
      <4>3. Emit(StripTriangle(v))
        BY <2>2, <3>2 DEF StripVertex
      <4>4. Promise!Add(Triples(StripTriangle(v))) /\ WholeTriangles'
        <5>1. 1 \in Nat
          OBVIOUS
        <5> QED
          BY <1>1, <4>2, <4>3, <5>1, EmitAdds
      <4> QED
        BY <3>1, <3>2, <4>2, <4>4
    <3>3. CASE ~(stripCount >= 2)
      <4>1. lists' = lists
        BY <2>2, <3>3 DEF StripVertex
      <4> QED
        BY <1>1, <3>1, <3>3, <4>1 DEF WholeTriangles
    <3> QED
      BY <3>2, <3>3
  <2>6. Promise!Extend(v)
    <3>1. strip' \in {s, <<>>}
      BY <2>3
    <3>2. IF Len(s) >= 3 THEN Promise!Add(<<Promise!LastTriangle(s)>>)
          ELSE Tri' = Tri
      BY <2>5 DEF Tri
    <3> QED
      BY <1>2, <3>1, <3>2 DEF Promise!Extend, Tri, Open
  <2> QED
    BY <2>1, <2>4, <2>5, <2>6
<1> QED
  BY <1>3, <1>4

-----------------------------------------------------------------------------
(* A strip begun anew is empty on both sides. *)
LEMMA StripStarts ==
  /\ <<>> \in Seq(StripVertices)
  /\ RestartStrip /\ strip' = <<>> => StripSync'
<1>1. <<>> \in Seq(StripVertices) /\ Len(<<>>) = 0
  BY EmptySeq
<1>2. ASSUME RestartStrip, strip' = <<>> PROVE StripSync'
  <2>1. stripCount' = 0 /\ Len(strip') = 0
    BY <1>1, <1>2 DEF RestartStrip
  <2> QED
    BY <2>1 DEF StripSync
<1> QED
  BY <1>1, <1>2

(* Nothing the refinement looks at changes. *)
LEMMA SyncStays ==
  ASSUME SyncInv, UNCHANGED <<current, stripCount, prev, lists, header, half, strip>>
  PROVE  SyncInv'
BY DEF SyncInv, StripSync, WholeTriangles

(* An empty list holds no triangles. *)
LEMMA NoTriples == Triples(<<>>) = <<>> /\ \E k \in Nat : Len(<<>>) = 3 * k
<1>1. <<>> \in Seq(Data) /\ Len(<<>>) = 3 * 0 /\ 0 \in Nat
  BY EmptySeq
<1>2. Triples(<<>>) \in Seq(Seq(Data)) /\ Len(Triples(<<>>)) = 0
  BY <1>1, TriplesAre
<1> QED
  BY <1>1, <1>2, EmptySeq

(* A packet is a step of the promise, or none. *)
LEMMA PacketRefines ==
  ASSUME GameInv, SyncInv, NEW p \in Sent, Legal(p), TaWrite(p), GameSends(p)
  PROVE  SyncInv' /\ [Promise!Next]_(Promise!vars)
<1> USE DEF GameInv
<1> DEFINE Stutter == UNCHANGED <<lists, header, strip>>
<1>0. Stutter => UNCHANGED Promise!vars
  BY DEF Promise!vars
<1>1. ASSUME half # "header", header # NoPacket, header' = header, half' = "no",
             vertType = VertTypeOf(header), current' = current,
             NEW halves, NEW eos \in BOOLEAN, ProcessVertex(halves, eos), GameVertex(halves, eos),
             halves \in Halves \/ (~LongVertex(vertType) /\ \E d \in Data : halves = <<d>>)
      PROVE  SyncInv' /\ [Promise!Next]_(Promise!vars)
  <2>1. /\ \/ \E v \in StripVertices : Promise!Extend(v)
           \/ \E q \in SpriteQuads : Promise!Quad(q)
        /\ strip' \in Seq(StripVertices) /\ StripSync' /\ WholeTriangles'
    BY <1>1, VertexRefines
  <2>2. SyncInv'
    BY <1>1, <2>1 DEF SyncInv
  <2> QED
    BY <2>1, <2>2 DEF Promise!Next
<1>2. CASE half = "vertex"
  <2>1. awaiting = "vertex" /\ pending = first /\ first \in Sent /\ header # NoPacket
    BY <1>2 DEF HalfInv
  <2>2. /\ GameVertex(<<pending.data, p.data>>, pending.eos)
        /\ half' = "no" /\ header' = header
    BY <1>2, <2>1 DEF GameSends
  <2>3. ProcessVertex(<<pending.data, p.data>>, pending.eos)
    BY <2>1 DEF TaWrite, SecondHalf
  <2>4. <<pending.data, p.data>> \in Halves /\ pending.eos \in BOOLEAN
    BY <2>1, PacketFields DEF Halves
  <2>5. vertType = VertTypeOf(header) /\ current' = current
    BY <1>2, <2>1, <2>3 DEF HalfInv, ProcessVertex, headerVars
  <2> QED
    BY <1>1, <1>2, <2>1, <2>2, <2>3, <2>4, <2>5
<1>3. CASE half = "header"
  <2>1. awaiting = "header" /\ pending = header
    BY <1>3 DEF HalfInv
  <2>2. half' = "no" /\ UNCHANGED <<header, strip>>
    BY <1>3 DEF GameSends
  <2>3. current' = header.list /\ RestartStrip /\ lists' = lists
    BY <2>1 DEF TaWrite, SecondHalf, ProcessPolygon
  <2>4. strip = <<>>
    BY <1>3 DEF SyncInv
  <2>5. SyncInv'
    BY <2>2, <2>3, <2>4, StripStarts DEF SyncInv, WholeTriangles
  <2> QED
    BY <1>0, <2>2, <2>3, <2>5
<1>4. CASE half = "no" /\ IsHeader(p)
  <2>1. awaiting = "no" /\ p.para \in {"polygon", "sprite"}
    BY <1>4 DEF HalfInv, IsHeader
  <2>2. /\ header' = p /\ half' = (IF LongHeader(p) THEN "header" ELSE "no")
        /\ strip' = <<>>
    BY <1>4, <2>1 DEF GameSends, IsHeader
  <2>3. Header(p)
    BY <2>1 DEF TaWrite, SecondHalf, Vertex, EndOfList, Ignored
  <2>4. lists' = lists
    BY <2>3 DEF Header, FirstHalf, ProcessPolygon
  <2>5. Promise!Begin
    BY <2>2, <2>4 DEF Promise!Begin
  <2>6. CASE LongHeader(p)
    <3>1. half' = "header" /\ strip' = <<>> /\ lists' = lists
      BY <2>2, <2>4, <2>6
    <3>2. SyncInv'
      BY <3>1, StripStarts DEF SyncInv, WholeTriangles
    <3> QED
      BY <2>5, <3>2 DEF Promise!Next
  <2>7. CASE ~LongHeader(p)
    <3>1. current' = p.list /\ RestartStrip
      BY <2>3, <2>7 DEF Header, ProcessPolygon
    <3>2. SyncInv'
      BY <2>2, <2>4, <2>7, <3>1, StripStarts DEF SyncInv, WholeTriangles
    <3> QED
      BY <2>5, <3>2 DEF Promise!Next
  <2> QED
    BY <2>6, <2>7
<1>5. CASE half = "no" /\ p.para = "endOfList"
  <2>1. awaiting = "no"
    BY <1>5 DEF HalfInv
  <2>2. header' = NoPacket /\ strip' = <<>> /\ half' = half
    BY <1>5 DEF GameSends, IsHeader
  <2>3. RestartStrip /\ UNCHANGED lists
    BY <1>5, <2>1 DEF TaWrite, SecondHalf, Header, Vertex, Ignored, EndOfList
  <2>4. SyncInv'
    BY <1>5, <2>2, <2>3, StripStarts DEF SyncInv, WholeTriangles
  <2>5. Promise!Close
    BY <2>2, <2>3 DEF Promise!Close, ListTypes, NoList, NumLists
  <2> QED
    BY <2>4, <2>5 DEF Promise!Next
<1>6. CASE half = "no" /\ p.para = "vertex"
  <2>1. awaiting = "no" /\ header # NoPacket
    BY <1>6 DEF HalfInv, Legal, IsHeader
  <2>2. vertType = VertTypeOf(header)
    BY <1>6, <2>1 DEF HalfInv
  <2>3. Vertex(p)
    BY <1>6, <2>1 DEF TaWrite, SecondHalf, Header, EndOfList, Ignored
  <2>4. CASE LongVertex(vertType)
    <3>1. half' = "vertex" /\ UNCHANGED <<header, strip>>
      BY <1>6, <2>2, <2>4 DEF GameSends, IsHeader
    <3>2. UNCHANGED <<current, stripCount, prev, lists>>
      BY <2>3, <2>4 DEF Vertex, FirstHalf, stripVars
    <3>3. SyncInv'
      BY <1>6, <3>1, <3>2 DEF SyncInv, StripSync, WholeTriangles
    <3> QED
      BY <1>0, <3>1, <3>2, <3>3
  <2>5. CASE ~LongVertex(vertType)
    <3>1. GameVertex(<<p.data>>, p.eos) /\ UNCHANGED <<header, half>>
      BY <1>6, <2>2, <2>5 DEF GameSends, IsHeader
    <3>2. ProcessVertex(<<p.data>>, p.eos)
      BY <2>3, <2>5 DEF Vertex
    <3>3. p.data \in Data /\ p.eos \in BOOLEAN /\ current' = current
      BY <3>2, PacketFields DEF ProcessVertex, headerVars
    <3> QED
      BY <1>1, <1>6, <2>1, <2>2, <2>5, <3>1, <3>2, <3>3
  <2> QED
    BY <2>4, <2>5
<1>7. CASE half = "no" /\ p.para \in {"userClip", "unknown"}
  <2>1. awaiting = "no"
    BY <1>7 DEF HalfInv
  <2>2. UNCHANGED gameVars
    BY <1>7 DEF GameSends, IsHeader
  <2>3. UNCHANGED taVars
    BY <1>7, <2>1 DEF TaWrite, SecondHalf, Header, Vertex, EndOfList, Ignored
  <2> QED
    BY <2>2, <2>3, SyncStays, <1>0 DEF taVars, headerVars, stripVars, gameVars
<1> QED
  <2>1. half \in {"no", "header", "vertex"} /\ p.para \in Paras
    BY PacketFields DEF HalfInv
  <2> QED
    BY <1>2, <1>3, <1>4, <1>5, <1>6, <1>7, <2>1 DEF Paras, IsHeader

(* A reset clears the promised lists. *)
LEMMA ResetRefines ==
  ASSUME TaReset, GameRestarts
  PROVE  SyncInv' /\ Promise!Clear
<1>1. /\ lists' = [l \in ListTypes |-> <<>>] /\ RestartStrip
      /\ header' = NoPacket /\ half' = "no" /\ strip' = <<>>
  BY DEF TaReset, GameRestarts, ListTypes
<1>2. WholeTriangles' /\ \A l \in ListTypes : Triples(lists'[l]) = <<>>
  BY <1>1, NoTriples DEF WholeTriangles
<1>3. SyncInv'
  BY <1>1, <1>2, StripStarts DEF SyncInv
<1> QED
  BY <1>1, <1>2, <1>3 DEF Promise!Clear, Promise!NoTriangles, ListTypes, NoList, NumLists

(* The accelerator implements TriangleLists, for every set of packets, length of *)
(* a packet and capacity of a list: what it keeps is whole triangles of what the *)
(* game sent, in order (KeepsPromise: pvr2_ta_write and all it calls).      *)
THEOREM FeedKeepsPromise == Spec => KeepsPromise
<1>1. Init => SyncInv /\ Promise!Init
  <2> SUFFICES ASSUME Init PROVE SyncInv /\ Promise!Init
    OBVIOUS
  <2>1. /\ lists = [l \in ListTypes |-> <<>>] /\ stripCount = 0
        /\ header = NoPacket /\ half = "no" /\ strip = <<>>
    BY DEF Init, TaInit, ListTypes
  <2>2. WholeTriangles /\ \A l \in ListTypes : Triples(lists[l]) = <<>>
    BY <2>1, NoTriples DEF WholeTriangles
  <2>3. strip \in Seq(StripVertices) /\ Len(strip) = 0
    BY <2>1, EmptySeq
  <2>4. SyncInv
    BY <2>1, <2>2, <2>3 DEF SyncInv, StripSync
  <2> QED
    BY <2>1, <2>2, <2>4 DEF Promise!Init, Promise!NoTriangles, ListTypes, NoList, NumLists
<1>2. FeedInv /\ SyncInv /\ [Next]_vars => SyncInv' /\ [Promise!Next]_(Promise!vars)
  <2> SUFFICES ASSUME FeedInv, SyncInv, [Next]_vars
               PROVE  SyncInv' /\ [Promise!Next]_(Promise!vars)
    OBVIOUS
  <2>1. GameInv /\ pos = word
    BY DEF FeedInv, WordInv
  <2>2. ASSUME UNCHANGED <<current, stripCount, prev, lists, header, half, strip>>
        PROVE  SyncInv' /\ [Promise!Next]_(Promise!vars)
    BY <2>2, SyncStays DEF Promise!vars
  <2>3. CASE Packet
    BY <2>1, <2>3, PacketRefines DEF Packet
  <2>4. CASE Word
    <3>1. pos' = word'
      BY <2>1, <2>4 DEF Word, NextPos
    <3>2. CASE pos' # 0
      BY <2>2, <2>4, <3>1, <3>2 DEF Word, taVars, headerVars, stripVars, gameVars
    <3>3. CASE pos' = 0
      <4>1. PICK p \in Sent : Legal(p) /\ TaWrite(p) /\ GameSends(p)
        BY <2>4, <3>1, <3>3 DEF Word
      <4> QED
        BY <2>1, <4>1, PacketRefines
    <3> QED
      BY <3>2, <3>3
  <2>5. CASE ListInit \/ StartRender
    BY <2>5, ResetRefines DEF ListInit, StartRender, Promise!Next
  <2>6. CASE VBlank \/ Ack \/ UNCHANGED vars
    BY <2>2, <2>6 DEF VBlank, Ack, vars, taVars, headerVars, stripVars, gameVars
  <2> QED
    BY <2>3, <2>4, <2>5, <2>6 DEF Next
<1> QED
  BY <1>1, <1>2, FeedSafe, PTL DEF Spec, KeepsPromise, Promise!Spec
=============================================================================
