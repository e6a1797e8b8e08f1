------------------------------- MODULE TaFeed -------------------------------
(***************************************************************************)
(* The tile accelerator between the game and the window.  Packets reach the *)
(* parser by store queue, word by word through ta_fifo, or in the burst of a *)
(* DMA (channel 2, sort, PVR); STARTRENDER draws the lists and clears them;  *)
(* TA_LIST_INIT clears them in the middle of anything; the vertical blank    *)
(* presents the framebuffer until the accelerator has drawn.  Of SB_ISTNRM   *)
(* only the End Of List bits are kept here; the bits of a finished DMA (11,  *)
(* 19, 20), of a drawn frame (0, 1, 2) and of the vertical blank (3) are     *)
(* sources of module IrqDelivery.                                          *)
(*                                                                         *)
(* The game's own view of what it has sent is kept beside the code's state:  *)
(* `header', `half', `first', `strip', `closed' and `word' are no variables *)
(* of the program.  The game keeps the hardware's contract: vertices and an  *)
(* End Of List follow a header, a packet is finished before another is begun *)
(* or a frame is drawn, and a frame is drawn when its lists are closed.      *)
(***************************************************************************)
EXTENDS TaParser, Display, FiniteSets

CONSTANTS
  Sent,      \* packets the game may send, a subset of Packets
  Words,     \* words of a packet: 8
  MaxVerts   \* bound: vertices between two resets

ASSUME FeedAssumption ==
  /\ Sent \subseteq Packets
  /\ Words \in Nat \ {0} /\ MaxVerts \in Nat

VARIABLES
  pos,     \* ta_fifo_pos % 8: words the code has collected
  header,  \* the header of the list the game is filling, or NoPacket
  half,    \* which second half the game owes: "no", "header" or "vertex"
  first,   \* the first half of a vertex
  strip,   \* vertices of the strip the game is sending
  closed,  \* lists closed with an End Of List since the last acknowledge
  word,    \* words of the current packet the game has written
  verts    \* vertex packets since the last reset

gameVars == <<header, half, first, strip, closed, verts>>
feedVars == <<pos, word>>
vars == <<taVars, displayVars, feedVars, gameVars>>

Init ==
  /\ TaInit /\ DisplayInit
  /\ pos = 0 /\ word = 0
  /\ header = NoPacket /\ half = "no" /\ first = NoPacket /\ strip = <<>>
  /\ closed = {} /\ verts = 0

-----------------------------------------------------------------------------
(* What the game means by a packet. *)
IsHeader(p) == p.para \in {"polygon", "sprite"}

Legal(p) ==
  \/ half # "no"
  \/ IsHeader(p)
  \/ p.para = "endOfList" /\ header # NoPacket
  \/ p.para = "vertex" /\ header # NoPacket /\ verts < MaxVerts
  \/ p.para \in {"userClip", "unknown"}

GameVertex(halves, eos) ==
  LET type == VertTypeOf(header)
      v == IF type = 5 THEN halves ELSE <<halves[1]>>
  IN /\ strip' = IF IsSprite(type) THEN strip ELSE IF eos THEN <<>> ELSE Append(strip, v)
     /\ verts' = verts + 1

(* A packet finishes a parameter, opens a list, closes it, or is a vertex. *)
GameSends(p) ==
  \/ /\ half = "vertex"
     /\ GameVertex(<<first.data, p.data>>, first.eos)
     /\ half' = "no" /\ first' = NoPacket /\ UNCHANGED <<header, closed>>
  \/ /\ half = "header"
     /\ half' = "no" /\ UNCHANGED <<header, first, strip, closed, verts>>
  \/ /\ half = "no" /\ IsHeader(p)
     /\ header' = p /\ half' = IF LongHeader(p) THEN "header" ELSE "no"
     /\ strip' = <<>> /\ UNCHANGED <<first, closed, verts>>
  \/ /\ half = "no" /\ p.para = "endOfList"
     /\ closed' = closed \cup {header.list} /\ header' = NoPacket
     /\ strip' = <<>> /\ UNCHANGED <<half, first, verts>>
  \/ /\ half = "no" /\ p.para = "vertex"
     /\ IF LongVertex(VertTypeOf(header))
          THEN half' = "vertex" /\ first' = p /\ UNCHANGED <<header, strip, closed, verts>>
          ELSE GameVertex(<<p.data>>, p.eos) /\ UNCHANGED <<header, half, first, closed>>
  \/ half = "no" /\ p.para \in {"userClip", "unknown"} /\ UNCHANGED gameVars

GameRestarts ==
  /\ header' = NoPacket /\ half' = "no" /\ strip' = <<>> /\ verts' = 0
  /\ first' = NoPacket /\ UNCHANGED closed

-----------------------------------------------------------------------------
(* A packet that arrives whole: sh4_sq_prefetch with the accelerator as its  *)
(* destination, or a turn of the packet loops of SB_C2DST, SB_SDST and       *)
(* SB_PDST.  A DMA sends all its packets inside one register write; a burst   *)
(* is a run of this action with nothing in between.                        *)
Packet ==
  /\ word = 0
  /\ \E p \in Sent : Legal(p) /\ TaWrite(p) /\ GameSends(p)
  /\ UNCHANGED <<displayVars, feedVars>>

(* dc_hw_write32, default branch: a word for 0x10000000-0x107FFFFF *)
NextPos == (pos + 1) % Words

Word ==
  /\ pos' = NextPos
  /\ word' = (word + 1) % Words
  /\ IF pos' # 0 /\ word' # 0
       THEN UNCHANGED <<taVars, gameVars>>
       ELSE \E p \in Sent :
              /\ word' = 0 => Legal(p)
              /\ IF pos' = 0 THEN TaWrite(p) ELSE UNCHANGED taVars
              /\ IF word' = 0 THEN GameSends(p) ELSE UNCHANGED gameVars
  /\ UNCHANGED displayVars

(* dc_hw_write32 on TA_LIST_INIT, by a game that gives up whatever it was   *)
(* sending.                                                                *)
ListInit ==
  /\ TaReset /\ UNCHANGED ends
  /\ pos' = 0
  /\ word' = 0 /\ GameRestarts
  /\ UNCHANGED displayVars

(* dc_hw_write32 on PVR_STARTRENDER: draw, swap, reset, then the interrupts. *)
StartRender ==
  /\ word = 0 /\ half = "no" /\ header = NoPacket
  /\ RenderFrame(lists)
  /\ TaReset /\ UNCHANGED ends
  /\ GameRestarts
  /\ UNCHANGED feedVars

(* dc_pvr_wait_vblank, with video memory blank or not *)
VBlank ==
  /\ IF hasDrawn THEN UNCHANGED displayVars ELSE \E blank \in BOOLEAN : Present(blank)
  /\ UNCHANGED <<taVars, feedVars, gameVars>>

(* The game acknowledges every bit it sees. *)
Ack ==
  /\ ends # {}
  /\ ends' = {} /\ closed' = {}
  /\ UNCHANGED <<headerVars, stripVars, halfVars, lists, counted, hasDrawn>>
  /\ UNCHANGED <<displayVars, feedVars, header, half, first, strip, verts>>

Next ==
  \/ Packet \/ Word
  \/ ListInit \/ StartRender \/ VBlank \/ Ack

Spec == Init /\ [][Next]_vars

-----------------------------------------------------------------------------
ListTypes == 0 .. NumLists - 1
StripVertices == {<<d>> : d \in Data} \cup {<<d, e>> : d, e \in Data}
SpriteQuads == {Corners(<<d, e>>) : d, e \in Data}

(* Type invariant of the parser, the feed and the display; among it that no  *)
(* list outgrows the buffer allocated for it.                              *)
TypeOK ==
  /\ current \in {NoList} \cup 0 .. 7 /\ openList \in 0 .. 7 /\ vertType \in 0 .. 17
  /\ stripCount \in 0 .. 3
  /\ prev \in (StripVertices \cup {ZeroVertex}) \X (StripVertices \cup {ZeroVertex})
  /\ awaiting \in {"no", "header", "vertex"} /\ pending \in Sent \cup {NoPacket}
  /\ DOMAIN lists = ListTypes /\ \A l \in ListTypes : Len(lists[l]) <= Capacity
  /\ counted \in BOOLEAN /\ hasDrawn \in BOOLEAN /\ ends \subseteq {7, 8, 9, 10, 21}
  /\ bound \in {"vbo", "quad"} /\ quad \in {"none", "quad", "geometry"}
  /\ window \in {"clear", "geometry", "framebuffer"}
  /\ pos \in 0 .. Words - 1
  /\ header \in Sent \cup {NoPacket} /\ half \in {"no", "header", "vertex"}
  /\ closed \subseteq 0 .. 7 /\ word \in 0 .. Words - 1 /\ verts \in 0 .. MaxVerts

(* The parser agrees with the game on where it is, whatever path the packets *)
(* take and whenever the lists are reset: how many words of a packet have    *)
(* come, and whether the next packet is the second half of a parameter.      *)
ParserInStep == pos = word /\ awaiting = half

(* The end interrupts raised and not acknowledged are those of the lists the *)
(* game has closed, although an End Of List names no list: bits 7 to 10 for   *)
(* the first four list types and 21 for the rest.                          *)
EndBit == [l \in 0 .. 7 |-> IF l < 4 THEN 7 + l ELSE 21]

EndsAreOfClosedLists == ends = {EndBit[l] : l \in closed}

(* "Without this, the geometry upload lands in that quad" (pvr2_render.c): the *)
(* framebuffer's quad keeps its twelve floats whatever order the presenters  *)
(* run in.                                                                 *)
QuadIntact == quad # "geometry"

(* "After that the rendered frame is the picture and the framebuffer must    *)
(* not be drawn over it" (pvr2.h): once the window shows geometry no vertical *)
(* blank replaces it by the framebuffer, now or after later frames.         *)
PictureStays == [][window = "geometry" => window' # "framebuffer"]_vars

(* The lists hold the triangles of the strips and quads the game sent, for   *)
(* whichever list it had open, in order and whole.                         *)
Triples(s) == [i \in 1 .. Len(s) \div 3 |-> SubSeq(s, 3 * i - 2, 3 * i)]

Promise == INSTANCE TriangleLists WITH
  Lists <- ListTypes, Room <- Capacity \div 3,
  Vertices <- StripVertices, Quads <- SpriteQuads,
  triangles <- [l \in ListTypes |-> Triples(lists[l])],
  open <- IF header = NoPacket THEN NoList ELSE header.list,
  strip <- strip

KeepsPromise == Promise!Spec
=============================================================================
