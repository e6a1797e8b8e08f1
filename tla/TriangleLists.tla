---------------------------- MODULE TriangleLists ----------------------------
(***************************************************************************)
(* What the tile accelerator promises a game: five lists of triangles.  The *)
(* game opens a list, sends the vertices of strips, or quads, and whole      *)
(* triangles appear in that list, in order, as long as there is room.       *)
(* Packets, halves of parameters, the vertices remembered between them and   *)
(* the list current in the parser do not exist at this level.               *)
(***************************************************************************)
EXTENDS Integers, Sequences

CONSTANTS
  Lists,     \* the list types that are kept
  Room,      \* triangles a list can hold
  Vertices,  \* vertices a strip may have
  Quads      \* quads a sprite may be: sequences of four vertices

VARIABLES
  triangles,  \* triangles[l]: a sequence of triples of vertices
  open,       \* the list type being filled; outside Lists nothing is kept
  strip       \* the vertices of the strip so far

vars == <<triangles, open, strip>>

NoTriangles == [l \in Lists |-> <<>>]

Init == triangles = NoTriangles /\ open \notin Lists /\ strip = <<>>

(* Whole triangles at the end of the open list, as many as still fit. *)
Add(ts) ==
  triangles' = [l \in Lists |->
    IF l # open THEN triangles[l]
    ELSE SubSeq(triangles[l] \o ts, 1,
                IF Len(triangles[l] \o ts) <= Room THEN Len(triangles[l] \o ts) ELSE Room)]

(* A header opens a list and starts a strip. *)
Begin == strip' = <<>> /\ UNCHANGED triangles

(* The last triangle of a strip: its last three vertices, every other one   *)
(* turned round so that all face the same way.                             *)
LastTriangle(s) ==
  LET n == Len(s)
  IN IF n % 2 = 1 THEN <<s[n - 2], s[n - 1], s[n]>> ELSE <<s[n - 1], s[n - 2], s[n]>>

(* The next vertex of the strip, which may be its last. *)
Extend(v) ==
  LET s == Append(strip, v)
  IN /\ IF Len(s) >= 3 THEN Add(<<LastTriangle(s)>>) ELSE UNCHANGED triangles
     /\ strip' \in {s, <<>>}
     /\ UNCHANGED open

Quad(q) ==
  /\ Add(<< <<q[1], q[2], q[3]>>, <<q[1], q[3], q[4]>> >>)
  /\ UNCHANGED <<open, strip>>

(* The list is closed: its triangles stay, and nothing more goes in. *)
Close == open' \notin Lists /\ strip' = <<>> /\ UNCHANGED triangles

(* A frame was drawn, or the game starts its lists again. *)
Clear == triangles' = NoTriangles /\ open' \notin Lists /\ strip' = <<>>

Next ==
  \/ Begin \/ Close \/ Clear
  \/ \E v \in Vertices : Extend(v)
  \/ \E q \in Quads : Quad(q)

Spec == Init /\ [][Next]_vars
=============================================================================
