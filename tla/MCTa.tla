-------------------------------- MODULE MCTa --------------------------------
(* TaFeed for TLC.  One header of each size, for a list that is drawn and one *)
(* that is not; vertices of both sizes and a sprite; two lists can be open   *)
(* one after the other and fill up.                                        *)
EXTENDS TaFeed
CONSTANTS a, b

Word0(para, list) == [para |-> para, list |-> list, volume |-> FALSE, col |-> 0,
  texture |-> FALSE, offset |-> FALSE, uv16 |-> FALSE, eos |-> FALSE, data |-> a]

MCSent ==
  { Word0("userClip", 0), Word0("polygon", 0),
    [Word0("polygon", 4) EXCEPT !.texture = TRUE, !.offset = TRUE, !.col = 2],
    [Word0("polygon", 4) EXCEPT !.texture = TRUE, !.col = 1],
    Word0("sprite", 0), Word0("endOfList", 0),
    Word0("vertex", 0), [Word0("vertex", 0) EXCEPT !.data = b],
    [Word0("vertex", 0) EXCEPT !.eos = TRUE] }
=============================================================================
