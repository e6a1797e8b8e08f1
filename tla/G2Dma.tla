------------------------------- MODULE G2Dma -------------------------------
(***************************************************************************)
(* The G2 DMA channels of src/src/hal/dc_hardware.c (lines 206-398).        *)
(*                                                                         *)
(* Writing 1 to a channel's start register copies the data at once          *)
(* (run_dma) and then parks the channel in the table g_g2_busy until a      *)
(* deadline; every register read and every interrupt poll retires the       *)
(* entries whose deadline has passed, clears the channel's start and length *)
(* registers and raises its bit in SB_ISTNRM (dc_g2_retire_finished).       *)
(*                                                                         *)
(* The deadline is counted in retire calls (g_g2_polls).  Only the distance *)
(* to it matters, so the absolute clock is abstracted to `left', the retire *)
(* calls an entry still has to wait.  Which bytes a copy moves is left out: *)
(* run_dma enters the busy table whatever the copy did (line 397).  A length *)
(* is below 2^29: run_dma masks the three bits above (line 350).            *)
(***************************************************************************)
EXTENDS Integers, FiniteSets

CONSTANTS
  Chan,          \* the channels: AICA, Ext1, Ext2, Dev (a register base and a bit)
  None,          \* owner of a free entry
  NumSlots,      \* entries of g_g2_busy: 5 in the code
  BytesPerPoll,  \* G2_BYTES_PER_POLL: 250 in the code
  Lengths        \* values the game writes to a length register

ASSUME G2Assumption ==
  /\ None \notin Chan
  /\ NumSlots \in Nat \ {0}
  /\ IsFiniteSet(Chan) /\ Cardinality(Chan) <= NumSlots
  /\ BytesPerPoll \in Nat \ {0}
  /\ Lengths \subseteq Nat

VARIABLES
  owner,   \* owner[i]: channel in entry i of g_g2_busy, None when busy = 0
  left,    \* left[i]: done_poll - g_g2_polls of a busy entry
  len,     \* len[c]: the length register
  start,   \* start[c]: the start register as a read returns it
  istnrm   \* channels whose completion bit is set in SB_ISTNRM

g2Vars == <<owner, left, len, start, istnrm>>

Slots == 0 .. NumSlots - 1

G2Init ==
  /\ owner = [i \in Slots |-> None]
  /\ left = [i \in Slots |-> 0]
  /\ len = [c \in Chan |-> 0]
  /\ start = [c \in Chan |-> 0]
  /\ istnrm = {}

-----------------------------------------------------------------------------
(* Mutant: the scan forgets to step over entries other channels hold. *)
UsableAny(c) == Slots

(* Mutant: a deadline is taken as passed one retire call too late. *)
DueLate == {i \in Slots : owner[i] # None /\ left[i] < 1}

(* The busy period in retire calls: one per BytesPerPoll bytes, at least 1. *)
Polls(n) == IF n \div BytesPerPoll < 1 THEN 1 ELSE n \div BytesPerPoll

(* Entries g2_start_busy's scan does not step over: free ones and those of  *)
(* the same channel, whichever comes first.                                *)
Usable(c) == {i \in Slots : owner[i] \in {None, c}}

IsFirst(i, S) == i \in S /\ \A j \in S : i <= j

(* g2_start_busy: the first usable entry takes the channel and its deadline; *)
(* with none usable the scan falls off the end and nothing is recorded.     *)
StartBusy(c, n) ==
  \/ \E i \in Slots :
       /\ IsFirst(i, Usable(c))
       /\ owner' = [owner EXCEPT ![i] = c]
       /\ left' = [left EXCEPT ![i] = Polls(n)]
  \/ /\ Usable(c) = {}
     /\ UNCHANGED <<owner, left>>

(* dc_hw_write32 on a start register with bit 0 set.  The case returns       *)
(* before the default branch stores the value, so the register keeps 0.     *)
WriteStart(c) ==
  /\ StartBusy(c, len[c])
  /\ UNCHANGED <<len, start, istnrm>>

(* dc_hw_write32 on a length register: the default branch stores it. *)
WriteLen(c, n) ==
  /\ len' = [len EXCEPT ![c] = n]
  /\ UNCHANGED <<owner, left, start, istnrm>>

(* dc_hw_write32 on SB_ISTNRM: a written 1 clears the bit. *)
Ack(S) ==
  /\ istnrm' = istnrm \ S
  /\ UNCHANGED <<owner, left, len, start>>

(* Entries whose deadline has come once g_g2_polls is incremented. *)
Due == {i \in Slots : owner[i] # None /\ left[i] <= 1}

(* Mutant: a finished entry is not freed. *)
RetireKeepsBusy ==
  LET done == {owner[i] : i \in Due}
  IN /\ left' = [i \in Slots |-> left[i] - 1]
     /\ len' = [c \in Chan |-> IF c \in done THEN 0 ELSE len[c]]
     /\ istnrm' = istnrm \cup done
     /\ UNCHANGED <<owner, start>>

(* Mutant: the interrupt is raised a call before the registers are cleared. *)
RetireRaisesFirst ==
  /\ owner' = [i \in Slots |-> IF i \in Due THEN None ELSE owner[i]]
  /\ left' = [i \in Slots |->
                IF owner[i] = None \/ i \in Due THEN 0 ELSE left[i] - 1]
  /\ len' = [c \in Chan |-> IF \E i \in Due : owner[i] = c THEN 0 ELSE len[c]]
  /\ istnrm' = istnrm \cup {owner[i] : i \in {j \in Slots : owner[j] # None /\ left[j] = 2}}
                       \cup {c \in Chan : \E i \in Due : owner[i] = c}
  /\ UNCHANGED start

(* dc_g2_retire_finished: one tick of the poll clock. *)
RetireFinished ==
  LET done == {owner[i] : i \in Due}
  IN /\ owner' = [i \in Slots |-> IF i \in Due THEN None ELSE owner[i]]
     /\ left' = [i \in Slots |->
                   IF owner[i] = None \/ i \in Due THEN 0 ELSE left[i] - 1]
     /\ len' = [c \in Chan |-> IF c \in done THEN 0 ELSE len[c]]
     /\ start' = [c \in Chan |-> IF c \in done THEN 0 ELSE start[c]]
     /\ istnrm' = istnrm \cup done
=============================================================================
