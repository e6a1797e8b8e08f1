------------------------------- MODULE Maple -------------------------------
(***************************************************************************)
(* The Maple bus: the game lays out a chain of frames in RAM, starts the     *)
(* DMA, and finds a reply to each where the frame asked for it when bit 12   *)
(* of SB_ISTNRM rises.  The whole chain is answered inside the write to       *)
(* SB_MDST (dc_maple_dma, src/src/hal/dc_hardware.c:967-1133).  A reply is    *)
(* its code, the port it speaks for and, for a condition, the pad's state;   *)
(* the constant texts of the device information are left out.              *)
(***************************************************************************)
EXTENDS Integers, Sequences, FiniteSetsExt

CONSTANTS
  MaxFrames,  \* frames one DMA looks at: 32
  Chains,     \* chains the game lays out
  Slot,       \* places for replies
  Pads        \* states of a pad: buttons, triggers and sticks

Ports == 0 .. 3

(* op: 0 for a frame, anything else is passed over.  sub: a unit of a port   *)
(* other than the main one.  func: what a GetCondition asks for.           *)
Frames == [last : BOOLEAN, op : 0 .. 7, port : Ports, sub : BOOLEAN,
           command : 0 .. 255, func : {"controller", "other"}, to : Slot]

(* The chains a game lays out: the last frame, and no other, is marked so,    *)
(* and no two frames share a reply buffer.                                 *)
IsChain(c) ==
  /\ c \in Seq(Frames) /\ c # <<>>
  /\ \A k \in 1 .. Len(c) : c[k].last <=> k = Len(c)
  /\ \A j, k \in 1 .. Len(c) : c[j].op = 0 /\ c[k].op = 0 /\ c[j].to = c[k].to => j = k

ASSUME MapleAssumption ==
  /\ MaxFrames \in Nat \ {0}
  /\ Pads # {}
  /\ \A c \in Chains : IsChain(c)

VARIABLES
  chain,      \* the chain SB_MDSTAR points at
  connected,  \* controller_connected
  pad,        \* controllers[port]
  reply,      \* what stands at each reply address
  done,       \* bit 12 of SB_ISTNRM
  sampled     \* the pads when the last DMA ran; no variable of the program

mapleVars == <<chain, connected, pad, reply, done, sampled>>

NoPad == CHOOSE p \in Pads : TRUE
NoReply == [code |-> -2]
NoDevice == [code |-> -1]

MapleInit ==
  /\ chain = <<>>
  /\ connected = {0}
  /\ pad = [q \in Ports |-> NoPad] /\ sampled = pad
  /\ reply = [s \in Slot |-> NoReply]
  /\ done = FALSE

(* The game's next chain, with its reply buffers cleared, and the interrupt  *)
(* acknowledged.                                                           *)
LayOut(c) ==
  /\ chain' = c /\ done' = FALSE /\ reply' = [s \in Slot |-> NoReply]
  /\ UNCHANGED <<connected, pad, sampled>>

(* platform_poll_events moves a pad between two DMAs; there is none to move   *)
(* on a port dc_maple_get_controller does not answer for.                  *)
Move(q, p) ==
  /\ q \in connected
  /\ pad' = [pad EXCEPT ![q] = p]
  /\ UNCHANGED <<chain, connected, reply, done, sampled>>

(* The answer of a port's main unit by command; of a JVS read (subcommand    *)
(* 0x15) nothing is kept but its code.                                     *)
CommandReply(f) ==
  CASE f.command = 1 -> [code |-> 5, port |-> f.port]
    [] f.command \in {3, 5} -> [code |-> 7, port |-> f.port]
    [] f.command = 9 /\ f.func = "controller" ->
         [code |-> 8, port |-> f.port, pad |-> pad[f.port]]
    [] f.command = 128 -> [code |-> 128, port |-> f.port]
    [] f.command = 130 -> [code |-> 131, port |-> f.port]
    [] f.command = 132 -> [code |-> 133, port |-> f.port]
    [] f.command = 134 -> [code |-> 135, port |-> f.port]
    [] OTHER -> NoDevice

Answer(f) == IF f.port \in connected /\ ~f.sub THEN CommandReply(f) ELSE NoDevice

(* The frames the loop reaches: up to the one marked last, at most MaxFrames. *)
ExaminedOneLess(c) ==  \* mutant: the count is compared one too early
  {k \in 1 .. Len(c) : k < MaxFrames /\ \A j \in 1 .. k - 1 : ~c[j].last}

Examined(c) ==
  {k \in 1 .. Len(c) : k <= MaxFrames /\ \A j \in 1 .. k - 1 : ~c[j].last}

(* Those of them that are answered at s, the later over the earlier. *)
Asking(s) == {k \in Examined(chain) : chain[k].op = 0 /\ chain[k].to = s}

(* dc_maple_dma, and dc_hw_write32 on SB_MDST, which starts it and raises    *)
(* the interrupt.                                                          *)
MapleDma ==
  /\ chain # <<>>
  /\ reply' = [s \in Slot |-> IF Asking(s) = {} THEN reply[s] ELSE Answer(chain[Max(Asking(s))])]
  /\ done' = TRUE /\ sampled' = pad
  /\ UNCHANGED <<chain, connected, pad>>

MapleNext ==
  \/ MapleDma
  \/ \E c \in Chains : LayOut(c)
  \/ \E q \in Ports, p \in Pads : Move(q, p)

MapleSpec == MapleInit /\ [][MapleNext]_mapleVars

-----------------------------------------------------------------------------
Understood == {1, 3, 5, 9, 128, 130, 132, 134}

Replies ==
  {NoReply, NoDevice} \cup [code : 0 .. 255, port : Ports]
    \cup [code : {8}, port : Ports, pad : Pads]

MapleTypeOK ==
  /\ chain \in Chains \cup {<<>>}
  /\ connected \subseteq Ports
  /\ pad \in [Ports -> Pads] /\ sampled \in [Ports -> Pads]
  /\ reply \in [Slot -> Replies]
  /\ done \in BOOLEAN

(* A reply is its frame's: from its own port, with the pad as in `pads' when   *)
(* it is a condition.  A port without a pad, or another unit, answers "no     *)
(* device"; a pad does so only to what it does not know.                     *)
Answers(r, f, pads) ==
  /\ r # NoReply
  /\ f.port \notin connected \/ f.sub => r = NoDevice
  /\ r = NoDevice => \/ f.port \notin connected \/ f.sub
                    \/ f.command \notin Understood \/ f.func = "other"
  /\ r # NoDevice => r.port = f.port
  /\ r.code = 8 => r.pad = pads[f.port]

(* When the interrupt is up every frame of the chain, up to the thirty-second, *)
(* has its reply (dc_maple_dma), and a condition is the pad's as it was when   *)
(* the DMA ran, not as it is now.                                           *)
AllAnswered ==
  done => \A k \in 1 .. Len(chain) :
    chain[k].op = 0 /\ k <= MaxFrames => Answers(reply[chain[k].to], chain[k], sampled)
=============================================================================
