--------------------------- MODULE G2Driver_proofs --------------------------
(***************************************************************************)
(* What TLAPS proves of the G2 channels, for any set of channels, any table *)
(* large enough for them, any rate and any lengths.                        *)
(***************************************************************************)
EXTENDS G2Driver, FiniteSetTheorems, TLAPS

(* The busy period is a positive number of retire calls. *)
LEMMA PollsPositive == ASSUME NEW n \in Nat PROVE Polls(n) \in Nat \ {0}
<1>1. n \div BytesPerPoll \in Int
  BY G2Assumption
<1> QED
  BY <1>1 DEF Polls

(* Every variable stays in its type: registers, table and deadlines. *)
THEOREM TypeCorrect == Spec => []TypeOK
<1>1. Init => TypeOK
  BY G2Assumption DEF Init, G2Init, TypeOK
<1>2. TypeOK /\ [Next]_vars => TypeOK'
  <2> SUFFICES ASSUME TypeOK, [Next]_vars PROVE TypeOK'
    OBVIOUS
  <2>1. CASE Poll
    <3>1. owner' \in [Slots -> Chan \cup {None}]
      BY <2>1 DEF Poll, RetireFinished, TypeOK
    <3>2. left' \in [Slots -> Nat]
      BY <2>1 DEF Poll, RetireFinished, Due, TypeOK
    <3>3. len' \in [Chan -> Nat] /\ start' \in [Chan -> {0, 1}]
      BY <2>1 DEF Poll, RetireFinished, TypeOK
    <3>4. istnrm' \in SUBSET Chan
      BY <2>1 DEF Poll, RetireFinished, Due, TypeOK
    <3>5. age' \in [Chan -> Nat]
      BY <2>1 DEF Poll, AgeTransfers, TypeOK
    <3> QED
      BY <2>1, <3>1, <3>2, <3>3, <3>4, <3>5 DEF Poll, TypeOK
  <2>2. ASSUME NEW c \in Chan, Program(c) PROVE TypeOK'
    BY <2>2, G2Assumption DEF Program, WriteLen, TypeOK
  <2>3. ASSUME NEW c \in Chan, Begin(c) PROVE TypeOK'
    <3>1. Polls(len[c]) \in Nat
      BY PollsPositive DEF TypeOK
    <3> QED
      BY <2>3, <3>1 DEF Begin, WriteStart, StartBusy, IsFirst, TypeOK
  <2>4. ASSUME NEW c \in Chan, Complete(c) PROVE TypeOK'
    BY <2>4 DEF Complete, Ack, TypeOK
  <2>5. CASE UNCHANGED vars
    BY <2>5 DEF vars, TypeOK
  <2> QED
    BY <2>1, <2>2, <2>3, <2>4, <2>5 DEF Next
<1> QED
  BY <1>1, <1>2, PTL DEF Spec

(* g2_start_busy finds room: with no two entries of one channel, and none   *)
(* of the channel being started, the table cannot be full.                 *)
LEMMA RoomToStart ==
  ASSUME TypeOK, OneEntryPerChannel, NEW c \in Chan,
         \A i \in Slots : owner[i] # c
  PROVE  Usable(c) # {}
<1> SUFFICES ASSUME Usable(c) = {} PROVE FALSE
  OBVIOUS
<1> DEFINE Others == Chan \ {c}
<1>1. owner \in [Slots -> Others]
  BY DEF TypeOK, Usable
<1>2. IsFiniteSet(Slots) /\ Cardinality(Slots) = NumSlots
  BY G2Assumption, FS_Interval DEF Slots
<1>3. IsFiniteSet(Others) /\ Cardinality(Others) = Cardinality(Chan) - 1
  BY G2Assumption, FS_RemoveElement
<1>4. Cardinality(Chan) \in Nat
  BY G2Assumption, FS_CardinalityType
<1>5. Cardinality(Others) < Cardinality(Slots)
  BY <1>2, <1>3, <1>4, G2Assumption
<1>6. \E i, j \in Slots : i # j /\ owner[i] = owner[j]
  <2> HIDE DEF Others
  <2> QED BY <1>1, <1>2, <1>3, <1>5, FS_PigeonHole
<1> QED
  BY <1>1, <1>6, G2Assumption DEF OneEntryPerChannel

-----------------------------------------------------------------------------
(* The invariant is inductive: one lemma per operation. *)

LEMMA ProgramKeeps ==
  ASSUME G2Inv, TypeOK', NEW c \in Chan, Program(c)
  PROVE  G2Inv'
<1>1. PICK n \in Lengths : /\ len' = [len EXCEPT ![c] = n]
                           /\ wanted' = [wanted EXCEPT ![c] = n]
  BY DEF Program, WriteLen
<1>2. /\ UNCHANGED <<owner, left, istnrm, age>>
      /\ pc[c] = "idle" /\ pc' = [pc EXCEPT ![c] = "programmed"]
  BY DEF Program, WriteLen
<1> USE <1>1, <1>2 DEF G2Inv, TypeOK
<1>3. OneEntryPerChannel'
  BY DEF OneEntryPerChannel
<1>4. CompletionPending'
  BY DEF CompletionPending
<1>5. SignalledOnTime'
  BY DEF SignalledOnTime, Polls
<1>6. DeadlineInv'
  BY DEF DeadlineInv, CompletionPending, Polls
<1>7. LenInv'
  BY DEF LenInv
<1> QED
  BY <1>3, <1>4, <1>5, <1>6, <1>7

LEMMA CompleteKeeps ==
  ASSUME G2Inv, TypeOK', NEW c \in Chan, Complete(c)
  PROVE  G2Inv'
<1> USE DEF Complete, Ack, G2Inv, TypeOK
<1>1. OneEntryPerChannel'
  BY DEF OneEntryPerChannel
<1>2. CompletionPending'
  BY DEF CompletionPending
<1>3. SignalledOnTime'
  BY DEF SignalledOnTime
<1>4. DeadlineInv'
  BY DEF DeadlineInv
<1>5. LenInv'
  BY DEF LenInv
<1> QED
  BY <1>1, <1>2, <1>3, <1>4, <1>5

LEMMA BeginKeeps ==
  ASSUME G2Inv, TypeOK', NEW c \in Chan, Begin(c)
  PROVE  G2Inv'
<1>1. c \notin istnrm /\ \A i \in Slots : owner[i] # c
  BY DEF Begin, G2Inv, CompletionPending
<1>2. PICK k \in Slots : /\ k \in Usable(c)
                         /\ owner' = [owner EXCEPT ![k] = c]
                         /\ left' = [left EXCEPT ![k] = Polls(len[c])]
  BY <1>1, RoomToStart DEF Begin, WriteStart, StartBusy, IsFirst, G2Inv
<1>3. owner[k] = None
  BY <1>1, <1>2 DEF Usable
<1>4. len[c] = wanted[c] /\ wanted[c] \in Nat
  BY DEF Begin, G2Inv, LenInv, TypeOK
<1>5. Polls(wanted[c]) \in Nat \ {0}
  BY <1>4, PollsPositive
<1>6. /\ UNCHANGED <<len, start, istnrm, wanted>>
      /\ age' = [age EXCEPT ![c] = 0]
      /\ pc' = [pc EXCEPT ![c] = "running"]
  BY DEF Begin, WriteStart
<1> USE DEF TypeOK, G2Inv
<1>7. OneEntryPerChannel'
  BY <1>1, <1>2 DEF OneEntryPerChannel
<1>8. CompletionPending'
  BY <1>1, <1>2, <1>3, <1>6, G2Assumption DEF CompletionPending
<1>9. SignalledOnTime'
  BY <1>1, <1>6 DEF SignalledOnTime
<1>10. DeadlineInv'
  BY <1>1, <1>2, <1>4, <1>5, <1>6 DEF DeadlineInv
<1>11. LenInv'
  BY <1>6 DEF LenInv
<1> QED
  BY <1>7, <1>8, <1>9, <1>10, <1>11

(* A retire call: an entry is due exactly when its transfer's busy period   *)
(* ends, so what it frees is what it signals.                              *)
LEMMA PollKeeps ==
  ASSUME G2Inv, TypeOK', Poll
  PROVE  G2Inv'
<1> USE DEF TypeOK, G2Inv
<1>1. /\ owner' = [i \in Slots |-> IF i \in Due THEN None ELSE owner[i]]
      /\ left' = [i \in Slots |->
                    IF owner[i] = None \/ i \in Due THEN 0 ELSE left[i] - 1]
      /\ len' = [c \in Chan |-> IF c \in {owner[i] : i \in Due} THEN 0 ELSE len[c]]
      /\ istnrm' = istnrm \cup {owner[i] : i \in Due}
      /\ AgeTransfers
      /\ UNCHANGED <<pc, wanted>>
  BY DEF Poll, RetireFinished
<1>2. \A c \in Chan : c \in {owner[i] : i \in Due}
                      <=> \E i \in Slots : owner[i] = c /\ left[i] <= 1
  BY G2Assumption DEF Due
<1>3. \A i \in Slots : i \in Due <=> owner[i] # None /\ left[i] <= 1
  BY DEF Due
<1>4. \A c \in Chan : Polls(wanted[c]) \in Nat \ {0}
  BY PollsPositive
<1>5. \A c \in Chan, i \in Slots : owner[i] = c => InFlight(c)
  BY DEF CompletionPending, InFlight
<1>6. OneEntryPerChannel'
  BY <1>1, <1>3 DEF OneEntryPerChannel
<1>7. CompletionPending'
  <2> SUFFICES ASSUME NEW c \in Chan
               PROVE IF pc[c] = "running"
                       THEN (\E i \in Slots : owner'[i] = c) <=> c \notin istnrm'
                       ELSE c \notin istnrm' /\ \A i \in Slots : owner'[i] # c
    BY <1>1 DEF CompletionPending
  <2>1. CASE pc[c] # "running"
    BY <2>1, <1>1, <1>2, G2Assumption DEF CompletionPending
  <2>2. CASE pc[c] = "running" /\ c \in istnrm
    BY <2>2, <1>1, G2Assumption DEF CompletionPending
  <2>3. CASE pc[c] = "running" /\ c \notin istnrm
    <3>1. PICK k \in Slots : owner[k] = c
      BY <2>3 DEF CompletionPending
    <3>2. \A i \in Slots : owner[i] = c => i = k
      BY <3>1, G2Assumption DEF OneEntryPerChannel
    <3>3. c \in {owner[i] : i \in Due} <=> left[k] <= 1
      BY <1>2, <3>1, <3>2
    <3>4. owner'[k] = c <=> ~(left[k] <= 1)
      BY <1>1, <1>3, <3>1, G2Assumption
    <3>5. \A i \in Slots : owner'[i] = c => i = k
      BY <1>1, <3>2, G2Assumption
    <3> QED
      BY <2>3, <1>1, <3>3, <3>4, <3>5
  <2> QED
    BY <2>1, <2>2, <2>3
<1>8. DeadlineInv'
  <2> SUFFICES ASSUME NEW c \in Chan, NEW i \in Slots, owner'[i] = c
               PROVE left'[i] >= 1 /\ left'[i] = Polls(wanted[c]) - age'[c]
    BY <1>1 DEF DeadlineInv, Polls
  <2>1. owner[i] = c /\ i \notin Due /\ owner[i] # None
    BY <1>1, G2Assumption
  <2>2. left[i] > 1 /\ left'[i] = left[i] - 1
    BY <1>1, <1>3, <2>1
  <2>3. left[i] = Polls(wanted[c]) - age[c]
    BY <2>1 DEF DeadlineInv
  <2>4. age'[c] = age[c] + 1
    BY <1>1, <1>4, <1>5, <2>1, <2>2, <2>3 DEF AgeTransfers
  <2> QED
    BY <1>4, <2>2, <2>3, <2>4
<1>9. SignalledOnTime'
  <2> SUFFICES ASSUME NEW c \in Chan, pc[c] = "running", c \in istnrm'
               PROVE age'[c] = Polls(wanted[c])
    BY <1>1 DEF SignalledOnTime, Polls
  <2>1. CASE c \in istnrm
    BY <2>1, <1>1 DEF SignalledOnTime, AgeTransfers, InFlight
  <2>2. CASE c \notin istnrm
    <3>1. PICK i \in Slots : owner[i] = c /\ left[i] <= 1
      BY <2>2, <1>1, <1>2
    <3>2. left[i] >= 1 /\ left[i] = Polls(wanted[c]) - age[c]
      BY <3>1 DEF DeadlineInv
    <3>3. age'[c] = age[c] + 1
      BY <1>1, <1>4, <1>5, <3>1, <3>2 DEF AgeTransfers
    <3> QED
      BY <1>4, <3>1, <3>2, <3>3
  <2> QED
    BY <2>1, <2>2
<1>10. LenInv'
  BY <1>1, <1>2 DEF LenInv, CompletionPending
<1> QED
  BY <1>6, <1>7, <1>8, <1>9, <1>10

-----------------------------------------------------------------------------
LEMMA InitG2Inv == Init => G2Inv
<1> SUFFICES ASSUME Init PROVE G2Inv
  OBVIOUS
<1>1. TypeOK
  BY G2Assumption DEF Init, G2Init, TypeOK
<1> QED
  BY <1>1, G2Assumption DEF Init, G2Init, G2Inv, OneEntryPerChannel,
     CompletionPending, SignalledOnTime, DeadlineInv, LenInv

LEMMA StutterKeeps == ASSUME G2Inv, UNCHANGED vars PROVE G2Inv'
BY DEF vars, G2Inv, TypeOK, OneEntryPerChannel, CompletionPending,
   SignalledOnTime, DeadlineInv, LenInv, Polls

(* The inductive invariant holds in every behaviour. *)
THEOREM G2Safe == Spec => []G2Inv
<1>1. G2Inv /\ TypeOK' /\ [Next]_vars => G2Inv'
  BY ProgramKeeps, BeginKeeps, CompleteKeeps, PollKeeps, StutterKeeps DEF Next
<1> QED
  BY <1>1, InitG2Inv, TypeCorrect, PTL DEF Spec

(* A channel never holds two entries of the busy table. *)
THEOREM EntriesUnique == Spec => []OneEntryPerChannel
<1>1. G2Inv => OneEntryPerChannel
  BY DEF G2Inv
<1> QED
  BY <1>1, G2Safe, PTL

(* A started transfer is on its way or signalled, never both nor neither.   *)
THEOREM CompletionConserved == Spec => []CompletionPending
<1>1. G2Inv => CompletionPending
  BY DEF G2Inv
<1> QED
  BY <1>1, G2Safe, PTL

(* Every completion is signalled after exactly its own busy period. *)
THEOREM CompletionOnTime == Spec => []SignalledOnTime
<1>1. G2Inv => SignalledOnTime
  BY DEF G2Inv
<1> QED
  BY <1>1, G2Safe, PTL
=============================================================================
