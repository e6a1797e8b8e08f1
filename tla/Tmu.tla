-------------------------------- MODULE Tmu --------------------------------
(***************************************************************************)
(* One channel of the timer unit as sh4_read32 and sh4_write32 simulate it   *)
(* (src/src/recompiler/sh4_cpu.c:820-850, 1075-1087): the count is computed  *)
(* at each read from the host's milliseconds since the time base, and a read *)
(* that finds it run out reloads it.  TSTR, the prescaler and the underflow  *)
(* flag are stored and read back, and change nothing.                       *)
(***************************************************************************)
EXTENDS Integers

CONSTANTS
  Rate,      \* ticks in a millisecond: 12500
  Full,      \* what a reload of 0 stands for: 2^32 - 1
  Counts,    \* values the game writes to TCNT and TCOR
  MaxMs      \* bound: the host's clock

ASSUME TmuAssumption ==
  /\ Rate \in Nat \ {0} /\ Full \in Nat
  /\ Counts \subseteq 0 .. Full /\ MaxMs \in Nat

VARIABLES
  ms,     \* platform_get_ticks_ms
  base,   \* tmu_write_time_ms; 0 also says "never written"
  tcnt,   \* the register as stored
  tcor,   \* the reload register
  shown,  \* what the last read returned
  from    \* the count the last read or write is exact for, and when; or Never

tmuVars == <<ms, base, tcnt, tcor, shown, from>>

Never == [count |-> -1, at |-> 0]

TmuInit ==
  /\ ms = 0 /\ base = 0 /\ tcnt = 0 /\ tcor = 0 /\ shown = 0 /\ from = Never

TmuTick == ms < MaxMs /\ ms' = ms + 1 /\ UNCHANGED <<base, tcnt, tcor, shown, from>>

WriteTcor(v) == tcor' = v /\ UNCHANGED <<ms, base, tcnt, shown, from>>

(* Mutant: writing the count does not move the time base. *)
WriteTcntKeepsBase(v) ==
  /\ tcnt' = v
  /\ from' = [count |-> v, at |-> ms]
  /\ UNCHANGED <<ms, base, tcor, shown>>

WriteTcnt(v) ==
  /\ tcnt' = v /\ base' = ms
  /\ from' = [count |-> v, at |-> ms]
  /\ UNCHANGED <<ms, tcor, shown>>

Ticks == IF base = 0 THEN 0 ELSE (ms - base) * Rate
Reload == IF tcor = 0 THEN Full ELSE tcor

(* The ticks that had passed are taken off the new count as well, so only   *)
(* the reads after this one are exact.                                     *)
ReadTcnt ==
  /\ IF Ticks >= tcnt
       THEN tcnt' = Reload /\ base' = ms /\ from' = [count |-> Reload, at |-> ms]
       ELSE UNCHANGED <<tcnt, base, from>>
  /\ shown' = IF Ticks < tcnt' THEN tcnt' - Ticks ELSE tcnt'
  /\ UNCHANGED <<ms, tcor>>

TmuNext ==
  \/ TmuTick \/ ReadTcnt
  \/ \E v \in Counts : WriteTcor(v) \/ WriteTcnt(v)

TmuSpec == TmuInit /\ [][TmuNext]_tmuVars

-----------------------------------------------------------------------------
TmuTypeOK ==
  /\ ms \in 0 .. MaxMs /\ base \in 0 .. MaxMs /\ base <= ms
  /\ {tcnt, tcor, shown} \subseteq 0 .. Full

(* A game that measures time with the counter gets the time: a read that     *)
(* does not reload returns the count written, or reloaded, less the ticks    *)
(* since then, unless that was in the host's first millisecond.            *)
CountIsElapsed ==
  [][ReadTcnt /\ tcnt' = tcnt /\ base' = base /\ from.at # 0 =>
       shown' = from.count - (ms - from.at) * Rate]_tmuVars
=============================================================================
