------------------------------ MODULE NaomiIo ------------------------------
(***************************************************************************)
(* The Naomi's JVS I/O board (src/src/hal/naomi_io.c): buttons, coins and    *)
(* cards come from the operator's side, and a JVS DMA writes their state     *)
(* into the game's buffer.  Nothing under src/ calls these functions; the    *)
(* actions are the calls a game project makes.  A card's data and the board  *)
(* registers, which are stored and read back, are left out.                *)
(***************************************************************************)
EXTENDS Integers

CONSTANTS
  Coins,     \* values of coin_count: 256
  MaxCoins,  \* bound: coins put in for a player
  Cards,     \* card ids
  Buttons    \* states of the buttons, the system's and each player's

ASSUME NaomiAssumption == Coins \in Nat \ {0} /\ MaxCoins \in Nat /\ 0 \in Buttons

Players == {0, 1}
NoCard == 0

VARIABLES
  coin,     \* coin_count of each player
  button,   \* players[p].buttons
  system,   \* system_buttons
  state,    \* card_reader.state: "empty" or "ready"
  card,     \* card_reader.card_id
  buffer,   \* the reply in RAM
  dropped,  \* coins put in since the start; no variable of the program
  credit    \* coins the game has counted from the replies, likewise

naomiVars == <<coin, button, system, state, card, buffer, dropped, credit>>

NoCoins == [p \in Players |-> 0]

NaomiInit ==
  /\ coin = NoCoins /\ dropped = NoCoins /\ credit = NoCoins
  /\ system = 0 /\ button = [p \in Players |-> 0]
  /\ state = "empty" /\ card = NoCard
  /\ buffer = [coin |-> coin, button |-> button, system |-> system,
               state |-> "empty", card |-> NoCard]

Sticks(n) == IF n = Coins - 1 THEN n ELSE n + 1  \* mutant: the count stays at its limit

NoWrap(n) == n + 1  \* mutant: a wider counter

(* coin_count++ on a byte *)
Next256(n) == (n + 1) % Coins

(* naomi_io_insert_coin, by a player who puts in fewer coins between two     *)
(* replies than the counter has values.                                    *)
InsertCoin(p) ==
  /\ dropped[p] < MaxCoins /\ dropped[p] - credit[p] < Coins - 1
  /\ coin' = [coin EXCEPT ![p] = Next256(@)]
  /\ dropped' = [dropped EXCEPT ![p] = @ + 1]
  /\ UNCHANGED <<button, system, state, card, buffer, credit>>

(* naomi_io_get_player and naomi_io_set_system_buttons *)
Press(p, b) ==
  /\ button' = [button EXCEPT ![p] = b]
  /\ UNCHANGED <<coin, system, state, card, buffer, dropped, credit>>
PressSystem(b) ==
  /\ system' = b
  /\ UNCHANGED <<coin, button, state, card, buffer, dropped, credit>>

(* naomi_io_insert_card, and naomi_io_eject_card; a card may follow another. *)
InsertCard(c) ==
  /\ state' = "ready" /\ card' = c
  /\ UNCHANGED <<coin, button, system, buffer, dropped, credit>>
EjectCard ==
  /\ state' = "empty" /\ card' = NoCard
  /\ UNCHANGED <<coin, button, system, buffer, dropped, credit>>

(* What a game makes of two counts of a byte: the coins between them. *)
Between(old, new) == (new - old) % Coins

(* naomi_io_process_jvs_dma: the two bytes of the id are written only with a *)
(* card ready, and keep what an earlier reply left there otherwise.         *)
JvsDma ==
  /\ buffer' = [coin |-> coin, button |-> button, system |-> system, state |-> state,
                card |-> IF state = "ready" THEN card ELSE buffer.card]
  /\ credit' = [p \in Players |-> credit[p] + Between(buffer.coin[p], coin[p])]
  /\ UNCHANGED <<coin, button, system, state, card, dropped>>

NaomiNext ==
  \/ \E p \in Players : InsertCoin(p)
  \/ \E p \in Players, b \in Buttons : Press(p, b)
  \/ \E b \in Buttons : PressSystem(b)
  \/ \E c \in Cards : InsertCard(c)
  \/ EjectCard \/ JvsDma

NaomiSpec == NaomiInit /\ [][NaomiNext]_naomiVars

-----------------------------------------------------------------------------
NaomiTypeOK ==
  /\ coin \in [Players -> 0 .. Coins - 1]
  /\ state \in {"empty", "ready"} /\ card \in Cards \cup {NoCard}
  /\ state = "ready" => card \in Cards

(* No coin is lost or counted twice although the counter is a byte that      *)
(* wraps: what the game has counted and what the next reply will add make up *)
(* what was put in.                                                        *)
CreditsAddUp ==
  \A p \in Players : credit[p] + Between(buffer.coin[p], coin[p]) = dropped[p]
=============================================================================
