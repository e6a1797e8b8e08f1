SPECIFICATION BusSpec
CONSTANTS
  x = x
  vtable = vtable
  ones = ones
  pressed = pressed
  released = released
  RamSize = 16777216
  Values = {0, x, vtable}
  Zero = 0
  VtablePtr = vtable
  AllOnes = ones
  Addrs <- MCAddrs
  Buses <- MCBuses
  Entries <- MCEntries
  Slots = {0, 1}
  Places <- MCPlaces
  Rate = 3
  Full = 20
  Counts = {0, 4, 9}
  MaxMs = 6
  MaxFrames = 3
  Chains <- MCChains
  Slot = {1, 2, 3}
  Pads = {pressed, released}
  Coins = 3
  MaxCoins = 4
  Cards = {1, 2}
  Buttons = {0, 1}
INVARIANTS
  TypeOK
  AliasesMeet
  AllAnswered
  CreditsAddUp
PROPERTIES
  CountIsElapsed
