\* One writer, one reader: a client and the handler thread it commands.
CONSTANTS
  Writers = {w1}
  Readers = {r1}
  ItemNum = 3
  Items = {a, b}
  NoItem = none
SPECIFICATION FairSpec
INVARIANTS NoSlotRace PermitsConserved
PROPERTIES WritersReturn Channel
