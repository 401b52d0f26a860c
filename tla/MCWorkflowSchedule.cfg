SPECIFICATION MCSpec
CONSTANTS
  Registrants = {r1, r2}
  Definitions = {a, b}
  Sweepers = {w1, w2}
  LastSlot = 2
  MaxTroubles = 1
INVARIANT SchedulesAreSound
PROPERTIES  EverySlotIsSettled
