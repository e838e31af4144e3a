CONSTANTS
  Devices = {d1, d2}
  Fighters <- FightersAB
  Saves <- SavesAB
  Picks <- PicksAB
  MaxBouts = 4
  Budgets <- MCBudgets
SPECIFICATION Spec
CHECK_DEADLOCK FALSE
INVARIANTS
    WinnerStaysOn
PROPERTIES
    AdvanceFits
    RemoveUndoesItsRecord
    EveryRecordCloses
