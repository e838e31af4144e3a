CONSTANTS
  ours = ours
  final = final
  theirs = theirs
  Matches = {ours, final, theirs}
  CompOf <- MCCompOf
  InPool <- MCPools
  CourtSet <- MCCourts
  Writes = {w1, w2}
  Kinds <- AllKinds
  Handlers = {h1, h2}
  Layouts <- MCLayouts
  MaxTime = 3
  Lunch = {2}
  EditTimes = {0}
  MaxEvents = 2
SPECIFICATION Spec
CHECK_DEADLOCK FALSE
INVARIANTS
    OneGatedMatchPerCourt
    WritesLandOnce
    NobodyStuck
PROPERTIES
    SwapIsWhole
    MovedStandsWhereItWas
