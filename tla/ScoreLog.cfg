CONSTANTS
  Devices = {1, 2}
  Shapes <- MCShapes
  LetterOf <- MCLetters
  TapKinds = {"ippon.add", "ippon.remove"}
  MaxStamp = 2
  MaxTaps = 2
  MaxWrites = 2
  MaxLost = 1
  MaxReopens = 1
  MaxActs = 3
SPECIFICATION Spec
CHECK_DEADLOCK FALSE
INVARIANT VerdictMatchesScoreline
PROPERTIES ReplayIsTheMatch TapsCountOnce FirstResultStands
