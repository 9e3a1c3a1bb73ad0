SPECIFICATION ClarifySpec
CONSTANTS
  MaxTexts = 2
  MaxTurns = 3
  MaxReplays = 1
INVARIANT ModelSeesInput
CHECK_DEADLOCK FALSE
