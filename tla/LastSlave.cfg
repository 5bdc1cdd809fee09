SPECIFICATION Spec
CONSTANTS
  Area <- Areas
  Gap <- Gaps
  RatioDen = 4
  Ratio <- Quarters
  MaxWindows = 5
INVARIANT
  LastTakesTheRemaining
