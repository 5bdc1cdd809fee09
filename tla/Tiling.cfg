SPECIFICATION Spec
CONSTANTS
  Area <- Areas
  Gap <- Gaps
  RatioDen = 4
  Ratio <- Quarters
  MaxWindows = 5
INVARIANTS
  TypeOK
  NoOverlap
  WithinSides
  NoGapBelow
