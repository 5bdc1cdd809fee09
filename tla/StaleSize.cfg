SPECIFICATION Spec
CONSTANTS
  t1 = t1
  t2 = t2
  w1 = w1
  w2 = w2
  small = small
  large = large
  None = None
  NoSize = NoSize
  Toplevel <- Windows
  Workspace <- OneWorkspace
  Size <- TwoSizes
  LayoutSize <- TwoSizes
  TimeOutTicks = 3
  MaxEntries = 2
PROPERTY
  SnapshotUntilContent
