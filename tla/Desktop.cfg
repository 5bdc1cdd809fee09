SPECIFICATION Spec
CONSTANTS
  t1 = t1
  t2 = t2
  t3 = t3
  w1 = w1
  w2 = w2
  w3 = w3
  o1 = o1
  o2 = o2
  o3 = o3
  l1 = l1
  l2 = l2
  k1 = k1
  k2 = k2
  None = None
  Toplevel <- Three
  Workspace = {w1, w2, w3}
  Output = {o1, o2, o3}
  Layer = {l1, l2}
  Key = {k1, k2}
  Situation <- Everywhere
SYMMETRY Symmetry
INVARIANTS
  TypeOK
  NobodyStranded
  OnePlace
  HeldIsNowhere
  KeyGrabEnds
  DummyAlone
  PresentedIsActive
  ActiveIsShown
  AtHome
  ExclusiveKeepsKeyboard
  ActiveAgrees
