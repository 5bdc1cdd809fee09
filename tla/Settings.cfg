SPECIFICATION SettingsSpec
CONSTANTS
  b1 = b1  b2 = b2  b3 = b3  b4 = b4  b5 = b5
  k1 = k1  k2 = k2  p1 = p1  p2 = p2  p3 = p3  v1 = v1  v2 = v2  v3 = v3
  us = us  bogus = bogus  o1 = o1  o2 = o2
  None = None
  Block <- Blocks
  Word <- Words
  Keyboard = {k1, k2}
  Pointer <- ThreePointers
  Libinput <- Driven
  Trackpad <- Touchpads
  Accelerating <- Faster
  LeftHanding <- Swapping
  Window = {v1, v2, v3}
  TouchSetting = {"dwt"}
  Rate = {1, 2}
  Keymap = {us, bogus}
  BadKeymap = {bogus}
  DeviceRule <- ThreeRules
  Output = {o1, o2}
  Modes <- ManyModes
  ScreenRule <- SizeRules
  BackendMode <- OtherModes
  MaxRules = 3
SYMMETRY BlockSymmetry
INVARIANTS
  NoDangling
  NothingIsLost
  NoOtherRefusal
  KeyboardsAgree
  PointersFollowRules
  DecorationsAgree
  FastestOfTheSize
  WidthIsRemembered
CHECK_DEADLOCK FALSE
