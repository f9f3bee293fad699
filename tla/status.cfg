SPECIFICATION StatusSpec
CONSTANTS
  Messages = {{"tof_left", "tof_top"}, {"tof_left"}, {"velocity"}}
  Readings = {0, 1}
  Zero = 0
  TouchBits = {}
  MotionBits = {"lift", "negz"}
  Upright = "negz"
  LiftBit = "lift"
  EventDepth = 2
  NoSnapshot = NoSnapshot
INVARIANTS
  StatusInv
  MasksFollow
  LiftsAlternate
