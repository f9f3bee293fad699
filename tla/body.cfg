SPECIFICATION SceneSpec
CONSTANTS
  Requests = {r1, r2}
  Runs = {k1, k2}
  Rc = Rc
  Others = {k1, k2, Rc}
  MaxDuration = 2
  MaxTicks = 2
  Loads = {l1}
  Default = Default
  NoScene = NoScene
  Stopped = Stopped
  None = None
SYMMETRY Symmetry
INVARIANTS
  SceneInv
  NoTickLost
  RestAfterClear
PROPERTIES
  OwnDuration
  BodyImplemented
  HostWins
CHECK_DEADLOCK FALSE
