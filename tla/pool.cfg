SPECIFICATION NetFairSpec
CONSTANTS
  Pool = 10
  Drivers = {"sleep_driver", "connection_loop", "net_loop", "client_driver", "socket_driver", "alvik_driver", "clock_loop", "server_loop"}
  Sleepers = {s1, s2}
  SleepDepth = 1
  Dials = {d1}
  DialDepth = 1
  Offset = 20
  Wrap = 26
  Boot = 22
  Horizons = {25, 28}
  Timeout = 1
  RetryDelay = 1
  Resync = 2
  MaxFaults = 2
  MaxDrift = 1
  Builds = {{"alvik", "sockets", "mdns"}, {"clock"}, {"led", "pixel"}, {"led"}}
  StackSockets = 4
  HeldSockets = 1
INVARIANTS
  NetTypeOK
  NoNeedlessPanic
  ClockAccurate
PROPERTIES
  SleepsEnd
  KeepsSynced
CHECK_DEADLOCK FALSE
