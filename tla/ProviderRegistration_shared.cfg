SPECIFICATION Spec
CONSTANTS
  Sensors = {1}
  Secure = {1}
  Complete = {1}
  Udp = Udp
  Http = Http
  Https = Https
  Threads = {Udp, Http, Https}
  Routes <- TwoRoutes
  StrictRemove = FALSE
INVARIANT
  KnownSensorIsRegistered
CHECK_DEADLOCK FALSE
