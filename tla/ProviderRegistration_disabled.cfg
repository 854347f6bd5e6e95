SPECIFICATION FairSpec
CONSTANTS
  Sensors = {1, 2}
  Secure = {1, 2}
  Complete = {1, 2}
  Udp = Udp
  Http = Http
  Https = Https
  Threads = {Udp, Https}
  Routes <- OneRouteEach
  StrictRemove = FALSE
PROPERTY
  DisabledSensorIsForgotten
CHECK_DEADLOCK FALSE
