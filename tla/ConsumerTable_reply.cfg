SPECIFICATION Spec
CONSTANTS
  Consumers = {1, 2}
  Conns = {c1, c2, c3}
  MaxTimeouts = 2
  StoresInOrder = TRUE
  Main = Main
  NoThread = NoThread
SYMMETRY ConnSymmetry
PROPERTY
  KnownConsumerGetsValue
CHECK_DEADLOCK FALSE
