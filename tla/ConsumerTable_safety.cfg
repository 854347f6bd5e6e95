SPECIFICATION Spec
CONSTANTS
  Consumers = {1, 2}
  Conns = {c1, c2, c3}
  MaxTimeouts = 1
  StoresInOrder = FALSE
  Main = Main
  NoThread = NoThread
SYMMETRY ConnSymmetry
INVARIANTS
  TypeOK
  OneReceiverPerConsumer
  ReceiversAreOwned
  DefaultEntryIsTransient
  AbortOnlyByEarlyData
  ExitIsTidy
CHECK_DEADLOCK FALSE
