SPECIFICATION FairSpec
CONSTANTS
  Consumers = {1}
  Conns = {c1, c2}
  MaxTimeouts = 2
  StoresInOrder = TRUE
  Main = Main
  NoThread = NoThread
INVARIANT
  NoCircularWait
PROPERTIES
  AbandonedEntryIsFrozen
  DroppedConsumerIsErased
  PacketIsAnswered
  ExitCompletes
CHECK_DEADLOCK FALSE
