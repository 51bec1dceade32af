SPECIFICATION MCSpec
CONSTANTS
  packet1 = packet1
  packet2 = packet2
  sync = sync
  other = other
  NoMsg = NoMsg
  Msgs <- MCMsgs
  Packets <- MCPackets
  Synchronizers <- MCSynchronizers
  Size <- MCSize
  Priorities <- MCPriorities
  FlushTypes <- MCFlushTypes
  Owner = owner
  Players = {audio, video}
  m_QueueSize = 3
  Formats = {f1, f2}
  NoFormat = NoFormat
INVARIANTS
  DataSizeIsWhatIsQueued
  NoSleepOnWork
  CountsReferences
  BuffersAreInOnePlace
PROPERTIES
  ImplementsMessageService
  ConsumerAnswers
  Barrier
  EverybodyLeaves
  ShowsWhatWasWritten
  QueuedFramesAreShown
CHECK_DEADLOCK FALSE
