SPECIFICATION MCSpec
CONSTANTS
  Messages = {m1, m2, m3}
  NoMessage = NoMessage
  SyncCallers = {a1}
  AsyncCallers = {a2}
  Senders = {s1, s2}
  JobThreads = {s2}
  NoSender = NoSender
  MaxDepth = 2
  MaxQueued = 3
INVARIANTS
  FreedWithTheLastReference
  RepliesAnswerTheCall
  OneMessageForOneWait
PROPERTIES
  SentMessagesAreReceived
  SendersReturn
CHECK_DEADLOCK FALSE
