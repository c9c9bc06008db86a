\* The gateway's defaults in proportion: a handler may run six times as long as
\* a channel may look idle (1800 s against 5 min), and tokens are not scarce.
SPECIFICATION Spec
CONSTANTS
  c1 = c1
  c2 = c2
  c3 = c3
  Chats <- MCTwoChats
  NoChat = NoChat
  MaxTasks = 3
  MaxClock = 7
  MaxConcurrent = 2
  QueueCap = 2
  TaskTimeout = 6
  IdleTimeout = 1
  Retain = 3
INVARIANT
  PerChatSerial
