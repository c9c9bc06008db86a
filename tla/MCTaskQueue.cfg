\* Three chats contend for two tokens; a handler takes at most one tick, a token
\* is waited for at most one more, and channels are reclaimed after three.
SPECIFICATION Spec
CONSTANTS
  c1 = c1
  c2 = c2
  c3 = c3
  Chats <- MCThreeChats
  NoChat = NoChat
  MaxTasks = 4
  MaxClock = 3
  MaxConcurrent = 2
  QueueCap = 1
  TaskTimeout = 1
  IdleTimeout = 2
  Retain = 3
SYMMETRY ChatSymmetry
INVARIANTS
  TypeOK
  PerChatSerial
  SemaphoreAccounting
  NoSendOnClosed
PROPERTY
  ImplementsService
