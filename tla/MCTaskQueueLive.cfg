\* Two chats contend for one token, and pruning keeps one task.
SPECIFICATION FairSpec
CONSTANTS
  c1 = c1
  c2 = c2
  c3 = c3
  Chats <- MCTwoChats
  NoChat = NoChat
  MaxTasks = 3
  MaxClock = 4
  MaxConcurrent = 1
  QueueCap = 1
  TaskTimeout = 1
  IdleTimeout = 2
  Retain = 1
INVARIANT
  LiveTasksAccounted
PROPERTY
  EveryTaskServed
