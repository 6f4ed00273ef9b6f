\* Two callers with two calls each, one reconnect, channels of one.  The node
\* reads its requests and need not answer them; an answer may be empty.
SPECIFICATION FairSpec
CONSTANTS
  Caller = {c1, c2}
  CMD_QUEUE = 1
  RECONNECT_MAX = 2
  Body <- MCBody
  MaxCalls = 2
  MaxGeneration = 1
  Nil = Nil
INVARIANTS
  TypeOK
  AnswersOwnCall
  NoOrphanedCaller
  PendingIsOwed
PROPERTIES
  EveryCallEnds
  ImplementsCalls
