CONSTANTS
  Capacity = 2
  MaxMessages = 3
  MaxDepth = 4
  NoMessage = NoMessage
SPECIFICATION FairSpec
INVARIANTS
  TypeOK AllShownInOrder StaleOnlyBetweenMessages
PROPERTY QReturns
CHECK_DEADLOCK FALSE
