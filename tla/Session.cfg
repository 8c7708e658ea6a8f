SPECIFICATION TracedSpec
CONSTANTS
  MaxCommands = 3
  MaxLinks = 2
  MaxMessages = 1
INVARIANTS NothingLeaks OwnAnswer RepliesAccounted
PROPERTIES AnswersLag CallsEnd
CHECK_DEADLOCK FALSE
