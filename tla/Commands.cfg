SPECIFICATION Spec
CONSTANT MaxItems = 2
INVARIANTS ErrorsAreReported AnswersUnderstood NothingSilentlyLost QueuedIsNoResult
