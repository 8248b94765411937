CONSTANTS
  Wire = {"completions"}
  Names = {"read"}
  MaxRetries = 1
  Pieces = {0, 2}
  MaxCalls = 1
  MaxAsked = 1
SPECIFICATION CallSpec
INVARIANT CutStreamsRejected
CHECK_DEADLOCK FALSE
