\* Two injected messages, answers with up to two calls, one retry.
CONSTANTS
  SteeringMode = "one"
  FollowUpMode = "all"
  HistoryLength = 1
  HookedLengths <- SameHistory
  MaxCalls = 2
  MaxInjected = 2
  MaxAnswers = 2
  MaxRetries = 1
SPECIFICATION FairSpec
INVARIANTS
  ContextPaired
  SavedPaired
  NoFalseSuccess
  InjectedKept
  SavedFromPrompt
PROPERTY CancelEnds
CHECK_DEADLOCK FALSE
