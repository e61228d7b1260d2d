SPECIFICATION FairSpec
CONSTANTS
  Functions <- MCFunctions
  RequestParams <- MCParams
  RequestIds <- MCIds
  Lens <- MCLens
  OutLens <- MCLens
  PrefixIn = 7
  PrefixOut = 8
  LogMethod = "printf"
  GlobalLogLevel <- MCLevel
  MaxRequests = 3
INVARIANTS TypeOK AnswersMatch KnownIsCalled
PROPERTY AnswerComes
CHECK_DEADLOCK FALSE
