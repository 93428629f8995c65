\* One thread and a file whose features are found expired after mutex_ is released.
SPECIFICATION MCSpec
CONSTANTS
  t1 = t1
  Threads = {t1}
  Files <- MCFiles
  Symbols <- MCSymbols
  Numbers <- MCNumbers
  None = None
  FeatureSet = "FS"
  Enclosing <- MCEnclosing
  Databases <- Expired
  Questions <- MCQuestions
  MaxCalls = 2
INVARIANTS NoTraceOfFailure
CHECK_DEADLOCK FALSE
