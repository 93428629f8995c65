\* Two threads with a call each, over 266 databases of up to five files.
SPECIFICATION MCSpec
CONSTANTS
  t1 = t1
  t2 = t2
  Threads = {t1, t2}
  Files <- MCFiles
  Symbols <- MCSymbols
  Numbers <- MCNumbers
  None = None
  FeatureSet = "FS"
  Enclosing <- MCEnclosing
  Databases <- MCDatabases
  Questions <- MCQuestions
  MaxCalls = 1
INVARIANTS TypeOK TablesWhole ValidationKept FailuresKnown
PROPERTIES ImplementsFilePool CallsReturn
CHECK_DEADLOCK FALSE
