\* One run of the program for each invocation.  The query has two slices and a half.
CONSTANTS
  APP_SUGGEST_MAX_LEN = 64
  MaxChecks = 9
  APP_HELP_MAX_ROWS = 64
  Timeout = 5
  Slice = 2
  BufferSize = 5
  Keys = {"x"}
  MaxTyped = 1
  Answers <- MCAnswers
  APP_MAX_COMMAND_ARGS = 100
  Calls <- MCCalls
SPECIFICATION MCSpec
CHECK_DEADLOCK FALSE
INVARIANTS OneDocumentPerStream ContractIsKept FailuresAreSaid SuggestionIsNearest OffMeansOff
PROPERTIES TerminalGivenBack
