\* Every small document is read, each text is drawn once.  Widths are scaled down.
CONSTANTS
  MAX_DEPTH = 4
  MAX_ARGS = 2
  Documents <- MCDocuments
  APP_CLI_WIDTH_MIN = 8
  APP_CLI_WIDTH_MAX = 16
  LabelMin = 3
  LabelMax = 6
  Subjects <- MCSubjects
SPECIFICATION MCSpec
INVARIANTS RecursionBounded AcceptsItsGrammar LinesFit StringsSurvive
