CONSTANTS
  MaxEntries = 2
  APP_MAX_COMMAND_ARGS = 2
SPECIFICATION Spec
INVARIANTS ExclusionsHold LayersKeepPrecedence OutputIsDecided HeadlessFlagsAreJson RequestAppliesInOrder
