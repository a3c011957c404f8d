CONSTANTS
  Window = {w1, w2, w3, w4}
  NoWindow = NoWindow
  STACK_MAX = 16
  Heights = {2, 3, 4, 8, 24}
SPECIFICATION Spec
INVARIANTS EveryWindowHeld RepaintsInnermostScreen LeavesNothingBehind ExitCodeIsEarned
PROPERTIES FollowsScreenDiscipline SeenSignalEndsProgram WaitsOrEnds
