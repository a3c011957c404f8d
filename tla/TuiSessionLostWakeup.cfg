CONSTANTS
  Window = {w1, w2, w3}
  NoWindow = NoWindow
  STACK_MAX = 16
  Heights = {24}
SPECIFICATION Spec
PROPERTY SignalEndsProgram
