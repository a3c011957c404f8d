\* An array of two entries and five windows: nesting one, two and three past
\* the capacity, with every resize in between.
CONSTANTS
  Window = {w1, w2, w3, w4, w5}
  NoWindow = NoWindow
  STACK_MAX = 2
SPECIFICATION Spec
INVARIANT
  NoDanglingBackground
PROPERTY
  ScreensSpec
