\* Three wakeups use up the timeout, the last of them half a slice; the answer
\* may come in four pieces.
CONSTANTS
  Timeout = 5
  Slice = 2
  BufferSize = 7
  Answers <- MCAnswers
  Keys = {"x", "BEL"}
  MaxTyped = 3
SPECIFICATION Spec
INVARIANT FalseOnlyOnTimeoutOrError
