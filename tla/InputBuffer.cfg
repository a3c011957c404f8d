\* Two doublings to the limit, as in the code, inputs on both sides of it, every size
\* fstat() may report.
CONSTANTS
  INPUT_MAX_SIZE = 32
  INPUT_BUFFER_INITIAL_SIZE = 8
  INPUT_BUFFER_READ_CHUNK_SIZE = 4
  MaxInput = 34
SPECIFICATION BufferSpec
INVARIANTS BufferHoldsInput AcceptsWholeInput RefusesNearLimit
PROPERTY ReadEnds
