CONSTANTS
  INPUT_MAX_SIZE = 32
  INPUT_BUFFER_INITIAL_SIZE = 8
  INPUT_BUFFER_READ_CHUNK_SIZE = 4
  MaxInput = 34
SPECIFICATION BufferSpec
INVARIANT MaximumPayloadAccepted
