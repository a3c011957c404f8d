----------------------------- MODULE InputBuffer -----------------------------
(***************************************************************************)
(* app_read_input_from_stdin, src/io/input.c: a headless request is read   *)
(* into a buffer that doubles up to a limit, a chunk at a time.  fread()   *)
(* may stop short at the end of the input or at an error; an error need    *)
(* not last, and the bytes before it are kept.                             *)
(***************************************************************************)
EXTENDS Integers

CONSTANTS INPUT_MAX_SIZE,               \* 524288 in the code
          INPUT_BUFFER_INITIAL_SIZE,    \* 131072
          INPUT_BUFFER_READ_CHUNK_SIZE, \* 8192
          MaxInput                      \* bound on the input's size

ASSUME SizesAssumption ==
  /\ INPUT_MAX_SIZE \in Nat /\ INPUT_BUFFER_INITIAL_SIZE \in Nat
  /\ INPUT_BUFFER_READ_CHUNK_SIZE \in Nat /\ MaxInput \in Nat
  /\ 0 < INPUT_BUFFER_INITIAL_SIZE /\ INPUT_BUFFER_INITIAL_SIZE <= INPUT_MAX_SIZE
  /\ 1 < INPUT_MAX_SIZE
  /\ 0 < INPUT_BUFFER_READ_CHUNK_SIZE /\ INPUT_BUFFER_READ_CHUNK_SIZE <= INPUT_MAX_SIZE

MAX == INPUT_MAX_SIZE
INITIAL == INPUT_BUFFER_INITIAL_SIZE
CHUNK == INPUT_BUFFER_READ_CHUNK_SIZE

VARIABLES stage,    \* "open", "head" and "read" of the loop, "done"
          capacity,
          total,    \* total_size
          room,     \* bytes_to_read
          left,     \* what the stream still holds
          ended,    \* feof(stdin)
          failed,   \* ferror(stdin)
          result,   \* "ok" or an errno
          size      \* history: all the stream held

bufferVars == <<stage, capacity, total, room, left, ended, failed, result, size>>

BufferInit ==
  /\ stage = "open" /\ capacity = 0 /\ total = 0 /\ room = 0
  /\ size \in 0..MaxInput /\ left = size
  /\ ended = FALSE /\ failed = FALSE /\ result = "none"

FinishReading(r) == stage' = "done" /\ result' = r

(* A regular file of a known size gets a buffer of that size.  The size says
   little about what will be read: the file's offset may not be 0, and the
   file may grow.  Size 0 stands for everything that is not such a file. *)
FirstCapacity(st_size) ==
  IF st_size = 0 THEN INITIAL
  ELSE IF st_size < MAX - 1 THEN st_size + 1
  ELSE MAX

Open ==
  /\ stage = "open"
  /\ \/ /\ \E st_size \in 0..MaxInput : capacity' = FirstCapacity(st_size)
        /\ stage' = "head" /\ UNCHANGED result
     \/ FinishReading("ENOMEM") /\ UNCHANGED capacity
  /\ UNCHANGED <<total, room, left, ended, failed, size>>

------------------------------------------------------------------------------
(* The head of the loop: room for a chunk and the terminating NUL. *)

Remaining(c) == c - total - 1

(* Room for one byte more than the chunk is asked for: a mutant of Cramped. *)
CrampedAtChunk == Remaining(capacity) <= CHUNK

Cramped == Remaining(capacity) < CHUNK

Doubled == IF 2 * capacity > MAX THEN MAX ELSE 2 * capacity

Enlarged == IF Cramped THEN Doubled ELSE capacity

(* After doubling a chunk is taken to fit: a mutant of Request. *)
RequestChunk == CHUNK

Request ==
  IF Remaining(Enlarged) < CHUNK THEN Remaining(Enlarged) ELSE CHUNK

TooLarge ==
  \/ total >= MAX - 1
  \/ Cramped /\ Doubled <= capacity
  \/ Request = 0

Refuse ==
  /\ stage = "head" /\ TooLarge
  /\ FinishReading("E2BIG")
  /\ UNCHANGED <<capacity, total, room, left, ended, failed, size>>

GrowFails ==
  /\ stage = "head" /\ ~TooLarge /\ Cramped
  /\ FinishReading("ENOMEM")
  /\ UNCHANGED <<capacity, total, room, left, ended, failed, size>>

MakeRoom ==
  /\ stage = "head" /\ ~TooLarge
  /\ capacity' = Enlarged /\ room' = Request
  /\ stage' = "read"
  /\ UNCHANGED <<total, left, ended, failed, result, size>>

------------------------------------------------------------------------------
(* fread() puts n bytes into the buffer. *)
Deliver(n) ==
  \/ /\ n = room \/ n = left
     /\ ended' = (ended \/ n < room) /\ UNCHANGED failed
  \/ /\ n < room /\ ~ended
     /\ failed' = TRUE /\ UNCHANGED ended

(* A short read is taken for the last one, before it is counted: a mutant of
   Received. *)
ReceivedNothingAtEnd(n) ==
  IF ended' THEN FinishReading("ok") /\ UNCHANGED total
  ELSE IF n = 0 /\ failed' THEN FinishReading("EIO") /\ UNCHANGED total
  ELSE stage' = "head" /\ total' = total + n /\ UNCHANGED result

(* An error is tried again: a mutant of Received. *)
ReceivedRetrying(n) ==
  IF n = 0 /\ ended' THEN FinishReading("ok") /\ UNCHANGED total
  ELSE stage' = "head" /\ total' = total + n /\ UNCHANGED result

(* What the loop makes of it. *)
Received(n) ==
  IF n = 0 /\ ended' THEN FinishReading("ok") /\ UNCHANGED total
  ELSE IF (n = 0 /\ failed') \/ n > MAX - 1 - total
         THEN FinishReading("EIO") /\ UNCHANGED total
  ELSE stage' = "head" /\ total' = total + n /\ UNCHANGED result

Read ==
  /\ stage = "read"
  /\ \E n \in 0..room :
       n <= left /\ Deliver(n) /\ left' = left - n /\ Received(n)
  /\ UNCHANGED <<capacity, room, size>>

BufferRead == stage = "done" /\ UNCHANGED bufferVars

BufferNext == Open \/ Refuse \/ GrowFails \/ MakeRoom \/ Read \/ BufferRead

(* Whoever writes the input goes on, or closes it. *)
BufferSpec == BufferInit /\ [][BufferNext]_bufferVars /\ WF_bufferVars(BufferNext)

------------------------------------------------------------------------------
BufferTypeOK ==
  /\ stage \in {"open", "head", "read", "done"}
  /\ capacity \in 0..MAX /\ total \in Nat /\ room \in Nat
  /\ left \in Nat /\ size \in Nat
  /\ ended \in BOOLEAN /\ failed \in BOOLEAN
  /\ result \in {"none", "ok", "E2BIG", "ENOMEM", "EIO"}

(* What fread() is asked for fits into the buffer, with a byte to spare for
   the NUL, and the subtraction of unsigned sizes at the loop's head does not
   wrap: whatever capacities the file's size and the doubling lead to. *)
BufferHoldsInput ==
  /\ stage # "open" /\ result # "ENOMEM" => total < capacity
  /\ stage = "read" => total + room < capacity

(* An input that is accepted was read to its end, across short reads and
   passing errors. *)
AcceptsWholeInput == result = "ok" => total = size

(* An input is refused as too large only within a chunk of the limit, and
   none is accepted at the limit: whatever pieces it arrives in, the size
   fstat() reported, and the capacities passed through.  In between, all of
   these do count. *)
RefusesNearLimit ==
  /\ result = "E2BIG" => size >= MAX - CHUNK
  /\ result = "ok" => size < MAX - 1

(* The loop ends: no input makes it read nothing for ever. *)
ReadEnds == <>(stage = "done")

(* input.c:80: "Input exceeds maximum size of INPUT_MAX_SIZE - 1 bytes". *)
MaximumPayloadAccepted == result = "E2BIG" => size > MAX - 1
==============================================================================
