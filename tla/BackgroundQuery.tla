-------------------------- MODULE BackgroundQuery --------------------------
(***************************************************************************)
(* The terminal is asked for its background colour: the cached probe of    *)
(* app_cli_term_detect_background (src/cli/style/cli_term.c) over the      *)
(* round-trip of cli_term_osc11.c.                                         *)
(*                                                                         *)
(* The terminal's mode is switched to raw, the question is written, and    *)
(* what arrives is read in slices of a timeout until it holds a terminator, *)
(* the buffer is full or the slices are used up; then it is parsed and the  *)
(* mode is set back.  The terminal answers when and in as many pieces as it *)
(* likes, or not at all; keys are typed meanwhile.                          *)
(***************************************************************************)
EXTENDS QueryConstants, Sequences, SequencesExt

Background == {"unknown", "light", "dark"}
Modes == {"canonical", "curses", "raw"}

VARIABLES
  mode,       \* the terminal's settings
  saved,      \* the settings found by tcgetattr
  at,         \* "away" outside, else the step the query is at
  remaining,  \* of the timeout, as the loop counts it
  elapsed,    \* of the timeout, as the clock does
  buf,        \* what was read
  tty,        \* what has arrived and was not read
  owed,       \* what the terminal is still to send
  typed,      \* how many keys were typed
  probed, cached,  \* the statics of app_cli_term_detect_background
  failed      \* for the properties: the last query met an error of the system

query == <<saved, at, remaining, elapsed, buf, tty, owed, typed, probed, cached, failed>>
vars == <<mode, query>>

------------------------------------------------------------------------------
(* app_cli_osc11_parse: the first complete answer in the text, whatever is
   around it; its colour.  Terminators are BEL, or ESC and a backslash. *)
Terminated(text, k) ==
  \/ k <= Len(text) /\ text[k] = "BEL"
  \/ k < Len(text) /\ text[k] = "ESC" /\ text[k + 1] = "backslash"

AnswersAt(text) ==
  {k \in DOMAIN text : /\ text[k] = "ESC ]11;rgb:" /\ k < Len(text)
                       /\ text[k + 1] \in {"light", "dark"} /\ Terminated(text, k + 2)}

Parse(text) ==
  IF AnswersAt(text) = {} THEN "unknown"
  ELSE text[1 + CHOOSE k \in AnswersAt(text) : \A m \in AnswersAt(text) : k <= m]

HasTerminator(text) == \E k \in DOMAIN text : Terminated(text, k)

------------------------------------------------------------------------------
(* app_cli_term_detect_background up to the query.  A skip is not
   remembered, nor is a program without a controlling terminal. *)
Detect(skips) ==
  /\ at = "away" /\ ~probed /\ ~skips
  /\ at' = "open"
  /\ remaining' = Timeout /\ elapsed' = 0 /\ buf' = << >> /\ typed' = 0
  /\ failed' = FALSE
  /\ UNCHANGED <<mode, saved, tty, owed, probed, cached>>

(* The colour is committed whatever came of it. *)
Commit(colour) ==
  /\ at' = "away" /\ probed' = TRUE
  /\ cached' = IF colour = "unknown" THEN cached ELSE colour

(* tcgetattr or tcsetattr fail: nothing was changed. *)
SetupFails ==
  /\ at = "open" /\ Commit("unknown") /\ failed' = TRUE
  /\ UNCHANGED <<mode, saved, remaining, elapsed, buf, tty, owed, typed>>

SetRaw ==
  /\ at = "open" /\ at' = "write"
  /\ saved' = mode /\ mode' = "raw"
  /\ UNCHANGED <<remaining, elapsed, buf, tty, owed, typed, probed, cached, failed>>

(* The question is out; the terminal owes an answer, if it knows one. *)
Write ==
  /\ at = "write" /\ at' = "poll"
  /\ \E answer \in Answers : owed' = answer
  /\ UNCHANGED <<mode, saved, remaining, elapsed, buf, tty, typed, probed, cached, failed>>

(* Nothing is read after a short write: a mutant of WriteFails. *)
WriteFailsAndReturns ==
  /\ at = "write" /\ Commit("unknown") /\ failed' = TRUE
  /\ UNCHANGED <<mode, saved, remaining, elapsed, buf, tty, owed, typed>>

(* An error, or a part of the question: what was read so far, nothing, is
   not parsed. *)
WriteFails ==
  /\ at = "write" /\ at' = "restore" /\ failed' = TRUE
  /\ UNCHANGED <<mode, saved, remaining, elapsed, buf, tty, owed, typed, probed, cached>>

ThisSlice == IF remaining > Slice THEN Slice ELSE remaining
MoreToRead == remaining > 0 /\ Len(buf) + 1 < BufferSize

(* poll() says that there is input, or the slice is over.  A whole slice is
   taken off either way. *)
Poll ==
  /\ at = "poll" /\ MoreToRead
  /\ remaining' = remaining - ThisSlice
  /\ \/ /\ tty # << >> /\ at' = "read"
        /\ elapsed' \in elapsed..elapsed + ThisSlice
     \/ /\ tty = << >> /\ at' = "poll"
        /\ elapsed' = elapsed + ThisSlice
  /\ UNCHANGED <<mode, saved, buf, tty, owed, typed, probed, cached, failed>>

(* A signal, or the terminal hangs up: poll() returns early with no input. *)
PollFails ==
  /\ at = "poll" /\ MoreToRead
  /\ remaining' = remaining - ThisSlice
  /\ elapsed' \in elapsed..elapsed + ThisSlice
  /\ failed' = TRUE
  /\ UNCHANGED <<mode, saved, at, buf, tty, owed, typed, probed, cached>>

Room == BufferSize - Len(buf) - 1
Taken == IF Len(tty) < Room THEN Len(tty) ELSE Room

(* Everything that is there is read, as far as there is room; a terminator
   anywhere in it ends the loop. *)
Read ==
  /\ at = "read"
  /\ buf' = buf \o SubSeq(tty, 1, Taken)
  /\ tty' = SubSeq(tty, Taken + 1, Len(tty))
  /\ at' = IF HasTerminator(buf') THEN "restore" ELSE "poll"
  /\ UNCHANGED <<mode, saved, remaining, elapsed, owed, typed, probed, cached, failed>>

(* read() fails, or returns nothing. *)
ReadFails ==
  /\ at = "read" /\ at' = "poll" /\ failed' = TRUE
  /\ UNCHANGED <<mode, saved, remaining, elapsed, buf, tty, owed, typed, probed, cached>>

GiveUp ==
  /\ at = "poll" /\ ~MoreToRead /\ at' = "restore"
  /\ UNCHANGED <<mode, saved, remaining, elapsed, buf, tty, owed, typed, probed, cached,
                 failed>>

(* What was read is parsed, the mode set back and the colour remembered.  The
   result of the second tcsetattr is not looked at; it is taken to work. *)
Restore ==
  /\ at = "restore"
  /\ mode' = saved
  /\ Commit(Parse(buf))
  /\ UNCHANGED <<saved, remaining, elapsed, buf, tty, owed, typed, failed>>

Step == \/ SetupFails \/ SetRaw \/ Write \/ WriteFails \/ Poll \/ PollFails \/ Read
        \/ ReadFails \/ GiveUp \/ Restore

------------------------------------------------------------------------------
(* The terminal sends the next piece of its answer, also when nobody is
   waiting for it any more. *)
Arrive ==
  /\ owed # << >>
  /\ \E n \in 1..Len(owed) : /\ tty' = tty \o SubSeq(owed, 1, n)
                             /\ owed' = SubSeq(owed, n + 1, Len(owed))
  /\ UNCHANGED <<mode, saved, at, remaining, elapsed, buf, typed, probed, cached, failed>>

Type ==
  /\ at # "away" /\ typed < MaxTyped
  /\ \E key \in Keys : tty' = Append(tty, key)
  /\ typed' = typed + 1
  /\ UNCHANGED <<mode, saved, at, remaining, elapsed, buf, owed, probed, cached, failed>>

(* curses sets its mode, and endwin the old one, while no query runs; what is
   there and was not read may be dropped with that. *)
SwitchMode ==
  /\ at = "away" /\ mode' \in Modes \ {"raw", mode} /\ tty' \in {tty, << >>}
  /\ UNCHANGED <<saved, at, remaining, elapsed, buf, owed, typed, probed, cached, failed>>

Init ==
  /\ mode \in Modes \ {"raw"} /\ saved = "canonical" /\ at = "away"
  /\ remaining = 0 /\ elapsed = 0 /\ buf = << >> /\ tty = << >> /\ owed = << >>
  /\ typed = 0 /\ probed = FALSE /\ cached = "unknown" /\ failed = FALSE

Next == Detect(FALSE) \/ Step \/ Arrive \/ Type \/ SwitchMode

(* The query is the program's own loop: it goes on, whatever arrives. *)
Spec == Init /\ [][Next]_vars /\ WF_vars(Step)

------------------------------------------------------------------------------
TypeOK ==
  /\ mode \in Modes /\ saved \in Modes \ {"raw"}
  /\ at \in {"away", "open", "write", "poll", "read", "restore"}
  /\ remaining \in 0..Timeout /\ elapsed \in 0..Timeout
  /\ buf \in Seq(STRING) /\ tty \in Seq(STRING) /\ owed \in Seq(STRING)
  /\ typed \in 0..MaxTyped
  /\ probed \in BOOLEAN /\ cached \in Background /\ failed \in BOOLEAN

(* Outside a query the terminal is never in the query's mode; inside, the
   mode to go back to is known from the moment the terminal has left it. *)
TerminalRestored ==
  /\ at \in {"away", "open"} => mode # "raw"
  /\ at \notin {"away", "open"} => mode = "raw"

(* The query takes at most the timeout, however many pieces arrive, and its
   reads stay in the buffer with a byte to spare. *)
QueryBounded ==
  /\ elapsed + remaining <= Timeout
  /\ Len(buf) < BufferSize

(* A query is over before anything else of the program goes on. *)
QueryEnds == at # "away" ~> at = "away"

(* The terminal is asked once in a run of the program: once it was, no query
   begins and the colour stays what it is. *)
AskedOnce == [][probed => at' = "away" /\ probed' /\ cached' = cached]_vars

(* cli_term_osc11.h says "poll up to timeout_ms for a reply" and "Returns
   false on timeout/error": a terminal whose good answer is on its way, with
   nothing typed and no error, is not given up while a slice of it is left. *)
FalseOnlyOnTimeoutOrError ==
  at = "restore" /\ ~failed /\ typed = 0 /\ Parse(buf) = "unknown"
    => \/ elapsed + Slice > Timeout
       \/ Parse(buf \o tty \o owed) = "unknown"
==============================================================================
