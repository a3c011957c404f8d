----------------------------- MODULE JsonStrings -----------------------------
(***************************************************************************)
(* JSON strings byte by byte: how the program writes them                  *)
(* (src/io/output.c) and how a request's are read (core/request_json.c).   *)
(* A text is a sequence of bytes without a 0.                              *)
(***************************************************************************)
EXTENDS Integers, Sequences, SequencesExt

Quote == 34       \* "
Backslash == 92
LetterU == 117

Control == 1..31
Replacement == 65533   \* U+FFFD
(* The bytes with an escape of one letter, and the letter. *)
Escapes == {<<34, 34>>, <<92, 92>>, <<8, 98>>, <<12, 102>>, <<10, 110>>, <<13, 114>>,
            <<9, 116>>}
Letters == Escapes \cup {<<47, 47>>}   \* the reader also knows \/

HexDigit(n) == IF n < 10 THEN 48 + n ELSE 87 + n
Hex4(n) ==
  <<HexDigit(n \div 4096), HexDigit((n \div 256) % 16), HexDigit((n \div 16) % 16),
    HexDigit(n % 16)>>
Unicode(n) == <<Backslash, LetterU>> \o Hex4(n)

------------------------------------------------------------------------------
Continuation == 128..191

(* What may follow a first byte, and the length of the whole. *)
Leads ==
  {<<194..223, Continuation, 2>>, <<{224}, 160..191, 3>>, <<225..236, Continuation, 3>>,
   <<{237}, 128..159, 3>>, <<238..239, Continuation, 3>>, <<{240}, 144..191, 4>>,
   <<241..243, Continuation, 4>>, <<{244}, 128..143, 4>>}

(* app_utf8_sequence_len: 0 for a byte that begins no character. *)
SequenceLen(text, k) ==
  LET fits == {lead \in Leads :
                 /\ text[k] \in lead[1] /\ k + lead[3] - 1 <= Len(text)
                 /\ text[k + 1] \in lead[2]
                 /\ \A m \in k+2..k+lead[3]-1 : text[m] \in Continuation}
  IN IF text[k] < 128 THEN 1
     ELSE IF fits = {} THEN 0 ELSE (CHOOSE lead \in fits : TRUE)[3]

Letter(pairs, byte) == (CHOOSE pair \in pairs : pair[1] = byte)[2]

(* app_json_write_string: what is there of a character, or of a byte. *)
Written(text, k) ==
  IF \E pair \in Escapes : pair[1] = text[k] THEN <<Backslash, Letter(Escapes, text[k])>>
  ELSE IF text[k] \in Control THEN Unicode(text[k])
  ELSE IF SequenceLen(text, k) = 0 THEN Unicode(Replacement)
  ELSE SubSeq(text, k, k + SequenceLen(text, k) - 1)

Step(text, k) == IF SequenceLen(text, k) = 0 THEN 1 ELSE SequenceLen(text, k)

WriteString(text) ==
  LET from[k \in 1..Len(text)+1] ==
        IF k > Len(text) THEN <<Quote>>
        ELSE Written(text, k) \o from[k + Step(text, k)]
  IN <<Quote>> \o from[1]

------------------------------------------------------------------------------
(* app_request_hex_digit, app_request_read_hex4: -1 where there are no four
   digits. *)
DigitValue(byte) ==
  IF byte \in 48..57 THEN byte - 48 ELSE IF byte \in 97..102 THEN byte - 87
  ELSE IF byte \in 65..70 THEN byte - 55 ELSE -1

Byte(s, k) == IF k <= Len(s) THEN s[k] ELSE 0   \* the 0 that ends a C string

ReadHex4(s, k) ==
  IF \A m \in k..k+3 : DigitValue(Byte(s, m)) >= 0
    THEN DigitValue(s[k]) * 4096 + DigitValue(s[k + 1]) * 256
           + DigitValue(s[k + 2]) * 16 + DigitValue(s[k + 3])
    ELSE -1

High == 55296..56319
Low == 56320..57343
Bad == [cp |-> 0, next |-> 0]

(* A high surrogate without its low one is taken as it is: a mutant of
   DecodeUnicode. *)
DecodeLoneHigh(s, k) ==
  LET unit == ReadHex4(s, k)
  IN IF unit <= 0 \/ unit \in Low THEN Bad ELSE [cp |-> unit, next |-> k + 4]

(* app_request_decode_unicode_escape, the cursor behind the u. *)
DecodeUnicode(s, k) ==
  LET unit == ReadHex4(s, k)
      low == ReadHex4(s, k + 6)
  IN IF unit \in High
       THEN IF Byte(s, k + 4) = Backslash /\ Byte(s, k + 5) = LetterU /\ low \in Low
              THEN [cp |-> 65536 + (unit - 55296) * 1024 + (low - 56320), next |-> k + 10]
              ELSE Bad
     ELSE IF unit <= 0 \/ unit \in Low THEN Bad
     ELSE [cp |-> unit, next |-> k + 4]

(* app_request_emit_utf8 *)
Six(cp, place) == 128 + ((cp \div place) % 64)
EmitUtf8(cp) ==
  IF cp <= 127 THEN <<cp>>
  ELSE IF cp <= 2047 THEN <<192 + cp \div 64, Six(cp, 1)>>
  ELSE IF cp <= 65535 THEN <<224 + cp \div 4096, Six(cp, 64), Six(cp, 1)>>
  ELSE <<240 + cp \div 262144, Six(cp, 4096), Six(cp, 64), Six(cp, 1)>>

(* app_request_parse_json_string_alloc, the cursor at the quote: the text, or
   that it is malformed.  What follows the closing quote is left. *)
Malformed == [ok |-> FALSE, text |-> << >>]
Then(bytes, rest) ==
  IF rest.ok THEN [ok |-> TRUE, text |-> bytes \o rest.text] ELSE Malformed

ReadString(s) ==
  LET from[k \in 1..Len(s)+1] ==
        LET byte == Byte(s, k)
            escape == Byte(s, k + 1)
            unicode == DecodeUnicode(s, k + 2)
        IN IF byte = Quote THEN [ok |-> TRUE, text |-> << >>]
           ELSE IF byte = Backslash
             THEN IF escape = LetterU
                    THEN IF unicode = Bad THEN Malformed
                         ELSE Then(EmitUtf8(unicode.cp), from[unicode.next])
                  ELSE IF \E pair \in Letters : pair[2] = escape
                    THEN Then(<<(CHOOSE pair \in Letters : pair[2] = escape)[1]>>,
                              from[k + 2])
                  ELSE Malformed
           ELSE IF byte < 32 THEN Malformed
           ELSE Then(<<byte>>, from[k + 1])
  IN IF Byte(s, 1) = Quote THEN from[2] ELSE Malformed
==============================================================================
