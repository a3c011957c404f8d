----------------------------- MODULE JsonOutput -----------------------------
(***************************************************************************)
(* What the program prints, src/io/output.c: the field writers of its JSON *)
(* documents, compact and pretty, and the messages of app_output.          *)
(*                                                                         *)
(* A stream is a sequence of tokens.  A token is a pair: a mark of JSON, a *)
(* JSON string with what it says, a JSON word (true, false, null or a      *)
(* number), or a line of text for people.  Blanks are left out.            *)
(***************************************************************************)
EXTENDS Integers, Sequences, SequencesExt, TLC

Mark(m) == <<<<"mark", m>>>>
Word(w) == <<<<"word", w>>>>
Line(l) == <<<<"line", l>>>>
Bool(b) == Word(IF b THEN "true" ELSE "false")
Number(n) == Word(ToString(n))

(* app_json_write_string: of a text that is there. *)
Text(t) == <<<<"string", t>>>>

CommaIf(more) == IF more THEN Mark(",") ELSE << >>

------------------------------------------------------------------------------
(* The compact writers.  An open object is what was written of it, and
   needs_comma. *)

BeginObject == [text |-> Mark("{"), comma |-> FALSE]
EndObject(o) == o.text \o Mark("}")

(* app_json_write_separator and the *_field writers over it; a raw field's
   value is what the caller writes. *)
Field(o, key, value) ==
  [text |-> o.text \o CommaIf(o.comma) \o Text(key) \o Mark(":") \o value,
   comma |-> TRUE]

------------------------------------------------------------------------------
(* The pretty writers: the caller says whether a comma follows. *)

PrettyField(key, value, comma) ==
  Text(key) \o Mark(":") \o value \o CommaIf(comma)

(* Items in a row, each told whether another follows. *)
Items(s, Item(_, _)) == FlattenSeq([k \in DOMAIN s |-> Item(s[k], k < Len(s))])

PrettyArray(items, comma) == Mark("[") \o items \o Mark("]") \o CommaIf(comma)

------------------------------------------------------------------------------
(* app_output to a stream: one JSON object, or a line. *)
Message(config, text) ==
  IF config.json
    THEN EndObject(Field(Field(BeginObject, "format_version", Text("1.0")),
                         "message", Text(text)))
    ELSE Line(text)

(* Errors are silenced as well: a mutant of Shown. *)
ShownUnlessQuiet(config, is_error) == ~config.quiet

(* app_output, app_output_format: quiet suppresses what is no error. *)
Shown(config, is_error) == is_error \/ ~config.quiet
==============================================================================
