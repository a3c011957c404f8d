----------------------------- MODULE JsonReaders -----------------------------
(***************************************************************************)
(* The two JSON readers, src/core/config_json.c and core/request_json.c:    *)
(* recursive descent over a document, with the calls in progress kept in a *)
(* stack.  A document is a sequence of tokens; what a string or a scalar   *)
(* says matters only as far as the readers tell it apart.                  *)
(***************************************************************************)
EXTENDS Integers, Sequences

CONSTANTS MAX_DEPTH,   \* APP_REQUEST_JSON_MAX_DEPTH, 32 in the code
          MAX_ARGS,    \* APP_MAX_COMMAND_ARGS, 100
          Documents    \* the documents to read

(* "" is the empty string, "escaped" has a \u escape, "long" is longer than
   the config reader's keys may be, "flag" names a flag, "text" is any other;
   "scalar" is a number or null, "junk" no token. *)
Strings == {"text", "", "escaped", "long", "flag", "command", "args", "flags"}
Scalars == {"bool", "scalar"}
Tokens == Strings \cup Scalars \cup {"{", "}", "[", "]", ",", ":", "junk"}

ASSUME LimitsAssumption == MAX_DEPTH \in Nat /\ MAX_ARGS \in Nat
ASSUME DocumentsAssumption == Documents \subseteq Seq(Tokens)

VARIABLES reader,   \* "config" or "request"
          doc,
          pos,      \* the cursor
          stack,    \* the objects and arrays being read, outermost first
          named,    \* request->command is set and not empty
          nargs,    \* request->arg_count
          outcome   \* "none", "ok" or an error code

vars == <<reader, doc, pos, stack, named, nargs, outcome>>

Token == IF pos <= Len(doc) THEN doc[pos] ELSE "end"

(* The config reader keeps no escapes it cannot decode. *)
Readable == IF reader = "config" THEN Strings \ {"escaped"} ELSE Strings

ObjectKinds == {"top", "object", "flags"}
ArrayKinds == {"array", "args"}
Container(kind, depth) == [kind |-> kind, depth |-> depth, at |-> "first", key |-> ""]
Closer(kind) == IF kind \in ObjectKinds THEN "}" ELSE "]"

Inner == stack[Len(stack)]
Reading == outcome = "none" /\ stack # << >>

Init ==
  /\ reader \in {"config", "request"} /\ doc \in Documents
  /\ pos = 1 /\ stack = << >>
  /\ named = FALSE /\ nargs = 0 /\ outcome = "none"

Stop(code) == outcome' = code /\ UNCHANGED <<pos, stack>>
Advance == pos' = pos + 1 /\ UNCHANGED outcome
Expect(at) == stack' = [stack EXCEPT ![Len(stack)].at = at] /\ Advance

(* The value's container is followed by what follows a value. *)
Descend(container) ==
  stack' = Append([stack EXCEPT ![Len(stack)].at = "after"], container) /\ Advance

Close == stack' = SubSeq(stack, 1, Len(stack) - 1) /\ Advance

------------------------------------------------------------------------------
(* app_config_parse_json_state and app_request_parse_json begin.  An empty
   config file is no error. *)
Enter ==
  /\ outcome = "none" /\ stack = << >> /\ pos = 1
  /\ IF Token = "{"
       THEN stack' = <<Container("top", 0)>> /\ Advance
       ELSE Stop(IF Token = "end" /\ reader = "config" THEN "ok" ELSE "CONFIG_PARSE")
  /\ UNCHANGED <<reader, doc, named, nargs>>

(* They end: nothing follows the document. *)
Finish ==
  /\ outcome = "none" /\ stack = << >> /\ pos > 1
  /\ Stop(IF Token # "end" THEN "CONFIG_PARSE"
          ELSE IF reader = "request" /\ ~named THEN "MISSING_ARG"
          ELSE "ok")
  /\ UNCHANGED <<reader, doc, named, nargs>>

(* A mutant of Key: a closing brace may follow a comma. *)
KeyOrClose ==
  /\ Reading /\ Inner.kind \in ObjectKinds /\ Inner.at \in {"first", "key"}
  /\ IF Token \in Readable
       THEN /\ stack' = [stack EXCEPT ![Len(stack)] =
                           [@ EXCEPT !.at = "colon", !.key = Token]]
            /\ Advance
       ELSE IF Token = "}" THEN Close
       ELSE Stop("CONFIG_PARSE")
  /\ UNCHANGED <<reader, doc, named, nargs>>

Key ==
  /\ Reading /\ Inner.kind \in ObjectKinds /\ Inner.at \in {"first", "key"}
  /\ IF reader = "config" /\ Inner.kind = "top" /\ Token = "long"
       THEN Stop("OUT_OF_RANGE")
     ELSE IF Token \in Readable
       THEN /\ stack' = [stack EXCEPT ![Len(stack)] =
                           [@ EXCEPT !.at = "colon", !.key = Token]]
            /\ Advance
       ELSE IF Inner.at = "first" /\ Token = "}" THEN Close
       ELSE Stop("CONFIG_PARSE")
  /\ UNCHANGED <<reader, doc, named, nargs>>

Colon ==
  /\ Reading /\ Inner.at = "colon"
  /\ IF Token = ":" THEN Expect("value") ELSE Stop("CONFIG_PARSE")
  /\ UNCHANGED <<reader, doc, named, nargs>>

EmptyArray ==
  /\ Reading /\ Inner.kind \in ArrayKinds /\ Inner.at = "first" /\ Token = "]"
  /\ Close
  /\ UNCHANGED <<reader, doc, named, nargs>>

Separator ==
  /\ Reading /\ Inner.at = "after"
  /\ IF Token = ","
       THEN Expect(IF Inner.kind \in ObjectKinds THEN "key" ELSE "value")
       ELSE IF Token = Closer(Inner.kind) THEN Close
       ELSE Stop("CONFIG_PARSE")
  /\ UNCHANGED <<reader, doc, named, nargs>>

------------------------------------------------------------------------------
(* Values.  What a value may be depends on where it is and on its key. *)

ExpectsValue ==
  /\ Reading
  /\ \/ Inner.at = "value"
     \/ Inner.at = "first" /\ Inner.kind \in ArrayKinds /\ Token # "]"

ExpectsFlag ==
  \/ Inner.kind = "flags"
  \/ reader = "config" /\ Inner.kind = "top" /\ Inner.key = "flag"

Envelope(key) == reader = "request" /\ Inner.kind = "top" /\ Inner.key = key

ExpectsAny ==
  /\ Inner.kind # "args" /\ ~ExpectsFlag
  /\ \A key \in {"command", "args", "flags"} : ~Envelope(key)

(* A flag's value is true or false; only then is an unknown name an error. *)
FlagValue ==
  /\ ExpectsValue /\ ExpectsFlag
  /\ IF Token # "bool" THEN Stop("CONFIG_PARSE")
     ELSE IF Inner.key # "flag" THEN Stop("UNKNOWN_OPTION")
     ELSE Expect("after")
  /\ UNCHANGED <<reader, doc, named, nargs>>

(* The last command counts. *)
CommandValue ==
  /\ ExpectsValue /\ Envelope("command")
  /\ IF Token \in Readable
       THEN Expect("after") /\ named' = (Token # "")
       ELSE Stop("CONFIG_PARSE") /\ UNCHANGED named
  /\ UNCHANGED <<reader, doc, nargs>>

ArgsValue ==
  /\ ExpectsValue /\ Envelope("args")
  /\ IF Token = "[" THEN Descend(Container("args", 0)) ELSE Stop("CONFIG_PARSE")
  /\ UNCHANGED <<reader, doc, named, nargs>>

FlagsValue ==
  /\ ExpectsValue /\ Envelope("flags")
  /\ IF Token = "{" THEN Descend(Container("flags", 0)) ELSE Stop("CONFIG_PARSE")
  /\ UNCHANGED <<reader, doc, named, nargs>>

(* The limit is met before the argument is looked at, and counts the
   arguments of every "args" so far. *)
Argument ==
  /\ ExpectsValue /\ Inner.kind = "args"
  /\ IF Token # "end" /\ nargs >= MAX_ARGS
       THEN Stop("OUT_OF_RANGE") /\ UNCHANGED nargs
       ELSE IF Token \in Readable
              THEN Expect("after") /\ nargs' = nargs + 1
              ELSE Stop("CONFIG_PARSE") /\ UNCHANGED nargs
  /\ UNCHANGED <<reader, doc, named>>

(* The depth that *_skip_json_value is called with: it and its container
   count one level each. *)
ValueDepth == IF Inner.kind = "top" THEN 0 ELSE Inner.depth + 1

(* A mutant of ContainerDepth: arrays do not count. *)
ObjectDepth == IF Token = "{" THEN ValueDepth + 1 ELSE ValueDepth

ContainerDepth == ValueDepth + 1

(* app_config_skip_json_value, app_request_skip_json_value *)
SkipValue ==
  /\ ExpectsValue /\ ExpectsAny
  /\ IF Token \in Readable \cup Scalars THEN Expect("after")
     ELSE IF Token \notin {"{", "["} THEN Stop("CONFIG_PARSE")
     ELSE IF ContainerDepth > MAX_DEPTH THEN Stop("OUT_OF_RANGE")
     ELSE Descend(Container(IF Token = "{" THEN "object" ELSE "array",
                            ContainerDepth))
  /\ UNCHANGED <<reader, doc, named, nargs>>

(* The request reader copies every string it reads, skipped ones too. *)
ReadsString ==
  \/ Inner.kind \in ObjectKinds /\ Inner.at \in {"first", "key"}
  \/ ExpectsValue /\ Inner.kind = "args" /\ nargs < MAX_ARGS
  \/ ExpectsValue /\ (ExpectsAny \/ Envelope("command"))

CopyFails ==
  /\ reader = "request" /\ Reading /\ Token \in Strings /\ ReadsString
  /\ Stop("MEMORY")
  /\ UNCHANGED <<reader, doc, named, nargs>>

Ended == outcome # "none" /\ UNCHANGED vars

Next ==
  \/ Enter \/ Finish \/ Key \/ Colon \/ EmptyArray \/ Separator
  \/ FlagValue \/ CommandValue \/ ArgsValue \/ FlagsValue \/ Argument
  \/ SkipValue \/ CopyFails \/ Ended

Spec == Init /\ [][Next]_vars

------------------------------------------------------------------------------
Codes == {"none", "ok", "CONFIG_PARSE", "UNKNOWN_OPTION", "MISSING_ARG",
          "OUT_OF_RANGE", "MEMORY"}

Containers ==
  [kind : ObjectKinds \cup ArrayKinds, depth : 0..MAX_DEPTH,
   at : {"first", "key", "colon", "value", "after"}, key : Strings]

TypeOK ==
  /\ reader \in {"config", "request"} /\ doc \in Seq(Tokens)
  /\ pos \in Nat \ {0}
  /\ stack \in Seq(Containers)
  /\ named \in BOOLEAN /\ nargs \in 0..MAX_ARGS /\ outcome \in Codes

(* The containers below the document that may be open: a level of nesting is
   two of the code's depth. *)
NestingLimit == (MAX_DEPTH + 1) \div 2

(* However a document is nested, the recursion stays within the limit, and
   only containers whose content is discarded nest at all. *)
RecursionBounded ==
  /\ Len(stack) <= 1 + (IF NestingLimit > 1 THEN NestingLimit ELSE 1)
  /\ \A k \in 1..Len(stack) :
       /\ stack[k].kind = "top" <=> k = 1
       /\ stack[k].kind \in {"flags", "args"} => k = 2 /\ Len(stack) = 2
==============================================================================
