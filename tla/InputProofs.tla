---------------------------- MODULE InputProofs ----------------------------
(***************************************************************************)
(* What comes in: the readers' recursion is bounded, for every document    *)
(* and every limit, and a request is read whole into its buffer, for every *)
(* limit, initial size and chunk.                                          *)
(***************************************************************************)
EXTENDS JsonReaders, InputBuffer, SequenceTheorems, TLAPS

(* The depth the code hands down is fixed by the number of open containers. *)
DepthInv ==
  \A k \in 1..Len(stack) :
    /\ stack[k].kind = "top" <=> k = 1
    /\ stack[k].kind \in {"flags", "args"} => k = 2 /\ Len(stack) = 2
    /\ stack[k].kind \in {"object", "array"} => stack[k].depth = 2 * k - 3

(* What a step can do to the stack: change where a container stands, open one,
   or close the innermost. *)
Marked(s) ==
  /\ s \in Seq(Containers) /\ Len(s) = Len(stack)
  /\ \A k \in 1..Len(s) : s[k].kind = stack[k].kind /\ s[k].depth = stack[k].depth

Opened(container) ==
  /\ stack # << >> /\ container \in Containers
  /\ \E s : Marked(s) /\ stack' = Append(s, container)

Closed == stack # << >> /\ stack' = SubSeq(stack, 1, Len(stack) - 1)

------------------------------------------------------------------------------
LEMMA ExceptMarks ==
  ASSUME TypeOK, stack # << >>,
         NEW at \in {"first", "key", "colon", "value", "after"}, NEW key \in Strings
  PROVE  /\ Marked([stack EXCEPT ![Len(stack)].at = at])
         /\ Marked([stack EXCEPT ![Len(stack)] = [@ EXCEPT !.at = at, !.key = key]])
<1>1. stack \in Seq(Containers) /\ Len(stack) \in Nat /\ Len(stack) \in 1..Len(stack)
  BY DEF TypeOK
<1> DEFINE c == stack[Len(stack)]
<1>0. c \in Containers
  BY <1>1
<1> HIDE DEF c
<1>2. [c EXCEPT !.at = at] \in Containers
  BY <1>0 DEF Containers
<1>3. [c EXCEPT !.at = at, !.key = key] \in Containers
  BY <1>0 DEF Containers
<1> USE DEF c
<1>4. /\ Marked([stack EXCEPT ![Len(stack)] = [stack[Len(stack)] EXCEPT !.at = at]])
      /\ Marked([stack EXCEPT ![Len(stack)] =
                   [stack[Len(stack)] EXCEPT !.at = at, !.key = key]])
  BY <1>1, <1>2, <1>3 DEF Marked, Containers
<1> QED
  BY <1>1, <1>4

LEMMA UnchangedMarks == ASSUME TypeOK, UNCHANGED stack PROVE Marked(stack')
  BY DEF TypeOK, Marked

(* Every operation on the stack is one of these. *)
LEMMA Operations ==
  ASSUME TypeOK, stack # << >>
  PROVE  /\ \A at \in {"first", "key", "colon", "value", "after"} :
              Expect(at) => Marked(stack')
         /\ \A c \in Containers : Descend(c) => Opened(c)
         /\ Close => Closed
         /\ \A code : Stop(code) => Marked(stack')
<1>1. ASSUME NEW at \in {"first", "key", "colon", "value", "after"}, Expect(at)
      PROVE  Marked(stack')
  <2>1. "" \in Strings
    BY DEF Strings
  <2> QED
    BY <1>1, <2>1, ExceptMarks DEF Expect
<1>2. ASSUME NEW c \in Containers, Descend(c)
      PROVE  Opened(c)
  <2>1. "" \in Strings
    BY DEF Strings
  <2>2. Marked([stack EXCEPT ![Len(stack)].at = "after"])
    BY <2>1, ExceptMarks
  <2> QED
    BY <1>2, <2>2 DEF Descend, Opened
<1>3. Close => Closed
  BY DEF Close, Closed
<1>4. ASSUME NEW code, Stop(code) PROVE Marked(stack')
  BY <1>4, UnchangedMarks DEF Stop
<1> QED
  BY <1>1, <1>2, <1>3, <1>4

LEMMA NewContainer ==
  ASSUME NEW kind \in ObjectKinds \cup ArrayKinds, NEW depth \in 0..MAX_DEPTH
  PROVE  Container(kind, depth) \in Containers
  BY DEF Container, Containers, Strings

LEMMA StringsReadable == Readable \subseteq Strings
  BY DEF Readable

(* The kinds of step, by what they do to the stack. *)
StackStep ==
  \/ Marked(stack')
  \/ Closed
  \/ stack = << >> /\ stack' = <<Container("top", 0)>>
  \/ Inner.kind = "top" /\ Opened(Container("args", 0))
  \/ Inner.kind = "top" /\ Opened(Container("flags", 0))
  \/ /\ Inner.kind \in {"top", "object", "array"}
     /\ ContainerDepth \in 0..MAX_DEPTH
     /\ \E kind \in {"object", "array"} : Opened(Container(kind, ContainerDepth))

LEMMA StackSteps ==
  ASSUME TypeOK, [Next]_vars
  PROVE  StackStep
<1> USE LimitsAssumption
<1>1. CASE Enter
  <2>1. CASE Token = "{"
    BY <1>1, <2>1 DEF Enter, StackStep
  <2>2. CASE Token # "{"
    BY <1>1, <2>2, UnchangedMarks DEF Enter, Stop, StackStep
  <2> QED
    BY <2>1, <2>2
<1>2. CASE Finish \/ Ended \/ UNCHANGED vars
  <2>1. UNCHANGED stack
    BY <1>2 DEF Finish, Ended, Stop, vars
  <2> QED
    BY <2>1, UnchangedMarks DEF StackStep
<1>3. CASE Key
  <2>1. stack # << >>
    BY <1>3 DEF Key, Reading
  <2>2. \/ Token \in Readable /\ stack' = [stack EXCEPT ![Len(stack)] =
                           [@ EXCEPT !.at = "colon", !.key = Token]]
        \/ Close
        \/ \E code : Stop(code)
    BY <1>3 DEF Key
  <2>3. CASE Token \in Readable /\ stack' = [stack EXCEPT ![Len(stack)] =
                           [@ EXCEPT !.at = "colon", !.key = Token]]
    BY <2>1, <2>3, ExceptMarks, StringsReadable DEF StackStep
  <2> QED
    BY <2>1, <2>2, <2>3, Operations DEF StackStep
<1>4. CASE Colon
  <2>1. stack # << >> /\ (Expect("value") \/ Stop("CONFIG_PARSE"))
    BY <1>4 DEF Colon, Reading
  <2> QED
    BY <2>1, Operations DEF StackStep
<1>5. CASE EmptyArray
  BY <1>5, Operations DEF EmptyArray, Reading, StackStep
<1>6. CASE Separator
  <2>1. /\ stack # << >>
        /\ Expect("key") \/ Expect("value") \/ Close \/ Stop("CONFIG_PARSE")
    BY <1>6 DEF Separator, Reading
  <2> QED
    BY <2>1, Operations DEF StackStep
<1>7. CASE FlagValue \/ CommandValue \/ Argument
  <2>1. stack # << >> /\ (Expect("after") \/ \E code : Stop(code))
    BY <1>7 DEF FlagValue, CommandValue, Argument, ExpectsValue, Reading
  <2> QED
    BY <2>1, Operations DEF StackStep
<1>8. CASE ArgsValue
  <2>1. /\ stack # << >> /\ Inner.kind = "top"
        /\ Descend(Container("args", 0)) \/ Stop("CONFIG_PARSE")
    BY <1>8 DEF ArgsValue, ExpectsValue, Reading, Envelope
  <2>2. Container("args", 0) \in Containers
    BY NewContainer DEF ArrayKinds
  <2> QED
    BY <2>1, <2>2, Operations DEF StackStep
<1>9. CASE FlagsValue
  <2>1. /\ stack # << >> /\ Inner.kind = "top"
        /\ Descend(Container("flags", 0)) \/ Stop("CONFIG_PARSE")
    BY <1>9 DEF FlagsValue, ExpectsValue, Reading, Envelope
  <2>2. Container("flags", 0) \in Containers
    BY NewContainer DEF ObjectKinds
  <2> QED
    BY <2>1, <2>2, Operations DEF StackStep
<1>10. CASE SkipValue
  <2>1. stack # << >> /\ Inner.kind \notin {"args", "flags"}
    BY <1>10 DEF SkipValue, ExpectsValue, Reading, ExpectsAny, ExpectsFlag
  <2>2. Inner \in Containers
    BY <2>1 DEF Inner, TypeOK
  <2>3. Inner.kind \in {"top", "object", "array"} /\ Inner.depth \in Nat
    BY <2>1, <2>2 DEF Containers, ObjectKinds, ArrayKinds
  <2>4. ContainerDepth \in Nat
    BY <2>3 DEF ContainerDepth, ValueDepth
  <2>5. \/ Expect("after") \/ \E code : Stop(code)
        \/ /\ ContainerDepth \in 0..MAX_DEPTH
           /\ \E kind \in {"object", "array"} : Descend(Container(kind, ContainerDepth))
    <3>0. ASSUME ~(ContainerDepth > MAX_DEPTH) PROVE ContainerDepth \in 0..MAX_DEPTH
      BY <2>4, <3>0
    <3>1. CASE Token \in Readable \cup Scalars
      BY <1>10, <3>1 DEF SkipValue
    <3>2. CASE Token \notin Readable \cup Scalars \cup {"{", "["}
      BY <1>10, <3>2 DEF SkipValue
    <3>3. CASE ContainerDepth > MAX_DEPTH
      BY <1>10, <3>3 DEF SkipValue
    <3>4. CASE Token = "{" /\ Token \notin Readable \cup Scalars /\ ~(ContainerDepth > MAX_DEPTH)
      <4>1. Descend(Container("object", ContainerDepth))
        BY <1>10, <3>4 DEF SkipValue
      <4>2. ContainerDepth \in 0..MAX_DEPTH
        BY <3>0, <3>4
      <4> QED
        BY <4>1, <4>2, Zenon
    <3>5. CASE Token = "[" /\ Token \notin Readable \cup Scalars /\ ~(ContainerDepth > MAX_DEPTH)
      <4>1. Descend(Container("array", ContainerDepth))
        BY <1>10, <3>5 DEF SkipValue
      <4>2. ContainerDepth \in 0..MAX_DEPTH
        BY <3>0, <3>5
      <4> QED
        BY <4>1, <4>2, Zenon
    <3> QED
      BY <3>1, <3>2, <3>3, <3>4, <3>5
  <2>6. CASE Expect("after") \/ \E code : Stop(code)
    BY <2>1, <2>6, Operations DEF StackStep
  <2>7. ASSUME ContainerDepth \in 0..MAX_DEPTH, NEW kind \in {"object", "array"},
               Descend(Container(kind, ContainerDepth))
        PROVE  StackStep
    <3>1. Container(kind, ContainerDepth) \in Containers
      BY <2>7, NewContainer DEF ObjectKinds, ArrayKinds
    <3> QED
      BY <2>1, <2>3, <2>7, <3>1, Operations DEF StackStep
  <2> QED
    BY <2>5, <2>6, <2>7
<1>11. CASE CopyFails
  BY <1>11, Operations DEF CopyFails, Reading, StackStep
<1> QED
  BY <1>1, <1>2, <1>3, <1>4, <1>5, <1>6, <1>7, <1>8, <1>9, <1>10, <1>11 DEF Next

------------------------------------------------------------------------------
LEMMA ClosedPops ==
  ASSUME TypeOK, Closed
  PROVE  /\ stack' \in Seq(Containers)
         /\ Len(stack') = Len(stack) - 1
         /\ \A k \in 1..Len(stack') : k \in 1..Len(stack) /\ stack'[k] = stack[k]
<1>1. stack \in Seq(Containers) /\ Len(stack) \in Nat \ {0}
  BY DEF TypeOK, Closed
<1>2. stack' = SubSeq(stack, 1, Len(stack) - 1)
  BY DEF Closed
<1> DEFINE n == Len(stack) - 1
<1>3. n \in Nat /\ \A k \in 1..n : stack[k] \in Containers
  BY <1>1
<1>4. /\ SubSeq(stack, 1, n) \in Seq(Containers)
      /\ Len(SubSeq(stack, 1, n)) = IF 1 <= n THEN n-1+1 ELSE 0
      /\ \A i \in 1..n-1+1 : SubSeq(stack, 1, n)[i] = stack[1+i-1]
  <2> HIDE DEF n
  <2> QED
    BY <1>3, SubSeqProperties
<1> QED
  <2>1. Len(stack') = n /\ stack' = SubSeq(stack, 1, n)
    <3>1. stack' = SubSeq(stack, 1, n)
      BY <1>2
    <3>2. Len(SubSeq(stack, 1, n)) = n
      <4> DEFINE l == Len(SubSeq(stack, 1, n))
      <4>1. l = IF 1 <= n THEN n-1+1 ELSE 0
        BY <1>4
      <4> HIDE DEF l, n
      <4>2. l = n
        BY <1>3, <4>1
      <4> QED
        BY <4>2 DEF l
    <3> QED
      BY <3>1, <3>2
  <2>2. \A k \in 1..n : k \in 1..Len(stack) /\ stack'[k] = stack[k]
    BY <1>1, <1>3, <1>4, <2>1
  <2> QED
    BY <1>4, <2>1, <2>2

LEMMA StackType == ASSUME TypeOK, StackStep PROVE stack' \in Seq(Containers)
<1>0. CASE Marked(stack')
  BY <1>0 DEF Marked
<1>1. CASE Closed
  BY <1>1, ClosedPops
<1>2. CASE stack' = <<Container("top", 0)>>
  BY <1>2, NewContainer, LimitsAssumption DEF ObjectKinds
<1>3. ASSUME NEW c, Opened(c) PROVE stack' \in Seq(Containers)
  BY <1>3 DEF Opened, Marked
<1> QED
  BY <1>0, <1>1, <1>2, <1>3 DEF StackStep

(* The counters, the cursor and the codes keep their types. *)
THEOREM TypeCorrect == Spec => []TypeOK
<1>1. Init => TypeOK
  <2> SUFFICES ASSUME Init PROVE TypeOK
    OBVIOUS
  <2>1. doc \in Seq(Tokens) /\ named \in BOOLEAN
    BY DocumentsAssumption DEF Init
  <2>2. stack \in Seq(Containers)
    BY DEF Init
  <2>3. pos \in Nat \ {0} /\ nargs \in 0..MAX_ARGS
    BY LimitsAssumption DEF Init
  <2>4. reader \in {"config", "request"} /\ outcome \in Codes
    BY DEF Init, Codes
  <2> QED
    BY <2>1, <2>2, <2>3, <2>4 DEF TypeOK
<1>2. TypeOK /\ [Next]_vars => TypeOK'
  <2> SUFFICES ASSUME TypeOK, [Next]_vars PROVE TypeOK'
    OBVIOUS
  <2>1. stack' \in Seq(Containers)
    BY StackSteps, StackType
  <2>2. UNCHANGED <<reader, doc>>
    BY DEF Next, Enter, Finish, Key, Colon, EmptyArray, Separator, FlagValue,
           CommandValue, ArgsValue, FlagsValue, Argument, SkipValue, CopyFails,
           Ended, vars
  <2>3. named' \in BOOLEAN
    BY DEF Next, Enter, Finish, Key, Colon, EmptyArray, Separator, FlagValue,
           CommandValue, ArgsValue, FlagsValue, Argument, SkipValue, CopyFails,
           Ended, vars, TypeOK
  <2>4. nargs' \in 0..MAX_ARGS
    <3>1. \/ nargs' = nargs
          \/ ~(Token # "end" /\ nargs >= MAX_ARGS) /\ Token \in Readable /\ nargs' = nargs + 1
      BY DEF Next, Enter, Finish, Key, Colon, EmptyArray, Separator, FlagValue,
             CommandValue, ArgsValue, FlagsValue, Argument, SkipValue, CopyFails,
             Ended, vars
    <3>2. Token \in Readable => Token # "end"
      BY DEF Readable, Strings
    <3>3. nargs \in 0..MAX_ARGS
      BY DEF TypeOK
    <3> HIDE DEF TypeOK
    <3>4. \/ nargs' = nargs
          \/ ~(nargs >= MAX_ARGS) /\ nargs' = nargs + 1
      BY <3>1, <3>2
    <3> QED
      BY <3>3, <3>4, LimitsAssumption
  <2>5. pos' \in Nat \ {0}
    <3>1. pos' = pos \/ pos' = pos + 1
      BY DEF Next, Enter, Finish, Key, Colon, EmptyArray, Separator, FlagValue,
             CommandValue, ArgsValue, FlagsValue, Argument, SkipValue, CopyFails,
             Ended, vars, Advance, Stop, Expect, Descend, Close
    <3> QED
      BY <3>1 DEF TypeOK
  <2>6. outcome' \in Codes
    BY DEF Next, Enter, Finish, Key, Colon, EmptyArray, Separator, FlagValue,
           CommandValue, ArgsValue, FlagsValue, Argument, SkipValue, CopyFails,
           Ended, vars, TypeOK, Advance, Stop, Expect, Descend, Close, Codes
  <2> QED
    BY <2>1, <2>2, <2>3, <2>4, <2>5, <2>6 DEF TypeOK
<1> QED
  BY <1>1, <1>2, PTL DEF Spec

LEMMA OpeningKeepsDepths ==
  ASSUME TypeOK, DepthInv, NEW c \in Containers, Opened(c), c.kind # "top",
         Inner.kind \notin {"args", "flags"},
         c.kind \in {"args", "flags"} => Inner.kind = "top",
         c.kind \in {"object", "array"} => c.depth = ContainerDepth
  PROVE  DepthInv'
<1>1. PICK s : Marked(s) /\ stack' = Append(s, c)
  BY DEF Opened
<1> DEFINE n == Len(stack)
<1>2. n \in Nat \ {0} /\ Len(s) = n /\ Len(stack') = n + 1
  BY <1>1 DEF Marked, Opened, TypeOK
<1>3. \A k \in 1..n : stack'[k].kind = stack[k].kind /\ stack'[k].depth = stack[k].depth
  BY <1>1, <1>2 DEF Marked
<1>4. stack'[n + 1] = c
  BY <1>1, <1>2 DEF Marked
<1>5. /\ Inner.kind = "top" <=> n = 1
      /\ Inner.kind \in {"object", "array"} => Inner.depth = 2 * n - 3
      /\ Inner \in Containers
  BY <1>2 DEF DepthInv, Inner, TypeOK
<1>6. c.kind \in {"object", "array"} => c.depth = 2 * (n + 1) - 3
  <2>1. Inner.kind \in {"top", "object", "array"}
    BY <1>5 DEF Containers, ObjectKinds, ArrayKinds
  <2> QED
    <3>1. CASE Inner.kind = "top"
      <4>1. ContainerDepth = 1
        BY <3>1 DEF ContainerDepth, ValueDepth
      <4>2. n = 1
        BY <1>5, <3>1
      <4> HIDE DEF n
      <4> QED
        BY <4>1, <4>2
    <3>2. CASE Inner.kind \in {"object", "array"}
      <4>1. ContainerDepth = 2 * n - 3 + 1 + 1
        BY <1>5, <3>2 DEF ContainerDepth, ValueDepth
      <4> QED
        BY <1>2, <4>1
    <3> QED
      BY <2>1, <3>1, <3>2
<1>7. \A k \in 1..n : stack[k].kind \notin {"args", "flags"}
  BY <1>2 DEF DepthInv, Inner
<1> HIDE DEF n
<1>8. ASSUME NEW k \in 1..n+1
      PROVE  /\ stack'[k].kind = "top" <=> k = 1
             /\ stack'[k].kind \in {"flags", "args"} => k = 2 /\ n + 1 = 2
             /\ stack'[k].kind \in {"object", "array"} => stack'[k].depth = 2 * k - 3
  <2>1. CASE k = n + 1
    BY <1>2, <1>4, <1>5, <1>6, <2>1
  <2>2. CASE k # n + 1
    <3>1. k \in 1..n
      BY <1>2, <2>2
    <3> QED
      BY <1>3, <1>7, <3>1 DEF DepthInv, n
  <2> QED
    BY <2>1, <2>2
<1> QED
  BY <1>2, <1>8 DEF DepthInv

LEMMA DepthStep == ASSUME TypeOK, DepthInv, StackStep PROVE DepthInv'
<1>1. CASE Marked(stack')
  BY <1>1 DEF Marked, DepthInv, TypeOK
<1>2. CASE Closed
  <2>1. /\ Len(stack') = Len(stack) - 1
        /\ \A k \in 1..Len(stack') : k \in 1..Len(stack) /\ stack'[k] = stack[k]
    BY <1>2, ClosedPops DEF Closed
  <2>2. ASSUME NEW k \in 1..Len(stack'), stack[k].kind \in {"flags", "args"}
        PROVE  FALSE
    BY <2>1, <2>2 DEF DepthInv, TypeOK
  <2> QED
    BY <2>1, <2>2 DEF DepthInv
<1>3. CASE stack = << >> /\ stack' = <<Container("top", 0)>>
  <2>1. Len(stack') = 1 /\ stack'[1] = Container("top", 0)
    BY <1>3
  <2>2. Container("top", 0).kind = "top"
    BY DEF Container
  <2> QED
    BY <2>1, <2>2 DEF DepthInv
<1>4. ASSUME NEW kind \in {"args", "flags"}, Inner.kind = "top",
             Opened(Container(kind, 0))
      PROVE  DepthInv'
  <2>1. Container(kind, 0) \in Containers /\ Container(kind, 0).kind = kind
    BY <1>4 DEF Opened, Container
  <2> QED
    BY <1>4, <2>1, OpeningKeepsDepths
<1>5. ASSUME Inner.kind \in {"top", "object", "array"},
             NEW kind \in {"object", "array"},
             Opened(Container(kind, ContainerDepth))
      PROVE  DepthInv'
  <2>1. /\ Container(kind, ContainerDepth) \in Containers
        /\ Container(kind, ContainerDepth).kind = kind
        /\ Container(kind, ContainerDepth).depth = ContainerDepth
    BY <1>5 DEF Opened, Container
  <2> QED
    BY <1>5, <2>1, OpeningKeepsDepths
<1> QED
  BY <1>1, <1>2, <1>3, <1>4, <1>5 DEF StackStep

(* Neither reader recurses deeper than its limit, at any point of any
   document. *)
THEOREM BoundedRecursion == Spec => []RecursionBounded
<1>1. Init => DepthInv
  BY DEF Init, DepthInv
<1>2. TypeOK /\ DepthInv /\ [Next]_vars => DepthInv'
  BY StackSteps, DepthStep
<1>3. TypeOK /\ DepthInv => RecursionBounded
  <2> SUFFICES ASSUME TypeOK, DepthInv PROVE RecursionBounded
    OBVIOUS
  <2>1. \A k \in 1..Len(stack) : stack[k] \in Containers
    BY DEF TypeOK
  <2>2. ASSUME Len(stack) > 2
        PROVE  Len(stack) <= 1 + NestingLimit
    <3>1. Len(stack) \in 1..Len(stack) /\ Inner \in Containers
      BY <2>1, <2>2 DEF TypeOK, Inner
    <3>2. Inner.kind \in {"object", "array"}
      BY <2>2, <3>1 DEF DepthInv, Inner, Containers, ObjectKinds, ArrayKinds
    <3>3. 2 * Len(stack) - 3 <= MAX_DEPTH
      BY <3>1, <3>2, LimitsAssumption DEF DepthInv, Inner, Containers
    <3> QED
      BY <3>1, <3>3, LimitsAssumption DEF NestingLimit
  <2>3. NestingLimit \in Nat
    BY LimitsAssumption DEF NestingLimit
  <2>4. Len(stack) <= 1 + (IF NestingLimit > 1 THEN NestingLimit ELSE 1)
    BY <2>2, <2>3 DEF TypeOK
  <2> QED
    BY <2>4 DEF DepthInv, RecursionBounded
<1> QED
  BY <1>1, <1>2, <1>3, TypeCorrect, PTL DEF Spec

------------------------------------------------------------------------------
(***************************************************************************)
(* The buffer.                                                             *)
(***************************************************************************)
(* What the loop knows of its counters at each of its points. *)
LoopInv ==
  /\ total + left = size
  /\ ended => left = 0
  /\ stage # "done" => result = "none"
  /\ stage = "open" => total = 0
  /\ stage # "open" /\ result # "ENOMEM" => total < capacity
  /\ stage = "read" => /\ 0 < room /\ total + room < capacity
                       /\ total < MAX - 1
  /\ result = "ok" => left = 0 /\ total < MAX - 1
  /\ result = "E2BIG" => total >= MAX - CHUNK

(* The capacity passes its limit at no doubling, in numbers. *)
LEMMA EnlargedFits ==
  ASSUME capacity \in 0..MAX, total \in Nat, total < capacity
  PROVE  /\ Enlarged \in 0..MAX
         /\ capacity <= Enlarged
         /\ total < Enlarged
  BY SizesAssumption DEF Enlarged, Doubled, Cramped, Remaining,
                         MAX, INITIAL, CHUNK

LEMMA RequestFits ==
  ASSUME capacity \in 0..MAX, total \in Nat, total < capacity
  PROVE  /\ Request \in Nat
         /\ total + Request < Enlarged
<1>1. Enlarged \in 0..MAX /\ total < Enlarged
  BY EnlargedFits
<1>2. Remaining(Enlarged) \in Nat /\ total + Remaining(Enlarged) < Enlarged
  BY <1>1, SizesAssumption DEF Remaining, MAX
<1>3. CHUNK \in Nat
  BY SizesAssumption DEF CHUNK
<1> QED
  BY <1>1, <1>2, <1>3 DEF Request

(* A buffer is only refused more room when it is as large as it may be. *)
LEMMA TooLargeIsNearLimit ==
  ASSUME capacity \in 0..MAX, total \in Nat, total < capacity, TooLarge
  PROVE  total >= MAX - CHUNK
<1>1. CASE total >= MAX - 1
  BY <1>1, SizesAssumption DEF MAX, CHUNK
<1>2. CASE Cramped /\ Doubled <= capacity
  <2>1. capacity = MAX
    BY <1>2, SizesAssumption DEF Doubled, MAX
  <2> QED
    BY <1>2, <2>1, SizesAssumption DEF Cramped, Remaining, MAX, CHUNK
<1>3. CASE Request = 0
  <2>1. Enlarged = total + 1
    BY <1>3, EnlargedFits, SizesAssumption DEF Request, Remaining, MAX,
                                               CHUNK
  <2>2. Cramped
    BY <2>1, SizesAssumption DEF Enlarged, Cramped, Remaining, MAX,
                                 CHUNK
  <2>3. Doubled <= capacity
    BY <2>1, <2>2 DEF Enlarged
  <2> QED
    BY <1>2, <2>2, <2>3
<1> QED
  BY <1>1, <1>2, <1>3 DEF TooLarge

------------------------------------------------------------------------------
LEMMA BufferStarts == BufferInit => BufferTypeOK /\ LoopInv
<1> SUFFICES ASSUME BufferInit PROVE BufferTypeOK /\ LoopInv
  OBVIOUS
<1>1. size \in Nat /\ left = size /\ MAX \in Nat
  BY SizesAssumption DEF BufferInit, MAX
<1>2. BufferTypeOK
  <2>1. ended \in BOOLEAN /\ failed \in BOOLEAN
    BY Zenon DEF BufferInit
  <2>2. capacity \in 0..MAX /\ total \in Nat /\ room \in Nat
    BY <1>1 DEF BufferInit
  <2> QED
    BY <1>1, <2>1, <2>2 DEF BufferInit, BufferTypeOK
<1>3. LoopInv
  BY <1>1 DEF BufferInit, LoopInv
<1> QED
  BY <1>2, <1>3

LEMMA BufferStep ==
  BufferTypeOK /\ LoopInv /\ [BufferNext]_bufferVars => BufferTypeOK' /\ LoopInv'
<1> SUFFICES ASSUME BufferTypeOK, LoopInv, [BufferNext]_bufferVars
             PROVE  BufferTypeOK' /\ LoopInv'
  OBVIOUS
<1> USE DEF MAX, INITIAL, CHUNK
<1>1. CASE Open
  <2>1. \A s \in 0..MaxInput : FirstCapacity(s) \in 1..MAX
    BY SizesAssumption DEF FirstCapacity
  <2>2. BufferTypeOK'
    BY <1>1, <2>1 DEF Open, FinishReading, BufferTypeOK
  <2>3. CASE stage' = "head" /\ UNCHANGED result /\ capacity' >= 1
    BY <1>1, <2>2, <2>3 DEF Open, FinishReading, BufferTypeOK, LoopInv
  <2>4. CASE FinishReading("ENOMEM")
    BY <1>1, <2>4 DEF Open, FinishReading, BufferTypeOK, LoopInv
  <2> QED
    <3>1. PICK s \in 0..MaxInput :
            \/ capacity' = FirstCapacity(s) /\ stage' = "head" /\ UNCHANGED result
            \/ FinishReading("ENOMEM")
      BY <1>1, SizesAssumption DEF Open
    <3>2. CASE FinishReading("ENOMEM")
      BY <2>2, <2>4, <3>2
    <3>3. CASE capacity' = FirstCapacity(s) /\ stage' = "head" /\ UNCHANGED result
      BY <2>1, <2>2, <2>3, <3>3
    <3> QED
      BY <3>1, <3>2, <3>3
<1>2. CASE Refuse
  <2>1. total >= MAX - CHUNK
    BY <1>2, TooLargeIsNearLimit DEF Refuse, BufferTypeOK, LoopInv
  <2> QED
    BY <1>2, <2>1 DEF Refuse, FinishReading, BufferTypeOK, LoopInv
<1>3. CASE GrowFails
  BY <1>3 DEF GrowFails, FinishReading, BufferTypeOK, LoopInv
<1>4. CASE MakeRoom
  <2>1. /\ Enlarged \in 0..MAX /\ total < Enlarged
        /\ Request \in Nat /\ total + Request < Enlarged
    BY <1>4, EnlargedFits, RequestFits DEF MakeRoom, BufferTypeOK, LoopInv
  <2>2. 0 < Request /\ total < MAX - 1
    BY <1>4, <2>1, SizesAssumption DEF MakeRoom, TooLarge, BufferTypeOK
  <2> QED
    BY <1>4, <2>1, <2>2 DEF MakeRoom, BufferTypeOK, LoopInv
<1>5. CASE Read
  <2>1. PICK n \in 0..room : n <= left /\ Deliver(n) /\ left' = left - n /\ Received(n)
    BY <1>5 DEF Read
  <2>2. n \in Nat /\ left' \in Nat /\ UNCHANGED <<capacity, room, size>>
    BY <1>5, <2>1 DEF Read, BufferTypeOK
  <2>3. /\ ended' \in BOOLEAN /\ failed' \in BOOLEAN
        /\ ended' => left' = 0
    <3>1. ended => left' = 0
      BY <2>1, <2>2 DEF BufferTypeOK, LoopInv
    <3>2. CASE n = room /\ ended' = (ended \/ n < room) /\ UNCHANGED failed
      BY <2>1, <2>2, <3>1, <3>2 DEF BufferTypeOK
    <3>3. CASE n = left /\ ended' = (ended \/ n < room) /\ UNCHANGED failed
      BY <2>1, <2>2, <3>1, <3>3 DEF BufferTypeOK
    <3>4. CASE failed' = TRUE /\ UNCHANGED ended
      BY <3>1, <3>4 DEF BufferTypeOK
    <3> QED
      BY <2>1, <3>2, <3>3, <3>4 DEF Deliver
  <2>4. stage = "read" /\ result = "none" /\ total < MAX - 1 /\ total + room < capacity
    BY <1>5 DEF Read, LoopInv
  <2>5. CASE n = 0 /\ ended'
    BY <2>1, <2>2, <2>3, <2>4, <2>5 DEF Received, FinishReading, BufferTypeOK, LoopInv
  <2>6. CASE ~(n = 0 /\ ended') /\ ((n = 0 /\ failed') \/ n > MAX - 1 - total)
    <3>1. stage' = "done" /\ result' = "EIO" /\ total' = total
      BY <2>1, <2>6 DEF Received, FinishReading
    <3>2. total + left' = size
      BY <2>1, <2>2, <2>4, <2>6, <3>1, SizesAssumption DEF BufferTypeOK, LoopInv
    <3> QED
      BY <2>2, <2>3, <2>4, <3>1, <3>2 DEF BufferTypeOK, LoopInv
  <2>7. CASE ~(n = 0 /\ ended') /\ ~((n = 0 /\ failed') \/ n > MAX - 1 - total)
    <3>1. stage' = "head" /\ total' = total + n /\ result' = result
      BY <2>1, <2>7 DEF Received
    <3> QED
      BY <2>1, <2>2, <2>3, <2>4, <3>1 DEF BufferTypeOK, LoopInv
  <2> QED
    BY <2>5, <2>6, <2>7
<1>6. CASE BufferRead \/ UNCHANGED bufferVars
  BY <1>6 DEF BufferRead, bufferVars, BufferTypeOK, LoopInv
<1> QED
  BY <1>1, <1>2, <1>3, <1>4, <1>5, <1>6 DEF BufferNext

(* The counters keep their types, the capacity its limit. *)
THEOREM BufferTypes == BufferSpec => []BufferTypeOK
  BY BufferStarts, BufferStep, PTL DEF BufferSpec

LEMMA LoopInvariant == BufferSpec => [](BufferTypeOK /\ LoopInv)
  BY BufferStarts, BufferStep, PTL DEF BufferSpec

(* No read is asked for more than the buffer has room for beside the NUL. *)
THEOREM BufferBounds == BufferSpec => []BufferHoldsInput
<1>1. LoopInv => BufferHoldsInput
  BY DEF LoopInv, BufferHoldsInput
<1> QED
  BY <1>1, LoopInvariant, PTL

(* An accepted input was read to its end. *)
THEOREM WholeInput == BufferSpec => []AcceptsWholeInput
<1>1. BufferTypeOK /\ LoopInv => AcceptsWholeInput
  BY DEF BufferTypeOK, LoopInv, AcceptsWholeInput
<1> QED
  BY <1>1, LoopInvariant, PTL

(* Only inputs within a chunk of the limit are refused, and all at it. *)
THEOREM NearLimit == BufferSpec => []RefusesNearLimit
<1>1. BufferTypeOK /\ LoopInv => RefusesNearLimit
  BY SizesAssumption DEF BufferTypeOK, LoopInv, RefusesNearLimit, MAX, CHUNK
<1> QED
  BY <1>1, LoopInvariant, PTL
==============================================================================
