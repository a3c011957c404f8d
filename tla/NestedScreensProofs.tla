------------------------- MODULE NestedScreensProofs -------------------------
(***************************************************************************)
(* Proofs about NestedScreens, for every set of windows and every size of  *)
(* the background array.                                                   *)
(***************************************************************************)
EXTENDS NestedScreens, SequenceTheorems, TLAPS

(* Dropping the last element of a sequence keeps the others. *)
LEMMA FrontFacts ==
  ASSUME NEW S, NEW s \in Seq(S), s # << >>
  PROVE  /\ SubSeq(s, 1, Len(s) - 1) \in Seq(S)
         /\ Len(SubSeq(s, 1, Len(s) - 1)) = Len(s) - 1
         /\ \A i \in 1..Len(s) - 1 : SubSeq(s, 1, Len(s) - 1)[i] = s[i]
<1> DEFINE n == Len(s) - 1
<1>0. n \in Nat
  OBVIOUS
<1>1. 1 \in Int /\ n \in Int /\ \A i \in 1..n : s[i] \in S
  OBVIOUS
<1> HIDE DEF n
<1>2. /\ SubSeq(s, 1, n) \in Seq(S)
      /\ Len(SubSeq(s, 1, n)) = IF 1 <= n THEN n - 1 + 1 ELSE 0
      /\ \A i \in 1..n - 1 + 1 : SubSeq(s, 1, n)[i] = s[1 + i - 1]
  BY <1>1, SubSeqProperties
<1>4. \A i \in 1..n : SubSeq(s, 1, n)[i] = s[i]
  BY <1>0, <1>2
<1>5. Len(SubSeq(s, 1, n)) = n
  BY <1>0, <1>2
<1> QED  BY <1>2, <1>4, <1>5 DEF n

(* The frames after each operation, element by element. *)
LEMMA FramesAppend ==
  ASSUME NEW S, NEW s \in Seq(S), NEW w \in S
  PROVE  /\ Append(s, w) \in Seq(S)
         /\ Len(Append(s, w)) = Len(s) + 1
         /\ \A i \in 1..Len(s) : Append(s, w)[i] = s[i]
         /\ Append(s, w)[Len(s) + 1] = w
OBVIOUS

LEMMA FramesExcept ==
  ASSUME NEW S, NEW s \in Seq(S), s # << >>, NEW w \in S
  PROVE  /\ [s EXCEPT ![Len(s)] = w] \in Seq(S)
         /\ Len([s EXCEPT ![Len(s)] = w]) = Len(s)
         /\ \A i \in 1..Len(s) - 1 : [s EXCEPT ![Len(s)] = w][i] = s[i]
         /\ [s EXCEPT ![Len(s)] = w][Len(s)] = w
OBVIOUS

------------------------------------------------------------------------------
(* Each stack operation keeps the types of the statics. *)
LEMMA PushType ==
  ASSUME BackgroundTypeOK, NEW w \in Window, Push(w)
  PROVE  BackgroundTypeOK'
BY StackMaxAssumption DEF BackgroundTypeOK, Push, WindowOrNone, Slots

LEMMA PopType ==
  ASSUME BackgroundTypeOK, Pop
  PROVE  BackgroundTypeOK'
BY StackMaxAssumption DEF BackgroundTypeOK, Pop, WindowOrNone, Slots

LEMMA ReplaceType ==
  ASSUME BackgroundTypeOK, NEW old, NEW new \in WindowOrNone, Replace(old, new)
  PROVE  BackgroundTypeOK'
BY StackMaxAssumption DEF BackgroundTypeOK, Replace, WindowOrNone, Slots

(* The statics, the frames and the live windows always have their types; in
   particular the depth never leaves the array. *)
THEOREM TypeCorrect == Spec => []TypeOK
<1>1. Init => TypeOK
  BY StackMaxAssumption
  DEF Init, TypeOK, BackgroundInit, BackgroundTypeOK, WindowOrNone, Slots
<1>2. TypeOK /\ [Next]_vars => TypeOK'
  <2> SUFFICES ASSUME TypeOK, [Next]_vars
               PROVE  TypeOK'
    OBVIOUS
  <2> USE DEF TypeOK
  <2>1. ASSUME NEW w \in Window, OpenScreen(w)
        PROVE  TypeOK'
    <3>1. BackgroundTypeOK'
      BY <2>1, PushType DEF OpenScreen
    <3>2. frames' \in Seq(WindowOrNone)
      BY <2>1 DEF OpenScreen, WindowOrNone
    <3> QED  BY <2>1, <3>1, <3>2 DEF OpenScreen
  <2>2. ASSUME NEW w \in Window, ResizeScreen(w)
        PROVE  TypeOK'
    <3>1. BackgroundTypeOK'
      BY <2>2, ReplaceType DEF ResizeScreen, WindowOrNone
    <3>2. frames' \in Seq(WindowOrNone)
      BY <2>2, FramesExcept DEF ResizeScreen, WindowOrNone
    <3> QED  BY <2>2, <3>1, <3>2 DEF ResizeScreen
  <2>3. CASE ResizeScreenFails
    <3>1. BackgroundTypeOK'
      BY <2>3, ReplaceType DEF ResizeScreenFails, WindowOrNone
    <3>2. frames' \in Seq(WindowOrNone)
      BY <2>3, FramesExcept DEF ResizeScreenFails, WindowOrNone
    <3> QED  BY <2>3, <3>1, <3>2 DEF ResizeScreenFails
  <2>4. CASE CloseScreen
    <3>1. BackgroundTypeOK'
      BY <2>4, PopType DEF CloseScreen
    <3>2. frames' \in Seq(WindowOrNone)
      BY <2>4, FrontFacts DEF CloseScreen
    <3> QED  BY <2>4, <3>1, <3>2 DEF CloseScreen
  <2>5. CASE UNCHANGED vars
    BY <2>5 DEF vars, BackgroundTypeOK
  <2> QED  BY <2>1, <2>2, <2>3, <2>4, <2>5 DEF Next
<1> QED  BY <1>1, <1>2, PTL DEF Spec
------------------------------------------------------------------------------
(***************************************************************************)
(* The inductive invariant.  One lemma per operation; each restates the    *)
(* frames element by element and then takes StackInv's parts in turn.      *)
(***************************************************************************)
LEMMA OpenKeepsStackInv ==
  ASSUME TypeOK, StackInv, NEW w \in Window, OpenScreen(w)
  PROVE  StackInv'
<1> PICK n \in Nat : n = Len(frames)
  BY DEF TypeOK
<1>1. /\ n = Len(frames) /\ n \in Nat /\ depth \in 0..STACK_MAX /\ deepest \in Nat
      /\ w \in WindowOrNone /\ w # NoWindow
  BY NoWindowAssumption DEF TypeOK, BackgroundTypeOK, WindowOrNone
<1>2. /\ Len(frames') = n + 1
      /\ \A i \in 1..n : frames'[i] = frames[i]
      /\ frames'[n + 1] = w
  BY <1>1, FramesAppend DEF TypeOK, OpenScreen
<1>3. /\ Frame(n + 1)' = w
      /\ \A k \in 0..n : Frame(k)' = Frame(k)
  BY <1>1, <1>2 DEF Frame
<1>4. \A k \in 0..n : Frame(k) \in live \cup {NoWindow}
  BY <1>1 DEF Frame, StackInv, FramesOwned
<1>5. FramesOwned'
  BY <1>1, <1>2 DEF StackInv, FramesOwned, OpenScreen
<1>6. /\ background' = w
      /\ IF depth < STACK_MAX
           THEN /\ slot' = [slot EXCEPT ![depth] = background]
                /\ depth' = depth + 1
           ELSE /\ slot' = [i \in Slots |->
                              IF i < STACK_MAX - 1 THEN slot[i + 1] ELSE background]
                /\ depth' = depth
  BY DEF OpenScreen, Push
<1>7. slot \in [Slots -> WindowOrNone] /\ depth \in Nat /\ STACK_MAX \in Nat \ {0}
  BY StackMaxAssumption DEF TypeOK, BackgroundTypeOK
<1>7a. PICK d \in Nat : d = depth'
  BY <1>1, <1>6, <1>7
<1> DEFINE Holds(i, old) == slot'[i] = (IF old = depth THEN background ELSE slot[old])
<1>7b. ASSUME depth < STACK_MAX
      PROVE  RemembersOrForgets' /\ RemembersAll'
  <2>1. depth' = depth + 1 /\ \A i \in 0..depth : Holds(i, i)
    BY <1>6, <1>7, <1>7b DEF Slots
  <2>2. RemembersOrForgets'
    BY <1>1, <1>2, <1>3, <1>6, <1>7, <2>1 DEF StackInv, RemembersOrForgets
  <2>3. ASSUME deepest' <= STACK_MAX + 1
        PROVE  /\ n + 1 - d <= 1
               /\ \A i \in 0..d-1 : slot'[i] = Frame(n + 1 - d + i)'
    <3>1. deepest <= STACK_MAX + 1 /\ n <= STACK_MAX
      BY <1>1, <1>7, <2>3 DEF OpenScreen
    <3>2. /\ n - depth <= 1
          /\ background = Frame(n)
          /\ \A i \in 0..depth-1 : slot[i] = Frame(n - depth + i)
      BY <1>1, <3>1 DEF StackInv, RemembersAll
    <3> QED  BY <1>1, <1>3, <1>7, <1>7a, <1>7b, <2>1, <3>1, <3>2
             DEF StackInv, RemembersOrForgets
  <2>4. RemembersAll'
    <3>1. Len(frames') = n + 1 /\ depth' = d /\ background' = Frame(n + 1)'
      BY <1>2, <1>3, <1>6, <1>7a
    <3>2. \A i \in 0..d-1 : Frame(Len(frames) - depth + i)' = Frame(n + 1 - d + i)'
      BY <3>1 DEF Frame
    <3>3. Frame(Len(frames))' = Frame(n + 1)'
      BY <3>1 DEF Frame
    <3> QED  BY <2>3, <3>1, <3>2, <3>3 DEF RemembersAll
  <2> QED  BY <2>2, <2>4
<1>7c. ASSUME depth = STACK_MAX
      PROVE  RemembersOrForgets' /\ RemembersAll'
  <2>1. depth' = depth /\ \A i \in 0..depth-1 : Holds(i, i + 1)
    BY <1>6, <1>7, <1>7c DEF Slots
  <2>2. RemembersOrForgets'
    BY <1>1, <1>2, <1>3, <1>6, <1>7, <2>1 DEF StackInv, RemembersOrForgets
  <2>3. ASSUME deepest' <= STACK_MAX + 1
        PROVE  /\ n + 1 - d <= 1
               /\ \A i \in 0..d-1 : slot'[i] = Frame(n + 1 - d + i)'
    <3>1. deepest <= STACK_MAX + 1 /\ n <= STACK_MAX
      BY <1>1, <1>7, <2>3 DEF OpenScreen
    <3>2. /\ n - depth <= 1
          /\ background = Frame(n)
          /\ \A i \in 0..depth-1 : slot[i] = Frame(n - depth + i)
      BY <1>1, <3>1 DEF StackInv, RemembersAll
    <3> QED  BY <1>1, <1>3, <1>7, <1>7a, <1>7c, <2>1, <3>1, <3>2
             DEF StackInv, RemembersOrForgets
  <2>4. RemembersAll'
    <3>1. Len(frames') = n + 1 /\ depth' = d /\ background' = Frame(n + 1)'
      BY <1>2, <1>3, <1>6, <1>7a
    <3>2. \A i \in 0..d-1 : Frame(Len(frames) - depth + i)' = Frame(n + 1 - d + i)'
      BY <3>1 DEF Frame
    <3>3. Frame(Len(frames))' = Frame(n + 1)'
      BY <3>1 DEF Frame
    <3> QED  BY <2>3, <3>1, <3>2, <3>3 DEF RemembersAll
  <2> QED  BY <2>2, <2>4
<1>8. RemembersOrForgets' /\ RemembersAll'
  BY <1>1, <1>7, <1>7b, <1>7c
<1>10. (Len(frames) <= deepest)'
  BY <1>1, <1>2 DEF StackInv, OpenScreen
<1> QED  BY <1>5, <1>8, <1>10 DEF StackInv

(* Both forms of a resize: the innermost frame becomes w or nothing. *)
LEMMA ReplaceKeepsStackInv ==
  ASSUME TypeOK, StackInv, frames # << >>, Top # NoWindow,
         NEW w \in WindowOrNone, w \notin live,
         frames' = [frames EXCEPT ![Len(frames)] = w],
         live' = (live \cup (IF w = NoWindow THEN {} ELSE {w})) \ {Top},
         Replace(Top, w),
         deepest' = deepest
  PROVE  StackInv'
<1> PICK n \in Nat \ {0} : n = Len(frames)
  BY DEF TypeOK, CloseScreen
<1>1. /\ n = Len(frames) /\ n \in Nat \ {0} /\ depth \in 0..STACK_MAX /\ depth \in Nat
      /\ slot \in [Slots -> WindowOrNone]
      /\ STACK_MAX \in Nat \ {0}
  BY StackMaxAssumption DEF TypeOK, BackgroundTypeOK
<1>2. /\ Len(frames') = n
      /\ \A i \in 1..n-1 : frames'[i] = frames[i]
      /\ frames'[n] = w
  BY FramesExcept DEF TypeOK
<1>3. /\ Frame(n)' = w /\ Frame(n) = Top
      /\ \A k \in 0..n-1 : Frame(k)' = Frame(k)
  BY <1>1, <1>2 DEF Frame, Top
<1>4. \A k \in 0..n-1 : Frame(k) # Top
  BY <1>1 DEF Frame, Top, StackInv, FramesOwned
<1>5. FramesOwned'
  BY <1>1, <1>2 DEF StackInv, FramesOwned, Top
<1>6. /\ background' = IF background = Top THEN w ELSE background
      /\ slot' = [i \in Slots |-> IF i < depth /\ slot[i] = Top THEN w ELSE slot[i]]
      /\ depth' = depth
  BY DEF Replace
<1>7. depth <= n /\ \A i \in 0..depth-1 : slot[i] # Top
  BY <1>1, <1>3, <1>4 DEF StackInv, RemembersOrForgets
<1>8. \A i \in 0..depth-1 : slot'[i] = slot[i]
  BY <1>1, <1>6, <1>7 DEF Slots
<1>9. RemembersOrForgets'
  BY <1>1, <1>2, <1>3, <1>6, <1>7, <1>8 DEF StackInv, RemembersOrForgets
<1>10. RemembersAll'
  BY <1>1, <1>2, <1>3, <1>6, <1>7, <1>8 DEF StackInv, RemembersAll
<1>11. (Len(frames) <= deepest)'
  BY <1>1, <1>2 DEF StackInv
<1> QED  BY <1>5, <1>9, <1>10, <1>11 DEF StackInv

LEMMA CloseKeepsStackInv ==
  ASSUME TypeOK, StackInv, CloseScreen
  PROVE  StackInv'
<1> PICK n \in Nat \ {0} : n = Len(frames)
  BY DEF TypeOK, CloseScreen
<1>1. /\ n = Len(frames) /\ n \in Nat \ {0} /\ depth \in 0..STACK_MAX /\ depth \in Nat
      /\ deepest \in Nat
      /\ slot \in [Slots -> WindowOrNone]
      /\ STACK_MAX \in Nat \ {0}
  BY StackMaxAssumption DEF TypeOK, BackgroundTypeOK, CloseScreen
<1>2. /\ Len(frames') = n - 1
      /\ \A i \in 1..n-1 : frames'[i] = frames[i]
  BY FrontFacts DEF TypeOK, CloseScreen
<1>3. \A k \in 0..n-1 : Frame(k)' = Frame(k)
  BY <1>1, <1>2 DEF Frame
<1>4. \A i \in 1..n-1 : frames[i] # Top \/ frames[i] = NoWindow
  BY <1>1 DEF Top, StackInv, FramesOwned
<1>5. FramesOwned'
  BY <1>1, <1>2, <1>4 DEF StackInv, FramesOwned, CloseScreen
<1>6. IF depth = 0
        THEN background' = NoWindow /\ slot' = slot /\ depth' = depth
        ELSE /\ depth' = depth - 1
             /\ background' = slot[depth - 1]
             /\ slot' = [slot EXCEPT ![depth - 1] = NoWindow]
  BY DEF CloseScreen, Pop
<1>7. RemembersOrForgets'
  <2>1. CASE depth = 0
    BY <1>1, <1>2, <1>6, <2>1 DEF StackInv, RemembersOrForgets
  <2>2. CASE depth # 0
    <3>1. /\ depth' = depth - 1 /\ background' = slot[depth - 1]
          /\ \A i \in 0..depth - 2 : slot'[i] = slot[i]
      BY <1>1, <1>6, <2>2 DEF Slots
    <3>2. /\ depth <= n
          /\ \A i \in 0..depth - 1 : slot[i] \in {NoWindow, Frame(n - depth + i)}
      BY <1>1 DEF StackInv, RemembersOrForgets
    <3>3. background' \in {NoWindow, Frame(n - 1)'}
      BY <1>1, <1>3, <2>2, <3>1, <3>2
    <3> QED  BY <1>1, <1>2, <1>3, <2>2, <3>1, <3>2, <3>3 DEF RemembersOrForgets
  <2> QED  BY <2>1, <2>2
<1>8. RemembersAll'
  <2> SUFFICES ASSUME deepest' <= STACK_MAX + 1
               PROVE  RemembersAll'
    BY DEF RemembersAll
  <2>1. CASE n = 1
    <3>1. depth' = 0 /\ background' \in {NoWindow, Frame(0)'} /\ Frame(0)' = NoWindow
      BY <1>1, <1>2, <1>6, <1>7, <2>1 DEF RemembersOrForgets, Frame
    <3> QED  BY <1>1, <1>2, <2>1, <3>1 DEF RemembersAll
  <2>2. CASE n # 1
    <3>1. deepest <= STACK_MAX + 1
      BY <2>2 DEF CloseScreen
    <3>2. /\ n - depth <= 1
          /\ background = Frame(n)
          /\ \A i \in 0..depth-1 : slot[i] = Frame(n - depth + i)
      BY <3>1 DEF StackInv, RemembersAll
    <3>3. depth # 0
      BY <1>1, <2>2, <3>2
    <3> QED  BY <1>1, <1>2, <1>3, <1>6, <3>2, <3>3
             DEF RemembersAll, StackInv, RemembersOrForgets, Slots
  <2> QED  BY <2>1, <2>2
<1>9. (Len(frames) <= deepest)'
  BY <1>1, <1>2 DEF StackInv, CloseScreen
<1> QED  BY <1>5, <1>7, <1>8, <1>9 DEF StackInv

(* Whatever the nesting and the array's size, the stack holds the frames of
   the enclosing screens or has forgotten them, and holds every one of them
   until the nesting exceeds STACK_MAX + 1. *)
THEOREM StackInvariant == Spec => []StackInv
<1>1. Init => StackInv
  BY StackMaxAssumption
  DEF Init, BackgroundInit, StackInv, FramesOwned, RemembersOrForgets,
      RemembersAll, Frame
<1>2. TypeOK /\ StackInv /\ [Next]_vars => StackInv'
  <2> SUFFICES ASSUME TypeOK, StackInv, [Next]_vars
               PROVE  StackInv'
    OBVIOUS
  <2>1. ASSUME NEW w \in Window, OpenScreen(w)
        PROVE  StackInv'
    BY <2>1, OpenKeepsStackInv
  <2>2. ASSUME NEW w \in Window, ResizeScreen(w)
        PROVE  StackInv'
    <3>1. w \in WindowOrNone /\ w # NoWindow
      BY NoWindowAssumption DEF WindowOrNone
    <3> QED  BY <2>2, <3>1, ReplaceKeepsStackInv DEF ResizeScreen
  <2>3. CASE ResizeScreenFails
    <3>1. NoWindow \in WindowOrNone /\ NoWindow \notin live
      BY NoWindowAssumption DEF WindowOrNone, TypeOK
    <3> QED  BY <2>3, <3>1, ReplaceKeepsStackInv DEF ResizeScreenFails
  <2>4. CASE CloseScreen
    BY <2>4, CloseKeepsStackInv
  <2>5. CASE UNCHANGED vars
    BY <2>5 DEF vars, StackInv, FramesOwned, RemembersOrForgets, RemembersAll, Frame
  <2> QED  BY <2>1, <2>2, <2>3, <2>4, <2>5 DEF Next
<1> QED  BY <1>1, <1>2, TypeCorrect, PTL DEF Spec

(* No window the statics point to has been destroyed. *)
THEOREM NoDangling == Spec => []NoDanglingBackground
<1>1. TypeOK /\ StackInv => NoDanglingBackground
  <2> SUFFICES ASSUME TypeOK, StackInv
               PROVE  NoDanglingBackground
    OBVIOUS
  <2>1. Len(frames) \in Nat /\ depth \in Nat
    BY DEF TypeOK, BackgroundTypeOK
  <2>2. \A k \in 0..Len(frames) : Frame(k) \in live \cup {NoWindow}
    BY <2>1 DEF StackInv, FramesOwned, Frame
  <2> QED  BY <2>1, <2>2 DEF NoDanglingBackground, StackInv, RemembersOrForgets
<1> QED  BY <1>1, TypeCorrect, StackInvariant, PTL


------------------------------------------------------------------------------
(* The innermost screen's window, as ScreenStack and StackInv name it. *)
LEMMA InnermostIsFrame ==
  ASSUME TypeOK
  PROVE  Screens!Innermost(frames) = Frame(Len(frames))
BY DEF TypeOK, Screens!Innermost, Frame

LEMMA NotHeld ==
  ASSUME TypeOK, StackInv, NEW w, w \notin live, w # NoWindow
  PROVE  \A i \in 1..Len(frames) : frames[i] # w
BY DEF StackInv, FramesOwned

(* Every step of a screen around the bounded array is a step of an unbounded
   stack of screens of capacity STACK_MAX + 1. *)
THEOREM ImplementsScreenStack == Spec => ScreensSpec
<1>1. Init => Screens!Init
  BY DEF Init, BackgroundInit, Screens!Init
<1>2. TypeOK /\ TypeOK' /\ StackInv /\ StackInv' /\ [Next]_vars
        => [Screens!Next]_(Screens!vars)
  <2> SUFFICES ASSUME TypeOK, TypeOK', StackInv, StackInv', [Next]_vars
               PROVE  [Screens!Next]_(Screens!vars)
    OBVIOUS
  <2>0. /\ Screens!Innermost(frames) = Frame(Len(frames))
        /\ Screens!Innermost(frames') = Frame(Len(frames))'
    <3>1. TypeOK' => Screens!Innermost(frames)' = Frame(Len(frames))'
      BY DEF TypeOK, Screens!Innermost, Frame
    <3> QED  BY <3>1, InnermostIsFrame DEF Screens!Innermost
  <2>0a. frames # << >> => Frame(Len(frames)) = Top
    BY DEF TypeOK, Frame, Top
  <2>1. ASSUME NEW w \in Window, OpenScreen(w)
        PROVE  Screens!Open(w)
    <3>1. w # NoWindow
      BY NoWindowAssumption
    <3> QED  BY <2>0, <2>0a, <2>1, <3>1, NotHeld DEF OpenScreen, Push, Screens!Open
  <2>2. ASSUME NEW w \in WindowOrNone, frames # << >>, Top # NoWindow,
               w = NoWindow \/ w \notin live,
               frames' = [frames EXCEPT ![Len(frames)] = w],
               Replace(Top, w), deepest' = deepest
        PROVE  Screens!Resize(w)
    <3>1. w = NoWindow \/ \A i \in 1..Len(frames) : frames[i] # w
      BY <2>2, NotHeld
    <3>2. Screens!Innermost(frames) = Top
      BY <2>0, <2>0a, <2>2
    <3>3. background' = IF background = Top THEN w ELSE background
      BY <2>2 DEF Replace
    <3> QED  BY <2>2, <3>1, <3>2, <3>3 DEF Screens!Resize
  <2>3. /\ \A w \in Window : ResizeScreen(w) => Screens!Resize(w)
        /\ ResizeScreenFails => Screens!Resize(NoWindow)
    BY <2>2 DEF ResizeScreen, ResizeScreenFails, WindowOrNone
  <2>4. ASSUME CloseScreen
        PROVE  Screens!Close
    <3>1. background' \in {NoWindow, Screens!Innermost(frames')}
      BY <2>0 DEF StackInv, RemembersOrForgets
    <3>2. deepest <= STACK_MAX + 1 => deepest' <= STACK_MAX + 1
      <4>1. STACK_MAX \in Nat /\ deepest' = (IF Len(frames) = 1 THEN 0 ELSE deepest)
        BY <2>4, StackMaxAssumption DEF CloseScreen
      <4>2. deepest \in Nat /\ deepest' \in Nat
        BY DEF TypeOK
      <4> QED  BY <4>1, <4>2
    <3>3. deepest <= STACK_MAX + 1 => background' = Screens!Innermost(frames')
      BY <2>0, <3>2 DEF StackInv, RemembersAll
    <3>4. deepest <= STACK_MAX + 1 \/ deepest > STACK_MAX + 1
      BY StackMaxAssumption DEF TypeOK
    <3> QED  BY <2>4, <3>1, <3>3, <3>4 DEF CloseScreen, Screens!Close, Screens!Enclosing
  <2>5. CASE UNCHANGED vars
    BY <2>5 DEF vars, Screens!vars
  <2> QED  BY <2>1, <2>3, <2>4, <2>5 DEF Next, Screens!Next
<1> QED  BY <1>1, <1>2, TypeCorrect, StackInvariant, PTL DEF Spec, ScreensSpec, Screens!Spec
==============================================================================
