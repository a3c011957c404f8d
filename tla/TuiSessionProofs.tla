--------------------------- MODULE TuiSessionProofs ---------------------------
(***************************************************************************)
(* Proofs about TuiSession, for every set of windows, every set of heights *)
(* and every stack of more than three entries.                             *)
(***************************************************************************)
EXTENDS TuiSession, SequenceTheorems, FiniteSetTheorems, TLAPS

(***************************************************************************)
(* The inductive invariant, part by part.                                  *)
(***************************************************************************)

(* The points each function can be at, and the menus and dialogs there are. *)
WellFormed(call) ==
  \/ /\ call.fn = "run"
     /\ call.at \in {"open", "sigint", "sigterm", "modes", "frame", "loop", "status",
                     "confirmed", "overlaid", "pop", "cleanup"}
  \/ /\ call.fn = "menu" /\ call.kind \in {"main", "settings", "overlay"}
     /\ call.at \in {"open", "check", "enter", "read", "gone"}
  \/ /\ call.fn = "dialog" /\ call.kind \in {"confirm", "input", "message", "layout"}
     /\ call.at \in {"open", "check", "enter", "read"}
  \/ call.fn = "settings" /\ call.at \in {"open", "loop", "status"}
  \/ call.fn = "overlay" /\ call.at \in {"open", "status"}
  \/ call.fn = "prompt" /\ call.at \in {"open", "asked"}
  \/ call.fn = "progress" /\ call.at \in {"open", "work"}

(* The points at which a function is inside a call of another. *)
Waits(call) ==
  \/ call.fn = "run" /\ call.at \in {"loop", "status", "confirmed", "overlaid"}
  \/ call.fn = "settings" /\ call.at \in {"loop", "status"}
  \/ call.fn = "overlay" /\ call.at \in {"open", "status"}
  \/ call.fn = "prompt" /\ call.at = "asked"

(* The k-th call is one that the code can make at that depth. *)
InPlace(call, k) ==
  /\ call \in CallRecord /\ WellFormed(call)
  /\ call.fn = "run" <=> k = 1
  /\ k = 3 => call.fn \in {"menu", "dialog"}
  /\ call.pushed => OwnsFrame(call)

CallsInv ==
  /\ calls \in Seq(CallRecord) /\ Len(calls) <= 3
  /\ \A k \in 1..Len(calls) : /\ InPlace(calls[k], k)
                              /\ k < Len(calls) => Waits(calls[k])

(* The stack has forgotten nothing and holds nothing else. *)
ExactInv ==
  /\ depth = Len(frames)
  /\ background = Screens!Frame(Len(frames))
  /\ \A k \in 0..STACK_MAX-1 : slot[k] = IF k < depth THEN Screens!Frame(k) ELSE NoWindow

FramesInv ==
  /\ live = {frames[k] : k \in 1..Len(frames)} \ {NoWindow}
  /\ \A j, k \in 1..Len(frames) :
       frames[j] = frames[k] /\ frames[j] # NoWindow => j = k

(* A screen is without its window only while the menu that lost it leaves. *)
AtGone == At("menu", "gone") /\ OwnsFrame(Current)
GoneInv == \A k \in 1..Len(frames) : frames[k] = NoWindow => k = Len(frames) /\ AtGone

HeldInv == Len(frames) = Cardinality(Holders)

HasDialog(call) ==
  call.fn \in {"dialog", "progress"} /\ call.at \in {"check", "enter", "read", "work"}

DialogInv ==
  /\ dialog \notin live
  /\ dialog # NoWindow => Running /\ HasDialog(Current)

(* What is set up at each point of tui_run_app. *)
TermInv ==
  /\ Running /\ calls[1].at = "open" => ~curses /\ handlers = {} /\ ~inited
  /\ Running /\ calls[1].at = "sigint" => handlers = {} /\ ~inited
  /\ Running /\ calls[1].at = "sigterm" => handlers = {"SIGINT"} /\ ~inited
  /\ Running /\ calls[1].at = "modes" => ~inited
  /\ ~Running => ~curses /\ handlers = {} /\ ~inited
  /\ Running /\ handlers = {} => pending = NoSignal
  /\ handlers = {"SIGINT"} => pending \in {NoSignal, "SIGINT"}
  /\ ~Running => pending = NoSignal \/ (pending = "SIGINT" /\ err = "SIGNAL")

Leaving == ~Running \/ calls[1].at \in {"pop", "cleanup"}

ExitInv ==
  /\ ret = "yes" => yes
  /\ pending \in delivered \cup {NoSignal}
  /\ err = "TERMINATED" => "SIGTERM" \in delivered
  /\ err = "INTERRUPTED" => "SIGINT" \in delivered
  /\ Leaving /\ err = "SUCCESS" => yes
  /\ ~Leaving /\ ret = "interrupted" => pending # NoSignal

WindowsInv == CallsInv /\ ExactInv /\ FramesInv /\ GoneInv /\ HeldInv /\ DialogInv
SessionInv == TypeOK /\ WindowsInv /\ TermInv /\ ExitInv

------------------------------------------------------------------------------
(***************************************************************************)
(* What each way of changing the stack of calls does to it.                *)
(***************************************************************************)

(* Dropping the last call keeps the others. *)
LEMMA FrontCalls ==
  ASSUME NEW S, NEW s \in Seq(S), s # << >>
  PROVE  /\ SubSeq(s, 1, Len(s) - 1) \in Seq(S)
         /\ Len(SubSeq(s, 1, Len(s) - 1)) = Len(s) - 1
         /\ \A i \in 1..Len(s) - 1 : SubSeq(s, 1, Len(s) - 1)[i] = s[i]
<1> DEFINE n == Len(s) - 1
<1>0. n \in Nat
  OBVIOUS
<1>1. 1 \in Int /\ n \in Int /\ \A i \in 1..n : s[i] \in S
  OBVIOUS
<1> HIDE DEF n
<1>2. /\ SubSeq(s, 1, n) \in Seq(S)
      /\ Len(SubSeq(s, 1, n)) = IF 1 <= n THEN n - 1 + 1 ELSE 0
      /\ \A i \in 1..n - 1 + 1 : SubSeq(s, 1, n)[i] = s[1 + i - 1]
  BY <1>1, SubSeqProperties
<1>3. \A i \in 1..n : SubSeq(s, 1, n)[i] = s[i]
  BY <1>0, <1>2
<1>4. Len(SubSeq(s, 1, n)) = n
  BY <1>0, <1>2
<1> QED BY <1>2, <1>3, <1>4 DEF n

(* The calls that hold a frame are finitely many, no more than the calls. *)
LEMMA HoldersFinite ==
  ASSUME CallsInv
  PROVE  /\ IsFiniteSet(Holders) /\ Cardinality(Holders) \in Nat
         /\ Cardinality(Holders) <= Len(calls)
<1>1. Len(calls) \in Nat
  BY DEF CallsInv
<1>2. IsFiniteSet(1..Len(calls)) /\ Cardinality(1..Len(calls)) = Len(calls)
  BY <1>1, FS_Interval
<1>3. Holders \subseteq 1..Len(calls)
  BY DEF Holders
<1> QED BY <1>2, <1>3, FS_Subset, FS_CardinalityType

(* The innermost call is the last of a stack of at most three. *)
LEMMA CurrentType ==
  ASSUME CallsInv, Running
  PROVE  /\ Len(calls) \in 1..3 /\ calls[Len(calls)] = Current
         /\ InPlace(Current, Len(calls))
         /\ Current.fn = "run" <=> Len(calls) = 1
         /\ Current.fn \notin {"menu", "dialog"} => Len(calls) < 3
<1> DEFINE n == Len(calls)
<1>1. n \in 1..3
  <2>1. calls \in Seq(CallRecord) /\ n <= 3 /\ calls # << >>
    BY DEF CallsInv, Running
  <2>2. n \in Nat \ {0}
    BY <2>1, EmptySeq
  <2> HIDE DEF n
  <2> QED BY <2>1, <2>2
<1>2. InPlace(calls[Len(calls)], Len(calls))
  BY <1>1 DEF CallsInv
<1>3. Current.fn \notin {"menu", "dialog"} => n # 3
  BY <1>2 DEF Current, InPlace
<1> HIDE DEF n
<1>4. Current.fn \notin {"menu", "dialog"} => n < 3
  BY <1>1, <1>3
<1> QED BY <1>1, <1>2, <1>4 DEF Current, InPlace, n

(* tui_run_app is the outermost call, and waits for any other. *)
LEMMA OutermostWaits ==
  ASSUME CallsInv, Running, Len(calls) # 1
  PROVE  calls[1].at \in {"loop", "status", "confirmed", "overlaid"} /\ ~Leaving
<1>1. Len(calls) \in 2..3
  BY CurrentType
<1>2. Waits(calls[1]) /\ calls[1].fn = "run"
  BY <1>1 DEF CallsInv, InPlace
<1> QED BY <1>2 DEF Waits, Leaving

(* The innermost call moves on to another point, or becomes another call. *)
LEMMA ReplaceFacts ==
  ASSUME CallsInv, Running, NEW c, InPlace(c, Len(calls)),
         calls' = [calls EXCEPT ![Len(calls)] = c]
  PROVE  /\ CallsInv' /\ Running' /\ Current' = c
         /\ Len(calls') = Len(calls)
         /\ calls'[1] = IF Len(calls) = 1 THEN c ELSE calls[1]
         /\ (HoldsFrame(c) <=> HoldsFrame(Current)) => Holders' = Holders
         /\ HoldsFrame(c) /\ ~HoldsFrame(Current)
              => Cardinality(Holders') = Cardinality(Holders) + 1
         /\ ~HoldsFrame(c) /\ HoldsFrame(Current)
              => Cardinality(Holders') = Cardinality(Holders) - 1
<1> DEFINE n == Len(calls)
<1>1. n \in 1..3 /\ calls[n] = Current /\ c \in CallRecord
  BY CurrentType DEF InPlace
<1>2. /\ calls' \in Seq(CallRecord) /\ Len(calls') = n
      /\ \A k \in 1..n : calls'[k] = IF k = n THEN c ELSE calls[k]
  BY <1>1 DEF CallsInv
<1> HIDE DEF n
<1>3. CallsInv'
  <2>1. ASSUME NEW k \in 1..n
        PROVE  InPlace(calls'[k], k) /\ (k < n => Waits(calls'[k]))
    <3>1. InPlace(calls[k], k) /\ (k < n => Waits(calls[k]))
      BY <1>1 DEF CallsInv, n
    <3>2. CASE k = n
      BY <1>1, <1>2, <3>2 DEF n
    <3>3. CASE k # n
      BY <1>1, <1>2, <3>1, <3>3
    <3> QED BY <3>2, <3>3
  <2> QED BY <1>1, <1>2, <2>1 DEF CallsInv, n
<1>4. Running' /\ Current' = c
  BY <1>1, <1>2 DEF Running, Current
<1>5. calls'[1] = IF n = 1 THEN c ELSE calls[1]
  BY <1>1, <1>2
<1>6. Holders' = {k \in 1..n : IF k = n THEN HoldsFrame(c) ELSE HoldsFrame(calls[k])}
  BY <1>1, <1>2 DEF Holders
<1>7. Holders = {k \in 1..n : IF k = n THEN HoldsFrame(Current) ELSE HoldsFrame(calls[k])}
  BY <1>1 DEF Holders, n
<1>8. IsFiniteSet(Holders)
  BY HoldersFinite
<1>9. ASSUME HoldsFrame(c), ~HoldsFrame(Current)
      PROVE  Cardinality(Holders') = Cardinality(Holders) + 1
  <2>1. n \notin Holders /\ Holders' = Holders \cup {n}
    BY <1>1, <1>6, <1>7, <1>9
  <2> QED BY <1>8, <2>1, FS_AddElement
<1>10. ASSUME ~HoldsFrame(c), HoldsFrame(Current)
       PROVE  Cardinality(Holders') = Cardinality(Holders) - 1
  <2>1. n \in Holders /\ Holders' = Holders \ {n}
    BY <1>1, <1>6, <1>7, <1>10
  <2> QED BY <1>8, <2>1, FS_RemoveElement
<1> QED BY <1>2, <1>3, <1>4, <1>5, <1>6, <1>7, <1>9, <1>10 DEF n

(* It calls another function. *)
LEMMA InvokeFacts ==
  ASSUME CallsInv, Running, Len(calls) < 3, NEW d, NEW at,
         InPlace([Current EXCEPT !.at = at], Len(calls)),
         Waits([Current EXCEPT !.at = at]),
         HoldsFrame([Current EXCEPT !.at = at]) <=> HoldsFrame(Current),
         InPlace(d, Len(calls) + 1), ~HoldsFrame(d),
         Invoke(d, at)
  PROVE  /\ CallsInv' /\ Running' /\ Current' = d
         /\ Len(calls') = Len(calls) + 1 /\ Holders' = Holders
<1> DEFINE n == Len(calls)
           c == [Current EXCEPT !.at = at]
<1>1. n \in 1..2 /\ calls[n] = Current /\ c \in CallRecord /\ d \in CallRecord
  BY CurrentType DEF InPlace
<1>2. calls' = Append([calls EXCEPT ![n] = c], d)
  BY DEF Invoke, Current
<1> HIDE DEF c
<1>3. /\ calls' \in Seq(CallRecord) /\ Len(calls') = n + 1
      /\ \A k \in 1..n : calls'[k] = IF k = n THEN c ELSE calls[k]
      /\ calls'[n + 1] = d
  BY <1>1, <1>2 DEF CallsInv
<1> HIDE DEF n
<1>4. ASSUME NEW k \in 1..n + 1
      PROVE  InPlace(calls'[k], k) /\ (k < n + 1 => Waits(calls'[k]))
  <2>1. CASE k = n + 1
    BY <1>3, <2>1 DEF n
  <2>2. CASE k = n
    BY <1>1, <1>3, <2>2 DEF n, c
  <2>3. CASE k \in 1..n /\ k # n
    BY <1>1, <1>3, <2>3 DEF CallsInv, n
  <2> QED BY <1>1, <2>1, <2>2, <2>3
<1>5. CallsInv'
  BY <1>1, <1>3, <1>4 DEF CallsInv
<1>6. Running' /\ Current' = d
  BY <1>1, <1>3 DEF Running, Current
<1>7. Holders' = Holders
  <2>1. \A k \in 1..n : HoldsFrame(calls'[k]) <=> HoldsFrame(calls[k])
    BY <1>1, <1>3 DEF c
  <2> QED BY <1>1, <1>3, <2>1 DEF Holders, n
<1> QED BY <1>3, <1>5, <1>6, <1>7 DEF n

(* It returns to its caller, which was waiting for it. *)
LEMMA ReturnFacts ==
  ASSUME CallsInv, Running, Len(calls) # 1, NEW v, Return(v)
  PROVE  /\ CallsInv' /\ Running' /\ Waits(Current') /\ ret' = v
         /\ calls'[1] = calls[1]
         /\ ~HoldsFrame(Current) => Cardinality(Holders') = Cardinality(Holders)
         /\ HoldsFrame(Current) => Cardinality(Holders') = Cardinality(Holders) - 1
<1> DEFINE n == Len(calls)
<1>1. n \in 2..3 /\ calls[n] = Current
  BY CurrentType
<1>2. /\ calls' \in Seq(CallRecord) /\ Len(calls') = n - 1
      /\ \A k \in 1..n - 1 : calls'[k] = calls[k]
  BY <1>1, FrontCalls DEF CallsInv, Return, Running
<1> HIDE DEF n
<1>3. CallsInv'
  <2>1. ASSUME NEW k \in 1..n - 1
        PROVE  InPlace(calls'[k], k) /\ Waits(calls'[k])
    BY <1>1, <1>2 DEF CallsInv, n
  <2> QED BY <1>1, <1>2, <2>1 DEF CallsInv
<1>4. Running' /\ Waits(Current') /\ calls'[1] = calls[1]
  BY <1>1, <1>2 DEF Running, Current, CallsInv, n
<1>5. Holders' = Holders \ {n}
  BY <1>1, <1>2 DEF Holders, n
<1>6. n \in Holders <=> HoldsFrame(Current)
  BY <1>1 DEF Holders, n
<1>7. IsFiniteSet(Holders)
  BY HoldersFinite
<1> QED BY <1>3, <1>4, <1>5, <1>6, <1>7, FS_RemoveElement DEF Return

(* tui_run_app, the only call left, returns. *)
LEMMA FinishFacts ==
  ASSUME CallsInv, Running, calls' = << >>
  PROVE  CallsInv' /\ ~Running' /\ Cardinality(Holders') = 0
<1>1. CallsInv' /\ ~Running'
  BY DEF CallsInv, Running
<1>2. Holders' = {}
  BY DEF Holders
<1> QED BY <1>1, <1>2, FS_EmptySet

------------------------------------------------------------------------------
(***************************************************************************)
(* What each screen operation does to the frames and the statics, below    *)
(* the stack's limit.                                                      *)
(***************************************************************************)

NullOnlyLast == \A k \in 1..Len(frames) - 1 : frames[k] # NoWindow
NoneNull == \A k \in 1..Len(frames) : frames[k] # NoWindow

ScreensInv == Screens!TypeOK /\ ExactInv /\ FramesInv /\ NullOnlyLast

LEMMA OpenFacts ==
  ASSUME ScreensInv, Len(frames) < STACK_MAX, NEW w \in Window, Screens!OpenScreen(w)
  PROVE  /\ Screens!TypeOK' /\ ExactInv' /\ FramesInv' /\ NoneNull'
         /\ Len(frames') = Len(frames) + 1 /\ live' = live \cup {w}
<1> PICK n \in Nat : n = Len(frames)
  BY DEF ScreensInv, Screens!TypeOK
<1>1. n \in Nat /\ frames \in Seq(Window \cup {NoWindow}) /\ w # NoWindow
  BY NullAssumption DEF ScreensInv, Screens!TypeOK, Screens!WindowOrNone
<1>2. /\ frames' \in Seq(Window \cup {NoWindow}) /\ Len(frames') = n + 1
      /\ \A k \in 1..n : frames'[k] = frames[k]
      /\ frames'[n + 1] = w
  BY <1>1 DEF Screens!OpenScreen
<1>3. /\ n # 0 => frames[n] # NoWindow
      /\ w \notin live /\ live' = live \cup {w}
  BY <1>1 DEF Screens!OpenScreen, Screens!Top
<1>4. /\ depth = n /\ n < STACK_MAX /\ STACK_MAX \in Nat
      /\ background \in Window \cup {NoWindow}
      /\ slot \in [0..STACK_MAX-1 -> Window \cup {NoWindow}]
      /\ background = Screens!Frame(n)
      /\ \A k \in 0..STACK_MAX-1 : slot[k] = IF k < n THEN Screens!Frame(k) ELSE NoWindow
  BY NestingAssumption
  DEF ScreensInv, ExactInv, Screens!TypeOK, Screens!BackgroundTypeOK, Screens!Slots,
      Screens!WindowOrNone
<1>5. /\ background' = w /\ depth' = n + 1
      /\ slot' = [slot EXCEPT ![n] = background]
  BY <1>4 DEF Screens!OpenScreen, Screens!Push
<1>6. live = {frames[k] : k \in 1..n} \ {NoWindow}
  BY DEF ScreensInv, FramesInv
<1>6a. \A j, k \in 1..n : frames[j] = frames[k] /\ frames[j] # NoWindow => j = k
  BY DEF ScreensInv, FramesInv
<1>6b. \A k \in 1..n - 1 : frames[k] # NoWindow
  BY DEF ScreensInv, NullOnlyLast
<1>6c. deepest' \in Nat /\ live' \subseteq Window
  BY DEF ScreensInv, Screens!TypeOK, Screens!OpenScreen
<1>7. /\ Screens!Frame(n + 1)' = w
      /\ \A k \in 0..n : Screens!Frame(k)' = Screens!Frame(k)
  BY <1>1, <1>2 DEF Screens!Frame
<1>8. Screens!TypeOK'
  BY <1>2, <1>4, <1>5, <1>1, <1>6c
  DEF Screens!TypeOK, Screens!BackgroundTypeOK, Screens!WindowOrNone, Screens!Slots
<1>9. ExactInv'
  <2>1. \A k \in 0..STACK_MAX-1 :
          slot'[k] = IF k < n + 1 THEN Screens!Frame(k)' ELSE NoWindow
    BY <1>1, <1>4, <1>5, <1>7
  <2> QED BY <2>1, <1>2, <1>5, <1>7 DEF ExactInv
<1>10. FramesInv'
  <2>1. live' = {frames'[k] : k \in 1..n + 1} \ {NoWindow}
    <3>1. {frames'[k] : k \in 1..n + 1} = {frames[k] : k \in 1..n} \cup {w}
      BY <1>1, <1>2
    <3> QED BY <3>1, <1>1, <1>3, <1>6
  <2>2. \A k \in 1..n : frames[k] # w
    BY <1>1, <1>3, <1>6
  <2>3. ASSUME NEW j \in 1..n + 1, NEW k \in 1..n + 1,
               frames'[j] = frames'[k], frames'[j] # NoWindow
        PROVE  j = k
    BY <1>1, <1>2, <1>6a, <2>2, <2>3
  <2> QED BY <1>2, <2>1, <2>3 DEF FramesInv
<1>11. NoneNull'
  BY <1>1, <1>2, <1>3, <1>6b DEF NoneNull
<1> QED BY <1>2, <1>3, <1>8, <1>9, <1>10, <1>11

(* A resize puts another window, or none, in the innermost screen's place. *)
LEMMA ResizeFacts ==
  ASSUME ScreensInv, NEW w \in Window \cup {NoWindow}, w \notin live,
         frames # << >>, Screens!Top # NoWindow,
         live' = (live \cup {w}) \ {Screens!Top, NoWindow},
         frames' = [frames EXCEPT ![Len(frames)] = w],
         Screens!Replace(Screens!Top, w), UNCHANGED deepest
  PROVE  /\ Screens!TypeOK' /\ ExactInv' /\ FramesInv' /\ NullOnlyLast'
         /\ w # NoWindow => NoneNull'
         /\ Len(frames') = Len(frames)
<1> PICK n \in Nat : n = Len(frames)
  BY DEF ScreensInv, Screens!TypeOK
<1>1. n \in Nat \ {0} /\ frames \in Seq(Window \cup {NoWindow})
  BY EmptySeq DEF ScreensInv, Screens!TypeOK, Screens!WindowOrNone
<1>2. /\ frames' \in Seq(Window \cup {NoWindow}) /\ Len(frames') = n
      /\ \A k \in 1..n : frames'[k] = IF k = n THEN w ELSE frames[k]
  BY <1>1
<1>3. frames[n] # NoWindow
  BY DEF Screens!Top
<1>4. /\ depth = n /\ n <= STACK_MAX /\ STACK_MAX \in Nat
      /\ background \in Window \cup {NoWindow}
      /\ slot \in [0..STACK_MAX-1 -> Window \cup {NoWindow}]
      /\ background = Screens!Frame(n)
      /\ \A k \in 0..STACK_MAX-1 : slot[k] = IF k < n THEN Screens!Frame(k) ELSE NoWindow
  BY NestingAssumption
  DEF ScreensInv, ExactInv, Screens!TypeOK, Screens!BackgroundTypeOK, Screens!Slots,
      Screens!WindowOrNone
<1>5. /\ background' = IF background = frames[n] THEN w ELSE background
      /\ depth' = n
      /\ slot' = [k \in 0..STACK_MAX-1 |->
                    IF k < n /\ slot[k] = frames[n] THEN w ELSE slot[k]]
  BY <1>4 DEF Screens!Replace, Screens!Top, Screens!Slots
<1>6. live = {frames[k] : k \in 1..n} \ {NoWindow}
  BY DEF ScreensInv, FramesInv
<1>6a. \A j, k \in 1..n : frames[j] = frames[k] /\ frames[j] # NoWindow => j = k
  BY DEF ScreensInv, FramesInv
<1>6b. \A k \in 1..n - 1 : frames[k] # NoWindow
  BY DEF ScreensInv, NullOnlyLast
<1>6c. deepest' \in Nat /\ live' \subseteq Window
  BY DEF ScreensInv, Screens!TypeOK
<1>6d. live' = (live \cup {w}) \ {frames[n], NoWindow}
  BY DEF Screens!Top
<1>7. /\ Screens!Frame(n)' = w /\ Screens!Frame(n) = frames[n]
      /\ \A k \in 0..n - 1 : /\ Screens!Frame(k)' = Screens!Frame(k)
                             /\ Screens!Frame(k) # frames[n]
  BY <1>1, <1>2, <1>3, <1>6a DEF Screens!Frame
<1>8. Screens!TypeOK'
  BY <1>2, <1>4, <1>5, <1>1, <1>6c
  DEF Screens!TypeOK, Screens!BackgroundTypeOK, Screens!WindowOrNone, Screens!Slots
<1>9. ExactInv'
  <2>1. \A k \in 0..STACK_MAX-1 :
          slot'[k] = IF k < n THEN Screens!Frame(k)' ELSE NoWindow
    BY <1>1, <1>3, <1>4, <1>5, <1>7
  <2>2. background' = w
    BY <1>4, <1>5, <1>7
  <2> QED BY <2>1, <2>2, <1>2, <1>5, <1>7 DEF ExactInv
<1>10. FramesInv'
  <2>2. \A k \in 1..n : frames[k] # w \/ w = NoWindow
    BY <1>1, <1>6
  <2>1. live' = {frames'[k] : k \in 1..n} \ {NoWindow}
    <3>1. ASSUME NEW x \in live'
          PROVE  \E k \in 1..n : x = frames'[k]
      <4>1. x # frames[n] /\ (x = w \/ x \in live)
        BY <1>6d
      <4>2. CASE x = w
        BY <1>1, <1>2, <4>2
      <4>3. CASE x \in live
        <5>1. PICK k \in 1..n : x = frames[k]
          BY <1>6, <4>3
        <5> QED BY <1>2, <4>1, <5>1
      <4> QED BY <4>1, <4>2, <4>3
    <3>2. ASSUME NEW k \in 1..n, frames'[k] # NoWindow
          PROVE  frames'[k] \in live'
      <4>1. CASE k = n
        BY <1>2, <1>3, <1>6d, <2>2, <3>2, <4>1
      <4>2. CASE k # n
        <5>1. frames'[k] = frames[k] /\ frames[k] # frames[n]
          BY <1>1, <1>2, <1>6a, <3>2, <4>2
        <5> QED BY <1>6, <1>6d, <3>2, <5>1
      <4> QED BY <4>1, <4>2
    <3>3. NoWindow \notin live'
      BY <1>6d
    <3> QED BY <3>1, <3>2, <3>3
  <2>3. ASSUME NEW j \in 1..n, NEW k \in 1..n,
               frames'[j] = frames'[k], frames'[j] # NoWindow
        PROVE  j = k
    BY <1>1, <1>2, <1>6a, <2>2, <2>3
  <2> QED BY <1>2, <2>1, <2>3 DEF FramesInv
<1>11. NullOnlyLast' /\ (w # NoWindow => NoneNull')
  BY <1>1, <1>2, <1>6b DEF NullOnlyLast, NoneNull
<1> QED BY <1>2, <1>8, <1>9, <1>10, <1>11

LEMMA CloseFacts ==
  ASSUME ScreensInv, Screens!CloseScreen
  PROVE  /\ Screens!TypeOK' /\ ExactInv' /\ FramesInv' /\ NoneNull'
         /\ Len(frames') = Len(frames) - 1 /\ live' \subseteq live
<1> PICK n \in Nat : n = Len(frames)
  BY DEF ScreensInv, Screens!TypeOK
<1>1. n \in Nat \ {0} /\ frames \in Seq(Window \cup {NoWindow}) /\ frames # << >>
  BY EmptySeq DEF ScreensInv, Screens!TypeOK, Screens!WindowOrNone, Screens!CloseScreen
<1>2. /\ frames' \in Seq(Window \cup {NoWindow}) /\ Len(frames') = n - 1
      /\ \A k \in 1..n - 1 : frames'[k] = frames[k]
  BY <1>1, FrontCalls DEF Screens!CloseScreen
<1>4. /\ depth = n /\ n <= STACK_MAX /\ STACK_MAX \in Nat
      /\ slot \in [0..STACK_MAX-1 -> Window \cup {NoWindow}]
      /\ \A k \in 0..STACK_MAX-1 : slot[k] = IF k < n THEN Screens!Frame(k) ELSE NoWindow
  BY NestingAssumption
  DEF ScreensInv, ExactInv, Screens!TypeOK, Screens!BackgroundTypeOK, Screens!Slots,
      Screens!WindowOrNone
<1>5. /\ background' = slot[n - 1] /\ depth' = n - 1
      /\ slot' = [slot EXCEPT ![n - 1] = NoWindow]
  BY <1>1, <1>4 DEF Screens!CloseScreen, Screens!Pop
<1>6. live = {frames[k] : k \in 1..n} \ {NoWindow} /\ live' = live \ {frames[n]}
  BY DEF ScreensInv, FramesInv, Screens!CloseScreen, Screens!Top
<1>6a. \A j, k \in 1..n : frames[j] = frames[k] /\ frames[j] # NoWindow => j = k
  BY DEF ScreensInv, FramesInv
<1>6b. \A k \in 1..n - 1 : frames[k] # NoWindow
  BY DEF ScreensInv, NullOnlyLast
<1>6c. deepest' \in Nat /\ live' \subseteq Window
  BY DEF ScreensInv, Screens!TypeOK, Screens!CloseScreen
<1>7. \A k \in 0..n - 1 : Screens!Frame(k)' = Screens!Frame(k)
  BY <1>1, <1>2 DEF Screens!Frame
<1>8. Screens!TypeOK'
  BY <1>2, <1>4, <1>5, <1>1, <1>6c
  DEF Screens!TypeOK, Screens!BackgroundTypeOK, Screens!WindowOrNone, Screens!Slots
<1>9. ExactInv'
  <2>1. \A k \in 0..STACK_MAX-1 :
          slot'[k] = IF k < n - 1 THEN Screens!Frame(k)' ELSE NoWindow
    BY <1>1, <1>4, <1>5, <1>7
  <2>2. background' = Screens!Frame(n - 1)'
    BY <1>1, <1>4, <1>5, <1>7
  <2> QED BY <2>1, <2>2, <1>2, <1>5 DEF ExactInv
<1>10. FramesInv'
  <2>1. live' = {frames'[k] : k \in 1..n - 1} \ {NoWindow}
    <3>1. \A x : x \in live' => x \in {frames'[k] : k \in 1..n - 1} \ {NoWindow}
      BY <1>1, <1>2, <1>6
    <3>2. \A k \in 1..n - 1 : frames'[k] \in live'
      BY <1>1, <1>2, <1>6, <1>6a, <1>6b
    <3> QED BY <3>1, <3>2
  <2>3. ASSUME NEW j \in 1..n - 1, NEW k \in 1..n - 1,
               frames'[j] = frames'[k], frames'[j] # NoWindow
        PROVE  j = k
    BY <1>1, <1>2, <1>6a, <2>3
  <2> QED BY <1>2, <2>1, <2>3 DEF FramesInv
<1>11. NoneNull'
  BY <1>1, <1>2, <1>6b DEF NoneNull
<1> QED BY <1>2, <1>6, <1>8, <1>9, <1>10, <1>11

------------------------------------------------------------------------------
(***************************************************************************)
(* The windows' invariant under each kind of step: the innermost call     *)
(* moves on, calls, returns or ends, while a screen opens, is resized,     *)
(* closes or stays as it is.                                               *)
(***************************************************************************)

WInv == WindowsInv /\ Screens!TypeOK

Moved(at) == [Current EXCEPT !.at = at]

LEMMA MovedFields ==
  ASSUME CallsInv, Running, NEW at \in Points
  PROVE  /\ Moved(at).fn = Current.fn /\ Moved(at).kind = Current.kind
         /\ Moved(at).at = at /\ Moved(at).pushed = Current.pushed
         /\ WellFormed(Moved(at)) => InPlace(Moved(at), Len(calls))
<1>1. InPlace(Current, Len(calls)) /\ Current \in CallRecord
  BY CurrentType DEF InPlace
<1>2. /\ Moved(at).fn = Current.fn /\ Moved(at).kind = Current.kind
      /\ Moved(at).at = at /\ Moved(at).pushed = Current.pushed
      /\ Moved(at) \in CallRecord
  BY <1>1 DEF Moved, CallRecord
<1>3. OwnsFrame(Moved(at)) = OwnsFrame(Current)
  BY <1>2 DEF OwnsFrame
<1> QED BY <1>1, <1>2, <1>3 DEF InPlace

LEMMA GotoReplaces ==
  ASSUME NEW at, Goto(at)
  PROVE  calls' = [calls EXCEPT ![Len(calls)] = Moved(at)]
BY DEF Goto, Moved, Current

(* There is room on the background stack for one more screen. *)
LEMMA HeldBound ==
  ASSUME WInv
  PROVE  /\ Len(frames) \in Nat /\ Len(frames) <= Len(calls) /\ Len(frames) < STACK_MAX
         /\ Running /\ (\E k \in 1..Len(calls) : HoldsFrame(calls[k]))
              => Len(frames) # 0
<1>1. Len(frames) \in Nat /\ Len(frames) = Cardinality(Holders)
  BY DEF WInv, WindowsInv, HeldInv, Screens!TypeOK
<1>2. Len(calls) \in Nat /\ Len(calls) <= 3
  BY DEF WInv, WindowsInv, CallsInv
<1>3. Len(frames) <= Len(calls) /\ IsFiniteSet(Holders)
  BY <1>1, HoldersFinite DEF WInv, WindowsInv
<1>4. ASSUME \E k \in 1..Len(calls) : HoldsFrame(calls[k]) PROVE Len(frames) # 0
  <2>1. Holders # {}
    BY <1>4 DEF Holders
  <2> QED BY <1>1, <1>3, <2>1, FS_EmptySet
<1> QED BY <1>1, <1>2, <1>3, <1>4, NestingAssumption

(* The parts of WInv that ScreensInv has. *)
LEMMA WInvScreens ==
  ASSUME WInv
  PROVE  /\ ScreensInv /\ CallsInv
         /\ ~AtGone => NoneNull
         /\ Len(frames) = Cardinality(Holders) /\ Cardinality(Holders) \in Nat
<1>1. \A k \in 1..Len(frames) : frames[k] = NoWindow => k = Len(frames) /\ AtGone
  BY DEF WInv, WindowsInv, GoneInv
<1>2. NullOnlyLast
  BY <1>1 DEF NullOnlyLast, WInv, Screens!TypeOK
<1> QED BY <1>1, <1>2, HoldersFinite
        DEF WInv, WindowsInv, ScreensInv, NoneNull, HeldInv

LEMMA WInvFrom ==
  ASSUME ScreensInv', CallsInv', Len(frames') = Cardinality(Holders'), DialogInv',
         NoneNull' \/ AtGone'
  PROVE  WInv'
<1>1. GoneInv'
  <2>1. CASE NoneNull'
    BY <2>1 DEF GoneInv, NoneNull
  <2>2. CASE AtGone'
    BY <2>2 DEF GoneInv, NullOnlyLast, ScreensInv, Screens!TypeOK
  <2> QED BY <2>1, <2>2
<1> QED BY <1>1 DEF WInv, WindowsInv, ScreensInv, HeldInv

(* No screen changes. *)
LEMMA StaysFacts ==
  ASSUME WInv, UNCHANGED screenvars
  PROVE  /\ ScreensInv' /\ live' = live /\ Len(frames') = Len(frames)
         /\ ~AtGone => NoneNull'
<1>1. ScreensInv /\ (~AtGone => NoneNull)
  BY WInvScreens
<1>2. /\ background' = background /\ slot' = slot /\ depth' = depth
      /\ frames' = frames /\ live' = live /\ deepest' = deepest
  BY DEF screenvars
<1>3. Screens!TypeOK'
  BY <1>1, <1>2 DEF ScreensInv, Screens!TypeOK, Screens!BackgroundTypeOK
<1>4. ExactInv'
  <2>1. \A k : Screens!Frame(k)' = Screens!Frame(k)
    BY <1>2 DEF Screens!Frame
  <2> QED BY <1>1, <1>2, <2>1 DEF ScreensInv, ExactInv, Screens!Frame
<1>5. FramesInv' /\ NullOnlyLast' /\ (NoneNull => NoneNull')
  BY <1>1, <1>2 DEF ScreensInv, FramesInv, NullOnlyLast, NoneNull
<1> QED BY <1>1, <1>2, <1>3, <1>4, <1>5 DEF ScreensInv

LEMMA MoveKeeps ==
  ASSUME WInv, Running, ~AtGone, UNCHANGED screenvars,
         NEW c, InPlace(c, Len(calls)), calls' = [calls EXCEPT ![Len(calls)] = c],
         HoldsFrame(c) <=> HoldsFrame(Current),
         \/ dialog' = NoWindow
         \/ dialog' = dialog /\ (HasDialog(Current) => HasDialog(c))
         \/ dialog' \in Window \ live /\ HasDialog(c)
  PROVE  WInv'
<1>1. /\ CallsInv' /\ Running' /\ Current' = c
      /\ Cardinality(Holders') = Cardinality(Holders)
  BY ReplaceFacts, WInvScreens
<1>2. ScreensInv' /\ NoneNull' /\ live' = live /\ Len(frames') = Len(frames)
  BY StaysFacts
<1>3. DialogInv'
  <2>1. live \subseteq Window
    BY DEF WInv, Screens!TypeOK
  <2> QED BY <1>1, <1>2, <2>1, NullAssumption DEF DialogInv, HasDialog, WInv, WindowsInv
<1> QED BY <1>1, <1>2, <1>3, WInvScreens, WInvFrom

LEMMA InvokeKeeps ==
  ASSUME WInv, Running, Len(calls) < 3, ~AtGone, ~HasDialog(Current),
         UNCHANGED <<screenvars, dialog>>,
         NEW d, NEW at \in Points, Invoke(d, at),
         WellFormed(Moved(at)), Waits(Moved(at)),
         HoldsFrame(Moved(at)) <=> HoldsFrame(Current),
         InPlace(d, Len(calls) + 1), ~HoldsFrame(d)
  PROVE  WInv'
<1>1. CallsInv /\ InPlace(Moved(at), Len(calls))
  BY WInvScreens, MovedFields
<1>2. CallsInv' /\ Running' /\ Cardinality(Holders') = Cardinality(Holders)
  BY <1>1, InvokeFacts DEF Moved
<1>3. ScreensInv' /\ NoneNull' /\ live' = live /\ Len(frames') = Len(frames)
  BY StaysFacts
<1>4. DialogInv'
  <2>1. dialog = NoWindow /\ dialog \notin live
    BY DEF WInv, WindowsInv, DialogInv
  <2> QED BY <1>3, <2>1 DEF DialogInv
<1> QED BY <1>2, <1>3, <1>4, WInvScreens, WInvFrom

LEMMA ReturnKeeps ==
  ASSUME WInv, Running, Len(calls) # 1, ~AtGone,
         UNCHANGED screenvars, ~HoldsFrame(Current),
         dialog' = NoWindow \/ (dialog' = dialog /\ ~HasDialog(Current)),
         NEW v, Return(v)
  PROVE  WInv'
<1>1. CallsInv' /\ Running' /\ Cardinality(Holders') = Cardinality(Holders)
  BY ReturnFacts, WInvScreens
<1>2. ScreensInv' /\ NoneNull' /\ live' = live /\ Len(frames') = Len(frames)
  BY StaysFacts
<1>3. DialogInv'
  <2>1. live \subseteq Window
    BY DEF WInv, Screens!TypeOK
  <2> QED BY <1>2, <2>1, NullAssumption DEF DialogInv, WInv, WindowsInv
<1> QED BY <1>1, <1>2, <1>3, WInvScreens, WInvFrom

(* It closes its screen and returns. *)
LEMMA CloseKeeps ==
  ASSUME WInv, Running, Len(calls) # 1, Screens!CloseScreen, HoldsFrame(Current),
         ~HasDialog(Current), UNCHANGED dialog, NEW v, Return(v)
  PROVE  WInv'
<1>1. CallsInv' /\ Cardinality(Holders') = Cardinality(Holders) - 1
  BY ReturnFacts, WInvScreens
<1>2. ScreensInv' /\ NoneNull' /\ live' \subseteq live /\ Len(frames') = Len(frames) - 1
  <2>1. ScreensInv
    BY WInvScreens
  <2> QED BY <2>1, CloseFacts DEF ScreensInv, NoneNull, NullOnlyLast, Screens!TypeOK
<1>3. DialogInv'
  BY <1>2 DEF DialogInv, WInv, WindowsInv
<1> QED BY <1>1, <1>2, <1>3, WInvScreens, WInvFrom

(* A screen opens. *)
LEMMA OpenKeeps ==
  ASSUME WInv, Running, OpenFrame, ~HoldsFrame(Current), ~HasDialog(Current),
         NEW c, InPlace(c, Len(calls)), calls' = [calls EXCEPT ![Len(calls)] = c],
         HoldsFrame(c), UNCHANGED dialog
  PROVE  WInv'
<1>1. CallsInv' /\ Cardinality(Holders') = Cardinality(Holders) + 1
  BY ReplaceFacts, WInvScreens
<1>2. PICK w \in FreeWindow : Screens!OpenScreen(w)
  BY DEF OpenFrame
<1>3. w \in Window /\ w # dialog
  BY <1>2 DEF FreeWindow
<1>4. /\ ScreensInv' /\ NoneNull' /\ live' = live \cup {w}
      /\ Len(frames') = Len(frames) + 1
  <2>1. ScreensInv /\ Len(frames) < STACK_MAX
    BY WInvScreens, HeldBound
  <2> QED BY <1>2, <1>3, <2>1, OpenFacts
          DEF ScreensInv, NoneNull, NullOnlyLast, Screens!TypeOK
<1>5. DialogInv'
  <2>1. dialog = NoWindow /\ dialog \notin live
    BY DEF WInv, WindowsInv, DialogInv
  <2> QED BY <1>3, <1>4, <2>1 DEF DialogInv
<1> QED BY <1>1, <1>4, <1>5, WInvScreens, WInvFrom

(* tui_run_app returns. *)
LEMMA FinishKeeps ==
  ASSUME WInv, Running, ~HoldsFrame(Current), Len(calls) = 1, ~HasDialog(Current),
         ~AtGone, UNCHANGED <<screenvars, dialog>>, calls' = << >>
  PROVE  WInv' /\ Len(frames) = 0
<1>1. CallsInv' /\ Cardinality(Holders') = 0
  BY FinishFacts, WInvScreens
<1>2. Holders = {}
  BY CurrentType, WInvScreens DEF Holders
<1>3. Cardinality(Holders) = 0
  BY <1>2, FS_EmptySet
<1>4. ScreensInv' /\ NoneNull' /\ live' = live /\ Len(frames') = Len(frames)
  BY StaysFacts
<1>5. DialogInv'
  <2>1. dialog = NoWindow /\ dialog \notin live
    BY DEF WInv, WindowsInv, DialogInv
  <2> QED BY <1>4, <2>1 DEF DialogInv
<1> QED BY <1>1, <1>3, <1>4, <1>5, WInvScreens, WInvFrom

(* The same, for the forms the actions take. *)
LEMMA GotoKeeps ==
  ASSUME WInv, Running, ~AtGone, UNCHANGED screenvars,
         NEW at \in Points, Goto(at), WellFormed(Moved(at)),
         HoldsFrame(Moved(at)) <=> HoldsFrame(Current),
         \/ dialog' = NoWindow
         \/ dialog' = dialog /\ (HasDialog(Current) => HasDialog(Moved(at)))
         \/ dialog' \in Window \ live /\ HasDialog(Moved(at))
  PROVE  WInv'
BY GotoReplaces, MovedFields, MoveKeeps, WInvScreens

LEMMA CallFields ==
  ASSUME NEW fn \in Functions, NEW kind \in Kinds
  PROVE  /\ Call(fn, kind).fn = fn /\ Call(fn, kind).kind = kind
         /\ Call(fn, kind).at = "open" /\ Call(fn, kind).pushed = FALSE
         /\ Call(fn, kind) \in CallRecord
BY DEF Call, CallRecord, Points

LEMMA CallKeeps ==
  ASSUME WInv, Running, UNCHANGED <<screenvars, dialog>>,
         NEW fn \in Functions \ {"run"}, NEW kind \in Kinds, NEW at \in Points,
         Invoke(Call(fn, kind), at), WellFormed(Call(fn, kind)),
         Current.fn = "run" \/ fn \in {"menu", "dialog"},
         Waits(Moved(at)), HoldsFrame(Moved(at)) <=> HoldsFrame(Current)
  PROVE  WInv'
<1>1. /\ Current.fn \in {"run", "settings", "overlay", "prompt"}
      /\ WellFormed(Moved(at))
  BY MovedFields, WInvScreens DEF Waits, WellFormed
<1> DEFINE n == Len(calls)
           d == Call(fn, kind)
<1>2. /\ n \in 1..3 /\ n < 3 /\ ~AtGone /\ ~HasDialog(Current)
      /\ Current.fn = "run" <=> n = 1
  BY <1>1, CurrentType, WInvScreens DEF AtGone, At, HasDialog
<1>3. d.fn = fn /\ d.at = "open" /\ d.pushed = FALSE /\ d \in CallRecord
  BY CallFields
<1>4. WellFormed(d) /\ Invoke(d, at)
  OBVIOUS
<1> HIDE DEF n, d
<1>5. InPlace(d, n + 1) /\ ~HoldsFrame(d)
  BY <1>2, <1>3, <1>4 DEF InPlace, HoldsFrame, OwnsFrame
<1> QED BY <1>1, <1>2, <1>4, <1>5, InvokeKeeps DEF n

(* A screen that cannot open, a prompt answered and a progress box that is
   done give way to a message. *)
LEMMA BecomeMessageKeeps ==
  ASSUME WInv, Running, UNCHANGED screenvars, BecomeMessage,
         Current.fn \in {"settings", "prompt", "progress"}, ~HoldsFrame(Current),
         dialog' = NoWindow \/ (dialog' = dialog /\ ~HasDialog(Current))
  PROVE  WInv'
<1> DEFINE c == Call("dialog", "message")
<1>1. /\ Len(calls) \in 2..3 /\ ~AtGone /\ InPlace(Current, Len(calls))
  BY CurrentType, WInvScreens DEF AtGone, At
<1>2. "dialog" \in Functions /\ "message" \in Kinds
  BY DEF Functions, Kinds
<1>3. /\ c.fn = "dialog" /\ c.kind = "message" /\ c.at = "open" /\ c.pushed = FALSE
      /\ c \in CallRecord
  <2> DEFINE fn == "dialog"
             kind == "message"
  <2>1. fn \in Functions /\ kind \in Kinds
    BY <1>2
  <2> HIDE DEF fn, kind
  <2>2. /\ Call(fn, kind).fn = fn /\ Call(fn, kind).kind = kind
        /\ Call(fn, kind).at = "open" /\ Call(fn, kind).pushed = FALSE
        /\ Call(fn, kind) \in CallRecord
    BY <2>1, CallFields
  <2> QED BY <2>2 DEF fn, kind
<1>4. calls' = [calls EXCEPT ![Len(calls)] = c]
  BY DEF BecomeMessage, Dialog
<1> HIDE DEF c
<1>5. InPlace(c, Len(calls)) /\ ~HoldsFrame(c)
  BY <1>1, <1>3 DEF InPlace, WellFormed, HoldsFrame, OwnsFrame
<1>6. CASE dialog' = NoWindow
  BY <1>1, <1>4, <1>5, <1>6, MoveKeeps
<1>7. CASE dialog' = dialog /\ ~HasDialog(Current)
  BY <1>1, <1>4, <1>5, <1>7, MoveKeeps
<1> QED BY <1>6, <1>7

LEMMA OpenGotoKeeps ==
  ASSUME WInv, Running, OpenFrame, ~HoldsFrame(Current), ~HasDialog(Current),
         NEW at \in Points, Goto(at), WellFormed(Moved(at)), HoldsFrame(Moved(at)),
         UNCHANGED dialog
  PROVE  WInv'
BY GotoReplaces, MovedFields, OpenKeeps, WInvScreens

(* Before the first screen opens and after the last has closed, clearing the
   background stack changes nothing. *)
LEMMA NoFrames ==
  ASSUME WInv, Running, Len(calls) = 1, ~HoldsFrame(Current)
  PROVE  frames = << >> /\ Screens!BackgroundInit
<1>1. Holders = {}
  BY CurrentType, WInvScreens DEF Holders
<1>2. Len(frames) = 0
  BY <1>1, WInvScreens, FS_EmptySet
<1>3. frames = << >>
  BY <1>2, EmptySeq DEF WInv, Screens!TypeOK
<1>4. /\ depth = 0 /\ background = NoWindow /\ STACK_MAX \in Nat
      /\ slot \in [0..STACK_MAX-1 -> Window \cup {NoWindow}]
      /\ \A k \in 0..STACK_MAX-1 : slot[k] = NoWindow
  BY <1>2, NestingAssumption
  DEF WInv, WindowsInv, ExactInv, Screens!TypeOK, Screens!BackgroundTypeOK,
      Screens!WindowOrNone, Screens!Slots, Screens!Frame
<1>5. Screens!BackgroundInit
  BY <1>4 DEF Screens!BackgroundInit, Screens!Slots
<1> QED BY <1>3, <1>5

LEMMA CleanupStutters ==
  ASSUME WInv, Running, Len(calls) = 1, ~HoldsFrame(Current), TuiCleanup
  PROVE  UNCHANGED screenvars
<1>1. frames = << >> /\ Screens!BackgroundInit
  BY NoFrames
<1>2. STACK_MAX \in Nat /\ slot = [k \in 0..STACK_MAX-1 |-> NoWindow]
  BY <1>1, NestingAssumption DEF Screens!BackgroundInit, Screens!Slots
<1>3. slot' = [k \in 0..STACK_MAX-1 |-> IF k < depth THEN NoWindow ELSE slot[k]]
  BY DEF TuiCleanup, Screens!ClearBackground, Screens!Slots
<1>4. slot' = slot
  BY <1>2, <1>3
<1> QED BY <1>1, <1>4
        DEF TuiCleanup, Screens!ClearBackground, screenvars, Screens!BackgroundInit

(* A menu in its caller's frame finds it on the background already, so only a
   menu with a frame of its own pops one when it leaves. *)
LEMMA InnerScreens ==
  ASSUME WInv, Running, Current.fn # "run"
  PROVE  /\ Len(calls) # 1 /\ Len(frames) # 0 /\ background = Screens!Top
         /\ Current.pushed => OwnsFrame(Current)
<1>1. Len(calls) \in 2..3 /\ InPlace(Current, Len(calls))
  BY CurrentType, WInvScreens
<1>2. Waits(calls[1]) /\ calls[1].fn = "run"
  BY <1>1, WInvScreens DEF CallsInv, InPlace
<1>3. HoldsFrame(calls[1])
  BY <1>2 DEF Waits, HoldsFrame
<1>4. Len(frames) # 0
  BY <1>1, <1>3, HeldBound
<1>5. background = Screens!Top
  BY <1>4, HeldBound DEF WInv, WindowsInv, ExactInv, Screens!Frame, Screens!Top
<1> QED BY <1>1, <1>4, <1>5 DEF InPlace

LEMMA LeaveMenuKeeps ==
  ASSUME WInv, Running, Current.fn = "menu", Current.at \in {"check", "read", "gone"},
         OwnsFrame(Current) \/ ~AtGone,
         UNCHANGED dialog, NEW v, LeaveMenu(v)
  PROVE  /\ WInv'
         /\ Screens!CloseScreen \/ UNCHANGED screenvars
<1>1. Len(calls) # 1 /\ ~HasDialog(Current) /\ (Current.pushed => OwnsFrame(Current))
  BY InnerScreens DEF HasDialog
<1>2. CASE OwnsFrame(Current)
  <2>1. Screens!CloseScreen /\ Return(v) /\ HoldsFrame(Current)
    BY <1>2 DEF LeaveMenu, HoldsFrame
  <2> QED BY <1>1, <2>1, CloseKeeps
<1>3. CASE ~OwnsFrame(Current)
  <2>1. UNCHANGED screenvars /\ Return(v) /\ ~HoldsFrame(Current)
    BY <1>1, <1>3 DEF LeaveMenu, HoldsFrame, screenvars
  <2> QED BY <1>1, <1>3, <2>1, ReturnKeeps DEF AtGone
<1> QED BY <1>2, <1>3

(* Every step keeps the windows in order, and changes them, if at all, as one of
   the operations of NestedScreens does. *)
ScreenStep == Screens!Next \/ UNCHANGED screenvars

LEMMA RunKeepsWindows ==
  ASSUME WInv, Running, Current.fn = "run",
         \/ TuiInitRefused \/ TuiInitCurses
         \/ InstallSigint \/ InstallSigintFails \/ InstallSigterm \/ InstallSigtermFails
         \/ TuiInitModes \/ TuiInitModesFail \/ RunOpen \/ RunOpenFails
         \/ RunLoop \/ RunDispatch \/ RunInterrupted \/ RunMenuFailed
         \/ RunOverlaid \/ RunConfirmed \/ RunPop \/ RunCleanup
  PROVE  WInv' /\ ScreenStep
<1>1. \A at \in Points : Moved(at).fn = "run" /\ Moved(at).at = at
  BY MovedFields, WInvScreens
<1>2. ~AtGone /\ ~HasDialog(Current) /\ Len(calls) = 1 /\ ~OwnsFrame(Current)
  BY CurrentType, WInvScreens DEF AtGone, At, HasDialog, OwnsFrame
<1> USE DEF Points
<1>3. CASE TuiInitCurses
  <2>1. UNCHANGED <<screenvars, dialog>>
    BY <1>3 DEF TuiInitCurses
  <2>2. Goto("sigint") /\ (HoldsFrame(Moved("sigint")) <=> HoldsFrame(Current))
    BY <1>1, <1>2, <1>3 DEF TuiInitCurses, At, HoldsFrame, OwnsFrame
  <2>3. WInv'
    BY <1>1, <1>2, <2>1, <2>2, GotoKeeps DEF WellFormed
  <2> QED BY <2>1, <2>3 DEF ScreenStep
<1>4. CASE InstallSigint
  <2>1. UNCHANGED <<screenvars, dialog>>
    BY <1>4 DEF InstallSigint
  <2>2. Goto("sigterm") /\ (HoldsFrame(Moved("sigterm")) <=> HoldsFrame(Current))
    BY <1>1, <1>2, <1>4 DEF InstallSigint, At, HoldsFrame, OwnsFrame
  <2>3. WInv'
    BY <1>1, <1>2, <2>1, <2>2, GotoKeeps DEF WellFormed
  <2> QED BY <2>1, <2>3 DEF ScreenStep
<1>4a. CASE InstallSigterm
  <2>1. UNCHANGED <<screenvars, dialog>>
    BY <1>4a DEF InstallSigterm
  <2>2. Goto("modes") /\ (HoldsFrame(Moved("modes")) <=> HoldsFrame(Current))
    BY <1>1, <1>2, <1>4a DEF InstallSigterm, At, HoldsFrame, OwnsFrame
  <2>3. WInv'
    BY <1>1, <1>2, <2>1, <2>2, GotoKeeps DEF WellFormed
  <2> QED BY <2>1, <2>3 DEF ScreenStep
<1>5. CASE TuiInitModes
  <2>1. UNCHANGED <<screenvars, dialog>>
    BY <1>5 DEF TuiInitModes
  <2>2. Goto("frame") /\ (HoldsFrame(Moved("frame")) <=> HoldsFrame(Current))
    BY <1>1, <1>2, <1>5 DEF TuiInitModes, At, HoldsFrame, OwnsFrame
  <2>3. WInv'
    BY <1>1, <1>2, <2>1, <2>2, GotoKeeps DEF WellFormed
  <2> QED BY <2>1, <2>3 DEF ScreenStep
<1>6. CASE RunInterrupted
  <2>1. UNCHANGED <<screenvars, dialog>>
    BY <1>6 DEF RunInterrupted
  <2>2. Goto("pop") /\ (HoldsFrame(Moved("pop")) <=> HoldsFrame(Current))
    BY <1>1, <1>2, <1>6 DEF RunInterrupted, At, HoldsFrame, OwnsFrame
  <2>3. WInv'
    BY <1>1, <1>2, <2>1, <2>2, GotoKeeps DEF WellFormed
  <2> QED BY <2>1, <2>3 DEF ScreenStep
<1>7. CASE RunMenuFailed
  <2>1. UNCHANGED <<screenvars, dialog>>
    BY <1>7 DEF RunMenuFailed
  <2>2. Goto("pop") /\ (HoldsFrame(Moved("pop")) <=> HoldsFrame(Current))
    BY <1>1, <1>2, <1>7 DEF RunMenuFailed, At, HoldsFrame, OwnsFrame
  <2>3. WInv'
    BY <1>1, <1>2, <2>1, <2>2, GotoKeeps DEF WellFormed
  <2> QED BY <2>1, <2>3 DEF ScreenStep
<1>8. CASE RunConfirmed
  <2>1. UNCHANGED <<screenvars, dialog>>
    BY <1>8 DEF RunConfirmed
  <2>2. CASE ret = "yes"
    <3>1. Goto("pop")
      BY <1>8, <2>2 DEF RunConfirmed
    <3>2. HoldsFrame(Moved("pop")) <=> HoldsFrame(Current)
      BY <1>1, <1>2, <1>8 DEF RunConfirmed, At, HoldsFrame, OwnsFrame
    <3> QED BY <1>1, <1>2, <2>1, <3>1, <3>2, GotoKeeps DEF WellFormed, ScreenStep
  <2>3. CASE ret # "yes"
    <3>1. Goto("loop")
      BY <1>8, <2>3 DEF RunConfirmed
    <3>2. HoldsFrame(Moved("loop")) <=> HoldsFrame(Current)
      BY <1>1, <1>2, <1>8 DEF RunConfirmed, At, HoldsFrame, OwnsFrame
    <3> QED BY <1>1, <1>2, <2>1, <3>1, <3>2, GotoKeeps DEF WellFormed, ScreenStep
  <2> QED BY <2>1, <2>2, <2>3 DEF ScreenStep
<1>9. CASE TuiInitRefused
  <2>1. UNCHANGED <<screenvars, dialog>> /\ calls' = << >> /\ ~HoldsFrame(Current)
    BY <1>2, <1>9 DEF TuiInitRefused, Finish, At, HoldsFrame
  <2> QED BY <1>2, <2>1, FinishKeeps DEF ScreenStep
<1>10. CASE InstallSigintFails
  <2>1. UNCHANGED <<screenvars, dialog>> /\ calls' = << >> /\ ~HoldsFrame(Current)
    BY <1>2, <1>10 DEF InstallSigintFails, Finish, At, HoldsFrame
  <2> QED BY <1>2, <2>1, FinishKeeps DEF ScreenStep
<1>10a. CASE InstallSigtermFails
  <2>1. UNCHANGED <<screenvars, dialog>> /\ calls' = << >> /\ ~HoldsFrame(Current)
    BY <1>2, <1>10a DEF InstallSigtermFails, Finish, At, HoldsFrame
  <2> QED BY <1>2, <2>1, FinishKeeps DEF ScreenStep
<1>11. CASE TuiInitModesFail
  <2>1. UNCHANGED <<screenvars, dialog>> /\ calls' = << >> /\ ~HoldsFrame(Current)
    BY <1>2, <1>11 DEF TuiInitModesFail, Finish, At, HoldsFrame
  <2> QED BY <1>2, <2>1, FinishKeeps DEF ScreenStep
<1>12. CASE RunOpenFails
  <2>1. /\ UNCHANGED dialog /\ calls' = << >> /\ ~HoldsFrame(Current)
        /\ TuiCleanup
    BY <1>2, <1>12 DEF RunOpenFails, Finish, At, HoldsFrame
  <2>2. UNCHANGED screenvars
    BY <1>2, <2>1, CleanupStutters
  <2> QED BY <1>2, <2>1, <2>2, FinishKeeps DEF ScreenStep
<1>13. CASE RunCleanup
  <2>1. /\ UNCHANGED dialog /\ calls' = << >> /\ ~HoldsFrame(Current)
        /\ TuiCleanup
    BY <1>2, <1>13 DEF RunCleanup, Finish, At, HoldsFrame
  <2>2. UNCHANGED screenvars
    BY <1>2, <2>1, CleanupStutters
  <2> QED BY <1>2, <2>1, <2>2, FinishKeeps DEF ScreenStep
<1>14. CASE RunOpen
  <2>1. /\ OpenFrame /\ UNCHANGED dialog /\ Goto("loop")
        /\ ~HoldsFrame(Current) /\ HoldsFrame(Moved("loop"))
    BY <1>1, <1>2, <1>14 DEF RunOpen, At, HoldsFrame
  <2>2. WInv'
    BY <1>1, <1>2, <2>1, OpenGotoKeeps DEF WellFormed
  <2> QED BY <2>1, <2>2 DEF ScreenStep, OpenFrame, FreeWindow, Screens!Next
<1>15. CASE RunPop
  <2> DEFINE c == Moved("cleanup")
  <2>1. /\ Screens!CloseScreen /\ UNCHANGED dialog
        /\ HoldsFrame(Current) /\ ~HoldsFrame(c)
    BY <1>1, <1>2, <1>15 DEF RunPop, At, HoldsFrame, OwnsFrame
  <2>2. InPlace(c, Len(calls)) /\ calls' = [calls EXCEPT ![Len(calls)] = c]
    BY <1>1, <1>15, GotoReplaces, MovedFields, WInvScreens DEF RunPop, WellFormed
  <2> HIDE DEF c
  <2>3. CallsInv' /\ Cardinality(Holders') = Cardinality(Holders) - 1
    BY <2>1, <2>2, ReplaceFacts, WInvScreens
  <2>4. /\ ScreensInv' /\ NoneNull' /\ live' \subseteq live
        /\ Len(frames') = Len(frames) - 1
    BY <2>1, WInvScreens, CloseFacts DEF ScreensInv, NoneNull, NullOnlyLast, Screens!TypeOK
  <2>5. DialogInv'
    BY <1>2, <2>1, <2>4 DEF DialogInv, WInv, WindowsInv
  <2> QED BY <2>1, <2>3, <2>4, <2>5, WInvScreens, WInvFrom DEF ScreenStep, Screens!Next
<1>16. CASE RunLoop
  <2>1. UNCHANGED <<screenvars, dialog>>
    BY <1>16 DEF RunLoop
  <2>2. CASE TRUE
    <3>1. Invoke(Call("menu", "main"), "status") /\ (HoldsFrame(Moved("status")) <=> HoldsFrame(Current))
      BY <1>1, <1>2, <1>16, <2>2 DEF RunLoop, At, HoldsFrame, OwnsFrame, Menu, Dialog
    <3>2. "menu" \in Functions \ {"run"} /\ "main" \in Kinds /\ WellFormed(Call("menu", "main"))
      BY <2>2 DEF Functions, Kinds, WellFormed, Call
    <3> QED BY <1>1, <2>1, <3>1, <3>2, CallKeeps DEF Waits, ScreenStep
  <2> QED BY <2>1, <2>2 DEF ScreenStep
<1>17. CASE RunDispatch
  <2>1. UNCHANGED <<screenvars, dialog>>
    BY <1>17 DEF RunDispatch
  <2>2. CASE ret \in {"exit", "cancelled"}
    <3>1. Invoke(Call("dialog", "confirm"), "confirmed") /\ (HoldsFrame(Moved("confirmed")) <=> HoldsFrame(Current))
      BY <1>1, <1>2, <1>17, <2>2 DEF RunDispatch, At, HoldsFrame, OwnsFrame, Menu, Dialog
    <3>2. "dialog" \in Functions \ {"run"} /\ "confirm" \in Kinds /\ WellFormed(Call("dialog", "confirm"))
      BY <2>2 DEF Functions, Kinds, WellFormed, Call
    <3> QED BY <1>1, <2>1, <3>1, <3>2, CallKeeps DEF Waits, ScreenStep
  <2>3. CASE ret \in {"message", "layout"}
    <3>1. Invoke(Call("dialog", ret), "loop") /\ (HoldsFrame(Moved("loop")) <=> HoldsFrame(Current))
      BY <1>1, <1>2, <1>17, <2>3 DEF RunDispatch, At, HoldsFrame, OwnsFrame, Menu, Dialog
    <3>2. "dialog" \in Functions \ {"run"} /\ ret \in Kinds /\ WellFormed(Call("dialog", ret))
      BY <2>3 DEF Functions, Kinds, WellFormed, Call
    <3> QED BY <1>1, <2>1, <3>1, <3>2, CallKeeps DEF Waits, ScreenStep
  <2>4. CASE ret \in {"prompt", "progress", "settings"}
    <3>1. Invoke(Call(ret, ret), "loop") /\ (HoldsFrame(Moved("loop")) <=> HoldsFrame(Current))
      BY <1>1, <1>2, <1>17, <2>4 DEF RunDispatch, At, HoldsFrame, OwnsFrame, Menu, Dialog
    <3>2. ret \in Functions \ {"run"} /\ ret \in Kinds /\ WellFormed(Call(ret, ret))
      BY <2>4 DEF Functions, Kinds, WellFormed, Call
    <3> QED BY <1>1, <2>1, <3>1, <3>2, CallKeeps DEF Waits, ScreenStep
  <2>5. CASE ret = "menu"
    <3>1. Invoke(Call("overlay", "overlay"), "overlaid") /\ (HoldsFrame(Moved("overlaid")) <=> HoldsFrame(Current))
      BY <1>1, <1>2, <1>17, <2>5 DEF RunDispatch, At, HoldsFrame, OwnsFrame, Menu, Dialog
    <3>2. "overlay" \in Functions \ {"run"} /\ "overlay" \in Kinds /\ WellFormed(Call("overlay", "overlay"))
      BY <2>5 DEF Functions, Kinds, WellFormed, Call
    <3> QED BY <1>1, <2>1, <3>1, <3>2, CallKeeps DEF Waits, ScreenStep
  <2> QED BY <1>17, <2>1, <2>2, <2>3, <2>4, <2>5 DEF ScreenStep, RunDispatch
<1>18. CASE RunOverlaid
  <2>1. UNCHANGED <<screenvars, dialog>>
    BY <1>18 DEF RunOverlaid
  <2>2. CASE ret = "exit"
    <3>1. Invoke(Call("dialog", "confirm"), "confirmed") /\ (HoldsFrame(Moved("confirmed")) <=> HoldsFrame(Current))
      BY <1>1, <1>2, <1>18, <2>2 DEF RunOverlaid, At, HoldsFrame, OwnsFrame, Menu, Dialog
    <3>2. "dialog" \in Functions \ {"run"} /\ "confirm" \in Kinds /\ WellFormed(Call("dialog", "confirm"))
      BY <2>2 DEF Functions, Kinds, WellFormed, Call
    <3> QED BY <1>1, <2>1, <3>1, <3>2, CallKeeps DEF Waits, ScreenStep
  <2>3. CASE ret # "exit"
    <3>1. Goto("loop") /\ (HoldsFrame(Moved("loop")) <=> HoldsFrame(Current))
      BY <1>1, <1>2, <1>18, <2>3 DEF RunOverlaid, At, HoldsFrame, OwnsFrame
    <3> QED BY <1>1, <1>2, <2>1, <3>1, GotoKeeps DEF WellFormed, ScreenStep
  <2> QED BY <2>1, <2>2, <2>3 DEF ScreenStep
<1> QED BY <1>3, <1>4, <1>4a, <1>5, <1>6, <1>7, <1>8, <1>9, <1>10, <1>10a,
              <1>11, <1>12, <1>13, <1>14, <1>15, <1>16, <1>17, <1>18

LEMMA MenuKeepsWindows ==
  ASSUME WInv, Running, Current.fn = "menu",
         \/ MenuNoMemory \/ MenuOpenOwned \/ MenuOpenCallers \/ MenuOpenFails
         \/ MenuCheck \/ MenuKey \/ MenuResize \/ MenuGone
         \/ EnterRead \/ ReadInterrupted \/ ReadOtherKey
  PROVE  WInv' /\ ScreenStep
<1>1. \A at \in Points : /\ Moved(at).fn = "menu" /\ Moved(at).at = at
                        /\ Moved(at).kind = Current.kind
  BY MovedFields, WInvScreens
<1>2. /\ ~HasDialog(Current) /\ Len(calls) # 1 /\ background = Screens!Top
      /\ Current.kind \in {"main", "settings", "overlay"}
  BY CurrentType, InnerScreens, WInvScreens DEF HasDialog, InPlace, WellFormed
<1>3. CASE MenuNoMemory \/ MenuOpenFails
  <2>1. /\ UNCHANGED <<screenvars, dialog>> /\ ~AtGone /\ ~HoldsFrame(Current)
        /\ \E v : Return(v)
    BY <1>3 DEF MenuNoMemory, MenuOpenFails, At, AtGone, HoldsFrame, OwnsFrame
  <2> QED BY <1>2, <2>1, ReturnKeeps DEF ScreenStep
<1>4. CASE MenuOpenOwned
  <2> DEFINE c == [Current EXCEPT !.at = "check", !.pushed = TRUE]
  <2>1. /\ OpenFrame /\ UNCHANGED dialog /\ ~HoldsFrame(Current) /\ OwnsFrame(Current)
        /\ calls' = [calls EXCEPT ![Len(calls)] = c]
    BY <1>4 DEF MenuOpenOwned, At, HoldsFrame, OwnsFrame, Current
  <2>2. InPlace(Current, Len(calls)) /\ Current \in CallRecord
    BY CurrentType, WInvScreens DEF InPlace
  <2>3. /\ c.fn = "menu" /\ c.kind = Current.kind /\ c.at = "check"
        /\ c \in CallRecord
    BY <2>2 DEF CallRecord, Points
  <2> HIDE DEF c
  <2>4. InPlace(c, Len(calls)) /\ HoldsFrame(c)
    BY <1>2, <2>1, <2>2, <2>3 DEF InPlace, WellFormed, HoldsFrame, OwnsFrame
  <2>5. WInv'
    BY <1>2, <2>1, <2>4, OpenKeeps
  <2> QED BY <2>1, <2>5 DEF ScreenStep, OpenFrame, FreeWindow, Screens!Next
<1>5. CASE MenuOpenCallers
  <2> DEFINE c == [Current EXCEPT !.at = "check", !.pushed = FALSE]
  <2>1. /\ UNCHANGED <<screenvars, dialog>> /\ ~OwnsFrame(Current) /\ ~AtGone
        /\ calls' = [calls EXCEPT ![Len(calls)] = c]
    BY <1>2, <1>5 DEF MenuOpenCallers, At, AtGone, OwnsFrame, Current
  <2>2. InPlace(Current, Len(calls)) /\ Current \in CallRecord
    BY CurrentType, WInvScreens DEF InPlace
  <2>3. /\ c.fn = "menu" /\ c.kind = Current.kind /\ c.at = "check"
        /\ c.pushed = FALSE /\ c \in CallRecord
    BY <2>2 DEF CallRecord, Points
  <2> HIDE DEF c
  <2>4. InPlace(c, Len(calls)) /\ (HoldsFrame(c) <=> HoldsFrame(Current))
    BY <1>2, <2>1, <2>2, <2>3 DEF InPlace, WellFormed, HoldsFrame, OwnsFrame
  <2>5. WInv'
    BY <1>2, <2>1, <2>4, MoveKeeps
  <2> QED BY <2>1, <2>5 DEF ScreenStep
<1>6. CASE MenuCheck \/ MenuKey \/ MenuGone
  <2>1. /\ UNCHANGED dialog /\ Current.at \in {"check", "read", "gone"}
        /\ \/ \E v : LeaveMenu(v)
           \/ ~AtGone /\ Current.at = "check" /\ Goto("enter") /\ UNCHANGED screenvars
    BY <1>6 DEF MenuCheck, MenuKey, MenuGone, At, AtGone
  <2>2. CASE \E v : LeaveMenu(v)
    <3>1. PICK v : LeaveMenu(v)
      BY <2>2
    <3>2. OwnsFrame(Current) \/ ~AtGone
      BY DEF AtGone
    <3>3. WInv' /\ (Screens!CloseScreen \/ UNCHANGED screenvars)
      BY <2>1, <3>1, <3>2, LeaveMenuKeeps
    <3> QED BY <3>3 DEF ScreenStep, Screens!Next
  <2>3. CASE ~AtGone /\ Current.at = "check" /\ Goto("enter") /\ UNCHANGED screenvars
    <3>1. HoldsFrame(Moved("enter")) <=> HoldsFrame(Current)
      BY <1>1, <2>3 DEF HoldsFrame, OwnsFrame, Points
    <3>2. WellFormed(Moved("enter"))
      BY <1>1, <1>2 DEF WellFormed, Points
    <3> QED BY <1>2, <2>1, <2>3, <3>1, <3>2, GotoKeeps DEF ScreenStep, Points
  <2> QED BY <2>1, <2>2, <2>3
<1>7. CASE EnterRead \/ ReadInterrupted \/ ReadOtherKey
  <2>1. PICK at \in {"read", "check"} : Goto(at)
    BY <1>7 DEF EnterRead, ReadInterrupted, ReadOtherKey
  <2>2. UNCHANGED <<screenvars, dialog>> /\ Current.at \in {"enter", "read"} /\ ~AtGone
    BY <1>7 DEF EnterRead, ReadInterrupted, ReadOtherKey, AtRead, At, AtGone
  <2>3. HoldsFrame(Moved(at)) <=> HoldsFrame(Current)
    BY <1>1, <2>1, <2>2 DEF HoldsFrame, OwnsFrame, Points
  <2>4. WellFormed(Moved(at)) /\ at \in Points
    BY <1>1, <1>2, <2>1 DEF WellFormed, Points
  <2> QED BY <1>2, <2>1, <2>2, <2>3, <2>4, GotoKeeps DEF ScreenStep
<1>8. CASE MenuResize
  <2>1. UNCHANGED dialog /\ Current.at = "read" /\ ~AtGone
    BY <1>8 DEF MenuResize, At, AtGone
  <2>2. CASE ~OwnsFrame(Current)
    <3>1. \/ Goto("check") /\ UNCHANGED screenvars
          \/ LeaveMenu("too_small")
      BY <1>8, <2>2 DEF MenuResize
    <3>2. CASE Goto("check") /\ UNCHANGED screenvars
      <4>1. HoldsFrame(Moved("check")) <=> HoldsFrame(Current)
        BY <1>1, <2>1 DEF HoldsFrame, OwnsFrame, Points
      <4>2. WellFormed(Moved("check"))
        BY <1>1, <1>2 DEF WellFormed, Points
      <4> QED BY <1>2, <2>1, <3>2, <4>1, <4>2, GotoKeeps DEF ScreenStep, Points
    <3>3. CASE LeaveMenu("too_small")
      <4>1. WInv' /\ (Screens!CloseScreen \/ UNCHANGED screenvars)
        BY <2>1, <3>3, LeaveMenuKeeps
      <4> QED BY <4>1 DEF ScreenStep, Screens!Next
    <3> QED BY <3>1, <3>2, <3>3
  <2>3. CASE OwnsFrame(Current)
    <3>1. PICK w \in Window \cup {NoWindow}, at \in {"check", "gone"} :
            /\ w = NoWindow \/ w \in FreeWindow
            /\ w = NoWindow => at = "gone"
            /\ w # NoWindow => at = "check"
            /\ Goto(at)
            /\ IF w = NoWindow THEN Screens!ResizeScreenFails ELSE Screens!ResizeScreen(w)
      <4>1. CASE Screens!ResizeScreenFails /\ Goto("gone")
        BY <4>1
      <4>2. CASE \E w \in FreeWindow : Screens!ResizeScreen(w) /\ Goto("check")
        <5>1. PICK w \in FreeWindow : Screens!ResizeScreen(w) /\ Goto("check")
          BY <4>2
        <5>2. w \in Window /\ w # NoWindow
          BY NullAssumption DEF FreeWindow
        <5> QED BY <5>1, <5>2
      <4> QED BY <1>8, <2>3, <4>1, <4>2 DEF MenuResize
    <3> DEFINE c == Moved(at)
    <3>2. /\ c.fn = "menu" /\ c.kind = Current.kind /\ c.at = at
          /\ WellFormed(c) => InPlace(c, Len(calls))
      <4>1. at \in Points
        BY DEF Points
      <4> QED BY <1>1, <4>1, MovedFields, WInvScreens
    <3>3. calls' = [calls EXCEPT ![Len(calls)] = c]
      BY <3>1, GotoReplaces
    <3> HIDE DEF c
    <3>4. InPlace(c, Len(calls)) /\ (HoldsFrame(c) <=> HoldsFrame(Current))
      BY <1>2, <2>1, <3>2 DEF WellFormed, HoldsFrame, OwnsFrame
    <3>5. /\ CallsInv' /\ Running' /\ Current' = c
          /\ Cardinality(Holders') = Cardinality(Holders)
      BY <3>3, <3>4, ReplaceFacts, WInvScreens
    <3>6. /\ w \notin live /\ live \subseteq Window /\ dialog = NoWindow /\ dialog \notin live
      BY <1>2, <3>1, NullAssumption
      DEF FreeWindow, WInv, WindowsInv, DialogInv, Screens!TypeOK
    <3>7. /\ frames # << >> /\ Screens!Top # NoWindow
          /\ live' = (live \cup {w}) \ {Screens!Top, NoWindow}
          /\ frames' = [frames EXCEPT ![Len(frames)] = w]
          /\ Screens!Replace(Screens!Top, w) /\ UNCHANGED deepest
      <4>1. CASE w = NoWindow
        BY <3>1, <3>6, <4>1, NullAssumption DEF Screens!ResizeScreenFails
      <4>2. CASE w # NoWindow
        BY <3>1, <3>6, <4>2, NullAssumption DEF Screens!ResizeScreen
      <4> QED BY <4>1, <4>2
    <3>8. /\ Screens!TypeOK' /\ ExactInv' /\ FramesInv' /\ NullOnlyLast'
          /\ w # NoWindow => NoneNull'
          /\ Len(frames') = Len(frames)
      BY <3>6, <3>7, ResizeFacts, WInvScreens
    <3>9. DialogInv'
      BY <2>1, <3>6, <3>7, <3>1 DEF DialogInv
    <3>10. w = NoWindow => AtGone'
      BY <2>3, <3>1, <3>2, <3>5 DEF AtGone, At, OwnsFrame, Running
    <3>11. WInv'
      BY <3>5, <3>8, <3>9, <3>10, WInvScreens, WInvFrom DEF ScreensInv
    <3>12. Screens!Next
      <4>1. CASE w = NoWindow
        BY <3>1, <4>1 DEF Screens!Next
      <4>2. CASE w # NoWindow
        BY <3>1, <4>2 DEF Screens!Next
      <4> QED BY <4>1, <4>2
    <3> QED BY <3>11, <3>12 DEF ScreenStep
  <2> QED BY <2>2, <2>3
<1> QED BY <1>3, <1>4, <1>5, <1>6, <1>7, <1>8

LEMMA DialogKeepsWindows ==
  ASSUME WInv, Running, Current.fn = "dialog",
         \/ DialogOpen \/ DialogOpenFails \/ DialogCheck \/ DialogKey \/ DialogResize
         \/ EnterRead \/ ReadInterrupted \/ ReadOtherKey
  PROVE  WInv' /\ ScreenStep
<1>1. \A at \in Points : /\ Moved(at).fn = "dialog" /\ Moved(at).at = at
                        /\ Moved(at).kind = Current.kind
  BY MovedFields, WInvScreens
<1>2. /\ Len(calls) # 1 /\ ~AtGone /\ ~HoldsFrame(Current)
      /\ Current.kind \in {"confirm", "input", "message", "layout"}
  BY CurrentType, WInvScreens DEF AtGone, At, HoldsFrame, OwnsFrame, InPlace, WellFormed
<1>3. UNCHANGED screenvars
  BY DEF DialogOpen, DialogOpenFails, DialogCheck, DialogKey, DialogResize, EnterRead,
         ReadInterrupted, ReadOtherKey, screenvars
<1>4. ASSUME NEW v, Return(v),
             dialog' = NoWindow \/ (dialog' = dialog /\ ~HasDialog(Current))
      PROVE  WInv' /\ ScreenStep
  BY <1>2, <1>3, <1>4, ReturnKeeps DEF ScreenStep
<1>5. ASSUME NEW at \in {"check", "enter", "read"}, Goto(at),
             \/ dialog' = dialog
             \/ dialog' \in Window \ live
      PROVE  WInv' /\ ScreenStep
  <2>1. at \in Points
    BY DEF Points
  <2>2. ~HoldsFrame(Moved(at)) /\ WellFormed(Moved(at)) /\ HasDialog(Moved(at))
    BY <1>1, <1>2, <2>1 DEF HoldsFrame, OwnsFrame, WellFormed, HasDialog
  <2>3. CASE dialog' = dialog
    BY <1>2, <1>3, <1>5, <2>1, <2>2, <2>3, GotoKeeps DEF ScreenStep
  <2>4. CASE dialog' \in Window \ live
    BY <1>2, <1>3, <1>5, <2>1, <2>2, <2>4, GotoKeeps DEF ScreenStep
  <2> QED BY <1>5, <2>3, <2>4
<1>6. CASE DialogOpen
  BY <1>5, <1>6 DEF DialogOpen, NewDialog
<1>7. CASE DialogOpenFails
  <2>1. ~HasDialog(Current)
    BY <1>7 DEF DialogOpenFails, At, HasDialog
  <2> QED BY <1>4, <1>7, <2>1 DEF DialogOpenFails
<1>8. CASE DialogCheck
  <2>1. \/ CloseDialog(Default(Current.kind))
        \/ Goto("enter") /\ UNCHANGED dialog
    BY <1>8 DEF DialogCheck
  <2> QED BY <1>4, <1>5, <2>1 DEF CloseDialog
<1>9. CASE DialogKey
  BY <1>4, <1>9 DEF DialogKey, CloseDialog
<1>10. CASE DialogResize
  BY <1>4, <1>5, <1>10 DEF DialogResize, CloseDialog, NewDialog
<1>11. CASE EnterRead \/ ReadInterrupted \/ ReadOtherKey
  BY <1>5, <1>11 DEF EnterRead, ReadInterrupted, ReadOtherKey
<1> QED BY <1>6, <1>7, <1>8, <1>9, <1>10, <1>11

LEMMA ScreensKeepWindows ==
  ASSUME WInv, Running, Current.fn \in {"settings", "overlay", "prompt", "progress"},
         \/ SettingsOpen \/ SettingsOpenFails \/ SettingsLoop \/ SettingsDispatch
         \/ OverlayLoop \/ OverlayDispatch \/ PromptAsk \/ PromptAsked
         \/ ProgressOpen \/ ProgressOpenFails \/ ProgressDone
  PROVE  WInv' /\ ScreenStep
<1>1. \A at \in Points : Moved(at).fn = Current.fn /\ Moved(at).at = at
  BY MovedFields, WInvScreens
<1>2. Len(calls) # 1 /\ ~AtGone /\ ~OwnsFrame(Current)
  BY CurrentType, WInvScreens DEF AtGone, At, OwnsFrame
<1>3. ASSUME NEW v, Return(v), UNCHANGED <<screenvars, dialog>>, ~HoldsFrame(Current),
             ~HasDialog(Current)
      PROVE  WInv' /\ ScreenStep
  BY <1>2, <1>3, ReturnKeeps DEF ScreenStep
<1>4. ASSUME UNCHANGED screenvars, BecomeMessage, ~HoldsFrame(Current),
             Current.fn \in {"settings", "prompt", "progress"},
             dialog' = NoWindow \/ (dialog' = dialog /\ ~HasDialog(Current))
      PROVE  WInv' /\ ScreenStep
  BY <1>4, BecomeMessageKeeps DEF ScreenStep
<1>5. ASSUME NEW fn \in {"menu", "dialog"}, NEW kind, NEW at \in Points,
             Invoke(Call(fn, kind), at), UNCHANGED <<screenvars, dialog>>,
             WellFormed(Call(fn, kind)), kind \in Kinds,
             Waits(Moved(at)), HoldsFrame(Moved(at)) <=> HoldsFrame(Current)
      PROVE  WInv' /\ ScreenStep
  <2>1. fn \in Functions \ {"run"}
    BY DEF Functions
  <2> QED BY <1>5, <2>1, CallKeeps DEF ScreenStep
<1>6. CASE SettingsOpen
  <2>1. /\ OpenFrame /\ UNCHANGED dialog /\ Goto("loop") /\ ~HasDialog(Current)
        /\ ~HoldsFrame(Current) /\ HoldsFrame(Moved("loop")) /\ WellFormed(Moved("loop"))
    BY <1>1, <1>2, <1>6
    DEF SettingsOpen, At, HoldsFrame, HasDialog, WellFormed, OwnsFrame, Points
  <2>2. WInv'
    BY <2>1, OpenGotoKeeps DEF Points
  <2> QED BY <2>1, <2>2 DEF ScreenStep, OpenFrame, FreeWindow, Screens!Next
<1>7. CASE SettingsOpenFails
  <2>1. ~HoldsFrame(Current) /\ ~HasDialog(Current) /\ Current.fn = "settings"
    BY <1>2, <1>7 DEF SettingsOpenFails, At, HoldsFrame, HasDialog
  <2> QED BY <1>4, <1>7, <2>1 DEF SettingsOpenFails
<1>8. CASE SettingsLoop
  <2>1. Waits(Moved("status")) /\ (HoldsFrame(Moved("status")) <=> HoldsFrame(Current))
    BY <1>1, <1>2, <1>8 DEF SettingsLoop, At, Waits, HoldsFrame, OwnsFrame, Points
  <2>2. WellFormed(Call("menu", "settings")) /\ "settings" \in Kinds
    BY DEF WellFormed, Call, Kinds
  <2> QED BY <1>5, <1>8, <2>1, <2>2 DEF SettingsLoop, Menu, Points
<1>9. CASE SettingsDispatch
  <2>1. CASE ret = "message"
    <3>1. Waits(Moved("loop")) /\ (HoldsFrame(Moved("loop")) <=> HoldsFrame(Current))
      BY <1>1, <1>2, <1>9 DEF SettingsDispatch, At, Waits, HoldsFrame, OwnsFrame, Points
    <3>2. WellFormed(Call("dialog", "message")) /\ "message" \in Kinds
      BY DEF WellFormed, Call, Kinds
    <3> QED BY <1>5, <1>9, <2>1, <3>1, <3>2 DEF SettingsDispatch, Dialog, Points
  <2>2. CASE ret # "message"
    <3>1. /\ Screens!CloseScreen /\ Return("done") /\ HoldsFrame(Current)
          /\ ~HasDialog(Current) /\ UNCHANGED dialog
      BY <1>9, <2>2 DEF SettingsDispatch, At, HoldsFrame, HasDialog
    <3> QED BY <1>2, <3>1, CloseKeeps DEF ScreenStep, Screens!Next
  <2> QED BY <2>1, <2>2
<1>10. CASE OverlayLoop
  <2>1. Waits(Moved("status")) /\ (HoldsFrame(Moved("status")) <=> HoldsFrame(Current))
    BY <1>1, <1>2, <1>10 DEF OverlayLoop, At, Waits, HoldsFrame, OwnsFrame, Points
  <2>2. WellFormed(Call("menu", "overlay")) /\ "overlay" \in Kinds
    BY DEF WellFormed, Call, Kinds
  <2> QED BY <1>5, <1>10, <2>1, <2>2 DEF OverlayLoop, Menu, Points
<1>11. CASE OverlayDispatch
  <2>1. CASE ret = "message"
    <3>1. Waits(Moved("open")) /\ (HoldsFrame(Moved("open")) <=> HoldsFrame(Current))
      BY <1>1, <1>2, <1>11 DEF OverlayDispatch, At, Waits, HoldsFrame, OwnsFrame, Points
    <3>2. WellFormed(Call("dialog", "message")) /\ "message" \in Kinds
      BY DEF WellFormed, Call, Kinds
    <3> QED BY <1>5, <1>11, <2>1, <3>1, <3>2 DEF OverlayDispatch, Dialog, Points
  <2>2. CASE ret # "message"
    <3>1. /\ \E v : Return(v)
          /\ ~HoldsFrame(Current) /\ ~HasDialog(Current)
          /\ UNCHANGED <<screenvars, dialog>>
      BY <1>2, <1>11, <2>2 DEF OverlayDispatch, At, HoldsFrame, HasDialog
    <3> QED BY <1>3, <3>1
  <2> QED BY <2>1, <2>2
<1>12. CASE PromptAsk
  <2>1. Waits(Moved("asked")) /\ (HoldsFrame(Moved("asked")) <=> HoldsFrame(Current))
    BY <1>1, <1>2, <1>12 DEF PromptAsk, At, Waits, HoldsFrame, OwnsFrame, Points
  <2>2. WellFormed(Call("dialog", "input")) /\ "input" \in Kinds
    BY DEF WellFormed, Call, Kinds
  <2> QED BY <1>5, <1>12, <2>1, <2>2 DEF PromptAsk, Dialog, Points
<1>13. CASE PromptAsked
  <2>1. /\ ~HoldsFrame(Current) /\ ~HasDialog(Current) /\ Current.fn = "prompt"
        /\ UNCHANGED <<screenvars, dialog>>
        /\ BecomeMessage \/ Return("done")
    BY <1>2, <1>13 DEF PromptAsked, At, HoldsFrame, HasDialog
  <2> QED BY <1>3, <1>4, <2>1
<1>14. CASE ProgressOpen
  <2>1. /\ ~HoldsFrame(Current) /\ ~HoldsFrame(Moved("work")) /\ HasDialog(Moved("work"))
        /\ WellFormed(Moved("work")) /\ Goto("work") /\ UNCHANGED screenvars
        /\ dialog' \in Window \ live
    BY <1>1, <1>2, <1>14
    DEF ProgressOpen, At, HoldsFrame, HasDialog, WellFormed, NewDialog, OwnsFrame, Points
  <2> QED BY <1>2, <2>1, GotoKeeps DEF ScreenStep, Points
<1>15. CASE ProgressOpenFails
  <2>1. ~HoldsFrame(Current) /\ ~HasDialog(Current) /\ Current.fn = "progress"
    BY <1>2, <1>15 DEF ProgressOpenFails, At, HoldsFrame, HasDialog
  <2> QED BY <1>4, <1>15, <2>1 DEF ProgressOpenFails
<1>16. CASE ProgressDone
  <2>1. ~HoldsFrame(Current) /\ Current.fn = "progress"
    BY <1>2, <1>16 DEF ProgressDone, At, HoldsFrame
  <2> QED BY <1>4, <1>16, <2>1 DEF ProgressDone
<1> QED BY <1>6, <1>7, <1>8, <1>9, <1>10, <1>11, <1>12, <1>13, <1>14, <1>15, <1>16

LEMMA NextKeepsWindows ==
  ASSUME WInv, [Next]_vars
  PROVE  WInv' /\ ScreenStep
<1>1. CASE UNCHANGED <<screenvars, calls, dialog>>
  <2>1. /\ background' = background /\ slot' = slot /\ depth' = depth /\ frames' = frames
        /\ live' = live /\ deepest' = deepest /\ calls' = calls /\ dialog' = dialog
    BY <1>1 DEF screenvars
  <2>2. /\ Current' = Current /\ (Running' <=> Running) /\ (AtGone' <=> AtGone)
        /\ Holders' = Holders
    BY <2>1 DEF Current, Running, AtGone, At, OwnsFrame, Holders
  <2>3. CallsInv'
    BY <2>1, WInvScreens DEF CallsInv
  <2>4. ScreensInv' /\ Len(frames') = Len(frames)
    BY <1>1, StaysFacts
  <2>5. GoneInv' /\ DialogInv'
    BY <2>1, <2>2 DEF WInv, WindowsInv, GoneInv, DialogInv
  <2>6. HeldInv'
    BY <2>1, <2>2 DEF WInv, WindowsInv, HeldInv
  <2> QED BY <1>1, <2>3, <2>4, <2>5, <2>6 DEF WInv, WindowsInv, ScreensInv, ScreenStep
<1>2. CASE SignalArrives \/ Ended \/ UNCHANGED vars
  <2>1. UNCHANGED <<screenvars, calls, dialog>>
    BY <1>2 DEF SignalArrives, Ended, vars
  <2> QED BY <1>1, <2>1
<1>3. CASE \/ TuiInitRefused \/ TuiInitCurses
           \/ InstallSigint \/ InstallSigintFails \/ InstallSigterm \/ InstallSigtermFails
           \/ TuiInitModes \/ TuiInitModesFail \/ RunOpen \/ RunOpenFails
           \/ RunLoop \/ RunDispatch \/ RunInterrupted \/ RunMenuFailed
           \/ RunOverlaid \/ RunConfirmed \/ RunPop \/ RunCleanup
  <2>1. Running /\ Current.fn = "run"
    BY <1>3 DEF At, Running, TuiInitRefused, TuiInitCurses, InstallSigint,
         InstallSigintFails, InstallSigterm, InstallSigtermFails, TuiInitModes, TuiInitModesFail, RunOpen, RunOpenFails,
         RunLoop, RunDispatch, RunInterrupted, RunMenuFailed, RunOverlaid, RunConfirmed,
         RunPop, RunCleanup
  <2> QED BY <1>3, <2>1, RunKeepsWindows
<1>4. CASE \/ MenuNoMemory \/ MenuOpenOwned \/ MenuOpenCallers \/ MenuOpenFails
           \/ MenuCheck \/ MenuKey \/ MenuResize \/ MenuGone
  <2>1. Running /\ Current.fn = "menu"
    BY <1>4 DEF At, Running, MenuNoMemory, MenuOpenOwned, MenuOpenCallers, MenuOpenFails,
         MenuCheck, MenuKey, MenuResize, MenuGone
  <2> QED BY <1>4, <2>1, MenuKeepsWindows
<1>5. CASE EnterRead \/ ReadInterrupted \/ ReadOtherKey
  <2>1. Running /\ Current.fn \in {"menu", "dialog"}
    BY <1>5 DEF AtRead, At, Running, EnterRead, ReadInterrupted, ReadOtherKey
  <2> QED BY <1>5, <2>1, MenuKeepsWindows, DialogKeepsWindows
<1>6. CASE DialogOpen \/ DialogOpenFails \/ DialogCheck \/ DialogKey \/ DialogResize
  <2>1. Running /\ Current.fn = "dialog"
    BY <1>6 DEF At, Running, DialogOpen, DialogOpenFails, DialogCheck, DialogKey, DialogResize
  <2> QED BY <1>6, <2>1, DialogKeepsWindows
<1>7. CASE \/ SettingsOpen \/ SettingsOpenFails \/ SettingsLoop \/ SettingsDispatch
           \/ OverlayLoop \/ OverlayDispatch \/ PromptAsk \/ PromptAsked
           \/ ProgressOpen \/ ProgressOpenFails \/ ProgressDone
  <2>1. Running /\ Current.fn \in {"settings", "overlay", "prompt", "progress"}
    BY <1>7 DEF At, Running, SettingsOpen, SettingsOpenFails, SettingsLoop, SettingsDispatch,
         OverlayLoop, OverlayDispatch, PromptAsk, PromptAsked, ProgressOpen,
         ProgressOpenFails, ProgressDone
  <2> QED BY <1>7, <2>1, ScreensKeepWindows
<1> QED BY <1>2, <1>3, <1>4, <1>5, <1>6, <1>7 DEF Next, Program, User

LEMMA InitWindows == ASSUME Init PROVE WInv /\ Screens!Init
<1> DEFINE c == Call("run", "app")
<1>1. /\ frames = << >> /\ live = {} /\ depth = 0 /\ background = NoWindow
      /\ deepest = 0 /\ dialog = NoWindow /\ calls = <<c>>
      /\ slot = [k \in 0..STACK_MAX-1 |-> NoWindow] /\ STACK_MAX \in Nat
  BY NestingAssumption DEF Init, Screens!Init, Screens!BackgroundInit, Screens!Slots
<1>2. c.fn = "run" /\ c.at = "open" /\ c.pushed = FALSE /\ c \in CallRecord
  BY DEF Call, CallRecord, Functions, Kinds, Points
<1> HIDE DEF c
<1>3. calls \in Seq(CallRecord) /\ Len(calls) = 1 /\ calls[1] = c
  BY <1>1, <1>2
<1>4. CallsInv
  <2>1. InPlace(c, 1)
    BY <1>2 DEF InPlace, WellFormed
  <2> QED BY <1>3, <2>1 DEF CallsInv
<1>5. Screens!TypeOK
  BY <1>1 DEF Screens!TypeOK, Screens!BackgroundTypeOK, Screens!WindowOrNone, Screens!Slots
<1>6. ExactInv /\ FramesInv /\ GoneInv
  BY <1>1 DEF ExactInv, FramesInv, GoneInv, Screens!Frame
<1>7. HeldInv
  <2>1. Holders = {}
    BY <1>2, <1>3 DEF Holders, HoldsFrame, OwnsFrame
  <2> QED BY <1>1, <2>1, FS_EmptySet DEF HeldInv
<1>8. DialogInv
  BY <1>1 DEF DialogInv
<1> QED BY <1>4, <1>5, <1>6, <1>7, <1>8 DEF WInv, WindowsInv, Init

(* The windows are in order in every state. *)
LEMMA WindowsAlways == Spec => []WInv
<1>1. Init => WInv
  BY InitWindows
<1>2. WInv /\ [Next]_vars => WInv'
  BY NextKeepsWindows
<1> QED BY <1>1, <1>2, PTL DEF Spec

(* Every window is some call's to destroy, whichever allocation fails and
   however the screens, menus and dialogs nest, resize and return. *)
THEOREM WindowsAreHeld == Spec => []EveryWindowHeld
<1>1. WInv => EveryWindowHeld
  BY DEF WInv, WindowsInv, EveryWindowHeld, HeldInv, FramesInv, DialogInv, HasDialog
<1> QED BY <1>1, WindowsAlways, PTL

(* Whenever a key is awaited, a closing dialog repaints the innermost open
   screen, whose window is allocated. *)
THEOREM InnermostIsRepainted == Spec => []RepaintsInnermostScreen
<1>1. WInv => RepaintsInnermostScreen
  <2> SUFFICES ASSUME WInv, AtRead
               PROVE  /\ background = Screens!Top /\ background \in live
                      /\ depth = Len(frames) /\ depth < STACK_MAX
    BY DEF RepaintsInnermostScreen
  <2>1. Running /\ ~AtGone /\ Current.fn # "run"
    BY DEF AtRead, At, Running, AtGone
  <2>2. /\ Len(frames) # 0 /\ background = Screens!Top
        /\ Len(frames) \in Nat /\ Len(frames) < STACK_MAX /\ ScreensInv /\ NoneNull
    BY <2>1, InnerScreens, HeldBound, WInvScreens
  <2>3. background \in live
    BY <2>2 DEF ScreensInv, FramesInv, NoneNull, Screens!Top
  <2> QED BY <2>2, <2>3 DEF ScreensInv, ExactInv
<1> QED BY <1>1, WindowsAlways, PTL

(* The screens of the program implement NestedScreens: every step opens,
   resizes or closes a screen as it allows, or leaves the screens alone. *)
THEOREM SessionFollowsDiscipline == Spec => FollowsScreenDiscipline
<1>1. Init => Screens!Init
  BY InitWindows
<1>2. WInv /\ [Next]_vars => [Screens!Next]_(Screens!vars)
  <2> SUFFICES ASSUME WInv, [Next]_vars PROVE [Screens!Next]_(Screens!vars)
    OBVIOUS
  <2>1. ScreenStep
    BY NextKeepsWindows
  <2> QED BY <2>1 DEF ScreenStep, screenvars, Screens!vars
<1> QED BY <1>1, <1>2, WindowsAlways, PTL DEF Spec, FollowsScreenDiscipline, Screens!Spec

------------------------------------------------------------------------------
(***************************************************************************)
(* The terminal, the signals and the result.                               *)
(***************************************************************************)

PlainTypeOK ==
  /\ ret \in Results
  /\ dialog \in {NoWindow} \cup Window
  /\ rows \in Heights
  /\ pending \in Signal \cup {NoSignal} /\ woken \in BOOLEAN
  /\ delivered \subseteq Signal
  /\ curses \in BOOLEAN /\ handlers \subseteq Signal /\ inited \in BOOLEAN
  /\ err \in Code /\ yes \in BOOLEAN

RestInv == PlainTypeOK /\ TermInv /\ ExitInv

(* tui_run_app's own point changes as it moves on or calls another. *)
LEMMA OutermostMoves ==
  ASSUME CallsInv, Running, Current.fn = "run", NEW at \in Points,
         Goto(at) \/ (\E d \in CallRecord : Invoke(d, at))
  PROVE  Running' /\ calls'[1].at = at
<1> DEFINE c == Moved(at)
<1>1. Len(calls) = 1 /\ calls \in Seq(CallRecord) /\ c \in CallRecord /\ c.at = at
  <2>1. Current \in CallRecord
    BY CurrentType DEF InPlace
  <2> QED BY <2>1, CurrentType DEF CallsInv, Moved, CallRecord
<1>2. CASE Goto(at)
  <2>1. calls' = [calls EXCEPT ![1] = c]
    BY <1>1, <1>2, GotoReplaces
  <2> HIDE DEF c
  <2> QED BY <1>1, <2>1 DEF Running
<1>3. CASE \E d \in CallRecord : Invoke(d, at)
  <2> DEFINE m == [calls EXCEPT ![1] = c]
  <2>1. PICK d \in CallRecord : calls' = Append(m, d)
    BY <1>1, <1>3 DEF Invoke, Moved, Current
  <2> HIDE DEF c
  <2>2. 1 \in 1..Len(calls)
    BY <1>1
  <2>3. m \in Seq(CallRecord) /\ Len(m) = Len(calls) /\ m[1] = c
    <3>1. calls \in Seq(CallRecord) /\ c \in CallRecord
      BY <1>1
    <3>2. /\ m \in Seq(CallRecord) /\ Len(m) = Len(calls)
          /\ \A j \in 1..Len(calls) : m[j] = IF j = 1 THEN c ELSE calls[j]
      BY <2>2, <3>1, ExceptSeq
    <3> QED BY <2>2, <3>2
  <2> HIDE DEF m
  <2> QED BY <1>1, <2>1, <2>3 DEF Running
<1> QED BY <1>2, <1>3

(* And stays the same while another call is the innermost. *)
LEMMA OutermostStays ==
  ASSUME CallsInv, Running, Current.fn # "run",
         \/ \E c \in CallRecord : calls' = [calls EXCEPT ![Len(calls)] = c]
         \/ \E d \in CallRecord, at \in Points : Invoke(d, at)
         \/ \E v : Return(v)
  PROVE  Running' /\ calls'[1] = calls[1]
<1> DEFINE n == Len(calls)
<1>1. n \in 2..3 /\ calls \in Seq(CallRecord)
  BY CurrentType DEF CallsInv
<1>2. CASE \E c \in CallRecord : calls' = [calls EXCEPT ![n] = c]
  <2>1. PICK c \in CallRecord : calls' = [calls EXCEPT ![n] = c]
    BY <1>2
  <2> QED BY <1>1, <2>1 DEF Running
<1>3. CASE \E d \in CallRecord, at \in Points : Invoke(d, at)
  <2>1. PICK d \in CallRecord, at \in Points : calls' = Append([calls EXCEPT ![n] = Moved(at)], d)
    BY <1>3 DEF Invoke, Moved, Current
  <2>2. Moved(at) \in CallRecord
    <3>1. Current \in CallRecord
      BY CurrentType DEF InPlace
    <3> QED BY <3>1 DEF Moved, CallRecord
  <2> DEFINE m == [calls EXCEPT ![n] = Moved(at)]
  <2>3. m \in Seq(CallRecord) /\ Len(m) = n /\ m[1] = calls[1]
    <3> HIDE DEF n
    <3>1. n \in 1..Len(calls) /\ 1 \in 1..Len(calls) /\ n # 1
      BY <1>1 DEF n
    <3> QED BY <1>1, <2>2, <3>1, ExceptSeq DEF n
  <2> HIDE DEF m, n
  <2> QED BY <1>1, <2>1, <2>3 DEF Running, m
<1>4. CASE \E v : Return(v)
  <2>1. calls' = SubSeq(calls, 1, n - 1) /\ calls # << >>
    BY <1>4 DEF Return, Running
  <2>2. /\ calls' \in Seq(CallRecord) /\ Len(calls') = n - 1
        /\ \A k \in 1..n - 1 : calls'[k] = calls[k]
    BY <1>1, <2>1, FrontCalls
  <2> HIDE DEF n
  <2> QED BY <1>1, <2>2 DEF Running
<1> QED BY <1>2, <1>3, <1>4

(* Keys end a menu or a dialog with an answer, which is "yes" for dialogs only. *)
LEMMA AnswersType ==
  ASSUME CallsInv, Running, Current.fn \in {"menu", "dialog"}
  PROVE  /\ Answers(Current) \subseteq Results \ {"interrupted"}
         /\ Current.fn = "menu" => "yes" \notin Answers(Current)
         /\ Current.fn = "dialog"
              => Default(Current.kind) \in Results \ {"interrupted", "yes"}
<1>1. WellFormed(Current)
  BY CurrentType DEF InPlace
<1>2. CASE Current.fn = "menu"
  <2>1. Current.kind \in {"main", "settings", "overlay"}
    BY <1>1, <1>2 DEF WellFormed
  <2> QED BY <1>2, <2>1 DEF Answers, Results
<1>3. CASE Current.fn = "dialog"
  <2>1. Current.kind \in {"confirm", "input", "message", "layout"}
    BY <1>1, <1>3 DEF WellFormed
  <2> QED BY <1>3, <2>1 DEF Answers, Results, Default
<1> QED BY <1>2, <1>3

(* What the calls of tui_run_app may do to its own state: nothing.  They
   return "yes" after the user said so, and "interrupted" while the signal is
   still there to be taken. *)
InnerStep ==
  /\ Running' /\ calls'[1] = calls[1]
  /\ UNCHANGED <<pending, delivered, termvars, err>>
  /\ \/ ret' = ret
     \/ /\ ret' \in Results
        /\ ret' = "yes" => yes'
        /\ ret' = "interrupted" => pending # NoSignal
  /\ yes' \in BOOLEAN /\ (yes => yes')
  /\ dialog' \in {NoWindow} \cup Window /\ rows' \in Heights /\ woken' \in BOOLEAN

LEMMA MenuInnerStep ==
  ASSUME CallsInv, PlainTypeOK, Running, Current.fn = "menu",
         \/ MenuNoMemory \/ MenuOpenOwned \/ MenuOpenCallers \/ MenuOpenFails
         \/ MenuCheck \/ MenuKey \/ MenuResize \/ MenuGone
         \/ EnterRead \/ ReadInterrupted \/ ReadOtherKey
  PROVE  InnerStep
<1>1. Current \in CallRecord
  BY CurrentType DEF InPlace
<1>2. ASSUME NEW at \in Points, Goto(at) PROVE Running' /\ calls'[1] = calls[1]
  <2>1. Moved(at) \in CallRecord
    BY <1>1 DEF Moved, CallRecord
  <2> QED BY <1>2, <2>1, GotoReplaces, OutermostStays
<1>3. ASSUME NEW v, Return(v) PROVE Running' /\ calls'[1] = calls[1]
  BY <1>3, OutermostStays
<1>4. ASSUME NEW v, LeaveMenu(v) PROVE Running' /\ calls'[1] = calls[1] /\ ret' = v
  BY <1>3, <1>4 DEF LeaveMenu, Return
<1> USE DEF InnerStep, PlainTypeOK, signalvars, termvars
<1>5. CASE MenuNoMemory \/ MenuOpenFails
  <2>1. \E v \in {"no_memory", "too_small"} : Return(v)
    BY <1>5 DEF MenuNoMemory, MenuOpenFails
  <2>2. ret' \in Results \ {"yes", "interrupted"}
    BY <2>1 DEF Return, Results
  <2> QED BY <1>3, <1>5, <2>1, <2>2 DEF MenuNoMemory, MenuOpenFails
<1>6. CASE MenuOpenOwned \/ MenuOpenCallers
  <2>1. \E c \in CallRecord : calls' = [calls EXCEPT ![Len(calls)] = c]
    <3>1. \A b \in BOOLEAN : [Current EXCEPT !.at = "check", !.pushed = b] \in CallRecord
      BY <1>1 DEF CallRecord, Points
    <3>2. CASE MenuOpenOwned
      BY <3>1, <3>2 DEF MenuOpenOwned, Current
    <3>3. CASE MenuOpenCallers
      <4>1. (background # Screens!Top) \in BOOLEAN
        OBVIOUS
      <4> QED BY <3>1, <3>3, <4>1 DEF MenuOpenCallers, Current
    <3> QED BY <1>6, <3>2, <3>3
  <2>2. Running' /\ calls'[1] = calls[1]
    BY <2>1, OutermostStays
  <2> QED BY <1>6, <2>2 DEF MenuOpenOwned, MenuOpenCallers
<1>7. CASE MenuCheck
  <2>1. CASE pending # NoSignal
    <3>1. LeaveMenu("interrupted")
      BY <1>7, <2>1 DEF MenuCheck
    <3> QED BY <1>4, <1>7, <2>1, <3>1 DEF MenuCheck, Results
  <2>2. CASE pending = NoSignal
    <3>1. LeaveMenu("too_small") \/ (Goto("enter") /\ UNCHANGED ret)
      BY <1>7, <2>2 DEF MenuCheck
    <3> QED BY <1>2, <1>4, <1>7, <3>1 DEF MenuCheck, Results, Points
  <2> QED BY <2>1, <2>2
<1>8. CASE MenuKey
  <2>1. PICK v \in Answers(Current) : LeaveMenu(v)
    BY <1>8 DEF MenuKey
  <2>2. v \in Results \ {"yes", "interrupted"}
    BY AnswersType
  <2> QED BY <1>4, <1>8, <2>1, <2>2 DEF MenuKey
<1>9. CASE MenuResize
  <2>1. LeaveMenu("too_small") \/ ((Goto("check") \/ Goto("gone")) /\ UNCHANGED ret)
    BY <1>9 DEF MenuResize
  <2> QED BY <1>2, <1>4, <1>9, <2>1 DEF MenuResize, Results, Points
<1>10. CASE MenuGone
  BY <1>4, <1>10 DEF MenuGone, Results
<1>11. CASE EnterRead \/ ReadInterrupted \/ ReadOtherKey
  <2>1. Goto("read") \/ Goto("check")
    BY <1>11 DEF EnterRead, ReadInterrupted, ReadOtherKey
  <2> QED BY <1>2, <1>11, <2>1 DEF EnterRead, ReadInterrupted, ReadOtherKey, Points
<1> QED BY <1>5, <1>6, <1>7, <1>8, <1>9, <1>10, <1>11

LEMMA DialogInnerStep ==
  ASSUME CallsInv, PlainTypeOK, Running, Current.fn = "dialog",
         \/ DialogOpen \/ DialogOpenFails \/ DialogCheck \/ DialogKey \/ DialogResize
         \/ EnterRead \/ ReadInterrupted \/ ReadOtherKey
  PROVE  InnerStep
<1>1. Current \in CallRecord
  BY CurrentType DEF InPlace
<1>2. ASSUME NEW at \in Points, Goto(at) PROVE Running' /\ calls'[1] = calls[1]
  <2>1. Moved(at) \in CallRecord
    BY <1>1 DEF Moved, CallRecord
  <2> QED BY <1>2, <2>1, GotoReplaces, OutermostStays
<1>3. ASSUME NEW v, Return(v) PROVE Running' /\ calls'[1] = calls[1] /\ ret' = v
  BY <1>3, OutermostStays DEF Return
<1>4. Default(Current.kind) \in Results \ {"interrupted", "yes"}
  BY AnswersType
<1> USE DEF InnerStep, PlainTypeOK, signalvars, termvars
<1>5. CASE DialogOpen
  BY <1>2, <1>5 DEF DialogOpen, NewDialog, Points
<1>6. CASE DialogOpenFails
  BY <1>3, <1>4, <1>6 DEF DialogOpenFails
<1>7. CASE DialogCheck
  <2>1. \/ CloseDialog(Default(Current.kind))
        \/ Goto("enter") /\ UNCHANGED <<dialog, ret>>
    BY <1>7 DEF DialogCheck
  <2> QED BY <1>2, <1>3, <1>4, <1>7, <2>1 DEF DialogCheck, CloseDialog, Points
<1>8. CASE DialogKey
  <2>1. PICK v \in Answers(Current) : CloseDialog(v) /\ yes' = (yes \/ v = "yes")
    BY <1>8 DEF DialogKey
  <2>2. v \in Results \ {"interrupted"}
    BY AnswersType
  <2> QED BY <1>3, <1>8, <2>1, <2>2 DEF DialogKey, CloseDialog
<1>9. CASE DialogResize
  <2>1. \/ NewDialog(rows', DIALOG_ROWS) /\ Goto("check") /\ UNCHANGED ret
        \/ CloseDialog(Default(Current.kind))
    BY <1>9 DEF DialogResize
  <2> QED BY <1>2, <1>3, <1>4, <1>9, <2>1 DEF DialogResize, CloseDialog, NewDialog, Points
<1>10. CASE EnterRead \/ ReadInterrupted \/ ReadOtherKey
  <2>1. Goto("read") \/ Goto("check")
    BY <1>10 DEF EnterRead, ReadInterrupted, ReadOtherKey
  <2> QED BY <1>2, <1>10, <2>1 DEF EnterRead, ReadInterrupted, ReadOtherKey, Points
<1> QED BY <1>5, <1>6, <1>7, <1>8, <1>9, <1>10

LEMMA ScreensInnerStep ==
  ASSUME CallsInv, PlainTypeOK, Running,
         Current.fn \in {"settings", "overlay", "prompt", "progress"},
         \/ SettingsOpen \/ SettingsOpenFails \/ SettingsLoop \/ SettingsDispatch
         \/ OverlayLoop \/ OverlayDispatch \/ PromptAsk \/ PromptAsked
         \/ ProgressOpen \/ ProgressOpenFails \/ ProgressDone
  PROVE  InnerStep
<1>1. Current \in CallRecord
  BY CurrentType DEF InPlace
<1>2. ASSUME NEW at \in Points, Goto(at) PROVE Running' /\ calls'[1] = calls[1]
  <2>1. Moved(at) \in CallRecord
    BY <1>1 DEF Moved, CallRecord
  <2> QED BY <1>2, <2>1, GotoReplaces, OutermostStays
<1>3. ASSUME NEW v, Return(v) PROVE Running' /\ calls'[1] = calls[1] /\ ret' = v
  BY <1>3, OutermostStays DEF Return
<1>4. ASSUME BecomeMessage PROVE Running' /\ calls'[1] = calls[1]
  <2>1. Dialog("message") \in CallRecord
    BY DEF Dialog, Call, CallRecord, Functions, Kinds, Points
  <2> QED BY <1>4, <2>1, OutermostStays DEF BecomeMessage
<1>5. ASSUME NEW fn \in {"menu", "dialog"}, NEW kind \in {"settings", "overlay", "message", "input"},
             NEW at \in Points, Invoke(Call(fn, kind), at)
      PROVE  Running' /\ calls'[1] = calls[1]
  <2>1. Call(fn, kind) \in CallRecord
    BY DEF Call, CallRecord, Functions, Kinds, Points
  <2> QED BY <1>5, <2>1, OutermostStays
<1>6. "done" \in Results /\ "exit" \in Results /\ "resume" \in Results
  BY DEF Results
<1> USE DEF InnerStep, PlainTypeOK, signalvars, termvars, Points, Menu, Dialog
<1>7. CASE SettingsOpen
  BY <1>2, <1>7 DEF SettingsOpen
<1>8. CASE SettingsOpenFails \/ ProgressOpenFails \/ ProgressDone
  BY <1>4, <1>8 DEF SettingsOpenFails, ProgressOpenFails, ProgressDone
<1>9. CASE SettingsLoop \/ OverlayLoop \/ PromptAsk
  BY <1>5, <1>9 DEF SettingsLoop, OverlayLoop, PromptAsk
<1>10. CASE SettingsDispatch
  BY <1>3, <1>5, <1>6, <1>10 DEF SettingsDispatch
<1>11. CASE OverlayDispatch
  <2>1. \/ Invoke(Call("dialog", "message"), "open") /\ UNCHANGED ret
        \/ \E v \in {"exit", "resume"} : Return(v)
    BY <1>11 DEF OverlayDispatch
  <2> QED BY <1>3, <1>5, <1>6, <1>11, <2>1 DEF OverlayDispatch
<1>12. CASE PromptAsked
  BY <1>3, <1>4, <1>6, <1>12 DEF PromptAsked
<1>13. CASE ProgressOpen
  BY <1>2, <1>13 DEF ProgressOpen, NewDialog
<1> QED BY <1>7, <1>8, <1>9, <1>10, <1>11, <1>12, <1>13

LEMMA InnerStepKeepsRest ==
  ASSUME CallsInv, Running, Current.fn # "run", RestInv, InnerStep
  PROVE  RestInv'
<1>1. calls[1].at \in {"loop", "status", "confirmed", "overlaid"} /\ ~Leaving
  BY CurrentType, OutermostWaits
<1>2. ~Leaving' /\ calls'[1].at = calls[1].at /\ Running'
  BY <1>1 DEF InnerStep, Leaving
<1>3. PlainTypeOK'
  BY DEF RestInv, PlainTypeOK, InnerStep, termvars
<1>4. TermInv'
  BY <1>1, <1>2 DEF RestInv, TermInv, InnerStep, termvars
<1>5. ExitInv'
  BY <1>1, <1>2 DEF RestInv, ExitInv, InnerStep, termvars, PlainTypeOK
<1> QED BY <1>3, <1>4, <1>5 DEF RestInv

LEMMA RunKeepsRest ==
  ASSUME CallsInv, Running, Current.fn = "run", RestInv,
         \/ TuiInitRefused \/ TuiInitCurses
         \/ InstallSigint \/ InstallSigintFails \/ InstallSigterm \/ InstallSigtermFails
         \/ TuiInitModes \/ TuiInitModesFail \/ RunOpen \/ RunOpenFails
         \/ RunLoop \/ RunDispatch \/ RunInterrupted \/ RunMenuFailed
         \/ RunOverlaid \/ RunConfirmed \/ RunPop \/ RunCleanup
  PROVE  RestInv'
<1>1. Current.at = calls[1].at /\ (Leaving <=> Current.at \in {"pop", "cleanup"})
  BY CurrentType DEF Leaving
<1>2. ASSUME NEW at \in Points, Goto(at) \/ (\E d \in CallRecord : Invoke(d, at))
      PROVE  Running' /\ calls'[1].at = at /\ (Leaving' <=> at \in {"pop", "cleanup"})
  BY <1>2, OutermostMoves DEF Leaving
<1>3. ASSUME calls' = << >> PROVE ~Running' /\ Leaving'
  BY <1>3 DEF Running, Leaving
<1>4. PlainTypeOK /\ TermInv /\ ExitInv
  BY DEF RestInv
<1> USE DEF signalvars, termvars, Points
<1>5. CASE TuiInitRefused
  <2>1. Current.at = "open" /\ calls' = << >> /\ err' \in {"IO", "INTERNAL"}
    BY <1>5 DEF TuiInitRefused, At, Finish
  <2>3. PlainTypeOK'
    BY <1>4, <1>5, <2>1 DEF PlainTypeOK, TuiInitRefused, Code
  <2>4. TermInv'
    BY <1>1, <1>2, <1>3, <1>4, <1>5, <2>1 DEF TermInv, TuiInitRefused
  <2>5. ExitInv'
    BY <1>1, <1>2, <1>3, <1>4, <1>5, <2>1 DEF ExitInv, TuiInitRefused
  <2> QED BY <2>3, <2>4, <2>5 DEF RestInv
<1>6. CASE InstallSigintFails
  <2>1. Current.at = "sigint" /\ calls' = << >> /\ err' = "SIGNAL"
    BY <1>6 DEF InstallSigintFails, At, Finish
  <2>3. PlainTypeOK'
    BY <1>4, <1>6, <2>1 DEF PlainTypeOK, InstallSigintFails, Code
  <2>4. TermInv'
    BY <1>1, <1>2, <1>3, <1>4, <1>6, <2>1 DEF TermInv, InstallSigintFails
  <2>5. ExitInv'
    BY <1>1, <1>2, <1>3, <1>4, <1>6, <2>1 DEF ExitInv, InstallSigintFails
  <2> QED BY <2>3, <2>4, <2>5 DEF RestInv
<1>6a. CASE InstallSigtermFails
  <2>1. Current.at = "sigterm" /\ calls' = << >> /\ err' = "SIGNAL"
    BY <1>6a DEF InstallSigtermFails, At, Finish
  <2>3. PlainTypeOK'
    BY <1>4, <1>6a, <2>1 DEF PlainTypeOK, InstallSigtermFails, Code
  <2>4. TermInv'
    BY <1>1, <1>2, <1>3, <1>4, <1>6a, <2>1 DEF TermInv, InstallSigtermFails
  <2>5. ExitInv'
    BY <1>1, <1>2, <1>3, <1>4, <1>6a, <2>1 DEF ExitInv, InstallSigtermFails
  <2> QED BY <2>3, <2>4, <2>5 DEF RestInv
<1>7. CASE TuiInitModesFail
  <2>1. Current.at = "modes" /\ calls' = << >> /\ err' = "INTERNAL"
    BY <1>7 DEF TuiInitModesFail, At, Finish
  <2>3. PlainTypeOK'
    BY <1>4, <1>7, <2>1 DEF PlainTypeOK, TuiInitModesFail, Code
  <2>4. TermInv'
    BY <1>1, <1>2, <1>3, <1>4, <1>7, <2>1 DEF TermInv, TuiInitModesFail
  <2>5. ExitInv'
    BY <1>1, <1>2, <1>3, <1>4, <1>7, <2>1 DEF ExitInv, TuiInitModesFail
  <2> QED BY <2>3, <2>4, <2>5 DEF RestInv
<1>8. CASE RunOpenFails
  <2>1. Current.at = "frame" /\ calls' = << >> /\ err' = "OUT_OF_RANGE"
    BY <1>8 DEF RunOpenFails, At, Finish
  <2>3. PlainTypeOK'
    BY <1>4, <1>8, <2>1 DEF PlainTypeOK, RunOpenFails, Code, TuiCleanup
  <2>4. TermInv'
    BY <1>1, <1>2, <1>3, <1>4, <1>8, <2>1 DEF TermInv, RunOpenFails, TuiCleanup
  <2>5. ExitInv'
    BY <1>1, <1>2, <1>3, <1>4, <1>8, <2>1 DEF ExitInv, RunOpenFails, TuiCleanup
  <2> QED BY <2>3, <2>4, <2>5 DEF RestInv
<1>9. CASE RunCleanup
  <2>1. Current.at = "cleanup" /\ calls' = << >> /\ err' = err
    BY <1>9 DEF RunCleanup, At, Finish
  <2>3. PlainTypeOK'
    BY <1>4, <1>9, <2>1 DEF PlainTypeOK, RunCleanup, Code, TuiCleanup
  <2>4. TermInv'
    BY <1>1, <1>2, <1>3, <1>4, <1>9, <2>1 DEF TermInv, RunCleanup, TuiCleanup
  <2>5. ExitInv'
    BY <1>1, <1>2, <1>3, <1>4, <1>9, <2>1 DEF ExitInv, RunCleanup, TuiCleanup
  <2> QED BY <2>3, <2>4, <2>5 DEF RestInv
<1>10. CASE TuiInitCurses
  <2>1. Current.at = "open" /\ Goto("sigint")
    BY <1>10 DEF TuiInitCurses, At
  <2>3. PlainTypeOK'
    BY <1>4, <1>10, <2>1 DEF PlainTypeOK, TuiInitCurses, Code
  <2>4. TermInv'
    BY <1>1, <1>2, <1>3, <1>4, <1>10, <2>1 DEF TermInv, TuiInitCurses
  <2>5. ExitInv'
    BY <1>1, <1>2, <1>3, <1>4, <1>10, <2>1 DEF ExitInv, TuiInitCurses
  <2> QED BY <2>3, <2>4, <2>5 DEF RestInv
<1>11. CASE InstallSigint
  <2>1. Current.at = "sigint" /\ Goto("sigterm")
    BY <1>11 DEF InstallSigint, At
  <2>3. PlainTypeOK'
    BY <1>4, <1>11, <2>1 DEF PlainTypeOK, InstallSigint, Code, Signal
  <2>4. TermInv'
    <3>1. handlers = {} /\ pending = NoSignal /\ ~inited
      BY <1>1, <1>4, <2>1 DEF TermInv
    <3>2. handlers' = {"SIGINT"} /\ pending' = NoSignal /\ ~inited'
      BY <1>11, <3>1 DEF InstallSigint
    <3>3. Running' /\ calls'[1].at = "sigterm"
      BY <1>2, <2>1
    <3> QED BY <3>2, <3>3 DEF TermInv
  <2>5. ExitInv'
    BY <1>1, <1>2, <1>3, <1>4, <1>11, <2>1 DEF ExitInv, InstallSigint
  <2> QED BY <2>3, <2>4, <2>5 DEF RestInv
<1>11a. CASE InstallSigterm
  <2>1. Current.at = "sigterm" /\ Goto("modes")
    BY <1>11a DEF InstallSigterm, At
  <2>3. PlainTypeOK'
    BY <1>4, <1>11a, <2>1 DEF PlainTypeOK, InstallSigterm, Code
  <2>4. TermInv'
    <3>1. pending \in {NoSignal, "SIGINT"} /\ ~inited
      BY <1>1, <1>4, <2>1 DEF TermInv
    <3>2. handlers' # {} /\ pending' \in {NoSignal, "SIGINT"} /\ ~inited'
      BY <1>11a, <3>1 DEF InstallSigterm, Signal
    <3>3. Running' /\ calls'[1].at = "modes"
      BY <1>2, <2>1
    <3> QED BY <3>2, <3>3 DEF TermInv
  <2>5. ExitInv'
    BY <1>1, <1>2, <1>3, <1>4, <1>11a, <2>1 DEF ExitInv, InstallSigterm
  <2> QED BY <2>3, <2>4, <2>5 DEF RestInv
<1>12. CASE TuiInitModes
  <2>1. Current.at = "modes" /\ Goto("frame")
    BY <1>12 DEF TuiInitModes, At
  <2>3. PlainTypeOK'
    BY <1>4, <1>12, <2>1 DEF PlainTypeOK, TuiInitModes, Code
  <2>4. TermInv'
    BY <1>1, <1>2, <1>3, <1>4, <1>12, <2>1 DEF TermInv, TuiInitModes
  <2>5. ExitInv'
    BY <1>1, <1>2, <1>3, <1>4, <1>12, <2>1 DEF ExitInv, TuiInitModes
  <2> QED BY <2>3, <2>4, <2>5 DEF RestInv
<1>13. CASE RunOpen
  <2>1. Current.at = "frame" /\ Goto("loop")
    BY <1>13 DEF RunOpen, At
  <2>3. PlainTypeOK'
    BY <1>4, <1>13, <2>1 DEF PlainTypeOK, RunOpen, Code
  <2>4. TermInv'
    BY <1>1, <1>2, <1>3, <1>4, <1>13, <2>1 DEF TermInv, RunOpen
  <2>5. ExitInv'
    BY <1>1, <1>2, <1>3, <1>4, <1>13, <2>1 DEF ExitInv, RunOpen
  <2> QED BY <2>3, <2>4, <2>5 DEF RestInv
<1>14. CASE RunPop
  <2>1. Current.at = "pop" /\ Goto("cleanup")
    BY <1>14 DEF RunPop, At
  <2>3. PlainTypeOK'
    BY <1>4, <1>14, <2>1 DEF PlainTypeOK, RunPop, Code
  <2>4. TermInv'
    BY <1>1, <1>2, <1>3, <1>4, <1>14, <2>1 DEF TermInv, RunPop
  <2>5. ExitInv'
    BY <1>1, <1>2, <1>3, <1>4, <1>14, <2>1 DEF ExitInv, RunPop
  <2> QED BY <2>3, <2>4, <2>5 DEF RestInv
<1>15. CASE RunMenuFailed
  <2>1. Current.at = "status" /\ Goto("pop") /\ err' \in {"OUT_OF_RANGE", "MEMORY"}
    BY <1>15 DEF RunMenuFailed, At
  <2>3. PlainTypeOK'
    BY <1>4, <1>15, <2>1 DEF PlainTypeOK, RunMenuFailed, Code
  <2>4. TermInv'
    BY <1>1, <1>2, <1>3, <1>4, <1>15, <2>1 DEF TermInv, RunMenuFailed
  <2>5. ExitInv'
    BY <1>1, <1>2, <1>3, <1>4, <1>15, <2>1 DEF ExitInv, RunMenuFailed
  <2> QED BY <2>3, <2>4, <2>5 DEF RestInv
<1>16. CASE RunInterrupted
  <2>1. Current.at = "status" /\ Goto("pop") /\ err' = InterruptError(pending)
    BY <1>16 DEF RunInterrupted, At
  <2>2. /\ pending \in Signal /\ pending \in delivered /\ NoSignal \notin Signal
        /\ err' = IF pending = "SIGTERM" THEN "TERMINATED" ELSE "INTERRUPTED"
    BY <1>1, <1>4, <1>16, <2>1
    DEF RunInterrupted, ExitInv, PlainTypeOK, InterruptError, Signal, NoSignal
  <2>3. PlainTypeOK'
    BY <1>4, <1>16, <2>1, <2>2 DEF PlainTypeOK, RunInterrupted, Code, Signal
  <2>4. TermInv'
    BY <1>1, <1>2, <1>3, <1>4, <1>16, <2>1 DEF TermInv, RunInterrupted
  <2>5. ExitInv'
    <3>1. UNCHANGED <<delivered, yes, ret>> /\ pending' = NoSignal
      BY <1>16 DEF RunInterrupted
    <3>2. err' # "SUCCESS" /\ err' = "TERMINATED" => pending = "SIGTERM"
      BY <2>2
    <3>3. err' # "SUCCESS" /\ err' = "INTERRUPTED" => pending = "SIGINT"
      BY <2>2 DEF Signal
    <3>4. ~Leaving' => ret # "interrupted"
      BY <1>1, <1>2, <1>3, <1>4, <1>16, <2>1, <2>2 DEF ExitInv, RunInterrupted
    <3> QED BY <3>1, <3>2, <3>3, <3>4, <2>2, <1>4 DEF ExitInv
  <2> QED BY <2>3, <2>4, <2>5 DEF RestInv
<1>17. CASE RunConfirmed
  <2>1. /\ Current.at = "confirmed"
        /\ (Goto("pop") /\ ret = "yes") \/ Goto("loop")
    BY <1>17 DEF RunConfirmed, At
  <2>3. PlainTypeOK'
    BY <1>4, <1>17, <2>1 DEF PlainTypeOK, RunConfirmed, Code
  <2>4. TermInv'
    BY <1>1, <1>2, <1>3, <1>4, <1>17, <2>1 DEF TermInv, RunConfirmed
  <2>5. ExitInv'
    BY <1>1, <1>2, <1>3, <1>4, <1>17, <2>1 DEF ExitInv, RunConfirmed
  <2> QED BY <2>3, <2>4, <2>5 DEF RestInv
<1>18. CASE RunLoop
  <2>1. /\ Current.at = "loop"
        /\ \E d \in CallRecord : Invoke(d, "status")
    BY <1>18 DEF RunLoop, At, Menu, Dialog, Call, CallRecord, Functions, Kinds
  <2>3. PlainTypeOK'
    BY <1>4, <1>18, <2>1 DEF PlainTypeOK, RunLoop, Code
  <2>4. TermInv'
    BY <1>1, <1>2, <1>3, <1>4, <1>18, <2>1 DEF TermInv, RunLoop
  <2>5. ExitInv'
    BY <1>1, <1>2, <1>3, <1>4, <1>18, <2>1 DEF ExitInv, RunLoop
  <2> QED BY <2>3, <2>4, <2>5 DEF RestInv
<1>19. CASE RunDispatch
  <2>1. /\ Current.at = "status"
        /\ \E at \in {"confirmed", "loop", "overlaid"} :
             \E d \in CallRecord : Invoke(d, at)
    BY <1>19 DEF RunDispatch, At, Menu, Dialog, Call, CallRecord, Functions, Kinds
  <2>3. PlainTypeOK'
    BY <1>4, <1>19, <2>1 DEF PlainTypeOK, RunDispatch, Code
  <2>4. TermInv'
    BY <1>1, <1>2, <1>3, <1>4, <1>19, <2>1 DEF TermInv, RunDispatch
  <2>5. ExitInv'
    BY <1>1, <1>2, <1>3, <1>4, <1>19, <2>1 DEF ExitInv, RunDispatch
  <2> QED BY <2>3, <2>4, <2>5 DEF RestInv
<1>20. CASE RunOverlaid
  <2>1. /\ Current.at = "overlaid"
        /\ \/ \E d \in CallRecord : Invoke(d, "confirmed")
           \/ Goto("loop")
    BY <1>20 DEF RunOverlaid, At, Menu, Dialog, Call, CallRecord, Functions, Kinds
  <2>3. PlainTypeOK'
    BY <1>4, <1>20, <2>1 DEF PlainTypeOK, RunOverlaid, Code
  <2>4. TermInv'
    BY <1>1, <1>2, <1>3, <1>4, <1>20, <2>1 DEF TermInv, RunOverlaid
  <2>5. ExitInv'
    BY <1>1, <1>2, <1>3, <1>4, <1>20, <2>1 DEF ExitInv, RunOverlaid
  <2> QED BY <2>3, <2>4, <2>5 DEF RestInv
<1> QED BY <1>5, <1>6, <1>6a, <1>7, <1>8, <1>9, <1>10, <1>11, <1>11a,
              <1>12, <1>13, <1>14, <1>15, <1>16, <1>17, <1>18, <1>19, <1>20

LEMMA NextKeepsRest ==
  ASSUME CallsInv, RestInv, [Next]_vars
  PROVE  RestInv'
<1>1. CASE Ended \/ UNCHANGED vars
  <2>1. UNCHANGED <<calls, ret, dialog, rows, signalvars, termvars, err, yes>>
    BY <1>1 DEF Ended, vars
  <2> QED BY <2>1 DEF RestInv, PlainTypeOK, TermInv, ExitInv, Running, Leaving,
                      signalvars, termvars
<1>2. CASE SignalArrives
  <2>1. /\ UNCHANGED <<calls, ret, dialog, rows, curses, handlers, inited, err, yes>>
        /\ handlers # {} /\ woken' \in BOOLEAN
        /\ \E s \in handlers : pending' = s /\ delivered' = delivered \cup {s}
    BY <1>2 DEF SignalArrives, termvars, AtRead, At
  <2>2. PlainTypeOK'
    BY <2>1 DEF RestInv, PlainTypeOK
  <2>4. TermInv'
    <3>1. Running /\ Running'
      BY <2>1 DEF RestInv, TermInv, Running
    <3>2. handlers = {"SIGINT"} => pending' = "SIGINT"
      BY <2>1
    <3> QED BY <2>1, <3>1, <3>2 DEF RestInv, TermInv
  <2>3. ExitInv'
    <3>1. \E s \in Signal : pending' = s /\ delivered' = delivered \cup {s}
      BY <2>1 DEF RestInv, PlainTypeOK
    <3> QED BY <2>1, <3>1 DEF RestInv, ExitInv, Running, Leaving, Signal, NoSignal
  <2> QED BY <2>2, <2>3, <2>4 DEF RestInv
<1>3. CASE \/ TuiInitRefused \/ TuiInitCurses
           \/ InstallSigint \/ InstallSigintFails \/ InstallSigterm \/ InstallSigtermFails
           \/ TuiInitModes \/ TuiInitModesFail \/ RunOpen \/ RunOpenFails
           \/ RunLoop \/ RunDispatch \/ RunInterrupted \/ RunMenuFailed
           \/ RunOverlaid \/ RunConfirmed \/ RunPop \/ RunCleanup
  <2>1. Running /\ Current.fn = "run"
    BY <1>3 DEF At, Running, TuiInitRefused, TuiInitCurses, InstallSigint,
         InstallSigintFails, InstallSigterm, InstallSigtermFails, TuiInitModes, TuiInitModesFail, RunOpen, RunOpenFails,
         RunLoop, RunDispatch, RunInterrupted, RunMenuFailed, RunOverlaid, RunConfirmed,
         RunPop, RunCleanup
  <2> QED BY <1>3, <2>1, RunKeepsRest
<1>4. CASE \/ MenuNoMemory \/ MenuOpenOwned \/ MenuOpenCallers \/ MenuOpenFails
           \/ MenuCheck \/ MenuKey \/ MenuResize \/ MenuGone
  <2>1. Running /\ Current.fn = "menu"
    BY <1>4 DEF At, Running, MenuNoMemory, MenuOpenOwned, MenuOpenCallers, MenuOpenFails,
         MenuCheck, MenuKey, MenuResize, MenuGone
  <2> QED BY <1>4, <2>1, MenuInnerStep, InnerStepKeepsRest DEF RestInv
<1>5. CASE EnterRead \/ ReadInterrupted \/ ReadOtherKey
  <2>1. Running /\ Current.fn \in {"menu", "dialog"}
    BY <1>5 DEF AtRead, At, Running, EnterRead, ReadInterrupted, ReadOtherKey
  <2> QED BY <1>5, <2>1, MenuInnerStep, DialogInnerStep, InnerStepKeepsRest DEF RestInv
<1>6. CASE DialogOpen \/ DialogOpenFails \/ DialogCheck \/ DialogKey \/ DialogResize
  <2>1. Running /\ Current.fn = "dialog"
    BY <1>6 DEF At, Running, DialogOpen, DialogOpenFails, DialogCheck, DialogKey, DialogResize
  <2> QED BY <1>6, <2>1, DialogInnerStep, InnerStepKeepsRest DEF RestInv
<1>7. CASE \/ SettingsOpen \/ SettingsOpenFails \/ SettingsLoop \/ SettingsDispatch
           \/ OverlayLoop \/ OverlayDispatch \/ PromptAsk \/ PromptAsked
           \/ ProgressOpen \/ ProgressOpenFails \/ ProgressDone
  <2>1. Running /\ Current.fn \in {"settings", "overlay", "prompt", "progress"}
    BY <1>7 DEF At, Running, SettingsOpen, SettingsOpenFails, SettingsLoop, SettingsDispatch,
         OverlayLoop, OverlayDispatch, PromptAsk, PromptAsked, ProgressOpen,
         ProgressOpenFails, ProgressDone
  <2> QED BY <1>7, <2>1, ScreensInnerStep, InnerStepKeepsRest DEF RestInv
<1> QED BY <1>1, <1>2, <1>3, <1>4, <1>5, <1>6, <1>7 DEF Next, Program, User

LEMMA InitRest == ASSUME Init PROVE RestInv
<1>1. calls[1].at = "open" /\ calls # << >>
  BY DEF Init, Call
<1>2. PlainTypeOK
  BY HeightsAssumption DEF Init, PlainTypeOK, Results, Code, Signal, NoSignal
<1>3. TermInv
  <2>1. /\ Running /\ calls[1].at = "open" /\ pending = NoSignal
        /\ ~curses /\ handlers = {} /\ ~inited
    BY <1>1 DEF Init, Running
  <2> QED BY <2>1 DEF TermInv
<1>4. ExitInv
  BY <1>1 DEF Init, ExitInv, Leaving, Running
<1> QED BY <1>2, <1>3, <1>4 DEF RestInv

LEMMA RestAlways == Spec => [](WInv /\ RestInv)
<1>1. Init => RestInv
  BY InitRest
<1>2. WInv /\ RestInv /\ [Next]_vars => RestInv'
  BY NextKeepsRest, WInvScreens
<1> QED BY <1>1, <1>2, WindowsAlways, PTL DEF Spec

(* Every variable keeps its type: the background stack's depth never leaves
   the array, and every call is one of the functions the model knows. *)
THEOREM SessionTypeCorrect == Spec => []TypeOK
<1>1. WInv /\ RestInv => TypeOK
  BY DEF TypeOK, WInv, WindowsInv, CallsInv, RestInv, PlainTypeOK
<1> QED BY <1>1, RestAlways, PTL

(* A run that ends leaves the terminal, the signal handlers, the windows and
   the background stack as it found them, from whichever of its exits. *)
THEOREM NothingIsLeftBehind == Spec => []LeavesNothingBehind
<1>1. WInv /\ RestInv => LeavesNothingBehind
  <2> SUFFICES ASSUME WInv, RestInv, ~Running PROVE LeavesNothingBehind
    BY DEF LeavesNothingBehind
  <2>1. /\ ~curses /\ handlers = {} /\ ~inited
        /\ pending = NoSignal \/ (pending = "SIGINT" /\ err = "SIGNAL")
    BY DEF RestInv, TermInv
  <2>2. calls = << >>
    BY DEF Running
  <2>3. Len(frames) = 0 /\ dialog = NoWindow
    <3>1. Holders = {}
      BY <2>2 DEF Holders
    <3>2. Len(frames) = 0
      BY <3>1, FS_EmptySet DEF WInv, WindowsInv, HeldInv
    <3> QED BY <3>2 DEF WInv, WindowsInv, DialogInv
  <2>4. frames = << >>
    BY <2>3, EmptySeq DEF WInv, Screens!TypeOK
  <2>5. live = {}
    BY <2>3 DEF WInv, WindowsInv, FramesInv
  <2>6. Screens!BackgroundInit
    <3>1. /\ depth = 0 /\ background = NoWindow /\ STACK_MAX \in Nat
          /\ slot \in [0..STACK_MAX-1 -> Window \cup {NoWindow}]
          /\ \A k \in 0..STACK_MAX-1 : slot[k] = NoWindow
      BY <2>3, NestingAssumption
      DEF WInv, WindowsInv, ExactInv, Screens!TypeOK, Screens!BackgroundTypeOK,
          Screens!WindowOrNone, Screens!Slots, Screens!Frame
    <3> QED BY <3>1 DEF Screens!BackgroundInit, Screens!Slots
  <2> QED BY <2>1, <2>3, <2>4, <2>5, <2>6 DEF LeavesNothingBehind
<1> QED BY <1>1, RestAlways, PTL

(* Success is for a user who confirmed the exit, and a signal's code for a
   run the signal reached. *)
THEOREM ExitCodesAreEarned == Spec => []ExitCodeIsEarned
<1>1. WInv /\ RestInv => ExitCodeIsEarned
  BY DEF RestInv, ExitInv, ExitCodeIsEarned, Leaving
<1> QED BY <1>1, RestAlways, PTL
==============================================================================
