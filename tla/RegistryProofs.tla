---------------------------- MODULE RegistryProofs ----------------------------
(***************************************************************************)
(* The closure's order, what add leaves behind, that the walk is exact and *)
(* what a passed check promises, for every registry.                       *)
(***************************************************************************)
EXTENDS Registry, SequenceTheorems, WellFoundedInduction, TLAPS

Frames == [name : Names, next : Nat]

(* What the stages leave at rest. *)
Resting ==
  /\ stage # "walk" => wanted = NoName /\ visiting = << >>
  /\ stage \in {"idle", "report"} => seen = << >>

(* A call in progress is that of a known component, one at a time, not in the
   closure yet. *)
CallsDistinct ==
  /\ \A k \in 1..Len(visiting) :
       /\ Known(visiting[k].name) /\ visiting[k].name \notin Elements(seen)
       /\ visiting[k].next <= Len(Dependencies(visiting[k].name))
  /\ \A j, k \in 1..Len(visiting) : visiting[j].name = visiting[k].name => j = k

(* The m-th dependency of the k-th call is the one being dealt with. *)
Pending(k, m) ==
  /\ m = visiting[k].next
  /\ Dependencies(visiting[k].name)[m] =
       IF k = Len(visiting) THEN wanted ELSE visiting[k + 1].name

(* Every dependency handed down is in the closure, or being dealt with. *)
CallsComplete ==
  \A k \in 1..Len(visiting) : \A m \in 1..visiting[k].next :
    Dependencies(visiting[k].name)[m] \in Elements(seen) \/ Pending(k, m)

SeenKnown == \A i \in 1..Len(seen) : Known(seen[i])

WalkInv == Resting /\ CallsDistinct /\ CallsComplete /\ SeenKnown /\ DependenciesFirst

(* cmdAdd's and check's loops: where they stand, and when they run at all. *)
LoopsInv ==
  /\ stage \in {"idle", "report", "walk"} => unit = 1 /\ file = 1
  /\ stage \in {"idle", "report"} => nth = 1
  /\ stage # "idle" => outcome = "none"
  /\ stage = "report" => command = "check"
  /\ stage \in {"copy", "write"} => command \in {"add", "dry"}
  /\ stage = "write" => command = "add" /\ unit <= Len(seen) /\ file <= Len(Unit.files)
  /\ unit <= Len(seen) + 1
  /\ stage \in {"copy", "write"} /\ unit <= Len(seen) => file <= Len(Unit.files) + 1

(* The root is where the walk is about to go, where it came from, or done. *)
RootInv ==
  /\ stage = "walk" => root \in Names
  /\ stage = "walk" => \/ root \in Elements(seen)
                       \/ visiting # << >> /\ visiting[1].name = root
                       \/ visiting = << >> /\ wanted = root
  /\ stage \in {"copy", "write"} => root \in Elements(seen)

(* A file is there in full, or is being written again. *)
There(f) == dest[f] = "whole" \/ (stage = "write" /\ f = File)

(* The files add is done with: those of the units before, and this one's before. *)
Done ==
  {f \in Files : \/ \E i \in 1..unit-1 : f \in Elements(Find(seen[i]).files)
                 \/ unit <= Len(seen) /\ \E m \in 1..file-1 : f = Unit.files[m]}

CopyInv ==
  /\ stage = "write" => dest[File] # "absent"
  /\ stage \in {"copy", "write"} /\ command = "add" => \A f \in Done : There(f)

------------------------------------------------------------------------------
LEMMA LeastNatural ==
  ASSUME NEW T, T \subseteq Nat, T # {}
  PROVE  \E x \in T : \A y \in T : x <= y
<1>1. PICK x \in T : \A y \in T : <<y, x>> \notin OpToRel(<, Nat)
  BY WFMin, NatLessThanWellFounded, Zenon
<1>2. ASSUME NEW y \in T PROVE x <= y
  <2>1. x \in Nat /\ y \in Nat
    OBVIOUS
  <2>2. ~(y < x)
    BY <1>1, <2>1 DEF OpToRel
  <2> QED
    BY <2>1, <2>2
<1> QED
  BY <1>2

(* findComponent finds a component of that name. *)
LEMMA FindComponent ==
  ASSUME reg \in Seq(Components), NEW n, Known(n)
  PROVE  /\ Find(n) \in Components /\ Find(n).name = n
         /\ Dependencies(n) \in Seq(Names) /\ Len(Dependencies(n)) \in Nat
         /\ Find(n).files \in Seq(Files) /\ Len(Find(n).files) \in Nat
         /\ \E k \in 1..Len(reg) : Find(n) = reg[k]
<1> DEFINE T == {k \in 1..Len(reg) : reg[k].name = n}
<1>1. T \subseteq Nat /\ T # {}
  BY DEF Known
<1>2. PICK k \in T : \A j \in T : k <= j
  BY <1>1, LeastNatural
<1> DEFINE First(i) == reg[i].name = n /\ \A j \in 1..Len(reg) : reg[j].name = n => i <= j
<1>3. k \in 1..Len(reg) /\ First(k)
  BY <1>2
<1> DEFINE i == CHOOSE i \in 1..Len(reg) : First(i)
<1>4. i \in 1..Len(reg) /\ First(i)
  BY <1>3
<1>5. Find(n) = reg[i]
  BY DEF Find
<1> HIDE DEF i
<1>6. Find(n) \in Components /\ Find(n).name = n
  BY <1>4, <1>5
<1> QED
  BY <1>4, <1>5, <1>6 DEF Components, Dependencies

(* Nothing changes the registry, and so the same components are found. *)
LEMMA RegistryStays ==
  ASSUME [Next]_vars
  PROVE  /\ reg' = reg /\ tree' = tree
         /\ \A n : Known(n)' <=> Known(n)
         /\ \A n : Find(n)' = Find(n) /\ Dependencies(n)' = Dependencies(n)
<1>1. reg' = reg /\ tree' = tree
  BY DEF Next, Start, StartCheck, Kill, Visit, NextDependency, Leave, InfoEnds,
         CopyBegins, CopyUnsafe, CopyDry, CopyFails, CopyOpens, CopyWrites,
         CopyBreaks, NextUnit, CopyEnds, CheckReports, CheckNext, vars
<1> QED
  BY <1>1 DEF Known, Find, Dependencies

------------------------------------------------------------------------------
(* What a step can do to the walk. *)
Ends == wanted' = NoName /\ visiting' = << >> /\ seen' = << >> /\ stage' = "idle"
Begins ==
  /\ wanted' \in Names /\ root' = wanted'
  /\ visiting' = << >> /\ seen' = << >> /\ stage' = "walk"
Returns ==
  /\ Calling /\ wanted \in Elements(seen)
  /\ wanted' = NoName /\ UNCHANGED <<visiting, seen, stage>>
Calls ==
  /\ Calling /\ wanted \notin Elements(seen) /\ wanted \notin InProgress /\ Known(wanted)
  /\ visiting' = Append(visiting, [name |-> wanted, next |-> 0])
  /\ wanted' = NoName /\ UNCHANGED <<seen, stage>>
Loops ==
  /\ Looping /\ Caller.next < Len(Dependencies(Caller.name))
  /\ visiting' = [visiting EXCEPT ![Len(visiting)].next = @ + 1]
  /\ wanted' = Dependencies(Caller.name)[Caller.next + 1]
  /\ UNCHANGED <<seen, stage>>
Leaves ==
  /\ Looping /\ Caller.next = Len(Dependencies(Caller.name))
  /\ visiting' = SubSeq(visiting, 1, Len(visiting) - 1)
  /\ seen' = Append(seen, Caller.name)
  /\ UNCHANGED <<wanted, stage>>
Rests ==
  /\ UNCHANGED walkvars
  /\ \/ stage = "idle" /\ stage' = "report"
     \/ Walked /\ stage' = "copy"
     \/ stage \in {"copy", "write"} /\ stage' \in {"copy", "write"}
     \/ stage' = stage

WalkStep ==
  Begins \/ (UNCHANGED root /\ (Ends \/ Returns \/ Calls \/ Loops \/ Leaves \/ Rests))

LEMMA Named ==
  ASSUME reg \in Seq(Components), NEW k \in 1..Len(reg)
  PROVE  reg[k].name \in Names
<1>1. reg[k] \in Components
  OBVIOUS
<1> QED
  BY <1>1 DEF Components

LEMMA WalkSteps == ASSUME Typed, [Next]_vars PROVE WalkStep
<1> USE DEF WalkStep
<1>1. CASE \E cmd \in {"info", "add", "dry"}, n \in Names : Start(cmd, n)
  BY <1>1 DEF Start, Walk, Begins
<1>2. CASE StartCheck
  BY <1>2 DEF StartCheck, Rests, walkvars
<1>3. CASE Kill \/ InfoEnds \/ CopyUnsafe \/ CopyFails \/ CopyBreaks \/ CopyEnds
  BY <1>3 DEF Kill, InfoEnds, CopyUnsafe, CopyFails, CopyBreaks, CopyEnds, End, Ends
<1>4. CASE Visit
  BY <1>4 DEF Visit, Return, Call, End, Ends, Returns, Calls
<1>5. CASE NextDependency \/ Leave
  BY <1>5 DEF NextDependency, Leave, Loops, Leaves
<1>6. CASE CopyBegins \/ CopyDry \/ CopyOpens \/ CopyWrites \/ NextUnit
  BY <1>6 DEF CopyBegins, CopyDry, CopyOpens, CopyWrites, NextUnit, Copying, Rests, walkvars
<1>7. CASE CheckReports
  <2>1. (\E n \in Names : Walk(n)) \/ ((\E r : End(r)) /\ UNCHANGED root)
    <3>1. CASE reg = << >> \/ \E k \in 1..Len(reg) : Problem(reg[k])
      BY <1>7, <3>1 DEF CheckReports
    <3>2. CASE reg # << >> /\ ~\E k \in 1..Len(reg) : Problem(reg[k])
      <4>1. reg[1].name \in Names
        BY <3>2, Named, EmptySeq DEF Typed
      <4> QED
        BY <1>7, <3>2, <4>1 DEF CheckReports
    <3> QED
      BY <3>1, <3>2
  <2> QED
    BY <2>1 DEF Walk, End, Begins, Ends
<1>8. CASE CheckNext
  <2>1. CASE nth = Len(reg)
    BY <1>8, <2>1 DEF CheckNext, End, Ends
  <2>2. CASE nth # Len(reg)
    <3>1. nth + 1 \in 1..Len(reg)
      BY <1>8, <2>2 DEF CheckNext, Walked, Typed
    <3>2. reg[nth + 1].name \in Names
      BY <3>1, Named DEF Typed
    <3> QED
      BY <1>8, <2>2, <3>2 DEF CheckNext, Walk, Begins
  <2> QED
    BY <2>1, <2>2
<1>9. CASE UNCHANGED vars
  BY <1>9 DEF vars, Rests, walkvars
<1> QED
  BY <1>1, <1>2, <1>3, <1>4, <1>5, <1>6, <1>7, <1>8, <1>9 DEF Next

------------------------------------------------------------------------------
LEMMA FreshWalk ==
  ASSUME [Next]_vars, visiting' = << >>, seen' = << >>,
         stage' # "walk" => wanted' = NoName
  PROVE  WalkInv'
  BY DEF WalkInv, Resting, CallsDistinct, CallsComplete, SeenKnown, DependenciesFirst

(* A dependency that a looping call has handed down is in the closure. *)
LEMMA HandedDown ==
  ASSUME Typed, WalkInv, Looping
  PROVE  /\ Len(visiting) \in Nat \ {0} /\ Caller \in Frames /\ Known(Caller.name)
         /\ Dependencies(Caller.name) \in Seq(Names)
         /\ \A m \in 1..Caller.next : Dependencies(Caller.name)[m] \in Elements(seen)
<1>1. visiting \in Seq(Frames) /\ visiting # << >>
  BY DEF Typed, Looping, Frames
<1>2. Len(visiting) \in Nat \ {0} /\ Caller \in Frames
  BY <1>1, EmptySeq DEF Caller
<1>3. Known(Caller.name) /\ Caller.next <= Len(Dependencies(Caller.name))
  BY <1>2 DEF WalkInv, CallsDistinct, Caller
<1>4. /\ Dependencies(Caller.name) \in Seq(Names)
      /\ Len(Dependencies(Caller.name)) \in Nat
  BY <1>3, FindComponent DEF Typed
<1>5. ASSUME NEW m \in 1..Caller.next
      PROVE  Dependencies(Caller.name)[m] \in Elements(seen)
  <2>1. Dependencies(Caller.name)[m] \in Names
    <3>1. m \in 1..Len(Dependencies(Caller.name))
      BY <1>2, <1>3, <1>4 DEF Frames
    <3> QED
      BY <1>4, <3>1
  <2>2. ~Pending(Len(visiting), m)
    BY <2>1, NamesAssumption DEF Pending, Looping, Caller
  <2> QED
    BY <1>2, <2>2 DEF WalkInv, CallsComplete, Caller
<1> QED
  BY <1>2, <1>3, <1>4, <1>5

LEMMA SeenStays ==
  ASSUME [Next]_vars, UNCHANGED seen, SeenKnown, DependenciesFirst
  PROVE  SeenKnown' /\ DependenciesFirst'
<1>1. reg' = reg
  BY RegistryStays
<1>2. SeenKnown'
  BY <1>1 DEF SeenKnown, Known
<1>3. \A i \in 1..Len(seen) : Dependencies(seen[i])' = Dependencies(seen[i])
  BY <1>1 DEF Dependencies, Find
<1>4. \A i \in 1..Len(seen) : Elements(Dependencies(seen[i]))'
                                 = Elements(Dependencies(seen[i]))
  BY <1>3 DEF Elements
<1>5. DependenciesFirst'
  BY <1>4 DEF DependenciesFirst
<1> QED
  BY <1>2, <1>5

LEMMA ReturnKeeps == ASSUME Typed, WalkInv, [Next]_vars, Returns PROVE WalkInv'
<1>1. CallsComplete'
  <2> SUFFICES ASSUME NEW k \in 1..Len(visiting), NEW m \in 1..visiting[k].next
               PROVE  Dependencies(visiting[k].name)[m] \in Elements(seen) \/ Pending(k, m)'
    BY RegistryStays DEF Returns, CallsComplete, Elements
  <2>1. Dependencies(visiting[k].name)[m] \in Elements(seen) \/ Pending(k, m)
    BY DEF WalkInv, CallsComplete
  <2>2. CASE Pending(k, m) /\ k = Len(visiting)
    BY <2>2 DEF Pending, Returns
  <2>3. CASE Pending(k, m) /\ k # Len(visiting)
    BY <2>3, RegistryStays DEF Pending, Returns
  <2> QED
    BY <2>1, <2>2, <2>3
<1>2. Resting'
  BY DEF Returns, Calling, Resting
<1>3. CallsDistinct'
  BY RegistryStays DEF Returns, WalkInv, CallsDistinct, Elements
<1>4. SeenKnown' /\ DependenciesFirst'
  BY SeenStays DEF Returns, WalkInv
<1> QED
  BY <1>1, <1>2, <1>3, <1>4 DEF WalkInv

LEMMA CallKeeps == ASSUME Typed, WalkInv, [Next]_vars, Calls PROVE WalkInv'
<1> DEFINE n == Len(visiting)
<1> DEFINE f == [name |-> wanted, next |-> 0]
<1>1. /\ visiting \in Seq(Frames) /\ n \in Nat /\ f \in Frames
      /\ wanted \in Names /\ Known(wanted)
  BY DEF Typed, Frames, Calls, Calling
<1>2. /\ Len(visiting') = n + 1 /\ visiting'[n + 1] = f
      /\ \A k \in 1..n : visiting'[k] = visiting[k]
  BY <1>1 DEF Calls
<1> HIDE DEF n, f
<1>3. CallsDistinct'
  <2>1. ASSUME NEW k \in 1..n+1
        PROVE  /\ Known(visiting'[k].name) /\ visiting'[k].name \notin Elements(seen)
               /\ visiting'[k].next <= Len(Dependencies(visiting'[k].name))
    <3>1. CASE k \in 1..n
      BY <1>2, <3>1 DEF WalkInv, CallsDistinct, n
    <3>2. CASE k = n + 1
      <4>1. visiting'[k].name = wanted /\ visiting'[k].next = 0
        BY <1>2, <3>2 DEF f
      <4>2. Len(Dependencies(wanted)) \in Nat
        BY <1>1, FindComponent DEF Typed
      <4> QED
        <5>1. Known(visiting'[k].name) /\ visiting'[k].name \notin Elements(seen)
          BY <1>1, <4>1 DEF Calls
        <5>2. visiting'[k].next <= Len(Dependencies(visiting'[k].name))
          BY <4>1, <4>2
        <5> QED
          BY <5>1, <5>2
    <3> QED
      BY <1>1, <3>1, <3>2
  <2>2. ASSUME NEW j \in 1..n+1, NEW k \in 1..n+1, visiting'[j].name = visiting'[k].name
        PROVE  j = k
    <3>1. \A i \in 1..n : visiting'[i].name # wanted
      BY <1>2 DEF Calls, InProgress, n
    <3>2. visiting'[n + 1].name = wanted
      BY <1>2 DEF f
    <3>3. CASE j = n + 1 \/ k = n + 1
      <4>1. j \notin 1..n /\ k \notin 1..n
        BY <2>2, <3>1, <3>2, <3>3
      <4> QED
        BY <1>1, <4>1
    <3>4. CASE j \in 1..n /\ k \in 1..n
      BY <1>2, <2>2, <3>4 DEF WalkInv, CallsDistinct, n
    <3> QED
      BY <1>1, <3>3, <3>4
  <2> QED
    BY <1>2, <2>1, <2>2, RegistryStays DEF CallsDistinct, Calls, Elements
<1>4. CallsComplete'
  <2> SUFFICES ASSUME NEW k \in 1..n+1, NEW m \in 1..visiting'[k].next
               PROVE  Dependencies(visiting'[k].name)[m] \in Elements(seen)
                        \/ Pending(k, m)'
    BY <1>2, RegistryStays DEF Calls, CallsComplete, Elements
  <2>1. k \in 1..n /\ visiting'[k] = visiting[k]
    <3>1. k # n + 1
      BY <1>2 DEF f
    <3> QED
      BY <1>1, <1>2, <3>1
  <2>2. Dependencies(visiting[k].name)[m] \in Elements(seen) \/ Pending(k, m)
    BY <2>1 DEF WalkInv, CallsComplete, n
  <2>3. CASE Pending(k, m) /\ k = n
    BY <1>1, <1>2, <2>1, <2>3, RegistryStays DEF Pending, n, f
  <2>4. CASE Pending(k, m) /\ k # n
    <3>1. k + 1 \in 1..n /\ k # n + 1
      BY <1>1, <2>1, <2>4
    <3> QED
      BY <1>2, <2>1, <2>4, <3>1, RegistryStays DEF Pending, n
  <2> QED
    BY <2>1, <2>2, <2>3, <2>4
<1>5. Resting'
  BY DEF Calls, Calling, Resting
<1>6. SeenKnown' /\ DependenciesFirst'
  BY SeenStays DEF Calls, WalkInv
<1> QED
  BY <1>3, <1>4, <1>5, <1>6 DEF WalkInv

LEMMA LoopKeeps == ASSUME Typed, WalkInv, [Next]_vars, Loops PROVE WalkInv'
<1> DEFINE n == Len(visiting)
<1>1. /\ visiting \in Seq(Frames) /\ n \in Nat \ {0} /\ Caller \in Frames
      /\ Caller = visiting[n]
      /\ Dependencies(Caller.name) \in Seq(Names)
      /\ \A m \in 1..Caller.next : Dependencies(Caller.name)[m] \in Elements(seen)
  BY HandedDown DEF Typed, Frames, Loops, Caller
<1>2. /\ Len(visiting') = n /\ visiting'[n].name = Caller.name
      /\ visiting'[n].next = Caller.next + 1
      /\ \A k \in 1..n : k # n => visiting'[k] = visiting[k]
  BY <1>1 DEF Loops, Frames
<1> HIDE DEF n
<1>3. \A k \in 1..n : visiting'[k].name = visiting[k].name
  BY <1>1, <1>2
<1>4. CallsDistinct'
  <2>1. ASSUME NEW k \in 1..n
        PROVE  visiting'[k].next <= Len(Dependencies(visiting'[k].name))
    <3>1. CASE k = n
      <4>1. Caller.next \in Nat /\ Len(Dependencies(Caller.name)) \in Nat
        BY <1>1 DEF Frames
      <4>2. Caller.next < Len(Dependencies(Caller.name))
        BY DEF Loops
      <4> QED
        BY <1>2, <3>1, <4>1, <4>2
    <3>2. CASE k # n
      BY <1>2, <3>2 DEF WalkInv, CallsDistinct, n
    <3> QED
      BY <3>1, <3>2
  <2>2. \A k \in 1..n : Known(visiting'[k].name) /\ visiting'[k].name \notin Elements(seen)
    BY <1>3 DEF WalkInv, CallsDistinct, n
  <2>3. \A j, k \in 1..n : visiting'[j].name = visiting'[k].name => j = k
    BY <1>3 DEF WalkInv, CallsDistinct, n
  <2> QED
    BY <1>2, <2>1, <2>2, <2>3, RegistryStays DEF CallsDistinct, Loops, Elements
<1>5. CallsComplete'
  <2> SUFFICES ASSUME NEW k \in 1..n, NEW m \in 1..visiting'[k].next
               PROVE  Dependencies(visiting'[k].name)[m] \in Elements(seen)
                        \/ Pending(k, m)'
    BY <1>2, RegistryStays DEF Loops, CallsComplete, Elements
  <2>1. CASE k = n
    <3>1. Caller.next \in Nat
      BY <1>1 DEF Frames
    <3>2. CASE m \in 1..Caller.next
      BY <1>1, <1>2, <2>1, <3>2
    <3>3. CASE m = Caller.next + 1
      BY <1>2, <2>1, <3>3, RegistryStays DEF Pending, Loops
    <3> QED
      BY <1>2, <2>1, <3>1, <3>2, <3>3
  <2>2. CASE k # n
    <3>1. visiting'[k] = visiting[k] /\ k + 1 \in 1..n
      BY <1>1, <1>2, <2>2
    <3>2. Dependencies(visiting[k].name)[m] \in Elements(seen) \/ Pending(k, m)
      BY <3>1 DEF WalkInv, CallsComplete, n
    <3>3. CASE Pending(k, m)
      BY <1>2, <1>3, <2>2, <3>1, <3>3, RegistryStays DEF Pending, n
    <3> QED
      BY <3>1, <3>2, <3>3
  <2> QED
    BY <2>1, <2>2
<1>6. Resting'
  BY DEF Loops, Looping, Resting
<1>7. SeenKnown' /\ DependenciesFirst'
  BY SeenStays DEF Loops, WalkInv
<1> QED
  BY <1>4, <1>5, <1>6, <1>7 DEF WalkInv

LEMMA LeaveKeeps == ASSUME Typed, WalkInv, [Next]_vars, Leaves PROVE WalkInv'
<1> DEFINE n == Len(visiting)
<1> DEFINE s == Len(seen)
<1> DEFINE c == Caller.name
<1>1. /\ visiting \in Seq(Frames) /\ n \in Nat \ {0} /\ Caller \in Frames
      /\ Caller = visiting[n] /\ Known(c)
      /\ Dependencies(c) \in Seq(Names)
      /\ \A m \in 1..Caller.next : Dependencies(c)[m] \in Elements(seen)
  BY HandedDown DEF Typed, Frames, Leaves, Caller
<1>2. /\ Len(visiting') = n - 1
      /\ \A k \in 1..n-1 : visiting'[k] = visiting[k]
  <2>1. visiting' = SubSeq(visiting, 1, n - 1)
    BY DEF Leaves
  <2>2. 1 \in 1..n+1 /\ n - 1 \in 0..n
    BY <1>1
  <2> HIDE DEF n
  <2>3. /\ Len(visiting') = n - 1
        /\ \A k \in 1..n-1 : visiting'[k] = visiting[1 + k - 1]
    <3>1. CASE n = 1
      BY <1>1, <2>1, <3>1 DEF n
    <3>2. CASE n > 1
      BY <1>1, <2>1, <3>2 DEF n
    <3> QED
      BY <1>1, <3>1, <3>2
  <2> QED
    BY <1>1, <2>3
<1>3. /\ seen \in Seq(Names) /\ s \in Nat /\ c \in Names
      /\ Len(seen') = s + 1 /\ seen'[s + 1] = c
      /\ \A i \in 1..s : seen'[i] = seen[i]
  BY <1>1 DEF Leaves, Typed, Frames
<1>4. c \notin Elements(seen) /\ \A k \in 1..n-1 : visiting[k].name # c
  <2>1. n \in 1..n /\ \A k \in 1..n-1 : k \in 1..n /\ k # n
    BY <1>1
  <2> QED
    BY <1>1, <2>1 DEF WalkInv, CallsDistinct
<1> HIDE DEF n, s, c
<1>5. Elements(seen)' = Elements(seen) \cup {c}
  <2>1. 1..s+1 = (1..s) \cup {s + 1}
    BY <1>3
  <2> QED
    BY <1>3, <2>1 DEF Elements, s
<1>6. CallsDistinct'
  <2>1. \A k \in 1..n-1 : k \in 1..n
    BY <1>1
  <2>2. \A k \in 1..n-1 : /\ Known(visiting'[k].name) /\ visiting'[k].name \notin Elements(seen)'
                          /\ visiting'[k].next <= Len(Dependencies(visiting'[k].name))
    BY <1>2, <1>4, <1>5, <2>1 DEF WalkInv, CallsDistinct, n
  <2>3. \A j, k \in 1..n-1 : visiting'[j].name = visiting'[k].name => j = k
    BY <1>2, <2>1 DEF WalkInv, CallsDistinct, n
  <2> QED
    BY <1>2, <2>2, <2>3, RegistryStays DEF CallsDistinct
<1>7. CallsComplete'
  <2> SUFFICES ASSUME NEW k \in 1..n-1, NEW m \in 1..visiting'[k].next
               PROVE  Dependencies(visiting'[k].name)[m] \in Elements(seen)'
                        \/ Pending(k, m)'
    BY <1>2, RegistryStays DEF CallsComplete
  <2>1. visiting'[k] = visiting[k] /\ k \in 1..n /\ k # n
    BY <1>1, <1>2
  <2>2. Dependencies(visiting[k].name)[m] \in Elements(seen) \/ Pending(k, m)
    BY <2>1 DEF WalkInv, CallsComplete, n
  <2>3. CASE Pending(k, m) /\ k = n - 1
    <3>1. Dependencies(visiting[k].name)[m] = visiting[k + 1].name
      BY <2>1, <2>3 DEF Pending, n
    <3>2. k + 1 = n
      BY <1>1, <2>3
    <3> QED
      BY <1>1, <1>5, <2>1, <3>1, <3>2 DEF c
  <2>4. CASE Pending(k, m) /\ k # n - 1
    <3>1. k + 1 \in 1..n-1
      BY <1>1, <2>4
    <3> QED
      BY <1>2, <2>1, <2>4, <3>1, RegistryStays DEF Pending, n
  <2> QED
    BY <1>5, <2>1, <2>2, <2>3, <2>4
<1>8. Resting'
  BY DEF Leaves, Looping, Resting
<1>9. SeenKnown'
  BY <1>1, <1>3, RegistryStays DEF SeenKnown, WalkInv, s
<1>10. DependenciesFirst'
  <2>1. ASSUME NEW i \in 1..s+1, NEW j \in 1..s+1, seen'[i] = seen'[j] PROVE i = j
    <3>1. \A k \in 1..s : seen'[k] # c
      BY <1>3, <1>4 DEF Elements, s
    <3>2. CASE i \in 1..s /\ j \in 1..s
      BY <1>3, <2>1, <3>2 DEF WalkInv, DependenciesFirst, s
    <3>3. CASE i = s + 1 \/ j = s + 1
      <4>1. i \notin 1..s /\ j \notin 1..s
        BY <1>3, <2>1, <3>1, <3>3
      <4> QED
        BY <1>3, <4>1
    <3> QED
      BY <1>3, <3>2, <3>3
  <2>2. ASSUME NEW i \in 1..s+1, NEW d \in Elements(Dependencies(seen'[i]))
        PROVE  \E j \in 1..i-1 : seen'[j] = d
    <3>1. CASE i \in 1..s
      <4>1. PICK j \in 1..i-1 : seen[j] = d
        BY <1>3, <2>2, <3>1 DEF WalkInv, DependenciesFirst, s
      <4>2. j \in 1..s
        BY <1>3, <3>1
      <4> QED
        BY <1>3, <4>1, <4>2
    <3>2. CASE i = s + 1
      <4>1. d \in Elements(Dependencies(c))
        BY <1>3, <2>2, <3>2
      <4>2. Caller.next = Len(Dependencies(c))
        BY DEF Leaves, c
      <4>3. d \in Elements(seen)
        BY <1>1, <4>1, <4>2 DEF Elements
      <4>4. PICK j \in 1..s : seen[j] = d
        BY <4>3 DEF Elements, s
      <4>5. j \in 1..i-1
        BY <1>3, <3>2
      <4> QED
        BY <1>3, <4>4, <4>5
    <3> QED
      BY <1>3, <3>1, <3>2
  <2>3. \A i \in 1..s+1 : Dependencies(seen'[i]) = Dependencies(seen[i])'
    BY RegistryStays DEF Dependencies, Find
  <2>4. \A i \in 1..s+1 : Elements(Dependencies(seen[i]))' = Elements(Dependencies(seen'[i]))
    BY <2>3 DEF Elements
  <2> QED
    BY <1>3, <2>1, <2>2, <2>4 DEF DependenciesFirst
<1> QED
  BY <1>6, <1>7, <1>8, <1>9, <1>10 DEF WalkInv

LEMMA RestsKeeps == ASSUME Typed, WalkInv, [Next]_vars, Rests PROVE WalkInv'
<1>1. UNCHANGED <<wanted, visiting, seen>>
  BY DEF Rests, walkvars
<1>2. Resting'
  BY <1>1, Zenon DEF Rests, Resting, WalkInv, Walked
<1>3. CallsDistinct'
  BY <1>1, RegistryStays DEF WalkInv, CallsDistinct, Elements
<1>4. CallsComplete'
  BY <1>1, RegistryStays DEF WalkInv, CallsComplete, Pending, Elements
<1>5. SeenKnown' /\ DependenciesFirst'
  BY <1>1, SeenStays DEF WalkInv
<1> QED
  BY <1>2, <1>3, <1>4, <1>5 DEF WalkInv

LEMMA WalkKeeps == ASSUME Typed, WalkInv, [Next]_vars PROVE WalkInv'
<1>1. CASE Ends \/ Begins
  BY <1>1, FreshWalk DEF Ends, Begins
<1> QED
  BY <1>1, WalkSteps, ReturnKeeps, CallKeeps, LoopKeeps, LeaveKeeps, RestsKeeps DEF WalkStep

------------------------------------------------------------------------------
(* The file that is dealt with is one of the registry's. *)
LEMMA FileInUnit ==
  ASSUME Typed, WalkInv, unit <= Len(seen)
  PROVE  /\ unit \in 1..Len(seen) /\ seen[unit] \in Names /\ Known(seen[unit])
         /\ Unit.files \in Seq(Files) /\ Len(Unit.files) \in Nat
         /\ file <= Len(Unit.files) => File \in Elements(Unit.files) /\ File \in Files
<1>1. unit \in 1..Len(seen) /\ seen[unit] \in Names
  BY DEF Typed
<1>2. Known(seen[unit])
  BY <1>1 DEF WalkInv, SeenKnown
<1>3. Unit.files \in Seq(Files) /\ Len(Unit.files) \in Nat
  BY <1>2, FindComponent DEF Unit, Typed
<1>4. file <= Len(Unit.files) => file \in 1..Len(Unit.files)
  BY <1>3 DEF Typed
<1> QED
  BY <1>1, <1>2, <1>3, <1>4 DEF File, Elements

LEMMA EndTyped ==
  ASSUME Typed, NEW r \in {"ok", "killed", "cycle", "unknown", "unsafe", "missing", "io",
                           "problems"},
         End(r), UNCHANGED <<reg, tree, dest, command, root>>, checked' \in BOOLEAN
  PROVE  Typed'
<1>1. << >> \in Seq(Names) /\ << >> \in Seq(Frames)
  OBVIOUS
<1>2. visiting' \in Seq(Frames) /\ seen' \in Seq(Names)
  BY <1>1 DEF End
<1>3. /\ outcome' \in {"none", "ok", "killed", "cycle", "unknown", "unsafe", "missing",
                       "io", "problems"}
      /\ stage' = "idle" /\ nth' = 1 /\ unit' = 1 /\ file' = 1 /\ wanted' = NoName
  BY DEF End
<1> QED
  BY <1>2, <1>3 DEF Typed, Frames

LEMMA TypedKept == ASSUME Typed, WalkInv, LoopsInv, [Next]_vars PROVE Typed'
<1>1. ASSUME NEW cmd \in {"info", "add", "dry"}, NEW n \in Names, Start(cmd, n) PROVE Typed'
  BY <1>1 DEF Start, Walk, Typed, copyvars
<1>2. CASE StartCheck
  BY <1>2 DEF StartCheck, Typed, walkvars, copyvars
<1>3. CASE Kill \/ InfoEnds \/ CopyUnsafe \/ CopyBreaks \/ CopyEnds
  <2>1. \E r \in {"ok", "killed", "unsafe", "io"} : End(r)
    BY <1>3 DEF Kill, InfoEnds, CopyUnsafe, CopyBreaks, CopyEnds
  <2>2. UNCHANGED <<reg, tree, dest, command, root>> /\ checked' = checked
    BY <1>3 DEF Kill, InfoEnds, CopyUnsafe, CopyBreaks, CopyEnds
  <2> QED
    BY <2>1, <2>2, EndTyped DEF Typed
<1>4. CASE CopyFails
  BY <1>4, EndTyped DEF CopyFails, Typed
<1>5. CASE Visit
  <2>1. CASE Call
    <3>1. [name |-> wanted, next |-> 0] \in Frames
      BY <1>5 DEF Visit, Calling, Typed, Frames
    <3>2. visiting' \in Seq(Frames)
      BY <2>1, <3>1 DEF Call, Typed, Frames
    <3> QED
      BY <1>5, <2>1, <3>2 DEF Visit, Call, Typed, copyvars, Frames
  <2>2. CASE Return
    BY <1>5, <2>2 DEF Visit, Return, Typed, copyvars
  <2>3. CASE \E r \in {"cycle", "unknown"} : End(r)
    BY <1>5, <2>3, EndTyped DEF Visit, Typed
  <2> QED
    BY <1>5, <2>1, <2>2, <2>3 DEF Visit
<1>6. CASE NextDependency
  <2>1. /\ visiting \in Seq(Frames) /\ Len(visiting) \in Nat \ {0} /\ Caller \in Frames
        /\ Dependencies(Caller.name) \in Seq(Names)
    BY <1>6, HandedDown DEF NextDependency, Typed, Frames
  <2>2. [Caller EXCEPT !.next = @ + 1] \in Frames
    <3>1. Caller.next + 1 \in Nat
      BY <2>1 DEF Frames
    <3> QED
      BY <2>1, <3>1, Zenon DEF Frames
  <2>3. visiting' \in Seq(Frames)
    BY <1>6, <2>1, <2>2 DEF NextDependency, Caller
  <2>4. wanted' \in Names
    <3>1. Caller.next + 1 \in 1..Len(Dependencies(Caller.name))
      BY <1>6, <2>1 DEF NextDependency, Frames
    <3> QED
      BY <1>6, <2>1, <3>1 DEF NextDependency
  <2> QED
    BY <1>6, <2>3, <2>4 DEF NextDependency, Typed, copyvars, Frames
<1>7. CASE Leave
  <2>1. visiting \in Seq(Frames) /\ Len(visiting) \in Nat \ {0} /\ Caller \in Frames
    BY <1>7, HandedDown DEF Leave, Typed, Frames
  <2>2. visiting' \in Seq(Frames) /\ seen' \in Seq(Names)
    <3>1. \A k \in 1..Len(visiting)-1 : visiting[k] \in Frames
      BY <2>1
    <3>2. SubSeq(visiting, 1, Len(visiting) - 1) \in Seq(Frames)
      BY <2>1, <3>1, SubSeqProperties
    <3>3. Caller.name \in Names
      BY <2>1 DEF Frames
    <3> QED
      BY <1>7, <3>2, <3>3 DEF Leave, Typed
  <2> QED
    BY <1>7, <2>2 DEF Leave, Typed, copyvars, Frames
<1>8. CASE CopyBegins
  BY <1>8 DEF CopyBegins, Typed, walkvars, copyvars
<1>9. CASE CopyDry \/ NextUnit
  BY <1>9 DEF CopyDry, NextUnit, Typed, walkvars
<1>10. CASE CopyOpens
  BY <1>10 DEF CopyOpens, Typed, walkvars, copyvars
<1>11. CASE CopyWrites
  <2>1. file' \in Nat \ {0}
    BY <1>11 DEF CopyWrites, Typed
  <2>2. dest' \in [Files -> {"absent", "partial", "whole"}]
    BY <1>11 DEF CopyWrites, Typed
  <2> QED
    BY <1>11, <2>1, <2>2 DEF CopyWrites, Typed, walkvars
<1>12. CASE CheckReports
  <2>1. CASE reg # << >> /\ ~\E k \in 1..Len(reg) : Problem(reg[k])
    <3>1. 1 \in 1..Len(reg)
      BY <2>1, EmptySeq DEF Typed
    <3>2. reg[1].name \in Names
      BY <3>1, Named DEF Typed
    <3>3. nth = 1
      BY <1>12 DEF CheckReports, LoopsInv
    <3> QED
      BY <1>12, <2>1, <3>1, <3>2, <3>3 DEF CheckReports, Walk, Typed, copyvars
  <2>2. CASE reg = << >> \/ \E k \in 1..Len(reg) : Problem(reg[k])
    <3>1. (\E r \in {"problems", "ok"} : End(r)) /\ checked' \in BOOLEAN /\ root' = root
      BY <1>12, <2>2 DEF CheckReports, Typed
    <3> QED
      BY <1>12, <3>1, EndTyped DEF CheckReports
  <2> QED
    BY <2>1, <2>2
<1>13. CASE CheckNext
  <2>1. CASE nth = Len(reg)
    BY <1>13, <2>1, EndTyped DEF CheckNext
  <2>2. CASE nth # Len(reg)
    <3>1. nth + 1 \in 1..Len(reg)
      BY <1>13, <2>2 DEF CheckNext, Walked, Typed
    <3>2. reg[nth + 1].name \in Names
      BY <3>1, Named DEF Typed
    <3>3. << >> \in Seq(Names) /\ << >> \in Seq(Frames)
      OBVIOUS
    <3>4. visiting' \in Seq(Frames) /\ seen' \in Seq(Names) /\ wanted' \in Names /\ root' \in Names
      BY <1>13, <2>2, <3>2, <3>3 DEF CheckNext, Walk
    <3>5. /\ stage' = "walk" /\ nth' \in Nat \ {0} /\ nth' <= Len(reg')
          /\ UNCHANGED <<reg, tree, dest, command, copyvars, outcome, checked>>
      BY <1>13, <2>2, <3>1 DEF CheckNext, Walk
    <3> QED
      BY <3>4, <3>5 DEF Typed, copyvars, Frames
  <2> QED
    BY <2>1, <2>2
<1>14. CASE UNCHANGED vars
  BY <1>14 DEF vars, Typed, walkvars, copyvars
<1> QED
  BY <1>1, <1>2, <1>3, <1>4, <1>5, <1>6, <1>7, <1>8, <1>9, <1>10, <1>11, <1>12, <1>13,
     <1>14 DEF Next

(* The loops stand at their beginning. *)
LEMMA LoopsFresh ==
  ASSUME unit' = 1, file' = 1, Len(seen') \in Nat, stage' \in {"idle", "report", "walk"},
         stage' # "walk" => nth' = 1, stage' # "idle" => outcome' = "none",
         stage' = "report" => command' = "check"
  PROVE  LoopsInv'
  BY DEF LoopsInv

LEMMA LoopsKept ==
  ASSUME Typed, WalkInv, LoopsInv, [Next]_vars
  PROVE  LoopsInv'
<1>1. /\ Len(seen) \in Nat /\ reg' = reg /\ unit \in Nat /\ file \in Nat
      /\ \A n : Find(n)' = Find(n)
  BY RegistryStays DEF Typed
<1>2. Len(seen') \in Nat
  BY TypedKept DEF Typed
<1>3. \A i \in 1..Len(seen) : Len(Find(seen[i]).files) \in Nat
  BY FindComponent DEF Typed, WalkInv, SeenKnown
<1>4. ASSUME NEW cmd \in {"info", "add", "dry"}, NEW n \in Names, Start(cmd, n)
      PROVE  LoopsInv'
  BY <1>2, <1>4, LoopsFresh DEF Start, Walk, LoopsInv, copyvars
<1>5. CASE StartCheck
  BY <1>2, <1>5, LoopsFresh DEF StartCheck, LoopsInv, copyvars
<1>6. ASSUME NEW r, End(r) PROVE LoopsInv'
  BY <1>2, <1>6, LoopsFresh DEF End
<1>7. CASE Kill \/ InfoEnds \/ CopyUnsafe \/ CopyFails \/ CopyBreaks \/ CopyEnds
  <2>1. \E r : End(r)
    BY <1>7 DEF Kill, InfoEnds, CopyUnsafe, CopyFails, CopyBreaks, CopyEnds
  <2> QED
    BY <1>6, <2>1
<1>8. CASE Visit \/ NextDependency \/ Leave
  <2>1. \/ \E r : End(r)
        \/ stage = "walk" /\ UNCHANGED <<stage, nth, copyvars, outcome>>
    BY <1>8 DEF Visit, NextDependency, Leave, Return, Call, Calling, Looping
  <2> QED
    BY <1>2, <1>6, <2>1, LoopsFresh DEF LoopsInv, copyvars
<1>9. CASE CopyBegins
  <2>1. seen # << >> => 1 \in 1..Len(seen)
    BY <1>1, EmptySeq DEF Typed
  <2>2. /\ unit' = 1 /\ file' = 1 /\ seen' = seen /\ stage' = "copy" /\ stage = "walk"
        /\ command' \in {"add", "dry"} /\ outcome' = outcome
    BY <1>9 DEF CopyBegins, Walked, LoopsInv, copyvars, walkvars
  <2>3. unit' <= Len(seen') => Len(Unit'.files) \in Nat
    <3>1. Unit' = Find(seen'[unit'])
      BY <1>1 DEF Unit, Find
    <3> QED
      BY <1>1, <1>3, <2>2, <3>1
  <2> QED
    BY <1>1, <2>2, <2>3 DEF LoopsInv
<1>10. CASE CopyDry \/ CopyOpens \/ CopyWrites
  <2>1. unit \in 1..Len(seen)
    BY <1>1, <1>10 DEF CopyDry, CopyOpens, CopyWrites, Copying, LoopsInv, Typed
  <2>2. /\ seen' = seen /\ unit' = unit /\ stage' \in {"copy", "write"}
        /\ command' = command /\ outcome' = outcome
        /\ stage \in {"copy", "write"}
    BY <1>10 DEF CopyDry, CopyOpens, CopyWrites, Copying, walkvars, copyvars
  <2>3. Unit'.files = Unit.files /\ Len(Unit.files) \in Nat
    BY <1>1, <1>3, <2>1, <2>2 DEF Unit, Find
  <2>4. file <= Len(Unit.files) /\ file' \in {file, file + 1}
    BY <1>10 DEF CopyDry, CopyOpens, CopyWrites, Copying, LoopsInv, copyvars
  <2>5. stage' = "write" => command = "add" /\ file' = file
    BY <1>10 DEF CopyDry, CopyOpens, CopyWrites, Copying, copyvars
  <2> QED
    BY <1>1, <2>1, <2>2, <2>3, <2>4, <2>5 DEF LoopsInv
<1>11. CASE NextUnit
  <2>1. /\ unit' = unit + 1 /\ file' = 1 /\ seen' = seen /\ stage' = "copy" /\ stage = "copy"
        /\ command' = command /\ outcome' = outcome /\ unit <= Len(seen)
    BY <1>11 DEF NextUnit, Copying, walkvars
  <2>2. unit' <= Len(seen') => Len(Unit'.files) \in Nat
    <3>1. Unit' = Find(seen'[unit'])
      BY <1>1 DEF Unit, Find
    <3> QED
      BY <1>1, <1>3, <2>1, <3>1
  <2> QED
    BY <1>1, <2>1, <2>2 DEF LoopsInv
<1>12. CASE CheckReports \/ CheckNext
  <2>1. \/ \E r : End(r)
        \/ /\ \E n : Walk(n)
           /\ stage # "idle" /\ UNCHANGED <<copyvars, outcome>>
           /\ stage \in {"report", "walk"}
    BY <1>12 DEF CheckReports, CheckNext, Walked
  <2> QED
    BY <1>2, <1>6, <2>1, LoopsFresh DEF LoopsInv, copyvars, Walk
<1>13. CASE UNCHANGED vars
  <2>1. Unit' = Unit
    BY <1>1, <1>13 DEF Unit, Find, vars, walkvars, copyvars
  <2> QED
    BY <1>13, <2>1 DEF LoopsInv, vars, walkvars, copyvars
<1> QED
  BY <1>4, <1>5, <1>7, <1>8, <1>9, <1>10, <1>11, <1>12, <1>13 DEF Next

------------------------------------------------------------------------------
Inv == Typed /\ WalkInv /\ LoopsInv

LEMMA Initially == Init => Inv
<1> SUFFICES ASSUME Init PROVE Inv
  OBVIOUS
<1>1. << >> \in Seq(Names) /\ << >> \in Seq(Frames) /\ Len(<< >>) = 0
  OBVIOUS
<1>2. Typed
  <2>1. /\ reg \in Seq(Components) /\ tree \in SUBSET Files
        /\ dest \in [Files -> {"absent", "partial", "whole"}]
    BY RegistriesAssumption DEF Init
  <2>2. visiting \in Seq(Frames) /\ seen \in Seq(Names)
    BY <1>1 DEF Init
  <2>3. checked \in BOOLEAN
    BY DEF Init
  <2> QED
    BY <2>1, <2>2, <2>3 DEF Init, Typed, Frames
<1>3. WalkInv
  BY <1>1 DEF Init, WalkInv, Resting, CallsDistinct, CallsComplete, SeenKnown, DependenciesFirst
<1>4. LoopsInv
  BY <1>1 DEF Init, LoopsInv
<1> QED
  BY <1>2, <1>3, <1>4 DEF Inv

LEMMA Inductive == Inv /\ [Next]_vars => Inv'
  BY TypedKept, WalkKeeps, LoopsKept DEF Inv

(* The loops of add and of check stay within the lists they go through. *)
THEOREM TypeCorrect == Spec => []TypeOK
<1>1. Inv => TypeOK
  BY DEF Inv, TypeOK, LoopsInv
<1> QED
  BY <1>1, Initially, Inductive, PTL DEF Spec

(* addClosure puts every component after all those it depends on, once, for
   any registry: also one with cycles, or a name used twice. *)
THEOREM ClosureOrder == Spec => []DependenciesFirst
<1>1. Inv => DependenciesFirst
  BY DEF Inv, WalkInv
<1> QED
  BY <1>1, Initially, Inductive, PTL DEF Spec

------------------------------------------------------------------------------
LEMMA RootKept ==
  ASSUME Inv, RootInv, [Next]_vars
  PROVE  RootInv'
<1>1. /\ visiting \in Seq(Frames) /\ Len(visiting) \in Nat
      /\ visiting # << >> => Len(visiting) # 0
  BY EmptySeq DEF Inv, Typed, Frames
<1>2. CASE Begins
  BY <1>2 DEF Begins, RootInv
<1>3. CASE root' = root /\ Ends
  BY <1>3 DEF Ends, RootInv
<1>4. CASE root' = root /\ Returns
  BY <1>4 DEF Returns, Calling, RootInv, Elements
<1>5. CASE root' = root /\ Calls
  <2> DEFINE f == [name |-> wanted, next |-> 0]
  <2>1. f \in Frames /\ visiting' = Append(visiting, f) /\ f.name = wanted
    BY <1>5 DEF Calls, Calling, Inv, Typed, Frames
  <2> HIDE DEF f
  <2>2. Len(visiting') = Len(visiting) + 1
        /\ visiting'[Len(visiting) + 1] = f
        /\ \A k \in 1..Len(visiting) : visiting'[k] = visiting[k]
    BY <1>1, <2>1
  <2>3. visiting' # << >>
    BY <1>1, <2>2
  <2>4. CASE visiting = << >>
    BY <1>5, <2>1, <2>2, <2>3, <2>4, EmptySeq DEF Calls, Calling, RootInv, Elements
  <2>5. CASE visiting # << >>
    <3>1. visiting'[1] = visiting[1]
      BY <1>1, <2>2, <2>5
    <3> QED
      BY <1>5, <2>3, <2>5, <3>1 DEF Calls, Calling, RootInv, Elements
  <2> QED
    BY <2>4, <2>5
<1>6. CASE root' = root /\ Loops
  <2>1. Len(visiting) \in Nat \ {0} /\ Caller \in Frames
    BY <1>6, HandedDown DEF Loops, Inv
  <2>2. Len(visiting') = Len(visiting)
        /\ \A k \in 1..Len(visiting) : visiting'[k].name = visiting[k].name
    BY <1>1, <1>6, <2>1 DEF Loops, Frames
  <2>3. visiting' # << >> /\ visiting'[1].name = visiting[1].name
    BY <2>1, <2>2
  <2> QED
    BY <1>6, <2>3 DEF Loops, Looping, RootInv, Elements
<1>7. CASE root' = root /\ Leaves
  <2> DEFINE n == Len(visiting)
  <2>1. n \in Nat \ {0} /\ visiting' = SubSeq(visiting, 1, n - 1)
    BY <1>7, HandedDown DEF Leaves, Inv
  <2> HIDE DEF n
  <2>2. Elements(seen) \cup {Caller.name} \subseteq Elements(seen)'
    <3>1. /\ Len(seen) \in Nat /\ Len(seen') = Len(seen) + 1
          /\ seen'[Len(seen) + 1] = Caller.name
          /\ \A i \in 1..Len(seen) : seen'[i] = seen[i]
      <4>1. Caller.name \in Names
        BY <1>7, HandedDown DEF Leaves, Inv, Frames
      <4> QED
        BY <1>7, <4>1 DEF Leaves, Inv, Typed
    <3>2. 1..Len(seen) \subseteq 1..Len(seen') /\ Len(seen) + 1 \in 1..Len(seen')
      BY <3>1
    <3> QED
      BY <3>1, <3>2, Zenon DEF Elements
  <2>3. CASE n = 1
    BY <1>7, <2>1, <2>2, <2>3 DEF Leaves, Looping, RootInv, Caller, n
  <2>4. CASE n # 1
    <3>1. Len(visiting') = n - 1 /\ visiting'[1] = visiting[1]
      <4>1. \A k \in 1..n-1 : visiting[k] \in Frames
        BY <1>1 DEF n
      <4>2. /\ Len(visiting') = n - 1
            /\ \A k \in 1..n-1 : visiting'[k] = visiting[1 + k - 1]
        <5>1. 1 \in Int /\ n - 1 \in Int /\ 1 <= n - 1 /\ n - 1 - 1 + 1 = n - 1
          BY <2>1, <2>4
        <5> QED
          BY <2>1, <4>1, <5>1, SubSeqProperties
      <4> QED
        BY <2>1, <2>4, <4>2
    <3>2. visiting' # << >>
      <4>1. n - 1 # 0 /\ Len(<< >>) = 0
        BY <2>1, <2>4
      <4> QED
        BY <3>1, <4>1
    <3> QED
      BY <1>7, <2>2, <3>1, <3>2 DEF Leaves, Looping, RootInv
  <2> QED
    BY <2>3, <2>4
<1>8. CASE root' = root /\ Rests
  <2>1. UNCHANGED <<wanted, visiting, seen>>
    BY <1>8 DEF Rests, walkvars
  <2>2. Elements(seen)' = Elements(seen)
    BY <2>1 DEF Elements
  <2>3. Walked => root \in Elements(seen)
    BY NamesAssumption DEF Walked, RootInv
  <2> QED
    BY <1>8, <2>1, <2>2, <2>3 DEF Rests, RootInv, Walked
<1> QED
  BY <1>2, <1>3, <1>4, <1>5, <1>6, <1>7, <1>8, WalkSteps DEF WalkStep, Inv

(* The closure holds all that can be reached from the root. *)
LEMMA ClosureHolds ==
  ASSUME Typed, WalkInv, root \in Elements(seen)
  PROVE  Reachable(root) \subseteq Elements(seen)
<1>1. Elements(seen) \in SUBSET Names
  BY DEF Typed, Elements
<1>2. ASSUME NEW k \in Elements(seen) PROVE Elements(Dependencies(k)) \subseteq Elements(seen)
  <2>1. PICK i \in 1..Len(seen) : seen[i] = k
    BY DEF Elements
  <2>2. ASSUME NEW d \in Elements(Dependencies(k)) PROVE d \in Elements(seen)
    <3>1. PICK j \in 1..i-1 : seen[j] = d
      BY <2>1 DEF WalkInv, DependenciesFirst
    <3>2. j \in 1..Len(seen)
      BY <2>1 DEF Typed
    <3> QED
      BY <3>1, <3>2 DEF Elements
  <2> QED
    BY <2>2
<1> QED
  BY <1>1, <1>2, Zenon DEF Reachable

------------------------------------------------------------------------------
(* What a step does to the files: nothing, or it begins or ends writing one. *)
LEMMA DestSteps ==
  ASSUME Inv, [Next]_vars
  PROVE  dest' = dest \/ CopyOpens \/ CopyWrites
  BY DEF Next, Start, StartCheck, Kill, Visit, NextDependency, Leave, InfoEnds,
         CopyBegins, CopyUnsafe, CopyDry, CopyFails, CopyBreaks, NextUnit, CopyEnds,
         CheckReports, CheckNext, vars

(* The files of the closure are files. *)
LEMMA ClosureFiles ==
  ASSUME Inv
  PROVE  \A i \in 1..Len(seen) : Elements(Find(seen[i]).files) \subseteq Files
  BY FindComponent DEF Inv, Typed, WalkInv, SeenKnown, Elements

(* A copying step of the same walk. *)
Copies ==
  /\ stage \in {"copy", "write"} /\ stage' \in {"copy", "write"}
  /\ UNCHANGED <<seen, command>>

LEMMA CopySteps ==
  ASSUME Inv, [Next]_vars, stage' \in {"copy", "write"}
  PROVE  CopyBegins \/ (Copies /\ (CopyDry \/ CopyOpens \/ CopyWrites \/ NextUnit \/ UNCHANGED vars))
<1>1. ~ \E r : End(r)
  BY DEF End
<1>2. ~ \E n : Walk(n)
  BY DEF Walk
<1> QED
  BY <1>1, <1>2 DEF Next, Start, StartCheck, Kill, Visit, NextDependency, Leave, InfoEnds,
         CopyBegins, CopyUnsafe, CopyDry, CopyFails, CopyOpens, CopyWrites, CopyBreaks,
         NextUnit, CopyEnds, CheckReports, CheckNext, vars, Return, Call, Calling, Looping,
         Copies, Copying, walkvars

LEMMA CopyKept ==
  ASSUME Inv, CopyInv, [Next]_vars
  PROVE  CopyInv'
<1> SUFFICES ASSUME stage' \in {"copy", "write"} PROVE CopyInv'
  BY DEF CopyInv
<1>1. /\ Len(seen) \in Nat /\ unit \in Nat \ {0} /\ file \in Nat \ {0}
      /\ reg' = reg
  BY RegistryStays DEF Inv, Typed
<1>2. CASE CopyBegins
  <2>1. unit' = 1 /\ file' = 1 /\ stage' = "copy"
    BY <1>2 DEF CopyBegins, Inv, LoopsInv, Walked, copyvars
  <2>2. Done' = {}
    BY <2>1 DEF Done
  <2> QED
    BY <2>1, <2>2 DEF CopyInv
<1>3. CASE Copies /\ CopyDry
  BY <1>3 DEF CopyDry, CopyInv, Copying, Copies
<1>4. CASE Copies /\ (CopyOpens \/ CopyWrites)
  <2>1. /\ unit \in 1..Len(seen) /\ UNCHANGED <<seen, unit, command>> /\ command = "add"
        /\ file <= Len(Unit.files)
    BY <1>1, <1>4 DEF CopyOpens, CopyWrites, Copies, Copying, copyvars, walkvars, Inv, LoopsInv
  <2>2. Unit' = Unit
    BY <1>1, <2>1 DEF Unit, Find
  <2>3. File \in Files
    BY <2>1, FileInUnit DEF Inv
  <2>4. CASE CopyOpens
    <3>1. /\ stage = "copy" /\ stage' = "write" /\ file' = file
          /\ dest' = [dest EXCEPT ![File] = "partial"]
      BY <2>4 DEF CopyOpens, Copying, copyvars
    <3>2. File' = File
      BY <2>2, <3>1 DEF File
    <3>3. Done' = Done
      <4>1. \A i \in 1..unit-1 : Find(seen[i])' = Find(seen[i])
        BY <1>1, <2>1 DEF Find
      <4>2. \A i \in 1..unit-1 : Elements(Find(seen[i]).files)' = Elements(Find(seen[i]).files)
        BY <4>1 DEF Elements
      <4> QED
        BY <2>1, <2>2, <3>1, <4>2 DEF Done
    <3>4. \A f \in Done : There(f)'
      <4>1. \A f \in Done : There(f) /\ f \in Files
        BY <2>1, <3>1 DEF CopyInv, Done
      <4> QED
        BY <2>3, <3>1, <3>2, <4>1 DEF There, Inv, Typed
    <3>5. dest'[File'] # "absent"
      BY <2>3, <3>1, <3>2 DEF Inv, Typed
    <3> QED
      BY <3>3, <3>4, <3>5 DEF CopyInv
  <2>5. CASE CopyWrites
    <3>1. /\ stage = "write" /\ stage' = "copy" /\ file' = file + 1
          /\ dest' = [dest EXCEPT ![File] = "whole"]
      BY <2>5 DEF CopyWrites
    <3>2. Done' \subseteq Done \cup {File}
      <4>1. \A i \in 1..unit-1 : Find(seen[i])' = Find(seen[i])
        BY <1>1, <2>1 DEF Find
      <4>2. \A i \in 1..unit-1 : Elements(Find(seen[i]).files)' = Elements(Find(seen[i]).files)
        BY <4>1 DEF Elements
      <4>3. \A m \in 1..file : m \in 1..file-1 \/ Unit.files[m] = File
        BY <1>1 DEF File
      <4> QED
        BY <1>1, <2>1, <2>2, <3>1, <4>2, <4>3 DEF Done
    <3>3. \A f \in Done \cup {File} : dest'[f] = "whole"
      <4>1. \A f \in Done : There(f) /\ f \in Files
        BY <2>1, <3>1 DEF CopyInv, Done
      <4> QED
        BY <2>3, <3>1, <4>1 DEF There, Inv, Typed
    <3> QED
      BY <3>1, <3>2, <3>3 DEF CopyInv, There
  <2> QED
    BY <1>4, <2>4, <2>5
<1>5. CASE Copies /\ NextUnit
  <2>1. /\ unit \in 1..Len(seen) /\ UNCHANGED <<seen, dest, command>>
        /\ stage = "copy" /\ stage' = "copy"
        /\ file > Len(Unit.files) /\ unit' = unit + 1 /\ file' = 1
    BY <1>1, <1>5 DEF NextUnit, Copying, walkvars
  <2>2. Unit.files \in Seq(Files) /\ Len(Unit.files) \in Nat
    BY <2>1, FileInUnit DEF Inv
  <2>3. Done' \subseteq Done
    <3>1. \A i \in 1..unit : Find(seen[i])' = Find(seen[i])
      BY <1>1, <2>1 DEF Find
    <3>2. \A i \in 1..unit : Elements(Find(seen[i]).files)' = Elements(Find(seen[i]).files)
      BY <3>1 DEF Elements
    <3>3. \A f \in Elements(Unit.files) : \E m \in 1..file-1 : f = Unit.files[m]
      BY <1>1, <2>1, <2>2 DEF Elements
    <3>4. \A f \in Done' : \E i \in 1..unit : f \in Elements(Find(seen[i]).files)
      BY <1>1, <2>1, <3>2 DEF Done
    <3>5. \A i \in 1..unit : i \in 1..unit-1 \/ Find(seen[i]) = Unit
      BY <1>1 DEF Unit
    <3>6. ASSUME NEW f \in Done' PROVE f \in Done
      <4>1. PICK i \in 1..unit : f \in Elements(Find(seen[i]).files)
        BY <3>4
      <4>2. f \in Files
        BY DEF Done
      <4>3. CASE i \in 1..unit-1
        BY <4>1, <4>2, <4>3 DEF Done
      <4>4. CASE Find(seen[i]) = Unit
        BY <2>1, <3>3, <4>1, <4>2, <4>4 DEF Done
      <4> QED
        BY <3>5, <4>3, <4>4
    <3> QED
      BY <3>6
  <2> QED
    BY <2>1, <2>3 DEF CopyInv, There
<1>6. CASE UNCHANGED vars
  <2>1. Unit' = Unit /\ File' = File
    BY <1>1, <1>6 DEF Unit, File, Find, vars, walkvars, copyvars
  <2>2. \A i \in 1..unit-1 : Find(seen[i])' = Find(seen[i])
    BY <1>1, <1>6 DEF Find, vars, walkvars, copyvars
  <2>3. \A i \in 1..unit-1 : Elements(Find(seen[i]).files)' = Elements(Find(seen[i]).files)
    BY <2>2 DEF Elements
  <2>4. Done' = Done
    BY <1>6, <2>1, <2>3 DEF Done, vars, walkvars, copyvars
  <2> QED
    BY <1>6, <2>1, <2>4 DEF CopyInv, There, vars, walkvars, copyvars
<1> QED
  BY <1>2, <1>3, <1>4, <1>5, <1>6, CopySteps

------------------------------------------------------------------------------
(* What is left of a component is left with all it depends on.  Written for
   known dependencies, as a component that has files there has no others. *)
OwnInv ==
  \A n \in Names : Known(n) =>
    \A f \in Own(n) : dest[f] # "absent" =>
      \A d \in Elements(Dependencies(n)) :
        Known(d) /\ \A g \in Elements(Find(d).files) : dest[g] # "absent"

DoneInv ==
  command = "add" /\ outcome = "ok" =>
    \A n \in Reachable(root) : \A f \in Elements(Find(n).files) : dest[f] = "whole"

LEMMA OwnKept ==
  ASSUME Inv, CopyInv, OwnInv, [Next]_vars
  PROVE  OwnInv'
<1>1. /\ reg' = reg
      /\ \A n : (Known(n)' <=> Known(n)) /\ Dependencies(n)' = Dependencies(n) /\ Find(n)' = Find(n)
  BY RegistryStays
<1>2. \A n : /\ Elements(Dependencies(n))' = Elements(Dependencies(n))
             /\ Elements(Find(n).files)' = Elements(Find(n).files)
  BY <1>1 DEF Elements
<1>3. \A n : Own(n)' = Own(n)
  BY <1>1, <1>2, Zenon DEF Own
<1> SUFFICES ASSUME NEW n \in Names, Known(n), NEW f \in Own(n), dest'[f] # "absent",
                    NEW d \in Elements(Dependencies(n))
             PROVE  Known(d) /\ \A g \in Elements(Find(d).files) : dest'[g] # "absent"
  BY <1>1, <1>2, <1>3 DEF OwnInv
<1>4. CASE dest' = dest
  BY <1>4 DEF OwnInv
<1>5. CASE CopyOpens \/ CopyWrites
  <2>1. unit \in 1..Len(seen) /\ File \in Elements(Unit.files) /\ File \in Files
        /\ command = "add"
    BY <1>5, FileInUnit DEF Inv, CopyOpens, CopyWrites, Copying, LoopsInv
  <2>2. \E v \in {"partial", "whole"} : dest' = [dest EXCEPT ![File] = v]
    BY <1>5 DEF CopyOpens, CopyWrites
  <2>3. \A g \in Files : dest[g] # "absent" => dest'[g] # "absent"
    BY <2>2 DEF Inv, Typed
  <2>4. CASE dest[f] # "absent"
    <3>1. Known(d) /\ \A g \in Elements(Find(d).files) : dest[g] # "absent"
      BY <2>4 DEF OwnInv
    <3>2. Elements(Find(d).files) \subseteq Files
      BY <3>1, FindComponent DEF Inv, Typed, Elements
    <3> QED
      BY <2>3, <3>1, <3>2
  <2>5. CASE dest[f] = "absent"
    <3>1. f \in Files
      BY FindComponent DEF Own, Inv, Typed, Elements
    <3>2. f = File
      BY <2>1, <2>2, <2>5, <3>1 DEF Inv, Typed
    <3>3. CopyOpens
      BY <1>5, <2>5, <3>2 DEF CopyWrites, CopyInv
    <3>4. seen[unit] = n
      <4>1. seen[unit] \in Names /\ Known(seen[unit])
        BY <2>1, FileInUnit DEF Inv
      <4> QED
        BY <2>1, <3>2, <4>1 DEF Own, Unit
    <3>5. PICK j \in 1..unit-1 : seen[j] = d
      BY <2>1, <3>4 DEF Inv, WalkInv, DependenciesFirst
    <3>6. j \in 1..Len(seen)
      BY <2>1 DEF Inv, Typed
    <3>7. Known(d) /\ Elements(Find(d).files) \subseteq Files
      BY <3>5, <3>6, ClosureFiles DEF Inv, WalkInv, SeenKnown
    <3>8. ASSUME NEW g \in Elements(Find(d).files) PROVE dest[g] # "absent"
      <4>1. g \in Done
        BY <3>5, <3>7 DEF Done
      <4> QED
        BY <2>1, <3>3, <4>1 DEF CopyInv, There, CopyOpens, Copying
    <3> QED
      BY <2>3, <3>7, <3>8
  <2> QED
    BY <2>4, <2>5
<1> QED
  BY <1>4, <1>5, DestSteps

(* When the last command is over with "ok", or is not over. *)
LEMMA OutcomeSteps ==
  ASSUME Inv, [Next]_vars, command' = "add", outcome' = "ok"
  PROVE  CopyEnds \/ UNCHANGED vars
<1>1. CASE \E cmd \in {"info", "add", "dry"}, n \in Names : Start(cmd, n)
  BY <1>1 DEF Start
<1>2. CASE StartCheck \/ Kill \/ InfoEnds \/ CopyUnsafe \/ CopyFails \/ CopyBreaks
  BY <1>2 DEF StartCheck, Kill, InfoEnds, CopyUnsafe, CopyFails, CopyBreaks, End
<1>3. CASE CheckReports \/ CheckNext
  BY <1>3 DEF CheckReports, CheckNext, Inv, LoopsInv
<1>4. CASE Visit \/ NextDependency \/ Leave \/ CopyBegins \/ CopyDry \/ CopyOpens
           \/ CopyWrites \/ NextUnit
  <2>1. outcome = "none"
    BY <1>4 DEF Visit, NextDependency, Leave, CopyBegins, CopyDry, CopyOpens, CopyWrites,
                NextUnit, Calling, Looping, Walked, Copying, Inv, LoopsInv
  <2> QED
    BY <1>4, <2>1 DEF Visit, Return, Call, End, NextDependency, Leave, CopyBegins, CopyDry,
                      CopyOpens, CopyWrites, NextUnit
<1> QED
  BY <1>1, <1>2, <1>3, <1>4 DEF Next

LEMMA DoneKept ==
  ASSUME Inv, RootInv, CopyInv, DoneInv, [Next]_vars
  PROVE  DoneInv'
<1> SUFFICES ASSUME command' = "add", outcome' = "ok" PROVE DoneInv'
  BY DEF DoneInv
<1>1. reg' = reg /\ \A n : Find(n)' = Find(n)
  BY RegistryStays
<1>2. \A n : Elements(Find(n).files)' = Elements(Find(n).files)
  BY <1>1 DEF Elements
<1>3. root' = root /\ dest' = dest
  BY OutcomeSteps DEF CopyEnds, vars
<1>4. Reachable(root)' = Reachable(root)
  BY <1>1, <1>3 DEF Reachable, Known, Dependencies, Find, Elements
<1>5. CASE UNCHANGED vars
  BY <1>2, <1>3, <1>4, <1>5 DEF DoneInv, vars
<1>6. CASE CopyEnds
  <2>1. stage = "copy" /\ unit > Len(seen) /\ command = "add"
    BY <1>6 DEF CopyEnds
  <2>2. ASSUME NEW n \in Reachable(root), NEW f \in Elements(Find(n).files)
        PROVE  dest[f] = "whole"
    <3>1. n \in Elements(seen)
      BY <2>1, ClosureHolds DEF RootInv, Inv
    <3>2. PICK i \in 1..Len(seen) : seen[i] = n
      BY <3>1 DEF Elements
    <3>3. i \in 1..unit-1
      BY <2>1, <3>2 DEF Inv, Typed
    <3>4. f \in Done
      BY <3>2, <3>3, ClosureFiles DEF Done
    <3> QED
      BY <2>1, <3>4 DEF CopyInv, There
  <2> QED
    BY <1>2, <1>3, <1>4, <2>2 DEF DoneInv
<1> QED
  BY <1>5, <1>6, OutcomeSteps

AllInv == Inv /\ RootInv /\ CopyInv /\ OwnInv /\ DoneInv

(* However often add fails, or is stopped half way, no component's own files are
   there without all those of its dependencies, and an add that ends well has
   put all the closure's files in place. *)
THEOREM ClosureInstalled == Spec => []InstallsClosure
<1>1. Init => AllInv
  <2> SUFFICES ASSUME Init PROVE AllInv
    OBVIOUS
  <2>1. Inv
    BY Initially
  <2>2. RootInv /\ CopyInv /\ DoneInv
    BY DEF Init, RootInv, CopyInv, DoneInv
  <2>3. OwnInv
    <3>1. ASSUME NEW n \in Names, Known(n) PROVE Own(n) \subseteq Files
      BY <2>1, <3>1, FindComponent DEF Own, Elements, Inv, Typed
    <3>2. \A f \in Files : dest[f] = "absent"
      BY DEF Init
    <3> QED
      BY <3>1, <3>2 DEF OwnInv
  <2> QED
    BY <2>1, <2>2, <2>3 DEF AllInv
<1>2. AllInv /\ [Next]_vars => AllInv'
  BY Inductive, RootKept, CopyKept, OwnKept, DoneKept DEF AllInv
<1>3. AllInv => InstallsClosure
  BY DEF AllInv, OwnInv, DoneInv, InstallsClosure
<1> QED
  BY <1>1, <1>2, <1>3, PTL DEF Spec

------------------------------------------------------------------------------
(***************************************************************************)
(* That addClosure's walk is exact, and what a passed check promises.      *)
(***************************************************************************)

(* The calls in progress are a path from the root to what is wanted next. *)
PathInv ==
  /\ \A k \in 1..Len(visiting) : visiting[k].name \in Reachable(root)
  /\ \A j, k \in 1..Len(visiting) : j <= k => visiting[k].name \in Reachable(visiting[j].name)
  /\ \A k \in 1..Len(visiting)-1 :
       visiting[k + 1].name \in Elements(Dependencies(visiting[k].name))
  /\ wanted # NoName =>
       /\ wanted \in Reachable(root)
       /\ visiting # << >> => wanted \in Elements(Dependencies(Caller.name))
  /\ Elements(seen) \subseteq Reachable(root)

(* What a failed walk tells. *)
BlameInv ==
  /\ outcome = "cycle" => LeadsToCycle(root)
  /\ outcome = "unknown" => \E n \in Reachable(root) : ~Known(n)

NoProblems == \A k \in 1..Len(reg) : ~Problem(reg[k])

(* check has been through the components before this one; and through all. *)
CheckInv ==
  /\ stage = "walk" /\ command = "check" =>
       /\ NoProblems /\ nth \in 1..Len(reg) /\ root = reg[nth].name
       /\ \A k \in 1..nth-1 : ~LeadsToCycle(reg[k].name)
  /\ checked => NoProblems /\ \A k \in 1..Len(reg) : ~LeadsToCycle(reg[k].name)
  /\ checked => outcome \notin {"unsafe", "missing", "problems"}

------------------------------------------------------------------------------
LEMMA ReachSelf == ASSUME NEW n \in Names PROVE n \in Reachable(n)
  BY DEF Reachable

LEMMA ReachNext ==
  ASSUME Typed, NEW n, NEW m \in Reachable(n), Known(m), NEW d \in Elements(Dependencies(m))
  PROVE  d \in Reachable(n)
<1>1. d \in Names
  BY FindComponent DEF Typed, Elements
<1> QED
  BY <1>1 DEF Reachable

(* What can be reached is in every set that is closed. *)
LEMMA ReachWithin ==
  ASSUME NEW S \in SUBSET Names, NEW n \in S,
         \A k \in S : Known(k) => Elements(Dependencies(k)) \subseteq S
  PROVE  Reachable(n) \subseteq S
  BY DEF Reachable

LEMMA Same ==
  ASSUME [Next]_vars
  PROVE  /\ reg' = reg /\ tree' = tree
         /\ \A n : /\ Reachable(n)' = Reachable(n)
                   /\ LeadsToCycle(n)' <=> LeadsToCycle(n)
                   /\ Elements(Dependencies(n))' = Elements(Dependencies(n))
<1>1. reg' = reg /\ tree' = tree
  BY RegistryStays
<1> QED
  BY <1>1 DEF LeadsToCycle, Reachable, Known, Dependencies, Find, Elements

(* PathInv, of the walk after a step. *)
LEMMA PathNext ==
  ASSUME [Next]_vars,
         NEW n, n = Len(visiting'),
         \A k \in 1..n : visiting'[k].name \in Reachable(root'),
         \A j, k \in 1..n :
           j <= k => visiting'[k].name \in Reachable(visiting'[j].name),
         \A k \in 1..n-1 :
           visiting'[k + 1].name \in Elements(Dependencies(visiting'[k].name)),
         wanted' # NoName => wanted' \in Reachable(root'),
         wanted' # NoName /\ visiting' # << >> =>
           wanted' \in Elements(Dependencies(visiting'[n].name)),
         \A k \in 1..Len(seen') : seen'[k] \in Reachable(root')
  PROVE  PathInv'
<1>1. reg' = reg
  BY RegistryStays
<1>2. \A k : Known(k)' = Known(k) /\ Elements(Dependencies(k))' = Elements(Dependencies(k))
  BY <1>1 DEF Known, Dependencies, Find, Elements
<1>3. Reachable(root)' = Reachable(root')
  BY <1>2 DEF Reachable
<1>4. \A j : Reachable(visiting[j].name)' = Reachable(visiting'[j].name)
  BY <1>2 DEF Reachable
<1>5. \A j : Elements(Dependencies(visiting[j].name))'
               = Elements(Dependencies(visiting'[j].name))
  BY <1>1 DEF Dependencies, Find, Elements
<1>6. Elements(Dependencies(Caller.name))' = Elements(Dependencies(visiting'[n].name))
  BY <1>1 DEF Caller, Dependencies, Find, Elements
<1>7. Elements(seen)' \subseteq Reachable(root')
  BY DEF Elements
<1> QED
  BY <1>3, <1>4, <1>5, <1>6, <1>7 DEF PathInv

LEMMA PathKept ==
  ASSUME Inv, PathInv, [Next]_vars
  PROVE  PathInv'
<1> DEFINE n == Len(visiting)
<1>1. visiting \in Seq(Frames) /\ n \in Nat /\ seen \in Seq(Names) /\ Len(seen) \in Nat
  BY DEF Inv, Typed, Frames
<1>2. \A k \in 1..Len(seen) : seen[k] \in Reachable(root)
  BY DEF PathInv, Elements
<1>3. /\ \A k \in 1..n : visiting[k].name \in Reachable(root)
      /\ \A j, k \in 1..n : j <= k => visiting[k].name \in Reachable(visiting[j].name)
      /\ \A k \in 1..n-1 : visiting[k + 1].name \in Elements(Dependencies(visiting[k].name))
  BY DEF PathInv
<1>4. visiting # << >> => n \in 1..n
  BY <1>1, EmptySeq
<1>5. \A k \in 1..n : Known(visiting[k].name)
  BY DEF Inv, WalkInv, CallsDistinct
<1> HIDE DEF n
<1>6. CASE Begins
  <2>1. /\ Len(visiting') = 0 /\ Len(seen') = 0 /\ visiting' = << >>
        /\ wanted' \in Reachable(root')
    BY <1>6, ReachSelf DEF Begins
  <2> QED
    BY <2>1, PathNext
<1>7. CASE root' = root /\ Ends
  <2>1. Len(visiting') = 0 /\ Len(seen') = 0 /\ wanted' = NoName
    BY <1>7 DEF Ends
  <2> QED
    BY <2>1, PathNext
<1>8. CASE root' = root /\ Returns
  <2>1. wanted' = NoName /\ visiting' = visiting /\ seen' = seen /\ root' = root
    BY <1>8 DEF Returns
  <2> QED
    BY <1>2, <1>3, <2>1, PathNext DEF n
<1>9. CASE root' = root /\ Calls
  <2> DEFINE f == [name |-> wanted, next |-> 0]
  <2>1. /\ f \in Frames /\ visiting' = Append(visiting, f) /\ f.name = wanted
        /\ wanted' = NoName /\ seen' = seen /\ wanted \in Names
    BY <1>9 DEF Calls, Calling, Inv, Typed, Frames
  <2> HIDE DEF f
  <2>2. /\ Len(visiting') = n + 1 /\ visiting'[n + 1].name = wanted
        /\ \A k \in 1..n : visiting'[k].name = visiting[k].name
    BY <1>1, <2>1 DEF n
  <2>3. /\ wanted \in Reachable(root)
        /\ n \in 1..n => wanted \in Elements(Dependencies(visiting[n].name))
    <3>1. wanted # NoName /\ (n \in 1..n => visiting # << >>)
      BY <1>9 DEF Calls, Calling, n
    <3> QED
      BY <3>1 DEF PathInv, Caller, n
  <2>4. \A k \in 1..n : wanted \in Reachable(visiting[k].name)
    <3> SUFFICES ASSUME NEW k \in 1..n PROVE wanted \in Reachable(visiting[k].name)
      OBVIOUS
    <3>1. n \in 1..n /\ k <= n
      BY <1>1
    <3>2. visiting[n].name \in Reachable(visiting[k].name)
      BY <1>3, <3>1
    <3> QED
      BY <1>5, <2>3, <3>1, <3>2, ReachNext DEF Inv
  <2>5. \A k \in 1..n+1 : visiting'[k].name \in Reachable(root')
    BY <1>1, <1>3, <1>9, <2>2, <2>3
  <2>6. ASSUME NEW j \in 1..n+1, NEW k \in 1..n+1, j <= k
        PROVE  visiting'[k].name \in Reachable(visiting'[j].name)
    <3>1. CASE k \in 1..n
      <4>1. j \in 1..n
        BY <1>1, <2>6, <3>1
      <4> QED
        BY <1>3, <2>2, <2>6, <3>1, <4>1
    <3>2. CASE k = n + 1 /\ j \in 1..n
      BY <2>2, <2>4, <3>2
    <3>3. CASE k = n + 1 /\ j = n + 1
      BY <2>1, <2>2, <3>3, ReachSelf
    <3> QED
      BY <1>1, <2>6, <3>1, <3>2, <3>3
  <2>7. ASSUME NEW k \in 1..n
        PROVE  visiting'[k + 1].name \in Elements(Dependencies(visiting'[k].name))
    <3>1. CASE k = n
      BY <2>2, <2>3, <3>1
    <3>2. CASE k # n
      <4>1. k \in 1..n-1 /\ k + 1 \in 1..n
        BY <1>1, <3>2
      <4> QED
        BY <1>3, <2>2, <4>1
    <3> QED
      BY <3>1, <3>2
  <2>8. \A k \in 1..Len(seen') : seen'[k] \in Reachable(root')
    BY <1>2, <1>9, <2>1
  <2> DEFINE q == n + 1
  <2>9. q - 1 = n /\ q = Len(visiting')
    BY <1>1, <2>2
  <2>10. \A k \in 1..q-1 :
           visiting'[k + 1].name \in Elements(Dependencies(visiting'[k].name))
    BY <2>7, <2>9
  <2>11. \A j, k \in 1..q : j <= k => visiting'[k].name \in Reachable(visiting'[j].name)
    BY <2>6
  <2> HIDE DEF q
  <2> QED
    BY <2>1, <2>5, <2>8, <2>9, <2>10, <2>11, PathNext DEF q
<1>10. CASE root' = root /\ Loops
  <2>1. /\ n \in Nat \ {0} /\ Caller \in Frames /\ Caller = visiting[n]
        /\ Dependencies(Caller.name) \in Seq(Names)
    BY <1>10, HandedDown DEF Loops, Inv, Caller, n
  <2>2. /\ Len(visiting') = n /\ seen' = seen
        /\ \A k \in 1..n : visiting'[k].name = visiting[k].name
    BY <1>1, <1>10, <2>1 DEF Loops, Frames, n
  <2>3. wanted' \in Elements(Dependencies(visiting[n].name))
    <3>1. Caller.next + 1 \in 1..Len(Dependencies(Caller.name))
      BY <1>10, <2>1 DEF Loops, Frames
    <3> QED
      BY <1>10, <2>1, <3>1 DEF Loops, Elements
  <2>4. wanted' \in Reachable(root')
    <3>1. n \in 1..n
      BY <2>1
    <3> QED
      BY <1>3, <1>5, <1>10, <2>3, <3>1, ReachNext DEF Inv
  <2>5. /\ n \in 1..n /\ \A k \in 1..n-1 : k \in 1..n /\ k + 1 \in 1..n
    BY <2>1
  <2>6. \A k \in 1..n : visiting'[k].name \in Reachable(root')
    BY <1>3, <1>10, <2>2
  <2>7. \A j, k \in 1..n : j <= k => visiting'[k].name \in Reachable(visiting'[j].name)
    BY <1>3, <2>2
  <2>8. \A k \in 1..n-1 :
          visiting'[k + 1].name \in Elements(Dependencies(visiting'[k].name))
    BY <1>3, <2>2, <2>5
  <2>9. wanted' \in Elements(Dependencies(visiting'[n].name))
    BY <2>2, <2>3, <2>5
  <2>10. \A k \in 1..Len(seen') : seen'[k] \in Reachable(root')
    BY <1>2, <1>10, <2>2
  <2> QED
    BY <2>2, <2>4, <2>6, <2>7, <2>8, <2>9, <2>10, PathNext
<1>11. CASE root' = root /\ Leaves
  <2>1. n \in Nat \ {0} /\ visiting' = SubSeq(visiting, 1, n - 1) /\ Caller \in Frames
        /\ Caller = visiting[n]
    BY <1>11, HandedDown DEF Leaves, Inv, n, Caller
  <2>2. Len(visiting') = n - 1 /\ \A k \in 1..n-1 : visiting'[k] = visiting[k]
    <3>1. CASE n = 1
      BY <1>1, <2>1, <3>1
    <3>2. CASE n > 1
      <4>1. 1 \in Int /\ n - 1 \in Int /\ 1 <= n - 1 /\ n - 1 - 1 + 1 = n - 1
        BY <2>1, <3>2
      <4>2. \A k \in 1..n-1 : visiting[k] \in Frames
        BY <1>1 DEF n
      <4>3. \A k \in 1..n-1 : visiting'[k] = visiting[1 + k - 1]
        BY <2>1, <4>1, <4>2, SubSeqProperties
      <4>4. Len(visiting') = n - 1
        BY <2>1, <4>1, <4>2, SubSeqProperties
      <4> QED
        BY <2>1, <4>3, <4>4
    <3> QED
      BY <2>1, <3>1, <3>2
  <2>3. /\ \A k \in 1..n-1 : k \in 1..n
        /\ \A k \in 1..(n-1)-1 : k \in 1..n-1 /\ k + 1 \in 1..n-1
    BY <2>1
  <2>4. wanted' = NoName
    BY <1>11 DEF Leaves, Looping
  <2>5. \A k \in 1..Len(seen') : seen'[k] \in Reachable(root')
    <3>1. Caller.name \in Names /\ Caller.name \in Reachable(root)
      BY <1>3, <1>4, <2>1 DEF Frames
    <3>2. seen' = Append(seen, Caller.name)
      BY <1>11 DEF Leaves
    <3>3. /\ Len(seen') = Len(seen) + 1 /\ seen'[Len(seen) + 1] = Caller.name
          /\ \A k \in 1..Len(seen) : seen'[k] = seen[k]
      BY <1>1, <3>1, <3>2
    <3> QED
      BY <1>1, <1>2, <1>11, <3>1, <3>3
  <2> QED
    BY <1>3, <1>11, <2>2, <2>3, <2>4, <2>5, PathNext
<1>12. CASE root' = root /\ Rests
  <2>1. UNCHANGED <<wanted, visiting, seen, root>>
    BY <1>12 DEF Rests, walkvars
  <2>2. wanted # NoName /\ visiting # << >> => wanted \in Elements(Dependencies(visiting[n].name))
    BY DEF PathInv, Caller, n
  <2> QED
    BY <1>2, <1>3, <2>1, <2>2, PathNext DEF n, PathInv
<1> QED
  BY <1>6, <1>7, <1>8, <1>9, <1>10, <1>11, <1>12, WalkSteps DEF WalkStep, Inv

------------------------------------------------------------------------------
(* In a closure that is complete no component leads to itself. *)
LEMMA NoCycleSeen ==
  ASSUME Typed, WalkInv, root \in Elements(seen)
  PROVE  ~LeadsToCycle(root)
<1> SUFFICES ASSUME NEW m \in Reachable(root), Known(m),
                    NEW d \in Elements(Dependencies(m)), m \in Reachable(d)
             PROVE  FALSE
  BY DEF LeadsToCycle
<1>1. PICK i \in 1..Len(seen) : seen[i] = m
  BY ClosureHolds DEF Elements
<1>2. PICK j \in 1..i-1 : seen[j] = d
  BY <1>1 DEF WalkInv, DependenciesFirst
<1> DEFINE S == {seen[k] : k \in 1..j}
<1>3. Len(seen) \in Nat /\ j \in 1..Len(seen) /\ \A k \in 1..j : k \in 1..Len(seen) /\ k < i
  BY <1>2 DEF Typed
<1>4. S \in SUBSET Names /\ d \in S
  BY <1>2, <1>3 DEF Typed
<1>5. ASSUME NEW k \in S, NEW e \in Elements(Dependencies(k)) PROVE e \in S
  <2>1. PICK q \in 1..j : seen[q] = k
    OBVIOUS
  <2>2. PICK p \in 1..q-1 : seen[p] = e
    BY <1>3, <2>1 DEF WalkInv, DependenciesFirst
  <2>3. p \in 1..j
    BY <1>3, <2>2
  <2> QED
    BY <2>2, <2>3
<1> HIDE DEF S
<1>6. m \in S
  BY <1>4, <1>5, ReachWithin
<1>7. PICK k \in 1..j : seen[k] = seen[i]
  BY <1>1, <1>6 DEF S
<1> QED
  BY <1>3, <1>7 DEF WalkInv, DependenciesFirst

LEMMA WalkedExact ==
  ASSUME Inv, RootInv, PathInv, Walked
  PROVE  Elements(seen) = Reachable(root) /\ ~LeadsToCycle(root)
<1>1. root \in Elements(seen)
  BY NamesAssumption DEF RootInv, Walked
<1> QED
  BY <1>1, ClosureHolds, NoCycleSeen DEF PathInv, Inv

(* Only addClosure fails for a cycle or an unknown name. *)
LEMMA BlameSteps ==
  ASSUME Inv, [Next]_vars, outcome' \in {"cycle", "unknown"}
  PROVE  UNCHANGED vars \/ Visit
<1>1. CASE (\E cmd \in {"info", "add", "dry"}, n \in Names : Start(cmd, n)) \/ StartCheck
  BY <1>1 DEF Start, StartCheck
<1>2. CASE Kill \/ InfoEnds \/ CopyUnsafe \/ CopyFails \/ CopyBreaks \/ CopyEnds
  BY <1>2 DEF Kill, InfoEnds, CopyUnsafe, CopyFails, CopyBreaks, CopyEnds, End
<1>3. CASE CheckReports \/ CheckNext
  BY <1>3 DEF CheckReports, CheckNext, End, Inv, LoopsInv, Walked
<1>4. CASE NextDependency \/ Leave \/ CopyBegins \/ CopyDry \/ CopyOpens
           \/ CopyWrites \/ NextUnit
  <2>1. outcome = "none"
    BY <1>4 DEF NextDependency, Leave, CopyBegins, CopyDry, CopyOpens, CopyWrites,
                NextUnit, Calling, Looping, Walked, Copying, Inv, LoopsInv
  <2> QED
    BY <1>4, <2>1 DEF NextDependency, Leave, CopyBegins, CopyDry,
                      CopyOpens, CopyWrites, NextUnit
<1> QED
  BY <1>1, <1>2, <1>3, <1>4 DEF Next

LEMMA BlameKept ==
  ASSUME Inv, PathInv, BlameInv, [Next]_vars
  PROVE  BlameInv'
<1> SUFFICES ASSUME outcome' \in {"cycle", "unknown"} PROVE BlameInv'
  BY DEF BlameInv
<1>1. reg' = reg /\ root' = root
  BY RegistryStays, BlameSteps DEF Visit, vars
<1>2. LeadsToCycle(root)' <=> LeadsToCycle(root)
  BY <1>1 DEF LeadsToCycle, Reachable, Known, Dependencies, Find, Elements
<1>3. (\E n \in Reachable(root) : ~Known(n))' <=> \E n \in Reachable(root) : ~Known(n)
  BY <1>1 DEF Reachable, Known, Dependencies, Find, Elements
<1>4. CASE UNCHANGED vars
  BY <1>2, <1>3, <1>4 DEF BlameInv, vars
<1>5. CASE Visit /\ outcome' = "unknown"
  <2>1. wanted \in Reachable(root) /\ ~Known(wanted)
    BY <1>5 DEF Visit, Calling, Return, Call, End, Inv, LoopsInv, PathInv
  <2> QED
    BY <1>3, <1>5, <2>1 DEF BlameInv
<1>6. CASE Visit /\ outcome' = "cycle"
  <2>1. wanted # NoName /\ wanted \in Names /\ wanted \in InProgress
    BY <1>6 DEF Visit, Calling, Return, Call, End, Inv, LoopsInv, Typed
  <2>2. PICK k \in 1..Len(visiting) : visiting[k].name = wanted
    BY <2>1 DEF InProgress
  <2> DEFINE n == Len(visiting)
  <2>3. n \in Nat /\ k \in 1..n /\ n \in 1..n /\ visiting # << >>
    BY <2>2, EmptySeq DEF Inv, Typed
  <2>4. wanted \in Elements(Dependencies(visiting[n].name))
    BY <2>1, <2>3 DEF PathInv, Caller
  <2>5. wanted \in Reachable(root) /\ \A j \in 1..n : Known(visiting[j].name)
    BY <2>1 DEF PathInv, Inv, WalkInv, CallsDistinct
  <2>6. \E d \in Elements(Dependencies(wanted)) : wanted \in Reachable(d)
    <3>1. CASE k = n
      BY <2>1, <2>2, <2>4, <3>1, ReachSelf
    <3>2. CASE k # n
      <4>1. k \in 1..n-1 /\ k + 1 \in 1..n /\ k + 1 <= n
        BY <2>3, <3>2
      <4>2. visiting[k + 1].name \in Elements(Dependencies(wanted))
        BY <2>2, <4>1 DEF PathInv
      <4>3. visiting[n].name \in Reachable(visiting[k + 1].name)
        BY <2>3, <4>1 DEF PathInv
      <4>4. wanted \in Reachable(visiting[k + 1].name)
        BY <2>3, <2>4, <2>5, <4>3, ReachNext DEF Inv
      <4> QED
        BY <4>2, <4>4
    <3> QED
      BY <3>1, <3>2
  <2>7. LeadsToCycle(root)
    BY <2>2, <2>5, <2>6 DEF LeadsToCycle
  <2> QED
    BY <1>2, <1>6, <2>7 DEF BlameInv
<1> QED
  BY <1>4, <1>5, <1>6, BlameSteps

ExactInv == Inv /\ RootInv /\ PathInv /\ BlameInv

LEMMA ExactInitially == Init => ExactInv
<1> SUFFICES ASSUME Init PROVE ExactInv
  OBVIOUS
<1>1. RootInv /\ BlameInv
  BY DEF Init, RootInv, BlameInv
<1>2. PathInv
  BY DEF Init, PathInv, Elements
<1> QED
  BY <1>1, <1>2, Initially DEF ExactInv

LEMMA ExactInductive == ExactInv /\ [Next]_vars => ExactInv'
  BY Inductive, RootKept, PathKept, BlameKept DEF ExactInv

(* addClosure ends with exactly what can be reached, and fails only when a cycle
   or an unknown name is really there. *)
THEOREM ExactClosure == Spec => []WalkIsExact
<1>1. ExactInv => WalkIsExact
  BY WalkedExact DEF ExactInv, BlameInv, WalkIsExact
<1> QED
  BY <1>1, ExactInitially, ExactInductive, PTL DEF Spec

------------------------------------------------------------------------------
LEMMA CheckSame ==
  ASSUME [Next]_vars
  PROVE  /\ NoProblems' <=> NoProblems
         /\ \A k : LeadsToCycle(reg[k].name)' <=> LeadsToCycle(reg[k].name)
<1>1. reg' = reg /\ tree' = tree
  BY RegistryStays
<1>2. NoProblems' <=> NoProblems
  BY <1>1 DEF NoProblems, Problem, Known
<1>3. \A k : LeadsToCycle(reg[k].name)' <=> LeadsToCycle(reg[k].name)
  BY <1>1 DEF LeadsToCycle, Reachable, Known, Dependencies, Find, Elements
<1> QED
  BY <1>2, <1>3

(* The file that add is at belongs to some component of the registry. *)
LEMMA FileListed ==
  ASSUME Inv, Copying, file <= Len(Unit.files)
  PROVE  \E k \in 1..Len(reg) : File \in Elements(reg[k].files)
<1>1. File \in Elements(Unit.files) /\ Known(seen[unit])
  BY FileInUnit DEF Inv, Copying
<1>2. \E k \in 1..Len(reg) : Unit = reg[k]
  BY <1>1, FindComponent DEF Unit, Inv, Typed
<1> QED
  BY <1>1, <1>2

LEMMA ProblemFile ==
  ASSUME Inv, Copying, file <= Len(Unit.files), File \in Unsafe \/ File \notin tree
  PROVE  ~NoProblems
<1>1. PICK k \in 1..Len(reg) : File \in Elements(reg[k].files)
  BY FileListed
<1>2. Problem(reg[k])
  BY <1>1 DEF Problem, Elements
<1> QED
  BY <1>2 DEF NoProblems

(* How a check goes on to a component, and where check and add find fault. *)
LEMMA CheckSteps ==
  ASSUME Inv, [Next]_vars, stage' = "walk", command' = "check"
  PROVE  \/ UNCHANGED <<stage, command, nth, root>>
         \/ CheckReports /\ NoProblems /\ reg # << >> /\ nth' = nth /\ root' = reg[1].name
         \/ CheckNext /\ nth # Len(reg) /\ nth' = nth + 1 /\ root' = reg[nth + 1].name
<1>1. ~ \E r : End(r)
  BY DEF End
<1>2. CASE CheckReports
  BY <1>1, <1>2 DEF CheckReports, Walk, NoProblems
<1>3. CASE CheckNext
  BY <1>1, <1>3 DEF CheckNext, Walk
<1>4. CASE \E cmd \in {"info", "add", "dry"}, n \in Names : Start(cmd, n)
  BY <1>4 DEF Start
<1>5. CASE Visit \/ NextDependency \/ Leave
  BY <1>1, <1>5 DEF Visit, Return, Call, NextDependency, Leave
<1>6. CASE StartCheck \/ Kill \/ InfoEnds \/ CopyBegins \/ CopyUnsafe \/ CopyDry \/ CopyFails
           \/ CopyOpens \/ CopyWrites \/ CopyBreaks \/ CopyEnds
  BY <1>1, <1>6 DEF StartCheck, Kill, InfoEnds, CopyBegins, CopyUnsafe, CopyDry, CopyFails,
                    CopyOpens, CopyWrites, CopyBreaks, CopyEnds, Copying
<1>7. CASE NextUnit
  BY <1>7 DEF NextUnit, Copying
<1>8. CASE UNCHANGED vars
  BY <1>8 DEF vars
<1> QED
  BY <1>2, <1>3, <1>4, <1>5, <1>6, <1>7, <1>8 DEF Next

LEMMA PassSteps ==
  ASSUME [Next]_vars
  PROVE  \/ checked' = checked
         \/ CheckReports /\ reg = << >> /\ NoProblems
         \/ CheckNext /\ nth = Len(reg)
  BY DEF Next, Start, StartCheck, Kill, Visit, NextDependency, Leave, InfoEnds,
         CopyBegins, CopyUnsafe, CopyDry, CopyFails, CopyOpens, CopyWrites, CopyBreaks,
         NextUnit, CopyEnds, CheckReports, CheckNext, NoProblems, vars

LEMMA FaultSteps ==
  ASSUME Inv, [Next]_vars, outcome' \in {"unsafe", "missing", "problems"}
  PROVE  UNCHANGED vars \/ (checked' = checked /\ ~NoProblems)
<1>1. CASE (\E cmd \in {"info", "add", "dry"}, n \in Names : Start(cmd, n)) \/ StartCheck
  BY <1>1 DEF Start, StartCheck
<1>2. CASE Kill \/ InfoEnds \/ CopyBreaks \/ CopyEnds
  BY <1>2 DEF Kill, InfoEnds, CopyBreaks, CopyEnds, End
<1>3. CASE CopyUnsafe \/ CopyFails
  <2>1. Copying /\ file <= Len(Unit.files) /\ checked' = checked
    BY <1>3 DEF CopyUnsafe, CopyFails
  <2>2. File \in Unsafe \/ File \notin tree
    BY <1>3 DEF CopyUnsafe, CopyFails, End
  <2> QED
    BY <2>1, <2>2, ProblemFile
<1>4. CASE CheckReports
  <2>1. stage = "report" /\ outcome = "none"
    BY <1>4 DEF CheckReports, Inv, LoopsInv
  <2> QED
    BY <1>4, <2>1 DEF CheckReports, End, NoProblems
<1>5. CASE CheckNext
  BY <1>5 DEF CheckNext, End, Inv, LoopsInv, Walked
<1>6. CASE Visit \/ NextDependency \/ Leave \/ CopyBegins \/ CopyDry \/ CopyOpens
           \/ CopyWrites \/ NextUnit
  <2>1. outcome = "none"
    BY <1>6 DEF Visit, NextDependency, Leave, CopyBegins, CopyDry, CopyOpens, CopyWrites,
                NextUnit, Calling, Looping, Walked, Copying, Inv, LoopsInv
  <2> QED
    BY <1>6, <2>1 DEF Visit, Return, Call, End, NextDependency, Leave, CopyBegins, CopyDry,
                      CopyOpens, CopyWrites, NextUnit
<1> QED
  BY <1>1, <1>2, <1>3, <1>4, <1>5, <1>6 DEF Next

LEMMA CheckKept ==
  ASSUME ExactInv, CheckInv, [Next]_vars
  PROVE  CheckInv'
<1>1. reg' = reg /\ reg \in Seq(Components) /\ Len(reg) \in Nat
  BY RegistryStays DEF ExactInv, Inv, Typed
<1>2. ASSUME stage' = "walk", command' = "check"
      PROVE  /\ NoProblems /\ nth' \in 1..Len(reg) /\ root' = reg[nth'].name
             /\ \A k \in 1..nth'-1 : ~LeadsToCycle(reg[k].name)
  <2>1. CASE UNCHANGED <<stage, command, nth, root>>
    BY <1>2, <2>1 DEF CheckInv
  <2>2. CASE CheckReports /\ NoProblems /\ reg # << >> /\ nth' = nth /\ root' = reg[1].name
    <3>1. nth = 1
      BY <2>2 DEF CheckReports, ExactInv, Inv, LoopsInv
    <3> QED
      BY <1>1, <2>2, <3>1, EmptySeq
  <2>3. CASE CheckNext /\ nth # Len(reg) /\ nth' = nth + 1 /\ root' = reg[nth + 1].name
    <3>1. Walked /\ stage = "walk" /\ command = "check"
      BY <2>3 DEF CheckNext, Walked
    <3>2. /\ NoProblems /\ nth \in 1..Len(reg) /\ root = reg[nth].name
          /\ \A k \in 1..nth-1 : ~LeadsToCycle(reg[k].name)
      BY <3>1 DEF CheckInv
    <3>3. ~LeadsToCycle(reg[nth].name)
      BY <3>1, <3>2, WalkedExact DEF ExactInv
    <3>4. nth + 1 \in 1..Len(reg) /\ \A k \in 1..(nth + 1)-1 : k \in 1..nth-1 \/ k = nth
      BY <1>1, <2>3, <3>2
    <3> QED
      BY <2>3, <3>2, <3>3, <3>4
  <2> QED
    BY <1>2, <2>1, <2>2, <2>3, CheckSteps DEF ExactInv
<1>3. ASSUME checked'
      PROVE  NoProblems /\ \A k \in 1..Len(reg) : ~LeadsToCycle(reg[k].name)
  <2>1. CASE checked' = checked
    BY <1>3, <2>1 DEF CheckInv
  <2>2. CASE CheckReports /\ reg = << >> /\ NoProblems
    BY <2>2
  <2>3. CASE CheckNext /\ nth = Len(reg)
    <3>1. Walked /\ stage = "walk" /\ command = "check"
      BY <2>3 DEF CheckNext, Walked
    <3>2. /\ NoProblems /\ nth \in 1..Len(reg) /\ root = reg[nth].name
          /\ \A k \in 1..nth-1 : ~LeadsToCycle(reg[k].name)
      BY <3>1 DEF CheckInv
    <3>3. ~LeadsToCycle(reg[nth].name)
      BY <3>1, <3>2, WalkedExact DEF ExactInv
    <3>4. \A k \in 1..Len(reg) : k \in 1..nth-1 \/ k = nth
      BY <1>1, <2>3
    <3> QED
      BY <3>2, <3>3, <3>4
  <2> QED
    BY <2>1, <2>2, <2>3, PassSteps
<1>4. ASSUME checked', outcome' \in {"unsafe", "missing", "problems"} PROVE FALSE
  <2>1. CASE UNCHANGED vars
    BY <1>4, <2>1 DEF CheckInv, vars
  <2>2. CASE checked' = checked /\ ~NoProblems
    BY <1>3, <1>4, <2>2
  <2> QED
    BY <1>4, <2>1, <2>2, FaultSteps DEF ExactInv
<1> QED
  BY <1>1, <1>2, <1>3, <1>4, CheckSame DEF CheckInv

(* A checked registry has every name that a closure can reach. *)
LEMMA AllKnown ==
  ASSUME Typed, NoProblems, Known(root)
  PROVE  \A n \in Reachable(root) : Known(n)
<1> DEFINE S == {m \in Names : Known(m)}
<1>1. root \in S
  BY Named DEF Known, Typed
<1>2. ASSUME NEW m \in S, NEW d \in Elements(Dependencies(m)) PROVE d \in S
  <2>1. PICK k \in 1..Len(reg) : Find(m) = reg[k]
    BY FindComponent DEF Typed
  <2>2. Known(d)
    BY <2>1 DEF NoProblems, Problem, Dependencies, Elements
  <2>3. d \in Names
    BY FindComponent DEF Typed, Elements
  <2> QED
    BY <2>2, <2>3
<1> HIDE DEF S
<1>3. Reachable(root) \subseteq S
  <2>1. S \in SUBSET Names
    BY DEF S
  <2> QED
    BY <1>1, <1>2, <2>1, ReachWithin
<1> QED
  BY <1>3 DEF S

(* Once check has passed, no command fails for the registry's sake: there is no
   cycle, no unknown dependency, no file that leads out of the tree or is not
   there, whatever the registry and whichever of its components is asked for. *)
THEOREM CheckIsEnough == Spec => []CheckedRegistryAdds
<1>1. Init => ExactInv /\ CheckInv
  BY ExactInitially DEF Init, CheckInv
<1>2. ExactInv /\ CheckInv /\ [Next]_vars => (ExactInv /\ CheckInv)'
  BY ExactInductive, CheckKept
<1>3. ExactInv /\ CheckInv => CheckedRegistryAdds
  <2> SUFFICES ASSUME ExactInv, CheckInv, checked, Known(root)
               PROVE  outcome \notin {"cycle", "unknown", "unsafe", "missing", "problems"}
    BY DEF CheckedRegistryAdds
  <2>1. ~LeadsToCycle(root)
    BY DEF CheckInv, Known
  <2>2. \A n \in Reachable(root) : Known(n)
    BY AllKnown DEF CheckInv, ExactInv, Inv
  <2> QED
    BY <2>1, <2>2 DEF CheckInv, ExactInv, BlameInv
<1> QED
  BY <1>1, <1>2, <1>3, PTL DEF Spec
==============================================================================
