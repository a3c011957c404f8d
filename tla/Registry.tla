------------------------------- MODULE Registry -------------------------------
(***************************************************************************)
(* The component registry's tool, src/tools/curspan/main.zig: the closure  *)
(* of a component's dependencies, and the commands that use it to show, to *)
(* check and to install components.  The tool keeps nothing between two    *)
(* commands but the files it has written.                                  *)
(***************************************************************************)
EXTENDS Integers, Sequences

CONSTANTS Names,       \* what components and dependencies may be called
          Files,
          Unsafe,      \* the files whose path leads out of the tree
          Registries,  \* the registries to try
          NoName

ASSUME NamesAssumption == NoName \notin Names /\ Unsafe \subseteq Files

Components == [name : Names, dependencies : Seq(Names), files : Seq(Files)]

ASSUME RegistriesAssumption == Registries \subseteq Seq(Components)

VARIABLES reg,       \* the registry's components
          tree,      \* the files under --root
          dest,      \* what is under --dest: each file "absent", "partial" or "whole"
          command,   \* "info", "add", "dry" (add --dry-run) or "check"
          root,      \* the component whose closure is taken
          nth,       \* the one it is in check's loop
          wanted,    \* the name addClosure is called with, if it is
          visiting,  \* addClosure's calls in progress, the innermost last
          seen,      \* the closure so far
          unit, file,  \* cmdAdd's loops: a place in the closure, one in its files
          stage,     \* "idle", "report", "walk", "copy" or "write"
          outcome,   \* of the last command
          checked    \* history: a check has passed

walkvars == <<wanted, visiting, seen>>
copyvars == <<unit, file>>
vars == <<reg, tree, dest, command, root, nth, wanted, visiting, seen, unit, file,
          stage, outcome, checked>>

Elements(s) == {s[k] : k \in 1..Len(s)}

(* findComponent: the first of that name. *)
Known(n) == \E k \in 1..Len(reg) : reg[k].name = n
Find(n) ==
  reg[CHOOSE k \in 1..Len(reg) :
        reg[k].name = n /\ \A j \in 1..Len(reg) : reg[j].name = n => k <= j]
Dependencies(n) == Find(n).dependencies

Init ==
  /\ reg \in Registries /\ tree \in SUBSET Files
  /\ dest = [f \in Files |-> "absent"]
  /\ command = "info" /\ root = NoName /\ nth = 1
  /\ wanted = NoName /\ visiting = << >> /\ seen = << >>
  /\ unit = 1 /\ file = 1
  /\ stage = "idle" /\ outcome = "none" /\ checked = FALSE

End(result) ==
  /\ stage' = "idle" /\ outcome' = result
  /\ nth' = 1 /\ wanted' = NoName /\ visiting' = << >> /\ seen' = << >>
  /\ unit' = 1 /\ file' = 1

Walk(n) ==
  /\ stage' = "walk" /\ root' = n /\ wanted' = n
  /\ visiting' = << >> /\ seen' = << >>

------------------------------------------------------------------------------
(* main *)
Start(cmd, n) ==
  /\ stage = "idle"
  /\ command' = cmd /\ outcome' = "none" /\ Walk(n)
  /\ UNCHANGED <<reg, tree, dest, nth, copyvars, checked>>

StartCheck ==
  /\ stage = "idle"
  /\ command' = "check" /\ outcome' = "none" /\ stage' = "report"
  /\ UNCHANGED <<reg, tree, dest, root, nth, walkvars, copyvars, checked>>

(* The process may be stopped anywhere. *)
Kill ==
  /\ stage # "idle" /\ End("killed")
  /\ UNCHANGED <<reg, tree, dest, command, root, checked>>

------------------------------------------------------------------------------
(* addClosure *)
Calling == stage = "walk" /\ wanted # NoName
Looping == stage = "walk" /\ wanted = NoName /\ visiting # << >>
Walked == stage = "walk" /\ wanted = NoName /\ visiting = << >>

Caller == visiting[Len(visiting)]
InProgress == {visiting[k].name : k \in 1..Len(visiting)}

Return == wanted' = NoName /\ UNCHANGED <<visiting, seen, nth, copyvars, stage, outcome>>

Call ==
  /\ visiting' = Append(visiting, [name |-> wanted, next |-> 0])
  /\ wanted' = NoName
  /\ UNCHANGED <<seen, nth, copyvars, stage, outcome>>

(* A component in progress is taken for one that is done: a mutant of Visit. *)
VisitTolerant ==
  /\ Calling
  /\ IF wanted \in Elements(seen) \cup InProgress THEN Return
     ELSE IF ~Known(wanted) THEN End("unknown")
     ELSE Call
  /\ UNCHANGED <<reg, tree, dest, command, root, checked>>

Visit ==
  /\ Calling
  /\ IF wanted \in Elements(seen) THEN Return
     ELSE IF wanted \in InProgress THEN End("cycle")
     ELSE IF ~Known(wanted) THEN End("unknown")
     ELSE Call
  /\ UNCHANGED <<reg, tree, dest, command, root, checked>>

NextDependency ==
  /\ Looping /\ Caller.next < Len(Dependencies(Caller.name))
  /\ visiting' = [visiting EXCEPT ![Len(visiting)].next = @ + 1]
  /\ wanted' = Dependencies(Caller.name)[Caller.next + 1]
  /\ UNCHANGED <<reg, tree, dest, command, root, nth, seen, copyvars, stage,
                 outcome, checked>>

(* A component goes before its dependencies: a mutant of Leave. *)
LeaveInFront ==
  /\ Looping /\ Caller.next = Len(Dependencies(Caller.name))
  /\ visiting' = SubSeq(visiting, 1, Len(visiting) - 1)
  /\ seen' = <<Caller.name>> \o seen
  /\ UNCHANGED <<reg, tree, dest, command, root, nth, wanted, copyvars, stage,
                 outcome, checked>>

Leave ==
  /\ Looping /\ Caller.next = Len(Dependencies(Caller.name))
  /\ visiting' = SubSeq(visiting, 1, Len(visiting) - 1)
  /\ seen' = Append(seen, Caller.name)
  /\ UNCHANGED <<reg, tree, dest, command, root, nth, wanted, copyvars, stage,
                 outcome, checked>>

------------------------------------------------------------------------------
InfoEnds ==
  /\ Walked /\ command = "info" /\ End("ok")
  /\ UNCHANGED <<reg, tree, dest, command, root, checked>>

(* cmdAdd *)
CopyBegins ==
  /\ Walked /\ command \in {"add", "dry"}
  /\ stage' = "copy"
  /\ UNCHANGED <<reg, tree, dest, command, root, nth, walkvars, copyvars,
                 outcome, checked>>

(* The closure from its end: a mutant of Unit. *)
UnitFromEnd == Find(seen[Len(seen) + 1 - unit])

Unit == Find(seen[unit])
File == Unit.files[file]
Copying == stage = "copy" /\ unit <= Len(seen)

CopyUnsafe ==
  /\ Copying /\ file <= Len(Unit.files) /\ File \in Unsafe
  /\ End("unsafe")
  /\ UNCHANGED <<reg, tree, dest, command, root, checked>>

CopyDry ==
  /\ Copying /\ file <= Len(Unit.files) /\ File \notin Unsafe /\ command = "dry"
  /\ file' = file + 1
  /\ UNCHANGED <<reg, tree, dest, command, root, nth, walkvars, unit, stage,
                 outcome, checked>>

(* The source is not there; it cannot be read, or no directory or file made. *)
CopyFails ==
  /\ Copying /\ file <= Len(Unit.files) /\ File \notin Unsafe /\ command = "add"
  /\ End(IF File \notin tree THEN "missing" ELSE "io")
  /\ UNCHANGED <<reg, tree, dest, command, root, checked>>

(* writeFile truncates a file that exists. *)
CopyOpens ==
  /\ Copying /\ file <= Len(Unit.files) /\ File \notin Unsafe /\ command = "add"
  /\ File \in tree
  /\ dest' = [dest EXCEPT ![File] = "partial"] /\ stage' = "write"
  /\ UNCHANGED <<reg, tree, command, root, nth, walkvars, copyvars, outcome, checked>>

CopyWrites ==
  /\ stage = "write"
  /\ dest' = [dest EXCEPT ![File] = "whole"] /\ stage' = "copy" /\ file' = file + 1
  /\ UNCHANGED <<reg, tree, command, root, nth, walkvars, unit, outcome, checked>>

CopyBreaks ==
  /\ stage = "write" /\ End("io")
  /\ UNCHANGED <<reg, tree, dest, command, root, checked>>

NextUnit ==
  /\ Copying /\ file > Len(Unit.files)
  /\ unit' = unit + 1 /\ file' = 1
  /\ UNCHANGED <<reg, tree, dest, command, root, nth, walkvars, stage, outcome,
                 checked>>

CopyEnds ==
  /\ stage = "copy" /\ unit > Len(seen) /\ End("ok")
  /\ UNCHANGED <<reg, tree, dest, command, root, checked>>

------------------------------------------------------------------------------
(* cmdCheck *)
Problem(c) ==
  \/ \E k \in 1..Len(c.files) : c.files[k] \in Unsafe \/ c.files[k] \notin tree
  \/ \E k \in 1..Len(c.dependencies) : ~Known(c.dependencies[k])

CheckReports ==
  /\ stage = "report"
  /\ IF \E k \in 1..Len(reg) : Problem(reg[k])
       THEN End("problems") /\ UNCHANGED <<root, checked>>
     ELSE IF reg = << >>
       THEN End("ok") /\ checked' = TRUE /\ UNCHANGED root
     ELSE Walk(reg[1].name) /\ UNCHANGED <<nth, copyvars, outcome, checked>>
  /\ UNCHANGED <<reg, tree, dest, command>>

(* The first component's closure is taken for all: a mutant of CheckNext. *)
CheckFirst ==
  /\ Walked /\ command = "check"
  /\ End("ok") /\ checked' = TRUE /\ UNCHANGED root
  /\ UNCHANGED <<reg, tree, dest, command>>

CheckNext ==
  /\ Walked /\ command = "check"
  /\ IF nth = Len(reg)
       THEN End("ok") /\ checked' = TRUE /\ UNCHANGED root
       ELSE /\ nth' = nth + 1 /\ Walk(reg[nth + 1].name)
            /\ UNCHANGED <<copyvars, outcome, checked>>
  /\ UNCHANGED <<reg, tree, dest, command>>

Next ==
  \/ \E cmd \in {"info", "add", "dry"}, n \in Names : Start(cmd, n)
  \/ StartCheck \/ Kill
  \/ Visit \/ NextDependency \/ Leave
  \/ InfoEnds \/ CopyBegins \/ CopyUnsafe \/ CopyDry \/ CopyFails \/ CopyOpens
  \/ CopyWrites \/ CopyBreaks \/ NextUnit \/ CopyEnds
  \/ CheckReports \/ CheckNext

Spec == Init /\ [][Next]_vars

------------------------------------------------------------------------------
Typed ==
  /\ reg \in Seq(Components) /\ tree \in SUBSET Files
  /\ dest \in [Files -> {"absent", "partial", "whole"}]
  /\ command \in {"info", "add", "dry", "check"}
  /\ root \in Names \cup {NoName} /\ wanted \in Names \cup {NoName}
  /\ nth \in Nat \ {0} /\ unit \in Nat \ {0} /\ file \in Nat \ {0}
  /\ visiting \in Seq([name : Names, next : Nat]) /\ seen \in Seq(Names)
  /\ stage \in {"idle", "report", "walk", "copy", "write"}
  /\ outcome \in {"none", "ok", "killed", "cycle", "unknown", "unsafe", "missing",
                  "io", "problems"}
  /\ checked \in BOOLEAN
  /\ stage = "walk" /\ command = "check" => nth <= Len(reg)

(* cmdAdd's loops stay within their lists, or stand at the end. *)
TypeOK ==
  /\ Typed
  /\ unit <= Len(seen) + 1
  /\ stage \in {"copy", "write"} /\ unit <= Len(seen) => file <= Len(Unit.files) + 1

(* A component comes after all it depends on, and once: the order in which its
   files can be added to a build. *)
DependenciesFirst ==
  /\ \A i, j \in 1..Len(seen) : seen[i] = seen[j] => i = j
  /\ \A i \in 1..Len(seen) : \A d \in Elements(Dependencies(seen[i])) :
       \E j \in 1..i-1 : seen[j] = d

(* What is in every set that holds n and the dependencies of its members. *)
Reachable(n) ==
  {m \in Names :
     \A S \in SUBSET Names :
       (n \in S /\ \A k \in S : Known(k) => Elements(Dependencies(k)) \subseteq S)
         => m \in S}

LeadsToCycle(n) ==
  \E m \in Reachable(n) :
    Known(m) /\ \E d \in Elements(Dependencies(m)) : m \in Reachable(d)

(* The walk ends with what can be reached, nothing more or less, unless there
   is a cycle; when it fails there is a cycle or an unknown name to blame. *)
WalkIsExact ==
  /\ Walked => Elements(seen) = Reachable(root) /\ ~LeadsToCycle(root)
  /\ outcome = "cycle" => LeadsToCycle(root)
  /\ outcome = "unknown" => \E n \in Reachable(root) : ~Known(n)

(* What passed the check can be installed: whatever the command and the
   component, only the names given and the file system can fail it. *)
CheckedRegistryAdds ==
  checked /\ Known(root) =>
    outcome \notin {"cycle", "unknown", "unsafe", "missing", "problems"}

(* The files of n that no other component has. *)
Own(n) ==
  Elements(Find(n).files) \
    UNION {Elements(Find(m).files) : m \in {m \in Names \ {n} : Known(m)}}

(* However often add fails or is stopped half way: a component's files appear
   only after those of its dependencies, and once add succeeds the closure is
   all there. *)
InstallsClosure ==
  /\ \A n \in Names : Known(n) =>
       \A f \in Own(n) : dest[f] # "absent" =>
         \A d \in Elements(Dependencies(n)) : \A g \in Elements(Find(d).files) :
           dest[g] # "absent"
  /\ command = "add" /\ outcome = "ok" =>
       \A n \in Reachable(root) : \A f \in Elements(Find(n).files) :
         dest[f] = "whole"
==============================================================================
