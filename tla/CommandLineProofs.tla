-------------------------- MODULE CommandLineProofs --------------------------
(***************************************************************************)
(* Theorems about CommandLine, for every set of invocations, every timeout *)
(* and whatever the terminal answers: the mode the terminal is left in,    *)
(* the query inside the program, that failures are said and that colours   *)
(* are off when they are switched off.                                     *)
(***************************************************************************)
EXTENDS CommandLine, WellFoundedInduction, TLAPS

(* The mode the terminal is in when no query runs: the TUI's between initscr
   and its end, else the one it was found in. *)
Home == IF pc \in {"colours", "screen"} THEN "curses" ELSE "canonical"

(* A query is run for the colours of the screen or of a page, knows the mode to
   go back to, and has left it only behind its first step. *)
ModeInv ==
  /\ at # "away" => pc \in {"screen", "paint"}
  /\ at \in {"away", "open"} => mode = Home
  /\ at \notin {"away", "open"} => mode = "raw" /\ saved = Home

LEMMA InitMode == Init => ModeInv
  BY DEF Init, Query!Init, ModeInv, Home

(* Most steps of the program leave the terminal alone, and lead from a place
   outside the TUI to another. *)
LEMMA AloneKeepsMode ==
  ASSUME ModeInv, at = "away", UNCHANGED terminal,
         pc \notin {"colours", "screen"}, pc' \notin {"colours", "screen"}
  PROVE  ModeInv'
  BY DEF ModeInv, Home, terminal

(* A theme that is resolved begins a query, or does not. *)
LEMMA ResolveKeepsMode ==
  ASSUME NEW step \in {"screen", "paint"}, ModeInv, at = "away", Resolve(step),
         pc \in {"colours", "screen"} <=> step = "screen"
  PROVE  ModeInv'
<1>1. pc' = step
  BY DEF Resolve
<1>2. mode' = mode /\ saved' = saved /\ at' \in {"away", "open"}
  <2>1. CASE Asks
    BY <2>1 DEF Resolve, Query!Detect
  <2>2. CASE ~Asks
    BY <2>2 DEF Resolve, terminal
  <2> QED
    BY <2>1, <2>2
<1> QED
  BY <1>1, <1>2 DEF ModeInv, Home

LEMMA ProgramKeepsMode ==
  ASSUME ModeInv, Program PROVE ModeInv'
<1> DEFINE Outside == /\ pc \notin {"colours", "screen", "paint"}
                      /\ pc' \notin {"colours", "screen"}
                      /\ UNCHANGED terminal
<1>1. ASSUME Outside PROVE ModeInv'
  BY <1>1, AloneKeepsMode DEF ModeInv
<1> HIDE DEF Outside
<1>2. CASE ExitImmediately
  <2>1. Outside
    BY <1>2 DEF Outside, ExitImmediately, Render
  <2> QED
    BY <1>1, <2>1
<1>3. CASE ScanFails
  <2>1. Outside
    BY <1>3 DEF Outside, ScanFails, End
  <2> QED
    BY <1>1, <2>1
<1>4. CASE FileFails
  <2>1. Outside
    BY <1>4 DEF Outside, FileFails, End
  <2> QED
    BY <1>1, <2>1
<1>5. CASE Load
  <2>1. Outside
    BY <1>5 DEF Outside, Load
  <2> QED
    BY <1>1, <2>1
<1>6. CASE StartHeadless
  <2>1. Outside
    BY <1>6 DEF Outside, StartHeadless
  <2> QED
    BY <1>1, <2>1
<1>7. CASE ReadRequest
  <2>1. Outside
    BY <1>7 DEF Outside, ReadRequest, End, Goto
  <2> QED
    BY <1>1, <2>1
<1>8. CASE ApplyRequest
  <2>1. Outside
    BY <1>8 DEF Outside, ApplyRequest
  <2> QED
    BY <1>1, <2>1
<1>9. CASE NoCommand
  <2>1. Outside
    BY <1>9 DEF Outside, NoCommand, Render
  <2> QED
    BY <1>1, <2>1
<1>10. CASE UnknownCommand
  <2>1. Outside
    BY <1>10 DEF Outside, UnknownCommand, Render, End
  <2> QED
    BY <1>1, <2>1
<1>11. CASE ShowCommandHelp
  <2>1. Outside
    BY <1>11 DEF Outside, ShowCommandHelp, Render
  <2> QED
    BY <1>1, <2>1
<1>12. CASE RefuseWithoutTerminal
  <2>1. Outside
    BY <1>12 DEF Outside, RefuseWithoutTerminal, End
  <2> QED
    BY <1>1, <2>1
<1>13. CASE Invalid
  <2>1. Outside
    BY <1>13 DEF Outside, Invalid, End
  <2> QED
    BY <1>1, <2>1
<1>14. CASE Greet
  <2>1. Outside
    BY <1>14 DEF Outside, Greet, Runs, End
  <2> QED
    BY <1>1, <2>1
<1>15. CASE ShowInfo
  <2>1. Outside
    BY <1>15 DEF Outside, ShowInfo, Runs, End
  <2> QED
    BY <1>1, <2>1
<1>16. CASE PrintContract
  <2>1. Outside
    BY <1>16 DEF Outside, PrintContract, Runs, End
  <2> QED
    BY <1>1, <2>1
<1>17. CASE Examine
  <2>1. Outside
    BY <1>17 DEF Outside, Examine, Runs, End, Enter
  <2> QED
    BY <1>1, <2>1
<1>18. CASE Report
  <2>1. Outside
    BY <1>18 DEF Outside, Report, End
  <2> QED
    BY <1>1, <2>1
<1>19. CASE OpenMenu
  <2>1. Outside
    BY <1>19 DEF Outside, OpenMenu, Runs, Enter
  <2> QED
    BY <1>1, <2>1
<1>20. CASE RefuseJson
  <2>1. Outside
    BY <1>20 DEF Outside, RefuseJson, End
  <2> QED
    BY <1>1, <2>1
<1>21. CASE NotCompiled
  <2>1. Outside
    BY <1>21 DEF Outside, NotCompiled, End
  <2> QED
    BY <1>1, <2>1
<1>22. CASE StartTui
  <2>1. Outside
    BY <1>22 DEF Outside, StartTui, Goto
  <2> QED
    BY <1>1, <2>1
<1>23. CASE TuiReturns
  <2>1. Outside
    BY <1>23 DEF Outside, TuiReturns, End
  <2> QED
    BY <1>1, <2>1
<1>24. CASE Initscr
  BY <1>24 DEF Initscr, ModeInv, Home
<1>25. CASE TuiInitFails
  BY <1>25 DEF TuiInitFails, ModeInv, Home
<1>26. CASE InitColors
  <2>1. pc = "colours" /\ at = "away"
    BY <1>26 DEF InitColors, ModeInv
  <2>2. CASE Resolve("screen")
    BY <2>1, <2>2, ResolveKeepsMode
  <2>3. CASE Goto("screen")
    BY <2>1, <2>3 DEF Goto, terminal, ModeInv, Home
  <2> QED
    BY <1>26, <2>2, <2>3 DEF InitColors
<1>27. CASE StartPage
  <2>1. pc = "render" /\ at = "away"
    BY <1>27 DEF StartPage, ModeInv
  <2>2. CASE Resolve("paint")
    BY <2>1, <2>2, ResolveKeepsMode
  <2>3. CASE Goto("paint")
    BY <2>1, <2>3 DEF Goto, terminal, ModeInv, Home
  <2> QED
    BY <1>27, <2>2, <2>3 DEF StartPage
<1>28. CASE Paint
  BY <1>28, AloneKeepsMode DEF Paint, End
<1>29. CASE TooManyArguments
  <2>1. Outside
    BY <1>29 DEF Outside, TooManyArguments, End
  <2> QED
    BY <1>1, <2>1
<1> QED
  BY <1>2, <1>3, <1>4, <1>5, <1>6, <1>7, <1>8, <1>9, <1>10, <1>11, <1>12, <1>13,
     <1>14, <1>15, <1>16, <1>17, <1>18, <1>19, <1>20, <1>21, <1>22, <1>23, <1>24,
     <1>25, <1>26, <1>27, <1>28, <1>29 DEF Program

LEMMA AskKeepsMode ==
  ASSUME ModeInv, Ask PROVE ModeInv'
<1>1. pc' = pc /\ Home' = Home
  BY DEF Ask, front, Home
<1>2. pc \in {"screen", "paint"}
  BY DEF Ask, ModeInv, Query!Step, Query!SetupFails, Query!SetRaw, Query!Write, Query!WriteFails,
     Query!Poll, Query!PollFails, Query!Read, Query!ReadFails, Query!GiveUp, Query!Restore
<1>3. CASE Query!SetupFails
  BY <1>1, <1>2, <1>3 DEF Query!SetupFails, Query!Commit, ModeInv
<1>4. CASE Query!SetRaw
  BY <1>1, <1>2, <1>4 DEF Query!SetRaw, ModeInv
<1>5. CASE Query!Write
  BY <1>1, <1>2, <1>5 DEF Query!Write, ModeInv
<1>6. CASE Query!WriteFails
  BY <1>1, <1>2, <1>6 DEF Query!WriteFails, ModeInv
<1>7. CASE Query!Poll
  BY <1>1, <1>2, <1>7 DEF Query!Poll, ModeInv
<1>8. CASE Query!PollFails
  BY <1>1, <1>2, <1>8 DEF Query!PollFails, ModeInv
<1>9. CASE Query!Read
  BY <1>1, <1>2, <1>9 DEF Query!Read, ModeInv
<1>10. CASE Query!ReadFails
  BY <1>1, <1>2, <1>10 DEF Query!ReadFails, ModeInv
<1>11. CASE Query!GiveUp
  BY <1>1, <1>2, <1>11 DEF Query!GiveUp, ModeInv
<1>12. CASE Query!Restore
  BY <1>1, <1>2, <1>12 DEF Query!Restore, Query!Commit, ModeInv
<1> QED
  BY <1>3, <1>4, <1>5, <1>6, <1>7, <1>8, <1>9, <1>10, <1>11, <1>12 DEF Ask, Query!Step

LEMMA NextMode == ModeInv /\ [Next]_vars => ModeInv'
<1> SUFFICES ASSUME ModeInv, [Next]_vars PROVE ModeInv'
  OBVIOUS
<1>1. CASE Program
  BY <1>1, ProgramKeepsMode
<1>2. CASE CloseTui
  BY <1>2 DEF CloseTui, ModeInv, Home
<1>3. CASE Ask
  BY <1>3, AskKeepsMode
<1>4. CASE Happen
  BY <1>4 DEF Happen, front, Query!Arrive, Query!Type, ModeInv, Home
<1>5. CASE UNCHANGED vars
  BY <1>5 DEF vars, front, terminal, ModeInv, Home
<1> QED
  BY <1>1, <1>2, <1>3, <1>4, <1>5 DEF Next

------------------------------------------------------------------------------
(* A program that has ended has left the terminal as it found it: tui_cleanup
   and the query undo what they did, also when tui_init fails halfway or the
   terminal was asked from inside the TUI.  (A signal that kills the program
   during the query is none of its ends.) *)
THEOREM TerminalLeftAsFound == Spec => []LeftAsFound
<1>1. ModeInv => LeftAsFound
  BY DEF ModeInv, Home, LeftAsFound
<1> QED
  BY InitMode, NextMode, <1>1, PTL DEF Spec

(* main does not go on while the terminal is asked. *)
LEMMA ProgramWaits ==
  ASSUME ModeInv, Program PROVE pc # "done" /\ at = "away"
<1>1. pc # "done" /\ pc # "screen" /\ (pc = "paint" => at = "away")
  BY DEF Program, ExitImmediately, ScanFails, FileFails, TooManyArguments, Load, StartHeadless,
     ReadRequest, ApplyRequest, NoCommand, UnknownCommand, ShowCommandHelp, RefuseWithoutTerminal,
     Invalid, Greet, ShowInfo, PrintContract, Examine, Report, OpenMenu, RefuseJson,
     NotCompiled, StartTui, Initscr, TuiInitFails, InitColors, TuiReturns, StartPage,
     Paint, Runs
<1> QED
  BY <1>1 DEF ModeInv

(* The terminal is asked only where a page or the TUI waits for the answer:
   nothing is written to it or read from it by anything else meanwhile. *)
THEOREM NobodyWritesWhileAsking == Spec => QuietWhileAsking
<1>1. ModeInv /\ [Next]_vars => [at # "away" => UNCHANGED <<pc, stdout, stderr>>]_vars
  <2> SUFFICES ASSUME ModeInv, Next, at # "away"
               PROVE  UNCHANGED <<pc, stdout, stderr>>
    BY Zenon
  <2>1. ~Program
    BY ProgramWaits
  <2>2. ~CloseTui
    BY DEF CloseTui
  <2> QED
    BY <2>1, <2>2 DEF Next, Ask, Happen, front
<1> QED
  BY InitMode, NextMode, <1>1, PTL DEF Spec, QuietWhileAsking

------------------------------------------------------------------------------
AskInv == at # "away" => Asks

(* What is off by the environment is off for the probe, which knows no flags. *)
LEMMA OffSkipsProbe ==
  ASSUME NEW env, Off(env)
  PROVE  SkipsProbe(env)
<1>1. CASE env.FORCE_COLOR = "unset" /\ env.CLICOLOR_FORCE # "1" /\ env.CLICOLOR = "0"
  BY <1>1 DEF EnvForce, SkipsProbe, HardDisabled
<1>2. CASE env.FORCE_COLOR = "0"
  BY <1>2 DEF EnvForce, SkipsProbe, HardDisabled
<1>3. CASE env.NO_COLOR \/ env.APP_CLI_COLOR = "never" \/ env.TERM = "dumb"
  BY <1>3, Zenon DEF SkipsProbe, HardDisabled
<1> QED
  BY <1>1, <1>2, <1>3, Zenon DEF Off, OffForAll

(* Whoever is asking was told to: the call does not change meanwhile. *)
LEMMA NextAsk == AskInv /\ [Next]_vars => AskInv'
<1> SUFFICES ASSUME AskInv, [Next]_vars PROVE AskInv'
  OBVIOUS
<1>1. CASE at' = at /\ call' = call
  BY <1>1 DEF AskInv, Asks, StyledBuild
<1>2. CASE \E step \in {"screen", "paint"} : Resolve(step)
  <2>1. CASE Asks
    <3>1. call' = call
      BY <1>2 DEF Resolve
    <3> QED
      BY <2>1, <3>1 DEF AskInv, Asks, StyledBuild
  <2>2. CASE ~Asks
    BY <1>1, <1>2, <2>2 DEF Resolve, terminal
  <2> QED
    BY <2>1, <2>2
<1>3. CASE Program
  BY <1>1, <1>2, <1>3 DEF Program, ExitImmediately, ScanFails, FileFails, TooManyArguments, Load,
     StartHeadless, ReadRequest, ApplyRequest, NoCommand, UnknownCommand, ShowCommandHelp,
     RefuseWithoutTerminal, Invalid, Greet, ShowInfo, PrintContract, Examine, Report, OpenMenu,
     RefuseJson, NotCompiled, StartTui, Initscr, TuiInitFails, InitColors, TuiReturns,
     StartPage, Paint, Runs, End, Goto, Enter, Render, terminal
<1>4. CASE Ask
  <2>1. at # "away" /\ call' = call
    BY <1>4 DEF Ask, front, Query!Step, Query!SetupFails, Query!SetRaw, Query!Write,
       Query!WriteFails, Query!Poll, Query!PollFails, Query!Read, Query!ReadFails,
       Query!GiveUp, Query!Restore
  <2> QED
    BY <2>1 DEF AskInv, Asks, StyledBuild
<1>5. CASE CloseTui
  BY <1>1, <1>5 DEF CloseTui
<1>6. CASE Happen
  BY <1>1, <1>6 DEF Happen, front, Query!Arrive, Query!Type
<1>7. CASE UNCHANGED vars
  BY <1>1, <1>7 DEF vars, front, terminal
<1> QED
  BY <1>3, <1>4, <1>5, <1>6, <1>7 DEF Next

------------------------------------------------------------------------------
(***************************************************************************)
(* The query by itself, for every timeout, slice, size of the buffer,      *)
(* answer and key, and whoever runs it.                                    *)
(***************************************************************************)

(* A colour is only remembered by a query that is over. *)
Remembered == probed => at = "away"

QueryInv == Query!TypeOK /\ Query!TerminalRestored /\ Query!QueryBounded /\ Remembered

LEMMA MinimumExists ==
  ASSUME NEW S \in SUBSET Nat, S # {}
  PROVE  \E k \in S : \A m \in S : k <= m
<1>1. PICK k \in S : \A m \in S : <<m, k>> \notin OpToRel(<, Nat)
  BY WFMin, NatLessThanWellFounded, Zenon
<1>2. ASSUME NEW m \in S PROVE k <= m
  <2>1. ~(m < k)
    BY <1>1, Zenon DEF OpToRel
  <2> QED
    BY <2>1
<1> QED
  BY <1>2

(* The parser finds a colour or none, whatever it is given. *)
LEMMA ParseIsColour ==
  ASSUME NEW text \in Seq(STRING)
  PROVE  Query!Parse(text) \in Query!Background
<1>1. CASE Query!AnswersAt(text) = {}
  BY <1>1 DEF Query!Parse, Query!Background
<1>2. CASE Query!AnswersAt(text) # {}
  <2>1. Query!AnswersAt(text) \subseteq DOMAIN text /\ DOMAIN text \subseteq Nat
    <3>1. Query!AnswersAt(text) \subseteq DOMAIN text
      BY Zenon DEF Query!AnswersAt
    <3> QED
      BY <3>1
  <2>2. \E k \in Query!AnswersAt(text) : \A m \in Query!AnswersAt(text) : k <= m
    BY <1>2, <2>1, MinimumExists
  <2> DEFINE k == CHOOSE k \in Query!AnswersAt(text) : \A m \in Query!AnswersAt(text) : k <= m
  <2>3. k \in Query!AnswersAt(text)
    BY <2>2
  <2>4. text[k + 1] \in {"light", "dark"}
    BY <2>3 DEF Query!AnswersAt
  <2>5. Query!Parse(text) = text[1 + k] /\ k \in Nat
    BY <1>2, <2>1, <2>3 DEF Query!Parse
  <2>6. 1 + k = k + 1
    BY <2>5
  <2> QED
    BY <2>4, <2>5, <2>6 DEF Query!Background
<1> QED
  BY <1>1, <1>2

(* What a read takes leaves a byte to spare, and both parts are sequences. *)
LEMMA ReadFits ==
  ASSUME buf \in Seq(STRING), tty \in Seq(STRING), Len(buf) < BufferSize
  PROVE  /\ buf \o SubSeq(tty, 1, Query!Taken) \in Seq(STRING)
         /\ SubSeq(tty, Query!Taken + 1, Len(tty)) \in Seq(STRING)
         /\ Len(buf \o SubSeq(tty, 1, Query!Taken)) < BufferSize
<1>1. Query!Taken \in 0..Len(tty) /\ Len(buf) + Query!Taken < BufferSize
  BY BufferAssumption DEF Query!Taken, Query!Room
<1>2. SubSeq(tty, 1, Query!Taken) \in Seq(STRING) /\ Len(SubSeq(tty, 1, Query!Taken)) = Query!Taken
  BY <1>1
<1>3. SubSeq(tty, Query!Taken + 1, Len(tty)) \in Seq(STRING)
  BY <1>1
<1> QED
  BY <1>1, <1>2, <1>3

(* A slice is taken off in whole, and no more than is left. *)
LEMMA SliceFits ==
  ASSUME remaining \in 0..Timeout, elapsed \in 0..Timeout, elapsed + remaining <= Timeout
  PROVE  /\ Query!ThisSlice \in 0..remaining
         /\ \A t \in elapsed..elapsed + Query!ThisSlice :
              t \in 0..Timeout /\ t + (remaining - Query!ThisSlice) <= Timeout
         /\ remaining - Query!ThisSlice \in 0..Timeout
  BY TimesAssumption DEF Query!ThisSlice

------------------------------------------------------------------------------
LEMMA QueryInitially == Query!Init => QueryInv
<1> SUFFICES ASSUME Query!Init PROVE QueryInv
  OBVIOUS
<1>1. probed \in BOOLEAN /\ failed \in BOOLEAN
  BY Zenon DEF Query!Init
<1>2. ~probed /\ Remembered
  BY Zenon DEF Query!Init, Remembered
<1>3. Query!TypeOK
  BY <1>1, TimesAssumption, KeysAssumption DEF Query!Init, Query!TypeOK, Query!Modes, Query!Background
<1>4. Query!TerminalRestored /\ Query!QueryBounded
  BY TimesAssumption, BufferAssumption DEF Query!Init, Query!TerminalRestored, Query!QueryBounded
<1> QED
  BY <1>2, <1>3, <1>4 DEF QueryInv

(* Each step keeps all four. *)
LEMMA QueryKept == QueryInv /\ [Query!Next]_Query!vars => QueryInv'
<1> SUFFICES ASSUME QueryInv, [Query!Next]_Query!vars PROVE QueryInv'
  OBVIOUS
<1> USE TimesAssumption, BufferAssumption
<1> USE DEF QueryInv, Query!TypeOK, Query!TerminalRestored, Query!QueryBounded, Remembered, Query!Modes
<1>1. CASE Query!Detect(FALSE)
  <2>1. probed' \in BOOLEAN /\ failed' \in BOOLEAN /\ Remembered'
    BY <1>1, Zenon DEF Query!Detect
  <2>2. Query!TypeOK' /\ Query!TerminalRestored' /\ Query!QueryBounded'
    BY <1>1, <2>1, KeysAssumption DEF Query!Detect
  <2> QED
    BY <2>1, <2>2, Zenon
<1>2. CASE Query!SetupFails
  BY <1>2 DEF Query!SetupFails, Query!Commit
<1>3. CASE Query!SetRaw
  BY <1>3 DEF Query!SetRaw
<1>4. CASE Query!Write
  BY <1>4, AnswersAssumption DEF Query!Write
<1>5. CASE Query!WriteFails
  BY <1>5 DEF Query!WriteFails
<1>6. CASE Query!Poll
  BY <1>6, SliceFits DEF Query!Poll
<1>7. CASE Query!PollFails
  BY <1>7, SliceFits DEF Query!PollFails
<1>8. CASE Query!Read
  BY <1>8, ReadFits DEF Query!Read
<1>9. CASE Query!ReadFails
  BY <1>9 DEF Query!ReadFails
<1>10. CASE Query!GiveUp
  BY <1>10 DEF Query!GiveUp
<1>11. CASE Query!Restore
  <2>1. Query!Parse(buf) \in Query!Background
    BY ParseIsColour
  <2> QED
    BY <1>11, <2>1 DEF Query!Restore, Query!Commit
<1>12. CASE Query!Arrive
  BY <1>12 DEF Query!Arrive
<1>13. CASE Query!Type
  BY <1>13, KeysAssumption DEF Query!Type
<1>14. CASE Query!SwitchMode
  <2>1. tty' \in Seq(STRING)
    <3>1. tty' = tty \/ tty' = << >>
      BY <1>14, Zenon DEF Query!SwitchMode
    <3>2. tty \in Seq(STRING) /\ << >> \in Seq(STRING)
      OBVIOUS
    <3> QED
      BY <3>1, <3>2, Zenon
  <2>2. /\ at = "away" /\ mode' \in Query!Modes \ {"raw"}
        /\ UNCHANGED <<saved, at, remaining, elapsed, buf, owed, typed, probed, cached, failed>>
    BY <1>14, Zenon DEF Query!SwitchMode
  <2> QED
    BY <2>1, <2>2
<1>15. CASE UNCHANGED Query!vars
  BY <1>15 DEF Query!vars, Query!query
<1> QED
  BY <1>1, <1>2, <1>3, <1>4, <1>5, <1>6, <1>7, <1>8, <1>9, <1>10, <1>11, <1>12, <1>13,
     <1>14, <1>15 DEF Query!Next, Query!Step

(* The safety part of Query!Spec is enough for the invariant. *)
LEMMA QueryInvariant == Query!Init /\ [][Query!Next]_Query!vars => []QueryInv
  BY QueryInitially, QueryKept, PTL

------------------------------------------------------------------------------
(* The variables keep their types. *)
THEOREM QueryTypeCorrect == Query!Spec => []Query!TypeOK
<1>1. QueryInv => Query!TypeOK
  BY DEF QueryInv
<1> QED
  BY QueryInvariant, <1>1, PTL DEF Query!Spec

(* The raw mode is on exactly while a query runs: app_cli_osc11_query_fd sets it
   back on every way out behind its first tcsetattr, a failed or short write, a
   used up timeout and a full buffer included. *)
THEOREM TerminalIsRestored == Query!Spec => []Query!TerminalRestored
<1>1. QueryInv => Query!TerminalRestored
  BY DEF QueryInv
<1> QED
  BY QueryInvariant, <1>1, PTL DEF Query!Spec

(* The loop of app_cli_osc11_query_fd waits no longer than its timeout, in
   whatever pieces the answer comes, and never reads past its buffer. *)
THEOREM QueryIsBounded == Query!Spec => []Query!QueryBounded
<1>1. QueryInv => Query!QueryBounded
  BY DEF QueryInv
<1> QED
  BY QueryInvariant, <1>1, PTL DEF Query!Spec

(* A colour that is remembered stays, and no query begins any more. *)
LEMMA AskedStep ==
  QueryInv /\ [Query!Next]_Query!vars
    => [probed => at' = "away" /\ probed' /\ cached' = cached]_Query!vars
<1> SUFFICES ASSUME QueryInv, Query!Next, probed
             PROVE  at' = "away" /\ probed' /\ cached' = cached
  BY Zenon
<1>1. at = "away"
  BY DEF QueryInv, Remembered
<1>2. ~Query!Detect(FALSE) /\ ~Query!Step
  BY <1>1 DEF Query!Detect, Query!Step, Query!SetupFails, Query!SetRaw,
     Query!Write, Query!WriteFails, Query!Poll, Query!PollFails, Query!Read, Query!ReadFails,
     Query!GiveUp, Query!Restore
<1>3. CASE Query!Arrive
  BY <1>1, <1>3, Zenon DEF Query!Arrive
<1>4. CASE Query!Type
  BY <1>1, <1>4 DEF Query!Type
<1>5. CASE Query!SwitchMode
  BY <1>1, <1>5, Zenon DEF Query!SwitchMode
<1> QED
  BY <1>2, <1>3, <1>4, <1>5 DEF Query!Next

(* app_cli_term_detect_background asks at most once and keeps what it found. *)
THEOREM TerminalIsAskedOnce == Query!Spec => Query!AskedOnce
  BY QueryInvariant, AskedStep, PTL DEF Query!Spec, Query!AskedOnce

------------------------------------------------------------------------------
(* Outside a query the program only switches the terminal's mode, or leaves it
   alone; and it begins one as BackgroundQuery does. *)
LEMMA ProgramIsQuery ==
  ASSUME ModeInv, Program PROVE [Query!Next]_Query!vars
<1> DEFINE Alone == UNCHANGED terminal
<1>1. ASSUME Alone PROVE [Query!Next]_Query!vars
  BY <1>1 DEF terminal, Query!vars, Query!query
<1> HIDE DEF Alone
<1>2. CASE Initscr
  <2>1. at = "away" /\ mode = "canonical"
    BY <1>2 DEF Initscr, ModeInv, Home
  <2>2. Query!SwitchMode
    BY <1>2, <2>1 DEF Initscr, Query!SwitchMode, Query!Modes
  <2> QED
    BY <2>2 DEF Query!Next
<1>3. CASE TuiInitFails
  <2>1. at = "away" /\ mode = Home
    BY <1>3 DEF TuiInitFails, ModeInv
  <2>2. CASE pc = "initscr"
    BY <1>3, <2>1, <2>2 DEF TuiInitFails, Home, Query!vars, Query!query
  <2>3. CASE pc = "colours"
    <3>1. Query!SwitchMode
      BY <1>3, <2>1, <2>3 DEF TuiInitFails, Home, Query!SwitchMode, Query!Modes
    <3> QED
      BY <3>1 DEF Query!Next
  <2> QED
    BY <1>3, <2>2, <2>3 DEF TuiInitFails
<1>4. ASSUME NEW step, Resolve(step) PROVE [Query!Next]_Query!vars
  <2>1. CASE Asks
    BY <1>4, <2>1 DEF Resolve, Query!Next
  <2>2. CASE ~Asks
    BY <1>1, <1>4, <2>2 DEF Resolve, Alone
  <2> QED
    BY <2>1, <2>2
<1>5. ASSUME NEW step, Goto(step) PROVE Alone
  BY <1>5 DEF Goto, Alone, terminal
<1>6. CASE InitColors
  BY <1>1, <1>4, <1>5, <1>6 DEF InitColors
<1>7. CASE StartPage
  BY <1>1, <1>4, <1>5, <1>7 DEF StartPage
<1>8. ASSUME ~Initscr, ~TuiInitFails, ~InitColors, ~StartPage PROVE Alone
  BY <1>8 DEF Alone, Program, ExitImmediately, ScanFails, FileFails, TooManyArguments, Load,
     StartHeadless, ReadRequest, ApplyRequest, NoCommand, UnknownCommand, ShowCommandHelp,
     RefuseWithoutTerminal, Invalid, Greet, ShowInfo, PrintContract, Examine, Report, OpenMenu,
     RefuseJson, NotCompiled, StartTui, TuiReturns, Paint, Runs, End, Goto, Enter, Render
<1> QED
  BY <1>1, <1>2, <1>3, <1>6, <1>7, <1>8

(* The whole program implements the query: whatever it does to the terminal, in
   the TUI, for a page or for the doctor, is a step of BackgroundQuery. *)
THEOREM ImplementsQuery == Spec => Query!Init /\ [][Query!Next]_Query!vars
<1>1. Init => Query!Init
  BY DEF Init
<1>2. ModeInv /\ [Next]_vars => [Query!Next]_Query!vars
  <2> SUFFICES ASSUME ModeInv, [Next]_vars PROVE [Query!Next]_Query!vars
    OBVIOUS
  <2>1. CASE Program
    BY <2>1, ProgramIsQuery
  <2>2. CASE CloseTui
    <3>1. mode = "curses"
      BY <2>2 DEF CloseTui, ModeInv, Home
    <3>2. Query!SwitchMode
      BY <2>2, <3>1 DEF CloseTui, Query!SwitchMode, Query!Modes
    <3> QED
      BY <3>2 DEF Query!Next
  <2>3. CASE Ask
    BY <2>3 DEF Ask, Query!Next
  <2>4. CASE Happen
    BY <2>4 DEF Happen, Query!Next
  <2>5. CASE UNCHANGED vars
    BY <2>5 DEF vars, terminal, Query!vars, Query!query
  <2> QED
    BY <2>1, <2>2, <2>3, <2>4, <2>5 DEF Next
<1> QED
  BY <1>1, <1>2, InitMode, NextMode, PTL DEF Spec

(* So what holds of the query holds of it inside the program: the mode is raw
   only while one runs, it stays in its time and its buffer, and one is asked at
   most once in a run, whatever the arguments and the environment. *)
THEOREM QueryInProgram ==
  Spec => [](Query!TerminalRestored /\ Query!QueryBounded) /\ Query!AskedOnce
<1>1. QueryInv => Query!TerminalRestored /\ Query!QueryBounded
  BY DEF QueryInv
<1>2. QueryInv /\ [Query!Next]_Query!vars
        => [probed => at' = "away" /\ probed' /\ cached' = cached]_Query!vars
  BY AskedStep
<1> QED
  BY ImplementsQuery, QueryInvariant, <1>1, <1>2, PTL DEF Query!AskedOnce

------------------------------------------------------------------------------
(***************************************************************************)
(* What is written: sequences of tokens of some kinds.                     *)
(***************************************************************************)

Tokens(s) == {s[k] : k \in DOMAIN s}
Only(s, kinds) == s \in Seq(Tokens(s)) /\ \A k \in DOMAIN s : s[k][1] \in kinds

LEMMA SeqOfTokens ==
  ASSUME NEW S, NEW s \in Seq(S) PROVE s \in Seq(Tokens(s))
<1>1. Len(s) \in Nat /\ DOMAIN s = 1..Len(s) /\ s = [k \in 1..Len(s) |-> s[k]]
  OBVIOUS
<1>2. \A k \in 1..Len(s) : s[k] \in Tokens(s)
  BY <1>1 DEF Tokens
<1>3. [k \in 1..Len(s) |-> s[k]] \in Seq(Tokens(s))
  BY <1>1, <1>2
<1> QED
  BY <1>1, <1>3

LEMMA OnlyFrom ==
  ASSUME NEW kinds, NEW S, \A t \in S : t[1] \in kinds, NEW s \in Seq(S)
  PROVE  Only(s, kinds)
<1>1. \A k \in DOMAIN s : s[k] \in S
  OBVIOUS
<1> QED
  BY <1>1, SeqOfTokens DEF Only

LEMMA OneIsOnly ==
  ASSUME NEW kinds, NEW kind \in kinds, NEW x PROVE Only(<<<<kind, x>>>>, kinds)
<1>1. <<<<kind, x>>>> \in Seq({<<kind, x>>})
  OBVIOUS
<1>2. \A t \in {<<kind, x>>} : t[1] \in kinds
  OBVIOUS
<1> QED
  BY <1>1, <1>2, OnlyFrom

LEMMA NoneIsOnly ==
  ASSUME NEW kinds PROVE Only(<< >>, kinds)
<1>1. << >> \in Seq({})
  OBVIOUS
<1> QED
  BY <1>1, OnlyFrom

LEMMA JoinedIsOnly ==
  ASSUME NEW kinds, NEW a, NEW b, Only(a, kinds), Only(b, kinds)
  PROVE  Only(a \o b, kinds)
<1> DEFINE S == Tokens(a) \cup Tokens(b)
<1>1. a \in Seq(S) /\ b \in Seq(S)
  BY DEF Only
<1>2. \A t \in S : t[1] \in kinds
  BY DEF Only, Tokens
<1> HIDE DEF S
<1>3. a \o b \in Seq(S)
  BY <1>1
<1> QED
  BY <1>2, <1>3, OnlyFrom

LEMMA MoreKinds ==
  ASSUME NEW few, NEW kinds, few \subseteq kinds, NEW s, Only(s, few)
  PROVE  Only(s, kinds)
BY DEF Only

(* A row of texts, one after another. *)
IsFlat(f, seqs) ==
  f = [i \in 1..Len(seqs) |-> IF i = 1 THEN seqs[i] ELSE f[i - 1] \o seqs[i]]

LEMMA FlatExists ==
  ASSUME NEW seqs, Len(seqs) \in Nat PROVE \E f : IsFlat(f, seqs)
<1> DEFINE Is(f, m) == f = [i \in 1..m |-> IF i = 1 THEN seqs[i] ELSE f[i - 1] \o seqs[i]]
           bad == {m \in Nat : ~\E f : Is(f, m)}
<1>1. CASE bad = {}
  <2>1. Len(seqs) \notin bad
    BY <1>1
  <2> QED
    BY <2>1 DEF IsFlat
<1>2. CASE bad # {}
  <2>1. PICK m \in bad : \A k \in bad : m <= k
    <3>1. bad \in SUBSET Nat
      OBVIOUS
    <3> HIDE DEF bad
    <3> QED
      BY <1>2, <3>1, MinimumExists
  <2>2. m \in Nat /\ ~\E f : Is(f, m)
    OBVIOUS
  <2>3. m # 0
    <3> DEFINE f == [i \in 1..0 |-> << >>]
    <3>1. f = [i \in 1..0 |-> IF i = 1 THEN seqs[i] ELSE f[i - 1] \o seqs[i]]
      OBVIOUS
    <3> QED
      BY <2>2, <3>1
  <2>4. m - 1 \in Nat /\ ~(m <= m - 1)
    BY <2>2, <2>3
  <2>5. PICK g : Is(g, m - 1)
    BY <2>1, <2>4
  <2> DEFINE f == [i \in 1..m |-> IF i = 1 THEN seqs[i]
                                  ELSE IF i = m THEN g[m - 1] \o seqs[m] ELSE g[i]]
  <2>6. ASSUME NEW i \in 1..m
        PROVE  f[i] = IF i = 1 THEN seqs[i] ELSE f[i - 1] \o seqs[i]
    <3>1. CASE i = 1
      BY <3>1
    <3>2. CASE i # 1
      <4>1. i - 1 \in 1..m - 1 /\ i - 1 \in 1..m /\ i - 1 # m
        BY <2>2, <3>2
      <4>2. f[i - 1] = g[i - 1]
        <5>1. CASE i - 1 = 1
          BY <2>5, <4>1, <5>1
        <5>2. CASE i - 1 # 1
          BY <4>1, <5>2
        <5> QED
          BY <5>1, <5>2
      <4>3. CASE i = m
        BY <3>2, <4>2, <4>3
      <4>4. CASE i # m
        <5>1. i \in 1..m - 1
          BY <2>2, <4>4
        <5>2. g[i] = g[i - 1] \o seqs[i]
          BY <2>5, <3>2, <5>1
        <5> QED
          BY <3>2, <4>2, <4>4, <5>2
      <4> QED
        BY <4>3, <4>4
    <3> QED
      BY <3>1, <3>2
  <2>7. Is(f, m)
    <3>1. f = [i \in 1..m |-> f[i]]
      OBVIOUS
    <3> HIDE DEF f
    <3> QED
      BY <2>6, <3>1
  <2> QED
    BY <2>2, <2>7
<1> QED
  BY <1>1, <1>2

LEMMA FlatIsList ==
  ASSUME NEW S, NEW seqs, Len(seqs) \in Nat, \A i \in 1..Len(seqs) : seqs[i] \in Seq(S),
         Len(seqs) = 0 => seqs = << >>
  PROVE  FlattenSeq(seqs) \in Seq(S)
<1> DEFINE n == Len(seqs)
           flat == CHOOSE f : f = [i \in 1..Len(seqs) |->
                                     IF i = 1 THEN seqs[i] ELSE f[i - 1] \o seqs[i]]
           bad == {i \in 1..n : flat[i] \notin Seq(S)}
<1>1. flat = [i \in 1..n |-> IF i = 1 THEN seqs[i] ELSE flat[i - 1] \o seqs[i]]
  <2>1. flat = CHOOSE f : IsFlat(f, seqs)
    BY DEF IsFlat
  <2>2. \E f : IsFlat(f, seqs)
    BY FlatExists
  <2>3. IsFlat(flat, seqs)
    <3> HIDE DEF flat
    <3> QED
      BY <2>1, <2>2, Zenon
  <2> QED
    BY <2>3 DEF IsFlat
<1>2. FlattenSeq(seqs) = IF n = 0 THEN seqs ELSE flat[n]
  BY Zenon DEF FlattenSeq
<1> HIDE DEF flat
<1>3. CASE n = 0
  BY <1>2, <1>3
<1>4. CASE n # 0
  <2>1. bad = {}
    <3>1. SUFFICES ASSUME bad # {} PROVE FALSE
      BY <3>1
    <3>2. PICK m \in bad : \A k \in bad : m <= k
      <4>1. bad \in SUBSET Nat
        OBVIOUS
      <4> HIDE DEF bad
      <4> QED
        BY <3>1, <4>1, MinimumExists
    <3>3. m \in 1..n /\ flat[m] \notin Seq(S)
      OBVIOUS
    <3>4. m # 1
      BY <1>1, <3>3
    <3>5. m - 1 \in 1..n /\ ~(m <= m - 1)
      BY <3>3, <3>4
    <3>6. flat[m - 1] \in Seq(S)
      BY <3>2, <3>5
    <3>7. flat[m] = flat[m - 1] \o seqs[m]
      BY <1>1, <3>3, <3>4
    <3>8. flat[m - 1] \o seqs[m] \in Seq(S)
      BY <3>3, <3>6
    <3> QED
      BY <3>3, <3>7, <3>8
  <2>2. n \in 1..n
    BY <1>4
  <2> QED
    BY <1>2, <1>4, <2>1, <2>2
<1> QED
  BY <1>3, <1>4

------------------------------------------------------------------------------
(* Nothing of it is the beginning of a style. *)
Unstyled ==
  {"mark", "word", "line", "string", "log", "help", "command help", "version"}
Plainly(s) == Only(s, Unstyled)

LEMMA PlainTokens ==
  /\ Plainly(<< >>)
  /\ \A x : /\ Plainly(Mark(x)) /\ Plainly(Word(x)) /\ Plainly(Line(x)) /\ Plainly(Text(x))
            /\ Plainly(Bool(x)) /\ Plainly(Number(x)) /\ Plainly(CommaIf(x)) /\ Plainly(Log(x))
            /\ Plainly(RootText(x)) /\ Plainly(CommandText(x))
  /\ Plainly(VersionText)
<1>1. \A kind \in Unstyled : \A x : Plainly(<<<<kind, x>>>>)
  BY OneIsOnly DEF Plainly
<1>2. Plainly(<< >>)
  BY NoneIsOnly DEF Plainly
<1>3. {"mark", "word", "line", "string", "log", "help", "command help", "version"}
        \subseteq Unstyled
  BY Zenon DEF Unstyled
<1> HIDE DEF Plainly, Unstyled
<1>4. \A x : Plainly(Mark(x))
  BY <1>1, <1>3 DEF Mark
<1>5. \A x : Plainly(Word(x))
  BY <1>1, <1>3 DEF Word
<1>6. \A x : Plainly(Line(x)) /\ Plainly(Text(x)) /\ Plainly(Log(x))
  BY <1>1, <1>3 DEF Line, Text, Log
<1>7. \A x : Plainly(Bool(x)) /\ Plainly(Number(x))
  BY <1>5 DEF Bool, Number
<1>8. \A x : Plainly(CommaIf(x))
  BY <1>2, <1>4 DEF CommaIf
<1>9. \A x : Plainly(RootText(x)) /\ Plainly(CommandText(x))
  BY <1>1, <1>3 DEF RootText, CommandText
<1>10. Plainly(VersionText)
  BY <1>1, <1>3 DEF VersionText
<1> QED
  BY <1>2, <1>4, <1>5, <1>6, <1>7, <1>8, <1>9, <1>10

LEMMA JoinedPlainly ==
  ASSUME NEW a, NEW b, Plainly(a), Plainly(b) PROVE Plainly(a \o b)
BY JoinedIsOnly DEF Plainly

LEMMA PrettyPlainly ==
  /\ \A key, value, comma : Plainly(value) => Plainly(PrettyField(key, value, comma))
  /\ \A items, comma : Plainly(items) => Plainly(PrettyArray(items, comma))
<1>1. ASSUME NEW key, NEW value, NEW comma, Plainly(value)
      PROVE  Plainly(PrettyField(key, value, comma))
  BY <1>1, PlainTokens, JoinedPlainly, Zenon DEF PrettyField
<1>2. ASSUME NEW items, NEW comma, Plainly(items) PROVE Plainly(PrettyArray(items, comma))
  BY <1>2, PlainTokens, JoinedPlainly, Zenon DEF PrettyArray
<1> QED
  BY <1>1, <1>2

IsList(s) == s \in Seq(Tokens(s))

(* A list of lists is flattened to a list of what they hold. *)
LEMMA FlatList ==
  ASSUME NEW S, NEW s, IsList(s), NEW seqs, DOMAIN seqs = DOMAIN s,
         seqs = [k \in DOMAIN s |-> seqs[k]], \A k \in DOMAIN s : seqs[k] \in Seq(S)
  PROVE  FlattenSeq(seqs) \in Seq(S)
<1>1. PICK n \in Nat : DOMAIN s = 1..n
  BY DEF IsList
<1>2. seqs \in Seq({seqs[k] : k \in 1..n}) /\ Len(seqs) = n
  <2>1. seqs = [k \in 1..n |-> seqs[k]] /\ DOMAIN seqs = 1..n
    BY <1>1
  <2>2. seqs \in [1..n -> {seqs[k] : k \in 1..n}]
    BY <2>1, Zenon
  <2> QED
    BY <2>1, <2>2
<1>3. n = 0 => seqs = << >>
  BY <1>2
<1> QED
  BY <1>1, <1>2, <1>3, FlatIsList

LEMMA FlatPlainly ==
  ASSUME NEW s, IsList(s), NEW seqs, DOMAIN seqs = DOMAIN s,
         seqs = [k \in DOMAIN s |-> seqs[k]], \A k \in DOMAIN s : Plainly(seqs[k])
  PROVE  Plainly(FlattenSeq(seqs))
<1> DEFINE S == UNION {Tokens(seqs[k]) : k \in DOMAIN s}
<1>1. ASSUME NEW k \in DOMAIN s
      PROVE  seqs[k] \in Seq(S) /\ \A t \in Tokens(seqs[k]) : t[1] \in Unstyled
  <2>1. seqs[k] \in Seq(Tokens(seqs[k])) /\ \A i \in DOMAIN seqs[k] : seqs[k][i][1] \in Unstyled
    BY Zenon DEF Plainly, Only
  <2>2. Tokens(seqs[k]) \subseteq S
    BY Zenon
  <2> HIDE DEF S
  <2>3. seqs[k] \in Seq(S)
    BY <2>1, <2>2
  <2>4. \A t \in Tokens(seqs[k]) : t[1] \in Unstyled
    BY <2>1, Zenon DEF Tokens
  <2> QED
    BY <2>3, <2>4
<1>2. \A t \in S : t[1] \in Unstyled
  BY <1>1, Zenon
<1> HIDE DEF S
<1>3. FlattenSeq(seqs) \in Seq(S)
  BY <1>1, FlatList
<1> QED
  BY <1>2, <1>3, OnlyFrom DEF Plainly

LEMMA ArgumentsPlainly ==
  ASSUME NEW arguments, IsList(arguments), NEW comma
  PROVE  Plainly(Arguments(arguments, comma))
<1>1. ASSUME NEW a, NEW more PROVE Plainly(Argument(a, more))
  <2>1. Plainly(IF a.maximum = Unbounded THEN Word("null") ELSE Number(a.maximum))
    BY PlainTokens
  <2>2. /\ Plainly(PrettyField("name", Text(a.name), TRUE))
        /\ Plainly(PrettyField("required", Bool(a.required), TRUE))
        /\ Plainly(PrettyField("minimum", Number(a.minimum), TRUE))
        /\ Plainly(PrettyField("maximum", IF a.maximum = Unbounded THEN Word("null")
                                          ELSE Number(a.maximum), FALSE))
        /\ Plainly(Described(FALSE))
    BY <2>1, PlainTokens, PrettyPlainly, Zenon DEF Described, Description
  <2> QED
    BY <2>2, PlainTokens, JoinedPlainly, ZenonT(60) DEF Argument
<1> DEFINE seqs == [k \in DOMAIN arguments |-> Argument(arguments[k], k < Len(arguments))]
<1>2. Plainly(FlattenSeq(seqs))
  <2>1. /\ DOMAIN seqs = DOMAIN arguments /\ seqs = [k \in DOMAIN arguments |-> seqs[k]]
        /\ \A k \in DOMAIN arguments : Plainly(seqs[k])
    BY <1>1
  <2> HIDE DEF seqs
  <2> QED
    BY <2>1, FlatPlainly
<1>3. Plainly(Items(arguments, Argument))
  BY <1>2 DEF Items
<1> QED
  BY <1>3, PlainTokens, PrettyPlainly, JoinedPlainly, Zenon DEF Arguments

LEMMA OptionPlainly ==
  ASSUME NEW name, NEW alias, NEW arguments, IsList(arguments), NEW comma
  PROVE  Plainly(PrintOption(name, alias, arguments, comma))
<1>1. Plainly(Aliases(alias))
  <2>1. Plainly(IF alias = None THEN << >> ELSE Text(alias))
    BY PlainTokens
  <2> QED
    BY <2>1, PlainTokens, PrettyPlainly, JoinedPlainly, Zenon DEF Aliases
<1>2. Plainly(Arguments(arguments, TRUE))
  BY ArgumentsPlainly
<1>3. /\ Plainly(PrettyField("name", Text(name), TRUE))
      /\ Plainly(PrettyField("required", Bool(FALSE), TRUE))
      /\ Plainly(Described(FALSE))
  BY PlainTokens, PrettyPlainly, Zenon DEF Described, Description
<1> QED
  BY <1>1, <1>2, <1>3, PlainTokens, JoinedPlainly, ZenonT(60) DEF PrintOption

LEMMA ExamplesPlainly ==
  ASSUME NEW examples, IsList(examples), NEW comma
  PROVE  Plainly(Examples(examples, comma))
<1> DEFINE seqs == [k \in DOMAIN examples |->
                      Text(examples[k]) \o CommaIf(k < Len(examples))]
<1>1. Plainly(FlattenSeq(seqs))
  <2>1. \A k \in DOMAIN examples : Plainly(seqs[k])
    BY PlainTokens, JoinedPlainly
  <2>2. DOMAIN seqs = DOMAIN examples /\ seqs = [k \in DOMAIN examples |-> seqs[k]]
    OBVIOUS
  <2> HIDE DEF seqs
  <2> QED
    BY <2>1, <2>2, FlatPlainly
<1>2. Plainly(Items(examples, LAMBDA e, more : Text(e) \o CommaIf(more)))
  BY <1>1 DEF Items
<1> QED
  BY <1>2, PlainTokens, PrettyPlainly, JoinedPlainly, Zenon DEF Examples

LEMMA CommandPlainly ==
  ASSUME NEW command, IsList(command.options), IsList(command.arguments),
         IsList(command.examples), NEW more
  PROVE  Plainly(PrintCommand(command, more))
<1> DEFINE options == command.options
           seqs == [k \in DOMAIN options |->
                      PrintOption(options[k], None, << >>, k < Len(options))]
<1>1. Plainly(FlattenSeq(seqs))
  <2>1. IsList(<< >>)
    BY SeqOfTokens DEF IsList
  <2>2. \A k \in DOMAIN options : Plainly(seqs[k])
    BY <2>1, OptionPlainly
  <2>3. DOMAIN seqs = DOMAIN options /\ seqs = [k \in DOMAIN options |-> seqs[k]]
    OBVIOUS
  <2> HIDE DEF seqs
  <2> QED
    BY <2>2, <2>3, FlatPlainly
<1>2. Plainly(Items(options, LAMBDA o, another : PrintOption(o, None, << >>, another)))
  BY <1>1 DEF Items
<1>3. Plainly(IF command.requires_terminal
                THEN Text("metadata") \o Mark(":") \o Mark("{")
                       \o PrettyField("requires", Text("ncurses"), TRUE)
                       \o PrettyField("interactive", Bool(TRUE), FALSE) \o Mark("}")
                ELSE << >>)
  <2>1. Plainly(Text("metadata") \o Mark(":") \o Mark("{")
                  \o PrettyField("requires", Text("ncurses"), TRUE)
                  \o PrettyField("interactive", Bool(TRUE), FALSE) \o Mark("}"))
    BY PlainTokens, PrettyPlainly, JoinedPlainly, ZenonT(60)
  <2> QED
    BY <2>1, PlainTokens
<1>4. /\ Plainly(Arguments(command.arguments, TRUE))
      /\ Plainly(Examples(command.examples, command.requires_terminal))
  BY ArgumentsPlainly, ExamplesPlainly
<1>5. /\ Plainly(PrettyField("name", Text(command.name), TRUE)) /\ Plainly(Described(TRUE))
      /\ Plainly(PrettyArray(Items(options,
                   LAMBDA o, another : PrintOption(o, None, << >>, another)), TRUE))
  BY <1>2, PlainTokens, PrettyPlainly DEF Described, Description
<1> QED
  BY <1>3, <1>4, <1>5, PlainTokens, JoinedPlainly, ZenonT(60) DEF PrintCommand

(* The tables are lists, and so is each list in them. *)
LEMMA TablesAreLists ==
  /\ IsList(RootArguments) /\ IsList(ErrorTable) /\ IsList(Commands)
  /\ IsList(ExtraExamples) /\ IsList(BuildFields) /\ IsList(Features)
  /\ IsList(MetadataGroups) /\ \A k \in DOMAIN MetadataGroups : IsList(MetadataGroups[k].fields)
  /\ \A k \in DOMAIN Commands : /\ IsList(Commands[k].options)
                                /\ IsList(Commands[k].arguments)
                                /\ IsList(Commands[k].examples)
<1>0. \A S, s : s \in Seq(S) => IsList(s)
  BY SeqOfTokens DEF IsList
<1> HIDE DEF IsList
<1>1. IsList(RootArguments)
  <2>1. \A x : <<x>> \in Seq({x})
    OBVIOUS
  <2> QED
    BY <1>0, <2>1 DEF RootArguments
<1>2. IsList(ErrorTable)
  <2>1. DOMAIN ErrorTable = 1..24 /\ ErrorTable = [k \in 1..24 |-> ErrorTable[k]]
    BY DEF ErrorTable
  <2> HIDE DEF ErrorTable
  <2>2. ErrorTable \in Seq(Tokens(ErrorTable))
    BY <2>1 DEF Tokens
  <2> QED
    BY <1>0, <2>2
<1>3. IsList(ExtraExamples) /\ IsList(BuildFields) /\ IsList(Features) /\ IsList(EnvironmentDocs)
  <2>1. \A a, b : <<a, b>> \in Seq({a, b})
    OBVIOUS
  <2>2. \A a, b, c : <<a, b, c>> \in Seq({a, b, c})
    OBVIOUS
  <2>3. \A a, b, c, d : <<a, b, c, d>> \in Seq({a, b, c, d})
    OBVIOUS
  <2>4. IsList(ExtraExamples)
    BY <1>0, <2>1 DEF ExtraExamples
  <2>5. IsList(Features)
    BY <1>0, <2>2 DEF Features
  <2>6. IsList(BuildFields)
    BY <1>0, <2>3 DEF BuildFields
  <2>7. DOMAIN EnvironmentDocs = 1..10 /\ EnvironmentDocs = [k \in 1..10 |-> EnvironmentDocs[k]]
    BY DEF EnvironmentDocs
  <2>8. EnvironmentDocs \in Seq(Tokens(EnvironmentDocs))
    BY <2>7 DEF Tokens
  <2> QED
    BY <1>0, <2>4, <2>5, <2>6, <2>8
<1>4. \A a, b, c : IsList(<<a, b, c>>)
  <2>1. \A a, b, c : <<a, b, c>> \in Seq({a, b, c})
    OBVIOUS
  <2> QED
    BY <1>0, <2>1
<1>5. IsList(MetadataGroups) /\ \A k \in DOMAIN MetadataGroups : IsList(MetadataGroups[k].fields)
  <2>1. PICK a, b, c :
          /\ MetadataGroups = <<a, b, c>>
          /\ a = [name |-> "environment", fields |-> EnvironmentDocs]
          /\ b = [name |-> "configuration", fields |-> <<"location", "format", "precedence">>]
          /\ c = [name |-> "build", fields |-> <<"system", "compiler", "standard">>]
    BY Zenon DEF MetadataGroups
  <2>2. IsList(a.fields) /\ IsList(b.fields) /\ IsList(c.fields)
    BY <1>3, <1>4, <2>1
  <2>3. DOMAIN MetadataGroups = 1..3
    BY <2>1
  <2>4. ASSUME NEW k \in 1..3 PROVE IsList(MetadataGroups[k].fields)
    <3>1. k \in {1, 2, 3}
      OBVIOUS
    <3> QED
      BY <2>1, <2>2, <3>1
  <2> QED
    BY <1>4, <2>1, <2>3, <2>4
<1>6. IsList(<< >>)
  <2>1. << >> \in Seq({})
    OBVIOUS
  <2> QED
    BY <1>0, <2>1
<1>7. \A a : IsList(<<a>>)
  <2>1. \A a : <<a>> \in Seq({a})
    OBVIOUS
  <2> QED
    BY <1>0, <2>1
<1>8. \A a, b : IsList(<<a, b>>)
  <2>1. \A a, b : <<a, b>> \in Seq({a, b})
    OBVIOUS
  <2> QED
    BY <1>0, <2>1
<1> DEFINE Good(c) == IsList(c.options) /\ IsList(c.arguments) /\ IsList(c.examples)
<1>9. \A name, examples : IsList(examples) => Good(Plain(name, examples))
  BY <1>6 DEF Plain
<1>10. PICK a, b, c, d, e, f :
         /\ Commands = <<a, b, c, d, e, f>>
         /\ a = [Plain(hello, <<"hello", "hello Alice">>) EXCEPT
                   !.arguments = <<Positional("name", FALSE, 0, 1)>>]
         /\ b = [Plain(echo, <<"echo Hello World", "echo">>) EXCEPT
                   !.arguments = <<Positional("text", FALSE, 0, Unbounded)>>]
         /\ c = Plain(info, <<"info", "--json info">>)
         /\ d = [Plain(doctor, <<"doctor", "--json doctor">>) EXCEPT !.options = <<"deep">>]
         /\ e = [Plain(menu, <<"menu">>) EXCEPT !.requires_terminal = TRUE, !.hidden = TRUE]
         /\ f = Plain(opencli, <<"opencli">>)
  BY Zenon DEF Commands
<1>11. Good(c) /\ Good(f)
  BY <1>7, <1>8, <1>9, <1>10
<1>12. Good(a)
  BY <1>6, <1>7, <1>8, <1>10 DEF Plain
<1>13. Good(b)
  BY <1>6, <1>7, <1>8, <1>10 DEF Plain
<1>14. Good(d)
  BY <1>6, <1>7, <1>8, <1>10 DEF Plain
<1>15. Good(e)
  BY <1>6, <1>7, <1>8, <1>10 DEF Plain
<1>16. IsList(Commands) /\ DOMAIN Commands = 1..6
  <2>1. /\ <<a, b, c, d, e, f>> \in Seq({a, b, c, d, e, f})
        /\ DOMAIN <<a, b, c, d, e, f>> = 1..6
    OBVIOUS
  <2> QED
    BY <1>0, <1>10, <2>1
<1>17. ASSUME NEW k \in DOMAIN Commands PROVE Good(Commands[k])
  <2> HIDE DEF Good
  <2>1. k \in {1, 2, 3, 4, 5, 6}
    BY <1>16
  <2>2. Commands[k] \in {a, b, c, d, e, f}
    <3>1. /\ Commands[1] = a /\ Commands[2] = b /\ Commands[3] = c
          /\ Commands[4] = d /\ Commands[5] = e /\ Commands[6] = f
      BY <1>10
    <3> QED
      BY <2>1, <3>1
  <2> QED
    BY <1>11, <1>12, <1>13, <1>14, <1>15, <2>2
<1> QED
  BY <1>1, <1>2, <1>3, <1>5, <1>16, <1>17

LEMMA AllCommandsPlainly ==
  ASSUME NEW comma PROVE Plainly(PrintCommands(comma))
<1> DEFINE seqs == [k \in DOMAIN Commands |-> PrintCommand(Commands[k], k < Len(Commands))]
<1>1. Plainly(FlattenSeq(seqs))
  <2>1. \A k \in DOMAIN Commands : Plainly(seqs[k])
    BY TablesAreLists, CommandPlainly
  <2>2. DOMAIN seqs = DOMAIN Commands /\ seqs = [k \in DOMAIN Commands |-> seqs[k]]
    OBVIOUS
  <2> HIDE DEF seqs
  <2> QED
    BY <2>1, <2>2, TablesAreLists, FlatPlainly
<1>2. Plainly(Items(Commands, PrintCommand))
  BY <1>1 DEF Items
<1> QED
  BY <1>2, PlainTokens, PrettyPlainly, JoinedPlainly, Zenon DEF PrintCommands

LEMMA ExitCodesPlainly ==
  ASSUME NEW comma PROVE Plainly(ExitCodes(comma))
<1>1. ASSUME NEW c, NEW more PROVE Plainly(ExitCode(c, more))
  <2>1. Plainly(PrettyField("code", Text(c), TRUE)) /\ Plainly(Described(FALSE))
    BY PlainTokens, PrettyPlainly DEF Described, Description
  <2> QED
    BY <2>1, PlainTokens, JoinedPlainly, ZenonT(60) DEF ExitCode
<1> DEFINE seqs == [k \in DOMAIN ErrorTable |-> ExitCode(ErrorTable[k], k < Len(ErrorTable))]
<1>2. Plainly(FlattenSeq(seqs))
  <2>1. /\ DOMAIN seqs = DOMAIN ErrorTable /\ seqs = [k \in DOMAIN ErrorTable |-> seqs[k]]
        /\ \A k \in DOMAIN ErrorTable : Plainly(seqs[k])
    BY <1>1
  <2> HIDE DEF seqs
  <2> QED
    BY <2>1, TablesAreLists, FlatPlainly
<1>3. Plainly(Items(ErrorTable, ExitCode))
  BY <1>2 DEF Items
<1> QED
  BY <1>3, PlainTokens, PrettyPlainly, JoinedPlainly, Zenon DEF ExitCodes

LEMMA MetadataPlainly ==
  ASSUME NEW comma PROVE Plainly(Metadata(comma))
<1>1. ASSUME NEW group, IsList(group.fields), NEW more
      PROVE  Plainly(MetadataGroup(group, more))
  <2> DEFINE fields == group.fields
             seqs == [k \in DOMAIN fields |->
                        PrettyField(fields[k], Description, k < Len(fields))]
  <2>1. Plainly(FlattenSeq(seqs))
    <3>1. \A k \in DOMAIN fields : Plainly(seqs[k])
      BY PlainTokens, PrettyPlainly DEF Description
    <3>2. DOMAIN seqs = DOMAIN fields /\ seqs = [k \in DOMAIN fields |-> seqs[k]]
      OBVIOUS
    <3> HIDE DEF seqs
    <3> QED
      BY <1>1, <3>1, <3>2, FlatPlainly
  <2>2. Plainly(Items(fields, LAMBDA f, another : PrettyField(f, Description, another)))
    BY <2>1 DEF Items
  <2>3. Plainly(PrettyField("name", Text(group.name), TRUE))
    BY PlainTokens, PrettyPlainly
  <2> QED
    BY <2>2, <2>3, PlainTokens, JoinedPlainly, ZenonT(60) DEF MetadataGroup
<1> DEFINE seqs == [k \in DOMAIN MetadataGroups |->
                      MetadataGroup(MetadataGroups[k], k < Len(MetadataGroups))]
<1>2. Plainly(FlattenSeq(seqs))
  <2>1. \A k \in DOMAIN MetadataGroups : Plainly(seqs[k])
    BY <1>1, TablesAreLists
  <2>2. DOMAIN seqs = DOMAIN MetadataGroups /\ seqs = [k \in DOMAIN MetadataGroups |-> seqs[k]]
    OBVIOUS
  <2> HIDE DEF seqs
  <2> QED
    BY <2>1, <2>2, TablesAreLists, FlatPlainly
<1>3. Plainly(Items(MetadataGroups, MetadataGroup))
  BY <1>2 DEF Items
<1> QED
  BY <1>3, PlainTokens, PrettyPlainly, JoinedPlainly, Zenon DEF Metadata

LEMMA OptionsPlainly ==
  ASSUME NEW comma PROVE Plainly(GlobalOptions(comma))
<1> DEFINE all == BuiltinOptions \o FlagOptions \o GlobalValueOptions
           S == Tokens(BuiltinOptions) \cup Tokens(FlagOptions) \cup Tokens(GlobalValueOptions)
           seqs == [k \in DOMAIN all |-> PrintOption(all[k].name, all[k].alias,
                                                     all[k].arguments, k < OptionTotal)]
<1>1. IsList(BuiltinOptions) /\ IsList(FlagOptions) /\ IsList(GlobalValueOptions)
  <2>1. \A a : <<a>> \in Seq({a})
    OBVIOUS
  <2>2. \A a, b : <<a, b>> \in Seq({a, b})
    OBVIOUS
  <2>3. \A a, b, c, d, e, f : <<a, b, c, d, e, f>> \in Seq({a, b, c, d, e, f})
    OBVIOUS
  <2>4. IsList(BuiltinOptions)
    BY <2>2, SeqOfTokens DEF BuiltinOptions, IsList
  <2>5. IsList(FlagOptions)
    BY <2>3, SeqOfTokens DEF FlagOptions, IsList
  <2>6. IsList(GlobalValueOptions)
    BY <2>1, SeqOfTokens DEF GlobalValueOptions, IsList
  <2> QED
    BY <2>4, <2>5, <2>6
<1>2. \A x \in S : IsList(x.arguments)
  <2>1. IsList(<< >>) /\ \A x : IsList(<<x>>)
    <3>1. << >> \in Seq({}) /\ \A x : <<x>> \in Seq({x})
      OBVIOUS
    <3> QED
      BY <3>1, SeqOfTokens DEF IsList
  <2> HIDE DEF IsList
  <2>2. \A name, alias, arguments, env :
          Option(name, alias, arguments, env).arguments = arguments
    BY DEF Option
  <2> HIDE DEF Option
  <2>3. \A x \in Tokens(BuiltinOptions) : IsList(x.arguments)
    BY <2>1, <2>2 DEF Tokens, BuiltinOptions
  <2>4. \A x \in Tokens(FlagOptions) : IsList(x.arguments)
    BY <2>1, <2>2 DEF Tokens, FlagOptions
  <2>5. \A x \in Tokens(GlobalValueOptions) : IsList(x.arguments)
    BY <2>1, <2>2 DEF Tokens, GlobalValueOptions
  <2> QED
    BY <2>3, <2>4, <2>5
<1>3. all \in Seq(S)
  <2>1. /\ BuiltinOptions \in Seq(S) /\ FlagOptions \in Seq(S)
        /\ GlobalValueOptions \in Seq(S)
    BY <1>1 DEF IsList
  <2> HIDE DEF S
  <2> QED
    BY <2>1
<1> HIDE DEF all, S
<1>4. IsList(all) /\ \A k \in DOMAIN all : all[k] \in S
  BY <1>3, SeqOfTokens DEF IsList
<1>5. Plainly(FlattenSeq(seqs))
  <2>1. \A k \in DOMAIN all : Plainly(seqs[k])
    BY <1>2, <1>4, OptionPlainly
  <2>2. DOMAIN seqs = DOMAIN all /\ seqs = [k \in DOMAIN all |-> seqs[k]]
    OBVIOUS
  <2> HIDE DEF seqs
  <2> QED
    BY <1>4, <2>1, <2>2, FlatPlainly
<1>6. GlobalOptions(comma) =
        Text("options") \o Mark(":") \o PrettyArray(FlattenSeq(seqs), comma)
  BY Zenon DEF GlobalOptions, all
<1> HIDE DEF seqs
<1> QED
  BY <1>5, <1>6, PlainTokens, PrettyPlainly, JoinedPlainly, Zenon

LEMMA TopExamplesPlainly ==
  ASSUME NEW comma PROVE Plainly(TopExamples(comma))
<1> DEFINE rows == [k \in DOMAIN Commands |-> Commands[k].examples]
           T == UNION {Tokens(rows[k]) : k \in DOMAIN Commands}
           S == T \cup Tokens(ExtraExamples)
           all == CommandExamples \o ExtraExamples
           seqs == [k \in DOMAIN all |-> Text(all[k]) \o CommaIf(k < TopExampleCount)]
<1>1. CommandExamples \in Seq(T)
  <2>1. ASSUME NEW k \in DOMAIN Commands PROVE rows[k] \in Seq(T)
    <3>1. rows[k] \in Seq(Tokens(rows[k]))
      BY TablesAreLists, Zenon DEF IsList
    <3>2. Tokens(rows[k]) \subseteq T
      BY Zenon
    <3> HIDE DEF T, rows
    <3> QED
      BY <3>1, <3>2
  <2>2. DOMAIN rows = DOMAIN Commands /\ rows = [k \in DOMAIN Commands |-> rows[k]]
    OBVIOUS
  <2>3. CommandExamples = FlattenSeq(rows)
    BY DEF CommandExamples
  <2> HIDE DEF T, rows
  <2> QED
    BY <2>1, <2>2, <2>3, TablesAreLists, FlatList
<1> HIDE DEF T
<1>2. all \in Seq(S)
  <2>1. ExtraExamples \in Seq(S) /\ CommandExamples \in Seq(S)
    BY <1>1, TablesAreLists DEF IsList
  <2> HIDE DEF S
  <2> QED
    BY <2>1
<1>3. IsList(all)
  BY <1>2, SeqOfTokens DEF IsList
<1> HIDE DEF all
<1>4. Plainly(FlattenSeq(seqs))
  <2>1. \A k \in DOMAIN all : Plainly(seqs[k])
    BY PlainTokens, JoinedPlainly
  <2>2. DOMAIN seqs = DOMAIN all /\ seqs = [k \in DOMAIN all |-> seqs[k]]
    OBVIOUS
  <2> HIDE DEF seqs
  <2> QED
    BY <1>3, <2>1, <2>2, FlatPlainly
<1>5. TopExamples(comma) =
        Text("examples") \o Mark(":") \o PrettyArray(FlattenSeq(seqs), comma)
  BY Zenon DEF TopExamples, all
<1> HIDE DEF seqs
<1> QED
  BY <1>4, <1>5, PlainTokens, PrettyPlainly, JoinedPlainly, Zenon

LEMMA ContractPlainly == Plainly(OpenCliDocument)
<1>1. \A c : Plainly(Described(c)) /\ Plainly(Description)
  BY PlainTokens, PrettyPlainly DEF Described, Description
<1>2. \A key, x, c : /\ Plainly(PrettyField(key, Text(x), c))
                     /\ Plainly(PrettyField(key, Bool(x), c))
  BY PlainTokens, PrettyPlainly
<1>3. Plainly(Info)
  BY <1>1, <1>2, PlainTokens, JoinedPlainly, ZenonT(120) DEF Info
<1>4. Plainly(Conventions)
  BY <1>2, PlainTokens, JoinedPlainly, ZenonT(60) DEF Conventions
<1>5. /\ Plainly(Arguments(RootArguments, TRUE)) /\ Plainly(GlobalOptions(TRUE))
      /\ Plainly(PrintCommands(TRUE)) /\ Plainly(ExitCodes(TRUE))
      /\ Plainly(TopExamples(TRUE)) /\ Plainly(Metadata(FALSE))
  BY TablesAreLists, ArgumentsPlainly, OptionsPlainly, AllCommandsPlainly, ExitCodesPlainly,
     TopExamplesPlainly, MetadataPlainly
<1> QED
  BY <1>1, <1>2, <1>3, <1>4, <1>5, PlainTokens, JoinedPlainly, ZenonT(120)
     DEF OpenCliDocument

LEMMA FieldPlainly ==
  /\ Plainly(BeginObject.text)
  /\ \A o : Plainly(o.text) => Plainly(EndObject(o))
  /\ \A o, key, value : Plainly(o.text) /\ Plainly(value) => Plainly(Field(o, key, value).text)
<1>1. Plainly(BeginObject.text)
  BY PlainTokens DEF BeginObject
<1>2. ASSUME NEW o, Plainly(o.text) PROVE Plainly(EndObject(o))
  BY <1>2, PlainTokens, JoinedPlainly DEF EndObject
<1>3. ASSUME NEW o, NEW key, NEW value, Plainly(o.text), Plainly(value)
      PROVE  Plainly(Field(o, key, value).text)
  <2> DEFINE text == o.text \o CommaIf(o.comma) \o Text(key) \o Mark(":") \o value
  <2>1. Plainly(text)
    BY <1>3, PlainTokens, JoinedPlainly, Zenon
  <2>2. Field(o, key, value).text = text
    BY DEF Field
  <2> QED
    BY <2>1, <2>2
<1> QED
  BY <1>1, <1>2, <1>3

LEMMA MessagePlainly ==
  ASSUME NEW config, NEW text PROVE Plainly(Message(config, text))
<1>1. Plainly(Field(BeginObject, "format_version", Text("1.0")).text)
  BY FieldPlainly, PlainTokens
<1>2. Plainly(Field(Field(BeginObject, "format_version", Text("1.0")),
                    "message", Text(text)).text)
  BY <1>1, FieldPlainly, PlainTokens
<1> QED
  BY <1>2, FieldPlainly, PlainTokens DEF Message

LEMMA FieldsPlainly ==
  ASSUME NEW o, Plainly(o.text), NEW names, Len(names) \in Nat, NEW values,
         \A k \in 1..Len(names) : Plainly(values[k])
  PROVE  Plainly(WithFields(o, names, values).text)
<1> DEFINE Is(f, m) == f = [k \in 0..m |-> IF k = 0 THEN o
                                          ELSE Field(f[k - 1], names[k], values[k])]
           none == {m \in Nat : ~\E f : Is(f, m)}
           n == Len(names)
           with == CHOOSE f : Is(f, n)
           bad == {k \in 0..n : ~Plainly(with[k].text)}
<1>1. none = {}
  <2>1. SUFFICES ASSUME none # {} PROVE FALSE
    BY <2>1
  <2>2. PICK m \in none : \A k \in none : m <= k
    <3>1. none \in SUBSET Nat
      OBVIOUS
    <3> HIDE DEF none
    <3> QED
      BY <2>1, <3>1, MinimumExists
  <2>3. m \in Nat /\ ~\E f : Is(f, m)
    OBVIOUS
  <2>4. m # 0
    <3> DEFINE f == [k \in 0..0 |-> o]
    <3>1. f = [k \in 0..0 |-> IF k = 0 THEN o ELSE Field(f[k - 1], names[k], values[k])]
      OBVIOUS
    <3> QED
      BY <2>3, <3>1
  <2>5. m - 1 \in Nat /\ ~(m <= m - 1)
    BY <2>3, <2>4
  <2>6. PICK g : Is(g, m - 1)
    BY <2>2, <2>5
  <2> DEFINE f == [k \in 0..m |-> IF k = m THEN Field(g[m - 1], names[m], values[m])
                                  ELSE g[k]]
  <2>7. ASSUME NEW k \in 0..m
        PROVE  f[k] = IF k = 0 THEN o ELSE Field(f[k - 1], names[k], values[k])
    <3>1. CASE k = m
      <4>1. k - 1 \in 0..m /\ k - 1 # m /\ k # 0
        BY <2>3, <2>4, <3>1
      <4>2. f[k - 1] = g[m - 1] /\ f[k] = Field(g[m - 1], names[m], values[m])
        BY <3>1, <4>1
      <4> QED
        BY <3>1, <4>1, <4>2
    <3>2. CASE k # m
      <4>1. k \in 0..m - 1
        BY <2>3, <3>2
      <4>2. f[k] = g[k]
        BY <3>2
      <4>3. g[k] = IF k = 0 THEN o ELSE Field(g[k - 1], names[k], values[k])
        BY <2>6, <4>1
      <4>4. k # 0 => k - 1 \in 0..m /\ k - 1 # m
        BY <2>3, <4>1
      <4>5. k # 0 => f[k - 1] = g[k - 1]
        BY <4>4
      <4> QED
        BY <4>2, <4>3, <4>5
    <3> QED
      BY <3>1, <3>2
  <2>8. Is(f, m)
    <3>1. f = [k \in 0..m |-> f[k]]
      OBVIOUS
    <3> HIDE DEF f
    <3> QED
      BY <2>7, <3>1
  <2> QED
    BY <2>3, <2>8
<1>2. Is(with, n)
  <2>1. \E f : Is(f, n)
    BY <1>1
  <2> HIDE DEF Is
  <2> QED
    BY <2>1, Zenon
<1>3. WithFields(o, names, values) = with[n]
  BY Zenon DEF WithFields
<1> HIDE DEF with, none
<1>4. SUFFICES ASSUME bad # {} PROVE FALSE
  <2>1. n \in 0..n
    OBVIOUS
  <2> QED
    BY <1>3, <1>4, <2>1
<1>5. PICK m \in bad : \A k \in bad : m <= k
  <2>1. bad \in SUBSET Nat
    OBVIOUS
  <2> HIDE DEF bad
  <2> QED
    BY <1>4, <2>1, MinimumExists
<1>6. m \in 0..n /\ ~Plainly(with[m].text)
  OBVIOUS
<1>7. m # 0
  BY <1>2, <1>6
<1>8. m - 1 \in 0..n /\ ~(m <= m - 1) /\ m \in 1..n
  BY <1>6, <1>7
<1>9. Plainly(with[m - 1].text)
  BY <1>5, <1>8
<1>10. with[m] = Field(with[m - 1], names[m], values[m])
  BY <1>2, <1>6, <1>7
<1> QED
  BY <1>6, <1>8, <1>9, <1>10, FieldPlainly

LEMMA InfoPlainly ==
  ASSUME NEW build PROVE Plainly(InfoDocument(build)) /\ Plainly(InfoLines(build))
<1>1. Len(BuildFields) \in Nat /\ DOMAIN BuildFields = 1..Len(BuildFields)
  BY DEF BuildFields
<1>2. Len(Features) \in Nat /\ DOMAIN Features = 1..Len(Features)
  BY DEF Features
<1> DEFINE texts == [k \in DOMAIN BuildFields |-> Text(BuildFields[k])]
           named == WithFields(Field(BeginObject, "format_version", Text("1.0")),
                               BuildFields, texts)
           switches == [k \in DOMAIN Features |-> Bool(Features[k] \in build)]
           features == WithFields(BeginObject, Features, switches)
<1>3. Plainly(named.text)
  <2>1. Plainly(Field(BeginObject, "format_version", Text("1.0")).text)
    BY FieldPlainly, PlainTokens
  <2>2. \A k \in 1..Len(BuildFields) : Plainly(texts[k])
    BY <1>1, PlainTokens
  <2> HIDE DEF texts
  <2> QED
    BY <1>1, <2>1, <2>2, FieldsPlainly
<1>4. Plainly(features.text)
  <2>1. \A k \in 1..Len(Features) : Plainly(switches[k])
    BY <1>2, PlainTokens
  <2> HIDE DEF switches
  <2> QED
    BY <1>2, <2>1, FieldPlainly, FieldsPlainly
<1>5. Plainly(InfoDocument(build))
  <2>1. InfoDocument(build) = EndObject(Field(named, "features", EndObject(features)))
    BY Zenon DEF InfoDocument
  <2> HIDE DEF named, features
  <2>2. Plainly(Field(named, "features", EndObject(features)).text)
    BY <1>3, <1>4, FieldPlainly
  <2> QED
    BY <2>1, <2>2, FieldPlainly
<1>6. Plainly(InfoLines(build))
  <2> DEFINE a == [k \in DOMAIN BuildFields |-> Line(BuildFields[k])]
             b == [k \in DOMAIN Features |-> Line(Features[k])]
  <2>1. /\ DOMAIN a = DOMAIN BuildFields /\ a = [k \in DOMAIN BuildFields |-> a[k]]
        /\ \A k \in DOMAIN BuildFields : Plainly(a[k])
        /\ DOMAIN b = DOMAIN Features /\ b = [k \in DOMAIN Features |-> b[k]]
        /\ \A k \in DOMAIN Features : Plainly(b[k])
    BY PlainTokens
  <2>2. InfoLines(build) = FlattenSeq(a) \o FlattenSeq(b)
    BY DEF InfoLines
  <2> HIDE DEF a, b
  <2>3. Plainly(FlattenSeq(a)) /\ Plainly(FlattenSeq(b))
    BY <2>1, TablesAreLists, FlatPlainly
  <2> QED
    BY <2>2, <2>3, JoinedPlainly
<1> QED
  BY <1>5, <1>6

LEMMA CheckPlainly ==
  ASSUME NEW check PROVE Plainly(WriteCheck(check))
<1> DEFINE named == Field(BeginObject, "name", Text(check.name))
           some == Field(named, "status", Text(check.status))
           full == Field(some, "detail", Text("detail"))
           more == Field(full, "enabled", Bool(check.enabled))
<1>1. WriteCheck(check) = EndObject(IF check.has_enabled THEN more ELSE full)
  BY Zenon DEF WriteCheck
<1>2. Plainly(named.text)
  BY FieldPlainly, PlainTokens
<1> HIDE DEF named
<1>3. Plainly(some.text)
  BY <1>2, FieldPlainly, PlainTokens
<1> HIDE DEF some
<1>4. Plainly(full.text)
  BY <1>3, FieldPlainly, PlainTokens
<1> HIDE DEF full
<1>5. Plainly(more.text)
  BY <1>4, FieldPlainly, PlainTokens
<1> HIDE DEF more
<1> QED
  BY <1>1, <1>4, <1>5, FieldPlainly

LEMMA ReportPlainly ==
  ASSUME NEW config, NEW checks, IsList(checks)
  PROVE  Plainly(DoctorReport(config, checks))
<1> DEFINE rows == [k \in DOMAIN checks |->
                      WriteCheck(checks[k]) \o CommaIf(k < Len(checks))]
           lines == [k \in DOMAIN checks |-> Line(checks[k].name)]
           opened == Field(BeginObject, "format_version", Text("1.0"))
           list == Mark("[") \o Items(checks, LAMBDA c, more : WriteCheck(c) \o CommaIf(more))
                     \o Mark("]")
<1>1. Plainly(FlattenSeq(rows))
  <2>1. \A k \in DOMAIN checks : Plainly(rows[k])
    BY CheckPlainly, PlainTokens, JoinedPlainly
  <2>2. DOMAIN rows = DOMAIN checks /\ rows = [k \in DOMAIN checks |-> rows[k]]
    OBVIOUS
  <2> HIDE DEF rows
  <2> QED
    BY <2>1, <2>2, FlatPlainly
<1>2. Plainly(FlattenSeq(lines))
  <2>1. /\ DOMAIN lines = DOMAIN checks /\ lines = [k \in DOMAIN checks |-> lines[k]]
        /\ \A k \in DOMAIN checks : Plainly(lines[k])
    BY PlainTokens
  <2> HIDE DEF lines
  <2> QED
    BY <2>1, FlatPlainly
<1>3. Plainly(list)
  <2>1. Plainly(Items(checks, LAMBDA c, more : WriteCheck(c) \o CommaIf(more)))
    BY <1>1 DEF Items
  <2> QED
    BY <2>1, PlainTokens, JoinedPlainly, Zenon
<1>4. Plainly(EndObject(Field(opened, "checks", list)))
  <2>1. Plainly(opened.text)
    BY FieldPlainly, PlainTokens
  <2> HIDE DEF opened, list
  <2>2. Plainly(Field(opened, "checks", list).text)
    BY <1>3, <2>1, FieldPlainly
  <2> QED
    BY <2>2, FieldPlainly
<1>5. Plainly(Line("doctor") \o FlattenSeq(lines))
  BY <1>2, PlainTokens, JoinedPlainly
<1>6. DoctorReport(config, checks) =
        IF config.json THEN EndObject(Field(opened, "checks", list))
        ELSE Line("doctor") \o FlattenSeq(lines)
  BY Zenon DEF DoctorReport
<1> HIDE DEF opened, list, lines
<1> QED
  BY <1>4, <1>5, <1>6

(* The doctor makes nine checks. *)
LEMMA NineChecks ==
  ASSUME NEW seen, NEW config, NEW smoke
  PROVE  IsList(Checks(seen, config, smoke)) /\ Len(Checks(seen, config, smoke)) = 9
<1> DEFINE checks == Collected(seen, config)
           runtime == RuntimeCheck(smoke)
           anchor == {k \in DOMAIN checks : checks[k].name = "tui_terminal"}
           at0 == IF anchor = {} THEN Len(checks) + 1 ELSE 1 + CHOOSE k \in anchor : TRUE
           item(k) == IF k < at0 THEN checks[k] ELSE IF k = at0 THEN runtime ELSE checks[k - 1]
<1>1. Len(checks) = 8
  <2>1. \A a, b, c, d, e, f, g, h : Len(<<a, b, c, d, e, f, g, h>>) = 8
    OBVIOUS
  <2> QED
    BY <2>1, Zenon DEF Collected
<1>2. Checks(seen, config, smoke) = [k \in 1..Len(checks)+1 |-> item(k)]
  BY Zenon DEF Checks, WithRuntime
<1> HIDE DEF checks, item
<1>3. 8 + 1 = 9
  OBVIOUS
<1>4. Checks(seen, config, smoke) = [k \in 1..9 |-> item(k)]
  BY <1>1, <1>2, <1>3, Zenon
<1>5. /\ [k \in 1..9 |-> item(k)] \in Seq({item(k) : k \in 1..9})
      /\ Len([k \in 1..9 |-> item(k)]) = 9
  OBVIOUS
<1> QED
  BY <1>4, <1>5, SeqOfTokens DEF IsList

------------------------------------------------------------------------------
(* What speaks: a line, a message, and whatever one of them is part of. *)
LEMMA JoinedSpeaks ==
  ASSUME NEW a, NEW b, Plainly(a), Plainly(b), Speaks(a) \/ Speaks(b)
  PROVE  Speaks(a \o b)
<1> DEFINE S == Tokens(a) \cup Tokens(b)
<1>1. a \in Seq(S) /\ b \in Seq(S)
  BY DEF Plainly, Only
<1> HIDE DEF S
<1>2. ASSUME NEW k \in DOMAIN a, a[k][1] # "log" PROVE Speaks(a \o b)
  <2>1. k \in DOMAIN (a \o b) /\ (a \o b)[k] = a[k]
    BY <1>1
  <2> QED
    BY <1>2, <2>1 DEF Speaks
<1>3. ASSUME NEW k \in DOMAIN b, b[k][1] # "log" PROVE Speaks(a \o b)
  <2>1. Len(a) + k \in DOMAIN (a \o b) /\ (a \o b)[Len(a) + k] = b[k]
    BY <1>1
  <2> QED
    BY <1>3, <2>1 DEF Speaks
<1> QED
  BY <1>2, <1>3 DEF Speaks

LEMMA LineSpeaks == \A x : Speaks(Line(x)) /\ Speaks(Mark(x))
<1>1. \A kind, x : DOMAIN <<<<kind, x>>>> = {1} /\ <<<<kind, x>>>>[1][1] = kind
  OBVIOUS
<1> QED
  BY <1>1 DEF Speaks, Line, Mark

LEMMA MessageSpeaks ==
  ASSUME NEW config, NEW text PROVE Speaks(Message(config, text))
<1> DEFINE o == Field(Field(BeginObject, "format_version", Text("1.0")), "message", Text(text))
<1>1. Plainly(o.text)
  BY FieldPlainly, PlainTokens
<1>2. Message(config, text) = IF config.json THEN o.text \o Mark("}") ELSE Line(text)
  BY DEF Message, EndObject
<1> HIDE DEF o
<1>3. Speaks(o.text \o Mark("}"))
  BY <1>1, PlainTokens, LineSpeaks, JoinedSpeaks
<1> QED
  BY <1>2, <1>3, LineSpeaks

(* An error is shown whatever the flags. *)
LEMMA SaySpeaks ==
  ASSUME NEW text PROVE Plainly(Say(text)) /\ Speaks(Say(text)) /\ Plainly(Answer(text))
BY MessagePlainly, MessageSpeaks, PlainTokens DEF Say, Answer, Shown

LEMMA SilentLog ==
  ASSUME NEW s, Only(s, {"log"}) PROVE Plainly(s) /\ ~Speaks(s)
<1>1. {"log"} \subseteq Unstyled
  BY DEF Unstyled
<1> QED
  BY <1>1, MoreKinds DEF Plainly, Only, Speaks

LEMMA LogIsSilent ==
  /\ Only(Completed, {"log"}) /\ Only(MenuCompleted, {"log"}) /\ Only(<< >>, {"log"})
  /\ \A x : Only(Log(x), {"log"})
  /\ Plainly(Completed) /\ Plainly(MenuCompleted)
<1>1. \A x : Only(Log(x), {"log"})
  BY OneIsOnly DEF Log
<1>2. Only(<< >>, {"log"})
  BY NoneIsOnly
<1>3. Only(Completed, {"log"})
  BY <1>1, <1>2 DEF Completed
<1>4. Only(MenuCompleted, {"log"})
  BY <1>2, <1>3 DEF MenuCompleted
<1>5. Plainly(Completed) /\ Plainly(MenuCompleted)
  BY <1>3, <1>4, SilentLog
<1> QED
  BY <1>1, <1>2, <1>3, <1>4, <1>5

------------------------------------------------------------------------------
(* What the scan of the arguments can come to, word by word. *)
ScanErrors == {None, "UNKNOWN_OPTION", "MISSING_ARG"}

LEMMA ScanOutcomes ==
  ASSUME NEW words, Len(words) \in Nat PROVE Scan(words).error \in ScanErrors
<1> DEFINE n == Len(words)
           error(c) == [error |-> c, asked |-> << >>]
           step(f, k) ==
             IF k > Len(words) THEN error(None)
             ELSE LET flag == Spelled(FlagOptions, words[k])
                  IN IF flag # {}
                       THEN [f[k + 1] EXCEPT
                               !.asked = <<FlagOrder[CHOOSE x \in flag : TRUE]>> \o @]
                     ELSE IF Spelled(GlobalValueOptions, words[k]) = {}
                       THEN error("UNKNOWN_OPTION")
                     ELSE IF k = Len(words) THEN error("MISSING_ARG") ELSE f[k + 2]
           Is(f, m) == f = [k \in n+3-m..n+2 |-> step(f, k)]
           none == {m \in Nat : ~\E f : Is(f, m)}
           from == CHOOSE f : f = [k \in 1..Len(words)+2 |-> step(f, k)]
           Fine(r) == /\ r = [x \in {"error", "asked"} |-> r[x]]
                      /\ r["error"] \in ScanErrors
           bad == {m \in Nat : m <= n + 1 /\ ~Fine(from[n + 2 - m])}
<1>1. ASSUME NEW f, NEW g, NEW k, ~(k > n) => f[k + 1] = g[k + 1],
             ~(k > n) /\ k # n => f[k + 2] = g[k + 2]
      PROVE  step(f, k) = step(g, k)
  BY <1>1, Zenon
<1>2. ASSUME NEW f, NEW k, ~(k > n) => Fine(f[k + 1]),
             ~(k > n) /\ k # n => Fine(f[k + 2])
      PROVE  Fine(step(f, k))
  <2>1. \A c \in ScanErrors : Fine(error(c))
    OBVIOUS
  <2>2. \A r, v : Fine(r) => Fine([r EXCEPT !.asked = v \o @])
    OBVIOUS
  <2> HIDE DEF Fine, error
  <2> QED
    BY <1>2, <2>1, <2>2, Zenon DEF ScanErrors
<1> HIDE DEF step
<1>3. none = {}
  <2>1. SUFFICES ASSUME none # {} PROVE FALSE
    BY <2>1
  <2>2. PICK m \in none : \A k \in none : m <= k
    <3>1. none \in SUBSET Nat
      OBVIOUS
    <3> HIDE DEF none
    <3> QED
      BY <2>1, <3>1, MinimumExists
  <2>3. m \in Nat /\ ~\E f : Is(f, m)
    OBVIOUS
  <2>4. m # 0
    <3> DEFINE f == [k \in {} |-> 0]
    <3>1. n+3-0..n+2 = {}
      OBVIOUS
    <3>2. f = [k \in {} |-> step(f, k)]
      OBVIOUS
    <3> HIDE DEF f
    <3> QED
      BY <2>3, <3>1, <3>2
  <2>5. m - 1 \in Nat /\ ~(m <= m - 1)
    BY <2>3, <2>4
  <2>6. PICK g : Is(g, m - 1)
    BY <2>2, <2>5
  <2> DEFINE j == n + 3 - m
             f == [k \in j..n+2 |-> IF k = j THEN step(g, j) ELSE g[k]]
  <2>7. j \in Int /\ n \in Nat /\ j <= n + 2 /\ n+3-(m-1) = j + 1
    BY <2>3, <2>4
  <2>8. g = [k \in j+1..n+2 |-> step(g, k)]
    BY <2>6, <2>7
  <2> HIDE DEF j, Is, n, none
  <2>9. ASSUME NEW k \in j..n+2 PROVE f[k] = step(f, k)
    <3>1. ~(k > n) => f[k + 1] = g[k + 1]
      BY <2>7
    <3>2. ~(k > n) /\ k # n => f[k + 2] = g[k + 2]
      BY <2>7
    <3> HIDE DEF f
    <3>3. step(f, k) = step(g, k)
      BY <1>1, <3>1, <3>2
    <3>4. f[k] = step(g, k)
      <4>1. CASE k = j
        BY <4>1 DEF f
      <4>2. CASE k # j
        <5>1. k \in j+1..n+2
          BY <2>7, <4>2
        <5>2. f[k] = g[k]
          BY <4>2 DEF f
        <5> QED
          BY <2>8, <5>1, <5>2
      <4> QED
        BY <4>1, <4>2
    <3> QED
      BY <3>3, <3>4
  <2>10. f = [k \in j..n+2 |-> step(f, k)]
    <3>1. f = [k \in j..n+2 |-> f[k]]
      OBVIOUS
    <3> HIDE DEF f
    <3> QED
      BY <2>9, <3>1
  <2>11. Is(f, m)
    BY <2>10 DEF Is, j
  <2> QED
    BY <2>3, <2>11
<1>4. from = [k \in 1..Len(words)+2 |-> step(from, k)]
  <2>1. n + 2 \in Nat /\ n + 2 \notin none
    <3> HIDE DEF none
    <3> QED
      BY <1>3
  <2>2. PICK f : f = [k \in n+3-(n+2)..n+2 |-> step(f, k)]
    BY <2>1
  <2>3. n+3-(n+2) = 1
    OBVIOUS
  <2>4. f = [k \in 1..Len(words)+2 |-> step(f, k)]
    BY <2>2, <2>3
  <2> QED
    BY <2>4, Zenon
<1>5. Scan(words) = from[1]
  BY Zenon DEF Scan, step
<1> HIDE DEF from, Is, none, Fine
<1>6. SUFFICES ASSUME bad # {} PROVE FALSE
  <2>1. n + 1 \in Nat /\ n + 1 <= n + 1 /\ n + 2 - (n + 1) = 1
    OBVIOUS
  <2>2. Fine(from[1])
    BY <1>6, <2>1
  <2> QED
    BY <1>5, <2>2 DEF Fine
<1>7. PICK m \in bad : \A k \in bad : m <= k
  <2>1. bad \in SUBSET Nat
    OBVIOUS
  <2> HIDE DEF bad
  <2> QED
    BY <1>6, <2>1, MinimumExists
<1> DEFINE k == n + 2 - m
<1>8. m \in Nat /\ m <= n + 1 /\ ~Fine(from[k]) /\ k \in 1..n+2
  OBVIOUS
<1>9. ~(k > n) => Fine(from[k + 1])
  <2>1. SUFFICES ASSUME ~(k > n) PROVE Fine(from[k + 1])
    OBVIOUS
  <2>2. m - 1 \in Nat /\ m - 1 <= n + 1 /\ ~(m <= m - 1) /\ n + 2 - (m - 1) = k + 1
    BY <1>8, <2>1
  <2>3. m - 1 \notin bad
    BY <1>7, <2>2
  <2> HIDE DEF k
  <2> QED
    BY <2>2, <2>3
<1>10. ~(k > n) /\ k # n => Fine(from[k + 2])
  <2>1. SUFFICES ASSUME ~(k > n), k # n PROVE Fine(from[k + 2])
    OBVIOUS
  <2>2. m - 2 \in Nat /\ m - 2 <= n + 1 /\ ~(m <= m - 2) /\ n + 2 - (m - 2) = k + 2
    BY <1>8, <2>1
  <2>3. m - 2 \notin bad
    BY <1>7, <2>2
  <2> HIDE DEF k
  <2> QED
    BY <2>2, <2>3
<1>11. from[k] = step(from, k)
  BY <1>4, <1>8
<1> HIDE DEF k
<1> QED
  BY <1>2, <1>8, <1>9, <1>10, <1>11

------------------------------------------------------------------------------
(* What a step of the program leaves behind on its streams. *)

(* It writes nothing, or a line of the log. *)
Silent ==
  /\ pc # "done" /\ pc' # "done" /\ call' = call /\ stdout' = stdout
  /\ stderr' = stderr \/ \E said : Only(said, {"log"}) /\ stderr' = stderr \o said

(* The program goes on, with no page on its way. *)
GoesOn == Silent /\ pc' \notin {"render", "paint"}

(* A page has no style of its own.  It is for stdout and no error, or the help
   that lists what there is; or it is an error for stderr. *)
Fit(p) ==
  /\ Plainly(p.text)
  /\ \/ /\ p.stream = "stdout"
        /\ p.code = "SUCCESS" \/ Holds(p.text, {"help", "command help"})
     \/ p.stream = "stderr" /\ p.code # "SUCCESS" /\ Speaks(p.text)

(* A renderer is called for one. *)
TakesPage == Silent /\ Fit(page')

(* The program ends with an answer of no style, and with an error only if it
   says so; an overlong command line is the exception. *)
Answered(out, err, c) ==
  /\ End(out, err, c) /\ Plainly(out) /\ Plainly(err)
  /\ c = "SUCCESS" => Only(err, {"log"})
  /\ c # "SUCCESS" => \/ Speaks(err)
                      \/ user # "doctor" /\ c \in {"INTERRUPTED", "TERMINATED"}
                      \/ Overlong /\ c = "OUT_OF_RANGE"
                      \/ MaxChecks < 9
Concludes == pc # "done" /\ \E out, err, c : Answered(out, err, c)

LEMMA PagesAreFit ==
  ASSUME ExitImmediately \/ NoCommand \/ ShowCommandHelp PROVE TakesPage
<1>1. ASSUME NEW text, NEW c, pc # "done", Render(text, "stdout", c), Plainly(text),
             c = "SUCCESS" \/ Holds(text, {"help", "command help"})
      PROVE  TakesPage
  <2>1. page' = [text |-> text, stream |-> "stdout", code |-> c]
    BY <1>1 DEF Render
  <2>2. page'.text = text /\ page'.stream = "stdout" /\ page'.code = c
    BY <2>1
  <2>3. Silent
    BY <1>1 DEF Render, Silent
  <2> QED
    BY <1>1, <2>2, <2>3, Zenon DEF TakesPage, Fit
<1>2. CASE ExitImmediately
  <2>1. PICK text : /\ pc # "done" /\ Render(text, "stdout", "SUCCESS")
                    /\ text \in {RootText(VerboseHelp(StyledBuild)), VersionText}
    BY <1>2 DEF ExitImmediately
  <2>2. Plainly(text)
    BY <2>1, PlainTokens
  <2> QED
    BY <1>1, <2>1, <2>2
<1>3. CASE NoCommand
  <2> DEFINE text == RootText(ConciseHelp(StyledBuild))
  <2>1. pc # "done" /\ Render(text, "stdout", "INVALID_ARG")
    BY <1>3 DEF NoCommand
  <2>2. Plainly(text)
    BY PlainTokens
  <2>3. Holds(text, {"help", "command help"})
    <3>1. \A x : DOMAIN <<<<"help", x>>>> = {1} /\ <<<<"help", x>>>>[1][1] = "help"
      OBVIOUS
    <3> QED
      BY <3>1 DEF Holds, RootText
  <2> HIDE DEF text
  <2> QED
    BY <1>1, <2>1, <2>2, <2>3
<1>4. CASE ShowCommandHelp
  <2> DEFINE text == CommandText(CommandHelp(Command))
  <2>1. pc # "done" /\ Render(text, "stdout", "SUCCESS")
    BY <1>4 DEF ShowCommandHelp
  <2>2. Plainly(text)
    BY PlainTokens
  <2> HIDE DEF text
  <2> QED
    BY <1>1, <2>1, <2>2
<1> QED
  BY <1>2, <1>3, <1>4

LEMMA UnknownIsSaid ==
  ASSUME UnknownCommand PROVE TakesPage \/ Concludes
<1> DEFINE text == Line(UnknownText) \o Line("try --help")
<1>1. pc # "done"
  BY DEF UnknownCommand
<1>2. CASE Render(text, "stderr", "INVALID_COMMAND")
  <2>1. page' = [text |-> text, stream |-> "stderr", code |-> "INVALID_COMMAND"]
    BY <1>2 DEF Render
  <2>2. page'.text = text /\ page'.stream = "stderr" /\ page'.code # "SUCCESS"
    BY <2>1
  <2>3. Silent
    BY <1>1, <1>2 DEF Render, Silent
  <2>4. Plainly(text) /\ Speaks(text)
    BY PlainTokens, LineSpeaks, JoinedSpeaks, JoinedPlainly
  <2> QED
    BY <2>2, <2>3, <2>4, Zenon DEF TakesPage, Fit
<1>3. CASE End(<< >>, Say(UnknownText), "INVALID_COMMAND")
  <2>1. Answered(<< >>, Say(UnknownText), "INVALID_COMMAND")
    BY <1>3, SaySpeaks, PlainTokens DEF Answered
  <2> QED
    BY <1>1, <2>1 DEF Concludes
<1> QED
  BY <1>2, <1>3 DEF UnknownCommand

(* What goes wrong before a command runs. *)
LEMMA RefusalsAreSaid ==
  ASSUME CallsAssumption, call \in Calls,
         ScanFails \/ FileFails \/ TooManyArguments \/ RefuseWithoutTerminal \/ Invalid
  PROVE  Concludes
<1>1. CASE ScanFails
  <2> DEFINE err == Line("option") \o (IF Scanned.error = "UNKNOWN_OPTION" THEN Line("try --help")
                                       ELSE << >>)
  <2>1. Scanned.error \in ScanErrors /\ Scanned.error # None
    BY <1>1, ScanOutcomes DEF ScanFails, Scanned, CallsAssumption
  <2>2. Plainly(err) /\ Speaks(err)
    <3>1. Plainly(IF Scanned.error = "UNKNOWN_OPTION" THEN Line("try --help") ELSE << >>)
      BY PlainTokens
    <3> QED
      BY <3>1, PlainTokens, LineSpeaks, JoinedSpeaks, JoinedPlainly
  <2>3. pc # "done" /\ End(<< >>, err, Scanned.error)
    BY <1>1 DEF ScanFails
  <2> HIDE DEF err
  <2>4. Answered(<< >>, err, Scanned.error)
    BY <2>1, <2>2, <2>3, PlainTokens DEF Answered, ScanErrors
  <2> QED
    BY <2>3, <2>4 DEF Concludes
<1>2. CASE FileFails
  <2>1. PICK c : pc # "done" /\ c # "SUCCESS" /\ End(<< >>, Line("config"), c)
    BY <1>2 DEF FileFails
  <2>2. Answered(<< >>, Line("config"), c)
    BY <2>1, LineSpeaks, PlainTokens DEF Answered
  <2> QED
    BY <2>1, <2>2 DEF Concludes
<1>3. CASE RefuseWithoutTerminal
  <2>1. pc # "done" /\ End(<< >>, Say("requires a terminal"), "IO")
    BY <1>3 DEF RefuseWithoutTerminal
  <2>2. Answered(<< >>, Say("requires a terminal"), "IO")
    BY <2>1, SaySpeaks, PlainTokens DEF Answered
  <2> QED
    BY <2>1, <2>2 DEF Concludes
<1>4. CASE Invalid
  <2>1. PICK hint : /\ pc # "done" /\ Verdict # "SUCCESS"
                    /\ End(<< >>, ReportValidationError("arguments", hint), Verdict)
    BY <1>4, Zenon DEF Invalid
  <2>2. /\ Plainly(ReportValidationError("arguments", hint))
        /\ Speaks(ReportValidationError("arguments", hint))
    <3>1. Plainly(IF hint = None THEN << >> ELSE Line(hint))
      BY PlainTokens
    <3>2. /\ Plainly(Line("arguments") \o (IF hint = None THEN << >> ELSE Line(hint)))
          /\ Speaks(Line("arguments") \o (IF hint = None THEN << >> ELSE Line(hint)))
      BY <3>1, PlainTokens, LineSpeaks, JoinedSpeaks, JoinedPlainly
    <3> QED
      BY <3>2, SaySpeaks DEF ReportValidationError
  <2>3. Answered(<< >>, ReportValidationError("arguments", hint), Verdict)
    BY <2>1, <2>2, PlainTokens DEF Answered
  <2> QED
    BY <2>1, <2>3 DEF Concludes
<1>5. CASE TooManyArguments
  <2>1. pc # "done" /\ Overlong /\ End(<< >>, << >>, "OUT_OF_RANGE")
    BY <1>5 DEF TooManyArguments, Overlong
  <2>2. Answered(<< >>, << >>, "OUT_OF_RANGE")
    BY <2>1, PlainTokens DEF Answered
  <2> QED
    BY <2>1, <2>2 DEF Concludes
<1> QED
  BY <1>1, <1>2, <1>3, <1>4, <1>5

LEMMA RequestIsRead ==
  ASSUME ReadRequest PROVE Concludes \/ GoesOn
<1>1. ASSUME NEW text, NEW c, End(<< >>, Say(text), c), c # "SUCCESS" PROVE Concludes
  <2>1. Answered(<< >>, Say(text), c)
    BY <1>1, SaySpeaks, PlainTokens DEF Answered
  <2> QED
    BY <2>1 DEF Concludes, ReadRequest
<1>2. CASE Goto("apply")
  BY <1>2 DEF ReadRequest, Goto, GoesOn, Silent
<1> QED
  BY <1>1, <1>2 DEF ReadRequest

(* What the commands answer. *)
LEMMA CommandsAnswer ==
  ASSUME Greet \/ ShowInfo \/ PrintContract \/ Examine PROVE Concludes \/ GoesOn
<1>1. pc # "done"
  BY DEF Greet, ShowInfo, PrintContract, Examine, Runs
<1>2. ASSUME NEW out, End(out, Completed, "SUCCESS"), Plainly(out) PROVE Concludes
  <2>1. Answered(out, Completed, "SUCCESS")
    BY <1>2, LogIsSilent DEF Answered
  <2> QED
    BY <1>1, <2>1 DEF Concludes
<1>3. CASE Greet
  BY <1>2, <1>3, SaySpeaks DEF Greet
<1>4. CASE ShowInfo
  <2> DEFINE out == IF flags["quiet"] THEN << >> ELSE IF flags["json"] THEN InfoDocument(call.build)
                    ELSE InfoLines(call.build)
  <2>1. Plainly(out)
    BY InfoPlainly, PlainTokens
  <2>2. End(out, Completed, "SUCCESS")
    BY <1>4 DEF ShowInfo
  <2> HIDE DEF out
  <2> QED
    BY <1>2, <2>1, <2>2
<1>5. CASE PrintContract
  BY <1>2, <1>5, ContractPlainly DEF PrintContract
<1>6. CASE Examine
  <2>1. CASE End(<< >>, Completed, "SUCCESS")
    BY <1>2, <2>1, PlainTokens
  <2>2. CASE \E step \in {"initscr", "closed"} : Enter("doctor", step)
    BY <1>1, <2>2 DEF Enter, GoesOn, Silent
  <2> QED
    BY <1>6, <2>1, <2>2 DEF Examine
<1> QED
  BY <1>3, <1>4, <1>5, <1>6

LEMMA DoctorAnswers ==
  ASSUME Report PROVE Concludes
<1> DEFINE checks == Checks(Seen, flags, outcome)
<1>1. IsList(checks) /\ Len(checks) = 9
  BY NineChecks
<1>2. /\ pc # "done"
      /\ IF ChecksFit(checks) THEN End(DoctorReport(flags, checks), Completed, "SUCCESS")
         ELSE End(<< >>, Completed, "OUT_OF_RANGE")
  BY DEF Report
<1> HIDE DEF checks
<1>3. CASE ChecksFit(checks)
  <2>1. Answered(DoctorReport(flags, checks), Completed, "SUCCESS")
    BY <1>1, <1>2, <1>3, ReportPlainly, LogIsSilent DEF Answered
  <2> QED
    BY <1>2, <2>1 DEF Concludes
<1>4. CASE ~ChecksFit(checks)
  <2>1. MaxChecks < 9
    BY <1>1, <1>4, MaxChecksAssumption DEF ChecksFit
  <2>2. Answered(<< >>, Completed, "OUT_OF_RANGE")
    BY <1>2, <1>4, <2>1, PlainTokens, LogIsSilent DEF Answered
  <2> QED
    BY <1>2, <2>2 DEF Concludes
<1> QED
  BY <1>3, <1>4

(* What becomes of the TUI. *)
LEMMA TuiIsAnswered ==
  ASSUME RefuseJson \/ NotCompiled \/ TuiReturns PROVE Concludes
<1>1. ASSUME NEW text PROVE /\ Plainly(Say(text) \o MenuCompleted)
                            /\ Speaks(Say(text) \o MenuCompleted)
  BY SaySpeaks, LogIsSilent, JoinedSpeaks, JoinedPlainly
<1>2. ASSUME NEW text, NEW c, pc # "done", End(<< >>, Say(text) \o MenuCompleted, c),
             c # "SUCCESS"
      PROVE  Concludes
  <2>1. Answered(<< >>, Say(text) \o MenuCompleted, c)
    BY <1>1, <1>2, PlainTokens DEF Answered
  <2> QED
    BY <1>2, <2>1 DEF Concludes
<1>3. CASE RefuseJson
  BY <1>2, <1>3 DEF RefuseJson
<1>4. CASE NotCompiled
  BY <1>2, <1>4 DEF NotCompiled
<1>5. CASE TuiReturns
  <2>1. CASE outcome \notin {"SUCCESS", "INTERRUPTED", "TERMINATED"}
    <3>1. pc # "done" /\ End(<< >>, Say("TUI failed") \o MenuCompleted, outcome)
      BY <1>5, <2>1 DEF TuiReturns
    <3> QED
      BY <1>2, <2>1, <3>1
  <2>2. CASE outcome \in {"SUCCESS", "INTERRUPTED", "TERMINATED"}
    <3>1. pc # "done" /\ user # "doctor" /\ End(<< >>, << >> \o MenuCompleted, outcome)
      BY <1>5, <2>2 DEF TuiReturns
    <3>2. Only(<< >> \o MenuCompleted, {"log"})
      BY LogIsSilent, JoinedIsOnly
    <3>3. Plainly(<< >> \o MenuCompleted)
      BY <3>2, SilentLog
    <3>4. Answered(<< >>, << >> \o MenuCompleted, outcome)
      BY <2>2, <3>1, <3>2, <3>3, PlainTokens DEF Answered
    <3> QED
      BY <3>1, <3>4 DEF Concludes
  <2> QED
    BY <2>1, <2>2
<1> QED
  BY <1>3, <1>4, <1>5

(* Everything else writes nothing. *)
LEMMA TheRestGoesOn ==
  ASSUME \/ Load \/ StartHeadless \/ ApplyRequest \/ OpenMenu \/ StartTui \/ Initscr
         \/ TuiInitFails \/ InitColors
  PROVE  GoesOn
<1>1. CASE Load
  <2> DEFINE said == IF level' = "debug" /\ Layered["debug"] THEN Log("debug mode") ELSE << >>
  <2>1. Only(said, {"log"})
    BY LogIsSilent
  <2>2. stderr' = stderr \o said
    BY <1>1 DEF Load
  <2> HIDE DEF said
  <2> QED
    BY <1>1, <2>1, <2>2 DEF Load, GoesOn, Silent
<1>2. CASE TuiInitFails
  <2>1. Only(Log("failed to initialize"), {"log"})
    BY LogIsSilent
  <2> QED
    BY <1>2, <2>1 DEF TuiInitFails, GoesOn, Silent
<1>3. CASE InitColors
  BY <1>3 DEF InitColors, Resolve, Goto, GoesOn, Silent
<1>4. CASE StartHeadless \/ ApplyRequest \/ OpenMenu \/ StartTui \/ Initscr
  BY <1>4 DEF StartHeadless, ApplyRequest, OpenMenu, StartTui, Initscr, Runs, Enter, Goto,
     GoesOn, Silent
<1> QED
  BY <1>1, <1>2, <1>3, <1>4

LEMMA ProgramSteps ==
  ASSUME CallsAssumption, call \in Calls, Program
  PROVE  Concludes \/ GoesOn \/ TakesPage \/ StartPage \/ Paint
BY PagesAreFit, UnknownIsSaid, RefusalsAreSaid, RequestIsRead, CommandsAnswer, DoctorAnswers,
   TuiIsAnswered, TheRestGoesOn DEF Program

------------------------------------------------------------------------------
(* Until the program ends it has written nothing but the log; a page that is
   rendered is fit; and a failure that was not said was no failure. *)
SaidInv ==
  /\ call \in Calls
  /\ Only(stderr, {"log"}) \/ pc = "done"
  /\ stdout = << >> \/ pc = "done"
  /\ pc \in {"render", "paint"} => Fit(page)
  /\ 9 <= MaxChecks => FailuresAreSaid

LEMMA SilentKeepsQuiet ==
  ASSUME SaidInv, Silent, pc' \in {"render", "paint"} => Fit(page')
  PROVE  SaidInv'
<1>1. Only(stderr', {"log"})
  BY JoinedIsOnly DEF SaidInv, Silent
<1>2. stdout' = << >> /\ call' \in Calls /\ pc' # "done"
  BY DEF SaidInv, Silent
<1> QED
  BY <1>1, <1>2 DEF SaidInv, FailuresAreSaid

LEMMA ConclusionsAreSaid ==
  ASSUME SaidInv, Concludes PROVE SaidInv'
<1>1. PICK out, err, c : Answered(out, err, c)
  BY DEF Concludes
<1>2. /\ pc' = "done" /\ code' = c /\ stderr' = stderr \o err /\ user' = user /\ call' = call
      /\ Overlong' = Overlong
  BY <1>1 DEF Answered, End, Overlong
<1>3. Only(stderr, {"log"}) /\ Plainly(stderr)
  BY SilentLog DEF SaidInv, Concludes
<1>4. ASSUME c = "SUCCESS" PROVE ~Speaks(stderr')
  <2>1. Only(err, {"log"})
    BY <1>1, <1>4 DEF Answered
  <2>2. Only(stderr \o err, {"log"})
    BY <1>3, <2>1, JoinedIsOnly
  <2> QED
    BY <1>2, <2>2, SilentLog
<1>5. ASSUME c # "SUCCESS", 9 <= MaxChecks
      PROVE  \/ Speaks(stderr')
             \/ user' # "doctor" /\ code' \in {"INTERRUPTED", "TERMINATED"}
             \/ Overlong' /\ code' = "OUT_OF_RANGE"
  <2>1. CASE Speaks(err)
    BY <1>1, <1>2, <1>3, <2>1, JoinedSpeaks DEF Answered
  <2>2. CASE ~Speaks(err)
    BY <1>1, <1>2, <1>5, <2>2, MaxChecksAssumption DEF Answered
  <2> QED
    BY <2>1, <2>2
<1>6. ASSUME 9 <= MaxChecks PROVE FailuresAreSaid'
  BY <1>2, <1>4, <1>5, <1>6 DEF FailuresAreSaid, Speaks
<1> QED
  BY <1>2, <1>6 DEF SaidInv

LEMMA PaintingIsSaid ==
  ASSUME SaidInv, Paint PROVE SaidInv'
<1> DEFINE style == IF PageStyled THEN <<<<"style", "on">>>> ELSE << >>
           text == style \o page.text
           any == Unstyled \cup {"style"}
<1>1. Fit(page) /\ Only(stderr, {"log"}) /\ stdout = << >> /\ call \in Calls
  BY DEF SaidInv, Paint
<1>2. Only(style, any) /\ Only(page.text, any) /\ Only(stderr, any)
  <2>1. Only(style, any)
    BY OneIsOnly, NoneIsOnly
  <2>2. Plainly(stderr) /\ Plainly(page.text)
    BY <1>1, SilentLog DEF Fit
  <2> QED
    BY <2>1, <2>2, MoreKinds DEF Plainly
<1>3. Only(text, any)
  BY <1>2, JoinedIsOnly
<1>4. /\ pc' = "done" /\ code' = page.code /\ page' = page /\ call' = call
      /\ stdout' = stdout \o (IF page.stream = "stdout" THEN text ELSE << >>)
      /\ stderr' = stderr \o (IF page.stream = "stderr" THEN text ELSE << >>)
  BY DEF Paint, End
<1>5. \A k \in DOMAIN page.text : \E m \in DOMAIN text : text[m] = page.text[k]
  <2>1. PICK S : style \in Seq(S) /\ page.text \in Seq(S)
    <3>1. style \in Seq(Tokens(style) \cup Tokens(page.text))
      BY <1>2 DEF Only
    <3>2. page.text \in Seq(Tokens(style) \cup Tokens(page.text))
      BY <1>2 DEF Only
    <3> QED
      BY <3>1, <3>2
  <2> HIDE DEF style
  <2>2. ASSUME NEW k \in DOMAIN page.text
        PROVE  Len(style) + k \in DOMAIN text /\ text[Len(style) + k] = page.text[k]
    BY <2>1
  <2> QED
    BY <2>2
<1> HIDE DEF text, style, any
<1>6. CASE page.stream = "stdout"
  <2>1. stdout' = << >> \o text /\ stderr' = stderr \o << >>
    BY <1>1, <1>4, <1>6
  <2>2. stdout' = text /\ ~Speaks(stderr')
    <3>1. << >> \o text = text
      BY <1>3 DEF Only
    <3>2. Only(stderr \o << >>, {"log"})
      BY <1>1, NoneIsOnly, JoinedIsOnly
    <3> QED
      BY <2>1, <3>1, <3>2, SilentLog
  <2>3. page.code # "SUCCESS" => HelpOnStdout'
    <3>1. page.code # "SUCCESS" => Holds(page.text, {"help", "command help"})
      BY <1>1, <1>6 DEF Fit
    <3>2. Holds(page.text, {"help", "command help"}) => Holds(text, {"help", "command help"})
      BY <1>5 DEF Holds
    <3> QED
      BY <2>2, <3>1, <3>2 DEF HelpOnStdout
  <2>4. FailuresAreSaid'
    BY <1>4, <2>2, <2>3 DEF FailuresAreSaid, Speaks
  <2> QED
    BY <1>1, <1>4, <2>4 DEF SaidInv
<1>7. CASE page.stream = "stderr"
  <2>1. stderr' = stderr \o text
    BY <1>4, <1>7
  <2>2. page.code # "SUCCESS" /\ Speaks(text)
    BY <1>1, <1>5, <1>7 DEF Fit, Speaks
  <2>3. Speaks(stderr')
    <3>1. PICK S : stderr \in Seq(S) /\ text \in Seq(S)
      <4>1. stderr \in Seq(Tokens(stderr) \cup Tokens(text))
        BY <1>2 DEF Only
      <4>2. text \in Seq(Tokens(stderr) \cup Tokens(text))
        BY <1>3 DEF Only
      <4> QED
        BY <4>1, <4>2
    <3>2. PICK k \in DOMAIN text : text[k][1] # "log"
      BY <2>2 DEF Speaks
    <3>3. Len(stderr) + k \in DOMAIN (stderr \o text) /\ (stderr \o text)[Len(stderr) + k] = text[k]
      BY <3>1
    <3> QED
      BY <2>1, <3>2, <3>3 DEF Speaks
  <2>4. FailuresAreSaid'
    BY <1>4, <2>2, <2>3 DEF FailuresAreSaid, Speaks
  <2> QED
    BY <1>1, <1>4, <2>4 DEF SaidInv
<1> QED
  BY <1>1, <1>6, <1>7 DEF Fit

LEMMA NextSaid ==
  ASSUME CallsAssumption, SaidInv, [Next]_vars PROVE SaidInv'
<1>1. ASSUME UNCHANGED front PROVE SaidInv'
  BY <1>1 DEF front, SaidInv, FailuresAreSaid, HelpOnStdout, Overlong
<1>2. CASE Program
  <2>1. CASE GoesOn
    BY <2>1, SilentKeepsQuiet DEF GoesOn
  <2>2. CASE TakesPage
    BY <2>2, SilentKeepsQuiet DEF TakesPage
  <2>3. CASE StartPage
    <3>1. Silent /\ page' = page /\ Fit(page)
      BY <2>3 DEF StartPage, Resolve, Goto, Silent, SaidInv
    <3> QED
      BY <3>1, SilentKeepsQuiet
  <2>4. CASE Concludes
    BY <2>4, ConclusionsAreSaid
  <2>5. CASE Paint
    BY <2>5, PaintingIsSaid
  <2>6. call \in Calls
    BY DEF SaidInv
  <2> QED
    BY <1>2, <2>1, <2>2, <2>3, <2>4, <2>5, <2>6, ProgramSteps
<1>3. CASE CloseTui
  <2>1. Silent /\ pc' = "closed"
    BY <1>3 DEF CloseTui, Silent
  <2> QED
    BY <2>1, SilentKeepsQuiet
<1>4. CASE Ask \/ Happen \/ UNCHANGED vars
  BY <1>1, <1>4 DEF Ask, Happen, vars
<1> QED
  BY <1>2, <1>3, <1>4 DEF Next

LEMMA InitSaid == Init => SaidInv
<1>1. Only(<< >>, {"log"})
  BY NoneIsOnly
<1> QED
  BY <1>1 DEF Init, SaidInv, FailuresAreSaid

(* Every way the program can fail says so, whatever the arguments, the flags, the
   configuration and the request, --quiet included: the refusals of the
   dispatcher, a file or a request that cannot be read, a request with too many
   arguments, a TUI that does not start.  The two ways that are silent are
   named by the property: a TUI ended by a signal, and a command line with more
   arguments than there is room for, whatever the limit.  The doctor's array
   has room for its nine checks, or it would fail silently. *)
THEOREM FailuresAreReported ==
  ASSUME 9 <= MaxChecks PROVE Spec => []FailuresAreSaid
<1>1. SaidInv => FailuresAreSaid
  BY DEF SaidInv
<1>2. SaidInv /\ [Next]_vars => SaidInv'
  BY NextSaid, CallsAssumption
<1> QED
  BY InitSaid, <1>1, <1>2, PTL DEF Spec

------------------------------------------------------------------------------
(* Before the flags are settled they are off, and the program ends or exits with
   a page at once. *)
DecidedInv ==
  ~decided => /\ flags = AllOff
              /\ pc \in {"scan", "render", "paint", "done"}
              /\ pc \in {"render", "paint"} => ImmediateExit(call.globals) # None

LEMMA NextDecided == DecidedInv /\ [Next]_vars => DecidedInv'
<1> SUFFICES ASSUME DecidedInv, [Next]_vars PROVE DecidedInv'
  OBVIOUS
<1>1. ASSUME UNCHANGED <<call, flags, decided>>, pc' = pc \/ pc' = "done" \/ decided
      PROVE  DecidedInv'
  BY <1>1 DEF DecidedInv
<1>2. CASE ExitImmediately
  BY <1>2 DEF ExitImmediately, Render, DecidedInv
<1>3. CASE ScanFails \/ FileFails \/ TooManyArguments
  BY <1>1, <1>3 DEF ScanFails, FileFails, TooManyArguments, End
<1>4. CASE Load
  BY <1>4 DEF Load, DecidedInv
<1>5. CASE StartHeadless \/ ApplyRequest
  BY <1>5 DEF StartHeadless, ApplyRequest, DecidedInv
<1>6. CASE ReadRequest \/ NoCommand \/ UnknownCommand \/ ShowCommandHelp
           \/ RefuseWithoutTerminal \/ Invalid \/ Greet \/ ShowInfo \/ PrintContract
           \/ Examine \/ Report \/ OpenMenu \/ RefuseJson \/ NotCompiled \/ StartTui
           \/ Initscr \/ TuiInitFails \/ InitColors \/ TuiReturns \/ CloseTui
  <2>1. decided
    BY <1>6 DEF DecidedInv, ReadRequest, NoCommand, UnknownCommand, ShowCommandHelp,
       RefuseWithoutTerminal, Invalid, Greet, ShowInfo, PrintContract, Examine, Report,
       OpenMenu, RefuseJson, NotCompiled, StartTui, Initscr, TuiInitFails, InitColors,
       TuiReturns, CloseTui, Runs
  <2>2. UNCHANGED <<call, flags, decided>>
    BY <1>6 DEF ReadRequest, NoCommand, UnknownCommand, ShowCommandHelp,
       RefuseWithoutTerminal, Invalid, Greet, ShowInfo, PrintContract, Examine, Report,
       OpenMenu, RefuseJson, NotCompiled, StartTui, Initscr, TuiInitFails, InitColors,
       TuiReturns, CloseTui, Runs, End, Goto, Enter, Render, Resolve
  <2> QED
    BY <1>1, <2>1, <2>2
<1>7. CASE StartPage
  <2>1. pc = "render" /\ pc' = "paint" /\ UNCHANGED <<call, flags, decided>>
    BY <1>7 DEF StartPage, Resolve, Goto
  <2> QED
    BY <2>1 DEF DecidedInv
<1>8. CASE Paint
  BY <1>1, <1>8 DEF Paint, End
<1>9. CASE Ask \/ Happen \/ UNCHANGED vars
  BY <1>1, <1>9 DEF Ask, Happen, vars, front
<1> QED
  BY <1>2, <1>3, <1>4, <1>5, <1>6, <1>7, <1>8, <1>9 DEF Next, Program

(* A style is written by a page only, and only where the policy of its build
   lets it; and a query that is not the doctor's is for somebody who may use its
   colours. *)
MayPaint ==
  IF StyledBuild THEN ~HardDisabled(call.env, flags)
  ELSE ~decided /\ UseColors(call.env, NoConfig, IsTty("stderr"))

ColourInv ==
  /\ pc # "done" => ~Painted
  /\ Painted => MayPaint
  /\ Painted /\ ~decided => ImmediateExit(call.globals) # None
  /\ at # "away" /\ user # "doctor" => ~flags["plain"] /\ ~flags["no_color"]

(* What nothing overrules is off for both policies, whatever the flags; a dumb
   terminal is off for the first, and for the second unless colour is forced. *)
LEMMA OffDisables ==
  ASSUME NEW env, NEW config, NEW there
  PROVE  /\ OffForAll(env) => HardDisabled(env, config) /\ ~UseColors(env, config, there)
         /\ env.TERM = "dumb" => HardDisabled(env, config)
         /\ env.TERM = "dumb" /\ UseColors(env, config, there) => EnvForce(env) = "on"
<1>1. CASE env.FORCE_COLOR = "unset" /\ env.CLICOLOR_FORCE # "1" /\ env.CLICOLOR = "0"
  <2>1. EnvForce(env) = "off"
    BY <1>1 DEF EnvForce
  <2> QED
    BY <2>1 DEF HardDisabled, UseColors
<1>2. CASE env.FORCE_COLOR = "0"
  <2>1. EnvForce(env) = "off"
    BY <1>2 DEF EnvForce
  <2> QED
    BY <2>1 DEF HardDisabled, UseColors
<1>3. CASE env.NO_COLOR \/ env.APP_CLI_COLOR = "never"
  BY <1>3, Zenon DEF HardDisabled, UseColors
<1>4. /\ env.TERM = "dumb" => HardDisabled(env, config)
      /\ env.TERM = "dumb" /\ UseColors(env, config, there) => EnvForce(env) = "on"
  BY Zenon DEF HardDisabled, UseColors
<1> QED
  BY <1>1, <1>2, <1>3, <1>4, Zenon DEF OffForAll

LEMMA PlainlyUnpainted ==
  ASSUME NEW s, Plainly(s) PROVE ~Holds(s, {"style"})
<1>1. "style" \notin Unstyled
  BY DEF Unstyled
<1> QED
  BY <1>1 DEF Plainly, Only, Holds

(* No style is written before the end. *)
LEMMA QuietStreams ==
  ASSUME SaidInv PROVE pc # "done" => Plainly(stdout) /\ Plainly(stderr)
BY SilentLog, PlainTokens DEF SaidInv

(* A query begins for a screen or a page that has colours. *)
LEMMA AsksForColours ==
  ASSUME Program, at = "away", at' # "away"
  PROVE  /\ UNCHANGED <<flags, user>>
         /\ user # "doctor" => ~flags["plain"] /\ ~flags["no_color"]
<1>1. CASE InitColors
  <2>1. TuiColors /\ Resolve("screen")
    BY <1>1 DEF InitColors, Goto, terminal
  <2> QED
    BY <2>1 DEF TuiColors, Resolve, UseColors
<1>2. CASE StartPage
  <2>1. PageStyled /\ Resolve("paint") /\ StyledBuild
    BY <1>2 DEF StartPage, Goto, Resolve, Asks, terminal
  <2> QED
    BY <2>1 DEF PageStyled, Resolve, Styled, StyleWanted, HardDisabled
<1>3. CASE ~InitColors /\ ~StartPage
  BY <1>3 DEF Program, ExitImmediately, ScanFails, FileFails, TooManyArguments, Load, StartHeadless,
     ReadRequest, ApplyRequest, NoCommand, UnknownCommand, ShowCommandHelp, RefuseWithoutTerminal,
     Invalid, Greet, ShowInfo, PrintContract, Examine, Report, OpenMenu, RefuseJson,
     NotCompiled, StartTui, Initscr, TuiInitFails, TuiReturns, Paint, Runs, End, Goto,
     Enter, Render, terminal
<1> QED
  BY <1>1, <1>2, <1>3

LEMMA PaintingIsAllowed ==
  ASSUME SaidInv, ColourInv, DecidedInv, Paint
  PROVE  Painted' => MayPaint' /\ (~decided' => ImmediateExit(call'.globals) # None)
<1>1. UNCHANGED <<call, flags, decided>> /\ pc = "paint"
  BY DEF Paint, End
<1>2. CASE PageStyled
  <2>1. MayPaint
    BY <1>2 DEF MayPaint, PageStyled, Styled, StyleWanted
  <2>2. MayPaint'
    BY <1>1, <2>1 DEF MayPaint, StyledBuild, HardDisabled, UseColors, EnvForce, IsTty
  <2> QED
    BY <1>1, <2>2 DEF DecidedInv
<1>3. CASE ~PageStyled
  <2> DEFINE text == << >> \o page.text
  <2>1. Plainly(stdout) /\ Plainly(stderr) /\ Plainly(page.text)
    BY QuietStreams DEF SaidInv, Fit, Paint
  <2>2. Plainly(text)
    BY <2>1, PlainTokens, JoinedPlainly
  <2>3. /\ stdout' = stdout \o (IF page.stream = "stdout" THEN text ELSE << >>)
        /\ stderr' = stderr \o (IF page.stream = "stderr" THEN text ELSE << >>)
    BY <1>3 DEF Paint, End
  <2> HIDE DEF text
  <2>4. Plainly(stdout') /\ Plainly(stderr')
    BY <2>1, <2>2, <2>3, PlainTokens, JoinedPlainly
  <2> QED
    BY <2>4, PlainlyUnpainted DEF Painted
<1> QED
  BY <1>2, <1>3

LEMMA NextColour ==
  ASSUME CallsAssumption, ModeInv, SaidInv, ColourInv, DecidedInv, [Next]_vars
  PROVE  ColourInv'
<1>1. ASSUME UNCHANGED <<call, flags, decided, pc, stdout, stderr, user>>,
             at' # "away" => at # "away"
      PROVE  ColourInv'
  <2>1. MayPaint' = MayPaint /\ Painted' = Painted
    BY <1>1 DEF MayPaint, Painted, StyledBuild, IsTty
  <2> QED
    BY <1>1, <2>1 DEF ColourInv
<1>2. CASE Program
  <2>1. pc # "done" /\ at = "away"
    BY <1>2, ProgramWaits
  <2>2. (at # "away" /\ user # "doctor" => ~flags["plain"] /\ ~flags["no_color"])'
    BY <1>2, <2>1, AsksForColours
  <2>3. Plainly(stdout) /\ Plainly(stderr)
    BY <2>1, QuietStreams
  <2>4. CASE Silent
    <3>1. Plainly(stdout') /\ Plainly(stderr')
      BY <2>3, <2>4, SilentLog, JoinedPlainly DEF Silent
    <3>2. ~Painted'
      BY <3>1, PlainlyUnpainted DEF Painted
    <3> QED
      BY <2>2, <3>2 DEF ColourInv
  <2>5. CASE Concludes
    <3>1. PICK out, err, c : Answered(out, err, c)
      BY <2>5 DEF Concludes
    <3>2. Plainly(stdout') /\ Plainly(stderr') /\ pc' = "done"
      BY <2>3, <3>1, JoinedPlainly DEF Answered, End
    <3>3. ~Painted'
      BY <3>2, PlainlyUnpainted DEF Painted
    <3> QED
      BY <2>2, <3>3 DEF ColourInv
  <2>6. CASE Paint
    <3>1. pc' = "done"
      BY <2>6 DEF Paint, End
    <3> QED
      BY <2>2, <2>6, <3>1, PaintingIsAllowed DEF ColourInv
  <2>7. StartPage => Silent
    BY DEF StartPage, Resolve, Goto, Silent
  <2>8. call \in Calls
    BY DEF SaidInv
  <2> QED
    BY <1>2, <2>4, <2>5, <2>6, <2>7, <2>8, ProgramSteps DEF GoesOn, TakesPage
<1>3. CASE CloseTui
  <2>1. pc # "done" /\ pc' # "done" /\ at' = "away" /\ UNCHANGED <<stdout, stderr>>
    BY <1>3 DEF CloseTui
  <2> QED
    BY <2>1 DEF ColourInv, Painted
<1>4. CASE Ask
  <2>1. at # "away"
    BY <1>4 DEF Ask, Query!Step, Query!SetupFails, Query!SetRaw, Query!Write,
       Query!WriteFails, Query!Poll, Query!PollFails, Query!Read, Query!ReadFails,
       Query!GiveUp, Query!Restore
  <2> QED
    BY <1>1, <1>4, <2>1 DEF Ask, front
<1>5. CASE Happen
  BY <1>1, <1>5 DEF Happen, front, Query!Arrive, Query!Type
<1>6. CASE UNCHANGED vars
  BY <1>1, <1>6 DEF vars, front, terminal
<1> QED
  BY <1>2, <1>3, <1>4, <1>5, <1>6 DEF Next

(* Colours that are switched off by whichever variable are off for the pages of
   help and errors in either build and for the probe of the terminal, a dumb
   terminal excepted where the build without styles heeds a forced colour; the
   settled flags are heeded by every page but those that exit before they are
   settled, and by the TUI; and on the same terminals the policy of the styled
   pages allows nothing that the policy of the TUI forbids. *)
THEOREM ColoursAreOff == Spec => []OffMeansOff
<1>1. Init => ColourInv /\ AskInv /\ DecidedInv
  BY DEF Init, Query!Init, ColourInv, AskInv, DecidedInv, Painted, Holds
<1>2. AskInv /\ ColourInv /\ DecidedInv => OffMeansOff
  <2> SUFFICES ASSUME AskInv, ColourInv, DecidedInv PROVE OffMeansOff
    OBVIOUS
  <2>1. Off(call.env) => at = "away"
    BY OffSkipsProbe DEF AskInv, Asks
  <2>2. CASE ~Painted
    BY <2>1, <2>2 DEF OffMeansOff, ColourInv
  <2>3. CASE Painted /\ StyledBuild
    <3>1. ~HardDisabled(call.env, flags)
      BY <2>3 DEF ColourInv, MayPaint
    <3>2. ~OffForAll(call.env) /\ call.env.TERM # "dumb"
      <4>1. /\ OffForAll(call.env) => HardDisabled(call.env, flags)
            /\ call.env.TERM = "dumb" => HardDisabled(call.env, flags)
        BY OffDisables, Zenon
      <4> QED
        BY <3>1, <4>1, Zenon
    <3>3. /\ ~flags["plain"] /\ ~flags["no_color"] /\ ~flags["json"]
          /\ UseColors(call.env, flags, TRUE)
      BY <3>1 DEF HardDisabled, UseColors, EnvForce
    <3> QED
      BY <2>1, <2>3, <3>2, <3>3 DEF OffMeansOff, ColourInv
  <2>4. CASE Painted /\ ~StyledBuild
    <3>1. ~decided /\ UseColors(call.env, NoConfig, IsTty("stderr"))
      BY <2>4 DEF ColourInv, MayPaint
    <3>2. /\ ~OffForAll(call.env)
          /\ call.env.TERM = "dumb" => EnvForce(call.env) = "on"
      BY <3>1, OffDisables, Zenon
    <3>3. ~flags["plain"] /\ ~flags["no_color"]
      BY <3>1 DEF DecidedInv, AllOff, Flag
    <3>4. UseColors(call.env, flags, TRUE)
      BY <3>1, <3>3 DEF UseColors
    <3> QED
      BY <2>1, <2>4, <3>1, <3>2, <3>4 DEF OffMeansOff, ColourInv
  <2> QED
    BY <2>2, <2>3, <2>4
<1>3. ModeInv /\ SaidInv /\ ColourInv /\ DecidedInv /\ [Next]_vars => ColourInv'
  BY NextColour, CallsAssumption
<1>4. SaidInv /\ [Next]_vars => SaidInv'
  BY NextSaid, CallsAssumption
<1> QED
  BY InitMode, InitSaid, <1>1, NextMode, <1>4, <1>3, NextAsk,
     NextDecided, <1>2, PTL DEF Spec
==============================================================================
