------------------------ MODULE CallCoverageProofs ------------------------
(***************************************************************************)
(* CallCoverage for every value of its constants: any syscalls, any number  *)
(* of restarts on either side and of failing file operations, the generator *)
(* started at any time.                                                     *)
(***************************************************************************)
EXTENDS CallCoverage, TLAPS

TypeInv ==
  /\ known \in BOOLEAN /\ dump \in {"no", "dumping", "done"} /\ dumpTodo \subseteq Calls
  /\ gCoverCalls \subseteq Calls /\ statTodo \subseteq Calls /\ corpus \subseteq Calls
  /\ covered \in [Calls -> Nat] /\ enabled \subseteq Calls
  /\ gpc \in {"start", "wait", "sleep", "target"}
  /\ enabledPath \in BOOLEAN /\ coveredPath \in BOOLEAN
  /\ enabledMem \subseteq Calls /\ coveredMem \subseteq Calls /\ targets \subseteq Calls
  /\ mgrRestarts \in Nat /\ genRestarts \in Nat /\ faults \in Nat
  /\ ranRound \in BOOLEAN /\ misread \in BOOLEAN /\ unstored \subseteq Calls

LEMMA TypeInit == Init => TypeInv
<1> SUFFICES ASSUME Init PROVE TypeInv
  OBVIOUS
<1>1. covered \in [Calls -> Nat] /\ corpus \subseteq Calls
  BY DEF Init
<1>2. QED
  BY <1>1 DEF Init, TypeInv

LEMMA TypeStep == TypeInv /\ [Next]_vars => TypeInv'
<1> SUFFICES ASSUME TypeInv, [Next]_vars PROVE TypeInv'
  OBVIOUS
<1>1. CASE MachineChecked
  BY <1>1 DEF TypeInv, MachineChecked, LoadedCalls, fileVars, genVars, boundVars, ghostVars
<1>2. ASSUME NEW calls \in SUBSET Calls, NewInput(calls) PROVE TypeInv'
  BY <1>2 DEF TypeInv, NewInput, Saved, fileVars, genVars, boundVars, ghostVars
<1>3. ASSUME NEW c \in Calls, StatCall(c) PROVE TypeInv'
  BY <1>3 DEF TypeInv, StatCall, genVars
<1>4. CASE DumpBegins
  BY <1>4 DEF TypeInv, DumpBegins, fileVars, genVars, boundVars, ghostVars
<1>5. ASSUME NEW c \in Calls, DumpCall(c) PROVE TypeInv'
  BY <1>5 DEF TypeInv, DumpCall, Listed, genVars
<1>6. CASE ManagerRestart
  <2>1. /\ known' \in BOOLEAN /\ enabledPath' \in BOOLEAN /\ coveredPath' \in BOOLEAN
        /\ ranRound' \in BOOLEAN /\ misread' \in BOOLEAN
    BY <1>6 DEF TypeInv, ManagerRestart, genVars, ghostVars
  <2>2. mgrRestarts' \in Nat /\ genRestarts' \in Nat /\ faults' \in Nat
    BY <1>6 DEF TypeInv, ManagerRestart
  <2>3. covered' \in [Calls -> Nat] /\ enabled' \subseteq Calls /\ coveredMem' \subseteq Calls
    BY <1>6 DEF TypeInv, ManagerRestart, fileVars, genVars
  <2>4. QED
    BY <1>6, <2>1, <2>2, <2>3 DEF TypeInv, ManagerRestart, genVars, ghostVars
<1>7. CASE ResolvePaths
  BY <1>7 DEF TypeInv, ResolvePaths, fuzzVars, fileVars, boundVars, ghostVars
<1>8. CASE WaitOver
  BY <1>8 DEF TypeInv, WaitOver, fuzzVars, fileVars, boundVars, ghostVars
<1>9. CASE ReadCovered
  <2>1. /\ known' \in BOOLEAN /\ enabledPath' \in BOOLEAN /\ coveredPath' \in BOOLEAN
        /\ ranRound' \in BOOLEAN /\ misread' \in BOOLEAN
    BY <1>9 DEF TypeInv, ReadCovered, fuzzVars
  <2>2. mgrRestarts' \in Nat /\ genRestarts' \in Nat /\ faults' \in Nat
    BY <1>9 DEF TypeInv, ReadCovered
  <2>3. covered' \in [Calls -> Nat] /\ enabled' \subseteq Calls /\ coveredMem' \subseteq Calls
    BY <1>9 DEF TypeInv, ReadCovered, CoveredRead, fileVars, CoveredLines
  <2>4. QED
    BY <1>9, <2>1, <2>2, <2>3 DEF TypeInv, ReadCovered, fuzzVars
<1>10. CASE ReadEnabled
  BY <1>10 DEF TypeInv, ReadEnabled, fuzzVars, fileVars, boundVars
<1>11. CASE GeneratorRestart
  <2>1. /\ known' \in BOOLEAN /\ enabledPath' \in BOOLEAN /\ coveredPath' \in BOOLEAN
        /\ ranRound' \in BOOLEAN /\ misread' \in BOOLEAN
    BY <1>11 DEF TypeInv, GeneratorRestart, fuzzVars
  <2>2. mgrRestarts' \in Nat /\ genRestarts' \in Nat /\ faults' \in Nat
    BY <1>11 DEF TypeInv, GeneratorRestart
  <2>3. covered' \in [Calls -> Nat] /\ enabled' \subseteq Calls /\ coveredMem' \subseteq Calls
    BY <1>11 DEF TypeInv, GeneratorRestart, fileVars
  <2>4. QED
    BY <1>11, <2>1, <2>2, <2>3 DEF TypeInv, GeneratorRestart, fuzzVars
<1>12. CASE UNCHANGED vars
  BY <1>12 DEF TypeInv, vars, fuzzVars, fileVars, genVars, boundVars, ghostVars
<1>13. QED
  BY <1>1, <1>2, <1>3, <1>4, <1>5, <1>6, <1>7, <1>8, <1>9, <1>10, <1>11, <1>12 DEF Next,
     ManagerStep, StatStep, GeneratorStep

\* The variables stay in their types (the manager, its two files and the generator).
THEOREM TypesKept == Spec => []TypeInv
BY TypeInit, TypeStep, PTL DEF Spec

----------------------------------------------------------------------------
(* The lines of a call.  A manager that has not counted the call has written *)
(* no line of it, so that each of its predecessors stands for one at most.   *)

LinesInv ==
  \A c \in Calls : covered[c] <= mgrRestarts + IF c \in gCoverCalls THEN 1 ELSE 0

LEMMA LinesInit == Init => LinesInv
BY DEF Init, LinesInv

LEMMA LinesStep == TypeInv /\ LinesInv /\ [Next]_vars => LinesInv'
<1> SUFFICES ASSUME TypeInv, LinesInv, [Next]_vars PROVE LinesInv'
  OBVIOUS
<1>1. CASE MachineChecked
  BY <1>1 DEF LinesInv, MachineChecked, fileVars, boundVars
<1>2. ASSUME NEW calls \in SUBSET Calls, NewInput(calls) PROVE LinesInv'
  BY <1>2 DEF LinesInv, NewInput, fileVars, boundVars
<1>3. ASSUME NEW c \in Calls, StatCall(c) PROVE LinesInv'
  BY <1>3 DEF TypeInv, LinesInv, StatCall, Uncounted
<1>4. CASE DumpBegins
  BY <1>4 DEF LinesInv, DumpBegins, fileVars, boundVars
<1>5. ASSUME NEW c \in Calls, DumpCall(c) PROVE LinesInv'
  BY <1>5 DEF LinesInv, DumpCall
<1>6. CASE ManagerRestart
  BY <1>6 DEF TypeInv, LinesInv, ManagerRestart, fileVars
<1>7. CASE ResolvePaths
  BY <1>7 DEF LinesInv, ResolvePaths, fuzzVars, fileVars, boundVars
<1>8. CASE WaitOver
  BY <1>8 DEF LinesInv, WaitOver, fuzzVars, fileVars, boundVars
<1>9. CASE ReadCovered
  BY <1>9 DEF LinesInv, ReadCovered, fuzzVars, fileVars
<1>10. CASE ReadEnabled
  BY <1>10 DEF LinesInv, ReadEnabled, fuzzVars, fileVars, boundVars
<1>11. CASE GeneratorRestart
  BY <1>11 DEF LinesInv, GeneratorRestart, fuzzVars, fileVars
<1>12. CASE UNCHANGED vars
  BY <1>12 DEF LinesInv, vars, fuzzVars, fileVars, boundVars
<1>13. QED
  BY <1>1, <1>2, <1>3, <1>4, <1>5, <1>6, <1>7, <1>8, <1>9, <1>10, <1>11, <1>12 DEF Next,
     ManagerStep, StatStep, GeneratorStep

----------------------------------------------------------------------------
(* The targets of a round.  Lines are only ever added, so what the next      *)
(* round reads contains what the last one read; and since the generator has  *)
(* waited for the file of the enabled calls, its first round finds some and  *)
(* keeps them.                                                               *)

TargetsInv ==
  /\ gpc \in {"sleep", "target"} => enabled # {}
  /\ ranRound => enabledMem # {}
  /\ ~misread => coveredMem \subseteq CoveredLines
  /\ ranRound /\ ~misread => enabledMem \ coveredMem \subseteq targets

LEMMA TargetsInit == Init => TargetsInv
BY DEF Init, TargetsInv

LEMMA TargetsStep == TypeInv /\ TargetsInv /\ [Next]_vars => TargetsInv'
<1> SUFFICES ASSUME TypeInv, TargetsInv, [Next]_vars PROVE TargetsInv'
  OBVIOUS
<1>1. CASE MachineChecked
  BY <1>1 DEF TargetsInv, CoveredLines, MachineChecked, fileVars, genVars, ghostVars
<1>2. ASSUME NEW calls \in SUBSET Calls, NewInput(calls) PROVE TargetsInv'
  BY <1>2 DEF TargetsInv, CoveredLines, NewInput, fileVars, genVars, ghostVars
<1>3. ASSUME NEW c \in Calls, StatCall(c) PROVE TargetsInv'
  BY <1>3 DEF TypeInv, TargetsInv, CoveredLines, StatCall, genVars
<1>4. CASE DumpBegins
  BY <1>4 DEF TargetsInv, CoveredLines, DumpBegins, fileVars, genVars, ghostVars
<1>5. ASSUME NEW c \in Calls, DumpCall(c) PROVE TargetsInv'
  BY <1>5 DEF TargetsInv, CoveredLines, DumpCall, Listed, genVars
<1>6. CASE ManagerRestart
  BY <1>6 DEF TargetsInv, CoveredLines, ManagerRestart, fileVars, genVars, ghostVars
<1>7. CASE ResolvePaths
  BY <1>7 DEF TargetsInv, CoveredLines, ResolvePaths, fileVars, ghostVars
<1>8. CASE WaitOver
  BY <1>8 DEF TargetsInv, CoveredLines, WaitOver, fileVars, ghostVars
<1>9. CASE ReadCovered
  BY <1>9 DEF TargetsInv, CoveredLines, ReadCovered, CoveredRead, fileVars
<1>10. CASE ReadEnabled
  BY <1>10 DEF TargetsInv, CoveredLines, ReadEnabled, fileVars
<1>11. CASE GeneratorRestart
  BY <1>11 DEF TargetsInv, GeneratorRestart
<1>12. CASE UNCHANGED vars
  BY <1>12 DEF TargetsInv, CoveredLines, vars, fileVars, genVars, ghostVars
<1>13. QED
  BY <1>1, <1>2, <1>3, <1>4, <1>5, <1>6, <1>7, <1>8, <1>9, <1>10, <1>11, <1>12 DEF Next,
     ManagerStep, StatStep, GeneratorStep

\* A call that a round has found covered is no target of any later one, across restarts of
\* the manager, as long as CoveredCalls could be read (syzgpt_generator.py:449-464).
THEOREM TargetsNeverGrow == Spec => TargetsShrink
<1>1. ASSUME TypeInv, TargetsInv, [Next]_vars, ranRound, ranRound', ~misread'
      PROVE  targets' \subseteq targets
  <2>1. CASE ReadEnabled
    BY <1>1, <2>1 DEF TargetsInv, ReadEnabled
  <2>2. CASE GeneratorRestart
    BY <1>1, <2>2 DEF GeneratorRestart
  <2>3. CASE ManagerStep \/ StatStep \/ ManagerRestart
             \/ \E calls \in (SUBSET Calls) \ {{}} : NewInput(calls)
    BY <2>3 DEF ManagerStep, StatStep, ManagerRestart, MachineChecked, DumpBegins, DumpCall,
       StatCall, NewInput, genVars
  <2>4. CASE ResolvePaths \/ WaitOver \/ ReadCovered
    BY <2>4 DEF ResolvePaths, WaitOver, ReadCovered
  <2>5. CASE UNCHANGED vars
    BY <2>5 DEF vars, genVars
  <2>6. QED
    BY <1>1, <2>1, <2>2, <2>3, <2>4, <2>5 DEF Next, GeneratorStep
<1>2. Init => TypeInv /\ TargetsInv
  BY TypeInit, TargetsInit
<1>3. TypeInv /\ TargetsInv /\ [Next]_vars => (TypeInv /\ TargetsInv)'
  BY TypeStep, TargetsStep
<1>4. TypeInv /\ TargetsInv /\ [Next]_vars
        => [ranRound /\ ranRound' /\ ~misread' => targets' \subseteq targets]_vars
  BY <1>1
<1>5. QED
  BY <1>2, <1>3, <1>4, PTL DEF Spec, TargetsShrink

----------------------------------------------------------------------------
(* The list of the enabled calls: what the dump has behind it is in the file, *)
(* or its line could not be written.                                         *)

DumpInv ==
  /\ dump # "no" => Calls \ dumpTodo \subseteq enabled \cup unstored
  /\ dump = "done" => dumpTodo = {}

LEMMA DumpInit == Init => DumpInv
BY DEF Init, DumpInv

LEMMA DumpStep == TypeInv /\ DumpInv /\ [Next]_vars => DumpInv'
<1> SUFFICES ASSUME TypeInv, DumpInv, [Next]_vars PROVE DumpInv'
  OBVIOUS
<1>1. CASE MachineChecked
  BY <1>1 DEF DumpInv, MachineChecked, fileVars, ghostVars
<1>2. ASSUME NEW calls \in SUBSET Calls, NewInput(calls) PROVE DumpInv'
  BY <1>2 DEF DumpInv, NewInput, fileVars, ghostVars
<1>3. ASSUME NEW c \in Calls, StatCall(c) PROVE DumpInv'
  BY <1>3 DEF DumpInv, StatCall
<1>4. CASE DumpBegins
  BY <1>4 DEF DumpInv, DumpBegins
<1>5. ASSUME NEW c \in Calls, DumpCall(c) PROVE DumpInv'
  BY <1>5 DEF DumpInv, DumpCall, Listed
<1>6. CASE ManagerRestart
  BY <1>6 DEF DumpInv, ManagerRestart
<1>7. CASE ResolvePaths
  BY <1>7 DEF DumpInv, ResolvePaths, fuzzVars, fileVars, ghostVars
<1>8. CASE WaitOver
  BY <1>8 DEF DumpInv, WaitOver, fuzzVars, fileVars, ghostVars
<1>9. CASE ReadCovered
  BY <1>9 DEF DumpInv, ReadCovered, fuzzVars, fileVars
<1>10. CASE ReadEnabled
  BY <1>10 DEF DumpInv, ReadEnabled, fuzzVars, fileVars
<1>11. CASE GeneratorRestart
  BY <1>11 DEF DumpInv, GeneratorRestart, fuzzVars, fileVars
<1>12. CASE UNCHANGED vars
  BY <1>12 DEF DumpInv, vars, fuzzVars, fileVars, ghostVars
<1>13. QED
  BY <1>1, <1>2, <1>3, <1>4, <1>5, <1>6, <1>7, <1>8, <1>9, <1>10, <1>11, <1>12 DEF Next,
     ManagerStep, StatStep, GeneratorStep

\* A generator that begins after the dump is done knows all enabled syscalls but those
\* whose line was lost (patch lines 192-202 and 428-438, syzgpt_generator.py:449-464).
THEOREM UniverseWhole == Spec => WholeUniverse
<1>1. ASSUME TypeInv, DumpInv, [Next]_vars, enabledMem = {}, enabledMem' # {}, dump = "done"
      PROVE  Calls \ unstored \subseteq enabledMem'
  <2>1. CASE ReadEnabled
    BY <1>1, <2>1 DEF DumpInv, ReadEnabled
  <2>2. CASE GeneratorRestart
    BY <1>1, <2>2 DEF GeneratorRestart
  <2>3. CASE ManagerStep \/ StatStep \/ ManagerRestart
             \/ \E calls \in (SUBSET Calls) \ {{}} : NewInput(calls)
    BY <1>1, <2>3 DEF ManagerStep, StatStep, ManagerRestart, MachineChecked, DumpBegins,
       DumpCall, StatCall, NewInput, genVars
  <2>4. CASE ResolvePaths \/ WaitOver \/ ReadCovered
    BY <1>1, <2>4 DEF ResolvePaths, WaitOver, ReadCovered
  <2>5. CASE UNCHANGED vars
    BY <1>1, <2>5 DEF vars, genVars
  <2>6. QED
    BY <1>1, <2>1, <2>2, <2>3, <2>4, <2>5 DEF Next, GeneratorStep
<1>2. Init => TypeInv /\ DumpInv
  BY TypeInit, DumpInit
<1>3. TypeInv /\ DumpInv /\ [Next]_vars => (TypeInv /\ DumpInv)'
  BY TypeStep, DumpStep
<1>4. TypeInv /\ DumpInv /\ [Next]_vars
        => [enabledMem = {} /\ enabledMem' # {} /\ dump = "done"
              => Calls \ unstored \subseteq enabledMem']_vars
  BY <1>1
<1>5. QED
  BY <1>2, <1>3, <1>4, PTL DEF Spec, WholeUniverse

----------------------------------------------------------------------------
(* The file and the corpus.  What a manager has counted has a line, in the    *)
(* file or lost, and what it has in its corpus it has counted or is counting; *)
(* the next manager begins with all of the corpus.                           *)

CountInv ==
  /\ gCoverCalls \subseteq CoveredLines \cup unstored
  /\ known => corpus \subseteq gCoverCalls \cup statTodo

LEMMA CountInit == Init => CountInv
BY DEF Init, CountInv

LEMMA CountStep == TypeInv /\ CountInv /\ [Next]_vars => CountInv'
<1> SUFFICES ASSUME TypeInv, CountInv, [Next]_vars PROVE CountInv'
  OBVIOUS
<1>1. CASE MachineChecked
  BY <1>1 DEF CountInv, CoveredLines, MachineChecked, LoadedCalls, fileVars, ghostVars
<1>2. ASSUME NEW calls \in SUBSET Calls, NewInput(calls) PROVE CountInv'
  BY <1>2 DEF CountInv, CoveredLines, NewInput, Saved, fileVars, ghostVars
<1>3. ASSUME NEW c \in Calls, StatCall(c) PROVE CountInv'
  <2>1. \A d \in Calls : covered[d] \in Nat
    BY DEF TypeInv
  <2>2. CoveredLines \cup unstored \subseteq (CoveredLines \cup unstored)'
    BY <1>3, <2>1 DEF TypeInv, CoveredLines, StatCall
  <2>3. c \in gCoverCalls \/ c \in (CoveredLines \cup unstored)'
    BY <1>3, <2>1 DEF TypeInv, CoveredLines, StatCall, Uncounted
  <2>4. gCoverCalls' = gCoverCalls \cup {c} /\ statTodo' = statTodo \ {c}
        /\ known' = known /\ corpus' = corpus
    BY <1>3 DEF StatCall
  <2>5. QED
    BY <2>2, <2>3, <2>4 DEF CountInv
<1>4. CASE DumpBegins
  BY <1>4 DEF CountInv, CoveredLines, DumpBegins, fileVars, ghostVars
<1>5. ASSUME NEW c \in Calls, DumpCall(c) PROVE CountInv'
  BY <1>5 DEF CountInv, CoveredLines, DumpCall
<1>6. CASE ManagerRestart
  BY <1>6 DEF CountInv, ManagerRestart
<1>7. CASE ResolvePaths
  BY <1>7 DEF CountInv, CoveredLines, ResolvePaths, fuzzVars, fileVars, ghostVars
<1>8. CASE WaitOver
  BY <1>8 DEF CountInv, CoveredLines, WaitOver, fuzzVars, fileVars, ghostVars
<1>9. CASE ReadCovered
  BY <1>9 DEF CountInv, CoveredLines, ReadCovered, fuzzVars, fileVars
<1>10. CASE ReadEnabled
  BY <1>10 DEF CountInv, CoveredLines, ReadEnabled, fuzzVars, fileVars
<1>11. CASE GeneratorRestart
  BY <1>11 DEF CountInv, CoveredLines, GeneratorRestart, fuzzVars, fileVars
<1>12. CASE UNCHANGED vars
  BY <1>12 DEF CountInv, CoveredLines, vars, fuzzVars, fileVars, ghostVars
<1>13. QED
  BY <1>1, <1>2, <1>3, <1>4, <1>5, <1>6, <1>7, <1>8, <1>9, <1>10, <1>11, <1>12 DEF Next,
     ManagerStep, StatStep, GeneratorStep

\* However often the manager is restarted, CoveredCalls has no more lines of a call than
\* there were managers; and however often one dies between saving a program and counting
\* it, a manager that has counted has a line for every call of its corpus, but for those
\* that could not be written (patch lines 372-391, 440-485, 487-522).
THEOREM LinesMatchCalls == Spec => []LinesPerStart
<1>1. Init => TypeInv /\ LinesInv /\ CountInv
  BY TypeInit, LinesInit, CountInit
<1>2. TypeInv /\ LinesInv /\ CountInv /\ [Next]_vars => (TypeInv /\ LinesInv /\ CountInv)'
  BY TypeStep, LinesStep, CountStep
<1>3. ASSUME TypeInv, LinesInv, CountInv PROVE LinesPerStart
  <2>1. ASSUME NEW c \in Calls PROVE covered[c] <= 1 + mgrRestarts
    BY <1>3 DEF TypeInv, LinesInv
  <2>2. ASSUME NEW c \in Calls, known, statTodo = {}, c \in corpus \ unstored
        PROVE  covered[c] > 0
    BY <1>3, <2>2 DEF TypeInv, CountInv, CoveredLines
  <2>3. QED
    BY <2>1, <2>2 DEF LinesPerStart
<1>4. QED
  BY <1>1, <1>2, <1>3, PTL DEF Spec
=============================================================================
