---------------------------- MODULE CallCoverage ----------------------------
(***************************************************************************)
(* The feedback from the fuzzer to the generator: the manager (-statcall)   *)
(* appends the enabled and the covered syscalls, one line each, to          *)
(* EnabledCalls and CoveredCalls in the workdir; the generator's rounds     *)
(* take for their targets the lines of the one that are not in the other.   *)
(* What the manager has counted it knows from memory, not from the files.   *)
(***************************************************************************)
EXTENDS Naturals, FiniteSets

CONSTANTS
  Calls,        \* syscalls enabled in the fuzzer
  EarlyStart,   \* the generator may be started before EnabledCalls exists
  MaxRestarts,  \* bound: restarts of the manager, and of the generator
  MaxFaults     \* bound: lines or files that cannot be written or read

ASSUME EarlyAssumption == EarlyStart \in BOOLEAN
ASSUME BoundAssumption == MaxRestarts \in Nat /\ MaxFaults \in Nat

VARIABLES
  known,        \* machine check done: targetEnabledSyscalls is filled
  dump,         \* dumpEnabledSyscalls: "no", "dumping", "done"
  dumpTodo,
  gCoverCalls,  \* calls this manager has counted
  statTodo,     \* calls of the program or input that is being counted
  corpus,       \* calls of the programs in corpus.db
  covered,      \* CoveredCalls: lines per call
  enabled,      \* EnabledCalls: the calls it lists
  gpc,          \* the generator: "start", "wait", "sleep", "target"
  enabledPath,  \* does the path it has chosen name the fuzzer's file
  coveredPath,
  enabledMem,   \* enabled_syscalls, read once
  coveredMem,   \* covered_syscalls, as read in this round
  targets,      \* target_syscalls of the last round
  mgrRestarts, genRestarts, faults,         \* bounds
  ranRound,     \* history: this generator has had a round
  misread,      \* history: a round of this generator could not read CoveredCalls
  unstored      \* history: calls whose line could not be written

fuzzVars  == <<known, dump, dumpTodo, gCoverCalls, statTodo, corpus>>
fileVars  == <<covered, enabled>>
genVars   == <<gpc, enabledPath, coveredPath, enabledMem, coveredMem, targets>>
boundVars == <<mgrRestarts, genRestarts, faults>>
ghostVars == <<ranRound, misread, unstored>>
vars == <<fuzzVars, fileVars, genVars, boundVars, ghostVars>>

CoveredLines == {c \in Calls : covered[c] > 0}

Init ==
  /\ known = FALSE /\ dump = "no" /\ dumpTodo = {}
  /\ gCoverCalls = {} /\ statTodo = {} /\ corpus \in SUBSET Calls
  /\ covered = [c \in Calls |-> 0] /\ enabled = {}
  /\ gpc = "start" /\ enabledPath = FALSE /\ coveredPath = FALSE
  /\ enabledMem = {} /\ coveredMem = {} /\ targets = {}
  /\ mgrRestarts = 0 /\ genRestarts = 0 /\ faults = 0
  /\ ranRound = FALSE /\ misread = FALSE /\ unstored = {}

----------------------------------------------------------------------------
(* The manager.                                                             *)

\* only what comes in from now on is counted
MutLoadedCalls == {}

\* statCallFromByte on every record of corpus.db and every seed
LoadedCalls == corpus

\* machineChecked: loadCorpus counts every program it loads, under mgr.mu.
MachineChecked ==
  /\ ~known
  /\ known' = TRUE
  /\ statTodo' = LoadedCalls
  /\ UNCHANGED <<dump, dumpTodo, gCoverCalls, corpus, fileVars, genVars, boundVars,
                 ghostVars>>

Saved(calls) == corpus \cup calls

\* newInput saves the program in corpus.db, then counts its calls, under mgr.mu.
NewInput(calls) ==
  /\ known /\ statTodo = {}
  /\ corpus'   = Saved(calls)
  /\ statTodo' = calls
  /\ UNCHANGED <<known, dump, dumpTodo, gCoverCalls, fileVars, genVars, boundVars,
                 ghostVars>>

\* counts every occurrence
MutUncounted(c) == TRUE

Uncounted(c) == c \notin gCoverCalls

\* storeCallName logs what fails; the call counts as stored all the same.
StatCall(c) ==
  /\ c \in statTodo
  /\ statTodo'    = statTodo \ {c}
  /\ gCoverCalls' = gCoverCalls \cup {c}
  /\ \/ /\ Uncounted(c)
        /\ covered' = [covered EXCEPT ![c] = @ + 1]
        /\ UNCHANGED <<faults, unstored>>
     \/ /\ Uncounted(c) /\ faults < MaxFaults
        /\ faults'   = faults + 1
        /\ unstored' = unstored \cup {c}
        /\ UNCHANGED covered
     \/ /\ ~Uncounted(c)
        /\ UNCHANGED <<covered, faults, unstored>>
  /\ UNCHANGED <<known, dump, dumpTodo, corpus, enabled, genVars, mgrRestarts,
                 genRestarts, ranRound, misread>>

\* A goroutine of its own looks every minute whether there is something to dump.
DumpBegins ==
  /\ known /\ dump = "no"
  /\ dump' = "dumping" /\ dumpTodo' = Calls
  /\ UNCHANGED <<known, gCoverCalls, statTodo, corpus, fileVars, genVars, boundVars,
                 ghostVars>>

\* O_TRUNC in place of O_APPEND
MutListed(c) == {c}

Listed(c) == enabled \cup {c}

DumpCall(c) ==
  /\ dump = "dumping" /\ c \in dumpTodo
  /\ dumpTodo' = dumpTodo \ {c}
  /\ dump'     = IF dumpTodo' = {} THEN "done" ELSE dump
  /\ \/ /\ enabled' = Listed(c)
        /\ UNCHANGED <<faults, unstored>>
     \/ /\ faults < MaxFaults
        /\ faults'   = faults + 1
        /\ unstored' = unstored \cup {c}
        /\ UNCHANGED enabled
  /\ UNCHANGED <<known, gCoverCalls, statTodo, corpus, covered, genVars, mgrRestarts,
                 genRestarts, ranRound, misread>>

ManagerRestart ==
  /\ mgrRestarts < MaxRestarts
  /\ mgrRestarts' = mgrRestarts + 1
  /\ known' = FALSE /\ dump' = "no" /\ dumpTodo' = {}
  /\ gCoverCalls' = {} /\ statTodo' = {}
  /\ UNCHANGED <<corpus, fileVars, genVars, genRestarts, faults, ghostVars>>

----------------------------------------------------------------------------
(* The generator.                                                           *)

\* get_case_insensitive_path, asked for "enabledCalls" and "coveredCalls": the file
\* that exists, under either spelling, else the spelling it was asked for, which is
\* not the one the manager writes. CoveredCalls nobody waits for: a generator may come
\* between the two files, and keeps what it has chosen for life.
ResolvePaths ==
  /\ gpc = "start"
  /\ EarlyStart \/ enabled # {}
  /\ gpc' = "wait"
  /\ enabledPath' = (enabled # {})
  /\ coveredPath' = (CoveredLines # {})
  /\ UNCHANGED <<fuzzVars, fileVars, enabledMem, coveredMem, targets, boundVars, ghostVars>>

\* The fuzzer's first instance is there, and the file of the path.
WaitOver ==
  /\ gpc = "wait" /\ known
  /\ enabledPath /\ enabled # {}
  /\ gpc' = "sleep"
  /\ UNCHANGED <<fuzzVars, fileVars, enabledPath, coveredPath, enabledMem, coveredMem,
                 targets, boundVars, ghostVars>>

\* the file is read in the first round only
MutCoveredRead == IF ranRound THEN coveredMem ELSE CoveredLines

\* only the lines the last round has not seen
MutCoveredNew == CoveredLines \ coveredMem

CoveredRead == CoveredLines

\* A file that cannot be opened counts as an empty one.
ReadCovered ==
  /\ gpc = "sleep"
  /\ gpc' = "target"
  /\ \/ /\ coveredPath
        /\ coveredMem' = CoveredRead
        /\ UNCHANGED <<faults, misread>>
     \/ /\ ~coveredPath
        /\ coveredMem' = {} /\ misread' = TRUE
        /\ UNCHANGED faults
     \/ /\ faults < MaxFaults
        /\ faults' = faults + 1
        /\ coveredMem' = {} /\ misread' = TRUE
  /\ UNCHANGED <<fuzzVars, fileVars, enabledPath, coveredPath, enabledMem, targets,
                 mgrRestarts, genRestarts, ranRound, unstored>>

\* EnabledCalls is read in the first round in which it has a line.
ReadEnabled ==
  /\ gpc = "target"
  /\ gpc' = "sleep"
  /\ enabledMem' = IF enabledMem = {} THEN enabled ELSE enabledMem
  /\ targets'    = enabledMem' \ coveredMem
  /\ ranRound'   = TRUE
  /\ UNCHANGED <<fuzzVars, fileVars, enabledPath, coveredPath, coveredMem, boundVars,
                 misread, unstored>>

GeneratorRestart ==
  /\ gpc # "start" /\ genRestarts < MaxRestarts
  /\ genRestarts' = genRestarts + 1
  /\ gpc' = "start"
  /\ enabledPath' = FALSE /\ coveredPath' = FALSE
  /\ enabledMem' = {} /\ coveredMem' = {} /\ targets' = {}
  /\ ranRound' = FALSE /\ misread' = FALSE
  /\ UNCHANGED <<fuzzVars, fileVars, mgrRestarts, faults, unstored>>

----------------------------------------------------------------------------
ManagerStep ==
  MachineChecked \/ DumpBegins \/ \E c \in Calls : DumpCall(c)

StatStep == \E c \in Calls : StatCall(c)

GeneratorStep == ResolvePaths \/ WaitOver \/ ReadCovered \/ ReadEnabled

Next ==
  \/ ManagerStep \/ StatStep \/ GeneratorStep
  \/ \E calls \in (SUBSET Calls) \ {{}} : NewInput(calls)
  \/ ManagerRestart \/ GeneratorRestart

Spec == Init /\ [][Next]_vars

\* Goroutines and sleeping processes are woken; no fuzzer owes anybody an input.
FairSpec ==
  Spec /\ WF_vars(ManagerStep) /\ WF_vars(StatStep) /\ WF_vars(GeneratorStep)

----------------------------------------------------------------------------
(* Properties.                                                              *)

\* Each manager writes a call at most once, so that CoveredCalls has at most one line
\* of it for every time the manager was started; and with no restart one line means
\* one call, which is what its length is used for (fuzzer/README.md:73).  It keeps up
\* with the corpus: a manager that has counted all it has leaves no call of it without
\* a line, unless the line was lost, though one before it died before counting.
LinesPerStart ==
  \A c \in Calls :
    /\ covered[c] <= 1 + mgrRestarts
    /\ known /\ statTodo = {} /\ c \in corpus \ unstored => covered[c] > 0

\* A generator never goes back to a syscall it has seen covered: from round to round
\* its targets only shrink, through any restart of the manager, unless it could not
\* read CoveredCalls.
TargetsShrink ==
  [][ranRound /\ ranRound' /\ ~misread' => targets' \subseteq targets]_vars

\* Started before CoveredCalls had a line, and so with a path nobody writes.
ReadsNothing == gpc # "start" /\ ~coveredPath

\* The feedback arrives: once a program with the call is in the corpus, the rounds
\* come to leave the call alone for good, whoever is restarted in between, unless its
\* line could not be written, or the generator that stays is one that was started
\* before there was a line in CoveredCalls: that one takes covered calls for targets
\* for as long as it lives (syzgpt_generator.py:395-402 wait for EnabledCalls only).
CoverageReachesTargets ==
  \A c \in Calls :
    c \in corpus ~> (c \in unstored \/ [](c \notin targets) \/ []ReadsNothing)

\* The generator takes a part of the enabled syscalls for all of them, which it does
\* for as long as it lives, only if the file was being written or missed a line.
WholeUniverse ==
  [][enabledMem = {} /\ enabledMem' # {} /\ dump = "done"
       => Calls \ unstored \subseteq enabledMem']_vars

\* syzgpt_generator.py:402 logs "fuzzer hasn't completely started yet, sleep(60) to
\* wait": with the fuzzer started the wait is over.
WaitEnds == gpc = "wait" ~> gpc # "wait"
=============================================================================
