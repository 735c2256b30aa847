----------------------------- MODULE ExecSemantic -----------------------------
(* syz-execprog -semantic -progdir -coverfile: a pool of goroutines executes    *)
(* every program of a directory, then, when all of them are through, every      *)
(* reversed program, and writes a table with both coverages of each name.  What *)
(* a row holds is which program was executed, not how much it covered.         *)
EXTENDS Integers, Sequences, SequencesExt

CONSTANTS
    Files,      \* the names in the order of the directory; each has its .rev
    Workers,    \* the goroutines, -procs of them
    Repeat,     \* -repeat
    MaxRetry,   \* -retry
    Yields,     \* the numbers of programs a file may be parsed to
    MaxLoaded,  \* bound: the programs of all files together
    None
ASSUME ExecAssumption ==
    /\ Files \in Seq(STRING) /\ Files # <<>> /\ Workers # {}
    /\ None \notin Range(Files)
    /\ {Repeat, MaxLoaded} \cup Yields \subseteq Nat /\ Repeat > 0 /\ MaxRetry \in Nat

VARIABLES
    phase,          \* covType: "origin" or "reverse"; then saved or fatal
    loaded,         \* by phase, the file each loaded program comes from
    pos,            \* ctx.pos
    shutdown,       \* ctx.shutdown is closed
    worker,         \* what each goroutine is at
    coverRecord,    \* the rows by name, NoRow where there is none
    execFailCnt,
    history         \* what happened: see Init

vars == <<phase, loaded, pos, shutdown, worker, coverRecord, execFailCnt, history>>

CovTypes == {"origin", "reverse"}
Names == Range(Files)
NoRow == [origin |-> None, reverse |-> None]
Idle == [at |-> "idle", idx |-> 0, try |-> 0, seen |-> NoRow, fails |-> 0]

(* loadPrograms: the programs of all the files one after the other; a file that *)
(* cannot be parsed yields none, a log of several programs all of them.         *)
Loadable ==
    {s \in UNION {[1 .. n -> DOMAIN Files] : n \in 0 .. MaxLoaded} :
        /\ \A i, j \in DOMAIN s : i <= j => s[i] <= s[j]
        /\ \A f \in DOMAIN Files : Cardinality({i \in DOMAIN s : s[i] = f}) \in Yields}
Programs == {[i \in DOMAIN s |-> Files[s[i]]] : s \in Loadable}

Init ==
    /\ phase = "origin"
    /\ loaded \in [CovTypes -> Programs] /\ loaded # [p \in CovTypes |-> <<>>]
    /\ pos = 0
    /\ shutdown = FALSE
    /\ worker = [w \in Workers |-> Idle]
    /\ coverRecord = [name \in Names |-> NoRow]
    /\ execFailCnt = 0
    /\ history = [taken |-> [p \in CovTypes |-> [i \in DOMAIN loaded[p] |-> 0]],  \* how often
                  covered |-> {},           \* phases and names that gave coverage
                  failures |-> 0,           \* programs given up
                  overlaps |-> 0,           \* of these, counted while another was
                  interrupted |-> FALSE]

Running == phase \in CovTypes
At(w, place) == Running /\ worker[w].at = place
Total == Len(loaded[phase]) * Repeat

\* A mutant: the last program is left out.
LastLeftOut(idx) == idx + 1 >= Total
PastEnd(idx) == idx >= Total

\* The names are counted modulo their own number, not that of the programs.
Program(idx) == (idx % Len(loaded[phase])) + 1
\* A mutant: the name of the next program.
NextName(idx) == Files[((idx + 1) % Len(Files)) + 1]
KeyOf(idx) == Files[(idx % Len(Files)) + 1]

(* run: a goroutine takes the next index, or stops.                            *)
Take(w) ==
    /\ At(w, "idle") /\ ~shutdown
    /\ pos' = pos + 1
    /\ IF PastEnd(pos)
       THEN worker' = [worker EXCEPT ![w].at = "done"] /\ UNCHANGED history
       ELSE /\ worker' = [worker EXCEPT ![w].at = "exec", ![w].idx = pos]
            /\ history' = [history EXCEPT !.taken[phase][Program(pos)] = @ + 1]
    /\ UNCHANGED <<phase, loaded, shutdown, coverRecord, execFailCnt>>

SeesShutdown(w) ==
    /\ At(w, "idle") /\ shutdown
    /\ worker' = [worker EXCEPT ![w].at = "done"]
    /\ UNCHANGED <<phase, loaded, pos, shutdown, coverRecord, execFailCnt, history>>

(* execute: a failure of the executor is retried; the last one is counted by   *)
(* execFailCnt += 1, with no lock: the counter is read, then written.           *)
ExecFails(w) ==
    /\ At(w, "exec")
    /\ worker' = [worker EXCEPT ![w].at = "failed"]
    /\ UNCHANGED <<phase, loaded, pos, shutdown, coverRecord, execFailCnt, history>>

\* A mutant: the number of the try stays.
SameTry(try) == try
NextTry(try) == try + 1
Retries(w) ==
    /\ At(w, "failed") /\ worker[w].try <= MaxRetry
    /\ worker' = [worker EXCEPT ![w].at = "exec", ![w].try = NextTry(@)]
    /\ UNCHANGED <<phase, loaded, pos, shutdown, coverRecord, execFailCnt, history>>

GivesUp(w) ==
    /\ At(w, "failed") /\ worker[w].try > MaxRetry
    /\ worker' = [worker EXCEPT ![w].at = "count", ![w].fails = execFailCnt]
    /\ history' = [history EXCEPT
           !.failures = @ + 1,
           !.overlaps = @ + IF \E v \in Workers : worker[v].at = "count" THEN 1 ELSE 0]
    /\ UNCHANGED <<phase, loaded, pos, shutdown, coverRecord, execFailCnt>>

\* A mutant: every try is counted.
TriesCounted(fails) == fails + MaxRetry + 2
Counted(fails) == fails + 1
CountFailure(w) ==
    /\ At(w, "count")
    /\ execFailCnt' = Counted(worker[w].fails)
    /\ worker' = [worker EXCEPT ![w] = Idle]
    /\ UNCHANGED <<phase, loaded, pos, shutdown, coverRecord, history>>

ExecutesNothing(w) ==
    /\ At(w, "exec")
    /\ worker' = [worker EXCEPT ![w] = Idle]
    /\ UNCHANGED <<phase, loaded, pos, shutdown, coverRecord, execFailCnt, history>>

(* dumpCoverage: getCoverRecord and setCoverRecord lock the map one by one; the  *)
(* first origin of a name stays, a reverse replaces the one before it.           *)
GetCoverRecord(w) ==
    /\ At(w, "exec")
    /\ LET name == KeyOf(worker[w].idx) IN
       /\ worker' = [worker EXCEPT ![w].at = "covered", ![w].seen = coverRecord[name]]
       /\ history' = [history EXCEPT !.covered = @ \cup {<<phase, name>>}]
    /\ UNCHANGED <<phase, loaded, pos, shutdown, coverRecord, execFailCnt>>

SetRow(row, seen, program) ==
    IF phase = "origin" /\ seen = NoRow THEN [seen EXCEPT !.origin = program]
    ELSE IF phase = "reverse" /\ seen # NoRow THEN [seen EXCEPT !.reverse = program]
    ELSE row

\* The coverage file of the program is written next, or the tool exits.
SetCoverRecord(w) ==
    /\ At(w, "covered")
    /\ LET idx == worker[w].idx IN
       coverRecord' = [coverRecord EXCEPT
           ![KeyOf(idx)] = SetRow(@, worker[w].seen, loaded[phase][Program(idx)])]
    /\ worker' = [worker EXCEPT ![w] = Idle]
    /\ phase' \in {phase, "fatal"}
    /\ UNCHANGED <<loaded, pos, shutdown, execFailCnt, history>>

(* main: the phases one after the other, and the table.                        *)
\* A mutant: the reversed programs do not wait for the last program.
SomeDone == \E w \in Workers : worker[w].at = "done"
AllDone == \A w \in Workers : worker[w].at = "done"

NextPhase ==
    /\ phase = "origin" /\ AllDone
    /\ phase' = "reverse"
    /\ pos' = 0
    /\ shutdown' = FALSE
    /\ worker' = [w \in Workers |-> Idle]
    /\ UNCHANGED <<loaded, coverRecord, execFailCnt, history>>

SaveToFile ==
    /\ phase = "reverse" /\ AllDone
    /\ phase' \in {"saved", "fatal"}
    /\ UNCHANGED <<loaded, pos, shutdown, worker, coverRecord, execFailCnt, history>>

\* HandleInterrupts closes the channel: no goroutine takes another program.
Interrupt ==
    /\ Running /\ ~shutdown
    /\ shutdown' = TRUE
    /\ history' = [history EXCEPT !.interrupted = TRUE]
    /\ UNCHANGED <<phase, loaded, pos, worker, coverRecord, execFailCnt>>

Works(w) ==
    \/ Take(w) \/ SeesShutdown(w)
    \/ ExecFails(w) \/ Retries(w) \/ GivesUp(w) \/ CountFailure(w) \/ ExecutesNothing(w)
    \/ GetCoverRecord(w) \/ SetCoverRecord(w)
Main == NextPhase \/ SaveToFile
Next == (\E w \in Workers : Works(w)) \/ Main \/ Interrupt

Spec == Init /\ [][Next]_vars
\* The goroutines are scheduled, and an execution comes to an end of some sort.
FairSpec == Spec /\ (\A w \in Workers : WF_vars(Works(w))) /\ WF_vars(Main)
-----------------------------------------------------------------------------
(* Whatever goroutine takes which index, every program is executed as often as   *)
(* was asked for, and no program more often, unless the user interrupts.        *)
EveryProgramRun ==
    \A p \in CovTypes : \A i \in DOMAIN loaded[p] :
        /\ history.taken[p][i] <= Repeat
        /\ phase = "saved" /\ ~history.interrupted => history.taken[p][i] = Repeat

(* The rows are read and written in two critical sections, by several goroutines: *)
(* the saved table is still the one made in one piece of all results.  No result is *)
(* lost between the read and the write of a row, and no reverse stands alone.      *)
Table == INSTANCE CoverTable WITH
    given <- history.covered,
    stage <- phase,
    table <- [name \in Names |-> IF phase = "saved"
                 THEN {p \in CovTypes : coverRecord[name][p] # None} ELSE {}]
TableImplemented == Table!TableSpec

(* A row holds the coverages of the programs of its own file; only a file that    *)
(* is parsed to no or to several programs moves the names after it.             *)
OneEach(p) == loaded[p] = Files
NamesExplained ==
    \A name \in Names :
        /\ OneEach("origin") => coverRecord[name].origin \in {name, None}
        /\ OneEach("reverse") => coverRecord[name].reverse \in {name, None}

(* Execution Fails of the table is the number of programs given up, but for those  *)
(* counted while another goroutine was counting too.                             *)
FailuresExplained ==
    phase = "saved" =>
        execFailCnt \in history.failures - history.overlaps .. history.failures

(* What RunEnds rests on, with no fairness. Within a phase a step is the interrupt, *)
(* or one goroutine takes an index that is left, once, or comes nearer to stopping, *)
(* whatever the executor answers; the retries of one never set another back.     *)
Rest(g) ==
    LET retries == MaxRetry + 1 - g.try
    IN  CASE g.at = "exec" -> 2 * retries + 4
          [] g.at = "failed" -> 2 * retries + 3
          [] g.at \in {"count", "covered"} -> 2
          [] g.at = "idle" -> 1
          [] g.at = "done" -> 0
Advances(w) ==
    /\ \A v \in Workers \ {w} : worker'[v] = worker[v]
    /\ \/ pos < Total /\ pos' = pos + 1
       \/ Rest(worker'[w]) \in 0 .. Rest(worker[w]) - 1
RunNears ==
    [][Running /\ phase' = phase =>
           \/ ~shutdown /\ shutdown' /\ UNCHANGED <<pos, worker>>
           \/ \E w \in Workers : Advances(w)]_vars

(* The evaluation comes to an end: no failing program is retried for ever.        *)
RunEnds == <>(phase \in {"saved", "fatal"})
=============================================================================
