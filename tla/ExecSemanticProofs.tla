-------------------------- MODULE ExecSemanticProofs --------------------------
(* The safety of the pool, for any number of files, programs and goroutines.    *)
EXTENDS ExecSemantic, TLAPS

-----------------------------------------------------------------------------
(* Arithmetic of indices, and the names and programs they stand for.           *)

LEMMA ModRange ==
    ASSUME NEW a \in Nat, NEW b \in Nat, b > 0 PROVE a % b \in 0 .. b - 1
OBVIOUS

LEMMA DivMod ==
    ASSUME NEW a \in Nat, NEW b \in Nat, b > 0
    PROVE  a \div b \in Nat /\ a = b * (a \div b) + (a % b)
OBVIOUS

LEMMA Bounds == Repeat \in Nat /\ Repeat > 0 /\ MaxRetry \in Nat /\ MaxLoaded \in Nat
<1>1. {Repeat, MaxLoaded} \subseteq Nat BY ExecAssumption
<1> QED BY <1>1, ExecAssumption

LEMMA FilesFacts == Files \in Seq(Names) /\ Len(Files) \in Nat \ {0} /\ None \notin Names
BY ExecAssumption DEF Names, Range

LEMMA KeyNamed == ASSUME NEW i \in Nat PROVE KeyOf(i) \in Names
BY FilesFacts, ModRange DEF KeyOf

LEMMA ProgramsTyped == Programs \subseteq Seq(Names)
<1> SUFFICES ASSUME NEW s \in Loadable PROVE [i \in DOMAIN s |-> Files[s[i]]] \in Seq(Names)
  BY DEF Programs
<1>1. PICK n \in 0 .. MaxLoaded : s \in [1 .. n -> DOMAIN Files]
  BY DEF Loadable
<1>2. n \in Nat BY Bounds
<1>3. DOMAIN s = 1 .. n BY <1>1
<1>4. \A i \in 1 .. n : Files[s[i]] \in Names
  BY <1>1, FilesFacts
<1>5. [i \in DOMAIN s |-> Files[s[i]]] \in [1 .. n -> Names] BY <1>3, <1>4
<1> QED BY <1>2, <1>5

-----------------------------------------------------------------------------
(* Types, and the range of the index a goroutine has taken.                    *)

Rows == [origin : Names \cup {None}, reverse : Names \cup {None}]
Busy == {"exec", "failed", "count", "covered"}

Goroutine ==
    [at : Busy \cup {"idle", "done"}, idx : Nat, try : Nat, seen : Rows, fails : Nat]

HistoryType ==
    [taken : [CovTypes -> Seq(Nat)], covered : SUBSET (CovTypes \X Names),
     failures : Nat, overlaps : Nat, interrupted : BOOLEAN]

TypeInv ==
    /\ phase \in CovTypes \cup {"saved", "fatal"}
    /\ loaded \in [CovTypes -> Seq(Names)]
    /\ pos \in Nat /\ shutdown \in BOOLEAN
    /\ worker \in [Workers -> Goroutine]
    /\ coverRecord \in [Names -> Rows] /\ execFailCnt \in Nat
    /\ history \in HistoryType
    /\ \A p \in CovTypes : DOMAIN history.taken[p] = DOMAIN loaded[p]

IndexInv == Running => \A w \in Workers : worker[w].at \in Busy => worker[w].idx < Total

LEMMA TotalTyped == TypeInv /\ Running => Len(loaded[phase]) \in Nat /\ Total \in Nat
<1> SUFFICES ASSUME TypeInv, Running PROVE Len(loaded[phase]) \in Nat /\ Total \in Nat
  OBVIOUS
<1>1. Len(loaded[phase]) \in Nat BY DEF TypeInv, Running
<1> QED BY <1>1, Bounds DEF Total

\* The program of an index in range is one of the loaded ones.
LEMMA ProgramNamed ==
    ASSUME TypeInv, Running, NEW i \in Nat, i < Total
    PROVE  /\ Len(loaded[phase]) > 0
           /\ Program(i) \in DOMAIN loaded[phase]
           /\ loaded[phase][Program(i)] \in Names
<1> DEFINE n == Len(loaded[phase])
<1>1. loaded[phase] \in Seq(Names) /\ n \in Nat
  BY DEF TypeInv, Running
<1>2. n > 0
  <2> SUFFICES ASSUME n = 0 PROVE FALSE BY <1>1
  <2>1. n * Repeat = 0 BY Bounds
  <2> QED BY <2>1 DEF Total
<1> HIDE DEF n
<1>3. i % n \in 0 .. n - 1 BY <1>1, <1>2, ModRange
<1>4. (i % n) + 1 \in 1 .. n BY <1>1, <1>3
<1>5. Program(i) = (i % n) + 1 BY DEF Program, n
<1>6. DOMAIN loaded[phase] = 1 .. n BY <1>1 DEF n
<1>7. loaded[phase][Program(i)] \in Names BY <1>1, <1>4, <1>5, <1>6
<1> QED BY <1>2, <1>4, <1>5, <1>6, <1>7 DEF n

\* A step of one goroutine: its record is replaced, the programs stay.
LEMMA OneSteps ==
    ASSUME TypeInv, IndexInv, NEW w \in Workers, NEW g \in Goroutine,
           UNCHANGED loaded, phase' = phase \/ phase' = "fatal",
           worker' = [worker EXCEPT ![w] = g],
           g.at \in Busy => g.idx < Total
    PROVE  worker' \in [Workers -> Goroutine] /\ IndexInv'
<1>1. worker' \in [Workers -> Goroutine] BY DEF TypeInv
<1>2. CASE phase' = phase
  <2>1. Total' = Total BY <1>2 DEF Total
  <2> QED BY <1>1, <1>2, <2>1 DEF IndexInv, Running, TypeInv
<1>3. CASE phase' = "fatal"
  BY <1>1, <1>3 DEF IndexInv, Running, CovTypes
<1> QED BY <1>2, <1>3

\* A step of no goroutine that stays in its phase.
LEMMA NoneSteps ==
    ASSUME IndexInv, UNCHANGED <<phase, loaded, worker>> PROVE IndexInv'
BY DEF IndexInv, Running, Total

LEMMA IdleTyped == Idle \in Goroutine /\ NoRow \in Rows /\ Idle.at \notin Busy
BY DEF Idle, Goroutine, NoRow, Rows, Busy

LEMMA InitTyped == Init => TypeInv /\ IndexInv
<1> SUFFICES ASSUME Init PROVE TypeInv /\ IndexInv OBVIOUS
<1>1. loaded \in [CovTypes -> Seq(Names)] BY ProgramsTyped DEF Init
<1>2. [p \in CovTypes |-> [i \in DOMAIN loaded[p] |-> 0]] \in [CovTypes -> Seq(Nat)]
  <2> SUFFICES ASSUME NEW p \in CovTypes PROVE [i \in DOMAIN loaded[p] |-> 0] \in Seq(Nat)
    OBVIOUS
  <2>1. loaded[p] \in Seq(Names) BY <1>1
  <2> QED BY <2>1
<1>3. history \in HistoryType
  BY <1>2 DEF Init, HistoryType
<1>4. \A p \in CovTypes : DOMAIN history.taken[p] = DOMAIN loaded[p]
  BY DEF Init
<1>5. IndexInv BY IdleTyped DEF Init, IndexInv
<1> QED BY <1>1, <1>3, <1>4, <1>5, IdleTyped DEF Init, TypeInv, CovTypes

\* What Take notes of the program it has taken.
LEMMA TakeNoted ==
    ASSUME TypeInv, Running, NEW i \in DOMAIN loaded[phase],
           history' = [history EXCEPT !.taken[phase][i] = @ + 1], UNCHANGED loaded
    PROVE  /\ history' \in HistoryType
           /\ \A p \in CovTypes : DOMAIN history'.taken[p] = DOMAIN loaded'[p]
           /\ \A p \in CovTypes : p # phase => history'.taken[p] = history.taken[p]
           /\ \A j \in DOMAIN loaded[phase] : history'.taken[phase][j] =
                  IF j = i THEN history.taken[phase][j] + 1 ELSE history.taken[phase][j]
           /\ history'.covered = history.covered /\ history'.failures = history.failures
           /\ history'.overlaps = history.overlaps /\ history'.interrupted = history.interrupted
<1> DEFINE new == [history.taken[phase] EXCEPT ![i] = @ + 1]
<1>1. history.taken[phase] \in Seq(Nat) /\ DOMAIN history.taken[phase] = DOMAIN loaded[phase]
  BY DEF HistoryType, TypeInv, Running
<1>2. new \in Seq(Nat) /\ DOMAIN new = DOMAIN loaded[phase]
  BY <1>1
<1>3. history' = [history EXCEPT !.taken = [@ EXCEPT ![phase] = new]]
  OBVIOUS
<1>4. history \in HistoryType BY DEF TypeInv
<1>5. history'.taken = [history.taken EXCEPT ![phase] = new]
  BY <1>3, <1>4 DEF HistoryType
<1>6. \A j \in DOMAIN loaded[phase] :
          new[j] = IF j = i THEN history.taken[phase][j] + 1 ELSE history.taken[phase][j]
  BY <1>1
<1> HIDE DEF new
<1>7. history' \in HistoryType
  <2>1. [history.taken EXCEPT ![phase] = new] \in [CovTypes -> Seq(Nat)]
    BY <1>2, <1>4 DEF HistoryType
  <2> QED BY <1>3, <1>4, <2>1 DEF HistoryType
<1>8. \A p \in CovTypes : DOMAIN history'.taken[p] = DOMAIN loaded'[p]
  BY <1>2, <1>4, <1>5 DEF HistoryType, TypeInv, Running
<1>9. /\ \A p \in CovTypes : p # phase => history'.taken[p] = history.taken[p]
      /\ history'.taken[phase] = new
  BY <1>4, <1>5 DEF HistoryType, Running
<1>10. /\ history'.covered = history.covered /\ history'.failures = history.failures
       /\ history'.overlaps = history.overlaps /\ history'.interrupted = history.interrupted
  BY <1>3, <1>4 DEF HistoryType
<1> QED BY <1>6, <1>7, <1>8, <1>9, <1>10

LEMMA StepTyped == TypeInv /\ IndexInv /\ [Next]_vars => TypeInv' /\ IndexInv'
<1> SUFFICES ASSUME TypeInv, IndexInv, [Next]_vars PROVE TypeInv' /\ IndexInv' OBVIOUS
<1>g. \A w \in Workers : worker[w] \in Goroutine BY DEF TypeInv
<1>1. ASSUME NEW w \in Workers, Take(w) PROVE TypeInv' /\ IndexInv'
  <2>1. CASE PastEnd(pos)
    <3> DEFINE g == [worker[w] EXCEPT !.at = "done"]
    <3>1. g \in Goroutine /\ g.at \notin Busy BY <1>g DEF Goroutine, Busy
    <3>2. worker' = [worker EXCEPT ![w] = g] BY <1>1, <2>1 DEF Take
    <3>3. worker' \in [Workers -> Goroutine] /\ IndexInv'
      BY <1>1, <3>1, <3>2, OneSteps DEF Take
    <3> QED BY <1>1, <2>1, <3>3 DEF Take, TypeInv
  <2>2. CASE ~PastEnd(pos)
    <3> DEFINE g == [worker[w] EXCEPT !.at = "exec", !.idx = pos]
    <3>1. Running /\ pos \in Nat BY <1>1 DEF Take, At, TypeInv
    <3>2. pos < Total BY <2>2, <3>1, TotalTyped DEF PastEnd
    <3>3. g \in Goroutine /\ g.idx < Total BY <1>g, <3>1, <3>2 DEF Goroutine, Busy
    <3>4. worker' = [worker EXCEPT ![w] = g] BY <1>1, <2>2 DEF Take
    <3>5. worker' \in [Workers -> Goroutine] /\ IndexInv'
      BY <1>1, <3>3, <3>4, OneSteps DEF Take
    <3>6. Program(pos) \in DOMAIN loaded[phase] BY <3>1, <3>2, ProgramNamed
    <3>7. /\ history' \in HistoryType
          /\ \A p \in CovTypes : DOMAIN history'.taken[p] = DOMAIN loaded'[p]
      BY <1>1, <2>2, <3>1, <3>6, TakeNoted DEF Take
    <3> QED BY <1>1, <3>1, <3>5, <3>7 DEF Take, TypeInv
  <2> QED BY <2>1, <2>2
<1>2. ASSUME NEW w \in Workers, SeesShutdown(w) PROVE TypeInv' /\ IndexInv'
  <2> DEFINE g == [worker[w] EXCEPT !.at = "done"]
  <2>1. g \in Goroutine /\ g.at \notin Busy BY <1>g DEF Goroutine, Busy
  <2>2. worker' \in [Workers -> Goroutine] /\ IndexInv'
    BY <1>2, <2>1, OneSteps DEF SeesShutdown
  <2> QED BY <1>2, <2>2 DEF SeesShutdown, TypeInv
<1>3. ASSUME NEW w \in Workers, ExecFails(w) PROVE TypeInv' /\ IndexInv'
  <2> DEFINE g == [worker[w] EXCEPT !.at = "failed"]
  <2>1. g \in Goroutine /\ g.idx < Total
    BY <1>3, <1>g DEF ExecFails, At, IndexInv, Goroutine, Busy
  <2>2. worker' \in [Workers -> Goroutine] /\ IndexInv'
    BY <1>3, <2>1, OneSteps DEF ExecFails
  <2> QED BY <1>3, <2>2 DEF ExecFails, TypeInv
<1>4. ASSUME NEW w \in Workers, Retries(w) PROVE TypeInv' /\ IndexInv'
  <2> DEFINE g == [worker[w] EXCEPT !.at = "exec", !.try = NextTry(@)]
  <2>1. g \in Goroutine /\ g.idx < Total
    <3>1. worker[w].try \in Nat /\ NextTry(worker[w].try) \in Nat
      BY <1>g DEF NextTry, Goroutine
    <3> QED BY <1>4, <1>g, <3>1 DEF Retries, At, IndexInv, Goroutine, Busy
  <2>2. worker' \in [Workers -> Goroutine] /\ IndexInv'
    BY <1>4, <2>1, OneSteps DEF Retries
  <2> QED BY <1>4, <2>2 DEF Retries, TypeInv
<1>5. ASSUME NEW w \in Workers, GivesUp(w) PROVE TypeInv' /\ IndexInv'
  <2> DEFINE g == [worker[w] EXCEPT !.at = "count", !.fails = execFailCnt]
  <2>1. g \in Goroutine /\ g.idx < Total
    BY <1>5, <1>g DEF GivesUp, At, IndexInv, Goroutine, Busy, TypeInv
  <2>2. worker' \in [Workers -> Goroutine] /\ IndexInv'
    BY <1>5, <2>1, OneSteps DEF GivesUp
  <2>3. history' \in HistoryType /\ history'.taken = history.taken
    <3> DEFINE more == IF \E v \in Workers : worker[v].at = "count" THEN 1 ELSE 0
    <3>1. history' = [history EXCEPT !.failures = @ + 1, !.overlaps = @ + more] /\ more \in Nat
      BY <1>5 DEF GivesUp
    <3> HIDE DEF more
    <3>2. history \in HistoryType BY DEF TypeInv
    <3>3. history.failures + 1 \in Nat /\ history.overlaps + more \in Nat
      BY <3>1, <3>2 DEF HistoryType
    <3>4. history' = [history EXCEPT !.failures = history.failures + 1,
                                     !.overlaps = history.overlaps + more]
      BY <3>1
    <3> QED BY <3>2, <3>3, <3>4 DEF HistoryType
  <2> QED BY <1>5, <2>2, <2>3 DEF GivesUp, TypeInv
<1>6. ASSUME NEW w \in Workers, CountFailure(w) PROVE TypeInv' /\ IndexInv'
  <2>1. worker' \in [Workers -> Goroutine] /\ IndexInv'
    BY <1>6, IdleTyped, OneSteps DEF CountFailure
  <2>2. execFailCnt' \in Nat BY <1>6, <1>g DEF CountFailure, Counted, Goroutine
  <2> QED BY <1>6, <2>1, <2>2 DEF CountFailure, TypeInv
<1>7. ASSUME NEW w \in Workers, ExecutesNothing(w) PROVE TypeInv' /\ IndexInv'
  <2>1. worker' \in [Workers -> Goroutine] /\ IndexInv'
    BY <1>7, IdleTyped, OneSteps DEF ExecutesNothing
  <2> QED BY <1>7, <2>1 DEF ExecutesNothing, TypeInv
<1>8. ASSUME NEW w \in Workers, GetCoverRecord(w) PROVE TypeInv' /\ IndexInv'
  <2> DEFINE key == KeyOf(worker[w].idx)
             g == [worker[w] EXCEPT !.at = "covered", !.seen = coverRecord[key]]
  <2>1. key \in Names BY <1>g, KeyNamed DEF Goroutine
  <2>2. g \in Goroutine /\ g.idx < Total
    BY <1>8, <1>g, <2>1 DEF GetCoverRecord, At, IndexInv, Goroutine, Busy, TypeInv
  <2>3. worker' = [worker EXCEPT ![w] = g] BY <1>8 DEF GetCoverRecord
  <2>4. worker' \in [Workers -> Goroutine] /\ IndexInv'
    BY <1>8, <2>2, <2>3, OneSteps DEF GetCoverRecord
  <2>5. history' \in HistoryType /\ history'.taken = history.taken
    <3>1. <<phase, key>> \in CovTypes \X Names
      BY <1>8, <2>1 DEF GetCoverRecord, At, Running
    <3>2. history' = [history EXCEPT !.covered = @ \cup {<<phase, key>>}]
      BY <1>8 DEF GetCoverRecord
    <3> HIDE DEF key
    <3> QED BY <3>1, <3>2 DEF HistoryType, TypeInv
  <2> QED BY <1>8, <2>4, <2>5 DEF GetCoverRecord, TypeInv
<1>9. ASSUME NEW w \in Workers, SetCoverRecord(w) PROVE TypeInv' /\ IndexInv'
  <2> DEFINE prog == loaded[phase][Program(worker[w].idx)]
             key == KeyOf(worker[w].idx)
  <2>1. key \in Names BY <1>g, KeyNamed DEF Goroutine
  <2>2. Running /\ worker[w].idx \in Nat /\ worker[w].idx < Total
    BY <1>9, <1>g DEF SetCoverRecord, At, IndexInv, Busy, Goroutine
  <2>3. prog \in Names BY <2>2, ProgramNamed
  <2>4. worker[w].seen \in Rows /\ coverRecord[key] \in Rows
    BY <1>g, <2>1 DEF Goroutine, TypeInv
  <2>5. SetRow(coverRecord[key], worker[w].seen, prog) \in Rows
    BY <2>3, <2>4 DEF SetRow, Rows
  <2>6. coverRecord' \in [Names -> Rows]
    BY <1>9, <2>1, <2>5 DEF SetCoverRecord, TypeInv
  <2>7. worker' \in [Workers -> Goroutine] /\ IndexInv'
    BY <1>9, IdleTyped, OneSteps DEF SetCoverRecord
  <2> QED BY <1>9, <2>6, <2>7 DEF SetCoverRecord, TypeInv
<1>10. CASE NextPhase
  BY <1>10, IdleTyped DEF NextPhase, IndexInv, CovTypes, TypeInv
<1>11. CASE SaveToFile
  BY <1>11 DEF SaveToFile, IndexInv, Running, CovTypes, TypeInv
<1>12. CASE Interrupt
  <2>1. history' \in HistoryType /\ history'.taken = history.taken
    BY <1>12 DEF Interrupt, HistoryType, TypeInv
  <2> QED BY <1>12, <2>1, NoneSteps DEF Interrupt, TypeInv
<1>13. CASE UNCHANGED vars
  BY <1>13, NoneSteps DEF vars, TypeInv
<1> QED BY <1>1, <1>2, <1>3, <1>4, <1>5, <1>6, <1>7, <1>8, <1>9, <1>10, <1>11, <1>12, <1>13
        DEF Next, Works, Main

THEOREM TypesKept == Spec => [](TypeInv /\ IndexInv)
BY InitTyped, StepTyped, PTL DEF Spec

-----------------------------------------------------------------------------
(* The table.  Between the read and the write of a row only its goroutine knows of *)
(* a result (Pending); what it has read is then still true enough to write it.    *)

Covered(p, name) == <<p, name>> \in history.covered
Key(w) == KeyOf(worker[w].idx)
Pending(name) == \E w \in Workers : worker[w].at = "covered" /\ Key(w) = name
HasOrigin(row) == row.origin # None
HasReverse(row) == row.reverse # None

\* No row without a result, no reverse without an origin.
RowInv ==
    \A name \in Names :
        /\ HasOrigin(coverRecord[name]) => Covered("origin", name)
        /\ HasReverse(coverRecord[name]) =>
               Covered("reverse", name) /\ HasOrigin(coverRecord[name])

\* What a goroutine has read: origins do not go, and come in the first phase only.
SeenInv ==
    \A w \in Workers : Running /\ worker[w].at = "covered" =>
        LET seen == worker[w].seen row == coverRecord[Key(w)] IN
        /\ Covered(phase, Key(w))
        /\ HasReverse(seen) => HasOrigin(seen)
        /\ HasOrigin(seen) => HasOrigin(row)
        /\ phase = "origin" => ~HasReverse(seen)
        /\ phase = "reverse" /\ HasOrigin(row) => HasOrigin(seen)

\* No result that is in no row, unless its goroutine is about to write it.
ResultInv ==
    \A name \in Names :
        /\ phase = "origin" =>
            /\ ~Covered("reverse", name)
            /\ Covered("origin", name) => HasOrigin(coverRecord[name]) \/ Pending(name)
        /\ phase \in {"reverse", "saved"} =>
            /\ Covered("origin", name) => HasOrigin(coverRecord[name])
            /\ Covered("reverse", name) /\ HasOrigin(coverRecord[name]) =>
                   HasReverse(coverRecord[name]) \/ (phase = "reverse" /\ Pending(name))

TableInv == RowInv /\ SeenInv /\ ResultInv

\* Most steps leave the rows, the results and the goroutines between read and write.
Quiet ==
    /\ UNCHANGED <<phase, coverRecord>> /\ history'.covered = history.covered
    /\ \A v \in Workers : /\ (worker'[v].at = "covered") = (worker[v].at = "covered")
                          /\ worker[v].at = "covered" => worker'[v] = worker[v]

LEMMA QuietKeeps == TableInv /\ Quiet => TableInv'
<1> SUFFICES ASSUME TableInv, Quiet PROVE TableInv' OBVIOUS
<1>1. \A name \in Names : Pending(name) => Pending(name)'
  BY DEF Pending, Key, Quiet
<1>2. RowInv' BY DEF TableInv, RowInv, Quiet, Covered
<1>3. SeenInv' BY DEF TableInv, SeenInv, Quiet, Covered, Key, Running
<1>4. ResultInv' BY <1>1 DEF TableInv, ResultInv, Quiet, Covered
<1> QED BY <1>2, <1>3, <1>4 DEF TableInv

\* A goroutine that is not between read and write, and does not come there.
LEMMA QuietStep ==
    ASSUME TypeInv, NEW w \in Workers, NEW g \in Goroutine, worker[w].at # "covered",
           worker' = [worker EXCEPT ![w] = g], g.at # "covered",
           UNCHANGED <<phase, coverRecord>>, history'.covered = history.covered
    PROVE  Quiet
BY DEF Quiet, TypeInv

LEMMA StepsQuiet ==
    ASSUME TypeInv, IndexInv, NEW w \in Workers,
           \/ Take(w) \/ SeesShutdown(w) \/ ExecFails(w) \/ Retries(w) \/ GivesUp(w)
           \/ CountFailure(w) \/ ExecutesNothing(w)
    PROVE  Quiet
<1>1. worker[w] \in Goroutine BY DEF TypeInv
<1>2. CASE Take(w)
  <2>1. CASE PastEnd(pos)
    <3> DEFINE g == [worker[w] EXCEPT !.at = "done"]
    <3>1. g \in Goroutine /\ g.at # "covered" BY <1>1 DEF Goroutine
    <3> QED BY <1>2, <2>1, <3>1, QuietStep DEF Take, At
  <2>2. CASE ~PastEnd(pos)
    <3> DEFINE g == [worker[w] EXCEPT !.at = "exec", !.idx = pos]
    <3>1. Running /\ pos \in Nat BY <1>2 DEF Take, At, TypeInv
    <3>2. pos < Total BY <2>2, <3>1, TotalTyped DEF PastEnd
    <3>3. g \in Goroutine /\ g.at # "covered" BY <1>1, <3>1 DEF Goroutine, Busy
    <3>4. Program(pos) \in DOMAIN loaded[phase] BY <3>1, <3>2, ProgramNamed
    <3>5. history'.covered = history.covered
      BY <1>2, <2>2, <3>1, <3>4, TakeNoted DEF Take
    <3>6. worker' = [worker EXCEPT ![w] = g] /\ UNCHANGED <<phase, coverRecord>>
      BY <1>2, <2>2 DEF Take
    <3>7. worker[w].at # "covered" BY <1>2 DEF Take, At
    <3> HIDE DEF g
    <3> QED BY <3>3, <3>5, <3>6, <3>7, QuietStep
  <2> QED BY <2>1, <2>2
<1>3. CASE SeesShutdown(w)
  <2> DEFINE g == [worker[w] EXCEPT !.at = "done"]
  <2>1. g \in Goroutine /\ g.at # "covered" BY <1>1 DEF Goroutine
  <2> QED BY <1>3, <2>1, QuietStep DEF SeesShutdown, At
<1>4. CASE ExecFails(w)
  <2> DEFINE g == [worker[w] EXCEPT !.at = "failed"]
  <2>1. g \in Goroutine /\ g.at # "covered" BY <1>1 DEF Goroutine, Busy
  <2> QED BY <1>4, <2>1, QuietStep DEF ExecFails, At
<1>5. CASE Retries(w)
  <2> DEFINE n == NextTry(worker[w].try)
             g == [worker[w] EXCEPT !.at = "exec", !.try = n]
  <2>1. n \in Nat BY <1>1 DEF Goroutine, NextTry
  <2>2. worker' = [worker EXCEPT ![w] = g] BY <1>5 DEF Retries
  <2> HIDE DEF n
  <2>3. g \in Goroutine /\ g.at # "covered" BY <1>1, <2>1 DEF Goroutine, Busy
  <2> QED BY <1>5, <2>2, <2>3, QuietStep DEF Retries, At
<1>6. CASE GivesUp(w)
  <2> DEFINE g == [worker[w] EXCEPT !.at = "count", !.fails = execFailCnt]
  <2>1. g \in Goroutine /\ g.at # "covered" BY <1>1 DEF Goroutine, Busy, TypeInv
  <2>2. history'.covered = history.covered BY <1>6 DEF GivesUp, TypeInv, HistoryType
  <2> QED BY <1>6, <2>1, <2>2, QuietStep DEF GivesUp, At
<1>7. CASE CountFailure(w)
  BY <1>7, IdleTyped, QuietStep DEF CountFailure, At, Idle
<1>8. CASE ExecutesNothing(w)
  BY <1>8, IdleTyped, QuietStep DEF ExecutesNothing, At, Idle
<1> QED BY <1>2, <1>3, <1>4, <1>5, <1>6, <1>7, <1>8

LEMMA GetKeeps ==
    ASSUME TypeInv, IndexInv, TableInv, NEW w \in Workers, GetCoverRecord(w) PROVE TableInv'
<1> DEFINE key == Key(w)
<1>1. Running /\ phase \in CovTypes /\ UNCHANGED <<phase, coverRecord>>
      /\ worker[w].at = "exec"
  BY DEF GetCoverRecord, At, Running
<1>2. key \in Names BY KeyNamed DEF TypeInv, Goroutine, Key
<1>3. history'.covered = history.covered \cup {<<phase, key>>}
  BY DEF GetCoverRecord, TypeInv, HistoryType, Key
<1>4. /\ worker'[w].at = "covered" /\ worker'[w].seen = coverRecord[key]
      /\ worker'[w].idx = worker[w].idx
      /\ \A v \in Workers \ {w} : worker'[v] = worker[v]
  BY DEF GetCoverRecord, TypeInv, Goroutine, Key
<1>5. Key(w)' = key BY <1>4 DEF Key
<1>6. \A v \in Workers \ {w} : Key(v)' = Key(v) BY <1>4 DEF Key
<1>7. \A name \in Names : Pending(name) => Pending(name)'
  BY <1>1, <1>4, <1>6 DEF Pending
<1>8. \A name \in Names : name = key => Pending(name)' BY <1>4, <1>5 DEF Pending
<1> HIDE DEF key
<1>9. \A p \in CovTypes, name \in Names :
          Covered(p, name)' <=> Covered(p, name) \/ (p = phase /\ name = key)
  BY <1>3 DEF Covered
<1>10. RowInv' BY <1>1, <1>9 DEF TableInv, RowInv, CovTypes
<1>11. SeenInv'
  <2> SUFFICES ASSUME NEW v \in Workers, worker'[v].at = "covered"
      PROVE  LET seen == worker'[v].seen row == coverRecord'[Key(v)'] IN
             /\ Covered(phase, Key(v))'
             /\ HasReverse(seen) => HasOrigin(seen)
             /\ HasOrigin(seen) => HasOrigin(row)
             /\ phase' = "origin" => ~HasReverse(seen)
             /\ phase' = "reverse" /\ HasOrigin(row) => HasOrigin(seen)
    BY DEF SeenInv
  <2>1. CASE v = w
    <3>1. <<phase', Key(v)'>> \in history'.covered BY <1>1, <1>3, <1>5, <2>1
    <3>2. HasReverse(coverRecord[key]) => HasOrigin(coverRecord[key]) /\ Covered("reverse", key)
      BY <1>2 DEF TableInv, RowInv
    <3>3. phase = "origin" => ~Covered("reverse", key)
      BY <1>2 DEF TableInv, ResultInv
    <3>4. worker'[v].seen = coverRecord[key] /\ coverRecord'[Key(v)'] = coverRecord[key]
      BY <1>1, <1>4, <1>5, <2>1
    <3> QED BY <1>1, <3>1, <3>2, <3>3, <3>4 DEF Covered
  <2>2. CASE v # w
    <3>1. Covered(phase, Key(v)) => Covered(phase, Key(v))'
      BY <1>1, <1>3, <1>6, <2>2 DEF Covered
    <3> QED BY <1>1, <1>4, <1>6, <2>2, <3>1 DEF TableInv, SeenInv
  <2> QED BY <2>1, <2>2
<1>12. ResultInv'
  <2> SUFFICES ASSUME NEW name \in Names
      PROVE  /\ phase' = "origin" =>
                 /\ ~Covered("reverse", name)'
                 /\ Covered("origin", name)' => HasOrigin(coverRecord'[name]) \/ Pending(name)'
             /\ phase' \in {"reverse", "saved"} =>
                 /\ Covered("origin", name)' => HasOrigin(coverRecord'[name])
                 /\ Covered("reverse", name)' /\ HasOrigin(coverRecord'[name]) =>
                        HasReverse(coverRecord'[name]) \/ (phase' = "reverse" /\ Pending(name)')
    BY DEF ResultInv
  <2>1. CASE phase = "origin"
    BY <1>1, <1>7, <1>8, <1>9, <2>1 DEF TableInv, ResultInv, CovTypes
  <2>2. CASE phase = "reverse"
    BY <1>1, <1>7, <1>8, <1>9, <2>2 DEF TableInv, ResultInv, CovTypes
  <2> QED BY <1>1, <2>1, <2>2 DEF CovTypes
<1> QED BY <1>10, <1>11, <1>12 DEF TableInv

LEMMA SetKeeps ==
    ASSUME TypeInv, IndexInv, TableInv, NEW w \in Workers, SetCoverRecord(w) PROVE TableInv'
<1> DEFINE key == Key(w)
           seen == worker[w].seen
           row == coverRecord[key]
           prog == loaded[phase][Program(worker[w].idx)]
           new == SetRow(row, seen, prog)
<1>1. Running /\ phase \in CovTypes /\ phase' \in {phase, "fatal"} /\ worker[w].at = "covered"
  BY DEF SetCoverRecord, At, Running
<1>2. key \in Names /\ worker[w].idx \in Nat /\ worker[w].idx < Total
  BY <1>1, KeyNamed DEF TypeInv, IndexInv, Busy, Goroutine, Key
<1>3. prog \in Names /\ prog # None BY <1>1, <1>2, ProgramNamed, FilesFacts
<1>4. seen \in Rows /\ row \in Rows BY <1>2 DEF TypeInv, Goroutine
<1>5. history' = history BY DEF SetCoverRecord
<1>6. /\ coverRecord' = [coverRecord EXCEPT ![key] = new]
      /\ worker' = [worker EXCEPT ![w] = Idle]
  BY DEF SetCoverRecord, Key
<1>7. /\ coverRecord'[key] = new /\ worker'[w].at # "covered"
      /\ \A n \in Names \ {key} : coverRecord'[n] = coverRecord[n]
      /\ \A v \in Workers \ {w} : worker'[v] = worker[v]
  BY <1>2, <1>6 DEF TypeInv, Idle
<1>8. /\ Covered(phase, key)
      /\ HasReverse(seen) => HasOrigin(seen)
      /\ HasOrigin(seen) => HasOrigin(row)
      /\ phase = "origin" => ~HasReverse(seen)
      /\ phase = "reverse" /\ HasOrigin(row) => HasOrigin(seen)
  BY <1>1 DEF TableInv, SeenInv
<1>9. (seen = NoRow) <=> ~HasOrigin(seen)
  BY <1>4, <1>8 DEF NoRow, HasOrigin, HasReverse, Rows
<1>10. phase = "origin" =>
          /\ HasOrigin(new) /\ (HasReverse(new) => HasReverse(row))
  <2> SUFFICES ASSUME phase = "origin" PROVE HasOrigin(new) /\ (HasReverse(new) => HasReverse(row))
    OBVIOUS
  <2>1. CASE seen = NoRow
    <3>1. new = [seen EXCEPT !.origin = prog] BY <2>1 DEF SetRow
    <3> QED BY <1>3, <1>4, <1>8, <3>1 DEF Rows, HasOrigin, HasReverse
  <2>2. CASE seen # NoRow
    <3>1. new = row BY <2>2 DEF SetRow
    <3> QED BY <1>8, <1>9, <2>2, <3>1
  <2> QED BY <2>1, <2>2
<1>11. phase = "reverse" =>
          /\ HasOrigin(new) = HasOrigin(row)
          /\ HasOrigin(row) => HasReverse(new)
          /\ HasReverse(new) => HasOrigin(new)
  <2> SUFFICES ASSUME phase = "reverse"
      PROVE  /\ HasOrigin(new) = HasOrigin(row)
             /\ HasOrigin(row) => HasReverse(new)
             /\ HasReverse(new) => HasOrigin(new)
    OBVIOUS
  <2>1. CASE seen = NoRow
    <3>1. new = row BY <2>1 DEF SetRow
    <3>2. HasReverse(row) => HasOrigin(row) BY <1>2 DEF TableInv, RowInv
    <3> QED BY <1>8, <1>9, <2>1, <3>1, <3>2
  <2>2. CASE seen # NoRow
    <3>1. new = [seen EXCEPT !.reverse = prog] BY <2>2 DEF SetRow
    <3>2. new.origin = seen.origin /\ new.reverse = prog BY <1>4, <3>1 DEF Rows
    <3> QED BY <1>3, <1>8, <1>9, <2>2, <3>2 DEF HasOrigin, HasReverse
  <2> QED BY <2>1, <2>2
<1>12. RowInv'
  <2> SUFFICES ASSUME NEW n \in Names
      PROVE  /\ HasOrigin(coverRecord'[n]) => Covered("origin", n)
             /\ HasReverse(coverRecord'[n]) => Covered("reverse", n) /\ HasOrigin(coverRecord'[n])
    BY <1>5 DEF RowInv, Covered
  <2>1. CASE n # key BY <1>7, <2>1 DEF TableInv, RowInv
  <2>2. CASE n = key /\ phase = "origin"
    BY <1>2, <1>7, <1>8, <1>10, <2>2 DEF TableInv, RowInv
  <2>3. CASE n = key /\ phase = "reverse"
    BY <1>2, <1>7, <1>8, <1>11, <2>3 DEF TableInv, RowInv
  <2> QED BY <1>1, <2>1, <2>2, <2>3 DEF CovTypes
<1>13. CASE phase' = "fatal"
  BY <1>12, <1>13 DEF TableInv, SeenInv, ResultInv, Running, CovTypes
<1>14. CASE phase' = phase
  <2>1. \A v \in Workers \ {w} : Key(v)' = Key(v) BY <1>7 DEF Key
  <2>2. \A n \in Names : n # key /\ Pending(n) => Pending(n)'
    BY <1>7, <2>1 DEF Pending
  <2>3. \A n \in Names : /\ HasOrigin(coverRecord[n]) => HasOrigin(coverRecord'[n])
                         /\ phase = "reverse" =>
                              HasOrigin(coverRecord'[n]) = HasOrigin(coverRecord[n])
    BY <1>1, <1>7, <1>10, <1>11 DEF CovTypes
  <2>4. SeenInv'
    <3> SUFFICES ASSUME NEW v \in Workers, worker'[v].at = "covered"
        PROVE  LET sn == worker'[v].seen rw == coverRecord'[Key(v)'] IN
               /\ Covered(phase, Key(v))'
               /\ HasReverse(sn) => HasOrigin(sn)
               /\ HasOrigin(sn) => HasOrigin(rw)
               /\ phase' = "origin" => ~HasReverse(sn)
               /\ phase' = "reverse" /\ HasOrigin(rw) => HasOrigin(sn)
      BY DEF SeenInv
    <3>1. v # w /\ worker'[v] = worker[v] /\ Key(v)' = Key(v) BY <1>7, <2>1
    <3>2. Key(v) \in Names BY KeyNamed DEF TypeInv, Goroutine, Key
    <3>3. Covered(phase, Key(v))' <=> Covered(phase, Key(v))
      BY <1>5, <1>14, <3>1 DEF Covered
    <3> QED BY <1>1, <1>14, <2>3, <3>1, <3>2, <3>3 DEF TableInv, SeenInv
  <2>5. ResultInv'
    <3> SUFFICES ASSUME NEW n \in Names
        PROVE  /\ phase = "origin" =>
                   /\ ~Covered("reverse", n)
                   /\ Covered("origin", n) => HasOrigin(coverRecord'[n]) \/ Pending(n)'
               /\ phase \in {"reverse", "saved"} =>
                   /\ Covered("origin", n) => HasOrigin(coverRecord'[n])
                   /\ Covered("reverse", n) /\ HasOrigin(coverRecord'[n]) =>
                          HasReverse(coverRecord'[n]) \/ (phase = "reverse" /\ Pending(n)')
      BY <1>5, <1>14 DEF ResultInv, Covered
    <3>1. CASE n # key
      BY <1>7, <2>2, <3>1 DEF TableInv, ResultInv
    <3>2. CASE n = key /\ phase = "origin"
      BY <1>7, <1>10, <3>2 DEF TableInv, ResultInv
    <3>3. CASE n = key /\ phase = "reverse"
      BY <1>7, <1>11, <3>3 DEF TableInv, ResultInv
    <3> QED BY <1>1, <3>1, <3>2, <3>3 DEF CovTypes
  <2> QED BY <1>12, <2>4, <2>5 DEF TableInv
<1> QED BY <1>1, <1>13, <1>14

LEMMA InitTable == Init => TableInv
BY DEF Init, TableInv, RowInv, SeenInv, ResultInv, Covered, HasOrigin, HasReverse, NoRow, Idle

LEMMA StepTable == TypeInv /\ IndexInv /\ TableInv /\ [Next]_vars => TableInv'
<1> SUFFICES ASSUME TypeInv, IndexInv, TableInv, [Next]_vars PROVE TableInv' OBVIOUS
<1>1. CASE NextPhase
  <2>1. \A name \in Names : ~Pending(name) BY <1>1 DEF NextPhase, AllDone, Pending
  <2>2. UNCHANGED <<coverRecord, history>> /\ phase = "origin" /\ phase' = "reverse"
        /\ \A v \in Workers : worker'[v].at # "covered"
    BY <1>1 DEF NextPhase, Idle
  <2>3. RowInv' BY <2>2 DEF TableInv, RowInv, Covered
  <2>4. SeenInv' BY <2>2 DEF SeenInv
  <2>5. ResultInv' BY <2>1, <2>2 DEF TableInv, ResultInv, Covered
  <2> QED BY <2>3, <2>4, <2>5 DEF TableInv
<1>2. CASE SaveToFile
  <2>1. \A name \in Names : ~Pending(name) BY <1>2 DEF SaveToFile, AllDone, Pending
  <2>2. UNCHANGED <<coverRecord, history>> /\ phase = "reverse" /\ phase' \in {"saved", "fatal"}
    BY <1>2 DEF SaveToFile
  <2>3. RowInv' BY <2>2 DEF TableInv, RowInv, Covered
  <2>4. SeenInv' BY <2>2 DEF SeenInv, Running, CovTypes
  <2>5. ResultInv' BY <2>1, <2>2 DEF TableInv, ResultInv, Covered
  <2> QED BY <2>3, <2>4, <2>5 DEF TableInv
<1>3. CASE Interrupt
  <2>1. history'.covered = history.covered BY <1>3 DEF Interrupt, TypeInv, HistoryType
  <2>2. Quiet BY <1>3, <2>1 DEF Interrupt, Quiet
  <2> QED BY <2>2, QuietKeeps
<1>4. CASE UNCHANGED vars
  <2>1. Quiet BY <1>4 DEF vars, Quiet
  <2> QED BY <2>1, QuietKeeps
<1> QED BY <1>1, <1>2, <1>3, <1>4, QuietKeeps, StepsQuiet, GetKeeps, SetKeeps
        DEF Next, Works, Main

Saved == [name \in Names |-> IF phase = "saved"
                             THEN {p \in CovTypes : coverRecord[name][p] # None} ELSE {}]

\* As long as the table is not saved, only the results and the phase can be seen.
LEMMA UnsavedTable == phase # "saved" => Saved = [name \in Names |-> {}]
BY DEF Saved

\* The table as it is saved.
LEMMA SavedTable ==
    TypeInv /\ TableInv /\ phase = "saved" => Saved = Table!TableOf(history.covered)
<1> SUFFICES ASSUME TypeInv, TableInv, phase = "saved", NEW name \in Names
    PROVE  {p \in CovTypes : coverRecord[name][p] # None}
             = IF Covered("origin", name) THEN {p \in CovTypes : Covered(p, name)} ELSE {}
  BY DEF Saved, Table!TableOf, Table!CovTypes, CovTypes, Covered
<1>1. /\ HasOrigin(coverRecord[name]) <=> Covered("origin", name)
      /\ Covered("origin", name) =>
             (HasReverse(coverRecord[name]) <=> Covered("reverse", name))
      /\ ~Covered("origin", name) => ~HasReverse(coverRecord[name])
  BY DEF TableInv, RowInv, ResultInv
<1> QED BY <1>1 DEF CovTypes, HasOrigin, HasReverse

LEMMA TableStep ==
    TypeInv /\ IndexInv /\ TypeInv' /\ TableInv' /\ [Next]_vars
        => [Table!TableNext]_<<history.covered, phase, Saved>>
<1> SUFFICES ASSUME TypeInv, IndexInv, TypeInv', TableInv', [Next]_vars
    PROVE  Table!TableNext \/ UNCHANGED <<history.covered, phase, Saved>>
  OBVIOUS
<1> USE DEF Saved
<1>1. ASSUME Quiet PROVE UNCHANGED <<history.covered, phase, Saved>>
  BY <1>1 DEF Quiet
<1>2. ASSUME NEW w \in Workers, GetCoverRecord(w) PROVE Table!Gives(KeyOf(worker[w].idx))
  <2>1. Running /\ UNCHANGED <<phase, coverRecord>> BY <1>2 DEF GetCoverRecord, At
  <2>2. history'.covered = history.covered \cup {<<phase, KeyOf(worker[w].idx)>>}
    BY <1>2 DEF GetCoverRecord, TypeInv, HistoryType
  <2>3. UNCHANGED Saved BY <2>1
  <2> QED BY <2>1, <2>2, <2>3 DEF Table!Gives, Table!CovTypes, CovTypes, Running
<1>3. ASSUME NEW w \in Workers, SetCoverRecord(w)
      PROVE  Table!Exits \/ UNCHANGED <<history.covered, phase, Saved>>
  <2>1. phase \in CovTypes /\ phase' \in {phase, "fatal"} /\ UNCHANGED history
    BY <1>3 DEF SetCoverRecord, At, Running
  <2>2. phase # "saved" /\ phase' # "saved" BY <2>1 DEF CovTypes
  <2>3. UNCHANGED Saved BY <2>2
  <2> QED BY <2>1, <2>3 DEF Table!Exits, Table!CovTypes, CovTypes
<1>4. CASE NextPhase
  <2>1. phase = "origin" /\ phase' = "reverse" /\ UNCHANGED history BY <1>4 DEF NextPhase
  <2>2. UNCHANGED Saved BY <2>1
  <2> QED BY <2>1, <2>2 DEF Table!TableNext, Table!Turns
<1>5. CASE SaveToFile
  <2>1. phase = "reverse" /\ UNCHANGED history BY <1>5 DEF SaveToFile
  <2>2. CASE phase' = "saved"
    <3>0. (TypeInv /\ TableInv /\ phase = "saved" => Saved = Table!TableOf(history.covered))'
      BY SavedTable, PTL
    <3>1. Saved' = Table!TableOf(history.covered)' BY <2>2, <3>0
    <3>2. Table!TableOf(history.covered)' = Table!TableOf(history.covered)
      BY <2>1 DEF Table!TableOf
    <3> QED BY <2>1, <2>2, <3>1, <3>2 DEF Table!TableNext, Table!Saves
  <2>3. CASE phase' = "fatal"
    <3>1. UNCHANGED Saved BY <2>1, <2>3
    <3> QED BY <2>1, <2>3, <3>1 DEF Table!TableNext, Table!Exits, Table!CovTypes
  <2> QED BY <1>5, <2>2, <2>3 DEF SaveToFile
<1>6. CASE Interrupt
  <2>1. history'.covered = history.covered BY <1>6 DEF Interrupt, TypeInv, HistoryType
  <2> QED BY <1>6, <2>1 DEF Interrupt
<1>7. CASE UNCHANGED vars BY <1>7 DEF vars
<1>8. \A w \in Workers : KeyOf(worker[w].idx) \in Names
  BY KeyNamed DEF TypeInv, Goroutine
<1> HIDE DEF Saved
<1> QED BY <1>1, <1>2, <1>3, <1>4, <1>5, <1>6, <1>7, <1>8, StepsQuiet
        DEF Next, Works, Main, Table!TableNext

(* The table that goroutines make row by row, in two critical sections each, is    *)
(* the one made in one piece of all results.                                    *)
THEOREM TableRefined == Spec => TableImplemented
<1>1. Init => Table!TableInit
  BY DEF Init, Table!TableInit
<1>2. TypeInv /\ IndexInv /\ TypeInv' /\ TableInv' /\ [Next]_vars
          => [Table!TableNext]_<<history.covered, phase,
                 [name \in Names |-> IF phase = "saved"
                     THEN {p \in CovTypes : coverRecord[name][p] # None} ELSE {}]>>
  BY TableStep DEF Saved
<1> QED BY <1>1, <1>2, TypesKept, InitTable, StepTable, PTL
           DEF Spec, TableImplemented, Table!TableSpec

-----------------------------------------------------------------------------
(* Whose coverage a row holds.                                                 *)

NameInv ==
    \A p \in CovTypes : OneEach(p) =>
        /\ \A name \in Names : coverRecord[name][p] \in {name, None}
        /\ \A w \in Workers : worker[w].at = "covered" =>
               worker[w].seen[p] \in {Key(w), None}

\* Files and names are counted alike: an index stands for the program of its name.
LEMMA OwnProgram ==
    ASSUME TypeInv, Running, OneEach(phase), NEW i \in Nat
    PROVE  loaded[phase][Program(i)] = KeyOf(i)
BY DEF OneEach, Program, KeyOf

LEMMA StepNames == TypeInv /\ IndexInv /\ NameInv /\ [Next]_vars => NameInv'
<1> SUFFICES ASSUME TypeInv, IndexInv, NameInv, [Next]_vars PROVE NameInv' OBVIOUS
<1>0. UNCHANGED loaded
  BY DEF Next, Works, Main, vars, Take, SeesShutdown, ExecFails, Retries, GivesUp, CountFailure,
         ExecutesNothing, GetCoverRecord, SetCoverRecord, NextPhase, SaveToFile, Interrupt
<1> SUFFICES ASSUME NEW p \in CovTypes, OneEach(p)
    PROVE  /\ \A name \in Names : coverRecord'[name][p] \in {name, None}
           /\ \A v \in Workers : worker'[v].at = "covered" =>
                  worker'[v].seen[p] \in {Key(v)', None}
  BY <1>0 DEF NameInv, OneEach
<1>1. ASSUME Quiet PROVE /\ \A name \in Names : coverRecord'[name][p] \in {name, None}
                         /\ \A v \in Workers : worker'[v].at = "covered" =>
                                worker'[v].seen[p] \in {Key(v)', None}
  BY <1>1 DEF Quiet, NameInv, Key
<1>2. ASSUME NEW w \in Workers, GetCoverRecord(w)
      PROVE  /\ \A name \in Names : coverRecord'[name][p] \in {name, None}
             /\ \A v \in Workers : worker'[v].at = "covered" =>
                    worker'[v].seen[p] \in {Key(v)', None}
  <2>1. UNCHANGED coverRecord /\ Key(w) \in Names
    BY <1>2, KeyNamed DEF GetCoverRecord, Key, TypeInv, Goroutine
  <2>2. /\ worker'[w].seen = coverRecord[Key(w)] /\ worker'[w].idx = worker[w].idx
        /\ \A v \in Workers \ {w} : worker'[v] = worker[v]
    BY <1>2 DEF GetCoverRecord, TypeInv, Goroutine, Key
  <2>3. \A v \in Workers : Key(v)' = Key(v) BY <2>2 DEF Key
  <2>4. worker'[w].seen[p] \in {Key(w)', None} BY <2>1, <2>2, <2>3 DEF NameInv
  <2>5. \A v \in Workers \ {w} : worker'[v].at = "covered" =>
            worker'[v].seen[p] \in {Key(v)', None}
    BY <2>2, <2>3 DEF NameInv
  <2> QED BY <2>1, <2>4, <2>5 DEF NameInv
<1>3. ASSUME NEW w \in Workers, SetCoverRecord(w)
      PROVE  /\ \A name \in Names : coverRecord'[name][p] \in {name, None}
             /\ \A v \in Workers : worker'[v].at = "covered" =>
                    worker'[v].seen[p] \in {Key(v)', None}
  <2> DEFINE prog == loaded[phase][Program(worker[w].idx)]
             new == SetRow(coverRecord[Key(w)], worker[w].seen, prog)
  <2>1. Running /\ worker[w].at = "covered" BY <1>3 DEF SetCoverRecord, At
  <2>2. worker[w].idx \in Nat /\ worker[w].seen \in Rows /\ Key(w) \in Names
        /\ coverRecord[Key(w)] \in Rows
    BY KeyNamed DEF TypeInv, Goroutine, Key
  <2>3. p = phase => prog = Key(w) BY <2>1, <2>2, OwnProgram DEF Key
  <2>4. coverRecord' = [coverRecord EXCEPT ![Key(w)] = new]
        /\ worker' = [worker EXCEPT ![w] = Idle]
    BY <1>3 DEF SetCoverRecord, Key
  <2>5. coverRecord[Key(w)][p] \in {Key(w), None} /\ worker[w].seen[p] \in {Key(w), None}
    BY <2>1, <2>2 DEF NameInv
  <2>6. new[p] \in {Key(w), None}
    <3> HIDE DEF prog
    <3>1. CASE phase = "origin" /\ worker[w].seen = NoRow
      BY <2>2, <2>3, <2>5, <3>1 DEF SetRow, Rows, CovTypes
    <3>2. CASE phase = "reverse" /\ worker[w].seen # NoRow
      BY <2>2, <2>3, <2>5, <3>2 DEF SetRow, Rows, CovTypes
    <3>3. CASE ~(phase = "origin" /\ worker[w].seen = NoRow)
               /\ ~(phase = "reverse" /\ worker[w].seen # NoRow)
      BY <2>5, <3>3 DEF SetRow
    <3> QED BY <3>1, <3>2, <3>3
  <2> HIDE DEF new
  <2>7. \A name \in Names : coverRecord'[name] =
            IF name = Key(w) THEN new ELSE coverRecord[name]
    BY <2>4 DEF TypeInv
  <2>8. \A v \in Workers : worker'[v].at = "covered" => worker'[v] = worker[v] /\ Key(v)' = Key(v)
    BY <2>4 DEF TypeInv, Idle, Key
  <2> QED BY <2>6, <2>7, <2>8 DEF NameInv
<1>4. CASE NextPhase \/ SaveToFile \/ Interrupt \/ UNCHANGED vars
  <2>1. UNCHANGED coverRecord
    BY <1>4 DEF NextPhase, SaveToFile, Interrupt, vars
  <2>2. \A v \in Workers : worker'[v].at = "covered" => worker'[v] = worker[v] /\ Key(v)' = Key(v)
    BY <1>4 DEF NextPhase, SaveToFile, Interrupt, vars, Idle, Key
  <2> QED BY <2>1, <2>2 DEF NameInv
<1> QED BY <1>1, <1>2, <1>3, <1>4, StepsQuiet DEF Next, Works, Main

(* A row holds what its own file covered, unless a file is parsed to no or to     *)
(* several programs: then the names move.                                      *)
THEOREM RowsNamed == Spec => []NamesExplained
<1>1. Init => NameInv
  BY DEF Init, NameInv, NoRow, Idle, CovTypes
<1>2. TypeInv /\ NameInv => NamesExplained
  BY DEF NameInv, NamesExplained, CovTypes
<1> QED BY <1>1, <1>2, StepNames, TypesKept, PTL DEF Spec

-----------------------------------------------------------------------------
(* The counter of failures, which several goroutines read and write at once.    *)

Counting(w) == worker[w].at = "count"
Alone == history.failures - history.overlaps

FailInv ==
    /\ execFailCnt <= history.failures
    /\ Alone <= execFailCnt + 1
    /\ (\A w \in Workers : ~Counting(w)) => Alone <= execFailCnt
    /\ \A w \in Workers : Counting(w) =>
           Alone <= worker[w].fails + 1 /\ worker[w].fails + 1 <= history.failures
    /\ phase = "saved" => AllDone

LEMMA StepFailures == TypeInv /\ IndexInv /\ FailInv /\ [Next]_vars => FailInv'
<1> SUFFICES ASSUME TypeInv, IndexInv, FailInv, [Next]_vars PROVE FailInv' OBVIOUS
<1>t. /\ execFailCnt \in Nat /\ history.failures \in Nat /\ history.overlaps \in Nat
      /\ \A w \in Workers : worker[w].fails \in Nat
  BY DEF TypeInv, HistoryType, Goroutine
\* A step that counts nothing, of one goroutine or of none.
<1>q. ASSUME UNCHANGED execFailCnt, history'.failures = history.failures,
             history'.overlaps = history.overlaps,
             phase' = "saved" => \A v \in Workers : worker'[v].at = "done",
             \A v \in Workers : /\ Counting(v)' = Counting(v)
                                /\ Counting(v) => worker'[v].fails = worker[v].fails
      PROVE  FailInv'
  BY <1>q, <1>t DEF FailInv, Alone, AllDone
<1>1. ASSUME NEW w \in Workers, Take(w) PROVE FailInv'
  <2>1. Running BY <1>1 DEF Take, At
  <2>2. UNCHANGED <<execFailCnt, phase>> /\ phase # "saved"
    BY <1>1, <2>1 DEF Take, Running, CovTypes
  <2>3. history'.failures = history.failures /\ history'.overlaps = history.overlaps
    <3>1. CASE PastEnd(pos) BY <1>1, <3>1 DEF Take
    <3>2. CASE ~PastEnd(pos)
      <4>1. pos \in Nat /\ pos < Total BY <2>1, <3>2, TotalTyped DEF PastEnd, TypeInv
      <4>2. Program(pos) \in DOMAIN loaded[phase] BY <2>1, <4>1, ProgramNamed
      <4> QED BY <1>1, <2>1, <3>2, <4>2, TakeNoted DEF Take
    <3> QED BY <3>1, <3>2
  <2>4. \A v \in Workers : /\ Counting(v)' = Counting(v)
                           /\ Counting(v) => worker'[v].fails = worker[v].fails
    BY <1>1 DEF Take, At, Counting, TypeInv, Goroutine
  <2> QED BY <1>q, <2>2, <2>3, <2>4
<1>2. ASSUME NEW w \in Workers, SeesShutdown(w) \/ ExecFails(w) \/ ExecutesNothing(w)
      PROVE  FailInv'
  <2>1. UNCHANGED <<execFailCnt, phase, history>> /\ phase # "saved"
    BY <1>2 DEF SeesShutdown, ExecFails, ExecutesNothing, At, Running, CovTypes
  <2>2. \A v \in Workers : /\ Counting(v)' = Counting(v)
                           /\ Counting(v) => worker'[v].fails = worker[v].fails
    <3>1. CASE SeesShutdown(w)
      BY <3>1 DEF SeesShutdown, At, Counting, TypeInv, Goroutine
    <3>2. CASE ExecFails(w)
      BY <3>2 DEF ExecFails, At, Counting, TypeInv, Goroutine
    <3>3. CASE ExecutesNothing(w)
      BY <3>3 DEF ExecutesNothing, At, Counting, TypeInv, Idle
    <3> QED BY <1>2, <3>1, <3>2, <3>3
  <2> QED BY <1>q, <2>1, <2>2
<1>3. ASSUME NEW w \in Workers, Retries(w) PROVE FailInv'
  <2>1. UNCHANGED <<execFailCnt, phase, history>> /\ phase # "saved"
    BY <1>3 DEF Retries, At, Running, CovTypes
  <2>2. \A v \in Workers : /\ Counting(v)' = Counting(v)
                           /\ Counting(v) => worker'[v].fails = worker[v].fails
    BY <1>3 DEF Retries, At, Counting, TypeInv, Goroutine
  <2> QED BY <1>q, <2>1, <2>2
<1>4. ASSUME NEW w \in Workers, GivesUp(w) PROVE FailInv'
  <2> DEFINE more == IF \E v \in Workers : worker[v].at = "count" THEN 1 ELSE 0
  <2>1. UNCHANGED <<execFailCnt, phase>> /\ phase # "saved"
    BY <1>4 DEF GivesUp, At, Running, CovTypes
  <2>2. history' = [history EXCEPT !.failures = @ + 1, !.overlaps = @ + more]
    BY <1>4 DEF GivesUp
  <2>3. more \in Nat /\ (more = 1 \/ (more = 0 /\ \A v \in Workers : ~Counting(v)))
    BY DEF Counting
  <2> HIDE DEF more
  <2>4. history'.failures = history.failures + 1 /\ history'.overlaps = history.overlaps + more
    BY <2>2 DEF TypeInv, HistoryType
  <2>5. /\ worker'[w].at = "count" /\ worker'[w].fails = execFailCnt
        /\ \A v \in Workers \ {w} : worker'[v] = worker[v]
    BY <1>4 DEF GivesUp, TypeInv, Goroutine
  <2>6. \A v \in Workers : Counting(v)' =>
            Alone' <= worker'[v].fails + 1 /\ worker'[v].fails + 1 <= history'.failures
    <3> SUFFICES ASSUME NEW v \in Workers, Counting(v)'
        PROVE  Alone' <= worker'[v].fails + 1 /\ worker'[v].fails + 1 <= history'.failures
      OBVIOUS
    <3>1. CASE v = w BY <1>t, <2>3, <2>4, <2>5, <3>1 DEF FailInv, Alone
    <3>2. CASE v # w BY <1>t, <2>3, <2>4, <2>5, <3>2 DEF FailInv, Alone, Counting
    <3> QED BY <3>1, <3>2
  <2>7. Alone' <= execFailCnt' + 1 /\ execFailCnt' <= history'.failures
    BY <1>t, <2>1, <2>3, <2>4 DEF FailInv, Alone
  <2>8. Counting(w)' BY <2>5 DEF Counting
  <2> QED BY <2>1, <2>6, <2>7, <2>8 DEF FailInv
<1>5. ASSUME NEW w \in Workers, CountFailure(w) PROVE FailInv'
  <2>1. UNCHANGED <<phase, history>> /\ phase # "saved" /\ Counting(w)
    BY <1>5 DEF CountFailure, At, Running, CovTypes, Counting
  <2>2. execFailCnt' = worker[w].fails + 1 BY <1>5 DEF CountFailure, Counted
  <2>3. \A v \in Workers : Counting(v)' => Counting(v) /\ worker'[v] = worker[v]
    BY <1>5 DEF CountFailure, TypeInv, Idle, Counting
  <2> QED BY <1>t, <2>1, <2>2, <2>3 DEF FailInv, Alone
<1>6. ASSUME NEW w \in Workers, GetCoverRecord(w) PROVE FailInv'
  <2>1. UNCHANGED <<execFailCnt, phase>> /\ phase # "saved"
    BY <1>6 DEF GetCoverRecord, At, Running, CovTypes
  <2>2. history'.failures = history.failures /\ history'.overlaps = history.overlaps
    BY <1>6 DEF GetCoverRecord, TypeInv, HistoryType
  <2>3. \A v \in Workers : /\ Counting(v)' = Counting(v)
                           /\ Counting(v) => worker'[v].fails = worker[v].fails
    BY <1>6 DEF GetCoverRecord, At, Counting, TypeInv, Goroutine
  <2> QED BY <1>q, <2>1, <2>2, <2>3
<1>7. ASSUME NEW w \in Workers, SetCoverRecord(w) PROVE FailInv'
  <2>1. UNCHANGED <<execFailCnt, history>> /\ phase' # "saved"
    BY <1>7 DEF SetCoverRecord, At, Running, CovTypes
  <2>2. \A v \in Workers : /\ Counting(v)' = Counting(v)
                           /\ Counting(v) => worker'[v].fails = worker[v].fails
    BY <1>7 DEF SetCoverRecord, At, Counting, TypeInv, Idle
  <2> QED BY <1>q, <2>1, <2>2
<1>8. CASE NextPhase
  <2>1. UNCHANGED <<execFailCnt, history>> /\ phase' # "saved"
    BY <1>8 DEF NextPhase
  <2>2. \A v \in Workers : Counting(v)' = Counting(v) /\ ~Counting(v)
    BY <1>8 DEF NextPhase, AllDone, Counting, Idle
  <2> QED BY <1>q, <2>1, <2>2
<1>9. CASE SaveToFile
  BY <1>9, <1>q DEF SaveToFile, AllDone, Counting
<1>10. CASE Interrupt
  <2>1. history'.failures = history.failures /\ history'.overlaps = history.overlaps
    BY <1>10 DEF Interrupt, TypeInv, HistoryType
  <2> QED BY <1>10, <1>q, <2>1 DEF Interrupt, Counting, Running, CovTypes
<1>11. CASE UNCHANGED vars
  BY <1>11, <1>q DEF vars, Counting, FailInv, AllDone
<1> QED BY <1>1, <1>2, <1>3, <1>4, <1>5, <1>6, <1>7, <1>8, <1>9, <1>10, <1>11
        DEF Next, Works, Main

(* The counter of the saved table is the number of programs given up, but for those *)
(* counted while another goroutine was counting too.                             *)
THEOREM FailuresCounted == Spec => []FailuresExplained
<1>1. Init => FailInv
  BY DEF Init, FailInv, Alone, Counting, Idle
<1>2. TypeInv /\ FailInv => FailuresExplained
  <2> SUFFICES ASSUME TypeInv, FailInv, phase = "saved"
      PROVE  execFailCnt \in Alone .. history.failures
    BY DEF FailuresExplained, Alone
  <2>1. execFailCnt \in Nat /\ history.failures \in Nat /\ history.overlaps \in Nat
    BY DEF TypeInv, HistoryType
  <2>2. \A w \in Workers : ~Counting(w) BY DEF FailInv, AllDone, Counting
  <2> QED BY <2>1, <2>2 DEF FailInv, Alone
<1> QED BY <1>1, <1>2, StepFailures, TypesKept, PTL DEF Spec

-----------------------------------------------------------------------------
(* How often a program is executed: the indices up to pos are dealt out in turn.  *)

Share(n, c, i) == (c \div n) + (IF i <= c % n THEN 1 ELSE 0)

LEMMA DivisionUnique ==
    ASSUME NEW n \in Nat, n > 0, NEW q \in Nat, NEW p \in Nat,
           NEW r \in 0 .. n - 1, NEW s \in 0 .. n - 1, n * q + r = n * p + s
    PROVE  q = p /\ r = s
<1>1. CASE q = p BY <1>1
<1>2. CASE q < p
  <2>1. n * p >= n * (q + 1) BY <1>2
  <2>2. n * (q + 1) = n * q + n OBVIOUS
  <2> QED BY <2>1, <2>2
<1>3. CASE p < q
  <2>1. n * q >= n * (p + 1) BY <1>3
  <2>2. n * (p + 1) = n * p + n OBVIOUS
  <2> QED BY <2>1, <2>2
<1> QED BY <1>1, <1>2, <1>3

LEMMA ShareStep ==
    ASSUME NEW n \in Nat, n > 0, NEW c \in Nat, NEW i \in 1 .. n
    PROVE  Share(n, c + 1, i) = Share(n, c, i) + (IF i = (c % n) + 1 THEN 1 ELSE 0)
<1> DEFINE q == c \div n r == c % n p == (c + 1) \div n s == (c + 1) % n
<1>1. q \in Nat /\ r \in 0 .. n - 1 /\ c = n * q + r BY ModRange, DivMod
<1>2. p \in Nat /\ s \in 0 .. n - 1 /\ c + 1 = n * p + s BY ModRange, DivMod
<1> HIDE DEF q, r, p, s
<1>3. CASE r + 1 < n
  <2>1. n * q + (r + 1) = n * p + s /\ r + 1 \in 0 .. n - 1 BY <1>1, <1>2, <1>3
  <2>2. p = q /\ s = r + 1 BY <1>1, <1>2, <2>1, DivisionUnique
  <2> QED BY <1>1, <2>2 DEF Share, q, r, p, s
<1>4. CASE r + 1 = n
  <2>1. n * (q + 1) = n * q + n BY <1>1
  <2>2. n * (q + 1) + 0 = n * p + s /\ 0 \in 0 .. n - 1 /\ q + 1 \in Nat
    BY <1>1, <1>2, <1>4, <2>1
  <2>3. p = q + 1 /\ s = 0 BY <1>2, <2>2, DivisionUnique
  <2> QED BY <1>1, <1>4, <2>3 DEF Share, q, r, p, s
<1> QED BY <1>1, <1>3, <1>4

LEMMA ShareEnd ==
    ASSUME NEW n \in Nat, n > 0, NEW m \in Nat, NEW i \in 1 .. n
    PROVE  Share(n, n * m, i) = m /\ Share(n, 0, i) = 0
<1> DEFINE c == n * m q == c \div n r == c % n
<1>1. c \in Nat OBVIOUS
<1> HIDE DEF c
<1>2. q \in Nat /\ r \in 0 .. n - 1 /\ c = n * q + r BY <1>1, ModRange, DivMod
<1> HIDE DEF q, r
<1>3. n * q + r = n * m + 0 /\ 0 \in 0 .. n - 1 BY <1>2 DEF c
<1>4. q = m /\ r = 0 BY <1>2, <1>3, DivisionUnique
<1>5. Share(n, c, i) = m BY <1>4 DEF Share, q, r
<1>6. 0 \div n = 0 /\ 0 % n = 0
  <2>1. 0 \div n \in Nat /\ 0 % n \in 0 .. n - 1 /\ 0 = n * (0 \div n) + (0 % n)
    BY ModRange, DivMod
  <2>2. n * (0 \div n) + (0 % n) = n * 0 + 0 /\ 0 \in 0 .. n - 1 BY <2>1
  <2> QED BY <2>1, <2>2, DivisionUnique
<1> QED BY <1>5, <1>6 DEF Share, c

LEMMA ShareBound ==
    ASSUME NEW n \in Nat, n > 0, NEW m \in Nat, NEW c \in Nat, c <= n * m, NEW i \in 1 .. n
    PROVE  Share(n, c, i) \in Nat /\ Share(n, c, i) <= m
<1> DEFINE q == c \div n r == c % n
<1>1. q \in Nat /\ r \in 0 .. n - 1 /\ c = n * q + r BY ModRange, DivMod
<1> HIDE DEF q, r
<1>2. Share(n, c, i) = q + (IF i <= r THEN 1 ELSE 0) BY DEF Share, q, r
<1>3. CASE q < m BY <1>1, <1>2, <1>3
<1>4. CASE q = m
  <2>1. r = 0 BY <1>1, <1>4
  <2> QED BY <1>1, <1>2, <1>4, <2>1
<1>5. CASE q > m
  <2>1. n * q >= n * (m + 1) BY <1>1, <1>5
  <2>2. n * (m + 1) = n * m + n OBVIOUS
  <2> QED BY <1>1, <2>1, <2>2
<1> QED BY <1>1, <1>3, <1>4, <1>5

\* The executions of program i of phase p; the number of its programs.
Taken(p, i) == history.taken[p][i]
Number(p) == Len(loaded[p])

TakenInv ==
    /\ \A p \in CovTypes : \A i \in DOMAIN loaded[p] :
        /\ Taken(p, i) <= Repeat
        /\ phase = p =>
               Taken(p, i) = IF pos <= Total THEN Share(Number(p), pos, i) ELSE Repeat
        /\ phase = "origin" /\ p = "reverse" => Taken(p, i) = 0
        /\ phase = "saved" \/ (phase = "reverse" /\ p = "origin") =>
               history.interrupted \/ Taken(p, i) = Repeat
    /\ Running /\ ~history.interrupted =>
        ~shutdown /\ \A w \in Workers : worker[w].at = "done" => pos >= Total

LEMMA NumberTyped ==
    ASSUME TypeInv, NEW p \in CovTypes
    PROVE  /\ Number(p) \in Nat /\ DOMAIN loaded[p] = 1 .. Number(p)
           /\ \A i \in DOMAIN loaded[p] : Number(p) > 0 /\ Taken(p, i) \in Nat
<1>1. loaded[p] \in Seq(Names) /\ history.taken[p] \in Seq(Nat)
      /\ DOMAIN history.taken[p] = DOMAIN loaded[p]
  BY DEF TypeInv, HistoryType
<1> QED BY <1>1 DEF Number, Taken

\* A step of a goroutine that takes no program.
LEMMA KeepsTaken ==
    ASSUME TypeInv, TakenInv, UNCHANGED <<phase, loaded, pos, shutdown>>,
           history'.taken = history.taken, history'.interrupted = history.interrupted,
           \A w \in Workers : worker'[w].at = "done" => worker[w].at = "done" \/ shutdown
    PROVE  TakenInv'
BY DEF TakenInv, Taken, Number, Total, Running

LEMMA TakeKeeps ==
    ASSUME TypeInv, TakenInv, NEW w \in Workers, Take(w) PROVE TakenInv'
<1>1. Running /\ phase \in CovTypes /\ ~shutdown /\ pos \in Nat /\ Total \in Nat
      /\ UNCHANGED <<phase, loaded, shutdown>> /\ pos' = pos + 1 /\ Total' = Total
  BY TotalTyped DEF Take, At, Running, TypeInv, Total
<1>2. CASE PastEnd(pos)
  <2>1. pos >= Total /\ history' = history /\ pos' > Total
    BY <1>1, <1>2 DEF Take, PastEnd
  <2>2. ASSUME NEW i \in DOMAIN loaded[phase] PROVE Taken(phase, i) = Repeat
    <3>1. /\ Number(phase) \in Nat /\ Number(phase) > 0 /\ i \in 1 .. Number(phase)
      BY <1>1, <2>2, NumberTyped
    <3>2. CASE pos = Total
      <4>1. Taken(phase, i) = Share(Number(phase), Number(phase) * Repeat, i)
        BY <1>1, <3>2 DEF TakenInv, Total, Number
      <4> QED BY <3>1, <4>1, ShareEnd, Bounds
    <3>3. CASE pos # Total
      BY <1>1, <2>1, <3>3 DEF TakenInv
    <3> QED BY <3>2, <3>3
  <2>3. \A p \in CovTypes : \A i \in DOMAIN loaded[p] : Taken(p, i)' = Taken(p, i)
    BY <2>1 DEF Taken
  <2> QED BY <1>1, <2>1, <2>2, <2>3 DEF TakenInv, Running
<1>3. CASE ~PastEnd(pos)
  <2>1. pos < Total BY <1>1, <1>3 DEF PastEnd
  <2>2. Program(pos) \in DOMAIN loaded[phase] /\ Program(pos) = (pos % Number(phase)) + 1
    BY <1>1, <2>1, ProgramNamed DEF Program, Number
  <2>3. /\ \A p \in CovTypes : p # phase => history'.taken[p] = history.taken[p]
        /\ \A j \in DOMAIN loaded[phase] : history'.taken[phase][j] =
               IF j = Program(pos) THEN history.taken[phase][j] + 1 ELSE history.taken[phase][j]
        /\ history'.interrupted = history.interrupted
    BY <1>1, <1>3, <2>2, TakeNoted DEF Take
  <2>4. ASSUME NEW i \in DOMAIN loaded[phase]
        PROVE  /\ history'.taken[phase][i] = Share(Number(phase), pos + 1, i)
               /\ history'.taken[phase][i] <= Repeat
    <3>1. Number(phase) \in Nat /\ Number(phase) > 0 /\ i \in 1 .. Number(phase)
      BY <1>1, <2>4, NumberTyped
    <3>2. history.taken[phase][i] = Share(Number(phase), pos, i)
      BY <1>1, <2>1 DEF TakenInv, Taken
    <3>3. Share(Number(phase), pos, i) \in Nat
      BY <1>1, <2>1, <3>1, ShareBound, Bounds DEF Total, Number
    <3>4. Share(Number(phase), pos + 1, i)
            = Share(Number(phase), pos, i) + (IF i = Program(pos) THEN 1 ELSE 0)
      BY <1>1, <2>2, <3>1, ShareStep
    <3>5. history'.taken[phase][i] = Share(Number(phase), pos + 1, i)
      BY <2>3, <3>2, <3>3, <3>4
    <3>6. pos + 1 \in Nat /\ pos + 1 <= Number(phase) * Repeat
      BY <1>1, <2>1 DEF Total, Number
    <3>7. Share(Number(phase), pos + 1, i) <= Repeat BY <3>1, <3>6, ShareBound, Bounds
    <3> QED BY <3>5, <3>7
  <2>5. \A v \in Workers : worker'[v].at = "done" => worker[v].at = "done"
    BY <1>3 DEF Take, TypeInv, Goroutine
  <2>6. pos + 1 <= Total BY <1>1, <2>1
  <2>7. Running /\ ~history'.interrupted =>
            ~shutdown' /\ \A v \in Workers : worker'[v].at = "done" => pos' >= Total'
    BY <1>1, <2>3, <2>5 DEF TakenInv
  <2>8. ASSUME NEW p \in CovTypes, NEW i \in DOMAIN loaded[p]
        PROVE  /\ history'.taken[p][i] <= Repeat
               /\ phase = p => history'.taken[p][i] = Share(Number(p), pos + 1, i)
               /\ phase = "origin" /\ p = "reverse" => history'.taken[p][i] = 0
               /\ phase = "reverse" /\ p = "origin" =>
                      history'.interrupted \/ history'.taken[p][i] = Repeat
    <3>1. CASE p = phase BY <2>4, <3>1
    <3>2. CASE p # phase BY <2>3, <3>2 DEF TakenInv, Taken
    <3> QED BY <3>1, <3>2
  <2> QED BY <1>1, <2>6, <2>7, <2>8 DEF TakenInv, Taken, Number, Running, CovTypes
<1> QED BY <1>2, <1>3

\* When all goroutines are done and nobody has interrupted them, all is executed.
LEMMA AllTaken ==
    ASSUME TypeInv, TakenInv, Running, AllDone, ~history.interrupted,
           NEW i \in DOMAIN loaded[phase]
    PROVE  Taken(phase, i) = Repeat
<1>1. PICK w \in Workers : worker[w].at = "done" BY ExecAssumption DEF AllDone
<1>2. pos >= Total /\ pos \in Nat /\ Total \in Nat
  BY <1>1, TotalTyped DEF TakenInv, TypeInv
<1>3. phase \in CovTypes BY DEF Running
<1>4. Number(phase) \in Nat /\ Number(phase) > 0 /\ i \in 1 .. Number(phase)
  BY <1>3, NumberTyped
<1>5. CASE pos = Total
  <2>1. Taken(phase, i) = Share(Number(phase), Number(phase) * Repeat, i)
    BY <1>2, <1>3, <1>5 DEF TakenInv, Total, Number
  <2> QED BY <1>4, <2>1, ShareEnd, Bounds
<1>6. CASE pos # Total BY <1>2, <1>3, <1>6 DEF TakenInv
<1> QED BY <1>5, <1>6

LEMMA StepTaken == TypeInv /\ IndexInv /\ TakenInv /\ [Next]_vars => TakenInv'
<1> SUFFICES ASSUME TypeInv, IndexInv, TakenInv, [Next]_vars PROVE TakenInv' OBVIOUS
<1>1. ASSUME NEW w \in Workers, SeesShutdown(w) PROVE TakenInv'
  <2>1. \A v \in Workers : worker'[v].at = "done" => worker[v].at = "done" \/ shutdown
    BY <1>1 DEF SeesShutdown
  <2> QED BY <1>1, <2>1, KeepsTaken DEF SeesShutdown
<1>2. ASSUME NEW w \in Workers, ExecFails(w) PROVE TakenInv'
  <2>1. \A v \in Workers : worker'[v].at = "done" => worker[v].at = "done" \/ shutdown
    BY <1>2 DEF ExecFails, TypeInv, Goroutine
  <2> QED BY <1>2, <2>1, KeepsTaken DEF ExecFails
<1>3. ASSUME NEW w \in Workers, Retries(w) PROVE TakenInv'
  <2>1. \A v \in Workers : worker'[v].at = "done" => worker[v].at = "done" \/ shutdown
    BY <1>3 DEF Retries, TypeInv, Goroutine
  <2> QED BY <1>3, <2>1, KeepsTaken DEF Retries
<1>4. ASSUME NEW w \in Workers, GivesUp(w) PROVE TakenInv'
  <2>1. \A v \in Workers : worker'[v].at = "done" => worker[v].at = "done" \/ shutdown
    BY <1>4 DEF GivesUp, TypeInv, Goroutine
  <2>2. history'.taken = history.taken /\ history'.interrupted = history.interrupted
    BY <1>4 DEF GivesUp, TypeInv, HistoryType
  <2> QED BY <1>4, <2>1, <2>2, KeepsTaken DEF GivesUp
<1>5. ASSUME NEW w \in Workers, CountFailure(w) \/ ExecutesNothing(w) PROVE TakenInv'
  <2>1. \A v \in Workers : worker'[v].at = "done" => worker[v].at = "done" \/ shutdown
    BY <1>5 DEF CountFailure, ExecutesNothing, TypeInv, Idle
  <2> QED BY <1>5, <2>1, KeepsTaken DEF CountFailure, ExecutesNothing
<1>6. ASSUME NEW w \in Workers, GetCoverRecord(w) PROVE TakenInv'
  <2>1. \A v \in Workers : worker'[v].at = "done" => worker[v].at = "done" \/ shutdown
    BY <1>6 DEF GetCoverRecord, TypeInv, Goroutine
  <2>2. history'.taken = history.taken /\ history'.interrupted = history.interrupted
    BY <1>6 DEF GetCoverRecord, TypeInv, HistoryType
  <2> QED BY <1>6, <2>1, <2>2, KeepsTaken DEF GetCoverRecord
<1>7. ASSUME NEW w \in Workers, SetCoverRecord(w) PROVE TakenInv'
  <2>1. \A v \in Workers : worker'[v].at = "done" => worker[v].at = "done" \/ shutdown
    BY <1>7 DEF SetCoverRecord, TypeInv, Idle
  <2>2. CASE phase' = phase BY <1>7, <2>1, <2>2, KeepsTaken DEF SetCoverRecord
  <2>3. CASE phase' = "fatal"
    BY <1>7, <2>3 DEF SetCoverRecord, TakenInv, Taken, Running, CovTypes
  <2> QED BY <1>7, <2>2, <2>3 DEF SetCoverRecord
<1>8. CASE NextPhase
  <2>1. /\ phase = "origin" /\ phase' = "reverse" /\ AllDone /\ pos' = 0 /\ ~shutdown'
        /\ UNCHANGED <<loaded, history>> /\ \A v \in Workers : worker'[v].at # "done"
    BY <1>8 DEF NextPhase, Idle
  <2>2. ASSUME NEW i \in DOMAIN loaded["origin"]
        PROVE  history.interrupted \/ Taken("origin", i) = Repeat
    BY <2>1, AllTaken DEF Running, CovTypes
  <2>3. ASSUME NEW i \in DOMAIN loaded["reverse"]
        PROVE  /\ Taken("reverse", i) = 0
               /\ Share(Number("reverse"), 0, i) = 0
    <3>1. Taken("reverse", i) = 0 BY <2>1 DEF TakenInv, CovTypes
    <3>2. Number("reverse") \in Nat /\ Number("reverse") > 0 /\ i \in 1 .. Number("reverse")
      BY NumberTyped DEF CovTypes
    <3> QED BY <3>1, <3>2, ShareEnd, Bounds
  <2>4. 0 <= Total'
    <3>1. Total' = Number("reverse") * Repeat BY <2>1 DEF Total, Number
    <3>2. Number("reverse") \in Nat BY NumberTyped DEF CovTypes
    <3> QED BY <3>1, <3>2, Bounds
  <2> QED BY <2>1, <2>2, <2>3, <2>4 DEF TakenInv, Taken, Number, CovTypes
<1>9. CASE SaveToFile
  <2>1. /\ phase = "reverse" /\ phase' \in {"saved", "fatal"} /\ AllDone
        /\ UNCHANGED <<loaded, history>>
    BY <1>9 DEF SaveToFile
  <2>2. ASSUME NEW i \in DOMAIN loaded["reverse"]
        PROVE  history.interrupted \/ Taken("reverse", i) = Repeat
    BY <2>1, AllTaken DEF Running, CovTypes
  <2> QED BY <2>1, <2>2 DEF TakenInv, Taken, Running, CovTypes
<1>10. CASE Interrupt
  <2>1. history'.taken = history.taken /\ history'.interrupted = TRUE
        /\ UNCHANGED <<phase, loaded, pos>>
    BY <1>10 DEF Interrupt, TypeInv, HistoryType
  <2> QED BY <2>1 DEF TakenInv, Taken, Number, Total
<1>11. CASE UNCHANGED vars
  BY <1>11, KeepsTaken DEF vars
<1> QED BY <1>1, <1>2, <1>3, <1>4, <1>5, <1>6, <1>7, <1>8, <1>9, <1>10, <1>11, TakeKeeps
        DEF Next, Works, Main

LEMMA InitTaken == Init => TakenInv
<1> SUFFICES ASSUME Init PROVE TakenInv OBVIOUS
<1>1. TypeInv BY InitTyped
<1>2. ASSUME NEW p \in CovTypes, NEW i \in DOMAIN loaded[p] PROVE Taken(p, i) = 0
  BY DEF Init, Taken
<1>3. ASSUME NEW i \in DOMAIN loaded["origin"] PROVE Share(Number("origin"), 0, i) = 0
  <2>1. Number("origin") \in Nat /\ Number("origin") > 0 /\ i \in 1 .. Number("origin")
    BY <1>1, NumberTyped DEF CovTypes
  <2> QED BY <2>1, ShareEnd, Bounds
<1>4. phase = "origin" /\ pos = 0 /\ ~shutdown /\ 0 <= Total
      /\ \A w \in Workers : worker[w].at # "done"
  BY <1>1, TotalTyped DEF Init, Idle, Running, CovTypes
<1> QED BY <1>2, <1>3, <1>4, Bounds DEF TakenInv, CovTypes

(* Every program is executed as often as was asked for, and never more often, in   *)
(* whatever order the goroutines take the indices, unless the user interrupts.   *)
THEOREM ProgramsExecuted == Spec => []EveryProgramRun
<1>1. TypeInv /\ TakenInv => EveryProgramRun
  BY DEF TakenInv, Taken, EveryProgramRun
<1> QED BY <1>1, InitTaken, StepTaken, TypesKept, PTL DEF Spec

-----------------------------------------------------------------------------
(* Steps that come to an end.  The tries of a goroutine are counted up to one more *)
(* than is allowed, so what it has left is a number.                            *)

TryInv == \A w \in Workers : worker[w].try <= MaxRetry + 1

LEMMA RestValues ==
    ASSUME NEW g \in Goroutine
    PROVE  /\ g.at = "exec" => Rest(g) = 2 * (MaxRetry + 1 - g.try) + 4
           /\ g.at = "failed" => Rest(g) = 2 * (MaxRetry + 1 - g.try) + 3
           /\ g.at \in {"count", "covered"} => Rest(g) = 2
           /\ g.at = "idle" => Rest(g) = 1
           /\ g.at = "done" => Rest(g) = 0
BY DEF Rest

LEMMA IdleRest == Rest(Idle) = 1 /\ Idle.try = 0
BY IdleTyped, RestValues DEF Idle

\* A goroutine that is replaced by one with less left to do has come nearer.
LEMMA LessLeft ==
    ASSUME TypeInv, TryInv, NEW w \in Workers, NEW g \in Goroutine,
           worker' = [worker EXCEPT ![w] = g], g.try <= MaxRetry + 1,
           Rest(g) \in 0 .. Rest(worker[w]) - 1
    PROVE  TryInv' /\ Advances(w)
<1>1. worker'[w] = g /\ \A v \in Workers \ {w} : worker'[v] = worker[v] BY DEF TypeInv
<1>2. TryInv' BY <1>1 DEF TryInv
<1>3. Rest(worker'[w]) = Rest(g) BY <1>1
<1> QED BY <1>1, <1>2, <1>3 DEF Advances

LEMMA TakeAdvances ==
    ASSUME TypeInv, IndexInv, TryInv, NEW w \in Workers, Take(w) PROVE TryInv' /\ Advances(w)
<1>1. worker[w] \in Goroutine /\ worker[w].try <= MaxRetry + 1 /\ worker[w].at = "idle"
  BY DEF TypeInv, TryInv, Take, At
<1>2. CASE PastEnd(pos)
  <2> DEFINE g == [worker[w] EXCEPT !.at = "done"]
  <2>1. g \in Goroutine /\ g.at = "done" /\ g.try = worker[w].try BY <1>1 DEF Goroutine
  <2>2. worker' = [worker EXCEPT ![w] = g] BY <1>2 DEF Take
  <2>3. Rest(worker[w]) = 1 BY <1>1, RestValues
  <2> HIDE DEF g
  <2>4. Rest(g) = 0 BY <2>1, RestValues
  <2>5. Rest(g) \in 0 .. Rest(worker[w]) - 1 BY <2>3, <2>4
  <2> QED BY <1>1, <2>1, <2>2, <2>5, LessLeft
<1>3. CASE ~PastEnd(pos)
  <2>1. worker' = [worker EXCEPT ![w].at = "exec", ![w].idx = pos] /\ pos' = pos + 1
    BY <1>3 DEF Take
  <2>2. pos < Total BY <1>3, TotalTyped DEF PastEnd, Take, At, TypeInv
  <2>3. worker'[w].try = worker[w].try /\ \A v \in Workers \ {w} : worker'[v] = worker[v]
    BY <1>1, <2>1 DEF TypeInv, Goroutine
  <2>4. TryInv' BY <2>3 DEF TryInv
  <2> QED BY <2>1, <2>2, <2>3, <2>4 DEF Advances
<1> QED BY <1>2, <1>3

LEMMA WorkAdvances ==
    ASSUME TypeInv, IndexInv, TryInv, NEW w \in Workers, Works(w) PROVE TryInv' /\ Advances(w)
<1> DEFINE r == MaxRetry + 1 - worker[w].try
<1>1. worker[w] \in Goroutine /\ worker[w].try \in Nat /\ worker[w].try <= MaxRetry + 1
  BY DEF TypeInv, TryInv, Goroutine
<1>2. MaxRetry \in Nat /\ r \in Nat BY <1>1, Bounds
<1>3. CASE SeesShutdown(w)
  <2> DEFINE g == [worker[w] EXCEPT !.at = "done"]
  <2>1. g \in Goroutine /\ g.at = "done" /\ g.try = worker[w].try BY <1>1 DEF Goroutine
  <2>2. worker' = [worker EXCEPT ![w] = g] /\ worker[w].at = "idle"
    BY <1>3 DEF SeesShutdown, At
  <2>3. Rest(worker[w]) = 1 BY <1>1, <2>2, RestValues
  <2> HIDE DEF g
  <2>4. Rest(g) = 0 BY <2>1, RestValues
  <2>5. Rest(g) \in 0 .. Rest(worker[w]) - 1 BY <2>3, <2>4
  <2> QED BY <1>1, <2>1, <2>2, <2>5, LessLeft
<1>4. CASE ExecFails(w)
  <2> DEFINE g == [worker[w] EXCEPT !.at = "failed"]
  <2>1. g \in Goroutine /\ g.at = "failed" /\ g.try = worker[w].try
    BY <1>1 DEF Goroutine, Busy
  <2>2. worker' = [worker EXCEPT ![w] = g] /\ worker[w].at = "exec" BY <1>4 DEF ExecFails, At
  <2>3. Rest(worker[w]) = 2 * r + 4 BY <1>1, <2>2, RestValues
  <2> HIDE DEF g
  <2>4. Rest(g) = 2 * r + 3 BY <2>1, RestValues
  <2> HIDE DEF r
  <2>5. Rest(g) \in 0 .. Rest(worker[w]) - 1 BY <1>2, <2>3, <2>4
  <2> QED BY <1>1, <2>1, <2>2, <2>5, LessLeft
<1>5. CASE Retries(w)
  <2> DEFINE n == NextTry(worker[w].try)
             g == [worker[w] EXCEPT !.at = "exec", !.try = n]
  <2>1. n = worker[w].try + 1 /\ worker[w].try <= MaxRetry BY <1>5 DEF NextTry, Retries
  <2>2. worker' = [worker EXCEPT ![w] = g] /\ worker[w].at = "failed" BY <1>5 DEF Retries, At
  <2>3. n \in Nat BY <1>1, <2>1
  <2> HIDE DEF n
  <2>4. g \in Goroutine /\ g.at = "exec" /\ g.try = n BY <1>1, <2>3 DEF Goroutine, Busy
  <2>5. Rest(worker[w]) = 2 * r + 3 BY <1>1, <2>2, RestValues
  <2> HIDE DEF g
  <2>6. Rest(g) = 2 * (MaxRetry + 1 - n) + 4 BY <2>4, RestValues
  <2>7. Rest(g) = 2 * r + 2 BY <1>1, <1>2, <2>1, <2>6
  <2>8. g.try <= MaxRetry + 1 BY <1>1, <1>2, <2>1, <2>4
  <2> HIDE DEF r
  <2>9. Rest(g) \in 0 .. Rest(worker[w]) - 1 BY <1>2, <2>5, <2>7
  <2> QED BY <2>2, <2>4, <2>8, <2>9, LessLeft
<1>6. CASE GivesUp(w)
  <2> DEFINE g == [worker[w] EXCEPT !.at = "count", !.fails = execFailCnt]
  <2>1. g \in Goroutine /\ g.at = "count" /\ g.try = worker[w].try
    BY <1>1 DEF Goroutine, Busy, TypeInv
  <2>2. worker' = [worker EXCEPT ![w] = g] /\ worker[w].at = "failed" BY <1>6 DEF GivesUp, At
  <2>3. Rest(worker[w]) = 2 * r + 3 BY <1>1, <2>2, RestValues
  <2> HIDE DEF g
  <2>4. Rest(g) = 2 BY <2>1, RestValues
  <2> HIDE DEF r
  <2>5. Rest(g) \in 0 .. Rest(worker[w]) - 1 BY <1>2, <2>3, <2>4
  <2> QED BY <1>1, <2>1, <2>2, <2>5, LessLeft
<1>7. CASE GetCoverRecord(w)
  <2> DEFINE key == KeyOf(worker[w].idx)
             g == [worker[w] EXCEPT !.at = "covered", !.seen = coverRecord[key]]
  <2>1. coverRecord[key] \in Rows BY <1>1, KeyNamed DEF Goroutine, TypeInv
  <2>2. worker' = [worker EXCEPT ![w] = g] /\ worker[w].at = "exec"
    BY <1>7 DEF GetCoverRecord, At
  <2> HIDE DEF key
  <2>3. g \in Goroutine /\ g.at = "covered" /\ g.try = worker[w].try
    BY <1>1, <2>1 DEF Goroutine, Busy
  <2>4. Rest(worker[w]) = 2 * r + 4 BY <1>1, <2>2, RestValues
  <2> HIDE DEF g
  <2>5. Rest(g) = 2 BY <2>3, RestValues
  <2> HIDE DEF r
  <2>6. Rest(g) \in 0 .. Rest(worker[w]) - 1 BY <1>2, <2>4, <2>5
  <2> QED BY <1>1, <2>2, <2>3, <2>6, LessLeft
<1>8. CASE CountFailure(w) \/ SetCoverRecord(w)
  <2>1. worker' = [worker EXCEPT ![w] = Idle] /\ worker[w].at \in {"count", "covered"}
    BY <1>8 DEF CountFailure, SetCoverRecord, At
  <2>2. Rest(worker[w]) = 2 BY <1>1, <2>1, RestValues
  <2>3. Rest(Idle) \in 0 .. Rest(worker[w]) - 1 BY <2>2, IdleRest
  <2>4. Idle.try <= MaxRetry + 1 BY <1>2, IdleRest
  <2> QED BY <2>1, <2>3, <2>4, IdleTyped, LessLeft
<1>9. CASE ExecutesNothing(w)
  <2>1. worker' = [worker EXCEPT ![w] = Idle] /\ worker[w].at = "exec"
    BY <1>9 DEF ExecutesNothing, At
  <2>2. Rest(worker[w]) = 2 * r + 4 BY <1>1, <2>1, RestValues
  <2> HIDE DEF r
  <2>3. Rest(Idle) \in 0 .. Rest(worker[w]) - 1 BY <1>2, <2>2, IdleRest
  <2>4. Idle.try <= MaxRetry + 1 BY <1>2, IdleRest
  <2> QED BY <2>1, <2>3, <2>4, IdleTyped, LessLeft
<1> QED BY <1>3, <1>4, <1>5, <1>6, <1>7, <1>8, <1>9, TakeAdvances DEF Works

LEMMA StepTries == TypeInv /\ IndexInv /\ TryInv /\ [Next]_vars => TryInv'
<1> SUFFICES ASSUME TypeInv, IndexInv, TryInv, [Next]_vars PROVE TryInv' OBVIOUS
<1>1. CASE NextPhase BY <1>1, Bounds DEF NextPhase, TryInv, Idle
<1>2. CASE SaveToFile \/ Interrupt \/ UNCHANGED vars
  BY <1>2 DEF SaveToFile, Interrupt, vars, TryInv
<1> QED BY <1>1, <1>2, WorkAdvances DEF Next, Main

(* Within a phase every step is the interrupt, which comes once, or takes an index  *)
(* of those that are left, or leaves one goroutine less to do, whatever the executor *)
(* answers: fair goroutines are all that RunEnds needs (patch:983-1008).         *)
THEOREM EveryStepNears == Spec => RunNears
<1>1. Init => TryInv BY Bounds DEF Init, TryInv, Idle
<1> DEFINE Near == \/ ~shutdown /\ shutdown' /\ UNCHANGED <<pos, worker>>
                   \/ \E w \in Workers : Advances(w)
<1>2. TypeInv /\ IndexInv /\ TryInv /\ [Next]_vars => [Running /\ phase' = phase => Near]_vars
  <2> SUFFICES ASSUME TypeInv, IndexInv, TryInv, Next, Running, phase' = phase PROVE Near
    OBVIOUS
  <2>1. CASE \E w \in Workers : Works(w) BY <2>1, WorkAdvances
  <2>2. CASE Main BY <2>2 DEF Main, NextPhase, SaveToFile
  <2>3. CASE Interrupt BY <2>3 DEF Interrupt
  <2> QED BY <2>1, <2>2, <2>3 DEF Next
<1> QED BY <1>1, <1>2, StepTries, TypesKept, PTL DEF Spec, RunNears
=============================================================================
