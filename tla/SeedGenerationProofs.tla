------------------------ MODULE SeedGenerationProofs ------------------------
(***************************************************************************)
(* SeedGeneration for every value of its constants: however many batches    *)
(* overlap, files fail to open and processes are killed.                    *)
(***************************************************************************)
EXTENDS SeedGeneration, TLAPS

\* What the program counter of a batch says of the rest of its memory.
AtWork ==
  \A b \in Slots :
    /\ pc[b] \in {"query", "fill", "prompt", "count"} => todo[b] # <<>>
    /\ pc[b] \in {"query", "fill", "prompt"} =>
         Len(mine[b][Head(todo[b])]) < AttemptLimit
    /\ pc[b] \in {"fill", "prompt"} => resp[b] \in Names

TypeInv == TypeOK /\ AtWork

LEMMA TypeInit == Init => TypeInv
<1> SUFFICES ASSUME Init PROVE TypeInv
  OBVIOUS
<1>1. NoHistory \in Histories
  BY DEF Histories, NoHistory
<1>2. /\ hist \in Histories /\ text \in Texts
      /\ seed \in [Names -> {"absent", "empty", "raw"}]
      /\ prompts \subseteq Names \X Nat /\ total \in Nat
  BY <1>1 DEF Init, Texts
<1>3. /\ pc \in [Slots -> PCs] /\ todo \in [Slots -> Seq(Calls)]
      /\ mine \in [Slots -> Histories] /\ seen \in [Slots -> [Names -> Nat]]
      /\ resp \in [Slots -> Names \cup {None}]
  BY <1>1 DEF Init, PCs
<1>4. /\ cnt \in [Slots -> Nat] /\ tmp \in [Slots -> Nat]
      /\ rounds \in Nat /\ faults \in Nat /\ kills \in Nat
      /\ saved \in Histories /\ missed \subseteq Slots
      /\ raced \subseteq {"history", "total"} /\ noFile \subseteq Names
      /\ deaths \subseteq {"torn", "missing", "unsaved", "cut"} /\ spent \in Nat
  BY <1>1 DEF Init
<1>5. TypeOK
  BY <1>2, <1>3, <1>4 DEF TypeOK
<1>6. AtWork
  BY DEF Init, AtWork
<1>7. QED
  BY <1>5, <1>6 DEF TypeInv

LEMMA TypeStartBatch ==
  ASSUME TypeInv, NEW b \in Slots, StartBatch(b)
  PROVE  TypeInv'
BY TargetAssumption DEF TypeInv, TypeOK, AtWork, Histories, PCs, StartBatch, LoadedHistory,
   Live, fileVars

LEMMA TypeStartOnTornHistory ==
  ASSUME TypeInv, NEW b \in Slots, StartOnTornHistory(b)
  PROVE  TypeInv'
BY DEF TypeInv, TypeOK, AtWork, Histories, PCs, StartOnTornHistory, RaceAt,
   fileVars, batchVars

LEMMA TypeSkip ==
  ASSUME TypeInv, NEW b \in Slots, NEW c \in Calls, Skip(b, c)
  PROVE  TypeInv'
<1>1. Tail(todo[b]) \in Seq(Calls)
  BY DEF TypeInv, TypeOK, Skip, Serving
<1>2. TypeOK'
  BY <1>1 DEF TypeInv, TypeOK, Skip, fileVars, boundVars, ghostVars
<1>3. AtWork'
  BY DEF TypeInv, TypeOK, AtWork, Skip, Serving
<1>4. QED
  BY <1>2, <1>3 DEF TypeInv

LEMMA TypeAttempt ==
  ASSUME TypeInv, NEW b \in Slots, NEW c \in Calls, Attempt(b, c)
  PROVE  TypeInv'
<1>1. TypeOK'
  BY DEF TypeInv, TypeOK, PCs, Attempt, fileVars, boundVars, ghostVars
<1>2. /\ mine[b][c] \in Seq(Names)
      /\ c = Head(todo[b]) /\ todo[b] # <<>>
  BY DEF TypeInv, TypeOK, Histories, Attempt, Serving
<1>3. Len(mine[b][c]) < AttemptLimit
  <2>1. CASE Tried(b, c)
    <3>1. ~Exhausted(b, c)
      BY <2>1 DEF Attempt
    <3>2. QED
      BY <1>2, <3>1 DEF Exhausted, AttemptLimit
  <2>2. CASE ~Tried(b, c)
    BY <1>2, <2>2 DEF Tried, AttemptLimit
  <2>3. QED
    BY <2>1, <2>2
<1>4. AtWork'
  BY <1>2, <1>3 DEF TypeInv, TypeOK, AtWork, Attempt
<1>5. QED
  BY <1>1, <1>4 DEF TypeInv

LEMMA TypePreviousMissing ==
  ASSUME TypeInv, NEW b \in Slots, NEW c \in Calls, PreviousMissing(b, c)
  PROVE  TypeInv'
BY DEF TypeInv, TypeOK, AtWork, Histories, PCs, PreviousMissing, Forget, NoHistory,
   Serving, fileVars, boundVars

LEMMA TypeQueryFails ==
  ASSUME TypeInv, NEW b \in Slots, QueryFails(b)
  PROVE  TypeInv'
BY DEF TypeInv, TypeOK, AtWork, Histories, PCs, QueryFails, fileVars,
   batchVars, boundVars, ghostVars

LEMMA TypeNewAnswer ==
  ASSUME TypeInv, NEW b \in Slots, NEW n \in Names, NewAnswer(b, n)
  PROVE  TypeInv'
<1>1. /\ seed' \in [Names -> {"absent", "empty", "raw"}]
      /\ pc' \in [Slots -> PCs] /\ resp' \in [Slots -> Names \cup {None}]
      /\ faults' \in Nat /\ noFile' \subseteq Names
  <2>1. resp' \in [Slots -> Names \cup {None}]
    BY DEF TypeInv, TypeOK, NewAnswer
  <2>2. CASE OpenProgram(b, n) /\ UNCHANGED <<faults, noFile>>
    BY <2>1, <2>2 DEF TypeInv, TypeOK, PCs, OpenProgram
  <2>3. CASE /\ faults' = faults + 1 /\ noFile' = noFile \cup {n}
             /\ pc' = [pc EXCEPT ![b] = "count"] /\ UNCHANGED seed
    BY <2>1, <2>3 DEF TypeInv, TypeOK, PCs
  <2>4. QED
    BY <2>2, <2>3 DEF NewAnswer
<1>2. seen' \in [Slots -> [Names -> Nat]]
  BY DEF TypeInv, TypeOK, NewAnswer
<1>3. TypeOK'
  BY <1>1, <1>2 DEF TypeInv, TypeOK, NewAnswer
<1>4. AtWork'
  BY DEF TypeInv, TypeOK, AtWork, NewAnswer, OpenProgram
<1>5. QED
  BY <1>3, <1>4 DEF TypeInv

LEMMA TypeSameAnswer ==
  ASSUME TypeInv, NEW b \in Slots, NEW n \in Names, SameAnswer(b, n)
  PROVE  TypeInv'
<1>1. /\ seen' \in [Slots -> [Names -> Nat]] /\ pc' \in [Slots -> PCs]
      /\ resp' \in [Slots -> Names \cup {None}]
  BY DEF TypeInv, TypeOK, PCs, SameAnswer
<1>2. TypeOK'
  BY <1>1 DEF TypeInv, TypeOK, SameAnswer, fileVars, boundVars, ghostVars
<1>3. AtWork'
  BY DEF TypeInv, TypeOK, AtWork, SameAnswer
<1>4. QED
  BY <1>2, <1>3 DEF TypeInv

LEMMA TypeFillFile ==
  ASSUME TypeInv, NEW b \in Slots, FillFile(b)
  PROVE  TypeInv'
<1>1. /\ seed' \in [Names -> {"absent", "empty", "raw"}]
      /\ pc' \in [Slots -> PCs] /\ faults' \in Nat
  <2>1. CASE /\ seed' = [seed EXCEPT ![resp[b]] = "raw"]
             /\ pc' = [pc EXCEPT ![b] = "prompt"] /\ UNCHANGED faults
    BY <2>1 DEF TypeInv, TypeOK, PCs
  <2>2. CASE /\ faults' = faults + 1
             /\ pc' = [pc EXCEPT ![b] = "count"] /\ UNCHANGED seed
    BY <2>2 DEF TypeInv, TypeOK, PCs
  <2>3. QED
    BY <2>1, <2>2 DEF FillFile
<1>2. TypeOK'
  BY <1>1 DEF TypeInv, TypeOK, FillFile, ghostVars
<1>3. AtWork'
  BY DEF TypeInv, TypeOK, AtWork, FillFile
<1>4. QED
  BY <1>2, <1>3 DEF TypeInv

LEMMA TypeRecord ==
  ASSUME TypeInv, NEW b \in Slots, NEW c \in Calls, Record(b, c)
  PROVE  TypeInv'
<1>1. resp[b] \in Names /\ mine[b][c] \in Seq(Names)
  BY DEF TypeInv, TypeOK, AtWork, Histories, Record
<1>2. Append(mine[b][c], resp[b]) \in Seq(Names)
  BY <1>1
<1>3. mine' \in [Slots -> Histories]
  <2>1. CASE mine' = [mine EXCEPT ![b][c] = Append(@, resp[b])]
    BY <1>2, <2>1 DEF TypeInv, TypeOK, Histories
  <2>2. CASE UNCHANGED mine
    BY <2>2 DEF TypeInv, TypeOK
  <2>3. QED
    BY <2>1, <2>2 DEF Record
<1>4. seen[b][resp[b]] \in Nat
  BY <1>1 DEF TypeInv, TypeOK
<1>5. prompts' \subseteq Names \X Nat /\ faults' \in Nat
  BY <1>1, <1>4 DEF TypeInv, TypeOK, Record
<1>6. pc' \in [Slots -> PCs]
  BY DEF TypeInv, TypeOK, PCs, Record
<1>7. TypeOK'
  BY <1>3, <1>5, <1>6 DEF TypeInv, TypeOK, Record, ghostVars
<1>8. AtWork'
  BY DEF TypeInv, TypeOK, AtWork, Record
<1>9. QED
  BY <1>7, <1>8 DEF TypeInv

LEMMA TypeCount ==
  ASSUME TypeInv, NEW b \in Slots, Count(b)
  PROVE  TypeInv'
<1>1. todo[b] \in Seq(Calls) /\ todo[b] # <<>>
  BY DEF TypeInv, TypeOK, AtWork, Count
<1>2. Tail(todo[b]) \in Seq(Calls)
  BY <1>1
<1>3. /\ todo' \in [Slots -> Seq(Calls)] /\ cnt' \in [Slots -> Nat]
      /\ resp' \in [Slots -> Names \cup {None}] /\ pc' \in [Slots -> PCs]
  BY <1>2 DEF TypeInv, TypeOK, PCs, Count, Counted
<1>4. TypeOK'
  BY <1>3 DEF TypeInv, TypeOK, Count, fileVars, boundVars, ghostVars
<1>5. AtWork'
  BY DEF TypeInv, TypeOK, AtWork, Count
<1>6. QED
  BY <1>4, <1>5 DEF TypeInv

\* A batch that is gone has no memory to disagree with where it is.
LEMMA TypeForget ==
  ASSUME TypeInv, NEW b \in Slots, Forget(b)
  PROVE  /\ pc' \in [Slots -> PCs] /\ todo' \in [Slots -> Seq(Calls)]
         /\ mine' \in [Slots -> Histories] /\ seen' \in [Slots -> [Names -> Nat]]
         /\ resp' \in [Slots -> Names \cup {None}]
         /\ cnt' \in [Slots -> Nat] /\ tmp' \in [Slots -> Nat]
         /\ AtWork'
<1>1. NoHistory \in Histories
  BY DEF Histories, NoHistory
<1>2. QED
  BY <1>1 DEF TypeInv, TypeOK, AtWork, PCs, Forget

LEMMA TypeCutShort ==
  ASSUME TypeInv, NEW b \in Slots, CutShort(b)
  PROVE  /\ text' \in Texts /\ hist' \in Histories
         /\ deaths' \subseteq {"torn", "missing", "unsaved", "cut"}
BY DEF TypeInv, TypeOK, Texts, Histories, NoHistory, Found, CutShort

LEMMA TypeOpenHistory ==
  ASSUME TypeInv, NEW b \in Slots, OpenHistory(b)
  PROVE  TypeInv'
<1>1. UNCHANGED <<seed, prompts, total, rounds, kills, saved, missed, noFile, spent>>
  BY DEF OpenHistory
<1>2. CASE /\ text' = "empty" /\ hist' = NoHistory /\ pc' = [pc EXCEPT ![b] = "dump"]
           /\ raced' = raced \cup RaceAt("dump", "history")
           /\ UNCHANGED <<todo, mine, seen, resp, cnt, tmp, faults, deaths>>
  <2>1. /\ text' \in Texts /\ hist' \in Histories /\ pc' \in [Slots -> PCs]
        /\ raced' \subseteq {"history", "total"}
    BY <1>2 DEF TypeInv, TypeOK, Texts, Histories, NoHistory, PCs, RaceAt
  <2>2. TypeOK'
    BY <1>1, <1>2, <2>1 DEF TypeInv, TypeOK
  <2>3. AtWork'
    BY <1>2 DEF TypeInv, TypeOK, AtWork
  <2>4. QED
    BY <2>2, <2>3 DEF TypeInv
<1>3. CASE /\ faults' = faults + 1 /\ deaths' = deaths \cup {"unsaved"} /\ Forget(b)
           /\ UNCHANGED <<hist, text, raced>>
  <2>1. /\ faults' \in Nat
        /\ deaths' \subseteq {"torn", "missing", "unsaved", "cut"}
    BY <1>3 DEF TypeInv, TypeOK
  <2>2. TypeOK'
    BY <1>1, <1>3, <2>1, TypeForget DEF TypeInv, TypeOK
  <2>3. QED
    BY <1>3, <2>2, TypeForget DEF TypeInv
<1>4. QED
  BY <1>2, <1>3 DEF OpenHistory

LEMMA TypeDumpHistory ==
  ASSUME TypeInv, NEW b \in Slots, DumpHistory(b)
  PROVE  TypeInv'
<1>1. CASE CutShort(b) /\ faults' = faults + 1 /\ UNCHANGED <<saved, missed>>
  <2>1. Forget(b)
    BY <1>1 DEF CutShort
  <2>2. QED
    <3>1. UNCHANGED <<seed, prompts, total, rounds, kills, raced, noFile, spent>>
      BY DEF DumpHistory
    <3>2. faults' \in Nat
      BY <1>1 DEF TypeInv, TypeOK
    <3>3. TypeOK'
      BY <1>1, <2>1, <3>1, <3>2, TypeForget, TypeCutShort DEF TypeInv, TypeOK
    <3>4. QED
      BY <2>1, <3>3, TypeForget DEF TypeInv
<1>2. CASE /\ text' \in AfterDump(b) /\ hist' = Found(mine[b]) /\ saved' = mine[b]
           /\ missed' = missed \cup {o \in Slots \ {b} : Live(o)}
           /\ pc' = [pc EXCEPT ![b] = "stat"]
           /\ UNCHANGED <<todo, mine, seen, resp, cnt, tmp, faults, deaths>>
  <2>1. /\ text' \in Texts /\ hist' \in Histories /\ saved' \in Histories
        /\ missed' \subseteq Slots /\ pc' \in [Slots -> PCs]
    BY <1>2 DEF TypeInv, TypeOK, Texts, Histories, NoHistory, Found, AfterDump, PCs
  <2>2. TypeOK'
    BY <1>2, <2>1 DEF TypeInv, TypeOK, DumpHistory
  <2>3. AtWork'
    BY <1>2 DEF TypeInv, TypeOK, AtWork
  <2>4. QED
    BY <2>2, <2>3 DEF TypeInv
<1>3. QED
  BY <1>1, <1>2 DEF DumpHistory

LEMMA TypeReadTotal ==
  ASSUME TypeInv, NEW b \in Slots, ReadTotal(b)
  PROVE  TypeInv'
BY DEF TypeInv, TypeOK, AtWork, Histories, PCs, ReadTotal, RaceAt, fileVars,
   boundVars

LEMMA TypeAddTotal ==
  ASSUME TypeInv, NEW b \in Slots, AddTotal(b)
  PROVE  TypeInv'
<1>1. Forget(b)
  BY DEF AddTotal
<1>2. total' \in Nat /\ spent' \in Nat
  BY DEF TypeInv, TypeOK, AddTotal, NewTotal
<1>3. QED
  BY <1>1, <1>2, TypeForget DEF TypeInv, TypeOK, AddTotal, boundVars

LEMMA TypeKill ==
  ASSUME TypeInv, NEW b \in Slots, Kill(b)
  PROVE  TypeInv'
<1>1. Forget(b)
  BY DEF Kill, CutShort
<1>2. /\ text' \in Texts /\ hist' \in Histories
      /\ deaths' \subseteq {"torn", "missing", "unsaved", "cut"}
  <2>1. CASE CutShort(b)
    BY <2>1, TypeCutShort
  <2>2. CASE UNCHANGED <<hist, text, deaths>>
    BY <2>2 DEF TypeInv, TypeOK
  <2>3. QED
    BY <2>1, <2>2 DEF Kill
<1>3. QED
  BY <1>1, <1>2, TypeForget DEF TypeInv, TypeOK, Kill

LEMMA TypeStutter ==
  ASSUME TypeInv, UNCHANGED vars
  PROVE  TypeInv'
BY DEF TypeInv, TypeOK, AtWork, vars, fileVars, batchVars, boundVars, ghostVars

LEMMA TypeStep == TypeInv /\ [Next]_vars => TypeInv'
<1> SUFFICES ASSUME TypeInv, [Next]_vars PROVE TypeInv'
  OBVIOUS
<1>1. ASSUME NEW b \in Slots, BatchStep(b) PROVE TypeInv'
  BY <1>1, TypeSkip, TypeAttempt, TypePreviousMissing, TypeRecord, TypeNewAnswer,
     TypeSameAnswer, TypeQueryFails, TypeFillFile, TypeCount, TypeOpenHistory,
     TypeDumpHistory, TypeReadTotal, TypeAddTotal DEF BatchStep
<1>2. QED
  BY <1>1, TypeStartBatch, TypeStartOnTornHistory, TypeKill, TypeStutter DEF Next

\* Type correctness, and the memory of a batch agreeing with where it is: between the
\* query and the count of one syscall it serves the head of its list, whose history it has
\* found below the limit, and holds an answer (syzgpt_generator.py:101-166).
THEOREM TypeCorrect == Spec => []TypeInv
BY TypeInit, TypeStep, PTL DEF Spec

\* Every variable stays in its type (the files and the processes of
\* batch_generate_program, syzgpt_generator.py:83-182).
THEOREM TypesHold == Spec => []TypeOK
BY TypeCorrect, PTL DEF TypeInv

----------------------------------------------------------------------------
(* No history grows beyond the limit.  A batch appends to the history of    *)
(* the syscall it serves only, once after every check of it, and what it    *)
(* loads and saves are whole histories: TypeInv with AttemptsCapped is      *)
(* inductive.                                                               *)

LEMMA CappedInit == Init => AttemptsCapped
BY DEF Init, NoHistory, AttemptsCapped, AttemptLimit

\* The histories the other steps leave: those that were there, or none.
LEMMA CappedElsewhere ==
  ASSUME AttemptsCapped, hist' \in {hist, NoHistory},
         \A o \in Slots : mine'[o] \in {mine[o], hist, NoHistory}
  PROVE  AttemptsCapped'
BY DEF AttemptsCapped, AttemptLimit, NoHistory

LEMMA CappedForget ==
  ASSUME TypeInv, AttemptsCapped, NEW b \in Slots, Forget(b), hist' \in {hist, NoHistory}
  PROVE  AttemptsCapped'
<1>1. \A o \in Slots : mine'[o] \in {mine[o], NoHistory}
  BY DEF TypeInv, TypeOK, Forget
<1>2. QED
  BY <1>1, CappedElsewhere

LEMMA CappedLoad ==
  ASSUME TypeInv, AttemptsCapped, NEW b \in Slots, StartBatch(b)
  PROVE  AttemptsCapped'
BY CappedElsewhere DEF TypeInv, TypeOK, StartBatch, LoadedHistory, fileVars

LEMMA CappedSave ==
  ASSUME TypeInv, AttemptsCapped, NEW b \in Slots, OpenHistory(b) \/ DumpHistory(b)
  PROVE  AttemptsCapped'
<1>1. CASE Forget(b)
  <2>1. hist' \in {hist, NoHistory}
    BY <1>1 DEF TypeInv, TypeOK, Forget, PCs, OpenHistory, DumpHistory, CutShort, Found
  <2>2. QED
    BY <1>1, <2>1, CappedForget
<1>2. CASE mine' = mine /\ hist' \in {mine[b], NoHistory}
  BY <1>2 DEF AttemptsCapped, AttemptLimit, NoHistory
<1>3. QED
  BY <1>1, <1>2 DEF OpenHistory, DumpHistory, CutShort, Found

LEMMA CappedRecord ==
  ASSUME TypeInv, AttemptsCapped, NEW b \in Slots, NEW c \in Calls, Record(b, c)
  PROVE  AttemptsCapped'
<1>1. CASE mine' = [mine EXCEPT ![b][c] = Append(@, resp[b])]
  <2>1. mine[b][c] \in Seq(Names) /\ resp[b] \in Names
    BY DEF TypeInv, TypeOK, AtWork, Histories, Record
  <2>2. Len(mine[b][c]) < AttemptLimit
    BY DEF TypeInv, AtWork, Record
  <2>3. Len(mine'[b][c]) <= AttemptLimit
    BY <1>1, <2>1, <2>2 DEF TypeInv, TypeOK, Histories, AttemptLimit
  <2>4. \A o \in Slots, d \in Calls : Len(mine'[o][d]) <= AttemptLimit
    BY <1>1, <2>3 DEF TypeInv, TypeOK, Histories, AttemptsCapped
  <2>5. QED
    BY <2>4 DEF AttemptsCapped, AttemptLimit, Record
<1>2. CASE UNCHANGED mine
  BY <1>2, CappedElsewhere DEF Record
<1>3. QED
  BY <1>1, <1>2 DEF Record

LEMMA CappedStep == TypeInv /\ AttemptsCapped /\ [Next]_vars => AttemptsCapped'
<1> SUFFICES ASSUME TypeInv, AttemptsCapped, [Next]_vars PROVE AttemptsCapped'
  OBVIOUS
<1>1. ASSUME NEW b \in Slots, NEW c \in Calls,
             Skip(b, c) \/ Attempt(b, c) \/ PreviousMissing(b, c)
      PROVE  AttemptsCapped'
  BY <1>1, CappedElsewhere, CappedForget DEF Skip, Attempt, PreviousMissing, fileVars
<1>2. ASSUME NEW b \in Slots, NEW n \in Names, NewAnswer(b, n) \/ SameAnswer(b, n)
      PROVE  AttemptsCapped'
  BY <1>2, CappedElsewhere DEF NewAnswer, SameAnswer, fileVars
<1>3. ASSUME NEW b \in Slots,
             QueryFails(b) \/ FillFile(b) \/ Count(b) \/ ReadTotal(b)
      PROVE  AttemptsCapped'
  BY <1>3, CappedElsewhere DEF QueryFails, FillFile, Count, ReadTotal, fileVars
<1>4. ASSUME NEW b \in Slots, AddTotal(b) \/ Kill(b)
      PROVE  AttemptsCapped'
  BY <1>4, CappedForget DEF AddTotal, Kill, CutShort, Found
<1>5. ASSUME NEW b \in Slots, BatchStep(b) PROVE AttemptsCapped'
  BY <1>1, <1>2, <1>3, <1>4, <1>5, CappedRecord, CappedSave DEF BatchStep
<1>6. ASSUME NEW b \in Slots, StartOnTornHistory(b) PROVE AttemptsCapped'
  BY <1>6, CappedElsewhere DEF StartOnTornHistory, fileVars, batchVars
<1>7. CASE UNCHANGED vars
  BY <1>7, CappedElsewhere DEF vars, fileVars, batchVars
<1>8. QED
  BY <1>4, <1>5, <1>6, <1>7, CappedLoad DEF Next

\* However batches overlap, no syscall is tried, recorded or shown to the model more
\* often than the limit (syzgpt_generator.py:107).
THEOREM LimitHolds == Spec => []AttemptsCapped
<1>1. Init => TypeInv /\ AttemptsCapped
  BY TypeInit, CappedInit
<1>2. TypeInv /\ AttemptsCapped /\ [Next]_vars => (TypeInv /\ AttemptsCapped)'
  BY TypeStep, CappedStep
<1>3. QED
  BY <1>1, <1>2, PTL DEF Spec

----------------------------------------------------------------------------
(* What is recorded can be read again.  A name gets into a history from     *)
(* resp at "prompt", where its file has been written by this batch or been  *)
(* met by it before; what a batch has met is on disk, or its open failed.   *)

Backed(n) == seed[n] # "absent" \/ n \in noFile

BackInv ==
  /\ \A c \in Calls : \A i \in 1 .. Len(hist[c]) : Backed(hist[c][i])
  /\ \A b \in Slots, c \in Calls : \A i \in 1 .. Len(mine[b][c]) : Backed(mine[b][c][i])
  /\ \A b \in Slots, n \in Names : seen[b][n] > 0 => Backed(n)
  /\ \A b \in Slots : pc[b] = "prompt" => Backed(resp[b])
  /\ \A b \in Slots : pc[b] = "fill" => seed[resp[b]] # "absent"

LEMMA BackInit == Init => BackInv
BY DEF Init, NoHistory, BackInv

\* The steps of the model that write a seed file, and what the others leave alone.
LEMMA SeedSteps ==
  ASSUME [Next]_vars
  PROVE  \/ UNCHANGED <<seed, noFile>>
         \/ \E b \in Slots, n \in Names : NewAnswer(b, n)
         \/ \E b \in Slots : FillFile(b)
<1>1. ASSUME NEW b \in Slots, NEW c \in Calls,
             Skip(b, c) \/ Attempt(b, c) \/ PreviousMissing(b, c) \/ Record(b, c)
      PROVE  UNCHANGED <<seed, noFile>>
  BY <1>1 DEF Skip, Attempt, PreviousMissing, Record, fileVars, ghostVars
<1>2. ASSUME NEW b \in Slots, NEW n \in Names, SameAnswer(b, n)
      PROVE  UNCHANGED <<seed, noFile>>
  BY <1>2 DEF SameAnswer, fileVars, ghostVars
<1>3. ASSUME NEW b \in Slots,
             \/ QueryFails(b) \/ Count(b) \/ OpenHistory(b) \/ DumpHistory(b)
             \/ ReadTotal(b) \/ AddTotal(b) \/ Kill(b)
      PROVE  UNCHANGED <<seed, noFile>>
  BY <1>3 DEF QueryFails, Count, OpenHistory, DumpHistory, ReadTotal, AddTotal, Kill,
     fileVars, ghostVars
<1>4. ASSUME NEW b \in Slots, StartBatch(b) \/ StartOnTornHistory(b)
      PROVE  UNCHANGED <<seed, noFile>>
  BY <1>4 DEF StartBatch, StartOnTornHistory, fileVars
<1>5. UNCHANGED vars => UNCHANGED <<seed, noFile>>
  BY DEF vars, fileVars, ghostVars
<1>6. QED
  BY <1>1, <1>2, <1>3, <1>4, <1>5 DEF Next, BatchStep

\* A file never goes away.
LEMMA BackedStays ==
  ASSUME TypeInv, [Next]_vars, NEW n \in Names
  PROVE  /\ seed[n] # "absent" => seed'[n] # "absent"
         /\ Backed(n) => Backed(n)'
<1>1. CASE UNCHANGED <<seed, noFile>>
  BY <1>1 DEF Backed
<1>2. ASSUME NEW b \in Slots, NEW m \in Names, NewAnswer(b, m)
      PROVE  /\ seed[n] # "absent" => seed'[n] # "absent"
             /\ noFile \subseteq noFile'
  BY <1>2 DEF TypeInv, TypeOK, NewAnswer, OpenProgram
<1>3. ASSUME NEW b \in Slots, FillFile(b)
      PROVE  /\ seed[n] # "absent" => seed'[n] # "absent"
             /\ noFile' = noFile
  BY <1>3 DEF TypeInv, TypeOK, FillFile, ghostVars
<1>4. QED
  BY <1>1, <1>2, <1>3, SeedSteps DEF Backed

LEMMA BackedKept ==
  ASSUME TypeInv, [Next]_vars, NEW n \in Names, Backed(n)
  PROVE  seed'[n] # "absent" \/ n \in noFile'
BY BackedStays DEF Backed

\* What is recorded stays backed, on disk and in every batch.
LEMMA HistoriesKept ==
  ASSUME TypeInv, BackInv, [Next]_vars, NEW c \in Calls
  PROVE  /\ \A i \in 1 .. Len(hist[c]) :
              seed'[hist[c][i]] # "absent" \/ hist[c][i] \in noFile'
         /\ \A o \in Slots : \A i \in 1 .. Len(mine[o][c]) :
              seed'[mine[o][c][i]] # "absent" \/ mine[o][c][i] \in noFile'
<1>1. \A i \in 1 .. Len(hist[c]) : hist[c][i] \in Names /\ Backed(hist[c][i])
  BY DEF TypeInv, TypeOK, Histories, BackInv
<1>2. \A o \in Slots : \A i \in 1 .. Len(mine[o][c]) :
        mine[o][c][i] \in Names /\ Backed(mine[o][c][i])
  BY DEF TypeInv, TypeOK, Histories, BackInv
<1>3. QED
  BY <1>1, <1>2, BackedKept

\* A step that adds nothing to the histories, to what a batch has met, or to the
\* batches at "fill" and "prompt".
LEMMA BackNothingNew ==
  ASSUME TypeInv, BackInv, [Next]_vars,
         hist' \in {hist, NoHistory},
         \A o \in Slots : mine'[o] \in {mine[o], NoHistory, hist},
         \A o \in Slots : seen'[o] \in {seen[o], [n \in Names |-> 0]},
         \A o \in Slots : pc'[o] \in {"fill", "prompt"} =>
                          pc'[o] = pc[o] /\ resp'[o] = resp[o]
  PROVE  BackInv'
<1> DEFINE Kept(n) == seed'[n] # "absent" \/ n \in noFile'
<1>1. /\ \A c \in Calls : \A i \in 1 .. Len(hist[c]) : Kept(hist[c][i])
      /\ \A c \in Calls : \A i \in 1 .. Len(hist'[c]) : Kept(hist'[c][i])
  BY HistoriesKept DEF NoHistory
<1>2. ASSUME NEW o \in Slots, NEW c \in Calls, NEW i \in 1 .. Len(mine'[o][c])
      PROVE  Kept(mine'[o][c][i])
  <2>1. CASE mine'[o] = mine[o]
    BY <2>1, HistoriesKept
  <2>2. CASE mine'[o] = NoHistory
    BY <2>2 DEF NoHistory
  <2>3. CASE mine'[o] = hist
    BY <1>1, <2>3
  <2>4. QED
    BY <2>1, <2>2, <2>3
<1>3. ASSUME NEW o \in Slots, NEW n \in Names, seen'[o][n] > 0
      PROVE  Kept(n)
  BY <1>3, BackedKept DEF BackInv
<1>4. ASSUME NEW o \in Slots, pc'[o] \in {"fill", "prompt"}
      PROVE  /\ pc'[o] = "prompt" => Kept(resp'[o])
             /\ pc'[o] = "fill" => seed'[resp'[o]] # "absent"
  <2>1. pc[o] = pc'[o] /\ resp'[o] = resp[o]
    BY <1>4
  <2>2. resp[o] \in Names
    BY <1>4, <2>1 DEF TypeInv, AtWork
  <2>3. /\ pc[o] = "prompt" => Backed(resp[o])
        /\ pc[o] = "fill" => seed[resp[o]] # "absent"
    BY DEF BackInv
  <2>4. pc[o] = "prompt" => Kept(resp[o])
    BY <2>2, <2>3, BackedKept
  <2>5. pc[o] = "fill" => seed'[resp[o]] # "absent"
    BY <2>2, <2>3, BackedStays
  <2>6. QED
    BY <2>1, <2>4, <2>5
<1>5. QED
  BY <1>1, <1>2, <1>3, <1>4 DEF BackInv, Backed

\* A batch that ends, however it does.
LEMMA BackForget ==
  ASSUME TypeInv, BackInv, [Next]_vars, NEW b \in Slots, Forget(b),
         hist' \in {hist, NoHistory}
  PROVE  BackInv'
<1>1. \A o \in Slots : /\ mine'[o] \in {mine[o], NoHistory}
                        /\ seen'[o] \in {seen[o], [n \in Names |-> 0]}
  BY DEF TypeInv, TypeOK, Forget
<1>2. \A o \in Slots : pc'[o] \in {"fill", "prompt"} => pc'[o] = pc[o] /\ resp'[o] = resp[o]
  BY DEF TypeInv, TypeOK, Forget
<1>3. QED
  BY <1>1, <1>2, BackNothingNew

LEMMA BackQuiet ==
  ASSUME TypeInv, BackInv, [Next]_vars, NEW b \in Slots,
         \/ StartBatch(b) \/ StartOnTornHistory(b)
         \/ \E c \in Calls : Skip(b, c) \/ Attempt(b, c)
         \/ QueryFails(b) \/ Count(b) \/ ReadTotal(b)
         \/ OpenHistory(b) /\ pc' = [pc EXCEPT ![b] = "dump"]
  PROVE  BackInv'
<1>1. hist' \in {hist, NoHistory} /\ UNCHANGED seen
  BY DEF StartBatch, StartOnTornHistory, Skip, Attempt, QueryFails, Count, OpenHistory,
     ReadTotal, Forget, TypeInv, TypeOK, fileVars, batchVars
<1>2. mine' = mine \/ mine' = [mine EXCEPT ![b] = hist]
  BY DEF StartBatch, StartOnTornHistory, Skip, Attempt, QueryFails, Count, OpenHistory,
     ReadTotal, Forget, LoadedHistory, TypeInv, TypeOK, batchVars
<1>3. \A o \in Slots : mine'[o] \in {mine[o], NoHistory, hist}
  BY <1>2 DEF TypeInv, TypeOK
<1>4. \/ UNCHANGED <<pc, resp>>
      \/ /\ \E p \in PCs \ {"fill", "prompt"} : pc' = [pc EXCEPT ![b] = p]
         /\ UNCHANGED resp \/ resp' = [resp EXCEPT ![b] = None]
  BY DEF StartBatch, StartOnTornHistory, Skip, Attempt, QueryFails, Count, OpenHistory,
     ReadTotal, Forget, batchVars, PCs
<1>5. \A o \in Slots : pc'[o] \in {"fill", "prompt"} => pc'[o] = pc[o] /\ resp'[o] = resp[o]
  BY <1>4 DEF TypeInv, TypeOK
<1>6. QED
  BY <1>1, <1>3, <1>5, BackNothingNew

\* The steps that end a batch: its own, and those of what kills it.
LEMMA BackEnds ==
  ASSUME TypeInv, BackInv, [Next]_vars, NEW b \in Slots,
         \/ \E c \in Calls : PreviousMissing(b, c)
         \/ AddTotal(b) \/ Kill(b)
         \/ OpenHistory(b) /\ Forget(b)
         \/ DumpHistory(b) /\ CutShort(b)
  PROVE  BackInv'
<1>1. Forget(b)
  BY DEF PreviousMissing, AddTotal, Kill, CutShort
<1>2. hist' \in {hist, NoHistory}
  BY DEF PreviousMissing, AddTotal, Kill, OpenHistory, CutShort, Found, fileVars
<1>3. QED
  BY <1>1, <1>2, BackForget

LEMMA BackNewAnswer ==
  ASSUME TypeInv, BackInv, [Next]_vars, NEW b \in Slots, NEW n \in Names, NewAnswer(b, n)
  PROVE  BackInv'
<1> DEFINE Kept(m) == seed'[m] # "absent" \/ m \in noFile'
<1>1. Kept(n)
  BY DEF TypeInv, TypeOK, NewAnswer, OpenProgram
<1>2. hist' = hist /\ mine' = mine
  BY DEF NewAnswer
<1>3. ASSUME NEW o \in Slots, NEW m \in Names, seen'[o][m] > 0
      PROVE  Kept(m)
  <2>1. CASE m = n
    BY <1>1, <2>1
  <2>2. CASE m # n
    <3>1. seen[o][m] > 0
      BY <1>3, <2>2 DEF TypeInv, TypeOK, NewAnswer
    <3>2. QED
      BY <3>1, BackedKept DEF BackInv
  <2>3. QED
    BY <2>1, <2>2
<1>4. ASSUME NEW o \in Slots
      PROVE  /\ pc'[o] = "prompt" => Kept(resp'[o])
             /\ pc'[o] = "fill" => seed'[resp'[o]] # "absent"
  <2>1. CASE o = b
    BY <2>1 DEF TypeInv, TypeOK, NewAnswer, OpenProgram
  <2>2. CASE o # b
    <3>1. pc'[o] = pc[o] /\ resp'[o] = resp[o]
      BY <2>2 DEF TypeInv, TypeOK, NewAnswer, OpenProgram
    <3>2. pc[o] \in {"fill", "prompt"} => resp[o] \in Names
      BY DEF TypeInv, AtWork
    <3>3. QED
      BY <3>1, <3>2, BackedKept, BackedStays DEF BackInv
  <2>3. QED
    BY <2>1, <2>2
<1>5. QED
  BY <1>2, <1>3, <1>4, HistoriesKept DEF BackInv, Backed

LEMMA BackSameAnswer ==
  ASSUME TypeInv, BackInv, [Next]_vars, NEW b \in Slots, NEW n \in Names, SameAnswer(b, n)
  PROVE  BackInv'
<1> DEFINE Kept(m) == seed'[m] # "absent" \/ m \in noFile'
<1>1. hist' = hist /\ mine' = mine
  BY DEF SameAnswer, fileVars
<1>2. ASSUME NEW o \in Slots, NEW m \in Names, seen'[o][m] > 0
      PROVE  Kept(m)
  <2>1. seen[o][m] > 0
    BY <1>2 DEF TypeInv, TypeOK, SameAnswer
  <2>2. QED
    BY <2>1, BackedKept DEF BackInv
<1>3. Kept(n)
  BY BackedKept DEF BackInv, SameAnswer
<1>4. ASSUME NEW o \in Slots
      PROVE  /\ pc'[o] = "prompt" => Kept(resp'[o])
             /\ pc'[o] = "fill" => seed'[resp'[o]] # "absent"
  <2>1. CASE o = b
    BY <1>3, <2>1 DEF TypeInv, TypeOK, SameAnswer
  <2>2. CASE o # b
    <3>1. pc'[o] = pc[o] /\ resp'[o] = resp[o]
      BY <2>2 DEF TypeInv, TypeOK, SameAnswer
    <3>2. pc[o] \in {"fill", "prompt"} => resp[o] \in Names
      BY DEF TypeInv, AtWork
    <3>3. QED
      BY <3>1, <3>2, BackedKept, BackedStays DEF BackInv
  <2>3. QED
    BY <2>1, <2>2
<1>5. QED
  BY <1>1, <1>2, <1>4, HistoriesKept DEF BackInv, Backed

LEMMA BackFillFile ==
  ASSUME TypeInv, BackInv, [Next]_vars, NEW b \in Slots, FillFile(b)
  PROVE  BackInv'
<1> DEFINE Kept(m) == seed'[m] # "absent" \/ m \in noFile'
<1>1. hist' = hist /\ mine' = mine /\ seen' = seen /\ resp' = resp
  BY DEF FillFile
<1>2. \A o \in Slots, m \in Names : seen[o][m] > 0 => Kept(m)
  BY BackedKept DEF BackInv
<1>3. resp[b] \in Names /\ seed[resp[b]] # "absent"
  BY DEF TypeInv, AtWork, BackInv, FillFile
<1>4. seed'[resp[b]] # "absent"
  BY <1>3, BackedStays
<1>5. ASSUME NEW o \in Slots
      PROVE  /\ pc'[o] = "prompt" => Kept(resp[o])
             /\ pc'[o] = "fill" => seed'[resp[o]] # "absent"
  <2>1. CASE o = b
    BY <1>4, <2>1
  <2>2. CASE o # b
    <3>1. pc'[o] = pc[o]
      BY <2>2 DEF TypeInv, TypeOK, FillFile
    <3>2. pc[o] \in {"fill", "prompt"} => resp[o] \in Names
      BY DEF TypeInv, AtWork
    <3>3. QED
      BY <3>1, <3>2, BackedKept, BackedStays DEF BackInv
  <2>3. QED
    BY <2>1, <2>2
<1>6. QED
  BY <1>1, <1>2, <1>5, HistoriesKept DEF BackInv, Backed

LEMMA BackRecord ==
  ASSUME TypeInv, BackInv, [Next]_vars, NEW b \in Slots, NEW c \in Calls, Record(b, c)
  PROVE  BackInv'
<1> DEFINE Kept(m) == seed'[m] # "absent" \/ m \in noFile'
<1>1. hist' = hist /\ seen' = seen /\ resp' = resp
  BY DEF Record
<1>2. \A o \in Slots, m \in Names : seen[o][m] > 0 => Kept(m)
  BY BackedKept DEF BackInv
<1>3. resp[b] \in Names /\ Kept(resp[b])
  BY BackedKept DEF TypeInv, AtWork, BackInv, Record
<1>4. ASSUME NEW o \in Slots, NEW d \in Calls, NEW i \in 1 .. Len(mine'[o][d])
      PROVE  Kept(mine'[o][d][i])
  <2>1. CASE mine' = [mine EXCEPT ![b][c] = Append(@, resp[b])] /\ o = b /\ d = c
    <3>1. mine[b][c] \in Seq(Names)
      BY DEF TypeInv, TypeOK, Histories
    <3>2. mine'[o][d] = Append(mine[b][c], resp[b])
      BY <2>1 DEF TypeInv, TypeOK, Histories
    <3>3. CASE i = Len(mine[b][c]) + 1
      BY <1>3, <3>1, <3>2, <3>3
    <3>4. CASE i \in 1 .. Len(mine[b][c])
      <4>1. mine'[o][d][i] = mine[b][c][i]
        BY <3>1, <3>2, <3>4
      <4>2. QED
        BY <3>4, <4>1, HistoriesKept
    <3>5. Len(mine'[o][d]) = Len(mine[b][c]) + 1 /\ Len(mine[b][c]) \in Nat
      BY <1>3, <3>1, <3>2
    <3>6. i = Len(mine[b][c]) + 1 \/ i \in 1 .. Len(mine[b][c])
      BY <3>5
    <3>7. QED
      BY <3>3, <3>4, <3>6
  <2>2. CASE mine'[o][d] = mine[o][d]
    BY <2>2, HistoriesKept
  <2>3. \/ mine'[o][d] = mine[o][d]
        \/ mine' = [mine EXCEPT ![b][c] = Append(@, resp[b])] /\ o = b /\ d = c
    <3>1. CASE UNCHANGED mine
      BY <3>1
    <3>2. CASE mine' = [mine EXCEPT ![b][c] = Append(@, resp[b])]
      <4>1. CASE o = b /\ d = c
        BY <3>2, <4>1
      <4>2. CASE ~(o = b /\ d = c)
        BY <3>2, <4>2 DEF TypeInv, TypeOK, Histories
      <4>3. QED
        BY <4>1, <4>2
    <3>3. QED
      BY <3>1, <3>2 DEF Record
  <2>4. QED
    BY <2>1, <2>2, <2>3
<1>5. ASSUME NEW o \in Slots
      PROVE  /\ pc'[o] = "prompt" => Kept(resp[o])
             /\ pc'[o] = "fill" => seed'[resp[o]] # "absent"
  <2>1. pc'[o] \in {"fill", "prompt"} => pc'[o] = pc[o]
    BY DEF TypeInv, TypeOK, Record
  <2>2. pc[o] \in {"fill", "prompt"} => resp[o] \in Names
    BY DEF TypeInv, AtWork
  <2>3. QED
    BY <2>1, <2>2, BackedKept, BackedStays DEF BackInv
<1>6. QED
  BY <1>1, <1>2, <1>4, <1>5, HistoriesKept DEF BackInv, Backed

LEMMA BackSave ==
  ASSUME TypeInv, BackInv, [Next]_vars, NEW b \in Slots, DumpHistory(b), ~CutShort(b)
  PROVE  BackInv'
<1> DEFINE Kept(m) == seed'[m] # "absent" \/ m \in noFile'
<1>1. /\ hist' \in {mine[b], NoHistory} /\ mine' = mine /\ seen' = seen /\ resp' = resp
      /\ pc' = [pc EXCEPT ![b] = "stat"]
  BY DEF DumpHistory, Found
<1>2. \A c \in Calls : \A i \in 1 .. Len(hist'[c]) : Kept(hist'[c][i])
  BY <1>1, HistoriesKept DEF NoHistory
<1>3. \A o \in Slots, m \in Names : seen[o][m] > 0 => Kept(m)
  BY BackedKept DEF BackInv
<1>4. ASSUME NEW o \in Slots
      PROVE  /\ pc'[o] = "prompt" => Kept(resp[o])
             /\ pc'[o] = "fill" => seed'[resp[o]] # "absent"
  <2>1. pc'[o] \in {"fill", "prompt"} => pc'[o] = pc[o]
    BY <1>1 DEF TypeInv, TypeOK
  <2>2. pc[o] \in {"fill", "prompt"} => resp[o] \in Names
    BY DEF TypeInv, AtWork
  <2>3. QED
    BY <2>1, <2>2, BackedKept, BackedStays DEF BackInv
<1>5. QED
  BY <1>1, <1>2, <1>3, <1>4, HistoriesKept DEF BackInv, Backed

LEMMA BackStep == TypeInv /\ BackInv /\ [Next]_vars => BackInv'
<1> SUFFICES ASSUME TypeInv, BackInv, [Next]_vars PROVE BackInv'
  OBVIOUS
<1>1. ASSUME NEW b \in Slots, BatchStep(b) PROVE BackInv'
  <2>1. CASE \E c \in Calls : Record(b, c)
    BY <2>1, BackRecord
  <2>2. CASE \E n \in Names : NewAnswer(b, n) \/ SameAnswer(b, n)
    BY <2>2, BackNewAnswer, BackSameAnswer
  <2>3. CASE FillFile(b) \/ DumpHistory(b)
    BY <2>3, BackFillFile, BackSave, BackEnds
  <2>4. CASE \/ \E c \in Calls : Skip(b, c) \/ Attempt(b, c) \/ PreviousMissing(b, c)
             \/ QueryFails(b) \/ Count(b) \/ OpenHistory(b) \/ ReadTotal(b) \/ AddTotal(b)
    BY <2>4, BackQuiet, BackEnds DEF OpenHistory
  <2>5. QED
    BY <1>1, <2>1, <2>2, <2>3, <2>4 DEF BatchStep
<1>2. ASSUME NEW b \in Slots, StartBatch(b) \/ StartOnTornHistory(b) \/ Kill(b)
      PROVE  BackInv'
  BY <1>2, BackQuiet, BackEnds
<1>3. CASE UNCHANGED vars
  BY <1>3 DEF BackInv, Backed, vars, fileVars, batchVars, ghostVars
<1>4. QED
  BY <1>1, <1>2, <1>3 DEF Next

LEMMA BackImplies == TypeInv /\ BackInv => HistoryBacked
<1> SUFFICES ASSUME TypeInv, BackInv, NEW n \in Recorded
             PROVE  seed[n] # "absent" \/ n \in noFile
  BY DEF HistoryBacked
<1>1. ASSUME NEW s \in Seq(Names), n \in Range(s)
      PROVE  \E i \in 1 .. Len(s) : n = s[i]
  BY <1>1 DEF Range
<1>2. CASE \E c \in Calls : n \in Range(hist[c])
  <2>1. PICK c \in Calls : n \in Range(hist[c])
    BY <1>2
  <2>2. hist[c] \in Seq(Names)
    BY DEF TypeInv, TypeOK, Histories
  <2>3. PICK i \in 1 .. Len(hist[c]) : n = hist[c][i]
    BY <1>1, <2>1, <2>2
  <2>4. QED
    BY <2>3 DEF BackInv, Backed
<1>3. CASE \E b \in Slots, c \in Calls : n \in Range(mine[b][c])
  <2>1. PICK b \in Slots, c \in Calls : n \in Range(mine[b][c])
    BY <1>3
  <2>2. mine[b][c] \in Seq(Names)
    BY DEF TypeInv, TypeOK, Histories
  <2>3. PICK i \in 1 .. Len(mine[b][c]) : n = mine[b][c][i]
    BY <1>1, <2>1, <2>2
  <2>4. QED
    BY <2>3 DEF BackInv, Backed
<1>4. \/ n \in UNION {Range(hist[c]) : c \in Calls}
      \/ n \in UNION {Range(mine[b][c]) : b \in Slots, c \in Calls}
  BY DEF Recorded
<1>5. n \in UNION {Range(hist[c]) : c \in Calls} => \E c \in Calls : n \in Range(hist[c])
  OBVIOUS
<1>6. n \in UNION {Range(mine[b][c]) : b \in Slots, c \in Calls}
        => \E b \in Slots, c \in Calls : n \in Range(mine[b][c])
  <2>1. \A S : S \in {Range(mine[b][c]) : b \in Slots, c \in Calls}
                => \E b \in Slots, c \in Calls : S = Range(mine[b][c])
    OBVIOUS
  <2>2. QED
    BY <2>1
<1>7. QED
  BY <1>2, <1>3, <1>4, <1>5, <1>6

\* Every attempt in a history, on disk or in a batch, has a seed file to show to the
\* model again, or is the name of a file whose open failed (syzgpt_generator.py:143-154).
THEOREM RecordedReadable == Spec => []HistoryBacked
<1>1. Init => TypeInv /\ BackInv
  BY TypeInit, BackInit
<1>2. TypeInv /\ BackInv /\ [Next]_vars => (TypeInv /\ BackInv)'
  BY TypeStep, BackStep
<1>3. QED
  BY <1>1, <1>2, BackImplies, PTL DEF Spec

----------------------------------------------------------------------------
(* The generator implements SeedWriter: of its steps only NewAnswer and      *)
(* FillFile touch a seed, and FillFile fills a file that is there.           *)

LEMMA WriterStep == TypeInv /\ BackInv /\ [Next]_vars => [Writer!WriterNext]_seed
<1> SUFFICES ASSUME TypeInv, BackInv, [Next]_vars
             PROVE  [Writer!WriterNext]_seed
  OBVIOUS
<1>1. ASSUME NEW b \in Slots, NEW n \in Names, NewAnswer(b, n)
      PROVE  Writer!OpenSeed(n) \/ UNCHANGED seed
  BY <1>1 DEF NewAnswer, OpenProgram, Writer!OpenSeed
<1>2. ASSUME NEW b \in Slots, FillFile(b)
      PROVE  UNCHANGED seed \/ \E n \in Names : Writer!FillSeed(n)
  <2>1. resp[b] \in Names /\ seed[resp[b]] # "absent"
    BY <1>2 DEF TypeInv, AtWork, BackInv, FillFile
  <2>2. UNCHANGED seed \/ Writer!FillSeed(resp[b])
    BY <1>2, <2>1 DEF FillFile, Writer!FillSeed
  <2>3. QED
    BY <2>1, <2>2
<1>3. QED
  BY <1>1, <1>2, SeedSteps DEF Writer!WriterNext

\* What the fuzzer's side is built on holds of the generator: a seed file appears
\* truncated, is filled, may be rewritten, and is never removed.
THEOREM WriterImplemented == Spec => WriterRefined
<1>1. Init => Writer!WriterInit
  BY DEF Init, Writer!WriterInit
<1>2. Init => TypeInv /\ BackInv
  BY TypeInit, BackInit
<1>3. TypeInv /\ BackInv /\ [Next]_vars => (TypeInv /\ BackInv)'
  BY TypeStep, BackStep
<1>4. QED
  BY <1>1, <1>2, <1>3, WriterStep, PTL DEF Spec, WriterRefined, Writer!WriterSpec

----------------------------------------------------------------------------
(* What two batches do to the files they end with.  As long as none raced,   *)
(* one at a time is at the history, and at the counter; and a batch nobody   *)
(* has dumped behind knows all that is saved.                               *)

DumpAlone ==
  "history" \notin raced =>
    /\ \A b, o \in Slots : (pc[b] = "dump" /\ pc[o] = "dump") => b = o
    /\ \A b \in Slots : pc[b] = "dump" => text = "empty"

HistoryInv == DumpAlone /\ HistoryOnDisk /\ DeathsExplained

KnowsSaved(b) == \A c \in Calls : IsPrefix(saved[c], mine[b][c])

KnowInv == \A b \in Slots \ missed : Live(b) => KnowsSaved(b)

CountInv ==
  /\ TotalExact
  /\ \A b \in Slots : pc[b] = "add" => tmp[b] <= spent
  /\ "total" \notin raced =>
       /\ \A b, o \in Slots : pc[b] = "add" /\ pc[o] = "add" => b = o
       /\ \A b \in Slots : pc[b] = "add" => tmp[b] = total

EndInv == HistoryInv /\ KnowInv /\ CountInv

\* Histories and their prefixes.
LEMMA PrefixItself ==
  ASSUME NEW s \in Seq(Names)
  PROVE  IsPrefix(s, s)
BY DEF IsPrefix

LEMMA PrefixAppend ==
  ASSUME NEW s \in Seq(Names), NEW t \in Seq(Names), NEW n \in Names, IsPrefix(s, t)
  PROVE  IsPrefix(s, Append(t, n))
BY DEF IsPrefix

LEMMA EndInit == Init => EndInv
<1> SUFFICES ASSUME Init PROVE EndInv
  OBVIOUS
<1>1. HistoryInv
  BY DEF Init, HistoryInv, DumpAlone, HistoryOnDisk, DeathsExplained, Torn
<1>2. KnowInv
  BY DEF Init, KnowInv, Live
<1>3. CountInv
  BY DEF Init, CountInv, TotalExact
<1>4. QED
  BY <1>1, <1>2, <1>3 DEF EndInv

----------------------------------------------------------------------------
(* The steps of a batch at its syscalls, away from the files it ends with.  *)

AtCalls(b) ==
  \/ \E c \in Calls : Skip(b, c) \/ Attempt(b, c) \/ PreviousMissing(b, c) \/ Record(b, c)
  \/ \E n \in Names : NewAnswer(b, n) \/ SameAnswer(b, n)
  \/ QueryFails(b) \/ FillFile(b) \/ Count(b)

LEMMA CallsLeave ==
  ASSUME TypeInv, NEW b \in Slots, AtCalls(b)
  PROVE  /\ UNCHANGED <<hist, text, total, saved, missed, raced, spent>>
         /\ Live(b) /\ pc[b] \notin {"dump", "add"}
         /\ pc'[b] \notin {"dump", "add"}
         /\ \A o \in Slots \ {b} : pc'[o] = pc[o] /\ tmp'[o] = tmp[o] /\ mine'[o] = mine[o]
<1> USE DEF TypeInv, TypeOK, Live
<1>1. ASSUME NEW c \in Calls, Skip(b, c) \/ Attempt(b, c)
      PROVE  /\ UNCHANGED <<hist, text, total, saved, missed, raced, spent, mine, tmp>>
             /\ pc[b] = "loop" /\ pc'[b] \in {"loop", "query"}
             /\ \A o \in Slots \ {b} : pc'[o] = pc[o]
  BY <1>1 DEF Skip, Attempt, Serving, fileVars, ghostVars
<1>2. ASSUME NEW c \in Calls, PreviousMissing(b, c)
      PROVE  /\ UNCHANGED <<hist, text, total, saved, missed, raced, spent>>
             /\ pc[b] = "loop" /\ pc'[b] = "idle"
             /\ \A o \in Slots \ {b} : pc'[o] = pc[o] /\ tmp'[o] = tmp[o] /\ mine'[o] = mine[o]
  BY <1>2 DEF PreviousMissing, Serving, Forget, fileVars
<1>3. ASSUME NEW c \in Calls, Record(b, c)
      PROVE  /\ UNCHANGED <<hist, text, total, saved, missed, raced, spent, tmp>>
             /\ pc[b] = "prompt" /\ pc'[b] = "count"
             /\ \A o \in Slots \ {b} : pc'[o] = pc[o] /\ mine'[o] = mine[o]
  BY <1>3 DEF Record, ghostVars
<1>4. ASSUME NEW n \in Names, NewAnswer(b, n) \/ SameAnswer(b, n)
      PROVE  /\ UNCHANGED <<hist, text, total, saved, missed, raced, spent, mine, tmp>>
             /\ pc[b] = "query" /\ pc'[b] \in {"fill", "prompt", "count"}
             /\ \A o \in Slots \ {b} : pc'[o] = pc[o]
  BY <1>4 DEF NewAnswer, OpenProgram, SameAnswer, fileVars, ghostVars
<1>5. ASSUME QueryFails(b) \/ FillFile(b) \/ Count(b)
      PROVE  /\ UNCHANGED <<hist, text, total, saved, missed, raced, spent, mine, tmp>>
             /\ pc[b] \in {"query", "fill", "count"}
             /\ pc'[b] \in {"loop", "prompt", "count"}
             /\ \A o \in Slots \ {b} : pc'[o] = pc[o]
  BY <1>5 DEF QueryFails, FillFile, Count, fileVars, ghostVars
<1>6. QED
  BY <1>1, <1>2, <1>3, <1>4, <1>5 DEF AtCalls

\* A batch that dies of a missing program has met the name of a file that did not open.
LEMMA CallsDeaths ==
  ASSUME TypeInv, BackInv, NEW b \in Slots, AtCalls(b)
  PROVE  /\ \/ deaths' = deaths
            \/ deaths' = deaths \cup {"missing"} /\ noFile' # {}
         /\ noFile \subseteq noFile'
<1>1. ASSUME NEW c \in Calls, PreviousMissing(b, c)
      PROVE  deaths' = deaths \cup {"missing"} /\ noFile # {} /\ noFile' = noFile
  BY <1>1 DEF PreviousMissing, PrevReadable, BackInv, Backed
<1>2. \/ deaths' = deaths /\ noFile \subseteq noFile'
      \/ \E c \in Calls : PreviousMissing(b, c)
  BY DEF AtCalls, Skip, Attempt, Record, NewAnswer, SameAnswer, QueryFails, FillFile, Count,
     ghostVars
<1>3. QED
  BY <1>1, <1>2

----------------------------------------------------------------------------
(* The history.                                                             *)

\* The steps that neither write the file nor take a batch to it or away from it.
LEMMA HistoryElsewhere ==
  ASSUME HistoryInv, UNCHANGED <<hist, text, saved>>,
         "history" \in raced' <=> "history" \in raced,
         \A o \in Slots : pc'[o] = "dump" <=> pc[o] = "dump",
         "cut" \in deaths' <=> "cut" \in deaths,
         "torn" \in deaths' <=> "torn" \in deaths,
         "missing" \in deaths' => noFile' # {}
  PROVE  HistoryInv'
BY DEF HistoryInv, DumpAlone, HistoryOnDisk, DeathsExplained, Torn

LEMMA HistoryOpen ==
  ASSUME TypeInv, HistoryInv, NEW b \in Slots, OpenHistory(b)
  PROVE  HistoryInv'
<1>1. CASE /\ text' = "empty" /\ pc' = [pc EXCEPT ![b] = "dump"]
           /\ raced' = raced \cup RaceAt("dump", "history")
           /\ deaths' = deaths
  <2>1. /\ pc'[b] = "dump" /\ \A o \in Slots \ {b} : pc'[o] = pc[o]
        /\ noFile' = noFile
    BY <1>1 DEF TypeInv, TypeOK, OpenHistory
  <2>2. "history" \notin raced' =>
          "history" \notin raced /\ \A o \in Slots : pc[o] # "dump"
    BY <1>1 DEF RaceAt
  <2>3. DumpAlone'
    BY <1>1, <2>1, <2>2 DEF HistoryInv, DumpAlone
  <2>4. HistoryOnDisk'
    BY <1>1, <2>1 DEF HistoryOnDisk, Torn
  <2>5. DeathsExplained'
    BY <1>1, <2>1 DEF HistoryInv, DeathsExplained
  <2>6. QED
    BY <2>3, <2>4, <2>5 DEF HistoryInv
<1>2. CASE /\ deaths' = deaths \cup {"unsaved"} /\ Forget(b)
           /\ UNCHANGED <<hist, text, raced>>
  <2>1. \A o \in Slots : pc'[o] = "dump" <=> pc[o] = "dump"
    BY <1>2 DEF TypeInv, TypeOK, OpenHistory, Forget
  <2>2. QED
    BY <1>2, <2>1, HistoryElsewhere DEF OpenHistory, HistoryInv, DeathsExplained
<1>3. QED
  BY <1>1, <1>2 DEF OpenHistory

\* A dump that is cut short owns up to what it leaves, if it leaves anything.
LEMMA HistoryCut ==
  ASSUME TypeInv, HistoryInv, NEW b \in Slots, pc[b] = "dump", CutShort(b),
         UNCHANGED <<saved, raced, noFile>>
  PROVE  HistoryInv'
<1>1. /\ \A o \in Slots : pc'[o] = "dump" => pc[o] = "dump" /\ o # b
      /\ deaths' = deaths \cup {"cut"}
      /\ text' \in {text, "part"} /\ hist' = Found(hist)
  BY DEF TypeInv, TypeOK, CutShort, Forget
<1>2. DumpAlone'
  BY <1>1 DEF HistoryInv, DumpAlone
<1>3. HistoryOnDisk'
  BY <1>1 DEF HistoryInv, HistoryOnDisk, Torn, Found
<1>4. DeathsExplained'
  BY <1>1 DEF HistoryInv, DeathsExplained
<1>5. QED
  BY <1>2, <1>3, <1>4 DEF HistoryInv

LEMMA HistoryDump ==
  ASSUME TypeInv, HistoryInv, NEW b \in Slots, DumpHistory(b)
  PROVE  HistoryInv'
<1>1. CASE CutShort(b)
  <2>1. UNCHANGED <<saved, raced, noFile>> \/ pc' = [pc EXCEPT ![b] = "stat"]
    BY DEF DumpHistory
  <2>2. pc' # [pc EXCEPT ![b] = "stat"]
    BY <1>1 DEF TypeInv, TypeOK, CutShort, Forget
  <2>3. QED
    BY <1>1, <2>1, <2>2, HistoryCut DEF DumpHistory
<1>2. CASE ~CutShort(b)
  <2>1. /\ \A o \in Slots : pc'[o] = "dump" <=> pc[o] = "dump" /\ o # b
        /\ pc[b] = "dump" /\ text' \in AfterDump(b) /\ hist' = Found(mine[b]) /\ saved' = mine[b]
        /\ deaths' = deaths /\ noFile' = noFile /\ raced' = raced
    BY <1>2 DEF TypeInv, TypeOK, DumpHistory
  <2>2. "history" \notin raced => text' = "whole" /\ \A o \in Slots : pc'[o] # "dump"
    BY <2>1 DEF HistoryInv, DumpAlone, AfterDump
  <2>3. DumpAlone'
    BY <2>1, <2>2 DEF DumpAlone
  <2>4. HistoryOnDisk'
    BY <2>1, <2>2 DEF HistoryOnDisk, Torn, Found
  <2>5. DeathsExplained'
    BY <2>1 DEF HistoryInv, DeathsExplained
  <2>6. QED
    BY <2>3, <2>4, <2>5 DEF HistoryInv
<1>3. QED
  BY <1>1, <1>2

LEMMA HistoryStartOnTorn ==
  ASSUME TypeInv, HistoryInv, NEW b \in Slots, StartOnTornHistory(b)
  PROVE  HistoryInv'
<1>1. /\ Torn /\ deaths' = deaths \cup {"torn"}
      /\ raced' = raced \cup RaceAt("dump", "history")
      /\ UNCHANGED <<hist, text, saved, noFile, pc>>
  BY DEF StartOnTornHistory, fileVars, batchVars
<1>2. "cut" \in deaths \/ "history" \in raced'
  BY <1>1 DEF HistoryInv, HistoryOnDisk, RaceAt
<1>3. DumpAlone' /\ HistoryOnDisk'
  BY <1>1, <1>2 DEF HistoryInv, DumpAlone, HistoryOnDisk, Torn
<1>4. DeathsExplained'
  BY <1>1, <1>2 DEF HistoryInv, DeathsExplained
<1>5. QED
  BY <1>3, <1>4 DEF HistoryInv

LEMMA HistoryStep == TypeInv /\ BackInv /\ HistoryInv /\ [Next]_vars => HistoryInv'
<1> SUFFICES ASSUME TypeInv, BackInv, HistoryInv, [Next]_vars PROVE HistoryInv'
  OBVIOUS
<1>1. ASSUME NEW b \in Slots, AtCalls(b) PROVE HistoryInv'
  <2>1. \A o \in Slots : pc'[o] = "dump" <=> pc[o] = "dump"
    BY <1>1, CallsLeave
  <2>2. "missing" \in deaths' => noFile' # {}
    BY <1>1, CallsDeaths DEF HistoryInv, DeathsExplained
  <2>3. UNCHANGED <<hist, text, saved, raced>>
    BY <1>1, CallsLeave
  <2>4. deaths' \in {deaths, deaths \cup {"missing"}}
    BY <1>1, CallsDeaths
  <2>5. QED
    BY <2>1, <2>2, <2>3, <2>4, HistoryElsewhere
<1>2. ASSUME NEW b \in Slots, StartBatch(b) \/ ReadTotal(b) \/ AddTotal(b) PROVE HistoryInv'
  <2>1. \A o \in Slots : pc'[o] = "dump" <=> pc[o] = "dump"
    BY <1>2 DEF TypeInv, TypeOK, StartBatch, ReadTotal, AddTotal, Forget
  <2>2. "history" \in raced' <=> "history" \in raced
    BY <1>2 DEF StartBatch, ReadTotal, AddTotal, RaceAt
  <2>3. UNCHANGED <<hist, text, saved, deaths, noFile>>
    BY <1>2 DEF StartBatch, ReadTotal, AddTotal, fileVars
  <2>4. QED
    BY <2>1, <2>2, <2>3, HistoryElsewhere DEF HistoryInv, DeathsExplained
<1>3. ASSUME NEW b \in Slots, Kill(b) PROVE HistoryInv'
  <2>1. CASE pc[b] = "dump"
    BY <1>3, <2>1, HistoryCut DEF Kill
  <2>2. CASE pc[b] # "dump"
    <3>1. \A o \in Slots : pc'[o] = "dump" <=> pc[o] = "dump"
      BY <1>3, <2>2 DEF TypeInv, TypeOK, Kill, Forget
    <3>2. UNCHANGED <<hist, text, saved, deaths, noFile, raced>>
      BY <1>3, <2>2 DEF Kill
    <3>3. QED
      BY <3>1, <3>2, HistoryElsewhere DEF HistoryInv, DeathsExplained
  <2>3. QED
    BY <2>1, <2>2
<1>4. CASE UNCHANGED vars
  BY <1>4, HistoryElsewhere DEF HistoryInv, DeathsExplained, vars, fileVars, batchVars,
     ghostVars
<1>5. QED
  BY <1>1, <1>2, <1>3, <1>4, HistoryOpen, HistoryDump, HistoryStartOnTorn
     DEF Next, BatchStep, AtCalls

----------------------------------------------------------------------------
(* What a batch knows of what is saved.                                     *)

\* The steps that neither save nor load, nor change the copy of a batch that goes on.
LEMMA KnowElsewhere ==
  ASSUME KnowInv, UNCHANGED <<saved, missed>>,
         \A o \in Slots : Live(o)' => Live(o) /\ mine'[o] = mine[o]
  PROVE  KnowInv'
BY DEF KnowInv, KnowsSaved

LEMMA KnowEnds ==
  ASSUME TypeInv, KnowInv, NEW b \in Slots, Forget(b), UNCHANGED <<saved, missed>>
  PROVE  KnowInv'
<1>1. \A o \in Slots : Live(o)' => Live(o) /\ mine'[o] = mine[o]
  BY DEF TypeInv, TypeOK, Forget, Live
<1>2. QED
  BY <1>1, KnowElsewhere

LEMMA KnowRecord ==
  ASSUME TypeInv, KnowInv, NEW b \in Slots, NEW c \in Calls, Record(b, c)
  PROVE  KnowInv'
<1>1. /\ saved \in Histories /\ mine \in [Slots -> Histories] /\ resp[b] \in Names
      /\ mine[b] \in Histories /\ mine[b][c] \in Seq(Names)
  BY DEF TypeInv, TypeOK, AtWork, Histories, Record
<1>2. mine'[b] = mine[b] \/ mine'[b] = [mine[b] EXCEPT ![c] = Append(@, resp[b])]
  BY <1>1 DEF Record
<1>3. /\ Live(b) /\ UNCHANGED <<saved, missed>>
      /\ \A o \in Slots \ {b} : pc'[o] = pc[o] /\ mine'[o] = mine[o]
  BY <1>1 DEF TypeInv, TypeOK, Live, Record, ghostVars
<1>4. ASSUME NEW d \in Calls, IsPrefix(saved[d], mine[b][d])
      PROVE  IsPrefix(saved[d], mine'[b][d])
  <2>1. \/ mine'[b][d] = mine[b][d]
        \/ d = c /\ mine'[b][d] = Append(mine[b][d], resp[b])
    BY <1>1, <1>2 DEF Histories
  <2>2. saved[d] \in Seq(Names) /\ mine[b][d] \in Seq(Names)
    BY <1>1 DEF Histories
  <2>3. QED
    BY <1>1, <1>4, <2>1, <2>2, PrefixAppend
<1>5. QED
  BY <1>3, <1>4 DEF KnowInv, KnowsSaved, Live

\* What a batch loads is what was saved last.
LEMMA KnowLoad ==
  ASSUME TypeInv, HistoryInv, KnowInv, NEW b \in Slots, StartBatch(b)
  PROVE  KnowInv'
<1>1. hist = saved
  BY DEF StartBatch, HistoryInv, HistoryOnDisk
<1>2. /\ mine'[b] = saved /\ missed' = missed \ {b} /\ saved' = saved
      /\ \A o \in Slots \ {b} : pc'[o] = pc[o] /\ mine'[o] = mine[o]
  BY <1>1 DEF TypeInv, TypeOK, StartBatch, LoadedHistory
<1>3. \A c \in Calls : IsPrefix(saved[c], saved[c])
  BY PrefixItself DEF TypeInv, TypeOK, Histories
<1>4. QED
  BY <1>2, <1>3 DEF KnowInv, KnowsSaved, Live

\* All that are alive miss a save, but the one whose copy it is.
LEMMA KnowSave ==
  ASSUME TypeInv, KnowInv, NEW b \in Slots, DumpHistory(b)
  PROVE  KnowInv'
<1>1. CASE CutShort(b) /\ UNCHANGED <<saved, missed>>
  BY <1>1, KnowEnds DEF CutShort
<1>2. CASE /\ saved' = mine[b] /\ mine' = mine
           /\ missed' = missed \cup {o \in Slots \ {b} : Live(o)}
           /\ pc' = [pc EXCEPT ![b] = "stat"]
  <2>1. \A c \in Calls : IsPrefix(mine[b][c], mine[b][c])
    BY PrefixItself DEF TypeInv, TypeOK, Histories
  <2>2. \A o \in Slots \ {b} : Live(o)' => o \in missed'
    BY <1>2 DEF TypeInv, TypeOK, Live
  <2>3. QED
    BY <1>2, <2>1, <2>2 DEF KnowInv, KnowsSaved
<1>3. QED
  BY <1>1, <1>2 DEF DumpHistory

LEMMA KnowStep == TypeInv /\ HistoryInv /\ KnowInv /\ [Next]_vars => KnowInv'
<1> SUFFICES ASSUME TypeInv, HistoryInv, KnowInv, [Next]_vars PROVE KnowInv'
  OBVIOUS
<1>1. ASSUME NEW b \in Slots, AtCalls(b) PROVE KnowInv'
  <2>1. CASE mine' = mine
    <3>1. \A o \in Slots : Live(o)' => Live(o)
      BY <1>1, CallsLeave DEF Live
    <3>2. QED
      BY <1>1, <2>1, <3>1, CallsLeave, KnowElsewhere
  <2>2. CASE \E c \in Calls : PreviousMissing(b, c)
    BY <2>2, KnowEnds DEF PreviousMissing
  <2>3. CASE \E c \in Calls : Record(b, c)
    BY <2>3, KnowRecord
  <2>4. QED
    BY <1>1, <2>1, <2>2, <2>3 DEF AtCalls, Skip, Attempt, NewAnswer, SameAnswer, QueryFails,
       FillFile, Count
<1>2. ASSUME NEW b \in Slots, OpenHistory(b) PROVE KnowInv'
  <2>1. CASE Forget(b)
    BY <1>2, <2>1, KnowEnds DEF OpenHistory
  <2>2. CASE mine' = mine /\ pc' = [pc EXCEPT ![b] = "dump"]
    <3>1. \A o \in Slots : Live(o)' => Live(o)
      BY <1>2, <2>2 DEF TypeInv, TypeOK, OpenHistory, Live
    <3>2. QED
      BY <1>2, <2>2, <3>1, KnowElsewhere DEF OpenHistory
  <2>3. QED
    BY <1>2, <2>1, <2>2 DEF OpenHistory
<1>3. ASSUME NEW b \in Slots, ReadTotal(b) PROVE KnowInv'
  <2>1. \A o \in Slots : Live(o)' => Live(o)
    BY <1>3 DEF TypeInv, TypeOK, ReadTotal, Live
  <2>2. QED
    BY <1>3, <2>1, KnowElsewhere DEF ReadTotal
<1>4. ASSUME NEW b \in Slots, AddTotal(b) \/ Kill(b) PROVE KnowInv'
  BY <1>4, KnowEnds DEF AddTotal, Kill, CutShort
<1>5. ASSUME NEW b \in Slots, StartOnTornHistory(b) PROVE KnowInv'
  BY <1>5, KnowElsewhere DEF StartOnTornHistory, batchVars, Live
<1>6. CASE UNCHANGED vars
  BY <1>6, KnowElsewhere DEF vars, batchVars, ghostVars, Live
<1>7. QED
  BY <1>1, <1>2, <1>3, <1>4, <1>5, <1>6, KnowLoad, KnowSave DEF Next, BatchStep, AtCalls

----------------------------------------------------------------------------
(* The counter.                                                             *)

\* The steps that leave the counter and those who have read it alone.
LEMMA CountElsewhere ==
  ASSUME CountInv, UNCHANGED <<total, spent>>,
         "total" \in raced' <=> "total" \in raced,
         \A o \in Slots : pc'[o] = "add" => pc[o] = "add" /\ tmp'[o] = tmp[o]
  PROVE  CountInv'
BY DEF CountInv, TotalExact

LEMMA CountRead ==
  ASSUME TypeInv, CountInv, NEW b \in Slots, ReadTotal(b)
  PROVE  CountInv'
<1>1. /\ tmp'[b] = total /\ UNCHANGED <<total, spent>>
      /\ raced' = raced \cup RaceAt("add", "total")
      /\ \A o \in Slots \ {b} : pc'[o] = pc[o] /\ tmp'[o] = tmp[o]
  BY DEF TypeInv, TypeOK, ReadTotal, fileVars
<1>2. "total" \notin raced' => "total" \notin raced /\ \A o \in Slots : pc[o] # "add"
  BY <1>1 DEF RaceAt
<1>3. QED
  BY <1>1, <1>2 DEF CountInv, TotalExact

LEMMA CountAdd ==
  ASSUME TypeInv, CountInv, NEW b \in Slots, AddTotal(b)
  PROVE  CountInv'
<1>1. /\ pc[b] = "add" /\ pc'[b] = "idle"
      /\ total' = tmp[b] + cnt[b] /\ spent' = spent + cnt[b] /\ raced' = raced
      /\ \A o \in Slots \ {b} : pc'[o] = pc[o] /\ tmp'[o] = tmp[o]
  BY DEF TypeInv, TypeOK, AddTotal, NewTotal, Forget
<1>2. /\ total \in Nat /\ spent \in Nat /\ cnt[b] \in Nat
      /\ \A o \in Slots : tmp[o] \in Nat
  BY DEF TypeInv, TypeOK
<1>3. TotalExact'
  BY <1>1, <1>2 DEF CountInv, TotalExact
<1>4. \A o \in Slots : pc'[o] = "add" => tmp'[o] <= spent'
  BY <1>1, <1>2 DEF CountInv
<1>5. "total" \notin raced => \A o \in Slots : pc'[o] # "add"
  BY <1>1 DEF CountInv
<1>6. QED
  BY <1>1, <1>3, <1>4, <1>5 DEF CountInv

LEMMA CountStep == TypeInv /\ CountInv /\ [Next]_vars => CountInv'
<1> SUFFICES ASSUME TypeInv, CountInv, [Next]_vars PROVE CountInv'
  OBVIOUS
<1>1. ASSUME NEW b \in Slots, AtCalls(b) PROVE CountInv'
  BY <1>1, CallsLeave, CountElsewhere
<1>2. ASSUME NEW b \in Slots,
             StartBatch(b) \/ StartOnTornHistory(b) \/ OpenHistory(b) \/ DumpHistory(b) \/ Kill(b)
      PROVE  CountInv'
  <2>1. \A o \in Slots : pc'[o] = "add" => pc[o] = "add" /\ tmp'[o] = tmp[o]
    BY <1>2 DEF TypeInv, TypeOK, StartBatch, StartOnTornHistory, OpenHistory, DumpHistory,
       Kill, CutShort, Forget, batchVars
  <2>2. "total" \in raced' <=> "total" \in raced
    BY <1>2 DEF StartBatch, StartOnTornHistory, OpenHistory, DumpHistory, Kill, RaceAt
  <2>3. UNCHANGED <<total, spent>>
    BY <1>2 DEF StartBatch, StartOnTornHistory, OpenHistory, DumpHistory, Kill, fileVars
  <2>4. QED
    BY <2>1, <2>2, <2>3, CountElsewhere
<1>3. CASE UNCHANGED vars
  BY <1>3, CountElsewhere DEF vars, fileVars, batchVars, ghostVars
<1>4. QED
  BY <1>1, <1>2, <1>3, CountRead, CountAdd DEF Next, BatchStep, AtCalls

LEMMA EndHolds == Spec => [](TypeInv /\ BackInv /\ EndInv)
<1>1. Init => TypeInv /\ BackInv /\ EndInv
  BY TypeInit, BackInit, EndInit
<1>2. TypeInv /\ BackInv /\ EndInv /\ [Next]_vars => (TypeInv /\ BackInv /\ EndInv)'
  BY TypeStep, BackStep, HistoryStep, KnowStep, CountStep DEF EndInv
<1>3. QED
  BY <1>1, <1>2, PTL DEF Spec

\* No batch dies of a missing program unless an open of one failed, nor of an unreadable
\* history unless a batch was killed or failed between the truncation and the end of its
\* dump, or two were at the file together (syzgpt_generator.py:93-97, 110-114, 174-175).
THEOREM DeathsHaveCauses == Spec => []DeathsExplained
BY EndHolds, PTL DEF EndInv, HistoryInv

\* The counter never counts too much, and exactly as long as no two batches were at its +=,
\* a read and a write, at once (syzgpt_generator.py:181).
THEOREM TotalCounted == Spec => []TotalExact
BY EndHolds, PTL DEF EndInv, CountInv

\* The file can be read, and then holds what was saved last, unless a batch is at it, was
\* cut short there or raced with another; and no save drops what the batch could have known
\* of the one before (syzgpt_generator.py:92-97, 174-175).
THEOREM HistoryLossExplained == Spec => HistoryKept
<1>1. ASSUME TypeInv, KnowInv, [Next]_vars, NEW b \in Slots \ missed PROVE SaveExtends(b)
  <2>1. ASSUME pc[b] = "dump", pc'[b] = "stat" PROVE saved' = mine[b]
    <3>1. ~UNCHANGED vars
      BY <2>1 DEF vars, batchVars
    <3>2. PICK a \in Slots : StartBatch(a) \/ StartOnTornHistory(a) \/ BatchStep(a) \/ Kill(a)
      BY <1>1, <3>1 DEF Next
    <3>3. DumpHistory(b) /\ ~Forget(b)
      <4>1. ~AtCalls(a)
        BY <1>1, <2>1, CallsLeave
      <4>2. DumpHistory(a)
        <5>1. ASSUME StartBatch(a) \/ StartOnTornHistory(a) \/ OpenHistory(a)
                       \/ ReadTotal(a) \/ AddTotal(a) \/ Kill(a)
              PROVE  pc'[b] # "stat" \/ pc'[b] = pc[b]
          BY <1>1, <5>1 DEF TypeInv, TypeOK, StartBatch, StartOnTornHistory, OpenHistory,
             ReadTotal, AddTotal, Kill, CutShort, Forget, batchVars
        <5>2. QED
          BY <2>1, <3>2, <4>1, <5>1 DEF BatchStep, AtCalls
      <4>3. QED
        BY <1>1, <2>1, <4>2 DEF TypeInv, TypeOK, DumpHistory, CutShort, Forget
    <3>4. QED
      BY <3>3 DEF DumpHistory, CutShort
  <2>2. QED
    BY <1>1, <2>1 DEF SaveExtends, KnowInv, KnowsSaved, Live
<1>2. TypeInv /\ BackInv /\ EndInv /\ [Next]_vars
        => [HistoryOnDisk' /\ \A b \in Slots \ missed : SaveExtends(b)]_vars
  BY <1>1, HistoryStep DEF EndInv, HistoryInv
<1>3. QED
  BY <1>2, EndHolds, PTL DEF Spec, HistoryKept

----------------------------------------------------------------------------
(* The end of a batch.  AtWork says what a batch that serves a syscall has left *)
(* to take from its list.                                                      *)

Untouched(b) == UNCHANGED <<pc[b], todo[b], mine[b], seen[b], resp[b], cnt[b], tmp[b]>>

LEMMA TailShorter ==
  ASSUME NEW s \in Seq(Calls), s # <<>>
  PROVE  Len(Tail(s)) < Len(s) /\ Len(<<>>) < Len(s)
OBVIOUS

\* A batch that dies or is killed drops its list.
LEMMA ForgetNears ==
  ASSUME TypeInv, NEW b \in Slots, Live(b), Forget(b)
  PROVE  EndNearer(b)
<1>1. todo[b] \in Seq(Calls) /\ pc[b] \in PCs \ {"idle"}
  BY DEF TypeInv, TypeOK, Live
<1>2. pc'[b] = "idle" /\ todo'[b] = <<>>
  BY DEF TypeInv, TypeOK, Forget
<1>3. Rank[pc'[b]] < Rank[pc[b]]
  BY <1>1, <1>2 DEF Rank, PCs
<1>4. Len(todo'[b]) < Len(todo[b]) \/ Len(todo'[b]) = Len(todo[b])
  BY <1>1, <1>2, TailShorter
<1>5. QED
  BY <1>3, <1>4 DEF EndNearer

\* The steps of a turn of the loop, and those that save.
LEMMA OwnStepNears ==
  ASSUME TypeInv, NEW b \in Slots, BatchStep(b)
  PROVE  EndNearer(b)
<1>1. /\ pc \in [Slots -> PCs] /\ todo \in [Slots -> Seq(Calls)]
      /\ todo[b] \in Seq(Calls)
  BY DEF TypeInv, TypeOK
<1>2. ASSUME NEW c \in Calls, Skip(b, c) PROVE EndNearer(b)
  BY <1>1, <1>2, TailShorter DEF Skip, Serving, EndNearer
<1>3. ASSUME NEW c \in Calls, Attempt(b, c) PROVE EndNearer(b)
  BY <1>1, <1>3 DEF Attempt, Serving, EndNearer, Rank
<1>4. ASSUME NEW c \in Calls, PreviousMissing(b, c) PROVE EndNearer(b)
  BY <1>4, ForgetNears DEF PreviousMissing, Serving, Live
<1>5. ASSUME NEW c \in Calls, Record(b, c) PROVE EndNearer(b)
  BY <1>1, <1>5 DEF Record, EndNearer, Rank
<1>6. ASSUME NEW n \in Names, NewAnswer(b, n) PROVE EndNearer(b)
  BY <1>1, <1>6 DEF NewAnswer, OpenProgram, EndNearer, Rank
<1>7. ASSUME NEW n \in Names, SameAnswer(b, n) PROVE EndNearer(b)
  BY <1>1, <1>7 DEF SameAnswer, EndNearer, Rank
<1>8. CASE QueryFails(b)
  BY <1>1, <1>8 DEF QueryFails, EndNearer, Rank
<1>9. CASE FillFile(b)
  BY <1>1, <1>9 DEF FillFile, EndNearer, Rank
<1>10. CASE Count(b)
  <2>1. todo[b] # <<>>
    BY <1>10 DEF Count, TypeInv, AtWork
  <2>2. todo'[b] = <<>> \/ todo'[b] = Tail(todo[b])
    BY <1>1, <1>10 DEF Count
  <2>3. QED
    BY <1>1, <2>1, <2>2, TailShorter DEF EndNearer
<1>11. CASE OpenHistory(b)
  <2>1. CASE Forget(b)
    BY <1>11, <2>1, ForgetNears DEF OpenHistory, Live
  <2>2. CASE pc' = [pc EXCEPT ![b] = "dump"] /\ UNCHANGED todo
    BY <1>1, <1>11, <2>2 DEF OpenHistory, EndNearer, Rank
  <2>3. QED
    BY <1>11, <2>1, <2>2 DEF OpenHistory
<1>12. CASE DumpHistory(b)
  <2>1. CASE Forget(b)
    BY <1>12, <2>1, ForgetNears DEF DumpHistory, Live
  <2>2. CASE pc' = [pc EXCEPT ![b] = "stat"] /\ UNCHANGED todo
    BY <1>1, <1>12, <2>2 DEF DumpHistory, EndNearer, Rank
  <2>3. QED
    BY <1>12, <2>1, <2>2 DEF DumpHistory, CutShort
<1>13. CASE ReadTotal(b)
  BY <1>1, <1>13 DEF ReadTotal, EndNearer, Rank
<1>14. CASE AddTotal(b)
  BY <1>14, ForgetNears DEF AddTotal, Live
<1>15. QED
  BY <1>2, <1>3, <1>4, <1>5, <1>6, <1>7, <1>8, <1>9, <1>10, <1>11, <1>12, <1>13, <1>14
     DEF BatchStep

\* No batch writes the memory of another.
LEMMA OtherUntouched ==
  ASSUME TypeInv, NEW b \in Slots, NEW o \in Slots \ {b},
         StartBatch(b) \/ StartOnTornHistory(b) \/ BatchStep(b) \/ Kill(b)
  PROVE  Untouched(o)
<1> USE DEF TypeInv, TypeOK, Untouched
<1>1. CASE StartBatch(b)
  BY <1>1 DEF StartBatch
<1>2. CASE StartOnTornHistory(b)
  BY <1>2 DEF StartOnTornHistory, batchVars
<1>3. CASE Kill(b)
  BY <1>3 DEF Kill, CutShort, Forget
<1>4. ASSUME NEW c \in Calls, Skip(b, c) \/ Attempt(b, c) \/ Record(b, c) PROVE Untouched(o)
  BY <1>4 DEF Skip, Attempt, Record
<1>5. ASSUME NEW c \in Calls, PreviousMissing(b, c) PROVE Untouched(o)
  BY <1>5 DEF PreviousMissing, Forget
<1>6. ASSUME NEW n \in Names, NewAnswer(b, n) PROVE Untouched(o)
  BY <1>6 DEF NewAnswer, OpenProgram
<1>7. ASSUME NEW n \in Names, SameAnswer(b, n) PROVE Untouched(o)
  BY <1>7 DEF SameAnswer
<1>8. CASE QueryFails(b) \/ FillFile(b) \/ Count(b)
  BY <1>8 DEF QueryFails, FillFile, Count
<1>9. CASE OpenHistory(b) \/ DumpHistory(b) \/ ReadTotal(b)
  BY <1>9 DEF OpenHistory, DumpHistory, CutShort, Forget, ReadTotal
<1>10. CASE AddTotal(b)
  BY <1>10 DEF AddTotal, Forget
<1>11. QED
  BY <1>1, <1>2, <1>3, <1>4, <1>5, <1>6, <1>7, <1>8, <1>9, <1>10 DEF BatchStep

\* A live batch only ever comes nearer to its end, whatever fails and however many batches
\* overlap: a fair scheduler is all that BatchesEnd needs (syzgpt_generator.py:87-183).
THEOREM EveryStepNears == Spec => BatchNears
<1>1. ASSUME TypeInv, Next, NEW b \in Slots, Live(b)
      PROVE  EndNearer(b) \/ Untouched(b)
  <2>1. PICK a \in Slots : StartBatch(a) \/ StartOnTornHistory(a) \/ BatchStep(a) \/ Kill(a)
    BY <1>1 DEF Next
  <2>2. CASE a = b
    <3>1. ~StartBatch(b) /\ ~StartOnTornHistory(b)
      BY <1>1 DEF StartBatch, StartOnTornHistory, Live
    <3>2. CASE Kill(b)
      BY <1>1, <3>2, ForgetNears DEF Kill, CutShort
    <3>3. QED
      BY <1>1, <2>1, <2>2, <3>1, <3>2, OwnStepNears
  <2>3. CASE a # b
    BY <1>1, <2>1, <2>3, OtherUntouched
  <2>4. QED
    BY <2>2, <2>3
<1>2. TypeInv /\ [Next]_vars
        => [\A b \in Slots : Live(b) =>
              \/ EndNearer(b)
              \/ UNCHANGED <<pc[b], todo[b], mine[b], seen[b], resp[b], cnt[b], tmp[b]>>]_vars
  BY <1>1 DEF Untouched
<1>3. QED
  BY <1>2, TypeCorrect, PTL DEF Spec, BatchNears
=============================================================================
