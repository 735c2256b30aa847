--------------------------- MODULE SeedGeneration ---------------------------
(***************************************************************************)
(* batch_generate_program of syzgpt_generator.py: the processes that turn   *)
(* target syscalls into seed files.                                         *)
(*                                                                          *)
(* Every round of the main loop starts one more process and never joins it, *)
(* so several batches may be alive at once (Slots).  Each loads             *)
(* generation_history.json when it starts, works on its own copy and writes *)
(* the copy back as its last act.  The seed files are written in between,   *)
(* one by one.  Batches die on what the code does not catch, are killed     *)
(* with the generator, and meet failing file operations.                    *)
(***************************************************************************)
EXTENDS Naturals, SequencesExt

CONSTANTS
  Calls,        \* target syscalls
  Names,        \* hashes of the answers the model can give
  Slots,        \* batch processes that may be alive together
  Targets,      \* lists of syscalls a batch can be given (order, repetitions)
  RegenProb,    \* -P: probability (percent) of generating again
  MaxGen,       \* -m: most generations of one batch, 0 for no limit
  MaxRounds,    \* bound: batches ever started
  MaxFaults,    \* bound: failing file operations
  MaxKills,     \* bound: batches killed from outside
  None          \* no answer yet

ASSUME RegenAssumption  == RegenProb \in 0 .. 100
ASSUME BoundAssumption  == MaxGen \in Nat /\ MaxRounds \in Nat
                             /\ MaxFaults \in Nat /\ MaxKills \in Nat
ASSUME TargetAssumption == Targets \subseteq Seq(Calls)
ASSUME NoneAssumption   == None \notin Names

VARIABLES
  hist,         \* generation_history.json: the attempts a reader finds per syscall
  text,         \* its text: "whole" (or no file yet), "empty" (truncated) or "part"
  seed,         \* WORKDIR/generated_corpus
  prompts,      \* WORKDIR/query_prompts: files <hash>_<count>
  total,        \* shared_stats['total_gen_cnt']
  pc,           \* where each batch is; "idle" is no process
  todo,         \* rest of the batch's syscall list; its head is being served
  mine,         \* the batch's copy of the history
  seen,         \* hash_fn_cnt: times this batch has met an answer
  resp,         \* name of the answer in hand
  cnt,          \* generations of this batch
  tmp,          \* total as read by the += of this batch
  rounds, faults, kills,                    \* bounds
  saved,        \* history: what the last dump that ran to its end wrote
  missed,       \* history: batches another one has dumped behind since they loaded
  raced,        \* history: what two batches have been at the same time
  noFile,       \* history: names whose open failed
  deaths,       \* history: why batches died
  spent         \* history: generations of the batches that reported

fileVars  == <<hist, text, seed, prompts, total>>
batchVars == <<pc, todo, mine, seen, resp, cnt, tmp>>
boundVars == <<rounds, faults, kills>>
ghostVars == <<saved, missed, raced, noFile, deaths, spent>>
vars      == <<fileVars, batchVars, boundVars, ghostVars>>

PCs == {"idle", "loop", "query", "fill", "prompt", "count", "dump", "stat", "add"}

NoHistory == [c \in Calls |-> <<>>]

\* Only a whole text is read by json.load: what is not leaves nothing of the attempts.
Texts    == {"whole", "empty", "part"}
Torn     == text # "whole"
Found(h) == IF text' = "whole" THEN h ELSE NoHistory

\* A syscall is given up once its list of attempts is this long.
AttemptLimit == 3

Live(b) == pc[b] # "idle"

\* prob(thres, m): the outcomes of randint(1, m) <= thres.
Prob(thres, m) == {r <= thres : r \in 1 .. m}

SkipDraws == Prob(100 - RegenProb, 100)

\* A batch turns to what another is still at: the history it dumps, the counter it adds to.
RaceAt(at, what) == IF \E o \in Slots : pc[o] = at THEN {what} ELSE {}

\* What a process that is gone leaves of its memory.
Forget(b) ==
  /\ pc'   = [pc   EXCEPT ![b] = "idle"]
  /\ todo' = [todo EXCEPT ![b] = <<>>]
  /\ mine' = [mine EXCEPT ![b] = NoHistory]
  /\ seen' = [seen EXCEPT ![b] = [n \in Names |-> 0]]
  /\ resp' = [resp EXCEPT ![b] = None]
  /\ cnt'  = [cnt  EXCEPT ![b] = 0]
  /\ tmp'  = [tmp  EXCEPT ![b] = 0]

Init ==
  /\ hist    = NoHistory
  /\ text    = "whole"
  /\ seed    = [n \in Names |-> "absent"]
  /\ prompts = {}
  /\ total   = 0
  /\ pc   = [b \in Slots |-> "idle"]
  /\ todo = [b \in Slots |-> <<>>]
  /\ mine = [b \in Slots |-> NoHistory]
  /\ seen = [b \in Slots |-> [n \in Names |-> 0]]
  /\ resp = [b \in Slots |-> None]
  /\ cnt  = [b \in Slots |-> 0]
  /\ tmp  = [b \in Slots |-> 0]
  /\ rounds = 0 /\ faults = 0 /\ kills = 0
  /\ saved = NoHistory /\ missed = {} /\ raced = {}
  /\ noFile = {} /\ deaths = {} /\ spent = 0

----------------------------------------------------------------------------
(* The process starts: its history is a copy of the file, its hash_fn_cnt   *)
(* the empty dictionary of the parent.                                      *)

\* a batch that begins with no history, whatever the file says
MutLoadedHistory == NoHistory

LoadedHistory == hist

StartBatch(b) ==
  /\ pc[b] = "idle" /\ rounds < MaxRounds /\ ~Torn
  /\ \E list \in Targets : todo' = [todo EXCEPT ![b] = list]
  /\ pc'   = [pc   EXCEPT ![b] = "loop"]
  /\ mine' = [mine EXCEPT ![b] = LoadedHistory]
  /\ rounds' = rounds + 1
  /\ missed' = missed \ {b}
  /\ UNCHANGED <<fileVars, seen, resp, cnt, tmp, faults, kills, saved, raced, noFile,
                 deaths, spent>>

\* json.load of a truncated or garbled history is not caught.
StartOnTornHistory(b) ==
  /\ pc[b] = "idle" /\ rounds < MaxRounds /\ Torn
  /\ rounds' = rounds + 1
  /\ deaths' = deaths \cup {"torn"}
  /\ raced'  = raced \cup RaceAt("dump", "history")
  /\ UNCHANGED <<fileVars, batchVars, faults, kills, saved, missed, noFile, spent>>

----------------------------------------------------------------------------
(* One turn of the loop over the syscalls.                                  *)

Serving(b, c) == pc[b] = "loop" /\ todo[b] # <<>> /\ c = Head(todo[b])

Tried(b, c) == mine[b][c] # <<>>

\* off by one: the limit is exceeded before the syscall is given up
MutExhausted(b, c) == Len(mine[b][c]) > AttemptLimit

Exhausted(b, c) == Len(mine[b][c]) >= AttemptLimit

\* read_prog of every earlier attempt
PrevReadable(b, c) ==
  \A i \in 1 .. Len(mine[b][c]) : seed[mine[b][c][i]] # "absent"

Skip(b, c) ==
  /\ Serving(b, c) /\ Tried(b, c)
  /\ TRUE \in SkipDraws \/ Exhausted(b, c)
  /\ todo' = [todo EXCEPT ![b] = Tail(@)]
  /\ UNCHANGED <<fileVars, pc, mine, seen, resp, cnt, tmp, boundVars, ghostVars>>

Attempt(b, c) ==
  /\ Serving(b, c)
  /\ Tried(b, c) => FALSE \in SkipDraws /\ ~Exhausted(b, c) /\ PrevReadable(b, c)
  /\ pc' = [pc EXCEPT ![b] = "query"]
  /\ UNCHANGED <<fileVars, todo, mine, seen, resp, cnt, tmp, boundVars, ghostVars>>

\* The FileNotFoundError of read_prog is outside the try: the process ends and
\* with it every attempt it has not saved.
PreviousMissing(b, c) ==
  /\ Serving(b, c) /\ Tried(b, c)
  /\ FALSE \in SkipDraws /\ ~Exhausted(b, c) /\ ~PrevReadable(b, c)
  /\ Forget(b)
  /\ deaths' = deaths \cup {"missing"}
  /\ UNCHANGED <<fileVars, boundVars, saved, missed, raced, noFile, spent>>

\* a failed query starts the same syscall over instead of counting it
MutQueryFails(b) ==
  /\ pc[b] = "query"
  /\ pc' = [pc EXCEPT ![b] = "loop"]
  /\ UNCHANGED <<fileVars, todo, mine, seen, resp, cnt, tmp, boundVars, ghostVars>>

\* The query, or what prepares it, raises: logged, and counted like a success.
QueryFails(b) ==
  /\ pc[b] = "query"
  /\ pc' = [pc EXCEPT ![b] = "count"]
  /\ UNCHANGED <<fileVars, todo, mine, seen, resp, cnt, tmp, boundVars, ghostVars>>

\* an answer no program can be extracted from is not saved, yet recorded
MutOpenProgram(b, n) ==
  /\ pc' = [pc EXCEPT ![b] = "prompt"]
  /\ UNCHANGED seed

\* an earlier file of this name is removed first and opened with the flush
MutUnlinkProgram(b, n) ==
  /\ seed' = [seed EXCEPT ![n] = "absent"]
  /\ pc' = [pc EXCEPT ![b] = "fill"]

OpenProgram(b, n) ==
  /\ seed' = [seed EXCEPT ![n] = "empty"]
  /\ pc' = [pc EXCEPT ![b] = "fill"]

\* hash_fn_cnt[hash_fn] = 1 comes before extract_programs opens the file.
NewAnswer(b, n) ==
  /\ pc[b] = "query" /\ seen[b][n] = 0
  /\ resp'  = [resp EXCEPT ![b] = n]
  /\ seen'  = [seen EXCEPT ![b][n] = 1]
  /\ \/ /\ OpenProgram(b, n)
        /\ UNCHANGED <<faults, noFile>>
     \/ /\ faults < MaxFaults                      \* the open raises
        /\ faults' = faults + 1
        /\ noFile' = noFile \cup {n}
        /\ pc' = [pc EXCEPT ![b] = "count"]
        /\ UNCHANGED seed
  /\ UNCHANGED <<hist, text, prompts, total, todo, mine, cnt, tmp, rounds, kills,
                 saved, missed, raced, deaths, spent>>

\* The answer is one this batch has met: no file is written.
SameAnswer(b, n) ==
  /\ pc[b] = "query" /\ seen[b][n] > 0
  /\ resp'  = [resp EXCEPT ![b] = n]
  /\ seen'  = [seen EXCEPT ![b][n] = @ + 1]
  /\ pc'    = [pc EXCEPT ![b] = "prompt"]
  /\ UNCHANGED <<fileVars, todo, mine, cnt, tmp, boundVars, ghostVars>>

FillFile(b) ==
  /\ pc[b] = "fill"
  /\ \/ /\ seed' = [seed EXCEPT ![resp[b]] = "raw"]
        /\ pc' = [pc EXCEPT ![b] = "prompt"]
        /\ UNCHANGED faults
     \/ /\ faults < MaxFaults                      \* the flush raises
        /\ faults' = faults + 1
        /\ pc' = [pc EXCEPT ![b] = "count"]
        /\ UNCHANGED seed
  /\ UNCHANGED <<hist, text, prompts, total, todo, mine, seen, resp, cnt, tmp, rounds,
                 kills, ghostVars>>

\* The prompt is backed up, then the attempt recorded in the copy.
Record(b, c) ==
  /\ pc[b] = "prompt" /\ c = Head(todo[b])
  /\ pc' = [pc EXCEPT ![b] = "count"]
  /\ \/ /\ prompts' = prompts \cup {<<resp[b], seen[b][resp[b]]>>}
        /\ mine' = [mine EXCEPT ![b][c] = Append(@, resp[b])]
        /\ UNCHANGED faults
     \/ /\ faults < MaxFaults                      \* the backup raises
        /\ faults' = faults + 1
        /\ UNCHANGED <<prompts, mine>>
  /\ UNCHANGED <<hist, text, seed, total, todo, seen, resp, cnt, tmp, rounds, kills,
                 ghostVars>>

\* what is left of a budget, instead of what has been used
MutCounted(b) == cnt[b] - 1

Counted(b) == cnt[b] + 1

Count(b) ==
  /\ pc[b] = "count"
  /\ cnt'  = [cnt EXCEPT ![b] = Counted(b)]
  /\ todo' = [todo EXCEPT ![b] =
                IF MaxGen # 0 /\ Counted(b) >= MaxGen THEN <<>> ELSE Tail(@)]
  /\ resp' = [resp EXCEPT ![b] = None]
  /\ pc'   = [pc EXCEPT ![b] = "loop"]
  /\ UNCHANGED <<fileVars, mine, seen, tmp, boundVars, ghostVars>>

----------------------------------------------------------------------------
(* The end of the batch: the history is truncated, then dumped; the shared  *)
(* counter is read, then written.  Nothing here is inside a try: a batch    *)
(* that cannot open or write the history dies of it.                        *)

OpenHistory(b) ==
  /\ pc[b] = "loop" /\ todo[b] = <<>>
  /\ \/ /\ text' = "empty" /\ hist' = NoHistory
        /\ pc'   = [pc EXCEPT ![b] = "dump"]
        /\ raced' = raced \cup RaceAt("dump", "history")
        /\ UNCHANGED <<todo, mine, seen, resp, cnt, tmp, faults, deaths>>
     \/ /\ faults < MaxFaults                      \* the open raises: the file is as it was
        /\ faults' = faults + 1
        /\ deaths' = deaths \cup {"unsaved"}
        /\ Forget(b)
        /\ UNCHANGED <<hist, text, raced>>
  /\ UNCHANGED <<seed, prompts, total, rounds, kills, saved, missed, noFile, spent>>

\* an empty history is not dumped: the truncated file stays
MutAfterDump(b) ==
  IF mine[b] = NoHistory THEN {"empty"}
  ELSE IF text = "empty" THEN {"whole"} ELSE {"whole", "part"}

\* A file that is not empty any more holds what another batch has written since this
\* one truncated it: writing over it may leave the tail of the longer text.
AfterDump(b) == IF text = "empty" THEN {"whole"} ELSE {"whole", "part"}

\* A dump that ends before its end, by an error or with its process, has written
\* nothing or a part of its text.
CutShort(b) ==
  /\ text' \in {text, "part"}
  /\ hist' = Found(hist)
  /\ deaths' = deaths \cup {"cut"}
  /\ Forget(b)

DumpHistory(b) ==
  /\ pc[b] = "dump"
  /\ \/ /\ text' \in AfterDump(b)
        /\ hist'   = Found(mine[b])
        /\ saved'  = mine[b]
        /\ missed' = missed \cup {o \in Slots \ {b} : Live(o)}
        /\ pc'     = [pc EXCEPT ![b] = "stat"]
        /\ UNCHANGED <<todo, mine, seen, resp, cnt, tmp, faults, deaths>>
     \/ /\ faults < MaxFaults                      \* a write or the close raises
        /\ faults' = faults + 1
        /\ CutShort(b)
        /\ UNCHANGED <<saved, missed>>
  /\ UNCHANGED <<seed, prompts, total, rounds, kills, raced, noFile, spent>>

ReadTotal(b) ==
  /\ pc[b] = "stat"
  /\ tmp' = [tmp EXCEPT ![b] = total]
  /\ pc'  = [pc EXCEPT ![b] = "add"]
  /\ raced' = raced \cup RaceAt("add", "total")
  /\ UNCHANGED <<fileVars, todo, mine, seen, resp, cnt, boundVars, saved, missed, noFile,
                 deaths, spent>>

\* = in place of +=
MutNewTotal(b) == cnt[b]

NewTotal(b) == tmp[b] + cnt[b]

AddTotal(b) ==
  /\ pc[b] = "add"
  /\ total' = NewTotal(b)
  /\ spent' = spent + cnt[b]
  /\ Forget(b)
  /\ UNCHANGED <<hist, text, seed, prompts, boundVars, saved, missed, raced, noFile, deaths>>

\* Ctrl+C, the OOM killer, a reboot.
Kill(b) ==
  /\ Live(b) /\ kills < MaxKills
  /\ kills' = kills + 1
  /\ \/ pc[b] = "dump" /\ CutShort(b)
     \/ /\ pc[b] # "dump" /\ Forget(b)
        /\ UNCHANGED <<hist, text, deaths>>
  /\ UNCHANGED <<seed, prompts, total, rounds, faults, saved, missed, raced, noFile, spent>>

----------------------------------------------------------------------------
\* What a started batch does by itself.
BatchStep(b) ==
  \/ \E c \in Calls : Skip(b, c) \/ Attempt(b, c) \/ PreviousMissing(b, c) \/ Record(b, c)
  \/ \E n \in Names : NewAnswer(b, n) \/ SameAnswer(b, n)
  \/ QueryFails(b) \/ FillFile(b) \/ Count(b)
  \/ OpenHistory(b) \/ DumpHistory(b) \/ ReadTotal(b) \/ AddTotal(b)

Next ==
  \E b \in Slots :
    StartBatch(b) \/ StartOnTornHistory(b) \/ BatchStep(b) \/ Kill(b)

Spec == Init /\ [][Next]_vars

\* A process that the system schedules keeps going.
FairSpec == Spec /\ \A b \in Slots : WF_vars(BatchStep(b))

----------------------------------------------------------------------------
(* Properties.                                                              *)

Histories == [Calls -> Seq(Names)]

TypeOK ==
  /\ hist \in Histories /\ text \in Texts
  /\ seed \in [Names -> {"absent", "empty", "raw"}]
  /\ prompts \subseteq Names \X Nat /\ total \in Nat
  /\ pc \in [Slots -> PCs] /\ todo \in [Slots -> Seq(Calls)]
  /\ mine \in [Slots -> Histories] /\ seen \in [Slots -> [Names -> Nat]]
  /\ resp \in [Slots -> Names \cup {None}]
  /\ cnt \in [Slots -> Nat] /\ tmp \in [Slots -> Nat]
  /\ rounds \in Nat /\ faults \in Nat /\ kills \in Nat
  /\ saved \in Histories /\ missed \subseteq Slots
  /\ raced \subseteq {"history", "total"} /\ noFile \subseteq Names
  /\ deaths \subseteq {"torn", "missing", "unsaved", "cut"} /\ spent \in Nat

\* Whatever order batches load, extend and save their copies in, no history, on
\* disk or in a batch, ever holds more attempts of a syscall than the limit that
\* makes the generator give it up (syzgpt_generator.py:107).
AttemptsCapped ==
  \A c \in Calls :
    /\ Len(hist[c]) <= AttemptLimit
    /\ \A b \in Slots : Len(mine[b][c]) <= AttemptLimit

Recorded == (UNION {Range(hist[c]) : c \in Calls})
              \cup (UNION {Range(mine[b][c]) : b \in Slots, c \in Calls})

\* An attempt that is recorded can be shown to the model again: its seed file is
\* there, unless some open of that very file failed and a later equal answer was
\* taken for a duplicate of it (lines 143-150).
HistoryBacked == \A n \in Recorded : seed[n] # "absent" \/ n \in noFile

\* The deaths of a batch that meets the trace of another have a cause that lies earlier:
\* a missing previous program is the trace of a failed open of it; an unreadable history
\* that of a batch which ended, killed or by a failing write, between the truncation and
\* the end of its dump, or of two that were at the file together (lines 93-97, 174-175).
DeathsExplained ==
  /\ "missing" \in deaths => noFile # {}
  /\ "torn" \in deaths => "cut" \in deaths \/ "history" \in raced

HistoryOnDisk ==
  IF Torn THEN "cut" \in deaths \/ "history" \in raced \/ \E b \in Slots : pc[b] = "dump"
  ELSE hist = saved

SaveExtends(b) ==
  pc[b] = "dump" /\ pc'[b] = "stat" => \A c \in Calls : IsPrefix(saved[c], saved'[c])

\* What the file gives a reader is what the last dump wrote, or nothing: while a batch is
\* dumping, after one was cut short there, or after two dumped at once.  And no dump drops
\* an attempt of the one before, unless that one was made since this batch loaded the
\* history, so that it knows nothing of it (lines 92-97 and 174-175).
HistoryKept ==
  [][HistoryOnDisk' /\ \A b \in Slots \ missed : SaveExtends(b)]_vars

\* The shared counter never counts what was not generated, and counts all that was as long
\* as no batch has read it between the read and the write of another's += (line 181).
TotalExact == total <= spent /\ ("total" \notin raced => total = spent)

\* The detailed generator keeps the promise the fuzzer's side is built on.
Writer == INSTANCE SeedWriter
WriterRefined == Writer!WriterSpec

\* What BatchesEnd rests on, with no fairness: whatever a batch does, and whatever fails,
\* takes it nearer to its end. It has fewer syscalls left, or is further with the one at
\* hand, or with what it has to save; the others leave it where it is.
Rank == [loop |-> 5, query |-> 4, fill |-> 3, prompt |-> 2, count |-> 1,
         dump |-> 3, stat |-> 2, add |-> 1, idle |-> 0]
EndNearer(b) ==
  \/ Len(todo'[b]) < Len(todo[b])
  \/ Len(todo'[b]) = Len(todo[b]) /\ Rank[pc'[b]] < Rank[pc[b]]
BatchNears ==
  [][\A b \in Slots : Live(b) =>
       \/ EndNearer(b)
       \/ UNCHANGED <<pc[b], todo[b], mine[b], seen[b], resp[b], cnt[b], tmp[b]>>]_vars

\* Every batch comes to an end, whatever fails on its way.
BatchesEnd == \A b \in Slots : Live(b) ~> ~Live(b)
=============================================================================
