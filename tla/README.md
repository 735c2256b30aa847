# A formal model of SyzGPT

SyzGPT has a large language model write seed programs for the kernel fuzzer syzkaller. Two
programs run side by side for days in one *workdir* and talk through its files only:

* **SyzGPT-generator** (`syzgpt_generator.py`, `generator/`), in Python: rounds of *batches*, each
  of which asks the model for programs for the syscalls the fuzzer has not covered;
* **SyzGPT-fuzzer** (`fuzzer/SyzGPT-fuzzer_for_f1b6b00.patch`), a patch of syzkaller in Go:
  `syz-manager` reports enabled and covered syscalls, repairs and loads the seeds; `syz-repair`,
  `syz-db parse`, `syz-execprog -semantic` and `syz-validator` are tools around it.

The repository holds one component of the fuzzer in full, the Go code of the **Linux target**
(`experiments/KernelGPT/sys-linux-specifications/`): what makes generated calls harmless before
they are executed, and the arguments that are too irregular for a description.

What is hard about it is the files. No lock spans the two programs, most files are truncated and
rewritten in place, batches are started and never joined, both sides keep in memory what a
restart forgets, and either may stop at any point. Most models are about that. In the Linux target
nothing runs concurrently: there the same argument is generated, mutated, fixed up and neutralized
again and again, and what one of these steps establishes the next must not undo. ("patch" below is
the patch file above, with its own line numbers.)

## 1. Inventory

| component | state | operations | what is hard | what makes it correct |
|---|---|---|---|---|
| batch generation (`batch_generate_program`) | its copy of `generation_history.json`, `hash_fn_cnt`, counters; seed and prompt files; `shared_stats` | load, skip, query, save the seed, back the prompt up, record, save the history, report | batches overlap; each saves its own history at its end; file operations fail; kills; `+=` on shared data | attempts limited; what is recorded can be read; a death has a traceable cause; what is lost of the history is lost to a named cause; batches end |
| generator main loop | clock, first-sleep flag, enabled and covered syscalls, `GENERATION_END` | wait for the fuzzer, sleep, choose targets, parse the corpus, start a batch, stop | sleeps are estimates; batches are not joined; paths chosen before the files exist | one batch at a time, last batch waited for, `-S` kept, targets shrink |
| enrich loop of syz-manager | `loadedSeeds`, candidates, `seeEndFlag` | sleep, look for the flag, `repairCorpus`, `enrichCorpus` | the generator writes the same files meanwhile; repair limited to two minutes; restart | every seed loaded, before the loop ends; handed out twice at most; repaired first |
| syz-repair | the lines in hand | read, apply rules, rewrite in place | in-place rewriting beside the generator, rules that may leave nothing | a seed is wiped for a named cause only; what was written since is told apart from what was repaired |
| covered and enabled calls (`-statcall`) | `gCoverCalls`, `CoveredCalls`, `EnabledCalls` | count on load and on new input, dump once | append-only files, memory lost on restart, read while written | every covered call arrives, no call twice per start |
| `syz-db parse` | `reverse_index.json`, unpacked corpus directories | unpack new records, extend the index, save it at the end | a crash between unpacking and saving; a truncated index; shared by two directories | no file twice, no half-written file, a missing file explained |
| LLM client (`gpt_wrapper.py`) | messages, tries | send, retry, clip the messages | the retry inside the handler, clipping of the query | bounded sends, newest answer returned |
| `syz-execprog -semantic` | the index, rows of coverage, failure counter, all shared by goroutines | take a program, execute, retry, record, change the phase, save the table | rows read and written in two critical sections, a counter without a lock, names by position | every program run as often as asked for, the table the one of all results, failures counted |
| Linux target: neutralizer | none: a call in, a call out | rewrite the arguments of a dozen calls | 64 bits of which the kernel reads 32; arguments in pieces; done again after each mutation | nothing harmful executed; a second time changes nothing |
| Linux target: special types | the argument in hand | times, netfilter and bridge tables, USB and HID descriptors, algorithm names | offsets stale after a mutation, ranges with open ends, nesting of names | what the kernel walks or matches is consistent |
| Linux target: USB and HID ids | tables of 9000 records | - | records with few match flags | a driver finds its device |
| backup (`initBackup`, `scripts/backup_*.py`) | copies of four files | copy at intervals | copied while written | not modelled |
| retrieval and prompts, dependency extraction | none | choose examples, ask, merge | random choices over texts | not modelled |
| result and bench parsers, analyzer, crawler, fine-tuning, experiments | none | text and numbers in, text and plots out | - | not modelled |

How they interact:

```
 generator main loop --Process--> batches --generated_corpus/--> syz-repair --> enrich loop
   ^      ^      |                   |  ^                                          |
   |      |      +--GENERATION_END---|--|------------------------------------------+
   |      |                          +--+ generation_history.json                  v
   |      +--reverse_index.json-- syz-db parse <--corpus.db-- syz-manager <--> fuzzers
   +---------EnabledCalls, CoveredCalls----------------------------+
```

The hazards, each with the line it bites at and the properties that would catch it, are listed in
`PROJECT.json`.

## 2. Modules

| module | models | abstract of / composed with |
|---|---|---|
| `SeedWriter` | the promise about `generated_corpus`: a seed appears truncated, is filled, never goes away | refined by `SeedGeneration`, extended by `SeedExchange` |
| `SeedGeneration` | `batch_generate_program` by concurrent processes | implements `SeedWriter` |
| `SeedGenerationProofs` | theorems about it | |
| `SeedExchange` | generator's writes, `syz-repair` in place, enrich loop, polls, restart | composes `SeedWriter` with the manager |
| `SeedExchangeProofs` | theorems about it | |
| `GeneratorLoop` | the main loop, the batches' durations and the stop against the clock | |
| `GeneratorLoopProofs` | theorems about it | |
| `QueryRetry` | one query: tries, second requests, clipping | |
| `QueryRetryProofs` | theorems about it, by induction over the messages | |
| `CallCoverage` | manager's `-statcall` files and the generator's targets | composes both sides |
| `CallCoverageProofs` | theorems about it | |
| `CorpusIndex` | `syz-db parse` | |
| `CorpusIndexProofs` | theorems about it | |
| `CoverTable` | the table `syz-execprog -semantic` promises, made in one piece | refined by `ExecSemantic` |
| `ExecSemantic` | its two pools of goroutines, rows, retries and counters | implements `CoverTable` |
| `ExecSemanticProofs` | theorems about it | |
| `Neutralize` | `arch.neutralize` and its cases | used by `LinuxTarget` |
| `NetfilterTables` | the fix-ups of ipt, arp and eb tables | used by `LinuxTarget` |
| `UsbIds`, `UsbDescriptors` | the id tables; descriptors patched with an id | used by `LinuxTarget` |
| `AlgNames` | the tables of algorithms and the expansion of a name | used by `LinuxTarget` |
| `LinuxTarget` | `InitTarget`, times, and one argument on its way from the generator to the executor | composes the four |
| `LinuxTargetProofs` | theorems about it, by induction over the entries of tables and the depth of names | |

Each specification that is run has an `MC...` module with the constants' values and one or more `.cfg` files.

### SeedGeneration

`pc[b]` is where process `b` is in `batch_generate_program`: `loop` (line 101), `query` (117),
`fill` and `prompt` (the seed file open and not yet flushed; the file done), `count` (166), `dump`
(history truncated, 174), `stat` and `add` (the two halves of `+=`, 181). A step is what happens
between two points where another process, a failing file operation or a kill can make a
difference. `hist`, `torn`, `seed`, `prompts` and `total` are what survives a process; `mine`,
`seen`, `resp`, `cnt`, `tmp` die with it. A name in `Names` stands for the hash of an answer, and
so for its text; the empty answer is one of them. The sleep of line 172 and tokens are left out.
The history file is `hist`, the attempts that a reader finds in it, and `text`: "whole" (or no file
yet), "empty" (truncated by `open('w')`) or "part". What is not whole cannot be read, so `hist` is
then empty, and the batch that loads it dies (`StartOnTornHistory`). Neither the open nor the dump
is inside a `try`: a batch that fails in the open dies and leaves the file as it was, one that fails
or is killed in the dump leaves it empty or in part (`CutShort`). Two dumps at once may leave the tail
of the longer text behind the shorter, which is the choice in `AfterDump`.
`fill` exists because the text of a file that is opened and written reaches the disk on its close.

The variables called history (`saved`, `missed`, `raced`, `noFile`, `deaths`, `spent`) are read by
properties only: what the last dump wrote, which batches have loaded before it, what two batches have
been at together, whose file could not be opened, why batches died, what they have counted.

### SeedExchange

The directory entry per name is `absent`, `empty`, `raw` (as generated), `fixed` (as `syz-repair`
leaves it, valid or not) or `torn` (part of a text or a mix of two). `pc` walks the enrich
goroutine: `sleep`, `start`/`repair`/`read`/`trunc` (`syz-repair`, its child, at one file),
`lock`, `load`. `enrichCorpus` holds `mgr.mu` and so keeps polls out (`Poll` is disabled at
`load`), but not the generator. The candidates are a bag, since `enrichCorpus` may append the
queue to itself; programs that do not come from the generator are the one value `Other`. Whether
`loadProg` accepts a text is open. What `syz-repair` makes of a text is open too, within what the
code can do: its scanner may stop at a line that is too long (`ReadLines`), and with a target call the
rules drop lines with unknown calls, so that nothing may be left (`Repaired`); `shortened` is history
and names the seeds this befell. With the flag given, `EndSeen = 2` is what ends the loop.

### GeneratorLoop

Time is in seconds and jumps to the next event; every duration the code fixes is exact, and what
it does not fix (number of targets, seconds per call, seconds of `syz-db`) is a choice from small
sets whose extremes matter. A batch is a pair of its round and the time of its end. `ParseFails`
is the exception of `subprocess.run(.., check=True)`, of a missing `EnabledCalls` or of an index
that cannot be read. `Horizon` bounds the clock at twice the stop time; since `LoopEnds` holds, the
passing run never meets it.

### CallCoverage

`covered[c]` counts the lines of `c` in `CoveredCalls`, `enabled` the calls of `EnabledCalls`.
`corpus` is the set of calls of the programs in `corpus.db`; minimization never removes the last
program of a signal, and the calls it drops have been counted under the same lock as they were
added. `newInput` and `loadCorpus` hold `mgr.mu` for their whole length, so that one program's
calls are counted to the end (`statTodo`) before the next; files are read in between.

The generator waits for `EnabledCalls` only, and settles for a name of the other file when it starts:
one that starts before `CoveredCalls` has a line reads nothing of it for as long as it lives
(`ReadsNothing`).

### CorpusIndex

A file is a directory and a key. The index maps a call to the number of times each file is listed
for it. A run reads database, directory listing and index first and works from those.

### QueryRetry

One call of `query_with_history_new`: `Try` is the head of the loop, the other actions what the
service or the user makes of the request that is out. `AfterFailure` is the handler that sends
again by itself (`pc = "retry"`), from which an exception goes to the caller, and an answer back to
the head of the loop, since no `break` follows it. A message is its place in the prompt and its
length in units of `SECURE_CLIP`; `Clip` folds `clip_msg`'s loop over the messages. The service is
external: it may say anything at any request, but the number of tokens it complains of is that
of the prompt, at two to four characters a token, and the answer's share.

### ExecSemantic

The tool with `-semantic -progdir -coverfile` given, as the evaluation runs it. `worker[w].at` is
where a goroutine is: `idle` (before it takes an index), `exec` (the executor has the program),
`failed` (it has an error in hand), `count` (between read and write of `execFailCnt += 1`, which no
lock protects), `covered` (between `getCoverRecord` and `setCoverRecord`, each of which locks the
map) and `done`. `seen` and `fails` are what it has read and not yet written. A row holds which
program was executed instead of the number of its covered blocks; whether an execution fails,
covers something or executes nothing is open. The gate admits twice as many executions as there
are goroutines, so it never blocks and is left out. The phases
are `origin` and `reverse`, then `saved`, or `fatal` when a file cannot be written. A file may be
parsed to any number of programs in `Yields` (a file that cannot be parsed gives none), and
`MaxLoaded` bounds them. If the list of one phase is empty, its goroutines stop at once.

`CoverTable` has the phases and names that gave coverage and, at the end, a table computed from all
of them in one step. `TableImplemented` maps `history.covered` to the former, and the rows of the
saved phase to the latter: whatever goroutines read of a row before they write it, and though only
the wait between the phases keeps an origin from coming after its reverse, nothing is lost.

### The Linux target

`LinuxTarget` follows one argument at a time. `raw` is what the prog library (external) makes by
generating or mutating it, `built` is what the function registered for its type in
`target.SpecialTypes` makes of that, `neutral` is what `target.Neutralize` leaves, and `rejected` a
call on which the part of the neutralizer common to the Unix targets fails (external). A mutation
goes back from `built` or `neutral` to `raw`; a program read from a file comes in as a call at
`built`, with any arguments.

* `Neutralize` keeps of a 64-bit argument its low half, by the name of the kernel's constant or
  `Other`, and whether bits are set above: the kernel reads the low half of a command, and most of
  the code compares it alone. The sub-cases of `sched_setattr` (a null pointer, a struct, a
  squashed union whose pieces are data, or something else first) are the kinds of its argument.
* `NetfilterTables` counts offsets in units of the entries' alignment. `sizes` is what a mutation
  changes; offsets are computed by the fix-up as the code does, and the kernel's view (walking the
  entries) is stated apart from it, in the properties.
  The tables of `UsedHooks` are those of the descriptions beside the code: filter, nat, mangle, raw,
  security and arp.
* `UsbIds` holds blocks of the records with the same match flags (and, where one vendor fills the
  block, the same vendor), each by its first and last record, and of a block of more than 75 records
  only 75: which flags a record has and where
  its range of revisions ends decide all that happens to it. `Picks(n)` stands for `Rand().Intn(n)`;
  the run explores both ends.
* `AlgNames` has the templates one by one and the complete algorithms, which the expansion treats
  alike, as a number per type. A name is a sequence of tokens: a template, a bracket, a comma.
  The code writes a name from left to right with the stack of its recursion; the model keeps that
  stack as the list of what is still to be written. What a name is (`NamesWithin`, in `LinuxTarget`)
  is stated apart from this, as a grammar, from the depth of templates and not from how they are written.
* Times are a base and what is added, in the unit of the type.

## 3. What the runs check

| run | properties | bounds |
|---|---|---|
| `seed_generation` | `TypeOK`, `AttemptsCapped`, `HistoryBacked`, `DeathsExplained`, `TotalExact`, `HistoryKept`, `WriterRefined`, `BatchesEnd` | two slots, two rounds, two syscalls, two answers, lists of two with and without repetition, one failing operation, one kill |
| `seed_exchange` | `HandedTwiceAtMost`, `WipedExplained`, `PromisedLoaded`, `UnrepairedExplained` | two names (symmetric), three writes, one repair cut short, one restart |
| `seed_exchange_end` | `EnrichmentEnds` | two names, two writes, one restart |
| `unrepaired_load` (violated) | `RepairedBeforeLoading` | one name written once |
| `generator_loop` | `LastRoundWaited`, `OneBatchAtATime`, `StopOverrun`, `LoopEnds` | `-D 10m -T 20m -S 2h -m 60`, batches from none to one more than `-m` |
| `end_flag_early` (violated) | `LastRoundWaited` | the README's `-D 1h -T 1h -S 24h -m 100`, remote |
| `call_coverage` | `LinesPerStart`, `TargetsShrink`, `CoverageReachesTargets`, `WholeUniverse` | two calls, a restart on either side, one failing operation, a generator started before or after `CoveredCalls` |
| `start_wait` (violated) | `WaitEnds` | generator started first, nothing fails |
| `corpus_index` | `IndexedFilesWhole`, `IndexedOnce`, `UnindexedExplained`, `IndexGrows` | two directories, three programs, three runs, one crash |
| `query_retry` | `OutcomeExplained`, `ClippedFromFront`, `QueryAsked` | five prompts of one to four messages, all three tries |
| `exec_semantic` | `EveryProgramRun`, `NamesExplained`, `FailuresExplained`, `TableImplemented`, `RunEnds` | two goroutines, two files of none to two programs, three programs a phase, one retry |
| `linux_target` | `ExecutedHarmless`, `NeutralFixpoint`, `UsbProbed`, `TableWalkable`, `EbtablesConsistent`, `TimeAhead`, `NameWellFormed` | every call and command the code names, tables of two entries of two sizes, names of two templates, two interfaces |

Why the bounds are enough. The hazards are pairs: two batches, a writer and a repairer, a crash and
a later run. Two processes and two names give each of them, and a list with a repeated syscall
lets two batches record past the limit if the guard were wrong (the limit itself is 3 and is not
scaled). In `SeedExchange` a name can be written, repaired, loaded, written again and loaded again
after the restart. In `CorpusIndex` a run dies, a second one works on what it left, and a third on
what the second saved. A program uses one call twice, another is too long for the index.
`GeneratorLoop` runs a whole campaign; its state space is that of the durations. `QueryRetry` is not
bounded but in its prompts: the code itself ends after six requests.

In `ExecSemantic` two goroutines can hold the same row or the counter at once; with three programs
from two files a position runs past the number of names, so that two programs share a row, and with
a file that yields none the names move. `LinuxTarget` takes every constant that the code compares
with, each with and without bits above. Two entries of different sizes tell an offset from an index
and from the offset before the mutation, and there are fewer entries than hooks, as in the tables
that the code cuts short. Two templates nest in one another or follow each other as arguments;
seven tokens of a name make the field both too short and too long. The second interface of a
descriptor is the one that gets another id.

Several properties excuse what the code cannot prevent, and do so by a cause that lies in an
earlier step, often of another process: a missing program by a failed open of that very file
(`noFile`), an unreadable history by a batch that was killed or failed in its dump, or by two at the
file together (`raced`), attempts missing in a save by a batch that had loaded before the save it
replaced (`missed`), an empty seed by the generator and `syz-repair` meeting on it (`clashed`) or by
what `syz-repair` kept of it (`shortened`), a covered call among the targets by a generator that reads
nothing (`ReadsNothing`), a file missing in the index by the run that died (`lost`). Each excuse is as
narrow as TLC allows: without it the property fails.

Most liveness properties have a safety half beside them in the module, which is about single steps or
states and assumes no fairness. `BatchNears`, `EnrichmentNears`, `RoundsFit` and `RunNears` say that what
moves an actor takes it nearer to its end, in an order in which nothing can come nearer for ever. No
run checks these: they are proved (section 4). `PromisedLoaded` says what is true once the enrich loop
is there, and `seed_exchange` checks it.

### Where the code and its documentation disagree

* `unrepaired_load`: `-repair` is documented to repair before loading; a seed written between the
  two listings is loaded raw and never looked at again.
* `end_flag_early`: the last sleep is said to wait for the last round; the estimate leaves out
  the pauses of the remote mode, and with the README's parameters the flag comes early.
* `start_wait`: the generator says it waits for the fuzzer to start, but has by then settled for a
  file name that the fuzzer never writes.

Seen while modelling, and not checked by a run of their own: a comment in `syzgpt_generator.py` (line
106) speaks of five attempts where the code gives up after three; `TestAlgDescriptions` says that
names are not repeated within a type, and the tables have `adiantum`, `lrw` and `xts` twice, with
different arguments. `HarmlessCall` names what the neutralizer of `sched_setattr` does not look at: it
compares the policy with all its bits, and only the first piece of a squashed structure. The sum of
a clock's nanoseconds and what is added is not normalized (`TimeAhead` compares sums). Interfaces of
a USB descriptor after the first are patched with ids of their own, so `UsbProbed` is about the
device and its first interface. A name as long as its field has no terminating zero. After
seven days the backup leaves out the corpus as well (patch line 272), where the documentation speaks of
the crashes only.

### Fairness

`SeedGeneration` asks weak fairness of each started batch (a process the system schedules, a query
that ends: the client has a timeout and three tries), none of starts, kills or failures.
`SeedExchange` asks it of the enrich goroutine: its timer fires, and `RunCmd` returns within two
minutes by killing the child; neither generator nor fuzzers owe it anything. `GeneratorLoop` asks
it of time as a whole, where every event has a finite date. `CallCoverage` asks it of the manager's
goroutines and the generator; inputs are never owed. `ExecSemantic` asks it of each goroutine, which
the Go runtime schedules and whose executor answers or fails after a timeout, and of `main`; the
interrupt is never owed. `RunEnds` then rests on the retries being counted.

## 4. What is proved

Every safety property that a passing run checks, invariant, action property or refinement, is also
proved for every value of the constants, and so are the safety halves of the liveness properties, which no
run checks. The runs tell what a property means and that it can fail; the theorems remove the bounds of section 3. A theorem that needs more than the
assumptions named in the module of the specification says so in its `ASSUME`; these conditions are
named, and are met by the runs' constants.

`SeedGenerationProofs` proves, for any sets of syscalls, answers and processes and any bounds (from
the assumptions named in `SeedGeneration`: the probability is a percentage, the bounds are
natural numbers, targets are sequences of syscalls, `None` is no answer):

* `TypeCorrect`, `TypesHold`: the type invariant, strengthened by `AtWork`: a batch between query
  and count serves the head of a list that is not empty, its history of that syscall is below the
  limit, and from `fill` on it holds an answer. Without `AtWork` neither types nor limit are
  inductive: `Head(todo[b])` and the append of `Record` depend on where the batch is.
* `LimitHolds`: `AttemptsCapped`. A batch appends once for each check of the limit, to the history
  that was checked; what it loads and saves are whole histories. So overlapping batches, which lose
  attempts, never add any.
* `RecordedReadable`: `HistoryBacked`. The strengthening `BackInv` says which names are on disk (or
  failed to open) besides the recorded ones: all that a batch has met (`seen`) and the one in hand
  from the moment its file is open. A file never goes away (`BackedStays`), so that copies and
  saves of histories keep it.
* `WriterImplemented`: `SeedGeneration` implements `SeedWriter`. Its only steps that touch a seed
  are `NewAnswer`, an `OpenSeed`, and `FillFile`, a `FillSeed` of a file that `BackInv` knows to be
  there; all others stutter.
* `DeathsHaveCauses`, `TotalCounted`, `HistoryLossExplained`: `DeathsExplained`, `TotalExact` and `HistoryKept`.
  They are about the files that batches end with, and rest on `EndInv`. `HistoryInv`: as long as no two
  were at the history together, one batch at most is dumping, into an empty file (`DumpAlone`), and
  what a reader finds is what was saved last, unless a batch is dumping or was cut short. `KnowInv`: a
  batch that nobody has dumped behind since it loaded (not in `missed`) knows all that is saved, so
  that its own save extends it. `CountInv`: what a batch has read of the counter is still there,
  unless two were at it, and never more than was generated.
* `EveryStepNears`: `BatchNears`. A step of a batch takes a syscall from its list, or takes it further
  with the one in hand or with what is to be saved; steps of others leave it where it is. `AtWork` is
  needed: the list that `Head` is taken from is not empty.

`SeedExchangeProofs` proves all safety of `SeedExchange` for any names, writes, restarts and repairs cut
short:

* `SeedsNotWiped`: `WipedExplained`. `HandInv` describes the two rewriters each on its own: a file the
  generator has open and `syz-repair` has not met is empty, so that the flush makes it whole; the text
  `syz-repair` has in hand for a truncated file is whole, unless the generator has the file open or
  the name was put down as `shortened` at the truncation. Each half needs the other,
  and both need the property itself: a text can only be whole if the file it was read from was.
* `NoThirdCopy`: `HandedTwiceAtMost`. `enrichCorpus` doubles the queue when it was empty at its start.
  `CopiesInv` says that between this test and the doubling a seed has at most one copy and none handed
  out: the lock keeps polls out, and `loadedSeeds` a second load.
* `UnrepairedAccounted`: `UnrepairedExplained`, a property of steps. `FixedInv` follows the pass of
  `syz-repair`: files it has behind it are repaired, or were touched since, and when it is done that is
  all there were.
* `PromiseKept`: `PromisedLoaded`, and `EndComesNearer`: `EnrichmentNears`. `PassInv` follows the pass between
  the two sightings of the flag: what was on disk when the flag was created is on the list that
  `enrichCorpus` works from or loaded already, and loaded when the loop sleeps again. A restart forgets
  both, and begins with no sighting.
* `LastSeedsFollow`: `LastSeedsLoaded`, given `EnrichmentEnds`. The flag and the promise stay, so that a loop
  that ends at all after the flag, as TLC shows it to do under fairness, has loaded what was promised.

`CorpusIndexProofs` proves all of `CorpusIndex` for any calls, directories and programs and any number of
runs, however many die. `NamedFilesWhole` (`IndexedFilesWhole`) and `NoneCountedTwice` (`IndexedOnce`)
rest on `WholeInv`, the same of the saved index and of the one in memory together: a run adds to the
second what neither has, since it only writes files that were not there. `MissingLost`
(`UnindexedExplained`) and `NothingForgotten` (`IndexGrows`) rest on `FullInv`: a file that is not lost is
in the index of the run, and in the saved one unless this run has written it. `TornInv` is needed where
the saved index was cut off: the next run begins an empty one, so that all older files must count as
lost by then.

`CallCoverageProofs` proves all safety of `CallCoverage` for any syscalls, restarts and failures.
`LinesMatchCalls` (`LinesPerStart`) rests on `LinesInv`, which counts the present manager as one only if
it has the call in memory, so that no call has a line too many; and on `CountInv`, so that none is
missing: a manager that knows its calls has counted, or is counting, all of its corpus, and what is
counted has a line or lost it. `TargetsNeverGrow` (`TargetsShrink`) rests on `TargetsInv`, which keeps what
a round read as a part of what is in the file, for lines are only ever added; `UniverseWhole`
(`WholeUniverse`) on `DumpInv`, which says of a dump that is under way what is behind it.

`GeneratorLoopProofs` proves all safety of `GeneratorLoop` for any delay, period, stop time, numbers of
targets and durations. The conditions are where the code relies on an estimate:

* `OffsetEnough`: no batch takes longer than `secure_exec_offset`. `LocalCampaign` (a maximum for a batch,
  a local model, `one_exec_time` kept) implies it (`LocalOffsetEnough`). The remote mode does not meet it,
  which is what `end_flag_early` shows. `LongestParse`: there is a longest parse.
* `LastRoundOver` (from `LocalCampaign`): `LastRoundWaited`. `BatchInv` bounds the end of every batch by
  now and the offset, and so by the end of the last sleep.
* `BatchesApart` (from `OffsetEnough`): `OneBatchAtATime`, where the offset fits in the period. `OneInv` says
  that the batch is over whenever the sleep is; the first sleep, shorter than a period, has none before it.
* `StopBounded` (from `OffsetEnough` and `LongestParse`): `StopOverrun`. `StopInv` bounds each wait by
  `LastStart`, the latest time the last round can have been begun.
* `RoundsBounded` (from no condition): `RoundsFit`. `PaceInv` says that a sleep ends no earlier than the
  round after it is due, and that the check before it saw time left.

`QueryRetryProofs` proves all safety of `QueryRetry` for any prompts, limits and lengths of tokens:

* `OutcomeFollowsService`: `OutcomeExplained`, from three invariants, one for each outcome: the response is
  the newest answer there was (`AnswerInv`), without any answer each try is one refused request
  (`EmptyInv`), and a second send follows a failure (`RaiseInv`).
* `PromptEndKept`: `ClippedFromFront`. `clip_msg`'s loop is a fold over the messages, and `ClipKeepsEnd` says
  what it leaves: an end of the messages, whole but for the first, no more than asked for shorter.
  The end of an end is an end (`ClippedAgain`).
* `QuerySurvives`: `QueryAsked`, if a token stands for two characters or more (`TwoCharacters`) and no
  query is empty (`QueriesGiven`). `LeftInv` counts what is left after each try: a clip takes one
  character for each token, half of what there is at most, and one more, and two of them can precede a
  request. Without the first condition a clip could take everything; an empty query has no place in
  what is left of a short prompt.

`ExecSemanticProofs` proves all safety of `ExecSemantic`, for any files, numbers of programs, goroutines,
retries and repetitions (from `ExecAssumption`: at least one file, one goroutine, one repetition;
`None` is no file). All rest on `TypesKept`: types, and that a goroutine at work holds an index of a
program of the phase.

* `TableRefined`: the pool implements `CoverTable`. `TableInv` says that no row stands without a
  result (`RowInv`), that what a goroutine has read of a row is still true enough to be written back
  (`SeenInv`: origins never go, and none comes in the second phase) and that a result without a row
  has a goroutine about to write it (`ResultInv`). When all goroutines are done none is pending, so
  that the rows are the table. Most steps touch none of this (`Quiet`) and are one case.
* `ProgramsExecuted`: `EveryProgramRun`. `TakenInv` gives the executions of a program in closed form,
  `pos \div n` and one more for the first `pos % n` programs (`Share`), which one more index keeps
  (`ShareStep`) and which is `Repeat` for all programs at the end (`ShareEnd`).
* `FailuresCounted`: `FailuresExplained`. While anyone is counting, what each of them will write is at
  least the failures that nobody else overlapped, and at most all failures.
* `RowsNamed`: `NamesExplained`.
* `EveryStepNears`: `RunNears`. `TryInv` bounds the tries of a goroutine, so that what it has left to do
  (`Rest`) is a natural number; `WorkAdvances` has one case for each step.

`LinuxTargetProofs` proves, for any calls, tables of any number and sizes of entries, and any ends of
ranges that are explored:

* `ExecutedCallsHarmless`: `ExecutedHarmless`, and `NeutralizingIdempotent`: `NeutralFixpoint`. Both follow
  from `TargetInv`: what is `built` is a call the code knows or a special argument of its shape
  (`Buildable`), and what is `neutral` is the image of one under `neutralize`. There is a lemma for each
  kind of call, since each has its own reason to be harmless the first time and unchanged the second.
* `DevicesProbed`: `UsbProbed`, and `TimesAhead`: `TimeAhead`, and the same whatever the clock shows. `SpecialInv`
  keeps of an argument what its function needs to know of it: a time is one that `generateTimespec`
  makes, a raw descriptor one that the prog library makes, a descriptor that is built fits its
  record. The ends of the ranges of a record need `PicksAssumption`: an outcome of chance is below its
  bound.
* `TablesWalkable`: `TableWalkable`, and `ChainsConsistent`: `EbtablesConsistent`. `TableInv` says which raw table
  was fixed up, and that the fix-up of chains and the length that the neutralizer adds later agree.
  Both need to know what the fix-up and the kernel compute over all entries: `WalkCounts` (the walk over
  the entries arrives where `SizeBefore` has counted to), `SizesStrict` (entries that take room have
  different offsets), `SharesCover` (the ranges of counters follow one another without gap or overlap).
* `NamesInGrammar`: `NameWellFormed`, however deep templates nest. `NameInv` says of a name that is being
  written what it may become: any text that fits what is still to be written (`Fits`: it falls into
  pieces, each punctuation or a name of its type) makes it a name of the type asked for. One step
  replaces a type by a token, or by a template with its arguments, which takes what fits the one to
  what fits the other (`TemplateWritten`, `ItemExpanded`); when nothing is left only the empty text fits,
  and the name is one. The depth is bounded by the tokens written, since each template is one of them.

Recursion. `SizeBefore`, `Total` and `Clip` are folds of the community modules, `EntryStart` and
`NamesWithin` are recursive functions. That `NamesWithin` exists is proved from its first values
(`ChainExists`), of which any two lists agree (`ChainsAgree`, `NamesWithinSteps`). What they compute is
proved by induction on sets of natural numbers (`AllNaturals`), which comes from `WFMin` and
`NatLessThanWellFounded` of the library. A fold is a `CHOOSE` of a function on
all subsets of the indices, so that its existence comes first: it is built up from the function on
the first `n` indices (`SumExists`, `FoldExists`), and then turned into a recurrence along the sequence
(`SizeBeforeSteps`, `Sums`, `Clips`).

Only model-checked:

* all liveness (`BatchesEnd`, `EnrichmentEnds`, `LoopEnds`, `CoverageReachesTargets`,
  `RunEnds`): fairness and ENABLED are out of the prover's reach. What of it is safety is proved:
  `BatchNears`, `EnrichmentNears`, `PromisedLoaded`, `RoundsFit`, `RunNears`, and for `CoverageReachesTargets`
  `LinesPerStart` (a call of the corpus gets its line) and `TargetsShrink` (a call that left the targets stays
  away). What is left to TLC is that some step is enabled until the end is reached, and that fairness
  takes it. `LastSeedsLoaded` follows from `EnrichmentEnds` and `PromisedLoaded` by a theorem;
* what the three violated runs say, which is false.

## 5. Not modelled

* The repair rules of `repairProgram`: each acts on the error texts of syzkaller's parser, which the
  patch does not contain; what one rule does to the next error cannot be told from this code. What is
  modelled is how `repairProgDir` reads and rewrites files beside the generator and the manager, and
  that the rules may leave all, a part or nothing of a text.
* `initBackup`, `dumpCover` and the backup scripts copy files at intervals; nothing reads the copies.
* Retrieval, prompts and dependency extraction make texts out of texts by random choices.
* The blocks of the USB and HID tables between those kept repeat flags and vendors that are there, and
  so does what is left out of blocks of more than 75 records.
* Of `syz-execprog`, the options that print or that dump hints, and the rates computed from the rows.
* `syz-validator`, result and bench parsers, analyzer, crawler, fine-tuning and the other experiments:
  input and output without state. syzkaller itself beyond what the patch touches is external.

## 6. Plan

1. (done) `SeedWriter`, `SeedGeneration` with proofs, `SeedExchange`, `GeneratorLoop`, `CallCoverage`,
   `CorpusIndex`, `QueryRetry`.
2. (done) `CoverTable`, `ExecSemantic` with proofs; `UsbIds`, `UsbDescriptors`, `Neutralize`, `AlgNames`,
   `NetfilterTables`, `LinuxTarget` with proofs.
3. (done) Proofs: all safety of `SeedGeneration`, `SeedExchange`, `CorpusIndex`, `CallCoverage`, `GeneratorLoop`,
   `QueryRetry` and `LinuxTarget`.
4. (done) Names of algorithms: a grammar without recursive operators, and the proof that a generated
   name stays in it whatever the depth. The part of the liveness properties that is safety, stated as
   steps towards their goals or as what is true when they are reached, and proved.
