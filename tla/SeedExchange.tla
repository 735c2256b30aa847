---------------------------- MODULE SeedExchange ----------------------------
(***************************************************************************)
(* The directory generated_corpus between the generator and the fuzzer: the *)
(* generator's processes write seeds (SeedWriter), syz-repair rewrites them *)
(* in place, and the manager's enrich loop loads what it has not loaded.    *)
(* Nothing but mgr.mu, which only the last of the three takes, orders them. *)
(***************************************************************************)
EXTENDS SeedWriter, Naturals

CONSTANTS
  Other,        \* a candidate that is not a seed of the generator
  Repair,       \* -repair is given
  MaxWrites,    \* bound: seed files ever opened for writing
  MaxStops,     \* bound: syz-repair runs that fail or reach the 2 minutes
  MaxCrashes    \* bound: manager restarts

ASSUME OtherAssumption  == Other \notin Names
ASSUME RepairAssumption == Repair \in BOOLEAN
ASSUME BoundAssumption  == MaxWrites \in Nat /\ MaxStops \in Nat /\ MaxCrashes \in Nat

VARIABLES
  writing,      \* names a batch holds an open descriptor of
  endFlag,      \* WORKDIR/GENERATION_END exists
  pc,           \* where the enrich goroutine is
  seeEndFlag,
  list,         \* names of the directory listing that are still to be served
  cur, text,    \* syz-repair: the file in hand and the lines made of it
  loadedSeeds,
  candidates,   \* mgr.candidates as a bag: copies of each program
  canShuffle,
  polled,       \* copies of a seed handed to fuzzer processes
  writes, stops, crashes,                   \* bounds
  missed,       \* history: names this pass may not have repaired: the writer
                \* touched them since it began, or the repair was cut short
  clashed,      \* history: names the writer and syz-repair had in hand at once,
                \* or one of them dropped half way
  shortened,    \* history: names syz-repair wrote back without their lines, of which its
                \* rules left nothing or its scanner read but the head
  promised      \* history: names on disk when GENERATION_END was created

writerVars == <<seed, writing, endFlag, writes>>
repairVars == <<cur, text, stops>>
enrichVars == <<seeEndFlag, loadedSeeds, candidates, canShuffle, polled>>
ghostVars  == <<missed, clashed, shortened, promised>>
vars == <<writerVars, repairVars, enrichVars, ghostVars, pc, list, crashes>>

\* A text is "empty", "raw" (as the generator wrote it), "fixed" (what syz-repair makes
\* of a raw seed, valid or not) or "torn": a text nobody wrote, a part of one or one
\* written over a longer one.
Programs == Names \cup {Other}
NoCopies == [p \in Programs |-> 0]
AtStart  == {[NoCopies EXCEPT ![Other] = k] : k \in 0 .. 1}    \* from corpus.db
None     == Other            \* no file in hand

OnDisk == {n \in Names : seed[n] # "absent"}

Init ==
  /\ WriterInit /\ writing = {} /\ endFlag = FALSE /\ writes = 0
  /\ pc = "sleep" /\ seeEndFlag = 0 /\ list = {}
  /\ cur = None /\ text = "empty" /\ stops = 0 /\ crashes = 0
  /\ loadedSeeds = {} /\ canShuffle = FALSE /\ polled = [n \in Names |-> 0]
  /\ candidates \in AtStart
  /\ missed = {} /\ clashed = {} /\ shortened = {} /\ promised = {}

----------------------------------------------------------------------------
(* The generator.  At most one open descriptor per name is modelled.        *)

\* Written at the start of an open file that is not empty any more: the whole
\* file if the text is the longer one, else its head.
Over(old, new) == IF old = "empty" THEN {new} ELSE {new, "torn"}

WriterOpens(n) ==
  /\ n \notin writing /\ writes < MaxWrites
  /\ OpenSeed(n)
  /\ writing' = writing \cup {n}
  /\ writes'  = writes + 1
  /\ missed'  = missed \cup {n}
  /\ clashed' = IF cur = n THEN clashed \cup {n} ELSE clashed
  /\ shortened' = shortened \ {n}
  /\ UNCHANGED <<repairVars, enrichVars, endFlag, pc, list, crashes, promised>>

WriterFills(n) ==
  /\ n \in writing
  /\ \E t \in Over(seed[n], "raw") : seed' = [seed EXCEPT ![n] = t]
  /\ writing' = writing \ {n}
  /\ missed'  = missed \cup {n}
  /\ UNCHANGED <<repairVars, enrichVars, endFlag, writes, pc, list, crashes, clashed,
                 shortened, promised>>

\* The batch is killed, or its disk full, before the flush.
WriterDies(n) ==
  /\ n \in writing
  /\ writing' = writing \ {n}
  /\ clashed' = clashed \cup {n}
  /\ UNCHANGED <<repairVars, enrichVars, seed, endFlag, writes, pc, list, crashes,
                 missed, shortened, promised>>

\* notify_generation_end.  Batches still at work are not waited for.
NotifyGenerationEnd ==
  /\ ~endFlag
  /\ endFlag'  = TRUE
  /\ promised' = OnDisk
  /\ UNCHANGED <<repairVars, enrichVars, seed, writing, writes, pc, list, crashes,
                 missed, clashed, shortened>>

----------------------------------------------------------------------------
(* The enrich goroutine: sleep, look for the flag, repair, enrich.          *)

\* counts nothing: the flag is seen, or not
MutEndSeen == IF endFlag THEN 1 ELSE seeEndFlag

EndSeen == IF endFlag THEN seeEndFlag + 1 ELSE seeEndFlag

\* the loop is left when the flag is seen first
MutLoopEnds == EndSeen >= 1

LoopEnds == EndSeen = 2

AfterWake ==
  IF LoopEnds THEN "done" ELSE IF Repair THEN "start" ELSE "lock"

Wake ==
  /\ pc = "sleep"
  /\ seeEndFlag' = EndSeen
  /\ pc' = AfterWake
  /\ UNCHANGED <<writerVars, repairVars, ghostVars, loadedSeeds, candidates, canShuffle,
                 polled, list, crashes>>

\* repairCorpus runs syz-repair, which reads the directory once.
RepairBegins ==
  /\ pc = "start"
  /\ pc' = "repair" /\ list' = OnDisk
  /\ missed' = {}
  /\ UNCHANGED <<writerVars, repairVars, enrichVars, crashes, clashed, shortened, promised>>

\* readLines stops at a line too long for its scanner.
ReadLines(t) == IF t = "empty" THEN {t} ELSE {t, "torn"}

\* repairProgram: a text is made into what the rules make of it. With a target call
\* repairSyscall drops every line that names an unknown call, and nothing may be left.
Repaired(t) ==
  IF t = "empty" THEN {t} ELSE {"empty", IF t = "torn" THEN t ELSE "fixed"}

\* writes back the lines it read, not the repaired ones
MutTextRead(n) == {seed[n]}

TextRead(n) == UNION {Repaired(t) : t \in ReadLines(seed[n])}

RepairReads(n) ==
  /\ pc = "repair" /\ n \in list
  /\ pc' = "read" /\ list' = list \ {n}
  /\ cur' = n /\ text' \in TextRead(n)
  /\ clashed' = IF n \in writing THEN clashed \cup {n} ELSE clashed
  /\ UNCHANGED <<writerVars, enrichVars, stops, crashes, missed, shortened, promised>>

\* os.Create of the output, which is the input.
RepairTruncates ==
  /\ pc = "read"
  /\ pc' = "trunc"
  /\ seed' = [seed EXCEPT ![cur] = "empty"]
  /\ shortened' = IF text \in {"empty", "torn"} THEN shortened \cup {cur} ELSE shortened
  /\ UNCHANGED <<repairVars, enrichVars, missed, clashed, promised, writing, endFlag, writes,
                 list, crashes>>

\* the lines are buffered and never flushed
MutWritten(old, new) == {old}

Written(old, new) == IF new = "empty" THEN {old} ELSE Over(old, new)

RepairWrites ==
  /\ pc = "trunc"
  /\ pc' = "repair"
  /\ \E t \in Written(seed[cur], text) : seed' = [seed EXCEPT ![cur] = t]
  /\ cur' = None /\ text' = "empty"
  /\ UNCHANGED <<enrichVars, ghostVars, writing, endFlag, writes, stops, list, crashes>>

RepairEnds ==
  /\ pc = "repair" /\ list = {}
  /\ pc' = "lock"
  /\ UNCHANGED <<writerVars, repairVars, enrichVars, ghostVars, list, crashes>>

\* syz-repair is gone; the file it was writing holds none, a part or all of its lines.
RepairerGone ==
  /\ IF pc = "trunc"
     THEN /\ \E t \in {seed[cur], "torn"} : seed' = [seed EXCEPT ![cur] = t]
          /\ clashed' = clashed \cup {cur}
     ELSE UNCHANGED <<seed, clashed>>
  /\ cur' = None /\ text' = "empty"

\* syz-repair dies (log.Fatalf on a history it cannot decode, a panic) or RunCmd kills
\* it after two minutes.  Logged as a failure, and then as a success.
RepairStops ==
  /\ pc \in {"start", "repair", "read", "trunc"} /\ stops < MaxStops
  /\ pc' = "lock" /\ list' = {}
  /\ stops' = stops + 1
  /\ missed'  = Names
  /\ RepairerGone
  /\ UNCHANGED <<enrichVars, writing, endFlag, writes, crashes, shortened, promised>>

\* mgr.mu is taken, the directory read, the decision to duplicate made.
EnrichBegins ==
  /\ pc = "lock"
  /\ pc' = "load" /\ list' = OnDisk
  /\ canShuffle' = (candidates = NoCopies)
  /\ UNCHANGED <<writerVars, repairVars, seeEndFlag, loadedSeeds, candidates, polled,
                 ghostVars, crashes>>

SkipsLoaded(n) ==
  /\ pc = "load" /\ n \in list /\ n \in loadedSeeds
  /\ list' = list \ {n}
  /\ UNCHANGED <<writerVars, repairVars, enrichVars, ghostVars, pc, crashes>>

\* whatever loadProg says of it
Marked(n, accepted) == loadedSeeds \cup {n}

\* loadProg appends what it can parse to the candidates; it may parse anything but a
\* blank text only.
Loads(n) ==
  /\ pc = "load" /\ n \in list /\ n \notin loadedSeeds
  /\ list' = list \ {n}
  /\ \E accepted \in BOOLEAN :
       /\ loadedSeeds' = Marked(n, accepted)
       /\ candidates'  = IF accepted THEN [candidates EXCEPT ![n] = @ + 1] ELSE candidates
  /\ UNCHANGED <<writerVars, repairVars, ghostVars, seeEndFlag, canShuffle, polled, pc,
                 crashes>>

\* doubles whatever is queued, in every pass
MutDoubled == [p \in Programs |-> 2 * candidates[p]]

Doubled == IF canShuffle THEN [p \in Programs |-> 2 * candidates[p]] ELSE candidates

EnrichEnds ==
  /\ pc = "load" /\ list = {}
  /\ pc' = "sleep"
  /\ candidates' = Doubled
  /\ canShuffle' = FALSE
  /\ UNCHANGED <<writerVars, repairVars, seeEndFlag, loadedSeeds, polled, ghostVars, list,
                 crashes>>

----------------------------------------------------------------------------
\* A fuzzer process polls and takes a candidate; the RPC takes mgr.mu.
Poll(p) ==
  /\ pc # "load" /\ candidates[p] > 0
  /\ candidates' = [candidates EXCEPT ![p] = @ - 1]
  /\ polled' = IF p = Other THEN polled ELSE [polled EXCEPT ![p] = @ + 1]
  /\ UNCHANGED <<writerVars, repairVars, seeEndFlag, loadedSeeds, canShuffle, ghostVars,
                 pc, list, crashes>>

\* The manager dies and is started again in the same workdir: what it had in memory is
\* gone, and syz-repair, its child, dies with it.
Restart ==
  /\ crashes < MaxCrashes
  /\ crashes' = crashes + 1
  /\ pc' = "sleep" /\ seeEndFlag' = 0 /\ list' = {}
  /\ RepairerGone
  /\ loadedSeeds' = {} /\ canShuffle' = FALSE /\ polled' = [n \in Names |-> 0]
  /\ candidates' \in AtStart
  /\ UNCHANGED <<writing, endFlag, writes, stops, missed, shortened, promised>>

----------------------------------------------------------------------------
EnrichStep ==
  \/ Wake \/ RepairBegins
  \/ \E n \in Names : RepairReads(n)
  \/ RepairTruncates \/ RepairWrites \/ RepairEnds
  \/ EnrichBegins
  \/ \E n \in Names : SkipsLoaded(n) \/ Loads(n)
  \/ EnrichEnds

Next ==
  \/ \E n \in Names : WriterOpens(n) \/ WriterFills(n) \/ WriterDies(n)
  \/ NotifyGenerationEnd
  \/ EnrichStep
  \/ RepairStops \/ Restart
  \/ \E p \in Programs : Poll(p)

Spec == Init /\ [][Next]_vars

\* The goroutine is scheduled, its timer fires and RunCmd ends within two minutes.
FairSpec == Spec /\ WF_vars(EnrichStep)

----------------------------------------------------------------------------
(* Properties.                                                              *)

\* Between two starts of the manager the fuzzer processes are handed a generated seed
\* at most twice, however often passes find it and whatever they find queued: once as
\* it is loaded, and once more only if the queue was empty when its pass began (patch
\* lines 329-332 and 358-364; the lock keeps every poll out of a pass).
HandedTwiceAtMost ==
  \A n \in Names : polled[n] + candidates[n] <= 2

\* No seed is wiped or garbled for good unless the generator and syz-repair, which
\* rewrites every file in place, had it in hand at once, or one of them was stopped
\* half way through it, or syz-repair itself put back less than it found: its rules
\* left no line of this seed, or its scanner did not get past a line of it. Where the
\* last is not so, what syz-repair read whole it writes back whole.
WipedExplained ==
  \A n \in OnDisk :
    seed[n] \in {"empty", "torn"} =>
      n \in writing \cup clashed \cup shortened \/ (pc = "trunc" /\ cur = n)

\* A seed the manager takes unrepaired, and so for good, was written since the pass
\* began to repair, or is being written, or the repair was cut short, or is what
\* syz-repair left of one it could not keep.
UnrepairedExplained ==
  [][Repair => \A n \in loadedSeeds' \ loadedSeeds :
                 seed[n] = "fixed"
                   \/ n \in missed \cup writing \cup clashed \cup shortened]_vars

\* After GENERATION_END the enrich loop ends: the flag is met twice, not once or never.
EnrichmentEnds == endFlag ~> pc = "done"

\* What is on disk when the flag is created is loaded before the loop ends: one whole
\* pass lies between the two sightings of the flag, with the manager up, whatever was
\* cut short or written meanwhile (and a restart forgets what was loaded and seen).
PromisedLoaded ==
  pc = "done" => promised \subseteq loadedSeeds

\* And so every seed that was there comes to be loaded, if the loop comes to its end.
LastSeedsLoaded ==
  \A n \in Names : n \in promised ~> n \in loadedSeeds

\* What EnrichmentEnds rests on: once the flag is there, whatever moves the loop of one
\* manager brings it nearer to its end. It meets the flag once more, or comes further in
\* its pass, gets through its list, or is further with the file in hand.
Stage == [start |-> 4, repair |-> 3, read |-> 3, trunc |-> 3, lock |-> 2, load |-> 1,
          sleep |-> 0, done |-> 0]
InFile == [p \in DOMAIN Stage |-> CASE p = "read" -> 2 [] p = "trunc" -> 1 [] OTHER -> 0]
Nearer ==
  \/ seeEndFlag' > seeEndFlag
  \/ /\ seeEndFlag' = seeEndFlag
     /\ \/ Stage[pc'] < Stage[pc]
        \/ Stage[pc'] = Stage[pc] /\ list' \subseteq list /\ list' # list
        \/ Stage[pc'] = Stage[pc] /\ list' = list /\ InFile[pc'] < InFile[pc]
EnrichmentNears ==
  [][endFlag /\ crashes' = crashes /\ <<pc, seeEndFlag, list>>' # <<pc, seeEndFlag, list>>
       => Nearer /\ seeEndFlag' <= 2]_vars

\* fuzzer/README.md:77 says of -repair: "Repair the enriched seeds with our heuristic
\* rules before loading."
RepairedBeforeLoading ==
  [][Repair => \A n \in loadedSeeds' \ loadedSeeds : seed[n] # "raw"]_vars
=============================================================================
