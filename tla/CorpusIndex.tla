---------------------------- MODULE CorpusIndex ----------------------------
(***************************************************************************)
(* syz-db parse: unpacks the records of a corpus database that the          *)
(* directory does not hold yet and adds them to reverse_index.json, from    *)
(* syscalls to the files of programs that use them, which the generator     *)
(* picks its examples by.  The index lies beside the directory, so that an  *)
(* external corpus and the fuzzer's share one.  A record is known by its    *)
(* file alone; the index is saved once, at the end of a run.                *)
(***************************************************************************)
EXTENDS Naturals, FiniteSets

CONSTANTS
  Calls,
  Dirs,         \* directories parsed into: corpus, external_corpus
  Progs,        \* keys a database can have
  Uses,         \* Uses[p][c]: how often program p calls c
  Skipped,      \* programs of 1000 bytes and more, or that do not deserialize
  MaxRuns,      \* bound: runs of syz-db parse
  MaxCrashes    \* bound: runs that die

ASSUME UsesAssumption  == Uses \in [Progs -> [Calls -> Nat]]
ASSUME SkipAssumption  == Skipped \subseteq Progs
ASSUME BoundAssumption == MaxRuns \in Nat /\ MaxCrashes \in Nat

Files == Dirs \X Progs

BlankIndex == [c \in Calls |-> [f \in Files |-> 0]]

VARIABLES
  db,           \* records of the databases
  disk,         \* files of the directories: "absent", "part", "whole"
  saved,        \* reverse_index.json, once a run has saved it: files per call, and how often
  torn,         \* it is truncated
  pc, dir,      \* the run, and the directory it works for
  exist,        \* existSeedNames
  todo,         \* records it has still to look at
  cur,          \* the file it is writing
  index,        \* reverseIndex, in memory
  runs, crashes,                            \* bounds
  lost          \* history: files on disk when a run died that has not saved them

fileVars  == <<db, disk, saved, torn>>
runVars   == <<pc, dir, exist, todo, cur, index>>
boundVars == <<runs, crashes>>
vars == <<fileVars, runVars, boundVars, lost>>

AnyFile == CHOOSE f \in Files : TRUE
OnDisk  == {f \in Files : disk[f] # "absent"}

Gone ==
  /\ pc' = "idle" /\ exist' = {} /\ todo' = {}
  /\ cur' = AnyFile /\ index' = BlankIndex /\ dir' = AnyFile[1]

Init ==
  /\ db = {} /\ disk = [f \in Files |-> "absent"]
  /\ saved = BlankIndex /\ torn = FALSE
  /\ pc = "idle" /\ dir = AnyFile[1] /\ exist = {} /\ todo = {}
  /\ cur = AnyFile /\ index = BlankIndex
  /\ runs = 0 /\ crashes = 0 /\ lost = {}

----------------------------------------------------------------------------
\* The fuzzer adds to its corpus and minimizes it.
DbAdds(f) ==
  /\ f \notin db
  /\ db' = db \cup {f}
  /\ UNCHANGED <<disk, saved, torn, runVars, boundVars, lost>>

DbDrops(f) ==
  /\ f \in db
  /\ db' = db \ {f}
  /\ UNCHANGED <<disk, saved, torn, runVars, boundVars, lost>>

\* every run builds the index anew
MutLoaded == BlankIndex

\* loadReverseIndex: what cannot be decoded is an empty index.
Loaded == IF torn THEN BlankIndex ELSE saved

Listing(d) == {f \in OnDisk : f[1] = d}

\* The database is read into memory, the directory listed and the index loaded.
Begin(d) ==
  /\ pc = "idle" /\ runs < MaxRuns
  /\ runs' = runs + 1
  /\ pc' = "scan" /\ dir' = d
  /\ todo'  = {f \in db : f[1] = d}
  /\ exist' = Listing(d)
  /\ index' = Loaded
  /\ UNCHANGED <<fileVars, cur, crashes, lost>>

\* the listing is not asked
MutNew(f) == TRUE

New(f) == f \notin exist

SkipExisting(f) ==
  /\ pc = "scan" /\ f \in todo /\ ~New(f)
  /\ todo' = todo \ {f}
  /\ UNCHANGED <<fileVars, pc, dir, exist, cur, index, boundVars, lost>>

\* osutil.WriteFile creates the file, or truncates it ...
OpenFile(f) ==
  /\ pc = "scan" /\ f \in todo /\ New(f)
  /\ todo' = todo \ {f}
  /\ pc' = "write" /\ cur' = f
  /\ disk' = [disk EXCEPT ![f] = "part"]
  /\ UNCHANGED <<db, saved, torn, dir, exist, index, boundVars, lost>>

Indexable(f) == f[2] \notin Skipped

\* only under the calls that no file has been known for
MutWithFile(f) ==
  [c \in Calls |-> IF \A g \in Files : index[c][g] = 0
                   THEN [index[c] EXCEPT ![f] = Uses[f[2]][c]] ELSE index[c]]

\* Under each of the calls, as often as the program has it.
WithFile(f) ==
  [c \in Calls |-> [index[c] EXCEPT ![f] = @ + Uses[f[2]][c]]]

\* ... and fills it; then the program is indexed.
WriteFile ==
  /\ pc = "write"
  /\ pc' = "scan"
  /\ disk'  = [disk EXCEPT ![cur] = "whole"]
  /\ index' = IF Indexable(cur) THEN WithFile(cur) ELSE index
  /\ cur'   = AnyFile
  /\ UNCHANGED <<db, saved, torn, dir, exist, todo, boundVars, lost>>

\* saveReverseIndex truncates the file ...
OpenIndex ==
  /\ pc = "scan" /\ todo = {}
  /\ pc' = "save"
  /\ torn' = TRUE
  /\ UNCHANGED <<db, disk, saved, dir, exist, todo, cur, index, boundVars, lost>>

\* ... and encodes the index into it.
SaveIndex ==
  /\ pc = "save"
  /\ saved' = index /\ torn' = FALSE
  /\ Gone
  /\ UNCHANGED <<db, disk, boundVars, lost>>

\* a file that cannot be written is logged, and the index saved
MutWriteFails ==
  /\ pc = "write" /\ crashes < MaxCrashes
  /\ crashes' = crashes + 1
  /\ pc' = "scan" /\ cur' = AnyFile
  /\ index' = IF Indexable(cur) THEN WithFile(cur) ELSE index
  /\ UNCHANGED <<fileVars, dir, exist, todo, runs, lost>>

\* Files this run has unpacked: none of them is in the index on disk.
Unsaved == {f \in OnDisk : f[1] = dir /\ f \notin exist}

\* tool.Failf: what was unpacked stays, and so does the old index.
WriteFails ==
  /\ pc = "write" /\ crashes < MaxCrashes
  /\ crashes' = crashes + 1
  /\ lost' = lost \cup Unsaved
  /\ Gone
  /\ UNCHANGED <<fileVars, runs>>

\* The run is killed at any other point; while it saves, the index goes with it.
Crash ==
  /\ pc \in {"scan", "save"} /\ crashes < MaxCrashes
  /\ crashes' = crashes + 1
  /\ lost' = IF pc = "save" THEN OnDisk ELSE lost \cup Unsaved
  /\ Gone
  /\ UNCHANGED <<fileVars, runs>>

Next ==
  \/ \E f \in Files : DbAdds(f) \/ DbDrops(f) \/ SkipExisting(f) \/ OpenFile(f)
  \/ \E d \in Dirs : Begin(d)
  \/ WriteFile \/ OpenIndex \/ SaveIndex \/ WriteFails \/ Crash

Spec == Init /\ [][Next]_vars

----------------------------------------------------------------------------
(* Properties.                                                              *)

\* A file the index names is whole, and will be when the generator comes to read it:
\* what a run that died left half written is never indexed.
IndexedFilesWhole ==
  \A c \in Calls, f \in Files : saved[c][f] > 0 => disk[f] = "whole"

\* However often a corpus is parsed, and whatever runs die between, no program is
\* indexed under a call more often than it uses it: none counts twice for an example.
IndexedOnce ==
  \A c \in Calls, f \in Files :
    saved[c][f] <= IF Indexable(f) THEN Uses[f[2]][c] ELSE 0

\* A program on disk that no index will ever name, since its file is there and so passes
\* for known, was lost by a run that died.
UnindexedExplained ==
  pc = "idle" =>
    \A c \in Calls, f \in Files :
      disk[f] = "whole" /\ f \notin lost /\ f[2] \notin Skipped =>
        saved[c][f] = Uses[f[2]][c]

\* From save to save the index forgets no file but those that a run which died took with
\* it, as all of them are when it died while saving.
IndexGrows ==
  [][\A c \in Calls, f \in Files :
       f \notin lost => saved[c][f] <= saved'[c][f]]_vars
=============================================================================
