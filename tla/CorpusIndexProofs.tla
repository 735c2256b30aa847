------------------------- MODULE CorpusIndexProofs -------------------------
(***************************************************************************)
(* CorpusIndex for every value of its constants: any calls, directories,    *)
(* programs and what they use, any number of runs and of runs that die.     *)
(***************************************************************************)
EXTENDS CorpusIndex, TLAPS

Indices == [Calls -> [Files -> Nat]]

\* Types, and that a run writes a file of its directory that it has not found there.
TypeInv ==
  /\ db \subseteq Files /\ disk \in [Files -> {"absent", "part", "whole"}]
  /\ saved \in Indices /\ torn \in BOOLEAN
  /\ pc \in {"idle", "scan", "write", "save"}
  /\ exist \subseteq Files /\ todo \subseteq Files /\ index \in Indices
  /\ pc = "write" => cur \in Files
  /\ runs \in Nat /\ crashes \in Nat /\ lost \subseteq Files

\* Indices are looked up and changed file by file.
LEMMA UsesNat ==
  ASSUME NEW f \in Files, NEW c \in Calls
  PROVE  Uses[f[2]][c] \in Nat
BY UsesAssumption DEF Files

LEMMA Blank ==
  /\ BlankIndex \in Indices
  /\ \A c \in Calls, f \in Files : BlankIndex[c][f] = 0
BY DEF BlankIndex, Indices

LEMMA FileAdded ==
  ASSUME index \in Indices, NEW g \in Files
  PROVE  /\ WithFile(g) \in Indices
         /\ \A c \in Calls, f \in Files :
              WithFile(g)[c][f] = IF f = g THEN index[c][f] + Uses[f[2]][c] ELSE index[c][f]
<1>1. \A c \in Calls : Uses[g[2]][c] \in Nat
  BY UsesNat
<1>2. QED
  BY <1>1 DEF WithFile, Indices

LEMMA TypeInit == Init => TypeInv
<1> SUFFICES ASSUME Init PROVE TypeInv
  OBVIOUS
<1>1. saved \in Indices /\ index \in Indices
  BY Blank DEF Init
<1>2. QED
  BY <1>1 DEF Init, TypeInv

LEMMA TypeStep == TypeInv /\ [Next]_vars => TypeInv'
<1> SUFFICES ASSUME TypeInv, [Next]_vars PROVE TypeInv'
  OBVIOUS
<1>1. ASSUME NEW f \in Files, DbAdds(f) PROVE TypeInv'
  BY <1>1 DEF TypeInv, DbAdds, runVars, boundVars
<1>2. ASSUME NEW f \in Files, DbDrops(f) PROVE TypeInv'
  BY <1>2 DEF TypeInv, DbDrops, runVars, boundVars
<1>3. ASSUME NEW f \in Files, SkipExisting(f) PROVE TypeInv'
  BY <1>3 DEF TypeInv, SkipExisting, fileVars, boundVars
<1>4. ASSUME NEW f \in Files, OpenFile(f) PROVE TypeInv'
  BY <1>4 DEF TypeInv, OpenFile, boundVars
<1>5. ASSUME NEW d \in Dirs, Begin(d) PROVE TypeInv'
  BY <1>5 DEF TypeInv, Indices, BlankIndex, Begin, Listing, Loaded, fileVars, OnDisk
<1>6. CASE WriteFile

  <2>1. cur \in Files /\ index' \in Indices
    BY <1>6, FileAdded DEF TypeInv, WriteFile
  <2>2. QED
    BY <1>6, <2>1 DEF TypeInv, WriteFile, boundVars
<1>7. CASE OpenIndex
  BY <1>7 DEF TypeInv, OpenIndex, boundVars
<1>8. CASE SaveIndex
  BY <1>8 DEF TypeInv, Indices, BlankIndex, SaveIndex, Gone, boundVars
<1>9. CASE WriteFails
  BY <1>9 DEF TypeInv, Indices, BlankIndex, WriteFails, Unsaved, Gone, fileVars, OnDisk
<1>10. CASE Crash
  BY <1>10 DEF TypeInv, Indices, BlankIndex, Crash, OnDisk, Unsaved, Gone, fileVars
<1>11. CASE UNCHANGED vars
  BY <1>11 DEF TypeInv, vars, fileVars, runVars, boundVars
<1>12. QED
  BY <1>1, <1>2, <1>3, <1>4, <1>5, <1>6, <1>7, <1>8, <1>9, <1>10, <1>11 DEF Next

----------------------------------------------------------------------------
(* A run and the files.  What it has still to look at and did not find in    *)
(* its listing is not there, so that what it writes it writes for the first  *)
(* time.                                                                     *)

\* A file that this run has put, or is putting, on disk.
Mine(f) == pc # "idle" /\ f[1] = dir /\ f \notin exist

FilesInv ==
  /\ pc # "idle" => \A f \in todo : f[1] = dir /\ (f \notin exist => disk[f] = "absent")
  /\ pc = "write" => Mine(cur) /\ cur \notin todo /\ disk[cur] = "part"

LEMMA FilesInit == Init => FilesInv
BY DEF Init, FilesInv

LEMMA FilesStep == TypeInv /\ FilesInv /\ [Next]_vars => FilesInv'
<1> SUFFICES ASSUME TypeInv, FilesInv, [Next]_vars PROVE FilesInv'
  OBVIOUS
<1>1. ASSUME NEW f \in Files, DbAdds(f) PROVE FilesInv'
  BY <1>1 DEF FilesInv, Mine, DbAdds, runVars
<1>2. ASSUME NEW f \in Files, DbDrops(f) PROVE FilesInv'
  BY <1>2 DEF FilesInv, Mine, DbDrops, runVars
<1>3. ASSUME NEW f \in Files, SkipExisting(f) PROVE FilesInv'
  BY <1>3 DEF FilesInv, SkipExisting, fileVars
<1>4. ASSUME NEW f \in Files, OpenFile(f) PROVE FilesInv'
  BY <1>4 DEF TypeInv, FilesInv, Mine, OpenFile, New
<1>5. ASSUME NEW d \in Dirs, Begin(d) PROVE FilesInv'
  BY <1>5 DEF TypeInv, FilesInv, Begin, Listing, fileVars, OnDisk
<1>6. CASE WriteFile
  BY <1>6 DEF FilesInv, WriteFile
<1>7. CASE OpenIndex
  BY <1>7 DEF FilesInv, OpenIndex
<1>8. CASE SaveIndex
  BY <1>8 DEF FilesInv, SaveIndex, Gone
<1>9. CASE WriteFails
  BY <1>9 DEF FilesInv, WriteFails, Gone
<1>10. CASE Crash
  BY <1>10 DEF FilesInv, Crash, Gone
<1>11. CASE UNCHANGED vars
  BY <1>11 DEF FilesInv, Mine, vars, fileVars, runVars
<1>12. QED
  BY <1>1, <1>2, <1>3, <1>4, <1>5, <1>6, <1>7, <1>8, <1>9, <1>10, <1>11 DEF Next

----------------------------------------------------------------------------
(* Of both indices, the saved one and that of the run, only whole files have  *)
(* a place in them, and none more often than its program has the call: a run  *)
(* adds a file only where there was none, which neither index has counted.    *)

WholeInv ==
  \A c \in Calls, f \in Files :
    /\ saved[c][f] > 0 \/ index[c][f] > 0 => disk[f] = "whole"
    /\ saved[c][f] <= IF Indexable(f) THEN Uses[f[2]][c] ELSE 0
    /\ index[c][f] <= IF Indexable(f) THEN Uses[f[2]][c] ELSE 0

LEMMA WholeInit == Init => WholeInv
BY Blank, UsesNat DEF Init, WholeInv

LEMMA WholeStep == TypeInv /\ FilesInv /\ WholeInv /\ [Next]_vars => WholeInv'
<1> SUFFICES ASSUME TypeInv, FilesInv, WholeInv, [Next]_vars PROVE WholeInv'
  OBVIOUS
<1>1. ASSUME NEW f \in Files, DbAdds(f) PROVE WholeInv'
  BY <1>1 DEF WholeInv, DbAdds, runVars
<1>2. ASSUME NEW f \in Files, DbDrops(f) PROVE WholeInv'
  BY <1>2 DEF WholeInv, DbDrops, runVars
<1>3. ASSUME NEW f \in Files, SkipExisting(f) PROVE WholeInv'
  BY <1>3 DEF WholeInv, SkipExisting, fileVars
<1>4. ASSUME NEW f \in Files, OpenFile(f) PROVE WholeInv'
  BY <1>4 DEF FilesInv, WholeInv, OpenFile, New
<1>5. ASSUME NEW d \in Dirs, Begin(d) PROVE WholeInv'

  <2>1. index' = saved \/ index' = BlankIndex
    BY <1>5 DEF Begin, Loaded
  <2>2. ASSUME NEW c \in Calls, NEW f \in Files
        PROVE  index'[c][f] = saved[c][f] \/ index'[c][f] = 0
    BY <2>1, Blank
  <2>3. saved' = saved /\ disk' = disk
    BY <1>5 DEF Begin, fileVars
  <2>4. QED
    BY <2>2, <2>3, UsesNat DEF WholeInv
<1>6. CASE WriteFile

  <2>1. /\ cur \in Files /\ disk[cur] = "part" /\ saved' = saved
        /\ disk'[cur] = "whole" /\ \A f \in Files \ {cur} : disk'[f] = disk[f]
    BY <1>6 DEF TypeInv, FilesInv, WriteFile
  <2>2. ASSUME NEW c \in Calls
        PROVE  /\ index'[c][cur] = IF Indexable(cur) THEN Uses[cur[2]][c] ELSE 0
               /\ \A f \in Files \ {cur} : index'[c][f] = index[c][f]
    <3>1. index[c][cur] = 0
      BY <2>1 DEF TypeInv, Indices, WholeInv
    <3>2. QED
      BY <1>6, <2>1, <3>1, FileAdded, UsesNat DEF TypeInv, WriteFile
  <2>3. QED
    BY <2>1, <2>2, UsesNat DEF WholeInv
<1>7. CASE OpenIndex
  BY <1>7 DEF WholeInv, OpenIndex
<1>8. CASE SaveIndex

  BY <1>8, Blank, UsesNat DEF WholeInv, SaveIndex, Gone
<1>9. CASE WriteFails

  BY <1>9, Blank, UsesNat DEF WholeInv, WriteFails, Gone, fileVars
<1>10. CASE Crash

  BY <1>10, Blank, UsesNat DEF WholeInv, Crash, Gone, fileVars
<1>11. CASE UNCHANGED vars
  BY <1>11 DEF WholeInv, vars, fileVars, runVars
<1>12. QED
  BY <1>1, <1>2, <1>3, <1>4, <1>5, <1>6, <1>7, <1>8, <1>9, <1>10, <1>11 DEF Next

----------------------------------------------------------------------------
(* What is missing.  A file that is not lost is in the index of the run, and  *)
(* in the saved one unless it is of this run; an index that was cut off while *)
(* it was saved has taken all files with it but those of the run since.       *)

TornInv == torn /\ pc # "save" => \A f \in OnDisk : f \in lost \/ Mine(f)

FullInv ==
  \A c \in Calls, f \in Files \ lost :
    /\ disk[f] = "whole" /\ Indexable(f) =>
         /\ pc # "idle" => index[c][f] = Uses[f[2]][c]
         /\ saved[c][f] = Uses[f[2]][c] \/ Mine(f)
    /\ pc # "idle" => saved[c][f] <= index[c][f]

LEMMA FullInit == Init => TornInv /\ FullInv
BY DEF Init, TornInv, FullInv

LEMMA TornStep == TypeInv /\ FilesInv /\ TornInv /\ [Next]_vars => TornInv'
<1> SUFFICES ASSUME TypeInv, FilesInv, TornInv, [Next]_vars PROVE TornInv'
  OBVIOUS
<1>1. ASSUME NEW f \in Files, DbAdds(f) PROVE TornInv'
  BY <1>1 DEF TornInv, Mine, OnDisk, DbAdds, runVars
<1>2. ASSUME NEW f \in Files, DbDrops(f) PROVE TornInv'
  BY <1>2 DEF TornInv, Mine, OnDisk, DbDrops, runVars
<1>3. ASSUME NEW f \in Files, SkipExisting(f) PROVE TornInv'
  BY <1>3 DEF TornInv, Mine, OnDisk, SkipExisting, fileVars
<1>4. ASSUME NEW f \in Files, OpenFile(f) PROVE TornInv'
  BY <1>4 DEF FilesInv, TornInv, Mine, OnDisk, OpenFile, New
<1>5. ASSUME NEW d \in Dirs, Begin(d) PROVE TornInv'
  BY <1>5 DEF TornInv, Mine, OnDisk, Begin, fileVars
<1>6. CASE WriteFile
  BY <1>6 DEF FilesInv, TornInv, Mine, OnDisk, WriteFile
<1>7. CASE OpenIndex
  BY <1>7 DEF TornInv, OpenIndex
<1>8. CASE SaveIndex
  BY <1>8 DEF TornInv, SaveIndex
<1>9. CASE WriteFails
  BY <1>9 DEF TornInv, Mine, OnDisk, WriteFails, Unsaved, fileVars
<1>10. CASE Crash
  BY <1>10 DEF TornInv, Mine, OnDisk, Crash, Unsaved, fileVars
<1>11. CASE UNCHANGED vars
  BY <1>11 DEF TornInv, Mine, OnDisk, vars, fileVars, runVars
<1>12. QED
  BY <1>1, <1>2, <1>3, <1>4, <1>5, <1>6, <1>7, <1>8, <1>9, <1>10, <1>11 DEF Next

LEMMA FullStep == TypeInv /\ FilesInv /\ WholeInv /\ TornInv /\ FullInv /\ [Next]_vars => FullInv'
<1> SUFFICES ASSUME TypeInv, FilesInv, WholeInv, TornInv, FullInv, [Next]_vars PROVE FullInv'
  OBVIOUS
<1>1. ASSUME NEW f \in Files, DbAdds(f) PROVE FullInv'
  BY <1>1 DEF FullInv, Mine, DbAdds, runVars
<1>2. ASSUME NEW f \in Files, DbDrops(f) PROVE FullInv'
  BY <1>2 DEF FullInv, Mine, DbDrops, runVars
<1>3. ASSUME NEW f \in Files, SkipExisting(f) PROVE FullInv'
  BY <1>3 DEF FullInv, Mine, SkipExisting, fileVars
<1>4. ASSUME NEW f \in Files, OpenFile(f) PROVE FullInv'
  BY <1>4 DEF FullInv, Mine, OpenFile
<1>5. ASSUME NEW d \in Dirs, Begin(d) PROVE FullInv'
  BY <1>5 DEF TypeInv, Indices, WholeInv, TornInv, FullInv, Mine, OnDisk, Begin, Loaded,
     fileVars, BlankIndex
<1>6. CASE WriteFile

  <2>1. /\ cur \in Files /\ disk[cur] = "part" /\ saved' = saved /\ lost' = lost
        /\ disk'[cur] = "whole" /\ \A f \in Files \ {cur} : disk'[f] = disk[f]
    BY <1>6 DEF TypeInv, FilesInv, WriteFile
  <2>2. ASSUME NEW c \in Calls
        PROVE  /\ index'[c][cur] >= saved[c][cur]
               /\ Indexable(cur) => index'[c][cur] = Uses[cur[2]][c]
               /\ \A f \in Files \ {cur} : index'[c][f] = index[c][f]
    <3>1. index[c][cur] = 0 /\ saved[c][cur] = 0
      BY <2>1 DEF TypeInv, Indices, WholeInv
    <3>2. QED
      BY <1>6, <2>1, <3>1, FileAdded, UsesNat DEF TypeInv, WriteFile
  <2>3. cur[1] = dir /\ cur \notin exist /\ dir' = dir /\ exist' = exist
    BY <1>6 DEF FilesInv, Mine, WriteFile
  <2>4. pc # "idle" /\ pc' # "idle"
    BY <1>6 DEF WriteFile
  <2>5. ASSUME NEW c \in Calls, NEW f \in Files \ lost, f # cur
        PROVE  /\ disk'[f] = "whole" /\ Indexable(f) =>
                    /\ index'[c][f] = Uses[f[2]][c]
                    /\ saved'[c][f] = Uses[f[2]][c] \/ Mine(f)'
               /\ saved'[c][f] <= index'[c][f]
    BY <2>1, <2>2, <2>3, <2>4, <2>5 DEF FullInv, Mine
  <2>6. QED
    BY <2>1, <2>2, <2>3, <2>4, <2>5 DEF FullInv, Mine
<1>7. CASE OpenIndex
  BY <1>7 DEF FullInv, Mine, OpenIndex
<1>8. CASE SaveIndex
  BY <1>8 DEF FullInv, SaveIndex, Gone
<1>9. CASE WriteFails
  BY <1>9 DEF FullInv, Mine, OnDisk, WriteFails, Unsaved, Gone, fileVars
<1>10. CASE Crash
  BY <1>10 DEF FullInv, Mine, OnDisk, Crash, Unsaved, Gone, fileVars
<1>11. CASE UNCHANGED vars
  BY <1>11 DEF FullInv, Mine, vars, fileVars, runVars
<1>12. QED
  BY <1>1, <1>2, <1>3, <1>4, <1>5, <1>6, <1>7, <1>8, <1>9, <1>10, <1>11 DEF Next

IndexInv == TypeInv /\ FilesInv /\ WholeInv /\ TornInv /\ FullInv

LEMMA IndexHolds == Spec => []IndexInv
<1>1. Init => IndexInv
  BY TypeInit, FilesInit, WholeInit, FullInit DEF IndexInv
<1>2. IndexInv /\ [Next]_vars => IndexInv'
  BY TypeStep, FilesStep, WholeStep, TornStep, FullStep DEF IndexInv
<1>3. QED
  BY <1>1, <1>2, PTL DEF Spec

\* The variables stay in their types (parseDB of syz-db and the files it works on).
THEOREM TypesKept == Spec => []TypeInv
BY IndexHolds DEF IndexInv

\* Whatever runs die, the index names no file that is not there or is cut short (patch
\* lines 601-626).
THEOREM NamedFilesWhole == Spec => []IndexedFilesWhole
<1>1. IndexInv => IndexedFilesWhole
  BY DEF IndexInv, WholeInv, IndexedFilesWhole
<1>2. QED
  BY <1>1, IndexHolds, PTL

\* No program counts more often for a call than it has the call, however often its
\* directory is parsed (patch lines 600-626).
THEOREM NoneCountedTwice == Spec => []IndexedOnce
<1>1. IndexInv => IndexedOnce
  BY DEF IndexInv, WholeInv, IndexedOnce
<1>2. QED
  BY <1>1, IndexHolds, PTL

\* Between runs the index is complete, up to what runs that died took with them
\* (patch lines 581-605, 628-657).
THEOREM MissingLost == Spec => []UnindexedExplained
<1>1. IndexInv => UnindexedExplained
  BY DEF IndexInv, FullInv, Mine, UnindexedExplained, Indexable
<1>2. QED
  BY <1>1, IndexHolds, PTL

\* Only SaveIndex writes the index that counts.
LEMMA SavedStep ==
  ASSUME [Next]_vars
  PROVE  saved' = saved \/ (pc = "save" /\ saved' = index)
<1>1. ASSUME NEW f \in Files, DbAdds(f) \/ DbDrops(f) \/ SkipExisting(f) \/ OpenFile(f)
      PROVE  saved' = saved
  BY <1>1 DEF DbAdds, DbDrops, SkipExisting, OpenFile, fileVars
<1>2. ASSUME NEW d \in Dirs, Begin(d) PROVE saved' = saved
  BY <1>2 DEF Begin, fileVars
<1>3. ASSUME WriteFile \/ OpenIndex \/ WriteFails \/ Crash PROVE saved' = saved
  BY <1>3 DEF WriteFile, OpenIndex, WriteFails, Crash, fileVars
<1>4. SaveIndex => pc = "save" /\ saved' = index
  BY DEF SaveIndex
<1>5. UNCHANGED vars => saved' = saved
  BY DEF vars, fileVars
<1>6. QED
  BY <1>1, <1>2, <1>3, <1>4, <1>5 DEF Next

\* No save forgets a file that no run which died took with it: not even after an index
\* that could not be decoded and was begun anew (patch lines 636-657).
THEOREM NothingForgotten == Spec => IndexGrows
<1>1. ASSUME IndexInv, [Next]_vars, NEW c \in Calls, NEW f \in Files, f \notin lost
      PROVE  saved[c][f] <= saved'[c][f]
  BY <1>1, SavedStep DEF IndexInv, FullInv, TypeInv, Indices
<1>2. IndexInv /\ [Next]_vars
        => [\A c \in Calls, f \in Files : f \notin lost => saved[c][f] <= saved'[c][f]]_vars
  BY <1>1
<1>3. QED
  BY <1>2, IndexHolds, PTL DEF Spec, IndexGrows
=============================================================================
