------------------------- MODULE SeedExchangeProofs -------------------------
(***************************************************************************)
(* SeedExchange for every value of its constants: any names, any number of  *)
(* writes, of repairs that are cut short and of restarts.                   *)
(***************************************************************************)
EXTENDS SeedExchange, TLAPS

Texts == {"absent", "empty", "raw", "fixed", "torn"}
PCs   == {"sleep", "start", "repair", "read", "trunc", "lock", "load", "done"}

\* Types, and that syz-repair has one of the names in hand while it rewrites a file.
TypeInv ==
  /\ seed \in [Names -> Texts] /\ writing \subseteq Names
  /\ endFlag \in BOOLEAN /\ pc \in PCs /\ seeEndFlag \in Nat /\ list \subseteq Names
  /\ cur \in Programs /\ (pc \in {"read", "trunc"} => cur \in Names) /\ text \in Texts
  /\ loadedSeeds \subseteq Names /\ candidates \in [Programs -> Nat]
  /\ canShuffle \in BOOLEAN /\ polled \in [Names -> Nat]
  /\ writes \in Nat /\ stops \in Nat /\ crashes \in Nat
  /\ missed \subseteq Names /\ clashed \subseteq Names
  /\ shortened \subseteq Names /\ promised \subseteq Names

LEMMA TypeInit == Init => TypeInv
<1> SUFFICES ASSUME Init PROVE TypeInv
  OBVIOUS
<1>1. candidates \in [Programs -> Nat]
  BY DEF Init, AtStart, NoCopies
<1>2. QED
  BY <1>1 DEF Init, TypeInv, Texts, PCs, Programs, None, WriterInit

LEMMA RepairerTyped ==
  ASSUME TypeInv, RepairerGone
  PROVE  seed' \in [Names -> Texts] /\ clashed' \subseteq Names
BY DEF TypeInv, RepairerGone, Texts

LEMMA TypeRepairStops ==
  ASSUME TypeInv, RepairStops
  PROVE  TypeInv'
<1>1. seed' \in [Names -> Texts] /\ clashed' \subseteq Names
  BY RepairerTyped DEF RepairStops
<1>2. cur' \in Programs /\ text' \in Texts /\ stops' \in Nat
  BY DEF TypeInv, RepairStops, RepairerGone, Programs, None, Texts
<1>3. QED
  BY <1>1, <1>2 DEF TypeInv, PCs, RepairStops, enrichVars

LEMMA TypeEnrichEnds ==
  ASSUME TypeInv, EnrichEnds
  PROVE  TypeInv'
<1>1. candidates' \in [Programs -> Nat]
  BY DEF TypeInv, EnrichEnds, Doubled
<1>2. QED
  BY <1>1 DEF TypeInv, PCs, EnrichEnds, writerVars, repairVars, ghostVars

LEMMA TypeRestart ==
  ASSUME TypeInv, Restart
  PROVE  TypeInv'
<1>1. seed' \in [Names -> Texts] /\ clashed' \subseteq Names
  BY RepairerTyped DEF Restart
<1>2. cur' \in Programs /\ text' \in Texts /\ crashes' \in Nat
  BY DEF TypeInv, Restart, RepairerGone, Programs, None, Texts
<1>3. candidates' \in [Programs -> Nat]
  BY DEF Restart, AtStart, NoCopies
<1>4. QED
  BY <1>1, <1>2, <1>3 DEF TypeInv, PCs, Restart

LEMMA TypeStep == TypeInv /\ [Next]_vars => TypeInv'
<1> SUFFICES ASSUME TypeInv, [Next]_vars PROVE TypeInv'
  OBVIOUS
<1>1. ASSUME NEW n \in Names, WriterOpens(n) PROVE TypeInv'
  BY <1>1 DEF TypeInv, Texts, WriterOpens, OpenSeed, repairVars, enrichVars
<1>2. ASSUME NEW n \in Names, WriterFills(n) PROVE TypeInv'
  BY <1>2 DEF TypeInv, Texts, WriterFills, Over, repairVars, enrichVars
<1>3. ASSUME NEW n \in Names, WriterDies(n) PROVE TypeInv'
  BY <1>3 DEF TypeInv, WriterDies, repairVars, enrichVars
<1>4. CASE NotifyGenerationEnd
  BY <1>4 DEF TypeInv, NotifyGenerationEnd, OnDisk, repairVars, enrichVars
<1>5. CASE Wake
  BY <1>5 DEF TypeInv, PCs, Wake, EndSeen, AfterWake, writerVars, repairVars, ghostVars
<1>6. CASE RepairBegins
  BY <1>6 DEF TypeInv, PCs, RepairBegins, OnDisk, writerVars, repairVars, enrichVars
<1>7. ASSUME NEW n \in Names, RepairReads(n) PROVE TypeInv'
  BY <1>7 DEF TypeInv, Texts, PCs, Programs, RepairReads, TextRead, writerVars, enrichVars,
     ReadLines, Repaired
<1>8. CASE RepairTruncates
  BY <1>8 DEF TypeInv, Texts, PCs, RepairTruncates, repairVars, enrichVars
<1>9. CASE RepairWrites
  BY <1>9 DEF TypeInv, Texts, PCs, Programs, RepairWrites, Written, Over, None, enrichVars,
     ghostVars
<1>10. CASE RepairEnds
  BY <1>10 DEF TypeInv, PCs, RepairEnds, writerVars, repairVars, enrichVars, ghostVars
<1>11. CASE EnrichBegins
  BY <1>11 DEF TypeInv, PCs, EnrichBegins, OnDisk, writerVars, repairVars, ghostVars
<1>12. ASSUME NEW n \in Names, SkipsLoaded(n) PROVE TypeInv'
  BY <1>12 DEF TypeInv, SkipsLoaded, writerVars, repairVars, enrichVars, ghostVars
<1>13. ASSUME NEW n \in Names, Loads(n) PROVE TypeInv'
  BY <1>13 DEF TypeInv, Programs, Loads, Marked, writerVars, repairVars, ghostVars
<1>14. ASSUME NEW p \in Programs, Poll(p) PROVE TypeInv'
  BY <1>14 DEF TypeInv, Programs, Poll, writerVars, repairVars, ghostVars
<1>15. CASE UNCHANGED vars
  BY <1>15 DEF TypeInv, vars, writerVars, repairVars, enrichVars, ghostVars
<1>16. QED
  BY <1>1, <1>2, <1>3, <1>4, <1>5, <1>6, <1>7, <1>8, <1>9, <1>10, <1>11, <1>12, <1>13,
     <1>14, <1>15, TypeRepairStops, TypeEnrichEnds, TypeRestart DEF Next, EnrichStep

\* The variables stay in their types (the seed directory, syz-repair and the enrich loop).
THEOREM TypesKept == Spec => []TypeInv
BY TypeInit, TypeStep, PTL DEF Spec

----------------------------------------------------------------------------
(* Who may write a file.  A name the generator has open and syz-repair has   *)
(* not met is empty, so that the flush makes it whole; a name syz-repair has *)
(* in hand and the generator has not opened is as syz-repair left it, and    *)
(* its text is a whole one unless syz-repair has put the name down as        *)
(* shortened before it opened the file again.                                *)
(* Neither half is inductive without the other, nor without the property.    *)

WritesInv ==
  /\ writing \subseteq OnDisk
  /\ \A n \in writing \ clashed : seed[n] = "empty"

InHandInv ==
  /\ list \subseteq OnDisk /\ text # "absent"
  /\ pc \in {"read", "trunc"} <=> cur # None
  /\ cur # None => cur \in OnDisk
  /\ cur # None /\ cur \notin clashed =>
       /\ cur \notin writing /\ text \in {"empty", "torn", "fixed"}
       /\ pc = "trunc" => seed[cur] = "empty" /\ (text = "fixed" \/ cur \in shortened)

HandInv == WritesInv /\ InHandInv /\ WipedExplained

LEMMA HandInit == Init => HandInv
BY DEF Init, WriterInit, HandInv, WritesInv, InHandInv, WipedExplained, OnDisk

LEMMA HandStep == TypeInv /\ HandInv /\ [Next]_vars => HandInv'
<1> SUFFICES ASSUME TypeInv, HandInv, [Next]_vars PROVE HandInv'
  OBVIOUS
<1>1. ASSUME NEW n \in Names, WriterOpens(n) PROVE HandInv'
  BY <1>1 DEF TypeInv, HandInv, WritesInv, InHandInv, WipedExplained, OnDisk, WriterOpens,
     OpenSeed, repairVars
<1>2. ASSUME NEW n \in Names, WriterFills(n) PROVE HandInv'
  BY <1>2 DEF TypeInv, HandInv, WritesInv, InHandInv, WipedExplained, OnDisk, WriterFills,
     Over, repairVars
<1>3. ASSUME NEW n \in Names, WriterDies(n) PROVE HandInv'
  BY <1>3 DEF HandInv, WritesInv, InHandInv, WipedExplained, OnDisk, WriterDies, repairVars
<1>4. CASE NotifyGenerationEnd
  BY <1>4 DEF HandInv, WritesInv, InHandInv, WipedExplained, OnDisk, NotifyGenerationEnd,
     repairVars
<1>5. CASE Wake
  BY <1>5 DEF HandInv, WritesInv, InHandInv, WipedExplained, OnDisk, Wake, AfterWake,
     writerVars, repairVars, ghostVars
<1>6. CASE RepairBegins
  BY <1>6 DEF HandInv, WritesInv, InHandInv, WipedExplained, OnDisk, RepairBegins,
     writerVars, repairVars
<1>7. ASSUME NEW n \in Names, RepairReads(n) PROVE HandInv'
  BY <1>7, OtherAssumption DEF TypeInv, Texts, HandInv, WritesInv, InHandInv,
     WipedExplained, OnDisk, None, RepairReads, TextRead, writerVars, ReadLines, Repaired
<1>8. CASE RepairTruncates
  BY <1>8 DEF TypeInv, HandInv, WritesInv, InHandInv, WipedExplained, OnDisk,
     RepairTruncates, repairVars
<1>9. CASE RepairWrites
  BY <1>9 DEF TypeInv, HandInv, WritesInv, InHandInv, WipedExplained, OnDisk, RepairWrites,
     Written, Over, ghostVars
<1>10. CASE RepairEnds
  BY <1>10 DEF HandInv, WritesInv, InHandInv, WipedExplained, OnDisk, RepairEnds,
     writerVars, repairVars, ghostVars
<1>11. CASE RepairStops
  BY <1>11 DEF TypeInv, HandInv, WritesInv, InHandInv, WipedExplained, OnDisk, RepairStops,
     RepairerGone
<1>12. CASE EnrichBegins
  BY <1>12 DEF HandInv, WritesInv, InHandInv, WipedExplained, OnDisk, EnrichBegins,
     writerVars, repairVars, ghostVars
<1>13. ASSUME NEW n \in Names, SkipsLoaded(n) PROVE HandInv'
  BY <1>13 DEF HandInv, WritesInv, InHandInv, WipedExplained, OnDisk, SkipsLoaded,
     writerVars, repairVars, ghostVars
<1>14. ASSUME NEW n \in Names, Loads(n) PROVE HandInv'
  BY <1>14 DEF HandInv, WritesInv, InHandInv, WipedExplained, OnDisk, Loads, writerVars,
     repairVars, ghostVars
<1>15. CASE EnrichEnds
  BY <1>15 DEF HandInv, WritesInv, InHandInv, WipedExplained, OnDisk, EnrichEnds,
     writerVars, repairVars, ghostVars
<1>16. ASSUME NEW p \in Programs, Poll(p) PROVE HandInv'
  BY <1>16 DEF HandInv, WritesInv, InHandInv, WipedExplained, OnDisk, Poll, writerVars,
     repairVars, ghostVars
<1>17. CASE Restart
  BY <1>17 DEF TypeInv, HandInv, WritesInv, InHandInv, WipedExplained, OnDisk, Restart,
     RepairerGone
<1>18. CASE UNCHANGED vars
  BY <1>18 DEF HandInv, WritesInv, InHandInv, WipedExplained, OnDisk, vars, writerVars,
     repairVars, ghostVars
<1>19. QED
  BY <1>1, <1>2, <1>3, <1>4, <1>5, <1>6, <1>7, <1>8, <1>9, <1>10, <1>11, <1>12, <1>13,
     <1>14, <1>15, <1>16, <1>17, <1>18 DEF Next, EnrichStep

LEMMA HandHolds == Spec => [](TypeInv /\ HandInv)
<1>1. Init => TypeInv /\ HandInv
  BY TypeInit, HandInit
<1>2. TypeInv /\ HandInv /\ [Next]_vars => (TypeInv /\ HandInv)'
  BY TypeStep, HandStep
<1>3. QED
  BY <1>1, <1>2, PTL DEF Spec

\* However the generator, syz-repair and restarts interleave, a seed is left empty or
\* garbled only where two of them met on it, or one was stopped half way, or syz-repair
\* kept no line or but the head of it: no order of steps alone loses one that syz-repair
\* read and kept whole (generator/utils.py 195-203, patch lines 1302-1345, 1484-1501,
\* 1642-1660, 1678-1693).
THEOREM SeedsNotWiped == Spec => []WipedExplained
BY HandHolds DEF HandInv

----------------------------------------------------------------------------
(* How often a seed is handed out.  A pass that doubles found the queue       *)
(* empty, and no poll comes between: during it a seed is queued once at most  *)
(* and then has been handed to nobody.                                        *)

CopiesInv ==
  /\ canShuffle => pc = "load"
  /\ \A n \in Names \ loadedSeeds : polled[n] = 0 /\ candidates[n] = 0
  /\ canShuffle => \A n \in Names :
                     candidates[n] = 0 \/ (candidates[n] = 1 /\ polled[n] = 0)
  /\ HandedTwiceAtMost

LEMMA CopiesInit == Init => CopiesInv
BY OtherAssumption
   DEF Init, CopiesInv, HandedTwiceAtMost, Programs, AtStart, NoCopies

LEMMA CopiesEnrichBegins ==
  ASSUME TypeInv, CopiesInv, EnrichBegins
  PROVE  CopiesInv'
<1>1. UNCHANGED <<candidates, polled, loadedSeeds>> /\ pc' = "load"
  BY DEF EnrichBegins
<1>2. canShuffle' => \A n \in Names : candidates[n] = 0
  BY DEF EnrichBegins, NoCopies, Programs
<1>3. QED
  BY <1>1, <1>2 DEF CopiesInv, HandedTwiceAtMost

LEMMA CopiesEnrichEnds ==
  ASSUME TypeInv, CopiesInv, EnrichEnds
  PROVE  CopiesInv'
<1>1. UNCHANGED <<polled, loadedSeeds>> /\ ~canShuffle'
  BY DEF EnrichEnds
<1>2. \A n \in Names : candidates[n] \in Nat /\ polled[n] \in Nat
  BY DEF TypeInv, Programs
<1>3. CASE canShuffle
  <2>1. \A n \in Names : candidates'[n] = 2 * candidates[n]
    BY <1>3 DEF EnrichEnds, Doubled, Programs
  <2>2. QED
    BY <1>1, <1>2, <1>3, <2>1 DEF CopiesInv, HandedTwiceAtMost
<1>4. CASE ~canShuffle
  <2>1. candidates' = candidates
    BY <1>4 DEF EnrichEnds, Doubled
  <2>2. QED
    BY <1>1, <2>1 DEF CopiesInv, HandedTwiceAtMost
<1>5. QED
  BY <1>3, <1>4

LEMMA CopiesStep == TypeInv /\ CopiesInv /\ [Next]_vars => CopiesInv'
<1> SUFFICES ASSUME TypeInv, CopiesInv, [Next]_vars PROVE CopiesInv'
  OBVIOUS
<1>1. ASSUME NEW n \in Names, WriterOpens(n) PROVE CopiesInv'
  BY <1>1 DEF CopiesInv, HandedTwiceAtMost, WriterOpens, enrichVars
<1>2. ASSUME NEW n \in Names, WriterFills(n) PROVE CopiesInv'
  BY <1>2 DEF CopiesInv, HandedTwiceAtMost, WriterFills, enrichVars
<1>3. ASSUME NEW n \in Names, WriterDies(n) PROVE CopiesInv'
  BY <1>3 DEF CopiesInv, HandedTwiceAtMost, WriterDies, enrichVars
<1>4. CASE NotifyGenerationEnd
  BY <1>4 DEF CopiesInv, HandedTwiceAtMost, NotifyGenerationEnd, enrichVars
<1>5. CASE Wake
  BY <1>5 DEF CopiesInv, HandedTwiceAtMost, Wake
<1>6. CASE RepairBegins
  BY <1>6 DEF CopiesInv, HandedTwiceAtMost, RepairBegins, enrichVars
<1>7. ASSUME NEW n \in Names, RepairReads(n) PROVE CopiesInv'
  BY <1>7 DEF CopiesInv, HandedTwiceAtMost, RepairReads, enrichVars
<1>8. CASE RepairTruncates
  BY <1>8 DEF CopiesInv, HandedTwiceAtMost, RepairTruncates, enrichVars
<1>9. CASE RepairWrites
  BY <1>9 DEF CopiesInv, HandedTwiceAtMost, RepairWrites, enrichVars
<1>10. CASE RepairEnds
  BY <1>10 DEF CopiesInv, HandedTwiceAtMost, RepairEnds, enrichVars
<1>11. CASE RepairStops
  BY <1>11 DEF CopiesInv, HandedTwiceAtMost, RepairStops, enrichVars
<1>12. ASSUME NEW n \in Names, SkipsLoaded(n) PROVE CopiesInv'
  BY <1>12 DEF CopiesInv, HandedTwiceAtMost, SkipsLoaded, enrichVars
<1>13. ASSUME NEW n \in Names, Loads(n) PROVE CopiesInv'
  BY <1>13 DEF CopiesInv, HandedTwiceAtMost, Loads, Marked
<1>14. ASSUME NEW p \in Programs, Poll(p) PROVE CopiesInv'
  BY <1>14 DEF TypeInv, CopiesInv, HandedTwiceAtMost, Poll
<1>15. CASE Restart
  BY <1>15, OtherAssumption DEF CopiesInv, HandedTwiceAtMost, Programs, Restart, AtStart,
     NoCopies
<1>16. CASE UNCHANGED vars
  BY <1>16 DEF CopiesInv, HandedTwiceAtMost, vars, enrichVars
<1>17. QED
  BY <1>1, <1>2, <1>3, <1>4, <1>5, <1>6, <1>7, <1>8, <1>9, <1>10, <1>11, <1>12, <1>13,
     <1>14, <1>15, <1>16, CopiesEnrichBegins, CopiesEnrichEnds DEF Next, EnrichStep

\* Between two starts of the manager no generated seed is handed out a third time
\* (patch lines 329-332, 347-364).
THEOREM NoThirdCopy == Spec => []HandedTwiceAtMost
<1>1. Init => TypeInv /\ CopiesInv
  BY TypeInit, CopiesInit
<1>2. TypeInv /\ CopiesInv /\ [Next]_vars => (TypeInv /\ CopiesInv)'
  BY TypeStep, CopiesStep
<1>3. TypeInv /\ CopiesInv => HandedTwiceAtMost
  BY DEF CopiesInv
<1>4. QED
  BY <1>1, <1>2, <1>3, PTL DEF Spec

----------------------------------------------------------------------------
(* What a pass has repaired.  The files it has read and put down are fixed or *)
(* shortened,                                                                 *)
(* or the writer touched them since, or the two met; when syz-repair is done  *)
(* this is all files, and those that come later are of the writer.            *)

Explained(n) ==
  seed[n] = "fixed" \/ n \in missed \cup writing \cup clashed \cup shortened

FixedInv ==
  Repair =>
    /\ pc \in {"repair", "read", "trunc"} => \A n \in OnDisk \ list : n = cur \/ Explained(n)
    /\ pc \in {"lock", "load"} => \A n \in OnDisk : Explained(n)

LEMMA FixedInit == Init => FixedInv
BY DEF Init, FixedInv

LEMMA FixedStep == TypeInv /\ HandInv /\ FixedInv /\ [Next]_vars => FixedInv'
<1> SUFFICES ASSUME TypeInv, HandInv, FixedInv, [Next]_vars PROVE FixedInv'
  OBVIOUS
<1>1. ASSUME NEW n \in Names, WriterOpens(n) PROVE FixedInv'
  BY <1>1 DEF FixedInv, Explained, OnDisk, WriterOpens, OpenSeed, repairVars
<1>2. ASSUME NEW n \in Names, WriterFills(n) PROVE FixedInv'
  BY <1>2 DEF FixedInv, Explained, OnDisk, WriterFills, repairVars
<1>3. ASSUME NEW n \in Names, WriterDies(n) PROVE FixedInv'
  BY <1>3 DEF FixedInv, Explained, OnDisk, WriterDies, repairVars
<1>4. CASE NotifyGenerationEnd
  BY <1>4 DEF FixedInv, Explained, OnDisk, NotifyGenerationEnd, repairVars
<1>5. CASE Wake
  BY <1>5 DEF FixedInv, Wake, AfterWake
<1>6. CASE RepairBegins
  BY <1>6 DEF FixedInv, OnDisk, RepairBegins, writerVars
<1>7. ASSUME NEW n \in Names, RepairReads(n) PROVE FixedInv'
  BY <1>7, OtherAssumption DEF HandInv, InHandInv, FixedInv, Explained, OnDisk, None,
     RepairReads, writerVars
<1>8. CASE RepairTruncates
  BY <1>8 DEF FixedInv, Explained, OnDisk, RepairTruncates, repairVars
<1>9. CASE RepairWrites
  BY <1>9 DEF TypeInv, HandInv, InHandInv, FixedInv, Explained, OnDisk, RepairWrites, Written, Over,
     ghostVars
<1>10. CASE RepairEnds
  BY <1>10, OtherAssumption DEF HandInv, InHandInv, FixedInv, Explained, OnDisk, None,
     RepairEnds, writerVars, ghostVars
<1>11. CASE RepairStops
  BY <1>11 DEF FixedInv, Explained, OnDisk, RepairStops
<1>12. CASE EnrichBegins
  BY <1>12 DEF FixedInv, Explained, OnDisk, EnrichBegins, writerVars, ghostVars
<1>13. ASSUME NEW n \in Names, SkipsLoaded(n) PROVE FixedInv'
  BY <1>13 DEF FixedInv, Explained, OnDisk, SkipsLoaded, writerVars, ghostVars
<1>14. ASSUME NEW n \in Names, Loads(n) PROVE FixedInv'
  BY <1>14 DEF FixedInv, Explained, OnDisk, Loads, writerVars, ghostVars
<1>15. CASE EnrichEnds
  BY <1>15 DEF FixedInv, EnrichEnds
<1>16. ASSUME NEW p \in Programs, Poll(p) PROVE FixedInv'
  BY <1>16 DEF FixedInv, Explained, OnDisk, Poll, writerVars, repairVars, ghostVars
<1>17. CASE Restart
  BY <1>17 DEF FixedInv, Restart
<1>18. CASE UNCHANGED vars
  BY <1>18 DEF FixedInv, Explained, OnDisk, vars, writerVars, repairVars, ghostVars
<1>19. QED
  BY <1>1, <1>2, <1>3, <1>4, <1>5, <1>6, <1>7, <1>8, <1>9, <1>10, <1>11, <1>12, <1>13,
     <1>14, <1>15, <1>16, <1>17, <1>18 DEF Next, EnrichStep

\* Only Loads adds to the loaded seeds, from the list of the pass.
LEMMA LoadStep ==
  ASSUME [Next]_vars, NEW m \in loadedSeeds' \ loadedSeeds
  PROVE  pc = "load" /\ m \in list
<1>1. ASSUME NEW n \in Names, Loads(n) PROVE pc = "load" /\ m \in list
  BY <1>1 DEF Loads, Marked
<1>2. ASSUME NEW n \in Names, SkipsLoaded(n) \/ RepairReads(n) PROVE FALSE
  BY <1>2 DEF SkipsLoaded, RepairReads, enrichVars
<1>3. ASSUME NEW n \in Names, WriterOpens(n) \/ WriterFills(n) \/ WriterDies(n) PROVE FALSE
  BY <1>3 DEF WriterOpens, WriterFills, WriterDies, enrichVars
<1>4. ASSUME NEW p \in Programs, Poll(p) PROVE FALSE
  BY <1>4 DEF Poll
<1>5. ASSUME Wake \/ RepairBegins \/ RepairTruncates \/ RepairWrites \/ RepairEnds
      PROVE  FALSE
  BY <1>5 DEF Wake, RepairBegins, RepairTruncates, RepairWrites, RepairEnds, enrichVars
<1>6. ASSUME EnrichBegins \/ EnrichEnds \/ RepairStops \/ Restart \/ NotifyGenerationEnd
      PROVE  FALSE
  BY <1>6 DEF EnrichBegins, EnrichEnds, RepairStops, Restart, NotifyGenerationEnd, enrichVars
<1>7. ~UNCHANGED vars
  BY DEF vars, enrichVars
<1>8. QED
  BY <1>1, <1>2, <1>3, <1>4, <1>5, <1>6, <1>7 DEF Next, EnrichStep

\* With -repair the manager loads a seed that is not repaired only if the generator
\* touched it since the pass began, or the repair of it went wrong or kept but a part of
\* it (patch lines 309-354).
THEOREM UnrepairedAccounted == Spec => UnrepairedExplained
<1>1. ASSUME TypeInv, HandInv, FixedInv, [Next]_vars, Repair,
             NEW n \in loadedSeeds' \ loadedSeeds
      PROVE  Explained(n)
  BY <1>1, LoadStep DEF FixedInv, HandInv, InHandInv
<1>2. TypeInv /\ HandInv /\ FixedInv /\ [Next]_vars
        => [Repair => \A n \in loadedSeeds' \ loadedSeeds :
                        seed[n] = "fixed"
                          \/ n \in missed \cup writing \cup clashed \cup shortened]_vars
  BY <1>1 DEF Explained
<1>3. Init => TypeInv /\ HandInv /\ FixedInv
  BY TypeInit, HandInit, FixedInit
<1>4. TypeInv /\ HandInv /\ FixedInv /\ [Next]_vars => (TypeInv /\ HandInv /\ FixedInv)'
  BY TypeStep, HandStep, FixedStep
<1>5. QED
  BY <1>2, <1>3, <1>4, PTL DEF Spec, UnrepairedExplained

----------------------------------------------------------------------------
(* The end of the loop.  The first sighting of the flag begins a pass, and a   *)
(* pass lists the directory after it has begun: what was on disk when the flag *)
(* was created is in that list, and stays accounted for while it is served.    *)

PassInv ==
  /\ ~endFlag => promised = {} /\ seeEndFlag = 0
  /\ promised \subseteq OnDisk
  /\ pc = "done" <=> seeEndFlag = 2
  /\ seeEndFlag \in 0 .. 2
  /\ seeEndFlag = 1 /\ pc = "load" => promised \subseteq loadedSeeds \cup list
  /\ (seeEndFlag = 1 /\ pc = "sleep") \/ pc = "done" => promised \subseteq loadedSeeds

LEMMA PassInit == Init => PassInv
BY DEF Init, PassInv

LEMMA PassStep == TypeInv /\ HandInv /\ PassInv /\ [Next]_vars => PassInv'
<1> SUFFICES ASSUME TypeInv, HandInv, PassInv, [Next]_vars PROVE PassInv'
  OBVIOUS
<1>1. ASSUME NEW n \in Names, WriterOpens(n) PROVE PassInv'
  BY <1>1 DEF TypeInv, PassInv, OnDisk, WriterOpens, OpenSeed, enrichVars
<1>2. ASSUME NEW n \in Names, WriterFills(n) PROVE PassInv'
  BY <1>2 DEF TypeInv, PassInv, OnDisk, WriterFills, Over, enrichVars
<1>3. ASSUME NEW n \in Names, WriterDies(n) PROVE PassInv'
  BY <1>3 DEF PassInv, OnDisk, WriterDies, enrichVars
<1>4. CASE NotifyGenerationEnd
  BY <1>4 DEF PassInv, OnDisk, NotifyGenerationEnd, enrichVars
<1>5. CASE Wake
  BY <1>5 DEF PassInv, OnDisk, Wake, AfterWake, LoopEnds, EndSeen, writerVars, ghostVars
<1>6. CASE RepairBegins
  BY <1>6 DEF PassInv, OnDisk, RepairBegins, writerVars, enrichVars
<1>7. ASSUME NEW n \in Names, RepairReads(n) PROVE PassInv'
  BY <1>7 DEF PassInv, OnDisk, RepairReads, writerVars, enrichVars
<1>8. CASE RepairTruncates
  BY <1>8 DEF TypeInv, PassInv, OnDisk, RepairTruncates, enrichVars
<1>9. CASE RepairWrites
  <2>1. OnDisk \subseteq OnDisk'
    BY <1>9 DEF TypeInv, HandInv, InHandInv, OnDisk, RepairWrites, Written, Over
  <2>2. QED
    BY <1>9, <2>1 DEF PassInv, RepairWrites, enrichVars, ghostVars
<1>10. CASE RepairEnds
  BY <1>10 DEF PassInv, OnDisk, RepairEnds, writerVars, enrichVars, ghostVars
<1>11. CASE RepairStops
  <2>1. OnDisk \subseteq OnDisk'
    BY <1>11 DEF TypeInv, OnDisk, RepairStops, RepairerGone
  <2>2. QED
    BY <1>11, <2>1 DEF PassInv, RepairStops, enrichVars
<1>12. CASE EnrichBegins
  BY <1>12 DEF PassInv, OnDisk, EnrichBegins, writerVars, ghostVars
<1>13. ASSUME NEW n \in Names, SkipsLoaded(n) PROVE PassInv'
  BY <1>13 DEF PassInv, OnDisk, SkipsLoaded, writerVars, enrichVars, ghostVars
<1>14. ASSUME NEW n \in Names, Loads(n) PROVE PassInv'
  BY <1>14 DEF PassInv, OnDisk, Loads, Marked, writerVars, ghostVars
<1>15. CASE EnrichEnds
  BY <1>15 DEF PassInv, OnDisk, EnrichEnds, writerVars, ghostVars
<1>16. ASSUME NEW p \in Programs, Poll(p) PROVE PassInv'
  BY <1>16 DEF PassInv, OnDisk, Poll, writerVars, ghostVars
<1>17. CASE Restart
  <2>1. OnDisk \subseteq OnDisk'
    BY <1>17 DEF TypeInv, OnDisk, Restart, RepairerGone
  <2>2. QED
    BY <1>17, <2>1 DEF PassInv, Restart
<1>18. CASE UNCHANGED vars
  BY <1>18 DEF PassInv, OnDisk, vars, writerVars, enrichVars, ghostVars
<1>19. QED
  BY <1>1, <1>2, <1>3, <1>4, <1>5, <1>6, <1>7, <1>8, <1>9, <1>10, <1>11, <1>12, <1>13,
     <1>14, <1>15, <1>16, <1>17, <1>18 DEF Next, EnrichStep

\* A loop that has ended has loaded all that was on disk when GENERATION_END was created,
\* through any number of repairs that were cut short, of late writes and of restarts
\* (patch lines 176-190, 325-370).
THEOREM PromiseKept == Spec => []PromisedLoaded
<1>1. Init => TypeInv /\ HandInv /\ PassInv
  BY TypeInit, HandInit, PassInit
<1>2. TypeInv /\ HandInv /\ PassInv /\ [Next]_vars => (TypeInv /\ HandInv /\ PassInv)'
  BY TypeStep, HandStep, PassStep
<1>3. PassInv => PromisedLoaded
  BY DEF PassInv, PromisedLoaded
<1>4. QED
  BY <1>1, <1>2, <1>3, PTL DEF Spec

\* GENERATION_END is created once and never goes away.
LEMMA PromiseStays == endFlag /\ [Next]_vars => promised' = promised
<1> SUFFICES ASSUME endFlag, [Next]_vars PROVE promised' = promised
  OBVIOUS
<1>1. CASE \E n \in Names : WriterOpens(n) \/ WriterFills(n) \/ WriterDies(n)
  BY <1>1 DEF WriterOpens, WriterFills, WriterDies
<1>2. CASE NotifyGenerationEnd
  BY <1>2 DEF NotifyGenerationEnd
<1>3. CASE EnrichStep
  BY <1>3 DEF EnrichStep, Wake, RepairBegins, RepairReads, RepairTruncates, RepairWrites,
     RepairEnds, EnrichBegins, SkipsLoaded, Loads, EnrichEnds, ghostVars
<1>4. CASE RepairStops \/ Restart \/ UNCHANGED vars
  BY <1>4 DEF RepairStops, Restart, vars, ghostVars
<1>5. CASE \E p \in Programs : Poll(p)
  BY <1>5 DEF Poll, ghostVars
<1>6. QED
  BY <1>1, <1>2, <1>3, <1>4, <1>5 DEF Next

\* With a promise that is kept, the loop's end is all that is needed: in whatever way it is
\* brought about that the loop ends after GENERATION_END, every seed that was there when the
\* flag was created comes to be loaded (patch lines 176-190, 325-370).
THEOREM LastSeedsFollow == Spec /\ EnrichmentEnds => LastSeedsLoaded
<1>1. ASSUME NEW n \in Names
      PROVE  Spec /\ EnrichmentEnds => (n \in promised ~> n \in loadedSeeds)
  <2>1. Spec => [](PassInv /\ PromisedLoaded)
    <3>1. Init => TypeInv /\ HandInv /\ PassInv
      BY TypeInit, HandInit, PassInit
    <3>2. TypeInv /\ HandInv /\ PassInv /\ [Next]_vars => (TypeInv /\ HandInv /\ PassInv)'
      BY TypeStep, HandStep, PassStep
    <3>3. QED
      BY <3>1, <3>2, PromiseKept, PTL DEF Spec
  <2>2. PassInv => (n \in promised => endFlag)
    BY DEF PassInv
  <2>3. PassInv /\ n \in promised /\ [Next]_vars => (n \in promised)'
    BY PromiseStays DEF PassInv
  <2>4. PromisedLoaded /\ n \in promised /\ pc = "done" => n \in loadedSeeds
    BY DEF PromisedLoaded
  <2>5. QED
    BY <2>1, <2>2, <2>3, <2>4, PTL DEF Spec, EnrichmentEnds
<1>2. QED
  BY <1>1 DEF LastSeedsLoaded

\* Steps of others do not move the loop, and its own bring it nearer to its end.
LEMMA StepNears ==
  ASSUME TypeInv, PassInv, [Next]_vars, endFlag, crashes' = crashes,
         <<pc, seeEndFlag, list>>' # <<pc, seeEndFlag, list>>
  PROVE  Nearer
<1>15. ~Restart
  <2>1. crashes \in Nat
    BY DEF TypeInv
  <2>2. Restart => crashes' = crashes + 1
    BY DEF Restart
  <2>3. QED
    BY <2>1, <2>2
<1> USE DEF Nearer, Stage, InFile
<1>1. ASSUME NEW n \in Names, WriterOpens(n) \/ WriterFills(n) \/ WriterDies(n) PROVE FALSE
  BY <1>1 DEF WriterOpens, WriterFills, WriterDies, enrichVars
<1>2. ASSUME NEW p \in Programs, Poll(p) PROVE FALSE
  BY <1>2 DEF Poll
<1>3. ~NotifyGenerationEnd
  BY DEF NotifyGenerationEnd
<1>4. CASE Wake
  BY <1>4 DEF TypeInv, Wake, EndSeen
<1>5. CASE RepairBegins
  BY <1>5 DEF TypeInv, RepairBegins, enrichVars
<1>6. ASSUME NEW n \in Names, RepairReads(n) PROVE Nearer
  BY <1>6 DEF TypeInv, RepairReads, enrichVars
<1>7. CASE RepairTruncates
  BY <1>7 DEF TypeInv, RepairTruncates, enrichVars
<1>8. CASE RepairWrites
  BY <1>8 DEF TypeInv, RepairWrites, enrichVars
<1>9. CASE RepairEnds
  BY <1>9 DEF TypeInv, RepairEnds, enrichVars
<1>10. CASE RepairStops
  BY <1>10 DEF TypeInv, RepairStops, enrichVars
<1>11. CASE EnrichBegins
  BY <1>11 DEF TypeInv, EnrichBegins
<1>12. ASSUME NEW n \in Names, SkipsLoaded(n) PROVE Nearer
  BY <1>12 DEF TypeInv, SkipsLoaded, enrichVars
<1>13. ASSUME NEW n \in Names, Loads(n) PROVE Nearer
  BY <1>13 DEF TypeInv, Loads
<1>14. CASE EnrichEnds
  BY <1>14 DEF TypeInv, EnrichEnds
<1>16. ~UNCHANGED vars
  BY DEF vars, enrichVars
<1>17. QED
  BY <1>1, <1>2, <1>3, <1>4, <1>5, <1>6, <1>7, <1>8, <1>9, <1>10, <1>11, <1>12, <1>13,
     <1>14, <1>15, <1>16 DEF Next, EnrichStep

\* No step of the loop leads away from its end once GENERATION_END is there: with a
\* finite directory it takes finitely many, so that scheduling them is enough for
\* EnrichmentEnds (patch lines 176-190).
THEOREM EndComesNearer == Spec => EnrichmentNears
<1>1. TypeInv /\ HandInv /\ PassInv /\ [Next]_vars
        => [endFlag /\ crashes' = crashes
              /\ <<pc, seeEndFlag, list>>' # <<pc, seeEndFlag, list>>
              => Nearer /\ seeEndFlag' <= 2]_vars
  BY StepNears, PassStep DEF PassInv
<1>2. Init => TypeInv /\ HandInv /\ PassInv
  BY TypeInit, HandInit, PassInit
<1>3. TypeInv /\ HandInv /\ PassInv /\ [Next]_vars => (TypeInv /\ HandInv /\ PassInv)'
  BY TypeStep, HandStep, PassStep
<1>4. QED
  BY <1>1, <1>2, <1>3, PTL DEF Spec, EnrichmentNears
=============================================================================
