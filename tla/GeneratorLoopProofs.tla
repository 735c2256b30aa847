------------------------ MODULE GeneratorLoopProofs ------------------------
(***************************************************************************)
(* The timing of the generator's main loop for every delay, period, stop    *)
(* time and duration.  What it promises of the batches rests on one         *)
(* condition on the parameters, OffsetEnough: no batch takes longer than    *)
(* secure_exec_offset.  A local model that answers within one_exec_time     *)
(* meets it (LocalCampaign); the remote one, which pauses, need not.        *)
(***************************************************************************)
EXTENDS GeneratorLoop, WellFoundedInduction, FiniteSetTheorems, TLAPS

TypeInv ==
  /\ now \in Nat /\ wake \in Nat /\ round \in Nat /\ endAt \in Nat
  /\ main \in Waits \cup {"check", "done", "dead"}
  /\ firstSleep \in BOOLEAN /\ endFlag \in BOOLEAN
  /\ batches \subseteq Nat \X Nat

----------------------------------------------------------------------------
(* The operators.                                                           *)

\* A set of natural numbers that is not empty has a least element, and Min is it.
LEMMA LeastOfNats ==
  ASSUME NEW S \in SUBSET Nat, S # {}
  PROVE  Min(S) \in S /\ \A x \in S : Min(S) <= x
<1>1. PICK m \in S : \A x \in S : <<x, m>> \notin OpToRel(<, Nat)
  BY WFMin, NatLessThanWellFounded
<1>2. \A x \in S : m <= x
  <2>1. TAKE x \in S
  <2>2. ~(x < m)
    BY <1>1 DEF OpToRel
  <2>3. QED
    BY <2>2
<1>3. QED
  BY <1>2 DEF Min

LEMMA OffsetType == Offset \in Nat
BY ParameterAssumption DEF Offset

LEMMA SleepTimeType == SleepTime \in Nat /\ SleepTime <= Period
<1>1. Max({Period - Offset, 0}) \in {Period - Offset, 0}
      /\ \A x \in {Period - Offset, 0} : Max({Period - Offset, 0}) >= x
  <2>1. \E m \in {Period - Offset, 0} : \A x \in {Period - Offset, 0} : m >= x
    BY OffsetType, ParameterAssumption
  <2>2. QED
    BY <2>1 DEF Max
<1>2. QED
  BY <1>1, OffsetType, ParameterAssumption DEF SleepTime

LEMMA DurationType ==
  ASSUME NEW k \in BatchSizes, NEW c \in CallTimes
  PROVE  Duration(k, c) \in Nat
<1>1. Capped(k) \in Nat
  BY ParameterAssumption, EnvironmentAssumption DEF Capped
<1>2. Pauses(k) \in Nat
  BY ParameterAssumption, EnvironmentAssumption DEF Pauses
<1>3. c * Capped(k) \in Nat
  BY <1>1, EnvironmentAssumption
<1>4. QED
  BY <1>2, <1>3 DEF Duration

LEMMA EventsType == TypeInv => Events \in SUBSET Nat
BY DEF TypeInv, Events

\* The clock goes on to the next event and passes none.
LEMMA TickForward ==
  ASSUME TypeInv, Tick
  PROVE  /\ now' \in Nat /\ now < now'
         /\ \A b \in batches : now' <= b[2]
         /\ main \in Waits => now' <= wake
         /\ (\E b \in batches : b[2] = now') \/ (main \in Waits /\ wake = now')
         /\ main # "check"
<1>1. Events # {} /\ now' = Min(Events) /\ now < Min(Events) /\ main # "check"
  BY DEF Tick
<1>2. Min(Events) \in Events /\ \A x \in Events : Min(Events) <= x
  BY <1>1, EventsType, LeastOfNats
<1>3. QED
  BY <1>1, <1>2, EventsType DEF Events

\* The conditions on the parameters.
OffsetEnough == \A k \in BatchSizes, c \in CallTimes : Duration(k, c) <= Offset

LongestParse == \E m \in ParseTimes : \A p \in ParseTimes : p <= m

LocalCampaign ==
  MaxGen # 0 /\ ~Remote /\ \A c \in CallTimes : c <= ExecTime

LEMMA LocalOffsetEnough == LocalCampaign => OffsetEnough
<1> SUFFICES ASSUME LocalCampaign, NEW k \in BatchSizes, NEW c \in CallTimes
             PROVE  Duration(k, c) <= Offset
  BY DEF OffsetEnough
<1>1. Capped(k) \in Nat /\ Capped(k) <= MaxGen
  BY ParameterAssumption, EnvironmentAssumption DEF Capped, LocalCampaign
<1>2. Duration(k, c) = c * Capped(k)
  BY <1>1, EnvironmentAssumption DEF Duration, Pauses, LocalCampaign
<1>3. c \in Nat /\ c <= ExecTime
  BY EnvironmentAssumption DEF LocalCampaign
<1>4. c * Capped(k) <= ExecTime * Capped(k)
  BY <1>1, <1>3, ParameterAssumption
<1>5. ExecTime * Capped(k) <= ExecTime * MaxGen
  BY <1>1, ParameterAssumption
<1>6. Offset = ExecTime * MaxGen /\ c * Capped(k) \in Nat /\ ExecTime * Capped(k) \in Nat
  BY <1>1, <1>3, ParameterAssumption DEF Offset, LocalCampaign
<1>7. QED
  BY <1>2, <1>4, <1>5, <1>6, OffsetType

LEMMA MaxParseLongest ==
  LongestParse => MaxParse \in Nat /\ \A p \in ParseTimes : p <= MaxParse
<1> SUFFICES ASSUME LongestParse
             PROVE  MaxParse \in Nat /\ \A p \in ParseTimes : p <= MaxParse
  OBVIOUS
<1>1. PICK m \in ParseTimes : \A p \in ParseTimes : p <= m
  BY DEF LongestParse
<1>2. \A p \in ParseTimes : m >= p
  BY <1>1, EnvironmentAssumption
<1>3. MaxParse \in ParseTimes /\ \A p \in ParseTimes : MaxParse >= p
  BY <1>2 DEF MaxParse, Max
<1>4. QED
  BY <1>3, EnvironmentAssumption

----------------------------------------------------------------------------
(* Types.                                                                   *)

LEMMA TypeInit == Init => TypeInv
<1> SUFFICES ASSUME Init PROVE TypeInv
  OBVIOUS
<1>1. now \in Nat /\ wake \in Nat /\ round \in Nat /\ endAt \in Nat
  BY ParameterAssumption DEF Init
<1>2. firstSleep \in BOOLEAN /\ endFlag \in BOOLEAN
  BY DEF Init
<1>3. main \in Waits \cup {"check", "done", "dead"} /\ batches \subseteq Nat \X Nat
  BY DEF Init, Waits
<1>4. QED
  BY <1>1, <1>2, <1>3 DEF TypeInv

LEMMA TypeStep == TypeInv /\ [Next]_vars => TypeInv'
<1> SUFFICES ASSUME TypeInv, [Next]_vars PROVE TypeInv'
  OBVIOUS
<1>1. CASE DelayOver
  BY <1>1 DEF TypeInv, DelayOver
<1>2. CASE CheckGoesOn
  <2>1. wake' \in Nat
    BY <1>2, SleepTimeType DEF TypeInv, CheckGoesOn
  <2>2. firstSleep' \in BOOLEAN /\ endFlag' \in BOOLEAN
    BY <1>2 DEF TypeInv, CheckGoesOn
  <2>3. QED
    BY <1>2, <2>1, <2>2 DEF TypeInv, Waits, CheckGoesOn
<1>3. CASE CheckStops
  BY <1>3, OffsetType DEF TypeInv, Waits, CheckStops, DrainTime
<1>4. CASE RoundBegins
  BY <1>4, EnvironmentAssumption DEF TypeInv, Waits, RoundBegins
<1>5. CASE ParseFails
  BY <1>5 DEF TypeInv, ParseFails
<1>6. CASE BatchStarts
  <2>1. PICK k \in BatchSizes, c \in CallTimes :
               batches' = batches \cup {<<round, now + Duration(k, c)>>}
    BY <1>6 DEF BatchStarts
  <2>2. Duration(k, c) \in Nat
    BY DurationType
  <2>3. QED
    BY <1>6, <2>1, <2>2 DEF TypeInv, BatchStarts
<1>7. CASE DrainOver
  BY <1>7 DEF TypeInv, DrainOver
<1>8. CASE BatchEnds
  BY <1>8 DEF TypeInv, BatchEnds
<1>9. CASE Tick
  <2>1. now' \in Nat
    BY <1>9, TickForward
  <2>2. QED
    BY <1>9, <2>1 DEF TypeInv, Tick
<1>10. CASE UNCHANGED vars
  BY <1>10 DEF TypeInv, vars
<1>11. QED
  BY <1>1, <1>2, <1>3, <1>4, <1>5, <1>6, <1>7, <1>8, <1>9, <1>10 DEF Next, MainStep

\* The variables of the loop stay in their types.
THEOREM TypesKept == Spec => []TypeInv
BY TypeInit, TypeStep, PTL DEF Spec

----------------------------------------------------------------------------
(* The last sleep.  A batch has begun at the latest now, so that it ends in  *)
(* less than the offset; when the loop leaves for its last sleep that is the *)
(* time it sleeps, and no batch is begun afterwards.                         *)

BatchInv ==
  /\ \A b \in batches : b[2] <= now + Offset
  /\ main = "drain" => \A b \in batches : b[2] <= wake
  /\ main = "done" => \A b \in batches : b[2] <= now
  /\ endFlag => main = "done" /\ \A b \in batches : b[2] <= endAt

LEMMA BatchInit == Init => BatchInv
BY DEF Init, BatchInv

LEMMA BatchStep == OffsetEnough /\ TypeInv /\ BatchInv /\ [Next]_vars => BatchInv'
<1> SUFFICES ASSUME OffsetEnough, TypeInv, BatchInv, [Next]_vars PROVE BatchInv'
  OBVIOUS
<1>1. CASE DelayOver
  BY <1>1 DEF BatchInv, DelayOver
<1>2. CASE CheckGoesOn
  BY <1>2 DEF BatchInv, CheckGoesOn
<1>3. CASE CheckStops
  BY <1>3 DEF BatchInv, CheckStops, DrainTime
<1>4. CASE RoundBegins
  BY <1>4 DEF BatchInv, RoundBegins
<1>5. CASE ParseFails
  BY <1>5 DEF BatchInv, ParseFails
<1>6. CASE BatchStarts
  <2>1. PICK k \in BatchSizes, c \in CallTimes :
               batches' = batches \cup {<<round, now + Duration(k, c)>>}
    BY <1>6 DEF BatchStarts
  <2>2. Duration(k, c) \in Nat
    BY DurationType
  <2>3. Duration(k, c) <= Offset
    BY DEF OffsetEnough
  <2>4. QED
    BY <1>6, <2>1, <2>2, <2>3, OffsetType DEF TypeInv, BatchInv, BatchStarts
<1>7. CASE DrainOver
  BY <1>7 DEF BatchInv, DrainOver, Due
<1>8. CASE BatchEnds
  BY <1>8 DEF BatchInv, BatchEnds
<1>9. CASE Tick
  <2>1. /\ now' \in Nat /\ now < now' /\ \A b \in batches : now' <= b[2]
        /\ (\E b \in batches : b[2] = now') \/ main \in Waits
    BY <1>9, TickForward
  <2>2. main # "done"
    BY <2>1 DEF TypeInv, BatchInv, Waits
  <2>3. QED
    BY <1>9, <2>1, <2>2, OffsetType DEF TypeInv, BatchInv, Tick
<1>10. CASE UNCHANGED vars
  BY <1>10 DEF BatchInv, vars
<1>11. QED
  BY <1>1, <1>2, <1>3, <1>4, <1>5, <1>6, <1>7, <1>8, <1>9, <1>10 DEF Next, MainStep

\* If no batch takes longer than the offset, none is at work when GENERATION_END appears.
LEMMA OffsetWaits ==
  ASSUME OffsetEnough
  PROVE  Spec => []LastRoundWaited
<1>1. Init => TypeInv /\ BatchInv
  BY TypeInit, BatchInit
<1>2. TypeInv /\ BatchInv /\ [Next]_vars => (TypeInv /\ BatchInv)'
  BY TypeStep, BatchStep
<1>3. BatchInv => LastRoundWaited
  BY DEF BatchInv, LastRoundWaited
<1>4. QED
  BY <1>1, <1>2, <1>3, PTL DEF Spec

\* A local model that answers within one_exec_time, with a maximum for a batch, has
\* finished its last round when GENERATION_END appears, whatever the delay, the period,
\* the stop time and the number of targets (syzgpt_generator.py:405-488).
THEOREM LastRoundOver ==
  ASSUME LocalCampaign
  PROVE  Spec => []LastRoundWaited
BY LocalOffsetEnough, OffsetWaits

----------------------------------------------------------------------------
(* One batch at a time.  Every sleep but the first, before which there is no *)
(* batch, takes a period, which is as long as the offset.                    *)

OneInv ==
  /\ firstSleep => batches = {} /\ main \notin {"sleep", "parse"}
  /\ main = "sleep" => \A b \in batches : b[2] <= wake
  /\ main = "parse" => \A b \in batches : b[2] <= now
  /\ \A b1, b2 \in Alive : b1 = b2

LEMMA OneInit == Init => OneInv
BY DEF Init, OneInv, Alive

LEMMA OneStep ==
  ASSUME OffsetEnough, Offset <= Period, TypeInv, BatchInv, OneInv, [Next]_vars
  PROVE  OneInv'
<1>1. CASE DelayOver
  BY <1>1 DEF OneInv, Alive, DelayOver
<1>2. CASE CheckGoesOn
  <2>1. ~firstSleep => wake' = now + Period
    BY <1>2 DEF CheckGoesOn, SleepTime
  <2>2. \A b \in batches : b[2] \in Nat /\ b[2] <= now + Offset
    BY DEF TypeInv, BatchInv
  <2>3. \A b \in batches : b[2] <= wake'
    BY <2>1, <2>2, OffsetType, ParameterAssumption DEF TypeInv, OneInv
  <2>4. QED
    BY <1>2, <2>3 DEF OneInv, Alive, CheckGoesOn
<1>3. CASE CheckStops
  BY <1>3 DEF OneInv, Alive, CheckStops
<1>4. CASE RoundBegins
  BY <1>4 DEF OneInv, Alive, RoundBegins, Due
<1>5. CASE ParseFails
  BY <1>5 DEF OneInv, Alive, ParseFails
<1>6. CASE BatchStarts
  <2>1. PICK k \in BatchSizes, c \in CallTimes :
               batches' = batches \cup {<<round, now + Duration(k, c)>>}
    BY <1>6 DEF BatchStarts
  <2>2. Duration(k, c) \in Nat
    BY DurationType
  <2>3. Alive' \subseteq {<<round, now + Duration(k, c)>>}
    BY <1>6, <2>1 DEF TypeInv, OneInv, Alive, BatchStarts
  <2>4. QED
    BY <1>6, <2>1, <2>3 DEF OneInv, BatchStarts
<1>7. CASE DrainOver
  BY <1>7 DEF OneInv, Alive, DrainOver
<1>8. CASE BatchEnds
  BY <1>8 DEF OneInv, Alive, BatchEnds
<1>9. CASE Tick
  <2>1. /\ now' \in Nat /\ now < now' /\ \A b \in batches : now' <= b[2]
        /\ main \in Waits => now' <= wake
    BY <1>9, TickForward
  <2>2. Alive' \subseteq Alive
    BY <1>9, <2>1 DEF TypeInv, Alive, Tick
  <2>3. QED
    BY <1>9, <2>1, <2>2 DEF TypeInv, OneInv, Tick
<1>10. CASE UNCHANGED vars
  BY <1>10 DEF OneInv, Alive, vars
<1>11. QED
  BY <1>1, <1>2, <1>3, <1>4, <1>5, <1>6, <1>7, <1>8, <1>9, <1>10 DEF Next, MainStep

LEMMA AtMostOne == TypeInv /\ OneInv => Cardinality(Alive) <= 1
<1> SUFFICES ASSUME OneInv PROVE Cardinality(Alive) <= 1
  OBVIOUS
<1>1. CASE Alive = {}
  BY <1>1, FS_EmptySet
<1>2. CASE Alive # {}
  <2>1. PICK b \in Alive : TRUE
    BY <1>2
  <2>2. Alive = {b}
    BY <2>1 DEF OneInv
  <2>3. QED
    BY <2>2, FS_Singleton
<1>3. QED
  BY <1>1, <1>2

\* Batches that need no longer than the offset never overlap if the offset fits in the
\* period: the sleep of the loop is all that keeps them apart (syzgpt_generator.py:441-478).
THEOREM BatchesApart ==
  ASSUME OffsetEnough
  PROVE  Spec => []OneBatchAtATime
<1>1. CASE Offset <= Period
  <2>1. Init => TypeInv /\ BatchInv /\ OneInv
    BY TypeInit, BatchInit, OneInit
  <2>2. TypeInv /\ BatchInv /\ OneInv /\ [Next]_vars => (TypeInv /\ BatchInv /\ OneInv)'
    BY <1>1, TypeStep, BatchStep, OneStep
  <2>3. TypeInv /\ OneInv => OneBatchAtATime
    BY AtMostOne DEF OneBatchAtATime
  <2>4. QED
    BY <2>1, <2>2, <2>3, PTL DEF Spec
<1>2. CASE ~(Offset <= Period)
  <2>1. OneBatchAtATime
    BY <1>2 DEF OneBatchAtATime
  <2>2. QED
    BY <2>1, PTL
<1>3. QED
  BY <1>1, <1>2

----------------------------------------------------------------------------
(* The overrun.  The last check that let the loop go on saw the time before  *)
(* the stop time less the offset and a minute; a period and a parse later it *)
(* looks again and leaves for the last sleep.                                *)

LastStart == StopTime - Offset - 60 + Period

StopInv ==
  /\ main = "delay" => round = 0
  /\ main = "sleep" => wake < LastStart
  /\ main = "parse" => wake < LastStart + MaxParse
  /\ main = "check" /\ round > 0 => now < LastStart + MaxParse
  /\ main = "drain" /\ round > 0 => wake < LastStart + MaxParse + Offset
  /\ main = "done" /\ round > 0 => now < LastStart + MaxParse + Offset

LEMMA StopInit == Init => StopInv
BY DEF Init, StopInv

LEMMA StopStep ==
  ASSUME OffsetEnough, LongestParse, StopTime # 0, TypeInv, BatchInv, StopInv, [Next]_vars
  PROVE  StopInv'
<1>1. CASE DelayOver
  BY <1>1 DEF StopInv, DelayOver
<1>2. CASE CheckGoesOn
  <2>1. now < StopTime - Offset - 60 /\ wake' = now + SleepTime
    BY <1>2, OffsetType, ParameterAssumption DEF TypeInv, CheckGoesOn, Stopping
  <2>2. QED
    BY <1>2, <2>1, SleepTimeType, OffsetType, ParameterAssumption
       DEF TypeInv, StopInv, LastStart, CheckGoesOn
<1>3. CASE CheckStops
  BY <1>3, OffsetType, MaxParseLongest, ParameterAssumption DEF TypeInv, StopInv, LastStart,
     CheckStops, DrainTime
<1>4. CASE RoundBegins
  <2>1. PICK p \in ParseTimes : wake' = now + p
    BY <1>4 DEF RoundBegins
  <2>2. p \in Nat /\ p <= MaxParse /\ MaxParse \in Nat
    BY MaxParseLongest, EnvironmentAssumption
  <2>3. QED
    BY <1>4, <2>1, <2>2, OffsetType, ParameterAssumption
       DEF TypeInv, StopInv, LastStart, RoundBegins, Due
<1>5. CASE ParseFails
  BY <1>5 DEF StopInv, ParseFails
<1>6. CASE BatchStarts
  BY <1>6 DEF StopInv, BatchStarts, Due
<1>7. CASE DrainOver
  BY <1>7 DEF StopInv, DrainOver, Due
<1>8. CASE BatchEnds
  BY <1>8 DEF StopInv, BatchEnds
<1>9. CASE Tick
  <2>1. /\ now' \in Nat /\ now < now' /\ main # "check"
        /\ (\E b \in batches : b[2] = now') \/ main \in Waits
    BY <1>9, TickForward
  <2>2. main # "done"
    BY <2>1 DEF TypeInv, BatchInv, Waits
  <2>3. QED
    BY <1>9, <2>1, <2>2 DEF StopInv, Tick
<1>10. CASE UNCHANGED vars
  BY <1>10 DEF StopInv, vars
<1>11. QED
  BY <1>1, <1>2, <1>3, <1>4, <1>5, <1>6, <1>7, <1>8, <1>9, <1>10 DEF Next, MainStep

\* Whenever the check of the time happens to fall, the stop time is overrun by less than
\* a period and the longest parse, less a minute (syzgpt_generator.py:432-437, 480-488).
THEOREM StopBounded ==
  ASSUME OffsetEnough, LongestParse
  PROVE  Spec => []StopOverrun
<1>1. CASE StopTime # 0
  <2>1. Init => TypeInv /\ BatchInv /\ StopInv
    BY TypeInit, BatchInit, StopInit
  <2>2. TypeInv /\ BatchInv /\ StopInv /\ [Next]_vars => (TypeInv /\ BatchInv /\ StopInv)'
    BY <1>1, TypeStep, BatchStep, StopStep
  <2>3. TypeInv /\ StopInv => StopOverrun
    BY OffsetType, MaxParseLongest, ParameterAssumption DEF StopInv, LastStart, StopOverrun
  <2>4. QED
    BY <2>1, <2>2, <2>3, PTL DEF Spec
<1>2. CASE StopTime = 0
  <2>1. StopOverrun
    BY <1>2 DEF StopOverrun
  <2>2. QED
    BY <2>1, PTL
<1>3. QED
  BY <1>1, <1>2

----------------------------------------------------------------------------
(* The pace.  What the loop sleeps before a round takes it to the time the    *)
(* round is due; a check that let it sleep came before the last of them.      *)

PaceInv ==
  /\ main = "delay" => firstSleep /\ wake >= Delay
  /\ firstSleep => round = 0 /\ main # "sleep" /\ main # "parse"
  /\ main # "delay" => now >= Delay
  /\ main = "sleep" => wake >= RoundDue(round + 1)
  /\ main = "sleep" /\ round > 0 /\ StopTime # 0 => RoundDue(round) < StopTime - Offset - 60
  /\ ~firstSleep /\ main # "sleep" => round > 0

LEMMA DueSteps ==
  ASSUME NEW r \in Nat
  PROVE  /\ RoundDue(r) \in Int
         /\ RoundDue(r + 1) = RoundDue(r) + Period
         /\ RoundDue(1) = Delay + Max({Period - Offset, 0})
<1> DEFINE first == Max({Period - Offset, 0})
<1>1. first \in Int
  <2>1. \E m \in {Period - Offset, 0} : \A x \in {Period - Offset, 0} : m >= x
    BY OffsetType, ParameterAssumption
  <2>2. first \in {Period - Offset, 0}
    BY <2>1 DEF Max
  <2>3. QED
    BY <2>2, OffsetType, ParameterAssumption
<1> HIDE DEF first
<1>2. RoundDue(r) = Delay + first + (r - 1) * Period
      /\ RoundDue(r + 1) = Delay + first + ((r + 1) - 1) * Period
      /\ RoundDue(1) = Delay + first + (1 - 1) * Period
  BY DEF RoundDue, first
<1>3. (r - 1) * Period \in Int /\ ((r + 1) - 1) * Period = (r - 1) * Period + Period
      /\ (1 - 1) * Period = 0
  BY ParameterAssumption
<1>4. QED
  BY <1>1, <1>2, <1>3, ParameterAssumption DEF first

LEMMA PaceInit == Init => PaceInv /\ RoundsFit
BY ParameterAssumption DEF Init, PaceInv, RoundsFit

LEMMA PaceStep ==
  TypeInv /\ PaceInv /\ RoundsFit /\ [Next]_vars => (PaceInv /\ RoundsFit)'
<1> SUFFICES ASSUME TypeInv, PaceInv, RoundsFit, [Next]_vars PROVE (PaceInv /\ RoundsFit)'
  OBVIOUS
<1>0. /\ round \in Nat /\ now \in Nat /\ wake \in Nat
      /\ Delay \in Nat /\ Period \in Nat /\ StopTime \in Nat /\ Offset \in Nat
  BY OffsetType, ParameterAssumption DEF TypeInv
<1>1. CASE DelayOver
  BY <1>0, <1>1 DEF PaceInv, RoundsFit, DelayOver, Due
<1>2. CASE CheckGoesOn
  <2>1. /\ main = "check" /\ main' = "sleep" /\ ~firstSleep' /\ wake' = now + SleepTime
        /\ UNCHANGED <<now, round>>
    BY <1>2 DEF CheckGoesOn
  <2>2. StopTime # 0 => now < StopTime - Offset - 60
    BY <1>0, <1>2 DEF CheckGoesOn, Stopping
  <2>3. CASE firstSleep
    <3>1. round = 0 /\ now >= Delay
      BY <2>1, <2>3 DEF PaceInv
    <3>2. RoundDue(1) = Delay + SleepTime
      <4>1. SleepTime = Max({Period - Offset, 0})
        BY <2>3 DEF SleepTime
      <4>2. QED
        BY <4>1, DueSteps
    <3>3. wake' >= RoundDue(round + 1)
      BY <1>0, <2>1, <3>1, <3>2, SleepTimeType
    <3>4. QED
      BY <2>1, <3>1, <3>3 DEF PaceInv, RoundsFit
  <2>4. CASE ~firstSleep
    <3>1. round > 0 /\ RoundDue(round) <= now
      BY <2>1, <2>4 DEF PaceInv, RoundsFit
    <3>2. wake' >= RoundDue(round + 1)
      BY <1>0, <2>1, <2>4, <3>1, DueSteps DEF SleepTime
    <3>3. StopTime # 0 => RoundDue(round) < StopTime - Offset - 60
      BY <1>0, <2>2, <3>1, DueSteps
    <3>4. now' >= Delay
      BY <2>1 DEF PaceInv
    <3>5. QED
      BY <2>1, <3>1, <3>2, <3>3, <3>4 DEF PaceInv, RoundsFit
  <2>5. QED
    BY <2>3, <2>4
<1>3. CASE CheckStops
  BY <1>0, <1>3 DEF PaceInv, RoundsFit, CheckStops
<1>4. CASE RoundBegins
  <2>1. /\ main = "sleep" /\ now = wake /\ main' = "parse" /\ round' = round + 1
        /\ UNCHANGED <<now, firstSleep>>
    BY <1>4 DEF RoundBegins, Due
  <2>2. RoundDue(round') <= now'
    BY <1>0, <2>1, DueSteps DEF PaceInv
  <2>3. round' > 1 /\ StopTime # 0 => RoundDue(round' - 1) < StopTime - Offset - 60
    BY <1>0, <2>1 DEF PaceInv
  <2>4. ~firstSleep
    BY <2>1 DEF PaceInv
  <2>5. PaceInv'
    BY <1>0, <2>1, <2>4 DEF PaceInv
  <2>6. QED
    BY <2>2, <2>3, <2>5 DEF RoundsFit
<1>5. CASE ParseFails
  BY <1>5 DEF PaceInv, RoundsFit, ParseFails
<1>6. CASE BatchStarts
  BY <1>6 DEF PaceInv, RoundsFit, BatchStarts
<1>7. CASE DrainOver
  BY <1>7 DEF PaceInv, RoundsFit, DrainOver
<1>8. CASE BatchEnds
  BY <1>8 DEF PaceInv, RoundsFit, BatchEnds
<1>9. CASE Tick
  <2>1. now' \in Nat /\ now < now' /\ UNCHANGED <<main, wake, firstSleep, round>>
    BY <1>9, TickForward DEF Tick
  <2>2. round > 0 => RoundDue(round) <= now'
    BY <1>0, <2>1, DueSteps DEF RoundsFit
  <2>3. main # "delay" => now' >= Delay
    BY <1>0, <2>1 DEF PaceInv
  <2>4. QED
    BY <2>1, <2>2, <2>3 DEF PaceInv, RoundsFit
<1>10. CASE UNCHANGED vars
  BY <1>10 DEF PaceInv, RoundsFit, vars
<1>11. QED
  BY <1>1, <1>2, <1>3, <1>4, <1>5, <1>6, <1>7, <1>8, <1>9, <1>10 DEF Next, MainStep

\* No round begins before it is due, and none more than begin to fit before the stop time:
\* whatever batches and parses take, -S and -T bound the rounds (syzgpt_generator.py:432-476).
THEOREM RoundsBounded == Spec => []RoundsFit
BY TypesKept, PaceInit, PaceStep, PTL DEF Spec
=============================================================================
