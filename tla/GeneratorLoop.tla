--------------------------- MODULE GeneratorLoop ---------------------------
(***************************************************************************)
(* The main loop of syzgpt_generator.py against the clock: it sleeps for a  *)
(* period, starts a batch it does not wait for, and once the stop time is   *)
(* near sleeps for the time a batch is thought to take and creates          *)
(* GENERATION_END.  Time is in seconds since t_begin and jumps from event   *)
(* to event; a batch is the time at which it will end.                      *)
(***************************************************************************)
EXTENDS Integers, FiniteSets, FiniteSetsExt

CONSTANTS
  Delay,        \* -D: delay_period
  Period,       \* -T: gen_period
  StopTime,     \* -S: stop_time, 0 if not given
  MaxGen,       \* -m: max_gen, 0 if not given
  ExecTime,     \* one_exec_time: 18 for a local model, else 9
  Remote,       \* local_mode = False, that is no -u
  BatchSizes,   \* numbers of syscalls a batch may come to serve
  CallTimes,    \* seconds one generation may take on the average
  ParseTimes,   \* seconds syz-db and the files of a round may take
  Horizon       \* bound: the clock does not go further

ASSUME ParameterAssumption ==
  /\ Delay \in Nat /\ Period \in Nat /\ StopTime \in Nat /\ MaxGen \in Nat
  /\ ExecTime \in {9, 18} /\ Remote \in BOOLEAN
ASSUME EnvironmentAssumption ==
  /\ BatchSizes \subseteq Nat /\ CallTimes \subseteq Nat /\ ParseTimes \subseteq Nat
  /\ Horizon \in Nat

VARIABLES
  now,          \* the clock
  main,         \* where the main loop is: "check", "done", "dead" or a wait
  wake,         \* when what it waits for is over
  firstSleep,   \* is_first_sleep
  batches,      \* batches alive: <<round, end>>
  round,        \* gen_round
  endFlag,      \* GENERATION_END exists
  endAt         \* history: when it was created

vars == <<now, main, wake, firstSleep, batches, round, endFlag, endAt>>

Waits == {"delay", "sleep", "parse", "drain"}

\* secure_exec_offset: ten minutes if the size of a batch has no limit.
Offset == IF MaxGen # 0 THEN ExecTime * MaxGen ELSE 600

Init ==
  /\ now = 0 /\ main = "delay" /\ wake = Delay /\ firstSleep = TRUE
  /\ batches = {} /\ round = 0
  /\ endFlag = FALSE /\ endAt = 0

Due == main \in Waits /\ now = wake

----------------------------------------------------------------------------
DelayOver ==
  /\ main = "delay" /\ Due
  /\ main' = "check"
  /\ UNCHANGED <<now, wake, firstSleep, batches, round, endFlag, endAt>>

\* leaves room for the flag but not for the batch
MutStopping == StopTime # 0 /\ now >= StopTime - 60

\* measures the time since the last round
MutRestarted == StopTime # 0 /\ now - wake >= StopTime - Offset - 60

Stopping == StopTime # 0 /\ now >= StopTime - Offset - 60

\* nothing resets is_first_sleep
MutSleepTime == Max({Period - Offset, 0})

SleepTime == IF firstSleep THEN Max({Period - Offset, 0}) ELSE Period

\* The top of the loop: sleep until the next round, or for the last one.
CheckGoesOn ==
  /\ main = "check" /\ ~Stopping
  /\ main' = "sleep" /\ wake' = now + SleepTime
  /\ firstSleep' = FALSE
  /\ UNCHANGED <<now, batches, round, endFlag, endAt>>

\* a fixed grace in place of the offset
MutDrainTime == 60

DrainTime == Offset

CheckStops ==
  /\ main = "check" /\ Stopping
  /\ main' = "drain" /\ wake' = now + DrainTime
  /\ UNCHANGED <<now, firstSleep, batches, round, endFlag, endAt>>

\* The targets of the round are computed and the corpus is parsed.
RoundBegins ==
  /\ main = "sleep" /\ Due
  /\ round' = round + 1
  /\ main' = "parse"
  /\ \E p \in ParseTimes : wake' = now + p
  /\ UNCHANGED <<now, firstSleep, batches, endFlag, endAt>>

\* subprocess.run(.., check=True) raises and nothing catches it: no batch is started
\* any more, and nobody creates GENERATION_END.
ParseFails ==
  /\ main = "parse" /\ Due
  /\ main' = "dead"
  /\ UNCHANGED <<now, wake, firstSleep, batches, round, endFlag, endAt>>

Capped(k) == IF MaxGen # 0 /\ k > MaxGen THEN MaxGen ELSE k

\* One minute after every twenty generations; the break on max_gen comes before it.
Pauses(k) ==
  IF ~Remote THEN 0
  ELSE IF MaxGen # 0 /\ k >= MaxGen THEN (MaxGen - 1) \div 20 ELSE k \div 20

Duration(k, c) == c * Capped(k) + 60 * Pauses(k)

BatchStarts ==
  /\ main = "parse" /\ Due
  /\ main' = "check"
  /\ \E k \in BatchSizes, c \in CallTimes :
       batches' = batches \cup {<<round, now + Duration(k, c)>>}
  /\ UNCHANGED <<now, wake, firstSleep, round, endFlag, endAt>>

\* notify_generation_end logs what goes wrong and lets it be.
DrainOver ==
  /\ main = "drain" /\ Due
  /\ main' = "done"
  /\ \/ endFlag' = TRUE /\ endAt' = now
     \/ UNCHANGED <<endFlag, endAt>>
  /\ UNCHANGED <<now, wake, firstSleep, batches, round>>

BatchEnds ==
  /\ \E b \in batches : b[2] = now /\ batches' = batches \ {b}
  /\ UNCHANGED <<now, main, wake, firstSleep, round, endFlag, endAt>>

----------------------------------------------------------------------------
\* The clock goes on to the next event.
Events == {b[2] : b \in batches} \cup (IF main \in Waits THEN {wake} ELSE {})

Tick ==
  /\ main # "check" /\ Events # {} /\ Min(Events) > now /\ Min(Events) <= Horizon
  /\ now' = Min(Events)
  /\ UNCHANGED <<main, wake, firstSleep, batches, round, endFlag, endAt>>

MainStep ==
  DelayOver \/ CheckGoesOn \/ CheckStops \/ RoundBegins \/ ParseFails \/ BatchStarts
    \/ DrainOver

Next == MainStep \/ BatchEnds \/ Tick

Spec == Init /\ [][Next]_vars

\* Sleeps end, batches and syz-db as well, and time does not stop.
FairSpec == Spec /\ WF_vars(Next)

----------------------------------------------------------------------------
(* Properties.                                                              *)

MaxParse == Max(ParseTimes)

Alive == {b \in batches : b[2] > now}

\* The log line 480 says the last sleep is "to wait util the potential last round
\* generation finished": no batch is at work when GENERATION_END appears.  True of a
\* model that needs no more than one_exec_time a call and no pauses.
LastRoundWaited == endFlag => \A b \in batches : b[2] <= endAt

\* Batches run one at a time if the offset fits in the period: what nothing in the code
\* enforces, and the saving of the history by each batch relies on.
OneBatchAtATime == Offset <= Period => Cardinality(Alive) <= 1

\* -S is overrun by less than a period and the parse of one round, less the minute the
\* check is early by, whenever it happens to fall. With a parse of more than a minute
\* this is more than a period.
StopOverrun ==
  main = "done" /\ StopTime # 0 /\ round > 0 =>
    now < StopTime - 60 + Period + MaxParse

\* The rounds keep their pace, however short batches and parses are: none begins before it
\* is due, and there are no more than begin to fit before the stop time.  So a period
\* that is not zero bounds them, which LoopEnds rests on; -S and -T bound what is asked.
RoundDue(r) == Delay + Max({Period - Offset, 0}) + (r - 1) * Period

RoundsFit ==
  /\ round > 0 => RoundDue(round) <= now
  /\ round > 1 /\ StopTime # 0 => RoundDue(round - 1) < StopTime - Offset - 60

\* With a stop time the loop comes to its end, unless syz-db fails.
LoopEnds == StopTime # 0 => <>(main \in {"done", "dead"})
=============================================================================
