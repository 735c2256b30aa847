------------------------- MODULE QueryRetryProofs -------------------------
(***************************************************************************)
(* What QueryRetry promises the caller of query_with_history_new, for every *)
(* prompt, limit and length of a token: the outcome of a call follows from  *)
(* what the service said, its messages are the end of the prompt, and the   *)
(* query is asked in full where it is short and a token two characters.     *)
(***************************************************************************)
EXTENDS QueryRetry, WellFoundedInduction, TLAPS

Refused  == {"tooLong", "rejected"}
Outcomes == Refused \cup {"answer", "unreadable", "failure", "secondAnswer", "secondFailure"}

TypeInv ==
  /\ tries \in 0..MaxTry
  /\ pc \in {"try", "sent", "retry"} \cup Ended
  /\ response \in Nat
  /\ sends \in Seq(Outcomes)

LEMMA TypeInit == Init => TypeInv
BY DEF Init, TypeInv, MaxTry

\* One request more, whatever became of it.
LEMMA OneMoreSend ==
  ASSUME TypeInv, NEW outcome \in Outcomes, Sent(outcome)
  PROVE  /\ sends' \in Seq(Outcomes)
         /\ Len(sends') = Len(sends) + 1 /\ Len(sends) \in Nat
         /\ sends'[Len(sends')] = outcome
         /\ \A i \in 1..Len(sends) : sends'[i] = sends[i]
         /\ DOMAIN sends = 1..Len(sends) /\ DOMAIN sends' = 1..Len(sends')
BY DEF TypeInv, Sent

LEMMA TypeStep == TypeInv /\ [Next]_vars => TypeInv'
<1> SUFFICES ASSUME TypeInv, [Next]_vars PROVE TypeInv'
  OBVIOUS
<1>1. CASE Try
  BY <1>1 DEF TypeInv, Try, TriesLeft, Counted, MaxTry
<1>2. CASE Answered
  <2>1. Sent("answer") /\ "answer" \in Outcomes
    BY <1>2 DEF Answered, Outcomes
  <2>2. QED
    BY <1>2, <2>1, OneMoreSend DEF TypeInv, Answered, Ended
<1>3. CASE TooLong
  <2>1. Sent("tooLong") /\ "tooLong" \in Outcomes
    BY <1>3 DEF TooLong, Outcomes, Refused
  <2>2. QED
    BY <1>3, <2>1, OneMoreSend DEF TypeInv, TooLong
<1>4. CASE TooLongUnreadable
  <2>1. Sent("unreadable") /\ "unreadable" \in Outcomes
    BY <1>4 DEF TooLongUnreadable, Outcomes
  <2>2. QED
    BY <1>4, <2>1, OneMoreSend DEF TypeInv, TooLongUnreadable, Ended
<1>5. CASE Rejected
  <2>1. Sent("rejected") /\ "rejected" \in Outcomes
    BY <1>5 DEF Rejected, Outcomes, Refused
  <2>2. QED
    BY <1>5, <2>1, OneMoreSend DEF TypeInv, Rejected
<1>6. CASE Fails
  <2>1. Sent("failure") /\ "failure" \in Outcomes
    BY <1>6 DEF Fails, Outcomes
  <2>2. QED
    BY <1>6, <2>1, OneMoreSend DEF TypeInv, Fails, AfterFailure
<1>7. CASE RetryAnswered
  <2>1. Sent("secondAnswer") /\ "secondAnswer" \in Outcomes
    BY <1>7 DEF RetryAnswered, Outcomes
  <2>2. QED
    BY <1>7, <2>1, OneMoreSend DEF TypeInv, RetryAnswered, Got
<1>8. CASE RetryFails
  <2>1. Sent("secondFailure") /\ "secondFailure" \in Outcomes
    BY <1>8 DEF RetryFails, Outcomes
  <2>2. QED
    BY <1>8, <2>1, OneMoreSend DEF TypeInv, RetryFails, Ended
<1>9. CASE Interrupted
  BY <1>9 DEF TypeInv, Interrupted, Ended
<1>10. CASE GivesUp
  BY <1>10 DEF TypeInv, GivesUp, Ended
<1>11. CASE UNCHANGED vars
  BY <1>11 DEF TypeInv, vars
<1>12. QED
  BY <1>1, <1>2, <1>3, <1>4, <1>5, <1>6, <1>7, <1>8, <1>9, <1>10, <1>11 DEF Next

----------------------------------------------------------------------------
(* The newest answer.  The response is never older than an answer there was, *)
(* also while the loop asks again after the answer of a second send.         *)

AnswerInv ==
  /\ response # 0 => response \in AnswersAt
  /\ \A i \in AnswersAt : i <= response

LEMMA AnswerInit == Init => AnswerInv
BY DEF Init, AnswerInv, AnswersAt

LEMMA AnswerStep == TypeInv /\ AnswerInv /\ [Next]_vars => AnswerInv'
<1> SUFFICES ASSUME TypeInv, AnswerInv, [Next]_vars PROVE AnswerInv'
  OBVIOUS
<1>1. CASE Try
  BY <1>1 DEF AnswerInv, AnswersAt, Try
<1>2. CASE Answered
  <2>1. Sent("answer") /\ "answer" \in Outcomes
    BY <1>2 DEF Answered, Outcomes
  <2>2. QED
    BY <1>2, <2>1, OneMoreSend DEF AnswerInv, Answered, AnswersAt
<1>3. CASE TooLong
  <2>1. Sent("tooLong") /\ "tooLong" \in Outcomes
    BY <1>3 DEF TooLong, Outcomes, Refused
  <2>2. QED
    BY <1>3, <2>1, OneMoreSend DEF AnswerInv, TooLong, AnswersAt
<1>4. CASE TooLongUnreadable
  <2>1. Sent("unreadable") /\ "unreadable" \in Outcomes
    BY <1>4 DEF TooLongUnreadable, Outcomes
  <2>2. QED
    BY <1>4, <2>1, OneMoreSend DEF AnswerInv, TooLongUnreadable, AnswersAt
<1>5. CASE Rejected
  <2>1. Sent("rejected") /\ "rejected" \in Outcomes
    BY <1>5 DEF Rejected, Outcomes, Refused
  <2>2. QED
    BY <1>5, <2>1, OneMoreSend DEF AnswerInv, Rejected, AnswersAt
<1>6. CASE Fails
  <2>1. Sent("failure") /\ "failure" \in Outcomes
    BY <1>6 DEF Fails, Outcomes
  <2>2. QED
    BY <1>6, <2>1, OneMoreSend DEF AnswerInv, Fails, AnswersAt
<1>7. CASE RetryAnswered
  <2>1. Sent("secondAnswer") /\ "secondAnswer" \in Outcomes
    BY <1>7 DEF RetryAnswered, Outcomes
  <2>2. QED
    BY <1>7, <2>1, OneMoreSend DEF AnswerInv, RetryAnswered, Got, AnswersAt
<1>8. CASE RetryFails
  <2>1. Sent("secondFailure") /\ "secondFailure" \in Outcomes
    BY <1>8 DEF RetryFails, Outcomes
  <2>2. QED
    BY <1>8, <2>1, OneMoreSend DEF AnswerInv, RetryFails, AnswersAt
<1>9. CASE Interrupted
  BY <1>9 DEF AnswerInv, AnswersAt, Interrupted
<1>10. CASE GivesUp
  BY <1>10 DEF AnswerInv, AnswersAt, GivesUp
<1>11. CASE UNCHANGED vars
  BY <1>11 DEF AnswerInv, AnswersAt, vars
<1>12. QED
  BY <1>1, <1>2, <1>3, <1>4, <1>5, <1>6, <1>7, <1>8, <1>9, <1>10, <1>11 DEF Next

----------------------------------------------------------------------------
(* No answer.  As long as there is none, each try made is one request, and   *)
(* the service has refused all of them: a failure is followed by a second    *)
(* send, which ends in an answer or in an exception.                         *)

EmptyInv ==
  /\ response = 0 /\ pc \in {"try", "sent", "returned"} =>
       /\ Len(sends) = IF pc = "sent" THEN tries - 1 ELSE tries
       /\ \A i \in DOMAIN sends : sends[i] \in Refused
  /\ response = 0 /\ pc = "returned" => tries = MaxTry

LEMMA EmptyInit == Init => EmptyInv
BY DEF Init, EmptyInv

LEMMA EmptyStep == TypeInv /\ EmptyInv /\ [Next]_vars => EmptyInv'
<1> SUFFICES ASSUME TypeInv, EmptyInv, [Next]_vars PROVE EmptyInv'
  OBVIOUS
<1>1. CASE Try
  BY <1>1 DEF EmptyInv, Try, Counted
<1>2. CASE Answered
  <2>1. Sent("answer") /\ "answer" \in Outcomes
    BY <1>2 DEF Answered, Outcomes
  <2>2. QED
    BY <1>2, <2>1, OneMoreSend DEF EmptyInv, Answered
<1>3. CASE TooLong
  <2>1. Sent("tooLong") /\ "tooLong" \in Outcomes
    BY <1>3 DEF TooLong, Outcomes, Refused
  <2>2. QED
    BY <1>3, <2>1, OneMoreSend DEF TypeInv, EmptyInv, TooLong, Refused
<1>4. CASE TooLongUnreadable
  <2>1. Sent("unreadable") /\ "unreadable" \in Outcomes
    BY <1>4 DEF TooLongUnreadable, Outcomes
  <2>2. QED
    BY <1>4, <2>1 DEF EmptyInv, TooLongUnreadable
<1>5. CASE Rejected
  <2>1. Sent("rejected") /\ "rejected" \in Outcomes
    BY <1>5 DEF Rejected, Outcomes, Refused
  <2>2. QED
    BY <1>5, <2>1, OneMoreSend DEF TypeInv, EmptyInv, Rejected, Refused
<1>6. CASE Fails
  <2>1. Sent("failure") /\ "failure" \in Outcomes
    BY <1>6 DEF Fails, Outcomes
  <2>2. QED
    BY <1>6, <2>1 DEF EmptyInv, Fails, AfterFailure
<1>7. CASE RetryAnswered
  <2>1. Sent("secondAnswer") /\ "secondAnswer" \in Outcomes
    BY <1>7 DEF RetryAnswered, Outcomes
  <2>2. QED
    BY <1>7, <2>1, OneMoreSend DEF EmptyInv, RetryAnswered, Got
<1>8. CASE RetryFails
  <2>1. Sent("secondFailure") /\ "secondFailure" \in Outcomes
    BY <1>8 DEF RetryFails, Outcomes
  <2>2. QED
    BY <1>8, <2>1 DEF EmptyInv, RetryFails
<1>9. CASE Interrupted
  BY <1>9 DEF EmptyInv, Interrupted
<1>10. CASE GivesUp
  BY <1>10 DEF TypeInv, EmptyInv, GivesUp, TriesLeft, MaxTry
<1>11. CASE UNCHANGED vars
  BY <1>11 DEF EmptyInv, vars
<1>12. QED
  BY <1>1, <1>2, <1>3, <1>4, <1>5, <1>6, <1>7, <1>8, <1>9, <1>10, <1>11 DEF Next

----------------------------------------------------------------------------
(* An exception.  The second send follows a failure and nothing else.        *)

RaiseInv ==
  /\ pc = "retry" => Len(sends) >= 1 /\ sends[Len(sends)] = "failure"
  /\ pc = "raised" =>
       \/ sends[Len(sends)] = "unreadable"
       \/ /\ Len(sends) >= 2 /\ sends[Len(sends)] = "secondFailure"
          /\ sends[Len(sends) - 1] = "failure"

LEMMA RaiseInit == Init => RaiseInv
BY DEF Init, RaiseInv

LEMMA RaiseStep == TypeInv /\ RaiseInv /\ [Next]_vars => RaiseInv'
<1> SUFFICES ASSUME TypeInv, RaiseInv, [Next]_vars PROVE RaiseInv'
  OBVIOUS
<1>1. CASE Try
  BY <1>1 DEF RaiseInv, Try
<1>2. CASE Answered
  <2>1. Sent("answer") /\ "answer" \in Outcomes
    BY <1>2 DEF Answered, Outcomes
  <2>2. QED
    BY <1>2, <2>1 DEF RaiseInv, Answered
<1>3. CASE TooLong
  <2>1. Sent("tooLong") /\ "tooLong" \in Outcomes
    BY <1>3 DEF TooLong, Outcomes, Refused
  <2>2. QED
    BY <1>3, <2>1 DEF RaiseInv, TooLong
<1>4. CASE TooLongUnreadable
  <2>1. Sent("unreadable") /\ "unreadable" \in Outcomes
    BY <1>4 DEF TooLongUnreadable, Outcomes
  <2>2. QED
    BY <1>4, <2>1, OneMoreSend DEF RaiseInv, TooLongUnreadable
<1>5. CASE Rejected
  <2>1. Sent("rejected") /\ "rejected" \in Outcomes
    BY <1>5 DEF Rejected, Outcomes, Refused
  <2>2. QED
    BY <1>5, <2>1 DEF RaiseInv, Rejected
<1>6. CASE Fails
  <2>1. Sent("failure") /\ "failure" \in Outcomes
    BY <1>6 DEF Fails, Outcomes
  <2>2. QED
    BY <1>6, <2>1, OneMoreSend DEF RaiseInv, Fails, AfterFailure
<1>7. CASE RetryAnswered
  <2>1. Sent("secondAnswer") /\ "secondAnswer" \in Outcomes
    BY <1>7 DEF RetryAnswered, Outcomes
  <2>2. QED
    BY <1>7, <2>1 DEF RaiseInv, RetryAnswered
<1>8. CASE RetryFails
  <2>1. Sent("secondFailure") /\ "secondFailure" \in Outcomes
    BY <1>8 DEF RetryFails, Outcomes
  <2>2. QED
    BY <1>8, <2>1, OneMoreSend DEF RaiseInv, RetryFails
<1>9. CASE Interrupted
  BY <1>9 DEF RaiseInv, Interrupted
<1>10. CASE GivesUp
  BY <1>10 DEF RaiseInv, GivesUp
<1>11. CASE UNCHANGED vars
  BY <1>11 DEF RaiseInv, vars
<1>12. QED
  BY <1>1, <1>2, <1>3, <1>4, <1>5, <1>6, <1>7, <1>8, <1>9, <1>10, <1>11 DEF Next

----------------------------------------------------------------------------
QueryInv == TypeInv /\ AnswerInv /\ EmptyInv /\ RaiseInv

LEMMA NewestAnswer == TypeInv /\ AnswerInv => AnswersKept
<1> SUFFICES ASSUME TypeInv, AnswerInv, AnswersAt # {} PROVE response = Max(AnswersAt)
  BY DEF AnswersKept
<1>1. AnswersAt \subseteq Nat
  BY DEF TypeInv, AnswersAt
<1>2. response \in AnswersAt /\ \A i \in AnswersAt : response >= i
  <2>1. PICK i \in AnswersAt : i \in Nat /\ i > 0 /\ i <= response
    BY DEF TypeInv, AnswerInv, AnswersAt
  <2>2. QED
    BY <2>1, <1>1 DEF AnswerInv
<1>3. \A m \in AnswersAt : (\A i \in AnswersAt : m >= i) => m = response
  BY <1>1, <1>2
<1>4. QED
  BY <1>2, <1>3 DEF Max

LEMMA OutcomeFollows == QueryInv => OutcomeExplained
<1> SUFFICES ASSUME QueryInv PROVE OutcomeExplained
  OBVIOUS
<1>1. AnswersKept
  BY NewestAnswer DEF QueryInv
<1>2. EmptyExplained
  BY DEF QueryInv, EmptyInv, EmptyExplained, Refused
<1>3. RaiseExplained
  BY DEF QueryInv, RaiseInv, RaiseExplained, Last
<1>4. QED
  BY <1>1, <1>2, <1>3 DEF OutcomeExplained

\* The outcome of a query follows from what the service said, whatever the prompt and
\* however the requests fail: the newest answer, nothing only after three refusals, an
\* exception only after two failures in a row or an unreadable message
\* (gpt_wrapper.py:57-93).
THEOREM OutcomeFollowsService == Spec => []OutcomeExplained
<1>1. Init => QueryInv
  BY TypeInit, AnswerInit, EmptyInit, RaiseInit DEF QueryInv
<1>2. QueryInv /\ [Next]_vars => QueryInv'
  BY TypeStep, AnswerStep, EmptyStep, RaiseStep DEF QueryInv
<1>3. QED
  BY <1>1, <1>2, OutcomeFollows, PTL DEF Spec

----------------------------------------------------------------------------
(* What clip_msg leaves of the messages is a fold over them, and so is the   *)
(* length of a prompt.  Both are proved by induction, which the prover has   *)
(* from < being well founded on the natural numbers.                        *)
\* Induction over the natural numbers, for a set of them.
LEMMA AllNaturals ==
  ASSUME NEW T \in SUBSET Nat, 0 \in T, \A n \in T : n + 1 \in T
  PROVE  T = Nat
<1> SUFFICES ASSUME Nat \ T # {} PROVE FALSE
  OBVIOUS
<1>1. PICK m \in Nat \ T : \A x \in Nat \ T : <<x, m>> \notin OpToRel(<, Nat)
  BY WFMin, NatLessThanWellFounded
<1>2. m \in Nat /\ m \notin T /\ m # 0
  OBVIOUS
<1>3. m - 1 \in Nat /\ (m - 1) + 1 = m
  BY <1>2
<1>4. m - 1 \notin T
  BY <1>2, <1>3
<1>5. ~(m - 1 < m)
  BY <1>1, <1>3, <1>4 DEF OpToRel
<1>6. QED
  BY <1>2, <1>5

(* FoldLeft takes the greatest index off a set of indices.  The function it  *)
(* chooses exists, whatever the step.                                        *)
Folds(f, A, step, base, seq, n) ==
  /\ f \in [SUBSET (1..n) -> A] /\ f[{}] = base
  /\ \A s \in SUBSET (1..n) :
       s # {} => Max(s) \in s /\ f[s] = step[f[s \ {Max(s)}]][seq[Max(s)]]

LEMMA MaxOfPrefix ==
  ASSUME NEW n \in Nat, NEW s \in SUBSET (1..n + 1), n + 1 \in s
  PROVE  Max(s) = n + 1
<1>1. \A x \in s : n + 1 >= x
  OBVIOUS
<1>2. \A x \in s : (\A y \in s : x >= y) => x = n + 1
  OBVIOUS
<1>3. QED
  BY <1>1, <1>2 DEF Max

LEMMA FoldExists ==
  ASSUME NEW A, NEW D, NEW base \in A, NEW step \in [A -> [D -> A]],
         NEW k \in Nat, NEW seq \in [1..k -> D]
  PROVE  \E f : Folds(f, A, step, base, seq, k)
<1> DEFINE T == {n \in Nat : n <= k => \E f : Folds(f, A, step, base, seq, n)}
<1>1. 0 \in T
  <2>1. 1..0 = {}
    OBVIOUS
  <2>2. Folds([s \in SUBSET (1..0) |-> base], A, step, base, seq, 0)
    BY <2>1 DEF Folds
  <2>3. QED
    BY <2>2
<1>2. ASSUME NEW n \in T PROVE n + 1 \in T
  <2> SUFFICES ASSUME n + 1 <= k PROVE \E f : Folds(f, A, step, base, seq, n + 1)
    OBVIOUS
  <2>1. PICK f : Folds(f, A, step, base, seq, n)
    OBVIOUS
  <2> DEFINE g == [s \in SUBSET (1..n + 1) |->
                     IF n + 1 \in s THEN step[f[s \ {n + 1}]][seq[n + 1]] ELSE f[s]]
  <2>2. n \in Nat /\ seq[n + 1] \in D /\ 1..n + 1 = (1..n) \cup {n + 1} /\ n + 1 \notin 1..n
    OBVIOUS
  <2>3. \A s \in SUBSET (1..n + 1) : s \ {n + 1} \in SUBSET (1..n)
    BY <2>2
  <2>4. \A s \in SUBSET (1..n + 1) : n + 1 \notin s => s \in SUBSET (1..n)
    BY <2>2
  <2>5. g \in [SUBSET (1..n + 1) -> A] /\ g[{}] = base
    <3>1. \A s \in SUBSET (1..n) : f[s] \in A
      BY <2>1 DEF Folds
    <3>2. ASSUME NEW s \in SUBSET (1..n + 1)
          PROVE  (IF n + 1 \in s THEN step[f[s \ {n + 1}]][seq[n + 1]] ELSE f[s]) \in A
      <4>1. CASE n + 1 \in s
        <5>1. f[s \ {n + 1}] \in A
          BY <2>3, <3>1
        <5>2. QED
          BY <2>2, <4>1, <5>1
      <4>2. CASE n + 1 \notin s
        BY <2>4, <3>1, <4>2
      <4>3. QED
        BY <4>1, <4>2
    <3>3. g[{}] = base
      BY <2>1 DEF Folds
    <3>4. QED
      BY <3>2, <3>3
  <2>6. ASSUME NEW s \in SUBSET (1..n + 1), s # {}
        PROVE  Max(s) \in s /\ g[s] = step[g[s \ {Max(s)}]][seq[Max(s)]]
    <3>1. CASE n + 1 \in s
      <4>1. Max(s) = n + 1
        BY <2>2, <3>1, MaxOfPrefix
      <4>2. g[s \ {n + 1}] = f[s \ {n + 1}]
        BY <2>3
      <4>3. QED
        BY <3>1, <4>1, <4>2
    <3>2. CASE n + 1 \notin s
      <4>1. s \in SUBSET (1..n) /\ s \ {Max(s)} \in SUBSET (1..n + 1)
        BY <2>4, <3>2
      <4>2. g[s] = f[s] /\ g[s \ {Max(s)}] = f[s \ {Max(s)}]
        BY <3>2, <4>1
      <4>3. QED
        BY <2>1, <2>6, <4>1, <4>2 DEF Folds
    <3>3. QED
      BY <3>1, <3>2
  <2>7. Folds(g, A, step, base, seq, n + 1)
    BY <2>5, <2>6 DEF Folds
  <2>8. QED
    BY <2>7
<1>3. T = Nat
  <2> HIDE DEF T
  <2>1. QED
    BY <1>1, <1>2, AllNaturals DEF T
<1>4. k \in T
  BY <1>3
<1>5. QED
  BY <1>4

\* The prefixes of a sequence among the sets of its indices.
LEMMA FirstIndices ==
  ASSUME NEW n \in Nat, NEW i \in 1..n
  PROVE  1..i \in SUBSET (1..n) /\ 1..i # {} /\ Max(1..i) = i /\ (1..i) \ {i} = 1..(i - 1)
<1>1. i - 1 \in Nat /\ (i - 1) + 1 = i /\ i \in 1..i
  OBVIOUS
<1>2. Max(1..i) = i
  <2> DEFINE m == i - 1
  <2>1. m \in Nat /\ m + 1 = i
    BY <1>1
  <2>2. 1..i \in SUBSET (1..m + 1) /\ m + 1 \in 1..i
    BY <1>1, <2>1
  <2> HIDE DEF m
  <2>3. Max(1..i) = m + 1
    BY <2>1, <2>2, MaxOfPrefix
  <2>4. QED
    BY <2>1, <2>3
<1>3. i \in 1..i /\ (1..i) \ {i} = 1..(i - 1) /\ 1..i \in SUBSET (1..n)
  OBVIOUS
<1>4. QED
  BY <1>2, <1>3

----------------------------------------------------------------------------
(* The length of the messages.                                              *)
TotalIter(f, lens) ==
  f = [s \in SUBSET DOMAIN lens |-> IF s = {} THEN 0 ELSE f[s \ {Max(s)}] + lens[Max(s)]]

\* Sums(r, lens): r[i] is what the first i messages come to.
Sums(r, lens) ==
  /\ r \in [0..Len(lens) -> Nat] /\ r[0] = 0
  /\ \A i \in 1..Len(lens) : r[i] = r[i - 1] + lens[i]

LEMMA TotalSums ==
  ASSUME NEW lens \in Seq(Nat)
  PROVE  \E r : Sums(r, lens) /\ Total(lens) = r[Len(lens)]
<1> DEFINE k == Len(lens)
           add == [x \in Nat |-> [y \in Nat |-> x + y]]
           f == CHOOSE g : TotalIter(g, lens)
<1>1. k \in Nat /\ lens \in [1..k -> Nat] /\ DOMAIN lens = 1..k
  OBVIOUS
<1>2. Total(lens) = f[1..k]
  BY <1>1 DEF Total, FoldLeft, MapThenFoldSet, TotalIter
<1>3. TotalIter(f, lens)
  <2>1. add \in [Nat -> [Nat -> Nat]] /\ \A x, y \in Nat : add[x][y] = x + y
    OBVIOUS
  <2> HIDE DEF add
  <2>2. PICK g : Folds(g, Nat, add, 0, lens, k)
    BY <1>1, <2>1, FoldExists
  <2>3. \A s \in SUBSET (1..k) :
          g[s] = IF s = {} THEN 0 ELSE g[s \ {Max(s)}] + lens[Max(s)]
    <3>1. TAKE s \in SUBSET (1..k)
    <3>2. CASE s = {}
      BY <2>2, <3>2 DEF Folds
    <3>3. CASE s # {}
      <4>1. Max(s) \in s /\ g[s] = add[g[s \ {Max(s)}]][lens[Max(s)]]
        BY <2>2, <3>3 DEF Folds
      <4>2. lens[Max(s)] \in Nat /\ g[s \ {Max(s)}] \in Nat
        BY <1>1, <2>2, <4>1 DEF Folds
      <4>3. QED
        BY <2>1, <3>3, <4>1, <4>2
    <3>4. QED
      BY <3>2, <3>3
  <2>4. TotalIter(g, lens)
    BY <1>1, <2>2, <2>3 DEF Folds, TotalIter
  <2>5. QED
    BY <2>4
<1>4. \A s \in SUBSET (1..k) : f[s] = IF s = {} THEN 0 ELSE f[s \ {Max(s)}] + lens[Max(s)]
  <2> HIDE DEF f
  <2>1. QED
    BY <1>1, <1>3 DEF TotalIter
<1> HIDE DEF f
<1> DEFINE T == {i \in Nat : i <= k => f[1..i] \in Nat}
<1>5. f[1..0] = 0
  <2>1. 1..0 = {}
    OBVIOUS
  <2>2. QED
    BY <1>4, <2>1
<1>6. \A i \in 1..k : f[1..i] = f[1..(i - 1)] + lens[i]
  BY <1>1, <1>4, FirstIndices
<1>7. T = Nat
  <2>1. 0 \in T
    BY <1>5
  <2>2. ASSUME NEW i \in T PROVE i + 1 \in T
    <3> SUFFICES ASSUME i + 1 <= k PROVE f[1..i + 1] \in Nat
      OBVIOUS
    <3>1. i \in Nat /\ i + 1 \in 1..k /\ (i + 1) - 1 = i /\ f[1..i] \in Nat
      OBVIOUS
    <3>2. f[1..i + 1] = f[1..i] + lens[i + 1]
      BY <1>6, <3>1
    <3>3. QED
      BY <1>1, <3>1, <3>2
  <2> HIDE DEF T
  <2>3. QED
    BY <2>1, <2>2, AllNaturals DEF T
<1>8. \A i \in 0..k : f[1..i] \in Nat
  <2>1. TAKE i \in 0..k
  <2>2. i \in T /\ i <= k
    BY <1>7
  <2>3. QED
    BY <2>2
<1> DEFINE r == [i \in 0..k |-> f[1..i]]
<1>9. Sums(r, lens)
  <2>1. \A i \in 1..k : r[i] = f[1..i] /\ r[i - 1] = f[1..(i - 1)]
    BY <1>1
  <2>2. r \in [0..k -> Nat] /\ r[0] = 0
    BY <1>1, <1>5, <1>8
  <2>3. QED
    BY <1>6, <2>1, <2>2 DEF Sums
<1>10. Total(lens) = r[k]
  BY <1>1, <1>2
<1>11. QED
  BY <1>9, <1>10

\* What two sequences share comes to the same.
LEMMA SumsAgree ==
  ASSUME NEW lens \in Seq(Nat), NEW more \in Seq(Nat), NEW r, NEW q, Sums(r, lens), Sums(q, more),
         NEW n \in Nat, n <= Len(lens), n <= Len(more),
         \A i \in 1..n : lens[i] = more[i]
  PROVE  r[n] = q[n]
<1> DEFINE T == {i \in Nat : i <= n => r[i] = q[i]}
<1>1. 0 \in T
  BY DEF Sums
<1>2. ASSUME NEW i \in T PROVE i + 1 \in T
  <2> SUFFICES ASSUME i + 1 <= n PROVE r[i + 1] = q[i + 1]
    OBVIOUS
  <2>1. /\ i + 1 \in 1..n /\ i + 1 \in 1..Len(lens) /\ i + 1 \in 1..Len(more)
        /\ (i + 1) - 1 = i /\ r[i] = q[i]
    OBVIOUS
  <2>2. r[i + 1] = r[i] + lens[i + 1] /\ q[i + 1] = q[i] + more[i + 1]
    BY <2>1 DEF Sums
  <2>3. QED
    BY <2>1, <2>2
<1>3. T = Nat
  <2> HIDE DEF T
  <2>1. QED
    BY <1>1, <1>2, AllNaturals DEF T
<1>4. n \in T
  BY <1>3
<1>5. QED
  BY <1>4

LEMMA TotalIsNatural ==
  ASSUME NEW lens \in Seq(Nat)
  PROVE  Total(lens) \in Nat
<1>1. PICK r : Sums(r, lens) /\ Total(lens) = r[Len(lens)]
  BY TotalSums
<1>2. Len(lens) \in 0..Len(lens)
  OBVIOUS
<1>3. QED
  BY <1>1, <1>2 DEF Sums

LEMMA TotalEmpty == Total(<<>>) = 0
<1>1. PICK r : Sums(r, <<>>) /\ Total(<<>>) = r[Len(<<>>)]
  <2>1. <<>> \in Seq(Nat)
    OBVIOUS
  <2>2. QED
    BY <2>1, TotalSums
<1>2. QED
  BY <1>1 DEF Sums

LEMMA TotalAppend ==
  ASSUME NEW lens \in Seq(Nat), NEW l \in Nat
  PROVE  Total(Append(lens, l)) = Total(lens) + l
<1> DEFINE more == Append(lens, l)
           n == Len(lens)
<1>1. /\ more \in Seq(Nat) /\ Len(more) = n + 1 /\ n \in Nat /\ more[n + 1] = l
      /\ \A i \in 1..n : lens[i] = more[i]
  OBVIOUS
<1> HIDE DEF more
<1>2. PICK r : Sums(r, lens) /\ Total(lens) = r[n]
  BY TotalSums
<1>3. PICK q : Sums(q, more) /\ Total(more) = q[n + 1]
  BY <1>1, TotalSums
<1>4. r[n] = q[n]
  <2>1. n <= Len(lens) /\ n <= Len(more)
    BY <1>1
  <2>2. Sums(r, lens) /\ Sums(q, more)
    BY <1>2, <1>3
  <2> HIDE DEF n
  <2>3. QED
    BY <1>1, <2>1, <2>2, SumsAgree
<1>5. q[n + 1] = q[n] + l
  <2>1. n + 1 \in 1..Len(more) /\ (n + 1) - 1 = n
    BY <1>1
  <2>2. QED
    BY <1>1, <1>3, <2>1 DEF Sums
<1>6. QED
  BY <1>2, <1>3, <1>4, <1>5 DEF more

----------------------------------------------------------------------------
(* Clipping, a message at a time.                                           *)
Message == [id : Nat, len : Nat]
Clipping == [msgs : Seq(Message), n : Nat, done : BOOLEAN]

ClipStep(acc, m) ==
  IF acc.done THEN [acc EXCEPT !.msgs = Append(@, m)]
  ELSE IF m.len > acc.n
  THEN [msgs |-> Append(acc.msgs, [m EXCEPT !.len = @ - acc.n]), n |-> acc.n, done |-> TRUE]
  ELSE [acc EXCEPT !.n = @ - m.len]

Unclipped(n) == [msgs |-> <<>>, n |-> n, done |-> FALSE]

LEMMA ClipStepType ==
  ASSUME NEW acc \in Clipping, NEW m \in Message
  PROVE  ClipStep(acc, m) \in Clipping
<1>1. PICK ms \in Seq(Message), n \in Nat, done \in BOOLEAN :
        acc = [msgs |-> ms, n |-> n, done |-> done]
  BY DEF Clipping
<1>2. PICK id \in Nat, len \in Nat : m = [id |-> id, len |-> len]
  BY DEF Message
<1>3. CASE done
  <2>1. ClipStep(acc, m) = [msgs |-> Append(ms, m), n |-> n, done |-> done]
    BY <1>1, <1>3 DEF ClipStep
  <2>2. QED
    BY <2>1 DEF Clipping
<1>4. CASE ~done /\ len > n
  <2>1. [m EXCEPT !.len = @ - n] = [id |-> id, len |-> len - n] /\ len - n \in Nat
    BY <1>2, <1>4
  <2>2. [id |-> id, len |-> len - n] \in Message
    BY <2>1 DEF Message
  <2>3. ClipStep(acc, m)
          = [msgs |-> Append(ms, [id |-> id, len |-> len - n]), n |-> n, done |-> TRUE]
    BY <1>1, <1>2, <1>4, <2>1 DEF ClipStep
  <2>4. QED
    BY <2>2, <2>3 DEF Clipping
<1>5. CASE ~done /\ ~(len > n)
  <2>1. ClipStep(acc, m) = [msgs |-> ms, n |-> n - len, done |-> done] /\ n - len \in Nat
    BY <1>1, <1>2, <1>5 DEF ClipStep
  <2>2. QED
    BY <2>1 DEF Clipping
<1>6. QED
  BY <1>3, <1>4, <1>5

ClipIter(f, msgs, n) ==
  f = [s \in SUBSET DOMAIN msgs |->
         IF s = {} THEN Unclipped(n) ELSE ClipStep(f[s \ {Max(s)}], msgs[Max(s)])]

\* Clips(r, msgs, n): r[i] is what clip_msg has made of the first i messages.
Clips(r, msgs, n) ==
  /\ r[0] = Unclipped(n)
  /\ \A i \in 1..Len(msgs) : r[i] = ClipStep(r[i - 1], msgs[i])

LEMMA ClipSteps ==
  ASSUME NEW msgs \in Seq(Message), NEW n \in Nat
  PROVE  \E r : Clips(r, msgs, n) /\ Clip(msgs, n) = r[Len(msgs)].msgs
<1> DEFINE k == Len(msgs)
           step == [acc \in Clipping |-> [m \in Message |-> ClipStep(acc, m)]]
           f == CHOOSE g : ClipIter(g, msgs, n)
<1>1. k \in Nat /\ msgs \in [1..k -> Message] /\ DOMAIN msgs = 1..k
  OBVIOUS
<1>2. Clip(msgs, n) = f[1..k].msgs
  BY <1>1 DEF Clip, FoldLeft, MapThenFoldSet, ClipIter, ClipStep, Unclipped
<1>3. ClipIter(f, msgs, n)
  <2>1. /\ step \in [Clipping -> [Message -> Clipping]]
        /\ \A acc \in Clipping, m \in Message : step[acc][m] = ClipStep(acc, m)
    BY ClipStepType
  <2>2. Unclipped(n) \in Clipping
    BY DEF Unclipped, Clipping
  <2> HIDE DEF step
  <2>3. PICK g : Folds(g, Clipping, step, Unclipped(n), msgs, k)
    BY <1>1, <2>1, <2>2, FoldExists
  <2>4. \A s \in SUBSET (1..k) :
          g[s] = IF s = {} THEN Unclipped(n) ELSE ClipStep(g[s \ {Max(s)}], msgs[Max(s)])
    <3>1. TAKE s \in SUBSET (1..k)
    <3>2. CASE s = {}
      BY <2>3, <3>2 DEF Folds
    <3>3. CASE s # {}
      <4>1. Max(s) \in s /\ g[s] = step[g[s \ {Max(s)}]][msgs[Max(s)]]
        BY <2>3, <3>3 DEF Folds
      <4>2. msgs[Max(s)] \in Message /\ g[s \ {Max(s)}] \in Clipping
        BY <1>1, <2>3, <4>1 DEF Folds
      <4>3. QED
        BY <2>1, <3>3, <4>1, <4>2
    <3>4. QED
      BY <3>2, <3>3
  <2>5. ClipIter(g, msgs, n)
    BY <1>1, <2>3, <2>4 DEF Folds, ClipIter
  <2>6. QED
    BY <2>5
<1>4. \A s \in SUBSET (1..k) :
        f[s] = IF s = {} THEN Unclipped(n) ELSE ClipStep(f[s \ {Max(s)}], msgs[Max(s)])
  <2> HIDE DEF f
  <2>1. QED
    BY <1>1, <1>3 DEF ClipIter
<1> HIDE DEF f
<1>5. f[1..0] = Unclipped(n)
  <2>1. 1..0 = {}
    OBVIOUS
  <2>2. QED
    BY <1>4, <2>1
<1>6. \A i \in 1..k : f[1..i] = ClipStep(f[1..(i - 1)], msgs[i])
  BY <1>1, <1>4, FirstIndices
<1> DEFINE r == [i \in 0..k |-> f[1..i]]
<1>7. Clips(r, msgs, n)
  <2>1. \A i \in 1..k : r[i] = f[1..i] /\ r[i - 1] = f[1..(i - 1)]
    BY <1>1
  <2>2. r[0] = Unclipped(n)
    BY <1>1, <1>5
  <2> HIDE DEF r
  <2>3. QED
    BY <1>6, <2>1, <2>2 DEF Clips
<1>8. Clip(msgs, n) = r[k].msgs
  BY <1>1, <1>2
<1>9. QED
  BY <1>7, <1>8

LEMMA MessageLengths ==
  ASSUME NEW ms \in Seq(Message)
  PROVE  \A i \in 1..Len(ms) : ms[i] \in Message /\ ms[i].len \in Nat
<1>1. \A i \in 1..Len(ms) : ms[i] \in Message
  OBVIOUS
<1>2. \A m \in Message : m.len \in Nat
  BY DEF Message
<1>3. QED
  BY <1>1, <1>2

LEMMA LengthsAppend ==
  ASSUME NEW ms \in Seq(Message), NEW m \in Message
  PROVE  /\ Lengths(ms) \in Seq(Nat) /\ m.len \in Nat
         /\ Lengths(Append(ms, m)) = Append(Lengths(ms), m.len)
<1>1. \A i \in 1..Len(ms) : ms[i].len \in Nat
  BY MessageLengths
<1>2. m.len \in Nat
  BY DEF Message
<1>3. Lengths(ms) \in Seq(Nat) /\ Len(Lengths(ms)) = Len(ms)
  BY <1>1 DEF Lengths
<1>4. Lengths(Append(ms, m)) = Append(Lengths(ms), m.len)
  BY <1>1, <1>2, <1>3 DEF Lengths
<1>5. QED
  BY <1>2, <1>3, <1>4

\* left is the end of the first k messages, whole but for the first of it.
EndOf(left, msgs, gone, k) ==
  /\ gone \in 0..k /\ left \in Seq(Message) /\ Len(left) = k - gone
  /\ \A i \in 1..Len(left) :
       /\ left[i].id = msgs[gone + i].id
       /\ left[i].len <= msgs[gone + i].len
       /\ i # 1 => left[i].len = msgs[gone + i].len

LEMMA EndGrows ==
  ASSUME NEW msgs \in Seq(Message), NEW k \in Nat, k + 1 <= Len(msgs),
         NEW left, NEW gone, EndOf(left, msgs, gone, k), gone # k
  PROVE  EndOf(Append(left, msgs[k + 1]), msgs, gone, k + 1)
<1> DEFINE more == Append(left, msgs[k + 1])
<1>1. /\ gone \in 0..k /\ left \in Seq(Message) /\ Len(left) = k - gone /\ Len(left) \in Nat
      /\ msgs[k + 1] \in Message
  BY DEF EndOf
<1>2. /\ more \in Seq(Message) /\ Len(more) = Len(left) + 1 /\ more[Len(left) + 1] = msgs[k + 1]
      /\ \A i \in 1..Len(left) : more[i] = left[i]
  BY <1>1
<1> HIDE DEF more
<1>3. ASSUME NEW i \in 1..Len(more)
      PROVE  /\ more[i].id = msgs[gone + i].id
             /\ more[i].len <= msgs[gone + i].len
             /\ i # 1 => more[i].len = msgs[gone + i].len
  <2>1. CASE i \in 1..Len(left)
    BY <1>2, <2>1 DEF EndOf
  <2>2. CASE i = Len(left) + 1
    <3>1. gone + i = k + 1 /\ more[i] = msgs[gone + i]
      BY <1>1, <1>2, <2>2
    <3>2. msgs[gone + i].len \in Nat
      BY <1>1, <3>1 DEF Message
    <3>3. QED
      BY <3>1, <3>2
  <2>3. QED
    BY <1>1, <1>2, <2>1, <2>2
<1>4. QED
  BY <1>1, <1>2, <1>3 DEF EndOf

(* What clip_msg has made of the first k messages, which come to sum: nothing *)
(* yet, or their end.                                                        *)
Clipped(acc, msgs, n, sum, k) ==
  /\ acc \in Clipping
  /\ ~acc.done => acc.msgs = <<>> /\ acc.n + sum = n
  /\ acc.done => /\ \E gone \in 0..k - 1 : EndOf(acc.msgs, msgs, gone, k)
                 /\ Total(Lengths(acc.msgs)) + n = sum

LEMMA TotalType ==
  ASSUME NEW ms \in Seq(Message)
  PROVE  Total(Lengths(ms)) \in Nat
<1>1. Lengths(ms) \in Seq(Nat)
  BY MessageLengths DEF Lengths
<1>2. QED
  BY <1>1, TotalIsNatural

LEMMA NothingTotal == Lengths(<<>>) = <<>> /\ Total(Lengths(<<>>)) = 0
<1>1. Lengths(<<>>) = <<>>
  BY DEF Lengths
<1>2. QED
  BY <1>1, TotalEmpty

LEMMA ClippedStep ==
  ASSUME NEW msgs \in Seq(Message), NEW n \in Nat, NEW k \in Nat, k + 1 <= Len(msgs),
         NEW sum \in Nat, NEW acc, Clipped(acc, msgs, n, sum, k),
         NEW m, m = msgs[k + 1]
  PROVE  Clipped(ClipStep(acc, m), msgs, n, sum + m.len, k + 1)
<1>1. m \in Message
  OBVIOUS
<1>2. PICK id \in Nat, len \in Nat : m = [id |-> id, len |-> len]
  BY <1>1 DEF Message
<1>3. PICK ms \in Seq(Message), left \in Nat, done \in BOOLEAN :
        acc = [msgs |-> ms, n |-> left, done |-> done]
  BY DEF Clipped, Clipping
<1>4. ClipStep(acc, m) \in Clipping
  BY <1>1, ClipStepType DEF Clipped
<1>5. CASE done
  <2>1. ClipStep(acc, m) = [msgs |-> Append(ms, m), n |-> left, done |-> TRUE]
    BY <1>3, <1>5 DEF ClipStep
  <2>2. /\ \E gone \in 0..k - 1 : EndOf(ms, msgs, gone, k)
        /\ Total(Lengths(ms)) + n = sum
    BY <1>3, <1>5 DEF Clipped
  <2>3. PICK gone \in 0..k - 1 : EndOf(ms, msgs, gone, k)
    BY <2>2
  <2>4. EndOf(Append(ms, m), msgs, gone, k + 1)
    <3>1. gone # k
      OBVIOUS
    <3>2. QED
      BY <2>3, <3>1, EndGrows
  <2>5. Total(Lengths(Append(ms, m))) = Total(Lengths(ms)) + m.len
    BY <1>1, LengthsAppend, TotalAppend
  <2>6. Total(Lengths(Append(ms, m))) + n = sum + m.len
    <3>1. Total(Lengths(ms)) \in Nat /\ m.len \in Nat
      BY <1>2, TotalType
    <3>2. QED
      BY <2>2, <2>5, <3>1
  <2>7. gone \in 0..(k + 1) - 1
    OBVIOUS
  <2>8. QED
    BY <1>4, <2>1, <2>4, <2>6, <2>7 DEF Clipped
<1>6. CASE ~done /\ len > left
  <2> DEFINE e == [id |-> id, len |-> len - left]
  <2>1. ms = <<>> /\ left + sum = n
    BY <1>3, <1>6 DEF Clipped
  <2>2. e \in Message /\ e.len = len - left /\ e.id = id
    BY <1>6 DEF Message
  <2>3. ClipStep(acc, m) = [msgs |-> Append(ms, e), n |-> left, done |-> TRUE]
    <3>1. [m EXCEPT !.len = @ - left] = e
      BY <1>2
    <3>2. ~acc.done /\ m.len > acc.n /\ acc.n = left /\ acc.msgs = ms
      BY <1>2, <1>3, <1>6
    <3>3. QED
      BY <3>1, <3>2 DEF ClipStep
  <2> HIDE DEF e
  <2>4. Append(ms, e) = <<e>>
    BY <2>1
  <2>5. EndOf(<<e>>, msgs, k, k + 1)
    <3>1. (k + 1) - k = 1 /\ k \in 0..k + 1 /\ msgs[k + 1].id = id /\ msgs[k + 1].len = len
      BY <1>2
    <3>2. <<e>> \in Seq(Message) /\ Len(<<e>>) = 1 /\ <<e>>[1] = e
      BY <2>2
    <3>3. e.len <= len
      BY <2>2
    <3>4. QED
      BY <2>2, <3>1, <3>2, <3>3 DEF EndOf
  <2>6. Total(Lengths(Append(ms, e))) = Total(Lengths(ms)) + e.len
    BY <2>2, LengthsAppend, TotalAppend
  <2>7. Total(Lengths(Append(ms, e))) + n = sum + m.len
    BY <1>2, <2>1, <2>2, <2>6, NothingTotal
  <2>8. k \in 0..(k + 1) - 1
    OBVIOUS
  <2>9. \E gone \in 0..(k + 1) - 1 : EndOf(Append(ms, e), msgs, gone, k + 1)
    BY <2>4, <2>5, <2>8
  <2>10. QED
    BY <1>4, <2>3, <2>7, <2>9 DEF Clipped
<1>7. CASE ~done /\ ~(len > left)
  <2>1. ClipStep(acc, m) = [msgs |-> ms, n |-> left - len, done |-> FALSE]
    <3>1. ~acc.done /\ ~(m.len > acc.n) /\ m.len = len
      BY <1>2, <1>3, <1>7
    <3>3. \A d \in BOOLEAN : [[msgs |-> ms, n |-> left, done |-> d] EXCEPT !.n = @ - len]
                              = [msgs |-> ms, n |-> left - len, done |-> d]
      OBVIOUS
    <3>2. acc = [msgs |-> ms, n |-> left, done |-> done]
      BY <1>3
    <3>5. ClipStep(acc, m) = [msgs |-> ms, n |-> left - len, done |-> done]
      BY <1>2, <3>1, <3>2, <3>3 DEF ClipStep
    <3>4. QED
      BY <1>7, <3>5
  <2>2. ms = <<>> /\ left + sum = n
    BY <1>3, <1>7 DEF Clipped
  <2>3. (left - len) + (sum + m.len) = n
    BY <1>2, <2>2
  <2>4. QED
    BY <1>4, <2>1, <2>2, <2>3 DEF Clipped
<1>8. QED
  BY <1>5, <1>6, <1>7

(* What clip_msg leaves of the messages is their end, whole but for the first *)
(* that remains, and no more than n shorter (gpt_wrapper.py:135-145).        *)
LEMMA ClipKeepsEnd ==
  ASSUME NEW msgs \in Seq(Message), NEW n \in Nat
  PROVE  /\ \E gone \in 0..Len(msgs) : EndOf(Clip(msgs, n), msgs, gone, Len(msgs))
         /\ Total(Lengths(Clip(msgs, n))) + n >= Total(Lengths(msgs))
<1> DEFINE k == Len(msgs)
           lens == Lengths(msgs)
<1>1. k \in Nat /\ lens \in Seq(Nat) /\ Len(lens) = k
      /\ \A i \in 1..k : lens[i] = msgs[i].len
  BY MessageLengths DEF Lengths
<1>2. PICK r : Clips(r, msgs, n) /\ Clip(msgs, n) = r[k].msgs
  BY ClipSteps
<1> HIDE DEF lens
<1>3. PICK s : Sums(s, lens) /\ Total(lens) = s[k]
  BY <1>1, TotalSums
<1>4. \A i \in 0..k : s[i] \in Nat
  BY <1>1, <1>3 DEF Sums
<1> DEFINE T == {i \in Nat : i <= k => Clipped(r[i], msgs, n, s[i], i)}
<1>5. 0 \in T
  <2>1. r[0] = Unclipped(n) /\ s[0] = 0
    BY <1>2, <1>3 DEF Clips, Sums
  <2>2. Clipped(Unclipped(n), msgs, n, 0, 0)
    BY DEF Clipped, Unclipped, Clipping
  <2>3. QED
    BY <2>1, <2>2
<1>6. ASSUME NEW i \in T PROVE i + 1 \in T
  <2> SUFFICES ASSUME i + 1 <= k PROVE Clipped(r[i + 1], msgs, n, s[i + 1], i + 1)
    OBVIOUS
  <2>1. i \in Nat /\ i + 1 \in 1..k /\ (i + 1) - 1 = i /\ i \in 0..k
    BY <1>1
  <2>2. Clipped(r[i], msgs, n, s[i], i)
    BY <2>1
  <2>3. r[i + 1] = ClipStep(r[i], msgs[i + 1])
    BY <1>2, <2>1 DEF Clips
  <2>4. s[i + 1] = s[i] + msgs[i + 1].len
    BY <1>1, <1>3, <2>1 DEF Sums
  <2>5. s[i] \in Nat
    BY <1>4, <2>1
  <2>6. QED
    BY <2>1, <2>2, <2>3, <2>4, <2>5, ClippedStep
<1>7. T = Nat
  <2> HIDE DEF T
  <2>1. QED
    BY <1>5, <1>6, AllNaturals DEF T
<1>8. Clipped(r[k], msgs, n, s[k], k) /\ s[k] \in Nat
  <2>1. k \in T /\ k \in 0..k
    BY <1>1, <1>7
  <2>2. QED
    BY <1>4, <2>1
<1>9. CASE r[k].done
  <2>1. PICK gone \in 0..k - 1 : EndOf(r[k].msgs, msgs, gone, k)
    BY <1>8, <1>9 DEF Clipped
  <2>2. gone \in 0..k
    BY <1>1
  <2>3. Total(Lengths(r[k].msgs)) + n >= Total(lens)
    BY <1>3, <1>8, <1>9 DEF Clipped
  <2>4. QED
    BY <1>2, <2>1, <2>2, <2>3 DEF lens
<1>10. CASE ~r[k].done
  <2>1. r[k].msgs = <<>> /\ r[k].n + s[k] = n /\ r[k].n \in Nat
    BY <1>8, <1>10 DEF Clipped, Clipping
  <2>2. EndOf(<<>>, msgs, k, k)
    BY <1>1 DEF EndOf
  <2>3. n >= s[k] /\ k \in 0..k
    BY <1>1, <1>8, <2>1
  <2>4. QED
    BY <1>2, <1>3, <2>1, <2>2, <2>3, NothingTotal DEF lens
<1>11. QED
  BY <1>9, <1>10

----------------------------------------------------------------------------
(* The messages of a call are the end of its prompt.                         *)
MessagesInv ==
  /\ prompt \in Seq(Nat) /\ prompt # <<>>
  /\ messages \in Seq(Message)
  /\ ClippedFromFront

LEMMA MessagesInit == Init => MessagesInv
<1> SUFFICES ASSUME Init PROVE MessagesInv
  OBVIOUS
<1>1. prompt \in Seq(Nat) /\ prompt # <<>>
  BY PromptAssumption DEF Init
<1>2. messages = [i \in 1..Len(prompt) |-> [id |-> i, len |-> prompt[i]]]
  BY <1>1 DEF Init
<1>3. messages \in Seq(Message) /\ Len(messages) = Len(prompt)
  BY <1>1, <1>2 DEF Message
<1>4. QED
  BY <1>1, <1>2, <1>3 DEF MessagesInv, ClippedFromFront

\* Clipping the end of the prompt leaves an end of the prompt.
LEMMA ClippedAgain ==
  ASSUME MessagesInv, NEW n \in Nat, messages' = Clip(messages, n), prompt' = prompt
  PROVE  MessagesInv'
<1> DEFINE gone == Len(prompt) - Len(messages)
<1>1. prompt \in Seq(Nat) /\ messages \in Seq(Message) /\ gone \in Nat
  BY DEF MessagesInv, ClippedFromFront
<1>2. PICK more \in 0..Len(messages) : EndOf(messages', messages, more, Len(messages))
  BY <1>1, ClipKeepsEnd
<1>3. messages' \in Seq(Message) /\ Len(messages') = Len(messages) - more
  BY <1>2 DEF EndOf
<1>4. Len(prompt) - Len(messages') = gone + more
  BY <1>1, <1>2, <1>3
<1>5. ASSUME NEW i \in 1..Len(messages')
      PROVE  /\ messages'[i].id = (gone + more) + i
             /\ IF i = 1 THEN messages'[i].len <= prompt[(gone + more) + i]
                ELSE messages'[i].len = prompt[(gone + more) + i]
  <2> DEFINE j == more + i
             before == messages[j].len
             given == prompt[gone + j]
  <2>1. j \in 1..Len(messages) /\ gone + j = (gone + more) + i /\ gone + j \in 1..Len(prompt)
        /\ (i # 1 => j # 1)
    BY <1>1, <1>2, <1>3
  <2>2. /\ messages'[i].id = messages[j].id
        /\ messages'[i].len <= before
        /\ i # 1 => messages'[i].len = before
    BY <1>2 DEF EndOf
  <2>3. /\ messages[j].id = gone + j
        /\ IF j = 1 THEN before <= given ELSE before = given
    <3>1. j \in DOMAIN messages
      BY <1>1, <2>1
    <3> HIDE DEF j
    <3>2. QED
      BY <3>1 DEF MessagesInv, ClippedFromFront
  <2>4. messages'[i].len \in Nat /\ before \in Nat /\ given \in Nat
    <3>1. given \in Nat
      BY <1>1, <2>1
    <3>2. messages'[i].len \in Nat
      BY <1>3, MessageLengths
    <3> HIDE DEF j, given
    <3>3. messages[j].len \in Nat
      BY <1>1, <2>1, MessageLengths
    <3>4. QED
      BY <3>1, <3>2, <3>3
  <2> HIDE DEF before, given, j, gone
  <2>5. messages'[i].id = gone + j /\ IF i = 1 THEN messages'[i].len <= given
                                      ELSE messages'[i].len = given
    BY <2>1, <2>2, <2>3, <2>4
  <2>6. QED
    BY <2>1, <2>5 DEF given
<1>6. DOMAIN messages' = 1..Len(messages') /\ gone + more >= 0
  BY <1>1, <1>2, <1>3
<1> HIDE DEF gone
<1>7. ClippedFromFront'
  BY <1>4, <1>5, <1>6 DEF ClippedFromFront
<1>8. QED
  BY <1>3, <1>7 DEF MessagesInv

\* What is clipped is not less than nothing.
LEMMA MuchIsNatural ==
  ASSUME MessagesInv, NEW l \in TokenLengths
  PROVE  /\ Total(Lengths(messages)) \in Nat
         /\ TooMuch(Requested(messages, l)) = Total(Lengths(messages)) \div l + 1
         /\ TooMuch(Requested(messages, l)) \in Nat
<1> DEFINE t == Total(Lengths(messages))
<1>1. t \in Nat
  BY TotalType DEF MessagesInv
<1>2. l \in Nat \ {0} /\ MaxToken \in Nat
  BY PromptAssumption
<1> HIDE DEF t
<1>3. t \div l \in Nat
  BY <1>1, <1>2
<1>4. (t \div l + MaxToken) - MaxToken + 1 = t \div l + 1
  BY <1>2, <1>3
<1>5. QED
  BY <1>1, <1>3, <1>4 DEF TooMuch, Requested, SecureClip, t

LEMMA MessagesStep ==
  ASSUME MessagesInv, [Next]_vars
  PROVE  MessagesInv'
<1>1. CASE TooLong
  <2>1. PICK l \in TokenLengths : messages' = Clip(messages, TooMuch(Requested(messages, l)))
    BY <1>1 DEF TooLong
  <2>2. prompt' = prompt
    BY <1>1 DEF TooLong
  <2>3. QED
    BY <2>1, <2>2, MuchIsNatural, ClippedAgain
<1>2. CASE ~TooLong
  <2>1. UNCHANGED <<prompt, messages>>
    BY <1>2 DEF Next, vars, Try, Answered, TooLongUnreadable, Rejected, Fails, RetryAnswered,
       RetryFails, Interrupted, GivesUp
  <2>2. QED
    BY <2>1 DEF MessagesInv, ClippedFromFront
<1>3. QED
  BY <1>1, <1>2

(* However often a request is too long, the messages are the end of the prompt, *)
(* in order, and only the first may have lost its beginning                  *)
(* (gpt_wrapper.py:69-80, 135-145).                                          *)
THEOREM PromptEndKept == Spec => []ClippedFromFront
<1>1. MessagesInv => ClippedFromFront
  BY DEF MessagesInv
<1>2. MessagesInv /\ [Next]_vars => MessagesInv'
  BY MessagesStep
<1>3. QED
  BY <1>1, <1>2, MessagesInit, PTL DEF Spec

----------------------------------------------------------------------------
(* The query.  QueryAsked needs to know how much is left after each try: a clip *)
(* takes half of what there is at most, and one; at most two clips precede a    *)
(* request, and leave no less than the query if it is a quarter of the prompt.  *)

\* A token stands for two characters or more.
TwoCharacters == \A l \in TokenLengths : l >= 2

\* No query is empty.
QueriesGiven == \A p \in Prompts : Last(p) > 0

\* The tries that may have clipped something: all but the one that is sent.
ClipsDone == IF pc = "try" THEN tries ELSE tries - 1

LeftInv ==
  LET left == Total(Lengths(messages))
  IN  /\ Last(prompt) > 0
      /\ pc \in {"sent", "retry"} => tries > 0
      /\ pc \in {"try", "sent", "retry"} =>
           /\ ClipsDone = 0 => left >= Total(prompt)
           /\ ClipsDone = 1 => 2 * left + 2 >= Total(prompt)
           /\ ClipsDone = 2 => 4 * left + 6 >= Total(prompt)

LEMMA LeftInit ==
  ASSUME QueriesGiven, Init
  PROVE  LeftInv
<1>1. prompt \in Seq(Nat) /\ prompt # <<>> /\ Last(prompt) > 0
  BY PromptAssumption DEF Init, QueriesGiven
<1>2. Lengths(messages) = prompt
  BY <1>1 DEF Init, Lengths
<1>3. Total(prompt) \in Nat
  BY <1>1, TotalIsNatural
<1>4. QED
  BY <1>1, <1>2, <1>3 DEF Init, LeftInv

LEMMA ClipsHalf ==
  ASSUME TwoCharacters, MessagesInv, NEW l \in TokenLengths,
         messages' = Clip(messages, TooMuch(Requested(messages, l)))
  PROVE  /\ Total(Lengths(messages)) \in Nat /\ Total(Lengths(messages')) \in Nat
         /\ 2 * Total(Lengths(messages')) + 2 >= Total(Lengths(messages))
<1> DEFINE t == Total(Lengths(messages))
           u == Total(Lengths(messages'))
           n == TooMuch(Requested(messages, l))
<1>1. t \in Nat /\ n = t \div l + 1 /\ n \in Nat
  BY MuchIsNatural
<1>2. u + n >= t
  BY <1>1, ClipKeepsEnd DEF MessagesInv
<1>3. u \in Nat
  <2>1. messages' \in Seq(Message)
    BY <1>1, ClipKeepsEnd DEF MessagesInv, EndOf
  <2>2. QED
    BY <2>1, TotalType
<1>4. l \in Nat /\ l >= 2
  BY PromptAssumption DEF TwoCharacters
<1> HIDE DEF t, u, n
<1>5. 2 * (t \div l) <= t
  <2> DEFINE d == t \div l
  <2>1. d \in Nat /\ l * d <= t
    BY <1>1, <1>4
  <2>2. 2 * d <= l * d
    BY <1>4, <2>1
  <2>3. QED
    BY <1>1, <1>4, <2>1, <2>2
<1>6. t \div l \in Nat
  BY <1>1, <1>4
<1>7. 2 * u + 2 >= t
  BY <1>1, <1>2, <1>3, <1>5, <1>6
<1>8. QED
  BY <1>1, <1>3, <1>7 DEF t, u

LEMMA LeftStep ==
  ASSUME TwoCharacters, TypeInv, MessagesInv, LeftInv, [Next]_vars
  PROVE  LeftInv'
<1>1. CASE TooLong
  <2>1. PICK l \in TokenLengths : messages' = Clip(messages, TooMuch(Requested(messages, l)))
    BY <1>1 DEF TooLong
  <2> DEFINE left == Total(Lengths(messages))
             more == Total(Lengths(messages'))
  <2>2. left \in Nat /\ more \in Nat /\ 2 * more + 2 >= left
    BY <2>1, ClipsHalf
  <2>3. pc = "sent" /\ pc' = "try" /\ tries' = tries /\ prompt' = prompt /\ tries \in 1..3
    BY <1>1 DEF TooLong, LeftInv, TypeInv, MaxTry
  <2>4. Total(prompt) \in Nat
    BY TotalIsNatural DEF MessagesInv
  <2>5. /\ tries = 1 => left >= Total(prompt)
        /\ tries = 2 => 2 * left + 2 >= Total(prompt)
    BY <2>3 DEF LeftInv, ClipsDone
  <2>6. /\ tries = 1 => 2 * more + 2 >= Total(prompt)
        /\ tries = 2 => 4 * more + 6 >= Total(prompt)
    BY <2>2, <2>4, <2>5
  <2>7. QED
    BY <2>3, <2>6 DEF LeftInv, ClipsDone
<1>2. CASE Try
  <2>1. pc = "try" /\ pc' = "sent" /\ tries' = tries + 1 /\ UNCHANGED <<prompt, messages>>
        /\ tries \in Nat
    BY <1>2 DEF Try, Counted, TypeInv
  <2>2. ClipsDone' = ClipsDone /\ tries' > 0
    BY <2>1 DEF ClipsDone
  <2>3. QED
    BY <2>1, <2>2 DEF LeftInv
<1>3. CASE Rejected \/ RetryAnswered
  <2>1. /\ pc \in {"sent", "retry"} /\ pc' = "try" /\ tries \in 1..3 /\ tries' = tries
        /\ UNCHANGED <<prompt, messages>>
    BY <1>3 DEF Rejected, RetryAnswered, TypeInv, MaxTry, LeftInv
  <2>2. ClipsDone' = ClipsDone + 1 /\ ClipsDone \in Nat
    BY <2>1 DEF ClipsDone
  <2>3. Total(Lengths(messages)) \in Nat /\ Total(prompt) \in Nat
    BY TotalType, TotalIsNatural DEF MessagesInv
  <2> DEFINE left == Total(Lengths(messages))
  <2>4. /\ ClipsDone = 0 => left >= Total(prompt)
        /\ ClipsDone = 1 => 2 * left + 2 >= Total(prompt)
    BY <2>1 DEF LeftInv
  <2>5. /\ ClipsDone = 0 => 2 * left + 2 >= Total(prompt)
        /\ ClipsDone = 1 => 4 * left + 6 >= Total(prompt)
    BY <2>3, <2>4
  <2>6. QED
    BY <2>1, <2>2, <2>5 DEF LeftInv
<1>4. CASE Fails
  <2>1. pc = "sent" /\ pc' = "retry" /\ tries' = tries /\ UNCHANGED <<prompt, messages>>
    BY <1>4 DEF Fails, AfterFailure
  <2>2. ClipsDone' = ClipsDone
    BY <2>1 DEF ClipsDone
  <2>3. QED
    BY <2>1, <2>2 DEF LeftInv
<1>5. CASE Answered \/ TooLongUnreadable \/ RetryFails \/ Interrupted \/ GivesUp
  <2>1. pc' \in Ended /\ prompt' = prompt
    BY <1>5 DEF Answered, TooLongUnreadable, RetryFails, Interrupted, GivesUp, Ended
  <2>2. QED
    BY <2>1 DEF LeftInv, Ended
<1>6. CASE UNCHANGED vars
  BY <1>6 DEF vars, LeftInv, ClipsDone
<1>7. QED
  BY <1>1, <1>2, <1>3, <1>4, <1>5, <1>6 DEF Next

\* What is left ends with the query, and only a single message may have been cut.
LEMMA QueryLeft ==
  ASSUME TypeInv, MessagesInv, LeftInv
  PROVE  QueryAsked
<1> DEFINE query == Last(prompt)
           left == Total(Lengths(messages))
<1> SUFFICES ASSUME pc \in {"sent", "retry"}, 4 * query + 6 <= Total(prompt)
             PROVE  messages # <<>> /\ Last(messages) = [id |-> Len(prompt), len |-> query]
  BY DEF QueryAsked, SecureClip
<1>1. prompt \in Seq(Nat) /\ prompt # <<>> /\ messages \in Seq(Message)
  BY DEF MessagesInv
<1>2. Len(prompt) \in Nat \ {0} /\ query = prompt[Len(prompt)] /\ query \in Nat /\ query > 0
  BY <1>1 DEF Last, LeftInv
<1>3. left \in Nat /\ Total(prompt) \in Nat
  BY <1>1, TotalType, TotalIsNatural
<1>4. left >= query
  <2>1. ClipsDone \in 0..2
    BY DEF ClipsDone, LeftInv, TypeInv, MaxTry
  <2>2. \/ left >= Total(prompt) \/ 2 * left + 2 >= Total(prompt) \/ 4 * left + 6 >= Total(prompt)
    BY <2>1 DEF LeftInv
  <2> HIDE DEF query, left
  <2>3. QED
    BY <1>2, <1>3, <2>2
<1>5. messages # <<>>
  BY <1>2, <1>3, <1>4, NothingTotal
<1>6. /\ Last(messages) = messages[Len(messages)]
      /\ Len(messages) \in Nat \ {0} /\ messages[Len(messages)] \in Message
  BY <1>1, <1>5 DEF Last
<1>7. /\ messages[Len(messages)].id = Len(prompt)
      /\ messages[Len(messages)].len <= query
      /\ Len(messages) # 1 => messages[Len(messages)].len = query
  <2> DEFINE n == Len(messages)
             last == messages[n]
             gone == Len(prompt) - n
  <2>1. n \in DOMAIN messages /\ gone + n = Len(prompt)
    BY <1>1, <1>2, <1>6
  <2>2. /\ last.id = gone + n
        /\ IF n = 1 THEN last.len <= prompt[gone + n] ELSE last.len = prompt[gone + n]
    BY <2>1 DEF MessagesInv, ClippedFromFront
  <2>3. prompt[gone + n] = query
    BY <1>2, <2>1
  <2>4. n \in Nat /\ query \in Nat
    BY <1>2, <1>6
  <2> HIDE DEF n, last, gone, query
  <2>5. last.id = Len(prompt) /\ last.len <= query /\ (n # 1 => last.len = query)
    BY <2>1, <2>2, <2>3, <2>4
  <2>6. QED
    BY <2>5 DEF n, last
<1>8. Len(messages) = 1 => messages[1].len = left
  <2> SUFFICES ASSUME Len(messages) = 1 PROVE messages[1].len = left
    OBVIOUS
  <2> DEFINE m == messages[1]
  <2>1. messages = Append(<<>>, messages[1]) /\ messages[1] \in Message
    <3>1. DOMAIN messages = 1..1 /\ m \in Message
      <4>1. DOMAIN messages = 1..1
        BY <1>1
      <4>2. m \in Message
        BY <1>6
      <4>3. QED
        BY <4>1, <4>2
    <3>2. <<m>> \in Seq(Message) /\ DOMAIN <<m>> = 1..1 /\ <<m>>[1] = m
      BY <3>1
    <3>3. messages = <<m>>
      <4>1. \A i \in 1..1 : messages[i] = <<m>>[i]
        BY <3>2
      <4>2. messages = [i \in 1..1 |-> messages[i]] /\ <<m>> = [i \in 1..1 |-> <<m>>[i]]
        BY <1>1, <3>1, <3>2
      <4>3. QED
        BY <4>1, <4>2
    <3>4. Append(<<>>, m) = <<m>>
      BY <3>1
    <3>5. QED
      BY <3>1, <3>3, <3>4
  <2>2. Lengths(messages) = Append(<<>>, messages[1].len) /\ messages[1].len \in Nat
    <3>1. <<>> \in Seq(Message)
      OBVIOUS
    <3>2. QED
      BY <2>1, <3>1, LengthsAppend, NothingTotal
  <2>3. Total(Append(<<>>, messages[1].len)) = 0 + messages[1].len
    <3>1. <<>> \in Seq(Nat)
      OBVIOUS
    <3>2. QED
      BY <2>2, <3>1, TotalAppend, TotalEmpty
  <2>4. QED
    BY <2>2, <2>3
<1>9. messages[Len(messages)].len = query
  <2>1. messages[Len(messages)].len \in Nat
    BY <1>1, <1>6, MessageLengths
  <2> HIDE DEF query, left
  <2>2. QED
    BY <1>2, <1>3, <1>4, <1>7, <1>8, <2>1
<1>10. messages[Len(messages)] = [id |-> Len(prompt), len |-> query]
  BY <1>6, <1>7, <1>9 DEF Message
<1>11. QED
  BY <1>5, <1>6, <1>10

(* The query is asked in full in every request of the three tries, if it is no   *)
(* more than about a quarter of the prompt (gpt_wrapper.py:57-94, 135-145).      *)
THEOREM QuerySurvives ==
  ASSUME TwoCharacters, QueriesGiven
  PROVE  Spec => []QueryAsked
<1>1. Init => TypeInv /\ MessagesInv /\ LeftInv
  BY TypeInit, MessagesInit, LeftInit
<1>2. TypeInv /\ MessagesInv /\ LeftInv /\ [Next]_vars => (TypeInv /\ MessagesInv /\ LeftInv)'
  BY TypeStep, MessagesStep, LeftStep
<1>3. TypeInv /\ MessagesInv /\ LeftInv => QueryAsked
  BY QueryLeft
<1>4. QED
  BY <1>1, <1>2, <1>3, PTL DEF Spec
=============================================================================
