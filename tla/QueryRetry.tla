---------------------------- MODULE QueryRetry ----------------------------
(***************************************************************************)
(* query_with_history_new of generator/gpt_wrapper.py: a query is added to  *)
(* the messages and sent, in up to three tries.  A request that is too long *)
(* is clipped and tried again, a failed one is sent once more from inside   *)
(* the handler of the exception.  What the service says is open.  Of a      *)
(* message there is its place in the prompt and its length, in multiples of *)
(* SECURE_CLIP (50 characters, or 50 tokens).  The message of the answer,   *)
(* appended on the return, is left out: nothing is sent after it.           *)
(***************************************************************************)
EXTENDS Integers, Sequences, SequencesExt, FiniteSetsExt

CONSTANTS
  Prompts,      \* lengths of the messages, the query's the last
  MaxToken,     \* MAX_TOKEN[model]
  TokenLengths  \* multiples of one character that a token may stand for

ASSUME PromptAssumption ==
  /\ \A p \in Prompts : p \in Seq(Nat) /\ p # <<>>
  /\ MaxToken \in Nat /\ TokenLengths \subseteq Nat \ {0}

VARIABLES
  prompt,       \* the lengths the call began with
  messages,     \* messages: [id, len]
  tries,        \* try_cnt
  pc,           \* where the call is
  response,     \* response: which of the sends gave it, 0 for ''
  sends         \* history: what became of each request

vars == <<prompt, messages, tries, pc, response, sends>>

MaxTry     == 3
SecureClip == 1

Ended == {"returned", "raised", "interrupted"}

\* messages.append(query) is done, no request sent.
Init ==
  /\ prompt \in Prompts
  /\ messages = [i \in DOMAIN prompt |-> [id |-> i, len |-> prompt[i]]]
  /\ tries = 0 /\ pc = "try" /\ response = 0 /\ sends = <<>>

Counted(n) == n + 1

TriesLeft == tries < MaxTry

Try ==
  /\ pc = "try" /\ TriesLeft
  /\ tries' = Counted(tries)
  /\ pc' = "sent"
  /\ UNCHANGED <<prompt, messages, response, sends>>

Sent(outcome) == sends' = Append(sends, outcome)

Answered ==
  /\ pc = "sent" /\ Sent("answer")
  /\ response' = Len(sends')
  /\ pc' = "returned"
  /\ UNCHANGED <<prompt, messages, tries>>

----------------------------------------------------------------------------
\* trims the first message that is longer and looks at the next
MutClip(msgs, n) ==
  LET Step(acc, m) ==
        IF m.len > acc.n THEN [acc EXCEPT !.msgs = Append(@, [m EXCEPT !.len = @ - acc.n])]
        ELSE [acc EXCEPT !.n = @ - m.len]
  IN  FoldLeft(Step, [msgs |-> <<>>, n |-> n], msgs).msgs

\* clip_msg: messages are removed from the first on, the first that is longer than what
\* is left to remove loses its beginning and ends the loop.
Clip(msgs, n) ==
  LET Step(acc, m) ==
        IF acc.done THEN [acc EXCEPT !.msgs = Append(@, m)]
        ELSE IF m.len > acc.n
        THEN [msgs |-> Append(acc.msgs, [m EXCEPT !.len = @ - acc.n]), n |-> acc.n, done |-> TRUE]
        ELSE [acc EXCEPT !.n = @ - m.len]
  IN  FoldLeft(Step, [msgs |-> <<>>, n |-> n, done |-> FALSE], msgs).msgs

Total(lens) == FoldLeft(LAMBDA a, l : a + l, 0, lens)

Lengths(msgs) == [i \in DOMAIN msgs |-> msgs[i].len]

\* What the service counts: the tokens of the prompt and those kept free for the answer.
Requested(msgs, l) == Total(Lengths(msgs)) \div l + MaxToken

\* takes the answer's share off the prompt as well
MutTooMuch(req) == req + SecureClip

TooMuch(req) == req - MaxToken + SecureClip

TooLong ==
  /\ pc = "sent" /\ Sent("tooLong")
  /\ \E l \in TokenLengths : messages' = Clip(messages, TooMuch(Requested(messages, l)))
  /\ pc' = "try"
  /\ UNCHANGED <<prompt, tries, response>>

\* The text of the error has no number in the place where it is looked for.
TooLongUnreadable ==
  /\ pc = "sent" /\ Sent("unreadable")
  /\ pc' = "raised"
  /\ UNCHANGED <<prompt, messages, tries, response>>

\* Any other BadRequestError is printed, and the next try follows at once.
Rejected ==
  /\ pc = "sent" /\ Sent("rejected")
  /\ pc' = "try"
  /\ UNCHANGED <<prompt, messages, tries, response>>

\* leaves the second request to the next try
MutFailureTries == "try"

AfterFailure == "retry"

\* Anything else: the handler sleeps and then sends again.
Fails ==
  /\ pc = "sent" /\ Sent("failure")
  /\ pc' = AfterFailure
  /\ UNCHANGED <<prompt, messages, tries, response>>

Got == Len(sends')

\* There is no break after the second send: the loop goes on with the next try.
RetryAnswered ==
  /\ pc = "retry" /\ Sent("secondAnswer")
  /\ response' = Got
  /\ pc' = "try"
  /\ UNCHANGED <<prompt, messages, tries>>

\* Nothing catches an exception of the handler, whatever its kind.
RetryFails ==
  /\ pc = "retry" /\ Sent("secondFailure")
  /\ pc' = "raised"
  /\ UNCHANGED <<prompt, messages, tries, response>>

\* Ctrl-C is passed on, in whichever request or sleep it falls.
Interrupted ==
  /\ pc \notin Ended
  /\ pc' = "interrupted"
  /\ UNCHANGED <<prompt, messages, tries, response, sends>>

\* The tries are used up: whatever response holds is the result.
GivesUp ==
  /\ pc = "try" /\ ~TriesLeft
  /\ pc' = "returned"
  /\ UNCHANGED <<prompt, messages, tries, response, sends>>

Next ==
  \/ Try \/ Answered \/ TooLong \/ TooLongUnreadable \/ Rejected \/ Fails
  \/ RetryAnswered \/ RetryFails \/ Interrupted \/ GivesUp

Spec == Init /\ [][Next]_vars

----------------------------------------------------------------------------
(* Properties.                                                              *)

AnswersAt == {i \in DOMAIN sends : sends[i] \in {"answer", "secondAnswer"}}

\* An answer that was paid for is not lost: though the loop asks again after the answer
\* of a second send, a call that returns gives the newest answer there was.
AnswersKept == pc = "returned" /\ AnswersAt # {} => response = Max(AnswersAt)

\* The empty response, which the generator saves as a seed, comes back only if the
\* service has turned down all three tries; no failure of the network ends that way.
EmptyExplained ==
  pc = "returned" /\ response = 0 =>
    Len(sends) = MaxTry /\ \A i \in DOMAIN sends : sends[i] \in {"tooLong", "rejected"}

\* One failed request never reaches the caller: an exception means two failed in a row,
\* or an error message that cannot be read.
RaiseExplained ==
  pc = "raised" =>
    \/ Last(sends) = "unreadable"
    \/ /\ Len(sends) >= 2 /\ Last(sends) = "secondFailure"
       /\ sends[Len(sends) - 1] = "failure"

\* What the caller is told follows from what the service said: the newest answer that was
\* paid for, nothing only after three refusals, an exception only after two failures in a
\* row or a message that cannot be read.
OutcomeExplained == AnswersKept /\ EmptyExplained /\ RaiseExplained

\* Clipping takes from the front: what is left of the prompt, after any number of
\* rejections, is its end, whole but for the first message that remains.
ClippedFromFront ==
  LET gone == Len(prompt) - Len(messages)
  IN  /\ gone >= 0
      /\ \A i \in DOMAIN messages :
           /\ messages[i].id = gone + i
           /\ IF i = 1 THEN messages[i].len <= prompt[gone + i]
              ELSE messages[i].len = prompt[gone + i]

\* The query is asked in full in every request, as long as a token is two characters or
\* more and the query is a quarter of the prompt at most: clip_msg takes one character
\* for each token of the prompt.
QueryAsked ==
  LET query == Last(prompt)
  IN  pc \in {"sent", "retry"} /\ 4 * query + 6 * SecureClip <= Total(prompt) =>
        messages # <<>> /\ Last(messages) = [id |-> Len(prompt), len |-> query]
=============================================================================
