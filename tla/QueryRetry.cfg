\* Tokens of two to four characters, an answer's share of 2560 tokens.
CONSTANTS
  Prompts <- MCPrompts
  MaxToken = 51
  TokenLengths = {2, 3, 4}
SPECIFICATION Spec
INVARIANTS OutcomeExplained ClippedFromFront QueryAsked
\* A call ends.
CHECK_DEADLOCK FALSE
