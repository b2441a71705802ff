SPECIFICATION Spec
CONSTANTS
  RegIndex <- MCRegIndex
  ValueOf <- MCValueOf
  Operators = {"!=", "<="}
  AndTokens = {"AND", "&&"}
  OrTokens = {"or", "||"}
  OtherTokens = {"word"}
  BitAnd <- MCBitAnd
  Samples <- MCSamples
  MaxTokens = 11
  Completions <- MCCompletions
INVARIANTS
  TypeOK
  AcceptsFilters
  MatchesItsMeaning
  SpacesOnlyBetweenWords
CHECK_DEADLOCK FALSE
