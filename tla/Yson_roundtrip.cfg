SPECIFICATION YsonSpec
CONSTANTS
  YsonSources <- MCEmptyMap
  YsonTexts <- NoTexts
  MaxDepth = 3
CHECK_DEADLOCK FALSE
INVARIANT ValuesRoundTrip
