SPECIFICATION Spec
CONSTANTS
  r1 = r1 r2 = r2 r3 = r3
  gemini = gemini openai = openai
  Request = {r1, r2, r3}
  Provider = {gemini, openai}
  Rank <- MCRank
  Wanted <- MCWanted
  MaxRetries = 1
  Threshold = 2
INVARIANTS
  ReadyIsBelowThreshold
PROPERTIES
  RecoveryIsEarned NeverGoesBack EveryRunEnds
CHECK_DEADLOCK FALSE
