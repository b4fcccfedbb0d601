SPECIFICATION Spec
CONSTANTS
  Poller = {p1, p2}
  Rules <- MCRules
  Facts <- MCFacts
  NoPoller = NoPoller
  Stored = TRUE
  MaxTime = 0
  MaxDrifts = 0
  MaxFaults = 1
INVARIANT RecoveriesAreMeasured
