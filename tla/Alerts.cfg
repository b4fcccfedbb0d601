SPECIFICATION FairSpec
CONSTANTS
  Poller = {p1, p2}
  Rules <- MCRules
  Facts <- MCFacts
  NoPoller = NoPoller
  Stored = TRUE
  MaxTime = 1
  MaxDrifts = 1
  MaxFaults = 1
INVARIANTS
  EpisodesAreWellFormed
  RepetitionsAreSpaced
PROPERTIES
  RisesAreAnnounced
  AlertsCatchUp
