SPECIFICATION FairSpec
CONSTANTS
  a1 = a1
  a2 = a2
  k1 = k1
  Key = {k1}
  Call = {a1, a2}
  KeyOf <- MCKeyOf
  Approver = {p1, p2}
  Rejecter = {x1}
  About <- MCAbout
  NoCall = NoCall
  MaxFaults = 2
INVARIANTS
  TrailTellsTheStory
PROPERTIES
  NothingStartsLate
  ApprovedIsExecuted
