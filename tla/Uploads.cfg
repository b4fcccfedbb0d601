SPECIFICATION Spec
CONSTANTS
  a1 = a1 a2 = a2 a3 = a3 b1 = b1 z1 = z1 x1 = x1
  r1 = r1 r2 = r2 r3 = r3
  a = a b = b z = z x = x
  Upload <- MCUpload
  Request = {r1, r2, r3}
  Batch <- MCBatch
  Content = {a, b, z, x}
  ContentOf <- MCContentOf
  Kind <- MCKind
  MaxFaults = 2
INVARIANTS
  StoredFilesAreKept OneDocumentPerContent RacesSettle AnswersAreTrue
CHECK_DEADLOCK FALSE
