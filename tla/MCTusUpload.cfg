CONSTANTS
  Uploads = {u1, u2}
  NoUpload = NoUpload
  Workers = {w1, w2}
  MaxLen = 3
  MaxParts = 2
  MaxSize = 2
  UsesLocker = TRUE
SYMMETRY Symmetry
SPECIFICATION Spec
INVARIANTS
  LocksOwned
  StoredInOrder
  WithinSize
  CompletedOnce
  FinalIsWhole
  FilesTogether
PROPERTIES
  ImplementsUploadLog
