CONSTANTS
  Uploads = {u1}
  NoUpload = NoUpload
  Workers = {w1}
  MaxLen = 2
  MaxParts = 1
  MaxSize = 1
  UsesLocker = TRUE
SPECIFICATION Spec
INVARIANTS
  MaxSizeKept
