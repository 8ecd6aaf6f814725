CONSTANTS
  Uploads = {u1}
  NoUpload = NoUpload
  Workers = {w1, w2}
  MaxLen = 2
  MaxParts = 1
  MaxSize = 0
  UsesLocker = FALSE
SPECIFICATION Spec
INVARIANTS
  StoredInOrder
