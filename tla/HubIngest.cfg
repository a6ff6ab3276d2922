CONSTANTS
  Request = {r1, r2, r3}
  Batch = {l, a, x}
  Anonymous = {a}
  Invalid = {x}
  Logs = {l, a}
  Slots = 2
  QueueCap = 1
  MaxCopies = 1
  NoBatch = NoBatch
SPECIFICATION HubSpec
SYMMETRY Symmetry
INVARIANTS TypeOK BatchIsAtomic AckMeansStored FollowsAtMostOnce
PROPERTY IngestIsBatchStore
