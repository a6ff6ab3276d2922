CONSTANTS
  Request = {r1, r2, r3}
  Batch = {l}
  Anonymous = {}
  Invalid = {}
  Logs = {l}
  Slots = 2
  QueueCap = 1
  MaxCopies = 1
  NoBatch = NoBatch
SPECIFICATION FairHubSpec
PROPERTY RequestEnds
