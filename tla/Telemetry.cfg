CONSTANTS
  Batch = {b1, x}
  NoBatch = NoBatch
  Weight <- MCWeight
  MaxBytes = 1
  MaxName = 2
  Sender = {"metrics", "logs"}
  Main = "metrics"
  RetryAttempts = 2
  DiskFaults = FALSE
  PowerLoss = FALSE
  Kills = TRUE
  Request = {r1, r2}
  Anonymous = {}
  Invalid = {x}
  Logs = {}
  Slots = 2
  QueueCap = 1
  MaxCopies = 1
  NoRequest = NoRequest
SPECIFICATION Spec
SYMMETRY Symmetry
INVARIANTS WireOK StoredOnce
PROPERTY ForgottenMeansStored
