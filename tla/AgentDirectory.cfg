CONSTANTS
  b1 = b1
  b2 = b2
  b3 = b3
  Batch = {b1, b2, b3}
  Weight <- MCWeight
  MaxBytes = 2
  MaxName = 3
  Sender = {"metrics", "logs"}
  Main = "metrics"
  RetryAttempts = 2
  DiskFaults = FALSE
  PowerLoss = TRUE
  Kills = TRUE
  NoBatch = NoBatch
SPECIFICATION AgentSpec
INVARIANT DirectoryWithinLimit
