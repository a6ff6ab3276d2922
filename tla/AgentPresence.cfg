CONSTANTS
  AgentID = {a1}
  Request = {r1, r2, r3}
  StoreFaults = TRUE
  NoAgent = NoAgent
SPECIFICATION FairSpec
INVARIANTS TypeOK OneReconnectPerDisconnect
PROPERTIES DeadIsAnnounced LiveIsCleared
