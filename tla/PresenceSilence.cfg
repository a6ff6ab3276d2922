CONSTANTS
  AgentID = {a1}
  Request = {r1, r2}
  StoreFaults = FALSE
  NoAgent = NoAgent
SPECIFICATION FairSpec
PROPERTY SilenceIsAnnounced
