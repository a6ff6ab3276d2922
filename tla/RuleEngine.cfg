CONSTANTS
  Workload = {w}
  Rule = {cpu, mem}
  Duration = 2
  Window = 4
SPECIFICATION FairSpec
INVARIANTS TypeOK ActiveIsTold
PROPERTIES FiresAfterDuration AlertFollowsLoad
