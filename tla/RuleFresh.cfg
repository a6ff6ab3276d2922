CONSTANTS
  Workload = {w}
  Rule = {cpu}
  Duration = 2
  Window = 4
SPECIFICATION Spec
PROPERTY FiresOnFreshSamples
