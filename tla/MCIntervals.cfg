\* Two callers that measure and one that asks, up to ninety seconds of warmup.
SPECIFICATION Spec
CONSTANTS
  Configs <- MCConfigs
  Measurers = {m1, m2}
  Callers = {c1}
  Step = 8990
  MaxElapsed = 90000
INVARIANTS
  BandsKept
  DutyKept
PROPERTIES
  ReportsSettle
  IdleOutlastsRescan
