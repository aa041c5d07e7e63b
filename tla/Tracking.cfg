SPECIFICATION TrackSpec
CONSTANTS
  k1 = k1  k2 = k2  r1 = r1  r2 = r2
  Tracked <- TwoTracked
  Replicas <- TwoReplicas
  EventKinds <- Opens
  RunModes <- ApplyOrPurge
  Retention = 1
  Year = 2
  MinTracked = 2
  Brake = 2
  Unheld = Unheld
  MaxTick = 2
INVARIANTS
  DroppedLeavesNothing
PROPERTIES
  TotalsAreWhole
SYMMETRY Alike
CHECK_DEADLOCK FALSE
