SPECIFICATION Spec
CONSTANTS
  MIN_MNP = 2
  MIN_MNB = 1
  WINDOW = 2
  EXPIRATION = 3
  REMOVAL = 4
  MaxBroadcasts = 2
INVARIANTS
  ServedPingFresh
  ListSettles
