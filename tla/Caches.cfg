\* The node may be upgraded; calls take up to two ticks, longer than an info is cached.
SPECIFICATION Spec
CONSTANTS
  Req = {r1, r2}
  Ttl <- MCTtl
  CallTimeout = 2
  Versions <- MCVersions
  SERVICE_PROVIDERS_MIN_NODE <- MCMinNode
  Downgrades = FALSE
  Nil = Nil
SYMMETRY MCSymmetry
INVARIANTS
  StalenessBound
  NeverSentToOldNode
