SPECIFICATION Spec
CONSTANTS
  Probes = {p1, p2}
  Verifiers = {v}
  ApiRequests = {a}
  Nobody = Nobody
INVARIANTS
  ModelLockIsOwned
  SessionRunsAlone
PROPERTIES
  ModelIsNotLost
