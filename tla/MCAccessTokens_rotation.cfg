\* Two replicas and a verifier; one replacement of the keys.
CONSTANTS
  Replicas = {r1, r2}
  Verifiers = {v1}
  Users = {u1}
  Requests = {p1}
  TTLs <- MCTTLs
  Leeway = 1
  CacheAge = 2
  Handling = 1
  MaxKeys = 2
  MaxTokens = 1
SPECIFICATION FairSpec
INVARIANTS
  TypeOK
  StaleAuthorityBounded
  UnexpiredAccepted
PROPERTIES
  RotationSettles
