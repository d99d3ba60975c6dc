\* Two replicas of one or two tenants start together on an empty database.
CONSTANTS
  Replicas = {r1, r2}
  Posts = {p1, p2}
  Tenants = {"default", "acme"}
  PostNames = {"acme"}
  Required = {"DATABASE_URL", "REDIS_URL", "JWT_PRIVATE_KEY_PATH", "JWT_PUBLIC_KEY_PATH", "SEED_ADMIN_PASSWORD"}
  Durations = {"15m", "168h"}
  Environments <- MCEnvironments
  NVersions = 2
  MaxEvents = 2
SPECIFICATION FairSpec
CHECK_DEADLOCK FALSE
INVARIANTS
  TypeOK
  SchemaRecorded
  MigratedBeforeUse
  ServingHasAdmin
  TenantAnswers
PROPERTIES
  OwnPasswordKept
  EventuallyServes
