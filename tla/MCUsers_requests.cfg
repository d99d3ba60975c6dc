\* Any two requests about two users and those they create, one error; page 7 overflows.
CONSTANTS
  Reqs = {r1, r2}
  Ids = {1, 2, 3}
  Callers = {1, 2}
  Names = {"admin", "bob", "eve"}
  Emails = {e1}
  Passwords <- MCPasswords
  Roles = {"admin", "viewer", "editor"}
  RoleLists <- MCRoleLists
  Pages = {0, 2, 7}
  InitialRows <- MCInitialRows
  Admin = "admin"
  AdminName = "admin"
  DefaultPer = 3
  MaxPer = 3
  Half = 8
  None = None
  MaxAborts = 1
SPECIFICATION FairSpec
CHECK_DEADLOCK FALSE
INVARIANTS
  TypeOK
  LiveNamesUnique
  AcceptedIsStored
  RefusedRequestsWriteNothing
  RolelessOnlyAfterFailure
  RolesFromCommits
  AdminRoleTakenByAnother
  ListCountsAgree
PROPERTIES
  EveryRequestAnswered
  DeletedRowsFrozen
