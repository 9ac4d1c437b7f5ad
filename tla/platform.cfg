SPECIFICATION Spec
CONSTANTS
  Agents = {a1}  Slugs = {"s1", "s2"}  Objects = {o1, o2}  Archives <- MCArchives
  BuildKeys = {k1}  Callers = {r1, r2}  MaxRevision = 2  None = None
  Emails = {e1}  OrgSlugs = {g1, g2}  ProjectSlugs = {p1}  Sessions = {o1, o2}
  IdemKeys = {i1}  Environments = {"live", "test"}  Clients = {r1, r2}
  IdleTicks = 2  AbsoluteTicks = 2  LockTicks = 2  MaxFailures = 2  MaxCounted = 3
  Horizon = 3  MaxRoleVersion = 2  Null = Null
  Admins = {r1, r2}  BoundRuns = {b1}  WorkerKeys = {w1}
  MaxRevisions = 2  MaxPolicyVersion = 4  MaxCredential = 2
INVARIANTS BuiltFromInspectedSource KeyIssuedOnce
PROPERTIES AvailableSourceIsFixed LogoutIsFinal EnvelopesAreEligible
SYMMETRY Alike
CHECK_DEADLOCK FALSE
