SPECIFICATION FairSpec
CONSTANTS
  r1 = r1
  r2 = r2
  c1 = c1
  c2 = c2
  k1 = k1
  k2 = k2
  k3 = k3
  t1 = t1
  t2 = t2
  Nobody = Nobody
  NoTenant = NoTenant
  Requests = {r1, r2}
  Connections = {c1, c2}
  Keys = {k1, k2, k3}
  Tenants = {t1, t2}
  TenantOf <- MCTenantOf
  Owners = {k1, k2}
  Deadline = 1
  Revocable = {k1}
  Asked <- MCAsked
INVARIANTS
  TypeOK
  TenantsAreIsolated
  EveryWriteIsAudited
PROPERTIES
  RevocationIsPrompt
  EveryRequestIsAnswered
