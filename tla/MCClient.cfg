\* A page, with every change its workspace saves, in a session of two tenants.
SPECIFICATION FairSpec
CONSTANTS
  Tenants = {t1, t2}
  NoTenant = NoTenant
  Nothing = Nothing
INVARIANTS
  ShowsOwnSelection
  AnonymousMeansClosed
PROPERTIES
  
  EverySaveEnds
