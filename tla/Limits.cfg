SPECIFICATION Spec
CONSTANTS
  c1 = c1
  c2 = c2
  s1 = s1
  s2 = s2
  Client = {c1, c2}
  Server = {s1, s2}
  ServerOf <- MCServerOf
  Expiring = {c1}
  Metered = {c2}
  Run = {t1}
  MaxTraffic = 1
  MaxKills = 1
INVARIANTS TypeOK 
PROPERTIES DisablesOnlyDue EventuallyEnforced QuotaEnforced
