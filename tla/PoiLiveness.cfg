CONSTANTS
  o = o
  a = a
  b = b
  c = c
  Importer = Importer
  Users <- LiveUsers
  Admins <- MCAdmins
  Seeds <- MCSeeds
  Histories <- MCHistories
  Pois = {p}
  Requests = {r1, r2}
  MaxRejections = 2
SPECIFICATION FairSpec
PROPERTIES
  SessionsEnd
