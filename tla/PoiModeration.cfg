CONSTANTS
  o = o
  a = a
  b = b
  c = c
  Importer = Importer
  Users <- MCUsers
  Admins <- MCAdmins
  Seeds <- MCSeeds
  Histories <- MCHistories
  Pois = {p}
  Requests = {r1, r2}
  MaxRejections = 2
SPECIFICATION Spec
SYMMETRY Symmetry
INVARIANTS
  TypeOK
  CountNeverOverstates
  BanFollowsReputation
  NoticeMeansVerified
  SessionsAgree
PROPERTIES
  BanIsFinal
  KeepsPromise
