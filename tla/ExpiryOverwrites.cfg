CONSTANTS
  w = w
  a = a
  b = b
  Nobody = Nobody
  Users <- MCUsers
  Admins <- MCAdmins
  Histories <- MCHistories
  ReportIds = {i}
  Requests = {r1, r2}
  ResolveDelay = 1
  ReportTTL = 2
  MaxNow = 4
  MaxFailures = 1
SPECIFICATION Spec
SYMMETRY Symmetry
PROPERTIES
  OnlyActiveExpire
