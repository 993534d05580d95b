CONSTANTS
  w = w
  a = a
  b = b
  Nobody = Nobody
  Users <- LiveUsers
  Admins <- MCAdmins
  Histories <- MCHistories
  ReportIds = {i}
  Requests = {r1, r2}
  ResolveDelay = 1
  ReportTTL = 2
  MaxNow = 4
  MaxFailures = 1
SPECIFICATION FairSpec
INVARIANTS
  TimersRespected
  NoticeMeansClosed
PROPERTIES
  ClosesAsPromised
  EveryReportEnds
  SessionsEnd
