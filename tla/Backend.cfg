CONSTANTS
  o = o
  a = a
  b = b
  Importer = Importer
  Nobody = Nobody
  Users <- MCUsers
  Admins <- MCAdmins
  Histories <- MCHistories
  Seeds <- MCSeeds
  Requests = {r1}
  Pois = {p}
  ReportIds = {i}
  MaxRejections = 4
  ResolveDelay = 0
  ReportTTL = 1
  MaxNow = 2
  MaxFailures = 0
SPECIFICATION SerialSpec
SYMMETRY Symmetry
INVARIANTS
  CountersAreExact
  ThreeAttestationsVerify
  ThreeProposalsRemove
  ReputationIsLedgerSum
  
  LedgerTellsOutcome
  LedgerTellsConfirmations
PROPERTIES
  VerificationIsTold
