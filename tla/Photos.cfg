CONSTANTS
  Users = {a, b}
  Uploads = {u}
  Pois = {p, q}
  Requests = {r1, r2}
  Nobody = Nobody
  TTL = 1
  MaxNow = 3
  MaxFailures = 2
SPECIFICATION Spec
CHECK_DEADLOCK FALSE
INVARIANTS
  PhotoBelongsToPoi
  MarkedMeansProcessed
  OrphansNeedFailure
PROPERTIES
  EveryUploadEnds
  EveryPhotoProcessed
