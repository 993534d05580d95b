CONSTANTS
  Browsers = {b1, b2}
  People = {p, q}
  UserIds = {u1, u2}
  States = {s1, s2, s3}
  Requests = {r1, r2}
  Notices = {n1}
  Nobody = Nobody
SPECIFICATION Spec
SYMMETRY Symmetry
CHECK_DEADLOCK FALSE
INVARIANTS
  OneAccountPerPerson
  SignInLandsWhereItBegan
PROPERTIES
  BanFollowsPerson
  ReadByRecipient
