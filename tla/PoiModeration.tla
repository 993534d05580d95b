---------------------------- MODULE PoiModeration ----------------------------
(***************************************************************************)
(* The life of a POI row under concurrent requests: submission,            *)
(* confirmation, removal proposals and moderation (routers/pois.py,        *)
(* routers/admin.py, services/confirmation_service.py, removal_service.py, *)
(* moderation_service.py), with the reputation of its submitter            *)
(* (services/reputation_service.py).                                       *)
(*                                                                         *)
(* Every request runs in one database session under READ COMMITTED: it     *)
(* reads committed rows into memory, computes on those copies, and writes  *)
(* the columns it changed with an UPDATE by primary key, whose row lock it *)
(* keeps until it commits.  txn[r] is the session of request r: the        *)
(* handler (op), the next statement (pc), the copies it holds (row, who)   *)
(* and the rows it has flushed and so locked (locks).  The tables change   *)
(* only when a session commits.                                            *)
(***************************************************************************)
EXTENDS Integers, FiniteSets, Reputation

CONSTANTS
  Users,          \* ids of the users table
  Admins,         \* users with is_admin
  Pois,           \* ids of the pois table
  Requests,       \* sessions that may be open at the same time
  Importer,       \* the source of an imported POI, not a user
  Histories,      \* ledgers the users may start with: functions on Users
  Seeds,          \* sources of the POIs that may exist at the start
  MaxRejections   \* bound: no admin deletion once a user has lost this many

Sources == Users \cup {Importer}

ASSUME UsersAssumption ==
  /\ Admins \subseteq Users
  /\ Importer \notin Users
  /\ IsFiniteSet(Users)

ASSUME SeedAssumption ==
  /\ Histories \subseteq [Users -> Ledger]
  /\ Seeds \subseteq Sources
  /\ MaxRejections \in Nat

VerificationThreshold == 3    \* the submitter and two confirmers
RemovalThreshold      == 3    \* distinct proposals

VARIABLES
  pois,            \* pois table: the row of each id
  confirmations,   \* poi_confirmations: the users that confirmed each POI
  proposals,       \* poi_removal_proposals: the users that proposed each removal
  users,           \* users table: the cached reputation and the ban
  ledger,          \* reputation_events, counted by user and type
  notices,         \* poi_verified notifications sent about each POI
  txn              \* the session of each request

tables == << pois, confirmations, proposals, users, ledger, notices >>
vars == << pois, confirmations, proposals, users, ledger, notices, txn >>

PoiRow ==
  [ source              : Sources,
    status              : {"absent", "active", "removed"},
    verification_status : {"unverified", "verified"},
    verification_count  : Nat ]

NoRow ==
  [ source |-> Importer, status |-> "absent",
    verification_status |-> "unverified", verification_count |-> 0 ]

ImportedRow ==
  [ source |-> Importer, status |-> "active",
    verification_status |-> "verified", verification_count |-> 0 ]

\* A POI its submitter u has just created; the submitter counts as one.
SubmittedRow(u, auto_verify) ==
  [ source |-> u, status |-> "active",
    verification_status |-> IF auto_verify THEN "verified" ELSE "unverified",
    verification_count |-> 1 ]

SeedRow(s) == IF s = Importer THEN ImportedRow ELSE SubmittedRow(s, FALSE)

Ops == {"confirm", "propose", "reject", "approve", "submit"}
Steps == {"idle", "read", "insert", "count", "flush", "credit", "commit"}

Session ==
  [ op    : Ops \cup {"none"},
    pc    : Steps,
    actor : Sources,                \* the authenticated user
    poi   : Pois \cup {Importer},
    row   : PoiRow,                 \* the POI as this session read it
    who   : UserRow,                \* the users row this session holds
    locks : SUBSET {"poi", "user"} ]

Closed ==
  [ op |-> "none", pc |-> "idle", actor |-> Importer, poi |-> Importer,
    row |-> NoRow, who |-> NewUserRow(0), locks |-> {} ]

Init ==
  /\ pois \in [Pois -> {NoRow} \cup {SeedRow(s) : s \in Seeds}]
  /\ confirmations = [p \in Pois |-> {}]
  /\ proposals = [p \in Pois |-> {}]
  /\ ledger \in Histories
  /\ users = [u \in Users |-> NewUserRow(LedgerSum(ledger[u]))]
  /\ notices = [p \in Pois |-> 0]
  /\ txn = [r \in Requests |-> Closed]

-----------------------------------------------------------------------------
(* The database: sessions, unique keys and row locks.                      *)

At(r, op, pc) == txn[r].op = op /\ txn[r].pc = pc

\* A statement that changes no committed row: only the session moves on.
Become(r, session) == txn' = [txn EXCEPT ![r] = session] /\ UNCHANGED tables

Goto(r, pc) == Become(r, [txn[r] EXCEPT !.pc = pc])

\* The session ends without a trace: a 4xx answer, a rollback or a crash.
Rollback(r) == Become(r, Closed)

\* A session is opened: get_session, then get_current_user reads the caller.
Open(r, op, pc, u, p) ==
  /\ txn[r] = Closed
  /\ ~users[u].is_banned
  /\ Become(r, [Closed EXCEPT !.op = op, !.pc = pc, !.actor = u,
                              !.poi = p, !.who = users[u]])

\* Requests whose uncommitted INSERT has the primary key (poi, user) of t.
InsertedSameKey(t) ==
  {r \in Requests : /\ txn[r].op = t.op
                    /\ txn[r].poi = t.poi
                    /\ txn[r].actor = t.actor
                    /\ txn[r].pc \in {"count", "flush", "credit", "commit"}}

\* Mutant: the POI is read FOR SHARE, so the UPDATE waits for other readers.
PoiLockedByReaders(r) ==
  \E q \in Requests \ {r} :
    txn[q].poi = txn[r].poi /\ txn[q].pc \in {"insert", "count", "flush", "credit", "commit"}

PoiLocked(r) ==
  \E q \in Requests \ {r} : txn[q].poi = txn[r].poi /\ "poi" \in txn[q].locks

Submitter(t) == t.row.source

UserLocked(r) ==
  \E q \in Requests \ {r} :
    "user" \in txn[q].locks /\ Submitter(txn[q]) = Submitter(txn[r])

\* The users row the session gets from select(User): the identity map hands
\* back the copy it already holds when the submitter is the caller.
SubmitterRow(t) == IF Submitter(t) = t.actor THEN t.who ELSE users[Submitter(t)]

\* Refresh the session's copy of the POI with the committed row.
ReadPoi(r, next) ==
  Become(r, [txn[r] EXCEPT !.pc = next, !.row = pois[txn[r].poi]])

-----------------------------------------------------------------------------
(* POST /pois: the gates read the caller's row, the new POI is committed.   *)

SubmitBegin(r, u, p) ==
  /\ CanSubmit(users[u].reputation)
  /\ pois[p].status = "absent"
  /\ \A q \in Requests : ~(txn[q].op = "submit" /\ txn[q].poi = p)   \* a fresh uuid
  /\ Open(r, "submit", "commit", u, p)

-----------------------------------------------------------------------------
(* POST /pois/{id}/confirm                                                  *)

ConfirmBegin(r, u, p) == Open(r, "confirm", "read", u, p)

\* An active POI of someone else, or 404 / 400.
ConfirmRead(r) ==
  /\ At(r, "confirm", "read")
  /\ LET row == pois[txn[r].poi]
     IN  IF row.status = "active" /\ row.source # txn[r].actor
         THEN ReadPoi(r, "insert")
         ELSE Rollback(r)

\* Mutant: the table has no primary key on (poi, user).
ConfirmInsertAgain(r) ==
  /\ At(r, "confirm", "insert")
  /\ InsertedSameKey(txn[r]) = {}
  /\ Goto(r, "flush")

\* INSERT poi_confirmations; waits for a session that holds the same key.
ConfirmInsert(r) ==
  /\ At(r, "confirm", "insert")
  /\ InsertedSameKey(txn[r]) = {}
  /\ IF txn[r].actor \in confirmations[txn[r].poi]
     THEN Rollback(r)
     ELSE Goto(r, "flush")

\* Mutant: the threshold is passed, not reached.
FlipsLate(t) ==
  /\ t.row.verification_status # "verified"
  /\ t.row.verification_count + 1 > VerificationThreshold

\* The confirmation that reaches the threshold, judged on the copy read.
Flips(t) ==
  /\ t.row.verification_status # "verified"
  /\ t.row.verification_count + 1 >= VerificationThreshold

\* UPDATE pois, then select the submitter: credited unless it is banned.
ConfirmFlush(r) ==
  /\ At(r, "confirm", "flush")
  /\ ~PoiLocked(r)
  /\ LET t == txn[r] IN
       IF Submitter(t) \in Users
       THEN Become(r, [t EXCEPT !.locks = {"poi"}, !.who = SubmitterRow(t),
                                !.pc = IF SubmitterRow(t).is_banned
                                       THEN "commit" ELSE "credit"])
       ELSE Become(r, [t EXCEPT !.locks = {"poi"}, !.pc = "commit"])

-----------------------------------------------------------------------------
(* POST /pois/{id}/propose-removal                                          *)

ProposeBegin(r, u, p) ==
  /\ CanSubmit(users[u].reputation)
  /\ Open(r, "propose", "read", u, p)

ProposeRead(r) ==
  /\ At(r, "propose", "read")
  /\ LET row == pois[txn[r].poi]
     IN  IF row.status = "active" /\ row.source # txn[r].actor
         THEN ReadPoi(r, "insert")
         ELSE Rollback(r)

ProposeInsert(r) ==
  /\ At(r, "propose", "insert")
  /\ InsertedSameKey(txn[r]) = {}
  /\ IF txn[r].actor \in proposals[txn[r].poi]
     THEN Rollback(r)
     ELSE Goto(r, "count")

\* Mutants: the session's own proposal is not counted, or is counted twice.
ProposeCountOthers(r) ==
  /\ At(r, "propose", "count")
  /\ LET seen == Cardinality(proposals[txn[r].poi])
     IN  Goto(r, IF seen >= RemovalThreshold THEN "flush" ELSE "commit")

ProposeCountTwice(r) ==
  /\ At(r, "propose", "count")
  /\ LET seen == Cardinality(proposals[txn[r].poi] \cup {txn[r].actor}) + 1
     IN  Goto(r, IF seen >= RemovalThreshold THEN "flush" ELSE "commit")

\* SELECT count(*): the committed proposals and this session's own.
ProposeCount(r) ==
  /\ At(r, "propose", "count")
  /\ LET seen == Cardinality(proposals[txn[r].poi] \cup {txn[r].actor})
     IN  Goto(r, IF seen >= RemovalThreshold THEN "flush" ELSE "commit")

-----------------------------------------------------------------------------
(* DELETE /pois/{id} and POST /admin/pois/{id}/reject                       *)

RejectBegin(r, u, p) ==
  /\ u \in Admins
  /\ \A v \in Users : ledger[v]["poi_submitted_rejected"] < MaxRejections
  /\ Open(r, "reject", "read", u, p)

RejectRead(r) ==
  /\ At(r, "reject", "read")
  /\ IF pois[txn[r].poi].status = "absent" THEN Rollback(r) ELSE ReadPoi(r, "flush")

\* soft_delete_poi: UPDATE pois, then the submitter of a POI that was
\* unverified in the copy read is selected to be charged.
SoftDelete(r) ==
  /\ txn[r].op \in {"propose", "reject"} /\ txn[r].pc = "flush"
  /\ ~PoiLocked(r)
  /\ LET t == txn[r] IN
       IF t.row.verification_status = "unverified" /\ Submitter(t) \in Users
       THEN Become(r, [t EXCEPT !.locks = {"poi"}, !.who = SubmitterRow(t), !.pc = "credit"])
       ELSE Become(r, [t EXCEPT !.locks = {"poi"}, !.pc = "commit"])

-----------------------------------------------------------------------------
(* POST /admin/pois/{id}/approve                                            *)

ApproveBegin(r, u, p) ==
  /\ u \in Admins
  /\ Open(r, "approve", "read", u, p)

ApproveRead(r) ==
  /\ At(r, "approve", "read")
  /\ IF pois[txn[r].poi].status = "absent" THEN Rollback(r) ELSE ReadPoi(r, "flush")

ApproveFlush(r) ==
  /\ At(r, "approve", "flush")
  /\ ~PoiLocked(r)
  /\ Become(r, [txn[r] EXCEPT !.pc = "commit", !.locks = {"poi"}])

-----------------------------------------------------------------------------
(* append_event flushes an UPDATE of the submitter's row: the lock.         *)

LockUser(r) ==
  /\ txn[r].pc = "credit"
  /\ ~UserLocked(r)
  /\ Become(r, [txn[r] EXCEPT !.pc = "commit", !.locks = {"poi", "user"}])

(***************************************************************************)
(* Commit: what each session leaves in the tables.  An UPDATE writes only  *)
(* the columns the session changed, computed from the copies it read.      *)
(***************************************************************************)
\* Mutants: every column of the copy is written back; the UPDATE skips a POI
\* that was removed in the meantime; a verified POI is not counted any more;
\* the row is verified later than the submitter is told.
ConfirmedRowWhole(t, row) ==
  [t.row EXCEPT !.verification_count  = @ + 1,
                !.verification_status = IF Flips(t) THEN "verified" ELSE @]

ConfirmedRowIfActive(t, row) ==
  IF row.status = "active"
  THEN [row EXCEPT !.verification_count  = t.row.verification_count + 1,
                   !.verification_status = IF Flips(t) THEN "verified" ELSE @]
  ELSE row

ConfirmedRowUntilVerified(t, row) ==
  IF t.row.verification_status = "verified" THEN row
  ELSE [row EXCEPT !.verification_count  = t.row.verification_count + 1,
                   !.verification_status = IF Flips(t) THEN "verified" ELSE @]

ConfirmedRowLate(t, row) ==
  [row EXCEPT !.verification_count  = t.row.verification_count + 1,
              !.verification_status = IF FlipsLate(t) THEN "verified" ELSE @]

ConfirmedRow(t, row) ==
  [row EXCEPT !.verification_count  = t.row.verification_count + 1,
              !.verification_status = IF Flips(t) THEN "verified" ELSE @]

\* Mutant: a status outside the enum.
RemovedRowDeleted(row) == [row EXCEPT !.status = "deleted"]

RemovedRow(row) == [row EXCEPT !.status = "removed"]

ApprovedRow(row) == [row EXCEPT !.verification_status = "verified"]

PoiAfter(t, row) ==
  CASE t.op = "submit"                                 -> SubmittedRow(t.actor, IsTrusted(t.who.reputation))
    [] t.op = "confirm"                                -> ConfirmedRow(t, row)
    [] t.op \in {"propose", "reject"} /\ t.locks # {}  -> RemovedRow(row)
    [] t.op = "approve"                                -> ApprovedRow(row)
    [] OTHER                                           -> row

\* Mutant: the second event is computed from the row read, not from the first.
ConfirmCreditOnce(t) ==
  IF Flips(t) THEN AppendEvent(t.who, "poi_submitted_verified")
  ELSE AppendEvent(t.who, "confirmation")

\* confirm_poi: +1, and +5 when this confirmation flips the POI.
ConfirmCredit(t) ==
  LET credited == AppendEvent(t.who, "confirmation")
  IN  IF Flips(t) THEN AppendEvent(credited, "poi_submitted_verified") ELSE credited

\* Mutant: the flip is entered instead of the confirmation, not besides it.
ConfirmEntriesFlip(t, book) ==
  Record(book, IF Flips(t) THEN "poi_submitted_verified" ELSE "confirmation")

ConfirmEntries(t, book) ==
  LET entered == Record(book, "confirmation")
  IN  IF Flips(t) THEN Record(entered, "poi_submitted_verified") ELSE entered

\* Mutant: the whole row is written back, the ban read included.
UserAfterWhole(t, row) ==
  IF t.op = "confirm" THEN ConfirmCredit(t)
  ELSE AppendEvent(t.who, "poi_submitted_rejected")

\* is_banned is only ever set, so a stale FALSE is not written back.
UserAfter(t, row) ==
  LET new == IF t.op = "confirm" THEN ConfirmCredit(t)
             ELSE AppendEvent(t.who, "poi_submitted_rejected")
  IN  [reputation |-> new.reputation, is_banned |-> row.is_banned \/ new.is_banned]

LedgerAfter(t, book) ==
  IF t.op = "confirm" THEN ConfirmEntries(t, book)
  ELSE Record(book, "poi_submitted_rejected")

Commit(r) ==
  LET t == txn[r] IN
  /\ t.pc = "commit"
  /\ pois' = [pois EXCEPT ![t.poi] = PoiAfter(t, @)]
  /\ confirmations' = [confirmations EXCEPT ![t.poi] =
                         IF t.op = "confirm" THEN @ \cup {t.actor} ELSE @]
  /\ proposals' = [proposals EXCEPT ![t.poi] =
                     IF t.op = "propose" THEN @ \cup {t.actor} ELSE @]
  /\ IF "user" \in t.locks
     THEN /\ users' = [users EXCEPT ![Submitter(t)] = UserAfter(t, @)]
          /\ ledger' = [ledger EXCEPT ![Submitter(t)] = LedgerAfter(t, @)]
          /\ notices' = [notices EXCEPT ![t.poi] =
                           IF t.op = "confirm" /\ Flips(t) THEN @ + 1 ELSE @]
     ELSE UNCHANGED << users, ledger, notices >>
  /\ txn' = [txn EXCEPT ![r] = Closed]

\* The process dies, the connection is lost or a statement fails.
Abort(r) == txn[r] # Closed /\ Rollback(r)

-----------------------------------------------------------------------------

Begin(r) ==
  \E u \in Users, p \in Pois :
    \/ SubmitBegin(r, u, p)
    \/ ConfirmBegin(r, u, p)
    \/ ProposeBegin(r, u, p)
    \/ RejectBegin(r, u, p)
    \/ ApproveBegin(r, u, p)

Step(r) ==
  \/ ConfirmRead(r)
  \/ ConfirmInsert(r)
  \/ ConfirmFlush(r)
  \/ ProposeRead(r)
  \/ ProposeInsert(r)
  \/ ProposeCount(r)
  \/ RejectRead(r)
  \/ SoftDelete(r)
  \/ ApproveRead(r)
  \/ ApproveFlush(r)
  \/ LockUser(r)
  \/ Commit(r)

Next == \E r \in Requests : Begin(r) \/ Step(r) \/ Abort(r)

Spec == Init /\ [][Next]_vars

(***************************************************************************)
(* The event loop keeps serving a session it has opened, and the queue of  *)
(* a PostgreSQL row lock is fair, so a step that is enabled again and      *)
(* again is taken.  Nobody has to open a session, nothing has to crash.    *)
(***************************************************************************)
FairSpec == Spec /\ \A r \in Requests : SF_vars(Step(r))

-----------------------------------------------------------------------------
(* Properties                                                              *)

\* Type correctness of the tables and the sessions.
TypeOK ==
  /\ pois \in [Pois -> PoiRow]
  /\ confirmations \in [Pois -> SUBSET Users]
  /\ proposals \in [Pois -> SUBSET Users]
  /\ users \in [Users -> UserRow]
  /\ ledger \in [Users -> Ledger]
  /\ notices \in [Pois -> Nat]
  /\ txn \in [Requests -> Session]

\* Stale copies can lose confirmations but never invent one: the counter of a
\* POI is at most its submitter and its recorded confirmers.
CountNeverOverstates ==
  \A p \in Pois :
    pois[p].verification_count <= 1 + Cardinality(confirmations[p])

\* A reputation at or below the ban threshold belongs to a banned user, even
\* when concurrent credits and charges overwrite each other's reputation.
BanFollowsReputation ==
  \A u \in Users : ShouldAutoBan(users[u].reputation) => users[u].is_banned

\* A ban is never lifted by a session that read the row before the ban.
BanIsFinal ==
  [][\A u \in Users : users[u].is_banned => users'[u].is_banned]_vars

\* A submitter is told that a POI is verified only when it is.
NoticeMeansVerified ==
  \A p \in Pois : notices[p] > 0 => pois[p].verification_status = "verified"

\* Every session ends: POI and user locks are always taken in the same order,
\* so sessions that wait for each other's rows cannot form a cycle.
SessionsEnd == \A r \in Requests : (txn[r] # Closed) ~> (txn[r] = Closed)

Owner    == [p \in Pois |-> pois[p].source]
Status   == [p \in Pois |-> pois[p].status]
Verified == [p \in Pois |-> pois[p].verification_status = "verified"]

\* The tables implement the promise of PoiLifecycle.
Promise == INSTANCE PoiLifecycle WITH
  People    <- Users,
  Places    <- Pois,
  Outsider  <- Importer,
  Quorums   <- {S \in SUBSET Users : Cardinality(S) >= VerificationThreshold - 1},
  Juries    <- {S \in SUBSET Users : Cardinality(S) >= RemovalThreshold},
  owner     <- Owner,
  status    <- Status,
  verified  <- Verified,
  vouchers  <- confirmations,
  objectors <- proposals

KeepsPromise == Promise!Spec

(***************************************************************************)
(* What an open session may rely on: the copies it holds are stale, but    *)
(* these facts about them stay true whatever other sessions commit.        *)
(***************************************************************************)

SessionShape(t) ==
  \/ t = Closed
  \/ /\ t.op \in Ops /\ t.pc # "idle" /\ t.actor \in Users /\ t.poi \in Pois
     /\ t.op = "submit" => t.pc = "commit"
     /\ t.locks # {} => t.op # "submit" /\ t.pc \in {"credit", "commit"}

\* The POI that a session has found still exists and has the same submitter.
FoundPoiStays(t) ==
  t.op \in Ops \ {"submit"} /\ t.pc # "read" =>
    /\ pois[t.poi].status # "absent"
    /\ pois[t.poi].source = t.row.source
    /\ t.op \in {"confirm", "propose"} => t.row.source # t.actor

\* A key that a session has inserted is in no other session and no table.
HoldsKey(t) ==
  t.op \in {"confirm", "propose"} /\ t.pc \in {"count", "flush", "credit", "commit"}

KeysAreUnique ==
  \A r, q \in Requests :
    HoldsKey(txn[r]) /\ q \in InsertedSameKey(txn[r]) => q = r

KeyIsNew(t) ==
  HoldsKey(t) => t.actor \notin (IF t.op = "confirm" THEN confirmations ELSE proposals)[t.poi]

\* The copy of the counter is justified by confirmations of other users.
CopyNeverOverstates(t) ==
  t.op = "confirm" /\ t.pc # "read" =>
    t.row.verification_count <= 1 + Cardinality(confirmations[t.poi])

\* A session that removes the POI has enough proposals, its own included.
RemovalIsBacked(t) ==
  t.op = "propose" /\ (t.pc \in {"flush", "credit"} \/ t.locks # {}) =>
    Cardinality(proposals[t.poi] \cup {t.actor}) >= RemovalThreshold

\* The id of a POI that is being submitted is in use nowhere else.
NewPoiIsFresh ==
  \A r \in Requests : txn[r].op = "submit" =>
    /\ pois[txn[r].poi].status = "absent"
    /\ \A q \in Requests : txn[q].op = "submit" /\ txn[q].poi = txn[r].poi => q = r

\* Open sessions agree with the tables: the strengthening that makes
\* CountNeverOverstates inductive and each commit a step of PoiLifecycle.
SessionsAgree ==
  /\ \A r \in Requests :
       /\ SessionShape(txn[r])
       /\ FoundPoiStays(txn[r])
       /\ KeyIsNew(txn[r])
       /\ CopyNeverOverstates(txn[r])
       /\ RemovalIsBacked(txn[r])
  /\ KeysAreUnique
  /\ NewPoiIsFresh

(***************************************************************************)
(* The exact promises, which hold when requests do not overlap.            *)
(***************************************************************************)

\* The counter is the submitter and the distinct confirmers.
CountIsExact ==
  \A p \in Pois :
    pois[p].verification_count =
      Cardinality(confirmations[p]) + (IF pois[p].source \in Users THEN 1 ELSE 0)

\* A POI two others confirmed is verified (confirmation_service.py:3).
ThreeAttestationsVerify ==
  \A p \in Pois :
    Cardinality(confirmations[p]) >= VerificationThreshold - 1
      => pois[p].verification_status = "verified"

\* The submitter hears of it at most once.
VerifiedOnce == \A p \in Pois : notices[p] <= 1

\* A POI three users want gone is gone (removal_service.py:3).
ThreeProposalsRemove ==
  \A p \in Pois :
    Cardinality(proposals[p]) >= RemovalThreshold => pois[p].status = "removed"

\* The cached reputation is the sum of the ledger (reputation_event.py:3).
ReputationIsLedgerSum ==
  \A u \in Users : users[u].reputation = LedgerSum(ledger[u])

=============================================================================
