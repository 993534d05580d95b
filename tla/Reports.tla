------------------------------- MODULE Reports -------------------------------
(***************************************************************************)
(* The life of a status report (services/report_service.py,                *)
(* routers/reports.py, jobs/report_expiry.py): users submit, confirm and   *)
(* resolve it, an admin dismisses it, and every quarter of an hour a job   *)
(* expires what has outlived its TTL.  Closing a report notifies its       *)
(* reporter and changes the reporter's reputation.                         *)
(*                                                                         *)
(* Sessions are those of PoiModeration: each request works on copies it    *)
(* read under READ COMMITTED and writes back the columns it changed with   *)
(* an UPDATE by primary key.  The job runs in a session of its own, job.   *)
(***************************************************************************)
EXTENDS Integers, FiniteSets, Reputation

CONSTANTS
  Users,          \* ids of the users table
  Admins,         \* users with is_admin
  ReportIds,      \* ids of the reports table
  Requests,       \* sessions that may be open at the same time
  Nobody,         \* NULL in resolved_by
  Histories,      \* ledgers the users may start with: functions on Users
  ResolveDelay,   \* RESOLVE_OTHER_DELAY_HOURS, in ticks of the clock
  ReportTTL,      \* REPORT_TTL_DAYS, in ticks of the clock
  MaxNow,         \* bound: the clock stops here
  MaxFailures     \* bound: how often a run of the job fails

ASSUME ReportsAssumption ==
  /\ Admins \subseteq Users
  /\ Nobody \notin Users
  /\ IsFiniteSet(Users)
  /\ Histories \subseteq [Users -> Ledger]
  /\ ResolveDelay \in Nat /\ ReportTTL \in Nat /\ ResolveDelay < ReportTTL
  /\ MaxNow \in Nat /\ MaxFailures \in Nat

VARIABLES
  reports,      \* reports table: the row of each id
  confirmers,   \* report_confirmations: who confirmed each report
  users,        \* users table: the cached reputation and the ban
  ledger,       \* reputation_events, counted by user and type
  notices,      \* report_resolved / report_expired notifications of each report
  txn,          \* the session of each request
  job,          \* the session of the expiry job
  now           \* the clock

tables == << reports, confirmers, users, ledger, notices >>
vars == << reports, confirmers, users, ledger, notices, txn, job, now >>

Statuses == {"absent", "active", "resolved", "expired", "dismissed"}
ClosedStatuses == {"resolved", "expired", "dismissed"}

ReportRow ==
  [ status             : Statuses,
    reporter           : Users \cup {Nobody},
    confirmation_count : Nat,
    resolved_by        : Users \cup {Nobody},
    created_at         : Nat ]

NoReport ==
  [ status |-> "absent", reporter |-> Nobody, confirmation_count |-> 0,
    resolved_by |-> Nobody, created_at |-> 0 ]

Ops == {"submit", "confirm", "resolve", "dismiss"}
Steps == {"idle", "read", "insert", "flush", "credit", "commit"}

Session ==
  [ op     : Ops \cup {"none"},
    pc     : Steps,
    actor  : Users \cup {Nobody},
    report : ReportIds \cup {Nobody},
    row    : ReportRow,                  \* the report as this session read it
    who    : UserRow,                    \* the users row this session holds
    locks  : SUBSET {"report", "user"} ]

Closed ==
  [ op |-> "none", pc |-> "idle", actor |-> Nobody, report |-> Nobody,
    row |-> NoReport, who |-> NewUserRow(0), locks |-> {} ]

JobIdle == [pc |-> "idle", due |-> {}, failures |-> 0]

Init ==
  /\ reports = [i \in ReportIds |-> NoReport]
  /\ confirmers = [i \in ReportIds |-> {}]
  /\ ledger \in Histories
  /\ users = [u \in Users |-> NewUserRow(LedgerSum(ledger[u]))]
  /\ notices = [i \in ReportIds |-> [resolved |-> 0, expired |-> 0]]
  /\ txn = [r \in Requests |-> Closed]
  /\ job = JobIdle
  /\ now = 0

-----------------------------------------------------------------------------
(* Sessions and row locks, as in PoiModeration.                            *)

At(r, op, pc) == txn[r].op = op /\ txn[r].pc = pc

Become(r, session) ==
  txn' = [txn EXCEPT ![r] = session] /\ UNCHANGED tables /\ UNCHANGED << job, now >>

Goto(r, pc) == Become(r, [txn[r] EXCEPT !.pc = pc])

Rollback(r) == Become(r, Closed)

Open(r, op, pc, u, i) ==
  /\ txn[r] = Closed
  /\ ~users[u].is_banned
  /\ Become(r, [Closed EXCEPT !.op = op, !.pc = pc, !.actor = u,
                              !.report = i, !.who = users[u]])

\* The copy of the report, and the users row select(User) returns for its
\* reporter: the identity map's copy when the reporter is the caller.
ReadReport(r, next) ==
  Become(r, [txn[r] EXCEPT !.pc = next, !.row = reports[txn[r].report]])

ReporterRow(t) ==
  IF t.row.reporter = t.actor THEN t.who ELSE users[t.row.reporter]

\* Mutant: the report is read FOR SHARE, so an UPDATE waits for other readers.
ReportLockedByReaders(r) ==
  \/ \E q \in Requests \ {r} :
       txn[q].report = txn[r].report /\ txn[q].pc \in {"insert", "flush", "credit", "commit"}
  \/ job.pc = "commit" /\ txn[r].report \in job.due

ReportLocked(r) ==
  \/ \E q \in Requests \ {r} :
       txn[q].report = txn[r].report /\ "report" \in txn[q].locks
  \/ job.pc = "commit" /\ txn[r].report \in job.due

UserLocked(r) ==
  \E q \in Requests \ {r} :
    "user" \in txn[q].locks /\ txn[q].row.reporter = txn[r].row.reporter

-----------------------------------------------------------------------------
(* Requests                                                                *)

\* POST /pois/{id}/reports on an active POI; created_at and expires_at are
\* taken from the clock while the session is open.
SubmitBegin(r, u, i) ==
  /\ now + ReportTTL < MaxNow              \* bound: it can still expire
  /\ reports[i].status = "absent"
  /\ \A q \in Requests : ~(txn[q].op = "submit" /\ txn[q].report = i)   \* a fresh uuid
  /\ txn[r] = Closed /\ ~users[u].is_banned
  /\ Become(r, [Closed EXCEPT !.op = "submit", !.pc = "commit", !.actor = u, !.report = i,
                              !.row = [NoReport EXCEPT !.created_at = now]])

ConfirmBegin(r, u, i) == Open(r, "confirm", "read", u, i)

\* POST /reports/{id}/confirm: an active report of somebody else, else 404 / 400.
ConfirmRead(r) ==
  /\ At(r, "confirm", "read")
  /\ LET row == reports[txn[r].report]
     IN  IF row.status = "active" /\ row.reporter # txn[r].actor
         THEN ReadReport(r, "insert")
         ELSE Rollback(r)

\* INSERT report_confirmations; waits for a session that holds the same key.
ConfirmInsert(r) ==
  /\ At(r, "confirm", "insert")
  /\ ~\E q \in Requests : /\ At(q, "confirm", "commit")
                          /\ txn[q].report = txn[r].report
                          /\ txn[q].actor = txn[r].actor
  /\ IF txn[r].actor \in confirmers[txn[r].report] THEN Rollback(r) ELSE Goto(r, "commit")

ResolveBegin(r, u, i) == Open(r, "resolve", "read", u, i)

\* Mutant: the delay is not checked.
ResolveReadAnytime(r) ==
  /\ At(r, "resolve", "read")
  /\ LET row == reports[txn[r].report]
     IN  IF row.status # "active" THEN Rollback(r)
         ELSE ReadReport(r, IF row.reporter = txn[r].actor THEN "commit" ELSE "flush")

\* POST /reports/{id}/resolve: the reporter any time, others after the delay.
ResolveRead(r) ==
  /\ At(r, "resolve", "read")
  /\ LET row == reports[txn[r].report] IN
       IF row.status # "active" THEN Rollback(r)
       ELSE IF row.reporter = txn[r].actor THEN ReadReport(r, "commit")
       ELSE IF now - row.created_at >= ResolveDelay THEN ReadReport(r, "flush")
       ELSE Rollback(r)

DismissBegin(r, u, i) == u \in Admins /\ Open(r, "dismiss", "read", u, i)

\* POST /reports/{id}/dismiss
DismissRead(r) ==
  /\ At(r, "dismiss", "read")
  /\ IF reports[txn[r].report].status = "active"
     THEN ReadReport(r, "flush") ELSE Rollback(r)

\* Mutant: a dismissal spares a banned reporter, as a resolution does.
FlushSparesBanned(r) ==
  /\ txn[r].op \in {"resolve", "dismiss"} /\ txn[r].pc = "flush"
  /\ ~ReportLocked(r)
  /\ LET t == txn[r]
         reporter == ReporterRow(t)
     IN  Become(r, [t EXCEPT !.locks = {"report"}, !.who = reporter,
                             !.pc = IF reporter.is_banned THEN "commit" ELSE "credit"])

\* The select of the reporter flushes the UPDATE of the report.  A resolution
\* credits the reporter unless it is banned, a dismissal always charges it.
Flush(r) ==
  /\ txn[r].op \in {"resolve", "dismiss"} /\ txn[r].pc = "flush"
  /\ ~ReportLocked(r)
  /\ LET t == txn[r]
         reporter == ReporterRow(t)
     IN  Become(r, [t EXCEPT !.locks = {"report"}, !.who = reporter,
                             !.pc = IF t.op = "resolve" /\ reporter.is_banned
                                    THEN "commit" ELSE "credit"])

LockUser(r) ==
  /\ txn[r].pc = "credit"
  /\ ~UserLocked(r)
  /\ Become(r, [txn[r] EXCEPT !.pc = "commit", !.locks = {"report", "user"}])

\* Mutant: confirming writes every column of the copy back.
ReportAfterWhole(t, row) ==
  CASE t.op = "submit"  -> [t.row EXCEPT !.status = "active", !.reporter = t.actor]
    [] t.op = "confirm" -> [t.row EXCEPT !.confirmation_count = @ + 1]
    [] t.op = "resolve" -> [row EXCEPT !.status = "resolved", !.resolved_by = t.actor]
    [] t.op = "dismiss" -> [row EXCEPT !.status = "dismissed", !.resolved_by = t.actor]

\* The UPDATEs name no status: they apply to whatever the row has become.
ReportAfter(t, row) ==
  CASE t.op = "submit"  -> [t.row EXCEPT !.status = "active", !.reporter = t.actor]
    [] t.op = "confirm" -> [row EXCEPT !.confirmation_count = t.row.confirmation_count + 1]
    [] t.op = "resolve" -> [row EXCEPT !.status = "resolved", !.resolved_by = t.actor]
    [] t.op = "dismiss" -> [row EXCEPT !.status = "dismissed", !.resolved_by = t.actor]

ClosingEvent(t) ==
  IF t.op = "resolve" THEN "report_submitted_resolved" ELSE "report_dismissed_admin"

\* The reputation is computed from the copy; is_banned is only ever set.
UserAfter(t, row) ==
  LET new == AppendEvent(t.who, ClosingEvent(t))
  IN  [reputation |-> new.reputation, is_banned |-> row.is_banned \/ new.is_banned]

\* A session that has flushed nothing yet takes the lock on the report here.
Commit(r) ==
  LET t == txn[r] IN
  /\ t.pc = "commit"
  /\ t.op # "submit" => ~ReportLocked(r)
  /\ reports' = [reports EXCEPT ![t.report] = ReportAfter(t, @)]
  /\ confirmers' = [confirmers EXCEPT ![t.report] =
                      IF t.op = "confirm" THEN @ \cup {t.actor} ELSE @]
  /\ notices' = [notices EXCEPT ![t.report].resolved =
                   IF t.op = "resolve" /\ t.row.reporter # t.actor THEN @ + 1 ELSE @]
  /\ IF "user" \in t.locks
     THEN /\ users' = [users EXCEPT ![t.row.reporter] = UserAfter(t, @)]
          /\ ledger' = [ledger EXCEPT ![t.row.reporter] = Record(@, ClosingEvent(t))]
     ELSE UNCHANGED << users, ledger >>
  /\ txn' = [txn EXCEPT ![r] = Closed]
  /\ UNCHANGED << job, now >>

\* A lost connection, a failed statement, 429, or the end of the process.
Abort(r) == txn[r] # Closed /\ Rollback(r)

-----------------------------------------------------------------------------
(* jobs/report_expiry.py: select the due reports, notify, UPDATE, commit.  *)

\* Mutant: only what fell due since the last tick.
DueToday ==
  {i \in ReportIds : reports[i].status = "active" /\ reports[i].created_at + ReportTTL + 1 = now}

Due ==
  {i \in ReportIds : reports[i].status = "active" /\ reports[i].created_at + ReportTTL < now}

ExpireSelect ==
  /\ job.pc = "idle" /\ Due # {}
  /\ job' = [job EXCEPT !.pc = "update", !.due = Due]
  /\ UNCHANGED tables /\ UNCHANGED << txn, now >>

\* UPDATE ... WHERE id IN (due): waits for every row another session has locked.
ExpireUpdate ==
  /\ job.pc = "update"
  /\ \A r \in Requests : ~("report" \in txn[r].locks /\ txn[r].report \in job.due)
  /\ job' = [job EXCEPT !.pc = "commit"]
  /\ UNCHANGED tables /\ UNCHANGED << txn, now >>

\* Mutant: a row that somebody confirmed in the meantime keeps its status.
ExpireRowIfQuiet(row) == IF row.confirmation_count = 0 THEN [row EXCEPT !.status = "expired"] ELSE row

ExpireRow(row) == [row EXCEPT !.status = "expired"]

ExpireCommit ==
  /\ job.pc = "commit"
  /\ reports' = [i \in ReportIds |-> IF i \in job.due THEN ExpireRow(reports[i]) ELSE reports[i]]
  /\ notices' = [i \in ReportIds |-> IF i \in job.due
                                     THEN [notices[i] EXCEPT !.expired = @ + 1] ELSE notices[i]]
  /\ job' = [job EXCEPT !.pc = "idle", !.due = {}]
  /\ UNCHANGED << confirmers, users, ledger, txn, now >>

\* The tick logs the exception and rolls back; the next tick starts afresh.
ExpireFail ==
  /\ job.pc # "idle" /\ job.failures < MaxFailures
  /\ job' = [pc |-> "idle", due |-> {}, failures |-> job.failures + 1]
  /\ UNCHANGED tables /\ UNCHANGED << txn, now >>

Expire == ExpireSelect \/ ExpireUpdate \/ ExpireCommit

Tick ==
  /\ now < MaxNow
  /\ now' = now + 1
  /\ UNCHANGED tables /\ UNCHANGED << txn, job >>

-----------------------------------------------------------------------------

Begin(r) ==
  \E u \in Users, i \in ReportIds :
    \/ SubmitBegin(r, u, i)
    \/ ConfirmBegin(r, u, i)
    \/ ResolveBegin(r, u, i)
    \/ DismissBegin(r, u, i)

Step(r) ==
  \/ ConfirmRead(r)
  \/ ConfirmInsert(r)
  \/ ResolveRead(r)
  \/ DismissRead(r)
  \/ Flush(r)
  \/ LockUser(r)
  \/ Commit(r)

Next ==
  \/ \E r \in Requests : Begin(r) \/ Step(r) \/ Abort(r)
  \/ Expire \/ ExpireFail
  \/ Tick

Spec == Init /\ [][Next]_vars

(***************************************************************************)
(* The event loop serves what it has opened, row locks are granted in      *)
(* turn, the scheduler fires every quarter of an hour where it is enabled  *)
(* (importer_scheduler_enabled), and time passes.                          *)
(* Nobody has to close a report; the job may fail, but not for ever.       *)
(***************************************************************************)
FairSpec ==
  /\ Spec
  /\ \A r \in Requests : SF_vars(Step(r))
  /\ SF_vars(Expire)
  /\ WF_vars(Tick)

-----------------------------------------------------------------------------
(* The promise of ReportLifecycle                                          *)

\* What the reporter of a report has been told of.
Told == [i \in ReportIds |->
           (IF notices[i].resolved > 0 THEN {"resolved"} ELSE {})
             \cup (IF notices[i].expired > 0 THEN {"expired"} ELSE {})]

Promise == INSTANCE ReportLifecycle WITH
  People   <- Users,
  Staff    <- Admins,
  Subjects <- ReportIds,
  Delay    <- ResolveDelay,
  Life     <- ReportTTL,
  author   <- [i \in ReportIds |-> reports[i].reporter],
  state    <- [i \in ReportIds |-> reports[i].status],
  closer   <- [i \in ReportIds |-> reports[i].resolved_by],
  filed    <- [i \in ReportIds |-> reports[i].created_at],
  backers  <- confirmers,
  told     <- Told,
  clock    <- now

-----------------------------------------------------------------------------
(* Properties of overlapping sessions                                      *)

\* Type correctness of the tables, the sessions, the job and the clock.
TypeOK ==
  /\ reports \in [ReportIds -> ReportRow]
  /\ confirmers \in [ReportIds -> SUBSET Users]
  /\ users \in [Users -> UserRow]
  /\ ledger \in [Users -> Ledger]
  /\ notices \in [ReportIds -> [resolved : Nat, expired : Nat]]
  /\ txn \in [Requests -> Session]
  /\ job \in [pc : {"idle", "update", "commit"}, due : SUBSET ReportIds, failures : Nat]
  /\ now \in Nat

\* Stale copies can lose confirmations but never invent one.  It takes two confirmers
\* besides the reporter to lose one; this is proved for any number of them.
ConfirmationsNeverOverstated ==
  \A i \in ReportIds : reports[i].confirmation_count <= Cardinality(confirmers[i])

\* However sessions and the job overlap, each commit is a step that the life of
\* a report allows: a report is backed by others than its reporter and at most
\* once by each, is closed by whoever may close it then, and is not reopened by a
\* session that read it while it was active.
ClosesAsPromised == Promise!Spec

\* No closed report is active again.
NeverReopened ==
  [][\A i \in ReportIds : reports[i].status \in ClosedStatuses
                            => reports'[i].status \in ClosedStatuses]_vars

\* A report expires only past its TTL and is resolved by others only after the
\* delay, however long ago the session looked at the clock.
TimersRespected ==
  \A i \in ReportIds : LET row == reports[i] IN
    /\ row.status = "expired" => row.created_at + ReportTTL < now
    /\ row.status = "resolved" /\ row.resolved_by # row.reporter
         => row.created_at + ResolveDelay <= now

\* A reporter who is told that the report was closed finds it closed.
NoticeMeansClosed ==
  \A i \in ReportIds :
    notices[i].resolved + notices[i].expired > 0 => reports[i].status \in ClosedStatuses

\* Whatever users, crashes and failed runs of the job do, every report is closed.
EveryReportEnds ==
  \A i \in ReportIds :
    (reports[i].status = "active") ~> (reports[i].status \in ClosedStatuses)

\* No two sessions wait for each other's rows: the report is locked first.
SessionsEnd == \A r \in Requests : (txn[r] # Closed) ~> (txn[r] = Closed)

(***************************************************************************)
(* The exact promises, which hold when sessions do not overlap.            *)
(***************************************************************************)

\* The expiry job touches only active reports (report_service.py:245).
OnlyActiveExpire ==
  [][\A i \in ReportIds : reports[i].status \in {"resolved", "dismissed"}
                            => reports'[i].status # "expired"]_vars

\* The counter is the number of distinct confirmers.
ConfirmationsExact ==
  \A i \in ReportIds : reports[i].confirmation_count = Cardinality(confirmers[i])

\* The reporter is told once, and what happened.
NoticeTellsOutcome ==
  \A i \in ReportIds : LET row == reports[i] IN
    /\ notices[i].expired = (IF row.status = "expired" THEN 1 ELSE 0)
    /\ notices[i].resolved =
         (IF row.status = "resolved" /\ row.resolved_by # row.reporter THEN 1 ELSE 0)

\* The ledger of a reporter charges each dismissed report and, until the
\* reporter is banned, credits each report that somebody else resolved.
LedgerTellsOutcome ==
  \A u \in Users :
    LET mine(S) == {i \in ReportIds : reports[i].reporter = u /\ reports[i].status = S}
        helped  == {i \in mine("resolved") : reports[i].resolved_by # u}
    IN  /\ ledger[u]["report_dismissed_admin"] = Cardinality(mine("dismissed"))
        /\ ledger[u]["report_submitted_resolved"] <= Cardinality(helped)
        /\ ~users[u].is_banned => ledger[u]["report_submitted_resolved"] = Cardinality(helped)

=============================================================================
