----------------------------- MODULE ReportsProofs -----------------------------
(***************************************************************************)
(* Proofs about Reports, for any users, reports, requests and timers: what *)
(* is closed stays closed, the timers are respected, a notice tells of a   *)
(* closed report, and no confirmation is invented.                         *)
(*                                                                         *)
(* None of it is inductive alone: a session that has read a report writes  *)
(* to it later, when the report may have been closed by another.  What it  *)
(* may still rely on is SessionsAgree.                                     *)
(***************************************************************************)
EXTENDS Reports, FiniteSetTheorems, TLAPS

-----------------------------------------------------------------------------
(* The inductive invariant                                                 *)

SessionShape(t) ==
  \/ t = Closed
  \/ /\ t.op \in Ops /\ t.pc # "idle" /\ t.actor \in Users /\ t.report \in ReportIds
     /\ t.op = "submit" => t.pc = "commit" /\ t.locks = {} /\ t.row.confirmation_count = 0
     /\ t.op = "confirm" => t.pc \in {"read", "insert", "commit"} /\ t.locks = {}

\* The report that a session has read still exists and is the same report.
FoundReportStays(t) ==
  t.op \in Ops \ {"submit"} /\ t.pc # "read" =>
    LET row == reports[t.report] IN
    /\ row.status # "absent"
    /\ row.reporter = t.row.reporter
    /\ row.created_at = t.row.created_at
    /\ t.row.reporter \in Users

\* Whoever acts on a report may: others than the reporter confirm it, and
\* resolve it once the delay has passed; an admin dismisses it; nobody files it
\* ahead of time or as closed.
Entitled(t) ==
  /\ t.op = "submit" => t.row.created_at <= now /\ t.row.resolved_by = Nobody
  /\ t.op = "confirm" /\ t.pc # "read" => t.row.reporter # t.actor
  /\ t.op = "resolve" /\ t.pc # "read" /\ t.row.reporter # t.actor =>
       t.row.created_at + ResolveDelay <= now
  /\ t.op = "dismiss" => t.actor \in Admins

\* The copy of the counter is justified by confirmations in the table, and the
\* confirmation that the session has inserted is not one of them.
ConfirmationIsNew(t) ==
  t.op = "confirm" /\ t.pc # "read" =>
    /\ t.row.confirmation_count <= Cardinality(confirmers[t.report])
    /\ t.pc = "commit" => t.actor \notin confirmers[t.report]

\* No two sessions insert the same report, or the same confirmation.
Rivals(s, t) ==
  /\ s.op = t.op /\ s.report = t.report
  /\ \/ s.op = "submit"
     \/ s.op = "confirm" /\ s.pc = "commit" /\ t.pc = "commit" /\ s.actor = t.actor

SessionAgrees(t) ==
  /\ SessionShape(t)
  /\ FoundReportStays(t)
  /\ Entitled(t)
  /\ ConfirmationIsNew(t)
  /\ t.op = "submit" => reports[t.report].status = "absent"

SessionsAgree ==
  /\ \A r \in Requests : SessionAgrees(txn[r])
  /\ \A q, r \in Requests : Rivals(txn[q], txn[r]) => q = r

\* A report that exists has a reporter, and one that does not was not closed.
ReportersExist ==
  \A i \in ReportIds :
    IF reports[i].status = "absent" THEN reports[i].resolved_by = Nobody
    ELSE reports[i].reporter \in Users

\* The job holds only reports that have outlived their TTL.
JobAgrees ==
  \A i \in job.due : /\ reports[i].status # "absent"
                     /\ reports[i].created_at + ReportTTL < now

IInv ==
  /\ TypeOK
  /\ SessionsAgree
  /\ ReportersExist
  /\ JobAgrees
  /\ TimersRespected
  /\ NoticeMeansClosed
  /\ ConfirmationsNeverOverstated
-----------------------------------------------------------------------------
(* The statements of a session before its commit                           *)

\* A closed session is a session, and relies on nothing.
LEMMA ClosedFacts == Closed \in Session /\ SessionAgrees(Closed) /\ Closed.op = "none"
  <1>1. NewUserRow(0) \in UserRow
    BY DEF NewUserRow, UserRow, ShouldAutoBan, AutoBanThreshold
  <1>2. NoReport \in ReportRow
    BY DEF NoReport, ReportRow, Statuses
  <1>3. Closed \in Session
    BY <1>1, <1>2 DEF Closed, Session, Steps
  <1>4. Closed.op = "none"
    BY DEF Closed
  <1> QED
    BY <1>3, <1>4 DEF SessionAgrees, SessionShape, FoundReportStays, Entitled,
      ConfirmationIsNew, Ops

\* What the invariant says of an open session.
LEMMA OpenFacts ==
  ASSUME IInv, NEW r \in Requests, txn[r].pc # "idle"
  PROVE  /\ txn[r] \in Session
         /\ SessionAgrees(txn[r])
         /\ txn[r].op \in Ops /\ txn[r].actor \in Users /\ txn[r].report \in ReportIds
         /\ txn[r].op = "submit" => txn[r].pc = "commit" /\ txn[r].locks = {}
         /\ txn[r].op = "confirm" => txn[r].pc \in {"read", "insert", "commit"}
                                       /\ txn[r].locks = {}
         /\ reports[txn[r].report] \in ReportRow
  <1>1. txn[r] \in Session /\ SessionAgrees(txn[r]) /\ reports \in [ReportIds -> ReportRow]
    BY DEF IInv, TypeOK, SessionsAgree
  <1>2. txn[r] # Closed
    BY DEF Closed
  <1> QED
    BY <1>1, <1>2 DEF SessionAgrees, SessionShape

\* A statement that moves one session, to a state that agrees with the tables
\* and has no rival, keeps the invariant.
LEMMA SessionStep ==
  ASSUME IInv, NEW r \in Requests, NEW s \in Session, Become(r, s), SessionAgrees(s),
         \A q \in Requests \ {r} : ~Rivals(s, txn[q])
  PROVE  IInv'
  <1>1. /\ txn \in [Requests -> Session]
        /\ txn' = [txn EXCEPT ![r] = s]
        /\ UNCHANGED << reports, confirmers, users, ledger, notices, job, now >>
    BY DEF IInv, TypeOK, Become, tables
  <1>2. txn'[r] = s /\ \A q \in Requests \ {r} : txn'[q] = txn[q]
    BY <1>1
  <1>3. TypeOK'
    BY <1>1 DEF IInv, TypeOK
  <1>4. \A q \in Requests : SessionAgrees(txn[q])'
    <2> TAKE q \in Requests
    <2>1. SessionAgrees(txn'[q])
      BY <1>2 DEF IInv, SessionsAgree
    <2> QED
      BY <1>1, <2>1 DEF SessionAgrees, SessionShape, Closed, FoundReportStays, Entitled,
        ConfirmationIsNew
  <1>5. \A p, q \in Requests : Rivals(txn'[p], txn'[q]) => p = q
    <2>1. \A q \in Requests \ {r} : ~Rivals(txn[q], s)
      BY DEF Rivals
    <2> QED
      BY <1>2, <2>1 DEF IInv, SessionsAgree
  <1>6. SessionsAgree'
    BY <1>4, <1>5 DEF SessionsAgree, Rivals
  <1>7. (ReportersExist /\ JobAgrees /\ TimersRespected /\ NoticeMeansClosed
           /\ ConfirmationsNeverOverstated)'
    BY <1>1 DEF IInv, ReportersExist, JobAgrees, TimersRespected, NoticeMeansClosed,
      ConfirmationsNeverOverstated
  <1> QED
    BY <1>3, <1>6, <1>7 DEF IInv

LEMMA RollbackStep ==
  ASSUME IInv, NEW r \in Requests, Rollback(r)
  PROVE  IInv'
  BY ClosedFacts, SessionStep DEF Rollback, Rivals

\* A session that is opened to work on a report has read nothing yet.
LEMMA OpenStep ==
  ASSUME IInv, NEW r \in Requests, NEW op \in Ops \ {"submit"}, NEW u \in Users,
         NEW i \in ReportIds, Open(r, op, "read", u, i), op = "dismiss" => u \in Admins
  PROVE  IInv'
  <1> DEFINE s == [Closed EXCEPT !.op = op, !.pc = "read", !.actor = u,
                                 !.report = i, !.who = users[u]]
  <1>1. users[u] \in UserRow
    BY DEF IInv, TypeOK
  <1>2. /\ s \in Session /\ s.op = op /\ s.pc = "read" /\ s.actor = u /\ s.report = i
        /\ s.locks = {}
    <2>1. Closed.locks = {}
      BY DEF Closed
    <2> QED
      BY <1>1, <2>1, ClosedFacts DEF Session, Steps
  <1>3. Become(r, s)
    BY DEF Open
  <1> HIDE DEF s
  <1>4. SessionAgrees(s)
    BY <1>2 DEF SessionAgrees, SessionShape, FoundReportStays, Entitled, ConfirmationIsNew
  <1> QED
    BY <1>2, <1>3, <1>4, SessionStep DEF Rivals

\* A submission has an id that nobody else uses.
LEMMA SubmitStep ==
  ASSUME IInv, NEW r \in Requests, NEW u \in Users, NEW i \in ReportIds, SubmitBegin(r, u, i)
  PROVE  IInv'
  <1> DEFINE row == [NoReport EXCEPT !.created_at = now]
             s == [Closed EXCEPT !.op = "submit", !.pc = "commit", !.actor = u,
                                 !.report = i, !.row = row]
  <1>1. now \in Nat
    BY DEF IInv, TypeOK
  <1>2. /\ row \in ReportRow /\ row.confirmation_count = 0
        /\ row.created_at = now /\ row.resolved_by = Nobody
    BY <1>1 DEF NoReport, ReportRow, Statuses
  <1>3. Become(r, s)
    BY DEF SubmitBegin
  <1> HIDE DEF row
  <1>4. /\ s \in Session /\ s.op = "submit" /\ s.pc = "commit" /\ s.actor = u
        /\ s.report = i /\ s.locks = {} /\ s.row = row
    <2>1. Closed.locks = {}
      BY DEF Closed
    <2> QED
      BY <1>2, <2>1, ClosedFacts DEF Session, Steps, Ops
  <1> HIDE DEF s
  <1>5. SessionAgrees(s)
    BY <1>1, <1>2, <1>4 DEF SessionAgrees, SessionShape, FoundReportStays, Entitled,
      ConfirmationIsNew, Ops, SubmitBegin
  <1>6. \A q \in Requests \ {r} : ~Rivals(s, txn[q])
    BY <1>4 DEF Rivals, SubmitBegin
  <1> QED
    BY <1>3, <1>4, <1>5, <1>6, SessionStep

LEMMA BeginStep ==
  ASSUME IInv, NEW r \in Requests, Begin(r)
  PROVE  IInv'
  <1>1. PICK u \in Users, i \in ReportIds :
          \/ SubmitBegin(r, u, i) \/ ConfirmBegin(r, u, i)
          \/ ResolveBegin(r, u, i) \/ DismissBegin(r, u, i)
    BY DEF Begin
  <1>2. CASE SubmitBegin(r, u, i)
    BY <1>2, SubmitStep
  <1>3. CASE ConfirmBegin(r, u, i)
    BY <1>3, OpenStep DEF ConfirmBegin, Ops
  <1>4. CASE ResolveBegin(r, u, i)
    BY <1>4, OpenStep DEF ResolveBegin, Ops
  <1>5. CASE DismissBegin(r, u, i)
    BY <1>5, OpenStep DEF DismissBegin, Ops
  <1> QED
    BY <1>1, <1>2, <1>3, <1>4, <1>5

\* Reading an active report, and for resolve one that may be resolved by now.
LEMMA ReadStep ==
  ASSUME IInv, NEW r \in Requests, NEW next \in {"insert", "flush", "commit"},
         txn[r].op # "submit", txn[r].pc = "read", ReadReport(r, next),
         reports[txn[r].report].status = "active",
         txn[r].op = "confirm" =>
           next = "insert" /\ reports[txn[r].report].reporter # txn[r].actor,
         txn[r].op = "resolve" /\ reports[txn[r].report].reporter # txn[r].actor =>
           reports[txn[r].report].created_at + ResolveDelay <= now
  PROVE  IInv'
  <1> DEFINE t == txn[r]
             row == reports[t.report]
             s == [t EXCEPT !.pc = next, !.row = row]
  <1>1. /\ t \in Session /\ t.op \in Ops \ {"submit"} /\ t.actor \in Users
        /\ t.report \in ReportIds /\ row \in ReportRow
        /\ t.op = "confirm" => t.locks = {}
    BY OpenFacts
  <1>2. row.reporter \in Users /\ row.confirmation_count <= Cardinality(confirmers[t.report])
    BY <1>1 DEF IInv, ReportersExist, ConfirmationsNeverOverstated
  <1>3. /\ s \in Session /\ s.op = t.op /\ s.pc = next /\ s.actor = t.actor
        /\ s.report = t.report /\ s.row = row /\ s.locks = t.locks
    BY <1>1 DEF Session, Steps
  <1>4. Become(r, s)
    BY DEF ReadReport
  <1>5. /\ row.status = "active"
        /\ t.op = "confirm" => next = "insert" /\ row.reporter # t.actor
        /\ t.op = "resolve" /\ row.reporter # t.actor => row.created_at + ResolveDelay <= now
        /\ next # "read" /\ next # "idle"
    OBVIOUS
  <1>8. t.op = "dismiss" => t.actor \in Admins
    BY OpenFacts DEF SessionAgrees, Entitled
  <1> HIDE DEF s, t
  <1>6. SessionAgrees(s)
    <2>1. SessionShape(s)
      BY <1>1, <1>3, <1>5 DEF SessionShape
    <2>2. FoundReportStays(s) /\ Entitled(s)
      BY <1>1, <1>2, <1>3, <1>5, <1>8 DEF FoundReportStays, Entitled
    <2>3. ConfirmationIsNew(s)
      BY <1>2, <1>3, <1>5 DEF ConfirmationIsNew
    <2> QED
      BY <1>1, <1>3, <2>1, <2>2, <2>3 DEF SessionAgrees
  <1>7. \A q \in Requests \ {r} : ~Rivals(s, txn[q])
    BY <1>1, <1>3, <1>5 DEF Rivals
  <1> QED
    BY <1>3, <1>4, <1>6, <1>7, SessionStep
\* After the read a session only moves on, takes a users row and locks rows.
LEMMA AdvanceStep ==
  ASSUME IInv, NEW r \in Requests, txn[r].op \in {"resolve", "dismiss"}, txn[r].pc # "read",
         txn[r].pc # "idle", NEW pc \in {"credit", "commit"}, NEW who \in UserRow,
         NEW locks \in SUBSET {"report", "user"},
         Become(r, [txn[r] EXCEPT !.pc = pc, !.who = who, !.locks = locks])
  PROVE  IInv'
  <1> DEFINE t == txn[r]
             s == [t EXCEPT !.pc = pc, !.who = who, !.locks = locks]
  <1>1. t \in Session /\ SessionAgrees(t) /\ t.actor \in Users /\ t.report \in ReportIds
    BY OpenFacts
  <1>2. /\ s \in Session /\ s.op = t.op /\ s.pc = pc /\ s.actor = t.actor
        /\ s.report = t.report /\ s.row = t.row /\ s.locks = locks
    BY <1>1 DEF Session, Steps
  <1>3. Become(r, s)
    OBVIOUS
  <1>4. t.op \in {"resolve", "dismiss"} /\ t.pc # "read"
    OBVIOUS
  <1> HIDE DEF s, t
  <1>5. SessionAgrees(s)
    BY <1>1, <1>2, <1>4 DEF SessionAgrees, SessionShape, FoundReportStays, Entitled,
      ConfirmationIsNew, Ops
  <1>6. \A q \in Requests \ {r} : ~Rivals(s, txn[q])
    BY <1>2, <1>4 DEF Rivals
  <1> QED
    BY <1>2, <1>3, <1>5, <1>6, SessionStep

LEMMA FlushStep ==
  ASSUME IInv, NEW r \in Requests, Flush(r)
  PROVE  IInv'
  <1> DEFINE t == txn[r]
             reporter == ReporterRow(t)
             reportLock == {"report"}
  <1>1. t.op \in {"resolve", "dismiss"} /\ t.pc = "flush"
    BY DEF Flush
  <1>2. t \in Session /\ t.row.reporter \in Users
    BY <1>1, OpenFacts DEF SessionAgrees, FoundReportStays
  <1>3. reporter \in UserRow
    BY <1>2 DEF ReporterRow, Session, IInv, TypeOK
  <1>4. PICK pc \in {"credit", "commit"} :
          Become(r, [t EXCEPT !.locks = reportLock, !.who = reporter, !.pc = pc])
    BY DEF Flush
  <1>5. reportLock \in SUBSET {"report", "user"}
    OBVIOUS
  <1> HIDE DEF reporter, reportLock
  <1>6. [t EXCEPT !.locks = reportLock, !.who = reporter, !.pc = pc]
          = [t EXCEPT !.pc = pc, !.who = reporter, !.locks = reportLock]
    BY <1>2 DEF Session
  <1>7. Become(r, [t EXCEPT !.pc = pc, !.who = reporter, !.locks = reportLock])
    BY <1>4, <1>6
  <1> QED
    BY <1>1, <1>3, <1>5, <1>7, AdvanceStep

LEMMA LockUserStep ==
  ASSUME IInv, NEW r \in Requests, LockUser(r)
  PROVE  IInv'
  <1> DEFINE t == txn[r]
             both == {"report", "user"}
  <1>1. t.pc = "credit"
    BY DEF LockUser
  <1>2. t \in Session /\ t.op \in {"resolve", "dismiss"} /\ t.who \in UserRow
    BY <1>1, OpenFacts DEF Ops, Session
  <1>3. Become(r, [t EXCEPT !.pc = "commit", !.locks = both])
    BY DEF LockUser
  <1>4. both \in SUBSET {"report", "user"}
    OBVIOUS
  <1> HIDE DEF both
  <1>5. [t EXCEPT !.pc = "commit", !.locks = both]
          = [t EXCEPT !.pc = "commit", !.who = t.who, !.locks = both]
    BY <1>2 DEF Session
  <1>6. Become(r, [t EXCEPT !.pc = "commit", !.who = t.who, !.locks = both])
    BY <1>3, <1>5
  <1> QED
    BY <1>1, <1>2, <1>4, <1>6, AdvanceStep

\* An INSERT that succeeds inserts a key that no table and no session has.
LEMMA ConfirmInsertStep ==
  ASSUME IInv, NEW r \in Requests, ConfirmInsert(r)
  PROVE  IInv'
  <1> DEFINE t == txn[r]
             s == [t EXCEPT !.pc = "commit"]
  <1>1. t.op = "confirm" /\ t.pc = "insert"
    BY DEF ConfirmInsert, At
  <1>2. /\ t \in Session /\ SessionAgrees(t) /\ t.actor \in Users
        /\ t.report \in ReportIds /\ t.locks = {}
    BY <1>1, OpenFacts
  <1>3. /\ s \in Session /\ s.op = t.op /\ s.pc = "commit" /\ s.actor = t.actor
        /\ s.report = t.report /\ s.row = t.row /\ s.locks = t.locks
    BY <1>2 DEF Session, Steps
  <1>4. CASE t.actor \in confirmers[t.report]
    BY <1>4, RollbackStep DEF ConfirmInsert
  <1>5. CASE t.actor \notin confirmers[t.report]
    <2>1. Become(r, s)
      BY <1>5 DEF ConfirmInsert, Goto
    <2>2. \A q \in Requests : ~(/\ txn[q].op = "confirm" /\ txn[q].pc = "commit"
                                /\ txn[q].report = t.report /\ txn[q].actor = t.actor)
      BY DEF ConfirmInsert, At
    <2> HIDE DEF s, t
    <2>3. SessionAgrees(s)
      BY <1>1, <1>2, <1>3, <1>5 DEF SessionAgrees, SessionShape, FoundReportStays,
        Entitled, ConfirmationIsNew, Ops
    <2>4. \A q \in Requests \ {r} : ~Rivals(s, txn[q])
      BY <1>1, <1>3, <2>2 DEF Rivals
    <2> QED
      BY <1>3, <2>1, <2>3, <2>4, SessionStep
  <1> QED
    BY <1>4, <1>5

\* Every statement before the commit keeps the invariant.
LEMMA StatementStep ==
  ASSUME IInv, NEW r \in Requests, Step(r), ~Commit(r)
  PROVE  IInv'
  <1> DEFINE t == txn[r]
             row == reports[t.report]
  <1>1. CASE ConfirmRead(r)
    <2>1. t.op = "confirm" /\ t.pc = "read"
      BY <1>1 DEF ConfirmRead, At
    <2>2. \/ Rollback(r)
          \/ row.status = "active" /\ row.reporter # t.actor /\ ReadReport(r, "insert")
      BY <1>1 DEF ConfirmRead
    <2> QED
      BY <2>1, <2>2, RollbackStep, ReadStep
  <1>2. CASE ResolveRead(r)
    <2>1. t.op = "resolve" /\ t.pc = "read"
      BY <1>2 DEF ResolveRead, At
    <2>2. row.created_at \in Nat /\ now \in Nat
      BY <2>1, OpenFacts DEF ReportRow, IInv, TypeOK
    <2>3. \/ Rollback(r)
          \/ /\ row.status = "active"
             /\ \/ row.reporter = t.actor /\ ReadReport(r, "commit")
                \/ now - row.created_at >= ResolveDelay /\ ReadReport(r, "flush")
      BY <1>2 DEF ResolveRead
    <2>4. now - row.created_at >= ResolveDelay => row.created_at + ResolveDelay <= now
      BY <2>2, ReportsAssumption
    <2> QED
      BY <2>1, <2>3, <2>4, RollbackStep, ReadStep
  <1>3. CASE DismissRead(r)
    <2>1. t.op = "dismiss" /\ t.pc = "read"
      BY <1>3 DEF DismissRead, At
    <2>2. Rollback(r) \/ (row.status = "active" /\ ReadReport(r, "flush"))
      BY <1>3 DEF DismissRead
    <2> QED
      BY <2>1, <2>2, RollbackStep, ReadStep
  <1> QED
    BY <1>1, <1>2, <1>3, ConfirmInsertStep, FlushStep, LockUserStep DEF Step
-----------------------------------------------------------------------------
(* The commit of a session                                                 *)

\* What a commit makes of the row: it creates it, or leaves the reporter and
\* the time of creation alone and does not reopen it.
Rewrites(t, row, new) ==
  /\ new \in ReportRow
  /\ t.op = "submit" =>
       /\ row.status = "absent" /\ new.status = "active"
       /\ new.reporter = t.actor /\ new.confirmation_count = 0
  /\ t.op # "submit" =>
       /\ row.status # "absent" /\ new.status # "absent"
       /\ new.reporter = row.reporter /\ new.created_at = row.created_at
  /\ t.op = "confirm" =>
       /\ new.status = row.status /\ new.resolved_by = row.resolved_by
       /\ new.confirmation_count = t.row.confirmation_count + 1
  /\ t.op \in {"resolve", "dismiss"} =>
       /\ new.status = (IF t.op = "resolve" THEN "resolved" ELSE "dismissed")
       /\ new.resolved_by = t.actor
       /\ new.confirmation_count = row.confirmation_count

LEMMA RewriteFacts ==
  ASSUME NEW t \in Session, NEW row \in ReportRow, t.op \in Ops, t.actor \in Users,
         t.op = "submit" => row.status = "absent" /\ t.row.confirmation_count = 0,
         t.op # "submit" => row.status # "absent"
  PROVE  Rewrites(t, row, ReportAfter(t, row))
  <1> DEFINE new == ReportAfter(t, row)
  <1>1. t.row \in ReportRow
    BY DEF Session
  <1>2. CASE t.op = "submit"
    <2>1. new = [t.row EXCEPT !.status = "active", !.reporter = t.actor]
      BY <1>2 DEF ReportAfter
    <2> HIDE DEF new
    <2>2. /\ new \in ReportRow /\ new.status = "active" /\ new.reporter = t.actor
          /\ new.confirmation_count = t.row.confirmation_count
      BY <1>1, <2>1 DEF ReportRow, Statuses
    <2> QED
      BY <1>2, <2>2 DEF Rewrites, new
  <1>3. CASE t.op = "confirm"
    <2>1. new = [row EXCEPT !.confirmation_count = t.row.confirmation_count + 1]
      BY <1>3 DEF ReportAfter
    <2>2. t.row.confirmation_count + 1 \in Nat
      BY <1>1 DEF ReportRow
    <2> HIDE DEF new
    <2>3. /\ new \in ReportRow /\ new.status = row.status /\ new.reporter = row.reporter
          /\ new.resolved_by = row.resolved_by /\ new.created_at = row.created_at
          /\ new.confirmation_count = t.row.confirmation_count + 1
      BY <2>1, <2>2 DEF ReportRow
    <2> QED
      BY <1>3, <2>3 DEF Rewrites, new
  <1>4. CASE t.op \in {"resolve", "dismiss"}
    <2>1. new = [row EXCEPT !.status = IF t.op = "resolve" THEN "resolved" ELSE "dismissed",
                            !.resolved_by = t.actor]
      BY <1>4 DEF ReportAfter
    <2> HIDE DEF new
    <2>2. /\ new \in ReportRow /\ new.reporter = row.reporter
          /\ new.status = (IF t.op = "resolve" THEN "resolved" ELSE "dismissed")
          /\ new.resolved_by = t.actor /\ new.created_at = row.created_at
          /\ new.confirmation_count = row.confirmation_count
      BY <2>1 DEF ReportRow, Statuses
    <2> QED
      BY <1>4, <2>2 DEF Rewrites, new
  <1> QED
    BY <1>2, <1>3, <1>4 DEF Ops

LEMMA CommitFacts ==
  ASSUME IInv, NEW r \in Requests, Commit(r)
  PROVE  LET t == txn[r] IN
         /\ t \in Session /\ SessionAgrees(t) /\ t.op \in Ops /\ t.actor \in Users
         /\ t.report \in ReportIds /\ t.pc = "commit"
         /\ reports[t.report] \in ReportRow
         /\ reports' = [reports EXCEPT ![t.report] = reports'[t.report]]
         /\ Rewrites(t, reports[t.report], reports'[t.report])
  <1> DEFINE t == txn[r]
  <1>1. t.pc = "commit"
    BY DEF Commit
  <1>2. /\ t \in Session /\ SessionAgrees(t) /\ t.op \in Ops /\ t.actor \in Users
        /\ t.report \in ReportIds /\ reports[t.report] \in ReportRow
    BY <1>1, OpenFacts
  <1>3. t.op = "submit" => reports[t.report].status = "absent" /\ t.row.confirmation_count = 0
    BY <1>1, <1>2 DEF SessionAgrees, SessionShape, Closed
  <1>4. t.op # "submit" => reports[t.report].status # "absent"
    BY <1>1, <1>2 DEF SessionAgrees, FoundReportStays
  <1>5. Rewrites(t, reports[t.report], ReportAfter(t, reports[t.report]))
    BY <1>2, <1>3, <1>4, RewriteFacts
  <1>6. reports' = [reports EXCEPT ![t.report] = ReportAfter(t, reports[t.report])]
    BY DEF Commit
  <1>7. reports'[t.report] = ReportAfter(t, reports[t.report])
    BY <1>2, <1>6 DEF IInv, TypeOK
  <1> QED
    BY <1>1, <1>2, <1>5, <1>6, <1>7

\* The tables stay well typed, whatever is charged or credited.
LEMMA CommitType ==
  ASSUME IInv, NEW r \in Requests, Commit(r)
  PROVE  TypeOK'
  <1> DEFINE t == txn[r]
  <1>0. TypeOK
    BY DEF IInv
  <1>1. t.pc = "commit"
    BY DEF Commit
  <1>2. t \in Session /\ t.actor \in Users /\ t.report \in ReportIds
    BY <1>1, OpenFacts
  <1>3. ClosingEvent(t) \in EventTypes
    BY DEF ClosingEvent, EventTypes
  <1>4. reports' \in [ReportIds -> ReportRow]
    BY <1>0, <1>2, CommitFacts DEF Rewrites, TypeOK
  <1>5. confirmers' \in [ReportIds -> SUBSET Users]
    BY <1>0, <1>2 DEF Commit, TypeOK
  <1>6. notices' \in [ReportIds -> [resolved : Nat, expired : Nat]]
    <2> DEFINE n == IF t.op = "resolve" /\ t.row.reporter # t.actor
                    THEN notices[t.report].resolved + 1 ELSE notices[t.report].resolved
    <2>1. n \in Nat
      BY <1>0, <1>2 DEF TypeOK
    <2>2. notices' = [notices EXCEPT ![t.report] = [notices[t.report] EXCEPT !.resolved = n]]
      BY DEF Commit
    <2>3. notices \in [ReportIds -> [resolved : Nat, expired : Nat]]
      BY <1>0 DEF TypeOK
    <2>4. notices[t.report] \in [resolved : Nat, expired : Nat]
      BY <1>2, <2>3
    <2> HIDE DEF n
    <2>5. [notices[t.report] EXCEPT !.resolved = n] \in [resolved : Nat, expired : Nat]
      BY <2>1, <2>4
    <2> QED
      BY <2>2, <2>3, <2>5
  <1>7. \A row \in UserRow : UserAfter(t, row) \in UserRow
    <2> TAKE row \in UserRow
    <2>1. EventDeltas[ClosingEvent(t)] \in Int
      BY DEF ClosingEvent, EventDeltas
    <2>2. t.who.reputation \in Int /\ row.is_banned \in BOOLEAN
      BY <1>2 DEF Session, UserRow
    <2> DEFINE rep == t.who.reputation + EventDeltas[ClosingEvent(t)]
               ban == row.is_banned \/ (t.who.is_banned \/ ShouldAutoBan(rep))
    <2>3. rep \in Int /\ ban \in BOOLEAN
      BY <2>1, <2>2
    <2>4. UserAfter(t, row) = [reputation |-> rep, is_banned |-> ban]
      BY DEF UserAfter, AppendEvent
    <2> HIDE DEF rep, ban
    <2> QED
      BY <2>3, <2>4 DEF UserRow
  <1>8. users' \in [Users -> UserRow]
    BY <1>0, <1>7 DEF Commit, TypeOK
  <1>9. ledger' \in [Users -> Ledger]
    <2>1. \A book \in Ledger : Record(book, ClosingEvent(t)) \in Ledger
      BY <1>3 DEF Record, Ledger
    <2> QED
      BY <1>0, <2>1 DEF Commit, TypeOK
  <1>10. txn' \in [Requests -> Session]
    BY <1>0, ClosedFacts DEF Commit, TypeOK
  <1> QED
    BY <1>0, <1>4, <1>5, <1>6, <1>8, <1>9, <1>10 DEF Commit, TypeOK

\* A set of confirmers is finite, and counts one more for a new confirmer.
LEMMA ConfirmersFinite ==
  ASSUME NEW S \in SUBSET Users, NEW u \in Users
  PROVE  /\ Cardinality(S) \in Nat
         /\ Cardinality(S \cup {u}) = Cardinality(S) + (IF u \in S THEN 0 ELSE 1)
  <1>1. IsFiniteSet(S)
    BY ReportsAssumption, FS_Subset
  <1> QED
    BY <1>1, FS_CardinalityType, FS_AddElement\* What a commit makes of the confirmations: at most its own is added.
LEMMA ConfirmersFacts ==
  ASSUME IInv, NEW r \in Requests, Commit(r), NEW i \in ReportIds
  PROVE  /\ Cardinality(confirmers[i]) \in Nat /\ Cardinality(confirmers'[i]) \in Nat
         /\ Cardinality(confirmers[i]) <= Cardinality(confirmers'[i])
         /\ confirmers'[i] = (IF i = txn[r].report /\ txn[r].op = "confirm"
                              THEN confirmers[i] \cup {txn[r].actor} ELSE confirmers[i])
  <1>1. confirmers \in [ReportIds -> SUBSET Users] /\ txn[r].actor \in Users
    BY CommitFacts DEF IInv, TypeOK
  <1>2. confirmers'[i] = (IF i = txn[r].report /\ txn[r].op = "confirm"
                          THEN confirmers[i] \cup {txn[r].actor} ELSE confirmers[i])
    BY <1>1 DEF Commit
  <1>3. confirmers[i] \in SUBSET Users
    BY <1>1
  <1>4. /\ Cardinality(confirmers[i]) \in Nat
        /\ Cardinality(confirmers[i] \cup {txn[r].actor}) \in
             {Cardinality(confirmers[i]), Cardinality(confirmers[i]) + 1}
    <2> DEFINE S == confirmers[i]
               u == txn[r].actor
    <2>1. S \in SUBSET Users /\ u \in Users
      BY <1>1, <1>3
    <2> HIDE DEF S, u
    <2>2. /\ Cardinality(S) \in Nat
          /\ Cardinality(S \cup {u}) = Cardinality(S) + (IF u \in S THEN 0 ELSE 1)
      BY <2>1, ConfirmersFinite
    <2>3. Cardinality(S \cup {u}) \in {Cardinality(S), Cardinality(S) + 1}
      BY <2>2
    <2> QED
      BY <2>2, <2>3 DEF S, u
  <1> QED
    BY <1>2, <1>4

\* The other sessions still agree with the tables after a commit.
LEMMA CommitSessions ==
  ASSUME IInv, NEW r \in Requests, Commit(r)
  PROVE  SessionsAgree'
  <1> DEFINE t == txn[r]
  <1>1. /\ t \in Session /\ t.op \in Ops /\ t.report \in ReportIds /\ t.pc = "commit"
        /\ reports' = [reports EXCEPT ![t.report] = reports'[t.report]]
        /\ Rewrites(t, reports[t.report], reports'[t.report])
    BY CommitFacts
  <1>2. reports \in [ReportIds -> ReportRow] /\ txn \in [Requests -> Session]
    BY DEF IInv, TypeOK
  <1>3. txn' = [txn EXCEPT ![r] = Closed] /\ now' = now
    BY DEF Commit
  <1>4. \A i \in ReportIds \ {t.report} : reports'[i] = reports[i]
    BY <1>1, <1>2
  <1>5. ASSUME NEW q \in Requests \ {r} PROVE SessionAgrees(txn[q])'
    <2> DEFINE s == txn[q]
    <2>1. txn'[q] = s /\ s \in Session /\ SessionAgrees(s) /\ ~Rivals(s, t)
      BY <1>2, <1>3, <1>5 DEF IInv, SessionsAgree
    <2>2. CASE s = Closed
      BY <2>1, <2>2, ClosedFacts DEF SessionAgrees, SessionShape, FoundReportStays,
        Entitled, ConfirmationIsNew, Ops, Closed
    <2>3. CASE s # Closed
      <3>1. s.report \in ReportIds /\ s.op \in Ops /\ s.actor \in Users /\ SessionShape(s)
        BY <2>1, <2>3 DEF SessionAgrees, SessionShape
      <3>2. SessionShape(s)'
        BY <2>1, <3>1 DEF SessionShape, Closed
      <3>3. FoundReportStays(s)'
        BY <1>1, <1>4, <2>1, <3>1 DEF SessionAgrees, FoundReportStays, Rewrites
      <3>4. Entitled(s)'
        BY <1>3, <2>1 DEF SessionAgrees, Entitled
      <3>5. ConfirmationIsNew(s)'
        <4>1. /\ Cardinality(confirmers[s.report]) \in Nat
              /\ Cardinality(confirmers'[s.report]) \in Nat
              /\ Cardinality(confirmers[s.report]) <= Cardinality(confirmers'[s.report])
              /\ confirmers'[s.report] = (IF s.report = t.report /\ t.op = "confirm"
                              THEN confirmers[s.report] \cup {t.actor} ELSE confirmers[s.report])
          BY <3>1, ConfirmersFacts
        <4>2. s.row.confirmation_count \in Nat
          BY <2>1 DEF Session, ReportRow
        <4>3. ConfirmationIsNew(s)
          BY <2>1 DEF SessionAgrees
        <4>4. ASSUME s.op = "confirm", s.pc = "commit" PROVE s.actor \notin confirmers'[s.report]
          BY <1>1, <2>1, <4>1, <4>3, <4>4 DEF ConfirmationIsNew, Rivals
        <4>5. ASSUME s.op = "confirm", s.pc # "read"
              PROVE  s.row.confirmation_count <= Cardinality(confirmers'[s.report])
          BY <4>1, <4>2, <4>3, <4>5 DEF ConfirmationIsNew
        <4> QED
          BY <2>1, <4>4, <4>5 DEF ConfirmationIsNew
      <3>6. s.op = "submit" => reports'[s.report].status = "absent"
        BY <1>1, <1>4, <2>1, <3>1 DEF SessionAgrees, Rivals, Rewrites
      <3> QED
        BY <2>1, <3>2, <3>3, <3>4, <3>5, <3>6 DEF SessionAgrees
    <2> QED
      BY <2>2, <2>3
  <1>6. SessionAgrees(txn[r])'
    <2>1. txn'[r] = Closed
      BY <1>2, <1>3
    <2> QED
      BY <2>1, ClosedFacts DEF SessionAgrees, SessionShape, FoundReportStays,
        Entitled, ConfirmationIsNew, Ops, Closed
  <1>7. ASSUME NEW p \in Requests, NEW q \in Requests, Rivals(txn'[p], txn'[q]) PROVE p = q
    <2>1. \A s : ~Rivals(s, Closed) /\ ~Rivals(Closed, s)
      BY ClosedFacts DEF Rivals
    <2>2. p # r /\ q # r
      BY <1>2, <1>3, <1>7, <2>1
    <2> QED
      BY <1>2, <1>3, <1>7, <2>2 DEF IInv, SessionsAgree
  <1> QED
    BY <1>5, <1>6, <1>7 DEF SessionsAgree, Rivals

\* A commit keeps the promises about the reports.
LEMMA CommitReports ==
  ASSUME IInv, NEW r \in Requests, Commit(r)
  PROVE  /\ ReportersExist' /\ JobAgrees' /\ TimersRespected' /\ NoticeMeansClosed'
         /\ ConfirmationsNeverOverstated'
         /\ \A i \in ReportIds :
              reports[i].status \in ClosedStatuses => reports'[i].status \in ClosedStatuses
  <1> DEFINE t == txn[r]
             row == reports[t.report]
             new == reports'[t.report]
  <1>1. /\ t \in Session /\ SessionAgrees(t) /\ t.op \in Ops /\ t.actor \in Users
        /\ t.report \in ReportIds /\ t.pc = "commit" /\ row \in ReportRow
        /\ reports' = [reports EXCEPT ![t.report] = new]
        /\ Rewrites(t, row, new)
    BY CommitFacts
  <1>2. TypeOK
    BY DEF IInv
  <1>3. \A i \in ReportIds \ {t.report} : reports'[i] = reports[i]
    BY <1>1, <1>2 DEF TypeOK
  <1>4. now' = now /\ job' = job
    BY DEF Commit
  <1>5. ReportersExist'
    BY <1>1, <1>3 DEF IInv, ReportersExist, Rewrites
  <1>6. JobAgrees'
    BY <1>1, <1>2, <1>3, <1>4 DEF IInv, JobAgrees, Rewrites, TypeOK
  <1>7. TimersRespected'
    <2>1. /\ new.status = "expired" => new.created_at + ReportTTL < now
          /\ new.status = "resolved" /\ new.resolved_by # new.reporter
               => new.created_at + ResolveDelay <= now
      <3>1. CASE t.op = "submit"
        BY <1>1, <3>1 DEF Rewrites
      <3>2. CASE t.op = "confirm"
        BY <1>1, <3>2 DEF Rewrites, IInv, TimersRespected
      <3>3. CASE t.op \in {"resolve", "dismiss"}
        BY <1>1, <3>3 DEF Rewrites, SessionAgrees, FoundReportStays, Entitled
      <3> QED
        BY <1>1, <3>1, <3>2, <3>3 DEF Ops
    <2> QED
      BY <1>3, <1>4, <2>1 DEF IInv, TimersRespected
  <1>8. \A i \in ReportIds :
          reports[i].status \in ClosedStatuses => reports'[i].status \in ClosedStatuses
    BY <1>1, <1>3 DEF Rewrites, ClosedStatuses, Ops
  <1>9. NoticeMeansClosed'
    <2> SUFFICES ASSUME NEW i \in ReportIds, notices'[i].resolved + notices'[i].expired > 0
                 PROVE  reports'[i].status \in ClosedStatuses
      BY DEF NoticeMeansClosed
    <2>1. CASE i = t.report /\ t.op = "resolve"
      BY <1>1, <2>1 DEF Rewrites, ClosedStatuses
    <2>2. CASE ~(i = t.report /\ t.op = "resolve")
      <3>1. notices'[i] = notices[i]
        BY <1>2, <2>2 DEF Commit, TypeOK
      <3> QED
        BY <1>8, <3>1 DEF IInv, NoticeMeansClosed
    <2> QED
      BY <2>1, <2>2
  <1>10. ConfirmationsNeverOverstated'
    <2> SUFFICES ASSUME NEW i \in ReportIds
                 PROVE  reports'[i].confirmation_count <= Cardinality(confirmers'[i])
      BY DEF ConfirmationsNeverOverstated
    <2>1. /\ Cardinality(confirmers[i]) \in Nat /\ Cardinality(confirmers'[i]) \in Nat
          /\ Cardinality(confirmers[i]) <= Cardinality(confirmers'[i])
      BY ConfirmersFacts
    <2>2. /\ reports[i].confirmation_count \in Nat
          /\ reports[i].confirmation_count <= Cardinality(confirmers[i])
      BY <1>2 DEF TypeOK, ReportRow, IInv, ConfirmationsNeverOverstated
    <2>3. CASE i # t.report \/ t.op \in {"resolve", "dismiss"}
      BY <1>1, <1>3, <2>1, <2>2, <2>3 DEF Rewrites
    <2>4. CASE i = t.report /\ t.op = "submit"
      BY <1>1, <2>1, <2>4 DEF Rewrites
    <2>5. CASE i = t.report /\ t.op = "confirm"
      <3>1. /\ t.row.confirmation_count <= Cardinality(confirmers[i])
            /\ t.actor \notin confirmers[i] /\ t.row.confirmation_count \in Nat
        BY <1>1, <2>5 DEF SessionAgrees, ConfirmationIsNew, Session, ReportRow
      <3>2. confirmers'[i] = confirmers[i] \cup {t.actor}
        BY <2>5, ConfirmersFacts
      <3>3. Cardinality(confirmers'[i]) = Cardinality(confirmers[i]) + 1
        <4>1. confirmers[i] \in SUBSET Users /\ t.actor \in Users
          BY <1>1, <1>2 DEF TypeOK
        <4>2. Cardinality(confirmers[i] \cup {t.actor}) = Cardinality(confirmers[i]) + 1
          BY <3>1, <4>1, ConfirmersFinite
        <4> QED
          BY <3>2, <4>2
      <3> QED
        BY <1>1, <2>1, <2>5, <3>1, <3>3 DEF Rewrites
    <2> QED
      BY <1>1, <2>3, <2>4, <2>5 DEF Ops
  <1> QED
    BY <1>5, <1>6, <1>7, <1>8, <1>9, <1>10

LEMMA CommitStep ==
  ASSUME IInv, NEW r \in Requests, Commit(r)
  PROVE  IInv'
  BY CommitType, CommitSessions, CommitReports DEF IInv
-----------------------------------------------------------------------------
(* The job and the clock                                                   *)

\* What has fallen due stays due: only the clock moves.
LEMMA TickStep ==
  ASSUME IInv, Tick
  PROVE  IInv'
  <1>1. now' = now + 1 /\ UNCHANGED << reports, confirmers, users, ledger, notices, txn, job >>
    BY DEF Tick, tables
  <1>2. TypeOK /\ now \in Nat
    BY DEF IInv, TypeOK
  <1>3. TypeOK'
    BY <1>1, <1>2 DEF TypeOK
  <1>4. SessionsAgree'
    <2>1. \A r \in Requests : SessionAgrees(txn[r])'
      <3> TAKE r \in Requests
      <3>1. SessionAgrees(txn[r])
        BY DEF IInv, SessionsAgree
      <3>2. txn[r].row.created_at \in Nat
        BY <1>2 DEF TypeOK, Session, ReportRow
      <3>3. Entitled(txn[r])'
        BY <1>1, <1>2, <3>1, <3>2, ReportsAssumption DEF SessionAgrees, Entitled
      <3> QED
        BY <1>1, <3>1, <3>3 DEF SessionAgrees, SessionShape, Closed, FoundReportStays,
          ConfirmationIsNew
    <2> QED
      BY <1>1, <2>1 DEF IInv, SessionsAgree, Rivals
  <1>5. JobAgrees'
    <2> SUFFICES ASSUME NEW i \in job.due
                 PROVE  reports[i].status # "absent" /\ reports[i].created_at + ReportTTL < now + 1
      BY <1>1 DEF JobAgrees
    <2>1. reports[i].created_at \in Nat
      BY <1>2 DEF TypeOK, ReportRow
    <2> QED
      BY <1>2, <2>1, ReportsAssumption DEF IInv, JobAgrees
  <1>6. TimersRespected'
    <2> SUFFICES ASSUME NEW i \in ReportIds
                 PROVE  LET row == reports[i] IN
                        /\ row.status = "expired" => row.created_at + ReportTTL < now + 1
                        /\ row.status = "resolved" /\ row.resolved_by # row.reporter
                             => row.created_at + ResolveDelay <= now + 1
      BY <1>1 DEF TimersRespected
    <2>1. reports[i].created_at \in Nat
      BY <1>2 DEF TypeOK, ReportRow
    <2> QED
      BY <1>2, <2>1, ReportsAssumption DEF IInv, TimersRespected
  <1>7. (ReportersExist /\ NoticeMeansClosed /\ ConfirmationsNeverOverstated)'
    BY <1>1 DEF IInv, ReportersExist, NoticeMeansClosed, ConfirmationsNeverOverstated
  <1> QED
    BY <1>3, <1>4, <1>5, <1>6, <1>7 DEF IInv

\* A step of the job that writes no table keeps the invariant, when what it
\* holds has outlived its TTL.
LEMMA JobStep ==
  ASSUME IInv, UNCHANGED tables, UNCHANGED << txn, now >>,
         job' \in [pc : {"idle", "update", "commit"}, due : SUBSET ReportIds, failures : Nat],
         job'.due \subseteq job.due \cup Due
  PROVE  IInv'
  <1>1. UNCHANGED << reports, confirmers, users, ledger, notices, txn, now >>
    BY DEF tables
  <1>2. TypeOK'
    BY <1>1 DEF IInv, TypeOK
  <1>3. SessionsAgree'
    <2>1. ASSUME NEW r \in Requests PROVE SessionAgrees(txn[r])'
      <3>1. SessionAgrees(txn[r])
        BY DEF IInv, SessionsAgree
      <3> QED
        BY <1>1, <3>1 DEF SessionAgrees, SessionShape, Closed, FoundReportStays,
          Entitled, ConfirmationIsNew
    <2> QED
      BY <1>1, <2>1 DEF IInv, SessionsAgree, Rivals
  <1>4. JobAgrees'
    BY <1>1 DEF IInv, JobAgrees, Due
  <1>5. (ReportersExist /\ TimersRespected /\ NoticeMeansClosed /\ ConfirmationsNeverOverstated)'
    BY <1>1 DEF IInv, ReportersExist, TimersRespected, NoticeMeansClosed,
      ConfirmationsNeverOverstated
  <1> QED
    BY <1>2, <1>3, <1>4, <1>5 DEF IInv

\* The UPDATE of the job expires what it selected, whatever it has become.
LEMMA ExpireCommitStep ==
  ASSUME IInv, ExpireCommit
  PROVE  /\ IInv'
         /\ \A i \in ReportIds :
              reports[i].status \in ClosedStatuses => reports'[i].status \in ClosedStatuses
  <1>0. TypeOK /\ job.due \subseteq ReportIds /\ job.failures \in Nat
    BY DEF IInv, TypeOK
  <1>1. /\ UNCHANGED << confirmers, users, ledger, txn, now >>
        /\ job' = [job EXCEPT !.pc = "idle", !.due = {}]
    BY DEF ExpireCommit
  <1>2. \A i \in ReportIds :
          /\ reports'[i] \in ReportRow
          /\ reports'[i].status = IF i \in job.due THEN "expired" ELSE reports[i].status
          /\ reports'[i].reporter = reports[i].reporter
          /\ reports'[i].created_at = reports[i].created_at
          /\ reports'[i].resolved_by = reports[i].resolved_by
          /\ reports'[i].confirmation_count = reports[i].confirmation_count
    <2> TAKE i \in ReportIds
    <2>1. reports[i] \in ReportRow
      BY <1>0 DEF TypeOK
    <2>2. reports'[i] = IF i \in job.due THEN [reports[i] EXCEPT !.status = "expired"] ELSE reports[i]
      BY DEF ExpireCommit, ExpireRow
    <2> QED
      BY <2>1, <2>2 DEF ReportRow, Statuses
  <1>3. \A i \in ReportIds :
          /\ notices'[i] \in [resolved : Nat, expired : Nat]
          /\ i \notin job.due => notices'[i] = notices[i]
    BY <1>0 DEF TypeOK, ExpireCommit
  <1>4. TypeOK'
    <2>1. reports' \in [ReportIds -> ReportRow]
      BY <1>2 DEF ExpireCommit
    <2>2. notices' \in [ReportIds -> [resolved : Nat, expired : Nat]]
      BY <1>3 DEF ExpireCommit
    <2>3. job' \in [pc : {"idle", "update", "commit"}, due : SUBSET ReportIds, failures : Nat]
      BY <1>0, <1>1 DEF TypeOK
    <2> QED
      BY <1>0, <1>1, <2>1, <2>2, <2>3 DEF TypeOK
  <1>5. \A i \in job.due : /\ reports[i].status # "absent"
                           /\ reports[i].created_at + ReportTTL < now
    BY DEF IInv, JobAgrees
  <1>6. SessionsAgree'
    <2>1. \A r \in Requests : SessionAgrees(txn[r])'
      <3> TAKE r \in Requests
      <3>1. SessionAgrees(txn[r]) /\ SessionShape(txn[r])
        BY DEF IInv, SessionsAgree, SessionAgrees
      <3>2. CASE txn[r] = Closed
        BY <1>1, <3>2, ClosedFacts DEF SessionAgrees, SessionShape, FoundReportStays,
          Entitled, ConfirmationIsNew, Ops, Closed
      <3>3. CASE txn[r] # Closed
        <4>1. txn[r].report \in ReportIds
          BY <3>1, <3>3 DEF SessionShape
        <4>2. SessionShape(txn[r])' /\ Entitled(txn[r])' /\ ConfirmationIsNew(txn[r])'
          BY <1>1, <3>1 DEF SessionAgrees, SessionShape, Closed, Entitled, ConfirmationIsNew
        <4>3. FoundReportStays(txn[r])'
          BY <1>1, <1>2, <3>1, <4>1 DEF SessionAgrees, FoundReportStays
        <4>4. txn[r].op = "submit" => reports'[txn[r].report].status = "absent"
          BY <1>2, <1>5, <3>1, <4>1 DEF SessionAgrees
        <4> QED
          BY <1>1, <4>2, <4>3, <4>4 DEF SessionAgrees
      <3> QED
        BY <3>2, <3>3
    <2> QED
      BY <1>1, <2>1 DEF IInv, SessionsAgree, Rivals
  <1>7. ReportersExist'
    BY <1>2, <1>5 DEF IInv, ReportersExist
  <1>8. JobAgrees'
    BY <1>0, <1>1 DEF JobAgrees, TypeOK
  <1>9. TimersRespected'
    BY <1>1, <1>2, <1>5 DEF IInv, TimersRespected
  <1>10. \A i \in ReportIds :
           reports[i].status \in ClosedStatuses => reports'[i].status \in ClosedStatuses
    BY <1>2 DEF ClosedStatuses
  <1>11. NoticeMeansClosed'
    BY <1>2, <1>3 DEF IInv, NoticeMeansClosed, ClosedStatuses
  <1>12. ConfirmationsNeverOverstated'
    BY <1>1, <1>2 DEF IInv, ConfirmationsNeverOverstated
  <1> QED
    BY <1>4, <1>6, <1>7, <1>8, <1>9, <1>10, <1>11, <1>12 DEF IInv
-----------------------------------------------------------------------------
(* The theorems                                                            *)

\* In the empty tables nothing has been promised.
LEMMA InitIInv == Init => IInv
  <1> SUFFICES ASSUME Init PROVE IInv
    OBVIOUS
  <1>1. NoReport \in ReportRow
    BY DEF NoReport, ReportRow, Statuses
  <1>2. ledger \in [Users -> Ledger]
    BY ReportsAssumption DEF Init
  <1>3. \A book \in Ledger : NewUserRow(LedgerSum(book)) \in UserRow
    <2> TAKE book \in Ledger
    <2>1. \A e \in EventTypes : book[e] \in Nat
      BY DEF Ledger
    <2>2. /\ book["poi_submitted_verified"] \in Int
          /\ book["poi_submitted_rejected"] \in Int
          /\ book["confirmation"] \in Int
          /\ book["report_submitted_resolved"] \in Int
          /\ book["report_dismissed_admin"] \in Int
      BY <2>1 DEF EventTypes
    <2>3. LedgerSum(book) \in Int
      BY <2>2 DEF LedgerSum, EventDeltas
    <2> QED
      BY <2>3 DEF NewUserRow, UserRow, ShouldAutoBan, AutoBanThreshold
  <1>4. users \in [Users -> UserRow]
    BY <1>2, <1>3 DEF Init
  <1>5. TypeOK
    BY <1>1, <1>2, <1>4, ClosedFacts DEF Init, TypeOK, JobIdle
  <1>6. SessionsAgree
    BY ClosedFacts DEF Init, SessionsAgree, Rivals
  <1>7. ReportersExist /\ JobAgrees /\ TimersRespected /\ NoticeMeansClosed
    BY DEF Init, ReportersExist, JobAgrees, TimersRespected, NoticeMeansClosed, NoReport, JobIdle
  <1>8. ConfirmationsNeverOverstated
    BY FS_EmptySet DEF Init, ConfirmationsNeverOverstated, NoReport
  <1> QED
    BY <1>5, <1>6, <1>7, <1>8 DEF IInv

\* Every step keeps the invariant and reopens nothing.
LEMMA StepIInv ==
  ASSUME IInv, [Next]_vars
  PROVE  /\ IInv'
         /\ \A i \in ReportIds :
              reports[i].status \in ClosedStatuses => reports'[i].status \in ClosedStatuses
  <1> DEFINE Closes == \A i \in ReportIds :
               reports[i].status \in ClosedStatuses => reports'[i].status \in ClosedStatuses
  <1>0. job \in [pc : {"idle", "update", "commit"}, due : SUBSET ReportIds, failures : Nat]
    BY DEF IInv, TypeOK
  <1>1. ASSUME UNCHANGED reports PROVE Closes
    BY <1>1
  <1>2. ASSUME NEW r \in Requests, Begin(r) \/ (Step(r) /\ ~Commit(r)) \/ Abort(r)
        PROVE  UNCHANGED reports
    BY <1>2 DEF Begin, Step, Abort, SubmitBegin, ConfirmBegin, ResolveBegin, DismissBegin, Open,
      ConfirmRead, ConfirmInsert, ResolveRead, DismissRead, Flush, LockUser, ReadReport, Goto,
      Rollback, Become, tables
  <1>3. ASSUME NEW r \in Requests, Begin(r) \/ (Step(r) /\ ~Commit(r)) \/ Abort(r)
        PROVE  IInv'
    BY <1>3, BeginStep, StatementStep, RollbackStep DEF Abort
  <1>4. ASSUME NEW r \in Requests, Commit(r) PROVE IInv' /\ Closes
    BY <1>4, CommitStep, CommitReports
  <1>5. CASE ExpireSelect \/ ExpireUpdate \/ ExpireFail
    <2>1. Due \subseteq ReportIds
      BY DEF Due
    <2>2. /\ UNCHANGED tables /\ UNCHANGED << txn, now >>
          /\ job' \in [pc : {"idle", "update", "commit"}, due : SUBSET ReportIds, failures : Nat]
          /\ job'.due \subseteq job.due \cup Due
      <3>1. CASE ExpireSelect
        BY <1>0, <2>1, <3>1 DEF ExpireSelect
      <3>2. CASE ExpireUpdate
        BY <1>0, <3>2 DEF ExpireUpdate
      <3>3. CASE ExpireFail
        BY <1>0, <3>3 DEF ExpireFail
      <3> QED
        BY <1>5, <3>1, <3>2, <3>3
    <2> QED
      BY <1>1, <2>2, JobStep DEF tables
  <1>6. CASE ExpireCommit
    BY <1>6, ExpireCommitStep
  <1>7. CASE Tick
    BY <1>1, <1>7, TickStep DEF Tick, tables
  <1>8. CASE UNCHANGED vars
    <2>1. UNCHANGED tables /\ UNCHANGED << txn, now, job >>
      BY <1>8 DEF vars, tables
    <2> QED
      BY <1>0, <1>1, <2>1, JobStep DEF tables
  <1> QED
    BY <1>1, <1>2, <1>3, <1>4, <1>5, <1>6, <1>7, <1>8 DEF Next, Expire

\* The invariant holds in every reachable state.
LEMMA Invariance == Spec => []IInv
  <1>1. IInv /\ [Next]_vars => IInv'
    BY StepIInv
  <1> QED
    BY <1>1, InitIInv, PTL DEF Spec

\* Tables, sessions, job and clock keep their types.
THEOREM TypeCorrect == Spec => []TypeOK
  <1>1. IInv => TypeOK
    BY DEF IInv
  <1> QED
    BY <1>1, Invariance, PTL

\* A report expires only past its TTL and is resolved by others only after the
\* delay, however long ago the session or the job looked at the clock.
THEOREM TimerSafety == Spec => []TimersRespected
  <1>1. IInv => TimersRespected
    BY DEF IInv
  <1> QED
    BY <1>1, Invariance, PTL

\* A reporter who is told that the report was closed finds it closed.
THEOREM NoticeSafety == Spec => []NoticeMeansClosed
  <1>1. IInv => NoticeMeansClosed
    BY DEF IInv
  <1> QED
    BY <1>1, Invariance, PTL

\* The counter never exceeds the confirmations in the table.
THEOREM ConfirmationSafety == Spec => []ConfirmationsNeverOverstated
  <1>1. IInv => ConfirmationsNeverOverstated
    BY DEF IInv
  <1> QED
    BY <1>1, Invariance, PTL

\* No session and no run of the job reopens a closed report.
THEOREM ClosedSafety == Spec => NeverReopened
  <1> DEFINE Closes == \A i \in ReportIds :
               reports[i].status \in ClosedStatuses => reports'[i].status \in ClosedStatuses
  <1>1. IInv /\ [Next]_vars => [Closes]_vars
    BY StepIInv
  <1>2. NeverReopened <=> [][Closes]_vars
    BY PTL DEF NeverReopened
  <1> QED
    BY <1>1, <1>2, Invariance, PTL DEF Spec

(***************************************************************************)
(* Refinement of ReportLifecycle: statements map to stuttering, commits to *)
(* the steps of the life of a report.                                      *)
(***************************************************************************)

\* A step that commits nothing while time stands still leaves the life of every
\* report unchanged.
LEMMA StatementStutters ==
  ASSUME UNCHANGED tables, now' = now
  PROVE  UNCHANGED Promise!lifecycle
  BY DEF tables, Promise!lifecycle, Told

\* Time passes for the reports, too.
LEMMA TickRefines ==
  ASSUME Tick
  PROVE  Promise!Next
  <1>1. /\ UNCHANGED << reports, confirmers, notices >> /\ now' = now + 1
    BY DEF Tick, tables
  <1>2. Promise!Pass
    BY <1>1 DEF Promise!Pass, Told
  <1> QED
    BY <1>2 DEF Promise!Next

\* The fields of the reports after the row of one of them was written.
LEMMA OneRow ==
  ASSUME NEW i \in ReportIds, NEW row, reports' = [reports EXCEPT ![i] = row],
         reports \in [ReportIds -> ReportRow]
  PROVE  /\ [j \in ReportIds |-> reports[j].reporter]'
              = [[j \in ReportIds |-> reports[j].reporter] EXCEPT ![i] = row.reporter]
         /\ [j \in ReportIds |-> reports[j].status]'
              = [[j \in ReportIds |-> reports[j].status] EXCEPT ![i] = row.status]
         /\ [j \in ReportIds |-> reports[j].resolved_by]'
              = [[j \in ReportIds |-> reports[j].resolved_by] EXCEPT ![i] = row.resolved_by]
         /\ [j \in ReportIds |-> reports[j].created_at]'
              = [[j \in ReportIds |-> reports[j].created_at] EXCEPT ![i] = row.created_at]
  OBVIOUS

\* What the author of a report is told by a commit.
LEMMA CommitTells ==
  ASSUME IInv, NEW r \in Requests, Commit(r)
  PROVE  LET t == txn[r] IN
         IF t.op = "resolve" /\ t.row.reporter # t.actor
         THEN Told' = [Told EXCEPT ![t.report] = @ \cup {"resolved"}]
         ELSE Told' = Told
  <1> DEFINE t == txn[r]
  <1>1. t.report \in ReportIds
    BY CommitFacts
  <1>2. notices \in [ReportIds -> [resolved : Nat, expired : Nat]]
    BY DEF IInv, TypeOK
  <1>3. CASE t.op = "resolve" /\ t.row.reporter # t.actor
    <2>1. notices' = [notices EXCEPT ![t.report].resolved = @ + 1]
      BY <1>3 DEF Commit
    <2>2. \A i \in ReportIds \ {t.report} : notices'[i] = notices[i]
      BY <1>2, <2>1
    <2>3. /\ notices'[t.report].resolved = notices[t.report].resolved + 1
          /\ notices'[t.report].expired = notices[t.report].expired
          /\ notices[t.report].resolved \in Nat
      BY <1>1, <1>2, <2>1
    <2>4. notices'[t.report].resolved > 0
      BY <2>3
    <2>5. \A i \in ReportIds :
            Told'[i] = IF i = t.report THEN Told[i] \cup {"resolved"} ELSE Told[i]
      BY <1>1, <2>2, <2>3, <2>4 DEF Told
    <2>6. Told' = [i \in ReportIds |-> Told'[i]] /\ Told = [i \in ReportIds |-> Told[i]]
      BY DEF Told
    <2> QED
      BY <1>1, <1>3, <2>5, <2>6
  <1>4. CASE ~(t.op = "resolve" /\ t.row.reporter # t.actor)
    <2>1. notices' = [notices EXCEPT ![t.report].resolved = notices[t.report].resolved]
      BY <1>4 DEF Commit
    <2>2. notices' = notices
      BY <1>1, <1>2, <2>1
    <2> QED
      BY <1>4, <2>2 DEF Told
  <1> QED
    BY <1>3, <1>4

\* A commit is a step of the life of its report.
LEMMA CommitRefines ==
  ASSUME IInv, NEW r \in Requests, Commit(r)
  PROVE  Promise!Next
  <1> DEFINE t == txn[r]
             author == [j \in ReportIds |-> reports[j].reporter]
             state  == [j \in ReportIds |-> reports[j].status]
             closer == [j \in ReportIds |-> reports[j].resolved_by]
             filed  == [j \in ReportIds |-> reports[j].created_at]
  <1>1. /\ t \in Session /\ SessionAgrees(t) /\ t.op \in Ops /\ t.actor \in Users
        /\ t.report \in ReportIds /\ t.pc = "commit"
        /\ reports' = [reports EXCEPT ![t.report] = reports'[t.report]]
        /\ Rewrites(t, reports[t.report], reports'[t.report])
    BY CommitFacts
  <1>2. /\ reports \in [ReportIds -> ReportRow] /\ confirmers \in [ReportIds -> SUBSET Users]
        /\ now \in Nat /\ ReportersExist
    BY DEF IInv, TypeOK
  <1>3. now' = now /\ confirmers' = [confirmers EXCEPT ![t.report] =
                        IF t.op = "confirm" THEN @ \cup {t.actor} ELSE @]
    BY DEF Commit
  <1>4. IF t.op = "resolve" /\ t.row.reporter # t.actor
        THEN Told' = [Told EXCEPT ![t.report] = @ \cup {"resolved"}]
        ELSE Told' = Told
    BY CommitTells
  <1>5. FoundReportStays(t) /\ Entitled(t) /\ ConfirmationIsNew(t)
    BY <1>1 DEF SessionAgrees
  <1>6. t.op = "submit" => reports'[t.report].created_at = t.row.created_at
                            /\ reports'[t.report].resolved_by = t.row.resolved_by
    <2>1. t.op = "submit" => reports'[t.report] =
            [t.row EXCEPT !.status = "active", !.reporter = t.actor]
      BY <1>1, <1>2 DEF Commit, ReportAfter
    <2>2. t.row \in ReportRow
      BY <1>1 DEF Session
    <2> QED
      BY <2>1, <2>2 DEF ReportRow
  <1>7. t.row.created_at \in Nat
    BY <1>1 DEF Session, ReportRow
  <1> HIDE DEF t
  <1> PICK i \in ReportIds, u \in Users : i = t.report /\ u = t.actor
    BY <1>1
  <1> DEFINE old == reports[i]
             new == reports'[i]
  <1>8. /\ author' = [author EXCEPT ![i] = new.reporter]
        /\ state'  = [state EXCEPT ![i] = new.status]
        /\ closer' = [closer EXCEPT ![i] = new.resolved_by]
        /\ filed'  = [filed EXCEPT ![i] = new.created_at]
    BY <1>1, <1>2, OneRow
  <1>9. /\ new.reporter = old.reporter => author' = author
        /\ new.status = old.status => state' = state
        /\ new.resolved_by = old.resolved_by => closer' = closer
        /\ new.created_at = old.created_at => filed' = filed
    <2>1. /\ [author EXCEPT ![i] = old.reporter] = author
          /\ [state EXCEPT ![i] = old.status] = state
          /\ [closer EXCEPT ![i] = old.resolved_by] = closer
          /\ [filed EXCEPT ![i] = old.created_at] = filed
      OBVIOUS
    <2> HIDE DEF author, state, closer, filed, old, new
    <2> QED
      BY <1>8, <2>1
  <1>10. /\ author[i] = old.reporter /\ state[i] = old.status /\ filed[i] = old.created_at
    OBVIOUS
  <1>11. t.op # "confirm" => confirmers' = confirmers
    BY <1>1, <1>2, <1>3
  <1> HIDE DEF author, state, closer, filed, old, new
  <1>12. CASE t.op = "submit"
    <2>1. /\ old.status = "absent" /\ new.status = "active" /\ new.reporter = u
          /\ new.resolved_by = old.resolved_by
      BY <1>1, <1>2, <1>5, <1>6, <1>12 DEF Rewrites, ReportersExist, Entitled, old, new
    <2>2. new.created_at \in 0..now
      BY <1>2, <1>5, <1>6, <1>7, <1>12 DEF Entitled, new
    <2>3. /\ author' = [author EXCEPT ![i] = u] /\ state' = [state EXCEPT ![i] = "active"]
          /\ filed' = [filed EXCEPT ![i] = new.created_at] /\ closer' = closer
          /\ confirmers' = confirmers /\ Told' = Told /\ now' = now /\ state[i] = "absent"
      BY <1>3, <1>4, <1>8, <1>9, <1>10, <1>11, <1>12, <2>1
    <2>4. Promise!File(i, u)
      BY <2>2, <2>3 DEF Promise!File, author, state, closer, filed
    <2> QED
      BY <2>4 DEF Promise!Next
  <1>13. CASE t.op = "confirm"
    <2>1. /\ old.status # "absent" /\ new.status = old.status /\ new.reporter = old.reporter
          /\ new.created_at = old.created_at /\ new.resolved_by = old.resolved_by
      BY <1>1, <1>13 DEF Rewrites, old, new
    <2>2. u # old.reporter /\ u \notin confirmers[i]
      BY <1>1, <1>5, <1>13 DEF Entitled, FoundReportStays, ConfirmationIsNew, old
    <2>3. /\ author' = author /\ state' = state /\ filed' = filed /\ closer' = closer
          /\ confirmers' = [confirmers EXCEPT ![i] = @ \cup {u}] /\ Told' = Told /\ now' = now
          /\ state[i] # "absent" /\ u # author[i]
      BY <1>3, <1>4, <1>9, <1>10, <1>13, <2>1, <2>2
    <2>4. Promise!Back(i, u)
      BY <2>2, <2>3 DEF Promise!Back, author, state, closer, filed
    <2> QED
      BY <2>4 DEF Promise!Next
  <1>14. CASE t.op = "resolve" /\ u = old.reporter
    <2>1. /\ old.status # "absent" /\ new.status = "resolved" /\ new.reporter = old.reporter
          /\ new.created_at = old.created_at /\ new.resolved_by = u
      BY <1>1, <1>14 DEF Rewrites, old, new
    <2>2. t.row.reporter = t.actor
      BY <1>1, <1>5, <1>14 DEF FoundReportStays, old
    <2>3. /\ author' = author /\ state' = [state EXCEPT ![i] = "resolved"] /\ filed' = filed
          /\ closer' = [closer EXCEPT ![i] = author[i]]
          /\ confirmers' = confirmers /\ Told' = Told /\ now' = now /\ state[i] # "absent"
      BY <1>3, <1>4, <1>8, <1>9, <1>10, <1>11, <1>14, <2>1, <2>2
    <2>4. Promise!Withdraw(i)
      BY <2>3 DEF Promise!Withdraw, author, state, closer, filed
    <2> QED
      BY <2>4 DEF Promise!Next
  <1>15. CASE t.op = "resolve" /\ u # old.reporter
    <2>1. /\ old.status # "absent" /\ new.status = "resolved" /\ new.reporter = old.reporter
          /\ new.created_at = old.created_at /\ new.resolved_by = u
      BY <1>1, <1>15 DEF Rewrites, old, new
    <2>2. t.row.reporter # t.actor /\ old.created_at + ResolveDelay <= now
      BY <1>1, <1>5, <1>15 DEF FoundReportStays, Entitled, old
    <2>3. /\ author' = author /\ state' = [state EXCEPT ![i] = "resolved"] /\ filed' = filed
          /\ closer' = [closer EXCEPT ![i] = u]
          /\ Told' = [Told EXCEPT ![i] = @ \cup {"resolved"}]
          /\ confirmers' = confirmers /\ now' = now
          /\ state[i] # "absent" /\ u # author[i] /\ filed[i] + ResolveDelay <= now
      BY <1>3, <1>4, <1>8, <1>9, <1>10, <1>11, <1>15, <2>1, <2>2
    <2>4. Promise!Resolve(i, u)
      BY <2>3 DEF Promise!Resolve, author, state, closer, filed
    <2> QED
      BY <2>4 DEF Promise!Next
  <1>16. CASE t.op = "dismiss"
    <2>1. /\ old.status # "absent" /\ new.status = "dismissed" /\ new.reporter = old.reporter
          /\ new.created_at = old.created_at /\ new.resolved_by = u
      BY <1>1, <1>16 DEF Rewrites, old, new
    <2>2. u \in Admins
      BY <1>5, <1>16 DEF Entitled
    <2>3. /\ author' = author /\ state' = [state EXCEPT ![i] = "dismissed"] /\ filed' = filed
          /\ closer' = [closer EXCEPT ![i] = u]
          /\ confirmers' = confirmers /\ Told' = Told /\ now' = now /\ state[i] # "absent"
      BY <1>3, <1>4, <1>8, <1>9, <1>10, <1>11, <1>16, <2>1
    <2>4. Promise!Dismiss(i, u)
      BY <2>2, <2>3 DEF Promise!Dismiss, author, state, closer, filed
    <2> QED
      BY <2>4 DEF Promise!Next
  <1> QED
    BY <1>1, <1>12, <1>13, <1>14, <1>15, <1>16 DEF Ops

\* What the job closes has outlived its life, whatever became of it since the
\* job selected it.
LEMMA ExpireRefines ==
  ASSUME IInv, ExpireCommit
  PROVE  Promise!Next
  <1>1. job.due \in SUBSET ReportIds /\ reports \in [ReportIds -> ReportRow]
        /\ notices \in [ReportIds -> [resolved : Nat, expired : Nat]]
    BY DEF IInv, TypeOK
  <1>2. \A i \in job.due : reports[i].status # "absent" /\ reports[i].created_at + ReportTTL < now
    BY DEF IInv, JobAgrees
  <1>3. /\ UNCHANGED << confirmers, now >>
        /\ \A i \in ReportIds :
             reports'[i] = IF i \in job.due THEN [reports[i] EXCEPT !.status = "expired"]
                           ELSE reports[i]
    BY DEF ExpireCommit, ExpireRow
  <1>4. \A i \in ReportIds :
          /\ reports'[i].status = IF i \in job.due THEN "expired" ELSE reports[i].status
          /\ reports'[i].reporter = reports[i].reporter
          /\ reports'[i].created_at = reports[i].created_at
          /\ reports'[i].resolved_by = reports[i].resolved_by
    <2> TAKE i \in ReportIds
    <2>1. reports[i] \in ReportRow
      BY <1>1
    <2> QED
      BY <1>3, <2>1 DEF ReportRow
  <1>5. \A i \in ReportIds :
          Told'[i] = IF i \in job.due THEN Told[i] \cup {"expired"} ELSE Told[i]
    <2> TAKE i \in ReportIds
    <2>1. notices'[i] = IF i \in job.due
                        THEN [notices[i] EXCEPT !.expired = @ + 1] ELSE notices[i]
      BY DEF ExpireCommit
    <2>2. notices[i] \in [resolved : Nat, expired : Nat]
      BY <1>1
    <2>3. CASE i \in job.due
      <3>1. /\ notices'[i].resolved = notices[i].resolved
            /\ notices'[i].expired = notices[i].expired + 1 /\ notices[i].expired \in Nat
        BY <2>1, <2>2, <2>3
      <3>2. notices'[i].expired > 0
        BY <3>1
      <3> QED
        BY <2>3, <3>1, <3>2 DEF Told
    <2>4. CASE i \notin job.due
      BY <2>1, <2>4 DEF Told
    <2> QED
      BY <2>3, <2>4
  <1>6. Told' = [i \in ReportIds |->
                   IF i \in job.due THEN Told[i] \cup {"expired"} ELSE Told[i]]
    <2>1. Told' = [i \in ReportIds |-> Told'[i]]
      BY DEF Told
    <2> QED
      BY <1>5, <2>1
  <1>7. PICK due \in SUBSET ReportIds : due = job.due
    BY <1>1
  <1>8. Promise!Expire(due)
    BY <1>2, <1>3, <1>4, <1>6, <1>7 DEF Promise!Expire
  <1> QED
    BY <1>8 DEF Promise!Next

\* The concurrent sessions and the job implement the promise of ReportLifecycle:
\* a report ends because its reporter, after the delay somebody else, an admin or
\* its age closed it, and none is reopened.
THEOREM Refinement == Spec => ClosesAsPromised
  <1>1. Init => Promise!Init
    <2> SUFFICES ASSUME Init PROVE Promise!Init
      OBVIOUS
    <2>1. /\ reports = [i \in ReportIds |-> NoReport] /\ confirmers = [i \in ReportIds |-> {}]
          /\ notices = [i \in ReportIds |-> [resolved |-> 0, expired |-> 0]] /\ now = 0
      BY DEF Init
    <2>2. Told = [i \in ReportIds |-> {}]
      BY <2>1 DEF Told
    <2> QED
      BY <2>1, <2>2 DEF Promise!Init, NoReport
  <1>2. IInv /\ [Next]_vars => [Promise!Next]_(Promise!lifecycle)
    <2> SUFFICES ASSUME IInv, [Next]_vars
                 PROVE  Promise!Next \/ UNCHANGED Promise!lifecycle
      OBVIOUS
    <2>1. ASSUME NEW r \in Requests, Commit(r) PROVE Promise!Next
      BY <2>1, CommitRefines
    <2>2. ASSUME NEW r \in Requests, Begin(r) \/ Abort(r) \/ (Step(r) /\ ~Commit(r))
          PROVE  UNCHANGED tables /\ now' = now
      BY <2>2 DEF Begin, SubmitBegin, ConfirmBegin, ResolveBegin, DismissBegin, Open, Abort,
        Rollback, Become, Step, ConfirmRead, ConfirmInsert, ResolveRead, DismissRead, Flush,
        LockUser, ReadReport, Goto
    <2>3. CASE ExpireSelect \/ ExpireUpdate \/ ExpireFail
      BY <2>3, StatementStutters DEF ExpireSelect, ExpireUpdate, ExpireFail
    <2>4. CASE UNCHANGED vars
      BY <2>4, StatementStutters DEF vars, tables
    <2> QED
      BY <2>1, <2>2, <2>3, <2>4, StatementStutters, ExpireRefines, TickRefines DEF Next, Expire
  <1> QED
    BY <1>1, <1>2, Invariance, PTL DEF Spec, ClosesAsPromised, Promise!Spec

=============================================================================
