----------------------------- MODULE BackendProofs -----------------------------
(***************************************************************************)
(* Proofs about both components at once.  For any number of overlapping    *)
(* sessions: whichever of them wrote a users row last, and from whatever   *)
(* stale copy, the ban follows the reputation, and nothing lifts it.  For  *)
(* sessions that do not overlap: the exact promises of Backend.            *)
(***************************************************************************)
EXTENDS Backend, FiniteSetTheorems, TLAPS

\* What a commit makes of the columns of a users row (AppendEvent, UserAfter).
Charges(row, new) ==
  /\ ShouldAutoBan(new.reputation) => new.is_banned
  /\ row.is_banned => new.is_banned

UsersTable(f) == f = [u \in Users |-> f[u]]

\* append_event bans at the threshold, in either component.
LEMMA ChargesFacts ==
  ASSUME NEW t, NEW row
  PROVE  Charges(row, P!UserAfter(t, row)) /\ Charges(row, R!UserAfter(t, row))
  <1>1. Charges(row, R!UserAfter(t, row))
    BY DEF R!UserAfter, R!AppendEvent, R!ShouldAutoBan, ShouldAutoBan, R!AutoBanThreshold,
      AutoBanThreshold, Charges
  <1>2. Charges(row, P!UserAfter(t, row))
    BY DEF P!UserAfter, P!ConfirmCredit, P!AppendEvent, P!ShouldAutoBan, ShouldAutoBan,
      P!AutoBanThreshold, AutoBanThreshold, Charges
  <1> QED
    BY <1>1, <1>2

\* No statement of a moderation session but its commit writes a users row.
LEMMA PoiUsers ==
  ASSUME P!Next
  PROVE  \/ UNCHANGED users
         \/ \E t, x : users' = [users EXCEPT ![x] = P!UserAfter(t, users[x])]
  <1>1. PICK r \in Requests : P!Begin(r) \/ P!Step(r) \/ P!Abort(r)
    BY DEF P!Next
  <1>2. CASE P!Commit(r)
    BY <1>2 DEF P!Commit
  <1>3. CASE ~P!Commit(r)
    BY <1>1, <1>3 DEF P!Begin, P!Step, P!Abort, P!SubmitBegin, P!ConfirmBegin, P!ProposeBegin,
      P!RejectBegin, P!ApproveBegin, P!Open, P!ConfirmRead, P!ConfirmInsert, P!ConfirmFlush,
      P!ProposeRead, P!ProposeInsert, P!ProposeCount, P!RejectRead, P!SoftDelete, P!ApproveRead,
      P!ApproveFlush, P!LockUser, P!ReadPoi, P!Goto, P!Rollback, P!Become, P!tables
  <1> QED
    BY <1>2, <1>3

\* No step of the reports but the commit of a session writes a users row.
LEMMA ReportUsers ==
  ASSUME R!Next
  PROVE  \/ UNCHANGED users
         \/ \E t, x : users' = [users EXCEPT ![x] = R!UserAfter(t, users[x])]
  <1>1. ASSUME NEW r \in Requests, R!Commit(r)
        PROVE  \/ UNCHANGED users
               \/ \E t, x : users' = [users EXCEPT ![x] = R!UserAfter(t, users[x])]
    BY <1>1 DEF R!Commit
  <1>2. ASSUME NEW r \in Requests, ~R!Commit(r), R!Begin(r) \/ R!Step(r) \/ R!Abort(r)
        PROVE  UNCHANGED users
    BY <1>2 DEF R!Begin, R!Step, R!Abort, R!SubmitBegin, R!ConfirmBegin, R!ResolveBegin,
      R!DismissBegin, R!Open, R!ConfirmRead, R!ConfirmInsert, R!ResolveRead, R!DismissRead,
      R!Flush, R!LockUser, R!ReadReport, R!Goto, R!Rollback, R!Become, R!tables
  <1>3. ASSUME R!Expire \/ R!ExpireFail \/ R!Tick PROVE UNCHANGED users
    BY <1>3 DEF R!Expire, R!ExpireSelect, R!ExpireUpdate, R!ExpireCommit, R!ExpireFail, R!Tick,
      R!tables
  <1> QED
    BY <1>1, <1>2, <1>3 DEF R!Next

-----------------------------------------------------------------------------

IInv == UsersTable(users) /\ BanFollowsReputation

\* The users start with the ban that their reputation demands.
LEMMA InitIInv == Init => IInv
  <1>1. ASSUME Init PROVE users = [u \in Users |-> R!NewUserRow(R!LedgerSum(ledger[u]))]
    BY <1>1 DEF Init, R!Init
  <1>2. \A n : R!ShouldAutoBan(n) <=> ShouldAutoBan(n)
    BY DEF R!ShouldAutoBan, ShouldAutoBan, R!AutoBanThreshold, AutoBanThreshold
  <1> QED
    BY <1>1, <1>2 DEF IInv, UsersTable, BanFollowsReputation, R!NewUserRow

\* Each step charges or credits at most one users row.
LEMMA StepIInv ==
  ASSUME IInv, [Next]_vars
  PROVE  IInv' /\ \A u \in Users : users[u].is_banned => users'[u].is_banned
  <1>1. \/ UNCHANGED users
        \/ \E x, new : users' = [users EXCEPT ![x] = new] /\ Charges(users[x], new)
    BY PoiUsers, ReportUsers, ChargesFacts DEF Next, PoiStep, ReportStep, vars
  <1>2. CASE UNCHANGED users
    BY <1>2 DEF IInv, UsersTable, BanFollowsReputation
  <1>3. ASSUME NEW x, NEW new, users' = [users EXCEPT ![x] = new], Charges(users[x], new)
        PROVE  IInv' /\ \A u \in Users : users[u].is_banned => users'[u].is_banned
    <2>1. \A u \in Users : users'[u] = IF u = x THEN new ELSE users[u]
      BY <1>3 DEF IInv, UsersTable
    <2>2. UsersTable(users')
      BY <1>3 DEF IInv, UsersTable
    <2>3. BanFollowsReputation'
      BY <1>3, <2>1 DEF IInv, BanFollowsReputation, Charges
    <2>4. \A u \in Users : users[u].is_banned => users'[u].is_banned
      BY <1>3, <2>1 DEF Charges
    <2> QED
      BY <2>2, <2>3, <2>4 DEF IInv, UsersTable
  <1> QED
    BY <1>1, <1>2, <1>3

LEMMA Invariance == Spec => []IInv
  <1>1. IInv /\ [Next]_vars => IInv'
    BY StepIInv
  <1> QED
    BY <1>1, InitIInv, PTL DEF Spec

\* Whichever component charged a user last, a reputation at or below the
\* threshold belongs to a banned user.
THEOREM BanSafety == Spec => []BanFollowsReputation
  <1>1. IInv => BanFollowsReputation
    BY DEF IInv
  <1> QED
    BY <1>1, Invariance, PTL

\* No session of either component lifts a ban.
THEOREM BanFinality == Spec => BanIsFinal
  <1> DEFINE Stays == \A u \in Users : users[u].is_banned => users'[u].is_banned
  <1>1. IInv /\ [Next]_vars => [Stays]_vars
    BY StepIInv
  <1>2. BanIsFinal <=> [][Stays]_vars
    BY PTL DEF BanIsFinal
  <1> QED
    BY <1>1, <1>2, Invariance, PTL DEF Spec

-----------------------------------------------------------------------------
(* The serial system: the inductive invariant.                             *)

\* Request r has a session in either component.
Busy(r) == poiTxn[r] # P!Closed \/ reportTxn[r] # R!Closed

\* Alone, without counting.
Solo ==
  /\ \A r \in Requests : Busy(r) => job.pc = "idle" /\ \A q \in Requests : Busy(q) => q = r
  /\ OneHandler

Typed ==
  /\ pois \in [Pois -> P!PoiRow]
  /\ confirmations \in [Pois -> SUBSET Users]
  /\ proposals \in [Pois -> SUBSET Users]
  /\ poiNotices \in [Pois -> Nat]
  /\ poiTxn \in [Requests -> P!Session]
  /\ users \in [Users -> UserRow]
  /\ ledger \in [Users -> Ledger]
  /\ reports \in [ReportIds -> R!ReportRow]
  /\ confirmers \in [ReportIds -> SUBSET Users]
  /\ reportNotices \in [ReportIds -> [resolved : Nat, expired : Nat]]
  /\ reportTxn \in [Requests -> R!Session]
  /\ job \in [pc : {"idle", "update", "commit"}, due : SUBSET ReportIds, failures : Nat]
  /\ now \in Nat

\* A POI row agrees with its confirmations, its proposals and the number of
\* notices sent about it.
PoiAgrees(row, vouchers, objectors, told) ==
  /\ row.status = "absent" =>
       row = P!NoRow /\ vouchers = {} /\ objectors = {} /\ told = 0
  /\ row.status # "absent" /\ row.source = Importer => row.verification_status = "verified"
  /\ row.verification_count = Cardinality(vouchers) + (IF row.source \in Users THEN 1 ELSE 0)
  /\ Cardinality(vouchers) >= P!VerificationThreshold - 1 => row.verification_status = "verified"
  /\ Cardinality(objectors) >= P!RemovalThreshold => row.status = "removed"
  /\ told <= 1
  /\ told > 0 => row.verification_status = "verified"

\* A report agrees with its confirmations and with what its reporter was told.
ReportAgrees(row, others, told) ==
  /\ row.status = "absent" => row = R!NoReport /\ others = {}
  /\ row.status # "absent" => row.reporter \in Users
  /\ row.confirmation_count = Cardinality(others)
  /\ told.expired = (IF row.status = "expired" THEN 1 ELSE 0)
  /\ told.resolved =
       (IF row.status = "resolved" /\ row.resolved_by # row.reporter THEN 1 ELSE 0)

\* All confirmations of POIs, and the reports that exist.
Given == {c \in Pois \X Users : c[2] \in confirmations[c[1]]}
Filed == {i \in ReportIds : reports[i].status # "absent"}

\* The tables are empty at the start but for the imported and submitted POIs:
\* no user has been paid for a confirmation or a report yet.
FreshHistories ==
  \A h \in Histories, u \in Users :
    /\ h[u]["confirmation"] = 0
    /\ h[u]["report_submitted_resolved"] = 0
    /\ h[u]["report_dismissed_admin"] = 0

RowsAgree ==
  /\ \A p \in Pois : PoiAgrees(pois[p], confirmations[p], proposals[p], poiNotices[p])
  /\ \A i \in ReportIds : ReportAgrees(reports[i], confirmers[i], reportNotices[i])
  /\ IsFiniteSet(Given) /\ IsFiniteSet(Filed)

LedgersAgree ==
  /\ ReputationIsLedgerSum
  /\ FreshHistories => LedgerTellsOutcome /\ LedgerTellsConfirmations

\* The copies an open session holds are the committed rows.
PoiSession(t) ==
  \/ t = P!Closed
  \/ /\ t.op = "submit" /\ t.pc = "commit" /\ t.locks = {} /\ t.actor \in Users
     /\ t.poi \in Pois /\ pois[t.poi].status = "absent"
  \/ /\ t.op \in {"confirm", "propose", "reject", "approve"}
     /\ t.poi \in Pois /\ t.actor \in Users
     /\ t.pc \in {"read", "insert", "count", "flush"} => t.locks = {} /\ t.who = users[t.actor]
     /\ t.pc # "read" =>
          /\ t.row = pois[t.poi] /\ t.row.status # "absent"
          /\ t.op \in {"confirm", "propose"} => t.row.status = "active" /\ t.row.source # t.actor
     /\ t.op = "confirm" /\ t.pc \in {"flush", "credit", "commit"} =>
          t.actor \notin confirmations[t.poi]
     /\ t.op = "confirm" /\ t.pc = "commit" /\ "user" \notin t.locks /\ t.row.source \in Users =>
          users[t.row.source].is_banned
     /\ t.op = "confirm" /\ (t.pc = "credit" \/ "user" \in t.locks) => ~t.who.is_banned
     /\ t.op = "propose" /\ t.pc = "commit" /\ t.locks = {} =>
          Cardinality(proposals[t.poi] \cup {t.actor}) < P!RemovalThreshold
     /\ t.pc = "credit" \/ "user" \in t.locks =>
          /\ t.op # "approve" /\ t.row.source \in Users /\ t.who = users[t.row.source]

ReportSession(t) ==
  \/ t = R!Closed
  \/ /\ t.op = "submit" /\ t.pc = "commit" /\ t.locks = {} /\ t.actor \in Users
     /\ t.report \in ReportIds /\ reports[t.report].status = "absent"
     /\ t.row = [R!NoReport EXCEPT !.created_at = t.row.created_at]
  \/ /\ t.op \in {"confirm", "resolve", "dismiss"}
     /\ t.report \in ReportIds /\ t.actor \in Users
     /\ t.pc \in {"read", "insert", "flush"} => t.locks = {} /\ t.who = users[t.actor]
     /\ t.pc # "read" => t.row = reports[t.report] /\ t.row.status = "active"
     /\ t.op = "confirm" => t.locks = {} /\ t.pc # "credit"
     /\ t.op = "confirm" /\ t.pc = "commit" => t.actor \notin confirmers[t.report]
     /\ t.op = "resolve" /\ t.pc \in {"flush", "credit"} => t.row.reporter # t.actor
     /\ t.op = "resolve" /\ t.pc = "commit" =>
          IF t.row.reporter = t.actor THEN "user" \notin t.locks
          ELSE "user" \in t.locks \/ users[t.row.reporter].is_banned
     /\ t.op = "dismiss" /\ t.pc = "commit" => "user" \in t.locks
     /\ t.pc = "credit" \/ "user" \in t.locks => t.who = users[t.row.reporter]

\* What the job has selected is still active.
JobAgrees ==
  /\ \A i \in job.due : reports[i].status = "active"
  /\ job.pc = "idle" => job.due = {}

SessionsExact ==
  /\ \A r \in Requests : PoiSession(poiTxn[r]) /\ ReportSession(reportTxn[r])
  /\ JobAgrees

SInv == Solo /\ Typed /\ RowsAgree /\ LedgersAgree /\ SessionsExact

-----------------------------------------------------------------------------
(* Serial sessions.                                                        *)

\* A step that opens no session but that of r leaves at most one open.
LEMMA AloneSolo ==
  ASSUME Solo, Alone', OneHandler', NEW r,
         \A q \in Requests : Busy(q)' => Busy(q) \/ q = r
  PROVE  Solo'
  <1> DEFINE open == {q \in Requests : Busy(q)}
             after == {q \in Requests : Busy(q)'}
  <1>1. after = {q \in Requests : poiTxn'[q] # P!Closed \/ reportTxn'[q] # R!Closed}
    BY DEF Busy
  <1>2. Cardinality(after) + (IF job.pc' = "idle" THEN 0 ELSE 1) <= 1
    BY <1>1 DEF Alone
  <1>3. IsFiniteSet(open)
    <2>1. CASE open = {}
      BY <2>1, FS_EmptySet
    <2>2. CASE open # {}
      <3>1. PICK a \in open : TRUE
        BY <2>2
      <3>2. open = {a}
        BY <3>1 DEF Solo
      <3> QED
        BY <3>2, FS_Singleton
    <2> QED
      BY <2>1, <2>2
  <1>4. IsFiniteSet(after)
    <2>1. after \subseteq open \cup {r}
      OBVIOUS
    <2>2. IsFiniteSet(open \cup {r})
      BY <1>3, FS_AddElement
    <2> QED
      BY <2>1, <2>2, FS_Subset
  <1> HIDE DEF open, after
  <1>5. Cardinality(after) \in Nat
    BY <1>4, FS_CardinalityType
  <1>6. ASSUME NEW a \in after
        PROVE  job.pc' = "idle" /\ \A b \in after : b = a
    <2>1. IsFiniteSet({a}) /\ Cardinality({a}) = 1
      BY FS_Singleton
    <2>2. 1 <= Cardinality(after)
      BY <1>4, <1>6, <2>1, FS_Subset
    <2>3. ASSUME NEW b \in after, b # a PROVE FALSE
      <3>1. Cardinality({a} \cup {b}) = 2
        BY <2>1, <2>3, FS_AddElement
      <3>2. 2 <= Cardinality(after)
        BY <1>4, <1>6, <2>3, <3>1, FS_Subset
      <3> QED
        BY <1>2, <1>5, <3>2
    <2> QED
      BY <1>2, <1>5, <2>2, <2>3
  <1>7. \A a \in Requests : Busy(a)' <=> a \in after
    BY DEF after
  <1>8. \A a \in Requests : Busy(a)' => job.pc' = "idle" /\ \A b \in Requests : Busy(b)' => b = a
    BY <1>6, <1>7
  <1> QED
    BY <1>8 DEF Solo

-----------------------------------------------------------------------------
(* The reputation and the ledger: one charge or credit.                    *)

\* Both components use the operators of Reputation.
LEMMA SameRecord ==
  ASSUME NEW book, NEW event
  PROVE  P!Record(book, event) = Record(book, event) /\ R!Record(book, event) = Record(book, event)
  BY DEF P!Record, R!Record, Record

LEMMA SameAppend ==
  ASSUME NEW row, NEW event
  PROVE  /\ P!AppendEvent(row, event) = AppendEvent(row, event)
         /\ R!AppendEvent(row, event) = AppendEvent(row, event)
  BY DEF P!AppendEvent, R!AppendEvent, AppendEvent, P!EventDeltas, R!EventDeltas, EventDeltas,
    P!ShouldAutoBan, R!ShouldAutoBan, ShouldAutoBan,
    P!AutoBanThreshold, R!AutoBanThreshold, AutoBanThreshold

\* The sum of a ledger, with the deltas of reputation_event.py.
Points(v, x, c, s, d) == 5 * v - 3 * x + c + 2 * s - 5 * d

LEMMA PointsFacts ==
  ASSUME NEW v \in Nat, NEW x \in Nat, NEW c \in Nat, NEW s \in Nat, NEW d \in Nat
  PROVE  /\ Points(v, x, c, s, d) \in Int
         /\ Points(v + 1, x, c, s, d) = Points(v, x, c, s, d) + 5
         /\ Points(v, x + 1, c, s, d) = Points(v, x, c, s, d) + (-3)
         /\ Points(v, x, c + 1, s, d) = Points(v, x, c, s, d) + 1
         /\ Points(v, x, c, s + 1, d) = Points(v, x, c, s, d) + 2
         /\ Points(v, x, c, s, d + 1) = Points(v, x, c, s, d) + (-5)
  BY DEF Points

LEMMA DeltaFacts ==
  /\ EventDeltas["poi_submitted_verified"] = 5
  /\ EventDeltas["poi_submitted_rejected"] = -3
  /\ EventDeltas["confirmation"] = 1
  /\ EventDeltas["report_submitted_resolved"] = 2
  /\ EventDeltas["report_dismissed_admin"] = -5
  BY DEF EventDeltas

LEMMA SumFacts ==
  ASSUME NEW book \in Ledger
  PROVE  /\ \A e \in EventTypes : book[e] \in Nat
         /\ LedgerSum(book) =
              Points(book["poi_submitted_verified"], book["poi_submitted_rejected"],
                     book["confirmation"], book["report_submitted_resolved"],
                     book["report_dismissed_admin"])
  <1>1. \A e \in EventTypes : book[e] \in Nat
    BY DEF Ledger
  <1> QED
    BY <1>1, DeltaFacts DEF LedgerSum, Points, EventTypes

\* Inserting an event counts it and nothing else, and adds its delta to the sum.
LEMMA RecordFacts ==
  ASSUME NEW book \in Ledger, NEW event \in EventTypes
  PROVE  /\ Record(book, event) \in Ledger
         /\ \A e \in EventTypes :
              Record(book, event)[e] = IF e = event THEN book[e] + 1 ELSE book[e]
         /\ LedgerSum(Record(book, event)) = LedgerSum(book) + EventDeltas[event]
         /\ LedgerSum(book) \in Int /\ EventDeltas[event] \in Int
  <1> DEFINE new == Record(book, event)
  <1>1. new \in Ledger /\ \A e \in EventTypes : new[e] = IF e = event THEN book[e] + 1 ELSE book[e]
    BY DEF Record, Ledger
  <1> HIDE DEF new
  <1>2. LedgerSum(new) =
          Points(new["poi_submitted_verified"], new["poi_submitted_rejected"],
                 new["confirmation"], new["report_submitted_resolved"],
                 new["report_dismissed_admin"])
    BY <1>1, SumFacts
  <1> DEFINE v == book["poi_submitted_verified"]
             x == book["poi_submitted_rejected"]
             c == book["confirmation"]
             s == book["report_submitted_resolved"]
             d == book["report_dismissed_admin"]
  <1>3. LedgerSum(book) = Points(v, x, c, s, d)
    BY SumFacts
  <1>4. v \in Nat /\ x \in Nat /\ c \in Nat /\ s \in Nat /\ d \in Nat
    BY SumFacts DEF EventTypes
  <1>5. LedgerSum(new) = Points(IF event = "poi_submitted_verified" THEN v + 1 ELSE v,
                                IF event = "poi_submitted_rejected" THEN x + 1 ELSE x,
                                IF event = "confirmation" THEN c + 1 ELSE c,
                                IF event = "report_submitted_resolved" THEN s + 1 ELSE s,
                                IF event = "report_dismissed_admin" THEN d + 1 ELSE d)
    BY <1>1, <1>2 DEF EventTypes
  <1> HIDE DEF v, x, c, s, d
  <1>6. LedgerSum(new) = LedgerSum(book) + EventDeltas[event]
    <2>1. /\ Points(v + 1, x, c, s, d) = Points(v, x, c, s, d) + 5
          /\ Points(v, x + 1, c, s, d) = Points(v, x, c, s, d) + (-3)
          /\ Points(v, x, c + 1, s, d) = Points(v, x, c, s, d) + 1
          /\ Points(v, x, c, s + 1, d) = Points(v, x, c, s, d) + 2
          /\ Points(v, x, c, s, d + 1) = Points(v, x, c, s, d) + (-5)
      BY <1>4, PointsFacts
    <2> QED
      BY <1>3, <1>5, <2>1, DeltaFacts DEF EventTypes
  <1>7. LedgerSum(book) \in Int /\ EventDeltas[event] \in Int
    <2>1. Points(v, x, c, s, d) \in Int
      BY <1>4, PointsFacts
    <2> QED
      BY <1>3, <2>1, DeltaFacts DEF EventTypes
  <1> QED
    BY <1>1, <1>6, <1>7 DEF new

\* A row and a ledger that agree still agree after the same event.
LEMMA AppendFacts ==
  ASSUME NEW row \in UserRow, NEW book \in Ledger, NEW event \in EventTypes,
         row.reputation = LedgerSum(book)
  PROVE  /\ AppendEvent(row, event) \in UserRow
         /\ Record(book, event) \in Ledger
         /\ AppendEvent(row, event).reputation = LedgerSum(Record(book, event))
         /\ \A e \in EventTypes :
              Record(book, event)[e] = IF e = event THEN book[e] + 1 ELSE book[e]
  <1> DEFINE rep == row.reputation + EventDeltas[event]
  <1>1. rep \in Int /\ rep = LedgerSum(Record(book, event))
    BY RecordFacts
  <1>2. AppendEvent(row, event) =
          [reputation |-> rep, is_banned |-> row.is_banned \/ ShouldAutoBan(rep)]
    BY DEF AppendEvent
  <1> HIDE DEF rep
  <1>3. (row.is_banned \/ ShouldAutoBan(rep)) \in BOOLEAN
    OBVIOUS
  <1>4. AppendEvent(row, event) \in UserRow /\ AppendEvent(row, event).reputation = rep
    BY <1>1, <1>2, <1>3 DEF UserRow
  <1> QED
    BY <1>1, <1>4, RecordFacts

\* What a commit of a moderation session makes of the submitter it has locked.
LEMMA PoiCharge ==
  ASSUME NEW t, NEW row \in UserRow, NEW book \in Ledger,
         t.who = row, row.reputation = LedgerSum(book)
  PROVE  /\ P!UserAfter(t, row) \in UserRow
         /\ P!LedgerAfter(t, book) \in Ledger
         /\ P!UserAfter(t, row).reputation = LedgerSum(P!LedgerAfter(t, book))
         /\ row.is_banned => P!UserAfter(t, row).is_banned
         /\ P!LedgerAfter(t, book)["report_submitted_resolved"] = book["report_submitted_resolved"]
         /\ P!LedgerAfter(t, book)["report_dismissed_admin"] = book["report_dismissed_admin"]
         /\ P!LedgerAfter(t, book)["confirmation"] =
              IF t.op = "confirm" THEN book["confirmation"] + 1 ELSE book["confirmation"]
  <1> DEFINE once == AppendEvent(row, "confirmation")
             entered == Record(book, "confirmation")
             new == IF t.op = "confirm"
                    THEN IF P!Flips(t) THEN AppendEvent(once, "poi_submitted_verified") ELSE once
                    ELSE AppendEvent(row, "poi_submitted_rejected")
             after == IF t.op = "confirm"
                      THEN IF P!Flips(t) THEN Record(entered, "poi_submitted_verified") ELSE entered
                      ELSE Record(book, "poi_submitted_rejected")
  <1>1. {"confirmation", "poi_submitted_verified", "poi_submitted_rejected",
         "report_submitted_resolved", "report_dismissed_admin"} \subseteq EventTypes
    BY DEF EventTypes
  <1>2. P!LedgerAfter(t, book) = after
    BY SameRecord DEF P!LedgerAfter, P!ConfirmEntries
  <1>3. P!UserAfter(t, row) =
          [reputation |-> new.reputation, is_banned |-> row.is_banned \/ new.is_banned]
    BY SameAppend DEF P!UserAfter, P!ConfirmCredit
  <1>4. /\ once \in UserRow /\ entered \in Ledger
        /\ once.reputation = LedgerSum(entered)
        /\ \A e \in EventTypes : entered[e] = IF e = "confirmation" THEN book[e] + 1 ELSE book[e]
    BY <1>1, AppendFacts
  <1> DEFINE twice == AppendEvent(once, "poi_submitted_verified")
             both == Record(entered, "poi_submitted_verified")
             charged == AppendEvent(row, "poi_submitted_rejected")
             noted == Record(book, "poi_submitted_rejected")
  <1> HIDE DEF once, entered
  <1>8. /\ twice \in UserRow /\ both \in Ledger /\ twice.reputation = LedgerSum(both)
        /\ \A e \in EventTypes :
             both[e] = IF e = "poi_submitted_verified" THEN entered[e] + 1 ELSE entered[e]
    BY <1>1, <1>4, AppendFacts
  <1>9. /\ charged \in UserRow /\ noted \in Ledger /\ charged.reputation = LedgerSum(noted)
        /\ \A e \in EventTypes :
             noted[e] = IF e = "poi_submitted_rejected" THEN book[e] + 1 ELSE book[e]
    BY <1>1, AppendFacts
  <1>10. /\ new = IF t.op = "confirm" THEN IF P!Flips(t) THEN twice ELSE once ELSE charged
         /\ after = IF t.op = "confirm" THEN IF P!Flips(t) THEN both ELSE entered ELSE noted
    OBVIOUS
  <1> HIDE DEF new, after, twice, both, charged, noted
  <1>5. new \in UserRow /\ after \in Ledger /\ new.reputation = LedgerSum(after)
    BY <1>4, <1>8, <1>9, <1>10
  <1>6. /\ after["report_submitted_resolved"] = book["report_submitted_resolved"]
        /\ after["report_dismissed_admin"] = book["report_dismissed_admin"]
        /\ after["confirmation"] =
             IF t.op = "confirm" THEN book["confirmation"] + 1 ELSE book["confirmation"]
    BY <1>1, <1>4, <1>8, <1>9, <1>10
  <1>7. (row.is_banned \/ new.is_banned) \in BOOLEAN /\ new.reputation \in Int
    BY <1>5 DEF UserRow
  <1> QED
    BY <1>2, <1>3, <1>5, <1>6, <1>7 DEF UserRow

\* What the commit of a report session makes of the reporter it has locked.
LEMMA ReportCharge ==
  ASSUME NEW t, NEW row \in UserRow, NEW book \in Ledger,
         t.who = row, row.reputation = LedgerSum(book)
  PROVE  /\ R!UserAfter(t, row) \in UserRow
         /\ R!Record(book, R!ClosingEvent(t)) \in Ledger
         /\ R!UserAfter(t, row).reputation = LedgerSum(R!Record(book, R!ClosingEvent(t)))
         /\ row.is_banned => R!UserAfter(t, row).is_banned
         /\ \A e \in EventTypes : R!Record(book, R!ClosingEvent(t))[e] =
                                    IF e = R!ClosingEvent(t) THEN book[e] + 1 ELSE book[e]
  <1> DEFINE event == R!ClosingEvent(t)
             new == AppendEvent(row, event)
  <1>1. event \in EventTypes
    BY DEF R!ClosingEvent, EventTypes
  <1>2. R!Record(book, event) = Record(book, event)
    BY SameRecord
  <1>3. R!UserAfter(t, row) =
          [reputation |-> new.reputation, is_banned |-> row.is_banned \/ new.is_banned]
    BY SameAppend DEF R!UserAfter
  <1> HIDE DEF event
  <1>4. new \in UserRow /\ new.reputation = LedgerSum(Record(book, event))
    BY <1>1, AppendFacts
  <1> HIDE DEF new
  <1>5. (row.is_banned \/ new.is_banned) \in BOOLEAN /\ new.reputation \in Int
    BY <1>4 DEF UserRow
  <1>6. R!UserAfter(t, row) \in UserRow
    BY <1>3, <1>5 DEF UserRow
  <1>7. /\ R!UserAfter(t, row).reputation = new.reputation
        /\ row.is_banned => R!UserAfter(t, row).is_banned
    BY <1>3, <1>5 DEF UserRow
  <1>8. /\ Record(book, event) \in Ledger
        /\ \A e \in EventTypes : Record(book, event)[e] = IF e = event THEN book[e] + 1 ELSE book[e]
    BY <1>1, RecordFacts
  <1>9. R!ClosingEvent(t) = event
    BY DEF event
  <1> HIDE DEF event
  <1> QED
    BY <1>2, <1>4, <1>6, <1>7, <1>8, <1>9

\* The components' instances of FiniteSets count alike.
LEMMA SameCardinality ==
  \A S : P!Cardinality(S) = Cardinality(S) /\ R!Cardinality(S) = Cardinality(S)
  BY DEF P!Cardinality, R!Cardinality, Cardinality

\* Adding a user to a set of users.
LEMMA AddUser ==
  ASSUME NEW S \in SUBSET Users, NEW u
  PROVE  /\ Cardinality(S) \in Nat /\ Cardinality(S \cup {u}) \in Nat
         /\ Cardinality(S \cup {u}) = IF u \in S THEN Cardinality(S) ELSE Cardinality(S) + 1
  <1>1. IsFiniteSet(S)
    BY BackendAssumption, FS_Subset
  <1>2. Cardinality(S) \in Nat
    BY <1>1, FS_CardinalityType
  <1>3. Cardinality(S \cup {u}) = IF u \in S THEN Cardinality(S) ELSE Cardinality(S) + 1
    BY <1>1, FS_AddElement, Zenon
  <1> QED
    BY <1>2, <1>3

\* The row, the confirmations, the proposals and the notices that a commit of
\* a session with an exact copy leaves agree again.
LEMMA PoiRowAfter ==
  ASSUME NEW t \in P!Session, NEW row \in P!PoiRow, NEW vouchers \in SUBSET Users,
         NEW objectors \in SUBSET Users, NEW told \in Nat,
         PoiAgrees(row, vouchers, objectors, told), t.actor \in Users,
         \/ t.op = "submit" /\ row.status = "absent" /\ t.locks = {}
         \/ /\ t.op \in {"confirm", "propose", "reject", "approve"}
            /\ t.row = row /\ row.status # "absent"
            /\ t.op \in {"confirm", "propose"} => row.status = "active"
            /\ t.op = "confirm" => t.actor \notin vouchers
            /\ t.op = "propose" /\ t.locks = {} =>
                 Cardinality(objectors \cup {t.actor}) < P!RemovalThreshold
  PROVE  /\ P!PoiAfter(t, row) \in P!PoiRow
         /\ PoiAgrees(P!PoiAfter(t, row),
                      IF t.op = "confirm" THEN vouchers \cup {t.actor} ELSE vouchers,
                      IF t.op = "propose" THEN objectors \cup {t.actor} ELSE objectors,
                      IF "user" \in t.locks /\ t.op = "confirm" /\ P!Flips(t)
                      THEN told + 1 ELSE told)
  <1>1. /\ row.status \in {"absent", "active", "removed"}
        /\ row.verification_status \in {"unverified", "verified"}
        /\ row.verification_count \in Nat
        /\ row.source \in Users \cup {Importer}
    BY DEF P!PoiRow, P!Sources
  <1>2. Cardinality(vouchers) \in Nat /\ Cardinality(objectors) \in Nat
    BY AddUser
  <1>3. CASE t.op = "submit"
    <2>1. P!PoiAfter(t, row) = P!SubmittedRow(t.actor, P!IsTrusted(t.who.reputation))
      BY <1>3 DEF P!PoiAfter
    <2>2. P!PoiAfter(t, row) \in P!PoiRow
      BY <2>1 DEF P!SubmittedRow, P!PoiRow, P!Sources
    <2>3. vouchers = {} /\ objectors = {} /\ told = 0
      BY <1>3 DEF PoiAgrees
    <2>4. Cardinality({}) = 0
      BY FS_EmptySet
    <2>5. PoiAgrees(P!PoiAfter(t, row), vouchers, objectors, told)
      BY <2>1, <2>3, <2>4, BackendAssumption DEF PoiAgrees, P!SubmittedRow, P!VerificationThreshold,
        P!RemovalThreshold
    <2> QED
      BY <1>3, <2>2, <2>5
  <1>4. CASE t.op = "confirm"
    <2> DEFINE new == P!PoiAfter(t, row)
    <2>1. new = [row EXCEPT !.verification_count = row.verification_count + 1,
                            !.verification_status = IF P!Flips(t) THEN "verified" ELSE @]
      BY <1>4 DEF P!PoiAfter, P!ConfirmedRow
    <2>7. /\ row.verification_count + 1 \in Nat
          /\ (IF P!Flips(t) THEN "verified" ELSE row.verification_status)
               \in {"unverified", "verified"}
      BY <1>1
    <2>2. new \in P!PoiRow
      BY <2>1, <2>7 DEF P!PoiRow
    <2>3. /\ new.source = row.source /\ new.status = row.status
          /\ new.verification_count = row.verification_count + 1
          /\ new.verification_status = IF P!Flips(t) THEN "verified" ELSE row.verification_status
      BY <2>1 DEF P!PoiRow
    <2>4. P!Flips(t) <=> row.verification_status # "verified" /\ row.verification_count + 1 >= 3
      BY <1>4 DEF P!Flips, P!VerificationThreshold
    <2>5. Cardinality(vouchers \cup {t.actor}) = Cardinality(vouchers) + 1
      BY <1>4, AddUser
    <2> HIDE DEF new
    <2>6. PoiAgrees(new, vouchers \cup {t.actor}, objectors,
                    IF "user" \in t.locks /\ P!Flips(t) THEN told + 1 ELSE told)
      BY <1>1, <1>2, <1>4, <2>3, <2>4, <2>5, BackendAssumption
        DEF PoiAgrees, P!VerificationThreshold, P!RemovalThreshold
    <2> QED
      BY <1>4, <2>2, <2>6 DEF new
  <1>5. CASE t.op = "propose" /\ t.locks = {}
    <2>1. P!PoiAfter(t, row) = row
      BY <1>5 DEF P!PoiAfter
    <2>2. Cardinality(objectors \cup {t.actor}) \in Nat
      BY <1>2, AddUser
    <2>3. PoiAgrees(row, vouchers, objectors \cup {t.actor}, told)
      BY <1>2, <1>5, <2>2 DEF PoiAgrees, P!RemovalThreshold
    <2> QED
      BY <1>5, <2>1, <2>3
  <1>6. CASE t.op \in {"propose", "reject"} /\ t.locks # {}
    <2>1. P!PoiAfter(t, row) = [row EXCEPT !.status = "removed"]
      BY <1>6 DEF P!PoiAfter, P!RemovedRow
    <2> QED
      BY <1>6, <2>1 DEF PoiAgrees, P!PoiRow
  <1>7. CASE t.op = "reject" /\ t.locks = {}
    BY <1>7 DEF P!PoiAfter
  <1>8. CASE t.op = "approve"
    <2>1. P!PoiAfter(t, row) = [row EXCEPT !.verification_status = "verified"]
      BY <1>8 DEF P!PoiAfter, P!ApprovedRow
    <2> QED
      BY <1>8, <2>1 DEF PoiAgrees, P!PoiRow
  <1> QED
    BY <1>3, <1>4, <1>5, <1>6, <1>7, <1>8

-----------------------------------------------------------------------------
(* Statements of a moderation session: no table changes.                   *)

LEMMA PoiClosed == P!Closed \in P!Session /\ PoiSession(P!Closed)
  <1>1. P!NoRow \in P!PoiRow
    BY DEF P!NoRow, P!PoiRow, P!Sources
  <1>2. P!NewUserRow(0) \in P!UserRow
    BY DEF P!NewUserRow, P!UserRow, P!ShouldAutoBan, P!AutoBanThreshold
  <1> QED
    BY <1>1, <1>2 DEF P!Closed, P!Session, P!Sources, P!Steps, PoiSession

LEMMA PoiRollback ==
  ASSUME NEW r, P!Rollback(r)
  PROVE  \E s \in P!Session : P!Become(r, s) /\ PoiSession(s)
  BY PoiClosed DEF P!Rollback

LEMMA PoiBegin ==
  ASSUME Typed, NEW r \in Requests, P!Begin(r)
  PROVE  \E s \in P!Session : P!Become(r, s) /\ PoiSession(s)
  <1>1. PICK u \in Users, p \in Pois :
          \/ P!SubmitBegin(r, u, p) \/ P!ConfirmBegin(r, u, p) \/ P!ProposeBegin(r, u, p)
          \/ P!RejectBegin(r, u, p) \/ P!ApproveBegin(r, u, p)
    BY DEF P!Begin
  <1> DEFINE s(op, pc) == [P!Closed EXCEPT !.op = op, !.pc = pc, !.actor = u,
                                           !.poi = p, !.who = users[u]]
  <1>2. PICK op, pc : /\ P!Become(r, s(op, pc))
                      /\ \/ op = "submit" /\ pc = "commit" /\ pois[p].status = "absent"
                         \/ op \in {"confirm", "propose", "reject", "approve"} /\ pc = "read"
    BY <1>1 DEF P!SubmitBegin, P!ConfirmBegin, P!ProposeBegin, P!RejectBegin, P!ApproveBegin, P!Open
  <1>3. users[u] \in P!UserRow
    BY DEF Typed, P!UserRow, UserRow
  <1>4. s(op, pc) \in P!Session
    BY <1>2, <1>3, PoiClosed DEF P!Session, P!Ops, P!Steps, P!Sources
  <1>5. /\ s(op, pc).op = op /\ s(op, pc).pc = pc /\ s(op, pc).actor = u /\ s(op, pc).poi = p
        /\ s(op, pc).who = users[u] /\ s(op, pc).locks = {}
    BY DEF P!Closed
  <1> HIDE DEF s
  <1>6. PoiSession(s(op, pc))
    BY <1>2, <1>5 DEF PoiSession
  <1> QED
    BY <1>2, <1>4, <1>6

\* The session has read the POI.
LEMMA PoiRead ==
  ASSUME Typed, NEW r \in Requests, PoiSession(poiTxn[r]),
         P!ConfirmRead(r) \/ P!ProposeRead(r) \/ P!RejectRead(r) \/ P!ApproveRead(r)
  PROVE  \E s \in P!Session : P!Become(r, s) /\ PoiSession(s)
  <1> DEFINE t == poiTxn[r]
             s(pc) == [t EXCEPT !.pc = pc, !.row = pois[t.poi]]
  <1>1. t \in P!Session /\ t.pc = "read" /\ t.op \in {"confirm", "propose", "reject", "approve"}
    BY DEF Typed, P!ConfirmRead, P!ProposeRead, P!RejectRead, P!ApproveRead, P!At
  <1>2. /\ t.poi \in Pois /\ t.actor \in Users /\ t.locks = {} /\ t.who = users[t.actor]
    BY <1>1 DEF PoiSession, P!Closed
  <1>3. CASE P!Rollback(r)
    BY <1>3, PoiRollback
  <1>4. CASE ~P!Rollback(r)
    <2>1. PICK pc \in {"insert", "flush"} :
            /\ P!Become(r, s(pc)) /\ pois[t.poi].status # "absent"
            /\ t.op \in {"confirm", "propose"} =>
                 /\ pc = "insert"
                 /\ pois[t.poi].status = "active" /\ pois[t.poi].source # t.actor
      BY <1>1, <1>4 DEF P!ConfirmRead, P!ProposeRead, P!RejectRead, P!ApproveRead, P!ReadPoi, P!At
    <2>2. pois[t.poi] \in P!PoiRow
      BY <1>2 DEF Typed
    <2>3. s(pc) \in P!Session
      BY <1>1, <2>2 DEF P!Session, P!Steps
    <2>4. /\ s(pc).op = t.op /\ s(pc).pc = pc /\ s(pc).actor = t.actor /\ s(pc).poi = t.poi
          /\ s(pc).who = t.who /\ s(pc).locks = t.locks /\ s(pc).row = pois[t.poi]
      BY <1>1 DEF P!Session
    <2> HIDE DEF s, t
    <2>5. PoiSession(s(pc))
      BY <1>1, <1>2, <2>1, <2>4 DEF PoiSession
    <2> QED
      BY <2>1, <2>3, <2>5
  <1> QED
    BY <1>3, <1>4

\* The session has inserted its key, or counted the proposals.
LEMMA PoiInsert ==
  ASSUME Typed, NEW r \in Requests, PoiSession(poiTxn[r]),
         P!ConfirmInsert(r) \/ P!ProposeInsert(r) \/ P!ProposeCount(r)
  PROVE  \E s \in P!Session : P!Become(r, s) /\ PoiSession(s)
  <1> DEFINE t == poiTxn[r]
             s(pc) == [t EXCEPT !.pc = pc]
  <1>1. t \in P!Session /\ t.pc \in {"insert", "count"} /\ t.op \in {"confirm", "propose"}
    BY DEF Typed, P!ConfirmInsert, P!ProposeInsert, P!ProposeCount, P!At
  <1>2. /\ t.poi \in Pois /\ t.actor \in Users /\ t.locks = {} /\ t.who = users[t.actor]
        /\ t.row = pois[t.poi] /\ t.row.status = "active" /\ t.row.source # t.actor
    BY <1>1 DEF PoiSession, P!Closed
  <1>3. CASE P!Rollback(r)
    BY <1>3, PoiRollback
  <1>4. CASE ~P!Rollback(r)
    <2>1. PICK pc \in {"count", "flush", "commit"} :
            /\ P!Become(r, s(pc))
            /\ t.op = "confirm" => pc = "flush" /\ t.actor \notin confirmations[t.poi]
            /\ t.op = "propose" /\ pc = "commit" =>
                 ~(Cardinality(proposals[t.poi] \cup {t.actor}) >= P!RemovalThreshold)
      <3> DEFINE enough == Cardinality(proposals[t.poi] \cup {t.actor}) >= P!RemovalThreshold
      <3>1. CASE P!ConfirmInsert(r)
        <4>1. t.op = "confirm" /\ P!Become(r, s("flush")) /\ t.actor \notin confirmations[t.poi]
          BY <1>4, <3>1 DEF P!ConfirmInsert, P!Goto, P!At
        <4> HIDE DEF s
        <4> QED
          BY <4>1
      <3>2. CASE P!ProposeInsert(r)
        <4>1. t.op = "propose" /\ P!Become(r, s("count"))
          BY <1>4, <3>2 DEF P!ProposeInsert, P!Goto, P!At
        <4> HIDE DEF s
        <4> QED
          BY <4>1
      <3>3. CASE P!ProposeCount(r)
        <4>1. t.op = "propose" /\ P!Goto(r, IF enough THEN "flush" ELSE "commit")
          BY <3>3, SameCardinality DEF P!ProposeCount, P!At
        <4>2. \A pc : P!Goto(r, pc) => P!Become(r, s(pc))
          BY DEF P!Goto
        <4>3. enough \/ ~enough
          OBVIOUS
        <4> HIDE DEF s, t, enough
        <4>4. \E pc \in {"flush", "commit"} :
                P!Become(r, s(pc)) /\ (pc = "commit" => ~enough)
          BY <4>1, <4>2, <4>3
        <4> QED
          BY <4>1, <4>4 DEF enough
      <3> QED
        BY <3>1, <3>2, <3>3
    <2>2. Cardinality(proposals[t.poi] \cup {t.actor}) \in Nat
      <3>1. proposals[t.poi] \in SUBSET Users
        BY <1>2 DEF Typed
      <3> QED
        BY <3>1, AddUser
    <2>3. s(pc) \in P!Session
      BY <1>1 DEF P!Session, P!Steps
    <2>4. /\ s(pc).op = t.op /\ s(pc).pc = pc /\ s(pc).actor = t.actor /\ s(pc).poi = t.poi
          /\ s(pc).who = t.who /\ s(pc).locks = t.locks /\ s(pc).row = t.row
      BY <1>1 DEF P!Session
    <2> HIDE DEF s, t
    <2>5. PoiSession(s(pc))
      BY <1>1, <1>2, <2>1, <2>2, <2>4 DEF PoiSession, P!RemovalThreshold
    <2> QED
      BY <2>1, <2>3, <2>5
  <1> QED
    BY <1>3, <1>4

\* The session has written the POI and selected the submitter.
LEMMA PoiFlush ==
  ASSUME Typed, NEW r \in Requests, PoiSession(poiTxn[r]),
         P!ConfirmFlush(r) \/ P!SoftDelete(r) \/ P!ApproveFlush(r)
  PROVE  \E s \in P!Session : P!Become(r, s) /\ PoiSession(s)
  <1> DEFINE t == poiTxn[r]
             s(pc, who) == [t EXCEPT !.locks = {"poi"}, !.who = who, !.pc = pc]
  <1>1. t \in P!Session /\ t.pc = "flush" /\ t.op \in {"confirm", "propose", "reject", "approve"}
    BY DEF Typed, P!ConfirmFlush, P!SoftDelete, P!ApproveFlush, P!At
  <1>2. /\ t.poi \in Pois /\ t.actor \in Users /\ t.locks = {} /\ t.who = users[t.actor]
        /\ t.row = pois[t.poi] /\ t.row.status # "absent"
        /\ t.op \in {"confirm", "propose"} => t.row.status = "active" /\ t.row.source # t.actor
        /\ t.op = "confirm" => t.actor \notin confirmations[t.poi]
    BY <1>1 DEF PoiSession, P!Closed
  <1>3. t.row.source \in Users => P!SubmitterRow(t) = users[t.row.source]
    BY <1>2 DEF P!SubmitterRow, P!Submitter
  <1>4. PICK pc \in {"credit", "commit"}, who \in {t.who} \cup {users[u] : u \in Users} :
          /\ P!Become(r, s(pc, who))
          /\ pc = "credit" =>
               t.op # "approve" /\ t.row.source \in Users /\ who = users[t.row.source]
          /\ t.op = "confirm" /\ pc = "commit" /\ t.row.source \in Users =>
               users[t.row.source].is_banned
          /\ t.op = "confirm" /\ pc = "credit" => ~users[t.row.source].is_banned
    <2>1. CASE P!ConfirmFlush(r) /\ t.row.source \in Users
      <3>1. P!Become(r, s(IF users[t.row.source].is_banned THEN "commit" ELSE "credit",
                          users[t.row.source]))
        BY <1>3, <2>1 DEF P!ConfirmFlush, P!Submitter
      <3>2. t.op = "confirm"
        BY <2>1 DEF P!ConfirmFlush, P!At
      <3> HIDE DEF s, t
      <3> QED
        BY <2>1, <3>1, <3>2
    <2>2. CASE P!ConfirmFlush(r) /\ t.row.source \notin Users
      <3>1. P!Become(r, [t EXCEPT !.locks = {"poi"}, !.pc = "commit"])
        BY <2>2 DEF P!ConfirmFlush, P!Submitter
      <3>2. [t EXCEPT !.locks = {"poi"}, !.pc = "commit"] = s("commit", t.who)
        BY <1>1 DEF P!Session
      <3> QED
        BY <2>2, <3>1, <3>2
    <2>3. CASE P!SoftDelete(r) /\ t.row.verification_status = "unverified" /\ t.row.source \in Users
      <3>1. P!Become(r, s("credit", users[t.row.source])) /\ t.op \in {"propose", "reject"}
        BY <1>3, <2>3 DEF P!SoftDelete, P!Submitter
      <3> HIDE DEF s, t
      <3> QED
        BY <2>3, <3>1
    <2>4. CASE \/ P!SoftDelete(r) /\ ~(t.row.verification_status = "unverified" /\ t.row.source \in Users)
               \/ P!ApproveFlush(r)
      <3>1. P!Become(r, [t EXCEPT !.locks = {"poi"}, !.pc = "commit"]) /\ t.op # "confirm"
        <4>1. CASE P!ApproveFlush(r)
          <5>1. [t EXCEPT !.pc = "commit", !.locks = {"poi"}] = [t EXCEPT !.locks = {"poi"}, !.pc = "commit"]
            BY <1>1 DEF P!Session
          <5> QED
            BY <4>1, <5>1 DEF P!ApproveFlush, P!At
        <4>2. CASE ~P!ApproveFlush(r)
          BY <2>4, <4>2 DEF P!SoftDelete, P!Submitter
        <4> QED
          BY <4>1, <4>2
      <3>2. [t EXCEPT !.locks = {"poi"}, !.pc = "commit"] = s("commit", t.who)
        BY <1>1 DEF P!Session
      <3> QED
        BY <3>1, <3>2
    <2> QED
      BY <2>1, <2>2, <2>3, <2>4
  <1>5. who \in P!UserRow
    BY <1>1 DEF Typed, P!Session, P!UserRow, UserRow
  <1>6. s(pc, who) \in P!Session
    BY <1>1, <1>5 DEF P!Session, P!Steps
  <1>7. /\ s(pc, who).op = t.op /\ s(pc, who).pc = pc /\ s(pc, who).actor = t.actor
        /\ s(pc, who).poi = t.poi /\ s(pc, who).who = who /\ s(pc, who).locks = {"poi"}
        /\ s(pc, who).row = t.row
    BY <1>1 DEF P!Session
  <1> HIDE DEF s, t
  <1>8. PoiSession(s(pc, who))
    BY <1>1, <1>2, <1>4, <1>7 DEF PoiSession
  <1> QED
    BY <1>4, <1>6, <1>8

\* The session has locked the row of the submitter.
LEMMA PoiLockUser ==
  ASSUME Typed, NEW r \in Requests, PoiSession(poiTxn[r]), P!LockUser(r)
  PROVE  \E s \in P!Session : P!Become(r, s) /\ PoiSession(s)
  <1> DEFINE t == poiTxn[r]
             s == [t EXCEPT !.pc = "commit", !.locks = {"poi", "user"}]
  <1>1. t \in P!Session /\ t.pc = "credit" /\ P!Become(r, s)
    BY DEF Typed, P!LockUser
  <1>2. s \in P!Session
    BY <1>1 DEF P!Session, P!Steps
  <1>3. /\ s.op = t.op /\ s.pc = "commit" /\ s.actor = t.actor /\ s.poi = t.poi
        /\ s.who = t.who /\ s.locks = {"poi", "user"} /\ s.row = t.row
    BY <1>1 DEF P!Session
  <1>4. t.pc = "credit" /\ t # P!Closed /\ t.op # "submit"
    BY <1>1 DEF PoiSession, P!Closed
  <1> HIDE DEF s, t
  <1>5. PoiSession(t)
    BY DEF t
  <1>6. PoiSession(s)
    BY <1>3, <1>4, <1>5 DEF PoiSession
  <1> QED
    BY <1>1, <1>2, <1>6

LEMMA PoiStatement ==
  ASSUME Typed, NEW r \in Requests, PoiSession(poiTxn[r]),
         P!Begin(r) \/ P!Step(r) \/ P!Abort(r), ~P!Commit(r)
  PROVE  \E s \in P!Session : P!Become(r, s) /\ PoiSession(s)
  BY PoiBegin, PoiRead, PoiInsert, PoiFlush, PoiLockUser, PoiRollback DEF P!Step, P!Abort

-----------------------------------------------------------------------------
(* Statements of a report session.                                         *)

LEMMA ReportClosed == R!Closed \in R!Session /\ ReportSession(R!Closed)
  <1>1. R!NoReport \in R!ReportRow
    BY DEF R!NoReport, R!ReportRow, R!Statuses
  <1>2. R!NewUserRow(0) \in R!UserRow
    BY DEF R!NewUserRow, R!UserRow, R!ShouldAutoBan, R!AutoBanThreshold
  <1> QED
    BY <1>1, <1>2 DEF R!Closed, R!Session, R!Steps, ReportSession

LEMMA ReportRollback ==
  ASSUME NEW r, R!Rollback(r)
  PROVE  \E s \in R!Session : R!Become(r, s) /\ ReportSession(s)
  BY ReportClosed DEF R!Rollback

\* A new report carries the time at which its session began.
LEMMA ReportSubmit ==
  ASSUME Typed, NEW r \in Requests, NEW u \in Users, NEW i \in ReportIds, R!SubmitBegin(r, u, i)
  PROVE  \E s \in R!Session : R!Become(r, s) /\ ReportSession(s)
  <1> DEFINE row == [R!NoReport EXCEPT !.created_at = now]
             s == [R!Closed EXCEPT !.op = "submit", !.pc = "commit", !.actor = u,
                                   !.report = i, !.row = row]
  <1>1. R!Become(r, s) /\ reports[i].status = "absent"
    BY DEF R!SubmitBegin
  <1>2. row \in R!ReportRow /\ row.created_at = now
    BY DEF R!NoReport, R!ReportRow, R!Statuses, Typed
  <1> HIDE DEF row
  <1>3. s \in R!Session
    BY <1>2, ReportClosed DEF R!Session, R!Ops, R!Steps
  <1>4. /\ s.op = "submit" /\ s.pc = "commit" /\ s.actor = u /\ s.report = i
        /\ s.row = row /\ s.locks = {}
    BY DEF R!Closed
  <1> HIDE DEF s
  <1>5. ReportSession(s)
    BY <1>1, <1>2, <1>4 DEF ReportSession, row
  <1> QED
    BY <1>1, <1>3, <1>5

LEMMA ReportBegin ==
  ASSUME Typed, NEW r \in Requests, R!Begin(r)
  PROVE  \E s \in R!Session : R!Become(r, s) /\ ReportSession(s)
  <1>1. PICK u \in Users, i \in ReportIds :
          \/ R!SubmitBegin(r, u, i) \/ R!ConfirmBegin(r, u, i)
          \/ R!ResolveBegin(r, u, i) \/ R!DismissBegin(r, u, i)
    BY DEF R!Begin
  <1>2. CASE R!SubmitBegin(r, u, i)
    BY <1>2, ReportSubmit
  <1>3. CASE ~R!SubmitBegin(r, u, i)
    <2> DEFINE s(op) == [R!Closed EXCEPT !.op = op, !.pc = "read", !.actor = u,
                                         !.report = i, !.who = users[u]]
    <2>1. PICK op \in {"confirm", "resolve", "dismiss"} : R!Become(r, s(op))
      BY <1>1, <1>3 DEF R!ConfirmBegin, R!ResolveBegin, R!DismissBegin, R!Open
    <2>2. users[u] \in R!UserRow
      BY DEF Typed, R!UserRow, UserRow
    <2>3. s(op) \in R!Session
      BY <2>2, ReportClosed DEF R!Session, R!Ops, R!Steps
    <2>4. /\ s(op).op = op /\ s(op).pc = "read" /\ s(op).actor = u /\ s(op).report = i
          /\ s(op).who = users[u] /\ s(op).locks = {}
      BY DEF R!Closed
    <2> HIDE DEF s
    <2>5. ReportSession(s(op))
      BY <2>4 DEF ReportSession
    <2> QED
      BY <2>1, <2>3, <2>5
  <1> QED
    BY <1>2, <1>3

\* The session has read the report.
LEMMA ReportRead ==
  ASSUME Typed, NEW r \in Requests, ReportSession(reportTxn[r]),
         R!ConfirmRead(r) \/ R!ResolveRead(r) \/ R!DismissRead(r)
  PROVE  \E s \in R!Session : R!Become(r, s) /\ ReportSession(s)
  <1> DEFINE t == reportTxn[r]
             s(pc) == [t EXCEPT !.pc = pc, !.row = reports[t.report]]
  <1>1. t \in R!Session /\ t.pc = "read" /\ t.op \in {"confirm", "resolve", "dismiss"}
    BY DEF Typed, R!ConfirmRead, R!ResolveRead, R!DismissRead, R!At
  <1>2. t.report \in ReportIds /\ t.actor \in Users /\ t.locks = {} /\ t.who = users[t.actor]
    BY <1>1 DEF ReportSession, R!Closed
  <1>3. CASE R!Rollback(r)
    BY <1>3, ReportRollback
  <1>4. CASE ~R!Rollback(r)
    <2>1. PICK pc \in {"insert", "flush", "commit"} :
            /\ R!Become(r, s(pc)) /\ reports[t.report].status = "active"
            /\ t.op = "confirm" => pc = "insert"
            /\ t.op = "dismiss" => pc = "flush"
            /\ t.op = "resolve" =>
                 pc = IF reports[t.report].reporter = t.actor THEN "commit" ELSE "flush"
      BY <1>1, <1>4 DEF R!ConfirmRead, R!ResolveRead, R!DismissRead, R!ReadReport, R!At
    <2>2. reports[t.report] \in R!ReportRow
      BY <1>2 DEF Typed
    <2>3. s(pc) \in R!Session
      BY <1>1, <2>2 DEF R!Session, R!Steps
    <2>4. /\ s(pc).op = t.op /\ s(pc).pc = pc /\ s(pc).actor = t.actor
          /\ s(pc).report = t.report /\ s(pc).who = t.who /\ s(pc).locks = t.locks
          /\ s(pc).row = reports[t.report]
      BY <1>1 DEF R!Session
    <2> HIDE DEF s, t
    <2>5. ReportSession(s(pc))
      BY <1>1, <1>2, <2>1, <2>4 DEF ReportSession
    <2> QED
      BY <2>1, <2>3, <2>5
  <1> QED
    BY <1>3, <1>4

\* The session has inserted its key.
LEMMA ReportInsert ==
  ASSUME Typed, NEW r \in Requests, ReportSession(reportTxn[r]), R!ConfirmInsert(r)
  PROVE  \E s \in R!Session : R!Become(r, s) /\ ReportSession(s)
  <1> DEFINE t == reportTxn[r]
             s == [t EXCEPT !.pc = "commit"]
  <1>1. t \in R!Session /\ t.pc = "insert" /\ t.op = "confirm"
    BY DEF Typed, R!ConfirmInsert, R!At
  <1>2. CASE R!Rollback(r)
    BY <1>2, ReportRollback
  <1>3. CASE ~R!Rollback(r)
    <2>1. R!Become(r, s) /\ t.actor \notin confirmers[t.report]
      BY <1>3 DEF R!ConfirmInsert, R!Goto
    <2>2. s \in R!Session
      BY <1>1 DEF R!Session, R!Steps
    <2>3. /\ s.op = t.op /\ s.pc = "commit" /\ s.actor = t.actor /\ s.report = t.report
          /\ s.who = t.who /\ s.locks = t.locks /\ s.row = t.row
      BY <1>1 DEF R!Session
    <2>4. t # R!Closed /\ ReportSession(t)
      BY <1>1 DEF R!Closed
    <2> HIDE DEF s, t
    <2>5. ReportSession(s)
      BY <1>1, <2>1, <2>3, <2>4 DEF ReportSession
    <2> QED
      BY <2>1, <2>2, <2>5
  <1> QED
    BY <1>2, <1>3

\* The session has written the report and selected the reporter.
LEMMA ReportFlush ==
  ASSUME Typed, RowsAgree, NEW r \in Requests, ReportSession(reportTxn[r]), R!Flush(r)
  PROVE  \E s \in R!Session : R!Become(r, s) /\ ReportSession(s)
  <1> DEFINE t == reportTxn[r]
             reporter == users[t.row.reporter]
             s(pc) == [t EXCEPT !.locks = {"report"}, !.who = reporter, !.pc = pc]
  <1>1. t \in R!Session /\ t.pc = "flush" /\ t.op \in {"resolve", "dismiss"}
    BY DEF Typed, R!Flush, R!At
  <1>2. /\ t.report \in ReportIds /\ t.actor \in Users /\ t.who = users[t.actor]
        /\ t.row = reports[t.report] /\ t.row.status = "active"
        /\ t.op = "resolve" => t.row.reporter # t.actor
    BY <1>1 DEF ReportSession, R!Closed
  <1>3. R!ReporterRow(t) = reporter
    BY <1>2 DEF R!ReporterRow
  <1>4. PICK pc \in {"credit", "commit"} :
          /\ R!Become(r, s(pc))
          /\ pc = "commit" => t.op = "resolve" /\ reporter.is_banned
    <2>1. R!Become(r, s(IF t.op = "resolve" /\ reporter.is_banned THEN "commit" ELSE "credit"))
      BY <1>3 DEF R!Flush
    <2> HIDE DEF s, t, reporter
    <2> QED
      BY <2>1
  <1>5. t.row.reporter \in Users /\ reporter \in R!UserRow
    BY <1>2 DEF Typed, RowsAgree, ReportAgrees, R!UserRow, UserRow
  <1>6. s(pc) \in R!Session
    BY <1>1, <1>5 DEF R!Session, R!Steps
  <1>7. /\ s(pc).op = t.op /\ s(pc).pc = pc /\ s(pc).actor = t.actor /\ s(pc).report = t.report
        /\ s(pc).who = reporter /\ s(pc).locks = {"report"} /\ s(pc).row = t.row
    BY <1>1 DEF R!Session
  <1> HIDE DEF s, t
  <1>8. ReportSession(s(pc))
    BY <1>1, <1>2, <1>4, <1>7 DEF ReportSession
  <1> QED
    BY <1>4, <1>6, <1>8

LEMMA ReportLockUser ==
  ASSUME Typed, NEW r \in Requests, ReportSession(reportTxn[r]), R!LockUser(r)
  PROVE  \E s \in R!Session : R!Become(r, s) /\ ReportSession(s)
  <1> DEFINE t == reportTxn[r]
             s == [t EXCEPT !.pc = "commit", !.locks = {"report", "user"}]
  <1>1. t \in R!Session /\ t.pc = "credit" /\ R!Become(r, s)
    BY DEF Typed, R!LockUser
  <1>2. s \in R!Session
    BY <1>1 DEF R!Session, R!Steps
  <1>3. /\ s.op = t.op /\ s.pc = "commit" /\ s.actor = t.actor /\ s.report = t.report
        /\ s.who = t.who /\ s.locks = {"report", "user"} /\ s.row = t.row
    BY <1>1 DEF R!Session
  <1>4. t # R!Closed /\ ReportSession(t)
    BY <1>1 DEF R!Closed
  <1> HIDE DEF s, t
  <1>5. ReportSession(s)
    BY <1>1, <1>3, <1>4 DEF ReportSession
  <1> QED
    BY <1>1, <1>2, <1>5

LEMMA ReportStatement ==
  ASSUME Typed, RowsAgree, NEW r \in Requests, ReportSession(reportTxn[r]),
         R!Begin(r) \/ R!Step(r) \/ R!Abort(r), ~R!Commit(r)
  PROVE  \E s \in R!Session : R!Become(r, s) /\ ReportSession(s)
  BY ReportBegin, ReportRead, ReportInsert, ReportFlush, ReportLockUser, ReportRollback
    DEF R!Step, R!Abort

-----------------------------------------------------------------------------
(* COMMIT of a moderation session.                                         *)

\* The confirmations that u may have been paid for.
Credits(u) == {c \in Given : pois[c[1]].source = u}

PaidForCredits ==
  \A u \in Users :
    /\ ledger[u]["confirmation"] <= Cardinality(Credits(u))
    /\ ~users[u].is_banned => ledger[u]["confirmation"] = Cardinality(Credits(u))

LEMMA ConfirmationsLedger == LedgerTellsConfirmations <=> PaidForCredits
  <1>1. ASSUME NEW u
        PROVE  {c \in {p \in Pois : pois[p].source = u} \X Users : c[2] \in confirmations[c[1]]} = Credits(u)
    BY DEF Credits, Given
  <1> QED
    BY <1>1 DEF LedgerTellsConfirmations, PaidForCredits

\* Whom a commit finds in its way: nobody.
LEMMA Undisturbed ==
  ASSUME Solo, NEW r \in Requests, Busy(r)
  PROVE  /\ \A q \in Requests \ {r} : poiTxn[q] = P!Closed /\ reportTxn[q] = R!Closed
         /\ poiTxn[r] = P!Closed \/ reportTxn[r] = R!Closed
  BY DEF Solo, OneHandler, Busy

\* What a commit of an exact session does to each row.
LEMMA PoiCommitRows ==
  ASSUME Typed, RowsAgree, ReputationIsLedgerSum, NEW r \in Requests, PoiSession(poiTxn[r]),
         P!Commit(r)
  PROVE  LET t == poiTxn[r]
             charged == "user" \in t.locks
         IN  /\ t \in P!Session /\ t.poi \in Pois /\ t.actor \in Users
             /\ charged => t.row.source \in Users /\ t.who = users[t.row.source]
             /\ \A p \in Pois : p # t.poi =>
                  /\ pois'[p] = pois[p] /\ confirmations'[p] = confirmations[p]
                  /\ proposals'[p] = proposals[p] /\ poiNotices'[p] = poiNotices[p]
             /\ confirmations'[t.poi] = IF t.op = "confirm" THEN confirmations[t.poi] \cup {t.actor}
                                        ELSE confirmations[t.poi]
             /\ proposals'[t.poi] = IF t.op = "propose" THEN proposals[t.poi] \cup {t.actor}
                                    ELSE proposals[t.poi]
             /\ pois'[t.poi] \in P!PoiRow
             /\ PoiAgrees(pois'[t.poi], confirmations'[t.poi], proposals'[t.poi], poiNotices'[t.poi])
             /\ t.op # "submit" => pois'[t.poi].source = pois[t.poi].source
             /\ t.op = "submit" => pois[t.poi].status = "absent"
             /\ t.op = "confirm" =>
                  /\ t.row.source = pois[t.poi].source /\ t.actor \notin confirmations[t.poi]
                  /\ ~charged /\ t.row.source \in Users => users[t.row.source].is_banned
             /\ \A u \in Users :
                  /\ users'[u] = IF charged /\ u = t.row.source THEN P!UserAfter(t, users[u])
                                 ELSE users[u]
                  /\ ledger'[u] = IF charged /\ u = t.row.source THEN P!LedgerAfter(t, ledger[u])
                                  ELSE ledger[u]
  <1> DEFINE t == poiTxn[r]
             p == t.poi
             told == IF "user" \in t.locks /\ t.op = "confirm" /\ P!Flips(t)
                     THEN poiNotices[p] + 1 ELSE poiNotices[p]
  <1>1. t \in P!Session /\ t.pc = "commit" /\ t # P!Closed
    BY DEF P!Commit, P!Closed, Typed
  <1>2. /\ t.actor \in Users /\ p \in Pois
        /\ \/ t.op = "submit" /\ pois[p].status = "absent" /\ t.locks = {}
           \/ /\ t.op \in {"confirm", "propose", "reject", "approve"}
              /\ t.row = pois[p] /\ pois[p].status # "absent"
              /\ t.op \in {"confirm", "propose"} => pois[p].status = "active"
              /\ t.op = "confirm" => t.actor \notin confirmations[p]
              /\ t.op = "confirm" /\ "user" \notin t.locks /\ t.row.source \in Users =>
                   users[t.row.source].is_banned
              /\ t.op = "propose" /\ t.locks = {} =>
                   Cardinality(proposals[p] \cup {t.actor}) < P!RemovalThreshold
              /\ "user" \in t.locks => t.row.source \in Users /\ t.who = users[t.row.source]
    <2> HIDE DEF t
    <2>1. PoiSession(t)
      BY DEF t
    <2> QED
      BY <1>1, <2>1 DEF PoiSession
  <1>3. /\ pois' = [pois EXCEPT ![p] = P!PoiAfter(t, @)]
        /\ confirmations' = [confirmations EXCEPT ![p] =
                               IF t.op = "confirm" THEN @ \cup {t.actor} ELSE @]
        /\ proposals' = [proposals EXCEPT ![p] =
                           IF t.op = "propose" THEN @ \cup {t.actor} ELSE @]
        /\ IF "user" \in t.locks
           THEN /\ users' = [users EXCEPT ![t.row.source] = P!UserAfter(t, @)]
                /\ ledger' = [ledger EXCEPT ![t.row.source] = P!LedgerAfter(t, @)]
                /\ poiNotices' = [poiNotices EXCEPT ![p] =
                                    IF t.op = "confirm" /\ P!Flips(t) THEN @ + 1 ELSE @]
           ELSE UNCHANGED << users, ledger, poiNotices >>
    BY DEF P!Commit, P!Submitter
  <1> HIDE DEF t
  <1>4. /\ \A x \in Pois : x # p =>
             /\ pois'[x] = pois[x] /\ confirmations'[x] = confirmations[x]
             /\ proposals'[x] = proposals[x] /\ poiNotices'[x] = poiNotices[x]
        /\ pois'[p] = P!PoiAfter(t, pois[p])
        /\ confirmations'[p] = IF t.op = "confirm" THEN confirmations[p] \cup {t.actor}
                               ELSE confirmations[p]
        /\ proposals'[p] = IF t.op = "propose" THEN proposals[p] \cup {t.actor} ELSE proposals[p]
        /\ poiNotices'[p] = told
    BY <1>2, <1>3 DEF Typed
  <1>5. \A u \in Users :
          /\ users'[u] = IF "user" \in t.locks /\ u = t.row.source THEN P!UserAfter(t, users[u])
                         ELSE users[u]
          /\ ledger'[u] = IF "user" \in t.locks /\ u = t.row.source THEN P!LedgerAfter(t, ledger[u])
                          ELSE ledger[u]
    BY <1>3 DEF Typed
  <1>6. /\ pois[p] \in P!PoiRow /\ confirmations[p] \in SUBSET Users
        /\ proposals[p] \in SUBSET Users /\ poiNotices[p] \in Nat
        /\ PoiAgrees(pois[p], confirmations[p], proposals[p], poiNotices[p])
    BY <1>2 DEF Typed, RowsAgree
  <1>7. /\ P!PoiAfter(t, pois[p]) \in P!PoiRow
        /\ PoiAgrees(P!PoiAfter(t, pois[p]),
                     IF t.op = "confirm" THEN confirmations[p] \cup {t.actor} ELSE confirmations[p],
                     IF t.op = "propose" THEN proposals[p] \cup {t.actor} ELSE proposals[p],
                     told)
    BY <1>1, <1>2, <1>6, PoiRowAfter
  <1>8. t.op # "submit" => P!PoiAfter(t, pois[p]).source = pois[p].source
    BY <1>2, <1>6 DEF P!PoiAfter, P!ConfirmedRow, P!RemovedRow, P!ApprovedRow, P!PoiRow
  <1> HIDE DEF told
  <1> QED
    BY <1>1, <1>2, <1>4, <1>5, <1>7, <1>8 DEF t

\* The reports of u that were dismissed, and those that others resolved.
Dismissed(u) == {i \in ReportIds : reports[i].reporter = u /\ reports[i].status = "dismissed"}
Helped(u) ==
  {i \in ReportIds : /\ reports[i].reporter = u /\ reports[i].status = "resolved"
                     /\ reports[i].resolved_by # u}

ChargedForReports ==
  \A u \in Users :
    /\ ledger[u]["report_dismissed_admin"] = Cardinality(Dismissed(u))
    /\ ledger[u]["report_submitted_resolved"] <= Cardinality(Helped(u))
    /\ ~users[u].is_banned => ledger[u]["report_submitted_resolved"] = Cardinality(Helped(u))

LEMMA OutcomeLedger == LedgerTellsOutcome <=> ChargedForReports
  <1> DEFINE mine(u, S) == {i \in ReportIds : reports[i].reporter = u /\ reports[i].status = S}
  <1>1. ASSUME NEW u
        PROVE  /\ mine(u, "dismissed") = Dismissed(u)
               /\ {i \in mine(u, "resolved") : reports[i].resolved_by # u} = Helped(u)
    BY DEF Dismissed, Helped
  <1>2. LedgerTellsOutcome <=>
          \A u \in Users :
            /\ ledger[u]["report_dismissed_admin"] = Cardinality(mine(u, "dismissed"))
            /\ ledger[u]["report_submitted_resolved"]
                 <= Cardinality({i \in mine(u, "resolved") : reports[i].resolved_by # u})
            /\ ~users[u].is_banned =>
                 ledger[u]["report_submitted_resolved"]
                   = Cardinality({i \in mine(u, "resolved") : reports[i].resolved_by # u})
    BY SameCardinality DEF LedgerTellsOutcome, R!LedgerTellsOutcome
  <1> HIDE DEF mine
  <1> QED
    BY <1>1, <1>2 DEF ChargedForReports

LEMMA PoiCommitStep ==
  ASSUME Typed, RowsAgree, LedgersAgree, NEW r \in Requests, PoiSession(poiTxn[r]),
         P!Commit(r), UNCHANGED reportVars
  PROVE  Typed' /\ RowsAgree' /\ LedgersAgree'
  <1> DEFINE t == poiTxn[r]
             p == t.poi
             charged == "user" \in t.locks
  <1>1. /\ t \in P!Session /\ p \in Pois /\ t.actor \in Users
        /\ charged => t.row.source \in Users /\ t.who = users[t.row.source]
        /\ \A x \in Pois : x # p =>
             /\ pois'[x] = pois[x] /\ confirmations'[x] = confirmations[x]
             /\ proposals'[x] = proposals[x] /\ poiNotices'[x] = poiNotices[x]
        /\ confirmations'[p] = IF t.op = "confirm" THEN confirmations[p] \cup {t.actor}
                               ELSE confirmations[p]
        /\ proposals'[p] = IF t.op = "propose" THEN proposals[p] \cup {t.actor} ELSE proposals[p]
    BY PoiCommitRows DEF LedgersAgree
  <1>2. /\ pois'[p] \in P!PoiRow
        /\ PoiAgrees(pois'[p], confirmations'[p], proposals'[p], poiNotices'[p])
        /\ t.op # "submit" => pois'[p].source = pois[p].source
        /\ t.op = "submit" => pois[p].status = "absent"
        /\ t.op = "confirm" =>
             /\ t.row.source = pois[p].source /\ t.actor \notin confirmations[p]
             /\ ~charged /\ t.row.source \in Users => users[t.row.source].is_banned
    BY PoiCommitRows DEF LedgersAgree
  <1>3. \A u \in Users :
          /\ users'[u] = IF charged /\ u = t.row.source THEN P!UserAfter(t, users[u]) ELSE users[u]
          /\ ledger'[u] = IF charged /\ u = t.row.source THEN P!LedgerAfter(t, ledger[u])
                          ELSE ledger[u]
    BY PoiCommitRows DEF LedgersAgree
  <1>4. ASSUME NEW u \in Users
        PROVE  /\ users'[u] \in UserRow /\ ledger'[u] \in Ledger
               /\ users'[u].reputation = LedgerSum(ledger'[u])
               /\ users[u].is_banned => users'[u].is_banned
               /\ ledger'[u]["report_submitted_resolved"] = ledger[u]["report_submitted_resolved"]
               /\ ledger'[u]["report_dismissed_admin"] = ledger[u]["report_dismissed_admin"]
               /\ ledger'[u]["confirmation"] =
                    IF charged /\ u = t.row.source /\ t.op = "confirm"
                    THEN ledger[u]["confirmation"] + 1 ELSE ledger[u]["confirmation"]
    <2>1. /\ users[u] \in UserRow /\ ledger[u] \in Ledger
          /\ users[u].reputation = LedgerSum(ledger[u])
      BY DEF Typed, LedgersAgree, ReputationIsLedgerSum
    <2>2. CASE charged /\ u = t.row.source
      BY <1>1, <1>3, <2>1, <2>2, PoiCharge
    <2>3. CASE ~(charged /\ u = t.row.source)
      BY <1>3, <2>1, <2>3
    <2> QED
      BY <2>2, <2>3
  <1>5. Typed'
    <2>1. pois' \in [Pois -> P!PoiRow]
      BY <1>1, <1>2 DEF Typed, P!Commit
    <2>2. confirmations' \in [Pois -> SUBSET Users] /\ proposals' \in [Pois -> SUBSET Users]
      BY <1>1 DEF Typed, P!Commit
    <2>3. poiNotices' \in [Pois -> Nat]
      BY DEF Typed, P!Commit
    <2>4. poiTxn' \in [Requests -> P!Session]
      BY PoiClosed DEF Typed, P!Commit
    <2>5. users' \in [Users -> UserRow] /\ ledger' \in [Users -> Ledger]
      BY <1>4 DEF Typed, P!Commit
    <2> QED
      BY <2>1, <2>2, <2>3, <2>4, <2>5 DEF Typed, reportVars
  <1>6. RowsAgree'
    <2>1. \A x \in Pois : PoiAgrees(pois'[x], confirmations'[x], proposals'[x], poiNotices'[x])
      BY <1>1, <1>2 DEF RowsAgree
    <2>2. \A i \in ReportIds : ReportAgrees(reports'[i], confirmers'[i], reportNotices'[i])
      BY DEF RowsAgree, reportVars
    <2>3. IsFiniteSet(Given)' /\ IsFiniteSet(Filed)'
      <3>1. Given' \subseteq Given \cup {<< p, t.actor >>}
        BY <1>1 DEF Given
      <3>2. IsFiniteSet(Given \cup {<< p, t.actor >>})
        BY FS_AddElement DEF RowsAgree
      <3>3. IsFiniteSet(Given')
        BY <3>1, <3>2, FS_Subset
      <3>4. Filed' = Filed
        BY DEF Filed, reportVars
      <3> QED
        BY <3>3, <3>4 DEF RowsAgree
    <2> QED
      BY <2>1, <2>2, <2>3 DEF RowsAgree
  <1>7. ReputationIsLedgerSum'
    BY <1>4 DEF ReputationIsLedgerSum, LedgersAgree
  <1>8. ASSUME LedgerTellsOutcome PROVE LedgerTellsOutcome'
    <2>1. \A u \in Users :
            /\ ledger'[u]["report_submitted_resolved"] = ledger[u]["report_submitted_resolved"]
            /\ ledger'[u]["report_dismissed_admin"] = ledger[u]["report_dismissed_admin"]
            /\ ~users'[u].is_banned => ~users[u].is_banned
      BY <1>4
    <2>2. \A u \in Users : Dismissed(u)' = Dismissed(u) /\ Helped(u)' = Helped(u)
      BY DEF Dismissed, Helped, reportVars
    <2>3. ChargedForReports'
      BY <1>8, <2>1, <2>2, OutcomeLedger DEF ChargedForReports
    <2>4. LedgerTellsOutcome' <=> ChargedForReports'
      BY OutcomeLedger, PTL
    <2> QED
      BY <2>3, <2>4
  <1>9. ASSUME LedgerTellsConfirmations PROVE LedgerTellsConfirmations'
    <2> DEFINE pair == << p, t.actor >>
    <2>1. ASSUME NEW u \in Users
          PROVE  IF t.op = "confirm" /\ u = t.row.source
                 THEN pair \notin Credits(u) /\ Credits(u)' = Credits(u) \cup {pair}
                 ELSE Credits(u)' = Credits(u)
      <3>1. CASE t.op = "confirm"
        <4>1. \A x \in Pois : pois'[x].source = pois[x].source
          BY <1>1, <1>2, <3>1
        <4>2. Given' = Given \cup {pair} /\ pair \notin Given
          BY <1>1, <1>2, <3>1 DEF Given
        <4>3. t.row.source = pois[p].source
          BY <1>2, <3>1
        <4> QED
          BY <1>1, <3>1, <4>1, <4>2, <4>3 DEF Credits, Given
      <3>2. CASE t.op # "confirm" /\ t.op # "submit"
        <4>1. \A x \in Pois : pois'[x].source = pois[x].source
          BY <1>1, <1>2, <3>2
        <4>2. Given' = Given
          BY <1>1, <3>2 DEF Given
        <4> QED
          BY <3>2, <4>1, <4>2 DEF Credits, Given
      <3>3. CASE t.op = "submit"
        <4>1. confirmations[p] = {}
          BY <1>1, <1>2, <3>3 DEF RowsAgree, PoiAgrees
        <4>2. confirmations'[p] = {}
          BY <1>1, <3>3, <4>1
        <4> QED
          BY <1>1, <3>3, <4>1, <4>2 DEF Credits, Given
      <3> QED
        BY <3>1, <3>2, <3>3
    <2>2. ASSUME NEW u \in Users
          PROVE  /\ Cardinality(Credits(u)) \in Nat
                 /\ Cardinality(Credits(u)') =
                      IF t.op = "confirm" /\ u = t.row.source THEN Cardinality(Credits(u)) + 1
                      ELSE Cardinality(Credits(u))
      <3>1. IsFiniteSet(Credits(u))
        BY FS_Subset DEF RowsAgree, Credits
      <3>2. Cardinality(Credits(u)) \in Nat
        BY <3>1, FS_CardinalityType
      <3>3. pair \notin Credits(u) => Cardinality(Credits(u) \cup {pair}) = Cardinality(Credits(u)) + 1
        BY <3>1, FS_AddElement
      <3> QED
        BY <2>1, <3>2, <3>3
    <2>3. \A u \in Users : ledger[u]["confirmation"] \in Nat
      BY SumFacts DEF Typed, EventTypes
    <2>4. ASSUME NEW u \in Users
          PROVE  /\ ledger'[u]["confirmation"] <= Cardinality(Credits(u)')
                 /\ ~users'[u].is_banned => ledger'[u]["confirmation"] = Cardinality(Credits(u)')
      <3>1. /\ ledger[u]["confirmation"] <= Cardinality(Credits(u))
            /\ ~users[u].is_banned => ledger[u]["confirmation"] = Cardinality(Credits(u))
        BY <1>9, ConfirmationsLedger DEF PaidForCredits
      <3>2. t.op = "confirm" /\ u = t.row.source /\ ~charged => users'[u].is_banned
        BY <1>2, <1>4
      <3> QED
        BY <1>4, <2>2, <2>3, <3>1, <3>2
    <2>5. LedgerTellsConfirmations' <=> PaidForCredits'
      BY ConfirmationsLedger, PTL
    <2> QED
      BY <2>4, <2>5 DEF PaidForCredits
  <1> QED
    BY <1>5, <1>6, <1>7, <1>8, <1>9 DEF LedgersAgree

-----------------------------------------------------------------------------
(* COMMIT of a report session, and of the job.                             *)

\* Reports end once: a finite set of them grows by the one that is closed.
LEMMA EndedFacts ==
  ASSUME IsFiniteSet(Filed), NEW u, NEW i
  PROVE  /\ Cardinality(Dismissed(u)) \in Nat /\ Cardinality(Helped(u)) \in Nat
         /\ i \notin Dismissed(u) =>
              Cardinality(Dismissed(u) \cup {i}) = Cardinality(Dismissed(u)) + 1
         /\ i \notin Helped(u) => Cardinality(Helped(u) \cup {i}) = Cardinality(Helped(u)) + 1
  <1>1. Dismissed(u) \subseteq Filed /\ Helped(u) \subseteq Filed
    BY DEF Dismissed, Helped, Filed
  <1>2. IsFiniteSet(Dismissed(u)) /\ IsFiniteSet(Helped(u))
    BY <1>1, FS_Subset
  <1> QED
    BY <1>2, FS_CardinalityType, FS_AddElement

\* The row, the confirmations and the notices that a commit of a session with
\* an exact copy leaves agree again.
LEMMA ReportRowAfter ==
  ASSUME NEW t \in R!Session, NEW row \in R!ReportRow, NEW others \in SUBSET Users,
         NEW told \in [resolved : Nat, expired : Nat],
         ReportAgrees(row, others, told), t.actor \in Users,
         \/ /\ t.op = "submit" /\ row.status = "absent"
            /\ t.row = [R!NoReport EXCEPT !.created_at = t.row.created_at]
         \/ /\ t.op \in {"confirm", "resolve", "dismiss"}
            /\ t.row = row /\ row.status = "active"
            /\ t.op = "confirm" => t.actor \notin others
  PROVE  /\ R!ReportAfter(t, row) \in R!ReportRow
         /\ ReportAgrees(R!ReportAfter(t, row),
                         IF t.op = "confirm" THEN others \cup {t.actor} ELSE others,
                         [told EXCEPT !.resolved =
                            IF t.op = "resolve" /\ t.row.reporter # t.actor THEN @ + 1 ELSE @])
  <1> DEFINE new == R!ReportAfter(t, row)
             heard == [told EXCEPT !.resolved =
                         IF t.op = "resolve" /\ t.row.reporter # t.actor THEN @ + 1 ELSE @]
  <1>1. /\ row.confirmation_count \in Nat /\ told.resolved \in Nat /\ told.expired \in Nat
        /\ Cardinality(others) \in Nat /\ t.row.created_at \in Nat
        /\ Nobody \notin Users
    BY AddUser, BackendAssumption DEF R!ReportRow, R!Session
  <1>2. /\ heard.expired = told.expired
        /\ heard.resolved = IF t.op = "resolve" /\ t.row.reporter # t.actor
                            THEN told.resolved + 1 ELSE told.resolved
    OBVIOUS
  <1> HIDE DEF heard
  <1>3. CASE t.op = "submit"
    <2>1. new = [t.row EXCEPT !.status = "active", !.reporter = t.actor]
      BY <1>3 DEF R!ReportAfter
    <2>2. new = [status |-> "active", reporter |-> t.actor, confirmation_count |-> 0,
                 resolved_by |-> Nobody, created_at |-> t.row.created_at]
      BY <1>3, <2>1 DEF R!NoReport
    <2>3. new \in R!ReportRow
      BY <1>1, <2>2 DEF R!ReportRow, R!Statuses
    <2>4. row = R!NoReport /\ others = {}
      BY <1>3 DEF ReportAgrees
    <2>5. told.expired = 0 /\ told.resolved = 0
      BY <1>3 DEF ReportAgrees
    <2>6. Cardinality({}) = 0
      BY FS_EmptySet
    <2>7. ReportAgrees(new, others, heard)
      BY <1>2, <1>3, <2>2, <2>4, <2>5, <2>6 DEF ReportAgrees
    <2> QED
      BY <1>3, <2>3, <2>7 DEF heard
  <1>4. CASE t.op = "confirm"
    <2>1. new = [row EXCEPT !.confirmation_count = row.confirmation_count + 1]
      BY <1>4 DEF R!ReportAfter
    <2>2. row.confirmation_count + 1 \in Nat
      BY <1>1
    <2>3. new \in R!ReportRow
      BY <2>1, <2>2 DEF R!ReportRow
    <2>4. /\ new.status = "active" /\ new.reporter = row.reporter
          /\ new.confirmation_count = row.confirmation_count + 1
      BY <1>4, <2>1 DEF R!ReportRow
    <2>5. Cardinality(others \cup {t.actor}) = Cardinality(others) + 1
      BY <1>4, AddUser
    <2> HIDE DEF new
    <2>6. ReportAgrees(new, others \cup {t.actor}, heard)
      BY <1>1, <1>2, <1>4, <2>4, <2>5 DEF ReportAgrees
    <2> QED
      BY <1>4, <2>3, <2>6 DEF heard, new
  <1>5. CASE t.op \in {"resolve", "dismiss"}
    <2> DEFINE status == IF t.op = "resolve" THEN "resolved" ELSE "dismissed"
    <2>1. new = [row EXCEPT !.status = status, !.resolved_by = t.actor]
      BY <1>5 DEF R!ReportAfter
    <2>2. new \in R!ReportRow
      BY <1>5, <2>1 DEF R!ReportRow, R!Statuses
    <2>3. /\ new.status = status /\ new.reporter = row.reporter /\ new.resolved_by = t.actor
          /\ new.confirmation_count = row.confirmation_count
      BY <2>1 DEF R!ReportRow
    <2> HIDE DEF new
    <2>4. ReportAgrees(new, others, heard)
      BY <1>1, <1>2, <1>5, <2>3 DEF ReportAgrees
    <2> QED
      BY <1>5, <2>2, <2>4 DEF heard, new
  <1> QED
    BY <1>3, <1>4, <1>5

\* What a commit of an exact session does to each row.
LEMMA ReportCommitRows ==
  ASSUME Typed, RowsAgree, NEW r \in Requests, ReportSession(reportTxn[r]), R!Commit(r)
  PROVE  LET t == reportTxn[r]
             charged == "user" \in t.locks
         IN  /\ t \in R!Session /\ t.report \in ReportIds
             /\ t.op \in {"submit", "confirm", "resolve", "dismiss"}
             /\ charged => /\ t.op \in {"resolve", "dismiss"} /\ t.row.reporter \in Users
                           /\ t.who = users[t.row.reporter]
             /\ \A i \in ReportIds : i # t.report =>
                  /\ reports'[i] = reports[i] /\ confirmers'[i] = confirmers[i]
                  /\ reportNotices'[i] = reportNotices[i]
             /\ reports'[t.report] = R!ReportAfter(t, reports[t.report])
             /\ reports'[t.report] \in R!ReportRow
             /\ ReportAgrees(reports'[t.report], confirmers'[t.report], reportNotices'[t.report])
             /\ IF t.op = "submit"
                THEN reports[t.report].status = "absent"
                ELSE t.row = reports[t.report] /\ t.row.status = "active"
             /\ t.op = "submit" => t.row = [R!NoReport EXCEPT !.created_at = t.row.created_at]
             /\ t.op = "dismiss" => charged
             /\ t.op = "resolve" =>
                  IF t.row.reporter = t.actor THEN ~charged
                  ELSE charged \/ users[t.row.reporter].is_banned
             /\ \A u \in Users :
                  /\ users'[u] = IF charged /\ u = t.row.reporter THEN R!UserAfter(t, users[u])
                                 ELSE users[u]
                  /\ ledger'[u] = IF charged /\ u = t.row.reporter
                                  THEN R!Record(ledger[u], R!ClosingEvent(t)) ELSE ledger[u]
  <1> DEFINE t == reportTxn[r]
             i == t.report
             heard == [reportNotices[i] EXCEPT !.resolved =
                         IF t.op = "resolve" /\ t.row.reporter # t.actor THEN @ + 1 ELSE @]
  <1>1. t \in R!Session /\ t.pc = "commit" /\ t # R!Closed
    BY DEF R!Commit, R!Closed, Typed
  <1>2. /\ t.actor \in Users /\ i \in ReportIds
        /\ \/ /\ t.op = "submit" /\ reports[i].status = "absent" /\ t.locks = {}
              /\ t.row = [R!NoReport EXCEPT !.created_at = t.row.created_at]
           \/ /\ t.op \in {"confirm", "resolve", "dismiss"}
              /\ t.row = reports[i] /\ reports[i].status = "active"
              /\ t.op = "confirm" => t.actor \notin confirmers[i] /\ t.locks = {}
              /\ t.op = "dismiss" => "user" \in t.locks
              /\ t.op = "resolve" =>
                   IF t.row.reporter = t.actor THEN "user" \notin t.locks
                   ELSE "user" \in t.locks \/ users[t.row.reporter].is_banned
              /\ "user" \in t.locks => t.who = users[t.row.reporter]
    <2> HIDE DEF t
    <2>1. ReportSession(t)
      BY DEF t
    <2> QED
      BY <1>1, <2>1 DEF ReportSession
  <1>3. /\ reports' = [reports EXCEPT ![i] = R!ReportAfter(t, @)]
        /\ confirmers' = [confirmers EXCEPT ![i] =
                            IF t.op = "confirm" THEN @ \cup {t.actor} ELSE @]
        /\ reportNotices' = [reportNotices EXCEPT ![i].resolved =
                               IF t.op = "resolve" /\ t.row.reporter # t.actor THEN @ + 1 ELSE @]
        /\ IF "user" \in t.locks
           THEN /\ users' = [users EXCEPT ![t.row.reporter] = R!UserAfter(t, @)]
                /\ ledger' = [ledger EXCEPT ![t.row.reporter] = R!Record(@, R!ClosingEvent(t))]
           ELSE UNCHANGED << users, ledger >>
    BY DEF R!Commit
  <1> HIDE DEF t
  <1>4. /\ \A x \in ReportIds : x # i =>
             /\ reports'[x] = reports[x] /\ confirmers'[x] = confirmers[x]
             /\ reportNotices'[x] = reportNotices[x]
        /\ reports'[i] = R!ReportAfter(t, reports[i])
        /\ confirmers'[i] = IF t.op = "confirm" THEN confirmers[i] \cup {t.actor} ELSE confirmers[i]
        /\ reportNotices'[i] = heard
    BY <1>2, <1>3 DEF Typed
  <1>5. \A u \in Users :
          /\ users'[u] = IF "user" \in t.locks /\ u = t.row.reporter THEN R!UserAfter(t, users[u])
                         ELSE users[u]
          /\ ledger'[u] = IF "user" \in t.locks /\ u = t.row.reporter
                          THEN R!Record(ledger[u], R!ClosingEvent(t)) ELSE ledger[u]
    BY <1>3 DEF Typed
  <1>6. /\ reports[i] \in R!ReportRow /\ confirmers[i] \in SUBSET Users
        /\ reportNotices[i] \in [resolved : Nat, expired : Nat]
        /\ ReportAgrees(reports[i], confirmers[i], reportNotices[i])
    BY <1>2 DEF Typed, RowsAgree
  <1>7. /\ R!ReportAfter(t, reports[i]) \in R!ReportRow
        /\ ReportAgrees(R!ReportAfter(t, reports[i]),
                        IF t.op = "confirm" THEN confirmers[i] \cup {t.actor} ELSE confirmers[i],
                        heard)
    BY <1>1, <1>2, <1>6, ReportRowAfter
  <1>8. t.op \in {"resolve", "dismiss"} => t.row.reporter \in Users
    BY <1>2, <1>6 DEF ReportAgrees
  <1> HIDE DEF heard
  <1> QED
    BY <1>1, <1>2, <1>4, <1>5, <1>7, <1>8 DEF t

LEMMA ReportCommitStep ==
  ASSUME Typed, RowsAgree, LedgersAgree, NEW r \in Requests, ReportSession(reportTxn[r]),
         R!Commit(r), UNCHANGED poiVars
  PROVE  Typed' /\ RowsAgree' /\ LedgersAgree'
  <1> DEFINE t == reportTxn[r]
             k == t.report
             u0 == t.row.reporter
             charged == "user" \in t.locks
             event == R!ClosingEvent(t)
  <1>1. /\ t \in R!Session /\ k \in ReportIds
        /\ t.op \in {"submit", "confirm", "resolve", "dismiss"}
        /\ charged => t.op \in {"resolve", "dismiss"} /\ u0 \in Users /\ t.who = users[u0]
        /\ \A i \in ReportIds : i # k =>
             /\ reports'[i] = reports[i] /\ confirmers'[i] = confirmers[i]
             /\ reportNotices'[i] = reportNotices[i]
    BY ReportCommitRows
  <1>2. /\ reports'[k] = R!ReportAfter(t, reports[k])
        /\ reports'[k] \in R!ReportRow
        /\ ReportAgrees(reports'[k], confirmers'[k], reportNotices'[k])
        /\ IF t.op = "submit" THEN reports[k].status = "absent"
           ELSE t.row = reports[k] /\ t.row.status = "active"
        /\ t.op = "submit" => t.row = [R!NoReport EXCEPT !.created_at = t.row.created_at]
        /\ t.op = "dismiss" => charged
        /\ t.op = "resolve" =>
             IF u0 = t.actor THEN ~charged ELSE charged \/ users[u0].is_banned
    BY ReportCommitRows
  <1>3. \A u \in Users :
          /\ users'[u] = IF charged /\ u = u0 THEN R!UserAfter(t, users[u]) ELSE users[u]
          /\ ledger'[u] = IF charged /\ u = u0 THEN R!Record(ledger[u], event) ELSE ledger[u]
    BY ReportCommitRows
  <1>4. event = IF t.op = "resolve" THEN "report_submitted_resolved" ELSE "report_dismissed_admin"
    BY DEF R!ClosingEvent
  <1>5. ASSUME NEW u \in Users
        PROVE  /\ users'[u] \in UserRow /\ ledger'[u] \in Ledger
               /\ users'[u].reputation = LedgerSum(ledger'[u])
               /\ users[u].is_banned => users'[u].is_banned
               /\ \A e \in EventTypes :
                    /\ ledger[u][e] \in Nat
                    /\ ledger'[u][e] = IF charged /\ u = u0 /\ e = event
                                       THEN ledger[u][e] + 1 ELSE ledger[u][e]
    <2>1. /\ users[u] \in UserRow /\ ledger[u] \in Ledger
          /\ users[u].reputation = LedgerSum(ledger[u])
      BY DEF Typed, LedgersAgree, ReputationIsLedgerSum
    <2>2. CASE charged /\ u = u0
      BY <1>1, <1>3, <2>1, <2>2, ReportCharge, SumFacts
    <2>3. CASE ~(charged /\ u = u0)
      BY <1>3, <2>1, <2>3, SumFacts
    <2> QED
      BY <2>2, <2>3
  <1>6. {"confirmation", "report_submitted_resolved", "report_dismissed_admin"} \subseteq EventTypes
    BY DEF EventTypes
  <1>7. Typed'
    <2>1. reports' \in [ReportIds -> R!ReportRow]
      BY <1>1, <1>2 DEF Typed, R!Commit
    <2>2. confirmers' \in [ReportIds -> SUBSET Users]
      <3>1. t.op = "confirm" => t.actor \in Users
        BY <1>1 DEF ReportSession, R!Closed
      <3> QED
        BY <3>1 DEF Typed, R!Commit
    <2>3. reportNotices' \in [ReportIds -> [resolved : Nat, expired : Nat]]
      <3> DEFINE n == IF t.op = "resolve" /\ u0 # t.actor
                      THEN reportNotices[k].resolved + 1 ELSE reportNotices[k].resolved
      <3>1. reportNotices[k] \in [resolved : Nat, expired : Nat]
        BY <1>1 DEF Typed
      <3>2. n \in Nat
        BY <3>1
      <3>3. reportNotices' = [reportNotices EXCEPT ![k] = [reportNotices[k] EXCEPT !.resolved = n]]
        BY <1>1 DEF R!Commit, Typed
      <3> HIDE DEF n
      <3>4. [reportNotices[k] EXCEPT !.resolved = n] \in [resolved : Nat, expired : Nat]
        BY <3>1, <3>2
      <3> QED
        BY <3>3, <3>4 DEF Typed
    <2>4. /\ reportTxn' \in [Requests -> R!Session] /\ now' \in Nat
          /\ job' \in [pc : {"idle", "update", "commit"}, due : SUBSET ReportIds, failures : Nat]
      BY ReportClosed DEF Typed, R!Commit
    <2>5. users' \in [Users -> UserRow] /\ ledger' \in [Users -> Ledger]
      BY <1>5 DEF Typed, R!Commit
    <2> QED
      BY <2>1, <2>2, <2>3, <2>4, <2>5 DEF Typed, poiVars
  <1>8. RowsAgree'
    <2>1. \A i \in ReportIds : ReportAgrees(reports'[i], confirmers'[i], reportNotices'[i])
      BY <1>1, <1>2 DEF RowsAgree
    <2>2. \A p \in Pois : PoiAgrees(pois'[p], confirmations'[p], proposals'[p], poiNotices'[p])
      BY DEF RowsAgree, poiVars
    <2>3. IsFiniteSet(Filed')
      <3>1. Filed' \subseteq Filed \cup {k}
        BY <1>1 DEF Filed
      <3>2. IsFiniteSet(Filed \cup {k})
        BY FS_AddElement DEF RowsAgree
      <3> QED
        BY <3>1, <3>2, FS_Subset
    <2>4. Given' = Given
      BY DEF Given, poiVars
    <2> QED
      BY <2>1, <2>2, <2>3, <2>4 DEF RowsAgree
  <1>9. ReputationIsLedgerSum'
    BY <1>5 DEF ReputationIsLedgerSum
  <1>10. ASSUME LedgerTellsConfirmations PROVE LedgerTellsConfirmations'
    <2>1. \A u \in Users : ledger'[u]["confirmation"] = ledger[u]["confirmation"]
      BY <1>4, <1>5, <1>6
    <2>2. \A u : Credits(u)' = Credits(u)
      BY DEF Credits, Given, poiVars
    <2>3. PaidForCredits'
      BY <1>5, <1>10, <2>1, <2>2, ConfirmationsLedger DEF PaidForCredits
    <2>4. LedgerTellsConfirmations' <=> PaidForCredits'
      BY ConfirmationsLedger, PTL
    <2> QED
      BY <2>3, <2>4
  <1>11. ASSUME LedgerTellsOutcome PROVE LedgerTellsOutcome'
    <2>1. /\ t.op = "submit" => reports'[k].status = "active"
          /\ t.op = "confirm" => reports'[k].status = "active"
          /\ t.op = "resolve" => /\ reports'[k].status = "resolved"
                                 /\ reports'[k].resolved_by = t.actor
                                 /\ reports'[k].reporter = u0
          /\ t.op = "dismiss" => reports'[k].status = "dismissed" /\ reports'[k].reporter = u0
      <3>1. reports[k] \in R!ReportRow /\ t.row \in R!ReportRow
        BY <1>1 DEF Typed, R!Session
      <3> HIDE DEF t, k
      <3>2. t.op = "submit" => R!ReportAfter(t, reports[k]).status = "active"
        BY <3>1 DEF R!ReportAfter, R!ReportRow
      <3> QED
        BY <1>2, <3>1, <3>2 DEF R!ReportAfter, R!ReportRow, u0
    <2>2. t.op # "submit" => reports[k].status = "active" /\ u0 = reports[k].reporter
      BY <1>2
    <2>3. ASSUME NEW u \in Users
          PROVE  /\ k \notin Dismissed(u) /\ k \notin Helped(u)
                 /\ Dismissed(u)' = IF t.op = "dismiss" /\ u = u0 THEN Dismissed(u) \cup {k}
                                    ELSE Dismissed(u)
                 /\ Helped(u)' = IF t.op = "resolve" /\ u = u0 /\ t.actor # u
                                 THEN Helped(u) \cup {k} ELSE Helped(u)
      <3>1. reports[k].status \in {"absent", "active"}
        BY <1>2
      <3> HIDE DEF t, k, u0
      <3>2. k \notin Dismissed(u) /\ k \notin Helped(u)
        BY <3>1 DEF Dismissed, Helped
      <3>3. Dismissed(u)' = IF t.op = "dismiss" /\ u = u0 THEN Dismissed(u) \cup {k}
                            ELSE Dismissed(u)
        BY <1>1, <2>1, <3>1 DEF Dismissed
      <3>4. Helped(u)' = IF t.op = "resolve" /\ u = u0 /\ t.actor # u
                         THEN Helped(u) \cup {k} ELSE Helped(u)
        BY <1>1, <2>1, <3>1 DEF Helped
      <3> QED
        BY <3>2, <3>3, <3>4
    <2>4. ASSUME NEW u \in Users
          PROVE  /\ ledger'[u]["report_dismissed_admin"] = Cardinality(Dismissed(u)')
                 /\ ledger'[u]["report_submitted_resolved"] <= Cardinality(Helped(u)')
                 /\ ~users'[u].is_banned =>
                      ledger'[u]["report_submitted_resolved"] = Cardinality(Helped(u)')
      <3>1. /\ ledger[u]["report_dismissed_admin"] = Cardinality(Dismissed(u))
            /\ ledger[u]["report_submitted_resolved"] <= Cardinality(Helped(u))
            /\ ~users[u].is_banned =>
                 ledger[u]["report_submitted_resolved"] = Cardinality(Helped(u))
        BY <1>11, OutcomeLedger DEF ChargedForReports
      <3>2. /\ Cardinality(Dismissed(u)) \in Nat /\ Cardinality(Helped(u)) \in Nat
            /\ Cardinality(Dismissed(u)') = IF t.op = "dismiss" /\ u = u0
                                            THEN Cardinality(Dismissed(u)) + 1
                                            ELSE Cardinality(Dismissed(u))
            /\ Cardinality(Helped(u)') = IF t.op = "resolve" /\ u = u0 /\ t.actor # u
                                         THEN Cardinality(Helped(u)) + 1
                                         ELSE Cardinality(Helped(u))
        BY <2>3, EndedFacts DEF RowsAgree
      <3>3. /\ ledger[u]["report_submitted_resolved"] \in Nat
            /\ ledger'[u]["report_dismissed_admin"] =
                 IF charged /\ u = u0 /\ event = "report_dismissed_admin"
                 THEN ledger[u]["report_dismissed_admin"] + 1
                 ELSE ledger[u]["report_dismissed_admin"]
            /\ ledger'[u]["report_submitted_resolved"] =
                 IF charged /\ u = u0 /\ event = "report_submitted_resolved"
                 THEN ledger[u]["report_submitted_resolved"] + 1
                 ELSE ledger[u]["report_submitted_resolved"]
        BY <1>5, <1>6
      <3>4. users[u].is_banned => users'[u].is_banned
        BY <1>5
      <3> HIDE DEF event, t, u0, charged
      <3> QED
        BY <1>1, <1>2, <1>4, <3>1, <3>2, <3>3, <3>4 DEF charged, u0
    <2>5. LedgerTellsOutcome' <=> ChargedForReports'
      BY OutcomeLedger, PTL
    <2> QED
      BY <2>4, <2>5 DEF ChargedForReports
  <1> QED
    BY <1>7, <1>8, <1>9, <1>10, <1>11 DEF LedgersAgree

\* The job expires reports that are still active, and notifies each reporter.
LEMMA ExpireCommitStep ==
  ASSUME Typed, RowsAgree, LedgersAgree, JobAgrees, R!ExpireCommit, UNCHANGED poiVars
  PROVE  Typed' /\ RowsAgree' /\ LedgersAgree'
  <1>1. /\ reports' = [i \in ReportIds |-> IF i \in job.due THEN R!ExpireRow(reports[i])
                                           ELSE reports[i]]
        /\ reportNotices' = [i \in ReportIds |->
                               IF i \in job.due THEN [reportNotices[i] EXCEPT !.expired = @ + 1]
                               ELSE reportNotices[i]]
        /\ UNCHANGED << confirmers, users, ledger, reportTxn, now >>
    BY DEF R!ExpireCommit
  <1>2. ASSUME NEW i \in ReportIds
        PROVE  /\ reports'[i] \in R!ReportRow
               /\ reportNotices'[i] \in [resolved : Nat, expired : Nat]
               /\ ReportAgrees(reports'[i], confirmers'[i], reportNotices'[i])
               /\ i \in job.due => reports[i].status = "active" /\ reports'[i].status = "expired"
               /\ i \notin job.due => reports'[i] = reports[i]
    <2> DEFINE row == reports[i]
               told == reportNotices[i]
               new == [row EXCEPT !.status = "expired"]
               heard == [told EXCEPT !.expired = told.expired + 1]
    <2>1. /\ row \in R!ReportRow /\ told \in [resolved : Nat, expired : Nat]
          /\ ReportAgrees(row, confirmers[i], told)
      BY DEF Typed, RowsAgree
    <2>2. CASE i \in job.due
      <3>1. row.status = "active"
        BY <2>2 DEF JobAgrees
      <3>2. reports'[i] = new /\ reportNotices'[i] = heard
        BY <1>1, <2>2 DEF R!ExpireRow
      <3>3. told.expired + 1 \in Nat
        BY <2>1
      <3>4. /\ new \in R!ReportRow /\ heard \in [resolved : Nat, expired : Nat]
            /\ new.status = "expired" /\ new.reporter = row.reporter
            /\ new.confirmation_count = row.confirmation_count
            /\ heard.expired = told.expired + 1 /\ heard.resolved = told.resolved
        BY <2>1, <3>3 DEF R!ReportRow, R!Statuses
      <3> HIDE DEF row, told, new, heard
      <3>5. ReportAgrees(new, confirmers[i], heard)
        BY <2>1, <3>1, <3>4 DEF ReportAgrees
      <3> QED
        BY <1>1, <2>2, <3>1, <3>2, <3>4, <3>5 DEF row
    <2>3. CASE i \notin job.due
      BY <1>1, <2>1, <2>3
    <2> QED
      BY <2>2, <2>3
  <1>3. Typed'
    <2>1. job' \in [pc : {"idle", "update", "commit"}, due : SUBSET ReportIds, failures : Nat]
      BY DEF Typed, R!ExpireCommit
    <2> QED
      BY <1>1, <1>2, <2>1 DEF Typed, poiVars
  <1>4. RowsAgree'
    <2>1. \A p \in Pois : PoiAgrees(pois'[p], confirmations'[p], proposals'[p], poiNotices'[p])
      BY DEF RowsAgree, poiVars
    <2>2. Filed' = Filed
      BY <1>2 DEF Filed
    <2>3. Given' = Given
      BY DEF Given, poiVars
    <2> QED
      BY <1>2, <2>1, <2>2, <2>3 DEF RowsAgree
  <1>5. LedgersAgree'
    <2>1. ReputationIsLedgerSum'
      BY <1>1 DEF LedgersAgree, ReputationIsLedgerSum
    <2>2. LedgerTellsConfirmations => LedgerTellsConfirmations'
      BY <1>1 DEF LedgerTellsConfirmations, poiVars
    <2>3. ASSUME LedgerTellsOutcome PROVE LedgerTellsOutcome'
      <3>1. \A u \in Users : Dismissed(u)' = Dismissed(u) /\ Helped(u)' = Helped(u)
        BY <1>2 DEF Dismissed, Helped
      <3>2. ChargedForReports'
        BY <1>1, <2>3, <3>1, OutcomeLedger DEF ChargedForReports
      <3>3. LedgerTellsOutcome' <=> ChargedForReports'
        BY OutcomeLedger, PTL
      <3> QED
        BY <3>2, <3>3
    <2> QED
      BY <2>1, <2>2, <2>3 DEF LedgersAgree
  <1> QED
    BY <1>3, <1>4, <1>5

-----------------------------------------------------------------------------
(* The induction.                                                          *)

tables == << users, ledger, pois, confirmations, proposals, poiNotices,
             reports, confirmers, reportNotices >>

\* While no table changes, what a session relies on stays true.
LEMMA SessionsStay ==
  ASSUME UNCHANGED tables, NEW s
  PROVE  /\ PoiSession(s) => \A q : poiTxn'[q] = s => PoiSession(poiTxn[q])'
         /\ ReportSession(s) => \A q : reportTxn'[q] = s => ReportSession(reportTxn[q])'
  <1>1. ASSUME PoiSession(s), NEW q, poiTxn'[q] = s PROVE PoiSession(poiTxn[q])'
    BY <1>1 DEF PoiSession, tables
  <1>2. ASSUME ReportSession(s), NEW q, reportTxn'[q] = s PROVE ReportSession(reportTxn[q])'
    BY <1>2 DEF ReportSession, tables
  <1> QED
    BY <1>1, <1>2

LEMMA TablesStay ==
  ASSUME RowsAgree, LedgersAgree, UNCHANGED tables
  PROVE  RowsAgree' /\ LedgersAgree'
  <1>1. RowsAgree'
    <2>1. Given' = Given /\ Filed' = Filed
      BY DEF Given, Filed, tables
    <2> QED
      BY <2>1 DEF RowsAgree, tables
  <1>2. LedgersAgree'
    <2>1. ReputationIsLedgerSum' <=> ReputationIsLedgerSum
      BY DEF ReputationIsLedgerSum, tables
    <2>2. LedgerTellsOutcome' <=> LedgerTellsOutcome
      BY DEF LedgerTellsOutcome, R!LedgerTellsOutcome, tables
    <2>3. LedgerTellsConfirmations' <=> LedgerTellsConfirmations
      BY DEF LedgerTellsConfirmations, tables
    <2> QED
      BY <2>1, <2>2, <2>3 DEF LedgersAgree
  <1> QED
    BY <1>1, <1>2

\* A statement of a session of either component.
LEMMA StatementStep ==
  ASSUME SInv, Alone', OneHandler', NEW r \in Requests, UNCHANGED << tables, job, now >>,
         \/ /\ UNCHANGED reportTxn
            /\ \E s \in P!Session : poiTxn' = [poiTxn EXCEPT ![r] = s] /\ PoiSession(s)
         \/ /\ UNCHANGED poiTxn
            /\ \E s \in R!Session : reportTxn' = [reportTxn EXCEPT ![r] = s] /\ ReportSession(s)
  PROVE  SInv'
  <1>1. Typed'
    BY DEF SInv, Typed, tables
  <1>2. \A q \in Requests : q # r => poiTxn'[q] = poiTxn[q] /\ reportTxn'[q] = reportTxn[q]
    BY DEF SInv, Typed
  <1>3. Solo'
    <2>1. \A q \in Requests : Busy(q)' => Busy(q) \/ q = r
      BY <1>2 DEF Busy
    <2> QED
      BY <2>1, AloneSolo DEF SInv
  <1>4. SessionsExact'
    <2>1. \A q \in Requests : PoiSession(poiTxn'[q]) /\ ReportSession(reportTxn'[q])
      BY <1>2 DEF SInv, SessionsExact, Typed
    <2>2. \A q \in Requests : PoiSession(poiTxn[q])' /\ ReportSession(reportTxn[q])'
      BY <2>1, SessionsStay
    <2>3. JobAgrees'
      BY DEF SInv, SessionsExact, JobAgrees, tables
    <2> QED
      BY <2>2, <2>3 DEF SessionsExact
  <1> QED
    BY <1>1, <1>3, <1>4, TablesStay DEF SInv

\* After the commit of the only open session none is open.
LEMMA AllClosed ==
  ASSUME SInv, OneHandler', NEW r \in Requests, Busy(r), UNCHANGED job,
         \/ /\ UNCHANGED reportTxn /\ poiTxn' = [poiTxn EXCEPT ![r] = P!Closed]
            /\ reportTxn[r] = R!Closed
         \/ /\ UNCHANGED poiTxn /\ reportTxn' = [reportTxn EXCEPT ![r] = R!Closed]
            /\ poiTxn[r] = P!Closed
  PROVE  /\ Solo'
         /\ \A q \in Requests : PoiSession(poiTxn[q])' /\ ReportSession(reportTxn[q])'
  <1>1. \A q \in Requests : poiTxn'[q] = P!Closed /\ reportTxn'[q] = R!Closed
    BY Undisturbed DEF SInv, Typed
  <1>2. \A q \in Requests : ~Busy(q)'
    BY <1>1 DEF Busy
  <1>3. Solo'
    BY <1>2 DEF Solo
  <1>4. \A q \in Requests : PoiSession(poiTxn[q])' /\ ReportSession(reportTxn[q])'
    BY <1>1 DEF PoiSession, ReportSession
  <1> QED
    BY <1>3, <1>4

LEMMA PoiSerialStep ==
  ASSUME SInv, PoiStep, Alone'
  PROVE  SInv'
  <1>1. PICK r \in Requests : P!Begin(r) \/ P!Step(r) \/ P!Abort(r)
    BY DEF PoiStep, P!Next
  <1>2. PoiSession(poiTxn[r])
    BY DEF SInv, SessionsExact
  <1>3. CASE P!Commit(r)
    <2>1. Typed' /\ RowsAgree' /\ LedgersAgree'
      BY <1>2, <1>3, PoiCommitStep DEF SInv, PoiStep
    <2>2. poiTxn[r] # P!Closed /\ reportTxn[r] = R!Closed
      BY <1>3 DEF P!Commit, P!Closed, SInv, Solo, OneHandler
    <2>3. poiTxn' = [poiTxn EXCEPT ![r] = P!Closed] /\ UNCHANGED << reportTxn, job >>
      BY <1>3 DEF P!Commit, PoiStep, reportVars
    <2>4. Solo' /\ \A q \in Requests : PoiSession(poiTxn[q])' /\ ReportSession(reportTxn[q])'
      BY <2>2, <2>3, AllClosed DEF Busy, PoiStep
    <2>5. JobAgrees'
      BY DEF SInv, SessionsExact, JobAgrees, PoiStep, reportVars
    <2> QED
      BY <2>1, <2>4, <2>5 DEF SInv, SessionsExact
  <1>4. CASE ~P!Commit(r)
    <2>1. \E s \in P!Session : P!Become(r, s) /\ PoiSession(s)
      BY <1>1, <1>2, <1>4, PoiStatement DEF SInv
    <2>2. /\ \E s \in P!Session : poiTxn' = [poiTxn EXCEPT ![r] = s] /\ PoiSession(s)
          /\ UNCHANGED << tables, job, now, reportTxn >>
      BY <2>1 DEF P!Become, P!tables, tables, PoiStep, reportVars
    <2> QED
      BY <2>2, StatementStep DEF PoiStep
  <1> QED
    BY <1>3, <1>4

\* The job selects, waits or fails; the clock ticks.
LEMMA JobStep ==
  ASSUME SInv, UNCHANGED poiVars, OneHandler', Alone',
         R!ExpireSelect \/ R!ExpireUpdate \/ R!ExpireFail \/ R!Tick
  PROVE  SInv'
  <1>1. UNCHANGED << tables, poiTxn, reportTxn >>
    BY DEF R!ExpireSelect, R!ExpireUpdate, R!ExpireFail, R!Tick, R!tables, tables, poiVars
  <1> DEFINE Jobs == [pc : {"idle", "update", "commit"}, due : SUBSET ReportIds, failures : Nat]
  <1>7. job \in Jobs /\ now \in Nat
    BY DEF SInv, Typed
  <1>8. R!Due \in SUBSET ReportIds /\ \A i \in R!Due : reports[i].status = "active"
    BY DEF R!Due
  <1>2. /\ now' \in Nat /\ job' \in Jobs
        /\ \/ job'.pc = "update" /\ job'.due = R!Due
           \/ job.pc # "idle" /\ job'.pc = "commit" /\ job'.due = job.due
           \/ job'.pc = "idle" /\ job'.due = {}
           \/ job' = job
    <2>1. CASE R!ExpireSelect
      <3>1. job' = [job EXCEPT !.pc = "update", !.due = R!Due] /\ now' = now
        BY <2>1 DEF R!ExpireSelect
      <3> QED
        BY <1>7, <1>8, <3>1
    <2>2. CASE R!ExpireUpdate
      <3>1. job' = [job EXCEPT !.pc = "commit"] /\ now' = now /\ job.pc = "update"
        BY <2>2 DEF R!ExpireUpdate
      <3> QED
        BY <1>7, <3>1
    <2>3. CASE R!ExpireFail
      <3>1. job' = [pc |-> "idle", due |-> {}, failures |-> job.failures + 1] /\ now' = now
        BY <2>3 DEF R!ExpireFail
      <3> QED
        BY <1>7, <3>1
    <2>4. CASE R!Tick
      <3>1. now' = now + 1 /\ job' = job
        BY <2>4 DEF R!Tick
      <3> QED
        BY <1>7, <3>1
    <2> QED
      BY <2>1, <2>2, <2>3, <2>4
  <1>3. Typed'
    BY <1>1, <1>2 DEF SInv, Typed, tables
  <1>4. Solo'
    <2>1. \A q \in Requests : Busy(q)' <=> Busy(q)
      BY <1>1 DEF Busy
    <2> QED
      BY <2>1, AloneSolo DEF SInv
  <1>5. JobAgrees'
    BY <1>1, <1>2, <1>8 DEF SInv, SessionsExact, JobAgrees, tables
  <1>6. SessionsExact'
    BY <1>1, <1>5, SessionsStay DEF SInv, SessionsExact
  <1> QED
    BY <1>1, <1>3, <1>4, <1>6, TablesStay DEF SInv

LEMMA ReportSerialStep ==
  ASSUME SInv, ReportStep, Alone'
  PROVE  SInv'
  <1>1. UNCHANGED poiVars /\ OneHandler'
    BY DEF ReportStep
  <1>2. CASE R!ExpireCommit
    <2>1. Typed' /\ RowsAgree' /\ LedgersAgree'
      BY <1>1, <1>2, ExpireCommitStep DEF SInv, SessionsExact
    <2>2. UNCHANGED << poiTxn, reportTxn >>
      BY <1>1, <1>2 DEF R!ExpireCommit, poiVars
    <2>3. \A q \in Requests : ~Busy(q)
      BY <1>2 DEF SInv, Solo, R!ExpireCommit
    <2>4. \A q \in Requests : ~Busy(q)' /\ poiTxn'[q] = P!Closed /\ reportTxn'[q] = R!Closed
      BY <2>2, <2>3 DEF Busy
    <2>5. Solo'
      BY <1>1, <2>4 DEF Solo
    <2>6. \A q \in Requests : PoiSession(poiTxn[q])' /\ ReportSession(reportTxn[q])'
      BY <2>4 DEF PoiSession, ReportSession
    <2>7. JobAgrees'
      BY <1>2 DEF R!ExpireCommit, JobAgrees, SInv, Typed
    <2> QED
      BY <2>1, <2>5, <2>6, <2>7 DEF SInv, SessionsExact
  <1>3. CASE R!ExpireSelect \/ R!ExpireUpdate \/ R!ExpireFail \/ R!Tick
    BY <1>1, <1>3, JobStep
  <1>4. ASSUME NEW r \in Requests, R!Begin(r) \/ R!Step(r) \/ R!Abort(r)
        PROVE  SInv'
    <2>1. ReportSession(reportTxn[r])
      BY DEF SInv, SessionsExact
    <2>2. CASE R!Commit(r)
      <3>1. Typed' /\ RowsAgree' /\ LedgersAgree'
        BY <1>1, <2>1, <2>2, ReportCommitStep DEF SInv
      <3>2. reportTxn[r] # R!Closed /\ poiTxn[r] = P!Closed
        BY <2>2 DEF R!Commit, R!Closed, SInv, Solo, OneHandler
      <3>3. reportTxn' = [reportTxn EXCEPT ![r] = R!Closed] /\ UNCHANGED << poiTxn, job >>
        BY <1>1, <2>2 DEF R!Commit, poiVars
      <3>4. Solo' /\ \A q \in Requests : PoiSession(poiTxn[q])' /\ ReportSession(reportTxn[q])'
        BY <1>1, <3>2, <3>3, AllClosed DEF Busy
      <3>5. JobAgrees'
        BY <3>2, <3>3 DEF SInv, SessionsExact, JobAgrees, Solo, Busy
      <3> QED
        BY <3>1, <3>4, <3>5 DEF SInv, SessionsExact
    <2>3. CASE ~R!Commit(r)
      <3>1. \E s \in R!Session : R!Become(r, s) /\ ReportSession(s)
        BY <1>4, <2>1, <2>3, ReportStatement DEF SInv
      <3>2. /\ \E s \in R!Session : reportTxn' = [reportTxn EXCEPT ![r] = s] /\ ReportSession(s)
            /\ UNCHANGED << tables, job, now, poiTxn >>
        BY <1>1, <3>1 DEF R!Become, R!tables, tables, poiVars
      <3> QED
        BY <1>1, <3>2, StatementStep
    <2> QED
      BY <2>2, <2>3
  <1> QED
    BY <1>2, <1>3, <1>4 DEF ReportStep, R!Next, R!Expire

\* The tables at the start: nobody has confirmed, proposed or reported anything.
LEMMA InitSInv == Init => SInv
  <1> SUFFICES ASSUME Init PROVE SInv
    OBVIOUS
  <1>1. /\ pois \in [Pois -> {P!NoRow} \cup {P!SeedRow(s) : s \in Seeds}]
        /\ confirmations = [p \in Pois |-> {}] /\ proposals = [p \in Pois |-> {}]
        /\ poiNotices = [p \in Pois |-> 0] /\ poiTxn = [r \in Requests |-> P!Closed]
        /\ ledger \in Histories
        /\ users = [u \in Users |-> P!NewUserRow(P!LedgerSum(ledger[u]))]
    BY DEF Init, P!Init
  <1>2. /\ reports = [i \in ReportIds |-> R!NoReport]
        /\ confirmers = [i \in ReportIds |-> {}]
        /\ reportNotices = [i \in ReportIds |-> [resolved |-> 0, expired |-> 0]]
        /\ reportTxn = [r \in Requests |-> R!Closed]
        /\ job = R!JobIdle /\ now = 0
    BY DEF Init, R!Init
  <1>3. Solo
    BY <1>1, <1>2 DEF Solo, Busy, OneHandler
  <1>4. ASSUME NEW p \in Pois
        PROVE  /\ pois[p] \in P!PoiRow
               /\ pois[p].verification_count = IF pois[p].source \in Users THEN 1 ELSE 0
               /\ pois[p].status = "absent" => pois[p] = P!NoRow
               /\ pois[p].source = Importer /\ pois[p].status # "absent" =>
                    pois[p].verification_status = "verified"
    <2>1. pois[p] = P!NoRow \/ \E s \in Users \cup {Importer} : pois[p] = P!SeedRow(s)
      BY <1>1, BackendAssumption
    <2>2. CASE pois[p] = P!NoRow
      BY <2>2, BackendAssumption DEF P!NoRow, P!PoiRow, P!Sources
    <2>3. CASE pois[p] = P!ImportedRow
      BY <2>3, BackendAssumption DEF P!ImportedRow, P!PoiRow, P!Sources
    <2>4. ASSUME NEW u \in Users, pois[p] = P!SubmittedRow(u, FALSE)
          PROVE  /\ pois[p] \in P!PoiRow /\ pois[p].verification_count = 1
                 /\ pois[p].status = "active" /\ pois[p].source = u /\ u # Importer
      BY <2>4, BackendAssumption DEF P!SubmittedRow, P!PoiRow, P!Sources
    <2> QED
      BY <2>1, <2>2, <2>3, <2>4 DEF P!SeedRow
  <1>5. ledger \in [Users -> Ledger]
    BY <1>1, BackendAssumption
  <1>6. ASSUME NEW u \in Users
        PROVE  users[u] \in UserRow /\ users[u].reputation = LedgerSum(ledger[u])
    <2>1. P!LedgerSum(ledger[u]) = LedgerSum(ledger[u])
      BY DEF P!LedgerSum, LedgerSum, P!EventDeltas, EventDeltas
    <2>2. LedgerSum(ledger[u]) \in Int
      BY <1>5, RecordFacts DEF EventTypes
    <2>3. users[u] = [reputation |-> LedgerSum(ledger[u]),
                      is_banned |-> P!ShouldAutoBan(LedgerSum(ledger[u]))]
      BY <1>1, <2>1 DEF P!NewUserRow
    <2> QED
      BY <2>2, <2>3 DEF UserRow, P!ShouldAutoBan
  <1>7. Typed
    <2>1. pois \in [Pois -> P!PoiRow] /\ users \in [Users -> UserRow]
      BY <1>1, <1>4, <1>6
    <2>2. P!Closed \in P!Session /\ R!Closed \in R!Session
      BY PoiClosed, ReportClosed
    <2>3. R!NoReport \in R!ReportRow
      BY DEF R!NoReport, R!ReportRow, R!Statuses
    <2>4. job \in [pc : {"idle", "update", "commit"}, due : SUBSET ReportIds, failures : Nat]
      BY <1>2 DEF R!JobIdle
    <2> QED
      BY <1>1, <1>2, <1>5, <2>1, <2>2, <2>3, <2>4 DEF Typed
  <1>8. RowsAgree
    <2>1. Cardinality({}) = 0 /\ IsFiniteSet({})
      BY FS_EmptySet
    <2>2. \A p \in Pois : PoiAgrees(pois[p], confirmations[p], proposals[p], poiNotices[p])
      BY <1>1, <1>4, <2>1 DEF PoiAgrees, P!PoiRow, P!VerificationThreshold, P!RemovalThreshold
    <2>3. \A i \in ReportIds : ReportAgrees(reports[i], confirmers[i], reportNotices[i])
      BY <1>2, <2>1 DEF ReportAgrees, R!NoReport
    <2>4. Given = {} /\ Filed = {}
      BY <1>1, <1>2 DEF Given, Filed, R!NoReport
    <2> QED
      BY <2>1, <2>2, <2>3, <2>4 DEF RowsAgree
  <1>9. LedgersAgree
    <2>1. ReputationIsLedgerSum
      BY <1>6 DEF ReputationIsLedgerSum
    <2>2. Cardinality({}) = 0
      BY FS_EmptySet
    <2>3. ASSUME FreshHistories PROVE PaidForCredits /\ ChargedForReports
      <3>1. \A u \in Users : Credits(u) = {} /\ Dismissed(u) = {} /\ Helped(u) = {}
        BY <1>1, <1>2 DEF Credits, Given, Dismissed, Helped, R!NoReport
      <3>2. \A u \in Users :
              /\ ledger[u]["confirmation"] = 0
              /\ ledger[u]["report_submitted_resolved"] = 0
              /\ ledger[u]["report_dismissed_admin"] = 0
        BY <1>1, <2>3 DEF FreshHistories
      <3>3. \A u \in Users : /\ Cardinality(Credits(u)) = 0
                             /\ Cardinality(Dismissed(u)) = 0 /\ Cardinality(Helped(u)) = 0
        BY <2>2, <3>1
      <3>4. 0 <= 0
        OBVIOUS
      <3> QED
        BY <3>2, <3>3, <3>4 DEF PaidForCredits, ChargedForReports
    <2> QED
      BY <2>1, <2>3, ConfirmationsLedger, OutcomeLedger DEF LedgersAgree
  <1>10. SessionsExact
    <2>1. \A r \in Requests : PoiSession(poiTxn[r]) /\ ReportSession(reportTxn[r])
      BY <1>1, <1>2, PoiClosed, ReportClosed
    <2> QED
      BY <1>2, <2>1 DEF SessionsExact, JobAgrees, R!JobIdle
  <1> QED
    BY <1>3, <1>7, <1>8, <1>9, <1>10 DEF SInv

LEMMA SerialStep ==
  ASSUME SInv, [Next /\ Alone']_vars
  PROVE  SInv'
  <1>1. CASE UNCHANGED vars
    <2>1. UNCHANGED << tables, poiTxn, reportTxn, job, now >>
      BY <1>1 DEF vars, poiVars, reportVars, tables
    <2>2. Typed'
      BY <2>1 DEF SInv, Typed, tables
    <2>3. Solo'
      BY <2>1 DEF SInv, Solo, Busy, OneHandler
    <2>4. SessionsExact'
      BY <2>1, SessionsStay DEF SInv, SessionsExact, JobAgrees, tables
    <2> QED
      BY <2>1, <2>2, <2>3, <2>4, TablesStay DEF SInv
  <1>2. CASE Next /\ Alone'
    BY <1>2, PoiSerialStep, ReportSerialStep DEF Next
  <1> QED
    BY <1>1, <1>2

LEMMA SerialInvariance == SerialSpec => []SInv
  <1>1. SInv /\ [Next /\ Alone']_vars => SInv'
    BY SerialStep
  <1> QED
    BY <1>1, InitSInv, PTL DEF SerialSpec

\* When sessions do not overlap, verification_count is the submitter and the
\* distinct confirmers of a POI (services/confirmation_service.py), and
\* confirmation_count the distinct confirmers of a report.
THEOREM CounterExactness == SerialSpec => []CountersAreExact
  <1>1. SInv => CountersAreExact
    BY SameCardinality DEF SInv, RowsAgree, PoiAgrees, ReportAgrees, CountersAreExact,
      P!CountIsExact, R!ConfirmationsExact
  <1> QED
    BY <1>1, SerialInvariance, PTL

\* A POI that two others have confirmed is verified (confirmation_service.py:3)
\* and stays so through charges, bans and removal.
THEOREM VerificationQuorum == SerialSpec => []ThreeAttestationsVerify
  <1>1. SInv => ThreeAttestationsVerify
    BY SameCardinality DEF SInv, RowsAgree, PoiAgrees, ThreeAttestationsVerify,
      P!ThreeAttestationsVerify
  <1> QED
    BY <1>1, SerialInvariance, PTL

\* A POI three users want gone is gone (removal_service.py:3).
THEOREM RemovalQuorum == SerialSpec => []ThreeProposalsRemove
  <1>1. SInv => ThreeProposalsRemove
    BY SameCardinality DEF SInv, RowsAgree, PoiAgrees, ThreeProposalsRemove,
      P!ThreeProposalsRemove
  <1> QED
    BY <1>1, SerialInvariance, PTL

\* The cached reputation is the sum of the whole ledger, as
\* recompute_reputation_for_user would make it (reputation_event.py:3),
\* whichever component appended the events.
THEOREM ReputationExactness == SerialSpec => []ReputationIsLedgerSum
  <1>1. SInv => ReputationIsLedgerSum
    BY DEF SInv, LedgersAgree
  <1> QED
    BY <1>1, SerialInvariance, PTL

\* A reporter hears exactly once that a report was closed, and how; no POI is
\* announced as verified twice (confirmation_service.py, report_service.py).
THEOREM NoticeExactness == SerialSpec => []NoticeTellsOutcome
  <1>1. SInv => NoticeTellsOutcome
    BY DEF SInv, RowsAgree, PoiAgrees, ReportAgrees, NoticeTellsOutcome,
      P!VerifiedOnce, R!NoticeTellsOutcome
  <1> QED
    BY <1>1, SerialInvariance, PTL

\* A step that is no commit of a moderation session sends no notice.
LEMMA QuietStep ==
  ASSUME [Next /\ Alone']_vars, \A r \in Requests : ~(PoiStep /\ P!Commit(r))
  PROVE  UNCHANGED << confirmations, poiNotices >>
  <1>1. CASE PoiStep
    <2>1. PICK r \in Requests : P!Begin(r) \/ P!Step(r) \/ P!Abort(r)
      BY <1>1 DEF PoiStep, P!Next
    <2> QED
      BY <1>1, <2>1 DEF P!Begin, P!Step, P!Abort, P!Rollback, P!Goto, P!ReadPoi, P!Become,
        P!tables, P!Open, P!SubmitBegin, P!ConfirmBegin, P!ProposeBegin, P!RejectBegin,
        P!ApproveBegin, P!ConfirmRead, P!ConfirmInsert, P!ConfirmFlush, P!ProposeRead,
        P!ProposeInsert, P!ProposeCount, P!RejectRead, P!SoftDelete, P!ApproveRead,
        P!ApproveFlush, P!LockUser
  <1>2. CASE ReportStep \/ UNCHANGED vars
    BY <1>2 DEF ReportStep, vars, poiVars
  <1> QED
    BY <1>1, <1>2 DEF Next

\* The commit of an exact session tells the submitter what it has to.
LEMMA CommitTells ==
  ASSUME SInv, NEW r \in Requests, P!Commit(r), NEW p \in Pois
  PROVE  TellsOf(p)
  <1> DEFINE t == poiTxn[r]
             charged == "user" \in t.locks
  <1>1. /\ t \in P!Session /\ t.pc = "commit" /\ t # P!Closed /\ PoiSession(t)
        /\ poiNotices[p] \in Nat /\ pois[p] \in P!PoiRow
    BY DEF P!Commit, P!Closed, SInv, Typed, SessionsExact
  <1>2. /\ pois' = [pois EXCEPT ![t.poi] = P!PoiAfter(t, @)]
        /\ confirmations' = [confirmations EXCEPT ![t.poi] =
                               IF t.op = "confirm" THEN @ \cup {t.actor} ELSE @]
        /\ IF charged
           THEN poiNotices' = [poiNotices EXCEPT ![t.poi] =
                                 IF t.op = "confirm" /\ P!Flips(t) THEN @ + 1 ELSE @]
           ELSE poiNotices' = poiNotices
    BY DEF P!Commit, P!Submitter
  <1> HIDE DEF t, charged
  <1>3. CASE p # t.poi \/ t.op # "confirm"
    <2>1. confirmations'[p] = confirmations[p] /\ poiNotices'[p] = poiNotices[p]
      BY <1>2, <1>3 DEF SInv, Typed
    <2> QED
      BY <1>1, <2>1 DEF TellsOf
  <1>4. CASE p = t.poi /\ t.op = "confirm"
    <2>1. /\ t.row = pois[p] /\ t.actor \notin confirmations[p] /\ t.actor \in Users
          /\ ~charged /\ t.row.source \in Users => users[t.row.source].is_banned
          /\ charged => /\ t.row.source \in Users /\ t.who = users[t.row.source]
                        /\ ~t.who.is_banned
      BY <1>1, <1>4 DEF PoiSession, charged
    <2>2. confirmations'[p] # confirmations[p]
      BY <1>2, <1>4, <2>1 DEF SInv, Typed
    <2>3. pois'[p].verification_status
            = IF P!Flips(t) THEN "verified" ELSE pois[p].verification_status
      <3>1. pois'[p] = P!ConfirmedRow(t, pois[p])
        BY <1>2, <1>4 DEF SInv, Typed, P!PoiAfter
      <3> QED
        BY <1>1, <3>1 DEF P!ConfirmedRow, P!PoiRow
    <2>4. P!Flips(t) => pois[p].verification_status = "unverified"
      BY <1>1, <2>1 DEF P!Flips, P!PoiRow
    <2>5. charged <=> pois[p].source \in Users /\ ~users[pois[p].source].is_banned
      BY <2>1
    <2>6. poiNotices'[p] = IF charged /\ P!Flips(t) THEN poiNotices[p] + 1 ELSE poiNotices[p]
      BY <1>2, <1>4 DEF SInv, Typed
    <2> QED
      BY <1>1, <2>2, <2>3, <2>4, <2>5, <2>6 DEF TellsOf
  <1> QED
    BY <1>3, <1>4

\* A submitter is told of a POI exactly when a confirmation verifies it, unless either
\* component has banned the submitter (confirm_poi).
THEOREM VerificationNotice == SerialSpec => VerificationIsTold
  <1>1. SInv /\ [Next /\ Alone']_vars => \A p \in Pois : TellsOf(p)
    <2> SUFFICES ASSUME SInv, [Next /\ Alone']_vars, NEW p \in Pois
                 PROVE  TellsOf(p)
      OBVIOUS
    <2>1. CASE \E r \in Requests : PoiStep /\ P!Commit(r)
      BY <2>1, CommitTells
    <2>2. CASE \A r \in Requests : ~(PoiStep /\ P!Commit(r))
      <3>1. UNCHANGED << confirmations, poiNotices >>
        BY <2>2, QuietStep
      <3>2. poiNotices[p] \in Nat
        BY DEF SInv, Typed
      <3> QED
        BY <3>1, <3>2 DEF TellsOf
    <2> QED
      BY <2>1, <2>2
  <1> QED
    BY <1>1, SerialInvariance, PTL DEF SerialSpec, VerificationIsTold

\* From ledgers without earlier reports, the ledger of a reporter tells how the
\* reports ended, also when a ban for POIs falls between a report and its end.
THEOREM OutcomeExactness ==
  ASSUME FreshHistories
  PROVE  SerialSpec => []LedgerTellsOutcome
  <1>1. SInv => LedgerTellsOutcome
    BY DEF SInv, LedgersAgree
  <1> QED
    BY <1>1, SerialInvariance, PTL

\* From ledgers without earlier confirmations, a submitter is credited for each
\* confirmation of a POI, until either component bans the submitter.
THEOREM CreditExactness ==
  ASSUME FreshHistories
  PROVE  SerialSpec => []LedgerTellsConfirmations
  <1>1. SInv => LedgerTellsConfirmations
    BY DEF SInv, LedgersAgree
  <1> QED
    BY <1>1, SerialInvariance, PTL

===============================================================================
