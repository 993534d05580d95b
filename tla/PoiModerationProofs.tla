------------------------ MODULE PoiModerationProofs ------------------------
(***************************************************************************)
(* Theorems about PoiModeration for every set of users, POIs and requests. *)
(***************************************************************************)
EXTENDS PoiModeration, FiniteSetTheorems, TLAPS

(***************************************************************************)
(* Reputation: what append_event returns.                                  *)
(***************************************************************************)

\* append_event keeps a users row well typed, and whatever row it is given,
\* the row it leaves is banned when its reputation is at the threshold.
LEMMA AppendEventFacts ==
  ASSUME NEW row \in UserRow, NEW event \in EventTypes
  PROVE  /\ AppendEvent(row, event) \in UserRow
         /\ ShouldAutoBan(AppendEvent(row, event).reputation)
              => AppendEvent(row, event).is_banned
         /\ row.is_banned => AppendEvent(row, event).is_banned
  <1>1. EventDeltas[event] \in Int
    BY DEF EventTypes, EventDeltas
  <1>2. /\ row.reputation \in Int
        /\ row.is_banned \in BOOLEAN
    BY DEF UserRow
  <1> DEFINE rep == row.reputation + EventDeltas[event]
  <1>3. rep \in Int
    BY <1>1, <1>2
  <1>4. AppendEvent(row, event) =
          [reputation |-> rep, is_banned |-> row.is_banned \/ ShouldAutoBan(rep)]
    BY DEF AppendEvent
  <1>5. (row.is_banned \/ ShouldAutoBan(rep)) \in BOOLEAN
    OBVIOUS
  <1> HIDE DEF rep
  <1>6. AppendEvent(row, event) \in UserRow
    BY <1>3, <1>4, <1>5 DEF UserRow
  <1>7. AppendEvent(row, event).reputation = rep
    BY <1>4
  <1>8. AppendEvent(row, event).is_banned = (row.is_banned \/ ShouldAutoBan(rep))
    BY <1>4
  <1> QED
    BY <1>6, <1>7, <1>8

\* Inserting an event keeps a ledger well typed.
LEMMA RecordType ==
  ASSUME NEW book \in Ledger, NEW event \in EventTypes
  PROVE  Record(book, event) \in Ledger
  BY DEF Record, Ledger

\* Closed is a session, and so is every copy of a session with new fields.
LEMMA ClosedType == Closed \in Session
  <1>1. NoRow \in PoiRow
    BY DEF NoRow, PoiRow, Sources
  <1>2. NewUserRow(0) \in UserRow
    BY DEF NewUserRow, UserRow, ShouldAutoBan, AutoBanThreshold
  <1> QED
    BY <1>1, <1>2 DEF Closed, Session, Sources, Steps

(***************************************************************************)
(* The inductive invariant.                                                *)
(***************************************************************************)
IInv == TypeOK /\ CountNeverOverstates /\ SessionsAgree

\* The initial tables satisfy the invariant: every session is closed.
LEMMA InitIInv == Init => IInv
  <1> SUFFICES ASSUME Init PROVE IInv
    OBVIOUS
  <1>1. \A p \in Pois : pois[p] \in PoiRow /\ pois[p].verification_count <= 1
    BY SeedAssumption
    DEF Init, NoRow, SeedRow, ImportedRow, SubmittedRow, PoiRow, Sources
  <1>2. pois \in [Pois -> PoiRow]
    BY <1>1 DEF Init
  <1>3. ledger \in [Users -> Ledger]
    BY SeedAssumption DEF Init
  <1>4. \A u \in Users : LedgerSum(ledger[u]) \in Int
    <2> TAKE u \in Users
    <2> DEFINE book == ledger[u]
    <2>1. \A e \in EventTypes : book[e] \in Nat
      BY <1>3 DEF Ledger
    <2>2. /\ book["poi_submitted_verified"] \in Int
          /\ book["poi_submitted_rejected"] \in Int
          /\ book["confirmation"] \in Int
          /\ book["report_submitted_resolved"] \in Int
          /\ book["report_dismissed_admin"] \in Int
      BY <2>1 DEF EventTypes
    <2> HIDE DEF book
    <2>3. LedgerSum(book) \in Int
      BY <2>2 DEF LedgerSum, EventDeltas
    <2> QED
      BY <2>3 DEF book
  <1>5. \A n \in Int : NewUserRow(n) \in UserRow
    BY DEF NewUserRow, UserRow, ShouldAutoBan, AutoBanThreshold
  <1>6. users \in [Users -> UserRow]
    BY <1>4, <1>5 DEF Init
  <1>7. TypeOK
    BY <1>2, <1>3, <1>6, ClosedType DEF Init, TypeOK
  <1>8. CountNeverOverstates
    BY <1>1, FS_EmptySet DEF Init, CountNeverOverstates
  <1>9. SessionsAgree
    BY DEF Init, SessionsAgree, SessionShape, FoundPoiStays, KeyIsNew,
           CopyNeverOverstates, RemovalIsBacked, KeysAreUnique, HoldsKey,
           InsertedSameKey, NewPoiIsFresh, Closed, Ops
  <1> QED
    BY <1>7, <1>8, <1>9 DEF IInv

\* A step that only moves the session of r to s keeps the invariant, when s
\* agrees with the tables and its key and its new POI are nobody else's.
LEMMA SessionStep ==
  ASSUME IInv,
         NEW r \in Requests, NEW s \in Session, Become(r, s),
         SessionShape(s), FoundPoiStays(s), KeyIsNew(s),
         CopyNeverOverstates(s), RemovalIsBacked(s),
         HoldsKey(s) => InsertedSameKey(s) \subseteq {r},
         s.op = "submit" =>
           /\ pois[s.poi].status = "absent"
           /\ \A q \in Requests \ {r} : ~(txn[q].op = "submit" /\ txn[q].poi = s.poi)
  PROVE  IInv'
  <1>1. /\ txn \in [Requests -> Session]
        /\ txn' = [txn EXCEPT ![r] = s]
        /\ UNCHANGED << pois, confirmations, proposals, users, ledger, notices >>
    BY DEF IInv, TypeOK, Become, tables
  <1>2. txn'[r] = s /\ \A q \in Requests \ {r} : txn'[q] = txn[q]
    BY <1>1
  <1>3. TypeOK'
    BY <1>1 DEF IInv, TypeOK
  <1>4. CountNeverOverstates'
    BY <1>1 DEF IInv, CountNeverOverstates
  <1>5. \A q \in Requests :
          /\ SessionShape(txn[q])'
          /\ FoundPoiStays(txn[q])'
          /\ KeyIsNew(txn[q])'
          /\ CopyNeverOverstates(txn[q])'
          /\ RemovalIsBacked(txn[q])'
    <2> TAKE q \in Requests
    <2>1. \/ txn'[q] = s
          \/ txn'[q] = txn[q]
      BY <1>2
    <2>2. /\ SessionShape(txn'[q])
          /\ FoundPoiStays(txn'[q])
          /\ KeyIsNew(txn'[q])
          /\ CopyNeverOverstates(txn'[q])
          /\ RemovalIsBacked(txn'[q])
      BY <2>1 DEF IInv, SessionsAgree
    <2>3. SessionShape(txn[q])'
      BY <2>2 DEF SessionShape, Closed
    <2>4. FoundPoiStays(txn[q])'
      BY <2>2, <1>1 DEF FoundPoiStays
    <2>5. KeyIsNew(txn[q])'
      BY <2>2, <1>1 DEF KeyIsNew, HoldsKey
    <2>6. CopyNeverOverstates(txn[q])'
      BY <2>2, <1>1 DEF CopyNeverOverstates
    <2>7. RemovalIsBacked(txn[q])'
      BY <2>2, <1>1 DEF RemovalIsBacked
    <2> QED
      BY <2>3, <2>4, <2>5, <2>6, <2>7
  <1>6. KeysAreUnique'
    <2> SUFFICES ASSUME NEW p \in Requests, NEW q \in Requests,
                        HoldsKey(txn'[p]), HoldsKey(txn'[q]),
                        txn'[q].op = txn'[p].op, txn'[q].poi = txn'[p].poi,
                        txn'[q].actor = txn'[p].actor
                 PROVE  q = p
      BY DEF KeysAreUnique, InsertedSameKey, HoldsKey
    <2>1. CASE p = r /\ q # r
      BY <2>1, <1>2 DEF InsertedSameKey, HoldsKey
    <2>2. CASE p # r /\ q = r
      BY <2>2, <1>2 DEF InsertedSameKey, HoldsKey
    <2>3. CASE p # r /\ q # r
      BY <2>3, <1>2 DEF IInv, SessionsAgree, KeysAreUnique, InsertedSameKey, HoldsKey
    <2> QED
      BY <2>1, <2>2, <2>3
  <1>7. NewPoiIsFresh'
    BY <1>1, <1>2 DEF IInv, SessionsAgree, NewPoiIsFresh
  <1> QED
    BY <1>3, <1>4, <1>5, <1>6, <1>7 DEF IInv, SessionsAgree

(***************************************************************************)
(* Every statement but COMMIT only moves its own session.                  *)
(***************************************************************************)

\* An open session has an operation, a caller and a POI.
LEMMA OpenShape ==
  ASSUME IInv, NEW r \in Requests, txn[r].pc # "idle"
  PROVE  /\ txn[r] \in Session
         /\ txn[r].op \in Ops /\ txn[r].actor \in Users /\ txn[r].poi \in Pois
         /\ txn[r].op = "submit" => txn[r].pc = "commit"
         /\ txn[r].locks # {} => txn[r].op # "submit" /\ txn[r].pc \in {"credit", "commit"}
         /\ pois[txn[r].poi] \in PoiRow
  <1>1. txn[r] \in Session /\ SessionShape(txn[r]) /\ pois \in [Pois -> PoiRow]
    BY DEF IInv, TypeOK, SessionsAgree
  <1>2. txn[r] # Closed
    BY DEF Closed
  <1> QED
    BY <1>1, <1>2 DEF SessionShape

LEMMA RollbackStep ==
  ASSUME IInv, NEW r \in Requests, Rollback(r)
  PROVE  IInv'
  <1>1. /\ SessionShape(Closed) /\ FoundPoiStays(Closed) /\ KeyIsNew(Closed)
        /\ CopyNeverOverstates(Closed) /\ RemovalIsBacked(Closed)
        /\ ~HoldsKey(Closed) /\ Closed.op # "submit"
    BY DEF SessionShape, FoundPoiStays, KeyIsNew, CopyNeverOverstates,
           RemovalIsBacked, HoldsKey, Closed, Ops
  <1> QED
    BY <1>1, ClosedType, SessionStep DEF Rollback

LEMMA BeginStep ==
  ASSUME IInv, NEW r \in Requests, Begin(r)
  PROVE  IInv'
  <1> PICK u \in Users, p \in Pois :
        \/ SubmitBegin(r, u, p)
        \/ ConfirmBegin(r, u, p)
        \/ ProposeBegin(r, u, p)
        \/ RejectBegin(r, u, p)
        \/ ApproveBegin(r, u, p)
    BY DEF Begin
  <1> DEFINE new(op, pc) == [Closed EXCEPT !.op = op, !.pc = pc, !.actor = u,
                                           !.poi = p, !.who = users[u]]
  <1>1. users[u] \in UserRow
    BY DEF IInv, TypeOK
  <1>2. \A op \in Ops, pc \in {"read", "commit"} :
          /\ new(op, pc) \in Session
          /\ new(op, pc).op = op /\ new(op, pc).pc = pc /\ new(op, pc).poi = p
          /\ new(op, pc).actor = u /\ new(op, pc).locks = {}
    <2> TAKE op \in Ops, pc \in {"read", "commit"}
    <2>1. Closed.locks = {}
      BY DEF Closed
    <2>2. u \in Sources /\ p \in Pois \cup {Importer} /\ op \in Ops \cup {"none"} /\ pc \in Steps
      BY DEF Sources, Steps
    <2> QED
      BY <1>1, <2>1, <2>2, ClosedType DEF Session
  <1>3. ASSUME NEW op \in Ops \ {"submit"}, Become(r, new(op, "read"))
        PROVE  IInv'
    <2> DEFINE t == new(op, "read")
    <2>1. /\ t \in Session /\ t.op = op /\ t.pc = "read" /\ t.poi = p
          /\ t.actor = u /\ t.locks = {}
      BY <1>2
    <2>2. Become(r, t)
      BY <1>3
    <2> HIDE DEF t
    <2>3. /\ SessionShape(t) /\ FoundPoiStays(t) /\ KeyIsNew(t)
          /\ CopyNeverOverstates(t) /\ RemovalIsBacked(t) /\ ~HoldsKey(t)
      BY <2>1 DEF SessionShape, FoundPoiStays, KeyIsNew, CopyNeverOverstates,
                  RemovalIsBacked, HoldsKey
    <2> QED
      BY <2>1, <2>2, <2>3, SessionStep
  <1>4. CASE SubmitBegin(r, u, p)
    <2> DEFINE t == new("submit", "commit")
    <2>1. /\ t \in Session /\ t.op = "submit" /\ t.pc = "commit" /\ t.poi = p
          /\ t.actor = u /\ t.locks = {}
      BY <1>2 DEF Ops
    <2>2. /\ Become(r, t)
          /\ pois[p].status = "absent"
          /\ \A q \in Requests : ~(txn[q].op = "submit" /\ txn[q].poi = p)
      BY <1>4 DEF SubmitBegin, Open
    <2> HIDE DEF t
    <2>3. /\ SessionShape(t) /\ FoundPoiStays(t) /\ KeyIsNew(t)
          /\ CopyNeverOverstates(t) /\ RemovalIsBacked(t) /\ ~HoldsKey(t)
      BY <2>1 DEF SessionShape, FoundPoiStays, KeyIsNew, CopyNeverOverstates,
                  RemovalIsBacked, HoldsKey, Ops
    <2> QED
      BY <2>1, <2>2, <2>3, SessionStep
  <1>5. CASE ConfirmBegin(r, u, p)
    <2>1. Become(r, new("confirm", "read")) /\ "confirm" \in Ops \ {"submit"}
      BY <1>5 DEF ConfirmBegin, Open, Ops
    <2> QED
      BY <2>1, <1>3
  <1>6. CASE ProposeBegin(r, u, p)
    <2>1. Become(r, new("propose", "read")) /\ "propose" \in Ops \ {"submit"}
      BY <1>6 DEF ProposeBegin, Open, Ops
    <2> QED
      BY <2>1, <1>3
  <1>7. CASE RejectBegin(r, u, p)
    <2>1. Become(r, new("reject", "read")) /\ "reject" \in Ops \ {"submit"}
      BY <1>7 DEF RejectBegin, Open, Ops
    <2> QED
      BY <2>1, <1>3
  <1>8. CASE ApproveBegin(r, u, p)
    <2>1. Become(r, new("approve", "read")) /\ "approve" \in Ops \ {"submit"}
      BY <1>8 DEF ApproveBegin, Open, Ops
    <2> QED
      BY <2>1, <1>3
  <1> QED
    BY <1>4, <1>5, <1>6, <1>7, <1>8

\* Reading a POI that exists, and for confirm and propose is somebody else's.
LEMMA ReadStep ==
  ASSUME IInv, NEW r \in Requests, NEW next \in {"insert", "flush"},
         txn[r].pc = "read",
         ReadPoi(r, next),
         pois[txn[r].poi].status # "absent",
         txn[r].op \in {"confirm", "propose"} =>
           next = "insert" /\ pois[txn[r].poi].source # txn[r].actor
  PROVE  IInv'
  <1> DEFINE t == txn[r]
             s == [t EXCEPT !.pc = next, !.row = pois[t.poi]]
  <1>1. /\ t \in Session /\ t.op \in Ops \ {"submit"} /\ t.actor \in Users
        /\ t.poi \in Pois /\ pois[t.poi] \in PoiRow /\ t.locks = {}
    BY OpenShape
  <1>2. pois[t.poi].verification_count <= 1 + Cardinality(confirmations[t.poi])
    BY <1>1 DEF IInv, CountNeverOverstates
  <1>3. RemovalIsBacked(t)
    BY DEF IInv, SessionsAgree
  <1>4. /\ s \in Session /\ s.op = t.op /\ s.pc = next /\ s.actor = t.actor
        /\ s.poi = t.poi /\ s.row = pois[t.poi] /\ s.locks = t.locks
    BY <1>1 DEF Session, Steps
  <1>5. Become(r, s)
    BY DEF ReadPoi
  <1>6. t.op \in {"confirm", "propose"} => next = "insert" /\ pois[t.poi].source # t.actor
    OBVIOUS
  <1>7. pois[t.poi].status # "absent"
    OBVIOUS
  <1>8. (t.op # "confirm" /\ t.op # "propose") \/ next = "insert"
    BY <1>6
  <1> HIDE DEF s, t
  <1>9. SessionShape(s) /\ FoundPoiStays(s)
    BY <1>1, <1>4, <1>6, <1>7 DEF SessionShape, FoundPoiStays
  <1>10. KeyIsNew(s) /\ ~HoldsKey(s)
    BY <1>1, <1>4, <1>8 DEF KeyIsNew, HoldsKey
  <1>11. CopyNeverOverstates(s)
    BY <1>2, <1>4 DEF CopyNeverOverstates
  <1>12. RemovalIsBacked(s)
    BY <1>3, <1>4, <1>8 DEF RemovalIsBacked
  <1> QED
    BY <1>1, <1>4, <1>5, <1>9, <1>10, <1>11, <1>12, SessionStep

\* The session inserts no key, holds its key, or may insert it now.
KeyIsSafe(t) ==
  \/ t.op \in {"reject", "approve"}
  \/ HoldsKey(t)
  \/ /\ InsertedSameKey(t) = {}
     /\ t.op = "confirm" => t.actor \notin confirmations[t.poi]
     /\ t.op = "propose" => t.actor \notin proposals[t.poi]

\* After the read a session changes its pc, its users row and its locks only.
\* Its key is new in the table when it inserts it, its proposals suffice when
\* it goes on to remove the POI.
LEMMA AdvanceStep ==
  ASSUME IInv, NEW r \in Requests,
         txn[r].op # "submit", txn[r].pc \in {"insert", "count", "flush", "credit"},
         NEW pc \in {"count", "flush", "credit", "commit"},
         NEW who \in UserRow, NEW locks \in SUBSET {"poi", "user"},
         locks # {} => pc \in {"credit", "commit"},
         Become(r, [txn[r] EXCEPT !.pc = pc, !.who = who, !.locks = locks]),
         KeyIsSafe(txn[r]),
         txn[r].op = "propose" /\ (pc \in {"flush", "credit"} \/ locks # {}) =>
           Cardinality(proposals[txn[r].poi] \cup {txn[r].actor}) >= RemovalThreshold
  PROVE  IInv'
  <1> DEFINE t == txn[r]
             s == [t EXCEPT !.pc = pc, !.who = who, !.locks = locks]
  <1>1. /\ t \in Session /\ t.op \in Ops \ {"submit"} /\ t.actor \in Users
        /\ t.poi \in Pois
    BY OpenShape
  <1>2. /\ FoundPoiStays(t) /\ KeyIsNew(t) /\ CopyNeverOverstates(t)
        /\ KeysAreUnique
    BY DEF IInv, SessionsAgree
  <1>3. /\ s \in Session /\ s.op = t.op /\ s.pc = pc /\ s.actor = t.actor
        /\ s.poi = t.poi /\ s.row = t.row /\ s.locks = locks
    BY <1>1 DEF Session, Steps
  <1>4. Become(r, s)
    OBVIOUS
  <1>5. /\ t.pc # "read"
        /\ KeyIsSafe(t)
        /\ locks # {} => pc \in {"credit", "commit"}
        /\ t.op = "propose" /\ (pc \in {"flush", "credit"} \/ locks # {}) =>
             Cardinality(proposals[t.poi] \cup {t.actor}) >= RemovalThreshold
    OBVIOUS
  <1>6. HoldsKey(t) => InsertedSameKey(t) \subseteq {r}
    BY <1>2 DEF KeysAreUnique, InsertedSameKey
  <1> HIDE DEF s, t
  <1>7. SessionShape(s) /\ FoundPoiStays(s)
    BY <1>1, <1>2, <1>3, <1>5 DEF SessionShape, FoundPoiStays
  <1>8. KeyIsNew(s)
    BY <1>1, <1>2, <1>3, <1>5 DEF KeyIsNew, HoldsKey, KeyIsSafe
  <1>9. CopyNeverOverstates(s)
    BY <1>2, <1>3, <1>5 DEF CopyNeverOverstates
  <1>10. RemovalIsBacked(s)
    BY <1>3, <1>5 DEF RemovalIsBacked
  <1>11. InsertedSameKey(s) = InsertedSameKey(t)
    BY <1>3 DEF InsertedSameKey
  <1>12. HoldsKey(s) => InsertedSameKey(s) \subseteq {r}
    BY <1>3, <1>5, <1>6, <1>11 DEF HoldsKey, KeyIsSafe
  <1>13. s.op # "submit"
    BY <1>1, <1>3
  <1> QED
    BY <1>3, <1>4, <1>7, <1>8, <1>9, <1>10, <1>12, <1>13, SessionStep

\* The same for a session that takes the lock of its POI.
LEMMA FlushStep ==
  ASSUME IInv, NEW r \in Requests,
         txn[r].op # "submit", txn[r].pc = "flush", KeyIsSafe(txn[r]),
         NEW pc \in {"credit", "commit"}, NEW who \in UserRow,
         Become(r, [txn[r] EXCEPT !.pc = pc, !.who = who, !.locks = {"poi"}])
  PROVE  IInv'
  <1> DEFINE poiLock == {"poi"}
  <1>1. poiLock \in SUBSET {"poi", "user"}
    OBVIOUS
  <1>2. Become(r, [txn[r] EXCEPT !.pc = pc, !.who = who, !.locks = poiLock])
    OBVIOUS
  <1>3. txn[r].op = "propose" =>
          Cardinality(proposals[txn[r].poi] \cup {txn[r].actor}) >= RemovalThreshold
    BY DEF IInv, SessionsAgree, RemovalIsBacked
  <1> HIDE DEF poiLock
  <1> QED
    BY <1>1, <1>2, <1>3, AdvanceStep

\* The same when only the pc changes.
LEMMA GotoStep ==
  ASSUME IInv, NEW r \in Requests,
         txn[r].op # "submit", txn[r].pc \in {"insert", "count"},
         NEW pc \in {"count", "flush", "commit"},
         Goto(r, pc),
         KeyIsSafe(txn[r]),
         txn[r].op = "propose" /\ pc = "flush" =>
           Cardinality(proposals[txn[r].poi] \cup {txn[r].actor}) >= RemovalThreshold
  PROVE  IInv'
  <1>1. txn[r] \in Session /\ txn[r].who \in UserRow /\ txn[r].locks = {}
    BY OpenShape DEF Session
  <1>2. [txn[r] EXCEPT !.pc = pc]
          = [txn[r] EXCEPT !.pc = pc, !.who = txn[r].who, !.locks = txn[r].locks]
    BY <1>1 DEF Session
  <1>3. Become(r, [txn[r] EXCEPT !.pc = pc, !.who = txn[r].who, !.locks = txn[r].locks])
    BY <1>2 DEF Goto
  <1> QED
    BY <1>1, <1>3, AdvanceStep

\* The users row that a session gets for the submitter is a users row.
LEMMA SubmitterRowType ==
  ASSUME IInv, NEW r \in Requests, txn[r].pc # "idle", Submitter(txn[r]) \in Users
  PROVE  SubmitterRow(txn[r]) \in UserRow
  BY OpenShape DEF IInv, TypeOK, SubmitterRow, Submitter, Session

LEMMA StatementStep ==
  ASSUME IInv, NEW r \in Requests, Step(r), ~Commit(r)
  PROVE  IInv'
  <1>1. CASE ConfirmRead(r)
    <2>1. CASE Rollback(r)
      BY <2>1, RollbackStep
    <2>2. CASE ReadPoi(r, "insert") /\ pois[txn[r].poi].status = "active"
               /\ pois[txn[r].poi].source # txn[r].actor
      BY <2>2, <1>1, ReadStep DEF ConfirmRead, At
    <2> QED
      BY <2>1, <2>2, <1>1 DEF ConfirmRead
  <1>2. CASE ConfirmInsert(r)
    <2>1. CASE Rollback(r)
      BY <2>1, RollbackStep
    <2>2. CASE Goto(r, "flush") /\ txn[r].actor \notin confirmations[txn[r].poi]
      BY <2>2, <1>2, GotoStep DEF ConfirmInsert, At, KeyIsSafe
    <2> QED
      BY <2>1, <2>2, <1>2 DEF ConfirmInsert
  <1>3. CASE ConfirmFlush(r)
    <2>1. txn[r].op = "confirm" /\ txn[r].pc = "flush" /\ KeyIsSafe(txn[r])
      BY <1>3 DEF ConfirmFlush, At, HoldsKey, KeyIsSafe
    <2>2. txn[r] \in Session /\ txn[r].who \in UserRow
      BY <2>1, OpenShape DEF Session
    <2>3. CASE Submitter(txn[r]) \in Users
      <3> DEFINE pc == IF SubmitterRow(txn[r]).is_banned THEN "commit" ELSE "credit"
      <3>1. Become(r, [txn[r] EXCEPT !.locks = {"poi"}, !.who = SubmitterRow(txn[r]), !.pc = pc])
        BY <1>3, <2>3 DEF ConfirmFlush
      <3>2. pc \in {"credit", "commit"}
        OBVIOUS
      <3> HIDE DEF pc
      <3>3. SubmitterRow(txn[r]) \in UserRow
        BY <2>1, <2>3, SubmitterRowType
      <3>4. Become(r, [txn[r] EXCEPT !.pc = pc, !.who = SubmitterRow(txn[r]), !.locks = {"poi"}])
        BY <2>2, <3>1 DEF Session
      <3> QED
        BY <2>1, <3>2, <3>3, <3>4, FlushStep
    <2>4. CASE Submitter(txn[r]) \notin Users
      <3>1. Become(r, [txn[r] EXCEPT !.pc = "commit", !.who = txn[r].who, !.locks = {"poi"}])
        BY <1>3, <2>2, <2>4 DEF ConfirmFlush, Session
      <3> QED
        BY <2>1, <2>2, <3>1, FlushStep
    <2> QED
      BY <2>3, <2>4
  <1>4. CASE ProposeRead(r)
    <2>1. CASE Rollback(r)
      BY <2>1, RollbackStep
    <2>2. CASE ReadPoi(r, "insert") /\ pois[txn[r].poi].status = "active"
               /\ pois[txn[r].poi].source # txn[r].actor
      BY <2>2, <1>4, ReadStep DEF ProposeRead, At
    <2> QED
      BY <2>1, <2>2, <1>4 DEF ProposeRead
  <1>5. CASE ProposeInsert(r)
    <2>1. CASE Rollback(r)
      BY <2>1, RollbackStep
    <2>2. CASE Goto(r, "count") /\ txn[r].actor \notin proposals[txn[r].poi]
      BY <2>2, <1>5, GotoStep DEF ProposeInsert, At, KeyIsSafe
    <2> QED
      BY <2>1, <2>2, <1>5 DEF ProposeInsert
  <1>6. CASE ProposeCount(r)
    <2> DEFINE seen == Cardinality(proposals[txn[r].poi] \cup {txn[r].actor})
               pc == IF seen >= RemovalThreshold THEN "flush" ELSE "commit"
    <2>1. txn[r].op = "propose" /\ txn[r].pc = "count" /\ KeyIsSafe(txn[r])
      BY <1>6 DEF ProposeCount, At, HoldsKey, KeyIsSafe
    <2>2. Goto(r, pc)
      BY <1>6 DEF ProposeCount
    <2>3. pc \in {"count", "flush", "commit"} /\ (pc = "flush" => seen >= RemovalThreshold)
      OBVIOUS
    <2> HIDE DEF pc
    <2> QED
      BY <2>1, <2>2, <2>3, GotoStep
  <1>7. CASE RejectRead(r)
    <2>1. CASE Rollback(r)
      BY <2>1, RollbackStep
    <2>2. CASE ReadPoi(r, "flush") /\ pois[txn[r].poi].status # "absent"
      <3>1. txn[r].op = "reject" /\ txn[r].pc = "read"
        BY <1>7 DEF RejectRead, At
      <3> QED
        BY <2>2, <3>1, ReadStep
    <2> QED
      BY <2>1, <2>2, <1>7 DEF RejectRead
  <1>8. CASE SoftDelete(r)
    <2>1. /\ txn[r].op \in {"propose", "reject"} /\ txn[r].pc = "flush"
          /\ KeyIsSafe(txn[r])
      BY <1>8 DEF SoftDelete, HoldsKey, KeyIsSafe
    <2>2. txn[r] \in Session /\ txn[r].who \in UserRow
      BY <2>1, OpenShape DEF Session
    <2>4. CASE txn[r].row.verification_status = "unverified" /\ Submitter(txn[r]) \in Users
      <3>1. SubmitterRow(txn[r]) \in UserRow
        BY <2>1, <2>4, SubmitterRowType
      <3>2. Become(r, [txn[r] EXCEPT !.pc = "credit", !.who = SubmitterRow(txn[r]),
                                     !.locks = {"poi"}])
        BY <1>8, <2>2, <2>4 DEF SoftDelete, Session
      <3> QED
        BY <2>1, <3>1, <3>2, FlushStep
    <2>5. CASE ~(txn[r].row.verification_status = "unverified" /\ Submitter(txn[r]) \in Users)
      <3>1. Become(r, [txn[r] EXCEPT !.pc = "commit", !.who = txn[r].who, !.locks = {"poi"}])
        BY <1>8, <2>2, <2>5 DEF SoftDelete, Session
      <3> QED
        BY <2>1, <2>2, <3>1, FlushStep
    <2> QED
      BY <2>4, <2>5
  <1>9. CASE ApproveRead(r)
    <2>1. CASE Rollback(r)
      BY <2>1, RollbackStep
    <2>2. CASE ReadPoi(r, "flush") /\ pois[txn[r].poi].status # "absent"
      <3>1. txn[r].op = "approve" /\ txn[r].pc = "read"
        BY <1>9 DEF ApproveRead, At
      <3> QED
        BY <2>2, <3>1, ReadStep
    <2> QED
      BY <2>1, <2>2, <1>9 DEF ApproveRead
  <1>10. CASE ApproveFlush(r)
    <2>1. txn[r].op = "approve" /\ txn[r].pc = "flush" /\ KeyIsSafe(txn[r])
      BY <1>10 DEF ApproveFlush, At, KeyIsSafe
    <2>2. txn[r] \in Session /\ txn[r].who \in UserRow
      BY <2>1, OpenShape DEF Session
    <2>3. Become(r, [txn[r] EXCEPT !.pc = "commit", !.who = txn[r].who, !.locks = {"poi"}])
      BY <1>10, <2>2 DEF ApproveFlush, Session
    <2> QED
      BY <2>1, <2>2, <2>3, FlushStep
  <1>11. CASE LockUser(r)
    <2>1. txn[r].pc = "credit"
      BY <1>11 DEF LockUser
    <2>2. txn[r] \in Session /\ txn[r].who \in UserRow /\ txn[r].op \in Ops \ {"submit"}
      BY <2>1, OpenShape DEF Session
    <2>3. KeyIsSafe(txn[r])
      BY <2>1, <2>2 DEF HoldsKey, Ops, KeyIsSafe
    <2>4. txn[r].op = "propose" =>
            Cardinality(proposals[txn[r].poi] \cup {txn[r].actor}) >= RemovalThreshold
      BY <2>1 DEF IInv, SessionsAgree, RemovalIsBacked
    <2> DEFINE bothLocks == {"poi", "user"}
    <2>5. Become(r, [txn[r] EXCEPT !.pc = "commit", !.who = txn[r].who, !.locks = bothLocks])
      BY <1>11, <2>2 DEF LockUser, Session
    <2>6. bothLocks \in SUBSET {"poi", "user"}
      OBVIOUS
    <2> HIDE DEF bothLocks
    <2> QED
      BY <2>1, <2>2, <2>3, <2>4, <2>5, <2>6, AdvanceStep
  <1> QED
    BY <1>1, <1>2, <1>3, <1>4, <1>5, <1>6, <1>7, <1>8, <1>9, <1>10, <1>11 DEF Step

(***************************************************************************)
(* COMMIT.                                                                 *)
(***************************************************************************)

\* The row a session leaves: no commit moves a POI to another submitter or
\* back to absent, and only a confirmation changes the counter.
LEMMA PoiAfterFacts ==
  ASSUME NEW t \in Session, NEW row \in PoiRow, t.op \in Ops
  PROVE  /\ PoiAfter(t, row) \in PoiRow
         /\ t.op # "submit" =>
              /\ PoiAfter(t, row).source = row.source
              /\ PoiAfter(t, row).status \in {row.status, "removed"}
         /\ t.op = "confirm" =>
              PoiAfter(t, row).verification_count = t.row.verification_count + 1
         /\ t.op = "submit" =>
              /\ PoiAfter(t, row).verification_count = 1
              /\ PoiAfter(t, row).status = "active"
              /\ PoiAfter(t, row).source = t.actor
         /\ t.op \notin {"confirm", "submit"} =>
              PoiAfter(t, row).verification_count = row.verification_count
  <1>1. t.row \in PoiRow /\ t.actor \in Sources
    BY DEF Session
  <1>2. CASE t.op = "submit"
    <2>1. PoiAfter(t, row) = SubmittedRow(t.actor, IsTrusted(t.who.reputation))
      BY <1>2 DEF PoiAfter
    <2> QED
      BY <1>1, <1>2, <2>1 DEF SubmittedRow, PoiRow
  <1>3. CASE t.op = "confirm"
    <2>1. PoiAfter(t, row) = ConfirmedRow(t, row)
      BY <1>3 DEF PoiAfter
    <2>2. t.row.verification_count + 1 \in Nat
      BY <1>1 DEF PoiRow
    <2> QED
      BY <1>3, <2>1, <2>2 DEF ConfirmedRow, PoiRow
  <1>4. CASE t.op \in {"propose", "reject"} /\ t.locks # {}
    <2>1. PoiAfter(t, row) = RemovedRow(row)
      BY <1>4 DEF PoiAfter
    <2> QED
      BY <1>4, <2>1 DEF RemovedRow, PoiRow
  <1>5. CASE t.op = "approve"
    <2>1. PoiAfter(t, row) = ApprovedRow(row)
      BY <1>5 DEF PoiAfter
    <2> QED
      BY <1>5, <2>1 DEF ApprovedRow, PoiRow
  <1>6. CASE t.op \in {"propose", "reject"} /\ t.locks = {}
    <2>1. PoiAfter(t, row) = row
      BY <1>6 DEF PoiAfter
    <2> QED
      BY <1>6, <2>1
  <1> QED
    BY <1>2, <1>3, <1>4, <1>5, <1>6 DEF Ops

\* The users row a session leaves is banned when its reputation says so, and
\* stays banned when it was.
LEMMA UserAfterFacts ==
  ASSUME NEW t \in Session, NEW row \in UserRow
  PROVE  /\ UserAfter(t, row) \in UserRow
         /\ ShouldAutoBan(UserAfter(t, row).reputation) => UserAfter(t, row).is_banned
         /\ row.is_banned => UserAfter(t, row).is_banned
  <1> DEFINE new == IF t.op = "confirm" THEN ConfirmCredit(t)
                    ELSE AppendEvent(t.who, "poi_submitted_rejected")
  <1>1. t.who \in UserRow
    BY DEF Session
  <1>2. {"confirmation", "poi_submitted_verified", "poi_submitted_rejected"} \subseteq EventTypes
    BY DEF EventTypes
  <1>3. ConfirmCredit(t) \in UserRow
          /\ (ShouldAutoBan(ConfirmCredit(t).reputation) => ConfirmCredit(t).is_banned)
    BY <1>1, <1>2, AppendEventFacts DEF ConfirmCredit
  <1>4. new \in UserRow /\ (ShouldAutoBan(new.reputation) => new.is_banned)
    BY <1>1, <1>2, <1>3, AppendEventFacts
  <1>5. UserAfter(t, row) = [reputation |-> new.reputation,
                             is_banned |-> row.is_banned \/ new.is_banned]
    BY DEF UserAfter
  <1> HIDE DEF new
  <1>6. new.reputation \in Int /\ (row.is_banned \/ new.is_banned) \in BOOLEAN
    BY <1>4 DEF UserRow
  <1>7. /\ UserAfter(t, row).reputation = new.reputation
        /\ UserAfter(t, row).is_banned = (row.is_banned \/ new.is_banned)
    BY <1>5
  <1>8. UserAfter(t, row) \in UserRow
    BY <1>5, <1>6 DEF UserRow
  <1> QED
    BY <1>4, <1>7, <1>8

\* A ledger with the events of a session added is a ledger.
LEMMA LedgerAfterType ==
  ASSUME NEW t \in Session, NEW book \in Ledger
  PROVE  LedgerAfter(t, book) \in Ledger
  <1>1. {"confirmation", "poi_submitted_verified", "poi_submitted_rejected"} \subseteq EventTypes
    BY DEF EventTypes
  <1>2. ConfirmEntries(t, book) \in Ledger
    BY <1>1, RecordType DEF ConfirmEntries
  <1> QED
    BY <1>1, <1>2, RecordType DEF LedgerAfter

LEMMA CommitType ==
  ASSUME TypeOK, NEW r \in Requests, Commit(r), txn[r].op \in Ops, txn[r].actor \in Users
  PROVE  TypeOK'
  <1> DEFINE t == txn[r]
  <1>1. t \in Session
    BY DEF TypeOK
  <1>2. pois' \in [Pois -> PoiRow]
    <2>1. \A x \in Pois : PoiAfter(t, pois[x]) \in PoiRow
      BY <1>1, PoiAfterFacts DEF TypeOK
    <2> QED
      BY <2>1 DEF Commit, TypeOK
  <1>3. confirmations' \in [Pois -> SUBSET Users] /\ proposals' \in [Pois -> SUBSET Users]
    BY DEF Commit, TypeOK
  <1>4. users' \in [Users -> UserRow]
    <2>1. \A u \in Users : UserAfter(t, users[u]) \in UserRow
      BY <1>1, UserAfterFacts DEF TypeOK
    <2> QED
      BY <2>1 DEF Commit, TypeOK
  <1>5. ledger' \in [Users -> Ledger]
    <2>1. \A u \in Users : LedgerAfter(t, ledger[u]) \in Ledger
      BY <1>1, LedgerAfterType DEF TypeOK
    <2> QED
      BY <2>1 DEF Commit, TypeOK
  <1>6. notices' \in [Pois -> Nat]
    BY DEF Commit, TypeOK
  <1>7. txn' \in [Requests -> Session]
    BY ClosedType DEF Commit, TypeOK
  <1> QED
    BY <1>2, <1>3, <1>4, <1>5, <1>6, <1>7 DEF TypeOK

\* Adding a new member to a set of users adds one; adding any never subtracts.
LEMMA AddUser ==
  ASSUME NEW S \in SUBSET Users, NEW u \in Users
  PROVE  /\ Cardinality(S) \in Nat
         /\ Cardinality(S \cup {u}) \in Nat
         /\ Cardinality(S) <= Cardinality(S \cup {u})
         /\ u \notin S => Cardinality(S \cup {u}) = Cardinality(S) + 1
  <1>1. IsFiniteSet(S)
    BY UsersAssumption, FS_Subset
  <1>2. Cardinality(S) \in Nat
    BY <1>1, FS_CardinalityType
  <1>3. Cardinality(S \cup {u}) = IF u \in S THEN Cardinality(S) ELSE Cardinality(S) + 1
    BY <1>1, FS_AddElement, Zenon
  <1> QED
    BY <1>2, <1>3

\* What a commit of t does to the POI of t and to every other POI.
LEMMA CommitTables ==
  ASSUME IInv, NEW r \in Requests, Commit(r)
  PROVE  /\ txn[r] \in Session /\ txn[r].op \in Ops /\ txn[r].actor \in Users
         /\ txn[r].poi \in Pois
         /\ \A x \in Pois \ {txn[r].poi} :
              /\ pois'[x] = pois[x]
              /\ confirmations'[x] = confirmations[x]
              /\ proposals'[x] = proposals[x]
         /\ pois'[txn[r].poi] = PoiAfter(txn[r], pois[txn[r].poi])
         /\ confirmations'[txn[r].poi] =
              IF txn[r].op = "confirm"
              THEN confirmations[txn[r].poi] \cup {txn[r].actor}
              ELSE confirmations[txn[r].poi]
         /\ proposals'[txn[r].poi] =
              IF txn[r].op = "propose"
              THEN proposals[txn[r].poi] \cup {txn[r].actor}
              ELSE proposals[txn[r].poi]
         /\ \A q \in Requests \ {r} : txn'[q] = txn[q]
         /\ txn'[r] = Closed
  <1>1. txn[r].pc # "idle"
    BY DEF Commit
  <1>2. /\ txn[r] \in Session /\ txn[r].op \in Ops /\ txn[r].actor \in Users
        /\ txn[r].poi \in Pois
    BY <1>1, OpenShape
  <1>3. /\ pois' = [pois EXCEPT ![txn[r].poi] = PoiAfter(txn[r], @)]
        /\ confirmations' = [confirmations EXCEPT ![txn[r].poi] =
                               IF txn[r].op = "confirm" THEN @ \cup {txn[r].actor} ELSE @]
        /\ proposals' = [proposals EXCEPT ![txn[r].poi] =
                           IF txn[r].op = "propose" THEN @ \cup {txn[r].actor} ELSE @]
        /\ txn' = [txn EXCEPT ![r] = Closed]
    BY DEF Commit
  <1> QED
    BY <1>2, <1>3 DEF IInv, TypeOK

LEMMA CommitStep ==
  ASSUME IInv, NEW r \in Requests, Commit(r)
  PROVE  IInv'
  <1> DEFINE t == txn[r]
             p == t.poi
  <1>1. /\ t \in Session /\ t.op \in Ops /\ t.actor \in Users /\ p \in Pois
        /\ \A x \in Pois \ {p} : /\ pois'[x] = pois[x]
                                 /\ confirmations'[x] = confirmations[x]
                                 /\ proposals'[x] = proposals[x]
        /\ pois'[p] = PoiAfter(t, pois[p])
        /\ confirmations'[p] =
             IF t.op = "confirm" THEN confirmations[p] \cup {t.actor} ELSE confirmations[p]
        /\ proposals'[p] =
             IF t.op = "propose" THEN proposals[p] \cup {t.actor} ELSE proposals[p]
        /\ \A q \in Requests \ {r} : txn'[q] = txn[q]
        /\ txn'[r] = Closed
    BY CommitTables
  <1>2. /\ t.pc = "commit" /\ FoundPoiStays(t) /\ KeyIsNew(t) /\ CopyNeverOverstates(t)
        /\ KeysAreUnique /\ NewPoiIsFresh /\ TypeOK /\ CountNeverOverstates
    BY DEF IInv, SessionsAgree, Commit
  <1>3. /\ pois[p] \in PoiRow /\ t.row \in PoiRow
        /\ \A x \in Pois : confirmations[x] \in SUBSET Users /\ proposals[x] \in SUBSET Users
    BY <1>1, <1>2 DEF TypeOK, Session
  <1>4. /\ t.op # "submit" =>
             pois'[p].source = pois[p].source /\ pois'[p].status \in {pois[p].status, "removed"}
        /\ t.op = "confirm" => pois'[p].verification_count = t.row.verification_count + 1
        /\ t.op = "submit" => pois'[p].verification_count = 1
        /\ t.op \notin {"confirm", "submit"} =>
             pois'[p].verification_count = pois[p].verification_count
    BY <1>1, <1>3, PoiAfterFacts
  <1>5. TypeOK'
    BY <1>1, <1>2, CommitType
  <1>6. t.op # "submit" => pois[p].status # "absent"
    BY <1>1, <1>2 DEF FoundPoiStays
  <1>7. t.op = "submit" => pois[p].status = "absent"
    BY <1>2 DEF NewPoiIsFresh
  <1>8. /\ HoldsKey(t) <=> t.op \in {"confirm", "propose"}
        /\ t.op = "confirm" => t.actor \notin confirmations[p]
        /\ t.op = "propose" => t.actor \notin proposals[p]
    BY <1>2 DEF HoldsKey, KeyIsNew
  <1>9. t.op = "confirm" => t.row.verification_count <= 1 + Cardinality(confirmations[p])
    BY <1>2 DEF CopyNeverOverstates
  <1>10. \A q \in Requests : txn[q] \in Session /\ SessionShape(txn[q])
    BY DEF IInv, TypeOK, SessionsAgree
  <1>11. \A x \in Pois : /\ Cardinality(confirmations[x]) \in Nat
                         /\ Cardinality(confirmations'[x]) \in Nat
                         /\ Cardinality(confirmations[x]) <= Cardinality(confirmations'[x])
    <2> TAKE x \in Pois
    <2>1. /\ confirmations[x] \in SUBSET Users
          /\ \/ confirmations'[x] = confirmations[x]
             \/ confirmations'[x] = confirmations[x] \cup {t.actor}
      BY <1>1, <1>3
    <2>2. Cardinality(confirmations[x]) \in Nat
      BY <2>1, <1>1, AddUser
    <2>3. CASE confirmations'[x] = confirmations[x]
      BY <2>2, <2>3
    <2>4. CASE confirmations'[x] = confirmations[x] \cup {t.actor}
      BY <2>1, <2>4, <1>1, AddUser
    <2> QED
      BY <2>1, <2>3, <2>4
  <1> HIDE DEF t, p
  <1>12. CountNeverOverstates'
    <2> SUFFICES ASSUME NEW x \in Pois
                 PROVE  pois'[x].verification_count <= 1 + Cardinality(confirmations'[x])
      BY DEF CountNeverOverstates
    <2>1. CASE x # p
      BY <2>1, <1>1, <1>2 DEF CountNeverOverstates
    <2>2. CASE x = p /\ t.op = "confirm"
      <3>1. Cardinality(confirmations'[p]) = Cardinality(confirmations[p]) + 1
        BY <2>2, <1>1, <1>3, <1>8, AddUser
      <3>2. t.row.verification_count \in Nat
        BY <1>3 DEF PoiRow
      <3> QED
        BY <2>2, <3>1, <3>2, <1>4, <1>9, <1>11
    <2>3. CASE x = p /\ t.op = "submit"
      BY <2>3, <1>4, <1>11
    <2>4. CASE x = p /\ t.op \notin {"confirm", "submit"}
      <3>1. pois[p].verification_count <= 1 + Cardinality(confirmations[p])
        BY <1>1, <1>2 DEF CountNeverOverstates
      <3>2. pois[p].verification_count \in Nat
        BY <1>3 DEF PoiRow
      <3>3. confirmations'[p] = confirmations[p]
        BY <2>4, <1>1
      <3> QED
        BY <2>4, <3>1, <3>2, <3>3, <1>4
    <2> QED
      BY <2>1, <2>2, <2>3, <2>4
  <1>13. ASSUME NEW q \in Requests
         PROVE  /\ SessionShape(txn'[q])
                /\ FoundPoiStays(txn[q])'
                /\ KeyIsNew(txn[q])'
                /\ CopyNeverOverstates(txn[q])'
                /\ RemovalIsBacked(txn[q])'
    <2>1. CASE q = r
      <3>1. /\ txn'[q] = Closed /\ Closed.op = "none"
        BY <2>1, <1>1 DEF Closed
      <3> QED
        BY <3>1 DEF SessionShape, FoundPoiStays, KeyIsNew, HoldsKey,
                    CopyNeverOverstates, RemovalIsBacked, Ops
    <2>2. CASE q # r
      <3> DEFINE s == txn[q]
      <3>1. /\ txn'[q] = s /\ s \in Session /\ SessionShape(s)
            /\ FoundPoiStays(s) /\ KeyIsNew(s) /\ CopyNeverOverstates(s)
            /\ RemovalIsBacked(s)
        BY <2>2, <1>1, <1>10 DEF IInv, SessionsAgree
      <3>2. s.op \in Ops => s.poi \in Pois /\ s.actor \in Users
        BY <3>1 DEF SessionShape, Closed, Ops
      <3>3. HoldsKey(s) /\ HoldsKey(t) => ~(s.op = t.op /\ s.poi = p /\ s.actor = t.actor)
        <4>1. SUFFICES ASSUME HoldsKey(s), HoldsKey(t), s.op = t.op, s.poi = p, s.actor = t.actor
                       PROVE  FALSE
          OBVIOUS
        <4>2. s.pc \in {"count", "flush", "credit", "commit"}
          BY <4>1 DEF HoldsKey
        <4>3. q \in InsertedSameKey(txn[r])
          BY <4>1, <4>2 DEF InsertedSameKey, t, p
        <4> QED
          BY <4>1, <4>3, <1>2, <2>2 DEF KeysAreUnique, t
      <3> HIDE DEF s
      <3>4. FoundPoiStays(txn[q])'
        <4>1. SUFFICES ASSUME s.op \in Ops \ {"submit"}, s.pc # "read"
                       PROVE  /\ pois'[s.poi].status # "absent"
                              /\ pois'[s.poi].source = s.row.source
                              /\ s.op \in {"confirm", "propose"} => s.row.source # s.actor
          BY <3>1 DEF FoundPoiStays
        <4>2. /\ pois[s.poi].status # "absent" /\ pois[s.poi].source = s.row.source
              /\ s.op \in {"confirm", "propose"} => s.row.source # s.actor
          BY <4>1, <3>1 DEF FoundPoiStays
        <4>3. CASE s.poi # p
          BY <4>1, <4>2, <4>3, <3>2, <1>1
        <4>4. CASE s.poi = p
          BY <4>2, <4>4, <1>4, <1>7
        <4> QED
          BY <4>3, <4>4
      <3>5. KeyIsNew(txn[q])'
        <4>1. SUFFICES ASSUME HoldsKey(s)
                       PROVE  s.actor \notin (IF s.op = "confirm" THEN confirmations'
                                              ELSE proposals')[s.poi]
          BY <3>1 DEF KeyIsNew, HoldsKey
        <4>2. s.op \in {"confirm", "propose"} /\ s.op \in Ops
          BY <4>1 DEF HoldsKey, Ops
        <4>3. s.actor \notin (IF s.op = "confirm" THEN confirmations ELSE proposals)[s.poi]
          BY <4>1, <3>1 DEF KeyIsNew
        <4>4. CASE s.poi # p
          BY <4>2, <4>3, <4>4, <3>2, <1>1
        <4>5. CASE s.poi = p /\ s.op = "confirm"
          BY <4>1, <4>3, <4>5, <3>3, <1>1, <1>8
        <4>6. CASE s.poi = p /\ s.op = "propose"
          BY <4>1, <4>3, <4>6, <3>3, <1>1, <1>8
        <4> QED
          BY <4>2, <4>4, <4>5, <4>6
      <3>6. CopyNeverOverstates(txn[q])'
        <4>1. SUFFICES ASSUME s.op = "confirm", s.pc # "read"
                       PROVE  s.row.verification_count <= 1 + Cardinality(confirmations'[s.poi])
          BY <3>1 DEF CopyNeverOverstates
        <4>2. s.row.verification_count <= 1 + Cardinality(confirmations[s.poi])
          BY <4>1, <3>1 DEF CopyNeverOverstates
        <4>3. s.row.verification_count \in Nat /\ s.poi \in Pois
          BY <4>1, <3>1, <3>2 DEF Session, PoiRow, Ops
        <4> QED
          BY <4>2, <4>3, <1>11
      <3>7. RemovalIsBacked(txn[q])'
        <4>1. SUFFICES ASSUME s.op = "propose", s.pc \in {"flush", "credit"} \/ s.locks # {}
                       PROVE  Cardinality(proposals'[s.poi] \cup {s.actor}) >= RemovalThreshold
          BY <3>1 DEF RemovalIsBacked
        <4>2. Cardinality(proposals[s.poi] \cup {s.actor}) >= RemovalThreshold
          BY <4>1, <3>1 DEF RemovalIsBacked
        <4>3. s.poi \in Pois /\ s.actor \in Users
          BY <4>1, <3>2 DEF Ops
        <4>4. CASE s.poi = p /\ t.op = "propose"
          <5> DEFINE S == proposals[p] \cup {s.actor}
          <5>1. S \in SUBSET Users
            BY <4>3, <1>1, <1>3
          <5>2. proposals'[p] \cup {s.actor} = S \cup {t.actor}
            BY <4>4, <1>1
          <5> HIDE DEF S
          <5>3. Cardinality(S) <= Cardinality(S \cup {t.actor})
                  /\ Cardinality(S) \in Nat /\ Cardinality(S \cup {t.actor}) \in Nat
            BY <5>1, <1>1, AddUser
          <5>4. Cardinality(S) >= RemovalThreshold
            BY <4>2, <4>4 DEF S
          <5> QED
            BY <5>2, <5>3, <5>4, <4>4 DEF RemovalThreshold
        <4>5. CASE ~(s.poi = p /\ t.op = "propose")
          <5>1. proposals'[s.poi] = proposals[s.poi]
            BY <4>3, <4>5, <1>1
          <5> QED
            BY <5>1, <4>2
        <4> QED
          BY <4>4, <4>5
      <3> QED
        BY <3>1, <3>4, <3>5, <3>6, <3>7
    <2> QED
      BY <2>1, <2>2
  <1>14. KeysAreUnique'
    <2> SUFFICES ASSUME NEW x \in Requests, NEW q \in Requests,
                        HoldsKey(txn'[x]), HoldsKey(txn'[q]),
                        txn'[q].op = txn'[x].op, txn'[q].poi = txn'[x].poi,
                        txn'[q].actor = txn'[x].actor
                 PROVE  q = x
      BY DEF KeysAreUnique, InsertedSameKey, HoldsKey
    <2>1. ~HoldsKey(Closed)
      BY DEF HoldsKey, Closed
    <2>2. x # r /\ q # r
      BY <2>1, <1>1
    <2> QED
      BY <2>2, <1>1, <1>2 DEF KeysAreUnique, InsertedSameKey, HoldsKey
  <1>15. NewPoiIsFresh'
    <2> SUFFICES ASSUME NEW x \in Requests, txn'[x].op = "submit"
                 PROVE  /\ pois'[txn'[x].poi].status = "absent"
                        /\ \A q \in Requests :
                             txn'[q].op = "submit" /\ txn'[q].poi = txn'[x].poi => q = x
      BY DEF NewPoiIsFresh
    <2>1. Closed.op # "submit"
      BY DEF Closed
    <2>2. x # r /\ txn'[x] = txn[x]
      BY <2>1, <1>1
    <2>3. /\ pois[txn[x].poi].status = "absent"
          /\ \A q \in Requests :
               txn[q].op = "submit" /\ txn[q].poi = txn[x].poi => q = x
      BY <2>2, <1>2 DEF NewPoiIsFresh
    <2>4. txn[x].poi \in Pois
      BY <2>2, <1>10 DEF SessionShape, Closed
    <2>5. txn[x].poi # p
      <3>1. t.op = "submit" => txn[x].poi # p
        BY <2>2, <2>3 DEF t, p
      <3> QED
        BY <3>1, <2>3, <1>6
    <2> QED
      BY <2>1, <2>2, <2>3, <2>4, <2>5, <1>1
  <1>16. SessionsAgree'
    <2>1. \A q \in Requests : SessionShape(txn[q])'
      BY <1>13 DEF SessionShape, Closed
    <2> QED
      BY <2>1, <1>13, <1>14, <1>15 DEF SessionsAgree
  <1> QED
    BY <1>5, <1>12, <1>16 DEF IInv

(***************************************************************************)
(* The theorems.                                                           *)
(***************************************************************************)

LEMMA NextIInv == IInv /\ [Next]_vars => IInv'
  <1> SUFFICES ASSUME IInv, [Next]_vars PROVE IInv'
    OBVIOUS
  <1>1. ASSUME NEW r \in Requests, Begin(r) PROVE IInv'
    BY <1>1, BeginStep
  <1>2. ASSUME NEW r \in Requests, Step(r) PROVE IInv'
    BY <1>2, StatementStep, CommitStep
  <1>3. ASSUME NEW r \in Requests, Abort(r) PROVE IInv'
    BY <1>3, RollbackStep DEF Abort
  <1>4. CASE UNCHANGED vars
    BY <1>4 DEF vars, IInv, TypeOK, CountNeverOverstates, SessionsAgree, SessionShape,
                FoundPoiStays, KeyIsNew, HoldsKey, CopyNeverOverstates, RemovalIsBacked,
                KeysAreUnique, InsertedSameKey, NewPoiIsFresh, Closed
  <1> QED
    BY <1>1, <1>2, <1>3, <1>4 DEF Next

\* The tables and the sessions are always well typed.
THEOREM TypeCorrect == Spec => []TypeOK
  <1>1. IInv => TypeOK
    BY DEF IInv
  <1> QED
    BY <1>1, InitIInv, NextIInv, PTL DEF Spec

\* The counter of a POI never overstates its confirmations, however many
\* requests interleave.
THEOREM CountSafety == Spec => []CountNeverOverstates
  <1>1. IInv => CountNeverOverstates
    BY DEF IInv
  <1> QED
    BY <1>1, InitIInv, NextIInv, PTL DEF Spec

\* What an open session has found out stays true until it ends.
THEOREM SessionSafety == Spec => []SessionsAgree
  <1>1. IInv => SessionsAgree
    BY DEF IInv
  <1> QED
    BY <1>1, InitIInv, NextIInv, PTL DEF Spec

(***************************************************************************)
(* Bans.                                                                   *)
(***************************************************************************)

\* A step changes the row of a user only by committing a charge or a credit.
LEMMA UserRowStep ==
  ASSUME IInv, [Next]_vars, NEW u \in Users
  PROVE  \/ users'[u] = users[u]
         \/ \E r \in Requests : users'[u] = UserAfter(txn[r], users[u])
  <1>1. ASSUME NEW r \in Requests, Commit(r)
        PROVE  \/ users'[u] = users[u]
               \/ users'[u] = UserAfter(txn[r], users[u])
    <2>1. users \in [Users -> UserRow]
      BY DEF IInv, TypeOK
    <2>2. \/ users' = users
          \/ users' = [users EXCEPT ![Submitter(txn[r])] = UserAfter(txn[r], @)]
      BY <1>1 DEF Commit
    <2> QED
      BY <2>1, <2>2
  <1>2. ASSUME NEW r \in Requests, Begin(r) \/ Abort(r) \/ (Step(r) /\ ~Commit(r))
        PROVE  users' = users
    BY <1>2 DEF Begin, SubmitBegin, ConfirmBegin, ProposeBegin, RejectBegin, ApproveBegin,
                Open, Abort, Rollback, Become, tables, Step, ConfirmRead, ConfirmInsert,
                ConfirmFlush, ProposeRead, ProposeInsert, ProposeCount, RejectRead,
                SoftDelete, ApproveRead, ApproveFlush, LockUser, ReadPoi, Goto
  <1>3. CASE UNCHANGED vars
    BY <1>3 DEF vars
  <1> QED
    BY <1>1, <1>2, <1>3 DEF Next

\* The ban follows the reputation for every interleaving of credits and charges.
THEOREM BanSafety == Spec => []BanFollowsReputation
  <1>1. Init => BanFollowsReputation
    BY DEF Init, BanFollowsReputation, NewUserRow
  <1>2. IInv /\ BanFollowsReputation /\ [Next]_vars => BanFollowsReputation'
    <2> SUFFICES ASSUME IInv, BanFollowsReputation, [Next]_vars, NEW u \in Users,
                        ShouldAutoBan(users'[u].reputation)
                 PROVE  users'[u].is_banned
      BY DEF BanFollowsReputation
    <2>1. CASE users'[u] = users[u]
      BY <2>1 DEF BanFollowsReputation
    <2>2. CASE \E r \in Requests : users'[u] = UserAfter(txn[r], users[u])
      BY <2>2, UserAfterFacts DEF IInv, TypeOK
    <2> QED
      BY <2>1, <2>2, UserRowStep
  <1> QED
    BY <1>1, <1>2, InitIInv, NextIInv, PTL DEF Spec

\* No interleaving lifts a ban.
THEOREM BanFinality == Spec => BanIsFinal
  <1>1. IInv /\ [Next]_vars => [\A u \in Users : users[u].is_banned => users'[u].is_banned]_vars
    <2> SUFFICES ASSUME IInv, [Next]_vars, NEW u \in Users, users[u].is_banned
                 PROVE  users'[u].is_banned
      OBVIOUS
    <2>1. CASE users'[u] = users[u]
      BY <2>1
    <2>2. CASE \E r \in Requests : users'[u] = UserAfter(txn[r], users[u])
      BY <2>2, UserAfterFacts DEF IInv, TypeOK
    <2> QED
      BY <2>1, <2>2, UserRowStep
  <1> QED
    BY <1>1, InitIInv, NextIInv, PTL DEF Spec, BanIsFinal

(***************************************************************************)
(* Notices.                                                                *)
(***************************************************************************)

\* Nobody was told of an id that is not in use: a new row starts unannounced.
NoticedPoiExists ==
  \A p \in Pois : notices[p] > 0 => pois[p].status # "absent"

\* No session but a new submission makes a verified POI unverified.
LEMMA VerifiedStays ==
  ASSUME NEW t \in Session, NEW row \in PoiRow, t.op \in Ops, t.op # "submit"
  PROVE  /\ row.verification_status = "verified"
              => PoiAfter(t, row).verification_status = "verified"
         /\ t.op = "confirm" /\ Flips(t) => PoiAfter(t, row).verification_status = "verified"
  <1>1. CASE t.op = "confirm"
    BY <1>1 DEF PoiAfter, ConfirmedRow, PoiRow
  <1>2. CASE t.op \in {"propose", "reject"}
    BY <1>2 DEF PoiAfter, RemovedRow, PoiRow
  <1>3. CASE t.op = "approve"
    BY <1>3 DEF PoiAfter, ApprovedRow, PoiRow
  <1> QED
    BY <1>1, <1>2, <1>3 DEF Ops

\* A notice and the flip it tells of are committed together.
LEMMA CommitNotices ==
  ASSUME IInv, NoticeMeansVerified, NoticedPoiExists, NEW r \in Requests, Commit(r)
  PROVE  NoticeMeansVerified' /\ NoticedPoiExists'
  <1> DEFINE t == txn[r]
  <1>1. /\ t \in Session /\ t.op \in Ops /\ t.poi \in Pois
        /\ \A x \in Pois \ {t.poi} : pois'[x] = pois[x]
        /\ pois'[t.poi] = PoiAfter(t, pois[t.poi])
    BY CommitTables
  <1>2. /\ pois[t.poi] \in PoiRow /\ notices \in [Pois -> Nat]
        /\ t.pc = "commit" /\ FoundPoiStays(t) /\ NewPoiIsFresh
    BY <1>1 DEF IInv, TypeOK, SessionsAgree, Commit
  <1>3. \/ UNCHANGED notices
        \/ t.op = "confirm" /\ Flips(t) /\ notices' = [notices EXCEPT ![t.poi] = @ + 1]
    BY <1>2 DEF Commit
  <1> SUFFICES ASSUME NEW x \in Pois, notices'[x] > 0
               PROVE  /\ pois'[x].verification_status = "verified"
                      /\ pois'[x].status # "absent"
    BY DEF NoticeMeansVerified, NoticedPoiExists
  <1>4. CASE x # t.poi
    <2>1. notices[x] > 0
      BY <1>2, <1>3, <1>4
    <2> QED
      BY <1>1, <1>4, <2>1 DEF NoticeMeansVerified, NoticedPoiExists
  <1>5. CASE x = t.poi /\ t.op = "submit"
    BY <1>2, <1>3, <1>5 DEF NoticedPoiExists, NewPoiIsFresh
  <1>6. CASE x = t.poi /\ t.op # "submit"
    <2>1. pois[x].status # "absent"
      BY <1>1, <1>2, <1>6 DEF FoundPoiStays
    <2>2. pois'[x].status # "absent"
      BY <1>1, <1>2, <1>6, <2>1, PoiAfterFacts
    <2>3. notices[x] > 0 \/ (t.op = "confirm" /\ Flips(t))
      BY <1>2, <1>3, <1>6
    <2>4. pois'[x].verification_status = "verified"
      BY <1>1, <1>2, <1>6, <2>3, VerifiedStays DEF NoticeMeansVerified
    <2> QED
      BY <2>2, <2>4
  <1> QED
    BY <1>4, <1>5, <1>6

\* The submitter of a POI is told of its verification only when it is verified, and no session
\* that still holds the row from before takes the verification back.
THEOREM NoticeSafety == Spec => []NoticeMeansVerified
  <1>1. Init => NoticeMeansVerified /\ NoticedPoiExists
    BY DEF Init, NoticeMeansVerified, NoticedPoiExists
  <1>2. IInv /\ NoticeMeansVerified /\ NoticedPoiExists /\ [Next]_vars
          => NoticeMeansVerified' /\ NoticedPoiExists'
    <2> SUFFICES ASSUME IInv, NoticeMeansVerified, NoticedPoiExists, [Next]_vars
                 PROVE  NoticeMeansVerified' /\ NoticedPoiExists'
      OBVIOUS
    <2>1. CASE \E r \in Requests : Commit(r)
      BY <2>1, CommitNotices
    <2>2. CASE UNCHANGED tables
      BY <2>2 DEF tables, NoticeMeansVerified, NoticedPoiExists
    <2>3. ASSUME NEW r \in Requests, Begin(r) \/ Abort(r) \/ (Step(r) /\ ~Commit(r))
          PROVE  UNCHANGED tables
      BY <2>3 DEF Begin, SubmitBegin, ConfirmBegin, ProposeBegin, RejectBegin, ApproveBegin,
                  Open, Abort, Rollback, Become, Step, ConfirmRead, ConfirmInsert,
                  ConfirmFlush, ProposeRead, ProposeInsert, ProposeCount, RejectRead,
                  SoftDelete, ApproveRead, ApproveFlush, LockUser, ReadPoi, Goto
    <2>4. CASE UNCHANGED vars
      BY <2>2, <2>4 DEF vars, tables
    <2> QED
      BY <2>1, <2>2, <2>3, <2>4 DEF Next
  <1> QED
    BY <1>1, <1>2, InitIInv, NextIInv, PTL DEF Spec

(***************************************************************************)
(* Refinement of PoiLifecycle: statements map to stuttering, commits to    *)
(* the steps of the lifecycle.                                             *)
(***************************************************************************)

\* A statement that commits nothing leaves the lifecycle unchanged.
LEMMA StatementStutters ==
  ASSUME UNCHANGED tables
  PROVE  UNCHANGED Promise!lifecycle
  BY DEF tables, Promise!lifecycle, Owner, Status, Verified

\* A commit is a step of the lifecycle or changes nothing in it.
LEMMA CommitRefines ==
  ASSUME IInv, NEW r \in Requests, Commit(r)
  PROVE  Promise!Next \/ UNCHANGED Promise!lifecycle
  <1> DEFINE t == txn[r]
             p == t.poi
  <1>1. /\ t \in Session /\ t.op \in Ops /\ t.actor \in Users /\ p \in Pois
        /\ \A x \in Pois \ {p} : /\ pois'[x] = pois[x]
                                 /\ confirmations'[x] = confirmations[x]
                                 /\ proposals'[x] = proposals[x]
        /\ pois'[p] = PoiAfter(t, pois[p])
        /\ confirmations'[p] =
             IF t.op = "confirm" THEN confirmations[p] \cup {t.actor} ELSE confirmations[p]
        /\ proposals'[p] =
             IF t.op = "propose" THEN proposals[p] \cup {t.actor} ELSE proposals[p]
    BY CommitTables
  <1>2. /\ t.pc = "commit" /\ FoundPoiStays(t) /\ KeyIsNew(t) /\ CopyNeverOverstates(t)
        /\ RemovalIsBacked(t) /\ NewPoiIsFresh /\ TypeOK
    BY DEF IInv, SessionsAgree, Commit
  <1>3. TypeOK'
    BY <1>1, <1>2, CommitType
  <1>4. /\ pois \in [Pois -> PoiRow] /\ pois' \in [Pois -> PoiRow]
        /\ confirmations \in [Pois -> SUBSET Users] /\ confirmations' \in [Pois -> SUBSET Users]
        /\ proposals \in [Pois -> SUBSET Users] /\ proposals' \in [Pois -> SUBSET Users]
    BY <1>2, <1>3 DEF TypeOK
  <1>5. t.op # "submit" => pois[p].status # "absent" /\ pois[p].source = t.row.source
    BY <1>1, <1>2 DEF FoundPoiStays
  <1>6. t.op \in {"confirm", "propose"} => t.actor # pois[p].source
    BY <1>2 DEF FoundPoiStays, Ops
  <1>7. /\ t.op = "confirm" => t.actor \notin confirmations[p]
        /\ t.op = "propose" => t.actor \notin proposals[p]
    BY <1>2 DEF KeyIsNew, HoldsKey
  <1>8. t.op = "confirm" => t.row.verification_count <= 1 + Cardinality(confirmations[p])
    BY <1>2 DEF CopyNeverOverstates
  <1>9. t.op = "propose" /\ t.locks # {} =>
          Cardinality(proposals[p] \cup {t.actor}) >= RemovalThreshold
    BY <1>2 DEF RemovalIsBacked
  <1> HIDE DEF t, p
  <1> PICK x \in Pois, u \in Users : x = p /\ u = t.actor
    BY <1>1
  <1> DEFINE row == PoiAfter(t, pois[p])
  <1>10. /\ \A q \in Pois \ {x} : pois'[q] = pois[q]
         /\ pois'[x] = row
         /\ pois[x] \in PoiRow /\ row \in PoiRow
         /\ Owner[x] = pois[x].source /\ Status[x] = pois[x].status
    BY <1>1, <1>4 DEF Owner, Status
  <1>11. /\ Owner' = [Owner EXCEPT ![x] = row.source]
         /\ Status' = [Status EXCEPT ![x] = row.status]
         /\ row.source = pois[x].source => Owner' = Owner
         /\ row.status = pois[x].status => Status' = Status
    BY <1>10 DEF Owner, Status
  <1>12. Verified' = [Verified EXCEPT ![x] = (row.verification_status = "verified")]
    <2>1. \A q \in Pois : Verified'[q] = (pois'[q].verification_status = "verified")
      BY DEF Verified
    <2>2. \A q \in Pois : Verified[q] = (pois[q].verification_status = "verified")
      BY DEF Verified
    <2>3. Verified \in [Pois -> BOOLEAN] /\ Verified' \in [Pois -> BOOLEAN]
      BY DEF Verified
    <2>4. \A q \in Pois : Verified'[q] = IF q = x THEN (row.verification_status = "verified")
                                        ELSE Verified[q]
      BY <1>10, <2>1, <2>2
    <2> HIDE DEF row
    <2> QED
      BY <2>3, <2>4
  <1>13. row.verification_status = pois[x].verification_status => Verified' = Verified
    BY <1>10 DEF Verified
  <1>14. /\ t.op # "confirm" => confirmations' = confirmations
         /\ t.op # "propose" => proposals' = proposals
         /\ t.op = "confirm" =>
              confirmations' = [confirmations EXCEPT ![x] = confirmations[x] \cup {u}]
         /\ t.op = "propose" =>
              proposals' = [proposals EXCEPT ![x] = proposals[x] \cup {u}]
    BY <1>1, <1>4
  <1>15. /\ confirmations[x] \in SUBSET Users /\ proposals[x] \in SUBSET Users
         /\ t.row \in PoiRow
    BY <1>1, <1>4 DEF Session
  <1> HIDE DEF row
  <1>16. CASE t.op = "submit"
    <2>1. pois[x].status = "absent"
      BY <1>2, <1>16 DEF NewPoiIsFresh, t, p
    <2>2. row = SubmittedRow(t.actor, IsTrusted(t.who.reputation))
      BY <1>16 DEF PoiAfter, row
    <2>3. row.source = u /\ row.status = "active"
      BY <2>2 DEF SubmittedRow
    <2>4. (row.verification_status = "verified") \in BOOLEAN
      OBVIOUS
    <2>5. Promise!Submit(x, u)
      BY <1>10, <1>11, <1>12, <1>14, <1>16, <2>1, <2>3, <2>4
         DEF Promise!Submit
    <2> QED
      BY <2>5 DEF Promise!Next
  <1>17. CASE t.op = "confirm"
    <2>1. row = ConfirmedRow(t, pois[p])
      BY <1>17 DEF PoiAfter, row
    <2>2. row.source = pois[x].source /\ row.status = pois[x].status
      BY <2>1, <1>10 DEF ConfirmedRow, PoiRow
    <2>3. \/ row.verification_status = pois[x].verification_status
          \/ Flips(t) /\ row.verification_status = "verified"
      BY <2>1, <1>10 DEF ConfirmedRow, PoiRow
    <2>4. u \notin confirmations[x]
      BY <1>7, <1>17
    <2>5. Flips(t) => Cardinality(confirmations'[x]) >= VerificationThreshold - 1
      <3>1. t.row.verification_count <= 1 + Cardinality(confirmations[x])
        BY <1>8, <1>17
      <3>2. /\ Cardinality(confirmations'[x]) = Cardinality(confirmations[x]) + 1
            /\ Cardinality(confirmations[x]) \in Nat
        <4>1. confirmations'[x] = confirmations[x] \cup {u}
          BY <1>4, <1>14, <1>17
        <4> DEFINE S == confirmations[x]
        <4>2. S \in SUBSET Users /\ u \notin S
          BY <2>4, <1>15
        <4> HIDE DEF S
        <4>3. Cardinality(S \cup {u}) = Cardinality(S) + 1 /\ Cardinality(S) \in Nat
          BY <4>2, AddUser
        <4> QED
          BY <4>1, <4>3 DEF S
      <3>3. t.row.verification_count \in Nat
        BY <1>15 DEF PoiRow
      <3> QED
        BY <3>1, <3>2, <3>3 DEF Flips, VerificationThreshold
    <2>6. \/ Verified' = Verified
          \/ /\ Cardinality(confirmations'[x]) >= VerificationThreshold - 1
             /\ Verified' = [Verified EXCEPT ![x] = TRUE]
      BY <2>3, <2>5, <1>12, <1>13
    <2>7. Status[x] # "absent" /\ u # Owner[x]
      BY <1>5, <1>6, <1>10, <1>17
    <2>8. /\ confirmations' = [confirmations EXCEPT ![x] = confirmations[x] \cup {u}]
          /\ Owner' = Owner /\ Status' = Status /\ proposals' = proposals
      BY <1>11, <1>14, <1>17, <2>2
    <2>9. CASE Verified' = Verified
      BY <2>4, <2>7, <2>8, <2>9 DEF Promise!Next, Promise!Vouch
    <2>10. CASE /\ Cardinality(confirmations'[x]) >= VerificationThreshold - 1
                /\ Verified' = [Verified EXCEPT ![x] = TRUE]
      <3>1. confirmations'[x] \in {S \in SUBSET Users : Cardinality(S) >= VerificationThreshold - 1}
        BY <1>4, <2>10
      <3> QED
        BY <2>4, <2>7, <2>8, <2>10, <3>1 DEF Promise!Next, Promise!Vouch
    <2> QED
      BY <2>6, <2>9, <2>10
  <1>18. CASE t.op = "propose"
    <2>1. \/ t.locks # {} /\ row = RemovedRow(pois[p])
          \/ t.locks = {} /\ row = pois[p]
      BY <1>18 DEF PoiAfter, row
    <2>2. /\ row.source = pois[x].source
          /\ row.verification_status = pois[x].verification_status
          /\ \/ row.status = pois[x].status
             \/ t.locks # {} /\ row.status = "removed"
      BY <2>1, <1>10 DEF RemovedRow, PoiRow
    <2>3. u \notin proposals[x]
      BY <1>7, <1>18
    <2>4. t.locks # {} => Cardinality(proposals'[x]) >= RemovalThreshold
      <3>1. proposals'[x] = proposals[x] \cup {u}
        BY <1>4, <1>14, <1>18
      <3> QED
        BY <1>9, <1>18, <3>1
    <2>5. Status[x] # "absent" /\ u # Owner[x]
      BY <1>5, <1>6, <1>10, <1>18
    <2>6. \/ Status' = Status
          \/ /\ Cardinality(proposals'[x]) >= RemovalThreshold
             /\ Status' = [Status EXCEPT ![x] = "removed"]
      BY <2>2, <2>4, <1>11
    <2>7. /\ proposals' = [proposals EXCEPT ![x] = proposals[x] \cup {u}]
          /\ Owner' = Owner /\ Verified' = Verified /\ confirmations' = confirmations
      BY <1>11, <1>13, <1>14, <1>18, <2>2
    <2>8. CASE Status' = Status
      BY <2>3, <2>5, <2>7, <2>8 DEF Promise!Next, Promise!Object
    <2>9. CASE /\ Cardinality(proposals'[x]) >= RemovalThreshold
               /\ Status' = [Status EXCEPT ![x] = "removed"]
      <3>1. proposals'[x] \in {S \in SUBSET Users : Cardinality(S) >= RemovalThreshold}
        BY <1>4, <2>9
      <3> QED
        BY <2>3, <2>5, <2>7, <2>9, <3>1 DEF Promise!Next, Promise!Object
    <2> QED
      BY <2>6, <2>8, <2>9
  <1>19. CASE t.op = "approve"
    <2>1. row = ApprovedRow(pois[p])
      BY <1>19 DEF PoiAfter, row
    <2>2. /\ row.source = pois[x].source /\ row.status = pois[x].status
          /\ row.verification_status = "verified"
      BY <2>1, <1>10 DEF ApprovedRow, PoiRow
    <2>3. Status[x] # "absent"
      BY <1>5, <1>10, <1>19
    <2>4. Verified' = [Verified EXCEPT ![x] = TRUE]
      BY <2>2, <1>12
    <2>5. Promise!Approve(x)
      BY <1>11, <1>14, <1>19, <2>2, <2>3, <2>4 DEF Promise!Approve
    <2> QED
      BY <2>5 DEF Promise!Next
  <1>20. CASE t.op = "reject" /\ t.locks # {}
    <2>1. row = RemovedRow(pois[p])
      BY <1>20 DEF PoiAfter, row
    <2>2. /\ row.source = pois[x].source /\ row.status = "removed"
          /\ row.verification_status = pois[x].verification_status
      BY <2>1, <1>10 DEF RemovedRow, PoiRow
    <2>3. Status[x] # "absent"
      BY <1>5, <1>10, <1>20
    <2>4. Promise!Reject(x)
      BY <1>11, <1>13, <1>14, <1>20, <2>2, <2>3 DEF Promise!Reject
    <2> QED
      BY <2>4 DEF Promise!Next
  <1>21. CASE t.op = "reject" /\ t.locks = {}
    <2>1. row = pois[p]
      BY <1>21 DEF PoiAfter, row
    <2>2. Owner' = Owner /\ Status' = Status /\ Verified' = Verified
      BY <2>1, <1>11, <1>13
    <2> QED
      BY <2>2, <1>14, <1>21 DEF Promise!lifecycle
  <1> QED
    BY <1>1, <1>16, <1>17, <1>18, <1>19, <1>20, <1>21 DEF Ops

\* The concurrent sessions implement the promise of PoiLifecycle: a POI becomes
\* verified only through an approval, a trusted submission or enough distinct
\* confirmers, is removed only by an admin or enough distinct proposers, and
\* none of this is ever undone.
THEOREM Refinement == Spec => KeepsPromise
  <1>1. Init => Promise!Init
    <2> SUFFICES ASSUME Init PROVE Promise!Init
      OBVIOUS
    <2>1. \A p \in Pois :
            /\ pois[p].source \in Users \cup {Importer}
            /\ pois[p].status \in {"absent", "active"}
            /\ pois[p].verification_status = "verified" =>
                 pois[p].status = "active" /\ pois[p].source = Importer
      BY SeedAssumption DEF Init, NoRow, SeedRow, ImportedRow, SubmittedRow, Sources
    <2> QED
      BY <2>1 DEF Init, Promise!Init, Owner, Status, Verified
  <1>2. IInv /\ [Next]_vars => [Promise!Next]_(Promise!lifecycle)
    <2> SUFFICES ASSUME IInv, [Next]_vars
                 PROVE  Promise!Next \/ UNCHANGED Promise!lifecycle
      OBVIOUS
    <2>1. ASSUME NEW r \in Requests, Commit(r)
          PROVE  Promise!Next \/ UNCHANGED Promise!lifecycle
      BY <2>1, CommitRefines
    <2>2. ASSUME NEW r \in Requests, Begin(r) \/ Abort(r) \/ (Step(r) /\ ~Commit(r))
          PROVE  UNCHANGED tables
      BY <2>2 DEF Begin, SubmitBegin, ConfirmBegin, ProposeBegin, RejectBegin, ApproveBegin,
                  Open, Abort, Rollback, Become, Step, ConfirmRead, ConfirmInsert,
                  ConfirmFlush, ProposeRead, ProposeInsert, ProposeCount, RejectRead,
                  SoftDelete, ApproveRead, ApproveFlush, LockUser, ReadPoi, Goto
    <2>3. CASE UNCHANGED vars
      BY <2>3, StatementStutters DEF vars, tables
    <2> QED
      BY <2>1, <2>2, <2>3, StatementStutters DEF Next
  <1> QED
    BY <1>1, <1>2, InitIInv, NextIInv, PTL DEF Spec, KeepsPromise, Promise!Spec

=============================================================================
