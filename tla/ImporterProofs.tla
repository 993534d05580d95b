---------------------------- MODULE ImporterProofs ----------------------------
(***************************************************************************)
(* Proofs about Importer, for any rows, any number of overlapping runs and *)
(* any grace period: no run removes a POI within the grace period of the   *)
(* listing it was last written from, and none removes what it has just     *)
(* found listed, provided that the listing carries no date older than the  *)
(* grace period (without that proviso the run of ImporterOldDates.cfg has  *)
(* a counterexample).                                                      *)
(*                                                                         *)
(* The soft-delete decides on what it sees, the commit writes later.  That *)
(* the decision still holds then is due to the row locks: IInv says what   *)
(* is locked and what a session knows of the rows it has locked.           *)
(***************************************************************************)
EXTENDS Importer, TLAPS

-----------------------------------------------------------------------------
(* The inductive invariant                                                 *)

TypeOK ==
  /\ pois \in [Ids -> PoiRow]
  /\ source \in SUBSET Ids
  /\ job \in [Runners -> Session]
  /\ seen \in [Ids -> Int]
  /\ now \in Nat

\* No date lies before the grace period.
NoOldDates == \A x \in Ids : \A age \in Ages[x] : age <= Grace

\* Dates are not in the future, and a POI was verified when its listing says, or later.
DatesAgree(x) ==
  pois[x].status # "absent" =>
    pois[x].last_verified_at <= now /\ seen[x] <= pois[x].last_verified_at

\* A run changes rows that it has found in the listing; all but the one it
\* is about to write are locked.
ChangesAgree(t, x) ==
  /\ t.changes[x] # "none" => /\ x \in t.listing \ t.todo
                              /\ x \in t.locks \/ (t.pc = "flush" /\ x = t.current)
  /\ t.pc = "insert" /\ x = t.current => t.changes[x] = "none"
  /\ x \in t.listing => t.as_of[x] <= now

\* What the soft-delete matched is locked, and still stale.
StaleAgrees(k, x) ==
  x \in job[k].stale =>
    /\ job[k].pc = "commit" /\ x \in job[k].locks
    /\ Visible(k)[x].status = "active" /\ Visible(k)[x].last_verified_at < now - Grace

\* No row is locked twice.
LocksApart == \A j, k \in Runners : job[j].locks \cap job[k].locks # {} => j = k

\* What a run has found listed exists and is recent, be it by its own hand; so
\* the soft-delete of that run does not match it.
ListedAgrees(t, x) ==
  x \in t.listing =>
    /\ t.as_of[x] >= now - Grace
    /\ x \notin t.todo /\ ~(t.pc = "insert" /\ x = t.current) =>
         /\ t.changes[x] \in {"none", "refresh"} => pois[x].status # "absent"
         /\ t.changes[x] = "none" => pois[x].last_verified_at >= now - Grace
    /\ x \notin t.stale

SessionAgrees(k) ==
  /\ job[k].pc = "idle" => job[k] = Closed
  /\ job[k].todo \subseteq job[k].listing
  /\ job[k].pc = "commit" => job[k].todo = {}
  /\ job[k].pc \in {"insert", "flush"} => job[k].current \in job[k].listing \ job[k].todo
  /\ \A x \in Ids : /\ ChangesAgree(job[k], x)
                    /\ StaleAgrees(k, x)
                    /\ NoOldDates => ListedAgrees(job[k], x)

IInv ==
  /\ TypeOK
  /\ \A x \in Ids : DatesAgree(x)
  /\ \A k \in Runners : SessionAgrees(k)
  /\ LocksApart

-----------------------------------------------------------------------------
(* Sessions that stay as they are                                          *)

\* A run that is not open relies on nothing.
LEMMA ClosedAgrees ==
  ASSUME NEW k \in Runners, job'[k] = Closed
  PROVE  SessionAgrees(k)'
  <1>1. /\ Closed.pc = "idle" /\ Closed.listing = {} /\ Closed.todo = {} /\ Closed.stale = {}
        /\ \A x \in Ids : Closed.changes[x] = "none"
    BY DEF Closed
  <1> QED
    BY <1>1 DEF SessionAgrees, ChangesAgree, StaleAgrees, ListedAgrees

\* A run is not misled by what happens to rows it has not locked, as long as rows
\* stay in the table and keep a recent date.
LEMMA BystanderAgrees ==
  ASSUME TypeOK, NEW j \in Runners, SessionAgrees(j), job'[j] = job[j], now' = now,
         \A x \in Ids :
           \/ pois'[x] = pois[x]
           \/ /\ x \notin job[j].locks
              /\ pois[x].status # "absent" => pois'[x].status # "absent"
              /\ NoOldDates /\ pois[x].last_verified_at >= now - Grace =>
                   pois'[x].last_verified_at >= now - Grace
  PROVE  SessionAgrees(j)'
  <1>1. ASSUME NEW x \in Ids PROVE ChangesAgree(job[j], x)'
    BY DEF SessionAgrees, ChangesAgree
  <1>2. ASSUME NEW x \in Ids PROVE StaleAgrees(j, x)'
    <2>1. x \in job[j].stale => Visible(j)'[x] = Visible(j)[x]
      BY DEF SessionAgrees, StaleAgrees, Visible
    <2> QED
      BY <2>1 DEF SessionAgrees, StaleAgrees
  <1>3. ASSUME NEW x \in Ids, NoOldDates PROVE ListedAgrees(job[j], x)'
    <2>1. ListedAgrees(job[j], x)
      BY <1>3 DEF SessionAgrees
    <2> QED
      BY <1>3, <2>1 DEF ListedAgrees
  <1> QED
    BY <1>1, <1>2, <1>3 DEF SessionAgrees

\* A statement of run k: only its session moves on, to s, and locks only free rows.
LEMMA StatementStep ==
  ASSUME IInv, NEW k \in Runners, NEW s \in Session, job' = [job EXCEPT ![k] = s],
         UNCHANGED << pois, source, seen, now >>, SessionAgrees(k)',
         \A j \in Runners \ {k} : job[j].locks \cap s.locks = {}
  PROVE  IInv'
  <1>0. TypeOK
    BY DEF IInv
  <1>1. job'[k] = s /\ \A j \in Runners \ {k} : job'[j] = job[j]
    BY <1>0 DEF TypeOK
  <1>2. TypeOK'
    BY <1>0 DEF TypeOK
  <1>3. ASSUME NEW j \in Runners PROVE SessionAgrees(j)'
    BY <1>0, <1>1, BystanderAgrees DEF IInv
  <1>4. LocksApart'
    BY <1>1 DEF IInv, LocksApart
  <1>5. ASSUME NEW x \in Ids PROVE DatesAgree(x)'
    BY DEF IInv, DatesAgree
  <1> QED
    BY <1>2, <1>3, <1>4, <1>5 DEF IInv

\* A run that ends without a commit.
LEMMA CloseStep ==
  ASSUME IInv, NEW k \in Runners, job' = [job EXCEPT ![k] = Closed],
         UNCHANGED << pois, source, seen, now >>
  PROVE  IInv'
  <1>1. Closed \in Session /\ Closed.locks = {}
    BY DEF Closed, Session
  <1>2. SessionAgrees(k)'
    BY ClosedAgrees DEF IInv, TypeOK
  <1> QED
    BY <1>1, <1>2, StatementStep
-----------------------------------------------------------------------------
(* The statements of a run                                                 *)

\* The dates of a listing are not in the future.
LEMMA StartStep ==
  ASSUME IInv, NEW k \in Runners, Start(k)
  PROVE  IInv'
  <1>1. PICK listing \in SUBSET source, age \in [Ids -> UNION {Ages[x] : x \in Ids}] :
          /\ \A x \in Ids : age[x] \in IF x \in listing THEN Ages[x] ELSE {0}
          /\ job' = [job EXCEPT ![k] =
               [Closed EXCEPT !.pc = "upsert", !.listing = listing, !.todo = listing,
                              !.as_of = [x \in Ids |-> IF x \in listing THEN now - age[x] ELSE 0]]]
          /\ UNCHANGED << pois, source, seen, now >>
    BY DEF Start
  <1> DEFINE dates == [x \in Ids |-> IF x \in listing THEN now - age[x] ELSE 0]
             s == [Closed EXCEPT !.pc = "upsert", !.listing = listing, !.todo = listing,
                                 !.as_of = dates]
  <1>2. listing \in SUBSET Ids /\ now \in Nat
    BY DEF IInv, TypeOK
  <1>3. \A x \in Ids : LET date == IF x \in listing THEN now - age[x] ELSE 0 IN
          /\ date \in Int
          /\ x \in listing => date <= now /\ (NoOldDates => date >= now - Grace)
    BY <1>1, <1>2, ImporterAssumption DEF NoOldDates
  <1>4. /\ dates \in [Ids -> Int]
        /\ \A x \in listing : dates[x] <= now /\ (NoOldDates => dates[x] >= now - Grace)
    BY <1>2, <1>3
  <1>5. /\ s \in Session /\ s.pc = "upsert" /\ s.listing = listing /\ s.todo = listing
        /\ s.as_of = dates /\ s.stale = {} /\ s.locks = {}
        /\ \A x \in Ids : s.changes[x] = "none"
    BY <1>2, <1>4 DEF Closed, Session
  <1>6. job' = [job EXCEPT ![k] = s]
    BY <1>1
  <1> HIDE DEF s, dates
  <1>7. job'[k] = s
    BY <1>6 DEF IInv, TypeOK
  <1>8. SessionAgrees(k)'
    <2>1. \A x \in Ids : ChangesAgree(s, x)
      BY <1>4, <1>5 DEF ChangesAgree
    <2>2. NoOldDates => \A x \in Ids : ListedAgrees(s, x)
      BY <1>4, <1>5 DEF ListedAgrees
    <2> QED
      BY <1>1, <1>5, <1>7, <2>1, <2>2 DEF SessionAgrees, StaleAgrees, ChangesAgree, ListedAgrees
  <1>9. \A j \in Runners \ {k} : job[j].locks \cap s.locks = {}
    BY <1>5
  <1> QED
    BY <1>1, <1>5, <1>6, <1>8, <1>9, StatementStep

\* A row is found up to date, missing, or in need of an UPDATE.
LEMMA SelectStep ==
  ASSUME IInv, NEW k \in Runners, NEW x \in Ids, UpsertSelect(k, x)
  PROVE  IInv'
  <1> DEFINE t == job[k]
             found == [t EXCEPT !.todo = @ \ {x}]
             change == IF pois[x].status = "active" THEN "refresh" ELSE "revive"
             missing == [found EXCEPT !.pc = "insert", !.current = x]
             written == [found EXCEPT !.pc = "flush", !.current = x, !.changes[x] = change]
  <1>0. /\ TypeOK /\ SessionAgrees(k) /\ t \in Session /\ LocksApart
        /\ t.pc = "upsert" /\ x \in t.todo /\ UNCHANGED << pois, source, seen, now >>
    BY DEF IInv, TypeOK, UpsertSelect, Become
  <1>1. /\ t.changes \in [Ids -> {"none", "create", "refresh", "revive"}]
        /\ t.as_of \in [Ids -> Int] /\ t.stale = {}
        /\ x \in t.listing => t.changes[x] = "none"
    <2>1. t.stale = {}
      BY <1>0 DEF Session, SessionAgrees, StaleAgrees
    <2> QED
      BY <1>0, <2>1 DEF Session, SessionAgrees, ChangesAgree
  <1>2. \A j \in Runners \ {k} : job[j].locks \cap t.locks = {}
    BY <1>0 DEF LocksApart
  <1>3. CASE UpToDate(k, x) /\ job' = [job EXCEPT ![k] = found]
    <2>1. /\ found \in Session /\ found.pc = "upsert" /\ found.todo = t.todo \ {x}
          /\ found.listing = t.listing /\ found.as_of = t.as_of /\ found.changes = t.changes
          /\ found.stale = t.stale /\ found.locks = t.locks
      BY <1>0 DEF Session
    <2>2. job'[k] = found
      BY <1>0, <1>3 DEF TypeOK
    <2> HIDE DEF found
    <2>3. SessionAgrees(k)'
      <3>1. \A y \in Ids : ChangesAgree(found, y)
        BY <1>0, <2>1 DEF SessionAgrees, ChangesAgree
      <3>2. ASSUME NoOldDates, NEW y \in Ids PROVE ListedAgrees(found, y)
        <4>1. ListedAgrees(t, y)
          BY <1>0, <3>2 DEF SessionAgrees
        <4>2. /\ pois[x].status # "absent"
              /\ x \in t.listing => pois[x].last_verified_at >= now - Grace
          BY <1>0, <1>3, <3>2 DEF UpToDate, SessionAgrees, ListedAgrees
        <4> QED
          BY <1>0, <1>1, <2>1, <4>1, <4>2 DEF ListedAgrees
      <3> QED
        BY <1>0, <1>1, <2>1, <2>2, <3>1, <3>2
           DEF SessionAgrees, StaleAgrees, ChangesAgree, ListedAgrees
    <2> QED
      BY <1>0, <1>2, <1>3, <2>1, <2>3, StatementStep
  <1>4. CASE pois[x].status = "absent" /\ job' = [job EXCEPT ![k] = missing]
    <2>1. /\ missing \in Session /\ missing.pc = "insert" /\ missing.todo = t.todo \ {x}
          /\ missing.current = x /\ missing.listing = t.listing /\ missing.as_of = t.as_of
          /\ missing.changes = t.changes /\ missing.stale = t.stale
          /\ missing.locks = t.locks
      BY <1>0 DEF Session
    <2>2. job'[k] = missing
      BY <1>0, <1>4 DEF TypeOK
    <2> HIDE DEF missing
    <2>3. SessionAgrees(k)'
      <3>1. \A y \in Ids : ChangesAgree(missing, y)
        BY <1>0, <1>1, <2>1 DEF SessionAgrees, ChangesAgree
      <3>2. ASSUME NoOldDates, NEW y \in Ids PROVE ListedAgrees(missing, y)
        <4>1. ListedAgrees(t, y)
          BY <1>0, <3>2 DEF SessionAgrees
        <4> QED
          BY <1>0, <1>1, <2>1, <4>1 DEF ListedAgrees
      <3> QED
        BY <1>0, <1>1, <2>1, <2>2, <3>1, <3>2
           DEF SessionAgrees, StaleAgrees, ChangesAgree, ListedAgrees
    <2> QED
      BY <1>0, <1>2, <1>4, <2>1, <2>3, StatementStep
  <1>5. CASE pois[x].status # "absent" /\ job' = [job EXCEPT ![k] = written]
    <2>1. /\ written \in Session /\ written.pc = "flush" /\ written.todo = t.todo \ {x}
          /\ written.current = x /\ written.listing = t.listing /\ written.as_of = t.as_of
          /\ written.changes = [t.changes EXCEPT ![x] = change] /\ written.stale = t.stale
          /\ written.locks = t.locks
      BY <1>0 DEF Session
    <2>2. job' = [job EXCEPT ![k] = written] /\ job'[k] = written /\ change \in {"refresh", "revive"}
          /\ written.changes[x] = change
          /\ \A y \in Ids \ {x} : written.changes[y] = t.changes[y]
      BY <1>0, <1>1, <1>5, <2>1 DEF TypeOK
    <2>3. x \in t.listing
      BY <1>0 DEF SessionAgrees
    <2> HIDE DEF written, change
    <2>4. SessionAgrees(k)'
      <3>1. \A y \in Ids : ChangesAgree(written, y)
        BY <1>0, <1>1, <2>1, <2>2, <2>3 DEF SessionAgrees, ChangesAgree
      <3>2. ASSUME NoOldDates, NEW y \in Ids PROVE ListedAgrees(written, y)
        <4>1. ListedAgrees(t, y)
          BY <1>0, <3>2 DEF SessionAgrees
        <4> QED
          BY <1>0, <1>1, <1>5, <2>1, <2>2, <4>1 DEF ListedAgrees
      <3> QED
        BY <1>0, <1>1, <2>1, <2>2, <3>1, <3>2
           DEF SessionAgrees, StaleAgrees, ChangesAgree, ListedAgrees
    <2>5. written \in Session /\ \A j \in Runners \ {k} : job[j].locks \cap written.locks = {}
      BY <1>2, <2>1
    <2> QED
      BY <1>0, <2>2, <2>4, <2>5, StatementStep
  <1> QED
    BY <1>3, <1>4, <1>5 DEF UpsertSelect, Become

\* The INSERT and the UPDATE wait until nobody else has locked the row.
LEMMA WriteStep ==
  ASSUME IInv, NEW k \in Runners, Insert(k) \/ Flush(k)
  PROVE  IInv'
  <1> DEFINE t == job[k]
             x == t.current
             inserted == [t EXCEPT !.pc = "upsert", !.current = Nothing,
                                   !.changes[x] = "create", !.locks = @ \cup {x}]
             flushed == [t EXCEPT !.pc = "upsert", !.current = Nothing, !.locks = @ \cup {x}]
  <1>0. /\ TypeOK /\ SessionAgrees(k) /\ t \in Session /\ LocksApart
        /\ t.pc \in {"insert", "flush"} /\ x \in Ids /\ x \in t.listing \ t.todo
        /\ t.stale = {} /\ t.changes \in [Ids -> {"none", "create", "refresh", "revive"}]
        /\ UNCHANGED << pois, source, seen, now >>
    <2>1. /\ TypeOK /\ SessionAgrees(k) /\ t \in Session /\ LocksApart
          /\ t.pc \in {"insert", "flush"} /\ UNCHANGED << pois, source, seen, now >>
      BY DEF IInv, TypeOK, Insert, Flush, Become
    <2>2. x \in t.listing \ t.todo /\ t.listing \subseteq Ids
      BY <2>1 DEF SessionAgrees, Session
    <2>3. t.stale = {}
      BY <2>1 DEF SessionAgrees, StaleAgrees, Session
    <2> QED
      BY <2>1, <2>2, <2>3 DEF Session
  <1>1. \A j \in Runners \ {k} : job[j].locks \cap (t.locks \cup {x}) = {}
    <2>1. Wanted(k) = {x}
      BY <1>0 DEF Wanted, Sweeping
    <2>2. ~Blocked(k)
      BY DEF Insert, Flush
    <2> QED
      BY <1>0, <2>1, <2>2 DEF Blocked, WaitsFor, LocksApart
  <1>2. CASE Insert(k) /\ pois[x].status = "absent"
    <2>1. /\ inserted \in Session /\ inserted.pc = "upsert" /\ inserted.todo = t.todo
          /\ inserted.listing = t.listing /\ inserted.as_of = t.as_of
          /\ inserted.stale = t.stale /\ inserted.locks = t.locks \cup {x}
          /\ inserted.changes = [t.changes EXCEPT ![x] = "create"]
      BY <1>0 DEF Session
    <2>2. job' = [job EXCEPT ![k] = inserted] /\ job'[k] = inserted
      BY <1>0, <1>2 DEF Insert, Become, TypeOK
    <2>3. /\ inserted.changes[x] = "create"
          /\ \A y \in Ids \ {x} : inserted.changes[y] = t.changes[y]
      BY <1>0, <2>1
    <2>4. t.pc = "insert"
      BY <1>2 DEF Insert
    <2> HIDE DEF inserted
    <2>5. SessionAgrees(k)'
      <3>1. \A y \in Ids : ChangesAgree(inserted, y)
        BY <1>0, <2>1, <2>3, <2>4 DEF SessionAgrees, ChangesAgree
      <3>2. ASSUME NoOldDates, NEW y \in Ids PROVE ListedAgrees(inserted, y)
        <4>1. ListedAgrees(t, y)
          BY <1>0, <3>2 DEF SessionAgrees
        <4> QED
          BY <1>0, <2>1, <2>3, <4>1 DEF ListedAgrees
      <3>3. t.todo \subseteq t.listing
        BY <1>0 DEF SessionAgrees
      <3> QED
        BY <1>0, <2>1, <2>2, <3>1, <3>2, <3>3
           DEF SessionAgrees, StaleAgrees, ChangesAgree, ListedAgrees
    <2>6. inserted \in Session /\ \A j \in Runners \ {k} : job[j].locks \cap inserted.locks = {}
      BY <1>1, <2>1
    <2> QED
      BY <1>0, <2>2, <2>5, <2>6, StatementStep
  <1>3. CASE Insert(k) /\ pois[x].status # "absent"
    BY <1>0, <1>3, CloseStep DEF Insert, Become
  <1>4. CASE Flush(k)
    <2>1. /\ flushed \in Session /\ flushed.pc = "upsert" /\ flushed.todo = t.todo
          /\ flushed.listing = t.listing /\ flushed.as_of = t.as_of
          /\ flushed.stale = t.stale /\ flushed.locks = t.locks \cup {x}
          /\ flushed.changes = t.changes
      BY <1>0 DEF Session
    <2>2. job' = [job EXCEPT ![k] = flushed] /\ job'[k] = flushed
      BY <1>0, <1>4 DEF Flush, Become, TypeOK
    <2>3. t.pc = "flush"
      BY <1>4 DEF Flush
    <2> HIDE DEF flushed
    <2>5. SessionAgrees(k)'
      <3>1. \A y \in Ids : ChangesAgree(flushed, y)
        BY <1>0, <2>1, <2>3 DEF SessionAgrees, ChangesAgree
      <3>2. ASSUME NoOldDates, NEW y \in Ids PROVE ListedAgrees(flushed, y)
        <4>1. ListedAgrees(t, y)
          BY <1>0, <3>2 DEF SessionAgrees
        <4> QED
          BY <1>0, <2>1, <2>3, <4>1 DEF ListedAgrees
      <3>3. t.todo \subseteq t.listing
        BY <1>0 DEF SessionAgrees
      <3> QED
        BY <1>0, <2>1, <2>2, <3>1, <3>2, <3>3
           DEF SessionAgrees, StaleAgrees, ChangesAgree, ListedAgrees
    <2>6. flushed \in Session /\ \A j \in Runners \ {k} : job[j].locks \cap flushed.locks = {}
      BY <1>1, <2>1
    <2> QED
      BY <1>0, <2>2, <2>5, <2>6, StatementStep
  <1> QED
    BY <1>2, <1>3, <1>4

\* What the run has found listed is recent, so the soft-delete does not match it.
LEMMA SweepStep ==
  ASSUME IInv, NEW k \in Runners, Sweep(k)
  PROVE  IInv'
  <1> DEFINE t == job[k]
             s == [t EXCEPT !.pc = "commit", !.stale = Stale(k), !.locks = @ \cup Stale(k)]
  <1>0. /\ TypeOK /\ SessionAgrees(k) /\ t \in Session /\ LocksApart
        /\ t.pc = "upsert" /\ t.todo = {} /\ ~Blocked(k) /\ Stale(k) \subseteq Ids
        /\ job' = [job EXCEPT ![k] = s] /\ UNCHANGED << pois, source, seen, now >>
    BY DEF IInv, TypeOK, Sweep, Sweeping, Become, Stale
  <1>1. /\ s \in Session /\ s.pc = "commit" /\ s.todo = {} /\ s.listing = t.listing
        /\ s.as_of = t.as_of /\ s.changes = t.changes /\ s.stale = Stale(k)
        /\ s.locks = t.locks \cup Stale(k)
    BY <1>0 DEF Session
  <1>2. job'[k] = s
    BY <1>0 DEF TypeOK
  <1>3. \A j \in Runners \ {k} : job[j].locks \cap (t.locks \cup Stale(k)) = {}
    <2>1. Wanted(k) = Stale(k)
      BY <1>0 DEF Wanted, Sweeping
    <2> QED
      BY <1>0, <2>1 DEF Blocked, WaitsFor, LocksApart
  <1> HIDE DEF s
  <1>4. ASSUME NEW x \in Ids PROVE ChangesAgree(s, x)
    BY <1>0, <1>1 DEF SessionAgrees, ChangesAgree
  <1>5. ASSUME NEW x \in Ids PROVE StaleAgrees(k, x)'
    <2>1. Visible(k)'[x] = Visible(k)[x]
      BY <1>0, <1>1, <1>2 DEF Visible
    <2>2. x \in Stale(k) => Visible(k)[x].status = "active"
                            /\ Visible(k)[x].last_verified_at < now - Grace
      BY DEF Stale
    <2> QED
      BY <1>0, <1>1, <1>2, <2>1, <2>2 DEF StaleAgrees
  <1>6. ASSUME NoOldDates, NEW x \in Ids PROVE ListedAgrees(s, x)
    <2>1. ListedAgrees(t, x) /\ t.changes[x] \in {"none", "create", "refresh", "revive"}
      BY <1>0, <1>6 DEF SessionAgrees, Session
    <2>2. ASSUME x \in t.listing PROVE x \notin Stale(k)
      <3>1. /\ t.as_of[x] >= now - Grace
            /\ t.changes[x] = "none" => pois[x].last_verified_at >= now - Grace
        BY <1>0, <2>1, <2>2 DEF ListedAgrees
      <3>2. Visible(k)[x].last_verified_at \in {t.as_of[x], pois[x].last_verified_at}
            /\ (t.changes[x] # "none" => Visible(k)[x].last_verified_at = t.as_of[x])
        BY <1>0, <2>1 DEF Visible, Upserted, TypeOK, PoiRow
      <3>3. /\ t.as_of[x] \in Int /\ pois[x].last_verified_at \in Int
            /\ now - Grace \in Int
        BY <1>0, ImporterAssumption DEF TypeOK, Session, PoiRow
      <3>4. ~(Visible(k)[x].last_verified_at < now - Grace)
        <4>1. CASE t.changes[x] = "none"
          <5>1. Visible(k)[x] = pois[x]
            BY <4>1 DEF Visible, Upserted
          <5> QED
            BY <3>1, <3>3, <4>1, <5>1
        <4>2. CASE t.changes[x] # "none"
          BY <3>1, <3>2, <3>3, <4>2
        <4> QED
          BY <4>1, <4>2
      <3> QED
        BY <3>4 DEF Stale
    <2> QED
      BY <1>0, <1>1, <2>1, <2>2 DEF ListedAgrees
  <1>7. SessionAgrees(k)'
    BY <1>0, <1>1, <1>2, <1>4, <1>5, <1>6 DEF SessionAgrees, ChangesAgree, ListedAgrees
  <1>8. \A j \in Runners \ {k} : job[j].locks \cap s.locks = {}
    BY <1>1, <1>3
  <1> QED
    BY <1>0, <1>1, <1>7, <1>8, StatementStep

-----------------------------------------------------------------------------
(* The commit and the others                                               *)

\* What the commit of a run makes of row x.
LEMMA CommittedRow ==
  ASSUME IInv, NEW k \in Runners, Commit(k), NEW x \in Ids
  PROVE  /\ pois'[x] \in PoiRow /\ seen'[x] \in Int
         /\ job[k].changes[x] = "none" =>
              pois'[x].last_verified_at = pois[x].last_verified_at /\ seen'[x] = seen[x]
         /\ job[k].changes[x] # "none" =>
              /\ pois'[x].last_verified_at = job[k].as_of[x] /\ seen'[x] = job[k].as_of[x]
              /\ x \in job[k].listing /\ x \in job[k].locks /\ job[k].as_of[x] <= now
         /\ x \notin job[k].stale /\ job[k].changes[x] \in {"none", "refresh"} =>
              pois'[x].status = pois[x].status
         /\ x \notin job[k].stale /\ job[k].changes[x] \in {"create", "revive"} =>
              pois'[x].status = "active"
         /\ x \in job[k].stale =>
              /\ pois'[x].status = "removed" /\ x \in job[k].locks
              /\ pois'[x].last_verified_at < now - Grace
              /\ job[k].changes[x] = "none" => pois[x].status = "active"
         /\ job[k].changes[x] = "none" /\ x \notin job[k].stale => pois'[x] = pois[x]
  <1> DEFINE t == job[k]
             row == Visible(k)[x]
  <1>0. /\ t \in Session /\ t.pc = "commit" /\ pois[x] \in PoiRow /\ seen[x] \in Int
        /\ t.changes[x] \in {"none", "create", "refresh", "revive"} /\ t.as_of[x] \in Int
        /\ ChangesAgree(t, x) /\ StaleAgrees(k, x)
    BY DEF IInv, TypeOK, SessionAgrees, Commit, Session
  <1>1. /\ pois'[x] = IF x \in t.stale THEN Swept(row) ELSE row
        /\ seen'[x] = IF t.changes[x] # "none" THEN t.as_of[x] ELSE seen[x]
    BY DEF Commit
  <1>2. row = Upserted(pois[x], t.changes[x], t.as_of[x])
    BY DEF Visible
  <1>3. /\ row \in PoiRow
        /\ t.changes[x] = "none" => row = pois[x]
        /\ t.changes[x] # "none" => row.last_verified_at = t.as_of[x]
        /\ t.changes[x] = "refresh" => row.status = pois[x].status
        /\ t.changes[x] \in {"create", "revive"} => row.status = "active"
    BY <1>0, <1>2 DEF Upserted, PoiRow
  <1>4. /\ Swept(row) \in PoiRow /\ Swept(row).status = "removed"
        /\ Swept(row).last_verified_at = row.last_verified_at
    BY <1>3 DEF Swept, PoiRow
  <1>5. t.changes[x] # "none" => x \in t.listing /\ x \in t.locks /\ t.as_of[x] <= now
    BY <1>0 DEF ChangesAgree
  <1>6. x \in t.stale =>
          x \in t.locks /\ row.status = "active" /\ row.last_verified_at < now - Grace
    BY <1>0 DEF StaleAgrees
  <1> HIDE DEF row
  <1> QED
    BY <1>0, <1>1, <1>3, <1>4, <1>5, <1>6

\* The commit changes rows that no other run has locked, gives them recent dates and
\* keeps them in the table.
LEMMA CommitStep ==
  ASSUME IInv, NEW k \in Runners, Commit(k)
  PROVE  IInv'
  <1>0. /\ TypeOK /\ LocksApart /\ job[k] \in Session
        /\ job' = [job EXCEPT ![k] = Closed] /\ UNCHANGED << source, now >>
    BY DEF IInv, TypeOK, Commit
  <1>1. job'[k] = Closed /\ \A j \in Runners \ {k} : job'[j] = job[j]
    BY <1>0 DEF TypeOK
  <1>2. TypeOK'
    <2>1. pois' \in [Ids -> PoiRow]
      <3>1. \A x \in Ids : pois'[x] \in PoiRow
        BY CommittedRow
      <3>2. pois' = [x \in Ids |-> pois'[x]]
        BY DEF Commit
      <3> QED
        BY <3>1, <3>2
    <2>2. seen' \in [Ids -> Int]
      <3>1. \A x \in Ids : seen'[x] \in Int
        BY CommittedRow
      <3>2. seen' = [x \in Ids |-> seen'[x]]
        BY DEF Commit
      <3> QED
        BY <3>1, <3>2
    <2>3. job' \in [Runners -> Session]
      BY <1>0 DEF TypeOK, Closed, Session
    <2> QED
      BY <1>0, <2>1, <2>2, <2>3 DEF TypeOK
  <1>3. ASSUME NEW x \in Ids PROVE DatesAgree(x)'
    <2>1. DatesAgree(x) /\ pois[x] \in PoiRow /\ job[k].as_of[x] \in Int /\ now \in Nat
          /\ job[k].changes[x] \in {"none", "create", "refresh", "revive"}
      BY <1>0 DEF IInv, TypeOK, Session
    <2>2. CASE job[k].changes[x] # "none"
      BY <1>0, <2>1, <2>2, CommittedRow DEF DatesAgree
    <2>3. CASE job[k].changes[x] = "none"
      <3>1. /\ pois'[x].last_verified_at = pois[x].last_verified_at /\ seen'[x] = seen[x]
            /\ pois'[x].status # "absent" => pois[x].status # "absent"
        BY <2>3, CommittedRow
      <3> QED
        BY <1>0, <2>1, <3>1 DEF DatesAgree
    <2> QED
      BY <2>2, <2>3
  <1>4. ASSUME NEW j \in Runners PROVE SessionAgrees(j)'
    <2>1. CASE j = k
      BY <1>1, <2>1, ClosedAgrees
    <2>2. CASE j # k
      <3>1. ASSUME NEW x \in Ids
            PROVE  \/ pois'[x] = pois[x]
                   \/ /\ x \notin job[j].locks
                      /\ pois[x].status # "absent" => pois'[x].status # "absent"
                      /\ NoOldDates /\ pois[x].last_verified_at >= now - Grace =>
                           pois'[x].last_verified_at >= now - Grace
        <4>1. job[k].changes[x] \in {"none", "create", "refresh", "revive"}
          BY <1>0 DEF Session
        <4>2. CASE job[k].changes[x] = "none" /\ x \notin job[k].stale
          BY <4>2, CommittedRow
        <4>3. CASE job[k].changes[x] # "none" \/ x \in job[k].stale
          <5>1. x \notin job[j].locks
            BY <1>0, <2>2, <4>3, CommittedRow DEF LocksApart
          <5>2. pois[x].status # "absent" => pois'[x].status # "absent"
            BY <4>1, CommittedRow
          <5>3. NoOldDates /\ x \in job[k].listing => job[k].as_of[x] >= now - Grace
            BY DEF IInv, SessionAgrees, ListedAgrees
          <5>4. NoOldDates /\ pois[x].last_verified_at >= now - Grace =>
                  pois'[x].last_verified_at >= now - Grace
            <6>1. CASE job[k].changes[x] = "none"
              BY <6>1, CommittedRow
            <6>2. CASE job[k].changes[x] # "none"
              BY <5>3, <6>2, CommittedRow
            <6> QED
              BY <6>1, <6>2
          <5> QED
            BY <5>1, <5>2, <5>4
        <4> QED
          BY <4>2, <4>3
      <3>2. job'[j] = job[j] /\ now' = now /\ SessionAgrees(j)
        BY <1>0, <1>1, <2>2 DEF IInv
      <3> QED
        BY <1>0, <3>1, <3>2, BystanderAgrees
    <2> QED
      BY <2>1, <2>2
  <1>5. LocksApart'
    <2>1. job'[k].locks = {}
      BY <1>1 DEF Closed
    <2> QED
      BY <1>0, <1>1, <2>1 DEF LocksApart
  <1> QED
    BY <1>2, <1>3, <1>4, <1>5 DEF IInv

\* Users and admins wait for the rows a run has locked; the publisher is not in the tables.
LEMMA OthersStep ==
  ASSUME IInv, NEW x \in Ids, Confirm(x) \/ Delete(x) \/ SourceChanges(x)
  PROVE  IInv'
  <1>0. TypeOK /\ pois[x] \in PoiRow /\ now \in Nat /\ now - Grace \in Int /\ now >= now - Grace
    BY ImporterAssumption DEF IInv, TypeOK
  <1>1. CASE SourceChanges(x)
    <2>1. UNCHANGED << pois, job, seen, now >> /\ source' \in SUBSET Ids
      BY <1>0, <1>1 DEF SourceChanges, TypeOK
    <2>2. TypeOK'
      BY <1>0, <2>1 DEF TypeOK
    <2>3. ASSUME NEW j \in Runners PROVE SessionAgrees(j)'
      BY <1>0, <2>1, BystanderAgrees DEF IInv
    <2>4. LocksApart' /\ \A y \in Ids : DatesAgree(y)'
      BY <2>1 DEF IInv, LocksApart, DatesAgree
    <2> QED
      BY <2>2, <2>3, <2>4 DEF IInv
  <1>2. CASE Confirm(x) \/ Delete(x)
    <2>1. PICK row \in PoiRow :
            /\ pois' = [pois EXCEPT ![x] = row] /\ UNCHANGED << source, job, seen, now >>
            /\ Free(x) /\ pois[x].status # "absent" /\ row.status # "absent"
            /\ row.last_verified_at \in {now, pois[x].last_verified_at}
      <3>1. CASE Confirm(x)
        <4>1. [pois[x] EXCEPT !.last_verified_at = now] \in PoiRow
          BY <1>0 DEF PoiRow
        <4> QED
          BY <1>0, <3>1, <4>1 DEF Confirm, PoiRow
      <3>2. CASE Delete(x)
        <4>1. [pois[x] EXCEPT !.status = "removed"] \in PoiRow
          BY <1>0 DEF PoiRow
        <4> QED
          BY <1>0, <3>2, <4>1 DEF Delete, PoiRow
      <3> QED
        BY <1>2, <3>1, <3>2
    <2>2. pois'[x] = row /\ \A y \in Ids \ {x} : pois'[y] = pois[y]
      BY <1>0, <2>1 DEF TypeOK
    <2>3. TypeOK'
      BY <1>0, <2>1 DEF TypeOK
    <2>4. ASSUME NEW j \in Runners PROVE SessionAgrees(j)'
      <3>1. x \notin job[j].locks
        BY <2>1 DEF Free
      <3>2. pois[x].last_verified_at >= now - Grace => row.last_verified_at >= now - Grace
        BY <1>0, <2>1
      <3> QED
        BY <1>0, <2>1, <2>2, <3>1, <3>2, BystanderAgrees DEF IInv
    <2>5. ASSUME NEW y \in Ids PROVE DatesAgree(y)'
      <3>1. DatesAgree(y) /\ DatesAgree(x) /\ seen[x] \in Int /\ pois[x].last_verified_at \in Int
        BY <1>0 DEF IInv, TypeOK, PoiRow
      <3> QED
        BY <1>0, <2>1, <2>2, <3>1 DEF DatesAgree
    <2>6. LocksApart'
      BY <2>1 DEF IInv, LocksApart
    <2> QED
      BY <2>3, <2>4, <2>5, <2>6 DEF IInv
  <1> QED
    BY <1>1, <1>2

\* Time passes only when no run is open.
LEMMA TickStep ==
  ASSUME IInv, Tick
  PROVE  IInv'
  <1>0. /\ TypeOK /\ now \in Nat /\ now' = now + 1 /\ UNCHANGED << pois, source, job, seen >>
        /\ \A k \in Runners : job[k] = Closed
    BY DEF IInv, TypeOK, Tick
  <1>1. TypeOK'
    BY <1>0 DEF TypeOK
  <1>2. ASSUME NEW x \in Ids PROVE DatesAgree(x)'
    <2>1. DatesAgree(x) /\ pois[x].last_verified_at \in Int
      BY <1>0 DEF IInv, TypeOK, PoiRow
    <2> QED
      BY <1>0, <2>1 DEF DatesAgree
  <1>3. \A k \in Runners : SessionAgrees(k)'
    BY <1>0, ClosedAgrees
  <1>4. LocksApart'
    BY <1>0 DEF IInv, LocksApart
  <1> QED
    BY <1>1, <1>2, <1>3, <1>4 DEF IInv
-----------------------------------------------------------------------------
(* The theorems                                                            *)

\* Nothing is imported and no run is open.
LEMMA InitIInv == Init => IInv
  <1> SUFFICES ASSUME Init PROVE IInv
    OBVIOUS
  <1>1. TypeOK
    BY DEF Init, TypeOK, NoRow, PoiRow, Closed, Session
  <1>2. \A k \in Runners : /\ job[k] = Closed /\ job[k].pc = "idle" /\ job[k].listing = {}
                           /\ job[k].todo = {} /\ job[k].stale = {} /\ job[k].locks = {}
                           /\ \A x \in Ids : job[k].changes[x] = "none"
    BY DEF Init, Closed
  <1>3. (\A k \in Runners : SessionAgrees(k)) /\ LocksApart
    BY <1>2 DEF SessionAgrees, ChangesAgree, StaleAgrees, ListedAgrees, LocksApart
  <1>4. \A x \in Ids : DatesAgree(x)
    BY DEF Init, DatesAgree, NoRow
  <1> QED
    BY <1>1, <1>3, <1>4 DEF IInv

\* Every step keeps the invariant.
LEMMA NextIInv == IInv /\ [Next]_vars => IInv'
  <1> SUFFICES ASSUME IInv, [Next]_vars PROVE IInv'
    OBVIOUS
  <1>1. ASSUME NEW k \in Runners, Start(k) \/ Step(k) PROVE IInv'
    BY <1>1, StartStep, SelectStep, WriteStep, SweepStep, CommitStep DEF Step
  <1>2. ASSUME NEW k \in Runners, DeadlockVictim(k) \/ RunFails(k) PROVE IInv'
    BY <1>2, CloseStep DEF DeadlockVictim, RunFails, Become
  <1>3. ASSUME NEW x \in Ids, Confirm(x) \/ Delete(x) \/ SourceChanges(x) PROVE IInv'
    BY <1>3, OthersStep
  <1>4. CASE Tick
    BY <1>4, TickStep
  <1>5. CASE End \/ UNCHANGED vars
    <2>1. UNCHANGED << pois, source, job, seen, now >>
      BY <1>5 DEF End, vars
    <2>2. TypeOK' /\ LocksApart' /\ \A x \in Ids : DatesAgree(x)'
      BY <2>1 DEF IInv, TypeOK, LocksApart, DatesAgree
    <2>3. ASSUME NEW k \in Runners PROVE SessionAgrees(k)'
      BY <2>1, BystanderAgrees DEF IInv
    <2> QED
      BY <2>2, <2>3 DEF IInv
  <1> QED
    BY <1>1, <1>2, <1>3, <1>4, <1>5 DEF Next

\* No run removes a POI within the grace period of the listing it was last written from, for
\* any dates the publisher gives and however runs, users and failures interleave
\* (base.py:165, _soft_delete_stale).
THEOREM GraceSafety == Spec => GraceBeforeRemoval
  <1>1. IInv /\ [Next]_vars =>
          [\A k \in Runners, x \in Ids :
             Commit(k) /\ pois[x].status = "active" /\ pois'[x].status = "removed"
               => now - seen'[x] > Grace]_vars
    <2> SUFFICES ASSUME IInv, NEW k \in Runners, NEW x \in Ids, Commit(k),
                        pois[x].status = "active", pois'[x].status = "removed"
                 PROVE  now - seen'[x] > Grace
      OBVIOUS
    <2>1. /\ now \in Nat /\ Grace \in Nat /\ pois[x] \in PoiRow /\ DatesAgree(x)
          /\ job[k].changes[x] \in {"none", "create", "refresh", "revive"}
          /\ job[k].as_of[x] \in Int /\ seen[x] \in Int
      BY ImporterAssumption DEF IInv, TypeOK, Session
    <2>2. x \in job[k].stale
      BY <2>1, CommittedRow
    <2>3. pois'[x].last_verified_at < now - Grace /\ pois'[x].last_verified_at \in Int
      BY <2>2, CommittedRow DEF PoiRow
    <2>4. seen'[x] <= pois'[x].last_verified_at
      <3>1. CASE job[k].changes[x] = "none"
        BY <2>1, <3>1, CommittedRow DEF DatesAgree
      <3>2. CASE job[k].changes[x] # "none"
        BY <2>1, <3>2, CommittedRow
      <3> QED
        BY <3>1, <3>2
    <2>5. seen'[x] \in Int
      BY CommittedRow
    <2> QED
      BY <2>1, <2>3, <2>4, <2>5
  <1> QED
    BY <1>1, InitIInv, NextIInv, PTL DEF Spec, GraceBeforeRemoval

\* When the listing carries no date older than the grace period, no run removes a POI
\* that it has just found listed (base.py:137, _upsert_one).
THEOREM ListedSafety ==
  ASSUME NoOldDates
  PROVE  Spec => ListedStaysActive
  <1>1. IInv /\ [Next]_vars =>
          [\A k \in Runners, x \in Ids :
             Commit(k) /\ x \in job[k].listing /\ pois[x].status # "removed"
               => pois'[x].status = "active"]_vars
    <2> SUFFICES ASSUME IInv, NEW k \in Runners, NEW x \in Ids, Commit(k),
                        x \in job[k].listing, pois[x].status # "removed"
                 PROVE  pois'[x].status = "active"
      OBVIOUS
    <2>1. /\ pois[x] \in PoiRow
          /\ job[k].changes[x] \in {"none", "create", "refresh", "revive"}
      BY DEF IInv, TypeOK, Session
    <2>2. job[k].pc = "commit" /\ job[k].todo = {} /\ ListedAgrees(job[k], x)
      BY NoOldDates DEF Commit, IInv, SessionAgrees
    <2>3. /\ x \notin job[k].stale
          /\ job[k].changes[x] \in {"none", "refresh"} => pois[x].status # "absent"
      BY <2>2 DEF ListedAgrees
    <2> QED
      BY <2>1, <2>3, CommittedRow DEF PoiRow
  <1> QED
    BY <1>1, InitIInv, NextIInv, PTL DEF Spec, ListedStaysActive

=============================================================================
