------------------------------- MODULE Importer -------------------------------
(***************************************************************************)
(* The import of public data (importers/base.py and the two importers that *)
(* override its run) into the POIs of one source: fetch the listing,       *)
(* upsert what can be normalised row by row, soft-delete what has not been *)
(* verified for two cycles, commit.                                        *)
(*                                                                         *)
(* A run is one transaction under READ COMMITTED.  The scheduler starts it *)
(* every month, admin_run_importer at any time, so two runs of one source  *)
(* may overlap; users confirm and admins delete POIs meanwhile.  Dates are *)
(* ticks of a clock that stands still while a run is open: a run takes     *)
(* minutes, a cycle a month.                                               *)
(***************************************************************************)
EXTENDS Integers

CONSTANTS
  Ids,          \* external ids of the source
  Runners,      \* runs that may be open at the same time
  Nothing,      \* no id
  Ages,         \* ages of the as-of dates each row may have; 0: today, or no date given
  Grace,        \* 2 * cycle_days, in ticks
  MaxNow,       \* bound: the clock stops here
  MaxFailures   \* bound: runs that a failed statement or a crash ends

ASSUME ImporterAssumption ==
  /\ Nothing \notin Ids
  /\ Ages \in [Ids -> SUBSET Nat] /\ \A x \in Ids : 0 \in Ages[x]
  /\ Grace \in Nat /\ MaxNow \in Nat /\ MaxFailures \in Nat

VARIABLES
  pois,       \* the rows of this source in the pois table
  source,     \* what the source lists at the moment
  job,        \* the session of each run
  seen,       \* history: the date that the last committed run to write it gave each POI
  now,        \* the clock
  started,    \* bound: the runs started in this tick, each once
  failures    \* runs that failed so far

vars == << pois, source, job, seen, now, started, failures >>

PoiRow == [status : {"absent", "active", "removed"}, last_verified_at : Int]

NoRow == [status |-> "absent", last_verified_at |-> 0]

Session ==
  [ pc       : {"idle", "upsert", "insert", "flush", "commit"},
    listing  : SUBSET Ids,          \* the rows that could be normalised
    todo     : SUBSET Ids,          \* those not upserted yet
    current  : Ids \cup {Nothing},  \* the row being upserted
    as_of    : [Ids -> Int],        \* last_verified_at or now, for each item
    changes  : [Ids -> {"none", "create", "refresh", "revive"}],
    stale    : SUBSET Ids,          \* what the soft-delete matched
    locks    : SUBSET Ids ]         \* rows written and so locked

Closed ==
  [ pc |-> "idle", listing |-> {}, todo |-> {}, current |-> Nothing,
    as_of |-> [x \in Ids |-> 0], changes |-> [x \in Ids |-> "none"],
    stale |-> {}, locks |-> {} ]

Init ==
  /\ pois = [x \in Ids |-> NoRow]
  /\ source \in SUBSET Ids
  /\ job = [k \in Runners |-> Closed]
  /\ seen = [x \in Ids |-> 0]
  /\ now = 0
  /\ started = {}
  /\ failures = 0

Become(k, session) ==
  job' = [job EXCEPT ![k] = session] /\ UNCHANGED << pois, source, seen, now, started, failures >>

-----------------------------------------------------------------------------
(* What a run sees and waits for                                           *)

\* Mutant: a row without changes keeps its date.
RefreshedUnlessUnchanged(row, change, as_of) ==
  CASE change = "none"    -> row
    [] change = "create"  -> [status |-> "active", last_verified_at |-> as_of]
    [] change = "refresh" -> row
    [] change = "revive"  -> [status |-> "active", last_verified_at |-> as_of]

\* _upsert_one: the row after the change.  The UPDATE of a row that was active
\* when it was read does not write its status.
Upserted(row, change, as_of) ==
  CASE change = "none"    -> row
    [] change = "create"  -> [status |-> "active", last_verified_at |-> as_of]
    [] change = "refresh" -> [row EXCEPT !.last_verified_at = as_of]
    [] change = "revive"  -> [status |-> "active", last_verified_at |-> as_of]

\* The table as the session of run k sees it: committed rows and its own.
Visible(k) ==
  [x \in Ids |-> Upserted(pois[x], job[k].changes[x], job[k].as_of[x])]

\* Mutant: the refreshed dates are not flushed before the soft-delete.
StaleUnflushed(k) ==
  {x \in Ids : pois[x].status = "active" /\ pois[x].last_verified_at < now - Grace}

\* Mutant: only what became stale in this tick, so that a missed run is never made up for.
StaleJustNow(k) ==
  {x \in Ids : Visible(k)[x].status = "active" /\ Visible(k)[x].last_verified_at = now - Grace - 1}

\* _soft_delete_stale: active rows last verified before the cutoff.
Stale(k) ==
  {x \in Ids : Visible(k)[x].status = "active" /\ Visible(k)[x].last_verified_at < now - Grace}

Sweeping(k) == job[k].pc = "upsert" /\ job[k].todo = {}

\* The rows the next statement of run k writes.
Wanted(k) ==
  CASE job[k].pc \in {"insert", "flush"} -> {job[k].current}
    [] Sweeping(k)                       -> Stale(k)
    [] OTHER                             -> {}

\* Run k waits for a row that run j has written and not committed.
WaitsFor(k, j) == j # k /\ Wanted(k) \cap job[j].locks # {}

Blocked(k) == \E j \in Runners : WaitsFor(k, j)

\* No run has written row x: confirmations and deletions need not wait.
Free(x) == \A k \in Runners : x \notin job[k].locks

-----------------------------------------------------------------------------
(* The run                                                                 *)

\* fetch_raw and normalize: the source lists the rows, some cannot be used.
Start(k) ==
  /\ job[k] = Closed /\ k \notin started
  /\ started' = started \cup {k}
  /\ \E listing \in SUBSET source, age \in [Ids -> UNION {Ages[x] : x \in Ids}] :
       /\ \A x \in Ids : age[x] \in IF x \in listing THEN Ages[x] ELSE {0}
       /\ job' = [job EXCEPT ![k] =
            [Closed EXCEPT !.pc = "upsert", !.listing = listing, !.todo = listing,
                           !.as_of = [x \in Ids |-> IF x \in listing THEN now - age[x] ELSE 0]]]
  /\ UNCHANGED << pois, source, seen, now, failures >>

\* The row is as the listing has it, as-of date included: nothing to write.
UpToDate(k, x) ==
  /\ pois[x].status = "active"
  /\ job[k].as_of[x] < now /\ pois[x].last_verified_at = job[k].as_of[x]

\* _upsert_one: select the row by (source, external_id).
UpsertSelect(k, x) ==
  /\ job[k].pc = "upsert" /\ x \in job[k].todo
  /\ LET t == [job[k] EXCEPT !.todo = @ \ {x}] IN
       \/ /\ UpToDate(k, x)
          /\ Become(k, t)
       \/ /\ pois[x].status = "absent"
          /\ Become(k, [t EXCEPT !.pc = "insert", !.current = x])
       \/ /\ pois[x].status # "absent" /\ ~UpToDate(k, x)
          /\ Become(k, [t EXCEPT !.pc = "flush", !.current = x,
                                  !.changes[x] = IF pois[x].status = "active"
                                                 THEN "refresh" ELSE "revive"])

\* The INSERT; a row that another run has committed meanwhile violates the
\* unique index, which aborts the transaction: every later statement fails.
Insert(k) ==
  /\ job[k].pc = "insert"
  /\ ~Blocked(k)
  /\ LET x == job[k].current IN
       IF pois[x].status = "absent"
       THEN Become(k, [job[k] EXCEPT !.pc = "upsert", !.current = Nothing,
                                     !.changes[x] = "create", !.locks = @ \cup {x}])
       ELSE Become(k, Closed)

\* The UPDATE that the next statement flushes.
Flush(k) ==
  /\ job[k].pc = "flush"
  /\ ~Blocked(k)
  /\ Become(k, [job[k] EXCEPT !.pc = "upsert", !.current = Nothing,
                              !.locks = @ \cup {job[k].current}])

\* The soft-delete, once every row of the listing is done.
Sweep(k) ==
  /\ Sweeping(k)
  /\ ~Blocked(k)
  /\ Become(k, [job[k] EXCEPT !.pc = "commit", !.stale = Stale(k), !.locks = @ \cup Stale(k)])

Swept(row) == [row EXCEPT !.status = "removed"]

Commit(k) ==
  /\ job[k].pc = "commit"
  /\ pois' = [x \in Ids |-> IF x \in job[k].stale THEN Swept(Visible(k)[x]) ELSE Visible(k)[x]]
  /\ seen' = [x \in Ids |-> IF job[k].changes[x] # "none" THEN job[k].as_of[x] ELSE seen[x]]
  /\ job' = [job EXCEPT ![k] = Closed]
  /\ UNCHANGED << source, now, started, failures >>

\* Two runs that wait for each other: PostgreSQL ends one of them.
DeadlockVictim(k) ==
  /\ \E j \in Runners : WaitsFor(k, j) /\ WaitsFor(j, k)
  /\ Become(k, Closed)

\* A statement fails or the process ends: nothing of the run is kept.
RunFails(k) ==
  /\ job[k] # Closed
  /\ failures < MaxFailures /\ now < MaxNow
  /\ failures' = failures + 1
  /\ job' = [job EXCEPT ![k] = Closed]
  /\ UNCHANGED << pois, source, seen, now, started >>

-----------------------------------------------------------------------------
(* The others                                                              *)

\* confirm_poi refreshes last_verified_at of an active POI.
Confirm(x) ==
  /\ now + Grace < MaxNow            \* bound: the POI can still become stale
  /\ pois[x].status = "active" /\ Free(x)
  /\ pois' = [pois EXCEPT ![x].last_verified_at = now]
  /\ UNCHANGED << source, job, seen, now, started, failures >>

\* soft_delete_poi by an admin or after three proposals.
Delete(x) ==
  /\ now < MaxNow                    \* bound: a run can still bring it back
  /\ pois[x].status # "absent" /\ Free(x)
  /\ pois' = [pois EXCEPT ![x].status = "removed"]
  /\ UNCHANGED << source, job, seen, now, started, failures >>

\* The publisher adds or drops a row.
SourceChanges(x) ==
  /\ now + Grace < MaxNow            \* bound: what was dropped can still become stale
  /\ source' = IF x \in source THEN source \ {x} ELSE source \cup {x}
  /\ UNCHANGED << pois, job, seen, now, started, failures >>

Tick ==
  /\ now < MaxNow
  /\ \A k \in Runners : job[k] = Closed
  /\ now' = now + 1
  /\ started' = {}
  /\ UNCHANGED << pois, source, job, seen, failures >>

\* Bound: at the end of time nothing has to happen, but every run is over.
End ==
  /\ now = MaxNow /\ started = Runners
  /\ \A k \in Runners : job[k] = Closed
  /\ UNCHANGED vars

-----------------------------------------------------------------------------

Step(k) ==
  \/ \E x \in Ids : UpsertSelect(k, x)
  \/ Insert(k)
  \/ Flush(k)
  \/ Sweep(k)
  \/ Commit(k)

Next ==
  \/ \E k \in Runners : Start(k) \/ Step(k) \/ DeadlockVictim(k) \/ RunFails(k)
  \/ \E x \in Ids : Confirm(x) \/ Delete(x) \/ SourceChanges(x)
  \/ Tick \/ End

(***************************************************************************)
(* Every run is started some day (where the scheduler is enabled, or       *)
(* somebody keeps running the importers by hand), its statements are       *)
(* served, a deadlock is broken, and time passes whenever no run is open.  *)
(* Nothing says that a run starts in every tick.                           *)
(***************************************************************************)
Fairness ==
  /\ \A k \in Runners : WF_vars(Start(k)) /\ WF_vars(Step(k)) /\ WF_vars(DeadlockVictim(k))
  /\ WF_vars(Tick)

Spec == Init /\ [][Next]_vars /\ Fairness

-----------------------------------------------------------------------------
(* Properties                                                              *)

\* A run does not remove a POI that it has just found in the listing: the date
\* of a re-import proves that it is still there (base.py:137).
ListedStaysActive ==
  [][\A k \in Runners, x \in Ids :
       Commit(k) /\ x \in job[k].listing /\ pois[x].status # "removed"
         => pois'[x].status = "active"]_vars

\* A run removes a POI only when the last listing that a run, this one included,
\* has written to it dates it more than two cycles back, however runs, confirmations,
\* deletions and failures interleave.  (A run that found nothing to write does not
\* count: another one may have put an older date there before it committed.)
GraceBeforeRemoval ==
  [][\A k \in Runners, x \in Ids :
       Commit(k) /\ pois[x].status = "active" /\ pois'[x].status = "removed"
         => now - seen'[x] > Grace]_vars

\* A POI that the source has dropped for good does not stay on the map, although
\* runs fail, exclude each other and users go on confirming it for a while.
DroppedIsRemoved ==
  \A x \in Ids : <>[](x \notin source) => <>[](pois[x].status # "active")

=============================================================================
