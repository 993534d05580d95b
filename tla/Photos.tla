-------------------------------- MODULE Photos --------------------------------
(***************************************************************************)
(* The photo of a new POI, from the presigned upload to the blurred object *)
(* (routers/uploads.py, routers/pois.py, services/photo_service.py,        *)
(* jobs/photo_cleanup.py, jobs/photo_blur_task.py).                        *)
(*                                                                         *)
(* An upload is a row of photo_uploads and two keys of the R2 bucket: the  *)
(* browser PUTs bytes at tmp/, a submission that names the upload moves    *)
(* them to photos/, a background task of the submission blurs them there,  *)
(* and an hourly job deletes what nobody claimed.  Calls to R2 are         *)
(* synchronous, so nothing else of the process runs between them; they and *)
(* the database may still fail, and the process may end, between any two.  *)
(* The browser is another process: its URL can be used again until it      *)
(* expires, and a PUT may land between two calls of the process, after the *)
(* claim, or long after the URL has expired.                               *)
(***************************************************************************)
EXTENDS Integers

CONSTANTS
  Users,        \* users that upload and submit
  Uploads,      \* ids of the photo_uploads table
  Pois,         \* ids of POIs submitted with a photo
  Requests,     \* submissions that may be open at the same time
  Nobody,       \* NULL in a column
  TTL,          \* photo_upload_ttl_seconds, in ticks of the clock
  MaxNow,       \* bound: the clock stops here
  MaxFailures   \* bound: failed calls, lost sessions and ends of the process

ASSUME PhotosAssumption ==
  /\ Nobody \notin Users \cup Uploads \cup Pois
  /\ TTL \in Nat /\ MaxNow \in Nat /\ MaxFailures \in Nat

VARIABLES
  uploads,    \* photo_uploads table
  pois,       \* pois table: owner, photo_url and photo_processed_at
  bytes,      \* the bucket: what is stored at tmp/ and at photos/ for each upload
  strays,     \* history: uploads at which a PUT landed too late (see Put)
  txn,        \* the session of each submission
  job,        \* the session of the cleanup job
  blur,       \* the background task of each POI
  now,        \* the clock
  failures    \* failures so far

vars == << uploads, pois, bytes, strays, txn, job, blur, now, failures >>

UploadRow ==
  [ status            : {"absent", "pending", "claimed", "deleted"},
    user              : Users \cup {Nobody},
    claimed_by_poi_id : Pois \cup {Nobody},
    expires_at        : Nat ]

NoUpload ==
  [status |-> "absent", user |-> Nobody, claimed_by_poi_id |-> Nobody, expires_at |-> 0]

PoiRow ==
  [ submitter : Users \cup {Nobody},         \* Nobody: not submitted yet
    photo     : Uploads \cup {Nobody},       \* the upload that photo_url points to
    processed : BOOLEAN ]

NoPoi == [submitter |-> Nobody, photo |-> Nobody, processed |-> FALSE]

Session ==
  [ pc     : {"idle", "claim", "flush", "commit"},
    actor  : Users \cup {Nobody},
    upload : Uploads \cup {Nobody},
    poi    : Pois \cup {Nobody} ]

Closed == [pc |-> "idle", actor |-> Nobody, upload |-> Nobody, poi |-> Nobody]

JobIdle == [pc |-> "idle", due |-> {}]

Init ==
  /\ uploads = [u \in Uploads |-> NoUpload]
  /\ pois = [p \in Pois |-> NoPoi]
  /\ bytes = [u \in Uploads |-> [tmp |-> "none", photos |-> "none"]]
  /\ strays = {}
  /\ txn = [r \in Requests |-> Closed]
  /\ job = JobIdle
  /\ blur = [p \in Pois |-> "none"]
  /\ now = 0
  /\ failures = 0

\* Something goes wrong, within the bound.
Fail == failures < MaxFailures /\ failures' = failures + 1

-----------------------------------------------------------------------------
(* The browser                                                             *)

\* POST /uploads/photo-presign: a pending row, and a URL that lives as long.
Presign(u, a) ==
  /\ now + TTL < MaxNow            \* bound: the upload can still expire
  /\ uploads[u].status = "absent"
  /\ uploads' = [uploads EXCEPT ![u] = [NoUpload EXCEPT !.status = "pending", !.user = a,
                                                        !.expires_at = now + TTL]]
  /\ UNCHANGED << pois, bytes, strays, txn, job, blur, now, failures >>

\* What may be PUT: bytes that pass the sniff, or something else.
Contents == {"image", "other"}

(***************************************************************************)
(* uploadPhotoBytes: a PUT lands at tmp/.  Its URL is checked when it      *)
(* begins and can be used any number of times until then, so that nothing  *)
(* bounds how many land, or when.  It is a stray if it comes after a       *)
(* submission has copied the bytes, or after the upload has expired.       *)
(***************************************************************************)
Put(u, content) ==
  /\ uploads[u].status # "absent"
  /\ bytes' = [bytes EXCEPT ![u].tmp = content]
  /\ strays' = IF bytes[u].photos # "none" \/ uploads[u].expires_at < now
               THEN strays \cup {u} ELSE strays
  /\ UNCHANGED << uploads, pois, txn, job, blur, now, failures >>

-----------------------------------------------------------------------------
(* POST /pois with a photo_upload_id                                       *)

Claimable(u, a) ==
  /\ uploads[u].user = a
  /\ uploads[u].status = "pending"
  /\ ~(uploads[u].expires_at < now)

\* The row is found claimable (400 otherwise) and the POI is inserted.
SubmitRead(r, a, u, p) ==
  /\ txn[r] = Closed
  /\ pois[p] = NoPoi /\ \A q \in Requests : txn[q].poi # p         \* a fresh uuid
  /\ Claimable(u, a)
  /\ txn' = [txn EXCEPT ![r] = [pc |-> "claim", actor |-> a, upload |-> u, poi |-> p]]
  /\ UNCHANGED << uploads, pois, bytes, strays, job, blur, now, failures >>

\* HEAD or the magic bytes reject the object: 400.
ClaimReject(r) ==
  /\ txn[r].pc = "claim"
  /\ bytes[txn[r].upload].tmp # "image"
  /\ txn' = [txn EXCEPT ![r] = Closed]
  /\ UNCHANGED << uploads, pois, bytes, strays, job, blur, now, failures >>

\* The sniffed bytes of u are copied to photos/ and deleted at tmp/, or not.  A
\* PUT that lands between the sniff and the copy is what is copied.
CopyObject(u, deleted) ==
  /\ bytes[u].tmp = "image"
  /\ \E content \in Contents :
       /\ bytes' = [bytes EXCEPT ![u] = [tmp |-> IF deleted THEN "none" ELSE content,
                                         photos |-> content]]
       /\ strays' = IF content = "image" THEN strays ELSE strays \cup {u}

\* Mutant: the object is copied, not moved.
ClaimCopy(r) ==
  /\ txn[r].pc = "claim"
  /\ CopyObject(txn[r].upload, FALSE)
  /\ txn' = [txn EXCEPT ![r].pc = "flush"]
  /\ UNCHANGED << uploads, pois, job, blur, now, failures >>

\* HEAD, sniff, copy to photos/, delete at tmp/.
ClaimMove(r) ==
  /\ txn[r].pc = "claim"
  /\ CopyObject(txn[r].upload, TRUE)
  /\ txn' = [txn EXCEPT ![r].pc = "flush"]
  /\ UNCHANGED << uploads, pois, job, blur, now, failures >>

\* The DELETE fails after the copy: 502, the session is rolled back.
ClaimHalf(r) ==
  /\ txn[r].pc = "claim"
  /\ Fail
  /\ CopyObject(txn[r].upload, FALSE)
  /\ txn' = [txn EXCEPT ![r] = Closed]
  /\ UNCHANGED << uploads, pois, job, blur, now >>

RowLocked(r) ==
  \/ \E q \in Requests \ {r} : txn[q].upload = txn[r].upload /\ txn[q].pc = "commit"
  \/ job.pc = "commit" /\ txn[r].upload \in job.due

\* mark_claimed flushes its UPDATE and so locks the row of the upload.
MarkClaimed(r) ==
  /\ txn[r].pc = "flush"
  /\ ~RowLocked(r)
  /\ txn' = [txn EXCEPT ![r].pc = "commit"]
  /\ UNCHANGED << uploads, pois, bytes, strays, job, blur, now, failures >>

CommitRows(r) ==
  LET t == txn[r] IN
  /\ t.pc = "commit"
  /\ uploads' = [uploads EXCEPT ![t.upload].status = "claimed",
                                ![t.upload].claimed_by_poi_id = t.poi]
  /\ pois' = [pois EXCEPT ![t.poi] = [submitter |-> t.actor, photo |-> t.upload,
                                      processed |-> FALSE]]
  /\ txn' = [txn EXCEPT ![r] = Closed]

\* Mutant: nobody schedules the task.
CommitUnscheduled(r) ==
  /\ CommitRows(r)
  /\ UNCHANGED << blur, bytes, strays, job, now, failures >>

\* The POI is committed and its blur task scheduled ...
CommitScheduled(r) ==
  /\ CommitRows(r)
  /\ blur' = [blur EXCEPT ![txn[r].poi] = "queued"]
  /\ UNCHANGED << bytes, strays, job, now, failures >>

\* ... unless the request fails after the commit: the task is never run.
CommitUnanswered(r) ==
  /\ CommitRows(r)
  /\ Fail
  /\ blur' = [blur EXCEPT ![txn[r].poi] = "lost"]
  /\ UNCHANGED << bytes, strays, job, now >>

\* A failed R2 call or statement, or a lost connection.
Abort(r) ==
  /\ txn[r] # Closed
  /\ Fail
  /\ txn' = [txn EXCEPT ![r] = Closed]
  /\ UNCHANGED << uploads, pois, bytes, strays, job, blur, now >>

-----------------------------------------------------------------------------
(* jobs/photo_blur_task.py                                                 *)

\* Mutant: a failed PUT is logged and the task goes on.
BlurPutAnyway(p) ==
  /\ blur[p] = "queued" /\ ~pois[p].processed
  /\ bytes[pois[p].photo].photos # "other"
  /\ blur' = [blur EXCEPT ![p] = "put"]
  /\ \/ bytes' = [bytes EXCEPT ![pois[p].photo].photos = "processed"] /\ UNCHANGED failures
     \/ Fail /\ UNCHANGED bytes
  /\ UNCHANGED << uploads, pois, strays, txn, job, now >>

\* GET the object, process_photo_bytes, PUT the result back at the same key.
BlurPut(p) ==
  /\ blur[p] = "queued" /\ ~pois[p].processed
  /\ bytes[pois[p].photo].photos # "other"
  /\ blur' = [blur EXCEPT ![p] = "put"]
  /\ bytes' = [bytes EXCEPT ![pois[p].photo].photos = "processed"]
  /\ UNCHANGED << uploads, pois, strays, txn, job, now, failures >>

BlurCommit(p) ==
  /\ blur[p] = "put"
  /\ pois' = [pois EXCEPT ![p].processed = TRUE]
  /\ blur' = [blur EXCEPT ![p] = "done"]
  /\ UNCHANGED << uploads, bytes, strays, txn, job, now, failures >>

\* What is no image cannot be processed: the task ends.
BlurUnreadable(p) ==
  /\ blur[p] = "queued" /\ bytes[pois[p].photo].photos = "other"
  /\ blur' = [blur EXCEPT ![p] = "lost"]
  /\ UNCHANGED << uploads, pois, bytes, strays, txn, job, now, failures >>

\* A failed call ends the task for good.
BlurFail(p) ==
  /\ blur[p] \in {"queued", "put"}
  /\ Fail
  /\ blur' = [blur EXCEPT ![p] = "lost"]
  /\ UNCHANGED << uploads, pois, bytes, strays, txn, job, now >>

-----------------------------------------------------------------------------
(* jobs/photo_cleanup.py                                                   *)

\* Mutant: only what expires at this tick of the clock.
ExpiringNow == {u \in Uploads : uploads[u].status = "pending" /\ uploads[u].expires_at = now}

Expired == {u \in Uploads : uploads[u].status = "pending" /\ uploads[u].expires_at < now}

CleanupSelect ==
  /\ job = JobIdle /\ Expired # {}
  /\ job' = [pc |-> "delete", due |-> Expired]
  /\ UNCHANGED << uploads, pois, bytes, strays, txn, blur, now, failures >>

\* Mutant: the row is marked although the DELETE failed.
CleanupBytesMarksAll(failed) ==
  /\ job.pc = "delete"
  /\ failed \subseteq job.due
  /\ IF failed = {} THEN UNCHANGED failures ELSE Fail
  /\ bytes' = [u \in Uploads |-> IF u \in job.due \ failed
                                 THEN [bytes[u] EXCEPT !.tmp = "none"] ELSE bytes[u]]
  /\ job' = [job EXCEPT !.pc = "update"]
  /\ UNCHANGED << uploads, pois, strays, txn, blur, now >>

\* Delete at tmp/ what was selected; a row whose DELETE fails is left out.
CleanupBytes(failed) ==
  /\ job.pc = "delete"
  /\ failed \subseteq job.due
  /\ IF failed = {} THEN UNCHANGED failures ELSE Fail
  /\ bytes' = [u \in Uploads |-> IF u \in job.due \ failed
                                 THEN [bytes[u] EXCEPT !.tmp = "none"] ELSE bytes[u]]
  /\ job' = [pc |-> "update", due |-> job.due \ failed]
  /\ UNCHANGED << uploads, pois, strays, txn, blur, now >>

\* UPDATE ... WHERE id IN (due): waits for a claim of one of them to commit.
CleanupUpdate ==
  /\ job.pc = "update"
  /\ \A r \in Requests : ~(txn[r].pc = "commit" /\ txn[r].upload \in job.due)
  /\ job' = [job EXCEPT !.pc = "commit"]
  /\ UNCHANGED << uploads, pois, bytes, strays, txn, blur, now, failures >>

\* The UPDATE names no status: it applies to whatever the row has become.
CleanupCommit ==
  /\ job.pc = "commit"
  /\ uploads' = [u \in Uploads |-> IF u \in job.due
                                   THEN [uploads[u] EXCEPT !.status = "deleted"] ELSE uploads[u]]
  /\ job' = JobIdle
  /\ UNCHANGED << pois, bytes, strays, txn, blur, now, failures >>

\* The tick logs the exception; the next one starts afresh.
CleanupFail ==
  /\ job # JobIdle
  /\ Fail
  /\ job' = JobIdle
  /\ UNCHANGED << uploads, pois, bytes, strays, txn, blur, now >>

-----------------------------------------------------------------------------

\* The process ends and is started again: open sessions and tasks are gone.
Crash ==
  /\ Fail
  /\ txn' = [r \in Requests |-> Closed]
  /\ job' = JobIdle
  /\ blur' = [p \in Pois |-> IF blur[p] \in {"queued", "put"} THEN "lost" ELSE blur[p]]
  /\ UNCHANGED << uploads, pois, bytes, strays, now >>

Tick ==
  /\ now < MaxNow
  /\ now' = now + 1
  /\ UNCHANGED << uploads, pois, bytes, strays, txn, job, blur, failures >>

Submit(r) ==
  \E a \in Users, u \in Uploads, p \in Pois : SubmitRead(r, a, u, p)

Step(r) ==
  \/ ClaimReject(r)
  \/ ClaimMove(r)
  \/ MarkClaimed(r)
  \/ CommitScheduled(r)

StepFails(r) == ClaimHalf(r) \/ CommitUnanswered(r) \/ Abort(r)

Blur(p) == BlurPut(p) \/ BlurCommit(p) \/ BlurUnreadable(p)

Cleanup ==
  \/ CleanupSelect
  \/ \E failed \in SUBSET Uploads : CleanupBytes(failed)
  \/ CleanupUpdate
  \/ CleanupCommit

Next ==
  \/ \E u \in Uploads : \/ \E a \in Users : Presign(u, a)
                        \/ \E content \in Contents : Put(u, content)
  \/ \E r \in Requests : Submit(r) \/ Step(r) \/ StepFails(r)
  \/ \E p \in Pois : Blur(p) \/ BlurFail(p)
  \/ Cleanup \/ CleanupFail
  \/ Crash
  \/ Tick

(***************************************************************************)
(* The event loop goes on with what it has begun, the scheduler fires      *)
(* every hour where importer_scheduler_enabled is set, and time passes.    *)
(* Nobody has to upload, submit or crash.                                  *)
(***************************************************************************)
Fairness ==
  /\ \A r \in Requests : SF_vars(Step(r))
  /\ \A p \in Pois : WF_vars(Blur(p))
  /\ SF_vars(Cleanup)
  /\ WF_vars(Tick)

Spec == Init /\ [][Next]_vars /\ Fairness

-----------------------------------------------------------------------------
(* Properties                                                              *)

\* The photo of a POI is there and was uploaded by its submitter, also when the cleanup
\* job had selected the upload before the claim and marks it deleted after it.  Although
\* two submissions may have found the upload claimable, it belongs to no other POI and
\* its bytes passed the sniff, unless a PUT strayed.
PhotoBelongsToPoi ==
  \A p \in Pois : LET u == pois[p].photo IN
    u # Nobody =>
      /\ bytes[u].photos # "none"
      /\ uploads[u].user = pois[p].submitter
      /\ u \notin strays => /\ bytes[u].photos # "other"
                            /\ uploads[u].claimed_by_poi_id = p

\* photo_processed_at is a promise about the bucket: the object is the output of
\* process_photo_bytes, and no later claim, cleanup or crash puts the original
\* back, unless a PUT strayed and was claimed again.
MarkedMeansProcessed ==
  \A p \in Pois :
    pois[p].processed /\ pois[p].photo \notin strays => bytes[pois[p].photo].photos = "processed"

\* Nothing is where neither a row nor the job looks for it: at tmp/ once the upload is
\* claimed or marked only if a PUT strayed, and at photos/ without a POI only after a
\* failure.
OrphansNeedFailure ==
  \A u \in Uploads :
    /\ uploads[u].status \in {"claimed", "deleted"} /\ bytes[u].tmp # "none" => u \in strays
    /\ failures = 0 /\ bytes[u].photos # "none" =>
         \/ \E p \in Pois : pois[p].photo = u
         \/ \E r \in Requests : txn[r].upload = u /\ txn[r].pc \in {"flush", "commit"}

\* Every upload is claimed or cleaned up, however often the job fails first.
EveryUploadEnds ==
  \A u \in Uploads :
    (uploads[u].status = "pending") ~> (uploads[u].status \in {"claimed", "deleted"})

\* Every photo is processed unless something fails or a PUT strayed: nothing
\* retries the task.
EveryPhotoProcessed ==
  \A p \in Pois :
    (pois[p].photo # Nobody) ~>
      (pois[p].processed \/ failures > 0 \/ pois[p].photo \in strays)

=============================================================================
