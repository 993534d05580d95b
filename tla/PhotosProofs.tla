----------------------------- MODULE PhotosProofs -----------------------------
(***************************************************************************)
(* Proofs about Photos, for any users, uploads, POIs and submissions, any  *)
(* TTL, any number of failures and of PUTs: a photo belongs to its POI,    *)
(* what is marked as processed is so, and only failures leave orphans.     *)
(*                                                                         *)
(* No row is locked between finding an upload claimable and claiming it.   *)
(* What keeps two submissions apart is the bucket: the first one to claim  *)
(* empties tmp/, so that no other finds anything there unless a PUT        *)
(* strayed.  IInv says so.                                                 *)
(***************************************************************************)
EXTENDS Photos, TLAPS

-----------------------------------------------------------------------------
(* The inductive invariant                                                 *)

TypeOK ==
  /\ uploads \in [Uploads -> UploadRow]
  /\ pois \in [Pois -> PoiRow]
  /\ bytes \in [Uploads -> [tmp : {"none", "image", "other"},
                            photos : {"none", "image", "other", "processed"}]]
  /\ strays \subseteq Uploads
  /\ txn \in [Requests -> Session]
  /\ job \in [pc : {"idle", "delete", "update", "commit"}, due : SUBSET Uploads]
  /\ blur \in [Pois -> {"none", "queued", "put", "done", "lost"}]
  /\ now \in Nat /\ failures \in Nat

\* A submission that has moved the bytes of its upload.
Moved(t) == t.pc \in {"flush", "commit"}

\* An open submission works for whoever made the upload, on a new POI.
SessionAgrees(t) ==
  \/ t = Closed
  \/ /\ t.pc # "idle" /\ t.actor \in Users /\ t.upload \in Uploads /\ t.poi \in Pois
     /\ pois[t.poi] = NoPoi
     /\ uploads[t.upload].status # "absent"
     /\ uploads[t.upload].user = t.actor
     /\ Moved(t) =>
          /\ bytes[t.upload].photos # "none"
          /\ t.upload \notin strays => /\ bytes[t.upload].tmp = "none"
                                      /\ bytes[t.upload].photos = "image"

\* No two submissions share a POI, or, unless a PUT strayed, have moved the same
\* bytes; nor has one moved the bytes of a POI that is committed.
SessionsApart ==
  /\ \A q, r \in Requests :
       /\ txn[q].poi = txn[r].poi /\ txn[r].poi # Nobody => q = r
       /\ Moved(txn[q]) /\ Moved(txn[r]) /\ txn[q].upload = txn[r].upload
            /\ txn[r].upload \notin strays => q = r
  /\ \A r \in Requests, p \in Pois :
       Moved(txn[r]) /\ txn[r].upload \notin strays => pois[p].photo # txn[r].upload

\* A committed POI has its photo, to itself and with nothing left at tmp/ unless a
\* PUT strayed.
PoiAgrees(p) ==
  \/ pois[p] = NoPoi
  \/ /\ pois[p].photo \in Uploads
     /\ bytes[pois[p].photo].photos # "none"
     /\ uploads[pois[p].photo].status # "absent"
     /\ uploads[pois[p].photo].user = pois[p].submitter
     /\ pois[p].photo \notin strays =>
          /\ bytes[pois[p].photo].tmp = "none"
          /\ bytes[pois[p].photo].photos \in {"image", "processed"}
          /\ uploads[pois[p].photo].claimed_by_poi_id = p

\* The task has a photo, and has processed what it has put back.
BlurAgrees(p) ==
  /\ blur[p] \in {"queued", "put"} => pois[p] # NoPoi
  /\ (blur[p] = "put" \/ pois[p].processed) /\ pois[p].photo \notin strays =>
       bytes[pois[p].photo].photos = "processed"

\* What the job selected has expired, and what a claim or the job has marked is gone
\* from tmp/ unless a PUT strayed.
UploadAgrees(u) ==
  /\ u \in job.due \/ uploads[u].status = "deleted" =>
       uploads[u].status # "absent" /\ uploads[u].expires_at < now
  /\ (u \in job.due /\ job.pc # "delete") \/ uploads[u].status = "deleted" =>
       u \in strays \/ bytes[u].tmp = "none"
  /\ uploads[u].status = "claimed" =>
       bytes[u].photos # "none" /\ (u \in strays \/ bytes[u].tmp = "none")

IInv ==
  /\ TypeOK
  /\ \A r \in Requests : SessionAgrees(txn[r])
  /\ SessionsApart
  /\ \A p \in Pois : PoiAgrees(p) /\ BlurAgrees(p)
  /\ \A u \in Uploads : UploadAgrees(u)
  /\ OrphansNeedFailure

-----------------------------------------------------------------------------

\* Most of it is about the tables, the bucket and the submissions only.
LEMMA TablesUnchanged ==
  ASSUME IInv, UNCHANGED << uploads, pois, bytes, strays, txn >>, failures' = 0 => failures = 0
  PROVE  /\ \A r \in Requests : SessionAgrees(txn[r])'
         /\ SessionsApart'
         /\ \A p \in Pois : PoiAgrees(p)'
         /\ OrphansNeedFailure'
  <1>1. ASSUME NEW r \in Requests PROVE SessionAgrees(txn[r])'
    <2>1. SessionAgrees(txn[r])
      BY DEF IInv
    <2> QED
      BY <2>1 DEF SessionAgrees, Moved, Closed, NoPoi
  <1>2. SessionsApart'
    BY DEF IInv, SessionsApart, Moved
  <1>3. ASSUME NEW p \in Pois PROVE PoiAgrees(p)'
    BY DEF IInv, PoiAgrees, NoPoi
  <1>4. OrphansNeedFailure'
    BY DEF IInv, OrphansNeedFailure
  <1> QED
    BY <1>1, <1>2, <1>3, <1>4

-----------------------------------------------------------------------------
(* The browser                                                             *)

\* No session and no upload is used before it is opened or presigned.
LEMMA Blank ==
  /\ Closed \in Session /\ Closed.pc = "idle" /\ ~Moved(Closed)
  /\ Closed.poi = Nobody /\ Closed.upload = Nobody
  /\ NoUpload \in UploadRow /\ NoPoi \in PoiRow /\ NoPoi.photo = Nobody /\ ~NoPoi.processed
  BY DEF Closed, Session, Moved, NoUpload, UploadRow, NoPoi, PoiRow

\* A presigned upload was used by nobody before.
LEMMA PresignStep ==
  ASSUME IInv, NEW u \in Uploads, NEW a \in Users, Presign(u, a)
  PROVE  IInv'
  <1> DEFINE row == [NoUpload EXCEPT !.status = "pending", !.user = a, !.expires_at = now + TTL]
  <1>1. /\ uploads' = [uploads EXCEPT ![u] = row] /\ uploads[u].status = "absent"
        /\ UNCHANGED << pois, bytes, strays, txn, job, blur, now, failures >>
    BY DEF Presign
  <1>2. now + TTL \in Nat
    BY PhotosAssumption DEF IInv, TypeOK
  <1>3. row \in UploadRow /\ row.status = "pending"
    BY <1>2 DEF NoUpload, UploadRow
  <1> HIDE DEF row
  <1>4. uploads'[u] = row /\ \A v \in Uploads \ {u} : uploads'[v] = uploads[v]
    BY <1>1 DEF IInv, TypeOK
  <1>5. TypeOK'
    BY <1>1, <1>3 DEF IInv, TypeOK
  <1>6. ASSUME NEW r \in Requests PROVE SessionAgrees(txn[r])'
    <2>1. SessionAgrees(txn[r])
      BY DEF IInv
    <2> QED
      BY <1>1, <1>4, <2>1 DEF SessionAgrees, Moved, Closed, NoPoi
  <1>7. SessionsApart'
    BY <1>1 DEF IInv, SessionsApart, Moved
  <1>8. ASSUME NEW p \in Pois PROVE (PoiAgrees(p) /\ BlurAgrees(p))'
    <2>1. PoiAgrees(p) /\ BlurAgrees(p)
      BY DEF IInv
    <2> QED
      BY <1>1, <1>4, <2>1 DEF PoiAgrees, BlurAgrees, NoPoi
  <1>9. ASSUME NEW v \in Uploads PROVE UploadAgrees(v)'
    BY <1>1, <1>3, <1>4 DEF IInv, UploadAgrees
  <1>10. OrphansNeedFailure'
    BY <1>1, <1>3, <1>4 DEF IInv, OrphansNeedFailure
  <1> QED
    BY <1>5, <1>6, <1>7, <1>8, <1>9, <1>10 DEF IInv

\* A PUT finds nothing that it could spoil, or strays.
LEMMA PutStep ==
  ASSUME IInv, NEW u \in Uploads, NEW content \in Contents, Put(u, content)
  PROVE  IInv'
  <1>0. TypeOK /\ UploadAgrees(u)
    BY DEF IInv
  <1>1. /\ uploads[u].status # "absent"
        /\ bytes' = [bytes EXCEPT ![u] = [bytes[u] EXCEPT !.tmp = content]]
        /\ UNCHANGED << uploads, pois, txn, job, blur, now, failures >>
    BY DEF Put
  <1>2. /\ strays' \in {strays, strays \cup {u}}
        /\ u \notin strays' => bytes[u].photos = "none" /\ ~(uploads[u].expires_at < now)
    BY DEF Put
  <1>3. /\ bytes'[u].photos = bytes[u].photos
        /\ \A v \in Uploads \ {u} : bytes'[v] = bytes[v]
    BY <1>0, <1>1 DEF TypeOK
  <1>5. TypeOK'
    BY <1>0, <1>1, <1>2 DEF TypeOK, Contents
  <1>6. ASSUME NEW r \in Requests PROVE SessionAgrees(txn[r])'
    <2>1. SessionAgrees(txn[r])
      BY DEF IInv
    <2> QED
      BY <1>1, <1>2, <1>3, <2>1 DEF SessionAgrees, Moved, Closed, NoPoi
  <1>7. SessionsApart'
    BY <1>1, <1>2 DEF IInv, SessionsApart, Moved
  <1>8. ASSUME NEW p \in Pois PROVE (PoiAgrees(p) /\ BlurAgrees(p))'
    <2>1. PoiAgrees(p) /\ BlurAgrees(p)
      BY DEF IInv
    <2> QED
      BY <1>1, <1>2, <1>3, <2>1, Blank DEF PoiAgrees, BlurAgrees, NoPoi
  <1>9. ASSUME NEW v \in Uploads PROVE UploadAgrees(v)'
    <2>1. UploadAgrees(v)
      BY DEF IInv
    <2> QED
      BY <1>0, <1>1, <1>2, <1>3, <2>1 DEF UploadAgrees
  <1>10. OrphansNeedFailure'
    BY <1>1, <1>3, <1>9 DEF IInv, OrphansNeedFailure, UploadAgrees
  <1> QED
    BY <1>5, <1>6, <1>7, <1>8, <1>9, <1>10 DEF IInv
-----------------------------------------------------------------------------
(* Submissions                                                             *)

\* A submission moves on to s, which agrees with the tables, or ends; when it
\* ends after the move, something has failed.
LEMMA SessionStep ==
  ASSUME IInv, NEW r \in Requests, NEW s \in Session, txn' = [txn EXCEPT ![r] = s],
         UNCHANGED << uploads, pois, bytes, strays, job, blur, now >>,
         failures' \in Nat, failures' = 0 => failures = 0,
         SessionAgrees(s),
         s.poi = Nobody \/ (\A q \in Requests \ {r} : txn[q].poi # s.poi),
         Moved(s) => Moved(txn[r]) /\ s.upload = txn[r].upload,
         Moved(txn[r]) /\ failures' = 0 => Moved(s) /\ s.upload = txn[r].upload
  PROVE  IInv'
  <1>0. TypeOK /\ txn \in [Requests -> Session]
    BY DEF IInv, TypeOK
  <1>1. txn'[r] = s /\ \A q \in Requests \ {r} : txn'[q] = txn[q]
    BY <1>0
  <1>2. TypeOK'
    BY <1>0 DEF TypeOK
  <1>3. ASSUME NEW q \in Requests PROVE SessionAgrees(txn[q])'
    <2>1. SessionAgrees(txn'[q])
      BY <1>1 DEF IInv
    <2> QED
      BY <2>1 DEF SessionAgrees, Moved, Closed, NoPoi
  <1>4. SessionsApart'
    BY <1>1 DEF IInv, SessionsApart, Moved
  <1>5. ASSUME NEW p \in Pois PROVE (PoiAgrees(p) /\ BlurAgrees(p))'
    BY DEF IInv, PoiAgrees, BlurAgrees, NoPoi
  <1>6. ASSUME NEW u \in Uploads PROVE UploadAgrees(u)'
    BY DEF IInv, UploadAgrees
  <1>7. OrphansNeedFailure'
    <2>1. \A q \in Requests : failures' = 0 /\ Moved(txn[q]) =>
            Moved(txn'[q]) /\ txn'[q].upload = txn[q].upload
      BY <1>1
    <2> QED
      BY <2>1 DEF IInv, OrphansNeedFailure, Moved
  <1> QED
    BY <1>2, <1>3, <1>4, <1>5, <1>6, <1>7 DEF IInv

\* The statements before the bytes move, and those that end a submission.
LEMMA StatementStep ==
  ASSUME IInv, NEW r \in Requests,
         Submit(r) \/ ClaimReject(r) \/ MarkClaimed(r) \/ Abort(r)
  PROVE  IInv'
  <1>0. /\ txn \in [Requests -> Session] /\ failures \in Nat
        /\ SessionAgrees(txn[r]) /\ SessionsApart
    BY DEF IInv, TypeOK
  <1>1. CASE Submit(r)
    <2>1. PICK a \in Users, u \in Uploads, p \in Pois : SubmitRead(r, a, u, p)
      BY <1>1 DEF Submit
    <2> DEFINE s == [pc |-> "claim", actor |-> a, upload |-> u, poi |-> p]
    <2>2. /\ s \in Session /\ s # Closed /\ s.pc = "claim" /\ s.actor = a
          /\ s.upload = u /\ s.poi = p
      BY PhotosAssumption DEF Session, Closed
    <2>3. /\ txn' = [txn EXCEPT ![r] = s] /\ txn[r] = Closed
          /\ pois[p] = NoPoi /\ \A q \in Requests : txn[q].poi # p
          /\ uploads[u].user = a /\ uploads[u].status = "pending"
          /\ UNCHANGED << uploads, pois, bytes, strays, job, blur, now, failures >>
      BY <2>1 DEF SubmitRead, Claimable
    <2> HIDE DEF s
    <2>4. SessionAgrees(s) /\ ~Moved(s)
      BY <2>2, <2>3 DEF SessionAgrees, Moved
    <2> QED
      BY <1>0, <2>2, <2>3, <2>4, Blank, SessionStep
  <1>2. CASE ClaimReject(r)
    <2>1. ~Moved(txn[r])
      BY <1>2 DEF ClaimReject, Moved
    <2> QED
      BY <1>0, <1>2, <2>1, Blank, SessionStep DEF ClaimReject, SessionAgrees
  <1>3. CASE MarkClaimed(r)
    <2> DEFINE s == [txn[r] EXCEPT !.pc = "commit"]
    <2>1. txn[r].pc = "flush"
      BY <1>3 DEF MarkClaimed
    <2>2. /\ s \in Session /\ s.pc = "commit" /\ s.actor = txn[r].actor
          /\ s.upload = txn[r].upload /\ s.poi = txn[r].poi
      BY <1>0 DEF Session
    <2>3. /\ txn' = [txn EXCEPT ![r] = s]
          /\ UNCHANGED << uploads, pois, bytes, strays, job, blur, now, failures >>
      BY <1>3 DEF MarkClaimed
    <2> HIDE DEF s
    <2>4. SessionAgrees(s) /\ Moved(s) /\ Moved(txn[r])
      BY <1>0, <2>1, <2>2, Blank DEF SessionAgrees, Moved
    <2>5. s.poi = Nobody \/ (\A q \in Requests \ {r} : txn[q].poi # s.poi)
      BY <1>0, <2>2 DEF SessionsApart
    <2> QED
      BY <1>0, <2>2, <2>3, <2>4, <2>5, SessionStep
  <1>4. CASE Abort(r)
    <2>1. failures' \in Nat /\ failures' # 0
      BY <1>0, <1>4 DEF Abort, Fail
    <2> QED
      BY <1>4, <2>1, Blank, SessionStep DEF Abort, SessionAgrees
  <1> QED
    BY <1>1, <1>2, <1>3, <1>4

\* While bytes are at tmp/ and no PUT strayed, nobody has claimed them: no POI shows
\* them and no other submission has moved them.
LEMMA TmpIsUnclaimed ==
  ASSUME IInv, NEW u \in Uploads, bytes[u].tmp # "none", u \notin strays
  PROVE  /\ \A q \in Requests : ~(Moved(txn[q]) /\ txn[q].upload = u)
         /\ \A p \in Pois : pois[p].photo # u
  <1>1. ASSUME NEW q \in Requests, Moved(txn[q]), txn[q].upload = u PROVE FALSE
    <2>1. SessionAgrees(txn[q])
      BY DEF IInv
    <2> QED
      BY <1>1, <2>1, Blank DEF SessionAgrees
  <1>2. ASSUME NEW p \in Pois, pois[p].photo = u PROVE FALSE
    <2>1. PoiAgrees(p)
      BY DEF IInv
    <2> QED
      BY <1>2, <2>1, Blank, PhotosAssumption DEF PoiAgrees
  <1> QED
    BY <1>1, <1>2

\* The bytes of an upload move, whole or only in copy, and the session with them.
LEMMA MoveStep ==
  ASSUME IInv, NEW r \in Requests, txn[r].pc = "claim",
         bytes[txn[r].upload].tmp = "image",
         NEW content \in Contents, NEW tmp \in {"none", content},
         NEW s \in {Closed, [txn[r] EXCEPT !.pc = "flush"]},
         bytes' = [bytes EXCEPT ![txn[r].upload] = [tmp |-> tmp, photos |-> content]],
         strays' \in {strays, strays \cup {txn[r].upload}},
         content # "image" => txn[r].upload \in strays',
         txn' = [txn EXCEPT ![r] = s],
         UNCHANGED << uploads, pois, job, blur, now >>, failures' \in Nat,
         failures' = 0 => failures = 0, s # Closed => tmp = "none",
         s = Closed => failures' # 0
  PROVE  IInv'
  <1> DEFINE t == txn[r]
             u == t.upload
  <1>0. TypeOK /\ t \in Session /\ SessionAgrees(t) /\ SessionsApart
    BY DEF IInv, TypeOK
  <1>1. /\ u \in Uploads /\ t.poi \in Pois /\ t.actor \in Users /\ pois[t.poi] = NoPoi
        /\ uploads[u].status # "absent" /\ uploads[u].user = t.actor
    BY <1>0, Blank DEF SessionAgrees
  <1>2. u \notin strays' => /\ \A q \in Requests : ~(Moved(txn[q]) /\ txn[q].upload = u)
                           /\ \A p \in Pois : pois[p].photo # u
    BY <1>1, TmpIsUnclaimed
  <1>3. /\ bytes'[u].tmp = tmp /\ bytes'[u].photos = content /\ content # "none"
        /\ u \notin strays' => content = "image"
        /\ \A v \in Uploads \ {u} : v \in strays' <=> v \in strays
        /\ \A v \in Uploads \ {u} : bytes'[v] = bytes[v]
        /\ txn'[r] = s /\ \A q \in Requests \ {r} : txn'[q] = txn[q]
    BY <1>0, <1>1 DEF TypeOK, Contents
  <1>4. /\ s \in Session
        /\ s # Closed => /\ s.pc = "flush" /\ s.actor = t.actor /\ s.upload = u
                         /\ s.poi = t.poi
    BY <1>0, Blank DEF Session
  <1>5. TypeOK'
    BY <1>0, <1>1, <1>4 DEF TypeOK, Contents
  <1>6. ASSUME NEW q \in Requests PROVE SessionAgrees(txn[q])'
    <2>1. CASE q = r
      BY <1>1, <1>3, <1>4, <2>1 DEF SessionAgrees, Moved, Closed, NoPoi
    <2>2. CASE q # r
      <3>1. SessionAgrees(txn[q])
        BY DEF IInv
      <3> QED
        BY <1>2, <1>3, <2>2, <3>1 DEF SessionAgrees, Moved, Closed, NoPoi
    <2> QED
      BY <2>1, <2>2
  <1>7. SessionsApart'
    BY <1>0, <1>1, <1>2, <1>3, <1>4, Blank DEF SessionsApart, Moved
  <1>8. ASSUME NEW p \in Pois PROVE (PoiAgrees(p) /\ BlurAgrees(p))'
    <2>1. PoiAgrees(p) /\ BlurAgrees(p)
      BY DEF IInv
    <2> QED
      BY <1>2, <1>3, <2>1, Blank DEF PoiAgrees, BlurAgrees, NoPoi
  <1>9. ASSUME NEW v \in Uploads PROVE UploadAgrees(v)'
    <2>1. UploadAgrees(v)
      BY DEF IInv
    <2>2. bytes[u].tmp # "none"
      BY <1>0
    <2> QED
      BY <1>3, <2>1, <2>2 DEF UploadAgrees
  <1>10. OrphansNeedFailure'
    <2>1. ASSUME NEW v \in Uploads, uploads[v].status \in {"claimed", "deleted"},
                 bytes'[v].tmp # "none"
          PROVE  v \in strays'
      BY <1>9, <2>1 DEF UploadAgrees
    <2>2. ASSUME NEW v \in Uploads, failures' = 0, bytes'[v].photos # "none"
          PROVE  \/ \E p \in Pois : pois[p].photo = v
                 \/ \E q \in Requests : txn'[q].upload = v /\ Moved(txn'[q])
      <3>1. CASE v = u
        BY <1>3, <1>4, <2>2, <3>1 DEF Moved
      <3>2. CASE v # u
        <4>1. \/ \E p \in Pois : pois[p].photo = v
              \/ \E q \in Requests : txn[q].upload = v /\ Moved(txn[q])
          BY <1>3, <2>2, <3>2 DEF IInv, OrphansNeedFailure, Moved
        <4> QED
          BY <1>3, <3>2, <4>1
      <3> QED
        BY <3>1, <3>2
    <2> QED
      BY <2>1, <2>2 DEF OrphansNeedFailure, Moved
  <1> QED
    BY <1>5, <1>6, <1>7, <1>8, <1>9, <1>10 DEF IInv

\* ClaimMove and ClaimHalf are such moves.
LEMMA ClaimStep ==
  ASSUME IInv, NEW r \in Requests, ClaimMove(r) \/ ClaimHalf(r)
  PROVE  IInv'
  <1> DEFINE u == txn[r].upload
  <1>0. /\ TypeOK /\ SessionAgrees(txn[r]) /\ txn[r].pc = "claim" /\ bytes[u].tmp = "image"
        /\ UNCHANGED << uploads, pois, job, blur, now >>
    BY DEF IInv, ClaimMove, ClaimHalf, CopyObject
  <1>1. u \in Uploads /\ failures \in Nat
    BY <1>0, Blank DEF SessionAgrees, TypeOK
  <1>2. CASE ClaimMove(r)
    <2> DEFINE s == [txn[r] EXCEPT !.pc = "flush"]
    <2>1. s # Closed
      BY <1>0, Blank DEF TypeOK, Session, Closed
    <2>2. PICK content \in Contents :
            /\ bytes' = [bytes EXCEPT ![u] = [tmp |-> "none", photos |-> content]]
            /\ strays' = IF content = "image" THEN strays ELSE strays \cup {u}
      BY <1>2 DEF ClaimMove, CopyObject
    <2>3. txn' = [txn EXCEPT ![r] = s] /\ failures' = failures
      BY <1>2 DEF ClaimMove
    <2> QED
      BY <1>0, <1>1, <2>1, <2>2, <2>3, MoveStep
  <1>3. CASE ClaimHalf(r)
    <2>1. PICK content \in Contents :
            /\ bytes' = [bytes EXCEPT ![u] = [tmp |-> content, photos |-> content]]
            /\ strays' = IF content = "image" THEN strays ELSE strays \cup {u}
      BY <1>3 DEF ClaimHalf, CopyObject
    <2>2. txn' = [txn EXCEPT ![r] = Closed] /\ failures' \in Nat /\ failures' # 0
      BY <1>1, <1>3 DEF ClaimHalf, Fail
    <2> QED
      BY <1>0, <1>1, <2>1, <2>2, MoveStep
  <1> QED
    BY <1>2, <1>3

\* The POI, the claim of its photo and its task appear together.
LEMMA CommitStep ==
  ASSUME IInv, NEW r \in Requests, CommitScheduled(r) \/ CommitUnanswered(r)
  PROVE  IInv'
  <1> DEFINE t == txn[r]
             row == [uploads[t.upload] EXCEPT !.status = "claimed", !.claimed_by_poi_id = t.poi]
             poi == [submitter |-> t.actor, photo |-> t.upload, processed |-> FALSE]
  <1>0. TypeOK /\ t \in Session /\ SessionAgrees(t) /\ SessionsApart /\ t.pc = "commit"
    BY DEF IInv, TypeOK, CommitScheduled, CommitUnanswered, CommitRows
  <1>1. /\ t.upload \in Uploads /\ t.poi \in Pois /\ t.actor \in Users
        /\ pois[t.poi] = NoPoi /\ Moved(t)
        /\ uploads[t.upload].status # "absent" /\ uploads[t.upload].user = t.actor
        /\ bytes[t.upload].photos # "none"
        /\ t.upload \notin strays => /\ bytes[t.upload].tmp = "none"
                                    /\ bytes[t.upload].photos = "image"
    BY <1>0, Blank DEF SessionAgrees, Moved
  <1>2. PICK task \in {"queued", "lost"} :
          /\ blur' = [blur EXCEPT ![t.poi] = task]
          /\ uploads' = [uploads EXCEPT ![t.upload] = row]
          /\ pois' = [pois EXCEPT ![t.poi] = poi]
          /\ txn' = [txn EXCEPT ![r] = Closed]
          /\ failures' \in Nat /\ (failures' = 0 => failures = 0)
          /\ UNCHANGED << bytes, strays, job, now >>
    <2>1. uploads' = [uploads EXCEPT ![t.upload] = row]
      BY <1>0, <1>1 DEF CommitScheduled, CommitUnanswered, CommitRows, TypeOK
    <2>2. CASE CommitScheduled(r)
      BY <1>0, <2>1, <2>2 DEF CommitScheduled, CommitRows, TypeOK
    <2>3. CASE CommitUnanswered(r)
      BY <1>0, <2>1, <2>3 DEF CommitUnanswered, CommitRows, Fail, TypeOK
    <2> QED
      BY <2>2, <2>3
  <1>3. /\ row \in UploadRow /\ row.status = "claimed" /\ row.claimed_by_poi_id = t.poi
        /\ row.user = t.actor /\ poi \in PoiRow /\ poi.photo = t.upload
        /\ poi.submitter = t.actor /\ ~poi.processed /\ poi # NoPoi
    <2>1. uploads[t.upload] \in UploadRow
      BY <1>0, <1>1 DEF TypeOK
    <2>2. /\ row \in UploadRow /\ row.status = "claimed" /\ row.claimed_by_poi_id = t.poi
          /\ row.user = t.actor
      BY <1>1, <2>1 DEF UploadRow
    <2>3. /\ poi \in PoiRow /\ poi.photo = t.upload /\ poi.submitter = t.actor
          /\ ~poi.processed
      BY <1>1 DEF PoiRow
    <2>4. poi # NoPoi
      BY <1>1, <2>3, Blank, PhotosAssumption
    <2> QED
      BY <2>2, <2>3, <2>4
  <1> HIDE DEF row, poi
  <1>4. /\ uploads'[t.upload] = row
        /\ \A v \in Uploads \ {t.upload} : uploads'[v] = uploads[v]
        /\ pois'[t.poi] = poi /\ \A p \in Pois \ {t.poi} : pois'[p] = pois[p]
        /\ txn'[r] = Closed /\ \A q \in Requests \ {r} : txn'[q] = txn[q]
        /\ blur'[t.poi] = task /\ \A p \in Pois \ {t.poi} : blur'[p] = blur[p]
    BY <1>0, <1>1, <1>2 DEF TypeOK
  <1>5. /\ \A q \in Requests \ {r} :
             /\ txn[q].poi # t.poi
             /\ t.upload \notin strays => ~(Moved(txn[q]) /\ txn[q].upload = t.upload)
        /\ t.upload \notin strays => \A p \in Pois : pois[p].photo # t.upload
    BY <1>0, <1>1, PhotosAssumption DEF SessionsApart
  <1>6. TypeOK'
    BY <1>0, <1>2, <1>3, Blank DEF TypeOK
  <1>7. ASSUME NEW q \in Requests PROVE SessionAgrees(txn[q])'
    <2>1. CASE q = r
      BY <1>4, <2>1 DEF SessionAgrees, Closed
    <2>2. CASE q # r
      <3>1. SessionAgrees(txn[q])
        BY DEF IInv
      <3> QED
        BY <1>1, <1>2, <1>3, <1>4, <1>5, <2>2, <3>1 DEF SessionAgrees, Moved, Closed, NoPoi
    <2> QED
      BY <2>1, <2>2
  <1>8. SessionsApart'
    BY <1>0, <1>2, <1>3, <1>4, <1>5, Blank DEF SessionsApart, Moved
  <1>9. ASSUME NEW p \in Pois PROVE (PoiAgrees(p) /\ BlurAgrees(p))'
    <2>1. CASE p = t.poi
      BY <1>1, <1>2, <1>3, <1>4, <2>1 DEF PoiAgrees, BlurAgrees, NoPoi
    <2>2. CASE p # t.poi
      <3>1. PoiAgrees(p) /\ BlurAgrees(p)
        BY DEF IInv
      <3> QED
        BY <1>1, <1>2, <1>3, <1>4, <1>5, <2>2, <3>1 DEF PoiAgrees, BlurAgrees, NoPoi
    <2> QED
      BY <2>1, <2>2
  <1>10. ASSUME NEW v \in Uploads PROVE UploadAgrees(v)'
    <2>1. UploadAgrees(v)
      BY DEF IInv
    <2>2. row.expires_at = uploads[t.upload].expires_at
      BY <1>0, <1>1 DEF row, TypeOK, UploadRow
    <2> QED
      BY <1>1, <1>2, <1>3, <1>4, <2>1, <2>2 DEF UploadAgrees
  <1>11. OrphansNeedFailure'
    <2>1. ASSUME NEW v \in Uploads, uploads'[v].status \in {"claimed", "deleted"},
                 bytes[v].tmp # "none"
          PROVE  v \in strays
      BY <1>2, <1>10, <2>1 DEF UploadAgrees
    <2>2. ASSUME NEW v \in Uploads, failures' = 0, bytes[v].photos # "none"
          PROVE  \/ \E p \in Pois : pois'[p].photo = v
                 \/ \E q \in Requests : txn'[q].upload = v /\ Moved(txn'[q])
      <3>1. CASE v = t.upload
        BY <1>1, <1>3, <1>4, <3>1
      <3>2. CASE v # t.upload
        <4>1. \/ \E p \in Pois : pois[p].photo = v
              \/ \E q \in Requests : txn[q].upload = v /\ Moved(txn[q])
          BY <1>2, <2>2 DEF IInv, OrphansNeedFailure, Moved
        <4>2. NoPoi.photo # v
          BY Blank, PhotosAssumption
        <4> QED
          BY <1>1, <1>4, <3>2, <4>1, <4>2
      <3> QED
        BY <3>1, <3>2
    <2> QED
      BY <1>2, <2>1, <2>2 DEF OrphansNeedFailure, Moved
  <1> QED
    BY <1>6, <1>7, <1>8, <1>9, <1>10, <1>11 DEF IInv
-----------------------------------------------------------------------------
(* The background task                                                     *)

\* The task overwrites the photo of its own POI, and only then says so.
LEMMA BlurStep ==
  ASSUME IInv, NEW p \in Pois, Blur(p) \/ BlurFail(p)
  PROVE  IInv'
  <1>0. TypeOK /\ PoiAgrees(p) /\ BlurAgrees(p) /\ SessionsApart
    BY DEF IInv
  <1>1. CASE BlurPut(p)
    <2> DEFINE u == pois[p].photo
    <2>1. /\ pois[p] # NoPoi /\ u \in Uploads
          /\ bytes[u].photos # "none"
      <3>1. pois[p] # NoPoi
        BY <1>0, <1>1 DEF BlurPut, BlurAgrees
      <3> QED
        BY <1>0, <3>1 DEF PoiAgrees
    <2>2. /\ bytes' = [bytes EXCEPT ![u] = [bytes[u] EXCEPT !.photos = "processed"]]
          /\ blur' = [blur EXCEPT ![p] = "put"]
          /\ UNCHANGED << uploads, pois, strays, txn, job, now, failures >>
      BY <1>0, <1>1, <2>1 DEF BlurPut, TypeOK
    <2>3. /\ bytes'[u].tmp = bytes[u].tmp /\ bytes'[u].photos = "processed"
          /\ \A v \in Uploads \ {u} : bytes'[v] = bytes[v]
          /\ blur'[p] = "put" /\ \A q \in Pois \ {p} : blur'[q] = blur[q]
      BY <1>0, <2>1, <2>2 DEF TypeOK
    <2>4. TypeOK'
      BY <1>0, <2>1, <2>2 DEF TypeOK
    <2>5. ASSUME NEW r \in Requests PROVE SessionAgrees(txn[r])'
      <3>1. /\ SessionAgrees(txn[r])
            /\ Moved(txn[r]) /\ txn[r].upload \notin strays => u # txn[r].upload
        BY <1>0 DEF IInv, SessionsApart
      <3> QED
        BY <2>1, <2>2, <2>3, <3>1 DEF SessionAgrees, Moved, Closed, NoPoi
    <2>6. SessionsApart'
      BY <1>0, <2>2 DEF SessionsApart, Moved
    <2>7. ASSUME NEW q \in Pois PROVE (PoiAgrees(q) /\ BlurAgrees(q))'
      <3>1. PoiAgrees(q) /\ BlurAgrees(q)
        BY DEF IInv
      <3>2. PoiAgrees(q)'
        BY <2>2, <2>3, <3>1 DEF PoiAgrees, NoPoi
      <3>3. BlurAgrees(q)'
        <4>1. CASE q = p
          BY <2>1, <2>2, <2>3, <4>1 DEF BlurAgrees, NoPoi
        <4>2. CASE q # p
          <5>1. blur[q] = "put" \/ pois[q].processed => pois[q].photo \in Uploads
            BY <3>1, Blank DEF PoiAgrees, BlurAgrees
          <5> QED
            BY <2>2, <2>3, <3>1, <4>2, <5>1 DEF BlurAgrees, NoPoi
        <4> QED
          BY <4>1, <4>2
      <3> QED
        BY <3>2, <3>3
    <2>8. ASSUME NEW v \in Uploads PROVE UploadAgrees(v)'
      <3>1. UploadAgrees(v)
        BY DEF IInv
      <3> QED
        BY <2>1, <2>2, <2>3, <3>1 DEF UploadAgrees
    <2>9. OrphansNeedFailure'
      BY <2>1, <2>2, <2>3 DEF IInv, OrphansNeedFailure
    <2> QED
      BY <2>4, <2>5, <2>6, <2>7, <2>8, <2>9 DEF IInv
  <1>2. CASE BlurCommit(p)
    <2> DEFINE row == [pois[p] EXCEPT !.processed = TRUE]
    <2>1. /\ pois' = [pois EXCEPT ![p] = row] /\ blur[p] = "put"
          /\ blur' = [blur EXCEPT ![p] = "done"]
          /\ UNCHANGED << uploads, bytes, strays, txn, job, now, failures >>
      BY <1>2 DEF BlurCommit
    <2>2. /\ row \in PoiRow /\ row.photo = pois[p].photo
          /\ row.submitter = pois[p].submitter /\ row.processed
      BY <1>0 DEF TypeOK, PoiRow
    <2> HIDE DEF row
    <2>3. /\ pois[p] # NoPoi /\ row # NoPoi
          /\ pois[p].photo \notin strays => bytes[pois[p].photo].photos = "processed"
      BY <1>0, <2>1, <2>2, Blank DEF BlurAgrees
    <2>4. /\ pois'[p] = row /\ \A q \in Pois \ {p} : pois'[q] = pois[q]
          /\ blur'[p] = "done" /\ \A q \in Pois \ {p} : blur'[q] = blur[q]
      BY <1>0, <2>1 DEF TypeOK
    <2>5. \A q \in Pois : pois'[q].photo = pois[q].photo
      BY <2>2, <2>4
    <2>6. TypeOK'
      BY <1>0, <2>1, <2>2 DEF TypeOK
    <2>7. ASSUME NEW r \in Requests PROVE SessionAgrees(txn[r])'
      <3>1. SessionAgrees(txn[r])
        BY DEF IInv
      <3> QED
        BY <2>1, <2>3, <2>4, <3>1 DEF SessionAgrees, Moved, Closed, NoPoi
    <2>8. SessionsApart'
      BY <1>0, <2>1, <2>5 DEF SessionsApart, Moved
    <2>9. ASSUME NEW q \in Pois PROVE (PoiAgrees(q) /\ BlurAgrees(q))'
      <3>1. PoiAgrees(q) /\ BlurAgrees(q)
        BY DEF IInv
      <3> QED
        BY <2>1, <2>2, <2>3, <2>4, <3>1 DEF PoiAgrees, BlurAgrees, NoPoi
    <2>10. ASSUME NEW v \in Uploads PROVE UploadAgrees(v)'
      BY <2>1 DEF IInv, UploadAgrees
    <2>11. OrphansNeedFailure'
      BY <2>1, <2>5 DEF IInv, OrphansNeedFailure
    <2> QED
      BY <2>6, <2>7, <2>8, <2>9, <2>10, <2>11 DEF IInv
  <1>3. CASE BlurFail(p) \/ BlurUnreadable(p)
    <2>1. /\ blur' = [blur EXCEPT ![p] = "lost"]
          /\ failures' \in Nat /\ (failures' = 0 => failures = 0)
          /\ UNCHANGED << uploads, pois, bytes, strays, txn, job, now >>
      BY <1>0, <1>3 DEF BlurFail, BlurUnreadable, Fail, TypeOK
    <2>2. blur'[p] = "lost" /\ \A q \in Pois \ {p} : blur'[q] = blur[q]
      BY <1>0, <2>1 DEF TypeOK
    <2>3. TypeOK'
      BY <1>0, <2>1 DEF TypeOK
    <2>4. ASSUME NEW q \in Pois PROVE BlurAgrees(q)'
      <3>1. BlurAgrees(q)
        BY DEF IInv
      <3> QED
        BY <2>1, <2>2, <3>1 DEF BlurAgrees, NoPoi
    <2>5. ASSUME NEW v \in Uploads PROVE UploadAgrees(v)'
      BY <2>1 DEF IInv, UploadAgrees
    <2> QED
      BY <2>1, <2>3, <2>4, <2>5, TablesUnchanged DEF IInv
  <1> QED
    BY <1>1, <1>2, <1>3 DEF Blur
-----------------------------------------------------------------------------
(* The cleanup job, the clock and the end of the process                   *)

\* What the job selected has expired and stays so; it marks what it has deleted.
LEMMA CleanupStep ==
  ASSUME IInv, Cleanup \/ CleanupFail
  PROVE  IInv'
  <1>0. TypeOK /\ SessionsApart
    BY DEF IInv
  <1>1. CASE CleanupSelect \/ CleanupUpdate \/ CleanupFail
    <2>1. /\ UNCHANGED << uploads, pois, bytes, strays, txn, blur, now >>
          /\ failures' \in Nat /\ (failures' = 0 => failures = 0)
          /\ job' \in [pc : {"idle", "delete", "update", "commit"}, due : SUBSET Uploads]
          /\ \A u \in job'.due :
               /\ uploads[u].status # "absent" /\ uploads[u].expires_at < now
               /\ job'.pc # "delete" => u \in strays \/ bytes[u].tmp = "none"
      <3>1. CASE CleanupSelect
        BY <1>0, <3>1 DEF CleanupSelect, Expired, TypeOK
      <3>2. CASE CleanupUpdate
        <4>1. /\ job' = [job EXCEPT !.pc = "commit"] /\ job.pc = "update"
              /\ UNCHANGED << uploads, pois, bytes, strays, txn, blur, now, failures >>
          BY <3>2 DEF CleanupUpdate
        <4>2. job'.due = job.due /\ job.due \subseteq Uploads /\ failures' \in Nat
              /\ job' \in [pc : {"idle", "delete", "update", "commit"}, due : SUBSET Uploads]
          BY <1>0, <4>1 DEF TypeOK
        <4>3. ASSUME NEW u \in job'.due
              PROVE  /\ uploads[u].status # "absent" /\ uploads[u].expires_at < now
                     /\ job'.pc # "delete" => u \in strays \/ bytes[u].tmp = "none"
          BY <4>1, <4>2, <4>3 DEF IInv, UploadAgrees
        <4>4. /\ UNCHANGED << uploads, pois, bytes, strays, txn, blur, now >>
              /\ failures' = 0 => failures = 0
          BY <4>1
        <4> QED
          BY <4>2, <4>3, <4>4
      <3>3. CASE CleanupFail
        BY <1>0, <3>3 DEF CleanupFail, JobIdle, Fail, TypeOK
      <3> QED
        BY <1>1, <3>1, <3>2, <3>3
    <2>2. TypeOK'
      BY <1>0, <2>1 DEF TypeOK
    <2>3. ASSUME NEW u \in Uploads PROVE UploadAgrees(u)'
      <3>1. UploadAgrees(u)
        BY DEF IInv
      <3> QED
        BY <2>1, <3>1 DEF UploadAgrees
    <2>4. ASSUME NEW p \in Pois PROVE BlurAgrees(p)'
      BY <2>1 DEF IInv, BlurAgrees, NoPoi
    <2> QED
      BY <2>1, <2>2, <2>3, <2>4, TablesUnchanged DEF IInv
  <1>2. ASSUME NEW failed \in SUBSET Uploads, CleanupBytes(failed) PROVE IInv'
    <2>1. /\ job' = [pc |-> "update", due |-> job.due \ failed]
          /\ bytes' = [u \in Uploads |-> IF u \in job.due \ failed
                                         THEN [bytes[u] EXCEPT !.tmp = "none"] ELSE bytes[u]]
          /\ UNCHANGED << uploads, pois, strays, txn, blur, now >>
          /\ failures' \in Nat /\ (failures' = 0 => failures = 0)
      BY <1>0, <1>2 DEF CleanupBytes, Fail, TypeOK
    <2>2. \A u \in Uploads : /\ bytes'[u].photos = bytes[u].photos
                             /\ bytes'[u].tmp \in {"none", bytes[u].tmp}
                             /\ u \in job.due \ failed => bytes'[u].tmp = "none"
      BY <1>0, <2>1 DEF TypeOK
    <2>3. TypeOK'
      BY <1>0, <2>1 DEF TypeOK
    <2>4. ASSUME NEW r \in Requests PROVE SessionAgrees(txn[r])'
      <3>1. SessionAgrees(txn[r])
        BY DEF IInv
      <3> QED
        BY <2>1, <2>2, <3>1 DEF SessionAgrees, Moved, Closed, NoPoi
    <2>5. SessionsApart'
      BY <1>0, <2>1 DEF SessionsApart, Moved
    <2>6. ASSUME NEW p \in Pois PROVE (PoiAgrees(p) /\ BlurAgrees(p))'
      <3>1. PoiAgrees(p) /\ BlurAgrees(p)
        BY DEF IInv
      <3>2. pois[p].processed => pois[p] # NoPoi
        BY Blank
      <3> QED
        BY <2>1, <2>2, <3>1, <3>2 DEF PoiAgrees, BlurAgrees, NoPoi
    <2>7. ASSUME NEW u \in Uploads PROVE UploadAgrees(u)'
      <3>1. UploadAgrees(u) /\ job'.pc = "update" /\ job'.due = job.due \ failed
        BY <2>1 DEF IInv
      <3> QED
        BY <2>1, <2>2, <3>1 DEF UploadAgrees
    <2>8. OrphansNeedFailure'
      BY <2>1, <2>2 DEF IInv, OrphansNeedFailure
    <2> QED
      BY <2>3, <2>4, <2>5, <2>6, <2>7, <2>8 DEF IInv
  <1>3. CASE CleanupCommit
    <2>1. /\ job.pc = "commit" /\ job' = JobIdle
          /\ uploads' = [u \in Uploads |-> IF u \in job.due
                                           THEN [uploads[u] EXCEPT !.status = "deleted"]
                                           ELSE uploads[u]]
          /\ UNCHANGED << pois, bytes, strays, txn, blur, now, failures >>
      BY <1>3 DEF CleanupCommit
    <2>2. \A u \in Uploads : /\ uploads'[u].user = uploads[u].user
                             /\ uploads'[u].claimed_by_poi_id = uploads[u].claimed_by_poi_id
                             /\ uploads'[u].expires_at = uploads[u].expires_at
                             /\ u \notin job.due => uploads'[u] = uploads[u]
                             /\ u \in job.due => uploads'[u].status = "deleted"
      BY <1>0, <2>1 DEF TypeOK, UploadRow
    <2>3. \A u \in Uploads : uploads[u].status # "absent" => uploads'[u].status # "absent"
      BY <2>2
    <2>4. JobIdle.due = {} /\ JobIdle.pc = "idle" /\ JobIdle.due \in SUBSET Uploads
      BY DEF JobIdle
    <2>5. TypeOK'
      <3>1. \A u \in Uploads : [uploads[u] EXCEPT !.status = "deleted"] \in UploadRow
        BY <1>0 DEF TypeOK, UploadRow
      <3>2. uploads' \in [Uploads -> UploadRow]
        BY <1>0, <2>1, <3>1 DEF TypeOK
      <3> QED
        BY <1>0, <2>1, <3>2 DEF TypeOK, JobIdle
    <2>6. ASSUME NEW r \in Requests PROVE SessionAgrees(txn[r])'
      <3>1. SessionAgrees(txn[r])
        BY DEF IInv
      <3> QED
        BY <2>1, <2>2, <2>3, <3>1 DEF SessionAgrees, Moved, Closed, NoPoi
    <2>7. SessionsApart'
      BY <1>0, <2>1 DEF SessionsApart, Moved
    <2>8. ASSUME NEW p \in Pois PROVE (PoiAgrees(p) /\ BlurAgrees(p))'
      <3>1. PoiAgrees(p) /\ BlurAgrees(p)
        BY DEF IInv
      <3> QED
        BY <2>1, <2>2, <2>3, <3>1 DEF PoiAgrees, BlurAgrees, NoPoi
    <2>9. ASSUME NEW u \in Uploads PROVE UploadAgrees(u)'
      <3>1. UploadAgrees(u)
        BY DEF IInv
      <3> QED
        BY <2>1, <2>2, <2>4, <3>1 DEF UploadAgrees
    <2>10. OrphansNeedFailure'
      <3>1. ASSUME NEW u \in Uploads, uploads'[u].status \in {"claimed", "deleted"},
                   bytes[u].tmp # "none"
            PROVE  u \in strays
        BY <2>1, <2>9, <3>1 DEF UploadAgrees
      <3> QED
        BY <2>1, <3>1 DEF IInv, OrphansNeedFailure
    <2> QED
      BY <2>5, <2>6, <2>7, <2>8, <2>9, <2>10 DEF IInv
  <1> QED
    BY <1>1, <1>2, <1>3 DEF Cleanup

\* Time only makes what has expired older; the end of the process leaves the tables
\* and the bucket as they are.
LEMMA SurroundingsStep ==
  ASSUME IInv, Tick \/ Crash
  PROVE  IInv'
  <1>0. TypeOK
    BY DEF IInv
  <1>1. CASE Tick
    <2>1. /\ now' = now + 1 /\ now \in Nat
          /\ UNCHANGED << uploads, pois, bytes, strays, txn, job, blur, failures >>
      BY <1>0, <1>1 DEF Tick, TypeOK
    <2>2. TypeOK'
      BY <1>0, <2>1 DEF TypeOK
    <2>3. ASSUME NEW u \in Uploads PROVE UploadAgrees(u)'
      <3>1. UploadAgrees(u) /\ uploads[u].expires_at \in Nat
        BY <1>0 DEF IInv, TypeOK, UploadRow
      <3> QED
        BY <2>1, <3>1 DEF UploadAgrees
    <2>4. ASSUME NEW p \in Pois PROVE BlurAgrees(p)'
      BY <2>1 DEF IInv, BlurAgrees, NoPoi
    <2> QED
      BY <2>1, <2>2, <2>3, <2>4, TablesUnchanged DEF IInv
  <1>2. CASE Crash
    <2>1. /\ failures' \in Nat /\ failures' # 0 /\ job' = JobIdle
          /\ txn' = [r \in Requests |-> Closed]
          /\ \A p \in Pois : blur'[p] \in {blur[p], "lost"}
          /\ blur' \in [Pois -> {"none", "queued", "put", "done", "lost"}]
          /\ UNCHANGED << uploads, pois, bytes, strays, now >>
      BY <1>0, <1>2 DEF Crash, Fail, TypeOK
    <2>2. JobIdle.due = {} /\ JobIdle.pc = "idle"
      BY DEF JobIdle
    <2>3. TypeOK'
      BY <1>0, <2>1, Blank DEF TypeOK, JobIdle
    <2>4. (\A r \in Requests : SessionAgrees(txn[r]))' /\ SessionsApart'
      BY <2>1, Blank DEF SessionAgrees, SessionsApart, Closed, Moved
    <2>5. ASSUME NEW p \in Pois PROVE (PoiAgrees(p) /\ BlurAgrees(p))'
      <3>1. PoiAgrees(p) /\ BlurAgrees(p)
        BY DEF IInv
      <3> QED
        BY <2>1, <3>1 DEF PoiAgrees, BlurAgrees, NoPoi
    <2>6. ASSUME NEW u \in Uploads PROVE UploadAgrees(u)'
      BY <2>1, <2>2 DEF IInv, UploadAgrees
    <2>7. OrphansNeedFailure'
      BY <2>1 DEF IInv, OrphansNeedFailure
    <2> QED
      BY <2>3, <2>4, <2>5, <2>6, <2>7 DEF IInv
  <1> QED
    BY <1>1, <1>2
-----------------------------------------------------------------------------
(* The theorems                                                            *)

\* The empty tables and the empty bucket agree.
LEMMA InitIInv == Init => IInv
  <1> SUFFICES ASSUME Init PROVE IInv
    OBVIOUS
  <1>1. TypeOK
    BY Blank DEF Init, TypeOK, JobIdle
  <1>2. (\A r \in Requests : SessionAgrees(txn[r])) /\ SessionsApart
    BY Blank DEF Init, SessionAgrees, SessionsApart, Moved
  <1>3. \A p \in Pois : PoiAgrees(p) /\ BlurAgrees(p)
    BY Blank DEF Init, PoiAgrees, BlurAgrees
  <1>4. \A u \in Uploads : UploadAgrees(u)
    BY Blank DEF Init, UploadAgrees, JobIdle, NoUpload
  <1>5. OrphansNeedFailure
    BY DEF Init, OrphansNeedFailure, NoUpload
  <1> QED
    BY <1>1, <1>2, <1>3, <1>4, <1>5 DEF IInv

\* Every step keeps the invariant.
LEMMA StepIInv == IInv /\ [Next]_vars => IInv'
  <1> SUFFICES ASSUME IInv, [Next]_vars PROVE IInv'
    OBVIOUS
  <1>1. ASSUME NEW u \in Uploads,
               (\E a \in Users : Presign(u, a))
                 \/ (\E content \in Contents : Put(u, content))
        PROVE  IInv'
    BY <1>1, PresignStep, PutStep
  <1>2. ASSUME NEW r \in Requests, Submit(r) \/ Step(r) \/ StepFails(r) PROVE IInv'
    BY <1>2, StatementStep, ClaimStep, CommitStep DEF Step, StepFails
  <1>3. ASSUME NEW p \in Pois, Blur(p) \/ BlurFail(p) PROVE IInv'
    BY <1>3, BlurStep
  <1>4. CASE Cleanup \/ CleanupFail
    BY <1>4, CleanupStep
  <1>5. CASE Tick \/ Crash
    BY <1>5, SurroundingsStep
  <1>6. CASE UNCHANGED vars
    <2>1. TypeOK'
      BY <1>6 DEF vars, IInv, TypeOK
    <2>2. ASSUME NEW p \in Pois PROVE BlurAgrees(p)'
      BY <1>6 DEF vars, IInv, BlurAgrees, NoPoi
    <2>3. ASSUME NEW u \in Uploads PROVE UploadAgrees(u)'
      BY <1>6 DEF vars, IInv, UploadAgrees
    <2> QED
      BY <1>6, <2>1, <2>2, <2>3, TablesUnchanged DEF vars, IInv
  <1> QED
    BY <1>1, <1>2, <1>3, <1>4, <1>5, <1>6 DEF Next

\* The strengthening holds in every state.
LEMMA Invariance == Spec => []IInv
  BY InitIInv, StepIInv, PTL DEF Spec

\* The photo of a POI is there and was uploaded by its submitter, whatever submissions overlap,
\* fail or find the upload claimable at the same time, and whatever is PUT when; unless a PUT
\* came after the copy or after the expiry, its bytes passed the sniff and it belongs to no
\* other POI (photo_service.py: claim, mark_claimed).
THEOREM PhotoSafety == Spec => []PhotoBelongsToPoi
  <1>1. IInv => PhotoBelongsToPoi
    BY Blank DEF IInv, PoiAgrees, PhotoBelongsToPoi
  <1> QED
    BY <1>1, Invariance, PTL

\* photo_processed_at is only set on a photo whose object is the output of process_photo_bytes,
\* and stays true of it unless a PUT strayed (photo_blur_task.py).
THEOREM ProcessedSafety == Spec => []MarkedMeansProcessed
  <1>1. IInv => MarkedMeansProcessed
    BY DEF IInv, BlurAgrees, MarkedMeansProcessed
  <1> QED
    BY <1>1, Invariance, PTL

\* What a claim or the job has marked has nothing left at tmp/ unless a PUT strayed, and without
\* a failure everything at photos/ is shown by a POI or about to be (photo_cleanup.py,
\* photo_service.py).
THEOREM OrphanSafety == Spec => []OrphansNeedFailure
  <1>1. IInv => OrphansNeedFailure
    BY DEF IInv
  <1> QED
    BY <1>1, Invariance, PTL

=============================================================================
