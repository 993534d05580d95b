-------------------------------- MODULE Backend --------------------------------
(***************************************************************************)
(* POI moderation and reports together: the same people submit, confirm    *)
(* and report, the same admins moderate both, and both components charge   *)
(* and credit the same rows of users and the same ledger.  A dismissed     *)
(* report can cost its author the right to submit POIs, and the other way  *)
(* round.                                                                  *)
(*                                                                         *)
(* Every step is a step of PoiModeration or of Reports.  A request runs    *)
(* one handler, and a users row that one component has locked is locked    *)
(* for the other.                                                          *)
(***************************************************************************)
EXTENDS Integers, FiniteSets, Reputation

CONSTANTS
  Users, Admins, Histories, Requests,                  \* of both components
  Pois, Importer, Seeds, MaxRejections,                \* of PoiModeration
  ReportIds, Nobody, ResolveDelay, ReportTTL, MaxNow, MaxFailures   \* of Reports

\* What PoiModeration and Reports assume of the constants they share.
ASSUME BackendAssumption ==
  /\ IsFiniteSet(Users) /\ Admins \subseteq Users
  /\ Importer \notin Users /\ Nobody \notin Users
  /\ Histories \subseteq [Users -> Ledger]
  /\ Seeds \subseteq Users \cup {Importer}
  /\ MaxRejections \in Nat /\ MaxNow \in Nat /\ MaxFailures \in Nat
  /\ ResolveDelay \in Nat /\ ReportTTL \in Nat /\ ResolveDelay < ReportTTL

VARIABLES
  users, ledger,                                       \* shared
  pois, confirmations, proposals, poiNotices, poiTxn,
  reports, confirmers, reportNotices, reportTxn, job, now

poiVars    == << pois, confirmations, proposals, poiNotices, poiTxn >>
reportVars == << reports, confirmers, reportNotices, reportTxn, job, now >>
vars       == << users, ledger, poiVars, reportVars >>

P == INSTANCE PoiModeration WITH notices <- poiNotices, txn <- poiTxn
R == INSTANCE Reports WITH notices <- reportNotices, txn <- reportTxn

Init == P!Init /\ R!Init

-----------------------------------------------------------------------------
(* Composition                                                             *)

\* A request has one handler and so one session.
OneHandler ==
  \A r \in Requests : poiTxn[r] = P!Closed \/ reportTxn[r] = R!Closed

\* The UPDATE of a users row waits for the sessions of the other component, too.
UserLockedOnce ==
  \A r, q \in Requests :
    "user" \in poiTxn[r].locks /\ "user" \in reportTxn[q].locks
      => poiTxn[r].row.source # reportTxn[q].row.reporter

PoiStep    == P!Next /\ UNCHANGED reportVars /\ OneHandler' /\ UserLockedOnce'
ReportStep == R!Next /\ UNCHANGED poiVars /\ OneHandler' /\ UserLockedOnce'

Next == PoiStep \/ ReportStep

Spec == Init /\ [][Next]_vars

\* Requests and runs of the job that do not overlap.
Alone ==
  LET open == {r \in Requests : poiTxn[r] # P!Closed \/ reportTxn[r] # R!Closed}
  IN  Cardinality(open) + (IF job.pc = "idle" THEN 0 ELSE 1) <= 1

SerialSpec == Init /\ [][Next /\ Alone']_vars

-----------------------------------------------------------------------------
(* Properties of overlapping sessions                                      *)

\* Whichever component charged a user last, and from whatever stale copy, a
\* reputation at or below the threshold belongs to a banned user.
BanFollowsReputation ==
  \A u \in Users : ShouldAutoBan(users[u].reputation) => users[u].is_banned

\* A ban by one component is not lifted by a session of the other.
BanIsFinal ==
  [][\A u \in Users : users[u].is_banned => users'[u].is_banned]_vars

(***************************************************************************)
(* The exact promises, which hold when sessions do not overlap.            *)
(***************************************************************************)

\* verification_count is the submitter and the distinct confirmers of a POI,
\* confirmation_count the distinct confirmers of a report.
CountersAreExact == P!CountIsExact /\ R!ConfirmationsExact

\* A POI that two others have confirmed is verified (confirmation_service.py:3),
\* and stays so through charges, bans and removal.
ThreeAttestationsVerify == P!ThreeAttestationsVerify

\* A POI three users want gone is gone (removal_service.py:3).
ThreeProposalsRemove == P!ThreeProposalsRemove

\* The cached reputation is what recompute_reputation_for_user would make of the whole
\* ledger (reputation_event.py:3), whichever component appended the events.
ReputationIsLedgerSum ==
  \A u \in Users : users[u].reputation = LedgerSum(ledger[u])

\* A reporter hears exactly once that a report was closed, and how.  No POI is
\* announced as verified twice (VerificationIsTold says when it is announced).
NoticeTellsOutcome == P!VerifiedOnce /\ R!NoticeTellsOutcome

\* The step sends the notice about p that it has to: one if a confirmation verifies p.
TellsOf(p) ==
  LET confirmed == confirmations'[p] # confirmations[p]
      flipped   == /\ pois[p].verification_status = "unverified"
                   /\ pois'[p].verification_status = "verified"
      hears     == pois[p].source \in Users /\ ~users[pois[p].source].is_banned
  IN  poiNotices'[p] = poiNotices[p] + (IF confirmed /\ flipped /\ hears THEN 1 ELSE 0)

\* A submitter is told of a POI exactly when a confirmation verifies it, unless either
\* component has banned the submitter: an approval by staff is announced to nobody.
VerificationIsTold == [][\A p \in Pois : TellsOf(p)]_vars

\* The ledger of a reporter tells how the reports ended, also when a ban for
\* POIs falls between a report and its end.
LedgerTellsOutcome == R!LedgerTellsOutcome

\* A submitter is credited for each confirmation of a POI, removed ones
\* included, until either component bans the submitter.
LedgerTellsConfirmations ==
  \A u \in Users :
    LET submitted == {p \in Pois : pois[p].source = u}
        earned == Cardinality({c \in submitted \X Users : c[2] \in confirmations[c[1]]})
    IN  /\ ledger[u]["confirmation"] <= earned
        /\ ~users[u].is_banned => ledger[u]["confirmation"] = earned

=============================================================================
