----------------------------- MODULE Reputation -----------------------------
(***************************************************************************)
(* Trust thresholds (core/trust.py), the deltas of reputation events       *)
(* (models/reputation_event.py) and what appending an event does to the    *)
(* cached columns of a users row (services/reputation_service.py).         *)
(* Pure operators: the transactions that use them are in the modules that  *)
(* extend this one.                                                        *)
(***************************************************************************)
EXTENDS Integers

NoSubmitThreshold == 0      \* reputation below this cannot submit
AutoBanThreshold  == -10    \* at or below this the user is banned
TrustedThreshold  == 50     \* at or above this a submission is verified at once

TierForReputation(rep) ==
  CASE rep <= AutoBanThreshold                                -> "banned"
    [] rep > AutoBanThreshold /\ rep < NoSubmitThreshold      -> "no_submit"
    [] rep >= NoSubmitThreshold /\ rep < TrustedThreshold     -> "normal"
    [] rep >= TrustedThreshold                                -> "trusted"

CanSubmit(rep) == TierForReputation(rep) \notin {"banned", "no_submit"}

IsTrusted(rep) == TierForReputation(rep) = "trusted"

ShouldAutoBan(rep) == rep <= AutoBanThreshold

(***************************************************************************)
(* Event types; daily_active has delta 0 and no caller appends it.         *)
(***************************************************************************)
EventTypes ==
  { "poi_submitted_verified", "poi_submitted_rejected", "confirmation",
    "report_submitted_resolved", "report_dismissed_admin" }

EventDeltas ==
  [ poi_submitted_verified    |->  5,
    poi_submitted_rejected    |-> -3,
    confirmation              |->  1,
    report_submitted_resolved |->  2,
    report_dismissed_admin    |-> -5 ]

(***************************************************************************)
(* The columns of a users row that the services read and write.            *)
(***************************************************************************)
UserRow == [reputation : Int, is_banned : BOOLEAN]

NewUserRow(rep) == [reputation |-> rep, is_banned |-> ShouldAutoBan(rep)]

\* Mutant: no auto-ban.
AppendEventNoBan(row, event) ==
  [ reputation |-> row.reputation + EventDeltas[event], is_banned |-> row.is_banned ]

\* What append_event leaves in the in-memory row it was given.
AppendEvent(row, event) ==
  LET rep == row.reputation + EventDeltas[event]
  IN  [ reputation |-> rep, is_banned |-> row.is_banned \/ ShouldAutoBan(rep) ]

(***************************************************************************)
(* The ledger of one user: how many events of each type were inserted.     *)
(***************************************************************************)
Ledger == [EventTypes -> Nat]

EmptyLedger == [e \in EventTypes |-> 0]

Record(book, event) == [book EXCEPT ![event] = @ + 1]

LedgerSum(book) ==
    EventDeltas["poi_submitted_verified"]    * book["poi_submitted_verified"]
  + EventDeltas["poi_submitted_rejected"]    * book["poi_submitted_rejected"]
  + EventDeltas["confirmation"]              * book["confirmation"]
  + EventDeltas["report_submitted_resolved"] * book["report_submitted_resolved"]
  + EventDeltas["report_dismissed_admin"]    * book["report_dismissed_admin"]

=============================================================================
