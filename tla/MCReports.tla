------------------------------ MODULE MCReports ------------------------------
(***************************************************************************)
(* Small instances of Reports.  w is the admin and may report like the     *)
(* others; every user has lost two POIs (-6), so that one dismissal bans.  *)
(* The delay is one tick, the TTL two, and the clock leaves two ticks in   *)
(* which a report can be submitted and still expire.                       *)
(***************************************************************************)
EXTENDS Reports, TLC

CONSTANTS w, a, b

MCUsers == {w, a, b}
LiveUsers == {w, a}
MCAdmins == {w}
MCHistories == {[u \in Users |-> [EmptyLedger EXCEPT !["poi_submitted_rejected"] = 2]]}

Symmetry == Permutations({a, b}) \cup Permutations(Requests)

=============================================================================
