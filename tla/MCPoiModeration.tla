--------------------------- MODULE MCPoiModeration ---------------------------
(***************************************************************************)
(* Small instances of PoiModeration: one POI that does not exist yet or    *)
(* was submitted by an admin o.  o has lost almost all of its reputation   *)
(* (-8, one deletion from the ban), or is trusted (+54); everybody else    *)
(* is new.  With MaxRejections = 2 admins delete in the first history      *)
(* only; proposals can delete in both.                                     *)
(***************************************************************************)
EXTENDS PoiModeration, TLC

CONSTANTS o, a, b, c

History(book) == [u \in Users |-> IF u = o THEN book ELSE EmptyLedger]

MCHistories ==
  { History([EmptyLedger EXCEPT !["poi_submitted_rejected"] = 1,
                                !["report_dismissed_admin"] = 1]),
    History([EmptyLedger EXCEPT !["poi_submitted_rejected"] = 2,
                                !["poi_submitted_verified"] = 12]) }

MCUsers == {o, a, b, c}
MCAdmins == {o}
MCSeeds == {o}
LiveUsers == {o, a}

Symmetry == Permutations({a, b, c}) \cup Permutations(Requests)

=============================================================================
