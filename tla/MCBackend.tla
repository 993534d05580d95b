------------------------------- MODULE MCBackend -------------------------------
(***************************************************************************)
(* A small instance of Backend: the admin o and two users share one POI    *)
(* and one report.  The POI is imported, or one of the three submits it.   *)
(* All start with nothing, so that charges of both components are needed   *)
(* for a ban (or four deletions, which MaxRejections just allows).  The    *)
(* clock leaves one tick to submit the report in and two for it to expire. *)
(***************************************************************************)
EXTENDS Backend, TLC

CONSTANTS o, a, b

MCUsers == {o, a, b}
MCAdmins == {o}
MCHistories == {[u \in Users |-> EmptyLedger]}
MCSeeds == {Importer}

Symmetry == Permutations({a, b})

=============================================================================
