------------------------------ MODULE MCImporter ------------------------------
(***************************************************************************)
(* Small instances of Importer: two overlapping runs of one source with    *)
(* two rows, one of which carries as-of dates.  The grace period is one    *)
(* tick and the clock leaves time for a row to be imported, dropped and    *)
(* removed.  RecentDates lie within the grace period, OldDates before it.  *)
(***************************************************************************)
EXTENDS Importer

CONSTANTS dated, undated

MCIds == {dated, undated}
RecentDates == [x \in Ids |-> IF x = dated THEN {0, Grace} ELSE {0}]
OldDates == [x \in Ids |-> IF x = dated THEN {0, Grace + 1} ELSE {0}]

=============================================================================
