-------------------------------- MODULE Listing --------------------------------
(***************************************************************************)
(* What the two importers make of a listing (importers/                    *)
(* seoul_public_toilets.py, seoul_smoking_areas.py): which rows they take, *)
(* where a row gets its coordinates from, under which external id it is    *)
(* stored, and what the report counts.                                     *)
(*                                                                         *)
(* A run takes the rows of the listing it fetched one by one and commits   *)
(* after the last one: the overlap of runs and what a failed statement     *)
(* undoes are in Importer.  Runs follow each other one import cycle apart, *)
(* and dates are numbers of runs: last_verified_at is that of the run, or  *)
(* the as-of date of the row, which only the importer of toilets reads.    *)
(***************************************************************************)
EXTENDS Integers, FiniteSets, Sequences

CONSTANTS
  Listings,     \* sequences of rows the publisher may list
  Text,         \* what a cell may hold
  Mapo,         \* addresses that contain the district keyword
  Spaces,       \* an address cell that holds only blanks
  GraceRuns,    \* 2 * cycle_days, in runs
  MaxRuns       \* bound on the runs

\* A row as the csv module reads it: cells are text, absent coordinates or an
\* absent date << >>.
Rows ==
  [ road : Text, lot : Text, name : Text, coords : {<< >>} \cup (Int \X Int),
    stalls : Text, urinals : Text, women : Text, men_acc : Text, women_acc : Text,
    baby : Text, hours : Text, detail : Text, form : Text,
    as_of : {<< >>} \cup [{1} -> Int] ]

None == "none"

ASSUME ListingAssumption ==
  /\ {"", None} \subseteq Text
  /\ Listings \subseteq Seq(Rows)
  /\ GraceRuns \in Nat /\ MaxRuns \in Nat

VARIABLES
  kind,       \* which importer this is
  listing,    \* what the publisher lists now
  pois,       \* the rows of the source in the pois table, by external id
  runs,       \* runs that have ended
  run,        \* the run that is open
  report,     \* the report of the last run
  known,      \* history: places that some run has put on the map
  unplaced,   \* history: runs since the last one that could place each id
  dates       \* history: the as-of date of the row that last wrote each id

vars == << kind, listing, pois, runs, run, report, known, unplaced, dates >>

Kinds == {"toilets", "smoking_areas"}

\* f with the value v at the key k, new or not.
Put(f, k, v) == [x \in DOMAIN f \cup {k} |-> IF x = k THEN v ELSE f[x]]

-----------------------------------------------------------------------------
(* Cells                                                                   *)

Truthy(cell) ==
  CASE cell \in {"Y", "1"} -> "yes"
    [] cell \in {"N", "0"} -> "no"
    [] OTHER               -> None

\* Counts are digits; anything else is no count.
ToInt(cell) == CASE cell = "0" -> 0 [] cell = "1" -> 1 [] OTHER -> -1

Count(cell) == IF ToInt(cell) = -1 THEN 0 ELSE ToInt(cell)

Strip(cell) == IF cell = Spaces THEN "" ELSE cell

\* The road address hides the lot address even if it is only blanks.
Address(row) == Strip(IF row.road # "" THEN row.road ELSE row.lot)

GenderFromCounts(row) ==
  LET men == Count(row.stalls) + Count(row.urinals)  women == Count(row.women) IN
  CASE men > 0 /\ women > 0 -> "separate"
    [] men > 0 /\ women = 0 -> "male_only"
    [] men = 0 /\ women > 0 -> "female_only"
    [] OTHER                -> None

AccessibilityFromCounts(row) ==
  LET published == {c \in {row.men_acc, row.women_acc} : ToInt(c) # -1}
  IN  IF published = {} THEN None
      ELSE IF \E c \in published : ToInt(c) > 0 THEN "yes" ELSE "no"

OpeningHours(row) ==
  CASE row.detail # ""                 -> row.detail
    [] row.detail = "" /\ row.hours # "" -> row.hours
    [] OTHER                           -> None

Enclosed(row) ==
  CASE row.form = ""       -> None
    [] row.form = "closed" -> "yes"
    [] OTHER               -> "no"

Attributes(row) ==
  IF kind = "toilets"
  THEN [ accessibility |-> AccessibilityFromCounts(row), gender |-> GenderFromCounts(row),
         opening_hours |-> OpeningHours(row), has_baby_changing |-> Truthy(row.baby) ]
  ELSE [ enclosed |-> Enclosed(row),
         opening_hours |-> IF row.hours = "" THEN None ELSE row.hours ]

ToiletAttributes ==
  [ accessibility     : {"yes", "no", None},
    gender            : {"separate", "unisex", "male_only", "female_only", None},
    opening_hours     : Text,
    has_baby_changing : {"yes", "no", None} ]

SmokingAreaAttributes == [ enclosed : {"yes", "no", None}, opening_hours : Text ]

\* validate_attributes raises on anything else.
Validated(row) ==
  Attributes(row) \in IF kind = "toilets" THEN ToiletAttributes ELSE SmokingAreaAttributes

-----------------------------------------------------------------------------
(* Rows                                                                    *)

\* Mutant: the id of a toilet contains its row number, as in the other importer.
ExternalIdIndexed(row, i) == << Address(row), row.name, i >>

\* The hash is injective.  A smoking area also hashes its row number.
ExternalId(row, i) ==
  << Address(row), row.name, IF kind = "toilets" THEN 0 ELSE i >>

\* What a row stands for, wherever it is listed.
Place(row) == << Address(row), row.name >>

InDistrict(row) == kind = "toilets" => {row.road, row.lot} \cap Mapo # {}

\* Mutant: coordinates outside Korea are not looked at.
HasCoords(row) == kind = "toilets" /\ row.coords # << >>

HasValidCoords(row) ==
  /\ kind = "toilets" /\ row.coords # << >>
  /\ row.coords[1] \in 33..39 /\ row.coords[2] \in 124..132

\* What the geocoder may do: find the address, not find it, or raise.
Answers == {"found", "none", "raise"}

\* Mutant: only a success is remembered.
RememberedFound(answer) == answer = "found"

\* A failed lookup is remembered for the rest of the run, an exception is not.
Remembered(answer) == answer \in {"found", "none"}

\* _geocode(address): the answer of this run's cache, else of the geocoder.
Geocoded(t, address, answer) ==
  IF address \in DOMAIN t.cache THEN t.cache[address] ELSE answer

Asks(t, row) ==
  /\ InDistrict(row) /\ ~HasValidCoords(row)
  /\ t.geocoder /\ Address(row) # "" /\ Address(row) \notin DOMAIN t.cache

\* _normalize_async: "found" stands for a POIInput, "none" for a skipped row.
NormalizeAsync(t, row, answer) ==
  CASE ~InDistrict(row)                            -> "none"
    [] InDistrict(row) /\ HasValidCoords(row)      -> "found"
    [] InDistrict(row) /\ ~HasValidCoords(row)     ->
         IF Address(row) = "" \/ ~t.geocoder THEN "none"
         ELSE Geocoded(t, Address(row), answer)

-----------------------------------------------------------------------------
(* A run                                                                   *)

NoRun == [open |-> FALSE]

\* fetch_raw reads the listing once, before the first row.
NewRun(geocoder) ==
  [ open |-> TRUE, rows |-> listing, next |-> 1, geocoder |-> geocoder, pois |-> pois,
    dates |-> dates, cache |-> << >>, asked |-> << >>, failed |-> {}, placed |-> {},
    created |-> 0, updated |-> 0, unchanged |-> 0, errors |-> 0, no_coords |-> 0 ]

Outcome(t, id, row) ==
  CASE id \notin DOMAIN t.pois                         -> "created"
    [] id \in DOMAIN t.pois /\ (\/ t.pois[id].attributes # Attributes(row)
                                \/ t.pois[id].status # "active") -> "updated"
    [] OTHER                                           -> "unchanged"

\* The last_verified_at of a POIInput: smoking areas are given none.
AsOf(row) == IF kind = "toilets" THEN row.as_of ELSE << >>

\* Mutant: a row without changes keeps its date.
VerifiedUnlessUnchanged(t, id, row) ==
  CASE Outcome(t, id, row) = "unchanged"                      -> t.pois[id].last_verified_at
    [] Outcome(t, id, row) # "unchanged" /\ AsOf(row) # << >> -> AsOf(row)[1]
    [] OTHER                                                  -> runs + 1

\* Every re-import refreshes the date, to that of the row if it has one.
VerifiedAt(t, id, row) ==
  IF AsOf(row) # << >> THEN AsOf(row)[1] ELSE runs + 1

\* _upsert_one: by (source, external_id).
Upsert(t, id, row) ==
  LET new == [ status |-> "active", attributes |-> Attributes(row),
               last_verified_at |-> VerifiedAt(t, id, row) ]
      done == [t EXCEPT !.pois = Put(@, id, new), !.placed = @ \cup {Place(row)},
                        !.dates = Put(@, id, AsOf(row))]
  IN  CASE Outcome(t, id, row) = "created"   -> [done EXCEPT !.created = @ + 1]
        [] Outcome(t, id, row) = "updated"   -> [done EXCEPT !.updated = @ + 1]
        [] Outcome(t, id, row) = "unchanged" -> [done EXCEPT !.unchanged = @ + 1]

\* What the lookup leaves in the cache, and what the geocoder was asked and missed.
Lookup(t, row, answer) ==
  IF ~Asks(t, row) THEN t
  ELSE LET a == Address(row) IN
       [t EXCEPT !.cache = IF Remembered(answer) THEN Put(@, a, answer) ELSE @,
                 !.asked = Put(@, a, IF a \in DOMAIN @ THEN @[a] + 1 ELSE 1),
                 !.failed = IF answer = "found" THEN @ ELSE @ \cup {a}]

\* Mutant: only rows with blank coordinates are reported as skipped.
SkippedBlank(t, row) ==
  IF InDistrict(row) /\ ~HasCoords(row) /\ kind = "toilets"
  THEN [t EXCEPT !.no_coords = @ + 1] ELSE t

\* A skipped row is counted if the district and the missing coordinates say why.
Skipped(t, row) ==
  IF InDistrict(row) /\ ~HasValidCoords(row) /\ kind = "toilets"
  THEN [t EXCEPT !.no_coords = @ + 1] ELSE t

TakeRow(t, row, i, answer) ==
  LET result == NormalizeAsync(t, row, answer)
      after  == Lookup(t, row, answer)
  IN  CASE result = "found" /\ Validated(row) -> Upsert(after, ExternalId(row, i), row)
        [] result = "none"                     -> Skipped(after, row)
        [] OTHER                               -> [after EXCEPT !.errors = @ + 1]

\* _soft_delete_stale: active rows last verified before the grace period.
Swept(table) ==
  [id \in DOMAIN table |->
     IF table[id].last_verified_at < runs + 1 - GraceRuns
     THEN [table[id] EXCEPT !.status = "removed"] ELSE table[id]]

(***************************************************************************)
(* Run t could place the row of id whatever the importer keeps in mind: it *)
(* has coordinates, or no lookup of its address failed.                    *)
(***************************************************************************)
UsableRow(t, i) ==
  LET row == t.rows[i] IN
  /\ InDistrict(row)
  /\ HasValidCoords(row) \/ (t.geocoder /\ Address(row) # "" /\ Address(row) \notin t.failed)

Usable(t, id) == \E i \in DOMAIN t.rows : ExternalId(t.rows[i], i) = id /\ UsableRow(t, i)

Start(geocoder) ==
  /\ ~run.open /\ runs < MaxRuns
  /\ run' = NewRun(geocoder)
  /\ UNCHANGED << kind, listing, pois, runs, report, known, unplaced, dates >>

\* The scheduler gives only the smoking areas a geocoder, if there is a key for it.
ScheduledGeocoder(key) == kind = "smoking_areas" /\ key

\* The command line gives one to either importer.
CommandLineGeocoder(key) == key

ScheduledRun == \E key \in BOOLEAN : Start(ScheduledGeocoder(key))

\* A dry run is the same step: run() commits before the script rolls back.
CommandLineRun == \E key \in BOOLEAN : Start(CommandLineGeocoder(key))

\* The body of the loop over raw_rows, with the await on the geocoder in it.
NextRow ==
  /\ run.open /\ run.next <= Len(run.rows)
  /\ \E answer \in Answers :
       run' = [TakeRow(run, run.rows[run.next], run.next, answer) EXCEPT !.next = @ + 1]
  /\ UNCHANGED << kind, listing, pois, runs, report, known, unplaced, dates >>

\* What is stale goes, and the run commits.
FinishRun ==
  /\ run.open /\ run.next > Len(run.rows)
  /\ pois' = Swept(run.pois)
  /\ report' = [ created |-> run.created, updated |-> run.updated,
                 unchanged |-> run.unchanged, errors |-> run.errors,
                 no_coords |-> run.no_coords, asked |-> run.asked, of |-> run.rows ]
  /\ runs' = runs + 1
  /\ run' = NoRun
  /\ known' = known \cup run.placed
  /\ dates' = run.dates
  /\ unplaced' = [id \in DOMAIN run.pois |->
                    IF Usable(run, id) \/ id \notin DOMAIN unplaced THEN 0 ELSE unplaced[id] + 1]
  /\ UNCHANGED << kind, listing >>

NoReport ==
  [ created |-> 0, updated |-> 0, unchanged |-> 0, errors |-> 0, no_coords |-> 0,
    asked |-> << >>, of |-> << >> ]

\* A run that leaves the tables as they are and reports one error.
LeavesNothing ==
  /\ report' = [NoReport EXCEPT !.errors = 1]
  /\ runs' = runs + 1
  /\ run' = NoRun
  /\ unplaced' = [id \in DOMAIN unplaced |-> unplaced[id] + 1]
  /\ UNCHANGED << kind, listing, pois, known, dates >>

\* fetch_raw raises before the first row.
FetchFails == ~run.open /\ runs < MaxRuns /\ LeavesNothing

\* The COMMIT raises after the last row: its caller reports the crash.
RunCrashes == run.open /\ run.next > Len(run.rows) /\ LeavesNothing

\* The publisher reorders, adds, drops or corrects rows, between runs or during one.
Publish(rows) ==
  /\ rows # listing /\ runs < MaxRuns
  /\ listing' = rows
  /\ UNCHANGED << kind, pois, runs, run, report, known, unplaced, dates >>

Init ==
  /\ kind \in Kinds
  /\ listing \in Listings
  /\ pois = << >>
  /\ runs = 0
  /\ run = NoRun
  /\ report = NoReport
  /\ known = {}
  /\ unplaced = << >>
  /\ dates = << >>

Next ==
  \/ ScheduledRun \/ CommandLineRun \/ NextRow \/ FinishRun \/ FetchFails \/ RunCrashes
  \/ \E rows \in Listings : Publish(rows)

Spec == Init /\ [][Next]_vars

-----------------------------------------------------------------------------
(* Properties                                                              *)

\* One POI for each toilet: a run creates exactly as many as it places for the first
\* time, wherever the next snapshot lists the known ones and whatever is listed,
\* corrected or failing beside them (seoul_public_toilets.py:105).
OnePoiPerPlace ==
  [][kind = "toilets" /\ runs' # runs => report'.created = Cardinality(known' \ known)]_vars

\* A row leaves the map only after more than the grace period of runs that failed or
\* had no usable coordinates for it, or if the listing that last wrote it dates it so
\* far back.
RemovedOnlyUnplaced ==
  [][\A id \in DOMAIN pois :
       pois[id].status = "active" /\ pois'[id].status = "removed"
         => \/ unplaced'[id] > GraceRuns
            \/ dates'[id] # << >> /\ dates'[id][1] < runs' - GraceRuns]_vars

\* Repeated identical addresses do not hammer Kakao (seoul_public_toilets.py:173):
\* a run looks an address up once, and once more for each lookup that raised.
GeocoderAskedOnce ==
  \A a \in DOMAIN report.asked : report.asked[a] <= 1 + report.errors

\* The report of the toilets accounts for each row of the district: placed,
\* failed, or skipped for want of coordinates.
NothingLostSilently ==
  LET outside == {i \in DOMAIN report.of : ~InDistrict(report.of[i])}
  IN  kind = "toilets" /\ report.of # << >> =>
        report.created + report.updated + report.unchanged
          + report.errors + report.no_coords + Cardinality(outside) = Len(report.of)

=============================================================================
