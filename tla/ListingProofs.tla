----------------------------- MODULE ListingProofs -----------------------------
(***************************************************************************)
(* Theorems about Listing, for listings of any length and any rows.  What  *)
(* a run has done so far is told by the rows it has taken: each is counted *)
(* once, each that could be placed was verified by this run, and a lookup  *)
(* that is not in the cache was never made or has raised.                  *)
(***************************************************************************)
EXTENDS Listing, FiniteSetTheorems, TLAPS

\* Functions from some keys in D to values in S.
PartialFunctions(D, S) == UNION {[X -> S] : X \in SUBSET D}

Ids == Text \X Text \X Nat

Places == Text \X Text

\* The as-of date of a row: << >> if it has none.
AsOfDates == {<< >>} \cup [{1} -> Int]

PoiRow ==
  [ status : {"active", "removed"}, attributes : ToiletAttributes \cup SmokingAreaAttributes,
    last_verified_at : Int ]

Tables == PartialFunctions(Ids, PoiRow)
Caches == PartialFunctions(Text, {"found", "none"})
Counts == PartialFunctions(Text, Nat)
Dates == PartialFunctions(Ids, AsOfDates)

OpenRun ==
  [ open : {TRUE}, rows : Seq(Rows), next : Nat \ {0}, geocoder : BOOLEAN, pois : Tables,
    dates : Dates, cache : Caches, asked : Counts, failed : SUBSET Text, placed : SUBSET Places,
    created : Nat, updated : Nat, unchanged : Nat, errors : Nat, no_coords : Nat ]

Report ==
  [ created : Nat, updated : Nat, unchanged : Nat, errors : Nat, no_coords : Nat,
    asked : Counts, of : Seq(Rows) ]

TypeOK ==
  /\ kind \in Kinds /\ listing \in Listings /\ runs \in Nat
  /\ pois \in Tables /\ unplaced \in [DOMAIN pois -> Nat]
  /\ run \in OpenRun \cup {NoRun}
  /\ report \in Report
  /\ known \in SUBSET Places
  /\ dates \in Dates /\ DOMAIN dates = DOMAIN pois

-----------------------------------------------------------------------------
(* The inductive invariant                                                 *)

\* Each place that a run has put on the map still has its POI, and no other has one.
KnownAgrees ==
  kind = "toilets" =>
    \A a, b \in Text : << a, b, 0 >> \in DOMAIN pois <=> << a, b >> \in known

\* A POI has the date of the row that last wrote it.  Without one it was verified by
\* the last run that could place it, or later.
DatesAgree ==
  \A id \in DOMAIN pois :
    IF dates[id] = << >> THEN pois[id].last_verified_at + unplaced[id] >= runs
    ELSE pois[id].last_verified_at = dates[id][1]

\* What an upsert leaves under id: the date of its row, or of this run.
Fresh(t, id) ==
  t.pois[id].last_verified_at = IF t.dates[id] = << >> THEN runs + 1 ELSE t.dates[id][1]

\* A run adds POIs and verifies POIs, and leaves the others alone.
TableAgrees(t) ==
  /\ DOMAIN pois \subseteq DOMAIN t.pois /\ DOMAIN t.dates = DOMAIN t.pois
  /\ \A id \in DOMAIN t.pois :
       \/ t.pois[id].status = "active" /\ Fresh(t, id)
       \/ id \in DOMAIN pois /\ t.pois[id] = pois[id] /\ t.dates[id] = dates[id]

Taken(t) == 1..(t.next - 1)

\* A row that could be placed has been.
UsableVerified(t) ==
  \A i \in Taken(t) : UsableRow(t, i) =>
    LET id == ExternalId(t.rows[i], i)
    IN  id \in DOMAIN t.pois /\ Fresh(t, id)

PlacedAgree(t) ==
  kind = "toilets" =>
    \A a, b \in Text : << a, b, 0 >> \in DOMAIN t.pois <=> << a, b >> \in known \cup t.placed

CacheAgrees(t) == \A a \in DOMAIN t.cache : t.cache[a] = "none" => a \in t.failed

\* A lookup is remembered, unless it raised, which is one error.
AskedAgrees(t) ==
  \A a \in DOMAIN t.asked :
    t.asked[a] <= IF a \in DOMAIN t.cache THEN t.errors + 1 ELSE t.errors

Outside(t) == {i \in Taken(t) : ~InDistrict(t.rows[i])}

RowsCounted(t) ==
  kind = "toilets" =>
    t.created + t.updated + t.unchanged + t.errors + t.no_coords + Cardinality(Outside(t))
      = t.next - 1

CreatedAgrees(t) ==
  /\ IsFiniteSet(t.placed)
  /\ kind = "toilets" => t.created = Cardinality(t.placed \ known)

RunAgrees(t) ==
  /\ t.next <= Len(t.rows) + 1
  /\ TableAgrees(t) /\ UsableVerified(t) /\ PlacedAgree(t) /\ CacheAgrees(t)
  /\ AskedAgrees(t) /\ RowsCounted(t) /\ CreatedAgrees(t)

IInv ==
  /\ TypeOK /\ KnownAgrees /\ DatesAgree
  /\ run # NoRun => RunAgrees(run)
  /\ GeocoderAskedOnce /\ NothingLostSilently

-----------------------------------------------------------------------------
(* Partial functions                                                       *)

LEMMA EmptyFunction == ASSUME NEW D, NEW S PROVE << >> \in PartialFunctions(D, S)
  <1>1. << >> \in [{} -> S]
    OBVIOUS
  <1> QED
    BY <1>1 DEF PartialFunctions

LEMMA PutFacts ==
  ASSUME NEW D, NEW S, NEW f \in PartialFunctions(D, S), NEW k \in D, NEW v \in S
  PROVE  /\ Put(f, k, v) \in PartialFunctions(D, S)
         /\ DOMAIN Put(f, k, v) = DOMAIN f \cup {k}
         /\ Put(f, k, v)[k] = v
         /\ \A x \in DOMAIN f : x # k => Put(f, k, v)[x] = f[x]
  <1>1. PICK X \in SUBSET D : f \in [X -> S]
    BY DEF PartialFunctions
  <1>2. Put(f, k, v) \in [X \cup {k} -> S]
    BY <1>1 DEF Put
  <1>3. Put(f, k, v) \in PartialFunctions(D, S)
    BY <1>2 DEF PartialFunctions
  <1> QED
    BY <1>3 DEF Put

LEMMA ValueType ==
  ASSUME NEW D, NEW S, NEW f \in PartialFunctions(D, S), NEW k \in DOMAIN f
  PROVE  k \in D /\ f[k] \in S
  BY DEF PartialFunctions

-----------------------------------------------------------------------------
(* Cells                                                                   *)

LEMMA StripType == ASSUME NEW cell \in Text PROVE Strip(cell) \in Text
  BY ListingAssumption DEF Strip

LEMMA AddressType == ASSUME NEW row \in Rows PROVE Address(row) \in Text
  <1>1. row.road \in Text /\ row.lot \in Text
    BY DEF Rows
  <1> QED
    BY <1>1, StripType DEF Address

LEMMA IdType ==
  ASSUME NEW row \in Rows, NEW i \in Nat
  PROVE  ExternalId(row, i) \in Ids
  <1>1. row.name \in Text
    BY DEF Rows
  <1> QED
    BY <1>1, AddressType DEF ExternalId, Ids

LEMMA PlaceType ==
  ASSUME NEW row \in Rows
  PROVE  /\ Place(row) \in Places /\ AsOf(row) \in AsOfDates
         /\ AsOf(row) # << >> => AsOf(row)[1] \in Int
  <1>1. row.name \in Text /\ row.as_of \in AsOfDates
    BY DEF Rows, AsOfDates
  <1> QED
    BY <1>1, AddressType DEF Place, Places, AsOf, AsOfDates

\* What the importers make of a row is never refused by the schemas.
LEMMA AlwaysValid ==
  ASSUME kind \in Kinds, NEW row \in Rows
  PROVE  Validated(row) /\ Attributes(row) \in ToiletAttributes \cup SmokingAreaAttributes
  <1>1. row.detail \in Text /\ row.hours \in Text
    BY DEF Rows
  <1>2. GenderFromCounts(row) \in {"separate", "unisex", "male_only", "female_only", None}
    BY DEF GenderFromCounts
  <1>3. AccessibilityFromCounts(row) \in {"yes", "no", None}
    BY DEF AccessibilityFromCounts
  <1>4. OpeningHours(row) \in Text
    BY <1>1, ListingAssumption DEF OpeningHours
  <1>5. Truthy(row.baby) \in {"yes", "no", None}
    BY DEF Truthy
  <1>6. Enclosed(row) \in {"yes", "no", None}
    BY DEF Enclosed
  <1>7. CASE kind = "toilets"
    BY <1>2, <1>3, <1>4, <1>5, <1>7 DEF Validated, Attributes, ToiletAttributes
  <1>8. CASE kind # "toilets"
    <2>1. (IF row.hours = "" THEN None ELSE row.hours) \in Text
      BY <1>1, ListingAssumption
    <2> QED
      BY <1>6, <1>8, <2>1 DEF Validated, Attributes, SmokingAreaAttributes
  <1> QED
    BY <1>7, <1>8

-----------------------------------------------------------------------------
(* One row                                                                 *)

\* The fields of t that say what was done, other than cache, asked and failed.
Frame(t) ==
  << t.rows, t.next, t.geocoder, t.pois, t.dates, t.placed, t.created, t.updated,
     t.unchanged, t.errors, t.no_coords >>

\* What new knows of the addresses is what t knows and the answer for row.
LooksUp(t, row, answer, new) ==
  LET a == Address(row) IN
  /\ ~Asks(t, row) => new.cache = t.cache /\ new.asked = t.asked /\ new.failed = t.failed
  /\ Asks(t, row) =>
       /\ new.cache = IF answer = "raise" THEN t.cache ELSE Put(t.cache, a, answer)
       /\ new.asked = Put(t.asked, a, IF a \in DOMAIN t.asked THEN t.asked[a] + 1 ELSE 1)
       /\ new.failed = IF answer = "found" THEN t.failed ELSE t.failed \cup {a}

\* new has row in the table under id, counted and verified by this run.
PutsDown(t, row, id, new) ==
  /\ new.placed = t.placed \cup {Place(row)}
  /\ DOMAIN new.pois = DOMAIN t.pois \cup {id} /\ DOMAIN new.dates = DOMAIN t.dates \cup {id}
  /\ new.pois[id].status = "active" /\ Fresh(new, id)
  /\ \A x \in DOMAIN t.pois : x # id => new.pois[x] = t.pois[x]
  /\ \A x \in DOMAIN t.dates : x # id => new.dates[x] = t.dates[x]
  /\ new.created + new.updated + new.unchanged = t.created + t.updated + t.unchanged + 1
  /\ new.created = IF id \in DOMAIN t.pois THEN t.created ELSE t.created + 1

PutsNothingDown(t, new) ==
  /\ new.pois = t.pois /\ new.dates = t.dates /\ new.placed = t.placed
  /\ new.created = t.created /\ new.updated = t.updated /\ new.unchanged = t.unchanged

Counted(row) == InDistrict(row) /\ ~HasValidCoords(row) /\ kind = "toilets"

\* The errors and the rows without coordinates that new reports.
Reports(t, row, result, new) ==
  /\ new.errors = t.errors + (IF result = "raise" THEN 1 ELSE 0)
  /\ new.no_coords = t.no_coords + (IF result = "none" /\ Counted(row) THEN 1 ELSE 0)

\* A lookup touches what the run knows of the address, and nothing else.
LEMMA LookupFacts ==
  ASSUME NEW t \in OpenRun, NEW row \in Rows, NEW answer \in Answers
  PROVE  LET after == Lookup(t, row, answer)
         IN  after \in OpenRun /\ Frame(after) = Frame(t) /\ LooksUp(t, row, answer, after)
  <1> DEFINE after == Lookup(t, row, answer)
             a == Address(row)
             cache == IF answer = "raise" THEN t.cache ELSE Put(t.cache, a, answer)
             asked == Put(t.asked, a, IF a \in DOMAIN t.asked THEN t.asked[a] + 1 ELSE 1)
             failed == IF answer = "found" THEN t.failed ELSE t.failed \cup {a}
  <1>1. a \in Text
    BY AddressType
  <1>2. t.cache \in Caches /\ t.asked \in Counts /\ t.failed \in SUBSET Text
    BY DEF OpenRun
  <1>3. (IF a \in DOMAIN t.asked THEN t.asked[a] + 1 ELSE 1) \in Nat
    BY <1>2, ValueType DEF Counts
  <1>4. cache \in Caches
    BY <1>1, <1>2, PutFacts DEF Caches, Answers
  <1>5. asked \in Counts
    BY <1>1, <1>2, <1>3, PutFacts DEF Counts
  <1>6. failed \in SUBSET Text
    BY <1>1, <1>2
  <1>7. CASE ~Asks(t, row)
    BY <1>7 DEF Lookup, LooksUp
  <1>8. CASE Asks(t, row)
    <2>1. after = [t EXCEPT !.cache = cache, !.asked = asked, !.failed = failed]
      BY <1>8 DEF Lookup, Remembered, Answers
    <2> HIDE DEF after, cache, asked, failed
    <2>2. /\ after \in OpenRun /\ Frame(after) = Frame(t)
          /\ after.cache = cache /\ after.asked = asked /\ after.failed = failed
      BY <1>4, <1>5, <1>6, <2>1 DEF OpenRun, Frame
    <2> QED
      BY <1>8, <2>2 DEF after, cache, asked, failed, LooksUp
  <1> QED
    BY <1>7, <1>8

\* The fields that say how a row was found.
Found(t) == << t.rows, t.next, t.geocoder, t.cache, t.asked, t.failed, t.errors, t.no_coords >>

\* An upsert verifies one POI, counts it once, and leaves the others alone.
LEMMA UpsertFacts ==
  ASSUME kind \in Kinds, runs \in Nat,
         NEW t \in OpenRun, NEW id \in Ids, NEW row \in Rows
  PROVE  LET done == Upsert(t, id, row)
         IN  done \in OpenRun /\ Found(done) = Found(t) /\ PutsDown(t, row, id, done)
  <1> DEFINE done == Upsert(t, id, row)
             new == [ status |-> "active", attributes |-> Attributes(row),
                      last_verified_at |-> VerifiedAt(t, id, row) ]
             table == Put(t.pois, id, new)
             stamps == Put(t.dates, id, AsOf(row))
             placed == t.placed \cup {Place(row)}
             o == Outcome(t, id, row)
  <1>1. new \in PoiRow
    BY AlwaysValid, PlaceType DEF PoiRow, VerifiedAt
  <1>2. /\ t.pois \in Tables /\ t.dates \in Dates /\ placed \in SUBSET Places
        /\ t.created \in Nat /\ t.updated \in Nat /\ t.unchanged \in Nat
    BY PlaceType DEF OpenRun
  <1>3. o \in {"created", "updated", "unchanged"} /\ (id \in DOMAIN t.pois <=> o # "created")
    BY DEF Outcome
  <1>4. /\ new.status = "active"
        /\ new.last_verified_at = IF AsOf(row) = << >> THEN runs + 1 ELSE AsOf(row)[1]
    BY DEF VerifiedAt
  <1>5. done = CASE o = "created"   -> [t EXCEPT !.pois = table, !.placed = placed, !.dates = stamps, !.created = @ + 1]
                 [] o = "updated"   -> [t EXCEPT !.pois = table, !.placed = placed, !.dates = stamps, !.updated = @ + 1]
                 [] o = "unchanged" -> [t EXCEPT !.pois = table, !.placed = placed, !.dates = stamps, !.unchanged = @ + 1]
    BY <1>3 DEF Upsert, OpenRun
  <1> HIDE DEF done, new, placed, o
  <1>6. /\ table \in Tables /\ DOMAIN table = DOMAIN t.pois \cup {id} /\ table[id] = new
        /\ \A x \in DOMAIN t.pois : x # id => table[x] = t.pois[x]
    <2>1. t.pois \in PartialFunctions(Ids, PoiRow)
      BY <1>2 DEF Tables
    <2>2. table \in PartialFunctions(Ids, PoiRow)
      BY <1>1, <2>1, PutFacts
    <2>3. /\ DOMAIN table = DOMAIN t.pois \cup {id} /\ table[id] = new
          /\ \A x \in DOMAIN t.pois : x # id => table[x] = t.pois[x]
      BY DEF Put
    <2> QED
      BY <2>2, <2>3 DEF Tables
  <1>9. /\ stamps \in Dates /\ DOMAIN stamps = DOMAIN t.dates \cup {id}
        /\ stamps[id] = AsOf(row)
        /\ \A x \in DOMAIN t.dates : x # id => stamps[x] = t.dates[x]
    <2>1. t.dates \in PartialFunctions(Ids, AsOfDates) /\ AsOf(row) \in AsOfDates
      BY <1>2, PlaceType DEF Dates
    <2>2. Put(t.dates, id, AsOf(row)) \in PartialFunctions(Ids, AsOfDates)
      BY <2>1, PutFacts
    <2>3. /\ DOMAIN stamps = DOMAIN t.dates \cup {id} /\ stamps[id] = AsOf(row)
          /\ \A x \in DOMAIN t.dates : x # id => stamps[x] = t.dates[x]
      BY DEF Put
    <2> QED
      BY <2>2, <2>3 DEF Dates
  <1>8. table \in Tables /\ stamps \in Dates /\ placed \in SUBSET Places
    BY <1>2, <1>6, <1>9
  <1> HIDE DEF table, stamps
  <1>7. /\ done \in OpenRun /\ Found(done) = Found(t) /\ done.placed = placed /\ done.pois = table
        /\ done.dates = stamps
        /\ done.created + done.updated + done.unchanged = t.created + t.updated + t.unchanged + 1
        /\ done.created = IF o = "created" THEN t.created + 1 ELSE t.created
    <2>1. CASE o = "created"
      <3>1. done = [t EXCEPT !.pois = table, !.placed = placed, !.dates = stamps, !.created = t.created + 1] /\ t.created + 1 \in Nat
        BY <1>2, <1>5, <2>1 DEF OpenRun
      <3>2. done \in OpenRun
        BY <1>8, <3>1 DEF OpenRun
      <3>3. Found(done) = Found(t) /\ done.placed = placed /\ done.pois = table /\ done.dates = stamps
        BY <3>1 DEF OpenRun, Found
      <3>4. done.created = t.created + 1 /\ done.updated = t.updated /\ done.unchanged = t.unchanged
        BY <3>1 DEF OpenRun
      <3> QED
        BY <1>2, <2>1, <3>2, <3>3, <3>4
    <2>2. CASE o = "updated"
      <3>1. done = [t EXCEPT !.pois = table, !.placed = placed, !.dates = stamps, !.updated = t.updated + 1] /\ t.updated + 1 \in Nat
        BY <1>2, <1>5, <2>2 DEF OpenRun
      <3>2. done \in OpenRun
        BY <1>8, <3>1 DEF OpenRun
      <3>3. Found(done) = Found(t) /\ done.placed = placed /\ done.pois = table /\ done.dates = stamps
        BY <3>1 DEF OpenRun, Found
      <3>4. done.updated = t.updated + 1 /\ done.created = t.created /\ done.unchanged = t.unchanged
        BY <3>1 DEF OpenRun
      <3> QED
        BY <1>2, <2>2, <3>2, <3>3, <3>4
    <2>3. CASE o = "unchanged"
      <3>1. done = [t EXCEPT !.pois = table, !.placed = placed, !.dates = stamps, !.unchanged = t.unchanged + 1] /\ t.unchanged + 1 \in Nat
        BY <1>2, <1>5, <2>3 DEF OpenRun
      <3>2. done \in OpenRun
        BY <1>8, <3>1 DEF OpenRun
      <3>3. Found(done) = Found(t) /\ done.placed = placed /\ done.pois = table /\ done.dates = stamps
        BY <3>1 DEF OpenRun, Found
      <3>4. done.unchanged = t.unchanged + 1 /\ done.created = t.created /\ done.updated = t.updated
        BY <3>1 DEF OpenRun
      <3> QED
        BY <1>2, <2>3, <3>2, <3>3, <3>4
    <2> QED
      BY <1>3, <2>1, <2>2, <2>3
  <1> QED
    <2>1. done.pois[id] = new /\ done.dates[id] = AsOf(row)
      BY <1>6, <1>7, <1>9
    <2>2. Fresh(done, id)
      BY <1>4, <2>1 DEF Fresh
    <2> QED
      BY <1>3, <1>4, <1>6, <1>7, <1>9, <2>1, <2>2 DEF done, placed, PutsDown

LEMMA SkippedFacts ==
  ASSUME NEW t \in OpenRun, NEW row
  PROVE  LET done == Skipped(t, row)
         IN  /\ done \in OpenRun /\ done.errors = t.errors
             /\ done.no_coords = t.no_coords + (IF Counted(row) THEN 1 ELSE 0)
  <1>1. t.no_coords \in Nat /\ t.no_coords + 1 \in Nat
    BY DEF OpenRun
  <1>2. CASE Counted(row)
    <2>1. Skipped(t, row) = [t EXCEPT !.no_coords = t.no_coords + 1]
      BY <1>2 DEF Skipped, Counted
    <2>2. Skipped(t, row) \in OpenRun
      BY <1>1, <2>1 DEF OpenRun
    <2> QED
      BY <1>2, <2>1, <2>2 DEF OpenRun
  <1>3. CASE ~Counted(row)
    BY <1>1, <1>3 DEF Skipped, Counted
  <1> QED
    BY <1>2, <1>3

\* How a row is taken depends on whether it can be placed.
LEMMA TakeRowCases ==
  ASSUME kind \in Kinds, NEW t \in OpenRun, NEW row \in Rows, NEW i, NEW answer \in Answers
  PROVE  LET result == NormalizeAsync(t, row, answer)
             after == Lookup(t, row, answer)
             taken == TakeRow(t, row, i, answer)
         IN  /\ result \in {"found", "none", "raise"}
             /\ result = "found" => taken = Upsert(after, ExternalId(row, i), row)
             /\ result = "none"  => taken = Skipped(after, row)
             /\ result = "raise" => taken = [after EXCEPT !.errors = @ + 1]
  <1> DEFINE result == NormalizeAsync(t, row, answer)
  <1>1. \A a \in DOMAIN t.cache : t.cache[a] \in {"found", "none"}
    <2>1. t.cache \in PartialFunctions(Text, {"found", "none"})
      BY DEF OpenRun, Caches
    <2> QED
      BY <2>1, ValueType
  <1>2. Geocoded(t, Address(row), answer) \in {"found", "none", "raise"}
    BY <1>1 DEF Geocoded, Answers
  <1>3. result \in {"found", "none", "raise"}
    BY <1>2 DEF NormalizeAsync
  <1>4. Validated(row)
    BY AlwaysValid
  <1> HIDE DEF result
  <1> QED
    BY <1>3, <1>4 DEF TakeRow, result

\* A row of the listing that is taken by an open run.
Taking(t, row, answer) ==
  [TakeRow(t, row, t.next, answer) EXCEPT !.next = @ + 1]

LEMMA TakingFacts ==
  ASSUME kind \in Kinds, runs \in Nat,
         NEW t \in OpenRun, NEW row \in Rows, NEW answer \in Answers
  PROVE  LET new == Taking(t, row, answer)
             result == NormalizeAsync(t, row, answer)
         IN  /\ new \in OpenRun /\ result \in {"found", "none", "raise"}
             /\ new.rows = t.rows /\ new.next = t.next + 1 /\ new.geocoder = t.geocoder
             /\ LooksUp(t, row, answer, new) /\ Reports(t, row, result, new)
             /\ result = "found" => PutsDown(t, row, ExternalId(row, t.next), new)
             /\ result # "found" => PutsNothingDown(t, new)
  <1> DEFINE taken == TakeRow(t, row, t.next, answer)
             new == Taking(t, row, answer)
             after == Lookup(t, row, answer)
             result == NormalizeAsync(t, row, answer)
             id == ExternalId(row, t.next)
  <1>1. after \in OpenRun /\ Frame(after) = Frame(t) /\ LooksUp(t, row, answer, after)
    BY LookupFacts
  <1>2. /\ result \in {"found", "none", "raise"}
        /\ result = "found" => taken = Upsert(after, id, row)
        /\ result = "none"  => taken = Skipped(after, row)
        /\ result = "raise" => taken = [after EXCEPT !.errors = @ + 1]
    BY TakeRowCases
  <1>3. id \in Ids
    BY IdType DEF OpenRun
  <1>4. /\ after.rows = t.rows /\ after.next = t.next /\ after.geocoder = t.geocoder
        /\ after.pois = t.pois /\ after.dates = t.dates /\ after.placed = t.placed /\ after.created = t.created
        /\ after.updated = t.updated /\ after.unchanged = t.unchanged
        /\ after.errors = t.errors /\ after.no_coords = t.no_coords
    BY <1>1 DEF Frame
  <1>5. t.errors \in Nat /\ t.no_coords \in Nat
    BY DEF OpenRun
  <1> HIDE DEF taken, after, result, id
  <1>6. /\ taken \in OpenRun /\ taken.rows = t.rows /\ taken.next = t.next
        /\ taken.geocoder = t.geocoder
        /\ taken.cache = after.cache /\ taken.asked = after.asked /\ taken.failed = after.failed
        /\ Reports(t, row, result, taken)
        /\ result = "found" => PutsDown(t, row, id, taken)
        /\ result # "found" => PutsNothingDown(t, taken)
    <2>1. CASE result = "found"
      <3>1. taken = Upsert(after, id, row)
        BY <1>2, <2>1
      <3>2. taken \in OpenRun /\ Found(taken) = Found(after) /\ PutsDown(after, row, id, taken)
        BY <1>1, <1>3, <3>1, UpsertFacts
      <3>3. /\ taken.rows = t.rows /\ taken.next = t.next /\ taken.geocoder = t.geocoder
            /\ taken.cache = after.cache /\ taken.asked = after.asked /\ taken.failed = after.failed
            /\ taken.errors = t.errors /\ taken.no_coords = t.no_coords
        BY <1>4, <3>2 DEF Found
      <3>4. PutsDown(t, row, id, taken)
        BY <1>4, <3>2 DEF PutsDown, Fresh
      <3>5. Reports(t, row, result, taken)
        BY <1>5, <2>1, <3>3 DEF Reports
      <3> QED
        BY <2>1, <3>2, <3>3, <3>4, <3>5
    <2>2. CASE result = "none"
      <3>1. taken = Skipped(after, row)
        BY <1>2, <2>2
      <3>2. /\ taken \in OpenRun /\ taken.errors = after.errors
            /\ taken.no_coords = after.no_coords + (IF Counted(row) THEN 1 ELSE 0)
        BY <1>1, <3>1, SkippedFacts
      <3>3. /\ taken.rows = after.rows /\ taken.next = after.next /\ taken.geocoder = after.geocoder
            /\ taken.cache = after.cache /\ taken.asked = after.asked /\ taken.failed = after.failed
            /\ taken.pois = after.pois /\ taken.dates = after.dates /\ taken.placed = after.placed
            /\ taken.created = after.created /\ taken.updated = after.updated
            /\ taken.unchanged = after.unchanged
        BY <1>1, <3>1 DEF Skipped, OpenRun
      <3>4. Reports(t, row, result, taken) /\ PutsNothingDown(t, taken)
        BY <1>4, <1>5, <2>2, <3>2, <3>3 DEF Reports, PutsNothingDown
      <3> QED
        BY <1>4, <2>2, <3>2, <3>3, <3>4
    <2>3. CASE result = "raise"
      <3>1. taken = [after EXCEPT !.errors = t.errors + 1]
        BY <1>2, <1>4, <2>3
      <3>2. taken \in OpenRun /\ taken.errors = t.errors + 1
        <4>1. t.errors + 1 \in Nat
          BY <1>5
        <4> QED
          BY <1>1, <3>1, <4>1 DEF OpenRun
      <3>3. /\ taken.rows = after.rows /\ taken.next = after.next /\ taken.geocoder = after.geocoder
            /\ taken.cache = after.cache /\ taken.asked = after.asked /\ taken.failed = after.failed
            /\ taken.pois = after.pois /\ taken.dates = after.dates /\ taken.placed = after.placed
            /\ taken.created = after.created /\ taken.updated = after.updated
            /\ taken.unchanged = after.unchanged /\ taken.no_coords = after.no_coords
        BY <1>1, <3>1 DEF OpenRun
      <3>4. Reports(t, row, result, taken) /\ PutsNothingDown(t, taken)
        BY <1>4, <1>5, <2>3, <3>2, <3>3 DEF Reports, PutsNothingDown
      <3> QED
        BY <1>4, <2>3, <3>2, <3>3, <3>4
    <2> QED
      BY <1>2, <2>1, <2>2, <2>3
  <1>7. new = [taken EXCEPT !.next = t.next + 1]
    BY <1>6 DEF Taking, taken
  <1> HIDE DEF new
  <1>8. /\ new \in OpenRun /\ new.next = t.next + 1
        /\ new.rows = taken.rows /\ new.geocoder = taken.geocoder
        /\ new.cache = taken.cache /\ new.asked = taken.asked /\ new.failed = taken.failed
        /\ new.pois = taken.pois /\ new.dates = taken.dates /\ new.placed = taken.placed /\ new.created = taken.created
        /\ new.updated = taken.updated /\ new.unchanged = taken.unchanged
        /\ new.errors = taken.errors /\ new.no_coords = taken.no_coords
    <2>1. t.next + 1 \in Nat \ {0}
      BY DEF OpenRun
    <2> QED
      BY <1>6, <1>7, <2>1 DEF OpenRun
  <1>9. LooksUp(t, row, answer, new)
    BY <1>1, <1>6, <1>8 DEF LooksUp
  <1>10. Reports(t, row, result, new)
    BY <1>6, <1>8 DEF Reports
  <1>11. /\ result = "found" => PutsDown(t, row, id, new)
         /\ result # "found" => PutsNothingDown(t, new)
    BY <1>6, <1>8 DEF PutsDown, PutsNothingDown, Fresh
  <1> QED
    BY <1>2, <1>6, <1>8, <1>9, <1>10, <1>11 DEF new, result, id

-----------------------------------------------------------------------------
(* A row keeps the invariant                                               *)

\* The answer for a row that is looked up is the geocoder's, or the one before.
LEMMA ResultFacts ==
  ASSUME NEW t \in OpenRun, NEW row \in Rows, NEW answer \in Answers
  PROVE  LET result == NormalizeAsync(t, row, answer)
             a == Address(row)
         IN  /\ ~InDistrict(row) => result = "none"
             /\ InDistrict(row) /\ HasValidCoords(row) => result = "found"
             /\ Asks(t, row) => result = answer
             /\ InDistrict(row) /\ ~HasValidCoords(row) /\ t.geocoder /\ a # ""
                  /\ a \in DOMAIN t.cache => result = t.cache[a]
  BY DEF NormalizeAsync, Asks, Geocoded

\* What the run has done so far, after one more row.
LEMMA RowKeepsTable ==
  ASSUME TypeOK, KnownAgrees, NEW t \in OpenRun, RunAgrees(t), t.next \in 1..Len(t.rows),
         NEW answer \in Answers
  PROVE  LET new == Taking(t, t.rows[t.next], answer)
         IN  TableAgrees(new) /\ PlacedAgree(new) /\ CreatedAgrees(new)
  <1> DEFINE row == t.rows[t.next]
             new == Taking(t, row, answer)
             id == ExternalId(row, t.next)
             result == NormalizeAsync(t, row, answer)
  <1>1. row \in Rows
    BY DEF OpenRun
  <1>2. kind \in Kinds /\ runs \in Nat
    BY DEF TypeOK
  <1> HIDE DEF row
  <1>3. /\ new.rows = t.rows /\ result \in {"found", "none", "raise"}
        /\ result = "found" => PutsDown(t, row, id, new)
        /\ result # "found" => PutsNothingDown(t, new)
    BY <1>1, <1>2, TakingFacts
  <1>4. /\ kind = "toilets" => id = << Address(row), row.name, 0 >>
        /\ Place(row) = << Address(row), row.name >>
        /\ Address(row) \in Text /\ row.name \in Text
    <2>1. row.name \in Text
      BY <1>1 DEF Rows
    <2> QED
      BY <1>1, <2>1, AddressType DEF ExternalId, Place
  <1>5. row = t.rows[t.next]
    BY DEF row
  <1> DEFINE place == Place(row)
  <1> HIDE DEF new, id, result, place
  <1>6. TableAgrees(new)
    <2>1. TableAgrees(t)
      BY DEF RunAgrees
    <2>2. CASE result = "found"
      <3>1. PutsDown(t, row, id, new)
        BY <1>3, <2>2
      <3>2. ASSUME NEW x \in DOMAIN new.pois
            PROVE  \/ new.pois[x].status = "active" /\ Fresh(new, x)
                   \/ x \in DOMAIN pois /\ new.pois[x] = pois[x] /\ new.dates[x] = dates[x]
        <4>1. CASE x = id
          BY <3>1, <4>1 DEF PutsDown
        <4>2. CASE x # id
          <5>1. /\ x \in DOMAIN t.pois /\ new.pois[x] = t.pois[x] /\ new.dates[x] = t.dates[x]
            BY <2>1, <3>1, <3>2, <4>2 DEF PutsDown, TableAgrees
          <5> QED
            BY <2>1, <5>1 DEF TableAgrees, Fresh
        <4> QED
          BY <4>1, <4>2
      <3> QED
        BY <2>1, <3>1, <3>2 DEF TableAgrees, PutsDown
    <2>3. CASE result # "found"
      BY <1>3, <2>1, <2>3 DEF PutsNothingDown, TableAgrees, Fresh
    <2> QED
      BY <2>2, <2>3
  <1>7. PlacedAgree(new)
    <2> SUFFICES ASSUME kind = "toilets", NEW a \in Text, NEW b \in Text
                 PROVE  << a, b, 0 >> \in DOMAIN new.pois <=> << a, b >> \in known \cup new.placed
      BY DEF PlacedAgree
    <2>1. << a, b, 0 >> \in DOMAIN t.pois <=> << a, b >> \in known \cup t.placed
      BY DEF RunAgrees, PlacedAgree
    <2>2. CASE result = "found"
      <3>1. DOMAIN new.pois = DOMAIN t.pois \cup {id} /\ new.placed = t.placed \cup {place}
        BY <1>3, <2>2 DEF PutsDown, place
      <3>2. << a, b, 0 >> = id <=> << a, b >> = place
        BY <1>4 DEF place
      <3> QED
        BY <2>1, <3>1, <3>2
    <2>3. CASE result # "found"
      BY <1>3, <2>1, <2>3 DEF PutsNothingDown
    <2> QED
      BY <2>2, <2>3
  <1>8. CreatedAgrees(new)
    <2>1. CreatedAgrees(t) /\ PlacedAgree(t)
      BY DEF RunAgrees
    <2>2. CASE result = "found"
      <3>1. /\ new.placed = t.placed \cup {place}
            /\ new.created = IF id \in DOMAIN t.pois THEN t.created ELSE t.created + 1
        BY <1>3, <2>2 DEF PutsDown, place
      <3>2. IsFiniteSet(new.placed)
        BY <2>1, <3>1, FS_AddElement DEF CreatedAgrees
      <3>3. ASSUME kind = "toilets" PROVE new.created = Cardinality(new.placed \ known)
        <4>1. id \in DOMAIN t.pois <=> place \in known \cup t.placed
          BY <1>4, <2>1, <3>3 DEF PlacedAgree, place
        <4>2. t.created = Cardinality(t.placed \ known) /\ IsFiniteSet(t.placed \ known)
          BY <2>1, <3>3, FS_Subset DEF CreatedAgrees
        <4>3. CASE place \in known \cup t.placed
          <5>1. new.placed \ known = t.placed \ known
            BY <3>1, <4>3
          <5> QED
            BY <3>1, <4>1, <4>2, <4>3, <5>1
        <4>4. CASE place \notin known \cup t.placed
          <5>1. new.placed \ known = (t.placed \ known) \cup {place} /\ place \notin t.placed \ known
            BY <3>1, <4>4
          <5>2. Cardinality((t.placed \ known) \cup {place}) = Cardinality(t.placed \ known) + 1
            BY <4>2, <5>1, FS_AddElement
          <5> QED
            BY <3>1, <4>1, <4>2, <4>4, <5>1, <5>2
        <4> QED
          BY <4>3, <4>4
      <3> QED
        BY <3>2, <3>3 DEF CreatedAgrees
    <2>3. CASE result # "found"
      BY <1>3, <2>1, <2>3 DEF PutsNothingDown, CreatedAgrees
    <2> QED
      BY <2>2, <2>3
  <1> QED
    BY <1>6, <1>7, <1>8 DEF new, row

LEMMA RowKeepsLookups ==
  ASSUME TypeOK, NEW t \in OpenRun, RunAgrees(t), t.next \in 1..Len(t.rows),
         NEW answer \in Answers
  PROVE  LET new == Taking(t, t.rows[t.next], answer)
         IN  CacheAgrees(new) /\ AskedAgrees(new)
  <1> DEFINE row == t.rows[t.next]
             new == Taking(t, row, answer)
             a == Address(row)
             asked == IF a \in DOMAIN t.asked THEN t.asked[a] + 1 ELSE 1
             result == NormalizeAsync(t, row, answer)
  <1>1. row \in Rows
    BY DEF OpenRun
  <1>2. kind \in Kinds /\ runs \in Nat
    BY DEF TypeOK
  <1> HIDE DEF row
  <1>3. /\ result \in {"found", "none", "raise"}
        /\ LooksUp(t, row, answer, new) /\ Reports(t, row, result, new)
    BY <1>1, <1>2, TakingFacts
  <1>4. t.errors \in Nat /\ \A b \in DOMAIN t.asked : t.asked[b] \in Nat
    <2>1. t.errors \in Nat /\ t.asked \in PartialFunctions(Text, Nat)
      BY DEF OpenRun, Counts
    <2> QED
      BY <2>1, ValueType
  <1>5. /\ ~Asks(t, row) => new.cache = t.cache /\ new.asked = t.asked /\ new.failed = t.failed
        /\ Asks(t, row) =>
             /\ new.cache = IF answer = "raise" THEN t.cache ELSE Put(t.cache, a, answer)
             /\ new.asked = Put(t.asked, a, asked)
             /\ new.failed = IF answer = "found" THEN t.failed ELSE t.failed \cup {a}
        /\ result = "raise" => new.errors = t.errors + 1
        /\ result # "raise" => new.errors = t.errors
    BY <1>4, <1>3 DEF LooksUp, Reports
  <1>6. Asks(t, row) => result = answer /\ a \notin DOMAIN t.cache
    BY <1>1, ResultFacts DEF Asks
  <1>7. /\ \A b \in DOMAIN t.cache : t.cache[b] = "none" => b \in t.failed
        /\ \A b \in DOMAIN t.asked :
             t.asked[b] <= IF b \in DOMAIN t.cache THEN t.errors + 1 ELSE t.errors
    BY DEF RunAgrees, CacheAgrees, AskedAgrees
  <1> HIDE DEF new, a, result
  <1>8. CASE ~Asks(t, row)
    <2>1. /\ new.cache = t.cache /\ new.asked = t.asked /\ new.failed = t.failed
          /\ new.errors \in {t.errors, t.errors + 1}
      BY <1>5, <1>8
    <2>2. CacheAgrees(new)
      BY <1>7, <2>1 DEF CacheAgrees
    <2>3. AskedAgrees(new)
      BY <1>4, <1>7, <2>1 DEF AskedAgrees
    <2> QED
      BY <2>2, <2>3 DEF new, row
  <1>9. CASE Asks(t, row)
    <2>1. asked \in Nat /\ asked <= t.errors + 1
      BY <1>6, <1>4, <1>7, <1>9
    <2> HIDE DEF asked
    <2>2. /\ DOMAIN new.asked = DOMAIN t.asked \cup {a} /\ new.asked[a] = asked
          /\ \A b \in DOMAIN t.asked : b # a => new.asked[b] = t.asked[b]
      BY <1>5, <1>9 DEF Put
    <2>3. CASE answer = "raise"
      <3>1. /\ new.cache = t.cache /\ new.errors = t.errors + 1
            /\ t.failed \subseteq new.failed
        BY <1>5, <1>6, <1>9, <2>3
      <3>2. CacheAgrees(new)
        BY <1>7, <3>1 DEF CacheAgrees
      <3>3. AskedAgrees(new)
        BY <1>6, <1>4, <1>7, <1>9, <2>1, <2>2, <3>1 DEF AskedAgrees
      <3> QED
        BY <3>2, <3>3 DEF new, row
    <2>4. CASE answer # "raise"
      <3>1. /\ new.cache = Put(t.cache, a, answer) /\ new.errors = t.errors
            /\ new.failed = IF answer = "found" THEN t.failed ELSE t.failed \cup {a}
        BY <1>5, <1>6, <1>9, <2>4
      <3>2. /\ DOMAIN new.cache = DOMAIN t.cache \cup {a} /\ new.cache[a] = answer
            /\ \A b \in DOMAIN t.cache : b # a => new.cache[b] = t.cache[b]
        BY <3>1 DEF Put
      <3>3. CacheAgrees(new)
        BY <1>7, <3>1, <3>2 DEF CacheAgrees
      <3>4. AskedAgrees(new)
        BY <1>4, <1>7, <2>1, <2>2, <3>1, <3>2 DEF AskedAgrees
      <3> QED
        BY <3>3, <3>4 DEF new, row
    <2> QED
      BY <2>3, <2>4
  <1> QED
    BY <1>8, <1>9

LEMMA RowKeepsUsable ==
  ASSUME TypeOK, NEW t \in OpenRun, RunAgrees(t), t.next \in 1..Len(t.rows),
         NEW answer \in Answers
  PROVE  UsableVerified(Taking(t, t.rows[t.next], answer))
  <1> DEFINE row == t.rows[t.next]
             new == Taking(t, row, answer)
             result == NormalizeAsync(t, row, answer)
  <1>1. row \in Rows /\ t.next \in Nat
    BY DEF OpenRun
  <1>2. kind \in Kinds /\ runs \in Nat
    BY DEF TypeOK
  <1>3. row = t.rows[t.next]
    OBVIOUS
  <1> HIDE DEF row
  <1>4. /\ new.rows = t.rows /\ new.next = t.next + 1 /\ new.geocoder = t.geocoder
        /\ LooksUp(t, row, answer, new)
        /\ result = "found" => PutsDown(t, row, ExternalId(row, t.next), new)
        /\ result # "found" => PutsNothingDown(t, new)
    BY <1>1, <1>2, TakingFacts
  <1>5. t.failed \subseteq new.failed
    BY <1>4 DEF LooksUp
  <1>6. /\ Asks(t, row) => result = answer
        /\ InDistrict(row) /\ HasValidCoords(row) => result = "found"
        /\ InDistrict(row) /\ ~HasValidCoords(row) /\ t.geocoder /\ Address(row) # ""
             /\ Address(row) \in DOMAIN t.cache => result = t.cache[Address(row)]
    BY <1>1, ResultFacts
  <1>7. \A a \in DOMAIN t.cache : t.cache[a] # "found" => a \in t.failed
    <2>1. t.cache \in PartialFunctions(Text, {"found", "none"})
      BY DEF OpenRun, Caches
    <2>2. \A a \in DOMAIN t.cache : t.cache[a] \in {"found", "none"}
      BY <2>1, ValueType
    <2> QED
      BY <2>2 DEF RunAgrees, CacheAgrees
  <1>8. Asks(t, row) /\ answer # "found" => Address(row) \in new.failed
    BY <1>4 DEF LooksUp
  <1> HIDE DEF new, result
  <1>9. UsableRow(new, t.next) => result = "found"
    <2> SUFFICES ASSUME UsableRow(new, t.next), ~HasValidCoords(row)
                 PROVE  result = "found"
      BY <1>3, <1>4, <1>6 DEF UsableRow
    <2>1. /\ InDistrict(row) /\ t.geocoder /\ Address(row) # ""
          /\ Address(row) \notin new.failed
      BY <1>3, <1>4 DEF UsableRow
    <2>2. CASE Address(row) \in DOMAIN t.cache
      BY <1>5, <1>6, <1>7, <2>1, <2>2
    <2>3. CASE Address(row) \notin DOMAIN t.cache
      <3>1. Asks(t, row)
        BY <2>1, <2>3 DEF Asks
      <3> QED
        BY <1>6, <1>8, <2>1, <3>1
    <2> QED
      BY <2>2, <2>3
  <1>10. ASSUME NEW i \in Taken(new), UsableRow(new, i)
         PROVE  LET id == ExternalId(new.rows[i], i)
                IN  id \in DOMAIN new.pois /\ Fresh(new, id)
    <2>1. CASE i = t.next
      <3>1. new.rows[i] = row /\ result = "found"
        BY <1>3, <1>4, <1>9, <1>10, <2>1
      <3> QED
        BY <1>4, <2>1, <3>1 DEF PutsDown
    <2>2. CASE i # t.next
      <3>1. i \in Taken(t)
        BY <1>1, <1>4, <1>10, <2>2 DEF Taken
      <3>2. UsableRow(t, i)
        BY <1>4, <1>5, <1>10 DEF UsableRow
      <3>3. LET id == ExternalId(t.rows[i], i)
            IN  id \in DOMAIN t.pois /\ Fresh(t, id)
        BY <3>1, <3>2 DEF RunAgrees, UsableVerified
      <3>4. ExternalId(t.rows[i], i) \in DOMAIN t.dates
        BY <3>3 DEF RunAgrees, TableAgrees
      <3> DEFINE x == ExternalId(t.rows[i], i)
                 y == ExternalId(row, t.next)
      <3>5. x \in DOMAIN t.pois /\ Fresh(t, x) /\ x \in DOMAIN t.dates
        BY <3>3, <3>4
      <3>6. new.rows[i] = t.rows[i]
        BY <1>4
      <3>7. result = "found" => PutsDown(t, row, y, new)
        BY <1>4
      <3> HIDE DEF x, y
      <3>8. ASSUME result = "found" /\ x = y
            PROVE  x \in DOMAIN new.pois /\ Fresh(new, x)
        BY <3>7, <3>8 DEF PutsDown
      <3>9. ASSUME result = "found" /\ x # y
            PROVE  x \in DOMAIN new.pois /\ Fresh(new, x)
        <4>1. x \in DOMAIN new.pois /\ new.pois[x] = t.pois[x] /\ new.dates[x] = t.dates[x]
          BY <3>5, <3>7, <3>9 DEF PutsDown
        <4> QED
          BY <3>5, <4>1 DEF Fresh
      <3>10. ASSUME result # "found"
             PROVE  x \in DOMAIN new.pois /\ Fresh(new, x)
        BY <1>4, <3>5, <3>10 DEF PutsNothingDown, Fresh
      <3>11. x \in DOMAIN new.pois /\ Fresh(new, x)
        BY <3>8, <3>9, <3>10
      <3> QED
        BY <3>6, <3>11 DEF x
    <2> QED
      BY <2>1, <2>2
  <1> QED
    BY <1>10 DEF UsableVerified, new, row

LEMMA RowKeepsCounts ==
  ASSUME TypeOK, NEW t \in OpenRun, RunAgrees(t), t.next \in 1..Len(t.rows),
         NEW answer \in Answers
  PROVE  RowsCounted(Taking(t, t.rows[t.next], answer))
  <1> DEFINE row == t.rows[t.next]
             new == Taking(t, row, answer)
             result == NormalizeAsync(t, row, answer)
  <1>1. row \in Rows /\ t.next \in Nat \ {0}
    BY DEF OpenRun
  <1>2. kind \in Kinds /\ runs \in Nat
    BY DEF TypeOK
  <1>3. row = t.rows[t.next]
    OBVIOUS
  <1> HIDE DEF row
  <1>4. /\ new \in OpenRun /\ new.rows = t.rows /\ new.next = t.next + 1
        /\ Reports(t, row, result, new) /\ result \in {"found", "none", "raise"}
        /\ result = "found" => PutsDown(t, row, ExternalId(row, t.next), new)
        /\ result # "found" => PutsNothingDown(t, new)
    BY <1>1, <1>2, TakingFacts
  <1>5. /\ ~InDistrict(row) => result = "none"
        /\ InDistrict(row) /\ HasValidCoords(row) => result = "found"
    BY <1>1, ResultFacts
  <1> HIDE DEF new, result
  <1> SUFFICES ASSUME kind = "toilets"
               PROVE  new.created + new.updated + new.unchanged + new.errors + new.no_coords
                        + Cardinality(Outside(new)) = new.next - 1
    BY DEF RowsCounted, new, row
  <1>6. IsFiniteSet(Outside(t)) /\ Cardinality(Outside(t)) \in Nat /\ t.next \notin Outside(t)
    <2>1. IsFiniteSet(Taken(t))
      BY <1>1, FS_Interval DEF Taken
    <2> QED
      BY <1>1, <2>1, FS_Subset, FS_CardinalityType DEF Outside, Taken
  <1>7. Outside(new) = IF InDistrict(row) THEN Outside(t) ELSE Outside(t) \cup {t.next}
    <2>1. Taken(new) = Taken(t) \cup {t.next}
      BY <1>1, <1>4 DEF Taken
    <2> QED
      BY <1>3, <1>4, <2>1 DEF Outside
  <1>8. Cardinality(Outside(new)) = Cardinality(Outside(t)) + (IF InDistrict(row) THEN 0 ELSE 1)
    <2>1. Cardinality(Outside(t) \cup {t.next}) = Cardinality(Outside(t)) + 1
      BY <1>6, FS_AddElement
    <2> QED
      BY <1>6, <1>7, <2>1
  <1>9. new.created + new.updated + new.unchanged
          = t.created + t.updated + t.unchanged + (IF result = "found" THEN 1 ELSE 0)
    <2>1. CASE result = "found"
      <3>1. PutsDown(t, row, ExternalId(row, t.next), new)
        BY <1>4, <2>1
      <3> QED
        BY <2>1, <3>1 DEF PutsDown
    <2>2. CASE result # "found"
      <3>1. /\ new.created = t.created /\ new.updated = t.updated
            /\ new.unchanged = t.unchanged
        BY <1>4, <2>2 DEF PutsNothingDown
      <3>2. t.created + t.updated + t.unchanged \in Nat
        BY DEF OpenRun
      <3> QED
        BY <2>2, <3>1, <3>2
    <2> QED
      BY <2>1, <2>2
  <1>10. /\ new.errors = t.errors + (IF result = "raise" THEN 1 ELSE 0)
         /\ new.no_coords = t.no_coords + (IF result = "none" /\ InDistrict(row) THEN 1 ELSE 0)
    BY <1>4, <1>5 DEF Reports, Counted
  <1>11. t.created + t.updated + t.unchanged + t.errors + t.no_coords + Cardinality(Outside(t))
           = t.next - 1
    BY DEF RunAgrees, RowsCounted
  <1>12. /\ t.created \in Nat /\ t.updated \in Nat /\ t.unchanged \in Nat
         /\ t.errors \in Nat /\ t.no_coords \in Nat
         /\ new.created \in Nat /\ new.updated \in Nat /\ new.unchanged \in Nat
    BY <1>4 DEF OpenRun
  <1> DEFINE placed  == t.created + t.updated + t.unchanged
             failed  == t.errors
             skipped == t.no_coords
             outside == Cardinality(Outside(t))
             count   == t.next - 1
  <1>13. placed \in Nat /\ failed \in Nat /\ skipped \in Nat /\ outside \in Nat /\ count \in Int
    <2>1. placed \in Nat
      BY <1>12
    <2>2. count \in Int
      BY <1>1
    <2> QED
      BY <1>6, <1>12, <2>1, <2>2
  <1>14. placed + failed + skipped + outside = count
    BY <1>11
  <1>15. new.next - 1 = count + 1
    BY <1>1, <1>4
  <1> HIDE DEF placed, failed, skipped, outside, count
  <1>16. new.created + new.updated + new.unchanged + new.errors + new.no_coords
           + Cardinality(Outside(new)) = count + 1
    <2>1. CASE ~InDistrict(row)
      <3>1. /\ new.created + new.updated + new.unchanged = placed
            /\ new.errors = failed /\ new.no_coords = skipped
            /\ Cardinality(Outside(new)) = outside + 1
        BY <1>5, <1>8, <1>9, <1>10, <1>12, <1>13, <2>1 DEF placed, failed, skipped, outside
      <3>2. placed + failed + skipped + (outside + 1) = count + 1
        BY <1>13, <1>14
      <3> QED
        BY <3>1, <3>2
    <2>2. CASE InDistrict(row) /\ result = "found"
      <3>1. /\ new.created + new.updated + new.unchanged = placed + 1
            /\ new.errors = failed /\ new.no_coords = skipped
            /\ Cardinality(Outside(new)) = outside
        BY <1>8, <1>9, <1>10, <1>12, <1>13, <2>2 DEF placed, failed, skipped, outside
      <3>2. (placed + 1) + failed + skipped + outside = count + 1
        BY <1>13, <1>14
      <3> QED
        BY <3>1, <3>2
    <2>3. CASE InDistrict(row) /\ result = "none"
      <3>1. /\ new.created + new.updated + new.unchanged = placed
            /\ new.errors = failed /\ new.no_coords = skipped + 1
            /\ Cardinality(Outside(new)) = outside
        BY <1>8, <1>9, <1>10, <1>12, <1>13, <2>3 DEF placed, failed, skipped, outside
      <3>2. placed + failed + (skipped + 1) + outside = count + 1
        BY <1>13, <1>14
      <3> QED
        BY <3>1, <3>2
    <2>4. CASE InDistrict(row) /\ result = "raise"
      <3>1. /\ new.created + new.updated + new.unchanged = placed
            /\ new.errors = failed + 1 /\ new.no_coords = skipped
            /\ Cardinality(Outside(new)) = outside
        BY <1>8, <1>9, <1>10, <1>12, <1>13, <2>4 DEF placed, failed, skipped, outside
      <3>2. placed + (failed + 1) + skipped + outside = count + 1
        BY <1>13, <1>14
      <3> QED
        BY <3>1, <3>2
    <2> QED
      BY <1>4, <2>1, <2>2, <2>3, <2>4
  <1> QED
    BY <1>15, <1>16

\* While the tables stay, what is said of a run stays true.
LEMMA RunStays ==
  ASSUME UNCHANGED << kind, pois, runs, known, dates >>, NEW t, RunAgrees(t), run' = t
  PROVE  RunAgrees(run)'
  <1>1. TableAgrees(run)' /\ CacheAgrees(run)' /\ AskedAgrees(run)'
    <2>1. TableAgrees(run)'
      BY DEF RunAgrees, TableAgrees, Fresh
    <2>2. CacheAgrees(run)'
      BY DEF RunAgrees, CacheAgrees
    <2>3. AskedAgrees(run)'
      BY DEF RunAgrees, AskedAgrees
    <2> QED
      BY <2>1, <2>2, <2>3
  <1>2. UsableVerified(run)'
    BY DEF RunAgrees, UsableVerified, Fresh, Taken, UsableRow, ExternalId, InDistrict,
           HasValidCoords
  <1>3. PlacedAgree(run)'
    BY DEF RunAgrees, PlacedAgree
  <1>4. RowsCounted(run)'
    <2>1. Outside(run)' = Outside(t)
      BY DEF Outside, Taken, InDistrict
    <2> QED
      BY <2>1 DEF RunAgrees, RowsCounted
  <1>5. CreatedAgrees(run)'
    BY DEF RunAgrees, CreatedAgrees
  <1> QED
    BY <1>1, <1>2, <1>3, <1>4, <1>5 DEF RunAgrees

-----------------------------------------------------------------------------
(* Every step keeps the invariant                                          *)

LEMMA NoRunIsClosed == NoRun.open = FALSE /\ NoRun \notin OpenRun
  BY DEF NoRun, OpenRun

LEMMA EmptyOutside == Cardinality({}) = 0
  BY FS_EmptySet

LEMMA NoReportFacts ==
  /\ NoReport \in Report /\ [NoReport EXCEPT !.errors = 1] \in Report
  /\ NoReport.of = << >> /\ DOMAIN NoReport.asked = {}
  /\ [NoReport EXCEPT !.errors = 1].of = << >>
  /\ DOMAIN [NoReport EXCEPT !.errors = 1].asked = {}
  <1>1. << >> \in Counts
    BY EmptyFunction DEF Counts
  <1>2. << >> \in Seq(Rows) /\ DOMAIN << >> = {}
    OBVIOUS
  <1> QED
    BY <1>1, <1>2 DEF NoReport, Report

LEMMA InitIInv == Init => IInv
  <1> SUFFICES ASSUME Init PROVE IInv
    OBVIOUS
  <1>1. /\ << >> \in Tables /\ << >> \in Dates /\ DOMAIN << >> = {}
        /\ << >> \in [DOMAIN << >> -> Nat]
    BY EmptyFunction DEF Tables, Dates
  <1>2. TypeOK
    BY <1>1, NoReportFacts DEF Init, TypeOK
  <1>3. KnownAgrees /\ DatesAgree
    BY <1>1 DEF Init, KnownAgrees, DatesAgree
  <1>4. GeocoderAskedOnce /\ NothingLostSilently
    BY NoReportFacts DEF Init, GeocoderAskedOnce, NothingLostSilently
  <1> QED
    BY <1>2, <1>3, <1>4 DEF Init, IInv

\* Only an end of a run touches what outlives the runs.
LEMMA LastingStays ==
  ASSUME IInv, UNCHANGED << kind, pois, runs, report, known, unplaced, dates >>,
         listing' \in Listings, run' \in OpenRun \cup {NoRun}
  PROVE  /\ TypeOK' /\ KnownAgrees' /\ DatesAgree' /\ GeocoderAskedOnce' /\ NothingLostSilently'
  <1>1. TypeOK'
    BY DEF IInv, TypeOK
  <1>2. KnownAgrees' /\ DatesAgree'
    BY DEF IInv, KnownAgrees, DatesAgree
  <1>3. GeocoderAskedOnce' /\ NothingLostSilently'
    BY DEF IInv, GeocoderAskedOnce, NothingLostSilently, InDistrict
  <1> QED
    BY <1>1, <1>2, <1>3

LEMMA StartStep ==
  ASSUME IInv, NEW geocoder \in BOOLEAN, Start(geocoder)
  PROVE  IInv'
  <1> DEFINE t == NewRun(geocoder)
  <1>1. /\ run' = t
        /\ UNCHANGED << kind, listing, pois, runs, report, known, unplaced, dates >>
    BY DEF Start
  <1>2. listing \in Listings /\ listing \in Seq(Rows) /\ pois \in Tables /\ dates \in Dates
    BY ListingAssumption DEF IInv, TypeOK
  <1>3. << >> \in Caches /\ << >> \in Counts /\ DOMAIN << >> = {}
    BY EmptyFunction DEF Caches, Counts
  <1>4. t \in OpenRun
    BY <1>2, <1>3 DEF NewRun, OpenRun
  <1>5. /\ t.rows = listing /\ t.next = 1 /\ t.pois = pois /\ t.dates = dates /\ t.cache = << >> /\ t.asked = << >>
        /\ t.placed = {} /\ t.created = 0 /\ t.updated = 0 /\ t.unchanged = 0
        /\ t.errors = 0 /\ t.no_coords = 0
    BY DEF NewRun
  <1> HIDE DEF t
  <1>6. Taken(t) = {} /\ Outside(t) = {}
    BY <1>5 DEF Taken, Outside
  <1>7. RunAgrees(t)
    <2>1. t.next <= Len(t.rows) + 1
      BY <1>2, <1>5
    <2>2. TableAgrees(t) /\ UsableVerified(t) /\ PlacedAgree(t) /\ CreatedAgrees(t)
      <3>1. TableAgrees(t) /\ UsableVerified(t)
        BY <1>5, <1>6 DEF IInv, TypeOK, TableAgrees, UsableVerified
      <3>2. PlacedAgree(t)
        BY <1>5 DEF IInv, KnownAgrees, PlacedAgree
      <3>3. CreatedAgrees(t)
        BY <1>5, FS_EmptySet DEF CreatedAgrees
      <3> QED
        BY <3>1, <3>2, <3>3
    <2>3. CacheAgrees(t) /\ AskedAgrees(t)
      BY <1>3, <1>5 DEF CacheAgrees, AskedAgrees
    <2>4. RowsCounted(t)
      BY <1>5, <1>6, EmptyOutside DEF RowsCounted
    <2> QED
      BY <2>1, <2>2, <2>3, <2>4 DEF RunAgrees
  <1>8. RunAgrees(run)'
    BY <1>1, <1>7, RunStays
  <1> QED
    BY <1>1, <1>2, <1>4, <1>8, LastingStays DEF IInv

LEMMA NextRowStep ==
  ASSUME IInv, NextRow
  PROVE  IInv'
  <1>1. /\ run \in OpenRun /\ RunAgrees(run) /\ TypeOK /\ KnownAgrees
        /\ run.next \in 1..Len(run.rows)
    <2>1. run.open /\ run \in OpenRun \cup {NoRun}
      BY DEF NextRow, IInv, TypeOK
    <2>2. run \in OpenRun /\ run # NoRun
      BY <2>1, NoRunIsClosed
    <2>3. run.next \in Nat \ {0} /\ Len(run.rows) \in Nat
      BY <2>2 DEF OpenRun
    <2> QED
      BY <2>2, <2>3 DEF NextRow, IInv
  <1>2. PICK answer \in Answers : run' = Taking(run, run.rows[run.next], answer)
    BY DEF NextRow, Taking
  <1> DEFINE new == Taking(run, run.rows[run.next], answer)
  <1>3. new \in OpenRun /\ new.rows = run.rows /\ new.next = run.next + 1
    <2>1. run.rows[run.next] \in Rows /\ kind \in Kinds /\ runs \in Nat
      BY <1>1 DEF OpenRun, TypeOK
    <2> QED
      BY <1>1, <2>1, TakingFacts
  <1>4. /\ TableAgrees(new) /\ PlacedAgree(new) /\ CreatedAgrees(new)
        /\ CacheAgrees(new) /\ AskedAgrees(new) /\ UsableVerified(new) /\ RowsCounted(new)
    BY <1>1, RowKeepsTable, RowKeepsLookups, RowKeepsUsable, RowKeepsCounts
  <1>5. run' = new
    BY <1>2
  <1> HIDE DEF new
  <1>6. RunAgrees(new)
    BY <1>1, <1>3, <1>4 DEF RunAgrees, OpenRun
  <1>7. UNCHANGED << kind, listing, pois, runs, report, known, unplaced, dates >>
    BY DEF NextRow
  <1>8. RunAgrees(run)'
    BY <1>5, <1>6, <1>7, RunStays
  <1>9. listing' \in Listings
    BY <1>7 DEF IInv, TypeOK
  <1> QED
    BY <1>3, <1>5, <1>7, <1>8, <1>9, LastingStays DEF IInv

LEMMA PublishStep ==
  ASSUME IInv, NEW rows \in Listings, Publish(rows)
  PROVE  IInv'
  <1>1. /\ listing' = rows
        /\ UNCHANGED << kind, pois, runs, run, report, known, unplaced, dates >>
    BY DEF Publish
  <1>2. run # NoRun => RunAgrees(run)'
    BY <1>1, RunStays DEF IInv
  <1> QED
    BY <1>1, <1>2, LastingStays DEF IInv, TypeOK

\* What a run leaves when it ends well.
LEMMA FinishFacts ==
  ASSUME IInv, FinishRun
  PROVE  /\ run \in OpenRun /\ RunAgrees(run) /\ Taken(run) = DOMAIN run.rows
         /\ run.next - 1 = Len(run.rows)
         /\ pois' \in Tables /\ DOMAIN pois' = DOMAIN run.pois
         /\ dates' = run.dates /\ dates' \in Dates /\ DOMAIN dates' = DOMAIN pois'
         /\ unplaced' \in [DOMAIN run.pois -> Nat]
         /\ \A id \in DOMAIN run.pois :
              /\ pois'[id].last_verified_at = run.pois[id].last_verified_at
              /\ run.pois[id].last_verified_at \in Int
              /\ pois'[id].status = "removed" =>
                   \/ run.pois[id].status = "removed"
                   \/ run.pois[id].last_verified_at < runs + 1 - GraceRuns
              /\ ~Fresh(run, id) =>
                   /\ id \in DOMAIN pois /\ run.pois[id] = pois[id]
                   /\ run.dates[id] = dates[id] /\ unplaced'[id] = unplaced[id] + 1
  <1>1. run \in OpenRun /\ RunAgrees(run)
    <2>1. run.open /\ run \in OpenRun \cup {NoRun}
      BY DEF FinishRun, IInv, TypeOK
    <2>2. run \in OpenRun /\ run # NoRun
      BY <2>1, NoRunIsClosed
    <2> QED
      BY <2>2 DEF IInv
  <1>2. run.next - 1 = Len(run.rows) /\ Taken(run) = DOMAIN run.rows
    <2>1. run.next \in Nat /\ run.rows \in Seq(Rows) /\ Len(run.rows) \in Nat
      BY <1>1 DEF OpenRun
    <2>2. run.next > Len(run.rows) /\ run.next <= Len(run.rows) + 1
      BY <1>1 DEF FinishRun, RunAgrees
    <2>3. run.next - 1 = Len(run.rows)
      BY <2>1, <2>2
    <2> QED
      BY <2>1, <2>3 DEF Taken
  <1>3. PICK X \in SUBSET Ids : run.pois \in [X -> PoiRow]
    BY <1>1 DEF OpenRun, Tables, PartialFunctions
  <1>4. pois' = Swept(run.pois) /\ DOMAIN run.pois = X
    BY <1>3 DEF FinishRun
  <1>5. ASSUME NEW id \in X
        PROVE  LET row == run.pois[id]
                   stale == row.last_verified_at < runs + 1 - GraceRuns
               IN  /\ Swept(run.pois)[id] = IF stale THEN [row EXCEPT !.status = "removed"] ELSE row
                   /\ row \in PoiRow /\ [row EXCEPT !.status = "removed"] \in PoiRow
                   /\ row.last_verified_at \in Int
                   /\ [row EXCEPT !.status = "removed"].last_verified_at = row.last_verified_at
    <2>1. run.pois[id] \in PoiRow
      BY <1>3
    <2>2. /\ run.pois[id].last_verified_at \in Int
          /\ [run.pois[id] EXCEPT !.status = "removed"] \in PoiRow
          /\ [run.pois[id] EXCEPT !.status = "removed"].last_verified_at = run.pois[id].last_verified_at
      BY <2>1 DEF PoiRow
    <2> QED
      BY <1>4, <2>1, <2>2 DEF Swept
  <1>6. pois' \in [X -> PoiRow]
    <2>1. Swept(run.pois) = [id \in X |-> Swept(run.pois)[id]]
      BY <1>4 DEF Swept
    <2>2. \A id \in X : Swept(run.pois)[id] \in PoiRow
      BY <1>5
    <2> QED
      BY <1>4, <2>1, <2>2
  <1>7. pois' \in Tables
    BY <1>6 DEF Tables, PartialFunctions
  <1>8. unplaced \in [DOMAIN pois -> Nat]
    BY DEF IInv, TypeOK
  <1>9. unplaced' = [id \in X |->
                       IF Usable(run, id) \/ id \notin DOMAIN pois THEN 0 ELSE unplaced[id] + 1]
    BY <1>4, <1>8 DEF FinishRun
  <1>10. unplaced' \in [X -> Nat]
    BY <1>8, <1>9
  <1>11. ASSUME NEW id \in X, ~Fresh(run, id)
         PROVE  /\ id \in DOMAIN pois /\ run.pois[id] = pois[id]
                /\ run.dates[id] = dates[id] /\ unplaced'[id] = unplaced[id] + 1
    <2>1. id \in DOMAIN pois /\ run.pois[id] = pois[id] /\ run.dates[id] = dates[id]
      BY <1>1, <1>4, <1>11 DEF RunAgrees, TableAgrees
    <2>2. ~Usable(run, id)
      BY <1>1, <1>2, <1>11 DEF Usable, RunAgrees, UsableVerified
    <2> QED
      BY <1>9, <2>1, <2>2
  <1>12. ASSUME NEW id \in X
         PROVE  /\ pois'[id].last_verified_at = run.pois[id].last_verified_at
                /\ run.pois[id].last_verified_at \in Int
                /\ pois'[id].status = "removed" =>
                     \/ run.pois[id].status = "removed"
                     \/ run.pois[id].last_verified_at < runs + 1 - GraceRuns
    BY <1>4, <1>5
  <1>13. dates' = run.dates /\ dates' \in Dates /\ DOMAIN dates' = DOMAIN run.pois
    BY <1>1 DEF FinishRun, OpenRun, RunAgrees, TableAgrees
  <1> QED
    BY <1>1, <1>2, <1>4, <1>6, <1>7, <1>10, <1>11, <1>12, <1>13

LEMMA FinishStep ==
  ASSUME IInv, FinishRun
  PROVE  IInv'
  <1>1. /\ run' = NoRun /\ runs' = runs + 1 /\ known' = known \cup run.placed
        /\ UNCHANGED << kind, listing >>
        /\ report' = [ created |-> run.created, updated |-> run.updated,
                       unchanged |-> run.unchanged, errors |-> run.errors,
                       no_coords |-> run.no_coords, asked |-> run.asked, of |-> run.rows ]
    BY DEF FinishRun
  <1>2. /\ run \in OpenRun /\ RunAgrees(run) /\ Taken(run) = DOMAIN run.rows
        /\ run.next - 1 = Len(run.rows)
        /\ pois' \in Tables /\ DOMAIN pois' = DOMAIN run.pois
        /\ dates' = run.dates /\ dates' \in Dates /\ DOMAIN dates' = DOMAIN pois'
        /\ unplaced' \in [DOMAIN run.pois -> Nat]
        /\ \A id \in DOMAIN run.pois :
             /\ pois'[id].last_verified_at = run.pois[id].last_verified_at
             /\ run.pois[id].last_verified_at \in Int
             /\ ~Fresh(run, id) =>
                  /\ id \in DOMAIN pois /\ run.pois[id] = pois[id]
                  /\ run.dates[id] = dates[id] /\ unplaced'[id] = unplaced[id] + 1
    BY FinishFacts
  <1>3. report' \in Report
    BY <1>1, <1>2 DEF OpenRun, Report
  <1>4. TypeOK'
    <2>1. known' \in SUBSET Places
      BY <1>1, <1>2 DEF IInv, TypeOK, OpenRun
    <2> QED
      BY <1>1, <1>2, <1>3, <2>1 DEF IInv, TypeOK
  <1>5. KnownAgrees'
    BY <1>1, <1>2 DEF KnownAgrees, RunAgrees, PlacedAgree
  <1>6. DatesAgree'
    <2> SUFFICES ASSUME NEW id \in DOMAIN run.pois
                 PROVE  IF run.dates[id] = << >>
                        THEN run.pois[id].last_verified_at + unplaced'[id] >= runs + 1
                        ELSE run.pois[id].last_verified_at = run.dates[id][1]
      BY <1>1, <1>2 DEF DatesAgree
    <2>1. unplaced'[id] \in Nat /\ run.pois[id].last_verified_at \in Int /\ runs \in Nat
      BY <1>2 DEF IInv, TypeOK
    <2>2. CASE Fresh(run, id)
      BY <2>1, <2>2 DEF Fresh
    <2>3. CASE ~Fresh(run, id)
      <3>1. /\ id \in DOMAIN pois /\ run.pois[id] = pois[id] /\ run.dates[id] = dates[id]
            /\ unplaced'[id] = unplaced[id] + 1
        BY <1>2, <2>3
      <3>2. /\ dates[id] = << >> => pois[id].last_verified_at + unplaced[id] >= runs
            /\ dates[id] # << >> => pois[id].last_verified_at = dates[id][1]
            /\ unplaced[id] \in Nat
        BY <3>1 DEF IInv, DatesAgree, TypeOK
      <3>3. dates[id] = << >> => run.pois[id].last_verified_at + unplaced'[id] >= runs + 1
        BY <2>1, <3>1, <3>2
      <3> QED
        BY <3>1, <3>2, <3>3
    <2> QED
      BY <2>2, <2>3
  <1>7. GeocoderAskedOnce'
    <2> SUFFICES ASSUME NEW a \in DOMAIN run.asked
                 PROVE  run.asked[a] <= 1 + run.errors
      BY <1>1 DEF GeocoderAskedOnce
    <2>1. run.asked[a] \in Nat /\ run.errors \in Nat
      <3>1. run.asked \in PartialFunctions(Text, Nat) /\ run.errors \in Nat
        BY <1>2 DEF OpenRun, Counts
      <3> QED
        BY <3>1, ValueType
    <2>2. run.asked[a] <= IF a \in DOMAIN run.cache THEN run.errors + 1 ELSE run.errors
      BY <1>2 DEF RunAgrees, AskedAgrees
    <2> QED
      BY <2>1, <2>2
  <1>8. NothingLostSilently'
    <2>1. {i \in DOMAIN run.rows : ~InDistrict(run.rows[i])} = Outside(run)
      BY <1>2 DEF Outside
    <2>2. kind = "toilets" =>
            run.created + run.updated + run.unchanged + run.errors + run.no_coords
              + Cardinality(Outside(run)) = Len(run.rows)
      BY <1>2 DEF RunAgrees, RowsCounted
    <2>3. report'.of = run.rows /\ kind' = kind
      BY <1>1
    <2>4. {i \in DOMAIN report.of : ~InDistrict(report.of[i])}' = Outside(run)
      BY <2>1, <2>3 DEF InDistrict
    <2>5. /\ report'.created = run.created /\ report'.updated = run.updated
          /\ report'.unchanged = run.unchanged /\ report'.errors = run.errors
          /\ report'.no_coords = run.no_coords
      BY <1>1
    <2> QED
      BY <2>2, <2>3, <2>4, <2>5 DEF NothingLostSilently
  <1> QED
    BY <1>1, <1>4, <1>5, <1>6, <1>7, <1>8 DEF IInv

LEMMA FailureStep ==
  ASSUME IInv, LeavesNothing
  PROVE  IInv'
  <1>1. /\ report' = [NoReport EXCEPT !.errors = 1] /\ runs' = runs + 1 /\ run' = NoRun
        /\ unplaced' = [id \in DOMAIN unplaced |-> unplaced[id] + 1]
        /\ UNCHANGED << kind, listing, pois, known, dates >>
    BY DEF LeavesNothing
  <1>2. unplaced \in [DOMAIN pois -> Nat] /\ runs \in Nat /\ pois \in Tables
    BY DEF IInv, TypeOK
  <1>3. TypeOK'
    BY <1>1, <1>2, NoReportFacts DEF IInv, TypeOK
  <1>4. KnownAgrees'
    BY <1>1 DEF IInv, KnownAgrees
  <1>5. DatesAgree'
    <2> SUFFICES ASSUME NEW id \in DOMAIN pois
                 PROVE  IF dates[id] = << >>
                        THEN pois[id].last_verified_at + (unplaced[id] + 1) >= runs + 1
                        ELSE pois[id].last_verified_at = dates[id][1]
      BY <1>1, <1>2 DEF DatesAgree
    <2>1. pois[id].last_verified_at \in Int
      <3>1. pois \in PartialFunctions(Ids, PoiRow)
        BY <1>2 DEF Tables
      <3>2. pois[id] \in PoiRow
        BY <3>1, ValueType
      <3> QED
        BY <3>2 DEF PoiRow
    <2>2. /\ dates[id] = << >> => pois[id].last_verified_at + unplaced[id] >= runs
          /\ dates[id] # << >> => pois[id].last_verified_at = dates[id][1]
          /\ unplaced[id] \in Nat
      BY <1>2 DEF IInv, DatesAgree
    <2>3. dates[id] = << >> => pois[id].last_verified_at + (unplaced[id] + 1) >= runs + 1
      BY <1>2, <2>1, <2>2
    <2> QED
      BY <2>2, <2>3
  <1>6. GeocoderAskedOnce' /\ NothingLostSilently'
    BY <1>1, NoReportFacts DEF GeocoderAskedOnce, NothingLostSilently
  <1> QED
    BY <1>1, <1>3, <1>4, <1>5, <1>6 DEF IInv

LEMMA NextIInv == IInv /\ [Next]_vars => IInv'
  <1> SUFFICES ASSUME IInv, [Next]_vars PROVE IInv'
    OBVIOUS
  <1>1. CASE ScheduledRun
    <2>1. PICK key \in BOOLEAN : Start(ScheduledGeocoder(key))
      BY <1>1 DEF ScheduledRun
    <2>2. ScheduledGeocoder(key) \in BOOLEAN
      BY DEF ScheduledGeocoder
    <2> QED
      BY <2>1, <2>2, StartStep
  <1>2. CASE CommandLineRun
    BY <1>2, StartStep DEF CommandLineRun, CommandLineGeocoder
  <1>3. CASE NextRow
    BY <1>3, NextRowStep
  <1>4. CASE FinishRun
    BY <1>4, FinishStep
  <1>5. CASE FetchFails
    BY <1>5, FailureStep DEF FetchFails
  <1>6. CASE RunCrashes
    BY <1>6, FailureStep DEF RunCrashes
  <1>7. ASSUME NEW rows \in Listings, Publish(rows) PROVE IInv'
    BY <1>7, PublishStep
  <1>8. CASE UNCHANGED vars
    <2>1. run # NoRun => RunAgrees(run)'
      BY <1>8, RunStays DEF vars, IInv
    <2> QED
      BY <1>8, <2>1, LastingStays DEF vars, IInv, TypeOK
  <1> QED
    BY <1>1, <1>2, <1>3, <1>4, <1>5, <1>6, <1>7, <1>8 DEF Next

LEMMA Invariance == Spec => []IInv
  BY InitIInv, NextIInv, PTL DEF Spec

-----------------------------------------------------------------------------
(* Theorems                                                                *)

\* However many rows share an address, the geocoder is asked for it once in a
\* run, and once more for each lookup that raised (_geocode and its cache).
THEOREM GeocoderSafety == Spec => []GeocoderAskedOnce
  <1>1. IInv => GeocoderAskedOnce
    BY DEF IInv
  <1> QED
    BY <1>1, Invariance, PTL

\* However long the listing of toilets, its report accounts for every row of
\* the district: run() of seoul_public_toilets loses none without a count.
THEOREM AccountingSafety == Spec => []NothingLostSilently
  <1>1. IInv => NothingLostSilently
    BY DEF IInv
  <1> QED
    BY <1>1, Invariance, PTL

\* A run creates exactly one POI for each toilet it places for the first time,
\* whatever any listing has and however often it changes (_row_external_id).
THEOREM PlaceSafety == Spec => OnePoiPerPlace
  <1>1. IInv /\ [Next]_vars =>
          (kind = "toilets" /\ runs' # runs => report'.created = Cardinality(known' \ known))
    <2> SUFFICES ASSUME IInv, [Next]_vars, kind = "toilets", runs' # runs
                 PROVE  report'.created = Cardinality(known' \ known)
      OBVIOUS
    <2>1. FinishRun \/ LeavesNothing
      BY DEF Next, ScheduledRun, CommandLineRun, Start, NextRow, FetchFails, RunCrashes,
             Publish, vars
    <2>2. CASE FinishRun
      <3>1. report'.created = run.created /\ known' = known \cup run.placed
        BY <2>2 DEF FinishRun
      <3>2. run.created = Cardinality(run.placed \ known)
        BY <2>2, FinishFacts DEF RunAgrees, CreatedAgrees
      <3>3. known' \ known = run.placed \ known
        BY <3>1
      <3> QED
        BY <3>1, <3>2, <3>3
    <2>3. CASE LeavesNothing
      <3>1. report'.created = 0 /\ known' \ known = {}
        BY <2>3 DEF LeavesNothing, NoReport
      <3> QED
        BY <3>1, FS_EmptySet
    <2> QED
      BY <2>1, <2>2, <2>3
  <1> QED
    BY <1>1, Invariance, PTL DEF Spec, OnePoiPerPlace

\* A row leaves the map only after more than the grace period of runs that failed or
\* could not place it, or under the date that the listing gave the row which last
\* wrote it (_upsert_one and _soft_delete_stale).
THEOREM RemovalSafety == Spec => RemovedOnlyUnplaced
  <1>1. IInv /\ [Next]_vars =>
          \A id \in DOMAIN pois :
            pois[id].status = "active" /\ pois'[id].status = "removed"
              => \/ unplaced'[id] > GraceRuns
                 \/ dates'[id] # << >> /\ dates'[id][1] < runs' - GraceRuns
    <2> SUFFICES ASSUME IInv, [Next]_vars, NEW id \in DOMAIN pois,
                        pois[id].status = "active", pois'[id].status = "removed"
                 PROVE  \/ unplaced'[id] > GraceRuns
                        \/ dates'[id] # << >> /\ dates'[id][1] < runs' - GraceRuns
      OBVIOUS
    <2>1. FinishRun \/ UNCHANGED pois
      BY DEF Next, ScheduledRun, CommandLineRun, Start, NextRow, FetchFails, RunCrashes,
             LeavesNothing, Publish, vars
    <2>2. FinishRun
      BY <2>1
    <2>3. id \in DOMAIN run.pois
      BY <2>2, FinishFacts DEF RunAgrees, TableAgrees
    <2>4. /\ pois'[id].status = "removed" =>
               \/ run.pois[id].status = "removed"
               \/ run.pois[id].last_verified_at < runs + 1 - GraceRuns
          /\ run.pois[id].last_verified_at = pois'[id].last_verified_at
          /\ run.pois[id].last_verified_at \in Int
          /\ id \in DOMAIN pois'
      BY <2>2, <2>3, FinishFacts
    <2>5. run.pois[id].status = "active"
      BY <2>2, <2>3, FinishFacts DEF RunAgrees, TableAgrees
    <2>6. run.pois[id].last_verified_at < runs + 1 - GraceRuns /\ runs' = runs + 1
      BY <2>2, <2>4, <2>5 DEF FinishRun
    <2>7. DatesAgree' /\ runs \in Nat /\ GraceRuns \in Nat /\ unplaced'[id] \in Nat
      <3>1. IInv'
        BY <2>2, FinishStep
      <3>2. DatesAgree' /\ unplaced'[id] \in Nat
        BY <2>4, <3>1 DEF IInv, TypeOK
      <3> QED
        BY <3>2, ListingAssumption DEF IInv, TypeOK
    <2>8. CASE dates'[id] = << >>
      <3>1. pois'[id].last_verified_at + unplaced'[id] >= runs'
        BY <2>4, <2>7, <2>8 DEF DatesAgree
      <3> QED
        BY <2>4, <2>6, <2>7, <3>1
    <2>9. CASE dates'[id] # << >>
      <3>1. pois'[id].last_verified_at = dates'[id][1]
        BY <2>4, <2>7, <2>9 DEF DatesAgree
      <3>2. run.pois[id].last_verified_at < runs' - GraceRuns
        BY <2>4, <2>6, <2>7
      <3> QED
        BY <2>4, <2>9, <3>1, <3>2
    <2> QED
      BY <2>8, <2>9
  <1> QED
    BY <1>1, Invariance, PTL DEF Spec, RemovedOnlyUnplaced

=============================================================================
