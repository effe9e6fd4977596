---------------------------- MODULE VehicleList ----------------------------
(***************************************************************************)
(* GET /api/v1/vehicles and the vehicle list of the administrators, read   *)
(* page by page while the table changes, and the client that docs/         *)
(* api-spec.md describes: it reads every page once, then only what was     *)
(* stored since the date of its last synchronisation (section 7).          *)
(*                                                                         *)
(* Of a row only its id, the day of its scraped_at and whether its content *)
(* matches the other filters of the client matter.  What may become of a   *)
(* row is modelled in VehicleStore; here it changes in any way that        *)
(* allows.                                                                 *)
(***************************************************************************)
EXTENDS Integers, FiniteSets

CONSTANTS
    MaxId,          \* bound: rows ever inserted
    MaxDay,         \* bound: days
    PerPage,        \* per_page, after it is cut to API_PER_PAGE_MAX
    MaxFalls        \* bound: rows that leave the list or move back in it
                    \* while the client reads

ASSUME BoundsAssumption ==
    MaxId \in Nat /\ MaxDay \in Nat \ {0} /\ PerPage \in Nat \ {0} /\ MaxFalls \in Nat

Ids == 1..MaxId
Days == 1..MaxDay
Unstamped == 0          \* scraped_at is NULL
Gone == -1              \* no row has this id

VARIABLES
    stamp,          \* vehicles: the day of scraped_at of each id
    matches,        \* ids whose row the other filters of the client let in
    lastId,         \* the id inserted last
    today,
    reltuples,      \* of pg_class; -1 before the first ANALYZE
    coded,          \* the client filters by maker, fuel, price ... as well
    walk,           \* its page number, 0 while it does not read
    since,          \* created_at_from of this walk, Unstamped in the first
    start,          \* the day its last walk began, 0 before the first
    fresh,          \* ids whose row it has as it is stored
    steady,         \* ids whose row has not changed since its last walk began
    hidden,         \* ids whose row was stored with a day before that
    falls           \* rows that left the list or moved back in it meanwhile

client == <<coded, walk, since, start, fresh, steady, hidden, falls>>
vars == <<stamp, matches, lastId, today, reltuples, client>>

----------------------------------------------------------------------------
Rows == {i \in Ids : stamp[i] # Gone}

(* vehicle_list_order: scraped_at and id, falling, if only the days are    *)
(* filtered, otherwise the id.                                             *)
Before(i, j, byDay) ==
    IF byDay /\ stamp[i] # stamp[j] THEN stamp[i] > stamp[j] ELSE i > j

(* The rows that pass created_at_from and, if any are set, the other       *)
(* filters.                                                                *)
Listed(from, code) ==
    {i \in Rows : (from # Unstamped => stamp[i] >= from) /\ (code => i \in matches)}

(* OFFSET and LIMIT cut the rows of a page out of the ordered list. *)
Rank(i, rows, byDay) == Cardinality({j \in rows : Before(j, i, byDay)})
Slice_OneLate(rows, byDay, page) ==     \* mutant: pages from 0
    {i \in rows : /\ page * PerPage <= Rank(i, rows, byDay)
                  /\ Rank(i, rows, byDay) < (page + 1) * PerPage}
Slice(rows, byDay, page) ==
    {i \in rows : /\ (page - 1) * PerPage <= Rank(i, rows, byDay)
                  /\ Rank(i, rows, byDay) < page * PerPage}

(* list_vehicles; the pages are not counted. *)
ByDay(from, code) == from # Unstamped /\ ~code
ListVehicles(page, from, code) == Slice(Listed(from, code), ByDay(from, code), page)

(* vehicles of routes/admin.py: its page number is cut to the pages of the *)
(* rows that match, or to those of the estimate if there is no filter or   *)
(* the count fails, unless that is 0.                                      *)
Estimate == IF reltuples < 0 THEN 0 ELSE reltuples

Pages_Floor(total) == total \div PerPage        \* mutant
Pages(total) == (total + PerPage - 1) \div PerPage
AdminVehicles(page, from, code, counted) ==
    LET filtered == code \/ from # Unstamped
        last == Pages(IF filtered /\ counted THEN Cardinality(Listed(from, code)) ELSE Estimate)
    IN  ListVehicles(IF last # 0 /\ page > last THEN last ELSE page, from, code)

----------------------------------------------------------------------------
Init ==
    /\ stamp = [i \in Ids |-> Gone] /\ matches = {} /\ lastId = 0 /\ today = 1 /\ reltuples = -1
    /\ coded \in BOOLEAN
    /\ walk = 0 /\ since = Unstamped /\ start = 0
    /\ fresh = {} /\ steady = {} /\ hidden = {} /\ falls = 0

(* A row is stored with a day that may be long past, or none, and with     *)
(* other content.                                                          *)
Store(i, day, match) ==
    /\ stamp' = [stamp EXCEPT ![i] = day]
    /\ matches' = IF match THEN matches \cup {i} ELSE matches \ {i}
    /\ fresh' = fresh \ {i}
    /\ steady' = steady \ {i}
    /\ hidden' = IF day < start THEN hidden \cup {i} ELSE hidden \ {i}

Insert(day, match) ==
    /\ lastId < MaxId
    /\ lastId' = lastId + 1
    /\ Store(lastId + 1, day, match)
    /\ UNCHANGED <<today, reltuples, coded, walk, since, start, falls>>

Reading == walk # 0

(* The list that the client reads, and in which order.                     *)
Window == Listed(since, coded)
Ordered == ByDay(since, coded)

(* The day of a row rises, or stays (remap-fuels, remap-attrs, the codes), *)
(* or falls; the row may leave the list of the client, and another come.   *)
Update(i, day, match) ==
    /\ Store(i, day, match)
    /\ UNCHANGED <<lastId, today, reltuples, coded, walk, since, start>>
    /\ falls' = IF Reading /\ i \in Window /\ (i \notin Window' \/ (Ordered /\ day < stamp[i]))
                THEN falls + 1 ELSE falls
    /\ falls' <= MaxFalls

(* reset_data, delete_vehicles_missing_keys *)
Delete(gone) ==
    /\ falls' = IF Reading THEN falls + Cardinality(gone \cap Window) ELSE falls
    /\ falls' <= MaxFalls
    /\ stamp' = [i \in Ids |-> IF i \in gone THEN Gone ELSE stamp[i]]
    /\ matches' = matches \ gone
    /\ fresh' = fresh \ gone /\ steady' = steady \ gone /\ hidden' = hidden \ gone
    /\ UNCHANGED <<lastId, today, reltuples, coded, walk, since, start>>

Analyze ==
    /\ reltuples' = Cardinality(Rows)
    /\ UNCHANGED <<stamp, matches, lastId, today, client>>

NewDay ==
    /\ today < MaxDay
    /\ today' = today + 1
    /\ UNCHANGED <<stamp, matches, lastId, reltuples, client>>

----------------------------------------------------------------------------
(* The client begins with page 1, from the day its last walk began. *)
StartWalk ==
    /\ ~Reading
    /\ walk' = 1
    /\ since' = start
    /\ start' = today
    /\ steady' = Rows
    /\ UNCHANGED <<stamp, matches, lastId, today, reltuples, coded, fresh, hidden, falls>>

(* It asks for one page after the other until the items are empty. *)
FetchPage ==
    LET items == ListVehicles(walk, since, coded)
    IN  /\ Reading
        /\ walk' = IF items = {} THEN 0 ELSE walk + 1
        /\ fresh' = fresh \cup items
        /\ hidden' = hidden \ items
        /\ UNCHANGED <<stamp, matches, lastId, today, reltuples, coded, since, start, steady,
                       falls>>

(* Without such filters every row matches.                                 *)
Content == IF coded THEN BOOLEAN ELSE {TRUE}

Change ==
    \/ \E day \in 0..today, match \in Content :
            Insert(day, match) \/ \E i \in Rows : Update(i, day, match)
    \/ \E gone \in SUBSET Rows \ {{}} : Delete(gone)

Next == Change \/ Analyze \/ NewDay \/ StartWalk \/ FetchPage

Spec == Init /\ [][Next]_vars

----------------------------------------------------------------------------
TypeOK ==
    /\ stamp \in [Ids -> {Gone, Unstamped} \cup Days] /\ matches \subseteq Rows
    /\ lastId \in 0..MaxId /\ today \in Days /\ reltuples \in -1..MaxId /\ Estimate \in Nat
    /\ coded \in BOOLEAN
    /\ walk \in Nat /\ since \in 0..MaxDay /\ start \in 0..MaxDay
    /\ fresh \subseteq Rows /\ steady \subseteq Rows /\ hidden \subseteq Rows
    /\ falls \in 0..MaxFalls

(* A client that has read to the empty page has every row of its filters   *)
(* that was stored before it began and has not changed since.  It lacks no *)
(* more of them than left its list or moved back in it while it was        *)
(* reading, deleted, filtered out or with an earlier day, each of which    *)
(* moves a row across the end of a page, besides those that were stored    *)
(* with a day before its last walk.                                        *)
Wanted == {i \in steady : coded => i \in matches}
Lacks == Wanted \ (fresh \cup hidden)
MissesExplained == ~Reading => Cardinality(Lacks) <= falls

(* An administrator reaches every row that matches by a page number, also  *)
(* when the count of a filtered list fails, unless the estimate is behind  *)
(* the table and stands for the count.                                     *)
AdminReachesAll ==
    \A from \in {Unstamped} \cup Days, code \in BOOLEAN, counted \in BOOLEAN :
        LET rows == Listed(from, code)
            exact == counted /\ (code \/ from # Unstamped)
            pages == 1..Pages(MaxId)
        IN  \/ ~exact /\ 0 < Estimate /\ Estimate < Cardinality(rows)
            \/ rows \subseteq UNION {AdminVehicles(page, from, code, counted) : page \in pages}

(* docs/api-spec.md, 7: with created_at_from the client receives what was  *)
(* stored newly.                                                           *)
SyncReceivesNew == ~Reading /\ falls = 0 => Wanted \subseteq fresh
=============================================================================
