------------------------------- MODULE Archive -------------------------------
(***************************************************************************)
(* The archive of past seasons: the importer of the community's files      *)
(* (archive/archive.service.ts, archive.mappers.ts, archive.repository.ts),*)
(* the two ingests of web captures (wayback-availability.service.ts) and   *)
(* the reader that joins them (projections/forecast.repository.ts).        *)
(*                                                                         *)
(* One season.  Its files are abstracted to what the importer tells apart, *)
(* a capture to when it was taken and the deadlines it lists; time is      *)
(* counted in ticks.  The importer may be run by two people at once.       *)
(***************************************************************************)
EXTENDS Integers, FiniteSets, FiniteSetsExt, SequencesExt

CONSTANTS
    Importers,
    Publications, \* the season's files as published one after another: [merged, codes]
    PlausibleStarts, \* starts a fixture that may be true
    MaxUnresolved,   \* unresolved rows in ten that are still a complete import
    Captures,     \* what the index can list: time -> [deadlines: round -> time, finished, next]
    Rounds,
    MaxGap,       \* AVAILABILITY_MAX_GAP_HOURS
    MaxIngests    \* bound: ingests of captures

(* A row of merged: [element, fixture, label, starts, points, counted]:    *)
(* the label of its position ("" before the column), the starts recorded   *)
(* or NoStarts, whether the points engine gives the official total,        *)
(* whether the defensive count is the sum of its components.               *)
NoStarts == -1

ASSUME ArchiveAssumption ==
    /\ DOMAIN Publications = 1..Len(Publications) /\ Len(Publications) \in Nat \ {0}
    /\ IsFiniteSet(DOMAIN Captures) /\ DOMAIN Captures \subseteq Nat
    /\ \A t \in DOMAIN Captures : Captures[t].deadlines \in [Rounds -> Nat]
    /\ MaxGap \in Nat

VARIABLES
    published, \* the latest publication
    disk,      \* file -> the publication it was cached from, or 0
    imports,   \* importer -> its state
    table,     \* archivePlayerGameweek, the season's: rows with the publication they are of
    listed,    \* the captures the index lists
    snapshots, \* those in the cache directory
    flags,     \* archiveAvailabilitySnapshot: round -> capture
    market,    \* archiveDeadlineMarket: round -> capture
    ingests    \* ingests made so far

imported == <<published, disk, imports, table>>
captured == <<listed, snapshots, flags, market, ingests>>
archiveVars == <<imported, captured>>

(* The third file names the clubs; without it they are named otherwise.    *)
Files == {"merged", "codes"}
Idle  == [at |-> "idle"]

ArchiveInit ==
    /\ published = 1 /\ disk = [f \in Files |-> 0]
    /\ imports = [i \in Importers |-> Idle] /\ table = {}
    /\ listed \in SUBSET DOMAIN Captures /\ listed # {}
    /\ snapshots = {} /\ flags = <<>> /\ market = <<>> /\ ingests = 0

-----------------------------------------------------------------------------
(* Importing the season's files.                                           *)

(* The first row of each element and fixture; the rest are duplicates.     *)
Distinct(rows) ==
    {rows[i] : i \in {j \in DOMAIN rows : \A k \in 1..(j - 1) :
        <<rows[k].element, rows[k].fixture>> # <<rows[j].element, rows[j].fixture>>}}

(* mapArchiveRow: a row is a player's if its element has a code and its    *)
(* label, where there is one, is of a position.                            *)
Positions == {"GK", "GKP", "DEF", "MID", "FWD"}
Mapped(r, codes) == r.element \in codes /\ r.label \in Positions \union {""}

(* Of the rows not mapped only the assistant manager's are known for what  *)
(* they are; a label of "MNG" is excluded by the mapper all the same.      *)
NonPlayer(r) == r.label = "AM"

(* verifyStarts: a column that does not give the starters of a fixture is  *)
(* taken as not recorded.                                                  *)
PerFixture(rows) ==
    LET recorded == {r \in rows : r.starts # NoStarts}
        fixtures == {r.fixture : r \in recorded}
    IN  IF fixtures = {} THEN NoStarts
        ELSE MapThenSumSet(LAMBDA r : r.starts, recorded) \div Cardinality(fixtures)
VerifyStarts(rows) ==
    IF PerFixture(rows) \in PlausibleStarts THEN rows ELSE {[r EXCEPT !.starts = NoStarts] : r \in rows}

(* What importSeason has to write from the files it read, none if it       *)
(* refuses: too many rows unresolved, points the engine does not           *)
(* reproduce, a defensive count that is not one.                           *)
RowsToWrite(m, c) ==
    LET rows   == Distinct(Publications[m].merged)
        mapped == {r \in rows : Mapped(r, Publications[c].codes)}
        unresolved == {r \in rows \ mapped : ~NonPlayer(r)}
    IN  IF \/ 10 * Cardinality(unresolved) > MaxUnresolved * (Cardinality(mapped) + Cardinality(unresolved))
           \/ mapped = {}
           \/ \E r \in mapped : ~r.points \/ ~r.counted
        THEN {}
        ELSE {[of |-> <<m, c>>, row |-> r] : r \in VerifyStarts(mapped)}

KeyOf(x) == <<x.row.element, x.row.fixture>>

(* A season's files are published again to correct rows or to add some:    *)
(* any two that can be imported have a player's match in common.           *)
ASSUME PublicationsOverlap ==
    \A m, c, n, d \in DOMAIN Publications :
        RowsToWrite(m, c) # {} /\ RowsToWrite(n, d) # {} =>
            {KeyOf(x) : x \in RowsToWrite(m, c)} \intersect {KeyOf(x) : x \in RowsToWrite(n, d)} # {}

StartImport(i) ==
    /\ imports[i].at = "idle"
    /\ imports' = [imports EXCEPT ![i] = [at |-> "read", got |-> [f \in Files |-> 0]]]
    /\ UNCHANGED <<published, disk, table, captured>>

(* csv: the cache first, for ever; else the network, which fills it.       *)
ReadFile(i, f) ==
    /\ imports[i].at = "read" /\ imports[i].got[f] = 0
    /\ disk' = IF disk[f] = 0 THEN [disk EXCEPT ![f] = published] ELSE disk
    /\ imports' = [imports EXCEPT ![i].got[f] = disk'[f]]
    /\ UNCHANGED <<published, table, captured>>

(* A failed fetch ends the import.                                         *)
FailFetch(i) ==
    /\ imports[i].at = "read" /\ \E f \in Files : imports[i].got[f] = 0 /\ disk[f] = 0
    /\ imports' = [imports EXCEPT ![i] = [at |-> "failed"]]
    /\ UNCHANGED <<published, disk, table, captured>>

Check(i) ==
    /\ imports[i].at = "read" /\ \A f \in Files : imports[i].got[f] # 0
    /\ LET rows == RowsToWrite(imports[i].got["merged"], imports[i].got["codes"])
       IN  imports' = [imports EXCEPT ![i] = IF rows = {} THEN [at |-> "failed"]
                                             ELSE [at |-> "replace", rows |-> rows]]
    /\ UNCHANGED <<published, disk, table, captured>>

(* A slip: the rows are deleted and inserted outside a transaction.        *)
DeletedAtOnce(seen) == {}

(* What other connections see of the table while replaceSeason's           *)
(* transaction is open: what they saw before.                              *)
WhileReplaced(seen) == seen

(* replaceSeason: delete what the statement sees, insert in chunks, commit.*)
Delete(i) ==
    /\ imports[i].at = "replace"
    /\ imports' = [imports EXCEPT ![i] = [at |-> "insert", rows |-> @.rows, deleted |-> table]]
    /\ table' = WhileReplaced(table)
    /\ UNCHANGED <<published, disk, captured>>

(* A row another transaction committed in between is not deleted, and the  *)
(* unique index refuses the insert if it is the same player's and match's. *)
Commit(i) ==
    /\ imports[i].at = "insert"
    /\ LET kept == table \ imports[i].deleted
           clash == {KeyOf(x) : x \in kept} \intersect {KeyOf(x) : x \in imports[i].rows} # {}
       IN  /\ table' = IF clash THEN table ELSE kept \union imports[i].rows
           /\ imports' = [imports EXCEPT ![i] = [at |-> IF clash THEN "failed" ELSE "done"]]
    /\ UNCHANGED <<published, disk, captured>>

(* An import dies with its transaction rolled back.                        *)
Die(i) ==
    /\ imports[i].at \in {"replace", "insert"}
    /\ imports' = [imports EXCEPT ![i] = [at |-> "failed"]]
    /\ UNCHANGED <<published, disk, table, captured>>

Again(i) ==
    /\ imports[i].at \in {"failed", "done"}
    /\ imports' = [imports EXCEPT ![i] = Idle]
    /\ UNCHANGED <<published, disk, table, captured>>

(* The archive is republished; the operator may clear the cache.           *)
Republish ==
    /\ ingests = 0 /\ published < Len(Publications) /\ published' = published + 1
    /\ UNCHANGED <<disk, imports, table, captured>>
ClearCache ==
    /\ ingests = 0 /\ disk # [f \in Files |-> 0] /\ disk' = [f \in Files |-> 0]
    /\ UNCHANGED <<published, imports, table, captured>>

-----------------------------------------------------------------------------
(* Ingesting captures.                                                     *)

(* A slip: a capture of the deadline's own minute taken for one before it. *)
LastCaptureAtLatest(S, deadline) == {t \in S : t <= deadline /\ \A u \in S : u <= deadline => u <= t}

LastCaptureBefore(S, deadline) == {t \in S : t < deadline /\ \A u \in S : u < deadline => u <= t}

(* The deadlines are a record once every event of the capture is finished. *)
IsRecord(t) == Captures[t].finished = Rounds

(* "By June the season's deadlines are history, not plan": no capture      *)
(* taken after that lists another.                                         *)
ASSUME RecordsStand ==
    \A t, u \in DOMAIN Captures : IsRecord(t) /\ t <= u => Captures[u].deadlines = Captures[t].deadlines

(* ingestSeason, ingestMarket: each round's last capture before its        *)
(* deadline, as the season's last capture has it.                          *)
CapturesOf(S) ==
    LET deadlines == Captures[Max(S)].deadlines
        covered   == {r \in Rounds : LastCaptureBefore(S, deadlines[r]) # {}}
    IN  [r \in covered |-> [at |-> CHOOSE t \in LastCaptureBefore(S, deadlines[r]) : TRUE,
                            deadline |-> deadlines[r]]]

(* The captures an ingest of S reads: the last one first, the rest only if *)
(* the season is over.                                                     *)
Fetched(S) == {Max(S)} \union (IF IsRecord(Max(S)) THEN {c.at : c \in Range(CapturesOf(S))} ELSE {})

(* An ingest fetches one capture after another; it may fail at any of them *)
(* and leaves those it fetched in the cache.                               *)
FailIngest(S) ==
    /\ \E got \in SUBSET Fetched(S) : snapshots' = snapshots \union got
    /\ UNCHANGED <<flags, market>>

IngestAvailability ==
    /\ ingests < MaxIngests /\ ingests' = ingests + 1
    /\ \/ FailIngest(listed)
       \/ /\ IsRecord(Max(listed))
          /\ snapshots' = snapshots \union Fetched(listed)
          /\ flags' = CapturesOf(listed) /\ UNCHANGED market
    /\ UNCHANGED <<imported, listed>>

(* The index may be down, and the cache directory stands in for it.        *)
IngestMarket ==
    /\ ingests < MaxIngests /\ ingests' = ingests + 1
    /\ \E S \in {listed, snapshots} \ {{}} :
          \/ FailIngest(S)
          \/ /\ IsRecord(Max(S))
             /\ snapshots' = snapshots \union Fetched(S)
             /\ market' = CapturesOf(S) /\ UNCHANGED flags
    /\ UNCHANGED <<imported, listed>>

(* The index comes to list another capture.                                *)
List ==
    /\ ingests \in 1..(MaxIngests - 1)
    /\ \E t \in DOMAIN Captures \ listed : listed' = listed \union {t}
    /\ UNCHANGED <<imported, snapshots, flags, market, ingests>>

(* archiveHistory: the flags and the projection joined to a round.         *)
Fresh(f, r) == r \in DOMAIN f /\ f[r].deadline - f[r].at <= MaxGap
JoinedFlags  == {r \in Rounds : Fresh(flags, r)}
JoinedEpNext == {r \in Rounds : Fresh(market, r) /\ Captures[market[r].at].next = r}

(* The two halves share no state; each is explored while the other rests.  *)
Import == ingests = 0 /\ \E i \in Importers :
    \/ StartImport(i) \/ (\E f \in Files : ReadFile(i, f)) \/ FailFetch(i) \/ Check(i)
    \/ Delete(i) \/ Commit(i) \/ Die(i) \/ Again(i)

Ingest ==
    /\ table = {} /\ \A i \in Importers : imports[i] = Idle
    /\ IngestAvailability \/ IngestMarket \/ List

ArchiveNext == Import \/ Republish \/ ClearCache \/ Ingest

ArchiveSpec == ArchiveInit /\ [][ArchiveNext]_archiveVars
-----------------------------------------------------------------------------
(* The season's table is only ever replaced by one import's rows, whole,   *)
(* of the files it read: an interrupted import leaves no hole, and two at  *)
(* once leave no mixture.                                                  *)
SeasonIsReplacedWhole ==
    [][table' # table =>
          table' # {} /\ \E m, c \in DOMAIN Publications : table' = RowsToWrite(m, c)]_archiveVars

(* What is joined to a round was knowable at its true deadline: captured   *)
(* before it, whatever the deadline was once listed as, whichever captures *)
(* the index had and the cache kept.                                       *)
TrueDeadline == Captures[Max(DOMAIN Captures)].deadlines
JoinedWasKnowable ==
    /\ \A r \in JoinedFlags : flags[r].at < TrueDeadline[r]
    /\ \A r \in JoinedEpNext : market[r].at < TrueDeadline[r]
=============================================================================
