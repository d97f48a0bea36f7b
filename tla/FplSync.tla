------------------------------- MODULE FplSync -------------------------------
(***************************************************************************)
(* The incremental synchronisation of the FPL upstream into Postgres:      *)
(* SyncService.runIncremental, which runs syncBootstrap and then           *)
(* syncFixtures, with the SyncRepository methods they call.  A process is  *)
(* anything that calls it: the application (hourly cron) or an operator's  *)
(* `pnpm sync:fpl`.  Every await is a step boundary, so two processes      *)
(* interleave between any two repository calls, and a call may throw or    *)
(* the process may die there.                                              *)
(*                                                                         *)
(* A payload is its revision number: two payloads have the same hash iff   *)
(* they have the same revision.  A table (or the 200-row transaction of a  *)
(* table) is the revision its rows were last written from.                 *)
(***************************************************************************)
EXTENDS Integers, Sequences, FiniteSets

CONSTANTS
    Proc,        \* processes that call SyncService
    Cli,         \* those of them started by hand, which may pass --snapshot
    MaxRev,      \* BOUND: distinct payloads an endpoint serves
    ValueOf,     \* history table -> revision -> the tracked player's value
    WholePercent,\* ownership values whose percentage is a whole number
    FinishedIn,  \* revision -> gameweeks it reports as finished
    Deadline,    \* gameweek -> deadline
    Window,      \* SNAPSHOT_WINDOW_HOURS, in ticks
    LiveCap,     \* LIVE_CAPTURES_PER_RUN
    Overlap,     \* may two processes synchronise at the same time?
    MayRevert,   \* may the upstream serve an old payload again?
    MaxLive,     \* BOUND: revisions of a gameweek's live payload with elements
    MaxTime,     \* BOUND: ticks of the clock
    MaxRuns      \* BOUND: rows of sync_runs

NoRev    == 0
Rev      == 1..MaxRev
Rev0     == 0..MaxRev
NoValue  == 0
Endpoint == {"bootstrap", "fixtures"}
Gameweek == DOMAIN Deadline
RunId    == 1..MaxRuns

(* The transactions of each endpoint's upserts, in the order they commit:  *)
(* 20 teams and 38 gameweeks fit one batch of 200, the players and the     *)
(* fixtures take several (two stand for them).                             *)
PartsOf == [e \in Endpoint |->
    IF e = "bootstrap"
    THEN <<"teams", "gameweeks", "config", "players1", "players2">>
    ELSE <<"fixtures1", "fixtures2">>]
Part    == {"teams", "gameweeks", "config", "players1", "players2",
            "fixtures1", "fixtures2"}

(* The append-only tables, in the order appendPriceHistory and             *)
(* appendOwnershipHistory are called.                                      *)
Tracked == <<"price", "ownership">>
History == {"price", "ownership"}

(* captureDeadlineSnapshot upserts one player at a time, outside a         *)
(* transaction; two chunks of players stand for the loop.                  *)
Chunk == 1..2

(* event/{gw}/live/: no elements, then provisional, then corrected ones.   *)
Empty == 0
Live  == 0..MaxLive

ASSUME SyncAssumption ==
    /\ Cli \subseteq Proc
    /\ MaxRev \in Nat \ {0}
    /\ ValueOf \in [History -> [Rev -> Nat \ {NoValue}]]
    /\ WholePercent \subseteq Nat
    /\ DOMAIN Deadline \subseteq Nat
    /\ Deadline \in [DOMAIN Deadline -> Nat]
    /\ FinishedIn \in [Rev -> SUBSET DOMAIN Deadline]
    /\ Window \in Nat
    /\ LiveCap \in Nat \ {0}
    /\ Overlap \in BOOLEAN
    /\ MayRevert \in BOOLEAN
    /\ MaxLive \in Nat
    /\ MaxTime \in Nat
    /\ MaxRuns \in Nat

VARIABLES
    now,       \* the wall clock
    upstream,  \* endpoint -> the payload it serves
    liveUp,    \* gameweek -> what event/{gw}/live/ serves
    runs,      \* sync_runs, in startedAt order
    stored,    \* part -> the revision its rows hold
    history,   \* history table -> its rows for the tracked player
    snapshot,  \* player_deadline_snapshot: gameweek -> chunk -> row
    live,      \* gameweek_live_snapshot: gameweek -> payload, Empty if no row
    pc,        \* where each process is
    job        \* its local variables

external == <<now, upstream, liveUp>>
tables   == <<stored, history, snapshot, live>>
vars     == <<now, upstream, liveUp, runs, stored, history, snapshot, live, pc, job>>

RunRow     == [endpoint : Endpoint, at : 0..MaxTime, hash : Rev0,
               status : {"running", "success", "skipped", "failed"}]
HistoryRow == [at : RunId, value : Nat \ {NoValue}]
Captured   == [run : 0..MaxRuns, rev : Rev0]
NotTaken   == [run |-> 0, rev |-> NoRev]
Location   == {"idle", "start", "fetch", "check", "resolve", "write", "latest",
               "append", "decide", "capture", "due", "live", "record"}
Job        == [task : Endpoint, force : BOOLEAN, run : 0..MaxRuns, rev : Rev0,
               cursor : Nat \ {0}, known : BOOLEAN, latest : Nat,
               target : SUBSET Gameweek, due : SUBSET Gameweek]
NewJob(e, f) == [task |-> e, force |-> f, run |-> 0, rev |-> NoRev, cursor |-> 1,
                 known |-> FALSE, latest |-> NoValue, target |-> {}, due |-> {}]

TypeOK ==
    /\ now \in 0..MaxTime
    /\ upstream \in [Endpoint -> Rev]
    /\ liveUp \in [Gameweek -> Live]
    /\ runs \in Seq(RunRow)
    /\ Len(runs) <= MaxRuns
    /\ stored \in [Part -> Rev0]
    /\ history \in [History -> SUBSET HistoryRow]
    /\ snapshot \in [Gameweek -> [Chunk -> Captured]]
    /\ live \in [Gameweek -> Live]
    /\ pc \in [Proc -> Location]
    /\ job \in [Proc -> Job]

Init ==
    /\ now = 0
    /\ upstream = [e \in Endpoint |-> 1]
    /\ liveUp = [g \in Gameweek |-> Empty]
    /\ runs = <<>>
    /\ stored = [t \in Part |-> NoRev]
    /\ history = [h \in History |-> {}]
    /\ snapshot = [g \in Gameweek |-> [c \in Chunk |-> NotTaken]]
    /\ live = [g \in Gameweek |-> Empty]
    /\ pc = [p \in Proc |-> "idle"]
    /\ job = [p \in Proc |-> NewJob("bootstrap", FALSE)]

-----------------------------------------------------------------------------
(* Queries of SyncRepository.                                              *)

Good(i, e) ==
    /\ i \in DOMAIN runs
    /\ runs[i].endpoint = e
    /\ runs[i].status \in {"success", "skipped"}
    /\ runs[i].hash # NoRev

(* lastGoodHash(e) === hash                                                *)
LastGoodHashIs(e, hash) ==
    \E i \in DOMAIN runs :
        /\ Good(i, e)
        /\ runs[i].hash = hash
        /\ \A j \in DOMAIN runs : Good(j, e) => j <= i

(* nextDeadline(t) is gameweek g: the first by id whose deadline is later  *)
NextDeadlineIs(t, g) ==
    /\ stored["gameweeks"] # NoRev
    /\ Deadline[g] > t
    /\ \A k \in Gameweek : k < g => Deadline[k] <= t

InWindow(t, g) == Deadline[g] - t <= Window

(* The value of the latest row of a history table, NoValue when empty      *)
LatestIs(h, v) ==
    \/ history[h] = {} /\ v = NoValue
    \/ \E r \in history[h] :
          r.value = v /\ \A s \in history[h] : s.at <= r.at

StoredFinished ==
    IF stored["gameweeks"] = NoRev THEN {} ELSE FinishedIn[stored["gameweeks"]]

(* gameweeksNeedingLiveCapture(LIVE_CAPTURES_PER_RUN), lowest ids first    *)
NeedingLiveCapture ==
    LET waiting == {g \in StoredFinished : live[g] = Empty}
    IN  {g \in waiting : Cardinality({k \in waiting : k < g}) < LiveCap}

StartedAt(p) == runs[job[p].run].at

-----------------------------------------------------------------------------
(* The world outside the process.                                          *)

Tick ==
    /\ now < MaxTime
    /\ now' = now + 1
    /\ UNCHANGED <<upstream, liveUp, runs, tables, pc, job>>

(* A gameweek is reported finished only after its deadline.                *)
UpstreamChange(e, r) ==
    /\ r > upstream[e] \/ (MayRevert /\ r # upstream[e])
    /\ e = "bootstrap" => \A g \in FinishedIn[r] : Deadline[g] <= now
    /\ upstream' = [upstream EXCEPT ![e] = r]
    /\ UNCHANGED <<now, liveUp, runs, tables, pc, job>>

LiveChange(g) ==
    /\ liveUp[g] + 1 \in Live
    /\ Deadline[g] <= now
    /\ liveUp' = [liveUp EXCEPT ![g] = @ + 1]
    /\ UNCHANGED <<now, upstream, runs, tables, pc, job>>

-----------------------------------------------------------------------------
(* The steps of one process.                                               *)

At(p, l) == pc[p] = l
Goto(p, l) == pc' = [pc EXCEPT ![p] = l]

Busy == {p \in Proc : pc[p] # "idle"}

RunIncremental(p, f) ==
    /\ At(p, "idle")
    /\ Overlap \/ Busy = {}
    /\ f => p \in Cli
    /\ Len(runs) + 2 * Cardinality(Busy \cup {p}) <= MaxRuns
    /\ Goto(p, "start")
    /\ job' = [job EXCEPT ![p] = NewJob("bootstrap", f)]
    /\ UNCHANGED <<external, runs, tables>>

StartRun(p) ==
    /\ At(p, "start")
    /\ Len(runs) < MaxRuns
    /\ runs' = Append(runs, [endpoint |-> job[p].task, at |-> now,
                             hash |-> NoRev, status |-> "running"])
    /\ job' = [job EXCEPT ![p].run = Len(runs) + 1]
    /\ Goto(p, "fetch")
    /\ UNCHANGED <<external, tables>>

Fetch(p) ==
    /\ At(p, "fetch")
    /\ job' = [job EXCEPT ![p].rev = upstream[job[p].task]]
    /\ Goto(p, "check")
    /\ UNCHANGED <<external, runs, tables>>

(* finishRun, and then syncFixtures after syncBootstrap, which reads        *)
(* forceSnapshot no more.                                                  *)
FinishRun(p, status, hash) ==
    /\ runs' = [runs EXCEPT ![job[p].run].status = status,
                            ![job[p].run].hash = hash]
    /\ job' = [job EXCEPT ![p] = NewJob("fixtures", FALSE)]
    /\ Goto(p, IF job[p].task = "bootstrap" THEN "start" ELSE "idle")

Skip(p) ==
    /\ At(p, "check")
    /\ LastGoodHashIs(job[p].task, job[p].rev)
    /\ FinishRun(p, "skipped", job[p].rev)
    /\ UNCHANGED <<external, tables>>

NotSkipped(p) ==
    /\ At(p, "check")
    /\ ~LastGoodHashIs(job[p].task, job[p].rev)
    /\ Goto(p, IF job[p].task = "bootstrap" THEN "write" ELSE "resolve")
    /\ UNCHANGED <<external, runs, tables, job>>

(* teamIdByFplId() in syncFixtures; syncBootstrap has just written every   *)
(* team and player its own maps resolve.                                   *)
ResolveTeams(p) ==
    /\ At(p, "resolve")
    /\ job' = [job EXCEPT ![p].known = stored["teams"] # NoRev]
    /\ Goto(p, "write")
    /\ UNCHANGED <<external, runs, tables>>

(* MUTANT of Upsert: fixtures without the relation to their gameweek.      *)
UpsertWithoutRelation(p, part, rev) ==
    IF job[p].task = "fixtures" /\ ~job[p].known
    THEN UNCHANGED stored
    ELSE stored' = [stored EXCEPT ![part] = rev]

(* A fixture whose teams are unknown is passed over; one whose gameweek    *)
(* row is missing breaks the foreign key, so the transaction throws.       *)
Upsert(p, part, rev) ==
    IF job[p].task = "fixtures" /\ ~job[p].known
    THEN UNCHANGED stored
    ELSE /\ job[p].task = "fixtures" => stored["gameweeks"] # NoRev
         /\ stored' = [stored EXCEPT ![part] = rev]

(* MUTANT of WritePart: the loop over the batches stops one short.         *)
WriteAllButLastPart(p) ==
    LET parts == PartsOf[job[p].task]
        last  == job[p].cursor >= Len(parts) - 1
    IN  /\ At(p, "write")
        /\ Upsert(p, parts[job[p].cursor], job[p].rev)
        /\ job' = [job EXCEPT ![p].cursor = IF last THEN 1 ELSE @ + 1]
        /\ Goto(p, IF ~last THEN "write"
                   ELSE IF job[p].task = "bootstrap" THEN "latest" ELSE "record")
        /\ UNCHANGED <<external, runs, history, snapshot, live>>

WritePart(p) ==
    LET parts == PartsOf[job[p].task]
        last  == job[p].cursor = Len(parts)
    IN  /\ At(p, "write")
        /\ Upsert(p, parts[job[p].cursor], job[p].rev)
        /\ job' = [job EXCEPT ![p].cursor = IF last THEN 1 ELSE @ + 1]
        /\ Goto(p, IF ~last THEN "write"
                   ELSE IF job[p].task = "bootstrap" THEN "latest" ELSE "record")
        /\ UNCHANGED <<external, runs, history, snapshot, live>>

(* appendPriceHistory and appendOwnershipHistory: read the latest rows ... *)
ReadLatest(p) ==
    /\ At(p, "latest")
    /\ \E v \in {NoValue} \cup {r.value : r \in history[Tracked[job[p].cursor]]} :
          /\ LatestIs(Tracked[job[p].cursor], v)
          /\ job' = [job EXCEPT ![p].latest = v]
    /\ Goto(p, "append")
    /\ UNCHANGED <<external, runs, tables>>

(* MUTANT of AppendChanged: a row for every run.                           *)
AppendAlways(p) ==
    LET h     == Tracked[job[p].cursor]
        last  == job[p].cursor = Len(Tracked)
    IN  /\ At(p, "append")
        /\ history' = [history EXCEPT ![h] =
               @ \cup {[at |-> job[p].run, value |-> ValueOf[h][job[p].rev]]}]
        /\ job' = [job EXCEPT ![p].cursor = IF last THEN 1 ELSE @ + 1,
                              ![p].latest = NoValue]
        /\ Goto(p, IF last THEN "decide" ELSE "latest")
        /\ UNCHANGED <<external, runs, stored, snapshot, live>>

(* The comparison with the latest row.  A price is compared as a number; a *)
(* percentage as text, the Decimal's ("12") with upstream's ("12.0"), which *)
(* are never equal for a whole number.                                     *)
Unchanged(h, latest, value) ==
    latest = value /\ (h = "ownership" => value \notin WholePercent)

(* ... and append one where the value differs, recordedAt = run.startedAt  *)
AppendChanged(p) ==
    LET h     == Tracked[job[p].cursor]
        value == ValueOf[h][job[p].rev]
        last  == job[p].cursor = Len(Tracked)
    IN  /\ At(p, "append")
        /\ history' = IF Unchanged(h, job[p].latest, value) THEN history
                      ELSE [history EXCEPT ![h] =
                               @ \cup {[at |-> job[p].run, value |-> value]}]
        /\ job' = [job EXCEPT ![p].cursor = IF last THEN 1 ELSE @ + 1,
                              ![p].latest = NoValue]
        /\ Goto(p, IF last THEN "decide" ELSE "latest")
        /\ UNCHANGED <<external, runs, stored, snapshot, live>>

(* MUTANTS of SnapshotTarget: the clock read again after the fetch; the    *)
(* first unfinished gameweek.                                              *)
TargetAtNow(p) ==
    {g \in Gameweek : NextDeadlineIs(now, g) /\ (InWindow(now, g) \/ job[p].force)}
TargetUnfinished(p) ==
    {g \in Gameweek \ StoredFinished :
        /\ \A k \in Gameweek \ StoredFinished : g <= k
        /\ InWindow(StartedAt(p), g) \/ job[p].force}

(* captureDeadlineSnapshotIfDue: empty when nothing is due                 *)
SnapshotTarget(p) ==
    {g \in Gameweek : /\ NextDeadlineIs(StartedAt(p), g)
                      /\ InWindow(StartedAt(p), g) \/ job[p].force}

DecideSnapshot(p) ==
    /\ At(p, "decide")
    /\ job' = [job EXCEPT ![p].target = SnapshotTarget(p)]
    /\ Goto(p, IF SnapshotTarget(p) = {} THEN "due" ELSE "capture")
    /\ UNCHANGED <<external, runs, tables>>

CaptureSnapshot(p) ==
    LET c    == job[p].cursor
        last == c = 2
    IN  /\ At(p, "capture")
        /\ snapshot' = [g \in Gameweek |->
              IF g \in job[p].target
              THEN [snapshot[g] EXCEPT ![c] = [run |-> job[p].run, rev |-> job[p].rev]]
              ELSE snapshot[g]]
        /\ job' = [job EXCEPT ![p].cursor = IF last THEN 1 ELSE @ + 1,
                              ![p].target = IF last THEN {} ELSE @]
        /\ Goto(p, IF last THEN "due" ELSE "capture")
        /\ UNCHANGED <<external, runs, stored, history, live>>

FindDueLive(p) ==
    /\ At(p, "due")
    /\ job' = [job EXCEPT ![p].due = NeedingLiveCapture]
    /\ Goto(p, "live")
    /\ UNCHANGED <<external, runs, tables>>

(* One turn of captureLiveSnapshots: a payload without elements and an     *)
(* error (the second disjunct) both leave the gameweek for another run.    *)
CaptureLive(p, g) ==
    /\ At(p, "live")
    /\ g \in job[p].due
    /\ \A k \in job[p].due : g <= k
    /\ \/ /\ liveUp[g] # Empty
          /\ live' = [live EXCEPT ![g] = liveUp[g]]
       \/ UNCHANGED live
    /\ job' = [job EXCEPT ![p].due = @ \ {g}]
    /\ UNCHANGED <<external, runs, stored, history, snapshot, pc>>

AllWritten(p) == At(p, "record") \/ (At(p, "live") /\ job[p].due = {})

Succeed(p) ==
    /\ AllWritten(p)
    /\ FinishRun(p, "success", job[p].rev)
    /\ UNCHANGED <<external, tables>>

(* MUTANT of Fail: the catch block records the run as a good one.          *)
FailSwallowed(p) ==
    /\ ~At(p, "idle") /\ ~At(p, "start")
    /\ At(p, "live") => job[p].due = {}
    /\ FinishRun(p, "success", job[p].rev)
    /\ UNCHANGED <<external, tables>>

(* An awaited call inside the try block throws: the upstream after its     *)
(* last attempt, or the database.  Live captures catch their own errors.   *)
Fail(p) ==
    /\ ~At(p, "idle") /\ ~At(p, "start")
    /\ At(p, "live") => job[p].due = {}
    /\ FinishRun(p, "failed", NoRev)
    /\ UNCHANGED <<external, tables>>

(* The process dies, or startRun or the catch block's own finishRun        *)
(* throws out of runIncremental: the row keeps the status it had.          *)
Abandon(p) ==
    /\ ~At(p, "idle")
    /\ Goto(p, "idle")
    /\ job' = [job EXCEPT ![p] = NewJob("fixtures", FALSE)]
    /\ UNCHANGED <<external, runs, tables>>

Step(p) ==
    \/ StartRun(p) \/ Fetch(p) \/ Skip(p) \/ NotSkipped(p) \/ ResolveTeams(p)
    \/ WritePart(p) \/ ReadLatest(p) \/ AppendChanged(p) \/ DecideSnapshot(p)
    \/ CaptureSnapshot(p) \/ FindDueLive(p) \/ (\E g \in Gameweek : CaptureLive(p, g))
    \/ Succeed(p) \/ Fail(p)

External ==
    \/ Tick
    \/ \E e \in Endpoint, r \in Rev : UpstreamChange(e, r)
    \/ \E g \in Gameweek : LiveChange(g)

Next ==
    \/ External
    \/ \E p \in Proc :
          \/ \E f \in BOOLEAN : RunIncremental(p, f)
          \/ Step(p)
          \/ Abandon(p)

Spec == Init /\ [][Next]_vars
-----------------------------------------------------------------------------
(* Properties.                                                             *)

(* The locals of a process agree with where it is: an active process owns  *)
(* a running row of its own, has a payload once it has fetched, and its    *)
(* cursor stays inside the list it walks.                                  *)
Active == {p \in Proc : pc[p] \notin {"idle", "start"}}
Bound(p) == IF pc[p] = "write" THEN Len(PartsOf[job[p].task])
            ELSE IF pc[p] \in {"latest", "append", "capture"} THEN 2 ELSE 1
ControlOK ==
    /\ \A p \in Active :
          /\ job[p].run \in DOMAIN runs
          /\ runs[job[p].run].endpoint = job[p].task
          /\ runs[job[p].run].status = "running"
          /\ \A q \in Active : p # q => job[p].run # job[q].run
          /\ pc[p] # "fetch" => job[p].rev \in Rev
          /\ pc[p] = "resolve" => job[p].task = "fixtures"
          /\ pc[p] \notin {"fetch", "check", "resolve", "write", "record"}
                => job[p].task = "bootstrap"
    /\ \A p \in Proc : job[p].cursor <= Bound(p)

(* "The upserts would be no-ops anyway" (sync.service.ts:32): when a run   *)
(* is about to be skipped, every row it would have upserted already holds  *)
(* its payload, and the latest row of every history holds its value.       *)
UpsertsAreNoOps(e, rev) ==
    /\ \A k \in DOMAIN PartsOf[e] : stored[PartsOf[e][k]] = rev
    /\ e = "bootstrap" => \A h \in History : LatestIs(h, ValueOf[h][rev])
AboutToSkip(p, e) ==
    pc[p] = "check" /\ job[p].task = e /\ LastGoodHashIs(e, job[p].rev)
BootstrapSkipIsNoOp ==
    \A p \in Proc :
        AboutToSkip(p, "bootstrap") => UpsertsAreNoOps("bootstrap", job[p].rev)

(* The same sentence of a fixtures run: while the teams and the gameweeks  *)
(* are stored, so that it would pass over no fixture and break no foreign  *)
(* key, they all hold its payload.                                         *)
FixturesSkipIsNoOp ==
    \A p \in Proc :
        (/\ AboutToSkip(p, "fixtures")
         /\ stored["teams"] # NoRev /\ stored["gameweeks"] # NoRev)
            => UpsertsAreNoOps("fixtures", job[p].rev)

Neighbours(h, r, s) ==
    /\ {r, s} \subseteq history[h] /\ r.at < s.at
    /\ ~\E t \in history[h] : r.at < t.at /\ t.at < s.at

(* The histories are append-on-change (sync.repository.ts:309, 336): two   *)
(* neighbouring rows hold different values, except ownership rows of a     *)
(* whole percentage, which the comparison takes for a change every time.   *)
HistoryRecordsChanges ==
    \A h \in History : \A r, s \in history[h] :
        Neighbours(h, r, s) /\ r.value = s.value
            => h = "ownership" /\ r.value \in WholePercent

(* "Append an ownership row per player only where any tracked value        *)
(* changed from the latest row" (sync.repository.ts:336), for every value. *)
OwnershipRecordsChanges ==
    \A r, s \in history["ownership"] :
        Neighbours("ownership", r, s) => r.value # s.value

(* A deadline is never missed by a run that succeeded inside its window:   *)
(* each such run left all its rows, or a later run has replaced them.      *)
DueSnapshotIsKept ==
    \A i \in DOMAIN runs : \A g \in Gameweek :
        (/\ runs[i].endpoint = "bootstrap" /\ runs[i].status = "success"
         /\ NextDeadlineIs(runs[i].at, g) /\ InWindow(runs[i].at, g))
            => \A c \in Chunk : snapshot[g][c].run >= i

(* What was captured before a deadline is what describes the decision      *)
(* (sync.repository.ts:225): a row is only ever replaced by a run that     *)
(* started later, and that run too started before the deadline.            *)
SnapshotMovesForward ==
    [][\A g \in Gameweek, c \in Chunk :
          snapshot'[g][c] # snapshot[g][c] =>
              /\ snapshot'[g][c].run > snapshot[g][c].run
              /\ runs[snapshot'[g][c].run].at < Deadline[g]]_vars

(* A fixture hangs off its teams and its gameweek: no fixture row without  *)
(* them, whatever failed or was abandoned before.                          *)
FixturesHaveParents ==
    (\E t \in {"fixtures1", "fixtures2"} : stored[t] # NoRev)
        => stored["teams"] # NoRev /\ stored["gameweeks"] # NoRev
-----------------------------------------------------------------------------
(* Why a bootstrap skip is a no-op when runs do not overlap and the        *)
(* upstream does not go back to an old payload: the inductive invariant.   *)

(* At most one process is synchronising, its row is the newest, and no     *)
(* history row is newer than the newest run.                               *)
OneWriter ==
    /\ \A p, q \in Proc : pc[p] # "idle" /\ pc[q] # "idle" => p = q
    /\ \A p \in Active : job[p].run = Len(runs)
    /\ \A h \in History : \A r \in history[h] : r.at <= Len(runs)

(* Nothing stored, and no hash recorded, is newer than rev.                *)
NothingNewerThan(rev) ==
    /\ \A k \in 1..5 : stored[PartsOf["bootstrap"][k]] <= rev
    /\ \A i \in DOMAIN runs : Good(i, "bootstrap") => runs[i].hash <= rev

(* How far a bootstrap run has come after its fetch.                       *)
Written(p) ==
    IF pc[p] = "check" THEN 0
    ELSE IF pc[p] = "write" THEN job[p].cursor - 1 ELSE 5
Appended(p) ==
    IF pc[p] \in {"check", "write"} THEN 0
    ELSE IF pc[p] \in {"latest", "append"} THEN job[p].cursor - 1 ELSE 2

BootstrapProgress(p) ==
    /\ job[p].rev <= upstream["bootstrap"]
    /\ NothingNewerThan(job[p].rev)
    /\ pc[p] # "check" => ~LastGoodHashIs("bootstrap", job[p].rev)
    /\ \A k \in 1..Written(p) : stored[PartsOf["bootstrap"][k]] = job[p].rev
    /\ \A k \in 1..2 :
          IF k <= Appended(p)
          THEN LatestIs(Tracked[k], ValueOf[Tracked[k]][job[p].rev])
          ELSE \A r \in history[Tracked[k]] : r.at < job[p].run
    /\ pc[p] = "append" => LatestIs(Tracked[job[p].cursor], job[p].latest)

(* The rows still are what the last good run left, or a later payload has  *)
(* begun to replace them and the upstream will not serve the old one again *)
CleanOrSuperseded ==
    \A rev \in Rev : LastGoodHashIs("bootstrap", rev) =>
        \/ UpsertsAreNoOps("bootstrap", rev)
        \/ \E k \in 1..5 : stored[PartsOf["bootstrap"][k]] > rev

SerialInv ==
    /\ ControlOK
    /\ OneWriter
    /\ NothingNewerThan(upstream["bootstrap"])
    /\ \A p \in Active :
          /\ pc[p] = "fetch" =>
                \A h \in History : \A r \in history[h] : r.at < job[p].run
          /\ job[p].task = "bootstrap" /\ pc[p] # "fetch" => BootstrapProgress(p)
    /\ CleanOrSuperseded
-----------------------------------------------------------------------------
(* The tables of the bootstrap payload and its last good hash, as the      *)
(* mirror of upstream they are kept to be: what a run does to them one     *)
(* transaction after another, fails, dies or is skipped over, is for its   *)
(* readers a table that follows or a payload recorded.                     *)
BootstrapTables == {PartsOf["bootstrap"][k] : k \in 1..5}
BootstrapRows   == [t \in BootstrapTables |-> stored[t]]
LastGoodHashes  == {rev \in Rev : LastGoodHashIs("bootstrap", rev)}

Mirror == INSTANCE SyncMirror WITH
    Table    <- BootstrapTables,
    served   <- upstream["bootstrap"],
    mirror   <- BootstrapRows,
    recorded <- LastGoodHashes

(* Serial runs implement SyncMirror: no failure, death or skip between two *)
(* of syncBootstrap's transactions (sync.service.ts:82-169) is visible as  *)
(* a table that goes back or a hash recorded over tables of two payloads.  *)
ImplementsMirror == Mirror!Spec
=============================================================================
