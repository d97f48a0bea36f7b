------------------------------- MODULE Backfill -------------------------------
(***************************************************************************)
(* The per-player backfill (`pnpm sync:fpl -- --full`, SyncService.runFull)*)
(* and the scoring of served projections that reads its rows               *)
(* (`pnpm score:gameweek`, ServedScoringService.score).                    *)
(*                                                                         *)
(* A player's statistics of a fixture are the number of times upstream has *)
(* settled them: 0 before the match, Final once the gameweek's data are    *)
(* checked.  The incremental sync, which brings the gameweek flags the     *)
(* scorer trusts, is one step here (FplSync is the detailed model).        *)
(***************************************************************************)
EXTENDS Integers, Sequences, FiniteSets

CONSTANTS
    Player,      \* elements of the game
    Fixture,
    GameweekOf,  \* fixture -> gameweek; a double gameweek has two
    Served,      \* gameweeks with rows in `projections`
    Cap,         \* FplApiClient.backfillConcurrency
    Final,       \* BOUND: corrections until the data are checked
    MaxRuns      \* BOUND: backfills

Gameweek == {GameweekOf[f] : f \in Fixture}
Of(g)    == {f \in Fixture : GameweekOf[f] = g}

ASSUME BackfillAssumption ==
    /\ IsFiniteSet(Player)
    /\ GameweekOf \in [Fixture -> Nat]
    /\ Served \subseteq Gameweek
    /\ Cap \in Nat \ {0}
    /\ Final \in Nat \ {0}
    /\ MaxRuns \in Nat

VARIABLES
    points,    \* upstream: fixture -> how far its statistics have settled
    settled,   \* upstream: gameweeks with data_checked
    players,   \* players with a row
    fixtures,  \* fixtures with a row
    checked,   \* gameweeks stored with dataChecked
    stats,     \* player_gameweek_stats: player -> fixture -> what it holds
    past,      \* player_season_history: players whose earlier seasons are stored
    runs,      \* sync_runs of the backfill
    pc, run,   \* the backfill and its local variables
    todo,      \* gameweeks the scorer still has to look at, lowest first
    seen,      \* dataChecked as the scorer read it
    scored     \* gameweeks in the report being made

upstream == <<points, settled>>
synced   == <<players, fixtures, checked>>
backfill == <<stats, past, runs, pc, run>>
scorer   == <<todo, seen, scored>>
vars     == <<upstream, synced, backfill, scorer>>

(* history[] of an element-summary; Failed stands for a request that threw *)
Summary  == [Fixture -> 0..Final]
Nothing  == [f \in Fixture |-> 0]
Failed   == [f \in Fixture |-> -1]

Location == {"idle", "players", "fixtures", "batch", "fetch", "seasons", "record"}
Run      == [known : SUBSET Player, ids : SUBSET Fixture, left : SUBSET Player,
             asked : SUBSET Player, got : [Player -> Summary \cup {Failed}],
             missed : BOOLEAN]
NoRun    == [known |-> {}, ids |-> {}, left |-> {}, asked |-> {},
             got |-> [p \in Player |-> Failed], missed |-> FALSE]

(* A sync_runs row; for the properties, what the run found when it began:  *)
(* the players it knew, and how far its known fixtures had settled.        *)
RunRow   == [status : {"running", "success", "partial", "failed"},
             known : SUBSET Player, since : Summary]

TypeOK ==
    /\ points \in Summary
    /\ settled \subseteq Gameweek
    /\ players \subseteq Player
    /\ fixtures \subseteq Fixture
    /\ checked \subseteq Gameweek
    /\ stats \in [Player -> Summary]
    /\ past \subseteq Player
    /\ runs \in Seq(RunRow)
    /\ pc \in Location
    /\ run \in Run
    /\ todo \subseteq Served
    /\ seen \subseteq Gameweek
    /\ scored \subseteq Served

Init ==
    /\ points = Nothing
    /\ settled = {}
    /\ players = {}
    /\ fixtures = {}
    /\ checked = {}
    /\ stats = [p \in Player |-> Nothing]
    /\ past = {}
    /\ runs = <<>>
    /\ pc = "idle"
    /\ run = NoRun
    /\ todo = {}
    /\ seen = {}
    /\ scored = {}

-----------------------------------------------------------------------------
(* The upstream, and the incremental sync.                                 *)

(* A match is played, its bonus added, a statistic corrected.              *)
Settle(f) ==
    /\ GameweekOf[f] \notin settled
    /\ points[f] < Final
    /\ points' = [points EXCEPT ![f] = @ + 1]
    /\ UNCHANGED <<settled, synced, backfill, scorer>>

DataChecked(g) ==
    /\ \A f \in Of(g) : points[f] = Final
    /\ settled' = settled \cup {g}
    /\ UNCHANGED <<points, synced, backfill, scorer>>

(* runIncremental; its fixtures half may fail by itself.                   *)
RunIncremental ==
    /\ players' = Player
    /\ checked' = settled
    /\ fixtures' \in {fixtures, Fixture}
    /\ UNCHANGED <<upstream, backfill, scorer>>

-----------------------------------------------------------------------------
(* SyncService.runFull.                                                    *)

StartRun ==
    /\ pc = "idle"
    /\ Len(runs) < MaxRuns
    /\ runs' = Append(runs, [status |-> "running", known |-> {}, since |-> Nothing])
    /\ pc' = "players"
    /\ run' = NoRun
    /\ UNCHANGED <<upstream, synced, stats, past, scorer>>

(* playerIdByFplId()                                                       *)
ReadPlayers ==
    /\ pc = "players"
    /\ run' = [run EXCEPT !.known = players, !.left = players]
    /\ pc' = "fixtures"
    /\ UNCHANGED <<upstream, synced, stats, past, runs, scorer>>

FinishRun(status) ==
    /\ runs' = [runs EXCEPT ![Len(runs)].status = status]
    /\ pc' = "idle"
    /\ run' = NoRun

(* fixtureIdByFplId(), and then the check for an empty database            *)
ReadFixtures ==
    /\ pc = "fixtures"
    /\ IF run.known = {}
       THEN FinishRun("failed")
       ELSE /\ run' = [run EXCEPT !.ids = fixtures]
            /\ runs' = [runs EXCEPT ![Len(runs)].known = run.known,
                  ![Len(runs)].since =
                     [f \in Fixture |-> IF f \in fixtures THEN points[f] ELSE 0]]
            /\ pc' = "batch"
    /\ UNCHANGED <<upstream, synced, stats, past, scorer>>

(* The next Cap players are asked for at once; the map has no order.       *)
TakeBatch ==
    /\ pc = "batch"
    /\ \E b \in SUBSET run.left :
          /\ Cardinality(b) = Cap \/ (b = run.left /\ Cardinality(b) < Cap)
          /\ run' = [run EXCEPT !.left = @ \ b, !.asked = b,
                                !.got = [p \in Player |-> Failed]]
    /\ pc' = "fetch"
    /\ UNCHANGED <<upstream, synced, stats, past, runs, scorer>>

(* One answer of the Promise.all; an error is counted and passed over.     *)
Answer(p) ==
    /\ pc = "fetch"
    /\ p \in run.asked
    /\ \E s \in {points, Failed} :
          run' = [run EXCEPT !.asked = @ \ {p}, !.got[p] = s,
                             !.missed = @ \/ s = Failed]
    /\ UNCHANGED <<upstream, synced, stats, past, runs, pc, scorer>>

Got == {p \in run.known : run.got[p] # Failed}

(* upsertGameweekStats: a batch of players is less than a chunk, so it is  *)
(* one transaction; a row of a fixture without an id is passed over.       *)
WriteStats ==
    /\ pc = "fetch"
    /\ run.asked = {}
    /\ stats' = [p \in Player |-> [f \in Fixture |->
          IF p \in Got /\ f \in run.ids /\ run.got[p][f] # 0
          THEN run.got[p][f] ELSE stats[p][f]]]
    /\ pc' = "seasons"
    /\ UNCHANGED <<upstream, synced, past, runs, run, scorer>>

(* upsertSeasonHistory, and the pause before the next batch                *)
WriteSeasons ==
    /\ pc = "seasons"
    /\ past' = past \cup Got
    /\ pc' = IF run.left = {} THEN "record" ELSE "batch"
    /\ UNCHANGED <<upstream, synced, stats, runs, run, scorer>>

(* MUTANT of Finish: the players that failed are not counted.              *)
FinishAsSuccess ==
    /\ pc = "record"
    /\ FinishRun("success")
    /\ UNCHANGED <<upstream, synced, stats, past, scorer>>

Finish ==
    /\ pc = "record"
    /\ FinishRun(IF run.missed THEN "partial" ELSE "success")
    /\ UNCHANGED <<upstream, synced, stats, past, scorer>>

(* A call to the database throws ...                                       *)
Fail ==
    /\ pc # "idle"
    /\ FinishRun("failed")
    /\ UNCHANGED <<upstream, synced, stats, past, scorer>>

(* ... or the process dies, or the catch block's finishRun throws as well. *)
Abandon ==
    /\ pc # "idle"
    /\ pc' = "idle"
    /\ run' = NoRun
    /\ UNCHANGED <<upstream, synced, stats, past, runs, scorer>>

-----------------------------------------------------------------------------
(* ServedScoringService.score.                                             *)

(* MUTANT of Readable: gated on `finished`, every match played.            *)
Finished == {g \in Gameweek : \A f \in Of(g) : points[f] > 0}
Readable == checked

(* The gameweeks and their flags are read once.                            *)
ReadGameweeks ==
    /\ todo = {}
    /\ todo' = Served
    /\ seen' = Readable
    /\ scored' = {}
    /\ UNCHANGED <<upstream, synced, backfill>>

(* One turn of the loop.  scoreOne reads the rows of every player and sums *)
(* over the gameweek's fixtures.                                           *)
ScoreOne(g) ==
    /\ g \in todo
    /\ \A k \in todo : g <= k
    /\ todo' = todo \ {g}
    /\ scored' = IF g \in seen THEN scored \cup {g} ELSE scored
    /\ UNCHANGED <<upstream, synced, backfill, seen>>

Next ==
    \/ \E f \in Fixture : Settle(f)
    \/ \E g \in Gameweek : DataChecked(g)
    \/ RunIncremental
    \/ StartRun \/ ReadPlayers \/ ReadFixtures \/ TakeBatch
    \/ \E p \in Player : Answer(p)
    \/ WriteStats \/ WriteSeasons \/ Finish \/ Fail \/ Abandon
    \/ ReadGameweeks
    \/ \E g \in Served : ScoreOne(g)

Spec == Init /\ [][Next]_vars
-----------------------------------------------------------------------------
(* Properties.                                                             *)

(* A run recorded as `success` (sync.service.ts:300) has brought every row *)
(* of the players and fixtures it knew at least as far as upstream was     *)
(* when it began, and no later run, failed or partial, undoes it.          *)
SuccessIsComplete ==
    \A i \in DOMAIN runs : runs[i].status = "success" =>
        /\ runs[i].known \subseteq past
        /\ \A p \in runs[i].known, f \in Fixture : stats[p][f] >= runs[i].since[f]

(* The rows of a gameweek in the report are what upstream ended with.      *)
FinalRows(g) == \A p \in Player, f \in Of(g) : stats[p][f] = Final

(* A gameweek is scored only when upstream will edit it no more, and, if a *)
(* backfill has succeeded that began after that, on the final rows.        *)
ScoredWhenSettled ==
    [][\A g \in scored' \ scored :
          /\ g \in settled
          /\ (\E i \in DOMAIN runs :
                 /\ runs[i].status = "success"
                 /\ runs[i].known = Player
                 /\ \A f \in Of(g) : runs[i].since[f] = Final)
                => FinalRows(g)]_vars

(* What the gate on dataChecked is for (served-scoring.service.ts:236-238):*)
(* no report grades the model on numbers FPL went on to edit.  False: the  *)
(* flag is brought by the sync, the numbers by an older backfill.          *)
GradedOnFinalRows ==
    \A g \in scored : \A p \in Player, f \in Of(g) : stats[p][f] \in {0, Final}
=============================================================================
