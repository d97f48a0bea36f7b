----------------------------- MODULE Projections -----------------------------
(***************************************************************************)
(* Who writes the projections table and when: the hourly job of            *)
(* SyncScheduler (a sync, then a projection run when a deadline is near)   *)
(* and `pnpm project`, both through ProjectionsService.run.  The scheduler *)
(* keeps its own invocations apart with the in-memory flag `running`; a    *)
(* run started by hand is another process and does not see it.             *)
(*                                                                         *)
(* Any change of what a forecast reads, one committed transaction of a     *)
(* sync (FplSync is the detailed model), brings the database to its next   *)
(* state.  A projection row is the pair of the oldest and the newest state *)
(* that the queries behind it saw; each await of a run is a step.          *)
(***************************************************************************)
EXTENDS Integers, FiniteSets

CONSTANTS
    Hourly,       \* invocations of the hourly job inside the application
    Manual,       \* runs of `pnpm project`
    Player,       \* players; each stands for a batch of 200 rows too
    Deadline,     \* gameweek -> deadline
    Playing,      \* state -> gameweek -> players with a fixture in it
    Listed,       \* state -> players whose code has an id
    Window,       \* SNAPSHOT_WINDOW_HOURS, in ticks
    Horizon,      \* HORIZON: gameweeks a run projects
    NumVersions,  \* model versions a run writes, the served one first
    MaxInputs,    \* BOUND: states of what a forecast reads
    MaxTime       \* BOUND: ticks of the clock

Gameweek  == DOMAIN Deadline
State     == 0..MaxInputs
Version   == 1..NumVersions
Served    == 1
Composite == 2
Runner    == Hourly \cup Manual
Key       == Gameweek \X Player
Stamp     == [from : State, to : State]
NoRow     == [from |-> 0, to |-> 0]

ASSUME ProjectionsAssumption ==
    /\ Hourly \cap Manual = {}
    /\ DOMAIN Deadline \subseteq Nat
    /\ Deadline \in [DOMAIN Deadline -> Nat]
    /\ MaxInputs \in Nat
    /\ Playing \in [0..MaxInputs -> [DOMAIN Deadline -> SUBSET Player]]
    /\ Listed \in [0..MaxInputs -> SUBSET Player]
    /\ Window \in Nat
    /\ Horizon \in Nat \ {0}
    /\ NumVersions \in Nat \ {0}
    /\ MaxTime \in Nat

VARIABLES
    now,       \* the wall clock
    inputs,    \* state of the tables a forecast reads, 0 before any sync
    finished,  \* gameweeks stored as finished
    rows,      \* projections: version -> (gameweek, player) -> its row
    running,   \* SyncScheduler.running
    pc,        \* where each runner is
    run        \* its local variables

vars == <<now, inputs, finished, rows, running, pc, run>>

(* A run's version and horizon, the states its reads saw (the horizon's,   *)
(* the history's, the ids', each gameweek's), the gameweeks still to read, *)
(* and the rows it has yet to write.  `beside` is no variable of the code: *)
(* another run that no lock keeps apart from this one overlaps it.         *)
Location == {"idle", "sync", "near", "horizon", "history", "ids", "fixtures",
             "flags", "write"}
Run      == [version : Version, horizon : SUBSET Gameweek, beside : BOOLEAN,
             began : State, from : State, ids : State, to : [Gameweek -> State],
             todo : SUBSET Gameweek, left : SUBSET Key]
Unread   == [g \in Gameweek |-> 0]
NoRun    == [version |-> Served, horizon |-> {}, beside |-> FALSE, began |-> 0,
             from |-> 0, ids |-> 0, to |-> Unread, todo |-> {}, left |-> {}]

TypeOK ==
    /\ now \in 0..MaxTime
    /\ inputs \in State
    /\ finished \subseteq Gameweek
    /\ rows \in [Version -> [Key -> Stamp]]
    /\ running \in BOOLEAN
    /\ pc \in [Runner -> Location]
    /\ run \in [Runner -> Run]

Init ==
    /\ now = 0
    /\ inputs = 0
    /\ finished = {}
    /\ rows = [v \in Version |-> [b \in Key |-> NoRow]]
    /\ running = FALSE
    /\ pc = [p \in Runner |-> "idle"]
    /\ run = [p \in Runner |-> NoRun]

At(p, l) == pc[p] = l
Under(p) == pc[p] # "idle"
Computing(p) == pc[p] \notin {"idle", "sync", "near", "horizon"}
Goto(p, l) == pc' = [pc EXCEPT ![p] = l]

(* No lock keeps a run by hand apart from another run.                     *)
Meets(p, q) == p # q /\ (p \in Manual \/ q \in Manual)

(* Before the first sync there is no gameweek row to find.                 *)
Known == IF inputs = 0 THEN {} ELSE Gameweek

(* nextDeadline(now), as in FplSync                                        *)
NextDeadlineIs(g) ==
    /\ g \in Known
    /\ Deadline[g] > now
    /\ \A k \in Gameweek : k < g => Deadline[k] <= now

(* horizonGameweeks(n)                                                     *)
HorizonGameweeks ==
    LET open == {g \in Known : g \notin finished /\ Deadline[g] > now}
    IN  {g \in open : Cardinality({k \in open : k < g}) < Horizon}

Tick ==
    /\ now < MaxTime
    /\ now' = now + 1
    /\ UNCHANGED <<inputs, finished, rows, running, pc, run>>

(* A transaction of a sync pass that changed something                     *)
Synced ==
    /\ inputs < MaxInputs
    /\ inputs' = inputs + 1
    /\ \E f \in SUBSET {g \in Gameweek : Deadline[g] < now} :
          finished' = finished \cup f

(* `pnpm sync:fpl` by hand: a process that no flag here knows of.          *)
SyncByHand == Synced /\ UNCHANGED <<now, rows, running, pc, run>>

-----------------------------------------------------------------------------
(* MUTANT of End: the flag is not cleared in a finally.                    *)
EndWithoutFinally(p) ==
    /\ Goto(p, "idle")
    /\ run' = [run EXCEPT ![p] = NoRun]
    /\ UNCHANGED running

(* A run ends; hourlyIncremental's finally clears the flag.                *)
End(p) ==
    /\ Goto(p, "idle")
    /\ run' = [run EXCEPT ![p] = NoRun]
    /\ running' = (running /\ p \notin Hourly)

(* MUTANT of HourlyIncremental: the flag is not looked at.                 *)
HourlyWithoutGuard(p) ==
    /\ p \in Hourly
    /\ At(p, "idle")
    /\ running' = TRUE
    /\ Goto(p, "sync")
    /\ UNCHANGED <<now, inputs, finished, rows, run>>

(* The cron fires.  With the flag set it only logs.                        *)
HourlyIncremental(p) ==
    /\ p \in Hourly
    /\ At(p, "idle")
    /\ ~running
    /\ running' = TRUE
    /\ Goto(p, "sync")
    /\ UNCHANGED <<now, inputs, finished, rows, run>>

(* runIncremental returns, with or without something new in the database;  *)
(* a failed endpoint is in its summary and does not stop the job.          *)
RunIncremental(p) ==
    /\ At(p, "sync")
    /\ Synced \/ UNCHANGED <<inputs, finished>>
    /\ Goto(p, "near")
    /\ UNCHANGED <<now, rows, running, run>>

(* projectIfDeadlineNear reads the clock and the next deadline             *)
ProjectIfDeadlineNear(p) ==
    /\ At(p, "near")
    /\ \/ /\ \E g \in Gameweek : NextDeadlineIs(g) /\ Deadline[g] - now <= Window
          /\ Goto(p, "horizon")
          /\ UNCHANGED <<running, run>>
       \/ /\ ~\E g \in Gameweek : NextDeadlineIs(g) /\ Deadline[g] - now <= Window
          /\ End(p)
    /\ UNCHANGED <<now, inputs, finished, rows>>

RunProject(p) ==
    /\ p \in Manual
    /\ At(p, "idle")
    /\ Goto(p, "horizon")
    /\ UNCHANGED <<now, inputs, finished, rows, running, run>>

ReadHorizon(p) ==
    LET met == {q \in Runner : Computing(q) /\ Meets(p, q)}
    IN  /\ At(p, "horizon")
        /\ HorizonGameweeks # {}
        /\ run' = [q \in Runner |->
              IF q = p THEN [NoRun EXCEPT !.horizon = HorizonGameweeks,
                                          !.beside = met # {}, !.began = inputs]
              ELSE IF q \in met THEN [run[q] EXCEPT !.beside = TRUE]
              ELSE run[q]]
        /\ Goto(p, "history")
        /\ UNCHANGED <<now, inputs, finished, rows, running>>

(* forecastMany, and CandidateService.run: the scoring and the history are *)
(* read once for all gameweeks, and so are the ids of the players.         *)
ReadHistory(p) ==
    /\ At(p, "history")
    /\ run' = [run EXCEPT ![p].from = inputs]
    /\ Goto(p, "ids")
    /\ UNCHANGED <<now, inputs, finished, rows, running>>

ReadIds(p) ==
    /\ At(p, "ids")
    /\ run' = [run EXCEPT ![p].ids = inputs, ![p].todo = run[p].horizon]
    /\ Goto(p, "fixtures")
    /\ UNCHANGED <<now, inputs, finished, rows, running>>

(* One turn of the loop: syntheticRowsFor, and with it the players that    *)
(* get an entry; those without an id get no row.  A gameweek without       *)
(* fixtures throws, except in the composite candidate, which goes on.      *)
ReadFixtures(p, g) ==
    /\ At(p, "fixtures")
    /\ g \in run[p].todo
    /\ \A k \in run[p].todo : g <= k
    /\ Playing[inputs][g] # {} \/ run[p].version = Composite
    /\ run' = [run EXCEPT
          ![p].left = @ \cup {g} \X (Playing[inputs][g] \cap Listed[run[p].ids])]
    /\ Goto(p, "flags")
    /\ UNCHANGED <<now, inputs, finished, rows, running>>

(* availabilityByCode and epNextByCode, sent together with it: answered in *)
(* the other order, the gameweek has seen no more than it has here.        *)
ReadFlags(p, g) ==
    /\ At(p, "flags")
    /\ g \in run[p].todo
    /\ \A k \in run[p].todo : g <= k
    /\ run' = [run EXCEPT ![p].to[g] = inputs, ![p].todo = @ \ {g}]
    /\ Goto(p, IF run[p].todo = {g} THEN "write" ELSE "fixtures")
    /\ UNCHANGED <<now, inputs, finished, rows, running>>

(* The next version's turn, which reads everything again, or the end of    *)
(* ProjectionsService.run                                                  *)
NextVersion(p) ==
    IF run[p].version = NumVersions
    THEN End(p)
    ELSE /\ run' = [run EXCEPT ![p] = [NoRun EXCEPT
                !.version = run[p].version + 1, !.horizon = run[p].horizon,
                !.beside = run[p].beside, !.began = run[p].began]]
         /\ Goto(p, "history")
         /\ UNCHANGED running

(* One upsert of writeProjections: rows of earlier gameweeks first; a row  *)
(* that this run has nothing for stays as it was.                          *)
WriteRow(p, b) ==
    /\ At(p, "write")
    /\ b \in run[p].left
    /\ \A c \in run[p].left : b[1] <= c[1]
    /\ rows' = [rows EXCEPT ![run[p].version][b] =
                    [from |-> run[p].from, to |-> run[p].to[b[1]]]]
    /\ run' = [run EXCEPT ![p].left = @ \ {b}]
    /\ UNCHANGED <<now, inputs, finished, running, pc>>

(* MUTANT of Written: the loop over the batches ends one too early.        *)
WrittenButLast(p) ==
    /\ At(p, "write")
    /\ Cardinality(run[p].left) <= 1
    /\ NextVersion(p)
    /\ UNCHANGED <<now, inputs, finished, rows>>

Written(p) ==
    /\ At(p, "write")
    /\ run[p].left = {}
    /\ NextVersion(p)
    /\ UNCHANGED <<now, inputs, finished, rows>>

(* MUTANT of Throw: the served version's error is caught as well.          *)
ThrowCaught(p) ==
    /\ Under(p)
    /\ IF Computing(p) THEN NextVersion(p) ELSE End(p)
    /\ UNCHANGED <<now, inputs, finished, rows>>

(* A call throws.  A candidate's error is caught and the next one has its  *)
(* turn; any other leaves the run, and in the scheduler the finally runs.  *)
Throw(p) ==
    /\ Under(p)
    /\ IF Computing(p) /\ run[p].version # Served THEN NextVersion(p) ELSE End(p)
    /\ UNCHANGED <<now, inputs, finished, rows>>

(* The application dies and comes back; a manual run's death is a Throw.   *)
Restart ==
    /\ running
    /\ running' = FALSE
    /\ pc' = [p \in Runner |-> IF p \in Hourly THEN "idle" ELSE pc[p]]
    /\ run' = [p \in Runner |-> IF p \in Hourly THEN NoRun ELSE run[p]]
    /\ UNCHANGED <<now, inputs, finished, rows>>

(* What awaits on something that answers.                                  *)
Proceed(p) ==
    \/ RunIncremental(p) \/ ProjectIfDeadlineNear(p) \/ ReadHorizon(p)
    \/ ReadHistory(p) \/ ReadIds(p)
    \/ (\E g \in Gameweek : ReadFixtures(p, g) \/ ReadFlags(p, g))
    \/ (\E b \in Key : WriteRow(p, b))
    \/ Written(p) \/ Throw(p)

Next ==
    \/ Tick
    \/ SyncByHand
    \/ Restart
    \/ \E p \in Runner : HourlyIncremental(p) \/ RunProject(p) \/ Proceed(p)

(* The event loop resumes what it awaits: the upstream client gives up     *)
(* after its timeout and last attempt, a transaction after 120 s.          *)
Fairness == \A p \in Hourly : WF_vars(Proceed(p))
Spec     == Init /\ [][Next]_vars /\ Fairness
-----------------------------------------------------------------------------
(* Properties.                                                             *)

(* "A locked run guards against overlap" (sync.scheduler.ts:19): the flag  *)
(* is up exactly while one hourly invocation is on its way.                *)
LockIsHeld ==
    /\ running <=> \E p \in Hourly : ~At(p, "idle")
    /\ \A p, q \in Hourly : ~At(p, "idle") /\ ~At(q, "idle") => p = q

(* Whatever throws, hangs until its timeout or restarts, the hourly job    *)
(* gets another turn.                                                      *)
LockIsReleased == running ~> ~running

(* In one of the states from s to t the player had no fixture in the       *)
(* gameweek, or no id.                                                     *)
WasWithout(b, s, t) ==
    \E n \in s..t : b[2] \notin Playing[n][b[1]] \cap Listed[n]

(* The served rows are not hostage to a candidate's (projections.service   *)
(* .ts:158) and come first: a row a run is about to write for a candidate  *)
(* has a served row beside it, unless a sync gave the player his fixture   *)
(* or his id since the run began.                                          *)
CandidatesFollow ==
    \A p \in Runner : \A b \in run[p].left :
        (At(p, "write") /\ run[p].version # Served) =>
            \/ rows[Served][b] # NoRow
            \/ WasWithout(b, run[p].began, run[p].from)

(* "The final pre-deadline write is the freshest availability"             *)
(* (sync.scheduler.ts:15), of runs that do not overlap: all that a row was *)
(* computed from is as old as what its replacement's run read first.       *)
NoOlderOverwrite ==
    [][\A p \in Runner, v \in Version, b \in Key :
          (/\ run'[p] # run[p] /\ ~run[p].beside
           /\ rows'[v][b] # rows[v][b] /\ rows[v][b] # NoRow)
              => rows'[v][b].from >= rows[v][b].to]_vars

(* A run that goes on to the candidates has left a served row of its own   *)
(* for every player and gameweek of its horizon, all over one history; of  *)
(* those who were without a fixture or an id in a state it saw, perhaps an *)
(* older row, or none.                                                     *)
ServedTableIsWhole ==
    [][\A p \in Runner : \A b \in run[p].horizon \X Player :
          (/\ run[p].version = Served /\ run'[p].version # Served
           /\ ~run[p].beside)
              => \/ rows[Served][b] = [from |-> run[p].from, to |-> run[p].to[b[1]]]
                 \/ WasWithout(b, run[p].from, run[p].to[b[1]])]_vars
-----------------------------------------------------------------------------
(* What is said of the table and does not hold.                            *)

(* "The final pre-deadline write is the freshest availability"             *)
(* (sync.scheduler.ts:15), of every write.                                 *)
FinalWriteIsFreshest ==
    [][\A v \in Version, b \in Key : rows'[v][b].to >= rows[v][b].to]_vars

(* Rows "are the record of what the model said while the decision was      *)
(* still open" (projections.repository.ts:47): none is written after its   *)
(* deadline.                                                               *)
WrittenWhileOpen ==
    [][\A v \in Version, b \in Key :
          rows'[v][b] # rows[v][b] => now < Deadline[b[1]]]_vars

(* "A player with no row for the next gameweek - a blank"                  *)
(* (optimizer.service.ts:323): when a run alone goes on to the candidates  *)
(* and nothing has changed since it began, who blanks has no served row.   *)
BlankHasNoRow ==
    [][\A p \in Runner : \A b \in run[p].horizon \X Player :
          (/\ run[p].version = Served /\ run'[p].version # Served
           /\ ~run[p].beside /\ run[p].began = inputs)
              => rows[Served][b] = NoRow \/ b[2] \in Playing[inputs][b[1]]]_vars
=============================================================================
