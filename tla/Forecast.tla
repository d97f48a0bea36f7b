------------------------------- MODULE Forecast -------------------------------
(***************************************************************************)
(* A gameweek that has not been played, projected by the walk that         *)
(* measures the ones that have (projections/forecast.service.ts over       *)
(* forecast.repository.ts and model-v2.ts): its fixtures become rows with  *)
(* every stat left at zero, which are scored when the walk reaches them.   *)
(*                                                                         *)
(* A projection is what it rests on: which minutes, which rates, which     *)
(* clubs.  Its points are not computed.                                    *)
(***************************************************************************)
EXTENDS WalkForward

CONSTANTS
    Calls,         \* what the database says when a gameweek is projected
    CurrentSeason  \* ForecastRepository.CURRENT_SEASON

(* A call is [target, fixtures, players, snapshot, isNext]: fixtures are   *)
(* gameweek -> pairs of clubs, players player -> [team, removed, flag, ep],*)
(* snapshot the deadline's flags and ep_next of those captured.  A flag is *)
(* [status, chance].  A version's params also say whether availability is  *)
(* fitted and whether the crowd is blended in.                             *)
VARIABLES
    call,   \* the call being answered, none in a backtest
    served  \* player -> his forecast for the gameweek

forecastVars == <<walkVars, call, served>>

NoCall == <<>>
Forecasting == call # NoCall

-----------------------------------------------------------------------------
(* ForecastRepository.                                                     *)

RowAsked(c, gw, index, p, f) ==
    LET home == c.players[p].team = f[1]
    IN  [season |-> CurrentSeason, round |-> gw, fixture |-> 10000 + index, player |-> p,
         team |-> c.players[p].team, opp |-> IF home THEN f[2] ELSE f[1], home |-> home,
         minutes |-> 0, starts |-> 0, prob |-> Null, xg |-> 0, ep |-> Null]

RowsAsked(c, gw) ==
    LET of(team) == SetToSeq({p \in DOMAIN c.players : ~c.players[p].removed /\ c.players[p].team = team})
        both(f)  == of(f[1]) \o of(f[2])
    IN  FlattenSeq([i \in DOMAIN c.fixtures[gw] |->
            [j \in DOMAIN both(c.fixtures[gw][i]) |->
                RowAsked(c, gw, i, both(c.fixtures[gw][i])[j], c.fixtures[gw][i])]])

(* A slip: one walk for the horizon, the gameweeks before the target asked *)
(* of it too.                                                              *)
RowsOfTheHorizon(c) == FlattenSeq([gw \in DOMAIN c.fixtures |-> IF gw <= c.target THEN RowsAsked(c, gw) ELSE <<>>])

(* syntheticRowsFor: the fixtures of the target alone.                     *)
SyntheticRowsFor(c) == RowsAsked(c, c.target)

(* The fixtures of a call are of the gameweeks the database knows.  Its    *)
(* rows are added to those of the history, whose fixtures are numbered     *)
(* below theirs, and make no fixture a second time.                        *)
ASSUME CallsAssumption ==
    \A c \in Calls :
        /\ c # NoCall
        /\ c.target \in DOMAIN c.fixtures /\ c.fixtures[c.target] \in Seq(Int \X Int)
        /\ IsFiniteSet(DOMAIN c.players)
        /\ \A h \in Histories : /\ WellFormed(h \o SyntheticRowsFor(c))
                               /\ h \in Seq(ToSet(h))
                               /\ \A r \in ToSet(h) : r.fixture \in Int /\ r.fixture < 10000

Synthetic(r) == r \in ToSet(SyntheticRowsFor(call))

(* availabilityByCode: what the deadline captured, else the live row.      *)
AvailabilityByCode(p) ==
    IF p \in DOMAIN call.snapshot THEN call.snapshot[p].flag ELSE call.players[p].flag

(* A slip: the live ep_next whatever gameweek it is about.                 *)
EpNextOfAnyGameweek == [p \in {q \in DOMAIN call.players : call.players[q].ep # Null} |-> call.players[p].ep]

(* epNextByCode: the captured ones, else the live ones of the next         *)
(* gameweek, none for a later one.                                         *)
EpNextByCode ==
    LET captured == {p \in DOMAIN call.snapshot : call.snapshot[p].ep # Null}
        live     == {p \in DOMAIN call.players : call.players[p].ep # Null}
    IN  CASE captured # {} -> [p \in captured |-> call.snapshot[p].ep]
          [] captured = {} /\ call.isNext -> [p \in live |-> call.players[p].ep]
          [] OTHER -> <<>>

-----------------------------------------------------------------------------
(* model-v2.ts                                                             *)

(* availabilityMultiplier, in percent.                                     *)
AvailabilityMultiplier(a) ==
    CASE a.status \in {"i", "s", "u", "n"} -> 0
      [] a.status \notin {"i", "s", "u", "n"} /\ a.chance # Null -> a.chance
      [] a.status = "d" /\ a.chance = Null -> 50
      [] OTHER -> 100

(* availabilitySignal: the chance that is left of a flag.                  *)
AvailabilitySignal(a) ==
    CASE a.status \in {"u", "n", "s"} -> 0
      [] a.status \notin {"u", "n", "s"} /\ a.chance # Null -> a.chance
      [] a.status = "d" /\ a.chance = Null -> 50
      [] a.status = "i" /\ a.chance = Null -> 0
      [] OTHER -> 100

NoMinutes == [play |-> 0, start |-> <<>>, sub |-> <<>>, behaviour |-> {}]

(* minutesDistribution: the lagged record scaled by the multiplier; fitted,*)
(* a flag goes into the curves and replaces the minutes of a start.        *)
MinutesDistribution(f, a) ==
    LET left == IF params.fitted THEN AvailabilitySignal(a) ELSE AvailabilityMultiplier(a)
    IN  IF left = 0 THEN NoMinutes
        ELSE [play |-> left, start |-> f.start, sub |-> f.sub,
              behaviour |-> IF params.fitted /\ left < 100 THEN {} ELSE f.behaviour]

(* projectFixtureV2                                                        *)
ProjectFixture(x, minutes) ==
    [row |-> x.row, minutes |-> minutes,
     rates |-> IF minutes.play = 0 THEN {} ELSE x.features.rates, goals |-> x.rates]

-----------------------------------------------------------------------------
(* ForecastService.                                                        *)

ForecastInit ==
    /\ served = <<>>
    /\ \/ WalkInit /\ call = NoCall
       \/ /\ call \in Calls /\ params \in Parameters /\ NothingWalked
          /\ SyntheticRowsFor(call) # <<>>    \* "gameweek has no fixtures" is thrown
          /\ \E h \in Histories : history = h \o SyntheticRowsFor(call)

(* foldFixture: the matches of a gameweek add up.                          *)
FoldFixtures(parts) == [parts |-> parts, market |-> {}]

(* forecastOne: of every round the rows asked about, in the order they     *)
(* come; the others are passed by.                                         *)
Asked == Picked(items, {i \in DOMAIN items : Synthetic(items[i].row)})
AskedOf(p) == Picked(Asked, {i \in DOMAIN Asked : Asked[i].row.player = p})
PartOf(x) == ProjectFixture(x, MinutesDistribution(x.features, AvailabilityByCode(x.row.player)))

Serve ==
    /\ Forecasting /\ step = "project"
    /\ LET now == {x.row.player : x \in ToSet(Asked)}
       IN  served' = [p \in DOMAIN served \cup now |->
                          IF p \in now THEN FoldFixtures([n \in DOMAIN AskedOf(p) |-> PartOf(AskedOf(p)[n])])
                          ELSE served[p]]
    /\ step' = "fold"
    /\ UNCHANGED <<history, params, clock, career, seasonAcc, lastSeason, decayed, strength,
                   priors, items, future, emitted, skipped, playerHist, teamHist, exported, call>>

(* applyServedBlend, with ep_next at the level of those who have one.      *)
ServedBlend ==
    LET ep   == EpNextByCode
        both == DOMAIN served \cap DOMAIN ep
    IN  IF ~params.crowd \/ FoldSet(LAMBDA p, acc : acc + ep[p], 0, both) <= 0 THEN served
        ELSE [p \in DOMAIN served |-> [served[p] EXCEPT !.market = IF p \in both THEN both ELSE {}]]

FinishForecast ==
    /\ Forecasting /\ step = "begin" /\ Ahead = {}
    /\ served' = ServedBlend
    /\ step' = "served"
    /\ UNCHANGED <<history, params, clock, career, seasonAcc, lastSeason, decayed, strength,
                   priors, items, future, emitted, skipped, playerHist, teamHist, exported, call>>

ForecastNext ==
    \/ ~Forecasting /\ WalkNext /\ UNCHANGED <<call, served>>
    \/ Forecasting /\ (BeginRound \/ Yield \/ FoldRound) /\ UNCHANGED <<call, served>>
    \/ Serve
    \/ FinishForecast

ForecastSpec == ForecastInit /\ [][ForecastNext]_forecastVars
-----------------------------------------------------------------------------
(* Properties.                                                             *)

MatchesOf(p) ==
    {i \in DOMAIN call.fixtures[call.target] :
        call.players[p].team \in {call.fixtures[call.target][i][k] : k \in 1..2}}

(* "Each projection reading real history only" (forecast.service.ts:91):   *)
(* a gameweek is projected for every player with a match in it, once a     *)
(* match, from rows with an outcome, none of them of the gameweeks asked   *)
(* about.                                                                  *)
ServedOnRealHistory ==
    (Forecasting /\ step = "served") =>
        /\ DOMAIN served = {p \in DOMAIN call.players : ~call.players[p].removed /\ MatchesOf(p) # {}}
        /\ \A p \in DOMAIN served :
              LET parts == served[p].parts
              IN  /\ {parts[i].row.fixture - 10000 : i \in DOMAIN parts} = MatchesOf(p)
                  /\ Len(parts) = Cardinality(MatchesOf(p))
                  /\ \A i \in DOMAIN parts : \A x \in parts[i].rates :
                        x[1].player = p /\ x[1].fixture < 10000

(* "FPL publishes one round ahead and nothing here invents the rest"       *)
(* (forecast.repository.ts:404): a forecast is blended with what was       *)
(* published of its gameweek, and a player ruled out has no minutes in it. *)
ServedFlagsAreOfTheGameweek ==
    (Forecasting /\ step = "served") =>
        \A p \in DOMAIN served :
            /\ \A q \in served[p].market \cup {p} : served[p].market # {} =>
                  \/ q \in DOMAIN call.snapshot /\ call.snapshot[q].ep # Null
                  \/ call.isNext /\ call.players[q].ep # Null
            /\ AvailabilityByCode(p).status \in {"u", "n", "s"} =>
                  \A i \in DOMAIN served[p].parts : served[p].parts[i].rates = {}
=============================================================================
