----------------------------- MODULE WalkForward -----------------------------
(***************************************************************************)
(* The walk every measurement rests on (projections/features.ts): rounds   *)
(* in order, the features of a round's rows taken from what came before,   *)
(* the round folded in afterwards.  Two consumers stand on it: the         *)
(* backtest (calibration/harness.ts) and the feature export                *)
(* (calibration/feature-export.ts).                                        *)
(*                                                                         *)
(* A total is abstracted to the rows it was taken over, a decayed one to   *)
(* the rows and the half-lives they went through: what matters is which    *)
(* rows a number rests on.  Counts of starts, which are subtracted from    *)
(* one another, keep their values (in tenths: an imputed start is a        *)
(* probability).                                                           *)
(***************************************************************************)
EXTENDS Integers, FiniteSets, Functions, SequencesExt

CONSTANTS
    Histories,       \* the histories walked: sequences of rows
    Parameters,      \* what is walked with: [decaying, shrink, imputed, horizon, from]
    FormRounds,      \* FORM_ROUNDS
    BehaviourShrink, \* START_BEHAVIOUR_SHRINK, in tenths
    SubShrink,       \* SUB_RATE_SHRINK, in tenths
    MinClubs,        \* clubs without which a season leaves no priors
    HistoryCap       \* matches the export remembers

(* A row is [season, round, fixture, player, team, opp, home, minutes,     *)
(* starts, prob, xg, ep]; Null is a column the season does not have, and   *)
(* a team the archive could not name.                                      *)
Null == -1

ASSUME WalkAssumption ==
    /\ {FormRounds, BehaviourShrink, SubShrink, MinClubs, HistoryCap} \subseteq Nat \ {0}
    /\ \A p \in Parameters : p.shrink \in Nat /\ p.horizon \in Nat \ {0}

Key(r) == <<r.season, r.round>>
Nameable(r) == r.team # Null /\ r.opp # Null

(* One row of a player and fixture (the archive's unique key), and on      *)
(* average no more than two matches a round, which is what the form has    *)
(* room for (features.ts:571).                                             *)
WellFormed(h) ==
    /\ h \in Seq(ToSet(h)) /\ IsInjective(h)
    /\ \A r \in ToSet(h) : /\ r.season \in Nat \ {0} /\ r.round \in Nat /\ r.home \in BOOLEAN
                           /\ {r.player, r.opp, r.starts, r.prob} \subseteq Int
    /\ \A k \in {Key(r) : r \in ToSet(h)}, p \in {r.player : r \in ToSet(h)} :
          Cardinality({i \in DOMAIN h : /\ h[i].player = p /\ h[i].season = k[1]
                                       /\ h[i].round < k[2] /\ h[i].round >= k[2] - FormRounds})
              <= 2 * FormRounds

(* "One player does not face the same opponent twice in one gameweek"      *)
(* (harness.ts:530), or not at the same ground.                            *)
FacedOnce(h) ==
    \A q, r \in {x \in ToSet(h) : Nameable(x)} :
        <<Key(q), q.player, q.opp, q.home>> = <<Key(r), r.player, r.opp, r.home>> => q = r

ASSUME HistoriesAssumption == \A h \in Histories : WellFormed(h) /\ FacedOnce(h)

VARIABLES
    history, params,
    clock,      \* <<season, round>> being walked
    step,       \* where the walk is in its round
    career,     \* player -> rows folded, oldest first
    seasonAcc,  \* the same since the season began
    lastSeason, \* player -> [season, rows] of the season before
    decayed,    \* the rows folded and how often each was decayed
    strength,   \* strengthRows, which the league is built from
    priors,     \* the rows last season's ratings were built from, or none
    items,      \* the context yielded: the round's rows, scored
    future,     \* and the rounds of the horizon
    emitted, skipped,            \* the backtest's result
    playerHist, teamHist, exported \* the export's

walkVars == <<history, params, clock, step, career, seasonAcc, lastSeason, decayed, strength,
          priors, items, future, emitted, skipped, playerHist, teamHist, exported>>

Start == <<0, 0>>
Earlier(a, b) == a[1] < b[1] \/ (a[1] = b[1] /\ a[2] < b[2])
Keys  == {Key(history[i]) : i \in DOMAIN history}
Ahead == {k \in Keys : Earlier(clock, k)}

(* The entries of s at the places I, in their order.                       *)
Picked(s, I) == [n \in 1..Cardinality(I) |-> s[CHOOSE i \in I : Cardinality({j \in I : j < i}) = n - 1]]

RowsOf(k) == Picked(history, {i \in DOMAIN history : Key(history[i]) = k})

At(f, x) == IF x \in DOMAIN f THEN f[x] ELSE <<>>
Total(s, value(_)) == SumFunctionOnSet([i \in DOMAIN s |-> value(s[i])], DOMAIN s)
LastOf(s, n) == SubSeq(s, IF Len(s) > n THEN Len(s) - n + 1 ELSE 1, Len(s))

NothingWalked ==
    /\ clock = Start /\ step = "begin"
    /\ career = <<>> /\ seasonAcc = <<>> /\ lastSeason = <<>> /\ decayed = {}
    /\ strength = {} /\ priors = {}
    /\ items = <<>> /\ future = <<>>
    /\ emitted = <<>> /\ skipped = <<>>
    /\ playerHist = <<>> /\ teamHist = <<>> /\ exported = {}

WalkInit == history \in Histories /\ params \in Parameters /\ NothingWalked

-----------------------------------------------------------------------------
(* What an accumulator says of its player.                                 *)

(* fold: the label if the season recorded one, the probability otherwise.  *)
Labelled(r) == r.starts # Null \/ (params.imputed /\ r.prob # Null)
Started(r)  == IF r.starts # Null THEN 10 * r.starts
               ELSE IF params.imputed /\ r.prob # Null THEN r.prob ELSE 0
Played(r)   == r.minutes > 0

Starts(s)      == Total(s, Started)
StartMatches(s) == Cardinality({i \in DOMAIN s : Labelled(s[i])})
StartAppearances(s) == Cardinality({i \in DOMAIN s : Labelled(s[i]) /\ Played(s[i])})

(* laggedStartRate, as what is divided: without shrinkage the season's     *)
(* record, or the career's before it has one; with it the season's blended *)
(* with the career before the season.                                      *)
LaggedStartRate(s, c) ==
    LET own == <<Starts(s), StartMatches(s)>>
    IN  IF params.shrink = 0
        THEN [own |-> IF StartMatches(s) > 0 THEN own ELSE <<Starts(c), StartMatches(c)>>,
              prior |-> <<0, 0>>]
        ELSE [own |-> own,
              prior |-> <<Starts(c) - Starts(s), StartMatches(c) - StartMatches(s)>>]

(* An imputed start counts where the player did not appear, too.           *)
NotBelowZero(n) == IF n < 0 THEN 0 ELSE n

(* laggedSubRate: the season's once it has enough matches not started.     *)
LaggedSubRate(s, c) ==
    LET pick == IF 10 * StartMatches(s) - Starts(s) >= SubShrink THEN s ELSE c
    IN  [nonStarts |-> NotBelowZero(10 * StartMatches(pick) - Starts(pick)),
         subs |-> NotBelowZero(10 * StartAppearances(pick) - Starts(pick))]

(* startBehaviour, from the same choice of record.                         *)
Behaviour(s, c) ==
    {r \in ToSet(IF Starts(s) >= BehaviourShrink THEN s ELSE c) : Started(r) > 0}

(* acc.recent is cut to twice the window, room for double gameweeks.       *)
Recent(s) == LastOf(s, 2 * FormRounds)

FeaturesFor(p, round) ==
    LET c == At(career, p)
        s == At(seasonAcc, p)
    IN  [rates |-> IF params.decaying THEN {x \in decayed : x[1].player = p} ELSE {<<r, 0>> : r \in ToSet(c)},
         start |-> LaggedStartRate(s, c),
         sub   |-> LaggedSubRate(s, c),
         behaviour |-> Behaviour(s, c),
         matches |-> Len(c),
         appearances |-> Cardinality({i \in DOMAIN c : Played(c[i])}),
         form  |-> {r \in ToSet(Recent(s)) : r.round >= round - FormRounds},
         prior |-> At(lastSeason, p)]

-----------------------------------------------------------------------------
(* Team strength (projections/strength.ts).                                *)

FixtureOf(r) == <<r.season, r.round, r.fixture>>

(* buildLeague: the fixtures a club's rates are divided by, and those its  *)
(* rates are summed over, which need rows of both sides.                   *)
ClubIn(rows, t) ==
    LET played == {FixtureOf(r) : r \in {q \in rows : q.team = t /\ t # Null}}
        sides(f) == {r.team : r \in {q \in rows : FixtureOf(q) = f /\ q.team # Null}}
    IN  [matches |-> played, whole |-> {f \in played : Cardinality(sides(f)) = 2}]

Clubs(rows) == {r.team : r \in rows} \ {Null}

(* A slip: the rounds of two clubs or one make a prior too.                *)
PriorsOfAnyLeague(rows) == rows

(* seasonPriors: the ratings a season ends with, none of too few clubs.    *)
SeasonPriors(rows) == IF Cardinality(Clubs(rows)) < MinClubs THEN {} ELSE rows

(* fixtureGoalRates: both clubs' records and the target each is shrunk to: *)
(* his own of last season, or the promoted clubs', the three worst's.      *)
TargetFor(t) == IF t \in Clubs(priors) THEN ClubIn(priors, t).matches ELSE {FixtureOf(r) : r \in priors}

GoalRates(r) ==
    [own |-> ClubIn(strength, r.team), opp |-> ClubIn(strength, r.opp),
     targets |-> <<TargetFor(r.team), TargetFor(r.opp)>>]

-----------------------------------------------------------------------------
(* The walk.                                                               *)

(* lastSeason is cleared and refilled from the season that ends.           *)
Turn == lastSeason' = [p \in DOMAIN seasonAcc |-> <<clock[1], seasonAcc[p]>>]

BeginRound ==
    /\ step = "begin"
    /\ \E k \in Ahead :
          /\ \A j \in Ahead \ {k} : Earlier(k, j)
          /\ clock' = k
          /\ IF k[1] = clock[1]
             THEN UNCHANGED <<seasonAcc, lastSeason, strength, priors>>
             ELSE /\ IF clock = Start
                     THEN UNCHANGED <<lastSeason, priors>>
                     ELSE Turn /\ priors' = SeasonPriors(strength)
                  /\ seasonAcc' = <<>>
                  /\ strength' = {}
    /\ step' = "score"
    /\ UNCHANGED <<history, params, career, decayed, items, future, emitted, skipped,
                   playerHist, teamHist, exported>>

Scored(r, round) == [row |-> r, features |-> FeaturesFor(r.player, round), rates |-> GoalRates(r)]

ScoredRows(rows) == [i \in DOMAIN rows |-> Scored(rows[i], clock[2])]

(* The rounds of the horizon that have rows, scored as of this deadline.   *)
Future ==
    LET round(n) == [round |-> n, items |-> ScoredRows(RowsOf(<<clock[1], n>>))]
        ahead == {n \in clock[2] + 1 .. clock[2] + params.horizon - 1 : <<clock[1], n>> \in Keys}
    IN  [i \in 1..Cardinality(ahead) |->
            round(CHOOSE n \in ahead : Cardinality({m \in ahead : m < n}) = i - 1)]

Yield ==
    /\ step = "score"
    /\ items' = ScoredRows(RowsOf(clock))
    /\ future' = Future
    /\ step' = "project"
    /\ UNCHANGED <<history, params, clock, career, seasonAcc, lastSeason, decayed, strength,
                   priors, emitted, skipped, playerHist, teamHist, exported>>

(* fold: each row joins its player's.                                      *)
With(acc, rows) ==
    [p \in DOMAIN acc \union {r.player : r \in ToSet(rows)} |->
        At(acc, p) \o Picked(rows, {i \in DOMAIN rows : rows[i].player = p})]

Aged(S) == {<<x[1], x[2] + 1>> : x \in S}

(* A slip: the round is aged with the rest, after it has joined them.      *)
DecayedAfter(rows) == Aged(decayed \union {<<r, 0>> : r \in ToSet(rows)})

(* decayAll, then the round's rows at full weight.                         *)
DecayedWith(rows) == Aged(decayed) \union {<<r, 0>> : r \in ToSet(rows)}

FoldRound ==
    /\ step = "fold"
    /\ decayed' = IF params.decaying THEN DecayedWith(RowsOf(clock)) ELSE decayed
    /\ career' = With(career, RowsOf(clock))
    /\ seasonAcc' = With(seasonAcc, RowsOf(clock))
    /\ strength' = strength \cup ToSet(RowsOf(clock))
    /\ step' = "begin"
    /\ UNCHANGED <<history, params, clock, lastSeason, priors, items, future, emitted, skipped,
                   playerHist, teamHist, exported>>

-----------------------------------------------------------------------------
(* The backtest (harness.ts).                                              *)

(* bonusFor ranks a player against everyone who has a row of his match.    *)
Field(scored, r) == {scored[i].row.player : i \in {j \in DOMAIN scored : FixtureOf(scored[j].row) = FixtureOf(r)}}

(* The tail of the horizon: what a player's later rows add, and how often  *)
(* each is discounted: by its place among the rounds that have rows.       *)
TailOf(p) ==
    UNION {{<<future[i].items[j].row, i>> : j \in
                {m \in DOMAIN future[i].items :
                    /\ future[i].items[m].row.player = p
                    /\ Nameable(future[i].items[m].row)
                    /\ future[i].items[m].features.matches > 0}} : i \in DOMAIN future}

(* Why a row is not scored.                                                *)
Refusal(x) ==
    CASE x.features.matches = 0 -> "stranger"
      [] x.features.matches > 0 /\ ~Nameable(x.row) -> "team"
      [] OTHER -> "none"

Evaluated(r) == r.season >= params.from

Prediction(x) ==
    [row |-> x.row, features |-> x.features, rates |-> x.rates, field |-> Field(items, x.row),
     tail |-> TailOf(x.row.player), blend |-> Null]

Project ==
    /\ step = "project"
    /\ LET asked   == {i \in DOMAIN items : Evaluated(items[i].row)}
           scored  == Picked(items, {i \in asked : Refusal(items[i]) = "none"})
           refused == Picked(items, {i \in asked : Refusal(items[i]) # "none"})
       IN  /\ emitted' = emitted \o [i \in DOMAIN scored |-> Prediction(scored[i])]
           /\ skipped' = skipped \o [i \in DOMAIN refused |-> Refusal(refused[i])]
    /\ step' = "export"
    /\ UNCHANGED <<history, params, clock, career, seasonAcc, lastSeason, decayed, strength,
                   priors, items, future, playerHist, teamHist, exported>>

(* applyCrowdBlend: a row with ep_next is blended with it, at the level of *)
(* the round's rows that have one; the others keep the model.              *)
Blended(out) ==
    [i \in DOMAIN out |-> [out[i] EXCEPT !.blend =
        {j \in DOMAIN out : Key(out[j].row) = Key(out[i].row) /\ {out[i].row.ep, out[j].row.ep} \cap {Null} = {}}]]

InOrder(x, y) == \E i \in DOMAIN x : x[i] < y[i] /\ \A j \in 1..i - 1 : x[j] = y[j]

(* A slip: the two rows of a double gameweek in the order they came.       *)
CanonicalKeyOfPlayer(r) == <<r.season, r.round, r.player>>

(* sortRows                                                                *)
CanonicalKey(r) == <<r.season, r.round, r.player, r.opp, IF r.home THEN 0 ELSE 1>>

Before(a, b) == InOrder(CanonicalKey(a.row), CanonicalKey(b.row))

(* Sorted, and stable.                                                     *)
Sorted(s) ==
    LET ahead(j, i) == Before(s[j], s[i]) \/ (~Before(s[i], s[j]) /\ j < i)
    IN  [n \in DOMAIN s |-> s[CHOOSE i \in DOMAIN s : Cardinality({j \in DOMAIN s : ahead(j, i)}) = n - 1]]

FinishBacktest ==
    /\ step = "begin" /\ Ahead = {}
    /\ emitted' = Sorted(Blended(emitted))
    /\ step' = "done"
    /\ UNCHANGED <<history, params, clock, career, seasonAcc, lastSeason, decayed, strength,
                   priors, items, future, skipped, playerHist, teamHist, exported>>

-----------------------------------------------------------------------------
(* The feature export.                                                     *)

(* A history is cut to its last matches.                                   *)
Cut(h) == [x \in DOMAIN h |-> LastOf(h[x], HistoryCap)]

(* A slip: the clubs' matches merged by round, not kept by fixture.        *)
MatchOfTheRound(r) == 1

(* What tells a club's matches of a round apart.                           *)
MatchOf(r) == r.fixture

(* side() starts every sum from zero, recorded or not.                     *)
XgFor(rows, t, match) ==
    Total(Picked(rows, {i \in DOMAIN rows : rows[i].team = t /\ MatchOf(rows[i]) = match /\ Nameable(rows[i])}),
          LAMBDA r : IF r.xg = Null THEN 0 ELSE r.xg)

(* A club's matches of the round, as they come up in its rows: a row is of *)
(* its own club's and of the opponent's.                                   *)
Concerns(r, t) == Nameable(r) /\ t \in {r.team, r.opp}
TeamMatches(rows, t) ==
    LET first == Picked(rows, {i \in DOMAIN rows : Concerns(rows[i], t)
                                    /\ \A j \in 1..i - 1 : Concerns(rows[j], t) => MatchOf(rows[j]) # MatchOf(rows[i])})
    IN  [n \in DOMAIN first |-> [round |-> clock, fixture |-> MatchOf(first[n]),
                                 xg |-> XgFor(rows, t, MatchOf(first[n]))]]

WithMatches(h, rows) ==
    [t \in DOMAIN h \union UNION {{r.team, r.opp} : r \in {q \in ToSet(rows) : Nameable(q)}} |->
        At(h, t) \o TeamMatches(rows, t)]

Export ==
    /\ step = "export"
    /\ LET fresh == ~\E k \in Keys : k[1] = clock[1] /\ Earlier(k, clock)
           players == IF fresh THEN <<>> ELSE playerHist
           clubs   == IF fresh THEN <<>> ELSE teamHist
           rows    == RowsOf(clock)
       IN  /\ exported' = exported \cup
                 {[row |-> items[i].row, features |-> items[i].features,
                   player |-> At(players, items[i].row.player),
                   team |-> At(clubs, items[i].row.team), opp |-> At(clubs, items[i].row.opp)] :
                     i \in {j \in DOMAIN items : Refusal(items[j]) = "none"}}
           /\ playerHist' = Cut(With(players, rows))
           /\ teamHist' = Cut(WithMatches(clubs, rows))
    /\ step' = "fold"
    /\ UNCHANGED <<history, params, clock, career, seasonAcc, lastSeason, decayed, strength,
                   priors, items, future, emitted, skipped>>

WalkNext == BeginRound \/ Yield \/ Project \/ Export \/ FoldRound \/ FinishBacktest

WalkSpec == WalkInit /\ [][WalkNext]_walkVars
-----------------------------------------------------------------------------
(* What the features should be, from the history alone.                    *)

Past(k) == {r \in ToSet(history) : Earlier(Key(r), k)}
PastOf(p, k) == {r \in Past(k) : r.player = p}
ThisSeason(p, k) == {r \in PastOf(p, k) : r.season = k[1]}
Count(S) == <<SumFunctionOnSet([r \in S |-> Started(r)], S), Cardinality({r \in S : Labelled(r)})>>
SeasonsBefore(k) == {j[1] : j \in {i \in Keys : i[1] < k[1]}}

(* The trailing form: the rounds before the deadline.                      *)
FormIs(f, p, k) == f.form = {r \in ThisSeason(p, k) : r.round >= k[2] - FormRounds}

(* A match is at full weight in the round after it and ages with every     *)
(* round walked since.                                                     *)
RatesAre(f, p, k) ==
    f.rates = {<<r, IF params.decaying
                    THEN Cardinality({j \in Keys : Earlier(Key(r), j) /\ Earlier(j, k)})
                    ELSE 0>> : r \in PastOf(p, k)}

(* No start counts twice: a blend is of the season and of what came before *)
(* it.                                                                     *)
StartIs(f, p, k) ==
    IF params.shrink > 0
    THEN /\ f.start.own = Count(ThisSeason(p, k))
         /\ f.start.prior = Count(PastOf(p, k) \ ThisSeason(p, k))
    ELSE f.start.own = LET own == Count(ThisSeason(p, k))
                       IN  IF own[2] > 0 THEN own ELSE Count(PastOf(p, k))

(* A rate falls back on the career until the season has enough of what it  *)
(* divides by: matches not started, and starts.                            *)
SubIs(f, p, k) ==
    LET own == Count(ThisSeason(p, k))
        record == IF 10 * own[2] - own[1] >= SubShrink THEN ThisSeason(p, k) ELSE PastOf(p, k)
        appeared == Cardinality({r \in record : Labelled(r) /\ Played(r)})
    IN  f.sub = [nonStarts |-> NotBelowZero(10 * Count(record)[2] - Count(record)[1]),
                 subs |-> NotBelowZero(10 * appeared - Count(record)[1])]

BehaviourIs(f, p, k) ==
    LET record == IF Count(ThisSeason(p, k))[1] >= BehaviourShrink THEN ThisSeason(p, k) ELSE PastOf(p, k)
    IN  f.behaviour = {r \in record : Started(r) > 0}

(* Of the season walked just before and no other: what lastSeason.clear()  *)
(* leaves (features.ts:383), whatever is said of a year out (below).       *)
PriorIs(f, p, k) ==
    LET last == {r \in PastOf(p, k) : r.season \in SeasonsBefore(k)
                                        /\ \A s \in SeasonsBefore(k) : s <= r.season}
    IN  IF last = {} THEN f.prior = <<>> ELSE ToSet(f.prior[2]) = last

(* A club's window has matches of this season before the round, one a      *)
(* fixture, as many as there are and it has room for.                      *)
MatchesBefore(t, k) == {FixtureOf(r) : r \in {q \in Past(k) : q.season = k[1] /\ Concerns(q, t)}}
SeenIn(w) == {<<w[i].round[1], w[i].round[2], w[i].fixture>> : i \in DOMAIN w}
WindowIs(w, t, k) ==
    LET n == Cardinality(MatchesBefore(t, k))
    IN  /\ SeenIn(w) \subseteq MatchesBefore(t, k)
        /\ Len(w) = Cardinality(SeenIn(w))
        /\ Len(w) = IF n > HistoryCap THEN HistoryCap ELSE n

-----------------------------------------------------------------------------
(* Properties.                                                             *)

Yielded == {items[i] : i \in DOMAIN items}
               \cup UNION {{future[i].items[j] : j \in DOMAIN future[i].items} : i \in DOMAIN future}

(* "Everything that was knowable before its round, computed AT that round" *)
(* (features.ts:260), for the round and for every round of its horizon.    *)
FeaturesAreOfThePast ==
    step = "project" =>
        \A x \in Yielded :
            LET p == x.row.player
            IN  /\ FormIs(x.features, p, clock)
                /\ RatesAre(x.features, p, clock)
                /\ StartIs(x.features, p, clock)
                /\ SubIs(x.features, p, clock)
                /\ BehaviourIs(x.features, p, clock)
                /\ PriorIs(x.features, p, clock)
                /\ x.features.matches = Cardinality(PastOf(p, clock))
                /\ x.features.appearances = Cardinality({r \in PastOf(p, clock) : Played(r)})

(* "Null when the player has no previous season in the walked rows"        *)
(* (features.ts:155): he who has one has a prior, and a gap that shows a   *)
(* year out of the league (features.ts:162).                               *)
YearOutIsVisible ==
    step = "project" =>
        \A x \in Yielded :
            (\E r \in PastOf(x.row.player, clock) : r.season < clock[1]) => x.features.prior # <<>>

(* Strength is of the season's rounds before, shrunk to last season's      *)
(* ratings where there were clubs enough to rate (features.ts:394,510).    *)
StrengthIsOfThisSeason ==
    step = "project" =>
        \A x \in Yielded :
            LET now == {r \in Past(clock) : r.season = clock[1]}
                last == {r \in Past(clock) : \A s \in SeasonsBefore(clock) : s <= r.season} \ now
            IN  /\ x.rates.own = ClubIn(now, x.row.team)
                /\ x.rates.opp = ClubIn(now, x.row.opp)
                /\ x.row.team \in Clubs(last) /\ Cardinality(Clubs(last)) >= MinClubs =>
                      x.rates.targets[1] = ClubIn(last, x.row.team).matches
                /\ Cardinality(Clubs(last)) < MinClubs => x.rates.targets = <<{}, {}>>

(* "Rows that could not be scored at all, and why, never silently dropped  *)
(* from a mean" (harness.ts:225), and one order for those that were,       *)
(* whatever the order they were read in (harness.ts:510).                  *)
EveryRowIsAccountedFor ==
    step = "done" =>
        /\ Len(emitted) + Len(skipped)
             = Cardinality({r \in ToSet(history) : Evaluated(r)})
        /\ \A i, j \in DOMAIN emitted : i < j => Before(emitted[i], emitted[j])

(* "The exported population is the population the incumbent is scored on"  *)
(* (feature-export.ts:185), and the windows of a row count the matches     *)
(* played this season before it, one a fixture.                            *)
ExportFollowsTheWalk ==
    /\ step = "done" => {emitted[i].row : i \in DOMAIN emitted}
                          = {x.row : x \in {y \in exported : Evaluated(y.row)}}
    /\ \A x \in exported : /\ WindowIs(x.team, x.row.team, Key(x.row))
                          /\ WindowIs(x.opp, x.row.opp, Key(x.row))
=============================================================================
