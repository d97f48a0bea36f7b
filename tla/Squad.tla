-------------------------------- MODULE Squad --------------------------------
(***************************************************************************)
(* The rules of a squad and the pure decisions taken over one: the legal   *)
(* eleven (optimizer/rules.ts, calibration/squad-scoring.ts), the lineup   *)
(* the forecasts choose and the points it scores once the round is played  *)
(* (calibration/xi-decision.ts), the two integer programs                  *)
(* (optimizer/ilp.ts, transfers/transfer-lp.ts) and the arrangement of     *)
(* what they return (optimizer/optimizer.service.ts).                      *)
(*                                                                         *)
(* A player is a number, which breaks ties as playerCode and key do.  A    *)
(* table t of players is a function to records; t[p].pos is the position.  *)
(* HiGHS is external: a program is the set of its optimal solutions.       *)
(***************************************************************************)
EXTENDS Integers, Sequences, FiniteSets, FiniteSetsExt, SequencesExt

CONSTANTS
    SquadSelect,      \* position -> players of it in a squad
    MinPlay,          \* position -> fewest of it in an eleven
    MaxPlay,          \* position -> most of it in an eleven
    XiSize,           \* rules.xiSize()
    ClubLimit,        \* rules.clubLimit()
    Budget,           \* rules.budget(), in tenths
    FreeTransferCap,  \* rules.freeTransferCap()
    HitCost,          \* HIT_COST, in the unit of the forecasts
    MaxHits,          \* MAX_HITS
    BenchWeight       \* BENCH_WEIGHT, in tenths

PositionOrder == <<"GKP", "DEF", "MID", "FWD">>
Position == ToSet(PositionOrder)

(* The quotas leave an eleven: the code throws where there is none.        *)
ASSUME RulesAssumption ==
    /\ SquadSelect \in [Position -> Nat]
    /\ MinPlay \in [Position -> Nat]
    /\ MaxPlay \in [Position -> Nat]
    /\ \A p \in Position : MinPlay[p] <= MaxPlay[p] /\ MaxPlay[p] <= SquadSelect[p]
    /\ MinPlay["GKP"] = 1 /\ MaxPlay["GKP"] = 1
    /\ {XiSize, ClubLimit, Budget, FreeTransferCap, HitCost, MaxHits} \subseteq Nat \ {0}
    /\ XiSize > 1    \* a captain and a vice-captain
    /\ \E d \in MinPlay["DEF"]..MaxPlay["DEF"], m \in MinPlay["MID"]..MaxPlay["MID"] :
          XiSize - 1 - d - m \in MinPlay["FWD"]..MaxPlay["FWD"]
    /\ BenchWeight \in 0..10

SquadSize == SumFunction(SquadSelect)

(* A map written over another.                                             *)
Onto(f, g) == [x \in DOMAIN f \cup DOMAIN g |-> IF x \in DOMAIN f THEN f[x] ELSE g[x]]

Of(S, t, p)  == {x \in S : t[x].pos = p}
Sum(S, f(_)) == SumFunction([x \in S |-> f(x)])

(* Descending by score, then by number: the one order of every sort.       *)
Ahead(x, y, score(_)) == score(x) > score(y) \/ (score(x) = score(y) /\ x < y)

Ranked(S, score(_)) ==
    [i \in 1..Cardinality(S) |->
        CHOOSE x \in S : Cardinality({y \in S : Ahead(y, x, score)}) = i - 1]

First(S, score(_)) == CHOOSE x \in S : \A y \in S \ {x} : Ahead(x, y, score)

(* What a player bought at paid returns at a market price.                 *)
SellValue(paid, price) ==
    IF price <= paid THEN price ELSE paid + (price - paid) \div 2

-----------------------------------------------------------------------------
(* The eleven.                                                             *)

LegalFormation(xi, t) ==
    /\ Cardinality(xi) = XiSize
    /\ \A p \in Position : Cardinality(Of(xi, t, p)) \in MinPlay[p]..MaxPlay[p]

(* The shapes the two nested loops visit for the players of S.             *)
Formations(S, t) ==
    {f \in {[p \in Position |-> CASE p = "GKP" -> 1 [] p = "DEF" -> d [] p = "MID" -> m
                                   [] p = "FWD" -> XiSize - 1 - d - m] :
                d \in MinPlay["DEF"]..MaxPlay["DEF"], m \in MinPlay["MID"]..MaxPlay["MID"]} :
        /\ f["FWD"] \in MinPlay["FWD"]..MaxPlay["FWD"]
        /\ \A p \in Position : f[p] <= Cardinality(Of(S, t, p))}

VisitedBefore(f, g) ==
    f["DEF"] < g["DEF"] \/ (f["DEF"] = g["DEF"] /\ f["MID"] < g["MID"])

(* The best of each position, as many as the formation asks for, in the    *)
(* order of the array the code builds.                                     *)
Eleven(S, t, f, score(_)) ==
    LET top(p) == SubSeq(Ranked(Of(S, t, p), score), 1, f[p])
    IN  top("GKP") \o top("DEF") \o top("MID") \o top("FWD")

BestEleven(S, t, score(_)) ==
    LET total == [f \in Formations(S, t) |-> Sum(ToSet(Eleven(S, t, f, score)), score)]
        best  == CHOOSE f \in DOMAIN total : \A g \in DOMAIN total \ {f} :
                    total[f] > total[g] \/ (total[f] = total[g] /\ VisitedBefore(f, g))
    IN  Eleven(S, t, best, score)

BenchOrder(S, weight(_)) == Ranked(S, weight)

(* chooseLineup: S are the squad's players, t gives pos, predicted (the    *)
(* row's forecast, or the one carried) and pPlay of each.  Callers must    *)
(* have a formation: the code throws when there is none.                   *)
ChooseLineup(S, t) ==
    LET points(x) == t[x].predicted
        starters  == BestEleven(S, t, points)
        benched   == S \ ToSet(starters)
        outfield  == {x \in benched : t[x].pos # "GKP"}
        byPoints  == Ranked(ToSet(starters), points)
    IN  [starters |-> starters,
         bench    |-> Ranked(benched \ outfield, points)
                        \o BenchOrder(outfield, LAMBDA x : t[x].predicted * t[x].pPlay),
         captain  |-> byPoints[1],
         vice     |-> byPoints[2]]

(* A slip: whoever is next comes on.                                       *)
SubstituteAnyShape(acc, off, bench, t) ==
    LET i == SelectInSeq(bench, LAMBDA on : on \notin acc.used /\ t[on].minutes # 0)
    IN  IF i = 0 THEN acc
        ELSE [fielded |-> (acc.fielded \ {off}) \cup {bench[i]},
              used    |-> acc.used \cup {bench[i]},
              subs    |-> Append(acc.subs, [off |-> off, on |-> bench[i]])]

(* A starter without minutes gives way to the first unused substitute with *)
(* minutes who leaves a legal eleven.                                      *)
Substitute(acc, off, bench, t) ==
    LET fits(on) == /\ on \notin acc.used
                    /\ t[on].minutes # 0
                    /\ LegalFormation((acc.fielded \ {off}) \cup {on}, t)
        i == SelectInSeq(bench, fits)
    IN  IF i = 0 THEN acc
        ELSE [fielded |-> (acc.fielded \ {off}) \cup {bench[i]},
              used    |-> acc.used \cup {bench[i]},
              subs    |-> Append(acc.subs, [off |-> off, on |-> bench[i]])]

Nobody == -1

Doubled(lineup, t) ==
    CASE t[lineup.captain].minutes > 0 -> lineup.captain
      [] t[lineup.captain].minutes = 0 /\ t[lineup.vice].minutes > 0 -> lineup.vice
      [] OTHER -> Nobody

ActualOf(x, t) == IF x = Nobody THEN 0 ELSE t[x].actual

(* The loop of scoreLineup over the starters without minutes, in order.    *)
PlayedOut(lineup, t) ==
    LET after[i \in 0..Len(lineup.starters)] ==
          IF i = 0
          THEN [fielded |-> ToSet(lineup.starters), used |-> {}, subs |-> <<>>]
          ELSE IF t[lineup.starters[i]].minutes = 0
          THEN Substitute(after[i - 1], lineup.starters[i], lineup.bench, t)
          ELSE after[i - 1]
    IN  after[Len(lineup.starters)]

ScoreLineup(lineup, t) ==
    LET played  == PlayedOut(lineup, t)
        doubled == Doubled(lineup, t)
    IN  [fielded |-> played.fielded,
         subs    |-> played.subs,
         doubled |-> doubled,
         points  |-> Sum(played.fielded, LAMBDA x : t[x].actual) + ActualOf(doubled, t)]

(* A slip, which the code once had: a ceiling without an armband.          *)
CeilingBareheaded(S, t) ==
    Max({0} \cup {Sum(ToSet(Eleven(S, t, f, LAMBDA x : t[x].actual)), LAMBDA x : t[x].actual) :
                    f \in Formations(S, t)})

(* ceilingFor: the points of the best legal eleven and armband, known      *)
(* after the round; zero when every eleven loses points.                   *)
CeilingFor(S, t) ==
    LET actual(x) == t[x].actual
        worth(f)  == LET xi == ToSet(Eleven(S, t, f, actual))
                     IN  Sum(xi, actual)
                           + Max({0} \cup {t[x].actual : x \in {y \in xi : t[y].minutes > 0}})
    IN  Max({0} \cup {worth(f) : f \in Formations(S, t)})

-----------------------------------------------------------------------------
(* The integer programs.  A candidate has pos, club, cost and ep, the      *)
(* forecast over the horizon.                                              *)

(* A slip: the row club_ left out.                                         *)
FifteensOfAnyClub(S, c) ==
    {g \cup d \cup m \cup f : g \in kSubset(SquadSelect["GKP"], Of(S, c, "GKP")),
                             d \in kSubset(SquadSelect["DEF"], Of(S, c, "DEF")),
                             m \in kSubset(SquadSelect["MID"], Of(S, c, "MID")),
                             f \in kSubset(SquadSelect["FWD"], Of(S, c, "FWD"))}

(* The rows squad, sel_ and club_ of either program.                       *)
Fifteens(S, c) ==
    {s \in {g \cup d \cup m \cup f :
                g \in kSubset(SquadSelect["GKP"], Of(S, c, "GKP")),
                d \in kSubset(SquadSelect["DEF"], Of(S, c, "DEF")),
                m \in kSubset(SquadSelect["MID"], Of(S, c, "MID")),
                f \in kSubset(SquadSelect["FWD"], Of(S, c, "FWD"))} :
        \A k \in {c[x].club : x \in s} : Cardinality({x \in s : c[x].club = k}) <= ClubLimit}

(* The rows xi, play_min_, play_max_ and own_.                             *)
Elevens(s, c) ==
    UNION {{g \cup d \cup m \cup f :
                g \in kSubset(n["GKP"], Of(s, c, "GKP")), d \in kSubset(n["DEF"], Of(s, c, "DEF")),
                m \in kSubset(n["MID"], Of(s, c, "MID")), f \in kSubset(n["FWD"], Of(s, c, "FWD"))} :
           n \in Formations(s, c)}

(* The objective in tenths of the forecasts' unit: 0.7 for the squad, 0.3  *)
(* for the eleven, once more for the captain, a hit's cost for each hit.   *)
(* DEFENCE_CONCENTRATION_LAMBDA is 0, so no pair is charged.               *)
Objective(s, xi, captain, hits, c) ==
    BenchWeight * Sum(s, LAMBDA x : c[x].ep) + (10 - BenchWeight) * Sum(xi, LAMBDA x : c[x].ep)
      + 10 * c[captain].ep - 10 * HitCost * hits

(* The solutions over one squad: the row armband_ leaves the captain to    *)
(* the best of the eleven.                                                 *)
SolutionsOver(s, hits, c) ==
    {LET captain == First(xi, LAMBDA x : c[x].ep)
     IN  [squad |-> s, xi |-> xi, captain |-> captain, hits |-> hits,
          value |-> Objective(s, xi, captain, hits, c)] : xi \in Elevens(s, c)}

Optima(solutions) == {a \in solutions : \A b \in solutions : a.value >= b.value}

(* buildLp: the squad from scratch, its budget row at market prices.       *)
SquadProgram(S, c) ==
    {s \in Fifteens(S, c) : Sum(s, LAMBDA x : c[x].cost) <= Budget}

SolveSquad(S, c) == Optima(UNION {SolutionsOver(s, 0, c) : s \in SquadProgram(S, c)})

(* Slips the properties catch: the kept weighed at what they would cost to *)
(* buy; the sold at the market price.                                      *)
BudgetRowAtMarket(owned, s, c, bank) ==
    Sum(s, LAMBDA x : c[x].cost) <= bank + Sum(owned, LAMBDA x : c[x].sell)

BudgetRowSoldAtMarket(owned, s, c, bank) ==
    Sum(s, LAMBDA x : c[x].cost) <= bank + Sum(owned, LAMBDA x : c[x].cost)

(* The row hits, for squad s, with h minimised at its bounds.              *)
HitsOf(owned, s, free) == Max({0, Cardinality(owned) - free - Cardinality(owned \cap s)})

(* The row budget: a kept player is weighed at what selling him would      *)
(* return, a bought one at his price.                                      *)
BudgetRow(owned, s, c, bank) ==
    Sum(s \cap owned, LAMBDA x : c[x].sell) + Sum(s \ owned, LAMBDA x : c[x].cost)
      <= bank + Sum(owned, LAMBDA x : c[x].sell)

MaxTransfersFor(free) == Max({1, free}) + MaxHits

(* buildTransferLp: the squads within reach of the one owned.              *)
TransferProgram(owned, market, c, bank, maxTransfers) ==
    {s \in Fifteens(owned \cup market, c) :
        /\ BudgetRow(owned, s, c, bank)
        /\ Cardinality(owned \cap s) >= Cardinality(owned) - maxTransfers}

SolveTransfers(owned, market, c, bank, free, maxTransfers) ==
    Optima(UNION {SolutionsOver(s, HitsOf(owned, s, free), c) :
                    s \in TransferProgram(owned, market, c, bank, maxTransfers)})
=============================================================================
