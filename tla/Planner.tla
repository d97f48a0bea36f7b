------------------------------- MODULE Planner -------------------------------
(***************************************************************************)
(* A user's request against a store the jobs rewrite: the transfer plan    *)
(* for an imported squad or for a fifteen built by hand                    *)
(* (transfers/transfers.service.ts, squad/squad.service.ts) and the        *)
(* recommendation (optimizer/optimizer.service.ts).                        *)
(*                                                                         *)
(* Each await of a request that reads players or forecasts is a step, and  *)
(* between two of them the sync may move a price, add or remove a player,  *)
(* and the projection run rewrite the forecasts: the jobs are external     *)
(* here (FplSync and Projections model them), so are the manager's squad   *)
(* as imported (SquadImport) and the prices paid (ManagerSeason).  What    *)
(* else a request reads (the rules, the horizon and its fixtures, the      *)
(* appearances) is constant for as long as it lasts.                       *)
(***************************************************************************)
EXTENDS Squad

CONSTANTS
    Player,        \* numbers
    Facts,         \* player -> [pos, club, appearances], which no request sees change
    Prices,        \* player -> the prices he may have
    Forecasts,     \* the tables projections may hold:
                   \*   player -> [ep, next, pPlay], next = NoRow without a row
    Fixtures,      \* the gameweeks of the horizon -> club -> fixtures
    Imported,      \* the squads imported last: [picks, bank]
    Paid,          \* player -> what the manager paid, NoPrice when unknown
    FreeTransfers, \* the free transfers a plan may start with
    Stated,        \* the banks users state for a built fifteen, NoBank for none
    Built,         \* the fifteens users build
    Unsynced,      \* players the store learns of later
    Leavers,       \* players who may be removed from the game
    MinAppearances,\* MIN_APPEARANCES
    PoolTop,       \* POOL_TOP
    PoolCheap,     \* POOL_CHEAP
    WildcardGap    \* the horizonGap above which a wildcard is argued for

NoRow   == -1
NoPrice == 0
NoGw    == 0
NoBank  == -1

ASSUME PlannerAssumption ==
    /\ Player \subseteq Nat
    /\ {MinAppearances, PoolTop, PoolCheap, WildcardGap} \subseteq Nat
    /\ FreeTransfers \subseteq 0..FreeTransferCap
    /\ Stated \subseteq Nat \cup {NoBank}
    /\ Unsynced \subseteq Player /\ Leavers \subseteq Player
    /\ Built \subseteq SUBSET Player

(* What the store holds of a player: a position, a price, a forecast.      *)
ASSUME StoreAssumption ==
    /\ IsFiniteSet(Player)
    /\ \A p \in Player :
          /\ Facts[p].pos \in Position
          /\ Prices[p] # {} /\ Prices[p] \subseteq Nat \ {NoPrice}
          /\ Paid[p] \in Nat
          /\ \A f \in Forecasts : f[p].ep \in Int

(* A stored squad is whole (StoredSquadsAreWhole of SquadImport), and FPL  *)
(* lets a manager have none but of the rules' shape.                       *)
ASSUME ImportedAssumption ==
    \A squad \in Imported :
        /\ squad.picks \subseteq Player /\ squad.bank \in Int
        /\ \A k \in Position : Cardinality(Of(squad.picks, Facts, k)) = SquadSelect[k]

VARIABLES
    price,     \* players.now_cost
    listed,    \* players with a row that is not removed
    forecast,  \* projections of the served version
    req        \* the request in progress, or answered

store == <<price, listed, forecast>>
vars  == <<store, req>>

Idle == [at |-> "idle"]

Init ==
    /\ price = [p \in Player |-> Min(Prices[p])]
    /\ listed = Player \ Unsynced
    /\ forecast \in Forecasts
    /\ req = Idle

-----------------------------------------------------------------------------
(* The jobs (external).                                                    *)

Reprice(p, v) ==
    /\ v # price[p]
    /\ price' = [price EXCEPT ![p] = v]
    /\ UNCHANGED <<listed, forecast, req>>

Reproject(f) ==
    /\ f # forecast
    /\ forecast' = f
    /\ UNCHANGED <<price, listed, req>>

AddPlayers ==
    /\ ~(Unsynced \subseteq listed)
    /\ listed' = listed \cup Unsynced
    /\ UNCHANGED <<price, forecast, req>>

RemovePlayer(p) ==
    /\ p \in listed
    /\ listed' = listed \ {p}
    /\ UNCHANGED <<price, forecast, req>>

-----------------------------------------------------------------------------
(* OptimizerService.                                                       *)

(* buildUniverse reads the forecasts first and the players afterwards,     *)
(* after which every player listed is a candidate.  At which of the three  *)
(* places it is called from a request has the forecasts, it says here.     *)
WithForecasts == [universe |-> "solve", gap |-> "compare", run |-> "recommend"]

LoadProjections ==
    /\ req.at \in DOMAIN WithForecasts
    /\ req' = Onto([at |-> WithForecasts[req.at], forecast |-> forecast], req)
    /\ UNCHANGED store

Universe == [price |-> price, listed |-> listed, forecast |-> req.forecast]

Candidates(u) ==
    [p \in u.listed |->
        [pos         |-> Facts[p].pos,
         club        |-> Facts[p].club,
         appearances |-> Facts[p].appearances,
         cost        |-> u.price[p],
         ep          |-> u.forecast[p].ep,
         xiEp        |-> IF u.forecast[p].next = NoRow THEN u.forecast[p].ep
                         ELSE u.forecast[p].next,
         pPlay       |-> u.forecast[p].pPlay]]

FewFrom(S, k, score(_)) == {p \in S : Cardinality({q \in S : Ahead(q, p, score)}) < k}

(* prunePool: the appearance floor first, then by position the best and    *)
(* the cheapest.                                                           *)
PrunePool(c, floor) ==
    LET eligible == {p \in DOMAIN c : floor => c[p].appearances >= MinAppearances}
        ofPos(k) == Of(eligible, c, k)
    IN  UNION {FewFrom(ofPos(k), PoolTop, LAMBDA p : c[p].ep)
                 \cup FewFrom(ofPos(k), PoolCheap, LAMBDA p : -c[p].cost) : k \in Position}

(* pickBestXi on this gameweek's forecasts, and arrangeSquad's bench.      *)
PickBestXi(s, c) ==
    LET captain(xi) == First(xi, LAMBDA p : c[p].xiEp)
        score(xi) == (10 - BenchWeight) * Sum(xi, LAMBDA p : c[p].xiEp) + 10 * c[captain(xi)].xiEp
        best == CHOOSE xi \in Elevens(s, c) : \A other \in Elevens(s, c) : score(xi) >= score(other)
        ranked == Ranked(best, LAMBDA p : c[p].xiEp)
    IN  [starters |-> best, captain |-> ranked[1], vice |-> ranked[2]]

ArrangeSquad(s, c) ==
    LET xi      == PickBestXi(s, c)
        benched == s \ xi.starters
        outfield == {p \in benched : c[p].pos # "GKP"}
    IN  [starters |-> xi.starters, captain |-> xi.captain, vice |-> xi.vice,
         bench |-> Ranked(benched \ outfield, LAMBDA p : c[p].xiEp)
                     \o BenchOrder(outfield, LAMBDA p : c[p].pPlay * c[p].xiEp)]

(* OptimizerService.run, without its row in optimizer_runs: the squads it  *)
(* may recommend, none when the program is infeasible and it throws.       *)
Recommendations(u) ==
    LET c == Candidates(u)
    IN  {[solution |-> a, arranged |-> ArrangeSquad(a.squad, c)] :
            a \in SolveSquad(PrunePool(c, TRUE), c)}

-----------------------------------------------------------------------------
(* TransfersService.                                                       *)

(* The candidates of a plan: those owned, with what selling each returns   *)
(* (the market price when that is unknown), and marketFor, to which the    *)
(* appearance floor applies.                                               *)
Priced(c, owned, bought) ==
    LET row(p, sell) == [pos |-> c[p].pos, club |-> c[p].club, cost |-> c[p].cost,
                         ep |-> c[p].ep, sell |-> sell]
        sellOf(p) == IF bought[p] = NoPrice THEN c[p].cost ELSE SellValue(bought[p], c[p].cost)
        market == {p \in DOMAIN c \ owned : c[p].appearances >= MinAppearances}
    IN  [p \in owned \cup market |-> row(p, IF p \in owned THEN sellOf(p) ELSE c[p].cost)]

(* pairMoves: within a position the weakest departure is paired with the   *)
(* best arrival; a departure with no arrival left is not a move.           *)
PairMoves(out, in, c) ==
    LET outs(k) == Ranked(Of(out, c, k), LAMBDA p : -c[p].ep)
        ins(k)  == Ranked(Of(in, c, k), LAMBDA p : c[p].ep)
    IN  UNION {{[out |-> outs(k)[i], in |-> ins(k)[i]] :
                    i \in DOMAIN outs(k) \cap DOMAIN ins(k)} : k \in Position}

PickBest(horizon, count(_)) ==
    LET best == {g \in horizon : count(g) > 0 /\ \A h \in horizon : count(h) <= count(g)}
    IN  IF best = {} THEN NoGw ELSE Min(best)

(* adviseChips: the gameweek each chip is advised in, NoGw for none.       *)
AdviseChips(owned, c, gap) ==
    LET horizon == DOMAIN Fixtures
        playing(g, n) == {p \in owned : Fixtures[g][c[p].club] = n}
        doubles(g) == Cardinality({p \in owned : Fixtures[g][c[p].club] >= 2})
        blanks(g)  == Cardinality(playing(g, 0))
        double == PickBest(horizon, doubles)
        blank  == PickBest(horizon, blanks)
        best   == First(owned, LAMBDA p : c[p].ep)
        captain == {g \in horizon : owned # {} /\ Fixtures[g][c[best].club] >= 2}
    IN  [bboost   |-> IF double # NoGw /\ doubles(double) >= 3 THEN double ELSE NoGw,
         triple   |-> IF captain = {} THEN NoGw ELSE Min(captain),
         freehit  |-> IF blank # NoGw /\ blanks(blank) >= 4 THEN blank ELSE NoGw,
         wildcard |-> gap > WildcardGap]

(* solve: c are the plan's candidates; a pick that is not in the universe  *)
(* is left out of the program.                                             *)
Plans(owned, c, bank, free) ==
    LET plan(a) ==
            LET moves == PairMoves(owned \ a.squad, a.squad \ owned, c)
                hits  == Max({0, Cardinality(moves) - free})
                ep(S) == Sum(S, LAMBDA p : c[p].ep)
            IN  [solution |-> a, moves |-> moves, hits |-> hits,
                 currentEp |-> ep(owned), plannedEp |-> ep(a.squad) - hits * HitCost]
    IN  {plan(a) : a \in SolveTransfers(owned, DOMAIN c \ owned, c, bank, free,
                                        MaxTransfersFor(free))}

(* The picks the plan has a candidate for.                                *)
Owned == req.picks \cap DOMAIN req.c

(* plan(managerId): getSquad, the most recently imported squad.            *)
StartPlan(squad, free) ==
    /\ req.at = "idle"
    /\ req' = [at |-> "universe", kind |-> "plan", free |-> free, bought |-> Paid,
               picks |-> squad.picks, bank |-> squad.bank]
    /\ UNCHANGED store

(* validateSquad: every id must have a row, and a removed player keeps     *)
(* his; checkLegality of the fifteen at the stored prices.                 *)
CheckLegality(s) ==
    /\ s \subseteq listed \cup Leavers
    /\ s \in Fifteens(s, Facts)
    /\ Elevens(s, Facts) # {}
    /\ Sum(s, LAMBDA p : price[p]) <= Budget

(* planBuilt: validateSquad, refused when it is not legal ...              *)
StartBuilt(s, free, stated) ==
    /\ req.at = "idle"
    /\ CheckLegality(s)
    /\ req' = [at |-> "dto", kind |-> "built", free |-> Max({1, free}), picks |-> s,
               stated |-> stated]
    /\ UNCHANGED store

(* The bank the user stated, and otherwise what the fifteen leaves of the  *)
(* budget.                                                                 *)
BankOf(s, stated) ==
    IF stated = NoBank THEN Budget - Sum(s, LAMBDA p : price[p]) ELSE stated

(* ... then asSquadDto, which reads the players again.                     *)
BuiltDto ==
    /\ req.at = "dto"
    /\ req' = [at |-> "universe", kind |-> "built", free |-> req.free, picks |-> req.picks,
               bank |-> BankOf(req.picks, req.stated), bought |-> price]
    /\ UNCHANGED store

(* The players of the universe, and solve: the solver sees only what was   *)
(* just read.  With no legal fifteen in reach the request throws.          *)
Solve ==
    /\ req.at = "solve"
    /\ LET owned == req.picks \cap listed
           c     == Priced(Candidates(Universe), owned, req.bought)
           found == Plans(owned, c, req.bank, req.free)
       IN  IF found = {} THEN req' = Idle
           ELSE \E a \in found : req' = Onto([at |-> "gap", c |-> c, plan |-> a], req)
    /\ UNCHANGED store

(* gapToRecommendation reads a second universe and solves for the best     *)
(* squad from scratch in it.                                               *)
Gap ==
    /\ req.at = "compare"
    /\ LET found == Recommendations(Universe)
       IN  IF found = {} THEN req' = Idle
           ELSE \E r \in found :
                  LET best == Sum(r.solution.squad, LAMBDA p : req.forecast[p].ep)
                      gap  == Max({0, best - req.plan.currentEp})
                  IN  req' = Onto([at |-> "answered", chips |-> AdviseChips(Owned, req.c, gap)], req)
    /\ UNCHANGED store

(* getRecommendedSquad: the run, then the players read again; the bank is  *)
(* what they leave of the budget.                                          *)
StartRecommend ==
    /\ req.at = "idle"
    /\ req' = [at |-> "run"]
    /\ UNCHANGED store

Recommend ==
    /\ req.at = "recommend"
    /\ LET found == Recommendations(Universe)
       IN  IF found = {} THEN req' = Idle
           ELSE \E r \in found : req' = Onto([at |-> "players"], r)
    /\ UNCHANGED store

RecommendDto ==
    /\ req.at = "players"
    /\ req' = Onto([at   |-> "recommended",
                    bank |-> Budget - Sum(req.solution.squad, LAMBDA p : price[p])], req)
    /\ UNCHANGED store

Finish ==
    /\ req.at \in {"answered", "recommended"}
    /\ req' = Idle
    /\ UNCHANGED store

Request ==
    \/ \E squad \in Imported, free \in FreeTransfers : StartPlan(squad, free)
    \/ \E s \in Built, free \in FreeTransfers :
          \E stated \in Stated : StartBuilt(s, free, stated)
    \/ LoadProjections \/ BuiltDto \/ Solve \/ Gap
    \/ StartRecommend \/ Recommend \/ RecommendDto \/ Finish

Environment ==
    \/ \E p \in Player : \E v \in Prices[p] : Reprice(p, v)
    \/ \E f \in Forecasts : Reproject(f)
    \/ AddPlayers
    \/ \E p \in Leavers : RemovePlayer(p)

Next == Request \/ Environment

Spec == Init /\ [][Next]_vars
-----------------------------------------------------------------------------
(* Properties.                                                             *)

Planned  == req.at \in {"gap", "compare", "answered"}
Whole    == req.picks \subseteq DOMAIN req.c
Outs     == {m.out : m \in req.plan.moves}
Ins      == {m.in : m \in req.plan.moves}

(* "What is the best legal fifteen reachable from the one you already own" *)
(* (transfer-lp.ts:15): carried out move by move on the squad held, the    *)
(* plan a reader sees leads to the fifteen the solver chose, and that one  *)
(* is legal, when every pick was in the universe.                          *)
PlanIsLegal ==
    (Planned /\ Whole) =>
        /\ (req.picks \ Outs) \cup Ins = req.plan.solution.squad
        /\ Cardinality(req.plan.solution.squad) = SquadSize
        /\ \A p \in Position : Cardinality(Of(req.plan.solution.squad, Facts, p)) = SquadSelect[p]
        /\ \A p \in req.plan.solution.squad :
              Cardinality({q \in req.plan.solution.squad : Facts[q].club = Facts[p].club}) <= ClubLimit
        /\ LegalFormation(req.plan.solution.xi, Facts)

(* "Money comes back at sell value" (transfers.service.ts:50): the moves   *)
(* never spend more than the bank and what FPL pays for those who leave,   *)
(* unless a price paid could not be reconstructed.                         *)
PlanIsAffordable ==
    (Planned /\ \A p \in Outs : req.bought[p] # NoPrice) =>
        Sum(Ins, LAMBDA p : req.c[p].cost)
          <= req.bank + Sum(Outs, LAMBDA p : SellValue(req.bought[p], req.c[p].cost))

(* "The hit lives in the objective" (transfers.service.ts:47): when the    *)
(* squad held is itself a legal fifteen, no plan is worth less to the      *)
(* solver than keeping it, hits and all.                                   *)
NeverWorseThanHolding ==
    (Planned /\ Whole /\ req.bank >= 0 /\ req.picks \in Fifteens(req.picks, Facts)) =>
        \A held \in SolutionsOver(req.picks, 0, req.c) : req.plan.solution.value >= held.value

(* "the validator has already required Σ cost ≤ budget so the default is   *)
(* never negative" (transfers.service.ts:237-238).  False: the prices are  *)
(* read again after they were validated.                                   *)
BankIsNeverNegative == (req.at = "universe" /\ req.kind = "built") => req.bank >= 0

(* "They still occupy a squad slot, so they are carried ... rather than    *)
(* dropped" (transfers.service.ts:294-295): whoever is removed, the moves  *)
(* shown lead from the squad held to the one the plan is worth.  False:    *)
(* the solver buys for the place of a removed player, and no move says so. *)
RemovedKeepsHisPlace ==
    Planned => (req.picks \ Outs) \cup Ins = req.plan.solution.squad
=============================================================================
