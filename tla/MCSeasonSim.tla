----------------------------- MODULE MCSeasonSim -----------------------------
(* A squad of seven, an eleven of four, three clubs; four gameweeks, each   *)
(* with one of four markets.  Player 4 lacks a row though his club plays,   *)
(* club 1 blanks, a captain stays at home, prices move; player 3 plays      *)
(* twice, and one predictor never has a number for player 5.                *)
EXTENDS SeasonSim

MCPosition(g, d, m, f) == "GKP" :> g @@ "DEF" :> d @@ "MID" :> m @@ "FWD" :> f

MCSelect  == MCPosition(2, 2, 2, 1)
MCMinPlay == MCPosition(1, 1, 1, 0)
MCMaxPlay == MCPosition(1, 2, 2, 1)

MCPos  == <<"GKP", "GKP", "DEF", "DEF", "MID", "MID", "FWD", "DEF", "MID", "FWD", "DEF">>
MCClub == <<2, 3, 1, 1, 2, 3, 2, 1, 3, 1, 2>>
MCCost == <<45, 40, 50, 45, 60, 50, 80, 45, 62, 83, 40>>

MCRow(p, points, horizon, minutes, actual, rise) ==
    [club |-> MCClub[p], value |-> MCCost[p] + (IF p = 7 THEN rise ELSE 0),
     points |-> points, horizon |-> horizon, pPlay |-> IF p = 6 THEN 5 ELSE 10,
     minutes |-> minutes, actual |-> actual, silent |-> IF p = 5 /\ rise = 6 THEN {"priorSeason"} ELSE {}]

MCMarket(players, points, horizon, minutes, actual, rise) ==
    [p \in players |->
        LET row == MCRow(p, points[p], horizon[p], minutes[p], actual[p], rise)
        IN  IF p = 3 /\ rise = 2 THEN <<[row EXCEPT !.actual = 8, !.minutes = 70], row>> ELSE <<row>>] @@ <<>>

MCOpening == LET points == <<4, 3, 5, 4, 6, 4, 7, 1, 2, 3, 1>>
             IN  [p \in 1..11 |-> MCRow(p, points[p], points[p], 90, 2, 0)] @@ <<>>
MCOwnership == <<6, 1, 9, 2, 9, 9, 1, 8, 3, 5, 2>>
MCDraws == {<<1, 6, 2, 7, 1, 2, 3, 4, 8, 9, 5>>}

MCMarkets == [i \in 1..4 |-> {
    \* as forecast, but the captain stays at home
    MCMarket(1..11, <<4, 3, 5, 4, 6, 4, 8, 1, 2, 3, 1>>, <<9, 6, 9, 9, 12, 8, 15, 3, 5, 9, 2>>,
             <<90, 90, 90, 90, 60, 20, 0, 0, 90, 90, 90>>, <<6, 2, 1, 9, 8, 3, 0, 0, 2, 5, 1>>, 4),
    \* player 4 has no row, player 8 of his club is the better
    MCMarket(1..11 \ {4}, <<4, 5, 5, 4, 6, 4, 3, 7, 2, 7, 1>>, <<9, 9, 9, 0, 12, 8, 6, 14, 5, 15, 2>>,
             <<0, 90, 0, 90, 90, 90, 90, 90, 90, 90, 90>>, <<0, 2, 0, 9, -1, 3, 1, 12, 2, 11, 1>>, 6),
    \* club 1 has no fixture
    MCMarket({p \in 1..11 : MCClub[p] # 1}, <<3, 4, 0, 0, 2, 7, 6, 0, 8, 0, 5>>,
             <<8, 8, 0, 0, 6, 14, 12, 0, 16, 0, 9>>,
             <<90, 0, 0, 0, 0, 90, 90, 0, 90, 0, 90>>, <<2, 0, 0, 0, 0, 10, 5, 0, 9, 0, 6>>, -4),
    \* everybody plays, nobody as foreseen
    MCMarket(1..11, <<1, 2, 3, 6, 2, 3, 4, 6, 7, 6, 4>>, <<2, 4, 6, 12, 5, 6, 9, 12, 13, 14, 8>>,
             [p \in 1..11 |-> 90], <<-1, 4, -2, 0, 1, 2, 2, 6, -1, 9, 3>>, 2)}]

MCRounds == <<2, 3, 4, 5>>
MCChips == "TC" :> 7 @@ "BB" :> 9
==============================================================================
