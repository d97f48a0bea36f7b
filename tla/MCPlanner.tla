------------------------------ MODULE MCPlanner ------------------------------
(* A squad of seven, an eleven of five: one bench place for a keeper and    *)
(* one for the outfield, two formations of each line.  Forecasts are in     *)
(* hundredths of a point, prices in tenths.                                 *)
EXTENDS Planner

MCPosition(g, d, m, f) == "GKP" :> g @@ "DEF" :> d @@ "MID" :> m @@ "FWD" :> f

MCSelect  == MCPosition(2, 2, 2, 1)
MCMinPlay == MCPosition(1, 1, 1, 0)
MCMaxPlay == MCPosition(1, 2, 2, 1)

MCPlayer == 1..11
MCRow(pos, club, appearances) == [pos |-> pos, club |-> club, appearances |-> appearances]
MCFacts  ==
    <<MCRow("GKP", "a", 30), MCRow("GKP", "b", 30), MCRow("DEF", "a", 30), MCRow("DEF", "c", 30),
      MCRow("MID", "b", 30), MCRow("MID", "c", 30), MCRow("FWD", "a", 30), MCRow("GKP", "c", 30),
      MCRow("DEF", "b", 10), MCRow("MID", "a", 30), MCRow("FWD", "b", 30)>>
MCCost   == <<45, 45, 50, 45, 60, 50, 80, 40, 45, 65, 85>>

(* The forward's price may rise; he cost the manager 80.  What was paid    *)
(* for player 5 is unknown.                                                *)
MCPrices == [p \in MCPlayer |-> IF p = 7 THEN {80, 86} ELSE {MCCost[p]}]
MCPaid   == [p \in MCPlayer |-> IF p = 5 THEN NoPrice ELSE MCCost[p]]

MCTable(ep, next) ==
    [p \in MCPlayer |-> [ep |-> ep[p], next |-> next[p], pPlay |-> IF p = 4 THEN 5 ELSE 10]]
MCForecasts == {
    MCTable(<<350, 300, 300, 250, 400, 350, 450, 20, 600, 500, 700>>,
            <<70, 60, 60, 90, 80, 70, NoRow, 4, 120, 100, 140>>),
    MCTable(<<300, 250, 0, 250, 300, 200, 350, 320, 310, 1100, 300>>,
            <<60, 50, 0, 50, 60, 40, 140, 64, 62, 220, 60>>)}

MCFixtures == <<[c \in {"a", "b", "c"} |-> 1], ("a" :> 2 @@ "b" :> 0 @@ "c" :> 1)>>
MCImported == {[picks |-> 1..7, bank |-> b] : b \in {0, 60}}
MCBuilt    == {1..7}
MCStated   == {NoBank, 40}
=============================================================================
