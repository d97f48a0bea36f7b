---------------------------- MODULE MCWalkForward ----------------------------
(* Three seasons of two clubs and three players, one of whom changes club,  *)
(* comes late, or has no club the archive can name; double gameweeks, a     *)
(* round nobody plays, seasons without recorded starts or expected goals.   *)
EXTENDS Forecast

(* A fixture: home club, away club, and who has a row of it.                *)
MCFixture(h, a, players) == [home |-> h, away |-> a, players |-> players]

MCPlain == << <<1, <<MCFixture(1, 2, {1, 2, 3})>> >>, <<2, <<MCFixture(2, 1, {1, 2, 3})>> >>,
              <<3, <<MCFixture(1, 2, {1, 2, 3})>> >> >>
MCDouble == << <<1, <<MCFixture(1, 2, {1, 2})>> >>,
               <<2, <<MCFixture(2, 1, {1, 2}), MCFixture(1, 2, {1, 2, 3})>> >>,
               <<3, <<MCFixture(1, 2, {1, 2}), MCFixture(2, 1, {1, 2})>> >>,
               <<4, <<MCFixture(2, 1, {1, 2, 3})>> >> >>
MCBlank == << <<1, <<MCFixture(1, 2, {1, 3})>> >>, <<3, <<MCFixture(2, 1, {1, 2})>> >>,
              <<4, <<MCFixture(1, 2, {2, 3})>> >> >>
MCAway  == << <<1, <<MCFixture(1, 2, {2, 3})>> >>, <<2, <<MCFixture(2, 1, {2})>> >> >>

(* Player 3 is of club 1 in even rounds, unnamed in the first.              *)
MCClubOf(p, n) == CASE p = 1 -> 1 [] p = 2 -> 2 [] OTHER -> IF n = 1 THEN Null ELSE 1

MCRow(s, n, f, fx, p, how) ==
    LET t == MCClubOf(p, n)
    IN  [season |-> s, round |-> n, fixture |-> f, player |-> p, team |-> t,
         opp |-> IF t = fx.home THEN fx.away ELSE fx.home, home |-> t = fx.home,
         minutes |-> IF (p + n) % 3 = 0 THEN 0 ELSE 90,
         starts |-> IF how = "recorded" THEN (IF (p + n) % 3 = 1 THEN 1 ELSE 0) ELSE Null,
         prob |-> IF how = "imputed" THEN 7 ELSE Null,
         xg |-> IF how = "recorded" THEN 1 ELSE Null,
         ep |-> IF p = 1 THEN 4 ELSE Null]

MCRound(s, rd, how) ==
    FlattenSeq([f \in DOMAIN rd[2] |->
        LET fx == rd[2][f]
            who == SetToSeq(fx.players)
        IN  [i \in DOMAIN who |-> MCRow(s, rd[1], f, fx, who[i], how)]])

MCSeason(s, pattern, how) == FlattenSeq([i \in DOMAIN pattern |-> MCRound(s, pattern[i], how)])

MCHistories ==
    {MCSeason(3, c, "recorded") \o MCSeason(1, a, how) \o MCSeason(2, b, "recorded") :
        a \in {MCPlain, MCDouble}, b \in {MCDouble, MCBlank, MCAway}, c \in {MCDouble, MCBlank},
        how \in {"none", "imputed"}}

MCParameters ==
    {[decaying |-> TRUE, shrink |-> 4, imputed |-> TRUE, horizon |-> 3, from |-> 1,
      fitted |-> FALSE, crowd |-> TRUE],
     [decaying |-> FALSE, shrink |-> 0, imputed |-> FALSE, horizon |-> 1, from |-> 3,
      fitted |-> TRUE, crowd |-> FALSE]}

(* Gameweeks 5 and 6 of the third season are asked about: a double one for  *)
(* club 2, a blank for club 3; player 5 is new, player 6 has left.          *)
MCFlag(status, chance) == [status |-> status, chance |-> chance]
MCPlayer(team, flag, ep) == [team |-> team, removed |-> FALSE, flag |-> flag, ep |-> ep]

MCPlayers == <<MCPlayer(1, MCFlag("a", Null), 4), MCPlayer(2, MCFlag("d", 75), Null),
               MCPlayer(1, MCFlag("s", Null), 2), MCPlayer(3, MCFlag("a", 100), 5),
               MCPlayer(2, MCFlag("i", Null), 3), [MCPlayer(1, MCFlag("u", 0), Null) EXCEPT !.removed = TRUE]>>
MCFixtures == [gw \in 1..6 |-> CASE gw < 5 -> <<>>
                                 [] gw = 5 -> << <<1, 2>>, <<2, 3>> >>
                                 [] gw = 6 -> << <<2, 1>>, <<1, 2>> >>]
MCSnapshot == 3 :> [flag |-> MCFlag("a", Null), ep |-> 6] @@ 2 :> [flag |-> MCFlag("n", Null), ep |-> Null]

MCCalls == {[target |-> t, fixtures |-> MCFixtures, players |-> MCPlayers, snapshot |-> s, isNext |-> n] :
                t \in {5, 6}, s \in {<<>>, MCSnapshot}, n \in BOOLEAN}
=============================================================================
