------------------------------ MODULE SeasonSim ------------------------------
(***************************************************************************)
(* A season walked under the rules, as the decision report does            *)
(* (calibration/decision.service.ts): a squad opened for the money there   *)
(* is, then, deadline after deadline, the transfers of a policy, the       *)
(* lineup the forecasts choose, the points the round turns out to give it, *)
(* a chip, and a free transfer more (season-sim.ts).  Two arms hold their  *)
(* opening squad: one compares the lineups alone (xi-decision.ts), one     *)
(* replays the solver's own eleven (xi-replay.ts).                         *)
(*                                                                         *)
(* A round is what the backtest says of it: for every player, a row for    *)
(* each match of his.  Which round comes is the environment's choice.      *)
(* HiGHS is external (Squad).                                              *)
(***************************************************************************)
EXTENDS Squad

CONSTANTS
    Pos,        \* player -> position
    Policies,   \* the policies walked
    Opening,    \* the rows the squad is opened from
    Ownership,  \* player -> his ownership at the opening
    Draws,      \* the seeded draws: sets of player -> weight
    Rounds,     \* the rounds walked, in order
    Markets,    \* index of a round -> what the backtest may say of it
    LastRound,  \* lastRound of chipThreshold
    ChipBase    \* options.chips: chip -> the bar it starts from

(* A row is [club, value, points, horizon, pPlay, minutes, actual, silent]:*)
(* silent are the predictors with no number for it.  A club is a positive  *)
(* number, NoClub for a row without a teamCode.                            *)
NoClub == 0
NoChip == "none"
Chip   == DOMAIN ChipBase

(* openingFreeTransfers throws for a walk that opens later.                *)
ASSUME SeasonAssumption ==
    /\ Policies \subseteq {"no-transfer", "greedy-1ft", "planner", "held", "replay"}
    /\ Rounds \in Seq(Nat) /\ Rounds # <<>> /\ Rounds[1] \in 1..2
    /\ Chip \subseteq {"TC", "BB"}

(* Finitely many players have a position, and only they have rows.  Who    *)
(* did not come on scored nothing, or was booked on the bench.             *)
ASSUME RowsAssumption ==
    /\ DOMAIN Pos \subseteq Nat /\ IsFiniteSet(DOMAIN Pos)
    /\ \A p \in DOMAIN Pos : Pos[p] \in Position
    /\ DOMAIN Opening \subseteq DOMAIN Pos
    /\ \A p \in DOMAIN Opening : Opening[p].value \in Nat
    /\ \A i \in DOMAIN Rounds : \A said \in Markets[i] :
          /\ DOMAIN said \subseteq DOMAIN Pos
          /\ \A p \in DOMAIN said :
                /\ said[p] \in Seq(ToSet(said[p]))
                /\ \A j \in DOMAIN said[p] :
                      /\ {said[p][j].value, said[p][j].minutes} \subseteq Nat
                      /\ {said[p][j].points, said[p][j].pPlay, said[p][j].actual} \subseteq Int
                      /\ said[p][j].minutes = 0 => said[p][j].actual <= 0

VARIABLES
    policy,  \* the policy of this walk
    at,      \* the rounds walked
    owned,   \* state.owned: player -> what was paid for him
    bank, free,
    known,   \* the last row of each player, which gives his price
    seen,    \* lastSeen: player -> [points, pPlay]
    chips,   \* chipsLeft
    made,    \* totalTransfers
    paidFor, \* totalHitCost, in hits
    last     \* the round just recorded, and what it was decided on

vars == <<policy, at, owned, bank, free, known, seen, chips, made, paidFor, last>>

Squadron == DOMAIN owned
Price(rows, p) == rows[p].value
Sells(squad, rows) == Sum(DOMAIN squad, LAMBDA p : SellValue(squad[p], Price(rows, p)))

-----------------------------------------------------------------------------
(* The opening.                                                            *)

SquadsFor(weight(_)) ==
    LET c == [p \in {q \in DOMAIN Opening : Opening[q].club # NoClub} |->
                [pos |-> Pos[p], club |-> Opening[p].club, cost |-> Opening[p].value,
                 ep |-> weight(p)]]
    IN  {a.squad : a \in SolveSquad(DOMAIN c, c)}

(* openingSquad: the optimal fifteens of the rows with a club.             *)
OpeningSquads == SquadsFor(LAMBDA p : Opening[p].points)

(* templateSquad: the most-owned fifteens.                                 *)
TemplateSquads == SquadsFor(LAMBDA p : Ownership[p])

(* The lineups are compared over the template and over the drawn fifteens. *)
FixedSquads == TemplateSquads \union UNION {SquadsFor(LAMBDA p : w[p]) : w \in Draws}

(* The walks without a planner run over the template too.                  *)
OpeningOf(arm) ==
    CASE arm \in {"planner", "replay"} -> OpeningSquads
      [] arm = "held" -> FixedSquads
      [] OTHER -> OpeningSquads \union TemplateSquads

OpeningFreeTransfers == IF Rounds[1] <= 1 THEN 0 ELSE 1

Init ==
    /\ policy \in Policies
    /\ at = 0
    /\ \E s \in OpeningOf(policy) : owned = [p \in s |-> Opening[p].value]
    /\ bank = Budget - Sum(Squadron, LAMBDA p : owned[p])
    /\ free = OpeningFreeTransfers
    /\ known = [p \in Squadron |-> Opening[p]]
    /\ seen = <<>>
    /\ chips = Chip
    /\ made = 0 /\ paidFor = 0
    /\ last = <<>>

-----------------------------------------------------------------------------
(* What the arms see of a round.                                           *)

(* commonRows: the rows every predictor has a number for.                  *)
Common(row) == row.silent = {}

(* A row for each player who has some that count: the last.                *)
LastOf(said, counts(_)) ==
    LET of(p) == {i \in DOMAIN said[p] : counts(said[p][i])}
    IN  [p \in {q \in DOMAIN said : of(q) # {}} |-> said[p][Max(of(p))]]

(* byRound: the last of the player's matches, of the common ones.          *)
ByRound(said) == LastOf(said, Common)

(* The replay of one predictor takes every row.                            *)
EveryRow(said) == LastOf(said, LAMBDA row : TRUE)

-----------------------------------------------------------------------------
(* The policies: sets of moves [out, in].                                  *)

ClubOf(m, p) == IF p \in DOMAIN m THEN m[p].club ELSE NoClub

(* A player of q's position for q, the money and the club cap permitting;  *)
(* a club is counted over the rows of this round.                          *)
GreedyGain(m, mv) ==
    m[mv.in].points - (IF mv.out \in DOMAIN m THEN m[mv.out].points ELSE 0)

(* A slip: the position compared only when the departing has a row.        *)
GreedyMovesOfAnyPosition(m, rows) ==
    {mv \in [out : Squadron, in : DOMAIN m \ Squadron] :
        /\ mv.out \in DOMAIN m => Pos[mv.in] = Pos[mv.out]
        /\ bank + SellValue(owned[mv.out], Price(rows, mv.out)) >= Price(rows, mv.in)
        /\ GreedyGain(m, mv) > 0}

GreedyMoves(m, rows) ==
    LET ofClub(k) == {p \in Squadron : ClubOf(m, p) = k}
    IN  {mv \in [out : Squadron, in : DOMAIN m \ Squadron] :
            /\ Pos[mv.in] = Pos[mv.out]
            /\ m[mv.in].club # NoClub
            /\ bank + SellValue(owned[mv.out], Price(rows, mv.out)) >= Price(rows, mv.in)
            /\ Cardinality(ofClub(m[mv.in].club) \ {mv.out}) < ClubLimit
            /\ GreedyGain(m, mv) > 0}

(* GREEDY_ONE_FT: the best of them, ties to the lowest player in, then out.*)
GreedyOneFt(m, rows) ==
    LET moves == GreedyMoves(m, rows)
        better(a, b) ==
            \/ GreedyGain(m, a) > GreedyGain(m, b)
            \/ GreedyGain(m, a) = GreedyGain(m, b)
                 /\ (a.in < b.in \/ (a.in = b.in /\ a.out < b.out))
    IN  IF free < 1 \/ moves = {} THEN {}
        ELSE {CHOOSE a \in moves : \A b \in moves \ {a} : better(a, b)}

(* plannerPolicy: an owned player without a row is worth nothing, keeps    *)
(* the price last seen and a club of his own.                              *)
PlannerTable(m, rows) ==
    [p \in Squadron \cup {q \in DOMAIN m : m[q].club # NoClub} |->
        [pos  |-> Pos[p],
         club |-> IF ClubOf(m, p) = NoClub THEN -p ELSE m[p].club,
         cost |-> Price(rows, p),
         ep   |-> IF p \in DOMAIN m THEN m[p].horizon ELSE 0,
         sell |-> IF p \in Squadron THEN SellValue(owned[p], Price(rows, p)) ELSE 0]]

(* What is bought is paired with what is sold of its position.             *)
InOrder(S, c, k) == Ranked(Of(S, c, k), LAMBDA p : -p)

Pairing(s, c) ==
    UNION {{[out |-> InOrder(Squadron \ s, c, k)[i], in |-> InOrder(s \ Squadron, c, k)[i]] :
                i \in DOMAIN InOrder(s \ Squadron, c, k)} : k \in Position}

PlannerPolicy(m, rows) ==
    LET c == PlannerTable(m, rows)
    IN  {Pairing(a.squad, c) : a \in SolveTransfers(Squadron, DOMAIN c \ Squadron, c, bank, free,
                                                    MaxTransfersFor(free))}

Decide(m, rows) ==
    CASE policy = "no-transfer" -> {{}}
      [] policy = "greedy-1ft"  -> {GreedyOneFt(m, rows)}
      [] policy = "planner"     -> PlannerPolicy(m, rows)

-----------------------------------------------------------------------------
(* The round.                                                              *)

Outs(moves) == {mv.out : mv \in moves}
Ins(moves)  == {mv.in : mv \in moves}

(* The incoming is owned at what was paid for him.                         *)
AfterMoves(moves, rows) ==
    [p \in (Squadron \ Outs(moves)) \cup Ins(moves) |->
        IF p \in Squadron THEN owned[p] ELSE Price(rows, p)]

(* A slip: what leaves is credited at the market price.                    *)
BankAfterAtMarket(moves, rows) ==
    bank + Sum(Outs(moves), LAMBDA p : Price(rows, p)) - Sum(Ins(moves), LAMBDA p : Price(rows, p))

BankAfter(moves, rows) ==
    bank + Sum(Outs(moves), LAMBDA p : SellValue(owned[p], Price(rows, p)))
         - Sum(Ins(moves), LAMBDA p : Price(rows, p))

(* slotFor: without a row a player blanks, and keeps the forecast last     *)
(* seen of him when his club plays; rows tell his club.                    *)
Slot(p, m, rows) ==
    LET playing == {m[q].club : q \in DOMAIN m} \ {NoClub}
    IN  CASE p \in DOMAIN m ->
               [pos |-> Pos[p], predicted |-> m[p].points, pPlay |-> m[p].pPlay,
                minutes |-> m[p].minutes, actual |-> m[p].actual]
          [] p \notin DOMAIN m /\ rows[p].club \in playing /\ p \in DOMAIN seen ->
               [pos |-> Pos[p], predicted |-> seen[p].points, pPlay |-> seen[p].pPlay,
                minutes |-> 0, actual |-> 0]
          [] OTHER ->
               [pos |-> Pos[p], predicted |-> 0, pPlay |-> 0, minutes |-> 0, actual |-> 0]

Slots(S, m, rows) == [p \in S |-> Slot(p, m, rows)]

Projected(p, m) ==
    CASE p \in DOMAIN m -> m[p].points
      [] p \notin DOMAIN m /\ p \in DOMAIN seen -> seen[p].points
      [] OTHER -> 0

(* chipThreshold, as a fraction of four times the rounds there are.        *)
Over(chip, gain, round) ==
    4 * (LastRound - 1) * gain
      - ChipBase[chip] * (4 * (LastRound - 1) - 3 * Min({LastRound - 1, Max({0, round - 1})}))

(* The chip furthest over its bar, none when none is.                      *)
ChipFor(tcGain, bbGain, round) ==
    LET over == [c \in chips |-> Over(c, IF c = "TC" THEN tcGain ELSE bbGain, round)]
        pick == {c \in chips : over[c] > 0}
    IN  IF pick = {} THEN NoChip
        ELSE CHOOSE c \in pick : \A d \in pick : over[c] > over[d] \/ (over[c] = over[d] /\ (c = "BB" \/ c = d))

BenchGain(lineup, m) == Sum(ToSet(lineup.bench), LAMBDA p : Projected(p, m))

(* Another armband, or the bench, less what substitution already took.     *)
ChipPoints(chip, lineup, scored, t) ==
    CASE chip = "TC" -> ActualOf(scored.doubled, t)
      [] chip = "BB" -> Sum(ToSet(lineup.bench), LAMBDA p : t[p].actual)
                          + FoldSeq(LAMBDA x, acc : acc + t[x.off].actual - t[x.on].actual,
                                    0, scored.subs)
      [] OTHER -> 0

GrantFreeTransfer(n) == Min({n + 1, FreeTransferCap})

(* A slip: hits are charged and the free transfers not spent.              *)
FreeLeftUnspent(n, moves) == IF Cardinality(moves) > n THEN n ELSE n - Cardinality(moves)

FreeLeft(n, moves) == Max({0, n - Cardinality(moves)})

SeenAfter(m) ==
    Onto([p \in DOMAIN m |-> [points |-> m[p].points, pPlay |-> m[p].pPlay]], seen)

(* A round of simulateSeason.                                              *)
PlayRound(said) ==
    LET m     == ByRound(said)
        round == Rounds[at + 1]
        rows  == Onto(m, known)
    IN  /\ policy \notin {"held", "replay"}
        /\ \E moves \in Decide(m, rows) :
              LET squad == AfterMoves(moves, rows)
                  t     == Slots(DOMAIN squad, m, rows)
                  hits  == Max({0, Cardinality(moves) - free})
              IN  \E lineup \in {ChooseLineup(DOMAIN squad, t)} :
                    LET scored == ScoreLineup(lineup, t)
                        tcGain == IF scored.doubled = Nobody THEN 0 ELSE Projected(scored.doubled, m)
                        chip   == ChipFor(tcGain, BenchGain(lineup, m), round)
                    IN  /\ owned' = squad
                        /\ bank' = BankAfter(moves, rows)
                        /\ free' = GrantFreeTransfer(FreeLeft(free, moves))
                        /\ known' = rows
                        /\ seen' = SeenAfter(m)
                        /\ chips' = chips \ {chip}
                        /\ made' = made + Cardinality(moves)
                        /\ paidFor' = paidFor + hits
                        /\ last' = [said |-> said, table |-> t, lineup |-> lineup,
                                    scored |-> scored, chip |-> chip, hits |-> hits,
                                    points |-> scored.points - HitCost * hits
                                                 + ChipPoints(chip, lineup, scored, t)]
        /\ at' = at + 1
        /\ UNCHANGED policy

(* heldCandidates: the fifteen are the only candidates of the replay.      *)
HeldCandidates(t) ==
    [p \in Squadron |-> [pos |-> Pos[p], club |-> Opening[p].club, cost |-> Opening[p].value,
                         ep |-> t[p].predicted]]

(* The solver's own eleven and captain.                                    *)
SolvedLineup(a, t) ==
    LET benched  == Squadron \ a.xi
        outfield == {p \in benched : Pos[p] # "GKP"}
    IN  [starters |-> SetToSeq(a.xi),
         bench    |-> SetToSeq(benched \ outfield)
                        \o BenchOrder(outfield, LAMBDA p : t[p].predicted * t[p].pPlay),
         captain  |-> a.captain,
         vice     |-> First(a.xi \ {a.captain}, LAMBDA p : t[p].predicted)]

(* What the lineups score over the fifteen held, and what is seen of them. *)
Hold(said, m, lineups(_)) ==
    LET t == Slots(Squadron, m, Opening)
    IN  /\ IF Squadron \intersect DOMAIN m = {}
           THEN UNCHANGED <<seen, last>>
           ELSE /\ \E lineup \in lineups(t) :
                     LET scored == ScoreLineup(lineup, t)
                     IN  last' = [said |-> said, table |-> t, lineup |-> lineup, scored |-> scored,
                                  chip |-> NoChip, points |-> scored.points, hits |-> 0]
                /\ seen' = SeenAfter([p \in Squadron \intersect DOMAIN m |-> m[p]])
        /\ at' = at + 1
        /\ UNCHANGED <<policy, owned, bank, free, known, chips, made, paidFor>>

(* A round of decideOverSeason; one in which nobody held has a row is      *)
(* passed over.                                                            *)
HoldRound(said) ==
    /\ policy = "held"
    /\ Hold(said, ByRound(said), LAMBDA t : {ChooseLineup(Squadron, t)})

(* A round of replaySeason.                                                *)
ReplayRound(said) ==
    /\ policy = "replay"
    /\ Hold(said, EveryRow(said),
            LAMBDA t : {SolvedLineup(a, t) : a \in SolveSquad(Squadron, HeldCandidates(t))})

Next == at < Len(Rounds) /\ \E said \in Markets[at + 1] : PlayRound(said) \/ HoldRound(said) \/ ReplayRound(said)

Spec == Init /\ [][Next]_vars
-----------------------------------------------------------------------------
(* Properties.                                                             *)

Walked == last # <<>>
Field(k) == last[k]

(* Positions are carried on the squad because a season once drifted to no  *)
(* keeper at all (season-sim.ts:47): whatever rows a round lacks, the      *)
(* fifteen keeps its shape and the bank is not overdrawn.                  *)
SquadKeepsItsShape ==
    /\ \A k \in Position : Cardinality({p \in Squadron : Pos[p] = k}) = SquadSelect[k]
    /\ bank >= 0

(* A transfer makes no money (season-sim.ts:446): at the round's prices    *)
(* bank and resale together are what they were before it.                  *)
TransfersMakeNoMoney ==
    [][bank' + Sells(owned', known') = bank + Sells(owned, known')]_vars

(* The transfers made beyond those granted, one a round up to the cap,     *)
(* were all paid for (season-sim.ts:439,465,563).                          *)
ExtraTransfersArePaid ==
    made - paidFor + free <= OpeningFreeTransfers + at

(* What the automatic substitutions leave on the pitch is an eleven the    *)
(* rules allow (squad-scoring.ts:76), and no substitute with minutes is    *)
(* left who could have replaced a starter without.                         *)
SubstitutionsAreComplete ==
    Walked =>
        LET t == Field("table")
            fielded == Field("scored").fielded
        IN  /\ LegalFormation(fielded, t)
            /\ \A off \in fielded, on \in DOMAIN t \ fielded :
                  (t[off].minutes = 0 /\ t[on].minutes > 0)
                    => ~LegalFormation((fielded \ {off}) \cup {on}, t)

(* "The points ceiling of the same fifteen" bounds what any lineup of it   *)
(* scores, substitutes and vice-captain included (xi-decision.ts:205).     *)
WithinCeiling ==
    Walked => Field("scored").points <= CeilingFor(Squadron, Field("table"))

(* "A player whose club DID play and who has no row was dropped or unused" *)
(* (season-sim.ts:470): whoever is scored as without minutes had none.     *)
WhoBlanksDidNotPlay ==
    Walked => \A p \in DOMAIN Field("table") :
        (Field("table")[p].minutes = 0 /\ p \in DOMAIN Field("said")) =>
            \A i \in DOMAIN Field("said")[p] : Field("said")[p][i].minutes = 0
=============================================================================
