---------------------------- MODULE ManagerSeason ----------------------------
(***************************************************************************)
(* What the transfer planner reconstructs about a manager, next to the     *)
(* season that manager plays in FPL.                                       *)
(*                                                                         *)
(* The season is FPL's (external): prices move, the manager buys, sells    *)
(* and plays chips, deadlines pass.  FPL keeps purchase prices and the     *)
(* free-transfer count private and publishes a record: the transfers, the  *)
(* count of each gameweek, the chips.  For a plan the app derives the      *)
(* private facts from that record (squad/entry-state.ts); what it imports  *)
(* beside it is in SquadImport.                                            *)
(* Gameweeks are counted from the manager's first.                         *)
(***************************************************************************)
EXTENDS Integers, Sequences, FiniteSets

CONSTANTS
    Player,        \* elements of the game
    Initial,       \* the squad of the first gameweek
    MaxPrice,      \* BOUND: highest price, in tenths
    Cap,           \* rules.freeTransferCap()
    LastGameweek,  \* BOUND: gameweeks
    MaxMoves       \* BOUND: transfers in a gameweek

Gameweek == 1..LastGameweek
Price    == 1..MaxPrice
NoPrice  == 0
Chip     == {"none", "wildcard", "freehit"}

ASSUME ManagerAssumption ==
    /\ Initial \subseteq Player
    /\ IsFiniteSet(Player)
    /\ MaxPrice \in Nat \ {0}
    /\ Cap \in Nat \ {0}
    /\ LastGameweek \in Nat \ {0}
    /\ MaxMoves \in Nat

VARIABLES
    gameweek,  \* the one whose deadline is ahead
    market,    \* player -> price today
    squad,     \* the players held
    paid,      \* player -> what the manager paid, NoPrice when not held
    free,      \* free transfers left
    moves,     \* transfers made for this gameweek
    chip,      \* chip played in this gameweek
    kept,      \* squad and prices a free hit gives back
    log,       \* entry/{id}/transfers/, newest first
    rounds,    \* entry/{id}/history/ current[].event_transfers
    chips,     \* the chip of each gameweek played, from history.chips
    start      \* player_gameweek_stats.value of the first gameweek, NoPrice
               \* for a player without a row there

season == <<gameweek, market, squad, paid, free, moves, chip, kept>>
record == <<log, rounds, chips, start>>
vars   == <<season, record>>

Bought == [event : Gameweek, in : Player, cost : Price]

TypeOK ==
    /\ gameweek \in Gameweek
    /\ market \in [Player -> Price]
    /\ squad \subseteq Player
    /\ paid \in [Player -> Price \cup {NoPrice}]
    /\ free \in 0..Cap
    /\ moves \in 0..MaxMoves
    /\ chip \in Chip
    /\ kept \in [squad : SUBSET Player, paid : [Player -> Price \cup {NoPrice}]]
    /\ log \in Seq(Bought)
    /\ rounds \in [1..(gameweek - 1) -> 0..MaxMoves]
    /\ chips \in [1..(gameweek - 1) -> Chip]
    /\ start \in [Player -> Price \cup {NoPrice}]

Init ==
    /\ gameweek = 1
    /\ market \in [Player -> Price]
    /\ \E missing \in SUBSET Player :
          start = [p \in Player |-> IF p \in missing THEN NoPrice ELSE market[p]]
    /\ squad = Initial
    /\ paid = [p \in Player |-> IF p \in Initial THEN market[p] ELSE NoPrice]
    /\ free = 0
    /\ moves = 0
    /\ chip = "none"
    /\ kept = [squad |-> squad, paid |-> paid]
    /\ log = <<>>
    /\ rounds = <<>>
    /\ chips = <<>>

-----------------------------------------------------------------------------
(* The season, as FPL runs it.                                             *)

MovePrice(p, v) ==
    /\ gameweek > 1
    /\ v \in {market[p] - 1, market[p] + 1} \cap Price
    /\ market' = [market EXCEPT ![p] = v]
    /\ UNCHANGED <<gameweek, squad, paid, free, moves, chip, kept, record>>

(* The first gameweek's squad is chosen, not transferred.  A transfer on a *)
(* chip does not touch the bank of free ones.                              *)
Transfer(out, in) ==
    /\ gameweek > 1
    /\ moves < MaxMoves
    /\ out \in squad
    /\ in \notin squad
    /\ squad' = (squad \ {out}) \cup {in}
    /\ paid' = [paid EXCEPT ![out] = NoPrice, ![in] = market[in]]
    /\ moves' = moves + 1
    /\ free' = IF chip = "none" /\ free > 0 THEN free - 1 ELSE free
    /\ log' = <<[event |-> gameweek, in |-> in, cost |-> market[in]]>> \o log
    /\ UNCHANGED <<gameweek, market, chip, kept, rounds, chips, start>>

PlayChip(c) ==
    /\ gameweek > 1
    /\ chip = "none"
    /\ moves = 0
    /\ c # "none"
    /\ chip' = c
    /\ kept' = [squad |-> squad, paid |-> paid]
    /\ UNCHANGED <<gameweek, market, squad, paid, free, moves, record>>

(* A gameweek's picks lock; the next one's free transfer is granted; a     *)
(* free hit gives back the squad it found.                                 *)
PassDeadline ==
    LET back == chip = "freehit"
    IN  /\ gameweek < LastGameweek
        /\ gameweek' = gameweek + 1
        /\ rounds' = Append(rounds, moves)
        /\ chips' = Append(chips, chip)
        /\ free' = IF free < Cap THEN free + 1 ELSE free
        /\ moves' = 0
        /\ chip' = "none"
        /\ squad' = IF back THEN kept.squad ELSE squad
        /\ paid' = IF back THEN kept.paid ELSE paid
        /\ kept' = [squad |-> squad', paid |-> paid']
        /\ UNCHANGED <<market, log, start>>

-----------------------------------------------------------------------------
(* entry-state.ts.                                                         *)

(* MUTANT of BoughtAt: the oldest purchase instead of the newest.          *)
BoughtFirst(p) ==
    {i \in DOMAIN log : log[i].in = p /\ \A k \in DOMAIN log : log[k].in = p => k <= i}

(* The transfer that bought the current spell: the first of the player's   *)
(* in the log sorted by gameweek, newest first, ties in the order given.   *)
BoughtAt(p) ==
    {i \in DOMAIN log :
        /\ log[i].in = p
        /\ \A k \in DOMAIN log : log[k].in = p =>
              log[k].event < log[i].event \/ (log[k].event = log[i].event /\ i <= k)}

(* reconstructPurchasePrices, for one owned player                         *)
PurchasePrice(p) ==
    IF BoughtAt(p) # {} THEN log[CHOOSE i \in BoughtAt(p) : TRUE].cost
    ELSE start[p]

(* MUTANT of SellValueOf: the half rounded up.                             *)
SellRoundedUp(purchase, price) ==
    IF purchase = NoPrice THEN NoPrice
    ELSE IF price <= purchase THEN price
    ELSE purchase + (price - purchase + 1) \div 2

SellValueOf(purchase, price) ==
    IF purchase = NoPrice THEN NoPrice
    ELSE IF price <= purchase THEN price
    ELSE purchase + (price - purchase) \div 2

(* MUTANT of Replay: seeded at one free transfer (issue #96 of the code).  *)
ReplayFromOne(played, uses) ==
    LET f[n \in 0..Len(played)] ==
            IF n = 0 THEN 1
            ELSE LET left == IF uses[n] = "none" THEN f[n - 1] - played[n] ELSE f[n - 1]
                     held == IF left < 0 THEN 0 ELSE left
                 IN  IF held + 1 > Cap THEN Cap ELSE held + 1
    IN  f[Len(played)]

(* reconstructEntryState: free transfers for the next deadline             *)
Replay(played, uses) ==
    LET f[n \in 0..Len(played)] ==
            IF n = 0 THEN 0
            ELSE LET left == IF uses[n] = "none" THEN f[n - 1] - played[n] ELSE f[n - 1]
                     held == IF left < 0 THEN 0 ELSE left
                 IN  IF held + 1 > Cap THEN Cap ELSE held + 1
    IN  IF Len(played) = 0 THEN 1 ELSE f[Len(played)]

Next ==
    \/ \E p \in Player, v \in Price : MovePrice(p, v)
    \/ \E out, in \in Player : Transfer(out, in)
    \/ \E c \in Chip : PlayChip(c)
    \/ PassDeadline

Spec == Init /\ [][Next]_vars
-----------------------------------------------------------------------------
(* Properties.  The record shows nothing of a gameweek whose deadline is   *)
(* ahead, so a plan describes the manager as the gameweek opened.          *)

Opening == gameweek > 1 /\ moves = 0 /\ chip = "none"

(* "The invariant this has to keep" (entry-state.ts:139), for every        *)
(* history and not only the idle one: the replay of the public record is   *)
(* the count FPL holds.                                                    *)
FreeTransfersExact == Opening => Replay(rounds, chips) = free

(* "A null is loud where a wrong number is quiet" (entry-state.ts:15): a   *)
(* reconstructed price is what was paid or says it is unknown, over every  *)
(* order of buying, selling and buying back (except a player bought back   *)
(* during a free hit, whose purchase FPL takes back).                      *)
PricesNeverWrong ==
    Opening => \A p \in squad :
        (\A i \in DOMAIN log : log[i].in = p => chips[log[i].event] # "freehit")
            => PurchasePrice(p) \in {paid[p], NoPrice}

(* Half of the rise and no more (entry-state.ts:90): selling and buying    *)
(* back at today's price never leaves money that was not there, and the    *)
(* two halves together lose at most the tenth that is rounded away.        *)
SellKeepsHalf ==
    Opening => \A p \in squad :
        LET sell == SellValueOf(paid[p], market[p])
        IN  /\ sell <= market[p]
            /\ market[p] > paid[p] =>
                  (market[p] - sell) - (sell - paid[p]) \in {0, 1}

(* "in any order — this function sorts" (entry-state.ts:56): whichever way *)
(* the log is listed, the purchase found for a player costs the same, that *)
(* is, no two of his purchases that tie in the sort differ.  False: a      *)
(* player bought twice for one gameweek, at two prices.                    *)
AnyOrderWillDo ==
    \A p \in squad : \A i \in BoughtAt(p), k \in DOMAIN log :
        (log[k].in = p /\ log[k].event = log[i].event) => log[k].cost = log[i].cost
=============================================================================
