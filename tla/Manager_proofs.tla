---------------------------- MODULE Manager_proofs ----------------------------
(***************************************************************************)
(* What the backend holds of a manager: the imports of his squad, for any  *)
(* number of requests and gameweeks (SquadImport), and what entry-state.ts *)
(* derives of him, for any season and any record of it (ManagerSeason).    *)
(***************************************************************************)
EXTENDS SquadImport, ManagerSeason, SequenceTheorems, Counting

-----------------------------------------------------------------------------
(* ManagerSeason: what is derived from the record.                         *)

(* sellValueOf for every pair of prices (entry-state.ts:101): half of a    *)
(* rise, the odd tenth lost, and a fall eaten whole.                       *)
THEOREM SellsAtHalfTheRise ==
  ASSUME NEW purchase \in Nat \ {0}, NEW price \in Nat
  PROVE  LET sell == SellValueOf(purchase, price)
         IN  /\ sell <= price
             /\ price <= purchase => sell = price
             /\ price > purchase =>
                   sell >= purchase /\ (price - sell) - (sell - purchase) \in {0, 1}
<1>. DEFINE rise == price - purchase
            half == rise \div 2
<1>1. CASE price <= purchase
  BY <1>1 DEF SellValueOf, NoPrice
<1>2. CASE price > purchase
  <2>1. rise \in Nat /\ half \in Nat /\ rise - 2 * half \in {0, 1}
    BY <1>2
  <2>2. SellValueOf(purchase, price) = purchase + half
    BY <1>2 DEF SellValueOf, NoPrice
  <2>3. price = purchase + rise
    OBVIOUS
  <2>. HIDE DEF rise, half
  <2>. QED  BY <1>2, <2>1, <2>2, <2>3
<1>. QED  BY <1>1, <1>2

-----------------------------------------------------------------------------
(* A player held has a purchase price, and so has one a free hit gives     *)
(* back.                                                                   *)
Held(s, cost) == s \subseteq Player /\ \A p \in s : cost[p] \in Price
HeldInv ==
  /\ market \in [Player -> Price]
  /\ paid \in [Player -> Price \cup {NoPrice}]
  /\ kept.paid \in [Player -> Price \cup {NoPrice}]
  /\ Held(squad, paid)
  /\ Held(kept.squad, kept.paid)

LEMMA InitHeld == Init => HeldInv
<1> SUFFICES ASSUME Init PROVE HeldInv
  OBVIOUS
<1>1. /\ market \in [Player -> Price] /\ squad = Initial /\ Initial \subseteq Player
      /\ paid = [p \in Player |-> IF p \in Initial THEN market[p] ELSE NoPrice]
      /\ kept = [squad |-> squad, paid |-> paid]
  BY ManagerAssumption DEF Init
<1>. QED  BY <1>1 DEF HeldInv, Held

LEMMA NextHeld == HeldInv /\ [Next]_vars => HeldInv'
<1> SUFFICES ASSUME HeldInv, [Next]_vars PROVE HeldInv'
  OBVIOUS
<1>. USE DEF HeldInv, Held
<1>1. ASSUME NEW p \in Player, NEW v \in Price, MovePrice(p, v) PROVE HeldInv'
  BY <1>1 DEF MovePrice
<1>2. ASSUME NEW out \in Player, NEW in \in Player, Transfer(out, in) PROVE HeldInv'
  <2>1. /\ squad' = (squad \ {out}) \cup {in} /\ out \in squad /\ in \notin squad
        /\ paid' = [paid EXCEPT ![out] = NoPrice, ![in] = market[in]]
        /\ UNCHANGED <<market, kept>>
    BY <1>2 DEF Transfer
  <2>2. \A p \in squad' : paid'[p] = IF p = in THEN market[in] ELSE paid[p]
    BY <2>1
  <2>. QED  BY <2>1, <2>2
<1>3. ASSUME NEW c \in Chip, PlayChip(c) PROVE HeldInv'
  BY <1>3 DEF PlayChip
<1>4. CASE PassDeadline
  <2>1. /\ UNCHANGED market
        /\ kept' = [squad |-> squad', paid |-> paid']
        /\ \/ squad' = squad /\ paid' = paid
           \/ squad' = kept.squad /\ paid' = kept.paid
    BY <1>4 DEF PassDeadline
  <2>. QED  BY <2>1
<1>5. CASE UNCHANGED vars
  BY <1>5 DEF vars, season
<1>. QED  BY <1>1, <1>2, <1>3, <1>4, <1>5 DEF Next

(* In every season, whatever is bought, sold, bought back or undone by a   *)
(* free hit, each player held sells at half the rise since it was bought   *)
(* (sellValueOf, entry-state.ts:101).                                      *)
THEOREM SellKeepsHalfAlways == Spec => []SellKeepsHalf
<1>1. HeldInv => SellKeepsHalf
  <2>1. ASSUME HeldInv, NEW p \in squad
        PROVE  /\ market[p] \in Nat \ {0} /\ paid[p] \in Nat \ {0}
    BY <2>1, ManagerAssumption DEF HeldInv, Held, Price
  <2>. QED  BY <2>1, SellsAtHalfTheRise DEF SellKeepsHalf
<1>. QED  BY <1>1, InitHeld, NextHeld, PTL DEF Spec

-----------------------------------------------------------------------------
(* Types.  A sequence that grows with the gameweeks is as long as they are *)
(* many.                                                                   *)
LEMMA OneLonger ==
  ASSUME NEW S, NEW n \in Nat, NEW s \in [1..n -> S], NEW e \in S
  PROVE  /\ Append(s, e) \in [1..(n + 1) -> S]
         /\ \A k \in 1..n : Append(s, e)[k] = s[k]
         /\ Append(s, e)[n + 1] = e
<1>1. s \in Seq(S) /\ Len(s) = n
  OBVIOUS
<1>2. /\ Append(s, e) \in Seq(S)
      /\ Len(Append(s, e)) = n + 1
      /\ \A k \in 1..n : Append(s, e)[k] = s[k]
      /\ Append(s, e)[n + 1] = e
  BY <1>1, AppendProperties
<1>3. \A q \in Seq(S) : q \in [1..Len(q) -> S]
  BY LenProperties
<1>4. Append(s, e) \in [1..(n + 1) -> S]
  <2>. DEFINE q == Append(s, e)
  <2>1. q \in Seq(S) /\ Len(q) = n + 1
    BY <1>2
  <2>. HIDE DEF q
  <2>2. q \in [1..(n + 1) -> S]
    BY <1>3, <2>1, Zenon
  <2>. QED  BY <2>2 DEF q
<1>. QED  BY <1>2, <1>4

LEMMA InitTyped == Init => TypeOK
<1> SUFFICES ASSUME Init PROVE TypeOK
  OBVIOUS
<1>. USE ManagerAssumption
<1>1. /\ gameweek \in Gameweek /\ market \in [Player -> Price] /\ squad \subseteq Player
      /\ free \in 0..Cap /\ moves \in 0..MaxMoves /\ chip \in Chip
  BY DEF Init, Gameweek, Chip
<1>2. /\ paid \in [Player -> Price \cup {NoPrice}]
      /\ start \in [Player -> Price \cup {NoPrice}]
  BY <1>1 DEF Init
<1>3. kept = [squad |-> squad, paid |-> paid] /\ log = <<>> /\ rounds = <<>> /\ chips = <<>>
      /\ gameweek = 1
  BY DEF Init
<1>4. log \in Seq(Bought) /\ rounds \in [1..0 -> 0..MaxMoves] /\ chips \in [1..0 -> Chip]
  BY <1>3
<1>. QED  BY <1>1, <1>2, <1>3, <1>4 DEF TypeOK

LEMMA NextTyped == TypeOK /\ [Next]_vars => TypeOK'
<1> SUFFICES ASSUME TypeOK, [Next]_vars PROVE TypeOK'
  OBVIOUS
<1>. USE ManagerAssumption DEF TypeOK
<1>1. ASSUME NEW p \in Player, NEW v \in Price, MovePrice(p, v) PROVE TypeOK'
  BY <1>1 DEF MovePrice, record
<1>2. ASSUME NEW out \in Player, NEW in \in Player, Transfer(out, in) PROVE TypeOK'
  <2>1. [event |-> gameweek, in |-> in, cost |-> market[in]] \in Bought
    BY DEF Bought
  <2>2. log' \in Seq(Bought)
    BY <1>2, <2>1 DEF Transfer
  <2>3. moves' \in 0..MaxMoves /\ free' \in 0..Cap
    BY <1>2 DEF Transfer
  <2>4. squad' \subseteq Player /\ paid' \in [Player -> Price \cup {NoPrice}]
    BY <1>2 DEF Transfer
  <2>. QED  BY <1>2, <2>2, <2>3, <2>4 DEF Transfer
<1>3. ASSUME NEW c \in Chip, PlayChip(c) PROVE TypeOK'
  BY <1>3 DEF PlayChip, record
<1>4. CASE PassDeadline
  <2>1. gameweek' \in Gameweek /\ gameweek' - 1 = (gameweek - 1) + 1 /\ gameweek - 1 \in Nat
    BY <1>4 DEF PassDeadline, Gameweek
  <2>2. rounds' \in [1..(gameweek' - 1) -> 0..MaxMoves]
    BY <1>4, <2>1, OneLonger DEF PassDeadline
  <2>3. chips' \in [1..(gameweek' - 1) -> Chip]
    BY <1>4, <2>1, OneLonger DEF PassDeadline
  <2>4. squad' \subseteq Player /\ paid' \in [Player -> Price \cup {NoPrice}]
        /\ kept' = [squad |-> squad', paid |-> paid']
    BY <1>4 DEF PassDeadline
  <2>5. free' \in 0..Cap /\ moves' \in 0..MaxMoves /\ chip' \in Chip
        /\ UNCHANGED <<market, log, start>>
    BY <1>4 DEF PassDeadline, Chip
  <2>. QED  BY <2>1, <2>2, <2>3, <2>4, <2>5
<1>5. CASE UNCHANGED vars
  BY <1>5 DEF vars, season, record
<1>. QED  BY <1>1, <1>2, <1>3, <1>4, <1>5 DEF Next

(* Type correctness of the season and of the record FPL publishes of it    *)
(* (entry-state.ts reads nothing else).                                    *)
THEOREM SeasonTyped == Spec => []TypeOK
  BY InitTyped, NextTyped, PTL DEF Spec

-----------------------------------------------------------------------------
(* What is paid for a player held is in the log, or in what he cost at the *)
(* start, unless he was bought during a free hit: the present one too,     *)
(* which the record does not show yet.                                     *)
UseOf(g) == IF g < gameweek THEN chips[g] ELSE chip
Tainted(p) == \E i \in DOMAIN log : log[i].in = p /\ UseOf(log[i].event) = "freehit"
Newest(p, i) ==
  /\ i \in DOMAIN log
  /\ log[i].in = p
  /\ \A k \in DOMAIN log : log[k].in = p => i <= k
Bargain(p) == \E i \in DOMAIN log : log[i].in = p
Known(s, cost) ==
  \A p \in s : ~Tainted(p) =>
      /\ \A i \in DOMAIN log : Newest(p, i) => log[i].cost = cost[p]
      /\ ~Bargain(p) => start[p] \in {cost[p], NoPrice}

LogInv ==
  /\ \A i \in DOMAIN log : log[i].event <= gameweek
  /\ moves = 0 => \A i \in DOMAIN log : log[i].event < gameweek
  /\ \A i, k \in DOMAIN log : i <= k => log[k].event <= log[i].event
  /\ \A p \in Player : Bargain(p) => \E i \in DOMAIN log : Newest(p, i)

PriceInv ==
  /\ TypeOK
  /\ LogInv
  /\ Known(squad, paid)
  /\ chip = "freehit" => Known(kept.squad, kept.paid)

LEMMA Logged ==
  ASSUME TypeOK, NEW i \in DOMAIN log
  PROVE  i \in Nat \ {0} /\ log[i] \in Bought /\ log[i].event \in Nat \ {0}
<1>1. log \in Seq(Bought)
  BY DEF TypeOK
<1>2. i \in 1..Len(log) /\ Len(log) \in Nat /\ log[i] \in Bought
  BY <1>1
<1>3. log[i].event \in Gameweek
  BY <1>2 DEF Bought
<1>. QED  BY <1>2, <1>3, ManagerAssumption DEF Gameweek

(* The log with a transfer in front of it.                                 *)
LEMMA OneInFront ==
  ASSUME TypeOK, NEW e \in Bought, log' = <<e>> \o log
  PROVE  /\ 1 \in DOMAIN log' /\ log'[1] = e
         /\ \A i \in DOMAIN log : i + 1 \in DOMAIN log' /\ log'[i + 1] = log[i]
         /\ \A j \in DOMAIN log' : j \in Nat /\ (j = 1 \/ (j - 1 \in DOMAIN log /\ log'[j] = log[j - 1]))
         /\ \A i \in DOMAIN log : i \in Nat \ {0} /\ log[i] \in Bought
<1>1. log \in Seq(Bought) /\ <<e>> \in Seq(Bought) /\ Len(<<e>>) = 1 /\ <<e>>[1] = e
  BY DEF TypeOK
<1>2. /\ log' \in Seq(Bought) /\ Len(log') = 1 + Len(log)
      /\ \A i \in 1..(1 + Len(log)) : log'[i] = IF i <= 1 THEN <<e>>[i] ELSE log[i - 1]
  BY <1>1, ConcatProperties
<1>3. DOMAIN log = 1..Len(log) /\ DOMAIN log' = 1..(1 + Len(log)) /\ Len(log) \in Nat
  BY <1>1, <1>2
<1>4. \A i \in DOMAIN log : log[i] \in Bought
  BY <1>1, <1>3
<1>. QED  BY <1>1, <1>2, <1>3, <1>4

(* A step that writes no log and keeps the use of the gameweeks logged.    *)
LEMMA SameRecord ==
  ASSUME UNCHANGED <<log, start>>,
         \A i \in DOMAIN log : UseOf(log[i].event)' = UseOf(log[i].event)
  PROVE  \A p : /\ Tainted(p)' <=> Tainted(p)
                /\ \A i : Newest(p, i)' <=> Newest(p, i)
                /\ Bargain(p)' <=> Bargain(p)
  BY DEF Tainted, Newest, Bargain

LEMMA InitPriced == Init => PriceInv
<1> SUFFICES ASSUME Init PROVE PriceInv
  OBVIOUS
<1>1. log = <<>> /\ DOMAIN log = {} /\ chip = "none" /\ squad = Initial
  BY DEF Init
<1>2. LogInv
  BY <1>1 DEF LogInv, Bargain
<1>3. Known(squad, paid)
  BY <1>1, ManagerAssumption DEF Known, Init
<1>. QED  BY <1>1, <1>2, <1>3, InitTyped DEF PriceInv

(* A transfer taints who is bought during a free hit, and knows what is    *)
(* paid for him otherwise.                                                 *)
LEMMA TransferPriced ==
  ASSUME PriceInv, NEW out \in Player, NEW in \in Player, Transfer(out, in)
  PROVE  LogInv' /\ Known(squad, paid)' /\ (chip' = "freehit" => Known(kept.squad, kept.paid)')
<1>. DEFINE e == [event |-> gameweek, in |-> in, cost |-> market[in]]
<1>1. /\ e \in Bought /\ e.event = gameweek /\ e.in = in /\ e.cost = market[in]
      /\ gameweek \in Nat /\ TypeOK
  BY DEF PriceInv, TypeOK, Bought, Gameweek
<1>2. /\ log' = <<e>> \o log
      /\ UNCHANGED <<gameweek, market, chip, kept, chips, start>>
      /\ out \in squad /\ in \notin squad /\ squad' = (squad \ {out}) \cup {in}
      /\ paid' = [paid EXCEPT ![out] = NoPrice, ![in] = market[in]]
      /\ moves' = moves + 1 /\ moves \in Nat
  BY ManagerAssumption DEF Transfer, PriceInv, TypeOK
<1>. HIDE DEF e
<1>3. /\ 1 \in DOMAIN log' /\ log'[1] = e
      /\ \A i \in DOMAIN log : i + 1 \in DOMAIN log' /\ log'[i + 1] = log[i]
      /\ \A j \in DOMAIN log' : j \in Nat /\ (j = 1 \/ (j - 1 \in DOMAIN log /\ log'[j] = log[j - 1]))
      /\ \A i \in DOMAIN log : i \in Nat \ {0} /\ log[i] \in Bought
  BY <1>1, <1>2, OneInFront
<1>4. \A g : UseOf(g)' = UseOf(g)
  BY <1>2 DEF UseOf
<1>5. UseOf(gameweek) = chip
  BY <1>1 DEF UseOf
<1>6. ASSUME NEW p, p # in
      PROVE  /\ Tainted(p) => Tainted(p)'
             /\ \A j : Newest(p, j)' => Newest(p, j - 1) /\ log'[j] = log[j - 1]
             /\ Bargain(p) => Bargain(p)'
  <2>1. Tainted(p) => Tainted(p)'
    BY <1>3, <1>4 DEF Tainted
  <2>2. ASSUME NEW j, Newest(p, j)' PROVE Newest(p, j - 1) /\ log'[j] = log[j - 1]
    <3>1. j \in DOMAIN log' /\ log'[j].in = p
      BY <2>2 DEF Newest
    <3>2. j - 1 \in DOMAIN log /\ log'[j] = log[j - 1]
      BY <1>1, <1>3, <1>6, <3>1
    <3>3. ASSUME NEW k \in DOMAIN log, log[k].in = p PROVE j - 1 <= k
      <4>1. k + 1 \in DOMAIN log' /\ log'[k + 1].in = p
        BY <1>3, <3>3
      <4>2. j <= k + 1
        BY <2>2, <4>1 DEF Newest
      <4>. QED  BY <4>2, <3>1, <1>3
    <3>. QED  BY <3>1, <3>2, <3>3 DEF Newest
  <2>3. Bargain(p) => Bargain(p)'
    BY <1>3 DEF Bargain
  <2>. QED  BY <2>1, <2>2, <2>3
<1>7. /\ Bargain(in)' /\ Newest(in, 1)'
      /\ \A j \in DOMAIN log' : Newest(in, j)' => j = 1
      /\ chip = "freehit" => Tainted(in)'
  <2>1. Bargain(in)' /\ (chip = "freehit" => Tainted(in)')
    BY <1>1, <1>3, <1>4, <1>5 DEF Bargain, Tainted
  <2>2. \A k \in DOMAIN log' : 1 <= k
    BY <1>3
  <2>3. Newest(in, 1)'
    BY <1>1, <1>3, <2>2 DEF Newest
  <2>4. \A j \in DOMAIN log' : Newest(in, j)' => j <= 1
    BY <1>1, <1>3 DEF Newest
  <2>. QED  BY <1>3, <2>1, <2>2, <2>3, <2>4
<1>8. LogInv'
  <2>1. \A j \in DOMAIN log' : log'[j].event <= gameweek'
    BY <1>1, <1>2, <1>3 DEF PriceInv, LogInv
  <2>2. moves' # 0
    BY <1>2
  <2>3. ASSUME NEW j \in DOMAIN log', NEW k \in DOMAIN log', j <= k
        PROVE  log'[k].event <= log'[j].event
    <3>1. CASE j = 1
      BY <2>1, <3>1, <1>1, <1>2, <1>3
    <3>2. CASE j # 1
      <4>1. /\ j - 1 \in DOMAIN log /\ log'[j] = log[j - 1]
            /\ k - 1 \in DOMAIN log /\ log'[k] = log[k - 1]
            /\ j - 1 <= k - 1
        BY <1>3, <2>3, <3>2
      <4>. QED  BY <4>1 DEF PriceInv, LogInv
    <3>. QED  BY <3>1, <3>2
  <2>4. ASSUME NEW p \in Player, Bargain(p)' PROVE \E j \in DOMAIN log' : Newest(p, j)'
    <3>1. CASE p = in
      BY <1>3, <1>7, <3>1
    <3>2. CASE p # in
      <4>1. PICK j \in DOMAIN log' : log'[j].in = p
        BY <2>4 DEF Bargain
      <4>2. j - 1 \in DOMAIN log /\ log[j - 1].in = p
        BY <1>1, <1>3, <3>2, <4>1
      <4>3. PICK i \in DOMAIN log : Newest(p, i)
        BY <4>2 DEF PriceInv, LogInv, Bargain
      <4>4. i + 1 \in DOMAIN log' /\ log'[i + 1].in = p
        BY <1>3, <4>3 DEF Newest
      <4>5. ASSUME NEW k \in DOMAIN log', log'[k].in = p PROVE i + 1 <= k
        <5>1. k - 1 \in DOMAIN log /\ log[k - 1].in = p
          BY <1>1, <1>3, <3>2, <4>5
        <5>2. i <= k - 1
          BY <4>3, <5>1 DEF Newest
        <5>. QED  BY <1>3, <5>2, <4>3
      <4>. QED  BY <4>4, <4>5 DEF Newest
    <3>. QED  BY <3>1, <3>2
  <2>. QED  BY <2>1, <2>2, <2>3, <2>4 DEF LogInv
<1>9. ASSUME NEW s, NEW cost, Known(s, cost), NEW p \in s, p # in, ~Tainted(p)'
      PROVE  /\ \A j \in DOMAIN log' : Newest(p, j)' => log'[j].cost = cost[p]
             /\ ~Bargain(p)' => start'[p] \in {cost[p], NoPrice}
  <2>1. ~Tainted(p)
    BY <1>6, <1>9
  <2>2. ASSUME NEW j \in DOMAIN log', Newest(p, j)' PROVE log'[j].cost = cost[p]
    <3>1. Newest(p, j - 1) /\ log'[j] = log[j - 1]
      BY <1>6, <1>9, <2>2
    <3>. QED  BY <1>9, <2>1, <3>1 DEF Known, Newest
  <2>3. ~Bargain(p)' => start'[p] \in {cost[p], NoPrice}
    BY <1>2, <1>6, <1>9, <2>1 DEF Known
  <2>. QED  BY <2>2, <2>3
<1>10. Known(squad, paid)'
  <2>1. ASSUME NEW p \in squad', ~Tainted(p)'
        PROVE  /\ \A j \in DOMAIN log' : Newest(p, j)' => log'[j].cost = paid'[p]
               /\ ~Bargain(p)' => start'[p] \in {paid'[p], NoPrice}
    <3>1. CASE p = in
      <4>1. paid'[in] = market[in]
        BY <1>1, <1>2 DEF TypeOK
      <4>. QED  BY <1>1, <1>3, <1>7, <3>1, <4>1
    <3>2. CASE p # in
      <4>1. p \in squad /\ paid'[p] = paid[p]
        BY <1>1, <1>2, <2>1, <3>2 DEF TypeOK
      <4>2. Known(squad, paid)
        BY DEF PriceInv
      <4>. QED  BY <1>9, <2>1, <3>2, <4>1, <4>2
    <3>. QED  BY <3>1, <3>2
  <2>. QED  BY <2>1 DEF Known
<1>11. chip' = "freehit" => Known(kept.squad, kept.paid)'
  <2>1. SUFFICES ASSUME chip = "freehit", NEW p \in kept.squad, ~Tainted(p)'
                 PROVE  /\ \A j \in DOMAIN log' : Newest(p, j)' => log'[j].cost = kept.paid[p]
                        /\ ~Bargain(p)' => start'[p] \in {kept.paid[p], NoPrice}
    BY <1>2 DEF Known
  <2>2. p # in /\ Known(kept.squad, kept.paid)
    BY <1>7, <2>1 DEF PriceInv
  <2>. QED  BY <1>9, <2>1, <2>2
<1>. QED  BY <1>8, <1>10, <1>11

LEMMA NextPriced == PriceInv /\ [Next]_vars => PriceInv'
<1> SUFFICES ASSUME PriceInv, [Next]_vars PROVE PriceInv'
  OBVIOUS
<1>1. TypeOK /\ TypeOK' /\ gameweek \in Nat
  BY NextTyped DEF PriceInv, TypeOK, Gameweek
<1>2. ASSUME UNCHANGED <<log, start, gameweek, moves, chips, chip, squad, paid, kept>> PROVE PriceInv'
  <2>1. \A i \in DOMAIN log : UseOf(log[i].event)' = UseOf(log[i].event)
    BY <1>2 DEF UseOf
  <2>2. \A p : /\ Tainted(p)' <=> Tainted(p)
               /\ \A i : Newest(p, i)' <=> Newest(p, i)
               /\ Bargain(p)' <=> Bargain(p)
    BY <1>2, <2>1, SameRecord
  <2>3. LogInv'
    BY <1>2, <2>2 DEF PriceInv, LogInv
  <2>4. Known(squad, paid)' /\ (chip' = "freehit" => Known(kept.squad, kept.paid)')
    BY <1>2, <2>2 DEF PriceInv, Known
  <2>. QED  BY <1>1, <2>3, <2>4 DEF PriceInv
<1>3. ASSUME NEW p \in Player, NEW v \in Price, MovePrice(p, v) PROVE PriceInv'
  BY <1>2, <1>3 DEF MovePrice, record
<1>4. ASSUME NEW out \in Player, NEW in \in Player, Transfer(out, in) PROVE PriceInv'
  BY <1>1, <1>4, TransferPriced DEF PriceInv
<1>5. ASSUME NEW c \in Chip, PlayChip(c) PROVE PriceInv'
  <2>1. /\ UNCHANGED <<log, start, gameweek, moves, chips, squad, paid>>
        /\ moves = 0 /\ kept' = [squad |-> squad, paid |-> paid]
    BY <1>5 DEF PlayChip, record
  <2>2. \A i \in DOMAIN log : UseOf(log[i].event)' = UseOf(log[i].event)
    BY <2>1 DEF UseOf, PriceInv, LogInv
  <2>3. \A p : /\ Tainted(p)' <=> Tainted(p)
               /\ \A i : Newest(p, i)' <=> Newest(p, i)
               /\ Bargain(p)' <=> Bargain(p)
    BY <2>1, <2>2, SameRecord
  <2>4. LogInv'
    BY <2>1, <2>3 DEF PriceInv, LogInv
  <2>5. Known(squad, paid)' /\ Known(kept.squad, kept.paid)'
    BY <2>1, <2>3 DEF PriceInv, Known
  <2>. QED  BY <1>1, <2>4, <2>5 DEF PriceInv
<1>6. CASE PassDeadline
  <2>1. /\ UNCHANGED <<log, start>> /\ gameweek' = gameweek + 1 /\ chip' = "none"
        /\ chips' = Append(chips, chip)
        /\ \/ chip # "freehit" /\ squad' = squad /\ paid' = paid
           \/ chip = "freehit" /\ squad' = kept.squad /\ paid' = kept.paid
    BY <1>6 DEF PassDeadline
  <2>2. /\ \A g \in 1..(gameweek - 1) : chips'[g] = chips[g]
        /\ chips'[gameweek] = chip
    <3>1. /\ gameweek - 1 \in Nat /\ chips \in [1..(gameweek - 1) -> Chip] /\ chip \in Chip
          /\ (gameweek - 1) + 1 = gameweek
      BY <1>1 DEF TypeOK, Gameweek
    <3>. QED  BY <2>1, <3>1, OneLonger
  <2>3. \A i \in DOMAIN log : log[i].event \in Nat \ {0} /\ log[i].event <= gameweek
    BY <1>1, Logged DEF PriceInv, LogInv
  <2>4. \A i \in DOMAIN log : UseOf(log[i].event)' = UseOf(log[i].event)
    <3>1. ASSUME NEW g \in Nat \ {0}, g <= gameweek PROVE UseOf(g)' = UseOf(g)
      <4>1. g < gameweek'
        BY <1>1, <2>1, <3>1
      <4>2. CASE g < gameweek
        <5>1. g \in 1..(gameweek - 1)
          BY <1>1, <4>2
        <5>. QED  BY <2>2, <4>1, <4>2, <5>1 DEF UseOf
      <4>3. CASE g = gameweek
        BY <1>1, <2>2, <4>1, <4>3 DEF UseOf
      <4>. QED  BY <1>1, <3>1, <4>2, <4>3
    <3>2. \A i \in DOMAIN log : log'[i].event = log[i].event
      BY <2>1
    <3>. QED  BY <2>1, <2>3, <3>1, <3>2
  <2>5. \A p : /\ Tainted(p)' <=> Tainted(p)
               /\ \A i : Newest(p, i)' <=> Newest(p, i)
               /\ Bargain(p)' <=> Bargain(p)
    BY <2>1, <2>4, SameRecord
  <2>6. LogInv'
    <3>1. \A i \in DOMAIN log' : log'[i].event < gameweek' /\ log'[i].event <= gameweek'
      BY <1>1, <2>1, <2>3
    <3>. QED  BY <2>1, <2>5, <3>1 DEF PriceInv, LogInv
  <2>7. Known(squad, paid)'
    BY <2>1, <2>5 DEF PriceInv, Known
  <2>. QED  BY <1>1, <2>1, <2>6, <2>7 DEF PriceInv
<1>7. CASE UNCHANGED vars
  BY <1>2, <1>7 DEF vars, season, record
<1>. QED  BY <1>3, <1>4, <1>5, <1>6, <1>7 DEF Next

(* The purchase reconstructPurchasePrices takes is the newest of the log.  *)
LEMMA BoughtIsNewest ==
  ASSUME PriceInv, NEW p \in Player
  PROVE  /\ \A i \in BoughtAt(p) : Newest(p, i)
         /\ Bargain(p) => BoughtAt(p) # {}
<1>1. \A i \in DOMAIN log : i \in Nat /\ log[i].event \in Nat
  BY Logged DEF PriceInv
<1>2. ASSUME NEW i \in BoughtAt(p) PROVE Newest(p, i)
  <2>1. /\ i \in DOMAIN log /\ log[i].in = p
        /\ \A k \in DOMAIN log : log[k].in = p =>
              log[k].event < log[i].event \/ (log[k].event = log[i].event /\ i <= k)
    BY <1>2 DEF BoughtAt
  <2>2. ASSUME NEW k \in DOMAIN log, log[k].in = p PROVE i <= k
    <3>1. CASE log[k].event < log[i].event
      <4>1. ~(k <= i)
        BY <1>1, <2>1, <3>1 DEF PriceInv, LogInv
      <4>. QED  BY <1>1, <2>1, <4>1
    <3>. QED  BY <2>1, <2>2, <3>1
  <2>. QED  BY <2>1, <2>2 DEF Newest
<1>3. ASSUME Bargain(p) PROVE BoughtAt(p) # {}
  <2>1. PICK i \in DOMAIN log : Newest(p, i)
    BY <1>3 DEF PriceInv, LogInv
  <2>2. ASSUME NEW k \in DOMAIN log, log[k].in = p
        PROVE  log[k].event < log[i].event \/ (log[k].event = log[i].event /\ i <= k)
    <3>1. i <= k
      BY <2>1, <2>2 DEF Newest
    <3>2. log[k].event <= log[i].event
      BY <3>1 DEF PriceInv, LogInv
    <3>. QED  BY <1>1, <3>1, <3>2
  <2>3. i \in BoughtAt(p)
    BY <2>1, <2>2 DEF BoughtAt, Newest
  <2>. QED  BY <2>3
<1>. QED  BY <1>2, <1>3

(* In every season, for any order of buying, selling and buying back, a    *)
(* price reconstructPurchasePrices derives is what was paid or says that   *)
(* it is unknown (entry-state.ts:15).                                      *)
THEOREM PricesNeverWrongAlways == Spec => []PricesNeverWrong
<1>1. PriceInv => PricesNeverWrong
  <2>1. SUFFICES ASSUME PriceInv, Opening, NEW p \in squad,
                        \A i \in DOMAIN log : log[i].in = p => chips[log[i].event] # "freehit"
                 PROVE  PurchasePrice(p) \in {paid[p], NoPrice}
    BY DEF PricesNeverWrong
  <2>2. p \in Player
    BY <2>1 DEF PriceInv, TypeOK
  <2>3. ~Tainted(p)
    BY <2>1 DEF PriceInv, LogInv, Opening, Tainted, UseOf
  <2>4. CASE BoughtAt(p) = {}
    BY <2>1, <2>2, <2>3, <2>4, BoughtIsNewest DEF PriceInv, Known, PurchasePrice
  <2>5. CASE BoughtAt(p) # {}
    <3>1. PICK i : i \in BoughtAt(p) /\ PurchasePrice(p) = log[i].cost
      BY <2>5 DEF PurchasePrice
    <3>2. Newest(p, i) /\ i \in DOMAIN log
      BY <2>1, <2>2, <3>1, BoughtIsNewest DEF Newest
    <3>. QED  BY <2>1, <2>3, <3>1, <3>2 DEF PriceInv, Known
  <2>. QED  BY <2>4, <2>5
<1>. QED  BY <1>1, InitPriced, NextPriced, PTL DEF Spec

-----------------------------------------------------------------------------
(* The count of free transfers.                                            *)

(* One turn of the replay, and the counts a record replays to.             *)
Granted(held) == IF held + 1 > Cap THEN Cap ELSE held + 1
Held0(left) == IF left < 0 THEN 0 ELSE left
After(count, made, use) ==
    Granted(Held0(IF use = "none" THEN count - made ELSE count))
Counts(c, played, uses) ==
    /\ c \in [0..Len(played) -> Nat]
    /\ c[0] = 0
    /\ \A n \in 1..Len(played) : c[n] = After(c[n - 1], played[n], uses[n])

(* Whatever counts satisfy the recurrence are the ones the replay computes *)
LEMMA ReplayCounts ==
  ASSUME NEW played, Len(played) \in Nat \ {0}, NEW uses, NEW c, Counts(c, played, uses)
  PROVE  Replay(played, uses) = c[Len(played)]
<1>. DEFINE N == Len(played)
            F(g) == [n \in 0..N |->
                       IF n = 0 THEN 0
                       ELSE LET left == IF uses[n] = "none" THEN g[n - 1] - played[n] ELSE g[n - 1]
                                held == IF left < 0 THEN 0 ELSE left
                            IN  IF held + 1 > Cap THEN Cap ELSE held + 1]
            f == CHOOSE g : g = F(g)
<1>1. Replay(played, uses) = f[N]
  BY DEF Replay
<1>2. c = F(c)
  <2>1. \A n \in 0..N : c[n] = F(c)[n]
    BY DEF Counts, After, Granted, Held0
  <2>2. c = [n \in 0..N |-> c[n]]
    BY DEF Counts
  <2>. QED  BY <2>1, <2>2
<1>3. f = F(f)
  BY <1>2
<1>. HIDE DEF f
<1>. DEFINE S == {n \in Nat : n <= N => f[n] = c[n]}
<1>4. 0 \in S
  BY <1>2, <1>3
<1>5. ASSUME NEW n \in Nat, n \in S PROVE n + 1 \in S
  <2>1. SUFFICES ASSUME n + 1 <= N PROVE f[n + 1] = c[n + 1]
    OBVIOUS
  <2>2. n + 1 \in 0..N /\ n + 1 # 0 /\ (n + 1) - 1 = n /\ f[n] = c[n]
    BY <1>5, <2>1
  <2>3. F(f)[n + 1] = F(c)[n + 1]
    BY <2>2
  <2>. QED  BY <1>2, <1>3, <2>3
<1>. HIDE DEF S
<1>6. N \in S
  BY <1>4, <1>5, NatInd
<1>. QED  BY <1>1, <1>6 DEF S

(* What FPL holds before the deadline is what the record replays to, less  *)
(* this gameweek's transfers unless they are on a chip.                    *)
CountInv ==
  \E c : /\ Counts(c, rounds, chips)
         /\ Len(rounds) = gameweek - 1
         /\ free = IF chip = "none" THEN Held0(c[gameweek - 1] - moves) ELSE c[gameweek - 1]

LEMMA InitCount == Init => CountInv
<1> SUFFICES ASSUME Init PROVE CountInv
  OBVIOUS
<1>1. Len(rounds) = 0 /\ gameweek = 1 /\ free = 0 /\ moves = 0 /\ chip = "none"
  BY DEF Init
<1>. DEFINE c == [n \in 0..0 |-> 0]
<1>2. Counts(c, rounds, chips)
  BY <1>1 DEF Counts
<1>. QED  BY <1>1, <1>2 DEF CountInv, Held0

LEMMA NextCount == TypeOK /\ CountInv /\ [Next]_vars => CountInv'
<1> SUFFICES ASSUME TypeOK, CountInv, [Next]_vars PROVE CountInv'
  OBVIOUS
<1>1. PICK c : /\ Counts(c, rounds, chips) /\ Len(rounds) = gameweek - 1
               /\ free = IF chip = "none" THEN Held0(c[gameweek - 1] - moves) ELSE c[gameweek - 1]
  BY DEF CountInv
<1>2. /\ gameweek - 1 \in Nat /\ c \in [0..(gameweek - 1) -> Nat] /\ c[gameweek - 1] \in Nat
      /\ moves \in Nat /\ free \in Nat /\ Cap \in Nat \ {0}
  BY <1>1, ManagerAssumption DEF TypeOK, Gameweek, Counts
<1>3. ASSUME UNCHANGED <<gameweek, rounds, chips, free, moves, chip>> PROVE CountInv'
  BY <1>1, <1>3 DEF CountInv
<1>4. ASSUME NEW out \in Player, NEW in \in Player, Transfer(out, in) PROVE CountInv'
  <2>1. /\ UNCHANGED <<gameweek, rounds, chips, chip>> /\ moves' = moves + 1
        /\ free' = IF chip = "none" /\ free > 0 THEN free - 1 ELSE free
    BY <1>4 DEF Transfer
  <2>2. free' = IF chip' = "none" THEN Held0(c[gameweek - 1] - moves') ELSE c[gameweek - 1]
    BY <1>1, <1>2, <2>1 DEF Held0
  <2>. QED  BY <1>1, <2>1, <2>2 DEF CountInv
<1>5. ASSUME NEW u \in Chip, PlayChip(u) PROVE CountInv'
  <2>1. /\ UNCHANGED <<gameweek, rounds, chips, free, moves>> /\ moves = 0 /\ chip = "none"
        /\ chip' # "none"
    BY <1>5 DEF PlayChip, record
  <2>2. free' = c[gameweek - 1]
    BY <1>1, <1>2, <2>1 DEF Held0
  <2>. QED  BY <1>1, <2>1, <2>2 DEF CountInv
<1>6. CASE PassDeadline
  <2>. DEFINE n == gameweek - 1
              d == [k \in 0..(n + 1) |-> IF k = n + 1 THEN After(c[n], moves, chip) ELSE c[k]]
  <2>1. /\ gameweek' = gameweek + 1 /\ gameweek' - 1 = n + 1 /\ moves' = 0 /\ chip' = "none"
        /\ rounds' = Append(rounds, moves) /\ chips' = Append(chips, chip)
        /\ free' = IF free < Cap THEN free + 1 ELSE free
    BY <1>2, <1>6 DEF PassDeadline, TypeOK, Gameweek
  <2>2. /\ rounds \in [1..n -> 0..MaxMoves] /\ chips \in [1..n -> Chip]
        /\ moves \in 0..MaxMoves /\ chip \in Chip
    BY DEF TypeOK
  <2>3. /\ \A k \in 1..n : rounds'[k] = rounds[k] /\ chips'[k] = chips[k]
        /\ rounds'[n + 1] = moves /\ chips'[n + 1] = chip
    <3>1. /\ \A k \in 1..n : rounds'[k] = rounds[k]
          /\ rounds'[n + 1] = moves
      BY <1>2, <2>1, <2>2, OneLonger
    <3>2. /\ \A k \in 1..n : chips'[k] = chips[k]
          /\ chips'[n + 1] = chip
      BY <1>2, <2>1, <2>2, OneLonger
    <3>. QED  BY <3>1, <3>2
  <2>4. Len(rounds') = n + 1
    BY <1>1, <2>1, <2>2, <1>2
  <2>5. After(c[n], moves, chip) \in Nat
    BY <1>2 DEF After, Granted, Held0
  <2>6. Counts(d, rounds', chips')
    <3>1. d \in [0..(n + 1) -> Nat] /\ d[0] = 0
      BY <1>1, <1>2, <2>5 DEF Counts
    <3>2. ASSUME NEW k \in 1..(n + 1) PROVE d[k] = After(d[k - 1], rounds'[k], chips'[k])
      <4>1. CASE k = n + 1
        <5>1. d[k] = After(c[n], moves, chip) /\ d[k - 1] = c[n]
          BY <1>2, <4>1
        <5>. QED  BY <2>3, <4>1, <5>1
      <4>2. CASE k # n + 1
        <5>1. k \in 1..n /\ d[k] = c[k] /\ d[k - 1] = c[k - 1]
          BY <1>2, <4>2
        <5>. QED  BY <1>1, <2>3, <5>1 DEF Counts
      <4>. QED  BY <4>1, <4>2
    <3>. HIDE DEF d
    <3>. QED  BY <2>4, <3>1, <3>2 DEF Counts
  <2>7. free' = d[n + 1]
    <3>1. d[n + 1] = After(c[n], moves, chip)
      BY <1>2
    <3>2. free <= Cap
      BY DEF TypeOK
    <3>. HIDE DEF d
    <3>. QED  BY <1>1, <1>2, <2>1, <3>1, <3>2 DEF After, Granted, Held0
  <2>8. d[n + 1] \in Nat
    BY <1>2, <2>5
  <2>. HIDE DEF d
  <2>9. free' = Held0(d[n + 1] - moves')
    BY <2>1, <2>7, <2>8 DEF Held0
  <2>. QED  BY <2>1, <2>4, <2>6, <2>9 DEF CountInv
<1>7. CASE \E p \in Player, v \in Price : MovePrice(p, v)
  BY <1>3, <1>7 DEF MovePrice, record
<1>8. CASE UNCHANGED vars
  BY <1>3, <1>8 DEF vars, season, record
<1>. QED  BY <1>4, <1>5, <1>6, <1>7, <1>8 DEF Next

(* For every season of any length, whatever is banked, spent, taken as a   *)
(* hit or made on a chip, the count reconstructEntryState replays from the *)
(* public record is the count FPL holds (entry-state.ts:139).              *)
THEOREM FreeTransfersAlwaysExact == Spec => []FreeTransfersExact
<1>1. TypeOK /\ CountInv => FreeTransfersExact
  <2> SUFFICES ASSUME TypeOK, CountInv, gameweek > 1, moves = 0, chip = "none"
               PROVE  Replay(rounds, chips) = free
    BY DEF FreeTransfersExact, Opening
  <2>1. PICK c : /\ Counts(c, rounds, chips) /\ Len(rounds) = gameweek - 1
                 /\ free = Held0(c[gameweek - 1] - moves)
    BY DEF CountInv
  <2>2. gameweek - 1 \in Nat \ {0}
    BY DEF TypeOK, Gameweek
  <2>3. Replay(rounds, chips) = c[gameweek - 1]
    BY <2>1, <2>2, ReplayCounts
  <2>4. c[gameweek - 1] \in Nat
    BY <2>1, <2>2 DEF Counts
  <2>. QED  BY <2>1, <2>3, <2>4 DEF Held0
<1>2. Spec => []CountInv
  BY InitCount, NextCount, SeasonTyped, PTL DEF Spec
<1>. QED  BY <1>1, <1>2, SeasonTyped, PTL

-----------------------------------------------------------------------------
(* SquadImport: the path on which a user waits.                            *)

WorldTyped ==
    /\ exists \in BOOLEAN
    /\ now \in 0..MaxTime
    /\ due \in [Event -> Time]
    /\ entered \in 0..LastEvent
    /\ weeks \in [Event -> Time \cup {Unknown}]
    /\ players \subseteq Element
    /\ listed \subseteq Element

(* A manager FPL does not know has entered nothing, and FPL names no       *)
(* gameweek before its deadline.                                           *)
Named == entered # NoGw => exists /\ due[entered] <= now

(* Put off, a deadline is never earlier than the store has it.             *)
StoredIsNotLate == ~Forward => \A g \in Event : weeks[g] <= due[g]

(* A sync writes the whole calendar.                                       *)
CalendarIsWhole ==
    (\A g \in Event : weeks[g] = Unknown) \/ (\A g \in Event : weeks[g] # Unknown)

(* A request that has a gameweek to ask the picks of got it from an answer *)
(* about a manager who exists; one to look for in the store is no earlier  *)
(* than the one FPL named.                                                 *)
Sound(x) ==
    /\ x.at \in {"picks", "week", "players", "store"} => x.gw \in Event /\ exists
    /\ x.at = "store" => Resolved(x.gw)
    /\ x.at = "cached" => x.gw \in Event
    /\ (x.at = "cached" /\ ~Forward) => x.gw >= x.named
    /\ x.result = "managerNotFound" => ~exists
    /\ x.result \in {"notAvailableYet", "unknownPlayer", "imported"} => exists

IInv ==
    /\ WorldTyped
    /\ request \in [Request -> Import]
    /\ squads \in [Event -> SUBSET Element]
    /\ Named
    /\ StoredIsNotLate
    /\ CalendarIsWhole
    /\ StoredSquadsAreWhole
    /\ \A r \in Request : Sound(request[r])

LEMMA Moved ==
  ASSUME NEW x \in Import, NEW at \in Location
  PROVE  /\ [x EXCEPT !.at = at] \in Import
         /\ [x EXCEPT !.at = at].at = at /\ [x EXCEPT !.at = at].gw = x.gw
         /\ [x EXCEPT !.at = at].result = x.result
         /\ [x EXCEPT !.at = at].asked = x.asked
BY DEF Import

LEMMA NoImportTyped ==
  /\ NoImport \in Import /\ NoImport.result = "none" /\ NoImport.at = "idle"
  /\ NoImport.asked = 0
BY ImportAssumption DEF NoImport, Import, Location, Result, NoGw

LEMMA Ended ==
  ASSUME NEW result \in Result
  PROVE  LET y == [NoImport EXCEPT !.result = result]
         IN  y \in Import /\ y.result = result /\ y.at = "idle" /\ y.asked = 0
BY NoImportTyped DEF Import

LEMMA AskedFirst ==
  ASSUME NEW e \in 0..LastEvent
  PROVE  LET y == [NoImport EXCEPT !.at = "entry", !.named = e, !.asked = 1]
         IN  y \in Import /\ y.at = "entry" /\ y.asked = 1 /\ y.result = "none"
BY NoImportTyped DEF Import, Location

(* A step of a request that leaves FPL, the calendar and the players alone *)
LEMMA OneRequest ==
  ASSUME IInv, NEW r \in Request, NEW x \in Import, request' = [request EXCEPT ![r] = x],
         UNCHANGED <<upstream, weeks, players>>, Sound(x),
         squads' \in [Event -> SUBSET Element], StoredSquadsAreWhole'
  PROVE  IInv'
<1>1. /\ UNCHANGED <<exists, now, due, entered, listed>> /\ weeks' = weeks /\ players' = players
      /\ request' \in [Request -> Import] /\ request'[r] = x
      /\ \A q \in Request : q # r => request'[q] = request[q]
  BY DEF IInv, upstream
<1>2. \A q \in Request : Sound(request[q])'
  BY <1>1 DEF IInv, Sound, Resolved
<1>3. WorldTyped' /\ Named' /\ StoredIsNotLate' /\ CalendarIsWhole'
  BY <1>1 DEF IInv, WorldTyped, Named, StoredIsNotLate, CalendarIsWhole
<1>. QED  BY <1>1, <1>2, <1>3 DEF IInv

(* A request ended for a reason that fits.                                 *)
LEMMA EndsKeeps ==
  ASSUME IInv, NEW r \in Request, NEW result \in Result, Ends(r, result),
         UNCHANGED <<upstream, weeks, players>>,
         squads' \in [Event -> SUBSET Element], StoredSquadsAreWhole',
         result = "managerNotFound" => ~exists,
         result \in {"notAvailableYet", "unknownPlayer", "imported"} => exists
  PROVE  IInv'
<1>. DEFINE x == [NoImport EXCEPT !.result = result]
<1>1. x \in Import /\ x.result = result /\ x.at = "idle"
  BY Ended
<1>2. request' = [request EXCEPT ![r] = x]
  BY DEF Ends
<1>. HIDE DEF x
<1>3. Sound(x)
  BY <1>1 DEF Sound
<1>. QED  BY <1>1, <1>2, <1>3, OneRequest

LEMMA InitIInv == ImportInit => IInv
<1>. SUFFICES ASSUME ImportInit PROVE IInv
  OBVIOUS
<1>1. NoImport \in Import /\ NoImport.at = "idle" /\ NoImport.result = "none"
  BY NoImportTyped
<1>2. request \in [Request -> Import] /\ \A r \in Request : Sound(request[r])
  <2>1. \A r \in Request : request[r] = NoImport
    BY DEF ImportInit
  <2>. QED  BY <1>1, <2>1 DEF ImportInit, Sound
<1>3. WorldTyped
  BY ImportAssumption DEF ImportInit, WorldTyped, NoGw, Unknown, Time, Event
<1>4. Named /\ StoredSquadsAreWhole /\ squads \in [Event -> SUBSET Element]
  BY DEF ImportInit, Named, StoredSquadsAreWhole
<1>5. StoredIsNotLate /\ CalendarIsWhole
  BY <1>3, ImportAssumption DEF ImportInit, StoredIsNotLate, CalendarIsWhole, WorldTyped, Time, Unknown
<1>. QED  BY <1>2, <1>3, <1>4, <1>5 DEF IInv

(* The latest of some gameweeks.                                           *)
LEMMA LatestOf ==
  ASSUME NEW S \in SUBSET Event
  PROVE  /\ Max({NoGw} \cup S) \in 0..LastEvent
         /\ Max({NoGw} \cup S) # NoGw => Max({NoGw} \cup S) \in S
         /\ \A g \in S : Max({NoGw} \cup S) >= g
<1>. DEFINE T == {NoGw} \cup S
<1>1. LastEvent \in Nat /\ T \subseteq 0..LastEvent /\ T \subseteq Int /\ T # {}
  BY ImportAssumption DEF Event, NoGw
<1>2. IsFiniteSet(T)
  <2>1. IsFiniteSet(0..LastEvent)
    BY <1>1, FS_Interval
  <2>. QED  BY <1>1, <2>1, FS_Subset
<1>. HIDE DEF T
<1>3. Max(T) \in T /\ \A y \in T : Max(T) >= y
  BY <1>1, <1>2, MaxOfNumbers
<1>. QED  BY <1>1, <1>3 DEF T

LEMMA LatestFacts ==
  ASSUME WorldTyped
  PROVE  /\ LatestPassed \in 0..LastEvent
         /\ LatestPassed # NoGw => LatestPassed \in Event /\ due[LatestPassed] <= now
         /\ \A g \in Event : due[g] <= now => LatestPassed >= g
         /\ LatestReadable \in 0..LastEvent
         /\ LatestReadable # NoGw =>
               LatestReadable \in Event /\ weeks[LatestReadable] # Unknown
         /\ \A g \in Event : weeks[g] # Unknown /\ weeks[g] <= now => LatestReadable >= g
<1>. DEFINE P == {g \in Event : due[g] <= now}
            R == {g \in Event : weeks[g] # Unknown /\ weeks[g] <= now}
<1>1. P \in SUBSET Event /\ R \in SUBSET Event
  OBVIOUS
<1>2. /\ LatestPassed \in 0..LastEvent
      /\ LatestPassed # NoGw => LatestPassed \in P
      /\ \A g \in P : LatestPassed >= g
  BY <1>1, LatestOf DEF LatestPassed
<1>3. /\ LatestReadable \in 0..LastEvent
      /\ LatestReadable # NoGw => LatestReadable \in R
      /\ \A g \in R : LatestReadable >= g
  BY <1>1, LatestOf DEF LatestReadable
<1>4. LatestPassed \in P => LatestPassed \in Event /\ due[LatestPassed] <= now
  OBVIOUS
<1>5. LatestReadable \in R => LatestReadable \in Event /\ weeks[LatestReadable] # Unknown
  OBVIOUS
<1>6. \A g \in Event : weeks[g] # Unknown /\ weeks[g] <= now => g \in R
  OBVIOUS
<1>7. \A g \in Event : due[g] <= now => g \in P
  OBVIOUS
<1>. HIDE DEF P, R
<1>. QED  BY <1>2, <1>3, <1>4, <1>5, <1>6, <1>7

(* FPL's moves leave the requests and the store alone.                     *)
LEMMA OutsideKeeps ==
  ASSUME IInv, Tick \/ TurnOver \/ Publish \/ ListLate
               \/ \E g \in Event, t \in Time : Reschedule(g, t)
  PROVE  IInv'
<1>1. /\ UNCHANGED <<exists, weeks, players, squads, request>>
      /\ WorldTyped
  BY DEF IInv, Tick, TurnOver, Publish, ListLate, Reschedule, store
<1>2. now \in Int /\ MaxTime \in Nat /\ \A g \in Event : due[g] \in Int /\ weeks[g] \in Int
  BY <1>1, ImportAssumption DEF WorldTyped, Time, Unknown
<1>3. \A r \in Request : Sound(request[r])'
  BY <1>1 DEF IInv, Sound, Resolved
<1>4. CASE Tick
  <2>1. now' = now + 1 /\ now' \in 0..MaxTime /\ UNCHANGED <<due, entered, listed>>
    BY <1>1, <1>2, <1>4 DEF Tick, WorldTyped
  <2>2. entered # NoGw => entered \in Event
    BY <1>1, ImportAssumption DEF WorldTyped, NoGw, Event
  <2>. QED  BY <1>1, <1>2, <1>3, <2>1, <2>2
            DEF IInv, WorldTyped, Named, StoredIsNotLate, CalendarIsWhole, StoredSquadsAreWhole
<1>5. CASE TurnOver
  <2>1. entered' = LatestPassed /\ exists /\ UNCHANGED <<now, due, listed>>
    BY <1>5 DEF TurnOver
  <2>2. /\ LatestPassed \in 0..LastEvent
        /\ LatestPassed # NoGw => due[LatestPassed] <= now
    BY <1>1, LatestFacts
  <2>. QED  BY <1>1, <1>3, <2>1, <2>2
            DEF IInv, WorldTyped, Named, StoredIsNotLate, CalendarIsWhole, StoredSquadsAreWhole
<1>6. CASE Publish \/ ListLate
  <2>1. UNCHANGED <<now, due, entered>> /\ listed' \subseteq Element
    BY <1>1, <1>6 DEF Publish, ListLate, WorldTyped
  <2>. QED  BY <1>1, <1>3, <2>1
            DEF IInv, WorldTyped, Named, StoredIsNotLate, CalendarIsWhole, StoredSquadsAreWhole
<1>7. ASSUME NEW g \in Event, NEW t \in Time, Reschedule(g, t) PROVE IInv'
  <2>1. /\ UNCHANGED <<now, entered, listed>> /\ due' = [due EXCEPT ![g] = t]
        /\ now < due[g] /\ (t < due[g] => Forward) /\ t \in Int
    BY <1>7, ImportAssumption DEF Reschedule, Time
  <2>2. WorldTyped' /\ \A k \in Event : due'[k] = IF k = g THEN t ELSE due[k]
    BY <1>1, <2>1 DEF WorldTyped
  <2>3. Named'
    <3>1. entered # NoGw => entered \in Event /\ entered # g
      BY <1>1, <1>2, <2>1, ImportAssumption DEF IInv, Named, WorldTyped, NoGw, Event
    <3>. QED  BY <1>1, <2>1, <2>2, <3>1 DEF IInv, Named
  <2>4. StoredIsNotLate'
    BY <1>1, <1>2, <2>1, <2>2 DEF IInv, StoredIsNotLate
  <2>. QED  BY <1>1, <1>3, <2>2, <2>3, <2>4 DEF IInv, CalendarIsWhole, StoredSquadsAreWhole
<1>. QED  BY <1>4, <1>5, <1>6, <1>7

LEMMA NextIInv == IInv /\ [ImportNext]_importVars => IInv'
<1>. SUFFICES ASSUME IInv, [ImportNext]_importVars PROVE IInv'
  OBVIOUS
<1>0. /\ WorldTyped /\ request \in [Request -> Import] /\ squads \in [Event -> SUBSET Element]
      /\ \A r \in Request : Sound(request[r])
  BY DEF IInv
<1>1. CASE Tick \/ TurnOver \/ Publish \/ ListLate
           \/ \E g \in Event, t \in Time : Reschedule(g, t)
  BY <1>1, OutsideKeeps
<1>2. ASSUME NEW c \in Caller, NEW e \in Error, Retry(c, e) PROVE IInv'
  <2>1. UNCHANGED <<upstream, store>> /\ UNCHANGED <<weeks, players, squads>>
    BY <1>2 DEF Retry, store
  <2>2. CASE c = Sync
    <3>1. UNCHANGED request
      BY <1>2, <2>2 DEF Retry
    <3>. QED  BY <2>1, <3>1 DEF IInv, upstream, WorldTyped, Named, StoredIsNotLate,
              CalendarIsWhole, StoredSquadsAreWhole, Sound, Resolved
  <2>3. CASE c # Sync
    <3>1. c \in Request /\ request[c] \in Import /\ Sound(request[c])
      BY <1>0, <2>3 DEF Caller
    <3>. DEFINE x == [request[c] EXCEPT !.asked = request[c].asked + 1]
    <3>2. request' = [request EXCEPT ![c] = x]
      BY <1>2, <2>3 DEF Retry
    <3>3. /\ x \in Import /\ x.at = request[c].at /\ x.gw = request[c].gw
          /\ x.named = request[c].named /\ x.result = request[c].result
      BY <3>1 DEF Import
    <3>. HIDE DEF x
    <3>4. Sound(x)
      BY <3>1, <3>3 DEF Sound
    <3>5. StoredSquadsAreWhole' /\ squads' \in [Event -> SUBSET Element]
      BY <2>1 DEF IInv, StoredSquadsAreWhole
    <3>. QED  BY <2>1, <3>1, <3>2, <3>3, <3>4, <3>5, OneRequest
  <2>. QED  BY <2>2, <2>3
<1>3. CASE StartSync \/ EndSync
  <2>1. /\ UNCHANGED <<exists, now, due, entered, listed, squads, request>>
        /\ weeks' = weeks \/ weeks' = due
        /\ players \subseteq players' /\ players' \subseteq Element
    BY <1>0, <1>3 DEF StartSync, EndSync, upstream, store, WorldTyped
  <2>2. WorldTyped' /\ Named' /\ StoredSquadsAreWhole'
    BY <1>0, <2>1 DEF IInv, WorldTyped, Named, StoredSquadsAreWhole
  <2>3. StoredIsNotLate' /\ CalendarIsWhole'
    BY <1>0, <2>1, ImportAssumption
       DEF IInv, WorldTyped, StoredIsNotLate, CalendarIsWhole, Time, Unknown
  <2>4. \A r \in Request : Sound(request[r])'
    BY <1>0, <2>1 DEF Sound, Resolved
  <2>. QED  BY <1>0, <2>1, <2>2, <2>3, <2>4 DEF IInv
<1>4. CASE UNCHANGED importVars
  BY <1>4 DEF importVars, upstream, store, IInv, WorldTyped, Named, StoredIsNotLate,
     CalendarIsWhole, StoredSquadsAreWhole, Sound, Resolved
<1>5. ASSUME NEW r \in Request, Begin(r) \/ Step(r) PROVE IInv'
  <2>0. request[r] \in Import /\ Sound(request[r])
    BY <1>0
  <2>1. CASE ~Store(r)
    <3>1. UNCHANGED <<upstream, weeks, players>> /\ squads' = squads
      BY <1>5, <2>1 DEF Begin, Step, FindSquad, EntryAnswers, EntryFails, PicksAnswer, PicksFail,
         GameweekExists, ResolvePlayers, StoreFails, store
    <3>2. StoredSquadsAreWhole' /\ squads' \in [Event -> SUBSET Element]
      BY <1>0, <3>1 DEF IInv, StoredSquadsAreWhole
    <3>3. ASSUME NEW result \in Result, Ends(r, result),
                 result = "managerNotFound" => ~exists,
                 result \in {"notAvailableYet", "unknownPlayer", "imported"} => exists
          PROVE  IInv'
      BY <3>1, <3>2, <3>3, EndsKeeps
    <3>4. ASSUME NEW at \in Location, Awaits(r, at), exists, request[r].gw \in Event,
                 at \in {"week", "players", "store"},
                 at = "store" => Resolved(request[r].gw)
          PROVE  IInv'
      <4>. DEFINE x == [request[r] EXCEPT !.at = at]
      <4>1. request' = [request EXCEPT ![r] = x]
        BY <3>4 DEF Awaits
      <4>2. x \in Import /\ x.at = at /\ x.gw = request[r].gw /\ x.result = request[r].result
        BY <2>0, Moved
      <4>. HIDE DEF x
      <4>3. Sound(x)
        BY <2>0, <3>4, <4>2 DEF Sound
      <4>. QED  BY <3>1, <3>2, <4>1, <4>2, <4>3, OneRequest
    <3>5. ASSUME NEW at \in {"entry", "picks"}, NEW gw \in 0..LastEvent, Calls(r, at, gw),
                 at = "picks" => gw \in Event /\ exists
          PROVE  IInv'
      <4>. DEFINE x == [request[r] EXCEPT !.at = at, !.gw = gw, !.asked = request[r].asked + 1]
      <4>1. request' = [request EXCEPT ![r] = x]
        BY <3>5 DEF Calls
      <4>2. x \in Import /\ x.at = at /\ x.gw = gw /\ x.result = request[r].result
        <5>1. PICK n \in Nat : n = request[r].asked + 1
          BY <2>0 DEF Import
        <5>2. /\ [request[r] EXCEPT !.at = at, !.gw = gw, !.asked = n] \in Import
              /\ [request[r] EXCEPT !.at = at, !.gw = gw, !.asked = n].at = at
              /\ [request[r] EXCEPT !.at = at, !.gw = gw, !.asked = n].gw = gw
              /\ [request[r] EXCEPT !.at = at, !.gw = gw, !.asked = n].result = request[r].result
          BY <2>0 DEF Import, Location
        <5>. QED  BY <5>1, <5>2
      <4>. HIDE DEF x
      <4>3. Sound(x)
        BY <2>0, <3>5, <4>2 DEF Sound
      <4>. QED  BY <3>1, <3>2, <4>1, <4>2, <4>3, OneRequest
    <3>6. CASE Begin(r)
      <4>1. entered \in 0..LastEvent
        BY <1>0 DEF WorldTyped
      <4>2. CASE LatestReadable = NoGw
        <5>. DEFINE x == [NoImport EXCEPT !.at = "entry", !.named = entered, !.asked = 1]
        <5>1. request' = [request EXCEPT ![r] = x]
          BY <3>6, <4>2 DEF Begin
        <5>2. x \in Import /\ x.at = "entry" /\ x.result = "none"
          BY <4>1, AskedFirst
        <5>. HIDE DEF x
        <5>3. Sound(x)
          BY <5>2 DEF Sound
        <5>. QED  BY <3>1, <3>2, <5>1, <5>2, <5>3, OneRequest
      <4>3. CASE LatestReadable # NoGw
        <5>. DEFINE x == [NoImport EXCEPT !.at = "cached", !.gw = LatestReadable, !.named = entered]
        <5>1. request' = [request EXCEPT ![r] = x]
          BY <3>6, <4>3 DEF Begin
        <5>2. /\ x \in Import /\ x.at = "cached" /\ x.result = "none"
              /\ x.gw = LatestReadable /\ x.named = entered
          <6>1. LatestReadable \in 0..LastEvent
            BY <1>0, LatestFacts
          <6>. QED  BY <4>1, <6>1, NoImportTyped DEF Import, Location
        <5>. HIDE DEF x
        <5>3. LatestReadable \in Event /\ LatestReadable \in Nat /\ LatestReadable >= 0
          BY <1>0, <4>3, LatestFacts DEF Event
        <5>4. ~Forward => LatestReadable >= entered
          <6>1. CASE entered = NoGw
            BY <5>3, <6>1 DEF NoGw
          <6>2. CASE entered # NoGw /\ ~Forward
            <7>1. entered \in Event /\ due[entered] <= now /\ weeks[entered] <= due[entered]
              BY <4>1, <6>2, ImportAssumption DEF IInv, Named, StoredIsNotLate, NoGw, Event
            <7>2. weeks[entered] <= now
              <8>1. weeks[entered] \in Int /\ due[entered] \in Int /\ now \in Int
                BY <1>0, <7>1, ImportAssumption DEF WorldTyped, Time, Unknown
              <8>. QED  BY <7>1, <8>1
            <7>3. weeks[entered] # Unknown
              BY <1>0, <4>3, <7>1, LatestFacts DEF IInv, CalendarIsWhole
            <7>. QED  BY <1>0, <7>1, <7>2, <7>3, LatestFacts
          <6>. QED  BY <6>1, <6>2
        <5>5. Sound(x)
          BY <5>2, <5>3, <5>4 DEF Sound
        <5>. QED  BY <3>1, <3>2, <5>1, <5>2, <5>5, OneRequest
      <4>. QED  BY <4>2, <4>3
    <3>7. CASE FindSquad(r)
      <4>1. Ends(r, "cached") \/ Calls(r, "entry", NoGw)
        BY <3>7 DEF FindSquad
      <4>. QED  BY <3>3, <3>5, <4>1, ImportAssumption DEF Result, NoGw
    <3>8. CASE EntryAnswers(r)
      <4>1. exists /\ (Ends(r, "notAvailableYet") \/ (entered # NoGw /\ Calls(r, "picks", entered)))
        BY <3>8 DEF EntryAnswers
      <4>2. entered # NoGw => entered \in Event /\ entered \in 0..LastEvent
        BY <1>0, ImportAssumption DEF WorldTyped, Event, NoGw
      <4>. QED  BY <3>3, <3>5, <4>1, <4>2 DEF Result
    <3>9. CASE EntryFails(r)
      <4>1. PICK result \in {"managerNotFound", "upstreamUnavailable"} :
               Ends(r, result) /\ (result = "managerNotFound" => ~exists)
        BY <3>9 DEF EntryFails, MapUpstream
      <4>. QED  BY <3>3, <4>1 DEF Result
    <3>10. CASE PicksAnswer(r)
      <4>1. Awaits(r, "week") /\ exists /\ request[r].gw \in Event
        BY <2>0, <3>10 DEF PicksAnswer, Sound
      <4>. QED  BY <3>4, <4>1 DEF Location
    <3>11. CASE PicksFail(r)
      <4>1. exists
        BY <2>0, <3>11 DEF PicksFail, Sound
      <4>2. PICK result \in {"notAvailableYet", "upstreamUnavailable"} : Ends(r, result)
        BY <3>11 DEF PicksFail, PicksError, MapUpstream
      <4>. QED  BY <3>3, <4>1, <4>2 DEF Result
    <3>12. CASE GameweekExists(r)
      <4>1. /\ Ends(r, "notAvailableYet") \/ Awaits(r, "players")
            /\ exists /\ request[r].gw \in Event
        BY <2>0, <3>12 DEF GameweekExists, Sound
      <4>. QED  BY <3>3, <3>4, <4>1 DEF Location, Result
    <3>13. CASE ResolvePlayers(r)
      <4>1. /\ Ends(r, "unknownPlayer") \/ (Awaits(r, "store") /\ Resolved(request[r].gw))
            /\ exists /\ request[r].gw \in Event
        BY <2>0, <3>13 DEF ResolvePlayers, Sound
      <4>. QED  BY <3>3, <3>4, <4>1 DEF Location, Result
    <3>14. CASE StoreFails(r)
      BY <3>3, <3>14 DEF StoreFails, Result
    <3>. QED  BY <1>5, <2>1, <3>6, <3>7, <3>8, <3>9, <3>10, <3>11, <3>12, <3>13, <3>14 DEF Step
  <2>2. CASE Store(r)
    <3>. DEFINE g == request[r].gw
    <3>1. /\ g \in Event /\ exists /\ Resolved(g) /\ Ends(r, "imported")
          /\ UNCHANGED <<upstream, weeks, players>>
      BY <2>0, <2>2 DEF Store, Sound
    <3>2. squads' = [squads EXCEPT ![g] = Locked[g]]
      BY <2>2, <3>1 DEF Store, Resolved
    <3>3. Locked[g] \subseteq Element
      BY <3>1 DEF Element
    <3>4. StoredSquadsAreWhole' /\ squads' \in [Event -> SUBSET Element]
      BY <1>0, <3>1, <3>2, <3>3 DEF IInv, StoredSquadsAreWhole
    <3>. QED  BY <3>1, <3>4, EndsKeeps DEF Result
  <2>. QED  BY <2>1, <2>2
<1>. QED  BY <1>1, <1>2, <1>3, <1>4, <1>5 DEF ImportNext

(* Whatever imports and syncs are in flight, and whatever FPL answers, a   *)
(* squad in the store is the one of its deadline, whole                    *)
(* (squad.service.ts:295).                                                 *)
THEOREM StoredSquadsAreWholeAlways == ImportSpec => []StoredSquadsAreWhole
<1>1. IInv => StoredSquadsAreWhole
  BY DEF IInv
<1>. QED  BY <1>1, InitIInv, NextIInv, PTL DEF ImportSpec

(* For any number of attempts and any errors of FPL, a manager who exists  *)
(* is never reported missing, nor a missing one as not available yet       *)
(* (fpl-api.client.ts:15).                                                 *)
THEOREM ErrorsNameTheirCauseAlways == ImportSpec => []ErrorsNameTheirCause
<1>1. IInv => ErrorsNameTheirCause
  BY DEF IInv, Sound, ErrorsNameTheirCause
<1>. QED  BY <1>1, InitIInv, NextIInv, PTL DEF ImportSpec

(* As long as FPL only puts deadlines off, an import answered from the     *)
(* store gives a gameweek no earlier than the one FPL named when the user  *)
(* asked (squad.service.ts:37), whatever passes, is synced or imported     *)
(* between its two queries.                                                *)
THEOREM CachedIsCurrentAlways ==
  ASSUME ~Forward
  PROVE  ImportSpec => CachedIsCurrent
<1>1. IInv /\ [ImportNext]_importVars =>
         [\A r \in Request :
             (request'[r].result = "cached" /\ request[r].result # "cached")
                 => request[r].gw >= request[r].named]_importVars
  <2>. SUFFICES ASSUME IInv, ImportNext, NEW r \in Request,
                       request'[r].result = "cached", request[r].result # "cached"
                PROVE  request[r].gw >= request[r].named
    OBVIOUS
  <2>0. request[r] \in Import /\ Sound(request[r]) /\ request \in [Request -> Import]
    BY DEF IInv
  <2>1. ASSUME NEW q \in Request, Begin(q) \/ Step(q) PROVE request[r].at = "cached"
    <3>1. q = r
      <4>1. q # r => request'[r] = request[r]
        BY <2>0, <2>1 DEF Begin, Step, FindSquad, EntryAnswers, EntryFails, PicksAnswer, PicksFail,
           GameweekExists, ResolvePlayers, Store, StoreFails, Ends, Awaits, Calls
      <4>. QED  BY <4>1
    <3>2. ASSUME NEW result \in Result \ {"cached"}, Ends(r, result) PROVE FALSE
      <4>1. request'[r] = [NoImport EXCEPT !.result = result]
        BY <2>0, <3>2 DEF Ends
      <4>2. [NoImport EXCEPT !.result = result].result = result
        BY DEF NoImport
      <4>. QED  BY <3>2, <4>1, <4>2
    <3>3. ASSUME NEW at, Awaits(r, at) PROVE FALSE
      BY <2>0, <3>3 DEF Awaits, Import
    <3>4. ASSUME NEW at, NEW gw, Calls(r, at, gw) PROVE FALSE
      BY <2>0, <3>4 DEF Calls, Import
    <3>5. CASE Begin(r)
      <4>1. request'[r] \in {[NoImport EXCEPT !.at = "entry", !.named = entered, !.asked = 1],
               [NoImport EXCEPT !.at = "cached", !.gw = LatestReadable, !.named = entered]}
        BY <2>0, <3>5 DEF Begin
      <4>2. request'[r].result = "none"
        BY <4>1 DEF NoImport
      <4>. QED  BY <4>2
    <3>6. CASE FindSquad(r)
      BY <3>6 DEF FindSquad
    <3>7. CASE EntryAnswers(r)
      BY <3>2, <3>4, <3>7 DEF EntryAnswers, Result
    <3>8. CASE EntryFails(r)
      BY <3>2, <3>8 DEF EntryFails, MapUpstream, Result
    <3>9. CASE PicksFail(r)
      BY <3>2, <3>9 DEF PicksFail, PicksError, MapUpstream, Result
    <3>10. CASE PicksAnswer(r) \/ GameweekExists(r) \/ ResolvePlayers(r) \/ Store(r) \/ StoreFails(r)
      BY <3>2, <3>3, <3>10
         DEF PicksAnswer, GameweekExists, ResolvePlayers, Store, StoreFails, Result
    <3>. QED  BY <2>1, <3>1, <3>5, <3>6, <3>7, <3>8, <3>9, <3>10 DEF Step
  <2>2. ASSUME NEW c \in Caller, NEW e \in Error, Retry(c, e) PROVE FALSE
    BY <2>0, <2>2 DEF Retry, Import, Caller
  <2>3. ~UNCHANGED request
    OBVIOUS
  <2>4. request[r].at = "cached"
    BY <2>1, <2>2, <2>3 DEF ImportNext, Tick, TurnOver, Publish, ListLate, Reschedule, StartSync, EndSync
  <2>. QED  BY <2>0, <2>4 DEF Sound
<1>. QED  BY <1>1, InitIInv, NextIInv, PTL DEF ImportSpec, CachedIsCurrent

-----------------------------------------------------------------------------
(* The calls to FPL: a call never makes more attempts than it was given,   *)
(* and an import makes two calls at most.                                  *)

Counted(r) ==
    /\ request[r].at = "entry" => request[r].asked = call[r]
    /\ request[r].at = "picks" => request[r].asked <= OnDemandAttempts + call[r]
    /\ request[r].at \notin {"entry", "picks"} =>
          call[r] = 0 /\ request[r].asked <= 2 * OnDemandAttempts
    /\ request[r].at = "cached" => request[r].asked = 0

CallInv ==
    /\ public \in 0..entered
    /\ DOMAIN call = Caller /\ \A c \in Caller : call[c] \in 0..MaxAttempts(c)
    /\ \A r \in Request : Counted(r)

LEMMA Attempts ==
  /\ OnDemandAttempts \in Nat \ {0}
  /\ \A r \in Request : r \in Caller /\ MaxAttempts(r) = OnDemandAttempts
  /\ Sync \in Caller /\ MaxAttempts(Sync) \in Nat \ {0}
  /\ \A c \in Caller : MaxAttempts(c) \in Nat \ {0}
BY ImportAssumption DEF MaxAttempts, Caller

LEMMA InitCalls == ImportInit => CallInv
<1>. SUFFICES ASSUME ImportInit PROVE CallInv
  OBVIOUS
<1>1. public \in 0..entered
  BY DEF ImportInit, NoGw
<1>2. DOMAIN call = Caller /\ \A c \in Caller : call[c] = 0
  BY DEF ImportInit
<1>3. \A r \in Request : request[r].at = "idle" /\ request[r].asked = 0
  BY DEF ImportInit, NoImport
<1>. QED  BY <1>1, <1>2, <1>3, Attempts DEF CallInv, Counted

(* A request's step, seen from its calls.                                  *)
LEMMA CallsOf ==
  ASSUME IInv, CallInv, NEW r \in Request, UNCHANGED <<public, entered>>,
         NEW n \in 0..OnDemandAttempts,
         call' = [call EXCEPT ![r] = n] \/ (call' = call /\ call[r] = n),
         \A q \in Request : q # r => request'[q] = request[q],
         Counted(r)'
  PROVE  CallInv'
<1>1. /\ DOMAIN call' = Caller /\ call'[r] = n
      /\ \A c \in Caller : c # r => call'[c] = call[c]
  BY Attempts DEF CallInv
<1>2. \A q \in Request : Counted(q)'
  BY <1>1, Attempts DEF CallInv, Counted
<1>3. \A c \in Caller : call'[c] \in 0..MaxAttempts(c)
  BY <1>1, Attempts DEF CallInv
<1>4. public' \in 0..entered'
  BY DEF CallInv
<1>. QED  BY <1>1, <1>2, <1>3, <1>4 DEF CallInv

LEMMA NextCalls == IInv /\ CallInv /\ [ImportNext]_importVars => CallInv'
<1>. SUFFICES ASSUME IInv, CallInv, [ImportNext]_importVars PROVE CallInv'
  OBVIOUS
<1>0. /\ request \in [Request -> Import] /\ entered \in 0..LastEvent /\ public \in 0..entered
      /\ DOMAIN call = Caller /\ \A c \in Caller : call[c] \in 0..MaxAttempts(c)
      /\ \A r \in Request : Counted(r)
  BY DEF IInv, WorldTyped, CallInv
<1>1. CASE Tick \/ TurnOver \/ Publish \/ ListLate \/ UNCHANGED importVars
           \/ \E g \in Event, t \in Time : Reschedule(g, t)
  <2>1. UNCHANGED <<request, call>>
    BY <1>1 DEF Tick, TurnOver, Publish, ListLate, Reschedule, importVars
  <2>2. public' \in 0..entered'
    <3>1. CASE TurnOver
      <4>1. entered' = LatestPassed /\ public' = public /\ LatestPassed \in 0..LastEvent
        BY <3>1, LatestFacts DEF TurnOver, IInv
      <4>2. entered # NoGw => entered \in Event /\ due[entered] <= now
        BY <1>0, ImportAssumption DEF IInv, Named, NoGw, Event
      <4>3. entered # NoGw => LatestPassed >= entered
        BY <4>2, LatestFacts DEF IInv
      <4>. QED  BY <1>0, <4>1, <4>3, ImportAssumption DEF NoGw
    <3>2. CASE Publish
      BY <1>0, <3>2 DEF Publish
    <3>3. CASE ~TurnOver /\ ~Publish
      BY <1>0, <1>1, <3>3 DEF Tick, ListLate, Reschedule, importVars, upstream
    <3>. QED  BY <3>1, <3>2, <3>3
  <2>. QED  BY <1>0, <2>1, <2>2 DEF CallInv, Counted
<1>2. ASSUME NEW c \in Caller, NEW e \in Error, Retry(c, e) PROVE CallInv'
  <2>1. UNCHANGED <<public, entered>> /\ call' = [call EXCEPT ![c] = call[c] + 1]
        /\ call[c] \in Nat /\ 1 <= call[c] /\ call[c] + 1 <= MaxAttempts(c)
    BY <1>0, <1>2, Attempts DEF Retry, upstream
  <2>2. CASE c = Sync
    <3>1. UNCHANGED request /\ \A r \in Request : call'[r] = call[r]
      BY <1>0, <1>2, <2>1, <2>2, Attempts, ImportAssumption DEF Retry
    <3>. QED  BY <1>0, <2>1, <2>2, <3>1, Attempts DEF CallInv, Counted
  <2>3. CASE c # Sync
    <3>1. c \in Request /\ request' = [request EXCEPT ![c].asked = request[c].asked + 1]
      BY <1>2, <2>3 DEF Retry, Caller
    <3>2. /\ request'[c].at = request[c].at /\ request'[c].asked = request[c].asked + 1
          /\ request[c].asked \in Nat
      BY <1>0, <3>1 DEF Import
    <3>3. call'[c] = call[c] + 1 /\ call[c] + 1 \in 0..OnDemandAttempts
      BY <1>0, <2>1, <3>1, Attempts
    <3>4. Counted(c)'
      <4>1. Counted(c) /\ request[c].at \in {"entry", "picks"}
        BY <1>0, <2>1, <3>1 DEF Counted
      <4>. QED  BY <2>1, <3>2, <3>3, <4>1, Attempts DEF Counted
    <3>5. \A q \in Request : q # c => request'[q] = request[q]
      BY <1>0, <3>1
    <3>. QED  BY <2>1, <3>1, <3>3, <3>4, <3>5, CallsOf
  <2>. QED  BY <2>2, <2>3
<1>3. CASE StartSync \/ EndSync
  <2>1. UNCHANGED <<public, entered, request>>
        /\ \E n \in {0, 1} : call' = [call EXCEPT ![Sync] = n]
    BY <1>3 DEF StartSync, EndSync, upstream
  <2>2. \A r \in Request : call'[r] = call[r]
    BY <1>0, <2>1, Attempts, ImportAssumption
  <2>3. DOMAIN call' = Caller /\ \A c \in Caller : call'[c] \in 0..MaxAttempts(c)
    BY <1>0, <2>1, Attempts
  <2>. QED  BY <1>0, <2>1, <2>2, <2>3 DEF CallInv, Counted
<1>4. ASSUME NEW r \in Request, Begin(r) \/ Step(r) PROVE CallInv'
  <2>1. UNCHANGED <<public, entered>>
    BY <1>4 DEF Begin, Step, FindSquad, EntryAnswers, EntryFails, PicksAnswer, PicksFail,
       GameweekExists, ResolvePlayers, Store, StoreFails, upstream
  <2>2. /\ request[r] \in Import /\ request[r].asked \in Nat /\ Counted(r)
        /\ call[r] \in 0..OnDemandAttempts
        /\ 0 \in 0..OnDemandAttempts /\ 1 \in 0..OnDemandAttempts
        /\ 2 * OnDemandAttempts \in Nat
    BY <1>0, Attempts DEF Import
  <2>3. ASSUME NEW result \in Result, Ends(r, result) PROVE CallInv'
    <3>1. request'[r].at = "idle" /\ request'[r].asked = 0 /\ call'[r] = 0
      BY <1>0, <2>3, Ended, Attempts DEF Ends
    <3>2. Counted(r)'
      BY <2>2, <3>1 DEF Counted
    <3>3. \A q \in Request : q # r => request'[q] = request[q]
      BY <1>0, <2>3 DEF Ends
    <3>4. call' = [call EXCEPT ![r] = 0]
      BY <2>3 DEF Ends
    <3>. QED  BY <2>1, <2>2, <3>2, <3>3, <3>4, CallsOf
  <2>4. ASSUME NEW at \in {"week", "players", "store"}, Awaits(r, at),
               request[r].asked <= 2 * OnDemandAttempts
        PROVE  CallInv'
    <3>1. request' = [request EXCEPT ![r].at = at] /\ call' = [call EXCEPT ![r] = 0]
      BY <2>4 DEF Awaits
    <3>2. request'[r].at = at /\ request'[r].asked = request[r].asked /\ call'[r] = 0
      BY <1>0, <2>2, <3>1, Attempts DEF Import
    <3>3. Counted(r)'
      BY <2>4, <3>2 DEF Counted
    <3>4. \A q \in Request : q # r => request'[q] = request[q]
      BY <1>0, <3>1
    <3>. QED  BY <2>1, <2>2, <3>1, <3>3, <3>4, CallsOf
  <2>5. ASSUME NEW at \in {"entry", "picks"}, NEW gw, Calls(r, at, gw),
               at = "entry" => request[r].asked = 0,
               at = "picks" => request[r].asked <= OnDemandAttempts
        PROVE  CallInv'
    <3>1. /\ request' = [request EXCEPT ![r].at = at, ![r].gw = gw,
                                        ![r].asked = request[r].asked + 1]
          /\ call' = [call EXCEPT ![r] = 1]
      BY <2>5 DEF Calls
    <3>2. request'[r].at = at /\ request'[r].asked = request[r].asked + 1 /\ call'[r] = 1
      BY <1>0, <2>2, <3>1, Attempts DEF Import
    <3>3. Counted(r)'
      BY <2>2, <2>5, <3>2, Attempts DEF Counted
    <3>4. \A q \in Request : q # r => request'[q] = request[q]
      BY <1>0, <3>1
    <3>. QED  BY <2>1, <2>2, <3>1, <3>3, <3>4, CallsOf
  <2>6. CASE Begin(r)
    <3>1. \A q \in Request : q # r => request'[q] = request[q]
      BY <1>0, <2>6 DEF Begin
    <3>2. CASE LatestReadable = NoGw
      <4>1. /\ request'[r] = [NoImport EXCEPT !.at = "entry", !.named = entered, !.asked = 1]
            /\ call' = [call EXCEPT ![r] = 1]
        BY <1>0, <2>6, <3>2 DEF Begin
      <4>2. request'[r].at = "entry" /\ request'[r].asked = 1 /\ call'[r] = 1
        BY <1>0, <4>1, AskedFirst, Attempts
      <4>3. Counted(r)'
        BY <4>2 DEF Counted
      <4>. QED  BY <2>1, <2>2, <3>1, <4>1, <4>3, CallsOf
    <3>3. CASE LatestReadable # NoGw
      <4>1. /\ request'[r] = [NoImport EXCEPT !.at = "cached", !.gw = LatestReadable,
                                              !.named = entered]
            /\ call' = call /\ request[r].at = "idle"
        BY <1>0, <2>6, <3>3 DEF Begin
      <4>2. LatestReadable \in 0..LastEvent
        BY LatestFacts DEF IInv
      <4>3. request'[r].at = "cached" /\ request'[r].asked = 0
        BY <1>0, <4>1, <4>2, NoImportTyped DEF Import
      <4>4. call[r] = 0 /\ call' = call
        BY <2>2, <4>1 DEF Counted
      <4>5. Counted(r)'
        BY <2>2, <4>1, <4>3, <4>4 DEF Counted
      <4>. QED  BY <2>1, <2>2, <3>1, <4>4, <4>5, CallsOf
    <3>. QED  BY <3>2, <3>3
  <2>7. CASE FindSquad(r)
    <3>1. request[r].asked = 0 /\ (Ends(r, "cached") \/ Calls(r, "entry", NoGw))
      BY <2>2, <2>7 DEF FindSquad, Counted
    <3>. QED  BY <2>3, <2>5, <3>1 DEF Result
  <2>8. CASE EntryAnswers(r)
    <3>1. /\ request[r].asked <= OnDemandAttempts
          /\ Ends(r, "notAvailableYet") \/ Calls(r, "picks", entered)
      BY <2>2, <2>8, Attempts DEF EntryAnswers, Counted
    <3>. QED  BY <2>3, <2>5, <3>1 DEF Result
  <2>9. CASE EntryFails(r)
    <3>1. PICK result \in {"managerNotFound", "upstreamUnavailable"} : Ends(r, result)
      BY <2>9 DEF EntryFails, MapUpstream
    <3>. QED  BY <2>3, <3>1 DEF Result
  <2>10. CASE PicksAnswer(r)
    <3>1. Awaits(r, "week") /\ request[r].asked <= 2 * OnDemandAttempts
      BY <2>2, <2>10, Attempts DEF PicksAnswer, Counted
    <3>. QED  BY <2>4, <3>1
  <2>11. CASE PicksFail(r)
    <3>1. PICK result \in {"notAvailableYet", "managerNotFound", "upstreamUnavailable"} :
             Ends(r, result)
      BY <2>11 DEF PicksFail, PicksError, MapUpstream
    <3>. QED  BY <2>3, <3>1 DEF Result
  <2>12. CASE GameweekExists(r) \/ ResolvePlayers(r)
    <3>1. request[r].asked <= 2 * OnDemandAttempts
      BY <2>2, <2>12 DEF GameweekExists, ResolvePlayers, Counted
    <3>2. \/ Ends(r, "notAvailableYet") \/ Ends(r, "unknownPlayer")
          \/ Awaits(r, "players") \/ Awaits(r, "store")
      BY <2>12 DEF GameweekExists, ResolvePlayers
    <3>. QED  BY <2>3, <2>4, <3>1, <3>2 DEF Result
  <2>13. CASE Store(r) \/ StoreFails(r)
    BY <2>3, <2>13 DEF Store, StoreFails, Result
  <2>. QED  BY <1>4, <2>6, <2>7, <2>8, <2>9, <2>10, <2>11, <2>12, <2>13 DEF Step
<1>. QED  BY <1>1, <1>2, <1>3, <1>4 DEF ImportNext

(* With one attempt on demand, as the client is built, whatever fails in   *)
(* whatever order, one import calls FPL twice at most                      *)
(* (fpl-api.client.ts:78-118).                                             *)
THEOREM UserAsksTwiceAlways ==
  ASSUME OnDemandAttempts = 1
  PROVE  ImportSpec => []UserAsksTwice
<1>1. ASSUME IInv, CallInv, NEW r \in Request PROVE request[r].asked <= 2
  <2>1. call[r] \in 0..1 /\ Counted(r) /\ request[r].asked \in Nat
    BY <1>1, Attempts DEF IInv, CallInv, Import
  <2>. QED  BY <2>1 DEF Counted
<1>2. IInv /\ CallInv => UserAsksTwice
  BY <1>1 DEF UserAsksTwice
<1>. QED  BY <1>2, InitIInv, NextIInv, InitCalls, NextCalls, PTL DEF ImportSpec

(* Type correctness of FPL, the store, the requests and their calls.       *)
THEOREM ImportTyped == ImportSpec => []ImportTypeOK
<1>1. IInv /\ CallInv => ImportTypeOK
  BY DEF IInv, WorldTyped, CallInv, ImportTypeOK, MaxAttempts
<1>. QED  BY <1>1, InitIInv, NextIInv, InitCalls, NextCalls, PTL DEF ImportSpec
=============================================================================
