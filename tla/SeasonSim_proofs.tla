-------------------------- MODULE SeasonSim_proofs --------------------------
(* Proofs about SeasonSim, for any rules, any players and any rounds.      *)
EXTENDS SeasonSim, SequenceTheorems, Counting

-----------------------------------------------------------------------------
(* The players in their order.                                             *)

(* Players in their order: all of them.                                    *)
LEMMA InOrderIsAll ==
  ASSUME NEW S, NEW c, NEW k, Of(S, c, k) \subseteq Nat, IsFiniteSet(Of(S, c, k))
  PROVE  /\ DOMAIN InOrder(S, c, k) = 1..Cardinality(Of(S, c, k))
         /\ {InOrder(S, c, k)[i] : i \in 1..Cardinality(Of(S, c, k))} = Of(S, c, k)
<1>. DEFINE T == Of(S, c, k)
            n == Cardinality(T)
            Lower(x) == {y \in T : y < x}
            nth(i) == CHOOSE x \in T : Cardinality(Lower(x)) = i - 1
<1>0. n \in Nat /\ \A x \in T : x \in Nat
  BY FS_CardinalityType
<1>1. InOrder(S, c, k) = [i \in 1..n |-> nth(i)]
  <2>1. InOrder(S, c, k) = [i \in 1..n |-> CHOOSE x \in T : Cardinality({y \in T : -y > -x \/ (-y = -x /\ y < x)}) = i - 1]
    BY DEF InOrder, Ranked, Ahead
  <2>2. \A x \in T : {y \in T : -y > -x \/ (-y = -x /\ y < x)} = Lower(x)
    <3>. TAKE x \in T
    <3>1. \A y \in T : (-y > -x \/ (-y = -x /\ y < x)) <=> y < x
      BY <1>0
    <3>. HIDE DEF T
    <3>. QED  BY <3>1
  <2>3. \A i : (CHOOSE x \in T : Cardinality({y \in T : -y > -x \/ (-y = -x /\ y < x)}) = i - 1) = nth(i)
    BY <2>2
  <2>. HIDE DEF T, nth, n
  <2>. QED  BY <2>1, <2>3
<1>. HIDE DEF T
<1>2. \A i \in 1..n : nth(i) \in T /\ Cardinality(Lower(nth(i))) = i - 1
  <2>. TAKE i \in 1..n
  <2>1. i - 1 \in Nat /\ i - 1 < n
    BY <1>0
  <2>2. \E x \in T : Cardinality(Lower(x)) = i - 1
    BY <2>1, RankIsTaken DEF T
  <2>. QED  BY <2>2
<1>3. \A x \in T : \E i \in 1..n : nth(i) = x
  <2>. TAKE x \in T
  <2>1. \A y \in T : /\ IsFiniteSet(Lower(y)) /\ Cardinality(Lower(y)) \in Nat
                     /\ Cardinality(Lower(y)) < n
    <3>. TAKE y \in T
    <3>1. IsFiniteSet(T) /\ Lower(y) \subseteq T
      BY DEF T
    <3>2. y \notin Lower(y)
      BY <1>0
    <3>. HIDE DEF Lower
    <3>. QED  BY <1>0, <3>1, <3>2, FS_Subset, FS_CardinalityType
  <2>. DEFINE i == Cardinality(Lower(x)) + 1
  <2>2. i \in 1..n
    BY <1>0, <2>1
  <2>3. \A y, z \in T : y < z => Cardinality(Lower(y)) # Cardinality(Lower(z))
    <3>. TAKE y, z \in T
    <3>1. SUFFICES ASSUME y < z PROVE Cardinality(Lower(y)) # Cardinality(Lower(z))
      OBVIOUS
    <3>2. Lower(y) \subseteq Lower(z) /\ y \in Lower(z) /\ y \notin Lower(y)
      <4>1. ~(y < y) /\ \A v \in T : v < y => v < z
        BY <1>0, <3>1
      <4>. QED  BY <3>1, <4>1
    <3>3. IsFiniteSet(Lower(z))
      BY <2>1
    <3>. HIDE DEF Lower
    <3>. QED  BY <3>2, <3>3, FS_Subset
  <2>4. nth(i) = x
    <3>1. nth(i) \in T /\ Cardinality(Lower(nth(i))) = Cardinality(Lower(x))
      <4>1. nth(i) \in T /\ Cardinality(Lower(nth(i))) = i - 1
        BY <1>2, <2>2
      <4>2. i - 1 = Cardinality(Lower(x))
        <5>1. Cardinality(Lower(x)) \in Nat
          BY <2>1
        <5>. HIDE DEF Lower
        <5>. QED  BY <5>1
      <4>. QED  BY <4>1, <4>2
    <3>. HIDE DEF nth, i, Lower
    <3>2. ~(nth(i) < x) /\ ~(x < nth(i))
      BY <2>3, <3>1
    <3>. QED  BY <1>0, <3>1, <3>2
  <2>. QED  BY <2>2, <2>4
<1>. HIDE DEF nth, n
<1>4. DOMAIN InOrder(S, c, k) = 1..n /\ \A i \in 1..n : InOrder(S, c, k)[i] = nth(i)
  BY <1>1
<1>. QED  BY <1>2, <1>3, <1>4 DEF T, n

-----------------------------------------------------------------------------
(* The programs and the rows.                                              *)

LEMMA FourPositions == Position = {"GKP", "DEF", "MID", "FWD"}
<1>1. DOMAIN PositionOrder = 1..4
  BY DEF PositionOrder
<1>2. \A i \in 1..4 : i = 1 \/ i = 2 \/ i = 3 \/ i = 4
  OBVIOUS
<1>3. Position = {PositionOrder[1], PositionOrder[2], PositionOrder[3], PositionOrder[4]}
  BY <1>1, <1>2 DEF Position, ToSet
<1>. QED  BY <1>3 DEF PositionOrder

(* Either program's squads are of the players there are, and have of each  *)
(* position as many as the rules say.                                      *)
LEMMA FifteenHasItsShape ==
  ASSUME NEW S, NEW c, NEW s \in Fifteens(S, c)
  PROVE  /\ s \subseteq S
         /\ \A k \in Position : Cardinality(Of(s, c, k)) = SquadSelect[k]
<1>1. PICK g \in kSubset(SquadSelect["GKP"], Of(S, c, "GKP")),
           d \in kSubset(SquadSelect["DEF"], Of(S, c, "DEF")),
           m \in kSubset(SquadSelect["MID"], Of(S, c, "MID")),
           f \in kSubset(SquadSelect["FWD"], Of(S, c, "FWD")) :
               s = g \cup d \cup m \cup f
  BY DEF Fifteens
<1>2. /\ g \subseteq Of(S, c, "GKP") /\ Cardinality(g) = SquadSelect["GKP"]
      /\ d \subseteq Of(S, c, "DEF") /\ Cardinality(d) = SquadSelect["DEF"]
      /\ m \subseteq Of(S, c, "MID") /\ Cardinality(m) = SquadSelect["MID"]
      /\ f \subseteq Of(S, c, "FWD") /\ Cardinality(f) = SquadSelect["FWD"]
  BY DEF kSubset
<1>3. /\ Of(s, c, "GKP") = g /\ Of(s, c, "DEF") = d
      /\ Of(s, c, "MID") = m /\ Of(s, c, "FWD") = f
  BY <1>1, <1>2 DEF Of
<1>4. s \subseteq S
  BY <1>1, <1>2 DEF Of
<1>. QED  BY <1>2, <1>3, <1>4, FourPositions

(* Every optimum is over a squad of its program.                           *)
LEMMA SolvedSquad ==
  ASSUME NEW S, NEW c, NEW a \in SolveSquad(S, c)
  PROVE  a.squad \in SquadProgram(S, c)
<1>1. PICK s \in SquadProgram(S, c) : a \in SolutionsOver(s, 0, c)
  BY DEF SolveSquad, Optima
<1>2. PICK xi \in Elevens(s, c) : \E captain, value :
         a = [squad |-> s, xi |-> xi, captain |-> captain, hits |-> 0, value |-> value]
  BY <1>1 DEF SolutionsOver
<1>. QED  BY <1>1, <1>2

LEMMA SolvedTransfers ==
  ASSUME NEW squad, NEW market, NEW c, NEW money, NEW ft, NEW most,
         NEW a \in SolveTransfers(squad, market, c, money, ft, most)
  PROVE  a.squad \in TransferProgram(squad, market, c, money, most)
<1>1. PICK s \in TransferProgram(squad, market, c, money, most) :
         a \in SolutionsOver(s, HitsOf(squad, s, ft), c)
  BY DEF SolveTransfers, Optima
<1>2. PICK xi \in Elevens(s, c) : \E captain, value :
         a = [squad |-> s, xi |-> xi, captain |-> captain, hits |-> HitsOf(squad, s, ft),
              value |-> value]
  BY <1>1 DEF SolutionsOver
<1>. QED  BY <1>1, <1>2

(* A round's rows are of players with a position, at a price.              *)
LEMMA RowsAreTyped ==
  ASSUME NEW i \in DOMAIN Rounds, NEW said \in Markets[i]
  PROVE  LET m == ByRound(said)
         IN  /\ DOMAIN m \subseteq DOMAIN Pos
             /\ \A p \in DOMAIN m : m[p].value \in Nat /\ m[p].points \in Int
<1>. DEFINE of(p) == {j \in DOMAIN said[p] : Common(said[p][j])}
            D == {q \in DOMAIN said : of(q) # {}}
            f == [p \in D |-> said[p][Max(of(p))]]
<1>1. ByRound(said) = f
  BY DEF ByRound, LastOf
<1>2. DOMAIN f = D /\ \A p \in D : f[p] = said[p][Max(of(p))]
  OBVIOUS
<1>3. \A p \in D : Max(of(p)) \in DOMAIN said[p]
  <2>. TAKE p \in D
  <2>1. PICK n \in Nat : DOMAIN said[p] = 1..n
    BY RowsAssumption
  <2>2. of(p) \subseteq 1..n /\ of(p) # {} /\ 1..n \subseteq Nat
    BY <2>1
  <2>3. IsFiniteSet(of(p))
    <3>. HIDE DEF of
    <3>. QED  BY <2>2, FS_Interval, FS_Subset
  <2>4. Max(of(p)) \in of(p)
    <3>. HIDE DEF of
    <3>. QED  BY <2>2, <2>3, MaxIsIn
  <2>. QED  BY <2>4
<1>4. DOMAIN said \subseteq DOMAIN Pos
      /\ \A p \in DOMAIN said : \A j \in DOMAIN said[p] :
            said[p][j].value \in Nat /\ said[p][j].points \in Int
  BY RowsAssumption
<1>. HIDE DEF of, f
<1>. QED  BY <1>1, <1>2, <1>3, <1>4

-----------------------------------------------------------------------------
(* The inductive invariant.                                                *)

(* Of each position as many as the rules say.                              *)
Shape(squad) == \A k \in Position : Cardinality({p \in squad : Pos[p] = k}) = SquadSelect[k]

(* Every player held has a price paid and a price last seen.               *)
SeasonInv ==
    /\ policy \in Policies
    /\ at \in Nat /\ free \in Nat /\ made \in Nat /\ paidFor \in Nat
    /\ Squadron \subseteq DOMAIN Pos /\ Squadron \subseteq DOMAIN known
    /\ \A p \in Squadron : owned[p] \in Nat
    /\ DOMAIN known \subseteq DOMAIN Pos /\ \A p \in DOMAIN known : known[p].value \in Nat
    /\ Shape(Squadron)
    /\ bank \in Nat
    /\ made - paidFor + free <= OpeningFreeTransfers + at

LEMMA HoldersAreFinite ==
  ASSUME NEW S \in SUBSET DOMAIN Pos
  PROVE  IsFiniteSet(S) /\ Cardinality(S) \in Nat /\ S \subseteq Nat
<1>1. IsFiniteSet(S)
  BY RowsAssumption, FS_Subset
<1>. QED  BY <1>1, RowsAssumption, FS_CardinalityType

(* A table that gives the players' own positions counts them as Pos does.  *)
LEMMA OfIsPos ==
  ASSUME NEW S, NEW c, \A p \in S : c[p].pos = Pos[p]
  PROVE  \A k : Of(S, c, k) = {p \in S : Pos[p] = k}
BY DEF Of

LEMMA SellIsANumber ==
  ASSUME NEW paid \in Nat, NEW price \in Nat
  PROVE  SellValue(paid, price) \in Nat /\ SellValue(price, price) = price
<1>1. CASE price <= paid
  BY <1>1 DEF SellValue
<1>2. CASE ~(price <= paid)
  <2>1. (price - paid) \div 2 \in Nat
    BY <1>2
  <2>. QED  BY <1>2, <2>1 DEF SellValue
<1>. QED  BY <1>1, <1>2

(* The squad a season opens with, and the money left.                      *)
LEMMA OpenedSquad ==
  ASSUME NEW c, DOMAIN c \subseteq DOMAIN Opening,
         \A p \in DOMAIN c : c[p].pos = Pos[p] /\ c[p].cost = Opening[p].value,
         NEW a \in SolveSquad(DOMAIN c, c)
  PROVE  /\ a.squad \subseteq DOMAIN Opening
         /\ Shape(a.squad)
         /\ SumFunction([p \in a.squad |-> Opening[p].value]) <= Budget
<1>. DEFINE s == a.squad
<1>0. s \in SquadProgram(DOMAIN c, c)
  BY SolvedSquad
<1>. HIDE DEF s
<1>1. s \in Fifteens(DOMAIN c, c) /\ SumFunction([x \in s |-> c[x].cost]) <= Budget
  BY <1>0 DEF SquadProgram, Sum
<1>2. s \subseteq DOMAIN c /\ \A k \in Position : Cardinality(Of(s, c, k)) = SquadSelect[k]
  BY <1>1, FifteenHasItsShape
<1>3. \A k : Of(s, c, k) = {p \in s : Pos[p] = k}
  BY <1>2, OfIsPos
<1>4. [x \in s |-> c[x].cost] = [x \in s |-> Opening[x].value]
  BY <1>2
<1>. QED  BY <1>1, <1>2, <1>3, <1>4 DEF Shape, s

LEMMA EveryOpening ==
  ASSUME NEW arm, NEW s \in OpeningOf(arm)
  PROVE  /\ s \subseteq DOMAIN Opening
         /\ Shape(s)
         /\ SumFunction([p \in s |-> Opening[p].value]) <= Budget
<1>. DEFINE D == {q \in DOMAIN Opening : Opening[q].club # NoClub}
            table(w) == [p \in D |-> [pos |-> Pos[p], club |-> Opening[p].club,
                                      cost |-> Opening[p].value, ep |-> w[p]]]
            points == [p \in D |-> Opening[p].points]
<1>1. \A w : /\ DOMAIN table(w) = D /\ D \subseteq DOMAIN Opening
             /\ \A p \in D : table(w)[p].pos = Pos[p] /\ table(w)[p].cost = Opening[p].value
  OBVIOUS
<1>2. \E w : \E a \in SolveSquad(D, table(w)) : s = a.squad
  <2>1. s \in OpeningSquads \/ s \in TemplateSquads \/ s \in FixedSquads
    BY DEF OpeningOf
  <2>2. CASE s \in OpeningSquads
    <3>1. \E a \in SolveSquad(D, [p \in D |-> [pos |-> Pos[p], club |-> Opening[p].club,
                                      cost |-> Opening[p].value, ep |-> Opening[p].points]]) : s = a.squad
      BY <2>2 DEF OpeningSquads, SquadsFor
    <3>2. table(points) = [p \in D |-> [pos |-> Pos[p], club |-> Opening[p].club,
                                      cost |-> Opening[p].value, ep |-> Opening[p].points]]
      OBVIOUS
    <3>. HIDE DEF table, points, D
    <3>. QED  BY <3>1, <3>2
  <2>3. CASE s \in TemplateSquads
    <3>1. \E a \in SolveSquad(D, table(Ownership)) : s = a.squad
      BY <2>3 DEF TemplateSquads, SquadsFor
    <3>. HIDE DEF table
    <3>. QED  BY <3>1
  <2>4. CASE s \in FixedSquads /\ s \notin TemplateSquads
    <3>1. \E w \in Draws : s \in SquadsFor(LAMBDA p : w[p])
      BY <2>4 DEF FixedSquads
    <3>2. PICK w \in Draws : \E a \in SolveSquad(D, table(w)) : s = a.squad
      BY <3>1 DEF SquadsFor
    <3>. HIDE DEF table
    <3>. QED  BY <3>2
  <2>. QED  BY <2>1, <2>2, <2>3, <2>4
<1>. HIDE DEF table
<1>3. PICK w : \E a \in SolveSquad(D, table(w)) : s = a.squad
  BY <1>2
<1>. QED  BY <1>1, <1>3, OpenedSquad

LEMMA SeasonInit == Init => SeasonInv
<1> SUFFICES ASSUME Init PROVE SeasonInv
  OBVIOUS
<1>1. PICK s \in OpeningOf(policy) : owned = [p \in s |-> Opening[p].value]
  BY DEF Init
<1>2. /\ Squadron = s
      /\ s \subseteq DOMAIN Opening /\ s \subseteq DOMAIN Pos
      /\ Shape(s)
      /\ SumFunction([p \in s |-> Opening[p].value]) <= Budget
      /\ \A p \in s : owned[p] = Opening[p].value /\ Opening[p].value \in Nat
  BY <1>1, EveryOpening, RowsAssumption DEF Squadron
<1>3. bank \in Nat
  <2>1. bank = Budget - SumFunction([p \in s |-> owned[p]])
    BY <1>2 DEF Init, Sum
  <2>2. [p \in s |-> owned[p]] = [p \in s |-> Opening[p].value]
    BY <1>2
  <2>. DEFINE f == [p \in s |-> Opening[p].value]
  <2>3. SumFunction(f) = SumFunctionOnSet(f, s)
    BY DEF SumFunction
  <2>4. SumFunctionOnSet(f, s) \in Int
    <3>1. IsFiniteSet(s) /\ \A p \in s : f[p] \in Int
      BY <1>2, HoldersAreFinite
    <3>. HIDE DEF f
    <3>. QED  BY <3>1, SumInt
  <2>5. Budget \in Nat
    BY RulesAssumption
  <2>. HIDE DEF f
  <2>. QED  BY <1>2, <2>1, <2>2, <2>3, <2>4, <2>5 DEF f
<1>4. /\ known = [p \in s |-> Opening[p]] /\ free = OpeningFreeTransfers
      /\ made = 0 /\ paidFor = 0 /\ at = 0 /\ policy \in Policies
  BY <1>2 DEF Init
<1>5. OpeningFreeTransfers \in {0, 1}
  BY SeasonAssumption DEF OpeningFreeTransfers
<1>. QED  BY <1>2, <1>3, <1>4, <1>5 DEF SeasonInv

-----------------------------------------------------------------------------
(* The moves of a policy.                                                  *)

(* What every policy proposes: finitely many exchanges of players held for *)
(* others with a row, of each position as many in as out, within the bank. *)
LawfulMoves(moves, rows) ==
    /\ IsFiniteSet(moves)
    /\ Outs(moves) \subseteq Squadron
    /\ Ins(moves) \subseteq DOMAIN Pos /\ Ins(moves) \cap Squadron = {}
    /\ Ins(moves) \subseteq DOMAIN rows
    /\ \A k \in Position : Cardinality({p \in Outs(moves) : Pos[p] = k})
                             = Cardinality({p \in Ins(moves) : Pos[p] = k})
    /\ BankAfter(moves, rows) \in Nat

(* The rows a deadline is decided on.                                      *)
Priced(m, rows) ==
    /\ rows = Onto(m, known)
    /\ DOMAIN m \subseteq DOMAIN Pos /\ DOMAIN m \subseteq DOMAIN rows
    /\ \A p \in DOMAIN m : m[p].points \in Int
    /\ Squadron \subseteq DOMAIN rows
    /\ DOMAIN rows \subseteq DOMAIN Pos
    /\ \A p \in DOMAIN rows : rows[p].value \in Nat

LEMMA RoundIsPriced ==
  ASSUME SeasonInv, NEW i \in DOMAIN Rounds, NEW said \in Markets[i]
  PROVE  Priced(ByRound(said), Onto(ByRound(said), known))
<1>. DEFINE m == ByRound(said)
<1>1. DOMAIN m \subseteq DOMAIN Pos
      /\ \A p \in DOMAIN m : m[p].value \in Nat /\ m[p].points \in Int
  BY RowsAreTyped
<1>. HIDE DEF m
<1>2. /\ DOMAIN Onto(m, known) = DOMAIN m \cup DOMAIN known
      /\ \A p \in DOMAIN m \cup DOMAIN known :
            Onto(m, known)[p] = IF p \in DOMAIN m THEN m[p] ELSE known[p]
  BY DEF Onto
<1>. QED  BY <1>1, <1>2 DEF SeasonInv, Priced, m

(* The money of some moves, in sums.                                       *)
LEMMA MoneyOf ==
  ASSUME SeasonInv, NEW m, NEW rows, Priced(m, rows), NEW moves,
         Outs(moves) \subseteq Squadron, Ins(moves) \subseteq DOMAIN rows
  PROVE  LET sell == [p \in Squadron |-> SellValue(owned[p], rows[p].value)]
             cost == [p \in DOMAIN rows |-> rows[p].value]
         IN  /\ BankAfter(moves, rows) = bank + SumFunctionOnSet(sell, Outs(moves)) - SumFunctionOnSet(cost, Ins(moves))
             /\ \A S \in SUBSET Squadron : IsFiniteSet(S) /\ SumFunctionOnSet(sell, S) \in Int
             /\ \A S \in SUBSET DOMAIN rows : IsFiniteSet(S) /\ SumFunctionOnSet(cost, S) \in Int
             /\ \A p \in Squadron : sell[p] \in Nat
             /\ \A p \in DOMAIN rows : cost[p] \in Nat
<1>. DEFINE sell == [p \in Squadron |-> SellValue(owned[p], rows[p].value)]
            cost == [p \in DOMAIN rows |-> rows[p].value]
            O == Outs(moves)
            N == Ins(moves)
<1>1. /\ \A p \in Squadron : owned[p] \in Nat /\ rows[p].value \in Nat
      /\ \A p \in DOMAIN rows : cost[p] \in Nat
      /\ Squadron \subseteq DOMAIN Pos /\ DOMAIN rows \subseteq DOMAIN Pos
  BY DEF SeasonInv, Priced
<1>2. \A p \in Squadron : sell[p] \in Nat
  BY <1>1, SellIsANumber
<1>3. \A S \in SUBSET Squadron : IsFiniteSet(S)
  BY <1>1, HoldersAreFinite
<1>4. \A S \in SUBSET DOMAIN rows : IsFiniteSet(S)
  BY <1>1, HoldersAreFinite
<1>5. BankAfter(moves, rows) =
          bank + SumFunction([p \in O |-> SellValue(owned[p], rows[p].value)])
               - SumFunction([p \in N |-> rows[p].value])
  BY DEF BankAfter, Sum, Price
<1>6. SumFunction([p \in O |-> SellValue(owned[p], rows[p].value)]) = SumFunctionOnSet(sell, O)
  <2>. DEFINE f == [p \in O |-> SellValue(owned[p], rows[p].value)]
  <2>1. SumFunction(f) = SumFunctionOnSet(f, O)
    BY DEF SumFunction
  <2>2. \A p \in O : f[p] = sell[p] /\ sell[p] \in Int
    BY <1>2
  <2>3. IsFiniteSet(O)
    BY <1>3
  <2>. HIDE DEF f, sell, O
  <2>4. SumFunctionOnSet(f, O) = SumFunctionOnSet(sell, O)
    BY <2>2, <2>3, SumSame
  <2>. QED  BY <2>1, <2>4 DEF f
<1>7. SumFunction([p \in N |-> rows[p].value]) = SumFunctionOnSet(cost, N)
  <2>. DEFINE f == [p \in N |-> rows[p].value]
  <2>1. SumFunction(f) = SumFunctionOnSet(f, N)
    BY DEF SumFunction
  <2>2. \A p \in N : f[p] = cost[p] /\ cost[p] \in Int
    BY <1>1
  <2>3. IsFiniteSet(N)
    BY <1>4
  <2>. HIDE DEF f, cost, N
  <2>4. SumFunctionOnSet(f, N) = SumFunctionOnSet(cost, N)
    BY <2>2, <2>3, SumSame
  <2>. QED  BY <2>1, <2>4 DEF f
<1>8. \A S \in SUBSET Squadron : SumFunctionOnSet(sell, S) \in Int
  <2>. TAKE S \in SUBSET Squadron
  <2>1. IsFiniteSet(S) /\ \A p \in S : sell[p] \in Int
    BY <1>2, <1>3
  <2>. HIDE DEF sell
  <2>. QED  BY <2>1, SumInt
<1>9. \A S \in SUBSET DOMAIN rows : SumFunctionOnSet(cost, S) \in Int
  <2>. TAKE S \in SUBSET DOMAIN rows
  <2>1. IsFiniteSet(S) /\ \A p \in S : cost[p] \in Int
    BY <1>1, <1>4
  <2>. HIDE DEF cost
  <2>. QED  BY <2>1, SumInt
<1>. HIDE DEF sell, cost, O, N
<1>10. BankAfter(moves, rows) = bank + SumFunctionOnSet(sell, O) - SumFunctionOnSet(cost, N)
  <2>. HIDE DEF O, N
  <2>. QED  BY <1>5, <1>6, <1>7
<1>. QED  BY <1>1, <1>2, <1>3, <1>4, <1>8, <1>9, <1>10 DEF sell, cost, O, N

(* Holding changes nothing.                                                *)
LEMMA HoldingIsLawful ==
  ASSUME SeasonInv, NEW m, NEW rows, Priced(m, rows)
  PROVE  LawfulMoves({}, rows)
<1>1. Outs({}) = {} /\ Ins({}) = {}
  BY DEF Outs, Ins
<1>. DEFINE sell == [p \in Squadron |-> SellValue(owned[p], rows[p].value)]
            cost == [p \in DOMAIN rows |-> rows[p].value]
<1>2. BankAfter({}, rows) = bank + SumFunctionOnSet(sell, {}) - SumFunctionOnSet(cost, {})
  BY <1>1, MoneyOf
<1>. HIDE DEF sell, cost
<1>3. SumFunctionOnSet(sell, {}) = 0 /\ SumFunctionOnSet(cost, {}) = 0
  BY SumStep, FS_EmptySet
<1>4. BankAfter({}, rows) \in Nat
  BY <1>2, <1>3 DEF SeasonInv
<1>5. \A k : {p \in Outs({}) : Pos[p] = k} = {} /\ {p \in Ins({}) : Pos[p] = k} = {}
  BY <1>1
<1>. QED  BY <1>1, <1>4, <1>5, FS_EmptySet DEF LawfulMoves

LEMMA PairsAreFinite ==
  ASSUME NEW A, NEW B, IsFiniteSet(A), IsFiniteSet(B)
  PROVE  IsFiniteSet([out : A, in : B])
<1>. DEFINE S == [out : A, in : B]
            f == [mv \in S |-> <<mv.out, mv.in>>]
<1>1. f \in [S -> A \X B]
  OBVIOUS
<1>2. \A a, b \in S : f[a] = f[b] => a = b
  <2>. TAKE a, b \in S
  <2>1. SUFFICES ASSUME f[a] = f[b] PROVE a = b
    OBVIOUS
  <2>2. a.out = b.out /\ a.in = b.in
    BY <2>1
  <2>. QED  BY <2>2
<1>3. f \in Injection(S, A \X B)
  <2>. HIDE DEF f
  <2>. QED  BY <1>1, <1>2 DEF Injection, IsInjective
<1>4. IsFiniteSet(A \X B)
  BY FS_Product
<1>. HIDE DEF f, S
<1>5. IsFiniteSet(S)
  BY <1>3, <1>4, FS_Injection
<1>. QED  BY <1>5 DEF S

(* The order of the greedy policy's moves.                                 *)
Beats(m, a, b) ==
  \/ GreedyGain(m, a) > GreedyGain(m, b)
  \/ GreedyGain(m, a) = GreedyGain(m, b)
       /\ (a.in < b.in \/ (a.in = b.in /\ a.out < b.out))

LEMMA BeatsIsAnOrder ==
  ASSUME NEW m, NEW G, \A a \in G : a \in [out : Nat, in : Nat] /\ GreedyGain(m, a) \in Int
  PROVE  /\ \A a, b \in G : a = b \/ Beats(m, a, b) \/ Beats(m, b, a)
         /\ \A a, b, c \in G : Beats(m, a, b) /\ Beats(m, b, c) => Beats(m, a, c)
<1>1. \A a \in G : a.in \in Nat /\ a.out \in Nat /\ GreedyGain(m, a) \in Int
  OBVIOUS
<1>2. \A a, b \in G : (a.in = b.in /\ a.out = b.out) => a = b
  OBVIOUS
<1>3. ASSUME NEW a \in G, NEW b \in G
      PROVE  a = b \/ Beats(m, a, b) \/ Beats(m, b, a)
  <2>. DEFINE ga == GreedyGain(m, a)
              gb == GreedyGain(m, b)
  <2>1. a.in \in Nat /\ a.out \in Nat /\ ga \in Int /\ b.in \in Nat /\ b.out \in Nat /\ gb \in Int
    BY <1>1
  <2>2. (a.in = b.in /\ a.out = b.out) => a = b
    BY <1>2
  <2>3. Beats(m, a, b) <=> (ga > gb \/ (ga = gb /\ (a.in < b.in \/ (a.in = b.in /\ a.out < b.out))))
    BY DEF Beats
  <2>4. Beats(m, b, a) <=> (gb > ga \/ (gb = ga /\ (b.in < a.in \/ (b.in = a.in /\ b.out < a.out))))
    BY DEF Beats
  <2>. HIDE DEF ga, gb
  <2>. QED  BY <2>1, <2>2, <2>3, <2>4
<1>4. ASSUME NEW a \in G, NEW b \in G, NEW c \in G, Beats(m, a, b), Beats(m, b, c)
      PROVE  Beats(m, a, c)
  <2>. DEFINE ga == GreedyGain(m, a)
              gb == GreedyGain(m, b)
              gc == GreedyGain(m, c)
  <2>1. /\ a.in \in Nat /\ a.out \in Nat /\ ga \in Int /\ b.in \in Nat /\ b.out \in Nat /\ gb \in Int
        /\ c.in \in Nat /\ c.out \in Nat /\ gc \in Int
    BY <1>1
  <2>2. ga > gb \/ (ga = gb /\ (a.in < b.in \/ (a.in = b.in /\ a.out < b.out)))
    BY <1>4 DEF Beats
  <2>3. gb > gc \/ (gb = gc /\ (b.in < c.in \/ (b.in = c.in /\ b.out < c.out)))
    BY <1>4 DEF Beats
  <2>4. Beats(m, a, c) <=> (ga > gc \/ (ga = gc /\ (a.in < c.in \/ (a.in = c.in /\ a.out < c.out))))
    BY DEF Beats
  <2>. HIDE DEF ga, gb, gc
  <2>. QED  BY <2>1, <2>2, <2>3, <2>4
<1>. QED  BY <1>3, <1>4

(* Of finitely many moves one beats every other.                           *)
LEMMA BestMoveExists ==
  ASSUME NEW m, NEW G, IsFiniteSet(G), G # {},
         \A a \in G : a \in [out : Nat, in : Nat] /\ GreedyGain(m, a) \in Int
  PROVE  \E a \in G : \A b \in G \ {a} : Beats(m, a, b)
<1>. DEFINE F == {A \in SUBSET G : A = {} \/ \E a \in A : \A b \in A \ {a} : Beats(m, a, b)}
<1>0. /\ \A a, b \in G : a = b \/ Beats(m, a, b) \/ Beats(m, b, a)
      /\ \A a, b, c \in G : Beats(m, a, b) /\ Beats(m, b, c) => Beats(m, a, c)
  BY BeatsIsAnOrder
<1>1. {} \in F
  OBVIOUS
<1>2. ASSUME NEW A \in SUBSET G, NEW x \in G \ A, A \in F PROVE A \cup {x} \in F
  <2>1. CASE A = {}
    BY <2>1
  <2>2. CASE A # {}
    <3>1. PICK a \in A : \A b \in A \ {a} : Beats(m, a, b)
      BY <1>2, <2>2
    <3>2. CASE Beats(m, a, x)
      BY <3>1, <3>2
    <3>3. CASE Beats(m, x, a)
      <4>1. \A b \in A : Beats(m, x, b)
        BY <1>0, <3>1, <3>3
      <4>. QED  BY <4>1
    <3>. QED  BY <1>0, <3>1, <3>2, <3>3
  <2>. QED  BY <2>1, <2>2
<1>. HIDE DEF F
<1>3. G \in F
  BY <1>1, <1>2, FinInd
<1>. QED  BY <1>3 DEF F

LEMMA GreedyIsLawful ==
  ASSUME SeasonInv, NEW m, NEW rows, Priced(m, rows)
  PROVE  LawfulMoves(GreedyOneFt(m, rows), rows)
<1>. DEFINE G == GreedyMoves(m, rows)
            best == CHOOSE a \in G : \A b \in G \ {a} : Beats(m, a, b)
<1>1. GreedyOneFt(m, rows) = IF free < 1 \/ G = {} THEN {} ELSE {best}
  BY DEF GreedyOneFt, Beats
<1>2. CASE free < 1 \/ G = {}
  BY <1>1, <1>2, HoldingIsLawful
<1>3. CASE ~(free < 1 \/ G = {})
  <2>0. /\ Squadron \subseteq DOMAIN Pos /\ DOMAIN m \subseteq DOMAIN Pos /\ DOMAIN Pos \subseteq Nat
        /\ IsFiniteSet(Squadron) /\ IsFiniteSet(DOMAIN m \ Squadron)
        /\ DOMAIN m \subseteq DOMAIN rows /\ \A p \in DOMAIN m : m[p].points \in Int
    <3>1. Squadron \subseteq DOMAIN Pos /\ DOMAIN m \subseteq DOMAIN Pos
      BY DEF SeasonInv, Priced
    <3>. QED  BY <3>1, RowsAssumption, HoldersAreFinite DEF Priced
  <2>1. G \subseteq [out : Squadron, in : DOMAIN m \ Squadron]
    BY DEF GreedyMoves
  <2>2. IsFiniteSet(G)
    BY <2>0, <2>1, PairsAreFinite, FS_Subset
  <2>3. \A a \in G : a \in [out : Nat, in : Nat] /\ GreedyGain(m, a) \in Int
    <3>. TAKE a \in G
    <3>1. a \in [out : Squadron, in : DOMAIN m \ Squadron]
      BY <2>1
    <3>2. a.out \in Squadron /\ a.in \in DOMAIN m /\ a \in [out : Nat, in : Nat]
      BY <2>0, <3>1
    <3>. HIDE DEF G
    <3>. QED  BY <2>0, <3>2 DEF GreedyGain
  <2>. HIDE DEF G
  <2>4. \E a \in G : \A b \in G \ {a} : Beats(m, a, b)
    BY <1>3, <2>2, <2>3, BestMoveExists
  <2>5. best \in G
    BY <2>4
  <2>. HIDE DEF best
  <2>. DEFINE o == best.out
              n == best.in
              moves == {best}
  <2>6. /\ o \in Squadron /\ n \in DOMAIN m /\ n \notin Squadron
        /\ Pos[n] = Pos[o]
        /\ bank + SellValue(owned[o], rows[o].value) >= rows[n].value
    BY <2>5 DEF G, GreedyMoves, Price
  <2>7. Outs(moves) = {o} /\ Ins(moves) = {n}
    BY DEF Outs, Ins
  <2>. HIDE DEF o, n, moves
  <2>8. \A k : {p \in {o} : Pos[p] = k} = (IF Pos[o] = k THEN {o} ELSE {})
               /\ {p \in {n} : Pos[p] = k} = (IF Pos[o] = k THEN {n} ELSE {})
    BY <2>6
  <2>9. \A k \in Position : Cardinality({p \in {o} : Pos[p] = k}) = Cardinality({p \in {n} : Pos[p] = k})
    BY <2>8, FS_Singleton
  <2>10. BankAfter(moves, rows) \in Nat
    <3>. DEFINE sell == [p \in Squadron |-> SellValue(owned[p], rows[p].value)]
                cost == [p \in DOMAIN rows |-> rows[p].value]
    <3>0. Outs(moves) \subseteq Squadron /\ Ins(moves) \subseteq DOMAIN rows
      BY <2>0, <2>6, <2>7
    <3>1. /\ BankAfter(moves, rows) = bank + SumFunctionOnSet(sell, Outs(moves)) - SumFunctionOnSet(cost, Ins(moves))
          /\ \A p \in Squadron : sell[p] \in Nat
          /\ \A p \in DOMAIN rows : cost[p] \in Nat
      BY <3>0, MoneyOf
    <3>2. sell[o] = SellValue(owned[o], rows[o].value) /\ cost[n] = rows[n].value
          /\ sell[o] \in Nat /\ cost[n] \in Nat
      BY <2>0, <2>6, <3>1
    <3>. HIDE DEF sell, cost
    <3>3. \A f : SumFunctionOnSet(f, {}) = 0
      BY SumStep, FS_EmptySet
    <3>4. SumFunctionOnSet(sell, {o}) = sell[o]
      <4>1. {} \cup {o} = {o} /\ \A y \in {} \cup {o} : sell[y] \in Int
        BY <3>2
      <4>2. SumFunctionOnSet(sell, {} \cup {o}) = sell[o] + SumFunctionOnSet(sell, {})
        BY <4>1, FS_EmptySet, SumAdd
      <4>. QED  BY <3>2, <3>3, <4>1, <4>2
    <3>5. SumFunctionOnSet(cost, {n}) = cost[n]
      <4>1. {} \cup {n} = {n} /\ \A y \in {} \cup {n} : cost[y] \in Int
        BY <3>2
      <4>2. SumFunctionOnSet(cost, {} \cup {n}) = cost[n] + SumFunctionOnSet(cost, {})
        BY <4>1, FS_EmptySet, SumAdd
      <4>. QED  BY <3>2, <3>3, <4>1, <4>2
    <3>6. BankAfter(moves, rows) = bank + sell[o] - cost[n]
      BY <2>7, <3>1, <3>4, <3>5
    <3>7. bank + sell[o] >= cost[n] /\ bank \in Nat
      BY <2>6, <3>2 DEF SeasonInv
    <3>. QED  BY <3>2, <3>6, <3>7
  <2>11. IsFiniteSet(moves)
    BY FS_Singleton DEF moves
  <2>12. LawfulMoves(moves, rows)
    BY <2>0, <2>6, <2>7, <2>9, <2>10, <2>11 DEF LawfulMoves
  <2>. QED  BY <1>1, <1>3, <2>12 DEF moves
<1>. QED  BY <1>2, <1>3

(* What a plan exchanges is what it sells for what it buys, all of it.     *)
LEMMA PairingIsAll ==
  ASSUME NEW s, NEW c,
         IsFiniteSet(Squadron \ s), IsFiniteSet(s \ Squadron),
         Squadron \ s \subseteq Nat, s \ Squadron \subseteq Nat,
         \A p \in (Squadron \ s) \cup (s \ Squadron) : c[p].pos \in Position,
         \A k \in Position : Cardinality(Of(Squadron \ s, c, k)) = Cardinality(Of(s \ Squadron, c, k))
  PROVE  /\ Outs(Pairing(s, c)) = Squadron \ s
         /\ Ins(Pairing(s, c)) = s \ Squadron
         /\ IsFiniteSet(Pairing(s, c))
<1>. DEFINE O == Squadron \ s
            N == s \ Squadron
            n(k) == Cardinality(Of(N, c, k))
            pair(k, i) == [out |-> InOrder(O, c, k)[i], in |-> InOrder(N, c, k)[i]]
<1>1. \A k \in Position :
         /\ DOMAIN InOrder(O, c, k) = 1..n(k) /\ DOMAIN InOrder(N, c, k) = 1..n(k)
         /\ {InOrder(O, c, k)[i] : i \in 1..n(k)} = Of(O, c, k)
         /\ {InOrder(N, c, k)[i] : i \in 1..n(k)} = Of(N, c, k)
  <2>. TAKE k \in Position
  <2>1. /\ Of(O, c, k) \subseteq Nat /\ IsFiniteSet(Of(O, c, k))
        /\ Of(N, c, k) \subseteq Nat /\ IsFiniteSet(Of(N, c, k))
    <3>1. Of(O, c, k) \subseteq O /\ Of(N, c, k) \subseteq N
      BY DEF Of
    <3>. QED  BY <3>1, FS_Subset
  <2>2. Cardinality(Of(O, c, k)) = n(k)
    OBVIOUS
  <2>. HIDE DEF O, N, n
  <2>. QED  BY <2>1, <2>2, InOrderIsAll DEF n
<1>2. \A mv : mv \in Pairing(s, c) <=>
              \E k \in Position : \E i \in DOMAIN InOrder(N, c, k) : mv = pair(k, i)
  <2>. DEFINE Q(k) == {pair(k, i) : i \in DOMAIN InOrder(N, c, k)}
  <2>1. Pairing(s, c) = UNION {Q(k) : k \in Position}
    BY Zenon DEF Pairing
  <2>2. \A k, mv : mv \in Q(k) <=> \E i \in DOMAIN InOrder(N, c, k) : mv = pair(k, i)
    <3>. HIDE DEF pair, N
    <3>. QED  OBVIOUS
  <2>. HIDE DEF Q, pair, N
  <2>3. \A mv : mv \in Pairing(s, c) <=> \E k \in Position : mv \in Q(k)
    BY <2>1
  <2>. QED  BY <2>2, <2>3
<1>3. \A mv : mv \in Pairing(s, c) <=> \E k \in Position : \E i \in 1..n(k) : mv = pair(k, i)
  <2>. HIDE DEF pair, n, N
  <2>. QED  BY <1>1, <1>2
<1>4. \A k, i : pair(k, i).out = InOrder(O, c, k)[i] /\ pair(k, i).in = InOrder(N, c, k)[i]
  OBVIOUS
<1>5. (\A p \in O : \E k \in Position : p \in Of(O, c, k)) /\ (\A k : Of(O, c, k) \subseteq O)
  BY DEF Of
<1>6. (\A p \in N : \E k \in Position : p \in Of(N, c, k)) /\ (\A k : Of(N, c, k) \subseteq N)
  BY DEF Of
<1>7. Pairing(s, c) \subseteq [out : O, in : N]
  <2>1. \A k \in Position : \A i \in 1..n(k) : InOrder(O, c, k)[i] \in O /\ InOrder(N, c, k)[i] \in N
    <3>. HIDE DEF O, N, n
    <3>. QED  BY <1>1, <1>5, <1>6
  <2>2. \A k \in Position : \A i \in 1..n(k) : pair(k, i) \in [out : O, in : N]
    <3>. HIDE DEF O, N, n
    <3>. QED  BY <2>1
  <2>. HIDE DEF O, N, n, pair
  <2>. QED  BY <1>3, <2>2
<1>8. IsFiniteSet(Pairing(s, c))
  <2>1. IsFiniteSet([out : O, in : N])
    BY PairsAreFinite
  <2>. QED  BY <1>7, <2>1, FS_Subset
<1>. HIDE DEF O, N, n, pair
<1>9. Outs(Pairing(s, c)) = O
  <2>1. \A mv \in Pairing(s, c) : mv.out \in O
    BY <1>7
  <2>2. \A p \in O : \E mv \in Pairing(s, c) : mv.out = p
    <3>. TAKE p \in O
    <3>1. PICK k \in Position : p \in Of(O, c, k)
      BY <1>5
    <3>2. PICK i \in 1..n(k) : InOrder(O, c, k)[i] = p
      BY <1>1, <3>1
    <3>. QED  BY <1>3, <1>4, <3>2
  <2>. QED  BY <2>1, <2>2 DEF Outs
<1>10. Ins(Pairing(s, c)) = N
  <2>1. \A mv \in Pairing(s, c) : mv.in \in N
    BY <1>7
  <2>2. \A p \in N : \E mv \in Pairing(s, c) : mv.in = p
    <3>. TAKE p \in N
    <3>1. PICK k \in Position : p \in Of(N, c, k)
      BY <1>6
    <3>2. PICK i \in 1..n(k) : InOrder(N, c, k)[i] = p
      BY <1>1, <3>1
    <3>. QED  BY <1>3, <1>4, <3>2
  <2>. QED  BY <2>1, <2>2 DEF Ins
<1>. QED  BY <1>8, <1>9, <1>10 DEF O, N

(* Two squads of one shape differ by as many of each position either way.  *)
LEMMA DifferenceIsEven ==
  ASSUME NEW S \in SUBSET DOMAIN Pos, NEW T \in SUBSET DOMAIN Pos, Shape(S), Shape(T)
  PROVE  \A k \in Position : Cardinality({p \in S \ T : Pos[p] = k})
                               = Cardinality({p \in T \ S : Pos[p] = k})
<1>. TAKE k \in Position
<1>. DEFINE A == {p \in S : Pos[p] = k}
            B == {p \in T : Pos[p] = k}
<1>1. IsFiniteSet(A) /\ IsFiniteSet(B) /\ Cardinality(A) = Cardinality(B)
  <2>1. A \in SUBSET DOMAIN Pos /\ B \in SUBSET DOMAIN Pos
    OBVIOUS
  <2>2. Cardinality(A) = SquadSelect[k] /\ Cardinality(B) = SquadSelect[k]
    BY DEF Shape
  <2>. HIDE DEF A, B
  <2>. QED  BY <2>1, <2>2, HoldersAreFinite
<1>2. {p \in S \ T : Pos[p] = k} = A \ B /\ {p \in T \ S : Pos[p] = k} = B \ A
      /\ A \cap B = B \cap A
  OBVIOUS
<1>. HIDE DEF A, B
<1>3. /\ Cardinality(A \ B) = Cardinality(A) - Cardinality(A \cap B)
      /\ Cardinality(B \ A) = Cardinality(B) - Cardinality(B \cap A)
  BY <1>1, FS_Difference
<1>. QED  BY <1>1, <1>2, <1>3

LEMMA PlannerIsLawful ==
  ASSUME SeasonInv, NEW m, NEW rows, Priced(m, rows), NEW moves \in PlannerPolicy(m, rows)
  PROVE  LawfulMoves(moves, rows)
<1>. DEFINE c == PlannerTable(m, rows)
            D == Squadron \cup {q \in DOMAIN m : m[q].club # NoClub}
            M == MaxTransfersFor(free)
<1>0. /\ DOMAIN c = D /\ D \subseteq DOMAIN rows /\ D \subseteq DOMAIN Pos
      /\ Squadron \subseteq D
      /\ \A p \in D : c[p].pos = Pos[p] /\ c[p].cost = rows[p].value
      /\ \A p \in Squadron : c[p].sell = SellValue(owned[p], rows[p].value)
  <2>1. Squadron \subseteq DOMAIN Pos
    BY DEF SeasonInv
  <2>. QED  BY <2>1 DEF Priced, PlannerTable, Price
<1>. HIDE DEF c, D, M
<1>1. PICK a \in SolveTransfers(Squadron, DOMAIN c \ Squadron, c, bank, free, M) : moves = Pairing(a.squad, c)
  BY DEF PlannerPolicy, c, M
<1>. DEFINE s == a.squad
            O == Squadron \ s
            N == s \ Squadron
<1>2. s \in TransferProgram(Squadron, DOMAIN c \ Squadron, c, bank, M)
  BY SolvedTransfers
<1>. HIDE DEF s
<1>3. s \in Fifteens(Squadron \cup (DOMAIN c \ Squadron), c) /\ BudgetRow(Squadron, s, c, bank)
  BY <1>2 DEF TransferProgram
<1>4. s \subseteq D /\ s \subseteq DOMAIN Pos /\ Squadron \subseteq DOMAIN Pos /\ Shape(s) /\ Shape(Squadron)
  <2>1. Squadron \cup (DOMAIN c \ Squadron) = D
    BY <1>0
  <2>2. s \subseteq D /\ \A k \in Position : Cardinality(Of(s, c, k)) = SquadSelect[k]
    BY <1>3, <2>1, FifteenHasItsShape
  <2>3. \A k : Of(s, c, k) = {p \in s : Pos[p] = k}
    BY <1>0, <2>2, OfIsPos
  <2>. QED  BY <1>0, <2>2, <2>3 DEF Shape, SeasonInv
<1>5. \A k \in Position : Cardinality({p \in O : Pos[p] = k}) = Cardinality({p \in N : Pos[p] = k})
  BY <1>4, DifferenceIsEven
<1>6. /\ IsFiniteSet(O) /\ IsFiniteSet(N) /\ O \subseteq Nat /\ N \subseteq Nat
      /\ O \subseteq D /\ N \subseteq D
  <2>1. O \in SUBSET DOMAIN Pos /\ N \in SUBSET DOMAIN Pos /\ O \subseteq D /\ N \subseteq D
    BY <1>0, <1>4
  <2>. HIDE DEF O, N
  <2>. QED  BY <2>1, HoldersAreFinite
<1>7. Outs(moves) = O /\ Ins(moves) = N /\ IsFiniteSet(moves)
  <2>1. \A k : Of(O, c, k) = {p \in O : Pos[p] = k} /\ Of(N, c, k) = {p \in N : Pos[p] = k}
    <3>1. (\A p \in O : c[p].pos = Pos[p]) /\ (\A p \in N : c[p].pos = Pos[p])
      BY <1>0, <1>6
    <3>. HIDE DEF O, N
    <3>. QED  BY <3>1, OfIsPos
  <2>2. \A k \in Position : Cardinality(Of(O, c, k)) = Cardinality(Of(N, c, k))
    BY <1>5, <2>1
  <2>3. \A p \in O \cup N : c[p].pos \in Position
    BY <1>0, <1>6, RowsAssumption
  <2>4. moves = Pairing(s, c)
    BY <1>1 DEF s
  <2>. QED  BY <1>6, <2>2, <2>3, <2>4, PairingIsAll
<1>8. BankAfter(moves, rows) \in Nat
  <2>. DEFINE sell == [p \in Squadron |-> SellValue(owned[p], rows[p].value)]
              cost == [p \in DOMAIN rows |-> rows[p].value]
              K == s \cap Squadron
  <2>0. Outs(moves) \subseteq Squadron /\ Ins(moves) \subseteq DOMAIN rows
    BY <1>0, <1>6, <1>7
  <2>1. /\ BankAfter(moves, rows) = bank + SumFunctionOnSet(sell, Outs(moves)) - SumFunctionOnSet(cost, Ins(moves))
        /\ \A S \in SUBSET Squadron : IsFiniteSet(S) /\ SumFunctionOnSet(sell, S) \in Int
        /\ \A S \in SUBSET DOMAIN rows : IsFiniteSet(S) /\ SumFunctionOnSet(cost, S) \in Int
        /\ \A p \in Squadron : sell[p] \in Nat
        /\ \A p \in DOMAIN rows : cost[p] \in Nat
    BY <2>0, MoneyOf
  <2>2. \A p \in Squadron : sell[p] = c[p].sell
    BY <1>0
  <2>3. \A p \in D : cost[p] = c[p].cost
    BY <1>0
  <2>. HIDE DEF sell, cost
  <2>4. SumFunction([x \in K |-> c[x].sell]) + SumFunction([x \in N |-> c[x].cost])
           <= bank + SumFunction([x \in Squadron |-> c[x].sell])
    BY <1>3 DEF BudgetRow, Sum
  <2>5. \A S \in SUBSET Squadron : SumFunction([x \in S |-> c[x].sell]) = SumFunctionOnSet(sell, S)
    <3>. TAKE S \in SUBSET Squadron
    <3>. DEFINE f == [x \in S |-> c[x].sell]
    <3>1. SumFunction(f) = SumFunctionOnSet(f, S)
      BY DEF SumFunction
    <3>2. IsFiniteSet(S) /\ \A x \in S : f[x] \in Int /\ f[x] = sell[x]
      BY <2>1, <2>2
    <3>. HIDE DEF f
    <3>3. SumFunctionOnSet(f, S) = SumFunctionOnSet(sell, S)
      BY <3>2, SumSame
    <3>. QED  BY <3>1, <3>3 DEF f
  <2>6. SumFunction([x \in N |-> c[x].cost]) = SumFunctionOnSet(cost, N)
    <3>. DEFINE f == [x \in N |-> c[x].cost]
    <3>1. SumFunction(f) = SumFunctionOnSet(f, N)
      BY DEF SumFunction
    <3>2. IsFiniteSet(N) /\ \A x \in N : f[x] \in Int /\ f[x] = cost[x]
      BY <1>0, <1>6, <2>1, <2>3
    <3>. HIDE DEF f, N
    <3>3. SumFunctionOnSet(f, N) = SumFunctionOnSet(cost, N)
      BY <3>2, SumSame
    <3>. QED  BY <3>1, <3>3 DEF f
  <2>7. SumFunctionOnSet(sell, Squadron) = SumFunctionOnSet(sell, K) + SumFunctionOnSet(sell, O)
    <3>1. K \cup O = Squadron /\ K \cap O = {} /\ K \in SUBSET Squadron /\ O \in SUBSET Squadron
      OBVIOUS
    <3>2. IsFiniteSet(K) /\ IsFiniteSet(O) /\ \A x \in K \cup O : sell[x] \in Int
      BY <2>1, <3>1
    <3>. HIDE DEF K, O
    <3>. QED  BY <3>1, <3>2, SumSplit
  <2>8. /\ K \in SUBSET Squadron /\ O \in SUBSET Squadron /\ Squadron \in SUBSET Squadron
        /\ N \in SUBSET DOMAIN rows
    BY <1>0, <1>6
  <2>. HIDE DEF K, O, N
  <2>9. SumFunctionOnSet(sell, K) \in Int /\ SumFunctionOnSet(sell, O) \in Int /\ SumFunctionOnSet(cost, N) \in Int /\ bank \in Nat
    BY <2>1, <2>8 DEF SeasonInv
  <2>10. SumFunctionOnSet(sell, K) + SumFunctionOnSet(cost, N) <= bank + SumFunctionOnSet(sell, Squadron)
    BY <2>4, <2>5, <2>6, <2>8
  <2>11. BankAfter(moves, rows) = bank + SumFunctionOnSet(sell, O) - SumFunctionOnSet(cost, N)
    BY <1>7, <2>1
  <2>. QED  BY <2>7, <2>9, <2>10, <2>11
<1>. QED
  <2>1. /\ O \subseteq Squadron /\ N \cap Squadron = {} /\ N \subseteq DOMAIN Pos
        /\ N \subseteq DOMAIN rows
    BY <1>0, <1>6
  <2>. HIDE DEF O, N
  <2>. QED  BY <1>5, <1>7, <1>8, <2>1 DEF LawfulMoves

(* Whatever the policy.                                                    *)
LEMMA PoliciesAreLawful ==
  ASSUME SeasonInv, NEW m, NEW rows, Priced(m, rows), NEW moves \in Decide(m, rows),
         policy \notin {"held", "replay"}
  PROVE  LawfulMoves(moves, rows)
<1>1. policy \in {"no-transfer", "greedy-1ft", "planner"}
  BY SeasonAssumption DEF SeasonInv
<1>2. CASE policy = "no-transfer"
  BY <1>2, HoldingIsLawful DEF Decide
<1>3. CASE policy = "greedy-1ft"
  BY <1>3, GreedyIsLawful DEF Decide
<1>4. CASE policy = "planner"
  BY <1>4, PlannerIsLawful DEF Decide
<1>. QED  BY <1>1, <1>2, <1>3, <1>4

-----------------------------------------------------------------------------
(* The round.                                                              *)

LEMMA MaxOfTwo ==
  ASSUME NEW x \in Int, NEW y \in Int
  PROVE  /\ Max({x, y}) = IF x >= y THEN x ELSE y
         /\ Min({x, y}) = IF x <= y THEN x ELSE y
<1>1. Max({x, y}) = CHOOSE z \in {x, y} : \A w \in {x, y} : z >= w
  BY DEF Max
<1>2. Min({x, y}) = CHOOSE z \in {x, y} : \A w \in {x, y} : z <= w
  BY DEF Min
<1>. QED  BY <1>1, <1>2

(* The squad after its moves: its shape, and the money in it.              *)
LEMMA MovesMade ==
  ASSUME SeasonInv, NEW m, NEW rows, Priced(m, rows), NEW moves, LawfulMoves(moves, rows)
  PROVE  LET squad == AfterMoves(moves, rows)
         IN  /\ DOMAIN squad \subseteq DOMAIN Pos /\ DOMAIN squad \subseteq DOMAIN rows
             /\ \A p \in DOMAIN squad : squad[p] \in Nat
             /\ Shape(DOMAIN squad)
             /\ BankAfter(moves, rows) + Sells(squad, rows) = bank + Sells(owned, rows)
<1>. DEFINE squad == AfterMoves(moves, rows)
            O == Outs(moves)
            N == Ins(moves)
            K == Squadron \ O
            sell == [p \in Squadron |-> SellValue(owned[p], rows[p].value)]
            cost == [p \in DOMAIN rows |-> rows[p].value]
<1>1. /\ O \subseteq Squadron /\ N \subseteq DOMAIN Pos /\ N \cap Squadron = {}
      /\ N \subseteq DOMAIN rows
      /\ \A k \in Position : Cardinality({p \in O : Pos[p] = k}) = Cardinality({p \in N : Pos[p] = k})
  BY DEF LawfulMoves
<1>2. /\ DOMAIN squad = K \cup N
      /\ \A p \in K \cup N : squad[p] = IF p \in Squadron THEN owned[p] ELSE rows[p].value
  BY DEF AfterMoves, Price
<1>. HIDE DEF squad, O, N
<1>3. /\ Squadron \subseteq DOMAIN Pos /\ Squadron \subseteq DOMAIN rows
      /\ \A p \in Squadron : owned[p] \in Nat
      /\ \A p \in DOMAIN rows : rows[p].value \in Nat
      /\ Shape(Squadron)
  BY DEF SeasonInv, Priced
<1>4. (\A p \in K : squad[p] = owned[p]) /\ (\A p \in N : squad[p] = rows[p].value)
  BY <1>1, <1>2
<1>5. Shape(K \cup N)
  <2>. SUFFICES ASSUME NEW k \in Position
                PROVE  Cardinality({p \in K \cup N : Pos[p] = k}) = SquadSelect[k]
    BY DEF Shape
  <2>. DEFINE A == {p \in Squadron : Pos[p] = k}
              B == {p \in O : Pos[p] = k}
              C == {p \in N : Pos[p] = k}
  <2>1. {p \in K \cup N : Pos[p] = k} = (A \ B) \cup C /\ A \cap B = B /\ (A \ B) \cap C = {}
    BY <1>1
  <2>2. IsFiniteSet(A) /\ IsFiniteSet(B) /\ IsFiniteSet(C)
    <3>1. A \in SUBSET DOMAIN Pos /\ B \in SUBSET DOMAIN Pos /\ C \in SUBSET DOMAIN Pos
      BY <1>1, <1>3
    <3>. HIDE DEF A, B, C
    <3>. QED  BY <3>1, HoldersAreFinite
  <2>3. Cardinality(A) = SquadSelect[k] /\ Cardinality(B) = Cardinality(C)
    BY <1>1, <1>3 DEF Shape
  <2>. HIDE DEF A, B, C
  <2>4. IsFiniteSet(A \ B) /\ Cardinality(A \ B) = Cardinality(A) - Cardinality(B)
    BY <2>1, <2>2, FS_Difference
  <2>5. Cardinality((A \ B) \cup C) = Cardinality(A \ B) + Cardinality(C) - Cardinality({})
    BY <2>1, <2>2, <2>4, FS_Union
  <2>6. Cardinality(A) \in Nat /\ Cardinality(B) \in Nat /\ Cardinality({}) = 0
    BY <2>2, FS_CardinalityType, FS_EmptySet
  <2>7. Cardinality((A \ B) \cup C) = SquadSelect[k]
    BY <2>3, <2>4, <2>5, <2>6
  <2>. QED  BY <2>1, <2>7
<1>6. BankAfter(moves, rows) + Sells(squad, rows) = bank + Sells(owned, rows)
  <2>1. /\ BankAfter(moves, rows) = bank + SumFunctionOnSet(sell, O) - SumFunctionOnSet(cost, N)
        /\ \A S \in SUBSET Squadron : IsFiniteSet(S) /\ SumFunctionOnSet(sell, S) \in Int
        /\ \A S \in SUBSET DOMAIN rows : IsFiniteSet(S) /\ SumFunctionOnSet(cost, S) \in Int
        /\ \A p \in Squadron : sell[p] \in Nat
        /\ \A p \in DOMAIN rows : cost[p] \in Nat
    BY <1>1, MoneyOf DEF O, N
  <2>2. Sells(owned, rows) = SumFunctionOnSet(sell, Squadron)
    BY DEF Sells, Sum, Squadron, Price, SumFunction
  <2>. DEFINE f == [p \in K \cup N |-> SellValue(squad[p], rows[p].value)]
  <2>3. Sells(squad, rows) = SumFunctionOnSet(f, K \cup N)
    BY <1>2 DEF Sells, Sum, Price, SumFunction
  <2>4. /\ \A p \in K : f[p] = sell[p]
        /\ \A p \in N : f[p] = cost[p]
    <3>1. \A p \in K : f[p] = SellValue(owned[p], rows[p].value)
      BY <1>4
    <3>2. \A p \in N : f[p] = SellValue(rows[p].value, rows[p].value)
      BY <1>4
    <3>3. \A p \in N : SellValue(rows[p].value, rows[p].value) = rows[p].value
      BY <1>1, <1>3, SellIsANumber
    <3>. HIDE DEF f
    <3>. QED  BY <1>1, <3>1, <3>2, <3>3
  <2>5. K \in SUBSET Squadron /\ O \in SUBSET Squadron /\ N \in SUBSET DOMAIN rows
        /\ K \cap N = {} /\ K \cap O = {} /\ K \cup O = Squadron
    BY <1>1
  <2>. HIDE DEF f, sell, cost, K
  <2>6. /\ IsFiniteSet(K) /\ IsFiniteSet(O) /\ IsFiniteSet(N)
        /\ \A p \in K : sell[p] \in Int /\ f[p] \in Int
        /\ \A p \in O : sell[p] \in Int
        /\ \A p \in N : cost[p] \in Int /\ f[p] \in Int
    BY <2>1, <2>4, <2>5
  <2>7. SumFunctionOnSet(f, K \cup N) = SumFunctionOnSet(f, K) + SumFunctionOnSet(f, N)
    BY <2>5, <2>6, SumSplit
  <2>8. SumFunctionOnSet(f, K) = SumFunctionOnSet(sell, K)
    BY <2>4, <2>6, SumSame
  <2>9. SumFunctionOnSet(f, N) = SumFunctionOnSet(cost, N)
    BY <2>4, <2>6, SumSame
  <2>10. SumFunctionOnSet(sell, Squadron) = SumFunctionOnSet(sell, K) + SumFunctionOnSet(sell, O)
    BY <2>5, <2>6, SumSplit
  <2>11. SumFunctionOnSet(sell, K) \in Int /\ SumFunctionOnSet(sell, O) \in Int /\ SumFunctionOnSet(cost, N) \in Int /\ bank \in Int
    BY <2>1, <2>5 DEF SeasonInv
  <2>12. /\ Sells(squad, rows) = SumFunctionOnSet(sell, K) + SumFunctionOnSet(cost, N)
         /\ Sells(owned, rows) = SumFunctionOnSet(sell, K) + SumFunctionOnSet(sell, O)
    BY <2>2, <2>3, <2>7, <2>8, <2>9, <2>10
  <2>. QED  BY <2>1, <2>11, <2>12
<1>7. /\ DOMAIN squad \subseteq DOMAIN Pos /\ DOMAIN squad \subseteq DOMAIN rows
      /\ \A p \in DOMAIN squad : squad[p] \in Nat
  BY <1>1, <1>2, <1>3, <1>4
<1>. QED  BY <1>2, <1>5, <1>6, <1>7 DEF squad

(* A round walked under a policy.                                          *)
LEMMA RoundPlayed ==
  ASSUME SeasonInv, NEW said \in Markets[at + 1], at + 1 \in DOMAIN Rounds, PlayRound(said)
  PROVE  /\ SeasonInv'
         /\ bank' + Sells(owned', known') = bank + Sells(owned, known')
<1>. DEFINE m == ByRound(said)
            rows == Onto(m, known)
<1>1. PICK moves \in Decide(m, rows) :
         /\ owned' = AfterMoves(moves, rows)
         /\ bank' = BankAfter(moves, rows)
         /\ free' = GrantFreeTransfer(FreeLeft(free, moves))
         /\ known' = rows
         /\ made' = made + Cardinality(moves)
         /\ paidFor' = paidFor + Max({0, Cardinality(moves) - free})
         /\ at' = at + 1
         /\ policy' = policy
  BY DEF PlayRound
<1>2. policy \notin {"held", "replay"}
  BY DEF PlayRound
<1>3. Priced(m, rows)
  BY RoundIsPriced
<1>. HIDE DEF m, rows
<1>4. LawfulMoves(moves, rows)
  BY <1>2, <1>3, PoliciesAreLawful
<1>5. LET squad == AfterMoves(moves, rows)
      IN  /\ DOMAIN squad \subseteq DOMAIN Pos /\ DOMAIN squad \subseteq DOMAIN rows
          /\ \A p \in DOMAIN squad : squad[p] \in Nat
          /\ Shape(DOMAIN squad)
          /\ BankAfter(moves, rows) + Sells(squad, rows) = bank + Sells(owned, rows)
  BY <1>3, <1>4, MovesMade
<1>6. bank' \in Nat
  BY <1>1, <1>4 DEF LawfulMoves
<1>7. DOMAIN rows \subseteq DOMAIN Pos /\ \A p \in DOMAIN rows : rows[p].value \in Nat
  BY <1>3 DEF Priced
<1>8. /\ free' \in Nat /\ made' \in Nat /\ paidFor' \in Nat
      /\ made' - paidFor' + free' <= OpeningFreeTransfers + at'
  <2>. DEFINE n == Cardinality(moves)
              spent == Max({0, free - n})
              over == Max({0, n - free})
              granted == Min({spent + 1, FreeTransferCap})
  <2>1. n \in Nat
    BY <1>4, FS_CardinalityType DEF LawfulMoves
  <2>2. /\ free \in Nat /\ made \in Nat /\ paidFor \in Nat /\ at \in Nat
        /\ made - paidFor + free <= OpeningFreeTransfers + at
        /\ OpeningFreeTransfers \in Nat /\ FreeTransferCap \in Nat
    BY RulesAssumption DEF SeasonInv, OpeningFreeTransfers
  <2>3. free' = granted /\ made' = made + n /\ paidFor' = paidFor + over
    BY <1>1 DEF GrantFreeTransfer, FreeLeft
  <2>. HIDE DEF n
  <2>4. /\ spent = IF 0 >= free - n THEN 0 ELSE free - n
        /\ over = IF 0 >= n - free THEN 0 ELSE n - free
    BY <2>1, <2>2, MaxOfTwo
  <2>. HIDE DEF spent, over
  <2>5. spent \in Nat /\ over \in Nat
    BY <2>1, <2>2, <2>4
  <2>6. granted = IF spent + 1 <= FreeTransferCap THEN spent + 1 ELSE FreeTransferCap
    <3>1. spent + 1 \in Int /\ FreeTransferCap \in Int
      BY <2>2, <2>5
    <3>. QED  BY <3>1, MaxOfTwo
  <2>. HIDE DEF granted
  <2>. QED  BY <1>1, <2>1, <2>2, <2>3, <2>4, <2>5, <2>6
<1>9. policy' \in Policies /\ at' \in Nat
  BY <1>1 DEF SeasonInv
<1>10. SeasonInv'
  <2>1. DOMAIN owned' = DOMAIN AfterMoves(moves, rows)
    BY <1>1
  <2>. QED  BY <1>1, <1>5, <1>6, <1>7, <1>8, <1>9 DEF SeasonInv, Squadron, Shape, OpeningFreeTransfers
<1>. QED  BY <1>1, <1>5, <1>10

(* A round in which the opening squad is held.                             *)
LEMMA RoundHeld ==
  ASSUME SeasonInv, NEW said, HoldRound(said) \/ ReplayRound(said)
  PROVE  SeasonInv' /\ UNCHANGED <<owned, bank, known>>
<1>1. at' = at + 1 /\ UNCHANGED <<policy, owned, bank, free, known, made, paidFor>>
  BY DEF HoldRound, ReplayRound, Hold
<1>. QED  BY <1>1 DEF SeasonInv, Squadron, Shape, OpeningFreeTransfers

LEMMA SeasonStep == SeasonInv /\ [Next]_vars =>
                      /\ SeasonInv'
                      /\ [bank' + Sells(owned', known') = bank + Sells(owned, known')]_vars
<1>. SUFFICES ASSUME SeasonInv, [Next]_vars
              PROVE  /\ SeasonInv'
                     /\ [bank' + Sells(owned', known') = bank + Sells(owned, known')]_vars
  OBVIOUS
<1>1. CASE UNCHANGED vars
  BY <1>1 DEF SeasonInv, Squadron, Shape, OpeningFreeTransfers, vars
<1>2. ASSUME NEW said \in Markets[at + 1], at < Len(Rounds), PlayRound(said)
      PROVE  /\ SeasonInv'
             /\ bank' + Sells(owned', known') = bank + Sells(owned, known')
  <2>1. at + 1 \in DOMAIN Rounds
    BY <1>2, SeasonAssumption DEF SeasonInv
  <2>. QED  BY <1>2, <2>1, RoundPlayed
<1>3. ASSUME NEW said, HoldRound(said) \/ ReplayRound(said)
      PROVE  /\ SeasonInv'
             /\ bank' + Sells(owned', known') = bank + Sells(owned, known')
  <2>1. SeasonInv' /\ owned' = owned /\ bank' = bank /\ known' = known
    BY <1>3, RoundHeld
  <2>. QED  BY <2>1
<1>. QED  BY <1>1, <1>2, <1>3 DEF Next

-----------------------------------------------------------------------------
(* The theorems.                                                           *)

LEMMA SeasonRuns == Spec => []SeasonInv
<1>1. SeasonInv /\ [Next]_vars => SeasonInv'
  BY SeasonStep
<1>. QED  BY SeasonInit, <1>1, PTL DEF Spec

(* Whatever rows a round lacks and whatever policy trades, the fifteen     *)
(* keeps as many of each position as the rules say and the bank is never   *)
(* overdrawn (season-sim.ts:47).                                           *)
THEOREM SquadKeepsItsShapeAlways == Spec => []SquadKeepsItsShape
<1>1. SeasonInv => SquadKeepsItsShape
  <2>. SUFFICES ASSUME SeasonInv PROVE SquadKeepsItsShape
    OBVIOUS
  <2>1. \A k \in Position : Cardinality({p \in Squadron : Pos[p] = k}) = SquadSelect[k]
    BY DEF SeasonInv, Shape
  <2>2. bank >= 0
    BY DEF SeasonInv
  <2>. QED  BY <2>1, <2>2 DEF SquadKeepsItsShape
<1>. QED  BY SeasonRuns, <1>1, PTL

(* The transfers made beyond those granted, one a round up to the cap,     *)
(* were all paid for (season-sim.ts:439,465,563).                          *)
THEOREM ExtraTransfersAlwaysPaid == Spec => []ExtraTransfersArePaid
<1>1. SeasonInv => ExtraTransfersArePaid
  BY DEF SeasonInv, ExtraTransfersArePaid
<1>. QED  BY SeasonRuns, <1>1, PTL

(* No transfer makes money (season-sim.ts:446): at the round's prices bank *)
(* and resale together are what they were before it.                       *)
THEOREM TransfersMakeNoMoneyEver == Spec => TransfersMakeNoMoney
<1>1. SeasonInv /\ [Next]_vars
        => [bank' + Sells(owned', known') = bank + Sells(owned, known')]_vars
  BY SeasonStep
<1>. QED  BY SeasonRuns, <1>1, PTL DEF Spec, TransfersMakeNoMoney

-----------------------------------------------------------------------------
(* Substitutions.                                                          *)

Swapped(F, off, on) == (F \ {off}) \cup {on}

(* A swap moves one player from a position to another.                     *)
LEMMA SwapCounts ==
  ASSUME NEW F, IsFiniteSet(F), NEW t, NEW off \in F, NEW on, on \notin F
  PROVE  /\ IsFiniteSet(Swapped(F, off, on))
         /\ Cardinality(Swapped(F, off, on)) = Cardinality(F)
         /\ \A k : /\ Cardinality(Of(F, t, k)) \in Nat
                   /\ Cardinality(Of(Swapped(F, off, on), t, k))
                        = Cardinality(Of(F, t, k)) - (IF t[off].pos = k THEN 1 ELSE 0)
                                                   + (IF t[on].pos = k THEN 1 ELSE 0)
<1>1. /\ IsFiniteSet(F \ {off}) /\ Cardinality(F \ {off}) = Cardinality(F) - 1
      /\ Cardinality(F) \in Nat
  BY FS_RemoveElement, FS_CardinalityType
<1>2. /\ IsFiniteSet(Swapped(F, off, on))
      /\ Cardinality(Swapped(F, off, on)) = Cardinality(F \ {off}) + 1
  BY <1>1, FS_AddElement DEF Swapped
<1>3. ASSUME NEW k
      PROVE  /\ Cardinality(Of(F, t, k)) \in Nat
             /\ Cardinality(Of(Swapped(F, off, on), t, k))
                  = Cardinality(Of(F, t, k)) - (IF t[off].pos = k THEN 1 ELSE 0)
                                             + (IF t[on].pos = k THEN 1 ELSE 0)
  <2>. DEFINE A == Of(F, t, k)
              B == Of(F \ {off}, t, k)
              C == Of(Swapped(F, off, on), t, k)
  <2>1. IsFiniteSet(A) /\ IsFiniteSet(B) /\ Cardinality(A) \in Nat /\ Cardinality(B) \in Nat
    <3>1. A \subseteq F /\ B \subseteq F
      BY DEF Of
    <3>. HIDE DEF A, B
    <3>. QED  BY <3>1, FS_Subset, FS_CardinalityType
  <2>2. Cardinality(B) = Cardinality(A) - (IF t[off].pos = k THEN 1 ELSE 0)
    <3>1. CASE t[off].pos = k
      <4>1. off \in A /\ B = A \ {off}
        BY <3>1 DEF Of
      <4>. HIDE DEF A, B
      <4>2. Cardinality(B) = Cardinality(A) - 1
        BY <2>1, <4>1, FS_RemoveElement
      <4>. QED  BY <3>1, <4>2
    <3>2. CASE t[off].pos # k
      <4>1. B = A
        BY <3>2 DEF Of
      <4>. HIDE DEF A, B
      <4>. QED  BY <2>1, <3>2, <4>1
    <3>. QED  BY <3>1, <3>2
  <2>3. Cardinality(C) = Cardinality(B) + (IF t[on].pos = k THEN 1 ELSE 0)
    <3>1. CASE t[on].pos = k
      <4>1. on \notin B /\ C = B \cup {on}
        BY <3>1 DEF Of, Swapped
      <4>. HIDE DEF B, C
      <4>2. Cardinality(C) = Cardinality(B) + 1
        BY <2>1, <4>1, FS_AddElement
      <4>. QED  BY <3>1, <4>2
    <3>2. CASE t[on].pos # k
      <4>1. C = B
        BY <3>2 DEF Of, Swapped
      <4>. HIDE DEF B, C
      <4>. QED  BY <2>1, <3>2, <4>1
    <3>. QED  BY <3>1, <3>2
  <2>. HIDE DEF A, B, C
  <2>4. /\ Cardinality(A) \in Nat
        /\ Cardinality(C) = Cardinality(A) - (IF t[off].pos = k THEN 1 ELSE 0) + (IF t[on].pos = k THEN 1 ELSE 0)
    BY <2>1, <2>2, <2>3
  <2>. QED  BY <2>4 DEF A, C
<1>4. \A k : /\ Cardinality(Of(F, t, k)) \in Nat
             /\ Cardinality(Of(Swapped(F, off, on), t, k))
                  = Cardinality(Of(F, t, k)) - (IF t[off].pos = k THEN 1 ELSE 0)
                                             + (IF t[on].pos = k THEN 1 ELSE 0)
  BY <1>3
<1>. QED  BY <1>1, <1>2, <1>4

(* A swap within the rules is of one position, or from one that has more   *)
(* than its minimum to one that has less than its maximum.                 *)
LEMMA SwapIsLegal ==
  ASSUME NEW F, IsFiniteSet(F), NEW t, LegalFormation(F, t),
         NEW off \in F, NEW on, on \notin F, t[off].pos \in Position, t[on].pos \in Position
  PROVE  LET n(k) == Cardinality(Of(F, t, k))
             a == t[off].pos
             b == t[on].pos
         IN  LegalFormation(Swapped(F, off, on), t) <=> (a = b \/ (n(a) > MinPlay[a] /\ n(b) < MaxPlay[b]))
<1>. DEFINE n(k) == Cardinality(Of(F, t, k))
            m(k) == Cardinality(Of(Swapped(F, off, on), t, k))
            a == t[off].pos
            b == t[on].pos
<1>1. \A k \in Position : /\ n(k) \in MinPlay[k]..MaxPlay[k] /\ MinPlay[k] \in Nat /\ MaxPlay[k] \in Nat
                          /\ n(k) \in Nat
  BY SwapCounts, RulesAssumption DEF LegalFormation
<1>2. \A k : m(k) = n(k) - (IF a = k THEN 1 ELSE 0) + (IF b = k THEN 1 ELSE 0)
  BY SwapCounts
<1>3. LegalFormation(Swapped(F, off, on), t) <=> \A k \in Position : m(k) \in MinPlay[k]..MaxPlay[k]
  BY SwapCounts DEF LegalFormation
<1>4. a \in Position /\ b \in Position
  OBVIOUS
<1>. HIDE DEF n, m, a, b
<1>5. ASSUME a = b \/ (n(a) > MinPlay[a] /\ n(b) < MaxPlay[b]), NEW k \in Position
      PROVE  m(k) \in MinPlay[k]..MaxPlay[k]
  <2>1. CASE a = b
    BY <1>1, <1>2, <2>1
  <2>2. CASE a # b /\ n(a) > MinPlay[a] /\ n(b) < MaxPlay[b]
    <3>1. CASE k = a
      BY <1>1, <1>2, <2>2, <3>1
    <3>2. CASE k = b
      BY <1>1, <1>2, <2>2, <3>2
    <3>3. CASE k # a /\ k # b
      BY <1>1, <1>2, <3>3
    <3>. QED  BY <3>1, <3>2, <3>3
  <2>. QED  BY <1>5, <2>1, <2>2
<1>6. ASSUME \A k \in Position : m(k) \in MinPlay[k]..MaxPlay[k], a # b
      PROVE  n(a) > MinPlay[a] /\ n(b) < MaxPlay[b]
  <2>1. m(a) = n(a) - 1 /\ m(b) = n(b) + 1
    BY <1>1, <1>2, <1>4, <1>6
  <2>2. m(a) >= MinPlay[a] /\ m(b) <= MaxPlay[b]
    BY <1>4, <1>6
  <2>. QED  BY <1>1, <1>4, <2>1, <2>2
<1>7. LegalFormation(Swapped(F, off, on), t) <=> (a = b \/ (n(a) > MinPlay[a] /\ n(b) < MaxPlay[b]))
  BY <1>3, <1>5, <1>6
<1>. QED  BY <1>7 DEF n, a, b

(* A starter for whom neither of two substitutes could come on is not      *)
(* helped by one of the two coming on for another.                         *)
LEMMA StaysIllegal ==
  ASSUME NEW F, IsFiniteSet(F), NEW t, LegalFormation(F, t),
         NEW x \in F, NEW off \in F, x # off,
         NEW y, NEW on, y \notin F, on \notin F, y # on,
         \A z \in {x, off, y, on} : t[z].pos \in Position,
         LegalFormation(Swapped(F, off, on), t),
         ~LegalFormation(Swapped(F, x, y), t), ~LegalFormation(Swapped(F, x, on), t)
  PROVE  ~LegalFormation(Swapped(Swapped(F, off, on), x, y), t)
<1>. DEFINE n(k) == Cardinality(Of(F, t, k))
            m(k) == Cardinality(Of(Swapped(F, off, on), t, k))
            a == t[x].pos
            b == t[y].pos
            c == t[off].pos
            d == t[on].pos
<1>1. /\ \A k \in Position : /\ n(k) \in MinPlay[k]..MaxPlay[k] /\ MinPlay[k] \in Nat /\ MaxPlay[k] \in Nat
                             /\ n(k) \in Nat
      /\ a \in Position /\ b \in Position /\ c \in Position /\ d \in Position
  BY SwapCounts, RulesAssumption DEF LegalFormation
<1>2. \A k : m(k) = n(k) - (IF c = k THEN 1 ELSE 0) + (IF d = k THEN 1 ELSE 0)
  BY SwapCounts
<1>3. a # b /\ (n(a) <= MinPlay[a] \/ n(b) >= MaxPlay[b])
  <2>1. ~(a = b \/ (n(a) > MinPlay[a] /\ n(b) < MaxPlay[b]))
    BY SwapIsLegal
  <2>. HIDE DEF n, a, b
  <2>. QED  BY <1>1, <2>1
<1>4. a # d /\ (n(a) <= MinPlay[a] \/ n(d) >= MaxPlay[d])
  <2>1. ~(a = d \/ (n(a) > MinPlay[a] /\ n(d) < MaxPlay[d]))
    BY SwapIsLegal
  <2>. HIDE DEF n, a, d
  <2>. QED  BY <1>1, <2>1
<1>5. c = d \/ (n(c) > MinPlay[c] /\ n(d) < MaxPlay[d])
  BY SwapIsLegal
<1>6. LegalFormation(Swapped(Swapped(F, off, on), x, y), t) <=> (a = b \/ (m(a) > MinPlay[a] /\ m(b) < MaxPlay[b]))
  <2>1. /\ IsFiniteSet(Swapped(F, off, on)) /\ x \in Swapped(F, off, on) /\ y \notin Swapped(F, off, on)
    BY SwapCounts DEF Swapped
  <2>. QED  BY <2>1, SwapIsLegal
<1>. HIDE DEF n, m, a, b, c, d
<1>7. ~(m(a) > MinPlay[a] /\ m(b) < MaxPlay[b])
  <2>1. CASE n(a) <= MinPlay[a]
    <3>1. m(a) <= n(a)
      BY <1>1, <1>2, <1>4
    <3>2. m(a) \in Int
      BY <1>1, <1>2
    <3>. QED  BY <1>1, <2>1, <3>1, <3>2
  <2>2. CASE ~(n(a) <= MinPlay[a])
    <3>1. n(d) >= MaxPlay[d] /\ n(b) >= MaxPlay[b]
      BY <1>3, <1>4, <2>2
    <3>2. c = d
      BY <1>1, <1>5, <3>1
    <3>3. m(b) = n(b)
      BY <1>1, <1>2, <3>2
    <3>. QED  BY <1>1, <3>1, <3>3
  <2>. QED  BY <2>1, <2>2
<1>. QED  BY <1>3, <1>6, <1>7

(* Whether a substitute may come on for a starter.                         *)
Fits(acc, off, on, t) ==
  on \notin acc.used /\ t[on].minutes # 0 /\ LegalFormation(Swapped(acc.fielded, off, on), t)

(* What a turn of the loop may leave.                                      *)
Outcome(r, acc, off, bench, t) ==
  \/ r = acc /\ \A on \in ToSet(bench) : ~Fits(acc, off, on, t)
  \/ \E on \in ToSet(bench) :
        /\ Fits(acc, off, on, t)
        /\ r.fielded = Swapped(acc.fielded, off, on)
        /\ r.used = acc.used \cup {on}

LEMMA SubstituteDoes ==
  ASSUME NEW acc, NEW off, NEW U, NEW bench \in Seq(U), NEW t
  PROVE  Outcome(Substitute(acc, off, bench, t), acc, off, bench, t)
<1>. DEFINE fits(on) == /\ on \notin acc.used
                        /\ t[on].minutes # 0
                        /\ LegalFormation((acc.fielded \ {off}) \cup {on}, t)
            I == {j \in 1..Len(bench) : fits(bench[j])}
            i == IF I # {} THEN Min(I) ELSE 0
<1>1. Substitute(acc, off, bench, t) =
        IF i = 0 THEN acc
        ELSE [fielded |-> (acc.fielded \ {off}) \cup {bench[i]},
              used    |-> acc.used \cup {bench[i]},
              subs    |-> Append(acc.subs, [off |-> off, on |-> bench[i]])]
  BY DEF Substitute, SelectInSeq
<1>2. \A on : fits(on) <=> Fits(acc, off, on, t)
  BY DEF Fits, Swapped
<1>3. ToSet(bench) = {bench[j] : j \in 1..Len(bench)}
  BY DEF ToSet
<1>4. CASE I = {}
  <2>1. \A on \in ToSet(bench) : ~Fits(acc, off, on, t)
    BY <1>2, <1>3, <1>4
  <2>. QED  BY <1>1, <1>4, <2>1 DEF Outcome
<1>5. CASE I # {}
  <2>1. i \in I
    <3>1. I \in SUBSET Nat /\ I # {}
      BY <1>5
    <3>. HIDE DEF I
    <3>2. \E x \in I : \A y \in I : x <= y
      BY <3>1, LeastNat
    <3>. QED  BY <1>5, <3>2 DEF Min
  <2>2. i # 0 /\ bench[i] \in ToSet(bench) /\ Fits(acc, off, bench[i], t)
    <3>1. i \in 1..Len(bench) /\ fits(bench[i])
      BY <2>1
    <3>2. Len(bench) \in Nat
      OBVIOUS
    <3>. HIDE DEF i, I, fits
    <3>. QED  BY <1>2, <1>3, <3>1, <3>2
  <2>. HIDE DEF i, I, fits
  <2>3. Substitute(acc, off, bench, t) = [fielded |-> (acc.fielded \ {off}) \cup {bench[i]},
              used    |-> acc.used \cup {bench[i]},
              subs    |-> Append(acc.subs, [off |-> off, on |-> bench[i]])]
    BY <1>1, <2>2
  <2>. QED  BY <2>2, <2>3 DEF Swapped, Outcome
<1>. QED  BY <1>4, <1>5

(* A lineup of a squad: a legal eleven with the armbands, the others on    *)
(* the bench.                                                              *)
LineupOf(l, U, t) ==
    /\ l.starters \in Seq(U) /\ l.bench \in Seq(U)
    /\ ToSet(l.starters) \cup ToSet(l.bench) = U
    /\ ToSet(l.starters) \cap ToSet(l.bench) = {}
    /\ LegalFormation(ToSet(l.starters), t)
    /\ l.captain \in ToSet(l.starters) /\ l.vice \in ToSet(l.starters)

(* After i starters: who left had no minutes, who came on has; and for     *)
(* none of the i who stayed without minutes can anybody come on.           *)
PlayedInv(acc, i, l, U, t) ==
    /\ acc.fielded \subseteq U /\ LegalFormation(acc.fielded, t)
    /\ acc.used \subseteq acc.fielded /\ acc.used \subseteq ToSet(l.bench)
    /\ \A x \in acc.used : t[x].minutes # 0
    /\ acc.fielded \subseteq ToSet(l.starters) \cup acc.used
    /\ \A x \in ToSet(l.starters) \ acc.fielded : t[x].minutes = 0
    /\ \A j \in 1..i : (t[l.starters[j]].minutes = 0 /\ l.starters[j] \in acc.fielded)
                          => \A on \in ToSet(l.bench) : ~Fits(acc, l.starters[j], on, t)

LEMMA PlayedStep ==
  ASSUME NEW U, IsFiniteSet(U), NEW t, \A x \in U : t[x].pos \in Position,
         NEW l, LineupOf(l, U, t), NEW i \in 1..Len(l.starters),
         NEW acc, PlayedInv(acc, i - 1, l, U, t)
  PROVE  PlayedInv(IF t[l.starters[i]].minutes = 0 THEN Substitute(acc, l.starters[i], l.bench, t) ELSE acc,
                   i, l, U, t)
<1>. DEFINE s == l.starters
            B == ToSet(l.bench)
            X == ToSet(l.starters)
            off == s[i]
            new == Substitute(acc, off, l.bench, t)
            Still(a, j) == (t[s[j]].minutes = 0 /\ s[j] \in a.fielded) => \A on \in B : ~Fits(a, s[j], on, t)
<1>0. /\ s \in Seq(U) /\ l.bench \in Seq(U) /\ X \cup B = U /\ X \cap B = {}
      /\ \A j \in 1..Len(s) : s[j] \in X
      /\ i \in Nat /\ (\A j \in 1..i : j \in 1..Len(s)) /\ \A j \in 1..i : j = i \/ j \in 1..(i - 1)
  <2>1. s \in Seq(U) /\ l.bench \in Seq(U) /\ X \cup B = U /\ X \cap B = {}
    BY DEF LineupOf
  <2>2. Len(s) \in Nat /\ DOMAIN s = 1..Len(s)
    BY <2>1
  <2>3. \A j \in 1..Len(s) : s[j] \in X
    BY <2>2 DEF ToSet
  <2>4. i \in Nat /\ (\A j \in 1..i : j \in 1..Len(s)) /\ \A j \in 1..i : j = i \/ j \in 1..(i - 1)
    BY <2>2
  <2>. QED  BY <2>1, <2>3, <2>4
<1>1. /\ acc.fielded \subseteq U /\ LegalFormation(acc.fielded, t)
      /\ acc.used \subseteq acc.fielded /\ acc.used \subseteq B
      /\ \A x \in acc.used : t[x].minutes # 0
      /\ acc.fielded \subseteq X \cup acc.used
      /\ \A x \in X \ acc.fielded : t[x].minutes = 0
      /\ \A j \in 1..(i - 1) : Still(acc, j)
  BY DEF PlayedInv
<1>2. ASSUME Still(acc, i) PROVE PlayedInv(acc, i, l, U, t)
  <2>1. \A j \in 1..i : Still(acc, j)
    BY <1>0, <1>1, <1>2
  <2>. QED  BY <1>1, <2>1 DEF PlayedInv
<1>3. ASSUME t[off].minutes # 0 PROVE PlayedInv(acc, i, l, U, t)
  BY <1>2, <1>3
<1>4. ASSUME \A on \in B : ~Fits(acc, off, on, t) PROVE PlayedInv(acc, i, l, U, t)
  BY <1>2, <1>4
<1>5. ASSUME t[off].minutes = 0, NEW on \in B, Fits(acc, off, on, t),
             new.fielded = Swapped(acc.fielded, off, on), new.used = acc.used \cup {on}
      PROVE  PlayedInv(new, i, l, U, t)
  <2>. DEFINE F == acc.fielded
  <2>. HIDE DEF new, s, X, B
  <2>1. on \notin acc.used /\ t[on].minutes # 0 /\ LegalFormation(Swapped(F, off, on), t)
    BY <1>5 DEF Fits
  <2>2. off \in X /\ off \in U /\ on \in U /\ on \notin X /\ on \notin F /\ off \notin acc.used /\ on # off
    BY <1>0, <1>1, <1>5, <2>1
  <2>3. IsFiniteSet(F)
    BY <1>1, FS_Subset
  <2>4. off \in F
    <3>1. SUFFICES ASSUME off \notin F PROVE FALSE
      OBVIOUS
    <3>2. Swapped(F, off, on) = F \cup {on}
      BY <3>1 DEF Swapped
    <3>3. Cardinality(F \cup {on}) = Cardinality(F) + 1
      BY <2>2, <2>3, FS_AddElement
    <3>4. Cardinality(F) = XiSize /\ Cardinality(F \cup {on}) = XiSize /\ XiSize \in Nat
      BY <1>1, <2>1, <3>2, RulesAssumption DEF LegalFormation
    <3>. QED  BY <3>3, <3>4
  <2>5. /\ new.fielded \subseteq U /\ LegalFormation(new.fielded, t)
        /\ new.used \subseteq new.fielded /\ new.used \subseteq B
        /\ \A x \in new.used : t[x].minutes # 0
        /\ new.fielded \subseteq X \cup new.used
        /\ \A x \in X \ new.fielded : t[x].minutes = 0
    BY <1>1, <1>5, <2>1, <2>2 DEF Swapped
  <2>6. ASSUME NEW j \in 1..i, t[s[j]].minutes = 0, s[j] \in new.fielded, NEW y \in B, Fits(new, s[j], y, t)
        PROVE  FALSE
    <3>. DEFINE x == s[j]
    <3>1. x \in X
      BY <1>0
    <3>2. x \in F /\ x # off
      BY <1>5, <2>2, <2>6, <3>1 DEF Swapped
    <3>3. j \in 1..(i - 1)
      BY <1>0, <3>2
    <3>4. ~Fits(acc, x, y, t) /\ ~Fits(acc, x, on, t)
      BY <1>1, <1>5, <2>6, <3>2, <3>3
    <3>5. y \notin acc.used /\ y # on /\ t[y].minutes # 0 /\ LegalFormation(Swapped(Swapped(F, off, on), x, y), t)
      BY <1>5, <2>6 DEF Fits
    <3>. HIDE DEF x
    <3>6. ~LegalFormation(Swapped(F, x, y), t) /\ ~LegalFormation(Swapped(F, x, on), t)
      BY <2>1, <3>4, <3>5 DEF Fits
    <3>7. y \notin F /\ \A z \in {x, off, y, on} : t[z].pos \in Position
      BY <1>0, <1>1, <2>2, <2>6, <3>1, <3>5
    <3>. QED  BY <1>1, <2>1, <2>2, <2>3, <2>4, <3>2, <3>5, <3>6, <3>7, StaysIllegal
  <2>7. \A j \in 1..i : Still(new, j)
    BY <2>6
  <2>. QED  BY <2>5, <2>7 DEF PlayedInv, s, X, B
<1>6. \/ new = acc /\ \A on \in B : ~Fits(acc, off, on, t)
      \/ \E on \in B : /\ Fits(acc, off, on, t)
                       /\ new.fielded = Swapped(acc.fielded, off, on)
                       /\ new.used = acc.used \cup {on}
  <2>1. l.bench \in Seq(U)
    BY <1>0
  <2>2. Outcome(new, acc, off, l.bench, t)
    <3>. HIDE DEF off
    <3>. QED  BY <2>1, SubstituteDoes
  <2>. QED  BY <2>2 DEF Outcome
<1>. HIDE DEF new
<1>7. PlayedInv(IF t[off].minutes = 0 THEN new ELSE acc, i, l, U, t)
  BY <1>3, <1>4, <1>5, <1>6
<1>. QED  BY <1>7 DEF new

(* The loop runs to its end, and its invariant holds there.                *)
LEMMA WhatIsPlayed ==
  ASSUME NEW U, IsFiniteSet(U), NEW t, \A x \in U : t[x].pos \in Position,
         NEW l, LineupOf(l, U, t)
  PROVE  PlayedInv(PlayedOut(l, t), Len(l.starters), l, U, t)
<1>. DEFINE n == Len(l.starters)
            base == [fielded |-> ToSet(l.starters), used |-> {}, subs |-> <<>>]
            St(a, i) == IF t[l.starters[i]].minutes = 0
                        THEN Substitute(a, l.starters[i], l.bench, t) ELSE a
            Run(g, k) == g = [i \in 0..k |-> IF i = 0 THEN base ELSE St(g[i - 1], i)]
            K == {k \in Nat : \E g : Run(g, k)}
            run == CHOOSE g : Run(g, n)
            H == {k \in Nat : k <= n => PlayedInv(run[k], k, l, U, t)}
<1>0. n \in Nat /\ l.starters \in Seq(U)
  BY DEF LineupOf
<1>1. PlayedOut(l, t) = run[n]
  BY DEF PlayedOut
<1>2. PlayedInv(base, 0, l, U, t)
  <2>1. ToSet(l.starters) \subseteq U /\ LegalFormation(ToSet(l.starters), t)
    BY DEF LineupOf
  <2>. QED  BY <2>1 DEF PlayedInv
<1>3. ASSUME NEW i \in 1..n, NEW a, PlayedInv(a, i - 1, l, U, t) PROVE PlayedInv(St(a, i), i, l, U, t)
  BY <1>3, PlayedStep
<1>. HIDE DEF n, base, St
<1>4. 0 \in K
  <2>1. Run([i \in 0..0 |-> base], 0)
    OBVIOUS
  <2>. QED  BY <2>1
<1>5. ASSUME NEW k \in Nat, k \in K PROVE k + 1 \in K
  <2>1. PICK g : g = [i \in 0..k |-> IF i = 0 THEN base ELSE St(g[i - 1], i)]
    BY <1>5
  <2>. DEFINE h == [i \in 0..(k + 1) |-> IF i = k + 1 THEN St(g[k], k + 1) ELSE g[i]]
              e == [i \in 0..(k + 1) |-> IF i = 0 THEN base ELSE St(h[i - 1], i)]
  <2>2. ASSUME NEW i \in 0..(k + 1) PROVE h[i] = e[i]
    <3>1. CASE i = k + 1
      <4>1. h[k] = g[k] /\ h[i] = St(g[k], k + 1) /\ e[i] = St(h[k], k + 1)
        BY <3>1
      <4>. QED  BY <4>1
    <3>2. CASE i # k + 1 /\ i # 0
      <4>1. i \in 0..k /\ i - 1 \in 0..k /\ i - 1 \in 0..(k + 1) /\ i - 1 # k + 1 /\ i \in 0..(k + 1)
        BY <3>2
      <4>2. h[i - 1] = g[i - 1] /\ h[i] = g[i]
        BY <3>2, <4>1
      <4>3. e[i] = St(h[i - 1], i)
        BY <3>2
      <4>4. g[i] = St(g[i - 1], i)
        BY <2>1, <3>2, <4>1
      <4>. QED  BY <4>2, <4>3, <4>4
    <3>3. CASE i = 0 /\ i # k + 1
      <4>1. h[i] = g[i] /\ e[i] = base
        BY <3>3
      <4>2. g[0] = base
        BY <2>1
      <4>. QED  BY <3>3, <4>1, <4>2
    <3>. QED  BY <3>1, <3>2, <3>3
  <2>3. h = e
    BY <2>2
  <2>4. Run(h, k + 1)
    BY <2>3
  <2>5. k + 1 \in Nat
    OBVIOUS
  <2>. HIDE DEF h, e, Run
  <2>. QED  BY <2>4, <2>5
<1>. HIDE DEF K
<1>6. \A k \in Nat : k \in K
  BY <1>4, <1>5, NatInd
<1>7. Run(run, n)
  BY <1>0, <1>6 DEF K
<1>. HIDE DEF run
<1>8. run[0] = base /\ \A i \in 1..n : run[i] = St(run[i - 1], i)
  BY <1>0, <1>7
<1>9. 0 \in H
  BY <1>2, <1>8
<1>10. ASSUME NEW k \in Nat, k \in H PROVE k + 1 \in H
  <2>1. SUFFICES ASSUME k + 1 <= n PROVE PlayedInv(run[k + 1], k + 1, l, U, t)
    OBVIOUS
  <2>2. k + 1 \in 1..n /\ k <= n /\ (k + 1) - 1 = k
    BY <1>0, <2>1
  <2>3. PlayedInv(run[k], k, l, U, t)
    BY <1>10, <2>2
  <2>4. PlayedInv(St(run[k], k + 1), k + 1, l, U, t)
    BY <1>3, <2>2, <2>3
  <2>5. run[k + 1] = St(run[k], k + 1)
    BY <1>8, <2>2
  <2>. QED  BY <2>4, <2>5
<1>. HIDE DEF H
<1>11. \A k \in Nat : k \in H
  BY <1>9, <1>10, NatInd
<1>12. PlayedInv(run[n], n, l, U, t)
  BY <1>0, <1>11 DEF H
<1>. QED  BY <1>1, <1>12 DEF n

(* The eleven left on the pitch is legal, and no substitution is left to   *)
(* make.                                                                   *)
LEMMA PlayedIsComplete ==
  ASSUME NEW U, IsFiniteSet(U), NEW t, \A x \in U : t[x].pos \in Position,
         \A x \in U : t[x].minutes \in Nat, NEW l, LineupOf(l, U, t)
  PROVE  LET F == PlayedOut(l, t).fielded
         IN  /\ F \subseteq U /\ LegalFormation(F, t)
             /\ \A x \in ToSet(l.starters) \ F : t[x].minutes = 0
             /\ \A off \in F, on \in U \ F :
                   (t[off].minutes = 0 /\ t[on].minutes > 0) => ~LegalFormation((F \ {off}) \cup {on}, t)
<1>. DEFINE acc == PlayedOut(l, t)
            F == acc.fielded
            X == ToSet(l.starters)
            B == ToSet(l.bench)
<1>1. PlayedInv(acc, Len(l.starters), l, U, t)
  BY WhatIsPlayed
<1>. HIDE DEF acc
<1>2. /\ F \subseteq U /\ LegalFormation(F, t)
      /\ acc.used \subseteq F /\ acc.used \subseteq B
      /\ \A x \in acc.used : t[x].minutes # 0
      /\ F \subseteq X \cup acc.used
      /\ \A x \in X \ F : t[x].minutes = 0
      /\ \A j \in 1..Len(l.starters) : (t[l.starters[j]].minutes = 0 /\ l.starters[j] \in F)
                          => \A on \in B : ~Fits(acc, l.starters[j], on, t)
  BY <1>1 DEF PlayedInv
<1>3. X \cup B = U /\ X = {l.starters[j] : j \in 1..Len(l.starters)}
  BY DEF LineupOf, ToSet
<1>4. ASSUME NEW off \in F, NEW on \in U \ F, t[off].minutes = 0, t[on].minutes > 0
      PROVE  ~LegalFormation((F \ {off}) \cup {on}, t)
  <2>. HIDE DEF X, B
  <2>1. off \in X
    BY <1>2, <1>4
  <2>2. PICK j \in 1..Len(l.starters) : off = l.starters[j]
    BY <1>3, <2>1
  <2>3. t[on].minutes # 0 /\ on \in B /\ on \notin acc.used
    BY <1>2, <1>3, <1>4
  <2>4. ~Fits(acc, off, on, t)
    BY <1>2, <1>4, <2>2, <2>3
  <2>. QED  BY <2>3, <2>4 DEF Fits, Swapped
<1>. QED  BY <1>2, <1>4 DEF acc

-----------------------------------------------------------------------------
(* Lists.                                                                  *)

LEMMA ListsJoined ==
  ASSUME NEW S, NEW u \in Seq(S), NEW v \in Seq(S)
  PROVE  u \o v \in Seq(S) /\ ToSet(u \o v) = ToSet(u) \cup ToSet(v)
<1>1. /\ u \o v \in Seq(S)
      /\ Len(u \o v) = Len(u) + Len(v)
      /\ \A i \in 1..Len(u) + Len(v) : (u \o v)[i] = IF i <= Len(u) THEN u[i] ELSE v[i - Len(u)]
  BY ConcatProperties
<1>2. /\ Len(u) \in Nat /\ Len(v) \in Nat
      /\ ToSet(u) = {u[i] : i \in 1..Len(u)} /\ ToSet(v) = {v[i] : i \in 1..Len(v)}
      /\ ToSet(u \o v) = {(u \o v)[i] : i \in 1..Len(u) + Len(v)}
  BY <1>1 DEF ToSet
<1>3. ASSUME NEW x \in ToSet(u \o v) PROVE x \in ToSet(u) \cup ToSet(v)
  <2>1. PICK i \in 1..Len(u) + Len(v) : x = (u \o v)[i]
    BY <1>2
  <2>2. CASE i <= Len(u)
    BY <1>1, <1>2, <2>1, <2>2
  <2>3. CASE ~(i <= Len(u))
    <3>1. i - Len(u) \in 1..Len(v) /\ x = v[i - Len(u)]
      BY <1>1, <1>2, <2>1, <2>3
    <3>. QED  BY <1>2, <3>1
  <2>. QED  BY <2>2, <2>3
<1>4. ASSUME NEW x \in ToSet(u) PROVE x \in ToSet(u \o v)
  <2>1. PICK i \in 1..Len(u) : x = u[i]
    BY <1>2
  <2>2. i \in 1..Len(u) + Len(v) /\ x = (u \o v)[i]
    BY <1>1, <1>2, <2>1
  <2>. QED  BY <1>2, <2>2
<1>5. ASSUME NEW x \in ToSet(v) PROVE x \in ToSet(u \o v)
  <2>1. PICK i \in 1..Len(v) : x = v[i]
    BY <1>2
  <2>2. i + Len(u) \in 1..Len(u) + Len(v) /\ ~(i + Len(u) <= Len(u)) /\ (i + Len(u)) - Len(u) = i
    BY <1>2, <2>1
  <2>3. (u \o v)[i + Len(u)] = x
    BY <1>1, <2>1, <2>2
  <2>. QED  BY <1>2, <2>2, <2>3
<1>. QED  BY <1>1, <1>3, <1>4, <1>5

(* SetToSeq lists a finite set.                                            *)
LEMMA SetIsListed ==
  ASSUME NEW S, IsFiniteSet(S)
  PROVE  SetToSeq(S) \in Seq(S) /\ ToSet(SetToSeq(S)) = S
<1>. DEFINE n == Cardinality(S)
            q == SetToSeq(S)
<1>0. n \in Nat /\ IsFiniteSet(1..n) /\ Cardinality(1..n) = n
  <2>1. n \in Nat
    BY FS_CardinalityType
  <2>2. 1 \in Int /\ n \in Int /\ (n - 1) + 1 = n /\ (1 > n => n = 0)
    BY <2>1
  <2>. HIDE DEF n
  <2>. QED  BY <2>1, <2>2, FS_Interval
<1>1. \E g : g \in [1..n -> S] /\ IsInjective(g)
  <2>1. PICK k \in Nat : ExistsBijection(1..k, S)
    BY FS_NatBijection
  <2>2. n = k
    BY <2>1, FS_CountingElements
  <2>3. PICK g : g \in Bijection(1..n, S)
    BY <2>1, <2>2 DEF ExistsBijection
  <2>. QED  BY <2>3 DEF Bijection, Injection
<1>2. q = CHOOSE g \in [1..n -> S] : IsInjective(g)
  BY DEF SetToSeq
<1>3. q \in [1..n -> S] /\ IsInjective(q)
  BY <1>1, <1>2
<1>. HIDE DEF n, q
<1>4. q \in Surjection(1..n, S)
  <2>1. q \in Injection(1..n, S)
    BY <1>3 DEF Injection
  <2>2. Cardinality(1..n) = Cardinality(S)
    BY <1>0 DEF n
  <2>. QED  BY <2>1, <2>2, FS_Injection
<1>5. ToSet(q) = S
  BY <1>3, <1>4 DEF Surjection, ToSet
<1>6. q \in Seq(S)
  BY <1>0, <1>3
<1>. QED  BY <1>5, <1>6 DEF q

(* A ranking as a list, and its first n.                                   *)
Listed(T, f) == [i \in 1..Cardinality(T) |-> Nth(T, f, i)]

LEMMA RankingIsAList ==
  ASSUME NEW T \in SUBSET Nat, IsFiniteSet(T), NEW f, \A x \in T : f[x] \in Int
  PROVE  /\ Listed(T, f) \in Seq(T) /\ Len(Listed(T, f)) = Cardinality(T) /\ ToSet(Listed(T, f)) = T
         /\ \A n \in 0..Cardinality(T) :
               /\ SubSeq(Listed(T, f), 1, n) \in Seq(T)
               /\ ToSet(SubSeq(Listed(T, f), 1, n)) = {Nth(T, f, i) : i \in 1..n}
<1>. DEFINE N == Cardinality(T)
            r == Listed(T, f)
<1>0. N \in Nat
  BY FS_CardinalityType
<1>1. /\ \A i \in 1..N : Nth(T, f, i) \in T
      /\ \A x \in T : \E i \in 1..N : Nth(T, f, i) = x
  BY RanksAreAll
<1>2. r = [i \in 1..N |-> Nth(T, f, i)]
  BY DEF Listed
<1>. HIDE DEF N, r
<1>3. r \in Seq(T) /\ Len(r) = N /\ DOMAIN r = 1..N /\ \A i \in 1..N : r[i] = Nth(T, f, i)
  BY <1>0, <1>1, <1>2
<1>4. ToSet(r) = T
  <2>1. ToSet(r) = {r[i] : i \in 1..N}
    BY <1>3 DEF ToSet
  <2>2. ToSet(r) = {Nth(T, f, i) : i \in 1..N}
    BY <1>3, <2>1
  <2>. QED  BY <1>1, <2>2
<1>5. ASSUME NEW n \in 0..N
      PROVE  SubSeq(r, 1, n) \in Seq(T) /\ ToSet(SubSeq(r, 1, n)) = {Nth(T, f, i) : i \in 1..n}
  <2>. DEFINE q == SubSeq(r, 1, n)
  <2>0. n \in Nat /\ \A i \in 1..n : i \in 1..N
    BY <1>0
  <2>1. \A i \in 1..n : r[i] \in T
    BY <1>1, <1>3, <2>0
  <2>2. /\ q \in Seq(T)
        /\ Len(q) = IF 1 <= n THEN n - 1 + 1 ELSE 0
        /\ \A i \in 1..(n - 1 + 1) : q[i] = r[1 + i - 1]
    BY <2>0, <2>1, SubSeqProperties
  <2>. HIDE DEF q
  <2>3. Len(q) = n /\ \A i \in 1..n : q[i] = Nth(T, f, i)
    <3>1. n - 1 + 1 = n /\ (1 <= n \/ n = 0) /\ \A i \in 1..n : 1 + i - 1 = i
      BY <2>0
    <3>. QED  BY <1>3, <2>0, <2>2, <3>1
  <2>4. ToSet(q) = {Nth(T, f, i) : i \in 1..n}
    <3>1. DOMAIN q = 1..n
      BY <2>2, <2>3
    <3>. QED  BY <2>3, <3>1 DEF ToSet
  <2>. QED  BY <2>2, <2>4 DEF q
<1>. QED  BY <1>3, <1>4, <1>5 DEF N, r

(* The three scores that players are ranked by.                            *)
LEMMA RankedByPredicted ==
  ASSUME NEW T, NEW t, NEW f, \A x \in T : f[x] = t[x].predicted
  PROVE  Ranked(T, LAMBDA x : t[x].predicted) = Listed(T, f)
<1>1. \A x \in T : {y \in T : Ahead(y, x, LAMBDA z : t[z].predicted)} = Leading(T, f, x)
  BY DEF Ahead, Leading
<1>2. \A i : (CHOOSE x \in T : Cardinality({y \in T : Ahead(y, x, LAMBDA z : t[z].predicted)}) = i - 1) = Nth(T, f, i)
  BY <1>1 DEF Nth
<1>. QED  BY <1>2 DEF Ranked, Listed

LEMMA RankedByWeight ==
  ASSUME NEW T, NEW t, NEW f, \A x \in T : f[x] = t[x].predicted * t[x].pPlay
  PROVE  Ranked(T, LAMBDA x : t[x].predicted * t[x].pPlay) = Listed(T, f)
<1>1. \A x \in T : {y \in T : Ahead(y, x, LAMBDA z : t[z].predicted * t[z].pPlay)} = Leading(T, f, x)
  BY DEF Ahead, Leading
<1>2. \A i : (CHOOSE x \in T : Cardinality({y \in T : Ahead(y, x, LAMBDA z : t[z].predicted * t[z].pPlay)}) = i - 1) = Nth(T, f, i)
  BY <1>1 DEF Nth
<1>. QED  BY <1>2 DEF Ranked, Listed

LEMMA RankedByActual ==
  ASSUME NEW T, NEW t, NEW f, \A x \in T : f[x] = t[x].actual
  PROVE  Ranked(T, LAMBDA x : t[x].actual) = Listed(T, f)
<1>1. \A x \in T : {y \in T : Ahead(y, x, LAMBDA z : t[z].actual)} = Leading(T, f, x)
  BY DEF Ahead, Leading
<1>2. \A i : (CHOOSE x \in T : Cardinality({y \in T : Ahead(y, x, LAMBDA z : t[z].actual)}) = i - 1) = Nth(T, f, i)
  BY <1>1 DEF Nth
<1>. QED  BY <1>2 DEF Ranked, Listed

-----------------------------------------------------------------------------
(* Formations and elevens.                                                 *)

(* The shapes an eleven may have.                                          *)
LEMMA ShapeOfAFormation ==
  ASSUME NEW S, NEW t, NEW n \in Formations(S, t)
  PROVE  /\ n["GKP"] = 1
         /\ n["DEF"] \in MinPlay["DEF"]..MaxPlay["DEF"]
         /\ n["MID"] \in MinPlay["MID"]..MaxPlay["MID"]
         /\ n["FWD"] \in MinPlay["FWD"]..MaxPlay["FWD"]
         /\ n["FWD"] = XiSize - 1 - n["DEF"] - n["MID"]
         /\ \A k \in Position : n[k] \in Nat /\ n[k] <= Cardinality(Of(S, t, k))
         /\ \A o \in Formations(S, t) : (o["DEF"] = n["DEF"] /\ o["MID"] = n["MID"]) => o = n
<1>. DEFINE shape(d, m) == [p \in Position |-> CASE p = "GKP" -> 1 [] p = "DEF" -> d [] p = "MID" -> m
                                                 [] p = "FWD" -> XiSize - 1 - d - m]
            X == {shape(d, m) : d \in MinPlay["DEF"]..MaxPlay["DEF"], m \in MinPlay["MID"]..MaxPlay["MID"]}
            Stands(f) == /\ f["FWD"] \in MinPlay["FWD"]..MaxPlay["FWD"]
                         /\ \A p \in Position : f[p] <= Cardinality(Of(S, t, p))
<1>1. Formations(S, t) = {f \in X : Stands(f)}
  BY DEF Formations
<1>2. \A d, m : /\ shape(d, m)["GKP"] = 1 /\ shape(d, m)["DEF"] = d /\ shape(d, m)["MID"] = m
                /\ shape(d, m)["FWD"] = XiSize - 1 - d - m
  BY FourPositions
<1>. HIDE DEF shape, Stands
<1>3. \A o \in Formations(S, t) : /\ Stands(o) /\ o = shape(o["DEF"], o["MID"])
                                  /\ o["DEF"] \in MinPlay["DEF"]..MaxPlay["DEF"]
                                  /\ o["MID"] \in MinPlay["MID"]..MaxPlay["MID"]
  <2>. TAKE o \in Formations(S, t)
  <2>1. o \in X /\ Stands(o)
    <3>. HIDE DEF X
    <3>. QED  BY <1>1
  <2>2. PICK d \in MinPlay["DEF"]..MaxPlay["DEF"], m \in MinPlay["MID"]..MaxPlay["MID"] : o = shape(d, m)
    BY <2>1
  <2>. QED  BY <1>2, <2>1, <2>2
<1>4. /\ n["GKP"] = 1
      /\ n["DEF"] \in MinPlay["DEF"]..MaxPlay["DEF"]
      /\ n["MID"] \in MinPlay["MID"]..MaxPlay["MID"]
      /\ n["FWD"] \in MinPlay["FWD"]..MaxPlay["FWD"]
      /\ n["FWD"] = XiSize - 1 - n["DEF"] - n["MID"]
  BY <1>2, <1>3 DEF Stands
<1>5. \A k \in Position : n[k] \in Nat
  <2>1. \A k \in Position : MinPlay[k] \in Nat /\ MaxPlay[k] \in Nat
    BY RulesAssumption
  <2>2. n["DEF"] \in Nat /\ n["MID"] \in Nat /\ n["FWD"] \in Nat
    BY <1>4, <2>1, FourPositions
  <2>. QED  BY <1>4, <2>2, FourPositions
<1>6. \A k \in Position : n[k] <= Cardinality(Of(S, t, k))
  BY <1>3 DEF Stands
<1>7. \A o \in Formations(S, t) : (o["DEF"] = n["DEF"] /\ o["MID"] = n["MID"]) => o = n
  BY <1>3
<1>. QED  BY <1>4, <1>5, <1>6, <1>7

(* Every shape within the rules that the players fill is a formation.      *)
LEMMA ShapeIsAFormation ==
  ASSUME NEW S, NEW t, NEW d \in MinPlay["DEF"]..MaxPlay["DEF"], NEW m \in MinPlay["MID"]..MaxPlay["MID"],
         XiSize - 1 - d - m \in MinPlay["FWD"]..MaxPlay["FWD"],
         1 <= Cardinality(Of(S, t, "GKP")), d <= Cardinality(Of(S, t, "DEF")),
         m <= Cardinality(Of(S, t, "MID")), XiSize - 1 - d - m <= Cardinality(Of(S, t, "FWD"))
  PROVE  \E n \in Formations(S, t) : /\ n["GKP"] = 1 /\ n["DEF"] = d /\ n["MID"] = m
                                     /\ n["FWD"] = XiSize - 1 - d - m
<1>. DEFINE n == [p \in Position |-> CASE p = "GKP" -> 1 [] p = "DEF" -> d [] p = "MID" -> m
                                       [] p = "FWD" -> XiSize - 1 - d - m]
<1>1. n["GKP"] = 1 /\ n["DEF"] = d /\ n["MID"] = m /\ n["FWD"] = XiSize - 1 - d - m
  BY FourPositions
<1>2. \A p \in Position : n[p] <= Cardinality(Of(S, t, p))
  BY <1>1, FourPositions
<1>3. n \in Formations(S, t)
  <2>. DEFINE shape(a, b) == [p \in Position |-> CASE p = "GKP" -> 1 [] p = "DEF" -> a [] p = "MID" -> b
                                                   [] p = "FWD" -> XiSize - 1 - a - b]
              X == {shape(a, b) : a \in MinPlay["DEF"]..MaxPlay["DEF"], b \in MinPlay["MID"]..MaxPlay["MID"]}
              Stands(f) == /\ f["FWD"] \in MinPlay["FWD"]..MaxPlay["FWD"]
                           /\ \A p \in Position : f[p] <= Cardinality(Of(S, t, p))
  <2>1. Formations(S, t) = {f \in X : Stands(f)}
    BY DEF Formations
  <2>2. n = shape(d, m)
    OBVIOUS
  <2>. HIDE DEF shape, n
  <2>3. n \in X
    BY <2>2
  <2>4. Stands(n)
    BY <1>1, <1>2
  <2>. HIDE DEF X, Stands
  <2>. QED  BY <2>1, <2>3, <2>4
<1>. QED  BY <1>1, <1>3

LEMMA FormationsAreFinite ==
  ASSUME NEW S, NEW t
  PROVE  IsFiniteSet(Formations(S, t))
<1>. DEFINE Fs == Formations(S, t)
            A == MinPlay["DEF"]..MaxPlay["DEF"]
            B == MinPlay["MID"]..MaxPlay["MID"]
            f == [n \in Fs |-> <<n["DEF"], n["MID"]>>]
<1>1. MinPlay["DEF"] \in Int /\ MaxPlay["DEF"] \in Int /\ MinPlay["MID"] \in Int /\ MaxPlay["MID"] \in Int
  BY FourPositions, RulesAssumption
<1>2. IsFiniteSet(A \X B)
  <2>1. IsFiniteSet(A) /\ IsFiniteSet(B)
    BY <1>1, FS_Interval
  <2>. HIDE DEF A, B
  <2>. QED  BY <2>1, FS_Product
<1>3. \A n \in Fs : /\ n["DEF"] \in A /\ n["MID"] \in B
                    /\ \A o \in Fs : (o["DEF"] = n["DEF"] /\ o["MID"] = n["MID"]) => o = n
  BY ShapeOfAFormation
<1>. HIDE DEF Fs, A, B
<1>4. f \in [Fs -> A \X B]
  BY <1>3
<1>5. \A n, o \in Fs : f[n] = f[o] => n = o
  BY <1>3
<1>6. f \in Injection(Fs, A \X B)
  <2>. HIDE DEF f
  <2>. QED  BY <1>4, <1>5 DEF Injection, IsInjective
<1>. HIDE DEF f
<1>7. IsFiniteSet(Fs)
  BY <1>2, <1>6, FS_Injection
<1>. QED  BY <1>7 DEF Fs

LEMMA FourParts ==
  ASSUME NEW g, NEW d, NEW m, NEW f,
         IsFiniteSet(g), IsFiniteSet(d), IsFiniteSet(m), IsFiniteSet(f),
         g \cap d = {}, (g \cup d) \cap m = {}, (g \cup d \cup m) \cap f = {}
  PROVE  /\ IsFiniteSet(g \cup d \cup m \cup f)
         /\ Cardinality(g \cup d \cup m \cup f)
              = Cardinality(g) + Cardinality(d) + Cardinality(m) + Cardinality(f)
         /\ \A v : (\A x \in g \cup d \cup m \cup f : v[x] \in Int) =>
               SumFunctionOnSet(v, g \cup d \cup m \cup f)
                 = SumFunctionOnSet(v, g) + SumFunctionOnSet(v, d)
                     + SumFunctionOnSet(v, m) + SumFunctionOnSet(v, f)
<1>0. /\ Cardinality(g) \in Nat /\ Cardinality(d) \in Nat /\ Cardinality(m) \in Nat
      /\ Cardinality(f) \in Nat /\ Cardinality({}) = 0
  BY FS_CardinalityType, FS_EmptySet
<1>1. IsFiniteSet(g \cup d) /\ Cardinality(g \cup d) = Cardinality(g) + Cardinality(d) - Cardinality({})
  BY FS_Union
<1>2. /\ IsFiniteSet(g \cup d \cup m)
      /\ Cardinality(g \cup d \cup m) = Cardinality(g \cup d) + Cardinality(m) - Cardinality({})
  BY <1>1, FS_Union
<1>3. /\ IsFiniteSet(g \cup d \cup m \cup f)
      /\ Cardinality(g \cup d \cup m \cup f) = Cardinality(g \cup d \cup m) + Cardinality(f) - Cardinality({})
  BY <1>2, FS_Union
<1>4. ASSUME NEW v, \A x \in g \cup d \cup m \cup f : v[x] \in Int
      PROVE  SumFunctionOnSet(v, g \cup d \cup m \cup f)
               = SumFunctionOnSet(v, g) + SumFunctionOnSet(v, d)
                   + SumFunctionOnSet(v, m) + SumFunctionOnSet(v, f)
  <2>1. /\ \A x \in g \cup d : v[x] \in Int
        /\ \A x \in g \cup d \cup m : v[x] \in Int
    BY <1>4
  <2>2. SumFunctionOnSet(v, g \cup d) = SumFunctionOnSet(v, g) + SumFunctionOnSet(v, d)
    BY <2>1, SumSplit
  <2>3. SumFunctionOnSet(v, g \cup d \cup m) = SumFunctionOnSet(v, g \cup d) + SumFunctionOnSet(v, m)
    BY <1>1, <2>1, SumSplit
  <2>4. SumFunctionOnSet(v, g \cup d \cup m \cup f) = SumFunctionOnSet(v, g \cup d \cup m) + SumFunctionOnSet(v, f)
    BY <1>2, <1>4, SumSplit
  <2>. QED  BY <2>2, <2>3, <2>4
<1>5. Cardinality(g \cup d \cup m \cup f)
        = Cardinality(g) + Cardinality(d) + Cardinality(m) + Cardinality(f)
  BY <1>0, <1>1, <1>2, <1>3
<1>. QED  BY <1>3, <1>4, <1>5

(* A set of players is counted, and its points summed, by position.        *)
LEMMA CountedByPosition ==
  ASSUME NEW s, NEW c, IsFiniteSet(s), \A p \in s : c[p].pos \in Position
  PROVE  /\ Cardinality(s) = Cardinality(Of(s, c, "GKP")) + Cardinality(Of(s, c, "DEF"))
                               + Cardinality(Of(s, c, "MID")) + Cardinality(Of(s, c, "FWD"))
         /\ \A v : (\A x \in s : v[x] \in Int) =>
               SumFunctionOnSet(v, s)
                 = SumFunctionOnSet(v, Of(s, c, "GKP")) + SumFunctionOnSet(v, Of(s, c, "DEF"))
                     + SumFunctionOnSet(v, Of(s, c, "MID")) + SumFunctionOnSet(v, Of(s, c, "FWD"))
<1>. DEFINE g == Of(s, c, "GKP")
            d == Of(s, c, "DEF")
            m == Of(s, c, "MID")
            f == Of(s, c, "FWD")
<1>1. \A p \in s : c[p].pos \in {"GKP", "DEF", "MID", "FWD"}
  BY FourPositions
<1>2. /\ s = g \cup d \cup m \cup f
      /\ g \cap d = {} /\ (g \cup d) \cap m = {} /\ (g \cup d \cup m) \cap f = {}
      /\ g \subseteq s /\ d \subseteq s /\ m \subseteq s /\ f \subseteq s
  BY <1>1 DEF Of
<1>. HIDE DEF g, d, m, f
<1>3. IsFiniteSet(g) /\ IsFiniteSet(d) /\ IsFiniteSet(m) /\ IsFiniteSet(f)
  BY <1>2, FS_Subset
<1>4. /\ Cardinality(g \cup d \cup m \cup f)
           = Cardinality(g) + Cardinality(d) + Cardinality(m) + Cardinality(f)
      /\ \A v : (\A x \in g \cup d \cup m \cup f : v[x] \in Int) =>
               SumFunctionOnSet(v, g \cup d \cup m \cup f)
                 = SumFunctionOnSet(v, g) + SumFunctionOnSet(v, d)
                     + SumFunctionOnSet(v, m) + SumFunctionOnSet(v, f)
  BY <1>2, <1>3, FourParts
<1>. QED  BY <1>2, <1>4 DEF g, d, m, f

-----------------------------------------------------------------------------
(* Lineups.                                                                *)

LEMMA SeqOfMore ==
  ASSUME NEW U, NEW T \in SUBSET U, NEW q \in Seq(T)
  PROVE  q \in Seq(U)
<1>1. Len(q) \in Nat /\ q \in [1..Len(q) -> T]
  OBVIOUS
<1>2. q \in [1..Len(q) -> U]
  BY <1>1
<1>. QED  BY <1>1, <1>2, SeqDef

(* What a table says of a squad's players: a score, and the minutes and    *)
(* points of the round; there are as many of each position as the rules    *)
(* say.                                                                    *)
Slotted(U, t) ==
    /\ U \in SUBSET Nat /\ IsFiniteSet(U)
    /\ \A x \in U :
          /\ t[x].pos \in Position
          /\ t[x].predicted \in Int /\ t[x].pPlay \in Int /\ t[x].actual \in Int
          /\ t[x].minutes \in Nat
          /\ t[x].minutes = 0 => t[x].actual <= 0
    /\ \A k \in Position : Cardinality(Of(U, t, k)) = SquadSelect[k]

LEMMA SlottedByPosition ==
  ASSUME NEW U, NEW t, Slotted(U, t), NEW f, \A x \in U : f[x] \in Int, NEW k
  PROVE  /\ Of(U, t, k) \in SUBSET Nat /\ IsFiniteSet(Of(U, t, k)) /\ Of(U, t, k) \subseteq U
         /\ Cardinality(Of(U, t, k)) \in Nat
         /\ \A x \in Of(U, t, k) : f[x] \in Int
<1>1. Of(U, t, k) \subseteq U /\ U \in SUBSET Nat /\ IsFiniteSet(U)
  BY DEF Of, Slotted
<1>2. IsFiniteSet(Of(U, t, k))
  BY <1>1, FS_Subset
<1>. QED  BY <1>1, <1>2, FS_CardinalityType

(* A squad has a formation.                                                *)
LEMMA FormationExists ==
  ASSUME NEW U, NEW t, Slotted(U, t)
  PROVE  Formations(U, t) # {}
<1>1. PICK d \in MinPlay["DEF"]..MaxPlay["DEF"], m \in MinPlay["MID"]..MaxPlay["MID"] :
          XiSize - 1 - d - m \in MinPlay["FWD"]..MaxPlay["FWD"]
  BY RulesAssumption
<1>2. \A k \in Position : MinPlay[k] \in Nat /\ MaxPlay[k] \in Nat /\ SquadSelect[k] \in Nat
                          /\ MaxPlay[k] <= SquadSelect[k]
  BY RulesAssumption
<1>3. \A k \in Position : MaxPlay[k] <= Cardinality(Of(U, t, k))
  BY <1>2 DEF Slotted
<1>4. \A k \in Position : Cardinality(Of(U, t, k)) \in Nat
  BY <1>2 DEF Slotted
<1>5. /\ 1 <= Cardinality(Of(U, t, "GKP")) /\ d <= Cardinality(Of(U, t, "DEF"))
      /\ m <= Cardinality(Of(U, t, "MID")) /\ XiSize - 1 - d - m <= Cardinality(Of(U, t, "FWD"))
  <2>1. 1 <= Cardinality(Of(U, t, "GKP"))
    BY <1>3, RulesAssumption, FourPositions
  <2>2. d <= Cardinality(Of(U, t, "DEF"))
    BY <1>2, <1>3, <1>4, FourPositions
  <2>3. m <= Cardinality(Of(U, t, "MID"))
    BY <1>2, <1>3, <1>4, FourPositions
  <2>4. XiSize - 1 - d - m <= Cardinality(Of(U, t, "FWD"))
    BY <1>1, <1>2, <1>3, <1>4, FourPositions
  <2>. QED  BY <2>1, <2>2, <2>3, <2>4
<1>. QED  BY <1>1, <1>5, ShapeIsAFormation

(* The first of each position, as many as a formation asks for.            *)
TopOf(U, t, n, f, k) == SubSeq(Listed(Of(U, t, k), f), 1, n[k])

TopEleven(U, t, n, f) ==
    TopOf(U, t, n, f, "GKP") \o TopOf(U, t, n, f, "DEF") \o TopOf(U, t, n, f, "MID") \o TopOf(U, t, n, f, "FWD")

LEMMA TopElevenIs ==
  ASSUME NEW U, NEW t, Slotted(U, t), NEW f, \A x \in U : f[x] \in Int,
         NEW n \in Formations(U, t)
  PROVE  /\ TopEleven(U, t, n, f) \in Seq(U)
         /\ \A k \in Position : Of(ToSet(TopEleven(U, t, n, f)), t, k)
                                  = {Nth(Of(U, t, k), f, i) : i \in 1..n[k]}
         /\ LegalFormation(ToSet(TopEleven(U, t, n, f)), t)
<1>. DEFINE best(k) == {Nth(Of(U, t, k), f, i) : i \in 1..n[k]}
            top(k) == TopOf(U, t, n, f, k)
            e == TopEleven(U, t, n, f)
            g == best("GKP")
            d == best("DEF")
            m == best("MID")
            w == best("FWD")
<1>1. /\ n["GKP"] = 1
      /\ n["DEF"] \in MinPlay["DEF"]..MaxPlay["DEF"]
      /\ n["MID"] \in MinPlay["MID"]..MaxPlay["MID"]
      /\ n["FWD"] \in MinPlay["FWD"]..MaxPlay["FWD"]
      /\ n["FWD"] = XiSize - 1 - n["DEF"] - n["MID"]
  BY ShapeOfAFormation
<1>2. \A k \in Position : n[k] \in 0..Cardinality(Of(U, t, k))
  <2>. TAKE k \in Position
  <2>1. n[k] \in Nat /\ n[k] <= Cardinality(Of(U, t, k))
    BY ShapeOfAFormation
  <2>2. Cardinality(Of(U, t, k)) \in Nat
    BY SlottedByPosition
  <2>. QED  BY <2>1, <2>2
<1>3. ASSUME NEW k \in Position
      PROVE  /\ top(k) \in Seq(U) /\ ToSet(top(k)) = best(k)
             /\ best(k) \subseteq Of(U, t, k) /\ Cardinality(best(k)) = n[k]
  <2>. DEFINE T == Of(U, t, k)
  <2>1. /\ T \in SUBSET Nat /\ IsFiniteSet(T) /\ T \subseteq U
        /\ \A x \in T : f[x] \in Int
    BY SlottedByPosition
  <2>2. n[k] \in 0..Cardinality(T)
    BY <1>2
  <2>. HIDE DEF T
  <2>3. /\ SubSeq(Listed(T, f), 1, n[k]) \in Seq(T)
        /\ ToSet(SubSeq(Listed(T, f), 1, n[k])) = {Nth(T, f, i) : i \in 1..n[k]}
    BY <2>1, <2>2, RankingIsAList
  <2>4. {Nth(T, f, i) : i \in 1..n[k]} \subseteq T /\ Cardinality({Nth(T, f, i) : i \in 1..n[k]}) = n[k]
    BY <2>1, <2>2, TheFirst
  <2>5. SubSeq(Listed(T, f), 1, n[k]) \in Seq(U)
    BY <2>1, <2>3, SeqOfMore
  <2>. QED  BY <2>3, <2>4, <2>5 DEF T, TopOf
<1>4. /\ top("GKP") \in Seq(U) /\ top("DEF") \in Seq(U) /\ top("MID") \in Seq(U) /\ top("FWD") \in Seq(U)
      /\ ToSet(top("GKP")) = g /\ ToSet(top("DEF")) = d /\ ToSet(top("MID")) = m /\ ToSet(top("FWD")) = w
  BY <1>3, FourPositions
<1>5. /\ g \subseteq Of(U, t, "GKP") /\ Cardinality(g) = n["GKP"]
      /\ d \subseteq Of(U, t, "DEF") /\ Cardinality(d) = n["DEF"]
      /\ m \subseteq Of(U, t, "MID") /\ Cardinality(m) = n["MID"]
      /\ w \subseteq Of(U, t, "FWD") /\ Cardinality(w) = n["FWD"]
  BY <1>3, FourPositions
<1>6. e = top("GKP") \o top("DEF") \o top("MID") \o top("FWD")
  BY DEF TopEleven
<1>. HIDE DEF g, d, m, w, top, e
<1>7. e \in Seq(U) /\ ToSet(e) = g \cup d \cup m \cup w
  <2>. DEFINE q == top("GKP") \o top("DEF")
              r == q \o top("MID")
  <2>1. q \in Seq(U) /\ ToSet(q) = g \cup d
    BY <1>4, ListsJoined
  <2>. HIDE DEF q
  <2>2. r \in Seq(U) /\ ToSet(r) = ToSet(q) \cup m
    BY <1>4, <2>1, ListsJoined
  <2>. HIDE DEF r
  <2>3. r \o top("FWD") \in Seq(U) /\ ToSet(r \o top("FWD")) = ToSet(r) \cup w
    BY <1>4, <2>2, ListsJoined
  <2>4. e = r \o top("FWD")
    BY <1>6 DEF q, r
  <2>. QED  BY <2>1, <2>2, <2>3, <2>4
<1>8. /\ Of(ToSet(e), t, "GKP") = g /\ Of(ToSet(e), t, "DEF") = d
      /\ Of(ToSet(e), t, "MID") = m /\ Of(ToSet(e), t, "FWD") = w
      /\ g \subseteq U /\ d \subseteq U /\ m \subseteq U /\ w \subseteq U
      /\ g \cap d = {} /\ (g \cup d) \cap m = {} /\ (g \cup d \cup m) \cap w = {}
  BY <1>5, <1>7 DEF Of
<1>9. \A k \in Position : Of(ToSet(e), t, k) = best(k)
  BY <1>8, FourPositions DEF g, d, m, w
<1>10. Cardinality(ToSet(e)) = n["GKP"] + n["DEF"] + n["MID"] + n["FWD"]
  <2>1. ToSet(e) \subseteq U
    BY <1>7, <1>8
  <2>2. IsFiniteSet(ToSet(e)) /\ \A x \in ToSet(e) : t[x].pos \in Position
    BY <2>1, FS_Subset DEF Slotted
  <2>3. Cardinality(ToSet(e)) = Cardinality(Of(ToSet(e), t, "GKP")) + Cardinality(Of(ToSet(e), t, "DEF"))
                                  + Cardinality(Of(ToSet(e), t, "MID")) + Cardinality(Of(ToSet(e), t, "FWD"))
    BY <2>2, CountedByPosition
  <2>. QED  BY <1>5, <1>8, <2>3
<1>11. /\ XiSize \in Nat
       /\ MinPlay["GKP"] = 1 /\ MaxPlay["GKP"] = 1
       /\ MinPlay["DEF"] \in Nat /\ MaxPlay["DEF"] \in Nat
       /\ MinPlay["MID"] \in Nat /\ MaxPlay["MID"] \in Nat
  BY FourPositions, RulesAssumption
<1>12. Cardinality(ToSet(e)) = XiSize
  BY <1>1, <1>10, <1>11
<1>13. \A p \in Position : Cardinality(Of(ToSet(e), t, p)) \in MinPlay[p]..MaxPlay[p]
  BY <1>1, <1>5, <1>8, <1>11, FourPositions
<1>14. LegalFormation(ToSet(e), t)
  BY <1>12, <1>13 DEF LegalFormation
<1>. QED  BY <1>7, <1>9, <1>14 DEF e

LEMMA ElevenByPredicted ==
  ASSUME NEW U, NEW t, NEW n, NEW f, \A x \in U : f[x] = t[x].predicted
  PROVE  Eleven(U, t, n, LAMBDA x : t[x].predicted) = TopEleven(U, t, n, f)
<1>1. \A k : Ranked(Of(U, t, k), LAMBDA x : t[x].predicted) = Listed(Of(U, t, k), f)
  <2>. TAKE k
  <2>1. \A x \in Of(U, t, k) : f[x] = t[x].predicted
    BY DEF Of
  <2>. QED  BY <2>1, RankedByPredicted
<1>2. /\ Ranked(Of(U, t, "GKP"), LAMBDA x : t[x].predicted) = Listed(Of(U, t, "GKP"), f)
      /\ Ranked(Of(U, t, "DEF"), LAMBDA x : t[x].predicted) = Listed(Of(U, t, "DEF"), f)
      /\ Ranked(Of(U, t, "MID"), LAMBDA x : t[x].predicted) = Listed(Of(U, t, "MID"), f)
      /\ Ranked(Of(U, t, "FWD"), LAMBDA x : t[x].predicted) = Listed(Of(U, t, "FWD"), f)
  BY <1>1
<1>3. Eleven(U, t, n, LAMBDA x : t[x].predicted)
        = SubSeq(Ranked(Of(U, t, "GKP"), LAMBDA x : t[x].predicted), 1, n["GKP"])
            \o SubSeq(Ranked(Of(U, t, "DEF"), LAMBDA x : t[x].predicted), 1, n["DEF"])
            \o SubSeq(Ranked(Of(U, t, "MID"), LAMBDA x : t[x].predicted), 1, n["MID"])
            \o SubSeq(Ranked(Of(U, t, "FWD"), LAMBDA x : t[x].predicted), 1, n["FWD"])
  BY DEF Eleven
<1>. QED  BY <1>2, <1>3 DEF TopEleven, TopOf

LEMMA ElevenByActual ==
  ASSUME NEW U, NEW t, NEW n, NEW f, \A x \in U : f[x] = t[x].actual
  PROVE  Eleven(U, t, n, LAMBDA x : t[x].actual) = TopEleven(U, t, n, f)
<1>1. \A k : Ranked(Of(U, t, k), LAMBDA x : t[x].actual) = Listed(Of(U, t, k), f)
  <2>. TAKE k
  <2>1. \A x \in Of(U, t, k) : f[x] = t[x].actual
    BY DEF Of
  <2>. QED  BY <2>1, RankedByActual
<1>2. /\ Ranked(Of(U, t, "GKP"), LAMBDA x : t[x].actual) = Listed(Of(U, t, "GKP"), f)
      /\ Ranked(Of(U, t, "DEF"), LAMBDA x : t[x].actual) = Listed(Of(U, t, "DEF"), f)
      /\ Ranked(Of(U, t, "MID"), LAMBDA x : t[x].actual) = Listed(Of(U, t, "MID"), f)
      /\ Ranked(Of(U, t, "FWD"), LAMBDA x : t[x].actual) = Listed(Of(U, t, "FWD"), f)
  BY <1>1
<1>3. Eleven(U, t, n, LAMBDA x : t[x].actual)
        = SubSeq(Ranked(Of(U, t, "GKP"), LAMBDA x : t[x].actual), 1, n["GKP"])
            \o SubSeq(Ranked(Of(U, t, "DEF"), LAMBDA x : t[x].actual), 1, n["DEF"])
            \o SubSeq(Ranked(Of(U, t, "MID"), LAMBDA x : t[x].actual), 1, n["MID"])
            \o SubSeq(Ranked(Of(U, t, "FWD"), LAMBDA x : t[x].actual), 1, n["FWD"])
  BY DEF Eleven
<1>. QED  BY <1>2, <1>3 DEF TopEleven, TopOf

-----------------------------------------------------------------------------
(* The lineup the forecasts choose, and the solver's.                      *)

LEMMA ListIsOf ==
  ASSUME NEW U, NEW q \in Seq(U)
  PROVE  ToSet(q) \subseteq U
<1>1. ToSet(q) = {q[i] : i \in 1..Len(q)} /\ \A i \in 1..Len(q) : q[i] \in U
  BY DEF ToSet
<1>. QED  BY <1>1

LEMMA TotalPredicted ==
  ASSUME NEW S, IsFiniteSet(S), NEW t, NEW f, \A x \in S : f[x] \in Int /\ f[x] = t[x].predicted
  PROVE  /\ Sum(S, LAMBDA x : t[x].predicted) = SumFunctionOnSet(f, S)
         /\ SumFunctionOnSet(f, S) \in Int
<1>. DEFINE h == [x \in S |-> t[x].predicted]
<1>1. Sum(S, LAMBDA x : t[x].predicted) = SumFunctionOnSet(h, S)
  BY DEF Sum, SumFunction
<1>2. \A x \in S : f[x] \in Int /\ f[x] = h[x]
  OBVIOUS
<1>. HIDE DEF h
<1>. QED  BY <1>1, <1>2, SumSame, SumInt

LEMMA TotalActual ==
  ASSUME NEW S, IsFiniteSet(S), NEW t, NEW f, \A x \in S : f[x] \in Int /\ f[x] = t[x].actual
  PROVE  /\ Sum(S, LAMBDA x : t[x].actual) = SumFunctionOnSet(f, S)
         /\ SumFunctionOnSet(f, S) \in Int
<1>. DEFINE h == [x \in S |-> t[x].actual]
<1>1. Sum(S, LAMBDA x : t[x].actual) = SumFunctionOnSet(h, S)
  BY DEF Sum, SumFunction
<1>2. \A x \in S : f[x] \in Int /\ f[x] = h[x]
  OBVIOUS
<1>. HIDE DEF h
<1>. QED  BY <1>1, <1>2, SumSame, SumInt

(* Of the formations of a squad one is best, ties to the one visited first.*)
LEMMA BestFormation ==
  ASSUME NEW U, NEW t, Slotted(U, t), NEW total, \A n \in Formations(U, t) : total[n] \in Int
  PROVE  \E f \in Formations(U, t) : \A g \in Formations(U, t) \ {f} :
            total[f] > total[g] \/ (total[f] = total[g] /\ VisitedBefore(f, g))
<1>. DEFINE Fs == Formations(U, t)
            Beat(f, g) == total[f] > total[g] \/ (total[f] = total[g] /\ VisitedBefore(f, g))
            F == {A \in SUBSET Fs : A = {} \/ \E f \in A : \A g \in A \ {f} : Beat(f, g)}
<1>0. Fs # {} /\ IsFiniteSet(Fs)
  BY FormationExists, FormationsAreFinite
<1>1. \A n \in Fs : /\ total[n] \in Int
                    /\ n["DEF"] \in Nat /\ n["MID"] \in Nat
                    /\ \A o \in Fs : (o["DEF"] = n["DEF"] /\ o["MID"] = n["MID"]) => o = n
  BY ShapeOfAFormation, FourPositions
<1>. HIDE DEF Fs
<1>2. \A f, g \in Fs : f = g \/ Beat(f, g) \/ Beat(g, f)
  BY <1>1 DEF VisitedBefore
<1>3. \A f, g, h \in Fs : Beat(f, g) /\ Beat(g, h) => Beat(f, h)
  BY <1>1 DEF VisitedBefore
<1>. HIDE DEF Beat
<1>4. {} \in F
  OBVIOUS
<1>5. ASSUME NEW A \in SUBSET Fs, NEW z \in Fs \ A, A \in F PROVE A \cup {z} \in F
  <2>1. CASE A = {}
    BY <2>1
  <2>2. CASE A # {}
    <3>1. PICK f \in A : \A g \in A \ {f} : Beat(f, g)
      BY <1>5, <2>2
    <3>2. CASE Beat(f, z)
      <4>1. f \in A \cup {z} /\ \A g \in (A \cup {z}) \ {f} : Beat(f, g)
        BY <3>1, <3>2
      <4>. QED  BY <4>1
    <3>3. CASE Beat(z, f)
      <4>1. \A g \in A : Beat(z, g)
        BY <1>3, <3>1, <3>3
      <4>2. z \in A \cup {z} /\ \A g \in (A \cup {z}) \ {z} : Beat(z, g)
        BY <4>1
      <4>. QED  BY <4>2
    <3>4. f # z
      BY <1>5
    <3>. QED  BY <1>2, <3>2, <3>3, <3>4
  <2>. QED  BY <2>1, <2>2
<1>. HIDE DEF F
<1>6. Fs \in F
  BY <1>0, <1>4, <1>5, FinInd
<1>. QED  BY <1>0, <1>6 DEF F, Fs, Beat

(* The best eleven is that of a formation.                                 *)
LEMMA BestElevenIs ==
  ASSUME NEW U, NEW t, Slotted(U, t), NEW f, \A x \in U : f[x] \in Int /\ f[x] = t[x].predicted
  PROVE  \E n \in Formations(U, t) : BestEleven(U, t, LAMBDA x : t[x].predicted) = TopEleven(U, t, n, f)
<1>. DEFINE Fs == Formations(U, t)
            total == [n \in Fs |-> Sum(ToSet(Eleven(U, t, n, LAMBDA x : t[x].predicted)),
                                       LAMBDA x : t[x].predicted)]
            best == CHOOSE n \in DOMAIN total : \A g \in DOMAIN total \ {n} :
                       total[n] > total[g] \/ (total[n] = total[g] /\ VisitedBefore(n, g))
<1>1. BestEleven(U, t, LAMBDA x : t[x].predicted) = Eleven(U, t, best, LAMBDA x : t[x].predicted)
  BY DEF BestEleven
<1>2. \A n : Eleven(U, t, n, LAMBDA x : t[x].predicted) = TopEleven(U, t, n, f)
  BY ElevenByPredicted
<1>3. \A n \in Fs : total[n] \in Int
  <2>. TAKE n \in Fs
  <2>. DEFINE S == ToSet(Eleven(U, t, n, LAMBDA x : t[x].predicted))
  <2>1. S = ToSet(TopEleven(U, t, n, f))
    BY <1>2
  <2>2. S \subseteq U
    <3>1. TopEleven(U, t, n, f) \in Seq(U)
      BY TopElevenIs
    <3>. QED  BY <2>1, <3>1, ListIsOf
  <2>3. IsFiniteSet(S)
    BY <2>2, FS_Subset DEF Slotted
  <2>4. total[n] = Sum(S, LAMBDA x : t[x].predicted)
    OBVIOUS
  <2>. HIDE DEF S, total
  <2>5. \A x \in S : f[x] \in Int /\ f[x] = t[x].predicted
    BY <2>2
  <2>6. Sum(S, LAMBDA x : t[x].predicted) = SumFunctionOnSet(f, S) /\ SumFunctionOnSet(f, S) \in Int
    BY <2>3, <2>5, TotalPredicted
  <2>. QED  BY <2>4, <2>6
<1>4. DOMAIN total = Fs
  OBVIOUS
<1>. HIDE DEF total
<1>5. best \in Fs
  BY <1>3, <1>4, BestFormation
<1>. HIDE DEF best
<1>. QED  BY <1>1, <1>2, <1>5

(* chooseLineup returns a lineup of the squad.                             *)
LEMMA ChosenLineup ==
  ASSUME NEW U, NEW t, Slotted(U, t)
  PROVE  LineupOf(ChooseLineup(U, t), U, t)
<1>. DEFINE f == [x \in U |-> t[x].predicted]
            w == [x \in U |-> t[x].predicted * t[x].pPlay]
            starters == BestEleven(U, t, LAMBDA x : t[x].predicted)
            X == ToSet(starters)
            benched == U \ X
            outfield == {x \in benched : t[x].pos # "GKP"}
            keepers == benched \ outfield
            l == ChooseLineup(U, t)
<1>1. /\ l.starters = starters
      /\ l.bench = Ranked(keepers, LAMBDA x : t[x].predicted)
                     \o Ranked(outfield, LAMBDA x : t[x].predicted * t[x].pPlay)
      /\ l.captain = Ranked(X, LAMBDA x : t[x].predicted)[1]
      /\ l.vice = Ranked(X, LAMBDA x : t[x].predicted)[2]
  BY DEF ChooseLineup, BenchOrder
<1>. HIDE DEF l
<1>2. /\ \A x \in U : f[x] \in Int /\ f[x] = t[x].predicted
      /\ \A x \in U : w[x] \in Int /\ w[x] = t[x].predicted * t[x].pPlay
      /\ U \in SUBSET Nat /\ IsFiniteSet(U)
  <2>1. /\ U \in SUBSET Nat /\ IsFiniteSet(U)
        /\ \A x \in U : t[x].predicted \in Int /\ t[x].pPlay \in Int
    BY DEF Slotted
  <2>2. \A a, b \in Int : a * b \in Int
    OBVIOUS
  <2>. QED  BY <2>1, <2>2
<1>. HIDE DEF f, w
<1>3. starters \in Seq(U) /\ LegalFormation(X, t)
  <2>1. PICK n \in Formations(U, t) : starters = TopEleven(U, t, n, f)
    BY <1>2, BestElevenIs
  <2>. HIDE DEF starters
  <2>. QED  BY <1>2, <2>1, TopElevenIs
<1>. HIDE DEF starters
<1>4. X \subseteq U
  BY <1>3, ListIsOf
<1>. HIDE DEF X
<1>5. /\ keepers \subseteq U /\ outfield \subseteq U /\ X \cup (keepers \cup outfield) = U
      /\ X \cap (keepers \cup outfield) = {}
  BY <1>4
<1>. HIDE DEF keepers, outfield
<1>6. \A T \in SUBSET U : /\ T \in SUBSET Nat /\ IsFiniteSet(T)
                          /\ \A x \in T : f[x] \in Int /\ f[x] = t[x].predicted
                          /\ \A x \in T : w[x] \in Int /\ w[x] = t[x].predicted * t[x].pPlay
  BY <1>2, FS_Subset
<1>7. /\ Ranked(keepers, LAMBDA x : t[x].predicted) = Listed(keepers, f)
      /\ Ranked(X, LAMBDA x : t[x].predicted) = Listed(X, f)
  BY <1>4, <1>5, <1>6, RankedByPredicted
<1>8. Ranked(outfield, LAMBDA x : t[x].predicted * t[x].pPlay) = Listed(outfield, w)
  BY <1>5, <1>6, RankedByWeight
<1>9. /\ Listed(keepers, f) \in Seq(keepers) /\ ToSet(Listed(keepers, f)) = keepers
      /\ Listed(outfield, w) \in Seq(outfield) /\ ToSet(Listed(outfield, w)) = outfield
      /\ ToSet(Listed(X, f)) = X /\ Listed(X, f) \in Seq(X) /\ Len(Listed(X, f)) = Cardinality(X)
  <2>1. Listed(keepers, f) \in Seq(keepers) /\ ToSet(Listed(keepers, f)) = keepers
    BY <1>5, <1>6, RankingIsAList
  <2>2. Listed(outfield, w) \in Seq(outfield) /\ ToSet(Listed(outfield, w)) = outfield
    BY <1>5, <1>6, RankingIsAList
  <2>3. ToSet(Listed(X, f)) = X /\ Listed(X, f) \in Seq(X) /\ Len(Listed(X, f)) = Cardinality(X)
    BY <1>4, <1>6, RankingIsAList
  <2>. QED  BY <2>1, <2>2, <2>3
<1>10. l.bench \in Seq(U) /\ ToSet(l.bench) = keepers \cup outfield
  <2>1. l.bench = Listed(keepers, f) \o Listed(outfield, w)
    BY <1>1, <1>7, <1>8
  <2>2. Listed(keepers, f) \in Seq(U) /\ Listed(outfield, w) \in Seq(U)
    BY <1>5, <1>9, SeqOfMore
  <2>. QED  BY <1>9, <2>1, <2>2, ListsJoined
<1>11. l.captain \in X /\ l.vice \in X
  <2>1. Cardinality(X) = XiSize /\ XiSize \in Nat /\ XiSize > 1
    BY <1>3, RulesAssumption DEF LegalFormation, X
  <2>2. 1 \in 1..Len(Listed(X, f)) /\ 2 \in 1..Len(Listed(X, f))
    BY <1>9, <2>1
  <2>3. Listed(X, f)[1] \in X /\ Listed(X, f)[2] \in X
    BY <1>9, <2>2
  <2>. QED  BY <1>1, <1>7, <2>3
<1>12. LegalFormation(X, t) /\ X = ToSet(l.starters) /\ l.starters \in Seq(U)
  BY <1>1, <1>3 DEF X
<1>13. LineupOf(l, U, t)
  BY <1>5, <1>10, <1>11, <1>12 DEF LineupOf
<1>. QED  BY <1>13 DEF l

-----------------------------------------------------------------------------
(* The solver's lineup.                                                    *)

(* An eleven of the program is one the rules allow.                        *)
LEMMA ElevenIsLegal ==
  ASSUME NEW s, NEW c, IsFiniteSet(s), NEW xi \in Elevens(s, c)
  PROVE  xi \subseteq s /\ LegalFormation(xi, c)
<1>1. PICK n \in Formations(s, c) :
        \E g \in kSubset(n["GKP"], Of(s, c, "GKP")), d \in kSubset(n["DEF"], Of(s, c, "DEF")),
           m \in kSubset(n["MID"], Of(s, c, "MID")), f \in kSubset(n["FWD"], Of(s, c, "FWD")) :
              xi = g \cup d \cup m \cup f
  BY DEF Elevens
<1>2. PICK g \in kSubset(n["GKP"], Of(s, c, "GKP")), d \in kSubset(n["DEF"], Of(s, c, "DEF")),
           m \in kSubset(n["MID"], Of(s, c, "MID")), f \in kSubset(n["FWD"], Of(s, c, "FWD")) :
              xi = g \cup d \cup m \cup f
  BY <1>1
<1>3. /\ g \subseteq Of(s, c, "GKP") /\ Cardinality(g) = n["GKP"]
      /\ d \subseteq Of(s, c, "DEF") /\ Cardinality(d) = n["DEF"]
      /\ m \subseteq Of(s, c, "MID") /\ Cardinality(m) = n["MID"]
      /\ f \subseteq Of(s, c, "FWD") /\ Cardinality(f) = n["FWD"]
  BY DEF kSubset
<1>4. /\ Of(xi, c, "GKP") = g /\ Of(xi, c, "DEF") = d
      /\ Of(xi, c, "MID") = m /\ Of(xi, c, "FWD") = f
      /\ g \subseteq s /\ d \subseteq s /\ m \subseteq s /\ f \subseteq s
      /\ g \cap d = {} /\ (g \cup d) \cap m = {} /\ (g \cup d \cup m) \cap f = {}
  BY <1>2, <1>3 DEF Of
<1>5. Cardinality(xi) = n["GKP"] + n["DEF"] + n["MID"] + n["FWD"]
  <2>1. xi \subseteq s /\ \A x \in xi : c[x].pos \in Position
    BY <1>2, <1>3, FourPositions DEF Of
  <2>2. IsFiniteSet(xi)
    BY <2>1, FS_Subset
  <2>3. Cardinality(xi) = Cardinality(Of(xi, c, "GKP")) + Cardinality(Of(xi, c, "DEF"))
                            + Cardinality(Of(xi, c, "MID")) + Cardinality(Of(xi, c, "FWD"))
    BY <2>1, <2>2, CountedByPosition
  <2>. QED  BY <1>3, <1>4, <2>3
<1>6. /\ n["GKP"] = 1
      /\ n["DEF"] \in MinPlay["DEF"]..MaxPlay["DEF"]
      /\ n["MID"] \in MinPlay["MID"]..MaxPlay["MID"]
      /\ n["FWD"] \in MinPlay["FWD"]..MaxPlay["FWD"]
      /\ n["FWD"] = XiSize - 1 - n["DEF"] - n["MID"]
  BY <1>1, ShapeOfAFormation
<1>7. /\ XiSize \in Nat
      /\ MinPlay["GKP"] = 1 /\ MaxPlay["GKP"] = 1
      /\ MinPlay["DEF"] \in Nat /\ MaxPlay["DEF"] \in Nat
      /\ MinPlay["MID"] \in Nat /\ MaxPlay["MID"] \in Nat
  BY FourPositions, RulesAssumption
<1>8. Cardinality(xi) = XiSize
  BY <1>5, <1>6, <1>7
<1>9. \A p \in Position : Cardinality(Of(xi, c, p)) \in MinPlay[p]..MaxPlay[p]
  BY <1>3, <1>4, <1>6, <1>7, FourPositions
<1>10. xi \subseteq s
  BY <1>2, <1>4
<1>. QED  BY <1>8, <1>9, <1>10 DEF LegalFormation

(* Every optimum is over a squad of its program, an eleven of it and, if *)
(* one of the eleven is ahead of the others, one of it for captain.        *)
LEMMA SolvedEleven ==
  ASSUME NEW S, NEW c, NEW a \in SolveSquad(S, c)
  PROVE  /\ a.squad \in SquadProgram(S, c)
         /\ a.xi \in Elevens(a.squad, c)
         /\ (\E x \in a.xi : \A y \in a.xi \ {x} : c[x].ep > c[y].ep \/ (c[x].ep = c[y].ep /\ x < y))
              => a.captain \in a.xi
<1>1. PICK s \in SquadProgram(S, c) : a \in SolutionsOver(s, 0, c)
  BY DEF SolveSquad, Optima
<1>. DEFINE cap(xi) == First(xi, LAMBDA x : c[x].ep)
            shape(xi) == [squad |-> s, xi |-> xi, captain |-> cap(xi), hits |-> 0,
                          value |-> Objective(s, xi, cap(xi), 0, c)]
<1>2. a \in {shape(xi) : xi \in Elevens(s, c)}
  BY <1>1 DEF SolutionsOver
<1>3. \A xi : shape(xi).squad = s /\ shape(xi).xi = xi /\ shape(xi).captain = cap(xi)
  OBVIOUS
<1>. HIDE DEF shape, cap
<1>4. PICK xi \in Elevens(s, c) : a = shape(xi)
  BY <1>2
<1>5. a.squad = s /\ a.xi = xi /\ a.captain = cap(a.xi)
  BY <1>3, <1>4
<1>6. cap(a.xi) = CHOOSE x \in a.xi : \A y \in a.xi \ {x} : c[x].ep > c[y].ep \/ (c[x].ep = c[y].ep /\ x < y)
  BY DEF cap, First, Ahead
<1>. QED  BY <1>1, <1>5, <1>6

(* The eleven and the captain of the solver are a lineup of the squad.     *)
LEMMA SolverLineup ==
  ASSUME NEW t, Slotted(Squadron, t), \A x \in Squadron : t[x].pos = Pos[x],
         NEW a \in SolveSquad(Squadron, HeldCandidates(t))
  PROVE  LineupOf(SolvedLineup(a, t), Squadron, t)
<1>. DEFINE U == Squadron
            c == HeldCandidates(t)
            w == [x \in U |-> t[x].predicted * t[x].pPlay]
            X == a.xi
            benched == U \ X
            outfield == {x \in benched : Pos[x] # "GKP"}
            keepers == benched \ outfield
            l == SolvedLineup(a, t)
<1>1. /\ l.starters = SetToSeq(X)
      /\ l.bench = SetToSeq(keepers) \o Ranked(outfield, LAMBDA x : t[x].predicted * t[x].pPlay)
      /\ l.captain = a.captain
      /\ l.vice = First(X \ {a.captain}, LAMBDA x : t[x].predicted)
  BY DEF SolvedLineup, BenchOrder
<1>. HIDE DEF l
<1>2. /\ U \in SUBSET Nat /\ IsFiniteSet(U)
      /\ \A x \in U : t[x].predicted \in Int /\ w[x] \in Int /\ w[x] = t[x].predicted * t[x].pPlay
  <2>1. /\ U \in SUBSET Nat /\ IsFiniteSet(U)
        /\ \A x \in U : t[x].predicted \in Int /\ t[x].pPlay \in Int
    BY DEF Slotted
  <2>2. \A m, n \in Int : m * n \in Int
    OBVIOUS
  <2>. QED  BY <2>1, <2>2
<1>. HIDE DEF w
<1>3. \A x \in U : c[x].pos = t[x].pos /\ c[x].ep = t[x].predicted
  BY DEF HeldCandidates
<1>4. /\ a.squad \in SquadProgram(U, c) /\ X \in Elevens(a.squad, c)
      /\ (\E x \in X : \A y \in X \ {x} : c[x].ep > c[y].ep \/ (c[x].ep = c[y].ep /\ x < y))
           => a.captain \in X
  BY SolvedEleven
<1>. HIDE DEF c, U
<1>5. a.squad \subseteq U
  <2>1. a.squad \in Fifteens(U, c)
    BY <1>4 DEF SquadProgram
  <2>. QED  BY <2>1, FifteenHasItsShape
<1>6. X \subseteq U /\ LegalFormation(X, c)
  <2>1. IsFiniteSet(a.squad)
    BY <1>2, <1>5, FS_Subset
  <2>. QED  BY <1>4, <1>5, <2>1, ElevenIsLegal
<1>7. LegalFormation(X, t)
  <2>1. \A k : Of(X, c, k) = Of(X, t, k)
    BY <1>3, <1>6 DEF Of
  <2>. QED  BY <1>6, <2>1 DEF LegalFormation
<1>8. /\ X \in SUBSET Nat /\ IsFiniteSet(X) /\ Cardinality(X) = XiSize /\ XiSize \in Nat /\ XiSize > 1
  BY <1>2, <1>6, FS_Subset, RulesAssumption DEF LegalFormation
<1>. HIDE DEF X
<1>9. a.captain \in X
  <2>1. X # {}
    BY <1>8, FS_EmptySet
  <2>2. \A x \in X : c[x].ep \in Int
    BY <1>2, <1>3, <1>6
  <2>. DEFINE f == [x \in X |-> c[x].ep]
  <2>3. \E x \in X : \A y \in X \ {x} : f[x] > f[y] \/ (f[x] = f[y] /\ x < y)
    <3>1. \A x \in X : f[x] \in Int
      BY <2>2
    <3>. HIDE DEF f
    <3>. QED  BY <1>8, <2>1, <3>1, SomebodyIsFirst
  <2>4. \E x \in X : \A y \in X \ {x} : c[x].ep > c[y].ep \/ (c[x].ep = c[y].ep /\ x < y)
    BY <2>3
  <2>. QED  BY <1>4, <2>4
<1>10. l.vice \in X
  <2>. DEFINE R == X \ {a.captain}
  <2>1. IsFiniteSet(R) /\ Cardinality(R) = Cardinality(X) - 1
    BY <1>8, <1>9, FS_RemoveElement
  <2>2. R # {} /\ R \in SUBSET Nat
    <3>1. Cardinality(R) # 0 /\ Cardinality({}) = 0
      BY <1>8, <2>1, FS_EmptySet
    <3>. QED  BY <1>8, <3>1
  <2>3. \A x \in R : t[x].predicted \in Int
    BY <1>2, <1>6
  <2>4. l.vice = CHOOSE x \in R : \A y \in R \ {x} :
            t[x].predicted > t[y].predicted \/ (t[x].predicted = t[y].predicted /\ x < y)
    BY <1>1 DEF First, Ahead
  <2>5. R \subseteq X
    OBVIOUS
  <2>. HIDE DEF R
  <2>. DEFINE f == [x \in R |-> t[x].predicted]
  <2>6. \E x \in R : \A y \in R \ {x} : f[x] > f[y] \/ (f[x] = f[y] /\ x < y)
    <3>1. \A x \in R : f[x] \in Int
      BY <2>3
    <3>. HIDE DEF f
    <3>. QED  BY <2>1, <2>2, <3>1, SomebodyIsFirst
  <2>7. \E x \in R : \A y \in R \ {x} :
            t[x].predicted > t[y].predicted \/ (t[x].predicted = t[y].predicted /\ x < y)
    BY <2>6
  <2>. QED  BY <2>4, <2>5, <2>7
<1>11. /\ keepers \subseteq U /\ outfield \subseteq U /\ X \cup (keepers \cup outfield) = U
       /\ X \cap (keepers \cup outfield) = {}
  BY <1>6
<1>. HIDE DEF keepers, outfield
<1>12. /\ IsFiniteSet(keepers) /\ IsFiniteSet(outfield) /\ outfield \in SUBSET Nat
  BY <1>2, <1>11, FS_Subset
<1>13. /\ SetToSeq(X) \in Seq(X) /\ ToSet(SetToSeq(X)) = X
       /\ SetToSeq(keepers) \in Seq(keepers) /\ ToSet(SetToSeq(keepers)) = keepers
  BY <1>8, <1>12, SetIsListed
<1>14. \A x \in outfield : w[x] \in Int /\ w[x] = t[x].predicted * t[x].pPlay
  BY <1>2, <1>11
<1>15. Ranked(outfield, LAMBDA x : t[x].predicted * t[x].pPlay) = Listed(outfield, w)
  BY <1>14, RankedByWeight
<1>16. Listed(outfield, w) \in Seq(outfield) /\ ToSet(Listed(outfield, w)) = outfield
  BY <1>12, <1>14, RankingIsAList
<1>17. l.bench \in Seq(U) /\ ToSet(l.bench) = keepers \cup outfield
  <2>1. l.bench = SetToSeq(keepers) \o Listed(outfield, w)
    BY <1>1, <1>15
  <2>2. SetToSeq(keepers) \in Seq(U) /\ Listed(outfield, w) \in Seq(U)
    BY <1>11, <1>13, <1>16, SeqOfMore
  <2>. QED  BY <1>13, <1>16, <2>1, <2>2, ListsJoined
<1>18. l.starters \in Seq(U) /\ ToSet(l.starters) = X
  BY <1>1, <1>6, <1>13, SeqOfMore
<1>19. l.captain \in X
  BY <1>1, <1>9
<1>20. LineupOf(l, U, t)
  BY <1>7, <1>10, <1>11, <1>17, <1>18, <1>19 DEF LineupOf
<1>. QED  BY <1>20 DEF l, U

-----------------------------------------------------------------------------
(* The ceiling.                                                            *)

(* What an eleven that knew the points is worth: its points, and those of  *)
(* its best player who played, if they are any.                            *)
PlayedPoints(X, t) == {t[x].actual : x \in {y \in X : t[y].minutes > 0}}

BestOf(X, t) == Max({0} \cup PlayedPoints(X, t))

LEMMA BestOfIs ==
  ASSUME NEW U, NEW t, Slotted(U, t), NEW X \in SUBSET U
  PROVE  /\ BestOf(X, t) \in Int /\ BestOf(X, t) >= 0
         /\ \A x \in X : t[x].minutes > 0 => BestOf(X, t) >= t[x].actual
<1>. DEFINE P == {y \in X : t[y].minutes > 0}
            A == PlayedPoints(X, t)
            g == [x \in P |-> t[x].actual]
<1>1. \A x \in P : t[x].actual \in Int
  BY DEF Slotted
<1>2. A = {t[x].actual : x \in P}
  BY DEF PlayedPoints
<1>3. IsFiniteSet(P)
  <2>1. P \subseteq U
    OBVIOUS
  <2>. HIDE DEF P
  <2>. QED  BY <2>1, FS_Subset DEF Slotted
<1>. HIDE DEF A, P
<1>4. g \in Surjection(P, A)
  BY <1>2 DEF Surjection
<1>. HIDE DEF g
<1>5. IsFiniteSet(A)
  BY <1>3, <1>4, FS_Surjection
<1>. DEFINE Z == {0} \cup A
<1>6. IsFiniteSet(Z)
  <2>1. Z = A \cup {0}
    OBVIOUS
  <2>. HIDE DEF Z
  <2>. QED  BY <1>5, <2>1, FS_AddElement
<1>7. Z \in SUBSET Int /\ Z # {} /\ 0 \in Z /\ \A x \in P : t[x].actual \in Z
  BY <1>1, <1>2
<1>8. BestOf(X, t) = Max(Z)
  BY DEF BestOf, A
<1>. HIDE DEF Z
<1>9. Max(Z) \in Z /\ \A y \in Z : Max(Z) >= y
  BY <1>6, <1>7, MaxOfNumbers
<1>10. \A x \in X : t[x].minutes > 0 => x \in P
  BY DEF P
<1>. QED  BY <1>7, <1>8, <1>9, <1>10

(* The ceiling is no less than any formation's eleven is worth.            *)
LEMMA CeilingIsHighest ==
  ASSUME NEW U, NEW t, Slotted(U, t), NEW f, \A x \in U : f[x] \in Int /\ f[x] = t[x].actual
  PROVE  /\ CeilingFor(U, t) \in Int
         /\ \A n \in Formations(U, t) :
            CeilingFor(U, t) >= SumFunctionOnSet(f, ToSet(TopEleven(U, t, n, f)))
                                  + BestOf(ToSet(TopEleven(U, t, n, f)), t)
<1>. DEFINE Fs == Formations(U, t)
            X(n) == ToSet(TopEleven(U, t, n, f))
            worth(n) == SumFunctionOnSet(f, X(n)) + BestOf(X(n), t)
            said(n) == Sum(ToSet(Eleven(U, t, n, LAMBDA x : t[x].actual)), LAMBDA x : t[x].actual)
                         + Max({0} \cup {t[x].actual : x \in {y \in ToSet(Eleven(U, t, n, LAMBDA x : t[x].actual)) :
                                                                t[y].minutes > 0}})
            W == {said(n) : n \in Fs}
            V == {0} \cup W
            h == [n \in Fs |-> worth(n)]
<1>1. CeilingFor(U, t) = Max(V)
  BY DEF CeilingFor
<1>2. \A n : Eleven(U, t, n, LAMBDA x : t[x].actual) = TopEleven(U, t, n, f)
  BY ElevenByActual
<1>3. ASSUME NEW n \in Fs PROVE said(n) = worth(n) /\ worth(n) \in Int
  <2>. DEFINE S == ToSet(Eleven(U, t, n, LAMBDA x : t[x].actual))
  <2>1. S = X(n)
    BY <1>2
  <2>2. S \subseteq U
    <3>1. TopEleven(U, t, n, f) \in Seq(U)
      BY TopElevenIs
    <3>. QED  BY <2>1, <3>1, ListIsOf
  <2>3. IsFiniteSet(S)
    BY <2>2, FS_Subset DEF Slotted
  <2>4. said(n) = Sum(S, LAMBDA x : t[x].actual) + Max({0} \cup {t[x].actual : x \in {y \in S : t[y].minutes > 0}})
    OBVIOUS
  <2>. HIDE DEF S, said
  <2>5. \A x \in S : f[x] \in Int /\ f[x] = t[x].actual
    BY <2>2
  <2>6. Sum(S, LAMBDA x : t[x].actual) = SumFunctionOnSet(f, S) /\ SumFunctionOnSet(f, S) \in Int
    BY <2>3, <2>5, TotalActual
  <2>7. Max({0} \cup {t[x].actual : x \in {y \in S : t[y].minutes > 0}}) = BestOf(S, t)
    BY DEF BestOf, PlayedPoints
  <2>8. BestOf(S, t) \in Int
    BY <2>2, BestOfIs
  <2>9. said(n) = SumFunctionOnSet(f, S) + BestOf(S, t)
    BY <2>4, <2>6, <2>7
  <2>. QED  BY <2>1, <2>6, <2>8, <2>9
<1>. HIDE DEF said, worth, Fs
<1>4. W = {worth(n) : n \in Fs} /\ \A n \in Fs : worth(n) \in Int
  BY <1>3
<1>5. IsFiniteSet(Fs)
  BY FormationsAreFinite DEF Fs
<1>. HIDE DEF W
<1>6. h \in Surjection(Fs, W)
  BY <1>4 DEF Surjection
<1>. HIDE DEF h
<1>7. IsFiniteSet(W)
  BY <1>5, <1>6, FS_Surjection
<1>8. IsFiniteSet(V)
  <2>1. V = W \cup {0}
    OBVIOUS
  <2>. HIDE DEF V
  <2>. QED  BY <1>7, <2>1, FS_AddElement
<1>9. V \in SUBSET Int /\ V # {} /\ \A n \in Fs : worth(n) \in V
  BY <1>4
<1>. HIDE DEF V
<1>10. Max(V) \in V /\ \A y \in V : Max(V) >= y
  BY <1>8, <1>9, MaxOfNumbers
<1>11. CeilingFor(U, t) \in Int /\ \A n \in Fs : CeilingFor(U, t) >= worth(n)
  BY <1>1, <1>9, <1>10
<1>. QED  BY <1>11 DEF Fs, worth

(* A legal eleven has the shape of a formation.                            *)
LEMMA LegalHasAFormation ==
  ASSUME NEW U, NEW t, Slotted(U, t), NEW F \in SUBSET U, LegalFormation(F, t)
  PROVE  \E n \in Formations(U, t) : \A k \in Position : n[k] = Cardinality(Of(F, t, k))
<1>. DEFINE c(k) == Cardinality(Of(F, t, k))
<1>1. IsFiniteSet(F) /\ \A x \in F : t[x].pos \in Position
  BY FS_Subset DEF Slotted
<1>2. Cardinality(F) = c("GKP") + c("DEF") + c("MID") + c("FWD")
  BY <1>1, CountedByPosition
<1>3. /\ Cardinality(F) = XiSize
      /\ \A k \in Position : c(k) \in MinPlay[k]..MaxPlay[k]
  BY DEF LegalFormation
<1>4. \A k \in Position : c(k) \in Nat /\ c(k) <= Cardinality(Of(U, t, k))
  <2>. TAKE k \in Position
  <2>1. Of(F, t, k) \subseteq Of(U, t, k) /\ Of(U, t, k) \subseteq U
    BY DEF Of
  <2>2. IsFiniteSet(Of(U, t, k))
    BY <2>1, FS_Subset DEF Slotted
  <2>. QED  BY <2>1, <2>2, FS_Subset, FS_CardinalityType
<1>5. /\ MinPlay["GKP"] = 1 /\ MaxPlay["GKP"] = 1 /\ XiSize \in Nat
  BY RulesAssumption
<1>. HIDE DEF c
<1>6. /\ c("GKP") \in Nat /\ c("DEF") \in Nat /\ c("MID") \in Nat /\ c("FWD") \in Nat
      /\ c("GKP") = 1 /\ c("FWD") = XiSize - 1 - c("DEF") - c("MID")
      /\ c("DEF") \in MinPlay["DEF"]..MaxPlay["DEF"] /\ c("MID") \in MinPlay["MID"]..MaxPlay["MID"]
      /\ c("FWD") \in MinPlay["FWD"]..MaxPlay["FWD"]
  <2>1. /\ c("GKP") \in Nat /\ c("DEF") \in Nat /\ c("MID") \in Nat /\ c("FWD") \in Nat
    BY <1>4, FourPositions
  <2>2. /\ c("GKP") \in MinPlay["GKP"]..MaxPlay["GKP"]
        /\ c("DEF") \in MinPlay["DEF"]..MaxPlay["DEF"] /\ c("MID") \in MinPlay["MID"]..MaxPlay["MID"]
        /\ c("FWD") \in MinPlay["FWD"]..MaxPlay["FWD"]
    BY <1>3, FourPositions
  <2>3. c("GKP") = 1
    BY <1>5, <2>1, <2>2
  <2>4. c("FWD") = XiSize - 1 - c("DEF") - c("MID")
    BY <1>2, <1>3, <1>5, <2>1, <2>3
  <2>. QED  BY <2>1, <2>2, <2>3, <2>4
<1>7. /\ 1 <= Cardinality(Of(U, t, "GKP")) /\ c("DEF") <= Cardinality(Of(U, t, "DEF"))
      /\ c("MID") <= Cardinality(Of(U, t, "MID"))
      /\ XiSize - 1 - c("DEF") - c("MID") <= Cardinality(Of(U, t, "FWD"))
  BY <1>4, <1>6, FourPositions
<1>8. XiSize - 1 - c("DEF") - c("MID") \in MinPlay["FWD"]..MaxPlay["FWD"]
  BY <1>6
<1>9. PICK n \in Formations(U, t) : /\ n["GKP"] = 1 /\ n["DEF"] = c("DEF") /\ n["MID"] = c("MID")
                                    /\ n["FWD"] = XiSize - 1 - c("DEF") - c("MID")
  BY <1>6, <1>7, <1>8, ShapeIsAFormation
<1>10. \A k \in Position : n[k] = c(k)
  BY <1>6, <1>9, FourPositions
<1>. QED  BY <1>10 DEF c

(* A legal eleven has no more points than the best of its shape, nor has   *)
(* one who played in it more than the best who played in that.             *)
LEMMA BestOfItsShape ==
  ASSUME NEW U, NEW t, Slotted(U, t), NEW f, \A x \in U : f[x] \in Int /\ f[x] = t[x].actual,
         NEW F \in SUBSET U, LegalFormation(F, t),
         NEW n \in Formations(U, t), \A k \in Position : n[k] = Cardinality(Of(F, t, k))
  PROVE  LET X == ToSet(TopEleven(U, t, n, f))
         IN  /\ SumFunctionOnSet(f, F) \in Int /\ SumFunctionOnSet(f, X) \in Int /\ X \subseteq U
             /\ SumFunctionOnSet(f, F) <= SumFunctionOnSet(f, X)
             /\ \A x \in F : t[x].minutes > 0 => t[x].actual <= BestOf(X, t)
<1>. DEFINE X == ToSet(TopEleven(U, t, n, f))
            best(k) == {Nth(Of(U, t, k), f, i) : i \in 1..n[k]}
<1>1. X \subseteq U /\ \A k \in Position : Of(X, t, k) = best(k)
  <2>1. /\ TopEleven(U, t, n, f) \in Seq(U)
        /\ \A k \in Position : Of(ToSet(TopEleven(U, t, n, f)), t, k) = best(k)
    BY TopElevenIs
  <2>. QED  BY <2>1, ListIsOf
<1>. HIDE DEF X
<1>2. /\ IsFiniteSet(X) /\ IsFiniteSet(F)
      /\ \A x \in X : t[x].pos \in Position /\ f[x] \in Int
      /\ \A x \in F : t[x].pos \in Position /\ f[x] \in Int
  BY <1>1, FS_Subset DEF Slotted
<1>3. ASSUME NEW k \in Position
      PROVE  /\ SumFunctionOnSet(f, Of(F, t, k)) \in Int /\ SumFunctionOnSet(f, Of(X, t, k)) \in Int
             /\ SumFunctionOnSet(f, Of(F, t, k)) <= SumFunctionOnSet(f, Of(X, t, k))
             /\ \A x \in Of(F, t, k) : x \in Of(X, t, k) \/ \E a \in Of(X, t, k) : f[a] >= f[x]
  <2>. DEFINE T == Of(U, t, k)
              A == best(k)
              B == Of(F, t, k)
  <2>1. /\ T \in SUBSET Nat /\ IsFiniteSet(T) /\ T \subseteq U
        /\ Cardinality(T) \in Nat /\ \A x \in T : f[x] \in Int
    BY SlottedByPosition
  <2>2. B \subseteq T /\ Cardinality(B) = n[k]
    BY DEF Of
  <2>3. IsFiniteSet(B) /\ n[k] \in 0..Cardinality(T)
    <3>1. IsFiniteSet(B) /\ Cardinality(B) <= Cardinality(T)
      BY <2>1, <2>2, FS_Subset
    <3>. QED  BY <2>1, <2>2, <3>1, FS_CardinalityType
  <2>4. Of(X, t, k) = A /\ A = {Nth(T, f, i) : i \in 1..n[k]}
    BY <1>1
  <2>. HIDE DEF T, A, B
  <2>5. SumFunctionOnSet(f, A) >= SumFunctionOnSet(f, B)
    BY <2>1, <2>2, <2>3, <2>4, TheFirstOutweigh
  <2>6. /\ A \subseteq T /\ Cardinality(A) = n[k] /\ \A a \in A, b \in T \ A : f[a] >= f[b]
    BY <2>1, <2>3, <2>4, TheFirst
  <2>7. IsFiniteSet(A) /\ (\A x \in A : f[x] \in Int) /\ (\A x \in B : f[x] \in Int)
    BY <2>1, <2>2, <2>6, FS_Subset
  <2>8. SumFunctionOnSet(f, A) \in Int /\ SumFunctionOnSet(f, B) \in Int
    BY <2>3, <2>7, SumInt
  <2>9. ASSUME NEW x \in B PROVE x \in A \/ \E a \in A : f[a] >= f[x]
    <3>1. Cardinality(B) # 0
      BY <2>3, FS_EmptySet
    <3>2. A # {}
      BY <2>2, <2>6, <3>1, FS_EmptySet
    <3>. QED  BY <2>2, <2>6, <3>2
  <2>. QED  BY <2>4, <2>5, <2>8, <2>9 DEF B
<1>4. SumFunctionOnSet(f, F) \in Int /\ SumFunctionOnSet(f, X) \in Int
  BY <1>2, SumInt
<1>5. SumFunctionOnSet(f, F) <= SumFunctionOnSet(f, X)
  <2>1. SumFunctionOnSet(f, F)
          = SumFunctionOnSet(f, Of(F, t, "GKP")) + SumFunctionOnSet(f, Of(F, t, "DEF"))
              + SumFunctionOnSet(f, Of(F, t, "MID")) + SumFunctionOnSet(f, Of(F, t, "FWD"))
    BY <1>2, CountedByPosition
  <2>2. SumFunctionOnSet(f, X)
          = SumFunctionOnSet(f, Of(X, t, "GKP")) + SumFunctionOnSet(f, Of(X, t, "DEF"))
              + SumFunctionOnSet(f, Of(X, t, "MID")) + SumFunctionOnSet(f, Of(X, t, "FWD"))
    BY <1>2, CountedByPosition
  <2>. DEFINE u(k) == SumFunctionOnSet(f, Of(F, t, k))
              v(k) == SumFunctionOnSet(f, Of(X, t, k))
  <2>3. \A k \in Position : u(k) \in Int /\ v(k) \in Int /\ u(k) <= v(k)
    BY <1>3
  <2>4. SumFunctionOnSet(f, F) = u("GKP") + u("DEF") + u("MID") + u("FWD")
        /\ SumFunctionOnSet(f, X) = v("GKP") + v("DEF") + v("MID") + v("FWD")
    BY <2>1, <2>2
  <2>. HIDE DEF u, v
  <2>. QED  BY <2>3, <2>4, FourPositions
<1>6. ASSUME NEW x \in F, t[x].minutes > 0 PROVE t[x].actual <= BestOf(X, t)
  <2>. DEFINE k == t[x].pos
  <2>1. k \in Position /\ x \in Of(F, t, k) /\ x \in U
    BY DEF Slotted, Of
  <2>2. x \in Of(X, t, k) \/ \E a \in Of(X, t, k) : f[a] >= f[x]
    BY <1>3, <2>1
  <2>3. /\ BestOf(X, t) \in Int /\ BestOf(X, t) >= 0
        /\ \A y \in X : t[y].minutes > 0 => BestOf(X, t) >= t[y].actual
    BY <1>1, BestOfIs
  <2>4. /\ t[x].actual \in Int /\ f[x] = t[x].actual
        /\ \A y \in U : /\ t[y].minutes \in Nat /\ f[y] = t[y].actual /\ t[y].actual \in Int
                        /\ t[y].minutes = 0 => t[y].actual <= 0
    BY <2>1 DEF Slotted
  <2>5. CASE x \in Of(X, t, k)
    <3>1. x \in X
      BY <2>5 DEF Of
    <3>. QED  BY <1>6, <2>3, <2>4, <3>1
  <2>6. CASE \E a \in Of(X, t, k) : f[a] >= f[x]
    <3>1. PICK a \in X : f[a] >= f[x]
      BY <2>6 DEF Of
    <3>2. a \in U
      BY <1>1
    <3>3. CASE t[x].actual <= 0
      BY <2>3, <2>4, <3>3
    <3>4. CASE ~(t[x].actual <= 0)
      <4>1. t[a].minutes > 0 /\ t[a].actual >= t[x].actual
        BY <2>4, <3>1, <3>2, <3>4
      <4>. QED  BY <2>3, <2>4, <3>1, <3>2, <4>1
    <3>. QED  BY <3>3, <3>4
  <2>. QED  BY <2>2, <2>5, <2>6
<1>. QED  BY <1>1, <1>4, <1>5, <1>6 DEF X

(* What a lineup scores, its substitutes and its armband with it.          *)
LEMMA ScoredWithinCeiling ==
  ASSUME NEW U, NEW t, Slotted(U, t), NEW l, LineupOf(l, U, t)
  PROVE  ScoreLineup(l, t).points <= CeilingFor(U, t)
<1>. DEFINE f == [x \in U |-> t[x].actual]
            F == PlayedOut(l, t).fielded
            d == Doubled(l, t)
            c == CeilingFor(U, t)
<1>0. /\ U \in SUBSET Nat /\ IsFiniteSet(U)
      /\ \A x \in U : /\ t[x].pos \in Position /\ t[x].minutes \in Nat /\ t[x].actual \in Int
                      /\ f[x] \in Int /\ f[x] = t[x].actual
  BY DEF Slotted
<1>. HIDE DEF f
<1>1. ScoreLineup(l, t).points = Sum(F, LAMBDA x : t[x].actual) + ActualOf(d, t)
  BY DEF ScoreLineup
<1>2. /\ F \subseteq U /\ LegalFormation(F, t)
      /\ \A x \in ToSet(l.starters) \ F : t[x].minutes = 0
  <2>1. IsFiniteSet(U) /\ (\A x \in U : t[x].pos \in Position) /\ \A x \in U : t[x].minutes \in Nat
    BY <1>0
  <2>. HIDE DEF d, c
  <2>. QED  BY <2>1, PlayedIsComplete
<1>. HIDE DEF F, d, c
<1>3. Sum(F, LAMBDA x : t[x].actual) = SumFunctionOnSet(f, F)
  <2>1. IsFiniteSet(F) /\ \A x \in F : f[x] \in Int /\ f[x] = t[x].actual
    BY <1>0, <1>2, FS_Subset
  <2>. QED  BY <2>1, TotalActual
<1>4. PICK n \in Formations(U, t) : \A k \in Position : n[k] = Cardinality(Of(F, t, k))
  BY <1>2, LegalHasAFormation
<1>. DEFINE X == ToSet(TopEleven(U, t, n, f))
<1>5. /\ SumFunctionOnSet(f, F) \in Int /\ SumFunctionOnSet(f, X) \in Int /\ X \subseteq U
      /\ SumFunctionOnSet(f, F) <= SumFunctionOnSet(f, X)
      /\ \A x \in F : t[x].minutes > 0 => t[x].actual <= BestOf(X, t)
  BY <1>0, <1>2, <1>4, BestOfItsShape
<1>6. c \in Int /\ c >= SumFunctionOnSet(f, X) + BestOf(X, t)
  BY <1>0, CeilingIsHighest DEF c
<1>. HIDE DEF X
<1>7. BestOf(X, t) \in Int /\ BestOf(X, t) >= 0
  BY <1>5, BestOfIs
<1>8. ActualOf(d, t) \in Int /\ ActualOf(d, t) <= BestOf(X, t)
  <2>1. d = Nobody \/ (d \in ToSet(l.starters) /\ t[d].minutes > 0)
    BY DEF d, Doubled, LineupOf
  <2>2. CASE d = Nobody
    BY <1>7, <2>2 DEF ActualOf
  <2>3. CASE d \in ToSet(l.starters) /\ t[d].minutes > 0
    <3>1. d \in F
      BY <1>2, <2>3
    <3>2. d \in U /\ t[d].actual \in Int
      BY <1>0, <1>2, <3>1
    <3>3. ActualOf(d, t) = t[d].actual
      BY <1>0, <3>2 DEF ActualOf, Nobody
    <3>. QED  BY <1>5, <2>3, <3>1, <3>2, <3>3
  <2>. QED  BY <2>1, <2>2, <2>3
<1>9. ScoreLineup(l, t).points <= c
  BY <1>1, <1>3, <1>5, <1>6, <1>7, <1>8
<1>. QED  BY <1>9 DEF c

-----------------------------------------------------------------------------
(* The rounds recorded.                                                    *)

(* A row of the backtest.                                                  *)
IsRow(r) ==
    /\ r.minutes \in Nat
    /\ r.points \in Int /\ r.pPlay \in Int /\ r.actual \in Int
    /\ r.minutes = 0 => r.actual <= 0

LEMMA LastIsARow ==
  ASSUME NEW i \in DOMAIN Rounds, NEW said \in Markets[i],
         NEW of, \A p \in DOMAIN said : of[p] \subseteq DOMAIN said[p],
         NEW p \in DOMAIN said, of[p] # {}
  PROVE  IsRow(said[p][Max(of[p])])
<1>1. PICK n \in Nat : DOMAIN said[p] = 1..n
  BY RowsAssumption
<1>2. of[p] \in SUBSET Nat /\ IsFiniteSet(of[p])
  BY <1>1, FS_Interval, FS_Subset
<1>3. Max(of[p]) \in DOMAIN said[p]
  BY <1>2, MaxIsIn
<1>4. \A j \in DOMAIN said[p] : IsRow(said[p][j])
  BY RowsAssumption DEF IsRow
<1>. QED  BY <1>3, <1>4

LEMMA RowsOfARound ==
  ASSUME NEW i \in DOMAIN Rounds, NEW said \in Markets[i]
  PROVE  /\ \A p \in DOMAIN ByRound(said) : IsRow(ByRound(said)[p])
         /\ \A p \in DOMAIN EveryRow(said) : IsRow(EveryRow(said)[p])
<1>1. \A p \in DOMAIN ByRound(said) : IsRow(ByRound(said)[p])
  <2>. DEFINE of == [p \in DOMAIN said |-> {j \in DOMAIN said[p] : Common(said[p][j])}]
              m == [p \in {q \in DOMAIN said : of[q] # {}} |-> said[p][Max(of[p])]]
  <2>1. ByRound(said) = m
    BY DEF ByRound, LastOf
  <2>2. \A p \in DOMAIN said : of[p] \subseteq DOMAIN said[p]
    OBVIOUS
  <2>3. \A p \in DOMAIN m : p \in DOMAIN said /\ of[p] # {} /\ m[p] = said[p][Max(of[p])]
    OBVIOUS
  <2>. HIDE DEF of, m
  <2>. QED  BY <2>1, <2>2, <2>3, LastIsARow
<1>2. \A p \in DOMAIN EveryRow(said) : IsRow(EveryRow(said)[p])
  <2>. DEFINE of == [p \in DOMAIN said |-> {j \in DOMAIN said[p] : TRUE}]
              m == [p \in {q \in DOMAIN said : of[q] # {}} |-> said[p][Max(of[p])]]
  <2>1. EveryRow(said) = m
    BY DEF EveryRow, LastOf
  <2>2. \A p \in DOMAIN said : of[p] \subseteq DOMAIN said[p]
    OBVIOUS
  <2>3. \A p \in DOMAIN m : p \in DOMAIN said /\ of[p] # {} /\ m[p] = said[p][Max(of[p])]
    OBVIOUS
  <2>. HIDE DEF of, m
  <2>. QED  BY <2>1, <2>2, <2>3, LastIsARow
<1>. QED  BY <1>1, <1>2

(* What was seen is a number, and the round last recorded is of the squad  *)
(* held, of a lineup of it, and scored as that lineup scores.              *)
SeenInv == \A p \in DOMAIN seen : seen[p].points \in Int /\ seen[p].pPlay \in Int

Recorded(r, squad) ==
    /\ DOMAIN r.table = squad /\ Slotted(squad, r.table)
    /\ LineupOf(r.lineup, squad, r.table)
    /\ r.scored = ScoreLineup(r.lineup, r.table)

RecordInv == SeenInv /\ (Walked => Recorded(last, Squadron))

LEMMA SlotsAreOfTheSquad ==
  ASSUME SeenInv, NEW U \in SUBSET DOMAIN Pos, Shape(U),
         NEW m, \A p \in DOMAIN m : IsRow(m[p]), NEW rows
  PROVE  /\ DOMAIN Slots(U, m, rows) = U
         /\ \A p \in U : Slots(U, m, rows)[p].pos = Pos[p]
         /\ Slotted(U, Slots(U, m, rows))
<1>. DEFINE t == Slots(U, m, rows)
<1>1. DOMAIN t = U /\ \A p \in U : t[p] = Slot(p, m, rows)
  BY DEF Slots
<1>. HIDE DEF t
<1>2. ASSUME NEW p \in U
      PROVE  /\ t[p].pos = Pos[p]
             /\ t[p].predicted \in Int /\ t[p].pPlay \in Int /\ t[p].actual \in Int
             /\ t[p].minutes \in Nat
             /\ t[p].minutes = 0 => t[p].actual <= 0
  <2>1. CASE p \in DOMAIN m
    <3>1. t[p] = [pos |-> Pos[p], predicted |-> m[p].points, pPlay |-> m[p].pPlay,
                  minutes |-> m[p].minutes, actual |-> m[p].actual]
      BY <1>1, <2>1 DEF Slot
    <3>2. IsRow(m[p])
      BY <2>1
    <3>. QED  BY <3>1, <3>2 DEF IsRow
  <2>2. CASE p \notin DOMAIN m
    <3>1. \/ t[p] = [pos |-> Pos[p], predicted |-> 0, pPlay |-> 0, minutes |-> 0, actual |-> 0]
          \/ /\ p \in DOMAIN seen
             /\ t[p] = [pos |-> Pos[p], predicted |-> seen[p].points, pPlay |-> seen[p].pPlay,
                        minutes |-> 0, actual |-> 0]
      BY <1>1, <2>2 DEF Slot
    <3>. QED  BY <3>1 DEF SeenInv
  <2>. QED  BY <2>1, <2>2
<1>3. U \in SUBSET Nat /\ IsFiniteSet(U) /\ \A p \in U : Pos[p] \in Position
  BY HoldersAreFinite, RowsAssumption
<1>4. \A k \in Position : Cardinality(Of(U, t, k)) = SquadSelect[k]
  <2>1. \A k : Of(U, t, k) = {p \in U : Pos[p] = k}
    BY <1>2, OfIsPos
  <2>. QED  BY <2>1 DEF Shape
<1>5. Slotted(U, t)
  BY <1>2, <1>3, <1>4 DEF Slotted
<1>. QED  BY <1>1, <1>2, <1>5 DEF t

LEMMA SeenIsANumber ==
  ASSUME SeenInv, NEW m, \A p \in DOMAIN m : IsRow(m[p]), seen' = SeenAfter(m)
  PROVE  SeenInv'
<1>. DEFINE g == [p \in DOMAIN m |-> [points |-> m[p].points, pPlay |-> m[p].pPlay]]
<1>1. /\ DOMAIN seen' = DOMAIN m \cup DOMAIN seen
      /\ \A p \in DOMAIN seen' : seen'[p] = IF p \in DOMAIN m THEN g[p] ELSE seen[p]
  BY DEF SeenAfter, Onto
<1>2. \A p \in DOMAIN m : g[p].points = m[p].points /\ g[p].pPlay = m[p].pPlay
  OBVIOUS
<1>. HIDE DEF g
<1>3. \A p \in DOMAIN m : m[p].points \in Int /\ m[p].pPlay \in Int
  BY DEF IsRow
<1>4. ASSUME NEW p \in DOMAIN seen' PROVE seen'[p].points \in Int /\ seen'[p].pPlay \in Int
  <2>1. CASE p \in DOMAIN m
    BY <1>1, <1>2, <1>3, <2>1
  <2>2. CASE p \notin DOMAIN m
    <3>1. p \in DOMAIN seen /\ seen'[p] = seen[p]
      BY <1>1, <2>2
    <3>. QED  BY <3>1 DEF SeenInv
  <2>. QED  BY <2>1, <2>2
<1>. QED  BY <1>4 DEF SeenInv

LEMMA RecordedPlayed ==
  ASSUME SeasonInv, SeasonInv', RecordInv, NEW said \in Markets[at + 1], at + 1 \in DOMAIN Rounds, PlayRound(said)
  PROVE  RecordInv'
<1>. DEFINE m == ByRound(said)
            rows == Onto(m, known)
<1>0. \A p \in DOMAIN m : IsRow(m[p])
  BY RowsOfARound
<1>1. PICK moves \in Decide(m, rows) :
         LET squad == AfterMoves(moves, rows)
             t     == Slots(DOMAIN squad, m, rows)
             l     == ChooseLineup(DOMAIN squad, t)
         IN  /\ owned' = squad
             /\ seen' = SeenAfter(m)
             /\ last'.table = t /\ last'.lineup = l /\ last'.scored = ScoreLineup(l, t)
  BY DEF PlayRound
<1>. DEFINE squad == AfterMoves(moves, rows)
            U == DOMAIN squad
            t == Slots(U, m, rows)
            l == ChooseLineup(U, t)
<1>2. /\ owned' = squad
      /\ seen' = SeenAfter(m)
      /\ last'.table = t /\ last'.lineup = l /\ last'.scored = ScoreLineup(l, t)
  BY <1>1
<1>3. U = Squadron'
  BY <1>2 DEF Squadron
<1>4. U \in SUBSET DOMAIN Pos /\ Shape(U)
  BY <1>3 DEF SeasonInv, Shape
<1>. HIDE DEF m, rows, squad, U
<1>5. DOMAIN t = U /\ Slotted(U, t)
  BY <1>0, <1>4, SlotsAreOfTheSquad DEF RecordInv
<1>. HIDE DEF t
<1>6. LineupOf(l, U, t)
  BY <1>5, ChosenLineup
<1>. HIDE DEF l
<1>7. SeenInv'
  BY <1>0, <1>2, SeenIsANumber DEF RecordInv
<1>8. Recorded(last', U)
  BY <1>2, <1>5, <1>6 DEF Recorded
<1>. QED  BY <1>3, <1>7, <1>8 DEF RecordInv

LEMMA RecordedHeld ==
  ASSUME SeasonInv, RecordInv, NEW said \in Markets[at + 1], at + 1 \in DOMAIN Rounds,
         HoldRound(said) \/ ReplayRound(said)
  PROVE  RecordInv'
<1>. DEFINE U == Squadron
<1>1. PICK m : /\ \A p \in DOMAIN m : IsRow(m[p])
               /\ owned' = owned
               /\ \/ UNCHANGED <<seen, last>>
                  \/ /\ seen' = SeenAfter([p \in Squadron \intersect DOMAIN m |-> m[p]])
                     /\ LET t == Slots(Squadron, m, Opening)
                        IN  \E l : /\ \/ l = ChooseLineup(Squadron, t)
                                      \/ \E a \in SolveSquad(Squadron, HeldCandidates(t)) : l = SolvedLineup(a, t)
                                   /\ last'.table = t /\ last'.lineup = l /\ last'.scored = ScoreLineup(l, t)
  <2>1. /\ \A p \in DOMAIN ByRound(said) : IsRow(ByRound(said)[p])
        /\ \A p \in DOMAIN EveryRow(said) : IsRow(EveryRow(said)[p])
    BY RowsOfARound
  <2>2. CASE HoldRound(said)
    BY <2>1, <2>2 DEF HoldRound, Hold
  <2>3. CASE ReplayRound(said)
    BY <2>1, <2>3 DEF ReplayRound, Hold
  <2>. QED  BY <2>2, <2>3
<1>2. U = Squadron' /\ U \in SUBSET DOMAIN Pos /\ Shape(U)
  BY <1>1 DEF SeasonInv, Squadron
<1>3. ASSUME UNCHANGED <<seen, last>> PROVE RecordInv'
  BY <1>2, <1>3 DEF RecordInv, SeenInv, Walked
<1>4. ASSUME NEW l,
             seen' = SeenAfter([p \in Squadron \intersect DOMAIN m |-> m[p]]),
             LET t == Slots(Squadron, m, Opening)
             IN  /\ \/ l = ChooseLineup(Squadron, t)
                    \/ \E a \in SolveSquad(Squadron, HeldCandidates(t)) : l = SolvedLineup(a, t)
                 /\ last'.table = t /\ last'.lineup = l /\ last'.scored = ScoreLineup(l, t)
      PROVE  RecordInv'
  <2>. DEFINE t == Slots(U, m, Opening)
              n == [p \in U \intersect DOMAIN m |-> m[p]]
  <2>1. /\ DOMAIN t = U /\ Slotted(U, t) /\ \A p \in U : t[p].pos = Pos[p]
    BY <1>1, <1>2, SlotsAreOfTheSquad DEF RecordInv
  <2>2. SeenInv'
    <3>1. \A p \in DOMAIN n : IsRow(n[p])
      BY <1>1
    <3>2. seen' = SeenAfter(n)
      BY <1>4
    <3>. HIDE DEF n
    <3>. QED  BY <3>1, <3>2, SeenIsANumber DEF RecordInv
  <2>3. /\ l = ChooseLineup(U, t) \/ \E a \in SolveSquad(U, HeldCandidates(t)) : l = SolvedLineup(a, t)
        /\ last'.table = t /\ last'.lineup = l /\ last'.scored = ScoreLineup(l, t)
    BY <1>4
  <2>. HIDE DEF t
  <2>4. LineupOf(l, U, t)
    <3>1. CASE l = ChooseLineup(U, t)
      BY <2>1, <3>1, ChosenLineup
    <3>2. CASE \E a \in SolveSquad(U, HeldCandidates(t)) : l = SolvedLineup(a, t)
      BY <2>1, <3>2, SolverLineup
    <3>. QED  BY <2>3, <3>1, <3>2
  <2>. HIDE DEF U
  <2>5. Recorded(last', U)
    BY <2>1, <2>3, <2>4 DEF Recorded
  <2>. QED  BY <1>2, <2>2, <2>5 DEF RecordInv
<1>. QED  BY <1>1, <1>3, <1>4

LEMMA RecordStep == SeasonInv /\ RecordInv /\ [Next]_vars => RecordInv'
<1>. SUFFICES ASSUME SeasonInv, RecordInv, [Next]_vars PROVE RecordInv'
  OBVIOUS
<1>1. CASE UNCHANGED vars
  BY <1>1 DEF RecordInv, SeenInv, Walked, Squadron, vars
<1>2. ASSUME NEW said \in Markets[at + 1], at < Len(Rounds),
             PlayRound(said) \/ HoldRound(said) \/ ReplayRound(said)
      PROVE  RecordInv'
  <2>1. at + 1 \in DOMAIN Rounds
    BY <1>2, SeasonAssumption DEF SeasonInv
  <2>2. SeasonInv'
    BY SeasonStep
  <2>. QED  BY <1>2, <2>1, <2>2, RecordedPlayed, RecordedHeld
<1>. QED  BY <1>1, <1>2 DEF Next

LEMMA RecordRuns == Spec => [](SeasonInv /\ RecordInv)
<1>1. Init => RecordInv
  BY DEF Init, RecordInv, SeenInv, Walked
<1>2. SeasonInv /\ RecordInv /\ [Next]_vars => RecordInv'
  BY RecordStep
<1>3. SeasonInv /\ [Next]_vars => SeasonInv'
  BY SeasonStep
<1>. QED  BY SeasonInit, <1>1, <1>2, <1>3, PTL DEF Spec

-----------------------------------------------------------------------------
(* The theorems of the round.                                              *)

(* What the automatic substitutions leave on the pitch is an eleven the    *)
(* rules allow (squad-scoring.ts:76), and no substitute with minutes is    *)
(* left on the bench who could have replaced a starter without.            *)
THEOREM SubstitutionsAreCompleteAlways == Spec => []SubstitutionsAreComplete
<1>1. RecordInv => SubstitutionsAreComplete
  <2>. SUFFICES ASSUME RecordInv, Walked PROVE SubstitutionsAreComplete
    BY DEF SubstitutionsAreComplete
  <2>. DEFINE U == Squadron
              t == last.table
              l == last.lineup
              F == PlayedOut(l, t).fielded
  <2>1. DOMAIN t = U /\ Slotted(U, t) /\ LineupOf(l, U, t) /\ last.scored.fielded = F
    BY DEF RecordInv, Recorded, ScoreLineup
  <2>. HIDE DEF U
  <2>2. /\ IsFiniteSet(U)
        /\ \A x \in U : t[x].pos \in Position
        /\ \A x \in U : t[x].minutes \in Nat
    BY <2>1 DEF Slotted
  <2>. HIDE DEF t, l
  <2>3. /\ LegalFormation(F, t)
        /\ \A off \in F, on \in U \ F :
              (t[off].minutes = 0 /\ t[on].minutes > 0) => ~LegalFormation((F \ {off}) \cup {on}, t)
    BY <2>1, <2>2, PlayedIsComplete
  <2>. QED  BY <2>1, <2>3 DEF SubstitutionsAreComplete, Field, t
<1>. QED  BY RecordRuns, <1>1, PTL

(* "The points ceiling of the same fifteen" bounds what a lineup of it     *)
(* scores, substitutes and vice-captain included (xi-decision.ts:205).     *)
THEOREM WithinCeilingAlways == Spec => []WithinCeiling
<1>1. RecordInv => WithinCeiling
  <2>. SUFFICES ASSUME RecordInv, Walked PROVE WithinCeiling
    BY DEF WithinCeiling
  <2>1. /\ Slotted(Squadron, last.table) /\ LineupOf(last.lineup, Squadron, last.table)
        /\ last.scored = ScoreLineup(last.lineup, last.table)
    BY DEF RecordInv, Recorded
  <2>2. ScoreLineup(last.lineup, last.table).points <= CeilingFor(Squadron, last.table)
    BY <2>1, ScoredWithinCeiling
  <2>. QED  BY <2>1, <2>2 DEF WithinCeiling, Field
<1>. QED  BY RecordRuns, <1>1, PTL

=============================================================================
