--------------------------- MODULE Planner_proofs ---------------------------
(* Proofs about Planner, for any store, any squads and any jobs beside.    *)
EXTENDS Planner, Counting

-----------------------------------------------------------------------------
(* The programs.                                                           *)

LEMMA FourPositions == Position = {"GKP", "DEF", "MID", "FWD"}
<1>1. DOMAIN PositionOrder = 1..4
  BY DEF PositionOrder
<1>2. \A i \in 1..4 : i = 1 \/ i = 2 \/ i = 3 \/ i = 4
  OBVIOUS
<1>3. Position = {PositionOrder[1], PositionOrder[2], PositionOrder[3], PositionOrder[4]}
  BY <1>1, <1>2 DEF Position, ToSet
<1>. QED  BY <1>3 DEF PositionOrder

(* Either program's squads are of the players there are, and have of each  *)
(* position as many as the rules say.                                      *)
LEMMA FifteenHasItsShape ==
  ASSUME NEW S, NEW c, NEW s \in Fifteens(S, c)
  PROVE  /\ s \subseteq S
         /\ \A k \in Position : Cardinality(Of(s, c, k)) = SquadSelect[k]
<1>1. PICK g \in kSubset(SquadSelect["GKP"], Of(S, c, "GKP")),
           d \in kSubset(SquadSelect["DEF"], Of(S, c, "DEF")),
           m \in kSubset(SquadSelect["MID"], Of(S, c, "MID")),
           f \in kSubset(SquadSelect["FWD"], Of(S, c, "FWD")) :
               s = g \cup d \cup m \cup f
  BY DEF Fifteens
<1>2. /\ g \subseteq Of(S, c, "GKP") /\ Cardinality(g) = SquadSelect["GKP"]
      /\ d \subseteq Of(S, c, "DEF") /\ Cardinality(d) = SquadSelect["DEF"]
      /\ m \subseteq Of(S, c, "MID") /\ Cardinality(m) = SquadSelect["MID"]
      /\ f \subseteq Of(S, c, "FWD") /\ Cardinality(f) = SquadSelect["FWD"]
  BY DEF kSubset
<1>3. /\ Of(s, c, "GKP") = g /\ Of(s, c, "DEF") = d
      /\ Of(s, c, "MID") = m /\ Of(s, c, "FWD") = f
  BY <1>1, <1>2 DEF Of
<1>4. s \subseteq S
  BY <1>1, <1>2 DEF Of
<1>. QED  BY <1>2, <1>3, <1>4, FourPositions

(* No more than the rules allow are of one club.                           *)
LEMMA FifteenKeepsTheClubs ==
  ASSUME NEW S, NEW c, NEW s \in Fifteens(S, c)
  PROVE  \A p \in s : Cardinality({q \in s : c[q].club = c[p].club}) <= ClubLimit
<1>. DEFINE X == {g \cup d \cup m \cup f :
                    g \in kSubset(SquadSelect["GKP"], Of(S, c, "GKP")),
                    d \in kSubset(SquadSelect["DEF"], Of(S, c, "DEF")),
                    m \in kSubset(SquadSelect["MID"], Of(S, c, "MID")),
                    f \in kSubset(SquadSelect["FWD"], Of(S, c, "FWD"))}
            Fair(t) == \A k \in {c[x].club : x \in t} :
                          Cardinality({x \in t : c[x].club = k}) <= ClubLimit
<1>1. Fifteens(S, c) = {t \in X : Fair(t)}
  BY DEF Fifteens
<1>. HIDE DEF X, Fair
<1>2. Fair(s)
  BY <1>1
<1>. QED  BY <1>2 DEF Fair

LEMMA FourParts ==
  ASSUME NEW g, NEW d, NEW m, NEW f,
         IsFiniteSet(g), IsFiniteSet(d), IsFiniteSet(m), IsFiniteSet(f),
         g \cap d = {}, (g \cup d) \cap m = {}, (g \cup d \cup m) \cap f = {}
  PROVE  /\ IsFiniteSet(g \cup d \cup m \cup f)
         /\ Cardinality(g \cup d \cup m \cup f)
              = Cardinality(g) + Cardinality(d) + Cardinality(m) + Cardinality(f)
<1>0. /\ Cardinality(g) \in Nat /\ Cardinality(d) \in Nat /\ Cardinality(m) \in Nat
      /\ Cardinality(f) \in Nat /\ Cardinality({}) = 0
  BY FS_CardinalityType, FS_EmptySet
<1>1. IsFiniteSet(g \cup d) /\ Cardinality(g \cup d) = Cardinality(g) + Cardinality(d) - Cardinality({})
  BY FS_Union
<1>2. /\ IsFiniteSet(g \cup d \cup m)
      /\ Cardinality(g \cup d \cup m) = Cardinality(g \cup d) + Cardinality(m) - Cardinality({})
  BY <1>1, FS_Union
<1>3. /\ IsFiniteSet(g \cup d \cup m \cup f)
      /\ Cardinality(g \cup d \cup m \cup f) = Cardinality(g \cup d \cup m) + Cardinality(f) - Cardinality({})
  BY <1>2, FS_Union
<1>. QED  BY <1>0, <1>1, <1>2, <1>3

(* A fifteen is counted by its positions.                                  *)
LEMMA CountedByPosition ==
  ASSUME NEW s, NEW c, IsFiniteSet(s), \A p \in s : c[p].pos \in Position
  PROVE  Cardinality(s) = Cardinality(Of(s, c, "GKP")) + Cardinality(Of(s, c, "DEF"))
                            + Cardinality(Of(s, c, "MID")) + Cardinality(Of(s, c, "FWD"))
<1>. DEFINE g == Of(s, c, "GKP")
            d == Of(s, c, "DEF")
            m == Of(s, c, "MID")
            f == Of(s, c, "FWD")
<1>1. \A p \in s : c[p].pos \in {"GKP", "DEF", "MID", "FWD"}
  BY FourPositions
<1>2. /\ s = g \cup d \cup m \cup f
      /\ g \cap d = {} /\ (g \cup d) \cap m = {} /\ (g \cup d \cup m) \cap f = {}
      /\ g \subseteq s /\ d \subseteq s /\ m \subseteq s /\ f \subseteq s
  BY <1>1 DEF Of
<1>. HIDE DEF g, d, m, f
<1>3. IsFiniteSet(g) /\ IsFiniteSet(d) /\ IsFiniteSet(m) /\ IsFiniteSet(f)
  BY <1>2, FS_Subset
<1>. QED  BY <1>2, <1>3, FourParts DEF g, d, m, f

LEMMA SizeOfASquad ==
  SquadSize = SquadSelect["GKP"] + SquadSelect["DEF"] + SquadSelect["MID"] + SquadSelect["FWD"]
<1>. DEFINE n == SquadSelect
<1>1. n \in [Position -> Nat] /\ Position = {"GKP", "DEF", "MID", "FWD"}
  BY FourPositions, RulesAssumption
<1>2. SquadSize = SumFunctionOnSet(n, {"GKP", "DEF", "MID", "FWD"})
  BY <1>1 DEF SquadSize, SumFunction
<1>3. n["GKP"] \in Nat /\ n["DEF"] \in Nat /\ n["MID"] \in Nat /\ n["FWD"] \in Nat
  BY <1>1
<1>. HIDE DEF n
<1>4. /\ IsFiniteSet({}) /\ IsFiniteSet({"GKP"}) /\ IsFiniteSet({"GKP", "DEF"})
      /\ IsFiniteSet({"GKP", "DEF", "MID"})
  <2>1. /\ {} \cup {"GKP"} = {"GKP"} /\ {"GKP"} \cup {"DEF"} = {"GKP", "DEF"}
        /\ {"GKP", "DEF"} \cup {"MID"} = {"GKP", "DEF", "MID"}
    OBVIOUS
  <2>2. IsFiniteSet({"GKP"})
    BY FS_Singleton
  <2>3. IsFiniteSet({"GKP"} \cup {"DEF"})
    BY <2>2, FS_AddElement
  <2>4. IsFiniteSet({"GKP", "DEF"} \cup {"MID"})
    BY <2>1, <2>3, FS_AddElement
  <2>. QED  BY FS_EmptySet, <2>1, <2>2, <2>3, <2>4
<1>5. SumFunctionOnSet(n, {}) = 0
  BY <1>4, SumStep
<1>6. SumFunctionOnSet(n, {} \cup {"GKP"}) = n["GKP"] + SumFunctionOnSet(n, {})
  <2>1. "GKP" \notin {} /\ \A y \in {} \cup {"GKP"} : n[y] \in Int
    BY <1>3
  <2>. QED  BY <1>4, <2>1, SumAdd
<1>7. SumFunctionOnSet(n, {"GKP"} \cup {"DEF"}) = n["DEF"] + SumFunctionOnSet(n, {"GKP"})
  <2>1. "DEF" \notin {"GKP"} /\ \A y \in {"GKP"} \cup {"DEF"} : n[y] \in Int
    BY <1>3
  <2>. QED  BY <1>4, <2>1, SumAdd
<1>8. SumFunctionOnSet(n, {"GKP", "DEF"} \cup {"MID"}) = n["MID"] + SumFunctionOnSet(n, {"GKP", "DEF"})
  <2>1. "MID" \notin {"GKP", "DEF"} /\ \A y \in {"GKP", "DEF"} \cup {"MID"} : n[y] \in Int
    BY <1>3
  <2>. QED  BY <1>4, <2>1, SumAdd
<1>9. SumFunctionOnSet(n, {"GKP", "DEF", "MID"} \cup {"FWD"}) = n["FWD"] + SumFunctionOnSet(n, {"GKP", "DEF", "MID"})
  <2>1. "FWD" \notin {"GKP", "DEF", "MID"} /\ \A y \in {"GKP", "DEF", "MID"} \cup {"FWD"} : n[y] \in Int
    BY <1>3
  <2>. QED  BY <1>4, <2>1, SumAdd
<1>10. /\ {} \cup {"GKP"} = {"GKP"} /\ {"GKP"} \cup {"DEF"} = {"GKP", "DEF"}
       /\ {"GKP", "DEF"} \cup {"MID"} = {"GKP", "DEF", "MID"}
       /\ {"GKP", "DEF", "MID"} \cup {"FWD"} = {"GKP", "DEF", "MID", "FWD"}
  OBVIOUS
<1>. QED  BY <1>2, <1>3, <1>5, <1>6, <1>7, <1>8, <1>9, <1>10 DEF n

(* The shapes an eleven may have.                                          *)
LEMMA ShapeOfAFormation ==
  ASSUME NEW S, NEW t, NEW n \in Formations(S, t)
  PROVE  /\ n["GKP"] = 1
         /\ n["DEF"] \in MinPlay["DEF"]..MaxPlay["DEF"]
         /\ n["MID"] \in MinPlay["MID"]..MaxPlay["MID"]
         /\ n["FWD"] \in MinPlay["FWD"]..MaxPlay["FWD"]
         /\ n["FWD"] = XiSize - 1 - n["DEF"] - n["MID"]
<1>. DEFINE shape(d, m) == [p \in Position |-> CASE p = "GKP" -> 1 [] p = "DEF" -> d [] p = "MID" -> m
                                                 [] p = "FWD" -> XiSize - 1 - d - m]
            X == {shape(d, m) : d \in MinPlay["DEF"]..MaxPlay["DEF"], m \in MinPlay["MID"]..MaxPlay["MID"]}
            Fits(f) == /\ f["FWD"] \in MinPlay["FWD"]..MaxPlay["FWD"]
                       /\ \A p \in Position : f[p] <= Cardinality(Of(S, t, p))
<1>1. Formations(S, t) = {f \in X : Fits(f)}
  BY DEF Formations
<1>2. \A d, m : /\ shape(d, m)["GKP"] = 1 /\ shape(d, m)["DEF"] = d /\ shape(d, m)["MID"] = m
                /\ shape(d, m)["FWD"] = XiSize - 1 - d - m
  BY FourPositions
<1>. HIDE DEF shape, Fits
<1>3. n \in X /\ Fits(n)
  <2>. HIDE DEF X
  <2>. QED  BY <1>1
<1>4. PICK d \in MinPlay["DEF"]..MaxPlay["DEF"], m \in MinPlay["MID"]..MaxPlay["MID"] : n = shape(d, m)
  BY <1>3
<1>. QED  BY <1>2, <1>3, <1>4 DEF Fits

(* An eleven of the program is one the rules allow.                        *)
LEMMA ElevenIsLegal ==
  ASSUME NEW s, NEW c, IsFiniteSet(s), NEW xi \in Elevens(s, c)
  PROVE  xi \subseteq s /\ LegalFormation(xi, c)
<1>1. PICK n \in Formations(s, c) :
        \E g \in kSubset(n["GKP"], Of(s, c, "GKP")), d \in kSubset(n["DEF"], Of(s, c, "DEF")),
           m \in kSubset(n["MID"], Of(s, c, "MID")), f \in kSubset(n["FWD"], Of(s, c, "FWD")) :
              xi = g \cup d \cup m \cup f
  BY DEF Elevens
<1>2. PICK g \in kSubset(n["GKP"], Of(s, c, "GKP")), d \in kSubset(n["DEF"], Of(s, c, "DEF")),
           m \in kSubset(n["MID"], Of(s, c, "MID")), f \in kSubset(n["FWD"], Of(s, c, "FWD")) :
              xi = g \cup d \cup m \cup f
  BY <1>1
<1>3. /\ g \subseteq Of(s, c, "GKP") /\ Cardinality(g) = n["GKP"]
      /\ d \subseteq Of(s, c, "DEF") /\ Cardinality(d) = n["DEF"]
      /\ m \subseteq Of(s, c, "MID") /\ Cardinality(m) = n["MID"]
      /\ f \subseteq Of(s, c, "FWD") /\ Cardinality(f) = n["FWD"]
  BY DEF kSubset
<1>4. /\ Of(xi, c, "GKP") = g /\ Of(xi, c, "DEF") = d
      /\ Of(xi, c, "MID") = m /\ Of(xi, c, "FWD") = f
      /\ g \subseteq s /\ d \subseteq s /\ m \subseteq s /\ f \subseteq s
      /\ g \cap d = {} /\ (g \cup d) \cap m = {} /\ (g \cup d \cup m) \cap f = {}
  BY <1>2, <1>3 DEF Of
<1>5. Cardinality(xi) = n["GKP"] + n["DEF"] + n["MID"] + n["FWD"]
  <2>1. IsFiniteSet(g) /\ IsFiniteSet(d) /\ IsFiniteSet(m) /\ IsFiniteSet(f)
    BY <1>4, FS_Subset
  <2>2. Cardinality(g \cup d \cup m \cup f)
          = Cardinality(g) + Cardinality(d) + Cardinality(m) + Cardinality(f)
    BY <1>4, <2>1, FourParts
  <2>. QED  BY <1>2, <1>3, <2>2
<1>6. /\ n["GKP"] = 1
      /\ n["DEF"] \in MinPlay["DEF"]..MaxPlay["DEF"]
      /\ n["MID"] \in MinPlay["MID"]..MaxPlay["MID"]
      /\ n["FWD"] \in MinPlay["FWD"]..MaxPlay["FWD"]
      /\ n["FWD"] = XiSize - 1 - n["DEF"] - n["MID"]
  BY <1>1, ShapeOfAFormation
<1>7. /\ XiSize \in Nat
      /\ MinPlay["GKP"] = 1 /\ MaxPlay["GKP"] = 1
      /\ MinPlay["DEF"] \in Nat /\ MaxPlay["DEF"] \in Nat
      /\ MinPlay["MID"] \in Nat /\ MaxPlay["MID"] \in Nat
  BY FourPositions, RulesAssumption
<1>8. Cardinality(xi) = XiSize
  BY <1>5, <1>6, <1>7
<1>9. \A p \in Position : Cardinality(Of(xi, c, p)) \in MinPlay[p]..MaxPlay[p]
  BY <1>3, <1>4, <1>6, <1>7, FourPositions
<1>10. xi \subseteq s
  BY <1>2, <1>4
<1>. QED  BY <1>8, <1>9, <1>10 DEF LegalFormation

(* What the solver returns: a squad of the program, an eleven of it, and   *)
(* no solution over any squad of the program worth more.                   *)
LEMMA OptimumOf ==
  ASSUME NEW squad, NEW market, NEW c, NEW money, NEW ft, NEW most,
         NEW a \in SolveTransfers(squad, market, c, money, ft, most)
  PROVE  /\ a.squad \in TransferProgram(squad, market, c, money, most)
         /\ a.xi \in Elevens(a.squad, c)
         /\ \A s \in TransferProgram(squad, market, c, money, most) :
               \A b \in SolutionsOver(s, HitsOf(squad, s, ft), c) : a.value >= b.value
<1>1. PICK s \in TransferProgram(squad, market, c, money, most) :
         a \in SolutionsOver(s, HitsOf(squad, s, ft), c)
  BY DEF SolveTransfers, Optima
<1>2. PICK xi \in Elevens(s, c) : \E captain, value :
         a = [squad |-> s, xi |-> xi, captain |-> captain, hits |-> HitsOf(squad, s, ft),
              value |-> value]
  BY <1>1 DEF SolutionsOver
<1>3. a.squad = s /\ a.xi = xi
  BY <1>2
<1>4. \A t \in TransferProgram(squad, market, c, money, most) :
         \A b \in SolutionsOver(t, HitsOf(squad, t, ft), c) : a.value >= b.value
  BY DEF SolveTransfers, Optima
<1>. QED  BY <1>3, <1>4

-----------------------------------------------------------------------------
(* The moves of a plan.                                                    *)

(* Every departure is paired when the squad lacks nobody the plan brings.  *)
LEMMA PairedMoves ==
  ASSUME NEW O \in SUBSET Nat, NEW N \in SUBSET Nat, IsFiniteSet(O), IsFiniteSet(N), NEW c,
         \A p \in O \cup N : c[p].pos \in Position /\ c[p].ep \in Int,
         \A k \in Position : Cardinality(Of(O, c, k)) <= Cardinality(Of(N, c, k))
  PROVE  LET moves == PairMoves(O, N, c)
         IN  /\ {mv.out : mv \in moves} = O
             /\ {mv.in : mv \in moves} \subseteq N
             /\ (\A k \in Position : Cardinality(Of(O, c, k)) = Cardinality(Of(N, c, k)))
                   => {mv.in : mv \in moves} = N
<1>. DEFINE moves == PairMoves(O, N, c)
            nO(k) == Cardinality(Of(O, c, k))
            nN(k) == Cardinality(Of(N, c, k))
            fO == [p \in O |-> -c[p].ep]
            fN == [p \in N |-> c[p].ep]
            out(k, i) == Nth(Of(O, c, k), fO, i)
            in(k, i) == Nth(Of(N, c, k), fN, i)
            pair(k, i) == [out |-> out(k, i), in |-> in(k, i)]
<1>1. \A mv : mv \in moves <=> \E k \in Position : \E i \in (1..nO(k)) \cap (1..nN(k)) : mv = pair(k, i)
  <2>. DEFINE eo(k, i) == CHOOSE x \in Of(O, c, k) :
                     Cardinality({y \in Of(O, c, k) : -c[y].ep > -c[x].ep \/ (-c[y].ep = -c[x].ep /\ y < x)}) = i - 1
              outs(k) == [i \in 1..nO(k) |-> eo(k, i)]
              ei(k, i) == CHOOSE x \in Of(N, c, k) :
                     Cardinality({y \in Of(N, c, k) : c[y].ep > c[x].ep \/ (c[y].ep = c[x].ep /\ y < x)}) = i - 1
              ins(k) == [i \in 1..nN(k) |-> ei(k, i)]
              Q(k) == {[out |-> outs(k)[i], in |-> ins(k)[i]] : i \in DOMAIN outs(k) \cap DOMAIN ins(k)}
  <2>1. moves = UNION {Q(k) : k \in Position}
    BY Zenon DEF PairMoves, Ranked, Ahead
  <2>2. \A k : outs(k) = [i \in 1..nO(k) |-> out(k, i)]
    <3>. TAKE k
    <3>1. Of(O, c, k) \subseteq O
      BY DEF Of
    <3>2. \A x \in Of(O, c, k) :
             {y \in Of(O, c, k) : -c[y].ep > -c[x].ep \/ (-c[y].ep = -c[x].ep /\ y < x)}
               = Leading(Of(O, c, k), fO, x)
      BY <3>1 DEF Leading
    <3>3. \A i : eo(k, i) = out(k, i)
      BY <3>2 DEF Nth
    <3>. HIDE DEF eo, out, nO
    <3>. QED  BY <3>3
  <2>3. \A k : ins(k) = [i \in 1..nN(k) |-> in(k, i)]
    <3>. TAKE k
    <3>1. Of(N, c, k) \subseteq N
      BY DEF Of
    <3>2. \A x \in Of(N, c, k) :
             {y \in Of(N, c, k) : c[y].ep > c[x].ep \/ (c[y].ep = c[x].ep /\ y < x)}
               = Leading(Of(N, c, k), fN, x)
      BY <3>1 DEF Leading
    <3>3. \A i : ei(k, i) = in(k, i)
      BY <3>2 DEF Nth
    <3>. HIDE DEF ei, in, nN
    <3>. QED  BY <3>3
  <2>. HIDE DEF outs, ins, out, in, nO, nN, moves
  <2>4. \A k, mv : mv \in Q(k) <=> \E i \in (1..nO(k)) \cap (1..nN(k)) : mv = pair(k, i)
    <3>. TAKE k, mv
    <3>1. /\ DOMAIN outs(k) = 1..nO(k) /\ DOMAIN ins(k) = 1..nN(k)
          /\ \A i \in 1..nO(k) : outs(k)[i] = out(k, i)
          /\ \A i \in 1..nN(k) : ins(k)[i] = in(k, i)
      BY <2>2, <2>3
    <3>. QED  BY <3>1
  <2>. HIDE DEF Q, pair
  <2>. QED  BY <2>1, <2>4
<1>2. \A k : /\ Of(O, c, k) \subseteq O /\ Of(N, c, k) \subseteq N
             /\ nO(k) \in Nat /\ nN(k) \in Nat
  <2>. TAKE k
  <2>1. Of(O, c, k) \subseteq O /\ Of(N, c, k) \subseteq N
    BY DEF Of
  <2>2. IsFiniteSet(Of(O, c, k)) /\ IsFiniteSet(Of(N, c, k))
    BY <2>1, FS_Subset
  <2>. QED  BY <2>1, <2>2, FS_CardinalityType
<1>3. \A k \in Position :
         /\ \A i \in 1..nO(k) : out(k, i) \in Of(O, c, k)
         /\ \A p \in Of(O, c, k) : \E i \in 1..nO(k) : out(k, i) = p
  <2>. TAKE k \in Position
  <2>1. /\ Of(O, c, k) \in SUBSET Nat /\ IsFiniteSet(Of(O, c, k))
        /\ \A x \in Of(O, c, k) : fO[x] \in Int
    <3>1. Of(O, c, k) \subseteq O
      BY <1>2
    <3>. QED  BY <3>1, FS_Subset
  <2>. HIDE DEF fO
  <2>. QED  BY <2>1, RanksAreAll
<1>4. \A k \in Position :
         /\ \A i \in 1..nN(k) : in(k, i) \in Of(N, c, k)
         /\ \A p \in Of(N, c, k) : \E i \in 1..nN(k) : in(k, i) = p
  <2>. TAKE k \in Position
  <2>1. /\ Of(N, c, k) \in SUBSET Nat /\ IsFiniteSet(Of(N, c, k))
        /\ \A x \in Of(N, c, k) : fN[x] \in Int
    <3>1. Of(N, c, k) \subseteq N
      BY <1>2
    <3>. QED  BY <3>1, FS_Subset
  <2>. HIDE DEF fN
  <2>. QED  BY <2>1, RanksAreAll
<1>5. /\ \A p \in O : \E k \in Position : p \in Of(O, c, k)
      /\ \A p \in N : \E k \in Position : p \in Of(N, c, k)
  BY DEF Of
<1>6. \A k, i : pair(k, i).out = out(k, i) /\ pair(k, i).in = in(k, i)
  OBVIOUS
<1>7. \A k \in Position : nO(k) <= nN(k)
  OBVIOUS
<1>. HIDE DEF moves, pair, out, in
<1>8. {mv.out : mv \in moves} = O
  <2>1. \A mv \in moves : mv.out \in O
    <3>. TAKE mv \in moves
    <3>1. PICK k \in Position : \E i \in (1..nO(k)) \cap (1..nN(k)) : mv = pair(k, i)
      BY <1>1
    <3>. HIDE DEF nO, nN
    <3>. QED  BY <1>2, <1>3, <1>6, <3>1
  <2>2. \A p \in O : \E mv \in moves : mv.out = p
    <3>. TAKE p \in O
    <3>1. PICK k \in Position : p \in Of(O, c, k)
      BY <1>5
    <3>2. PICK i \in 1..nO(k) : out(k, i) = p
      BY <1>3, <3>1
    <3>. HIDE DEF nO, nN
    <3>3. i \in 1..nN(k)
      BY <1>2, <1>7
    <3>4. pair(k, i) \in moves
      BY <1>1, <3>3
    <3>. QED  BY <1>6, <3>2, <3>4
  <2>. QED  BY <2>1, <2>2
<1>9. {mv.in : mv \in moves} \subseteq N
  <2>1. \A mv \in moves : mv.in \in N
    <3>. TAKE mv \in moves
    <3>1. PICK k \in Position : \E i \in (1..nO(k)) \cap (1..nN(k)) : mv = pair(k, i)
      BY <1>1
    <3>. HIDE DEF nO, nN
    <3>. QED  BY <1>2, <1>4, <1>6, <3>1
  <2>. QED  BY <2>1
<1>10. ASSUME \A k \in Position : nO(k) = nN(k) PROVE {mv.in : mv \in moves} = N
  <2>1. \A p \in N : \E mv \in moves : mv.in = p
    <3>. TAKE p \in N
    <3>1. PICK k \in Position : p \in Of(N, c, k)
      BY <1>5
    <3>2. PICK i \in 1..nN(k) : in(k, i) = p
      BY <1>4, <3>1
    <3>3. nO(k) = nN(k)
      BY <1>10
    <3>. HIDE DEF nO, nN
    <3>4. pair(k, i) \in moves
      BY <1>1, <3>3
    <3>. QED  BY <1>6, <3>2, <3>4
  <2>. QED  BY <1>9, <2>1
<1>. QED  BY <1>8, <1>9, <1>10 DEF moves

(* A sum of naturals is one.                                               *)
LEMMA TotalNat ==
  ASSUME NEW S, IsFiniteSet(S), NEW f, \A x \in S : f[x] \in Nat
  PROVE  SumFunctionOnSet(f, S) \in Nat
<1>. DEFINE F == {A \in SUBSET S : SumFunctionOnSet(f, A) \in Nat}
<1>1. {} \in F
  BY SumStep, FS_EmptySet
<1>2. ASSUME NEW A \in SUBSET S, NEW x \in S \ A, A \in F PROVE A \cup {x} \in F
  <2>1. IsFiniteSet(A) /\ \A y \in A \cup {x} : f[y] \in Int
    BY FS_Subset
  <2>2. SumFunctionOnSet(f, A \cup {x}) = f[x] + SumFunctionOnSet(f, A)
    BY <2>1, SumAdd
  <2>. QED  BY <1>2, <2>2
<1>. HIDE DEF F
<1>3. S \in F
  BY <1>1, <1>2, FinInd
<1>. QED  BY <1>3 DEF F

LEMMA SellIsANumber ==
  ASSUME NEW paid \in Nat, NEW price_ \in Nat
  PROVE  SellValue(paid, price_) \in Nat
<1>1. CASE price_ <= paid
  BY <1>1 DEF SellValue
<1>2. CASE ~(price_ <= paid)
  <2>1. (price_ - paid) \div 2 \in Nat
    BY <1>2
  <2>. QED  BY <1>2, <2>1 DEF SellValue
<1>. QED  BY <1>1, <1>2

-----------------------------------------------------------------------------
(* What a plan is.                                                         *)

(* Of each position as many as the rules say.                              *)
Shapely(S) == \A k \in Position : Cardinality(Of(S, Facts, k)) = SquadSelect[k]

(* The candidates of a plan, of whom owned are held.                       *)
Known(c, owned, bought) ==
    /\ DOMAIN c \subseteq Player
    /\ \A p \in DOMAIN c :
          /\ c[p].pos = Facts[p].pos /\ c[p].club = Facts[p].club
          /\ c[p].cost \in Nat /\ c[p].ep \in Int
    /\ owned \subseteq DOMAIN c
    /\ \A p \in owned :
          /\ c[p].sell \in Nat
          /\ bought[p] # NoPrice => c[p].sell = SellValue(bought[p], c[p].cost)

LEMMA PlayersAreFinite ==
  ASSUME NEW S \in SUBSET Player
  PROVE  IsFiniteSet(S) /\ Cardinality(S) \in Nat /\ S \subseteq Nat
<1>1. IsFiniteSet(S)
  BY StoreAssumption, FS_Subset
<1>. QED  BY <1>1, PlannerAssumption, FS_CardinalityType

LEMMA OfFacts ==
  ASSUME NEW S, NEW c, \A p \in S : c[p].pos = Facts[p].pos
  PROVE  \A k : Of(S, c, k) = Of(S, Facts, k)
BY DEF Of

(* The fifteen a plan leads to, and what its moves exchange.               *)
LEMMA PlannedMoves ==
  ASSUME NEW c, NEW owned, NEW bought, Known(c, owned, bought), NEW money, NEW ft,
         NEW plan \in Plans(owned, c, money, ft),
         \A k \in Position : Cardinality(Of(owned, Facts, k)) <= SquadSelect[k]
  PROVE  LET s == plan.solution.squad
         IN  /\ plan.solution \in SolveTransfers(owned, DOMAIN c \ owned, c, money, ft, MaxTransfersFor(ft))
             /\ s \in TransferProgram(owned, DOMAIN c \ owned, c, money, MaxTransfersFor(ft))
             /\ s \subseteq DOMAIN c /\ Shapely(s)
             /\ {m.out : m \in plan.moves} = owned \ s
             /\ {m.in : m \in plan.moves} \subseteq s \ owned
             /\ Shapely(owned) => {m.in : m \in plan.moves} = s \ owned
<1>. DEFINE most == MaxTransfersFor(ft)
            market == DOMAIN c \ owned
<1>1. PICK a \in SolveTransfers(owned, market, c, money, ft, most) :
        /\ plan.solution = a
        /\ plan.moves = PairMoves(owned \ a.squad, a.squad \ owned, c)
  <2>. DEFINE ep(S) == SumFunction([p \in S |-> c[p].ep])
              moves(a) == PairMoves(owned \ a.squad, a.squad \ owned, c)
              hits(a) == Max({0, Cardinality(moves(a)) - ft})
              made(a) == [solution |-> a, moves |-> moves(a), hits |-> hits(a),
                          currentEp |-> ep(owned), plannedEp |-> ep(a.squad) - hits(a) * HitCost]
  <2>1. Plans(owned, c, money, ft) = {made(a) : a \in SolveTransfers(owned, market, c, money, ft, most)}
    BY Zenon DEF Plans, Sum
  <2>2. \A a : made(a).solution = a /\ made(a).moves = moves(a)
    OBVIOUS
  <2>. HIDE DEF made
  <2>3. PICK a \in SolveTransfers(owned, market, c, money, ft, most) : plan = made(a)
    BY <2>1
  <2>. QED  BY <2>2, <2>3
<1>. DEFINE s == a.squad
            O == owned \ s
            N == s \ owned
<1>2. s \in TransferProgram(owned, market, c, money, most)
  BY OptimumOf
<1>. HIDE DEF s, most
<1>3. s \in Fifteens(owned \cup market, c)
  BY <1>2 DEF TransferProgram
<1>4. s \subseteq DOMAIN c /\ Shapely(s)
  <2>1. owned \cup market = DOMAIN c
    BY DEF Known
  <2>2. s \subseteq DOMAIN c /\ \A k \in Position : Cardinality(Of(s, c, k)) = SquadSelect[k]
    BY <1>3, <2>1, FifteenHasItsShape
  <2>3. \A k : Of(s, c, k) = Of(s, Facts, k)
    <3>1. \A p \in s : c[p].pos = Facts[p].pos
      BY <2>2 DEF Known
    <3>. QED  BY <3>1, OfFacts
  <2>. QED  BY <2>2, <2>3 DEF Shapely
<1>5. /\ O \in SUBSET Nat /\ N \in SUBSET Nat /\ IsFiniteSet(O) /\ IsFiniteSet(N)
      /\ O \subseteq DOMAIN c /\ N \subseteq DOMAIN c
      /\ owned \subseteq Player /\ s \subseteq Player
  <2>1. /\ O \in SUBSET Player /\ N \in SUBSET Player /\ O \subseteq DOMAIN c /\ N \subseteq DOMAIN c
        /\ owned \subseteq Player /\ s \subseteq Player
    BY <1>4 DEF Known
  <2>. HIDE DEF O, N
  <2>. QED  BY <2>1, PlayersAreFinite
<1>6. /\ \A p \in O \cup N : c[p].pos \in Position /\ c[p].ep \in Int
      /\ \A k : Of(O, c, k) = Of(O, Facts, k) /\ Of(N, c, k) = Of(N, Facts, k)
  <2>1. \A p \in O \cup N : c[p].pos = Facts[p].pos /\ c[p].ep \in Int /\ p \in Player
    BY <1>5 DEF Known
  <2>2. \A k : Of(O, c, k) = Of(O, Facts, k)
    <3>. HIDE DEF O, N
    <3>. QED  BY <2>1, OfFacts
  <2>3. \A k : Of(N, c, k) = Of(N, Facts, k)
    <3>. HIDE DEF O, N
    <3>. QED  BY <2>1, OfFacts
  <2>. HIDE DEF O, N
  <2>. QED  BY <2>1, <2>2, <2>3, StoreAssumption
<1>7. \A k \in Position :
         \E n, d, m \in Nat : /\ Cardinality(Of(owned, Facts, k)) = m
                              /\ Cardinality(Of(O, c, k)) = m - d
                              /\ Cardinality(Of(N, c, k)) = n - d
                              /\ n = SquadSelect[k] /\ m <= n
  <2>. TAKE k \in Position
  <2>. DEFINE A == Of(owned, Facts, k)
              B == Of(s, Facts, k)
  <2>1. Of(O, Facts, k) = A \ B /\ Of(N, Facts, k) = B \ A /\ A \cap B = B \cap A
    BY DEF Of
  <2>2. A \in SUBSET Player /\ B \in SUBSET Player
    BY <1>5 DEF Of
  <2>3. Cardinality(B) = SquadSelect[k] /\ Cardinality(A) <= SquadSelect[k]
    BY <1>4 DEF Shapely
  <2>. HIDE DEF A, B
  <2>4. /\ IsFiniteSet(A) /\ Cardinality(A) \in Nat /\ IsFiniteSet(B) /\ Cardinality(B) \in Nat
    BY <2>2, PlayersAreFinite
  <2>5. IsFiniteSet(A \cap B) /\ Cardinality(A \cap B) \in Nat
    <3>1. A \cap B \in SUBSET Player
      BY <2>2
    <3>. QED  BY <3>1, PlayersAreFinite
  <2>6. /\ Cardinality(A \ B) = Cardinality(A) - Cardinality(A \cap B)
        /\ Cardinality(B \ A) = Cardinality(B) - Cardinality(B \cap A)
    BY <2>4, FS_Difference
  <2>7. /\ Cardinality(Of(O, c, k)) = Cardinality(A) - Cardinality(A \cap B)
        /\ Cardinality(Of(N, c, k)) = Cardinality(B) - Cardinality(A \cap B)
    BY <1>6, <2>1, <2>6
  <2>. QED  BY <2>3, <2>4, <2>5, <2>7 DEF A
<1>8. \A k \in Position : Cardinality(Of(O, c, k)) <= Cardinality(Of(N, c, k))
  <2>. HIDE DEF O, N
  <2>. QED  BY <1>7
<1>9. Shapely(owned) => \A k \in Position : Cardinality(Of(O, c, k)) = Cardinality(Of(N, c, k))
  <2>. HIDE DEF O, N
  <2>. QED  BY <1>7 DEF Shapely
<1>10. LET moves == PairMoves(O, N, c)
       IN  /\ {mv.out : mv \in moves} = O
           /\ {mv.in : mv \in moves} \subseteq N
           /\ (\A k \in Position : Cardinality(Of(O, c, k)) = Cardinality(Of(N, c, k)))
                 => {mv.in : mv \in moves} = N
  <2>. HIDE DEF O, N
  <2>. QED  BY <1>5, <1>6, <1>8, PairedMoves
<1>. QED  BY <1>1, <1>2, <1>4, <1>9, <1>10 DEF s, most

LEMMA MaxOfTwo ==
  ASSUME NEW x \in Int, NEW y \in Int
  PROVE  Max({x, y}) = IF x >= y THEN x ELSE y
<1>1. Max({x, y}) = CHOOSE z \in {x, y} : \A w \in {x, y} : z >= w
  BY DEF Max
<1>. QED  BY <1>1

(* The two sums of a budget row, over what the candidates say.             *)
LEMMA MoneyOf ==
  ASSUME NEW c, NEW owned, NEW bought, Known(c, owned, bought)
  PROVE  LET sell == [p \in owned |-> c[p].sell]
             cost == [p \in DOMAIN c |-> c[p].cost]
         IN  /\ \A S \in SUBSET owned : /\ IsFiniteSet(S) /\ SumFunctionOnSet(sell, S) \in Nat
                                        /\ SumFunction([p \in S |-> c[p].sell]) = SumFunctionOnSet(sell, S)
             /\ \A S \in SUBSET DOMAIN c : /\ IsFiniteSet(S) /\ SumFunctionOnSet(cost, S) \in Nat
                                           /\ SumFunction([p \in S |-> c[p].cost]) = SumFunctionOnSet(cost, S)
             /\ \A p \in owned : sell[p] \in Nat
             /\ \A p \in DOMAIN c : cost[p] \in Nat
<1>. DEFINE sell == [p \in owned |-> c[p].sell]
            cost == [p \in DOMAIN c |-> c[p].cost]
<1>1. /\ DOMAIN c \subseteq Player /\ owned \subseteq Player
      /\ \A p \in owned : sell[p] = c[p].sell /\ sell[p] \in Nat
      /\ \A p \in DOMAIN c : cost[p] = c[p].cost /\ cost[p] \in Nat
  BY DEF Known
<1>. HIDE DEF sell, cost
<1>2. ASSUME NEW S \in SUBSET owned
      PROVE  /\ IsFiniteSet(S) /\ SumFunctionOnSet(sell, S) \in Nat
             /\ SumFunction([p \in S |-> c[p].sell]) = SumFunctionOnSet(sell, S)
  <2>. DEFINE f == [p \in S |-> c[p].sell]
  <2>1. IsFiniteSet(S) /\ \A p \in S : sell[p] \in Nat /\ f[p] = sell[p]
    BY <1>1, PlayersAreFinite
  <2>2. SumFunction(f) = SumFunctionOnSet(f, S)
    BY DEF SumFunction
  <2>. HIDE DEF f
  <2>3. SumFunctionOnSet(sell, S) \in Nat
    BY <2>1, TotalNat
  <2>4. SumFunctionOnSet(f, S) = SumFunctionOnSet(sell, S)
    BY <2>1, SumSame
  <2>. QED  BY <2>1, <2>2, <2>3, <2>4 DEF f
<1>3. ASSUME NEW S \in SUBSET DOMAIN c
      PROVE  /\ IsFiniteSet(S) /\ SumFunctionOnSet(cost, S) \in Nat
             /\ SumFunction([p \in S |-> c[p].cost]) = SumFunctionOnSet(cost, S)
  <2>. DEFINE f == [p \in S |-> c[p].cost]
  <2>1. IsFiniteSet(S) /\ \A p \in S : cost[p] \in Nat /\ f[p] = cost[p]
    BY <1>1, PlayersAreFinite
  <2>2. SumFunction(f) = SumFunctionOnSet(f, S)
    BY DEF SumFunction
  <2>. HIDE DEF f
  <2>3. SumFunctionOnSet(cost, S) \in Nat
    BY <2>1, TotalNat
  <2>4. SumFunctionOnSet(f, S) = SumFunctionOnSet(cost, S)
    BY <2>1, SumSame
  <2>. QED  BY <2>1, <2>2, <2>3, <2>4 DEF f
<1>. QED  BY <1>1, <1>2, <1>3 DEF sell, cost

(* The moves of a plan cost no more than the bank and what they bring.     *)
LEMMA PlanAffordable ==
  ASSUME NEW c, NEW owned, NEW bought, Known(c, owned, bought), NEW money \in Int, NEW ft,
         NEW plan \in Plans(owned, c, money, ft),
         \A k \in Position : Cardinality(Of(owned, Facts, k)) <= SquadSelect[k],
         NEW outs, NEW ins, outs = {m.out : m \in plan.moves}, ins = {m.in : m \in plan.moves},
         \A p \in outs : bought[p] # NoPrice
  PROVE  SumFunction([p \in ins |-> c[p].cost])
           <= money + SumFunction([p \in outs |-> SellValue(bought[p], c[p].cost)])
<1>. DEFINE s == plan.solution.squad
            K == s \cap owned
            O == owned \ s
            N == s \ owned
            sell == [p \in owned |-> c[p].sell]
            cost == [p \in DOMAIN c |-> c[p].cost]
<1>1. /\ s \in TransferProgram(owned, DOMAIN c \ owned, c, money, MaxTransfersFor(ft))
      /\ s \subseteq DOMAIN c /\ outs = O /\ ins \subseteq N
  BY PlannedMoves
<1>2. /\ \A S \in SUBSET owned : /\ IsFiniteSet(S) /\ SumFunctionOnSet(sell, S) \in Nat
                                 /\ SumFunction([p \in S |-> c[p].sell]) = SumFunctionOnSet(sell, S)
      /\ \A S \in SUBSET DOMAIN c : /\ IsFiniteSet(S) /\ SumFunctionOnSet(cost, S) \in Nat
                                    /\ SumFunction([p \in S |-> c[p].cost]) = SumFunctionOnSet(cost, S)
      /\ \A p \in owned : sell[p] \in Nat
      /\ \A p \in DOMAIN c : cost[p] \in Nat
  BY MoneyOf
<1>3. /\ K \in SUBSET owned /\ O \in SUBSET owned /\ owned \in SUBSET owned
      /\ N \in SUBSET DOMAIN c /\ ins \in SUBSET DOMAIN c /\ (N \ ins) \in SUBSET DOMAIN c
      /\ K \cup O = owned /\ K \cap O = {} /\ ins \cup (N \ ins) = N /\ ins \cap (N \ ins) = {}
  BY <1>1
<1>4. SumFunction([p \in K |-> c[p].sell]) + SumFunction([p \in N |-> c[p].cost])
        <= money + SumFunction([p \in owned |-> c[p].sell])
  BY <1>1 DEF TransferProgram, BudgetRow, Sum
<1>5. SumFunction([p \in outs |-> SellValue(bought[p], c[p].cost)]) = SumFunctionOnSet(sell, O)
  <2>1. \A p \in O : SellValue(bought[p], c[p].cost) = c[p].sell
    BY <1>1 DEF Known
  <2>2. [p \in outs |-> SellValue(bought[p], c[p].cost)] = [p \in O |-> c[p].sell]
    BY <1>1, <2>1
  <2>. HIDE DEF O, sell
  <2>. QED  BY <1>2, <1>3, <2>2
<1>. HIDE DEF s, K, O, N, sell, cost
<1>6. SumFunctionOnSet(sell, owned) = SumFunctionOnSet(sell, K) + SumFunctionOnSet(sell, O)
  <2>1. IsFiniteSet(K) /\ IsFiniteSet(O)
    BY <1>2, <1>3
  <2>2. \A p \in owned : sell[p] \in Int
    BY <1>2
  <2>3. \A p \in K \cup O : sell[p] \in Int
    BY <1>3, <2>2
  <2>. QED  BY <1>3, <2>1, <2>3, SumSplit
<1>7. SumFunctionOnSet(cost, N) = SumFunctionOnSet(cost, ins) + SumFunctionOnSet(cost, N \ ins)
  <2>1. IsFiniteSet(ins) /\ IsFiniteSet(N \ ins)
    BY <1>2, <1>3
  <2>2. \A p \in DOMAIN c : cost[p] \in Int
    BY <1>2
  <2>3. \A p \in ins \cup (N \ ins) : cost[p] \in Int
    BY <1>3, <2>2
  <2>. QED  BY <1>3, <2>1, <2>3, SumSplit
<1>8. /\ SumFunctionOnSet(sell, K) \in Nat /\ SumFunctionOnSet(sell, O) \in Nat
      /\ SumFunctionOnSet(cost, ins) \in Nat /\ SumFunctionOnSet(cost, N \ ins) \in Nat
      /\ SumFunction([p \in ins |-> c[p].cost]) = SumFunctionOnSet(cost, ins)
  BY <1>2, <1>3
<1>9. SumFunctionOnSet(sell, K) + SumFunctionOnSet(cost, N) <= money + SumFunctionOnSet(sell, owned)
  BY <1>2, <1>3, <1>4
<1>. QED  BY <1>5, <1>6, <1>7, <1>8, <1>9

(* The program's fifteens, taken apart.                                    *)
LEMMA WhatAFifteenIs ==
  ASSUME NEW S, NEW c, NEW s
  PROVE  s \in Fifteens(S, c) <=>
            /\ \E g \in kSubset(SquadSelect["GKP"], Of(S, c, "GKP")),
                  d \in kSubset(SquadSelect["DEF"], Of(S, c, "DEF")),
                  m \in kSubset(SquadSelect["MID"], Of(S, c, "MID")),
                  f \in kSubset(SquadSelect["FWD"], Of(S, c, "FWD")) : s = g \cup d \cup m \cup f
            /\ \A p \in s : Cardinality({q \in s : c[q].club = c[p].club}) <= ClubLimit
<1>. DEFINE X == {g \cup d \cup m \cup f :
                    g \in kSubset(SquadSelect["GKP"], Of(S, c, "GKP")),
                    d \in kSubset(SquadSelect["DEF"], Of(S, c, "DEF")),
                    m \in kSubset(SquadSelect["MID"], Of(S, c, "MID")),
                    f \in kSubset(SquadSelect["FWD"], Of(S, c, "FWD"))}
            Fair(t) == \A k \in {c[x].club : x \in t} :
                          Cardinality({x \in t : c[x].club = k}) <= ClubLimit
<1>1. Fifteens(S, c) = {t \in X : Fair(t)}
  BY DEF Fifteens
<1>2. s \in X <=> \E g \in kSubset(SquadSelect["GKP"], Of(S, c, "GKP")),
                     d \in kSubset(SquadSelect["DEF"], Of(S, c, "DEF")),
                     m \in kSubset(SquadSelect["MID"], Of(S, c, "MID")),
                     f \in kSubset(SquadSelect["FWD"], Of(S, c, "FWD")) : s = g \cup d \cup m \cup f
  OBVIOUS
<1>3. Fair(s) <=> \A p \in s : Cardinality({q \in s : c[q].club = c[p].club}) <= ClubLimit
  OBVIOUS
<1>. HIDE DEF X, Fair
<1>. QED  BY <1>1, <1>2, <1>3

(* A legal squad held can be kept: it is in reach of the program.          *)
LEMMA HoldingIsInReach ==
  ASSUME NEW c, NEW owned, NEW bought, Known(c, owned, bought),
         NEW money \in Nat, NEW ft \in Nat, owned \in Fifteens(owned, Facts)
  PROVE  /\ owned \in TransferProgram(owned, DOMAIN c \ owned, c, money, MaxTransfersFor(ft))
         /\ HitsOf(owned, owned, ft) = 0
<1>1. owned \subseteq Player /\ owned \subseteq DOMAIN c
  BY DEF Known
<1>2. IsFiniteSet(owned) /\ Cardinality(owned) \in Nat
  BY <1>1, PlayersAreFinite
<1>3. \A p \in owned : c[p].pos = Facts[p].pos /\ c[p].club = Facts[p].club
  BY <1>1 DEF Known
<1>4. owned \cup (DOMAIN c \ owned) = DOMAIN c
  BY <1>1
<1>5. owned \in Fifteens(DOMAIN c, c)
  <2>1. \A k : Of(owned, Facts, k) \subseteq Of(DOMAIN c, c, k)
    BY <1>1, <1>3 DEF Of
  <2>2. \A n, k : kSubset(n, Of(owned, Facts, k)) \subseteq kSubset(n, Of(DOMAIN c, c, k))
    BY <2>1 DEF kSubset
  <2>3. \E g \in kSubset(SquadSelect["GKP"], Of(owned, Facts, "GKP")),
           d \in kSubset(SquadSelect["DEF"], Of(owned, Facts, "DEF")),
           m \in kSubset(SquadSelect["MID"], Of(owned, Facts, "MID")),
           f \in kSubset(SquadSelect["FWD"], Of(owned, Facts, "FWD")) : owned = g \cup d \cup m \cup f
    BY WhatAFifteenIs
  <2>4. \E g \in kSubset(SquadSelect["GKP"], Of(DOMAIN c, c, "GKP")),
           d \in kSubset(SquadSelect["DEF"], Of(DOMAIN c, c, "DEF")),
           m \in kSubset(SquadSelect["MID"], Of(DOMAIN c, c, "MID")),
           f \in kSubset(SquadSelect["FWD"], Of(DOMAIN c, c, "FWD")) : owned = g \cup d \cup m \cup f
    BY <2>2, <2>3
  <2>5. \A p \in owned : Cardinality({q \in owned : Facts[q].club = Facts[p].club}) <= ClubLimit
    BY WhatAFifteenIs
  <2>6. \A p \in owned : {q \in owned : c[q].club = c[p].club} = {q \in owned : Facts[q].club = Facts[p].club}
    BY <1>3
  <2>. QED  BY <2>4, <2>5, <2>6, WhatAFifteenIs
<1>6. BudgetRow(owned, owned, c, money)
  <2>. DEFINE sell == [p \in owned |-> c[p].sell]
              cost == [p \in DOMAIN c |-> c[p].cost]
  <2>1. /\ SumFunctionOnSet(sell, owned) \in Nat
        /\ SumFunction([p \in owned |-> c[p].sell]) = SumFunctionOnSet(sell, owned)
        /\ SumFunction([p \in {} |-> c[p].cost]) = SumFunctionOnSet(cost, {})
    BY MoneyOf
  <2>. HIDE DEF sell, cost
  <2>2. SumFunctionOnSet(cost, {}) = 0
    BY SumStep, FS_EmptySet
  <2>3. owned \cap owned = owned /\ owned \ owned = {}
    OBVIOUS
  <2>4. SumFunction([p \in owned |-> c[p].sell]) + SumFunction([p \in {} |-> c[p].cost])
          <= money + SumFunction([p \in owned |-> c[p].sell])
    BY <2>1, <2>2
  <2>. QED  BY <2>3, <2>4 DEF BudgetRow, Sum
<1>7. HitsOf(owned, owned, ft) = 0
  <2>1. owned \cap owned = owned
    OBVIOUS
  <2>2. HitsOf(owned, owned, ft) = Max({0, Cardinality(owned) - ft - Cardinality(owned)})
    BY <2>1 DEF HitsOf
  <2>. QED  BY <1>2, <2>2, MaxOfTwo
<1>8. Cardinality(owned \cap owned) >= Cardinality(owned) - MaxTransfersFor(ft)
  <2>1. owned \cap owned = owned
    OBVIOUS
  <2>2. MaxTransfersFor(ft) \in Nat
    <3>1. Max({1, ft}) \in Nat
      BY MaxOfTwo
    <3>. QED  BY <3>1, RulesAssumption DEF MaxTransfersFor
  <2>. QED  BY <1>2, <2>1, <2>2
<1>. QED  BY <1>4, <1>5, <1>6, <1>7, <1>8 DEF TransferProgram

-----------------------------------------------------------------------------
(* What the three properties say of one plan.                              *)

(* Carried out on a squad of the rules' shape, the moves of a plan lead to *)
(* a legal fifteen with a legal eleven.                                    *)
LEMMA PlannedIsLegal ==
  ASSUME NEW c, NEW owned, NEW bought, Known(c, owned, bought), Shapely(owned),
         NEW money, NEW ft, NEW plan \in Plans(owned, c, money, ft)
  PROVE  LET s == plan.solution.squad
         IN  /\ (owned \ {m.out : m \in plan.moves}) \cup {m.in : m \in plan.moves} = s
             /\ Cardinality(s) = SquadSize
             /\ \A p \in Position : Cardinality(Of(s, Facts, p)) = SquadSelect[p]
             /\ \A p \in s : Cardinality({q \in s : Facts[q].club = Facts[p].club}) <= ClubLimit
             /\ LegalFormation(plan.solution.xi, Facts)
<1>. DEFINE s == plan.solution.squad
            xi == plan.solution.xi
<1>1. \A k \in Position : Cardinality(Of(owned, Facts, k)) <= SquadSelect[k]
  BY RulesAssumption DEF Shapely
<1>2. /\ plan.solution \in SolveTransfers(owned, DOMAIN c \ owned, c, money, ft, MaxTransfersFor(ft))
      /\ s \in TransferProgram(owned, DOMAIN c \ owned, c, money, MaxTransfersFor(ft))
      /\ s \subseteq DOMAIN c /\ Shapely(s)
      /\ {m.out : m \in plan.moves} = owned \ s
      /\ {m.in : m \in plan.moves} = s \ owned
  BY <1>1, PlannedMoves
<1>3. xi \in Elevens(s, c)
  BY <1>2, OptimumOf
<1>4. s \in Fifteens(owned \cup (DOMAIN c \ owned), c)
  BY <1>2 DEF TransferProgram
<1>. HIDE DEF s, xi
<1>5. (owned \ (owned \ s)) \cup (s \ owned) = s
  OBVIOUS
<1>6. /\ \A p \in s : c[p].pos = Facts[p].pos /\ c[p].club = Facts[p].club
      /\ s \in SUBSET Player
  BY <1>2 DEF Known
<1>7. IsFiniteSet(s)
  BY <1>6, PlayersAreFinite
<1>8. Cardinality(s) = SquadSize
  <2>1. \A p \in s : Facts[p].pos \in Position
    BY <1>6, StoreAssumption
  <2>2. Cardinality(s) = Cardinality(Of(s, Facts, "GKP")) + Cardinality(Of(s, Facts, "DEF"))
                            + Cardinality(Of(s, Facts, "MID")) + Cardinality(Of(s, Facts, "FWD"))
    BY <1>7, <2>1, CountedByPosition
  <2>3. /\ Cardinality(Of(s, Facts, "GKP")) = SquadSelect["GKP"]
        /\ Cardinality(Of(s, Facts, "DEF")) = SquadSelect["DEF"]
        /\ Cardinality(Of(s, Facts, "MID")) = SquadSelect["MID"]
        /\ Cardinality(Of(s, Facts, "FWD")) = SquadSelect["FWD"]
    BY <1>2, FourPositions DEF Shapely
  <2>. QED  BY <2>2, <2>3, SizeOfASquad
<1>9. \A p \in s : Cardinality({q \in s : Facts[q].club = Facts[p].club}) <= ClubLimit
  <2>1. \A p \in s : Cardinality({q \in s : c[q].club = c[p].club}) <= ClubLimit
    BY <1>4, FifteenKeepsTheClubs
  <2>2. \A p \in s : {q \in s : c[q].club = c[p].club} = {q \in s : Facts[q].club = Facts[p].club}
    BY <1>6
  <2>. QED  BY <2>1, <2>2
<1>10. LegalFormation(xi, Facts)
  <2>1. xi \subseteq s /\ LegalFormation(xi, c)
    BY <1>3, <1>7, ElevenIsLegal
  <2>2. \A p \in xi : c[p].pos = Facts[p].pos
    BY <1>6, <2>1
  <2>3. \A k : Of(xi, c, k) = Of(xi, Facts, k)
    BY <2>2, OfFacts
  <2>. QED  BY <2>1, <2>3 DEF LegalFormation
<1>. QED  BY <1>2, <1>5, <1>8, <1>9, <1>10 DEF Shapely, s, xi

(* A plan is worth what keeping a legal squad is, or more.                 *)
LEMMA PlannedIsBest ==
  ASSUME NEW c, NEW owned, NEW bought, Known(c, owned, bought),
         NEW money \in Nat, NEW ft \in Nat, NEW plan \in Plans(owned, c, money, ft),
         owned \in Fifteens(owned, Facts), NEW held \in SolutionsOver(owned, 0, c)
  PROVE  plan.solution.value >= held.value
<1>1. Shapely(owned)
  BY FifteenHasItsShape DEF Shapely
<1>2. \A k \in Position : Cardinality(Of(owned, Facts, k)) <= SquadSelect[k]
  BY <1>1, RulesAssumption DEF Shapely
<1>3. plan.solution \in SolveTransfers(owned, DOMAIN c \ owned, c, money, ft, MaxTransfersFor(ft))
  BY <1>2, PlannedMoves
<1>4. /\ owned \in TransferProgram(owned, DOMAIN c \ owned, c, money, MaxTransfersFor(ft))
      /\ HitsOf(owned, owned, ft) = 0
  BY HoldingIsInReach
<1>5. held \in SolutionsOver(owned, HitsOf(owned, owned, ft), c)
  BY <1>4
<1>. QED  BY <1>3, <1>4, <1>5, OptimumOf

-----------------------------------------------------------------------------
(* The inductive invariant.                                                *)

StoreInv ==
    /\ price \in [Player -> Nat]
    /\ listed \subseteq Player
    /\ forecast \in Forecasts

(* The forecasts a universe was begun with are some table of the jobs ...  *)
ReadInv ==
    req.at \in {"solve", "compare", "recommend"} =>
        "forecast" \in DOMAIN req /\ req.forecast \in Forecasts

(* ... a request for a plan holds a squad of the rules' shape ...          *)
HeldInv ==
    /\ req.at = "dto" => "stated" \in DOMAIN req /\ req.stated \in Stated
    /\ req.at \in {"dto", "universe", "solve", "gap", "compare", "answered"} =>
          /\ {"picks", "free"} \subseteq DOMAIN req
          /\ req.picks \subseteq Player /\ Shapely(req.picks)
          /\ req.free \in Nat

(* ... knows what was paid for it, and what the bank holds ...             *)
MoneyInv ==
    req.at \in {"universe", "solve", "gap", "compare", "answered"} =>
        /\ {"bank", "bought"} \subseteq DOMAIN req
        /\ req.bank \in Int
        /\ \A p \in Player : req.bought[p] \in Nat

(* ... and its plan is one of those the program has for the candidates it  *)
(* read, however the store has moved since.                                *)
SolvedInv ==
    Planned => /\ {"c", "plan"} \subseteq DOMAIN req
               /\ Known(req.c, Owned, req.bought)
               /\ req.plan \in Plans(Owned, req.c, req.bank, req.free)

PlanInv == StoreInv /\ ReadInv /\ HeldInv /\ MoneyInv /\ SolvedInv

LEMMA InitPlan == Init => PlanInv
<1>. SUFFICES ASSUME Init PROVE PlanInv
  OBVIOUS
<1>1. StoreInv
  <2>1. ASSUME NEW p \in Player PROVE Min(Prices[p]) \in Nat
    <3>1. PICK n \in Prices[p] : \A m \in Prices[p] : n <= m
      BY LeastNat, StoreAssumption
    <3>2. Min(Prices[p]) \in Prices[p]
      BY <3>1 DEF Min
    <3>. QED  BY <3>2, StoreAssumption
  <2>. QED  BY <2>1 DEF Init, StoreInv
<1>2. req.at = "idle"
  BY DEF Init, Idle
<1>. QED  BY <1>1, <1>2 DEF PlanInv, ReadInv, HeldInv, MoneyInv, SolvedInv, Planned

(* The candidates a plan is made of, of the store as the request finds it. *)
LEMMA PricedIsKnown ==
  ASSUME StoreInv, req.forecast \in Forecasts, NEW picks \in SUBSET Player, NEW bought, \A p \in Player : bought[p] \in Nat
  PROVE  LET owned == picks \cap listed
             c     == Priced(Candidates(Universe), owned, bought)
         IN  Known(c, owned, bought) /\ picks \cap DOMAIN c = owned
<1>. DEFINE u == Universe
            C == Candidates(u)
            owned == picks \cap listed
            c == Priced(C, owned, bought)
            sellOf(p) == IF bought[p] = NoPrice THEN C[p].cost ELSE SellValue(bought[p], C[p].cost)
            market == {p \in DOMAIN C \ owned : C[p].appearances >= MinAppearances}
<1>1. /\ DOMAIN C = listed
      /\ \A p \in listed : /\ C[p].pos = Facts[p].pos /\ C[p].club = Facts[p].club
                           /\ C[p].cost = price[p] /\ C[p].ep = req.forecast[p].ep
  BY DEF Candidates, Universe
<1>2. c = [p \in owned \cup market |->
             [pos |-> C[p].pos, club |-> C[p].club, cost |-> C[p].cost, ep |-> C[p].ep,
              sell |-> IF p \in owned THEN sellOf(p) ELSE C[p].cost]]
  BY DEF Priced
<1>. HIDE DEF C, c
<1>3. /\ DOMAIN c = owned \cup market /\ market \subseteq listed \ owned
      /\ \A p \in DOMAIN c : /\ c[p].pos = C[p].pos /\ c[p].club = C[p].club
                             /\ c[p].cost = C[p].cost /\ c[p].ep = C[p].ep
      /\ \A p \in owned : c[p].sell = sellOf(p)
  BY <1>1, <1>2
<1>. HIDE DEF market, owned
<1>4. owned \subseteq listed /\ listed \subseteq Player
  BY DEF owned, StoreInv
<1>5. \A p \in listed : C[p].cost \in Nat /\ C[p].ep \in Int
  BY <1>1, <1>4, StoreAssumption DEF StoreInv
<1>6. \A p \in owned : /\ sellOf(p) \in Nat
                       /\ bought[p] # NoPrice => sellOf(p) = SellValue(bought[p], C[p].cost)
  BY <1>4, <1>5, SellIsANumber
<1>7. Known(c, owned, bought)
  <2>1. DOMAIN c \subseteq listed /\ owned \subseteq DOMAIN c
    BY <1>3, <1>4
  <2>. HIDE DEF sellOf
  <2>. QED  BY <1>1, <1>3, <1>4, <1>5, <1>6, <2>1 DEF Known
<1>8. picks \cap DOMAIN c = owned
  BY <1>3 DEF owned
<1>. QED  BY <1>7, <1>8 DEF c, C, u, owned

(* The jobs move the store and leave the request alone.                    *)
LEMMA JobsStep ==
  ASSUME PlanInv, Environment
  PROVE  PlanInv'
<1>1. UNCHANGED req
  BY DEF Environment, Reprice, Reproject, AddPlayers, RemovePlayer
<1>2. StoreInv'
  <2>1. CASE \E p \in Player : \E v \in Prices[p] : Reprice(p, v)
    BY <2>1, StoreAssumption DEF PlanInv, StoreInv, Reprice
  <2>2. CASE \E f \in Forecasts : Reproject(f)
    BY <2>2 DEF PlanInv, StoreInv, Reproject
  <2>3. CASE AddPlayers
    BY <2>3, PlannerAssumption DEF PlanInv, StoreInv, AddPlayers
  <2>4. CASE \E p \in Leavers : RemovePlayer(p)
    BY <2>4 DEF PlanInv, StoreInv, RemovePlayer
  <2>. QED  BY <2>1, <2>2, <2>3, <2>4 DEF Environment
<1>3. ReadInv' /\ HeldInv' /\ MoneyInv' /\ SolvedInv'
  BY <1>1 DEF PlanInv, ReadInv, HeldInv, MoneyInv, SolvedInv, Planned, Owned
<1>. QED  BY <1>2, <1>3 DEF PlanInv

LEMMA StartPlanStep ==
  ASSUME PlanInv, NEW squad \in Imported, NEW free \in FreeTransfers, StartPlan(squad, free)
  PROVE  PlanInv'
<1>1. StoreInv'
  BY DEF StartPlan, store, PlanInv, StoreInv
<1>2. req' = [at |-> "universe", kind |-> "plan", free |-> free, bought |-> Paid,
              picks |-> squad.picks, bank |-> squad.bank]
  BY DEF StartPlan
<1>3. /\ squad.picks \subseteq Player /\ squad.bank \in Int /\ Shapely(squad.picks)
      /\ free \in Nat /\ \A p \in Player : Paid[p] \in Nat
  BY ImportedAssumption, StoreAssumption, PlannerAssumption, RulesAssumption DEF Shapely
<1>4. /\ {"picks", "free", "bank", "bought"} \subseteq DOMAIN req' /\ req'.at = "universe"
      /\ req'.picks = squad.picks /\ req'.free = free /\ req'.bank = squad.bank /\ req'.bought = Paid
  BY <1>2
<1>5. HeldInv' /\ MoneyInv'
  BY <1>3, <1>4 DEF HeldInv, MoneyInv
<1>6. SolvedInv' /\ ReadInv'
  BY <1>4 DEF SolvedInv, Planned, ReadInv
<1>. QED  BY <1>1, <1>5, <1>6 DEF PlanInv

LEMMA StartBuiltStep ==
  ASSUME PlanInv, NEW s \in Built, NEW free \in FreeTransfers, NEW stated \in Stated,
         StartBuilt(s, free, stated)
  PROVE  PlanInv'
<1>1. StoreInv'
  BY DEF StartBuilt, store, PlanInv, StoreInv
<1>2. req' = [at |-> "dto", kind |-> "built", free |-> Max({1, free}), picks |-> s, stated |-> stated]
  BY DEF StartBuilt
<1>3. s \in Fifteens(s, Facts)
  <2>1. CheckLegality(s)
    BY DEF StartBuilt
  <2>. QED  BY <2>1, Zenon DEF CheckLegality
<1>4. s \subseteq Player /\ Shapely(s)
  <2>1. s \in SUBSET Player
    BY PlannerAssumption
  <2>2. \A k \in Position : Cardinality(Of(s, Facts, k)) = SquadSelect[k]
    BY <1>3, FifteenHasItsShape
  <2>. QED  BY <2>1, <2>2 DEF Shapely
<1>5. Max({1, free}) \in Nat
  <2>1. free \in Nat
    BY PlannerAssumption, RulesAssumption
  <2>. QED  BY <2>1, MaxOfTwo
<1>6. /\ {"picks", "free", "stated"} \subseteq DOMAIN req' /\ req'.at = "dto"
      /\ req'.picks = s /\ req'.free = Max({1, free}) /\ req'.stated = stated
  BY <1>2
<1>7. HeldInv'
  BY <1>4, <1>5, <1>6 DEF HeldInv
<1>8. MoneyInv' /\ SolvedInv' /\ ReadInv'
  BY <1>6 DEF MoneyInv, SolvedInv, Planned, ReadInv
<1>. QED  BY <1>1, <1>7, <1>8 DEF PlanInv

LEMMA BuiltDtoStep ==
  ASSUME PlanInv, BuiltDto
  PROVE  PlanInv'
<1>. DEFINE cost == [p \in req.picks |-> price[p]]
<1>1. StoreInv'
  BY DEF BuiltDto, store, PlanInv, StoreInv
<1>2. req' = [at |-> "universe", kind |-> "built", free |-> req.free, picks |-> req.picks,
              bank |-> BankOf(req.picks, req.stated), bought |-> price]
  BY DEF BuiltDto
<1>3. /\ req.picks \subseteq Player /\ Shapely(req.picks) /\ req.free \in Nat
      /\ \A p \in Player : price[p] \in Nat
  BY DEF BuiltDto, PlanInv, HeldInv, StoreInv
<1>4. SumFunction(cost) \in Nat
  <2>1. IsFiniteSet(req.picks) /\ \A p \in req.picks : cost[p] \in Nat
    BY <1>3, PlayersAreFinite
  <2>2. SumFunction(cost) = SumFunctionOnSet(cost, req.picks)
    BY DEF SumFunction
  <2>. HIDE DEF cost
  <2>. QED  BY <2>1, <2>2, TotalNat
<1>. HIDE DEF cost
<1>5. BankOf(req.picks, req.stated) \in Int
  <2>1. /\ BankOf(req.picks, req.stated) = IF req.stated = NoBank THEN Budget - SumFunction(cost)
                                            ELSE req.stated
    BY Zenon DEF BankOf, Sum, cost
  <2>2. req.stated \in Int
    <3>1. req.stated \in Stated
      BY DEF BuiltDto, PlanInv, HeldInv
    <3>2. req.stated \in Nat \/ req.stated = NoBank
      BY <3>1, PlannerAssumption
    <3>3. NoBank \in Int
      BY DEF NoBank
    <3>. QED  BY <3>2, <3>3
  <2>. QED  BY <1>4, <2>1, <2>2, RulesAssumption
<1>6. /\ {"picks", "free", "bank", "bought"} \subseteq DOMAIN req' /\ req'.at = "universe"
      /\ req'.picks = req.picks /\ req'.free = req.free
      /\ req'.bank = BankOf(req.picks, req.stated) /\ req'.bought = price
  BY <1>2
<1>7. HeldInv' /\ MoneyInv'
  BY <1>3, <1>5, <1>6 DEF HeldInv, MoneyInv
<1>8. SolvedInv' /\ ReadInv'
  BY <1>6 DEF SolvedInv, Planned, ReadInv
<1>. QED  BY <1>1, <1>7, <1>8 DEF PlanInv

(* Reading the forecasts disturbs nothing else a request holds.            *)
LEMMA LoadProjectionsStep ==
  ASSUME PlanInv, LoadProjections
  PROVE  PlanInv'
<1>1. StoreInv'
  BY DEF LoadProjections, store, PlanInv, StoreInv
<1>2. /\ WithForecasts["universe"] = "solve" /\ WithForecasts["gap"] = "compare"
      /\ WithForecasts["run"] = "recommend" /\ DOMAIN WithForecasts = {"universe", "gap", "run"}
  BY DEF WithForecasts
<1>. DEFINE new == [at |-> WithForecasts[req.at], forecast |-> forecast]
<1>3. DOMAIN new = {"at", "forecast"} /\ new.at = WithForecasts[req.at] /\ new.forecast = forecast
  OBVIOUS
<1>4. req' = Onto(new, req)
  BY DEF LoadProjections
<1>. HIDE DEF new
<1>5. /\ DOMAIN req' = DOMAIN new \cup DOMAIN req
      /\ \A z \in DOMAIN new : req'[z] = new[z]
      /\ \A z \in DOMAIN req \ DOMAIN new : req'[z] = req[z]
  BY <1>4 DEF Onto
<1>6. /\ \/ req.at = "universe" /\ req'.at = "solve"
         \/ req.at = "gap" /\ req'.at = "compare"
         \/ req.at = "run" /\ req'.at = "recommend"
      /\ "forecast" \in DOMAIN req' /\ req'.forecast = forecast
  BY <1>2, <1>3, <1>5 DEF LoadProjections
<1>7. ReadInv'
  BY <1>6 DEF ReadInv, PlanInv, StoreInv
<1>8. CASE req.at = "run"
  BY <1>1, <1>6, <1>7, <1>8 DEF PlanInv, HeldInv, MoneyInv, SolvedInv, Planned
<1>9. CASE req.at \in {"universe", "gap"}
  <2>1. /\ {"picks", "free", "bank", "bought"} \subseteq DOMAIN req
        /\ req.picks \subseteq Player /\ Shapely(req.picks) /\ req.free \in Nat
        /\ req.bank \in Int /\ \A p \in Player : req.bought[p] \in Nat
    BY <1>9 DEF PlanInv, HeldInv, MoneyInv
  <2>2. /\ {"picks", "free", "bank", "bought"} \subseteq DOMAIN req'
        /\ req'.picks = req.picks /\ req'.free = req.free
        /\ req'.bank = req.bank /\ req'.bought = req.bought
    BY <1>3, <1>5, <2>1
  <2>3. HeldInv' /\ MoneyInv'
    BY <1>6, <2>1, <2>2 DEF HeldInv, MoneyInv
  <2>4. SolvedInv'
    <3>1. CASE req.at = "universe"
      BY <1>6, <3>1 DEF SolvedInv, Planned
    <3>2. CASE req.at = "gap"
      <4>1. /\ {"c", "plan"} \subseteq DOMAIN req /\ Known(req.c, Owned, req.bought)
            /\ req.plan \in Plans(Owned, req.c, req.bank, req.free)
        BY <3>2 DEF PlanInv, SolvedInv, Planned
      <4>2. {"c", "plan"} \subseteq DOMAIN req' /\ req'.c = req.c /\ req'.plan = req.plan
        BY <1>3, <1>5, <4>1
      <4>3. Owned' = Owned
        BY <2>2, <4>2 DEF Owned
      <4>. QED  BY <2>2, <4>1, <4>2, <4>3 DEF SolvedInv
    <3>. QED  BY <1>9, <3>1, <3>2
  <2>. QED  BY <1>1, <1>7, <2>3, <2>4 DEF PlanInv
<1>. QED  BY <1>6, <1>8, <1>9

LEMMA SolveStep ==
  ASSUME PlanInv, Solve
  PROVE  PlanInv'
<1>. DEFINE owned == req.picks \cap listed
            c == Priced(Candidates(Universe), owned, req.bought)
<1>1. StoreInv'
  BY DEF Solve, store, PlanInv, StoreInv
<1>2. req.at = "solve"
  BY DEF Solve
<1>3. /\ {"picks", "free", "bank", "bought"} \subseteq DOMAIN req
      /\ req.picks \subseteq Player /\ Shapely(req.picks) /\ req.free \in Nat
      /\ req.bank \in Int /\ \A p \in Player : req.bought[p] \in Nat
      /\ req.forecast \in Forecasts
  BY <1>2 DEF PlanInv, ReadInv, HeldInv, MoneyInv
<1>4. Known(c, owned, req.bought) /\ req.picks \cap DOMAIN c = owned
  BY <1>3, PricedIsKnown DEF PlanInv
<1>5. \/ req' = Idle
      \/ \E a \in Plans(owned, c, req.bank, req.free) :
            req' = Onto([at |-> "gap", c |-> c, plan |-> a], req)
  BY Zenon DEF Solve
<1>. HIDE DEF owned, c
<1>6. CASE req' = Idle
  BY <1>1, <1>6 DEF Idle, PlanInv, ReadInv, HeldInv, MoneyInv, SolvedInv, Planned
<1>7. ASSUME NEW a \in Plans(owned, c, req.bank, req.free),
             req' = Onto([at |-> "gap", c |-> c, plan |-> a], req)
      PROVE  PlanInv'
  <2>. DEFINE new == [at |-> "gap", c |-> c, plan |-> a]
  <2>1. DOMAIN new = {"at", "c", "plan"} /\ new.at = "gap" /\ new.c = c /\ new.plan = a
    OBVIOUS
  <2>2. req' = Onto(new, req)
    BY <1>7
  <2>. HIDE DEF new
  <2>7. /\ DOMAIN req' = DOMAIN new \cup DOMAIN req
        /\ \A z \in DOMAIN new : req'[z] = new[z]
        /\ \A z \in DOMAIN req \ DOMAIN new : req'[z] = req[z]
    BY <2>2 DEF Onto
  <2>3. /\ {"picks", "free", "bank", "bought", "c", "plan"} \subseteq DOMAIN req'
        /\ req'.at = "gap" /\ req'.c = c /\ req'.plan = a
        /\ req'.picks = req.picks /\ req'.free = req.free
        /\ req'.bank = req.bank /\ req'.bought = req.bought
    BY <1>3, <2>1, <2>7
  <2>4. HeldInv' /\ MoneyInv'
    BY <1>3, <2>3 DEF HeldInv, MoneyInv
  <2>5. Owned' = owned
    BY <1>4, <2>3 DEF Owned
  <2>6. SolvedInv'
    BY <1>4, <2>3, <2>5 DEF SolvedInv
  <2>. QED  BY <1>1, <2>3, <2>4, <2>6 DEF PlanInv, ReadInv
<1>. QED  BY <1>5, <1>6, <1>7

LEMMA GapStep ==
  ASSUME PlanInv, Gap
  PROVE  PlanInv'
<1>1. StoreInv'
  BY DEF Gap, store, PlanInv, StoreInv
<1>2. req.at = "compare"
  BY DEF Gap
<1>3. /\ {"picks", "free", "bank", "bought", "c", "plan"} \subseteq DOMAIN req
      /\ req.picks \subseteq Player /\ Shapely(req.picks) /\ req.free \in Nat
      /\ req.bank \in Int /\ \A p \in Player : req.bought[p] \in Nat
      /\ Known(req.c, Owned, req.bought) /\ req.plan \in Plans(Owned, req.c, req.bank, req.free)
  BY <1>2 DEF PlanInv, HeldInv, MoneyInv, SolvedInv, Planned
<1>4. req' = Idle \/ \E x : req' = Onto([at |-> "answered", chips |-> x], req)
  BY Zenon DEF Gap
<1>5. CASE req' = Idle
  BY <1>1, <1>5 DEF Idle, PlanInv, ReadInv, HeldInv, MoneyInv, SolvedInv, Planned
<1>6. ASSUME NEW x, req' = Onto([at |-> "answered", chips |-> x], req)
      PROVE  PlanInv'
  <2>. DEFINE new == [at |-> "answered", chips |-> x]
  <2>1. DOMAIN new = {"at", "chips"} /\ new.at = "answered"
    OBVIOUS
  <2>2. req' = Onto(new, req)
    BY <1>6
  <2>. HIDE DEF new
  <2>7. /\ DOMAIN req' = DOMAIN new \cup DOMAIN req
        /\ \A z \in DOMAIN new : req'[z] = new[z]
        /\ \A z \in DOMAIN req \ DOMAIN new : req'[z] = req[z]
    BY <2>2 DEF Onto
  <2>3. /\ {"picks", "free", "bank", "bought", "c", "plan"} \subseteq DOMAIN req'
        /\ req'.at = "answered" /\ req'.c = req.c /\ req'.plan = req.plan
        /\ req'.picks = req.picks /\ req'.free = req.free
        /\ req'.bank = req.bank /\ req'.bought = req.bought
    BY <1>3, <2>1, <2>7
  <2>4. HeldInv' /\ MoneyInv'
    BY <1>3, <2>3 DEF HeldInv, MoneyInv
  <2>5. Owned' = Owned
    BY <2>3 DEF Owned
  <2>6. SolvedInv'
    BY <1>3, <2>3, <2>5 DEF SolvedInv
  <2>. QED  BY <1>1, <2>3, <2>4, <2>6 DEF PlanInv, ReadInv
<1>. QED  BY <1>4, <1>5, <1>6

(* A recommendation, and an answer given, hold no plan.                    *)
LEMMA OtherSteps ==
  ASSUME PlanInv, StartRecommend \/ Recommend \/ RecommendDto \/ Finish
  PROVE  PlanInv'
<1>1. StoreInv'
  BY DEF StartRecommend, Recommend, RecommendDto, Finish, store, PlanInv, StoreInv
<1>2. req'.at \in {"run", "players", "recommended", "idle"}
  <2>1. CASE Recommend
    <3>1. req' = Idle \/ \E r : req' = Onto([at |-> "players"], r)
      BY <2>1, Zenon DEF Recommend
    <3>2. "at" \in DOMAIN [at |-> "players"] /\ [at |-> "players"].at = "players"
      OBVIOUS
    <3>3. ASSUME NEW r, req' = Onto([at |-> "players"], r) PROVE req'.at = "players"
      BY <3>2, <3>3 DEF Onto
    <3>. QED  BY <3>1, <3>3 DEF Idle
  <2>2. CASE RecommendDto
    <3>1. PICK b : req' = Onto([at |-> "recommended", bank |-> b], req)
      BY <2>2, Zenon DEF RecommendDto
    <3>. DEFINE new == [at |-> "recommended", bank |-> b]
    <3>2. "at" \in DOMAIN new /\ new.at = "recommended"
      OBVIOUS
    <3>3. req' = Onto(new, req)
      BY <3>1
    <3>. HIDE DEF new
    <3>4. \A z \in DOMAIN new : req'[z] = new[z]
      BY <3>3 DEF Onto
    <3>. QED  BY <3>2, <3>4
  <2>3. CASE Finish
    BY <2>3 DEF Finish, Idle
  <2>4. CASE StartRecommend
    BY <2>4 DEF StartRecommend
  <2>. QED  BY <2>1, <2>2, <2>3, <2>4
<1>. QED  BY <1>1, <1>2 DEF PlanInv, ReadInv, HeldInv, MoneyInv, SolvedInv, Planned

LEMMA PlanStep == PlanInv /\ [Next]_vars => PlanInv'
<1>. SUFFICES ASSUME PlanInv, [Next]_vars PROVE PlanInv'
  OBVIOUS
<1>1. CASE Environment
  BY <1>1, JobsStep
<1>2. CASE Request
  BY <1>2, StartPlanStep, StartBuiltStep, LoadProjectionsStep, BuiltDtoStep,
     SolveStep, GapStep, OtherSteps DEF Request
<1>3. CASE UNCHANGED vars
  BY <1>3 DEF vars, store, PlanInv, StoreInv, ReadInv, HeldInv, MoneyInv, SolvedInv, Planned, Owned
<1>. QED  BY <1>1, <1>2, <1>3 DEF Next

(* Whatever the jobs do between two reads of a request: what it holds is a *)
(* plan of the solver's for the candidates it read.                        *)
THEOREM PlanInvariant == Spec => []PlanInv
<1>. QED  BY InitPlan, PlanStep, PTL DEF Spec

(* "The best legal fifteen reachable from the one you already own": for    *)
(* every store, squad, set of rules and interleaving with the jobs, the    *)
(* moves shown lead from the squad held to the fifteen the solver chose,   *)
(* and that one is legal, while every pick was in the universe.            *)
THEOREM PlanIsLegalAlways == Spec => []PlanIsLegal
<1>1. PlanInv => PlanIsLegal
  <2>. SUFFICES ASSUME PlanInv, Planned, Whole PROVE PlanIsLegal!2
    BY DEF PlanIsLegal
  <2>1. /\ Known(req.c, Owned, req.bought) /\ req.plan \in Plans(Owned, req.c, req.bank, req.free)
        /\ Shapely(req.picks)
    BY DEF PlanInv, SolvedInv, HeldInv, Planned
  <2>2. Owned = req.picks
    BY DEF Whole, Owned
  <2>. QED  BY <2>1, <2>2, PlannedIsLegal DEF Outs, Ins
<1>. QED  BY <1>1, PlanInvariant, PTL

(* "Money comes back at sell value": the moves of every plan cost no more  *)
(* than the bank and what FPL pays for those who leave, when what was paid *)
(* for them is known.                                                      *)
THEOREM PlanIsAlwaysAffordable == Spec => []PlanIsAffordable
<1>1. PlanInv => PlanIsAffordable
  <2>. SUFFICES ASSUME PlanInv, Planned, \A p \in Outs : req.bought[p] # NoPrice
                PROVE  PlanIsAffordable!2
    BY DEF PlanIsAffordable
  <2>1. /\ Known(req.c, Owned, req.bought) /\ req.plan \in Plans(Owned, req.c, req.bank, req.free)
        /\ Shapely(req.picks) /\ req.picks \subseteq Player /\ req.bank \in Int
    BY DEF PlanInv, SolvedInv, HeldInv, MoneyInv, Planned
  <2>2. \A k \in Position : Cardinality(Of(Owned, Facts, k)) <= SquadSelect[k]
    <3>. TAKE k \in Position
    <3>1. /\ Of(Owned, Facts, k) \subseteq Of(req.picks, Facts, k)
          /\ Of(req.picks, Facts, k) \in SUBSET Player
      BY <2>1 DEF Owned, Of
    <3>2. Cardinality(Of(Owned, Facts, k)) <= Cardinality(Of(req.picks, Facts, k))
      BY <3>1, PlayersAreFinite, FS_Subset
    <3>. QED  BY <2>1, <3>2 DEF Shapely
  <2>3. SumFunction([p \in Ins |-> req.c[p].cost])
          <= req.bank + SumFunction([p \in Outs |-> SellValue(req.bought[p], req.c[p].cost)])
    BY <2>1, <2>2, PlanAffordable DEF Outs, Ins
  <2>. QED  BY <2>3, Zenon DEF Sum
<1>. QED  BY <1>1, PlanInvariant, PTL

(* "The hit lives in the objective": when the squad held is a legal        *)
(* fifteen, no plan is worth less to the solver than keeping it.           *)
THEOREM NeverWorseThanHoldingEver == Spec => []NeverWorseThanHolding
<1>1. PlanInv => NeverWorseThanHolding
  <2>. SUFFICES ASSUME PlanInv, Planned, Whole, req.bank >= 0,
                       req.picks \in Fifteens(req.picks, Facts),
                       NEW held \in SolutionsOver(req.picks, 0, req.c)
                PROVE  req.plan.solution.value >= held.value
    BY DEF NeverWorseThanHolding
  <2>1. /\ Known(req.c, Owned, req.bought) /\ req.plan \in Plans(Owned, req.c, req.bank, req.free)
        /\ req.free \in Nat /\ req.bank \in Nat
    BY DEF PlanInv, SolvedInv, HeldInv, MoneyInv, Planned
  <2>2. Owned = req.picks
    BY DEF Whole, Owned
  <2>. QED  BY <2>1, <2>2, PlannedIsBest
<1>. QED  BY <1>1, PlanInvariant, PTL

=============================================================================
