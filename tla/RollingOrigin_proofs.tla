------------------------ MODULE RollingOrigin_proofs ------------------------
(* Proofs about RollingOrigin, for any archives, any number of seasons and *)
(* any run over them.                                                      *)
EXTENDS RollingOrigin, SequenceTheorems, Counting

-----------------------------------------------------------------------------
(* The inductive invariant.                                                *)

Chosen == {Knobs[i] : i \in DOMAIN Knobs}
Stages == {"read", "plan", "next", "fit", "score", "done", "aborted"} \union Chosen
PlansOf == {PlanOf(s) : s \in Held}

(* Only a shaped archive is planned over, and only seasons held.           *)
Planned ==
    /\ archive \in Archives /\ run \in Runs
    /\ at \in Stages
    /\ at \notin {"read", "aborted"} => Shaped
    /\ plans \in Seq(PlansOf)

(* The fold being run is one that was planned, was not refused and passed  *)
(* assertNoLeak.                                                           *)
FoldIsSplit ==
    /\ fold.plan \in PlansOf /\ fold.plan.blockers = {}
    /\ fold.eval = fold.plan.eval /\ fold.split = SplitOf(fold.plan)
    /\ NoLeak(fold.plan, fold.split)

(* What has been looked at is of the training seasons, or of the part of   *)
(* the season the defensive category is fitted on.                         *)
SeenIsTraining ==
    fold.seen \subseteq Blocks(fold.plan.train) \union fold.split.defconTrain
                                              \union fold.split.defconValidate

(* The window keeps the last of the training seasons; the arm scored is    *)
(* the first one but for the start rate of its minutes and what was chosen *)
(* beside the fit.                                                         *)
FoldIsFitted ==
    /\ fold = [eval |-> fold.eval, plan |-> fold.plan, split |-> fold.split,
               seasons |-> fold.seasons, halfLife |-> fold.halfLife, found |-> fold.found,
               first |-> fold.first, params |-> fold.params, seen |-> fold.seen]
    /\ fold.seasons \subseteq fold.plan.train
    /\ \E s \in fold.seasons : \A t \in fold.plan.train : t <= s
    /\ fold.first = ParamsOf(FitOf(fold.split, fold.seasons, fold.halfLife,
                                  run.imputed, run.mode, Incumbent))
    /\ fold.params =
          [minutes |-> [fold.first.minutes EXCEPT !.shrink = fold.params.minutes.shrink],
           rest |-> [fold.first.minutes EXCEPT !.shrink = fold.params.minutes.shrink],
           prior |-> fold.params.prior, confidence |-> fold.params.confidence,
           rates |-> fold.params.rates, tau |-> fold.params.tau,
           perPlayer |-> fold.params.perPlayer, crowd |-> fold.params.crowd]
    /\ fold.params.perPlayer \in Int
    /\ ~run.imputed => SeenIsTraining

FoldInv ==
    /\ at \in Chosen \union {"fit", "score"} => FoldIsSplit
    /\ at \in Chosen \union {"score"} => FoldIsFitted

ResultsInv ==
    /\ results \in Seq({results[i] : i \in DOMAIN results})
    /\ NothingOfTheFold /\ PairingsAreControlled /\ EveryArmIsFitted

RefereeInv == Planned /\ FoldInv /\ ResultsInv

-----------------------------------------------------------------------------
(* What the invariant says of a plan and of a fold.                        *)

LEMMA KnobsInOrder ==
  /\ Chosen = {"startShrink", "prior", "confidence", "rates", "tau", "perPlayer", "crowd"}
  /\ \A c \in Chosen : IndexOf(c) < Len(Knobs) => Knobs[IndexOf(c) + 1] \in Chosen
  /\ Knobs[1] \in Chosen
<1>1. DOMAIN Knobs = 1..7 /\ Len(Knobs) = 7
  BY DEF Knobs
<1>2. \A c \in Chosen : IndexOf(c) \in 1..7
  <2>. TAKE c \in Chosen
  <2>1. PICK i \in 1..7 : Knobs[i] = c
    BY <1>1 DEF Chosen
  <2>. QED  BY <1>1, <2>1 DEF IndexOf
<1>3. Chosen = {Knobs[1], Knobs[2], Knobs[3], Knobs[4], Knobs[5], Knobs[6], Knobs[7]}
  <2>1. \A i \in 1..7 : i = 1 \/ i = 2 \/ i = 3 \/ i = 4 \/ i = 5 \/ i = 6 \/ i = 7
    OBVIOUS
  <2>. QED  BY <1>1, <2>1 DEF Chosen
<1>4. Chosen = {"startShrink", "prior", "confidence", "rates", "tau", "perPlayer", "crowd"}
  BY <1>3 DEF Knobs
<1>5. \A c \in Chosen : IndexOf(c) < Len(Knobs) => Knobs[IndexOf(c) + 1] \in Chosen
  <2>. TAKE c \in Chosen
  <2>1. SUFFICES ASSUME IndexOf(c) < Len(Knobs) PROVE IndexOf(c) + 1 \in 1..7
    BY <1>1 DEF Chosen
  <2>. QED  BY <1>1, <1>2, <2>1
<1>. QED  BY <1>1, <1>4, <1>5 DEF Chosen

(* A plan is of a season held and trains on seasons before it.             *)
LEMMA PlanIsOfThePast ==
  ASSUME archive \in Archives, NEW plan \in PlansOf
  PROVE  /\ plan = PlanOf(plan.eval)
         /\ plan.eval \in Held /\ plan.eval \in Nat
         /\ plan.train \subseteq Held /\ plan.train \subseteq Nat /\ IsFiniteSet(plan.train)
         /\ \A t \in plan.train : t < plan.eval
         /\ Held \subseteq Nat /\ IsFiniteSet(Held)
<1>1. Held \subseteq Nat /\ IsFiniteSet(Held)
  BY ArchivesAssumption DEF Held
<1>2. PICK s \in Held : plan = PlanOf(s)
  BY DEF PlansOf
<1>3. plan.eval = s /\ plan.train = TrainSeasons(s)
  BY <1>2 DEF PlanOf
<1>4. TrainSeasons(s) \subseteq Held /\ \A t \in TrainSeasons(s) : t < s
  BY DEF TrainSeasons
<1>5. IsFiniteSet(TrainSeasons(s))
  BY <1>1, <1>4, FS_Subset
<1>. QED  BY <1>1, <1>2, <1>3, <1>4, <1>5

(* Nothing of a fold's training, nor of the share of the season the        *)
(* category is fitted on, is scored.                                       *)
LEMMA TrainingIsApart ==
  ASSUME archive \in Archives, FoldIsSplit
  PROVE  LET given == Blocks(fold.plan.train) \union fold.split.defconTrain
                                              \union fold.split.defconValidate
         IN  /\ given \intersect fold.split.evaluate = {}
             /\ \A b \in given : b[1] <= fold.eval
<1>. DEFINE plan == fold.plan
            split == fold.split
            defcon == split.defconTrain \union split.defconValidate
<1>1. /\ plan.eval \in Nat /\ plan.train \subseteq Nat
      /\ \A t \in plan.train : t < plan.eval
  BY PlanIsOfThePast DEF FoldIsSplit
<1>2. /\ fold.eval = plan.eval
      /\ split = SplitOf(plan)
      /\ NoLeak(plan, split)
  BY DEF FoldIsSplit
<1>3. \A b \in split.evaluate : b[1] = plan.eval
  BY <1>2 DEF SplitOf, Blocks
<1>4. \A b \in Blocks(plan.train) : b[1] \in plan.train
  BY DEF Blocks
<1>5. \A b \in Blocks(plan.train) : b[1] <= fold.eval /\ b \notin split.evaluate
  <2>. TAKE b \in Blocks(plan.train)
  <2>1. b[1] \in Nat /\ b[1] < plan.eval
    BY <1>1, <1>4
  <2>. QED  BY <1>1, <1>2, <1>3, <2>1
<1>6. CASE plan.defcon = "within-season"
  <2>1. split.defconTrain = {<<plan.eval, DefconFit>>}
        /\ split.defconValidate = {<<plan.eval, DefconValidate>>}
    BY <1>2, <1>6 DEF SplitOf
  <2>2. \A b \in defcon : b[1] <= fold.eval
    BY <1>1, <1>2, <2>1
  <2>3. defcon \intersect split.evaluate = {}
    BY <1>2, <1>6 DEF NoLeak
  <2>. QED  BY <1>5, <2>2, <2>3
<1>7. CASE plan.defcon # "within-season"
  <2>1. defcon \subseteq Blocks(plan.train)
    BY <1>2, <1>7 DEF SplitOf
  <2>. QED  BY <1>5, <2>1
<1>. QED  BY <1>6, <1>7

(* The last training season of a fold that is not refused has a label of   *)
(* its starts, or an imputed one that the run asked for.                   *)
LEMMA LastHasEvidence ==
  ASSUME Planned, at \notin {"read", "aborted"}, NEW plan \in PlansOf, plan.blockers = {},
         NEW s \in plan.train, \A t \in plan.train : t <= s
  PROVE  /\ Column(s, "starts") \/ (run.imputed /\ Imputed(s))
         /\ (\E t \in plan.train : Column(t, "starts")) => Column(s, "starts")
<1>1. /\ plan.train \subseteq Held /\ plan.train \subseteq Nat
      /\ plan = PlanOf(plan.eval)
  BY PlanIsOfThePast DEF Planned
<1>2. \A t \in plan.train : Column(t, "starts") <=> t >= FirstSeasonWith["starts"]
  BY <1>1, ArchivesAssumption DEF Planned, Shaped
<1>3. FirstSeasonWith["starts"] \in Nat
  BY ArchivesAssumption
<1>4. (\E t \in plan.train : Column(t, "starts")) => Column(s, "starts")
  BY <1>1, <1>2, <1>3
<1>5. Capable(plan.train, "minutes")
  <2>1. plan.train = TrainSeasons(plan.eval)
        /\ plan.blockers = {c \in {"minutes", "rates", "strength"} :
                                ~Capable(TrainSeasons(plan.eval), c)}
    BY <1>1 DEF PlanOf
  <2>. QED  BY <2>1
<1>6. PICK t \in plan.train : Column(t, "starts") \/ (run.imputed /\ Imputed(t))
  BY <1>5 DEF Capable
<1>7. CASE Column(t, "starts")
  BY <1>4, <1>7
<1>8. CASE run.imputed /\ Imputed(t)
  BY <1>4, <1>8 DEF Imputed
<1>. QED  BY <1>4, <1>6, <1>7, <1>8

(* Every fit of a fold whose window keeps the last season, and that reads  *)
(* the evidence of it, has rows for its curves.                            *)
LEMMA FitHasCurves ==
  ASSUME Planned, FoldIsSplit, NEW s \in fold.seasons, fold.seasons \subseteq fold.plan.train,
         NEW halfLife, NEW imputed, NEW mode, NEW shrink,
         Column(s, "starts") \/ (imputed /\ Imputed(s)), mode # "unflagged-base"
  PROVE  CurvePoints(FitOf(fold.split, fold.seasons, halfLife, imputed, mode, shrink)) # {}
<1>. DEFINE fit == FitOf(fold.split, fold.seasons, halfLife, imputed, mode, shrink)
            b == <<s, 1>>
<1>1. b \in fold.split.train
  <2>1. b \in Blocks(fold.plan.train) /\ ~(b[2] >= EvalFrom)
    BY DEF Blocks, Rounds, EvalFrom
  <2>. QED  BY <2>1 DEF FoldIsSplit, SplitOf
<1>2. fit.train = {x \in fold.split.train : x[1] \in fold.seasons} /\ fit.imputed = imputed
      /\ fit.mode = mode
  BY DEF FitOf
<1>. HIDE DEF fit
<1>3. b \in fit.train /\ b[1] = s
  BY <1>1, <1>2
<1>4. StartEvidence(fit, b[1])
  BY <1>2, <1>3 DEF StartEvidence
<1>. QED  BY <1>2, <1>3, <1>4 DEF CurvePoints, fit

-----------------------------------------------------------------------------
(* The steps.                                                              *)

LEMMA RefereeInit == Init => RefereeInv
<1> SUFFICES ASSUME Init PROVE RefereeInv
  OBVIOUS
<1>1. /\ archive \in Archives /\ run \in Runs /\ at = "read"
      /\ plans = <<>> /\ results = <<>>
  BY DEF Init
<1>2. Planned
  BY <1>1 DEF Planned, Stages
<1>3. FoldInv
  BY <1>1, KnobsInOrder DEF FoldInv
<1>4. Ran = {} /\ results \in Seq({results[i] : i \in DOMAIN results})
  BY <1>1 DEF Ran
<1>5. ResultsInv
  BY <1>4 DEF ResultsInv, NothingOfTheFold, PairingsAreControlled, EveryArmIsFitted
<1>. QED  BY <1>2, <1>3, <1>5 DEF RefereeInv

(* The archive and the run are the ones begun with, so what is derived     *)
(* from them stays.                                                        *)
LEMMA Kept ==
  ASSUME Next \/ UNCHANGED vars
  PROVE  archive' = archive /\ run' = run
BY DEF Next, vars, History, PlanFolds, SkipFold, SplitFold, FitFold, ChooseAll, ChooseKnob, Score,
       Write, Abort

LEMMA KeptDerived ==
  ASSUME archive' = archive, run' = run
  PROVE  /\ Held' = Held /\ (Shaped <=> Shaped') /\ PlansOf' = PlansOf
         /\ \A fit : CurvePoints(fit)' = CurvePoints(fit)
         /\ \A plan : SplitOf(plan)' = SplitOf(plan)
<1>1. Held' = Held
  BY DEF Held
<1>2. Shaped <=> Shaped'
  BY <1>1 DEF Shaped, Column
<1>3. \A S, c : Capable(S, c)' = Capable(S, c)
  BY <1>1 DEF Capable, Imputed, Column, LabelledSeasons
<1>4. \A s : TrainSeasons(s)' = TrainSeasons(s)
  BY <1>1 DEF TrainSeasons
<1>5. \A s : DefconSource(s)' = DefconSource(s)
  BY <1>3, <1>4 DEF DefconSource, Column
<1>6. \A s : PlanOf(s)' = PlanOf(s)
  BY <1>3, <1>4, <1>5 DEF PlanOf
<1>7. PlansOf' = PlansOf
  BY <1>1, <1>6 DEF PlansOf
<1>8. \A fit : CurvePoints(fit)' = CurvePoints(fit)
  BY <1>1 DEF CurvePoints, StartEvidence, Imputed, Column, LabelledSeasons
<1>9. \A plan : SplitOf(plan)' = SplitOf(plan)
  BY DEF SplitOf, Column
<1>. QED  BY <1>1, <1>2, <1>7, <1>8, <1>9

LEMMA PlannedNext ==
  ASSUME Planned, [Next]_vars
  PROVE  Planned'
<1>. USE DEF Planned
<1>0. archive' = archive /\ run' = run
  BY Kept
<1>1. PlansOf' = PlansOf /\ (Shaped <=> Shaped')
  BY <1>0, KeptDerived
<1>2. Stages' = Stages /\ Chosen \subseteq Stages /\ "read" \notin Chosen /\ "aborted" \notin Chosen
  BY KnobsInOrder DEF Stages, Chosen, Knobs
<1>3. CASE History
  BY <1>0, <1>1, <1>2, <1>3 DEF History, Abort, Stages
<1>4. CASE PlanFolds
  <2>. DEFINE later == {s \in Held : \E t \in Held : t < s}
              nth(i) == CHOOSE s \in later : Cardinality({t \in later : t < s}) = i - 1
  <2>1. later \subseteq Nat /\ IsFiniteSet(later) /\ later \subseteq Held
    <3>1. Held \subseteq Nat /\ IsFiniteSet(Held)
      BY ArchivesAssumption DEF Held
    <3>. QED  BY <3>1, FS_Subset
  <2>2. Cardinality(later) \in Nat
    BY <2>1, FS_CardinalityType
  <2>3. \A i \in 1..Cardinality(later) : PlanOf(nth(i)) \in PlansOf
    <3>. TAKE i \in 1..Cardinality(later)
    <3>1. i - 1 \in Nat /\ i - 1 < Cardinality(later)
      BY <2>2
    <3>. HIDE DEF later
    <3>2. \E s \in later : Cardinality({t \in later : t < s}) = i - 1
      BY <2>1, <3>1, RankIsTaken
    <3>3. nth(i) \in later
      BY <3>2
    <3>. QED  BY <2>1, <3>3 DEF PlansOf
  <2>4. plans' = [i \in 1..Cardinality(later) |-> PlanOf(nth(i))] /\ at' = "next" /\ at = "plan"
    BY <1>4 DEF PlanFolds
  <2>. HIDE DEF later, nth
  <2>5. plans' \in Seq(PlansOf)
    BY <2>2, <2>3, <2>4
  <2>. QED  BY <1>0, <1>1, <1>2, <2>4, <2>5 DEF Stages
<1>5. CASE SkipFold
  <2>1. Tail(plans) \in Seq(PlansOf)
    BY <1>5, HeadTailProperties DEF SkipFold
  <2>. QED  BY <1>0, <1>1, <1>2, <1>5, <2>1 DEF SkipFold
<1>6. CASE SplitFold
  <2>1. Tail(plans) \in Seq(PlansOf)
    BY <1>6, HeadTailProperties DEF SplitFold
  <2>. QED  BY <1>0, <1>1, <1>2, <1>6, <2>1 DEF SplitFold, Abort, Stages
<1>7. CASE FitFold
  BY <1>0, <1>1, <1>2, <1>7, KnobsInOrder DEF FitFold
<1>8. ASSUME NEW c \in Chosen, ChooseKnob(c) PROVE Planned'
  <2>1. at' \in Chosen \union {"score"}
    BY <1>8, KnobsInOrder DEF ChooseKnob
  <2>. QED  BY <1>0, <1>1, <1>2, <1>8, <2>1 DEF ChooseKnob, Stages
<1>9. CASE Score
  BY <1>0, <1>1, <1>2, <1>9 DEF Score, Stages
<1>10. CASE Write
  BY <1>0, <1>1, <1>2, <1>10 DEF Write, Stages
<1>11. CASE UNCHANGED vars
  BY <1>0, <1>1, <1>2, <1>11 DEF vars
<1>. QED  BY <1>3, <1>4, <1>5, <1>6, <1>7, <1>8, <1>9, <1>10, <1>11 DEF Next, ChooseAll, Chosen

(* A fit without imputed labels rests on the training rows, and on the     *)
(* share of the season its category is fitted on.                          *)
LEMMA FitRestsOnTraining ==
  ASSUME FoldIsSplit, NEW seasons, NEW halfLife, NEW mode, NEW shrink
  PROVE  RestsOn(FitOf(fold.split, seasons, halfLife, FALSE, mode, shrink))
            \subseteq Blocks(fold.plan.train) \union fold.split.defconTrain
                                              \union fold.split.defconValidate
<1>. DEFINE fit == FitOf(fold.split, seasons, halfLife, FALSE, mode, shrink)
<1>1. /\ fit.train \subseteq fold.split.train /\ fit.validate = fold.split.validate
      /\ fit.defconTrain = fold.split.defconTrain
      /\ fit.defconValidate = fold.split.defconValidate /\ fit.imputed = FALSE
  BY DEF FitOf
<1>2. fold.split.train \subseteq Blocks(fold.plan.train)
      /\ fold.split.validate \subseteq Blocks(fold.plan.train)
  BY DEF FoldIsSplit, SplitOf
<1>. HIDE DEF fit
<1>. QED  BY <1>1, <1>2 DEF RestsOn, MeasuredOn, SearchedOn, DispersionOn, fit

LEMMA FitFoldFits ==
  ASSUME Planned, FoldIsSplit, FitFold
  PROVE  FoldIsSplit' /\ FoldIsFitted'
<1>1. archive' = archive /\ run' = run /\ at = "fit"
  BY DEF FitFold
<1>2. PlansOf' = PlansOf /\ \A plan : SplitOf(plan)' = SplitOf(plan)
  BY <1>1, KeptDerived
<1>0. Cardinality(Held) \in Nat /\ Cardinality(Held) # 0
  <2>1. IsFiniteSet(Held) /\ Held # {}
    BY PlanIsOfThePast DEF Planned, FoldIsSplit
  <2>. QED  BY <2>1, FS_EmptySet, FS_CardinalityType
<1>3. PICK n, half :
        /\ n \in 1..3 \/ n = Cardinality(Held)
        /\ fold' = [eval |-> fold.eval, plan |-> fold.plan, split |-> fold.split,
                    seasons |-> CandidateSeasons(n), halfLife |-> half, found |-> Found[fold.eval],
                    first |-> ParamsOf(FitOf(fold.split, CandidateSeasons(n), half,
                                             run.imputed, run.mode, Incumbent)),
                    params |-> ParamsOf(FitOf(fold.split, CandidateSeasons(n), half,
                                              run.imputed, run.mode, Incumbent)),
                    seen |-> RestsOn(FitOf(fold.split, CandidateSeasons(n), half,
                                           run.imputed, run.mode, Incumbent)) \union
                             (IF "window" \in run.selects THEN TriedWindows ELSE {})]
  <2>. DEFINE new(n, half) ==
                [eval |-> fold.eval, plan |-> fold.plan, split |-> fold.split,
                 seasons |-> CandidateSeasons(n), halfLife |-> half, found |-> Found[fold.eval],
                 first |-> ParamsOf(FitOf(fold.split, CandidateSeasons(n), half,
                                          run.imputed, run.mode, Incumbent)),
                 params |-> ParamsOf(FitOf(fold.split, CandidateSeasons(n), half,
                                           run.imputed, run.mode, Incumbent)),
                 seen |-> RestsOn(FitOf(fold.split, CandidateSeasons(n), half,
                                        run.imputed, run.mode, Incumbent)) \union
                          (IF "window" \in run.selects THEN TriedWindows ELSE {})]
  <2>1. PICK w \in {EveryRow} \union WindowCandidates : fold' = new(w[1], w[2])
    BY DEF FitFold
  <2>2. w[1] \in 1..3 \/ w[1] = Cardinality(Held)
    BY DEF EveryRow, WindowCandidates
  <2>. QED  BY <2>1, <2>2
<1>. DEFINE seasons == CandidateSeasons(n)
            fit == FitOf(fold.split, seasons, half, run.imputed, run.mode, Incumbent)
<1>4. FoldIsSplit'
  BY <1>2, <1>3 DEF FoldIsSplit, NoLeak
<1>5. seasons \subseteq fold.plan.train
  BY DEF CandidateSeasons
<1>6. \E s \in seasons : \A t \in fold.plan.train : t <= s
  <2>1. /\ fold.plan.train \subseteq Nat /\ IsFiniteSet(fold.plan.train)
        /\ fold.plan.eval \in Held /\ IsFiniteSet(Held)
        /\ fold.plan = PlanOf(fold.plan.eval)
    BY PlanIsOfThePast DEF Planned, FoldIsSplit
  <2>2. fold.plan.train # {}
    <3>1. fold.plan.train = TrainSeasons(fold.plan.eval)
          /\ fold.plan.blockers = {c \in {"minutes", "rates", "strength"} :
                                      ~Capable(TrainSeasons(fold.plan.eval), c)}
      BY <2>1 DEF PlanOf
    <3>. QED  BY <3>1 DEF Capable, FoldIsSplit
  <2>3. PICK s \in fold.plan.train : \A t \in fold.plan.train : t <= s
    BY <2>1, <2>2, LargestNat
  <2>4. {u \in fold.plan.train : u > s} = {}
    <3>1. \A u \in fold.plan.train : ~(u > s)
      BY <2>1, <2>3
    <3>. QED  BY <3>1
  <2>6. Cardinality({u \in fold.plan.train : u > s}) < n
    BY <1>0, <1>3, <2>4, FS_EmptySet
  <2>. QED  BY <2>3, <2>6 DEF CandidateSeasons
<1>7. fit = [fit EXCEPT !.shrink = fit.shrink]
  BY DEF FitOf
<1>8. ~run.imputed => RestsOn(fit) \union TriedWindows
            \subseteq Blocks(fold.plan.train) \union fold.split.defconTrain
                                              \union fold.split.defconValidate
  <2>1. run.imputed \in BOOLEAN
    BY RunsAssumption DEF Planned
  <2>2. SUFFICES ASSUME ~run.imputed PROVE <1>8!2
    OBVIOUS
  <2>3. run.imputed = FALSE
    BY <2>1, <2>2
  <2>. DEFINE known == Blocks(fold.plan.train) \union fold.split.defconTrain
                                               \union fold.split.defconValidate
              trial(w) == FitOf(fold.split, CandidateSeasons(w[1]), w[2], FALSE, "joint", Incumbent)
  <2>4. RestsOn(fit) \subseteq known
    BY <2>3, FitRestsOnTraining
  <2>5. \A w : RestsOn(trial(w)) \subseteq known
    BY FitRestsOnTraining
  <2>6. TriedWindows = ScoredToSelect \union UNION {RestsOn(trial(w)) : w \in WindowCandidates}
    BY <2>3 DEF TriedWindows
  <2>. HIDE DEF trial
  <2>7. TriedWindows \subseteq known
    BY <2>5, <2>6 DEF ScoredToSelect
  <2>. QED  BY <2>4, <2>7
<1>. HIDE DEF seasons, fit
<1>9. /\ fold'.seasons = seasons /\ fold'.plan = fold.plan /\ fold'.split = fold.split
      /\ fold'.halfLife = half /\ fold'.first = ParamsOf(fit) /\ fold'.params = ParamsOf(fit)
      /\ fold'.seen = RestsOn(fit) \union (IF "window" \in run.selects THEN TriedWindows ELSE {})
      /\ fold' = [eval |-> fold'.eval, plan |-> fold'.plan, split |-> fold'.split,
                  seasons |-> fold'.seasons, halfLife |-> fold'.halfLife, found |-> fold'.found,
                  first |-> fold'.first, params |-> fold'.params, seen |-> fold'.seen]
  BY <1>3 DEF seasons, fit
<1>10. ~run.imputed => SeenIsTraining'
  BY <1>8, <1>9 DEF SeenIsTraining, Blocks
<1>11. fold'.params.perPlayer \in Int
  BY <1>9 DEF ParamsOf, Incumbent
<1>12. fold'.first.minutes = fit /\ fold'.params.minutes = fit /\ fold'.params.rest = fit
  BY <1>9 DEF ParamsOf
<1>13. fold'.params =
          [minutes |-> [fold'.first.minutes EXCEPT !.shrink = fold'.params.minutes.shrink],
           rest |-> [fold'.first.minutes EXCEPT !.shrink = fold'.params.minutes.shrink],
           prior |-> fold'.params.prior, confidence |-> fold'.params.confidence,
           rates |-> fold'.params.rates, tau |-> fold'.params.tau,
           perPlayer |-> fold'.params.perPlayer, crowd |-> fold'.params.crowd]
  BY <1>7, <1>9, <1>12 DEF ParamsOf
<1>14. fold'.first = ParamsOf(FitOf(fold'.split, fold'.seasons, fold'.halfLife,
                                  run'.imputed, run'.mode, Incumbent))
  BY <1>1, <1>9 DEF fit
<1>15. FoldIsFitted'
  <2>1. fold'.seasons \subseteq fold'.plan.train
        /\ \E s \in fold'.seasons : \A t \in fold'.plan.train : t <= s
    BY <1>5, <1>6, <1>9
  <2>. QED  BY <1>1, <1>9, <1>10, <1>11, <1>13, <1>14, <2>1 DEF FoldIsFitted
<1>. QED  BY <1>4, <1>15

(* A fit that differs from the first one of its fold in how far its start  *)
(* rate is shrunk, and in nothing else.                                    *)
FitShrunk(v) ==
    FitOf(fold.split, fold.seasons, fold.halfLife, run.imputed, run.mode, v)

LEMMA ShrinkOnly ==
  ASSUME NEW split, NEW seasons, NEW halfLife, NEW imputed, NEW mode, NEW v, NEW w
  PROVE  /\ FitOf(split, seasons, halfLife, imputed, mode, v).shrink = v
         /\ [FitOf(split, seasons, halfLife, imputed, mode, v) EXCEPT !.shrink = w]
              = FitOf(split, seasons, halfLife, imputed, mode, w)
         /\ "shrink" \in DOMAIN FitOf(split, seasons, halfLife, imputed, mode, v)
         /\ \A f \in DOMAIN FitOf(split, seasons, halfLife, imputed, mode, v) \ {"shrink"} :
               FitOf(split, seasons, halfLife, imputed, mode, v)[f]
                 = FitOf(split, seasons, halfLife, imputed, mode, w)[f]
<1>. DEFINE train == {b \in split.train : b[1] \in seasons}
            validate == split.validate
            defconTrain == split.defconTrain
            defconValidate == split.defconValidate
<1>1. \A u : FitOf(split, seasons, halfLife, imputed, mode, u) =
          [train |-> train, validate |-> validate, defconTrain |-> defconTrain,
           defconValidate |-> defconValidate, halfLife |-> halfLife, imputed |-> imputed,
           mode |-> mode, shrink |-> u]
  BY DEF FitOf
<1>. HIDE DEF train, validate, defconTrain, defconValidate
<1>2. [[train |-> train, validate |-> validate, defconTrain |-> defconTrain,
        defconValidate |-> defconValidate, halfLife |-> halfLife, imputed |-> imputed,
        mode |-> mode, shrink |-> v] EXCEPT !.shrink = w] =
          [train |-> train, validate |-> validate, defconTrain |-> defconTrain,
           defconValidate |-> defconValidate, halfLife |-> halfLife, imputed |-> imputed,
           mode |-> mode, shrink |-> w]
  OBVIOUS
<1>3. \A u : DOMAIN FitOf(split, seasons, halfLife, imputed, mode, u) =
          {"train", "validate", "defconTrain", "defconValidate", "halfLife", "imputed",
           "mode", "shrink"}
  BY <1>1
<1>4. \A f \in {"train", "validate", "defconTrain", "defconValidate", "halfLife", "imputed", "mode"} :
          FitOf(split, seasons, halfLife, imputed, mode, v)[f]
            = FitOf(split, seasons, halfLife, imputed, mode, w)[f]
  BY <1>1
<1>. QED  BY <1>1, <1>2, <1>3, <1>4

(* Setting one of what is chosen beside the fit leaves the rest.           *)
LEMMA SetBeside ==
  ASSUME NEW c \in {"prior", "confidence", "rates", "tau", "perPlayer", "crowd"}, NEW v,
         NEW minutes, NEW rest, NEW prior, NEW confidence, NEW rates, NEW tau, NEW perPlayer,
         NEW crowd
  PROVE  [[minutes |-> minutes, rest |-> rest, prior |-> prior, confidence |-> confidence,
           rates |-> rates, tau |-> tau, perPlayer |-> perPlayer, crowd |-> crowd]
              EXCEPT ![c] = v] =
         [minutes |-> minutes, rest |-> rest,
          prior |-> IF c = "prior" THEN v ELSE prior,
          confidence |-> IF c = "confidence" THEN v ELSE confidence,
          rates |-> IF c = "rates" THEN v ELSE rates,
          tau |-> IF c = "tau" THEN v ELSE tau,
          perPlayer |-> IF c = "perPlayer" THEN v ELSE perPlayer,
          crowd |-> IF c = "crowd" THEN v ELSE crowd]
<1>1. CASE c = "prior"
  BY <1>1
<1>2. CASE c = "confidence"
  BY <1>2
<1>3. CASE c = "rates"
  BY <1>3
<1>4. CASE c = "tau"
  BY <1>4
<1>5. CASE c = "perPlayer"
  BY <1>5
<1>6. CASE c = "crowd"
  BY <1>6
<1>. QED  BY <1>1, <1>2, <1>3, <1>4, <1>5, <1>6

LEMMA FittedArms ==
  ASSUME FoldIsFitted
  PROVE  /\ fold.first.minutes = FitShrunk(Incumbent)
         /\ fold.params.minutes = FitShrunk(fold.params.minutes.shrink)
         /\ fold.params.rest = FitShrunk(fold.params.minutes.shrink)
         /\ \A v : [fold.first.minutes EXCEPT !.shrink = v] = FitShrunk(v)
         /\ \A v : [fold.params.minutes EXCEPT !.shrink = v] = FitShrunk(v)
         /\ \A v : FitShrunk(v).shrink = v
<1>1. \A v, w : [FitShrunk(v) EXCEPT !.shrink = w] = FitShrunk(w) /\ FitShrunk(v).shrink = v
  <2>. TAKE v, w
  <2>. QED  BY ShrinkOnly DEF FitShrunk
<1>2. fold.first.minutes = FitShrunk(Incumbent)
  BY DEF FoldIsFitted, ParamsOf, FitShrunk
<1>3. /\ fold.params.minutes = [fold.first.minutes EXCEPT !.shrink = fold.params.minutes.shrink]
      /\ fold.params.rest = [fold.first.minutes EXCEPT !.shrink = fold.params.minutes.shrink]
  BY DEF FoldIsFitted
<1>. QED  BY <1>1, <1>2, <1>3

(* What is chosen for whether the players' own rates count is a number.    *)
LEMMA OutcomesAreNumbers ==
  ASSUME Planned, NEW c \in Chosen, NEW v \in Outcomes(c)
  PROVE  v \in Int
<1>1. Values \subseteq Nat /\ Incumbent \in Nat
  BY ValuesAssumption DEF Incumbent
<1>. DEFINE given == IF c \in DOMAIN run.given THEN run.given[c] ELSE Incumbent
<1>2. given \in Nat
  BY <1>1, RunsAssumption DEF Planned
<1>3. CandidatesOf(c) \subseteq Nat
  BY <1>1 DEF CandidatesOf
<1>. HIDE DEF given
<1>4. PICK w \in IF CandidatesOf(c) = {} THEN {given} ELSE CandidatesOf(c) :
           v = IF c = "tau" /\ w = Incumbent THEN given ELSE w
  BY DEF Outcomes, given
<1>. QED  BY <1>2, <1>3, <1>4

LEMMA ChooseKnobKeeps ==
  ASSUME Planned, FoldIsSplit, FoldIsFitted, NEW c \in Chosen, ChooseKnob(c)
  PROVE  FoldIsSplit' /\ FoldIsFitted'
<1>1. archive' = archive /\ run' = run
  BY DEF ChooseKnob
<1>2. PlansOf' = PlansOf /\ \A plan : SplitOf(plan)' = SplitOf(plan)
  BY <1>1, KeptDerived
<1>3. PICK v \in Outcomes(c) :
        fold' = [fold EXCEPT !.params = With(@, c, v),
                             !.seen = @ \union RestsOn(With(fold.params, c, v).rest) \union
                                      (IF c \in run.selects THEN ScoredToSelect ELSE {})]
  BY DEF ChooseKnob
<1>. DEFINE params == With(fold.params, c, v)
            more == RestsOn(params.rest) \union (IF c \in run.selects THEN ScoredToSelect ELSE {})
<1>4. /\ fold'.eval = fold.eval /\ fold'.plan = fold.plan /\ fold'.split = fold.split
      /\ fold'.seasons = fold.seasons /\ fold'.halfLife = fold.halfLife
      /\ fold'.first = fold.first /\ fold'.params = params /\ fold'.seen = fold.seen \union more
      /\ fold' = [eval |-> fold'.eval, plan |-> fold'.plan, split |-> fold'.split,
                  seasons |-> fold'.seasons, halfLife |-> fold'.halfLife, found |-> fold'.found,
                  first |-> fold'.first, params |-> fold'.params, seen |-> fold'.seen]
  <2>1. fold = [eval |-> fold.eval, plan |-> fold.plan, split |-> fold.split,
               seasons |-> fold.seasons, halfLife |-> fold.halfLife, found |-> fold.found,
               first |-> fold.first, params |-> fold.params, seen |-> fold.seen]
    BY DEF FoldIsFitted
  <2>2. fold' = [fold EXCEPT !.params = params, !.seen = fold.seen \union more]
    <3>1. fold' = [fold EXCEPT !.params = params,
                               !.seen = @ \union RestsOn(params.rest) \union
                                        (IF c \in run.selects THEN ScoredToSelect ELSE {})]
      BY <1>3, <2>1
    <3>. HIDE DEF params
    <3>. QED  BY <2>1, <3>1
  <2>. HIDE DEF params, more
  <2>. QED  BY <2>1, <2>2
<1>5. PICK w : /\ params.minutes = FitShrunk(w) /\ params.rest = FitShrunk(w)
               /\ params = [minutes |-> FitShrunk(w), rest |-> FitShrunk(w),
                            prior |-> params.prior, confidence |-> params.confidence,
                            rates |-> params.rates, tau |-> params.tau,
                            perPlayer |-> params.perPlayer, crowd |-> params.crowd]
               /\ params.perPlayer \in Int
  <2>. DEFINE old == fold.params
  <2>1. /\ old = [minutes |-> FitShrunk(old.minutes.shrink), rest |-> FitShrunk(old.minutes.shrink),
                  prior |-> old.prior, confidence |-> old.confidence, rates |-> old.rates,
                  tau |-> old.tau, perPlayer |-> old.perPlayer, crowd |-> old.crowd]
        /\ old.perPlayer \in Int
    BY FittedArms DEF FoldIsFitted
  <2>2. CASE c = "startShrink" /\ v # Incumbent
    <3>1. params = ParamsOf(FitShrunk(v))
      BY <2>2, FittedArms DEF With
    <3>. QED  BY <3>1 DEF ParamsOf, Incumbent
  <2>3. CASE c = "startShrink" /\ v = Incumbent
    BY <2>1, <2>3 DEF With
  <2>4. CASE c # "startShrink"
    <3>1. params = [old EXCEPT ![c] = v]
      BY <2>4 DEF With
    <3>2. v \in Int
      BY OutcomesAreNumbers
    <3>3. c \in {"prior", "confidence", "rates", "tau", "perPlayer", "crowd"}
      BY <2>4, KnobsInOrder
    <3>. HIDE DEF params, old
    <3>. DEFINE fit == FitShrunk(old.minutes.shrink)
    <3>4. [[minutes |-> fit, rest |-> fit, prior |-> old.prior, confidence |-> old.confidence,
            rates |-> old.rates, tau |-> old.tau, perPlayer |-> old.perPlayer,
            crowd |-> old.crowd] EXCEPT ![c] = v] =
                   [minutes |-> fit, rest |-> fit,
                    prior |-> IF c = "prior" THEN v ELSE old.prior,
                    confidence |-> IF c = "confidence" THEN v ELSE old.confidence,
                    rates |-> IF c = "rates" THEN v ELSE old.rates,
                    tau |-> IF c = "tau" THEN v ELSE old.tau,
                    perPlayer |-> IF c = "perPlayer" THEN v ELSE old.perPlayer,
                    crowd |-> IF c = "crowd" THEN v ELSE old.crowd]
      <4>. DEFINE a == old.prior b == old.confidence d == old.rates e == old.tau
                  f == old.perPlayer g == old.crowd
      <4>. HIDE DEF fit, a, b, d, e, f, g
      <4>1. [[minutes |-> fit, rest |-> fit, prior |-> a, confidence |-> b,
            rates |-> d, tau |-> e, perPlayer |-> f,
            crowd |-> g] EXCEPT ![c] = v] =
                   [minutes |-> fit, rest |-> fit,
                    prior |-> IF c = "prior" THEN v ELSE a,
                    confidence |-> IF c = "confidence" THEN v ELSE b,
                    rates |-> IF c = "rates" THEN v ELSE d,
                    tau |-> IF c = "tau" THEN v ELSE e,
                    perPlayer |-> IF c = "perPlayer" THEN v ELSE f,
                    crowd |-> IF c = "crowd" THEN v ELSE g]
        BY <3>3, SetBeside
      <4>. QED  BY <4>1 DEF a, b, d, e, f, g
    <3>5. params = [[minutes |-> fit, rest |-> fit, prior |-> old.prior,
                    confidence |-> old.confidence, rates |-> old.rates, tau |-> old.tau,
                    perPlayer |-> old.perPlayer, crowd |-> old.crowd] EXCEPT ![c] = v]
      BY <2>1, <3>1
    <3>. QED  BY <2>1, <3>2, <3>4, <3>5
  <2>. QED  BY <2>2, <2>3, <2>4
<1>6. ~run.imputed => more \subseteq Blocks(fold.plan.train) \union fold.split.defconTrain
                                                            \union fold.split.defconValidate
  <2>1. ~run.imputed => run.imputed = FALSE
    BY RunsAssumption DEF Planned
  <2>2. ~run.imputed => RestsOn(params.rest)
            \subseteq Blocks(fold.plan.train) \union fold.split.defconTrain
                                              \union fold.split.defconValidate
    BY <1>5, <2>1, FitRestsOnTraining DEF FitShrunk
  <2>. QED  BY <2>2 DEF ScoredToSelect
<1>. HIDE DEF params, more
<1>7. FoldIsSplit'
  BY <1>2, <1>4 DEF FoldIsSplit, NoLeak
<1>8. ~run.imputed => SeenIsTraining'
  BY <1>4, <1>6 DEF SeenIsTraining, Blocks, FoldIsFitted
<1>9. [fold'.first.minutes EXCEPT !.shrink = fold'.params.minutes.shrink] = FitShrunk(w)
  BY <1>4, <1>5, FittedArms
<1>10. fold'.params =
          [minutes |-> [fold'.first.minutes EXCEPT !.shrink = fold'.params.minutes.shrink],
           rest |-> [fold'.first.minutes EXCEPT !.shrink = fold'.params.minutes.shrink],
           prior |-> fold'.params.prior, confidence |-> fold'.params.confidence,
           rates |-> fold'.params.rates, tau |-> fold'.params.tau,
           perPlayer |-> fold'.params.perPlayer, crowd |-> fold'.params.crowd]
       /\ fold'.params.perPlayer \in Int
  BY <1>4, <1>5, <1>9
<1>11. /\ fold'.first = ParamsOf(FitOf(fold'.split, fold'.seasons, fold'.halfLife,
                                      run'.imputed, run'.mode, Incumbent))
       /\ fold'.seasons \subseteq fold'.plan.train
       /\ \E s \in fold'.seasons : \A t \in fold'.plan.train : t <= s
  BY <1>1, <1>4 DEF FoldIsFitted
<1>12. FoldIsFitted'
  BY <1>1, <1>4, <1>8, <1>10, <1>11 DEF FoldIsFitted
<1>. QED  BY <1>7, <1>12

LEMMA FoldNext ==
  ASSUME Planned, FoldInv, [Next]_vars
  PROVE  FoldInv'
<1>0. archive' = archive /\ run' = run
  BY Kept
<1>1. PlansOf' = PlansOf /\ \A plan : SplitOf(plan)' = SplitOf(plan)
  BY <1>0, KeptDerived
<1>2. Chosen = {"startShrink", "prior", "confidence", "rates", "tau", "perPlayer", "crowd"}
      /\ Chosen' = Chosen
  BY KnobsInOrder DEF Chosen, Knobs
<1>3. CASE at' \notin Chosen \union {"fit", "score"}
  BY <1>2, <1>3 DEF FoldInv
<1>4. CASE History \/ PlanFolds \/ SkipFold \/ Score \/ Write
  <2>1. at' \in {"plan", "aborted", "next", "done"}
    BY <1>4 DEF History, Abort, PlanFolds, SkipFold, Score, Write
  <2>. QED  BY <1>2, <1>3, <2>1
<1>5. CASE SplitFold
  <2>1. Head(plans) \in PlansOf
    BY <1>5, HeadTailProperties DEF SplitFold, Planned
  <2>2. CASE NoLeak(Head(plans), SplitOf(Head(plans)))
    <3>1. /\ fold' = [eval |-> Head(plans).eval, plan |-> Head(plans),
                      split |-> SplitOf(Head(plans)), seen |-> {}]
          /\ Head(plans).blockers = {} /\ at' = "fit"
      BY <1>5, <2>2 DEF SplitFold
    <3>2. FoldIsSplit'
      BY <1>1, <2>1, <2>2, <3>1 DEF FoldIsSplit, NoLeak
    <3>. QED  BY <1>2, <3>1, <3>2 DEF FoldInv
  <2>3. CASE ~NoLeak(Head(plans), SplitOf(Head(plans)))
    <3>1. at' = "aborted"
      BY <1>5, <2>3 DEF SplitFold, Abort
    <3>. QED  BY <1>2, <1>3, <3>1
  <2>. QED  BY <2>2, <2>3
<1>6. CASE FitFold
  <2>1. FoldIsSplit
    BY <1>6 DEF FoldInv, FitFold
  <2>. QED  BY <1>6, <2>1, FitFoldFits DEF FoldInv
<1>7. ASSUME NEW c \in Chosen, ChooseKnob(c) PROVE FoldInv'
  <2>1. FoldIsSplit /\ FoldIsFitted
    BY <1>7 DEF FoldInv, ChooseKnob
  <2>. QED  BY <1>7, <2>1, ChooseKnobKeeps DEF FoldInv
<1>8. CASE UNCHANGED vars
  <2>1. fold' = fold /\ at' = at
    BY <1>8 DEF vars
  <2>2. FoldIsSplit => FoldIsSplit'
    BY <1>1, <2>1 DEF FoldIsSplit, NoLeak
  <2>3. FoldIsFitted => FoldIsFitted'
    BY <1>0, <2>1 DEF FoldIsFitted, SeenIsTraining, Blocks
  <2>. QED  BY <1>2, <2>1, <2>2, <2>3 DEF FoldInv
<1>. QED  BY <1>4, <1>5, <1>6, <1>7, <1>8 DEF Next, ChooseAll, Chosen

-----------------------------------------------------------------------------
(* The results.                                                            *)

LEMMA ResultAppended ==
  ASSUME results \in Seq({results[i] : i \in DOMAIN results}), NEW r,
         results' = Append(results, r)
  PROVE  /\ results' \in Seq({results'[i] : i \in DOMAIN results'})
         /\ Ran' = Ran \union (IF r.ran THEN {r} ELSE {})
<1>. DEFINE S == {results[i] : i \in DOMAIN results} \union {r}
            n == Len(results)
<1>1. results \in Seq(S) /\ r \in S /\ n \in Nat /\ DOMAIN results = 1..n
  <2>. DEFINE S0 == {results[i] : i \in DOMAIN results}
  <2>. HIDE DEF S0
  <2>1. results \in Seq(S0)
    BY DEF S0
  <2>2. n \in Nat /\ DOMAIN results = 1..n /\ \A i \in 1..n : results[i] \in S0 \union {r}
    BY <2>1
  <2>3. results \in Seq(S0 \union {r})
    BY <2>1, <2>2
  <2>. QED  BY <2>2, <2>3 DEF S0
<1>. HIDE DEF S
<1>2. /\ results' \in Seq(S) /\ Len(results') = n + 1 /\ DOMAIN results' = 1..(n + 1)
      /\ \A i \in 1..n : results'[i] = results[i]
      /\ results'[n + 1] = r
  BY <1>1, AppendProperties, LenProperties
<1>3. 1..(n + 1) = 1..n \union {n + 1} /\ n + 1 \notin 1..n
  BY <1>1
<1>4. {results'[i] : i \in DOMAIN results'} = S
  BY <1>1, <1>2, <1>3 DEF S
<1>5. Ran' = Ran \union (IF r.ran THEN {r} ELSE {})
  BY <1>1, <1>2, <1>3 DEF Ran
<1>. QED  BY <1>2, <1>4, <1>5

(* The result of a fold that was run.                                      *)
ScoredFold ==
    [eval |-> fold.eval, ran |-> TRUE, seen |-> fold.seen, scored |-> fold.split.evaluate,
     params |-> {fold.params}, paired |-> Paired]

LEMMA ScoredRestsOnThePast ==
  ASSUME Planned, FoldIsSplit, FoldIsFitted, ~run.imputed
  PROVE  /\ ScoredFold.seen \intersect ScoredFold.scored = {}
         /\ \A b \in ScoredFold.seen : b[1] <= ScoredFold.eval
<1>1. ScoredFold.seen = fold.seen /\ ScoredFold.scored = fold.split.evaluate
      /\ ScoredFold.eval = fold.eval
  BY DEF ScoredFold
<1>2. SeenIsTraining
  BY DEF FoldIsFitted
<1>. QED  BY <1>1, <1>2, TrainingIsApart DEF SeenIsTraining, Planned

LEMMA ScoredIsControlled ==
  ASSUME Planned, FoldIsFitted, NEW p \in Paired, p.label \in Controlled
  PROVE  Differ(p.mine, p.theirs) = Named(p.label)
<1>. DEFINE mine == fold.params
            fit == FitShrunk(mine.minutes.shrink)
<1>0. PICK l \in run.compares : \E x \in Arm(l) : p = [label |-> l, mine |-> mine, theirs |-> x]
  BY DEF Paired
<1>1. PICK a \in Arm(l) : p = [label |-> l, mine |-> mine, theirs |-> a]
  BY <1>0
<1>2. p.label = l /\ p.mine = mine /\ p.theirs = a /\ l \in Controlled
  BY <1>1
<1>3. /\ mine.minutes = fit /\ mine.rest = fit /\ mine.perPlayer \in Int
      /\ mine = [minutes |-> fit, rest |-> fit, prior |-> mine.prior,
                confidence |-> mine.confidence, rates |-> mine.rates, tau |-> mine.tau,
                perPlayer |-> mine.perPlayer, crowd |-> mine.crowd]
  BY FittedArms DEF FoldIsFitted
<1>. HIDE DEF mine, fit
<1>4. CASE l = "perPlayer"
  <2>1. a = [mine EXCEPT !.perPlayer = 1 - @, !.crowd = Incumbent]
    BY <1>4 DEF Arm, mine
  <2>2. /\ a.perPlayer = 1 - mine.perPlayer /\ a.minutes = fit /\ a.rest = fit
        /\ a.prior = mine.prior /\ a.confidence = mine.confidence /\ a.rates = mine.rates
        /\ a.tau = mine.tau
    BY <1>3, <2>1
  <2>3. a.perPlayer # mine.perPlayer
    BY <1>3, <2>2
  <2>. QED  BY <1>2, <1>3, <1>4, <2>2, <2>3 DEF Differ, Named
<1>5. CASE l = "confidence"
  <2>1. a = [mine EXCEPT !.confidence = fold.found] /\ mine.confidence # fold.found
    BY <1>5 DEF Arm, mine
  <2>2. /\ a.perPlayer = mine.perPlayer /\ a.minutes = fit /\ a.rest = fit
        /\ a.prior = mine.prior /\ a.confidence = fold.found /\ a.rates = mine.rates
        /\ a.tau = mine.tau
    BY <1>3, <2>1
  <2>. QED  BY <1>2, <1>3, <1>5, <2>1, <2>2 DEF Differ, Named
<1>6. CASE l = "prior"
  <2>1. a = [mine EXCEPT !.prior = Incumbent] /\ mine.prior # Incumbent
    BY <1>6 DEF Arm, mine
  <2>2. /\ a.perPlayer = mine.perPlayer /\ a.minutes = fit /\ a.rest = fit
        /\ a.prior = Incumbent /\ a.confidence = mine.confidence /\ a.rates = mine.rates
        /\ a.tau = mine.tau
    BY <1>3, <2>1
  <2>. QED  BY <1>2, <1>3, <1>6, <2>1, <2>2 DEF Differ, Named
<1>7. CASE l = "startShrink"
  <2>1. a = [mine EXCEPT !.minutes = fold.first.minutes] /\ mine.minutes.shrink # Incumbent
    BY <1>7 DEF Arm, mine, WithFirstMinutes
  <2>2. /\ a.perPlayer = mine.perPlayer /\ a.minutes = FitShrunk(Incumbent) /\ a.rest = fit
        /\ a.prior = mine.prior /\ a.confidence = mine.confidence /\ a.rates = mine.rates
        /\ a.tau = mine.tau
    BY <1>3, <2>1, FittedArms
  <2>3. fit.shrink # Incumbent /\ FitShrunk(Incumbent).shrink = Incumbent
    BY <1>3, <2>1, FittedArms DEF fit
  <2>4. /\ "shrink" \in DOMAIN fit
        /\ \A f \in DOMAIN fit \ {"shrink"} : fit[f] = FitShrunk(Incumbent)[f]
    BY ShrinkOnly DEF fit, FitShrunk
  <2>5. {f \in DOMAIN fit : fit[f] # FitShrunk(Incumbent)[f]} = {"shrink"}
    BY <2>3, <2>4
  <2>6. \A part \in {"minutes", "rest"} : {f \in DOMAIN fit : mine[part][f] # a[part][f]} =
            IF part = "minutes" THEN {"shrink"} ELSE {}
    BY <1>3, <2>2, <2>5
  <2>7. UNION {{f \in DOMAIN fit : mine[part][f] # a[part][f]} : part \in {"minutes", "rest"}}
           = {"shrink"}
    BY <2>6
  <2>. QED  BY <1>2, <1>3, <1>7, <2>2, <2>7 DEF Differ, Named
<1>. QED  BY <1>2, <1>4, <1>5, <1>6, <1>7 DEF Controlled

LEMMA ScoredArmsAreFitted ==
  ASSUME Planned, at = "score", FoldIsSplit, FoldIsFitted, NEW a \in ArmsOf(ScoredFold),
         a.minutes.mode # "unflagged-base"
  PROVE  CurvePoints(a.minutes) # {}
<1>. DEFINE mine == fold.params
            Fit(halfLife, imputed, mode, shrink) ==
                FitOf(fold.split, fold.seasons, halfLife, imputed, mode, shrink)
            of(i, m, v) == Fit(fold.halfLife, i, m, v)
<1>1. PICK s \in fold.seasons : \A t \in fold.plan.train : t <= s
  BY DEF FoldIsFitted
<1>2. /\ fold.seasons \subseteq fold.plan.train
      /\ Column(s, "starts") \/ (run.imputed /\ Imputed(s))
      /\ (\E t \in fold.plan.train : Column(t, "starts")) => Column(s, "starts")
  BY <1>1, LastHasEvidence DEF FoldIsFitted, FoldIsSplit
<1>3. \A i, m, v : of(i, m, v).mode = m
  BY DEF FitOf
<1>4. \A i, m, v : m # "unflagged-base" /\ (Column(s, "starts") \/ (i /\ Imputed(s)))
                     => CurvePoints(of(i, m, v)) # {}
  BY <1>2, FitHasCurves
<1>. DEFINE Good(x) == \E i, m, v : x = of(i, m, v) /\ (Column(s, "starts") \/ (i /\ Imputed(s)))
<1>5. Good(mine.minutes) /\ Good(fold.first.minutes)
  <2>1. mine.minutes = of(run.imputed, run.mode, mine.minutes.shrink)
        /\ fold.first.minutes = of(run.imputed, run.mode, Incumbent)
    BY FittedArms DEF FitShrunk
  <2>. HIDE DEF of
  <2>. QED  BY <1>2, <2>1
<1>6. Good(a.minutes)
  <2>1. a = mine \/ \E l \in run.compares : a \in Arm(l)
    <3>1. ArmsOf(ScoredFold) = {mine} \union {p.theirs : p \in Paired}
      BY DEF ArmsOf, ScoredFold
    <3>2. \A p \in Paired : \E l \in run.compares : p.theirs \in Arm(l)
      BY DEF Paired
    <3>. QED  BY <3>1, <3>2
  <2>2. CASE a = mine
    BY <1>5, <2>2
  <2>3. ASSUME NEW l \in run.compares, a \in Arm(l) PROVE Good(a.minutes)
    <3>1. l \in Comparisons
      BY RunsAssumption DEF Planned
    <3>2. mine = [minutes |-> mine.minutes, rest |-> mine.rest, prior |-> mine.prior,
                  confidence |-> mine.confidence, rates |-> mine.rates, tau |-> mine.tau,
                  perPlayer |-> mine.perPlayer, crowd |-> mine.crowd]
      BY DEF FoldIsFitted
    <3>3. CASE l = "imputed"
      <4>1. Column(s, "starts") /\ a = Refitted(~run.imputed, "joint")
        BY <1>2, <2>3, <3>3 DEF Arm
      <4>2. a.minutes = of(~run.imputed, "joint", Incumbent)
        BY <4>1 DEF Refitted, ParamsOf
      <4>. HIDE DEF of
      <4>. QED  BY <4>1, <4>2
    <3>4. CASE l \in {"rates", "incumbent"}
      <4>1. a = fold.first
        BY <2>3, <3>4 DEF Arm
      <4>. QED  BY <1>5, <4>1
    <3>5. CASE l = "availability"
      <4>1. a = Refitted(run.imputed, "unflagged-base")
        BY <2>3, <3>5 DEF Arm
      <4>2. a.minutes.mode = "unflagged-base"
        BY <4>1 DEF Refitted, ParamsOf, FitOf
      <4>. QED  BY <4>2
    <3>6. CASE l \in {"perPlayer", "confidence", "prior"}
      <4>1. \/ a = [mine EXCEPT !.perPlayer = 1 - @, !.crowd = Incumbent]
            \/ a = [mine EXCEPT !.confidence = fold.found]
            \/ a = [mine EXCEPT !.prior = Incumbent]
        BY <2>3, <3>6 DEF Arm
      <4>2. a.minutes = mine.minutes
        <5>. HIDE DEF mine
        <5>. QED  BY <3>2, <4>1
      <4>. QED  BY <1>5, <4>2
    <3>7. CASE l = "startShrink"
      <4>1. a = [mine EXCEPT !.minutes = fold.first.minutes]
        BY <2>3, <3>7 DEF Arm, WithFirstMinutes
      <4>2. a.minutes = fold.first.minutes
        <5>. HIDE DEF mine
        <5>. QED  BY <3>2, <4>1
      <4>. QED  BY <1>5, <4>2
    <3>. QED  BY <3>1, <3>3, <3>4, <3>5, <3>6, <3>7 DEF Comparisons
  <2>. QED  BY <2>1, <2>2, <2>3
<1>. HIDE DEF of
<1>. QED  BY <1>3, <1>4, <1>6

LEMMA ResultsNext ==
  ASSUME RefereeInv, [Next]_vars
  PROVE  ResultsInv'
<1>. USE DEF RefereeInv
<1>0. archive' = archive /\ run' = run
  BY Kept
<1>1. \A fit : CurvePoints(fit)' = CurvePoints(fit)
  BY <1>0, KeptDerived
<1>2. results \in Seq({results[i] : i \in DOMAIN results})
  BY DEF ResultsInv
<1>3. ASSUME Ran' = Ran PROVE NothingOfTheFold' /\ PairingsAreControlled' /\ EveryArmIsFitted'
  <2>1. \A r \in Ran : ~run.imputed =>
             r.seen \intersect r.scored = {} /\ \A b \in r.seen : b[1] <= r.eval
    BY DEF ResultsInv, NothingOfTheFold
  <2>2. \A r \in Ran : \A p \in r.paired :
            p.label \in Controlled => Differ(p.mine, p.theirs) = Named(p.label)
    BY DEF ResultsInv, PairingsAreControlled
  <2>3. \A r \in Ran : \A p \in ArmsOf(r) :
            p.minutes.mode # "unflagged-base" => CurvePoints(p.minutes) # {}
    BY DEF ResultsInv, EveryArmIsFitted
  <2>4. NothingOfTheFold'
    BY <1>0, <1>3, <2>1 DEF NothingOfTheFold
  <2>5. PairingsAreControlled'
    BY <1>3, <2>2 DEF PairingsAreControlled, Controlled, Differ, Named
  <2>6. EveryArmIsFitted'
    BY <1>1, <1>3, <2>3 DEF EveryArmIsFitted, ArmsOf
  <2>. QED  BY <2>4, <2>5, <2>6
<1>4. ASSUME results' = results PROVE ResultsInv'
  <2>1. Ran' = Ran
    BY <1>4 DEF Ran
  <2>. QED  BY <1>2, <1>3, <1>4, <2>1 DEF ResultsInv
<1>5. CASE SkipFold
  <2>1. results' = Append(results, NotRun(Head(plans))) /\ NotRun(Head(plans)).ran = FALSE
    BY <1>5 DEF SkipFold, NotRun
  <2>2. Ran' = Ran /\ results' \in Seq({results'[i] : i \in DOMAIN results'})
    BY <1>2, <2>1, ResultAppended
  <2>. QED  BY <1>3, <2>2 DEF ResultsInv
<1>6. CASE Score
  <2>1. results' = Append(results, ScoredFold) /\ at = "score"
    BY <1>6 DEF Score, ScoredFold
  <2>2. ScoredFold.ran /\ ScoredFold.paired = Paired
    BY DEF ScoredFold
  <2>3. Ran' = Ran \union {ScoredFold} /\ results' \in Seq({results'[i] : i \in DOMAIN results'})
    BY <1>2, <2>1, <2>2, ResultAppended
  <2>4. FoldIsSplit /\ FoldIsFitted /\ Planned
    BY <2>1 DEF FoldInv
  <2>5. NothingOfTheFold'
    <3>1. \A r \in Ran' : ~run.imputed =>
             r.seen \intersect r.scored = {} /\ \A b \in r.seen : b[1] <= r.eval
      BY <2>3, <2>4, ScoredRestsOnThePast DEF ResultsInv, NothingOfTheFold
    <3>. QED  BY <1>0, <3>1 DEF NothingOfTheFold
  <2>6. PairingsAreControlled'
    <3>1. \A r \in Ran' : \A p \in r.paired :
            p.label \in Controlled => Differ(p.mine, p.theirs) = Named(p.label)
      BY <2>2, <2>3, <2>4, ScoredIsControlled DEF ResultsInv, PairingsAreControlled
    <3>. QED  BY <3>1 DEF PairingsAreControlled, Controlled, Differ, Named
  <2>7. EveryArmIsFitted'
    <3>1. \A r \in Ran' : \A p \in ArmsOf(r) :
            p.minutes.mode # "unflagged-base" => CurvePoints(p.minutes) # {}
      BY <2>1, <2>3, <2>4, ScoredArmsAreFitted DEF ResultsInv, EveryArmIsFitted
    <3>. QED  BY <1>1, <3>1 DEF EveryArmIsFitted, ArmsOf
  <2>. QED  BY <2>3, <2>5, <2>6, <2>7 DEF ResultsInv
<1>7. CASE History \/ PlanFolds \/ SplitFold \/ FitFold \/ ChooseAll \/ Write \/ UNCHANGED vars
  <2>1. results' = results
    BY <1>7 DEF History, PlanFolds, SplitFold, FitFold, ChooseAll, ChooseKnob, Write, vars, Abort
  <2>. QED  BY <1>4, <2>1
<1>. QED  BY <1>5, <1>6, <1>7 DEF Next

-----------------------------------------------------------------------------
LEMMA RefereeAlways == Spec => []RefereeInv
<1>1. RefereeInv /\ [Next]_vars => RefereeInv'
  BY PlannedNext, FoldNext, ResultsNext DEF RefereeInv
<1>. QED  BY RefereeInit, <1>1, PTL DEF Spec

(* Over any archives and any options but imputed labels, no number of a    *)
(* fold rests on a row it is scored on or on a later season: what          *)
(* assertNoLeak looks at once, before the fit, covers the fits, selections *)
(* and refits that follow it (rolling-origin.ts:327,                       *)
(* rolling-origin.service.ts:147).                                         *)
THEOREM NothingOfTheFoldEver == Spec => []NothingOfTheFold
<1>1. RefereeInv => NothingOfTheFold
  BY DEF RefereeInv, ResultsInv
<1>. QED  BY RefereeAlways, <1>1, PTL

(* Whatever was selected or given in whatever order, the arms paired for   *)
(* one choice differ in that choice alone (rolling-origin.service.ts:548). *)
THEOREM PairingsAlwaysControlled == Spec => []PairingsAreControlled
<1>1. RefereeInv => PairingsAreControlled
  BY DEF RefereeInv, ResultsInv
<1>. QED  BY RefereeAlways, <1>1, PTL

(* A fold that capabilityOf lets through has rows for the minutes curves   *)
(* of every arm, in any window: the labels start once and stay, so the     *)
(* last training season, which every window keeps, has them               *)
(* (rolling-origin.ts:75, coverage.ts:43).                                *)
THEOREM EveryArmAlwaysFitted == Spec => []EveryArmIsFitted
<1>1. RefereeInv => EveryArmIsFitted
  BY DEF RefereeInv, ResultsInv
<1>. QED  BY RefereeAlways, <1>1, PTL

=============================================================================
