---------------------------- MODULE RollingOrigin ----------------------------
(***************************************************************************)
(* The rolling-origin referee: for each season, fit on the seasons before  *)
(* it, choose what is left to choose on the last of them, score the season *)
(* once, and pair the scored arm with others                               *)
(* (calibration/rolling-origin.ts, rolling-origin.service.ts, fit.ts, the  *)
(* reader in calibration.repository.ts with archive/coverage.ts and        *)
(* archive/start-imputation.ts).                                           *)
(*                                                                         *)
(* Rows are abstracted to blocks: a season's rounds up to DEFCON_FIT, the  *)
(* ones up to DEFCON_VALIDATE_MAX and the rest are blocks 1, 2 and 3.      *)
(* What a fit finds is abstracted to what it was fitted on; a measured     *)
(* best is any of the candidates.                                          *)
(***************************************************************************)
EXTENDS Integers, FiniteSets, FiniteSetsExt, Sequences

CONSTANTS
    Archives,        \* season -> [columns, holes, faults]
    Runs,            \* RunOptions: [window, imputed, cut, mode, selects, given, compares]
    FirstSeasonWith, \* column -> the season it starts in
    Found,           \* season -> the confidence the search of its fold's fit settles on
    Values           \* the candidates of a scalar but its incumbent, and what may be given for it

Incumbent == 0

(* The comparisons that need a second arm; compareCrowd reads two columns  *)
(* of one.                                                                 *)
Comparisons == {"imputed", "rates", "incumbent", "perPlayer", "availability", "confidence",
                "prior", "startShrink"}

ASSUME ValuesAssumption == Values \in SUBSET (Nat \ {0})

(* An archive holds some seasons, which are counted; its first label of a  *)
(* start is in a fixed one (COLUMN_FIRST_SEASON).                          *)
ASSUME ArchivesAssumption ==
    /\ \A a \in Archives : DOMAIN a \subseteq Nat /\ IsFiniteSet(DOMAIN a)
    /\ "starts" \in DOMAIN FirstSeasonWith /\ FirstSeasonWith["starts"] \in Nat

ASSUME RunsAssumption ==
    \A r \in Runs :
        /\ r.imputed \in BOOLEAN
        /\ \A c \in DOMAIN r.given : r.given[c] \in Values \union {Incumbent}
        /\ r.compares \subseteq Comparisons

Rounds    == 1..3
EvalFrom  == 3      \* the block validation starts in
DefconFit == 1
DefconValidate == 2
Knobs == <<"startShrink", "prior", "confidence", "rates", "tau", "perPlayer", "crowd">>

VARIABLES
    archive, run,
    at,      \* where the run is: "read", "plan", "next", "split", "fit", a choice, "score", ...
    plans,   \* the folds still to run
    fold,    \* the fold being run: its plan, split, fits and choices so far
    results, \* what the folds came to
    report   \* label -> the folds paired under it, or Unwritten

vars == <<archive, run, at, plans, fold, results, report>>

Unwritten == [written |-> FALSE]
None == [eval |-> 0]

Held == DOMAIN archive
Blocks(S) == S \X Rounds
Column(s, c) == c \in archive[s].columns

Init ==
    /\ archive \in Archives /\ run \in Runs
    /\ at = "read" /\ plans = <<>> /\ fold = None /\ results = <<>> /\ report = Unwritten

-----------------------------------------------------------------------------
(* Reading the archive.                                                    *)

(* assertShape: every season has all of its rounds, and of a column all of *)
(* its rows from the season it starts in, and none before.                 *)
Shaped ==
    \A s \in Held :
        /\ archive[s].holes = {} /\ "rounds" \notin archive[s].faults
        /\ \A c \in DOMAIN FirstSeasonWith : Column(s, c) <=> s >= FirstSeasonWith[c]

(* calibrateStarts, startProbability: a probability for every row without  *)
(* a label, from all the labelled rows read.                               *)
LabelledSeasons == {s \in Held : Column(s, "starts")}
Calibrated ==
    \/ LabelledSeasons = {}
    \/ /\ \A s \in LabelledSeasons : "startedUnplayed" \notin archive[s].faults
       /\ \A s \in Held \ LabelledSeasons : "unseenBand" \notin archive[s].faults
Imputed(s) == ~Column(s, "starts") /\ LabelledSeasons # {}

Abort == at' = "aborted" /\ UNCHANGED <<archive, run, plans, fold, results, report>>

History ==
    /\ at = "read"
    /\ IF Shaped /\ Calibrated
       THEN at' = "plan" /\ UNCHANGED <<archive, run, plans, fold, results, report>>
       ELSE Abort

-----------------------------------------------------------------------------
(* Planning.                                                               *)

TrainSeasons(s) == {t \in Held : t < s /\ Cardinality({u \in Held : t < u /\ u < s}) < run.window}

(* A slip: the labels of the whole archive counted.                        *)
CapableInTheArchive(train, component) ==
    component # "minutes" \/ LabelledSeasons # {}

(* capabilityOf: can the component be fitted on the training seasons?      *)
Capable(train, component) ==
    CASE component = "minutes" -> \E s \in train : Column(s, "starts") \/ (run.imputed /\ Imputed(s))
      [] component = "defcon"  -> \E s \in train : Column(s, "defcon")
      [] OTHER                 -> train # {}

DefconSource(s) ==
    IF Capable(TrainSeasons(s), "defcon") THEN "prior-seasons"
    ELSE IF Column(s, "defcon") THEN "within-season" ELSE "absent"

PlanOf(s) ==
    [eval |-> s, train |-> TrainSeasons(s), defcon |-> DefconSource(s),
     blockers |-> {c \in {"minutes", "rates", "strength"} : ~Capable(TrainSeasons(s), c)}]

PlanFolds ==
    /\ at = "plan"
    /\ LET later == {s \in Held : \E t \in Held : t < s}
       IN  plans' = [i \in 1..Cardinality(later) |->
                        PlanOf(CHOOSE s \in later : Cardinality({t \in later : t < s}) = i - 1)]
    /\ at' = "next"
    /\ UNCHANGED <<archive, run, fold, results, report>>

-----------------------------------------------------------------------------
(* One fold.                                                               *)

(* splitForFold.                                                           *)
SplitOf(plan) ==
    LET validate == {b \in Blocks(plan.train) : b[1] = Max(plan.train) /\ b[2] >= EvalFrom}
        train    == Blocks(plan.train) \ validate
        within   == plan.defcon = "within-season"
        played(S) == IF plan.defcon = "prior-seasons" THEN {b \in S : Column(b[1], "defcon")} ELSE {}
    IN  [train |-> train, validate |-> validate,
         defconTrain    |-> IF within THEN {<<plan.eval, DefconFit>>} ELSE played(train),
         defconValidate |-> IF within THEN {<<plan.eval, DefconValidate>>} ELSE played(validate),
         evaluate |-> {b \in Blocks({plan.eval}) : within => b[2] >= run.cut}]

(* A slip: only the rows of the main fit are looked at.                    *)
NoLeakInTheMainFit(plan, split) ==
    plan.eval \notin {b[1] : b \in split.train \union split.validate}

(* assertNoLeak.                                                           *)
NoLeak(plan, split) ==
    LET defcon == split.defconTrain \union split.defconValidate
    IN  /\ plan.eval \notin {b[1] : b \in split.train \union split.validate}
        /\ plan.defcon # "within-season" => plan.eval \notin {b[1] : b \in defcon}
        /\ plan.defcon = "within-season" => defcon \intersect split.evaluate = {}

(* What fitParams was given, which is all that tells two fits apart.       *)
FitOf(split, seasons, halfLife, imputed, mode, shrink) ==
    [train |-> {b \in split.train : b[1] \in seasons}, validate |-> split.validate,
     defconTrain |-> split.defconTrain, defconValidate |-> split.defconValidate,
     halfLife |-> halfLife, imputed |-> imputed, mode |-> mode, shrink |-> shrink]

(* The parameters of an arm: the fit its minutes curves are of, the fit    *)
(* the rest is of, and what was chosen beside the fit (Incumbent: what the *)
(* fit found, or nothing).                                                 *)
ParamsOf(fit) ==
    [minutes |-> fit, rest |-> fit, prior |-> Incumbent, confidence |-> Incumbent,
     rates |-> Incumbent, tau |-> Incumbent, perPlayer |-> Incumbent, crowd |-> Incumbent]

(* startEvidence, in the walk of fitMinutesCurves: the rows the curves are *)
(* fitted on have a label the fit reads, and, under unflagged-base, a     *)
(* flag the capture recorded.                                              *)
StartEvidence(fit, s) == Column(s, "starts") \/ (fit.imputed /\ Imputed(s))
CurvePoints(fit) ==
    {b \in fit.train : StartEvidence(fit, b[1]) /\
                       (fit.mode = "unflagged-base" => Column(b[1], "flags"))}

(* measureDirect: the totals are over the training rows, each with the     *)
(* evidence of its start; an imputed one was calibrated on every label.    *)
MeasuredOn(fit) ==
    fit.train \union
        (IF fit.imputed /\ \E b \in fit.train : Imputed(b[1]) THEN Blocks(LabelledSeasons) ELSE {})

(* search: every candidate of every shape parameter is scored on the       *)
(* validation rows, the category's on its own.                             *)
SearchedOn(fit) == fit.validate \union fit.defconValidate

(* fitDispersion.                                                          *)
DispersionOn(fit) == fit.defconTrain

(* The blocks whose outcomes a fit rests on.                               *)
RestsOn(fit) == MeasuredOn(fit) \union SearchedOn(fit) \union DispersionOn(fit)

NotRun(plan) == [eval |-> plan.eval, ran |-> FALSE, seen |-> {}, scored |-> {}, params |-> {}, paired |-> {}]

SkipFold ==
    /\ at = "next" /\ plans # <<>> /\ Head(plans).blockers # {}
    /\ plans' = Tail(plans)
    /\ results' = Append(results, NotRun(Head(plans)))
    /\ UNCHANGED <<archive, run, at, fold, report>>

SplitFold ==
    /\ at = "next" /\ plans # <<>> /\ Head(plans).blockers = {}
    /\ LET plan == Head(plans) split == SplitOf(plan)
       IN  IF NoLeak(plan, split)
           THEN /\ fold' = [eval |-> plan.eval, plan |-> plan, split |-> split, seen |-> {}]
                /\ plans' = Tail(plans) /\ at' = "fit"
                /\ UNCHANGED <<archive, run, results, report>>
           ELSE Abort

(* WINDOW_CANDIDATES: how many of the training seasons, and the half-life  *)
(* of a season's weight in tenths of a season.                             *)
NoDecay == 0
WindowCandidates ==
    LET all == Cardinality(Held)
    IN  {<<1, NoDecay>>} \union ({2, 3, all} \X {NoDecay, 10}) \union {<<all, 5>>}

CandidateSeasons(n) ==
    {t \in fold.plan.train : Cardinality({u \in fold.plan.train : u > t}) < n}

(* What a selection walks and scores: the training seasons, up to the      *)
(* validation rounds.                                                      *)
ScoredToSelect == Blocks(fold.plan.train)

(* selectWindow: each candidate is fitted, in fitParams's own mode and not *)
(* in that of the run, and scored on the validation rows.  It comes to     *)
(* one of them, or to none when no round could be scored.                  *)
TriedWindows ==
    LET trial(w) == FitOf(fold.split, CandidateSeasons(w[1]), w[2], run.imputed, "joint", Incumbent)
    IN  ScoredToSelect \union UNION {RestsOn(trial(w)) : w \in WindowCandidates}

EveryRow == <<Cardinality(Held), NoDecay>>

(* selectWindow, then the fit.                                             *)
FitFold ==
    /\ at = "fit"
    /\ \E w \in {EveryRow} \union (IF "window" \in run.selects THEN WindowCandidates ELSE {}) :
          LET fit == FitOf(fold.split, CandidateSeasons(w[1]), w[2], run.imputed, run.mode, Incumbent)
          IN  fold' = [eval |-> fold.eval, plan |-> fold.plan, split |-> fold.split,
                       seasons |-> CandidateSeasons(w[1]), halfLife |-> w[2],
                       found |-> Found[fold.eval],
                       first |-> ParamsOf(fit), params |-> ParamsOf(fit),
                       seen |-> RestsOn(fit) \union
                                (IF "window" \in run.selects THEN TriedWindows ELSE {})]
    /\ at' = Knobs[1]
    /\ UNCHANGED <<archive, run, plans, results, report>>

(* What a selection may come to: for the crowd only if a capture of its    *)
(* numbers was joined to the validation season; confidence has no          *)
(* incumbent among its candidates, nor is perPlayer selected.              *)
CandidatesOf(c) ==
    CASE c \notin run.selects -> {}
      [] c = "crowd" /\ ~Column(Max(fold.plan.train), "epNext") -> {}
      [] c = "confidence" -> Values
      [] OTHER -> Values \union {Incumbent}

(* The value of a choice: selected, else given, else the incumbent.  A     *)
(* selected tau of none leaves the given one in force.                     *)
Outcomes(c) ==
    LET given == IF c \in DOMAIN run.given THEN run.given[c] ELSE Incumbent
    IN  {IF c = "tau" /\ v = Incumbent THEN given ELSE v :
            v \in IF CandidatesOf(c) = {} THEN {given} ELSE CandidatesOf(c)}

(* The start rate is shrunk by fitting again; the rest is set beside.      *)
With(params, c, v) ==
    IF c # "startShrink" THEN [params EXCEPT ![c] = v]
    ELSE IF v = Incumbent THEN params
    ELSE ParamsOf([params.minutes EXCEPT !.shrink = v])

IndexOf(c) == CHOOSE i \in DOMAIN Knobs : Knobs[i] = c

ChooseKnob(c) ==
    /\ at = c
    /\ \E v \in Outcomes(c) :
          fold' = [fold EXCEPT !.params = With(@, c, v),
                               !.seen = @ \union RestsOn(With(fold.params, c, v).rest) \union
                                        (IF c \in run.selects THEN ScoredToSelect ELSE {})]
    /\ at' = IF IndexOf(c) < Len(Knobs) THEN Knobs[IndexOf(c) + 1] ELSE "score"
    /\ UNCHANGED <<archive, run, plans, results, report>>

-----------------------------------------------------------------------------
(* The arms the scored one is paired with.                                 *)

(* A slip: the other minutes flags are not carried across.                 *)
WithFirstMinutesOnly(p) == [p EXCEPT !.minutes = fold.first.minutes, !.perPlayer = Incumbent]

(* The incumbent's minutes under the fold's other choices (restOfMinutes). *)
WithFirstMinutes(p) == [p EXCEPT !.minutes = fold.first.minutes]

Refitted(imputed, mode) ==
    ParamsOf(FitOf(fold.split, fold.seasons, fold.halfLife, imputed, mode, Incumbent))

(* The other arm of a comparison, if the fold makes it.                    *)
Arm(label) ==
    LET p == fold.params
    IN  CASE label = "imputed" -> IF \E s \in fold.plan.train : Column(s, "starts")
                                  THEN {Refitted(~run.imputed, "joint")} ELSE {}
          [] label = "rates" -> IF "rates" \in run.selects \union DOMAIN run.given THEN {fold.first} ELSE {}
          [] label = "incumbent" -> {fold.first}
          [] label = "perPlayer" -> {[p EXCEPT !.perPlayer = 1 - @, !.crowd = Incumbent]}
          [] label = "availability" -> {Refitted(run.imputed, "unflagged-base")}
          [] label = "confidence" -> IF p.confidence \in {Incumbent, fold.found} THEN {}
                                     ELSE {[p EXCEPT !.confidence = fold.found]}
          [] label = "prior" -> IF p.prior = Incumbent THEN {} ELSE {[p EXCEPT !.prior = Incumbent]}
          [] label = "startShrink" -> IF p.minutes.shrink = Incumbent THEN {} ELSE {WithFirstMinutes(p)}

Paired == UNION {{[label |-> l, mine |-> fold.params, theirs |-> a] : a \in Arm(l)} : l \in run.compares}

Score ==
    /\ at = "score"
    /\ results' = Append(results,
           [eval |-> fold.eval, ran |-> TRUE, seen |-> fold.seen, scored |-> fold.split.evaluate,
            params |-> {fold.params}, paired |-> Paired])
    /\ fold' = None /\ at' = "next"
    /\ UNCHANGED <<archive, run, plans, report>>

(* summarise, write.                                                       *)
Write ==
    /\ at = "next" /\ plans = <<>>
    /\ LET ran == {i \in DOMAIN results : results[i].ran}
           labels == {"model vs form"} \union UNION {{p.label : p \in results[i].paired} : i \in ran}
       IN  report' = [written |-> TRUE,
                      across |-> [l \in labels |-> {results[i].eval : i \in
                          {j \in ran : l = "model vs form" \/ \E p \in results[j].paired : p.label = l}}]]
    /\ at' = "done"
    /\ UNCHANGED <<archive, run, plans, fold, results>>

ChooseAll == \E c \in {Knobs[i] : i \in DOMAIN Knobs} : ChooseKnob(c)

Next == History \/ PlanFolds \/ SkipFold \/ SplitFold \/ FitFold \/ ChooseAll \/ Score \/ Write

Spec == Init /\ [][Next]_vars
-----------------------------------------------------------------------------
Ran == {results[i] : i \in {j \in DOMAIN results : results[j].ran}}

(* No number of a fold rests on what it is scored on, nor on a later       *)
(* season: not its fit, not a choice made beside the fit, not the share of *)
(* the season itself the defensive category is fitted on.  With imputed    *)
(* start labels it does not hold: they are calibrated on all that is read. *)
NothingOfTheFold ==
    \A r \in Ran : ~run.imputed =>
        /\ r.seen \intersect r.scored = {}
        /\ \A b \in r.seen : b[1] <= r.eval

(* What two arms differ in; the blend's weight is no part of the model     *)
(* arm, and the fit of the rest changes with that of the minutes.          *)
Differ(p, q) ==
    {c \in {"prior", "confidence", "rates", "tau", "perPlayer"} : p[c] # q[c]} \union
    UNION {{f \in DOMAIN p.minutes : p[part][f] # q[part][f]} : part \in {"minutes", "rest"}}

Named(label) == CASE label = "startShrink" -> {"shrink"}
                  [] label = "availability" -> {"mode"}
                  [] OTHER -> {label}

(* The comparisons of a choice made beside the fit, or of the refitted     *)
(* start rate, are of arms that differ in what they name and nothing else, *)
(* whatever the other choices of the fold came to.                         *)
Controlled == {"perPlayer", "confidence", "prior", "startShrink"}
PairingsAreControlled ==
    \A r \in Ran : \A p \in r.paired :
        p.label \in Controlled => Differ(p.mine, p.theirs) = Named(p.label)

ArmsOf(r) == r.params \union {p.theirs : p \in r.paired}

(* A fold that is not refused has something to fit every arm's curves on,  *)
(* whatever window it selects, so that none is the fallback fitLogisticK   *)
(* returns on an empty sample; for the fits that keep unflagged rows.      *)
EveryArmIsFitted ==
    \A r \in Ran : \A p \in ArmsOf(r) : p.minutes.mode # "unflagged-base" => CurvePoints(p.minutes) # {}
=============================================================================
