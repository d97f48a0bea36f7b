----------------------------- MODULE History_proofs ----------------------------
(* Proofs about the histories the numbers rest on: how they are filled in  *)
(* (Backfill), how the seasons before are kept (Archive), and how they are *)
(* walked, to measure and to forecast (WalkForward, Forecast).             *)
EXTENDS Archive, Forecast, Backfill, SequenceTheorems, Counting

-----------------------------------------------------------------------------
(* The backfill and the scorer: for any players, fixtures, batch size and  *)
(* bounds.                                                                 *)

LEMMA Constants ==
  /\ Nothing \in Summary
  /\ NoRun \in Run
  /\ Final \in Nat \ {0}
  /\ \A f \in Fixture : GameweekOf[f] \in Gameweek
<1>1. Nothing \in Summary
  BY BackfillAssumption DEF Nothing, Summary
<1>2. NoRun \in Run
  BY DEF NoRun, Run
<1>. QED  BY <1>1, <1>2, BackfillAssumption DEF Gameweek

(* What the steps that end a run leave.                                    *)
LEMMA FinishTyped ==
  ASSUME TypeOK, runs # <<>>, NEW s \in {"success", "partial", "failed"}, FinishRun(s)
  PROVE  /\ runs' \in Seq(RunRow) /\ Len(runs') = Len(runs)
         /\ pc' = "idle" /\ run' = NoRun
         /\ runs'[Len(runs)] = [runs[Len(runs)] EXCEPT !.status = s]
         /\ \A i \in DOMAIN runs : i # Len(runs) => runs'[i] = runs[i]
<1>1. runs \in Seq(RunRow) /\ Len(runs) \in Nat /\ Len(runs) \in DOMAIN runs
      /\ DOMAIN runs = 1..Len(runs)
  BY DEF TypeOK
<1>2. [runs[Len(runs)] EXCEPT !.status = s] \in RunRow
  <2>1. runs[Len(runs)] \in RunRow
    BY <1>1
  <2>. QED  BY <2>1 DEF RunRow
<1>3. runs' = [runs EXCEPT ![Len(runs)] = [runs[Len(runs)] EXCEPT !.status = s]]
  BY DEF FinishRun
<1>. DEFINE row == [runs[Len(runs)] EXCEPT !.status = s]
<1>. HIDE DEF row
<1>4. row \in RunRow /\ runs' = [runs EXCEPT ![Len(runs)] = row]
  BY <1>2, <1>3 DEF row
<1>5. runs' \in Seq(RunRow) /\ Len(runs') = Len(runs)
  BY <1>1, <1>4
<1>6. runs'[Len(runs)] = row /\ \A i \in DOMAIN runs : i # Len(runs) => runs'[i] = runs[i]
  BY <1>1, <1>4
<1>7. pc' = "idle" /\ run' = NoRun
  BY DEF FinishRun
<1>8. row = [runs[Len(runs)] EXCEPT !.status = s]
  BY DEF row
<1>. QED  BY <1>5, <1>6, <1>7, <1>8

LEMMA InitTyped == Init => TypeOK
<1>. SUFFICES ASSUME Init PROVE TypeOK
  OBVIOUS
<1>1. stats \in [Player -> Summary] /\ points \in Summary
  BY Constants DEF Init
<1>. QED  BY <1>1, Constants DEF Init, TypeOK, Location

(* A run under way has a row, which is the last.                           *)
HasRow == pc # "idle" => runs # <<>>

LEMMA NextTyped == TypeOK /\ HasRow /\ [Next]_vars => TypeOK' /\ HasRow'
<1>. SUFFICES ASSUME TypeOK, HasRow, [Next]_vars PROVE TypeOK' /\ HasRow'
  OBVIOUS
<1>. USE DEF HasRow
<1>1. ASSUME NEW f \in Fixture, Settle(f) PROVE TypeOK' /\ HasRow'
  <2>1. points' \in Summary
    BY <1>1, Constants DEF Settle, TypeOK, Summary
  <2>. QED  BY <1>1, <2>1 DEF Settle, TypeOK, synced, backfill, scorer
<1>2. ASSUME NEW g \in Gameweek, DataChecked(g) PROVE TypeOK' /\ HasRow'
  BY <1>2 DEF DataChecked, TypeOK, synced, backfill, scorer
<1>3. CASE RunIncremental
  BY <1>3 DEF RunIncremental, TypeOK, upstream, backfill, scorer
<1>4. CASE StartRun
  <2>1. [status |-> "running", known |-> {}, since |-> Nothing] \in RunRow
    BY Constants DEF RunRow
  <2>2. runs' \in Seq(RunRow) /\ runs' # <<>>
    BY <1>4, <2>1 DEF StartRun, TypeOK
  <2>. QED  BY <1>4, <2>2, Constants DEF StartRun, TypeOK, Location, upstream, synced, scorer
<1>5. CASE ReadPlayers
  <2>1. run' \in Run
    BY <1>5 DEF ReadPlayers, TypeOK, Run
  <2>. QED  BY <1>5, <2>1 DEF ReadPlayers, TypeOK, Location, upstream, synced, scorer
<1>6. CASE ReadFixtures
  <2>1. CASE run.known = {}
    BY <1>6, <2>1, FinishTyped, Constants
    DEF ReadFixtures, TypeOK, Location, upstream, synced, scorer
  <2>2. CASE run.known # {}
    <3>. DEFINE floor == [f \in Fixture |-> IF f \in fixtures THEN points[f] ELSE 0]
                row == [[runs[Len(runs)] EXCEPT !.known = run.known] EXCEPT !.since = floor]
    <3>1. floor \in Summary
      BY Constants DEF TypeOK, Summary
    <3>2. run' \in Run /\ run.known \in SUBSET Player
      BY <1>6, <2>2 DEF ReadFixtures, TypeOK, Run
    <3>3. Len(runs) \in 1..Len(runs) /\ runs[Len(runs)] \in RunRow
      BY <1>6 DEF ReadFixtures, TypeOK
    <3>4. row \in RunRow
      BY <3>1, <3>2, <3>3 DEF RunRow
    <3>5. runs' = [runs EXCEPT ![Len(runs)] = row]
      BY <1>6, <2>2, <3>3 DEF ReadFixtures, TypeOK
    <3>. HIDE DEF row, floor
    <3>6. runs' \in Seq(RunRow) /\ runs' # <<>>
      BY <3>3, <3>4, <3>5 DEF TypeOK
    <3>. QED  BY <1>6, <2>2, <3>2, <3>6 DEF ReadFixtures, TypeOK, Location, upstream, synced, scorer
  <2>. QED  BY <2>1, <2>2
<1>7. CASE TakeBatch
  <2>1. run' \in Run
    <3>1. PICK b \in SUBSET run.left :
             run' = [run EXCEPT !.left = @ \ b, !.asked = b,
                                !.got = [p \in Player |-> Failed]]
      BY <1>7 DEF TakeBatch
    <3>2. run \in Run
      BY DEF TypeOK
    <3>3. b \in SUBSET Player /\ run.left \ b \in SUBSET Player
      BY <3>2 DEF Run
    <3>4. [p \in Player |-> Failed] \in [Player -> Summary \cup {Failed}]
      OBVIOUS
    <3>. QED  BY <3>1, <3>2, <3>3, <3>4 DEF Run
  <2>. QED  BY <1>7, <2>1 DEF TakeBatch, TypeOK, Location, upstream, synced, scorer
<1>8. ASSUME NEW p \in Player, Answer(p) PROVE TypeOK' /\ HasRow'
  <2>1. run' \in Run
    <3>1. PICK s \in {points, Failed} :
             run' = [run EXCEPT !.asked = @ \ {p}, !.got[p] = s, !.missed = @ \/ s = Failed]
      BY <1>8 DEF Answer
    <3>2. s \in Summary \cup {Failed}
      BY DEF TypeOK
    <3>3. run \in Run
      BY DEF TypeOK
    <3>4. [run EXCEPT !.asked = @ \ {p}, !.got[p] = s] \in Run
      BY <3>2, <3>3 DEF Run
    <3>5. \A b \in BOOLEAN : [[run EXCEPT !.asked = @ \ {p}, !.got[p] = s] EXCEPT !.missed = b] \in Run
      BY <3>4 DEF Run
    <3>6. PICK b \in BOOLEAN : b <=> (run.missed \/ s = Failed)
      OBVIOUS
    <3>7. run' = [[run EXCEPT !.asked = @ \ {p}, !.got[p] = s] EXCEPT !.missed = b]
      BY <3>1, <3>3, <3>6 DEF Run
    <3>. QED  BY <3>5, <3>7
  <2>. QED  BY <1>8, <2>1 DEF Answer, TypeOK, upstream, synced, scorer
<1>9. CASE WriteStats
  <2>1. \A p \in Got : run.got[p] \in Summary
    BY DEF Got, TypeOK, Run
  <2>2. stats' \in [Player -> Summary]
    <3>1. \A p \in Player, f \in Fixture : stats[p][f] \in 0..Final
      BY DEF TypeOK, Summary
    <3>2. \A p \in Got, f \in Fixture : run.got[p][f] \in 0..Final
      BY <2>1 DEF Summary
    <3>. QED  BY <1>9, <3>1, <3>2 DEF WriteStats, Summary
  <2>. QED  BY <1>9, <2>2 DEF WriteStats, TypeOK, Location, upstream, synced, scorer
<1>10. CASE WriteSeasons
  <2>1. Got \subseteq Player
    BY DEF Got, TypeOK, Run
  <2>. QED  BY <1>10, <2>1 DEF WriteSeasons, TypeOK, Location, upstream, synced, scorer
<1>11. CASE Finish
  BY <1>11, FinishTyped, Constants DEF Finish, TypeOK, Location, upstream, synced, scorer
<1>12. CASE Fail
  BY <1>12, FinishTyped, Constants DEF Fail, TypeOK, Location, upstream, synced, scorer
<1>13. CASE Abandon
  BY <1>13, Constants DEF Abandon, TypeOK, Location, upstream, synced, scorer
<1>14. CASE ReadGameweeks
  BY <1>14 DEF ReadGameweeks, Readable, TypeOK, upstream, synced, backfill
<1>15. ASSUME NEW g \in Served, ScoreOne(g) PROVE TypeOK' /\ HasRow'
  BY <1>15 DEF ScoreOne, TypeOK, upstream, synced, backfill
<1>16. CASE UNCHANGED vars
  BY <1>16 DEF vars, TypeOK, upstream, synced, backfill, scorer
<1>. QED  BY <1>1, <1>2, <1>3, <1>4, <1>5, <1>6, <1>7, <1>8, <1>9, <1>10, <1>11, <1>12,
             <1>13, <1>14, <1>15, <1>16 DEF Next

(* Every table, identifier, answer and local of the backfill and of the    *)
(* scorer stays in its range (sync.service.ts:226): a failed request never *)
(* becomes a row.                                                          *)
THEOREM BackfillTyped == Spec => [](TypeOK /\ HasRow)
<1>1. Init => TypeOK /\ HasRow
  BY InitTyped DEF Init, HasRow
<1>. QED  BY <1>1, NextTyped, PTL DEF Spec
-----------------------------------------------------------------------------
(* What the backfill has done by the time it says `success`.               *)

Row == runs[Len(runs)]

(* The rows of player p are as far as upstream was when the run began.     *)
Done(p) == p \in past /\ \A f \in Fixture : stats[p][f] >= Row.since[f]

(* Nothing stored or recorded is ahead of upstream.                        *)
NotAhead ==
  /\ \A p \in Player, f \in Fixture : stats[p][f] <= points[f]
  /\ \A i \in DOMAIN runs : \A f \in Fixture : runs[i].since[f] <= points[f]

(* An answer lies between what is stored and what upstream has now, and is *)
(* not from before the run.                                                *)
AnswersFit ==
  pc = "fetch" => \A p \in Player : run.got[p] # Failed =>
    \A f \in Fixture :
      /\ run.got[p][f] <= points[f]
      /\ stats[p][f] <= run.got[p][f]
      /\ Row.since[f] <= run.got[p][f]

(* Where each player of the run stands, unless a request has failed.       *)
Progress ==
  /\ pc # "idle" => Row.status = "running"
  /\ pc \in {"batch", "fetch", "seasons", "record"} =>
        /\ Row.known = run.known
        /\ \A f \in Fixture \ run.ids : Row.since[f] = 0
  /\ pc = "fixtures" => run.left = run.known
  /\ pc = "record" => run.left = {}
  /\ ~run.missed =>
        /\ pc \in {"batch", "record"} => \A p \in run.known \ run.left : Done(p)
        /\ pc = "fetch" => \A p \in run.known \ run.left :
              p \in run.asked \/ run.got[p] # Failed \/ Done(p)
        /\ pc = "seasons" => \A p \in run.known \ run.left :
              Done(p) \/ (p \in Got /\ \A f \in Fixture : stats[p][f] >= Row.since[f])

CompleteInv == SuccessIsComplete /\ NotAhead /\ AnswersFit /\ Progress

LEMMA Ranges ==
  ASSUME TypeOK
  PROVE  /\ Len(runs) \in Nat /\ DOMAIN runs = 1..Len(runs)
         /\ \A i \in DOMAIN runs : runs[i] \in RunRow
         /\ \A i \in DOMAIN runs : \A f \in Fixture : runs[i].since[f] \in Nat
         /\ \A p \in Player, f \in Fixture : stats[p][f] \in Nat
         /\ \A f \in Fixture : points[f] \in Nat
         /\ \A p \in Player : run.got[p] # Failed =>
               \A f \in Fixture : run.got[p][f] \in Nat
         /\ Got \subseteq Player /\ run.known \subseteq Player
         /\ \A p \in Got : run.got[p] # Failed
<1>1. /\ Len(runs) \in Nat /\ DOMAIN runs = 1..Len(runs)
      /\ \A i \in DOMAIN runs : runs[i] \in RunRow
  BY DEF TypeOK
<1>2. \A i \in DOMAIN runs : runs[i].since \in Summary
  BY <1>1 DEF RunRow
<1>3. \A s \in Summary : \A f \in Fixture : s[f] \in Nat
  BY Constants DEF Summary
<1>4. \A p \in Player : stats[p] \in Summary /\ run.got[p] \in Summary \cup {Failed}
  BY DEF TypeOK, Run
<1>. QED  BY <1>1, <1>2, <1>3, <1>4 DEF TypeOK, Run, Got

LEMMA InitComplete == Init => CompleteInv
<1>. SUFFICES ASSUME Init PROVE CompleteInv
  OBVIOUS
<1>1. DOMAIN runs = {} /\ pc = "idle" /\ points = Nothing /\ run = NoRun
      /\ stats = [p \in Player |-> Nothing]
  BY DEF Init
<1>. QED  BY <1>1 DEF CompleteInv, SuccessIsComplete, NotAhead, AnswersFit, Progress,
                     NoRun, Nothing

(* A step that leaves the tables, the runs and the backfill alone          *)
LEMMA QuietStep ==
  ASSUME TypeOK, TypeOK', CompleteInv, UNCHANGED backfill,
         \A f \in Fixture : points[f] <= points'[f]
  PROVE  CompleteInv'
<1>0. \A f \in Fixture : points'[f] \in Nat
  BY Constants DEF TypeOK, Summary
<1>1. SuccessIsComplete' /\ Progress'
  BY DEF backfill, CompleteInv, SuccessIsComplete, Progress, Done, Row, Got
<1>2. NotAhead'
  <2>1. \A i \in DOMAIN runs' : i \in DOMAIN runs /\ runs'[i] = runs[i]
    BY DEF backfill
  <2>. QED  BY <1>0, <2>1, Ranges DEF backfill, CompleteInv, NotAhead
<1>3. AnswersFit'
  <2>. SUFFICES ASSUME pc = "fetch", NEW p \in Player, run.got[p] # Failed, NEW f \in Fixture
                PROVE  run.got[p][f] <= points'[f] /\ stats[p][f] <= run.got[p][f]
                       /\ Row.since[f] <= run.got[p][f]
    BY DEF backfill, AnswersFit, Row
  <2>1. run.got[p][f] <= points[f] /\ stats[p][f] <= run.got[p][f]
        /\ Row.since[f] <= run.got[p][f]
    BY DEF CompleteInv, AnswersFit
  <2>. QED  BY <1>0, <2>1, Ranges
<1>. QED  BY <1>1, <1>2, <1>3 DEF CompleteInv

(* A run ends: as `success` only if all its players are done.              *)
LEMMA EndStep ==
  ASSUME TypeOK, HasRow, CompleteInv, pc # "idle",
         NEW s \in {"success", "partial", "failed"}, FinishRun(s),
         UNCHANGED <<points, stats, past>>,
         s = "success" => pc = "record" /\ ~run.missed
  PROVE  CompleteInv'
<1>1. runs # <<>>
  BY DEF HasRow
<1>2. /\ pc' = "idle" /\ run' = NoRun /\ Len(runs') = Len(runs) /\ runs' \in Seq(RunRow)
      /\ runs'[Len(runs)] = [runs[Len(runs)] EXCEPT !.status = s]
      /\ \A i \in DOMAIN runs : i # Len(runs) => runs'[i] = runs[i]
  BY <1>1, FinishTyped
<1>3. DOMAIN runs' = DOMAIN runs /\ Len(runs) \in DOMAIN runs
  BY <1>1, <1>2, Ranges DEF TypeOK
<1>4. \A i \in DOMAIN runs : /\ runs'[i].since = runs[i].since
                             /\ runs'[i].known = runs[i].known
                             /\ i # Len(runs) => runs'[i].status = runs[i].status
  BY <1>2, <1>3, Ranges DEF RunRow
<1>5. runs'[Len(runs)].status = s
  BY <1>2, <1>3, Ranges DEF RunRow
<1>6. s = "success" => /\ Row.known \subseteq past
                       /\ \A p \in Row.known, f \in Fixture : stats[p][f] >= Row.since[f]
  BY DEF CompleteInv, Progress, Done
<1>7. SuccessIsComplete'
  BY <1>3, <1>4, <1>5, <1>6 DEF CompleteInv, SuccessIsComplete, Row
<1>8. NotAhead'
  BY <1>3, <1>4 DEF CompleteInv, NotAhead
<1>9. AnswersFit' /\ Progress'
  BY <1>2 DEF AnswersFit, Progress, NoRun
<1>. QED  BY <1>7, <1>8, <1>9 DEF CompleteInv

(* The transaction of a batch moves rows forward only.                     *)
LEMMA WriteStep ==
  ASSUME TypeOK, HasRow, CompleteInv, WriteStats
  PROVE  CompleteInv'
<1>. USE DEF CompleteInv
<1>1. /\ pc = "fetch" /\ run.asked = {} /\ pc' = "seasons" /\ run' = run
      /\ runs' = runs /\ past' = past /\ points' = points
      /\ \A p \in Player, f \in Fixture : stats'[p][f] =
            IF p \in Got /\ f \in run.ids /\ run.got[p][f] # 0
            THEN run.got[p][f] ELSE stats[p][f]
  BY DEF WriteStats, upstream
<1>2. Len(runs) \in DOMAIN runs
  BY <1>1, Ranges DEF HasRow, TypeOK
<1>3. \A p \in Got, f \in Fixture : /\ run.got[p][f] <= points[f]
                                   /\ stats[p][f] <= run.got[p][f]
                                   /\ Row.since[f] <= run.got[p][f]
  BY <1>1, Ranges DEF AnswersFit
<1>4. \A p \in Player, f \in Fixture : stats'[p][f] >= stats[p][f] /\ stats'[p][f] <= points[f]
                                      /\ stats'[p][f] \in Nat
  BY <1>1, <1>3, Ranges DEF NotAhead
<1>5. \A p \in Got, f \in Fixture : stats'[p][f] >= Row.since[f]
  <2>. SUFFICES ASSUME NEW p \in Got, NEW f \in Fixture PROVE stats'[p][f] >= Row.since[f]
    OBVIOUS
  <2>1. f \notin run.ids => Row.since[f] = 0
    BY <1>1 DEF Progress
  <2>2. p \in Player /\ Row.since[f] \in Nat /\ run.got[p][f] \in Nat
    BY <1>2, Ranges DEF Row
  <2>. QED  BY <1>1, <1>3, <1>4, <2>1, <2>2
<1>6. SuccessIsComplete'
  <2>. SUFFICES ASSUME NEW i \in DOMAIN runs, runs[i].status = "success"
                PROVE  /\ runs[i].known \subseteq past
                       /\ \A p \in runs[i].known, f \in Fixture : stats'[p][f] >= runs[i].since[f]
    BY <1>1 DEF SuccessIsComplete
  <2>1. runs[i].known \subseteq past /\ runs[i].known \subseteq Player
        /\ \A p \in runs[i].known, f \in Fixture : stats[p][f] >= runs[i].since[f]
    BY Ranges DEF SuccessIsComplete, RunRow
  <2>. QED  BY <1>4, <2>1, Ranges
<1>7. NotAhead' /\ AnswersFit'
  BY <1>1, <1>4 DEF NotAhead, AnswersFit
<1>8. Progress'
  <2>1. ASSUME ~run.missed, NEW p \in run.known \ run.left
        PROVE  Done(p)' \/ (p \in Got' /\ \A f \in Fixture : stats'[p][f] >= Row'.since[f])
    <3>1. Row' = Row /\ Got' = Got /\ p \in Player
      BY <1>1, Ranges DEF Row, Got
    <3>2. CASE p \in Got
      BY <1>5, <3>1, <3>2
    <3>3. CASE p \notin Got
      <4>1. Done(p)
        BY <1>1, <2>1, <3>3 DEF Progress, Got
      <4>2. \A f \in Fixture : stats'[p][f] = stats[p][f]
        BY <1>1, <3>1, <3>3
      <4>. QED  BY <1>1, <3>1, <4>1, <4>2 DEF Done
    <3>. QED  BY <3>2, <3>3
  <2>2. Row' = Row
    BY <1>1 DEF Row
  <2>. QED  BY <1>1, <2>1, <2>2 DEF Progress
<1>. QED  BY <1>6, <1>7, <1>8

(* A step of a run that writes neither statistics nor rows of sync_runs    *)
LEMMA LocalStep ==
  ASSUME TypeOK, HasRow, CompleteInv, pc # "idle",
         UNCHANGED <<points, stats, runs>>, past \subseteq past',
         AnswersFit', Progress'
  PROVE  CompleteInv'
<1>1. SuccessIsComplete' /\ NotAhead'
  BY DEF CompleteInv, SuccessIsComplete, NotAhead
<1>. QED  BY <1>1 DEF CompleteInv

LEMMA BatchStep == TypeOK /\ HasRow /\ CompleteInv /\ TakeBatch => CompleteInv'
<1>. SUFFICES ASSUME TypeOK, HasRow, CompleteInv, TakeBatch PROVE CompleteInv'
  OBVIOUS
<1>1. PICK b \in SUBSET run.left :
         run' = [run EXCEPT !.left = @ \ b, !.asked = b, !.got = [p \in Player |-> Failed]]
  BY DEF TakeBatch
<1>2. run'.left = run.left \ b /\ run'.asked = b /\ run'.got = [p \in Player |-> Failed]
      /\ run'.known = run.known /\ run'.ids = run.ids /\ run'.missed = run.missed
  BY <1>1 DEF TypeOK, Run
<1>3. /\ pc = "batch" /\ pc' = "fetch"
      /\ UNCHANGED <<points, stats, past, runs>>
  BY DEF TakeBatch, upstream
<1>4. Row' = Row /\ \A p : Done(p)' <=> Done(p)
  BY <1>3 DEF Row, Done
<1>5. AnswersFit'
  BY <1>2 DEF AnswersFit
<1>6. Progress'
  BY <1>2, <1>3, <1>4 DEF CompleteInv, Progress
<1>. QED  BY <1>3, <1>5, <1>6, LocalStep

LEMMA AnswerStep ==
  ASSUME TypeOK, HasRow, CompleteInv, NEW q \in Player, Answer(q)
  PROVE  CompleteInv'
<1>1. PICK s \in {points, Failed} :
         run' = [run EXCEPT !.asked = @ \ {q}, !.got[q] = s, !.missed = @ \/ s = Failed]
  BY DEF Answer
<1>2. /\ run'.left = run.left /\ run'.asked = run.asked \ {q}
      /\ run'.got = [run.got EXCEPT ![q] = s]
      /\ run'.known = run.known /\ run'.ids = run.ids
  BY <1>1 DEF TypeOK, Run
<1>3. run'.missed <=> (run.missed \/ s = Failed)
  BY <1>1 DEF TypeOK, Run
<1>4. /\ pc = "fetch" /\ pc' = "fetch"
      /\ UNCHANGED <<points, stats, past, runs>>
  BY DEF Answer, upstream
<1>5. Row' = Row /\ \A p : Done(p)' <=> Done(p)
  BY <1>4 DEF Row, Done
<1>6. \A p \in Player : run'.got[p] = IF p = q THEN s ELSE run.got[p]
  BY <1>2 DEF TypeOK, Run
<1>7. AnswersFit'
  <2>. SUFFICES ASSUME NEW p \in Player, run'.got[p] # Failed, NEW f \in Fixture
                PROVE  /\ run'.got[p][f] <= points[f]
                       /\ stats[p][f] <= run'.got[p][f]
                       /\ Row.since[f] <= run'.got[p][f]
    BY <1>4, <1>5 DEF AnswersFit
  <2>1. CASE p = q
    <3>1. run'.got[p] = points
      BY <1>6, <2>1
    <3>2. Len(runs) \in DOMAIN runs
      BY <1>4, Ranges DEF HasRow, TypeOK
    <3>. QED  BY <3>1, <3>2, Ranges DEF CompleteInv, NotAhead, Row
  <2>2. CASE p # q
    BY <1>4, <1>6, <2>2 DEF CompleteInv, AnswersFit
  <2>. QED  BY <2>1, <2>2
<1>8. Progress'
  <2>1. ASSUME ~run'.missed, NEW p \in run.known \ run.left
        PROVE  p \in run'.asked \/ run'.got[p] # Failed \/ Done(p)
    <3>1. ~run.missed /\ s # Failed
      BY <1>3, <2>1
    <3>2. p \in Player
      BY Ranges
    <3>3. p \in run.asked \/ run.got[p] # Failed \/ Done(p)
      BY <1>4, <2>1, <3>1 DEF CompleteInv, Progress
    <3>. QED  BY <1>2, <1>6, <3>1, <3>2, <3>3
  <2>. QED  BY <1>2, <1>4, <1>5, <2>1 DEF CompleteInv, Progress
<1>. QED  BY <1>4, <1>7, <1>8, LocalStep

LEMMA SeasonsStep == TypeOK /\ HasRow /\ CompleteInv /\ WriteSeasons => CompleteInv'
<1>. SUFFICES ASSUME TypeOK, HasRow, CompleteInv, WriteSeasons PROVE CompleteInv'
  OBVIOUS
<1>1. /\ pc = "seasons" /\ pc' \in {"record", "batch"} /\ (pc' = "record" => run.left = {})
      /\ UNCHANGED <<points, stats, runs, run>> /\ past' = past \cup Got
  BY DEF WriteSeasons, upstream
<1>2. Row' = Row
  BY <1>1 DEF Row
<1>3. AnswersFit'
  BY <1>1 DEF AnswersFit
<1>4. ASSUME ~run.missed, NEW p \in run.known \ run.left PROVE Done(p)'
  BY <1>1, <1>2, <1>4 DEF CompleteInv, Progress, Done
<1>5. Progress'
  BY <1>1, <1>2, <1>4 DEF CompleteInv, Progress
<1>. QED  BY <1>1, <1>3, <1>5, LocalStep

LEMMA MapsStep == TypeOK /\ HasRow /\ CompleteInv /\ ReadFixtures => CompleteInv'
<1>. SUFFICES ASSUME TypeOK, HasRow, CompleteInv, ReadFixtures PROVE CompleteInv'
  OBVIOUS
<1>1. pc = "fixtures" /\ UNCHANGED <<points, stats, past>>
  BY DEF ReadFixtures, upstream
<1>2. CASE run.known = {}
  BY <1>1, <1>2, EndStep DEF ReadFixtures
<1>3. CASE run.known # {}
  <2>. DEFINE floor == [f \in Fixture |-> IF f \in fixtures THEN points[f] ELSE 0]
              row == [[Row EXCEPT !.known = run.known] EXCEPT !.since = floor]
  <2>1. Len(runs) \in DOMAIN runs /\ runs \in Seq(RunRow) /\ Row \in RunRow
    BY <1>1, Ranges DEF HasRow, TypeOK, Row
  <2>2. runs' = [runs EXCEPT ![Len(runs)] = row]
    BY <1>3, <2>1 DEF ReadFixtures, Row
  <2>3. row.known = run.known /\ row.since = floor /\ row.status = Row.status
    BY <2>1 DEF RunRow
  <2>. HIDE DEF row
  <2>4. /\ DOMAIN runs' = DOMAIN runs /\ Len(runs') = Len(runs) /\ Row' = row
        /\ \A i \in DOMAIN runs : runs'[i] = IF i = Len(runs) THEN row ELSE runs[i]
    BY <2>1, <2>2, Ranges DEF Row
  <2>5. pc' = "batch" /\ run' = [run EXCEPT !.ids = fixtures]
    BY <1>3 DEF ReadFixtures
  <2>6. /\ run'.left = run.left /\ run'.known = run.known /\ run'.ids = fixtures
        /\ run'.missed = run.missed
    BY <2>5 DEF TypeOK, Run
  <2>7. Row.status = "running" /\ run.left = run.known
    BY <1>1 DEF CompleteInv, Progress
  <2>8. SuccessIsComplete'
    BY <1>1, <2>3, <2>4, <2>7 DEF CompleteInv, SuccessIsComplete
  <2>9. NotAhead'
    BY <1>1, <2>3, <2>4, Ranges DEF CompleteInv, NotAhead
  <2>10. AnswersFit' /\ Progress'
    BY <1>1, <2>3, <2>4, <2>5, <2>6, <2>7 DEF AnswersFit, Progress
  <2>. QED  BY <2>8, <2>9, <2>10 DEF CompleteInv
<1>. QED  BY <1>2, <1>3

LEMMA StartStep == TypeOK /\ CompleteInv /\ StartRun => CompleteInv'
<1>. SUFFICES ASSUME TypeOK, CompleteInv, StartRun PROVE CompleteInv'
  OBVIOUS
<1>. DEFINE row == [status |-> "running", known |-> {}, since |-> Nothing]
<1>1. /\ UNCHANGED <<points, stats, past>> /\ pc' = "players" /\ run' = NoRun
      /\ runs' = Append(runs, row)
  BY DEF StartRun, upstream
<1>2. row.status = "running" /\ \A f \in Fixture : row.since[f] = 0
  BY DEF Nothing
<1>. HIDE DEF row
<1>3. /\ Len(runs') = Len(runs) + 1 /\ DOMAIN runs' = DOMAIN runs \cup {Len(runs) + 1}
      /\ runs'[Len(runs) + 1] = row /\ \A i \in DOMAIN runs : runs'[i] = runs[i]
  BY <1>1, Ranges DEF TypeOK
<1>4. SuccessIsComplete' /\ NotAhead'
  BY <1>1, <1>2, <1>3, Ranges DEF CompleteInv, SuccessIsComplete, NotAhead
<1>5. AnswersFit' /\ Progress'
  BY <1>1, <1>2, <1>3 DEF AnswersFit, Progress, Row, NoRun
<1>. QED  BY <1>4, <1>5 DEF CompleteInv

LEMMA NextComplete ==
  TypeOK /\ TypeOK' /\ HasRow /\ CompleteInv /\ [Next]_vars => CompleteInv'
<1>. SUFFICES ASSUME TypeOK, TypeOK', HasRow, CompleteInv, [Next]_vars PROVE CompleteInv'
  OBVIOUS
<1>1. ASSUME NEW f \in Fixture, Settle(f) PROVE CompleteInv'
  <2>1. \A e \in Fixture : points[e] <= points'[e]
    BY <1>1, Ranges DEF Settle, TypeOK, Summary
  <2>. QED  BY <1>1, <2>1, QuietStep DEF Settle
<1>2. ASSUME UNCHANGED <<points, backfill>> PROVE CompleteInv'
  <2>1. \A e \in Fixture : points[e] <= points'[e]
    BY <1>2, Ranges
  <2>. QED  BY <1>2, <2>1, QuietStep
<1>3. CASE StartRun
  BY <1>3, StartStep
<1>4. CASE ReadPlayers
  <2>1. /\ pc = "players" /\ pc' = "fixtures" /\ UNCHANGED <<points, stats, past, runs>>
        /\ run'.left = players /\ run'.known = players
    BY <1>4 DEF ReadPlayers, upstream, TypeOK, Run
  <2>2. AnswersFit' /\ Progress'
    BY <2>1 DEF CompleteInv, AnswersFit, Progress, Row
  <2>. QED  BY <2>1, <2>2, LocalStep
<1>5. CASE ReadFixtures
  BY <1>5, MapsStep
<1>6. CASE TakeBatch
  BY <1>6, BatchStep
<1>7. ASSUME NEW p \in Player, Answer(p) PROVE CompleteInv'
  BY <1>7, AnswerStep
<1>8. CASE WriteStats
  BY <1>8, WriteStep
<1>9. CASE WriteSeasons
  BY <1>9, SeasonsStep
<1>10. CASE Finish
  <2>1. pc = "record" /\ UNCHANGED <<points, stats, past>>
        /\ FinishRun(IF run.missed THEN "partial" ELSE "success")
    BY <1>10 DEF Finish, upstream
  <2>2. CASE run.missed
    BY <2>1, <2>2, EndStep
  <2>3. CASE ~run.missed
    BY <2>1, <2>3, EndStep
  <2>. QED  BY <2>2, <2>3
<1>11. CASE Fail
  BY <1>11, EndStep DEF Fail, upstream
<1>12. CASE Abandon
  <2>1. pc # "idle" /\ pc' = "idle" /\ UNCHANGED <<points, stats, past, runs>>
    BY <1>12 DEF Abandon, upstream
  <2>2. run' = NoRun
    BY <1>12 DEF Abandon
  <2>3. AnswersFit' /\ Progress'
    BY <2>1, <2>2 DEF AnswersFit, Progress, NoRun
  <2>. QED  BY <2>1, <2>3, LocalStep
<1>13. CASE (\E g \in Gameweek : DataChecked(g)) \/ RunIncremental \/ ReadGameweeks
            \/ (\E g \in Served : ScoreOne(g)) \/ UNCHANGED vars
  BY <1>2, <1>13 DEF DataChecked, RunIncremental, ReadGameweeks, ScoreOne, vars,
                     upstream, backfill
<1>. QED  BY <1>1, <1>3, <1>4, <1>5, <1>6, <1>7, <1>8, <1>9, <1>10, <1>11, <1>12, <1>13 DEF Next

(* A backfill recorded as `success` (sync.service.ts:300) has left every   *)
(* row of the players and fixtures it knew at least as far as upstream was *)
(* when it began, and later runs, however they end, take none of it back:  *)
(* for any players, fixtures, batch size and number of corrections.        *)
THEOREM SuccessIsCompleteAlways == Spec => []SuccessIsComplete
<1>1. Init => CompleteInv
  BY InitComplete
<1>2. TypeOK /\ TypeOK' /\ HasRow /\ CompleteInv /\ [Next]_vars => CompleteInv'
  BY NextComplete
<1>3. CompleteInv => SuccessIsComplete
  BY DEF CompleteInv
<1>. QED  BY <1>1, <1>2, <1>3, BackfillTyped, PTL DEF Spec

-----------------------------------------------------------------------------
(* What the scorer may trust.                                              *)

FlagsInv == checked \subseteq settled /\ seen \subseteq settled

LEMMA NextFlags == FlagsInv /\ [Next]_vars => FlagsInv'
<1>. SUFFICES ASSUME FlagsInv, [Next]_vars PROVE FlagsInv'
  OBVIOUS
<1>. USE DEF FlagsInv
<1>1. CASE UNCHANGED <<settled, checked, seen>>
  BY <1>1
<1>2. CASE \E g \in Gameweek : DataChecked(g)
  BY <1>2 DEF DataChecked, synced, scorer
<1>3. CASE RunIncremental
  BY <1>3 DEF RunIncremental, upstream, scorer
<1>4. CASE ReadGameweeks
  BY <1>4 DEF ReadGameweeks, Readable, upstream, synced
<1>. QED  BY <1>1, <1>2, <1>3, <1>4
          DEF Next, vars, Settle, StartRun, ReadPlayers, ReadFixtures, TakeBatch, Answer,
              WriteStats, WriteSeasons, Finish, Fail, Abandon, ScoreOne, upstream, synced, scorer

ScoredNow(g) ==
  /\ g \in settled
  /\ (\E i \in DOMAIN runs :
         /\ runs[i].status = "success"
         /\ runs[i].known = Player
         /\ \A f \in Of(g) : runs[i].since[f] = Final)
        => FinalRows(g)

LEMMA ScoreStep ==
  ASSUME TypeOK, SuccessIsComplete, FlagsInv, [Next]_vars, NEW g \in scored' \ scored
  PROVE  ScoredNow(g)
<1>1. g \in seen
  BY DEF Next, vars, Settle, DataChecked, RunIncremental, StartRun, ReadPlayers, ReadFixtures,
         TakeBatch, Answer, WriteStats, WriteSeasons, Finish, Fail, Abandon, ReadGameweeks,
         ScoreOne, upstream, synced, backfill, scorer
<1>2. ASSUME NEW i \in DOMAIN runs, runs[i].status = "success", runs[i].known = Player,
             \A f \in Of(g) : runs[i].since[f] = Final
      PROVE  FinalRows(g)
  <2>. SUFFICES ASSUME NEW p \in Player, NEW f \in Of(g) PROVE stats[p][f] = Final
    BY DEF FinalRows
  <2>1. f \in Fixture /\ stats[p][f] >= Final
    BY <1>2 DEF SuccessIsComplete, Of
  <2>2. stats[p][f] \in 0..Final
    BY <2>1 DEF TypeOK, Summary
  <2>. QED  BY <2>1, <2>2, Constants
<1>. QED  BY <1>1, <1>2 DEF FlagsInv, ScoredNow

(* A gameweek is scored (served-scoring.service.ts:100) only when upstream *)
(* will edit it no more, and on the final rows as soon as one backfill     *)
(* that began after that has succeeded, whatever syncs and backfills run   *)
(* beside the scorer.                                                      *)
THEOREM ScoredWhenSettledAlways == Spec => ScoredWhenSettled
<1>1. Init => FlagsInv
  BY DEF Init, FlagsInv
<1>2. TypeOK /\ SuccessIsComplete /\ FlagsInv /\ [Next]_vars =>
        [\A g \in scored' \ scored :
          /\ g \in settled
          /\ (\E i \in DOMAIN runs :
                 /\ runs[i].status = "success"
                 /\ runs[i].known = Player
                 /\ \A f \in Of(g) : runs[i].since[f] = Final)
                => FinalRows(g)]_vars
  BY ScoreStep DEF ScoredNow
<1>. QED  BY <1>1, <1>2, NextFlags, BackfillTyped, SuccessIsCompleteAlways, PTL
          DEF Spec, ScoredWhenSettled

-----------------------------------------------------------------------------
(* The archive's captures.                                                 *)

(* A finite set of times, not empty, has a latest one.                     *)
LEMMA LatestTime ==
  ASSUME NEW T \in SUBSET Nat, IsFiniteSet(T), T # {}
  PROVE  Max(T) \in T /\ \A t \in T : t <= Max(T)
<1>1. \E s \in T : \A t \in T : s >= t
  BY LargestNat
<1>. QED  BY <1>1 DEF Max

(* An ingest of captures whose last is a record gives each round it covers *)
(* a capture before the round's true deadline.                             *)
LEMMA CapturesOfARecord ==
  ASSUME NEW S \in SUBSET DOMAIN Captures, S # {}, IsRecord(Max(S))
  PROVE  /\ DOMAIN CapturesOf(S) \subseteq Rounds
         /\ \A r \in DOMAIN CapturesOf(S) :
               CapturesOf(S)[r].at \in S /\ CapturesOf(S)[r].at < TrueDeadline[r]
<1>. DEFINE D == Captures[Max(S)].deadlines
            covered == {r \in Rounds : LastCaptureBefore(S, D[r]) # {}}
<1>1. IsFiniteSet(DOMAIN Captures) /\ DOMAIN Captures \in SUBSET Nat /\ DOMAIN Captures # {}
      /\ S \in SUBSET Nat /\ IsFiniteSet(S)
  BY ArchiveAssumption, FS_Subset
<1>2. Max(S) \in DOMAIN Captures /\ Max(DOMAIN Captures) \in DOMAIN Captures
      /\ Max(S) <= Max(DOMAIN Captures)
  BY <1>1, LatestTime
<1>3. D = TrueDeadline
  BY <1>2, RecordsStand DEF TrueDeadline
<1>4. CapturesOf(S) = [r \in covered |-> [at |-> CHOOSE t \in LastCaptureBefore(S, D[r]) : TRUE,
                                          deadline |-> D[r]]]
  BY DEF CapturesOf
<1>5. ASSUME NEW r \in covered
      PROVE  (CHOOSE t \in LastCaptureBefore(S, D[r]) : TRUE) \in LastCaptureBefore(S, D[r])
  OBVIOUS
<1>6. \A r \in covered : \A t \in LastCaptureBefore(S, D[r]) : t \in S /\ t < D[r]
  BY DEF LastCaptureBefore
<1>. HIDE DEF D
<1>. QED  BY <1>3, <1>4, <1>5, <1>6

-----------------------------------------------------------------------------
(* The captures joined.                                                    *)

(* What the two ingests have written was captured before the deadline of   *)
(* its round, as the season's records have it.                             *)
BeforeItsDeadline(f) == \A r \in DOMAIN f : f[r].at < TrueDeadline[r]

CapturesInv ==
    /\ listed \in SUBSET DOMAIN Captures /\ listed # {}
    /\ snapshots \in SUBSET DOMAIN Captures
    /\ BeforeItsDeadline(flags) /\ BeforeItsDeadline(market)

LEMMA FetchedAreCaptures ==
  ASSUME NEW S \in SUBSET DOMAIN Captures, S # {}
  PROVE  Fetched(S) \subseteq DOMAIN Captures
<1>1. S \in SUBSET Nat /\ IsFiniteSet(S)
  BY ArchiveAssumption, FS_Subset
<1>2. Max(S) \in S
  BY <1>1, LatestTime
<1>3. CASE ~IsRecord(Max(S))
  BY <1>2, <1>3 DEF Fetched
<1>4. CASE IsRecord(Max(S))
  <2>1. \A c \in Range(CapturesOf(S)) : \E r \in DOMAIN CapturesOf(S) : c = CapturesOf(S)[r]
    BY DEF Range
  <2>2. \A c \in Range(CapturesOf(S)) : c.at \in S
    BY <1>4, <2>1, CapturesOfARecord
  <2>. QED  BY <1>2, <1>4, <2>2 DEF Fetched
<1>. QED  BY <1>3, <1>4

LEMMA CapturesInvInit == ArchiveInit => CapturesInv
<1>1. DOMAIN <<>> = {}
  OBVIOUS
<1>. QED  BY <1>1 DEF ArchiveInit, CapturesInv, BeforeItsDeadline

LEMMA CapturesInvStep == CapturesInv /\ [ArchiveNext]_archiveVars => CapturesInv'
<1>. SUFFICES ASSUME CapturesInv, [ArchiveNext]_archiveVars PROVE CapturesInv'
  OBVIOUS
<1>0. /\ listed \in SUBSET DOMAIN Captures /\ listed # {}
      /\ snapshots \in SUBSET DOMAIN Captures
  BY DEF CapturesInv
<1>1. CASE UNCHANGED captured
  BY <1>1, <1>0 DEF CapturesInv, captured, BeforeItsDeadline, TrueDeadline
<1>2. CASE IngestAvailability
  <2>1. CASE FailIngest(listed)
    <3>1. snapshots' \in SUBSET DOMAIN Captures
      BY <1>0, <2>1, FetchedAreCaptures DEF FailIngest, CapturesInv
    <3>. QED  BY <1>0, <1>2, <2>1, <3>1 DEF CapturesInv, IngestAvailability, FailIngest, BeforeItsDeadline, TrueDeadline
  <2>2. CASE /\ IsRecord(Max(listed))
             /\ snapshots' = snapshots \union Fetched(listed)
             /\ flags' = CapturesOf(listed) /\ UNCHANGED market
    <3>1. snapshots' \in SUBSET DOMAIN Captures
      BY <1>0, <2>2, FetchedAreCaptures DEF CapturesInv
    <3>2. BeforeItsDeadline(flags')
      BY <1>0, <2>2, CapturesOfARecord DEF CapturesInv, BeforeItsDeadline
    <3>. QED  BY <1>0, <1>2, <2>2, <3>1, <3>2 DEF CapturesInv, IngestAvailability, BeforeItsDeadline, TrueDeadline
  <2>. QED  BY <1>2, <2>1, <2>2 DEF IngestAvailability
<1>3. CASE IngestMarket
  <2>1. PICK S \in {listed, snapshots} \ {{}} :
          \/ FailIngest(S)
          \/ /\ IsRecord(Max(S))
             /\ snapshots' = snapshots \union Fetched(S)
             /\ market' = CapturesOf(S) /\ UNCHANGED flags
    BY <1>3 DEF IngestMarket
  <2>2. S \in SUBSET DOMAIN Captures /\ S # {}
    BY <1>0, <2>1 DEF CapturesInv
  <2>3. CASE FailIngest(S)
    <3>1. snapshots' \in SUBSET DOMAIN Captures
      BY <1>0, <2>2, <2>3, FetchedAreCaptures DEF FailIngest, CapturesInv
    <3>. QED  BY <1>0, <1>3, <2>3, <3>1 DEF CapturesInv, IngestMarket, FailIngest, BeforeItsDeadline, TrueDeadline
  <2>4. CASE /\ IsRecord(Max(S))
             /\ snapshots' = snapshots \union Fetched(S)
             /\ market' = CapturesOf(S) /\ UNCHANGED flags
    <3>1. snapshots' \in SUBSET DOMAIN Captures
      BY <1>0, <2>2, <2>4, FetchedAreCaptures DEF CapturesInv
    <3>2. BeforeItsDeadline(market')
      BY <2>2, <2>4, CapturesOfARecord DEF BeforeItsDeadline
    <3>. QED  BY <1>0, <1>3, <2>4, <3>1, <3>2 DEF CapturesInv, IngestMarket, BeforeItsDeadline, TrueDeadline
  <2>. QED  BY <2>1, <2>3, <2>4
<1>4. CASE List
  BY <1>0, <1>4 DEF List, CapturesInv, BeforeItsDeadline, TrueDeadline
<1>5. Import => UNCHANGED captured
  BY DEF Import, StartImport, ReadFile, FailFetch, Check, Delete, Commit, Die, Again
<1>6. Republish \/ ClearCache => UNCHANGED captured
  BY DEF Republish, ClearCache
<1>7. UNCHANGED archiveVars => UNCHANGED captured
  BY DEF archiveVars
<1>. QED  BY <1>1, <1>2, <1>3, <1>4, <1>5, <1>6, <1>7 DEF ArchiveNext, Ingest

(* What is joined to a round was knowable at its true deadline, whichever  *)
(* captures the index has listed and the cache has kept: ingestSeason,     *)
(* ingestMarket and archiveHistory, for every calendar of captures.        *)
THEOREM JoinedWasKnowableAlways == ArchiveSpec => []JoinedWasKnowable
<1>1. CapturesInv => JoinedWasKnowable
  BY DEF CapturesInv, BeforeItsDeadline, JoinedWasKnowable, JoinedFlags, JoinedEpNext, Fresh
<1>. QED  BY CapturesInvInit, CapturesInvStep, <1>1, PTL DEF ArchiveSpec

-----------------------------------------------------------------------------
(* The archive's table.                                                    *)

(* What one import writes, of the files it read.                           *)
Wholes == {T \in {RowsToWrite(m, c) : m, c \in DOMAIN Publications} : T # {}}

Stamps == {0} \union DOMAIN Publications

ImportStates ==
    [at : {"idle", "failed", "done"}]
      \union [at : {"read"}, got : [Files -> Stamps]]
      \union [at : {"replace"}, rows : Wholes]
      \union [at : {"insert"}, rows : Wholes, deleted : Wholes \union {{}}]

(* An import holds the rows of two files, and the table is such rows or    *)
(* none; so is what an open transaction has deleted.                       *)
ImportsInv ==
    /\ published \in DOMAIN Publications
    /\ disk \in [Files -> Stamps]
    /\ imports \in [Importers -> ImportStates]
    /\ table \in Wholes \union {{}}

(* The rows of an import carry the files they are of.                      *)
LEMMA RowsAreStamped ==
  ASSUME NEW T \in Wholes
  PROVE  \E m, c \in DOMAIN Publications :
            /\ T = RowsToWrite(m, c)
            /\ \A x \in T : x.of = <<m, c>>
<1>1. PICK m, c \in DOMAIN Publications : T = RowsToWrite(m, c)
  BY DEF Wholes
<1>2. ASSUME NEW x \in T PROVE x.of = <<m, c>>
  <2>1. T = {} \/ \E R : T = {[of |-> <<m, c>>, row |-> r] : r \in R}
    BY <1>1 DEF RowsToWrite
  <2>. QED  BY <2>1
<1>. QED  BY <1>1, <1>2

(* Of one import's rows another's deletion leaves all or nothing.          *)
LEMMA KeptIsWhole ==
  ASSUME NEW T \in Wholes \union {{}}, NEW D \in Wholes \union {{}}
  PROVE  T \ D = {} \/ T \ D = T
<1>1. CASE T = {} \/ D = {}
  BY <1>1
<1>2. CASE T \in Wholes /\ D \in Wholes
  <2>1. PICK m, c \in DOMAIN Publications : T = RowsToWrite(m, c) /\ \A x \in T : x.of = <<m, c>>
    BY <1>2, RowsAreStamped
  <2>2. PICK n, d \in DOMAIN Publications : D = RowsToWrite(n, d) /\ \A x \in D : x.of = <<n, d>>
    BY <1>2, RowsAreStamped
  <2>3. CASE <<m, c>> = <<n, d>>
    BY <2>1, <2>2, <2>3
  <2>4. CASE <<m, c>> # <<n, d>>
    BY <2>1, <2>2, <2>4
  <2>. QED  BY <2>3, <2>4
<1>. QED  BY <1>1, <1>2

(* So a commit replaces the table whole or is refused by the unique index. *)
LEMMA CommitReplaces ==
  ASSUME ImportsInv, NEW i \in Importers, Commit(i)
  PROVE  table' = table \/ table' \in Wholes
<1>1. /\ imports[i].rows \in Wholes /\ imports[i].deleted \in Wholes \union {{}}
      /\ table \in Wholes \union {{}}
  BY DEF ImportsInv, ImportStates, Commit
<1>. DEFINE rows == imports[i].rows
            kept == table \ imports[i].deleted
            clash == {KeyOf(x) : x \in kept} \intersect {KeyOf(x) : x \in rows} # {}
<1>2. table' = IF clash THEN table ELSE kept \union rows
  BY DEF Commit
<1>3. kept = {} \/ kept = table
  BY <1>1, KeptIsWhole
<1>4. CASE kept = {}
  <2>1. kept \union rows = rows
    BY <1>4
  <2>. QED  BY <1>1, <1>2, <2>1
<1>5. CASE kept = table /\ kept # {}
  <2>1. kept \in Wholes /\ rows \in Wholes
    BY <1>1, <1>5
  <2>2. PICK m, c, n, d \in DOMAIN Publications : kept = RowsToWrite(m, c) /\ rows = RowsToWrite(n, d)
    BY <2>1 DEF Wholes
  <2>3. rows # {}
    BY <2>1 DEF Wholes
  <2>. HIDE DEF kept, rows
  <2>4. clash
    BY <1>5, <2>2, <2>3, PublicationsOverlap
  <2>. QED  BY <1>2, <2>4 DEF kept
<1>. QED  BY <1>3, <1>4, <1>5

LEMMA ImportsInvInit == ArchiveInit => ImportsInv
  BY ArchiveAssumption DEF ArchiveInit, ImportsInv, ImportStates, Idle, Stamps, Files

LEMMA ImportsInvStep == ImportsInv /\ [ArchiveNext]_archiveVars => ImportsInv'
<1>. SUFFICES ASSUME ImportsInv, [ArchiveNext]_archiveVars PROVE ImportsInv'
  OBVIOUS
<1>. USE DEF ImportsInv
<1>1. CASE UNCHANGED imported
  BY <1>1 DEF imported
<1>2. ASSUME NEW i \in Importers, StartImport(i) PROVE ImportsInv'
  BY <1>2 DEF StartImport, ImportStates, Stamps
<1>3. ASSUME NEW i \in Importers, NEW f \in Files, ReadFile(i, f) PROVE ImportsInv'
  <2>1. disk' \in [Files -> Stamps]
    BY <1>3 DEF ReadFile, Stamps
  <2>2. imports[i].at = "read" /\ imports[i].got \in [Files -> Stamps]
        /\ imports[i] = [at |-> "read", got |-> imports[i].got]
    BY <1>3 DEF ReadFile, ImportStates
  <2>. DEFINE g == [imports[i].got EXCEPT ![f] = disk'[f]]
  <2>3. imports' = [imports EXCEPT ![i] = [at |-> "read", got |-> g]]
    <3>1. imports' = [imports EXCEPT ![i] = [imports[i] EXCEPT !.got = g]]
      BY <1>3 DEF ReadFile
    <3>2. [imports[i] EXCEPT !.got = g] = [at |-> "read", got |-> g]
      <4>1. \A h, k : [[at |-> "read", got |-> h] EXCEPT !.got = k] = [at |-> "read", got |-> k]
        OBVIOUS
      <4>. QED  BY <2>2, <4>1
    <3>. QED  BY <3>1, <3>2
  <2>4. g \in [Files -> Stamps]
    BY <2>1, <2>2
  <2>5. imports' \in [Importers -> ImportStates]
    BY <2>3, <2>4 DEF ImportStates
  <2>. QED  BY <1>3, <2>1, <2>5 DEF ReadFile
<1>4. ASSUME NEW i \in Importers, FailFetch(i) \/ Die(i) PROVE ImportsInv'
  BY <1>4 DEF FailFetch, Die, ImportStates
<1>5. ASSUME NEW i \in Importers, Check(i) PROVE ImportsInv'
  <2>. DEFINE rows == RowsToWrite(imports[i].got["merged"], imports[i].got["codes"])
  <2>1. imports[i].got \in [Files -> Stamps]
    BY <1>5 DEF Check, ImportStates
  <2>2. imports[i].got["merged"] \in DOMAIN Publications /\ imports[i].got["codes"] \in DOMAIN Publications
    BY <1>5, <2>1 DEF Check, Files, Stamps
  <2>3. imports' = [imports EXCEPT ![i] = IF rows = {} THEN [at |-> "failed"]
                                          ELSE [at |-> "replace", rows |-> rows]]
    BY <1>5 DEF Check
  <2>4. rows # {} => rows \in Wholes
    BY <2>2 DEF Wholes
  <2>. HIDE DEF rows
  <2>5. (IF rows = {} THEN [at |-> "failed"] ELSE [at |-> "replace", rows |-> rows]) \in ImportStates
    BY <2>4 DEF ImportStates
  <2>6. imports' \in [Importers -> ImportStates]
    BY <2>3, <2>5
  <2>. QED  BY <1>5, <2>6 DEF Check
<1>6. ASSUME NEW i \in Importers, Delete(i) PROVE ImportsInv'
  <2>1. imports[i].rows \in Wholes
    BY <1>6 DEF Delete, ImportStates
  <2>2. [at |-> "insert", rows |-> imports[i].rows, deleted |-> table] \in ImportStates
    BY <2>1 DEF ImportStates
  <2>. QED  BY <1>6, <2>2 DEF Delete, WhileReplaced
<1>7. ASSUME NEW i \in Importers, Commit(i) PROVE ImportsInv'
  <2>1. table' \in Wholes \union {{}}
    BY <1>7, CommitReplaces
  <2>2. imports' \in [Importers -> ImportStates]
    <3>1. \E at \in {"failed", "done"} : imports' = [imports EXCEPT ![i] = [at |-> at]]
      BY <1>7 DEF Commit
    <3>. QED  BY <3>1 DEF ImportStates
  <2>. QED  BY <1>7, <2>1, <2>2 DEF Commit
<1>8. ASSUME NEW i \in Importers, Again(i) PROVE ImportsInv'
  BY <1>8 DEF Again, ImportStates, Idle
<1>9. CASE Republish
  BY <1>9, ArchiveAssumption DEF Republish
<1>10. CASE ClearCache
  BY <1>10 DEF ClearCache, Stamps
<1>11. Ingest => UNCHANGED imported
  BY DEF Ingest, IngestAvailability, IngestMarket, List
<1>12. UNCHANGED archiveVars => UNCHANGED imported
  BY DEF archiveVars
<1>. QED
  BY <1>1, <1>2, <1>3, <1>4, <1>5, <1>6, <1>7, <1>8, <1>9, <1>10, <1>11, <1>12 DEF ArchiveNext, Import

(* The season's table is only ever replaced by one import's rows, whole,   *)
(* of the files it read (replaceSeason): however many import it at once,   *)
(* whichever die and whatever is published meanwhile, for every history of *)
(* publications of which any two have a player's match in common.          *)
THEOREM SeasonIsReplacedWholeAlways == ArchiveSpec => SeasonIsReplacedWhole
<1>. DEFINE Replaced == table' # table =>
              table' # {} /\ \E m, c \in DOMAIN Publications : table' = RowsToWrite(m, c)
<1>1. ASSUME ImportsInv, [ArchiveNext]_archiveVars, table' # table PROVE table' \in Wholes
  <2>1. ~UNCHANGED imported
    BY <1>1 DEF imported
  <2>2. CASE \E i \in Importers : Commit(i)
    BY <1>1, <2>2, CommitReplaces
  <2>3. Import => \E i \in Importers : Commit(i)
    BY <1>1 DEF Import, StartImport, ReadFile, FailFetch, Check, Delete, Die, Again, WhileReplaced
  <2>4. ~(Republish \/ ClearCache)
    BY <1>1 DEF Republish, ClearCache
  <2>5. Ingest => UNCHANGED imported
    BY DEF Ingest, IngestAvailability, IngestMarket, List
  <2>6. UNCHANGED archiveVars => UNCHANGED imported
    BY DEF archiveVars
  <2>. QED  BY <1>1, <2>1, <2>2, <2>3, <2>4, <2>5, <2>6 DEF ArchiveNext
<1>2. ImportsInv /\ [ArchiveNext]_archiveVars => [Replaced]_archiveVars
  BY <1>1 DEF Wholes
<1>. QED  BY ImportsInvInit, ImportsInvStep, <1>2, PTL DEF ArchiveSpec, SeasonIsReplacedWhole

-----------------------------------------------------------------------------
(* The walk: lists, and what is picked from one.                           *)

(* s lists the members of T, each once.                                    *)
Lists(s, T) ==
    /\ s \in Seq(T)
    /\ \A i, j \in DOMAIN s : s[i] = s[j] => i = j
    /\ \A r \in T : \E i \in DOMAIN s : s[i] = r

LEMMA DomainOfSeq ==
  ASSUME NEW S, NEW s \in Seq(S)
  PROVE  /\ DOMAIN s = 1..Len(s) /\ Len(s) \in Nat /\ IsFiniteSet(DOMAIN s)
         /\ DOMAIN s \in SUBSET Nat /\ Cardinality(DOMAIN s) = Len(s)
         /\ \A i \in DOMAIN s : s[i] \in S
<1>1. DOMAIN s = 1..Len(s) /\ Len(s) \in Nat /\ \A i \in DOMAIN s : s[i] \in S
  OBVIOUS
<1>2. IsFiniteSet(1..Len(s)) /\ Cardinality(1..Len(s)) = Len(s)
  <2>1. 1 \in Int /\ Len(s) \in Int /\ (1 > Len(s) => Len(s) = 0) /\ Len(s) - 1 + 1 = Len(s)
    BY <1>1
  <2>. QED  BY <2>1, FS_Interval
<1>. QED  BY <1>1, <1>2

LEMMA ListOfAll ==
  ASSUME NEW T, NEW s, Lists(s, T)
  PROVE  /\ ToSet(s) = T /\ IsFiniteSet(T) /\ Len(s) = Cardinality(T)
         /\ s \in Bijection(DOMAIN s, T)
<1>1. s \in Bijection(DOMAIN s, T)
  BY DEF Lists, Bijection, Injection, Surjection, IsInjective
<1>2. DOMAIN s = 1..Len(s) /\ IsFiniteSet(DOMAIN s) /\ Cardinality(DOMAIN s) = Len(s)
  BY DomainOfSeq DEF Lists
<1>3. IsFiniteSet(T) /\ Cardinality(T) = Cardinality(DOMAIN s)
  BY <1>1, <1>2, FS_Bijection DEF ExistsBijection
<1>4. ToSet(s) = T
  BY DEF ToSet, Lists
<1>. QED  BY <1>1, <1>2, <1>3, <1>4

(* What is picked from a sequence is what stands at the places, in order.  *)
LEMMA PickedIs ==
  ASSUME NEW S, NEW s \in Seq(S), NEW I \in SUBSET DOMAIN s
  PROVE  /\ IsFiniteSet(I) /\ Cardinality(I) \in Nat
         /\ Picked(s, I) \in Seq(S) /\ Len(Picked(s, I)) = Cardinality(I)
         /\ DOMAIN Picked(s, I) = 1..Cardinality(I)
         /\ \A n \in 1..Cardinality(I) : Picked(s, I)[n] = s[Place(I, n)] /\ Place(I, n) \in I
         /\ ToSet(Picked(s, I)) = {s[i] : i \in I}
<1>1. I \in SUBSET Nat /\ IsFiniteSet(I) /\ Cardinality(I) \in Nat
  BY DomainOfSeq, FS_Subset, FS_CardinalityType
<1>2. /\ \A n \in 1..Cardinality(I) : Place(I, n) \in I
      /\ \A i \in I : \E n \in 1..Cardinality(I) : Place(I, n) = i
  BY <1>1, PlacesAreAll
<1>3. Picked(s, I) = [n \in 1..Cardinality(I) |-> s[Place(I, n)]]
  BY DEF Picked, Place
<1>4. \A n \in 1..Cardinality(I) : s[Place(I, n)] \in S
  BY <1>2, DomainOfSeq
<1>5. Picked(s, I) \in Seq(S) /\ Len(Picked(s, I)) = Cardinality(I)
  BY <1>1, <1>3, <1>4
<1>6. ToSet(Picked(s, I)) = {s[i] : i \in I}
  BY <1>2, <1>3 DEF ToSet
<1>. QED  BY <1>1, <1>2, <1>3, <1>5, <1>6

(* Nothing is picked twice from a list.                                    *)
LEMMA PickedLists ==
  ASSUME NEW S, NEW s \in Seq(S), NEW I \in SUBSET DOMAIN s,
         \A i, j \in DOMAIN s : s[i] = s[j] => i = j
  PROVE  Lists(Picked(s, I), {s[i] : i \in I})
<1>. DEFINE u == Picked(s, I)
            T == {s[i] : i \in I}
<1>1. /\ IsFiniteSet(I) /\ u \in Seq(S) /\ Len(u) = Cardinality(I) /\ Cardinality(I) \in Nat
      /\ DOMAIN u = 1..Cardinality(I)
      /\ \A n \in 1..Cardinality(I) : u[n] = s[Place(I, n)] /\ Place(I, n) \in I
      /\ ToSet(u) = T
  BY PickedIs
<1>2. \A m, n \in 1..Cardinality(I) : Place(I, m) = Place(I, n) => m = n
  <2>1. I \in SUBSET Nat
    BY DomainOfSeq
  <2>. QED  BY <1>1, <2>1, PlacesAreAll
<1>. HIDE DEF u
<1>3. \A m, n \in DOMAIN u : u[m] = u[n] => m = n
  BY <1>1, <1>2
<1>4. \A r \in T : \E n \in DOMAIN u : u[n] = r
  BY <1>1 DEF ToSet
<1>5. \A n \in DOMAIN u : u[n] \in T
  BY <1>1 DEF ToSet
<1>6. u \in Seq(T)
  BY <1>1, <1>5
<1>. QED  BY <1>3, <1>4, <1>6 DEF Lists, u

(* Two lists of different things, one after the other.                     *)
LEMMA ListsJoin ==
  ASSUME NEW S, NEW T, NEW s, NEW t, Lists(s, S), Lists(t, T), S \cap T = {}
  PROVE  Lists(s \o t, S \cup T)
<1>. DEFINE u == s \o t
<1>1. s \in Seq(S \cup T) /\ t \in Seq(S \cup T) /\ s \in Seq(S) /\ t \in Seq(T)
  BY DEF Lists
<1>2. /\ u \in Seq(S \cup T) /\ Len(u) = Len(s) + Len(t)
      /\ Len(s) \in Nat /\ Len(t) \in Nat /\ Len(u) \in Nat
      /\ DOMAIN u = 1..Len(u) /\ DOMAIN s = 1..Len(s) /\ DOMAIN t = 1..Len(t)
      /\ \A i \in 1..Len(u) : u[i] = IF i <= Len(s) THEN s[i] ELSE t[i - Len(s)]
  BY <1>1, ConcatProperties, DomainOfSeq
<1>. HIDE DEF u
<1>3. \A i \in 1..Len(u) : \/ i \in 1..Len(s) /\ u[i] = s[i] /\ u[i] \in S
                           \/ i - Len(s) \in 1..Len(t) /\ u[i] = t[i - Len(s)] /\ u[i] \in T
  <2>. TAKE i \in 1..Len(u)
  <2>1. CASE i <= Len(s)
    BY <1>1, <1>2, <2>1
  <2>2. CASE ~(i <= Len(s))
    <3>1. i - Len(s) \in 1..Len(t)
      BY <1>2, <2>2
    <3>. QED  BY <1>1, <1>2, <2>2, <3>1
  <2>. QED  BY <2>1, <2>2
<1>4. \A i, j \in 1..Len(u) : u[i] = u[j] => i = j
  <2>. TAKE i, j \in 1..Len(u)
  <2>1. SUFFICES ASSUME u[i] = u[j] PROVE i = j
    OBVIOUS
  <2>2. CASE i \in 1..Len(s) /\ u[i] = s[i] /\ j \in 1..Len(s) /\ u[j] = s[j]
    BY <1>2, <2>1, <2>2 DEF Lists
  <2>3. CASE i - Len(s) \in 1..Len(t) /\ u[i] = t[i - Len(s)] /\ j - Len(s) \in 1..Len(t) /\ u[j] = t[j - Len(s)]
    <3>1. i - Len(s) = j - Len(s)
      BY <1>2, <2>1, <2>3 DEF Lists
    <3>. QED  BY <1>2, <3>1
  <2>. QED  BY <1>3, <2>1, <2>2, <2>3
<1>5. \A r \in S \cup T : \E i \in 1..Len(u) : u[i] = r
  <2>. TAKE r \in S \cup T
  <2>1. CASE r \in S
    <3>1. PICK i \in 1..Len(s) : s[i] = r
      BY <1>2, <2>1 DEF Lists
    <3>2. i \in 1..Len(u) /\ i <= Len(s)
      BY <1>2
    <3>. QED  BY <1>2, <3>1, <3>2
  <2>2. CASE r \in T
    <3>1. PICK i \in 1..Len(t) : t[i] = r
      BY <1>2, <2>2 DEF Lists
    <3>2. i + Len(s) \in 1..Len(u) /\ ~(i + Len(s) <= Len(s)) /\ i + Len(s) - Len(s) = i
      BY <1>2
    <3>3. u[i + Len(s)] = t[i]
      BY <1>2, <3>2
    <3>. QED  BY <3>1, <3>2, <3>3
  <2>. QED  BY <2>1, <2>2
<1>. QED  BY <1>2, <1>4, <1>5 DEF Lists, u

LEMMA ListsNothing == Lists(<<>>, {})
  BY DEF Lists

(* The last n of a list are some of it, each once.                         *)
LEMMA LastOfList ==
  ASSUME NEW S, NEW s \in Seq(S), NEW n \in Nat \ {0}
  PROVE  /\ LastOf(s, n) \in Seq(S)
         /\ Len(LastOf(s, n)) = IF Len(s) > n THEN n ELSE Len(s)
         /\ \A i \in DOMAIN LastOf(s, n) :
               LET j == i + (IF Len(s) > n THEN Len(s) - n ELSE 0)
               IN  j \in DOMAIN s /\ LastOf(s, n)[i] = s[j]
         /\ ToSet(LastOf(s, n)) = {s[i] : i \in {j \in DOMAIN s : j > Len(s) - n}}
<1>. DEFINE m == IF Len(s) > n THEN Len(s) - n + 1 ELSE 1
            u == SubSeq(s, m, Len(s))
            k == IF Len(s) > n THEN n ELSE Len(s)
<1>1. Len(s) \in Nat /\ DOMAIN s = 1..Len(s) /\ m \in Nat /\ m >= 1 /\ k \in Nat
      /\ k = Len(s) - m + 1 /\ \A i \in m..Len(s) : i \in 1..Len(s)
  OBVIOUS
<1>2. LastOf(s, n) = u
  BY DEF LastOf
<1>3. u \in Seq(S) /\ Len(u) = k /\ \A i \in 1..k : u[i] = s[m + i - 1]
  <2>1. /\ SubSeq(s, m, Len(s)) \in Seq(S)
        /\ Len(SubSeq(s, m, Len(s))) = IF m <= Len(s) THEN Len(s) - m + 1 ELSE 0
        /\ \A i \in 1..(Len(s) - m + 1) : SubSeq(s, m, Len(s))[i] = s[m + i - 1]
    <3>1. m \in Int /\ Len(s) \in Int /\ \A i \in m..Len(s) : s[i] \in S
      BY <1>1
    <3>. HIDE DEF m
    <3>. QED  BY <3>1, SubSeqProperties
  <2>. HIDE DEF m, k
  <2>. QED  BY <1>1, <2>1
<1>. HIDE DEF u
<1>4. DOMAIN u = 1..k
  BY <1>1, <1>3
<1>5. ToSet(u) = {s[i] : i \in {j \in DOMAIN s : j > Len(s) - n}}
  <2>1. ASSUME NEW i \in 1..k PROVE m + i - 1 \in DOMAIN s /\ m + i - 1 > Len(s) - n
    BY <1>1
  <2>2. ASSUME NEW j \in DOMAIN s, j > Len(s) - n PROVE j - m + 1 \in 1..k /\ s[j] = u[j - m + 1]
    <3>1. j - m + 1 \in 1..k /\ m + (j - m + 1) - 1 = j
      BY <1>1, <2>2
    <3>. HIDE DEF m, k
    <3>. QED  BY <1>3, <3>1
  <2>. HIDE DEF m, k
  <2>. QED  BY <1>3, <1>4, <2>1, <2>2 DEF ToSet
<1>6. \A i \in 1..k : LET j == i + (IF Len(s) > n THEN Len(s) - n ELSE 0)
                      IN  j = m + i - 1 /\ j \in DOMAIN s
  BY <1>1
<1>. HIDE DEF m
<1>. QED  BY <1>2, <1>3, <1>4, <1>5, <1>6

(* A sum over a list is the one over what it lists.                        *)
LEMMA SumImage ==
  ASSUME NEW D, IsFiniteSet(D), NEW T, NEW b \in Bijection(D, T), NEW f, NEW g,
         \A i \in D : f[i] \in Int /\ f[i] = g[b[i]]
  PROVE  SumFunctionOnSet(f, D) = SumFunctionOnSet(g, T)
<1>. DEFINE im(A) == {b[i] : i \in A}
            F == {A \in SUBSET D : SumFunctionOnSet(f, A) = SumFunctionOnSet(g, im(A))}
<1>0. /\ \A i \in D : b[i] \in T
      /\ \A i, j \in D : b[i] = b[j] => i = j
      /\ \A t \in T : \E i \in D : b[i] = t
      /\ IsFiniteSet(T)
  <2>1. IsFiniteSet(T)
    BY FS_Bijection DEF ExistsBijection
  <2>. QED  BY <2>1 DEF Bijection, Injection, Surjection, IsInjective
<1>1. {} \in F
  <2>1. im({}) = {}
    OBVIOUS
  <2>2. SumFunctionOnSet(f, {}) = 0 /\ SumFunctionOnSet(g, {}) = 0
    BY SumStep, FS_EmptySet
  <2>. QED  BY <2>1, <2>2
<1>2. ASSUME NEW A \in SUBSET D, NEW x \in D \ A, A \in F PROVE A \cup {x} \in F
  <2>1. IsFiniteSet(A)
    BY FS_Subset
  <2>2. im(A \cup {x}) = im(A) \cup {b[x]} /\ b[x] \notin im(A) /\ im(A) \subseteq T
    BY <1>0
  <2>3. IsFiniteSet(im(A)) /\ \A y \in im(A) \cup {b[x]} : g[y] \in Int
    <3>1. IsFiniteSet(im(A))
      BY <1>0, <2>2, FS_Subset
    <3>. QED  BY <3>1
  <2>. HIDE DEF im
  <2>4. SumFunctionOnSet(f, A \cup {x}) = f[x] + SumFunctionOnSet(f, A)
    BY <2>1, SumAdd
  <2>5. SumFunctionOnSet(g, im(A) \cup {b[x]}) = g[b[x]] + SumFunctionOnSet(g, im(A))
    BY <2>2, <2>3, SumAdd
  <2>. QED  BY <1>2, <2>2, <2>4, <2>5
<1>3. D \in F
  <2>. HIDE DEF F
  <2>. QED  BY <1>1, <1>2, FinInd
<1>4. im(D) = T
  BY <1>0
<1>. HIDE DEF im
<1>. QED  BY <1>3, <1>4

(* And as many of the list are such as of what it lists.                   *)
LEMMA CountImage ==
  ASSUME NEW D, IsFiniteSet(D), NEW T, NEW b \in Bijection(D, T), NEW C \in SUBSET T
  PROVE  Cardinality({i \in D : b[i] \in C}) = Cardinality(C)
<1>. DEFINE E == {i \in D : b[i] \in C}
            c == [i \in E |-> b[i]]
<1>1. c \in Bijection(E, C)
  BY DEF Bijection, Injection, Surjection, IsInjective
<1>2. IsFiniteSet(E)
  BY FS_Subset
<1>. HIDE DEF E, c
<1>3. Cardinality(C) = Cardinality(E)
  BY <1>1, <1>2, FS_Bijection DEF ExistsBijection
<1>. QED  BY <1>3 DEF E

-----------------------------------------------------------------------------
(* The keys of the rounds, and the rows of one.                            *)

LEMMA EarlierIsAnOrder ==
  ASSUME NEW a \in Nat \X Nat, NEW b \in Nat \X Nat, NEW c \in Nat \X Nat
  PROVE  /\ ~Earlier(a, a)
         /\ ~(Earlier(a, b) /\ Earlier(b, a))
         /\ (Earlier(a, b) /\ Earlier(b, c) => Earlier(a, c))
         /\ (a = b \/ Earlier(a, b) \/ Earlier(b, a))
  BY DEF Earlier

LEMMA RowsHaveKeys ==
  ASSUME WellFormed(history)
  PROVE  /\ \A r \in ToSet(history) :
              /\ r.season \in Nat \ {0} /\ r.round \in Nat
              /\ Key(r) \in Keys /\ Key(r)[1] = r.season /\ Key(r)[2] = r.round
         /\ \A k \in Keys : /\ k \in Nat \X Nat /\ k[1] # 0 /\ Earlier(Start, k)
                            /\ \E r \in ToSet(history) : Key(r) = k
         /\ IsFiniteSet(Keys) /\ IsFiniteSet(ToSet(history))
         /\ history \in Seq(ToSet(history))
         /\ Lists(history, ToSet(history))
         /\ Start \in Nat \X Nat
<1>1. /\ history \in Seq(ToSet(history))
      /\ \A i, j \in DOMAIN history : history[i] = history[j] => i = j
      /\ \A r \in ToSet(history) : r.season \in Nat \ {0} /\ r.round \in Nat
  BY DEF WellFormed, IsInjective
<1>2. \A i \in DOMAIN history : history[i] \in ToSet(history)
  BY DEF ToSet
<1>3. \A r \in ToSet(history) : \E i \in DOMAIN history : history[i] = r
  BY DEF ToSet
<1>4. Lists(history, ToSet(history))
  BY <1>1, <1>3 DEF Lists
<1>5. IsFiniteSet(ToSet(history))
  BY <1>4, ListOfAll
<1>6. Keys = {Key(r) : r \in ToSet(history)}
  BY <1>2, <1>3 DEF Keys
<1>7. \A r \in ToSet(history) : /\ r.season \in Nat \ {0} /\ r.round \in Nat
              /\ Key(r) \in Keys /\ Key(r)[1] = r.season /\ Key(r)[2] = r.round
  BY <1>1, <1>6 DEF Key
<1>8. \A k \in Keys : /\ k \in Nat \X Nat /\ k[1] # 0 /\ Earlier(Start, k)
                      /\ \E r \in ToSet(history) : Key(r) = k
  BY <1>6, <1>7 DEF Key, Earlier, Start
<1>9. IsFiniteSet(Keys)
  <2>. DEFINE f == [r \in ToSet(history) |-> Key(r)]
  <2>1. f \in Surjection(ToSet(history), Keys)
    BY <1>6 DEF Surjection
  <2>. QED  BY <1>5, <2>1, FS_Surjection
<1>. QED  BY <1>1, <1>4, <1>5, <1>7, <1>8, <1>9 DEF Start

RowsAt(k) == {r \in ToSet(history) : Key(r) = k}

LEMMA RowsOfAKey ==
  ASSUME WellFormed(history), NEW k
  PROVE  /\ Lists(RowsOf(k), RowsAt(k))
         /\ RowsOf(k) \in Seq(ToSet(history)) /\ ToSet(RowsOf(k)) = RowsAt(k)
<1>. DEFINE I == {i \in DOMAIN history : Key(history[i]) = k}
<1>1. RowsOf(k) = Picked(history, I)
  BY DEF RowsOf
<1>2. history \in Seq(ToSet(history)) /\ \A i, j \in DOMAIN history : history[i] = history[j] => i = j
  BY RowsHaveKeys DEF Lists
<1>3. {history[i] : i \in I} = RowsAt(k)
  BY DEF RowsAt, ToSet
<1>4. Lists(Picked(history, I), RowsAt(k)) /\ Picked(history, I) \in Seq(ToSet(history))
  BY <1>2, <1>3, PickedLists, PickedIs
<1>. QED  BY <1>1, <1>4, ListOfAll

-----------------------------------------------------------------------------
(* What an accumulator holds.                                              *)

AccIs(acc, S) ==
    /\ DOMAIN acc = {r.player : r \in S}
    /\ \A p \in DOMAIN acc : Lists(acc[p], {r \in S : r.player = p})

LEMMA AccAt ==
  ASSUME NEW acc, NEW S, AccIs(acc, S), NEW p
  PROVE  Lists(At(acc, p), {r \in S : r.player = p})
<1>1. CASE p \in DOMAIN acc
  BY <1>1 DEF AccIs, At
<1>2. CASE p \notin DOMAIN acc
  <2>1. {r \in S : r.player = p} = {} /\ At(acc, p) = <<>>
    BY <1>2 DEF AccIs, At
  <2>. QED  BY <2>1, ListsNothing
<1>. QED  BY <1>1, <1>2

LEMMA AccWith ==
  ASSUME NEW acc, NEW S, AccIs(acc, S), NEW rows, NEW T, Lists(rows, T), S \cap T = {}
  PROVE  /\ AccIs(With(acc, rows), S \cup T)
         /\ \A p \in DOMAIN With(acc, rows) : \E I \in SUBSET DOMAIN rows :
               With(acc, rows)[p] = At(acc, p) \o Picked(rows, I)
<1>. DEFINE w == With(acc, rows)
            I(p) == {i \in DOMAIN rows : rows[i].player = p}
<1>1. ToSet(rows) = T /\ rows \in Seq(T)
  BY ListOfAll DEF Lists
<1>2. /\ DOMAIN w = DOMAIN acc \cup {r.player : r \in T}
      /\ \A p \in DOMAIN w : w[p] = At(acc, p) \o Picked(rows, I(p))
  BY <1>1 DEF With
<1>3. DOMAIN w = {r.player : r \in S \cup T}
  BY <1>2 DEF AccIs
<1>. HIDE DEF w
<1>4. ASSUME NEW p \in DOMAIN w
      PROVE  Lists(w[p], {r \in S \cup T : r.player = p})
  <2>. DEFINE A == {r \in S : r.player = p}
              B == {r \in T : r.player = p}
  <2>1. Lists(At(acc, p), A)
    BY AccAt
  <2>2. Lists(Picked(rows, I(p)), B)
    <3>1. {rows[i] : i \in I(p)} = B
      BY <1>1 DEF ToSet
    <3>2. I(p) \in SUBSET DOMAIN rows /\ \A i, j \in DOMAIN rows : rows[i] = rows[j] => i = j
      BY DEF Lists
    <3>. HIDE DEF I
    <3>. QED  BY <1>1, <3>1, <3>2, PickedLists
  <2>3. A \cap B = {} /\ A \cup B = {r \in S \cup T : r.player = p}
    OBVIOUS
  <2>. HIDE DEF A, B, I
  <2>4. Lists(At(acc, p) \o Picked(rows, I(p)), A \cup B)
    BY <2>1, <2>2, <2>3, ListsJoin
  <2>5. w[p] = At(acc, p) \o Picked(rows, I(p))
    BY <1>2
  <2>. QED  BY <2>3, <2>4, <2>5
<1>5. AccIs(w, S \cup T)
  BY <1>3, <1>4 DEF AccIs
<1>. QED  BY <1>2, <1>5 DEF w

-----------------------------------------------------------------------------
(* The walk's invariant.  A round is folded once its step is over; what is *)
(* kept is of the rounds folded, and nothing of the season's start or of   *)
(* the season before is lost.                                              *)
Closed == step \in {"begin", "done", "served"}
WalkedKeys == {k \in Keys : Earlier(k, clock) \/ (Closed /\ k = clock)}
Folded == {r \in ToSet(history) : Key(r) \in WalkedKeys}
OfSeason(n) == {r \in Folded : r.season = n}
LastRows(k) == {r \in Past(k) : r.season < k[1] /\ \A s \in SeasonsBefore(k) : s <= r.season}
Age(r) == Cardinality({j \in WalkedKeys : Earlier(Key(r), j)})
InRoundOrder(s) == \A i, j \in DOMAIN s : i < j => s[i].round <= s[j].round

ClockInv ==
    /\ WellFormed(history) /\ params \in Parameters
    /\ clock \in Keys \/ (clock = Start /\ Closed)

AccInv ==
    /\ AccIs(career, Folded)
    /\ AccIs(seasonAcc, OfSeason(clock[1]))
    /\ \A p \in DOMAIN seasonAcc : InRoundOrder(seasonAcc[p])
    /\ strength = OfSeason(clock[1])

LastInv ==
    /\ AccIs([p \in DOMAIN lastSeason |-> lastSeason[p][2]], LastRows(clock))
    /\ priors = SeasonPriors(LastRows(clock))

AgeInv == params.decaying => decayed = {<<r, Age(r)>> : r \in Folded}

ContextInv == step \in {"project", "export"} => items = ScoredRows(RowsOf(clock)) /\ future = Future

KeptInv == ClockInv /\ AccInv /\ LastInv /\ AgeInv
WalkInv == KeptInv /\ ContextInv

kept == <<history, params, clock, career, seasonAcc, lastSeason, decayed, strength, priors>>

LEMMA KeptOnAStep ==
  ASSUME KeptInv, UNCHANGED kept, Closed' <=> Closed
  PROVE  KeptInv'
<1>1. Keys' = Keys
  BY DEF Keys, kept
<1>2. WalkedKeys' = WalkedKeys
  BY <1>1 DEF WalkedKeys, kept
<1>3. Folded' = Folded
  BY <1>2 DEF Folded, kept
<1>4. OfSeason(clock[1])' = OfSeason(clock[1])
  BY <1>3 DEF OfSeason, kept
<1>5. LastRows(clock)' = LastRows(clock)
  BY <1>1 DEF LastRows, Past, SeasonsBefore, kept
<1>6. ClockInv'
  BY <1>1 DEF KeptInv, ClockInv, kept
<1>7. AccInv'
  BY <1>3, <1>4 DEF KeptInv, AccInv, kept
<1>8. LastInv'
  BY <1>5 DEF KeptInv, LastInv, kept
<1>9. AgeInv'
  <2>1. ASSUME NEW r PROVE Age(r)' = Age(r)
    BY <1>2 DEF Age
  <2>. QED  BY <1>3, <2>1 DEF KeptInv, AgeInv, kept
<1>. QED  BY <1>6, <1>7, <1>8, <1>9 DEF KeptInv

(* No round starts before the first.                                       *)
LEMMA NothingBeforeTheStart ==
  ASSUME WellFormed(history)
  PROVE  \A k \in Keys : ~Earlier(k, Start) /\ k # Start
<1>. TAKE k \in Keys
<1>1. k \in Nat \X Nat /\ k[1] # 0 /\ Earlier(Start, k) /\ Start \in Nat \X Nat
  BY RowsHaveKeys
<1>. QED  BY <1>1, EarlierIsAnOrder

(* What has been folded when a round begins is what came before it.        *)
LEMMA NextRound ==
  ASSUME ClockInv, BeginRound
  PROVE  /\ clock' \in Keys /\ Earlier(clock, clock') /\ Closed /\ ~Closed'
         /\ history' = history /\ params' = params
         /\ Keys' = Keys
         /\ WalkedKeys = {j \in Keys : Earlier(j, clock')} /\ WalkedKeys' = WalkedKeys
         /\ Folded' = Folded /\ Folded = Past(clock')
         /\ clock \in Nat \X Nat /\ clock' \in Nat \X Nat
<1>1. /\ clock' \in Ahead /\ \A j \in Ahead \ {clock'} : Earlier(clock', j)
      /\ step = "begin" /\ step' = "score" /\ history' = history /\ params' = params
  BY DEF BeginRound
<1>2. Keys' = Keys /\ clock' \in Keys /\ Earlier(clock, clock') /\ Closed /\ ~Closed'
  BY <1>1 DEF Keys, Ahead, Closed
<1>3. /\ WellFormed(history) /\ \A k \in Keys : k \in Nat \X Nat
      /\ clock \in Nat \X Nat /\ clock' \in Nat \X Nat
  BY <1>2, RowsHaveKeys DEF ClockInv
<1>4. WalkedKeys = {j \in Keys : Earlier(j, clock')}
  <2>1. ASSUME NEW j \in Keys, Earlier(j, clock') PROVE j \in WalkedKeys
    <3>1. ~Earlier(clock, j)
      <4>1. SUFFICES ASSUME Earlier(clock, j) PROVE FALSE
        OBVIOUS
      <4>2. j \in Ahead /\ j # clock'
        BY <1>3, <2>1, <4>1, EarlierIsAnOrder DEF Ahead
      <4>3. Earlier(clock', j)
        BY <1>1, <4>2
      <4>. QED  BY <1>3, <2>1, <4>3, EarlierIsAnOrder
    <3>2. j = clock \/ Earlier(j, clock)
      BY <1>3, <3>1, EarlierIsAnOrder
    <3>. QED  BY <1>2, <3>2 DEF WalkedKeys
  <2>2. ASSUME NEW j \in WalkedKeys PROVE j \in Keys /\ Earlier(j, clock')
    <3>1. j \in Keys /\ (j = clock \/ Earlier(j, clock))
      BY DEF WalkedKeys
    <3>. QED  BY <1>2, <1>3, <3>1, EarlierIsAnOrder
  <2>. QED  BY <2>1, <2>2
<1>5. WalkedKeys' = WalkedKeys
  BY <1>2, <1>4 DEF WalkedKeys
<1>6. Folded' = Folded
  BY <1>1, <1>5 DEF Folded
<1>7. Folded = Past(clock')
  BY <1>3, <1>4, RowsHaveKeys DEF Folded, Past
<1>. QED  BY <1>1, <1>2, <1>3, <1>4, <1>5, <1>6, <1>7

(* The rows of the season before, when a round begins.                     *)
LEMMA LastRowsOfASeason ==
  ASSUME ClockInv, BeginRound
  PROVE  /\ clock'[1] = clock[1] => LastRows(clock') = LastRows(clock)
         /\ clock'[1] # clock[1] /\ clock = Start => LastRows(clock') = {} /\ LastRows(clock) = {}
         /\ clock'[1] # clock[1] /\ clock # Start => LastRows(clock') = OfSeason(clock[1])
         /\ clock'[1] # clock[1] => OfSeason(clock'[1]) = {}
<1>0. /\ clock' \in Keys /\ Earlier(clock, clock') /\ Folded = Past(clock')
      /\ WalkedKeys = {j \in Keys : Earlier(j, clock')}
      /\ clock \in Nat \X Nat /\ clock' \in Nat \X Nat /\ WellFormed(history)
  BY NextRound DEF ClockInv
<1>1. /\ \A j \in Keys : j \in Nat \X Nat
      /\ \A r \in ToSet(history) : /\ r.season \in Nat /\ r.round \in Nat /\ Key(r) \in Keys
                                   /\ Key(r)[1] = r.season /\ Key(r)[2] = r.round
  BY <1>0, RowsHaveKeys
<1>2. \A j \in WalkedKeys : j \in Keys /\ (j = clock \/ Earlier(j, clock)) /\ j[1] <= clock[1]
  BY <1>0, <1>1 DEF WalkedKeys, Earlier
<1>3. \A r \in Folded : r \in ToSet(history) /\ Key(r) \in WalkedKeys
  BY DEF Folded
<1>4. \A s : s \in SeasonsBefore(clock') <=> \E j \in Keys : j[1] = s /\ s < clock'[1]
  BY DEF SeasonsBefore
<1>5. CASE clock'[1] = clock[1]
  <2>1. SeasonsBefore(clock') = SeasonsBefore(clock)
    BY <1>5 DEF SeasonsBefore
  <2>2. ASSUME NEW r \in ToSet(history), r.season < clock[1]
        PROVE  r \in Past(clock') <=> r \in Past(clock)
    BY <1>0, <1>1, <1>5, <2>2 DEF Past, Earlier
  <2>3. LastRows(clock') = LastRows(clock)
    <3>1. \A r : r \in Past(clock') \/ r \in Past(clock) => r \in ToSet(history)
      BY DEF Past
    <3>. QED  BY <1>5, <2>1, <2>2, <3>1 DEF LastRows
  <2>. QED  BY <1>5, <2>3
<1>6. CASE clock'[1] # clock[1]
  <2>1. clock[1] < clock'[1]
    BY <1>0, <1>6 DEF Earlier
  <2>2. OfSeason(clock'[1]) = {}
    <3>1. \A r \in Folded : r.season # clock'[1]
      BY <1>0, <1>1, <1>2, <1>3, <2>1
    <3>. QED  BY <3>1 DEF OfSeason
  <2>3. clock = Start => LastRows(clock') = {} /\ LastRows(clock) = {}
    <3>1. SUFFICES ASSUME clock = Start PROVE LastRows(clock') = {} /\ LastRows(clock) = {}
      OBVIOUS
    <3>2. WalkedKeys = {}
      BY <1>0, <1>2, <3>1, NothingBeforeTheStart
    <3>3. Past(clock') = {}
      BY <1>0, <1>3, <3>2
    <3>4. Past(clock) = {}
      BY <1>0, <1>1, <3>1, NothingBeforeTheStart DEF Past
    <3>. QED  BY <3>3, <3>4 DEF LastRows
  <2>4. clock # Start => LastRows(clock') = OfSeason(clock[1])
    <3>1. SUFFICES ASSUME clock # Start PROVE LastRows(clock') = OfSeason(clock[1])
      OBVIOUS
    <3>2. clock \in Keys
      BY <3>1 DEF ClockInv
    <3>3. clock[1] \in SeasonsBefore(clock')
      BY <1>4, <2>1, <3>2
    <3>4. ASSUME NEW r \in LastRows(clock') PROVE r \in OfSeason(clock[1])
      <4>1. r \in Folded /\ clock[1] <= r.season
        BY <1>0, <3>3 DEF LastRows
      <4>2. r.season <= clock[1] /\ r.season \in Nat /\ clock[1] \in Nat
        BY <1>0, <1>1, <1>2, <1>3, <4>1
      <4>. QED  BY <4>1, <4>2 DEF OfSeason
    <3>5. ASSUME NEW r \in OfSeason(clock[1]) PROVE r \in LastRows(clock')
      <4>1. r \in Past(clock') /\ r.season = clock[1]
        BY <1>0 DEF OfSeason
      <4>2. ASSUME NEW s \in SeasonsBefore(clock') PROVE s <= clock[1]
        <5>1. PICK j \in Keys : j[1] = s /\ s < clock'[1]
          BY <1>4
        <5>2. Earlier(j, clock')
          BY <5>1 DEF Earlier
        <5>3. j \in WalkedKeys
          BY <1>0, <5>2
        <5>. QED  BY <1>2, <5>1, <5>3
      <4>. QED  BY <2>1, <4>1, <4>2 DEF LastRows
    <3>. QED  BY <3>4, <3>5
  <2>. QED  BY <1>6, <2>2, <2>3, <2>4
<1>. QED  BY <1>5, <1>6

LEMMA AccOfNothing == AccIs(<<>>, {})
  BY DEF AccIs

LEMMA KeptBegin ==
  ASSUME KeptInv, BeginRound
  PROVE  KeptInv'
<1>. DEFINE k == clock'
<1>0. ClockInv /\ AccInv /\ LastInv /\ AgeInv
  BY DEF KeptInv
<1>1. /\ k \in Keys /\ ~Closed' /\ history' = history /\ params' = params /\ Keys' = Keys
      /\ WalkedKeys' = WalkedKeys /\ Folded' = Folded
  BY <1>0, NextRound
<1>2. career' = career /\ decayed' = decayed
  BY DEF BeginRound
<1>3. ClockInv'
  BY <1>0, <1>1 DEF ClockInv
<1>4. AgeInv'
  <2>1. ASSUME NEW r PROVE Age(r)' = Age(r)
    BY <1>1 DEF Age
  <2>. QED  BY <1>0, <1>1, <1>2, <2>1 DEF AgeInv
<1>5. \A n : OfSeason(n)' = OfSeason(n)
  BY <1>1 DEF OfSeason
<1>6. LastRows(clock)' = LastRows(k)
  BY <1>1 DEF LastRows, Past, SeasonsBefore
<1>7. CASE k[1] = clock[1]
  <2>1. UNCHANGED <<seasonAcc, lastSeason, strength, priors>>
    BY <1>7 DEF BeginRound
  <2>2. LastRows(k) = LastRows(clock)
    BY <1>0, <1>7, LastRowsOfASeason
  <2>3. AccInv'
    BY <1>0, <1>1, <1>2, <1>5, <1>7, <2>1 DEF AccInv
  <2>4. LastInv'
    BY <1>0, <1>6, <2>1, <2>2 DEF LastInv
  <2>. QED  BY <1>3, <1>4, <2>3, <2>4 DEF KeptInv
<1>8. CASE k[1] # clock[1]
  <2>1. seasonAcc' = <<>> /\ strength' = {}
    BY <1>8 DEF BeginRound
  <2>2. OfSeason(k[1]) = {}
    BY <1>0, <1>8, LastRowsOfASeason
  <2>3. AccInv'
    <3>1. AccIs(seasonAcc, OfSeason(clock[1]))' /\ strength' = OfSeason(clock[1])'
      BY <1>5, <2>1, <2>2, AccOfNothing
    <3>2. AccIs(career, Folded)'
      BY <1>0, <1>1, <1>2 DEF AccInv
    <3>3. DOMAIN seasonAcc' = {}
      BY <2>1
    <3>. QED  BY <3>1, <3>2, <3>3 DEF AccInv
  <2>4. LastInv'
    <3>1. CASE clock = Start
      <4>1. UNCHANGED <<lastSeason, priors>>
        BY <1>8, <3>1 DEF BeginRound
      <4>2. LastRows(k) = LastRows(clock)
        BY <1>0, <1>8, <3>1, LastRowsOfASeason
      <4>. QED  BY <1>0, <1>6, <4>1, <4>2 DEF LastInv
    <3>2. CASE clock # Start
      <4>1. /\ lastSeason' = [p \in DOMAIN seasonAcc |-> <<clock[1], seasonAcc[p]>>]
            /\ priors' = SeasonPriors(strength)
        BY <1>8, <3>2 DEF BeginRound, Turn
      <4>2. LastRows(k) = OfSeason(clock[1])
        BY <1>0, <1>8, <3>2, LastRowsOfASeason
      <4>3. [p \in DOMAIN lastSeason |-> lastSeason[p][2]]' = [p \in DOMAIN seasonAcc |-> seasonAcc[p]]
        BY <4>1
      <4>4. AccIs([p \in DOMAIN seasonAcc |-> seasonAcc[p]], OfSeason(clock[1]))
        BY <1>0 DEF AccInv, AccIs
      <4>5. strength = OfSeason(clock[1])
        BY <1>0 DEF AccInv
      <4>. QED  BY <1>6, <4>1, <4>2, <4>3, <4>4, <4>5 DEF LastInv
    <3>. QED  BY <3>1, <3>2
  <2>. QED  BY <1>3, <1>4, <2>3, <2>4 DEF KeptInv
<1>. QED  BY <1>7, <1>8

(* Folding a round in adds its rows to what is folded, and no other.       *)
LEMMA RoundFolded ==
  ASSUME ClockInv, FoldRound
  PROVE  /\ clock \in Keys /\ ~Closed /\ Closed'
         /\ clock' = clock /\ history' = history /\ params' = params /\ Keys' = Keys
         /\ WalkedKeys' = WalkedKeys \cup {clock} /\ clock \notin WalkedKeys
         /\ Folded' = Folded \cup RowsAt(clock) /\ Folded \cap RowsAt(clock) = {}
         /\ \A n : OfSeason(n)' = OfSeason(n) \cup {r \in RowsAt(clock) : r.season = n}
         /\ LastRows(clock)' = LastRows(clock)
<1>1. /\ step = "fold" /\ step' = "begin" /\ clock' = clock /\ history' = history /\ params' = params
  BY DEF FoldRound
<1>2. ~Closed /\ Closed' /\ clock \in Keys /\ Keys' = Keys /\ WellFormed(history)
  BY <1>1 DEF Closed, ClockInv, Keys
<1>3. \A k \in Keys : k \in Nat \X Nat
  BY <1>2, RowsHaveKeys
<1>4. WalkedKeys' = WalkedKeys \cup {clock} /\ clock \notin WalkedKeys
  <2>1. ~Earlier(clock, clock)
    BY <1>2, <1>3, EarlierIsAnOrder
  <2>. QED  BY <1>1, <1>2, <2>1 DEF WalkedKeys
<1>5. Folded' = Folded \cup RowsAt(clock) /\ Folded \cap RowsAt(clock) = {}
  BY <1>1, <1>4 DEF Folded, RowsAt
<1>6. \A n : OfSeason(n)' = OfSeason(n) \cup {r \in RowsAt(clock) : r.season = n}
  BY <1>5 DEF OfSeason
<1>7. LastRows(clock)' = LastRows(clock)
  BY <1>1, <1>2 DEF LastRows, Past, SeasonsBefore
<1>. QED  BY <1>1, <1>2, <1>4, <1>5, <1>6, <1>7

LEMMA RoundAges ==
  ASSUME ClockInv, FoldRound
  PROVE  /\ \A r \in Folded : Age(r)' = Age(r) + 1
         /\ \A r \in RowsAt(clock) : Age(r)' = 0
<1>0. /\ clock \in Keys /\ WellFormed(history)
      /\ WalkedKeys' = WalkedKeys \cup {clock} /\ clock \notin WalkedKeys
      /\ ~Closed
  BY RoundFolded DEF ClockInv
<1>1. IsFiniteSet(Keys) /\ \A k \in Keys : k \in Nat \X Nat
  BY <1>0, RowsHaveKeys
<1>2. \A j \in WalkedKeys : j \in Keys /\ Earlier(j, clock)
  BY <1>0 DEF WalkedKeys
<1>3. ASSUME NEW r \in Folded PROVE Age(r)' = Age(r) + 1
  <2>. DEFINE A == {j \in WalkedKeys : Earlier(Key(r), j)}
  <2>1. Earlier(Key(r), clock)
    BY <1>2 DEF Folded
  <2>2. A' = A \cup {clock} /\ clock \notin A
    BY <1>0, <2>1 DEF FoldRound
  <2>3. IsFiniteSet(A)
    <3>1. A \in SUBSET Keys
      BY <1>2
    <3>. QED  BY <1>1, <3>1, FS_Subset
  <2>. HIDE DEF A
  <2>4. Cardinality(A \cup {clock}) = Cardinality(A) + 1
    BY <2>2, <2>3, FS_AddElement
  <2>5. Cardinality(A)' = Cardinality(A) + 1
    BY <2>2, <2>4
  <2>. QED  BY <2>5 DEF Age, A
<1>4. ASSUME NEW r \in RowsAt(clock) PROVE Age(r)' = 0
  <2>1. \A j \in WalkedKeys \cup {clock} : ~Earlier(clock, j)
    BY <1>0, <1>1, <1>2, EarlierIsAnOrder
  <2>2. Key(r) = clock
    BY DEF RowsAt
  <2>3. {j \in WalkedKeys : Earlier(Key(r), j)}' = {}
    BY <1>0, <2>1, <2>2
  <2>. QED  BY <2>3, FS_EmptySet DEF Age
<1>. QED  BY <1>3, <1>4

LEMMA KeptFold ==
  ASSUME KeptInv, FoldRound
  PROVE  KeptInv'
<1>0. ClockInv /\ AccInv /\ LastInv /\ AgeInv /\ WellFormed(history)
  BY DEF KeptInv, ClockInv
<1>1. /\ clock \in Keys /\ clock' = clock /\ history' = history /\ params' = params /\ Keys' = Keys
      /\ Folded' = Folded \cup RowsAt(clock) /\ Folded \cap RowsAt(clock) = {}
      /\ OfSeason(clock[1])' = OfSeason(clock[1]) \cup RowsAt(clock)
      /\ LastRows(clock)' = LastRows(clock)
      /\ \A r \in RowsAt(clock) : r \in ToSet(history) /\ r.season = clock[1] /\ r.round = clock[2]
  <2>1. \A r \in RowsAt(clock) : r \in ToSet(history) /\ r.season = clock[1] /\ r.round = clock[2]
    BY <1>0, RowsHaveKeys DEF RowsAt
  <2>. QED  BY <1>0, <2>1, RoundFolded
<1>2. /\ decayed' = IF params.decaying THEN DecayedWith(RowsOf(clock)) ELSE decayed
      /\ career' = With(career, RowsOf(clock))
      /\ seasonAcc' = With(seasonAcc, RowsOf(clock))
      /\ strength' = strength \cup ToSet(RowsOf(clock))
      /\ lastSeason' = lastSeason /\ priors' = priors
  BY DEF FoldRound
<1>3. Lists(RowsOf(clock), RowsAt(clock)) /\ ToSet(RowsOf(clock)) = RowsAt(clock)
      /\ RowsOf(clock) \in Seq(ToSet(history))
  BY <1>0, RowsOfAKey
<1>4. ClockInv'
  BY <1>0, <1>1, RoundFolded DEF ClockInv
<1>5. LastInv'
  BY <1>0, <1>1, <1>2 DEF LastInv
<1>6. AgeInv'
  <2>1. SUFFICES ASSUME params.decaying PROVE (decayed = {<<r, Age(r)>> : r \in Folded})'
    BY <1>1 DEF AgeInv
  <2>2. decayed = {<<r, Age(r)>> : r \in Folded}
    BY <1>0, <2>1 DEF AgeInv
  <2>3. decayed' = {<<x[1], x[2] + 1>> : x \in decayed} \cup {<<r, 0>> : r \in RowsAt(clock)}
    BY <1>2, <1>3, <2>1 DEF DecayedWith, Aged
  <2>4. {<<x[1], x[2] + 1>> : x \in decayed} = {<<r, Age(r) + 1>> : r \in Folded}
    <3>1. ASSUME NEW x \in decayed PROVE \E r \in Folded : <<x[1], x[2] + 1>> = <<r, Age(r) + 1>>
      <4>1. PICK r \in Folded : x = <<r, Age(r)>>
        BY <2>2, <3>1
      <4>. QED  BY <4>1
    <3>2. ASSUME NEW r \in Folded PROVE \E x \in decayed : <<x[1], x[2] + 1>> = <<r, Age(r) + 1>>
      <4>1. <<r, Age(r)>> \in decayed
        BY <2>2
      <4>. QED  BY <4>1
    <3>. QED  BY <3>1, <3>2
  <2>5. {<<r, Age(r)'>> : r \in Folded \cup RowsAt(clock)}
          = {<<r, Age(r) + 1>> : r \in Folded} \cup {<<r, 0>> : r \in RowsAt(clock)}
    BY <1>0, RoundAges
  <2>. QED  BY <1>1, <2>3, <2>4, <2>5
<1>7. AccInv'
  <2>1. OfSeason(clock[1]) \cap RowsAt(clock) = {}
    BY <1>1 DEF OfSeason
  <2>2. AccIs(career', Folded')
    BY <1>0, <1>1, <1>2, <1>3, AccWith DEF AccInv
  <2>3. /\ AccIs(seasonAcc', OfSeason(clock[1])')
        /\ \A p \in DOMAIN seasonAcc' : \E I \in SUBSET DOMAIN RowsOf(clock) :
               seasonAcc'[p] = At(seasonAcc, p) \o Picked(RowsOf(clock), I)
    <3>1. AccIs(seasonAcc, OfSeason(clock[1]))
      BY <1>0 DEF AccInv
    <3>. DEFINE w == With(seasonAcc, RowsOf(clock))
    <3>2. /\ AccIs(w, OfSeason(clock[1]) \cup RowsAt(clock))
          /\ \A p \in DOMAIN w : \E I \in SUBSET DOMAIN RowsOf(clock) :
                w[p] = At(seasonAcc, p) \o Picked(RowsOf(clock), I)
      BY <1>3, <2>1, <3>1, AccWith
    <3>3. seasonAcc' = w /\ OfSeason(clock[1])' = OfSeason(clock[1]) \cup RowsAt(clock)
      BY <1>1, <1>2
    <3>. HIDE DEF w
    <3>. QED  BY <3>2, <3>3
  <2>4. ASSUME NEW p \in DOMAIN seasonAcc' PROVE InRoundOrder(seasonAcc'[p])
    <3>. DEFINE s == At(seasonAcc, p)
    <3>1. PICK I \in SUBSET DOMAIN RowsOf(clock) : seasonAcc'[p] = s \o Picked(RowsOf(clock), I)
      BY <2>3
    <3>. DEFINE t == Picked(RowsOf(clock), I)
    <3>2. t \in Seq(ToSet(history)) /\ ToSet(t) \subseteq RowsAt(clock)
      <4>1. t \in Seq(ToSet(history)) /\ ToSet(t) = {RowsOf(clock)[i] : i \in I}
        BY <1>3, PickedIs
      <4>2. \A i \in DOMAIN RowsOf(clock) : RowsOf(clock)[i] \in RowsAt(clock)
        BY <1>3 DEF Lists
      <4>. HIDE DEF t
      <4>. QED  BY <4>1, <4>2
    <3>3. InRoundOrder(s)
      <4>1. CASE p \in DOMAIN seasonAcc
        BY <1>0, <4>1 DEF AccInv, At
      <4>2. CASE p \notin DOMAIN seasonAcc
        BY <4>2 DEF At, InRoundOrder
      <4>. QED  BY <4>1, <4>2
    <3>4. Lists(s, {r \in OfSeason(clock[1]) : r.player = p})
      BY <1>0, AccAt DEF AccInv
    <3>5. \A i \in DOMAIN s : s[i].round \in Nat /\ s[i].round <= clock[2]
      <4>1. \A r \in OfSeason(clock[1]) : r.round \in Nat /\ r.round <= clock[2]
        <5>1. clock \in Nat \X Nat /\ \A r \in ToSet(history) : Key(r)[1] = r.season /\ Key(r)[2] = r.round /\ r.round \in Nat
          BY <1>0, <1>1, RowsHaveKeys
        <5>2. \A r \in OfSeason(clock[1]) : r \in ToSet(history) /\ r.season = clock[1]
                                            /\ (Earlier(Key(r), clock) \/ Key(r) = clock)
          BY DEF OfSeason, Folded, WalkedKeys
        <5>. QED  BY <5>1, <5>2 DEF Earlier
      <4>. QED  BY <3>4, <4>1 DEF Lists
    <3>6. \A i \in DOMAIN t : t[i].round = clock[2]
      BY <1>1, <3>2 DEF ToSet
    <3>7. /\ Len(s) \in Nat /\ Len(t) \in Nat /\ DOMAIN s = 1..Len(s) /\ DOMAIN t = 1..Len(t)
          /\ DOMAIN (s \o t) = 1..(Len(s) + Len(t))
          /\ \A i \in 1..(Len(s) + Len(t)) : (s \o t)[i] = IF i <= Len(s) THEN s[i] ELSE t[i - Len(s)]
      <4>1. s \in Seq(ToSet(history))
        BY <3>4 DEF Lists, OfSeason, Folded
      <4>. HIDE DEF s, t
      <4>2. s \o t \in Seq(ToSet(history)) /\ Len(s \o t) = Len(s) + Len(t)
        BY <3>2, <4>1, ConcatProperties
      <4>. QED  BY <3>2, <4>1, <4>2, ConcatProperties, DomainOfSeq
    <3>. HIDE DEF s, t
    <3>8. \A i, j \in 1..(Len(s) + Len(t)) : i < j => (s \o t)[i].round <= (s \o t)[j].round
      <4>. TAKE i, j \in 1..(Len(s) + Len(t))
      <4>1. SUFFICES ASSUME i < j PROVE (s \o t)[i].round <= (s \o t)[j].round
        OBVIOUS
      <4>2. CASE j <= Len(s)
        BY <3>3, <3>7, <4>1, <4>2 DEF InRoundOrder
      <4>3. CASE ~(j <= Len(s))
        <5>1. j - Len(s) \in 1..Len(t)
          BY <3>7, <4>3
        <5>2. (s \o t)[j].round = clock[2]
          BY <3>6, <3>7, <4>3, <5>1
        <5>3. clock[2] \in Nat
          <6>1. clock \in Nat \X Nat
            BY <1>0, <1>1, RowsHaveKeys
          <6>. QED  BY <6>1
        <5>4. CASE i <= Len(s)
          BY <3>5, <3>7, <5>2, <5>4
        <5>5. CASE ~(i <= Len(s))
          <6>1. i - Len(s) \in 1..Len(t)
            BY <3>7, <5>5
          <6>2. (s \o t)[i].round = clock[2]
            BY <3>6, <3>7, <5>5, <6>1
          <6>. QED  BY <5>2, <5>3, <6>2
        <5>. QED  BY <5>4, <5>5
      <4>. QED  BY <4>2, <4>3
    <3>. QED  BY <3>1, <3>7, <3>8 DEF InRoundOrder, t
  <2>5. strength' = OfSeason(clock[1])'
    BY <1>0, <1>1, <1>2, <1>3 DEF AccInv
  <2>. QED  BY <1>1, <2>2, <2>3, <2>4, <2>5 DEF AccInv
<1>. QED  BY <1>4, <1>5, <1>6, <1>7 DEF KeptInv

(* What is yielded depends on what is kept alone.                          *)
LEMMA ScoresKept ==
  ASSUME UNCHANGED kept
  PROVE  /\ ScoredRows(RowsOf(clock))' = ScoredRows(RowsOf(clock))
         /\ Future' = Future
<1>1. /\ history' = history /\ params' = params /\ clock' = clock /\ career' = career
      /\ seasonAcc' = seasonAcc /\ lastSeason' = lastSeason /\ decayed' = decayed
      /\ strength' = strength /\ priors' = priors
  BY DEF kept
<1>2. ASSUME NEW s, NEW c PROVE LaggedStartRate(s, c)' = LaggedStartRate(s, c)
  BY <1>1 DEF LaggedStartRate, Starts, StartMatches, Total, Labelled, Started
<1>3. ASSUME NEW s, NEW c PROVE LaggedSubRate(s, c)' = LaggedSubRate(s, c)
  BY <1>1 DEF LaggedSubRate, NotBelowZero, Starts, StartMatches, StartAppearances, Total, Labelled, Started
<1>4. ASSUME NEW s, NEW c PROVE Behaviour(s, c)' = Behaviour(s, c)
  BY <1>1 DEF Behaviour, Starts, Total, Started
<1>5. ASSUME NEW p, NEW n PROVE FeaturesFor(p, n)' = FeaturesFor(p, n)
  BY <1>1, <1>2, <1>3, <1>4 DEF FeaturesFor
<1>6. ASSUME NEW r PROVE GoalRates(r)' = GoalRates(r)
  BY <1>1 DEF GoalRates, TargetFor
<1>7. ASSUME NEW r, NEW n PROVE Scored(r, n)' = Scored(r, n)
  BY <1>5, <1>6 DEF Scored
<1>8. ASSUME NEW rows PROVE ScoredRows(rows)' = ScoredRows(rows)
  BY <1>1, <1>7 DEF ScoredRows
<1>9. ASSUME NEW k PROVE RowsOf(k)' = RowsOf(k)
  BY <1>1 DEF RowsOf
<1>10. ScoredRows(RowsOf(clock))' = ScoredRows(RowsOf(clock))
  BY <1>1, <1>8, <1>9
<1>11. Keys' = Keys
  BY <1>1 DEF Keys
<1>12. Future' = Future
  <2>. DEFINE A == {n \in clock[2] + 1 .. clock[2] + params.horizon - 1 : <<clock[1], n>> \in Keys}
              at(B, i) == CHOOSE n \in B : Cardinality({m \in B : m < n}) = i - 1
              S(n) == ScoredRows(RowsOf(<<clock[1], n>>))
              F(B) == [i \in 1..Cardinality(B) |-> [round |-> at(B, i), items |-> S(at(B, i))]]
  <2>1. A' = A
    BY <1>1, <1>11
  <2>2. \A n : S(n)' = S(n)
    BY <1>1, <1>8, <1>9
  <2>3. Future = F(A)
    BY DEF Future
  <2>4. Future' = F(A)'
    BY DEF Future
  <2>. HIDE DEF A, S
  <2>. QED  BY <2>1, <2>2, <2>3, <2>4
<1>. QED  BY <1>10, <1>12

LEMMA InitKept == ForecastInit => WalkInv
<1>1. SUFFICES ASSUME ForecastInit PROVE WalkInv
  OBVIOUS
<1>2. NothingWalked /\ params \in Parameters /\ WellFormed(history)
  <2>1. CASE WalkInit
    BY <2>1, HistoriesAssumption DEF WalkInit
  <2>2. CASE /\ call \in Calls /\ params \in Parameters /\ NothingWalked
             /\ \E h \in Histories : history = h \o SyntheticRowsFor(call)
    BY <2>2, CallsAssumption
  <2>. QED  BY <1>1, <2>1, <2>2 DEF ForecastInit
<1>3. Closed /\ clock = Start
  BY <1>2 DEF NothingWalked, Closed
<1>4. WalkedKeys = {} /\ Folded = {} /\ OfSeason(clock[1]) = {} /\ Past(clock) = {} /\ LastRows(clock) = {}
  <2>1. WalkedKeys = {}
    BY <1>2, <1>3, NothingBeforeTheStart DEF WalkedKeys
  <2>2. Past(clock) = {}
    BY <1>2, <1>3, NothingBeforeTheStart, RowsHaveKeys DEF Past
  <2>. QED  BY <2>1, <2>2 DEF Folded, OfSeason, LastRows
<1>5. ClockInv
  BY <1>2, <1>3 DEF ClockInv
<1>6. AccInv
  BY <1>2, <1>4, AccOfNothing DEF NothingWalked, AccInv
<1>7. LastInv
  <2>1. [p \in DOMAIN lastSeason |-> lastSeason[p][2]] = <<>>
    BY <1>2 DEF NothingWalked
  <2>. QED  BY <1>2, <1>4, <2>1, AccOfNothing DEF NothingWalked, LastInv, SeasonPriors
<1>8. AgeInv
  BY <1>2, <1>4 DEF NothingWalked, AgeInv
<1>9. ContextInv
  BY <1>2 DEF NothingWalked, ContextInv
<1>. QED  BY <1>5, <1>6, <1>7, <1>8, <1>9 DEF KeptInv, WalkInv

(* Which of the walk's operators a step of either consumer is.             *)
LEMMA StepsOfTheWalk ==
  ASSUME [ForecastNext]_forecastVars
  PROVE  \/ BeginRound \/ Yield \/ FoldRound
         \/ Project \/ Export \/ FinishBacktest \/ Serve \/ FinishForecast
         \/ UNCHANGED forecastVars
  BY DEF ForecastNext, WalkNext

LEMMA StepKept == WalkInv /\ [ForecastNext]_forecastVars => WalkInv'
<1>. SUFFICES ASSUME WalkInv, [ForecastNext]_forecastVars PROVE WalkInv'
  OBVIOUS
<1>0. KeptInv /\ ContextInv
  BY DEF WalkInv
<1>1. CASE BeginRound
  <2>1. step' = "score"
    BY <1>1 DEF BeginRound
  <2>2. ContextInv'
    BY <2>1 DEF ContextInv
  <2>. QED  BY <1>0, <1>1, <2>2, KeptBegin DEF WalkInv
<1>2. CASE FoldRound
  <2>1. step' = "begin"
    BY <1>2 DEF FoldRound
  <2>2. ContextInv'
    BY <2>1 DEF ContextInv
  <2>. QED  BY <1>0, <1>2, <2>2, KeptFold DEF WalkInv
<1>3. CASE Yield
  <2>1. /\ step = "score" /\ step' = "project" /\ UNCHANGED kept
        /\ items' = ScoredRows(RowsOf(clock)) /\ future' = Future
    BY <1>3 DEF Yield, kept
  <2>2. Closed' <=> Closed
    BY <2>1 DEF Closed
  <2>3. ContextInv'
    BY <2>1, ScoresKept DEF ContextInv
  <2>. QED  BY <1>0, <2>1, <2>2, <2>3, KeptOnAStep DEF WalkInv
<1>4. ASSUME UNCHANGED kept, Closed' <=> Closed,
             step' \in {"project", "export"} => step \in {"project", "export"} /\ UNCHANGED <<items, future>>
      PROVE  WalkInv'
  <2>1. ContextInv'
    BY <1>0, <1>4, ScoresKept DEF ContextInv
  <2>. QED  BY <1>0, <1>4, <2>1, KeptOnAStep DEF WalkInv
<1>5. CASE Project
  BY <1>4, <1>5 DEF Project, kept, Closed
<1>6. CASE Export
  BY <1>4, <1>6 DEF Export, kept, Closed
<1>7. CASE FinishBacktest
  BY <1>4, <1>7 DEF FinishBacktest, kept, Closed
<1>8. CASE Serve
  BY <1>4, <1>8 DEF Serve, kept, Closed
<1>9. CASE FinishForecast
  BY <1>4, <1>9 DEF FinishForecast, kept, Closed
<1>10. CASE UNCHANGED forecastVars
  BY <1>4, <1>10 DEF forecastVars, walkVars, kept, Closed
<1>. QED  BY <1>1, <1>2, <1>3, <1>5, <1>6, <1>7, <1>8, <1>9, <1>10, StepsOfTheWalk

(* What the walk keeps is of the rounds folded, each row once, whichever   *)
(* consumer it is walked for: walkRounds (features.ts), for every history, *)
(* every horizon and both kinds of parameters.                             *)
THEOREM WalkKeepsThePast == ForecastSpec => []WalkInv
  BY InitKept, StepKept, PTL DEF ForecastSpec

-----------------------------------------------------------------------------
(* What is yielded rests on the rounds before.                             *)

LEMMA YieldedOfThePast ==
  ASSUME WalkInv, step = "project"
  PROVE  /\ WellFormed(history) /\ clock \in Keys /\ clock \in Nat \X Nat
         /\ WalkedKeys = {j \in Keys : Earlier(j, clock)}
         /\ Folded = Past(clock)
         /\ \A x \in Yielded : \E r \in ToSet(history) : x = Scored(r, clock[2])
<1>1. ClockInv /\ ContextInv /\ WellFormed(history) /\ ~Closed
  BY DEF WalkInv, KeptInv, ClockInv, Closed
<1>2. clock \in Keys /\ clock \in Nat \X Nat
  BY <1>1, RowsHaveKeys DEF ClockInv
<1>3. WalkedKeys = {j \in Keys : Earlier(j, clock)}
  BY <1>1 DEF WalkedKeys
<1>4. Folded = Past(clock)
  BY <1>1, <1>3, RowsHaveKeys DEF Folded, Past
<1>5. items = ScoredRows(RowsOf(clock)) /\ future = Future
  BY <1>1 DEF ContextInv
<1>6. ASSUME NEW k, NEW j \in DOMAIN ScoredRows(RowsOf(k))
      PROVE  \E r \in ToSet(history) : ScoredRows(RowsOf(k))[j] = Scored(r, clock[2])
  <2>1. RowsOf(k) \in Seq(ToSet(history))
    BY <1>1, RowsOfAKey
  <2>2. j \in DOMAIN RowsOf(k) /\ ScoredRows(RowsOf(k))[j] = Scored(RowsOf(k)[j], clock[2])
    BY DEF ScoredRows
  <2>. QED  BY <2>1, <2>2
<1>7. \A i \in DOMAIN Future : \E k : Future[i].items = ScoredRows(RowsOf(k))
  BY DEF Future
<1>8. ASSUME NEW x \in Yielded PROVE \E r \in ToSet(history) : x = Scored(r, clock[2])
  <2>1. CASE \E i \in DOMAIN items : x = items[i]
    BY <1>5, <1>6, <2>1
  <2>2. CASE \E i \in DOMAIN future : \E j \in DOMAIN future[i].items : x = future[i].items[j]
    BY <1>5, <1>6, <1>7, <2>2
  <2>. QED  BY <2>1, <2>2 DEF Yielded
<1>. QED  BY <1>1, <1>2, <1>3, <1>4, <1>8

LEMMA StrengthFollows == WalkInv => StrengthIsOfThisSeason
<1>. SUFFICES ASSUME WalkInv, step = "project", NEW x \in Yielded
              PROVE  LET now == {r \in Past(clock) : r.season = clock[1]}
                         last == {r \in Past(clock) : \A s \in SeasonsBefore(clock) : s <= r.season} \ now
                     IN  /\ x.rates.own = ClubIn(now, x.row.team)
                         /\ x.rates.opp = ClubIn(now, x.row.opp)
                         /\ x.row.team \in Clubs(last) /\ Cardinality(Clubs(last)) >= MinClubs =>
                               x.rates.targets[1] = ClubIn(last, x.row.team).matches
                         /\ Cardinality(Clubs(last)) < MinClubs => x.rates.targets = <<{}, {}>>
  BY DEF StrengthIsOfThisSeason
<1>. DEFINE now == {r \in Past(clock) : r.season = clock[1]}
            last == {r \in Past(clock) : \A s \in SeasonsBefore(clock) : s <= r.season} \ now
<1>1. /\ WellFormed(history) /\ clock \in Nat \X Nat
      /\ Folded = Past(clock)
      /\ \E r \in ToSet(history) : x = Scored(r, clock[2])
  BY YieldedOfThePast
<1>2. x.rates = GoalRates(x.row)
  BY <1>1 DEF Scored
<1>3. strength = now
  BY <1>1 DEF WalkInv, KeptInv, AccInv, OfSeason
<1>4. last = LastRows(clock)
  <2>1. \A r \in Past(clock) : r.season \in Nat /\ r.round \in Nat /\ Key(r)[1] = r.season /\ Earlier(Key(r), clock)
    BY <1>1, RowsHaveKeys DEF Past
  <2>2. \A r \in Past(clock) : r.season < clock[1] <=> r.season # clock[1]
    BY <1>1, <2>1 DEF Earlier
  <2>. QED  BY <2>2 DEF LastRows
<1>5. priors = SeasonPriors(last)
  BY <1>4 DEF WalkInv, KeptInv, LastInv
<1>. HIDE DEF now, last
<1>6. x.rates.own = ClubIn(now, x.row.team) /\ x.rates.opp = ClubIn(now, x.row.opp)
      /\ x.rates.targets = <<TargetFor(x.row.team), TargetFor(x.row.opp)>>
  BY <1>2, <1>3 DEF GoalRates
<1>7. ASSUME Cardinality(Clubs(last)) < MinClubs PROVE x.rates.targets = <<{}, {}>>
  <2>1. priors = {}
    BY <1>5, <1>7 DEF SeasonPriors
  <2>2. Clubs(priors) = {}
    BY <2>1 DEF Clubs
  <2>3. \A t : TargetFor(t) = {}
    BY <2>1, <2>2 DEF TargetFor
  <2>. QED  BY <1>6, <2>3
<1>8. ASSUME x.row.team \in Clubs(last), Cardinality(Clubs(last)) >= MinClubs
      PROVE  x.rates.targets[1] = ClubIn(last, x.row.team).matches
  <2>1. IsFiniteSet(Clubs(last))
    <3>1. last \in SUBSET ToSet(history) /\ IsFiniteSet(ToSet(history))
      BY <1>1, RowsHaveKeys DEF last, Past
    <3>. DEFINE f == [r \in last |-> r.team]
    <3>2. f \in Surjection(last, {r.team : r \in last})
      BY DEF Surjection
    <3>3. IsFiniteSet({r.team : r \in last})
      <4>1. IsFiniteSet(last)
        BY <3>1, FS_Subset
      <4>. HIDE DEF f
      <4>. QED  BY <3>2, <4>1, FS_Surjection
    <3>4. Clubs(last) \in SUBSET {r.team : r \in last}
      BY DEF Clubs
    <3>. QED  BY <3>3, <3>4, FS_Subset
  <2>2. Cardinality(Clubs(last)) \in Nat /\ MinClubs \in Nat
    BY <2>1, FS_CardinalityType, WalkAssumption
  <2>3. ~(Cardinality(Clubs(last)) < MinClubs)
    BY <1>8, <2>2
  <2>4. priors = last
    BY <1>5, <2>3 DEF SeasonPriors
  <2>5. TargetFor(x.row.team) = ClubIn(last, x.row.team).matches
    BY <1>8, <2>4 DEF TargetFor
  <2>. QED  BY <1>6, <2>5
<1>. QED  BY <1>6, <1>7, <1>8 DEF now, last

(* A fixture's rates are of this season's rounds before it, shrunk to the  *)
(* ratings last season ended with (strength.ts over features.ts:394,510),  *)
(* for every history walked and for the served forecast.                   *)
THEOREM StrengthIsOfThisSeasonAlways == ForecastSpec => []StrengthIsOfThisSeason
  BY WalkKeepsThePast, StrengthFollows, PTL

-----------------------------------------------------------------------------
(* Counts of starts.                                                       *)

LEMMA StartedIsInt ==
  ASSUME WellFormed(history)
  PROVE  \A r \in ToSet(history) : Started(r) \in Int
  BY DEF WellFormed, Started

(* What an accumulator counts is the count of the rows it holds.           *)
LEMMA CountOfAList ==
  ASSUME WellFormed(history), NEW T \in SUBSET ToSet(history), NEW s, Lists(s, T)
  PROVE  /\ Count(T) = <<Starts(s), StartMatches(s)>>
         /\ Starts(s) \in Int /\ StartMatches(s) \in Nat
<1>. DEFINE f == [i \in DOMAIN s |-> Started(s[i])]
            g == [r \in T |-> Started(r)]
            C == {r \in T : Labelled(r)}
<1>1. s \in Bijection(DOMAIN s, T) /\ IsFiniteSet(DOMAIN s) /\ s \in Seq(T)
  BY ListOfAll, DomainOfSeq DEF Lists
<1>2. \A i \in DOMAIN s : s[i] \in T
  BY <1>1
<1>3. \A r \in T : Started(r) \in Int
  BY StartedIsInt
<1>4. \A i \in DOMAIN s : f[i] \in Int /\ f[i] = g[s[i]]
  BY <1>2, <1>3
<1>5. Starts(s) = SumFunctionOnSet(f, DOMAIN s)
  BY DEF Starts, Total
<1>. HIDE DEF f, g
<1>6. Starts(s) = SumFunctionOnSet(g, T) /\ Starts(s) \in Int
  BY <1>1, <1>4, <1>5, SumImage, SumInt
<1>7. StartMatches(s) = Cardinality(C) /\ StartMatches(s) \in Nat
  <2>1. {i \in DOMAIN s : Labelled(s[i])} = {i \in DOMAIN s : s[i] \in C}
    BY <1>2
  <2>2. C \in SUBSET T
    OBVIOUS
  <2>. HIDE DEF C
  <2>3. StartMatches(s) = Cardinality(C)
    BY <1>1, <2>1, <2>2, CountImage DEF StartMatches
  <2>4. IsFiniteSet(C)
    <3>1. IsFiniteSet(T)
      BY ListOfAll
    <3>. QED  BY <2>2, <3>1, FS_Subset
  <2>. QED  BY <2>3, <2>4, FS_CardinalityType
<1>. QED  BY <1>6, <1>7 DEF Count, g

(* The career before the season: what is left when it is taken away.       *)
LEMMA CountOfTheRest ==
  ASSUME WellFormed(history), NEW A \in SUBSET ToSet(history), NEW B \in SUBSET A
  PROVE  Count(A \ B) = <<Count(A)[1] - Count(B)[1], Count(A)[2] - Count(B)[2]>>
<1>. DEFINE R == A \ B
            f(S) == [r \in S |-> Started(r)]
            L(S) == {r \in S : Labelled(r)}
<1>1. IsFiniteSet(A) /\ IsFiniteSet(B) /\ IsFiniteSet(R) /\ A = R \cup B /\ R \cap B = {}
  <2>1. IsFiniteSet(ToSet(history))
    BY RowsHaveKeys
  <2>2. IsFiniteSet(A)
    BY <2>1, FS_Subset
  <2>3. IsFiniteSet(B) /\ IsFiniteSet(R)
    BY <2>2, FS_Subset
  <2>. QED  BY <2>2, <2>3
<1>2. \A r \in A : Started(r) \in Int
  BY StartedIsInt
<1>3. SumFunctionOnSet(f(A), R \cup B) = SumFunctionOnSet(f(A), R) + SumFunctionOnSet(f(A), B)
  <2>1. \A x \in R \cup B : f(A)[x] \in Int
    BY <1>2
  <2>. HIDE DEF f, R
  <2>. QED  BY <1>1, <2>1, SumSplit
<1>4. SumFunctionOnSet(f(A), R) = SumFunctionOnSet(f(R), R)
  <2>1. \A x \in R : f(A)[x] \in Int /\ f(A)[x] = f(R)[x]
    BY <1>2
  <2>. HIDE DEF f, R
  <2>. QED  BY <1>1, <2>1, SumSame
<1>5. SumFunctionOnSet(f(A), B) = SumFunctionOnSet(f(B), B)
  <2>1. \A x \in B : f(A)[x] \in Int /\ f(A)[x] = f(B)[x]
    BY <1>2
  <2>. HIDE DEF f
  <2>. QED  BY <1>1, <2>1, SumSame
<1>6. SumFunctionOnSet(f(R), R) \in Int /\ SumFunctionOnSet(f(B), B) \in Int
  <2>1. \A x \in R : f(R)[x] \in Int
    BY <1>2
  <2>2. \A x \in B : f(B)[x] \in Int
    BY <1>2
  <2>. HIDE DEF f, R
  <2>. QED  BY <1>1, <2>1, <2>2, SumInt
<1>7. Cardinality(L(A)) = Cardinality(L(R)) + Cardinality(L(B))
      /\ Cardinality(L(R)) \in Nat /\ Cardinality(L(B)) \in Nat
  <2>1. L(A) = L(R) \cup L(B) /\ L(R) \cap L(B) = {}
    OBVIOUS
  <2>2. IsFiniteSet(L(R)) /\ IsFiniteSet(L(B))
    BY <1>1, FS_Subset
  <2>. HIDE DEF L, R
  <2>3. Cardinality(L(R) \cup L(B)) = Cardinality(L(R)) + Cardinality(L(B)) - Cardinality({})
    BY <2>1, <2>2, FS_Union
  <2>4. Cardinality({}) = 0 /\ Cardinality(L(R)) \in Nat /\ Cardinality(L(B)) \in Nat
    BY <2>2, FS_EmptySet, FS_CardinalityType
  <2>. QED  BY <2>1, <2>3, <2>4
<1>8. \A S : Count(S) = <<SumFunctionOnSet(f(S), S), Cardinality(L(S))>>
  BY DEF Count
<1>. HIDE DEF f, L, R
<1>9. Count(A)[1] = SumFunctionOnSet(f(R), R) + SumFunctionOnSet(f(B), B)
  BY <1>1, <1>3, <1>4, <1>5, <1>8
<1>10. /\ Count(B)[1] = SumFunctionOnSet(f(B), B) /\ Count(B)[2] = Cardinality(L(B))
       /\ Count(R)[1] = SumFunctionOnSet(f(R), R) /\ Count(R)[2] = Cardinality(L(R))
       /\ Count(A)[2] = Cardinality(L(A))
       /\ Count(R) = <<Count(R)[1], Count(R)[2]>>
  BY <1>8
<1>11. Count(R)[1] = Count(A)[1] - Count(B)[1] /\ Count(R)[2] = Count(A)[2] - Count(B)[2]
  BY <1>6, <1>7, <1>9, <1>10
<1>. QED  BY <1>10, <1>11 DEF R

(* What is held of a player when a round is scored.                        *)
LEMMA HeldOfAPlayer ==
  ASSUME WalkInv, step = "project", NEW p
  PROVE  /\ Lists(At(career, p), PastOf(p, clock))
         /\ Lists(At(seasonAcc, p), ThisSeason(p, clock))
         /\ InRoundOrder(At(seasonAcc, p))
         /\ PastOf(p, clock) \in SUBSET ToSet(history)
         /\ ThisSeason(p, clock) \in SUBSET PastOf(p, clock)
<1>1. Folded = Past(clock) /\ AccInv
  BY YieldedOfThePast DEF WalkInv, KeptInv
<1>2. {r \in Folded : r.player = p} = PastOf(p, clock)
      /\ {r \in OfSeason(clock[1]) : r.player = p} = ThisSeason(p, clock)
  BY <1>1 DEF PastOf, ThisSeason, OfSeason
<1>3. Lists(At(career, p), PastOf(p, clock)) /\ Lists(At(seasonAcc, p), ThisSeason(p, clock))
  BY <1>1, <1>2, AccAt DEF AccInv
<1>4. InRoundOrder(At(seasonAcc, p))
  <2>1. CASE p \in DOMAIN seasonAcc
    BY <1>1, <2>1 DEF AccInv, At
  <2>2. CASE p \notin DOMAIN seasonAcc
    BY <2>2 DEF At, InRoundOrder
  <2>. QED  BY <2>1, <2>2
<1>5. PastOf(p, clock) \in SUBSET ToSet(history) /\ ThisSeason(p, clock) \in SUBSET PastOf(p, clock)
  BY DEF PastOf, Past, ThisSeason
<1>. QED  BY <1>3, <1>4, <1>5

(* The form has room for every match of its rounds.                        *)
LEMMA FormFollows ==
  ASSUME WalkInv, step = "project", NEW r \in ToSet(history)
  PROVE  FormIs(FeaturesFor(r.player, clock[2]), r.player, clock)
<1>. DEFINE p == r.player
            s == At(seasonAcc, p)
            T == ThisSeason(p, clock)
            W == {q \in T : q.round >= clock[2] - FormRounds}
            n == 2 * FormRounds
            J == {i \in DOMAIN s : s[i].round >= clock[2] - FormRounds}
            H == {i \in DOMAIN history : /\ history[i].player = p /\ history[i].season = clock[1]
                                         /\ history[i].round < clock[2]
                                         /\ history[i].round >= clock[2] - FormRounds}
<1>0. /\ WellFormed(history) /\ clock \in Keys /\ clock \in Nat \X Nat /\ FormRounds \in Nat \ {0}
      /\ n \in Nat \ {0}
  BY YieldedOfThePast, WalkAssumption
<1>1. Lists(s, T) /\ InRoundOrder(s) /\ T \in SUBSET ToSet(history)
  BY HeldOfAPlayer
<1>2. \A q \in T : /\ q \in ToSet(history) /\ q.player = p /\ q.season = clock[1] /\ q.round \in Nat
                   /\ q.round < clock[2]
  <2>1. \A q \in T : q \in ToSet(history) /\ q.player = p /\ q.season = clock[1] /\ Earlier(Key(q), clock)
    BY DEF ThisSeason, PastOf, Past
  <2>2. \A q \in T : Key(q)[1] = q.season /\ Key(q)[2] = q.round /\ q.round \in Nat
    BY <1>0, <2>1, RowsHaveKeys
  <2>. QED  BY <1>0, <2>1, <2>2 DEF Earlier
<1>3. Cardinality(H) <= n
  <2>1. clock \in {Key(q) : q \in ToSet(history)}
    BY <1>0, RowsHaveKeys
  <2>2. p \in {q.player : q \in ToSet(history)}
    OBVIOUS
  <2>. QED  BY <1>0, <2>1, <2>2 DEF WellFormed
<1>4. Cardinality(J) = Cardinality(H)
  <2>1. history \in Bijection(DOMAIN history, ToSet(history)) /\ IsFiniteSet(DOMAIN history)
    BY <1>0, RowsHaveKeys, ListOfAll, DomainOfSeq
  <2>2. s \in Bijection(DOMAIN s, T) /\ IsFiniteSet(DOMAIN s)
    BY <1>1, ListOfAll, DomainOfSeq DEF Lists
  <2>3. W = {q \in ToSet(history) : q.player = p /\ q.season = clock[1] /\ q.round < clock[2]
                                    /\ q.round >= clock[2] - FormRounds}
    <3>1. ASSUME NEW q \in ToSet(history), q.player = p, q.season = clock[1], q.round < clock[2]
          PROVE  q \in T
      <4>1. Key(q)[1] = q.season /\ Key(q)[2] = q.round /\ q.season \in Nat /\ q.round \in Nat
        BY <1>0, RowsHaveKeys
      <4>2. Earlier(Key(q), clock)
        BY <3>1, <4>1 DEF Earlier
      <4>. QED  BY <3>1, <4>2 DEF ThisSeason, PastOf, Past
    <3>. HIDE DEF T
    <3>. QED  BY <1>2, <3>1
  <2>4. H = {i \in DOMAIN history : history[i] \in W}
    <3>1. \A i \in DOMAIN history : history[i] \in ToSet(history)
      BY DEF ToSet
    <3>. HIDE DEF W
    <3>. QED  BY <2>3, <3>1
  <2>5. J = {i \in DOMAIN s : s[i] \in W}
    <3>1. \A i \in DOMAIN s : s[i] \in T
      BY <1>1 DEF Lists
    <3>. HIDE DEF T, s
    <3>. QED  BY <3>1
  <2>6. W \in SUBSET T /\ W \in SUBSET ToSet(history)
    BY <1>2
  <2>. HIDE DEF W, T, s, H, J
  <2>7. Cardinality({i \in DOMAIN history : history[i] \in W}) = Cardinality(W)
    BY <2>1, <2>6, CountImage
  <2>8. Cardinality({i \in DOMAIN s : s[i] \in W}) = Cardinality(W)
    BY <2>2, <2>6, CountImage
  <2>. QED  BY <2>4, <2>5, <2>7, <2>8
<1>5. /\ s \in Seq(T) /\ DOMAIN s = 1..Len(s) /\ Len(s) \in Nat /\ IsFiniteSet(DOMAIN s)
      /\ \A i \in DOMAIN s : s[i] \in T
  BY <1>1, DomainOfSeq DEF Lists
<1>6. ASSUME NEW i \in J PROVE i > Len(s) - n
  <2>1. i..Len(s) \subseteq J
    <3>1. \A j \in i..Len(s) : j \in DOMAIN s /\ (i = j \/ i < j)
      BY <1>5
    <3>2. \A j \in i..Len(s) : s[i].round <= s[j].round
      BY <1>1, <1>2, <1>5, <3>1 DEF InRoundOrder
    <3>3. \A j \in DOMAIN s : s[j].round \in Nat
      BY <1>2, <1>5
    <3>. HIDE DEF s, T
    <3>. QED  BY <1>0, <3>1, <3>2, <3>3
  <2>2. IsFiniteSet(J) /\ Cardinality(J) <= n /\ Cardinality(J) \in Nat
    <3>1. IsFiniteSet(J)
      BY <1>5, FS_Subset
    <3>. HIDE DEF J, H
    <3>. QED  BY <1>3, <1>4, <3>1, FS_CardinalityType
  <2>3. i \in 1..Len(s)
    BY <1>5
  <2>4. IsFiniteSet(i..Len(s)) /\ Cardinality(i..Len(s)) = Len(s) - i + 1
    <3>1. i \in Int /\ Len(s) \in Int /\ ~(i > Len(s))
      BY <1>5, <2>3
    <3>. HIDE DEF s
    <3>. QED  BY <3>1, FS_Interval
  <2>5. Cardinality(i..Len(s)) <= Cardinality(J)
    <3>. HIDE DEF J, s
    <3>. QED  BY <2>1, <2>2, FS_Subset
  <2>. HIDE DEF J, s, n
  <2>. QED  BY <1>0, <1>5, <2>2, <2>3, <2>4, <2>5
<1>7. ToSet(Recent(s)) = {s[i] : i \in {j \in DOMAIN s : j > Len(s) - n}}
  <2>. HIDE DEF n, s, T
  <2>1. ToSet(LastOf(s, n)) = {s[i] : i \in {j \in DOMAIN s : j > Len(s) - n}}
    BY <1>0, <1>5, LastOfList
  <2>2. Recent(s) = LastOf(s, n)
    BY DEF Recent, n
  <2>. QED  BY <2>1, <2>2
<1>8. {q \in ToSet(Recent(s)) : q.round >= clock[2] - FormRounds} = W
  <2>1. ASSUME NEW q \in ToSet(Recent(s)), q.round >= clock[2] - FormRounds PROVE q \in W
    BY <1>5, <1>7, <2>1
  <2>2. ASSUME NEW q \in W PROVE q \in ToSet(Recent(s)) /\ q.round >= clock[2] - FormRounds
    <3>1. PICK i \in DOMAIN s : s[i] = q
      BY <1>1 DEF Lists
    <3>2. i \in J
      BY <3>1
    <3>. HIDE DEF J, s, n
    <3>. QED  BY <1>6, <1>7, <3>1, <3>2
  <2>. QED  BY <2>1, <2>2
<1>9. FeaturesFor(p, clock[2]).form = {q \in ToSet(Recent(s)) : q.round >= clock[2] - FormRounds}
  BY DEF FeaturesFor
<1>. QED  BY <1>8, <1>9 DEF FormIs

LEMMA RatesFollow ==
  ASSUME WalkInv, step = "project", NEW p
  PROVE  RatesAre(FeaturesFor(p, clock[2]), p, clock)
<1>. DEFINE c == At(career, p)
            rates == IF params.decaying THEN {x \in decayed : x[1].player = p} ELSE {<<r, 0>> : r \in ToSet(c)}
<1>1. FeaturesFor(p, clock[2]).rates = rates
  BY DEF FeaturesFor
<1>2. ToSet(c) = PastOf(p, clock)
  BY HeldOfAPlayer, ListOfAll
<1>3. CASE params.decaying
  <2>1. decayed = {<<r, Age(r)>> : r \in Past(clock)}
    BY <1>3, YieldedOfThePast DEF WalkInv, KeptInv, AgeInv
  <2>2. \A r : Age(r) = Cardinality({j \in Keys : Earlier(Key(r), j) /\ Earlier(j, clock)})
    <3>. TAKE r
    <3>1. {j \in WalkedKeys : Earlier(Key(r), j)} = {j \in Keys : Earlier(Key(r), j) /\ Earlier(j, clock)}
      BY YieldedOfThePast
    <3>. QED  BY <3>1 DEF Age
  <2>3. {x \in decayed : x[1].player = p} = {<<r, Age(r)>> : r \in PastOf(p, clock)}
    <3>1. ASSUME NEW x \in decayed, x[1].player = p PROVE x \in {<<r, Age(r)>> : r \in PastOf(p, clock)}
      <4>1. PICK r \in Past(clock) : x = <<r, Age(r)>>
        BY <2>1
      <4>. QED  BY <3>1, <4>1 DEF PastOf
    <3>2. ASSUME NEW r \in PastOf(p, clock) PROVE <<r, Age(r)>> \in decayed /\ <<r, Age(r)>>[1].player = p
      BY <2>1 DEF PastOf
    <3>. QED  BY <3>1, <3>2
  <2>. QED  BY <1>1, <1>3, <2>2, <2>3 DEF RatesAre
<1>4. CASE ~params.decaying
  BY <1>1, <1>2, <1>4 DEF RatesAre
<1>. QED  BY <1>3, <1>4

LEMMA StartFollows ==
  ASSUME WalkInv, step = "project", NEW p
  PROVE  StartIs(FeaturesFor(p, clock[2]), p, clock)
<1>. DEFINE c == At(career, p)
            s == At(seasonAcc, p)
            f == FeaturesFor(p, clock[2])
            A == PastOf(p, clock)
            B == ThisSeason(p, clock)
<1>1. f.start = LaggedStartRate(s, c)
  BY DEF FeaturesFor
<1>2. /\ Count(A) = <<Starts(c), StartMatches(c)>>
      /\ Count(B) = <<Starts(s), StartMatches(s)>> /\ StartMatches(s) \in Nat
      /\ Count(A \ B) = <<Count(A)[1] - Count(B)[1], Count(A)[2] - Count(B)[2]>>
  <2>1. WellFormed(history) /\ A \in SUBSET ToSet(history) /\ B \in SUBSET A
        /\ Lists(c, A) /\ Lists(s, B)
    BY YieldedOfThePast, HeldOfAPlayer
  <2>. HIDE DEF A, B, c, s
  <2>2. B \in SUBSET ToSet(history)
    BY <2>1
  <2>. QED  BY <2>1, <2>2, CountOfAList, CountOfTheRest
<1>3. params.shrink \in Nat
  BY WalkAssumption DEF WalkInv, KeptInv, ClockInv
<1>. HIDE DEF c, s, f, A, B
<1>4. CASE params.shrink > 0
  <2>1. f.start.own = Count(B) /\ f.start.prior = Count(A \ B)
    BY <1>1, <1>2, <1>3, <1>4 DEF LaggedStartRate
  <2>. QED  BY <1>4, <2>1 DEF StartIs, A, B, f
<1>5. CASE ~(params.shrink > 0)
  <2>1. params.shrink = 0
    BY <1>3, <1>5
  <2>2. f.start.own = IF Count(B)[2] > 0 THEN Count(B) ELSE Count(A)
    BY <1>1, <1>2, <2>1 DEF LaggedStartRate
  <2>. QED  BY <1>5, <2>2 DEF StartIs, A, B, f
<1>. QED  BY <1>4, <1>5

(* As many of a list are of a kind as of the rows it holds.                *)
LEMMA KindsOfAList ==
  ASSUME NEW T, NEW s, Lists(s, T), NEW C \in SUBSET T
  PROVE  Cardinality({i \in DOMAIN s : s[i] \in C}) = Cardinality(C)
<1>1. s \in Bijection(DOMAIN s, T) /\ IsFiniteSet(DOMAIN s)
  BY ListOfAll, DomainOfSeq DEF Lists
<1>. QED  BY <1>1, CountImage

LEMMA AppearancesOfAList ==
  ASSUME NEW T, NEW s, Lists(s, T)
  PROVE  /\ StartAppearances(s) = Cardinality({r \in T : Labelled(r) /\ Played(r)})
         /\ Cardinality({i \in DOMAIN s : Played(s[i])}) = Cardinality({r \in T : Played(r)})
<1>. DEFINE L == {r \in T : Labelled(r) /\ Played(r)}
            P == {r \in T : Played(r)}
<1>1. \A i \in DOMAIN s : s[i] \in T
  BY DEF Lists
<1>2. /\ {i \in DOMAIN s : Labelled(s[i]) /\ Played(s[i])} = {i \in DOMAIN s : s[i] \in L}
      /\ {i \in DOMAIN s : Played(s[i])} = {i \in DOMAIN s : s[i] \in P}
  BY <1>1
<1>3. L \in SUBSET T /\ P \in SUBSET T
  OBVIOUS
<1>. HIDE DEF L, P
<1>4. /\ Cardinality({i \in DOMAIN s : s[i] \in L}) = Cardinality(L)
      /\ Cardinality({i \in DOMAIN s : s[i] \in P}) = Cardinality(P)
  BY <1>3, KindsOfAList
<1>5. StartAppearances(s) = Cardinality(L) /\ Cardinality({i \in DOMAIN s : Played(s[i])}) = Cardinality(P)
  BY <1>2, <1>4 DEF StartAppearances
<1>. QED  BY <1>5 DEF L, P

(* The substitute's record and the starter's, of the season or the career. *)
LEMMA RecordsFollow ==
  ASSUME WalkInv, step = "project", NEW p
  PROVE  /\ SubIs(FeaturesFor(p, clock[2]), p, clock)
         /\ BehaviourIs(FeaturesFor(p, clock[2]), p, clock)
         /\ FeaturesFor(p, clock[2]).appearances = Cardinality({r \in PastOf(p, clock) : Played(r)})
<1>. DEFINE c == At(career, p)
            s == At(seasonAcc, p)
            f == FeaturesFor(p, clock[2])
            A == PastOf(p, clock)
            B == ThisSeason(p, clock)
            L(T) == Cardinality({r \in T : Labelled(r) /\ Played(r)})
<1>1. /\ f.sub = LaggedSubRate(s, c)
      /\ f.behaviour = Behaviour(s, c)
      /\ f.appearances = Cardinality({i \in DOMAIN c : Played(c[i])})
  BY DEF FeaturesFor
<1>2. WellFormed(history) /\ A \in SUBSET ToSet(history) /\ B \in SUBSET ToSet(history)
      /\ Lists(c, A) /\ Lists(s, B)
  BY YieldedOfThePast, HeldOfAPlayer
<1>. HIDE DEF A, B, c, s, f
<1>3. /\ Count(A)[1] = Starts(c) /\ Count(A)[2] = StartMatches(c)
      /\ Count(B)[1] = Starts(s) /\ Count(B)[2] = StartMatches(s)
  BY <1>2, CountOfAList
<1>4. /\ StartAppearances(c) = L(A) /\ StartAppearances(s) = L(B)
      /\ Cardinality({i \in DOMAIN c : Played(c[i])}) = Cardinality({r \in A : Played(r)})
  BY <1>2, AppearancesOfAList
<1>5. ToSet(c) = A /\ ToSet(s) = B
  BY <1>2, ListOfAll
<1>6. SubIs(f, p, clock)
  <2>. DEFINE young == 10 * StartMatches(s) - Starts(s) >= SubShrink
              Sub(n, m, a) == [nonStarts |-> NotBelowZero(10 * m - n), subs |-> NotBelowZero(10 * a - n)]
  <2>1. LaggedSubRate(s, c) = IF young THEN Sub(Starts(s), StartMatches(s), StartAppearances(s))
                              ELSE Sub(Starts(c), StartMatches(c), StartAppearances(c))
    BY DEF LaggedSubRate
  <2>2. f.sub = IF 10 * Count(B)[2] - Count(B)[1] >= SubShrink THEN Sub(Count(B)[1], Count(B)[2], L(B))
                ELSE Sub(Count(A)[1], Count(A)[2], L(A))
    BY <1>1, <1>3, <1>4, <2>1
  <2>. QED  BY <2>2 DEF SubIs, A, B
<1>7. BehaviourIs(f, p, clock)
  <2>1. f.behaviour = {r \in (IF Count(B)[1] >= BehaviourShrink THEN B ELSE A) : Started(r) > 0}
    BY <1>1, <1>3, <1>5 DEF Behaviour
  <2>. QED  BY <2>1 DEF BehaviourIs, A, B
<1>. QED  BY <1>1, <1>4, <1>6, <1>7 DEF A, f

LEMMA PriorFollows ==
  ASSUME WalkInv, step = "project", NEW p
  PROVE  PriorIs(FeaturesFor(p, clock[2]), p, clock)
<1>. DEFINE last == {r \in PastOf(p, clock) : r.season \in SeasonsBefore(clock)
                                                /\ \A s \in SeasonsBefore(clock) : s <= r.season}
            acc == [q \in DOMAIN lastSeason |-> lastSeason[q][2]]
<1>1. FeaturesFor(p, clock[2]).prior = At(lastSeason, p)
  BY DEF FeaturesFor
<1>2. last = {r \in LastRows(clock) : r.player = p}
  <2>1. \A r \in Past(clock) : r.season \in SeasonsBefore(clock) <=> r.season < clock[1]
    <3>1. \A r \in Past(clock) : Key(r) \in Keys /\ Key(r)[1] = r.season
      BY YieldedOfThePast, RowsHaveKeys DEF Past
    <3>. QED  BY <3>1 DEF SeasonsBefore
  <2>. QED  BY <2>1 DEF LastRows, PastOf
<1>3. AccIs(acc, LastRows(clock))
  BY DEF WalkInv, KeptInv, LastInv
<1>. HIDE DEF last
<1>4. CASE last = {}
  <2>1. p \notin DOMAIN acc
    BY <1>2, <1>3, <1>4 DEF AccIs
  <2>2. At(lastSeason, p) = <<>>
    BY <2>1 DEF At
  <2>. QED  BY <1>1, <1>4, <2>2 DEF PriorIs, last
<1>5. CASE last # {}
  <2>1. p \in DOMAIN acc
    BY <1>2, <1>3, <1>5 DEF AccIs
  <2>2. Lists(acc[p], last)
    BY <1>2, <1>3, <2>1 DEF AccIs
  <2>3. ToSet(acc[p]) = last
    BY <2>2, ListOfAll
  <2>4. At(lastSeason, p)[2] = acc[p]
    BY <2>1 DEF At
  <2>. QED  BY <1>1, <1>5, <2>3, <2>4 DEF PriorIs, last
<1>. QED  BY <1>4, <1>5

LEMMA FeaturesFollow == WalkInv => FeaturesAreOfThePast
<1>. SUFFICES ASSUME WalkInv, step = "project", NEW x \in Yielded
              PROVE  LET p == x.row.player
                     IN  /\ FormIs(x.features, p, clock)
                         /\ RatesAre(x.features, p, clock)
                         /\ StartIs(x.features, p, clock)
                         /\ SubIs(x.features, p, clock)
                         /\ BehaviourIs(x.features, p, clock)
                         /\ PriorIs(x.features, p, clock)
                         /\ x.features.matches = Cardinality(PastOf(p, clock))
                         /\ x.features.appearances = Cardinality({r \in PastOf(p, clock) : Played(r)})
  BY DEF FeaturesAreOfThePast
<1>1. PICK r \in ToSet(history) : x = Scored(r, clock[2])
  BY YieldedOfThePast
<1>2. x.row = r /\ x.features = FeaturesFor(r.player, clock[2])
  BY <1>1 DEF Scored
<1>3. x.features.matches = Cardinality(PastOf(r.player, clock))
  <2>1. x.features.matches = Len(At(career, r.player))
    BY <1>2 DEF FeaturesFor
  <2>. QED  BY <2>1, HeldOfAPlayer, ListOfAll
<1>. QED  BY <1>2, <1>3, FormFollows, RatesFollow, StartFollows, RecordsFollow, PriorFollows

(* "Everything that was knowable before its round, computed AT that round" *)
(* (features.ts:260): form, rates, starts, substitutions, appearances and  *)
(* last season are of the rows before the round, all of them and each      *)
(* once, for every history and both consumers of the walk.                 *)
THEOREM FeaturesAreOfThePastAlways == ForecastSpec => []FeaturesAreOfThePast
  BY WalkKeepsThePast, FeaturesFollow, PTL
-----------------------------------------------------------------------------
(* The gameweeks that are asked about.                                     *)

LEMMA SetToSeqLists ==
  ASSUME NEW S, IsFiniteSet(S)
  PROVE  Lists(SetToSeq(S), S)
<1>1. PICK n \in Nat : ExistsBijection(1..n, S)
  BY FS_NatBijection
<1>2. Cardinality(S) = n
  BY <1>1, FS_CountingElements
<1>3. PICK b \in Bijection(1..n, S) : TRUE
  BY <1>1 DEF ExistsBijection
<1>4. b \in [1..n -> S] /\ IsInjective(b)
  BY DEF Bijection, Injection
<1>5. SetToSeq(S) \in [1..n -> S] /\ IsInjective(SetToSeq(S))
  BY <1>2, <1>4 DEF SetToSeq
<1>. DEFINE s == SetToSeq(S)
<1>. HIDE DEF s
<1>6. s \in Injection(1..n, S)
  BY <1>5 DEF Injection, s
<1>7. s \in Surjection(1..n, S)
  <2>1. IsFiniteSet(1..n) /\ Cardinality(1..n) = n
    <3>1. 1 \in Int /\ n \in Int /\ (1 > n => n = 0) /\ n - 1 + 1 = n
      OBVIOUS
    <3>. QED  BY <3>1, FS_Interval
  <2>. QED  BY <1>2, <1>6, <2>1, FS_Injection
<1>8. s \in Seq(S) /\ DOMAIN s = 1..n
  BY <1>6 DEF Injection
<1>9. \A r \in S : \E i \in DOMAIN s : s[i] = r
  BY <1>7, <1>8 DEF Surjection
<1>10. \A i, j \in DOMAIN s : s[i] = s[j] => i = j
  BY <1>6, <1>8 DEF Injection, IsInjective
<1>. QED  BY <1>8, <1>9, <1>10 DEF Lists, s

LEMMA ToSetOfTwo ==
  ASSUME NEW S, NEW s \in Seq(S), NEW t \in Seq(S)
  PROVE  s \o t \in Seq(S) /\ ToSet(s \o t) = ToSet(s) \cup ToSet(t)
<1>. DEFINE u == s \o t
<1>1. /\ u \in Seq(S) /\ Len(u) = Len(s) + Len(t)
      /\ Len(s) \in Nat /\ Len(t) \in Nat
      /\ DOMAIN u = 1..Len(u) /\ DOMAIN s = 1..Len(s) /\ DOMAIN t = 1..Len(t)
      /\ \A i \in 1..Len(u) : u[i] = IF i <= Len(s) THEN s[i] ELSE t[i - Len(s)]
  BY ConcatProperties, DomainOfSeq
<1>. HIDE DEF u
<1>2. ASSUME NEW i \in 1..Len(u) PROVE u[i] \in ToSet(s) \cup ToSet(t)
  <2>1. CASE i <= Len(s)
    BY <1>1, <2>1 DEF ToSet
  <2>2. CASE ~(i <= Len(s))
    <3>1. i - Len(s) \in 1..Len(t)
      BY <1>1, <2>2
    <3>. QED  BY <1>1, <2>2, <3>1 DEF ToSet
  <2>. QED  BY <2>1, <2>2
<1>3. ASSUME NEW i \in 1..Len(s) PROVE s[i] \in ToSet(u)
  <2>1. i \in 1..Len(u) /\ i <= Len(s)
    BY <1>1
  <2>. QED  BY <1>1, <2>1 DEF ToSet
<1>4. ASSUME NEW i \in 1..Len(t) PROVE t[i] \in ToSet(u)
  <2>1. i + Len(s) \in 1..Len(u) /\ ~(i + Len(s) <= Len(s)) /\ i + Len(s) - Len(s) = i
    BY <1>1
  <2>2. u[i + Len(s)] = t[i]
    BY <1>1, <2>1
  <2>. QED  BY <1>1, <2>1, <2>2 DEF ToSet
<1>5. ToSet(u) = ToSet(s) \cup ToSet(t)
  BY <1>1, <1>2, <1>3, <1>4 DEF ToSet
<1>. QED  BY <1>1, <1>5 DEF u

(* Sequences one after the other hold what each of them holds.             *)
LEMMA FlattenIs ==
  ASSUME NEW S, NEW ss \in Seq(Seq(S))
  PROVE  /\ FlattenSeq(ss) \in Seq(S)
         /\ ToSet(FlattenSeq(ss)) = UNION {ToSet(ss[i]) : i \in DOMAIN ss}
<1>. DEFINE n == Len(ss)
            At1(g, i) == IF i = 1 THEN ss[i] ELSE g[i - 1] \o ss[i]
            Is(g, m) == g = [i \in 1..m |-> At1(g, i)]
            flat == CHOOSE g : Is(g, n)
            K == {m \in Nat : \E g : Is(g, m)}
            H == {m \in Nat : m \in 1..n => /\ flat[m] \in Seq(S)
                                            /\ ToSet(flat[m]) = UNION {ToSet(ss[i]) : i \in 1..m}}
<1>1. n \in Nat /\ DOMAIN ss = 1..n /\ \A i \in 1..n : ss[i] \in Seq(S)
  OBVIOUS
<1>2. 0 \in K
  <2>1. Is([i \in 1..0 |-> At1(<<>>, i)], 0)
    OBVIOUS
  <2>. QED  BY <2>1
<1>3. ASSUME NEW m \in Nat, m \in K PROVE m + 1 \in K
  <2>1. PICK g : Is(g, m)
    BY <1>3
  <2>. DEFINE h == [i \in 1..m + 1 |-> IF i = m + 1 THEN At1(g, m + 1) ELSE g[i]]
  <2>2. \A i \in 1..m + 1 : h[i] = At1(h, i)
    <3>. TAKE i \in 1..m + 1
    <3>1. i = 1 \/ i - 1 \in 1..m
      OBVIOUS
    <3>2. i - 1 \in 1..m => h[i - 1] = g[i - 1]
      OBVIOUS
    <3>3. At1(h, i) = At1(g, i)
      BY <3>1, <3>2
    <3>4. i \in 1..m => g[i] = At1(g, i)
      BY <2>1
    <3>5. i = m + 1 \/ i \in 1..m
      OBVIOUS
    <3>. QED  BY <3>3, <3>4, <3>5
  <2>3. Is(h, m + 1)
    BY <2>2
  <2>. HIDE DEF h, Is
  <2>. QED  BY <2>3
<1>4. Is(flat, n)
  <2>1. n \in K
    <3>. HIDE DEF K, n
    <3>. QED  BY <1>1, <1>2, <1>3, NatInd
  <2>. HIDE DEF Is
  <2>. QED  BY <2>1
<1>. HIDE DEF flat
<1>5. \A i \in 1..n : flat[i] = At1(flat, i)
  BY <1>4
<1>6. 0 \in H
  OBVIOUS
<1>7. ASSUME NEW m \in Nat, m \in H PROVE m + 1 \in H
  <2>1. SUFFICES ASSUME m + 1 \in 1..n
                 PROVE  /\ flat[m + 1] \in Seq(S)
                        /\ ToSet(flat[m + 1]) = UNION {ToSet(ss[i]) : i \in 1..m + 1}
    OBVIOUS
  <2>2. CASE m = 0
    <3>1. flat[1] = ss[1] /\ 1 \in 1..n /\ 1..1 = {1}
      BY <1>5, <2>1, <2>2
    <3>. QED  BY <1>1, <2>2, <3>1
  <2>3. CASE m # 0
    <3>1. m \in 1..n /\ m + 1 # 1 /\ (m + 1) - 1 = m
      BY <1>1, <2>1, <2>3
    <3>2. flat[m + 1] = flat[m] \o ss[m + 1]
      BY <1>5, <2>1, <3>1
    <3>3. flat[m] \in Seq(S) /\ ToSet(flat[m]) = UNION {ToSet(ss[i]) : i \in 1..m}
      BY <1>7, <3>1
    <3>4. 1..m + 1 = (1..m) \cup {m + 1}
      OBVIOUS
    <3>5. UNION {ToSet(ss[i]) : i \in 1..m + 1} = (UNION {ToSet(ss[i]) : i \in 1..m}) \cup ToSet(ss[m + 1])
      BY <3>4
    <3>6. ss[m + 1] \in Seq(S)
      BY <1>1, <2>1
    <3>7. flat[m] \o ss[m + 1] \in Seq(S) /\ ToSet(flat[m] \o ss[m + 1]) = ToSet(flat[m]) \cup ToSet(ss[m + 1])
      <4>. HIDE DEF H, K, n
      <4>. QED  BY <3>3, <3>6, ToSetOfTwo
    <3>. DEFINE U(k) == UNION {ToSet(ss[i]) : i \in 1..k}
    <3>8. U(m + 1) = U(m) \cup ToSet(ss[m + 1]) /\ ToSet(flat[m]) = U(m)
      BY <3>3, <3>5
    <3>. HIDE DEF U, H, K, n
    <3>9. flat[m + 1] \in Seq(S) /\ ToSet(flat[m + 1]) = U(m + 1)
      BY <3>2, <3>7, <3>8
    <3>. QED  BY <3>9 DEF U
  <2>. QED  BY <2>2, <2>3
<1>8. n \in H
  <2>. HIDE DEF H, n
  <2>. QED  BY <1>1, <1>6, <1>7, NatInd
<1>9. CASE n = 0
  <2>1. FlattenSeq(ss) = ss /\ ss = <<>>
    BY <1>1, <1>9 DEF FlattenSeq
  <2>. QED  BY <2>1 DEF ToSet
<1>10. CASE n # 0
  <2>1. FlattenSeq(ss) = flat[n]
    BY <1>10 DEF FlattenSeq, flat
  <2>. QED  BY <1>1, <1>8, <1>10, <2>1
<1>. QED  BY <1>9, <1>10

(* What is asked about: every player with a match, once a match.           *)
HasMatch(c, i, p) ==
    ~c.players[p].removed /\ c.players[p].team \in {c.fixtures[c.target][i][1], c.fixtures[c.target][i][2]}

AskedRow(c, i, p) == RowAsked(c, c.target, i, p, c.fixtures[c.target][i])

LEMMA RowsAskedAre ==
  ASSUME NEW c \in Calls
  PROVE  /\ SyntheticRowsFor(c) \in Seq(ToSet(SyntheticRowsFor(c)))
         /\ \A r \in ToSet(SyntheticRowsFor(c)) :
              \E i \in DOMAIN c.fixtures[c.target], p \in DOMAIN c.players : HasMatch(c, i, p) /\ r = AskedRow(c, i, p)
         /\ \A i \in DOMAIN c.fixtures[c.target], p \in DOMAIN c.players :
              HasMatch(c, i, p) => AskedRow(c, i, p) \in ToSet(SyntheticRowsFor(c))
<1>. DEFINE fx == c.fixtures[c.target]
            P == DOMAIN c.players
            of(team) == SetToSeq({p \in P : ~c.players[p].removed /\ c.players[p].team = team})
            both(f) == of(f[1]) \o of(f[2])
            inner(i) == [j \in DOMAIN both(fx[i]) |-> AskedRow(c, i, both(fx[i])[j])]
            ss == [i \in DOMAIN fx |-> inner(i)]
            S == {AskedRow(c, z[1], z[2]) : z \in (DOMAIN fx) \X P}
<1>1. fx \in Seq(Int \X Int) /\ IsFiniteSet(P)
  BY CallsAssumption
<1>2. SyntheticRowsFor(c) = FlattenSeq(ss)
  BY DEF SyntheticRowsFor, RowsAsked, AskedRow
<1>3. \A team : of(team) \in Seq(P) /\ ToSet(of(team)) = {p \in P : ~c.players[p].removed /\ c.players[p].team = team}
  <2>. TAKE team
  <2>. DEFINE T == {p \in P : ~c.players[p].removed /\ c.players[p].team = team}
  <2>1. IsFiniteSet(T)
    BY <1>1, FS_Subset
  <2>. HIDE DEF T
  <2>2. Lists(SetToSeq(T), T)
    BY <2>1, SetToSeqLists
  <2>3. ToSet(SetToSeq(T)) = T /\ SetToSeq(T) \in Seq(T)
    BY <2>2, ListOfAll DEF Lists
  <2>4. T \subseteq P
    BY DEF T
  <2>5. SetToSeq(T) \in Seq(P)
    BY <2>3, <2>4
  <2>. QED  BY <2>3, <2>5 DEF T
<1>. HIDE DEF of
<1>4. \A i \in DOMAIN fx : both(fx[i]) \in Seq(P) /\ ToSet(both(fx[i])) = {p \in P : HasMatch(c, i, p)}
  <2>. TAKE i \in DOMAIN fx
  <2>. DEFINE a == of(fx[i][1])
              b == of(fx[i][2])
  <2>0. a \in Seq(P) /\ b \in Seq(P) /\ both(fx[i]) = a \o b
    BY <1>3
  <2>. HIDE DEF a, b
  <2>4. a \o b \in Seq(P) /\ ToSet(a \o b) = ToSet(a) \cup ToSet(b)
    BY <2>0, ToSetOfTwo
  <2>1. both(fx[i]) \in Seq(P) /\ ToSet(both(fx[i])) = ToSet(of(fx[i][1])) \cup ToSet(of(fx[i][2]))
    BY <2>0, <2>4 DEF a, b
  <2>. QED  BY <1>3, <2>1 DEF HasMatch
<1>. HIDE DEF both
<1>5. \A i \in DOMAIN fx : inner(i) \in Seq(S) /\ ToSet(inner(i)) = {AskedRow(c, i, p) : p \in {q \in P : HasMatch(c, i, q)}}
  <2>. TAKE i \in DOMAIN fx
  <2>. DEFINE b == both(fx[i])
  <2>1. b \in Seq(P) /\ ToSet(b) = {p \in P : HasMatch(c, i, p)}
    BY <1>4
  <2>2. DOMAIN b = 1..Len(b) /\ Len(b) \in Nat /\ \A j \in DOMAIN b : b[j] \in P
    BY <2>1, DomainOfSeq
  <2>3. inner(i) = [j \in DOMAIN b |-> AskedRow(c, i, b[j])]
    OBVIOUS
  <2>. HIDE DEF b
  <2>4. \A j \in DOMAIN b : AskedRow(c, i, b[j]) \in S
    <3>. TAKE j \in DOMAIN b
    <3>1. i \in DOMAIN fx /\ b[j] \in P
      BY <2>2
    <3>. HIDE DEF fx, P
    <3>2. <<i, b[j]>> \in (DOMAIN fx) \X P
      BY <3>1
    <3>. QED  BY <3>2
  <2>. HIDE DEF S
  <2>5. inner(i) \in Seq(S)
    BY <2>2, <2>3, <2>4
  <2>6. ToSet(inner(i)) = {AskedRow(c, i, p) : p \in ToSet(b)}
    BY <2>3 DEF ToSet
  <2>. QED  BY <2>1, <2>5, <2>6
<1>. HIDE DEF inner, S
<1>6. ss \in Seq(Seq(S))
  <2>1. DOMAIN fx = 1..Len(fx) /\ Len(fx) \in Nat
    BY <1>1
  <2>. HIDE DEF fx
  <2>. QED  BY <1>5, <2>1
<1>7. FlattenSeq(ss) \in Seq(S) /\ ToSet(FlattenSeq(ss)) = UNION {ToSet(ss[i]) : i \in DOMAIN ss} /\ DOMAIN ss = DOMAIN fx
  BY <1>6, FlattenIs
<1>8. \A i \in DOMAIN fx : ToSet(ss[i]) = {AskedRow(c, i, p) : p \in {q \in P : HasMatch(c, i, q)}}
  BY <1>5
<1>. HIDE DEF ss
<1>9. ASSUME NEW r \in ToSet(SyntheticRowsFor(c))
      PROVE  \E i \in DOMAIN fx, p \in P : HasMatch(c, i, p) /\ r = AskedRow(c, i, p)
  <2>1. PICK i \in DOMAIN fx : r \in ToSet(ss[i])
    BY <1>2, <1>7
  <2>. QED  BY <1>8, <2>1
<1>10. ASSUME NEW i \in DOMAIN fx, NEW p \in P, HasMatch(c, i, p)
       PROVE  AskedRow(c, i, p) \in ToSet(SyntheticRowsFor(c))
  <2>1. AskedRow(c, i, p) \in ToSet(ss[i])
    BY <1>8, <1>10
  <2>. QED  BY <1>2, <1>7, <2>1
<1>11. SyntheticRowsFor(c) \in Seq(ToSet(SyntheticRowsFor(c)))
  <2>. DEFINE u == SyntheticRowsFor(c)
  <2>1. u \in Seq(S)
    BY <1>2, <1>7
  <2>. HIDE DEF u
  <2>2. DOMAIN u = 1..Len(u) /\ Len(u) \in Nat
    BY <2>1
  <2>3. \A i \in DOMAIN u : u[i] \in ToSet(u)
    BY DEF ToSet
  <2>4. u = [i \in 1..Len(u) |-> u[i]]
    BY <2>1
  <2>5. u \in Seq(ToSet(u))
    BY <2>2, <2>3, <2>4
  <2>. QED  BY <2>5 DEF u
<1>. QED  BY <1>9, <1>10, <1>11

-----------------------------------------------------------------------------
(* The context of a round, and what is picked from it.                     *)

LEMMA PickedOfList ==
  ASSUME NEW T, NEW s, Lists(s, T), NEW C \in SUBSET T
  PROVE  Lists(Picked(s, {i \in DOMAIN s : s[i] \in C}), C)
<1>. DEFINE I == {i \in DOMAIN s : s[i] \in C}
<1>1. s \in Seq(T) /\ \A i, j \in DOMAIN s : s[i] = s[j] => i = j
  BY DEF Lists
<1>2. Lists(Picked(s, I), {s[i] : i \in I})
  BY <1>1, PickedLists
<1>3. {s[i] : i \in I} = C
  BY DEF Lists
<1>. QED  BY <1>2, <1>3

LEMMA ScoredLists ==
  ASSUME NEW T, NEW rows, Lists(rows, T)
  PROVE  Lists(ScoredRows(rows), {Scored(r, clock[2]) : r \in T})
<1>. DEFINE s == ScoredRows(rows)
            U == {Scored(r, clock[2]) : r \in T}
<1>1. rows \in Seq(T) /\ DOMAIN rows = 1..Len(rows) /\ Len(rows) \in Nat /\ \A i \in DOMAIN rows : rows[i] \in T
  BY DomainOfSeq DEF Lists
<1>2. s = [i \in DOMAIN rows |-> Scored(rows[i], clock[2])]
  BY DEF ScoredRows
<1>3. \A r : Scored(r, clock[2]).row = r
  BY DEF Scored
<1>4. \A i \in DOMAIN rows : s[i] \in U
  BY <1>1, <1>2
<1>5. s \in Seq(U)
  BY <1>1, <1>2, <1>4
<1>6. \A i, j \in DOMAIN s : s[i] = s[j] => i = j
  <2>1. \A i \in DOMAIN s : i \in DOMAIN rows /\ s[i].row = rows[i]
    BY <1>2, <1>3
  <2>. QED  BY <2>1 DEF Lists
<1>7. \A x \in U : \E i \in DOMAIN s : s[i] = x
  BY <1>2 DEF Lists
<1>. QED  BY <1>5, <1>6, <1>7 DEF Lists

(* The rows of what lists scored rows.                                     *)
RowsIn(s) == [i \in DOMAIN s |-> s[i].row]

LEMMA RowsOfScored ==
  ASSUME NEW T, NEW n, NEW s, Lists(s, {Scored(r, n) : r \in T})
  PROVE  /\ Lists(RowsIn(s), T)
         /\ \A i \in DOMAIN s : s[i].row \in T /\ s[i] = Scored(s[i].row, n)
<1>. DEFINE u == RowsIn(s)
            U == {Scored(r, n) : r \in T}
<1>1. \A r : Scored(r, n).row = r
  BY DEF Scored
<1>2. s \in Seq(U) /\ DOMAIN s = 1..Len(s) /\ Len(s) \in Nat /\ \A i \in DOMAIN s : s[i] \in U
  <2>1. s \in Seq(U)
    BY DEF Lists
  <2>. HIDE DEF U
  <2>. QED  BY <2>1, DomainOfSeq
<1>3. \A i \in DOMAIN s : s[i].row \in T /\ s[i] = Scored(s[i].row, n)
  BY <1>1, <1>2
<1>4. u \in Seq(T)
  BY <1>2, <1>3 DEF RowsIn
<1>5. \A i, j \in DOMAIN u : u[i] = u[j] => i = j
  <2>. TAKE i, j \in DOMAIN u
  <2>1. SUFFICES ASSUME u[i] = u[j] PROVE i = j
    OBVIOUS
  <2>2. i \in DOMAIN s /\ j \in DOMAIN s /\ s[i].row = s[j].row
    BY <2>1 DEF RowsIn
  <2>3. s[i] = s[j]
    BY <1>3, <2>2
  <2>. QED  BY <2>2, <2>3 DEF Lists
<1>6. \A r \in T : \E i \in DOMAIN u : u[i] = r
  <2>. TAKE r \in T
  <2>1. PICK i \in DOMAIN s : s[i] = Scored(r, n)
    BY DEF Lists
  <2>. QED  BY <1>1, <2>1 DEF RowsIn
<1>. QED  BY <1>3, <1>4, <1>5, <1>6 DEF Lists

LEMMA ItemsList ==
  ASSUME WalkInv, step \in {"project", "export"}
  PROVE  /\ Lists(items, {Scored(r, clock[2]) : r \in RowsAt(clock)})
         /\ items = ScoredRows(RowsOf(clock)) /\ clock \in Keys /\ WellFormed(history)
<1>1. items = ScoredRows(RowsOf(clock)) /\ WellFormed(history) /\ clock \in Keys
  BY DEF WalkInv, KeptInv, ClockInv, ContextInv, Closed
<1>. QED  BY <1>1, RowsOfAKey, ScoredLists

(* The rows of a round a gameweek is asked about with, a player's.         *)
LEMMA AskedIs ==
  ASSUME WalkInv, step = "project"
  PROVE  /\ {x.row.player : x \in ToSet(Asked)} = {r.player : r \in {q \in RowsAt(clock) : Synthetic(q)}}
         /\ \A p : /\ Lists(RowsIn(AskedOf(p)), {q \in RowsAt(clock) : Synthetic(q) /\ q.player = p})
                   /\ \A i \in DOMAIN AskedOf(p) :
                         LET r == AskedOf(p)[i].row
                         IN  AskedOf(p)[i] = Scored(r, clock[2]) /\ r \in RowsAt(clock) /\ r.player = p
<1>. DEFINE n == clock[2]
            U == {Scored(r, n) : r \in RowsAt(clock)}
            T == {q \in RowsAt(clock) : Synthetic(q)}
            C == {Scored(r, n) : r \in T}
<1>0. \A r : Scored(r, n).row = r
  BY DEF Scored
<1>1. Lists(items, U)
  BY ItemsList
<1>2. {i \in DOMAIN items : Synthetic(items[i].row)} = {i \in DOMAIN items : items[i] \in C}
  <2>1. \A i \in DOMAIN items : items[i] \in U
    BY <1>1 DEF Lists
  <2>2. \A x \in U : Synthetic(x.row) <=> x \in C
    BY <1>0
  <2>. HIDE DEF U, C
  <2>. QED  BY <2>1, <2>2
<1>3. Lists(Asked, C)
  <2>1. C \in SUBSET U
    OBVIOUS
  <2>. HIDE DEF C, U
  <2>. QED  BY <1>1, <1>2, <2>1, PickedOfList DEF Asked
<1>4. {x.row.player : x \in ToSet(Asked)} = {r.player : r \in T}
  <2>1. ToSet(Asked) = C
    BY <1>3, ListOfAll
  <2>. QED  BY <1>0, <2>1
<1>5. ASSUME NEW p
      PROVE  /\ Lists(RowsIn(AskedOf(p)), {q \in T : q.player = p})
             /\ \A i \in DOMAIN AskedOf(p) :
                   LET r == AskedOf(p)[i].row
                   IN  AskedOf(p)[i] = Scored(r, n) /\ r \in RowsAt(clock) /\ r.player = p
  <2>. DEFINE D == {Scored(r, n) : r \in {q \in T : q.player = p}}
  <2>1. {i \in DOMAIN Asked : Asked[i].row.player = p} = {i \in DOMAIN Asked : Asked[i] \in D}
    <3>1. \A i \in DOMAIN Asked : Asked[i] \in C
      BY <1>3 DEF Lists
    <3>2. \A x \in C : x.row.player = p <=> x \in D
      BY <1>0
    <3>. HIDE DEF C, D
    <3>. QED  BY <3>1, <3>2
  <2>2. D \in SUBSET C
    OBVIOUS
  <2>3. Lists(AskedOf(p), D)
    <3>. HIDE DEF C, D
    <3>. QED  BY <1>3, <2>1, <2>2, PickedOfList DEF AskedOf
  <2>. DEFINE Q == {q \in T : q.player = p}
  <2>4. D = {Scored(r, n) : r \in Q} /\ Q \subseteq RowsAt(clock) /\ \A q \in Q : q.player = p
    OBVIOUS
  <2>. HIDE DEF D, Q
  <2>5. Lists(AskedOf(p), {Scored(r, n) : r \in Q})
    BY <2>3, <2>4
  <2>6. /\ Lists(RowsIn(AskedOf(p)), Q)
        /\ \A i \in DOMAIN AskedOf(p) : AskedOf(p)[i].row \in Q /\ AskedOf(p)[i] = Scored(AskedOf(p)[i].row, n)
    <3>. DEFINE s == AskedOf(p)
    <3>1. Lists(s, {Scored(r, n) : r \in Q})
      BY <2>5
    <3>. HIDE DEF s, n, T, U, C
    <3>2. /\ Lists(RowsIn(s), Q)
          /\ \A i \in DOMAIN s : s[i].row \in Q /\ s[i] = Scored(s[i].row, n)
      BY <3>1, RowsOfScored
    <3>. QED  BY <3>2 DEF s
  <2>. QED  BY <2>4, <2>6 DEF Q
<1>. QED  BY <1>4, <1>5

-----------------------------------------------------------------------------
(* What is served rests on the rounds played and on the gameweek's flags.  *)
TargetKey == <<CurrentSeason, call.target>>
SynRows == ToSet(SyntheticRowsFor(call))

CallInv ==
    Forecasting => /\ call \in Calls /\ SyntheticRowsFor(call) # <<>>
                   /\ \E h \in Histories : history = h \o SyntheticRowsFor(call)

(* The gameweek asked about has been served.                               *)
Passed == TargetKey \in WalkedKeys \/ (clock = TargetKey /\ step = "fold")

PartsInv(p) ==
    LET s == served[p]
    IN  /\ s = [parts |-> s.parts, market |-> s.market]
        /\ s.parts \in Seq(ToSet(s.parts))
        /\ Lists(RowsIn(s.parts), {r \in SynRows : r.player = p})
        /\ \A i \in DOMAIN s.parts : \A x \in s.parts[i].rates : x[1].player = p /\ x[1].fixture < 10000
        /\ AvailabilityByCode(p).status \in {"u", "n", "s"} => \A i \in DOMAIN s.parts : s.parts[i].rates = {}
        /\ s.market # {} => s.market \cup {p} \subseteq DOMAIN EpNextByCode

ServedInv ==
    Forecasting => /\ DOMAIN served = IF Passed THEN {r.player : r \in SynRows} ELSE {}
                   /\ \A p \in DOMAIN served : PartsInv(p)
                   /\ step = "served" => Ahead = {}

ServingInv == WalkInv /\ CallInv /\ ServedInv

LEMMA RowsOfTheCall ==
  ASSUME WalkInv, CallInv, Forecasting
  PROVE  /\ WellFormed(history) /\ call \in Calls
         /\ SynRows \subseteq ToSet(history)
         /\ \A r \in SynRows : Key(r) = TargetKey /\ Synthetic(r)
         /\ \A r \in ToSet(history) : Synthetic(r) <=> r \in SynRows
         /\ \A r \in ToSet(history) \ SynRows : r.fixture \in Int /\ r.fixture < 10000
         /\ TargetKey \in Keys /\ TargetKey \in Nat \X Nat
<1>1. WellFormed(history) /\ call \in Calls
  BY DEF WalkInv, KeptInv, ClockInv, CallInv
<1>2. PICK h \in Histories : history = h \o SyntheticRowsFor(call)
  BY DEF CallInv
<1>3. /\ h \in Seq(ToSet(h)) /\ \A r \in ToSet(h) : r.fixture \in Int /\ r.fixture < 10000
      /\ SyntheticRowsFor(call) \in Seq(SynRows)
  BY <1>1, CallsAssumption, RowsAskedAre DEF SynRows
<1>4. ToSet(history) = ToSet(h) \cup SynRows
  <2>. DEFINE s == SyntheticRowsFor(call)
              S == ToSet(h) \cup ToSet(s)
  <2>1. h \in Seq(S) /\ s \in Seq(S)
    BY <1>3 DEF SynRows
  <2>. HIDE DEF s, S
  <2>2. ToSet(h \o s) = ToSet(h) \cup ToSet(s)
    BY <2>1, ToSetOfTwo
  <2>. QED  BY <1>2, <2>2 DEF s, SynRows
<1>5. \A r \in SynRows : Key(r) = TargetKey
  <2>. TAKE r \in SynRows
  <2>1. PICK i \in DOMAIN call.fixtures[call.target], p \in DOMAIN call.players : r = AskedRow(call, i, p)
    BY <1>1, RowsAskedAre DEF SynRows
  <2>. QED  BY <2>1 DEF AskedRow, RowAsked, Key, TargetKey
<1>6. PICK r \in SynRows : TRUE
  <2>1. SyntheticRowsFor(call) # <<>>
    BY DEF CallInv
  <2>2. 1 \in DOMAIN SyntheticRowsFor(call)
    BY <1>3, <2>1
  <2>. QED  BY <2>2 DEF SynRows, ToSet
<1>7. TargetKey \in Keys /\ TargetKey \in Nat \X Nat
  BY <1>1, <1>4, <1>5, <1>6, RowsHaveKeys
<1>. QED  BY <1>1, <1>3, <1>4, <1>5, <1>7 DEF Synthetic, SynRows

LEMMA ServeKept ==
  ASSUME ServingInv, Serve
  PROVE  ServedInv'
<1>0. /\ WalkInv /\ CallInv /\ ServedInv /\ Forecasting /\ step = "project" /\ step' = "fold"
      /\ call' = call /\ clock' = clock /\ history' = history /\ params' = params
  BY DEF ServingInv, Serve
<1>1. /\ WellFormed(history) /\ call \in Calls /\ SynRows \subseteq ToSet(history)
      /\ \A r \in ToSet(history) : Synthetic(r) <=> r \in SynRows
      /\ \A r \in SynRows : Key(r) = TargetKey
      /\ \A r \in ToSet(history) \ SynRows : r.fixture \in Int /\ r.fixture < 10000
      /\ TargetKey \in Keys
  BY <1>0, RowsOfTheCall
<1>2. SynRows' = SynRows /\ TargetKey' = TargetKey /\ Keys' = Keys /\ (Forecasting' <=> Forecasting)
      /\ WalkedKeys' = WalkedKeys
  BY <1>0 DEF SynRows, TargetKey, Keys, WalkedKeys, Closed, Forecasting, SyntheticRowsFor, RowsAsked
<1>3. \A p : AvailabilityByCode(p)' = AvailabilityByCode(p) /\ EpNextByCode' = EpNextByCode
  BY <1>0 DEF AvailabilityByCode, EpNextByCode
<1>. DEFINE now == {x.row.player : x \in ToSet(Asked)}
            fresh(p) == [parts |-> [n \in DOMAIN AskedOf(p) |-> PartOf(AskedOf(p)[n])], market |-> {}]
<1>4. /\ DOMAIN served' = DOMAIN served \cup now
      /\ \A p \in DOMAIN served' : served'[p] = IF p \in now THEN fresh(p) ELSE served[p]
  BY DEF Serve, FoldFixtures
<1>5. now = {r.player : r \in {q \in RowsAt(clock) : q \in SynRows}}
  <2>1. {q \in RowsAt(clock) : Synthetic(q)} = {q \in RowsAt(clock) : q \in SynRows}
    BY <1>1 DEF RowsAt
  <2>2. now = {r.player : r \in {q \in RowsAt(clock) : Synthetic(q)}}
    BY <1>0, AskedIs
  <2>. QED  BY <2>1, <2>2
<1>. HIDE DEF now
<1>6. CASE clock = TargetKey
  <2>1. {q \in RowsAt(clock) : q \in SynRows} = SynRows
    BY <1>1, <1>6 DEF RowsAt
  <2>2. ~Passed /\ Passed'
    <3>1. TargetKey \notin WalkedKeys
      BY <1>0, <1>6, YieldedOfThePast, EarlierIsAnOrder
    <3>. QED  BY <1>0, <1>2, <1>6, <3>1 DEF Passed
  <2>3. DOMAIN served' = {r.player : r \in SynRows}
    BY <1>0, <1>4, <1>5, <2>1, <2>2 DEF ServedInv
  <2>4. ASSUME NEW p \in DOMAIN served' PROVE PartsInv(p)'
    <3>. DEFINE a == AskedOf(p)
    <3>1. served'[p] = [parts |-> [n \in DOMAIN a |-> PartOf(a[n])], market |-> {}]
      BY <1>4, <1>5, <2>1, <2>3, <2>4
    <3>2. /\ Lists(RowsIn(a), {q \in RowsAt(clock) : Synthetic(q) /\ q.player = p})
          /\ \A i \in DOMAIN a : /\ a[i] = Scored(a[i].row, clock[2])
                                 /\ a[i].row \in RowsAt(clock) /\ a[i].row.player = p
      BY <1>0, AskedIs
    <3>3. {q \in RowsAt(clock) : Synthetic(q) /\ q.player = p} = {r \in SynRows : r.player = p}
      BY <1>1, <1>6 DEF RowsAt
    <3>. HIDE DEF a
    <3>4. \A i \in DOMAIN a : /\ a[i].features = FeaturesFor(p, clock[2])
                              /\ PartOf(a[i]).row = a[i].row
                              /\ PartOf(a[i]).rates = {} \/ PartOf(a[i]).rates = FeaturesFor(p, clock[2]).rates
                              /\ AvailabilityByCode(p).status \in {"u", "n", "s"} => PartOf(a[i]).rates = {}
      <4>. TAKE i \in DOMAIN a
      <4>1. a[i].features = FeaturesFor(p, clock[2])
        <5>1. a[i].row.player = p /\ a[i] = Scored(a[i].row, clock[2])
          BY <3>2
        <5>. QED  BY <5>1 DEF Scored
      <4>. DEFINE m == MinutesDistribution(a[i].features, AvailabilityByCode(p))
      <4>2. PartOf(a[i]) = ProjectFixture(a[i], m)
        BY <3>2 DEF PartOf
      <4>3. AvailabilityByCode(p).status \in {"u", "n", "s"} => m.play = 0
        BY DEF MinutesDistribution, AvailabilitySignal, AvailabilityMultiplier, NoMinutes
      <4>. HIDE DEF m
      <4>. QED  BY <4>1, <4>2, <4>3 DEF ProjectFixture
    <3>5. \A x \in FeaturesFor(p, clock[2]).rates : x[1].player = p /\ x[1].fixture < 10000
      <4>. TAKE x \in FeaturesFor(p, clock[2]).rates
      <4>1. PICK r \in PastOf(p, clock) : x[1] = r
        <5>. DEFINE f == FeaturesFor(p, clock[2])
        <5>1. RatesAre(f, p, clock) /\ x \in f.rates
          BY <1>0, RatesFollow
        <5>. HIDE DEF f
        <5>. DEFINE age(r) == IF params.decaying
                              THEN Cardinality({j \in Keys : Earlier(Key(r), j) /\ Earlier(j, clock)})
                              ELSE 0
        <5>2. f.rates = {<<r, age(r)>> : r \in PastOf(p, clock)}
          BY <5>1 DEF RatesAre
        <5>. HIDE DEF age
        <5>. QED  BY <5>1, <5>2
      <4>2. r \in ToSet(history) /\ Earlier(Key(r), clock) /\ r.player = p
        BY DEF PastOf, Past
      <4>3. r \notin SynRows
        <5>1. clock \in Nat \X Nat
          BY <1>0, YieldedOfThePast
        <5>. QED  BY <1>1, <1>6, <4>2, <5>1, EarlierIsAnOrder
      <4>. QED  BY <1>1, <4>1, <4>2, <4>3
    <3>. DEFINE t == [n \in DOMAIN a |-> PartOf(a[n])]
    <3>6. RowsIn(t) = RowsIn(a) /\ \A i \in DOMAIN t : t[i] = PartOf(a[i]) /\ i \in DOMAIN a
      BY <3>4 DEF RowsIn
    <3>7. served'[p].parts = t /\ served'[p].market = {}
          /\ served'[p] = [parts |-> served'[p].parts, market |-> served'[p].market]
      BY <3>1
    <3>8. t \in Seq(ToSet(t))
      <4>1. DOMAIN RowsIn(a) = 1..Len(RowsIn(a)) /\ Len(RowsIn(a)) \in Nat
        BY <3>2, DomainOfSeq DEF Lists
      <4>2. DOMAIN a = 1..Len(RowsIn(a))
        BY <4>1 DEF RowsIn
      <4>. QED  BY <4>1, <4>2 DEF ToSet
    <3>. HIDE DEF t
    <3>9. Lists(RowsIn(t), {r \in SynRows : r.player = p})
      BY <3>2, <3>3, <3>6
    <3>10. \A i \in DOMAIN t : \A x \in t[i].rates : x[1].player = p /\ x[1].fixture < 10000
      BY <3>4, <3>5, <3>6
    <3>11. AvailabilityByCode(p).status \in {"u", "n", "s"} => \A i \in DOMAIN t : t[i].rates = {}
      BY <3>4, <3>6
    <3>. QED  BY <1>2, <1>3, <3>7, <3>8, <3>9, <3>10, <3>11 DEF PartsInv
  <2>. QED  BY <1>0, <1>2, <2>2, <2>3, <2>4 DEF ServedInv
<1>7. CASE clock # TargetKey
  <2>1. {q \in RowsAt(clock) : q \in SynRows} = {}
    BY <1>1, <1>7 DEF RowsAt
  <2>2. now = {}
    BY <1>5, <2>1
  <2>3. DOMAIN served' = DOMAIN served /\ \A p \in DOMAIN served : served'[p] = served[p]
    BY <1>4, <2>2
  <2>4. Passed' <=> Passed
    BY <1>0, <1>2, <1>7 DEF Passed
  <2>5. \A p \in DOMAIN served : PartsInv(p)'
    <3>. TAKE p \in DOMAIN served
    <3>1. PartsInv(p) /\ served'[p] = served[p]
      BY <1>0, <2>3 DEF ServedInv
    <3>. QED  BY <1>2, <1>3, <3>1 DEF PartsInv
  <2>. QED  BY <1>0, <1>2, <2>3, <2>4, <2>5 DEF ServedInv
<1>. QED  BY <1>6, <1>7

LEMMA ServedUnmoved ==
  ASSUME CallInv, ServedInv, UNCHANGED <<call, served, history>>, Forecasting => (Passed' <=> Passed),
         step' = "served" => step = "served" /\ clock' = clock
  PROVE  CallInv' /\ ServedInv'
<1>1. SynRows' = SynRows /\ (Forecasting' <=> Forecasting)
      /\ SyntheticRowsFor(call)' = SyntheticRowsFor(call)
  BY DEF SynRows, Forecasting, SyntheticRowsFor, RowsAsked
<1>2. \A p : AvailabilityByCode(p)' = AvailabilityByCode(p) /\ EpNextByCode' = EpNextByCode
  BY DEF AvailabilityByCode, EpNextByCode
<1>3. CallInv'
  BY <1>1 DEF CallInv
<1>4. \A p \in DOMAIN served : PartsInv(p) => PartsInv(p)'
  BY <1>1, <1>2 DEF PartsInv
<1>5. step' = "served" => Ahead' = Ahead
  BY DEF Ahead, Keys
<1>. QED  BY <1>1, <1>3, <1>4, <1>5 DEF ServedInv

LEMMA FinishKept ==
  ASSUME ServingInv, FinishForecast
  PROVE  CallInv' /\ ServedInv'
<1>0. /\ CallInv /\ ServedInv /\ Forecasting /\ step = "begin" /\ step' = "served" /\ Ahead = {}
      /\ call' = call /\ clock' = clock /\ history' = history /\ served' = ServedBlend
  BY DEF ServingInv, FinishForecast
<1>1. /\ SynRows' = SynRows /\ Forecasting' /\ Ahead' = Ahead
      /\ SyntheticRowsFor(call)' = SyntheticRowsFor(call)
  BY <1>0 DEF SynRows, Forecasting, SyntheticRowsFor, RowsAsked, Ahead, Keys
<1>2. \A p : AvailabilityByCode(p)' = AvailabilityByCode(p) /\ EpNextByCode' = EpNextByCode
  BY <1>0 DEF AvailabilityByCode, EpNextByCode
<1>3. CallInv'
  BY <1>0, <1>1 DEF CallInv
<1>4. Passed' <=> Passed
  BY <1>0 DEF Passed, TargetKey, WalkedKeys, Keys, Closed
<1>. DEFINE both == DOMAIN served \cap DOMAIN EpNextByCode
<1>5. /\ DOMAIN served' = DOMAIN served
      /\ \A p \in DOMAIN served : served'[p].parts = served[p].parts
            /\ served'[p] = [parts |-> served'[p].parts, market |-> served'[p].market]
            /\ \/ served'[p].market = served[p].market
               \/ p \in both /\ served'[p].market = both
               \/ served'[p].market = {}
  <2>1. \A p \in DOMAIN served : served[p] = [parts |-> served[p].parts, market |-> served[p].market]
    <3>1. \A p : PartsInv(p) => served[p] = [parts |-> served[p].parts, market |-> served[p].market]
      BY DEF PartsInv
    <3>. QED  BY <1>0, <3>1 DEF ServedInv
  <2>2. CASE served' = served
    BY <2>1, <2>2
  <2>3. CASE served' = [p \in DOMAIN served |-> [served[p] EXCEPT !.market = IF p \in both THEN both ELSE {}]]
    <3>. DEFINE m(p) == IF p \in both THEN both ELSE {}
    <3>1. \A p \in DOMAIN served : m(p) = {} \/ (p \in both /\ m(p) = both)
      OBVIOUS
    <3>2. DOMAIN served' = DOMAIN served /\ \A p \in DOMAIN served : served'[p] = [served[p] EXCEPT !.market = m(p)]
      BY <2>3
    <3>. HIDE DEF m, both
    <3>3. \A p \in DOMAIN served : served'[p] = [parts |-> served[p].parts, market |-> m(p)]
      BY <2>1, <3>2
    <3>. QED  BY <3>1, <3>2, <3>3
  <2>. QED  BY <1>0, <2>2, <2>3 DEF ServedBlend
<1>6. \A p \in DOMAIN served' : PartsInv(p)'
  <2>. TAKE p \in DOMAIN served'
  <2>1. PartsInv(p)
    BY <1>0, <1>5 DEF ServedInv
  <2>2. served'[p].market # {} => served'[p].market \cup {p} \subseteq DOMAIN EpNextByCode
    BY <1>5, <2>1 DEF PartsInv
  <2>3. served'[p].parts = served[p].parts /\ served'[p] = [parts |-> served'[p].parts, market |-> served'[p].market]
    BY <1>5
  <2>. QED  BY <1>1, <1>2, <2>1, <2>2, <2>3 DEF PartsInv
<1>7. ServedInv'
  BY <1>0, <1>1, <1>4, <1>5, <1>6 DEF ServedInv
<1>. QED  BY <1>3, <1>7

LEMMA InitServed == ForecastInit => ServingInv
<1>1. SUFFICES ASSUME ForecastInit PROVE ServingInv
  OBVIOUS
<1>2. WalkInv
  BY <1>1, InitKept
<1>3. CallInv
  BY <1>1 DEF ForecastInit, CallInv, Forecasting
<1>4. clock = Start /\ step = "begin" /\ served = <<>>
  BY <1>1 DEF ForecastInit, WalkInit, NothingWalked
<1>5. WellFormed(history)
  BY <1>2 DEF WalkInv, KeptInv, ClockInv
<1>6. Forecasting => ~Passed
  <2>1. SUFFICES ASSUME Forecasting PROVE ~Passed
    OBVIOUS
  <2>2. WalkedKeys = {}
    BY <1>4, <1>5, NothingBeforeTheStart DEF WalkedKeys
  <2>. QED  BY <1>4, <2>2 DEF Passed
<1>7. ServedInv
  BY <1>4, <1>6 DEF ServedInv
<1>. QED  BY <1>2, <1>3, <1>7 DEF ServingInv

LEMMA StepServed == ServingInv /\ [ForecastNext]_forecastVars => ServingInv'
<1>. SUFFICES ASSUME ServingInv, [ForecastNext]_forecastVars PROVE ServingInv'
  OBVIOUS
<1>0. WalkInv /\ CallInv /\ ServedInv /\ ClockInv
  BY DEF ServingInv, WalkInv, KeptInv
<1>1. WalkInv'
  BY <1>0, StepKept
<1>2. CASE ~Forecasting /\ WalkNext /\ UNCHANGED <<call, served>>
  <2>1. ~Forecasting'
    BY <1>2 DEF Forecasting
  <2>. QED  BY <1>1, <2>1 DEF ServingInv, CallInv, ServedInv
<1>3. CASE Forecasting /\ BeginRound /\ UNCHANGED <<call, served>>
  <2>1. WalkedKeys' = WalkedKeys /\ history' = history
    BY <1>0, <1>3, NextRound
  <2>2. step = "begin" /\ step' = "score" /\ TargetKey' = TargetKey
    BY <1>3 DEF BeginRound, TargetKey
  <2>3. Passed' <=> Passed
    BY <2>1, <2>2 DEF Passed
  <2>. QED  BY <1>0, <1>1, <1>3, <2>1, <2>2, <2>3, ServedUnmoved DEF ServingInv
<1>4. CASE Forecasting /\ Yield /\ UNCHANGED <<call, served>>
  <2>1. step = "score" /\ step' = "project" /\ TargetKey' = TargetKey /\ clock' = clock /\ history' = history
    BY <1>4 DEF Yield, TargetKey
  <2>2. WalkedKeys' = WalkedKeys
    BY <2>1 DEF WalkedKeys, Keys, Closed
  <2>3. Passed' <=> Passed
    BY <2>1, <2>2 DEF Passed
  <2>. QED  BY <1>0, <1>1, <1>4, <2>1, <2>3, ServedUnmoved DEF ServingInv
<1>5. CASE Forecasting /\ FoldRound /\ UNCHANGED <<call, served>>
  <2>1. WalkedKeys' = WalkedKeys \cup {clock} /\ history' = history
    BY <1>0, <1>5, RoundFolded
  <2>2. step = "fold" /\ step' = "begin" /\ TargetKey' = TargetKey
    BY <1>5 DEF FoldRound, TargetKey
  <2>3. Passed' <=> Passed
    BY <2>1, <2>2 DEF Passed
  <2>. QED  BY <1>0, <1>1, <1>5, <2>1, <2>2, <2>3, ServedUnmoved DEF ServingInv
<1>6. CASE Serve
  <2>1. CallInv'
    BY <1>0, <1>6 DEF Serve, CallInv, Forecasting, SyntheticRowsFor, RowsAsked
  <2>. QED  BY <1>1, <1>6, <2>1, ServeKept DEF ServingInv
<1>7. CASE FinishForecast
  BY <1>1, <1>7, FinishKept DEF ServingInv
<1>8. CASE UNCHANGED forecastVars
  <2>1. Passed' <=> Passed
    BY <1>8 DEF forecastVars, walkVars, Passed, TargetKey, WalkedKeys, Keys, Closed
  <2>2. UNCHANGED <<call, served, history, step, clock>>
    BY <1>8 DEF forecastVars, walkVars
  <2>. QED  BY <1>0, <1>1, <2>1, <2>2, ServedUnmoved DEF ServingInv
<1>. QED  BY <1>2, <1>3, <1>4, <1>5, <1>6, <1>7, <1>8 DEF ForecastNext

(* A gameweek is served from the walk up to it and from what its deadline  *)
(* left: forecast.service.ts over both kinds of parameters.                *)
THEOREM ServesThePast == ForecastSpec => []ServingInv
  BY InitServed, StepServed, PTL DEF ForecastSpec

LEMMA FlagsFollow == ServingInv => ServedFlagsAreOfTheGameweek
<1>. SUFFICES ASSUME ServingInv, Forecasting, step = "served", NEW p \in DOMAIN served
              PROVE  /\ \A q \in served[p].market \cup {p} : served[p].market # {} =>
                           \/ q \in DOMAIN call.snapshot /\ call.snapshot[q].ep # Null
                           \/ call.isNext /\ call.players[q].ep # Null
                     /\ AvailabilityByCode(p).status \in {"u", "n", "s"} =>
                           \A i \in DOMAIN served[p].parts : served[p].parts[i].rates = {}
  BY DEF ServedFlagsAreOfTheGameweek
<1>1. PartsInv(p)
  BY DEF ServingInv, ServedInv
<1>2. \A q \in DOMAIN EpNextByCode : \/ q \in DOMAIN call.snapshot /\ call.snapshot[q].ep # Null
                                     \/ call.isNext /\ call.players[q].ep # Null
  BY DEF EpNextByCode
<1>. QED  BY <1>1, <1>2 DEF PartsInv

(* A forecast is blended with what was published of its gameweek, and who  *)
(* is ruled out has no minutes in it, whatever was captured.               *)
THEOREM ServedFlagsAreOfTheGameweekAlways == ForecastSpec => []ServedFlagsAreOfTheGameweek
  BY ServesThePast, FlagsFollow, PTL

LEMMA RealHistoryFollows == ServingInv => ServedOnRealHistory
<1>. SUFFICES ASSUME ServingInv, Forecasting, step = "served"
              PROVE  /\ DOMAIN served = {p \in DOMAIN call.players : ~call.players[p].removed /\ MatchesOf(p) # {}}
                     /\ \A p \in DOMAIN served :
                           LET parts == served[p].parts
                           IN  /\ {parts[i].row.fixture - 10000 : i \in DOMAIN parts} = MatchesOf(p)
                               /\ Len(parts) = Cardinality(MatchesOf(p))
                               /\ \A i \in DOMAIN parts : \A x \in parts[i].rates :
                                     x[1].player = p /\ x[1].fixture < 10000
  BY DEF ServedOnRealHistory
<1>. DEFINE fx == call.fixtures[call.target]
<1>0. WalkInv /\ CallInv /\ ServedInv /\ ClockInv
  BY DEF ServingInv, WalkInv, KeptInv
<1>1. /\ WellFormed(history) /\ call \in Calls /\ TargetKey \in Keys /\ TargetKey \in Nat \X Nat
      /\ fx \in Seq(Int \X Int)
  BY <1>0, RowsOfTheCall, CallsAssumption
<1>2. Passed
  <2>1. ~Earlier(clock, TargetKey)
    BY <1>0, <1>1 DEF ServedInv, Ahead
  <2>2. clock \in Nat \X Nat
    BY <1>0, <1>1, RowsHaveKeys DEF ClockInv
  <2>3. TargetKey = clock \/ Earlier(TargetKey, clock)
    BY <1>1, <2>1, <2>2, EarlierIsAnOrder
  <2>. QED  BY <1>1, <2>3 DEF Passed, WalkedKeys, Closed
<1>3. DOMAIN served = {r.player : r \in SynRows} /\ \A p \in DOMAIN served : PartsInv(p)
  BY <1>0, <1>2 DEF ServedInv
<1>4. \A p : \A i \in DOMAIN fx : HasMatch(call, i, p) <=> ~call.players[p].removed /\ i \in MatchesOf(p)
  <2>1. \A i : {fx[i][k] : k \in 1..2} = {fx[i][1], fx[i][2]}
    <3>1. 1..2 = {1, 2}
      OBVIOUS
    <3>. QED  BY <3>1
  <2>. QED  BY <2>1 DEF HasMatch, MatchesOf
<1>5. \A p : MatchesOf(p) \subseteq DOMAIN fx
  BY DEF MatchesOf
<1>6. \A i, p : AskedRow(call, i, p).player = p /\ AskedRow(call, i, p).fixture = 10000 + i
  BY DEF AskedRow, RowAsked
<1>7. /\ \A r \in SynRows : \E i \in DOMAIN fx, p \in DOMAIN call.players : HasMatch(call, i, p) /\ r = AskedRow(call, i, p)
      /\ \A i \in DOMAIN fx, p \in DOMAIN call.players : HasMatch(call, i, p) => AskedRow(call, i, p) \in SynRows
  BY <1>1, RowsAskedAre DEF SynRows
<1>8. DOMAIN fx = 1..Len(fx) /\ Len(fx) \in Nat
  BY <1>1
<1>. HIDE DEF fx
<1>9. DOMAIN served = {p \in DOMAIN call.players : ~call.players[p].removed /\ MatchesOf(p) # {}}
  <2>1. ASSUME NEW p \in DOMAIN served
        PROVE  p \in DOMAIN call.players /\ ~call.players[p].removed /\ MatchesOf(p) # {}
    <3>1. PICK r \in SynRows : r.player = p
      BY <1>3
    <3>2. PICK i \in DOMAIN fx, q \in DOMAIN call.players : HasMatch(call, i, q) /\ r = AskedRow(call, i, q)
      BY <1>7
    <3>3. q = p
      BY <1>6, <3>1, <3>2
    <3>. QED  BY <1>4, <3>2, <3>3
  <2>2. ASSUME NEW p \in DOMAIN call.players, ~call.players[p].removed, MatchesOf(p) # {}
        PROVE  p \in DOMAIN served
    <3>1. PICK i \in MatchesOf(p) : TRUE
      BY <2>2
    <3>2. i \in DOMAIN fx /\ HasMatch(call, i, p)
      BY <1>4, <1>5, <2>2
    <3>. QED  BY <1>3, <1>6, <1>7, <3>2
  <2>. QED  BY <2>1, <2>2
<1>10. ASSUME NEW p \in DOMAIN served
       PROVE  LET parts == served[p].parts
              IN  /\ {parts[i].row.fixture - 10000 : i \in DOMAIN parts} = MatchesOf(p)
                  /\ Len(parts) = Cardinality(MatchesOf(p))
                  /\ \A i \in DOMAIN parts : \A x \in parts[i].rates :
                        x[1].player = p /\ x[1].fixture < 10000
  <2>. DEFINE parts == served[p].parts
              rows == RowsIn(parts)
              M == MatchesOf(p)
              T == {r \in SynRows : r.player = p}
              b == [i \in M |-> AskedRow(call, i, p)]
  <2>1. PartsInv(p) /\ p \in DOMAIN call.players /\ ~call.players[p].removed
    BY <1>3, <1>9
  <2>2. Lists(rows, T)
    BY <2>1 DEF PartsInv
  <2>3. DOMAIN rows = DOMAIN parts /\ \A i \in DOMAIN parts : rows[i] = parts[i].row
    BY DEF RowsIn
  <2>4. /\ \A i \in M : i \in DOMAIN fx /\ i \in Int /\ AskedRow(call, i, p) \in T
        /\ \A r \in T : \E i \in M : r = AskedRow(call, i, p)
    <3>1. ASSUME NEW i \in M PROVE i \in DOMAIN fx /\ i \in Int /\ AskedRow(call, i, p) \in T
      BY <1>4, <1>5, <1>6, <1>7, <1>8, <2>1
    <3>2. ASSUME NEW r \in T PROVE \E i \in M : r = AskedRow(call, i, p)
      <4>1. PICK i \in DOMAIN fx, q \in DOMAIN call.players : HasMatch(call, i, q) /\ r = AskedRow(call, i, q)
        BY <1>7
      <4>2. q = p
        BY <1>6, <4>1
      <4>. QED  BY <1>4, <4>1, <4>2
    <3>. QED  BY <3>1, <3>2
  <2>. HIDE DEF M, T
  <2>5. {parts[i].row.fixture - 10000 : i \in DOMAIN parts} = M
    <3>1. ASSUME NEW i \in DOMAIN parts PROVE parts[i].row.fixture - 10000 \in M
      <4>1. parts[i].row \in T
        BY <2>2, <2>3 DEF Lists
      <4>2. PICK j \in M : parts[i].row = AskedRow(call, j, p)
        BY <2>4, <4>1
      <4>3. parts[i].row.fixture = 10000 + j /\ j \in Int
        BY <1>6, <2>4, <4>2
      <4>4. parts[i].row.fixture - 10000 = j
        BY <4>3
      <4>. QED  BY <4>4
    <3>2. ASSUME NEW j \in M PROVE \E i \in DOMAIN parts : parts[i].row.fixture - 10000 = j
      <4>1. PICK i \in DOMAIN rows : rows[i] = AskedRow(call, j, p)
        BY <2>2, <2>4 DEF Lists
      <4>2. i \in DOMAIN parts /\ parts[i].row.fixture = 10000 + j /\ j \in Int
        BY <1>6, <2>3, <2>4, <4>1
      <4>. QED  BY <4>2
    <3>. QED  BY <3>1, <3>2
  <2>6. Len(parts) = Cardinality(M)
    <3>1. b \in Bijection(M, T)
      <4>1. \A i, j \in M : AskedRow(call, i, p) = AskedRow(call, j, p) => i = j
        <5>. TAKE i, j \in M
        <5>1. SUFFICES ASSUME AskedRow(call, i, p) = AskedRow(call, j, p) PROVE i = j
          OBVIOUS
        <5>2. 10000 + i = 10000 + j /\ i \in Int /\ j \in Int
          BY <1>6, <2>4, <5>1
        <5>. QED  BY <5>2
      <4>. QED  BY <2>4, <4>1 DEF Bijection, Injection, Surjection, IsInjective
    <3>2. IsFiniteSet(M)
      <4>1. IsFiniteSet(DOMAIN fx) /\ M \subseteq DOMAIN fx
        BY <1>1, <2>4, DomainOfSeq DEF fx
      <4>. QED  BY <4>1, FS_Subset
    <3>. HIDE DEF b
    <3>3. Cardinality(T) = Cardinality(M)
      BY <3>1, <3>2, FS_Bijection DEF ExistsBijection
    <3>4. Len(rows) = Cardinality(T) /\ DOMAIN rows = 1..Len(rows) /\ Len(rows) \in Nat
      BY <2>2, ListOfAll, DomainOfSeq DEF Lists
    <3>5. Len(parts) = Len(rows)
      <4>1. Cardinality(DOMAIN parts) = Len(parts)
        BY <2>1, DomainOfSeq DEF PartsInv
      <4>2. Cardinality(DOMAIN rows) = Len(rows)
        BY <2>2, DomainOfSeq DEF Lists
      <4>. HIDE DEF parts, rows
      <4>. QED  BY <2>3, <4>1, <4>2
    <3>. QED  BY <3>3, <3>4, <3>5
  <2>7. \A i \in DOMAIN parts : \A x \in parts[i].rates : x[1].player = p /\ x[1].fixture < 10000
    BY <2>1 DEF PartsInv
  <2>. QED  BY <2>5, <2>6, <2>7 DEF M
<1>. QED  BY <1>9, <1>10

(* "Each projection reading real history only" (forecast.service.ts:91):   *)
(* every player with a match in the gameweek is projected, once a match,   *)
(* from his rows that have an outcome, for every history and call.         *)
THEOREM ServedOnRealHistoryAlways == ForecastSpec => []ServedOnRealHistory
  BY ServesThePast, RealHistoryFollows, PTL

-----------------------------------------------------------------------------
(* The backtest: which rows have gone through Project, and through Export. *)
Gone  == {r \in ToSet(history) : Key(r) \in WalkedKeys \/ (Key(r) = clock /\ step \in {"export", "fold"})}
Given == {r \in ToSet(history) : Key(r) \in WalkedKeys \/ (Key(r) = clock /\ step = "fold")}
Known(r) == PastOf(r.player, Key(r)) # {}
Scorable(r) == Nameable(r) /\ Known(r)
Taken(r) == Evaluated(r) /\ Scorable(r)

EmittedInv ==
    /\ emitted \in Seq(ToSet(emitted)) /\ \A i \in DOMAIN emitted : "row" \in DOMAIN emitted[i]
    /\ Lists(RowsIn(emitted), {r \in Gone : Taken(r)})
    /\ skipped \in Seq({"none", "stranger", "team"})
    /\ Len(skipped) = Cardinality({r \in Gone : Evaluated(r) /\ ~Scorable(r)})
    /\ step = "done" => /\ Ahead = {}
                        /\ \A i, j \in DOMAIN emitted : i < j => Before(emitted[i], emitted[j])

LEMMA OpenRound ==
  ASSUME WalkInv, ~Closed
  PROVE  /\ WellFormed(history) /\ clock \in Keys /\ clock \in Nat \X Nat
         /\ WalkedKeys = {j \in Keys : Earlier(j, clock)} /\ clock \notin WalkedKeys
         /\ Folded = Past(clock)
<1>1. WellFormed(history) /\ clock \in Keys
  BY DEF WalkInv, KeptInv, ClockInv
<1>2. clock \in Nat \X Nat
  BY <1>1, RowsHaveKeys
<1>3. WalkedKeys = {j \in Keys : Earlier(j, clock)} /\ clock \notin WalkedKeys
  BY <1>2, EarlierIsAnOrder DEF WalkedKeys
<1>4. Folded = Past(clock)
  BY <1>1, <1>3, RowsHaveKeys DEF Folded, Past
<1>. QED  BY <1>1, <1>2, <1>3, <1>4

(* A row is refused for having no past or no club, and for nothing else.   *)
LEMMA RefusalIs ==
  ASSUME WalkInv, step \in {"project", "export"}, NEW r \in RowsAt(clock)
  PROVE  /\ Refusal(Scored(r, clock[2])) \in {"none", "stranger", "team"}
         /\ Refusal(Scored(r, clock[2])) = "none" <=> Scorable(r)
<1>. DEFINE x == Scored(r, clock[2])
            P == PastOf(r.player, clock)
<1>1. WellFormed(history) /\ Folded = Past(clock)
  BY OpenRound DEF Closed
<1>2. x.row = r /\ x.features.matches = Len(At(career, r.player))
  BY DEF Scored, FeaturesFor
<1>3. Lists(At(career, r.player), P)
  <2>1. AccIs(career, Folded)
    BY DEF WalkInv, KeptInv, AccInv
  <2>2. {q \in Folded : q.player = r.player} = P
    BY <1>1 DEF PastOf
  <2>. HIDE DEF P
  <2>. QED  BY <2>1, <2>2, AccAt
<1>4. x.features.matches = Cardinality(P) /\ IsFiniteSet(P)
  BY <1>2, <1>3, ListOfAll
<1>5. Cardinality(P) \in Nat /\ (Cardinality(P) = 0 <=> P = {})
  BY <1>4, FS_CardinalityType, FS_EmptySet
<1>6. Known(r) <=> P # {}
  BY DEF Known, RowsAt
<1>. HIDE DEF x, P
<1>7. /\ Refusal(x) \in {"none", "stranger", "team"}
      /\ Refusal(x) = "none" <=> Nameable(r) /\ P # {}
  BY <1>2, <1>4, <1>5 DEF Refusal
<1>. QED  BY <1>6, <1>7 DEF Scorable, x

LEMMA RowsInOfTwo ==
  ASSUME NEW S, NEW T, NEW s \in Seq(S), NEW t \in Seq(T)
  PROVE  RowsIn(s \o t) = RowsIn(s) \o RowsIn(t)
<1>. DEFINE A == {x.row : x \in S \cup T}
            m == Len(s) + Len(t)
<1>1. s \in Seq(S \cup T) /\ t \in Seq(S \cup T)
  OBVIOUS
<1>2. /\ s \o t \in Seq(S \cup T) /\ Len(s \o t) = m
      /\ Len(s) \in Nat /\ Len(t) \in Nat /\ DOMAIN s = 1..Len(s) /\ DOMAIN t = 1..Len(t)
      /\ DOMAIN (s \o t) = 1..m
      /\ \A i \in 1..m : (s \o t)[i] = IF i <= Len(s) THEN s[i] ELSE t[i - Len(s)]
  BY <1>1, ConcatProperties, DomainOfSeq
<1>3. \A i \in 1..Len(s) : s[i] \in S \cup T
  BY <1>1
<1>4. \A i \in 1..Len(t) : t[i] \in S \cup T
  BY <1>1
<1>5. RowsIn(s) = [i \in 1..Len(s) |-> s[i].row] /\ RowsIn(t) = [i \in 1..Len(t) |-> t[i].row]
  BY <1>2 DEF RowsIn
<1>6. \A i \in 1..Len(s) : s[i].row \in A
  BY <1>3
<1>7. \A i \in 1..Len(t) : t[i].row \in A
  BY <1>4
<1>. HIDE DEF A
<1>8. RowsIn(s) \in Seq(A) /\ RowsIn(t) \in Seq(A) /\ Len(RowsIn(s)) = Len(s) /\ Len(RowsIn(t)) = Len(t)
  BY <1>2, <1>5, <1>6, <1>7
<1>. DEFINE u == RowsIn(s) \o RowsIn(t)
<1>9. /\ u \in Seq(A) /\ Len(u) = m
      /\ \A i \in 1..m : u[i] = IF i <= Len(s) THEN RowsIn(s)[i] ELSE RowsIn(t)[i - Len(s)]
  <2>. HIDE DEF u
  <2>. QED  BY <1>8, ConcatProperties DEF u
<1>10. u = [i \in 1..m |-> u[i]]
  <2>. HIDE DEF u, m
  <2>. QED  BY <1>9
<1>. HIDE DEF u
<1>11. \A i \in 1..m : u[i] = (s \o t)[i].row
  <2>. TAKE i \in 1..m
  <2>1. CASE i <= Len(s)
    <3>1. i \in 1..Len(s)
      BY <1>2, <2>1
    <3>. QED  BY <1>2, <1>5, <1>9, <2>1, <3>1
  <2>2. CASE ~(i <= Len(s))
    <3>1. i - Len(s) \in 1..Len(t)
      BY <1>2, <2>2
    <3>. QED  BY <1>2, <1>5, <1>9, <2>2, <3>1
  <2>. QED  BY <2>1, <2>2
<1>12. RowsIn(s \o t) = [i \in 1..m |-> (s \o t)[i].row]
  BY <1>2 DEF RowsIn
<1>. QED  BY <1>10, <1>11, <1>12 DEF u

LEMMA OfItself ==
  ASSUME NEW S, NEW s \in Seq(S)
  PROVE  s \in Seq(ToSet(s))
<1>1. DOMAIN s = 1..Len(s) /\ Len(s) \in Nat
  OBVIOUS
<1>2. \A i \in DOMAIN s : s[i] \in ToSet(s)
  BY DEF ToSet
<1>3. s = [i \in 1..Len(s) |-> s[i]]
  OBVIOUS
<1>. QED  BY <1>1, <1>2, <1>3

(* What the round adds to what has gone through, and when.                 *)
LEMMA GoneAndGiven ==
  ASSUME WalkInv
  PROVE  /\ BeginRound => Gone' = Gone /\ Given' = Given /\ Given = Folded
         /\ Yield => Gone' = Gone /\ Given' = Given
         /\ Project => Gone' = Gone \cup RowsAt(clock) /\ Gone \cap RowsAt(clock) = {} /\ Given' = Given
         /\ Export => Given' = Given \cup RowsAt(clock) /\ Given \cap RowsAt(clock) = {} /\ Gone' = Gone
                      /\ Given = Folded
         /\ FoldRound => Gone' = Gone /\ Given' = Given
         /\ FinishBacktest => Gone' = Gone /\ Given' = Given
<1>0. ClockInv
  BY DEF WalkInv, KeptInv
<1>1. ASSUME BeginRound PROVE Gone' = Gone /\ Given' = Given /\ Given = Folded
  <2>1. WalkedKeys' = WalkedKeys /\ history' = history /\ step = "begin" /\ step' = "score"
    BY <1>0, <1>1, NextRound DEF BeginRound
  <2>. QED  BY <2>1 DEF Gone, Given, Folded
<1>2. ASSUME UNCHANGED <<history, clock>>, Closed' <=> Closed
      PROVE  WalkedKeys' = WalkedKeys
  BY <1>2 DEF WalkedKeys, Keys
<1>3. ASSUME Yield PROVE Gone' = Gone /\ Given' = Given
  <2>1. WalkedKeys' = WalkedKeys
    BY <1>2, <1>3 DEF Yield, Closed
  <2>. QED  BY <1>3, <2>1 DEF Yield, Gone, Given
<1>4. ASSUME Project
      PROVE  Gone' = Gone \cup RowsAt(clock) /\ Gone \cap RowsAt(clock) = {} /\ Given' = Given
  <2>1. WalkedKeys' = WalkedKeys
    BY <1>2, <1>4 DEF Project, Closed
  <2>2. clock \notin WalkedKeys
    BY <1>4, OpenRound DEF Project, Closed
  <2>. QED  BY <1>4, <2>1, <2>2 DEF Project, Gone, Given, RowsAt
<1>5. ASSUME Export
      PROVE  Given' = Given \cup RowsAt(clock) /\ Given \cap RowsAt(clock) = {} /\ Gone' = Gone /\ Given = Folded
  <2>1. WalkedKeys' = WalkedKeys
    BY <1>2, <1>5 DEF Export, Closed
  <2>2. clock \notin WalkedKeys
    BY <1>5, OpenRound DEF Export, Closed
  <2>. QED  BY <1>5, <2>1, <2>2 DEF Export, Gone, Given, RowsAt, Folded
<1>6. ASSUME FoldRound PROVE Gone' = Gone /\ Given' = Given
  <2>1. WalkedKeys' = WalkedKeys \cup {clock}
    BY <1>0, <1>6, RoundFolded
  <2>. QED  BY <1>6, <2>1 DEF FoldRound, Gone, Given
<1>7. ASSUME FinishBacktest PROVE Gone' = Gone /\ Given' = Given
  <2>1. WalkedKeys' = WalkedKeys
    BY <1>2, <1>7 DEF FinishBacktest, Closed
  <2>. QED  BY <1>7, <2>1 DEF FinishBacktest, Gone, Given
<1>. QED  BY <1>1, <1>3, <1>4, <1>5, <1>6, <1>7

(* Whether a row is taken depends on the history and the parameters alone. *)
LEMMA TakenKept ==
  ASSUME history' = history, params' = params, NEW r
  PROVE  /\ (Scorable(r))' <=> Scorable(r)
         /\ (Taken(r))' <=> Taken(r)
         /\ (Evaluated(r))' <=> Evaluated(r)
<1>1. PastOf(r.player, Key(r))' = PastOf(r.player, Key(r))
  BY DEF PastOf, Past
<1>. QED  BY <1>1 DEF Scorable, Taken, Known, Evaluated

LEMMA GoneIsFinite == WalkInv => IsFiniteSet(Gone) /\ IsFiniteSet(Given) /\ Gone \subseteq ToSet(history) /\ Given \subseteq ToSet(history)
<1>1. SUFFICES ASSUME WalkInv PROVE IsFiniteSet(Gone) /\ IsFiniteSet(Given) /\ Gone \subseteq ToSet(history) /\ Given \subseteq ToSet(history)
  OBVIOUS
<1>2. IsFiniteSet(ToSet(history))
  <2>1. WellFormed(history)
    BY <1>1 DEF WalkInv, KeptInv, ClockInv
  <2>. QED  BY <2>1, RowsHaveKeys
<1>3. Gone \subseteq ToSet(history) /\ Given \subseteq ToSet(history)
  BY DEF Gone, Given
<1>. QED  BY <1>2, <1>3, FS_Subset

LEMMA ProjectEmits ==
  ASSUME WalkInv, EmittedInv, Project
  PROVE  EmittedInv'
<1>. DEFINE n == clock[2]
            R == RowsAt(clock)
            U == {Scored(r, n) : r \in R}
            T == {r \in R : Taken(r)}
            F == {r \in R : Evaluated(r) /\ ~Scorable(r)}
            C == {Scored(r, n) : r \in T}
            D == {Scored(r, n) : r \in F}
            chosen == Picked(items, {i \in DOMAIN items : items[i] \in C})
            refused == Picked(items, {i \in DOMAIN items : items[i] \in D})
            new == [i \in DOMAIN chosen |-> Prediction(chosen[i])]
            why == [i \in DOMAIN refused |-> Refusal(refused[i])]
<1>0. \A r : Scored(r, n).row = r
  BY DEF Scored
<1>1. Lists(items, U)
  BY ItemsList DEF Project
<1>2. \A r \in R : /\ Refusal(Scored(r, n)) \in {"none", "stranger", "team"}
                   /\ Refusal(Scored(r, n)) = "none" <=> Scorable(r)
  BY RefusalIs DEF Project
<1>3. {i \in {j \in DOMAIN items : Evaluated(items[j].row)} : Refusal(items[i]) = "none"}
         = {i \in DOMAIN items : items[i] \in C}
      /\ {i \in {j \in DOMAIN items : Evaluated(items[j].row)} : Refusal(items[i]) # "none"}
         = {i \in DOMAIN items : items[i] \in D}
  <2>1. \A i \in DOMAIN items : items[i] \in U
    BY <1>1 DEF Lists
  <2>2. \A x \in U : Evaluated(x.row) /\ Refusal(x) = "none" <=> x \in C
    BY <1>0, <1>2 DEF Taken
  <2>3. \A x \in U : Evaluated(x.row) /\ Refusal(x) # "none" <=> x \in D
    BY <1>0, <1>2
  <2>. HIDE DEF U, C, D
  <2>. QED  BY <2>1, <2>2, <2>3
<1>4. emitted' = emitted \o new /\ skipped' = skipped \o why /\ step' = "export" /\ history' = history /\ params' = params
  BY <1>3 DEF Project
<1>5. Lists(chosen, C) /\ Lists(refused, D)
  <2>1. C \in SUBSET U /\ D \in SUBSET U
    OBVIOUS
  <2>. HIDE DEF C, D, U
  <2>. QED  BY <1>1, <2>1, PickedOfList
<1>. HIDE DEF chosen, refused
<1>6. Lists(RowsIn(chosen), T) /\ Lists(RowsIn(refused), F)
  <2>. HIDE DEF T, F, n
  <2>. QED  BY <1>5, RowsOfScored
<1>7. /\ DOMAIN chosen = 1..Len(chosen) /\ Len(chosen) \in Nat
      /\ DOMAIN refused = 1..Len(refused) /\ Len(refused) \in Nat
      /\ \A i \in DOMAIN refused : refused[i] \in D
  <2>. HIDE DEF C, D
  <2>1. chosen \in Seq(C) /\ refused \in Seq(D)
    BY <1>5 DEF Lists
  <2>. QED  BY <2>1, DomainOfSeq
<1>8. /\ new \in Seq(ToSet(new)) /\ \A i \in DOMAIN new : "row" \in DOMAIN new[i]
      /\ RowsIn(new) = RowsIn(chosen)
  <2>1. \A i \in DOMAIN chosen : Prediction(chosen[i]).row = chosen[i].row /\ "row" \in DOMAIN Prediction(chosen[i])
    BY DEF Prediction
  <2>2. DOMAIN new = DOMAIN chosen /\ \A i \in DOMAIN chosen : new[i] = Prediction(chosen[i])
    OBVIOUS
  <2>3. new \in Seq(ToSet(new))
    BY <1>7, <2>2 DEF ToSet
  <2>. HIDE DEF new
  <2>. QED  BY <2>1, <2>2, <2>3 DEF RowsIn
<1>9. why \in Seq({"none", "stranger", "team"}) /\ Len(why) = Cardinality(F)
  <2>1. \A i \in DOMAIN refused : Refusal(refused[i]) \in {"none", "stranger", "team"}
    BY <1>2, <1>7
  <2>2. Len(why) = Len(refused) /\ why \in Seq({"none", "stranger", "team"})
    BY <1>7, <2>1
  <2>3. Len(RowsIn(refused)) = Cardinality(F)
    <3>. HIDE DEF F
    <3>. QED  BY <1>6, ListOfAll
  <2>4. Len(RowsIn(refused)) = Len(refused)
    BY <1>7 DEF RowsIn
  <2>. QED  BY <2>2, <2>3, <2>4
<1>. HIDE DEF new, why
<1>10. Gone' = Gone \cup R /\ Gone \cap R = {}
  BY GoneAndGiven
<1>11. \A r : ((Taken(r))' <=> Taken(r)) /\ ((Scorable(r))' <=> Scorable(r)) /\ ((Evaluated(r))' <=> Evaluated(r))
  BY <1>4, TakenKept
<1>12. {r \in Gone : Taken(r)}' = {r \in Gone : Taken(r)} \cup T
  BY <1>10, <1>11
<1>13. {r \in Gone : Evaluated(r) /\ ~Scorable(r)}' = {r \in Gone : Evaluated(r) /\ ~Scorable(r)} \cup F
  BY <1>10, <1>11
<1>14. Lists(RowsIn(emitted'), {r \in Gone : Taken(r)}')
  <2>. DEFINE A == {r \in Gone : Taken(r)}
  <2>1. RowsIn(emitted \o new) = RowsIn(emitted) \o RowsIn(new)
    <3>1. emitted \in Seq(ToSet(emitted)) /\ new \in Seq(ToSet(new))
      BY <1>8 DEF EmittedInv
    <3>. QED  BY <3>1, RowsInOfTwo
  <2>2. A \cap T = {}
    BY <1>10
  <2>3. Lists(RowsIn(emitted), A)
    BY DEF EmittedInv
  <2>. HIDE DEF A, T
  <2>4. Lists(RowsIn(emitted) \o RowsIn(chosen), A \cup T)
    BY <1>6, <2>2, <2>3, ListsJoin
  <2>. QED  BY <1>4, <1>8, <1>12, <2>1, <2>4 DEF A
<1>15. Len(skipped') = Cardinality({r \in Gone : Evaluated(r) /\ ~Scorable(r)}')
       /\ skipped' \in Seq({"none", "stranger", "team"})
  <2>. DEFINE B == {r \in Gone : Evaluated(r) /\ ~Scorable(r)}
  <2>1. skipped \in Seq({"none", "stranger", "team"}) /\ Len(skipped) = Cardinality(B)
    BY DEF EmittedInv
  <2>2. skipped \o why \in Seq({"none", "stranger", "team"}) /\ Len(skipped \o why) = Len(skipped) + Len(why)
    BY <1>9, <2>1
  <2>3. IsFiniteSet(B) /\ IsFiniteSet(F) /\ B \cap F = {}
    <3>1. IsFiniteSet(Gone) /\ IsFiniteSet(R)
      <4>0. WellFormed(history)
        BY DEF WalkInv, KeptInv, ClockInv
      <4>1. R \subseteq ToSet(history) /\ IsFiniteSet(ToSet(history))
        BY <4>0, RowsHaveKeys DEF RowsAt
      <4>. HIDE DEF R
      <4>. QED  BY <4>1, GoneIsFinite, FS_Subset
    <3>2. IsFiniteSet(B) /\ IsFiniteSet(F)
      BY <3>1, FS_Subset
    <3>. QED  BY <1>10, <3>2
  <2>. HIDE DEF B, F
  <2>4. Cardinality(B \cup F) = Cardinality(B) + Cardinality(F)
    <3>1. Cardinality(B \cup F) = Cardinality(B) + Cardinality(F) - Cardinality(B \cap F)
      BY <2>3, FS_Union
    <3>2. Cardinality(B) \in Nat /\ Cardinality(F) \in Nat /\ Cardinality(B \cap F) = 0
      BY <2>3, FS_CardinalityType, FS_EmptySet
    <3>. QED  BY <3>1, <3>2
  <2>. QED  BY <1>4, <1>9, <1>13, <2>1, <2>2, <2>4 DEF B
<1>16. emitted' \in Seq(ToSet(emitted')) /\ \A i \in DOMAIN emitted' : "row" \in DOMAIN emitted'[i]
  <2>. DEFINE S == ToSet(emitted) \cup ToSet(new)
  <2>1. emitted \in Seq(S) /\ new \in Seq(S)
    BY <1>8 DEF EmittedInv
  <2>2. emitted' \in Seq(S) /\ ToSet(emitted') = ToSet(emitted) \cup ToSet(new)
    <3>. HIDE DEF S
    <3>. QED  BY <1>4, <2>1, ToSetOfTwo
  <2>3. emitted' \in Seq(ToSet(emitted'))
    BY <2>2, OfItself
  <2>4. \A x \in ToSet(emitted) \cup ToSet(new) : "row" \in DOMAIN x
    BY <1>8 DEF EmittedInv, ToSet
  <2>. QED  BY <2>2, <2>3, <2>4
<1>. QED  BY <1>4, <1>14, <1>15, <1>16 DEF EmittedInv

-----------------------------------------------------------------------------
(* The order the rows of the result are put in.                            *)

Sortable(r) == {r.season, r.round, r.player, r.opp} \subseteq Int /\ r.home \in BOOLEAN
SameKey(q, r) ==
    /\ q.season = r.season /\ q.round = r.round /\ q.player = r.player
    /\ q.opp = r.opp /\ q.home = r.home
Ground(r) == IF r.home THEN 0 ELSE 1

LEMMA InOrderIs ==
  ASSUME NEW q, NEW r
  PROVE  InOrder(CanonicalKey(q), CanonicalKey(r)) <=>
            \/ q.season < r.season
            \/ q.season = r.season /\ q.round < r.round
            \/ q.season = r.season /\ q.round = r.round /\ q.player < r.player
            \/ q.season = r.season /\ q.round = r.round /\ q.player = r.player /\ q.opp < r.opp
            \/ q.season = r.season /\ q.round = r.round /\ q.player = r.player /\ q.opp = r.opp
                  /\ Ground(q) < Ground(r)
<1>. DEFINE x == CanonicalKey(q)
            y == CanonicalKey(r)
<1>1. /\ x[1] = q.season /\ x[2] = q.round /\ x[3] = q.player /\ x[4] = q.opp /\ x[5] = Ground(q)
      /\ y[1] = r.season /\ y[2] = r.round /\ y[3] = r.player /\ y[4] = r.opp /\ y[5] = Ground(r)
      /\ DOMAIN x = 1..5
  BY DEF CanonicalKey, Ground
<1>. HIDE DEF x, y
<1>2. 1..0 = {} /\ 1..1 = {1} /\ 1..2 = {1, 2} /\ 1..3 = {1, 2, 3} /\ 1..4 = {1, 2, 3, 4} /\ 1..5 = {1, 2, 3, 4, 5}
  OBVIOUS
<1>3. InOrder(x, y) <=> \E i \in {1, 2, 3, 4, 5} : x[i] < y[i] /\ \A j \in 1..i - 1 : x[j] = y[j]
  BY <1>1, <1>2 DEF InOrder
<1>4. InOrder(x, y) <=>
         \/ x[1] < y[1]
         \/ x[1] = y[1] /\ x[2] < y[2]
         \/ x[1] = y[1] /\ x[2] = y[2] /\ x[3] < y[3]
         \/ x[1] = y[1] /\ x[2] = y[2] /\ x[3] = y[3] /\ x[4] < y[4]
         \/ x[1] = y[1] /\ x[2] = y[2] /\ x[3] = y[3] /\ x[4] = y[4] /\ x[5] < y[5]
  <2>1. 1 - 1 = 0 /\ 2 - 1 = 1 /\ 3 - 1 = 2 /\ 4 - 1 = 3 /\ 5 - 1 = 4
    OBVIOUS
  <2>. QED  BY <1>2, <1>3, <2>1
<1>. QED  BY <1>1, <1>4 DEF x, y

LEMMA RowsInAnOrder ==
  ASSUME NEW T, \A r \in T : Sortable(r),
         \A q, r \in T : SameKey(q, r) => q = r
  PROVE  /\ \A q \in T : ~InOrder(CanonicalKey(q), CanonicalKey(q))
         /\ \A p, q, r \in T : InOrder(CanonicalKey(p), CanonicalKey(q)) /\ InOrder(CanonicalKey(q), CanonicalKey(r))
                                  => InOrder(CanonicalKey(p), CanonicalKey(r))
         /\ \A q, r \in T : q = r \/ InOrder(CanonicalKey(q), CanonicalKey(r)) \/ InOrder(CanonicalKey(r), CanonicalKey(q))
<1>1. \A r \in T : /\ r.season \in Int /\ r.round \in Int /\ r.player \in Int /\ r.opp \in Int /\ Ground(r) \in Int
                   /\ r.home \in BOOLEAN
  BY DEF Sortable, Ground
<1>2. \A q, r \in T : Ground(q) = Ground(r) => q.home = r.home
  BY <1>1 DEF Ground
<1>3. \A q \in T : ~InOrder(CanonicalKey(q), CanonicalKey(q))
  BY <1>1, InOrderIs
<1>4. ASSUME NEW p \in T, NEW q \in T, NEW r \in T,
             InOrder(CanonicalKey(p), CanonicalKey(q)), InOrder(CanonicalKey(q), CanonicalKey(r))
      PROVE  InOrder(CanonicalKey(p), CanonicalKey(r))
  BY <1>1, <1>4, InOrderIs
<1>5. ASSUME NEW q \in T, NEW r \in T, q # r
      PROVE  InOrder(CanonicalKey(q), CanonicalKey(r)) \/ InOrder(CanonicalKey(r), CanonicalKey(q))
  <2>1. ~(/\ q.season = r.season /\ q.round = r.round /\ q.player = r.player
          /\ q.opp = r.opp /\ Ground(q) = Ground(r))
    BY <1>2, <1>5 DEF SameKey
  <2>. QED  BY <1>1, <2>1, InOrderIs
<1>. QED  BY <1>3, <1>4, <1>5

(* What is sorted has the rows it had, one after the other in their order. *)
LEMMA SortedIs ==
  ASSUME NEW s, s \in Seq(ToSet(s)), \A i \in DOMAIN s : "row" \in DOMAIN s[i],
         NEW T, Lists(RowsIn(s), T), \A r \in T : Sortable(r),
         \A q, r \in T : SameKey(q, r) => q = r
  PROVE  LET u == Sorted(s)
         IN  /\ u \in Seq(ToSet(u)) /\ \A i \in DOMAIN u : "row" \in DOMAIN u[i]
             /\ Lists(RowsIn(u), T)
             /\ \A i, j \in DOMAIN u : i < j => Before(u[i], u[j])
<1>. DEFINE D == DOMAIN s
            N == Len(s)
            ahead(j, i) == Before(s[j], s[i]) \/ (~Before(s[i], s[j]) /\ j < i)
            R == {z \in D \X D : ahead(z[1], z[2])}
            P(n) == CHOOSE i \in D : Cardinality({j \in D : ahead(j, i)}) = n - 1
            u == Sorted(s)
<1>1. D = 1..N /\ N \in Nat /\ IsFiniteSet(D) /\ Cardinality(D) = N
  BY DomainOfSeq
<1>2. /\ \A i \in D : s[i].row \in T
      /\ \A i, j \in D : s[i].row = s[j].row => i = j
      /\ \A r \in T : \E i \in D : s[i].row = r
  <2>1. RowsIn(s) \in Seq(T)
    BY DEF Lists
  <2>2. DOMAIN RowsIn(s) = D /\ \A i \in D : RowsIn(s)[i] = s[i].row
    BY DEF RowsIn
  <2>3. \A i \in DOMAIN RowsIn(s) : RowsIn(s)[i] \in T
    BY <2>1, DomainOfSeq
  <2>. QED  BY <2>2, <2>3 DEF Lists
<1>3. \A i, j \in D : Before(s[i], s[j]) <=> InOrder(CanonicalKey(s[i].row), CanonicalKey(s[j].row))
  BY DEF Before
<1>4. /\ \A i \in D : ~Before(s[i], s[i])
      /\ \A i, j, k \in D : Before(s[i], s[j]) /\ Before(s[j], s[k]) => Before(s[i], s[k])
      /\ \A i, j \in D : i = j \/ Before(s[i], s[j]) \/ Before(s[j], s[i])
  <2>1. /\ \A q \in T : ~InOrder(CanonicalKey(q), CanonicalKey(q))
        /\ \A p, q, r \in T : InOrder(CanonicalKey(p), CanonicalKey(q)) /\ InOrder(CanonicalKey(q), CanonicalKey(r))
                                  => InOrder(CanonicalKey(p), CanonicalKey(r))
        /\ \A q, r \in T : q = r \/ InOrder(CanonicalKey(q), CanonicalKey(r)) \/ InOrder(CanonicalKey(r), CanonicalKey(q))
    BY RowsInAnOrder
  <2>. QED  BY <1>2, <1>3, <2>1
<1>5. \A i, j \in D : ahead(j, i) <=> Before(s[j], s[i])
  <2>. TAKE i, j \in D
  <2>1. i \in Int /\ j \in Int
    BY <1>1
  <2>2. CASE i = j
    BY <1>4, <2>1, <2>2
  <2>3. CASE i # j
    BY <1>4, <2>3
  <2>. QED  BY <2>2, <2>3
<1>6. \A i, j \in D : <<j, i>> \in R <=> Before(s[j], s[i])
  BY <1>5
<1>7. \A i \in D : {j \in D : ahead(j, i)} = Below(D, R, i)
  BY <1>5, <1>6 DEF Below
<1>8. u = [n \in D |-> s[P(n)]]
  BY DEF Sorted
<1>9. /\ \A x \in D : Cardinality(Below(D, R, x)) \in 0..(N - 1)
      /\ \A x, y \in D : <<x, y>> \in R => Cardinality(Below(D, R, x)) < Cardinality(Below(D, R, y))
      /\ \A k \in 0..(N - 1) : \E x \in D : Cardinality(Below(D, R, x)) = k
  <2>1. /\ \A x \in D : <<x, x>> \notin R
        /\ \A x, y, z \in D : <<x, y>> \in R /\ <<y, z>> \in R => <<x, z>> \in R
        /\ \A x, y \in D : x = y \/ <<x, y>> \in R \/ <<y, x>> \in R
    BY <1>4, <1>6
  <2>2. IsFiniteSet(D) /\ Cardinality(D) = N
    BY <1>1
  <2>. HIDE DEF R, D, N
  <2>3. /\ \A x \in D : Cardinality(Below(D, R, x)) \in 0..(Cardinality(D) - 1)
        /\ \A x, y \in D : <<x, y>> \in R => Cardinality(Below(D, R, x)) < Cardinality(Below(D, R, y))
        /\ \A k \in 0..(Cardinality(D) - 1) : \E x \in D : Cardinality(Below(D, R, x)) = k
    BY <2>1, <2>2, RanksOfAnOrder
  <2>. QED  BY <2>2, <2>3
<1>10. \A n \in D : P(n) \in D /\ Cardinality(Below(D, R, P(n))) = n - 1
  <2>. TAKE n \in D
  <2>1. n - 1 \in 0..(N - 1)
    BY <1>1
  <2>2. PICK x \in D : Cardinality(Below(D, R, x)) = n - 1
    BY <1>9, <2>1
  <2>3. \E i \in D : Cardinality({j \in D : ahead(j, i)}) = n - 1
    BY <1>7, <2>2
  <2>4. P(n) \in D /\ Cardinality({j \in D : ahead(j, P(n))}) = n - 1
    <3>. HIDE DEF ahead, D
    <3>. QED  BY <2>3
  <2>. HIDE DEF P, ahead, R
  <2>. QED  BY <1>7, <2>4
<1>. HIDE DEF P, ahead, R, u
<1>11. \A m, n \in D : m < n => Before(s[P(m)], s[P(n)])
  <2>. TAKE m, n \in D
  <2>1. SUFFICES ASSUME m < n PROVE Before(s[P(m)], s[P(n)])
    OBVIOUS
  <2>2. /\ P(m) \in D /\ P(n) \in D /\ m \in Nat /\ n \in Nat
        /\ Cardinality(Below(D, R, P(m))) = m - 1 /\ Cardinality(Below(D, R, P(n))) = n - 1
    BY <1>1, <1>10
  <2>3. ~(Cardinality(Below(D, R, P(n))) < Cardinality(Below(D, R, P(m)))) /\ P(m) # P(n)
    BY <2>1, <2>2
  <2>4. <<P(n), P(m)>> \notin R
    BY <1>9, <2>2, <2>3
  <2>. QED  BY <1>4, <1>6, <2>2, <2>3, <2>4
<1>12. \A x \in D : \E n \in D : P(n) = x
  <2>. TAKE x \in D
  <2>. DEFINE n == Cardinality(Below(D, R, x)) + 1
  <2>1. n \in D /\ n - 1 = Cardinality(Below(D, R, x))
    BY <1>1, <1>9
  <2>2. P(n) \in D /\ Cardinality(Below(D, R, P(n))) = Cardinality(Below(D, R, x))
    BY <1>10, <2>1
  <2>3. <<P(n), x>> \notin R /\ <<x, P(n)>> \notin R
    <3>. DEFINE a == Cardinality(Below(D, R, P(n)))
                b == Cardinality(Below(D, R, x))
    <3>1. a = b /\ b \in Int
      BY <1>9, <2>2
    <3>2. ~(a < b) /\ ~(b < a)
      <4>. HIDE DEF a, b, n
      <4>. QED  BY <3>1
    <3>. HIDE DEF n
    <3>. QED  BY <1>9, <2>2, <3>2
  <2>4. P(n) = x
    <3>. HIDE DEF n
    <3>. QED  BY <1>4, <1>6, <2>2, <2>3
  <2>. QED  BY <2>1, <2>4
<1>13. DOMAIN u = D /\ \A n \in D : u[n] = s[P(n)]
  BY <1>8
<1>14. u \in Seq(ToSet(u))
  BY <1>1, <1>8 DEF ToSet
<1>15. \A i \in DOMAIN u : "row" \in DOMAIN u[i]
  BY <1>10, <1>13
<1>16. \A i, j \in DOMAIN u : i < j => Before(u[i], u[j])
  BY <1>11, <1>13
<1>17. Lists(RowsIn(u), T)
  <2>1. DOMAIN RowsIn(u) = D /\ \A n \in D : RowsIn(u)[n] = s[P(n)].row
    BY <1>13 DEF RowsIn
  <2>2. \A n \in D : RowsIn(u)[n] \in T
    BY <1>2, <1>10, <2>1
  <2>3. RowsIn(u) \in Seq(T)
    <3>1. RowsIn(u) = [n \in D |-> RowsIn(u)[n]]
      BY <2>1 DEF RowsIn
    <3>. QED  BY <1>1, <2>2, <3>1
  <2>4. \A m, n \in D : RowsIn(u)[m] = RowsIn(u)[n] => m = n
    <3>. TAKE m, n \in D
    <3>1. SUFFICES ASSUME RowsIn(u)[m] = RowsIn(u)[n] PROVE m = n
      OBVIOUS
    <3>2. P(m) = P(n)
      BY <1>2, <1>10, <2>1, <3>1
    <3>3. m \in Nat /\ n \in Nat /\ m - 1 = n - 1
      BY <1>1, <1>10, <3>2
    <3>. QED  BY <3>3
  <2>5. \A r \in T : \E n \in D : RowsIn(u)[n] = r
    BY <1>2, <1>12, <2>1
  <2>. QED  BY <2>1, <2>3, <2>4, <2>5 DEF Lists
<1>. QED  BY <1>14, <1>15, <1>16, <1>17 DEF u

LEMMA FinishSorts ==
  ASSUME WalkInv, EmittedInv, history \in Histories, FinishBacktest
  PROVE  EmittedInv'
<1>. DEFINE T == {r \in Gone : Taken(r)}
            b == Blended(emitted)
<1>0. /\ WellFormed(history) /\ FacedOnce(history)
      /\ step = "begin" /\ step' = "done" /\ Ahead = {} /\ emitted' = Sorted(b) /\ skipped' = skipped
      /\ history' = history /\ params' = params /\ clock' = clock
  BY HistoriesAssumption DEF FinishBacktest
<1>1. Gone' = Gone
  BY GoneAndGiven
<1>2. \A r : ((Taken(r))' <=> Taken(r)) /\ ((Scorable(r))' <=> Scorable(r)) /\ ((Evaluated(r))' <=> Evaluated(r))
  BY <1>0, TakenKept
<1>3. /\ emitted \in Seq(ToSet(emitted)) /\ \A i \in DOMAIN emitted : "row" \in DOMAIN emitted[i]
      /\ Lists(RowsIn(emitted), T)
  BY DEF EmittedInv
<1>4. /\ DOMAIN b = DOMAIN emitted
      /\ \A i \in DOMAIN b : "row" \in DOMAIN b[i] /\ b[i].row = emitted[i].row
  <2>. DEFINE with(i) == {j \in DOMAIN emitted : /\ Key(emitted[j].row) = Key(emitted[i].row)
                                                /\ {emitted[i].row.ep, emitted[j].row.ep} \cap {Null} = {}}
  <2>1. b = [i \in DOMAIN emitted |-> [emitted[i] EXCEPT !.blend = with(i)]]
    BY DEF Blended
  <2>. HIDE DEF with, b
  <2>2. \A i \in DOMAIN emitted : b[i] = [emitted[i] EXCEPT !.blend = with(i)]
    BY <2>1
  <2>3. ASSUME NEW x, NEW e, "row" \in DOMAIN x
        PROVE  "row" \in DOMAIN [x EXCEPT !.blend = e] /\ [x EXCEPT !.blend = e].row = x.row
    BY <2>3
  <2>4. DOMAIN b = DOMAIN emitted
    BY <2>1
  <2>. QED  BY <1>3, <2>2, <2>3, <2>4
<1>5. b \in Seq(ToSet(b))
  <2>1. DOMAIN emitted = 1..Len(emitted) /\ Len(emitted) \in Nat
    BY <1>3, DomainOfSeq
  <2>2. b = [i \in 1..Len(emitted) |-> b[i]]
    BY <1>4, <2>1 DEF Blended
  <2>3. \A i \in 1..Len(emitted) : b[i] \in ToSet(b)
    BY <1>4, <2>1 DEF ToSet
  <2>. HIDE DEF b
  <2>. QED  BY <2>1, <2>2, <2>3
<1>. HIDE DEF b
<1>6. RowsIn(b) = RowsIn(emitted)
  BY <1>4 DEF RowsIn
<1>7. \A r \in T : r \in ToSet(history) /\ Nameable(r)
  BY DEF Gone, Taken, Scorable
<1>8. \A r \in ToSet(history) : Sortable(r)
  BY <1>0 DEF WellFormed, Sortable
<1>9. \A q, r \in T : SameKey(q, r) => q = r
  <2>. TAKE q, r \in T
  <2>. DEFINE N == {x \in ToSet(history) : Nameable(x)}
              face(x) == <<Key(x), x.player, x.opp, x.home>>
  <2>1. q \in N /\ r \in N
    BY <1>7
  <2>2. \A x, y \in N : face(x) = face(y) => x = y
    BY <1>0 DEF FacedOnce
  <2>. HIDE DEF T, N
  <2>3. SameKey(q, r) => face(q) = face(r)
    BY DEF Key, SameKey
  <2>. HIDE DEF face
  <2>. QED  BY <2>1, <2>2, <2>3
<1>10. \A r \in T : Sortable(r)
  BY <1>7, <1>8
<1>. DEFINE u == Sorted(b)
<1>11. /\ u \in Seq(ToSet(u)) /\ \A i \in DOMAIN u : "row" \in DOMAIN u[i]
       /\ Lists(RowsIn(u), T)
       /\ \A i, j \in DOMAIN u : i < j => Before(u[i], u[j])
  <2>1. Lists(RowsIn(b), T)
    BY <1>3, <1>6
  <2>2. \A i \in DOMAIN b : "row" \in DOMAIN b[i]
    BY <1>4
  <2>. HIDE DEF T
  <2>. QED  BY <1>5, <1>9, <1>10, <2>1, <2>2, SortedIs
<1>. HIDE DEF u
<1>12. T' = T /\ {r \in Gone : Evaluated(r) /\ ~Scorable(r)}' = {r \in Gone : Evaluated(r) /\ ~Scorable(r)}
  BY <1>1, <1>2
<1>13. emitted' = u /\ Ahead' = {}
  BY <1>0 DEF u, Ahead, Keys
<1>14. /\ emitted' \in Seq(ToSet(emitted')) /\ \A i \in DOMAIN emitted' : "row" \in DOMAIN emitted'[i]
       /\ Lists(RowsIn(emitted'), T')
       /\ \A i, j \in DOMAIN emitted' : i < j => Before(emitted'[i], emitted'[j])
  <2>. HIDE DEF T
  <2>. QED  BY <1>11, <1>12, <1>13
<1>15. skipped' \in Seq({"none", "stranger", "team"})
       /\ Len(skipped') = Cardinality({r \in Gone : Evaluated(r) /\ ~Scorable(r)}')
  BY <1>0, <1>12 DEF EmittedInv
<1>. QED  BY <1>13, <1>14, <1>15 DEF EmittedInv

(* A step that emits nothing.                                              *)
LEMMA EmittedUnmoved ==
  ASSUME EmittedInv, UNCHANGED <<history, params, emitted, skipped>>, Gone' = Gone,
         step' = "done" => step = "done" /\ clock' = clock
  PROVE  EmittedInv'
<1>1. \A r : ((Taken(r))' <=> Taken(r)) /\ ((Scorable(r))' <=> Scorable(r)) /\ ((Evaluated(r))' <=> Evaluated(r))
  BY TakenKept
<1>2. {r \in Gone : Taken(r)}' = {r \in Gone : Taken(r)}
  BY <1>1
<1>3. {r \in Gone : Evaluated(r) /\ ~Scorable(r)}' = {r \in Gone : Evaluated(r) /\ ~Scorable(r)}
  BY <1>1
<1>4. step' = "done" => Ahead' = Ahead
  BY DEF Ahead, Keys
<1>5. Lists(RowsIn(emitted), {r \in Gone : Taken(r)})' = Lists(RowsIn(emitted), {r \in Gone : Taken(r)})
  BY <1>2
<1>6. Cardinality({r \in Gone : Evaluated(r) /\ ~Scorable(r)})' = Cardinality({r \in Gone : Evaluated(r) /\ ~Scorable(r)})
  BY <1>3
<1>7. Lists(RowsIn(emitted), {r \in Gone : Taken(r)}) /\ Len(skipped) = Cardinality({r \in Gone : Evaluated(r) /\ ~Scorable(r)})
  BY DEF EmittedInv
<1>8. Lists(RowsIn(emitted), {r \in Gone : Taken(r)})'
  BY <1>5, <1>7
<1>9. Len(skipped)' = Cardinality({r \in Gone : Evaluated(r) /\ ~Scorable(r)})'
  BY <1>6, <1>7
<1>10. step' = "done" => /\ Ahead' = {}
                         /\ \A i, j \in DOMAIN emitted' : i < j => Before(emitted'[i], emitted'[j])
  BY <1>4 DEF EmittedInv
<1>11. /\ emitted' \in Seq(ToSet(emitted')) /\ \A i \in DOMAIN emitted' : "row" \in DOMAIN emitted'[i]
       /\ skipped' \in Seq({"none", "stranger", "team"})
  BY DEF EmittedInv
<1>. QED  BY <1>8, <1>9, <1>10, <1>11 DEF EmittedInv

(* The backtest's invariant, and that a forecast is none.                  *)
BacktestInv ==
    /\ ~Forecasting => history \in Histories /\ EmittedInv
    /\ Forecasting => step # "done" /\ exported = {}

LEMMA NothingGone ==
  ASSUME NothingWalked, WellFormed(history)
  PROVE  Gone = {} /\ Given = {}
<1>1. Closed /\ clock = Start /\ step = "begin"
  BY DEF NothingWalked, Closed
<1>2. WalkedKeys = {}
  BY <1>1, NothingBeforeTheStart DEF WalkedKeys
<1>. QED  BY <1>1, <1>2 DEF Gone, Given

LEMMA InitEmitted == ForecastInit => BacktestInv
<1>1. SUFFICES ASSUME ForecastInit PROVE BacktestInv
  OBVIOUS
<1>2. NothingWalked
  BY <1>1 DEF ForecastInit, WalkInit
<1>3. Forecasting => step # "done" /\ exported = {}
  BY <1>2 DEF NothingWalked
<1>4. ASSUME ~Forecasting PROVE history \in Histories /\ EmittedInv
  <2>1. history \in Histories
    BY <1>1, <1>4, CallsAssumption DEF ForecastInit, WalkInit, Forecasting
  <2>2. Gone = {}
    BY <1>2, <2>1, HistoriesAssumption, NothingGone
  <2>3. emitted = <<>> /\ skipped = <<>> /\ step = "begin"
    BY <1>2 DEF NothingWalked
  <2>4. {r \in Gone : Taken(r)} = {} /\ {r \in Gone : Evaluated(r) /\ ~Scorable(r)} = {}
    BY <2>2
  <2>5. RowsIn(emitted) = <<>>
    BY <2>3 DEF RowsIn
  <2>6. Lists(RowsIn(emitted), {r \in Gone : Taken(r)})
    BY <2>4, <2>5, ListsNothing
  <2>7. Len(skipped) = Cardinality({r \in Gone : Evaluated(r) /\ ~Scorable(r)})
    BY <2>3, <2>4, FS_EmptySet
  <2>8. emitted \in Seq(ToSet(emitted)) /\ DOMAIN emitted = {} /\ skipped \in Seq({"none", "stranger", "team"})
    BY <2>3
  <2>. QED  BY <2>1, <2>3, <2>6, <2>7, <2>8 DEF EmittedInv
<1>. QED  BY <1>3, <1>4 DEF BacktestInv

LEMMA StepEmitted == WalkInv /\ BacktestInv /\ [ForecastNext]_forecastVars => BacktestInv'
<1>. SUFFICES ASSUME WalkInv, BacktestInv, [ForecastNext]_forecastVars PROVE BacktestInv'
  OBVIOUS
<1>1. CASE ~Forecasting /\ WalkNext /\ UNCHANGED <<call, served>>
  <2>0. EmittedInv /\ history \in Histories /\ ~Forecasting'
    BY <1>1 DEF BacktestInv, Forecasting
  <2>1. CASE BeginRound
    <3>1. Gone' = Gone /\ UNCHANGED <<history, params, emitted, skipped>> /\ step' = "score"
      BY <2>1, GoneAndGiven DEF BeginRound
    <3>. QED  BY <2>0, <3>1, EmittedUnmoved DEF BacktestInv
  <2>2. CASE Yield
    <3>1. Gone' = Gone /\ UNCHANGED <<history, params, emitted, skipped>> /\ step' = "project"
      BY <2>2, GoneAndGiven DEF Yield
    <3>. QED  BY <2>0, <3>1, EmittedUnmoved DEF BacktestInv
  <2>3. CASE Project
    <3>1. EmittedInv' /\ history' = history
      BY <2>0, <2>3, ProjectEmits DEF Project
    <3>. QED  BY <2>0, <3>1 DEF BacktestInv
  <2>4. CASE Export
    <3>1. Gone' = Gone /\ UNCHANGED <<history, params, emitted, skipped>> /\ step' = "fold"
      BY <2>4, GoneAndGiven DEF Export
    <3>. QED  BY <2>0, <3>1, EmittedUnmoved DEF BacktestInv
  <2>5. CASE FoldRound
    <3>1. Gone' = Gone /\ UNCHANGED <<history, params, emitted, skipped>> /\ step' = "begin"
      BY <2>5, GoneAndGiven DEF FoldRound
    <3>. QED  BY <2>0, <3>1, EmittedUnmoved DEF BacktestInv
  <2>6. CASE FinishBacktest
    <3>1. EmittedInv' /\ history' = history
      BY <2>0, <2>6, FinishSorts DEF FinishBacktest
    <3>. QED  BY <2>0, <3>1 DEF BacktestInv
  <2>. QED  BY <1>1, <2>1, <2>2, <2>3, <2>4, <2>5, <2>6 DEF WalkNext
<1>2. CASE Forecasting /\ (BeginRound \/ Yield \/ FoldRound) /\ UNCHANGED <<call, served>>
  <2>1. Forecasting' /\ step' # "done" /\ exported' = {}
    BY <1>2 DEF BacktestInv, Forecasting, BeginRound, Yield, FoldRound
  <2>. QED  BY <2>1 DEF BacktestInv
<1>3. CASE Serve \/ FinishForecast
  <2>1. Forecasting' /\ step' # "done" /\ exported' = {}
    BY <1>3 DEF BacktestInv, Forecasting, Serve, FinishForecast
  <2>. QED  BY <2>1 DEF BacktestInv
<1>4. CASE UNCHANGED forecastVars
  <2>1. /\ UNCHANGED <<history, params, emitted, skipped, step, clock, exported>>
        /\ (Forecasting' <=> Forecasting)
    BY <1>4 DEF forecastVars, walkVars, Forecasting
  <2>2. Gone' = Gone
    BY <2>1 DEF Gone, WalkedKeys, Keys, Closed
  <2>3. EmittedInv => EmittedInv'
    BY <2>1, <2>2, EmittedUnmoved
  <2>. QED  BY <2>1, <2>3 DEF BacktestInv
<1>. QED  BY <1>1, <1>2, <1>3, <1>4 DEF ForecastNext

LEMMA AccountFollows == WalkInv /\ BacktestInv => EveryRowIsAccountedFor
<1>. SUFFICES ASSUME WalkInv, BacktestInv, step = "done" PROVE EveryRowIsAccountedFor
  BY DEF EveryRowIsAccountedFor
<1>. DEFINE A == {r \in Gone : Taken(r)}
            B == {r \in Gone : Evaluated(r) /\ ~Scorable(r)}
<1>1. EmittedInv /\ Ahead = {} /\ ClockInv /\ WellFormed(history) /\ Closed
  BY DEF BacktestInv, EmittedInv, WalkInv, KeptInv, ClockInv, Closed
<1>2. WalkedKeys = Keys
  <2>1. \A k \in Keys : k \in Nat \X Nat /\ ~Earlier(clock, k)
    BY <1>1, RowsHaveKeys DEF Ahead
  <2>2. clock \in Nat \X Nat
    BY <1>1, RowsHaveKeys DEF ClockInv
  <2>. QED  BY <1>1, <2>1, <2>2, EarlierIsAnOrder DEF WalkedKeys
<1>3. Gone = ToSet(history) /\ IsFiniteSet(Gone)
  BY <1>1, <1>2, RowsHaveKeys DEF Gone
<1>4. IsFiniteSet(A) /\ IsFiniteSet(B) /\ A \cap B = {} /\ A \cup B = {r \in ToSet(history) : Evaluated(r)}
  <2>1. IsFiniteSet(A) /\ IsFiniteSet(B)
    BY <1>3, FS_Subset
  <2>. QED  BY <1>3, <2>1 DEF Taken
<1>5. Len(emitted) = Cardinality(A)
  <2>1. Lists(RowsIn(emitted), A) /\ emitted \in Seq(ToSet(emitted))
    BY <1>1 DEF EmittedInv
  <2>. HIDE DEF A
  <2>2. Len(RowsIn(emitted)) = Cardinality(A)
    BY <2>1, ListOfAll
  <2>3. DOMAIN emitted = 1..Len(emitted) /\ Len(emitted) \in Nat
    BY <2>1, DomainOfSeq
  <2>4. Len(RowsIn(emitted)) = Len(emitted)
    BY <2>3 DEF RowsIn
  <2>. QED  BY <2>2, <2>4
<1>6. Len(skipped) = Cardinality(B)
  BY <1>1 DEF EmittedInv
<1>7. Cardinality(A \cup B) = Cardinality(A) + Cardinality(B)
  <2>. HIDE DEF A, B
  <2>1. Cardinality(A \cup B) = Cardinality(A) + Cardinality(B) - Cardinality(A \cap B)
    BY <1>4, FS_Union
  <2>2. Cardinality(A) \in Nat /\ Cardinality(B) \in Nat /\ Cardinality(A \cap B) = 0
    BY <1>4, FS_CardinalityType, FS_EmptySet
  <2>. QED  BY <2>1, <2>2
<1>8. \A i, j \in DOMAIN emitted : i < j => Before(emitted[i], emitted[j])
  BY <1>1 DEF EmittedInv
<1>9. Len(emitted) + Len(skipped) = Cardinality({r \in ToSet(history) : Evaluated(r)})
  <2>. HIDE DEF A, B
  <2>. QED  BY <1>4, <1>5, <1>6, <1>7
<1>. QED  BY <1>8, <1>9 DEF EveryRowIsAccountedFor

(* Every row of the evaluated seasons is chosen or counted as skipped, and *)
(* those chosen end in one order: the backtest (harness.ts), for every     *)
(* history in which a player meets no opponent twice in a round.           *)
THEOREM EveryRowIsAccountedForAlways == ForecastSpec => []EveryRowIsAccountedFor
<1>1. ForecastInit => WalkInv /\ BacktestInv
  BY InitKept, InitEmitted
<1>2. WalkInv /\ BacktestInv /\ [ForecastNext]_forecastVars => (WalkInv /\ BacktestInv)'
  BY StepKept, StepEmitted
<1>. QED  BY <1>1, <1>2, AccountFollows, PTL DEF ForecastSpec

-----------------------------------------------------------------------------
(* The export: a club's window of matches.                                 *)

Fixtures(S, t) == {FixtureOf(r) : r \in {q \in S : Concerns(q, t)}}
KeysIn(w) == [i \in DOMAIN w |-> <<w[i].round[1], w[i].round[2], w[i].fixture>>]
Capped(n) == IF n > HistoryCap THEN HistoryCap ELSE n

(* w is of matches of S, one a fixture, as many as there is room for.      *)
Window(w, S, t) ==
    /\ w \in Seq(ToSet(w))
    /\ \A i, j \in DOMAIN w : KeysIn(w)[i] = KeysIn(w)[j] => i = j
    /\ SeenIn(w) \subseteq Fixtures(S, t)
    /\ Len(w) = Capped(Cardinality(Fixtures(S, t)))

Windows(h, S) == \A t : Window(At(h, t), S, t)

LEMMA FixturesAreFinite ==
  ASSUME NEW S, IsFiniteSet(S), NEW t
  PROVE  IsFiniteSet(Fixtures(S, t)) /\ Cardinality(Fixtures(S, t)) \in Nat
<1>. DEFINE C == {q \in S : Concerns(q, t)}
            f == [r \in C |-> FixtureOf(r)]
<1>1. IsFiniteSet(C)
  BY FS_Subset
<1>2. f \in Surjection(C, Fixtures(S, t))
  BY DEF Surjection, Fixtures
<1>. HIDE DEF C, f
<1>. QED  BY <1>1, <1>2, FS_Surjection, FS_CardinalityType

LEMMA SeenOfKeys ==
  ASSUME NEW w
  PROVE  SeenIn(w) = {KeysIn(w)[i] : i \in DOMAIN w}
  BY DEF SeenIn, KeysIn

(* A club's matches of a round: one a fixture of its.                      *)
LEMMA TeamMatchesAre ==
  ASSUME NEW R, NEW rows, Lists(rows, R), \A r \in R : Key(r) = clock, NEW t
  PROVE  LET m == TeamMatches(rows, t)
         IN  /\ m \in Seq(ToSet(m))
             /\ \A i, j \in DOMAIN m : KeysIn(m)[i] = KeysIn(m)[j] => i = j
             /\ SeenIn(m) = Fixtures(R, t)
<1>. DEFINE I == {i \in DOMAIN rows : /\ Concerns(rows[i], t)
                                     /\ \A j \in 1..i - 1 : Concerns(rows[j], t) => MatchOf(rows[j]) # MatchOf(rows[i])}
            N == Cardinality(I)
            first == Picked(rows, I)
            m == TeamMatches(rows, t)
<1>1. rows \in Seq(R) /\ DOMAIN rows = 1..Len(rows) /\ Len(rows) \in Nat /\ \A i \in DOMAIN rows : rows[i] \in R
  BY DomainOfSeq DEF Lists
<1>2. m = [n \in DOMAIN first |-> [round |-> clock, fixture |-> MatchOf(first[n]),
                                   xg |-> XgFor(rows, t, MatchOf(first[n]))]]
  BY DEF TeamMatches
<1>3. /\ N \in Nat /\ DOMAIN first = 1..N /\ IsFiniteSet(I)
      /\ \A n \in 1..N : first[n] = rows[Place(I, n)] /\ Place(I, n) \in I
  <2>1. I \in SUBSET DOMAIN rows
    OBVIOUS
  <2>. HIDE DEF I
  <2>. QED  BY <1>1, <2>1, PickedIs
<1>4. /\ \A i \in I : \E n \in 1..N : Place(I, n) = i
      /\ \A n, k \in 1..N : Place(I, n) = Place(I, k) => n = k
  <2>1. I \in SUBSET Nat
    BY <1>1
  <2>. HIDE DEF I
  <2>. QED  BY <1>3, <2>1, PlacesAreAll
<1>5. /\ \A i \in I : i \in 1..Len(rows) /\ Concerns(rows[i], t) /\ rows[i] \in R
      /\ \A i, j \in I : rows[i].fixture = rows[j].fixture => i = j
  <2>1. \A i \in I : i \in 1..Len(rows) /\ Concerns(rows[i], t) /\ rows[i] \in R
    BY <1>1
  <2>2. ASSUME NEW i \in I, NEW j \in I, i < j PROVE rows[i].fixture # rows[j].fixture
    <3>1. i \in 1..j - 1
      BY <1>1, <2>2
    <3>. QED  BY <2>1, <3>1 DEF MatchOf
  <2>3. \A i \in I : i \in Int
    BY <1>1
  <2>. HIDE DEF I
  <2>4. \A i, j \in I : rows[i].fixture = rows[j].fixture => i = j
    <3>. TAKE i, j \in I
    <3>1. i < j \/ j < i \/ i = j
      BY <2>3
    <3>. QED  BY <2>2, <3>1
  <2>. QED  BY <2>1, <2>4
<1>6. ASSUME NEW r \in R, Concerns(r, t) PROVE \E i \in I : rows[i].fixture = r.fixture
  <2>. DEFINE J == {i \in DOMAIN rows : Concerns(rows[i], t) /\ rows[i].fixture = r.fixture}
  <2>1. J \in SUBSET Nat /\ J # {}
    <3>1. PICK i \in DOMAIN rows : rows[i] = r
      BY DEF Lists
    <3>2. i \in J
      BY <1>6, <3>1
    <3>. QED  BY <1>1, <3>2
  <2>2. PICK i \in J : \A j \in J : i <= j
    <3>. HIDE DEF J
    <3>. QED  BY <2>1, LeastNat
  <2>3. \A j \in 1..i - 1 : Concerns(rows[j], t) => MatchOf(rows[j]) # MatchOf(rows[i])
    <3>. TAKE j \in 1..i - 1
    <3>1. j \in DOMAIN rows /\ ~(i <= j)
      BY <1>1, <2>2
    <3>2. j \notin J
      <4>. HIDE DEF J
      <4>. QED  BY <2>2, <3>1
    <3>. QED  BY <2>2, <3>1, <3>2 DEF MatchOf
  <2>. QED  BY <2>2, <2>3
<1>. HIDE DEF I, first, m, N
<1>7. DOMAIN m = 1..N /\ \A n \in 1..N : m[n].round = clock /\ m[n].fixture = rows[Place(I, n)].fixture
  BY <1>2, <1>3 DEF MatchOf
<1>8. /\ DOMAIN KeysIn(m) = 1..N
      /\ \A n \in 1..N : KeysIn(m)[n] = <<clock[1], clock[2], rows[Place(I, n)].fixture>>
  BY <1>7 DEF KeysIn
<1>9. \A r \in R : FixtureOf(r) = <<clock[1], clock[2], r.fixture>>
  BY DEF FixtureOf, Key
<1>10. m \in Seq(ToSet(m))
  <2>1. m = [n \in 1..N |-> m[n]]
    BY <1>2, <1>3
  <2>2. \A n \in 1..N : m[n] \in ToSet(m)
    BY <1>7 DEF ToSet
  <2>. QED  BY <1>3, <2>1, <2>2
<1>11. \A i, j \in DOMAIN m : KeysIn(m)[i] = KeysIn(m)[j] => i = j
  <2>. TAKE i, j \in DOMAIN m
  <2>1. SUFFICES ASSUME KeysIn(m)[i] = KeysIn(m)[j] PROVE i = j
    OBVIOUS
  <2>2. rows[Place(I, i)].fixture = rows[Place(I, j)].fixture
    BY <1>7, <1>8, <2>1
  <2>. QED  BY <1>3, <1>4, <1>5, <1>7, <2>2
<1>12. SeenIn(m) = Fixtures(R, t)
  <2>1. ASSUME NEW k \in SeenIn(m) PROVE k \in Fixtures(R, t)
    <3>1. PICK n \in 1..N : k = <<clock[1], clock[2], rows[Place(I, n)].fixture>>
      BY <1>7, <1>8, SeenOfKeys
    <3>2. rows[Place(I, n)] \in R /\ Concerns(rows[Place(I, n)], t)
      BY <1>3, <1>5
    <3>. QED  BY <1>9, <3>1, <3>2 DEF Fixtures
  <2>2. ASSUME NEW k \in Fixtures(R, t) PROVE k \in SeenIn(m)
    <3>1. PICK r \in R : Concerns(r, t) /\ k = FixtureOf(r)
      BY DEF Fixtures
    <3>2. PICK i \in I : rows[i].fixture = r.fixture
      BY <1>6, <3>1
    <3>3. PICK n \in 1..N : Place(I, n) = i
      BY <1>4
    <3>4. KeysIn(m)[n] = k
      BY <1>8, <1>9, <3>1, <3>2, <3>3
    <3>. QED  BY <1>7, <3>4, SeenOfKeys
  <2>. QED  BY <2>1, <2>2
<1>. QED  BY <1>10, <1>11, <1>12 DEF m

(* The end of a window with a round's matches added is one of both.        *)
LEMMA WindowGrows ==
  ASSUME NEW w, NEW m, NEW S, NEW R, NEW t, IsFiniteSet(S), IsFiniteSet(R),
         Window(w, S, t), m \in Seq(ToSet(m)),
         \A i, j \in DOMAIN m : KeysIn(m)[i] = KeysIn(m)[j] => i = j,
         SeenIn(m) = Fixtures(R, t), Fixtures(S, t) \cap Fixtures(R, t) = {}
  PROVE  Window(LastOf(w \o m, HistoryCap), S \cup R, t)
<1>. DEFINE F == Fixtures(S, t)
            G == Fixtures(R, t)
            A == ToSet(w) \cup ToSet(m)
            u == w \o m
            c == LastOf(u, HistoryCap)
            key(x) == <<x.round[1], x.round[2], x.fixture>>
<1>1. /\ IsFiniteSet(F) /\ Cardinality(F) \in Nat /\ IsFiniteSet(G) /\ Cardinality(G) \in Nat
      /\ HistoryCap \in Nat \ {0}
  BY FixturesAreFinite, WalkAssumption
<1>2. Fixtures(S \cup R, t) = F \cup G
  BY DEF Fixtures
<1>3. Cardinality(F \cup G) = Cardinality(F) + Cardinality(G)
  <2>. HIDE DEF F, G
  <2>1. Cardinality(F \cup G) = Cardinality(F) + Cardinality(G) - Cardinality(F \cap G)
    BY <1>1, FS_Union
  <2>2. Cardinality(F \cap G) = 0
    BY FS_EmptySet DEF F, G
  <2>. QED  BY <1>1, <2>1, <2>2
<1>4. w \in Seq(A) /\ m \in Seq(A) /\ w \in Seq(ToSet(w))
  BY DEF Window
<1>5. /\ u \in Seq(A) /\ Len(u) = Len(w) + Len(m)
      /\ Len(w) \in Nat /\ Len(m) \in Nat /\ DOMAIN w = 1..Len(w) /\ DOMAIN m = 1..Len(m)
      /\ DOMAIN u = 1..Len(u)
      /\ \A i \in 1..Len(u) : u[i] = IF i <= Len(w) THEN w[i] ELSE m[i - Len(w)]
  <2>. HIDE DEF A
  <2>. QED  BY <1>4, ConcatProperties, DomainOfSeq
<1>6. Len(m) = Cardinality(G)
  <2>1. KeysIn(m) \in Seq(G) /\ Len(KeysIn(m)) = Len(m) /\ DOMAIN KeysIn(m) = DOMAIN m
    <3>1. \A i \in 1..Len(m) : KeysIn(m)[i] \in G
      BY <1>5, SeenOfKeys
    <3>2. KeysIn(m) = [i \in 1..Len(m) |-> KeysIn(m)[i]]
      BY <1>5 DEF KeysIn
    <3>. HIDE DEF G
    <3>. QED  BY <1>5, <3>1, <3>2
  <2>2. \A k \in G : \E i \in DOMAIN m : KeysIn(m)[i] = k
    BY SeenOfKeys
  <2>3. Lists(KeysIn(m), G)
    BY <2>1, <2>2 DEF Lists
  <2>. HIDE DEF G
  <2>. QED  BY <2>1, <2>3, ListOfAll
<1>7. \A x \in DOMAIN w : key(w[x]) = KeysIn(w)[x] /\ key(w[x]) \in F
  <2>1. \A x \in DOMAIN w : key(w[x]) = KeysIn(w)[x] /\ key(w[x]) \in SeenIn(w)
    BY DEF KeysIn, SeenIn
  <2>. QED  BY <2>1 DEF Window
<1>8. \A x \in DOMAIN m : key(m[x]) = KeysIn(m)[x] /\ key(m[x]) \in G
  BY DEF KeysIn, SeenIn
<1>9. /\ \A i, j \in DOMAIN w : key(w[i]) = key(w[j]) => i = j
      /\ \A i, j \in DOMAIN m : key(m[i]) = key(m[j]) => i = j
      /\ F \cap G = {}
  <2>1. F \cap G = {}
    OBVIOUS
  <2>2. \A i, j \in DOMAIN w : KeysIn(w)[i] = KeysIn(w)[j] => i = j
    BY DEF Window
  <2>. HIDE DEF F, G, key
  <2>. QED  BY <1>7, <1>8, <2>1, <2>2
<1>. HIDE DEF F, G, key, u
<1>10. \A i \in 1..Len(u) : \/ i <= Len(w) /\ i \in DOMAIN w /\ u[i] = w[i] /\ key(u[i]) \in F
                            \/ ~(i <= Len(w)) /\ i - Len(w) \in DOMAIN m /\ u[i] = m[i - Len(w)] /\ key(u[i]) \in G
  <2>. TAKE i \in 1..Len(u)
  <2>1. CASE i <= Len(w)
    <3>1. i \in DOMAIN w
      BY <1>5, <2>1
    <3>2. u[i] = w[i]
      BY <1>5, <2>1
    <3>. QED  BY <1>7, <2>1, <3>1, <3>2
  <2>2. CASE ~(i <= Len(w))
    <3>1. i - Len(w) \in DOMAIN m
      BY <1>5, <2>2
    <3>2. u[i] = m[i - Len(w)]
      BY <1>5, <2>2
    <3>. QED  BY <1>8, <2>2, <3>1, <3>2
  <2>. QED  BY <2>1, <2>2
<1>11. \A i, j \in 1..Len(u) : key(u[i]) = key(u[j]) => i = j
  <2>. TAKE i, j \in 1..Len(u)
  <2>1. SUFFICES ASSUME key(u[i]) = key(u[j]) PROVE i = j
    OBVIOUS
  <2>2. \/ i <= Len(w) /\ j <= Len(w) /\ i \in DOMAIN w /\ j \in DOMAIN w /\ u[i] = w[i] /\ u[j] = w[j]
        \/ /\ ~(i <= Len(w)) /\ ~(j <= Len(w)) /\ i - Len(w) \in DOMAIN m /\ j - Len(w) \in DOMAIN m
           /\ u[i] = m[i - Len(w)] /\ u[j] = m[j - Len(w)]
    BY <1>9, <1>10, <2>1
  <2>3. CASE i \in DOMAIN w /\ j \in DOMAIN w /\ u[i] = w[i] /\ u[j] = w[j]
    BY <1>9, <2>1, <2>3
  <2>4. CASE /\ i - Len(w) \in DOMAIN m /\ j - Len(w) \in DOMAIN m
             /\ u[i] = m[i - Len(w)] /\ u[j] = m[j - Len(w)]
    <3>1. i - Len(w) = j - Len(w)
      BY <1>9, <2>1, <2>4
    <3>. QED  BY <1>5, <3>1
  <2>. QED  BY <2>2, <2>3, <2>4
<1>12. /\ c \in Seq(A) /\ Len(c) = IF Len(u) > HistoryCap THEN HistoryCap ELSE Len(u)
       /\ \A i \in DOMAIN c : LET j == i + (IF Len(u) > HistoryCap THEN Len(u) - HistoryCap ELSE 0)
                              IN  j \in DOMAIN u /\ c[i] = u[j]
  <2>. HIDE DEF A
  <2>. QED  BY <1>1, <1>5, LastOfList
<1>. HIDE DEF c, A
<1>13. PICK d \in Int : \A i \in DOMAIN c : i + d \in 1..Len(u) /\ c[i] = u[i + d]
  <2>. DEFINE d == IF Len(u) > HistoryCap THEN Len(u) - HistoryCap ELSE 0
  <2>1. d \in Int
    BY <1>1, <1>5
  <2>2. \A i \in DOMAIN c : i + d \in 1..Len(u) /\ c[i] = u[i + d]
    BY <1>5, <1>12
  <2>. HIDE DEF d
  <2>. QED  BY <2>1, <2>2
<1>14. DOMAIN c = 1..Len(c) /\ Len(c) \in Nat
  BY <1>12, DomainOfSeq
<1>15. \A i \in DOMAIN c : KeysIn(c)[i] = key(c[i])
  BY DEF KeysIn, key
<1>16. \A i, j \in DOMAIN c : KeysIn(c)[i] = KeysIn(c)[j] => i = j
  <2>. TAKE i, j \in DOMAIN c
  <2>1. SUFFICES ASSUME KeysIn(c)[i] = KeysIn(c)[j] PROVE i = j
    OBVIOUS
  <2>2. i + d = j + d
    BY <1>11, <1>13, <1>15, <2>1
  <2>. QED  BY <1>13, <1>14, <2>2
<1>17. SeenIn(c) \subseteq F \cup G
  <2>1. \A i \in DOMAIN c : KeysIn(c)[i] \in F \cup G
    BY <1>10, <1>13, <1>15
  <2>. QED  BY <2>1, SeenOfKeys
<1>18. Len(c) = Capped(Cardinality(F \cup G))
  <2>1. Len(w) = Capped(Cardinality(F))
    BY DEF Window, F
  <2>. QED  BY <1>1, <1>3, <1>5, <1>6, <1>12, <2>1 DEF Capped
<1>19. c \in Seq(ToSet(c))
  BY <1>12, OfItself
<1>. QED  BY <1>2, <1>16, <1>17, <1>18, <1>19 DEF Window, F, G, c, u

LEMMA FixturesApart ==
  ASSUME NEW S, NEW R, NEW t, \A q \in S : Key(q) # clock, \A r \in R : Key(r) = clock, clock \in Nat \X Nat
  PROVE  Fixtures(S, t) \cap Fixtures(R, t) = {}
<1>1. SUFFICES ASSUME NEW k \in Fixtures(S, t), k \in Fixtures(R, t) PROVE FALSE
  OBVIOUS
<1>2. PICK q \in S : k = FixtureOf(q)
  BY DEF Fixtures
<1>3. PICK r \in R : k = FixtureOf(r)
  BY <1>1 DEF Fixtures
<1>4. q.season = r.season /\ q.round = r.round
  BY <1>2, <1>3 DEF FixtureOf
<1>. QED  BY <1>4 DEF Key

(* Every club's window, with a round's matches.                            *)
LEMMA WindowsGrow ==
  ASSUME WellFormed(history), clock \in Nat \X Nat, NEW h, NEW S, IsFiniteSet(S), Windows(h, S),
         \A q \in S : Key(q) # clock
  PROVE  Windows(Cut(WithMatches(h, RowsOf(clock))), S \cup RowsAt(clock))
<1>. DEFINE rows == RowsOf(clock)
            R == RowsAt(clock)
            g == WithMatches(h, rows)
<1>1. Lists(rows, R) /\ ToSet(rows) = R /\ IsFiniteSet(R)
  BY RowsOfAKey, ListOfAll
<1>2. \A r \in R : Key(r) = clock
  BY DEF RowsAt
<1>3. /\ DOMAIN g = DOMAIN h \cup (UNION {{r.team, r.opp} : r \in {q \in R : Nameable(q)}})
      /\ \A t \in DOMAIN g : g[t] = At(h, t) \o TeamMatches(rows, t)
  BY <1>1 DEF WithMatches
<1>. HIDE DEF rows, R, g
<1>4. SUFFICES ASSUME NEW t PROVE Window(At(Cut(g), t), S \cup R, t)
  BY DEF Windows, rows, R, g
<1>5. Window(At(h, t), S, t)
  BY DEF Windows
<1>6. CASE t \in DOMAIN g
  <2>. DEFINE m == TeamMatches(rows, t)
              w == At(h, t)
  <2>1. /\ m \in Seq(ToSet(m))
        /\ \A i, j \in DOMAIN m : KeysIn(m)[i] = KeysIn(m)[j] => i = j
        /\ SeenIn(m) = Fixtures(R, t)
    BY <1>1, <1>2, TeamMatchesAre
  <2>2. Fixtures(S, t) \cap Fixtures(R, t) = {}
    BY <1>2, FixturesApart
  <2>3. At(Cut(g), t) = LastOf(w \o m, HistoryCap)
    BY <1>3, <1>6 DEF At, Cut
  <2>4. Window(w, S, t)
    BY <1>5
  <2>. HIDE DEF m, w
  <2>5. Window(LastOf(w \o m, HistoryCap), S \cup R, t)
    BY <1>1, <2>1, <2>2, <2>4, WindowGrows
  <2>. QED  BY <2>3, <2>5
<1>7. CASE t \notin DOMAIN g
  <2>1. At(Cut(g), t) = <<>> /\ At(h, t) = <<>>
    BY <1>3, <1>7 DEF At, Cut
  <2>2. \A r \in R : ~Concerns(r, t)
    BY <1>3, <1>7 DEF Concerns
  <2>3. Fixtures(S \cup R, t) = Fixtures(S, t)
    BY <2>2 DEF Fixtures
  <2>. QED  BY <1>5, <2>1, <2>3 DEF Window
<1>. QED  BY <1>6, <1>7

FirstOfSeason == ~\E k \in Keys : k[1] = clock[1] /\ Earlier(k, clock)
Season == {r \in Given : r.season = clock[1]}

(* What the export has written and remembers.                              *)
ExportInv ==
    /\ {x.row : x \in exported} = {r \in Given : Scorable(r)}
    /\ \A x \in exported : WindowIs(x.team, x.row.team, Key(x.row)) /\ WindowIs(x.opp, x.row.opp, Key(x.row))
    /\ (step \in {"score", "project", "export"} /\ FirstOfSeason) \/ Windows(teamHist, Season)

LEMMA WindowOfTheRound ==
  ASSUME NEW w, NEW t, NEW S, \A q : q \in S <=> q \in Past(clock) /\ q.season = clock[1],
         Window(w, S, t)
  PROVE  WindowIs(w, t, clock)
<1>. DEFINE F == Fixtures(S, t)
<1>1. MatchesBefore(t, clock) = F
  BY DEF MatchesBefore, Fixtures
<1>2. /\ w \in Seq(ToSet(w)) /\ \A i, j \in DOMAIN w : KeysIn(w)[i] = KeysIn(w)[j] => i = j
      /\ SeenIn(w) \subseteq F /\ Len(w) = Capped(Cardinality(F))
  BY DEF Window
<1>. HIDE DEF F
<1>3. Lists(KeysIn(w), SeenIn(w)) /\ Len(KeysIn(w)) = Len(w)
  <2>1. DOMAIN w = 1..Len(w) /\ Len(w) \in Nat
    BY <1>2, DomainOfSeq
  <2>2. KeysIn(w) = [i \in 1..Len(w) |-> KeysIn(w)[i]] /\ DOMAIN KeysIn(w) = DOMAIN w
    BY <2>1 DEF KeysIn
  <2>3. \A i \in 1..Len(w) : KeysIn(w)[i] \in SeenIn(w)
    BY <2>1, SeenOfKeys
  <2>4. KeysIn(w) \in Seq(SeenIn(w)) /\ Len(KeysIn(w)) = Len(w)
    BY <2>1, <2>2, <2>3
  <2>5. \A k \in SeenIn(w) : \E i \in DOMAIN w : KeysIn(w)[i] = k
    BY SeenOfKeys
  <2>. QED  BY <1>2, <2>2, <2>4, <2>5 DEF Lists
<1>4. Len(w) = Cardinality(SeenIn(w))
  BY <1>3, ListOfAll
<1>. QED  BY <1>1, <1>2, <1>4 DEF WindowIs, Capped

LEMMA NoWindows == Windows(<<>>, {})
<1>1. SUFFICES ASSUME NEW t PROVE Window(<<>>, {}, t)
  BY DEF Windows, At
<1>2. Fixtures({}, t) = {} /\ HistoryCap \in Nat
  BY WalkAssumption DEF Fixtures
<1>3. SeenIn(<<>>) = {}
  BY DEF SeenIn
<1>. QED  BY <1>2, <1>3, FS_EmptySet DEF Window, Capped

LEMMA SeasonIsPast ==
  ASSUME WalkInv, step \in {"score", "project", "export"}
  PROVE  /\ Given = Past(clock) /\ Season = {q \in Past(clock) : q.season = clock[1]}
         /\ FirstOfSeason => Season = {}
<1>1. Given = Past(clock) /\ WellFormed(history) /\ clock \in Nat \X Nat
  BY OpenRound DEF Closed, Given, Folded
<1>2. FirstOfSeason => Season = {}
  <2>1. SUFFICES ASSUME NEW r \in Season, FirstOfSeason PROVE FALSE
    OBVIOUS
  <2>2. r \in ToSet(history) /\ Earlier(Key(r), clock) /\ r.season = clock[1]
    BY <1>1 DEF Season, Past
  <2>3. Key(r) \in Keys /\ Key(r)[1] = clock[1]
    BY <1>1, <2>2, RowsHaveKeys
  <2>. QED  BY <2>1, <2>2, <2>3 DEF FirstOfSeason
<1>. QED  BY <1>1, <1>2 DEF Season

LEMMA ExportKept ==
  ASSUME WalkInv, ExportInv, Export
  PROVE  ExportInv'
<1>. DEFINE n == clock[2]
            R == RowsAt(clock)
            I == {j \in DOMAIN items : Refusal(items[j]) = "none"}
            clubs == IF FirstOfSeason THEN <<>> ELSE teamHist
            own == IF FirstOfSeason THEN <<>> ELSE playerHist
            out(i) == [row |-> items[i].row, features |-> items[i].features,
                       player |-> At(own, items[i].row.player),
                       team |-> At(clubs, items[i].row.team), opp |-> At(clubs, items[i].row.opp)]
<1>0. /\ step = "export" /\ step' = "fold" /\ history' = history /\ clock' = clock /\ params' = params
      /\ WellFormed(history) /\ clock \in Nat \X Nat
  BY OpenRound DEF Export, Closed
<1>1. /\ exported' = exported \cup {out(i) : i \in I}
      /\ teamHist' = Cut(WithMatches(clubs, RowsOf(clock)))
  BY DEF Export, FirstOfSeason
<1>2. /\ Given' = Given \cup R /\ Given = Past(clock)
      /\ Season = {q \in Past(clock) : q.season = clock[1]} /\ (FirstOfSeason => Season = {})
  BY <1>0, GoneAndGiven, SeasonIsPast
<1>3. Windows(clubs, Season)
  BY <1>0, <1>2, NoWindows DEF ExportInv
<1>4. /\ \A i \in DOMAIN items : \E r \in R : items[i] = Scored(r, n)
      /\ \A r \in R : \E i \in DOMAIN items : items[i] = Scored(r, n)
  <2>. DEFINE U == {Scored(r, n) : r \in R}
  <2>1. Lists(items, U)
    BY <1>0, ItemsList
  <2>2. \A i \in DOMAIN items : items[i] \in U
    BY <2>1, DomainOfSeq DEF Lists
  <2>3. \A x \in U : \E i \in DOMAIN items : items[i] = x
    BY <2>1 DEF Lists
  <2>. QED  BY <2>2, <2>3
<1>5. \A r \in R : Refusal(Scored(r, n)) = "none" <=> Scorable(r)
  BY <1>0, RefusalIs
<1>6. \A r : Scored(r, n).row = r
  BY DEF Scored
<1>7. {out(i).row : i \in I} = {r \in R : Scorable(r)}
  <2>1. ASSUME NEW i \in I PROVE out(i).row \in R /\ Scorable(out(i).row)
    <3>1. PICK r \in R : items[i] = Scored(r, n)
      BY <1>4
    <3>2. out(i).row = r /\ Scorable(r)
      BY <1>5, <1>6, <3>1
    <3>. QED  BY <3>2
  <2>2. ASSUME NEW r \in R, Scorable(r) PROVE \E i \in I : out(i).row = r
    <3>1. PICK i \in DOMAIN items : items[i] = Scored(r, n)
      BY <1>4
    <3>2. i \in I /\ out(i).row = r
      BY <1>5, <1>6, <2>2, <3>1
    <3>. QED  BY <3>2
  <2>. HIDE DEF out, I, R
  <2>. QED  BY <2>1, <2>2
<1>8. \A i \in I : Key(out(i).row) = clock /\ out(i).team = At(clubs, out(i).row.team)
                   /\ out(i).opp = At(clubs, out(i).row.opp)
  <2>. TAKE i \in I
  <2>1. out(i).row \in R
    BY <1>7
  <2>. QED  BY <2>1 DEF RowsAt
<1>. HIDE DEF out, I, R, clubs
<1>9. \A t : WindowIs(At(clubs, t), t, clock)
  <2>. TAKE t
  <2>. DEFINE w == At(clubs, t)
  <2>1. Window(w, Season, t)
    BY <1>3 DEF Windows
  <2>2. \A q : q \in Season <=> q \in Past(clock) /\ q.season = clock[1]
    BY <1>2
  <2>. HIDE DEF w
  <2>3. WindowIs(w, t, clock)
    BY <2>1, <2>2, WindowOfTheRound
  <2>. QED  BY <2>3 DEF w
<1>10. \A i \in I : /\ WindowIs(out(i).team, out(i).row.team, Key(out(i).row))
                    /\ WindowIs(out(i).opp, out(i).row.opp, Key(out(i).row))
  BY <1>8, <1>9
<1>11. \A w, t, k : WindowIs(w, t, k)' <=> WindowIs(w, t, k)
  <2>. TAKE w, t, k
  <2>1. MatchesBefore(t, k)' = MatchesBefore(t, k)
    BY <1>0 DEF MatchesBefore, Past
  <2>. QED  BY <2>1 DEF WindowIs
<1>12. \A x \in exported' : WindowIs(x.team, x.row.team, Key(x.row))' /\ WindowIs(x.opp, x.row.opp, Key(x.row))'
  <2>. TAKE x \in exported'
  <2>1. WindowIs(x.team, x.row.team, Key(x.row)) /\ WindowIs(x.opp, x.row.opp, Key(x.row))
    <3>1. CASE x \in exported
      BY <3>1 DEF ExportInv
    <3>2. CASE \E i \in I : x = out(i)
      BY <1>10, <3>2
    <3>. QED  BY <1>1, <3>1, <3>2
  <2>. QED  BY <1>11, <2>1
<1>13. \A r : (Scorable(r))' <=> Scorable(r)
  BY <1>0, TakenKept
<1>14. {x.row : x \in exported'} = {r \in Given : Scorable(r)}'
  <2>1. {r \in Given : Scorable(r)}' = {r \in Given : Scorable(r)} \cup {r \in R : Scorable(r)}
    BY <1>2, <1>13
  <2>2. {x.row : x \in exported'} = {x.row : x \in exported} \cup {out(i).row : i \in I}
    BY <1>1
  <2>. QED  BY <1>7, <2>1, <2>2 DEF ExportInv
<1>15. Windows(teamHist, Season)'
  <2>1. Season' = Season \cup R
    <3>1. \A r \in R : r.season = clock[1]
      BY DEF R, RowsAt, Key
    <3>. QED  BY <1>0, <1>2, <3>1 DEF Season
  <2>2. IsFiniteSet(Season)
    BY GoneIsFinite, FS_Subset DEF Season
  <2>3. \A q \in Season : Key(q) # clock
    <3>1. ~Earlier(clock, clock)
      BY <1>0, EarlierIsAnOrder
    <3>. QED  BY <1>2, <3>1 DEF Past
  <2>. DEFINE g == Cut(WithMatches(clubs, RowsOf(clock)))
  <2>4. Windows(g, Season \cup R)
    <3>. HIDE DEF g
    <3>. QED  BY <1>0, <1>3, <2>2, <2>3, WindowsGrow DEF R, g
  <2>5. teamHist' = g
    BY <1>1
  <2>. HIDE DEF g
  <2>6. \A t : At(teamHist, t)' = At(g, t)
    BY <2>5 DEF At
  <2>7. \A w, S, t : Window(w, S, t)' <=> Window(w, S, t)
    BY DEF Window
  <2>. QED  BY <2>1, <2>4, <2>6 DEF Windows, Window
<1>. QED  BY <1>12, <1>14, <1>15 DEF ExportInv

(* A step that exports nothing and leaves the season's rows as they are.   *)
LEMMA ExportUnmoved ==
  ASSUME ExportInv, UNCHANGED <<history, params, exported, teamHist>>, Given' = Given,
         \/ clock' = clock /\ (step \in {"score", "project", "export"} => step' \in {"score", "project", "export"})
         \/ clock'[1] = clock[1] /\ step \notin {"score", "project", "export"}
         \/ step' \in {"score", "project", "export"} /\ FirstOfSeason'
  PROVE  ExportInv'
<1>1. \A w, t, k : WindowIs(w, t, k)' <=> WindowIs(w, t, k)
  <2>. TAKE w, t, k
  <2>1. MatchesBefore(t, k)' = MatchesBefore(t, k)
    BY DEF MatchesBefore, Past
  <2>. QED  BY <2>1 DEF WindowIs
<1>2. \A x \in exported' : WindowIs(x.team, x.row.team, Key(x.row))' /\ WindowIs(x.opp, x.row.opp, Key(x.row))'
  BY <1>1 DEF ExportInv
<1>3. \A r : (Scorable(r))' <=> Scorable(r)
  BY TakenKept
<1>4. {x.row : x \in exported'} = {r \in Given : Scorable(r)}'
  BY <1>3 DEF ExportInv
<1>5. clock'[1] = clock[1] /\ Windows(teamHist, Season) => Windows(teamHist, Season)'
  <2>1. clock'[1] = clock[1] => Season' = Season
    BY DEF Season
  <2>2. \A t : At(teamHist, t)' = At(teamHist, t)
    BY DEF At
  <2>. QED  BY <2>1, <2>2 DEF Windows, Window
<1>6. clock' = clock => (FirstOfSeason' <=> FirstOfSeason)
  BY DEF FirstOfSeason, Keys
<1>7. (step' \in {"score", "project", "export"} /\ FirstOfSeason') \/ Windows(teamHist, Season)'
  BY <1>5, <1>6 DEF ExportInv
<1>. QED  BY <1>2, <1>4, <1>7 DEF ExportInv

LEMMA SeasonBegins ==
  ASSUME WalkInv, BeginRound, clock'[1] # clock[1]
  PROVE  FirstOfSeason'
<1>1. ClockInv /\ WellFormed(history)
  BY DEF WalkInv, KeptInv, ClockInv
<1>2. OfSeason(clock'[1]) = {} /\ Keys' = Keys /\ Folded = Past(clock')
  BY <1>1, NextRound, LastRowsOfASeason
<1>3. ASSUME NEW k \in Keys, k[1] = clock'[1], Earlier(k, clock') PROVE FALSE
  <2>1. PICK r \in ToSet(history) : Key(r) = k
    BY <1>1, RowsHaveKeys
  <2>2. r \in Past(clock') /\ r.season = clock'[1]
    <3>1. Key(r)[1] = r.season
      BY <1>1, RowsHaveKeys
    <3>. QED  BY <1>3, <2>1, <3>1 DEF Past
  <2>. QED  BY <1>2, <2>2 DEF OfSeason
<1>. QED  BY <1>2, <1>3 DEF FirstOfSeason

LEMMA InitExported == ForecastInit /\ ~Forecasting => ExportInv
<1>1. SUFFICES ASSUME ForecastInit, ~Forecasting PROVE ExportInv
  OBVIOUS
<1>2. NothingWalked /\ WellFormed(history)
  BY <1>1, InitKept DEF ForecastInit, WalkInit, WalkInv, KeptInv, ClockInv
<1>3. Given = {} /\ exported = {} /\ teamHist = <<>>
  BY <1>2, NothingGone DEF NothingWalked
<1>4. Season = {} /\ {r \in Given : Scorable(r)} = {} /\ {x.row : x \in exported} = {}
  BY <1>3 DEF Season
<1>5. Windows(teamHist, Season)
  BY <1>3, <1>4, NoWindows
<1>. QED  BY <1>3, <1>4, <1>5 DEF ExportInv

LEMMA StepExported ==
  WalkInv /\ BacktestInv /\ (~Forecasting => ExportInv) /\ [ForecastNext]_forecastVars
    => (~Forecasting' => ExportInv')
<1>. SUFFICES ASSUME WalkInv, BacktestInv, ~Forecasting => ExportInv, [ForecastNext]_forecastVars, ~Forecasting'
              PROVE  ExportInv'
  OBVIOUS
<1>1. CASE ~Forecasting /\ WalkNext /\ UNCHANGED <<call, served>>
  <2>0. ExportInv
    BY <1>1
  <2>1. CASE BeginRound
    <3>1. /\ Given' = Given /\ UNCHANGED <<history, params, exported, teamHist>>
          /\ step = "begin" /\ step' = "score"
      BY <2>1, GoneAndGiven DEF BeginRound
    <3>2. clock'[1] = clock[1] \/ FirstOfSeason'
      BY <2>1, SeasonBegins
    <3>. QED  BY <2>0, <3>1, <3>2, ExportUnmoved
  <2>2. CASE Yield
    <3>1. /\ Given' = Given /\ UNCHANGED <<history, params, exported, teamHist>>
          /\ step' = "project" /\ clock' = clock
      BY <2>2, GoneAndGiven DEF Yield
    <3>. QED  BY <2>0, <3>1, ExportUnmoved
  <2>3. CASE Project
    <3>1. /\ Given' = Given /\ UNCHANGED <<history, params, exported, teamHist>>
          /\ step' = "export" /\ clock' = clock
      BY <2>3, GoneAndGiven DEF Project
    <3>. QED  BY <2>0, <3>1, ExportUnmoved
  <2>4. CASE Export
    BY <2>0, <2>4, ExportKept
  <2>5. CASE FoldRound
    <3>1. /\ Given' = Given /\ UNCHANGED <<history, params, exported, teamHist>>
          /\ step = "fold" /\ clock' = clock
      BY <2>5, GoneAndGiven DEF FoldRound
    <3>. QED  BY <2>0, <3>1, ExportUnmoved
  <2>6. CASE FinishBacktest
    <3>1. /\ Given' = Given /\ UNCHANGED <<history, params, exported, teamHist>>
          /\ step = "begin" /\ clock' = clock
      BY <2>6, GoneAndGiven DEF FinishBacktest
    <3>. QED  BY <2>0, <3>1, ExportUnmoved
  <2>. QED  BY <1>1, <2>1, <2>2, <2>3, <2>4, <2>5, <2>6 DEF WalkNext
<1>2. CASE Forecasting /\ (BeginRound \/ Yield \/ FoldRound) /\ UNCHANGED <<call, served>>
  BY <1>2 DEF Forecasting
<1>3. CASE Serve \/ FinishForecast
  BY <1>3 DEF Serve, FinishForecast, Forecasting
<1>4. CASE UNCHANGED forecastVars
  <2>1. /\ UNCHANGED <<history, params, exported, teamHist, step, clock>> /\ ~Forecasting
    BY <1>4 DEF forecastVars, walkVars, Forecasting
  <2>2. Given' = Given
    BY <2>1 DEF Given, WalkedKeys, Keys, Closed
  <2>. QED  BY <2>1, <2>2, ExportUnmoved
<1>. QED  BY <1>1, <1>2, <1>3, <1>4 DEF ForecastNext

LEMMA ExportFollows == WalkInv /\ BacktestInv /\ (~Forecasting => ExportInv) => ExportFollowsTheWalk
<1>. SUFFICES ASSUME WalkInv, BacktestInv, ~Forecasting => ExportInv PROVE ExportFollowsTheWalk
  OBVIOUS
<1>1. CASE Forecasting
  BY <1>1 DEF BacktestInv, ExportFollowsTheWalk
<1>2. CASE ~Forecasting
  <2>1. ASSUME step = "done"
        PROVE  {emitted[i].row : i \in DOMAIN emitted} = {x.row : x \in {y \in exported : Evaluated(y.row)}}
    <3>1. EmittedInv /\ Gone = ToSet(history) /\ Given = ToSet(history)
      <4>1. EmittedInv /\ WellFormed(history) /\ ClockInv /\ Ahead = {}
        BY <1>2, <2>1 DEF BacktestInv, EmittedInv, WalkInv, KeptInv, ClockInv
      <4>2. \A k \in Keys : k \in WalkedKeys
        <5>1. clock \in Nat \X Nat /\ \A k \in Keys : k \in Nat \X Nat
          BY <4>1, RowsHaveKeys DEF ClockInv
        <5>. QED  BY <2>1, <4>1, <5>1, EarlierIsAnOrder DEF Ahead, WalkedKeys, Closed
      <4>. QED  BY <4>1, <4>2, RowsHaveKeys DEF Gone, Given
    <3>2. {emitted[i].row : i \in DOMAIN emitted} = {r \in Gone : Taken(r)}
      <4>1. Lists(RowsIn(emitted), {r \in Gone : Taken(r)})
        BY <3>1 DEF EmittedInv
      <4>2. ToSet(RowsIn(emitted)) = {r \in Gone : Taken(r)}
        BY <4>1, ListOfAll
      <4>3. ToSet(RowsIn(emitted)) = {emitted[i].row : i \in DOMAIN emitted}
        BY DEF ToSet, RowsIn
      <4>. QED  BY <4>2, <4>3
    <3>3. {x.row : x \in exported} = {r \in Given : Scorable(r)}
      BY <1>2 DEF ExportInv
    <3>4. {x.row : x \in {y \in exported : Evaluated(y.row)}} = {r \in Given : Taken(r)}
      <4>1. ASSUME NEW y \in exported, Evaluated(y.row) PROVE y.row \in Given /\ Taken(y.row)
        BY <3>3, <4>1 DEF Taken
      <4>2. ASSUME NEW r \in Given, Taken(r) PROVE \E y \in exported : Evaluated(y.row) /\ r = y.row
        <5>1. r \in {x.row : x \in exported}
          BY <3>3, <4>2 DEF Taken
        <5>. QED  BY <4>2, <5>1 DEF Taken
      <4>. QED  BY <4>1, <4>2
    <3>. QED  BY <3>1, <3>2, <3>4
  <2>2. \A x \in exported : WindowIs(x.team, x.row.team, Key(x.row)) /\ WindowIs(x.opp, x.row.opp, Key(x.row))
    BY <1>2 DEF ExportInv
  <2>. QED  BY <2>1, <2>2 DEF ExportFollowsTheWalk
<1>. QED  BY <1>1, <1>2

(* The export is of the rows the backtest scores, and a row's windows have *)
(* its clubs' matches of the season before it: exportFeatures              *)
(* (feature-export.ts), for every history.                                 *)
THEOREM ExportFollowsTheWalkAlways == ForecastSpec => []ExportFollowsTheWalk
<1>. DEFINE Inv == WalkInv /\ BacktestInv /\ (~Forecasting => ExportInv)
<1>1. ForecastInit => Inv
  BY InitKept, InitEmitted, InitExported
<1>2. Inv /\ [ForecastNext]_forecastVars => Inv'
  BY StepKept, StepEmitted, StepExported
<1>3. Inv => ExportFollowsTheWalk
  BY ExportFollows
<1>. QED  BY <1>1, <1>2, <1>3, PTL DEF ForecastSpec
=============================================================================
