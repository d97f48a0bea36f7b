-------------------------- MODULE Projections_proofs --------------------------
(* Proofs about Projections, for any runners, players, deadlines, changes  *)
(* of the database and bounds.                                             *)
EXTENDS Projections, TLAPS

LEMMA NoRunTyped == NoRun \in Run
<1>1. Unread \in [Gameweek -> State] /\ 0 \in State
  BY ProjectionsAssumption DEF Unread, State
<1>. QED  BY <1>1, ProjectionsAssumption DEF NoRun, Run, Version, Served

LEMMA InitTyped == Init => TypeOK
<1>1. NoRow \in Stamp /\ 0 \in 0..MaxTime /\ 0 \in State
  BY ProjectionsAssumption DEF NoRow, Stamp, State
<1>2. "idle" \in Location
  BY DEF Location
<1>. QED  BY <1>1, <1>2, NoRunTyped DEF Init, TypeOK

LEMMA EndTyped ==
  ASSUME TypeOK, NEW p \in Runner, End(p)
  PROVE  /\ pc' = [pc EXCEPT ![p] = "idle"] /\ pc' \in [Runner -> Location]
         /\ run' = [run EXCEPT ![p] = NoRun] /\ run' \in [Runner -> Run]
         /\ running' \in BOOLEAN
  BY NoRunTyped DEF TypeOK, End, Goto, Location

(* The record of a run's next version.                                     *)
NextRun(p) == [NoRun EXCEPT !.version = run[p].version + 1, !.horizon = run[p].horizon,
                            !.beside = run[p].beside, !.began = run[p].began]

LEMMA NextRunTyped ==
  ASSUME TypeOK, NEW p \in Runner, run[p].version # NumVersions
  PROVE  /\ NextRun(p) \in Run /\ NextRun(p).version = run[p].version + 1
         /\ NextRun(p).version # Served
         /\ NextRun(p).horizon = run[p].horizon /\ NextRun(p).beside = run[p].beside
         /\ NextRun(p).began = run[p].began /\ NextRun(p).left = {}
<1>1. run[p] \in Run /\ run[p].version + 1 \in Version /\ run[p].version + 1 # Served
  BY ProjectionsAssumption DEF TypeOK, Run, Version, Served
<1>2. NoRun \in Run /\ NoRun.left = {}
  BY NoRunTyped DEF NoRun
<1>. QED  BY <1>1, <1>2 DEF NextRun, Run

LEMMA NextVersionTyped ==
  ASSUME TypeOK, NEW p \in Runner, NextVersion(p)
  PROVE  /\ pc' \in [Runner -> Location] /\ run' \in [Runner -> Run]
         /\ running' \in BOOLEAN
<1>1. CASE run[p].version = NumVersions
  BY <1>1, EndTyped DEF NextVersion
<1>2. CASE run[p].version # NumVersions
  <2>1. run' = [run EXCEPT ![p] = NextRun(p)]
    BY <1>2 DEF NextVersion, NextRun
  <2>. QED  BY <1>2, <2>1, NextRunTyped DEF NextVersion, Goto, TypeOK, Location
<1>. QED  BY <1>1, <1>2

LEMMA HorizonTyped == TypeOK => HorizonGameweeks \in SUBSET Gameweek
  BY DEF HorizonGameweeks, Known

(* The runs after a horizon is read: a new one, and those beside it.       *)
LEMMA HorizonRead ==
  ASSUME TypeOK, NEW p \in Runner, ReadHorizon(p)
  PROVE  /\ run' \in [Runner -> Run] /\ pc' = [pc EXCEPT ![p] = "history"]
         /\ pc[p] = "horizon" /\ UNCHANGED <<now, inputs, finished, rows, running>>
         /\ inputs # 0
         /\ run'[p].version = Served /\ run'[p].left = {} /\ run'[p].began = inputs
         /\ run'[p].beside = (\E q \in Runner : Computing(q) /\ Meets(p, q))
         /\ \A q \in Runner : q # p =>
               run'[q] = IF Computing(q) /\ Meets(p, q)
                         THEN [run[q] EXCEPT !.beside = TRUE] ELSE run[q]
<1>. DEFINE met == {q \in Runner : Computing(q) /\ Meets(p, q)}
            r == [NoRun EXCEPT !.horizon = HorizonGameweeks,
                               !.beside = met # {}, !.began = inputs]
<1>1. /\ run' = [q \in Runner |-> IF q = p THEN r
                                  ELSE IF q \in met THEN [run[q] EXCEPT !.beside = TRUE]
                                  ELSE run[q]]
      /\ pc' = [pc EXCEPT ![p] = "history"] /\ pc[p] = "horizon"
      /\ UNCHANGED <<now, inputs, finished, rows, running>> /\ HorizonGameweeks # {}
  BY DEF ReadHorizon, Goto, At
<1>2. /\ r \in Run /\ r.version = Served /\ r.left = {} /\ r.began = inputs
      /\ r.beside = (met # {})
  <2>1. NoRun \in Run /\ NoRun.version = Served /\ NoRun.left = {}
    BY NoRunTyped DEF NoRun
  <2>2. inputs \in State /\ HorizonGameweeks \in SUBSET Gameweek /\ (met # {}) \in BOOLEAN
    BY HorizonTyped DEF TypeOK
  <2>. QED  BY <2>1, <2>2 DEF Run
<1>3. \A q \in Runner : [run[q] EXCEPT !.beside = TRUE] \in Run /\ run[q] \in Run
  BY DEF TypeOK, Run
<1>4. inputs # 0
  BY <1>1 DEF HorizonGameweeks, Known
<1>5. (met # {}) = (\E q \in Runner : Computing(q) /\ Meets(p, q))
  OBVIOUS
<1>6. \A q \in Runner : q \in met <=> Computing(q) /\ Meets(p, q)
  OBVIOUS
<1>. HIDE DEF r, met
<1>. QED  BY <1>1, <1>2, <1>3, <1>4, <1>5, <1>6

LEMMA NextTyped == TypeOK /\ [Next]_vars => TypeOK'
<1> SUFFICES ASSUME TypeOK, [Next]_vars PROVE TypeOK'
  OBVIOUS
<1>1. CASE Tick
  BY <1>1, ProjectionsAssumption DEF Tick, TypeOK
<1>2. CASE Restart
  BY <1>2, NoRunTyped DEF Restart, TypeOK, Location
<1>3. ASSUME NEW p \in Runner, HourlyIncremental(p) PROVE TypeOK'
  BY <1>3 DEF HourlyIncremental, Goto, TypeOK, Location
<1>4. ASSUME NEW p \in Runner, RunProject(p) PROVE TypeOK'
  BY <1>4 DEF RunProject, Goto, TypeOK, Location
<1>5. ASSUME NEW p \in Runner, RunIncremental(p) PROVE TypeOK'
  BY <1>5, ProjectionsAssumption DEF RunIncremental, Synced, Goto, TypeOK, Location, State
<1>6. ASSUME NEW p \in Runner, ProjectIfDeadlineNear(p) PROVE TypeOK'
  BY <1>6, EndTyped DEF ProjectIfDeadlineNear, Goto, TypeOK, Location
<1>7. ASSUME NEW p \in Runner, ReadHorizon(p) PROVE TypeOK'
  BY <1>7, HorizonRead DEF TypeOK, Location
<1>8. ASSUME NEW p \in Runner, ReadHistory(p) \/ ReadIds(p) PROVE TypeOK'
  <2>1. run[p] \in Run /\ inputs \in State
    BY DEF TypeOK
  <2>2. CASE ReadHistory(p)
    <3>1. [run[p] EXCEPT !.from = inputs] \in Run
      BY <2>1 DEF Run
    <3>. QED  BY <2>2, <3>1 DEF ReadHistory, Goto, TypeOK, Location
  <2>3. CASE ReadIds(p)
    <3>1. [run[p] EXCEPT !.ids = inputs, !.todo = run[p].horizon] \in Run
      BY <2>1 DEF Run
    <3>. QED  BY <2>3, <3>1 DEF ReadIds, Goto, TypeOK, Location
  <2>. QED  BY <1>8, <2>2, <2>3
<1>9. ASSUME NEW p \in Runner, NEW g \in Gameweek, ReadFixtures(p, g) \/ ReadFlags(p, g)
      PROVE  TypeOK'
  <2>1. run[p] \in Run /\ inputs \in State
    BY DEF TypeOK
  <2>2. CASE ReadFixtures(p, g)
    <3>. DEFINE found == {g} \X (Playing[inputs][g] \cap Listed[run[p].ids])
    <3>1. Playing[inputs][g] \subseteq Player
      BY <2>1, ProjectionsAssumption DEF State, Gameweek
    <3>2. found \subseteq Key
      BY <3>1 DEF Key
    <3>. HIDE DEF found
    <3>3. [run[p] EXCEPT !.left = run[p].left \cup found] \in Run
      BY <2>1, <3>2 DEF Run
    <3>. QED  BY <2>2, <3>3 DEF ReadFixtures, found, Goto, TypeOK, Location
  <2>3. CASE ReadFlags(p, g)
    <3>1. [run[p] EXCEPT !.to = [run[p].to EXCEPT ![g] = inputs],
                         !.todo = run[p].todo \ {g}] \in Run
      BY <2>1 DEF Run
    <3>. QED  BY <2>3, <3>1 DEF ReadFlags, Goto, TypeOK, Location
  <2>. QED  BY <1>9, <2>2, <2>3
<1>10. ASSUME NEW p \in Runner, NEW b \in Key, WriteRow(p, b) PROVE TypeOK'
  <2>1. run[p] \in Run
    BY DEF TypeOK
  <2>2. rows' \in [Version -> [Key -> Stamp]]
    <3>1. [from |-> run[p].from, to |-> run[p].to[b[1]]] \in Stamp
      BY <2>1 DEF Run, Key, Stamp
    <3>. QED  BY <1>10, <3>1 DEF WriteRow, TypeOK
  <2>3. [run[p] EXCEPT !.left = run[p].left \ {b}] \in Run
    BY <2>1 DEF Run
  <2>. QED  BY <1>10, <2>2, <2>3 DEF WriteRow, TypeOK
<1>11. ASSUME NEW p \in Runner, Written(p) \/ Throw(p) PROVE TypeOK'
  <2>1. /\ pc' \in [Runner -> Location] /\ run' \in [Runner -> Run] /\ running' \in BOOLEAN
    BY <1>11, NextVersionTyped, EndTyped DEF Throw, Written
  <2>. QED  BY <1>11, <2>1 DEF Throw, Written, TypeOK
<1>12. CASE SyncByHand
  BY <1>12, ProjectionsAssumption DEF SyncByHand, Synced, TypeOK, State
<1>13. CASE UNCHANGED vars
  BY <1>13 DEF vars, TypeOK
<1>. QED
  BY <1>1, <1>2, <1>3, <1>4, <1>5, <1>6, <1>7, <1>8, <1>9, <1>10, <1>11, <1>12, <1>13
     DEF Next, Proceed

(* Every reachable state is well typed: a run's version stays within those *)
(* it writes and its rows within gameweeks and players there are.          *)
THEOREM ProjectionsTyped == Spec => []TypeOK
  BY InitTyped, NextTyped, PTL DEF Spec

-----------------------------------------------------------------------------
(* The flag of the scheduler.                                              *)

(* A step inside an hourly invocation leaves the flag and the others alone *)
LEMMA LockKept ==
  ASSUME TypeOK, LockIsHeld, NEW p \in Runner, ~At(p, "idle"),
         \/ End(p)
         \/ UNCHANGED running /\ \E l \in Location \ {"idle"} : Goto(p, l)
         \/ UNCHANGED <<running, pc>>
  PROVE  LockIsHeld'
<1>. USE DEF At, Goto
<1>1. CASE End(p)
  <2>1. /\ pc' = [pc EXCEPT ![p] = "idle"] /\ running' = (running /\ p \notin Hourly)
        /\ pc \in [Runner -> Location]
    BY <1>1 DEF End, TypeOK
  <2>2. CASE p \in Hourly
    BY <2>1, <2>2 DEF LockIsHeld, Runner
  <2>3. CASE p \notin Hourly
    BY <2>1, <2>3 DEF LockIsHeld, Runner
  <2>. QED  BY <2>2, <2>3
<1>2. ASSUME NEW l \in Location \ {"idle"}, pc' = [pc EXCEPT ![p] = l], UNCHANGED running
      PROVE  LockIsHeld'
  <2>1. \A q \in Runner : pc'[q] = "idle" <=> pc[q] = "idle"
    BY <1>2 DEF TypeOK
  <2>. QED  BY <1>2, <2>1 DEF LockIsHeld, Runner
<1>3. CASE UNCHANGED <<running, pc>>
  BY <1>3 DEF LockIsHeld
<1>. QED  BY <1>1, <1>2, <1>3

LEMMA LockStep == TypeOK /\ LockIsHeld /\ [Next]_vars => LockIsHeld'
<1> SUFFICES ASSUME TypeOK, LockIsHeld, [Next]_vars PROVE LockIsHeld'
  OBVIOUS
<1>1. CASE Tick \/ SyncByHand \/ UNCHANGED vars
  BY <1>1 DEF Tick, SyncByHand, vars, LockIsHeld, At
<1>2. CASE Restart
  BY <1>2 DEF Restart, LockIsHeld, At, Runner
<1>3. ASSUME NEW p \in Runner, HourlyIncremental(p) PROVE LockIsHeld'
  <2>1. /\ p \in Hourly /\ ~running /\ running' = TRUE
        /\ pc' = [pc EXCEPT ![p] = "sync"] /\ pc \in [Runner -> Location]
    BY <1>3 DEF HourlyIncremental, Goto, TypeOK
  <2>2. \A q \in Hourly : pc[q] = "idle"
    BY <2>1 DEF LockIsHeld, At
  <2>. QED  BY <2>1, <2>2 DEF LockIsHeld, At, Runner
<1>4. ASSUME NEW p \in Runner, RunProject(p) PROVE LockIsHeld'
  <2>1. /\ p \notin Hourly /\ pc' = [pc EXCEPT ![p] = "horizon"] /\ UNCHANGED running
        /\ pc \in [Runner -> Location]
    BY <1>4, ProjectionsAssumption DEF RunProject, Goto, TypeOK
  <2>. QED  BY <2>1 DEF LockIsHeld, At, Runner
<1>5. ASSUME NEW p \in Runner, Proceed(p) PROVE LockIsHeld'
  <2>1. ~At(p, "idle")
    BY <1>5 DEF Proceed, RunIncremental, ProjectIfDeadlineNear, ReadHorizon, ReadHistory,
       ReadIds, ReadFixtures, ReadFlags, WriteRow, Written, Throw, Under, At
  <2>2. NextVersion(p) =>
           End(p) \/ (UNCHANGED running /\ \E l \in Location \ {"idle"} : Goto(p, l))
    BY DEF NextVersion, Location
  <2>3. \/ End(p)
        \/ UNCHANGED running /\ \E l \in Location \ {"idle"} : Goto(p, l)
        \/ UNCHANGED <<running, pc>>
    BY <1>5, <2>2 DEF Proceed, RunIncremental, ProjectIfDeadlineNear, ReadHorizon,
       ReadHistory, ReadIds, ReadFixtures, ReadFlags, WriteRow, Written, Throw, Location
  <2>. QED  BY <2>1, <2>3, LockKept
<1>. QED  BY <1>1, <1>2, <1>3, <1>4, <1>5 DEF Next

(* The flag is up exactly while one hourly invocation is on its way, in    *)
(* every order of errors, restarts and manual runs: two invocations of the *)
(* application never overlap, and none is locked out by a dead one         *)
(* (sync.scheduler.ts:33-50).                                              *)
THEOREM HourlyLock == Spec => []LockIsHeld
<1>1. Init => LockIsHeld
  BY ProjectionsAssumption DEF Init, LockIsHeld, At, Runner
<1>. QED  BY <1>1, LockStep, ProjectionsTyped, PTL DEF Spec

-----------------------------------------------------------------------------
(* What every run has read and written, relative to the tables.            *)

After(p)   == pc[p] \in {"fixtures", "flags", "write"}
HasRead(p) == pc[p] \in {"ids", "fixtures", "flags", "write"}
Cells(p)   == run[p].horizon \X Player

(* The states a run has seen, in the order it saw them.                    *)
Ordered(p) ==
    /\ ~Computing(p) => run[p] = NoRun
    /\ Computing(p) => 0 < run[p].began /\ run[p].began <= inputs
    /\ HasRead(p) => run[p].began <= run[p].from /\ run[p].from <= inputs
    /\ ~After(p) => run[p].left = {}
    /\ After(p) =>
          /\ run[p].from <= run[p].ids /\ run[p].ids <= inputs
          /\ run[p].todo \subseteq run[p].horizon
          /\ run[p].left \subseteq Cells(p)
          /\ \A g \in run[p].horizon \ run[p].todo :
                run[p].from <= run[p].to[g] /\ run[p].to[g] <= inputs
    /\ pc[p] = "write" => run[p].todo = {}

Accounted(p, b, t) == b \in run[p].left \/ WasWithout(b, run[p].from, t)

Done(p, b) ==
    /\ rows[run[p].version][b] # NoRow
    /\ \/ run[p].beside
       \/ rows[run[p].version][b] = [from |-> run[p].from, to |-> run[p].to[b[1]]]

(* No cell of a gameweek already read is forgotten.                        *)
Complete(p) ==
    /\ pc[p] \in {"fixtures", "flags"} =>
          \A b \in Cells(p) : b[1] \notin run[p].todo => Accounted(p, b, run[p].to[b[1]])
    /\ pc[p] = "flags" =>
          \A b \in Cells(p) :
             (b[1] \in run[p].todo /\ \A k \in run[p].todo : b[1] <= k)
                => Accounted(p, b, inputs)
    /\ pc[p] = "write" =>
          \A b \in Cells(p) : Accounted(p, b, run[p].to[b[1]]) \/ Done(p, b)

(* Alone, a run finds no row newer than what it has read first.            *)
Older(p) ==
    (HasRead(p) /\ ~run[p].beside) =>
        \A b \in Key : \/ rows[run[p].version][b].to <= run[p].from
                       \/ pc[p] = "write" /\ b \notin run[p].left

(* A candidate's run has the served rows behind it.                        *)
Follows(p) ==
    (Computing(p) /\ run[p].version # Served) =>
        \A b \in Cells(p) :
            \/ rows[Served][b] # NoRow
            \/ WasWithout(b, run[p].began,
                          IF pc[p] = "history" THEN inputs ELSE run[p].from)

Good(p) == Ordered(p) /\ Complete(p) /\ Older(p) /\ Follows(p)

NoneAhead == \A v \in Version, b \in Key : rows[v][b].to <= inputs

Apart == \A p, q \in Runner :
            (p # q /\ Computing(p) /\ Computing(q)) => run[p].beside

Inv == TypeOK /\ LockIsHeld /\ NoneAhead /\ Apart /\ \A p \in Runner : Good(p)

LEMMA WithoutLonger ==
  ASSUME NEW b, NEW s \in Int, NEW s1 \in Int, NEW t \in Int, NEW t1 \in Int,
         s1 <= s, t <= t1, WasWithout(b, s, t)
  PROVE  WasWithout(b, s1, t1)
<1>1. PICK n \in s..t : b[2] \notin Playing[n][b[1]] \cap Listed[n]
  BY DEF WasWithout
<1>2. n \in s1..t1
  OBVIOUS
<1>. QED  BY <1>1, <1>2 DEF WasWithout

LEMMA RunFields ==
  ASSUME TypeOK, NEW p \in Runner
  PROVE  /\ inputs \in Int /\ run[p] \in Run
         /\ run[p].version \in Version /\ run[p].horizon \subseteq Gameweek
         /\ run[p].beside \in BOOLEAN
         /\ run[p].began \in Int /\ run[p].from \in Int /\ run[p].ids \in Int
         /\ run[p].todo \subseteq Gameweek /\ run[p].left \subseteq Key
         /\ Cells(p) \subseteq Key
         /\ \A g \in Gameweek : run[p].to[g] \in Int
         /\ \A b \in Cells(p) : b[1] \in run[p].horizon /\ b[1] \in Gameweek
         /\ Gameweek \subseteq Int
<1>1. inputs \in State /\ run[p] \in Run /\ State \subseteq Int /\ Gameweek \subseteq Int
  BY ProjectionsAssumption DEF TypeOK, State, Gameweek
<1>. QED  BY <1>1 DEF Run, Cells, Key

LEMMA RowFields ==
  ASSUME TypeOK, NEW v \in Version, NEW b \in Key
  PROVE  rows[v][b].from \in Int /\ rows[v][b].to \in Int
<1>1. rows[v][b] \in Stamp /\ State \subseteq Int
  BY ProjectionsAssumption DEF TypeOK, State
<1>. QED  BY <1>1 DEF Stamp

(* Whoever computes nothing owes nothing.                                  *)
LEMMA IdleGood ==
  ASSUME NEW p \in Runner, ~Computing(p)', run'[p] = NoRun
  PROVE  Good(p)'
<1>1. ~HasRead(p)' /\ ~After(p)' /\ pc'[p] \notin {"fixtures", "flags", "write"}
  BY DEF Computing, HasRead, After
<1>2. run'[p].left = {}
  BY DEF NoRun
<1>. QED  BY <1>1, <1>2 DEF Good, Ordered, Complete, Older, Follows

(* A step leaves what is true of a run when it leaves the run, but for     *)
(* `beside`, and no row of its version disappears or, alone, changes.      *)
LEMMA StaysGood ==
  ASSUME TypeOK, TypeOK', NEW q \in Runner, Good(q), inputs <= inputs', pc'[q] = pc[q],
         \/ run'[q] = run[q]
         \/ Computing(q) /\ run'[q] = [run[q] EXCEPT !.beside = TRUE],
         \A v \in Version, b \in Key : rows[v][b] # NoRow => rows'[v][b] # NoRow,
         ~Computing(q) \/ run'[q].beside \/ UNCHANGED rows
  PROVE  Good(q)'
<1>1. CASE ~Computing(q)
  <2>1. run'[q] = NoRun /\ ~Computing(q)'
    BY <1>1 DEF Good, Ordered, Computing
  <2>. QED  BY <2>1, IdleGood
<1>2. CASE Computing(q)
  <2>1. /\ run'[q].version = run[q].version /\ run'[q].horizon = run[q].horizon
        /\ run'[q].began = run[q].began /\ run'[q].from = run[q].from
        /\ run'[q].ids = run[q].ids /\ run'[q].to = run[q].to
        /\ run'[q].todo = run[q].todo /\ run'[q].left = run[q].left
        /\ run[q].beside => run'[q].beside
    BY RunFields DEF Run
  <2>2. /\ Computing(q)' = Computing(q) /\ After(q)' = After(q)
        /\ HasRead(q)' = HasRead(q) /\ Cells(q)' = Cells(q)
    BY <2>1 DEF Computing, After, HasRead, Cells
  <2>3. /\ inputs \in Int /\ inputs' \in Int /\ Served \in Version
    BY RunFields, ProjectionsAssumption DEF TypeOK, State, Served, Version
  <2>4. Ordered(q)'
    <3>1. Ordered(q)
      BY DEF Good
    <3>2. \A g \in run[q].horizon \ run[q].todo : run[q].to[g] <= inputs => run[q].to[g] <= inputs'
      BY <2>3, RunFields
    <3>3. /\ run[q].began <= inputs => run[q].began <= inputs'
          /\ run[q].from <= inputs => run[q].from <= inputs'
          /\ run[q].ids <= inputs => run[q].ids <= inputs'
      BY <2>3, RunFields
    <3>. QED  BY <1>2, <2>1, <2>2, <3>1, <3>2, <3>3 DEF Ordered
  <2>5. Complete(q)'
    <3>1. Complete(q)
      BY DEF Good
    <3>2. \A b : Accounted(q, b, inputs) =>
             b \in run[q].left \/ WasWithout(b, run[q].from, inputs')
      BY <2>3, RunFields, WithoutLonger DEF Accounted
    <3>3. \A b \in Cells(q) : Done(q, b) => Done(q, b)'
      BY <1>2, <2>1, RunFields DEF Done
    <3>. QED  BY <2>1, <2>2, <3>1, <3>2, <3>3 DEF Complete, Accounted
  <2>6. Older(q)'
    <3>1. CASE UNCHANGED rows
      BY <2>1, <2>2, <3>1 DEF Good, Older
    <3>2. CASE run'[q].beside
      BY <3>2 DEF Older
    <3>. QED  BY <1>2, <3>1, <3>2
  <2>7. Follows(q)'
    <3>1. Follows(q)
      BY DEF Good
    <3>2. \A b : WasWithout(b, run[q].began, inputs) => WasWithout(b, run[q].began, inputs')
      BY <2>3, RunFields, WithoutLonger
    <3>3. \A b \in Cells(q) : rows[Served][b] # NoRow => rows'[Served][b] # NoRow
      BY <2>3, RunFields
    <3>. QED  BY <2>1, <2>2, <3>1, <3>2, <3>3 DEF Follows
  <2>. QED  BY <2>4, <2>5, <2>6, <2>7 DEF Good
<1>. QED  BY <1>1, <1>2

(* The reads of a run, one by one.                                         *)
LEMMA HorizonGood ==
  ASSUME TypeOK, NEW p \in Runner, ReadHorizon(p)
  PROVE  Good(p)'
<1>. inputs \in Nat
  BY ProjectionsAssumption DEF TypeOK, State
<1>1. /\ pc'[p] = "history" /\ inputs' = inputs /\ inputs # 0
      /\ run'[p].version = Served /\ run'[p].left = {} /\ run'[p].began = inputs
  BY HorizonRead DEF TypeOK
<1>2. ~HasRead(p)' /\ ~After(p)' /\ Computing(p)'
  BY <1>1 DEF HasRead, After, Computing
<1>. QED  BY <1>1, <1>2 DEF Good, Ordered, Complete, Older, Follows

LEMMA HistoryGood ==
  ASSUME TypeOK, NEW p \in Runner, Good(p), NoneAhead, ReadHistory(p)
  PROVE  Good(p)'
<1>1. /\ pc[p] = "history" /\ pc'[p] = "ids" /\ UNCHANGED <<inputs, rows>>
      /\ run'[p] = [run[p] EXCEPT !.from = inputs]
  BY DEF ReadHistory, At, Goto, TypeOK
<1>2. /\ run'[p].from = inputs /\ run'[p].version = run[p].version
      /\ run'[p].began = run[p].began /\ run'[p].left = run[p].left
      /\ run'[p].horizon = run[p].horizon
  BY <1>1, RunFields DEF Run
<1>3. /\ Computing(p) /\ ~After(p) /\ Computing(p)' /\ ~After(p)' /\ HasRead(p)'
      /\ Cells(p)' = Cells(p)
  BY <1>1, <1>2 DEF Computing, After, HasRead, Cells
<1>4. Ordered(p)'
  BY <1>1, <1>2, <1>3, RunFields DEF Good, Ordered
<1>5. Complete(p)'
  BY <1>1 DEF Complete
<1>6. Older(p)'
  BY <1>1, <1>2, RunFields DEF NoneAhead, Older
<1>7. Follows(p)'
  BY <1>1, <1>2, <1>3 DEF Good, Follows
<1>. QED  BY <1>4, <1>5, <1>6, <1>7 DEF Good

LEMMA IdsGood ==
  ASSUME TypeOK, NEW p \in Runner, Good(p), ReadIds(p)
  PROVE  Good(p)'
<1>1. /\ pc[p] = "ids" /\ pc'[p] = "fixtures" /\ UNCHANGED <<inputs, rows>>
      /\ run'[p] = [run[p] EXCEPT !.ids = inputs, !.todo = run[p].horizon]
  BY DEF ReadIds, At, Goto, TypeOK
<1>2. /\ run'[p].from = run[p].from /\ run'[p].version = run[p].version
      /\ run'[p].began = run[p].began /\ run'[p].left = run[p].left
      /\ run'[p].horizon = run[p].horizon /\ run'[p].beside = run[p].beside
      /\ run'[p].ids = inputs /\ run'[p].todo = run[p].horizon
  BY <1>1, RunFields DEF Run
<1>3. /\ Computing(p) /\ ~After(p) /\ Computing(p)' /\ HasRead(p)' /\ HasRead(p)
      /\ Cells(p)' = Cells(p)
  BY <1>1, <1>2 DEF Computing, After, HasRead, Cells
<1>4. Ordered(p)'
  BY <1>1, <1>2, <1>3, RunFields DEF Good, Ordered
<1>5. Complete(p)'
  BY <1>1, <1>2, <1>3, RunFields DEF Complete
<1>6. Older(p)'
  BY <1>1, <1>2, <1>3 DEF Good, Older
<1>7. Follows(p)'
  BY <1>1, <1>2, <1>3 DEF Good, Follows
<1>. QED  BY <1>4, <1>5, <1>6, <1>7 DEF Good

LEMMA FixturesGood ==
  ASSUME TypeOK, NEW p \in Runner, NEW g \in Gameweek, Good(p), ReadFixtures(p, g)
  PROVE  Good(p)'
<1>. DEFINE found == {g} \X (Playing[inputs][g] \cap Listed[run[p].ids])
<1>1. /\ pc[p] = "fixtures" /\ pc'[p] = "flags" /\ UNCHANGED <<inputs, rows>>
      /\ run'[p] = [run[p] EXCEPT !.left = run[p].left \cup found]
      /\ g \in run[p].todo /\ \A k \in run[p].todo : g <= k
  BY DEF ReadFixtures, At, Goto, TypeOK
<1>2. /\ run'[p].from = run[p].from /\ run'[p].version = run[p].version
      /\ run'[p].began = run[p].began /\ run'[p].left = run[p].left \cup found
      /\ run'[p].horizon = run[p].horizon /\ run'[p].beside = run[p].beside
      /\ run'[p].ids = run[p].ids /\ run'[p].todo = run[p].todo /\ run'[p].to = run[p].to
  BY <1>1, RunFields DEF Run
<1>3. /\ Computing(p) /\ After(p) /\ After(p)' /\ Computing(p)' /\ HasRead(p)' /\ HasRead(p)
      /\ Cells(p)' = Cells(p)
  BY <1>1, <1>2 DEF Computing, After, HasRead, Cells
<1>4. Ordered(p)'
  <2>1. run[p].todo \subseteq run[p].horizon
    BY <1>3 DEF Good, Ordered
  <2>2. Playing[inputs][g] \subseteq Player
    BY ProjectionsAssumption DEF TypeOK, State, Gameweek
  <2>3. found \subseteq Cells(p)
    BY <1>1, <2>1, <2>2 DEF Cells
  <2>. QED  BY <1>1, <1>2, <1>3, <2>3 DEF Good, Ordered
<1>5. Complete(p)'
  <2>1. ASSUME NEW b \in Cells(p), b[1] \notin run[p].todo
        PROVE  Accounted(p, b, run[p].to[b[1]])'
    BY <1>1, <1>2, <2>1 DEF Good, Complete, Accounted
  <2>2. ASSUME NEW b \in Cells(p), b[1] \in run[p].todo, \A k \in run[p].todo : b[1] <= k
        PROVE  Accounted(p, b, inputs)'
    <3>1. b[1] = g
      BY <1>1, <2>2, RunFields
    <3>2. b = <<g, b[2]>> /\ b[2] \in Player
      BY <3>1 DEF Cells
    <3>3. CASE b[2] \in Playing[inputs][g] \cap Listed[run[p].ids]
      BY <1>2, <3>2, <3>3 DEF Accounted
    <3>4. ASSUME b[2] \notin Playing[inputs][g] \cap Listed[run[p].ids]
          PROVE  WasWithout(b, run[p].from, inputs)
      <4>1. /\ run[p].from <= inputs /\ run[p].from <= run[p].ids /\ run[p].ids <= inputs
            /\ run[p].from \in Int /\ run[p].ids \in Int /\ inputs \in Int
        BY <1>3, RunFields DEF Good, Ordered
      <4>2. inputs \in run[p].from..inputs /\ run[p].ids \in run[p].from..inputs
        BY <4>1
      <4>3. \/ b[2] \notin Playing[inputs][b[1]] \cap Listed[inputs]
            \/ b[2] \notin Playing[run[p].ids][b[1]] \cap Listed[run[p].ids]
        BY <3>1, <3>4
      <4>. QED  BY <4>2, <4>3 DEF WasWithout
    <3>. QED  BY <1>1, <1>2, <3>3, <3>4 DEF Accounted
  <2>. QED  BY <1>1, <1>2, <1>3, <2>1, <2>2 DEF Complete
<1>6. Older(p)'
  BY <1>1, <1>2, <1>3 DEF Good, Older
<1>7. Follows(p)'
  BY <1>1, <1>2, <1>3 DEF Good, Follows
<1>. QED  BY <1>4, <1>5, <1>6, <1>7 DEF Good

LEMMA FlagsGood ==
  ASSUME TypeOK, NEW p \in Runner, NEW g \in Gameweek, Good(p), ReadFlags(p, g)
  PROVE  Good(p)'
<1>1. /\ pc[p] = "flags" /\ pc'[p] = (IF run[p].todo = {g} THEN "write" ELSE "fixtures")
      /\ UNCHANGED <<inputs, rows>>
      /\ run'[p] = [run[p] EXCEPT !.to = [run[p].to EXCEPT ![g] = inputs],
                                  !.todo = run[p].todo \ {g}]
      /\ g \in run[p].todo /\ \A k \in run[p].todo : g <= k
  BY DEF ReadFlags, At, Goto, TypeOK
<1>2. /\ run'[p].from = run[p].from /\ run'[p].version = run[p].version
      /\ run'[p].began = run[p].began /\ run'[p].left = run[p].left
      /\ run'[p].horizon = run[p].horizon /\ run'[p].beside = run[p].beside
      /\ run'[p].ids = run[p].ids /\ run'[p].todo = run[p].todo \ {g}
      /\ run'[p].to = [run[p].to EXCEPT ![g] = inputs]
  BY <1>1, RunFields DEF Run
<1>3. \A k \in Gameweek : run'[p].to[k] = IF k = g THEN inputs ELSE run[p].to[k]
  BY <1>2, RunFields DEF Run
<1>4. /\ Computing(p) /\ After(p) /\ After(p)' /\ Computing(p)' /\ HasRead(p)' /\ HasRead(p)
      /\ Cells(p)' = Cells(p) /\ pc'[p] # "flags" /\ pc'[p] # "history"
  BY <1>1, <1>2 DEF Computing, After, HasRead, Cells
<1>5. Ordered(p)'
  <2>1. run[p].from <= inputs
    BY <1>4 DEF Good, Ordered
  <2>2. \A k \in run[p].horizon \ run'[p].todo :
           run[p].from <= run'[p].to[k] /\ run'[p].to[k] <= inputs
    BY <1>2, <1>3, <1>4, <2>1, RunFields DEF Good, Ordered
  <2>3. pc'[p] = "write" => run'[p].todo = {}
    BY <1>1, <1>2
  <2>. QED  BY <1>1, <1>2, <1>4, <2>2, <2>3 DEF Good, Ordered
<1>6. Complete(p)'
  <2>1. ASSUME NEW b \in Cells(p), b[1] \notin run'[p].todo
        PROVE  b \in run[p].left \/ WasWithout(b, run[p].from, run'[p].to[b[1]])
    <3>1. b[1] \in Gameweek
      BY RunFields
    <3>2. CASE b[1] = g
      BY <1>1, <1>3, <1>4, <3>1, <3>2 DEF Good, Complete, Accounted
    <3>3. CASE b[1] # g
      BY <1>1, <1>2, <1>3, <2>1, <3>1, <3>3 DEF Good, Complete, Accounted
    <3>. QED  BY <3>2, <3>3
  <2>2. pc'[p] = "write" => run'[p].todo = {}
    BY <1>1, <1>2
  <2>. QED  BY <1>2, <1>4, <2>1, <2>2 DEF Complete, Accounted
<1>7. Older(p)'
  BY <1>1, <1>2, <1>4 DEF Good, Older
<1>8. Follows(p)'
  BY <1>1, <1>2, <1>4 DEF Good, Follows
<1>. QED  BY <1>5, <1>6, <1>7, <1>8 DEF Good

LEMMA WriteGood ==
  ASSUME TypeOK, NEW p \in Runner, NEW b \in Key, Good(p), WriteRow(p, b)
  PROVE  Good(p)'
<1>. DEFINE own == [from |-> run[p].from, to |-> run[p].to[b[1]]]
<1>1. /\ pc[p] = "write" /\ pc'[p] = "write" /\ UNCHANGED inputs /\ b \in run[p].left
      /\ rows' = [rows EXCEPT ![run[p].version] = [rows[run[p].version] EXCEPT ![b] = own]]
      /\ run'[p] = [run[p] EXCEPT !.left = run[p].left \ {b}]
  BY DEF WriteRow, At, TypeOK
<1>2. /\ run'[p].from = run[p].from /\ run'[p].version = run[p].version
      /\ run'[p].began = run[p].began /\ run'[p].left = run[p].left \ {b}
      /\ run'[p].horizon = run[p].horizon /\ run'[p].beside = run[p].beside
      /\ run'[p].ids = run[p].ids /\ run'[p].todo = run[p].todo /\ run'[p].to = run[p].to
  BY <1>1, RunFields DEF Run
<1>3. /\ Computing(p) /\ After(p) /\ After(p)' /\ Computing(p)' /\ HasRead(p)' /\ HasRead(p)
      /\ Cells(p)' = Cells(p)
  BY <1>1, <1>2 DEF Computing, After, HasRead, Cells
<1>4. /\ rows'[run[p].version][b] = own
      /\ \A v \in Version, c \in Key :
            v # run[p].version \/ c # b => rows'[v][c] = rows[v][c]
  BY <1>1, RunFields DEF TypeOK
<1>5. own # NoRow
  <2>1. 0 < run[p].began /\ run[p].began <= run[p].from
    BY <1>3 DEF Good, Ordered
  <2>2. run[p].from # 0
    BY <2>1, RunFields
  <2>. QED  BY <2>2 DEF NoRow
<1>6. Ordered(p)'
  BY <1>1, <1>2, <1>3 DEF Good, Ordered
<1>7. Complete(p)'
  <2>1. ASSUME NEW c \in Cells(p)
        PROVE  Accounted(p, c, run[p].to[c[1]])' \/ Done(p, c)'
    <3>1. CASE c = b
      BY <1>2, <1>4, <1>5, <3>1 DEF Done
    <3>2. ASSUME c # b, Accounted(p, c, run[p].to[c[1]])
          PROVE  Accounted(p, c, run[p].to[c[1]])'
      BY <1>2, <3>2 DEF Accounted
    <3>3. ASSUME c # b, Done(p, c) PROVE Done(p, c)'
      <4>1. rows'[run[p].version][c] = rows[run[p].version][c]
        BY <1>4, <3>3, RunFields
      <4>. QED  BY <1>2, <3>3, <4>1 DEF Done
    <3>4. Accounted(p, c, run[p].to[c[1]]) \/ Done(p, c)
      BY <1>1 DEF Good, Complete
    <3>. QED  BY <3>1, <3>2, <3>3, <3>4
  <2>. QED  BY <1>1, <1>2, <1>3, <2>1 DEF Complete
<1>8. Older(p)'
  <2>1. ASSUME NEW c \in Key, ~run[p].beside
        PROVE  \/ rows'[run[p].version][c].to <= run[p].from
               \/ c \notin run[p].left \ {b}
    <3>1. CASE c = b
      BY <3>1
    <3>2. CASE c # b
      BY <1>3, <1>4, <2>1, <3>2, RunFields DEF Good, Older
    <3>. QED  BY <3>1, <3>2
  <2>. QED  BY <1>1, <1>2, <2>1 DEF Older
<1>9. Follows(p)'
  <2>1. ASSUME NEW c \in Cells(p), rows[Served][c] # NoRow PROVE rows'[Served][c] # NoRow
    <3>1. Served \in Version /\ c \in Key
      BY RunFields, ProjectionsAssumption DEF Served, Version
    <3>. QED  BY <1>4, <1>5, <2>1, <3>1
  <2>. QED  BY <1>1, <1>2, <1>3, <2>1 DEF Good, Follows
<1>. QED  BY <1>6, <1>7, <1>8, <1>9 DEF Good

(* The next version's turn, of a run that has written all of the served    *)
(* rows, or was past them.                                                 *)
LEMMA VersionGood ==
  ASSUME TypeOK, NEW p \in Runner, Good(p), Computing(p), NextVersion(p),
         inputs' = inputs, rows' = rows,
         run[p].version # Served \/ (pc[p] = "write" /\ run[p].left = {})
  PROVE  Good(p)'
<1>1. CASE run[p].version = NumVersions
  <2>1. run'[p] = NoRun /\ ~Computing(p)'
    BY <1>1, EndTyped DEF NextVersion, Computing, TypeOK
  <2>. QED  BY <2>1, IdleGood
<1>2. CASE run[p].version # NumVersions
  <2>1. /\ run' = [run EXCEPT ![p] = NextRun(p)] /\ pc' = [pc EXCEPT ![p] = "history"]
    BY <1>2 DEF NextVersion, NextRun, Goto
  <2>2. run'[p] = NextRun(p) /\ pc'[p] = "history"
    BY <2>1 DEF TypeOK
  <2>3. /\ run'[p].horizon = run[p].horizon /\ run'[p].began = run[p].began
        /\ run'[p].left = {}
    BY <1>2, <2>2, NextRunTyped
  <2>4. ~HasRead(p)' /\ ~After(p)' /\ Computing(p)' /\ Cells(p)' = Cells(p)
    BY <2>2, <2>3 DEF HasRead, After, Computing, Cells
  <2>5. Ordered(p)'
    BY <2>2, <2>3, <2>4 DEF Good, Ordered
  <2>6. Complete(p)' /\ Older(p)'
    BY <2>2, <2>4 DEF Complete, Older
  <2>7. ASSUME NEW b \in Cells(p)
        PROVE  rows[Served][b] # NoRow \/ WasWithout(b, run[p].began, inputs)
    <3>1. /\ run[p].began \in Int /\ run[p].from \in Int /\ inputs \in Int
          /\ b[1] \in run[p].horizon /\ run[p].to[b[1]] \in Int
      BY RunFields
    <3>2. CASE run[p].version = Served
      <4>1. /\ run[p].began <= run[p].from /\ run[p].to[b[1]] <= inputs
            /\ pc[p] = "write" /\ run[p].left = {}
        BY <3>1, <3>2 DEF Good, Ordered, After, HasRead
      <4>2. Accounted(p, b, run[p].to[b[1]]) \/ Done(p, b)
        BY <4>1 DEF Good, Complete
      <4>3. CASE WasWithout(b, run[p].from, run[p].to[b[1]])
        BY <3>1, <4>1, <4>3, WithoutLonger
      <4>. QED  BY <3>2, <4>1, <4>2, <4>3 DEF Accounted, Done
    <3>3. CASE run[p].version # Served
      <4>1. /\ Follows(p) /\ Ordered(p)
        BY DEF Good
      <4>2. CASE pc[p] = "history"
        BY <3>3, <4>1, <4>2 DEF Follows
      <4>3. CASE pc[p] # "history"
        <5>1. run[p].from <= inputs
          BY <4>1, <4>3 DEF Ordered, HasRead, Computing, TypeOK, Location
        <5>2. rows[Served][b] # NoRow \/ WasWithout(b, run[p].began, run[p].from)
          BY <3>3, <4>1, <4>3 DEF Follows
        <5>3. CASE WasWithout(b, run[p].began, run[p].from)
          BY <3>1, <5>1, <5>3, WithoutLonger
        <5>. QED  BY <5>2, <5>3
      <4>. QED  BY <4>2, <4>3
    <3>. QED  BY <3>2, <3>3
  <2>8. Follows(p)'
    BY <2>2, <2>3, <2>4, <2>7 DEF Follows
  <2>. QED  BY <2>5, <2>6, <2>8 DEF Good
<1>. QED  BY <1>1, <1>2

Step(p) == HourlyIncremental(p) \/ RunProject(p) \/ Proceed(p)

(* A step of one run: the others keep their places and, but for `beside`,  *)
(* their records, and the tables only move on.                             *)
LEMMA OthersKept ==
  ASSUME TypeOK, NEW p \in Runner, Step(p), NEW q \in Runner, q # p
  PROVE  /\ pc'[q] = pc[q]
         /\ \/ run'[q] = run[q]
            \/ Computing(q) /\ run'[q] = [run[q] EXCEPT !.beside = TRUE]
<1>1. CASE ReadHorizon(p)
  <2>1. pc'[q] = pc[q]
    BY <1>1, HorizonRead DEF TypeOK
  <2>2. run'[q] = IF Computing(q) /\ Meets(p, q)
                  THEN [run[q] EXCEPT !.beside = TRUE] ELSE run[q]
    BY <1>1, HorizonRead
  <2>. QED  BY <2>1, <2>2
<1>2. CASE NextVersion(p)
  BY <1>2 DEF NextVersion, End, Goto, TypeOK
<1>3. CASE End(p)
  BY <1>3 DEF End, Goto, TypeOK
<1>4. CASE ~ReadHorizon(p) /\ ~NextVersion(p) /\ ~End(p)
  BY <1>4 DEF Step, HourlyIncremental, RunProject, Proceed, RunIncremental,
     ProjectIfDeadlineNear, ReadHistory, ReadIds, ReadFixtures, ReadFlags, WriteRow, Written,
     Throw, Goto, TypeOK
<1>. QED  BY <1>1, <1>2, <1>3, <1>4

LEMMA TablesMoveOn ==
  ASSUME TypeOK, NEW p \in Runner, Step(p)
  PROVE  /\ inputs <= inputs'
         /\ UNCHANGED rows \/ \E b \in Key : WriteRow(p, b)
<1>. inputs \in Int
  BY RunFields
<1>1. Synced \/ UNCHANGED inputs => inputs <= inputs'
  BY DEF Synced
<1>. QED  BY <1>1 DEF Step, HourlyIncremental, RunProject, Proceed, RunIncremental,
          ProjectIfDeadlineNear, ReadHorizon, ReadHistory, ReadIds, ReadFixtures, ReadFlags,
          WriteRow, Written, Throw

(* A row written is over states the run has seen.                          *)
LEMMA WritesOwn ==
  ASSUME TypeOK, NEW p \in Runner, Good(p), NEW b \in Key, WriteRow(p, b)
  PROVE  /\ b \in run[p].left /\ Computing(p) /\ pc[p] = "write"
         /\ rows'[run[p].version][b] = [from |-> run[p].from, to |-> run[p].to[b[1]]]
         /\ rows'[run[p].version][b] # NoRow
         /\ run[p].to[b[1]] <= inputs
         /\ \A v \in Version, c \in Key :
               v # run[p].version \/ c # b => rows'[v][c] = rows[v][c]
<1>1. pc[p] = "write" /\ b \in run[p].left
  BY DEF WriteRow, At
<1>2. Computing(p) /\ After(p) /\ HasRead(p)
  BY <1>1 DEF Computing, After, HasRead
<1>3. b \in Cells(p) /\ b[1] \in run[p].horizon /\ run[p].todo = {}
  BY <1>1, <1>2, RunFields DEF Good, Ordered
<1>4. run[p].to[b[1]] <= inputs /\ 0 < run[p].began /\ run[p].began <= run[p].from
  BY <1>2, <1>3 DEF Good, Ordered
<1>5. run[p].from # 0
  BY <1>4, RunFields
<1>6. rows'[run[p].version][b] = [from |-> run[p].from, to |-> run[p].to[b[1]]]
  BY RunFields DEF WriteRow, TypeOK
<1>7. rows'[run[p].version][b] # NoRow
  BY <1>5, <1>6 DEF NoRow
<1>8. \A v \in Version, c \in Key : v # run[p].version \/ c # b => rows'[v][c] = rows[v][c]
  BY RunFields DEF WriteRow, TypeOK
<1>. QED  BY <1>1, <1>2, <1>4, <1>6, <1>7, <1>8

LEMMA ActorGood ==
  ASSUME TypeOK, NoneAhead, NEW p \in Runner, Good(p), Step(p)
  PROVE  Good(p)'
<1>1. CASE ReadHorizon(p)
  BY <1>1, HorizonGood
<1>2. CASE ReadHistory(p)
  BY <1>2, HistoryGood
<1>3. CASE ReadIds(p)
  BY <1>3, IdsGood
<1>4. ASSUME NEW g \in Gameweek, ReadFixtures(p, g) \/ ReadFlags(p, g) PROVE Good(p)'
  BY <1>4, FixturesGood, FlagsGood
<1>5. ASSUME NEW b \in Key, WriteRow(p, b) PROVE Good(p)'
  BY <1>5, WriteGood
<1>6. CASE End(p)
  <2>1. run'[p] = NoRun /\ ~Computing(p)'
    BY <1>6, EndTyped DEF Computing, TypeOK
  <2>. QED  BY <2>1, IdleGood
<1>7. CASE Written(p)
  <2>1. Computing(p) /\ pc[p] = "write" /\ run[p].left = {} /\ NextVersion(p)
    BY <1>7 DEF Written, At, Computing
  <2>. QED  BY <1>7, <2>1, VersionGood DEF Written
<1>8. CASE Throw(p)
  <2>1. CASE Computing(p) /\ run[p].version # Served
    <3>1. NextVersion(p) /\ inputs' = inputs /\ rows' = rows
      BY <1>8, <2>1 DEF Throw
    <3>2. run[p].version # Served \/ (pc[p] = "write" /\ run[p].left = {})
      BY <2>1
    <3>. QED  BY <2>1, <3>1, <3>2, VersionGood
  <2>2. CASE ~(Computing(p) /\ run[p].version # Served)
    BY <1>6, <1>8, <2>2 DEF Throw
  <2>. QED  BY <2>1, <2>2
<1>9. CASE HourlyIncremental(p) \/ RunProject(p) \/ RunIncremental(p) \/ ProjectIfDeadlineNear(p)
  <2>1. ~Computing(p)
    BY <1>9 DEF HourlyIncremental, RunProject, RunIncremental, ProjectIfDeadlineNear,
       At, Computing
  <2>2. run[p] = NoRun
    BY <2>1 DEF Good, Ordered
  <2>3. \/ End(p)
        \/ UNCHANGED run /\ ~Computing(p)'
    BY <1>9 DEF HourlyIncremental, RunProject, RunIncremental, ProjectIfDeadlineNear,
       Goto, Computing, TypeOK
  <2>. QED  BY <1>6, <2>2, <2>3, IdleGood
<1>. QED  BY <1>1, <1>2, <1>3, <1>4, <1>5, <1>7, <1>8, <1>9 DEF Step, Proceed

LEMMA ActorBeside ==
  ASSUME TypeOK, NEW p \in Runner, Step(p), ~ReadHorizon(p), Computing(p)'
  PROVE  Computing(p) /\ run'[p].beside = run[p].beside
<1>1. CASE End(p)
  BY <1>1, EndTyped DEF Computing, TypeOK
<1>2. CASE NextVersion(p) /\ Computing(p)
  <2>1. CASE run[p].version = NumVersions
    BY <1>1, <1>2, <2>1 DEF NextVersion
  <2>2. CASE run[p].version # NumVersions
    <3>1. run'[p] = NextRun(p)
      BY <1>2, <2>2 DEF NextVersion, NextRun, TypeOK
    <3>. QED  BY <1>2, <2>2, <3>1, NextRunTyped
  <2>. QED  BY <2>1, <2>2
<1>3. CASE ReadHistory(p)
  BY <1>3, RunFields DEF ReadHistory, At, Computing, TypeOK, Run
<1>4. CASE ReadIds(p)
  BY <1>4, RunFields DEF ReadIds, At, Computing, TypeOK, Run
<1>5. ASSUME NEW g \in Gameweek, ReadFixtures(p, g)
      PROVE  Computing(p) /\ run'[p].beside = run[p].beside
  <2>. DEFINE more == {g} \X (Playing[inputs][g] \cap Listed[run[p].ids])
  <2>1. pc[p] = "fixtures" /\ run' = [run EXCEPT ![p] = [run[p] EXCEPT !.left = run[p].left \cup more]]
    BY <1>5 DEF ReadFixtures, At
  <2>. HIDE DEF more
  <2>. QED  BY <2>1, RunFields DEF Computing, TypeOK, Run
<1>6. ASSUME NEW g \in Gameweek, ReadFlags(p, g)
      PROVE  Computing(p) /\ run'[p].beside = run[p].beside
  BY <1>6, RunFields DEF ReadFlags, At, Computing, TypeOK, Run
<1>7. ASSUME NEW b \in Key, WriteRow(p, b)
      PROVE  Computing(p) /\ run'[p].beside = run[p].beside
  BY <1>7, RunFields DEF WriteRow, At, Computing, TypeOK, Run
<1>8. CASE Written(p)
  BY <1>2, <1>8 DEF Written, At, Computing
<1>9. CASE Throw(p)
  BY <1>1, <1>2, <1>9 DEF Throw
<1>10. CASE HourlyIncremental(p) \/ RunProject(p) \/ RunIncremental(p) \/ ProjectIfDeadlineNear(p)
  BY <1>1, <1>10 DEF HourlyIncremental, RunProject, RunIncremental, ProjectIfDeadlineNear,
     Goto, Computing, TypeOK
<1>. QED  BY <1>3, <1>4, <1>5, <1>6, <1>7, <1>8, <1>9, <1>10 DEF Step, Proceed

(* Two runs that both compute are not kept apart by a lock, so each is     *)
(* known to be beside the other.                                           *)
LEMMA ApartKept ==
  ASSUME TypeOK, LockIsHeld, Apart, NEW p \in Runner, Step(p)
  PROVE  Apart'
<1> SUFFICES ASSUME NEW q \in Runner, NEW r \in Runner, q # r, Computing(q)', Computing(r)'
             PROVE  run'[q].beside
  BY DEF Apart
<1>1. CASE ReadHorizon(p)
  <2>1. \A x \in Runner \ {p} : Computing(x)' = Computing(x)
    BY <1>1, HorizonRead DEF Computing, TypeOK
  <2>2. \A x \in Runner \ {p} : Computing(x) => Meets(p, x)
    BY <1>1, HorizonRead DEF LockIsHeld, Computing, Meets, At, Runner
  <2>3. CASE q = p
    BY <1>1, <2>1, <2>2, <2>3, HorizonRead
  <2>4. CASE r = p
    <3>1. run'[q] = [run[q] EXCEPT !.beside = TRUE]
      BY <1>1, <2>1, <2>2, <2>4, HorizonRead
    <3>. QED  BY <3>1, RunFields DEF Run
  <2>5. CASE q # p /\ r # p
    <3>1. run[q].beside
      BY <2>1, <2>5 DEF Apart
    <3>2. run'[q] = run[q] \/ run'[q] = [run[q] EXCEPT !.beside = TRUE]
      BY <1>1, <2>5, HorizonRead
    <3>. QED  BY <3>1, <3>2, RunFields DEF Run
  <2>. QED  BY <2>3, <2>4, <2>5
<1>2. CASE ~ReadHorizon(p)
  <2>1. ASSUME NEW x \in Runner, Computing(x)'
        PROVE  Computing(x) /\ (run[x].beside => run'[x].beside)
    <3>1. CASE x = p
      BY <1>2, <2>1, <3>1, ActorBeside
    <3>2. CASE x # p
      <4>1. [run[x] EXCEPT !.beside = TRUE].beside
        BY RunFields DEF Run
      <4>. QED  BY <2>1, <3>2, <4>1, OthersKept DEF Computing
    <3>. QED  BY <3>1, <3>2
  <2>. QED  BY <2>1 DEF Apart
<1>. QED  BY <1>1, <1>2

LEMMA InvStep == Inv /\ [Next]_vars => Inv'
<1> SUFFICES ASSUME Inv, [Next]_vars PROVE Inv'
  OBVIOUS
<1>1. TypeOK /\ LockIsHeld /\ NoneAhead /\ Apart /\ \A q \in Runner : Good(q)
  BY DEF Inv
<1>2. TypeOK' /\ LockIsHeld'
  BY <1>1, NextTyped, LockStep
<1>3. CASE Tick \/ SyncByHand \/ UNCHANGED vars
  <2>1. UNCHANGED <<rows, pc, run>> /\ (inputs' = inputs \/ inputs' = inputs + 1)
    BY <1>3 DEF Tick, SyncByHand, Synced, vars
  <2>2. inputs \in Int /\ inputs' \in Int /\ inputs <= inputs'
    BY <1>1, <1>2, <2>1, ProjectionsAssumption DEF TypeOK, State
  <2>3. \A q \in Runner : Good(q)'
    BY <1>1, <1>2, <2>1, <2>2, StaysGood
  <2>4. NoneAhead'
    BY <1>1, <2>1, <2>2, RowFields DEF NoneAhead
  <2>5. Apart'
    BY <1>1, <2>1 DEF Apart, Computing
  <2>. QED  BY <1>2, <2>3, <2>4, <2>5 DEF Inv
<1>4. CASE Restart
  <2>1. /\ UNCHANGED <<inputs, rows>>
        /\ \A q \in Runner : IF q \in Hourly THEN pc'[q] = "idle" /\ run'[q] = NoRun
                             ELSE pc'[q] = pc[q] /\ run'[q] = run[q]
    BY <1>4 DEF Restart
  <2>2. inputs \in Int
    BY <1>1, ProjectionsAssumption DEF TypeOK, State
  <2>3. ASSUME NEW q \in Runner PROVE Good(q)'
    <3>1. CASE q \in Hourly
      BY <2>1, <3>1, IdleGood DEF Computing
    <3>2. CASE q \notin Hourly
      <4>1. inputs <= inputs' /\ pc'[q] = pc[q] /\ run'[q] = run[q] /\ rows' = rows
        BY <2>1, <2>2, <3>2
      <4>. QED  BY <1>1, <1>2, <4>1, StaysGood
    <3>. QED  BY <3>1, <3>2
  <2>4. NoneAhead'
    BY <1>1, <2>1 DEF NoneAhead
  <2>5. Apart'
    BY <1>1, <2>1 DEF Apart, Computing
  <2>. QED  BY <1>2, <2>3, <2>4, <2>5 DEF Inv
<1>5. ASSUME NEW p \in Runner, Step(p) PROVE Inv'
  <2>1. Good(p)'
    BY <1>1, <1>5, ActorGood
  <2>2. inputs <= inputs' /\ inputs \in Int /\ inputs' \in Int
    BY <1>1, <1>2, <1>5, TablesMoveOn, ProjectionsAssumption DEF TypeOK, State
  <2>3. UNCHANGED rows \/ \E b \in Key : WriteRow(p, b)
    BY <1>1, <1>5, TablesMoveOn
  <2>4. \A v \in Version, b \in Key : rows[v][b] # NoRow => rows'[v][b] # NoRow
    <3>1. CASE UNCHANGED rows
      BY <3>1
    <3>2. ASSUME NEW c \in Key, WriteRow(p, c),
                 NEW v \in Version, NEW b \in Key, rows[v][b] # NoRow
          PROVE  rows'[v][b] # NoRow
      BY <1>1, <3>2, WritesOwn
    <3>. QED  BY <2>3, <3>1, <3>2
  <2>5. ASSUME NEW q \in Runner, q # p PROVE Good(q)'
    <3>1. /\ pc'[q] = pc[q]
          /\ \/ run'[q] = run[q]
             \/ Computing(q) /\ run'[q] = [run[q] EXCEPT !.beside = TRUE]
      BY <1>1, <1>5, <2>5, OthersKept
    <3>2. ~Computing(q) \/ run'[q].beside \/ UNCHANGED rows
      <4>1. ASSUME Computing(q), NEW b \in Key, WriteRow(p, b) PROVE run'[q].beside
        <5>1. Computing(p)
          BY <1>1, <4>1, WritesOwn
        <5>2. run[q].beside
          BY <1>1, <2>5, <4>1, <5>1 DEF Apart
        <5>. QED  BY <1>1, <3>1, <5>2, RunFields DEF Run
      <4>. QED  BY <2>3, <4>1
    <3>. QED  BY <1>1, <1>2, <2>2, <2>4, <3>1, <3>2, StaysGood
  <2>6. NoneAhead'
    <3>1. ASSUME NEW v \in Version, NEW b \in Key PROVE rows'[v][b].to <= inputs'
      <4>1. rows[v][b].to <= inputs /\ rows[v][b].to \in Int
        BY <1>1, RowFields DEF NoneAhead
      <4>2. CASE UNCHANGED rows
        BY <2>2, <4>1, <4>2
      <4>3. ASSUME NEW c \in Key, WriteRow(p, c) PROVE rows'[v][b].to <= inputs'
        <5>1. CASE v = run[p].version /\ b = c
          <6>1. /\ rows'[v][b] = [from |-> run[p].from, to |-> run[p].to[b[1]]]
                /\ run[p].to[b[1]] <= inputs
            BY <1>1, <4>3, <5>1, WritesOwn
          <6>2. run[p].to[b[1]] \in Int
            BY <1>1, RunFields DEF Key
          <6>. QED  BY <2>2, <6>1, <6>2
        <5>2. CASE ~(v = run[p].version /\ b = c)
          <6>1. rows'[v][b] = rows[v][b]
            BY <1>1, <4>3, <5>2, WritesOwn
          <6>. QED  BY <2>2, <4>1, <6>1
        <5>. QED  BY <5>1, <5>2
      <4>. QED  BY <2>3, <4>2, <4>3
    <3>. QED  BY <3>1 DEF NoneAhead
  <2>7. Apart'
    BY <1>1, <1>5, ApartKept
  <2>. QED  BY <1>2, <2>1, <2>5, <2>6, <2>7 DEF Inv
<1>. QED  BY <1>3, <1>4, <1>5 DEF Next, Step

LEMMA InvAlways == Spec => []Inv
<1>1. Init => Inv
  <2> SUFFICES ASSUME Init PROVE Inv
    OBVIOUS
  <2>1. TypeOK /\ inputs = 0
    BY InitTyped DEF Init
  <2>2. LockIsHeld
    BY ProjectionsAssumption DEF Init, LockIsHeld, At, Runner
  <2>3. NoneAhead
    BY DEF Init, NoneAhead, NoRow
  <2>4. \A p \in Runner : pc[p] = "idle" /\ run[p] = NoRun /\ NoRun.left = {}
    BY DEF Init, NoRun
  <2>5. \A p \in Runner : ~Computing(p) /\ ~HasRead(p) /\ ~After(p)
    BY <2>4 DEF Computing, HasRead, After
  <2>6. Apart
    BY <2>5 DEF Apart
  <2>7. \A p \in Runner : Good(p)
    BY <2>4, <2>5 DEF Good, Ordered, Complete, Older, Follows
  <2>. QED  BY <2>1, <2>2, <2>3, <2>6, <2>7 DEF Inv
<1>. QED  BY <1>1, InvStep, PTL DEF Spec

-----------------------------------------------------------------------------
(* The properties.                                                         *)

(* Whatever throws, overlaps or changes meanwhile, a candidate's row is    *)
(* written after the served row of its player and gameweek, but for a      *)
(* player whom a sync gave the fixture or the id since the run began: the  *)
(* served rows are not hostage to a candidate                              *)
(* (projections.service.ts:158-170).                                       *)
THEOREM ServedComesFirst == Spec => []CandidatesFollow
<1>1. Inv => CandidatesFollow
  <2> SUFFICES ASSUME Inv, NEW p \in Runner, NEW b \in run[p].left,
                      At(p, "write"), run[p].version # Served
               PROVE  rows[Served][b] # NoRow \/ WasWithout(b, run[p].began, run[p].from)
    BY DEF CandidatesFollow
  <2>1. Good(p) /\ Computing(p) /\ After(p) /\ pc[p] = "write"
    BY DEF Inv, Computing, After, At
  <2>2. b \in Cells(p)
    BY <2>1 DEF Good, Ordered
  <2>. QED  BY <2>1, <2>2 DEF Good, Follows
<1>. QED  BY <1>1, InvAlways, PTL

(* The steps that write rows, and those by which a run goes on.            *)
LEMMA WhoWrites ==
  ASSUME TypeOK, [Next]_vars, ~UNCHANGED rows
  PROVE  \E p \in Runner, b \in Key : WriteRow(p, b)
<1>1. ASSUME NEW p \in Runner, Step(p) PROVE \E b \in Key : WriteRow(p, b)
  BY <1>1, TablesMoveOn
<1>. QED  BY <1>1 DEF Next, Step, Tick, SyncByHand, Restart, vars

(* Of runs that no other overlaps, hourly or by hand, none replaces a row  *)
(* by one over older data: all it read is at least as new as all that the  *)
(* row it replaces was computed from (sync.scheduler.ts:15-16).            *)
THEOREM NoOlderOverwriteEver == Spec => NoOlderOverwrite
<1>1. ASSUME Inv, [Next]_vars, NEW p \in Runner, NEW v \in Version, NEW b \in Key,
             run'[p] # run[p], ~run[p].beside, rows'[v][b] # rows[v][b]
      PROVE  rows'[v][b].from >= rows[v][b].to
  <2>1. TypeOK /\ \A q \in Runner : Good(q)
    BY <1>1 DEF Inv
  <2>2. PICK q \in Runner, c \in Key : WriteRow(q, c)
    BY <1>1, <2>1, WhoWrites
  <2>3. p = q
    BY <1>1, <2>1, <2>2 DEF WriteRow, TypeOK
  <2>4. v = run[p].version /\ b = c
    BY <1>1, <2>1, <2>2, <2>3, WritesOwn
  <2>5. /\ b \in run[p].left /\ pc[p] = "write"
        /\ rows'[v][b] = [from |-> run[p].from, to |-> run[p].to[b[1]]]
    BY <2>1, <2>2, <2>3, <2>4, WritesOwn
  <2>6. rows[v][b].to <= run[p].from
    BY <1>1, <2>1, <2>4, <2>5 DEF Good, Older, HasRead
  <2>. QED  BY <2>1, <2>5, <2>6, RunFields, RowFields
<1>2. Inv /\ [Next]_vars =>
        [\A p \in Runner, v \in Version, b \in Key :
            (/\ run'[p] # run[p] /\ ~run[p].beside
             /\ rows'[v][b] # rows[v][b] /\ rows[v][b] # NoRow)
                => rows'[v][b].from >= rows[v][b].to]_vars
  BY <1>1
<1>. QED  BY <1>2, InvAlways, PTL DEF Spec, NoOlderOverwrite

(* A run that no other overlaps and that goes on to the candidates leaves  *)
(* a served row of its own for every player and gameweek of its horizon,   *)
(* whatever a sync changed between its reads, except for who was without   *)
(* a fixture or an id in a state it saw (forecast.service.ts:102-132,      *)
(* projections.repository.ts:63-100).                                      *)
THEOREM ServedTableIsWholeAlways == Spec => ServedTableIsWhole
<1>1. ASSUME Inv, [Next]_vars, NEW p \in Runner, NEW b \in run[p].horizon \X Player,
             run[p].version = Served, run'[p].version # Served, ~run[p].beside
      PROVE  \/ rows[Served][b] = [from |-> run[p].from, to |-> run[p].to[b[1]]]
             \/ WasWithout(b, run[p].from, run[p].to[b[1]])
  <2>1. TypeOK /\ Good(p)
    BY <1>1 DEF Inv
  <2>2. Written(p)
    <3>1. run'[p] # NoRun /\ run'[p] # run[p]
      BY <1>1 DEF NoRun
    <3>2. PICK q \in Runner : Step(q)
      BY <1>1, <2>1, <3>1 DEF Next, Step, Tick, SyncByHand, Restart, vars
    <3>3. q = p
      <4>1. q # p => run'[p].version = run[p].version
        BY <2>1, <3>2, OthersKept, RunFields DEF Run
      <4>. QED  BY <1>1, <4>1
    <3>4. ~End(p)
      BY <2>1, <3>1, EndTyped DEF TypeOK
    <3>5. ~ReadHorizon(p)
      BY <1>1, <2>1, HorizonRead
    <3>6. ~ReadHistory(p) /\ ~ReadIds(p)
      BY <1>1, <2>1, RunFields DEF ReadHistory, ReadIds, TypeOK, Run
    <3>7. \A g \in Gameweek : ~ReadFixtures(p, g)
      BY <1>1, <2>1, RunFields DEF ReadFixtures, TypeOK, Run
    <3>8. \A g \in Gameweek : ~ReadFlags(p, g)
      BY <1>1, <2>1, RunFields DEF ReadFlags, TypeOK, Run
    <3>9. \A c \in Key : ~WriteRow(p, c)
      BY <1>1, <2>1, RunFields DEF WriteRow, TypeOK, Run
    <3>10. ~Throw(p)
      BY <1>1, <3>4 DEF Throw
    <3>11. ~(HourlyIncremental(p) \/ RunProject(p) \/ RunIncremental(p) \/ ProjectIfDeadlineNear(p))
      BY <3>1, <3>4 DEF HourlyIncremental, RunProject, RunIncremental, ProjectIfDeadlineNear
    <3>. QED  BY <3>2, <3>3, <3>5, <3>6, <3>7, <3>8, <3>9, <3>10, <3>11 DEF Step, Proceed
  <2>3. pc[p] = "write" /\ run[p].left = {}
    BY <2>2 DEF Written, At
  <2>4. Accounted(p, b, run[p].to[b[1]]) \/ Done(p, b)
    BY <2>1, <2>3 DEF Good, Complete, Cells
  <2>. QED  BY <1>1, <2>3, <2>4 DEF Accounted, Done
<1>2. Inv /\ [Next]_vars =>
        [\A p \in Runner : \A b \in run[p].horizon \X Player :
          (/\ run[p].version = Served /\ run'[p].version # Served
           /\ ~run[p].beside)
              => \/ rows[Served][b] = [from |-> run[p].from, to |-> run[p].to[b[1]]]
                 \/ WasWithout(b, run[p].from, run[p].to[b[1]])]_vars
  BY <1>1
<1>. QED  BY <1>2, InvAlways, PTL DEF Spec, ServedTableIsWhole

===============================================================================
