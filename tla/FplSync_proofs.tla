--------------------------- MODULE FplSync_proofs ---------------------------
(***************************************************************************)
(* Proofs about FplSync, for any processes, payloads, deadlines and        *)
(* bounds.                                                                 *)
(***************************************************************************)
EXTENDS FplSync, SequenceTheorems, TLAPS

(* Shape of the two upsert lists, as the provers need it.                  *)
LEMMA PartsShape ==
    /\ \A e \in Endpoint : Len(PartsOf[e]) \in Nat \ {0}
    /\ \A e \in Endpoint : \A k \in 1..Len(PartsOf[e]) : PartsOf[e][k] \in Part
    /\ DOMAIN PartsOf["bootstrap"] = 1..5 /\ Len(PartsOf["bootstrap"]) = 5
    /\ DOMAIN PartsOf["fixtures"] = 1..2 /\ Len(PartsOf["fixtures"]) = 2
  BY DEF PartsOf, Endpoint, Part

LEMMA NewJobTyped ==
  ASSUME NEW e \in Endpoint, NEW f \in BOOLEAN
  PROVE  NewJob(e, f) \in Job
  BY SyncAssumption DEF NewJob, Job, NoRev, Rev0, NoValue, Rev

Inv1 == TypeOK /\ ControlOK

LEMMA InitInv1 == Init => Inv1
  BY SyncAssumption DEF Init, Inv1, TypeOK, ControlOK, Active, Bound, NewJob, Job, RunRow,
       Captured, NotTaken, Location, Endpoint, Gameweek, NoRev, Rev0, Rev, NoValue,
       Empty, Live, HistoryRow

(* What a change to the process p's own place and locals preserves, when   *)
(* its row of sync_runs stays as it is.                                    *)
LEMMA LocalStep ==
  ASSUME Inv1, NEW p \in Active, NEW l \in Location \ {"idle", "start", "fetch"},
         NEW j \in Job,
         pc' = [pc EXCEPT ![p] = l], job' = [job EXCEPT ![p] = j],
         j.task = job[p].task, j.run = job[p].run, j.rev \in Rev,
         l = "resolve" => j.task = "fixtures",
         l \notin {"check", "resolve", "write", "record"} => j.task = "bootstrap",
         j.cursor <= IF l = "write" THEN Len(PartsOf[j.task])
                     ELSE IF l \in {"latest", "append", "capture"} THEN 2 ELSE 1,
         UNCHANGED runs
  PROVE  ControlOK' /\ pc' \in [Proc -> Location] /\ job' \in [Proc -> Job]
<1>1. pc' \in [Proc -> Location] /\ job' \in [Proc -> Job]
  BY DEF Inv1, TypeOK, Active
<1>2. p \in Proc /\ pc'[p] = l /\ job'[p] = j
  BY DEF Inv1, TypeOK, Active
<1>3. \A q \in Proc : q # p => pc'[q] = pc[q] /\ job'[q] = job[q]
  BY DEF Inv1, TypeOK
<1>4. Active' = Active
  BY <1>2, <1>3 DEF Active, Location
<1>5. ASSUME NEW q \in Proc
      PROVE  job'[q].cursor <= Bound(q)'
  BY <1>2, <1>3 DEF Inv1, ControlOK, Bound
<1>6. ASSUME NEW q \in Active
      PROVE  /\ job'[q].run \in DOMAIN runs'
             /\ runs'[job'[q].run].endpoint = job'[q].task
             /\ runs'[job'[q].run].status = "running"
             /\ \A r \in Active : q # r => job'[q].run # job'[r].run
             /\ pc'[q] # "fetch" => job'[q].rev \in Rev
             /\ pc'[q] = "resolve" => job'[q].task = "fixtures"
             /\ pc'[q] \notin {"fetch", "check", "resolve", "write", "record"}
                   => job'[q].task = "bootstrap"
  <2>1. /\ job'[q].run = job[q].run /\ job'[q].task = job[q].task
        /\ \A r \in Active : job'[r].run = job[r].run
    BY <1>2, <1>3 DEF Active
  <2>2. CASE q = p
    BY <2>1, <2>2, <1>2 DEF Inv1, ControlOK
  <2>3. CASE q # p
    BY <2>1, <2>3, <1>3 DEF Inv1, ControlOK, Active
  <2>. QED  BY <2>2, <2>3
<1>. QED  BY <1>1, <1>4, <1>5, <1>6 DEF ControlOK

(* A run that ends, whatever its status, hands over to the next task.      *)
LEMMA FinishRunTyped ==
  ASSUME Inv1, NEW p \in Active,
         NEW status \in {"success", "skipped", "failed"}, NEW hash \in Rev0,
         FinishRun(p, status, hash), UNCHANGED <<external, tables>>
  PROVE  Inv1'
<1> DEFINE r == job[p].run
           e == IF job[p].task = "bootstrap" THEN "start" ELSE "idle"
<1>1. p \in Proc /\ r \in DOMAIN runs /\ DOMAIN runs = 1..Len(runs)
  <2>1. r \in DOMAIN runs
    BY DEF Inv1, ControlOK
  <2>2. DOMAIN runs = 1..Len(runs)
    BY DEF Inv1, TypeOK
  <2>. QED  BY <2>1, <2>2 DEF Active
<1>2. /\ DOMAIN runs' = DOMAIN runs /\ Len(runs') = Len(runs)
      /\ runs' \in Seq(RunRow)
      /\ \A i \in DOMAIN runs : i # r => runs'[i] = runs[i]
  <2>. DEFINE row == [runs[r] EXCEPT !.status = status, !.hash = hash]
  <2>1. runs' = [runs EXCEPT ![r] = row]
    BY <1>1 DEF FinishRun
  <2>2. runs \in Seq(RunRow)
    BY DEF Inv1, TypeOK
  <2>3. row \in RunRow
    <3>1. runs[r] \in RunRow
      BY <2>2, <1>1
    <3>. QED  BY <3>1 DEF RunRow
  <2>. HIDE DEF row
  <2>. QED  BY <2>1, <2>2, <2>3, <1>1, ExceptSeq
<1>3. /\ pc' \in [Proc -> Location] /\ job' \in [Proc -> Job]
      /\ pc'[p] = e /\ job'[p] = NewJob("fixtures", FALSE)
      /\ \A q \in Proc : q # p => pc'[q] = pc[q] /\ job'[q] = job[q]
  <2>1. job[p] \in Job /\ job[p].force \in BOOLEAN
    BY <1>1 DEF Inv1, TypeOK, Job
  <2>2. NewJob("fixtures", FALSE) \in Job
    BY <2>1, NewJobTyped DEF Endpoint
  <2>3. e \in Location
    BY DEF Location
  <2>. HIDE DEF e
  <2>4. pc' = [pc EXCEPT ![p] = e] /\ job' = [job EXCEPT ![p] = NewJob("fixtures", FALSE)]
    BY DEF FinishRun, Goto, e
  <2>. QED  BY <1>1, <2>2, <2>3, <2>4 DEF Inv1, TypeOK
<1>4. Active' = Active \ {p}
  BY <1>1, <1>3 DEF Active
<1>5. TypeOK'
  BY <1>2, <1>3 DEF Inv1, TypeOK, external, tables
<1>6. ASSUME NEW q \in Proc
      PROVE  job'[q].cursor <= Bound(q)'
  <2>1. CASE q = p
    BY <2>1, <1>3 DEF Bound, NewJob
  <2>2. CASE q # p
    BY <2>2, <1>3 DEF Bound, Inv1, ControlOK
  <2>. QED  BY <2>1, <2>2
<1>7. ASSUME NEW q \in Active, q # p
      PROVE  /\ job'[q].run \in DOMAIN runs'
             /\ runs'[job'[q].run] = runs[job[q].run]
             /\ job'[q] = job[q] /\ pc'[q] = pc[q]
  BY <1>2, <1>3, <1>7 DEF Inv1, ControlOK, Active
<1>8. ControlOK'
  BY <1>4, <1>6, <1>7 DEF ControlOK, Inv1
<1>. QED  BY <1>5, <1>8 DEF Inv1

LEMMA NextInv1 == Inv1 /\ [Next]_vars => Inv1'
<1> SUFFICES ASSUME Inv1, [Next]_vars PROVE Inv1'
  OBVIOUS
<1> USE DEF external, tables
<1>1. ASSUME NEW p \in Proc, NEW f \in BOOLEAN, RunIncremental(p, f) PROVE Inv1'
  <2>1. NewJob("bootstrap", f) \in Job
    BY NewJobTyped DEF Endpoint
  <2>2. /\ pc' = [pc EXCEPT ![p] = "start"] /\ pc[p] = "idle"
        /\ job' = [job EXCEPT ![p] = NewJob("bootstrap", f)]
        /\ NewJob("bootstrap", f).cursor = 1
    BY <1>1 DEF RunIncremental, Goto, At, NewJob
  <2>3. TypeOK'
    BY <1>1, <2>1, <2>2 DEF Inv1, TypeOK, Location, RunIncremental
  <2>4. /\ Active' = Active /\ p \notin Active
        /\ \A q \in Active : job'[q] = job[q] /\ pc'[q] = pc[q]
    BY <2>2 DEF Inv1, TypeOK, Active
  <2>5. \A q \in Proc : job'[q].cursor <= Bound(q)'
    BY <2>2 DEF Inv1, TypeOK, ControlOK, Bound
  <2>. QED  BY <1>1, <2>3, <2>4, <2>5 DEF Inv1, ControlOK, RunIncremental
<1>2. ASSUME NEW p \in Proc, StartRun(p) PROVE Inv1'
  <2>. DEFINE row == [endpoint |-> job[p].task, at |-> now, hash |-> NoRev, status |-> "running"]
              n == Len(runs) + 1
  <2>1. /\ runs \in Seq(RunRow) /\ row \in RunRow /\ n \in 1..MaxRuns
        /\ job[p] \in Job
    BY <1>2, SyncAssumption DEF StartRun, Inv1, TypeOK, RunRow, Job, Rev0, NoRev
  <2>2. /\ runs' \in Seq(RunRow) /\ Len(runs') = n /\ runs'[n] = row
        /\ \A i \in DOMAIN runs : i \in DOMAIN runs' /\ i # n /\ runs'[i] = runs[i]
        /\ n \in DOMAIN runs'
    BY <1>2, <2>1 DEF StartRun
  <2>3. /\ pc' = [pc EXCEPT ![p] = "fetch"] /\ pc[p] = "start"
        /\ job' = [job EXCEPT ![p] = [job[p] EXCEPT !.run = n]]
    BY <1>2 DEF StartRun, Goto, At
  <2>4. [job[p] EXCEPT !.run = n] \in Job
    BY <2>1 DEF Job
  <2>5. TypeOK'
    BY <1>2, <2>1, <2>2, <2>3, <2>4, SyncAssumption DEF Inv1, TypeOK, Location, StartRun
  <2>6. /\ pc'[p] = "fetch" /\ job'[p].run = n /\ job'[p].task = row.endpoint
        /\ job'[p].cursor = job[p].cursor
        /\ \A q \in Proc : q # p => job'[q] = job[q] /\ pc'[q] = pc[q]
    BY <2>1, <2>3 DEF Inv1, TypeOK, Job
  <2>7. Active' = Active \cup {p} /\ p \notin Active
    BY <2>3, <2>6 DEF Active
  <2>8. \A q \in Proc : job'[q].cursor <= Bound(q)'
    BY <2>3, <2>6 DEF Inv1, ControlOK, Bound
  <2>9. \A q \in Active :
           /\ job'[q].run \in DOMAIN runs' /\ job'[q].run # n
           /\ runs'[job'[q].run] = runs[job[q].run]
           /\ job'[q] = job[q] /\ pc'[q] = pc[q]
    BY <2>2, <2>6, <2>7 DEF Inv1, ControlOK, Active
  <2>. HIDE DEF n
  <2>. QED  BY <2>2, <2>5, <2>6, <2>7, <2>8, <2>9 DEF Inv1, ControlOK
<1>3. ASSUME NEW p \in Proc, Fail(p) \/ Skip(p) \/ Succeed(p) PROVE Inv1'
  <2>1. p \in Active
    BY <1>3 DEF Fail, Skip, Succeed, AllWritten, At, Active
  <2>2. job[p].rev \in Rev0 /\ NoRev \in Rev0
    BY SyncAssumption DEF Inv1, TypeOK, Job, Rev0, NoRev
  <2>. QED  BY <1>3, <2>1, <2>2, FinishRunTyped DEF Fail, Skip, Succeed
<1>4. ASSUME NEW p \in Proc, Abandon(p) PROVE Inv1'
  <2>1. job[p] \in Job /\ NewJob("fixtures", FALSE) \in Job
        /\ NewJob("fixtures", FALSE).cursor = 1
    BY NewJobTyped DEF Endpoint, Inv1, TypeOK, Job, NewJob
  <2>2. /\ pc' = [pc EXCEPT ![p] = "idle"]
        /\ job' = [job EXCEPT ![p] = NewJob("fixtures", FALSE)]
    BY <1>4 DEF Abandon, Goto
  <2>3. TypeOK'
    BY <1>4, <2>1, <2>2 DEF Inv1, TypeOK, Location, Abandon
  <2>4. /\ Active' = Active \ {p}
        /\ \A q \in Active' : job'[q] = job[q] /\ pc'[q] = pc[q]
    BY <2>2 DEF Inv1, TypeOK, Active
  <2>5. \A q \in Proc : job'[q].cursor <= Bound(q)'
    <3>1. \A q \in Proc : q # p => job'[q] = job[q] /\ pc'[q] = pc[q]
      BY <2>2 DEF Inv1, TypeOK
    <3>2. job'[p].cursor = 1 /\ pc'[p] = "idle"
      BY <2>1, <2>2 DEF Inv1, TypeOK
    <3>. QED  BY <3>1, <3>2 DEF Inv1, ControlOK, Bound
  <2>6. UNCHANGED runs
    BY <1>4 DEF Abandon
  <2>7. \A q \in Active' : q \in Active
    BY <2>4
  <2>8. ControlOK'
    BY <2>4, <2>5, <2>6, <2>7 DEF Inv1, ControlOK
  <2>. QED  BY <2>3, <2>8 DEF Inv1
<1>5. CASE External
  <2>1. UNCHANGED <<runs, tables, pc, job>>
    BY <1>5 DEF External, Tick, UpstreamChange, LiveChange
  <2>2. now' \in 0..MaxTime /\ upstream' \in [Endpoint -> Rev] /\ liveUp' \in [Gameweek -> Live]
    <3>1. CASE Tick
      BY <3>1, SyncAssumption DEF Tick, Inv1, TypeOK
    <3>2. CASE \E e \in Endpoint, r \in Rev : UpstreamChange(e, r)
      BY <3>2 DEF UpstreamChange, Inv1, TypeOK
    <3>3. CASE \E g \in Gameweek : LiveChange(g)
      BY <3>3 DEF LiveChange, Inv1, TypeOK
    <3>. QED  BY <1>5, <3>1, <3>2, <3>3 DEF External
  <2>. QED  BY <2>1, <2>2 DEF Inv1, TypeOK, ControlOK, Active, Bound
<1>6. CASE UNCHANGED vars
  BY <1>6 DEF vars, Inv1, TypeOK, ControlOK, Active, Bound
<1>7. ASSUME NEW p \in Proc, Fetch(p) PROVE Inv1'
  <2>. DEFINE j == [job[p] EXCEPT !.rev = upstream[job[p].task]]
              l == "check"
  <2>1. p \in Active /\ job[p] \in Job
    BY <1>7 DEF Fetch, At, Active, Inv1, TypeOK
  <2>2. /\ j \in Job /\ j.task = job[p].task /\ j.run = job[p].run
        /\ j.rev \in Rev
    <3>1. upstream[job[p].task] \in Rev /\ Rev \subseteq Rev0
      BY <2>1, SyncAssumption DEF Inv1, TypeOK, Job, Rev, Rev0
    <3>. QED  BY <2>1, <3>1 DEF Job
  <2>3. /\ l \in Location \ {"idle", "start", "fetch"}
        /\ l = "resolve" => j.task = "fixtures"
        /\ l \notin {"check", "resolve", "write", "record"} => j.task = "bootstrap"
        /\ j.cursor <= IF l = "write" THEN Len(PartsOf[j.task])
                       ELSE IF l \in {"latest", "append", "capture"} THEN 2 ELSE 1
    BY <1>7, <2>1, PartsShape DEF Fetch, At, Location, Job, Endpoint, Inv1, ControlOK, Bound
  <2>4. pc' = [pc EXCEPT ![p] = l] /\ job' = [job EXCEPT ![p] = j] /\ UNCHANGED runs
    BY <1>7 DEF Fetch, Goto
  <2>5. UNCHANGED external /\ stored' \in [Part -> Rev0] /\ history' \in [History -> SUBSET HistoryRow]
        /\ snapshot' \in [Gameweek -> [Chunk -> Captured]] /\ live' \in [Gameweek -> Live]
    BY <1>7, <2>1 DEF Fetch, Inv1, TypeOK
  <2>. HIDE DEF j, l
  <2>. QED  BY <2>1, <2>2, <2>3, <2>4, <2>5, LocalStep DEF Inv1, TypeOK
<1>8. ASSUME NEW p \in Proc, NotSkipped(p) PROVE Inv1'
  <2>. DEFINE j == job[p]
              l == IF job[p].task = "bootstrap" THEN "write" ELSE "resolve"
  <2>1. p \in Active /\ job[p] \in Job
    BY <1>8 DEF NotSkipped, At, Active, Inv1, TypeOK
  <2>2. /\ j \in Job /\ j.task = job[p].task /\ j.run = job[p].run
        /\ j.rev \in Rev
    BY <1>8, <2>1 DEF NotSkipped, At, Job, Inv1, ControlOK
  <2>3. /\ l \in Location \ {"idle", "start", "fetch"}
        /\ l = "resolve" => j.task = "fixtures"
        /\ l \notin {"check", "resolve", "write", "record"} => j.task = "bootstrap"
        /\ j.cursor <= IF l = "write" THEN Len(PartsOf[j.task])
                       ELSE IF l \in {"latest", "append", "capture"} THEN 2 ELSE 1
    BY <1>8, <2>1, PartsShape DEF NotSkipped, At, Location, Job, Endpoint, Inv1, ControlOK, Bound
  <2>4. pc' = [pc EXCEPT ![p] = l] /\ job' = [job EXCEPT ![p] = j] /\ UNCHANGED runs
    BY <1>8 DEF NotSkipped, Goto, Inv1, TypeOK
  <2>5. UNCHANGED external /\ stored' \in [Part -> Rev0] /\ history' \in [History -> SUBSET HistoryRow]
        /\ snapshot' \in [Gameweek -> [Chunk -> Captured]] /\ live' \in [Gameweek -> Live]
    BY <1>8, <2>1 DEF NotSkipped, Inv1, TypeOK
  <2>. HIDE DEF j, l
  <2>. QED  BY <2>1, <2>2, <2>3, <2>4, <2>5, LocalStep DEF Inv1, TypeOK
<1>9. ASSUME NEW p \in Proc, ResolveTeams(p) PROVE Inv1'
  <2>. DEFINE j == [job[p] EXCEPT !.known = stored["teams"] # NoRev]
              l == "write"
  <2>1. p \in Active /\ job[p] \in Job
    BY <1>9 DEF ResolveTeams, At, Active, Inv1, TypeOK
  <2>2. /\ j \in Job /\ j.task = job[p].task /\ j.run = job[p].run
        /\ j.rev \in Rev
    BY <1>9, <2>1 DEF ResolveTeams, At, Job, Inv1, ControlOK
  <2>3. /\ l \in Location \ {"idle", "start", "fetch"}
        /\ l = "resolve" => j.task = "fixtures"
        /\ l \notin {"check", "resolve", "write", "record"} => j.task = "bootstrap"
        /\ j.cursor <= IF l = "write" THEN Len(PartsOf[j.task])
                       ELSE IF l \in {"latest", "append", "capture"} THEN 2 ELSE 1
    BY <1>9, <2>1, PartsShape DEF ResolveTeams, At, Location, Job, Endpoint, Inv1, ControlOK, Bound
  <2>4. pc' = [pc EXCEPT ![p] = l] /\ job' = [job EXCEPT ![p] = j] /\ UNCHANGED runs
    BY <1>9 DEF ResolveTeams, Goto
  <2>5. UNCHANGED external /\ stored' \in [Part -> Rev0] /\ history' \in [History -> SUBSET HistoryRow]
        /\ snapshot' \in [Gameweek -> [Chunk -> Captured]] /\ live' \in [Gameweek -> Live]
    BY <1>9, <2>1 DEF ResolveTeams, Inv1, TypeOK
  <2>. HIDE DEF j, l
  <2>. QED  BY <2>1, <2>2, <2>3, <2>4, <2>5, LocalStep DEF Inv1, TypeOK
<1>10. ASSUME NEW p \in Proc, WritePart(p) PROVE Inv1'
  <2>. DEFINE j == [job[p] EXCEPT !.cursor = IF job[p].cursor = Len(PartsOf[job[p].task]) THEN 1 ELSE @ + 1]
              l == IF job[p].cursor # Len(PartsOf[job[p].task]) THEN "write"
                   ELSE IF job[p].task = "bootstrap" THEN "latest" ELSE "record"
  <2>1. p \in Active /\ job[p] \in Job
    BY <1>10 DEF WritePart, At, Active, Inv1, TypeOK
  <2>2. /\ j \in Job /\ j.task = job[p].task /\ j.run = job[p].run
        /\ j.rev \in Rev
    BY <1>10, <2>1 DEF WritePart, At, Job, Inv1, ControlOK
  <2>3. /\ l \in Location \ {"idle", "start", "fetch"}
        /\ l = "resolve" => j.task = "fixtures"
        /\ l \notin {"check", "resolve", "write", "record"} => j.task = "bootstrap"
        /\ j.cursor <= IF l = "write" THEN Len(PartsOf[j.task])
                       ELSE IF l \in {"latest", "append", "capture"} THEN 2 ELSE 1
    BY <1>10, <2>1, PartsShape DEF WritePart, At, Location, Job, Endpoint, Inv1, ControlOK, Bound
  <2>4. pc' = [pc EXCEPT ![p] = l] /\ job' = [job EXCEPT ![p] = j] /\ UNCHANGED runs
    BY <1>10 DEF WritePart, Goto
  <2>5. UNCHANGED external /\ stored' \in [Part -> Rev0] /\ history' \in [History -> SUBSET HistoryRow]
        /\ snapshot' \in [Gameweek -> [Chunk -> Captured]] /\ live' \in [Gameweek -> Live]
    <3>1. job[p].rev \in Rev0
      BY <2>1 DEF Job
    <3>. QED  BY <1>10, <3>1 DEF WritePart, Upsert, Inv1, TypeOK
  <2>. HIDE DEF j, l
  <2>. QED  BY <2>1, <2>2, <2>3, <2>4, <2>5, LocalStep DEF Inv1, TypeOK
<1>12. ASSUME NEW p \in Proc, AppendChanged(p) PROVE Inv1'
  <2>. DEFINE j == [job[p] EXCEPT !.cursor = IF job[p].cursor = Len(Tracked) THEN 1 ELSE @ + 1,
                                   !.latest = NoValue]
              l == IF job[p].cursor = Len(Tracked) THEN "decide" ELSE "latest"
  <2>1. p \in Active /\ job[p] \in Job
    BY <1>12 DEF AppendChanged, At, Active, Inv1, TypeOK
  <2>2. /\ j \in Job /\ j.task = job[p].task /\ j.run = job[p].run
        /\ j.rev \in Rev
    <3>1. job[p].rev \in Rev
      BY <1>12, <2>1 DEF AppendChanged, At, Inv1, ControlOK
    <3>. DEFINE c == IF job[p].cursor = Len(Tracked) THEN 1 ELSE job[p].cursor + 1
    <3>2. c \in Nat \ {0} /\ NoValue \in Nat
      BY <2>1 DEF Job, Tracked, NoValue
    <3>3. j = [job[p] EXCEPT !.cursor = c, !.latest = NoValue]
      OBVIOUS
    <3>. HIDE DEF c, j
    <3>. QED  BY <2>1, <3>1, <3>2, <3>3 DEF Job
  <2>3. /\ l \in Location \ {"idle", "start", "fetch"}
        /\ l = "resolve" => j.task = "fixtures"
        /\ l \notin {"check", "resolve", "write", "record"} => j.task = "bootstrap"
        /\ j.cursor <= IF l = "write" THEN Len(PartsOf[j.task])
                       ELSE IF l \in {"latest", "append", "capture"} THEN 2 ELSE 1
    BY <1>12, <2>1, PartsShape DEF AppendChanged, At, Location, Job, Endpoint, Inv1, ControlOK, Bound, Tracked
  <2>4. pc' = [pc EXCEPT ![p] = l] /\ job' = [job EXCEPT ![p] = j] /\ UNCHANGED runs
    BY <1>12 DEF AppendChanged, Goto
  <2>5. UNCHANGED external /\ stored' \in [Part -> Rev0] /\ history' \in [History -> SUBSET HistoryRow]
        /\ snapshot' \in [Gameweek -> [Chunk -> Captured]] /\ live' \in [Gameweek -> Live]
    <3>1. job[p].run \in RunId
      BY <2>1, SyncAssumption DEF Inv1, TypeOK, ControlOK, RunId
    <3>2. Tracked[job[p].cursor] \in History
      BY <1>12, <2>1 DEF AppendChanged, At, Tracked, History, Job, Inv1, ControlOK, Bound, Active
    <3>3. ValueOf[Tracked[job[p].cursor]][job[p].rev] \in Nat \ {NoValue}
      BY <2>2, <3>2, SyncAssumption
    <3>. DEFINE h == Tracked[job[p].cursor]
                new == [at |-> job[p].run, value |-> ValueOf[h][job[p].rev]]
    <3>4. new \in HistoryRow
      BY <3>1, <3>3 DEF HistoryRow
    <3>5. history' = history \/ history' = [history EXCEPT ![h] = history[h] \cup {new}]
      BY <1>12 DEF AppendChanged
    <3>. HIDE DEF h, new
    <3>6. history' \in [History -> SUBSET HistoryRow]
      BY <3>4, <3>5 DEF Inv1, TypeOK
    <3>. QED  BY <1>12, <3>6 DEF AppendChanged, Inv1, TypeOK
  <2>. HIDE DEF j, l
  <2>. QED  BY <2>1, <2>2, <2>3, <2>4, <2>5, LocalStep DEF Inv1, TypeOK
<1>14. ASSUME NEW p \in Proc, CaptureSnapshot(p) PROVE Inv1'
  <2>. DEFINE j == [job[p] EXCEPT !.cursor = IF job[p].cursor = 2 THEN 1 ELSE @ + 1,
                                   !.target = IF job[p].cursor = 2 THEN {} ELSE @]
              l == IF job[p].cursor = 2 THEN "due" ELSE "capture"
  <2>1. p \in Active /\ job[p] \in Job
    BY <1>14 DEF CaptureSnapshot, At, Active, Inv1, TypeOK
  <2>2. /\ j \in Job /\ j.task = job[p].task /\ j.run = job[p].run
        /\ j.rev \in Rev
    <3>1. job[p].rev \in Rev
      BY <1>14, <2>1 DEF CaptureSnapshot, At, Inv1, ControlOK
    <3>. DEFINE c == IF job[p].cursor = 2 THEN 1 ELSE job[p].cursor + 1
                t == IF job[p].cursor = 2 THEN {} ELSE job[p].target
    <3>2. c \in Nat \ {0} /\ t \in SUBSET Gameweek
      BY <2>1 DEF Job
    <3>3. j = [job[p] EXCEPT !.cursor = c, !.target = t]
      OBVIOUS
    <3>. HIDE DEF c, t, j
    <3>. QED  BY <2>1, <3>1, <3>2, <3>3 DEF Job
  <2>3. /\ l \in Location \ {"idle", "start", "fetch"}
        /\ l = "resolve" => j.task = "fixtures"
        /\ l \notin {"check", "resolve", "write", "record"} => j.task = "bootstrap"
        /\ j.cursor <= IF l = "write" THEN Len(PartsOf[j.task])
                       ELSE IF l \in {"latest", "append", "capture"} THEN 2 ELSE 1
    BY <1>14, <2>1, PartsShape DEF CaptureSnapshot, At, Location, Job, Endpoint, Inv1, ControlOK, Bound
  <2>4. pc' = [pc EXCEPT ![p] = l] /\ job' = [job EXCEPT ![p] = j] /\ UNCHANGED runs
    BY <1>14 DEF CaptureSnapshot, Goto
  <2>5. UNCHANGED external /\ stored' \in [Part -> Rev0] /\ history' \in [History -> SUBSET HistoryRow]
        /\ snapshot' \in [Gameweek -> [Chunk -> Captured]] /\ live' \in [Gameweek -> Live]
    <3>. DEFINE row == [run |-> job[p].run, rev |-> job[p].rev]
    <3>1. row \in Captured
      BY <2>1 DEF Job, Captured
    <3>2. snapshot' = [g \in Gameweek |-> IF g \in job[p].target
                                         THEN [snapshot[g] EXCEPT ![job[p].cursor] = row]
                                         ELSE snapshot[g]]
      BY <1>14 DEF CaptureSnapshot
    <3>. HIDE DEF row
    <3>3. snapshot' \in [Gameweek -> [Chunk -> Captured]]
      BY <3>1, <3>2 DEF Inv1, TypeOK
    <3>. QED  BY <1>14, <3>3 DEF CaptureSnapshot, Inv1, TypeOK
  <2>. HIDE DEF j, l
  <2>. QED  BY <2>1, <2>2, <2>3, <2>4, <2>5, LocalStep DEF Inv1, TypeOK
<1>15. ASSUME NEW p \in Proc, FindDueLive(p) PROVE Inv1'
  <2>. DEFINE j == [job[p] EXCEPT !.due = NeedingLiveCapture]
              l == "live"
  <2>1. p \in Active /\ job[p] \in Job
    BY <1>15 DEF FindDueLive, At, Active, Inv1, TypeOK
  <2>2. /\ j \in Job /\ j.task = job[p].task /\ j.run = job[p].run
        /\ j.rev \in Rev
    <3>1. stored["gameweeks"] # NoRev => stored["gameweeks"] \in Rev
      BY SyncAssumption DEF Inv1, TypeOK, Part, Rev0, Rev, NoRev
    <3>2. NeedingLiveCapture \in SUBSET Gameweek
      BY <3>1, SyncAssumption DEF NeedingLiveCapture, StoredFinished, Gameweek
    <3>3. job[p].rev \in Rev
      BY <1>15, <2>1 DEF FindDueLive, At, Inv1, ControlOK
    <3>. QED  BY <2>1, <3>2, <3>3 DEF Job
  <2>3. /\ l \in Location \ {"idle", "start", "fetch"}
        /\ l = "resolve" => j.task = "fixtures"
        /\ l \notin {"check", "resolve", "write", "record"} => j.task = "bootstrap"
        /\ j.cursor <= IF l = "write" THEN Len(PartsOf[j.task])
                       ELSE IF l \in {"latest", "append", "capture"} THEN 2 ELSE 1
    BY <1>15, <2>1, PartsShape DEF FindDueLive, At, Location, Job, Endpoint, Inv1, ControlOK, Bound
  <2>4. pc' = [pc EXCEPT ![p] = l] /\ job' = [job EXCEPT ![p] = j] /\ UNCHANGED runs
    BY <1>15 DEF FindDueLive, Goto
  <2>5. UNCHANGED external /\ stored' \in [Part -> Rev0] /\ history' \in [History -> SUBSET HistoryRow]
        /\ snapshot' \in [Gameweek -> [Chunk -> Captured]] /\ live' \in [Gameweek -> Live]
    BY <1>15, <2>1 DEF FindDueLive, Inv1, TypeOK
  <2>. HIDE DEF j, l
  <2>. QED  BY <2>1, <2>2, <2>3, <2>4, <2>5, LocalStep DEF Inv1, TypeOK
<1>11. ASSUME NEW p \in Proc, ReadLatest(p) PROVE Inv1'
  <2>. DEFINE h == Tracked[job[p].cursor]
  <2>1. p \in Active /\ job[p] \in Job
    BY <1>11 DEF ReadLatest, At, Active, Inv1, TypeOK
  <2>2. h \in History
    BY <1>11, <2>1 DEF ReadLatest, At, Tracked, History, Job, Inv1, ControlOK, Bound, Active
  <2>3. PICK v \in {NoValue} \cup {r.value : r \in history[h]} :
           job' = [job EXCEPT ![p].latest = v]
    BY <1>11 DEF ReadLatest
  <2>4. v \in Nat
    BY <2>2, <2>3 DEF Inv1, TypeOK, HistoryRow, NoValue
  <2>. DEFINE j == [job[p] EXCEPT !.latest = v]
  <2>5. /\ j \in Job /\ j.task = job[p].task /\ j.run = job[p].run
        /\ j.rev \in Rev /\ j.task = "bootstrap" /\ j.cursor <= 2
    BY <1>11, <2>1, <2>4 DEF ReadLatest, At, Job, Inv1, ControlOK, Bound, Active
  <2>6. pc' = [pc EXCEPT ![p] = "append"] /\ job' = [job EXCEPT ![p] = j] /\ UNCHANGED runs
    BY <1>11, <2>3 DEF ReadLatest, Goto
  <2>. HIDE DEF j
  <2>. QED  BY <1>11, <2>1, <2>5, <2>6, LocalStep DEF Inv1, TypeOK, ReadLatest, Location
<1>13. ASSUME NEW p \in Proc, DecideSnapshot(p) PROVE Inv1'
  <2>. DEFINE t == SnapshotTarget(p)
              j == [job[p] EXCEPT !.target = t]
              l == IF t = {} THEN "due" ELSE "capture"
  <2>1. p \in Active /\ job[p] \in Job
    BY <1>13 DEF DecideSnapshot, At, Active, Inv1, TypeOK
  <2>2. /\ j \in Job /\ j.task = job[p].task /\ j.run = job[p].run
        /\ j.rev \in Rev
    BY <1>13, <2>1 DEF DecideSnapshot, SnapshotTarget, At, Job, Inv1, ControlOK
  <2>3. /\ l \in Location \ {"idle", "start", "fetch"}
        /\ l = "resolve" => j.task = "fixtures"
        /\ l \notin {"check", "resolve", "write", "record"} => j.task = "bootstrap"
        /\ j.cursor <= IF l = "write" THEN Len(PartsOf[j.task])
                       ELSE IF l \in {"latest", "append", "capture"} THEN 2 ELSE 1
    BY <1>13, <2>1, PartsShape DEF DecideSnapshot, At, Location, Job, Endpoint, Inv1, ControlOK, Bound
  <2>4. pc' = [pc EXCEPT ![p] = l] /\ job' = [job EXCEPT ![p] = j] /\ UNCHANGED runs
    BY <1>13 DEF DecideSnapshot, Goto
  <2>5. UNCHANGED external /\ stored' \in [Part -> Rev0] /\ history' \in [History -> SUBSET HistoryRow]
        /\ snapshot' \in [Gameweek -> [Chunk -> Captured]] /\ live' \in [Gameweek -> Live]
    BY <1>13, <2>1 DEF DecideSnapshot, Inv1, TypeOK
  <2>. HIDE DEF j, l
  <2>. QED  BY <2>1, <2>2, <2>3, <2>4, <2>5, LocalStep DEF Inv1, TypeOK
<1>16. ASSUME NEW p \in Proc, NEW g \in Gameweek, CaptureLive(p, g) PROVE Inv1'
  <2>. DEFINE j == [job[p] EXCEPT !.due = @ \ {g}]
              l == "live"
  <2>1. p \in Active /\ job[p] \in Job
    BY <1>16 DEF CaptureLive, At, Active, Inv1, TypeOK
  <2>2. /\ j \in Job /\ j.task = job[p].task /\ j.run = job[p].run
        /\ j.rev \in Rev
    BY <1>16, <2>1 DEF CaptureLive, At, Job, Inv1, ControlOK
  <2>3. /\ l \in Location \ {"idle", "start", "fetch"}
        /\ l = "resolve" => j.task = "fixtures"
        /\ l \notin {"check", "resolve", "write", "record"} => j.task = "bootstrap"
        /\ j.cursor <= IF l = "write" THEN Len(PartsOf[j.task])
                       ELSE IF l \in {"latest", "append", "capture"} THEN 2 ELSE 1
    BY <1>16, <2>1, PartsShape DEF CaptureLive, At, Location, Job, Endpoint, Inv1, ControlOK, Bound
  <2>4. pc' = [pc EXCEPT ![p] = l] /\ job' = [job EXCEPT ![p] = j] /\ UNCHANGED runs
    BY <1>16 DEF CaptureLive, Goto, At, Inv1, TypeOK
  <2>5. UNCHANGED external /\ stored' \in [Part -> Rev0] /\ history' \in [History -> SUBSET HistoryRow]
        /\ snapshot' \in [Gameweek -> [Chunk -> Captured]] /\ live' \in [Gameweek -> Live]
    BY <1>16, <2>1 DEF CaptureLive, Inv1, TypeOK
  <2>. HIDE DEF j, l
  <2>. QED  BY <2>1, <2>2, <2>3, <2>4, <2>5, LocalStep DEF Inv1, TypeOK
<1>. QED
  BY <1>1, <1>2, <1>3, <1>4, <1>5, <1>6, <1>7, <1>8, <1>9, <1>10, <1>11, <1>12,
     <1>13, <1>14, <1>15, <1>16
  DEF Next, Step

(* Every reachable state is well typed and each process's locals agree     *)
(* with where it is in SyncService (in particular, two overlapping runs    *)
(* never finish each other's sync_runs row).                               *)
THEOREM TypeCorrect == Spec => [](TypeOK /\ ControlOK)
<1>1. Spec => []Inv1
  BY InitInv1, NextInv1, PTL DEF Spec
<1>. QED  BY <1>1, PTL DEF Inv1

(* A process that resolved the teams found some, and no table is emptied.  *)
ParentsInv ==
  /\ FixturesHaveParents
  /\ \A p \in Proc : job[p].known => stored["teams"] # NoRev

LEMMA ParentsStep ==
  ASSUME Inv1, ParentsInv, [Next]_vars
  PROVE  ParentsInv'
<1>. DEFINE Fixtures == {"fixtures1", "fixtures2"}
<1>1. ASSUME UNCHANGED <<stored, job>> PROVE ParentsInv'
  BY <1>1 DEF ParentsInv, FixturesHaveParents
<1>2. ASSUME NEW p \in Proc, UNCHANGED stored, \A q \in Proc : q # p => job'[q] = job[q],
             job'[p].known => job[p].known \/ stored["teams"] # NoRev
      PROVE  ParentsInv'
  BY <1>2 DEF ParentsInv, FixturesHaveParents
<1>3. ASSUME NEW p \in Proc, WritePart(p) PROVE ParentsInv'
  <2>. DEFINE part == PartsOf[job[p].task][job[p].cursor]
  <2>1. p \in Active /\ job[p] \in Job /\ job[p].rev \in Rev /\ job[p].rev # NoRev
        /\ job[p].task \in Endpoint
    <3>1. p \in Active /\ job[p] \in Job /\ pc[p] = "write"
      BY <1>3 DEF WritePart, At, Active, Inv1, TypeOK
    <3>2. job[p].rev \in Rev
      BY <3>1 DEF Inv1, ControlOK
    <3>. QED  BY <3>1, <3>2 DEF Rev, NoRev, Job
  <2>2. job[p].cursor \in 1..Len(PartsOf[job[p].task])
    BY <1>3, <2>1, PartsShape DEF WritePart, At, Inv1, ControlOK, Bound, Job
  <2>3. part \in Part /\ (part \in Fixtures => job[p].task = "fixtures")
    <3>1. CASE job[p].task = "bootstrap"
      BY <2>2, <3>1 DEF PartsOf, Endpoint, Part
    <3>2. CASE job[p].task = "fixtures"
      BY <2>2, <3>2 DEF PartsOf, Endpoint, Part
    <3>. QED  BY <2>1, <3>1, <3>2 DEF Endpoint
  <2>4. \A q \in Proc : job'[q].known = job[q].known
    <3>1. PICK c : job' = [job EXCEPT ![p] = [job[p] EXCEPT !.cursor = c]]
      BY <1>3 DEF WritePart
    <3>2. job'[p] = [job[p] EXCEPT !.cursor = c] /\ \A q \in Proc : q # p => job'[q] = job[q]
      BY <3>1 DEF Inv1, TypeOK
    <3>3. job'[p].known = job[p].known
      BY <2>1, <3>2 DEF Job
    <3>. QED  BY <3>2, <3>3
  <2>5. CASE job[p].task = "fixtures" /\ ~job[p].known
    BY <1>3, <2>4, <2>5 DEF WritePart, Upsert, ParentsInv, FixturesHaveParents
  <2>6. CASE ~(job[p].task = "fixtures" /\ ~job[p].known)
    <3>. HIDE DEF part
    <3>1. /\ stored' = [stored EXCEPT ![part] = job[p].rev]
          /\ job[p].task = "fixtures" => stored["gameweeks"] # NoRev
      BY <1>3, <2>6 DEF WritePart, Upsert, part
    <3>2. \A t \in Part : stored[t] # NoRev => stored'[t] # NoRev
      BY <2>1, <2>3, <3>1 DEF Inv1, TypeOK
    <3>3. \A t \in Fixtures : stored'[t] # NoRev => stored[t] # NoRev \/ part = t
      BY <2>3, <3>1 DEF Inv1, TypeOK, Part
    <3>4. job[p].known => stored["teams"] # NoRev
      BY DEF ParentsInv
    <3>5. (\E t \in Fixtures : stored'[t] # NoRev)
             => stored["teams"] # NoRev /\ stored["gameweeks"] # NoRev
      BY <2>3, <2>6, <3>1, <3>3, <3>4 DEF ParentsInv, FixturesHaveParents
    <3>6. FixturesHaveParents'
      BY <3>2, <3>5 DEF FixturesHaveParents, Part
    <3>. QED  BY <2>4, <3>2, <3>6 DEF ParentsInv, Part
  <2>. QED  BY <2>5, <2>6
<1>4. ASSUME NEW p \in Proc, ResolveTeams(p) PROVE ParentsInv'
  BY <1>2, <1>4 DEF ResolveTeams, tables, Inv1, TypeOK, Job
<1>5. ASSUME NEW p \in Proc,
             \/ \E f \in BOOLEAN : RunIncremental(p, f)
             \/ Skip(p) \/ Succeed(p) \/ Fail(p) \/ Abandon(p)
      PROVE  ParentsInv'
  <2>1. PICK e, f : job' = [job EXCEPT ![p] = NewJob(e, f)]
    BY <1>5 DEF RunIncremental, Skip, Succeed, Fail, Abandon, FinishRun
  <2>2. ~job'[p].known /\ \A q \in Proc : q # p => job'[q] = job[q]
    BY <2>1 DEF Inv1, TypeOK, NewJob
  <2>. QED
    BY <1>2, <1>5, <2>2 DEF RunIncremental, Skip, Succeed, Fail, Abandon, tables
<1>6. ASSUME NEW p \in Proc,
             \/ StartRun(p) \/ Fetch(p) \/ NotSkipped(p) \/ ReadLatest(p) \/ AppendChanged(p)
             \/ DecideSnapshot(p) \/ CaptureSnapshot(p) \/ FindDueLive(p)
             \/ \E g \in Gameweek : CaptureLive(p, g)
      PROVE  ParentsInv'
  <2>1. UNCHANGED stored
    BY <1>6 DEF StartRun, Fetch, NotSkipped, ReadLatest, AppendChanged, DecideSnapshot,
       CaptureSnapshot, FindDueLive, CaptureLive, tables
  <2>2. job[p] \in Job /\ job \in [Proc -> Job]
    BY DEF Inv1, TypeOK
  <2>3. job'[p].known = job[p].known /\ \A q \in Proc : q # p => job'[q] = job[q]
    <3>1. CASE StartRun(p)
      BY <2>2, <3>1 DEF StartRun, Job
    <3>2. CASE Fetch(p)
      BY <2>2, <3>2 DEF Fetch, Job
    <3>3. CASE NotSkipped(p)
      BY <3>3 DEF NotSkipped
    <3>4. CASE ReadLatest(p)
      BY <2>2, <3>4 DEF ReadLatest, Job
    <3>5. CASE AppendChanged(p)
      <4>1. PICK c, v : job' = [job EXCEPT ![p] = [job[p] EXCEPT !.cursor = c, !.latest = v]]
        BY <3>5 DEF AppendChanged
      <4>2. /\ job'[p] = [job[p] EXCEPT !.cursor = c, !.latest = v]
            /\ \A q \in Proc : q # p => job'[q] = job[q]
        BY <2>2, <4>1
      <4>. QED  BY <2>2, <4>2 DEF Job
    <3>6. CASE DecideSnapshot(p)
      BY <2>2, <3>6 DEF DecideSnapshot, Job
    <3>7. CASE CaptureSnapshot(p)
      <4>1. PICK c, t : job' = [job EXCEPT ![p] = [job[p] EXCEPT !.cursor = c, !.target = t]]
        BY <3>7 DEF CaptureSnapshot
      <4>2. /\ job'[p] = [job[p] EXCEPT !.cursor = c, !.target = t]
            /\ \A q \in Proc : q # p => job'[q] = job[q]
        BY <2>2, <4>1
      <4>. QED  BY <2>2, <4>2 DEF Job
    <3>8. CASE FindDueLive(p)
      BY <2>2, <3>8 DEF FindDueLive, Job
    <3>9. CASE \E g \in Gameweek : CaptureLive(p, g)
      BY <2>2, <3>9 DEF CaptureLive, Job
    <3>. QED  BY <1>6, <3>1, <3>2, <3>3, <3>4, <3>5, <3>6, <3>7, <3>8, <3>9
  <2>. QED  BY <1>2, <2>1, <2>3
<1>7. CASE External \/ UNCHANGED vars
  BY <1>1, <1>7 DEF External, Tick, UpstreamChange, LiveChange, tables, vars
<1>. QED  BY <1>3, <1>4, <1>5, <1>6, <1>7 DEF Next, Step

(* No interleaving of synchronising processes, failure or crash leaves a   *)
(* fixture row without team and gameweek rows (upsertFixtures,             *)
(* sync.repository.ts:149).                                                *)
THEOREM ParentsFirst == Spec => []FixturesHaveParents
<1>1. Init => ParentsInv
  BY DEF Init, ParentsInv, FixturesHaveParents, NewJob, Part
<1>2. Inv1 /\ ParentsInv /\ [Next]_vars => ParentsInv'
  BY ParentsStep
<1>3. Spec => []Inv1
  BY TypeCorrect, PTL DEF Inv1
<1>4. ParentsInv => FixturesHaveParents
  BY DEF ParentsInv
<1>. QED  BY <1>1, <1>2, <1>3, <1>4, PTL DEF Spec

-----------------------------------------------------------------------------
(* Histories and deadline snapshots, when one process at a time            *)
(* synchronises: the hourly job's guard (sync.scheduler.ts:24) and nobody  *)
(* running `pnpm sync:fpl` next to it.                                     *)

(* What FinishRun does to the rows.                                        *)
LEMMA FinishedRow ==
  ASSUME Inv1, NEW p \in Active, NEW s, NEW h, FinishRun(p, s, h)
  PROVE  /\ DOMAIN runs' = DOMAIN runs /\ Len(runs') = Len(runs)
         /\ DOMAIN runs = 1..Len(runs) /\ Len(runs) \in Nat
         /\ job[p].run \in DOMAIN runs
         /\ runs[job[p].run].status = "running"
         /\ runs'[job[p].run].status = s /\ runs'[job[p].run].hash = h
         /\ runs'[job[p].run].endpoint = job[p].task
         /\ \A i \in DOMAIN runs : i # job[p].run => runs'[i] = runs[i]
         /\ \A i \in DOMAIN runs : /\ runs'[i].endpoint = runs[i].endpoint
                                  /\ runs'[i].at = runs[i].at
  <1>1. /\ job[p].run \in DOMAIN runs /\ runs[job[p].run].status = "running"
        /\ runs[job[p].run].endpoint = job[p].task
    BY DEF Inv1, ControlOK
  <1>2. /\ DOMAIN runs = 1..Len(runs) /\ Len(runs) \in Nat /\ runs \in Seq(RunRow)
        /\ runs[job[p].run] \in RunRow
    BY <1>1 DEF Inv1, TypeOK
  <1>. DEFINE row == [runs[job[p].run] EXCEPT !.status = s, !.hash = h]
  <1>3. runs' = [runs EXCEPT ![job[p].run] = row]
    BY DEF FinishRun
  <1>4. /\ row.status = s /\ row.hash = h
        /\ row.endpoint = runs[job[p].run].endpoint /\ row.at = runs[job[p].run].at
    BY <1>2 DEF RunRow
  <1>. HIDE DEF row
  <1>. QED  BY <1>1, <1>2, <1>3, <1>4

(* Runs that take turns: one process synchronises, on the newest row.      *)
Solo ==
    /\ \A p, q \in Proc : pc[p] # "idle" /\ pc[q] # "idle" => p = q
    /\ \A p \in Active : job[p].run = Len(runs)

Moves(p) == (\E f \in BOOLEAN : RunIncremental(p, f)) \/ Step(p) \/ Abandon(p)

(* A step of a process is a step of its own place and locals.              *)
LEMMA OwnStep ==
  ASSUME Inv1, NEW p \in Proc, Moves(p)
  PROVE  /\ \E l : pc' = [pc EXCEPT ![p] = l]
         /\ \E j : job' = [job EXCEPT ![p] = j]
<1>. USE DEF Inv1, TypeOK
<1>1. ASSUME NEW f \in BOOLEAN, RunIncremental(p, f)
      PROVE  (\E l : pc' = [pc EXCEPT ![p] = l]) /\ (\E j : job' = [job EXCEPT ![p] = j])
  BY <1>1 DEF RunIncremental, Goto
<1>2. CASE StartRun(p) \/ Fetch(p) \/ ResolveTeams(p) \/ WritePart(p)
  BY <1>2 DEF StartRun, Fetch, ResolveTeams, WritePart, Goto
<1>3. CASE ReadLatest(p) \/ AppendChanged(p) \/ DecideSnapshot(p) \/ CaptureSnapshot(p) \/ FindDueLive(p)
  BY <1>3 DEF ReadLatest, AppendChanged, DecideSnapshot, CaptureSnapshot, FindDueLive, Goto
<1>4. CASE NotSkipped(p)
  <2>1. job' = [job EXCEPT ![p] = job[p]]
    BY <1>4 DEF NotSkipped
  <2>. QED  BY <1>4, <2>1 DEF NotSkipped, Goto
<1>5. CASE \E g \in Gameweek : CaptureLive(p, g)
  <2>1. pc' = [pc EXCEPT ![p] = pc[p]]
    BY <1>5 DEF CaptureLive
  <2>. QED  BY <1>5, <2>1 DEF CaptureLive
<1>6. CASE Skip(p) \/ Succeed(p) \/ Fail(p) \/ Abandon(p)
  BY <1>6 DEF Skip, Succeed, Fail, Abandon, FinishRun, Goto
<1>. QED  BY <1>1, <1>2, <1>3, <1>4, <1>5, <1>6 DEF Moves, Step

(* The others are idle before it and after it.                             *)
LEMMA Alone ==
  ASSUME ~Overlap, Inv1, Solo, NEW p \in Proc, Moves(p)
  PROVE  \A q \in Proc : q # p => pc[q] = "idle" /\ pc'[q] = "idle" /\ job'[q] = job[q]
<1>1. PICK l : pc' = [pc EXCEPT ![p] = l]
  BY OwnStep
<1>2. PICK j : job' = [job EXCEPT ![p] = j]
  BY OwnStep
<1>3. \A q \in Proc : q # p => pc'[q] = pc[q] /\ job'[q] = job[q]
  BY <1>1, <1>2 DEF Inv1, TypeOK
<1>4. (\E f \in BOOLEAN : RunIncremental(p, f)) => Busy = {}
  BY DEF RunIncremental
<1>5. Step(p) \/ Abandon(p) => pc[p] # "idle"
  BY DEF Step, StartRun, Fetch, Skip, NotSkipped, ResolveTeams, WritePart, ReadLatest,
     AppendChanged, DecideSnapshot, CaptureSnapshot, FindDueLive, CaptureLive, Succeed,
     AllWritten, Fail, Abandon, At
<1>6. \A q \in Proc : q # p => pc[q] = "idle"
  BY <1>4, <1>5 DEF Busy, Moves, Solo
<1>. QED  BY <1>3, <1>6

LEMMA SoloStep == ~Overlap /\ Inv1 /\ Solo /\ [Next]_vars => Solo'
<1> SUFFICES ASSUME ~Overlap, Inv1, Solo, [Next]_vars PROVE Solo'
  OBVIOUS
<1>1. CASE External \/ UNCHANGED vars
  <2>1. UNCHANGED <<pc, job, runs>>
    BY <1>1 DEF External, Tick, UpstreamChange, LiveChange, vars
  <2>. QED  BY <2>1 DEF Solo, Active
<1>2. ASSUME NEW p \in Proc, Moves(p) PROVE Solo'
  <2>1. \A q \in Proc : q # p => pc'[q] = "idle" /\ pc[q] = "idle"
    BY <1>2, Alone
  <2>2. pc'[p] \notin {"idle", "start"} => job'[p].run = Len(runs')
    <3>. SUFFICES ASSUME pc'[p] \notin {"idle", "start"} PROVE job'[p].run = Len(runs')
      OBVIOUS
    <3>. USE DEF Inv1, TypeOK
    <3>1. CASE StartRun(p)
      <4>1. Len(runs') = Len(runs) + 1
        BY <3>1 DEF StartRun
      <4>. QED  BY <3>1, <4>1 DEF StartRun, Job
    <3>2. CASE (\E f \in BOOLEAN : RunIncremental(p, f)) \/ Skip(p) \/ Succeed(p) \/ Fail(p) \/ Abandon(p)
      <4>1. pc'[p] \in {"idle", "start"}
        BY <3>2 DEF RunIncremental, Skip, Succeed, Fail, Abandon, FinishRun, Goto
      <4>. QED  BY <4>1
    <3>3. CASE \/ Fetch(p) \/ NotSkipped(p) \/ ResolveTeams(p) \/ WritePart(p) \/ ReadLatest(p)
               \/ AppendChanged(p) \/ DecideSnapshot(p) \/ CaptureSnapshot(p) \/ FindDueLive(p)
               \/ \E g \in Gameweek : CaptureLive(p, g)
      <4>1. UNCHANGED runs /\ p \in Active
        BY <3>3 DEF Fetch, NotSkipped, ResolveTeams, WritePart, ReadLatest, AppendChanged,
           DecideSnapshot, CaptureSnapshot, FindDueLive, CaptureLive, At, Active
      <4>2. job'[p].run = job[p].run
        <5>. USE DEF Job
        <5>1. CASE Fetch(p) \/ NotSkipped(p) \/ ResolveTeams(p)
          BY <5>1 DEF Fetch, NotSkipped, ResolveTeams
        <5>2. CASE WritePart(p) \/ ReadLatest(p) \/ DecideSnapshot(p)
          BY <5>2 DEF WritePart, ReadLatest, DecideSnapshot
        <5>3. CASE FindDueLive(p) \/ \E g \in Gameweek : CaptureLive(p, g)
          BY <5>3 DEF FindDueLive, CaptureLive
        <5>4. CASE AppendChanged(p) \/ CaptureSnapshot(p)
          <6>1. PICK j : job' = [job EXCEPT ![p] = j] /\ j.run = job[p].run
            BY <5>4 DEF AppendChanged, CaptureSnapshot
          <6>. QED  BY <6>1
        <5>. QED  BY <3>3, <5>1, <5>2, <5>3, <5>4
      <4>. QED  BY <4>1, <4>2 DEF Solo
    <3>. QED  BY <1>2, <3>1, <3>2, <3>3 DEF Moves, Step
  <2>. QED  BY <2>1, <2>2 DEF Solo, Active
<1>. QED  BY <1>1, <1>2 DEF Next, Moves

(* How many of the histories a bootstrap run has dealt with: the others    *)
(* still have older rows only, and the latest row it has read is the one   *)
(* that is still latest when it appends.                                   *)
Ahead(p) ==
    IF pc[p] \in {"fetch", "check", "write"} THEN 0
    ELSE IF pc[p] \in {"latest", "append"} THEN job[p].cursor - 1 ELSE 2
HistoryProgress(p) ==
    /\ \A k \in 1..2 : k > Ahead(p) => \A r \in history[Tracked[k]] : r.at < job[p].run
    /\ pc[p] = "append" => LatestIs(Tracked[job[p].cursor], job[p].latest)
(* One row for a run, so that the latest row is unique.                    *)
HistoryInv ==
    /\ \A h \in History : \A r \in history[h] : r.at <= Len(runs)
    /\ \A h \in History : \A r, s \in history[h] : r.at = s.at => r = s
    /\ \A p \in Active : job[p].task = "bootstrap" => HistoryProgress(p)
    /\ HistoryRecordsChanges

LEMMA TrackedShape ==
  /\ \A k \in 1..2 : Tracked[k] \in History
  /\ \A h \in History : \E k \in 1..2 : h = Tracked[k]
  /\ Tracked[1] # Tracked[2] /\ Len(Tracked) = 2
<1>1. Tracked[1] = "price" /\ Tracked[2] = "ownership" /\ Len(Tracked) = 2
  BY DEF Tracked
<1>. QED  BY <1>1 DEF History

(* A row whose value is no repetition of the latest one, on top of it.     *)
LEMMA NewestOnTop ==
  ASSUME Inv1, HistoryInv, NEW h \in History, NEW new \in HistoryRow, NEW v,
         LatestIs(h, v), ~Unchanged(h, v, new.value),
         \A r \in history[h] : r.at < new.at,
         history' = [history EXCEPT ![h] = history[h] \cup {new}]
  PROVE  /\ HistoryRecordsChanges'
         /\ \A k \in History : \A r, s \in history'[k] : r.at = s.at => r = s
         /\ LatestIs(h, new.value)'
<1>1. /\ history'[h] = history[h] \cup {new}
      /\ \A k \in History : k # h => history'[k] = history[k]
  BY DEF Inv1, TypeOK
<1>2. \A k \in History : \A r \in history[k] : r \in HistoryRow /\ r.at \in Int
  BY DEF Inv1, TypeOK, HistoryRow, RunId
<1>3. new.at \in Int
  BY DEF HistoryRow, RunId
<1>4. \A r, s \in history'[h] : r.at = s.at => r = s
  BY <1>1, <1>2, <1>3 DEF HistoryInv
<1>5. ASSUME NEW r \in history'[h], NEW s \in history'[h], r.at < s.at,
             ~\E t \in history'[h] : r.at < t.at /\ t.at < s.at,
             r.value = s.value
      PROVE  h = "ownership" /\ r.value \in WholePercent
  <2>1. CASE s = new
    <3>1. r \in history[h]
      BY <1>1, <1>3, <1>5, <2>1
    <3>2. PICK r0 \in history[h] : r0.value = v /\ \A t \in history[h] : t.at <= r0.at
      BY <3>1 DEF LatestIs
    <3>3. r0.at = r.at
      BY <1>1, <1>2, <1>3, <1>5, <2>1, <3>1, <3>2
    <3>4. r0 = r
      BY <3>1, <3>2, <3>3 DEF HistoryInv
    <3>. QED  BY <1>5, <2>1, <3>2, <3>4 DEF Unchanged
  <2>2. CASE s # new
    <3>1. s \in history[h] /\ r \in history[h]
      BY <1>1, <1>2, <1>3, <1>5, <2>2
    <3>2. ~\E t \in history[h] : r.at < t.at /\ t.at < s.at
      BY <1>1, <1>5
    <3>. QED  BY <1>5, <3>1, <3>2 DEF HistoryInv, HistoryRecordsChanges, Neighbours
  <2>. QED  BY <2>1, <2>2
<1>6. HistoryRecordsChanges'
  <2>. SUFFICES ASSUME NEW k \in History, NEW r \in history'[k], NEW s \in history'[k],
                       Neighbours(k, r, s)', r.value = s.value
                PROVE  k = "ownership" /\ r.value \in WholePercent
    BY DEF HistoryRecordsChanges
  <2>1. r.at < s.at /\ ~\E t \in history'[k] : r.at < t.at /\ t.at < s.at
    BY DEF Neighbours
  <2>2. CASE k = h
    BY <1>5, <2>1, <2>2
  <2>3. CASE k # h
    <3>1. history'[k] = history[k]
      BY <1>1, <2>3
    <3>. QED  BY <2>1, <3>1 DEF HistoryInv, HistoryRecordsChanges, Neighbours
  <2>. QED  BY <2>2, <2>3
<1>7. LatestIs(h, new.value)'
  BY <1>1, <1>2, <1>3 DEF LatestIs
<1>8. \A k \in History : \A r, s \in history'[k] : r.at = s.at => r = s
  BY <1>1, <1>4 DEF HistoryInv
<1>. QED  BY <1>6, <1>7, <1>8

LEMMA HistoryStep == ~Overlap /\ Inv1 /\ Solo /\ HistoryInv /\ [Next]_vars => HistoryInv'
<1> SUFFICES ASSUME ~Overlap, Inv1, Solo, HistoryInv, [Next]_vars PROVE HistoryInv'
  OBVIOUS
<1>1. CASE External \/ UNCHANGED vars
  <2>1. UNCHANGED <<pc, job, runs, history>>
    BY <1>1 DEF External, Tick, UpstreamChange, LiveChange, vars, tables
  <2>. QED  BY <2>1 DEF HistoryInv, HistoryProgress, Ahead, HistoryRecordsChanges,
         Neighbours, LatestIs, Active
<1>2. ASSUME NEW p \in Proc, Moves(p) PROVE HistoryInv'
  <2>1. \A q \in Proc : q # p => pc'[q] = "idle" /\ pc[q] = "idle" /\ job'[q] = job[q]
    BY <1>2, Alone
  <2>2. Active' \subseteq {p}
    BY <2>1 DEF Active
  <2>. DEFINE Same == UNCHANGED history /\ Len(runs') >= Len(runs)
  <2>3. ASSUME UNCHANGED history, Len(runs') \in Int, Len(runs) \in Int, Len(runs') >= Len(runs),
               p \in Active' /\ job'[p].task = "bootstrap" => HistoryProgress(p)'
        PROVE  HistoryInv'
    <3>1. \A h \in History : \A r \in history[h] : r.at \in Int
      BY DEF Inv1, TypeOK, HistoryRow, RunId
    <3>. QED  BY <2>2, <2>3, <3>1 DEF HistoryInv, HistoryRecordsChanges, Neighbours
  <2>4. Len(runs) \in Int
    BY DEF Inv1, TypeOK
  <2>5. CASE (\E f \in BOOLEAN : RunIncremental(p, f)) \/ Skip(p) \/ Succeed(p) \/ Fail(p) \/ Abandon(p)
    <3>1. pc'[p] \in {"idle", "start"} /\ UNCHANGED history
      BY <2>5 DEF RunIncremental, Skip, Succeed, Fail, Abandon, FinishRun, Goto, Inv1, TypeOK, tables
    <3>2. Len(runs') = Len(runs)
      <4>1. CASE (\E f \in BOOLEAN : RunIncremental(p, f)) \/ Abandon(p)
        BY <4>1 DEF RunIncremental, Abandon
      <4>2. CASE Skip(p) \/ Succeed(p) \/ Fail(p)
        <5>1. p \in Active
          BY <4>2 DEF Skip, Succeed, Fail, AllWritten, At, Active
        <5>. QED  BY <4>2, <5>1, FinishedRow DEF Skip, Succeed, Fail
      <4>. QED  BY <2>5, <4>1, <4>2
    <3>. QED  BY <2>3, <2>4, <3>1, <3>2 DEF Active
  <2>6. CASE StartRun(p)
    <3>1. /\ Len(runs') = Len(runs) + 1 /\ UNCHANGED history /\ pc'[p] = "fetch"
          /\ job'[p].run = Len(runs) + 1
      BY <2>6 DEF StartRun, Goto, Inv1, TypeOK, Job, tables
    <3>2. HistoryProgress(p)'
      BY <2>4, <3>1, TrackedShape DEF HistoryInv, HistoryProgress, Inv1, TypeOK, HistoryRow, RunId
    <3>. QED  BY <2>3, <2>4, <3>1, <3>2
  <2>7. ASSUME UNCHANGED <<runs, history>>, p \in Active, job'[p].run = job[p].run,
               job'[p].task = job[p].task,
               p \in Active' /\ job[p].task = "bootstrap" =>
                  /\ Ahead(p)' = Ahead(p)
                  /\ pc'[p] = "append" => LatestIs(Tracked[job[p].cursor], job[p].latest)'
        PROVE  HistoryInv'
    <3>1. p \in Active' /\ job'[p].task = "bootstrap" => HistoryProgress(p)'
      BY <2>7 DEF HistoryInv, HistoryProgress
    <3>. QED  BY <2>3, <2>4, <2>7, <3>1
  <2>8. CASE Fetch(p) \/ NotSkipped(p) \/ ResolveTeams(p)
    <3>1. job'[p].run = job[p].run /\ job'[p].task = job[p].task
      BY <2>8 DEF Fetch, NotSkipped, ResolveTeams, Inv1, TypeOK, Job
    <3>2. /\ pc[p] \in {"fetch", "check", "resolve"} /\ pc'[p] \in {"check", "write", "resolve"}
          /\ job[p].task = "bootstrap" => pc[p] # "resolve" /\ pc'[p] # "resolve"
          /\ UNCHANGED <<runs, history>>
      BY <2>8 DEF Fetch, NotSkipped, ResolveTeams, Goto, At, Inv1, TypeOK, ControlOK, Active, tables
    <3>. QED  BY <2>7, <3>1, <3>2 DEF Ahead, Active
  <2>9. CASE WritePart(p)
    <3>1. job'[p].run = job[p].run /\ job'[p].task = job[p].task /\ UNCHANGED <<runs, history>>
      BY <2>9 DEF WritePart, Inv1, TypeOK, Job
    <3>2. /\ pc[p] = "write"
          /\ job[p].task = "bootstrap" =>
                pc'[p] = "write" \/ (pc'[p] = "latest" /\ job'[p].cursor = 1)
      BY <2>9 DEF WritePart, Goto, At, Inv1, TypeOK, Job
    <3>. QED  BY <2>7, <3>1, <3>2 DEF Ahead, Active
  <2>10. CASE ReadLatest(p)
    <3>1. /\ job'[p].run = job[p].run /\ job'[p].task = job[p].task /\ UNCHANGED <<runs, history>>
          /\ job'[p].cursor = job[p].cursor /\ pc[p] = "latest" /\ pc'[p] = "append"
      BY <2>10 DEF ReadLatest, Goto, At, Inv1, TypeOK, Job, tables
    <3>2. LatestIs(Tracked[job'[p].cursor], job'[p].latest)
      BY <2>10, <3>1 DEF ReadLatest, Inv1, TypeOK, Job
    <3>3. LatestIs(Tracked[job[p].cursor], job[p].latest)'
      BY <3>1, <3>2 DEF LatestIs
    <3>. QED  BY <2>7, <3>1, <3>3 DEF Ahead, Active
  <2>11. CASE \/ DecideSnapshot(p) \/ CaptureSnapshot(p) \/ FindDueLive(p)
              \/ \E g \in Gameweek : CaptureLive(p, g)
    <3>1. job'[p].run = job[p].run /\ job'[p].task = job[p].task
      <4>1. CASE DecideSnapshot(p) \/ FindDueLive(p) \/ \E g \in Gameweek : CaptureLive(p, g)
        BY <4>1 DEF DecideSnapshot, FindDueLive, CaptureLive, Inv1, TypeOK, Job
      <4>2. CASE CaptureSnapshot(p)
        <5>1. PICK c, t : job' = [job EXCEPT ![p] = [job[p] EXCEPT !.cursor = c, !.target = t]]
          BY <4>2 DEF CaptureSnapshot
        <5>. QED  BY <5>1 DEF Inv1, TypeOK, Job
      <4>. QED  BY <2>11, <4>1, <4>2
    <3>2. /\ pc[p] \in {"decide", "capture", "due", "live"}
          /\ pc'[p] \in {"decide", "capture", "due", "live"}
          /\ UNCHANGED <<runs, history>>
      BY <2>11 DEF DecideSnapshot, CaptureSnapshot, FindDueLive, CaptureLive, Goto, At,
         Inv1, TypeOK, tables
    <3>. QED  BY <2>7, <3>1, <3>2 DEF Ahead, Active
  <2>12. CASE AppendChanged(p)
    <3>. DEFINE k == job[p].cursor
                h == Tracked[k]
                value == ValueOf[h][job[p].rev]
                new == [at |-> job[p].run, value |-> value]
    <3>1. /\ p \in Active /\ pc[p] = "append" /\ job[p].task = "bootstrap" /\ k \in 1..2
          /\ job[p].rev \in Rev /\ job[p].run \in RunId /\ job[p].run = Len(runs)
          /\ UNCHANGED runs
      <4>1. p \in Active /\ pc[p] = "append" /\ UNCHANGED runs
        BY <2>12 DEF AppendChanged, At, Active
      <4>2. k \in Nat \ {0} /\ k <= 2
        BY <4>1 DEF Inv1, TypeOK, Job, ControlOK, Bound
      <4>3. job[p].task = "bootstrap" /\ job[p].rev \in Rev /\ job[p].run \in DOMAIN runs
        BY <4>1 DEF Inv1, ControlOK
      <4>4. job[p].run = Len(runs) /\ job[p].run \in 1..MaxRuns
        BY <4>1, <4>3, SyncAssumption DEF Solo, Inv1, TypeOK
      <4>. QED  BY <4>1, <4>2, <4>3, <4>4 DEF RunId
    <3>2. h \in History /\ value \in Nat \ {NoValue} /\ new \in HistoryRow
      BY <3>1, TrackedShape, SyncAssumption DEF HistoryRow
    <3>3. /\ job'[p].run = job[p].run /\ job'[p].task = job[p].task
          /\ job'[p].cursor = IF k = 2 THEN 1 ELSE k + 1
          /\ pc'[p] = IF k = 2 THEN "decide" ELSE "latest"
      <4>1. PICK j : /\ job' = [job EXCEPT ![p] = j] /\ j.run = job[p].run /\ j.task = job[p].task
                     /\ j.cursor = IF k = 2 THEN 1 ELSE k + 1
        <5>. DEFINE j == [job[p] EXCEPT !.cursor = IF k = 2 THEN 1 ELSE @ + 1, !.latest = NoValue]
        <5>1. job' = [job EXCEPT ![p] = j]
          BY <2>12, TrackedShape DEF AppendChanged
        <5>2. j.run = job[p].run /\ j.task = job[p].task /\ j.cursor = IF k = 2 THEN 1 ELSE k + 1
          BY DEF Inv1, TypeOK, Job
        <5>. QED  BY <5>1, <5>2
      <4>2. pc'[p] = IF k = 2 THEN "decide" ELSE "latest"
        BY <2>12, TrackedShape DEF AppendChanged, Goto, Inv1, TypeOK
      <4>. QED  BY <4>1, <4>2 DEF Inv1, TypeOK
    <3>4. /\ \A r \in history[h] : r.at < new.at
          /\ LatestIs(h, job[p].latest)
          /\ k = 1 => \A r \in history[Tracked[2]] : r.at < job[p].run
      <4>1. HistoryProgress(p) /\ Ahead(p) = k - 1
        BY <3>1 DEF HistoryInv, Ahead
      <4>. QED  BY <3>1, <4>1 DEF HistoryProgress
    <3>5. \/ UNCHANGED history
          \/ /\ ~Unchanged(h, job[p].latest, value)
             /\ history' = [history EXCEPT ![h] = history[h] \cup {new}]
      BY <2>12 DEF AppendChanged
    <3>6. p \in Active' => Ahead(p)' = k
      BY <3>1, <3>3 DEF Ahead
    <3>. HIDE DEF h, new, value
    <3>7. CASE UNCHANGED history
      <4>1. HistoryProgress(p)'
        <5>1. \A m \in 1..2 : m > k => m = 2 /\ k = 1
          BY <3>1
        <5>2. Ahead(p)' = k
          BY <3>1, <3>3 DEF Ahead
        <5>. QED  BY <3>1, <3>3, <3>4, <3>7, <5>1, <5>2 DEF HistoryProgress
      <4>. QED  BY <2>3, <2>4, <3>1, <3>7, <4>1
    <3>8. CASE /\ ~Unchanged(h, job[p].latest, value)
               /\ history' = [history EXCEPT ![h] = history[h] \cup {new}]
      <4>1. new.value = value /\ new.at = job[p].run
        BY DEF new
      <4>2. /\ HistoryRecordsChanges'
            /\ \A g \in History : \A r, s \in history'[g] : r.at = s.at => r = s
        BY <3>2, <3>4, <3>8, <4>1, NewestOnTop
      <4>3. \A g \in History : \A r \in history'[g] : r.at <= Len(runs')
        <5>1. \A g \in History : \A r \in history'[g] : r \in history[g] \/ r = new
          BY <3>8 DEF Inv1, TypeOK
        <5>. QED  BY <2>4, <3>1, <4>1, <5>1 DEF HistoryInv
      <4>4. HistoryProgress(p)'
        <5>1. \A m \in 1..2 : m > k => m = 2 /\ k = 1
          BY <3>1
        <5>2. k = 1 => history'[Tracked[2]] = history[Tracked[2]]
          BY <3>2, <3>8, TrackedShape DEF h, Inv1, TypeOK
        <5>3. Ahead(p)' = k /\ pc'[p] # "append"
          BY <3>1, <3>3 DEF Ahead
        <5>. QED  BY <3>3, <3>4, <5>1, <5>2, <5>3 DEF HistoryProgress
      <4>. QED  BY <2>2, <4>2, <4>3, <4>4 DEF HistoryInv
    <3>. QED  BY <3>5, <3>7, <3>8
  <2>. QED  BY <1>2, <2>5, <2>6, <2>8, <2>9, <2>10, <2>11, <2>12 DEF Moves, Step
<1>. QED  BY <1>1, <1>2 DEF Next, Moves

-----------------------------------------------------------------------------
(* captureDeadlineSnapshotIfDue without --snapshot: g is the gameweek to   *)
(* capture by a run that started at t.                                     *)
Due(t, g) ==
    /\ Deadline[g] > t
    /\ \A k \in Gameweek : k < g => Deadline[k] <= t
    /\ InWindow(t, g)

(* How far a bootstrap run has come with its snapshot.                     *)
Older(p, g, c) == snapshot[g][c].run < job[p].run
Mine(p, g, c)  == snapshot[g][c].run = job[p].run
GameweeksWritten(p) ==
    \/ pc[p] = "write" /\ job[p].cursor > 2
    \/ pc[p] \in {"latest", "append", "decide", "capture", "due", "live"}
SnapshotProgress(p) ==
    /\ pc[p] # "record"
    /\ GameweeksWritten(p) => stored["gameweeks"] # NoRev
    /\ pc[p] \notin {"capture", "due", "live"} =>
          \A g \in Gameweek, c \in Chunk : Older(p, g, c)
    /\ pc[p] = "capture" =>
          /\ \A g \in job[p].target : StartedAt(p) < Deadline[g]
          /\ \A g \in Gameweek : Due(StartedAt(p), g) => g \in job[p].target
          /\ \A g \in Gameweek, c \in Chunk : c >= job[p].cursor => Older(p, g, c)
          /\ \A g \in job[p].target, c \in Chunk : c < job[p].cursor => Mine(p, g, c)
    /\ pc[p] \in {"due", "live"} =>
          \A g \in Gameweek : Due(StartedAt(p), g) => \A c \in Chunk : Mine(p, g, c)

(* DueSnapshotIsKept without the query: the gameweeks table may be read    *)
(* again later, the deadlines stay.                                        *)
DueIsKept ==
    \A i \in DOMAIN runs : \A g \in Gameweek :
        (runs[i].endpoint = "bootstrap" /\ runs[i].status = "success" /\ Due(runs[i].at, g))
           => \A c \in Chunk : snapshot[g][c].run >= i

SnapshotInv ==
    /\ \A g \in Gameweek, c \in Chunk : snapshot[g][c].run <= Len(runs)
    /\ \A p \in Active : job[p].task = "bootstrap" => SnapshotProgress(p)
    /\ DueIsKept

(* What CaptureSnapshot does to the rows of a gameweek.                    *)
LEMMA CapturedRows ==
  ASSUME Inv1, NEW p \in Proc, CaptureSnapshot(p), NEW g \in Gameweek, NEW c \in Chunk
  PROVE  IF g \in job[p].target /\ c = job[p].cursor
         THEN snapshot'[g][c].run = job[p].run
         ELSE snapshot'[g][c] = snapshot[g][c]
<1>. DEFINE row == [run |-> job[p].run, rev |-> job[p].rev]
<1>1. snapshot' = [k \in Gameweek |-> IF k \in job[p].target
                     THEN [snapshot[k] EXCEPT ![job[p].cursor] = row] ELSE snapshot[k]]
  BY DEF CaptureSnapshot
<1>2. row.run = job[p].run
  OBVIOUS
<1>. HIDE DEF row
<1>. QED  BY <1>1, <1>2 DEF Inv1, TypeOK

LEMMA SnapshotStep == ~Overlap /\ Inv1 /\ Solo /\ SnapshotInv /\ [Next]_vars => SnapshotInv'
<1> SUFFICES ASSUME ~Overlap, Inv1, Solo, SnapshotInv, [Next]_vars PROVE SnapshotInv'
  OBVIOUS
<1>1. CASE External \/ UNCHANGED vars
  <2>1. UNCHANGED <<pc, job, runs, stored, snapshot>>
    BY <1>1 DEF External, Tick, UpstreamChange, LiveChange, vars, tables
  <2>. QED
    BY <2>1 DEF SnapshotInv, SnapshotProgress, DueIsKept, GameweeksWritten, Older, Mine,
       StartedAt, Active
<1>2. ASSUME NEW p \in Proc, Moves(p) PROVE SnapshotInv'
  <2>1. Active' \subseteq {p}
    BY <1>2, Alone DEF Active
  <2>2. /\ Len(runs) \in Int /\ DOMAIN runs = 1..Len(runs)
        /\ \A g \in Gameweek, c \in Chunk : snapshot[g][c].run \in Int
    BY DEF Inv1, TypeOK, Captured
  (* The snapshot stays, and no row of sync_runs becomes a success.        *)
  <2>3. ASSUME UNCHANGED snapshot, Len(runs') \in Int, Len(runs') >= Len(runs),
               \A i \in DOMAIN runs' : runs'[i].status = "success" =>
                  /\ i \in DOMAIN runs /\ runs[i].status = "success"
                  /\ runs'[i].endpoint = runs[i].endpoint /\ runs'[i].at = runs[i].at,
               p \in Active' /\ job'[p].task = "bootstrap" => SnapshotProgress(p)'
        PROVE  SnapshotInv'
    <3>1. DueIsKept'
      BY <2>3 DEF SnapshotInv, DueIsKept
    <3>2. \A g \in Gameweek, c \in Chunk : snapshot'[g][c].run <= Len(runs')
      BY <2>2, <2>3 DEF SnapshotInv
    <3>. QED  BY <2>1, <2>3, <3>1, <3>2 DEF SnapshotInv
  <2>4. CASE (\E f \in BOOLEAN : RunIncremental(p, f)) \/ Abandon(p)
    <3>1. pc'[p] \in {"idle", "start"} /\ UNCHANGED <<runs, snapshot>>
      BY <2>4 DEF RunIncremental, Abandon, Goto, Inv1, TypeOK, tables
    <3>. QED  BY <2>2, <2>3, <3>1 DEF Active
  <2>5. CASE StartRun(p)
    <3>1. /\ Len(runs') = Len(runs) + 1 /\ UNCHANGED snapshot /\ pc'[p] = "fetch"
          /\ job'[p].run = Len(runs) + 1
          /\ \A i \in DOMAIN runs : runs'[i] = runs[i]
          /\ DOMAIN runs' = 1..Len(runs') /\ runs'[Len(runs')].status = "running"
      BY <2>5 DEF StartRun, Goto, Inv1, TypeOK, Job, tables
    <3>2. SnapshotProgress(p)'
      BY <2>2, <3>1 DEF SnapshotInv, SnapshotProgress, GameweeksWritten, Older
    <3>. QED  BY <2>2, <2>3, <3>1, <3>2
  <2>6. CASE Skip(p) \/ Succeed(p) \/ Fail(p)
    <3>1. p \in Active
      BY <2>6 DEF Skip, Succeed, Fail, AllWritten, At, Active
    <3>4. PICK s, h : FinishRun(p, s, h) /\ (s = "success" => AllWritten(p))
      <4>1. \E s, h : FinishRun(p, s, h) /\ (s = "success" => AllWritten(p))
        BY <2>6 DEF Skip, Succeed, Fail
      <4>. QED  BY <4>1
    <3>5. /\ DOMAIN runs' = DOMAIN runs /\ Len(runs') = Len(runs)
          /\ \A i \in DOMAIN runs : i # job[p].run => runs'[i] = runs[i]
          /\ \A i \in DOMAIN runs : runs'[i].endpoint = runs[i].endpoint /\ runs'[i].at = runs[i].at
          /\ runs'[job[p].run].status = s
      BY <3>1, <3>4, FinishedRow
    <3>6. UNCHANGED snapshot /\ pc'[p] \in {"idle", "start"}
      BY <2>6 DEF Skip, Succeed, Fail, FinishRun, Goto, tables, Inv1, TypeOK
    <3>7. Active' = {}
      BY <2>1, <3>6 DEF Active
    <3>8. job[p].run = Len(runs) /\ job[p].run \in DOMAIN runs
          /\ runs[job[p].run].endpoint = job[p].task
      BY <3>1 DEF Solo, Inv1, ControlOK
    <3>9. CASE s = "success" /\ job[p].task = "bootstrap"
      <4>1. pc[p] = "live"
        BY <3>1, <3>4, <3>9 DEF AllWritten, At, SnapshotInv, SnapshotProgress
      <4>2. \A g \in Gameweek : Due(runs[job[p].run].at, g) =>
               \A c \in Chunk : snapshot[g][c].run = job[p].run
        BY <3>1, <3>9, <4>1 DEF SnapshotInv, SnapshotProgress, StartedAt, Mine
      <4>3. DueIsKept'
        <5>1. ASSUME NEW i \in DOMAIN runs', NEW g \in Gameweek, NEW c \in Chunk,
                     runs'[i].endpoint = "bootstrap", runs'[i].status = "success",
                     Due(runs'[i].at, g)
              PROVE  snapshot'[g][c].run >= i
          <6>1. i \in DOMAIN runs /\ Due(runs[i].at, g) /\ runs[i].endpoint = "bootstrap"
            BY <3>5, <5>1
          <6>2. CASE i = job[p].run
            BY <2>2, <3>6, <3>8, <4>2, <6>1, <6>2
          <6>3. CASE i # job[p].run
            <7>1. runs[i].status = "success"
              BY <3>5, <5>1, <6>1, <6>3
            <7>. QED  BY <3>6, <6>1, <7>1 DEF SnapshotInv, DueIsKept
          <6>. QED  BY <6>2, <6>3
        <5>. QED  BY <5>1 DEF DueIsKept
      <4>4. \A g \in Gameweek, c \in Chunk : snapshot'[g][c].run <= Len(runs')
        BY <3>5, <3>6 DEF SnapshotInv
      <4>. QED  BY <3>7, <4>3, <4>4 DEF SnapshotInv
    <3>10. CASE ~(s = "success" /\ job[p].task = "bootstrap")
      <4>1. DueIsKept'
        <5>1. ASSUME NEW i \in DOMAIN runs', NEW g \in Gameweek, NEW c \in Chunk,
                     runs'[i].endpoint = "bootstrap", runs'[i].status = "success",
                     Due(runs'[i].at, g)
              PROVE  snapshot'[g][c].run >= i
          <6>1. i \in DOMAIN runs /\ Due(runs[i].at, g) /\ runs[i].endpoint = "bootstrap"
            BY <3>5, <5>1
          <6>2. i # job[p].run
            BY <3>5, <3>8, <3>10, <5>1, <6>1
          <6>3. runs[i].status = "success"
            BY <3>5, <5>1, <6>1, <6>2
          <6>. QED  BY <3>6, <6>1, <6>3 DEF SnapshotInv, DueIsKept
        <5>. QED  BY <5>1 DEF DueIsKept
      <4>2. \A g \in Gameweek, c \in Chunk : snapshot'[g][c].run <= Len(runs')
        BY <3>5, <3>6 DEF SnapshotInv
      <4>. QED  BY <3>7, <4>1, <4>2 DEF SnapshotInv
    <3>. QED  BY <3>9, <3>10
  (* Steps inside a run that leave the snapshot alone.                     *)
  <2>7. ASSUME UNCHANGED <<runs, snapshot>>, p \in Active, job'[p].run = job[p].run,
               job'[p].task = job[p].task, pc[p] # "capture", pc'[p] # "capture",
               pc[p] \in {"due", "live"} <=> pc'[p] \in {"due", "live"},
               job[p].task = "bootstrap" => pc'[p] # "record",
               job[p].task = "bootstrap" /\ GameweeksWritten(p)'
                  => stored'["gameweeks"] # NoRev
        PROVE  SnapshotInv'
    <3>1. p \in Active' /\ job'[p].task = "bootstrap" => SnapshotProgress(p)'
      <4>1. SUFFICES ASSUME job[p].task = "bootstrap" PROVE SnapshotProgress(p)'
        BY <2>7
      <4>2. SnapshotProgress(p)
        BY <2>7, <4>1 DEF SnapshotInv
      <4>. QED  BY <2>7, <4>1, <4>2 DEF SnapshotProgress, StartedAt, Older, Mine
    <3>. QED  BY <2>2, <2>3, <2>7, <3>1
  <2>8. CASE Fetch(p) \/ NotSkipped(p) \/ ResolveTeams(p)
    <3>1. job'[p].run = job[p].run /\ job'[p].task = job[p].task /\ job'[p].cursor = job[p].cursor
      BY <2>8 DEF Fetch, NotSkipped, ResolveTeams, Inv1, TypeOK, Job
    <3>2. /\ pc[p] \in {"fetch", "check", "resolve"} /\ pc'[p] \in {"check", "write", "resolve"}
          /\ UNCHANGED <<runs, snapshot>>
      BY <2>8 DEF Fetch, NotSkipped, ResolveTeams, Goto, At, Inv1, TypeOK, Active, tables
    <3>3. ~GameweeksWritten(p)'
      BY <3>1, <3>2, SyncAssumption DEF GameweeksWritten, Inv1, TypeOK, Job, ControlOK, Bound
    <3>. QED  BY <2>7, <3>1, <3>2, <3>3 DEF Active
  <2>9. CASE WritePart(p)
    <3>1. /\ job'[p].run = job[p].run /\ job'[p].task = job[p].task /\ UNCHANGED <<runs, snapshot>>
          /\ p \in Active /\ pc[p] = "write" /\ job[p].rev \in Rev
      BY <2>9 DEF WritePart, Inv1, TypeOK, Job, At, Active, ControlOK
    <3>2. CASE job[p].task = "bootstrap"
      <4>. DEFINE k == job[p].cursor
                  part == PartsOf["bootstrap"][k]
      <4>1. /\ k \in 1..5 /\ part \in Part /\ (k = 2 => part = "gameweeks")
            /\ Len(PartsOf["bootstrap"]) = 5
        <5>1. k \in Nat \ {0} /\ k <= Len(PartsOf["bootstrap"])
          BY <3>1, <3>2 DEF Inv1, TypeOK, Job, ControlOK, Bound, Active
        <5>2. k \in 1..5 /\ part \in Part /\ Len(PartsOf["bootstrap"]) = 5
          BY <5>1, PartsShape DEF Endpoint
        <5>3. PartsOf["bootstrap"][2] = "gameweeks"
          BY DEF PartsOf, Endpoint
        <5>. QED  BY <5>2, <5>3
      <4>2. /\ pc'[p] = IF k # 5 THEN "write" ELSE "latest"
            /\ job'[p].cursor = IF k = 5 THEN 1 ELSE k + 1
        BY <2>9, <3>2, <4>1 DEF WritePart, Goto, Inv1, TypeOK, Job
      <4>3. stored' = [stored EXCEPT ![part] = job[p].rev]
        BY <2>9, <3>2 DEF WritePart, Upsert
      <4>4. job[p].rev # NoRev
        BY <3>1 DEF Rev, NoRev
      <4>5. k >= 2 => stored'["gameweeks"] # NoRev
        <5>1. k > 2 => stored["gameweeks"] # NoRev
          BY <3>1, <3>2 DEF SnapshotInv, SnapshotProgress, GameweeksWritten
        <5>. QED  BY <4>1, <4>3, <4>4, <5>1 DEF Inv1, TypeOK, Part
      <4>6. GameweeksWritten(p)' => stored'["gameweeks"] # NoRev
        BY <4>1, <4>2, <4>5 DEF GameweeksWritten
      <4>. QED  BY <2>7, <3>1, <4>2, <4>6
    <3>3. CASE job[p].task # "bootstrap"
      <4>1. pc'[p] \in {"write", "record"}
        BY <2>9, <3>3 DEF WritePart, Goto, Inv1, TypeOK
      <4>. QED  BY <2>7, <3>1, <3>3, <4>1
    <3>. QED  BY <3>2, <3>3
  <2>10. CASE ReadLatest(p) \/ AppendChanged(p) \/ FindDueLive(p) \/ \E g \in Gameweek : CaptureLive(p, g)
    <3>1. job'[p].run = job[p].run /\ job'[p].task = job[p].task
      <4>1. CASE ReadLatest(p) \/ FindDueLive(p) \/ \E g \in Gameweek : CaptureLive(p, g)
        BY <4>1 DEF ReadLatest, FindDueLive, CaptureLive, Inv1, TypeOK, Job
      <4>2. CASE AppendChanged(p)
        <5>1. PICK c, v : job' = [job EXCEPT ![p] = [job[p] EXCEPT !.cursor = c, !.latest = v]]
          BY <4>2 DEF AppendChanged
        <5>. QED  BY <5>1 DEF Inv1, TypeOK, Job
      <4>. QED  BY <2>10, <4>1, <4>2
    <3>2. /\ pc[p] \in {"latest", "append", "due", "live"}
          /\ pc'[p] \in {"latest", "append", "decide", "live"}
          /\ pc[p] \in {"due", "live"} <=> pc'[p] \in {"due", "live"}
          /\ UNCHANGED <<runs, stored, snapshot>>
      BY <2>10 DEF ReadLatest, AppendChanged, FindDueLive, CaptureLive, Goto, At, Inv1, TypeOK, tables
    <3>3. p \in Active
      BY <3>2 DEF Active
    <3>4. job[p].task = "bootstrap" => stored["gameweeks"] # NoRev
      BY <3>2, <3>3 DEF SnapshotInv, SnapshotProgress, GameweeksWritten
    <3>. QED  BY <2>7, <3>1, <3>2, <3>3, <3>4
  <2>11. CASE DecideSnapshot(p)
    <3>1. /\ p \in Active /\ pc[p] = "decide" /\ job[p].task = "bootstrap"
          /\ UNCHANGED <<runs, stored, snapshot>> /\ job[p].cursor = 1
      <4>1. p \in Active /\ pc[p] = "decide" /\ UNCHANGED <<runs, stored, snapshot>>
        BY <2>11 DEF DecideSnapshot, At, Active, tables
      <4>2. job[p].task = "bootstrap"
        BY <4>1 DEF Inv1, ControlOK
      <4>3. job[p].cursor \in Nat \ {0} /\ job[p].cursor <= 1
        BY <4>1 DEF Inv1, TypeOK, Job, ControlOK, Bound
      <4>. QED  BY <4>1, <4>2, <4>3
    <3>2. /\ job'[p].run = job[p].run /\ job'[p].task = job[p].task /\ job'[p].cursor = 1
          /\ job'[p].target = SnapshotTarget(p)
          /\ pc'[p] = IF SnapshotTarget(p) = {} THEN "due" ELSE "capture"
      BY <2>11, <3>1 DEF DecideSnapshot, Goto, Inv1, TypeOK, Job
    <3>3. SnapshotProgress(p)
      BY <3>1 DEF SnapshotInv
    <3>4. stored["gameweeks"] # NoRev
      BY <3>1, <3>3 DEF SnapshotProgress, GameweeksWritten
    <3>5. /\ \A g \in Gameweek : Due(StartedAt(p), g) => g \in SnapshotTarget(p)
          /\ \A g \in SnapshotTarget(p) : g \in Gameweek /\ Deadline[g] > StartedAt(p)
      BY <3>4 DEF Due, SnapshotTarget, NextDeadlineIs
    <3>6. \A g \in SnapshotTarget(p) : StartedAt(p) < Deadline[g]
      <4>1. runs[job[p].run] \in RunRow
        BY <3>1 DEF Inv1, TypeOK, ControlOK
      <4>. QED  BY <3>5, <4>1, SyncAssumption DEF RunRow, Gameweek, StartedAt
    <3>7. StartedAt(p)' = StartedAt(p)
      BY <3>1, <3>2 DEF StartedAt
    <3>8. \A g \in Gameweek, c \in Chunk : Older(p, g, c)'
      BY <3>1, <3>2, <3>3 DEF SnapshotProgress, Older
    <3>9. SnapshotProgress(p)'
      <4>. HIDE DEF SnapshotInv
      <4>1. CASE SnapshotTarget(p) = {}
        BY <3>1, <3>2, <3>4, <3>5, <3>7, <4>1 DEF SnapshotProgress
      <4>2. CASE SnapshotTarget(p) # {}
        BY <3>1, <3>2, <3>4, <3>5, <3>6, <3>7, <3>8, <4>2 DEF SnapshotProgress, Chunk
      <4>. QED  BY <4>1, <4>2
    <3>. QED  BY <2>2, <2>3, <3>1, <3>9
  <2>12. CASE CaptureSnapshot(p)
    <3>1. /\ p \in Active /\ pc[p] = "capture" /\ job[p].task = "bootstrap"
          /\ UNCHANGED <<runs, stored>> /\ job[p].cursor \in Chunk
          /\ job[p].run = Len(runs) /\ job[p].run \in DOMAIN runs
      <4>1. p \in Active /\ pc[p] = "capture" /\ UNCHANGED <<runs, stored>>
        BY <2>12 DEF CaptureSnapshot, At, Active
      <4>2. job[p].task = "bootstrap" /\ job[p].cursor <= 2 /\ job[p].cursor \in Nat \ {0}
            /\ job[p].run \in DOMAIN runs
        BY <4>1 DEF Inv1, TypeOK, Job, ControlOK, Bound
      <4>. QED  BY <4>1, <4>2 DEF Solo, Chunk
    <3>2. /\ job'[p].run = job[p].run /\ job'[p].task = job[p].task
          /\ job'[p].cursor = IF job[p].cursor = 2 THEN 1 ELSE job[p].cursor + 1
          /\ job'[p].target = IF job[p].cursor = 2 THEN {} ELSE job[p].target
          /\ pc'[p] = IF job[p].cursor = 2 THEN "due" ELSE "capture"
      BY <2>12 DEF CaptureSnapshot, Goto, Inv1, TypeOK, Job
    <3>3. SnapshotProgress(p) /\ \A g \in job[p].target : g \in Gameweek
      BY <3>1 DEF SnapshotInv, Inv1, TypeOK, Job
    <3>4. \A g \in Gameweek, c \in Chunk :
             IF g \in job[p].target /\ c = job[p].cursor
             THEN snapshot'[g][c].run = job[p].run
             ELSE snapshot'[g][c] = snapshot[g][c]
      BY <2>12, CapturedRows
    <3>5. \A g \in Gameweek, c \in Chunk : snapshot'[g][c].run <= Len(runs')
      BY <2>2, <3>1, <3>4 DEF SnapshotInv
    <3>6. DueIsKept'
      <4>1. ASSUME NEW i \in DOMAIN runs, NEW g \in Gameweek, NEW c \in Chunk,
                   runs[i].endpoint = "bootstrap", runs[i].status = "success", Due(runs[i].at, g)
            PROVE  snapshot'[g][c].run >= i
        <5>1. snapshot[g][c].run >= i
          BY <4>1 DEF SnapshotInv, DueIsKept
        <5>. QED  BY <2>2, <3>1, <3>4, <5>1
      <4>. QED  BY <3>1, <4>1 DEF DueIsKept
    <3>7. StartedAt(p)' = StartedAt(p)
      BY <3>1, <3>2 DEF StartedAt
    <3>8. SnapshotProgress(p)'
      <4>1. CASE job[p].cursor = 2
        <5>1. ASSUME NEW g \in Gameweek, Due(StartedAt(p), g), NEW c \in Chunk
              PROVE  snapshot'[g][c].run = job[p].run
          <6>1. g \in job[p].target /\ (c < 2 => snapshot[g][c].run = job[p].run)
            BY <3>1, <3>3, <4>1, <5>1 DEF SnapshotProgress, Mine
          <6>. QED  BY <3>4, <4>1, <6>1 DEF Chunk
        <5>2. pc'[p] = "due"
          BY <3>2, <4>1
        <5>3. stored'["gameweeks"] # NoRev
          BY <3>1, <3>3 DEF SnapshotProgress, GameweeksWritten
        <5>. QED  BY <3>2, <3>7, <5>1, <5>2, <5>3 DEF SnapshotProgress, Mine
      <4>2. CASE job[p].cursor = 1
        <5>1. \A g \in Gameweek, c \in Chunk : c >= 2 => snapshot'[g][c].run < job[p].run
          BY <3>1, <3>3, <3>4, <4>2 DEF SnapshotProgress, Older, Chunk
        <5>2. \A g \in job[p].target, c \in Chunk : c < 2 => snapshot'[g][c].run = job[p].run
          BY <3>3, <3>4, <4>2 DEF Chunk
        <5>3. /\ stored'["gameweeks"] # NoRev
              /\ \A g \in job[p].target : StartedAt(p) < Deadline[g]
              /\ \A g \in Gameweek : Due(StartedAt(p), g) => g \in job[p].target
          BY <3>1, <3>3 DEF SnapshotProgress, GameweeksWritten
        <5>4. pc'[p] = "capture" /\ job'[p].cursor = 2 /\ job'[p].target = job[p].target
          BY <3>2, <4>2
        <5>. QED  BY <3>2, <3>7, <5>1, <5>2, <5>3, <5>4 DEF SnapshotProgress, Older, Mine
      <4>. QED  BY <3>1, <4>1, <4>2 DEF Chunk
    <3>. QED  BY <2>1, <3>5, <3>6, <3>8 DEF SnapshotInv
  <2>. QED
    BY <1>2, <2>4, <2>5, <2>6, <2>8, <2>9, <2>10, <2>11, <2>12 DEF Moves, Step
<1>. QED  BY <1>1, <1>2 DEF Next, Moves

(* The invariant of serial runs, from the initial state on.                *)
LEMMA InitSolo == Init => Solo /\ HistoryInv /\ SnapshotInv
<1> SUFFICES ASSUME Init PROVE Solo /\ HistoryInv /\ SnapshotInv
  OBVIOUS
<1>1. Active = {} /\ \A p \in Proc : pc[p] = "idle"
  BY DEF Init, Active
<1>2. runs = <<>> /\ Len(runs) = 0 /\ DOMAIN runs = {}
  BY DEF Init
<1>3. \A h \in History : history[h] = {}
  BY DEF Init
<1>4. \A g \in Gameweek, c \in Chunk : snapshot[g][c].run = 0
  BY DEF Init, NotTaken
<1>. QED
  BY <1>1, <1>2, <1>3, <1>4 DEF Solo, HistoryInv, HistoryRecordsChanges, Neighbours, SnapshotInv,
     DueIsKept

LEMMA SerialRuns ==
  ASSUME ~Overlap
  PROVE  Spec => [](Inv1 /\ Solo /\ HistoryInv /\ SnapshotInv)
<1>. DEFINE I == Inv1 /\ Solo /\ HistoryInv /\ SnapshotInv
<1>1. Init => I
  BY InitInv1, InitSolo
<1>2. I /\ [Next]_vars => I'
  BY NextInv1, SoloStep, HistoryStep, SnapshotStep
<1>. HIDE DEF I
<1>3. Spec => []I
  BY <1>1, <1>2, PTL DEF Spec
<1>. QED  BY <1>3 DEF I

(* However runs fail, die between their read and their append, or are      *)
(* retried: append-on-change writes no row equal to the one before, except *)
(* an ownership row of a whole percentage, whose text never matches the    *)
(* Decimal's (appendOwnershipHistory, sync.repository.ts:366).             *)
THEOREM HistoryRecordsChangesOnly ==
  ASSUME ~Overlap
  PROVE  Spec => []HistoryRecordsChanges
<1>1. Inv1 /\ Solo /\ HistoryInv /\ SnapshotInv => HistoryRecordsChanges
  BY DEF HistoryInv
<1>2. Spec => [](Inv1 /\ Solo /\ HistoryInv /\ SnapshotInv)
  BY SerialRuns
<1>. QED  BY <1>1, <1>2, PTL

(* No successful run inside a deadline's window leaves a chunk of players  *)
(* out of its snapshot (captureDeadlineSnapshotIfDue, sync.service.ts:165) *)
THEOREM DueSnapshotAlwaysKept ==
  ASSUME ~Overlap
  PROVE  Spec => []DueSnapshotIsKept
<1>1. Inv1 /\ Solo /\ HistoryInv /\ SnapshotInv => DueSnapshotIsKept
  BY DEF SnapshotInv, DueIsKept, DueSnapshotIsKept, NextDeadlineIs, Due
<1>2. Spec => [](Inv1 /\ Solo /\ HistoryInv /\ SnapshotInv)
  BY SerialRuns
<1>. QED  BY <1>1, <1>2, PTL

(* The step inside SnapshotMovesForward.                                   *)
SnapshotMove ==
    \A g \in Gameweek, c \in Chunk :
          snapshot'[g][c] # snapshot[g][c] =>
              /\ snapshot'[g][c].run > snapshot[g][c].run
              /\ runs[snapshot'[g][c].run].at < Deadline[g]

LEMMA SnapshotMoveStep == Inv1 /\ Solo /\ SnapshotInv /\ [Next]_vars => [SnapshotMove]_vars
<1> SUFFICES ASSUME Inv1, Solo, SnapshotInv, [Next]_vars PROVE [SnapshotMove]_vars
  OBVIOUS
<1>1. CASE UNCHANGED snapshot
  BY <1>1 DEF SnapshotMove
<1>2. ASSUME NEW p \in Proc, CaptureSnapshot(p) PROVE SnapshotMove
  <2>1. p \in Active /\ pc[p] = "capture"
    BY <1>2 DEF CaptureSnapshot, At, Active
  <2>2. SnapshotProgress(p)
    BY <2>1 DEF SnapshotInv, Inv1, ControlOK
  <2>3. ASSUME NEW g \in Gameweek, NEW c \in Chunk, snapshot'[g][c] # snapshot[g][c]
        PROVE  /\ snapshot'[g][c].run > snapshot[g][c].run
               /\ runs[snapshot'[g][c].run].at < Deadline[g]
    <3>1. g \in job[p].target /\ c = job[p].cursor /\ snapshot'[g][c].run = job[p].run
      BY <1>2, <2>3, CapturedRows
    <3>2. snapshot[g][c].run < job[p].run
      BY <2>1, <2>2, <3>1 DEF SnapshotProgress, Older, Chunk
    <3>3. runs[job[p].run].at < Deadline[g]
      BY <2>1, <2>2, <3>1 DEF SnapshotProgress, StartedAt
    <3>. QED  BY <3>1, <3>2, <3>3 DEF Inv1, TypeOK, Captured
  <2>. QED  BY <2>3 DEF SnapshotMove
<1>3. CASE External \/ UNCHANGED vars
  BY <1>1, <1>3 DEF External, Tick, UpstreamChange, LiveChange, vars, tables
<1>4. ASSUME NEW p \in Proc,
             \/ \E f \in BOOLEAN : RunIncremental(p, f)
             \/ Abandon(p) \/ (Step(p) /\ ~CaptureSnapshot(p))
      PROVE  UNCHANGED snapshot
  BY <1>4 DEF Step, RunIncremental, StartRun, Fetch, Skip, NotSkipped, ResolveTeams, WritePart,
     ReadLatest, AppendChanged, DecideSnapshot, FindDueLive, CaptureLive, Succeed, Fail, Abandon, tables
<1>. QED  BY <1>1, <1>2, <1>3, <1>4 DEF Next

(* A snapshot row is replaced only by a run that started later, and before *)
(* the deadline: what it says could have been acted on                     *)
(* (captureDeadlineSnapshot, sync.repository.ts:225).                      *)
THEOREM SnapshotMovesForwardAlways ==
  ASSUME ~Overlap
  PROVE  Spec => SnapshotMovesForward
<1>1. Spec => [](Inv1 /\ Solo /\ HistoryInv /\ SnapshotInv)
  BY SerialRuns
<1>2. Inv1 /\ Solo /\ HistoryInv /\ SnapshotInv /\ [Next]_vars => [SnapshotMove]_vars
  BY SnapshotMoveStep
<1>. QED  BY <1>1, <1>2, PTL DEF Spec, SnapshotMovesForward, SnapshotMove

-----------------------------------------------------------------------------
(* When, besides, the upstream does not go back to an old payload, a       *)
(* skipped bootstrap run is a no-op.                                       *)

LEMMA PartsDisjoint ==
  /\ \A k \in 1..5 : PartsOf["bootstrap"][k] \in Part
  /\ \A k \in 1..5, m \in 1..2 : PartsOf["bootstrap"][k] # PartsOf["fixtures"][m]
  BY DEF PartsOf, Endpoint, Part

(* lastGoodHash depends on the good rows only.                             *)
LEMMA SameGood ==
  ASSUME NEW e \in Endpoint,
         \A i : Good(i, e)' <=> Good(i, e),
         \A i : Good(i, e) => runs'[i].hash = runs[i].hash
  PROVE  \A h : LastGoodHashIs(e, h)' <=> LastGoodHashIs(e, h)
  <1>1. ASSUME NEW h PROVE LastGoodHashIs(e, h)' => LastGoodHashIs(e, h)
    BY DEF LastGoodHashIs, Good
  <1>2. ASSUME NEW h PROVE LastGoodHashIs(e, h) => LastGoodHashIs(e, h)'
    BY DEF LastGoodHashIs, Good
  <1>. QED  BY <1>1, <1>2

(* A new row is not good, and ending a run as failed makes none.           *)
LEMMA GoodAfterStart ==
  ASSUME Inv1, NEW p \in Proc, StartRun(p), NEW e \in Endpoint
  PROVE  /\ \A i : Good(i, e)' <=> Good(i, e)
         /\ \A i : Good(i, e) => runs'[i].hash = runs[i].hash
  <1>1. /\ Len(runs') = Len(runs) + 1 /\ Len(runs) \in Nat
        /\ DOMAIN runs = 1..Len(runs) /\ DOMAIN runs' = 1..(Len(runs) + 1)
        /\ \A i \in DOMAIN runs : runs'[i] = runs[i]
        /\ runs'[Len(runs) + 1].status = "running"
    BY DEF StartRun, Inv1, TypeOK
  <1>. QED  BY <1>1 DEF Good

LEMMA GoodAfterFail ==
  ASSUME Inv1, NEW p \in Active, FinishRun(p, "failed", NoRev), NEW e \in Endpoint
  PROVE  /\ \A i : Good(i, e)' <=> Good(i, e)
         /\ \A i : Good(i, e) => runs'[i].hash = runs[i].hash
  BY FinishedRow DEF Good

LEMMA GoodAfterFixtures ==
  ASSUME Inv1, NEW p \in Active, NEW s, NEW h, FinishRun(p, s, h),
         job[p].task = "fixtures"
  PROVE  /\ \A i : Good(i, "bootstrap")' <=> Good(i, "bootstrap")
         /\ \A i : Good(i, "bootstrap") => runs'[i].hash = runs[i].hash
  BY FinishedRow DEF Good

(* The newest row decides lastGoodHash once it is good.                    *)
LEMMA LastAfterFinish ==
  ASSUME Inv1, NEW p \in Active, NEW s \in {"success", "skipped"}, NEW rev \in Rev,
         FinishRun(p, s, rev), job[p].task = "bootstrap", job[p].run = Len(runs)
  PROVE  /\ \A h : LastGoodHashIs("bootstrap", h)' => h = rev
         /\ \A i : Good(i, "bootstrap")' =>
               \/ Good(i, "bootstrap") /\ runs'[i].hash = runs[i].hash
               \/ runs'[i].hash = rev
  <1>1. rev # NoRev
    BY DEF Rev, NoRev
  <1>2. Good(Len(runs), "bootstrap")' /\ runs'[Len(runs)].hash = rev
    BY <1>1, FinishedRow DEF Good
  <1>3. \A i : Good(i, "bootstrap")' => i <= Len(runs) /\ i \in Nat
    BY FinishedRow DEF Good
  <1>. QED  BY <1>2, <1>3, FinishedRow DEF Good, LastGoodHashIs

(* What the invariant says of the data does not change when the data does  *)
(* not: Fixed is what a step that touches no row of interest leaves alone. *)
Fixed ==
  /\ \A i : Good(i, "bootstrap")' <=> Good(i, "bootstrap")
  /\ \A i : Good(i, "bootstrap") => runs'[i].hash = runs[i].hash
  /\ \A k \in 1..5 : stored'[PartsOf["bootstrap"][k]] = stored[PartsOf["bootstrap"][k]]
  /\ history' = history

LEMMA FixedFacts ==
  ASSUME Inv1, Fixed
  PROVE  /\ \A h : LastGoodHashIs("bootstrap", h)' <=> LastGoodHashIs("bootstrap", h)
         /\ \A h, v : LatestIs(h, v)' <=> LatestIs(h, v)
         /\ \A rev : UpsertsAreNoOps("bootstrap", rev)' <=> UpsertsAreNoOps("bootstrap", rev)
         /\ \A rev : NothingNewerThan(rev) => NothingNewerThan(rev)'
         /\ CleanOrSuperseded => CleanOrSuperseded'
  <1>1. \A h : LastGoodHashIs("bootstrap", h)' <=> LastGoodHashIs("bootstrap", h)
    BY SameGood DEF Fixed, Endpoint
  <1>2. \A h, v : LatestIs(h, v)' <=> LatestIs(h, v)
    BY DEF Fixed, LatestIs
  <1>3. \A rev : UpsertsAreNoOps("bootstrap", rev)' <=> UpsertsAreNoOps("bootstrap", rev)
    BY <1>2, PartsShape DEF Fixed, UpsertsAreNoOps
  <1>4. ASSUME NEW rev, NothingNewerThan(rev) PROVE NothingNewerThan(rev)'
    <2>1. \A i \in DOMAIN runs' : Good(i, "bootstrap")' => runs'[i].hash <= rev
      BY <1>4 DEF NothingNewerThan, Fixed, Good
    <2>. QED  BY <1>4, <2>1 DEF NothingNewerThan, Fixed
  <1>5. CleanOrSuperseded => CleanOrSuperseded'
    BY <1>1, <1>3 DEF CleanOrSuperseded, Fixed
  <1>. QED  BY <1>1, <1>2, <1>3, <1>4, <1>5

(* With one writer, the invariant after a step of p is about p alone.      *)
LEMMA SerialFrom ==
  ASSUME Inv1, Inv1', OneWriter, NEW p \in Proc, pc[p] # "idle" \/ Busy = {},
         NEW l, pc' = [pc EXCEPT ![p] = l],
         \A h \in History : \A r \in history'[h] : r.at <= Len(runs'),
         NothingNewerThan(upstream["bootstrap"])', CleanOrSuperseded',
         l \notin {"idle", "start"} => job'[p].run = Len(runs'),
         l = "fetch" => \A h \in History : \A r \in history'[h] : r.at < job'[p].run,
         l \notin {"idle", "start", "fetch"} /\ job'[p].task = "bootstrap"
             => BootstrapProgress(p)'
  PROVE  SerialInv'
  <1>1. pc'[p] = l /\ \A q \in Proc : q # p => pc'[q] = "idle"
    BY DEF Inv1, TypeOK, OneWriter, Busy
  <1>2. Active' \subseteq {p}
    BY <1>1 DEF Active
  <1>3. OneWriter'
    BY <1>1, <1>2 DEF OneWriter, Active
  <1>4. ASSUME NEW q \in Active'
        PROVE  /\ pc'[q] = "fetch" =>
                     \A h \in History : \A r \in history'[h] : r.at < job'[q].run
               /\ job'[q].task = "bootstrap" /\ pc'[q] # "fetch" => BootstrapProgress(q)'
    BY <1>1, <1>2 DEF Active
  <1>. QED  BY <1>3, <1>4 DEF SerialInv, Inv1

(* Facts of the state before a step of an active process p.                *)
LEMMA ActiveFacts ==
  ASSUME Inv1, SerialInv, NEW p \in Active
  PROVE  /\ p \in Proc /\ job[p] \in Job /\ pc[p] # "idle" /\ pc[p] # "start"
         /\ job[p].run = Len(runs) /\ Len(runs) \in Nat /\ job[p].task \in Endpoint
         /\ upstream["bootstrap"] \in Nat
         /\ \A h \in History : \A r \in history[h] : r.at <= Len(runs) /\ r.at \in Nat
         /\ pc[p] # "fetch" => job[p].rev \in Rev /\ job[p].rev \in Nat /\ job[p].rev # NoRev
         /\ job[p].task = "bootstrap" /\ pc[p] # "fetch" => BootstrapProgress(p)
         /\ NothingNewerThan(upstream["bootstrap"]) /\ CleanOrSuperseded /\ OneWriter
<1>1. p \in Proc /\ job[p] \in Job /\ pc[p] # "idle" /\ pc[p] # "start"
  BY DEF Active, Inv1, TypeOK
<1>2. job[p].run = Len(runs) /\ Len(runs) \in Nat
  BY DEF SerialInv, OneWriter, Inv1, TypeOK
<1>3. upstream["bootstrap"] \in Nat /\ job[p].task \in Endpoint
  BY <1>1 DEF Inv1, TypeOK, Endpoint, Rev, Job
<1>4. \A h \in History : \A r \in history[h] : r.at <= Len(runs) /\ r.at \in Nat
  BY DEF SerialInv, OneWriter, Inv1, TypeOK, HistoryRow, RunId
<1>5. pc[p] # "fetch" => job[p].rev \in Rev /\ job[p].rev \in Nat /\ job[p].rev # NoRev
  BY DEF Inv1, ControlOK, Rev, NoRev
<1>. QED  BY <1>1, <1>2, <1>3, <1>4, <1>5 DEF SerialInv

(* A step of an active process that changes only its place and locals, or  *)
(* rows the invariant does not mention.                                    *)
LEMMA QuietStep ==
  ASSUME Inv1, Inv1', SerialInv, NEW p \in Active, pc[p] # "fetch",
         UNCHANGED <<runs, history, upstream>>, Fixed,
         NEW l \in Location \ {"idle", "start", "fetch"}, pc' = [pc EXCEPT ![p] = l],
         job'[p].run = job[p].run, job'[p].rev = job[p].rev,
         job'[p].task = job[p].task,
         job[p].task = "bootstrap" =>
            /\ l # "check" => ~LastGoodHashIs("bootstrap", job[p].rev)
            /\ Written(p)' = Written(p) /\ Appended(p)' = Appended(p)
            /\ l = "append" => LatestIs(Tracked[job'[p].cursor], job'[p].latest)
  PROVE  SerialInv'
<1>1. /\ p \in Proc /\ pc[p] # "idle" /\ pc'[p] = l /\ OneWriter
      /\ CleanOrSuperseded' /\ NothingNewerThan(upstream["bootstrap"])'
      /\ \A h \in History : \A r \in history'[h] : r.at <= Len(runs')
      /\ job'[p].run = Len(runs')
  BY ActiveFacts, FixedFacts DEF Inv1, TypeOK, NothingNewerThan
<1>2. ASSUME job[p].task = "bootstrap"
      PROVE  BootstrapProgress(p)'
  <2>1. BootstrapProgress(p)
    BY <1>2, ActiveFacts
  <2>2. NothingNewerThan(job[p].rev)'
    BY <2>1 DEF BootstrapProgress, NothingNewerThan, Fixed, Good
  <2>3. pc'[p] # "check" => ~LastGoodHashIs("bootstrap", job[p].rev)'
    BY <1>1, <1>2 DEF LastGoodHashIs, Good
  <2>4. \A k \in 1..Written(p)' : stored'[PartsOf["bootstrap"][k]] = job'[p].rev
    <3>1. Written(p) <= 5 /\ Written(p) \in Nat
      <4>1. pc[p] = "write" => job[p].cursor \in 1..5
        BY ActiveFacts, <1>2, PartsShape DEF Inv1, ControlOK, Bound, Job
      <4>. QED  BY <4>1 DEF Written
    <3>2. \A k \in 1..Written(p) : stored[PartsOf["bootstrap"][k]] = job[p].rev
      BY <2>1 DEF BootstrapProgress
    <3>. HIDE DEF Written
    <3>. QED  BY <1>2, <3>1, <3>2 DEF Fixed
  <2>5. \A k \in 1..2 :
           IF k <= Appended(p)'
           THEN LatestIs(Tracked[k], ValueOf[Tracked[k]][job[p].rev])'
           ELSE \A r \in history'[Tracked[k]] : r.at < job'[p].run
    <3>1. \A k \in 1..2 :
           IF k <= Appended(p)
           THEN LatestIs(Tracked[k], ValueOf[Tracked[k]][job[p].rev])
           ELSE \A r \in history[Tracked[k]] : r.at < job[p].run
      BY <2>1 DEF BootstrapProgress
    <3>2. \A k : LatestIs(Tracked[k], ValueOf[Tracked[k]][job[p].rev])
             => LatestIs(Tracked[k], ValueOf[Tracked[k]][job[p].rev])'
      BY DEF LatestIs
    <3>3. Appended(p)' = Appended(p)
      BY <1>2
    <3>. QED  BY <3>1, <3>2, <3>3
  <2>6. pc'[p] = "append" => LatestIs(Tracked[job[p].cursor], job[p].latest)'
    BY <1>1, <1>2 DEF LatestIs
  <2>7. job'[p].rev <= upstream'["bootstrap"]
    BY <2>1 DEF BootstrapProgress
  <2>. QED  BY <2>2, <2>3, <2>4, <2>5, <2>6, <2>7 DEF BootstrapProgress
<1>. QED  BY <1>1, <1>2, SerialFrom

LEMMA InitSerial == Init => SerialInv
<1> SUFFICES ASSUME Init PROVE SerialInv
  OBVIOUS
<1>1. ControlOK
  BY InitInv1 DEF Inv1
<1>2. Active = {} /\ DOMAIN runs = {} /\ \A h \in History : history[h] = {}
  BY DEF Init, Active
<1>3. OneWriter
  BY <1>2 DEF Init, OneWriter
<1>4. upstream["bootstrap"] = 1 /\ \A t \in Part : stored[t] = 0
  BY DEF Init, Endpoint, NoRev
<1>5. NothingNewerThan(upstream["bootstrap"])
  BY <1>2, <1>4, PartsDisjoint DEF NothingNewerThan
<1>6. CleanOrSuperseded
  BY <1>2 DEF CleanOrSuperseded, LastGoodHashIs
<1>. QED  BY <1>1, <1>2, <1>3, <1>5, <1>6 DEF SerialInv

(* The start of a pass, of a run, and its fetch.                           *)
LEMMA SerialBegin ==
  ASSUME Inv1, Inv1', SerialInv, NEW p \in Proc, pc[p] = "idle", Busy = {},
         pc' = [pc EXCEPT ![p] = "start"], UNCHANGED <<external, runs, tables>>
  PROVE  SerialInv'
<1>1. Fixed /\ UNCHANGED <<upstream, runs, history, stored>>
  BY DEF Fixed, Good, external, tables
<1>2. CleanOrSuperseded' /\ NothingNewerThan(upstream["bootstrap"])'
  BY <1>1, FixedFacts DEF SerialInv, NothingNewerThan, Good
<1>3. OneWriter /\ \A h \in History : \A r \in history'[h] : r.at <= Len(runs')
  BY <1>1 DEF SerialInv, OneWriter
<1>. QED  BY <1>2, <1>3, SerialFrom

LEMMA SerialStart ==
  ASSUME Inv1, Inv1', SerialInv, NEW p \in Proc, StartRun(p)
  PROVE  SerialInv'
<1>1. /\ Fixed /\ UNCHANGED <<upstream, history, stored>>
      /\ pc' = [pc EXCEPT ![p] = "fetch"] /\ pc[p] = "start"
  BY GoodAfterStart DEF Fixed, StartRun, external, tables, At, Goto, Endpoint
<1>2. CleanOrSuperseded' /\ NothingNewerThan(upstream["bootstrap"])'
  BY <1>1, FixedFacts DEF SerialInv, NothingNewerThan
<1>3. Len(runs') = Len(runs) + 1 /\ Len(runs) \in Nat /\ job'[p].run = Len(runs')
  <2>1. Len(runs') = Len(runs) + 1 /\ Len(runs) \in Nat
    BY DEF StartRun, Inv1, TypeOK
  <2>2. job' = [job EXCEPT ![p].run = Len(runs) + 1] /\ job[p] \in Job
    BY DEF StartRun, Inv1, TypeOK
  <2>3. job'[p].run = Len(runs) + 1
    BY <2>2 DEF Job, Inv1, TypeOK
  <2>. QED  BY <2>1, <2>3
<1>4. OneWriter /\ \A h \in History : \A r \in history'[h] : r.at <= Len(runs) /\ r.at \in Nat
  BY <1>1 DEF SerialInv, OneWriter, Inv1, TypeOK, HistoryRow, RunId
<1>5. \A h \in History : \A r \in history'[h] : r.at < Len(runs') /\ r.at <= Len(runs')
  BY <1>3, <1>4
<1>. QED  BY <1>1, <1>2, <1>3, <1>4, <1>5, SerialFrom

LEMMA SerialFetch ==
  ASSUME Inv1, Inv1', SerialInv, NEW p \in Proc, Fetch(p)
  PROVE  SerialInv'
<1>1. /\ p \in Active /\ pc[p] = "fetch" /\ pc' = [pc EXCEPT ![p] = "check"]
      /\ pc'[p] = "check" /\ UNCHANGED <<upstream, runs, history, stored>> /\ Fixed
  BY DEF Fetch, At, Goto, Active, external, tables, Fixed, Good, Inv1, TypeOK
<1>2. /\ job'[p].rev = upstream[job[p].task] /\ job'[p].run = job[p].run
      /\ job'[p].task = job[p].task
  BY <1>1, ActiveFacts DEF Fetch, Job, Inv1, TypeOK
<1>3. CleanOrSuperseded' /\ NothingNewerThan(upstream["bootstrap"])'
  BY <1>1, FixedFacts DEF SerialInv, NothingNewerThan, Good
<1>4. ASSUME job[p].task = "bootstrap"
      PROVE  BootstrapProgress(p)'
  <2>1. job'[p].rev = upstream["bootstrap"] /\ upstream["bootstrap"] \in Nat
    BY <1>1, <1>2, <1>4, ActiveFacts
  <2>2. NothingNewerThan(job[p].rev)'
    BY <1>1, <1>3, <2>1 DEF NothingNewerThan
  <2>3. \A h \in History : \A r \in history'[h] : r.at < job'[p].run
    BY <1>1, <1>2 DEF SerialInv
  <2>4. \A k \in 1..2 : Tracked[k] \in History
    BY DEF Tracked, History
  <2>. QED  BY <1>1, <2>1, <2>2, <2>3, <2>4 DEF BootstrapProgress, Written, Appended
<1>5. job'[p].run = Len(runs') /\ OneWriter
      /\ \A h \in History : \A r \in history'[h] : r.at <= Len(runs')
  BY <1>1, <1>2, ActiveFacts
<1>. QED  BY <1>1, <1>2, <1>3, <1>4, <1>5, SerialFrom

(* A run that ends: failed, or skipped or successful with what it fetched  *)
(* already in every row.                                                   *)
LEMMA SerialFinish ==
  ASSUME Inv1, Inv1', SerialInv, NEW p \in Active,
         NEW s \in {"success", "skipped", "failed"}, NEW h, FinishRun(p, s, h),
         UNCHANGED <<external, tables>>,
         IF s = "failed" THEN h = NoRev ELSE h = job[p].rev /\ pc[p] # "fetch",
         s # "failed" /\ job[p].task = "bootstrap" =>
            \/ UpsertsAreNoOps("bootstrap", h)
            \/ \E k \in 1..5 : stored[PartsOf["bootstrap"][k]] > h
  PROVE  SerialInv'
<1>1. UNCHANGED <<upstream, history, stored>> /\ Len(runs') = Len(runs) /\ OneWriter
  BY FinishedRow, ActiveFacts DEF external, tables
<1>2. PICK l \in {"start", "idle"} : pc' = [pc EXCEPT ![p] = l]
  BY DEF FinishRun, Goto
<1>3. \A g \in History : \A r \in history'[g] : r.at <= Len(runs')
  BY <1>1, ActiveFacts
<1>4. CleanOrSuperseded' /\ NothingNewerThan(upstream["bootstrap"])'
  <2>1. CASE s = "failed" \/ job[p].task = "fixtures"
    <3>1. Fixed
      BY <1>1, <2>1, GoodAfterFail, GoodAfterFixtures DEF Fixed, Endpoint
    <3>. QED  BY <1>1, <3>1, FixedFacts DEF SerialInv, NothingNewerThan
  <2>2. CASE s # "failed" /\ job[p].task = "bootstrap"
    <3>1. /\ h \in Rev /\ h <= upstream["bootstrap"]
          /\ NothingNewerThan(upstream["bootstrap"])
      BY <2>2, ActiveFacts DEF BootstrapProgress
    <3>2. /\ \A x : LastGoodHashIs("bootstrap", x)' => x = h
          /\ \A i : Good(i, "bootstrap")' =>
                \/ Good(i, "bootstrap") /\ runs'[i].hash = runs[i].hash
                \/ runs'[i].hash = h
      BY <2>2, <3>1, ActiveFacts, LastAfterFinish
    <3>3. UpsertsAreNoOps("bootstrap", h) => UpsertsAreNoOps("bootstrap", h)'
      BY <1>1 DEF UpsertsAreNoOps, LatestIs
    <3>4. CleanOrSuperseded'
      BY <1>1, <2>2, <3>2, <3>3 DEF CleanOrSuperseded
    <3>5. \A i \in DOMAIN runs' : Good(i, "bootstrap")' => runs'[i].hash <= upstream["bootstrap"]
      BY <3>1, <3>2 DEF NothingNewerThan, Good
    <3>. QED  BY <1>1, <3>1, <3>4, <3>5 DEF NothingNewerThan
  <2>. QED  BY <2>1, <2>2, ActiveFacts DEF Endpoint
<1>. QED  BY <1>1, <1>2, <1>3, <1>4, SerialFrom, ActiveFacts

(* Once a run has found its payload new, every hash on record is older.    *)
LEMMA LastGoodIsOlder ==
  ASSUME Inv1, SerialInv, NEW p \in Active, job[p].task = "bootstrap",
         pc[p] \notin {"fetch", "check"}, NEW h, LastGoodHashIs("bootstrap", h)
  PROVE  h < job[p].rev
<1>1. /\ h # job[p].rev /\ job[p].rev \in Nat
      /\ \A i \in DOMAIN runs : Good(i, "bootstrap") => runs[i].hash <= job[p].rev
  BY ActiveFacts DEF BootstrapProgress, NothingNewerThan
<1>2. PICK i \in DOMAIN runs : Good(i, "bootstrap") /\ runs[i].hash = h
  BY DEF LastGoodHashIs
<1>3. runs[i].hash \in Nat
  <2>1. runs \in Seq(RunRow)
    BY DEF Inv1, TypeOK
  <2>2. runs[i] \in RunRow
    BY <2>1, <1>2
  <2>. QED  BY <2>2 DEF RunRow, Rev0
<1>. QED  BY <1>1, <1>2, <1>3

LEMMA SerialWrite ==
  ASSUME Inv1, Inv1', SerialInv, NEW p \in Proc, WritePart(p)
  PROVE  SerialInv'
<1>1. /\ p \in Active /\ pc[p] = "write" /\ UNCHANGED <<upstream, runs, history>>
      /\ UNCHANGED <<job[p].run, job[p].rev, job[p].task, job[p].latest>>
  <2>1. p \in Active /\ pc[p] = "write" /\ UNCHANGED <<upstream, runs, history>>
    BY DEF WritePart, At, Active, external
  <2>2. PICK n : job' = [job EXCEPT ![p] = [job[p] EXCEPT !.cursor = n]]
    BY DEF WritePart
  <2>3. job'[p] = [job[p] EXCEPT !.cursor = n] /\ job[p] \in Job
    BY <2>1, <2>2, ActiveFacts DEF Inv1, TypeOK
  <2>. QED  BY <2>1, <2>3 DEF Job
<1>. DEFINE c == job[p].cursor
<1>2. CASE job[p].task = "fixtures"
  <2>1. c \in 1..2 /\ Len(PartsOf["fixtures"]) = 2
    BY <1>1, <1>2, PartsShape, ActiveFacts DEF Inv1, ControlOK, Bound, Job
  <2>2. Fixed
    BY <1>1, <1>2, <2>1, PartsDisjoint DEF WritePart, Upsert, Fixed, Good, Inv1, TypeOK
  <2>3. PICK l \in {"write", "record"} : pc' = [pc EXCEPT ![p] = l]
    BY <1>2 DEF WritePart, Goto
  <2>. QED  BY <1>1, <1>2, <2>2, <2>3, QuietStep DEF Location
<1>3. CASE job[p].task = "bootstrap"
  <2>1. c \in 1..5 /\ Len(PartsOf["bootstrap"]) = 5
    BY <1>1, <1>3, PartsShape, ActiveFacts DEF Inv1, ControlOK, Bound, Job
  <2>2. /\ stored' = [stored EXCEPT ![PartsOf["bootstrap"][c]] = job[p].rev]
        /\ PartsOf["bootstrap"][c] \in Part
    BY <1>3, <2>1, PartsDisjoint DEF WritePart, Upsert
  <2>3. /\ \A k \in 1..5 : stored'[PartsOf["bootstrap"][k]]
              = IF k = c THEN job[p].rev ELSE stored[PartsOf["bootstrap"][k]]
    BY <2>1, <2>2, PartsDisjoint DEF Inv1, TypeOK, PartsOf, Endpoint
  <2>4. /\ BootstrapProgress(p) /\ job[p].rev \in Nat /\ upstream["bootstrap"] \in Nat
        /\ OneWriter /\ job[p].run = Len(runs)
    BY <1>1, <1>3, ActiveFacts
  <2>5. NothingNewerThan(job[p].rev)' /\ NothingNewerThan(upstream["bootstrap"])'
    <3>2. NothingNewerThan(job[p].rev) /\ NothingNewerThan(upstream["bootstrap"])
          /\ job[p].rev <= upstream["bootstrap"] /\ job[p].rev <= job[p].rev
      BY <1>1, <2>4, ActiveFacts DEF BootstrapProgress
    <3>3. \A x \in Nat : job[p].rev <= x /\ NothingNewerThan(x) =>
             /\ \A k \in 1..5 : stored'[PartsOf["bootstrap"][k]] <= x
             /\ \A i \in DOMAIN runs' : Good(i, "bootstrap")' => runs'[i].hash <= x
      BY <1>1, <2>3 DEF NothingNewerThan, Good
    <3>. QED  BY <1>1, <2>4, <3>2, <3>3 DEF NothingNewerThan
  <2>6. CleanOrSuperseded'
    <3>. SUFFICES ASSUME NEW h \in Rev, LastGoodHashIs("bootstrap", h)'
                  PROVE  stored'[PartsOf["bootstrap"][c]] > h
      BY <2>1 DEF CleanOrSuperseded
    <3>1. LastGoodHashIs("bootstrap", h)
      BY <1>1 DEF LastGoodHashIs, Good
    <3>2. h < job[p].rev
      BY <1>1, <1>3, <3>1, LastGoodIsOlder
    <3>. QED  BY <2>1, <2>3, <2>4, <3>2 DEF Rev
  <2>7. PICK l \in {"write", "latest"} :
           /\ pc' = [pc EXCEPT ![p] = l] /\ pc'[p] = l
           /\ IF l = "write" THEN job'[p].cursor = c + 1 /\ c # 5
              ELSE job'[p].cursor = 1 /\ c = 5
    <3>. DEFINE n == IF c = 5 THEN 1 ELSE c + 1
    <3>1. job' = [job EXCEPT ![p] = [job[p] EXCEPT !.cursor = n]]
      BY <1>3, <2>1 DEF WritePart
    <3>2. job'[p].cursor = n
      <4>. HIDE DEF n
      <4>. QED  BY <1>1, <3>1, ActiveFacts DEF Inv1, TypeOK, Job
    <3>3. pc' = [pc EXCEPT ![p] = IF c # 5 THEN "write" ELSE "latest"]
      BY <1>3, <2>1 DEF WritePart, Goto
    <3>. QED  BY <1>1, <2>1, <3>2, <3>3 DEF Inv1, TypeOK, Active
  <2>8. BootstrapProgress(p)'
    <3>1. Written(p)' = c /\ Appended(p)' = 0 /\ Written(p) = c - 1 /\ Appended(p) = 0
      BY <1>1, <2>1, <2>7 DEF Written, Appended
    <3>2. \A k \in 1..c : stored'[PartsOf["bootstrap"][k]] = job'[p].rev
      <4>1. \A k \in 1..(c - 1) : stored[PartsOf["bootstrap"][k]] = job[p].rev
        BY <2>4, <3>1 DEF BootstrapProgress
      <4>. QED  BY <1>1, <2>1, <2>3, <4>1
    <3>3. \A k \in 1..2 : \A r \in history'[Tracked[k]] : r.at < job'[p].run
      BY <1>1, <2>4, <3>1 DEF BootstrapProgress
    <3>4. ~LastGoodHashIs("bootstrap", job[p].rev)'
      BY <1>1, <2>4 DEF BootstrapProgress, LastGoodHashIs, Good
    <3>5. job'[p].rev <= upstream'["bootstrap"] /\ pc'[p] # "append"
      BY <1>1, <2>4, <2>7 DEF BootstrapProgress
    <3>. QED  BY <2>5, <3>1, <3>2, <3>3, <3>4, <3>5 DEF BootstrapProgress
  <2>9. \A g \in History : \A r \in history'[g] : r.at <= Len(runs')
    BY <1>1, ActiveFacts
  <2>. QED  BY <1>1, <2>4, <2>5, <2>6, <2>7, <2>8, <2>9, SerialFrom
<1>. QED  BY <1>1, <1>2, <1>3, ActiveFacts DEF Endpoint

LEMMA SerialAppend ==
  ASSUME Inv1, Inv1', SerialInv, NEW p \in Proc, AppendChanged(p)
  PROVE  SerialInv'
<1>1. /\ p \in Active /\ pc[p] = "append" /\ UNCHANGED <<upstream, runs, stored>>
      /\ job[p].task = "bootstrap"
  BY DEF AppendChanged, At, Active, external, Inv1, ControlOK
<1>0. PICK c, rev : c = job[p].cursor /\ rev = job[p].rev
  OBVIOUS
<1>. DEFINE h == Tracked[c]
            value == ValueOf[h][rev]
            new == [at |-> job[p].run, value |-> value]
<1>2. /\ BootstrapProgress(p) /\ job[p].rev \in Nat /\ OneWriter
      /\ job[p].run = Len(runs) /\ Len(runs) \in Nat
      /\ c \in 1..2 /\ h \in History /\ Tracked[1] # Tracked[2]
      /\ \A k \in 1..2 : Tracked[k] \in History
  BY <1>0, <1>1, ActiveFacts DEF Inv1, ControlOK, Bound, Job, Tracked, History
<1>3. /\ UNCHANGED <<job[p].run, job[p].rev, job[p].task>>
      /\ job'[p].cursor = IF c = 2 THEN 1 ELSE c + 1
  <2>. DEFINE n == IF c = 2 THEN 1 ELSE c + 1
  <2>1. job' = [job EXCEPT ![p] = [job[p] EXCEPT !.cursor = n, !.latest = NoValue]]
    BY <1>0 DEF AppendChanged, Tracked
  <2>. HIDE DEF n
  <2>2. job'[p] = [job[p] EXCEPT !.cursor = n, !.latest = NoValue] /\ job[p] \in Job
    BY <1>1, <2>1, ActiveFacts DEF Inv1, TypeOK
  <2>3. /\ UNCHANGED <<job[p].run, job[p].rev, job[p].task>> /\ job'[p].cursor = n
    BY <2>2 DEF Job
  <2>. QED  BY <2>3 DEF n
<1>4. PICK l \in {"latest", "decide"} :
         /\ pc' = [pc EXCEPT ![p] = l] /\ pc'[p] = l
         /\ IF c = 2 THEN l = "decide" ELSE l = "latest"
  BY <1>0, <1>1 DEF AppendChanged, Goto, Tracked, Inv1, TypeOK, Active
<1>5. IF Unchanged(h, job[p].latest, value) THEN history' = history
      ELSE history' = [history EXCEPT ![h] = history[h] \cup {new}]
  BY <1>0 DEF AppendChanged
<1>6. \A g \in History : \A r \in history[g] : r.at <= Len(runs) /\ r.at \in Nat
  BY <1>1, ActiveFacts
<1>7. history \in [History -> SUBSET HistoryRow]
  BY DEF Inv1, TypeOK
<1>8. \A g \in History : \A r \in history'[g] : r.at <= Len(runs')
  <2>1. new.at = Len(runs)
    BY <1>2
  <2>. HIDE DEF h, new
  <2>. QED  BY <1>1, <1>2, <1>5, <1>6, <1>7, <2>1
<1>9. LatestIs(h, value)'
  <2>1. CASE Unchanged(h, job[p].latest, value)
    <3>1. LatestIs(h, value)
      BY <1>0, <1>1, <1>2, <2>1 DEF BootstrapProgress, Unchanged
    <3>. QED  BY <1>5, <2>1, <3>1 DEF LatestIs
  <2>2. CASE ~Unchanged(h, job[p].latest, value)
    <3>1. \A r \in history[h] : r.at < job[p].run
      BY <1>0, <1>1, <1>2 DEF BootstrapProgress, Appended
    <3>2. history'[h] = history[h] \cup {new} /\ new.at = job[p].run /\ new.value = value
      BY <1>2, <1>5, <1>7, <2>2
    <3>3. \A s \in history'[h] : s.at <= new.at
      <4>. HIDE DEF h, new
      <4>. QED  BY <1>2, <1>6, <3>1, <3>2
    <3>4. new \in history'[h] /\ new.value = value
      BY <3>2
    <3>. HIDE DEF new
    <3>6. \E r \in history'[h] : r.value = value /\ \A s \in history'[h] : s.at <= r.at
      BY <3>3, <3>4
    <3>. QED  BY <3>6 DEF LatestIs
  <2>. QED  BY <2>1, <2>2
<1>10. \A k \in 1..2 : k # c => history'[Tracked[k]] = history[Tracked[k]]
  BY <1>2, <1>5, <1>7
<1>11. \A i : Good(i, "bootstrap")' <=> Good(i, "bootstrap")
  BY <1>1 DEF Good
<1>12. CleanOrSuperseded' /\ NothingNewerThan(upstream["bootstrap"])'
       /\ NothingNewerThan(job[p].rev)'
  <2>1. stored[PartsOf["bootstrap"][1]] = job[p].rev
    BY <1>1, <1>2 DEF BootstrapProgress, Written
  <2>2. CleanOrSuperseded'
    <3>. SUFFICES ASSUME NEW x \in Rev, LastGoodHashIs("bootstrap", x)'
                  PROVE  stored'[PartsOf["bootstrap"][1]] > x
      BY DEF CleanOrSuperseded
    <3>1. LastGoodHashIs("bootstrap", x)
      BY <1>1 DEF LastGoodHashIs, Good
    <3>2. x < job[p].rev
      BY <1>1, <3>1, LastGoodIsOlder
    <3>. QED  BY <1>1, <1>2, <2>1, <3>2 DEF Rev
  <2>3. NothingNewerThan(job[p].rev) /\ NothingNewerThan(upstream["bootstrap"])
    BY <1>1, <1>2, ActiveFacts DEF BootstrapProgress
  <2>. QED  BY <1>1, <1>3, <2>2, <2>3 DEF NothingNewerThan, Good
<1>13. BootstrapProgress(p)'
  <2>1. /\ Written(p)' = 5 /\ Written(p) = 5 /\ Appended(p) = c - 1 /\ Appended(p)' = c
    BY <1>0, <1>1, <1>2, <1>3, <1>4 DEF Written, Appended
  <2>2. \A k \in 1..5 : stored'[PartsOf["bootstrap"][k]] = job'[p].rev
    BY <1>1, <1>2, <1>3, <2>1 DEF BootstrapProgress
  <2>3. ASSUME NEW k \in 1..2, k < c
        PROVE  LatestIs(Tracked[k], ValueOf[Tracked[k]][rev])'
    <3>1. LatestIs(Tracked[k], ValueOf[Tracked[k]][rev])
      BY <1>0, <1>2, <2>1, <2>3 DEF BootstrapProgress
    <3>. QED  BY <1>10, <2>3, <3>1 DEF LatestIs
  <2>4. ASSUME NEW k \in 1..2, k > c
        PROVE  \A r \in history'[Tracked[k]] : r.at < job'[p].run
    BY <1>0, <1>2, <1>3, <1>10, <2>1, <2>4 DEF BootstrapProgress
  <2>5. LatestIs(Tracked[c], ValueOf[Tracked[c]][rev])'
    BY <1>9
  <2>6. \A k \in 1..2 :
           IF k <= Appended(p)'
           THEN LatestIs(Tracked[k], ValueOf[Tracked[k]][rev])'
           ELSE \A r \in history'[Tracked[k]] : r.at < job'[p].run
    BY <1>2, <2>1, <2>3, <2>4, <2>5
  <2>7. ~LastGoodHashIs("bootstrap", job[p].rev)'
    BY <1>1, <1>2, <1>3 DEF BootstrapProgress, LastGoodHashIs, Good
  <2>8. job'[p].rev <= upstream'["bootstrap"] /\ pc'[p] # "append"
    BY <1>1, <1>2, <1>3, <1>4 DEF BootstrapProgress
  <2>. QED  BY <1>0, <1>3, <1>12, <2>1, <2>2, <2>6, <2>7, <2>8 DEF BootstrapProgress
<1>. QED  BY <1>1, <1>2, <1>3, <1>4, <1>8, <1>12, <1>13, SerialFrom

(* A move of the outside world, or none.                                   *)
LEMMA SerialUpstream ==
  ASSUME Inv1, Inv1', SerialInv, UNCHANGED <<runs, stored, history, pc, job>>,
         upstream["bootstrap"] <= upstream'["bootstrap"]
  PROVE  SerialInv'
<1>1. Fixed
  BY DEF Fixed, Good
<1>2. /\ upstream["bootstrap"] \in Nat /\ upstream'["bootstrap"] \in Nat
      /\ \A k \in 1..5 : stored[PartsOf["bootstrap"][k]] \in Nat
      /\ \A i \in DOMAIN runs : runs[i].hash \in Nat
  <2>1. /\ upstream["bootstrap"] \in Nat /\ upstream'["bootstrap"] \in Nat
        /\ \A t \in Part : stored[t] \in Nat
    BY DEF Inv1, TypeOK, Endpoint, Rev, Rev0
  <2>2. ASSUME NEW i \in DOMAIN runs PROVE runs[i].hash \in Nat
    <3>1. runs[i] \in RunRow
      BY DEF Inv1, TypeOK
    <3>. QED  BY <3>1 DEF RunRow, Rev0
  <2>. QED  BY <2>1, <2>2, PartsDisjoint
<1>3. NothingNewerThan(upstream["bootstrap"])'
  BY <1>1, <1>2 DEF SerialInv, NothingNewerThan, Good
<1>4. CleanOrSuperseded' /\ OneWriter'
  BY <1>1, FixedFacts DEF SerialInv, OneWriter, Active
<1>5. ASSUME NEW p \in Active, BootstrapProgress(p), job[p].rev \in Nat
      PROVE  BootstrapProgress(p)'
  BY <1>1, <1>2, <1>5 DEF BootstrapProgress, Written, Appended, NothingNewerThan,
     LastGoodHashIs, Good, LatestIs
<1>6. \A p \in Active : pc[p] # "fetch" => job[p].rev \in Nat
  BY ActiveFacts
<1>. QED  BY <1>1, <1>3, <1>4, <1>5, <1>6 DEF SerialInv, Inv1, Active

LEMMA SerialStep ==
  ASSUME ~Overlap, ~MayRevert, Inv1, Inv1', SerialInv, [Next]_vars
  PROVE  SerialInv'
<1>1. CASE External
  <2>1. UNCHANGED <<runs, stored, history, pc, job>>
    BY <1>1 DEF External, Tick, UpstreamChange, LiveChange, tables
  <2>2. upstream["bootstrap"] <= upstream'["bootstrap"]
    <3>1. upstream \in [Endpoint -> Rev] /\ "bootstrap" \in Endpoint
      BY DEF Inv1, TypeOK, Endpoint
    <3>2. CASE \E e \in Endpoint, r \in Rev : UpstreamChange(e, r)
      BY <3>1, <3>2 DEF UpstreamChange, Rev
    <3>3. CASE UNCHANGED upstream
      BY <3>1, <3>3 DEF Rev
    <3>. QED  BY <1>1, <3>2, <3>3 DEF External, Tick, LiveChange
  <2>. QED  BY <2>1, <2>2, SerialUpstream
<1>2. CASE UNCHANGED vars
  <2>1. UNCHANGED <<upstream, runs, stored, history, pc, job>>
    BY <1>2 DEF vars
  <2>2. upstream["bootstrap"] \in Nat
    BY DEF Inv1, TypeOK, Endpoint, Rev
  <2>. QED  BY <2>1, <2>2, SerialUpstream
<1>3. ASSUME NEW p \in Proc, NEW f \in BOOLEAN, RunIncremental(p, f) PROVE SerialInv'
  BY <1>3, SerialBegin DEF RunIncremental, At, Goto
<1>4. ASSUME NEW p \in Proc, StartRun(p) PROVE SerialInv'
  BY <1>4, SerialStart
<1>5. ASSUME NEW p \in Proc, Fetch(p) PROVE SerialInv'
  BY <1>5, SerialFetch
<1>6. ASSUME NEW p \in Proc, Abandon(p) PROVE SerialInv'
  <2>1. OneWriter /\ pc[p] # "idle" /\ pc' = [pc EXCEPT ![p] = "idle"]
    BY <1>6 DEF Abandon, At, Goto, SerialInv
  <2>2. UNCHANGED <<upstream, runs, stored, history>> /\ Fixed
    BY <1>6 DEF Abandon, external, tables, Fixed, Good
  <2>3. /\ CleanOrSuperseded' /\ NothingNewerThan(upstream["bootstrap"])'
        /\ \A h \in History : \A r \in history'[h] : r.at <= Len(runs')
    BY <2>2, FixedFacts DEF SerialInv, OneWriter, NothingNewerThan, Good
  <2>. QED  BY <2>1, <2>3, SerialFrom
<1>7. ASSUME NEW p \in Proc, Skip(p) PROVE SerialInv'
  <2>1. p \in Active /\ pc[p] = "check" /\ FinishRun(p, "skipped", job[p].rev)
        /\ UNCHANGED <<external, tables>> /\ LastGoodHashIs(job[p].task, job[p].rev)
    BY <1>7 DEF Skip, At, Active
  <2>2. job[p].task = "bootstrap" =>
            \/ UpsertsAreNoOps("bootstrap", job[p].rev)
            \/ \E k \in 1..5 : stored[PartsOf["bootstrap"][k]] > job[p].rev
    BY <2>1, ActiveFacts DEF CleanOrSuperseded
  <2>. QED  BY <2>1, <2>2, SerialFinish
<1>8. ASSUME NEW p \in Proc, Fail(p) PROVE SerialInv'
  <2>1. p \in Active /\ FinishRun(p, "failed", NoRev) /\ UNCHANGED <<external, tables>>
    BY <1>8 DEF Fail, At, Active
  <2>. QED  BY <2>1, SerialFinish
<1>9. ASSUME NEW p \in Proc, Succeed(p) PROVE SerialInv'
  <2>1. p \in Active /\ pc[p] \in {"live", "record"}
        /\ FinishRun(p, "success", job[p].rev) /\ UNCHANGED <<external, tables>>
    BY <1>9 DEF Succeed, AllWritten, At, Active
  <2>2. job[p].task = "bootstrap" => UpsertsAreNoOps("bootstrap", job[p].rev)
    <3>. SUFFICES ASSUME job[p].task = "bootstrap"
                  PROVE  UpsertsAreNoOps("bootstrap", job[p].rev)
      OBVIOUS
    <3>1. BootstrapProgress(p) /\ Written(p) = 5 /\ Appended(p) = 2
      BY <2>1, ActiveFacts DEF Written, Appended
    <3>2. \A h \in History : \E k \in 1..2 : h = Tracked[k]
      <4>1. Tracked[1] = "price" /\ Tracked[2] = "ownership"
        BY DEF Tracked
      <4>. QED  BY <4>1 DEF History
    <3>. QED  BY <3>1, <3>2, PartsShape DEF BootstrapProgress, UpsertsAreNoOps
  <2>. QED  BY <2>1, <2>2, SerialFinish
<1>10. ASSUME NEW p \in Proc, WritePart(p) PROVE SerialInv'
  BY <1>10, SerialWrite
<1>11. ASSUME NEW p \in Proc, AppendChanged(p) PROVE SerialInv'
  BY <1>11, SerialAppend
<1>. DEFINE Quiet(p) ==
       \/ NotSkipped(p) \/ ResolveTeams(p) \/ ReadLatest(p) \/ DecideSnapshot(p)
       \/ CaptureSnapshot(p) \/ FindDueLive(p) \/ \E g \in Gameweek : CaptureLive(p, g)
<1>12. ASSUME NEW p \in Proc, Quiet(p) PROVE SerialInv'
  <2>1. p \in Active /\ pc[p] # "fetch" /\ Fixed /\ UNCHANGED <<runs, history, stored, upstream>>
    BY <1>12 DEF NotSkipped, ResolveTeams, ReadLatest, DecideSnapshot, CaptureSnapshot,
       FindDueLive, CaptureLive, At, Active, external, tables, Fixed, Good
  <2>2. job[p] \in Job /\ p \in Proc /\ (job[p].task = "bootstrap" => BootstrapProgress(p))
    BY <2>1, ActiveFacts
  <2>3. ASSUME NotSkipped(p) PROVE SerialInv'
    <3>1. PICK l \in {"write", "resolve"} :
             /\ pc' = [pc EXCEPT ![p] = l] /\ pc'[p] = l
             /\ job[p].task = "bootstrap" => l = "write"
      BY <2>2, <2>3 DEF NotSkipped, Goto, Inv1, TypeOK
    <3>2. pc[p] = "check" /\ job' = job /\ ~LastGoodHashIs(job[p].task, job[p].rev)
      BY <2>3 DEF NotSkipped, At
    <3>3. job[p].cursor = 1
      BY <2>2, <3>2 DEF Inv1, ControlOK, Bound, Job
    <3>4. job[p].task = "bootstrap" => Written(p)' = Written(p) /\ Appended(p)' = Appended(p)
      BY <3>1, <3>2, <3>3 DEF Written, Appended
    <3>. QED  BY <2>1, <3>1, <3>2, <3>4, QuietStep DEF Location
  <2>4. ASSUME ResolveTeams(p) PROVE SerialInv'
    <3>1. job[p].task = "fixtures" /\ pc' = [pc EXCEPT ![p] = "write"]
      BY <2>1, <2>4 DEF ResolveTeams, At, Goto, Inv1, ControlOK
    <3>2. UNCHANGED <<job[p].run, job[p].rev, job[p].task>>
      BY <2>2, <2>4 DEF ResolveTeams, Job, Inv1, TypeOK
    <3>. QED  BY <2>1, <3>1, <3>2, QuietStep DEF Location
  <2>5. ASSUME ReadLatest(p) PROVE SerialInv'
    <3>1. PICK v : LatestIs(Tracked[job[p].cursor], v) /\ job' = [job EXCEPT ![p].latest = v]
      BY <2>5 DEF ReadLatest
    <3>2. /\ UNCHANGED <<job[p].run, job[p].rev, job[p].task, job[p].cursor>>
          /\ job'[p].latest = v
      BY <2>2, <3>1 DEF Job, Inv1, TypeOK
    <3>3. pc[p] = "latest" /\ pc' = [pc EXCEPT ![p] = "append"] /\ pc'[p] = "append"
      BY <2>2, <2>5 DEF ReadLatest, At, Goto, Inv1, TypeOK
    <3>4. Written(p)' = Written(p) /\ Appended(p)' = Appended(p)
      BY <3>2, <3>3 DEF Written, Appended
    <3>5. job[p].task = "bootstrap" => ~LastGoodHashIs("bootstrap", job[p].rev)
      BY <2>2, <3>3 DEF BootstrapProgress
    <3>. QED  BY <2>1, <3>1, <3>2, <3>3, <3>4, <3>5, QuietStep DEF Location
  <2>6. ASSUME \/ DecideSnapshot(p) \/ CaptureSnapshot(p) \/ FindDueLive(p)
               \/ \E g \in Gameweek : CaptureLive(p, g)
        PROVE  SerialInv'
    <3>1. pc[p] \in {"decide", "capture", "due", "live"}
      BY <2>6 DEF DecideSnapshot, CaptureSnapshot, FindDueLive, CaptureLive, At
    <3>2. PICK l \in {"capture", "due", "live"} : pc' = [pc EXCEPT ![p] = l] /\ pc'[p] = l
      BY <2>2, <2>6 DEF DecideSnapshot, CaptureSnapshot, FindDueLive, CaptureLive, At, Goto,
         Inv1, TypeOK
    <3>3. UNCHANGED <<job[p].run, job[p].rev, job[p].task>>
      <4>1. CASE DecideSnapshot(p)
        BY <2>2, <4>1 DEF DecideSnapshot, Job, Inv1, TypeOK
      <4>2. CASE CaptureSnapshot(p)
        <5>1. PICK c, t : job' = [job EXCEPT ![p] = [job[p] EXCEPT !.cursor = c, !.target = t]]
          BY <4>2 DEF CaptureSnapshot
        <5>2. job'[p] = [job[p] EXCEPT !.cursor = c, !.target = t]
          BY <2>2, <5>1 DEF Inv1, TypeOK
        <5>. QED  BY <2>2, <5>2 DEF Job
      <4>3. CASE FindDueLive(p)
        BY <2>2, <4>3 DEF FindDueLive, Job, Inv1, TypeOK
      <4>4. CASE \E g \in Gameweek : CaptureLive(p, g)
        BY <2>2, <4>4 DEF CaptureLive, Job, Inv1, TypeOK
      <4>. QED  BY <2>6, <4>1, <4>2, <4>3, <4>4
    <3>4. Written(p)' = Written(p) /\ Appended(p)' = Appended(p)
      BY <3>1, <3>2 DEF Written, Appended
    <3>5. job[p].task = "bootstrap" => ~LastGoodHashIs("bootstrap", job[p].rev)
      BY <2>2, <3>1 DEF BootstrapProgress
    <3>. QED  BY <2>1, <3>2, <3>3, <3>4, <3>5, QuietStep DEF Location
  <2>. QED  BY <1>12, <2>3, <2>4, <2>5, <2>6
<1>. QED
  BY <1>1, <1>2, <1>3, <1>4, <1>5, <1>6, <1>7, <1>8, <1>9, <1>10, <1>11, <1>12
  DEF Next, Step

(* What SerialInv is for.                                                  *)
LEMMA SerialSkip ==
  ASSUME Inv1, SerialInv
  PROVE  BootstrapSkipIsNoOp
<1>. SUFFICES ASSUME NEW p \in Proc, pc[p] = "check", job[p].task = "bootstrap",
                     LastGoodHashIs("bootstrap", job[p].rev)
              PROVE  UpsertsAreNoOps("bootstrap", job[p].rev)
  BY DEF BootstrapSkipIsNoOp, AboutToSkip
<1>1. p \in Active
  BY DEF Active
<1>2. job[p].rev \in Rev /\ job[p].rev \in Nat /\ BootstrapProgress(p) /\ CleanOrSuperseded
  BY <1>1, ActiveFacts
<1>3. \A k \in 1..5 : stored[PartsOf["bootstrap"][k]] <= job[p].rev
                      /\ stored[PartsOf["bootstrap"][k]] \in Nat
  BY <1>2, PartsDisjoint DEF BootstrapProgress, NothingNewerThan, Inv1, TypeOK, Rev0
<1>. QED  BY <1>2, <1>3 DEF CleanOrSuperseded

(* SerialInv holds in every reachable state, so a bootstrap run that is    *)
(* skipped because its hash equals the last good one (sync.service.ts:85)  *)
(* would indeed have changed no row, whatever failed, died or was          *)
(* abandoned before: for any number of processes that take turns, any      *)
(* deadlines and any payloads that do not come back.                       *)
THEOREM SerialInvariant ==
  ASSUME ~Overlap, ~MayRevert
  PROVE  Spec => []SerialInv
<1>1. Init => Inv1 /\ SerialInv
  BY InitInv1, InitSerial
<1>2. Inv1 /\ SerialInv /\ [Next]_vars => (Inv1 /\ SerialInv)'
  BY NextInv1, SerialStep
<1>. QED  BY <1>1, <1>2, PTL DEF Spec

(* Hence, in every reachable state, a bootstrap run about to be recorded   *)
(* `skipped` finds every row it would upsert already holding its payload   *)
(* and both histories up to date.                                          *)
THEOREM BootstrapSkip ==
  ASSUME ~Overlap, ~MayRevert
  PROVE  Spec => []BootstrapSkipIsNoOp
<1>1. Spec => []Inv1
  BY TypeCorrect, PTL DEF Inv1
<1>2. Inv1 /\ SerialInv => BootstrapSkipIsNoOp
  BY SerialSkip
<1>. QED  BY <1>1, <1>2, SerialInvariant, PTL

-----------------------------------------------------------------------------
(* Serial runs of FplSync implement SyncMirror.                            *)

LEMMA BootstrapRowsShape ==
  /\ \A k \in 1..5 : PartsOf["bootstrap"][k] \in BootstrapTables
  /\ BootstrapTables \subseteq Part
  /\ BootstrapRows \in [BootstrapTables -> {stored[t] : t \in BootstrapTables}]
  BY PartsDisjoint DEF BootstrapTables, BootstrapRows

(* A step that touches none of what the mirror shows is a stutter of it.   *)
LEMMA MirrorStutters ==
  ASSUME UNCHANGED <<upstream, stored>>,
         \A rev \in Rev : LastGoodHashIs("bootstrap", rev)' <=> LastGoodHashIs("bootstrap", rev)
  PROVE  UNCHANGED Mirror!vars
<1>1. LastGoodHashes' = LastGoodHashes
  BY DEF LastGoodHashes
<1>2. BootstrapRows' = BootstrapRows
  BY DEF BootstrapRows
<1>. QED  BY <1>1, <1>2 DEF Mirror!vars

LEMMA MirrorInit == Init => Mirror!Init
<1>. SUFFICES ASSUME Init PROVE Mirror!Init
  OBVIOUS
<1>1. DOMAIN runs = {} /\ upstream["bootstrap"] = 1
  BY DEF Init, Endpoint
<1>2. LastGoodHashes = {}
  BY <1>1 DEF LastGoodHashes, LastGoodHashIs
<1>3. BootstrapRows = [t \in BootstrapTables |-> 0]
  BY BootstrapRowsShape DEF BootstrapRows, Init, NoRev
<1>. QED  BY <1>1, <1>2, <1>3 DEF Mirror!Init

(* A transaction of a run: its table moves forward, or holds the payload   *)
(* already; a transaction of the fixtures is none of the mirror's.         *)
LEMMA MirrorWrite ==
  ASSUME Inv1, SerialInv, NEW p \in Proc, WritePart(p)
  PROVE  [Mirror!Next]_(Mirror!vars)
<1>1. p \in Active /\ pc[p] = "write" /\ UNCHANGED <<upstream, runs>>
  BY DEF WritePart, At, Active, external
<1>2. LastGoodHashes' = LastGoodHashes
  BY <1>1 DEF LastGoodHashes, LastGoodHashIs, Good
<1>. DEFINE c == job[p].cursor
<1>3. CASE job[p].task = "fixtures"
  <2>1. c \in 1..2
    BY <1>1, <1>3, PartsShape, ActiveFacts DEF Inv1, ControlOK, Bound, Job
  <2>2. \A t \in BootstrapTables : stored'[t] = stored[t]
    <3>1. PICK part \in Part :
             /\ \A k \in 1..5 : part # PartsOf["bootstrap"][k]
             /\ stored' = stored \/ stored' = [stored EXCEPT ![part] = job[p].rev]
      BY <1>3, <2>1, PartsDisjoint, PartsShape DEF WritePart, Upsert, Endpoint
    <3>. QED  BY <3>1, BootstrapRowsShape DEF BootstrapTables, Inv1, TypeOK
  <2>3. BootstrapRows' = BootstrapRows
    BY <2>2 DEF BootstrapRows
  <2>. QED  BY <1>1, <1>2, <2>3 DEF Mirror!vars
<1>4. CASE job[p].task = "bootstrap"
  <2>. DEFINE t == PartsOf["bootstrap"][c]
              rev == job[p].rev
  <2>1. c \in 1..5
    BY <1>1, <1>4, PartsShape, ActiveFacts DEF Inv1, ControlOK, Bound, Job
  <2>2. t \in BootstrapTables /\ t \in Part /\ stored' = [stored EXCEPT ![t] = rev]
    BY <1>4, <2>1, BootstrapRowsShape DEF WritePart, Upsert
  <2>3. /\ rev \in Nat /\ upstream["bootstrap"] \in Nat /\ stored[t] \in Nat
        /\ stored[t] <= rev /\ rev <= upstream["bootstrap"]
    <3>1. BootstrapProgress(p) /\ rev \in Nat /\ upstream["bootstrap"] \in Nat
      BY <1>1, <1>4, ActiveFacts
    <3>2. stored[t] \in Nat
      BY <2>2 DEF Inv1, TypeOK, Rev0
    <3>. QED  BY <2>1, <3>1, <3>2 DEF BootstrapProgress, NothingNewerThan
  <2>4. BootstrapRows' = [BootstrapRows EXCEPT ![t] = rev] /\ BootstrapRows[t] = stored[t]
    <3>. HIDE DEF t, rev
    <3>1. \A u \in BootstrapTables : stored'[u] = IF u = t THEN rev ELSE stored[u]
      BY <2>2, BootstrapRowsShape DEF Inv1, TypeOK
    <3>2. BootstrapRows' = [u \in BootstrapTables |-> IF u = t THEN rev ELSE stored[u]]
      BY <3>1 DEF BootstrapRows
    <3>. QED  BY <2>2, <3>2 DEF BootstrapRows
  <2>. HIDE DEF t, rev
  <2>5. CASE stored[t] = rev
    <3>1. BootstrapRows' = BootstrapRows
      BY <2>2, <2>4, <2>5 DEF BootstrapRows
    <3>. QED  BY <1>1, <1>2, <3>1 DEF Mirror!vars
  <2>6. CASE stored[t] < rev
    <3>1. rev \in (BootstrapRows[t] + 1)..upstream["bootstrap"]
      BY <2>3, <2>4, <2>6
    <3>2. Mirror!Refresh(t)
      BY <1>1, <1>2, <2>4, <3>1 DEF Mirror!Refresh
    <3>. QED  BY <2>2, <3>2 DEF Mirror!Next
  <2>. QED  BY <2>3, <2>5, <2>6
<1>. QED  BY <1>1, <1>3, <1>4, ActiveFacts DEF Endpoint

(* A run that ends well records what every table holds; one that is        *)
(* skipped records what was recorded already.                              *)
LEMMA MirrorRecord ==
  ASSUME Inv1, SerialInv, NEW p \in Active, NEW s \in {"success", "skipped"},
         FinishRun(p, s, job[p].rev), UNCHANGED <<external, tables>>, pc[p] # "fetch",
         job[p].task = "bootstrap",
         UpsertsAreNoOps("bootstrap", job[p].rev)
  PROVE  [Mirror!Next]_(Mirror!vars)
<1>0. PICK rev : rev = job[p].rev
  OBVIOUS
<1>1. /\ rev \in Rev /\ rev \in Nat /\ upstream["bootstrap"] \in Nat
      /\ rev <= upstream["bootstrap"] /\ job[p].run = Len(runs)
      /\ UNCHANGED <<upstream, stored>> /\ rev # NoRev
  BY <1>0, ActiveFacts DEF BootstrapProgress, external, tables
<1>2. \A h : LastGoodHashIs("bootstrap", h)' => h = rev
  BY <1>0, <1>1, LastAfterFinish
<1>3. LastGoodHashIs("bootstrap", rev)'
  <2>0. PICK n : n = job[p].run
    OBVIOUS
  <2>1. /\ n \in DOMAIN runs' /\ runs'[n].hash = rev /\ runs'[n].status = s
        /\ runs'[n].endpoint = "bootstrap" /\ \A j \in DOMAIN runs' : j <= n
    BY <1>0, <1>1, <2>0, FinishedRow
  <2>2. Good(n, "bootstrap")'
    BY <1>1, <2>1 DEF Good
  <2>. QED  BY <2>1, <2>2 DEF LastGoodHashIs
<1>4. LastGoodHashes' = {rev}
  BY <1>1, <1>2, <1>3 DEF LastGoodHashes
<1>5. \A t \in BootstrapTables : BootstrapRows[t] = rev
  BY <1>0, PartsShape DEF UpsertsAreNoOps, BootstrapRows, BootstrapTables
<1>6. BootstrapRows' = BootstrapRows /\ rev \in 1..upstream["bootstrap"]
  BY <1>1 DEF BootstrapRows, Rev
<1>7. Mirror!Record
  BY <1>1, <1>4, <1>5, <1>6 DEF Mirror!Record
<1>. QED  BY <1>7 DEF Mirror!Next

LEMMA MirrorStep ==
  ASSUME ~MayRevert, Inv1, SerialInv, BootstrapSkipIsNoOp, [Next]_vars
  PROVE  [Mirror!Next]_(Mirror!vars)
<1>1. CASE External
  <2>1. UNCHANGED <<runs, stored>>
    BY <1>1 DEF External, Tick, UpstreamChange, LiveChange, tables
  <2>2. LastGoodHashes' = LastGoodHashes /\ BootstrapRows' = BootstrapRows
    BY <2>1 DEF LastGoodHashes, LastGoodHashIs, Good, BootstrapRows
  <2>3. CASE upstream'["bootstrap"] = upstream["bootstrap"]
    BY <2>2, <2>3 DEF Mirror!vars
  <2>4. CASE upstream'["bootstrap"] # upstream["bootstrap"]
    <3>1. PICK e \in Endpoint, r \in Rev : UpstreamChange(e, r)
      BY <1>1, <2>4 DEF External, Tick, LiveChange
    <3>2. upstream' = [upstream EXCEPT ![e] = r] /\ upstream \in [Endpoint -> Rev] /\ r > upstream[e]
      BY <3>1 DEF UpstreamChange, Inv1, TypeOK
    <3>3. upstream'["bootstrap"] > upstream["bootstrap"] /\ upstream'["bootstrap"] \in Nat
      BY <2>4, <3>2 DEF Rev, Endpoint
    <3>4. Mirror!Publish
      BY <2>2, <3>3 DEF Mirror!Publish
    <3>. QED  BY <3>4 DEF Mirror!Next
  <2>. QED  BY <2>3, <2>4
<1>2. CASE UNCHANGED vars
  BY <1>2, MirrorStutters DEF vars, LastGoodHashIs, Good
<1>3. ASSUME NEW p \in Proc, WritePart(p) PROVE [Mirror!Next]_(Mirror!vars)
  BY <1>3, MirrorWrite
<1>4. ASSUME NEW p \in Proc, StartRun(p) PROVE [Mirror!Next]_(Mirror!vars)
  <2>1. \A h : LastGoodHashIs("bootstrap", h)' <=> LastGoodHashIs("bootstrap", h)
    BY <1>4, GoodAfterStart, SameGood DEF Endpoint
  <2>. QED  BY <1>4, <2>1, MirrorStutters DEF StartRun, external, tables
<1>5. ASSUME NEW p \in Proc, Skip(p) \/ Succeed(p) \/ Fail(p)
      PROVE  [Mirror!Next]_(Mirror!vars)
  <2>1. p \in Active /\ UNCHANGED <<external, tables>>
    BY <1>5 DEF Skip, Succeed, AllWritten, Fail, At, Active
  <2>0. PICK s \in {"success", "skipped", "failed"} : \E h : FinishRun(p, s, h)
    BY <1>5 DEF Skip, Succeed, Fail
  <2>2. PICK h : FinishRun(p, s, h)
    BY <2>0
  <2>3. CASE Fail(p) \/ job[p].task = "fixtures"
    <3>1. /\ \A i : Good(i, "bootstrap")' <=> Good(i, "bootstrap")
          /\ \A i : Good(i, "bootstrap") => runs'[i].hash = runs[i].hash
      BY <2>1, <2>2, <2>3, GoodAfterFail, GoodAfterFixtures DEF Fail, Endpoint
    <3>2. \A g : LastGoodHashIs("bootstrap", g)' <=> LastGoodHashIs("bootstrap", g)
      BY <3>1, SameGood DEF Endpoint
    <3>. QED  BY <2>1, <3>2, MirrorStutters DEF external, tables
  <2>4. CASE Skip(p) /\ job[p].task = "bootstrap"
    <3>1. UpsertsAreNoOps("bootstrap", job[p].rev) /\ pc[p] # "fetch"
          /\ FinishRun(p, "skipped", job[p].rev)
      BY <2>4 DEF Skip, At, BootstrapSkipIsNoOp, AboutToSkip
    <3>. QED  BY <2>1, <2>4, <3>1, MirrorRecord
  <2>5. CASE Succeed(p) /\ job[p].task = "bootstrap"
    <3>1. pc[p] \in {"live", "record"} /\ FinishRun(p, "success", job[p].rev)
      BY <2>5 DEF Succeed, AllWritten, At
    <3>2. BootstrapProgress(p) /\ Written(p) = 5 /\ Appended(p) = 2
      BY <2>1, <2>5, <3>1, ActiveFacts DEF Written, Appended
    <3>3. \A g \in History : \E k \in 1..2 : g = Tracked[k]
      <4>1. Tracked[1] = "price" /\ Tracked[2] = "ownership"
        BY DEF Tracked
      <4>. QED  BY <4>1 DEF History
    <3>4. UpsertsAreNoOps("bootstrap", job[p].rev)
      BY <3>2, <3>3, PartsShape DEF BootstrapProgress, UpsertsAreNoOps
    <3>. QED  BY <2>1, <2>5, <3>1, <3>4, MirrorRecord
  <2>. QED  BY <1>5, <2>1, <2>3, <2>4, <2>5, ActiveFacts DEF Endpoint
<1>. DEFINE Quiet(p) ==
       \/ \E f \in BOOLEAN : RunIncremental(p, f)
       \/ Fetch(p) \/ NotSkipped(p) \/ ResolveTeams(p) \/ ReadLatest(p) \/ AppendChanged(p)
       \/ DecideSnapshot(p) \/ CaptureSnapshot(p) \/ FindDueLive(p)
       \/ (\E g \in Gameweek : CaptureLive(p, g)) \/ Abandon(p)
<1>6. ASSUME NEW p \in Proc, Quiet(p) PROVE [Mirror!Next]_(Mirror!vars)
  <2>1. UNCHANGED <<upstream, runs, stored>>
    BY <1>6 DEF RunIncremental, Fetch, NotSkipped, ResolveTeams, ReadLatest, AppendChanged,
       DecideSnapshot, CaptureSnapshot, FindDueLive, CaptureLive, Abandon, external, tables
  <2>. QED  BY <2>1, MirrorStutters DEF LastGoodHashIs, Good
<1>. QED  BY <1>1, <1>2, <1>3, <1>4, <1>5, <1>6 DEF Next, Step

(* Serial runs of the sync, with payloads that do not come back, implement *)
(* SyncMirror: their failures, deaths, skips and half-written payloads are *)
(* nothing but tables following upstream, and a hash is recorded           *)
(* (sync.repository.ts:504) only over tables that all hold its payload.    *)
THEOREM MirrorImplemented ==
  ASSUME ~Overlap, ~MayRevert
  PROVE  Spec => ImplementsMirror
<1>1. Spec => []Inv1
  BY TypeCorrect, PTL DEF Inv1
<1>2. Inv1 /\ SerialInv /\ BootstrapSkipIsNoOp /\ [Next]_vars => [Mirror!Next]_(Mirror!vars)
  BY MirrorStep
<1>. QED  BY <1>1, <1>2, MirrorInit, SerialInvariant, BootstrapSkip, PTL
          DEF Spec, ImplementsMirror, Mirror!Spec

(* What follows from the promise of SyncMirror alone.                      *)
LEMMA MirrorSkipIsSound == Mirror!Spec => []Mirror!SkipIsSound
<1>. DEFINE IInv == Mirror!TypeOK /\ Mirror!Between
<1>1. Mirror!Init => IInv
  BY DEF Mirror!Init, Mirror!TypeOK, Mirror!Between
<1>2. IInv /\ [Mirror!Next]_(Mirror!vars) => IInv'
  <2>. SUFFICES ASSUME IInv, [Mirror!Next]_(Mirror!vars) PROVE IInv'
    OBVIOUS
  <2>. USE DEF Mirror!TypeOK, Mirror!Between
  <2>1. CASE Mirror!Publish
    BY <2>1 DEF Mirror!Publish, BootstrapTables
  <2>2. ASSUME NEW t \in BootstrapTables, Mirror!Refresh(t) PROVE IInv'
    <3>1. PICK q \in (BootstrapRows[t] + 1)..upstream["bootstrap"] :
             BootstrapRows' = [BootstrapRows EXCEPT ![t] = q]
      BY <2>2 DEF Mirror!Refresh
    <3>2. /\ q \in Nat /\ BootstrapRows[t] < q /\ q <= upstream["bootstrap"]
          /\ upstream'["bootstrap"] = upstream["bootstrap"] /\ LastGoodHashes' = LastGoodHashes
      BY <2>2, <3>1 DEF Mirror!Refresh
    <3>3. BootstrapRows'[t] = q
          /\ \A u \in BootstrapTables \ {t} : BootstrapRows'[u] = BootstrapRows[u]
      BY <3>1
    <3>4. \A x \in LastGoodHashes : x <= q
      BY <3>2
    <3>5. BootstrapRows' \in [BootstrapTables -> Nat]
      BY <3>1, <3>2
    <3>. QED  BY <3>2, <3>3, <3>4, <3>5
  <2>3. CASE Mirror!Record
    BY <2>3 DEF Mirror!Record
  <2>4. CASE UNCHANGED Mirror!vars
    BY <2>4 DEF Mirror!vars
  <2>. QED  BY <2>1, <2>2, <2>3, <2>4 DEF Mirror!Next
<1>3. IInv => Mirror!SkipIsSound
  <2>. SUFFICES ASSUME IInv, upstream["bootstrap"] \in LastGoodHashes, NEW t \in BootstrapTables
                PROVE  BootstrapRows[t] = upstream["bootstrap"]
    BY DEF Mirror!SkipIsSound
  <2>1. /\ BootstrapRows[t] \in Nat /\ upstream["bootstrap"] \in Nat
        /\ BootstrapRows[t] <= upstream["bootstrap"] /\ upstream["bootstrap"] <= BootstrapRows[t]
    BY DEF Mirror!TypeOK, Mirror!Between
  <2>. QED  BY <2>1
<1>. QED  BY <1>1, <1>2, <1>3, PTL DEF Mirror!Spec

(* While the payload recorded last is the one upstream serves, every table *)
(* holds it, in the middle of a run, after a failed one or after a death:  *)
(* the ground on which syncBootstrap returns early (sync.service.ts:85).   *)
THEOREM SkipIsSoundAlways ==
  ASSUME ~Overlap, ~MayRevert
  PROVE  Spec => []Mirror!SkipIsSound
<1>1. Spec => Mirror!Spec
  BY MirrorImplemented DEF ImplementsMirror
<1>. QED  BY <1>1, MirrorSkipIsSound, PTL
=============================================================================
