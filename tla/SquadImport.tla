----------------------------- MODULE SquadImport -----------------------------
(***************************************************************************)
(* The one path on which a user waits for FPL: SquadService.importSquad    *)
(* over FplApiClient, run by any number of requests at once for one        *)
(* manager, next to the sync that fills the tables it resolves against.    *)
(*                                                                         *)
(* Upstream (FPL, external) may answer any call with an error, may put a   *)
(* deadline off, names the manager's current_event some time after a       *)
(* deadline, and publishes that gameweek's picks some time after that.     *)
(***************************************************************************)
EXTENDS Integers, FiniteSets, FiniteSetsExt

CONSTANTS
    Request,       \* import requests
    LastEvent,     \* BOUND: gameweeks
    MaxTime,       \* BOUND: ticks of the clock
    Announced,     \* gameweek -> its deadline as FPL first gives it
    Forward,       \* FPL may bring a deadline forward as well
    Locked,        \* gameweek -> the manager's picks at its deadline
    FirstEvent,    \* the manager's first gameweek
    Late,          \* players the store learns of in a later sync only
    BulkAttempts,  \* default of opts.maxAttempts
    OnDemandAttempts \* onDemand.maxAttempts

Event    == 1..LastEvent
NoGw     == 0
Time     == 1..MaxTime
Unknown  == 0
Sync     == "sync"
Element  == UNION {Locked[g] : g \in Event}
Error    == {"notFound", "tooMany", "clientError", "serverError", "timeout"}

ASSUME ImportAssumption ==
    /\ LastEvent \in Nat \ {0}
    /\ MaxTime \in Nat
    /\ Announced \in [1..LastEvent -> 1..MaxTime]
    /\ Forward \in BOOLEAN
    /\ FirstEvent \in Event
    /\ DOMAIN Locked = Event
    /\ Late \subseteq Element
    /\ {BulkAttempts, OnDemandAttempts} \subseteq Nat \ {0}
    /\ Sync \notin Request

VARIABLES
    exists,    \* the manager id names a manager
    now,       \* the clock, FPL's and the application's
    due,       \* gameweek -> its deadline
    entered,   \* current_event of the manager, NoGw before the first
    public,    \* latest gameweek whose picks FPL serves
    listed,    \* elements FPL has listed: Late joins after the first sync
    weeks,     \* gameweek -> its deadlineTime in the store, Unknown without a row
    players,   \* elements with a row in the store
    squads,    \* gameweek -> picks stored for the manager, {} without a row
    request,   \* request -> where it is and what it has
    call       \* caller -> attempt of its call to FPL, 0 without one

upstream   == <<exists, now, due, entered, public, listed>>
store      == <<weeks, players, squads>>
importVars == <<upstream, store, request, call>>

Caller == Request \cup {Sync}

(* Where a request awaits, the gameweek it asks for, and what it was       *)
(* answered.  Two fields are no variables of the code: `named`, the event  *)
(* FPL named when the request came in, and `asked`, how often it has       *)
(* called FPL.                                                             *)
Location == {"idle", "cached", "entry", "picks", "week", "players", "store"}
Result   == {"none", "cached", "imported", "managerNotFound", "notAvailableYet",
             "unknownPlayer", "upstreamUnavailable", "failed"}
Import   == [at : Location, gw : 0..LastEvent, named : 0..LastEvent, asked : Nat,
             result : Result]
NoImport == [at |-> "idle", gw |-> NoGw, named |-> NoGw, asked |-> 0, result |-> "none"]

ImportTypeOK ==
    /\ exists \in BOOLEAN
    /\ now \in 0..MaxTime
    /\ due \in [Event -> Time]
    /\ entered \in 0..LastEvent
    /\ public \in 0..entered
    /\ listed \subseteq Element
    /\ weeks \in [Event -> Time \cup {Unknown}]
    /\ players \subseteq Element
    /\ squads \in [Event -> SUBSET Element]
    /\ request \in [Request -> Import]
    /\ DOMAIN call = Caller /\ \A c \in Caller :
          call[c] \in 0..(IF c = Sync THEN BulkAttempts ELSE OnDemandAttempts)

ImportInit ==
    /\ exists \in BOOLEAN
    /\ now = 0
    /\ due = Announced
    /\ entered = NoGw
    /\ public = NoGw
    /\ listed = Element \ Late
    /\ weeks = [g \in Event |-> Unknown]
    /\ players = {}
    /\ squads = [g \in Event |-> {}]
    /\ request = [r \in Request |-> NoImport]
    /\ call = [c \in Caller |-> 0]

-----------------------------------------------------------------------------
(* FPL (external).                                                         *)

Tick ==
    /\ now < MaxTime
    /\ now' = now + 1
    /\ UNCHANGED <<exists, due, entered, public, listed, store, request, call>>

(* A deadline ahead is moved, between those before and after it.           *)
Reschedule(g, t) ==
    /\ now < due[g] /\ now < t /\ t # due[g]
    /\ t < due[g] => Forward
    /\ \A k \in Event : (k < g => due[k] < t) /\ (k > g => t < due[k])
    /\ due' = [due EXCEPT ![g] = t]
    /\ UNCHANGED <<exists, now, entered, public, listed, store, request, call>>

LatestPassed == Max({NoGw} \cup {g \in Event : due[g] <= now})

TurnOver ==
    /\ exists
    /\ LatestPassed >= FirstEvent
    /\ entered # LatestPassed
    /\ entered' = LatestPassed
    /\ UNCHANGED <<exists, now, due, public, listed, store, request, call>>

Publish ==
    /\ public # entered
    /\ public' = entered
    /\ UNCHANGED <<exists, now, due, entered, listed, store, request, call>>

ListLate ==
    /\ listed # Element
    /\ listed' = Element
    /\ UNCHANGED <<exists, now, due, entered, public, store, request, call>>

-----------------------------------------------------------------------------
(* FplApiClient.get                                                        *)

(* MUTANT of MaxAttempts: get is called without this.onDemand.             *)
MaxAttemptsDefault(c) == BulkAttempts

MaxAttempts(c) == IF c = Sync THEN BulkAttempts ELSE OnDemandAttempts

(* No status (a timeout), 429 and 5xx may fix themselves; another 4xx does *)
(* not.                                                                    *)
Retryable(e) == e \in {"tooMany", "serverError", "timeout"}

(* A failed attempt that is followed by another, after a backoff.          *)
Retry(c, e) ==
    /\ Retryable(e)
    /\ call[c] \in 1..(MaxAttempts(c) - 1)
    /\ call' = [call EXCEPT ![c] = @ + 1]
    /\ request' = IF c = Sync THEN request ELSE [request EXCEPT ![c].asked = @ + 1]
    /\ UNCHANGED <<upstream, store>>

(* A failed attempt that is the last: FplHttpError is thrown for e.        *)
Gives(c, e) ==
    /\ call[c] > 0
    /\ Retryable(e) => call[c] >= MaxAttempts(c)

-----------------------------------------------------------------------------
(* The sync's bootstrap, as far as an import sees it.                      *)

StartSync ==
    /\ call[Sync] = 0
    /\ call' = [call EXCEPT ![Sync] = 1]
    /\ UNCHANGED <<upstream, store, request>>

EndSync ==
    /\ call[Sync] > 0
    /\ \/ weeks' = due /\ players' = players \cup listed
       \/ (\E e \in Error : Gives(Sync, e)) /\ UNCHANGED <<weeks, players>>
    /\ call' = [call EXCEPT ![Sync] = 0]
    /\ UNCHANGED <<upstream, squads, request>>

-----------------------------------------------------------------------------
(* SquadService.importSquad                                                *)

Ends(r, result) ==
    /\ request' = [request EXCEPT ![r] = [NoImport EXCEPT !.result = result]]
    /\ call' = [call EXCEPT ![r] = 0]

(* The request goes on to an await on the store, or to a call to FPL.      *)
Awaits(r, at) ==
    /\ request' = [request EXCEPT ![r].at = at]
    /\ call' = [call EXCEPT ![r] = 0]

Calls(r, at, gw) ==
    /\ request' = [request EXCEPT ![r].at = at, ![r].gw = gw, ![r].asked = @ + 1]
    /\ call' = [call EXCEPT ![r] = 1]

(* MUTANT of LatestReadable: the latest gameweek with a squad will do.     *)
LatestStored == Max({NoGw} \cup {g \in Event : squads[g] # {}})

(* latestReadableGameweek: by the deadlines the store has.                 *)
LatestReadable ==
    Max({NoGw} \cup {g \in Event : weeks[g] # Unknown /\ weeks[g] <= now})

(* A user asks: the gameweek first.  Before the first one there is no      *)
(* squad to look for.                                                      *)
Begin(r) ==
    /\ request[r].at = "idle"
    /\ IF LatestReadable = NoGw
       THEN /\ request' = [request EXCEPT ![r] = [NoImport EXCEPT
                              !.at = "entry", !.named = entered, !.asked = 1]]
            /\ call' = [call EXCEPT ![r] = 1]
       ELSE /\ request' = [request EXCEPT ![r] = [NoImport EXCEPT
                              !.at = "cached", !.gw = LatestReadable, !.named = entered]]
            /\ UNCHANGED call
    /\ UNCHANGED <<upstream, store>>

(* findSquad for it: served from Postgres when it is there.                *)
FindSquad(r) ==
    /\ request[r].at = "cached"
    /\ IF squads[request[r].gw] # {} THEN Ends(r, "cached") ELSE Calls(r, "entry", NoGw)
    /\ UNCHANGED <<upstream, store>>

(* fetchEntry, and the refusal of a manager without a gameweek.            *)
EntryAnswers(r) ==
    /\ request[r].at = "entry"
    /\ exists
    /\ IF entered = NoGw THEN Ends(r, "notAvailableYet") ELSE Calls(r, "picks", entered)
    /\ UNCHANGED <<upstream, store>>

MapUpstream(e) == IF e = "notFound" THEN "managerNotFound" ELSE "upstreamUnavailable"

(* entry/{id}/ is a 404 for an id nobody has, and for no other.            *)
EntryFails(r) ==
    /\ request[r].at = "entry"
    /\ \E e \in Error : /\ e = "notFound" => ~exists
                        /\ Gives(r, e)
                        /\ Ends(r, MapUpstream(e))
    /\ UNCHANGED <<upstream, store>>

(* MUTANT of PicksError: a 404 is mapped as fetchEntry maps it.            *)
PicksErrorAsEntry(e) == MapUpstream(e)

(* fetchPicks: a 404 here is a gameweek that is not public.                *)
PicksError(e) == IF e = "notFound" THEN "notAvailableYet" ELSE MapUpstream(e)

PicksAnswer(r) ==
    /\ request[r].at = "picks"
    /\ public >= request[r].gw
    /\ Awaits(r, "week")
    /\ UNCHANGED <<upstream, store>>

PicksFail(r) ==
    /\ request[r].at = "picks"
    /\ \E e \in Error : Gives(r, e) /\ Ends(r, PicksError(e))
    /\ UNCHANGED <<upstream, store>>

(* gameweekExists                                                          *)
GameweekExists(r) ==
    /\ request[r].at = "week"
    /\ IF weeks[request[r].gw] = Unknown THEN Ends(r, "notAvailableYet") ELSE Awaits(r, "players")
    /\ UNCHANGED <<upstream, store>>

(* MUTANT of Resolved: the picks with a row are enough.                    *)
ResolvedSome(g) == Locked[g] \cap players # {}

Resolved(g) == Locked[g] \subseteq players

(* resolvePlayers: "a skipped pick would leave a 14-player squad".         *)
ResolvePlayers(r) ==
    /\ request[r].at = "players"
    /\ IF Resolved(request[r].gw) THEN Awaits(r, "store") ELSE Ends(r, "unknownPlayer")
    /\ UNCHANGED <<upstream, store>>

(* upsertSquad: the row and its picks, replaced in one transaction.  No    *)
(* player leaves the store, so those resolved are there still.             *)
Store(r) ==
    /\ request[r].at = "store"
    /\ squads' = [squads EXCEPT ![request[r].gw] = Locked[request[r].gw] \cap players]
    /\ Ends(r, "imported")
    /\ UNCHANGED <<upstream, weeks, players>>

(* The store throws; the request fails with what it threw.                 *)
StoreFails(r) ==
    /\ request[r].at \in {"cached", "week", "players", "store"}
    /\ Ends(r, "failed")
    /\ UNCHANGED <<upstream, store>>

Step(r) ==
    \/ FindSquad(r)
    \/ EntryAnswers(r)
    \/ EntryFails(r)
    \/ PicksAnswer(r)
    \/ PicksFail(r)
    \/ GameweekExists(r)
    \/ ResolvePlayers(r)
    \/ Store(r)
    \/ StoreFails(r)

ImportNext ==
    \/ Tick \/ TurnOver \/ Publish \/ ListLate
    \/ \E g \in Event, t \in Time : Reschedule(g, t)
    \/ \E c \in Caller, e \in Error : Retry(c, e)
    \/ StartSync \/ EndSync
    \/ \E r \in Request : Begin(r) \/ Step(r)

(* A call settles (axios times it out) and the handler behind it runs on;  *)
(* nothing is assumed of users, the scheduler, the sync or FPL's calendar. *)
Fairness == \A r \in Request : WF_importVars(Step(r))

ImportSpec == ImportInit /\ [][ImportNext]_importVars /\ Fairness
-----------------------------------------------------------------------------
(* Properties.                                                             *)

(* No squad in the store is short of a pick (squad.service.ts:295), with   *)
(* any number of imports and syncs in flight.                              *)
StoredSquadsAreWhole == \A g \in Event : squads[g] \in {{}, Locked[g]}

(* "a 404 means the manager id does not exist and is the user's mistake,   *)
(* while a timeout or a 5xx is upstream's" (fpl-api.client.ts:15): an      *)
(* existing manager is never reported missing, a missing one never as      *)
(* not available yet.                                                      *)
ErrorsNameTheirCause ==
    \A r \in Request :
        /\ request[r].result = "managerNotFound" => ~exists
        /\ request[r].result \in {"notAvailableYet", "unknownPlayer", "imported"} => exists

(* "One attempt rather than four, because a user is waiting and a retry    *)
(* storm is the opposite of being a good guest" (fpl-api.client.ts:78):    *)
(* whatever fails, one import calls FPL twice at most, for the entry and   *)
(* for the picks.                                                          *)
UserAsksTwice == \A r \in Request : request[r].asked <= 2

(* Every import the user waits for is answered, after two calls at most,   *)
(* whether or not the picks are ever published.                            *)
ImportIsAnswered ==
    \A r \in Request :
        /\ [](request[r].asked <= 2)
        /\ request[r].at # "idle" ~> request[r].at = "idle"

(* "A stored squad for the latest readable gameweek cannot have gone       *)
(* stale" (squad.service.ts:37) and the check "never produces a wrong      *)
(* squad" (squad.repository.ts:107): an import answered from the store     *)
(* gives a gameweek no earlier than the one FPL named when the user asked, *)
(* however deadlines, imports and syncs fall between the two queries.      *)
CachedIsCurrent ==
    [][\A r \in Request :
          (request'[r].result = "cached" /\ request[r].result # "cached")
              => request[r].gw >= request[r].named]_importVars
=============================================================================
