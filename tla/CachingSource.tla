---------------------------- MODULE CachingSource ----------------------------
(***************************************************************************)
(* secrets.TTLCachingSource: the held entries, the single flight per name  *)
(* that reads the wrapped source, the background refresh, the rotation     *)
(* hooks and Close.                                                        *)
(*                                                                         *)
(* A value is the version of the backend it was read at, so that two       *)
(* values are equal only when nothing was changed between.  Every critical *)
(* section is one step, and so is the backend's answer.                    *)
(***************************************************************************)
EXTENDS Naturals

CONSTANTS Secret,
          SecReader,   \* calls of GetSecret
          SecHook,     \* hooks given to OnChange
          MaxChange,   \* a bound on the backend's changes
          NoSecret

ASSUME SecretAssumption == MaxChange \in Nat \ {0} /\ NoSecret \notin Secret

VARIABLES backend,    \* the wrapped source: a version, and whether it is there
          held,       \* entries: the version held, 0 when none
          lapsed,     \* names whose entry has outlived the TTL
          trip,       \* the flight of a name
          read,       \* where a GetSecret is, and its answer
          refresher,  \* the refreshEvery goroutine
          stopped,    \* stopRefresh was called
          sourceShut, \* the wrapped source was closed
          hooks,      \* the hooks registered
          started,    \* goroutines of notify that have still to call a hook
          heard,      \* the calls made to hooks, with how many times
          known,      \* ghost: the version of the last answer applied
          least       \* ghost: known when a GetSecret began

secretVars == <<backend, held, lapsed, trip, read, refresher, stopped, sourceShut,
                hooks, started, heard, known, least>>

Ver == 0..MaxChange
Answer == [kind : {"none", "value", "absent", "error"}, ver : Ver]
NoAnswer == [kind |-> "none", ver |-> 0]
NoTrip == [at |-> "none", old |-> 0, ans |-> NoAnswer]
Report == SecHook \X Secret \X Ver \X Ver
Idle == [at |-> "idle", name |-> NoSecret, ans |-> NoAnswer]

SecretTypeOK ==
    /\ backend \in [Secret -> [ver : Ver, there : BOOLEAN]]
    /\ held \in [Secret -> Ver] /\ lapsed \subseteq Secret
    /\ trip \in [Secret -> [at : {"none", "look", "fetch", "apply", "tell"},
                            old : Ver, ans : Answer]]
    /\ read \in [SecReader -> [at : {"idle", "miss", "wait", "fallback", "done"},
                               name : Secret \cup {NoSecret}, ans : Answer]]
    /\ refresher \in [at : {"asleep", "sweep", "wait", "exited"}, todo : SUBSET Secret,
                      name : Secret \cup {NoSecret}]
    /\ stopped \in BOOLEAN /\ sourceShut \in BOOLEAN
    /\ hooks \subseteq SecHook \X Secret
    /\ started \in [Report -> Nat] /\ heard \in [Report -> Nat]
    /\ known \in [Secret -> Ver] /\ least \in [SecReader -> Ver]

SecretInit ==
    /\ backend = [n \in Secret |-> [ver |-> 1, there |-> TRUE]]
    /\ held = [n \in Secret |-> 0] /\ lapsed = {}
    /\ trip = [n \in Secret |-> NoTrip]
    /\ read = [r \in SecReader |-> Idle]
    /\ refresher = [at |-> "asleep", todo |-> {}, name |-> NoSecret]
    /\ stopped = FALSE /\ sourceShut = FALSE
    /\ hooks = {}
    /\ started = [p \in Report |-> 0] /\ heard = [p \in Report |-> 0]
    /\ known = [n \in Secret |-> 0] /\ least = [r \in SecReader |-> 0]

-----------------------------------------------------------------------------
(* The backend and the clock.                                              *)

BackendChanges(n, there) ==
    /\ backend[n].ver < MaxChange /\ (there \/ backend[n].there)
    /\ backend' = [backend EXCEPT ![n] = [ver |-> @.ver + 1, there |-> there]]
    /\ UNCHANGED <<held, lapsed, trip, read, refresher, stopped, sourceShut,
                   hooks, started, heard, known, least>>

Lapse(n) ==
    /\ held[n] # 0 /\ n \notin lapsed
    /\ lapsed' = lapsed \cup {n}
    /\ UNCHANGED <<backend, held, trip, read, refresher, stopped, sourceShut,
                   hooks, started, heard, known, least>>

-----------------------------------------------------------------------------
(* GetSecret.                                                              *)

Fresh(n) == held[n] # 0 /\ n \notin lapsed
Holding(n) == [kind |-> "value", ver |-> held[n]]
Reads(r, at, ans) == read' = [read EXCEPT ![r].at = at, ![r].ans = ans]

GetSecret(r, n) ==
    /\ read[r].at = "idle"
    /\ read' = [read EXCEPT ![r] =
          IF Fresh(n) THEN [at |-> "done", name |-> n, ans |-> Holding(n)]
                      ELSE [at |-> "miss", name |-> n, ans |-> NoAnswer]]
    /\ least' = [least EXCEPT ![r] = known[n]]
    /\ UNCHANGED <<backend, held, lapsed, trip, refresher, stopped, sourceShut,
                   hooks, started, heard, known>>

\* resolve: into the flight there is, or one of its own that looks first.
Resolve(r) ==
    /\ read[r].at = "miss"
    /\ LET n == read[r].name IN
       trip' = [trip EXCEPT ![n] = IF @.at = "none" THEN [NoTrip EXCEPT !.at = "look"] ELSE @]
    /\ Reads(r, "wait", NoAnswer)
    /\ UNCHANGED <<backend, held, lapsed, refresher, stopped, sourceShut,
                   hooks, started, heard, known, least>>

\* join: the caller's context ends before the flight does.
GivesUp(r) ==
    /\ read[r].at = "wait"
    /\ Reads(r, "fallback", NoAnswer)
    /\ UNCHANGED <<backend, held, lapsed, trip, refresher, stopped, sourceShut,
                   hooks, started, heard, known, least>>

\* A failure to reach an answer is answered with what is held.
FallsBack(r) ==
    /\ read[r].at = "fallback"
    /\ LET n == read[r].name IN
       Reads(r, "done", IF held[n] # 0 THEN Holding(n) ELSE [NoAnswer EXCEPT !.kind = "error"])
    /\ UNCHANGED <<backend, held, lapsed, trip, refresher, stopped, sourceShut,
                   hooks, started, heard, known, least>>

\* The call is over; the same goroutine may make another.
Returns(r) ==
    /\ read[r].at = "done"
    /\ read' = [read EXCEPT ![r] = Idle] /\ least' = [least EXCEPT ![r] = 0]
    /\ UNCHANGED <<backend, held, lapsed, trip, refresher, stopped, sourceShut,
                   hooks, started, heard, known>>

-----------------------------------------------------------------------------
(* The flight of a name.                                                   *)

\* Everybody who joined gets the answer; an error sends readers to what is
\* held, and the refresh on to its next name.
Land(n, ans) ==
    /\ trip' = [trip EXCEPT ![n] = NoTrip]
    /\ read' = [r \in SecReader |->
          IF read[r].at = "wait" /\ read[r].name = n
          THEN IF ans.kind = "error" THEN [read[r] EXCEPT !.at = "fallback"]
                                     ELSE [read[r] EXCEPT !.at = "done", !.ans = ans]
          ELSE read[r]]
    /\ refresher' = IF refresher.at = "wait" /\ refresher.name = n
                    THEN [refresher EXCEPT !.at = "sweep", !.name = NoSecret] ELSE refresher

TripLooks(n) ==
    /\ trip[n].at = "look"
    /\ IF Fresh(n)
       THEN Land(n, Holding(n))
       ELSE trip' = [trip EXCEPT ![n].at = "fetch"] /\ UNCHANGED <<read, refresher>>
    /\ UNCHANGED <<backend, held, lapsed, stopped, sourceShut, hooks,
                   started, heard, known, least>>

\* The wrapped source answers, or fails: it is unreachable or closed, or the
\* context of a refresh's flight was cancelled.
BackendAnswers(n, fails) ==
    /\ trip[n].at = "fetch"
    /\ trip' = [trip EXCEPT ![n].at = "apply", ![n].ans =
          [kind |-> IF fails THEN "error" ELSE IF backend[n].there THEN "value" ELSE "absent",
           ver |-> backend[n].ver]]
    /\ UNCHANGED <<backend, held, lapsed, read, refresher, stopped, sourceShut,
                   hooks, started, heard, known, least>>

\* Variant of FetchApplies: an absent secret is an error like any other.
AppliesKeepingAbsent(n) ==
    /\ trip[n].at = "apply"
    /\ LET ans == trip[n].ans IN
       /\ held' = IF ans.kind = "value" THEN [held EXCEPT ![n] = ans.ver] ELSE held
       /\ lapsed' = IF ans.kind = "error" THEN lapsed ELSE lapsed \ {n}
       /\ known' = IF ans.kind = "error" THEN known ELSE [known EXCEPT ![n] = ans.ver]
    /\ trip' = [trip EXCEPT ![n].at = "tell", ![n].old = held[n]]
    /\ UNCHANGED <<backend, read, refresher, stopped, sourceShut, hooks, started, heard,
                   least>>

\* fetch, once it has the answer: store, or evict what is absent.
FetchApplies(n) ==
    /\ trip[n].at = "apply"
    /\ LET ans == trip[n].ans IN
       IF ans.kind = "error" THEN UNCHANGED <<held, lapsed, known>>
       ELSE /\ held' = [held EXCEPT ![n] = IF ans.kind = "value" THEN ans.ver ELSE 0]
            /\ lapsed' = lapsed \ {n}
            /\ known' = [known EXCEPT ![n] = ans.ver]
    /\ trip' = [trip EXCEPT ![n].at = "tell", ![n].old = held[n]]
    /\ UNCHANGED <<backend, read, refresher, stopped, sourceShut, hooks, started, heard,
                   least>>

\* notify: one goroutine for each hook registered now.
Told(n, from) == {<<p[1], n, from, trip[n].ans.ver>> : p \in {q \in hooks : q[2] = n}}
Notify(told) == started' = [p \in Report |-> started[p] + IF p \in told THEN 1 ELSE 0]

\* Variant of FetchTells: whether there was an entry to replace is not asked.
TellsFirstValue(n) ==
    /\ trip[n].at = "tell"
    /\ LET ans == trip[n].ans IN
       Notify(IF ans.kind = "value" /\ trip[n].old # ans.ver THEN Told(n, trip[n].old) ELSE {})
    /\ Land(n, trip[n].ans)
    /\ UNCHANGED <<backend, held, lapsed, stopped, sourceShut, hooks, heard, known, least>>

\* A change of a held value is told, then the flight lands.
FetchTells(n) ==
    /\ trip[n].at = "tell"
    /\ LET ans == trip[n].ans IN
       Notify(IF ans.kind = "value" /\ trip[n].old \notin {0, ans.ver}
              THEN Told(n, trip[n].old) ELSE {})
    /\ Land(n, trip[n].ans)
    /\ UNCHANGED <<backend, held, lapsed, stopped, sourceShut, hooks, heard, known, least>>

\* Such a goroutine calls its hook, whenever it comes to run.
HookRuns(p) ==
    /\ started[p] > 0
    /\ started' = [started EXCEPT ![p] = @ - 1] /\ heard' = [heard EXCEPT ![p] = @ + 1]
    /\ UNCHANGED <<backend, held, lapsed, trip, read, refresher, stopped, sourceShut,
                   hooks, known, least>>

-----------------------------------------------------------------------------
(* The refresh, the hooks and Close.                                       *)

\* Sleep returned nil: the held names are the ones to refresh.
Wakes ==
    /\ refresher.at = "asleep"
    /\ refresher' = [refresher EXCEPT !.at = "sweep", !.todo = {n \in Secret : held[n] # 0}]
    /\ UNCHANGED <<backend, held, lapsed, trip, read, stopped, sourceShut,
                   hooks, started, heard, known, least>>

\* Through the flight there is, or one that goes straight to the backend.
Refreshes(n) ==
    /\ refresher.at = "sweep" /\ n \in refresher.todo /\ ~stopped
    /\ refresher' = [at |-> "wait", todo |-> refresher.todo \ {n}, name |-> n]
    /\ trip' = [trip EXCEPT ![n] = IF @.at = "none" THEN [NoTrip EXCEPT !.at = "fetch"] ELSE @]
    /\ UNCHANGED <<backend, held, lapsed, read, stopped, sourceShut, hooks,
                   started, heard, known, least>>

\* The sweep is done, or its context is: join returns though the flight goes
\* on, and the loop ends at the next check of the context.
RefreshRests ==
    /\ \/ refresher.at = "sweep" /\ (refresher.todo = {} \/ stopped)
       \/ refresher.at = "wait" /\ stopped
    /\ refresher' = [at |-> "asleep", todo |-> {}, name |-> NoSecret]
    /\ UNCHANGED <<backend, held, lapsed, trip, read, stopped, sourceShut,
                   hooks, started, heard, known, least>>

RefreshExits ==
    /\ refresher.at = "asleep" /\ stopped
    /\ refresher' = [refresher EXCEPT !.at = "exited"]
    /\ UNCHANGED <<backend, held, lapsed, trip, read, stopped, sourceShut,
                   hooks, started, heard, known, least>>

\* Close: stopRefresh, then <-refreshDone, then the wrapped source.
CloseStops ==
    /\ ~stopped /\ stopped' = TRUE
    /\ UNCHANGED <<backend, held, lapsed, trip, read, refresher, sourceShut,
                   hooks, started, heard, known, least>>

CloseShuts ==
    /\ stopped /\ refresher.at = "exited" /\ ~sourceShut
    /\ sourceShut' = TRUE
    /\ UNCHANGED <<backend, held, lapsed, trip, read, refresher, stopped,
                   hooks, started, heard, known, least>>

OnChange(h, n) ==
    /\ hooks' = IF <<h, n>> \in hooks THEN hooks \ {<<h, n>>} ELSE hooks \cup {<<h, n>>}
    /\ UNCHANGED <<backend, held, lapsed, trip, read, refresher, stopped, sourceShut,
                   started, heard, known, least>>

-----------------------------------------------------------------------------
TripStep(n) == TripLooks(n) \/ FetchApplies(n) \/ FetchTells(n)

SecretNext ==
    \/ \E n \in Secret, b \in BOOLEAN : BackendChanges(n, b) \/ BackendAnswers(n, b)
    \/ \E n \in Secret : Lapse(n) \/ TripStep(n) \/ Refreshes(n)
    \/ \E r \in SecReader : Resolve(r) \/ GivesUp(r) \/ FallsBack(r) \/ Returns(r)
    \/ \E r \in SecReader, n \in Secret : GetSecret(r, n)
    \/ \E h \in SecHook, n \in Secret : OnChange(h, n)
    \/ \E p \in Report : HookRuns(p)
    \/ Wakes \/ RefreshRests \/ RefreshExits \/ CloseStops \/ CloseShuts

SecretSpec == SecretInit /\ [][SecretNext]_secretVars

-----------------------------------------------------------------------------
(* GetSecret never answers with a value older than the newest answer the   *)
(* source had applied when the call began: a rotation once seen is not     *)
(* unseen, by a late flight, a failed fetch or a caller that gave up, and  *)
(* a secret once seen deleted is not served again.                         *)
AnswerNeverOlder ==
    \A r \in SecReader :
      read[r].at = "done" /\ read[r].ans.kind = "value" => read[r].ans.ver >= least[r]

(* The rotations a hook hears of never overlap: no change is reported      *)
(* twice ("two fetches racing on a name cannot both report the same        *)
(* change", caching.go), none from a value that another report says was    *)
(* replaced before, whoever fetched it, whatever was evicted in between    *)
(* and in whatever order the goroutines of notify come to run.             *)
RotationsFollow ==
    \A p, q \in {x \in Report : heard[x] > 0} :
      /\ heard[p] = 1
      /\ p[1] = q[1] /\ p[2] = q[2] /\ p # q => p[4] <= q[3] \/ q[4] <= p[3]
=============================================================================
