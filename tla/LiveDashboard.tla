--------------------------- MODULE LiveDashboard ---------------------------
(***************************************************************************)
(* The threads of the live RL dashboard, LiveDashboardHTTPServer of        *)
(* scripts/screeps_rl_live_dashboard.py. Refreshers (the startup thread,   *)
(* the auto-refresh loop, a POST /refresh) ingest artifacts into SQLite    *)
(* and then prime the cached summary; requests read the cache or build a   *)
(* summary of their own. refresh_lock is held across steps and is modelled *)
(* as such; what is done under refresh_state_lock or summary_lock is one   *)
(* step, for nothing else is done while one of them is held.               *)
(*                                                                         *)
(* The service is the standard one: it refreshes itself, and it caches     *)
(* summaries for a while. The content of the database is the number of     *)
(* the refresh that changed it last; lastRefreshAt is the number of the    *)
(* refresh. Only the server writes the database.                           *)
(***************************************************************************)
EXTENDS Naturals, FiniteSets

CONSTANTS
  Refreshers,  \* threads that run run_refresh_cycle, one cycle after the other
  Requests,    \* threads that answer one GET each
  MaxCycles,   \* bound: refresh cycles of all refreshers
  None

ASSUME DashboardAssumption ==
  /\ Refreshers \cap Requests = {}
  /\ MaxCycles \in Nat
  /\ None \notin [db : 0 .. MaxCycles, at : 0 .. MaxCycles, ok : BOOLEAN, busy : BOOLEAN]
  /\ None \notin Nat \cup Refreshers \cup Requests

VARIABLES
  cycles,      \* refresh cycles started
  db,          \* the refresh that last changed the database
  written,     \* refresh -> what the database held when it was over
  lock,        \* refresh_lock: the thread that holds it, or None
  state,       \* refresh_state: [at, ok, busy], the last refresh and whether
               \* one is in progress
  token,       \* active_refresh_token
  cache,       \* summary_cache, or None
  fresh,       \* whether the cache is within its time to live
  generation,  \* summary_cache_generation
  pc,          \* where each thread is
  \* local variables of the threads
  mine,        \* refresher -> refresh_token
  ok,          \* refresher -> previous_refresh_ok, whether the refresh
               \* succeeded, summary_primed
  health,      \* request -> whether it reads the database for /healthz
  gen,         \* thread -> cache_generation
  seen,        \* thread -> a copy of refresh_state
  own,         \* thread -> the summary it builds, or None
  \* history
  settled,     \* the last refresh that was followed to its end
  asked,       \* request -> settled when it came in
  answer       \* request -> the summary it was answered with, or None

stored == <<cycles, db, written>>
flag == <<state, token>>
cached == <<cache, fresh, generation>>
locals == <<mine, ok, health, gen, seen, own>>
ghosts == <<settled, asked, answer>>
vars == <<stored, lock, flag, cached, pc, locals, ghosts>>

Threads == Refreshers \cup Requests
Numbers == 0 .. MaxCycles
RefreshState == [at : Numbers, ok : BOOLEAN, busy : BOOLEAN]

\* The data shown with the refresh state shown: summary_with_refresh.
Summary == [db : Numbers, at : Numbers, ok : BOOLEAN, busy : BOOLEAN]
WithRefresh(data, st) == [db |-> data, at |-> st.at, ok |-> st.ok, busy |-> st.busy]

\* A refresh cycle, with its lock held; the preparation of the summary, by a
\* cycle or by a request; the end of a cycle.
Locked == {"mark", "preserve", "ingest", "record", "invalidate", "release"}
Building == {"lookup", "try", "retry", "block", "read", "store"}
Ending == {"finish", "settle"}
Phases == {"idle", "snapshot", "health", "cached", "over"}
            \cup Locked \cup Building \cup Ending

NoRefresh == [at |-> 0, ok |-> FALSE, busy |-> FALSE]

Init ==
  /\ cycles = 0 /\ db = 0 /\ written = [n \in Numbers |-> 0]
  /\ lock = None
  /\ state = NoRefresh /\ token = None
  /\ cache = None /\ fresh = FALSE /\ generation = 0
  /\ pc = [t \in Threads |-> "idle"]
  /\ mine = [t \in Refreshers |-> None]
  /\ ok = [t \in Refreshers |-> FALSE]
  /\ health = [r \in Requests |-> FALSE]
  /\ gen = [t \in Threads |-> 0]
  /\ seen = [t \in Threads |-> NoRefresh]
  /\ own = [t \in Threads |-> None]
  /\ settled = 0
  /\ asked = [r \in Requests |-> 0]
  /\ answer = [r \in Requests |-> None]

GoTo(t, phase) == pc' = [pc EXCEPT ![t] = phase]

\* The thread returns, and forgets its local variables.
Forget(t) ==
  /\ mine' = IF t \in Refreshers THEN [mine EXCEPT ![t] = None] ELSE mine
  /\ ok' = IF t \in Refreshers THEN [ok EXCEPT ![t] = FALSE] ELSE ok
  /\ health' = IF t \in Requests THEN [health EXCEPT ![t] = FALSE] ELSE health
  /\ gen' = [gen EXCEPT ![t] = 0]
  /\ seen' = [seen EXCEPT ![t] = NoRefresh]
  /\ own' = [own EXCEPT ![t] = None]

\* mutant: the end of the time to live is kept
InvalidateKeepsTime(preserve) ==
  /\ cache' = IF preserve THEN cache ELSE None
  /\ fresh' = fresh
  /\ generation' = generation + 1

\* invalidate_summary_cache
Invalidate(preserve) ==
  /\ cache' = IF preserve THEN cache ELSE None
  /\ fresh' = (preserve /\ fresh)
  /\ generation' = generation + 1
-----------------------------------------------------------------------------
\* run_refresh_cycle

Begin(t) ==
  /\ pc[t] = "idle"
  /\ cycles < MaxCycles
  /\ lock = None
  /\ lock' = t
  /\ cycles' = cycles + 1
  /\ GoTo(t, "mark")
  /\ UNCHANGED <<db, written, flag, cached, locals, ghosts>>

\* mark_refresh_started, under the state lock
MarkStarted(t) ==
  /\ pc[t] = "mark"
  /\ token' = cycles
  /\ state' = [at |-> state.at, ok |-> state.ok, busy |-> TRUE]
  /\ mine' = [mine EXCEPT ![t] = cycles]
  /\ ok' = [ok EXCEPT ![t] = state.ok]
  /\ GoTo(t, "preserve")
  /\ UNCHANGED <<stored, lock, cached, health, gen, seen, own, ghosts>>

\* ... and then under the summary lock: a usable summary survives the refresh
Preserve(t) ==
  /\ pc[t] = "preserve"
  /\ Invalidate(ok[t])
  /\ GoTo(t, "ingest")
  /\ UNCHANGED <<stored, lock, flag, locals, ghosts>>

\* refresh_metrics: a refresh that fails may have changed the database.
Ingest(t) ==
  /\ pc[t] = "ingest"
  /\ \E success \in BOOLEAN :
       /\ ok' = [ok EXCEPT ![t] = success]
       /\ db' \in IF success THEN {cycles} ELSE {db, cycles}
  /\ written' = [written EXCEPT ![cycles] = db']
  /\ GoTo(t, "record")
  /\ UNCHANGED <<cycles, lock, flag, cached, mine, health, gen, seen, own, ghosts>>

\* mutant: a refresh that failed stays in progress
RecordInProgress(t) ==
  /\ pc[t] = "record"
  /\ state' = [at |-> mine[t], ok |-> ok[t], busy |-> TRUE]
  /\ GoTo(t, "invalidate")
  /\ UNCHANGED <<stored, lock, token, cached, locals, ghosts>>

\* record_refresh, under the state lock: after a success the refresh stays in
\* progress until the summary is primed
Record(t) ==
  /\ pc[t] = "record"
  /\ state' = [at |-> mine[t], ok |-> ok[t], busy |-> ok[t]]
  /\ token' = IF ok[t] THEN token ELSE None
  /\ GoTo(t, "invalidate")
  /\ UNCHANGED <<stored, lock, cached, locals, ghosts>>

\* mutant: the summary survives a refresh that failed
InvalidateNothing(t) ==
  /\ pc[t] = "invalidate"
  /\ Invalidate(TRUE)
  /\ GoTo(t, "release")
  /\ UNCHANGED <<stored, lock, flag, locals, ghosts>>

\* ... and then under the summary lock
InvalidateRecorded(t) ==
  /\ pc[t] = "invalidate"
  /\ Invalidate(ok[t])
  /\ GoTo(t, "release")
  /\ UNCHANGED <<stored, lock, flag, locals, ghosts>>

\* The cycle leaves refresh_lock, and primes the summary if it succeeded.
Release(t) ==
  /\ pc[t] = "release"
  /\ lock' = None
  /\ \/ /\ ok[t]
        /\ ok' = [ok EXCEPT ![t] = FALSE]
        /\ GoTo(t, "lookup")
        /\ UNCHANGED <<mine, health, gen, seen, own, settled>>
     \/ /\ ~ok[t]
        /\ settled' = mine[t]
        /\ Forget(t)
        /\ GoTo(t, "idle")
  /\ UNCHANGED <<stored, flag, cached, asked, answer>>

\* mutant: any cycle clears the flag
FinishAny(t) ==
  /\ pc[t] = "finish"
  /\ state' = [at |-> state.at, ok |-> state.ok, busy |-> FALSE]
  /\ token' = None
  /\ seen' = [seen EXCEPT ![t] = state']
  /\ GoTo(t, "settle")
  /\ UNCHANGED <<stored, lock, cached, mine, ok, health, gen, own, ghosts>>

\* finish_refresh_progress, under the state lock: only the cycle that started
\* last ends the refresh.
Finish(t) ==
  /\ pc[t] = "finish"
  /\ \/ /\ token = mine[t]
        /\ state' = [at |-> state.at, ok |-> state.ok, busy |-> FALSE]
        /\ token' = None
        /\ seen' = [seen EXCEPT ![t] = state']
        /\ GoTo(t, "settle")
        /\ UNCHANGED <<mine, ok, health, gen, own>>
     \/ /\ token # mine[t]
        /\ Forget(t)
        /\ GoTo(t, "idle")
        /\ UNCHANGED flag
  /\ UNCHANGED <<stored, lock, cached, ghosts>>

\* ... and then under the summary lock, with the state seen before
Settle(t) ==
  /\ pc[t] = "settle"
  /\ \/ /\ ok[t] /\ cache # None
        /\ cache' = WithRefresh(cache.db, seen[t])
        /\ fresh' = TRUE
        /\ generation' = generation + 1
     \/ /\ ok[t] /\ cache = None
        /\ UNCHANGED cached
     \/ /\ ~ok[t]
        /\ Invalidate(FALSE)
  /\ settled' = mine[t]
  /\ Forget(t)
  /\ GoTo(t, "idle")
  /\ UNCHANGED <<stored, lock, flag, asked, answer>>
-----------------------------------------------------------------------------
\* Requests

Arrive(r) ==
  /\ pc[r] = "idle"
  /\ asked' = [asked EXCEPT ![r] = settled]
  /\ \E phase \in {"snapshot", "health"} : GoTo(r, phase)
  /\ UNCHANGED <<stored, lock, flag, cached, locals, settled, answer>>

Answer(r, summary) ==
  /\ answer' = [answer EXCEPT ![r] = summary]
  /\ Forget(r)
  /\ GoTo(r, "over")
  /\ UNCHANGED <<settled, asked>>

\* summary_snapshot: while a refresh is in progress the cache answers.
Snapshot(r) ==
  /\ pc[r] = "snapshot"
  /\ seen' = [seen EXCEPT ![r] = state]
  /\ GoTo(r, IF state.busy THEN "cached" ELSE "lookup")
  /\ UNCHANGED <<stored, lock, flag, cached, mine, ok, health, gen, own, ghosts>>

\* cached_summary_for_refresh, else build_refreshing_summary, without data
Cached(r) ==
  /\ pc[r] = "cached"
  /\ Answer(r, IF cache # None /\ cache.ok THEN WithRefresh(cache.db, seen[r]) ELSE None)
  /\ UNCHANGED <<stored, lock, flag, cached>>

\* do_GET for /healthz: while a refresh is in progress it asks for the summary,
\* else it reads the database itself.
Health(r) ==
  /\ pc[r] = "health"
  /\ health' = [health EXCEPT ![r] = ~state.busy]
  /\ GoTo(r, IF state.busy THEN "snapshot" ELSE "try")
  /\ UNCHANGED <<stored, lock, flag, cached, mine, ok, gen, seen, own, ghosts>>

\* A request may answer from the cache; a cycle that primes it does not look.
Hit(t) == t \in Requests /\ cache # None /\ fresh

\* summary_snapshot, under the summary lock
Lookup(t) ==
  /\ pc[t] = "lookup"
  /\ \/ Hit(t) /\ Answer(t, cache)
     \/ /\ ~Hit(t)
        /\ gen' = [gen EXCEPT ![t] = generation]
        /\ GoTo(t, "try")
        /\ UNCHANGED <<mine, ok, health, seen, own, ghosts>>
  /\ UNCHANGED <<stored, lock, flag, cached>>

\* mutant: whether the lock was acquired is not tested
TryLockUntested(t) ==
  /\ pc[t] = "try"
  /\ lock' = IF lock = None THEN t ELSE lock
  /\ GoTo(t, "read")
  /\ UNCHANGED <<stored, flag, cached, locals, ghosts>>

\* refresh_lock.acquire(blocking=False)
TryLock(t) ==
  /\ pc[t] = "try"
  /\ \/ lock = None /\ lock' = t /\ GoTo(t, "read")
     \/ lock # None /\ GoTo(t, "retry") /\ UNCHANGED lock
  /\ UNCHANGED <<stored, flag, cached, locals, ghosts>>

\* The lock is taken: a refresh may have started, and the cache answers.
Retry(t) ==
  /\ pc[t] = "retry"
  /\ \/ /\ t \in Requests /\ state.busy
        /\ seen' = [seen EXCEPT ![t] = state]
        /\ health' = [health EXCEPT ![t] = FALSE]
        /\ GoTo(t, IF health[t] THEN "snapshot" ELSE "cached")
     \/ /\ ~(t \in Requests /\ state.busy)
        /\ GoTo(t, "block")
        /\ UNCHANGED <<seen, health>>
  /\ UNCHANGED <<stored, lock, flag, cached, mine, ok, gen, own, ghosts>>

Block(t) ==
  /\ pc[t] = "block"
  /\ lock = None
  /\ lock' = t
  /\ GoTo(t, "read")
  /\ UNCHANGED <<stored, flag, cached, locals, ghosts>>

\* sqlite_summary and the refresh state, under refresh_lock
Read(t) ==
  /\ pc[t] = "read"
  /\ lock' = None
  /\ \/ t \in Requests /\ health[t] /\ Answer(t, WithRefresh(db, state))
     \/ /\ ~(t \in Requests /\ health[t])
        /\ own' = [own EXCEPT ![t] = WithRefresh(db, state)]
        /\ GoTo(t, "store")
        /\ UNCHANGED <<mine, ok, health, gen, seen, ghosts>>
  /\ UNCHANGED <<stored, flag, cached>>

\* What follows a summary: a request is answered, a cycle ends.
Built(t, summary, success) ==
  \/ t \in Requests /\ Answer(t, summary)
  \/ /\ t \in Refreshers
     /\ ok' = [ok EXCEPT ![t] = success]
     /\ own' = [own EXCEPT ![t] = None]
     /\ GoTo(t, "finish")
     /\ UNCHANGED <<mine, health, gen, seen, ghosts>>

\* mutant: the summary is stored whatever happened since the lookup
StoreAlways(t) ==
  /\ pc[t] = "store"
  /\ cache' = own[t]
  /\ fresh' = TRUE
  /\ Built(t, own[t], TRUE)
  /\ UNCHANGED <<stored, lock, flag, generation>>

\* The summary is built, then stored under the summary lock unless the cache
\* was invalidated since the lookup.
Store(t) ==
  /\ pc[t] = "store"
  /\ \/ Hit(t) /\ Built(t, cache, TRUE) /\ UNCHANGED cached
     \/ /\ ~Hit(t) /\ generation = gen[t]
        /\ Built(t, own[t], TRUE)
        /\ cache' = own[t] /\ fresh' = TRUE
        /\ UNCHANGED generation
     \/ /\ ~Hit(t) /\ generation # gen[t]
        /\ Built(t, own[t], TRUE)
        /\ UNCHANGED cached
  /\ UNCHANGED <<stored, lock, flag>>

\* build_live_summary raises: an artifact is unreadable.
BuildFails(t) ==
  /\ pc[t] = "store"
  /\ Built(t, None, FALSE)
  /\ UNCHANGED <<stored, lock, flag, cached>>

\* The time to live of the cache is over.
Expire ==
  /\ fresh
  /\ fresh' = FALSE
  /\ UNCHANGED <<stored, lock, flag, cache, generation, pc, locals, ghosts>>
-----------------------------------------------------------------------------
Prepare(t) ==
  Lookup(t) \/ TryLock(t) \/ Retry(t) \/ Block(t) \/ Read(t) \/ Store(t) \/ BuildFails(t)

Cycle(t) ==
  \/ MarkStarted(t) \/ Preserve(t) \/ Ingest(t) \/ Record(t) \/ InvalidateRecorded(t)
  \/ Release(t) \/ Finish(t) \/ Settle(t) \/ Prepare(t)

Serve(r) == Snapshot(r) \/ Cached(r) \/ Health(r) \/ Prepare(r)

AllOver ==
  /\ cycles = MaxCycles /\ \A t \in Refreshers : pc[t] = "idle"
  /\ \A r \in Requests : pc[r] = "over"
  /\ UNCHANGED vars

Next ==
  \/ \E t \in Refreshers : Begin(t) \/ Cycle(t)
  \/ \E r \in Requests : Arrive(r) \/ Serve(r)
  \/ Expire
  \/ AllOver

Spec == Init /\ [][Next]_vars

\* Every thread that has something to do is scheduled; nobody has to ask.
FairSpec ==
  /\ Spec
  /\ \A t \in Refreshers : WF_vars(Cycle(t))
  /\ \A r \in Requests : WF_vars(Serve(r))
-----------------------------------------------------------------------------
\* Safety

\* The state is well typed.
TypeOK ==
  /\ cycles \in Numbers /\ db \in Numbers
  /\ written \in [Numbers -> Numbers]
  /\ lock \in Threads \cup {None}
  /\ state \in RefreshState
  /\ token \in Numbers \cup {None}
  /\ cache \in Summary \cup {None}
  /\ fresh \in BOOLEAN /\ (fresh => cache # None)
  /\ generation \in Nat
  /\ pc \in [Threads -> Phases]
  /\ mine \in [Refreshers -> Numbers \cup {None}]
  /\ ok \in [Refreshers -> BOOLEAN]
  /\ health \in [Requests -> BOOLEAN]
  /\ gen \in [Threads -> Nat]
  /\ seen \in [Threads -> RefreshState]
  /\ own \in [Threads -> Summary \cup {None}]
  /\ settled \in Numbers
  /\ asked \in [Requests -> Numbers]
  /\ answer \in [Requests -> Summary \cup {None}]

\* The database is not read while it is written: whoever reads it holds
\* refresh_lock, and so does the refresh that writes it.
ReadsAreExclusive ==
  \A t, u \in Threads : pc[t] = "read" /\ pc[u] \in Locked \cup {"read"} => t = u

\* The in-progress flag belongs to a cycle under way, the one that will clear
\* it: a flag that nobody clears would have every request answered from the
\* old summary for good.
FlagIsOwned ==
  /\ state.busy <=> token # None
  /\ state.busy => \E t \in Refreshers :
       /\ mine[t] = token
       /\ pc[t] \in Building \cup (Locked \ {"mark"}) \cup {"finish"}

\* An answer is at least as recent as the last refresh that ended before the
\* request came in: its data, and the refresh it claims to know of.
AnswersAreFresh ==
  \A r \in Requests : answer[r] # None =>
    /\ answer[r].db >= written[asked[r]]
    /\ answer[r].at >= asked[r]

\* A summary that does not say a refresh is in progress holds the data of the
\* refresh it names (docs/ops/rl-live-dashboard-runbook.md: the last usable
\* summary is preserved only while a refresh is in progress, and each successful
\* refresh rebuilds a fresh one).
StampsAreHonest ==
  /\ \A r \in Requests : answer[r] # None /\ ~answer[r].busy
       => answer[r].db >= written[answer[r].at]
  /\ cache # None /\ ~cache.busy => cache.db >= written[cache.at]
-----------------------------------------------------------------------------
\* Liveness

\* A refresh does not stay in progress.
ProgressEnds == state.busy ~> ~state.busy
=============================================================================
