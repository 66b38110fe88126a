------------------------ MODULE LiveDashboard_proofs ------------------------
(***************************************************************************)
(* Proofs about the live dashboard, for any number of refresh cycles and   *)
(* of requests. With any number of refreshers: the types, that the         *)
(* database is not read while it is written, and that the in-progress flag *)
(* belongs to a cycle under way. With one refresher: that answers are as   *)
(* recent as the last refresh before the question, and say of which they   *)
(* are.                                                                    *)
(***************************************************************************)
EXTENDS LiveDashboard, TLAPS

\* Which phases the two kinds of threads have.
PhaseInv ==
  /\ \A t \in Refreshers : pc[t] \in {"idle"} \cup Locked \cup Building \cup Ending
  /\ \A r \in Requests :
       pc[r] \in {"idle", "snapshot", "health", "cached", "over"} \cup Building

\* A refresher has a token once it is marked; what is stored was built.
LocalsInv ==
  /\ \A t \in Refreshers : mine[t] # None <=> pc[t] \notin {"idle", "mark"}
  /\ \A t \in Threads : pc[t] = "store" => own[t] # None

TInv == TypeOK /\ PhaseInv /\ LocalsInv

-----------------------------------------------------------------------------
(* Types *)

LEMMA NumbersAreNatural == Numbers \subseteq Nat /\ 0 \in Numbers
BY DashboardAssumption DEF Numbers

LEMMA Distinct ==
  /\ None \notin Summary /\ None \notin Numbers /\ None \notin Threads
  /\ Refreshers \cap Requests = {}
BY DashboardAssumption, NumbersAreNatural DEF Summary, Numbers, Threads

LEMMA InitTypes == Init => TInv
<1> SUFFICES ASSUME Init PROVE TInv OBVIOUS
<1> USE NumbersAreNatural, Distinct DEF Init
<1>1. TypeOK BY DEF TypeOK, NoRefresh, RefreshState, Phases
<1>2. PhaseInv BY DEF PhaseInv, Threads
<1>3. LocalsInv BY DEF LocalsInv, Threads
<1> QED BY <1>1, <1>2, <1>3 DEF TInv

LEMMA StampType ==
  ASSUME NEW d \in Numbers, NEW st \in RefreshState
  PROVE  WithRefresh(d, st) \in Summary
BY DEF WithRefresh, RefreshState, Summary

LEMMA ForgetTypes ==
  ASSUME TypeOK, NEW t \in Threads, Forget(t)
  PROVE  /\ mine' \in [Refreshers -> Numbers \cup {None}]
         /\ ok' \in [Refreshers -> BOOLEAN]
         /\ health' \in [Requests -> BOOLEAN]
         /\ gen' \in [Threads -> Nat]
         /\ seen' \in [Threads -> RefreshState]
         /\ own' \in [Threads -> Summary \cup {None}]
<1> USE NumbersAreNatural DEF TypeOK, Forget
<1>1. NoRefresh \in RefreshState BY DEF NoRefresh, RefreshState
<1> QED BY <1>1

LEMMA InvalidateTypes ==
  ASSUME TypeOK, NEW preserve \in BOOLEAN, Invalidate(preserve)
  PROVE  /\ cache' \in Summary \cup {None}
         /\ fresh' \in BOOLEAN /\ (fresh' => cache' # None)
         /\ generation' \in Nat
BY DEF TypeOK, Invalidate

\* A step that moves thread t to phase p.
LEMMA MoveTypes ==
  ASSUME TInv, TypeOK', NEW t \in Threads, NEW p, GoTo(t, p),
         t \in Refreshers => p \in {"idle"} \cup Locked \cup Building \cup Ending,
         t \in Requests =>
           p \in {"idle", "snapshot", "health", "cached", "over"} \cup Building,
         \A u \in Refreshers \ {t} : mine'[u] = mine[u],
         \A u \in Threads \ {t} : own'[u] = own[u],
         t \in Refreshers => (mine'[t] # None <=> p \notin {"idle", "mark"}),
         p = "store" => own'[t] # None
  PROVE  TInv'
<1> USE DEF TInv, TypeOK, GoTo
<1>1. PhaseInv' BY DEF PhaseInv, Threads
<1>2. LocalsInv' BY DEF LocalsInv, Threads
<1> QED BY <1>1, <1>2

LEMMA PhaseTypes ==
  ASSUME TypeOK, NEW t \in Threads, NEW p \in Phases, GoTo(t, p)
  PROVE  pc' \in [Threads -> Phases]
BY DEF TypeOK, GoTo

LEMMA BeginTypes == ASSUME TInv, NEW t \in Refreshers, Begin(t) PROVE TInv'
<1>1. t \in Threads BY DEF Threads
<1>2. GoTo(t, "mark") /\ UNCHANGED <<mine, own>> BY DEF Begin, locals
<1>3. TypeOK'
  <2> USE DEF TInv, TypeOK, Begin
  <2>1. cycles' \in Numbers BY DashboardAssumption DEF Numbers
  <2>2. pc' \in [Threads -> Phases] BY <1>1, <1>2, PhaseTypes DEF Phases, Locked
  <2> QED BY <1>1, <2>1, <2>2 DEF flag, cached, locals, ghosts
<1>4. mine[t] = None BY DEF TInv, LocalsInv, Begin
<1> QED BY <1>1, <1>2, <1>3, <1>4, MoveTypes, Distinct DEF Locked, Threads

LEMMA MarkTypes == ASSUME TInv, NEW t \in Refreshers, MarkStarted(t) PROVE TInv'
<1>1. t \in Threads BY DEF Threads
<1>2. GoTo(t, "preserve") /\ mine' = [mine EXCEPT ![t] = cycles] /\ UNCHANGED own
  BY DEF MarkStarted
<1>3. TypeOK'
  <2> USE DEF TInv, TypeOK, MarkStarted
  <2>1. state' \in RefreshState /\ state.ok \in BOOLEAN BY DEF RefreshState
  <2>2. pc' \in [Threads -> Phases] BY <1>1, <1>2, PhaseTypes DEF Phases, Locked
  <2> QED BY <2>1, <2>2 DEF stored, cached, ghosts
<1>4. mine'[t] = cycles /\ cycles # None BY <1>2, Distinct DEF TInv, TypeOK
<1>5. \A u \in Refreshers \ {t} : mine'[u] = mine[u] BY <1>2 DEF TInv, TypeOK
<1> QED BY <1>1, <1>2, <1>3, <1>4, <1>5, MoveTypes, Distinct DEF Locked, Threads

LEMMA PreserveTypes ==
  ASSUME TInv, NEW t \in Refreshers, Preserve(t) \/ InvalidateRecorded(t)
  PROVE  TInv'
<1>1. t \in Threads BY DEF Threads
<1>2. PICK p \in {"ingest", "release"} : GoTo(t, p)
  BY DEF Preserve, InvalidateRecorded
<1>3. UNCHANGED <<stored, lock, flag, locals, ghosts>> /\ Invalidate(ok[t])
  BY DEF Preserve, InvalidateRecorded
<1>4. pc[t] \in {"preserve", "invalidate"} BY DEF Preserve, InvalidateRecorded
<1>5. TypeOK'
  <2>1. ok[t] \in BOOLEAN BY DEF TInv, TypeOK
  <2>2. pc' \in [Threads -> Phases] BY <1>1, <1>2, PhaseTypes DEF TInv, Phases, Locked
  <2>3. /\ cache' \in Summary \cup {None}
        /\ fresh' \in BOOLEAN /\ (fresh' => cache' # None)
        /\ generation' \in Nat
    BY <1>3, <2>1, InvalidateTypes DEF TInv
  <2> QED BY <1>3, <2>2, <2>3 DEF TInv, TypeOK, stored, flag, locals, ghosts
<1>6. mine[t] # None BY <1>4 DEF TInv, LocalsInv
<1>7. UNCHANGED <<mine, own>> BY <1>3 DEF locals
<1> QED BY <1>1, <1>2, <1>5, <1>6, <1>7, MoveTypes, Distinct DEF Locked, Threads

LEMMA IngestTypes == ASSUME TInv, NEW t \in Refreshers, Ingest(t) PROVE TInv'
<1>1. t \in Threads BY DEF Threads
<1>2. GoTo(t, "record") /\ UNCHANGED <<mine, own>> BY DEF Ingest
<1>3. TypeOK'
  <2> USE DEF TInv, TypeOK, Ingest
  <2>1. pc' \in [Threads -> Phases] BY <1>1, <1>2, PhaseTypes DEF Phases, Locked
  <2>2. db' \in Numbers /\ ok' \in [Refreshers -> BOOLEAN] OBVIOUS
  <2>3. written' \in [Numbers -> Numbers] BY <2>2
  <2> QED BY <2>1, <2>2, <2>3 DEF flag, cached, ghosts
<1>4. mine[t] # None BY DEF TInv, LocalsInv, Ingest
<1> QED BY <1>1, <1>2, <1>3, <1>4, MoveTypes, Distinct DEF Locked, Threads

LEMMA RecordTypes == ASSUME TInv, NEW t \in Refreshers, Record(t) PROVE TInv'
<1>1. t \in Threads BY DEF Threads
<1>2. GoTo(t, "invalidate") /\ UNCHANGED <<mine, own>> BY DEF Record, locals
<1>3. mine[t] # None BY DEF TInv, LocalsInv, Record
<1>4. TypeOK'
  <2> USE DEF TInv, TypeOK, Record
  <2>1. pc' \in [Threads -> Phases] BY <1>1, <1>2, PhaseTypes DEF Phases, Locked
  <2>2. mine[t] \in Numbers /\ ok[t] \in BOOLEAN BY <1>3
  <2>3. state' \in RefreshState BY <2>2 DEF RefreshState
  <2> QED BY <2>1, <2>3 DEF stored, cached, locals, ghosts
<1> QED BY <1>1, <1>2, <1>3, <1>4, MoveTypes, Distinct DEF Locked, Threads

\* A cycle that returns.
LEMMA IdleTypes ==
  ASSUME TInv, NEW t \in Refreshers, Forget(t), GoTo(t, "idle"), UNCHANGED <<stored, flag>>,
         lock' \in Threads \cup {None}, settled' \in Numbers, UNCHANGED <<asked, answer>>,
         cache' \in Summary \cup {None}, fresh' \in BOOLEAN, fresh' => cache' # None,
         generation' \in Nat
  PROVE  TInv'
<1>1. t \in Threads BY DEF Threads
<1>2. TypeOK'
  <2>1. pc' \in [Threads -> Phases] BY <1>1, PhaseTypes DEF TInv, Phases
  <2> QED BY <1>1, <2>1, ForgetTypes DEF TInv, TypeOK, stored, flag
<1>3. /\ \A u \in Refreshers \ {t} : mine'[u] = mine[u]
      /\ \A u \in Threads \ {t} : own'[u] = own[u]
      /\ mine'[t] = None
  BY DEF Forget, TInv, TypeOK
<1> QED BY <1>1, <1>2, <1>3, MoveTypes, Distinct

LEMMA ReleaseTypes == ASSUME TInv, NEW t \in Refreshers, Release(t) PROVE TInv'
<1>1. t \in Threads BY DEF Threads
<1>2. mine[t] # None BY DEF TInv, LocalsInv, Release
<1>3. CASE ~ok[t]
  <2>1. mine[t] \in Numbers BY <1>2 DEF TInv, TypeOK
  <2> QED BY <1>3, <2>1, IdleTypes DEF Release, cached, TInv, TypeOK
<1>4. CASE ok[t]
  <2>1. GoTo(t, "lookup") /\ UNCHANGED <<mine, own>> BY <1>4 DEF Release
  <2>2. TypeOK'
    <3> USE <1>4 DEF TInv, TypeOK, Release
    <3>1. pc' \in [Threads -> Phases] BY <1>1, <2>1, PhaseTypes DEF Phases, Building
    <3> QED BY <3>1 DEF stored, flag, cached
  <2> QED BY <1>1, <1>2, <2>1, <2>2, MoveTypes, Distinct DEF Building
<1> QED BY <1>3, <1>4

LEMMA FinishTypes == ASSUME TInv, NEW t \in Refreshers, Finish(t) PROVE TInv'
<1>1. t \in Threads BY DEF Threads
<1>2. mine[t] # None BY DEF TInv, LocalsInv, Finish
<1>3. CASE token # mine[t]
  BY <1>3, IdleTypes DEF Finish, cached, ghosts, TInv, TypeOK
<1>4. CASE token = mine[t]
  <2>1. GoTo(t, "settle") /\ UNCHANGED <<mine, own>> BY <1>4 DEF Finish
  <2>2. TypeOK'
    <3> USE <1>4 DEF TInv, TypeOK, Finish
    <3>1. pc' \in [Threads -> Phases] BY <1>1, <2>1, PhaseTypes DEF Phases, Ending
    <3>2. state' = [at |-> state.at, ok |-> state.ok, busy |-> FALSE] OBVIOUS
    <3>3. state' \in RefreshState BY <3>2 DEF RefreshState
    <3> QED BY <1>1, <3>1, <3>3 DEF stored, cached, ghosts
  <2> QED BY <1>1, <1>2, <2>1, <2>2, MoveTypes, Distinct DEF Ending
<1> QED BY <1>3, <1>4

LEMMA SettleTypes == ASSUME TInv, NEW t \in Refreshers, Settle(t) PROVE TInv'
<1>1. mine[t] # None BY DEF TInv, LocalsInv, Settle
<1>2. settled' \in Numbers BY <1>1 DEF Settle, TInv, TypeOK
<1>3. /\ cache' \in Summary \cup {None}
      /\ fresh' \in BOOLEAN /\ (fresh' => cache' # None)
      /\ generation' \in Nat
  <2> USE DEF TInv, Settle
  <2>1. CASE ok[t] /\ cache # None
    <3>1. cache.db \in Numbers /\ seen[t] \in RefreshState
      BY <2>1 DEF TypeOK, Summary, Threads
    <3>2. WithRefresh(cache.db, seen[t]) \in Summary BY <3>1, StampType
    <3>3. cache' = WithRefresh(cache.db, seen[t]) /\ fresh' = TRUE
             /\ generation' = generation + 1
      BY <2>1
    <3> QED BY <3>2, <3>3, Distinct DEF TypeOK
  <2>2. CASE ok[t] /\ cache = None BY <2>2 DEF cached, TypeOK
  <2>3. CASE ~ok[t] BY <2>3, InvalidateTypes
  <2> QED BY <2>1, <2>2, <2>3
<1> QED BY <1>2, <1>3, IdleTypes DEF Settle, TInv, TypeOK

\* A request that is answered.
LEMMA AnswerTypes ==
  ASSUME TInv, NEW r \in Requests, NEW a \in Summary \cup {None}, Answer(r, a),
         UNCHANGED <<stored, flag, cached>>, lock' \in Threads \cup {None}
  PROVE  TInv'
<1>1. r \in Threads BY DEF Threads
<1>2. GoTo(r, "over") BY DEF Answer
<1>3. TypeOK'
  <2>1. pc' \in [Threads -> Phases] BY <1>1, <1>2, PhaseTypes DEF TInv, Phases
  <2>2. answer' \in [Requests -> Summary \cup {None}] BY DEF TInv, TypeOK, Answer
  <2> QED BY <1>1, <2>1, <2>2, ForgetTypes DEF TInv, TypeOK, Answer, stored, flag, cached
<1>4. /\ \A u \in Refreshers \ {r} : mine'[u] = mine[u]
      /\ \A u \in Threads \ {r} : own'[u] = own[u]
  BY Distinct DEF Answer, Forget, TInv, TypeOK
<1> QED BY <1>1, <1>2, <1>3, <1>4, MoveTypes, Distinct

LEMMA ArriveTypes == ASSUME TInv, NEW r \in Requests, Arrive(r) PROVE TInv'
<1>1. r \in Threads BY DEF Threads
<1>2. PICK p \in {"snapshot", "health"} : GoTo(r, p) BY DEF Arrive
<1>3. UNCHANGED <<mine, own>> BY DEF Arrive, locals
<1>4. TypeOK'
  <2>1. pc' \in [Threads -> Phases] BY <1>1, <1>2, PhaseTypes DEF TInv, Phases
  <2> QED BY <2>1 DEF TInv, TypeOK, Arrive, stored, flag, cached, locals
<1> QED BY <1>1, <1>2, <1>3, <1>4, MoveTypes, Distinct

LEMMA SnapshotTypes == ASSUME TInv, NEW r \in Requests, Snapshot(r) PROVE TInv'
<1>1. r \in Threads BY DEF Threads
<1>2. PICK p \in {"cached", "lookup"} : GoTo(r, p) BY DEF Snapshot
<1>3. UNCHANGED <<mine, own>> BY DEF Snapshot
<1>4. TypeOK'
  <2>1. pc' \in [Threads -> Phases]
    BY <1>1, <1>2, PhaseTypes DEF TInv, Phases, Building
  <2> QED BY <2>1 DEF TInv, TypeOK, Snapshot, stored, flag, cached, ghosts
<1> QED BY <1>1, <1>2, <1>3, <1>4, MoveTypes, Distinct DEF Building

LEMMA CachedTypes == ASSUME TInv, NEW r \in Requests, Cached(r) PROVE TInv'
<1>1. r \in Threads BY DEF Threads
<1> DEFINE a == IF cache # None /\ cache.ok THEN WithRefresh(cache.db, seen[r]) ELSE None
<1>2. a \in Summary \cup {None}
  <2>1. CASE cache # None
    <3>1. cache.db \in Numbers /\ seen[r] \in RefreshState
      BY <1>1, <2>1 DEF TInv, TypeOK, Summary
    <3> QED BY <3>1, StampType
  <2>2. CASE cache = None BY <2>2
  <2> QED BY <2>1, <2>2
<1>3. Answer(r, a) /\ UNCHANGED <<stored, lock, flag, cached>> BY DEF Cached
<1> HIDE DEF a
<1> QED BY <1>2, <1>3, AnswerTypes DEF TInv, TypeOK

LEMMA HealthTypes == ASSUME TInv, NEW r \in Requests, Health(r) PROVE TInv'
<1>1. r \in Threads BY DEF Threads
<1>2. PICK p \in {"snapshot", "try"} : GoTo(r, p) BY DEF Health
<1>3. UNCHANGED <<mine, own>> BY DEF Health
<1>4. TypeOK'
  <2>1. pc' \in [Threads -> Phases]
    BY <1>1, <1>2, PhaseTypes DEF TInv, Phases, Building
  <2>2. health' \in [Requests -> BOOLEAN] BY DEF TInv, TypeOK, Health
  <2> QED BY <2>1, <2>2 DEF TInv, TypeOK, Health, stored, flag, cached, ghosts
<1> QED BY <1>1, <1>2, <1>3, <1>4, MoveTypes, Distinct DEF Building

\* A cycle that prepares a summary has a token.
LEMMA BuilderHasToken ==
  ASSUME TInv, NEW t \in Refreshers, pc[t] \in Building
  PROVE  mine[t] # None
BY DEF TInv, LocalsInv, Building

LEMMA LookupTypes == ASSUME TInv, NEW t \in Threads, Lookup(t) PROVE TInv'
<1>1. CASE Hit(t)
  BY <1>1, AnswerTypes DEF Lookup, Hit, TInv, TypeOK
<1>2. CASE ~Hit(t)
  <2>1. GoTo(t, "try") /\ UNCHANGED <<mine, own>> BY <1>2 DEF Lookup
  <2>2. TypeOK'
    <3>1. pc' \in [Threads -> Phases] BY <2>1, PhaseTypes DEF TInv, Phases, Building
    <3> QED BY <1>2, <3>1 DEF TInv, TypeOK, Lookup, stored, flag, cached, ghosts
  <2>3. t \in Refreshers => mine[t] # None BY BuilderHasToken DEF Lookup, Building
  <2> QED BY <2>1, <2>2, <2>3, MoveTypes DEF Building
<1> QED BY <1>1, <1>2

LEMMA LockTypes ==
  ASSUME TInv, NEW t \in Threads, TryLock(t) \/ Block(t)
  PROVE  TInv'
<1>1. PICK p \in {"read", "retry"} : GoTo(t, p) BY DEF TryLock, Block
<1>2. UNCHANGED <<mine, own>> BY DEF TryLock, Block, locals
<1>3. lock' \in Threads \cup {None} BY DEF TInv, TypeOK, TryLock, Block
<1>4. TypeOK'
  <2>1. pc' \in [Threads -> Phases] BY <1>1, PhaseTypes DEF TInv, Phases, Building
  <2>2. UNCHANGED <<stored, flag, cached, locals, ghosts>> BY DEF TryLock, Block
  <2> QED BY <1>3, <2>1, <2>2 DEF TInv, TypeOK, stored, flag, cached, locals, ghosts
<1>5. t \in Refreshers => mine[t] # None
  BY BuilderHasToken DEF TryLock, Block, Building
<1> QED BY <1>1, <1>2, <1>4, <1>5, MoveTypes DEF Building

LEMMA RetryTypes == ASSUME TInv, NEW t \in Threads, Retry(t) PROVE TInv'
<1>1. PICK p \in {"snapshot", "cached", "block"} :
        GoTo(t, p) /\ (t \in Refreshers => p = "block")
  BY Distinct DEF Retry
<1>2. UNCHANGED <<mine, own>> BY DEF Retry
<1>3. TypeOK'
  <2>1. pc' \in [Threads -> Phases] BY <1>1, PhaseTypes DEF TInv, Phases, Building
  <2>2. seen' \in [Threads -> RefreshState] BY DEF TInv, TypeOK, Retry
  <2>3. health' \in [Requests -> BOOLEAN] BY DEF TInv, TypeOK, Retry
  <2> QED BY <2>1, <2>2, <2>3 DEF TInv, TypeOK, Retry, stored, flag, cached, ghosts
<1>4. t \in Refreshers => mine[t] # None BY BuilderHasToken DEF Retry, Building
<1> QED BY <1>1, <1>2, <1>3, <1>4, MoveTypes DEF Building

LEMMA ReadTypes == ASSUME TInv, NEW t \in Threads, Read(t) PROVE TInv'
<1>1. WithRefresh(db, state) \in Summary BY StampType DEF TInv, TypeOK
<1>2. CASE t \in Requests /\ health[t]
  BY <1>1, <1>2, AnswerTypes DEF Read
<1>3. CASE ~(t \in Requests /\ health[t])
  <2>1. /\ GoTo(t, "store") /\ UNCHANGED mine
        /\ own' = [own EXCEPT ![t] = WithRefresh(db, state)]
    BY <1>3 DEF Read
  <2>2. TypeOK'
    <3>1. pc' \in [Threads -> Phases] BY <2>1, PhaseTypes DEF TInv, Phases, Building
    <3> QED BY <1>1, <1>3, <3>1 DEF TInv, TypeOK, Read, stored, flag, cached, ghosts
  <2>3. t \in Refreshers => mine[t] # None BY BuilderHasToken DEF Read, Building
  <2>4. own'[t] # None /\ \A u \in Threads \ {t} : own'[u] = own[u]
    BY <1>1, <2>1, Distinct DEF TInv, TypeOK
  <2> QED BY <2>1, <2>2, <2>3, <2>4, MoveTypes DEF Building
<1> QED BY <1>2, <1>3

LEMMA BuiltTypes ==
  ASSUME TInv, NEW t \in Threads, NEW a \in Summary \cup {None}, NEW success \in BOOLEAN,
         pc[t] = "store", Built(t, a, success), UNCHANGED <<stored, flag>>,
         lock' = lock, cache' \in Summary \cup {None}, fresh' \in BOOLEAN,
         fresh' => cache' # None, generation' \in Nat
  PROVE  TInv'
<1>1. CASE t \in Requests
  <2>1. Answer(t, a) BY <1>1, Distinct DEF Built
  <2>2. GoTo(t, "over") BY <2>1 DEF Answer
  <2>3. TypeOK'
    <3>1. pc' \in [Threads -> Phases] BY <2>2, PhaseTypes DEF TInv, Phases
    <3>2. answer' \in [Requests -> Summary \cup {None}] BY <2>1 DEF TInv, TypeOK, Answer
    <3> QED BY <2>1, <3>1, <3>2, ForgetTypes DEF TInv, TypeOK, Answer, stored, flag
  <2>4. /\ \A u \in Refreshers \ {t} : mine'[u] = mine[u]
        /\ \A u \in Threads \ {t} : own'[u] = own[u]
    BY <1>1, <2>1, Distinct DEF Answer, Forget, TInv, TypeOK
  <2> QED BY <1>1, <2>2, <2>3, <2>4, MoveTypes, Distinct
<1>2. CASE t \in Refreshers
  <2>1. /\ ok' = [ok EXCEPT ![t] = success] /\ own' = [own EXCEPT ![t] = None]
        /\ GoTo(t, "finish") /\ UNCHANGED <<mine, health, gen, seen, ghosts>>
    BY <1>2, Distinct DEF Built
  <2>2. TypeOK'
    <3>1. pc' \in [Threads -> Phases] BY <2>1, PhaseTypes DEF TInv, Phases, Ending
    <3>2. ok' \in [Refreshers -> BOOLEAN] BY <2>1 DEF TInv, TypeOK
    <3>3. own' \in [Threads -> Summary \cup {None}] BY <2>1 DEF TInv, TypeOK
    <3> QED BY <2>1, <3>1, <3>2, <3>3 DEF TInv, TypeOK, stored, flag, ghosts
  <2>3. mine[t] # None BY <1>2, BuilderHasToken DEF Building
  <2>4. \A u \in Threads \ {t} : own'[u] = own[u] BY <2>1 DEF TInv, TypeOK
  <2> QED BY <1>2, <2>1, <2>2, <2>3, <2>4, MoveTypes, Distinct DEF Ending
<1> QED BY <1>1, <1>2 DEF Threads

LEMMA StoreTypes == ASSUME TInv, NEW t \in Threads, Store(t) PROVE TInv'
<1>1. pc[t] = "store" /\ UNCHANGED <<stored, lock, flag>> BY DEF Store
<1>2. own[t] \in Summary BY <1>1 DEF TInv, TypeOK, LocalsInv
<1>3. CASE Hit(t)
  <2>1. Built(t, cache, TRUE) /\ UNCHANGED cached BY <1>3 DEF Store
  <2> QED BY <1>1, <2>1, BuiltTypes DEF TInv, TypeOK, cached
<1>4. CASE ~Hit(t)
  <2>1. Built(t, own[t], TRUE) BY <1>4 DEF Store
  <2>2. /\ cache' \in Summary \cup {None} /\ fresh' \in BOOLEAN
        /\ fresh' => cache' # None
        /\ generation' \in Nat
    <3>1. CASE generation = gen[t]
      <4>1. cache' = own[t] /\ fresh' = TRUE /\ UNCHANGED generation
        BY <1>4, <3>1 DEF Store
      <4> QED BY <1>2, <4>1, Distinct DEF TInv, TypeOK
    <3>2. CASE generation # gen[t]
      <4>1. UNCHANGED cached BY <1>4, <3>2 DEF Store
      <4> QED BY <4>1 DEF TInv, TypeOK, cached
    <3> QED BY <3>1, <3>2
  <2> QED BY <1>1, <1>2, <2>1, <2>2, BuiltTypes
<1> QED BY <1>3, <1>4

LEMMA BuildFailsTypes == ASSUME TInv, NEW t \in Threads, BuildFails(t) PROVE TInv'
<1>1. /\ pc[t] = "store" /\ Built(t, None, FALSE)
      /\ UNCHANGED <<stored, lock, flag, cached>>
  BY DEF BuildFails
<1> QED BY <1>1, BuiltTypes DEF TInv, TypeOK, cached

LEMMA StutterTypes == ASSUME TInv, UNCHANGED vars \/ Expire PROVE TInv'
<1>1. UNCHANGED <<stored, lock, flag, pc, locals, ghosts, cache, generation>>
  BY DEF vars, Expire, cached
<1>2. fresh' \in BOOLEAN /\ (fresh' => fresh)
  <2>1. CASE Expire BY <2>1 DEF Expire
  <2>2. CASE UNCHANGED vars BY <2>2 DEF vars, cached, TInv, TypeOK
  <2> QED BY <2>1, <2>2
<1>3. TypeOK' BY <1>1, <1>2 DEF TInv, TypeOK, stored, flag, locals, ghosts
<1>4. PhaseInv' BY <1>1 DEF TInv, PhaseInv
<1>5. LocalsInv' BY <1>1 DEF TInv, LocalsInv, locals
<1> QED BY <1>3, <1>4, <1>5 DEF TInv

LEMMA PrepareTypes == ASSUME TInv, NEW t \in Threads, Prepare(t) PROVE TInv'
BY LookupTypes, LockTypes, RetryTypes, ReadTypes, StoreTypes, BuildFailsTypes DEF Prepare

LEMMA NextTypes == TInv /\ [Next]_vars => TInv'
<1> SUFFICES ASSUME TInv, [Next]_vars PROVE TInv' OBVIOUS
<1>1. ASSUME NEW t \in Refreshers, Begin(t) PROVE TInv' BY <1>1, BeginTypes
<1>2. ASSUME NEW t \in Refreshers, Cycle(t) PROVE TInv'
  <2>1. t \in Threads BY DEF Threads
  <2> QED BY <1>2, <2>1, MarkTypes, PreserveTypes, IngestTypes, RecordTypes, ReleaseTypes,
             FinishTypes, SettleTypes, PrepareTypes DEF Cycle
<1>3. ASSUME NEW r \in Requests, Arrive(r) PROVE TInv' BY <1>3, ArriveTypes
<1>4. ASSUME NEW r \in Requests, Serve(r) PROVE TInv'
  <2>1. r \in Threads BY DEF Threads
  <2> QED BY <1>4, <2>1, SnapshotTypes, CachedTypes, HealthTypes, PrepareTypes DEF Serve
<1>5. ASSUME UNCHANGED vars \/ Expire PROVE TInv' BY <1>5, StutterTypes
<1> QED BY <1>1, <1>2, <1>3, <1>4, <1>5 DEF Next, AllOver

\* Every reachable state of the dashboard is well typed, whatever overlaps.
THEOREM TypeCorrect == Spec => []TypeOK
<1>1. Spec => []TInv BY InitTypes, NextTypes, PTL DEF Spec
<1>2. TInv => TypeOK BY DEF TInv
<1> QED BY <1>1, <1>2, PTL

-----------------------------------------------------------------------------
(* refresh_lock *)

Holding == Locked \cup {"read"}

\* A thread of a phase that holds refresh_lock holds it.
LockInv == \A t \in Threads : pc[t] \in Holding => lock = t

\* A step that moves thread t to phase p.
LEMMA MoveLock ==
  ASSUME TInv, LockInv, NEW t \in Threads, NEW p, GoTo(t, p),
         \/ lock' = lock
         \/ lock = None /\ lock' = t
         \/ lock = t /\ lock' = None,
         p \in Holding => lock' = t
  PROVE  LockInv'
<1> SUFFICES ASSUME NEW u \in Threads, pc'[u] \in Holding PROVE lock' = u
  BY DEF LockInv
<1>1. CASE u = t BY <1>1 DEF TInv, TypeOK, GoTo
<1>2. CASE u # t
  <2>1. pc[u] \in Holding BY <1>2 DEF TInv, TypeOK, GoTo
  <2>2. lock = u BY <2>1 DEF LockInv
  <2> QED BY <1>2, <2>2, Distinct
<1> QED BY <1>1, <1>2

LEMMA CycleLock ==
  ASSUME TInv, LockInv, NEW t \in Refreshers,
         \/ Begin(t) \/ MarkStarted(t) \/ Preserve(t) \/ Ingest(t) \/ Record(t)
         \/ InvalidateRecorded(t) \/ Release(t) \/ Finish(t) \/ Settle(t)
  PROVE  LockInv'
<1>1. t \in Threads BY DEF Threads
<1>2. CASE Begin(t)
  <2>1. GoTo(t, "mark") /\ lock = None /\ lock' = t BY <1>2 DEF Begin
  <2> QED BY <1>1, <2>1, MoveLock
<1>3. CASE MarkStarted(t) \/ Preserve(t) \/ Ingest(t) \/ Record(t) \/ InvalidateRecorded(t)
  <2>1. PICK p : GoTo(t, p)
    BY <1>3 DEF MarkStarted, Preserve, Ingest, Record, InvalidateRecorded
  <2>2. lock' = lock
    BY <1>3 DEF MarkStarted, Preserve, Ingest, Record, InvalidateRecorded
  <2>3. lock = t
    BY <1>1, <1>3 DEF LockInv, Holding, Locked, MarkStarted, Preserve, Ingest, Record,
       InvalidateRecorded
  <2> QED BY <1>1, <2>1, <2>2, <2>3, MoveLock
<1>4. CASE Release(t)
  <2>1. PICK p \in {"idle", "lookup"} : GoTo(t, p) BY <1>4 DEF Release
  <2>2. lock = t /\ lock' = None BY <1>1, <1>4 DEF LockInv, Holding, Locked, Release
  <2> QED BY <1>1, <2>1, <2>2, MoveLock DEF Holding, Locked
<1>5. CASE Finish(t) \/ Settle(t)
  <2>1. PICK p \in {"idle", "settle"} : GoTo(t, p) BY <1>5 DEF Finish, Settle
  <2>2. lock' = lock BY <1>5 DEF Finish, Settle
  <2> QED BY <1>1, <2>1, <2>2, MoveLock DEF Holding, Locked
<1> QED BY <1>2, <1>3, <1>4, <1>5

LEMMA RequestLock ==
  ASSUME TInv, LockInv, NEW r \in Requests,
         Arrive(r) \/ Snapshot(r) \/ Cached(r) \/ Health(r)
  PROVE  LockInv'
<1>1. r \in Threads BY DEF Threads
<1>2. PICK p \in {"snapshot", "health", "cached", "lookup", "over", "try"} : GoTo(r, p)
  BY DEF Arrive, Snapshot, Cached, Health, Answer
<1>3. lock' = lock BY DEF Arrive, Snapshot, Cached, Health
<1> QED BY <1>1, <1>2, <1>3, MoveLock DEF Holding, Locked

LEMMA PrepareLock == ASSUME TInv, LockInv, NEW t \in Threads, Prepare(t) PROVE LockInv'
<1>1. CASE Lookup(t) \/ Retry(t)
  <2>1. PICK p \in {"over", "try", "snapshot", "cached", "block"} : GoTo(t, p)
    BY <1>1 DEF Lookup, Retry, Answer
  <2>2. lock' = lock BY <1>1 DEF Lookup, Retry
  <2> QED BY <2>1, <2>2, MoveLock DEF Holding, Locked
<1>2. CASE TryLock(t) \/ Block(t)
  <2>1. \/ GoTo(t, "read") /\ lock = None /\ lock' = t
        \/ GoTo(t, "retry") /\ lock' = lock
    BY <1>2 DEF TryLock, Block
  <2> QED BY <2>1, MoveLock DEF Holding, Locked
<1>3. CASE Read(t)
  <2>1. PICK p \in {"over", "store"} : GoTo(t, p) BY <1>3 DEF Read, Answer
  <2>2. lock = t /\ lock' = None BY <1>3 DEF LockInv, Holding, Read
  <2> QED BY <2>1, <2>2, MoveLock DEF Holding, Locked
<1>4. CASE Store(t) \/ BuildFails(t)
  <2>1. PICK p \in {"over", "finish"} : GoTo(t, p)
    BY <1>4 DEF Store, BuildFails, Built, Answer
  <2>2. lock' = lock BY <1>4 DEF Store, BuildFails
  <2> QED BY <2>1, <2>2, MoveLock DEF Holding, Locked
<1> QED BY <1>1, <1>2, <1>3, <1>4 DEF Prepare

LEMMA NextLock == TInv /\ LockInv /\ [Next]_vars => LockInv'
<1> SUFFICES ASSUME TInv, LockInv, [Next]_vars PROVE LockInv' OBVIOUS
<1>1. ASSUME NEW t \in Refreshers, Begin(t) \/ Cycle(t) PROVE LockInv'
  <2>1. t \in Threads BY DEF Threads
  <2> QED BY <1>1, <2>1, CycleLock, PrepareLock DEF Cycle
<1>2. ASSUME NEW r \in Requests, Arrive(r) \/ Serve(r) PROVE LockInv'
  <2>1. r \in Threads BY DEF Threads
  <2> QED BY <1>2, <2>1, RequestLock, PrepareLock DEF Serve
<1>3. ASSUME UNCHANGED vars \/ Expire PROVE LockInv'
  BY <1>3 DEF vars, Expire, LockInv
<1> QED BY <1>1, <1>2, <1>3 DEF Next, AllOver

\* The database is never read while a refresh writes it, nor by two threads at
\* once, whatever overlaps.
THEOREM ReadsExclusive == Spec => []ReadsAreExclusive
<1>1. Init => LockInv BY DEF Init, LockInv, Holding, Locked
<1>2. Spec => [](TInv /\ LockInv) BY <1>1, InitTypes, NextTypes, NextLock, PTL DEF Spec
<1>3. LockInv => ReadsAreExclusive BY DEF LockInv, Holding, ReadsAreExclusive
<1> QED BY <1>2, <1>3, PTL

-----------------------------------------------------------------------------
(* The in-progress flag *)

Owning == Building \cup (Locked \ {"mark"}) \cup {"finish"}

\* The flag and the token say the same.
BusyInv == state.busy <=> token # None

\* The cycle that has the token is on its way to clear the flag.
OwnerInv == token # None => \E t \in Refreshers : mine[t] = token /\ pc[t] \in Owning

\* Tokens are not given twice.
TokensInv ==
  /\ \A t, u \in Refreshers : mine[t] # None /\ mine[t] = mine[u] => t = u
  /\ \A t \in Refreshers : mine[t] # None => mine[t] <= cycles
  /\ \A t, u \in Refreshers : pc[t] = "mark" => mine[u] # cycles

\* Until it leaves refresh_lock a cycle has the token, unless it failed.
Knows(t) ==
  /\ pc[t] \in {"preserve", "ingest", "record"} => token = mine[t]
  /\ pc[t] \in {"invalidate", "release"} => token = IF ok[t] THEN mine[t] ELSE None

FlagInv == BusyInv /\ OwnerInv /\ TokensInv /\ \A t \in Refreshers : Knows(t)

\* A step of a refresher that leaves the flag alone.
LEMMA MoveFlag ==
  ASSUME TInv, FlagInv, NEW t \in Refreshers, NEW p, GoTo(t, p),
         UNCHANGED <<cycles, flag>>,
         \A u \in Refreshers \ {t} : mine'[u] = mine[u] /\ ok'[u] = ok[u],
         \/ mine'[t] = mine[t] /\ (token = mine[t] => p \in Owning)
         \/ mine'[t] = None /\ token # mine[t],
         p # "mark", Knows(t)'
  PROVE  FlagInv'
<1>1. pc'[t] = p /\ \A u \in Refreshers \ {t} : pc'[u] = pc[u]
  BY DEF TInv, TypeOK, GoTo, Threads
<1>2. token' = token /\ state' = state /\ cycles' = cycles BY DEF flag
<1>3. BusyInv' BY <1>2 DEF FlagInv, BusyInv
<1>4. OwnerInv'
  <2> SUFFICES ASSUME token # None
               PROVE  \E u \in Refreshers : mine'[u] = token /\ pc'[u] \in Owning
    BY <1>2 DEF OwnerInv
  <2>1. PICK u \in Refreshers : mine[u] = token /\ pc[u] \in Owning BY DEF FlagInv, OwnerInv
  <2>2. mine'[u] = token /\ pc'[u] \in Owning BY <1>1, <2>1
  <2> QED BY <2>2
<1>5. TokensInv'
  <2>1. \A u \in Refreshers : mine'[u] \in {mine[u], None} OBVIOUS
  <2>2. \A u \in Refreshers : pc'[u] = "mark" => pc[u] = "mark" BY <1>1
  <2>3. cycles # None BY Distinct DEF TInv, TypeOK
  <2> QED BY <1>2, <2>1, <2>2, <2>3 DEF FlagInv, TokensInv
<1>6. \A u \in Refreshers : Knows(u)'
  BY <1>1, <1>2 DEF FlagInv, Knows
<1> QED BY <1>3, <1>4, <1>5, <1>6 DEF FlagInv

LEMMA BeginFlag == ASSUME TInv, LockInv, FlagInv, NEW t \in Refreshers, Begin(t) PROVE FlagInv'
<1>1. /\ GoTo(t, "mark") /\ lock = None /\ cycles' = cycles + 1
      /\ UNCHANGED <<flag, mine, ok>>
  BY DEF Begin, locals
<1>2. pc'[t] = "mark" /\ \A u \in Refreshers \ {t} : pc'[u] = pc[u]
  BY <1>1 DEF TInv, TypeOK, GoTo, Threads
<1>3. mine[t] = None BY DEF TInv, LocalsInv, Begin
<1>4. cycles \in Nat /\ \A u \in Refreshers : mine[u] # None => mine[u] \in Nat
  BY NumbersAreNatural DEF TInv, TypeOK
<1>5. BusyInv' BY <1>1 DEF FlagInv, BusyInv, flag
<1>6. OwnerInv' BY <1>1, <1>2, <1>3 DEF FlagInv, OwnerInv, flag
<1>7. TokensInv'
  <2>1. \A u \in Refreshers : mine[u] # None => mine[u] <= cycles + 1 /\ mine[u] # cycles + 1
    BY <1>4 DEF FlagInv, TokensInv
  <2>2. cycles + 1 # None BY <1>4, DashboardAssumption
  <2> QED BY <1>1, <2>1, <2>2 DEF FlagInv, TokensInv
<1>8. \A u \in Refreshers : Knows(u)' BY <1>1, <1>2 DEF FlagInv, Knows, flag
<1> QED BY <1>5, <1>6, <1>7, <1>8 DEF FlagInv

\* While a cycle has refresh_lock no other one has.
LEMMA OnlyLocked ==
  ASSUME LockInv, NEW t \in Refreshers, NEW u \in Refreshers,
         pc[t] \in Locked, pc[u] \in Locked
  PROVE  t = u
BY DEF LockInv, Holding, Threads

LEMMA MarkFlag ==
  ASSUME TInv, LockInv, FlagInv, NEW t \in Refreshers, MarkStarted(t)
  PROVE  FlagInv'
<1>1. /\ pc[t] = "mark" /\ GoTo(t, "preserve") /\ token' = cycles /\ state'.busy = TRUE
      /\ mine' = [mine EXCEPT ![t] = cycles] /\ UNCHANGED cycles
  BY DEF MarkStarted, stored
<1>2. pc'[t] = "preserve" /\ \A u \in Refreshers \ {t} : pc'[u] = pc[u]
  BY <1>1 DEF TInv, TypeOK, GoTo, Threads
<1>3. mine'[t] = cycles /\ \A u \in Refreshers \ {t} : mine'[u] = mine[u]
  BY <1>1 DEF TInv, TypeOK
<1>4. cycles \in Nat /\ cycles # None BY NumbersAreNatural, Distinct DEF TInv, TypeOK
<1>5. BusyInv' BY <1>1, <1>4 DEF BusyInv
<1>6. OwnerInv' BY <1>1, <1>2, <1>3 DEF OwnerInv, Owning, Locked
<1>7. \A u \in Refreshers \ {t} : pc[u] \notin Locked
  BY <1>1, OnlyLocked DEF Locked
<1>8. TokensInv' BY <1>1, <1>2, <1>3, <1>4, <1>7 DEF FlagInv, TokensInv, Locked
<1>9. \A u \in Refreshers : Knows(u)' BY <1>1, <1>2, <1>3, <1>7 DEF Knows, Locked
<1> QED BY <1>5, <1>6, <1>8, <1>9 DEF FlagInv

LEMMA RecordFlag ==
  ASSUME TInv, LockInv, FlagInv, NEW t \in Refreshers, Record(t)
  PROVE  FlagInv'
<1>1. /\ pc[t] = "record" /\ GoTo(t, "invalidate") /\ state'.busy = ok[t]
      /\ token' = (IF ok[t] THEN token ELSE None)
      /\ UNCHANGED <<cycles, mine, ok>>
  BY DEF Record, stored, locals
<1>2. pc'[t] = "invalidate" /\ \A u \in Refreshers \ {t} : pc'[u] = pc[u]
  BY <1>1 DEF TInv, TypeOK, GoTo, Threads
<1>3. token = mine[t] /\ mine[t] # None
  BY <1>1 DEF FlagInv, Knows, TInv, LocalsInv
<1>4. ok[t] \in BOOLEAN BY DEF TInv, TypeOK
<1>5. BusyInv' BY <1>1, <1>3, <1>4 DEF BusyInv
<1>6. OwnerInv' BY <1>1, <1>2, <1>3 DEF OwnerInv, Owning, Locked
<1>7. \A u \in Refreshers \ {t} : pc[u] \notin Locked
  BY <1>1, OnlyLocked DEF Locked
<1>8. TokensInv' BY <1>1, <1>2 DEF FlagInv, TokensInv
<1>9. \A u \in Refreshers : Knows(u)' BY <1>1, <1>2, <1>3, <1>7 DEF Knows, Locked
<1> QED BY <1>5, <1>6, <1>8, <1>9 DEF FlagInv

LEMMA FinishFlag ==
  ASSUME TInv, FlagInv, NEW t \in Refreshers, Finish(t)
  PROVE  FlagInv'
<1>1. pc[t] = "finish" /\ UNCHANGED cycles BY DEF Finish, stored
<1>2. CASE token # mine[t]
  <2>1. /\ GoTo(t, "idle") /\ Forget(t) /\ UNCHANGED flag BY <1>2 DEF Finish
  <2>2. /\ mine'[t] = None
        /\ \A u \in Refreshers \ {t} : mine'[u] = mine[u] /\ ok'[u] = ok[u]
    BY <2>1 DEF Forget, TInv, TypeOK
  <2>3. Knows(t)' BY <2>1 DEF Knows, GoTo, TInv, TypeOK, Threads
  <2> QED BY <1>1, <1>2, <2>1, <2>2, <2>3, MoveFlag
<1>3. CASE token = mine[t]
  <2>1. /\ GoTo(t, "settle") /\ state'.busy = FALSE /\ token' = None
        /\ UNCHANGED <<mine, ok>>
    BY <1>3 DEF Finish
  <2>2. pc'[t] = "settle" /\ \A u \in Refreshers \ {t} : pc'[u] = pc[u]
    BY <2>1 DEF TInv, TypeOK, GoTo, Threads
  <2>3. BusyInv' /\ OwnerInv' BY <2>1 DEF BusyInv, OwnerInv
  <2>4. TokensInv' BY <1>1, <2>1, <2>2 DEF FlagInv, TokensInv
  <2>5. ASSUME NEW u \in Refreshers PROVE Knows(u)'
    <3>1. CASE u = t BY <2>2, <3>1 DEF Knows
    <3>2. CASE u # t
      <4>1. mine[t] # None /\ mine[u] # mine[t]
        BY <1>1, <3>2 DEF FlagInv, TokensInv, TInv, LocalsInv
      <4>2. /\ pc[u] \notin {"preserve", "ingest", "record"}
            /\ pc[u] \in {"invalidate", "release"} => token = IF ok[u] THEN mine[u] ELSE None
        BY <1>3, <4>1 DEF FlagInv, Knows
      <4>3. pc[u] \notin {"invalidate", "release"} BY <1>3, <4>1, <4>2
      <4> QED BY <2>2, <3>2, <4>2, <4>3 DEF Knows
    <3> QED BY <3>1, <3>2
  <2> QED BY <2>3, <2>4, <2>5 DEF FlagInv
<1> QED BY <1>2, <1>3

LEMMA CycleFlag ==
  ASSUME TInv, FlagInv, NEW t \in Refreshers,
         Preserve(t) \/ Ingest(t) \/ InvalidateRecorded(t) \/ Release(t) \/ Settle(t)
  PROVE  FlagInv'
<1>1. UNCHANGED <<cycles, flag>>
  BY DEF Preserve, Ingest, InvalidateRecorded, Release, Settle, stored
<1>2. ASSUME NEW p, GoTo(t, p) PROVE pc'[t] = p
  BY <1>2 DEF GoTo, TInv, TypeOK, Threads
<1>3. CASE Preserve(t) \/ Ingest(t)
  <2>1. PICK p \in {"ingest", "record"} : GoTo(t, p) BY <1>3 DEF Preserve, Ingest
  <2>2. mine' = mine /\ token = mine[t]
    BY <1>3 DEF Preserve, Ingest, locals, FlagInv, Knows
  <2>3. \A u \in Refreshers \ {t} : ok'[u] = ok[u]
    BY <1>3 DEF Preserve, Ingest, locals, TInv, TypeOK
  <2>4. Knows(t)' BY <1>1, <1>2, <2>1, <2>2 DEF Knows, flag
  <2> QED BY <1>1, <2>1, <2>2, <2>3, <2>4, MoveFlag DEF Owning, Locked
<1>4. CASE InvalidateRecorded(t)
  <2>1. /\ GoTo(t, "release") /\ UNCHANGED <<mine, ok>> /\ pc[t] = "invalidate"
    BY <1>4 DEF InvalidateRecorded, locals
  <2>2. Knows(t)' BY <1>1, <1>2, <2>1 DEF FlagInv, Knows, flag
  <2> QED BY <1>1, <2>1, <2>2, MoveFlag DEF Owning, Locked
<1>5. CASE Release(t) /\ ok[t]
  <2>1. GoTo(t, "lookup") /\ mine' = mine BY <1>5 DEF Release
  <2>2. \A u \in Refreshers \ {t} : ok'[u] = ok[u] BY <1>5 DEF Release, TInv, TypeOK
  <2>3. Knows(t)' BY <1>2, <2>1 DEF Knows
  <2> QED BY <1>1, <2>1, <2>2, <2>3, MoveFlag DEF Owning, Building
<1>6. CASE Release(t) /\ ~ok[t]
  <2>1. GoTo(t, "idle") /\ Forget(t) BY <1>6 DEF Release
  <2>2. token = None /\ mine[t] # None
    BY <1>6 DEF Release, FlagInv, Knows, TInv, LocalsInv
  <2>3. /\ mine'[t] = None
        /\ \A u \in Refreshers \ {t} : mine'[u] = mine[u] /\ ok'[u] = ok[u]
    BY <2>1 DEF Forget, TInv, TypeOK
  <2>4. Knows(t)' BY <1>2, <2>1 DEF Knows
  <2> QED BY <1>1, <2>1, <2>2, <2>3, <2>4, MoveFlag
<1>7. CASE Settle(t)
  <2>1. GoTo(t, "idle") /\ Forget(t) /\ pc[t] = "settle" BY <1>7 DEF Settle
  <2>2. token # mine[t]
    BY <2>1 DEF FlagInv, OwnerInv, TokensInv, Owning, Building, Locked, TInv, LocalsInv
  <2>3. /\ mine'[t] = None
        /\ \A u \in Refreshers \ {t} : mine'[u] = mine[u] /\ ok'[u] = ok[u]
    BY <2>1 DEF Forget, TInv, TypeOK
  <2>4. Knows(t)' BY <1>2, <2>1 DEF Knows
  <2> QED BY <1>1, <2>1, <2>2, <2>3, <2>4, MoveFlag
<1> QED BY <1>3, <1>4, <1>5, <1>6, <1>7

\* A step of a request leaves the refreshers and the flag alone.
LEMMA ElsewhereFlag ==
  ASSUME FlagInv, UNCHANGED <<cycles, flag>>,
         \A u \in Refreshers : mine'[u] = mine[u] /\ ok'[u] = ok[u] /\ pc'[u] = pc[u]
  PROVE  FlagInv'
<1>1. token' = token /\ state' = state /\ cycles' = cycles BY DEF flag
<1>2. BusyInv' BY <1>1 DEF FlagInv, BusyInv
<1>3. OwnerInv' BY <1>1 DEF FlagInv, OwnerInv
<1>4. TokensInv' BY <1>1 DEF FlagInv, TokensInv
<1>5. \A u \in Refreshers : Knows(u)' BY <1>1 DEF FlagInv, Knows
<1> QED BY <1>2, <1>3, <1>4, <1>5 DEF FlagInv

LEMMA RequestFlag ==
  ASSUME TInv, FlagInv, NEW r \in Requests, Arrive(r) \/ Serve(r)
  PROVE  FlagInv'
<1>1. r \notin Refreshers BY Distinct
<1>2. UNCHANGED <<cycles, flag>>
  BY DEF Arrive, Serve, Snapshot, Cached, Health, Prepare, Lookup, TryLock, Retry, Block,
     Read, Store, BuildFails, stored
<1>3. PICK p : GoTo(r, p)
  BY <1>1 DEF Arrive, Serve, Snapshot, Cached, Health, Prepare, Lookup, TryLock, Retry,
     Block, Read, Store, BuildFails, Built, Answer
<1>4. UNCHANGED <<mine, ok>>
  BY <1>1 DEF Arrive, Serve, Snapshot, Cached, Health, Prepare, Lookup, TryLock, Retry,
     Block, Read, Store, BuildFails, Built, Answer, Forget, locals
<1>5. \A u \in Refreshers : pc'[u] = pc[u]
  BY <1>1, <1>3 DEF GoTo, TInv, TypeOK, Threads
<1> QED BY <1>2, <1>4, <1>5, ElsewhereFlag

LEMMA PrepareFlag ==
  ASSUME TInv, FlagInv, NEW t \in Refreshers, Prepare(t)
  PROVE  FlagInv'
<1>1. t \notin Requests BY Distinct
<1>2. UNCHANGED <<cycles, flag>>
  BY DEF Prepare, Lookup, TryLock, Retry, Block, Read, Store, BuildFails, stored
<1>3. PICK p \in Building \cup {"finish"} : GoTo(t, p)
  BY <1>1 DEF Prepare, Lookup, Hit, TryLock, Retry, Block, Read, Store, BuildFails, Built,
     Building
<1>4. UNCHANGED mine
  BY <1>1 DEF Prepare, Lookup, Hit, TryLock, Retry, Block, Read, Store, BuildFails, Built,
     locals
<1>5. \A u \in Refreshers \ {t} : ok'[u] = ok[u]
  BY <1>1 DEF Prepare, Lookup, Hit, TryLock, Retry, Block, Read, Store, BuildFails, Built,
     locals, TInv, TypeOK
<1>6. Knows(t)' BY <1>3 DEF Knows, GoTo, TInv, TypeOK, Threads, Building
<1> QED BY <1>2, <1>3, <1>4, <1>5, <1>6, MoveFlag DEF Owning, Building

LEMMA NextFlag == TInv /\ LockInv /\ FlagInv /\ [Next]_vars => FlagInv'
<1> SUFFICES ASSUME TInv, LockInv, FlagInv, [Next]_vars PROVE FlagInv' OBVIOUS
<1>1. ASSUME NEW t \in Refreshers, Begin(t) \/ Cycle(t) PROVE FlagInv'
  BY <1>1, BeginFlag, MarkFlag, RecordFlag, FinishFlag, CycleFlag, PrepareFlag DEF Cycle
<1>2. ASSUME NEW r \in Requests, Arrive(r) \/ Serve(r) PROVE FlagInv'
  BY <1>2, RequestFlag
<1>3. ASSUME UNCHANGED vars \/ Expire PROVE FlagInv'
  <2>1. UNCHANGED <<cycles, flag, mine, ok, pc>>
    BY <1>3 DEF vars, Expire, stored, locals
  <2> QED BY <2>1, ElsewhereFlag
<1> QED BY <1>1, <1>2, <1>3 DEF Next, AllOver

\* However many cycles overlap, the in-progress flag is the flag of a cycle
\* under way, and no other one clears it.
THEOREM FlagOwned == Spec => []FlagIsOwned
<1>1. Init => LockInv BY DEF Init, LockInv, Holding, Locked
<1>2. Init => FlagInv
  BY DEF Init, NoRefresh, FlagInv, BusyInv, OwnerInv, TokensInv, Knows, Threads
<1>3. Spec => [](TInv /\ LockInv /\ FlagInv)
  BY <1>1, <1>2, InitTypes, NextTypes, NextLock, NextFlag, PTL DEF Spec
<1>4. TInv /\ FlagInv => FlagIsOwned
  BY DEF FlagInv, BusyInv, OwnerInv, FlagIsOwned, Owning
<1> QED BY <1>3, <1>4, PTL

-----------------------------------------------------------------------------
(* The freshness of answers, with one refresher *)

\* Two refreshers may settle their cycles in the other order, and then the
\* cache names a refresh whose data it does not have; one cannot.
OneRefresher == \A t, u \in Refreshers : t = u

\* A cycle once its refresh is recorded.
Recorded == {"invalidate", "release"} \cup Building \cup Ending

\* The numbers of the refreshes: what is settled was recorded, what is recorded
\* was started, and the database only gets newer.
OrderInv ==
  /\ db <= cycles /\ state.at <= cycles /\ settled <= state.at
  /\ written[settled] <= db /\ written[state.at] <= db
  /\ \A t \in Refreshers :
       /\ mine[t] # None => mine[t] = cycles
       /\ pc[t] # "idle" => settled < cycles
       /\ pc[t] \in {"mark", "preserve", "ingest", "record"} => state.at < cycles
       /\ pc[t] \in {"record"} \cup Recorded => written[cycles] = db
       /\ pc[t] \in Recorded => state.at = cycles

\* A summary is as recent as refresh n.
Since(s, n) == written[n] <= s.db /\ n <= s.at

\* A summary says the truth about the refresh it names.
Honest(s) == s.at <= state.at /\ (~s.busy => written[s.at] <= s.db)

\* A request that may still put its summary into the cache.
Storable(r) == pc[r] = "store" /\ gen[r] = generation

CacheInv ==
  /\ \A t \in Threads : gen[t] <= generation
  /\ cache # None => Since(cache, settled) /\ Honest(cache)
  /\ \A r \in Requests : Storable(r) => Since(own[r], settled)

\* Where the cycle is with the cache.
PrimeInv ==
  \A t \in Refreshers :
    /\ pc[t] = "release" => /\ \A r \in Requests : ~Storable(r)
                            /\ ~ok[t] => cache = None
    /\ pc[t] \in Building \cup Ending =>
         \A r \in Requests : Storable(r) => db <= own[r].db
    /\ pc[t] \in Building \ {"lookup"} => gen[t] = generation
    /\ pc[t] = "store" => own[t].db = db /\ own[t].at = state.at
    /\ pc[t] \in Ending /\ ok[t] => cache # None /\ db <= cache.db
    /\ pc[t] = "settle" => seen[t].at = cycles

\* What a request has and was answered is as recent as what it asked for.
AnswersOf(r) ==
  /\ asked[r] <= settled /\ written[asked[r]] <= written[settled]
  /\ own[r] # None => Since(own[r], asked[r]) /\ Honest(own[r])
  /\ answer[r] # None => Since(answer[r], asked[r]) /\ Honest(answer[r])
  /\ pc[r] = "cached" => /\ asked[r] <= seen[r].at /\ seen[r].at <= state.at
                         /\ seen[r].busy
  /\ pc[r] = "idle" => own[r] = None /\ answer[r] = None

AnswerInv == \A r \in Requests : AnswersOf(r)

FreshInv == OrderInv /\ CacheInv /\ PrimeInv /\ AnswerInv

\* The values these numbers are compared with.
LEMMA Ranges ==
  ASSUME TInv
  PROVE  /\ Numbers \subseteq Nat
         /\ cycles \in Numbers /\ db \in Numbers /\ settled \in Numbers
         /\ state.at \in Numbers /\ state.busy \in BOOLEAN
         /\ \A n \in Numbers : written[n] \in Numbers
         /\ cache # None => cache \in Summary
         /\ \A t \in Threads : /\ gen[t] \in Nat /\ seen[t] \in RefreshState
                               /\ own[t] # None => own[t] \in Summary
         /\ generation \in Nat
         /\ \A r \in Requests : /\ asked[r] \in Numbers
                                /\ answer[r] # None => answer[r] \in Summary
BY NumbersAreNatural DEF TInv, TypeOK, RefreshState

LEMMA StampIs ==
  ASSUME NEW d, NEW st
  PROVE  /\ WithRefresh(d, st).db = d /\ WithRefresh(d, st).at = st.at
         /\ WithRefresh(d, st).busy = st.busy
BY DEF WithRefresh

\* What a thread reads now is as recent as what was settled, and honest.
LEMMA ReadNow ==
  ASSUME TInv, OrderInv
  PROVE  /\ Since(WithRefresh(db, state), settled)
         /\ Honest(WithRefresh(db, state))
BY Ranges, StampIs DEF OrderInv, Since, Honest

\* What is as recent as what was settled is as recent as any question.
LEMMA SinceAsked ==
  ASSUME TInv, AnswerInv, NEW r \in Requests, NEW s \in Summary, Since(s, settled)
  PROVE  Since(s, asked[r])
BY Ranges DEF AnswerInv, AnswersOf, Since, Summary

-----------------------------------------------------------------------------
\* Steps of the refresher.

\* The threads other than t stay where they are.
LEMMA Moved ==
  ASSUME TInv, NEW t \in Threads, NEW p, GoTo(t, p)
  PROVE  pc'[t] = p /\ \A u \in Threads \ {t} : pc'[u] = pc[u]
BY DEF TInv, TypeOK, GoTo

LEMMA BeginFresh ==
  ASSUME OneRefresher, TInv, LockInv, FreshInv, NEW t \in Refreshers, Begin(t)
  PROVE  FreshInv'
<1>1. /\ pc[t] = "idle" /\ GoTo(t, "mark") /\ cycles' = cycles + 1
      /\ UNCHANGED <<db, written, state, cached, locals, ghosts>>
  BY DEF Begin, flag
<1>2. t \in Threads /\ t \notin Requests BY Distinct DEF Threads
<1>3. pc'[t] = "mark" /\ \A u \in Threads \ {t} : pc'[u] = pc[u] BY <1>1, <1>2, Moved
<1>4. \A u \in Refreshers : u = t BY DEF OneRefresher
<1>5. \A r \in Requests : pc'[r] = pc[r] BY <1>2, <1>3 DEF Threads
<1>6. mine[t] = None BY <1>1 DEF TInv, LocalsInv
<1>7. OrderInv'
  BY <1>1, <1>3, <1>4, <1>6, Ranges DEF FreshInv, OrderInv, ghosts, locals, Recorded, Building, Ending
<1>8. CacheInv' BY <1>1, <1>5 DEF FreshInv, CacheInv, cached, locals, ghosts, Since, Honest, Storable
<1>9. PrimeInv'
  BY <1>3, <1>4 DEF PrimeInv, Building, Ending
<1>10. AnswerInv' BY <1>1, <1>5 DEF FreshInv, AnswerInv, AnswersOf, locals, ghosts, Since, Honest
<1> QED BY <1>7, <1>8, <1>9, <1>10 DEF FreshInv

LEMMA MarkFresh ==
  ASSUME OneRefresher, TInv, LockInv, FreshInv, NEW t \in Refreshers, MarkStarted(t)
  PROVE  FreshInv'
<1>1. /\ pc[t] = "mark" /\ GoTo(t, "preserve") /\ state'.at = state.at
      /\ mine' = [mine EXCEPT ![t] = cycles]
      /\ UNCHANGED <<stored, cached, gen, seen, own, ghosts>>
  BY DEF MarkStarted
<1>2. t \in Threads /\ t \notin Requests BY Distinct DEF Threads
<1>3. pc'[t] = "preserve" /\ \A u \in Threads \ {t} : pc'[u] = pc[u] BY <1>1, <1>2, Moved
<1>4. \A u \in Refreshers : u = t BY DEF OneRefresher
<1>5. \A r \in Requests : pc'[r] = pc[r] BY <1>2, <1>3 DEF Threads
<1>6. mine'[t] = cycles BY <1>1 DEF TInv, TypeOK
<1>7. OrderInv'
  BY <1>1, <1>3, <1>4, <1>6 DEF FreshInv, OrderInv, stored, ghosts, Recorded, Building, Ending
<1>8. CacheInv' BY <1>1, <1>5 DEF FreshInv, CacheInv, stored, cached, ghosts, Since, Honest, Storable
<1>9. PrimeInv' BY <1>3, <1>4 DEF PrimeInv, Building, Ending
<1>10. AnswerInv' BY <1>1, <1>5 DEF FreshInv, AnswerInv, AnswersOf, stored, ghosts, Since, Honest
<1> QED BY <1>7, <1>8, <1>9, <1>10 DEF FreshInv

LEMMA InvalidateFresh ==
  ASSUME OneRefresher, TInv, LockInv, FreshInv, NEW t \in Refreshers,
         Preserve(t) \/ InvalidateRecorded(t)
  PROVE  FreshInv'
<1>1. /\ pc[t] \in {"preserve", "invalidate"} /\ Invalidate(ok[t])
      /\ GoTo(t, IF pc[t] = "preserve" THEN "ingest" ELSE "release")
      /\ UNCHANGED <<stored, flag, locals, ghosts>>
  BY DEF Preserve, InvalidateRecorded
<1>2. t \in Threads /\ t \notin Requests BY Distinct DEF Threads
<1>3. /\ pc'[t] = IF pc[t] = "preserve" THEN "ingest" ELSE "release"
      /\ \A u \in Threads \ {t} : pc'[u] = pc[u]
  BY <1>1, <1>2, Moved
<1>4. \A u \in Refreshers : u = t BY DEF OneRefresher
<1>5. \A r \in Requests : pc'[r] = pc[r] BY <1>2, <1>3 DEF Threads
<1>6. /\ generation' = generation + 1 /\ (cache' # None => cache' = cache)
      /\ ~ok[t] => cache' = None
  BY <1>1 DEF Invalidate
<1>7. OrderInv'
  BY <1>1, <1>3, <1>4 DEF FreshInv, OrderInv, stored, flag, locals, ghosts, Recorded, Building, Ending
<1>8. \A u \in Threads : gen'[u] <= generation /\ gen'[u] # generation'
  BY <1>1, <1>6, Ranges DEF FreshInv, CacheInv, locals
<1>9. \A r \in Requests : ~Storable(r)' BY <1>8 DEF Storable, Threads
<1>10. CacheInv'
  <2>1. \A u \in Threads : gen'[u] <= generation' BY <1>1, <1>8, <1>6, Ranges DEF locals
  <2>2. cache' # None => Since(cache, settled)' /\ Honest(cache)'
    BY <1>1, <1>6 DEF FreshInv, CacheInv, stored, flag, ghosts, Since, Honest
  <2> QED BY <1>9, <2>1, <2>2 DEF CacheInv
<1>11. PrimeInv'
  BY <1>1, <1>3, <1>4, <1>6, <1>9 DEF PrimeInv, Building, Ending, locals
<1>12. AnswerInv'
  BY <1>1, <1>5 DEF FreshInv, AnswerInv, AnswersOf, stored, flag, locals, ghosts, Since, Honest
<1> QED BY <1>7, <1>10, <1>11, <1>12 DEF FreshInv

LEMMA IngestFresh ==
  ASSUME OneRefresher, TInv, LockInv, FreshInv, NEW t \in Refreshers, Ingest(t)
  PROVE  FreshInv'
<1>1. /\ pc[t] = "ingest" /\ GoTo(t, "record") /\ db' \in {db, cycles}
      /\ written' = [written EXCEPT ![cycles] = db']
      /\ UNCHANGED <<cycles, flag, cached, mine, gen, seen, own, ghosts>>
  BY DEF Ingest
<1>2. t \in Threads /\ t \notin Requests BY Distinct DEF Threads
<1>3. pc'[t] = "record" /\ \A u \in Threads \ {t} : pc'[u] = pc[u] BY <1>1, <1>2, Moved
<1>4. \A u \in Refreshers : u = t BY DEF OneRefresher
<1>5. \A r \in Requests : pc'[r] = pc[r] BY <1>2, <1>3 DEF Threads
<1>6. /\ written'[cycles] = db'
      /\ \A n \in Numbers : n # cycles => written'[n] = written[n]
  BY <1>1 DEF TInv, TypeOK
<1>7. state.at < cycles /\ settled < cycles /\ db <= db'
  BY <1>1, Ranges DEF FreshInv, OrderInv
<1>8. OrderInv'
  BY <1>1, <1>3, <1>4, <1>6, <1>7, Ranges
     DEF FreshInv, OrderInv, flag, ghosts, Recorded, Building, Ending
<1>9. \A n \in Numbers : n <= state.at => written'[n] = written[n]
  BY <1>6, <1>7, Ranges
<1>10. ASSUME NEW s \in Summary, Honest(s) PROVE Honest(s)'
  <2>1. s.at \in Numbers BY DEF Summary
  <2> QED BY <1>1, <1>9, <1>10, <2>1 DEF Honest, flag
<1>11. ASSUME NEW s, NEW n \in Numbers, n <= state.at, Since(s, n)
       PROVE  written'[n] <= s.db /\ n <= s.at
  BY <1>9, <1>11 DEF Since
<1>12. settled <= state.at /\ \A r \in Requests : asked[r] <= state.at
  BY Ranges DEF FreshInv, OrderInv, AnswerInv, AnswersOf
<1>13. CacheInv'
  <2>1. \A u \in Threads : gen'[u] <= generation' BY <1>1 DEF FreshInv, CacheInv, cached
  <2>2. cache' # None => Since(cache, settled)' /\ Honest(cache)'
    BY <1>1, <1>10, <1>11, <1>12, Ranges DEF FreshInv, CacheInv, cached, ghosts, Since
  <2>3. \A r \in Requests : Storable(r)' => Since(own[r], settled)'
    BY <1>1, <1>5, <1>11, <1>12, Ranges
       DEF FreshInv, CacheInv, cached, ghosts, Since, Storable
  <2> QED BY <2>1, <2>2, <2>3 DEF CacheInv
<1>14. PrimeInv' BY <1>3, <1>4 DEF PrimeInv, Building, Ending
<1>15. AnswerInv'
  <2> SUFFICES ASSUME NEW r \in Requests
               PROVE  /\ asked[r] <= settled /\ written'[asked[r]] <= written'[settled]
                      /\ own[r] # None => /\ written'[asked[r]] <= own[r].db
                                          /\ asked[r] <= own[r].at /\ Honest(own[r])'
                      /\ answer[r] # None => /\ written'[asked[r]] <= answer[r].db
                                             /\ asked[r] <= answer[r].at
                                             /\ Honest(answer[r])'
                      /\ pc[r] = "cached" => /\ asked[r] <= seen[r].at
                                             /\ seen[r].at <= state.at /\ seen[r].busy
    BY <1>1, <1>5 DEF FreshInv, AnswerInv, AnswersOf, Since, ghosts, flag
  <2>1. asked[r] <= settled /\ written'[asked[r]] <= written'[settled]
    BY <1>9, <1>12, Ranges DEF FreshInv, AnswerInv, AnswersOf
  <2>2. own'[r] = own[r] /\ answer'[r] = answer[r] BY <1>1 DEF ghosts
  <2>3. r \in Threads BY DEF Threads
  <2>4. own[r] # None => /\ written'[asked[r]] <= own[r].db
                         /\ asked[r] <= own[r].at /\ Honest(own[r])'
    BY <1>10, <1>11, <1>12, <2>2, <2>3, Ranges DEF FreshInv, AnswerInv, AnswersOf, Honest
  <2>5. answer[r] # None => /\ written'[asked[r]] <= answer[r].db
                            /\ asked[r] <= answer[r].at /\ Honest(answer[r])'
    BY <1>10, <1>11, <1>12, <2>2, <2>3, Ranges DEF FreshInv, AnswerInv, AnswersOf, Honest
  <2> QED BY <2>1, <2>4, <2>5 DEF FreshInv, AnswerInv, AnswersOf
<1> QED BY <1>8, <1>13, <1>14, <1>15 DEF FreshInv

LEMMA RecordFresh ==
  ASSUME OneRefresher, TInv, LockInv, FreshInv, NEW t \in Refreshers, Record(t)
  PROVE  FreshInv'
<1>1. /\ pc[t] = "record" /\ GoTo(t, "invalidate") /\ state'.at = mine[t]
      /\ UNCHANGED <<stored, cached, locals, ghosts>>
  BY DEF Record
<1>2. t \in Threads /\ t \notin Requests BY Distinct DEF Threads
<1>3. pc'[t] = "invalidate" /\ \A u \in Threads \ {t} : pc'[u] = pc[u] BY <1>1, <1>2, Moved
<1>4. \A u \in Refreshers : u = t BY DEF OneRefresher
<1>5. \A r \in Requests : pc'[r] = pc[r] BY <1>2, <1>3 DEF Threads
<1>6. state'.at = cycles /\ state.at < cycles /\ settled < cycles
  BY <1>1 DEF FreshInv, OrderInv, TInv, LocalsInv
<1>7. OrderInv'
  BY <1>1, <1>3, <1>4, <1>6, Ranges
     DEF FreshInv, OrderInv, stored, locals, ghosts, Recorded, Building, Ending
<1>8. ASSUME NEW s \in Summary, Honest(s) PROVE Honest(s)'
  <2>1. s.at \in Nat BY Ranges DEF Summary
  <2> QED BY <1>1, <1>6, <1>8, <2>1, Ranges DEF Honest, stored
<1>9. CacheInv'
  BY <1>1, <1>5, <1>8, Ranges DEF FreshInv, CacheInv, stored, cached, locals, ghosts, Since, Storable
<1>10. PrimeInv' BY <1>3, <1>4 DEF PrimeInv, Building, Ending
<1>11. AnswerInv'
  <2> SUFFICES ASSUME NEW r \in Requests
               PROVE  /\ own[r] # None => Honest(own[r])'
                      /\ answer[r] # None => Honest(answer[r])'
                      /\ pc[r] = "cached" => seen[r].at <= state'.at
    BY <1>1, <1>5 DEF FreshInv, AnswerInv, AnswersOf, Since, stored, locals, ghosts
  <2>1. r \in Threads BY DEF Threads
  <2>2. own'[r] = own[r] /\ answer'[r] = answer[r] BY <1>1 DEF locals, ghosts
  <2>3. own[r] # None => Honest(own[r])'
    BY <1>8, <2>1, <2>2, Ranges DEF FreshInv, AnswerInv, AnswersOf, Honest
  <2>4. answer[r] # None => Honest(answer[r])'
    BY <1>8, <2>1, <2>2, Ranges DEF FreshInv, AnswerInv, AnswersOf, Honest
  <2>5. pc[r] = "cached" => seen[r].at <= state'.at
    <3>1. seen[r].at \in Nat BY <2>1, Ranges DEF RefreshState
    <3> QED BY <1>6, <3>1, Ranges DEF FreshInv, AnswerInv, AnswersOf
  <2> QED BY <2>3, <2>4, <2>5
<1> QED BY <1>7, <1>9, <1>10, <1>11 DEF FreshInv

\* What is settled now is the refresh that was recorded.
LEMMA SettleAnswers ==
  ASSUME TInv, FreshInv, NEW t \in Refreshers, pc[t] \in Recorded, settled' = mine[t],
         UNCHANGED <<written, db, state, asked, answer>>,
         \A r \in Requests : own'[r] = own[r] /\ seen'[r] = seen[r] /\ pc'[r] = pc[r]
  PROVE  AnswerInv'
<1>1. mine[t] = cycles
  BY DEF FreshInv, OrderInv, TInv, LocalsInv, Recorded, Building, Ending
<1>2. settled < cycles /\ written[cycles] = db /\ written[settled] <= db
  BY DEF FreshInv, OrderInv, Recorded, Building, Ending
<1>3. \A r \in Requests : asked[r] <= cycles /\ written[asked[r]] <= db
  BY <1>2, Ranges DEF FreshInv, AnswerInv, AnswersOf
<1> QED BY <1>1, <1>2, <1>3 DEF FreshInv, AnswerInv, AnswersOf, Since, Honest

LEMMA ReleaseFresh ==
  ASSUME OneRefresher, TInv, LockInv, FreshInv, NEW t \in Refreshers, Release(t)
  PROVE  FreshInv'
<1>1. /\ pc[t] = "release" /\ UNCHANGED <<stored, flag, cached, asked, answer>>
  BY DEF Release
<1>2. t \in Threads /\ t \notin Requests BY Distinct DEF Threads
<1>3. \A u \in Refreshers : u = t BY DEF OneRefresher
<1>4. /\ mine[t] = cycles /\ settled < cycles /\ written[cycles] = db /\ state.at = cycles
      /\ \A r \in Requests : ~Storable(r)
  BY <1>1 DEF FreshInv, OrderInv, PrimeInv, Recorded, TInv, LocalsInv
<1>5. CASE ok[t]
  <2>1. GoTo(t, "lookup") /\ UNCHANGED <<mine, gen, seen, own, settled>> BY <1>5 DEF Release
  <2>2. pc'[t] = "lookup" /\ \A u \in Threads \ {t} : pc'[u] = pc[u] BY <1>2, <2>1, Moved
  <2>3. \A r \in Requests : pc'[r] = pc[r] BY <1>2, <2>2 DEF Threads
  <2>4. OrderInv'
    BY <1>1, <1>3, <1>4, <2>1, <2>2 DEF FreshInv, OrderInv, stored, flag, Recorded, Building, Ending
  <2>5. CacheInv'
    BY <1>1, <2>1, <2>3 DEF FreshInv, CacheInv, stored, flag, cached, Since, Honest, Storable
  <2>6. PrimeInv'
    BY <1>1, <1>3, <1>4, <2>1, <2>2, <2>3 DEF PrimeInv, Building, Ending, cached, Storable
  <2>7. AnswerInv'
    BY <1>1, <2>1, <2>3 DEF FreshInv, AnswerInv, AnswersOf, stored, flag, Since, Honest
  <2> QED BY <2>4, <2>5, <2>6, <2>7 DEF FreshInv
<1>6. CASE ~ok[t]
  <2>1. GoTo(t, "idle") /\ Forget(t) /\ settled' = mine[t] BY <1>6 DEF Release
  <2>2. pc'[t] = "idle" /\ \A u \in Threads \ {t} : pc'[u] = pc[u] BY <1>2, <2>1, Moved
  <2>3. \A r \in Requests : pc'[r] = pc[r] BY <1>2, <2>2 DEF Threads
  <2>4. /\ mine'[t] = None
        /\ \A r \in Requests : own'[r] = own[r] /\ seen'[r] = seen[r] /\ gen'[r] = gen[r]
        /\ \A u \in Threads : gen'[u] \in {gen[u], 0}
    BY <1>2, <2>1 DEF Forget, TInv, TypeOK, Threads
  <2>5. OrderInv'
    BY <1>1, <1>3, <1>4, <2>1, <2>2, <2>4, Ranges
       DEF FreshInv, OrderInv, stored, flag, Recorded, Building, Ending
  <2>6. cache' = None BY <1>1, <1>6 DEF FreshInv, PrimeInv, cached
  <2>7. \A r \in Requests : ~Storable(r)' BY <1>1, <1>4, <2>3, <2>4 DEF Storable, cached
  <2>8. \A u \in Threads : gen'[u] <= generation'
    BY <1>1, <2>4, Ranges DEF FreshInv, CacheInv, cached
  <2>9. CacheInv' BY <2>6, <2>7, <2>8 DEF CacheInv
  <2>10. PrimeInv' BY <1>3, <2>2 DEF PrimeInv, Building, Ending
  <2>11. AnswerInv'
    BY <1>1, <2>1, <2>3, <2>4, SettleAnswers DEF stored, flag, Recorded
  <2> QED BY <2>5, <2>9, <2>10, <2>11 DEF FreshInv
<1> QED BY <1>5, <1>6 DEF TInv, TypeOK

LEMMA FinishFresh ==
  ASSUME OneRefresher, TInv, LockInv, FreshInv, NEW t \in Refreshers, Finish(t)
  PROVE  FreshInv'
<1>1. /\ pc[t] = "finish" /\ UNCHANGED <<stored, cached, ghosts>> /\ state'.at = state.at
      /\ state'.busy => state.busy
  BY DEF Finish, flag
<1>2. t \in Threads /\ t \notin Requests BY Distinct DEF Threads
<1>3. \A u \in Refreshers : u = t BY DEF OneRefresher
<1>4. state.at = cycles BY <1>1 DEF FreshInv, OrderInv, Recorded, Ending
<1>5. PICK p \in {"idle", "settle"} :
        GoTo(t, p) /\ IF p = "idle" THEN Forget(t)
                      ELSE UNCHANGED <<mine, ok, gen, own>> /\ seen' = [seen EXCEPT ![t] = state']
  BY DEF Finish
<1>6. pc'[t] = p /\ \A u \in Threads \ {t} : pc'[u] = pc[u] BY <1>2, <1>5, Moved
<1>7. \A r \in Requests : pc'[r] = pc[r] BY <1>2, <1>6 DEF Threads
<1>8. /\ mine'[t] \in {None, mine[t]}
      /\ \A r \in Requests : own'[r] = own[r] /\ seen'[r] = seen[r] /\ gen'[r] = gen[r]
      /\ \A u \in Threads : gen'[u] \in {gen[u], 0}
      /\ p = "settle" => ok'[t] = ok[t] /\ seen'[t] = state'
  <2>1. CASE p = "idle"
    BY <1>2, <1>5, <2>1 DEF Forget, TInv, TypeOK, Threads
  <2>2. CASE p = "settle"
    BY <1>2, <1>5, <2>2 DEF TInv, TypeOK, Threads
  <2> QED BY <2>1, <2>2
<1>9. OrderInv'
  BY <1>1, <1>3, <1>6, <1>8 DEF FreshInv, OrderInv, stored, ghosts, Recorded, Building, Ending
<1>10. CacheInv'
  BY <1>1, <1>7, <1>8, Ranges DEF FreshInv, CacheInv, stored, cached, ghosts, Since, Honest, Storable
<1>11. PrimeInv'
  BY <1>1, <1>3, <1>4, <1>6, <1>7, <1>8
     DEF FreshInv, PrimeInv, stored, cached, Storable, Building, Ending
<1>12. AnswerInv' BY <1>1, <1>7, <1>8 DEF FreshInv, AnswerInv, AnswersOf, stored, ghosts, Since, Honest
<1> QED BY <1>9, <1>10, <1>11, <1>12 DEF FreshInv

LEMMA SettleFresh ==
  ASSUME OneRefresher, TInv, LockInv, FreshInv, NEW t \in Refreshers, Settle(t)
  PROVE  FreshInv'
<1>1. /\ pc[t] = "settle" /\ GoTo(t, "idle") /\ Forget(t) /\ settled' = mine[t]
      /\ UNCHANGED <<stored, lock, flag, asked, answer>>
  BY DEF Settle
<1>2. t \in Threads /\ t \notin Requests BY Distinct DEF Threads
<1>3. \A u \in Refreshers : u = t BY DEF OneRefresher
<1>4. pc'[t] = "idle" /\ \A u \in Threads \ {t} : pc'[u] = pc[u] BY <1>1, <1>2, Moved
<1>5. \A r \in Requests : pc'[r] = pc[r] BY <1>2, <1>4 DEF Threads
<1>6. /\ mine[t] = cycles /\ settled < cycles /\ written[cycles] = db /\ state.at = cycles
      /\ seen[t].at = cycles /\ (ok[t] => cache # None /\ db <= cache.db)
  BY <1>1 DEF FreshInv, OrderInv, PrimeInv, Recorded, Ending, TInv, LocalsInv
<1>7. /\ mine'[t] = None
      /\ \A r \in Requests : own'[r] = own[r] /\ seen'[r] = seen[r] /\ gen'[r] = gen[r]
      /\ \A u \in Threads : gen'[u] \in {gen[u], 0}
  BY <1>1, <1>2 DEF Forget, TInv, TypeOK, Threads
<1>8. OrderInv'
  BY <1>1, <1>3, <1>4, <1>6, <1>7, Ranges
     DEF FreshInv, OrderInv, stored, flag, Recorded, Building, Ending
<1>9. /\ generation' = generation + 1
      /\ cache' # None => cache' = WithRefresh(cache.db, seen[t]) /\ db <= cache.db
  BY <1>6 DEF Settle, Invalidate
<1>10. \A u \in Threads : gen'[u] <= generation' /\ gen[u] # generation'
  BY <1>7, <1>9, Ranges DEF FreshInv, CacheInv
<1>11. \A r \in Requests : ~Storable(r)' BY <1>7, <1>10 DEF Storable, Threads
<1>12. cache' # None => Since(cache, settled)' /\ Honest(cache)'
  BY <1>1, <1>6, <1>9, StampIs, Ranges DEF Since, Honest, stored, flag
<1>13. CacheInv' BY <1>10, <1>11, <1>12 DEF CacheInv
<1>14. PrimeInv' BY <1>3, <1>4 DEF PrimeInv, Building, Ending
<1>15. AnswerInv'
  BY <1>1, <1>5, <1>7, SettleAnswers DEF stored, flag, Recorded, Ending
<1> QED BY <1>8, <1>13, <1>14, <1>15 DEF FreshInv

-----------------------------------------------------------------------------
\* The preparation of a summary by the refresher.

LEMMA PrimeFresh ==
  ASSUME OneRefresher, TInv, LockInv, FreshInv, NEW t \in Refreshers, Prepare(t)
  PROVE  FreshInv'
<1>1. t \in Threads /\ t \notin Requests BY Distinct DEF Threads
<1>2. \A u \in Refreshers : u = t BY DEF OneRefresher
<1>3. pc[t] \in Building /\ UNCHANGED <<stored, flag, ghosts, generation, mine>>
  BY <1>1 DEF Prepare, Lookup, Hit, TryLock, Retry, Block, Read, Store, BuildFails, Built,
     Building, locals, cached
<1>4. PICK p \in (Building \ {"lookup"}) \cup {"finish"} : GoTo(t, p)
  BY <1>1 DEF Prepare, Lookup, Hit, TryLock, Retry, Block, Read, Store, BuildFails, Built,
     Building
<1>5. pc'[t] = p /\ \A u \in Threads \ {t} : pc'[u] = pc[u] BY <1>1, <1>4, Moved
<1>6. /\ \A r \in Requests : /\ own'[r] = own[r] /\ seen'[r] = seen[r] /\ gen'[r] = gen[r]
                             /\ pc'[r] = pc[r]
      /\ gen'[t] \in {gen[t], generation}
  BY <1>1, <1>5 DEF Prepare, Lookup, Hit, TryLock, Retry, Block, Read, Store, BuildFails,
     Built, locals, TInv, TypeOK, Threads
<1>7. /\ state.at = cycles /\ written[cycles] = db /\ settled < cycles
      /\ \A r \in Requests : Storable(r) => db <= own[r].db
  BY <1>3 DEF FreshInv, OrderInv, PrimeInv, Recorded, Building
<1>8. gen'[t] = generation
  BY <1>1, <1>3 DEF FreshInv, PrimeInv, Prepare, Lookup, Hit, TryLock, Retry, Block, Read,
     Store, BuildFails, Built, Building, locals, TInv, TypeOK
<1>9. p = "store" => own'[t].db = db /\ own'[t].at = state.at
  <2> SUFFICES ASSUME p = "store" PROVE own'[t] = WithRefresh(db, state)
    BY StampIs
  <2>1. Read(t)
    BY <1>1, <1>5 DEF Prepare, Lookup, Hit, TryLock, Retry, Block, Read, Store, BuildFails,
       Built, GoTo, TInv, TypeOK
  <2> QED BY <1>1, <2>1 DEF Read, TInv, TypeOK
<1>10. CASE Store(t)
  <2>1. /\ pc[t] = "store" /\ cache' = own[t] /\ p = "finish"
    BY <1>1, <1>5, <1>10 DEF Store, Hit, Built, FreshInv, PrimeInv, Building, GoTo, TInv, TypeOK
  <2>2. /\ own[t].db = db /\ own[t].at = state.at /\ own[t] # None
    BY <2>1 DEF FreshInv, PrimeInv, TInv, LocalsInv, Threads
  <2>3. Since(cache, settled)' /\ Honest(cache)' /\ cache' # None /\ db <= cache'.db
    BY <1>3, <1>7, <2>1, <2>2, Ranges
       DEF FreshInv, OrderInv, Since, Honest, stored, flag, ghosts
  <2>4. CacheInv'
    BY <1>2, <1>3, <1>6, <1>8, <2>3, Ranges
       DEF FreshInv, CacheInv, Since, Honest, Storable, stored, flag, ghosts, Threads
  <2>5. PrimeInv'
    BY <1>2, <1>3, <1>5, <1>6, <1>7, <2>1, <2>3 DEF PrimeInv, Storable, stored, Building, Ending
  <2>6. OrderInv'
    BY <1>2, <1>3, <1>5, <1>4 DEF FreshInv, OrderInv, stored, flag, ghosts, Recorded, Building, Ending
  <2>7. AnswerInv' BY <1>3, <1>6 DEF FreshInv, AnswerInv, AnswersOf, Since, Honest, stored, flag, ghosts
  <2> QED BY <2>4, <2>5, <2>6, <2>7 DEF FreshInv
<1>11. CASE ~Store(t)
  <2>1. cache' = cache /\ (p = "finish" => ok'[t] = FALSE)
    BY <1>1, <1>5, <1>11 DEF Prepare, Lookup, Hit, TryLock, Retry, Block, Read, BuildFails,
       Built, cached, GoTo, TInv, TypeOK
  <2>2. CacheInv'
    BY <1>2, <1>3, <1>6, <1>8, <2>1, Ranges
       DEF FreshInv, CacheInv, Since, Honest, Storable, stored, flag, ghosts, Threads
  <2>3. PrimeInv'
    BY <1>2, <1>3, <1>4, <1>5, <1>6, <1>7, <1>8, <1>9, <2>1
       DEF PrimeInv, Storable, stored, flag, Building, Ending
  <2>4. OrderInv'
    BY <1>2, <1>3, <1>5, <1>4 DEF FreshInv, OrderInv, stored, flag, ghosts, Recorded, Building, Ending
  <2>5. AnswerInv' BY <1>3, <1>6 DEF FreshInv, AnswerInv, AnswersOf, Since, Honest, stored, flag, ghosts
  <2> QED BY <2>2, <2>3, <2>4, <2>5 DEF FreshInv
<1> QED BY <1>10, <1>11

-----------------------------------------------------------------------------
\* Steps of the requests.

\* A request that moves and leaves the cache as it is.
LEMMA RequestMoves ==
  ASSUME OneRefresher, TInv, LockInv, FreshInv, NEW r \in Requests, NEW p, GoTo(r, p),
         UNCHANGED <<stored, state, settled, cache, generation, mine, ok>>,
         \A u \in Threads \ {r} : gen'[u] = gen[u] /\ own'[u] = own[u] /\ seen'[u] = seen[u],
         gen'[r] <= generation,
         p = "store" => /\ own'[r].db = db /\ Since(own'[r], settled)
                        /\ \A t \in Refreshers : pc[t] # "release",
         AnswerInv'
  PROVE  FreshInv'
<1>1. r \in Threads /\ \A t \in Refreshers : t \in Threads /\ t # r BY Distinct DEF Threads
<1>2. pc'[r] = p /\ \A u \in Threads \ {r} : pc'[u] = pc[u] BY <1>1, Moved
<1>3. OrderInv' BY <1>1, <1>2 DEF FreshInv, OrderInv, stored
<1>4. \A q \in Requests : q # r /\ Storable(q)' => Storable(q)
  BY <1>2 DEF Storable, Threads
<1>5. CacheInv'
  <2>1. \A u \in Threads : gen'[u] <= generation' BY DEF FreshInv, CacheInv
  <2>2. cache' # None => Since(cache, settled)' /\ Honest(cache)'
    BY DEF FreshInv, CacheInv, Since, Honest, stored
  <2>3. ASSUME NEW q \in Requests, Storable(q)' PROVE Since(own[q], settled)'
    <3>1. CASE q = r BY <1>2, <2>3, <3>1 DEF Storable, Since, stored
    <3>2. CASE q # r
      <4>1. Since(own[q], settled) BY <1>4, <2>3, <3>2 DEF FreshInv, CacheInv
      <4> QED BY <3>2, <4>1 DEF Since, stored, Threads
    <3> QED BY <3>1, <3>2
  <2> QED BY <2>1, <2>2, <2>3 DEF CacheInv
<1>6. PrimeInv'
  <2> SUFFICES ASSUME NEW t \in Refreshers
               PROVE  /\ pc[t] = "release" => \A q \in Requests : ~Storable(q)'
                      /\ pc[t] \in Building \cup Ending =>
                           \A q \in Requests : Storable(q)' => db <= own'[q].db
    BY <1>1, <1>2 DEF FreshInv, PrimeInv, stored
  <2>1. pc[t] = "release" => \A q \in Requests : ~Storable(q)'
    BY <1>2, <1>4 DEF FreshInv, PrimeInv, Storable
  <2>2. pc[t] \in Building \cup Ending =>
          \A q \in Requests : Storable(q)' => db <= own'[q].db
    BY <1>2, <1>4, Ranges DEF FreshInv, PrimeInv, Storable, Threads
  <2> QED BY <2>1, <2>2
<1> QED BY <1>3, <1>5, <1>6 DEF FreshInv

LEMMA FreshRequest ==
  ASSUME OneRefresher, TInv, LockInv, FreshInv, NEW r \in Requests,
         Arrive(r) \/ Snapshot(r) \/ Cached(r) \/ Health(r)
  PROVE  FreshInv'
<1>1. r \in Threads /\ r \notin Refreshers BY Distinct DEF Threads
<1>2. UNCHANGED <<stored, state, settled, cache, generation, mine, ok>>
  BY <1>1 DEF Arrive, Snapshot, Cached, Health, Answer, Forget, flag, cached, locals, ghosts
<1>3. PICK p \in {"snapshot", "health", "cached", "lookup", "try", "over"} : GoTo(r, p)
  BY DEF Arrive, Snapshot, Cached, Health, Answer
<1>4. pc'[r] = p /\ \A u \in Threads \ {r} : pc'[u] = pc[u] BY <1>1, <1>3, Moved
<1>5. /\ \A u \in Threads \ {r} : gen'[u] = gen[u] /\ own'[u] = own[u] /\ seen'[u] = seen[u]
      /\ gen'[r] \in {gen[r], 0} /\ own'[r] \in {own[r], None}
  BY <1>1 DEF Arrive, Snapshot, Cached, Health, Answer, Forget, locals, TInv, TypeOK
<1>6. gen'[r] <= generation BY <1>1, <1>5, Ranges DEF FreshInv, CacheInv
<1>7. \A q \in Requests \ {r} : asked'[q] = asked[q] /\ answer'[q] = answer[q]
  BY DEF Arrive, Snapshot, Cached, Health, Answer, ghosts, TInv, TypeOK
<1>8. /\ asked'[r] <= settled /\ written[asked'[r]] <= written[settled]
      /\ own'[r] # None => Since(own'[r], asked'[r]) /\ Honest(own'[r])
      /\ answer'[r] # None => Since(answer'[r], asked'[r]) /\ Honest(answer'[r])
      /\ p = "cached" => /\ asked'[r] <= seen'[r].at /\ seen'[r].at <= state.at
                         /\ seen'[r].busy
  <2>1. CASE Arrive(r)
    <3>1. /\ asked'[r] = settled /\ UNCHANGED <<own, answer>> /\ p # "cached"
          /\ pc[r] = "idle"
      BY <1>4, <2>1 DEF Arrive, locals, TInv, TypeOK, GoTo
    <3>2. own[r] = None /\ answer[r] = None BY <3>1 DEF FreshInv, AnswerInv, AnswersOf
    <3> QED BY <3>1, <3>2, Ranges
  <2>2. CASE Snapshot(r)
    <3>1. /\ UNCHANGED <<own, asked, answer>> /\ seen'[r] = state
          /\ p = "cached" => state.busy
      BY <1>1, <1>4, <2>2 DEF Snapshot, ghosts, TInv, TypeOK, GoTo
    <3> QED BY <3>1, Ranges DEF FreshInv, AnswerInv, AnswersOf, OrderInv
  <2>3. CASE Cached(r)
    <3>1. /\ UNCHANGED asked /\ own'[r] = None /\ p # "cached" /\ pc[r] = "cached"
          /\ answer'[r] # None => cache # None /\ answer'[r] = WithRefresh(cache.db, seen[r])
      BY <1>1, <1>4, <2>3 DEF Cached, Answer, Forget, TInv, TypeOK, GoTo
    <3>2. cache # None => /\ written[settled] <= cache.db /\ cache.db \in Nat
      BY Ranges DEF FreshInv, CacheInv, Since, Summary
    <3> QED BY <3>1, <3>2, StampIs, Ranges DEF FreshInv, AnswerInv, AnswersOf, Since, Honest
  <2>4. CASE Health(r)
    <3>1. UNCHANGED <<own, asked, answer>> /\ p # "cached"
      BY <1>4, <2>4 DEF Health, ghosts, TInv, TypeOK, GoTo
    <3> QED BY <3>1 DEF FreshInv, AnswerInv, AnswersOf
  <2> QED BY <2>1, <2>2, <2>3, <2>4
<1>9. AnswersOf(r)'
  BY <1>2, <1>3, <1>4, <1>5, <1>8 DEF AnswersOf, Since, Honest, stored
<1>10. AnswerInv'
  <2> SUFFICES ASSUME NEW q \in Requests, q # r PROVE AnswersOf(q)'
    BY <1>9 DEF AnswerInv
  <2> QED
    BY <1>2, <1>4, <1>5, <1>7
       DEF FreshInv, AnswerInv, AnswersOf, Since, Honest, stored, Threads
<1> QED BY <1>2, <1>3, <1>5, <1>6, <1>10, RequestMoves

LEMMA RequestPrepares ==
  ASSUME OneRefresher, TInv, LockInv, FreshInv, NEW r \in Requests,
         Lookup(r) \/ TryLock(r) \/ Retry(r) \/ Block(r) \/ Read(r) \/ BuildFails(r)
  PROVE  FreshInv'
<1>1. r \in Threads /\ r \notin Refreshers BY Distinct DEF Threads
<1>2. UNCHANGED <<stored, state, settled, cache, generation, mine, ok, asked>>
  BY <1>1 DEF Lookup, TryLock, Retry, Block, Read, BuildFails, Built, Answer, Forget, flag,
     cached, locals, ghosts
<1>3. PICK p \in {"try", "retry", "read", "block", "snapshot", "cached", "store", "over"} :
        GoTo(r, p)
  BY <1>1 DEF Lookup, TryLock, Retry, Block, Read, BuildFails, Built, Answer
<1>4. pc'[r] = p /\ \A u \in Threads \ {r} : pc'[u] = pc[u] BY <1>1, <1>3, Moved
<1>5. /\ \A u \in Threads \ {r} : gen'[u] = gen[u] /\ own'[u] = own[u] /\ seen'[u] = seen[u]
      /\ gen'[r] \in {gen[r], 0, generation}
  BY <1>1 DEF Lookup, TryLock, Retry, Block, Read, BuildFails, Built, Answer, Forget, locals,
     TInv, TypeOK
<1>6. gen'[r] <= generation BY <1>1, <1>5, Ranges DEF FreshInv, CacheInv
<1>7. \A q \in Requests \ {r} : answer'[q] = answer[q]
  BY <1>1 DEF Lookup, TryLock, Retry, Block, Read, BuildFails, Built, Answer, ghosts, TInv, TypeOK
<1>8. /\ own'[r] \in {own[r], None, WithRefresh(db, state)}
      /\ \/ answer'[r] \in {answer[r], None, WithRefresh(db, state)}
         \/ Hit(r) /\ answer'[r] = cache
      /\ p = "cached" => seen'[r] = state /\ state.busy
      /\ p = "store" => Read(r) /\ own'[r] = WithRefresh(db, state)
  BY <1>1, <1>4 DEF Lookup, TryLock, Retry, Block, Read, BuildFails, Built, Answer, Forget,
     locals, ghosts, GoTo, TInv, TypeOK
<1>9. /\ WithRefresh(db, state) \in Summary
      /\ Since(WithRefresh(db, state), asked[r]) /\ Honest(WithRefresh(db, state))
  BY ReadNow, SinceAsked, StampType, Ranges DEF FreshInv, TInv, TypeOK
<1>10. Hit(r) => Since(cache, asked[r]) /\ Honest(cache)
  BY SinceAsked, Ranges DEF FreshInv, CacheInv, Hit
<1>11. p = "store" => /\ own'[r].db = db /\ Since(own'[r], settled)
                      /\ \A t \in Refreshers : pc[t] # "release"
  <2> SUFFICES ASSUME p = "store"
               PROVE  /\ own'[r].db = db /\ Since(own'[r], settled)
                      /\ \A t \in Refreshers : pc[t] # "release"
    OBVIOUS
  <2>1. Read(r) /\ own'[r] = WithRefresh(db, state) BY <1>8
  <2>2. \A t \in Refreshers : pc[t] # "release"
    BY <1>1, <2>1 DEF Read, LockInv, Holding, Locked, Threads
  <2> QED BY <2>1, <2>2, ReadNow, StampIs DEF FreshInv
<1>12. AnswersOf(r)'
  <2>1. asked[r] <= settled /\ written[asked[r]] <= written[settled]
    BY DEF FreshInv, AnswerInv, AnswersOf
  <2>2. own'[r] # None => Since(own'[r], asked[r]) /\ Honest(own'[r])
    BY <1>8, <1>9 DEF FreshInv, AnswerInv, AnswersOf
  <2>3. answer'[r] # None => Since(answer'[r], asked[r]) /\ Honest(answer'[r])
    BY <1>8, <1>9, <1>10 DEF FreshInv, AnswerInv, AnswersOf
  <2>4. p = "cached" => /\ asked[r] <= seen'[r].at /\ seen'[r].at <= state.at
                        /\ seen'[r].busy
    BY <1>8, <2>1, Ranges DEF FreshInv, OrderInv
  <2> QED BY <1>2, <1>3, <1>4, <2>1, <2>2, <2>3, <2>4 DEF AnswersOf, Since, Honest, stored
<1>13. AnswerInv'
  <2> SUFFICES ASSUME NEW q \in Requests, q # r PROVE AnswersOf(q)'
    BY <1>12 DEF AnswerInv
  <2> QED
    BY <1>2, <1>4, <1>5, <1>7 DEF FreshInv, AnswerInv, AnswersOf, Since, Honest, stored, Threads
<1> QED BY <1>2, <1>3, <1>5, <1>6, <1>11, <1>13, RequestMoves

LEMMA RequestStores ==
  ASSUME OneRefresher, TInv, LockInv, FreshInv, NEW r \in Requests, Store(r)
  PROVE  FreshInv'
<1>1. r \in Threads /\ \A t \in Refreshers : t \in Threads /\ t # r BY Distinct DEF Threads
<1>2. /\ pc[r] = "store" /\ GoTo(r, "over") /\ Forget(r)
      /\ UNCHANGED <<stored, flag, settled, asked, generation>>
      /\ answer' = [answer EXCEPT ![r] = IF Hit(r) THEN cache ELSE own[r]]
  BY <1>1 DEF Store, Built, Answer, cached
<1>3. pc'[r] = "over" /\ \A u \in Threads \ {r} : pc'[u] = pc[u] BY <1>1, <1>2, Moved
<1>4. /\ mine' = mine /\ ok' = ok /\ gen'[r] = 0 /\ own'[r] = None
      /\ \A u \in Threads \ {r} : gen'[u] = gen[u] /\ own'[u] = own[u] /\ seen'[u] = seen[u]
  BY <1>1, <1>2 DEF Forget, TInv, TypeOK
<1>5. own[r] # None BY <1>1, <1>2 DEF TInv, LocalsInv
<1>6. cache' = cache \/ (Storable(r) /\ cache' = own[r])
  BY <1>2 DEF Store, Storable, cached
<1>7. cache' # None => Since(cache', settled) /\ Honest(cache')
  <2>1. Honest(own[r]) BY <1>5 DEF FreshInv, AnswerInv, AnswersOf
  <2> QED BY <1>6, <2>1 DEF FreshInv, CacheInv
<1>8. OrderInv' BY <1>1, <1>2, <1>3, <1>4 DEF FreshInv, OrderInv, stored, flag
<1>9. \A q \in Requests : Storable(q)' => q # r /\ Storable(q)
  BY <1>2, <1>3, <1>4 DEF Storable, Threads
<1>10. CacheInv'
  <2>1. \A u \in Threads : gen'[u] <= generation'
    BY <1>2, <1>4, Ranges DEF FreshInv, CacheInv
  <2>2. cache' # None => Since(cache, settled)' /\ Honest(cache)'
    BY <1>2, <1>7 DEF Since, Honest, stored, flag
  <2>3. \A q \in Requests : Storable(q)' => Since(own[q], settled)'
    BY <1>2, <1>4, <1>9 DEF FreshInv, CacheInv, Since, stored, Threads
  <2> QED BY <2>1, <2>2, <2>3 DEF CacheInv
<1>11. PrimeInv'
  <2> SUFFICES ASSUME NEW t \in Refreshers
               PROVE  /\ pc[t] = "release" /\ ~ok[t] => cache' = None
                      /\ pc[t] \in Ending /\ ok[t] => cache' # None /\ db <= cache'.db
    BY <1>1, <1>2, <1>3, <1>4, <1>9 DEF FreshInv, PrimeInv, stored, flag, Threads
  <2>1. pc[t] = "release" /\ ~ok[t] => cache' = None
    BY <1>6 DEF FreshInv, PrimeInv
  <2>2. pc[t] \in Ending /\ ok[t] => cache' # None /\ db <= cache'.db
    BY <1>5, <1>6 DEF FreshInv, PrimeInv
  <2> QED BY <2>1, <2>2
<1>12. answer'[r] = (IF Hit(r) THEN cache ELSE own[r])
       /\ \A q \in Requests \ {r} : answer'[q] = answer[q]
  BY <1>2 DEF TInv, TypeOK
<1>13. Hit(r) => Since(cache, asked[r]) /\ Honest(cache)
  BY SinceAsked, Ranges DEF FreshInv, CacheInv, Hit
<1>14. AnswersOf(r)'
  BY <1>2, <1>3, <1>4, <1>5, <1>12, <1>13
     DEF FreshInv, AnswerInv, AnswersOf, Since, Honest, stored, flag
<1>15. AnswerInv'
  <2> SUFFICES ASSUME NEW q \in Requests, q # r PROVE AnswersOf(q)'
    BY <1>14 DEF AnswerInv
  <2> QED
    BY <1>2, <1>3, <1>4, <1>12
       DEF FreshInv, AnswerInv, AnswersOf, Since, Honest, stored, flag, Threads
<1> QED BY <1>8, <1>10, <1>11, <1>15 DEF FreshInv

LEMMA NextFresh ==
  ASSUME OneRefresher
  PROVE  TInv /\ LockInv /\ FreshInv /\ [Next]_vars => FreshInv'
<1> SUFFICES ASSUME TInv, LockInv, FreshInv, [Next]_vars PROVE FreshInv' OBVIOUS
<1>1. ASSUME NEW t \in Refreshers, Begin(t) \/ Cycle(t) PROVE FreshInv'
  BY <1>1, BeginFresh, MarkFresh, InvalidateFresh, IngestFresh, RecordFresh, ReleaseFresh,
     FinishFresh, SettleFresh, PrimeFresh DEF Cycle
<1>2. ASSUME NEW r \in Requests, Arrive(r) \/ Serve(r) PROVE FreshInv'
  BY <1>2, FreshRequest, RequestPrepares, RequestStores DEF Serve, Prepare
<1>3. ASSUME UNCHANGED vars \/ Expire PROVE FreshInv'
  <2>1. UNCHANGED <<stored, state, cache, generation, pc, locals, ghosts>>
    BY <1>3 DEF vars, Expire, flag, cached
  <2> QED
    BY <2>1 DEF FreshInv, OrderInv, CacheInv, PrimeInv, AnswerInv, AnswersOf, Since, Honest,
                Storable, stored, locals, ghosts
<1> QED BY <1>1, <1>2, <1>3 DEF Next, AllOver

LEMMA AlwaysFresh == ASSUME OneRefresher PROVE Spec => []FreshInv
<1>1. Init => LockInv BY DEF Init, LockInv, Holding, Locked
<1>2. Init => FreshInv
  <2> SUFFICES ASSUME Init PROVE FreshInv OBVIOUS
  <2> USE NumbersAreNatural DEF Init, NoRefresh
  <2>1. OrderInv BY DEF OrderInv, Recorded, Building, Ending, Threads
  <2>2. CacheInv BY DEF CacheInv, Storable, Threads
  <2>3. PrimeInv BY DEF PrimeInv, Building, Ending, Threads
  <2>4. AnswerInv BY DEF AnswerInv, AnswersOf, Threads
  <2> QED BY <2>1, <2>2, <2>3, <2>4 DEF FreshInv
<1>3. TInv /\ LockInv /\ FreshInv /\ [Next]_vars => FreshInv' BY NextFresh
<1> QED BY <1>1, <1>2, <1>3, InitTypes, NextTypes, NextLock, PTL DEF Spec

\* With one refresher no request is answered from before the last refresh that
\* ended before it came in, whatever expires or fails in between.
THEOREM FreshAnswers == ASSUME OneRefresher PROVE Spec => []AnswersAreFresh
<1>1. FreshInv /\ TInv => AnswersAreFresh
  BY Ranges DEF FreshInv, AnswerInv, AnswersOf, Since, AnswersAreFresh
<1>2. Spec => []TInv BY InitTypes, NextTypes, PTL DEF Spec
<1> QED BY <1>1, <1>2, AlwaysFresh, PTL

\* With one refresher a summary that says no refresh is in progress has the
\* data of the refresh it names.
THEOREM HonestStamps == ASSUME OneRefresher PROVE Spec => []StampsAreHonest
<1>1. FreshInv /\ TInv => StampsAreHonest
  BY Ranges DEF FreshInv, AnswerInv, AnswersOf, CacheInv, Honest, StampsAreHonest
<1>2. Spec => []TInv BY InitTypes, NextTypes, PTL DEF Spec
<1> QED BY <1>1, <1>2, AlwaysFresh, PTL

=============================================================================
