-------------------------- MODULE StrategyRollout --------------------------
(***************************************************************************)
(* The rollout of strategy candidates in the running bot: prod/src/main.ts *)
(* with rl/kpiRolloutMonitor.ts and rl/strategyRollback.ts. A payload in   *)
(* the global object makes the kernel run with a patched registry. After   *)
(* each tick that leaves CPU to spare the loop measures the families the   *)
(* payload influences, compares the windows with a baseline, and withdraws *)
(* the shadow candidate of a family whose regression is confirmed.         *)
(*                                                                         *)
(* Half of the state lives in the heap of the virtual machine and is lost  *)
(* when the game reloads the bot; the other half lives in Memory.          *)
(* Only the age of a pending rollback matters, so game time is not here.   *)
(***************************************************************************)
EXTENDS Naturals, Sequences, FiniteSets, Functions

CONSTANTS
  Families,        \* families of strategies
  Entries,         \* strategy ids of the registry
  Order,           \* the entries, in the order of the registry
  FamilyOf,        \* entry -> family
  DefaultStatus,   \* entry -> rollout status when the bot is loaded
  RollbackTo,      \* entry -> rollback.rollbackToStrategyId, or None
  Payloads,        \* runtime policy parameter payloads, or None
  None,
  Metrics,         \* the metrics with a finite threshold
  Windows,         \* KPI windows a summary may yield: Metrics -> Nat
  DropThreshold,   \* metric -> the drop that is a regression, in percent
  MinWindow,       \* config.minWindowSize
  MaxRecent,       \* kpiWindowMaxLength
  HistoryLimit,    \* ROLLBACK_HISTORY_LIMIT
  SummaryInterval, \* RUNTIME_SUMMARY_INTERVAL
  Disturbances     \* what may happen besides a quiet tick, see Allowed

Statuses == {"incumbent", "shadow", "disabled", "retired"}

\* A pending rollback in the heap, and in Memory. Its age is in ticks: 0 this
\* tick, 1 the one before, 2 anything earlier.
Pending == [age : 0 .. 2, confirmed : BOOLEAN, disabled : Entries, target : Entries]
MemPending == [age : 0 .. 2, disabled : Entries, target : Entries]

ASSUME RegistryAssumption ==
  /\ FamilyOf \in [Entries -> Families]
  /\ DefaultStatus \in [Entries -> Statuses]
  /\ RollbackTo \in [Entries -> Entries \cup {None}]
  /\ Order \in Seq(Entries)
  /\ IsFiniteSet(Entries)

ASSUME NoneAssumption == None \notin Entries \cup Pending \cup MemPending

ASSUME ConfigAssumption ==
  /\ Windows \subseteq [Metrics -> Nat]
  /\ DropThreshold \in [Metrics -> 1 .. 100]
  /\ MinWindow \in Nat \ {0}
  /\ MaxRecent \in Nat \ {0}
  /\ HistoryLimit \in Nat \ {0}
  /\ SummaryInterval \in Nat \ {0}
  /\ Disturbances \subseteq {"unmonitored", "event", "noColony", "reload"}

VARIABLES
  clock,       \* Game.time modulo the summary interval
  payload,     \* the payload of the bundle that is loaded
  \* in the heap
  status,      \* strategyRegistryState.entries
  recent,      \* recentKpiWindows
  baseline,    \* baselineKpiWindows, <<>> for none
  pending,     \* pendingRollbacksByFamily
  \* in Memory
  kpiBaseline, \* Memory.kpiBaseline: an average, by the windows it averages
  memPending,  \* Memory.strategyRollback
  history      \* Memory.strategyRollbackHistory: the ids disabled

vars == <<clock, payload, status, recent, baseline, pending, kpiBaseline,
          memPending, history>>

Allowed(disturbance) == disturbance \in Disturbances

LastN(s, n) == IF Len(s) > n THEN SubSeq(s, Len(s) - n + 1, Len(s)) ELSE s
-----------------------------------------------------------------------------
\* runtimePolicyParameters.ts: what a payload targets.

\* The explicit ids of a payload win over its family.
Targets(p) ==
  IF p = None THEN {}
  ELSE IF p.ids # {} THEN p.ids \cap Entries
  ELSE {e \in Entries : FamilyOf[e] = p.family}

\* The families the loop monitors: that of the payload and that of its
\* strategyVariantId, if some entry was patched.
Monitored(p) ==
  IF Targets(p) = {} THEN {}
  ELSE {f \in Families : \/ f = p.family /\ \E e \in Entries : FamilyOf[e] = f
                         \/ \E e \in Entries : e = p.variant /\ FamilyOf[e] = f}
-----------------------------------------------------------------------------
\* kpiRolloutMonitor.ts

Total(windows, m) == SumFunction([i \in DOMAIN windows |-> windows[i][m]])

\* (baseline - current) / baseline >= threshold, without the divisions.
Dropped(windows, base, m) ==
  LET was == Total(base, m) * Len(windows)
      now == Total(windows, m) * Len(base)
  IN was > 0 /\ 100 * was >= 100 * now + DropThreshold[m] * was

CheckKpiRegression(windows, base) ==
  /\ Len(windows) >= MinWindow
  /\ Len(base) >= MinWindow
  /\ \E m \in Metrics : Dropped(windows, base, m)
-----------------------------------------------------------------------------
\* strategyRollback.ts, on records of its books [status, pending, memory,
\* applied], where applied holds what was withdrawn in this tick. The families
\* do not touch each other's part.

Books == [status |-> status, pending |-> pending, memory |-> memPending,
          applied |-> {}]

Older(p) == IF p = None THEN None
            ELSE [p EXCEPT !.age = IF p.age = 2 THEN 2 ELSE p.age + 1]

\* A tick passes.
Aged(b) == [status |-> b.status,
            pending |-> [f \in Families |-> Older(b.pending[f])],
            memory |-> [f \in Families |-> Older(b.memory[f])],
            applied |-> b.applied]

Candidates(st, f) == {e \in Entries : FamilyOf[e] = f /\ st[e] = "shadow"}

\* findCandidateStrategyByFamily: the first shadow entry of the family.
Candidate(st, f) ==
  LET at == {i \in DOMAIN Order : Order[i] \in Candidates(st, f)}
  IN IF at = {} THEN None ELSE Order[CHOOSE i \in at : \A j \in at : i <= j]

\* The candidate has a target of the same family that is not a shadow.
CanRollBack(st, f) ==
  LET c == Candidate(st, f)
  IN /\ c # None
     /\ RollbackTo[c] \notin {None, c}
     /\ st[RollbackTo[c]] # "shadow"
     /\ FamilyOf[RollbackTo[c]] = f

\* mutants: the first report is enough; a report confirms itself only
ConfirmsAtOnce(b, f) == TRUE
ConfirmsInTheSameTick(b, f) == b.pending[f] # None /\ b.pending[f].age = 0

\* The same rollback was asked for in the tick before.
Confirms(b, f) ==
  LET c == Candidate(b.status, f)
      p == b.pending[f]
  IN p # None /\ p.age = 1 /\ p.disabled = c /\ p.target = RollbackTo[c]

\* executeRollback for each of the regressed families.
ExecuteRollback(b, regressed) ==
  LET Asked(f) == [age |-> 0, disabled |-> Candidate(b.status, f),
                   target |-> RollbackTo[Candidate(b.status, f)]]
  IN [status |-> b.status,
      pending |-> [f \in Families |->
         IF f \notin regressed THEN b.pending[f]
         ELSE IF ~CanRollBack(b.status, f) THEN None
         ELSE [age |-> 0, confirmed |-> Confirms(b, f),
               disabled |-> Asked(f).disabled, target |-> Asked(f).target]],
      memory |-> [f \in Families |->
         IF f \notin regressed THEN b.memory[f]
         ELSE IF ~CanRollBack(b.status, f) THEN None ELSE Asked(f)],
      applied |-> b.applied]

\* Rollbacks in Memory whose tick is over.
Expired(b) ==
  {f \in Families : /\ b.memory[f] # None
                    /\ IF b.pending[f] = None THEN b.memory[f].age > 1
                       ELSE b.pending[f].age > 1}

\* mutant: what was confirmed waits for the next tick
ConfirmedNextTick(b) ==
  {f \in Families \ Expired(b) : /\ b.memory[f] # None
                                 /\ b.pending[f] # None
                                 /\ b.pending[f].confirmed /\ b.pending[f].age = 1}

Confirmed(b) ==
  {f \in Families \ Expired(b) : /\ b.memory[f] # None
                                 /\ b.pending[f] # None
                                 /\ b.pending[f].confirmed}

\* Confirmed rollbacks that agree with Memory and with the registry.
Due(b) ==
  {f \in Confirmed(b) :
     LET p == b.pending[f] IN
     /\ p.disabled = b.memory[f].disabled
     /\ p.target = b.memory[f].target
     /\ FamilyOf[p.disabled] = FamilyOf[p.target]
     /\ b.status[p.target] # "shadow"}

\* mutants: the two entries are swapped; the clone is that of the defaults
RolledSwapped(st, withdrawn, restored) ==
  [e \in Entries |-> IF e \in withdrawn THEN "incumbent"
                     ELSE IF e \in restored THEN "disabled" ELSE st[e]]
RolledFromDefaults(st, withdrawn, restored) ==
  [e \in Entries |-> IF e \in restored THEN "incumbent"
                     ELSE IF e \in withdrawn THEN "disabled" ELSE DefaultStatus[e]]

\* The clone of the registry after a rollback.
Rolled(st, withdrawn, restored) ==
  [e \in Entries |-> IF e \in restored THEN "incumbent"
                     ELSE IF e \in withdrawn THEN "disabled" ELSE st[e]]

\* applyPendingRollbacks.
ApplyPendingRollbacks(b) ==
  LET over == Expired(b) \cup Confirmed(b)
      withdrawn == {b.pending[f].disabled : f \in Due(b)}
      restored == {b.pending[f].target : f \in Due(b)}
  IN [status |-> IF Due(b) = {} THEN b.status ELSE Rolled(b.status, withdrawn, restored),
      pending |-> [f \in Families |-> IF f \in over THEN None ELSE b.pending[f]],
      memory |-> [f \in Families |-> IF f \in over THEN None ELSE b.memory[f]],
      applied |-> b.applied \cup withdrawn]
-----------------------------------------------------------------------------
\* main.ts

Init ==
  /\ clock = 0
  /\ payload \in Payloads
  /\ status = DefaultStatus
  /\ recent = [f \in Families |-> <<>>]
  /\ baseline = [f \in Families |-> <<>>]
  /\ pending = [f \in Families |-> None]
  /\ kpiBaseline = [f \in Families |-> <<>>]
  /\ memPending = [f \in Families |-> None]
  /\ history = <<>>

TimePasses == clock' = (clock + 1) % SummaryInterval

Listings(S) == {s \in [1 .. Cardinality(S) -> S] : IsInjective(s)}

\* The families of one sweep are in no particular order.
Keep(b) ==
  /\ status' = b.status
  /\ pending' = b.pending
  /\ memPending' = b.memory
  /\ \E s \in Listings(b.applied) : history' = LastN(history \o s, HistoryLimit)

\* What loop leaves of the books after its own call of applyPendingRollbacks,
\* and runStrategyRolloutMonitoring after another.
Swept == ApplyPendingRollbacks(Aged(Books))
SweptTwice == ApplyPendingRollbacks(Swept)

\* The tick ends short of CPU, the kernel throws, or the game skips the bot:
\* what follows kernel.run does not happen.
Unmonitored ==
  /\ Allowed("unmonitored")
  /\ TimePasses
  /\ Keep(Aged(Books))
  /\ UNCHANGED <<payload, recent, baseline, kpiBaseline>>

\* The payload influences no family.
Unconsumed ==
  /\ Monitored(payload) = {}
  /\ TimePasses
  /\ Keep(Swept)
  /\ UNCHANGED <<payload, recent, baseline, kpiBaseline>>

\* The kernel returns no summary: the tick is not one of the cadence and no
\* event asks for one, or there is no colony.
NoSummary ==
  /\ Monitored(payload) # {}
  /\ clock # 0 \/ Allowed("noColony")
  /\ TimePasses
  /\ Keep(SweptTwice)
  /\ UNCHANGED <<payload, recent, baseline, kpiBaseline>>

\* mutant: the windows are not trimmed
AppendedUntrimmed(f, w) ==
  IF f \in Monitored(payload) THEN Append(recent[f], w) ELSE recent[f]

Appended(f, w) ==
  IF f \in Monitored(payload) THEN LastN(Append(recent[f], w), MaxRecent)
  ELSE recent[f]

\* mutant: the baseline in Memory is not read
SeededFromHeap(f) == baseline[f]

\* ensureBaselineWindowForFamily: the heap, else Memory, else the last windows.
Seeded(f) == IF baseline[f] = <<>> THEN kpiBaseline[f] ELSE baseline[f]

NeedsBaseline(f, windows) ==
  /\ f \in Monitored(payload)
  /\ Len(Seeded(f)) < MinWindow
  /\ Len(windows) >= MinWindow

BaselineFor(f, windows) ==
  IF f \notin Monitored(payload) THEN baseline[f]
  ELSE IF NeedsBaseline(f, windows) THEN LastN(windows, MinWindow)
  ELSE LastN(Seeded(f), MinWindow)

\* A summary is emitted at each tick of the cadence, and at any tick that has
\* an event to report.
Monitor(w) ==
  /\ Monitored(payload) # {}
  /\ clock = 0 \/ Allowed("event")
  /\ recent' = [f \in Families |-> Appended(f, w)]
  /\ baseline' = [f \in Families |-> BaselineFor(f, recent'[f])]
  /\ kpiBaseline' = [f \in Families |-> IF NeedsBaseline(f, recent'[f])
                                        THEN baseline'[f] ELSE kpiBaseline[f]]
  /\ \E before \in {SweptTwice} :
     \E regressed \in {{f \in Monitored(payload) :
                          CheckKpiRegression(recent'[f], baseline'[f])}} :
     \E asked \in {ExecuteRollback(before, regressed)} :
        Keep(ApplyPendingRollbacks(asked))
  /\ TimePasses
  /\ UNCHANGED payload

\* The game loads the bot again, after an upload or on its own: the heap is
\* lost, and the bundle may carry another payload.
Reload ==
  /\ Allowed("reload")
  /\ payload' \in Payloads
  /\ status' = DefaultStatus
  /\ recent' = [f \in Families |-> <<>>]
  /\ baseline' = [f \in Families |-> <<>>]
  /\ pending' = [f \in Families |-> None]
  /\ UNCHANGED <<clock, kpiBaseline, memPending, history>>

Tick == Unmonitored \/ Unconsumed \/ NoSummary \/ \E w \in Windows : Monitor(w)

Next == Tick \/ Reload

Spec == Init /\ [][Next]_vars

\* The game calls the loop at every tick.
FairSpec == Spec /\ WF_vars(Tick)
-----------------------------------------------------------------------------
\* Safety

\* The state is well typed, no list outgrows its limit, and no candidate is
\* pending that the registry could not roll back.
TypeOK ==
  /\ clock \in 0 .. SummaryInterval - 1
  /\ payload \in Payloads
  /\ status \in [Entries -> Statuses]
  /\ recent \in [Families -> Seq(Windows)]
  /\ baseline \in [Families -> Seq(Windows)]
  /\ kpiBaseline \in [Families -> Seq(Windows)]
  /\ \A f \in Families : Len(recent[f]) <= MaxRecent
  /\ pending \in [Families -> Pending \cup {None}]
  /\ memPending \in [Families -> MemPending \cup {None}]
  /\ history \in Seq(Entries) /\ Len(history) <= HistoryLimit

\* A rollback that was confirmed is carried out in the same tick: no tick ends
\* with one left in the heap, where a degraded tick would let it expire, and
\* what the heap asks for is what Memory asks for.
NothingStranded ==
  \A f \in Families : pending[f] # None =>
    /\ ~pending[f].confirmed
    /\ memPending[f] # None
    /\ memPending[f].age = pending[f].age
    /\ memPending[f].disabled = pending[f].disabled

\* Where a candidate was withdrawn, the strategy it gives way to is the
\* incumbent of the family, and remains so.
TargetIsIncumbent ==
  \A e \in Entries : status[e] = "disabled" /\ DefaultStatus[e] # "disabled"
    => RollbackTo[e] \in Entries /\ status[RollbackTo[e]] = "incumbent"

\* An entry that was withdrawn does not come back while the bot is loaded.
WithdrawnStaysWithdrawn ==
  [][\A e \in Entries :
       status[e] = "disabled" => status'[e] = "disabled" \/ Reload]_vars

\* The baseline of a family is measured once: neither a reload nor a long run
\* of bad windows makes the regressed values the new normal.
BaselineIsFixed ==
  [][\A f \in Families :
       /\ kpiBaseline[f] # <<>> => kpiBaseline'[f] = kpiBaseline[f]
       /\ baseline'[f] \in {<<>>, kpiBaseline'[f]}]_vars

\* The families accused in the last tick.
Accused == {f \in Families : pending[f] # None /\ pending[f].age = 0}

Abstract == INSTANCE ConfirmedRollback WITH accused <- Accused

\* Candidates are withdrawn on the second report in two consecutive ticks.
ImplementsConfirmedRollback == Abstract!Spec
-----------------------------------------------------------------------------
\* Liveness

Regressing(f) ==
  /\ f \in Monitored(payload)
  /\ CanRollBack(status, f)
  /\ CheckKpiRegression(recent[f], baseline[f])

\* A regression does not last forever with its candidate still in place.
RegressionIsRolledBack == \A f \in Families : []<>~Regressing(f)

\* From some time on every tick yields a summary that the loop consumes.
Eventful == <>[][\E w \in Windows : Monitor(w)]_vars

\* When a colony reports an event at every tick, whatever degraded ticks and
\* reloads came before, a regression ends in the rollback of its candidate.
EventfulRegressionIsRolledBack == Eventful => RegressionIsRolledBack
=============================================================================
