# Verification of the Screeps bot and its operations

TLA+ models, TLC configurations and TLAPS proofs for the parts of this
repository whose correctness depends on the order of events: deploying the bot,
paying for training workers, playing and training on private servers,
withdrawing strategy candidates in the running game, alerting on it, and serving
the live dashboard. Everything here is read from the code under `src/`; line
numbers refer to it.

Contents: [inventory](#1-inventory) - [modules](#2-modules) -
[official deploy](#3-official-deploy) - [batch controller](#4-batch-controller) -
[launch guard](#5-launch-guard) - [strategy rollout](#6-strategy-rollout) -
[simulator harness](#7-simulator-harness) - [training runner](#8-training-runner) -
[live dashboard](#9-live-dashboard) - [alert supervisor](#10-alert-supervisor) -
[runs](#11-runs) - [proofs](#12-proofs) - [disagreements](#13-disagreements-found) -
[limits](#14-what-is-not-shown).

To check a model: `tlc -config OfficialDeploy.cfg MCOfficialDeploy.tla`; to
check the proofs of a component: `tlapm OfficialDeploy_proofs.tla`.

## 1. Inventory

The repository is a bot for the game Screeps (`prod/src`, TypeScript) and the
operation of that bot (`scripts`, Python): deploys, monitoring, training of
policies on rented machines and in private servers, dashboards, and gates for
CI. The bot runs once per game tick in a virtual machine the game may throw
away; what must survive is written to `Memory`. The scripts are processes
started by people, by cron or by CI; they meet in files, in the Screeps account,
in the cloud, and in the issue tracker.

| Component | State it keeps | Operations | Why it is hard | What makes it correct |
|---|---|---|---|---|
| Official deploy, `screeps_official_deploy.py` | code branches and active world of the account; evidence and gate files | upload, verify by hash, activate, health gate, auto-rollback, recovery poll | calls that fail or whose answer is lost, kills, two runs, files reused | a rollback uploads only a bundle that was proven healthy; evidence describes the account; every run ends |
| Batch controller, `screeps_tencent_batch_rl_runner.py` | desired capacity of the scaling group, paid worker, summary | launch guard, preflight, scale up, wait, train, collect, scale down | signals that nest, requests in flight, a group shared without a lock, spot reclaims | paid capacity is given back or reported; a completed run has seen its worker gone |
| Batch launch guard (same file) | summaries of earlier runs | recurrence check, validation slot, recovery | decisions from files other runs are writing | a failing signature is not paid for again and again |
| Strategy rollout, `main.ts`, `rl/strategyRollback.ts`, `rl/kpiRolloutMonitor.ts` | registry and KPI windows in the heap; pending rollbacks, baseline and history in Memory | measure, compare, ask for a rollback, confirm it, apply it | skipped ticks, reloads, heap and Memory out of step | a regression is confirmed once, then the candidate is withdrawn; the baseline is not re-measured |
| Live dashboard, `screeps_rl_live_dashboard.py` | SQLite, refresh state and token, cached summary and its generation | refresh cycle, summary, health request | threads, three locks, a cached summary with a time to live | no read during a write; nobody is answered from before a finished refresh; the in-progress flag is cleared |
| Simulator harness, `screeps_rl_simulator_harness.py` | Compose projects, host ports, rows of a run | resource guard, worker threads, port selection, bring-up, play, tear-down, retries | threads and runs on one host, names that share a prefix, failures of any command, kills | a row is about the server its run set up; nothing is left up |
| Training runner, `screeps_rl_training_runner.py` | momentum state file, reports | load, simulate, write state, write report, roll back | two files written one after the other, signals, trainings that overlap | a gradient is carried over only if it was reported |
| Runtime monitor, `screeps-runtime-monitor.py` | debounce state file | forked alert with a timeout, promotion of the deferred state | child finishing while the parent gives up, two runs | an alert is announced before it is debounced |
| Conclusion registry, `rl_conclusion_registry.py` | registry file | merge under `flock` | several producers | no conclusion is lost |
| Kernel and CPU budget, `kernel/Kernel.ts`, `runtime/` | forwarded defense events, bucket policy | one tick, degradation | caps and times to live | an event that is not forwarded is not counted as such |
| Territory, `territory/` | intents in Memory | reserve, claim, suppress, retry | several modules judge the same cooldown | one cooldown rule |
| Economy, spawn, tasks, creeps, construction, defense, scouting | plans of one tick | pure decisions over what is visible | size | one planner does not spend what another has planned |
| Evaluation, rollout manager, ledgers, dataset export, reports, console capture, repository gates | files | sequential pipelines | partial files | gates read what was produced |
| Deploy workflow (CI) | - | build, then the deploy script | concurrency group | one deploy at a time, from a clean build |

How they interact: the *deploy workflow* runs the *official deploy*, which asks
the *runtime monitor* for the state of a room; the bundle it uploads restarts
the bot, which is the `Reload` of the *strategy rollout*; the *kernel* gives the
rollout its KPI summary; the *batch controller* starts the *training runner* on
a worker, which plays its variants on the *simulator harness*, and leaves
summaries that the *launch guard* of later runs reads; the
*metrics ingestor* is called by the *live dashboard* and fills its database.

`PROJECT.json` lists each component with its sources and status, the lines
behind each definition, and the hazards: what can go wrong at which line, with
the properties that would notice.

## 2. Modules

In the order of what a mistake costs (the live game, money, the game's progress,
results that others build on, an operator's view):

| Module | Abstract specification it implements | Instance | Proofs |
|---|---|---|---|
| `OfficialDeploy` | `SafeRollout` | `MCOfficialDeploy` | `OfficialDeploy_proofs` |
| `BatchController` | `PaidCapacity` | `MCBatchController` | `BatchController_proofs` |
| `LaunchGuard` | - | `MCLaunchGuard` | `LaunchGuard_proofs` |
| `StrategyRollout` | `ConfirmedRollback` | `MCStrategyRollout` | `StrategyRollout_proofs` |
| `SimulatorHarness` | - | `MCSimulatorHarness` | `SimulatorHarness_proofs` |
| `TrainingRunner` | - | `MCTrainingRunner` | `TrainingRunner_proofs` |
| `LiveDashboard` | - | `MCLiveDashboard` | `LiveDashboard_proofs` |
| `AlertSupervisor` | - | `MCAlertSupervisor` | `AlertSupervisor_proofs` |

Each has one action per step of the code that others can see, and the runs,
threads or files of it as constants. A definition that no action uses and that
stands before the one it varies (`SourceReportUnchecked`, `MatchingPrefix`,
`UpUnchecked`, ...) is a mistake the code might have had: put in place of the
other, it must break a property.

What could come next, in order: the composition of `LaunchGuard` with
`BatchController`, whose guard is a free choice today, and the dead-tier guard;
`KernelTick` (forwarding of defense events with its cap and time to live under
the CPU budget, `Kernel.ts`); `ConclusionRegistry` (merge under a file lock, a set
that only grows); `TerminalTick` and `TerritoryIntents` (transfers that see what
was planned earlier in a tick, suppression and retry cooldown); `RolloutGates`
(the rollout manager over the evidence of `OfficialDeploy`).

## 3. Official deploy

`OfficialDeploy` models one process per invocation of the script, any number of
them. `code` and `active` are the account, `evidence` and `gate` the files,
`job`, `pc`, `art`, `source`, `prev`, `polls` the local state of a run, `proven` is
history: the deploys whose health gate passed while their bundle was live.

`Begin` reads the arguments; each API request is an action of its own
(`ListBranches`, `CloneBranch`, `UploadCode`, `VerifyBranchCode`,
`SetActiveWorldBranch` and the two verifications after it), then the evidence
is written, the gate runs, and a dead room leads to the search for a healthy
predecessor, the rebuild, and the same upload sequence again with `prev` set,
followed by the recovery poll. Every request may fail; a write may be applied
although its answer is lost, or be acknowledged without effect (which is what
the verification by hash is for); a run may be killed between any two steps.

Abstractions. A bundle is the commit it was built from, so equal hashes are equal
commits. A target is a branch. Time stamps are the order of starts. What the
room does, and what the monitor says of it, is a free choice. A branch that is
cloned is cloned from the active one: `--clone-source-branch`, the fallback to
`default` and the second listing after the clone are left out.

The constants say how the script is used, which it does not enforce:
`OneAtATime` (no two runs overlap), `CleanBuild` (the bundle is built from the
commit the evidence names), `FreshFiles` (an evidence path per run),
`ActivateChoices`, `RollbackChoices` (which runs have `--activate-world` and
`--auto-rollback`), `ActivatedRollbacks` (the second only with the first). Two uses
are in the repository:

| | one at a time | clean build | evidence path | activates | `--auto-rollback` |
|---|---|---|---|---|---|
| `.github/workflows/official-screeps-deploy.yml` | yes, its `concurrency` group | yes | fixed, on a runner where nothing is left of earlier runs | on request | never; its health gate is a step of its own |
| `docs/ops/official-mmo-deploy.md:96` | the operator's duty | the operator's duty | fixed, in a checkout that stays | yes | not in that command |

The workflow is within all conditions and the runbook's command breaks `FreshFiles`,
but neither depends on those about rollbacks: they matter to an operator who gives
`--auto-rollback`, and the rollback may be trusted only where they are met.

Properties: `RollsBackToProvenBundle` (what a rollback uploads once passed a gate
while live, on the same target), `PicksNewestProven` (the newest, and giving up
only when there is none), `EvidenceDescribesAccount` (when evidence is written
the account really holds the bundle), `ImplementsSafeRollout` (the live bundle
is replaced only by the bundle a run in flight deploys or falls back to; it may be
live before it is verified),
`EveryStepAdvances` (a measure of each run, `Progress`, never shrinks and grows at
every step of it: with a timeout on each call, that is the end of every
invocation, and it needs no fairness).

The constants matter. With `CleanBuild = FALSE` the uploaded bundle need not be
the commit the evidence names, with `ActivatedRollbacks = FALSE` a gate may vouch
for a bundle that was uploaded and never live, and with
`FreshFiles = FALSE` an evidence file and the gate file beside it may be of
different runs: each lets a rollback reach an unproven bundle. The last one is a
run, see section 13.

Nothing here notices what the script does not promise: a run whose upload is
applied and whose answer is lost exits with an error and without evidence; two
runs at once overwrite each other after verifying; a rollback that fails after
its upload escalates with that upload live. All three are in the model, and
`SuccessIsLasting` (section 12) says what exit code 0 rules out.

## 4. Batch controller

`BatchController` models one `Controller` per invocation, and the auto-scaling
group they share: `desired`, the `phase` of its only slot (the group's maximum is
1), the number of the last worker. `pc`, `status`, `unwinds`, `inflight`, `worker`,
`polls`, `quiet` and `downError` are the state of a run.

`Step(c)` is what the controller does next: guard, preflight, scale-up, the poll
for the worker and for SSH, the setup steps, training, salvage, collection,
verification, and `safe_scale_down`: `ModifyDesiredCapacity`, then `ReadGroup` and
`ReadList` until both show nothing. `Signal(c)` puts the handler on top of whatever
was running; it ends with `SystemExit`, so the `finally` clause of an interrupted
`run()` still follows, and a second signal nests another handler. A scale-up
request that was sent before the signal may be served after the handler has
read the group. `Cloud` launches, fails to launch, reclaims (spot) and terminates
workers.

Abstractions. The summary on disk is the one in memory at each `write_summary`.
The launch guard (section 5) and the preflight have any verdict. A request to set the
capacity to 0 that is interrupted is served before or after the signal.
Successful describe calls tell the truth: that an answer without numbers counts as
an empty group (2087-2088) is left out. A new worker is told by its number, where
the code compares creation times with a slack of five seconds (1578). A run that is killed outright counts
as declared: no code runs after `SIGKILL`.

Properties: `LeakIsDeclared` (all runs over and the group still costs money only if
a summary has `scaleDownError` or a run was killed), `CompletedWorkerIsGone`
(exit code 0 means that its own worker is gone, even if another run keeps the
group busy), `ImplementsPaidCapacity` (at every step some run answers for the
cost), `EveryRunEnds`, `CapacityReturned`. They are the guardrails of
`docs/ops/tencent-batch-rl-runbook.md:63-69`, number 5 in particular.

What the model does not promise, because the code does not: two runs may scale
down under each other's worker, and a capacity set to 0 by a call that fails is
not tried again, only reported.

## 5. Launch guard

`LaunchGuard` models what a run decides before it pays, from the summaries of the
others. `log` orders the runs by the last write of their summary; `verdict`,
`status`, `reached` and `failure` are the parts of a summary the guard reads.

`Decide` is `check_pre_launch_guard` up to the first write: `Recurrence` is
`build_paid_failure_recurrence_launch_guard`, with `Attempts`, `Recoverable` and the
operators under it for the functions named beside them. `Record` is the first
write, from which the others see the run; `Prepare`, `ScaleUp`, `Train`, `Finish` are
the rest of it as far as it changes the summary; `Signal` and `Kill` end it.

Abstractions. One failure signature, the one the code knows. What the operator
asks for and whether the fix is in the checkout is a free choice at every launch.
Runs that are blocked, and preflights, leave summaries that no guard counts: they
are no steps. The dead-tier guard, which can only block more, is left out, and
with it what it would block. The code rewrites the summary at every recorded step;
the model does where the content the guard reads changes, and where that gives the
run another place in the order. The scan of the summaries, made twice in a launch
(3143, 3993), is one reading.

Properties: `ValidationsAreRationed` (however runs fail, time out, or are killed,
at most one validation and its recovery are paid for, and at most one of them
completes), `WasteIsBounded` (the known failure is paid for at most `Threshold`
times by runs that are no validation, and one more for every other run under way,
once before and once after a validation that completed). Without a lock, what
follows the first failures needs an exception, named `hasty`: a launch above the
threshold while a validation has decided and not yet written its summary, or is
scaling down with an outcome it may still change.

## 6. Strategy rollout

`StrategyRollout` models the loop of `main.ts` after `kernel.run`, tick by tick.
In the heap: the registry's `status`, the `recent` windows, the `baseline`, the
`pending` rollbacks. In Memory: `kpiBaseline`, `memPending`, `history`. `Reload`
loses the first and keeps the second, and may bring another payload.

A tick is `Unmonitored` (degraded, skipped, or the kernel threw), `Unconsumed`
(the payload influences no family), `NoSummary` or `Monitor(w)`. Each is the whole
of what `loop` does then: `applyPendingRollbacks` runs before the monitor, again
inside it, and once more after `executeRollback` (`Swept`, `SweptTwice`). The
operators `Confirms`, `ExecuteRollback`, `Expired`, `Confirmed`, `Due`, `Rolled` and
`ApplyPendingRollbacks` are the functions of `strategyRollback.ts` on a record of
the books.

Abstractions. Only the age of a pending rollback matters (this tick, the one
before, older), so game time is not a variable; `clock` is game time modulo the
summary interval. A baseline is kept as the windows it averages. Metrics whose
threshold is infinite (resources, kills) can never regress and are left out.
The families of one sweep enter the history in any order. A summary exists at
`clock = 0`, at any other tick only with the disturbance "event", and not without
a colony. Percentages are compared without division. Which of the conditions of
`main.ts:172-194` makes a payload influence a family (parameters that are there, are
used, name the variant) is not told apart: a payload kind does or does not.

Properties: `NothingStranded` (no tick ends with a confirmed rollback, and heap
and Memory ask for the same), `ImplementsConfirmedRollback` (withdrawn exactly at
the second report in two consecutive ticks), `TargetIsIncumbent` (where a
candidate was withdrawn, the entry it gives way to is the incumbent and stays so),
`WithdrawnStaysWithdrawn`, `BaselineIsFixed`, `EventfulRegressionIsRolledBack` (when
every tick yields a summary, a regression ends), and `RegressionIsRolledBack`, the same without the condition, which does
not hold.

`ImplementsConfirmedRollback` states the rule the code implements; that this rule
seldom applies with summaries every 20 ticks is section 13. `main.ts:141` logs
`rl-rollback` without testing whether `executeRollback` executed anything: the
log line is not in the model, but a reader of logs should know that it also
stands for a first report.

## 7. Simulator harness

`SimulatorHarness` models several invocations of `run_simulator` on one host, each
with its worker threads. Shared are the Docker daemon and the ports: `stack[p]` is
the pair of host ports a Compose project publishes, `world[p]` whose world its
server runs. Of a thread there are the variant, the attempt, the selected pair,
the error so far and what it saw; of a run, the rows.

`Clear` and `Refuse` are the resource guard (a refused run cleans up under its id),
then each thread goes through `SelectPorts`, `Preflight`, `ResetStack`, `Up`,
`PrepareWorld`, `Play`, `TearDown` (the `finally` clause), `Judge` and, after a broken
pipe, `Sweep`, which cleans up and goes back to `SelectPorts` under the id and the
ports of the next attempt. Every command may fail in the ways the code tells
apart; a failed `up` may leave part of a stack; a failed `down` leaves all of it; a
run may be killed between any two steps, and what it left stays for the others
to meet.

Abstractions. A pair of ports is one index. Ids are sequences of their
dash-separated tokens, because that is how containers are matched: by the prefix
of their name and a worker number. What a tick yields and how it is scored is one
choice between ok, failed and broken pipe. Variants are numbered. A server is
whoever answers at the port, as it is for the code. A stack of which only stopped
containers are left counts as present, although the guard's `docker ps` (3114) does
not list it: the model's guard refuses a little more.

Properties: `WorkersNeverShareAPort`, `ServersAreUndisturbed` (no clean-up of
another worker, attempt or run reaches a server in use), `OkRowsAreReal` (a row
reported ok is of the world this run set up for this variant, although the port
was probed some time before Docker bound it), `NothingLeftUnexplained` (a stack is
up only in use, after a failed tear-down or after a kill), `RunsEnd`.

They rest on `IdsApart`: no id continues another one with a token that reads as a
worker number, and only a run's own retries carry its retry suffix. The harness
makes such ids itself (from the clock); ids given with `--run-id` are the caller's
duty, and two runs at once must not share one.

## 8. Training runner

`TrainingRunner` models invocations that share the momentum state file of a policy
family, two of which may be given the same report id. `state` and `report[i]` hold
the training whose contents they are; `folded[r]` is the set of trainings whose
gradients the smoothed gradient of `r` contains, which is all that matters of the
arithmetic. A report is recognised as the source of a state by its `generatedAt`,
which has a resolution of one second (251-252); the model takes it as unique, that
is, no two trainings with one report id end in one second.

The actions are those of `run_training_experiment` and `main` in their order:
`LoadState`, `Simulate`, `BuildReport`, `MaterializeArtifacts`, `Snapshot`, `WriteState`,
`WriteReport`, then `PrintSummary`, or `Rollback` and `WriteFailure`. An `Exception` may
come at each of them; `Interrupt` (SIGTERM, SIGINT) raises something that is no
`Exception` and passes by the rollback; `Kill` ends the run.

Properties: `OnlyReportedGradients` (nothing a training carries over comes from one
that left no report: the state is written before the report, and only an
exception between them is rolled back, hence the check on loading),
`FailureLeavesState` (a training that failed with an exception, was not cut short
and that nobody overtook leaves the state as it found it). The second is about
the rollback, including the states that cannot be read or are not there.

## 9. Live dashboard

`LiveDashboard` models the threads of the server: *refreshers* (startup, automatic
loop, POST) and *requests* (GET of the summary or of `/healthz`).
`lock` is `refresh_lock`, which is held across steps. What the code does under
`refresh_state_lock` or `summary_lock` is a single step, since nothing else
happens while either is held; that the two are *separate* is kept:
`mark_refresh_started`, `record_refresh` and `finish_refresh_progress` take first
one and then the other and are two actions each (`MarkStarted` and `Preserve`,
`Record` and `InvalidateRecorded`, `Finish` and `Settle`).

A refresher goes through `Begin`, `MarkStarted`, `Preserve`, `Ingest`, `Record`,
`InvalidateRecorded`, `Release`, then prepares a summary as a request would, with
`force_rebuild_cache`, then `Finish` and `Settle`. A request goes through
`Snapshot` or `Health`, perhaps `Cached`, and `Lookup`, `TryLock`, `Retry`, `Block`,
`Read`, `Store`.

Abstractions. The content of the database is the number of the refresh that
changed it last, `lastRefreshAt` the number of the refresh, and a summary is the
pair of them with the two flags. A failed refresh may have changed the database.
Only the server writes the database. The service refreshes itself and caches
summaries (both intervals positive); a cache expires at any time. A POST is a
refresh cycle followed by a request. Closing the server, and a change of the
dashboard URL the cache is keyed by, are left out.

Properties: `ReadsAreExclusive`, `FlagIsOwned` (the in-progress flag belongs to a
cycle under way, which will clear it: otherwise every request would be answered
from the old summary for good), `AnswersAreFresh` (an answer is at least as
recent as the last refresh that had ended when the request came), `StampsAreHonest`
(a summary that does not say "in progress" has the data of the refresh it names),
`ProgressEnds`. The first two and the last are checked with two refreshers that
overlap, the other two with one refresher and two requests, where they hold.

## 10. Alert supervisor

`AlertSupervisor` models runs of the `alert` command of the cron job: the parent
(`pc`), the child it forks (`work`, `next`), the state file (`baseline`, the structures
last seen; `alerted`, when each alert was last emitted) and what reached stdout
(`told`, `seen`).

`Collect`, `Evaluate` and `SaveInChild` are `command_alert` in the child, whose state
goes to a deferred file; the parent takes `Promote` and `Deliver`, or `TimeOut` and
`Terminate`, or `PassOnFailure`. Where the fork fails the parent does the work
itself (`SaveInline`, `PrintInline`), on the state file and under an alarm, which may
end it anywhere (`InlineEnds`). Collecting may miss rooms; runs may overlap. A
state file that cannot be read is an empty state (`NoFile`), from which a run goes
on; an alarm that fires inside `load_state` has the same effect. A child that was
taken by a signal after its output was complete (`ChildCut`) has its report passed on
and its state dropped (`PassOnFailure`).

Abstractions. One alert signature per room. In most rooms it is of damage: a number
stands for the structures, and a run detects what grew since the state it loaded,
and nothing without a baseline (4271). In the rooms of `Sighted` it is of hostiles,
which need no earlier state. A clock that was read never goes back. Repairs, rules
that count their own occurrences, reasons exempt from the debounce, the structures
kept of a room of which nothing is left, and the images are left out.

Properties: `StateFollowsReports` (the state file accounts for no damage and no
alert that stdout did not carry: what a run that failed or timed out had found is
found again), `DebounceHolds` (`docs/ops/runtime-room-monitor.md`: identical
signatures are suppressed during the window). Both have the exceptions the code
has. The state is put in place before the report is written, so a run that ends
between the two (`torn`), and for a moment every run (`Ahead`), is excepted from the
first. Two runs replace one file without a lock, so a run that replaced a state
newer than the one it had loaded (`lost`) ends the claim of the second. A run that
had not loaded the record of a room and replaces it (`blind`: a failed read, or two
runs that make the first state at once) takes damage nobody reported as the new
baseline and forgets the debounce, so both except such a room. A room alerted by a
run whose state was dropped (`stray`) is alerted again by the next, and excepted
from the second. These are faults of the code as it is, listed among the hazards;
the properties say that there are no others.

## 11. Runs

| Run | Instance | What it shows | Distinct states |
|---|---|---|---|
| `official_deploy` | 3 runs one after the other, 2 commits, 2 branches, 3 files (each used once), 2 polls; runs that activate, with `--auto-rollback` or without | the safety properties, the refinement and the progress of every run, with any call failing, lost or without effect and kills anywhere | 518,085 |
| `official_deploy_reuse` | 3 runs, the evidence file may be reused | *violates* `RollsBackToProvenBundle` | - |
| `batch_controller` | 2 controllers, 2 polls, 1 worker, 2 signals or kills, fair | no undeclared leak, a completed run's worker is gone, the books of `PaidCapacity`; runs end, paid capacity is given back or declared | 189,736 |
| `launch_guard` | 5 runs, 2 at a time, threshold 1, limit 2, 2 signals or kills | validations are rationed, waste is bounded | 1,883,753 |
| `strategy_rollout` | 2 families, 4 entries, 5 payloads, all disturbances, fair | safety, action properties, the refinement; with a summary at every tick a regression ends | 37,216 |
| `strategy_rollout_cadence` | 1 family, summaries on the cadence only | *violates* `RegressionIsRolledBack` | - |
| `simulator_harness` | 3 runs (2 workers and 2 variants; 1 and 1; 1 and 1), one retry, 4 pairs of ports, 2 failures or kills, fair | ports, servers and rows stay apart, nothing is left unexplained, runs end | 463,416 |
| `training_runner` | 3 trainings, 2 with one report id, 2 signals, 2 failures | what is carried over was reported, a failure restores the state | 4,104,237 |
| `live_dashboard` | 1 refresher, 2 requests, 2 cycles | freshness of answers and of the cache | 665,278 |
| `live_dashboard_concurrent` | 2 refreshers, 1 request, 2 cycles, fair | exclusion and the flag when cycles overlap; progress ends | 111,261 |
| `live_dashboard_stamp` | 2 refreshers, 1 request, 2 cycles | *violates* `StampsAreHonest` | - |
| `alert_supervisor` | 3 runs, 2 at a time, 2 rooms (damage in one, hostiles in the other), debounce 2 in a clock of 3, 1 fault (a failed read and a cut child among them), any number of time-outs | the state follows the reports, the debounce holds, but for the named exceptions | 1,692,571 |

Why the bounds are enough to meet the interesting cases:

- *Deploy.* Three runs: one that becomes healthy, one that fails and one that is
  between them or after them (a newer, an older or a wrong-target predecessor).
  Two commits and two branches tell "same commit" and "other target" apart. Two
  polls distinguish the first answer, a later one and the deadline. Runs that do not
  activate are in the proofs, and can be added to the run at some cost
  (`ActivateChoices = {TRUE, FALSE}`: 1,201,110 states).
- *Batch.* Two signals reach a nested handler of one run or one handler of each;
  the one worker is the own one, the other run's, or reclaimed. A second worker
  (the replacement after a reclaim) is left to the proofs of the safety properties,
  which hold for any number. A third controller adds no new pair of conflicting
  calls.
- *Guard.* Five runs: a failure, two validations, a recovery, one more; a threshold
  of 1 under a limit of 2 lets failures fall out of the count.
- *Rollout.* `MinWindow = 2` of `MaxRecent = 3` lets windows fall out of both lists,
  `HistoryLimit = 2` equals the number of candidates, and an interval of 2 has
  ticks with and without a summary. The five payloads are the shapes that
  `runtimePolicyParameters.ts` treats differently: none, a tuned policy with the
  incumbent's id, the shadow entry itself, a whole family, and one whose variant
  belongs to another family.
- *Harness.* Run ids `exp`, `exp-r01` and `exp` again: one id is the beginning of
  another, and a killed run's id comes back. Two workers at different attempts
  want overlapping ports, and other runs start in the middle of them. `MaxPair = 3`
  lets a retry, and a third run, run out of ports. Two failures: a broken pipe and
  whatever comes next, such as the failed clean-up after it.
- *Training.* Three trainings: one that fails, one it overlaps and one that loads
  what they left; two of one id overwrite each other's report and failure file.
- *Alerts.* Two runs that overlap and one that follows; a clock in which two alerts
  of a room can be too close or just far enough apart; two rooms, of which a run
  may see one, and a kind of signature in each. A room that is damaged twice
  (`MaxDamage = 3`: 3,917,663 states) shows nothing else.
- *Dashboard.* Two cycles: the second starts while a summary of the first is being
  built, stored, finished or settled; two refreshers do it at the same time. Two
  requests share a cache.

Bounds by name: `MaxPolls`, `MaxWorkers`, `MaxSignals` (batch), `MaxPolls` (deploy),
`MaxRecent`, `HistoryLimit`, `SummaryInterval` (rollout; constants of the code made
small), `MaxCycles` (dashboard), `MaxOverlap` and `MaxStops` (guard; `Threshold` and
`Limit` are the code's), `MaxPair`, `MaxFaults` (harness; `MaxRetries` and `Scans` are
the code's), `MaxSignals`, `MaxFaults` (training), `MaxTime`, `MaxDamage`,
`MaxOverlap`, `MaxFaults` (alerts). Symmetry is used only in runs without liveness
properties, and only over sets no constant tells apart.

Fairness, and why the code justifies it:

- batch: `WF(Step(c))`, since every request and subprocess has a timeout and the
  polling loops a deadline; the cloud finishes the launches and
  terminations it has begun. Launching, reclaiming, signals and kills are not fair.
- rollout: `WF(Tick)`, the game calls the loop at each tick. Reloads are not fair.
  Ticks that are skipped, degraded or without a summary for ever would be fair
  too: `EventfulRegressionIsRolledBack` states what it needs instead, that from
  some time on every tick has a summary.
- harness: `WF` of "some worker takes a step or a run collects". No worker waits
  for another, so this is less than a fair scheduler gives. Runs need not start.
- dashboard: `WF` of each thread's steps: a thread that is not blocked is
  scheduled. A thread waiting for `refresh_lock` is not promised the lock at any
  time; it gets it because cycles are bounded, so `ProgressEnds` means "once
  refreshes pause". Arrival and expiry are not fair.

The deploy needs no fairness (`EveryStepAdvances`). The guard, the trainings and the
alerts have no liveness property: each is a bounded sequence of steps, and what
they wait for ends by a timeout of its own. Their runs end when all invocations
are over, hence `CHECK_DEADLOCK FALSE` there and in the harness.

Every property has a mutant, a definition changed as a plausible bug would (a
verification skipped, a lock not tested, an evidence file used without its gate),
which TLC rejects under the same configuration.

`EvidenceDescribesAccount` and the refinement are claimed for one deploy at a
time only: two overlapping deploys overwrite each other after having verified.
The freshness of the dashboard's answers is claimed for one refresher only: two
cycles that overlap break it in the way of section 13.

## 12. Proofs

The instances above are small; these theorems hold for every value of the
constants, under the assumptions the modules name. All are inductive invariants
or step-by-step refinements.

**`OfficialDeploy_proofs`** (assumes `DeployAssumption`).
`TypeCorrect` needs what each phase may rely on (`PhaseInv`: a run in flight has a
job and a bundle, a rollback has a predecessor, the poll counter is below the
deadline) and holds however the script is used, as does `StepsAreBounded`: the
measure `Progress` puts the phases of a run, its polls and its rollback in one
order, and each action is shown to climb it. `EvidenceIsTrue` and
`SuccessIsLasting` take one run at a time (`OneAtATime`) and nothing else: the run in
flight is the one that started last (`AloneInv`), nobody changes the branch it
verified (`CodeInv`), and what it verified stands until the next run starts
(`VerifiedInv`). So exit code 0, of a deploy or of a rollback, means that its
bundle is in the branch, and live if that was asked for, until then.

The theorems about rollbacks have conditions, named after what operators must do:
`Separate` is one run at a time with an evidence file each, `Disciplined` adds a
clean build and `--auto-rollback` only with `--activate-world`. The script enforces
none of them. `NewestIsPicked` needs `Separate`: a reused file overwrites the record of
a proven deploy. `ProvenRollback` needs `Disciplined`, of runs with and without
either option in any mix. `RolloutRefinement` holds under `Disciplined`, and also
where nobody gives `--auto-rollback` and runs are one at a time (`NoRollback`),
whatever the files, the builds and the activation: the workflow as it is, and the
runbook's command if nobody deploys beside it (section 3).

`ProvenRollback` cannot be shown from the rollback alone: that a file's `ok` gate
vouches for the deploy recorded beside it depends on who wrote the two, so the
invariant has three parts: `OwnershipInv` (one run in flight, no file used twice),
`EvidenceInv` (a gate is written after, and about, the evidence beside it) and
`RollbackInv` (an activated bundle that was verified stays live until the verdict,
hence an `ok` pair is a proven deploy, and a rollback carries the bundle of one).
`NewestIsPicked` adds the converse, `ProvenInv`: what was proven is still recorded in
a pair of files, and the run in flight started last, so that the search over the files (`PicksInv`) misses nothing and orders it rightly.
`RolloutRefinement` shows the script to implement `SafeRollout`. What becomes live
is what the run in flight uploads or activates, so it needs `ChangeInv`: a branch
is cloned from the active one, hence cloning changes nothing live (`CloneInv`), a
bundle in a branch the run has verified is the wanted one, and a rollback is to
another commit than the one it replaces. Each use has its way to `ChangeInv`
(`DisciplinedChange`, `PlainChange`). Each step is then one of `GoLive`,
`Prove`, `Retreat` and `Finish`, or a stutter.

**`BatchController_proofs`** (assumes `BatchAssumption`). `TypeCorrect`.
`LeaksAreDeclared` and `CapacityRefinement` rest on the accounts: whenever the
group is paid for, some run owes the scale-down, still watches the group, or is
on record. `FrameInv` says which phases have a `finally` clause or a request
ahead of them; the lemma on effects shows what one step of one run does to the
three sets of the abstract books. `CompletedIsReleased` uses `GoneInv`: from the
reading of an empty group on, the numbers of workers only grow, so the own
worker does not come back. `RunsAreFinite` is the safety half of `EveryRunEnds`: the
measure `StepsLeft` is at most `4 * MaxPolls + 16`, it is 0 exactly when the run is
over, each step of a controller uses it up, nothing the cloud or another controller
does adds to it, and a signal adds at most two scale-downs (the one it lands in and
the one of the `finally` clause). `ExitCodesAreTrue` and `CleanExitsAreFree` use
`ExitInv`, how status, scale-down error and exit code go together from the
scale-down on: 0 comes without a scale-down error and 3 with one, and together
with the accounts, an operator who reads exit codes alone misses no leak, since
each leak has a run that exits with another code, is killed or is still under way.

**`StrategyRollout_proofs`** (assumes `RegistryAssumption`, `NoneAssumption`,
`ConfigAssumption`). `TypeCorrect`, `NoRollbackStranded` and `RollbackRefinement`
rest on two facts about the books at the end of a tick: heap and Memory agree on
what is pending (or the heap knows nothing, after a reload), and nothing is
confirmed. The lemmas on `Aged`, `ApplyPendingRollbacks` and `ExecuteRollback` show
that ageing keeps them, that a sweep of quiet books withdraws nothing, and that
asking and sweeping withdraws exactly the families asked for twice.
`BaselineNeverMoves` needs that the heap has either no baseline or the one of
Memory, of full length. `TargetsStand` and `WithdrawalsLast` are about registries
that satisfy `SettledTargets`, as the default one does: what an entry rolls back to
is an incumbent by default. No sweep then touches a target, since it withdraws only
entries in the shadow (`OnlyWithdraws`), so that all targets stand (`Standing`) and
none of the entries that are made incumbent was withdrawn.

**`LiveDashboard_proofs`** (assumes `DashboardAssumption`), for any number of
refreshers, requests and cycles. `TypeCorrect` (with `PhaseInv`, `LocalsInv`).
`ReadsExclusive`: a thread of a phase that holds `refresh_lock` is the one `lock`
names. `FlagOwned`: tokens are given once (`TokensInv`, since only one thread at a
time is between `Begin` and `MarkStarted`), the cycle that holds `refresh_lock`
knows whether the token is its own (`Knows`), and the owner of the token is on its
way to `Finish` (`OwnerInv`); that another cycle's `Finish` leaves the flag alone
follows from the tokens being different. `FreshAnswers` and `HonestStamps` hold with one
refresher (`OneRefresher`), which is how the server is started; two refreshers break
the second (section 13). Their `FreshInv` has four parts: the numbers of the refreshes
agree with the phase of the cycle (`OrderInv`), a summary in the cache is as recent as
the last refresh that ended (`CacheInv`), what is stored to prime the cache has the
data of the recorded refresh (`PrimeInv`), and of the summaries looked up or built by
requests under way only those since the last invalidation can still be stored
(`AnswerInv`).

**`SimulatorHarness_proofs`** (assumes `HarnessAssumed`, for any runs, workers,
variants and retries). `TypeCorrect` needs `NewInv` (workers of a run that has not
begun are at their first variant, those of a run that is over do nothing). `PortsApart`: a worker's pair is among its candidates (`PortInv`), all of
which have one residue modulo the number of workers, whatever the attempt; the
residues of two workers differ. Two workers never have one project (`OwnersDiffer`, from
`IdsApart` and `RunsApart`: no two runs under way have one id), and `MatchingExact`
shows that the prefixes a clean-up looks for match the projects of its own id and
workers only. With them `OwnInv` is inductive: a pair of ports is published at most
once (`Unique`), and from its bring-up on a worker's stack publishes the port the
worker selected, so that what answers there is its own stack. From it follow
`Undisturbed`, step by step, and `RowsAreReal`, which is inductive beside it;
`NothingLeft` is inductive by itself. `DoneIsComplete` and `RowsFinal` are about the
dealing of the variants: a worker keeps to its lane of variants and has written no row
ahead of it (`LaneInv`); a variant without a row is some worker's next or comes a
round after another one without a row (`CoverInv`), of which there is a least, so
that no variant is left when all workers are at their end (`EndInv`). Hence a run
that is done has a row for every variant, and no row is written twice; only a kill
loses rows. `WorkersAdvance` is the safety half of `RunsEnd`: each step of a worker
takes it to a later variant, a later retry of which there are `MaxRetries`, or a
later step of at most nine (`StepsLeft`).

**`TrainingRunner_proofs`** (assumes `TrainingAssumption`). `TypeCorrect`, with the
phases in which a report counts as written. `GradientsAreReported` uses `ReportInv`:
a report's file holds a training that wrote it, and what a training has folded in
was reported, itself excepted. `FailuresRestore` uses `RestoreInv`: as long as nobody
else wrote the state, it is the one from the start before `WriteState`, the own
one after it with the snapshot equal to the first, and the first again after the
rollback. `MomentumIsUsable` is the converse of `GradientsAreReported`, for trainings
whose report ids differ: a state that nobody has disturbed since its training wrote it
(no other writer, no failed rollback, no signal between state and report) can be
loaded as soon as that training is past its report. Its `UsableInv` needs that a
training which has not written the state yet is nowhere in a snapshot, so that a
rollback never brings back a state of its own.

**`AlertSupervisor_proofs`** (assumes `AlertAssumption`). `TypeCorrect`.
`StateFollows` uses `LedgerInv`: not only the state file, but also the state every run
has computed and not yet put in place, accounts for nothing that stdout did not
carry or that run will not carry itself. `Debounced` uses `DebounceInv`: a run
that loaded the state still in place has, for each room, the alert of the file or
one of its own a debounce later (`CurrentInv`), and the alerts told or about to be
are a debounce apart, none after the file's (`SpacedInv`), in rooms that are neither
`blind` nor `stray`; `RecordInv` says that a state with an alert of a room has a
baseline of it, so that a run which forgets the alert is seen to make the room `blind`. `LoneRunsKeepDebounce` assumes `MaxOverlap = 1`, a cron interval longer
than the timeout: then the run that replaces the state is the only one since the state
was loaded (`LoneInv`), so that `lost` never comes, and rooms get `blind` or `stray` only
by a fault, a read that fails or a child that is cut after its report (`SightInv`).
Overlap and these two are what can break the debounce, and nothing else does.

**`LaunchGuard_proofs`** (assumes `GuardAssumption`, for any number of runs, any
threshold up to the limit and any overlap). `TypeCorrect` needs that a run is in the
log once and what each phase says about its summary (`RunInv`); `WriteOrder` shows
that a write makes one summary the newest and keeps the order of the others.
`ValidationsRationed` uses `ChainInv`: the validations that count are none, an explicit
one, that and its recovery, or a first that was not admitted, a recovery that
timed out and a last recovery, in the order in which they were written; nothing can
follow the last, and one that is under way drops out only by a signal before it
cost anything. `WasteBounded` uses that the `Limit` newest failures are enough
to see `Threshold` of them, among all or among those after a completed validation
(`RecentCounts`), and that whoever relies on a completed validation was let through
after it was over (`Reliance`): only one ever completes, so that all of them are counted
against the same one. `FirstsRationed` needs no condition on the history: whoever is
let through as a first validation and has not been written off was under way together
with all others of them, so that there are at most `MaxOverlap`. `FailuresBounded` adds up
the three kinds of runs the known failure can be paid by: at most
`2 * (Threshold + MaxOverlap)`.

Every safety property and every refinement that a passing run checks is proved, under
the conditions named above. `SuccessIsLasting`, `RunsAreFinite`, `ExitCodesAreTrue`,
`CleanExitsAreFree`, `FirstsRationed`, `FailuresBounded`, `DoneIsComplete`, `RowsFinal`,
`WorkersAdvance`, `MomentumIsUsable` and `LoneRunsKeepDebounce` go beyond the runs: the
properties they state are defined beside their proofs.

Only model-checked: the liveness properties (`EveryRunEnds`, `CapacityReturned`,
`EventfulRegressionIsRolledBack`, `ProgressEnds`, `RunsEnd`). Fairness, ENABLED and
induction over data are beyond the prover; what can be proved of `EveryRunEnds` and
`RunsEnd` are the measures above, which say that only fairness is missing.

## 13. Disagreements found

- **Evidence reused** (`official_deploy_reuse`). `screeps_official_deploy.py:110`
  says "Previous deploy evidence paired with its successful health gate"; the
  pairing is by file name (line 787). A run that overwrites the evidence file and
  dies before its gate inherits the previous gate's `ok`, and a later rollback
  uploads it.
- **Two consecutive ticks against a summary every 20** (`strategy_rollout_cadence`).
  A report confirms a rollback only if the family was reported in the tick before
  (`strategyRollback.ts:84`), but families are reported only when there is a
  summary. Without events in two ticks running, a candidate that regresses at
  every summary stays. `docs/ops/rl-domain-roadmap.md:44`: "monitor, and revert on
  degradation". `EventfulRegressionIsRolledBack` shows that the rule works when
  every tick has a summary.
- **An old summary with a new stamp** (`live_dashboard_stamp`).
  `finish_refresh_progress` clears the flag under one lock and re-stamps the cache
  under another (line 280). A cycle that runs in between finds the generation
  changed under it and does not store its summary; its own end then stamps the old
  one. `docs/ops/rl-live-dashboard-runbook.md:158` promises a fresh one.

Two more things a reader should know, without a run because no text of the
repository promises otherwise, or because the model leaves the detail out:

- A runtime payload that names one entry makes it the incumbent whatever its
  status is (`runtimePolicyParameters.ts:124`), at every tick: a strategy that was
  rolled back runs again while the payload stays.
- Where the fork fails, the alarm that stands for the timeout is an exception
  raised in the middle of the command, and an `except Exception` of the rooms or of
  the rendering may swallow it; and it may come after the state was saved, when the
  alert is lost for the length of the debounce. The model has both (`InlineEnds` is
  never forced, `torn`). `load_state` swallows it too, since `MonitorCommandTimeout` is
  an `OSError` (5247, 7844), and then the run has forgotten every room (`blind`).

## 14. What is not shown

Components listed as `not_modelled` in `PROJECT.json` have their reason there:
small and next in line (section 2), pure computation over large data (planning,
tasks, spawning, construction, scoring), input and output (capture, reports), or
checks of documents. Most of the code is of these kinds: the mapped lines are a
small part of all lines, chosen for the order of events in them. What a card, a
scorecard, a gradient, a detector or a page computes from its input is left to
the unit tests of the repository.

Within the modelled components: the contents of requests, files, KPI reports and
pages; the cost and the duration of anything; crashes of the cloud or of the game
other than those named; the closing of the dashboard server. Three are listed as
*partly* modelled: the batch controller, whose guard and validators are one free
verdict each; the launch guard, without its dead-tier half; and the runtime
monitor's alerts, one reason of which stands for all detectors.

A killed batch run leaves a worker that no later run looks for, a reload forgets
every rollback, a killed harness run leaves its stacks: all are what the code
does, all are in the models (a "declared" run, `Reload`, `excused`), and no property
says otherwise; they are listed as hazards where they bite.
