--------------------------- MODULE BatchController ---------------------------
(***************************************************************************)
(* scripts/screeps_tencent_batch_rl_runner.py: one Controller per          *)
(* invocation.  A controller sets the desired capacity of an auto-scaling  *)
(* group (ASG) to 1, waits for the paid spot worker, trains on it over     *)
(* SSH, collects the artifacts and sets the capacity back to 0, in the     *)
(* finally clause of run() and in the handler of SIGINT and SIGTERM.       *)
(* Controllers share the ASG and nothing else; there is no lock.           *)
(*                                                                         *)
(* The handler runs on top of whatever the controller was doing and ends   *)
(* by raising SystemExit, so the finally clause of an interrupted run()    *)
(* still executes after it; a second signal nests another handler.  The    *)
(* child process of an interrupted scale-up call lives until then.         *)
(***************************************************************************)
EXTENDS Naturals

CONSTANTS
  Controllers,   \* invocations of the runner
  MaxPolls,      \* turns of a polling loop before its deadline
  MaxWorkers,    \* workers the cloud launches, bound
  MaxSignals     \* signals the operators send, bound

ASSUME BatchAssumption ==
  /\ Controllers # {}
  /\ MaxPolls \in Nat \ {0}
  /\ MaxWorkers \in Nat
  /\ MaxSignals \in Nat

VARIABLES
  desired,    \* desired capacity of the ASG, 0 or 1
  phase,      \* what its only slot is doing
  vm,         \* the last worker launched; they are numbered from 1
  refused,    \* controllers that find a failed scale-out since their own
  pc,         \* pc[c]: what controller c does next
  status,     \* status[c]: final_status
  unwinds,    \* unwinds[c]: the finally clause of run() is still to execute
  inflight,   \* inflight[c]: its scale-up request is not answered yet
  worker,     \* worker[c]: instance_id, 0 before any is known
  polls,      \* polls[c]: turns of the current polling loop
  quiet,      \* quiet[c]: the group summary it just read shows no worker
  downError,  \* downError[c]: the summary reports scaleDownError
  signals     \* signals sent

asg == <<desired, phase, vm, refused>>
vars == <<desired, phase, vm, refused, pc, status, unwinds, inflight, worker,
          polls, quiet, downError, signals>>

Setup == {"security", "bootstrap", "bundle", "secret"}

Exits == {"exit0", "exit2", "exit3", "exit4", "exit128"}

Over == Exits \cup {"killed"}

Phases == Setup \cup Over \cup
  {"idle", "guard", "preflight", "scaleUp", "reply", "wait", "ssh", "train",
   "salvage", "collect", "verify", "modify", "group", "list", "summary"}

Statuses == {"unknown", "guarded", "preflight_ok", "completed",
             "completed_scale_down_failed", "failed", "signal"}

TypeOK ==
  /\ desired \in {0, 1}
  /\ phase \in {"none", "launching", "running", "terminating"}
  /\ vm \in 0 .. MaxWorkers
  /\ refused \subseteq Controllers
  /\ pc \in [Controllers -> Phases]
  /\ status \in [Controllers -> Statuses]
  /\ unwinds \in [Controllers -> BOOLEAN]
  /\ inflight \in [Controllers -> BOOLEAN]
  /\ worker \in [Controllers -> 0 .. MaxWorkers]
  /\ polls \in [Controllers -> 0 .. MaxPolls - 1]
  /\ quiet \in [Controllers -> BOOLEAN]
  /\ downError \in [Controllers -> BOOLEAN]
  /\ signals \in 0 .. MaxSignals

Init ==
  /\ desired = 0 /\ phase = "none" /\ vm = 0 /\ refused = {}
  /\ pc = [c \in Controllers |-> "idle"]
  /\ status = [c \in Controllers |-> "unknown"]
  /\ unwinds = [c \in Controllers |-> FALSE]
  /\ inflight = [c \in Controllers |-> FALSE]
  /\ worker = [c \in Controllers |-> 0]
  /\ polls = [c \in Controllers |-> 0]
  /\ quiet = [c \in Controllers |-> FALSE]
  /\ downError = [c \in Controllers |-> FALSE]
  /\ signals = 0

GoTo(c, p) == pc' = [pc EXCEPT ![c] = p]

Conclude(c, s) == status' = [status EXCEPT ![c] = s]

Alive(c) == phase = "running" /\ vm = worker[c]


-----------------------------------------------------------------------------
(* Plausible bugs, used to check that the properties notice them *)

\* The group counts as quiet while an activity is still launching a worker.
ReadGroupCountOnly(c, ok) ==
  /\ pc[c] = "group"
  /\ quiet' = [quiet EXCEPT ![c] = ok /\ phase \in {"none", "launching"}]
  /\ GoTo(c, "list")
  /\ UNCHANGED <<asg, status, unwinds, inflight, worker, polls, downError,
                 signals>>

\* safe_scale_down leaves a completed status alone.
Undemoted(s) == s

\* The handler ends the process itself instead of raising SystemExit.
ExitFromHandler(c) ==
  /\ GoTo(c, "summary")
  /\ UNCHANGED <<unwinds, inflight>>

\* Each turn of the worker loop renews the deadline's allowance.
NextPollUncounted(c) ==
  /\ polls' = [polls EXCEPT ![c] = @ + 1]
  /\ GoTo(c, "wait")
  /\ UNCHANGED <<status, unwinds, inflight>>

\* The deadline of the scale-down loop is recomputed on every turn.
NextDownPollRestarted(c) ==
  /\ GoTo(c, "group")
  /\ UNCHANGED <<status, unwinds, inflight, polls, downError>>

\* A failed run is summarised without the finally clause.
RaiseWithoutFinally(c) ==
  /\ Conclude(c, "failed")
  /\ unwinds' = [unwinds EXCEPT ![c] = FALSE]
  /\ inflight' = [inflight EXCEPT ![c] = FALSE]
  /\ polls' = [polls EXCEPT ![c] = 0]
  /\ GoTo(c, "summary")

-----------------------------------------------------------------------------
(* Control flow shared by the actions *)

\* An exception in the try block of run(): the finally clause scales down.
Raise(c) ==
  /\ Conclude(c, "failed")
  /\ unwinds' = [unwinds EXCEPT ![c] = FALSE]
  /\ inflight' = [inflight EXCEPT ![c] = FALSE]
  /\ polls' = [polls EXCEPT ![c] = 0]
  /\ GoTo(c, "modify")

\* safe_scale_down is over.  At the end of a handler SystemExit unwinds the
\* stack, which kills the child of an interrupted call and runs the finally
\* clause if it was pending; else the last summary is written.
AfterScaleDown(c) ==
  IF unwinds[c]
  THEN /\ unwinds' = [unwinds EXCEPT ![c] = FALSE]
       /\ inflight' = [inflight EXCEPT ![c] = FALSE]
       /\ GoTo(c, "modify")
  ELSE /\ GoTo(c, "summary")
       /\ UNCHANGED <<unwinds, inflight>>

\* The status after an exception in scale_down.
Demoted(s) == IF s = "completed" THEN "completed_scale_down_failed" ELSE s

ScaleDownFails(c) ==
  /\ downError' = [downError EXCEPT ![c] = TRUE]
  /\ Conclude(c, Demoted(status[c]))
  /\ polls' = [polls EXCEPT ![c] = 0]
  /\ AfterScaleDown(c)

-----------------------------------------------------------------------------
(* run(), before and inside its try block *)

Start(c) ==
  /\ pc[c] = "idle"
  /\ GoTo(c, "guard")
  /\ UNCHANGED <<asg, status, unwinds, inflight, worker, polls, quiet,
                 downError, signals>>

\* The launch guard reads the summaries of earlier runs.
CheckPreLaunchGuard(c, blocked) ==
  /\ pc[c] = "guard"
  /\ IF blocked THEN Conclude(c, "guarded") /\ GoTo(c, "summary")
                ELSE GoTo(c, "preflight") /\ UNCHANGED status
  /\ UNCHANGED <<asg, unwinds, inflight, worker, polls, quiet, downError,
                 signals>>

\* Map, bundle, billing guard, security group and experiment card.
Preflight(c, result) ==
  /\ pc[c] = "preflight"
  /\ \/ /\ result \in {"failed", "preflight_ok"}
        /\ Conclude(c, result)
        /\ GoTo(c, "summary")
        /\ UNCHANGED unwinds
     \/ /\ result = "compute"
        /\ unwinds' = [unwinds EXCEPT ![c] = TRUE]
        /\ GoTo(c, "scaleUp")
        /\ UNCHANGED status
  /\ UNCHANGED <<asg, inflight, worker, polls, quiet, downError, signals>>

ScaleUp(c) ==
  /\ pc[c] = "scaleUp"
  /\ inflight' = [inflight EXCEPT ![c] = TRUE]
  /\ refused' = refused \ {c}
  /\ GoTo(c, "reply")
  /\ UNCHANGED <<desired, phase, vm, status, unwinds, worker, polls, quiet,
                 downError, signals>>

\* The cloud serves the request; nothing tells the controller yet.
ScaleUpApplied(c) ==
  /\ inflight[c]
  /\ desired' = 1
  /\ inflight' = [inflight EXCEPT ![c] = FALSE]
  /\ UNCHANGED <<phase, vm, refused, pc, status, unwinds, worker, polls, quiet,
                 downError, signals>>

\* A request may be refused, and the answer to one that was served be lost.
ScaleUpReply(c, ok) ==
  /\ pc[c] = "reply"
  /\ \/ /\ ok /\ ~inflight[c]
        /\ GoTo(c, "wait")
        /\ UNCHANGED <<status, unwinds, inflight, polls>>
     \/ ~ok /\ Raise(c)
  /\ UNCHANGED <<asg, worker, quiet, downError, signals>>

NextPoll(c) ==
  IF polls[c] + 1 = MaxPolls
  THEN Raise(c)
  ELSE /\ polls' = [polls EXCEPT ![c] = @ + 1]
       /\ GoTo(c, "wait")
       /\ UNCHANGED <<status, unwinds, inflight>>

\* A turn of scale_up_and_wait: a running worker with an address, a failed
\* scale-out, a failing describe call, or nothing yet.
FindWorker(c) ==
  /\ pc[c] = "wait" /\ phase = "running"
  /\ worker' = [worker EXCEPT ![c] = vm]
  /\ GoTo(c, "ssh")
  /\ UNCHANGED <<asg, status, unwinds, inflight, polls, quiet, downError,
                 signals>>

DescribeFails(c) ==
  /\ pc[c] = "wait" /\ Raise(c)
  /\ UNCHANGED <<asg, worker, quiet, downError, signals>>

ScaleOutFailed(c) ==
  /\ pc[c] = "wait" /\ c \in refused /\ phase = "none" /\ Raise(c)
  /\ UNCHANGED <<asg, worker, quiet, downError, signals>>

PollWorker(c) ==
  /\ pc[c] = "wait" /\ phase # "running" /\ NextPoll(c)
  /\ UNCHANGED <<asg, worker, quiet, downError, signals>>

\* wait_for_ssh: the probe succeeds, the known_hosts file cannot be repaired,
\* or its own deadline passes and the outer loop goes on.
WaitForSsh(c, result) ==
  /\ pc[c] = "ssh"
  /\ \/ /\ result = "ok" /\ Alive(c)
        /\ GoTo(c, "security")
        /\ polls' = [polls EXCEPT ![c] = 0]
        /\ UNCHANGED <<status, unwinds, inflight>>
     \/ result = "broken" /\ Raise(c)
     \/ result = "timeout" /\ NextPoll(c)
  /\ UNCHANGED <<asg, worker, quiet, downError, signals>>

AfterSetup == [security |-> "bootstrap", bootstrap |-> "bundle",
               bundle |-> "secret", secret |-> "train"]

\* One remote step of the preparation; a lost worker fails it.
SetupStep(c, ok) ==
  /\ pc[c] \in Setup
  /\ \/ /\ ok /\ Alive(c)
        /\ GoTo(c, AfterSetup[pc[c]])
        /\ UNCHANGED <<status, unwinds, inflight, polls>>
     \/ ~ok /\ Raise(c)
  /\ UNCHANGED <<asg, worker, quiet, downError, signals>>

\* A failed training is salvaged before the failure is raised.
RunRemoteTraining(c, ok) ==
  /\ pc[c] = "train"
  /\ ok => Alive(c)
  /\ GoTo(c, IF ok THEN "collect" ELSE "salvage")
  /\ UNCHANGED <<asg, status, unwinds, inflight, worker, polls, quiet,
                 downError, signals>>

\* Artifacts are collected or not: the training failure is raised anyway.
Salvage(c) ==
  /\ pc[c] = "salvage" /\ Raise(c)
  /\ UNCHANGED <<asg, worker, quiet, downError, signals>>

CollectRemoteArtifacts(c, ok) ==
  /\ pc[c] = "collect"
  /\ \/ /\ ok /\ Alive(c)
        /\ GoTo(c, "verify")
        /\ UNCHANGED <<status, unwinds, inflight, polls>>
     \/ ~ok /\ Raise(c)
  /\ UNCHANGED <<asg, worker, quiet, downError, signals>>

\* The last step of the try block; the finally clause follows either way.
VerifyTrainingReport(c, ok) ==
  /\ pc[c] = "verify"
  /\ \/ /\ ok
        /\ Conclude(c, "completed")
        /\ unwinds' = [unwinds EXCEPT ![c] = FALSE]
        /\ GoTo(c, "modify")
        /\ UNCHANGED <<inflight, polls>>
     \/ ~ok /\ Raise(c)
  /\ UNCHANGED <<asg, worker, quiet, downError, signals>>

-----------------------------------------------------------------------------
(* safe_scale_down, in the finally clause or in a handler *)

\* One ModifyDesiredCapacity call, never repeated; it may be served although
\* its answer is an error or lost.
ModifyDesiredCapacity(c, served, ok) ==
  /\ pc[c] = "modify"
  /\ ok => served
  /\ desired' = IF served THEN 0 ELSE desired
  /\ \/ /\ ok
        /\ polls' = [polls EXCEPT ![c] = 0]
        /\ GoTo(c, "group")
        /\ UNCHANGED <<status, unwinds, inflight, downError>>
     \/ ~ok /\ ScaleDownFails(c)
  /\ UNCHANGED <<phase, vm, refused, worker, quiet, signals>>

\* InstanceCount is 0 and InActivityStatus is NOT_IN_ACTIVITY.
ReadGroup(c, ok) ==
  /\ pc[c] = "group"
  /\ quiet' = [quiet EXCEPT ![c] = ok /\ phase = "none"]
  /\ GoTo(c, "list")
  /\ UNCHANGED <<asg, status, unwinds, inflight, worker, polls, downError,
                 signals>>

NextDownPoll(c) ==
  IF polls[c] + 1 = MaxPolls
  THEN ScaleDownFails(c)
  ELSE /\ polls' = [polls EXCEPT ![c] = @ + 1]
       /\ GoTo(c, "group")
       /\ UNCHANGED <<status, unwinds, inflight, downError>>

\* The instance list is a second call.  A worker that is being launched may
\* not be listed yet; a failing call counts as a listed instance.
ReadList(c, empty) ==
  /\ pc[c] = "list"
  /\ empty => phase \in {"none", "launching"}
  /\ IF empty /\ quiet[c]
     THEN /\ polls' = [polls EXCEPT ![c] = 0]
          /\ AfterScaleDown(c)
          /\ UNCHANGED <<status, downError>>
     ELSE NextDownPoll(c)
  /\ UNCHANGED <<asg, worker, quiet, signals>>

-----------------------------------------------------------------------------
(* The end of the process, signals and kills *)

ExitOf(s) ==
  CASE s \in {"completed", "preflight_ok"} -> "exit0"
    [] s = "completed_scale_down_failed" -> "exit3"
    [] s = "guarded" -> "exit4"
    [] s = "signal" -> "exit128"
    [] OTHER -> "exit2"

\* The last write_summary and main's exit code.
Exit(c) ==
  /\ pc[c] = "summary"
  /\ GoTo(c, ExitOf(status[c]))
  /\ UNCHANGED <<asg, status, unwinds, inflight, worker, polls, quiet,
                 downError, signals>>

Running(c) == pc[c] \notin Over \cup {"idle"}

\* SIGINT or SIGTERM: the handler scales down, whatever the controller did.
Signal(c) ==
  /\ Running(c) /\ signals < MaxSignals
  /\ signals' = signals + 1
  /\ Conclude(c, "signal")
  /\ polls' = [polls EXCEPT ![c] = 0]
  /\ GoTo(c, "modify")
  /\ UNCHANGED <<asg, unwinds, inflight, worker, quiet, downError>>

\* SIGKILL, SIGHUP or a crash of the host; the child process may survive.
Kill(c) ==
  /\ Running(c) /\ signals < MaxSignals
  /\ signals' = signals + 1
  /\ GoTo(c, "killed")
  /\ UNCHANGED <<asg, status, unwinds, inflight, worker, polls, quiet,
                 downError>>

-----------------------------------------------------------------------------
(* The auto-scaling group *)

Launch ==
  /\ desired = 1 /\ phase = "none" /\ vm < MaxWorkers
  /\ phase' = "launching"
  /\ vm' = vm + 1
  /\ UNCHANGED <<desired, refused, pc, status, unwinds, inflight, worker,
                 polls, quiet, downError, signals>>

LaunchEnds(ok) ==
  /\ phase = "launching"
  /\ phase' = IF ok THEN "running" ELSE "none"
  /\ refused' = IF ok THEN refused ELSE {c \in Controllers : unwinds[c]}
  /\ UNCHANGED <<desired, vm, pc, status, unwinds, inflight, worker, polls,
                 quiet, downError, signals>>

\* The cloud takes a spot worker back; the group replaces it.
Reclaim ==
  /\ phase = "running" /\ phase' = "none"
  /\ UNCHANGED <<desired, vm, refused, pc, status, unwinds, inflight, worker,
                 polls, quiet, downError, signals>>

Terminate ==
  /\ \/ phase = "running" /\ desired = 0 /\ phase' = "terminating"
     \/ phase = "terminating" /\ phase' = "none"
  /\ UNCHANGED <<desired, vm, refused, pc, status, unwinds, inflight, worker,
                 polls, quiet, downError, signals>>

-----------------------------------------------------------------------------

Step(c) ==
  \/ \E blocked \in BOOLEAN : CheckPreLaunchGuard(c, blocked)
  \/ \E r \in {"failed", "preflight_ok", "compute"} : Preflight(c, r)
  \/ ScaleUp(c)
  \/ FindWorker(c) \/ DescribeFails(c) \/ ScaleOutFailed(c) \/ PollWorker(c)
  \/ \E r \in {"ok", "broken", "timeout"} : WaitForSsh(c, r)
  \/ \E ok \in BOOLEAN : \/ ScaleUpReply(c, ok)
                         \/ SetupStep(c, ok)
                         \/ RunRemoteTraining(c, ok)
                         \/ CollectRemoteArtifacts(c, ok)
                         \/ VerifyTrainingReport(c, ok)
                         \/ ReadGroup(c, ok)
                         \/ ReadList(c, ok)
  \/ Salvage(c)
  \/ \E served, ok \in BOOLEAN : ModifyDesiredCapacity(c, served, ok)
  \/ Exit(c)

Cloud ==
  \/ \E c \in Controllers : ScaleUpApplied(c)
  \/ Launch \/ Reclaim \/ Terminate
  \/ \E ok \in BOOLEAN : LaunchEnds(ok)

\* Every controller is over and the cloud has nothing left to do.
AllOver ==
  /\ \A c \in Controllers : pc[c] \in Over /\ ~inflight[c]
  /\ phase = "none" /\ (desired = 0 \/ vm = MaxWorkers)
  /\ UNCHANGED vars

Next ==
  \/ \E c \in Controllers : Start(c) \/ Step(c) \/ Signal(c) \/ Kill(c)
  \/ Cloud
  \/ AllOver

Spec == Init /\ [][Next]_vars

\* A process that was not killed runs on, each of its calls returns within
\* its timeout, and the cloud finishes the activities it has begun.
FairSpec ==
  /\ Spec
  /\ \A c \in Controllers : WF_vars(Step(c))
  /\ WF_vars(Terminate)
  /\ WF_vars(\E ok \in BOOLEAN : LaunchEnds(ok))

-----------------------------------------------------------------------------
(* Properties *)

\* The group costs money, or will as soon as it reacts.
Paying == desired = 1 \/ phase # "none"

\* Its finally clause or its handler has yet to set the capacity to 0.
Owes(c) == unwinds[c] \/ pc[c] = "modify"

\* It has set the capacity to 0 and not yet seen the group without a worker.
Watches(c) == pc[c] = "group" \/ (pc[c] = "list" /\ ~quiet[c])

Debtors == {c \in Controllers : pc[c] # "killed" /\ (Owes(c) \/ Watches(c))}

Declared == {c \in Controllers : downError[c] \/ pc[c] = "killed"}

\* When every run is over and the group still costs money, the summary of
\* some run reports scaleDownError, or a run was killed outright: no
\* combination of failed calls, lost answers, nested signals and concurrent
\* runs leaks a worker that all summaries say is gone.
LeakIsDeclared ==
  (\A c \in Controllers : pc[c] \in Over \cup {"idle"}) /\ Paying
    => Declared # {}

\* A run that exits with code 0 after a training has seen its own worker
\* gone, even when other runs keep scaling the same group.
CompletedWorkerIsGone ==
  \A c \in Controllers :
    pc[c] = "exit0" /\ status[c] = "completed" => ~(phase # "none" /\ vm = worker[c])

\* The runs keep the books of paid capacity as PaidCapacity describes them:
\* at every step somebody answers for what the group costs.
Capacity == INSTANCE PaidCapacity
  WITH Runs <- Controllers, paying <- Paying, debtors <- Debtors,
       declared <- Declared

ImplementsPaidCapacity == Capacity!Spec

\* Every controller that starts ends: all its loops have deadlines.
EveryRunEnds == \A c \in Controllers : pc[c] # "idle" ~> pc[c] \in Over

\* Capacity that was paid for is given back, or a run is on record as not
\* having seen that.
CapacityReturned == Paying ~> (~Paying \/ Declared # {})
=============================================================================
