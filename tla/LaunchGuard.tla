----------------------------- MODULE LaunchGuard -----------------------------
(***************************************************************************)
(* scripts/screeps_tencent_batch_rl_runner.py: the guard a run consults    *)
(* before it pays for a worker.  Every run keeps one controller-summary    *)
(* under its own directory, rewritten as it goes; the guard reads the      *)
(* summaries of all the other runs.                                        *)
(*                                                                         *)
(* Threshold failures with the known signature (the room of the spawn is   *)
(* busy) stop all launches, but for ONE explicit validation once the fix   *)
(* is in the checkout, and one recovery of it if it failed before it cost  *)
(* anything or timed out.  A completed validation resets the count.  The   *)
(* other guard, over runs that won no territory, may block a run as well   *)
(* and is left out.  Blocked runs and preflights leave summaries that no   *)
(* guard counts: they are no steps here.                                   *)
(*                                                                         *)
(* There is no lock: a run is seen by the others only from its first       *)
(* write after the guard.  The log orders the runs by the time of their    *)
(* last write, which is finishedAt once they are over, at a resolution     *)
(* finer than the code's second.                                           *)
(***************************************************************************)
EXTENDS Naturals, Sequences, FiniteSets

CONSTANTS
  Runs,           \* invocations of run-single
  Threshold,      \* PAID_FAILURE_RECURRENCE_GUARD_THRESHOLD
  Limit,          \* PAID_FAILURE_RECURRENCE_GUARD_RECENT_SUMMARY_LIMIT
  MaxOverlap,     \* runs at a time, bound
  MaxStops        \* signals and kills, bound

ASSUME GuardAssumption ==
  /\ IsFiniteSet(Runs)
  /\ Threshold \in Nat \ {0} /\ Limit \in Nat /\ Threshold <= Limit
  /\ MaxOverlap \in Nat \ {0} /\ MaxStops \in Nat

VARIABLES
  log,        \* the runs with a summary, the last written at the end
  pc,         \* pc[r]: what run r does next
  verdict,    \* verdict[r]: the guard's status, as its summary reports it
  status,     \* status[r]: finalStatus
  reached,    \* reached[r]: execution.computeAttempted
  failure,    \* failure[r]: the class of its remoteTrainingFailure
  hasty,      \* a run was let through above the threshold while a
              \*   validation was unsettled
  stops       \* signals and kills so far

vars == <<log, pc, verdict, status, reached, failure, hasty,
          stops>>

Active == {"decided", "recorded", "up", "down"}

\* How the operator asks: for no validation, for one below the trust
\* target, for one at it, for one also resized to outlast a timeout.
Asks == {"none", "small", "trusted", "resized"}

TypeOK ==
  /\ log \in Seq(Runs)
  /\ pc \in [Runs -> Active \cup {"new", "over"}]
  /\ verdict \in [Runs -> {"none", "clear", "validated", "allowed",
                           "recovery"}]
  /\ status \in [Runs -> {"unknown", "completed", "failed", "signal"}]
  /\ reached \in [Runs -> BOOLEAN]
  /\ failure \in [Runs -> {"none", "busy", "timeout"}]
  /\ hasty \in BOOLEAN
  /\ \A r \in Runs : status[r] = "completed" \/ failure[r] # "none" => reached[r]
  /\ stops \in 0 .. MaxStops

Init ==
  /\ log = <<>>
  /\ pc = [r \in Runs |-> "new"]
  /\ verdict = [r \in Runs |-> "none"]
  /\ status = [r \in Runs |-> "unknown"]
  /\ reached = [r \in Runs |-> FALSE]
  /\ failure = [r \in Runs |-> "none"]
  /\ hasty = FALSE /\ stops = 0

-----------------------------------------------------------------------------
(* The summaries *)

Written == {log[i] : i \in DOMAIN log}

Newer(q, r) == \E i, j \in DOMAIN log : log[i] = r /\ log[j] = q /\ i < j

Newest(S) == CHOOSE r \in S : \A q \in S \ {r} : Newer(r, q)

\* The n newest of the runs in S.
Recent(S, n) == {r \in S : Cardinality({q \in S : Newer(q, r)}) < n}

\* The log without r.
Others(r) ==
  IF r \notin Written THEN log
  ELSE LET i == CHOOSE i \in DOMAIN log : log[i] = r
       IN SubSeq(log, 1, i - 1) \o SubSeq(log, i + 1, Len(log))

\* write_summary
Write(r) == log' = Append(Others(r), r)

End(r, s) ==
  /\ status' = [status EXCEPT ![r] = s]
  /\ Write(r)

Goto(r, p) == pc' = [pc EXCEPT ![r] = p]

Known == Recent({r \in Written : failure[r] = "busy"}, Limit)

Validation(r) == verdict[r] \in {"allowed", "recovery"}

-----------------------------------------------------------------------------
(* Plausible bugs, used to check that the properties notice them *)

\* A summary without a final status is no attempt yet.
ConsumesWhenFinal(r) ==
  (reached[r] /\ status[r] # "unknown") \/ status[r] = "failed"

\* Only a scale-up that fails is a step of the summary.
ScaleUpUnrecorded(r) ==
  /\ pc[r] = "recorded"
  /\ \/ Goto(r, "up") /\ Write(r) /\ UNCHANGED <<status, reached>>
     \/ /\ Goto(r, "down") /\ End(r, "failed")
        /\ reached' = [reached EXCEPT ![r] = TRUE]
  /\ UNCHANGED <<verdict, failure, hasty, stops>>

\* Any completed validation resets the count for good.
ResetForGood(v) == {}

-----------------------------------------------------------------------------
(* The guard *)

\* paid_failure_post_fix_attempt_consumes_validation_slot
Consumes(r) == reached[r] \/ status[r] \in {"unknown", "failed"}

\* paid_failure_post_fix_validation_attempts
Attempts == {r \in Written : Validation(r) /\ Consumes(r)}

Completed(r) == status[r] = "completed"

TimedOut(r) == status[r] = "failed" /\ failure[r] = "timeout"

NotAdmitted(r) == status[r] = "failed" /\ ~reached[r]

Recoveries(A) == {r \in A : verdict[r] = "recovery"}

\* paid_failure_post_fix_attempts_prove_pre_scale_timeout_recovery
AfterRecovery(A) ==
  \E first, second \in A :
    /\ A = {first, second}
    /\ Recoveries(A) = {second} /\ first # second
    /\ NotAdmitted(first) /\ TimedOut(second)

\* paid_failure_post_fix_validation_recovery_class_for_attempts
TimeoutRecoverable(A) ==
  \/ AfterRecovery(A)
  \/ /\ \A r \in Recoveries(A) : ~TimedOut(r)
     /\ TimedOut(Newest(A)) /\ verdict[Newest(A)] # "recovery"

AdmissionRecoverable(A) ==
  \E r \in A : A = {r} /\ verdict[r] # "recovery" /\ NotAdmitted(r)

\* paid_failure_post_fix_validation_recovery_eligibility
Recoverable(A, ask, fix) ==
  /\ fix
  /\ \A r \in A : ~Completed(r)
  /\ \/ AdmissionRecoverable(A) /\ ask \in {"trusted", "resized"}
     \/ TimeoutRecoverable(A) /\ ask = "resized"

\* The failures a completed validation v does not reset.
Since(v) == {r \in Known : Newer(r, v)}

\* build_paid_failure_recurrence_launch_guard
Recurrence(ask, fix) ==
  LET A == Attempts IN
  CASE Cardinality(Known) < Threshold -> "clear"
    [] A = {} /\ fix /\ ask # "none" -> "allowed"
    [] A # {} /\ Completed(Newest(A))
         /\ Cardinality(Since(Newest(A))) < Threshold -> "validated"
    [] A # {} /\ Recoverable(A, ask, fix) -> "recovery"
    [] OTHER -> "blocked"

-----------------------------------------------------------------------------
(* A run *)

\* Its summary is missing, or already shows an outcome it may yet change.
Unsettled(r) == pc[r] \in {"decided", "down"}

(* check_pre_launch_guard up to its first write: what the other summaries  *)
(* say now decides.                                                        *)
Decide(r) ==
  /\ pc[r] = "new"
  /\ Cardinality({q \in Runs : pc[q] \in Active}) < MaxOverlap
  /\ \E ask \in Asks, fix \in BOOLEAN :
       LET v == Recurrence(ask, fix) IN
       /\ v # "blocked"
       /\ verdict' = [verdict EXCEPT ![r] = v]
       /\ hasty' = \/ hasty
                   \/ /\ v # "clear"
                      /\ \E q \in Runs : Unsettled(q) /\ Validation(q)
  /\ Goto(r, "decided")
  /\ UNCHANGED <<log, status, reached, failure, stops>>

(* record_step of the guard: from here on the others see the run.          *)
Record(r) ==
  /\ pc[r] = "decided"
  /\ Write(r)
  /\ Goto(r, "recorded")
  /\ UNCHANGED <<verdict, status, reached, failure, hasty, stops>>

(* ensure_map_present to generate_experiment_card: one of them fails.      *)
Prepare(r) ==
  /\ pc[r] = "recorded"
  /\ End(r, "failed")
  /\ Goto(r, "over")
  /\ UNCHANGED <<verdict, reached, failure, hasty, stops>>

(* They succeed and the scale-up call is answered, or fails: either way it *)
(* is then a step of the summary.                                          *)
ScaleUp(r) ==
  /\ pc[r] = "recorded"
  /\ \/ Goto(r, "up") /\ Write(r) /\ UNCHANGED status
     \/ Goto(r, "down") /\ End(r, "failed")
  /\ reached' = [reached EXCEPT ![r] = TRUE]
  /\ UNCHANGED <<verdict, failure, hasty, stops>>

(* The rest of the try block: a training that completes, one that fails    *)
(* with the known signature, by a timeout or otherwise, or a failure       *)
(* around it.                                                              *)
Train(r) ==
  /\ pc[r] = "up"
  /\ \/ /\ End(r, "completed")
        /\ UNCHANGED failure
     \/ /\ End(r, "failed")
        /\ \E f \in {"none", "busy", "timeout"} :
             failure' = [failure EXCEPT ![r] = f]
  /\ Goto(r, "down")
  /\ UNCHANGED <<verdict, reached, hasty, stops>>

(* safe_scale_down and the last write_summary                              *)
Finish(r) ==
  /\ pc[r] = "down"
  /\ Write(r)
  /\ Goto(r, "over")
  /\ UNCHANGED <<verdict, status, reached, failure, hasty, stops>>

Stop == stops < MaxStops /\ stops' = stops + 1

(* handle_signal: whatever was known is written under the signal's name.   *)
Signal(r) ==
  /\ pc[r] \in Active
  /\ Stop
  /\ End(r, "signal")
  /\ Goto(r, "over")
  /\ UNCHANGED <<verdict, reached, failure, hasty>>

Kill(r) ==
  /\ pc[r] \in Active
  /\ Stop
  /\ Goto(r, "over")
  /\ UNCHANGED <<log, verdict, status, reached, failure, hasty>>

Next ==
  \E r \in Runs :
    \/ Decide(r) \/ Record(r) \/ Prepare(r) \/ ScaleUp(r) \/ Train(r)
    \/ Finish(r) \/ Signal(r) \/ Kill(r)

Spec == Init /\ [][Next]_vars

-----------------------------------------------------------------------------
(* Properties *)

(* One validation and its recovery are all that is ever paid for, killed   *)
(* and interrupted runs included, and one success is enough.  More of them *)
(* takes a launch before the last one has written its first, or while it   *)
(* scales down.                                                            *)
ValidationsAreRationed ==
  LET Paid == {r \in Runs : Validation(r) /\ reached[r]} IN
  ~hasty =>
    /\ Cardinality(Paid) <= 2
    /\ Cardinality({r \in Paid : Completed(r)}) <= 1

(* The known failure is paid for by at most Threshold runs that are no     *)
(* validations, plus one for every other run under way; and once more as   *)
(* often after a validation that completed.                                *)
WasteIsBounded ==
  LET Wasted(v) == {r \in Runs : failure[r] = "busy" /\ verdict[r] = v} IN
  /\ Cardinality(Wasted("clear")) < Threshold + MaxOverlap
  /\ ~hasty => Cardinality(Wasted("validated")) < Threshold + MaxOverlap
=============================================================================
