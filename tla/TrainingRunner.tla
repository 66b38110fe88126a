--------------------------- MODULE TrainingRunner ---------------------------
(***************************************************************************)
(* scripts/screeps_rl_training_runner.py: one training per invocation.  It *)
(* plays the variants of a card on the simulator harness, estimates a      *)
(* policy gradient, smooths it with the gradients of earlier trainings and *)
(* writes <report id>.json.                                                *)
(*                                                                         *)
(* The smoothed gradient is carried over in a momentum state file that the *)
(* trainings of one policy family share.  It is written BEFORE the report, *)
(* put back if the report cannot be written, and used by a later training  *)
(* only if the report it names is there.  There is no lock; a signal       *)
(* raises in the middle of anything, and is not an Exception, so the       *)
(* clause that puts the state back does not see it.                        *)
(*                                                                         *)
(* A file is named by who wrote it: report[i] = r stands for the contents  *)
(* training r gave report i, with the time of r in generatedAt.            *)
(***************************************************************************)
EXTENDS Naturals

CONSTANTS
  Trainings,   \* invocations of the runner
  ReportIds,   \* values of --report-id
  ReportId,    \* ReportId[r]: the id training r is given
  MaxSignals,  \* SIGTERM, SIGINT and SIGKILL, bound
  MaxFaults,   \* failures of files, of the simulator or of stdout, bound
  None         \* no file

ASSUME TrainingAssumption ==
  /\ ReportId \in [Trainings -> ReportIds]
  /\ MaxSignals \in Nat /\ MaxFaults \in Nat
  /\ None \notin Trainings

VARIABLES
  state,     \* the momentum state file
  report,    \* report[i]: <i>.json
  failure,   \* failure[i]: <i>.failure.json
  pc,        \* pc[r]: what training r does next
  folded,    \* folded[r]: the trainings whose gradients r's gradient smooths
  snapshot,  \* snapshot[r]: the state it found before it wrote its own
  readable,  \* readable[r]: there was one and its bytes were read
  start,     \* start[r]: the state when it began
  clean,     \* clean[r]: nobody else has written the state since, and r has
             \*   not been cut short between its state and its report
  reported,  \* trainings whose report has been written
  signals,   \* signals sent
  faults     \* failures so far

files == <<state, report, failure>>
vars == <<files, pc, folded, snapshot, readable, start, clean, reported,
          signals, faults>>

Working == {"load", "simulate", "build", "artifacts", "snapshot", "state",
            "report", "plain", "rollback", "print"}

Over == {"exit0", "failed", "unreported", "killed"}

TypeOK ==
  /\ state \in Trainings \cup {None}
  /\ report \in [ReportIds -> Trainings \cup {None}]
  /\ failure \in [ReportIds -> Trainings \cup {None}]
  /\ pc \in [Trainings -> Working \cup Over \cup {"new", "failing"}]
  /\ folded \in [Trainings -> SUBSET Trainings]
  /\ snapshot \in [Trainings -> Trainings \cup {None}]
  /\ readable \in [Trainings -> BOOLEAN]
  /\ start \in [Trainings -> Trainings \cup {None}]
  /\ clean \in [Trainings -> BOOLEAN]
  /\ reported \subseteq Trainings
  /\ signals \in 0 .. MaxSignals
  /\ faults \in 0 .. MaxFaults
  /\ \A r \in Trainings :
       /\ pc[r] \in {"exit0", "print"} => r \in reported
       /\ pc[r] \in (Working \ {"print"}) \cup {"new"} => r \notin reported

Init ==
  /\ state = None
  /\ report = [i \in ReportIds |-> None]
  /\ failure = [i \in ReportIds |-> None]
  /\ pc = [r \in Trainings |-> "new"]
  /\ folded = [r \in Trainings |-> {}]
  /\ snapshot = [r \in Trainings |-> None]
  /\ readable = [r \in Trainings |-> FALSE]
  /\ start = [r \in Trainings |-> None]
  /\ clean = [r \in Trainings |-> FALSE]
  /\ reported = {}
  /\ signals = 0 /\ faults = 0

-----------------------------------------------------------------------------

Goto(r, p) == pc' = [pc EXCEPT ![r] = p]

Fault == faults < MaxFaults /\ faults' = faults + 1

(* An Exception: main catches it and writes the failure report.            *)
Raises(r) ==
  /\ Fault
  /\ Goto(r, "failing")
  /\ UNCHANGED <<files, folded, snapshot, readable, start, clean, reported, signals>>

(* The state file is replaced: every other training loses its view of it.  *)
PutState(r, s) ==
  /\ state' = s
  /\ clean' = [q \in Trainings |-> clean[q] /\ q = r]

Start(r) ==
  /\ pc[r] = "new"
  /\ Goto(r, "load")
  /\ start' = [start EXCEPT ![r] = state]
  /\ clean' = [clean EXCEPT ![r] = TRUE]
  /\ UNCHANGED <<files, folded, snapshot, readable, reported, signals, faults>>

\* The state is taken at its word.
SourceReportUnchecked == state # None

(* The report the state names is there and was written by the training     *)
(* that wrote the state.                                                   *)
SourceReportLoads == state # None /\ report[ReportId[state]] = state

(* load_policy_gradient_momentum_state: a state that cannot be used is     *)
(* ignored, with the reason noted.                                         *)
LoadState(r) ==
  /\ pc[r] = "load"
  /\ \/ /\ SourceReportLoads
        /\ folded' = [folded EXCEPT ![r] = folded[state]]
        /\ UNCHANGED faults
     \/ ~SourceReportLoads /\ UNCHANGED <<folded, faults>>
     \/ Fault /\ UNCHANGED folded
  /\ Goto(r, "simulate")
  /\ UNCHANGED <<files, snapshot, readable, start, clean, reported, signals>>

(* execute_simulator_runs: the smoke gate and the repetitions              *)
Simulate(r) ==
  /\ pc[r] = "simulate"
  /\ \/ /\ Goto(r, "build")
        /\ UNCHANGED <<files, folded, snapshot, readable, start, clean,
                       reported, signals, faults>>
     \/ Raises(r)

(* build_training_report: the gradient of r joins what it loaded.          *)
BuildReport(r) ==
  /\ pc[r] = "build"
  /\ \/ /\ folded' = [folded EXCEPT ![r] = @ \cup {r}]
        /\ Goto(r, "artifacts")
        /\ UNCHANGED <<files, snapshot, readable, start, clean, reported,
                       signals, faults>>
     \/ Raises(r)

(* The policy updates and the candidate scorecards.  Without a true        *)
(* gradient there is no state to write.                                    *)
MaterializeArtifacts(r) ==
  /\ pc[r] = "artifacts"
  /\ \/ /\ \E p \in {"snapshot", "plain"} : Goto(r, p)
        /\ UNCHANGED <<files, folded, snapshot, readable, start, clean,
                       reported, signals, faults>>
     \/ Raises(r)

(* A state that cannot be read is no reason to fail.                       *)
Snapshot(r) ==
  /\ pc[r] = "snapshot"
  /\ snapshot' = [snapshot EXCEPT ![r] = state]
  /\ \/ /\ readable' = [readable EXCEPT ![r] = (state # None)]
        /\ UNCHANGED <<clean, faults>>
     \/ /\ state # None /\ Fault
        /\ clean' = [clean EXCEPT ![r] = FALSE]
        /\ UNCHANGED readable
  /\ Goto(r, "state")
  /\ UNCHANGED <<files, folded, start, reported, signals>>

(* materialize_policy_gradient_momentum_state                              *)
WriteState(r) ==
  /\ pc[r] = "state"
  /\ \/ /\ PutState(r, r)
        /\ Goto(r, "report")
        /\ UNCHANGED <<report, failure, folded, snapshot, readable, start,
                       reported, signals, faults>>
     \/ Raises(r)

\* A report that cannot be written is only worth a warning.
WriteReportWarned(r) ==
  /\ pc[r] \in {"report", "plain"}
  /\ \/ /\ report' = [report EXCEPT ![ReportId[r]] = r]
        /\ reported' = reported \cup {r}
        /\ UNCHANGED faults
     \/ Fault /\ UNCHANGED <<report, reported>>
  /\ Goto(r, "print")
  /\ UNCHANGED <<state, failure, folded, snapshot, readable, start, clean,
                 signals>>

WriteReport(r) ==
  /\ pc[r] \in {"report", "plain"}
  /\ \/ /\ report' = [report EXCEPT ![ReportId[r]] = r]
        /\ reported' = reported \cup {r}
        /\ Goto(r, "print")
        /\ UNCHANGED <<state, failure, folded, snapshot, readable, start,
                       clean, signals, faults>>
     \/ pc[r] = "plain" /\ Raises(r)
     \/ /\ pc[r] = "report" /\ Fault
        /\ Goto(r, "rollback")
        /\ UNCHANGED <<files, folded, snapshot, readable, start, clean,
                       reported, signals>>

\* Whatever there was before, the file is removed.
RolledBackToNothing(r) == None

(* What rollback_policy_gradient_momentum_state_artifact leaves: a state   *)
(* that was there but could not be read is not removed either.             *)
RolledBack(r) ==
  IF readable[r] THEN snapshot[r] ELSE IF snapshot[r] = None THEN None ELSE state

Rollback(r) ==
  /\ pc[r] = "rollback"
  /\ \/ PutState(r, RolledBack(r)) /\ UNCHANGED faults
     \/ /\ Fault
        /\ clean' = [clean EXCEPT ![r] = FALSE]
        /\ UNCHANGED state
  /\ Goto(r, "failing")
  /\ UNCHANGED <<report, failure, folded, snapshot, readable, start, reported,
                 signals>>

(* The summary on stdout ends main.                                        *)
PrintSummary(r) ==
  /\ pc[r] = "print"
  /\ \/ /\ Goto(r, "exit0")
        /\ UNCHANGED <<files, folded, snapshot, readable, start, clean,
                       reported, signals, faults>>
     \/ Raises(r)

(* write_training_failure_report; its own failure only shows on stderr.    *)
WriteFailure(r) ==
  /\ pc[r] = "failing"
  /\ \/ /\ failure' = [failure EXCEPT ![ReportId[r]] = r]
        /\ Goto(r, "failed")
        /\ UNCHANGED faults
     \/ Fault /\ Goto(r, "unreported") /\ UNCHANGED failure
  /\ UNCHANGED <<state, report, folded, snapshot, readable, start, clean,
                 reported, signals>>

Signal(r) ==
  /\ signals < MaxSignals
  /\ signals' = signals + 1
  /\ clean' = [clean EXCEPT ![r] = @ /\ pc[r] \notin {"report", "rollback"}]
  /\ UNCHANGED <<files, folded, snapshot, readable, start, reported, faults>>

(* SIGTERM or SIGINT: TrainingRunnerInterrupted.  One that comes while     *)
(* main handles an error escapes from main.                                *)
Interrupt(r) ==
  /\ pc[r] \in Working \cup {"failing"}
  /\ Signal(r)
  /\ Goto(r, IF pc[r] = "failing" THEN "unreported" ELSE "failing")

Kill(r) ==
  /\ pc[r] \in Working \cup {"failing"}
  /\ Signal(r)
  /\ Goto(r, "killed")

Next ==
  \E r \in Trainings :
    \/ Start(r) \/ LoadState(r) \/ Simulate(r) \/ BuildReport(r)
    \/ MaterializeArtifacts(r) \/ Snapshot(r) \/ WriteState(r)
    \/ WriteReport(r) \/ Rollback(r) \/ PrintSummary(r)
    \/ WriteFailure(r) \/ Interrupt(r) \/ Kill(r)

Spec == Init /\ [][Next]_vars

-----------------------------------------------------------------------------

(* No gradient of a training that left no report finds its way into the    *)
(* smoothed gradient of another one, however trainings overlap, fail, roll *)
(* back the state over one another or are cut short (load_policy_gradient_ *)
(* momentum_state, policy_gradient_momentum_state_source_report_load_error). *)
OnlyReportedGradients ==
  \A r \in Trainings : folded[r] \ {r} \subseteq reported

(* A training that fails with an exception before its report is written    *)
(* leaves the momentum state as it found it when it began                  *)
(* (rollback_policy_gradient_momentum_state_artifact).                     *)
FailureLeavesState ==
  \A r \in Trainings :
    pc[r] \in {"failing", "failed", "unreported"} /\ r \notin reported /\ clean[r]
    => state = start[r]
=============================================================================
