------------------------ MODULE TrainingRunner_proofs ------------------------
(***************************************************************************)
(* What holds of any number of trainings, whatever ids they are given      *)
(* (but for MomentumIsUsable, where each has its own) and whatever the     *)
(* number of signals and failures.                                         *)
(***************************************************************************)
EXTENDS TrainingRunner, TLAPS

USE TrainingAssumption

Pcs == Working \cup Over \cup {"new", "failing"}

LEMMA TypeInit == Init => TypeOK
  BY DEF Init, TypeOK, Working, Over

(* The bookkeeping of a step: where training r goes next.                  *)
LEMMA TypeGoto ==
  ASSUME TypeOK, NEW r \in Trainings, NEW p \in Pcs, Goto(r, p),
         reported' \in SUBSET Trainings,
         reported' = reported \/ reported' = reported \cup {r},
         p \in {"exit0", "print"} => r \in reported',
         p \in (Working \ {"print"}) \cup {"new"} => r \notin reported'
  PROVE  /\ pc' \in [Trainings -> Pcs]
         /\ \A q \in Trainings :
              /\ pc'[q] \in {"exit0", "print"} => q \in reported'
              /\ pc'[q] \in (Working \ {"print"}) \cup {"new"} => q \notin reported'
  BY DEF TypeOK, Goto, Pcs, Working, Over

LEMMA TypePut ==
  ASSUME TypeOK, NEW r \in Trainings, NEW s \in Trainings \cup {None}, PutState(r, s)
  PROVE  state' \in Trainings \cup {None} /\ clean' \in [Trainings -> BOOLEAN]
<1>1. \A q \in Trainings : (clean[q] /\ q = r) \in BOOLEAN
  OBVIOUS
<1> QED
  BY <1>1 DEF PutState

LEMMA TypeFault == TypeOK /\ Fault => faults' \in 0 .. MaxFaults
  BY DEF TypeOK, Fault

LEMMA TypeRaises ==
  ASSUME TypeOK, NEW r \in Trainings, Raises(r)
  PROVE  TypeOK'
<1>1. faults' \in 0 .. MaxFaults
  BY TypeFault DEF Raises
<1>2. /\ pc' \in [Trainings -> Pcs]
      /\ \A q \in Trainings :
           /\ pc'[q] \in {"exit0", "print"} => q \in reported'
           /\ pc'[q] \in (Working \ {"print"}) \cup {"new"} => q \notin reported'
  BY DEF Raises, Goto, TypeOK, Working, Over, Pcs
<1> QED
  BY <1>1, <1>2 DEF Raises, files, TypeOK, Pcs

LEMMA TypeStep == TypeOK /\ [Next]_vars => TypeOK'
<1> SUFFICES ASSUME TypeOK, [Next]_vars PROVE TypeOK'
  OBVIOUS
<1>1. CASE UNCHANGED vars
  BY <1>1 DEF vars, files, TypeOK
<1>2. ASSUME NEW r \in Trainings, Start(r) PROVE TypeOK'
  BY <1>2 DEF Start, Goto, files, TypeOK, Working, Over
<1>3. ASSUME NEW r \in Trainings, LoadState(r) PROVE TypeOK'
  <2>1. faults' \in 0 .. MaxFaults
    BY <1>3, TypeFault DEF LoadState, TypeOK
  <2>2. folded' \in [Trainings -> SUBSET Trainings]
    BY <1>3 DEF LoadState, SourceReportLoads, TypeOK
  <2> QED
    BY <1>3, <2>1, <2>2 DEF LoadState, Goto, files, TypeOK, Working, Over
<1>4. ASSUME NEW r \in Trainings, Simulate(r) PROVE TypeOK'
  BY <1>4, TypeRaises DEF Simulate, Goto, files, TypeOK, Working, Over
<1>5. ASSUME NEW r \in Trainings, BuildReport(r) PROVE TypeOK'
  BY <1>5, TypeRaises DEF BuildReport, Goto, files, TypeOK, Working, Over
<1>6. ASSUME NEW r \in Trainings, MaterializeArtifacts(r) PROVE TypeOK'
  BY <1>6, TypeRaises DEF MaterializeArtifacts, Goto, files, TypeOK, Working, Over
<1>7. ASSUME NEW r \in Trainings, Snapshot(r) PROVE TypeOK'
  <2>1. faults' \in 0 .. MaxFaults
    BY <1>7, TypeFault DEF Snapshot, TypeOK
  <2>2. readable' \in [Trainings -> BOOLEAN] /\ clean' \in [Trainings -> BOOLEAN]
    <3>1. (state # None) \in BOOLEAN
      OBVIOUS
    <3> QED
      BY <1>7, <3>1 DEF Snapshot, TypeOK
  <2> QED
    BY <1>7, <2>1, <2>2 DEF Snapshot, Goto, files, TypeOK, Working, Over
<1>8. ASSUME NEW r \in Trainings, WriteState(r) PROVE TypeOK'
  <2>1. CASE Raises(r)
    BY <2>1, TypeRaises
  <2>2. CASE PutState(r, r) /\ ~Raises(r)
    <3>1. state' \in Trainings \cup {None} /\ clean' \in [Trainings -> BOOLEAN]
      BY <2>2, TypePut
    <3> QED
      BY <1>8, <2>2, <3>1 DEF WriteState, Goto, TypeOK, Working, Over
  <2> QED
    BY <1>8, <2>1, <2>2 DEF WriteState
<1>9. ASSUME NEW r \in Trainings, WriteReport(r) PROVE TypeOK'
  <2>1. CASE Raises(r)
    BY <2>1, TypeRaises
  <2>2. CASE /\ reported' = reported \cup {r} /\ Goto(r, "print")
             /\ report' = [report EXCEPT ![ReportId[r]] = r]
             /\ UNCHANGED <<state, failure, folded, snapshot, readable, start,
                            clean, signals, faults>>
    BY <2>2 DEF Goto, TypeOK, Working, Over
  <2>3. CASE /\ pc[r] = "report" /\ Fault /\ Goto(r, "rollback")
             /\ UNCHANGED <<files, folded, snapshot, readable, start, clean,
                            reported, signals>>
    <3>1. faults' \in 0 .. MaxFaults
      BY <2>3, TypeFault
    <3> QED
      BY <2>3, <3>1 DEF Goto, files, TypeOK, Working, Over
  <2> QED
    BY <1>9, <2>1, <2>2, <2>3 DEF WriteReport
<1>10. ASSUME NEW r \in Trainings, Rollback(r) PROVE TypeOK'
  <2>1. RolledBack(r) \in Trainings \cup {None}
    BY DEF RolledBack, TypeOK
  <2>2. state' \in Trainings \cup {None} /\ clean' \in [Trainings -> BOOLEAN]
    BY <1>10, <2>1, TypePut DEF Rollback, TypeOK
  <2>3. faults' \in 0 .. MaxFaults
    BY <1>10, TypeFault DEF Rollback, TypeOK
  <2> QED
    BY <1>10, <2>2, <2>3 DEF Rollback, Goto, TypeOK, Working, Over
<1>11. ASSUME NEW r \in Trainings, PrintSummary(r) PROVE TypeOK'
  BY <1>11, TypeRaises DEF PrintSummary, Goto, files, TypeOK, Working, Over
<1>12. ASSUME NEW r \in Trainings, WriteFailure(r) PROVE TypeOK'
  <2>1. faults' \in 0 .. MaxFaults
    BY <1>12, TypeFault DEF WriteFailure, TypeOK
  <2> QED
    BY <1>12, <2>1 DEF WriteFailure, Goto, TypeOK, Working, Over
<1>13. ASSUME NEW r \in Trainings, Signal(r)
       PROVE  signals' \in 0 .. MaxSignals /\ clean' \in [Trainings -> BOOLEAN]
  BY <1>13 DEF Signal, TypeOK
<1>14. ASSUME NEW r \in Trainings, Interrupt(r) PROVE TypeOK'
  BY <1>13, <1>14 DEF Interrupt, Signal, Goto, files, TypeOK, Working, Over
<1>15. ASSUME NEW r \in Trainings, Kill(r) PROVE TypeOK'
  BY <1>13, <1>15 DEF Kill, Signal, Goto, files, TypeOK, Working, Over
<1> QED
  BY <1>1, <1>2, <1>3, <1>4, <1>5, <1>6, <1>7, <1>8, <1>9, <1>10, <1>11, <1>12,
     <1>14, <1>15 DEF Next

(* Every variable keeps its type, and a training is past its report        *)
(* exactly when the report counts as written.                              *)
THEOREM TypeCorrect == Spec => []TypeOK
  BY TypeInit, TypeStep, PTL DEF Spec

-----------------------------------------------------------------------------

(* Reports are written by trainings that reported: so is what a state that *)
(* loads brings with it.                                                   *)
ReportInv ==
  /\ \A i \in ReportIds : report[i] \in reported \cup {None}
  /\ OnlyReportedGradients

LEMMA ReportInit == Init => ReportInv
  BY DEF Init, ReportInv, OnlyReportedGradients

LEMMA ReportStep == TypeOK /\ ReportInv /\ [Next]_vars => ReportInv'
<1> SUFFICES ASSUME TypeOK, ReportInv, [Next]_vars PROVE ReportInv'
  OBVIOUS
<1>1. CASE UNCHANGED <<report, folded, reported>>
  BY <1>1 DEF ReportInv, OnlyReportedGradients
<1>2. ASSUME NEW r \in Trainings, LoadState(r), SourceReportLoads PROVE ReportInv'
  <2>1. state \in Trainings /\ state \in reported
    BY <1>2 DEF SourceReportLoads, ReportInv, TypeOK
  <2>2. folded[state] \subseteq reported
    BY <2>1 DEF ReportInv, OnlyReportedGradients
  <2> QED
    BY <1>2, <2>2 DEF LoadState, files, ReportInv, OnlyReportedGradients, TypeOK
<1>3. ASSUME NEW r \in Trainings, BuildReport(r) PROVE ReportInv'
  BY <1>3 DEF BuildReport, Raises, files, ReportInv, OnlyReportedGradients, TypeOK
<1>4. ASSUME NEW r \in Trainings, WriteReport(r) PROVE ReportInv'
  BY <1>4 DEF WriteReport, Raises, files, ReportInv, OnlyReportedGradients, TypeOK
<1>5. ASSUME NEW r \in Trainings,
             \/ Start(r) \/ Simulate(r) \/ MaterializeArtifacts(r) \/ Snapshot(r)
             \/ WriteState(r) \/ Rollback(r) \/ PrintSummary(r) \/ WriteFailure(r)
             \/ Interrupt(r) \/ Kill(r) \/ (LoadState(r) /\ ~SourceReportLoads)
      PROVE  UNCHANGED <<report, folded, reported>>
  BY <1>5 DEF Start, LoadState, Simulate, MaterializeArtifacts, Snapshot, WriteState,
     Rollback, PrintSummary, WriteFailure, Interrupt, Kill, Signal, Raises, PutState, files
<1>6. CASE UNCHANGED vars
  BY <1>1, <1>6 DEF vars, files
<1> QED
  BY <1>1, <1>2, <1>3, <1>4, <1>5, <1>6 DEF Next

(* A gradient reaches another training only through a state whose report   *)
(* is there, and a report is there only if its training wrote it.          *)
THEOREM GradientsAreReported == Spec => []OnlyReportedGradients
<1>1. Init => TypeOK /\ ReportInv
  BY TypeInit, ReportInit
<1>2. TypeOK /\ ReportInv /\ [Next]_vars => (TypeOK /\ ReportInv)'
  BY TypeStep, ReportStep
<1>3. ReportInv => OnlyReportedGradients
  BY DEF ReportInv
<1> QED
  BY <1>1, <1>2, <1>3, PTL DEF Spec

-----------------------------------------------------------------------------

(* What a training needs to put the state back: it has left the state      *)
(* alone, or it still knows the one it found.                              *)
Untouched ==
  {"load", "simulate", "build", "artifacts", "snapshot", "state", "plain",
   "failing", "failed", "unreported"}

Kept(r) ==
  clean[r] =>
    /\ pc[r] \in Untouched /\ r \notin reported => state = start[r]
    /\ pc[r] \in {"state", "report", "rollback"} =>
         snapshot[r] = start[r] /\ (readable[r] <=> snapshot[r] # None)

RestoreInv == \A r \in Trainings : Kept(r) /\ (pc[r] = "new" => ~clean[r])

LEMMA RestoreImplies == RestoreInv => FailureLeavesState
  BY DEF RestoreInv, Kept, Untouched, FailureLeavesState

LEMMA RestoreInit == Init => RestoreInv
  BY DEF Init, RestoreInv, Kept, Untouched

(* A step of r that leaves the state alone disturbs nobody else.           *)
LEMMA RestoreOthers ==
  ASSUME TypeOK, RestoreInv, NEW r \in Trainings, NEW p \in Pcs, Goto(r, p),
         UNCHANGED state,
         \A q \in Trainings \ {r} :
           /\ clean'[q] = clean[q] /\ start'[q] = start[q]
           /\ snapshot'[q] = snapshot[q] /\ readable'[q] = readable[q]
           /\ (q \in reported' <=> q \in reported),
         Kept(r)', p = "new" => ~clean'[r]
  PROVE  RestoreInv'
<1> SUFFICES ASSUME NEW q \in Trainings
             PROVE  Kept(q)' /\ (pc'[q] = "new" => ~clean'[q])
  BY DEF RestoreInv
<1>1. CASE q = r
  BY <1>1 DEF Goto, TypeOK
<1>2. CASE q # r
  <2>1. pc'[q] = pc[q]
    BY <1>2 DEF Goto, TypeOK
  <2> QED
    BY <1>2, <2>1 DEF RestoreInv, Kept
<1> QED
  BY <1>1, <1>2

(* A step of r that replaces the state leaves only r's view of it.         *)
LEMMA RestorePut ==
  ASSUME TypeOK, NEW r \in Trainings, NEW p \in Pcs, Goto(r, p), p # "new",
         NEW s, PutState(r, s), Kept(r)'
  PROVE  RestoreInv'
<1> SUFFICES ASSUME NEW q \in Trainings
             PROVE  Kept(q)' /\ (pc'[q] = "new" => ~clean'[q])
  BY DEF RestoreInv
<1>1. CASE q = r
  BY <1>1 DEF Goto, TypeOK
<1>2. CASE q # r
  <2>1. ~clean'[q]
    BY <1>2 DEF PutState
  <2> QED
    BY <2>1 DEF Kept
<1> QED
  BY <1>1, <1>2

LEMMA RestoreRaises ==
  ASSUME TypeOK, RestoreInv, NEW r \in Trainings, Raises(r),
         pc[r] \in {"simulate", "build", "artifacts", "state", "plain", "print"}
  PROVE  RestoreInv'
<1>1. Goto(r, "failing") /\ pc'[r] = "failing"
  BY DEF Raises, Goto, TypeOK
<1>2. Kept(r)'
  BY <1>1 DEF Raises, files, RestoreInv, Kept, Untouched, TypeOK
<1> QED
  BY <1>1, <1>2, RestoreOthers DEF Raises, files, Pcs

LEMMA RestoreStep == TypeOK /\ RestoreInv /\ [Next]_vars => RestoreInv'
<1> SUFFICES ASSUME TypeOK, RestoreInv, [Next]_vars PROVE RestoreInv'
  OBVIOUS
<1> USE DEF Pcs, Working, Over
<1>1. CASE UNCHANGED vars
  BY <1>1 DEF vars, files, RestoreInv, Kept
<1>2. ASSUME NEW r \in Trainings, Start(r) PROVE RestoreInv'
  <2>1. pc'[r] = "load" /\ Kept(r)'
    BY <1>2 DEF Start, Goto, files, Kept, Untouched, TypeOK
  <2> QED
    BY <1>2, <2>1, RestoreOthers DEF Start, files, TypeOK
<1>3. ASSUME NEW r \in Trainings, LoadState(r) PROVE RestoreInv'
  <2>1. pc'[r] = "simulate" /\ Kept(r)'
    BY <1>3 DEF LoadState, Goto, files, RestoreInv, Kept, Untouched, TypeOK
  <2> QED
    BY <1>3, <2>1, RestoreOthers DEF LoadState, files
<1>4. ASSUME NEW r \in Trainings, Simulate(r), ~Raises(r) PROVE RestoreInv'
  <2>1. pc'[r] = "build" /\ Kept(r)'
    BY <1>4 DEF Simulate, Goto, files, RestoreInv, Kept, Untouched, TypeOK
  <2> QED
    BY <1>4, <2>1, RestoreOthers DEF Simulate, files
<1>5. ASSUME NEW r \in Trainings, BuildReport(r), ~Raises(r) PROVE RestoreInv'
  <2>1. pc'[r] = "artifacts" /\ Kept(r)'
    BY <1>5 DEF BuildReport, Goto, files, RestoreInv, Kept, Untouched, TypeOK
  <2> QED
    BY <1>5, <2>1, RestoreOthers DEF BuildReport, files
<1>6. ASSUME NEW r \in Trainings, MaterializeArtifacts(r), ~Raises(r) PROVE RestoreInv'
  <2>1. PICK p \in {"snapshot", "plain"} : Goto(r, p)
    BY <1>6 DEF MaterializeArtifacts
  <2>2. pc'[r] = p /\ Kept(r)'
    BY <1>6, <2>1 DEF MaterializeArtifacts, Goto, files, RestoreInv, Kept, Untouched, TypeOK
  <2> QED
    BY <1>6, <2>1, <2>2, RestoreOthers DEF MaterializeArtifacts, files
<1>7. ASSUME NEW r \in Trainings, Snapshot(r) PROVE RestoreInv'
  <2>1. pc'[r] = "state" /\ snapshot'[r] = state
    BY <1>7 DEF Snapshot, Goto, TypeOK
  <2>2. clean'[r] => clean[r] /\ (readable'[r] <=> state # None)
    BY <1>7 DEF Snapshot, TypeOK
  <2>3. clean[r] => state = start[r]
    BY <1>7 DEF Snapshot, RestoreInv, Kept, Untouched, TypeOK
  <2>4. start' = start /\ state' = state
    BY <1>7 DEF Snapshot, files
  <2>5. Kept(r)'
    BY <2>1, <2>2, <2>3, <2>4 DEF Kept
  <2> QED
    BY <1>7, <2>1, <2>5, RestoreOthers DEF Snapshot, files, TypeOK
<1>8. ASSUME NEW r \in Trainings, WriteState(r), ~Raises(r) PROVE RestoreInv'
  <2>1. pc'[r] = "report" /\ PutState(r, r) /\ Goto(r, "report")
    BY <1>8 DEF WriteState, Goto, TypeOK
  <2>2. Kept(r)'
    BY <1>8, <2>1 DEF WriteState, PutState, RestoreInv, Kept, Untouched
  <2> QED
    BY <2>1, <2>2, RestorePut
<1>9. ASSUME NEW r \in Trainings, WriteReport(r), ~Raises(r) PROVE RestoreInv'
  <2>1. PICK p \in {"print", "rollback"} : Goto(r, p) /\ pc'[r] = p
    BY <1>9 DEF WriteReport, Goto, TypeOK
  <2>2. Kept(r)'
    BY <1>9, <2>1 DEF WriteReport, files, Goto, RestoreInv, Kept, Untouched, TypeOK
  <2> QED
    BY <1>9, <2>1, <2>2, RestoreOthers DEF WriteReport, files
<1>10. ASSUME NEW r \in Trainings, Rollback(r) PROVE RestoreInv'
  <2>1. Goto(r, "failing") /\ pc'[r] = "failing"
    BY <1>10 DEF Rollback, Goto, TypeOK
  <2>2. CASE PutState(r, RolledBack(r))
    <3>1. Kept(r)'
      BY <1>10, <2>1, <2>2 DEF Rollback, RolledBack, PutState, RestoreInv, Kept, Untouched
    <3> QED
      BY <2>1, <2>2, <3>1, RestorePut
  <2>3. CASE clean' = [clean EXCEPT ![r] = FALSE] /\ UNCHANGED state
    <3>1. Kept(r)'
      BY <2>3 DEF Kept, TypeOK
    <3> QED
      BY <1>10, <2>1, <2>3, <3>1, RestoreOthers DEF Rollback, TypeOK
  <2> QED
    BY <1>10, <2>2, <2>3 DEF Rollback
<1>11. ASSUME NEW r \in Trainings, PrintSummary(r), ~Raises(r) PROVE RestoreInv'
  <2>1. pc'[r] = "exit0" /\ Kept(r)'
    BY <1>11 DEF PrintSummary, Goto, files, Kept, Untouched, TypeOK
  <2> QED
    BY <1>11, <2>1, RestoreOthers DEF PrintSummary, files
<1>12. ASSUME NEW r \in Trainings, WriteFailure(r) PROVE RestoreInv'
  <2>1. PICK p \in {"failed", "unreported"} : Goto(r, p) /\ pc'[r] = p
    BY <1>12 DEF WriteFailure, Goto, TypeOK
  <2>2. Kept(r)'
    BY <1>12, <2>1 DEF WriteFailure, RestoreInv, Kept, Untouched
  <2> QED
    BY <1>12, <2>1, <2>2, RestoreOthers DEF WriteFailure
<1>13. ASSUME NEW r \in Trainings, Interrupt(r) PROVE RestoreInv'
  <2>1. PICK p \in {"failing", "unreported"} : Goto(r, p) /\ pc'[r] = p
    BY <1>13 DEF Interrupt, Goto, TypeOK
  <2>2. clean'[r] => clean[r] /\ pc[r] \notin {"report", "rollback"}
    BY <1>13 DEF Interrupt, Signal, TypeOK
  <2>3. pc[r] \in {"report", "rollback", "print"} \cup Untouched
    BY <1>13 DEF Interrupt, Untouched
  <2>4. pc[r] = "print" => r \in reported
    BY <1>13 DEF TypeOK
  <2>5. UNCHANGED <<state, start, reported>>
    BY <1>13 DEF Interrupt, Signal, files
  <2>6. Kept(r)'
    BY <2>1, <2>2, <2>3, <2>4, <2>5 DEF RestoreInv, Kept
  <2> QED
    BY <1>13, <2>1, <2>6, RestoreOthers DEF Interrupt, Signal, files, TypeOK
<1>14. ASSUME NEW r \in Trainings, Kill(r) PROVE RestoreInv'
  <2>1. pc'[r] = "killed" /\ Goto(r, "killed")
    BY <1>14 DEF Kill, Goto, TypeOK
  <2>2. Kept(r)'
    BY <2>1 DEF Kept, Untouched
  <2> QED
    BY <1>14, <2>1, <2>2, RestoreOthers DEF Kill, Signal, files, TypeOK
<1>15. ASSUME NEW r \in Trainings, Raises(r),
              \/ Simulate(r) \/ BuildReport(r) \/ MaterializeArtifacts(r)
              \/ WriteState(r) \/ PrintSummary(r) \/ (WriteReport(r) /\ pc[r] = "plain")
       PROVE  RestoreInv'
  BY <1>15, RestoreRaises DEF Simulate, BuildReport, MaterializeArtifacts, WriteState,
     PrintSummary
<1>16. ASSUME NEW r \in Trainings, WriteReport(r), Raises(r), pc[r] = "report"
       PROVE  FALSE
  BY <1>16 DEF WriteReport, Raises, Goto, TypeOK, files
<1>17. ASSUME NEW r \in Trainings, WriteReport(r) PROVE RestoreInv'
  BY <1>9, <1>15, <1>16, <1>17 DEF WriteReport
<1> QED
  BY <1>1, <1>2, <1>3, <1>4, <1>5, <1>6, <1>7, <1>8, <1>10, <1>11, <1>12,
     <1>13, <1>14, <1>15, <1>17 DEF Next

(* A training that fails before its report is written, and that nobody has *)
(* overtaken, leaves the momentum state as it found it.                    *)
THEOREM FailuresRestore == Spec => []FailureLeavesState
<1>1. Init => TypeOK /\ RestoreInv
  BY TypeInit, RestoreInit
<1>2. TypeOK /\ RestoreInv /\ [Next]_vars => (TypeOK /\ RestoreInv)'
  BY TypeStep, RestoreStep
<1>3. RestoreInv => FailureLeavesState
  BY RestoreImplies
<1> QED
  BY <1>1, <1>2, <1>3, PTL DEF Spec

-----------------------------------------------------------------------------
(* The next training can use the state *)

\* Before a training writes the state.
Early == {"new", "load", "simulate", "build", "artifacts", "snapshot", "state"}

UsableInv ==
  /\ state # None /\ clean[state] =>
       state \in reported \/ pc[state] \in {"report", "rollback"}
  /\ \A r \in Trainings :
       /\ start[r] # r /\ snapshot[r] # r
       /\ pc[r] \in Early =>
            state # r /\ \A q \in Trainings : start[q] # r /\ snapshot[q] # r
  /\ \A r \in reported : report[ReportId[r]] = r

\* A training that leaves a state leaves one that the next can use: its report
\* is there by the time its run is over, unless the state was disturbed.
StateIsUsable ==
  state # None /\ clean[state] /\ pc[state] \notin {"report", "rollback"}
    => SourceReportLoads

LEMMA UsableInit == Init => UsableInv
  BY TrainingAssumption DEF Init, UsableInv

(* A step of r that writes no state and no report, and after which r is    *)
(* where its state is looked after.                                        *)
LEMMA UsableKeeps ==
  ASSUME TypeOK, UsableInv, NEW r \in Trainings, NEW p, Goto(r, p),
         UNCHANGED <<state, report, reported>>,
         p \in Early => pc[r] \in Early,
         pc[r] \in {"report", "rollback"} => ~clean'[r] \/ p \in {"report", "rollback"},
         \A q \in Trainings : clean'[q] => clean[q] \/ (q = r /\ pc[r] \in Early),
         \A q \in Trainings : start'[q] \in {start[q], state} /\ (start'[q] # start[q] => q = r /\ pc[r] \in Early),
         \A q \in Trainings : snapshot'[q] \in {snapshot[q], state} /\ (snapshot'[q] # snapshot[q] => q = r /\ pc[r] \in Early)
  PROVE  UsableInv'
<1>1. pc'[r] = p /\ \A q \in Trainings \ {r} : pc'[q] = pc[q]
  BY DEF Goto, TypeOK
<1>2. state \in Trainings \cup {None}
  BY DEF TypeOK
<1>3. state # None /\ clean'[state] => state \in reported \/ pc'[state] \in {"report", "rollback"}
  BY <1>1, <1>2 DEF UsableInv
<1>4. ASSUME NEW s \in Trainings
      PROVE  /\ start'[s] # s /\ snapshot'[s] # s
             /\ pc'[s] \in Early =>
                  state # s /\ \A q \in Trainings : start'[q] # s /\ snapshot'[q] # s
  <2>1. pc'[s] \in Early => pc[s] \in Early
    BY <1>1
  <2>2. start'[s] # s /\ snapshot'[s] # s
    BY DEF UsableInv
  <2>3. pc[s] \in Early =>
          state # s /\ \A q \in Trainings : start'[q] # s /\ snapshot'[q] # s
    BY DEF UsableInv
  <2> QED
    BY <2>1, <2>2, <2>3
<1> QED
  BY <1>3, <1>4 DEF UsableInv

(* A step of r that replaces the state, by its own or by what it found.    *)
LEMMA UsablePut ==
  ASSUME TypeOK, UsableInv, NEW r \in Trainings, NEW p, Goto(r, p), NEW s, PutState(r, s),
         UNCHANGED <<report, reported, start, snapshot>>,
         p \notin Early, s \in {None, snapshot[r], state, r},
         s = r /\ clean[r] => p = "report"
  PROVE  UsableInv'
<1>1. pc'[r] = p /\ \A q \in Trainings \ {r} : pc'[q] = pc[q]
  BY DEF Goto, TypeOK
<1>2. s \in Trainings \cup {None}
  BY DEF TypeOK
<1>3. state' # None /\ clean'[state'] => state' \in reported \/ pc'[state'] \in {"report", "rollback"}
  BY <1>1, <1>2 DEF PutState
<1>4. ASSUME NEW t \in Trainings, pc'[t] \in Early
      PROVE  state' # t /\ \A q \in Trainings : start[q] # t /\ snapshot[q] # t
  <2>1. t # r /\ pc[t] \in Early
    BY <1>1, <1>4
  <2> QED
    BY <2>1, TrainingAssumption DEF UsableInv, PutState
<1> QED
  BY <1>3, <1>4 DEF UsableInv

LEMMA UsableRaises ==
  ASSUME TypeOK, UsableInv, NEW r \in Trainings, Raises(r),
         pc[r] \notin {"report", "rollback"}
  PROVE  UsableInv'
<1>1. "failing" \notin Early
  BY DEF Early
<1> QED
  BY <1>1, UsableKeeps DEF Raises, files

LEMMA UsableStep ==
  ASSUME \A q, r \in Trainings : ReportId[q] = ReportId[r] => q = r,
         TypeOK, RestoreInv, UsableInv, [Next]_vars
  PROVE  UsableInv'
<1>1. CASE UNCHANGED vars
  BY <1>1 DEF vars, files, UsableInv
<1>2. ASSUME NEW r \in Trainings, Start(r) PROVE UsableInv'
  <2>1. /\ pc[r] \in Early
        /\ \A q \in Trainings : start'[q] = IF q = r THEN state ELSE start[q]
        /\ \A q \in Trainings \ {r} : clean'[q] = clean[q]
    BY <1>2 DEF Start, Early, TypeOK
  <2> QED
    BY <1>2, <2>1, UsableKeeps DEF Start, files, Early
<1>3. ASSUME NEW r \in Trainings, LoadState(r) PROVE UsableInv'
  BY <1>3, UsableKeeps DEF LoadState, files, Early
<1>4. ASSUME NEW r \in Trainings, Simulate(r) PROVE UsableInv'
  <2>1. CASE Raises(r)
    BY <1>4, <2>1, UsableRaises DEF Simulate
  <2> QED
    BY <1>4, <2>1, UsableKeeps DEF Simulate, files, Early
<1>5. ASSUME NEW r \in Trainings, BuildReport(r) PROVE UsableInv'
  <2>1. CASE Raises(r)
    BY <1>5, <2>1, UsableRaises DEF BuildReport
  <2> QED
    BY <1>5, <2>1, UsableKeeps DEF BuildReport, files, Early
<1>6. ASSUME NEW r \in Trainings, MaterializeArtifacts(r) PROVE UsableInv'
  <2>1. CASE Raises(r)
    BY <1>6, <2>1, UsableRaises DEF MaterializeArtifacts
  <2>2. ASSUME NEW p \in {"snapshot", "plain"}, Goto(r, p), ~Raises(r) PROVE UsableInv'
    BY <1>6, <2>2, UsableKeeps DEF MaterializeArtifacts, files, Early
  <2> QED
    BY <1>6, <2>1, <2>2 DEF MaterializeArtifacts
<1>7. ASSUME NEW r \in Trainings, Snapshot(r) PROVE UsableInv'
  <2>1. /\ pc[r] \in Early /\ Goto(r, "state")
        /\ \A q \in Trainings : snapshot'[q] = IF q = r THEN state ELSE snapshot[q]
        /\ \A q \in Trainings : clean'[q] => clean[q]
    BY <1>7 DEF Snapshot, Early, TypeOK
  <2> QED
    BY <1>7, <2>1, UsableKeeps DEF Snapshot, files, Early
<1>8. ASSUME NEW r \in Trainings, WriteState(r) PROVE UsableInv'
  <2>1. CASE Raises(r)
    BY <1>8, <2>1, UsableRaises DEF WriteState
  <2>2. CASE ~Raises(r)
    BY <1>8, <2>2, UsablePut DEF WriteState, Early
  <2> QED
    BY <2>1, <2>2
<1>9. ASSUME NEW r \in Trainings, WriteReport(r) PROVE UsableInv'
  <2>1. CASE Raises(r)
    <3>1. pc[r] # "report"
      BY <1>9, <2>1 DEF WriteReport, Raises, Goto, TypeOK, files
    <3> QED
      BY <1>9, <2>1, <3>1, UsableRaises DEF WriteReport
  <2>2. CASE pc[r] = "report" /\ Goto(r, "rollback") /\ Fault
    <3>1. UNCHANGED <<state, report, reported, clean, start, snapshot>>
      BY <1>9, <2>2 DEF WriteReport, files, Goto, TypeOK, Raises
    <3> QED
      BY <2>2, <3>1, UsableKeeps DEF Early
  <2>3. CASE /\ report' = [report EXCEPT ![ReportId[r]] = r]
             /\ reported' = reported \cup {r} /\ Goto(r, "print")
             /\ UNCHANGED <<state, clean, start, snapshot>>
    <3>1. pc'[r] = "print" /\ \A q \in Trainings \ {r} : pc'[q] = pc[q]
      BY <2>3 DEF Goto, TypeOK
    <3>2. ASSUME NEW q \in reported' PROVE report'[ReportId[q]] = q
      <4>1. q \in Trainings /\ ReportId[q] \in ReportIds /\ ReportId[r] \in ReportIds
            /\ report \in [ReportIds -> Trainings \cup {None}]
        BY <2>3, TrainingAssumption DEF TypeOK
      <4>2. CASE q = r
        BY <2>3, <4>1, <4>2
      <4>3. CASE q # r
        BY <2>3, <4>1, <4>3 DEF UsableInv
      <4> QED
        BY <4>2, <4>3
    <3>3. \A s \in Trainings : pc'[s] \in Early => pc[s] \in Early
      BY <3>1 DEF Early
    <3>4. state # None /\ clean[state] =>
            state \in reported' \/ pc'[state] \in {"report", "rollback"}
      BY <2>3, <3>1 DEF UsableInv, TypeOK
    <3> QED
      BY <2>3, <3>2, <3>3, <3>4 DEF UsableInv
  <2> QED
    BY <1>9, <2>1, <2>2, <2>3 DEF WriteReport
<1>10. ASSUME NEW r \in Trainings, Rollback(r) PROVE UsableInv'
  <2>1. CASE PutState(r, RolledBack(r))
    <3>1. RolledBack(r) = r => ~clean[r]
      BY <1>10 DEF Rollback, RolledBack, RestoreInv, Kept, UsableInv
    <3>2. RolledBack(r) \in {None, snapshot[r], state, r}
      BY DEF RolledBack
    <3> QED
      BY <1>10, <2>1, <3>1, <3>2, UsablePut DEF Rollback, Early
  <2>2. CASE clean' = [clean EXCEPT ![r] = FALSE] /\ UNCHANGED state
    <3>1. ~clean'[r] /\ \A q \in Trainings : clean'[q] => clean[q]
      BY <2>2 DEF TypeOK
    <3> QED
      BY <1>10, <2>2, <3>1, UsableKeeps DEF Rollback, Early
  <2> QED
    BY <1>10, <2>1, <2>2 DEF Rollback
<1>11. ASSUME NEW r \in Trainings, PrintSummary(r) PROVE UsableInv'
  <2>1. CASE Raises(r)
    BY <1>11, <2>1, UsableRaises DEF PrintSummary
  <2> QED
    BY <1>11, <2>1, UsableKeeps DEF PrintSummary, files, Early
<1>12. ASSUME NEW r \in Trainings, WriteFailure(r) PROVE UsableInv'
  BY <1>12, UsableKeeps DEF WriteFailure, Early
<1>13. ASSUME NEW r \in Trainings, Interrupt(r) \/ Kill(r) PROVE UsableInv'
  <2>1. /\ \A q \in Trainings : clean'[q] => clean[q]
        /\ pc[r] \in {"report", "rollback"} => ~clean'[r]
        /\ UNCHANGED <<state, report, reported, start, snapshot>>
    BY <1>13 DEF Interrupt, Kill, Signal, files, TypeOK
  <2>2. PICK p \in {"failing", "unreported", "killed"} : Goto(r, p)
    BY <1>13 DEF Interrupt, Kill
  <2> QED
    BY <2>1, <2>2, UsableKeeps DEF Early
<1> QED
  BY <1>1, <1>2, <1>3, <1>4, <1>5, <1>6, <1>7, <1>8, <1>9, <1>10, <1>11,
     <1>12, <1>13 DEF Next

(* Where every training has a report id of its own, the momentum state can *)
(* always be used by the next training, once the training that wrote it is *)
(* past its report, unless another training wrote over it, the rollback or *)
(* the look at the old state failed, or a signal came in between.          *)
THEOREM MomentumIsUsable ==
  ASSUME \A q, r \in Trainings : ReportId[q] = ReportId[r] => q = r
  PROVE  Spec => []StateIsUsable
<1>1. Init => TypeOK /\ RestoreInv /\ UsableInv
  BY TypeInit, RestoreInit, UsableInit
<1>2. TypeOK /\ RestoreInv /\ UsableInv /\ [Next]_vars
      => (TypeOK /\ RestoreInv /\ UsableInv)'
  BY TypeStep, RestoreStep, UsableStep
<1>3. UsableInv => StateIsUsable
  BY DEF UsableInv, StateIsUsable, SourceReportLoads
<1> QED
  BY <1>1, <1>2, <1>3, PTL DEF Spec
=============================================================================
