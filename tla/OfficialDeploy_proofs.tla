----------------------- MODULE OfficialDeploy_proofs -----------------------
(***************************************************************************)
(* Proofs about the official deploy.  However the script is used: its      *)
(* types, and that every step brings a run nearer to its end.  With one    *)
(* run at a time: that the evidence is true when it is written, and that   *)
(* exit code 0 can be relied on until the next run.  If also every run has *)
(* an evidence file of its own: that a rollback is to the newest proven    *)
(* deploy.  If moreover --auto-rollback is only given with                 *)
(* --activate-world, to bundles that were just built: that a rollback      *)
(* uploads a proven bundle, and that the script implements SafeRollout,    *)
(* which it also does where nobody gives --auto-rollback.                  *)
(***************************************************************************)
EXTENDS OfficialDeploy, FiniteSetTheorems, TLAPS

\* What each phase of a run may rely on, whatever the operators do.
PhaseInv ==
  \A r \in Runs :
    /\ r \in InFlight => job[r] \in Jobs /\ art[r] \in Commits
    /\ pc[r] = "clone" => source[r] \in Branches
    /\ pc[r] = "rebuild" => prev[r] \in Deploys /\ prev[r] # None
    /\ pc[r] \notin Ended \cup {"report"} => polls[r] < MaxPolls

TInv == TypeOK /\ PhaseInv

\* One run at a time, each with an evidence file of its own.
Separate == OneAtATime /\ FreshFiles

(* What an operator of --auto-rollback has to keep to for the rollback to be *)
(* sound; nothing in the script enforces it.  The deploy workflow is within  *)
(* these bounds: a concurrency group, a build from a clean checkout, a       *)
(* runner of its own with an empty evidence directory, and, whether it       *)
(* activates or not, no --auto-rollback.  The command of the runbook         *)
(* (docs/ops/official-mmo-deploy.md:96) gives no --auto-rollback either, but *)
(* the same file every time: with the option added it is not Separate, and   *)
(* the rollback may be to an unproven bundle.                                *)
Disciplined == Separate /\ CleanBuild /\ ActivatedRollbacks

ProvenDeploy(d) == \E h \in proven : h.art = d.commit /\ h.branch = d.branch

\* One run in flight, which has a file of its own.
OwnershipInv ==
  /\ \A r, s \in InFlight : r = s
  /\ \A r \in Runs : pc[r] = "idle" => job[r] = None
  /\ \A r \in Started : job[r].file \in Files
  /\ \A r, s \in Started : job[r].file = job[s].file => r = s
  /\ \A r \in Runs : pc[r] = "idle" => prev[r] = None

\* A gate file is written once, after, and about, the evidence it is paired with.
EvidenceInv ==
  /\ \A f \in Files : gate[f] # "none" => \E s \in Started : job[s].file = f
  /\ \A r \in InFlight :
       prev[r] = None /\ pc[r] # "find" => gate[job[r].file] = "none"
  /\ \A r \in InFlight :
       pc[r] = "gate" => evidence[job[r].file] =
         [commit |-> job[r].commit, branch |-> job[r].branch, ts |-> job[r].ts]
  /\ \A r \in InFlight : pc[r] \in {"gate", "find"} => prev[r] = None

\* What a run has in hand, what the verification leaves true, and what the
\* rollback has chosen.
RollbackInv ==
  /\ \A r \in Started : job[r].auto => job[r].activate
  /\ \A r \in InFlight : prev[r] = None => art[r] = job[r].commit
  /\ \A r \in InFlight : pc[r] = "gate" => job[r].auto
  /\ \A r \in InFlight :
       pc[r] \in {"record", "gate"} /\ job[r].activate => Live = art[r]
  /\ \A f \in Files :
       evidence[f] # None /\ gate[f] = "ok" => ProvenDeploy(evidence[f])
  /\ \A r \in Runs : prev[r] # None =>
       prev[r].branch = job[r].branch /\ ProvenDeploy(prev[r])
  /\ \A r \in Runs :
       prev[r] # None /\ pc[r] \notin {"rebuild", "escalated", "killed"} =>
         art[r] = prev[r].commit

FileInv == TInv /\ OwnershipInv /\ EvidenceInv

Inv == FileInv /\ RollbackInv

-----------------------------------------------------------------------------
(* Types *)

LEMMA NowIsNat == TypeOK => Now \in Nat
<1> SUFFICES ASSUME TypeOK PROVE Cardinality(Started) \in Nat
  BY DEF Now
<1>1. IsFiniteSet(Started)
  BY DeployAssumption, FS_Subset DEF Started
<1> QED BY <1>1, FS_CardinalityType

LEMMA InitTypes == Init => TInv
<1> USE DeployAssumption
<1> SUFFICES ASSUME Init PROVE TInv
  OBVIOUS
<1>1. TypeOK BY DEF Init, TypeOK, Phases
<1>2. PhaseInv BY DEF Init, PhaseInv, InFlight, Ended
<1> QED BY <1>1, <1>2 DEF TInv

LEMMA StartTypes ==
  ASSUME TInv, NEW r \in Runs, Begin(r)
  PROVE  TInv'
<1> USE DeployAssumption DEF TInv, remote, files, GoTo
<1>1. CASE \E f \in Files : DryRun(r, f)
  <2> PICK f \in Files : DryRun(r, f) BY <1>1
  <2>1. TypeOK' BY DEF DryRun, TypeOK, Phases, Ended
  <2>2. PhaseInv' BY DEF DryRun, TypeOK, PhaseInv, InFlight, Phases, Ended
  <2> QED BY <2>1, <2>2
<1>2. ASSUME NEW c \in Commits, NEW dist \in Commits, NEW f \in Files \cup {None},
             NEW b \in Branches, NEW activate \in ActivateChoices,
             NEW auto \in RollbackChoices,
             Start(r, c, dist, f, b, activate, auto)
      PROVE  TInv'
  <2> DEFINE j == [commit |-> c, file |-> f, branch |-> b,
                   activate |-> activate, auto |-> auto, ts |-> Now]
  <2>1. j \in Jobs BY NowIsNat DEF Jobs
  <2>2. job' = [job EXCEPT ![r] = j] BY <1>2 DEF Start
  <2> HIDE DEF j
  <2>3. TypeOK' BY <1>2, <2>1, <2>2 DEF Start, TypeOK, Phases, Ended
  <2>4. PhaseInv'
    BY <1>2, <2>1, <2>2 DEF Start, TypeOK, PhaseInv, InFlight, Phases, Ended
  <2> QED BY <2>3, <2>4
<1> QED BY <1>1, <1>2 DEF Begin

LEMMA StepTypes ==
  ASSUME TInv, NEW r \in Runs, Step(r) \/ Killed(r)
  PROVE  TInv'
<1> USE DeployAssumption DEF TInv, TypeOK, PhaseInv, InFlight, Phases, Ended,
                             remote, files, GoTo, Failure
<1>1. CASE ListBranches(r) BY <1>1 DEF ListBranches
<1>2. ASSUME NEW applied \in BOOLEAN, CloneBranch(r, applied) PROVE TInv'
  BY <1>2 DEF CloneBranch, Jobs
<1>3. ASSUME NEW applied \in BOOLEAN, UploadCode(r, applied) PROVE TInv'
  BY <1>3 DEF UploadCode, Jobs
<1>4. ASSUME NEW applied \in BOOLEAN, SetActiveWorldBranch(r, applied) PROVE TInv'
  BY <1>4 DEF SetActiveWorldBranch, Jobs
<1>5. CASE VerifyBranchCode(r) BY <1>5 DEF VerifyBranchCode
<1>6. CASE VerifyActiveBranch(r) BY <1>6 DEF VerifyActiveBranch
<1>7. CASE VerifyActiveCode(r) BY <1>7 DEF VerifyActiveCode
<1>8. CASE RecordEvidence(r) BY <1>8 DEF RecordEvidence, Jobs, Deploys
<1>9. CASE GatePasses(r) BY <1>9 DEF GatePasses, GateFile, Jobs, Proofs
<1>10. ASSUME NEW survival \in BOOLEAN, GateFails(r, survival) PROVE TInv'
  BY <1>10 DEF GateFails, GateFile, Jobs
<1>11. CASE FindPreviousHealthy(r)
  BY <1>11 DEF FindPreviousHealthy, HealthyEvidence, Newest
<1>12. CASE RebuildRollback(r) BY <1>12 DEF RebuildRollback, Deploys
<1>13. ASSUME NEW recovered \in BOOLEAN, PollRecovery(r, recovered) PROVE TInv'
  BY <1>13 DEF PollRecovery
<1>14. CASE ReportRollback(r) BY <1>14 DEF ReportRollback
<1>15. CASE CallFails(r) BY <1>15 DEF CallFails
<1>16. CASE Killed(r) BY <1>16 DEF Killed
<1> QED
  BY <1>1, <1>2, <1>3, <1>4, <1>5, <1>6, <1>7, <1>8, <1>9, <1>10, <1>11,
     <1>12, <1>13, <1>14, <1>15, <1>16 DEF Step

LEMMA StutterTypes == TInv /\ UNCHANGED vars => TInv'
BY DEF TInv, TypeOK, PhaseInv, InFlight, vars

\* Every reachable state of the script is well typed, and the recovery loop
\* never polls past its deadline.
THEOREM TypeCorrect == Spec => []TypeOK
<1>1. TInv /\ [Next]_vars => TInv'
  BY StartTypes, StepTypes, StutterTypes DEF Next, AllOver
<1>2. TInv => TypeOK BY DEF TInv
<1> QED BY InitTypes, <1>1, <1>2, PTL DEF Spec

LEMMA StartedCount ==
  ASSUME TypeOK, NEW r \in Runs, r \notin Started, Started' = Started \cup {r}
  PROVE  Cardinality(Started') = Cardinality(Started) + 1 /\ Cardinality(Started) \in Nat
<1>1. IsFiniteSet(Started) BY DeployAssumption, FS_Subset DEF Started
<1> QED BY <1>1, FS_CardinalityType, FS_AddElement

\* What every step after the start of a run leaves alone.
LEMMA StepFrame ==
  ASSUME TypeOK, NEW r \in Runs, Step(r) \/ Killed(r)
  PROVE  /\ job' = job /\ Started' = Started
         /\ pc[r] \notin Ended \cup {"idle"} /\ r \in InFlight
         /\ \E p : pc' = [pc EXCEPT ![r] = p]
<1>1. CASE Killed(r) BY <1>1 DEF Killed, InFlight, GoTo, Started, files, remote
<1>2. CASE Step(r)
  <2>1. \E p : pc' = [pc EXCEPT ![r] = p]
    <3> USE DEF GoTo, Failure
    <3>1. CASE ListBranches(r) BY <3>1 DEF ListBranches
    <3>2. ASSUME NEW applied \in BOOLEAN, CloneBranch(r, applied)
          PROVE  \E p : pc' = [pc EXCEPT ![r] = p]
      BY <3>2 DEF CloneBranch
    <3>3. ASSUME NEW applied \in BOOLEAN, UploadCode(r, applied)
          PROVE  \E p : pc' = [pc EXCEPT ![r] = p]
      BY <3>3 DEF UploadCode
    <3>4. ASSUME NEW applied \in BOOLEAN, SetActiveWorldBranch(r, applied)
          PROVE  \E p : pc' = [pc EXCEPT ![r] = p]
      BY <3>4 DEF SetActiveWorldBranch
    <3>5. CASE VerifyBranchCode(r) BY <3>5 DEF VerifyBranchCode
    <3>6. CASE VerifyActiveBranch(r) BY <3>6 DEF VerifyActiveBranch
    <3>7. CASE VerifyActiveCode(r) BY <3>7 DEF VerifyActiveCode
    <3>8. CASE RecordEvidence(r) BY <3>8 DEF RecordEvidence
    <3>9. CASE GatePasses(r) BY <3>9 DEF GatePasses
    <3>10. ASSUME NEW survival \in BOOLEAN, GateFails(r, survival)
           PROVE  \E p : pc' = [pc EXCEPT ![r] = p]
      BY <3>10 DEF GateFails
    <3>11. CASE FindPreviousHealthy(r) BY <3>11 DEF FindPreviousHealthy
    <3>12. CASE RebuildRollback(r) BY <3>12 DEF RebuildRollback
    <3>13. ASSUME NEW recovered \in BOOLEAN, PollRecovery(r, recovered)
           PROVE  \E p : pc' = [pc EXCEPT ![r] = p]
      <4>1. CASE pc' = pc
        <5>1. pc' = [pc EXCEPT ![r] = pc[r]] BY <4>1 DEF TypeOK
        <5> QED BY <5>1
      <4> QED BY <3>13, <4>1 DEF PollRecovery
    <3>14. CASE ReportRollback(r) BY <3>14 DEF ReportRollback
    <3>15. CASE CallFails(r) BY <3>15 DEF CallFails
    <3> HIDE DEF GoTo, Failure
    <3> QED BY <1>2, <3>1, <3>2, <3>3, <3>4, <3>5, <3>6, <3>7, <3>8, <3>9, <3>10,
               <3>11, <3>12, <3>13, <3>14, <3>15 DEF Step
  <2>2. job' = job /\ pc[r] \notin Ended \cup {"idle"}
    BY <1>2 DEF Step, ListBranches, CloneBranch, UploadCode, VerifyBranchCode,
      SetActiveWorldBranch, VerifyActiveBranch, VerifyActiveCode, RecordEvidence,
      GatePasses, GateFails, FindPreviousHealthy, RebuildRollback, PollRecovery,
      ReportRollback, CallFails, InFlight, GoTo, Ended, files, remote
  <2> QED BY <2>1, <2>2 DEF Started, InFlight
<1> QED BY <1>1, <1>2

-----------------------------------------------------------------------------
(* The rollback bundle *)

LEMMA InitInv == Init => OwnershipInv /\ EvidenceInv /\ RollbackInv
BY DEF Init, OwnershipInv, EvidenceInv, RollbackInv, InFlight, Started, Ended

LEMMA StepOwnership ==
  ASSUME TInv, OwnershipInv, NEW r \in Runs, Step(r) \/ Killed(r)
  PROVE  OwnershipInv'
<1>1. PICK p : pc' = [pc EXCEPT ![r] = p] BY StepFrame DEF TInv
<1>2. job' = job /\ Started' = Started /\ r \in InFlight /\ pc \in [Runs -> Phases]
  BY StepFrame DEF TInv, TypeOK
<1>3. InFlight' \subseteq InFlight BY <1>1, <1>2 DEF InFlight
<1>4. pc'[r] # "idle" /\ \A q \in Runs \ {r} : prev'[q] = prev[q] /\ pc'[q] = pc[q]
  BY <1>1, <1>2 DEF Step, Killed, ListBranches, CloneBranch, UploadCode, VerifyBranchCode,
    SetActiveWorldBranch, VerifyActiveBranch, VerifyActiveCode, RecordEvidence,
    GatePasses, GateFails, FindPreviousHealthy, RebuildRollback, PollRecovery,
    ReportRollback, CallFails, GoTo, Failure, files, remote, InFlight, TInv, TypeOK
<1>5. \A q \in Runs : pc'[q] = "idle" => pc[q] = "idle" /\ prev'[q] = prev[q]
  BY <1>4
<1> QED BY <1>2, <1>3, <1>5 DEF OwnershipInv

\* What a run in flight can rely on when files are its own.
LEMMA FlightFacts ==
  ASSUME FileInv, NEW r \in InFlight
  PROVE  /\ r \in Runs /\ r \in Started /\ InFlight = {r}
         /\ job[r] \in Jobs /\ art[r] \in Commits
         /\ job[r].file \in Files /\ job[r].file # None
<1>1. r \in Runs /\ job[r] \in Jobs /\ art[r] \in Commits
  BY DEF FileInv, TInv, PhaseInv, InFlight
<1>2. r \in Started BY <1>1, DeployAssumption DEF Started
<1>3. job[r].file \in Files /\ InFlight = {r} BY <1>2 DEF FileInv, OwnershipInv
<1> QED BY <1>1, <1>2, <1>3, DeployAssumption

LEMMA StepEvidence ==
  ASSUME FileInv, NEW r \in Runs, Step(r) \/ Killed(r)
  PROVE  EvidenceInv'
<1> DEFINE f == job[r].file
           d == [commit |-> job[r].commit, branch |-> job[r].branch, ts |-> job[r].ts]
<1>1. PICK p : pc' = [pc EXCEPT ![r] = p] BY StepFrame DEF FileInv, TInv
<1>2. /\ job' = job /\ Started' = Started /\ r \in InFlight /\ pc \in [Runs -> Phases]
      /\ evidence \in [Files -> Deploys \cup {None}]
      /\ gate \in [Files -> {"none", "ok", "failed"}]
      /\ prev \in [Runs -> Deploys \cup {None}]
  BY StepFrame DEF FileInv, TInv, TypeOK
<1>3. InFlight = {r} /\ r \in Started /\ f \in Files /\ f # None BY <1>2, FlightFacts
<1>4. InFlight' \subseteq {r} BY <1>1, <1>3 DEF InFlight
<1>5. /\ pc[r] \in {"gate", "find"} => prev[r] = None
      /\ prev[r] = None /\ pc[r] # "find" => gate[f] = "none"
      /\ \A g \in Files : gate[g] # "none" => \E s \in Started : job[s].file = g
  BY <1>2 DEF FileInv, EvidenceInv
<1> HIDE DEF f
<1>6. \A g \in Files \ {f} : gate'[g] = gate[g]
  BY <1>2, <1>3 DEF Step, Killed, ListBranches, CloneBranch, UploadCode, VerifyBranchCode,
    SetActiveWorldBranch, VerifyActiveBranch, VerifyActiveCode, RecordEvidence,
    GatePasses, GateFails, FindPreviousHealthy, RebuildRollback, PollRecovery,
    ReportRollback, CallFails, GoTo, Failure, files, remote, GateFile, f
<1>7. ASSUME pc'[r] \in {"gate", "find"} PROVE prev'[r] = None
  BY <1>2, <1>5, <1>7 DEF Step, Killed, ListBranches, CloneBranch, UploadCode, VerifyBranchCode,
    SetActiveWorldBranch, VerifyActiveBranch, VerifyActiveCode, RecordEvidence,
    GatePasses, GateFails, FindPreviousHealthy, RebuildRollback, PollRecovery,
    ReportRollback, CallFails, GoTo, Failure, files, remote, Ended, InFlight
<1>8. ASSUME pc'[r] = "gate" PROVE evidence'[f] = d
  BY <1>2, <1>3, <1>8 DEF Step, Killed, ListBranches, CloneBranch, UploadCode, VerifyBranchCode,
    SetActiveWorldBranch, VerifyActiveBranch, VerifyActiveCode, RecordEvidence,
    GatePasses, GateFails, FindPreviousHealthy, RebuildRollback, PollRecovery,
    ReportRollback, CallFails, GoTo, Failure, files, remote, Ended, InFlight, f
<1>9. ASSUME r \in InFlight', prev'[r] = None, pc'[r] # "find" PROVE gate'[f] = "none"
  <2>1. CASE FindPreviousHealthy(r)
    <3>1. pc'[r] = "rebuild" BY <1>2, <1>9, <2>1 DEF FindPreviousHealthy, GoTo, InFlight, Ended
    <3>2. PICK g \in HealthyEvidence(r) : prev'[r] = evidence[g]
      BY <1>2, <2>1, <3>1 DEF FindPreviousHealthy, GoTo, Newest
    <3> QED BY <1>9, <3>2 DEF HealthyEvidence
  <2>2. CASE ~FindPreviousHealthy(r)
    <3>1. prev' = prev /\ gate' = gate /\ pc[r] # "find"
      BY <1>2, <1>9, <2>2 DEF Step, Killed, ListBranches, CloneBranch, UploadCode, VerifyBranchCode,
    SetActiveWorldBranch, VerifyActiveBranch, VerifyActiveCode, RecordEvidence,
    GatePasses, GateFails, FindPreviousHealthy, RebuildRollback, PollRecovery,
    ReportRollback, CallFails, GoTo, Failure, files, remote, Ended, InFlight
    <3> QED BY <1>5, <1>9, <3>1
  <2> QED BY <2>1, <2>2
<1>10. \A g \in Files : gate'[g] # "none" => \E s \in Started : job[s].file = g
  BY <1>3, <1>5, <1>6 DEF f
<1> QED BY <1>2, <1>4, <1>7, <1>8, <1>9, <1>10 DEF EvidenceInv, f

LEMMA StepRollback ==
  ASSUME FileInv, RollbackInv, NEW r \in Runs, Step(r) \/ Killed(r)
  PROVE  RollbackInv'
<1> DEFINE f == job[r].file
<1>1. PICK p : pc' = [pc EXCEPT ![r] = p] BY StepFrame DEF FileInv, TInv
<1>2. /\ job' = job /\ Started' = Started /\ r \in InFlight /\ pc \in [Runs -> Phases]
      /\ evidence \in [Files -> Deploys \cup {None}]
      /\ gate \in [Files -> {"none", "ok", "failed"}]
      /\ prev \in [Runs -> Deploys \cup {None}] /\ art \in [Runs -> Commits \cup {None}]
  BY StepFrame DEF FileInv, TInv, TypeOK
<1>3. InFlight = {r} /\ r \in Started /\ f \in Files /\ f # None BY <1>2, FlightFacts
<1>4. InFlight' \subseteq {r} /\ \A q \in Runs \ {r} : pc'[q] = pc[q]
  BY <1>1, <1>2, <1>3 DEF InFlight
<1>5. /\ pc[r] \in {"gate", "find"} => prev[r] = None
      /\ prev[r] = None /\ pc[r] # "find" => gate[f] = "none"
      /\ pc[r] = "gate" => evidence[f] =
           [commit |-> job[r].commit, branch |-> job[r].branch, ts |-> job[r].ts]
  BY <1>2 DEF FileInv, EvidenceInv
<1>6. /\ prev[r] = None => art[r] = job[r].commit
      /\ pc[r] = "gate" => job[r].auto
      /\ pc[r] \in {"record", "gate"} /\ job[r].activate => Live = art[r]
      /\ job[r].auto => job[r].activate
      /\ prev[r] # None => prev[r].branch = job[r].branch /\ ProvenDeploy(prev[r])
      /\ prev[r] # None /\ pc[r] # "rebuild" => art[r] = prev[r].commit
  BY <1>2, <1>3 DEF RollbackInv, InFlight, Ended
<1> HIDE DEF f
<1>7. proven \subseteq proven' BY DEF Step, Killed, ListBranches, CloneBranch, UploadCode, VerifyBranchCode,
    SetActiveWorldBranch, VerifyActiveBranch, VerifyActiveCode, RecordEvidence,
    GatePasses, GateFails, FindPreviousHealthy, RebuildRollback, PollRecovery,
    ReportRollback, CallFails, GoTo, Failure, files, remote
<1>8. \A e : ProvenDeploy(e) => \E h \in proven' : h.art = e.commit /\ h.branch = e.branch
  BY <1>7 DEF ProvenDeploy
<1>9. ASSUME r \in InFlight', pc'[r] = "gate" PROVE job[r].auto
  BY <1>2, <1>9 DEF Step, Killed, ListBranches, CloneBranch, UploadCode, VerifyBranchCode,
    SetActiveWorldBranch, VerifyActiveBranch, VerifyActiveCode, RecordEvidence,
    GatePasses, GateFails, FindPreviousHealthy, RebuildRollback, PollRecovery,
    ReportRollback, CallFails, GoTo, Failure, files, remote, InFlight, Ended
<1>10. ASSUME r \in InFlight', pc'[r] \in {"record", "gate"}, job[r].activate
       PROVE  Live' = art'[r]
  BY <1>2, <1>6, <1>10 DEF Step, Killed, ListBranches, CloneBranch, UploadCode, VerifyBranchCode,
    SetActiveWorldBranch, VerifyActiveBranch, VerifyActiveCode, RecordEvidence,
    GatePasses, GateFails, FindPreviousHealthy, RebuildRollback, PollRecovery,
    ReportRollback, CallFails, GoTo, Failure, files, remote, InFlight, Ended, Live
<1>11. ASSUME NEW q \in Runs, prev'[q] # None
       PROVE  /\ prev'[q].branch = job[q].branch
              /\ \E h \in proven' : h.art = prev'[q].commit /\ h.branch = prev'[q].branch
  <2>1. CASE prev'[q] = prev[q] BY <1>8, <1>11, <2>1 DEF RollbackInv
  <2>2. CASE prev'[q] # prev[q]
    <3>1. FindPreviousHealthy(r) /\ q = r BY <1>2, <2>2 DEF Step, Killed, ListBranches, CloneBranch, UploadCode, VerifyBranchCode,
    SetActiveWorldBranch, VerifyActiveBranch, VerifyActiveCode, RecordEvidence,
    GatePasses, GateFails, FindPreviousHealthy, RebuildRollback, PollRecovery,
    ReportRollback, CallFails, GoTo, Failure, files, remote
    <3>2. PICK g \in HealthyEvidence(r) : prev'[r] = evidence[g]
      BY <1>2, <2>2, <3>1 DEF FindPreviousHealthy, GoTo, Newest
    <3>3. ProvenDeploy(evidence[g]) /\ evidence[g].branch = job[r].branch
      BY <3>2 DEF HealthyEvidence, RollbackInv
    <3> QED BY <1>8, <3>1, <3>2, <3>3
  <2> QED BY <2>1, <2>2
<1>12. ASSUME NEW q \in Runs, prev'[q] # None, pc'[q] \notin {"rebuild", "escalated", "killed"}
       PROVE  art'[q] = prev'[q].commit
  <2>1. CASE q # r
    <3>1. art'[q] = art[q] /\ prev'[q] = prev[q] /\ pc'[q] = pc[q]
      BY <1>2, <1>4, <2>1 DEF Step, Killed, ListBranches, CloneBranch, UploadCode, VerifyBranchCode,
    SetActiveWorldBranch, VerifyActiveBranch, VerifyActiveCode, RecordEvidence,
    GatePasses, GateFails, FindPreviousHealthy, RebuildRollback, PollRecovery,
    ReportRollback, CallFails, GoTo, Failure, files, remote
    <3> QED BY <1>12, <3>1 DEF RollbackInv
  <2>2. CASE q = r /\ RebuildRollback(r) BY <1>2, <2>2 DEF RebuildRollback
  <2>3. CASE q = r /\ ~RebuildRollback(r)
    <3>1. art' = art /\ prev'[r] = prev[r] /\ pc[r] # "rebuild"
      <4>1. CASE FindPreviousHealthy(r)
        BY <1>2, <1>5, <1>12, <2>3, <4>1 DEF FindPreviousHealthy, GoTo, files, remote
      <4>2. CASE ~FindPreviousHealthy(r)
        BY <1>2, <1>12, <2>3, <4>2 DEF Step, Killed, ListBranches, CloneBranch, UploadCode, VerifyBranchCode,
    SetActiveWorldBranch, VerifyActiveBranch, VerifyActiveCode, RecordEvidence,
    GatePasses, GateFails, FindPreviousHealthy, RebuildRollback, PollRecovery,
    ReportRollback, CallFails, GoTo, Failure, files, remote
      <4> QED BY <4>1, <4>2
    <3> QED BY <1>6, <1>12, <2>3, <3>1
  <2> QED BY <2>1, <2>2, <2>3
<1>13. ASSUME r \in InFlight', prev'[r] = None PROVE art'[r] = job[r].commit
  <2>1. CASE RebuildRollback(r)
    <3>1. pc[r] = "rebuild" /\ prev' = prev BY <2>1 DEF RebuildRollback
    <3> QED BY <1>2, <1>13, <3>1 DEF FileInv, TInv, PhaseInv
  <2>2. CASE ~RebuildRollback(r)
    <3>1. art' = art /\ prev[r] = None
      BY <1>2, <1>5, <1>13, <2>2 DEF Step, Killed, ListBranches, CloneBranch, UploadCode, VerifyBranchCode,
    SetActiveWorldBranch, VerifyActiveBranch, VerifyActiveCode, RecordEvidence,
    GatePasses, GateFails, FindPreviousHealthy, RebuildRollback, PollRecovery,
    ReportRollback, CallFails, GoTo, Failure, files, remote
    <3> QED BY <1>6, <3>1
  <2> QED BY <2>1, <2>2
<1>14. ASSUME NEW g \in Files, evidence'[g] # None, gate'[g] = "ok"
       PROVE  \E h \in proven' : h.art = evidence'[g].commit /\ h.branch = evidence'[g].branch
  <2>1. CASE evidence'[g] = evidence[g] /\ gate'[g] = gate[g]
    BY <1>8, <1>14, <2>1 DEF RollbackInv
  <2>2. CASE GatePasses(r) /\ g = f
    <3> DEFINE h == [commit |-> job[r].commit, ts |-> job[r].ts,
                     branch |-> job[r].branch, art |-> art[r], file |-> job[r].file]
    <3>1. /\ pc[r] = "gate" /\ evidence' = evidence
          /\ proven' = IF Live = art[r] THEN proven \cup {h} ELSE proven
      BY <2>2 DEF GatePasses
    <3>2. h \in proven' /\ h.art = evidence[f].commit /\ h.branch = evidence[f].branch
      BY <1>5, <1>6, <3>1
    <3> QED BY <2>2, <3>1, <3>2
  <2>3. CASE RecordEvidence(r) /\ g = f
    <3>1. gate' = gate /\ pc[r] = "record" BY <2>3 DEF RecordEvidence
    <3>2. prev[r] = None => gate[f] = "none" BY <1>5, <3>1
    <3>3. prev[r] # None => evidence' = evidence BY <2>3 DEF RecordEvidence
    <3> QED BY <1>14, <2>1, <2>3, <3>1, <3>2, <3>3
  <2>4. CASE ~(GatePasses(r) /\ g = f) /\ ~(RecordEvidence(r) /\ g = f)
    <3>1. evidence'[g] = evidence[g] /\ gate'[g] \in {gate[g], "failed"}
      BY <1>2, <1>3, <2>4 DEF Step, Killed, ListBranches, CloneBranch, UploadCode, VerifyBranchCode,
    SetActiveWorldBranch, VerifyActiveBranch, VerifyActiveCode, RecordEvidence,
    GatePasses, GateFails, FindPreviousHealthy, RebuildRollback, PollRecovery,
    ReportRollback, CallFails, GoTo, Failure, files, remote, GateFile, f
    <3> QED BY <1>14, <2>1, <3>1
  <2> QED BY <2>2, <2>3, <2>4
<1>15. \A q \in Started' : job'[q].auto => job'[q].activate BY <1>2 DEF RollbackInv
<1> QED
  BY <1>2, <1>4, <1>9, <1>10, <1>11, <1>12, <1>13, <1>14, <1>15 DEF RollbackInv, ProvenDeploy

LEMMA StartInv ==
  ASSUME Separate, FileInv, TInv', NEW r \in Runs, Begin(r)
  PROVE  /\ OwnershipInv' /\ EvidenceInv'
         /\ Disciplined /\ RollbackInv => RollbackInv'
<1> USE DeployAssumption DEF FileInv, TInv, TypeOK, PhaseInv, InFlight, Started,
        Ended, remote, files, GoTo, OwnershipInv, EvidenceInv, Separate
<1>1. ASSUME NEW f \in Files, DryRun(r, f)
      PROVE  /\ OwnershipInv' /\ EvidenceInv'
             /\ Disciplined /\ RollbackInv => RollbackInv'
  <2>1. OwnershipInv' BY <1>1 DEF DryRun
  <2>2. EvidenceInv' BY <1>1 DEF DryRun
  <2>3. Disciplined /\ RollbackInv => RollbackInv'
    BY <1>1 DEF DryRun, RollbackInv, ProvenDeploy, Disciplined, Live
  <2> QED BY <2>1, <2>2, <2>3
<1>2. ASSUME NEW c \in Commits, NEW dist \in Commits, NEW f \in Files \cup {None},
             NEW b \in Branches, NEW activate \in ActivateChoices,
             NEW auto \in RollbackChoices,
             Start(r, c, dist, f, b, activate, auto)
      PROVE  /\ OwnershipInv' /\ EvidenceInv'
             /\ Disciplined /\ RollbackInv => RollbackInv'
  <2> DEFINE j == [commit |-> c, file |-> f, branch |-> b,
                   activate |-> activate, auto |-> auto, ts |-> Now]
  <2>1. /\ j.file = f /\ j.commit = c /\ j.branch = b
        /\ j.activate = activate /\ j.auto = auto
        /\ job' = [job EXCEPT ![r] = j]
    BY <1>2 DEF Start
  <2> HIDE DEF j
  <2>2. /\ pc[r] = "idle" /\ InFlight = {} /\ f \in Files
        /\ f # None /\ \A s \in Started : job[s].file # f
        /\ CleanBuild => dist = c
        /\ ActivatedRollbacks /\ auto => activate
    BY <1>2 DEF Start
  <2>3. /\ art' = [art EXCEPT ![r] = dist] /\ pc' = [pc EXCEPT ![r] = "list"]
        /\ UNCHANGED <<code, active, evidence, gate, source, prev, polls, proven>>
    BY <1>2 DEF Start
  <2>4. Started' \subseteq Started \cup {r} /\ InFlight' = {r}
    BY <2>1, <2>2, <2>3
  <2>5. \A s \in Started : s # r /\ job'[s] = job[s] /\ s \in Started'
    BY <2>1, <2>2
  <2>6. gate[f] = "none" BY <2>2
  <2>7. OwnershipInv' BY <2>1, <2>2, <2>3, <2>4, <2>5
  <2>8. EvidenceInv' BY <2>1, <2>2, <2>3, <2>4, <2>5, <2>6
  <2>9. Disciplined /\ RollbackInv => RollbackInv'
    BY <2>1, <2>2, <2>3, <2>4, <2>5 DEF RollbackInv, ProvenDeploy, Disciplined, Live
  <2> QED BY <2>7, <2>8, <2>9
<1> HIDE DEF FileInv, OwnershipInv, EvidenceInv, Separate
<1> QED BY <1>1, <1>2 DEF Begin

LEMMA FilesStep ==
  ASSUME Separate, FileInv, [Next]_vars
  PROVE  FileInv'
<1>1. TInv' BY StartTypes, StepTypes, StutterTypes DEF Next, AllOver, FileInv
<1>2. ASSUME NEW r \in Runs, Begin(r) PROVE FileInv'
  BY <1>1, <1>2, StartInv DEF FileInv
<1>3. ASSUME NEW r \in Runs, Step(r) \/ Killed(r) PROVE FileInv'
  BY <1>1, <1>3, StepOwnership, StepEvidence DEF FileInv
<1>4. CASE UNCHANGED vars
  <2> USE <1>4 DEF vars, InFlight, Started
  <2>1. OwnershipInv' BY DEF FileInv, OwnershipInv
  <2>2. EvidenceInv' BY DEF FileInv, EvidenceInv
  <2> QED BY <1>1, <2>1, <2>2 DEF FileInv
<1> QED BY <1>2, <1>3, <1>4 DEF Next, AllOver

LEMMA InvStep ==
  ASSUME Disciplined, Inv, [Next]_vars
  PROVE  Inv'
<1>1. FileInv' BY FilesStep DEF Inv, Disciplined
<1>2. ASSUME NEW r \in Runs, Begin(r) PROVE RollbackInv'
  BY <1>1, <1>2, StartInv DEF Inv, FileInv, Disciplined
<1>3. ASSUME NEW r \in Runs, Step(r) \/ Killed(r) PROVE RollbackInv'
  BY <1>3, StepRollback DEF Inv
<1>4. CASE UNCHANGED vars
  <2>1. InFlight' = InFlight /\ Started' = Started /\ Live' = Live
    BY <1>4 DEF vars, InFlight, Started, Live
  <2>2. UNCHANGED <<evidence, gate, job, pc, art, prev, proven>> BY <1>4 DEF vars
  <2>3. RollbackInv' <=> RollbackInv BY <2>1, <2>2 DEF RollbackInv, ProvenDeploy
  <2> QED BY <1>1, <2>3 DEF Inv
<1> QED BY <1>1, <1>2, <1>3, <1>4 DEF Next, AllOver, Inv

\* Where operators are Disciplined, whether they give --auto-rollback or not,
\* the script only ever rolls back to a bundle that passed the health gate of
\* its target while it was the live one.
THEOREM ProvenRollback ==
  ASSUME Disciplined
  PROVE  Spec => []RollsBackToProvenBundle
<1>1. Init => Inv BY InitTypes, InitInv DEF Inv, FileInv
<1>2. Inv /\ [Next]_vars => Inv' BY InvStep
<1>3. Inv => RollsBackToProvenBundle
  BY DEF Inv, RollbackInv, RollsBackToProvenBundle, ProvenDeploy
<1> QED BY <1>1, <1>2, <1>3, PTL DEF Spec

-----------------------------------------------------------------------------
(* Every run ends *)

\* Only the first deploy of a run is judged by the gate.
GateOnce == \A r \in Runs : pc[r] \in {"gate", "find"} => prev[r] = None

LEMMA StepGateOnce ==
  ASSUME TInv, GateOnce, [Next]_vars
  PROVE  GateOnce'
<1> USE DEF TInv, TypeOK, GateOnce, remote, files, GoTo, Failure, Ended
<1>1. ASSUME NEW r \in Runs, Begin(r) PROVE GateOnce'
  BY <1>1 DEF Begin, Start, DryRun
<1>2. ASSUME NEW r \in Runs, Killed(r) PROVE GateOnce'
  BY <1>2 DEF Killed
<1>3. ASSUME NEW r \in Runs, Step(r) PROVE GateOnce'
  <2>1. \A q \in Runs \ {r} : pc'[q] = pc[q] /\ prev'[q] = prev[q]
    BY <1>3 DEF Step, ListBranches, CloneBranch, UploadCode, VerifyBranchCode,
      SetActiveWorldBranch, VerifyActiveBranch, VerifyActiveCode, RecordEvidence,
      GatePasses, GateFails, FindPreviousHealthy, RebuildRollback, PollRecovery,
      ReportRollback, CallFails
  <2>2. pc'[r] \in {"gate", "find"} => prev'[r] = None
    BY <1>3 DEF Step, ListBranches, CloneBranch, UploadCode, VerifyBranchCode,
      SetActiveWorldBranch, VerifyActiveBranch, VerifyActiveCode, RecordEvidence,
      GatePasses, GateFails, FindPreviousHealthy, RebuildRollback, PollRecovery,
      ReportRollback, CallFails
  <2> QED BY <2>1, <2>2
<1>4. CASE UNCHANGED vars BY <1>4 DEF vars
<1> QED BY <1>1, <1>2, <1>3, <1>4 DEF Next, AllOver

LEMMA StageBounds ==
  ASSUME NEW p \in Phases
  PROVE  Stage(p) \in 0 .. 12
BY DEF Stage

LEMMA ProgressIsNat == TInv => \A r \in Runs : Progress(r) \in Nat
<1> SUFFICES ASSUME TInv, NEW r \in Runs PROVE Progress(r) \in Nat
  OBVIOUS
<1>1. pc[r] \in Phases /\ polls[r] \in Nat /\ MaxPolls \in Nat
  BY DeployAssumption DEF TInv, TypeOK
<1>2. Stage(pc[r]) \in 0 .. 12 BY <1>1, StageBounds
<1> QED BY <1>1, <1>2 DEF Progress

\* A run that is over stays so, and nothing is farther.
LEMMA ProgressOfOver ==
  ASSUME TInv, NEW r \in Runs, pc[r] \notin Ended
  PROVE  Progress(r) < 25 + MaxPolls
<1>1. /\ pc[r] \in Phases /\ polls[r] \in Nat /\ MaxPolls \in Nat
      /\ pc[r] # "report" => polls[r] < MaxPolls
  BY DeployAssumption DEF TInv, TypeOK, PhaseInv
<1>2. Stage(pc[r]) \in 0 .. 12 BY <1>1, StageBounds
<1> QED BY <1>1, <1>2 DEF Progress

LEMMA StepAdvances ==
  ASSUME TInv, GateOnce, NEW r \in Runs, Begin(r) \/ Step(r) \/ Killed(r)
  PROVE  /\ Progress(r)' > Progress(r)
         /\ \A q \in Runs \ {r} : Progress(q)' = Progress(q)
<1> USE DeployAssumption DEF TInv, TypeOK, PhaseInv, remote, files, GoTo
<1>1. \A q \in Runs \ {r} : Progress(q)' = Progress(q)
  <2>1. \A q \in Runs \ {r} : pc'[q] = pc[q] /\ prev'[q] = prev[q] /\ polls'[q] = polls[q]
    <3>1. CASE Begin(r) BY <3>1 DEF Begin, Start, DryRun
    <3>2. CASE Killed(r) BY <3>2 DEF Killed
    <3>3. CASE Step(r)
      BY <3>3 DEF Step, ListBranches, CloneBranch, UploadCode, VerifyBranchCode,
        SetActiveWorldBranch, VerifyActiveBranch, VerifyActiveCode, RecordEvidence,
        GatePasses, GateFails, FindPreviousHealthy, RebuildRollback, PollRecovery,
        ReportRollback, CallFails
    <3> QED BY <3>1, <3>2, <3>3
  <2> QED BY <2>1 DEF Progress
<1>2. pc[r] \notin Ended
  <2>1. CASE Begin(r) BY <2>1 DEF Begin, Start, DryRun, Ended
  <2>2. CASE Killed(r) BY <2>2 DEF Killed, InFlight
  <2>3. CASE Step(r)
    BY <2>3 DEF Step, ListBranches, CloneBranch, UploadCode, VerifyBranchCode,
      SetActiveWorldBranch, VerifyActiveBranch, VerifyActiveCode, RecordEvidence,
      GatePasses, GateFails, FindPreviousHealthy, RebuildRollback, PollRecovery,
      ReportRollback, CallFails, InFlight, Ended
  <2> QED BY <2>1, <2>2, <2>3
<1>3. CASE pc'[r] \in Ended
  <2>1. Progress(r)' = 25 + MaxPolls BY <1>3 DEF Progress
  <2>2. Progress(r) \in Nat /\ MaxPolls \in Nat BY ProgressIsNat
  <2> QED BY <1>1, <1>2, <2>1, <2>2, ProgressOfOver
<1>4. CASE pc'[r] \notin Ended
  <2>1. CASE Begin(r)
    <3>1. pc[r] = "idle" /\ pc'[r] = "list" /\ prev'[r] = prev[r]
      BY <1>4, <2>1 DEF Begin, Start, DryRun, Ended
    <3> QED BY <1>1, <3>1 DEF Progress, Stage, Ended
  <2>2. CASE PollRecovery(r, TRUE) \/ PollRecovery(r, FALSE)
    <3>1. /\ pc[r] = "recover" /\ polls[r] \in Nat /\ polls[r] < MaxPolls
          /\ polls'[r] = polls[r] + 1 /\ pc'[r] \in {"recover", "report"}
      BY <1>4, <2>2 DEF PollRecovery, Ended
    <3> QED BY <1>1, <3>1 DEF Progress, Ended
  <2>3. CASE RebuildRollback(r)
    <3>1. pc[r] = "rebuild" /\ pc'[r] = "list" /\ prev'[r] # None
      BY <2>3 DEF RebuildRollback
    <3> QED BY <1>1, <3>1 DEF Progress, Stage, Ended
  <2>4. CASE FindPreviousHealthy(r)
    <3>1. pc[r] = "find" /\ pc'[r] = "rebuild" /\ prev[r] = None
      BY <1>4, <2>4 DEF GateOnce, FindPreviousHealthy, Ended
    <3> QED BY <1>1, <3>1 DEF Progress, Stage, Ended
  <2>5. CASE RecordEvidence(r)
    <3>1. /\ pc[r] = "record" /\ prev'[r] = prev[r] /\ polls'[r] = polls[r] /\ polls[r] \in Nat
          /\ \/ prev[r] # None /\ pc'[r] = "recover"
             \/ prev[r] = None /\ pc'[r] = "gate"
      BY <1>4, <2>5 DEF RecordEvidence, Ended
    <3> QED BY <1>1, <3>1 DEF Progress, Stage, Ended
  <2>6. CASE GateFails(r, TRUE) \/ GateFails(r, FALSE)
    <3>1. pc[r] = "gate" /\ pc'[r] = "find" /\ prev'[r] = prev[r]
      BY <1>4, <2>6 DEF GateFails, Ended
    <3> QED BY <1>1, <3>1 DEF Progress, Stage, Ended
  <2>7. CASE \/ ListBranches(r) \/ VerifyBranchCode(r) \/ VerifyActiveBranch(r)
             \/ VerifyActiveCode(r)
             \/ \E applied \in BOOLEAN : \/ CloneBranch(r, applied)
                                         \/ UploadCode(r, applied)
                                         \/ SetActiveWorldBranch(r, applied)
    <3>1. /\ prev'[r] = prev[r]
          /\ \/ pc[r] = "list" /\ pc'[r] \in {"clone", "upload"}
             \/ pc[r] = "clone" /\ pc'[r] = "upload"
             \/ pc[r] = "upload" /\ pc'[r] = "verify"
             \/ pc[r] = "verify" /\ pc'[r] \in {"activate", "record"}
             \/ pc[r] = "activate" /\ pc'[r] = "verifyActive"
             \/ pc[r] = "verifyActive" /\ pc'[r] = "verifyCode"
             \/ pc[r] = "verifyCode" /\ pc'[r] = "record"
      BY <1>4, <2>7 DEF ListBranches, VerifyBranchCode, VerifyActiveBranch,
        VerifyActiveCode, CloneBranch, UploadCode, SetActiveWorldBranch, Failure, Ended
    <3> QED BY <1>1, <3>1 DEF Progress, Stage, Ended
  <2>8. ~(GatePasses(r) \/ ReportRollback(r) \/ CallFails(r) \/ Killed(r))
    BY <1>4 DEF GatePasses, ReportRollback, CallFails, Killed, Failure, Ended
  <2> QED BY <2>1, <2>2, <2>3, <2>4, <2>5, <2>6, <2>7, <2>8 DEF Step
<1> HIDE DEF TInv, TypeOK, PhaseInv, GoTo, remote, files
<1> QED BY <1>3, <1>4

LEMMA ProgressStaysNat == TInv' => (\A r \in Runs : Progress(r) \in Nat)'
BY ProgressIsNat, PTL

\* For any number of runs that interleave, every step brings a run nearer to
\* its end and none is taken back.
THEOREM StepsAreBounded == Spec => EveryStepAdvances
<1>1. TInv /\ [Next]_vars => TInv'
  BY StartTypes, StepTypes, StutterTypes DEF Next, AllOver
<1>2. TInv /\ TInv' /\ GateOnce /\ [Next]_vars =>
        [/\ \E r \in Runs : Progress(r)' > Progress(r)
         /\ \A r \in Runs : Progress(r)' >= Progress(r)]_vars
  <2> SUFFICES ASSUME TInv, TInv', GateOnce, NEW r \in Runs, Begin(r) \/ Step(r) \/ Killed(r)
               PROVE  /\ \E q \in Runs : Progress(q)' > Progress(q)
                      /\ \A q \in Runs : Progress(q)' >= Progress(q)
    BY DEF Next, AllOver
  <2>1. /\ Progress(r)' > Progress(r)
        /\ \A q \in Runs \ {r} : Progress(q)' = Progress(q)
    BY StepAdvances
  <2>2. \A q \in Runs : Progress(q) \in Nat BY ProgressIsNat
  <2>3. (\A q \in Runs : Progress(q) \in Nat)' BY ProgressStaysNat
  <2> QED BY <2>1, <2>2, <2>3
<1>3. Init => GateOnce BY DEF Init, GateOnce
<1> QED BY InitTypes, StepGateOnce, <1>1, <1>2, <1>3, PTL DEF Spec, EveryStepAdvances

-----------------------------------------------------------------------------
(* What the evidence says, and which evidence is picked *)

\* The uploaded branch holds the bundle from its verification to the gate.
CodeInv ==
  \A r \in InFlight :
    pc[r] \in {"activate", "verifyActive", "verifyCode", "record", "gate"} =>
      code[job[r].branch] = art[r]

\* The evidence of a proven deploy stays as it was written, and the run in
\* flight is the last that started.
ProvenInv ==
  /\ \A h \in proven :
       /\ h \in Proofs /\ h.file \in Files /\ h.file # None /\ gate[h.file] = "ok"
       /\ evidence[h.file] = [commit |-> h.commit, branch |-> h.branch, ts |-> h.ts]
       /\ \E s \in Started : job[s].file = h.file /\ job[s].commit = h.commit
  /\ \A s \in Started : job[s].ts <= Cardinality(Started)
  /\ \A r \in InFlight : job[r].ts = Cardinality(Started)

LEMMA StepCode ==
  ASSUME TInv, \A q, s \in InFlight : q = s, CodeInv, NEW r \in Runs, Step(r) \/ Killed(r)
  PROVE  CodeInv'
<1>1. PICK p : pc' = [pc EXCEPT ![r] = p] BY StepFrame DEF TInv
<1>2. /\ job' = job /\ r \in InFlight /\ InFlight = {r} /\ job[r].branch \in Branches
      /\ pc \in [Runs -> Phases] /\ code \in [Branches -> Commits \cup {None}]
  BY StepFrame DEF TInv, TypeOK, PhaseInv, Jobs
<1>3. InFlight' \subseteq {r} BY <1>1, <1>2 DEF InFlight
<1>4. SUFFICES ASSUME pc'[r] \in {"activate", "verifyActive", "verifyCode", "record", "gate"}
               PROVE  code'[job[r].branch] = art'[r]
  BY <1>2, <1>3 DEF CodeInv
<1>5. /\ code' = code /\ art' = art
      /\ \/ pc[r] = "verify" /\ code[job[r].branch] = art[r]
         \/ pc[r] \in {"activate", "verifyActive", "verifyCode", "record"}
  BY <1>2, <1>4 DEF Step, Killed, ListBranches, CloneBranch, UploadCode, VerifyBranchCode,
    SetActiveWorldBranch, VerifyActiveBranch, VerifyActiveCode, RecordEvidence,
    GatePasses, GateFails, FindPreviousHealthy, RebuildRollback, PollRecovery,
    ReportRollback, CallFails, GoTo, Failure, files, remote, Ended
<1> QED BY <1>2, <1>5 DEF CodeInv

LEMMA BeginCode ==
  ASSUME OneAtATime, TInv, CodeInv, NEW r \in Runs, Begin(r)
  PROVE  CodeInv'
<1>1. /\ InFlight = {} /\ pc'[r] \in {"list", "exit0"}
      /\ \A q \in Runs \ {r} : pc'[q] = pc[q]
  BY DEF Begin, Start, DryRun, GoTo, TInv, TypeOK
<1>2. InFlight' \subseteq {r} BY <1>1 DEF InFlight
<1> QED BY <1>1, <1>2 DEF CodeInv

LEMMA StepProven ==
  ASSUME Separate, FileInv, ProvenInv, NEW r \in Runs, Step(r) \/ Killed(r)
  PROVE  ProvenInv'
<1> DEFINE f == job[r].file
           d == [commit |-> job[r].commit, branch |-> job[r].branch, ts |-> job[r].ts]
<1>1. /\ job' = job /\ Started' = Started /\ r \in InFlight /\ InFlight' \subseteq InFlight
      /\ r \in Started /\ job[r] \in Jobs /\ art[r] \in Commits /\ f \in Files /\ f # None
  <2>1. PICK p : pc' = [pc EXCEPT ![r] = p] BY StepFrame DEF FileInv, TInv
  <2>2. /\ InFlight' \subseteq InFlight /\ r \in InFlight
        /\ job' = job /\ Started' = Started
    BY <2>1, StepFrame DEF InFlight, FileInv, TInv, TypeOK
  <2> QED BY <2>2, FlightFacts
<1> HIDE DEF f
<1>2. /\ \A s \in Started' : job'[s].ts <= Cardinality(Started')
      /\ \A q \in InFlight' : job'[q].ts = Cardinality(Started')
  BY <1>1 DEF ProvenInv
<1>3. CASE pc[r] = "gate"
  <2>1. gate[f] = "none" /\ evidence[f] = d
    BY <1>1, <1>3 DEF FileInv, EvidenceInv, f
  <2>2. /\ evidence' = evidence
        /\ \A g \in Files \ {f} : gate'[g] = gate[g]
        /\ \/ proven' = proven
           \/ /\ gate'[f] = "ok"
              /\ proven' = proven \cup {[commit |-> job[r].commit, ts |-> job[r].ts,
                    branch |-> job[r].branch, art |-> art[r], file |-> f]}
    BY <1>1, <1>3 DEF Step, Killed, ListBranches, CloneBranch, UploadCode, VerifyBranchCode,
      SetActiveWorldBranch, VerifyActiveBranch, VerifyActiveCode, RecordEvidence,
      GatePasses, GateFails, GateFile, FindPreviousHealthy, RebuildRollback, PollRecovery,
      ReportRollback, CallFails, GoTo, files, remote, f, FileInv, TInv, TypeOK
  <2>3. ASSUME NEW h \in proven
        PROVE  /\ h \in Proofs /\ h.file \in Files /\ h.file # None /\ gate'[h.file] = "ok"
               /\ evidence'[h.file] = [commit |-> h.commit, branch |-> h.branch, ts |-> h.ts]
               /\ \E s \in Started' : job'[s].file = h.file /\ job'[s].commit = h.commit
    BY <1>1, <2>1, <2>2, <2>3 DEF ProvenInv
  <2>4. ASSUME NEW h, gate'[f] = "ok",
               h = [commit |-> job[r].commit, ts |-> job[r].ts,
                    branch |-> job[r].branch, art |-> art[r], file |-> f]
        PROVE  /\ h \in Proofs /\ h.file \in Files /\ h.file # None /\ gate'[h.file] = "ok"
               /\ evidence'[h.file] = [commit |-> h.commit, branch |-> h.branch, ts |-> h.ts]
               /\ \E s \in Started' : job'[s].file = h.file /\ job'[s].commit = h.commit
    <3>1. h \in Proofs BY <1>1, <2>1, <2>4 DEF Proofs, Jobs
    <3>2. /\ h.file = f /\ h.commit = job[r].commit /\ h.branch = job[r].branch
          /\ h.ts = job[r].ts
      BY <2>4
    <3>3. evidence'[f] = d BY <2>1, <2>2
    <3> QED BY <1>1, <2>4, <3>1, <3>2, <3>3 DEF f
  <2> QED BY <1>2, <2>2, <2>3, <2>4 DEF ProvenInv
<1>4. CASE pc[r] # "gate"
  <2>1. proven' = proven /\ gate' = gate
    BY <1>4 DEF Step, Killed, ListBranches, CloneBranch, UploadCode, VerifyBranchCode,
      SetActiveWorldBranch, VerifyActiveBranch, VerifyActiveCode, RecordEvidence,
      GatePasses, GateFails, FindPreviousHealthy, RebuildRollback, PollRecovery,
      ReportRollback, CallFails, GoTo, files, remote
  <2>2. \A g \in Files : evidence'[g] = evidence[g] \/ (g = f /\ gate[g] = "none")
    <3>1. CASE evidence' = evidence BY <3>1
    <3>2. CASE RecordEvidence(r) /\ prev[r] = None
      <4>1. pc[r] = "record" BY <3>2 DEF RecordEvidence
      <4>2. gate[f] = "none" BY <1>1, <3>2, <4>1 DEF FileInv, EvidenceInv, f
      <4>3. evidence' = [evidence EXCEPT ![f] = d]
        BY <1>1, <3>2 DEF RecordEvidence, f
      <4> QED BY <4>2, <4>3 DEF FileInv, TInv, TypeOK
    <3>3. evidence' = evidence \/ (RecordEvidence(r) /\ prev[r] = None)
      BY DEF Step, Killed, ListBranches, CloneBranch, UploadCode, VerifyBranchCode,
        SetActiveWorldBranch, VerifyActiveBranch, VerifyActiveCode, RecordEvidence,
        GatePasses, GateFails, FindPreviousHealthy, RebuildRollback, PollRecovery,
        ReportRollback, CallFails, GoTo, files, remote
    <3> QED BY <3>1, <3>2, <3>3
  <2> QED BY <1>1, <1>2, <2>1, <2>2 DEF ProvenInv
<1> QED BY <1>3, <1>4

LEMMA BeginProven ==
  ASSUME Separate, FileInv, ProvenInv, CodeInv, NEW r \in Runs, Begin(r)
  PROVE  ProvenInv' /\ CodeInv'
<1> USE DeployAssumption DEF remote, files, GoTo
<1>1. ASSUME NEW f \in Files, DryRun(r, f) PROVE ProvenInv' /\ CodeInv'
  <2>1. /\ UNCHANGED <<code, gate, job, art, proven>> /\ Started' = Started
        /\ InFlight' = InFlight /\ \A q \in InFlight : pc'[q] = pc[q]
    BY <1>1 DEF DryRun, Started, InFlight, FileInv, TInv, TypeOK, Ended
  <2>2. \A g \in Files \ {f} : evidence'[g] = evidence[g]
    BY <1>1 DEF DryRun, FileInv, TInv, TypeOK
  <2>3. gate[f] = "none"
    BY <1>1 DEF DryRun, Separate, FileInv, EvidenceInv
  <2>4. ProvenInv' BY <2>1, <2>2, <2>3 DEF ProvenInv
  <2> QED BY <2>1, <2>4 DEF CodeInv
<1>2. ASSUME NEW c \in Commits, NEW dist \in Commits, NEW f \in Files \cup {None},
             NEW b \in Branches, NEW activate \in ActivateChoices,
             NEW auto \in RollbackChoices,
             Start(r, c, dist, f, b, activate, auto)
      PROVE  ProvenInv' /\ CodeInv'
  <2> DEFINE j == [commit |-> c, file |-> f, branch |-> b,
                   activate |-> activate, auto |-> auto, ts |-> Now]
  <2>1. j \in Jobs /\ j.ts = Cardinality(Started) + 1 /\ job' = [job EXCEPT ![r] = j]
    BY <1>2, NowIsNat DEF Start, Jobs, FileInv, TInv, Now
  <2> HIDE DEF j
  <2>2. /\ pc[r] = "idle" /\ InFlight = {} /\ r \notin Started
        /\ UNCHANGED <<code, gate, evidence, proven>>
        /\ pc' = [pc EXCEPT ![r] = "list"]
    BY <1>2 DEF Start, Separate, FileInv, OwnershipInv, Started
  <2>3. Started' = Started \cup {r} /\ InFlight' = {r}
    BY <2>1, <2>2 DEF Started, InFlight, FileInv, TInv, TypeOK, Ended
  <2>4. Cardinality(Started') = Cardinality(Started) + 1 /\ Cardinality(Started) \in Nat
    BY <2>2, <2>3, StartedCount DEF FileInv, TInv
  <2>5. \A s \in Started : job'[s] = job[s] /\ job[s] \in Jobs
    BY <2>1, <2>2 DEF Started, FileInv, TInv, TypeOK
  <2>6. job'[r] = j BY <2>1 DEF FileInv, TInv, TypeOK
  <2>7. /\ \A s \in Started' : job'[s].ts <= Cardinality(Started')
        /\ \A q \in InFlight' : job'[q].ts = Cardinality(Started')
    <3>1. \A s \in Started : job[s].ts \in Nat /\ job[s].ts <= Cardinality(Started)
      BY <2>5 DEF ProvenInv, Jobs
    <3> QED BY <2>1, <2>3, <2>4, <2>5, <2>6, <3>1
  <2>8. \A h \in proven : \E s \in Started' : job'[s].file = h.file /\ job'[s].commit = h.commit
    <3> TAKE h \in proven
    <3>1. PICK s \in Started : job[s].file = h.file /\ job[s].commit = h.commit
      BY DEF ProvenInv
    <3>2. s \in Started' /\ job'[s] = job[s] BY <2>3, <2>5
    <3> QED BY <3>1, <3>2
  <2>9. ProvenInv' BY <2>2, <2>7, <2>8 DEF ProvenInv
  <2>10. CodeInv' BY <2>2, <2>3 DEF CodeInv, FileInv, TInv, TypeOK
  <2> QED BY <2>9, <2>10
<1> QED BY <1>1, <1>2 DEF Begin

\* No healthy predecessor escapes the search: each is still in its file.
LEMMA PredecessorsAreListed ==
  ASSUME FileInv, ProvenInv, NEW r \in InFlight, NEW h \in Predecessors(r)
  PROVE  h.file \in HealthyEvidence(r) /\ evidence[h.file].ts = h.ts
<1>1. /\ h \in proven /\ h.branch = job[r].branch /\ h.commit # job[r].commit
      /\ h \in Proofs /\ h.file \in Files /\ gate[h.file] = "ok"
      /\ evidence[h.file] = [commit |-> h.commit, branch |-> h.branch, ts |-> h.ts]
  BY DEF Predecessors, ProvenInv
<1>2. PICK s \in Started : job[s].file = h.file /\ job[s].commit = h.commit
  BY <1>1 DEF ProvenInv
<1>3. r \in Started
  BY DeployAssumption DEF FileInv, TInv, PhaseInv, InFlight, Started
<1>4. h.file # job[r].file BY <1>1, <1>2, <1>3 DEF FileInv, OwnershipInv
<1>5. evidence[h.file] # None 
  <2>1. [commit |-> h.commit, branch |-> h.branch, ts |-> h.ts] \in Deploys
    BY <1>1 DEF Proofs, Deploys
  <2> QED BY <1>1, <2>1, EvidenceAssumption
<1> QED BY <1>1, <1>4, <1>5 DEF HealthyEvidence

\* A run that found no evidence had started.
PicksInv ==
  /\ PicksNewestProven
  /\ \A r \in Runs : pc[r] = "noEvidence" => r \in Started

LEMMA StepPicks ==
  ASSUME Separate, FileInv, ProvenInv, PicksInv, NEW r \in Runs, Step(r) \/ Killed(r)
  PROVE  PicksInv'
<1>1. PICK p : pc' = [pc EXCEPT ![r] = p] BY StepFrame DEF FileInv, TInv
<1>2. /\ job' = job /\ r \in InFlight /\ InFlight = {r} /\ pc \in [Runs -> Phases]
      /\ job[r] \in Jobs /\ Started' = Started
  BY StepFrame DEF FileInv, OwnershipInv, TInv, TypeOK, PhaseInv
<1>3. \A q \in Runs \ {r} : pc'[q] = pc[q] /\ pc[q] \in Ended \cup {"idle"}
  BY <1>1, <1>2 DEF InFlight
<1>6. r \in Started
  BY <1>2, DeployAssumption DEF Started, FileInv, TInv, PhaseInv
<1>7. \A q \in Runs : pc'[q] = "noEvidence" => q \in Started'
  BY <1>2, <1>3, <1>6 DEF PicksInv
<1>8. SUFFICES PicksNewestProven' BY <1>7 DEF PicksInv
<1> USE DEF PicksInv
<1>4. CASE FindPreviousHealthy(r)
  <2>1. /\ proven' = proven /\ pc[r] = "find" /\ evidence' = evidence
        /\ \A q \in Runs \ {r} : prev'[q] = prev[q]
    BY <1>4 DEF FindPreviousHealthy, files, FileInv, TInv, TypeOK
  <2>2. \A q \in Runs : Predecessors(q)' = Predecessors(q)
    BY <1>2, <2>1 DEF Predecessors
  <2>3. CASE HealthyEvidence(r) = {} /\ pc' = [pc EXCEPT ![r] = "noEvidence"]
    <3>1. Predecessors(r) = {} BY <1>2, <2>3, PredecessorsAreListed
    <3> QED BY <1>2, <1>3, <2>1, <2>2, <2>3, <3>1 DEF PicksNewestProven, Ended
  <2>4. ASSUME NEW g \in Newest(HealthyEvidence(r)),
               prev' = [prev EXCEPT ![r] = evidence[g]], pc' = [pc EXCEPT ![r] = "rebuild"]
        PROVE  PicksNewestProven'
    <3>1. prev'[r] = evidence[g] BY <2>4 DEF FileInv, TInv, TypeOK
    <3>2. \A h \in Predecessors(r) : h.ts <= evidence[g].ts
      BY <1>2, <2>4, PredecessorsAreListed DEF Newest
    <3>3. pc'[r] = "rebuild" BY <1>2, <2>4
    <3> QED BY <1>2, <1>3, <2>1, <2>2, <3>1, <3>2, <3>3 DEF PicksNewestProven, Ended
  <2> QED BY <1>4, <2>3, <2>4 DEF FindPreviousHealthy, GoTo
<1>5. CASE ~FindPreviousHealthy(r)
  <2>1. pc'[r] \notin {"noEvidence", "rebuild"} /\ prev' = prev
    <3>1. CASE Step(r)
      BY <1>2, <1>5, <3>1 DEF Step, ListBranches, CloneBranch, UploadCode, VerifyBranchCode,
        SetActiveWorldBranch, VerifyActiveBranch, VerifyActiveCode, RecordEvidence,
        GatePasses, GateFails, RebuildRollback, PollRecovery,
        ReportRollback, CallFails, GoTo, Failure
    <3>2. CASE Killed(r) BY <1>2, <3>2 DEF Killed, GoTo
    <3> QED BY <3>1, <3>2
  <2>2. ASSUME NEW q \in Runs \ {r}
        PROVE  /\ pc[q] = "noEvidence" =>
                    {h \in Predecessors(q)' : h.ts < job[q].ts} \subseteq Predecessors(q)
               /\ pc[q] # "rebuild"
    <3>1. pc[q] # "rebuild" BY <1>3, <2>2 DEF Ended
    <3>2. ASSUME pc[q] = "noEvidence", NEW h \in Predecessors(q)', h.ts < job[q].ts
          PROVE  h \in Predecessors(q)
      <4>1. h \in proven' /\ h.branch = job[q].branch /\ h.commit # job[q].commit /\ h.file # None
        BY <1>2, <3>2 DEF Predecessors
      <4>2. CASE h \in proven BY <4>1, <4>2 DEF Predecessors
      <4>3. CASE h \notin proven
        <5>1. h.ts = job[r].ts
          <6>1. proven' = proven \/ GatePasses(r)
            BY <1>2 DEF Step, Killed, ListBranches, CloneBranch, UploadCode, VerifyBranchCode,
              SetActiveWorldBranch, VerifyActiveBranch, VerifyActiveCode, RecordEvidence,
              GatePasses, GateFails, FindPreviousHealthy, RebuildRollback, PollRecovery,
              ReportRollback, CallFails, GoTo, files, remote
          <6> QED BY <4>1, <4>3, <6>1 DEF GatePasses
        <5>2. job[r].ts = Cardinality(Started) /\ job[r].ts \in Nat
          BY <1>2 DEF ProvenInv, Jobs
        <5>3. q \in Started => job[q].ts \in Nat /\ job[q].ts <= Cardinality(Started)
          BY DEF ProvenInv, Started, FileInv, TInv, TypeOK, Jobs
        <5>4. q \in Started
          BY <3>2 DEF PicksInv
        <5> QED BY <3>2, <5>1, <5>2, <5>3, <5>4
      <4> QED BY <4>2, <4>3
    <3> QED BY <3>1, <3>2
  <2>3. ASSUME NEW q \in Runs, pc'[q] = "noEvidence"
        PROVE  Predecessors(q)' \cap {h \in proven' : h.ts < job'[q].ts} = {}
    <3>1. q # r /\ pc[q] = "noEvidence" /\ job'[q] = job[q] BY <1>2, <1>3, <2>1, <2>3
    <3>2. ASSUME NEW h \in Predecessors(q)', h.ts < job[q].ts PROVE FALSE
      <4>1. h \in Predecessors(q) BY <2>2, <3>1, <3>2
      <4>2. h \in proven BY <4>1 DEF Predecessors
      <4> QED BY <3>1, <3>2, <4>1, <4>2 DEF PicksNewestProven
    <3> QED BY <3>1, <3>2
  <2>4. \A q \in Runs : pc'[q] # "rebuild" BY <1>3, <2>1, <2>2
  <2> QED BY <2>3, <2>4 DEF PicksNewestProven
<1> QED BY <1>4, <1>5

LEMMA BeginPicks ==
  ASSUME Separate, FileInv, ProvenInv, PicksInv, NEW r \in Runs, Begin(r)
  PROVE  PicksInv'
<1>1. /\ proven' = proven /\ prev' = prev /\ pc[r] = "idle"
      /\ pc'[r] \in {"list", "exit0"}
      /\ \A q \in Runs \ {r} : pc'[q] = pc[q] /\ job'[q] = job[q]
  BY DEF Begin, Start, DryRun, GoTo, files, FileInv, TInv, TypeOK
<1>2. \A q \in Runs : pc'[q] \in {"noEvidence", "rebuild"} => q # r
  BY <1>1
<1>3. \A q \in Runs \ {r} : Predecessors(q)' = Predecessors(q)
  BY <1>1 DEF Predecessors
<1>4. \A q \in Runs \ {r} : q \in Started => q \in Started'
  BY <1>1 DEF Started
<1> QED BY <1>1, <1>2, <1>3, <1>4 DEF PicksInv, PicksNewestProven

LEMMA FilesAndPicks ==
  ASSUME Separate
  PROVE  Spec => [](FileInv /\ ProvenInv /\ CodeInv /\ PicksInv)
<1> DEFINE All == FileInv /\ ProvenInv /\ CodeInv /\ PicksInv
<1>1. Init => All
  BY InitTypes, InitInv DEF Init, FileInv, ProvenInv, CodeInv, PicksInv, PicksNewestProven,
     InFlight, Started, Ended
<1>2. ASSUME All, [Next]_vars PROVE All'
  <2>1. FileInv' BY <1>2, FilesStep
  <2>2. ASSUME NEW r \in Runs, Begin(r) PROVE ProvenInv' /\ CodeInv' /\ PicksInv'
    BY <1>2, <2>2, BeginProven, BeginPicks
  <2>3. ASSUME NEW r \in Runs, Step(r) \/ Killed(r)
        PROVE  ProvenInv' /\ CodeInv' /\ PicksInv'
    <3>1. \A q, s \in InFlight : q = s BY <1>2 DEF FileInv, OwnershipInv
    <3> QED BY <1>2, <2>3, <3>1, StepProven, StepCode, StepPicks DEF FileInv
  <2>4. CASE UNCHANGED vars
    <3> USE <1>2, <2>4 DEF vars, InFlight, Started
    <3>1. ProvenInv' BY DEF ProvenInv
    <3>2. CodeInv' BY DEF CodeInv
    <3>3. PicksInv' BY DEF PicksInv, PicksNewestProven, Predecessors
    <3> QED BY <2>1, <3>1, <3>2, <3>3
  <2> QED BY <1>2, <2>1, <2>2, <2>3, <2>4 DEF Next, AllOver
<1> QED BY <1>1, <1>2, PTL DEF Spec

\* With a file for every run, one at a time, the rollback picks the newest
\* deploy that was proven on the same target, and finds none only when there
\* was none, whatever was built or activated.  Where runs write over each
\* other's evidence, as with the runbook's path, a proven deploy is forgotten.
THEOREM NewestIsPicked ==
  ASSUME Separate
  PROVE  Spec => []PicksNewestProven
<1>1. PicksInv => PicksNewestProven BY DEF PicksInv
<1> QED BY FilesAndPicks, <1>1, PTL

-----------------------------------------------------------------------------
(* One run at a time is enough for what a run verified to stay true *)

\* The last run that started.
Last(r) == \A s \in Started : job[s].ts <= job[r].ts

\* Where a run has compared the account with the bundle in hand.
Verified == {"record", "gate", "find", "recover", "report", "exit0"}

\* A run that exits with code 0 leaves the bundle it has in hand, its own or
\* the one it rolled back to, in its branch and, with --activate-world, live,
\* until the next run starts.
SuccessStands ==
  \A r \in Started :
    pc[r] = "exit0" /\ Last(r) =>
      /\ code[job[r].branch] = art[r]
      /\ job[r].activate => Live = art[r]

\* One run in flight, which is the last that started.
AloneInv ==
  /\ \A r, s \in InFlight : r = s
  /\ \A r \in Runs : pc[r] = "idle" => job[r] = None
  /\ \A s \in Started : job[s].ts <= Cardinality(Started)
  /\ \A r \in InFlight : job[r].ts = Cardinality(Started)
  /\ \A r, s \in Started : job[r].ts = job[s].ts => r = s

VerifiedInv ==
  \A r \in Started :
    pc[r] \in Verified /\ Last(r) =>
      /\ code[job[r].branch] = art[r]
      /\ job[r].activate => Live = art[r]

LEMMA StartedIsNat == TypeOK => Cardinality(Started) \in Nat
<1> SUFFICES ASSUME TypeOK PROVE Cardinality(Started) \in Nat
  OBVIOUS
<1>1. IsFiniteSet(Started) BY DeployAssumption, FS_Subset DEF Started
<1> QED BY <1>1, FS_CardinalityType

LEMMA StepAlone ==
  ASSUME TInv, AloneInv, NEW r \in Runs, Step(r) \/ Killed(r)
  PROVE  AloneInv'
<1>1. PICK p : pc' = [pc EXCEPT ![r] = p] BY StepFrame DEF TInv
<1>2. job' = job /\ Started' = Started /\ r \in InFlight /\ pc \in [Runs -> Phases]
  BY StepFrame DEF TInv, TypeOK
<1>3. InFlight' \subseteq InFlight BY <1>1, <1>2 DEF InFlight
<1>4. r \in Started BY <1>2, DeployAssumption DEF TInv, PhaseInv, Started, InFlight
<1>5. \A q \in Runs : pc'[q] = "idle" => job[q] = None
  <2>1. pc'[r] # "idle"
    BY <1>2, <1>1 DEF Step, Killed, ListBranches, CloneBranch, UploadCode, VerifyBranchCode,
      SetActiveWorldBranch, VerifyActiveBranch, VerifyActiveCode, RecordEvidence,
      GatePasses, GateFails, FindPreviousHealthy, RebuildRollback, PollRecovery,
      ReportRollback, CallFails, GoTo, Failure, InFlight
  <2> QED BY <1>1, <1>2, <2>1 DEF AloneInv
<1> QED BY <1>2, <1>3, <1>5 DEF AloneInv

LEMMA StepVerified ==
  ASSUME TInv, AloneInv, CodeInv, VerifiedInv, NEW r \in Runs, Step(r) \/ Killed(r)
  PROVE  VerifiedInv'
<1>1. PICK p : pc' = [pc EXCEPT ![r] = p] BY StepFrame DEF TInv
<1>2. /\ job' = job /\ Started' = Started /\ r \in InFlight /\ pc \in [Runs -> Phases]
      /\ code \in [Branches -> Commits \cup {None}] /\ job[r].branch \in Branches
      /\ r \in Started
  BY StepFrame, DeployAssumption DEF TInv, TypeOK, PhaseInv, Jobs, InFlight, Started
<1>3. \A q \in Started : Last(q) => q = r
  <2> SUFFICES ASSUME NEW q \in Started, Last(q) PROVE q = r
    OBVIOUS
  <2>1. Cardinality(Started) \in Nat /\ job[q].ts \in Nat
    BY StartedIsNat DEF TInv, TypeOK, Started, Jobs
  <2>2. /\ job[r].ts = Cardinality(Started) /\ job[q].ts <= Cardinality(Started)
        /\ job[r].ts <= job[q].ts
    BY <1>2 DEF AloneInv, Last
  <2>3. job[q].ts = job[r].ts BY <2>1, <2>2
  <2> QED BY <1>2, <2>3 DEF AloneInv
<1>4. Last(r)
  BY <1>2 DEF AloneInv, Last
<1>5. SUFFICES ASSUME pc'[r] \in Verified
               PROVE  /\ code'[job[r].branch] = art'[r]
                      /\ job[r].activate => Live' = art'[r]
  <2> SUFFICES ASSUME NEW q \in Started, pc'[q] \in Verified, Last(q)
               PROVE  /\ code'[job[q].branch] = art'[q]
                      /\ job[q].activate => Live' = art'[q]
    BY <1>2 DEF VerifiedInv, Last
  <2> QED BY <1>3, <1>5
<1>6. /\ UNCHANGED <<code, active, art>>
      /\ \/ pc[r] \in Verified
         \/ pc[r] = "verify" /\ code[job[r].branch] = art[r] /\ ~job[r].activate
         \/ pc[r] = "verifyCode" /\ Live = art[r]
  BY <1>1, <1>2, <1>5 DEF Verified, Step, Killed, ListBranches, CloneBranch, UploadCode,
    VerifyBranchCode, SetActiveWorldBranch, VerifyActiveBranch, VerifyActiveCode,
    RecordEvidence, GatePasses, GateFails, FindPreviousHealthy, RebuildRollback,
    PollRecovery, ReportRollback, CallFails, GoTo, Failure, files, remote, Ended, InFlight
<1> QED BY <1>2, <1>4, <1>6 DEF VerifiedInv, CodeInv, Live

LEMMA BeginVerified ==
  ASSUME OneAtATime, TInv, AloneInv, CodeInv, VerifiedInv, NEW r \in Runs, Begin(r)
  PROVE  (AloneInv /\ CodeInv /\ VerifiedInv)'
<1> USE DEF remote, files, GoTo
<1>0. pc \in [Runs -> Phases] /\ job \in [Runs -> Jobs \cup {None}]
  BY DEF TInv, TypeOK
<1>1. ASSUME NEW f \in Files, DryRun(r, f)
      PROVE  (AloneInv /\ CodeInv /\ VerifiedInv)'
  <2>1. /\ UNCHANGED <<code, active, job, art>> /\ Started' = Started
        /\ InFlight' = {} /\ InFlight = {} /\ r \notin Started
        /\ \A q \in Runs \ {r} : pc'[q] = pc[q]
        /\ pc'[r] = "exit0"
    BY <1>0, <1>1 DEF DryRun, Started, InFlight, AloneInv, Ended
  <2>2. AloneInv' BY <2>1 DEF AloneInv
  <2>3. CodeInv' BY <2>1 DEF CodeInv
  <2>4. VerifiedInv'
    BY <2>1 DEF VerifiedInv, Last, Live, Started
  <2> QED BY <2>2, <2>3, <2>4
<1>2. ASSUME NEW c \in Commits, NEW dist \in Commits, NEW f \in Files \cup {None},
             NEW b \in Branches, NEW activate \in ActivateChoices,
             NEW auto \in RollbackChoices,
             Start(r, c, dist, f, b, activate, auto)
      PROVE  (AloneInv /\ CodeInv /\ VerifiedInv)'
  <2> DEFINE j == [commit |-> c, file |-> f, branch |-> b,
                   activate |-> activate, auto |-> auto, ts |-> Now]
  <2>1. j.ts = Cardinality(Started) + 1 /\ job' = [job EXCEPT ![r] = j] /\ j # None
    <3>1. j \in Jobs
      BY NowIsNat, DeployAssumption DEF Jobs, TInv
    <3> QED BY <1>2, <3>1, DeployAssumption DEF Start, Now
  <2> HIDE DEF j
  <2>2. /\ pc[r] = "idle" /\ InFlight = {} /\ pc' = [pc EXCEPT ![r] = "list"]
        /\ UNCHANGED <<code, active>> /\ r \notin Started
    BY <1>2 DEF Start, AloneInv, Started
  <2>3. Started' = Started \cup {r} /\ InFlight' = {r}
    BY <1>0, <2>1, <2>2 DEF Started, InFlight, Ended
  <2>4. /\ Cardinality(Started') = Cardinality(Started) + 1 /\ Cardinality(Started) \in Nat
    BY <2>2, <2>3, StartedCount DEF TInv
  <2>5. /\ \A s \in Started : job'[s] = job[s] /\ job[s].ts \in Nat
                              /\ job[s].ts <= Cardinality(Started)
        /\ job'[r].ts = Cardinality(Started) + 1
    BY <1>0, <2>1, <2>2 DEF AloneInv, Started, Jobs
  <2>6. AloneInv'
    <3>1. \A q \in Runs : pc'[q] = "idle" => job'[q] = None
      BY <1>0, <2>1, <2>2 DEF AloneInv
    <3>2. \A s \in Started' : job'[s].ts <= Cardinality(Started')
      BY <2>3, <2>4, <2>5
    <3>3. \A q, s \in Started' : job'[q].ts = job'[s].ts => q = s
      BY <2>3, <2>4, <2>5 DEF AloneInv
    <3> QED BY <2>3, <2>4, <2>5, <3>1, <3>2, <3>3 DEF AloneInv
  <2>7. CodeInv'
    BY <1>0, <2>2, <2>3 DEF CodeInv
  <2>8. VerifiedInv'
    <3>1. \A q \in Started' : Last(q)' => q = r
      BY <2>3, <2>4, <2>5 DEF Last
    <3>2. pc'[r] \notin Verified
      BY <1>0, <2>2 DEF Verified
    <3> QED BY <3>1, <3>2 DEF VerifiedInv
  <2> QED BY <2>6, <2>7, <2>8
<1> QED BY <1>1, <1>2 DEF Begin

LEMMA VerifiedHolds ==
  ASSUME OneAtATime
  PROVE  Spec => [](TInv /\ AloneInv /\ CodeInv /\ VerifiedInv)
<1> DEFINE All == TInv /\ AloneInv /\ CodeInv /\ VerifiedInv
<1>1. Init => All
  BY InitTypes DEF Init, AloneInv, CodeInv, VerifiedInv, InFlight, Started, Ended
<1>2. ASSUME All, [Next]_vars PROVE All'
  <2>1. TInv' BY <1>2, StartTypes, StepTypes, StutterTypes DEF Next, AllOver
  <2>2. ASSUME NEW r \in Runs, Begin(r) PROVE All'
    BY <1>2, <2>1, <2>2, BeginVerified
  <2>3. ASSUME NEW r \in Runs, Step(r) \/ Killed(r) PROVE All'
    <3>1. \A q, s \in InFlight : q = s BY <1>2 DEF AloneInv
    <3> QED BY <1>2, <2>1, <2>3, <3>1, StepAlone, StepCode, StepVerified
  <2>4. CASE UNCHANGED vars
    <3> USE <1>2, <2>4 DEF vars, InFlight, Started
    <3>1. AloneInv' BY DEF AloneInv
    <3>2. CodeInv' BY DEF CodeInv
    <3>3. VerifiedInv' BY DEF VerifiedInv, Last, Live
    <3> QED BY <2>1, <3>1, <3>2, <3>3
  <2> QED BY <1>2, <2>2, <2>3, <2>4 DEF Next, AllOver
<1> QED BY <1>1, <1>2, PTL DEF Spec

\* When evidence is written the account is as the evidence says, whatever
\* calls fail or are lost, whatever bundle was built and whichever file the
\* evidence goes to: it takes one run at a time, and nothing else.
THEOREM EvidenceIsTrue ==
  ASSUME OneAtATime
  PROVE  Spec => []EvidenceDescribesAccount
<1>1. ASSUME TInv, AloneInv, CodeInv, VerifiedInv PROVE EvidenceDescribesAccount
  <2> SUFFICES ASSUME NEW r \in Runs, pc[r] \in {"record", "gate"}
               PROVE  /\ code[job[r].branch] = art[r]
                      /\ job[r].activate => Live = art[r]
    BY DEF EvidenceDescribesAccount
  <2>1. r \in InFlight BY DEF InFlight, Ended
  <2>2. r \in Started
    BY <1>1, <2>1, DeployAssumption DEF TInv, PhaseInv, Started
  <2>3. Last(r) BY <1>1, <2>1 DEF AloneInv, Last
  <2> QED BY <1>1, <2>2, <2>3 DEF VerifiedInv, Verified
<1> QED BY VerifiedHolds, <1>1, PTL

\* Exit code 0 of a deploy or of a rollback can be relied on until the next
\* run, if runs are one at a time.
THEOREM SuccessIsLasting ==
  ASSUME OneAtATime
  PROVE  Spec => []SuccessStands
<1>1. VerifiedInv => SuccessStands BY DEF VerifiedInv, SuccessStands, Verified
<1> QED BY VerifiedHolds, <1>1, PTL

-----------------------------------------------------------------------------
(* The refinement of SafeRollout *)

\* A branch is cloned from the active one.
CloneInv == \A r \in InFlight : pc[r] = "clone" => source[r] = active

\* The gate judges the live bundle, and a rollback is to another one, proven.
JudgedInv ==
  \A r \in InFlight :
    /\ pc[r] = "gate" => Live = art[r]
    /\ pc[r] = "rebuild" => prev[r].commit # art[r] /\ ProvenDeploy(prev[r])

ChangeInv ==
  /\ TInv /\ CodeInv /\ CloneInv /\ JudgedInv
  /\ \A r, s \in InFlight : r = s

LEMMA StepClone ==
  ASSUME TInv, CloneInv, \A q, s \in InFlight : q = s, NEW r \in Runs, Step(r) \/ Killed(r)
  PROVE  CloneInv'
<1>1. PICK p : pc' = [pc EXCEPT ![r] = p] BY StepFrame DEF TInv
<1>2. /\ r \in InFlight /\ InFlight = {r} /\ pc \in [Runs -> Phases]
      /\ source \in [Runs -> Branches \cup {None}]
  BY StepFrame DEF TInv, TypeOK
<1>3. InFlight' \subseteq {r} BY <1>1, <1>2 DEF InFlight
<1>4. ASSUME pc'[r] = "clone" PROVE source'[r] = active'
  BY <1>2, <1>4 DEF Step, Killed, ListBranches, CloneBranch, UploadCode, VerifyBranchCode,
    SetActiveWorldBranch, VerifyActiveBranch, VerifyActiveCode, RecordEvidence,
    GatePasses, GateFails, FindPreviousHealthy, RebuildRollback, PollRecovery,
    ReportRollback, CallFails, GoTo, Failure, files, remote, Ended
<1> QED BY <1>3, <1>4 DEF CloneInv

LEMMA BeginClone ==
  ASSUME TInv, CloneInv, NEW r \in Runs, Begin(r)
  PROVE  CloneInv'
<1>1. /\ pc'[r] \in {"list", "exit0"} /\ UNCHANGED <<active, source>>
      /\ \A q \in Runs \ {r} : pc'[q] = pc[q]
  BY DEF Begin, Start, DryRun, GoTo, files, remote, TInv, TypeOK
<1> QED BY <1>1 DEF CloneInv, InFlight

\* What a rollback has chosen is another commit than its own.
ChoiceInv ==
  \A r \in InFlight : pc[r] = "rebuild" => prev[r].commit # job[r].commit

LEMMA StepChoice ==
  ASSUME FileInv, ChoiceInv, NEW r \in Runs, Step(r) \/ Killed(r)
  PROVE  ChoiceInv'
<1>1. PICK p : pc' = [pc EXCEPT ![r] = p] BY StepFrame DEF FileInv, TInv
<1>2. /\ job' = job /\ r \in InFlight /\ InFlight = {r} /\ pc \in [Runs -> Phases]
      /\ prev \in [Runs -> Deploys \cup {None}]
  BY StepFrame DEF FileInv, OwnershipInv, TInv, TypeOK
<1>3. InFlight' \subseteq {r} BY <1>1, <1>2 DEF InFlight
<1>4. ASSUME pc'[r] = "rebuild" PROVE prev'[r].commit # job[r].commit
  <2>1. FindPreviousHealthy(r)
    BY <1>2, <1>4 DEF Step, Killed, ListBranches, CloneBranch, UploadCode, VerifyBranchCode,
      SetActiveWorldBranch, VerifyActiveBranch, VerifyActiveCode, RecordEvidence,
      GatePasses, GateFails, RebuildRollback, PollRecovery,
      ReportRollback, CallFails, GoTo, Failure, Ended, InFlight
  <2>2. PICK f \in HealthyEvidence(r) : prev' = [prev EXCEPT ![r] = evidence[f]]
    BY <1>2, <1>4, <2>1 DEF FindPreviousHealthy, GoTo, Newest
  <2> QED BY <1>2, <2>2 DEF HealthyEvidence
<1> QED BY <1>2, <1>3, <1>4 DEF ChoiceInv

LEMMA BeginChoice ==
  ASSUME FileInv, ChoiceInv, NEW r \in Runs, Begin(r)
  PROVE  ChoiceInv'
<1>1. /\ pc'[r] \in {"list", "exit0"} /\ UNCHANGED prev
      /\ \A q \in Runs \ {r} : pc'[q] = pc[q] /\ job'[q] = job[q]
  BY DEF Begin, Start, DryRun, GoTo, FileInv, TInv, TypeOK
<1> QED BY <1>1 DEF ChoiceInv, InFlight

\* Where operators are Disciplined, what is judged is live and what is chosen
\* is another, proven bundle: the art in hand is still the one of the job.
UnrevisedInv == \A r \in InFlight : pc[r] = "rebuild" => art[r] = job[r].commit

LEMMA StepUnrevised ==
  ASSUME FileInv, RollbackInv, UnrevisedInv, NEW r \in Runs, Step(r) \/ Killed(r)
  PROVE  UnrevisedInv'
<1>1. PICK p : pc' = [pc EXCEPT ![r] = p] BY StepFrame DEF FileInv, TInv
<1>2. /\ job' = job /\ r \in InFlight /\ InFlight = {r} /\ pc \in [Runs -> Phases]
  BY StepFrame DEF FileInv, OwnershipInv, TInv, TypeOK
<1>3. InFlight' \subseteq {r} BY <1>1, <1>2 DEF InFlight
<1>4. ASSUME pc'[r] = "rebuild" PROVE art'[r] = job[r].commit
  <2>1. FindPreviousHealthy(r)
    BY <1>2, <1>4 DEF Step, Killed, ListBranches, CloneBranch, UploadCode, VerifyBranchCode,
      SetActiveWorldBranch, VerifyActiveBranch, VerifyActiveCode, RecordEvidence,
      GatePasses, GateFails, RebuildRollback, PollRecovery,
      ReportRollback, CallFails, GoTo, Failure, Ended, InFlight
  <2>2. art' = art /\ pc[r] = "find" BY <2>1 DEF FindPreviousHealthy
  <2>3. prev[r] = None BY <1>2, <2>2 DEF FileInv, EvidenceInv
  <2> QED BY <1>2, <2>2, <2>3 DEF RollbackInv
<1> QED BY <1>2, <1>3, <1>4 DEF UnrevisedInv

LEMMA BeginUnrevised ==
  ASSUME FileInv, UnrevisedInv, NEW r \in Runs, Begin(r)
  PROVE  UnrevisedInv'
<1>1. /\ pc'[r] \in {"list", "exit0"}
      /\ \A q \in Runs \ {r} : pc'[q] = pc[q] /\ job'[q] = job[q] /\ art'[q] = art[q]
  BY DEF Begin, Start, DryRun, GoTo, FileInv, TInv, TypeOK
<1> QED BY <1>1 DEF UnrevisedInv, InFlight

LEMMA DisciplinedChange ==
  ASSUME Disciplined
  PROVE  Spec => []ChangeInv
<1> DEFINE All == Inv /\ CodeInv /\ CloneInv /\ ChoiceInv /\ UnrevisedInv
<1>1. Init => All
  BY InitTypes, InitInv DEF Init, Inv, FileInv, CodeInv, CloneInv, ChoiceInv, UnrevisedInv,
     InFlight, Ended
<1>2. ASSUME All, [Next]_vars PROVE All'
  <2>1. Inv' BY <1>2, InvStep
  <2>2. ASSUME NEW r \in Runs, Begin(r)
        PROVE  CodeInv' /\ CloneInv' /\ ChoiceInv' /\ UnrevisedInv'
    BY <1>2, <2>2, BeginCode, BeginClone, BeginChoice, BeginUnrevised
       DEF Inv, FileInv, Disciplined, Separate
  <2>3. ASSUME NEW r \in Runs, Step(r) \/ Killed(r)
        PROVE  CodeInv' /\ CloneInv' /\ ChoiceInv' /\ UnrevisedInv'
    <3>1. \A q, s \in InFlight : q = s BY <1>2 DEF Inv, FileInv, OwnershipInv
    <3> QED BY <1>2, <2>3, <3>1, StepCode, StepClone, StepChoice, StepUnrevised DEF Inv, FileInv
  <2>4. CASE UNCHANGED vars
    <3>1. InFlight' = InFlight /\ UNCHANGED <<code, active, job, pc, art, source, prev>>
      BY <2>4 DEF vars, InFlight
    <3>2. CodeInv' BY <1>2, <3>1 DEF CodeInv
    <3>3. CloneInv' BY <1>2, <3>1 DEF CloneInv
    <3>4. ChoiceInv' BY <1>2, <3>1 DEF ChoiceInv
    <3>5. UnrevisedInv' BY <1>2, <3>1 DEF UnrevisedInv
    <3> QED BY <2>1, <3>2, <3>3, <3>4, <3>5
  <2> QED BY <1>2, <2>1, <2>2, <2>3, <2>4 DEF Next, AllOver
<1>3. ASSUME All PROVE ChangeInv
  <2>1. TInv /\ CodeInv /\ CloneInv /\ \A r, s \in InFlight : r = s
    BY <1>3 DEF Inv, FileInv, OwnershipInv
  <2>2. ASSUME NEW r \in InFlight
        PROVE  /\ pc[r] = "gate" => Live = art[r]
               /\ pc[r] = "rebuild" => prev[r].commit # art[r] /\ ProvenDeploy(prev[r])
    <3>1. pc[r] = "gate" => Live = art[r]
      BY <1>3, FlightFacts DEF Inv, RollbackInv
    <3>2. ASSUME pc[r] = "rebuild"
          PROVE  prev[r].commit # art[r] /\ ProvenDeploy(prev[r])
      <4>1. r \in Runs /\ prev[r] # None
        BY <1>3, <3>2 DEF Inv, FileInv, TInv, PhaseInv, InFlight
      <4> QED BY <1>3, <3>2, <4>1 DEF Inv, RollbackInv, ChoiceInv, UnrevisedInv
    <3> QED BY <3>1, <3>2
  <2> QED BY <2>1, <2>2 DEF ChangeInv, JudgedInv
<1> QED BY <1>1, <1>2, <1>3, PTL DEF Spec

\* Without --auto-rollback nothing is judged or rolled back, and neither the
\* file nor the activation matters.
NoRollback == RollbackChoices = {FALSE}

PlainInv ==
  \A r \in Runs : /\ pc[r] \notin {"gate", "find", "rebuild"}
                  /\ r \in InFlight => job[r].auto = FALSE /\ prev[r] = None

LEMMA PlainStep ==
  ASSUME NoRollback, TInv, PlainInv, NEW r \in Runs, Begin(r) \/ Step(r) \/ Killed(r),
         \A q \in Runs : pc[q] = "idle" => prev[q] = None
  PROVE  PlainInv' /\ \A q \in Runs : pc'[q] = "idle" => prev'[q] = None
<1>1. CASE Step(r) \/ Killed(r)
  <2>1. PICK p : pc' = [pc EXCEPT ![r] = p] BY <1>1, StepFrame DEF TInv
  <2>2. job' = job /\ r \in InFlight /\ pc \in [Runs -> Phases]
    BY <1>1, StepFrame DEF TInv, TypeOK
  <2>3. job[r].auto = FALSE /\ prev[r] = None /\ pc[r] \notin {"gate", "find", "rebuild"}
    BY <2>2 DEF PlainInv
  <2>4. prev' = prev /\ pc'[r] \notin {"gate", "find", "rebuild", "idle"}
    BY <1>1, <2>2, <2>3 DEF Step, Killed, ListBranches, CloneBranch, UploadCode,
      VerifyBranchCode, SetActiveWorldBranch, VerifyActiveBranch, VerifyActiveCode,
      RecordEvidence, GatePasses, GateFails, FindPreviousHealthy, RebuildRollback,
      PollRecovery, ReportRollback, CallFails, GoTo, Failure, files, InFlight
  <2> QED BY <2>1, <2>2, <2>3, <2>4 DEF PlainInv, InFlight
<1>2. CASE Begin(r)
  <2>1. /\ pc[r] = "idle" /\ prev' = prev /\ pc'[r] \in {"list", "exit0"}
        /\ \A q \in Runs \ {r} : pc'[q] = pc[q] /\ job'[q] = job[q]
        /\ pc'[r] = "list" => job'[r].auto = FALSE
    BY <1>2 DEF Begin, Start, DryRun, GoTo, NoRollback, TInv, TypeOK
  <2> QED BY <2>1 DEF PlainInv, InFlight, Ended
<1> QED BY <1>1, <1>2

LEMMA PlainChange ==
  ASSUME OneAtATime, NoRollback
  PROVE  Spec => []ChangeInv
<1> DEFINE Idle == \A q \in Runs : pc[q] = "idle" => prev[q] = None
           All == TInv /\ AloneInv /\ CodeInv /\ VerifiedInv /\ CloneInv /\ PlainInv /\ Idle
<1>1. Init => CloneInv /\ PlainInv /\ Idle
  BY DEF Init, CloneInv, PlainInv, InFlight, Ended
<1>2. ASSUME TInv, AloneInv, CloneInv, PlainInv, Idle, [Next]_vars
      PROVE  CloneInv' /\ PlainInv' /\ Idle'
  <2>1. ASSUME NEW r \in Runs, Begin(r) PROVE CloneInv' /\ PlainInv' /\ Idle'
    BY <1>2, <2>1, BeginClone, PlainStep
  <2>2. ASSUME NEW r \in Runs, Step(r) \/ Killed(r) PROVE CloneInv' /\ PlainInv' /\ Idle'
    <3>1. \A q, s \in InFlight : q = s BY <1>2 DEF AloneInv
    <3> QED BY <1>2, <2>2, <3>1, StepClone, PlainStep
  <2>3. CASE UNCHANGED vars
    BY <1>2, <2>3 DEF vars, InFlight, CloneInv, PlainInv
  <2> QED BY <1>2, <2>1, <2>2, <2>3 DEF Next, AllOver
<1>3. TInv /\ AloneInv /\ CodeInv /\ CloneInv /\ PlainInv => ChangeInv
  BY DEF AloneInv, PlainInv, ChangeInv, JudgedInv, InFlight
<1> HIDE DEF Idle
<1> QED BY VerifiedHolds, <1>1, <1>2, <1>3, PTL DEF Spec

\* The bundle that the run in flight wants live, and the proven ones.
Wanted == IF InFlight = {} THEN None ELSE art[CHOOSE r \in InFlight : TRUE]

Healthy == {h.art : h \in proven}

LEMMA WantedIs ==
  ChangeInv => /\ \A r \in InFlight : Wanted = art[r]
               /\ InFlight = {} => Wanted = None
<1> SUFFICES ASSUME ChangeInv, NEW r \in InFlight PROVE Wanted = art[r]
  BY DEF Wanted
<1>1. (CHOOSE q \in InFlight : TRUE) \in InFlight OBVIOUS
<1> QED BY <1>1 DEF Wanted, ChangeInv

LEMMA WantedIsNext ==
  ChangeInv' => (/\ \A r \in InFlight : Wanted = art[r]
                 /\ InFlight = {} => Wanted = None)'
BY WantedIs, PTL

\* What a step of the run in flight does to the live bundle.
LEMMA StepLive ==
  ASSUME ChangeInv, NEW r \in InFlight, Step(r) \/ Killed(r)
  PROVE  \/ Live' = Live /\ art' = art /\ proven' = proven
         \/ Live' = art[r] /\ art' = art /\ proven' = proven
         \/ /\ Live' = Live /\ art' = art /\ Live = art[r] /\ r \notin InFlight'
            /\ \E h : h.art = art[r] /\ proven' = proven \cup {h}
         \/ /\ Live' = Live /\ proven' = proven /\ prev[r].commit \in Healthy \ {art[r]}
            /\ art' = [art EXCEPT ![r] = prev[r].commit] /\ prev[r].commit \in Commits
            /\ r \in InFlight'
<1> USE DEF Live
<1>1. /\ job[r].branch \in Branches /\ code \in [Branches -> Commits \cup {None}]
      /\ active \in Branches /\ pc \in [Runs -> Phases] /\ r \in Runs
  BY DEF ChangeInv, TInv, TypeOK, PhaseInv, Jobs, InFlight
<1>2. ASSUME NEW applied \in BOOLEAN, CloneBranch(r, applied)
      PROVE  Live' = Live /\ art' = art /\ proven' = proven
  BY <1>1, <1>2 DEF CloneBranch, ChangeInv, CloneInv
<1>3. ASSUME NEW applied \in BOOLEAN, UploadCode(r, applied)
      PROVE  (Live' = Live \/ Live' = art[r]) /\ art' = art /\ proven' = proven
  BY <1>1, <1>3 DEF UploadCode
<1>4. ASSUME NEW applied \in BOOLEAN, SetActiveWorldBranch(r, applied)
      PROVE  (Live' = Live \/ Live' = art[r]) /\ art' = art /\ proven' = proven
  BY <1>1, <1>4 DEF SetActiveWorldBranch, ChangeInv, CodeInv
<1>5. CASE GatePasses(r)
  <2>1. pc[r] = "gate" /\ Live = art[r] BY <1>5 DEF GatePasses, ChangeInv, JudgedInv
  <2>2. r \notin InFlight' BY <1>1, <1>5 DEF GatePasses, GoTo, InFlight, Ended
  <2>3. \E h : h.art = art[r] /\ proven' = proven \cup {h}
    BY <2>1, <1>5 DEF GatePasses
  <2> QED BY <1>5, <2>1, <2>2, <2>3 DEF GatePasses, remote
<1>6. CASE RebuildRollback(r)
  <2>a. pc[r] = "rebuild" BY <1>6 DEF RebuildRollback
  <2>b. prev[r] \in Deploys /\ prev[r] # None BY <1>1, <2>a DEF ChangeInv, TInv, PhaseInv
  <2>1. /\ pc[r] = "rebuild" /\ prev[r] # None /\ prev[r].commit \in Commits
        /\ prev[r].commit # art[r]
    BY <2>a, <2>b DEF ChangeInv, JudgedInv, Deploys
  <2>2. prev[r].commit \in Healthy
    BY <1>1, <2>1 DEF ChangeInv, JudgedInv, ProvenDeploy, Healthy
  <2>3. r \in InFlight' BY <1>1, <1>6 DEF RebuildRollback, GoTo, InFlight, Ended
  <2> QED BY <1>6, <2>1, <2>2, <2>3 DEF RebuildRollback, remote
<1>7. CASE ~(\/ \E applied \in BOOLEAN : \/ CloneBranch(r, applied) \/ UploadCode(r, applied)
                                        \/ SetActiveWorldBranch(r, applied)
             \/ GatePasses(r) \/ RebuildRollback(r))
  BY <1>7 DEF Step, Killed, ListBranches, VerifyBranchCode,
    VerifyActiveBranch, VerifyActiveCode, RecordEvidence,
    GateFails, FindPreviousHealthy, PollRecovery, ReportRollback, CallFails, remote
<1> QED BY <1>2, <1>3, <1>4, <1>5, <1>6, <1>7

LEMMA StepRefines ==
  ASSUME ChangeInv, ChangeInv', NEW r \in Runs, Step(r) \/ Killed(r)
  PROVE  [Rollout!Next]_<<Live, Wanted, Healthy>>
<1>1. PICK p : pc' = [pc EXCEPT ![r] = p] BY StepFrame DEF ChangeInv, TInv
<1>2. r \in InFlight /\ InFlight = {r} /\ InFlight' \in {{}, {r}}
  <2>1. r \in InFlight /\ InFlight = {r} BY StepFrame DEF ChangeInv, TInv
  <2> QED BY <1>1, <2>1 DEF InFlight, ChangeInv, TInv, TypeOK
<1>3. Wanted = art[r] /\ art[r] \in Commits /\ Wanted # None
  BY <1>2, WantedIs, DeployAssumption DEF ChangeInv, TInv, PhaseInv
<1>4. IF InFlight' = {} THEN Wanted' = None ELSE Wanted' = art'[r]
  BY <1>2, WantedIsNext
<1>5. CASE Live' = Live /\ art' = art /\ proven' = proven
  <2>1. Healthy' = Healthy BY <1>5 DEF Healthy
  <2>2. CASE InFlight' = {}
    <3>1. Rollout!Finish BY <1>3, <1>4, <1>5, <2>1, <2>2 DEF Rollout!Finish, Wanted, Healthy
    <3> QED BY <3>1 DEF Rollout!Next
  <2>3. CASE InFlight' # {} BY <1>3, <1>4, <1>5, <2>1, <2>3
  <2> QED BY <2>2, <2>3
<1>6. CASE Live' = art[r] /\ art' = art /\ proven' = proven
  <2>1. Healthy' = Healthy BY <1>6 DEF Healthy
  <2>2. Rollout!GoLive
    BY <1>3, <1>4, <1>6, <2>1 DEF Rollout!GoLive, Wanted, Healthy
  <2> QED BY <2>2 DEF Rollout!Next
<1>7. CASE /\ Live' = Live /\ art' = art /\ Live = art[r] /\ r \notin InFlight'
           /\ \E h : h.art = art[r] /\ proven' = proven \cup {h}
  <2>1. Healthy' = Healthy \cup {Live} BY <1>7 DEF Healthy
  <2>2. Wanted' = None BY <1>2, <1>4, <1>7
  <2>3. Rollout!Prove
    BY <1>3, <1>7, <2>1, <2>2 DEF Rollout!Prove, Wanted, Healthy
  <2> QED BY <2>3 DEF Rollout!Next
<1>8. CASE /\ Live' = Live /\ proven' = proven /\ prev[r].commit \in Healthy \ {art[r]}
           /\ art' = [art EXCEPT ![r] = prev[r].commit] /\ prev[r].commit \in Commits
           /\ r \in InFlight'
  <2>1. Healthy' = Healthy BY <1>8 DEF Healthy
  <2>2. Wanted' = prev[r].commit BY <1>2, <1>4, <1>8 DEF ChangeInv, TInv, TypeOK
  <2>3. Rollout!Retreat(prev[r].commit)
    BY <1>3, <1>8, <2>1, <2>2 DEF Rollout!Retreat, Wanted, Healthy
  <2> QED BY <1>8, <2>3 DEF Rollout!Next
<1> QED BY <1>2, <1>5, <1>6, <1>7, <1>8, StepLive

LEMMA BeginRefines ==
  ASSUME OneAtATime, ChangeInv, ChangeInv', NEW r \in Runs, Begin(r)
  PROVE  [Rollout!Next]_<<Live, Wanted, Healthy>>
<1>1. InFlight = {} /\ Live' = Live /\ Healthy' = Healthy
  BY DEF Begin, Start, DryRun, Live, Healthy, remote
<1>2. Wanted = None BY <1>1, WantedIs
<1>3. ASSUME NEW f \in Files, DryRun(r, f) PROVE UNCHANGED <<Live, Wanted, Healthy>>
  <2>1. InFlight' = {} BY <1>1, <1>3 DEF DryRun, GoTo, InFlight, ChangeInv, TInv, TypeOK, Ended
  <2> QED BY <1>1, <1>2, <2>1, WantedIsNext
<1>4. ASSUME NEW c \in Commits, NEW dist \in Commits, NEW f \in Files \cup {None},
             NEW b \in Branches, NEW activate \in ActivateChoices,
             NEW auto \in RollbackChoices,
             Start(r, c, dist, f, b, activate, auto)
      PROVE  Rollout!Next
  <2>1. r \in InFlight' /\ art'[r] = dist
    BY <1>4 DEF Start, GoTo, InFlight, ChangeInv, TInv, TypeOK, Ended
  <2>2. Wanted' = dist BY <2>1, WantedIsNext
  <2>3. Rollout!Request(dist)
    BY <1>1, <1>2, <2>2 DEF Rollout!Request, Wanted, Healthy
  <2> QED BY <2>3 DEF Rollout!Next
<1> QED BY <1>3, <1>4 DEF Begin

\* Only a bundle that a run in flight deploys or falls back to becomes live,
\* it is judged while it is live, and a run falls back to a healthy one: where
\* operators are Disciplined, and also where nobody gives --auto-rollback,
\* whatever was built, activated or overwritten, as long as runs are one at a
\* time.  The deploy workflow and the runbook's command are of the second kind.
THEOREM RolloutRefinement ==
  ASSUME Disciplined \/ (OneAtATime /\ NoRollback)
  PROVE  Spec => ImplementsSafeRollout
<1>1. Init => Rollout!Init
  BY DEF Init, Rollout!Init, Live, InFlight, Ended
<1>2. ASSUME ChangeInv, ChangeInv', [Next]_vars
      PROVE  [Rollout!Next]_<<Live, Wanted, Healthy>>
  <2>1. ASSUME NEW r \in Runs, Begin(r)
        PROVE  [Rollout!Next]_<<Live, Wanted, Healthy>>
    BY <1>2, <2>1, BeginRefines DEF Disciplined, Separate
  <2>2. ASSUME NEW r \in Runs, Step(r) \/ Killed(r)
        PROVE  [Rollout!Next]_<<Live, Wanted, Healthy>>
    BY <1>2, <2>2, StepRefines
  <2>3. CASE UNCHANGED vars
    BY <2>3 DEF vars, Live, Wanted, Healthy, InFlight
  <2> QED BY <1>2, <2>1, <2>2, <2>3 DEF Next, AllOver
<1>3. [Rollout!Next]_<<Live, Wanted, Healthy>> => [Rollout!Next]_Rollout!vars
  BY DEF Wanted, Healthy, Rollout!vars
<1>4. Spec => []ChangeInv BY DisciplinedChange, PlainChange
<1> QED BY <1>1, <1>2, <1>3, <1>4, PTL DEF Spec, ImplementsSafeRollout, Rollout!Spec
=============================================================================
