--------------------------- MODULE OfficialDeploy ---------------------------
(***************************************************************************)
(* scripts/screeps_official_deploy.py: one process per invocation of the   *)
(* script.  A run uploads a bundle to a branch of the Screeps account,     *)
(* verifies it by hash, makes the branch the active world, writes its      *)
(* evidence file, judges the room with the post-deploy health gate and,    *)
(* when the room is dead, rebuilds and deploys the newest commit whose     *)
(* evidence says it was healthy.                                           *)
(*                                                                         *)
(* A bundle is identified by the commit whose sources it was built from:   *)
(* two bundles have the same SHA-256 exactly when that commit is the same. *)
(***************************************************************************)
EXTENDS Naturals, FiniteSets

CONSTANTS
  Runs,             \* invocations of the script
  Commits,          \* commits of the repository, and the bundles they build
  Branches,         \* code branches of the account; a target is one of them
  Files,            \* evidence files the directory glob can list
  DefaultFile,      \* official-screeps-deploy.json
  None,             \* no bundle, no commit, no file
  MaxPolls,         \* polls of the recovery loop before its deadline
  OneAtATime,       \* a deploy is held while another is in flight
  CleanBuild,       \* prod/dist/main.js was just built from a clean HEAD
  FreshFiles,       \* no two runs are given the same evidence file
  ActivateChoices,  \* values of --activate-world that operators use
  RollbackChoices,  \* values of --auto-rollback that operators use
  ActivatedRollbacks  \* --auto-rollback is given only with --activate-world

VARIABLES
  code,      \* code[b]: the bundle stored in branch b, None if b is missing
  active,    \* the branch that plays the world
  evidence,  \* evidence[f]: the ok deploy evidence in file f, or None
  gate,      \* gate[f]: content of the health-gate file paired with f
  job,       \* job[r]: what run r was asked to do
  pc,        \* pc[r]: what run r does next
  art,       \* art[r]: the bundle run r has in hand
  source,    \* source[r]: the branch run r would clone
  prev,      \* prev[r]: the evidence run r rolls back to, or None
  polls,     \* polls[r]: recovery polls made
  proven     \* history: deploys whose gate passed while their bundle was live

remote == <<code, active>>
files == <<evidence, gate>>
vars == <<code, active, evidence, gate, job, pc, art, source, prev, polls, proven>>

-----------------------------------------------------------------------------
(* Types *)

Ended == {"exit0", "exit1", "escalated", "noEvidence", "killed"}

Phases == {"idle", "list", "clone", "upload", "verify", "activate",
           "verifyActive", "verifyCode", "record", "gate", "find",
           "rebuild", "recover", "report"} \cup Ended

Jobs == [commit : Commits, file : Files \cup {None}, branch : Branches,
         activate : BOOLEAN, auto : BOOLEAN, ts : Nat]

Deploys == [commit : Commits, branch : Branches, ts : Nat]

Proofs == [commit : Commits, branch : Branches, ts : Nat, art : Commits,
           file : Files \cup {None}]

ASSUME DeployAssumption ==
  /\ DefaultFile \in Files
  /\ IsFiniteSet(Runs)
  /\ None \notin Commits \cup Files \cup Branches \cup Jobs
  /\ MaxPolls \in Nat \ {0}
  /\ {OneAtATime, CleanBuild, FreshFiles, ActivatedRollbacks} \subseteq BOOLEAN
  /\ ActivateChoices \subseteq BOOLEAN
  /\ RollbackChoices \subseteq BOOLEAN

ASSUME EvidenceAssumption == None \notin Deploys

TypeOK ==
  /\ code \in [Branches -> Commits \cup {None}]
  /\ active \in Branches
  /\ evidence \in [Files -> Deploys \cup {None}]
  /\ gate \in [Files -> {"none", "ok", "failed"}]
  /\ job \in [Runs -> Jobs \cup {None}]
  /\ pc \in [Runs -> Phases]
  /\ art \in [Runs -> Commits \cup {None}]
  /\ source \in [Runs -> Branches \cup {None}]
  /\ prev \in [Runs -> Deploys \cup {None}]
  /\ polls \in [Runs -> 0 .. MaxPolls]
  /\ proven \subseteq Proofs

-----------------------------------------------------------------------------
(* The account before the first run: the active branch holds some code.    *)

Init ==
  /\ active \in Branches
  /\ code \in {c \in [Branches -> Commits \cup {None}] : c[active] # None}
  /\ evidence = [f \in Files |-> None]
  /\ gate = [f \in Files |-> "none"]
  /\ job = [r \in Runs |-> None]
  /\ pc = [r \in Runs |-> "idle"]
  /\ art = [r \in Runs |-> None]
  /\ source = [r \in Runs |-> None]
  /\ prev = [r \in Runs |-> None]
  /\ polls = [r \in Runs |-> 0]
  /\ proven = {}

Live == code[active]

InFlight == {r \in Runs : pc[r] \notin Ended \cup {"idle"}}

Started == {r \in Runs : job[r] # None}

GoTo(r, p) == pc' = [pc EXCEPT ![r] = p]

\* A DeployError ends a deploy with exit code 1 and no evidence; inside the
\* rollback it becomes the escalation message, with the same exit code.
Failure(r) == IF prev[r] = None THEN "exit1" ELSE "escalated"

\* Evidence is ordered by timestampUtc, taken when the run starts: the number
\* of runs started so far stands for it.
Now == Cardinality(Started) + 1

-----------------------------------------------------------------------------
(* Plausible bugs, used to check that the properties notice them *)

\* The paired health gate is not consulted.
UngatedEvidence(r) ==
  {f \in Files : /\ evidence[f] # None
                 /\ evidence[f].branch = job[r].branch
                 /\ evidence[f].commit # job[r].commit
                 /\ f # job[r].file}

\* The candidates are taken in file order instead of reversed.
Oldest(fs) == {f \in fs : \A g \in fs : evidence[f].ts <= evidence[g].ts}

\* The activation is forgotten after a matching upload.
VerifyBranchCodeOnly(r) ==
  /\ pc[r] = "verify"
  /\ GoTo(r, IF code[job[r].branch] # art[r] THEN Failure(r) ELSE "record")
  /\ UNCHANGED <<remote, files, job, art, source, prev, polls, proven>>

\* The hash of the uploaded branch is not compared before the activation.
ActivateUnverified(r) ==
  /\ pc[r] = "verify"
  /\ GoTo(r, IF job[r].activate THEN "activate" ELSE "record")
  /\ UNCHANGED <<remote, files, job, art, source, prev, polls, proven>>

\* The recovery loop has no deadline.
PollForever(r, recovered) ==
  /\ pc[r] = "recover"
  /\ polls' = [polls EXCEPT ![r] = @ + 1]
  /\ \/ recovered /\ GoTo(r, "report")
     \/ ~recovered /\ UNCHANGED pc
  /\ UNCHANGED <<remote, files, job, art, source, prev, proven>>

\* The deadline is recomputed on every turn.
PollRestarted(r, recovered) ==
  /\ pc[r] = "recover"
  /\ polls' = [polls EXCEPT ![r] = (@ + 1) % MaxPolls]
  /\ IF recovered THEN GoTo(r, "report") ELSE UNCHANGED pc
  /\ UNCHANGED <<remote, files, job, art, source, prev, proven>>

-----------------------------------------------------------------------------
(* run_deploy *)

\* config_from_args, read_artifact and base_evidence: the bundle is read from
\* prod/dist/main.js and the commit is HEAD, whatever the bundle was built of.
Start(r, c, dist, f, b, activate, auto) ==
  /\ pc[r] = "idle"
  /\ OneAtATime => InFlight = {}
  /\ CleanBuild => dist = c
  /\ FreshFiles => f # None /\ \A s \in Started : job[s].file # f
  /\ ActivatedRollbacks /\ auto => activate
  /\ job' = [job EXCEPT ![r] = [commit |-> c, file |-> f, branch |-> b,
                                activate |-> activate, auto |-> auto, ts |-> Now]]
  /\ art' = [art EXCEPT ![r] = dist]
  /\ GoTo(r, "list")
  /\ UNCHANGED <<remote, files, source, prev, polls, proven>>

\* A dry run only writes its evidence file: mode "dry-run" is no deploy.
DryRun(r, f) ==
  /\ pc[r] = "idle"
  /\ OneAtATime => InFlight = {}
  /\ FreshFiles => \A s \in Started : job[s].file # f
  /\ evidence' = [evidence EXCEPT ![f] = None]
  /\ GoTo(r, "exit0")
  /\ UNCHANGED <<remote, gate, job, art, source, prev, polls, proven>>

\* The branch to clone is the active one: --clone-source-branch, the default
\* where the account names none, and the second listing, which only goes into
\* the evidence, are left out.
ListBranches(r) ==
  /\ pc[r] = "list"
  /\ IF code[job[r].branch] = None
       THEN GoTo(r, "clone") /\ source' = [source EXCEPT ![r] = active]
       ELSE GoTo(r, "upload") /\ UNCHANGED source
  /\ UNCHANGED <<remote, files, job, art, prev, polls, proven>>

\* The reply to a write may be lost or wrong: `applied` says whether the write
\* took place, the next phase whether the reply was a success.
CloneBranch(r, applied) ==
  /\ pc[r] = "clone"
  /\ code' = IF applied
               THEN [code EXCEPT ![job[r].branch] = code[source[r]]]
               ELSE code
  /\ pc' \in {[pc EXCEPT ![r] = p] : p \in {"upload", Failure(r)}}
  /\ UNCHANGED <<active, files, job, art, source, prev, polls, proven>>

UploadCode(r, applied) ==
  /\ pc[r] = "upload"
  /\ code' = IF applied THEN [code EXCEPT ![job[r].branch] = art[r]] ELSE code
  /\ pc' \in {[pc EXCEPT ![r] = p] : p \in {"verify", Failure(r)}}
  /\ UNCHANGED <<active, files, job, art, source, prev, polls, proven>>

VerifyBranchCode(r) ==
  /\ pc[r] = "verify"
  /\ GoTo(r, IF code[job[r].branch] # art[r] THEN Failure(r)
             ELSE IF job[r].activate THEN "activate" ELSE "record")
  /\ UNCHANGED <<remote, files, job, art, source, prev, polls, proven>>

SetActiveWorldBranch(r, applied) ==
  /\ pc[r] = "activate"
  /\ active' = IF applied THEN job[r].branch ELSE active
  /\ pc' \in {[pc EXCEPT ![r] = p] : p \in {"verifyActive", Failure(r)}}
  /\ UNCHANGED <<code, files, job, art, source, prev, polls, proven>>

VerifyActiveBranch(r) ==
  /\ pc[r] = "verifyActive"
  /\ GoTo(r, IF active = job[r].branch THEN "verifyCode" ELSE Failure(r))
  /\ UNCHANGED <<remote, files, job, art, source, prev, polls, proven>>

VerifyActiveCode(r) ==
  /\ pc[r] = "verifyCode"
  /\ GoTo(r, IF Live = art[r] THEN "record" ELSE Failure(r))
  /\ UNCHANGED <<remote, files, job, art, source, prev, polls, proven>>

\* write_evidence of main, then the gate if --auto-rollback was given.  The
\* rollback writes auto-rollback-deploy.json, which the glob never lists.
RecordEvidence(r) ==
  /\ pc[r] = "record"
  /\ IF prev[r] # None
       THEN GoTo(r, "recover") /\ UNCHANGED evidence
       ELSE /\ evidence' =
                 IF job[r].file = None THEN evidence
                 ELSE [evidence EXCEPT ![job[r].file] =
                         [commit |-> job[r].commit, branch |-> job[r].branch,
                          ts |-> job[r].ts]]
            /\ GoTo(r, IF job[r].auto THEN "gate" ELSE "exit0")
  /\ UNCHANGED <<remote, gate, job, art, source, prev, polls, proven>>

-----------------------------------------------------------------------------
(* run_postdeploy_health_gate and main *)

\* paired_health_gate_path: without an evidence file the gate is written to
\* postdeploy-health-gate.json, the pair of official-screeps-deploy.json.
GateFile(r) == IF job[r].file = None THEN DefaultFile ELSE job[r].file

\* The gate passes: main returns 0 and the gate file says ok.
GatePasses(r) ==
  /\ pc[r] = "gate"
  /\ gate' = [gate EXCEPT ![GateFile(r)] = "ok"]
  /\ proven' = IF Live = art[r]
                 THEN proven \cup {[commit |-> job[r].commit, ts |-> job[r].ts,
                                    branch |-> job[r].branch, art |-> art[r],
                                    file |-> job[r].file]}
                 ELSE proven
  /\ GoTo(r, "exit0")
  /\ UNCHANGED <<remote, evidence, job, art, source, prev, polls>>

\* The gate fails: a survival reason (room_dead, no_owned_spawn) triggers the
\* rollback, any other reason only exits with code 1.
GateFails(r, survival) ==
  /\ pc[r] = "gate"
  /\ gate' = [gate EXCEPT ![GateFile(r)] = "failed"]
  /\ GoTo(r, IF survival THEN "find" ELSE "exit1")
  /\ UNCHANGED <<remote, evidence, job, art, source, prev, polls, proven>>

-----------------------------------------------------------------------------
(* execute_auto_rollback *)

\* iter_successful_deploy_evidence and the filters of
\* find_previous_healthy_deploy: gate passed, same target, another commit,
\* another file.
HealthyEvidence(r) ==
  {f \in Files : /\ evidence[f] # None
                 /\ gate[f] = "ok"
                 /\ evidence[f].branch = job[r].branch
                 /\ evidence[f].commit # job[r].commit
                 /\ f # job[r].file}

Newest(fs) == {f \in fs : \A g \in fs : evidence[g].ts <= evidence[f].ts}

FindPreviousHealthy(r) ==
  /\ pc[r] = "find"
  /\ \/ /\ HealthyEvidence(r) = {}
        /\ GoTo(r, "noEvidence")
        /\ UNCHANGED prev
     \/ /\ \E f \in Newest(HealthyEvidence(r)) :
             prev' = [prev EXCEPT ![r] = evidence[f]]
        /\ GoTo(r, "rebuild")
  /\ UNCHANGED <<remote, files, job, art, source, polls, proven>>

\* git checkout of the previous commit's sources, npm run build, and the
\* bundle of the second run_deploy read from prod/dist/main.js.
RebuildRollback(r) ==
  /\ pc[r] = "rebuild"
  /\ art' = [art EXCEPT ![r] = prev[r].commit]
  /\ GoTo(r, "list")
  /\ UNCHANGED <<remote, files, job, source, prev, polls, proven>>

\* One turn of wait_for_recovery_targets.
PollRecovery(r, recovered) ==
  /\ pc[r] = "recover"
  /\ polls' = [polls EXCEPT ![r] = @ + 1]
  /\ \/ recovered /\ GoTo(r, "report")
     \/ ~recovered /\ polls[r] + 1 < MaxPolls /\ UNCHANGED pc
     \/ ~recovered /\ GoTo(r, "escalated")
  /\ UNCHANGED <<remote, files, job, art, source, prev, proven>>

\* The incident issue is created and the rollback summary written.
ReportRollback(r) ==
  /\ pc[r] = "report"
  /\ GoTo(r, "exit0")
  /\ UNCHANGED <<remote, files, job, art, source, prev, polls, proven>>

-----------------------------------------------------------------------------
(* Failures of any call, and the death of the process *)

\* A request, a subprocess or a monitor run fails: nothing was written.
CallFails(r) ==
  /\ r \in InFlight
  /\ pc[r] # "find"
  /\ GoTo(r, Failure(r))
  /\ UNCHANGED <<remote, files, job, art, source, prev, polls, proven>>

\* The CI job is cancelled or the host dies.
Killed(r) ==
  /\ r \in InFlight
  /\ GoTo(r, "killed")
  /\ UNCHANGED <<remote, files, job, art, source, prev, polls, proven>>

-----------------------------------------------------------------------------

Step(r) ==
  \/ ListBranches(r)
  \/ \E applied \in BOOLEAN : \/ CloneBranch(r, applied)
                              \/ UploadCode(r, applied)
                              \/ SetActiveWorldBranch(r, applied)
  \/ VerifyBranchCode(r)
  \/ VerifyActiveBranch(r)
  \/ VerifyActiveCode(r)
  \/ RecordEvidence(r)
  \/ GatePasses(r)
  \/ \E survival \in BOOLEAN : GateFails(r, survival)
  \/ FindPreviousHealthy(r)
  \/ RebuildRollback(r)
  \/ \E recovered \in BOOLEAN : PollRecovery(r, recovered)
  \/ ReportRollback(r)
  \/ CallFails(r)

Begin(r) ==
  \/ \E c, dist \in Commits, f \in Files \cup {None}, b \in Branches,
        activate \in ActivateChoices, auto \in RollbackChoices :
       Start(r, c, dist, f, b, activate, auto)
  \/ \E f \in Files : DryRun(r, f)

\* Every invocation of the bounded model is over.
AllOver == (\A r \in Runs : pc[r] \in Ended) /\ UNCHANGED vars

Next == (\E r \in Runs : Begin(r) \/ Step(r) \/ Killed(r)) \/ AllOver

Spec == Init /\ [][Next]_vars

-----------------------------------------------------------------------------
(* Properties *)

\* A rollback uploads a bundle that once passed the health gate while it was
\* the live one, on the same target: "the last-known-healthy bundle" of
\* execute_auto_rollback.
RollsBackToProvenBundle ==
  \A r \in Runs :
    (prev[r] # None /\ pc[r] \notin {"rebuild", "escalated", "killed"}) =>
      \E h \in proven : h.art = art[r] /\ h.branch = job[r].branch

\* The deploys find_previous_healthy_deploy is expected to see: proven, of the
\* same target and another commit, with an evidence file.
Predecessors(r) ==
  {h \in proven : /\ h.branch = job[r].branch
                  /\ h.commit # job[r].commit
                  /\ h.file # None}

\* The rollback picks the most recent healthy deploy before the failed one,
\* and gives up for lack of evidence only when there was none.
PicksNewestProven ==
  \A r \in Runs :
    /\ pc[r] = "noEvidence" => Predecessors(r) \cap {h \in proven : h.ts < job[r].ts} = {}
    /\ pc[r] = "rebuild" => \A h \in Predecessors(r) : h.ts <= prev[r].ts

\* When the evidence of a deploy is written, both reads by hash still describe
\* the account: the branch and, if requested, the active world hold the bundle.
EvidenceDescribesAccount ==
  \A r \in Runs :
    pc[r] \in {"record", "gate"} =>
      /\ code[job[r].branch] = art[r]
      /\ job[r].activate => Live = art[r]

\* How far a run is: through the phases of a deploy, again through those of the
\* deploy of a rollback, then through the polls of its recovery.
Stage(p) ==
  CASE p = "idle" -> 0          [] p = "list" -> 1     [] p = "clone" -> 2
    [] p = "upload" -> 3        [] p = "verify" -> 4   [] p = "activate" -> 5
    [] p = "verifyActive" -> 6  [] p = "verifyCode" -> 7
    [] p = "record" -> 8        [] p = "gate" -> 9     [] p = "find" -> 10
    [] p = "rebuild" -> 11      [] OTHER -> 12

Progress(r) ==
  IF pc[r] \in Ended THEN 25 + MaxPolls
  ELSE IF pc[r] = "report" THEN 24 + MaxPolls
  ELSE IF pc[r] = "recover" THEN 23 + polls[r]
  ELSE IF prev[r] = None \/ pc[r] = "rebuild" THEN Stage(pc[r])
  ELSE 11 + Stage(pc[r])

\* Every step of the system brings a run nearer to its end and takes none back,
\* whatever fails, is lost or interleaves: with a timeout on each call, every
\* invocation ends.
EveryStepAdvances ==
  [][/\ \E r \in Runs : Progress(r)' > Progress(r)
     /\ \A r \in Runs : Progress(r)' >= Progress(r)]_vars

\* The script implements the abstract rollout: the live bundle is only ever
\* replaced by the bundle the run in flight deploys or falls back to.
Rollout == INSTANCE SafeRollout WITH
  Bundles <- Commits,
  Nothing <- None,
  live    <- Live,
  wanted  <- IF InFlight = {} THEN None ELSE art[CHOOSE r \in InFlight : TRUE],
  healthy <- {h.art : h \in proven}

ImplementsSafeRollout == Rollout!Spec
=============================================================================
