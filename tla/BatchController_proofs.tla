---------------------- MODULE BatchController_proofs ----------------------
(***************************************************************************)
(* Proofs about the batch runner, for any number of concurrent             *)
(* controllers, signals, workers and polls: its types, that paid capacity  *)
(* is always accounted for (it implements PaidCapacity), that a leak is    *)
(* declared, that a completed run has seen its worker gone, that a run     *)
(* takes a bounded number of steps, and what its exit code can be taken to *)
(* say.                                                                    *)
(***************************************************************************)
EXTENDS BatchController, Integers, TLAPS

\* The try block of run().
InTry(c) == pc[c] \in Setup \cup {"scaleUp", "reply", "wait", "ssh", "train",
                                 "salvage", "collect", "verify"}

ScalingDown(c) == pc[c] \in {"modify", "group", "list"}

\* Where an unfinished finally clause and an unanswered request can be.
FrameInv ==
  \A c \in Controllers :
    /\ InTry(c) => unwinds[c]
    /\ unwinds[c] => InTry(c) \/ ScalingDown(c) \/ pc[c] = "killed"
    /\ inflight[c] => /\ unwinds[c]
                      /\ pc[c] \in {"reply", "modify", "group", "list", "killed"}

TInv == TypeOK /\ FrameInv

-----------------------------------------------------------------------------
(* Types *)

LEMMA InitTypes == Init => TInv
BY BatchAssumption
   DEF Init, TInv, TypeOK, FrameInv, Phases, Setup, Over, Exits, Statuses,
       InTry, ScalingDown

LEMMA RaiseTypes ==
  ASSUME TInv, NEW c \in Controllers, Raise(c),
         UNCHANGED <<asg, worker, quiet, downError, signals>>
  PROVE  TInv'
<1> USE BatchAssumption DEF TInv, asg, Raise, GoTo, Conclude
<1>1. TypeOK' BY DEF TypeOK, Phases, Statuses
<1>2. FrameInv' BY DEF TypeOK, FrameInv, InTry, ScalingDown, Setup
<1> QED BY <1>1, <1>2

LEMMA AfterScaleDownTypes ==
  ASSUME TInv, NEW c \in Controllers, ScalingDown(c), AfterScaleDown(c),
         desired' \in {0, desired}, UNCHANGED <<phase, vm, refused>>,
         UNCHANGED <<worker, quiet, signals>>,
         polls' = [polls EXCEPT ![c] = 0],
         status' \in [Controllers -> Statuses],
         downError' \in [Controllers -> BOOLEAN]
  PROVE  TInv'
<1> USE BatchAssumption DEF TInv, AfterScaleDown, GoTo, ScalingDown
<1>1. TypeOK'
  <2>1. /\ pc' \in [Controllers -> Phases]
        /\ unwinds' \in [Controllers -> BOOLEAN]
        /\ inflight' \in [Controllers -> BOOLEAN]
    BY DEF TypeOK, Phases
  <2>2. polls' \in [Controllers -> 0 .. MaxPolls - 1] BY DEF TypeOK
  <2>3. desired' \in {0, 1} BY DEF TypeOK
  <2> QED BY <2>1, <2>2, <2>3 DEF TypeOK
<1>2. FrameInv' BY DEF TypeOK, FrameInv, InTry, Setup
<1> QED BY <1>1, <1>2

LEMMA ScaleDownFailsTypes ==
  ASSUME TInv, NEW c \in Controllers, ScalingDown(c), ScaleDownFails(c),
         desired' \in {0, desired}, UNCHANGED <<phase, vm, refused>>,
         UNCHANGED <<worker, quiet, signals>>
  PROVE  TInv'
<1>1. status' \in [Controllers -> Statuses]
  BY DEF TInv, TypeOK, ScaleDownFails, Conclude, Demoted, Statuses
<1>2. downError' \in [Controllers -> BOOLEAN]
  BY DEF TInv, TypeOK, ScaleDownFails
<1> QED BY <1>1, <1>2, AfterScaleDownTypes DEF ScaleDownFails

\* A step that moves controller c alone, without a request of its own.
LEMMA MoveTypes ==
  ASSUME TInv, NEW c \in Controllers, NEW p \in Phases, GoTo(c, p), TypeOK',
         UNCHANGED <<unwinds, inflight>>,
         \/ /\ InTry(c) /\ ~inflight[c]
            /\ p \in Setup \cup {"scaleUp", "reply", "wait", "ssh", "train",
                                 "salvage", "collect", "verify"}
         \/ /\ ScalingDown(c) \/ p = "killed"
            /\ p \in {"modify", "group", "list", "killed"}
         \/ /\ ~unwinds[c]
            /\ p \in Over \cup {"guard", "preflight", "summary"}
         \/ p = "modify"
  PROVE  TInv'
<1>1. FrameInv'
  BY DEF TInv, TypeOK, FrameInv, InTry, ScalingDown, Setup, Over, Exits, GoTo
<1> QED BY <1>1 DEF TInv

LEMMA NextPollTypes ==
  ASSUME TInv, NEW c \in Controllers, pc[c] \in {"wait", "ssh"}, NextPoll(c),
         UNCHANGED <<asg, worker, quiet, downError, signals>>
  PROVE  TInv'
<1>1. CASE polls[c] + 1 = MaxPolls BY <1>1, RaiseTypes DEF NextPoll
<1>2. CASE polls[c] + 1 # MaxPolls
  <2>1. TypeOK'
    BY <1>2, BatchAssumption
    DEF NextPoll, GoTo, TInv, TypeOK, Phases, asg
  <2> QED
    BY <1>2, <2>1, MoveTypes DEF NextPoll, TInv, FrameInv, InTry, Phases
<1> QED BY <1>1, <1>2

LEMMA StepTypes ==
  ASSUME TInv, NEW c \in Controllers, Step(c) \/ Start(c) \/ Signal(c) \/ Kill(c)
  PROVE  TInv'
<1> USE BatchAssumption DEF asg
<1>1. CASE Start(c)
  <2>1. TypeOK' BY <1>1 DEF Start, GoTo, TInv, TypeOK, Phases
  <2> QED
    BY <1>1, <2>1, MoveTypes
    DEF Start, TInv, FrameInv, InTry, ScalingDown, Setup, Phases
<1>2. ASSUME NEW b \in BOOLEAN, CheckPreLaunchGuard(c, b) PROVE TInv'
  <2>1. TypeOK'
    BY <1>2 DEF CheckPreLaunchGuard, Conclude, GoTo, TInv, TypeOK, Phases, Statuses
  <2>2. ~unwinds[c]
    BY <1>2 DEF CheckPreLaunchGuard, TInv, FrameInv, InTry, ScalingDown, Setup
  <2> QED BY <1>2, <2>1, <2>2, MoveTypes DEF CheckPreLaunchGuard, Phases
<1>3. ASSUME NEW r \in {"failed", "preflight_ok", "compute"}, Preflight(c, r)
      PROVE  TInv'
  <2>1. TypeOK'
    <3>1. CASE r = "compute"
      BY <1>3, <3>1 DEF Preflight, GoTo, TInv, TypeOK, Phases
    <3>2. CASE r # "compute"
      BY <1>3, <3>2
      DEF Preflight, Conclude, GoTo, TInv, TypeOK, Phases, Statuses
    <3> QED BY <3>1, <3>2
  <2>2. FrameInv'
    BY <1>3
    DEF Preflight, GoTo, TInv, TypeOK, FrameInv, InTry, ScalingDown, Setup
  <2> QED BY <2>1, <2>2 DEF TInv
<1>4. CASE ScaleUp(c)
  <2>1. TypeOK' BY <1>4 DEF ScaleUp, GoTo, TInv, TypeOK, Phases
  <2>2. FrameInv'
    BY <1>4
    DEF ScaleUp, GoTo, TInv, TypeOK, FrameInv, InTry, ScalingDown, Setup
  <2> QED BY <2>1, <2>2 DEF TInv
<1>5. CASE FindWorker(c)
  <2>1. TypeOK' BY <1>5 DEF FindWorker, GoTo, TInv, TypeOK, Phases
  <2> QED
    BY <1>5, <2>1, MoveTypes DEF FindWorker, TInv, FrameInv, InTry, Phases
<1>6. CASE DescribeFails(c) \/ ScaleOutFailed(c) \/ Salvage(c)
  BY <1>6, RaiseTypes DEF DescribeFails, ScaleOutFailed, Salvage
<1>7. CASE PollWorker(c) BY <1>7, NextPollTypes DEF PollWorker
<1>8. ASSUME NEW r \in {"ok", "broken", "timeout"}, WaitForSsh(c, r) PROVE TInv'
  <2>1. CASE r = "ok"
    <3>1. TypeOK'
      BY <1>8, <2>1 DEF WaitForSsh, GoTo, TInv, TypeOK, Phases, Setup
    <3> QED
      BY <1>8, <2>1, <3>1, MoveTypes
      DEF WaitForSsh, TInv, FrameInv, InTry, Phases, Setup
  <2>2. CASE r = "broken" BY <1>8, <2>2, RaiseTypes DEF WaitForSsh
  <2>3. CASE r = "timeout" BY <1>8, <2>3, NextPollTypes DEF WaitForSsh
  <2> QED BY <2>1, <2>2, <2>3
<1>9. ASSUME NEW ok \in BOOLEAN, ScaleUpReply(c, ok) PROVE TInv'
  <2>1. CASE ok
    <3>1. TypeOK' BY <1>9, <2>1 DEF ScaleUpReply, GoTo, TInv, TypeOK, Phases
    <3> QED
      BY <1>9, <2>1, <3>1, MoveTypes DEF ScaleUpReply, InTry, Phases
  <2>2. CASE ~ok BY <1>9, <2>2, RaiseTypes DEF ScaleUpReply
  <2> QED BY <2>1, <2>2
<1>10. ASSUME NEW ok \in BOOLEAN, SetupStep(c, ok) PROVE TInv'
  <2>1. CASE ok
    <3>1. TypeOK'
      BY <1>10, <2>1
      DEF SetupStep, AfterSetup, GoTo, TInv, TypeOK, Phases, Setup
    <3>2. AfterSetup[pc[c]] \in Setup \cup {"train"}
      BY <1>10 DEF SetupStep, AfterSetup, Setup
    <3>3. InTry(c) /\ ~inflight[c]
      BY <1>10 DEF SetupStep, TInv, FrameInv, InTry, Setup
    <3> QED
      BY <1>10, <2>1, <3>1, <3>2, <3>3, MoveTypes DEF SetupStep, Phases
  <2>2. CASE ~ok BY <1>10, <2>2, RaiseTypes DEF SetupStep
  <2> QED BY <2>1, <2>2
<1>11. ASSUME NEW ok \in BOOLEAN, RunRemoteTraining(c, ok) PROVE TInv'
  <2>1. TypeOK' BY <1>11 DEF RunRemoteTraining, GoTo, TInv, TypeOK, Phases
  <2> QED
    BY <1>11, <2>1, MoveTypes
    DEF RunRemoteTraining, TInv, FrameInv, InTry, Phases
<1>12. ASSUME NEW ok \in BOOLEAN, CollectRemoteArtifacts(c, ok) PROVE TInv'
  <2>1. CASE ok
    <3>1. TypeOK'
      BY <1>12, <2>1 DEF CollectRemoteArtifacts, GoTo, TInv, TypeOK, Phases
    <3> QED
      BY <1>12, <2>1, <3>1, MoveTypes
      DEF CollectRemoteArtifacts, TInv, FrameInv, InTry, Phases
  <2>2. CASE ~ok BY <1>12, <2>2, RaiseTypes DEF CollectRemoteArtifacts
  <2> QED BY <2>1, <2>2
<1>13. ASSUME NEW ok \in BOOLEAN, VerifyTrainingReport(c, ok) PROVE TInv'
  <2>1. CASE ok
    <3>1. TypeOK'
      BY <1>13, <2>1
      DEF VerifyTrainingReport, Conclude, GoTo, TInv, TypeOK, Phases, Statuses
    <3>2. FrameInv'
      BY <1>13, <2>1
      DEF VerifyTrainingReport, GoTo, TInv, TypeOK, FrameInv, InTry,
          ScalingDown, Setup
    <3> QED BY <3>1, <3>2 DEF TInv
  <2>2. CASE ~ok BY <1>13, <2>2, RaiseTypes DEF VerifyTrainingReport
  <2> QED BY <2>1, <2>2
<1>14. ASSUME NEW ok \in BOOLEAN, ReadGroup(c, ok) PROVE TInv'
  <2>1. TypeOK' BY <1>14 DEF ReadGroup, GoTo, TInv, TypeOK, Phases
  <2> QED BY <1>14, <2>1, MoveTypes DEF ReadGroup, ScalingDown, Phases
<1>15. ASSUME NEW empty \in BOOLEAN, ReadList(c, empty) PROVE TInv'
  <2>1. CASE empty /\ quiet[c]
    BY <1>15, <2>1, AfterScaleDownTypes
    DEF ReadList, ScalingDown, TInv, TypeOK
  <2>2. CASE ~(empty /\ quiet[c]) /\ polls[c] + 1 = MaxPolls
    BY <1>15, <2>2, ScaleDownFailsTypes DEF ReadList, NextDownPoll, ScalingDown
  <2>3. CASE ~(empty /\ quiet[c]) /\ polls[c] + 1 # MaxPolls
    <3>1. TypeOK'
      BY <1>15, <2>3
      DEF ReadList, NextDownPoll, GoTo, TInv, TypeOK, Phases
    <3> QED
      BY <1>15, <2>3, <3>1, MoveTypes
      DEF ReadList, NextDownPoll, ScalingDown, Phases
  <2> QED BY <2>1, <2>2, <2>3
<1>16. ASSUME NEW served \in BOOLEAN, NEW ok \in BOOLEAN,
              ModifyDesiredCapacity(c, served, ok)
       PROVE  TInv'
  <2>1. CASE ok
    <3>1. TypeOK'
      BY <1>16, <2>1
      DEF ModifyDesiredCapacity, GoTo, TInv, TypeOK, Phases
    <3> QED
      BY <1>16, <2>1, <3>1, MoveTypes
      DEF ModifyDesiredCapacity, ScalingDown, Phases
  <2>2. CASE ~ok
    BY <1>16, <2>2, ScaleDownFailsTypes DEF ModifyDesiredCapacity, ScalingDown
  <2> QED BY <2>1, <2>2
<1>17. CASE Exit(c)
  <2>1. TypeOK'
    BY <1>17 DEF Exit, ExitOf, GoTo, TInv, TypeOK, Phases, Over, Exits
  <2>2. ExitOf(status[c]) \in Exits BY DEF ExitOf, Exits
  <2>3. ~unwinds[c]
    BY <1>17 DEF Exit, TInv, FrameInv, InTry, ScalingDown, Setup
  <2> QED BY <1>17, <2>1, <2>2, <2>3, MoveTypes DEF Exit, Phases, Over
<1>18. CASE Signal(c)
  <2>1. TypeOK'
    BY <1>18 DEF Signal, Conclude, GoTo, TInv, TypeOK, Phases, Statuses
  <2> QED BY <1>18, <2>1, MoveTypes DEF Signal, Phases
<1>19. CASE Kill(c)
  <2>1. TypeOK' BY <1>19 DEF Kill, GoTo, TInv, TypeOK, Phases, Over
  <2> QED BY <1>19, <2>1, MoveTypes DEF Kill, Phases, Over
<1> QED
  BY <1>1, <1>2, <1>3, <1>4, <1>5, <1>6, <1>7, <1>8, <1>9, <1>10, <1>11,
     <1>12, <1>13, <1>14, <1>15, <1>16, <1>17, <1>18, <1>19
  DEF Step

LEMMA CloudTypes == TInv /\ Cloud => TInv'
<1> USE BatchAssumption DEF TInv, TypeOK, FrameInv, InTry, ScalingDown
<1> SUFFICES ASSUME TInv, Cloud PROVE TInv'
  OBVIOUS
<1>1. ASSUME NEW c \in Controllers, ScaleUpApplied(c) PROVE TInv'
  BY <1>1 DEF ScaleUpApplied
<1>2. CASE Launch BY <1>2 DEF Launch
<1>3. ASSUME NEW ok \in BOOLEAN, LaunchEnds(ok) PROVE TInv'
  BY <1>3 DEF LaunchEnds
<1>4. CASE Reclaim BY <1>4 DEF Reclaim
<1>5. CASE Terminate BY <1>5 DEF Terminate
<1> QED BY <1>1, <1>2, <1>3, <1>4, <1>5 DEF Cloud

LEMMA StutterTypes == TInv /\ UNCHANGED vars => TInv'
BY DEF TInv, TypeOK, FrameInv, InTry, ScalingDown, vars

LEMMA NextTypes == TInv /\ [Next]_vars => TInv'
BY StepTypes, CloudTypes, StutterTypes DEF Next, AllOver

\* Every reachable state is well typed: whatever fails and whoever signals,
\* a polling loop stops at its deadline.
THEOREM TypeCorrect == Spec => []TypeOK
<1>1. TInv => TypeOK BY DEF TInv
<1> QED BY <1>1, InitTypes, NextTypes, PTL DEF Spec

-----------------------------------------------------------------------------
(* Accounts *)

IsDebtor(c) == pc[c] # "killed" /\ (Owes(c) \/ Watches(c))

IsDeclared(c) == downError[c] \/ pc[c] = "killed"

\* What a step of controller c can do to the accounts.
Effect(c) ==
  /\ UNCHANGED phase
  /\ desired' \in {0, desired}
  /\ \A d \in Controllers \ {c} :
       /\ IsDebtor(d)' = IsDebtor(d)
       /\ Owes(d)' = Owes(d)
       /\ IsDeclared(d)' = IsDeclared(d)
  /\ IsDeclared(c) => IsDeclared(c)'
  /\ IsDebtor(c) => IsDebtor(c)' \/ IsDeclared(c)' \/ phase = "none"
  /\ Owes(c) => Owes(c)' \/ IsDeclared(c)' \/ desired' = 0
  /\ IsDeclared(c)' /\ ~IsDeclared(c) /\ IsDebtor(c)' => IsDebtor(c)
  /\ desired' # desired => IsDebtor(c) /\ (IsDebtor(c)' \/ IsDeclared(c)')

\* The step changes what the accounts are made of at c alone.
AtMost(c) ==
  \A d \in Controllers \ {c} :
    /\ pc'[d] = pc[d] /\ unwinds'[d] = unwinds[d]
    /\ quiet'[d] = quiet[d] /\ downError'[d] = downError[d]

LEMMA Others ==
  ASSUME NEW c \in Controllers, AtMost(c)
  PROVE  \A d \in Controllers \ {c} :
           /\ IsDebtor(d)' = IsDebtor(d)
           /\ Owes(d)' = Owes(d)
           /\ IsDeclared(d)' = IsDeclared(d)
BY DEF AtMost, IsDebtor, IsDeclared, Owes, Watches

LEMMA RaiseEffect ==
  ASSUME TInv, NEW c \in Controllers, InTry(c), Raise(c),
         UNCHANGED <<asg, quiet, downError>>
  PROVE  Effect(c)
<1> USE DEF TInv, TypeOK, Raise, GoTo, asg
<1>1. AtMost(c) BY DEF AtMost
<1>2. Owes(c) /\ IsDebtor(c) BY DEF FrameInv, InTry, IsDebtor, Owes, Setup
<1>3. Owes(c)' /\ IsDebtor(c)' BY DEF IsDebtor, Owes
<1>4. ~IsDeclared(c) \/ IsDeclared(c)'
  BY DEF IsDeclared, InTry, Setup
<1> QED BY <1>1, <1>2, <1>3, <1>4, Others DEF Effect

\* A step of c that keeps what it answers for.
LEMMA KeepEffect ==
  ASSUME TInv, NEW c \in Controllers, AtMost(c),
         UNCHANGED <<desired, phase>>, UNCHANGED downError,
         pc[c] # "killed", pc'[c] # "killed",
         Owes(c) => Owes(c)', Watches(c) => Watches(c)' \/ Owes(c)'
  PROVE  Effect(c)
<1>1. IsDeclared(c)' = IsDeclared(c) BY DEF IsDeclared
<1>2. IsDebtor(c) => IsDebtor(c)' BY DEF IsDebtor
<1> QED BY <1>1, <1>2, Others DEF Effect

LEMMA ScaleDownFailsEffect ==
  ASSUME TInv, NEW c \in Controllers, ScalingDown(c), ScaleDownFails(c),
         UNCHANGED <<phase, quiet>>, desired' \in {0, desired},
         desired' # desired => pc[c] = "modify"
  PROVE  Effect(c)
<1> USE DEF TInv, TypeOK, ScaleDownFails, AfterScaleDown, GoTo, ScalingDown
<1>1. AtMost(c)
  <2>1. CASE unwinds[c] BY <2>1 DEF AtMost
  <2>2. CASE ~unwinds[c] BY <2>2 DEF AtMost
  <2> QED BY <2>1, <2>2
<1>2. IsDeclared(c)' BY DEF IsDeclared
<1>3. IsDebtor(c)' => IsDebtor(c)
  <2>1. CASE unwinds[c] BY <2>1 DEF IsDebtor, Owes
  <2>2. CASE ~unwinds[c] BY <2>2 DEF IsDebtor, Owes, Watches
  <2> QED BY <2>1, <2>2
<1>4. desired' # desired => IsDebtor(c) BY DEF IsDebtor, Owes
<1> QED BY <1>1, <1>2, <1>3, <1>4, Others DEF Effect

LEMMA NextPollEffect ==
  ASSUME TInv, NEW c \in Controllers, InTry(c), NextPoll(c),
         UNCHANGED <<asg, quiet, downError>>
  PROVE  Effect(c)
<1>1. CASE polls[c] + 1 = MaxPolls BY <1>1, RaiseEffect DEF NextPoll
<1>2. CASE polls[c] + 1 # MaxPolls
  <2> USE <1>2 DEF NextPoll, GoTo, TInv, TypeOK, asg
  <2>1. AtMost(c) BY DEF AtMost
  <2>2. Owes(c)' BY DEF FrameInv, InTry, Owes, Setup
  <2>3. pc[c] # "killed" /\ pc'[c] # "killed" BY DEF InTry, Setup
  <2> QED BY <2>1, <2>2, <2>3, KeepEffect
<1> QED BY <1>1, <1>2

\* A step in the try block or before it, or out of a final phase.
LEMMA MoveEffect ==
  ASSUME TInv, NEW c \in Controllers, NEW p \in Phases \ {"killed"}, GoTo(c, p),
         pc[c] \notin {"modify", "group", "list", "killed"},
         unwinds' \in {unwinds, [unwinds EXCEPT ![c] = TRUE]},
         UNCHANGED <<desired, phase>>, UNCHANGED downError, UNCHANGED quiet
  PROVE  Effect(c)
<1> USE DEF TInv, TypeOK, GoTo
<1>1. AtMost(c) BY DEF AtMost
<1>2. Owes(c) => Owes(c)' BY DEF Owes
<1>3. ~Watches(c) BY DEF Watches
<1>4. pc'[c] = p OBVIOUS
<1> QED BY <1>1, <1>2, <1>3, <1>4, KeepEffect

LEMMA StepEffect ==
  ASSUME TInv, NEW c \in Controllers, Step(c) \/ Start(c) \/ Signal(c) \/ Kill(c)
  PROVE  Effect(c)
<1> USE DEF asg, InTry, ScalingDown
<1>1. CASE Start(c) BY <1>1, MoveEffect DEF Start, Phases, Over, Exits
<1>2. ASSUME NEW b \in BOOLEAN, CheckPreLaunchGuard(c, b) PROVE Effect(c)
  BY <1>2, MoveEffect DEF CheckPreLaunchGuard, Phases, Over, Exits
<1>3. ASSUME NEW r \in {"failed", "preflight_ok", "compute"}, Preflight(c, r)
      PROVE  Effect(c)
  BY <1>3, MoveEffect DEF Preflight, Phases, Over, Exits
<1>4. CASE ScaleUp(c) BY <1>4, MoveEffect DEF ScaleUp, Phases, Over, Exits
<1>5. CASE FindWorker(c)
  BY <1>5, MoveEffect DEF FindWorker, Phases, Over, Exits
<1>6. CASE DescribeFails(c) \/ ScaleOutFailed(c) \/ Salvage(c)
  BY <1>6, RaiseEffect DEF DescribeFails, ScaleOutFailed, Salvage
<1>7. CASE PollWorker(c) BY <1>7, NextPollEffect DEF PollWorker
<1>8. ASSUME NEW r \in {"ok", "broken", "timeout"}, WaitForSsh(c, r)
      PROVE  Effect(c)
  <2>1. CASE r = "ok"
    BY <1>8, <2>1, MoveEffect DEF WaitForSsh, Phases, Over, Exits, Setup
  <2>2. CASE r = "broken" BY <1>8, <2>2, RaiseEffect DEF WaitForSsh
  <2>3. CASE r = "timeout" BY <1>8, <2>3, NextPollEffect DEF WaitForSsh
  <2> QED BY <2>1, <2>2, <2>3
<1>9. ASSUME NEW ok \in BOOLEAN, ScaleUpReply(c, ok) PROVE Effect(c)
  <2>1. CASE ok
    BY <1>9, <2>1, MoveEffect DEF ScaleUpReply, Phases, Over, Exits
  <2>2. CASE ~ok BY <1>9, <2>2, RaiseEffect DEF ScaleUpReply
  <2> QED BY <2>1, <2>2
<1>10. ASSUME NEW ok \in BOOLEAN, SetupStep(c, ok) PROVE Effect(c)
  <2>1. CASE ok
    <3>1. AfterSetup[pc[c]] \in Phases \ {"killed"}
      BY <1>10 DEF SetupStep, AfterSetup, Setup, Phases
    <3> QED BY <1>10, <2>1, <3>1, MoveEffect DEF SetupStep, Setup
  <2>2. CASE ~ok BY <1>10, <2>2, RaiseEffect DEF SetupStep
  <2> QED BY <2>1, <2>2
<1>11. ASSUME NEW ok \in BOOLEAN, RunRemoteTraining(c, ok) PROVE Effect(c)
  BY <1>11, MoveEffect DEF RunRemoteTraining, Phases, Over, Exits
<1>12. ASSUME NEW ok \in BOOLEAN, CollectRemoteArtifacts(c, ok) PROVE Effect(c)
  <2>1. CASE ok
    BY <1>12, <2>1, MoveEffect DEF CollectRemoteArtifacts, Phases, Over, Exits
  <2>2. CASE ~ok BY <1>12, <2>2, RaiseEffect DEF CollectRemoteArtifacts
  <2> QED BY <2>1, <2>2
<1>13. ASSUME NEW ok \in BOOLEAN, VerifyTrainingReport(c, ok) PROVE Effect(c)
  <2>1. CASE ok
    <3> USE <1>13, <2>1 DEF VerifyTrainingReport, GoTo, TInv, TypeOK
    <3>1. AtMost(c) BY DEF AtMost
    <3>2. Owes(c)' BY DEF Owes
    <3> QED BY <3>1, <3>2, KeepEffect
  <2>2. CASE ~ok BY <1>13, <2>2, RaiseEffect DEF VerifyTrainingReport
  <2> QED BY <2>1, <2>2
<1>14. ASSUME NEW ok \in BOOLEAN, ReadGroup(c, ok) PROVE Effect(c)
  <2> USE <1>14 DEF ReadGroup, GoTo, TInv, TypeOK
  <2>1. AtMost(c) BY DEF AtMost
  <2>2. Owes(c) => Owes(c)' BY DEF Owes
  <2>3. IsDeclared(c)' = IsDeclared(c) BY DEF IsDeclared
  <2>4. IsDebtor(c) => IsDebtor(c)' \/ phase = "none"
    BY DEF IsDebtor, Watches
  <2> QED BY <2>1, <2>2, <2>3, <2>4, Others DEF Effect
<1>15. ASSUME NEW empty \in BOOLEAN, ReadList(c, empty) PROVE Effect(c)
  <2>1. CASE empty /\ quiet[c]
    <3> USE <1>15, <2>1 DEF ReadList, AfterScaleDown, GoTo, TInv, TypeOK
    <3>1. CASE unwinds[c]
      <4>1. AtMost(c) BY <3>1 DEF AtMost
      <4>2. Owes(c)' BY <3>1 DEF Owes
      <4>3. pc[c] # "killed" /\ pc'[c] # "killed" BY <3>1
      <4> QED BY <4>1, <4>2, <4>3, KeepEffect
    <3>2. CASE ~unwinds[c]
      <4>1. AtMost(c) BY <3>2 DEF AtMost
      <4>2. ~Owes(c) /\ ~Watches(c) BY <3>2 DEF Owes, Watches
      <4>3. pc[c] # "killed" /\ pc'[c] # "killed" BY <3>2
      <4> QED BY <4>1, <4>2, <4>3, KeepEffect
    <3> QED BY <3>1, <3>2
  <2>2. CASE ~(empty /\ quiet[c]) /\ polls[c] + 1 = MaxPolls
    BY <1>15, <2>2, ScaleDownFailsEffect DEF ReadList, NextDownPoll
  <2>3. CASE ~(empty /\ quiet[c]) /\ polls[c] + 1 # MaxPolls
    <3> USE <1>15, <2>3 DEF ReadList, NextDownPoll, GoTo, TInv, TypeOK
    <3>1. AtMost(c) BY DEF AtMost
    <3>2. Watches(c)' BY DEF Watches
    <3>3. Owes(c) => Owes(c)' BY DEF Owes
    <3> QED BY <3>1, <3>2, <3>3, KeepEffect
  <2> QED BY <2>1, <2>2, <2>3
<1>16. ASSUME NEW served \in BOOLEAN, NEW ok \in BOOLEAN,
              ModifyDesiredCapacity(c, served, ok)
       PROVE  Effect(c)
  <2>1. CASE ok
    <3> USE <1>16, <2>1 DEF ModifyDesiredCapacity, GoTo, TInv, TypeOK
    <3>1. AtMost(c) BY DEF AtMost
    <3>2. desired' = 0 /\ UNCHANGED phase OBVIOUS
    <3>3. IsDebtor(c) BY DEF IsDebtor, Owes
    <3>4. IsDebtor(c)' BY DEF IsDebtor, Watches
    <3>5. IsDeclared(c)' = IsDeclared(c) BY DEF IsDeclared
    <3> QED BY <3>1, <3>2, <3>3, <3>4, <3>5, Others DEF Effect
  <2>2. CASE ~ok
    BY <1>16, <2>2, ScaleDownFailsEffect DEF ModifyDesiredCapacity
  <2> QED BY <2>1, <2>2
<1>17. CASE Exit(c)
  <2>1. ExitOf(status[c]) \in Phases \ {"killed"}
    BY DEF ExitOf, Phases, Over, Exits
  <2> QED BY <1>17, <2>1, MoveEffect DEF Exit
<1>18. CASE Signal(c)
  <2> USE <1>18 DEF Signal, GoTo, TInv, TypeOK
  <2>1. AtMost(c) BY DEF AtMost
  <2>2. Owes(c)' BY DEF Owes
  <2>3. pc[c] # "killed" /\ pc'[c] # "killed" BY DEF Running, Over
  <2> QED BY <2>1, <2>2, <2>3, KeepEffect
<1>19. CASE Kill(c)
  <2> USE <1>19 DEF Kill, GoTo, TInv, TypeOK
  <2>1. AtMost(c) BY DEF AtMost
  <2>2. IsDeclared(c)' /\ ~IsDebtor(c)' BY DEF IsDeclared, IsDebtor
  <2> QED BY <2>1, <2>2, Others DEF Effect
<1> QED
  BY <1>1, <1>2, <1>3, <1>4, <1>5, <1>6, <1>7, <1>8, <1>9, <1>10, <1>11,
     <1>12, <1>13, <1>14, <1>15, <1>16, <1>17, <1>18, <1>19
  DEF Step

LEMMA Members ==
  /\ \A c \in Controllers : c \in Debtors <=> IsDebtor(c)
  /\ \A c \in Controllers : c \in Declared <=> IsDeclared(c)
BY DEF Debtors, Declared, IsDebtor, IsDeclared

LEMMA MembersPrime ==
  /\ \A c \in Controllers : c \in Debtors' <=> IsDebtor(c)'
  /\ \A c \in Controllers : c \in Declared' <=> IsDeclared(c)'
BY DEF Debtors, Declared, IsDebtor, IsDeclared

\* The strengthening of LeakIsDeclared.  A capacity of 1 is the business of a
\* run that has yet to ask for 0: having seen the group empty is not enough
\* while a request may still be served.  A worker is somebody's to watch.
Accounts ==
  /\ desired = 1 => \E c \in Controllers : Owes(c) \/ IsDeclared(c)
  /\ phase # "none" => \E c \in Controllers : IsDebtor(c) \/ IsDeclared(c)

LEMMA OwerIsAccountable ==
  ASSUME NEW c \in Controllers, Owes(c)
  PROVE  IsDebtor(c) \/ IsDeclared(c)
BY DEF IsDebtor, IsDeclared

LEMMA StepAccounts ==
  ASSUME TypeOK, Accounts, NEW c \in Controllers, Effect(c)
  PROVE  Accounts'
<1>1. ASSUME desired' = 1
      PROVE  \E d \in Controllers : Owes(d)' \/ IsDeclared(d)'
  <2>1. desired = 1 BY <1>1 DEF Effect
  <2>2. PICK d \in Controllers : Owes(d) \/ IsDeclared(d)
    BY <2>1 DEF Accounts
  <2>3. CASE d = c BY <1>1, <2>2, <2>3 DEF Effect
  <2>4. CASE d # c BY <2>2, <2>4 DEF Effect
  <2> QED BY <2>3, <2>4
<1>2. ASSUME phase' # "none"
      PROVE  \E d \in Controllers : IsDebtor(d)' \/ IsDeclared(d)'
  <2>1. phase # "none" BY <1>2 DEF Effect
  <2>2. PICK d \in Controllers : IsDebtor(d) \/ IsDeclared(d)
    BY <2>1 DEF Accounts
  <2>3. CASE d = c BY <2>1, <2>2, <2>3 DEF Effect
  <2>4. CASE d # c BY <2>2, <2>4 DEF Effect
  <2> QED BY <2>3, <2>4
<1> QED BY <1>1, <1>2 DEF Accounts

\* No action of the cloud changes who answers for the group.
LEMMA CloudKeeps ==
  ASSUME Cloud
  PROVE  \A d \in Controllers : /\ IsDebtor(d)' = IsDebtor(d)
                                /\ Owes(d)' = Owes(d)
                                /\ IsDeclared(d)' = IsDeclared(d)
<1>1. UNCHANGED <<pc, unwinds, quiet, downError>>
  BY DEF Cloud, ScaleUpApplied, Launch, LaunchEnds, Reclaim, Terminate
<1> QED BY <1>1 DEF IsDebtor, IsDeclared, Owes, Watches

LEMMA CloudAccounts == TInv /\ Accounts /\ Cloud => Accounts'
<1> SUFFICES ASSUME TInv, Accounts, Cloud PROVE Accounts'
  OBVIOUS
<1>1. ASSUME NEW c \in Controllers, ScaleUpApplied(c) PROVE Accounts'
  <2>1. Owes(c)
    BY <1>1 DEF ScaleUpApplied, TInv, FrameInv, Owes
  <2>2. Owes(c)' /\ UNCHANGED phase
    BY <1>1, <2>1, CloudKeeps DEF ScaleUpApplied
  <2> QED BY <2>2, CloudKeeps DEF Accounts
<1>2. CASE Launch
  <2>1. desired = 1 /\ desired' = desired BY <1>2 DEF Launch
  <2>2. PICK c \in Controllers : Owes(c) \/ IsDeclared(c)
    BY <2>1 DEF Accounts
  <2>3. Owes(c)' \/ IsDeclared(c)' BY <2>2, CloudKeeps
  <2>4. IsDebtor(c)' \/ IsDeclared(c)'
    BY <2>2, OwerIsAccountable, CloudKeeps
  <2> QED BY <2>3, <2>4 DEF Accounts
<1>3. CASE \/ \E ok \in BOOLEAN : LaunchEnds(ok)
           \/ Reclaim
           \/ Terminate
  <2>1. desired' = desired /\ (phase' # "none" => phase # "none")
    BY <1>3 DEF LaunchEnds, Reclaim, Terminate
  <2> QED BY <2>1, CloudKeeps DEF Accounts
<1> QED BY <1>1, <1>2, <1>3 DEF Cloud

LEMMA InitAccounts == Init => Accounts
BY DEF Init, Accounts

LEMMA StutterAccounts == Accounts /\ UNCHANGED vars => Accounts'
BY DEF Accounts, IsDebtor, IsDeclared, Owes, Watches, vars

LEMMA NextAccounts == TInv /\ Accounts /\ [Next]_vars => Accounts'
<1> SUFFICES ASSUME TInv, Accounts, [Next]_vars PROVE Accounts'
  OBVIOUS
<1>1. ASSUME NEW c \in Controllers, Step(c) \/ Start(c) \/ Signal(c) \/ Kill(c)
      PROVE  Accounts'
  BY <1>1, StepEffect, StepAccounts DEF TInv
<1> QED BY <1>1, CloudAccounts, StutterAccounts DEF Next, AllOver

LEMMA AccountsHold == Spec => [](TInv /\ Accounts)
<1>1. TInv /\ Accounts /\ [Next]_vars => (TInv /\ Accounts)'
  BY NextTypes, NextAccounts
<1> QED BY <1>1, InitTypes, InitAccounts, PTL DEF Spec

\* If every run is over and the group still costs money, some summary says
\* so or a run was killed outright.
THEOREM LeaksAreDeclared == Spec => []LeakIsDeclared
<1>1. TInv /\ Accounts => LeakIsDeclared
  <2> SUFFICES ASSUME TInv, Accounts,
                      \A c \in Controllers : pc[c] \in Over \cup {"idle"},
                      Paying
               PROVE  Declared # {}
    BY DEF LeakIsDeclared
  <2>1. PICK c \in Controllers : IsDebtor(c) \/ IsDeclared(c)
    BY OwerIsAccountable DEF Paying, Accounts
  <2>2. ~IsDebtor(c)
    BY DEF TInv, FrameInv, IsDebtor, Owes, Watches, InTry, ScalingDown, Setup,
           Over, Exits
  <2> QED BY <2>1, <2>2, Members
<1> QED BY <1>1, AccountsHold, PTL

-----------------------------------------------------------------------------
(* Refinement *)

LEMMA PayingIsAccountedPrime ==
  ASSUME Accounts', Paying'
  PROVE  Debtors' \cup Declared' # {}
<1>1. PICK c \in Controllers : IsDebtor(c)' \/ IsDeclared(c)'
  BY DEF Paying, Accounts, IsDebtor, IsDeclared
<1> QED BY <1>1, MembersPrime

LEMMA StepMaps ==
  ASSUME TypeOK, Accounts', NEW c \in Controllers, Effect(c)
  PROVE  [Capacity!Next]_<<Paying, Debtors, Declared>>
<1>1. /\ Debtors' \ {c} = Debtors \ {c}
      /\ Declared' \ {c} = Declared \ {c}
      /\ Declared \subseteq Declared'
  BY Members, MembersPrime DEF Effect, Debtors, Declared
<1>2. Paying' \in {Paying, FALSE}
  BY DEF Effect, Paying, TypeOK
<1>3. desired' = desired => Paying' = Paying
  BY DEF Effect, Paying
<1>4. CASE c \in Declared' /\ (c \notin Declared \/ desired' # desired)
  <2>1. c \in Debtors' => c \in Debtors
    BY <1>4, Members, MembersPrime DEF Effect
  <2>2. Debtors' \in {Debtors, Debtors \ {c}} BY <1>1, <2>1
  <2>3. Declared' = Declared \cup {c} BY <1>1, <1>4
  <2>4. Capacity!Declare(c) BY <1>2, <2>2, <2>3 DEF Capacity!Declare
  <2> QED BY <2>4 DEF Capacity!Next
<1>5. CASE desired' # desired /\ c \notin Declared'
  <2>1. c \in Debtors /\ c \in Debtors'
    BY <1>5, Members, MembersPrime DEF Effect
  <2>2. Debtors' = Debtors /\ Declared' = Declared BY <1>1, <1>5, <2>1
  <2>3. Capacity!Stop \/ UNCHANGED <<Paying, Debtors, Declared>>
    BY <1>2, <2>2 DEF Capacity!Stop
  <2> QED BY <2>3 DEF Capacity!Next
<1>6. CASE desired' = desired /\ (c \in Declared' => c \in Declared)
  <2>1. Declared' = Declared /\ Paying' = Paying BY <1>1, <1>3, <1>6
  <2>2. CASE c \in Debtors'
    <3>1. Debtors' = Debtors \cup {c} BY <1>1, <2>2
    <3>2. Capacity!Open(c) BY <2>1, <3>1 DEF Capacity!Open
    <3> QED BY <3>2 DEF Capacity!Next
  <2>3. CASE c \notin Debtors'
    <3>1. Debtors' = Debtors \ {c} BY <1>1, <2>3
    <3>2. Paying => (Debtors \ {c}) \cup Declared # {}
      BY <2>1, <3>1, PayingIsAccountedPrime
    <3>3. Capacity!Settle(c) BY <2>1, <3>1, <3>2 DEF Capacity!Settle
    <3> QED BY <3>3 DEF Capacity!Next
  <2> QED BY <2>2, <2>3
<1> QED BY <1>4, <1>5, <1>6

LEMMA CloudMaps ==
  ASSUME TInv, Accounts, Accounts', Cloud
  PROVE  [Capacity!Next]_<<Paying, Debtors, Declared>>
<1>1. UNCHANGED <<Debtors, Declared>>
  <2>1. UNCHANGED <<pc, unwinds, quiet, downError>>
    BY DEF Cloud, ScaleUpApplied, Launch, LaunchEnds, Reclaim, Terminate
  <2> QED BY <2>1 DEF Debtors, Declared, Owes, Watches
<1>2. Paying' \in BOOLEAN /\ Paying \in BOOLEAN BY DEF Paying
<1>3. CASE Paying' /\ ~Paying
  <2>1. Debtors \cup Declared # {} BY <1>1, <1>3, PayingIsAccountedPrime
  <2>2. Capacity!Pay BY <1>1, <1>2, <1>3, <2>1 DEF Capacity!Pay
  <2> QED BY <2>2 DEF Capacity!Next
<1>4. CASE ~Paying'
  <2>1. Capacity!Stop BY <1>1, <1>2, <1>4 DEF Capacity!Stop
  <2> QED BY <2>1 DEF Capacity!Next
<1>5. CASE Paying' /\ Paying
  BY <1>1, <1>2, <1>5
<1> QED BY <1>3, <1>4, <1>5

\* The runner implements the books of paid capacity.
THEOREM CapacityRefinement == Spec => ImplementsPaidCapacity
<1>1. Init => Capacity!Init
  BY DEF Init, Capacity!Init, Paying, Debtors, Declared, Owes, Watches
<1>2. TInv /\ Accounts /\ Accounts' /\ [Next]_vars
        => [Capacity!Next]_<<Paying, Debtors, Declared>>
  <2> SUFFICES ASSUME TInv, Accounts, Accounts', [Next]_vars
               PROVE  [Capacity!Next]_<<Paying, Debtors, Declared>>
    OBVIOUS
  <2>1. ASSUME NEW c \in Controllers,
               Step(c) \/ Start(c) \/ Signal(c) \/ Kill(c)
        PROVE  [Capacity!Next]_<<Paying, Debtors, Declared>>
    BY <2>1, StepEffect, StepMaps DEF TInv
  <2>2. CASE UNCHANGED vars
    BY <2>2 DEF vars, Paying, Debtors, Declared, Owes, Watches
  <2> QED BY <2>1, <2>2, CloudMaps DEF Next, AllOver
<1> QED BY <1>1, <1>2, AccountsHold, PTL DEF Spec, ImplementsPaidCapacity, Capacity!Spec

-----------------------------------------------------------------------------
(* Completed runs *)

\* The worker of c is gone for good.
Gone(c) == ~(phase # "none" /\ vm = worker[c])

\* The run is about to end as completed, or has.
Believes(c) ==
  /\ status[c] = "completed"
  /\ pc[c] \in {"summary", "exit0"} \/ (pc[c] = "list" /\ quiet[c])

\* A completed run believes its worker gone only when it is.
GoneInv == \A c \in Controllers : worker[c] <= vm /\ (Believes(c) => Gone(c))

LEMMA InitGone == Init => GoneInv
<1> SUFFICES ASSUME Init, NEW c \in Controllers
             PROVE  worker[c] <= vm /\ ~Believes(c)
  BY DEF GoneInv
<1>1. worker[c] <= vm BY DEF Init
<1>2. ~Believes(c) BY DEF Init, Believes
<1> QED BY <1>1, <1>2

LEMMA LocalGone ==
  ASSUME GoneInv, NEW c \in Controllers, UNCHANGED <<phase, vm>>,
         \A d \in Controllers \ {c} :
           /\ worker'[d] = worker[d] /\ status'[d] = status[d]
           /\ pc'[d] = pc[d] /\ quiet'[d] = quiet[d],
         worker'[c] <= vm, Believes(c)' => Gone(c)'
  PROVE  GoneInv'
<1> SUFFICES ASSUME NEW d \in Controllers
             PROVE  (worker[d] <= vm /\ (Believes(d) => Gone(d)))'
  BY DEF GoneInv
<1>1. CASE d = c BY <1>1
<1>2. CASE d # c BY <1>2 DEF GoneInv, Believes, Gone
<1> QED BY <1>1, <1>2

\* A step of c that leads to no believing phase, or to no completed status.
LEMMA MoveGone ==
  ASSUME TInv, GoneInv, NEW c \in Controllers,
         UNCHANGED <<phase, vm>>, UNCHANGED worker,
         \E p \in Phases : GoTo(c, p),
         status' = status \/ \E t \in Statuses : Conclude(c, t),
         UNCHANGED quiet,
         Believes(c)' => Believes(c)
  PROVE  GoneInv'
<1>1. \A d \in Controllers \ {c} :
        /\ worker'[d] = worker[d] /\ status'[d] = status[d]
        /\ pc'[d] = pc[d] /\ quiet'[d] = quiet[d]
  BY DEF GoTo, Conclude, TInv, TypeOK
<1>2. worker'[c] <= vm /\ (Believes(c)' => Gone(c)')
  BY DEF GoneInv, Gone
<1> QED BY <1>1, <1>2, LocalGone

LEMMA RaiseGone ==
  ASSUME TInv, GoneInv, NEW c \in Controllers, Raise(c),
         UNCHANGED <<asg, worker, quiet>>
  PROVE  GoneInv'
<1>1. ~Believes(c)' BY DEF Raise, GoTo, Believes, TInv, TypeOK
<1> QED BY <1>1, MoveGone DEF Raise, asg, Phases, Statuses

LEMMA ScaleDownFailsGone ==
  ASSUME TInv, GoneInv, NEW c \in Controllers, ScaleDownFails(c),
         UNCHANGED <<phase, vm>>, UNCHANGED <<worker, quiet>>
  PROVE  GoneInv'
<1>1. ~Believes(c)'
  BY DEF ScaleDownFails, Demoted, Conclude, Believes, TInv, TypeOK
<1>2. \E p \in Phases : GoTo(c, p)
  BY DEF ScaleDownFails, AfterScaleDown, Phases
<1>3. \E t \in Statuses : Conclude(c, t)
  BY DEF ScaleDownFails, Demoted, Statuses, TInv, TypeOK
<1> QED BY <1>1, <1>2, <1>3, MoveGone

LEMMA NextPollGone ==
  ASSUME TInv, GoneInv, NEW c \in Controllers, NextPoll(c),
         UNCHANGED <<asg, worker, quiet>>
  PROVE  GoneInv'
<1>1. CASE polls[c] + 1 = MaxPolls BY <1>1, RaiseGone DEF NextPoll
<1>2. CASE polls[c] + 1 # MaxPolls
  <2>1. GoTo(c, "wait") BY <1>2 DEF NextPoll
  <2>2. ~Believes(c)' BY <2>1 DEF GoTo, Believes, TInv, TypeOK
  <2> QED BY <1>2, <2>1, <2>2, MoveGone DEF NextPoll, asg, Phases
<1> QED BY <1>1, <1>2

LEMMA StepGone ==
  ASSUME TInv, GoneInv, NEW c \in Controllers,
         Step(c) \/ Start(c) \/ Signal(c) \/ Kill(c)
  PROVE  GoneInv'
<1> USE DEF asg
<1>1. CASE \/ Start(c) \/ ScaleUp(c) \/ Kill(c) \/ Signal(c)
           \/ \E r \in {"failed", "preflight_ok", "compute"} : Preflight(c, r)
           \/ \E b \in BOOLEAN : CheckPreLaunchGuard(c, b)
           \/ \E ok \in BOOLEAN : RunRemoteTraining(c, ok)
  <2>1. /\ \E p \in Phases : GoTo(c, p)
        /\ status' = status \/ \E t \in Statuses : Conclude(c, t)
        /\ UNCHANGED <<phase, vm, worker, quiet>>
    BY <1>1
    DEF Start, ScaleUp, Kill, Signal, Preflight, CheckPreLaunchGuard,
        RunRemoteTraining, Phases, Over, Statuses
  <2>2. ~Believes(c)'
    BY <1>1
    DEF Start, ScaleUp, Kill, Signal, Preflight, CheckPreLaunchGuard,
        RunRemoteTraining, Believes, GoTo, Conclude, TInv, TypeOK
  <2> QED BY <2>1, <2>2, MoveGone
<1>2. CASE FindWorker(c)
  <2> USE <1>2 DEF FindWorker, GoTo, TInv, TypeOK
  <2>1. \A d \in Controllers \ {c} :
          /\ worker'[d] = worker[d] /\ status'[d] = status[d]
          /\ pc'[d] = pc[d] /\ quiet'[d] = quiet[d]
    OBVIOUS
  <2>2. worker'[c] <= vm OBVIOUS
  <2>3. ~Believes(c)' BY DEF Believes
  <2> QED BY <2>1, <2>2, <2>3, LocalGone
<1>3. CASE DescribeFails(c) \/ ScaleOutFailed(c) \/ Salvage(c)
  BY <1>3, RaiseGone DEF DescribeFails, ScaleOutFailed, Salvage
<1>4. CASE PollWorker(c) BY <1>4, NextPollGone DEF PollWorker
<1>5. ASSUME NEW ok \in BOOLEAN, NEW r \in {"ok", "broken", "timeout"},
             \/ ScaleUpReply(c, ok) \/ SetupStep(c, ok)
             \/ CollectRemoteArtifacts(c, ok) \/ VerifyTrainingReport(c, ok)
             \/ WaitForSsh(c, r)
      PROVE  GoneInv'
  <2>1. CASE Raise(c)
    BY <1>5, <2>1, RaiseGone
    DEF ScaleUpReply, SetupStep, CollectRemoteArtifacts, VerifyTrainingReport,
        WaitForSsh
  <2>2. CASE NextPoll(c) /\ WaitForSsh(c, r)
    BY <2>2, NextPollGone DEF WaitForSsh
  <2>3. CASE ~Raise(c) /\ ~(NextPoll(c) /\ WaitForSsh(c, r))
    <3>1. /\ \E p \in {"wait", "verify", "modify", "security", "bootstrap",
                       "bundle", "secret", "train"} : GoTo(c, p)
          /\ status' = status \/ \E t \in Statuses : Conclude(c, t)
          /\ UNCHANGED <<phase, vm, worker, quiet>>
      BY <1>5, <2>3
      DEF ScaleUpReply, SetupStep, CollectRemoteArtifacts,
          VerifyTrainingReport, WaitForSsh, AfterSetup, Setup, Statuses
    <3>2. ~Believes(c)' BY <3>1 DEF Believes, GoTo, TInv, TypeOK
    <3>3. \E p \in Phases : GoTo(c, p) BY <3>1 DEF Phases, Setup
    <3> QED BY <3>1, <3>2, <3>3, MoveGone
  <2> QED BY <2>1, <2>2, <2>3
<1>6. ASSUME NEW ok \in BOOLEAN, ReadGroup(c, ok) PROVE GoneInv'
  <2> USE <1>6 DEF ReadGroup, GoTo, TInv, TypeOK
  <2>1. \A d \in Controllers \ {c} :
          /\ worker'[d] = worker[d] /\ status'[d] = status[d]
          /\ pc'[d] = pc[d] /\ quiet'[d] = quiet[d]
    OBVIOUS
  <2>2. worker'[c] <= vm BY DEF GoneInv
  <2>3. Believes(c)' => Gone(c)' BY DEF Believes, Gone
  <2> QED BY <2>1, <2>2, <2>3, LocalGone
<1>7. ASSUME NEW empty \in BOOLEAN, ReadList(c, empty) PROVE GoneInv'
  <2>1. CASE empty /\ quiet[c]
    <3>1. \E p \in Phases : GoTo(c, p)
      BY <1>7, <2>1 DEF ReadList, AfterScaleDown, Phases
    <3>2. Believes(c)' => Believes(c)
      BY <1>7, <2>1 DEF ReadList, Believes
    <3> QED BY <1>7, <2>1, <3>1, <3>2, MoveGone DEF ReadList
  <2>2. CASE ~(empty /\ quiet[c]) /\ polls[c] + 1 = MaxPolls
    BY <1>7, <2>2, ScaleDownFailsGone DEF ReadList, NextDownPoll
  <2>3. CASE ~(empty /\ quiet[c]) /\ polls[c] + 1 # MaxPolls
    <3>1. GoTo(c, "group") /\ status' = status
      BY <1>7, <2>3 DEF ReadList, NextDownPoll
    <3>2. ~Believes(c)' BY <3>1 DEF GoTo, Believes, TInv, TypeOK
    <3> QED BY <1>7, <3>1, <3>2, MoveGone DEF ReadList, Phases
  <2> QED BY <2>1, <2>2, <2>3
<1>8. ASSUME NEW served \in BOOLEAN, NEW ok \in BOOLEAN,
             ModifyDesiredCapacity(c, served, ok)
      PROVE  GoneInv'
  <2>1. CASE ok
    <3>1. GoTo(c, "group") /\ status' = status
      BY <1>8, <2>1 DEF ModifyDesiredCapacity
    <3>2. ~Believes(c)' BY <3>1 DEF GoTo, Believes, TInv, TypeOK
    <3> QED BY <1>8, <3>1, <3>2, MoveGone DEF ModifyDesiredCapacity, Phases
  <2>2. CASE ~ok
    BY <1>8, <2>2, ScaleDownFailsGone DEF ModifyDesiredCapacity
  <2> QED BY <2>1, <2>2
<1>9. CASE Exit(c)
  <2>1. \E p \in Phases : GoTo(c, p)
    BY <1>9 DEF Exit, ExitOf, Phases, Over, Exits
  <2>2. Believes(c)' => Believes(c) BY <1>9 DEF Exit, Believes
  <2> QED BY <1>9, <2>1, <2>2, MoveGone DEF Exit
<1> QED BY <1>1, <1>2, <1>3, <1>4, <1>5, <1>6, <1>7, <1>8, <1>9 DEF Step

LEMMA CloudGone == TInv /\ GoneInv /\ Cloud => GoneInv'
<1> SUFFICES ASSUME TInv, GoneInv, Cloud, NEW c \in Controllers
             PROVE  (worker[c] <= vm /\ (Believes(c) => Gone(c)))'
  BY DEF GoneInv
<1> USE DEF TInv, TypeOK
<1>1. Believes(c)' = Believes(c) /\ worker' = worker
  BY DEF Cloud, ScaleUpApplied, Launch, LaunchEnds, Reclaim, Terminate, Believes
<1>2. \/ vm' = vm /\ (phase' # "none" => phase # "none")
      \/ vm' = vm + 1
  BY DEF Cloud, ScaleUpApplied, Launch, LaunchEnds, Reclaim, Terminate
<1>3. worker[c] \in Nat /\ vm \in Nat /\ worker[c] <= vm
  BY BatchAssumption DEF GoneInv
<1> QED BY <1>1, <1>2, <1>3 DEF GoneInv, Gone

\* A run that exits with code 0 after a training leaves no worker of its own,
\* however many runs scale the same group.
THEOREM CompletedIsReleased == Spec => []CompletedWorkerIsGone
<1>1. TInv /\ GoneInv /\ [Next]_vars => GoneInv'
  <2>1. GoneInv /\ UNCHANGED vars => GoneInv'
    BY DEF GoneInv, Believes, Gone, vars
  <2> QED BY <2>1, StepGone, CloudGone DEF Next, AllOver
<1>2. TInv /\ GoneInv => CompletedWorkerIsGone
  BY DEF GoneInv, Believes, Gone, CompletedWorkerIsGone
<1> QED BY <1>1, <1>2, InitTypes, InitGone, NextTypes, PTL DEF Spec

-----------------------------------------------------------------------------
(* Every run ends: the steps a controller has left *)

\* The most steps of one safe_scale_down and the summary that follows it.
Pass == 2 * MaxPolls + 2

\* Steps left of the scale-down itself and the summary.
DownLeft(c) ==
  CASE pc[c] = "modify" -> Pass
    [] pc[c] = "group" -> 2 * (MaxPolls - polls[c]) + 1
    [] OTHER -> 2 * (MaxPolls - polls[c])

\* Steps left of run() before the finally clause.
TryLeft(c) ==
  CASE pc[c] = "idle" -> 2 * MaxPolls + 14
    [] pc[c] = "guard" -> 2 * MaxPolls + 13
    [] pc[c] = "preflight" -> 2 * MaxPolls + 12
    [] pc[c] = "scaleUp" -> 2 * MaxPolls + 11
    [] pc[c] = "reply" -> 2 * MaxPolls + 10
    [] pc[c] = "wait" -> 2 * (MaxPolls - polls[c]) + 9
    [] pc[c] = "ssh" -> 2 * (MaxPolls - polls[c]) + 8
    [] pc[c] = "security" -> 7
    [] pc[c] = "bootstrap" -> 6
    [] pc[c] = "bundle" -> 5
    [] pc[c] = "secret" -> 4
    [] pc[c] = "train" -> 3
    [] pc[c] = "collect" -> 2
    [] OTHER -> 1

\* The most steps controller c can still take, if no more signals arrive.  A
\* handler that interrupted run() is followed by the finally clause.
StepsLeft(c) ==
  CASE pc[c] \in Over -> 0
    [] pc[c] = "summary" -> 1
    [] ScalingDown(c) -> DownLeft(c) + IF unwinds[c] THEN Pass ELSE 0
    [] OTHER -> TryLeft(c) + Pass

\* What is left is a number, and a run with nothing left is over.
LeftInv ==
  \A c \in Controllers : /\ StepsLeft(c) \in 0 .. 4 * MaxPolls + 16
                         /\ StepsLeft(c) = 0 <=> pc[c] \in Over

\* Each step of a controller is one of those it had left, whatever fails and
\* whatever the others and the cloud do; a signal lets it begin at most two
\* scale-downs again, and nothing else gives it more to do.
StepsRunOut ==
  [][\A c \in Controllers :
       /\ Start(c) \/ Step(c) => StepsLeft(c)' < StepsLeft(c)
       /\ \/ StepsLeft(c)' <= StepsLeft(c)
          \/ Signal(c) /\ StepsLeft(c)' <= 2 * Pass]_vars

LEMMA PassPositive == MaxPolls \in Nat /\ MaxPolls >= 1 /\ Pass \in Nat /\ Pass >= 4
BY BatchAssumption DEF Pass

\* What the two parts are worth, by the polls that are left.
LEMMA LeftRanges ==
  ASSUME TInv, NEW c \in Controllers
  PROVE  /\ MaxPolls - polls[c] \in 1 .. MaxPolls
         /\ DownLeft(c) \in 2 .. Pass
         /\ TryLeft(c) \in 1 .. 2 * MaxPolls + 14
<1> USE PassPositive
<1>1. polls[c] \in 0 .. MaxPolls - 1 BY DEF TInv, TypeOK
<1>2. MaxPolls - polls[c] \in 1 .. MaxPolls BY <1>1
<1>3. DownLeft(c) \in 2 .. Pass BY <1>2 DEF DownLeft, Pass
<1>4. TryLeft(c) \in 1 .. 2 * MaxPolls + 14
  <2>1. CASE pc[c] \in {"wait", "ssh"} BY <1>2, <2>1 DEF TryLeft
  <2>2. CASE pc[c] \notin {"wait", "ssh"} BY <2>2 DEF TryLeft
  <2> QED BY <2>1, <2>2
<1> QED BY <1>2, <1>3, <1>4

\* The parts of a run, told apart.
LEMMA LeftOf ==
  ASSUME NEW c \in Controllers
  PROVE  /\ pc[c] \in Over => StepsLeft(c) = 0
         /\ pc[c] = "summary" => StepsLeft(c) = 1
         /\ ScalingDown(c) /\ unwinds[c] => StepsLeft(c) = DownLeft(c) + Pass
         /\ ScalingDown(c) /\ ~unwinds[c] => StepsLeft(c) = DownLeft(c) + 0
         /\ pc[c] \notin Over \cup {"summary"} /\ ~ScalingDown(c)
              => StepsLeft(c) = TryLeft(c) + Pass
<1> USE DEF StepsLeft, ScalingDown, Over, Exits
<1>1. pc[c] \in Over => StepsLeft(c) = 0 OBVIOUS
<1>2. pc[c] = "summary" => StepsLeft(c) = 1 OBVIOUS
<1>3. ScalingDown(c) /\ unwinds[c] => StepsLeft(c) = DownLeft(c) + Pass OBVIOUS
<1>4. ScalingDown(c) /\ ~unwinds[c] => StepsLeft(c) = DownLeft(c) + 0 OBVIOUS
<1>5. pc[c] \notin Over \cup {"summary"} /\ ~ScalingDown(c)
        => StepsLeft(c) = TryLeft(c) + Pass
  OBVIOUS
<1> QED BY <1>1, <1>2, <1>3, <1>4, <1>5

LEMMA LeftIsBounded == TInv => LeftInv
<1> SUFFICES ASSUME TInv, NEW c \in Controllers
             PROVE  /\ StepsLeft(c) \in 0 .. 4 * MaxPolls + 16
                    /\ StepsLeft(c) = 0 <=> pc[c] \in Over
  BY DEF LeftInv
<1> USE LeftOf, LeftRanges, PassPositive
<1>1. pc[c] \in Phases /\ unwinds[c] \in BOOLEAN BY DEF TInv, TypeOK
<1>2. 2 * Pass = 4 * MaxPolls + 4 BY DEF Pass
<1>3. CASE pc[c] \in Over BY <1>3
<1>4. CASE pc[c] = "summary" BY <1>4 DEF Over, Exits
<1>5. CASE ScalingDown(c)
  <2>1. pc[c] \notin Over BY <1>5 DEF ScalingDown, Over, Exits
  <2> QED BY <1>1, <1>2, <1>5, <2>1
<1>6. CASE pc[c] \notin Over \cup {"summary"} /\ ~ScalingDown(c)
  <2>1. Pass = 2 * MaxPolls + 2 BY DEF Pass
  <2> QED BY <1>6, <2>1
<1> QED BY <1>3, <1>4, <1>5, <1>6

\* Whoever raises has the finally clause left.
LEMMA RaiseLeft ==
  ASSUME TInv, NEW c \in Controllers, InTry(c), Raise(c)
  PROVE  StepsLeft(c)' < StepsLeft(c)
<1>1. pc'[c] = "modify" /\ ~unwinds'[c]
  BY DEF Raise, GoTo, TInv, TypeOK
<1>2. StepsLeft(c)' = Pass
  BY <1>1, PassPositive DEF StepsLeft, DownLeft, ScalingDown, Over, Exits
<1>3. StepsLeft(c) = TryLeft(c) + Pass
  BY LeftOf DEF InTry, Setup, ScalingDown, Over, Exits
<1> QED BY <1>2, <1>3, LeftRanges, PassPositive

\* The end of one safe_scale_down.
LEMMA AfterScaleDownLeft ==
  ASSUME TInv, NEW c \in Controllers, ScalingDown(c), AfterScaleDown(c)
  PROVE  StepsLeft(c)' < StepsLeft(c)
<1> USE LeftOf, LeftRanges, PassPositive DEF AfterScaleDown, GoTo, TInv, TypeOK
<1>1. CASE unwinds[c]
  <2>1. pc'[c] = "modify" /\ ~unwinds'[c] BY <1>1
  <2>2. StepsLeft(c)' = Pass
    BY <2>1 DEF StepsLeft, DownLeft, ScalingDown, Over, Exits
  <2>3. StepsLeft(c) = DownLeft(c) + Pass BY <1>1
  <2> QED BY <2>2, <2>3
<1>2. CASE ~unwinds[c]
  <2>1. pc'[c] = "summary" BY <1>2
  <2>2. StepsLeft(c)' = 1 BY <2>1 DEF StepsLeft, ScalingDown, Over, Exits
  <2>3. StepsLeft(c) = DownLeft(c) + 0 BY <1>2
  <2> QED BY <2>2, <2>3
<1> QED BY <1>1, <1>2

\* A turn of the worker loop takes one poll.
LEMMA NextPollLeft ==
  ASSUME TInv, NEW c \in Controllers, pc[c] \in {"wait", "ssh"}, NextPoll(c)
  PROVE  StepsLeft(c)' < StepsLeft(c)
<1>1. CASE polls[c] + 1 = MaxPolls
  BY <1>1, RaiseLeft DEF NextPoll, InTry
<1>2. CASE polls[c] + 1 # MaxPolls
  <2>1. pc'[c] = "wait" /\ polls'[c] = polls[c] + 1
    BY <1>2 DEF NextPoll, GoTo, TInv, TypeOK
  <2>2. TryLeft(c)' = 2 * (MaxPolls - (polls[c] + 1)) + 9
    BY <2>1 DEF TryLeft
  <2>3. StepsLeft(c)' = TryLeft(c)' + Pass
    BY <2>1 DEF StepsLeft, ScalingDown, Over, Exits, Pass
  <2>4. StepsLeft(c) = TryLeft(c) + Pass
    BY LeftOf DEF ScalingDown, Over, Exits
  <2>5. TryLeft(c) \in {2 * (MaxPolls - polls[c]) + 9,
                        2 * (MaxPolls - polls[c]) + 8}
    BY DEF TryLeft
  <2>6. polls[c] \in Nat BY DEF TInv, TypeOK
  <2> QED BY <2>2, <2>3, <2>4, <2>5, <2>6, PassPositive
<1> QED BY <1>1, <1>2

\* A move within the try block, or into it.
LEMMA MoveLeft ==
  ASSUME TInv, NEW c \in Controllers,
         pc[c] \notin Over \cup {"summary"}, ~ScalingDown(c),
         pc'[c] \notin Over \cup {"summary", "modify", "group", "list"},
         TryLeft(c)' \in Int, TryLeft(c)' < TryLeft(c)
  PROVE  StepsLeft(c)' < StepsLeft(c)
<1>1. StepsLeft(c)' = TryLeft(c)' + Pass
  BY DEF StepsLeft, ScalingDown, Over, Exits, Pass
<1>2. StepsLeft(c) = TryLeft(c) + Pass BY LeftOf
<1> QED BY <1>1, <1>2, LeftRanges, PassPositive

\* Every step of a controller is one of those it had left.
LEMMA StepLeft ==
  ASSUME TInv, NEW c \in Controllers, Start(c) \/ Step(c)
  PROVE  StepsLeft(c)' < StepsLeft(c)
<1> USE DEF GoTo, TInv, TypeOK
<1>0. /\ MaxPolls - polls[c] \in 1 .. MaxPolls
      /\ TryLeft(c) \in 1 .. 2 * MaxPolls + 14
      /\ DownLeft(c) \in 2 .. Pass
  BY LeftRanges
<1>1. CASE Start(c)
  <2>1. pc[c] = "idle" /\ pc'[c] = "guard" BY <1>1 DEF Start
  <2>2. TryLeft(c) = 2 * MaxPolls + 14 /\ TryLeft(c)' = 2 * MaxPolls + 13
    BY <2>1 DEF TryLeft
  <2> QED BY <2>1, <2>2, PassPositive, MoveLeft DEF ScalingDown, Over, Exits
<1>2. ASSUME pc[c] \in {"guard", "preflight"}, pc'[c] = "summary"
      PROVE  StepsLeft(c)' < StepsLeft(c)
  <2>1. StepsLeft(c)' = 1 BY <1>2 DEF StepsLeft, ScalingDown, Over, Exits
  <2>2. StepsLeft(c) = TryLeft(c) + Pass
    BY <1>2, LeftOf DEF ScalingDown, Over, Exits
  <2> QED BY <2>1, <2>2, <1>0, PassPositive
<1>3. ASSUME NEW b \in BOOLEAN, CheckPreLaunchGuard(c, b)
      PROVE  StepsLeft(c)' < StepsLeft(c)
  <2>1. CASE b BY <1>3, <2>1, <1>2 DEF CheckPreLaunchGuard
  <2>2. CASE ~b
    <3>1. pc[c] = "guard" /\ pc'[c] = "preflight"
      BY <1>3, <2>2 DEF CheckPreLaunchGuard
    <3>2. TryLeft(c) = 2 * MaxPolls + 13 /\ TryLeft(c)' = 2 * MaxPolls + 12
      BY <3>1 DEF TryLeft
    <3> QED BY <3>1, <3>2, PassPositive, MoveLeft DEF ScalingDown, Over, Exits
  <2> QED BY <2>1, <2>2
<1>4. ASSUME NEW r \in {"failed", "preflight_ok", "compute"}, Preflight(c, r)
      PROVE  StepsLeft(c)' < StepsLeft(c)
  <2>1. CASE r # "compute" BY <1>4, <2>1, <1>2 DEF Preflight
  <2>2. CASE r = "compute"
    <3>1. pc[c] = "preflight" /\ pc'[c] = "scaleUp"
      BY <1>4, <2>2 DEF Preflight
    <3>2. TryLeft(c) = 2 * MaxPolls + 12 /\ TryLeft(c)' = 2 * MaxPolls + 11
      BY <3>1 DEF TryLeft
    <3> QED BY <3>1, <3>2, PassPositive, MoveLeft DEF ScalingDown, Over, Exits
  <2> QED BY <2>1, <2>2
<1>5. CASE ScaleUp(c)
  <2>1. pc[c] = "scaleUp" /\ pc'[c] = "reply" BY <1>5 DEF ScaleUp
  <2>2. TryLeft(c) = 2 * MaxPolls + 11 /\ TryLeft(c)' = 2 * MaxPolls + 10
    BY <2>1 DEF TryLeft
  <2> QED BY <2>1, <2>2, PassPositive, MoveLeft DEF ScalingDown, Over, Exits
<1>6. ASSUME NEW ok \in BOOLEAN, ScaleUpReply(c, ok)
      PROVE  StepsLeft(c)' < StepsLeft(c)
  <2>1. CASE ok
    <3>1. pc[c] = "reply" /\ pc'[c] = "wait" /\ polls' = polls
      BY <1>6, <2>1 DEF ScaleUpReply
    <3>2. /\ TryLeft(c) = 2 * MaxPolls + 10
          /\ TryLeft(c)' = 2 * (MaxPolls - polls[c]) + 9
      BY <3>1 DEF TryLeft
    <3> QED BY <3>1, <3>2, <1>0, PassPositive, MoveLeft DEF ScalingDown, Over, Exits
  <2>2. CASE ~ok BY <1>6, <2>2, RaiseLeft DEF ScaleUpReply, InTry
  <2> QED BY <2>1, <2>2
<1>7. CASE FindWorker(c)
  <2>1. pc[c] = "wait" /\ pc'[c] = "ssh" /\ polls' = polls
    BY <1>7 DEF FindWorker
  <2>2. /\ TryLeft(c) = 2 * (MaxPolls - polls[c]) + 9
        /\ TryLeft(c)' = 2 * (MaxPolls - polls[c]) + 8
    BY <2>1 DEF TryLeft
  <2> QED BY <2>1, <2>2, <1>0, PassPositive, MoveLeft DEF ScalingDown, Over, Exits
<1>8. CASE DescribeFails(c) \/ ScaleOutFailed(c) \/ Salvage(c)
  BY <1>8, RaiseLeft DEF DescribeFails, ScaleOutFailed, Salvage, InTry
<1>9. CASE PollWorker(c) BY <1>9, NextPollLeft DEF PollWorker
<1>10. ASSUME NEW r \in {"ok", "broken", "timeout"}, WaitForSsh(c, r)
       PROVE  StepsLeft(c)' < StepsLeft(c)
  <2>1. CASE r = "ok"
    <3>1. pc[c] = "ssh" /\ pc'[c] = "security" BY <1>10, <2>1 DEF WaitForSsh
    <3>2. TryLeft(c) = 2 * (MaxPolls - polls[c]) + 8 /\ TryLeft(c)' = 7
      BY <3>1 DEF TryLeft
    <3> QED BY <3>1, <3>2, <1>0, PassPositive, MoveLeft DEF ScalingDown, Over, Exits
  <2>2. CASE r = "broken" BY <1>10, <2>2, RaiseLeft DEF WaitForSsh, InTry
  <2>3. CASE r = "timeout" BY <1>10, <2>3, NextPollLeft DEF WaitForSsh
  <2> QED BY <2>1, <2>2, <2>3
<1>11. ASSUME NEW ok \in BOOLEAN, SetupStep(c, ok)
       PROVE  StepsLeft(c)' < StepsLeft(c)
  <2>1. CASE ok
    <3>1. pc[c] \in Setup /\ pc'[c] = AfterSetup[pc[c]]
      BY <1>11, <2>1 DEF SetupStep
    <3>2. \/ pc[c] = "security" /\ pc'[c] = "bootstrap"
          \/ pc[c] = "bootstrap" /\ pc'[c] = "bundle"
          \/ pc[c] = "bundle" /\ pc'[c] = "secret"
          \/ pc[c] = "secret" /\ pc'[c] = "train"
      BY <3>1 DEF Setup, AfterSetup
    <3>3. TryLeft(c)' \in Int /\ TryLeft(c)' < TryLeft(c)
      BY <3>2 DEF TryLeft
    <3> QED BY <3>2, <3>3, MoveLeft DEF ScalingDown, Over, Exits
  <2>2. CASE ~ok BY <1>11, <2>2, RaiseLeft DEF SetupStep, InTry
  <2> QED BY <2>1, <2>2
<1>12. ASSUME NEW ok \in BOOLEAN, RunRemoteTraining(c, ok)
       PROVE  StepsLeft(c)' < StepsLeft(c)
  <2>1. pc[c] = "train" /\ pc'[c] \in {"collect", "salvage"}
    BY <1>12 DEF RunRemoteTraining
  <2>2. TryLeft(c)' \in Int /\ TryLeft(c)' < TryLeft(c)
    BY <2>1 DEF TryLeft
  <2> QED BY <2>1, <2>2, MoveLeft DEF ScalingDown, Over, Exits
<1>13. ASSUME NEW ok \in BOOLEAN, CollectRemoteArtifacts(c, ok)
       PROVE  StepsLeft(c)' < StepsLeft(c)
  <2>1. CASE ok
    <3>1. pc[c] = "collect" /\ pc'[c] = "verify"
      BY <1>13, <2>1 DEF CollectRemoteArtifacts
    <3>2. TryLeft(c) = 2 /\ TryLeft(c)' = 1 BY <3>1 DEF TryLeft
    <3> QED BY <3>1, <3>2, MoveLeft DEF ScalingDown, Over, Exits
  <2>2. CASE ~ok BY <1>13, <2>2, RaiseLeft DEF CollectRemoteArtifacts, InTry
  <2> QED BY <2>1, <2>2
<1>14. ASSUME NEW ok \in BOOLEAN, VerifyTrainingReport(c, ok)
       PROVE  StepsLeft(c)' < StepsLeft(c)
  <2>1. CASE ok
    <3>1. pc[c] = "verify" /\ pc'[c] = "modify" /\ ~unwinds'[c]
      BY <1>14, <2>1 DEF VerifyTrainingReport
    <3>2. StepsLeft(c)' = Pass
      BY <3>1, PassPositive DEF StepsLeft, DownLeft, ScalingDown, Over, Exits
    <3>3. StepsLeft(c) = TryLeft(c) + Pass
      BY <3>1, LeftOf DEF ScalingDown, Over, Exits
    <3> QED BY <3>2, <3>3, <1>0, PassPositive
  <2>2. CASE ~ok BY <1>14, <2>2, RaiseLeft DEF VerifyTrainingReport, InTry
  <2> QED BY <2>1, <2>2
<1>15. ASSUME ScalingDown(c), pc'[c] \in {"group", "list"},
              UNCHANGED unwinds, DownLeft(c)' \in Int,
              DownLeft(c)' < DownLeft(c)
       PROVE  StepsLeft(c)' < StepsLeft(c)
  <2>1. StepsLeft(c)' = DownLeft(c)' + IF unwinds[c] THEN Pass ELSE 0
    BY <1>15 DEF StepsLeft, ScalingDown, Over, Exits, Pass
  <2>2. StepsLeft(c) = DownLeft(c) + IF unwinds[c] THEN Pass ELSE 0
    BY <1>15, LeftOf
  <2> QED BY <2>1, <2>2, <1>0, <1>15, PassPositive
<1>16. ASSUME NEW ok \in BOOLEAN, ReadGroup(c, ok)
       PROVE  StepsLeft(c)' < StepsLeft(c)
  <2>1. /\ pc[c] = "group" /\ pc'[c] = "list"
        /\ polls' = polls /\ unwinds' = unwinds
    BY <1>16 DEF ReadGroup
  <2>2. /\ DownLeft(c) = 2 * (MaxPolls - polls[c]) + 1
        /\ DownLeft(c)' = 2 * (MaxPolls - polls[c])
    BY <2>1 DEF DownLeft
  <2> QED BY <2>1, <2>2, <1>0, <1>15 DEF ScalingDown
<1>17. ASSUME NEW empty \in BOOLEAN, ReadList(c, empty)
       PROVE  StepsLeft(c)' < StepsLeft(c)
  <2>0. pc[c] = "list" /\ ScalingDown(c) BY <1>17 DEF ReadList, ScalingDown
  <2>1. CASE empty /\ quiet[c]
    BY <1>17, <2>0, <2>1, AfterScaleDownLeft DEF ReadList
  <2>2. CASE ~(empty /\ quiet[c]) /\ polls[c] + 1 = MaxPolls
    BY <1>17, <2>0, <2>2, AfterScaleDownLeft
    DEF ReadList, NextDownPoll, ScaleDownFails
  <2>3. CASE ~(empty /\ quiet[c]) /\ polls[c] + 1 # MaxPolls
    <3>1. /\ pc'[c] = "group" /\ polls'[c] = polls[c] + 1
          /\ unwinds' = unwinds
      BY <1>17, <2>3 DEF ReadList, NextDownPoll
    <3>2. /\ DownLeft(c) = 2 * (MaxPolls - polls[c])
          /\ DownLeft(c)' = 2 * (MaxPolls - (polls[c] + 1)) + 1
      BY <2>0, <3>1 DEF DownLeft
    <3>3. polls[c] \in Nat OBVIOUS
    <3>4. DownLeft(c)' \in Int /\ DownLeft(c)' < DownLeft(c)
      BY <3>2, <3>3, PassPositive
    <3> QED BY <2>0, <3>1, <3>4, <1>15
  <2> QED BY <2>1, <2>2, <2>3
<1>18. ASSUME NEW served \in BOOLEAN, NEW ok \in BOOLEAN,
              ModifyDesiredCapacity(c, served, ok)
       PROVE  StepsLeft(c)' < StepsLeft(c)
  <2>0. pc[c] = "modify" /\ ScalingDown(c)
    BY <1>18 DEF ModifyDesiredCapacity, ScalingDown
  <2>1. CASE ok
    <3>1. pc'[c] = "group" /\ polls'[c] = 0 /\ unwinds' = unwinds
      BY <1>18, <2>1 DEF ModifyDesiredCapacity
    <3>2. DownLeft(c) = Pass /\ DownLeft(c)' = 2 * (MaxPolls - 0) + 1
      BY <2>0, <3>1 DEF DownLeft, Pass
    <3>3. DownLeft(c)' \in Int /\ DownLeft(c)' < DownLeft(c)
      BY <3>2, PassPositive DEF Pass
    <3> QED BY <2>0, <3>1, <3>3, <1>15
  <2>2. CASE ~ok
    BY <1>18, <2>0, <2>2, AfterScaleDownLeft
    DEF ModifyDesiredCapacity, ScaleDownFails
  <2> QED BY <2>1, <2>2
<1>19. CASE Exit(c)
  <2>1. pc[c] = "summary" /\ pc'[c] \in Over
    BY <1>19 DEF Exit, ExitOf, Over, Exits
  <2>2. StepsLeft(c)' = 0 BY <2>1 DEF StepsLeft, ScalingDown, Over, Exits
  <2> QED BY <2>1, <2>2, LeftOf
<1> QED
  BY <1>1, <1>3, <1>4, <1>5, <1>6, <1>7, <1>8, <1>9, <1>10, <1>11, <1>12,
     <1>13, <1>14, <1>16, <1>17, <1>18, <1>19
  DEF Step

\* Nothing that belongs to controller c changes, its request apart.
FrameKept(c) ==
  /\ pc'[c] = pc[c] /\ unwinds'[c] = unwinds[c] /\ polls'[c] = polls[c]
  /\ status'[c] = status[c] /\ downError'[c] = downError[c]

LEMMA OtherLeft ==
  ASSUME NEW c \in Controllers, FrameKept(c)
  PROVE  StepsLeft(c)' = StepsLeft(c)
BY DEF FrameKept, StepsLeft, TryLeft, DownLeft, ScalingDown

\* A step of one controller leaves the frames of the others alone.
LEMMA StepElsewhere ==
  ASSUME TInv, NEW c \in Controllers, NEW d \in Controllers, c # d,
         Step(d) \/ Start(d) \/ Signal(d) \/ Kill(d)
  PROVE  FrameKept(c)
<1> USE DEF FrameKept, Conclude, GoTo, TInv, TypeOK, Raise, NextPoll, NextDownPoll, ScaleDownFails,
            AfterScaleDown
<1>1. CASE Start(d) \/ Signal(d) \/ Kill(d) \/ ScaleUp(d) \/ Exit(d)
           \/ FindWorker(d) \/ DescribeFails(d) \/ ScaleOutFailed(d)
           \/ PollWorker(d) \/ Salvage(d)
  BY <1>1 DEF Start, Signal, Kill, ScaleUp, Exit, FindWorker, DescribeFails,
              ScaleOutFailed, PollWorker, Salvage
<1>2. ASSUME NEW ok \in BOOLEAN,
             \/ CheckPreLaunchGuard(d, ok) \/ ScaleUpReply(d, ok)
             \/ SetupStep(d, ok) \/ RunRemoteTraining(d, ok)
             \/ CollectRemoteArtifacts(d, ok) \/ VerifyTrainingReport(d, ok)
      PROVE  FrameKept(c)
  BY <1>2 DEF CheckPreLaunchGuard, ScaleUpReply, SetupStep, RunRemoteTraining,
              CollectRemoteArtifacts, VerifyTrainingReport
<1>3. ASSUME NEW ok \in BOOLEAN, ReadGroup(d, ok) \/ ReadList(d, ok)
      PROVE  FrameKept(c)
  BY <1>3 DEF ReadGroup, ReadList
<1>4. ASSUME NEW r \in {"failed", "preflight_ok", "compute"}, Preflight(d, r)
      PROVE  FrameKept(c)
  BY <1>4 DEF Preflight
<1>5. ASSUME NEW r \in {"ok", "broken", "timeout"}, WaitForSsh(d, r)
      PROVE  FrameKept(c)
  BY <1>5 DEF WaitForSsh
<1>6. ASSUME NEW served \in BOOLEAN, NEW ok \in BOOLEAN,
             ModifyDesiredCapacity(d, served, ok)
      PROVE  FrameKept(c)
  BY <1>6 DEF ModifyDesiredCapacity
<1> QED BY <1>1, <1>2, <1>3, <1>4, <1>5, <1>6 DEF Step

LEMMA CloudKeepsFrames ==
  ASSUME NEW c \in Controllers, Cloud \/ UNCHANGED vars
  PROVE  FrameKept(c)
BY DEF FrameKept, Cloud, ScaleUpApplied, Launch, LaunchEnds, Reclaim,
       Terminate, vars

LEMMA NextLeft ==
  ASSUME TInv, TInv', [Next]_vars, NEW c \in Controllers
  PROVE  \/ StepsLeft(c)' <= StepsLeft(c)
         \/ Signal(c) /\ StepsLeft(c)' <= 2 * Pass
<1>1. StepsLeft(c) \in Nat BY LeftIsBounded DEF LeftInv
<1>2. StepsLeft(c)' \in Nat
  <2>1. LeftInv' BY LeftIsBounded, PTL
  <2> QED BY <2>1 DEF LeftInv
<1>3. CASE Start(c) \/ Step(c) BY <1>1, <1>2, <1>3, StepLeft
<1>4. CASE Kill(c)
  <2>1. pc'[c] \in Over BY <1>4 DEF Kill, GoTo, TInv, TypeOK, Over
  <2>2. StepsLeft(c)' = 0 BY <2>1 DEF StepsLeft, ScalingDown, Over, Exits
  <2> QED BY <1>1, <2>2
<1>5. CASE Signal(c)
  <2>1. pc'[c] = "modify" BY <1>5 DEF Signal, GoTo, TInv, TypeOK
  <2>2. StepsLeft(c)' \in {Pass, Pass + Pass}
    BY <2>1, PassPositive DEF StepsLeft, DownLeft, ScalingDown, Over, Exits
  <2> QED BY <1>5, <2>2, PassPositive
<1>6. ASSUME NEW d \in Controllers, d # c,
             Step(d) \/ Start(d) \/ Signal(d) \/ Kill(d)
      PROVE  StepsLeft(c)' <= StepsLeft(c)
  BY <1>1, <1>6, StepElsewhere, OtherLeft
<1>7. CASE Cloud \/ UNCHANGED vars
  <2>1. FrameKept(c) BY <1>7, CloudKeepsFrames
  <2> QED BY <1>1, <2>1, OtherLeft
<1> QED BY <1>3, <1>4, <1>5, <1>6, <1>7 DEF Next, AllOver

\* Every run ends: a controller takes at most 4 * MaxPolls + 16 steps, and at
\* most 4 * MaxPolls + 4 more for every signal it gets.
THEOREM RunsAreFinite == Spec => []LeftInv /\ StepsRunOut
<1>1. TInv /\ TInv' /\ [Next]_vars
        => [\A c \in Controllers :
              /\ Start(c) \/ Step(c) => StepsLeft(c)' < StepsLeft(c)
              /\ \/ StepsLeft(c)' <= StepsLeft(c)
                 \/ Signal(c) /\ StepsLeft(c)' <= 2 * Pass]_vars
  BY StepLeft, NextLeft
<1> QED BY <1>1, LeftIsBounded, InitTypes, NextTypes, PTL DEF Spec, StepsRunOut

-----------------------------------------------------------------------------
(* Exit codes *)

Failures == {"completed_scale_down_failed", "failed", "signal"}

\* A scale-down error is on record only where it can have happened, and the
\* statuses that exit with 0 or 4 do not survive it.
ErrorInv ==
  \A c \in Controllers :
    /\ ScalingDown(c) => status[c] \in {"completed"} \cup Failures
    /\ downError[c] => /\ status[c] \in Failures
                       /\ ScalingDown(c) \/ pc[c] \in {"summary"} \cup Over

\* The exit code is the one of the status.
CodeInv ==
  \A c \in Controllers : pc[c] \in Exits => pc[c] = ExitOf(status[c])

\* Exit code 3 is a completed training whose scale-down failed.
DemotedInv ==
  \A c \in Controllers :
    status[c] = "completed_scale_down_failed" => downError[c]

\* When every run that was started has exited with 0, or with 4 because the
\* launch guard stopped it, the group costs nothing: an operator who reads
\* exit codes alone misses no leak.
CleanExitsCostNothing ==
  (\A c \in Controllers : pc[c] \in {"idle", "exit0", "exit4"}) => ~Paying

\* Exit code 0 comes without a scale-down error, exit code 3 with one.
ExitCodesTellErrors ==
  \A c \in Controllers : /\ pc[c] = "exit0" => ~downError[c]
                         /\ pc[c] = "exit3" => downError[c]

ExitInv == ErrorInv /\ CodeInv /\ DemotedInv

\* What ExitInv says of controller c.
ExitOk(c) ==
  /\ ScalingDown(c) => status[c] \in {"completed"} \cup Failures
  /\ downError[c] => /\ status[c] \in Failures
                     /\ ScalingDown(c) \/ pc[c] \in {"summary"} \cup Over
  /\ pc[c] \in Exits => pc[c] = ExitOf(status[c])
  /\ status[c] = "completed_scale_down_failed" => downError[c]

LEMMA ExitInvIsLocal == ExitInv <=> \A c \in Controllers : ExitOk(c)
BY DEF ExitInv, ErrorInv, CodeInv, DemotedInv, ExitOk

LEMMA InitExit == Init => ExitInv
<1> SUFFICES ASSUME Init, NEW c \in Controllers PROVE ExitOk(c)
  BY ExitInvIsLocal
<1> QED BY DEF Init, ExitOk, ScalingDown, Exits

\* A frame that is kept keeps its books.
LEMMA KeptExit ==
  ASSUME NEW c \in Controllers, ExitOk(c), FrameKept(c)
  PROVE  ExitOk(c)'
BY DEF ExitOk, FrameKept, ScalingDown, ExitOf

LEMMA RaiseExit ==
  ASSUME TInv, NEW c \in Controllers, ExitOk(c), InTry(c), Raise(c),
         UNCHANGED downError
  PROVE  ExitOk(c)'
<1>1. pc'[c] = "modify" /\ status'[c] = "failed"
  BY DEF Raise, GoTo, Conclude, TInv, TypeOK
<1>2. ~downError'[c]
  BY DEF ExitOk, InTry, ScalingDown, Setup, Over, Exits
<1> QED BY <1>1, <1>2 DEF ExitOk, ScalingDown, Failures, Exits

LEMMA NextPollExit ==
  ASSUME TInv, NEW c \in Controllers, ExitOk(c), pc[c] \in {"wait", "ssh"},
         NextPoll(c), UNCHANGED downError
  PROVE  ExitOk(c)'
<1>1. CASE polls[c] + 1 = MaxPolls BY <1>1, RaiseExit DEF NextPoll, InTry
<1>2. CASE polls[c] + 1 # MaxPolls
  <2>1. pc'[c] = "wait" /\ status' = status
    BY <1>2 DEF NextPoll, GoTo, TInv, TypeOK
  <2> QED BY <2>1 DEF ExitOk, ScalingDown, Over, Exits
<1> QED BY <1>1, <1>2

\* The end of a safe_scale_down that keeps the status or demotes it.
LEMMA ScaleDownExit ==
  ASSUME TInv, NEW c \in Controllers, ExitOk(c), ScalingDown(c),
         AfterScaleDown(c),
         \/ UNCHANGED <<status, downError>>
         \/ Conclude(c, Demoted(status[c])) /\ downError'[c] = TRUE
  PROVE  ExitOk(c)'
<1>1. pc'[c] \in {"modify", "summary"}
  BY DEF AfterScaleDown, GoTo, TInv, TypeOK
<1>2. CASE UNCHANGED <<status, downError>>
  BY <1>1, <1>2 DEF ExitOk, ScalingDown, Exits, Failures
<1>3. CASE Conclude(c, Demoted(status[c])) /\ downError'[c] = TRUE
  <2>1. status'[c] = Demoted(status[c]) BY <1>3 DEF Conclude, TInv, TypeOK
  <2>2. status'[c] \in Failures BY <2>1 DEF Demoted, ExitOk, Failures
  <2> QED BY <1>1, <1>3, <2>2 DEF ExitOk, ScalingDown, Exits
<1> QED BY <1>2, <1>3

LEMMA StepExit ==
  ASSUME TInv, NEW c \in Controllers, ExitOk(c),
         Step(c) \/ Start(c) \/ Signal(c) \/ Kill(c)
  PROVE  ExitOk(c)'
<1> USE DEF GoTo, Conclude, TInv, TypeOK
<1>0. CASE Kill(c)
  <2>1. pc'[c] = "killed" /\ UNCHANGED <<status, downError>> BY <1>0 DEF Kill
  <2> QED BY <2>1 DEF ExitOk, ScalingDown, Over, Exits
<1>1. CASE Start(c) \/ ScaleUp(c) \/ FindWorker(c)
  <2>1. /\ pc[c] \in {"idle", "scaleUp", "wait"}
        /\ pc'[c] \in {"guard", "reply", "ssh"}
        /\ UNCHANGED <<status, downError>>
    BY <1>1 DEF Start, ScaleUp, FindWorker
  <2> QED BY <2>1 DEF ExitOk, ScalingDown, Over, Exits
<1>2. CASE Signal(c)
  <2>1. pc'[c] = "modify" /\ status'[c] = "signal" /\ downError' = downError
    BY <1>2 DEF Signal
  <2> QED BY <2>1 DEF ExitOk, ScalingDown, Failures, Exits
<1>3. CASE DescribeFails(c) \/ ScaleOutFailed(c) \/ Salvage(c)
  BY <1>3, RaiseExit DEF DescribeFails, ScaleOutFailed, Salvage, InTry
<1>4. CASE PollWorker(c) BY <1>4, NextPollExit DEF PollWorker
<1>5. ASSUME NEW b \in BOOLEAN, CheckPreLaunchGuard(c, b) PROVE ExitOk(c)'
  <2>1. /\ pc[c] = "guard" /\ pc'[c] \in {"summary", "preflight"}
        /\ status'[c] \in {status[c], "guarded"}
        /\ downError' = downError
    BY <1>5 DEF CheckPreLaunchGuard
  <2>2. ~downError[c] BY <2>1 DEF ExitOk, ScalingDown, Over, Exits
  <2> QED BY <2>1, <2>2 DEF ExitOk, ScalingDown, Exits
<1>6. ASSUME NEW r \in {"failed", "preflight_ok", "compute"}, Preflight(c, r)
      PROVE  ExitOk(c)'
  <2>1. /\ pc[c] = "preflight" /\ pc'[c] \in {"summary", "scaleUp"}
        /\ status'[c] \in {status[c], "failed", "preflight_ok"}
        /\ downError' = downError
    BY <1>6 DEF Preflight
  <2>2. ~downError[c] BY <2>1 DEF ExitOk, ScalingDown, Over, Exits
  <2> QED BY <2>1, <2>2 DEF ExitOk, ScalingDown, Exits
<1>7. ASSUME NEW ok \in BOOLEAN,
             \/ ScaleUpReply(c, ok) \/ SetupStep(c, ok)
             \/ CollectRemoteArtifacts(c, ok) \/ RunRemoteTraining(c, ok)
      PROVE  ExitOk(c)'
  <2>1. InTry(c)
    BY <1>7 DEF ScaleUpReply, SetupStep, CollectRemoteArtifacts,
                RunRemoteTraining, InTry
  <2>2. CASE Raise(c)
    BY <1>7, <2>1, <2>2, RaiseExit
    DEF ScaleUpReply, SetupStep, CollectRemoteArtifacts, RunRemoteTraining
  <2>3. CASE ~Raise(c)
    <3>1. /\ pc'[c] \in {"wait", "bootstrap", "bundle", "secret", "train",
                         "collect", "salvage", "verify"}
          /\ UNCHANGED <<status, downError>>
      BY <1>7, <2>3
      DEF ScaleUpReply, SetupStep, CollectRemoteArtifacts, RunRemoteTraining,
          AfterSetup, Setup
    <3>2. ~downError[c] BY <2>1 DEF ExitOk, InTry, Setup, ScalingDown, Over, Exits
    <3> QED BY <3>1, <3>2 DEF ExitOk, ScalingDown, Exits
  <2> QED BY <2>2, <2>3
<1>8. ASSUME NEW r \in {"ok", "broken", "timeout"}, WaitForSsh(c, r)
      PROVE  ExitOk(c)'
  <2>1. CASE r = "ok"
    <3>1. /\ pc[c] = "ssh" /\ pc'[c] = "security"
          /\ UNCHANGED <<status, downError>>
      BY <1>8, <2>1 DEF WaitForSsh
    <3> QED BY <3>1 DEF ExitOk, ScalingDown, Over, Exits
  <2>2. CASE r = "broken" BY <1>8, <2>2, RaiseExit DEF WaitForSsh, InTry
  <2>3. CASE r = "timeout" BY <1>8, <2>3, NextPollExit DEF WaitForSsh
  <2> QED BY <2>1, <2>2, <2>3
<1>9. ASSUME NEW ok \in BOOLEAN, VerifyTrainingReport(c, ok)
      PROVE  ExitOk(c)'
  <2>1. CASE ok
    <3>1. /\ pc[c] = "verify" /\ pc'[c] = "modify"
          /\ status'[c] = "completed" /\ downError' = downError
      BY <1>9, <2>1 DEF VerifyTrainingReport
    <3> QED BY <3>1 DEF ExitOk, ScalingDown, Over, Exits
  <2>2. CASE ~ok BY <1>9, <2>2, RaiseExit DEF VerifyTrainingReport, InTry
  <2> QED BY <2>1, <2>2
<1>10. ASSUME ScalingDown(c), pc'[c] \in {"group", "list"},
              UNCHANGED <<status, downError>>
       PROVE  ExitOk(c)'
  BY <1>10 DEF ExitOk, ScalingDown, Exits
<1>11. ASSUME NEW ok \in BOOLEAN, ReadGroup(c, ok) PROVE ExitOk(c)'
  <2>1. /\ ScalingDown(c) /\ pc'[c] = "list"
        /\ UNCHANGED <<status, downError>>
    BY <1>11 DEF ReadGroup, ScalingDown
  <2> QED BY <2>1, <1>10
<1>12. ASSUME NEW empty \in BOOLEAN, ReadList(c, empty) PROVE ExitOk(c)'
  <2>0. ScalingDown(c) BY <1>12 DEF ReadList, ScalingDown
  <2>1. CASE empty /\ quiet[c]
    BY <1>12, <2>0, <2>1, ScaleDownExit DEF ReadList
  <2>2. CASE ~(empty /\ quiet[c]) /\ polls[c] + 1 = MaxPolls
    BY <1>12, <2>0, <2>2, ScaleDownExit
    DEF ReadList, NextDownPoll, ScaleDownFails
  <2>3. CASE ~(empty /\ quiet[c]) /\ polls[c] + 1 # MaxPolls
    <3>1. pc'[c] = "group" /\ UNCHANGED <<status, downError>>
      BY <1>12, <2>3 DEF ReadList, NextDownPoll
    <3> QED BY <2>0, <3>1, <1>10
  <2> QED BY <2>1, <2>2, <2>3
<1>13. ASSUME NEW served \in BOOLEAN, NEW ok \in BOOLEAN,
              ModifyDesiredCapacity(c, served, ok)
       PROVE  ExitOk(c)'
  <2>0. ScalingDown(c) BY <1>13 DEF ModifyDesiredCapacity, ScalingDown
  <2>1. CASE ok
    <3>1. pc'[c] = "group" /\ UNCHANGED <<status, downError>>
      BY <1>13, <2>1 DEF ModifyDesiredCapacity
    <3> QED BY <2>0, <3>1, <1>10
  <2>2. CASE ~ok
    BY <1>13, <2>0, <2>2, ScaleDownExit
    DEF ModifyDesiredCapacity, ScaleDownFails
  <2> QED BY <2>1, <2>2
<1>14. CASE Exit(c)
  <2>1. /\ pc[c] = "summary" /\ pc'[c] = ExitOf(status[c])
        /\ UNCHANGED <<status, downError>>
    BY <1>14 DEF Exit
  <2>2. ExitOf(status[c]) \in Exits BY DEF ExitOf, Exits
  <2>3. ExitOf(status[c])' = ExitOf(status[c]) BY <2>1 DEF ExitOf
  <2>4. pc'[c] \in Over /\ ~ScalingDown(c)'
    BY <2>1, <2>2 DEF ScalingDown, Over, Exits
  <2> QED BY <2>1, <2>3, <2>4 DEF ExitOk
<1> QED
  BY <1>0, <1>1, <1>2, <1>3, <1>4, <1>5, <1>6, <1>7, <1>8, <1>9, <1>11,
     <1>12, <1>13, <1>14
  DEF Step

LEMMA NextExit == TInv /\ ExitInv /\ [Next]_vars => ExitInv'
<1> SUFFICES ASSUME TInv, \A c \in Controllers : ExitOk(c), [Next]_vars,
                    NEW c \in Controllers
             PROVE  ExitOk(c)'
  BY ExitInvIsLocal DEF ExitInv, ErrorInv, CodeInv, DemotedInv, ExitOk
<1>1. CASE Step(c) \/ Start(c) \/ Signal(c) \/ Kill(c) BY <1>1, StepExit
<1>2. ASSUME NEW d \in Controllers, d # c,
             Step(d) \/ Start(d) \/ Signal(d) \/ Kill(d)
      PROVE  ExitOk(c)'
  BY <1>2, StepElsewhere, KeptExit
<1>3. CASE Cloud \/ UNCHANGED vars BY <1>3, CloudKeepsFrames, KeptExit
<1> QED BY <1>1, <1>2, <1>3 DEF Next, AllOver

LEMMA ExitsHold == Spec => [](TInv /\ Accounts /\ ExitInv)
<1>1. TInv /\ Accounts /\ ExitInv /\ [Next]_vars => ExitInv' BY NextExit
<1> QED BY <1>1, AccountsHold, InitExit, PTL DEF Spec

\* Exit codes 0 and 3 tell whether the scale-down failed.
THEOREM ExitCodesAreTrue == Spec => []ExitCodesTellErrors
<1>1. TInv /\ Accounts /\ ExitInv => ExitCodesTellErrors
  <2> SUFFICES ASSUME ExitInv, NEW c \in Controllers
               PROVE  /\ pc[c] = "exit0" => ~downError[c]
                      /\ pc[c] = "exit3" => downError[c]
    BY DEF ExitCodesTellErrors
  <2>1. ExitOk(c) BY ExitInvIsLocal
  <2>2. CASE pc[c] = "exit0"
    <3>1. ExitOf(status[c]) = "exit0" BY <2>1, <2>2 DEF ExitOk, Exits
    <3>2. status[c] \notin Failures BY <3>1 DEF ExitOf, Failures
    <3> QED BY <2>1, <2>2, <3>2 DEF ExitOk
  <2>3. CASE pc[c] = "exit3"
    <3>1. ExitOf(status[c]) = "exit3" BY <2>1, <2>3 DEF ExitOk, Exits
    <3>2. status[c] = "completed_scale_down_failed" BY <3>1 DEF ExitOf
    <3> QED BY <2>1, <2>3, <3>2 DEF ExitOk
  <2> QED BY <2>2, <2>3
<1> QED BY <1>1, ExitsHold, PTL

\* An operator who only reads exit codes misses no leak: if no run exits with
\* anything but 0 and 4, the group costs nothing.
THEOREM CleanExitsAreFree == Spec => []CleanExitsCostNothing
<1>1. TInv /\ Accounts /\ ExitInv => CleanExitsCostNothing
  <2> SUFFICES ASSUME TInv, Accounts, ExitInv, Paying,
                      \A c \in Controllers : pc[c] \in {"idle", "exit0", "exit4"}
               PROVE  FALSE
    BY DEF CleanExitsCostNothing
  <2>1. PICK c \in Controllers : IsDebtor(c) \/ IsDeclared(c)
    BY OwerIsAccountable DEF Paying, Accounts
  <2>2. pc[c] \in {"idle", "exit0", "exit4"} /\ ExitOk(c) BY ExitInvIsLocal
  <2>3. ~IsDebtor(c)
    BY <2>2 DEF TInv, FrameInv, IsDebtor, Owes, Watches, InTry, ScalingDown,
                Setup
  <2>4. downError[c] BY <2>1, <2>2, <2>3 DEF IsDeclared
  <2>5. status[c] \in Failures /\ pc[c] \in Exits /\ pc[c] = ExitOf(status[c])
    BY <2>2, <2>4 DEF ExitOk, ScalingDown, Over, Exits
  <2>6. ExitOf(status[c]) \notin {"exit0", "exit4"}
    BY <2>5 DEF ExitOf, Failures
  <2> QED BY <2>2, <2>5, <2>6 DEF Exits
<1> QED BY <1>1, ExitsHold, PTL
=============================================================================
