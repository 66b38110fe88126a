-------------------------- MODULE SimulatorHarness --------------------------
(***************************************************************************)
(* scripts/screeps_rl_simulator_harness.py: a run evaluates its variants   *)
(* on private servers of its own.  Worker w of a run takes the variants    *)
(* w, w + W, w + 2W, ... one after the other; for each it picks a pair of  *)
(* host ports, brings up a Compose stack, plays, and tears the stack down. *)
(* An attempt that died of a broken pipe is repeated under another run id, *)
(* hence in another Compose project and from another base port.            *)
(*                                                                         *)
(* Runs share the Docker daemon and the ports of the host, and nothing     *)
(* tells one from another but the names of its containers.  A run may be   *)
(* killed; what it leaves up stays up, and a later run may have its id.    *)
(***************************************************************************)
EXTENDS Integers, Sequences, TLC

CONSTANTS
  Runs,         \* invocations of run_simulator
  RunId,        \* RunId[r]: the dash-separated tokens of its --run-id
  Workers,      \* Workers[r]: min(--workers, number of variants)
  Variants,     \* Variants[r]: how many variants it evaluates
  Base,         \* Base[r]: --host-port-start, as the index of a port pair
  Override,     \* runs started with --allow-unsafe-scale
  WorkerToken,  \* WorkerToken[w]: the digits f"{w:02d}" in a container name
  ScaleMin,     \* RUN_RESOURCE_GUARD_MIN_WORKERS
  MaxRetries,   \* RUN_BROKEN_PIPE_MAX_RETRIES
  Scans,        \* RUN_PORT_SCAN_ATTEMPTS
  MaxPair,      \* index of the last pair of host ports, bound
  MaxFaults     \* failures of Docker or of a server and kills, bound

Attempts == 0 .. MaxRetries

Threads == {t \in Runs \X DOMAIN WorkerToken : t[2] < Workers[t[1]]}

Rows == UNION {{r} \X (0 .. Variants[r] - 1) : r \in Runs}

(* the run id an attempt uses *)
AttemptId(r, a) ==
  IF a = 0 THEN RunId[r] ELSE RunId[r] \o <<"bp", "retry", ToString(a)>>

AttemptIds == {AttemptId(r, a) : r \in Runs, a \in Attempts}

(* The Compose projects: one per worker and attempt id, used by the        *)
(* variants of the worker in turn.                                         *)
Projects == AttemptIds \X DOMAIN WorkerToken

Pairs == 0 .. MaxPair

HarnessAssumption ==
  /\ Workers \in [Runs -> Nat \ {0}]
  /\ Variants \in [Runs -> Nat \ {0}]
  /\ Base \in [Runs -> Nat]
  /\ \A r \in Runs : Workers[r] <= Variants[r]
  /\ AttemptIds \subseteq Seq(STRING)
  /\ \A r \in Runs : \A w \in 0 .. Workers[r] - 1 : w \in DOMAIN WorkerToken
  /\ DOMAIN WorkerToken \subseteq Nat
  /\ \A w \in DOMAIN WorkerToken : WorkerToken[w] \in STRING
  /\ \A v, w \in DOMAIN WorkerToken : WorkerToken[v] = WorkerToken[w] => v = w
  /\ MaxRetries \in Nat /\ Scans \in Nat /\ MaxPair \in Nat /\ MaxFaults \in Nat

(* No attempt id continues another with a token that reads as a worker     *)
(* number, and attempts of different ids, or different attempts, differ.   *)
IdsApart ==
  /\ \A x, y \in AttemptIds, w \in DOMAIN WorkerToken :
       ~ \E n \in 1 .. Len(y) : SubSeq(y, 1, n) = Append(x, WorkerToken[w])
  /\ \A q, r \in Runs, a, b \in Attempts :
       AttemptId(q, a) = AttemptId(r, b) => RunId[q] = RunId[r] /\ a = b

ASSUME HarnessAssumed == HarnessAssumption /\ IdsApart

Absent == -1
Portless == -2

NoWorld == <<>>
Worlds == {NoWorld} \cup {<<x[1], x[2], a>> : x \in Rows, a \in Attempts}

VARIABLES
  phase,    \* phase[r]: where run r is
  pc,       \* pc[t]: what worker thread t does next
  item,     \* item[t]: index of the variant it evaluates
  attempt,  \* attempt[t]: retries of this variant so far
  port,     \* port[t]: the pair of host ports selected
  result,   \* result[t]: what is wrong with the attempt so far
  seen,     \* seen[t]: the world whose ticks it logged
  row,      \* row[x]: the row of a variant in the run's result
  rowSeen,  \* rowSeen[x]: the world the row reports
  stack,    \* stack[p]: the pair project p publishes, if it is up
  world,    \* world[p]: who set up the world its server runs
  excused,  \* projects up because a tear-down failed or the run was killed
  faults    \* failures so far

local == <<item, attempt, port, result, seen, row, rowSeen>>
docker == <<stack, world, excused>>
vars == <<phase, pc, local, docker, faults>>

(* From find_compose_command on the finally clause tears the stack down.   *)
Composed == {"reset", "up", "prepare", "play", "down"}

Steps == Composed \cup {"idle", "select", "preflight", "judge", "sweep", "finished"}

TypeOK ==
  /\ phase \in [Runs -> {"new", "running", "refused", "done", "killed"}]
  /\ pc \in [Threads -> Steps]
  /\ item \in [Threads -> Nat]
  /\ \A t \in Threads : pc[t] \notin {"idle", "finished"} => <<t[1], item[t]>> \in Rows
  /\ attempt \in [Threads -> Attempts]
  /\ port \in [Threads -> Pairs \cup {Absent}]
  /\ result \in [Threads -> {"ok", "failed", "broken pipe"}]
  /\ seen \in [Threads -> Worlds]
  /\ row \in [Rows -> {"none", "ok", "failed"}]
  /\ rowSeen \in [Rows -> Worlds]
  /\ stack \in [Projects -> Pairs \cup {Absent, Portless}]
  /\ world \in [Projects -> Worlds]
  /\ excused \subseteq Projects
  /\ faults \in 0 .. MaxFaults

Init ==
  /\ phase = [r \in Runs |-> "new"]
  /\ pc = [t \in Threads |-> "idle"]
  /\ item = [t \in Threads |-> t[2]]
  /\ attempt = [t \in Threads |-> 0]
  /\ port = [t \in Threads |-> Absent]
  /\ result = [t \in Threads |-> "ok"]
  /\ seen = [t \in Threads |-> NoWorld]
  /\ row = [x \in Rows |-> "none"]
  /\ rowSeen = [x \in Rows |-> NoWorld]
  /\ stack = [p \in Projects |-> Absent]
  /\ world = [p \in Projects |-> NoWorld]
  /\ excused = {}
  /\ faults = 0

-----------------------------------------------------------------------------

ThreadsOf(r) == {t \in Threads : t[1] = r}

Project(t) == <<AttemptId(t[1], attempt[t]), t[2]>>

Present == {p \in Projects : stack[p] # Absent}

Bound == {stack[p] : p \in Present} \cap Pairs

ContainerName(p) == Append(p[1], WorkerToken[p[2]])

\* Any container whose name starts with the id.
MatchingPrefix(id, workers) ==
  {p \in Projects : \E n \in 1 .. Len(ContainerName(p)) :
     SubSeq(ContainerName(p), 1, n) = id}

(* _matching_run_worker_container_names: the id, then a worker number.     *)
Matching(id, workers) ==
  {p \in Projects : \E n \in 1 .. Len(ContainerName(p)), w \in workers :
     SubSeq(ContainerName(p), 1, n) = Append(id, WorkerToken[w])}

(* docker rm -f and docker compose down -v                                 *)
Remove(gone) ==
  /\ stack' = [p \in Projects |-> IF p \in gone THEN Absent ELSE stack[p]]
  /\ world' = [p \in Projects |-> IF p \in gone THEN NoWorld ELSE world[p]]
  /\ excused' = excused \ gone

(* cleanup_exact_run_worker_containers never raises.                       *)
CleanupExact(id, workers) ==
  \/ Remove(Matching(id, workers)) /\ UNCHANGED faults
  \/ faults < MaxFaults /\ faults' = faults + 1 /\ UNCHANGED docker

Fault == faults < MaxFaults /\ faults' = faults + 1

IsScaleRun(r) == Workers[r] >= ScaleMin

(* No other run in progress has the id: the caller's duty, the harness     *)
(* makes the ids it chooses itself from the clock.                         *)
IdIsFree(r) == \A q \in Runs : RunId[q] = RunId[r] => phase[q] # "running"

(* build_resource_guard_decision on a snapshot of docker ps; the workers   *)
(* start after it.                                                         *)
Clear(r) ==
  /\ phase[r] = "new" /\ IdIsFree(r)
  /\ IsScaleRun(r) /\ Present # {} => r \in Override
  /\ phase' = [phase EXCEPT ![r] = "running"]
  /\ pc' = [t \in Threads |-> IF t[1] = r THEN "select" ELSE pc[t]]
  /\ UNCHANGED <<local, docker, faults>>

(* Containers are up, memory is short or STEAM_KEY is missing.             *)
Refuse(r) ==
  /\ phase[r] = "new" /\ IdIsFree(r)
  /\ phase' = [phase EXCEPT ![r] = "refused"]
  /\ CleanupExact(RunId[r], DOMAIN WorkerToken)
  /\ UNCHANGED <<pc, local>>

(* run_simulator writes the scorecard and the summary.                     *)
Collect(r) ==
  /\ phase[r] = "running"
  /\ \A t \in ThreadsOf(r) : pc[t] = "finished"
  /\ phase' = [phase EXCEPT ![r] = "done"]
  /\ UNCHANGED <<pc, local, docker, faults>>

(* What its threads had in memory, rows included, is gone.                 *)
Kill(r) ==
  LET Forget(f, v) == [t \in Threads |-> IF t[1] = r THEN v ELSE f[t]] IN
  /\ Fault
  /\ phase[r] = "running"
  /\ phase' = [phase EXCEPT ![r] = "killed"]
  /\ pc' = Forget(pc, "finished")
  /\ item' = Forget(item, 0)
  /\ attempt' = Forget(attempt, 0)
  /\ port' = Forget(port, Absent)
  /\ result' = Forget(result, "ok")
  /\ seen' = Forget(seen, NoWorld)
  /\ row' = [x \in Rows |-> IF x[1] = r THEN "none" ELSE row[x]]
  /\ rowSeen' = [x \in Rows |-> IF x[1] = r THEN NoWorld ELSE rowSeen[x]]
  /\ excused' = excused \cup ({Project(t) : t \in ThreadsOf(r)} \cap Present)
  /\ UNCHANGED <<stack, world>>

-----------------------------------------------------------------------------
(* A worker thread: worker_loop and _run_variant.                          *)

At(t, p) == pc[t] = p /\ phase[t[1]] = "running"

Goto(t, p) == pc' = [pc EXCEPT ![t] = p] /\ UNCHANGED phase

Errors == {"failed", "broken pipe"}

(* An exception inside the try clause: the error is kept, and the stack    *)
(* torn down if Compose was found.                                         *)
Raise(t, e, p) ==
  /\ result' = [result EXCEPT ![t] = e]
  /\ Goto(t, p)
  /\ UNCHANGED <<item, attempt, port, seen, row, rowSeen>>

(* The row of the variant; on to the next variant of this worker.          *)
Record(t, r) ==
  /\ row' = [row EXCEPT ![<<t[1], item[t]>>] = r]
  /\ rowSeen' = [rowSeen EXCEPT ![<<t[1], item[t]>>] = seen[t]]
  /\ item' = [item EXCEPT ![t] = @ + Workers[t[1]]]
  /\ attempt' = [attempt EXCEPT ![t] = 0]
  /\ port' = [port EXCEPT ![t] = Absent]
  /\ result' = [result EXCEPT ![t] = "ok"]
  /\ seen' = [seen EXCEPT ![t] = NoWorld]
  /\ Goto(t, IF item[t] + Workers[t[1]] < Variants[t[1]] THEN "select" ELSE "finished")

\* The retry moves the base by one pair, not by the pairs of all workers.
FirstPairUnscaled(t, a) == Base[t[1]] + a

(* _broken_pipe_retry_host_port_start                                      *)
FirstPair(t, a) == Base[t[1]] + a * Workers[t[1]]

(* _select_run_ports probes the pairs of this worker upwards.              *)
Candidates(t) ==
  {c \in Pairs : \E k \in 0 .. Scans - 1 :
     c = FirstPair(t, attempt[t]) + t[2] + k * Workers[t[1]]}

(* No pair left for the last worker of the run: an error of worker_loop    *)
(* itself, before the attempt.                                             *)
OutOfRange(t) == FirstPair(t, attempt[t]) + Workers[t[1]] - 1 > MaxPair

First(c, pairs) == \A d \in pairs : c <= d

\* It waits for a pair to come free.
SelectPortsWaiting(t) ==
  /\ At(t, "select")
  /\ UNCHANGED <<docker, faults>>
  /\ LET free == Candidates(t) \ Bound IN
     \/ OutOfRange(t) /\ Record(t, "failed")
     \/ /\ ~OutOfRange(t)
        /\ \E c \in free : First(c, free) /\ port' = [port EXCEPT ![t] = c]
        /\ Goto(t, "preflight")
        /\ UNCHANGED <<item, attempt, result, seen, row, rowSeen>>

SelectPorts(t) ==
  /\ At(t, "select")
  /\ UNCHANGED <<docker, faults>>
  /\ LET free == Candidates(t) \ Bound IN
     \/ OutOfRange(t) /\ Record(t, "failed")
     \/ ~OutOfRange(t) /\ free = {} /\ Raise(t, "failed", "judge")
     \/ /\ ~OutOfRange(t)
        /\ \E c \in free : First(c, free) /\ port' = [port EXCEPT ![t] = c]
        /\ Goto(t, "preflight")
        /\ UNCHANGED <<item, attempt, result, seen, row, rowSeen>>

(* required_env_errors, preflight_host_ports, find_compose_command         *)
Preflight(t) ==
  /\ At(t, "preflight")
  /\ UNCHANGED docker
  /\ \/ port[t] \in Bound /\ Raise(t, "failed", "judge") /\ UNCHANGED faults
     \/ Fault /\ Raise(t, "failed", "judge")
     \/ port[t] \notin Bound /\ Goto(t, "reset") /\ UNCHANGED <<local, faults>>

(* Whatever an earlier attempt left up under this project has to go first. *)
ResetStack(t) ==
  /\ At(t, "reset")
  /\ \/ Remove({Project(t)}) /\ Goto(t, "up") /\ UNCHANGED <<local, faults>>
     \/ Fault /\ (\E e \in Errors : Raise(t, e, "down")) /\ UNCHANGED docker

\* The exit status of up is not looked at.
UpUnchecked(t) ==
  /\ At(t, "up")
  /\ world' = [world EXCEPT ![Project(t)] = NoWorld]
  /\ stack' = [stack EXCEPT ![Project(t)] =
                 IF port[t] \in Bound THEN Portless ELSE port[t]]
  /\ Goto(t, "prepare")
  /\ UNCHANGED <<local, excused, faults>>

\* Only a stack that came up is torn down.
UpNotTornDown(t) ==
  /\ At(t, "up")
  /\ world' = [world EXCEPT ![Project(t)] = NoWorld]
  /\ UNCHANGED <<excused, faults>>
  /\ \/ /\ port[t] \notin Bound
        /\ stack' = [stack EXCEPT ![Project(t)] = port[t]]
        /\ Goto(t, "prepare")
        /\ UNCHANGED local
     \/ /\ port[t] \in Bound
        /\ stack' = [stack EXCEPT ![Project(t)] = Portless]
        /\ Raise(t, "failed", "judge")

(* docker compose pull and up -d, with their retries.  Docker refuses a    *)
(* pair that is bound; a failed up may leave some containers running.      *)
Up(t) ==
  /\ At(t, "up")
  /\ world' = [world EXCEPT ![Project(t)] = NoWorld]
  /\ UNCHANGED excused
  /\ \/ /\ port[t] \notin Bound
        /\ stack' = [stack EXCEPT ![Project(t)] = port[t]]
        /\ Goto(t, "prepare")
        /\ UNCHANGED <<local, faults>>
     \/ /\ \E s \in {stack[Project(t)], Portless} :
             stack' = [stack EXCEPT ![Project(t)] = s]
        /\ \/ port[t] \in Bound /\ Raise(t, "failed", "down") /\ UNCHANGED faults
           \/ Fault /\ \E e \in Errors : Raise(t, e, "down")

(* Who answers at the port of thread t.                                    *)
Serving(t) == {p \in Projects : stack[p] = port[t]}

(* resetAllData, import, restart, register, upload, read-back, spawn       *)
PrepareWorld(t) ==
  /\ At(t, "prepare")
  /\ UNCHANGED <<stack, excused>>
  /\ \/ /\ Serving(t) # {}
        /\ world' = [p \in Projects |-> IF p \in Serving(t)
                                          THEN <<t[1], item[t], attempt[t]>>
                                          ELSE world[p]]
        /\ Goto(t, "play")
        /\ UNCHANGED <<local, faults>>
     \/ /\ world' = [p \in Projects |-> IF p \in Serving(t) THEN NoWorld ELSE world[p]]
        /\ Fault
        /\ \E e \in Errors : Raise(t, e, "down")

(* The ticks, the evidence and the gates on it.                            *)
Play(t) ==
  /\ At(t, "play")
  /\ UNCHANGED docker
  /\ \/ \E p \in Serving(t) :
          /\ seen' = [seen EXCEPT ![t] = world[p]]
          /\ Goto(t, "down")
          /\ UNCHANGED <<item, attempt, port, result, row, rowSeen, faults>>
     \/ Fault /\ \E e \in Errors : Raise(t, e, "down")

(* The finally clause: the exit status of down is not looked at, and an    *)
(* exception is one more error.                                            *)
TearDown(t) ==
  /\ At(t, "down")
  /\ Goto(t, "judge")
  /\ \/ Remove({Project(t)}) /\ UNCHANGED <<local, faults>>
     \/ /\ Fault
        /\ excused' = excused \cup ({Project(t)} \cap Present)
        /\ \/ UNCHANGED result
           \/ \E e \in Errors :
                /\ result[t] = "broken pipe" => e = "broken pipe"
                /\ result' = [result EXCEPT ![t] = e]
        /\ UNCHANGED <<item, attempt, port, seen, row, rowSeen, stack, world>>

Judge(t) ==
  /\ At(t, "judge")
  /\ UNCHANGED <<docker, faults>>
  /\ \/ result[t] = "broken pipe" /\ Goto(t, "sweep") /\ UNCHANGED local
     \/ result[t] # "broken pipe" /\ Record(t, result[t])

Retry(t) ==
  /\ attempt' = [attempt EXCEPT ![t] = @ + 1]
  /\ port' = [port EXCEPT ![t] = Absent]
  /\ result' = [result EXCEPT ![t] = "ok"]
  /\ seen' = [seen EXCEPT ![t] = NoWorld]
  /\ Goto(t, "select")
  /\ UNCHANGED <<item, row, rowSeen>>

\* One attempt too many.
SweepOnceMore(t) ==
  /\ At(t, "sweep")
  /\ CleanupExact(AttemptId(t[1], attempt[t]), {t[2]})
  /\ IF attempt[t] <= MaxRetries THEN Retry(t) ELSE Record(t, "failed")

(* After a broken pipe: clean up, whatever comes of it, and try once more. *)
Sweep(t) ==
  /\ At(t, "sweep")
  /\ CleanupExact(AttemptId(t[1], attempt[t]), {t[2]})
  /\ IF attempt[t] < MaxRetries THEN Retry(t) ELSE Record(t, "failed")

Step(t) ==
  \/ SelectPorts(t) \/ Preflight(t) \/ ResetStack(t) \/ Up(t) \/ PrepareWorld(t)
  \/ Play(t) \/ TearDown(t) \/ Judge(t) \/ Sweep(t)

Next ==
  \/ \E r \in Runs : Clear(r) \/ Refuse(r) \/ Collect(r) \/ Kill(r)
  \/ \E t \in Threads : Step(t)

Spec == Init /\ [][Next]_vars

(* Every command and request of a worker has a timeout and the threads of  *)
(* a pool are scheduled.  No thread waits for another, so that some step   *)
(* is taken whenever one can be is all that is needed.                     *)
FairSpec ==
  Spec /\ WF_vars((\E t \in Threads : Step(t)) \/ (\E r \in Runs : Collect(r)))

-----------------------------------------------------------------------------

(* Two workers of a run never hold the same pair of ports, whatever the    *)
(* retries each of them is at and the pairs they found taken               *)
(* (_select_run_ports, _broken_pipe_retry_host_port_start).                *)
WorkersNeverShareAPort ==
  \A t, u \in Threads :
    t[1] = u[1] /\ t # u /\ port[t] # Absent => port[t] # port[u]

(* A row reported ok describes a world this run itself set up for this     *)
(* very variant, although servers are found by port alone, another run may *)
(* take the port between the probe and the start, and a worker's variants  *)
(* share a project (_run_variant).                                         *)
OkRowsAreReal ==
  \A x \in Rows :
    row[x] = "ok" => \E a \in Attempts : rowSeen[x] = <<x[1], x[2], a>>

InUse(t) == phase[t[1]] = "running" /\ pc[t] \in Composed

(* A stack is up only while a worker uses it, unless a tear-down of it     *)
(* failed or its run was killed: every path out of an attempt, the failed  *)
(* start included, tears the stack down (the finally clause).              *)
NothingLeftUnexplained ==
  \A p \in Present : p \in excused \/ \E t \in Threads : InUse(t) /\ p = Project(t)

(* The server of a worker is changed by that worker or by the kill of its  *)
(* run, and by nothing else: the clean-ups of other workers, of retries    *)
(* and of refused runs reach only what is theirs                           *)
(* (cleanup_exact_run_worker_containers).                                  *)
ServersAreUndisturbed ==
  [][\A t \in Threads :
       InUse(t) /\ InUse(t)' /\ pc[t] = pc'[t]
       => /\ stack'[Project(t)] = stack[Project(t)]
          /\ world'[Project(t)] = world[Project(t)]]_vars

(* Every run ends, even where killed runs hold the ports it wants          *)
(* (worker_loop, _select_run_ports).                                       *)
RunsEnd == <>[](\A r \in Runs : phase[r] # "running")
=============================================================================
