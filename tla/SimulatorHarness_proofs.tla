----------------------- MODULE SimulatorHarness_proofs -----------------------
(***************************************************************************)
(* What holds of any number of runs, workers, variants and retries, if the *)
(* run ids keep apart as HarnessAssumed says: types; that ports, servers   *)
(* and rows are a worker's own; and that dealing the variants out covers   *)
(* each of them once, by workers that only go forward.                     *)
(***************************************************************************)
EXTENDS SimulatorHarness, SequenceTheorems, WellFoundedInduction, TLAPS

(* --------------------------- threads and rows -------------------------- *)

LEMMA ThreadFacts ==
  ASSUME NEW t \in Threads
  PROVE  /\ t[1] \in Runs /\ t[2] \in DOMAIN WorkerToken /\ t = <<t[1], t[2]>>
         /\ t[2] \in Nat /\ t[2] < Workers[t[1]]
         /\ Workers[t[1]] \in Nat \ {0} /\ Variants[t[1]] \in Nat \ {0}
         /\ Base[t[1]] \in Nat /\ Workers[t[1]] <= Variants[t[1]]
  BY HarnessAssumed DEF HarnessAssumption, Threads

LEMMA Bounds ==
  MaxRetries \in Nat /\ Scans \in Nat /\ MaxPair \in Nat /\ MaxFaults \in Nat
  BY HarnessAssumed DEF HarnessAssumption

LEMMA RowFacts ==
  ASSUME NEW r \in Runs, NEW i
  PROVE  <<r, i>> \in Rows <=> i \in 0 .. Variants[r] - 1
<1>1. ASSUME i \in 0 .. Variants[r] - 1 PROVE <<r, i>> \in Rows
  BY <1>1 DEF Rows
<1>2. ASSUME <<r, i>> \in Rows PROVE i \in 0 .. Variants[r] - 1
  <2>1. PICK q \in Runs : <<r, i>> \in {q} \X (0 .. Variants[q] - 1)
    BY <1>2 DEF Rows
  <2> QED
    BY <2>1
<1> QED
  BY <1>1, <1>2

LEMMA RowParts == \A x \in Rows : x[1] \in Runs /\ x = <<x[1], x[2]>>
<1> SUFFICES ASSUME NEW x \in Rows PROVE x[1] \in Runs /\ x = <<x[1], x[2]>>
  OBVIOUS
<1>1. PICK q \in Runs : x \in {q} \X (0 .. Variants[q] - 1)
  BY DEF Rows
<1> QED
  BY <1>1

LEMMA WorldIn ==
  ASSUME NEW x \in Rows, NEW a \in Attempts
  PROVE  <<x[1], x[2], a>> \in Worlds
  BY DEF Worlds

LEMMA NoWorldIn == NoWorld \in Worlds
  BY DEF Worlds

LEMMA AttemptIn == 0 \in Attempts /\ \A a \in Attempts : a < MaxRetries => a + 1 \in Attempts
  BY Bounds DEF Attempts

LEMMA ProjectIn ==
  ASSUME NEW t \in Threads, attempt[t] \in Attempts
  PROVE  Project(t) \in Projects
  BY ThreadFacts DEF Project, Projects, AttemptIds

-----------------------------------------------------------------------------

Between == {"idle", "finished"}

OnRow == \A t \in Threads : pc[t] \notin Between => <<t[1], item[t]>> \in Rows

LocalType ==
  /\ phase \in [Runs -> {"new", "running", "refused", "done", "killed"}]
  /\ pc \in [Threads -> Steps]
  /\ item \in [Threads -> Nat]
  /\ OnRow
  /\ attempt \in [Threads -> Attempts]
  /\ port \in [Threads -> Pairs \cup {Absent}]
  /\ result \in [Threads -> {"ok", "failed", "broken pipe"}]
  /\ seen \in [Threads -> Worlds]
  /\ row \in [Rows -> {"none", "ok", "failed"}]
  /\ rowSeen \in [Rows -> Worlds]

DockerType ==
  /\ stack \in [Projects -> Pairs \cup {Absent, Portless}]
  /\ world \in [Projects -> Worlds]
  /\ excused \subseteq Projects

FaultType == faults \in 0 .. MaxFaults

LEMMA TypeParts == TypeOK <=> LocalType /\ DockerType /\ FaultType
  BY DEF TypeOK, LocalType, DockerType, FaultType, OnRow, Between

LEMMA TypeParts2 == TypeOK' <=> LocalType' /\ DockerType' /\ FaultType'
  BY DEF TypeOK, LocalType, DockerType, FaultType, OnRow, Between

(* A run that has not started has left the items of its workers alone.     *)
NewInv ==
  \A t \in Threads :
    /\ phase[t[1]] = "new" => item[t] = t[2] /\ pc[t] = "idle"
    /\ phase[t[1]] # "running" => pc[t] \in Between

TypeInv == TypeOK /\ NewInv

LEMMA TypeInit == Init => TypeInv
<1> SUFFICES ASSUME Init PROVE TypeInv
  OBVIOUS
<1>1. [t \in Threads |-> t[2]] \in [Threads -> Nat]
  BY ThreadFacts
<1>2. LocalType
  BY <1>1, Bounds DEF Init, LocalType, OnRow, Between, Steps, Attempts, Worlds
<1>3. DockerType /\ FaultType
  BY Bounds DEF Init, DockerType, FaultType, Worlds
<1>4. NewInv
  BY DEF Init, NewInv, Between
<1> QED
  BY <1>2, <1>3, <1>4, TypeParts DEF TypeInv

LEMMA FaultKeeps == FaultType /\ (Fault \/ UNCHANGED faults) => FaultType'
  BY Bounds DEF FaultType, Fault

LEMMA RemoveKeeps ==
  ASSUME DockerType, NEW gone, Remove(gone)
  PROVE  DockerType'
<1>1. stack' \in [Projects -> Pairs \cup {Absent, Portless}]
  BY DEF DockerType, Remove
<1>2. world' \in [Projects -> Worlds]
  BY DEF DockerType, Remove, Worlds
<1> QED
  BY <1>1, <1>2 DEF DockerType, Remove

LEMMA CleanupKeeps ==
  ASSUME DockerType, FaultType, NEW id, NEW ws, CleanupExact(id, ws)
  PROVE  DockerType' /\ FaultType'
<1>1. CASE Remove(Matching(id, ws)) /\ UNCHANGED faults
  BY <1>1, RemoveKeeps, FaultKeeps
<1>2. CASE faults < MaxFaults /\ faults' = faults + 1 /\ UNCHANGED docker
  BY <1>2, FaultKeeps DEF docker, DockerType, Fault
<1> QED
  BY <1>1, <1>2 DEF CleanupExact

(* What a step of thread t does to the threads.                            *)
LocalKeeps == LocalType' /\ NewInv'

LEMMA GotoKeeps ==
  ASSUME LocalType, NewInv, NEW t \in Threads, NEW p \in Steps \ Between, Goto(t, p),
         phase[t[1]] = "running", pc[t] \notin Between, UNCHANGED local
  PROVE  LocalKeeps
<1>1. LocalType'
  BY DEF LocalType, Goto, local, OnRow, Between
<1>2. NewInv'
  BY DEF LocalType, Goto, local, NewInv
<1> QED
  BY <1>1, <1>2 DEF LocalKeeps

LEMMA RaiseKeeps ==
  ASSUME LocalType, NewInv, NEW t \in Threads, NEW p \in Steps \ Between,
         NEW e \in Errors, Raise(t, e, p),
         phase[t[1]] = "running", pc[t] \notin Between
  PROVE  LocalKeeps
<1>1. LocalType'
  BY DEF LocalType, Raise, Goto, OnRow, Between, Errors
<1>2. NewInv'
  BY DEF LocalType, Raise, Goto, NewInv
<1> QED
  BY <1>1, <1>2 DEF LocalKeeps

LEMMA RetryKeeps ==
  ASSUME LocalType, NewInv, NEW t \in Threads, Retry(t), attempt[t] < MaxRetries,
         phase[t[1]] = "running", pc[t] \notin Between
  PROVE  LocalKeeps
<1>1. attempt[t] \in Attempts /\ attempt[t] + 1 \in Attempts
  BY AttemptIn DEF LocalType
<1>2. attempt' \in [Threads -> Attempts]
  BY <1>1 DEF LocalType, Retry
<1>3. seen' \in [Threads -> Worlds]
  BY NoWorldIn DEF LocalType, Retry
<1>4. LocalType'
  BY <1>2, <1>3 DEF LocalType, Retry, Goto, OnRow, Between, Steps
<1>5. NewInv'
  BY DEF LocalType, Retry, Goto, NewInv
<1> QED
  BY <1>4, <1>5 DEF LocalKeeps

LEMMA RecordKeeps ==
  ASSUME LocalType, NewInv, NEW t \in Threads, NEW r \in {"ok", "failed"}, Record(t, r),
         phase[t[1]] = "running", pc[t] \notin Between
  PROVE  LocalKeeps
<1> DEFINE x == <<t[1], item[t]>>
           p == IF item[t] + Workers[t[1]] < Variants[t[1]] THEN "select" ELSE "finished"
<1>1. x \in Rows /\ seen[t] \in Worlds /\ item[t] \in Nat
  BY DEF LocalType, OnRow
<1>2. row' \in [Rows -> {"none", "ok", "failed"}] /\ rowSeen' \in [Rows -> Worlds]
  BY <1>1 DEF LocalType, Record
<1>3. item[t] + Workers[t[1]] \in Nat
  BY <1>1, ThreadFacts
<1>4. item' \in [Threads -> Nat]
  BY <1>3 DEF LocalType, Record
<1>5. attempt' \in [Threads -> Attempts] /\ seen' \in [Threads -> Worlds]
  BY NoWorldIn, AttemptIn DEF LocalType, Record
<1>6. port' \in [Threads -> Pairs \cup {Absent}]
      /\ result' \in [Threads -> {"ok", "failed", "broken pipe"}]
  BY DEF LocalType, Record
<1>7. pc' = [pc EXCEPT ![t] = p] /\ UNCHANGED phase
  BY DEF Record, Goto
<1>8. pc' \in [Threads -> Steps]
  BY <1>7 DEF LocalType, Steps
<1>9. OnRow'
  <2> SUFFICES ASSUME NEW u \in Threads, pc'[u] \notin Between
               PROVE  <<u[1], item'[u]>> \in Rows
    BY DEF OnRow
  <2>1. CASE u = t
    <3>1. item'[t] = item[t] + Workers[t[1]]
      BY DEF LocalType, Record
    <3>2. item[t] + Workers[t[1]] < Variants[t[1]]
      BY <1>7, <2>1 DEF LocalType, Between
    <3> QED
      BY <1>3, <2>1, <3>1, <3>2, ThreadFacts, RowFacts
  <2>2. CASE u # t
    BY <1>7, <2>2 DEF LocalType, OnRow, Record
  <2> QED
    BY <2>1, <2>2
<1>10. NewInv'
  BY <1>7 DEF LocalType, Record, NewInv
<1>11. phase' \in [Runs -> {"new", "running", "refused", "done", "killed"}]
  BY <1>7 DEF LocalType
<1> QED
  BY <1>2, <1>4, <1>5, <1>6, <1>8, <1>9, <1>10, <1>11 DEF LocalKeeps, LocalType

(* -------------------- every action keeps the types --------------------- *)

LEMMA TypeClear == ASSUME TypeInv, NEW r \in Runs, Clear(r) PROVE TypeInv'
<1> USE DEF TypeInv
<1>1. LocalType /\ DockerType /\ FaultType /\ NewInv
  BY TypeParts
<1>2. OnRow'
  <2> SUFFICES ASSUME NEW u \in Threads, pc'[u] \notin Between
               PROVE  <<u[1], item'[u]>> \in Rows
    BY DEF OnRow
  <2>1. CASE u[1] = r
    <3>1. item'[u] = u[2]
      BY <1>1, <2>1 DEF Clear, NewInv, local
    <3> QED
      BY <3>1, ThreadFacts, RowFacts
  <2>2. CASE u[1] # r
    BY <1>1, <2>2 DEF Clear, local, LocalType, OnRow
  <2> QED
    BY <2>1, <2>2
<1>3. pc' \in [Threads -> Steps] /\ phase' \in [Runs -> {"new", "running", "refused", "done", "killed"}]
  BY <1>1 DEF Clear, LocalType, Steps
<1>4. LocalType'
  BY <1>1, <1>2, <1>3 DEF Clear, local, LocalType
<1>5. DockerType' /\ FaultType'
  BY <1>1 DEF Clear, docker, DockerType, FaultType
<1>6. NewInv'
  <2> SUFFICES ASSUME NEW u \in Threads
               PROVE  /\ phase'[u[1]] = "new" => item'[u] = u[2] /\ pc'[u] = "idle"
                      /\ phase'[u[1]] # "running" => pc'[u] \in Between
    BY DEF NewInv
  <2> QED
    BY <1>1, ThreadFacts DEF Clear, local, NewInv, LocalType
<1> QED
  BY <1>4, <1>5, <1>6, TypeParts2

LEMMA TypeRefuse == ASSUME TypeInv, NEW r \in Runs, Refuse(r) PROVE TypeInv'
<1>1. LocalType /\ DockerType /\ FaultType /\ NewInv
  BY TypeParts DEF TypeInv
<1>2. LocalType'
  BY <1>1 DEF Refuse, local, LocalType, OnRow
<1>3. DockerType' /\ FaultType'
  BY <1>1, CleanupKeeps DEF Refuse
<1>4. NewInv'
  BY <1>1, ThreadFacts DEF Refuse, local, NewInv, LocalType, Between
<1> QED
  BY <1>2, <1>3, <1>4, TypeParts2 DEF TypeInv

LEMMA TypeCollect == ASSUME TypeInv, NEW r \in Runs, Collect(r) PROVE TypeInv'
<1>1. LocalType /\ DockerType /\ FaultType /\ NewInv
  BY TypeParts DEF TypeInv
<1>2. LocalType'
  BY <1>1 DEF Collect, local, LocalType, OnRow
<1>3. DockerType' /\ FaultType'
  BY <1>1 DEF Collect, docker, DockerType, FaultType
<1>4. NewInv'
  BY <1>1, ThreadFacts DEF Collect, local, NewInv, LocalType, Between, ThreadsOf
<1> QED
  BY <1>2, <1>3, <1>4, TypeParts2 DEF TypeInv

LEMMA TypeKill == ASSUME TypeInv, NEW r \in Runs, Kill(r) PROVE TypeInv'
<1>1. LocalType /\ DockerType /\ FaultType /\ NewInv
  BY TypeParts DEF TypeInv
<1>2. /\ pc' = [t \in Threads |-> IF t[1] = r THEN "finished" ELSE pc[t]]
      /\ item' = [t \in Threads |-> IF t[1] = r THEN 0 ELSE item[t]]
      /\ attempt' = [t \in Threads |-> IF t[1] = r THEN 0 ELSE attempt[t]]
      /\ port' = [t \in Threads |-> IF t[1] = r THEN Absent ELSE port[t]]
      /\ result' = [t \in Threads |-> IF t[1] = r THEN "ok" ELSE result[t]]
      /\ seen' = [t \in Threads |-> IF t[1] = r THEN NoWorld ELSE seen[t]]
  BY DEF Kill
<1>3. /\ pc' \in [Threads -> Steps] /\ item' \in [Threads -> Nat]
      /\ port' \in [Threads -> Pairs \cup {Absent}]
      /\ result' \in [Threads -> {"ok", "failed", "broken pipe"}]
  BY <1>1, <1>2 DEF LocalType, Steps
<1>4. attempt' \in [Threads -> Attempts] /\ seen' \in [Threads -> Worlds]
  BY <1>1, <1>2, AttemptIn, NoWorldIn DEF LocalType
<1>5. row' \in [Rows -> {"none", "ok", "failed"}] /\ rowSeen' \in [Rows -> Worlds]
  BY <1>1, NoWorldIn DEF LocalType, Kill
<1>6. OnRow'
  BY <1>1, <1>2 DEF LocalType, OnRow, Between
<1>7. phase' \in [Runs -> {"new", "running", "refused", "done", "killed"}]
  BY <1>1 DEF LocalType, Kill
<1>8. LocalType'
  BY <1>3, <1>4, <1>5, <1>6, <1>7 DEF LocalType
<1>9. DockerType'
  BY <1>1 DEF Kill, DockerType, Present
<1>10. FaultType'
  BY <1>1, FaultKeeps DEF Kill
<1>11. NewInv'
  <2> SUFFICES ASSUME NEW u \in Threads
               PROVE  /\ phase'[u[1]] = "new" => item'[u] = u[2] /\ pc'[u] = "idle"
                      /\ phase'[u[1]] # "running" => pc'[u] \in Between
    BY DEF NewInv
  <2>1. u[1] \in Runs
    BY ThreadFacts
  <2>2. phase' = [phase EXCEPT ![r] = "killed"]
    BY DEF Kill
  <2>3. CASE u[1] = r
    BY <1>1, <1>2, <2>1, <2>2, <2>3 DEF LocalType, Between
  <2>4. CASE u[1] # r
    BY <1>1, <1>2, <2>1, <2>2, <2>4 DEF NewInv, LocalType, Between
  <2> QED
    BY <2>3, <2>4
<1> QED
  BY <1>8, <1>9, <1>10, <1>11, TypeParts2 DEF TypeInv

(* The parts of a state in which thread t is about to take a step.         *)
LEMMA Stepping ==
  ASSUME TypeInv, NEW t \in Threads, NEW p \in Steps \ Between, At(t, p)
  PROVE  /\ LocalType /\ DockerType /\ FaultType /\ NewInv
         /\ phase[t[1]] = "running" /\ pc[t] = p /\ pc[t] \notin Between
         /\ Project(t) \in Projects /\ attempt[t] \in Attempts
         /\ port[t] \in Pairs \cup {Absent} /\ <<t[1], item[t]>> \in Rows
  BY TypeParts, ProjectIn DEF TypeInv, At, LocalType, OnRow

LEMMA TypeStepThread == ASSUME TypeInv, NEW t \in Threads, Step(t) PROVE TypeInv'
<1> USE DEF Steps, Composed, Between
<1> SUFFICES LocalKeeps /\ DockerType' /\ FaultType'
  BY TypeParts2 DEF TypeInv, LocalKeeps
<1>1. CASE SelectPorts(t)
  <2>1. LocalType /\ DockerType /\ FaultType /\ NewInv /\ phase[t[1]] = "running" /\ pc[t] \notin Between
    BY <1>1, Stepping DEF SelectPorts
  <2>2. DockerType' /\ FaultType'
    BY <1>1, <2>1 DEF SelectPorts, docker, DockerType, FaultType
  <2>3. CASE Record(t, "failed")
    BY <2>1, <2>2, <2>3, RecordKeeps
  <2>4. CASE Raise(t, "failed", "judge")
    BY <2>1, <2>2, <2>4, RaiseKeeps DEF Errors
  <2>5. CASE /\ \E c \in Candidates(t) : port' = [port EXCEPT ![t] = c]
             /\ Goto(t, "preflight")
             /\ UNCHANGED <<item, attempt, result, seen, row, rowSeen>>
    <3>1. port' \in [Threads -> Pairs \cup {Absent}]
      BY <2>1, <2>5 DEF LocalType, Candidates
    <3>2. LocalType'
      BY <2>1, <2>5, <3>1 DEF LocalType, Goto, OnRow
    <3>3. NewInv'
      BY <2>1, <2>5 DEF LocalType, Goto, NewInv
    <3> QED
      BY <2>2, <3>2, <3>3 DEF LocalKeeps
  <2> QED
    BY <1>1, <2>3, <2>4, <2>5 DEF SelectPorts
<1>2. CASE Preflight(t)
  <2>1. LocalType /\ DockerType /\ FaultType /\ NewInv /\ phase[t[1]] = "running" /\ pc[t] \notin Between
    BY <1>2, Stepping DEF Preflight
  <2>2. DockerType' /\ FaultType'
    BY <1>2, <2>1, FaultKeeps DEF Preflight, docker, DockerType
  <2>3. CASE Raise(t, "failed", "judge")
    BY <2>1, <2>2, <2>3, RaiseKeeps DEF Errors
  <2>4. CASE Goto(t, "reset") /\ UNCHANGED local
    BY <2>1, <2>2, <2>4, GotoKeeps
  <2> QED
    BY <1>2, <2>3, <2>4 DEF Preflight
<1>3. CASE ResetStack(t)
  <2>1. LocalType /\ DockerType /\ FaultType /\ NewInv /\ phase[t[1]] = "running" /\ pc[t] \notin Between
    BY <1>3, Stepping DEF ResetStack
  <2>2. CASE Remove({Project(t)}) /\ Goto(t, "up") /\ UNCHANGED <<local, faults>>
    BY <2>1, <2>2, GotoKeeps, RemoveKeeps, FaultKeeps
  <2>3. CASE Fault /\ (\E e \in Errors : Raise(t, e, "down")) /\ UNCHANGED docker
    BY <2>1, <2>3, RaiseKeeps, FaultKeeps DEF docker, DockerType
  <2> QED
    BY <1>3, <2>2, <2>3 DEF ResetStack
<1>4. CASE Up(t)
  <2>1. LocalType /\ DockerType /\ FaultType /\ NewInv /\ phase[t[1]] = "running" /\ pc[t] \notin Between
        /\ Project(t) \in Projects /\ port[t] \in Pairs \cup {Absent}
    BY <1>4, Stepping DEF Up
  <2>2. world' \in [Projects -> Worlds] /\ excused' \subseteq Projects
    BY <1>4, <2>1, NoWorldIn DEF Up, DockerType
  <2>3. stack' \in [Projects -> Pairs \cup {Absent, Portless}]
    <3>1. PICK s \in {port[t], stack[Project(t)], Portless} :
            stack' = [stack EXCEPT ![Project(t)] = s]
      BY <1>4 DEF Up
    <3> QED
      BY <2>1, <3>1 DEF DockerType
  <2>4. FaultType'
    BY <1>4, <2>1, FaultKeeps DEF Up
  <2>5. LocalKeeps
    <3>1. CASE Goto(t, "prepare") /\ UNCHANGED <<local, faults>>
      BY <2>1, <3>1, GotoKeeps
    <3>2. CASE \E e \in Errors : Raise(t, e, "down")
      BY <2>1, <3>2, RaiseKeeps
    <3>3. CASE Raise(t, "failed", "down")
      BY <2>1, <3>3, RaiseKeeps DEF Errors
    <3> QED
      BY <1>4, <3>1, <3>2, <3>3 DEF Up
  <2> QED
    BY <2>2, <2>3, <2>4, <2>5 DEF DockerType
<1>5. CASE PrepareWorld(t)
  <2>1. LocalType /\ DockerType /\ FaultType /\ NewInv /\ phase[t[1]] = "running" /\ pc[t] \notin Between
        /\ <<t[1], item[t]>> \in Rows /\ attempt[t] \in Attempts
    BY <1>5, Stepping DEF PrepareWorld
  <2>2. <<t[1], item[t], attempt[t]>> \in Worlds
    <3>1. <<t[1], item[t]>>[1] = t[1] /\ <<t[1], item[t]>>[2] = item[t]
      OBVIOUS
    <3> QED
      BY <2>1, <3>1, WorldIn
  <2>3. world' \in [Projects -> Worlds]
    BY <1>5, <2>1, <2>2, NoWorldIn DEF PrepareWorld, DockerType
  <2>4. DockerType'
    BY <1>5, <2>1, <2>3 DEF PrepareWorld, DockerType
  <2>5. CASE Goto(t, "play") /\ UNCHANGED <<local, faults>>
    BY <2>1, <2>4, <2>5, GotoKeeps, FaultKeeps
  <2>6. CASE Fault /\ \E e \in Errors : Raise(t, e, "down")
    BY <2>1, <2>4, <2>6, RaiseKeeps, FaultKeeps
  <2> QED
    BY <1>5, <2>5, <2>6 DEF PrepareWorld
<1>6. CASE Play(t)
  <2>1. LocalType /\ DockerType /\ FaultType /\ NewInv /\ phase[t[1]] = "running" /\ pc[t] \notin Between
    BY <1>6, Stepping DEF Play
  <2>2. DockerType' /\ FaultType'
    BY <1>6, <2>1, FaultKeeps DEF Play, docker, DockerType
  <2>3. CASE \E p \in Serving(t) :
               /\ seen' = [seen EXCEPT ![t] = world[p]]
               /\ Goto(t, "down")
               /\ UNCHANGED <<item, attempt, port, result, row, rowSeen, faults>>
    <3>1. seen' \in [Threads -> Worlds]
      BY <2>1, <2>3 DEF LocalType, DockerType, Serving
    <3>2. LocalType'
      BY <2>1, <2>3, <3>1 DEF LocalType, Goto, OnRow
    <3>3. NewInv'
      BY <2>1, <2>3 DEF LocalType, Goto, NewInv
    <3> QED
      BY <2>2, <3>2, <3>3 DEF LocalKeeps
  <2>4. CASE Fault /\ \E e \in Errors : Raise(t, e, "down")
    BY <2>1, <2>2, <2>4, RaiseKeeps
  <2> QED
    BY <1>6, <2>3, <2>4 DEF Play
<1>7. CASE TearDown(t)
  <2>1. LocalType /\ DockerType /\ FaultType /\ NewInv /\ phase[t[1]] = "running" /\ pc[t] \notin Between
        /\ Project(t) \in Projects
    BY <1>7, Stepping DEF TearDown
  <2>2. CASE Remove({Project(t)}) /\ UNCHANGED <<local, faults>>
    BY <1>7, <2>1, <2>2, GotoKeeps, RemoveKeeps, FaultKeeps DEF TearDown
  <2>3. CASE /\ Fault
             /\ excused' = excused \cup ({Project(t)} \cap Present)
             /\ \/ UNCHANGED result
                \/ \E e \in Errors : result' = [result EXCEPT ![t] = e]
             /\ UNCHANGED <<item, attempt, port, seen, row, rowSeen, stack, world>>
    <3>1. DockerType' /\ FaultType'
      BY <2>1, <2>3, FaultKeeps DEF DockerType
    <3>2. result' \in [Threads -> {"ok", "failed", "broken pipe"}]
      BY <2>1, <2>3 DEF LocalType, Errors
    <3>3. LocalType'
      BY <1>7, <2>1, <2>3, <3>2 DEF TearDown, LocalType, Goto, OnRow
    <3>4. NewInv'
      BY <1>7, <2>1, <2>3 DEF TearDown, LocalType, Goto, NewInv
    <3> QED
      BY <3>1, <3>3, <3>4 DEF LocalKeeps
  <2> QED
    BY <1>7, <2>2, <2>3 DEF TearDown
<1>8. CASE Judge(t)
  <2>1. LocalType /\ DockerType /\ FaultType /\ NewInv /\ phase[t[1]] = "running" /\ pc[t] \notin Between
    BY <1>8, Stepping DEF Judge
  <2>2. DockerType' /\ FaultType'
    BY <1>8, <2>1 DEF Judge, docker, DockerType, FaultType
  <2>3. CASE Goto(t, "sweep") /\ UNCHANGED local
    BY <2>1, <2>2, <2>3, GotoKeeps
  <2>4. CASE result[t] # "broken pipe" /\ Record(t, result[t])
    <3>1. result[t] \in {"ok", "failed"}
      BY <2>1, <2>4 DEF LocalType
    <3> QED
      BY <2>1, <2>2, <2>4, <3>1, RecordKeeps
  <2> QED
    BY <1>8, <2>3, <2>4 DEF Judge
<1>9. CASE Sweep(t)
  <2>1. LocalType /\ DockerType /\ FaultType /\ NewInv /\ phase[t[1]] = "running" /\ pc[t] \notin Between
    BY <1>9, Stepping DEF Sweep
  <2>2. DockerType' /\ FaultType'
    BY <1>9, <2>1, CleanupKeeps DEF Sweep
  <2>3. CASE attempt[t] < MaxRetries /\ Retry(t)
    BY <2>1, <2>2, <2>3, RetryKeeps
  <2>4. CASE Record(t, "failed")
    BY <2>1, <2>2, <2>4, RecordKeeps
  <2> QED
    BY <1>9, <2>3, <2>4 DEF Sweep
<1> QED
  BY <1>1, <1>2, <1>3, <1>4, <1>5, <1>6, <1>7, <1>8, <1>9 DEF Step

LEMMA TypeStep == TypeInv /\ [Next]_vars => TypeInv'
<1> SUFFICES ASSUME TypeInv, [Next]_vars PROVE TypeInv'
  OBVIOUS
<1>1. CASE UNCHANGED vars
  BY <1>1 DEF vars, local, docker, TypeInv, TypeOK, NewInv
<1> QED
  BY <1>1, TypeClear, TypeRefuse, TypeCollect, TypeKill, TypeStepThread DEF Next

(* Every variable keeps its type, and a worker between its first variant   *)
(* and its last is at a variant its run has.                               *)
THEOREM TypeCorrect == Spec => []TypeOK
<1>1. TypeInv => TypeOK
  BY DEF TypeInv
<1> QED
  BY <1>1, TypeInit, TypeStep, PTL DEF Spec

-----------------------------------------------------------------------------
(* -------------------------- ports of a run ----------------------------- *)

LEMMA Multiple ==
  ASSUME NEW w \in Nat, NEW d \in Nat \ {0}
  PROVE  d * w >= w /\ d * w \in Nat
<1>1. (d - 1) * w \in Nat
  OBVIOUS
<1>2. (d - 1) * w = d * w - w
  OBVIOUS
<1> QED
  BY <1>1, <1>2

LEMMA Below ==
  ASSUME NEW n \in Nat \ {0}, NEW v \in 0 .. n - 1, NEW w \in 0 .. n - 1,
         NEW i \in Nat, NEW j \in Nat, i < j
  PROVE  v + i * n # w + j * n
<1>1. j - i \in Nat \ {0} /\ (j - i) * n = j * n - i * n
  OBVIOUS
<1>2. (j - i) * n >= n
  BY <1>1, Multiple
<1>3. i * n \in Nat /\ j * n \in Nat
  OBVIOUS
<1> QED
  BY <1>1, <1>2, <1>3

PortInv == \A t \in Threads : port[t] # Absent => port[t] \in Candidates(t)

LEMMA PortImplies == TypeInv /\ PortInv => WorkersNeverShareAPort
<1> SUFFICES ASSUME TypeInv, PortInv, NEW t \in Threads, NEW u \in Threads,
                    t[1] = u[1], t # u, port[t] # Absent
             PROVE  port[t] # port[u]
  BY DEF WorkersNeverShareAPort
<1> SUFFICES ASSUME port[u] # Absent, port[t] = port[u] PROVE FALSE
  OBVIOUS
<1> DEFINE n == Workers[t[1]]
<1>1. /\ n \in Nat \ {0} /\ Base[t[1]] \in Nat
      /\ t[2] \in 0 .. n - 1 /\ u[2] \in 0 .. n - 1 /\ t[2] # u[2]
  BY ThreadFacts
<1>2. attempt[t] \in Nat /\ attempt[u] \in Nat /\ Scans \in Nat
  <2>1. attempt[t] \in Attempts /\ attempt[u] \in Attempts
    BY DEF TypeInv, TypeOK
  <2> QED
    BY <2>1, Bounds DEF Attempts
<1>3. PICK k \in 0 .. Scans - 1 :
        port[t] = Base[t[1]] + attempt[t] * n + t[2] + k * n
  BY DEF PortInv, Candidates, FirstPair
<1>4. PICK l \in 0 .. Scans - 1 :
        port[u] = Base[t[1]] + attempt[u] * n + u[2] + l * n
  BY DEF PortInv, Candidates, FirstPair
<1>5. attempt[t] + k \in Nat /\ attempt[u] + l \in Nat
  BY <1>2, <1>3, <1>4
<1>6. /\ attempt[t] * n + k * n = (attempt[t] + k) * n
      /\ attempt[u] * n + l * n = (attempt[u] + l) * n
  BY <1>1, <1>2
<1>7. /\ attempt[t] * n \in Nat /\ k * n \in Nat /\ (attempt[t] + k) * n \in Nat
      /\ attempt[u] * n \in Nat /\ l * n \in Nat /\ (attempt[u] + l) * n \in Nat
  BY <1>1, <1>2
<1> HIDE DEF n
<1>8. t[2] + (attempt[t] + k) * n = u[2] + (attempt[u] + l) * n
  <2>1. /\ attempt[t] * n + t[2] + k * n = t[2] + (attempt[t] + k) * n
        /\ attempt[u] * n + u[2] + l * n = u[2] + (attempt[u] + l) * n
    BY <1>1, <1>6, <1>7
  <2>2. Base[t[1]] + attempt[t] * n + t[2] + k * n = Base[t[1]] + attempt[u] * n + u[2] + l * n
    BY <1>3, <1>4
  <2>3. attempt[t] * n + t[2] + k * n = attempt[u] * n + u[2] + l * n
    <3> DEFINE b == Base[t[1]]  x == attempt[t] * n  y == attempt[u] * n
               v == t[2]  w == u[2]  e == k * n  f == l * n
    <3>1. b \in Int /\ x \in Int /\ y \in Int /\ v \in Int /\ w \in Int /\ e \in Int /\ f \in Int
      BY <1>1, <1>7
    <3>2. b + x + v + e = b + y + w + f
      BY <2>2
    <3> HIDE DEF b, x, y, v, w, e, f
    <3>3. x + v + e = y + w + f
      BY <3>1, <3>2
    <3> QED
      BY <3>3 DEF x, y, v, w, e, f
  <2> QED
    BY <2>1, <2>3
<1>9. CASE attempt[t] + k < attempt[u] + l
  BY <1>1, <1>5, <1>8, <1>9, Below
<1>10. CASE attempt[u] + l < attempt[t] + k
  BY <1>1, <1>5, <1>8, <1>10, Below
<1>11. CASE attempt[t] + k = attempt[u] + l
  BY <1>1, <1>7, <1>8, <1>11
<1> QED
  BY <1>5, <1>9, <1>10, <1>11

(* What a step of thread u leaves of the other threads, and of its own.    *)
Same(t) ==
  /\ pc'[t] = pc[t] /\ item'[t] = item[t] /\ attempt'[t] = attempt[t]
  /\ port'[t] = port[t] /\ result'[t] = result[t] /\ seen'[t] = seen[t]

LEMMA OthersSame ==
  ASSUME TypeInv, NEW u \in Threads, Step(u), NEW t \in Threads, t # u
  PROVE  Same(t) /\ UNCHANGED phase
<1> USE DEF TypeInv, TypeOK, Same, local, Goto
<1>1. ASSUME NEW r, Record(u, r) PROVE Same(t) /\ UNCHANGED phase
  BY <1>1 DEF Record
<1>2. ASSUME NEW e, NEW p, Raise(u, e, p) PROVE Same(t) /\ UNCHANGED phase
  BY <1>2 DEF Raise
<1>3. CASE SelectPorts(u)
  BY <1>1, <1>2, <1>3 DEF SelectPorts
<1>4. CASE Preflight(u)
  BY <1>2, <1>4 DEF Preflight
<1>5. CASE ResetStack(u)
  BY <1>2, <1>5 DEF ResetStack
<1>6. CASE Up(u)
  BY <1>2, <1>6 DEF Up
<1>7. CASE PrepareWorld(u)
  BY <1>2, <1>7 DEF PrepareWorld
<1>8. CASE Play(u)
  BY <1>2, <1>8 DEF Play
<1>9. CASE TearDown(u)
  BY <1>9 DEF TearDown
<1>10. CASE Judge(u)
  BY <1>1, <1>10 DEF Judge
<1>11. CASE Sweep(u)
  <2>1. CASE Retry(u)
    BY <2>1 DEF Retry
  <2> QED
    BY <1>1, <1>11, <2>1 DEF Sweep
<1> QED
  BY <1>3, <1>4, <1>5, <1>6, <1>7, <1>8, <1>9, <1>10, <1>11 DEF Step

(* A run's own actions: only the kill touches its threads.                 *)
LEMMA RunsSame ==
  ASSUME TypeInv, NEW r \in Runs, NEW t \in Threads,
         \/ Refuse(r) \/ Collect(r)
         \/ (Clear(r) \/ Kill(r)) /\ t[1] # r
  PROVE  Same(t) /\ (t[1] # r => phase'[t[1]] = phase[t[1]])
<1> USE ThreadFacts DEF TypeInv, TypeOK, Same
<1>1. CASE Refuse(r) \/ Collect(r)
  BY <1>1 DEF Refuse, Collect, local
<1>2. CASE Clear(r) /\ t[1] # r
  BY <1>2 DEF Clear, local
<1>3. CASE Kill(r) /\ t[1] # r
  BY <1>3 DEF Kill
<1> QED
  BY <1>1, <1>2, <1>3

LEMMA StoppedSame ==
  ASSUME TypeInv, NEW r \in Runs, NEW t \in Threads, Clear(r), t[1] = r
  PROVE  pc'[t] = "select" /\ port'[t] = port[t] /\ attempt'[t] = attempt[t]
         /\ result'[t] = result[t]
  BY DEF TypeInv, TypeOK, Clear, local

LEMMA KilledSame ==
  ASSUME TypeInv, NEW r \in Runs, NEW t \in Threads, Kill(r), t[1] = r
  PROVE  pc'[t] = "finished" /\ port'[t] = Absent /\ phase'[t[1]] = "killed"
  BY DEF TypeInv, TypeOK, Kill

LEMMA PortInit == Init => PortInv
  BY DEF Init, PortInv

LEMMA SamePort ==
  ASSUME PortInv, NEW t \in Threads, port'[t] = port[t], attempt'[t] = attempt[t]
  PROVE  port'[t] # Absent => port'[t] \in Candidates(t)'
  BY DEF PortInv, Candidates, FirstPair

LEMMA OwnPort ==
  ASSUME TypeInv, PortInv, NEW t \in Threads, Step(t)
  PROVE  port'[t] # Absent => port'[t] \in Candidates(t)'
<1> USE DEF TypeInv, TypeOK
<1>1. ASSUME NEW r, Record(t, r) PROVE port'[t] = Absent
  BY <1>1 DEF Record
<1>2. ASSUME NEW e, NEW p, Raise(t, e, p)
      PROVE  port'[t] = port[t] /\ attempt'[t] = attempt[t]
  BY <1>2 DEF Raise
<1>3. CASE SelectPorts(t)
  <2>1. CASE \E c \in Candidates(t) :
               port' = [port EXCEPT ![t] = c] /\ UNCHANGED attempt
    BY <2>1 DEF Candidates, FirstPair
  <2> QED
    BY <1>1, <1>2, <1>3, <2>1, SamePort DEF SelectPorts
<1>4. CASE Preflight(t)
  BY <1>2, <1>4, SamePort DEF Preflight, local
<1>5. CASE ResetStack(t)
  BY <1>2, <1>5, SamePort DEF ResetStack, local
<1>6. CASE Up(t)
  BY <1>2, <1>6, SamePort DEF Up, local
<1>7. CASE PrepareWorld(t)
  BY <1>2, <1>7, SamePort DEF PrepareWorld, local
<1>8. CASE Play(t)
  BY <1>2, <1>8, SamePort DEF Play
<1>9. CASE TearDown(t)
  BY <1>9, SamePort DEF TearDown, local
<1>10. CASE Judge(t)
  BY <1>1, <1>10, SamePort DEF Judge, local
<1>11. CASE Sweep(t)
  BY <1>1, <1>11 DEF Sweep, Retry
<1> QED
  BY <1>3, <1>4, <1>5, <1>6, <1>7, <1>8, <1>9, <1>10, <1>11 DEF Step

LEMMA PortStep == TypeInv /\ PortInv /\ [Next]_vars => PortInv'
<1> SUFFICES ASSUME TypeInv, PortInv, [Next]_vars, NEW t \in Threads
             PROVE  port'[t] # Absent => port'[t] \in Candidates(t)'
  BY DEF PortInv
<1>1. CASE UNCHANGED vars
  BY <1>1, SamePort DEF vars, local
<1>2. ASSUME NEW u \in Threads, Step(u)
      PROVE  port'[t] # Absent => port'[t] \in Candidates(t)'
  BY <1>2, OwnPort, OthersSame, SamePort DEF Same
<1>3. ASSUME NEW r \in Runs, Clear(r) \/ Refuse(r) \/ Collect(r) \/ Kill(r)
      PROVE  port'[t] # Absent => port'[t] \in Candidates(t)'
  BY <1>3, RunsSame, StoppedSame, KilledSame, SamePort DEF Same
<1> QED
  BY <1>1, <1>2, <1>3 DEF Next

(* Whatever its retries, a worker keeps to the pairs of its own number     *)
(* modulo the number of workers.                                           *)
THEOREM PortsApart == Spec => []WorkersNeverShareAPort
<1>1. Init => TypeInv /\ PortInv
  BY TypeInit, PortInit
<1>2. TypeInv /\ PortInv /\ [Next]_vars => (TypeInv /\ PortInv)'
  BY TypeStep, PortStep
<1>3. TypeInv /\ PortInv => WorkersNeverShareAPort
  BY PortImplies
<1> QED
  BY <1>1, <1>2, <1>3, PTL DEF Spec

-----------------------------------------------------------------------------
(* ------------------- every stack has one owner ------------------------- *)

RunsApart ==
  \A q, r \in Runs :
    phase[q] = "running" /\ phase[r] = "running" /\ RunId[q] = RunId[r] => q = r

LEMMA ApartInit == Init => RunsApart
  BY DEF Init, RunsApart

LEMMA ApartStep == TypeInv /\ RunsApart /\ [Next]_vars => RunsApart'
<1> SUFFICES ASSUME TypeInv, RunsApart, [Next]_vars PROVE RunsApart'
  OBVIOUS
<1> USE DEF RunsApart, TypeInv, TypeOK
<1>1. CASE UNCHANGED vars
  BY <1>1 DEF vars
<1>2. ASSUME NEW r \in Runs, Clear(r) PROVE RunsApart'
  BY <1>2 DEF Clear, IdIsFree
<1>3. ASSUME NEW r \in Runs, Refuse(r) \/ Collect(r) \/ Kill(r) PROVE RunsApart'
  BY <1>3 DEF Refuse, Collect, Kill
<1>4. ASSUME NEW u \in Threads, Step(u) PROVE UNCHANGED phase
  BY <1>4 DEF Step, SelectPorts, Preflight, ResetStack, Up, PrepareWorld, Play, TearDown,
     Judge, Sweep, Retry, Record, Raise, Goto
<1> QED
  BY <1>1, <1>2, <1>3, <1>4 DEF Next

LEMMA OwnersDiffer ==
  ASSUME TypeInv, RunsApart, NEW t \in Threads, NEW u \in Threads,
         phase[t[1]] = "running", phase[u[1]] = "running", Project(t) = Project(u)
  PROVE  t = u
<1>1. AttemptId(t[1], attempt[t]) = AttemptId(u[1], attempt[u]) /\ t[2] = u[2]
  BY DEF Project
<1>2. t[1] \in Runs /\ u[1] \in Runs /\ attempt[t] \in Attempts /\ attempt[u] \in Attempts
  BY ThreadFacts DEF TypeInv, TypeOK
<1>3. RunId[t[1]] = RunId[u[1]]
  BY <1>1, <1>2, HarnessAssumed DEF IdsApart
<1> QED
  BY <1>1, <1>2, <1>3, ThreadFacts DEF RunsApart

(* The clean-up by name finds the stacks of this id and of these workers.  *)
LEMMA MatchingExact ==
  ASSUME NEW x \in AttemptIds, NEW ws \in SUBSET DOMAIN WorkerToken,
         NEW p \in Matching(x, ws)
  PROVE  p[1] = x /\ p[2] \in ws
<1>1. p \in Projects /\ p[1] \in AttemptIds /\ p[2] \in DOMAIN WorkerToken
  BY DEF Matching, Projects
<1>2. p[1] \in Seq(STRING) /\ x \in Seq(STRING) /\ WorkerToken[p[2]] \in STRING
  BY <1>1, HarnessAssumed DEF HarnessAssumption
<1> DEFINE name == Append(p[1], WorkerToken[p[2]])
<1>3. PICK n \in 1 .. Len(name), w \in ws : SubSeq(name, 1, n) = Append(x, WorkerToken[w])
  BY DEF Matching, ContainerName
<1>4. WorkerToken[w] \in STRING
  BY HarnessAssumed DEF HarnessAssumption
<1>5. name \in Seq(STRING) /\ Len(name) = Len(p[1]) + 1 /\ Len(p[1]) \in Nat
  BY <1>2, AppendProperties, LenProperties
<1>6. CASE n <= Len(p[1])
  <2>1. n \in 1 .. Len(p[1]) /\ 1 \in 1 .. Len(p[1])
    BY <1>3, <1>5, <1>6
  <2>2. <<WorkerToken[p[2]]>> \in Seq(STRING)
    BY <1>2
  <2>3. name = p[1] \o <<WorkerToken[p[2]]>>
    BY <1>2, AppendIsConcat
  <2>4. SubSeq(name, 1, n) = SubSeq(p[1], 1, n)
    BY <1>2, <2>1, <2>2, <2>3, SubSeqOfConcat1
  <2>5. SubSeq(p[1], 1, n) = Append(x, WorkerToken[w])
    BY <1>3, <2>4
  <2> QED
    BY <1>1, <2>1, <2>5, HarnessAssumed DEF IdsApart
<1>7. CASE n = Len(name)
  <2>1. SubSeq(name, 1, n) = name
    BY <1>5, <1>7, SubSeqFull
  <2>2. Append(p[1], WorkerToken[p[2]]) = Append(x, WorkerToken[w])
    BY <1>3, <2>1
  <2>3. p[1] = x /\ WorkerToken[p[2]] = WorkerToken[w]
    BY <1>2, <1>4, <2>2, AppendInjective
  <2>4. p[2] = w
    BY <1>1, <2>3, HarnessAssumed DEF HarnessAssumption
  <2> QED
    BY <2>3, <2>4
<1> QED
  BY <1>3, <1>5, <1>6, <1>7

(* No two stacks publish the same pair of ports.                           *)
Unique ==
  \A p, q \in Projects : stack[p] \in Pairs /\ stack[p] = stack[q] => p = q

(* What worker t relies on between the steps of an attempt.                *)
Here(t) == <<t[1], item[t], attempt[t]>>

Own(t) ==
  phase[t[1]] = "running" =>
    /\ pc[t] \in {"preflight", "reset", "up", "prepare", "play"} => port[t] \in Pairs
    /\ pc[t] \in {"prepare", "play"} => stack[Project(t)] = port[t]
    /\ pc[t] = "play" => world[Project(t)] = Here(t)
    /\ pc[t] \in {"down", "judge"} /\ result[t] = "ok" => seen[t] = Here(t)

OwnInv == RunsApart /\ Unique /\ \A t \in Threads : Own(t)

Untouched(t) ==
  stack'[Project(t)] = stack[Project(t)] /\ world'[Project(t)] = world[Project(t)]

LEMMA RemoveOther ==
  ASSUME TypeInv, NEW t \in Threads, NEW gone, Remove(gone), Project(t) \notin gone
  PROVE  Untouched(t)
<1>1. Project(t) \in Projects
  BY ProjectIn DEF TypeInv, TypeOK
<1> QED
  BY <1>1 DEF Remove, Untouched

(* The other workers and the refused runs leave the server of t alone.     *)
LEMMA OthersLeave ==
  ASSUME TypeInv, OwnInv, NEW t \in Threads, NEW u \in Threads, t # u, Step(u), InUse(t)
  PROVE  Untouched(t)
<1> USE DEF OwnInv
<1>1. phase[t[1]] = "running"
  BY DEF InUse
<1>2. Project(t) \in Projects /\ Project(u) \in Projects
  BY ProjectIn DEF TypeInv, TypeOK
<1>3. phase[u[1]] = "running" => Project(t) # Project(u)
  BY <1>1, OwnersDiffer
<1>4. UNCHANGED docker => Untouched(t)
  BY DEF docker, Untouched
<1>5. CASE SelectPorts(u) \/ Preflight(u) \/ Play(u) \/ Judge(u)
  BY <1>4, <1>5 DEF SelectPorts, Preflight, Play, Judge
<1>6. CASE ResetStack(u)
  BY <1>3, <1>4, <1>6, RemoveOther DEF ResetStack, At
<1>7. CASE Up(u)
  <2>1. \E s : stack' = [stack EXCEPT ![Project(u)] = s]
    BY <1>7 DEF Up
  <2>2. world' = [world EXCEPT ![Project(u)] = NoWorld]
    BY <1>7 DEF Up
  <2>3. Project(t) # Project(u)
    BY <1>3, <1>7 DEF Up, At
  <2> QED
    BY <1>2, <2>1, <2>2, <2>3 DEF Untouched, TypeInv, TypeOK
<1>8. CASE PrepareWorld(u)
  <2>1. phase[u[1]] = "running" /\ pc[u] = "prepare"
    BY <1>8 DEF PrepareWorld, At
  <2>2. port[u] \in Pairs /\ stack[Project(u)] = port[u]
    BY <2>1 DEF Own
  <2>3. Project(t) \notin Serving(u)
    BY <1>2, <1>3, <2>1, <2>2 DEF Unique, Serving
  <2>4. stack' = stack /\ \A p \in Projects \ Serving(u) : world'[p] = world[p]
    BY <1>8 DEF PrepareWorld
  <2> QED
    BY <1>2, <2>3, <2>4 DEF Untouched
<1>9. CASE TearDown(u)
  <2>1. CASE Remove({Project(u)})
    BY <1>3, <1>9, <2>1, RemoveOther DEF TearDown, At
  <2>2. CASE UNCHANGED <<stack, world>>
    BY <2>2 DEF Untouched
  <2> QED
    BY <1>9, <2>1, <2>2 DEF TearDown
<1>10. CASE Sweep(u)
  <2>1. attempt[u] \in Attempts /\ u[1] \in Runs /\ u[2] \in DOMAIN WorkerToken
    BY ThreadFacts DEF TypeInv, TypeOK
  <2>2. AttemptId(u[1], attempt[u]) \in AttemptIds
    BY <2>1 DEF AttemptIds
  <2>3. phase[u[1]] = "running"
    BY <1>10 DEF Sweep, At
  <2>4. Project(t) \notin Matching(AttemptId(u[1], attempt[u]), {u[2]})
    BY <1>3, <2>1, <2>2, <2>3, MatchingExact DEF Project
  <2> QED
    BY <1>4, <1>10, <2>4, RemoveOther DEF Sweep, CleanupExact
<1> QED
  BY <1>5, <1>6, <1>7, <1>8, <1>9, <1>10 DEF Step

LEMMA RunsLeave ==
  ASSUME TypeInv, OwnInv, NEW t \in Threads, InUse(t),
         NEW r \in Runs, Clear(r) \/ Refuse(r) \/ Collect(r) \/ Kill(r)
  PROVE  Untouched(t)
<1>1. CASE Clear(r) \/ Collect(r)
  BY <1>1 DEF Clear, Collect, docker, Untouched
<1>2. CASE Kill(r)
  BY <1>2 DEF Kill, Untouched
<1>3. CASE Refuse(r)
  <2>1. t[1] \in Runs /\ attempt[t] \in Attempts /\ 0 \in Attempts
    BY ThreadFacts, AttemptIn DEF TypeInv, TypeOK
  <2>2. RunId[r] = AttemptId(r, 0) /\ RunId[r] \in AttemptIds
    BY <2>1 DEF AttemptId, AttemptIds
  <2>3. Project(t)[1] # RunId[r]
    <3>1. RunId[t[1]] # RunId[r]
      BY <1>3, <2>1 DEF Refuse, IdIsFree, InUse
    <3> QED
      BY <2>1, <2>2, <3>1, HarnessAssumed DEF Project, IdsApart
  <2>4. Project(t) \notin Matching(RunId[r], DOMAIN WorkerToken)
    BY <2>2, <2>3, MatchingExact
  <2>5. UNCHANGED docker => Untouched(t)
    BY DEF docker, Untouched
  <2> QED
    BY <1>3, <2>4, <2>5, RemoveOther DEF Refuse, CleanupExact
<1> QED
  BY <1>1, <1>2, <1>3

LEMMA OwnInit == Init => OwnInv
<1> SUFFICES ASSUME Init PROVE OwnInv
  OBVIOUS
<1>1. Unique
  BY Bounds DEF Init, Unique, Pairs, Absent
<1>2. \A t \in Threads : Own(t)
  BY ThreadFacts DEF Init, Own
<1> QED
  BY <1>1, <1>2, ApartInit DEF OwnInv

(* Stacks only go, or come up at a pair that was free.                     *)
LEMMA UniqueShrinks ==
  ASSUME Unique, \A p \in Projects : stack'[p] \in {stack[p], Absent, Portless}
  PROVE  Unique'
<1>1. Absent \notin Pairs /\ Portless \notin Pairs
  BY Bounds DEF Absent, Portless, Pairs
<1> QED
  BY <1>1 DEF Unique

LEMMA RemoveShrinks ==
  ASSUME NEW gone, Remove(gone)
  PROVE  \A p \in Projects : stack'[p] \in {stack[p], Absent, Portless}
  BY DEF Remove

LEMMA CleanupShrinks ==
  ASSUME NEW id, NEW ws, CleanupExact(id, ws)
  PROVE  \A p \in Projects : stack'[p] \in {stack[p], Absent, Portless}
  BY RemoveShrinks DEF CleanupExact, docker

LEMMA UniqueStep ==
  ASSUME TypeInv, Unique, [Next]_vars
  PROVE  Unique'
<1>1. CASE UNCHANGED stack
  BY <1>1 DEF Unique
<1>2. CASE UNCHANGED vars
  BY <1>1, <1>2 DEF vars, docker
<1>3. ASSUME NEW r \in Runs, Clear(r) \/ Refuse(r) \/ Collect(r) \/ Kill(r)
      PROVE  Unique'
  BY <1>1, <1>3, CleanupShrinks, UniqueShrinks DEF Clear, Refuse, Collect, Kill, docker
<1>4. ASSUME NEW t \in Threads, Step(t) PROVE Unique'
  <2>1. CASE SelectPorts(t) \/ Preflight(t) \/ PrepareWorld(t) \/ Play(t) \/ Judge(t)
    BY <1>1, <2>1 DEF SelectPorts, Preflight, PrepareWorld, Play, Judge, docker
  <2>2. CASE ResetStack(t)
    BY <1>1, <2>2, RemoveShrinks, UniqueShrinks DEF ResetStack, docker
  <2>3. CASE TearDown(t)
    BY <1>1, <2>3, RemoveShrinks, UniqueShrinks DEF TearDown
  <2>4. CASE Sweep(t)
    BY <2>4, CleanupShrinks, UniqueShrinks DEF Sweep
  <2>5. CASE Up(t)
    <3>1. Project(t) \in Projects /\ stack \in [Projects -> Pairs \cup {Absent, Portless}]
      BY ProjectIn DEF TypeInv, TypeOK
    <3>2. CASE port[t] \notin Bound /\ stack' = [stack EXCEPT ![Project(t)] = port[t]]
      <4>1. Absent \notin Pairs
        BY Bounds DEF Absent, Pairs
      <4>2. \A p \in Projects : stack[p] \in Pairs => stack[p] # port[t]
        BY <3>2, <4>1 DEF Bound, Present
      <4> QED
        BY <3>1, <3>2, <4>2 DEF Unique
    <3>3. CASE \E s \in {stack[Project(t)], Portless} : stack' = [stack EXCEPT ![Project(t)] = s]
      BY <3>1, <3>3, UniqueShrinks
    <3> QED
      BY <2>5, <3>2, <3>3 DEF Up
  <2> QED
    BY <1>4, <2>1, <2>2, <2>3, <2>4, <2>5 DEF Step
<1> QED
  BY <1>2, <1>3, <1>4 DEF Next

LEMMA OwnSame ==
  ASSUME NEW t \in Threads, Own(t), Same(t), phase'[t[1]] = phase[t[1]],
         InUse(t) => Untouched(t)
  PROVE  Own(t)'
<1>1. Project(t)' = Project(t) /\ Here(t)' = Here(t)
  BY DEF Same, Project, Here
<1> QED
  BY <1>1 DEF Own, Same, InUse, Composed, Untouched

(* The steps of a worker keep what it relies on itself.                    *)
LEMMA OwnMoves ==
  ASSUME TypeInv, OwnInv, NEW t \in Threads, Step(t)
  PROVE  Own(t)' /\ (InUse(t) => pc'[t] # pc[t]) /\ UNCHANGED phase
<1> USE DEF Composed
<1>1. Own(t)
  BY DEF OwnInv
<1>2. /\ pc \in [Threads -> Steps] /\ seen \in [Threads -> Worlds]
      /\ result \in [Threads -> {"ok", "failed", "broken pipe"}]
      /\ port \in [Threads -> Pairs \cup {Absent}]
      /\ attempt \in [Threads -> Attempts] /\ item \in [Threads -> Nat]
      /\ stack \in [Projects -> Pairs \cup {Absent, Portless}]
      /\ world \in [Projects -> Worlds]
      /\ Project(t) \in Projects
  BY ProjectIn DEF TypeInv, TypeOK
<1>3. ASSUME NEW r, Record(t, r)
      PROVE  pc'[t] \in {"select", "finished"} /\ UNCHANGED phase
  BY <1>2, <1>3 DEF Record, Goto
<1>4. ASSUME NEW e \in Errors, NEW p, Raise(t, e, p)
      PROVE  pc'[t] = p /\ UNCHANGED phase /\ result'[t] # "ok"
  BY <1>2, <1>4 DEF Raise, Goto, Errors
<1>5. ASSUME NEW p, Goto(t, p)
      PROVE  pc'[t] = p /\ UNCHANGED phase
  BY <1>2, <1>5 DEF Goto
<1>6. ASSUME pc'[t] \notin {"preflight", "reset", "up", "prepare", "play", "down", "judge"}
      PROVE  Own(t)'
  BY <1>6 DEF Own
<1>7. ASSUME pc'[t] \in {"down", "judge"}, result'[t] # "ok"
      PROVE  Own(t)'
  BY <1>7 DEF Own
<1>8. "failed" \in Errors
  BY DEF Errors
<1>9. CASE SelectPorts(t)
  <2>1. pc[t] = "select"
    BY <1>9 DEF SelectPorts, At
  <2>2. CASE /\ \E c \in Pairs : port' = [port EXCEPT ![t] = c]
             /\ Goto(t, "preflight")
    <3>1. pc'[t] = "preflight" /\ UNCHANGED phase
      BY <1>5, <2>2
    <3>2. port'[t] \in Pairs
      BY <1>2, <2>2
    <3> QED
      BY <2>1, <3>1, <3>2 DEF Own, InUse
  <2>3. CASE Raise(t, "failed", "judge")
    BY <1>4, <1>7, <1>8, <2>1, <2>3
  <2>4. CASE Record(t, "failed")
    BY <1>3, <1>6, <2>1, <2>4 DEF InUse
  <2> QED
    BY <1>9, <2>1, <2>2, <2>3, <2>4 DEF SelectPorts, Candidates, InUse
<1>10. CASE Preflight(t)
  <2>1. pc[t] = "preflight" /\ phase[t[1]] = "running"
    BY <1>10 DEF Preflight, At
  <2>2. CASE Raise(t, "failed", "judge")
    BY <1>4, <1>7, <1>8, <2>1, <2>2 DEF InUse
  <2>3. CASE Goto(t, "reset") /\ UNCHANGED local
    BY <1>1, <1>5, <2>1, <2>3 DEF Own, local, InUse
  <2> QED
    BY <1>10, <2>2, <2>3 DEF Preflight
<1>11. CASE ResetStack(t)
  <2>1. pc[t] = "reset" /\ phase[t[1]] = "running"
    BY <1>11 DEF ResetStack, At
  <2>2. CASE \E e \in Errors : Raise(t, e, "down")
    BY <1>4, <1>7, <2>1, <2>2
  <2>3. CASE Goto(t, "up") /\ UNCHANGED local
    BY <1>1, <1>5, <2>1, <2>3 DEF Own, local
  <2> QED
    BY <1>11, <2>2, <2>3 DEF ResetStack
<1>12. CASE Up(t)
  <2>1. pc[t] = "up" /\ phase[t[1]] = "running"
    BY <1>12 DEF Up, At
  <2>2. CASE \E e \in Errors : Raise(t, e, "down")
    BY <1>4, <1>7, <2>1, <2>2
  <2>3. CASE /\ Goto(t, "prepare") /\ UNCHANGED local
             /\ stack' = [stack EXCEPT ![Project(t)] = port[t]]
    <3>1. Project(t)' = Project(t) /\ stack'[Project(t)] = port[t] /\ port'[t] = port[t]
      BY <1>2, <2>3 DEF Project, local
    <3> QED
      BY <1>1, <1>5, <2>1, <2>3, <3>1 DEF Own
  <2> QED
    BY <1>8, <1>12, <2>2, <2>3 DEF Up
<1>13. CASE PrepareWorld(t)
  <2>1. pc[t] = "prepare" /\ phase[t[1]] = "running"
    BY <1>13 DEF PrepareWorld, At
  <2>2. CASE \E e \in Errors : Raise(t, e, "down")
    BY <1>4, <1>7, <2>1, <2>2
  <2>3. CASE /\ Goto(t, "play") /\ UNCHANGED local
             /\ world' = [p \in Projects |-> IF p \in Serving(t)
                                               THEN <<t[1], item[t], attempt[t]>>
                                               ELSE world[p]]
    <3>1. Project(t)' = Project(t) /\ port'[t] = port[t] /\ Here(t)' = Here(t)
      BY <2>3 DEF Project, local, Here
    <3>2. stack' = stack /\ Project(t) \in Serving(t)
      BY <1>1, <1>2, <1>13, <2>1 DEF PrepareWorld, Own, Serving
    <3>3. world'[Project(t)] = Here(t)
      BY <1>2, <2>3, <3>2 DEF Here
    <3> QED
      BY <1>1, <1>5, <2>1, <2>3, <3>1, <3>2, <3>3 DEF Own
  <2> QED
    BY <1>13, <2>2, <2>3 DEF PrepareWorld
<1>14. CASE Play(t)
  <2>1. pc[t] = "play" /\ phase[t[1]] = "running"
    BY <1>14 DEF Play, At
  <2>2. CASE \E e \in Errors : Raise(t, e, "down")
    BY <1>4, <1>7, <2>1, <2>2
  <2>3. ASSUME NEW p \in Serving(t), seen' = [seen EXCEPT ![t] = world[p]],
               Goto(t, "down"), UNCHANGED <<item, attempt>>
        PROVE  Own(t)' /\ pc'[t] = "down" /\ UNCHANGED phase
    <3>1. stack[Project(t)] = port[t] /\ port[t] \in Pairs
      BY <1>1, <2>1 DEF Own
    <3>2. p = Project(t)
      BY <1>2, <2>3, <3>1 DEF OwnInv, Unique, Serving
    <3>3. seen'[t] = Here(t)'
      BY <1>1, <1>2, <2>1, <2>3, <3>2 DEF Own, Here
    <3> QED
      BY <1>5, <2>3, <3>3 DEF Own
  <2> QED
    BY <1>14, <2>1, <2>2, <2>3 DEF Play
<1>15. CASE TearDown(t)
  <2>1. pc[t] = "down" /\ phase[t[1]] = "running" /\ Goto(t, "judge")
    BY <1>15 DEF TearDown, At
  <2>2. UNCHANGED <<item, attempt, seen>> /\ (result'[t] = "ok" => result[t] = "ok")
    <3>1. CASE UNCHANGED local
      BY <3>1 DEF local
    <3>2. CASE \E e \in Errors : result' = [result EXCEPT ![t] = e]
      BY <1>2, <1>15, <3>2 DEF TearDown, Errors, local
    <3> QED
      BY <1>15, <3>1, <3>2 DEF TearDown, local
  <2> QED
    BY <1>1, <1>5, <2>1, <2>2 DEF Own, Here
<1>16. CASE Judge(t)
  <2>1. pc[t] = "judge"
    BY <1>16 DEF Judge, At
  <2>2. CASE Goto(t, "sweep")
    BY <1>5, <1>6, <2>1, <2>2
  <2>3. CASE Record(t, result[t])
    BY <1>3, <1>6, <2>1, <2>3
  <2> QED
    BY <1>16, <2>2, <2>3 DEF Judge
<1>17. CASE Sweep(t)
  <2>1. pc[t] = "sweep"
    BY <1>17 DEF Sweep, At
  <2>2. CASE Retry(t)
    BY <1>5, <1>6, <2>1, <2>2 DEF Retry
  <2>3. CASE Record(t, "failed")
    BY <1>3, <1>6, <2>1, <2>3
  <2> QED
    BY <1>17, <2>2, <2>3 DEF Sweep
<1> QED
  BY <1>9, <1>10, <1>11, <1>12, <1>13, <1>14, <1>15, <1>16, <1>17 DEF Step

LEMMA OwnStep == TypeInv /\ OwnInv /\ [Next]_vars => OwnInv'
<1> SUFFICES ASSUME TypeInv, OwnInv, [Next]_vars PROVE OwnInv'
  OBVIOUS
<1>1. RunsApart' /\ Unique'
  BY ApartStep, UniqueStep DEF OwnInv
<1>2. ASSUME NEW t \in Threads PROVE Own(t)'
  <2>1. Own(t)
    BY DEF OwnInv
  <2>2. CASE UNCHANGED vars
    BY <2>1, <2>2 DEF vars, local, docker, Own, Project, Here
  <2>3. CASE Step(t)
    BY <2>3, OwnMoves
  <2>4. ASSUME NEW u \in Threads, Step(u), u # t PROVE Own(t)'
    BY <2>1, <2>4, OthersSame, OthersLeave, OwnSame
  <2>5. ASSUME NEW r \in Runs, Clear(r) \/ Refuse(r) \/ Collect(r) \/ Kill(r)
        PROVE  Own(t)'
    <3>1. CASE t[1] # r
      BY <2>1, <2>5, <3>1, RunsSame, RunsLeave, OwnSame
    <3>2. CASE t[1] = r /\ Clear(r)
      BY <3>2, StoppedSame DEF Own
    <3>3. CASE t[1] = r /\ (Refuse(r) \/ Collect(r) \/ Kill(r))
      <4>1. phase'[t[1]] # "running"
        BY <3>3 DEF Refuse, Collect, Kill, TypeInv, TypeOK
      <4> QED
        BY <4>1 DEF Own
    <3> QED
      BY <2>5, <3>1, <3>2, <3>3
  <2> QED
    BY <2>2, <2>3, <2>4, <2>5 DEF Next
<1> QED
  BY <1>1, <1>2 DEF OwnInv

LEMMA UndisturbedStep ==
  ASSUME TypeInv, OwnInv, [Next]_vars, NEW t \in Threads,
         InUse(t), InUse(t)', pc[t] = pc'[t]
  PROVE  Untouched(t)
<1>1. CASE UNCHANGED vars
  BY <1>1 DEF vars, docker, Untouched
<1>2. CASE Step(t)
  BY <1>2, OwnMoves
<1>3. ASSUME NEW u \in Threads, Step(u), u # t PROVE Untouched(t)
  BY <1>3, OthersLeave
<1>4. ASSUME NEW r \in Runs, Clear(r) \/ Refuse(r) \/ Collect(r) \/ Kill(r)
      PROVE  Untouched(t)
  BY <1>4, RunsLeave
<1> QED
  BY <1>1, <1>2, <1>3, <1>4 DEF Next

(* Between two steps of a worker nobody changes its server: clean-ups go   *)
(* by names that are its own, and no server takes a pair that is bound.    *)
THEOREM Undisturbed == Spec => ServersAreUndisturbed
<1> DEFINE Kept == \A t \in Threads :
                     InUse(t) /\ InUse(t)' /\ pc[t] = pc'[t]
                     => /\ stack'[Project(t)] = stack[Project(t)]
                        /\ world'[Project(t)] = world[Project(t)]
<1>1. Init => TypeInv /\ OwnInv
  BY TypeInit, OwnInit
<1>2. TypeInv /\ OwnInv /\ [Next]_vars => (TypeInv /\ OwnInv)'
  BY TypeStep, OwnStep
<1>3. TypeInv /\ OwnInv /\ [Next]_vars => [Kept]_vars
  BY UndisturbedStep DEF Untouched
<1>4. ServersAreUndisturbed <=> [][Kept]_vars
  BY DEF ServersAreUndisturbed
<1> QED
  BY <1>1, <1>2, <1>3, <1>4, PTL DEF Spec

-----------------------------------------------------------------------------
(* ----------------------------- the rows -------------------------------- *)

LEMMA RowsInit == Init => OkRowsAreReal
  BY DEF Init, OkRowsAreReal

LEMMA RecordRows ==
  ASSUME TypeInv, OkRowsAreReal, NEW t \in Threads, NEW r, Record(t, r),
         r = "ok" => seen[t] = Here(t)
  PROVE  OkRowsAreReal'
<1> SUFFICES ASSUME NEW x \in Rows, row'[x] = "ok"
             PROVE  \E a \in Attempts : rowSeen'[x] = <<x[1], x[2], a>>
  BY DEF OkRowsAreReal
<1>1. row \in [Rows -> {"none", "ok", "failed"}] /\ rowSeen \in [Rows -> Worlds]
      /\ attempt[t] \in Attempts
  BY DEF TypeInv, TypeOK
<1>2. CASE x = <<t[1], item[t]>>
  <2>1. r = "ok" /\ rowSeen'[x] = seen[t]
    BY <1>1, <1>2 DEF Record
  <2>2. rowSeen'[x] = <<t[1], item[t], attempt[t]>> /\ x[1] = t[1] /\ x[2] = item[t]
    BY <1>2, <2>1 DEF Here
  <2> QED
    BY <1>1, <2>2
<1>3. CASE x # <<t[1], item[t]>>
  BY <1>1, <1>3 DEF Record, OkRowsAreReal
<1> QED
  BY <1>2, <1>3

LEMMA RowsStep == TypeInv /\ OwnInv /\ OkRowsAreReal /\ [Next]_vars => OkRowsAreReal'
<1> SUFFICES ASSUME TypeInv, OwnInv, OkRowsAreReal, [Next]_vars PROVE OkRowsAreReal'
  OBVIOUS
<1>1. CASE UNCHANGED <<row, rowSeen>>
  BY <1>1 DEF OkRowsAreReal
<1>2. CASE UNCHANGED vars
  BY <1>1, <1>2 DEF vars, local
<1>3. ASSUME NEW r \in Runs, Clear(r) \/ Refuse(r) \/ Collect(r) PROVE OkRowsAreReal'
  BY <1>1, <1>3 DEF Clear, Refuse, Collect, local
<1>4. ASSUME NEW r \in Runs, Kill(r) PROVE OkRowsAreReal'
  BY <1>4 DEF Kill, OkRowsAreReal, TypeInv, TypeOK
<1>5. ASSUME NEW t \in Threads, Record(t, "failed") PROVE OkRowsAreReal'
  BY <1>5, RecordRows
<1>6. ASSUME NEW t \in Threads,
             \/ Preflight(t) \/ ResetStack(t) \/ Up(t) \/ PrepareWorld(t)
             \/ Play(t) \/ TearDown(t)
      PROVE  OkRowsAreReal'
  BY <1>1, <1>6 DEF Preflight, ResetStack, Up, PrepareWorld, Play, TearDown, Raise, local
<1>7. ASSUME NEW t \in Threads, SelectPorts(t) PROVE OkRowsAreReal'
  BY <1>1, <1>5, <1>7 DEF SelectPorts, Raise
<1>8. ASSUME NEW t \in Threads, Judge(t) PROVE OkRowsAreReal'
  <2>1. CASE Record(t, result[t])
    <3>1. pc[t] = "judge" /\ phase[t[1]] = "running"
      BY <1>8 DEF Judge, At
    <3>2. result[t] = "ok" => seen[t] = Here(t)
      BY <3>1 DEF OwnInv, Own
    <3> QED
      BY <2>1, <3>2, RecordRows
  <2> QED
    BY <1>1, <1>8, <2>1 DEF Judge, local
<1>9. ASSUME NEW t \in Threads, Sweep(t) PROVE OkRowsAreReal'
  BY <1>1, <1>5, <1>9 DEF Sweep, Retry
<1> QED
  BY <1>2, <1>3, <1>4, <1>6, <1>7, <1>8, <1>9 DEF Next, Step

(* A row reported ok is of the world that this run set up for it: the      *)
(* server at a worker's port is the worker's own while it plays.           *)
THEOREM RowsAreReal == Spec => []OkRowsAreReal
<1>1. Init => TypeInv /\ OwnInv /\ OkRowsAreReal
  BY TypeInit, OwnInit, RowsInit
<1>2. TypeInv /\ OwnInv /\ OkRowsAreReal /\ [Next]_vars
      => (TypeInv /\ OwnInv /\ OkRowsAreReal)'
  BY TypeStep, OwnStep, RowsStep
<1> QED
  BY <1>1, <1>2, PTL DEF Spec

-----------------------------------------------------------------------------
(* ----------------------- nothing is left behind ------------------------ *)

LEMMA LeftInit == Init => NothingLeftUnexplained
  BY DEF Init, NothingLeftUnexplained, Present

(* What is enough: nothing new comes up but in use, and a worker keeps its *)
(* stack, has taken it down, or it is excused.                             *)
LEMMA LeftKept ==
  ASSUME NothingLeftUnexplained,
         \A p \in Present' : p \in Present \/ \E t \in Threads : InUse(t)' /\ p = Project(t)',
         \A p \in Present' : p \in excused => p \in excused',
         \A t \in Threads : InUse(t) =>
           \/ InUse(t)' /\ Project(t)' = Project(t)
           \/ Project(t) \notin Present' \/ Project(t) \in excused'
  PROVE  NothingLeftUnexplained'
<1> SUFFICES ASSUME NEW p \in Present'
             PROVE  p \in excused' \/ \E t \in Threads : InUse(t)' /\ p = Project(t)'
  BY DEF NothingLeftUnexplained
<1>1. CASE p \in Present /\ p \in excused
  BY <1>1
<1>2. CASE p \in Present /\ \E t \in Threads : InUse(t) /\ p = Project(t)
  BY <1>2
<1> QED
  BY <1>1, <1>2 DEF NothingLeftUnexplained

LEMMA RemoveLeaves ==
  ASSUME TypeInv, NEW gone, Remove(gone)
  PROVE  Present' = Present \ gone /\ excused' = excused \ gone
<1>1. ASSUME NEW p \in Projects
      PROVE  stack'[p] # Absent <=> stack[p] # Absent /\ p \notin gone
  BY DEF Remove
<1> QED
  BY <1>1 DEF Present, Remove

LEMMA UseKept ==
  ASSUME NEW t \in Threads, InUse(t), Same(t), phase'[t[1]] = phase[t[1]]
  PROVE  InUse(t)' /\ Project(t)' = Project(t)
  BY DEF InUse, Same, Project

(* A step of worker u within an attempt.                                   *)
LEMMA LeftByStep ==
  ASSUME TypeInv, NothingLeftUnexplained, NEW u \in Threads, Step(u),
         \A p \in Present' : p \in Present \/ (InUse(u)' /\ p = Project(u)'),
         \A p \in Present' : p \in excused => p \in excused',
         InUse(u) => \/ InUse(u)' /\ Project(u)' = Project(u)
                     \/ Project(u) \notin Present' \/ Project(u) \in excused'
  PROVE  NothingLeftUnexplained'
<1>1. ASSUME NEW t \in Threads, InUse(t), t # u
      PROVE  InUse(t)' /\ Project(t)' = Project(t)
  BY <1>1, OthersSame, UseKept
<1> QED
  BY <1>1, LeftKept

(* Until it is torn down, an attempt stays with its project.               *)
LEMMA InAttempt ==
  ASSUME TypeInv, NEW u \in Threads,
         ResetStack(u) \/ Up(u) \/ PrepareWorld(u) \/ Play(u)
  PROVE  InUse(u)' /\ Project(u)' = Project(u)
<1> USE DEF TypeInv, TypeOK, Composed
<1>1. ASSUME NEW e, Raise(u, e, "down"), phase[u[1]] = "running"
      PROVE  InUse(u)' /\ Project(u)' = Project(u)
  BY <1>1 DEF Raise, Goto, InUse, Project
<1>2. ASSUME NEW p \in Composed, Goto(u, p), UNCHANGED attempt, phase[u[1]] = "running"
      PROVE  InUse(u)' /\ Project(u)' = Project(u)
  BY <1>2 DEF Goto, InUse, Project
<1>3. CASE ResetStack(u)
  BY <1>1, <1>2, <1>3 DEF ResetStack, At, local
<1>4. CASE Up(u)
  BY <1>1, <1>2, <1>4 DEF Up, At, local
<1>5. CASE PrepareWorld(u)
  BY <1>1, <1>2, <1>5 DEF PrepareWorld, At, local
<1>6. CASE Play(u)
  BY <1>1, <1>2, <1>6 DEF Play, At
<1> QED
  BY <1>3, <1>4, <1>5, <1>6

LEMMA LeftStepThread ==
  ASSUME TypeInv, NothingLeftUnexplained, NEW u \in Threads, Step(u)
  PROVE  NothingLeftUnexplained'
<1>1. Project(u) \in Projects /\ stack \in [Projects -> Pairs \cup {Absent, Portless}]
  BY ProjectIn DEF TypeInv, TypeOK
<1>2. UNCHANGED <<stack, excused>> => Present' = Present /\ excused' = excused
  BY DEF Present
<1>3. ASSUME NEW id, NEW ws, CleanupExact(id, ws)
      PROVE  \A p \in Present' : p \in Present /\ (p \in excused => p \in excused')
  BY <1>2, <1>3, RemoveLeaves DEF CleanupExact, docker
<1>4. CASE SelectPorts(u) \/ Preflight(u) \/ Judge(u)
  <2>1. UNCHANGED <<stack, excused>> /\ ~InUse(u)
    BY <1>4 DEF SelectPorts, Preflight, Judge, docker, At, InUse, Composed
  <2> QED
    BY <1>2, <2>1, LeftByStep
<1>5. CASE Sweep(u)
  <2>1. ~InUse(u)
    BY <1>5 DEF Sweep, At, InUse, Composed
  <2> QED
    BY <1>3, <1>5, <2>1, LeftByStep DEF Sweep
<1>6. CASE ResetStack(u)
  <2>1. \A p \in Present' : p \in Present /\ (p \in excused => p \in excused')
    BY <1>2, <1>6, RemoveLeaves DEF ResetStack, docker
  <2> QED
    BY <1>6, <2>1, InAttempt, LeftByStep
<1>7. CASE PrepareWorld(u) \/ Play(u)
  <2>1. UNCHANGED <<stack, excused>>
    BY <1>7 DEF PrepareWorld, Play, docker
  <2> QED
    BY <1>2, <1>7, <2>1, InAttempt, LeftByStep
<1>8. CASE Up(u)
  <2>1. excused' = excused /\ \A p \in Projects : p # Project(u) => stack'[p] = stack[p]
    BY <1>1, <1>8 DEF Up
  <2>2. InUse(u)' /\ Project(u)' = Project(u)
    BY <1>8, InAttempt
  <2>3. \A p \in Present' : p \in Present \/ p = Project(u)
    BY <2>1 DEF Present
  <2> QED
    BY <2>1, <2>2, <2>3, LeftByStep
<1>9. CASE TearDown(u)
  <2>1. CASE Remove({Project(u)})
    BY <2>1, RemoveLeaves, LeftByStep
  <2>2. CASE /\ excused' = excused \cup ({Project(u)} \cap Present)
             /\ UNCHANGED stack
    <3>1. Present' = Present
      BY <2>2 DEF Present
    <3> QED
      BY <2>2, <3>1, LeftByStep
  <2> QED
    BY <1>9, <2>1, <2>2 DEF TearDown
<1> QED
  BY <1>4, <1>5, <1>6, <1>7, <1>8, <1>9 DEF Step

LEMMA LeftStep == TypeInv /\ NothingLeftUnexplained /\ [Next]_vars => NothingLeftUnexplained'
<1> SUFFICES ASSUME TypeInv, NothingLeftUnexplained, [Next]_vars
             PROVE  NothingLeftUnexplained'
  OBVIOUS
<1>1. CASE UNCHANGED vars
  BY <1>1 DEF vars, docker, local, NothingLeftUnexplained, Present, InUse, Project
<1>2. ASSUME NEW r \in Runs, Clear(r) \/ Refuse(r) \/ Collect(r) PROVE NothingLeftUnexplained'
  <2>1. \A p \in Present' : p \in Present /\ (p \in excused => p \in excused')
    BY <1>2, RemoveLeaves DEF Clear, Refuse, Collect, CleanupExact, docker, Present
  <2>2. ASSUME NEW t \in Threads, InUse(t) PROVE InUse(t)' /\ Project(t)' = Project(t)
    <3>1. CASE t[1] # r
      BY <1>2, <2>2, <3>1, RunsSame, UseKept
    <3>2. CASE t[1] = r
      BY <1>2, <2>2, <3>2 DEF Clear, Refuse, Collect, ThreadsOf, InUse, Composed
    <3> QED
      BY <3>1, <3>2
  <2> QED
    BY <2>1, <2>2, LeftKept
<1>3. ASSUME NEW r \in Runs, Kill(r) PROVE NothingLeftUnexplained'
  <2>1. Present' = Present
    BY <1>3 DEF Kill, Present
  <2>2. excused' = excused \cup ({Project(t) : t \in ThreadsOf(r)} \cap Present)
    BY <1>3 DEF Kill
  <2>3. ASSUME NEW t \in Threads, InUse(t)
        PROVE  \/ InUse(t)' /\ Project(t)' = Project(t)
               \/ Project(t) \notin Present' \/ Project(t) \in excused'
    <3>1. CASE t[1] # r
      BY <1>3, <2>3, <3>1, RunsSame, UseKept
    <3>2. CASE t[1] = r
      BY <2>1, <2>2, <3>2 DEF ThreadsOf
    <3> QED
      BY <3>1, <3>2
  <2> QED
    BY <2>1, <2>2, <2>3, LeftKept
<1> QED
  BY <1>1, <1>2, <1>3, LeftStepThread DEF Next

(* Every way out of an attempt passes the tear-down: what is up is in use, *)
(* or its tear-down failed, or its run was killed.                         *)
THEOREM NothingLeft == Spec => []NothingLeftUnexplained
<1>1. Init => TypeInv /\ NothingLeftUnexplained
  BY TypeInit, LeftInit
<1>2. TypeInv /\ NothingLeftUnexplained /\ [Next]_vars
      => (TypeInv /\ NothingLeftUnexplained)'
  BY TypeStep, LeftStep
<1> QED
  BY <1>1, <1>2, PTL DEF Spec

-----------------------------------------------------------------------------
(* -------------------- every variant, and only once --------------------- *)

(* A run that is done has a row for every variant: dealing the variants    *)
(* out to the workers skips none, and no failure, retry or port shortage   *)
(* drops one on the way (worker_loop).                                     *)
DoneRunsAreComplete ==
  \A r \in Runs :
    phase[r] = "done" => \A i \in 0 .. Variants[r] - 1 : row[<<r, i>>] # "none"

(* A row is written once.  No worker evaluates a variant of another one,   *)
(* nor the same variant again after its last attempt, so that rows are     *)
(* never overwritten; only a kill loses them.                              *)
RowsAreFinal ==
  [][\A x \in Rows :
       row[x] # "none" =>
         \/ row'[x] = row[x] /\ rowSeen'[x] = rowSeen[x]
         \/ phase'[x[1]] = "killed"]_vars

(* Worker t is at its number plus a multiple of the number of workers.     *)
Lane(t) == \E k \in Nat : item[t] = t[2] + k * Workers[t[1]]

(* What worker t has yet to evaluate has no row.                           *)
Ahead(t) ==
  \A k \in Nat, i \in 0 .. Variants[t[1]] - 1 :
    i = item[t] + k * Workers[t[1]] => row[<<t[1], i>>] = "none"

LaneInv == \A t \in Threads : phase[t[1]] # "killed" => Lane(t) /\ Ahead(t)

(* A variant without a row is a worker's next, or comes a round after      *)
(* another one without a row.                                              *)
Pending(r, i) ==
  \/ \E t \in ThreadsOf(r) : item[t] = i
  \/ i >= Workers[r] /\ row[<<r, i - Workers[r]>>] = "none"

CoverInv ==
  \A r \in Runs : phase[r] # "killed" =>
    \A i \in 0 .. Variants[r] - 1 : row[<<r, i>>] = "none" => Pending(r, i)

EndInv ==
  \A t \in Threads :
    /\ pc[t] = "finished" /\ phase[t[1]] # "killed" => item[t] >= Variants[t[1]]
    /\ phase[t[1]] = "done" => pc[t] = "finished"

RowInv == LaneInv /\ CoverInv /\ EndInv

LEMMA RunFacts ==
  ASSUME NEW r \in Runs
  PROVE  /\ Workers[r] \in Nat \ {0} /\ Variants[r] \in Nat \ {0}
         /\ \A w \in 0 .. Workers[r] - 1 : <<r, w>> \in ThreadsOf(r)
<1>1. /\ Workers[r] \in Nat \ {0} /\ Variants[r] \in Nat \ {0}
      /\ \A w \in 0 .. Workers[r] - 1 : w \in DOMAIN WorkerToken
  BY HarnessAssumed DEF HarnessAssumption
<1>2. ASSUME NEW w \in 0 .. Workers[r] - 1 PROVE <<r, w>> \in ThreadsOf(r)
  BY <1>1 DEF ThreadsOf, Threads
<1> QED
  BY <1>1, <1>2

LEMMA RowInvInit == Init => RowInv
<1> SUFFICES ASSUME Init PROVE RowInv
  OBVIOUS
<1>1. ASSUME NEW r \in Runs, NEW i \in 0 .. Variants[r] - 1
      PROVE  row[<<r, i>>] = "none"
  BY RowFacts DEF Init
<1>2. LaneInv
  <2> SUFFICES ASSUME NEW t \in Threads PROVE Lane(t) /\ Ahead(t)
    BY DEF LaneInv
  <2>1. item[t] = t[2] + 0 * Workers[t[1]]
    BY ThreadFacts DEF Init
  <2> QED
    BY <1>1, <2>1, ThreadFacts DEF Lane, Ahead
<1>3. CoverInv
  <2> SUFFICES ASSUME NEW r \in Runs, NEW i \in 0 .. Variants[r] - 1
               PROVE  Pending(r, i)
    BY DEF CoverInv
  <2>1. Workers[r] \in Nat \ {0} /\ Variants[r] \in Nat \ {0}
    BY RunFacts
  <2>2. CASE i < Workers[r]
    <3>1. <<r, i>> \in ThreadsOf(r)
      BY <2>1, <2>2, RunFacts
    <3>2. item[<<r, i>>] = i
      BY <3>1 DEF Init, ThreadsOf
    <3> QED
      BY <3>1, <3>2 DEF Pending
  <2>3. CASE i >= Workers[r]
    <3>1. i - Workers[r] \in 0 .. Variants[r] - 1
      BY <2>1, <2>3
    <3> QED
      BY <1>1, <2>3, <3>1 DEF Pending
  <2> QED
    BY <2>1, <2>2, <2>3
<1>4. EndInv
  BY ThreadFacts DEF Init, EndInv
<1> QED
  BY <1>2, <1>3, <1>4 DEF RowInv

(* What a step of worker t does to the rows.                               *)
LEMMA StepRecords ==
  ASSUME TypeInv, NEW t \in Threads, Step(t)
  PROVE  /\ UNCHANGED phase /\ phase[t[1]] = "running"
         /\ <<t[1], item[t]>> \in Rows
         /\ \/ \E r \in {"ok", "failed"} : Record(t, r)
            \/ UNCHANGED <<item, row, rowSeen>> /\ pc'[t] # "finished"
<1>0. phase[t[1]] = "running" /\ <<t[1], item[t]>> \in Rows
  BY DEF Step, SelectPorts, Preflight, ResetStack, Up, PrepareWorld, Play,
         TearDown, Judge, Sweep, At, TypeInv, TypeOK
<1> USE DEF Goto, local, TypeInv, TypeOK
<1>1. ASSUME NEW r, Record(t, r) PROVE UNCHANGED phase
  BY <1>1 DEF Record
<1>2. ASSUME NEW e, NEW p \in Steps \ {"finished"}, Raise(t, e, p)
      PROVE  UNCHANGED <<phase, item, row, rowSeen>> /\ pc'[t] # "finished"
  BY <1>2 DEF Raise
<1>3. CASE SelectPorts(t)
  BY <1>0, <1>1, <1>2, <1>3 DEF SelectPorts, Steps
<1>4. CASE Preflight(t)
  BY <1>0, <1>2, <1>4 DEF Preflight, Steps
<1>5. CASE ResetStack(t)
  BY <1>0, <1>2, <1>5 DEF ResetStack, Steps, Composed
<1>6. CASE Up(t)
  BY <1>0, <1>2, <1>6 DEF Up, Steps, Composed
<1>7. CASE PrepareWorld(t)
  BY <1>0, <1>2, <1>7 DEF PrepareWorld, Steps, Composed
<1>8. CASE Play(t)
  BY <1>0, <1>2, <1>8 DEF Play, Steps, Composed
<1>9. CASE TearDown(t)
  BY <1>0, <1>9 DEF TearDown
<1>10. CASE Judge(t)
  BY <1>0, <1>1, <1>10 DEF Judge
<1>11. CASE Sweep(t)
  BY <1>0, <1>1, <1>11 DEF Sweep, Retry
<1> QED
  BY <1>3, <1>4, <1>5, <1>6, <1>7, <1>8, <1>9, <1>10, <1>11 DEF Step

(* Two workers of a run never meet.                                        *)
LEMMA LanesApart ==
  ASSUME NEW t \in Threads, NEW u \in Threads, t # u, t[1] = u[1],
         Lane(t), Lane(u), NEW k \in Nat
  PROVE  item[t] # item[u] + k * Workers[u[1]]
<1> DEFINE n == Workers[t[1]]
<1>1. /\ n \in Nat \ {0} /\ t[2] \in 0 .. n - 1 /\ u[2] \in 0 .. n - 1
      /\ t[2] # u[2]
  BY ThreadFacts
<1>2. PICK i \in Nat : item[t] = t[2] + i * n
  BY DEF Lane
<1>3. PICK j \in Nat : item[u] = u[2] + j * n
  BY DEF Lane
<1> HIDE DEF n
<1>4. item[u] + k * n = u[2] + (j + k) * n
  <2>1. (j + k) * n = j * n + k * n /\ j * n \in Nat /\ k * n \in Nat
    BY <1>1
  <2> QED
    BY <1>1, <1>3, <2>1
<1>5. j + k \in Nat /\ i * n \in Nat /\ (j + k) * n \in Nat
  BY <1>1
<1>6. t[2] + i * n # u[2] + (j + k) * n
  <2>1. CASE i < j + k
    BY <1>1, <1>5, <2>1, Below
  <2>2. CASE j + k < i
    BY <1>1, <1>5, <2>2, Below
  <2>3. CASE i = j + k
    BY <1>1, <1>5, <2>3
  <2> QED
    BY <1>5, <2>1, <2>2, <2>3
<1> QED
  BY <1>2, <1>4, <1>6 DEF n

(* Worker t records its variant and moves a round on.                      *)
LEMMA RecordKeepsRows ==
  ASSUME TypeInv, RowInv, NEW t \in Threads, NEW res \in {"ok", "failed"},
         Record(t, res), <<t[1], item[t]>> \in Rows,
         phase[t[1]] = "running"
  PROVE  RowInv'
<1> DEFINE q == t[1]
           n == Workers[q]
           at == item[t]
<1>1. /\ q \in Runs /\ n \in Nat \ {0} /\ Variants[q] \in Nat \ {0}
      /\ at \in 0 .. Variants[q] - 1
  BY ThreadFacts, RowFacts
<1>2. /\ UNCHANGED phase
      /\ item' = [item EXCEPT ![t] = @ + n]
      /\ row' = [row EXCEPT ![<<q, at>>] = res]
      /\ pc' = [pc EXCEPT ![t] = IF at + n < Variants[q] THEN "select" ELSE "finished"]
  BY DEF Record, Goto
<1>3. /\ item'[t] = at + n
      /\ \A u \in Threads : u # t => item'[u] = item[u] /\ pc'[u] = pc[u]
      /\ pc'[t] = IF at + n < Variants[q] THEN "select" ELSE "finished"
  BY <1>2 DEF TypeInv, TypeOK
<1>4. \A x \in Rows : row'[x] = IF x = <<q, at>> THEN res ELSE row[x]
  BY <1>2 DEF TypeInv, TypeOK
<1>5. Lane(t) /\ Ahead(t)
  BY DEF RowInv, LaneInv
<1> HIDE DEF q, n, at
<1>6. LaneInv'
  <2> SUFFICES ASSUME NEW u \in Threads, phase[u[1]] # "killed"
               PROVE  Lane(u)' /\ Ahead(u)'
    BY <1>2 DEF LaneInv
  <2>1. Lane(u) /\ Ahead(u)
    BY DEF RowInv, LaneInv
  <2>2. Lane(u)'
    <3>1. CASE u = t
      <4>1. PICK k \in Nat : at = t[2] + k * n
        BY <1>5 DEF Lane, at, n, q
      <4>2. (k + 1) * n = k * n + n /\ k * n \in Nat /\ t[2] \in Nat /\ k + 1 \in Nat
        BY <1>1, ThreadFacts
      <4>3. item'[t] = t[2] + (k + 1) * n
        BY <1>1, <1>3, <4>1, <4>2
      <4> QED
        BY <3>1, <4>2, <4>3 DEF Lane, n, q
    <3>2. CASE u # t
      BY <1>3, <2>1, <3>2 DEF Lane
    <3> QED
      BY <3>1, <3>2
  <2>3. Ahead(u)'
    <3> SUFFICES ASSUME NEW k \in Nat, NEW i \in 0 .. Variants[u[1]] - 1,
                        i = item'[u] + k * Workers[u[1]]
                 PROVE  row'[<<u[1], i>>] = "none"
      BY DEF Ahead
    <3>0. u[1] \in Runs /\ <<u[1], i>> \in Rows
      BY ThreadFacts, RowFacts
    <3>1. CASE u = t
      <4>1. /\ (k + 1) * n = k * n + n /\ k * n \in Nat /\ k + 1 \in Nat
        BY <1>1
      <4>2. i = at + (k + 1) * n
        BY <1>1, <1>3, <3>1, <4>1 DEF n, q
      <4>3. row[<<q, i>>] = "none"
        BY <1>5, <3>1, <4>1, <4>2 DEF Ahead, at, n, q
      <4>4. i # at
        BY <1>1, <4>1, <4>2
      <4> QED
        BY <1>4, <3>0, <3>1, <4>3, <4>4 DEF q
    <3>2. CASE u # t
      <4>1. i = item[u] + k * Workers[u[1]]
        BY <1>3, <3>2
      <4>2. row[<<u[1], i>>] = "none"
        BY <2>1, <4>1 DEF Ahead
      <4>3. <<u[1], i>> # <<q, at>>
        <5>1. CASE u[1] = t[1]
          BY <1>5, <2>1, <3>2, <4>1, <5>1, LanesApart DEF at
        <5>2. CASE u[1] # t[1]
          BY <5>2 DEF q
        <5> QED
          BY <5>1, <5>2
      <4> QED
        BY <1>4, <3>0, <4>2, <4>3
    <3> QED
      BY <3>1, <3>2
  <2> QED
    BY <2>2, <2>3
<1>7. CoverInv'
  <2> SUFFICES ASSUME NEW r \in Runs, phase[r] # "killed",
                      NEW i \in 0 .. Variants[r] - 1, row'[<<r, i>>] = "none"
               PROVE  Pending(r, i)'
    BY <1>2 DEF CoverInv
  <2>1. /\ <<r, i>> \in Rows /\ Workers[r] \in Nat \ {0}
        /\ Variants[r] \in Nat \ {0}
    BY RowFacts, RunFacts
  <2>2. row[<<r, i>>] = "none" /\ <<r, i>> # <<q, at>>
    BY <1>4, <2>1
  <2>3. Pending(r, i)
    BY <2>2 DEF RowInv, CoverInv
  <2>4. CASE \E u \in ThreadsOf(r) : item[u] = i
    <3>1. PICK u \in ThreadsOf(r) : item[u] = i
      BY <2>4
    <3>2. u \in Threads /\ u[1] = r
      BY DEF ThreadsOf
    <3>3. u # t
      BY <2>2, <3>1, <3>2 DEF q, at
    <3>4. item'[u] = i
      BY <1>3, <3>1, <3>2, <3>3
    <3> QED
      BY <3>1, <3>4 DEF Pending, ThreadsOf
  <2>5. CASE i >= Workers[r] /\ row[<<r, i - Workers[r]>>] = "none"
    <3>1. i - Workers[r] \in 0 .. Variants[r] - 1
      BY <2>1, <2>5
    <3>2. <<r, i - Workers[r]>> \in Rows
      BY <3>1, RowFacts
    <3>3. CASE <<r, i - Workers[r]>> = <<q, at>>
      <4>1. r = q /\ item'[t] = i
        BY <1>1, <1>3, <2>1, <3>3 DEF n
      <4>2. t \in ThreadsOf(r)
        BY <4>1 DEF ThreadsOf, q
      <4> QED
        BY <4>1, <4>2 DEF Pending, ThreadsOf
    <3>4. CASE <<r, i - Workers[r]>> # <<q, at>>
      <4>1. row'[<<r, i - Workers[r]>>] = "none"
        BY <1>4, <2>5, <3>2, <3>4
      <4> QED
        BY <2>5, <4>1 DEF Pending
    <3> QED
      BY <3>3, <3>4
  <2> QED
    BY <2>3, <2>4, <2>5 DEF Pending
<1>8. EndInv'
  <2> SUFFICES ASSUME NEW u \in Threads
               PROVE  /\ pc'[u] = "finished" /\ phase[u[1]] # "killed"
                           => item'[u] >= Variants[u[1]]
                      /\ phase[u[1]] = "done" => pc'[u] = "finished"
    BY <1>2 DEF EndInv
  <2>1. CASE u = t
    <3>1. pc'[t] = "finished" => ~(at + n < Variants[q])
      BY <1>3
    <3> QED
      BY <1>1, <1>3, <2>1, <3>1 DEF q
  <2>2. CASE u # t
    BY <1>3, <2>2 DEF RowInv, EndInv
  <2> QED
    BY <2>1, <2>2
<1> QED
  BY <1>6, <1>7, <1>8 DEF RowInv

(* What leaves the rows, the items and the ends alone.                     *)
LEMMA RowsKept ==
  ASSUME RowInv, UNCHANGED <<item, row>>,
         \A r \in Runs : phase'[r] # "killed" => phase[r] # "killed",
         \A t \in Threads :
           /\ pc'[t] = "finished" /\ phase'[t[1]] # "killed" => pc[t] = "finished"
           /\ phase'[t[1]] = "done" => pc'[t] = "finished"
  PROVE  RowInv'
<1>1. LaneInv'
  BY ThreadFacts DEF RowInv, LaneInv, Lane, Ahead
<1>2. CoverInv'
  BY DEF RowInv, CoverInv, Pending, ThreadsOf
<1>3. EndInv'
  BY ThreadFacts DEF RowInv, EndInv
<1> QED
  BY <1>1, <1>2, <1>3 DEF RowInv

LEMMA KillKeepsRows ==
  ASSUME TypeInv, RowInv, NEW r \in Runs, Kill(r)
  PROVE  RowInv'
<1>1. /\ phase' = [phase EXCEPT ![r] = "killed"]
      /\ \A t \in Threads : t[1] # r => item'[t] = item[t] /\ pc'[t] = pc[t]
      /\ \A x \in Rows : x[1] # r => row'[x] = row[x]
  BY DEF Kill
<1>2. /\ phase'[r] = "killed"
      /\ \A q \in Runs : q # r => phase'[q] = phase[q]
  BY <1>1 DEF TypeInv, TypeOK
<1>3. ASSUME NEW q \in Runs, q # r, NEW i \in 0 .. Variants[q] - 1
      PROVE  row'[<<q, i>>] = row[<<q, i>>]
  <2>1. <<q, i>> \in Rows /\ <<q, i>>[1] = q
    BY RowFacts
  <2> QED
    BY <1>1, <1>3, <2>1
<1>4. LaneInv'
  <2> SUFFICES ASSUME NEW t \in Threads, phase'[t[1]] # "killed"
               PROVE  Lane(t)' /\ Ahead(t)'
    BY DEF LaneInv
  <2>1. t[1] \in Runs /\ t[1] # r /\ item'[t] = item[t] /\ phase[t[1]] # "killed"
    BY <1>1, <1>2, ThreadFacts
  <2>2. Lane(t) /\ Ahead(t)
    BY <2>1 DEF RowInv, LaneInv
  <2> QED
    BY <1>3, <2>1, <2>2 DEF Lane, Ahead
<1>5. CoverInv'
  <2> SUFFICES ASSUME NEW q \in Runs, phase'[q] # "killed",
                      NEW i \in 0 .. Variants[q] - 1, row'[<<q, i>>] = "none"
               PROVE  Pending(q, i)'
    BY DEF CoverInv
  <2>1. q # r /\ phase[q] # "killed"
    BY <1>2
  <2>2. row[<<q, i>>] = "none"
    BY <1>3, <2>1
  <2>3. Pending(q, i)
    BY <2>1, <2>2 DEF RowInv, CoverInv
  <2>4. CASE \E t \in ThreadsOf(q) : item[t] = i
    BY <1>1, <2>1, <2>4 DEF Pending, ThreadsOf
  <2>5. CASE i >= Workers[q] /\ row[<<q, i - Workers[q]>>] = "none"
    <3>1. i - Workers[q] \in 0 .. Variants[q] - 1
      BY <2>5, RunFacts
    <3> QED
      BY <1>3, <2>1, <2>5, <3>1 DEF Pending
  <2> QED
    BY <2>3, <2>4, <2>5 DEF Pending
<1>6. EndInv'
  <2> SUFFICES ASSUME NEW t \in Threads, phase'[t[1]] # "killed"
               PROVE  /\ pc'[t] = "finished" => item'[t] >= Variants[t[1]]
                      /\ phase'[t[1]] = "done" => pc'[t] = "finished"
    BY DEF EndInv
  <2>1. t[1] \in Runs /\ t[1] # r /\ phase'[t[1]] = phase[t[1]]
    BY <1>2, ThreadFacts
  <2> QED
    BY <1>1, <2>1 DEF RowInv, EndInv
<1> QED
  BY <1>4, <1>5, <1>6 DEF RowInv

LEMMA RowInvStep == TypeInv /\ RowInv /\ [Next]_vars => RowInv'
<1> SUFFICES ASSUME TypeInv, RowInv, [Next]_vars PROVE RowInv'
  OBVIOUS
<1>1. CASE UNCHANGED vars
  BY <1>1, RowsKept DEF vars, local, RowInv, EndInv
<1>2. ASSUME NEW t \in Threads, Step(t) PROVE RowInv'
  <2>1. /\ UNCHANGED phase /\ phase[t[1]] = "running"
        /\ <<t[1], item[t]>> \in Rows
        /\ \/ \E r \in {"ok", "failed"} : Record(t, r)
           \/ UNCHANGED <<item, row, rowSeen>> /\ pc'[t] # "finished"
    BY <1>2, StepRecords
  <2>2. CASE \E r \in {"ok", "failed"} : Record(t, r)
    BY <2>1, <2>2, RecordKeepsRows
  <2>3. CASE UNCHANGED <<item, row, rowSeen>> /\ pc'[t] # "finished"
    <3>1. \A u \in Threads : u # t => pc'[u] = pc[u]
      BY <1>2, OthersSame DEF Same
    <3>2. \A u \in Threads : phase[u[1]] = "done" => u # t
      BY <2>1
    <3> QED
      BY <2>1, <2>3, <3>1, <3>2, RowsKept DEF RowInv, EndInv
  <2> QED
    BY <2>1, <2>2, <2>3
<1>3. ASSUME NEW r \in Runs, Clear(r) PROVE RowInv'
  <2>1. /\ UNCHANGED <<item, row>> /\ phase[r] = "new"
        /\ phase' = [phase EXCEPT ![r] = "running"]
        /\ pc' = [t \in Threads |-> IF t[1] = r THEN "select" ELSE pc[t]]
    BY <1>3 DEF Clear, local
  <2>2. \A q \in Runs : phase'[q] = IF q = r THEN "running" ELSE phase[q]
    BY <2>1 DEF TypeInv, TypeOK
  <2> QED
    BY <2>1, <2>2, ThreadFacts, RowsKept DEF RowInv, EndInv
<1>4. ASSUME NEW r \in Runs, Refuse(r) PROVE RowInv'
  <2>1. /\ UNCHANGED <<item, row, pc>> /\ phase[r] = "new"
        /\ phase' = [phase EXCEPT ![r] = "refused"]
    BY <1>4 DEF Refuse, local
  <2>2. \A q \in Runs : phase'[q] = IF q = r THEN "refused" ELSE phase[q]
    BY <2>1 DEF TypeInv, TypeOK
  <2> QED
    BY <2>1, <2>2, ThreadFacts, RowsKept DEF RowInv, EndInv
<1>5. ASSUME NEW r \in Runs, Collect(r) PROVE RowInv'
  <2>1. /\ UNCHANGED <<item, row, pc>> /\ phase[r] = "running"
        /\ phase' = [phase EXCEPT ![r] = "done"]
        /\ \A t \in ThreadsOf(r) : pc[t] = "finished"
    BY <1>5 DEF Collect, local
  <2>2. \A q \in Runs : phase'[q] = IF q = r THEN "done" ELSE phase[q]
    BY <2>1 DEF TypeInv, TypeOK
  <2> QED
    BY <2>1, <2>2, ThreadFacts, RowsKept DEF RowInv, EndInv, ThreadsOf
<1>6. ASSUME NEW r \in Runs, Kill(r) PROVE RowInv'
  BY <1>6, KillKeepsRows
<1> QED
  BY <1>1, <1>2, <1>3, <1>4, <1>5, <1>6 DEF Next

LEMMA LeastNatural ==
  ASSUME NEW S \in SUBSET Nat, S # {}
  PROVE  \E x \in S : \A y \in S : x <= y
<1>1. PICK x \in S : \A y \in S : ~(<<y, x>> \in OpToRel(<, Nat))
  BY NatLessThanWellFounded, WFMin
<1>2. \A y \in S : ~(y < x)
  BY <1>1 DEF OpToRel
<1> QED
  BY <1>2

(* When all workers are past the end, the first variant without a row      *)
(* would come a round after another one.                                   *)
LEMMA RowInvCompletes == TypeInv /\ RowInv => DoneRunsAreComplete
<1> SUFFICES ASSUME TypeInv, RowInv, NEW r \in Runs, phase[r] = "done"
             PROVE  \A i \in 0 .. Variants[r] - 1 : row[<<r, i>>] # "none"
  BY DEF DoneRunsAreComplete
<1> DEFINE S == {i \in 0 .. Variants[r] - 1 : row[<<r, i>>] = "none"}
<1> SUFFICES ASSUME S # {} PROVE FALSE
  OBVIOUS
<1>1. Workers[r] \in Nat \ {0} /\ Variants[r] \in Nat \ {0}
  BY RunFacts
<1>2. PICK i \in S : \A j \in S : i <= j
  <2>1. S \in SUBSET Nat
    BY <1>1
  <2> HIDE DEF S
  <2> QED
    BY <2>1, LeastNatural
<1>3. Pending(r, i)
  BY DEF RowInv, CoverInv
<1>4. \A t \in ThreadsOf(r) : item[t] # i
  <2> SUFFICES ASSUME NEW t \in ThreadsOf(r) PROVE item[t] # i
    OBVIOUS
  <2>1. t \in Threads /\ t[1] = r
    BY DEF ThreadsOf
  <2>2. item[t] >= Variants[r]
    BY <2>1 DEF RowInv, EndInv
  <2> QED
    BY <1>1, <2>2
<1>5. i >= Workers[r] /\ row[<<r, i - Workers[r]>>] = "none"
  BY <1>3, <1>4 DEF Pending
<1>6. i - Workers[r] \in S /\ i - Workers[r] < i
  BY <1>1, <1>5
<1> QED
  BY <1>1, <1>2, <1>6

LEMMA RowInvHolds == Spec => [](TypeInv /\ RowInv)
<1>1. TypeInv /\ RowInv /\ [Next]_vars => (TypeInv /\ RowInv)'
  BY TypeStep, RowInvStep
<1> QED
  BY <1>1, TypeInit, RowInvInit, PTL DEF Spec

(* A run that is done has a row for every variant.                         *)
THEOREM DoneIsComplete == Spec => []DoneRunsAreComplete
  BY RowInvHolds, RowInvCompletes, PTL

(* No row is ever written twice.                                           *)
THEOREM RowsFinal == Spec => RowsAreFinal
<1> DEFINE Final == \A x \in Rows :
                      row[x] # "none" =>
                        \/ row'[x] = row[x] /\ rowSeen'[x] = rowSeen[x]
                        \/ phase'[x[1]] = "killed"
<1>1. TypeInv /\ RowInv /\ [Next]_vars => [Final]_vars
  <2> SUFFICES ASSUME TypeInv, RowInv, Next, NEW x \in Rows, row[x] # "none"
               PROVE  \/ row'[x] = row[x] /\ rowSeen'[x] = rowSeen[x]
                      \/ phase'[x[1]] = "killed"
    OBVIOUS
  <2>1. ASSUME NEW t \in Threads, Step(t)
        PROVE  row'[x] = row[x] /\ rowSeen'[x] = rowSeen[x]
    <3>1. /\ phase[t[1]] = "running" /\ <<t[1], item[t]>> \in Rows
          /\ \/ \E r \in {"ok", "failed"} : Record(t, r)
             \/ UNCHANGED <<item, row, rowSeen>>
      BY <2>1, StepRecords
    <3>2. t[1] \in Runs /\ item[t] \in 0 .. Variants[t[1]] - 1
      BY <3>1, ThreadFacts, RowFacts
    <3>3. row[<<t[1], item[t]>>] = "none"
      <4>1. item[t] = item[t] + 0 * Workers[t[1]] /\ 0 \in Nat
        BY <3>2, ThreadFacts
      <4>2. Ahead(t)
        BY <3>1 DEF RowInv, LaneInv
      <4> QED
        BY <3>2, <4>1, <4>2 DEF Ahead
    <3>4. x # <<t[1], item[t]>>
      BY <3>3
    <3> QED
      BY <3>1, <3>4 DEF Record, TypeInv, TypeOK
  <2>2. ASSUME NEW r \in Runs, Clear(r) \/ Refuse(r) \/ Collect(r)
        PROVE  row'[x] = row[x] /\ rowSeen'[x] = rowSeen[x]
    BY <2>2 DEF Clear, Refuse, Collect, local
  <2>3. ASSUME NEW r \in Runs, Kill(r)
        PROVE  \/ row'[x] = row[x] /\ rowSeen'[x] = rowSeen[x]
               \/ phase'[x[1]] = "killed"
    BY <2>3, RowParts DEF Kill, TypeInv, TypeOK
  <2> QED
    BY <2>1, <2>2, <2>3 DEF Next
<1>2. RowsAreFinal <=> [][Final]_vars
  BY DEF RowsAreFinal
<1> QED
  BY <1>1, <1>2, RowInvHolds, PTL DEF Spec

-----------------------------------------------------------------------------
(* ------------------------ every attempt ends --------------------------- *)

(* The most steps an attempt has left.                                     *)
StepsLeft ==
  [select |-> 9, preflight |-> 8, reset |-> 7, up |-> 6, prepare |-> 5,
   play |-> 4, down |-> 3, judge |-> 2, sweep |-> 1, idle |-> 0, finished |-> 0]

(* A step takes its worker to the next variant, to the next of at most     *)
(* MaxRetries retries, or nearer to the end of the attempt.                *)
Forward(t) ==
  \/ /\ item'[t] = item[t] + Workers[t[1]]
     /\ pc'[t] = IF item'[t] < Variants[t[1]] THEN "select" ELSE "finished"
  \/ /\ item'[t] = item[t] /\ attempt'[t] = attempt[t] + 1
     /\ attempt[t] < MaxRetries
  \/ /\ item'[t] = item[t] /\ attempt'[t] = attempt[t]
     /\ StepsLeft[pc'[t]] < StepsLeft[pc[t]]

(* Every step of a worker takes it forward, and nothing but the start and  *)
(* the end of its run moves it otherwise: a run of Variants variants takes *)
(* at most 9 * (MaxRetries + 1) steps for each.                            *)
WorkersGoForward ==
  [][\A t \in Threads :
       /\ Step(t) => Forward(t)
       /\ Step(t) \/ phase'[t[1]] # phase[t[1]]
            \/ UNCHANGED <<item[t], attempt[t], pc[t]>>]_vars

LEMMA NearerTheEnd ==
  ASSUME NEW q, NEW p \in {"preflight", "reset", "up", "prepare", "play", "down",
                          "judge", "sweep"},
         \/ q = "select"
         \/ q = "preflight" /\ p \in {"reset", "judge"}
         \/ q = "reset" /\ p \in {"up", "down"}
         \/ q = "up" /\ p \in {"prepare", "down"}
         \/ q = "prepare" /\ p \in {"play", "down"}
         \/ q = "play" /\ p = "down"
         \/ q = "down" /\ p = "judge"
         \/ q = "judge" /\ p = "sweep"
  PROVE  StepsLeft[p] < StepsLeft[q]
<1>1. /\ StepsLeft["select"] = 9 /\ StepsLeft["preflight"] = 8
      /\ StepsLeft["reset"] = 7 /\ StepsLeft["up"] = 6
      /\ StepsLeft["prepare"] = 5 /\ StepsLeft["play"] = 4
      /\ StepsLeft["down"] = 3 /\ StepsLeft["judge"] = 2
      /\ StepsLeft["sweep"] = 1
  BY DEF StepsLeft
<1>2. CASE q = "select"
  BY <1>1, <1>2
<1>3. CASE q # "select"
  BY <1>1, <1>3
<1> QED
  BY <1>2, <1>3

LEMMA StepGoesForward ==
  ASSUME TypeInv, NEW t \in Threads, Step(t)
  PROVE  Forward(t)
<1> USE DEF TypeInv, TypeOK, Goto, local, At
<1>1. ASSUME NEW r, Record(t, r) PROVE Forward(t)
  BY <1>1 DEF Record, Forward
<1>2. ASSUME NEW p \in {"preflight", "reset", "up", "prepare", "play", "down",
                        "judge", "sweep"},
             pc'[t] = p, item'[t] = item[t], attempt'[t] = attempt[t],
             \/ pc[t] = "select"
             \/ pc[t] = "preflight" /\ p \in {"reset", "judge"}
             \/ pc[t] = "reset" /\ p \in {"up", "down"}
             \/ pc[t] = "up" /\ p \in {"prepare", "down"}
             \/ pc[t] = "prepare" /\ p \in {"play", "down"}
             \/ pc[t] = "play" /\ p = "down"
             \/ pc[t] = "down" /\ p = "judge"
             \/ pc[t] = "judge" /\ p = "sweep"
      PROVE  Forward(t)
  <2>1. StepsLeft[p] < StepsLeft[pc[t]]
    BY <1>2, NearerTheEnd
  <2> QED
    BY <1>2, <2>1 DEF Forward
<1>3. CASE SelectPorts(t)
  <2>1. CASE Raise(t, "failed", "judge") \/ Goto(t, "preflight")
    <3>1. /\ pc[t] = "select" /\ pc'[t] \in {"judge", "preflight"}
          /\ Record(t, "failed") \/ (item' = item /\ attempt' = attempt)
      BY <1>3, <2>1 DEF SelectPorts, Raise
    <3> QED
      BY <1>1, <1>2, <3>1
  <2> QED
    BY <1>1, <1>3, <2>1 DEF SelectPorts
<1>4. CASE Preflight(t)
  <2>1. /\ pc[t] = "preflight" /\ pc'[t] \in {"judge", "reset"}
        /\ item' = item /\ attempt' = attempt
    BY <1>4 DEF Preflight, Raise
  <2> QED
    BY <1>2, <2>1
<1>5. CASE ResetStack(t)
  <2>1. /\ pc[t] = "reset" /\ pc'[t] \in {"up", "down"}
        /\ item' = item /\ attempt' = attempt
    BY <1>5 DEF ResetStack, Raise
  <2> QED
    BY <1>2, <2>1
<1>6. CASE Up(t)
  <2>1. /\ pc[t] = "up" /\ pc'[t] \in {"prepare", "down"}
        /\ item' = item /\ attempt' = attempt
    BY <1>6 DEF Up, Raise
  <2> QED
    BY <1>2, <2>1
<1>7. CASE PrepareWorld(t)
  <2>1. /\ pc[t] = "prepare" /\ pc'[t] \in {"play", "down"}
        /\ item' = item /\ attempt' = attempt
    BY <1>7 DEF PrepareWorld, Raise
  <2> QED
    BY <1>2, <2>1
<1>8. CASE Play(t)
  <2>1. /\ pc[t] = "play" /\ pc'[t] = "down"
        /\ item' = item /\ attempt' = attempt
    BY <1>8 DEF Play, Raise
  <2> QED
    BY <1>2, <2>1
<1>9. CASE TearDown(t)
  <2>1. /\ pc[t] = "down" /\ pc'[t] = "judge"
        /\ item' = item /\ attempt' = attempt
    BY <1>9 DEF TearDown
  <2> QED
    BY <1>2, <2>1
<1>10. CASE Judge(t)
  <2>1. CASE Goto(t, "sweep") /\ UNCHANGED local
    <3>1. /\ pc[t] = "judge" /\ pc'[t] = "sweep"
          /\ item' = item /\ attempt' = attempt
      BY <1>10, <2>1 DEF Judge
    <3> QED
      BY <1>2, <3>1
  <2> QED
    BY <1>1, <1>10, <2>1 DEF Judge
<1>11. CASE Sweep(t)
  <2>1. CASE Retry(t) /\ attempt[t] < MaxRetries
    BY <2>1 DEF Retry, Forward
  <2> QED
    BY <1>1, <1>11, <2>1 DEF Sweep
<1> QED
  BY <1>3, <1>4, <1>5, <1>6, <1>7, <1>8, <1>9, <1>10, <1>11 DEF Step

LEMMA NothingElseMoves ==
  ASSUME TypeInv, Next, NEW t \in Threads, ~Step(t), phase'[t[1]] = phase[t[1]]
  PROVE  UNCHANGED <<item[t], attempt[t], pc[t]>>
<1>1. ASSUME NEW u \in Threads, Step(u)
      PROVE  UNCHANGED <<item[t], attempt[t], pc[t]>>
  <2>1. u # t
    BY <1>1
  <2> QED
    BY <1>1, <2>1, OthersSame DEF Same
<1>2. ASSUME NEW r \in Runs, Refuse(r) \/ Collect(r)
      PROVE  UNCHANGED <<item[t], attempt[t], pc[t]>>
  BY <1>2, RunsSame DEF Same
<1>3. ASSUME NEW r \in Runs, Clear(r) \/ Kill(r)
      PROVE  UNCHANGED <<item[t], attempt[t], pc[t]>>
  <2>1. t[1] # r
    <3>1. phase \in [Runs -> {"new", "running", "refused", "done", "killed"}]
      BY DEF TypeInv, TypeOK
    <3>2. phase'[r] # phase[r]
      <4>1. CASE Clear(r)
        BY <3>1, <4>1 DEF Clear
      <4>2. CASE Kill(r)
        <5>1. phase[r] = "running" /\ phase' = [phase EXCEPT ![r] = "killed"]
          BY <4>2 DEF Kill
        <5> QED
          BY <3>1, <5>1
      <4> QED
        BY <1>3, <4>1, <4>2
    <3> QED
      BY <3>2
  <2> QED
    BY <1>3, <2>1, RunsSame DEF Same
<1> QED
  BY <1>1, <1>2, <1>3 DEF Next

(* A worker never goes back: no variant, no retry and no step of an        *)
(* attempt comes twice.                                                    *)
THEOREM WorkersAdvance == Spec => WorkersGoForward
<1> DEFINE On == \A t \in Threads :
                   /\ Step(t) => Forward(t)
                   /\ Step(t) \/ phase'[t[1]] # phase[t[1]]
                        \/ UNCHANGED <<item[t], attempt[t], pc[t]>>
<1>1. TypeInv /\ [Next]_vars => [On]_vars
  <2> SUFFICES ASSUME TypeInv, Next, NEW t \in Threads
               PROVE  /\ Step(t) => Forward(t)
                      /\ Step(t) \/ phase'[t[1]] # phase[t[1]]
                           \/ UNCHANGED <<item[t], attempt[t], pc[t]>>
    OBVIOUS
  <2> QED
    BY StepGoesForward, NothingElseMoves
<1>2. WorkersGoForward <=> [][On]_vars
  BY DEF WorkersGoForward
<1>3. Spec => []TypeInv
  BY TypeInit, TypeStep, PTL DEF Spec
<1> QED
  BY <1>1, <1>2, <1>3, PTL DEF Spec
=============================================================================
