--------------------------- MODULE AlertSupervisor ---------------------------
(***************************************************************************)
(* scripts/screeps-runtime-monitor.py alert: runs of the cron job.  A      *)
(* parent process forks a child, waits for it with a timeout and passes on *)
(* what it printed; the child collects a snapshot of the rooms, compares   *)
(* it with the state file (the structures last seen, and when each alert   *)
(* was last emitted) and writes the next state to a deferred file.  Only a *)
(* parent whose child succeeded in time puts the deferred file in place of *)
(* the state file.  Where the fork fails, the parent does the child's work *)
(* itself, on the state file, under an alarm.                              *)
(*                                                                         *)
(* A room stands for one alert signature.  Where it is of damage, a run    *)
(* detects it against the structures of the state it loaded, and a run     *)
(* that loaded none of the room detects nothing; the damage is 1 for an    *)
(* intact room and grows each time hit points are lost.  In the rooms of   *)
(* Sighted it is of hostiles, which a run detects by what it sees, and     *)
(* which come and go.  Repairs, the rules that count their own occurrences, *)
(* the few reasons exempt from the debounce, and the structures that the   *)
(* state keeps of a room of which nothing is left are left out.  Runs      *)
(* share the state file without a lock.                                    *)
(***************************************************************************)
EXTENDS Naturals, FiniteSets

CONSTANTS
  Runs,        \* invocations of alert
  Rooms,
  Sighted,     \* the rooms whose signature needs no earlier state
  Debounce,    \* SCREEPS_ALERT_DEBOUNCE_SECONDS
  MaxTime,     \* the clock, bound
  MaxDamage,   \* damage of one room, bound
  MaxOverlap,  \* runs that are under way at once, bound
  MaxFaults    \* failed forks, children, reads and writes, and kills, bound

ASSUME AlertAssumption ==
  /\ Sighted \subseteq Rooms
  /\ Debounce \in Nat /\ MaxTime \in Nat \ {0} /\ MaxDamage \in Nat \ {0}
  /\ MaxOverlap \in Nat /\ MaxFaults \in Nat

VARIABLES
  now,       \* the clock, as last read
  world,     \* world[x]: the damage of room x, as last observed
  baseline,  \* baseline[x]: structures in the state file, as damage; 0 none
  alerted,   \* alerted[x]: when the state file says x was alerted, 0 never
  pc,        \* pc[r]: the parent; "inline": it does the work itself
  work,      \* work[r]: the child, or the parent that works itself
  next,      \* next[r]: what the work of r read and computed so far
  fresh,     \* fresh[r]: nobody replaced the state since r read it
  saved,     \* saved[r]: an inline r has replaced the state
  told,      \* told[x]: times of the alerts of x that reached stdout
  seen,      \* seen[x]: the damage of x that reports account for, or that was
             \* there when x got its first baseline
  torn,      \* a state was put in place and its report never came
  lost,      \* a run replaced a state that was newer than the one it read
  blind,     \* rooms whose baseline was replaced by a run that had not loaded it
  stray,     \* rooms alerted by a run whose state was never put in place
  faults

state == <<baseline, alerted, fresh, lost, blind, seen>>
reports == <<told, torn, stray>>
vars == <<now, world, state, pc, work, next, saved, reports, faults>>

Times == 0 .. MaxTime
Damages == 1 .. MaxDamage
Baselines == 0 .. MaxDamage
Ended == {"none", "done", "cut", "failed"}

\* rooms: those it got a snapshot of; known: those it loaded a baseline of;
\* emitted: those it alerts; the rest is the next state, of which baseline
\* holds the snapshot from the start.
Work == [rooms : SUBSET Rooms, known : SUBSET Rooms, emitted : SUBSET Rooms,
         baseline : [Rooms -> Baselines], alerted : [Rooms -> Times]]

Zero == [x \in Rooms |-> 0]
NoWork == [rooms |-> {}, known |-> {}, emitted |-> {}, baseline |-> Zero, alerted |-> Zero]

\* Types, and: nobody works for a parent that is gone.
TypeOK ==
  /\ now \in 1 .. MaxTime
  /\ world \in [Rooms -> Damages]
  /\ baseline \in [Rooms -> Baselines]
  /\ alerted \in [Rooms -> Times]
  /\ pc \in [Runs -> {"new", "inline", "waiting", "killing", "promoted", "over"}]
  /\ work \in [Runs -> {"collect", "evaluate", "save", "print"} \cup Ended]
  /\ next \in [Runs -> Work]
  /\ fresh \in [Runs -> BOOLEAN] /\ saved \in [Runs -> BOOLEAN]
  /\ told \in [Rooms -> SUBSET Times]
  /\ seen \in [Rooms -> Baselines]
  /\ torn \in BOOLEAN /\ lost \in BOOLEAN
  /\ blind \in SUBSET Rooms /\ stray \in SUBSET Rooms
  /\ faults \in 0 .. MaxFaults
  /\ \A r \in Runs : pc[r] \in {"new", "over"} => work[r] = "none"

Init ==
  /\ now = 1 /\ world = [x \in Rooms |-> 1] /\ baseline = Zero /\ alerted = Zero
  /\ pc = [r \in Runs |-> "new"] /\ work = [r \in Runs |-> "none"]
  /\ next = [r \in Runs |-> NoWork]
  /\ fresh = [r \in Runs |-> FALSE] /\ saved = [r \in Runs |-> FALSE]
  /\ told = [x \in Rooms |-> {}] /\ seen = Zero
  /\ torn = FALSE /\ lost = FALSE /\ blind = {} /\ stray = {} /\ faults = 0

-----------------------------------------------------------------------------
(* Steps that several actors take *)

Fault == faults < MaxFaults /\ faults' = faults + 1

Larger(m, n) == IF m > n THEN m ELSE n

(* One os.replace of the state file by what r computed.  The first baseline *)
(* of a room is taken as it is; one that replaces another is not.          *)
Replace(r) ==
  /\ baseline' = next[r].baseline
  /\ alerted' = next[r].alerted
  /\ fresh' = [s \in Runs |-> FALSE]
  /\ lost' = (lost \/ ~fresh[r])
  /\ blind' = blind \cup {x \in Rooms \ next[r].known : baseline[x] # 0}
  /\ seen' = [x \in Rooms |->
                IF x \notin next[r].known /\ baseline[x] = 0
                THEN Larger(next[r].baseline[x], seen[x]) ELSE seen[x]]

\* As Leave, the inline run going on.
LeaveRunning(r) ==
  /\ pc' = [pc EXCEPT ![r] = "over"]
  /\ UNCHANGED work
  /\ next' = [next EXCEPT ![r] = NoWork]
  /\ saved' = [saved EXCEPT ![r] = FALSE]

(* What a child still does after its parent is gone, it does to files that *)
(* nobody reads.                                                           *)
Leave(r) ==
  /\ pc' = [pc EXCEPT ![r] = "over"]
  /\ work' = [work EXCEPT ![r] = "none"]
  /\ next' = [next EXCEPT ![r] = NoWork]
  /\ saved' = [saved EXCEPT ![r] = FALSE]

\* The state of r is in place and its report is not out.
Ahead(r) == saved[r] \/ (pc[r] = "promoted" /\ work[r] = "done")

(* The JSON on stdout lists what r alerts and what it suppresses: of the   *)
(* damage, what is new since the baseline it knew.                         *)
Report(r) ==
  /\ Leave(r)
  /\ told' = [x \in Rooms |->
                IF x \in next[r].emitted THEN told[x] \cup {next[r].alerted[x]} ELSE told[x]]
  /\ seen' = [x \in Rooms |->
                IF x \in next[r].rooms \cap next[r].known
                THEN Larger(next[r].baseline[x], seen[x]) ELSE seen[x]]
  /\ stray' = IF Ahead(r) THEN stray ELSE stray \cup next[r].emitted
  /\ UNCHANGED <<baseline, alerted, fresh, lost, blind, torn>>

(* The run ends with a failure payload, or with nothing at all.            *)
NoReport(r) ==
  /\ Leave(r)
  /\ torn' = (torn \/ Ahead(r))
  /\ UNCHANGED <<state, told, stray>>

-----------------------------------------------------------------------------
(* command_alert, in the child or inline *)

At(r, from, to) == work[r] = from /\ work' = [work EXCEPT ![r] = to]

(* collect_snapshots: the rooms asked for, without those that failed every *)
(* attempt.  Nothing relates two rooms, so that they are read at once; the *)
(* damage done since a room was last looked at is chosen here, and in a    *)
(* Sighted room whether hostiles are there (more than 1) or not.           *)
Collect(r) ==
  /\ At(r, "collect", "evaluate")
  /\ \E S \in SUBSET Rooms \ {{}} :
       \E snap \in [S -> Damages] :
         /\ \A x \in S : IF x \in Sighted THEN snap[x] \in {1, MaxDamage}
                                          ELSE snap[x] >= world[x]
         /\ world' = [x \in Rooms |-> IF x \in S \ Sighted THEN snap[x] ELSE world[x]]
         /\ next' = [next EXCEPT ![r] =
              [rooms |-> S, known |-> {}, emitted |-> {}, alerted |-> Zero,
               baseline |-> [x \in Rooms |-> IF x \in S THEN snap[x] ELSE 0]]]
  /\ UNCHANGED <<now, state, pc, saved, reports, faults>>

\* load_state: the file, or nothing where it is missing or cannot be read.
File == [baseline |-> baseline, alerted |-> alerted]
NoFile == [baseline |-> Zero, alerted |-> Zero]

\* The detectors of evaluate_room_alert, given the snapshot of x.
Detected(old, x, snap) ==
  IF x \in Sighted THEN snap > 1 ELSE old.baseline[x] # 0 /\ snap > old.baseline[x]

\* Its debounce.
Suppressed(old, x, t) == old.alerted[x] # 0 /\ t - old.alerted[x] < Debounce

Emitted(old, w, t) ==
  {x \in w.rooms : Detected(old, x, w.baseline[x]) /\ ~Suppressed(old, x, t)}

(* The structures of the next state, in which hostiles are not.  Rooms that *)
(* were not collected keep what was loaded.                                *)
NextBaseline(old, w) ==
  [x \in Rooms |-> IF x \notin w.rooms THEN old.baseline[x]
                   ELSE IF x \in Sighted THEN 1 ELSE w.baseline[x]]

\* The alerts of the next state; Anew: without those that were loaded.
NextAlertedAnew(old, w, E, t) ==
  [x \in Rooms |-> IF x \in E THEN t ELSE IF x \in w.rooms THEN old.alerted[x] ELSE 0]
NextAlerted(old, w, E, t) == [x \in Rooms |-> IF x \in E THEN t ELSE old.alerted[x]]

\* Everything command_alert computes between load_state and save_state.
Computed(old, w, t) ==
  [rooms |-> w.rooms,
   known |-> {x \in Rooms : old.baseline[x] # 0},
   emitted |-> Emitted(old, w, t),
   baseline |-> NextBaseline(old, w),
   alerted |-> NextAlerted(old, w, Emitted(old, w, t), t)]

(* load_state, the clock and evaluate_room_alert for each room.  A read    *)
(* that fails is an empty state.  Inline, the alarm may be what fails it:  *)
(* MonitorCommandTimeout is an OSError, and the run goes on.               *)
Evaluate(r) ==
  /\ At(r, "evaluate", "save")
  /\ \E old \in {File, NoFile}, t \in now .. MaxTime :
       /\ \/ old = NoFile /\ Fault
          \/ old = NoFile /\ pc[r] = "inline" /\ UNCHANGED faults
          \/ old = File /\ UNCHANGED faults
       /\ now' = t
       /\ next' = [next EXCEPT ![r] = Computed(old, next[r], t)]
  /\ fresh' = [fresh EXCEPT ![r] = TRUE]
  /\ UNCHANGED <<world, baseline, alerted, lost, blind, seen, pc, saved, reports>>

(* A child's save_state goes to its deferred file and its JSON to the file *)
(* its parent reads: neither counts before the child has exited with 0.    *)
SaveInChild(r) ==
  /\ pc[r] # "inline"
  /\ At(r, "save", "done")
  /\ UNCHANGED <<now, world, state, pc, next, saved, reports, faults>>

(* Its JSON is complete, and yet its parent does not learn of an exit with *)
(* 0: a signal took it after the flush, or somebody else reaped it.        *)
ChildCut(r) ==
  /\ pc[r] # "inline"
  /\ At(r, "save", "cut")
  /\ Fault
  /\ UNCHANGED <<now, world, state, pc, next, saved, reports>>

(* Inline, save_state replaces the state file at once; the images and the  *)
(* JSON come after.                                                        *)
SaveInline(r) ==
  /\ pc[r] = "inline"
  /\ At(r, "save", "print")
  /\ Replace(r)
  /\ saved' = [saved EXCEPT ![r] = TRUE]
  /\ UNCHANGED <<now, world, pc, next, reports, faults>>

PrintInline(r) ==
  /\ pc[r] = "inline" /\ work[r] = "print"
  /\ Report(r)
  /\ UNCHANGED <<now, world, faults>>

(* An exception, a signal, or output that is cut short.                    *)
ChildFails(r) ==
  /\ pc[r] # "inline" /\ work[r] \notin Ended
  /\ Fault
  /\ work' = [work EXCEPT ![r] = "failed"]
  /\ UNCHANGED <<now, world, state, pc, next, saved, reports>>

(* raise_timeout: the one-shot alarm ends the command wherever it is, as an *)
(* exception or a kill does.  In collect_snapshots and in the rendering    *)
(* "except Exception" may swallow it: the run goes on, without a limit.    *)
InlineEnds(r) ==
  /\ pc[r] = "inline"
  /\ NoReport(r)
  /\ UNCHANGED <<now, world, faults>>

-----------------------------------------------------------------------------
(* run_alert_with_process_timeout, the parent *)

Active == {r \in Runs : pc[r] \notin {"new", "over"}}

Start(r) ==
  /\ pc[r] = "new" /\ Cardinality(Active) < MaxOverlap
  /\ \/ pc' = [pc EXCEPT ![r] = "waiting"] /\ UNCHANGED faults
     \/ pc' = [pc EXCEPT ![r] = "inline"] /\ Fault
  /\ work' = [work EXCEPT ![r] = "collect"]
  /\ UNCHANGED <<now, world, state, next, saved, reports>>

\* The deferred state is put in place only of a child that exited with 0.
PromotableAlways(r) == work[r] \in {"done", "cut", "failed"}
Promotable(r) == work[r] = "done"

Promote(r) ==
  /\ pc[r] = "waiting" /\ Promotable(r)
  /\ Replace(r)
  /\ pc' = [pc EXCEPT ![r] = "promoted"]
  /\ UNCHANGED <<now, world, work, next, saved, reports, faults>>

(* The child's own failure payload is passed on, or one is made; but a     *)
(* complete report is passed on whatever the exit code, and then the       *)
(* deferred state is dropped.                                              *)
PassOnFailure(r) ==
  /\ pc[r] = "waiting"
  /\ \/ work[r] = "failed" /\ NoReport(r)
     \/ work[r] = "cut" /\ Report(r)
  /\ UNCHANGED <<now, world, faults>>

Deliver(r) ==
  /\ pc[r] = "promoted"
  /\ Report(r)
  /\ UNCHANGED <<now, world, faults>>

(* wait_for_child_exit: None when the deadline passed before an exit.      *)
TimeOut(r) ==
  /\ pc[r] = "waiting" /\ work[r] \notin Ended
  /\ pc' = [pc EXCEPT ![r] = "killing"]
  /\ UNCHANGED <<now, world, state, work, next, saved, reports, faults>>

(* terminate_timed_out_child: SIGTERM, a grace, SIGKILL.  A child that got *)
(* to its end in between is dropped all the same.                          *)
Terminate(r) ==
  /\ pc[r] = "killing"
  /\ NoReport(r)
  /\ UNCHANGED <<now, world, faults>>

(* The parent is killed, or the promotion or the write to stdout fails.    *)
ParentFails(r) ==
  /\ pc[r] \in {"waiting", "killing", "promoted"}
  /\ Fault
  /\ NoReport(r)
  /\ UNCHANGED <<now, world>>

-----------------------------------------------------------------------------
Working(r) ==
  Collect(r) \/ Evaluate(r) \/ SaveInChild(r) \/ ChildCut(r) \/ SaveInline(r)
    \/ PrintInline(r) \/ ChildFails(r) \/ InlineEnds(r)

Parent(r) ==
  Promote(r) \/ PassOnFailure(r) \/ Deliver(r) \/ TimeOut(r) \/ Terminate(r)

Next ==
  \E r \in Runs : Start(r) \/ Working(r) \/ Parent(r) \/ ParentFails(r)

Spec == Init /\ [][Next]_vars

-----------------------------------------------------------------------------
(* Properties *)

(* The state file accounts for no alert that a report did not carry to     *)
(* stdout, and for no damage since a room's first baseline that a report   *)
(* did not list: what a run that failed or timed out had found is found    *)
(* again by the next.  Two windows are excepted, in which the state is in  *)
(* place before its report: while a run is in one (Ahead), and for good    *)
(* once a run ended in one (torn).  The damage of a room is excepted once  *)
(* a run that had not loaded its baseline replaced it (blind): after a     *)
(* read that failed, or when two runs made the first state at once.        *)
StateFollowsReports ==
  torn \/ (\E r \in Runs : Ahead(r))
    \/ \A x \in Rooms :
         /\ alerted[x] \in told[x] \cup {0}
         /\ x \in blind \/ baseline[x] <= seen[x]

Spaced(x) == \A t, u \in told[x] : t < u => u - t >= Debounce

(* docs/ops/runtime-room-monitor.md: identical alert signatures are        *)
(* suppressed during the debounce window.  It holds across runs of which   *)
(* some fail, time out or see only some of the rooms, until a run replaces *)
(* a state that is newer than the one it read (lost: no lock forbids it).  *)
(* A room is excepted once its record was replaced by a run that had not   *)
(* loaded it (blind), and once an alert of it went out of a run whose      *)
(* state was dropped (stray).                                              *)
DebounceHolds == lost \/ \A x \in Rooms \ (blind \cup stray) : Spaced(x)
=============================================================================
