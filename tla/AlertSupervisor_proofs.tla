----------------------- MODULE AlertSupervisor_proofs -----------------------
(***************************************************************************)
(* What is proved of AlertSupervisor, for any number of runs, rooms and    *)
(* overlaps: its types, that the state file follows the reports, and that  *)
(* the debounce holds, each with the exceptions it names; and of runs that *)
(* do not overlap, which of these exceptions are left.                     *)
(***************************************************************************)
EXTENDS AlertSupervisor, FiniteSetTheorems, TLAPS

-----------------------------------------------------------------------------
(* Types *)

LEMMA ZeroTyped ==
  Zero \in [Rooms -> Baselines] /\ Zero \in [Rooms -> Times] /\ NoWork \in Work
  BY AlertAssumption DEF Zero, NoWork, Work, Baselines, Times

LEMMA LevelsTyped ==
  Damages \subseteq Baselines /\ 1 \in Damages /\ 0 \in Baselines /\ Baselines \subseteq Nat
  BY AlertAssumption DEF Damages, Baselines

LEMMA LargerTyped ==
  ASSUME NEW m \in Baselines, NEW n \in Baselines
  PROVE  Larger(m, n) \in Baselines /\ m <= Larger(m, n) /\ n <= Larger(m, n)
  BY AlertAssumption DEF Larger, Baselines

(* What command_alert computes from a state file or from none is work.     *)
LEMMA ComputedTyped ==
  ASSUME TypeOK, NEW old \in {File, NoFile}, NEW w \in Work, NEW t \in Times
  PROVE  Computed(old, w, t) \in Work
<1>1. old.baseline \in [Rooms -> Baselines] /\ old.alerted \in [Rooms -> Times]
  BY ZeroTyped DEF File, NoFile, TypeOK
<1>2. w.rooms \in SUBSET Rooms /\ w.baseline \in [Rooms -> Baselines]
  BY DEF Work
<1>3. Emitted(old, w, t) \in SUBSET Rooms
  BY <1>2 DEF Emitted
<1>4. NextBaseline(old, w) \in [Rooms -> Baselines]
  BY <1>1, <1>2, LevelsTyped DEF NextBaseline
<1>5. NextAlerted(old, w, Emitted(old, w, t), t) \in [Rooms -> Times]
  BY <1>1 DEF NextAlerted
<1> QED
  BY <1>2, <1>3, <1>4, <1>5 DEF Computed, Work

LEMMA TypeInit == Init => TypeOK
<1> SUFFICES ASSUME Init PROVE TypeOK
  OBVIOUS
<1>1. 1 \in 1 .. MaxTime /\ 0 \in 0 .. MaxFaults
  BY AlertAssumption
<1>2. [r \in Runs |-> NoWork] \in [Runs -> Work]
  BY ZeroTyped
<1>3. [x \in Rooms |-> {}] \in [Rooms -> SUBSET Times]
  OBVIOUS
<1> QED
  BY <1>1, <1>2, <1>3, ZeroTyped, LevelsTyped DEF Init, TypeOK, Ended

LEMMA TypeStep == TypeOK /\ [Next]_vars => TypeOK'
<1> SUFFICES ASSUME TypeOK, [Next]_vars PROVE TypeOK'
  OBVIOUS
<1> USE AlertAssumption, ZeroTyped
<1>1. CASE UNCHANGED vars
  BY <1>1 DEF vars, state, reports, TypeOK
<1>2. ASSUME NEW r \in Runs, Start(r) PROVE TypeOK'
  BY <1>2 DEF Start, Fault, TypeOK, state, reports
<1>3. ASSUME NEW r \in Runs, Collect(r) PROVE TypeOK'
  <2>0. PICK S \in SUBSET Rooms \ {{}} : \E snap \in [S -> Damages] :
          /\ world' = [x \in Rooms |-> IF x \in S \ Sighted THEN snap[x] ELSE world[x]]
          /\ next' = [next EXCEPT ![r] =
              [rooms |-> S, known |-> {}, emitted |-> {}, alerted |-> Zero,
               baseline |-> [x \in Rooms |-> IF x \in S THEN snap[x] ELSE 0]]]
    BY <1>3 DEF Collect
  <2>1. PICK snap \in [S -> Damages] :
          /\ world' = [x \in Rooms |-> IF x \in S \ Sighted THEN snap[x] ELSE world[x]]
          /\ next' = [next EXCEPT ![r] =
              [rooms |-> S, known |-> {}, emitted |-> {}, alerted |-> Zero,
               baseline |-> [x \in Rooms |-> IF x \in S THEN snap[x] ELSE 0]]]
    BY <2>0
  <2>2. world' \in [Rooms -> Damages]
    BY <2>1 DEF TypeOK
  <2>3. [x \in Rooms |-> IF x \in S THEN snap[x] ELSE 0] \in [Rooms -> Baselines]
    <3>1. ASSUME NEW x \in Rooms PROVE (IF x \in S THEN snap[x] ELSE 0) \in Baselines
      BY LevelsTyped
    <3> QED
      BY <3>1
  <2>4. next' \in [Runs -> Work]
    BY <2>1, <2>3 DEF TypeOK, Work
  <2> QED
    BY <1>3, <2>2, <2>4 DEF Collect, At, TypeOK, state, reports
<1>4. ASSUME NEW r \in Runs, Evaluate(r) PROVE TypeOK'
  <2>1. PICK old \in {File, NoFile}, t \in now .. MaxTime :
          /\ Fault \/ UNCHANGED faults
          /\ now' = t
          /\ next' = [next EXCEPT ![r] = Computed(old, next[r], t)]
    BY <1>4 DEF Evaluate
  <2>2. t \in 1 .. MaxTime /\ t \in Times
    BY <2>1 DEF TypeOK, Times
  <2>3. next' \in [Runs -> Work]
    BY <2>1, <2>2, ComputedTyped DEF TypeOK
  <2>4. faults' \in 0 .. MaxFaults
    BY <2>1 DEF Fault, TypeOK
  <2> QED
    BY <1>4, <2>1, <2>2, <2>3, <2>4 DEF Evaluate, At, TypeOK, reports
<1>5. ASSUME NEW r \in Runs, SaveInChild(r) PROVE TypeOK'
  BY <1>5 DEF SaveInChild, At, TypeOK, state, reports, Ended
<1>c. ASSUME NEW r \in Runs, ChildCut(r) PROVE TypeOK'
  BY <1>c DEF ChildCut, Fault, At, TypeOK, state, reports, Ended
<1>6. ASSUME NEW r \in Runs, Replace(r)
      PROVE  /\ baseline' \in [Rooms -> Baselines]
             /\ alerted' \in [Rooms -> Times]
             /\ fresh' \in [Runs -> BOOLEAN] /\ lost' \in BOOLEAN
             /\ blind' \in SUBSET Rooms /\ seen' \in [Rooms -> Baselines]
  <2>1. \A x \in Rooms : Larger(next[r].baseline[x], seen[x]) \in Baselines
    BY LargerTyped DEF TypeOK, Work
  <2>2. seen' \in [Rooms -> Baselines]
    BY <1>6, <2>1 DEF Replace, TypeOK
  <2> QED
    BY <1>6, <2>2 DEF Replace, TypeOK, Work
<1>7. ASSUME NEW r \in Runs, SaveInline(r) PROVE TypeOK'
  BY <1>7, <1>6 DEF SaveInline, At, TypeOK, reports
<1>8. ASSUME NEW r \in Runs, Promote(r) PROVE TypeOK'
  BY <1>8, <1>6 DEF Promote, Promotable, TypeOK, reports
<1>9. ASSUME NEW r \in Runs, Leave(r),
             UNCHANGED <<now, world, baseline, alerted, fresh, lost, blind>>,
             torn' \in BOOLEAN, told' \in [Rooms -> SUBSET Times],
             seen' \in [Rooms -> Baselines], stray' \in SUBSET Rooms,
             faults' \in 0 .. MaxFaults
      PROVE  TypeOK'
  BY <1>9 DEF Leave, TypeOK, Ended
<1>10. ASSUME NEW r \in Runs, NoReport(r), UNCHANGED <<now, world>>,
              faults' \in 0 .. MaxFaults
       PROVE  TypeOK'
  <2>1. /\ torn' \in BOOLEAN /\ told' \in [Rooms -> SUBSET Times]
        /\ seen' \in [Rooms -> Baselines] /\ stray' \in SUBSET Rooms
    BY <1>10 DEF NoReport, TypeOK, Ahead, state
  <2> QED
    BY <1>9, <1>10, <2>1 DEF NoReport, state
<1>11. ASSUME NEW r \in Runs, Report(r), UNCHANGED <<now, world, faults>>
       PROVE  TypeOK'
  <2>1. next[r].alerted \in [Rooms -> Times] /\ next[r].emitted \in SUBSET Rooms
    BY DEF TypeOK, Work
  <2>2. \A x \in Rooms : Larger(next[r].baseline[x], seen[x]) \in Baselines
    BY LargerTyped DEF TypeOK, Work
  <2>3. told' \in [Rooms -> SUBSET Times]
    BY <1>11, <2>1 DEF Report, TypeOK
  <2>4. seen' \in [Rooms -> Baselines]
    BY <1>11, <2>2 DEF Report, TypeOK
  <2>5. torn' \in BOOLEAN /\ stray' \in SUBSET Rooms
    BY <1>11, <2>1 DEF Report, TypeOK
  <2> QED
    BY <1>9, <1>11, <2>3, <2>4, <2>5 DEF Report, TypeOK
<1>12. ASSUME NEW r \in Runs, ChildFails(r) PROVE TypeOK'
  BY <1>12 DEF ChildFails, Fault, TypeOK, state, reports, Ended
<1>13. ASSUME NEW r \in Runs, TimeOut(r) PROVE TypeOK'
  BY <1>13 DEF TimeOut, TypeOK, state, reports, Ended
<1>14. ASSUME NEW r \in Runs, ParentFails(r) PROVE TypeOK'
  <2>1. faults' \in 0 .. MaxFaults
    BY <1>14 DEF ParentFails, Fault, TypeOK
  <2> QED
    BY <1>10, <1>14, <2>1 DEF ParentFails
<1>15. faults = faults' => faults' \in 0 .. MaxFaults
  BY DEF TypeOK
<1>16. ASSUME NEW r \in Runs, Working(r) PROVE TypeOK'
  BY <1>3, <1>4, <1>5, <1>7, <1>10, <1>11, <1>12, <1>15, <1>16, <1>c
  DEF Working, PrintInline, InlineEnds
<1>17. ASSUME NEW r \in Runs, Parent(r) PROVE TypeOK'
  BY <1>8, <1>10, <1>11, <1>13, <1>15, <1>17 DEF Parent, PassOnFailure, Deliver, Terminate
<1> QED
  BY <1>1, <1>2, <1>14, <1>16, <1>17 DEF Next

(* The state is well typed, and nobody works for a parent that is gone.    *)
THEOREM TypeCorrect == Spec => []TypeOK
  BY TypeInit, TypeStep, PTL DEF Spec

-----------------------------------------------------------------------------
(* The state follows the reports *)

\* A run is ahead of its report at two places, with its work complete.
ShapeInv ==
  \A r \in Runs :
    /\ saved[r] => pc[r] = "inline" /\ work[r] = "print"
    /\ pc[r] = "promoted" => work[r] = "done"

LEMMA ShapeInit == Init => ShapeInv
  BY DEF Init, ShapeInv

LEMMA ShapeStep == TypeOK /\ ShapeInv /\ [Next]_vars => ShapeInv'
<1> SUFFICES ASSUME TypeOK, ShapeInv, [Next]_vars PROVE ShapeInv'
  OBVIOUS
<1>1. CASE UNCHANGED vars
  BY <1>1 DEF vars, ShapeInv
<1>2. ASSUME NEW r \in Runs, Leave(r) PROVE ShapeInv'
  BY <1>2 DEF Leave, ShapeInv, TypeOK
<1>3. ASSUME NEW r \in Runs, Report(r) \/ NoReport(r) PROVE ShapeInv'
  BY <1>2, <1>3 DEF Report, NoReport
<1>4. ASSUME NEW r \in Runs, Start(r) PROVE ShapeInv'
  BY <1>4 DEF Start, ShapeInv, TypeOK
<1>5. ASSUME NEW r \in Runs, Working(r) PROVE ShapeInv'
  <2>1. ASSUME Collect(r) \/ Evaluate(r) \/ SaveInChild(r) \/ ChildCut(r) PROVE ShapeInv'
    BY <2>1 DEF Collect, Evaluate, SaveInChild, ChildCut, At, ShapeInv, TypeOK
  <2>2. ASSUME SaveInline(r) PROVE ShapeInv'
    BY <2>2 DEF SaveInline, At, ShapeInv, TypeOK
  <2>3. ASSUME ChildFails(r) PROVE ShapeInv'
    BY <2>3 DEF ChildFails, ShapeInv, TypeOK, Ended
  <2> QED
    BY <1>3, <1>5, <2>1, <2>2, <2>3 DEF Working, PrintInline, InlineEnds
<1>6. ASSUME NEW r \in Runs, Parent(r) PROVE ShapeInv'
  <2>1. ASSUME Promote(r) PROVE ShapeInv'
    BY <2>1 DEF Promote, Promotable, ShapeInv, TypeOK
  <2>2. ASSUME TimeOut(r) PROVE ShapeInv'
    BY <2>2 DEF TimeOut, ShapeInv, TypeOK
  <2> QED
    BY <1>3, <1>6, <2>1, <2>2 DEF Parent, PassOnFailure, Deliver, Terminate
<1>7. ASSUME NEW r \in Runs, ParentFails(r) PROVE ShapeInv'
  BY <1>3, <1>7 DEF ParentFails
<1> QED
  BY <1>1, <1>4, <1>5, <1>6, <1>7 DEF Next

\* Damage b of room x was accounted for, or is in a report that a run owes.
Answered(b, x) ==
  \/ b <= seen[x]
  \/ \E q \in Runs : /\ Ahead(q) /\ x \in next[q].rooms \cap next[q].known
                     /\ b <= next[q].baseline[x]

\* So is the alert of room x at time a.
Announced(a, x) ==
  \/ a = 0 \/ a \in told[x]
  \/ \E q \in Runs : Ahead(q) /\ x \in next[q].emitted /\ a = next[q].alerted[x]

Evaluated(r) == work[r] \in {"save", "print", "done", "cut"}

FileInv ==
  \A x \in Rooms :
    (x \in blind \/ Answered(baseline[x], x)) /\ Announced(alerted[x], x)

\* What a run did not find itself it loaded from the file.
LoadedInv ==
  \A r \in Runs : Evaluated(r) => \A x \in Rooms :
    /\ x \notin next[r].rooms => x \in blind \/ Answered(next[r].baseline[x], x)
    /\ x \notin next[r].emitted => Announced(next[r].alerted[x], x)

LedgerInv == torn \/ (FileInv /\ LoadedInv)

\* What was answered or announced stays so.
Grows ==
  /\ blind \subseteq blind'
  /\ \A x \in Rooms :
       /\ \A b \in Baselines : Answered(b, x) => Answered(b, x)'
       /\ \A a \in Times : Announced(a, x) => Announced(a, x)'

LEMMA LedgerImplies == TypeOK /\ LedgerInv => StateFollowsReports
<1> SUFFICES ASSUME TypeOK, FileInv, \A r \in Runs : ~Ahead(r), NEW x \in Rooms
             PROVE  /\ alerted[x] \in told[x] \cup {0}
                    /\ x \in blind \/ baseline[x] <= seen[x]
  BY DEF LedgerInv, StateFollowsReports
<1> QED
  BY DEF FileInv, Answered, Announced

LEMMA LedgerInit == Init => LedgerInv
<1> SUFFICES ASSUME Init PROVE FileInv /\ LoadedInv
  BY DEF LedgerInv
<1>1. FileInv
  BY DEF Init, FileInv, Answered, Announced, Zero
<1>2. LoadedInv
  BY DEF Init, LoadedInv, Evaluated
<1> QED
  BY <1>1, <1>2

(* Every run that is ahead stays ahead, with the same work.                *)
LEMMA GrowsByAhead ==
  ASSUME TypeOK, TypeOK',
         \A q \in Runs : Ahead(q) => Ahead(q)' /\ next'[q] = next[q],
         \A x \in Rooms : seen[x] <= seen'[x],
         blind \subseteq blind', UNCHANGED told
  PROVE  Grows
<1>1. ASSUME NEW x \in Rooms, NEW b \in Baselines, Answered(b, x) PROVE Answered(b, x)'
  <2>1. b \in Nat /\ seen[x] \in Nat /\ seen'[x] \in Nat
    BY LevelsTyped DEF TypeOK
  <2>2. CASE b <= seen[x]
    BY <2>1, <2>2 DEF Answered
  <2>3. CASE ~(b <= seen[x])
    BY <1>1, <2>3 DEF Answered
  <2> QED
    BY <2>2, <2>3
<1>2. ASSUME NEW x \in Rooms, NEW a \in Times, Announced(a, x) PROVE Announced(a, x)'
  BY <1>2 DEF Announced
<1> QED
  BY <1>1, <1>2 DEF Grows

(* The same where nothing is reported.                                     *)
LEMMA GrowsQuietly ==
  ASSUME TypeOK, TypeOK',
         \A q \in Runs : Ahead(q) => Ahead(q)' /\ next'[q] = next[q],
         UNCHANGED <<told, seen, blind>>
  PROVE  Grows
<1>1. ASSUME NEW x \in Rooms PROVE seen[x] <= seen'[x]
  <2>1. seen[x] \in Nat
    BY LevelsTyped DEF TypeOK
  <2> QED
    BY <2>1
<1> QED
  BY <1>1, GrowsByAhead

(* A replacement adds to what is accounted for.                            *)
LEMMA ReplaceGrows ==
  ASSUME TypeOK, NEW r \in Runs, Replace(r)
  PROVE  /\ blind \subseteq blind'
         /\ \A x \in Rooms : seen[x] <= seen'[x]
<1>1. ASSUME NEW x \in Rooms PROVE seen[x] <= seen'[x]
  <2>1. next[r].baseline[x] \in Baselines /\ seen[x] \in Baselines /\ seen[x] \in Nat
    BY LevelsTyped DEF TypeOK, Work
  <2>2. seen[x] <= Larger(next[r].baseline[x], seen[x]) /\ seen[x] <= seen[x]
    BY <2>1, LargerTyped
  <2> QED
    BY <2>2 DEF Replace
<1> QED
  BY <1>1 DEF Replace

(* A run that reports stops being ahead, and its work is in the report.    *)
LEMMA GrowsByReport ==
  ASSUME TypeOK, TypeOK', NEW r \in Runs, Report(r)
  PROVE  Grows
<1>1. \A q \in Runs \ {r} : Ahead(q) => Ahead(q)' /\ next'[q] = next[q]
  BY DEF Report, Leave, Ahead, TypeOK
<1>2. \A x \in Rooms : next[r].baseline[x] \in Baselines /\ seen[x] \in Baselines
  BY DEF TypeOK, Work
<1>3. ASSUME NEW x \in Rooms
      PROVE  /\ seen[x] <= seen'[x] /\ told[x] \subseteq told'[x]
             /\ x \in next[r].rooms \cap next[r].known => next[r].baseline[x] <= seen'[x]
             /\ x \in next[r].emitted => next[r].alerted[x] \in told'[x]
  <2>1. seen'[x] = IF x \in next[r].rooms \cap next[r].known
                   THEN Larger(next[r].baseline[x], seen[x]) ELSE seen[x]
    BY DEF Report
  <2>2. /\ seen[x] <= Larger(next[r].baseline[x], seen[x])
        /\ next[r].baseline[x] <= Larger(next[r].baseline[x], seen[x])
    BY <1>2, LargerTyped
  <2>3. told[x] \subseteq told'[x] /\ (x \in next[r].emitted => next[r].alerted[x] \in told'[x])
    BY DEF Report
  <2>4. seen[x] <= seen[x]
    <3>1. seen[x] \in Nat
      BY <1>2, LevelsTyped
    <3> QED
      BY <3>1
  <2> QED
    BY <2>1, <2>2, <2>3, <2>4
<1>4. ASSUME NEW x \in Rooms, NEW b \in Baselines, Answered(b, x) PROVE Answered(b, x)'
  <2>1. b \in Nat /\ seen[x] \in Nat /\ seen'[x] \in Nat /\ next[r].baseline[x] \in Nat
    BY <1>2, LevelsTyped DEF TypeOK
  <2>2. CASE b <= seen[x]
    BY <2>1, <2>2, <1>3 DEF Answered
  <2>3. ASSUME NEW q \in Runs, Ahead(q), x \in next[q].rooms \cap next[q].known,
               b <= next[q].baseline[x]
        PROVE  Answered(b, x)'
    <3>1. CASE q = r
      BY <3>1, <2>1, <2>3, <1>3 DEF Answered
    <3>2. CASE q # r
      BY <3>2, <2>3, <1>1 DEF Answered
    <3> QED
      BY <3>1, <3>2
  <2> QED
    BY <1>4, <2>2, <2>3 DEF Answered
<1>5. ASSUME NEW x \in Rooms, NEW a \in Times, Announced(a, x) PROVE Announced(a, x)'
  BY <1>1, <1>3, <1>5 DEF Announced
<1> QED
  BY <1>4, <1>5 DEF Grows, Report

(* A step that leaves the file alone and evaluates nothing anew.           *)
LEMMA LedgerKeeps ==
  ASSUME TypeOK, LedgerInv, Grows, UNCHANGED <<baseline, alerted>>, torn => torn',
         \A q \in Runs : Evaluated(q)' => Evaluated(q) /\ next'[q] = next[q]
  PROVE  LedgerInv'
<1> SUFFICES ASSUME ~torn' PROVE FileInv' /\ LoadedInv'
  BY DEF LedgerInv
<1>1. FileInv /\ LoadedInv
  BY DEF LedgerInv
<1>2. FileInv'
  BY <1>1 DEF FileInv, Grows, TypeOK
<1>3. \A q \in Runs : next[q].baseline \in [Rooms -> Baselines] /\ next[q].alerted \in [Rooms -> Times]
  BY DEF TypeOK, Work
<1>4. LoadedInv'
  BY <1>1, <1>3 DEF LoadedInv, Grows
<1> QED
  BY <1>2, <1>4

(* A run that comes to be ahead puts its work into the file.               *)
LEMMA LedgerReplaced ==
  ASSUME TypeOK, LedgerInv, NEW r \in Runs, Replace(r), Evaluated(r), Ahead(r)', Grows,
         UNCHANGED <<next, torn>>,
         \A q \in Runs : Evaluated(q)' => Evaluated(q)
  PROVE  LedgerInv'
<1> SUFFICES ASSUME ~torn' PROVE FileInv' /\ LoadedInv'
  BY DEF LedgerInv
<1>1. FileInv /\ LoadedInv
  BY DEF LedgerInv
<1>2. \A q \in Runs : next[q].baseline \in [Rooms -> Baselines] /\ next[q].alerted \in [Rooms -> Times]
  BY DEF TypeOK, Work
<1>3. ASSUME NEW x \in Rooms PROVE x \in blind' \/ Answered(baseline[x], x)'
  <2>1. baseline'[x] = next[r].baseline[x] /\ baseline'[x] \in Nat
    BY <1>2, LevelsTyped DEF Replace
  <2>2. CASE x \in next[r].rooms /\ x \in next[r].known
    BY <2>1, <2>2 DEF Answered
  <2>3. CASE x \notin next[r].known /\ baseline[x] # 0
    BY <2>3 DEF Replace
  <2>4. CASE x \notin next[r].known /\ baseline[x] = 0
    <3>1. seen'[x] = Larger(next[r].baseline[x], seen[x]) /\ seen[x] \in Baselines
      BY <2>4 DEF Replace, TypeOK
    <3> QED
      BY <1>2, <2>1, <3>1, LargerTyped DEF Answered
  <2>5. CASE x \notin next[r].rooms
    <3>1. x \in blind \/ Answered(next[r].baseline[x], x)'
      BY <1>1, <1>2, <2>5 DEF LoadedInv, Grows
    <3>2. Answered(next[r].baseline[x], x)' => Answered(baseline[x], x)'
      BY <2>1 DEF Answered
    <3> QED
      BY <3>1, <3>2 DEF Grows
  <2> QED
    BY <2>2, <2>3, <2>4, <2>5
<1>4. ASSUME NEW x \in Rooms PROVE Announced(alerted[x], x)'
  <2>1. alerted'[x] = next[r].alerted[x]
    BY DEF Replace
  <2>2. CASE x \in next[r].emitted
    BY <2>1, <2>2 DEF Announced
  <2>3. CASE x \notin next[r].emitted
    BY <1>1, <1>2, <2>1, <2>3 DEF LoadedInv, Grows, Announced
  <2> QED
    BY <2>2, <2>3
<1>5. LoadedInv'
  BY <1>1, <1>2 DEF LoadedInv, Grows
<1> QED
  BY <1>3, <1>4, <1>5 DEF FileInv

(* What a run evaluates of the rooms it did not collect, and the alerts it *)
(* does not emit, are the file's, or nothing.                              *)
LEMMA EvaluateLoads ==
  ASSUME TypeOK, NEW r \in Runs, Evaluate(r), NEW x \in Rooms
  PROVE  /\ x \notin next'[r].rooms => next'[r].baseline[x] \in {baseline[x], 0}
         /\ x \notin next'[r].emitted => next'[r].alerted[x] \in {alerted[x], 0}
<1>1. PICK old \in {File, NoFile}, t \in now .. MaxTime :
        next' = [next EXCEPT ![r] = Computed(old, next[r], t)]
  BY DEF Evaluate
<1>2. next'[r] = Computed(old, next[r], t)
  BY <1>1 DEF TypeOK
<1>3. old.baseline[x] \in {baseline[x], 0} /\ old.alerted[x] \in {alerted[x], 0}
  BY DEF File, NoFile, Zero
<1> QED
  BY <1>2, <1>3 DEF Computed, NextBaseline, NextAlerted

LEMMA LedgerStep == TypeOK /\ TypeOK' /\ ShapeInv /\ LedgerInv /\ [Next]_vars => LedgerInv'
<1> SUFFICES ASSUME TypeOK, TypeOK', ShapeInv, LedgerInv, [Next]_vars PROVE LedgerInv'
  OBVIOUS
<1>1. CASE UNCHANGED vars
  BY <1>1, GrowsQuietly, LedgerKeeps DEF vars, state, reports, Ahead, Evaluated
<1>2. ASSUME NEW r \in Runs, Start(r) PROVE LedgerInv'
  <2>1. work[r] = "none" /\ ~Ahead(r)
    BY <1>2 DEF Start, TypeOK, ShapeInv, Ahead
  <2>2. Grows
    BY <1>2, <2>1, GrowsQuietly DEF Start, Ahead, TypeOK, state, reports
  <2> QED
    BY <1>2, <2>2, LedgerKeeps DEF Start, Evaluated, TypeOK, state, reports
<1>3. ASSUME NEW r \in Runs, Collect(r) PROVE LedgerInv'
  <2>1. ~Ahead(r)
    BY <1>3 DEF Collect, At, ShapeInv, Ahead
  <2>2. \A q \in Runs \ {r} : next'[q] = next[q] /\ work'[q] = work[q]
    BY <1>3 DEF Collect, At, TypeOK
  <2>3. Grows
    BY <1>3, <2>1, <2>2, GrowsQuietly DEF Collect, Ahead, state, reports
  <2>4. ~Evaluated(r)'
    BY <1>3 DEF Collect, At, Evaluated, TypeOK
  <2> QED
    BY <1>3, <2>2, <2>3, <2>4, LedgerKeeps DEF Collect, Evaluated, state, reports
<1>4. ASSUME NEW r \in Runs, Evaluate(r) PROVE LedgerInv'
  <2>1. ~Ahead(r)
    BY <1>4 DEF Evaluate, At, ShapeInv, Ahead
  <2>2. \A q \in Runs \ {r} : next'[q] = next[q] /\ work'[q] = work[q]
    BY <1>4 DEF Evaluate, At, TypeOK
  <2>3. Grows
    BY <1>4, <2>1, <2>2, GrowsQuietly DEF Evaluate, Ahead, reports
  <2> SUFFICES ASSUME ~torn' PROVE FileInv' /\ LoadedInv'
    BY DEF LedgerInv
  <2>5. FileInv /\ LoadedInv
    BY <1>4 DEF LedgerInv, Evaluate, reports
  <2>6. FileInv'
    BY <1>4, <2>3, <2>5 DEF Evaluate, FileInv, Grows, TypeOK
  <2>7. ASSUME NEW q \in Runs, Evaluated(q)', NEW x \in Rooms
        PROVE  /\ x \notin next'[q].rooms => x \in blind' \/ Answered(next[q].baseline[x], x)'
               /\ x \notin next'[q].emitted => Announced(next[q].alerted[x], x)'
    <3>1. CASE q = r
      <4>1. /\ x \in blind' \/ Answered(baseline[x], x)'
            /\ Announced(alerted[x], x)'
        BY <2>6 DEF FileInv
      <4>2. baseline'[x] = baseline[x] /\ alerted'[x] = alerted[x]
        BY <1>4 DEF Evaluate
      <4>3. 0 <= seen'[x]
        BY LevelsTyped, AlertAssumption DEF TypeOK, Baselines
      <4>4. ASSUME x \notin next'[q].rooms
            PROVE  x \in blind' \/ Answered(next[q].baseline[x], x)'
        <5>1. next'[r].baseline[x] \in {baseline'[x], 0}
          BY <1>4, <3>1, <4>2, <4>4, EvaluateLoads
        <5> QED
          BY <3>1, <4>1, <4>3, <5>1 DEF Answered
      <4>5. ASSUME x \notin next'[q].emitted
            PROVE  Announced(next[q].alerted[x], x)'
        <5>1. next'[r].alerted[x] \in {alerted'[x], 0}
          BY <1>4, <3>1, <4>2, <4>5, EvaluateLoads
        <5> QED
          BY <3>1, <4>1, <5>1 DEF Announced
      <4> QED
        BY <4>4, <4>5
    <3>2. CASE q # r
      <4>1. next[q].baseline \in [Rooms -> Baselines] /\ next[q].alerted \in [Rooms -> Times]
        BY DEF TypeOK, Work
      <4>2. Evaluated(q) /\ next'[q] = next[q]
        BY <2>2, <2>7, <3>2 DEF Evaluated
      <4> QED
        BY <4>1, <4>2, <2>3, <2>5 DEF LoadedInv, Grows
    <3> QED
      BY <3>1, <3>2
  <2> QED
    BY <2>6, <2>7 DEF LoadedInv
<1>5. ASSUME NEW r \in Runs, SaveInChild(r) PROVE LedgerInv'
  <2>1. ~Ahead(r)
    BY <1>5 DEF SaveInChild, At, ShapeInv, Ahead
  <2>2. Grows
    BY <1>5, <2>1, GrowsQuietly DEF SaveInChild, At, Ahead, TypeOK, state, reports
  <2> QED
    BY <1>5, <2>2, LedgerKeeps DEF SaveInChild, At, Evaluated, TypeOK, state, reports
<1>c. ASSUME NEW r \in Runs, ChildCut(r) PROVE LedgerInv'
  <2>1. ~Ahead(r)
    BY <1>c DEF ChildCut, At, ShapeInv, Ahead
  <2>2. Grows
    BY <1>c, <2>1, GrowsQuietly DEF ChildCut, At, Ahead, TypeOK, state, reports
  <2> QED
    BY <1>c, <2>2, LedgerKeeps DEF ChildCut, At, Evaluated, TypeOK, state, reports
<1>6. ASSUME NEW r \in Runs, SaveInline(r) PROVE LedgerInv'
  <2>1. Grows
    <3>1. \A q \in Runs : Ahead(q) => Ahead(q)' /\ next'[q] = next[q]
      BY <1>6 DEF SaveInline, At, Ahead, TypeOK, ShapeInv
    <3> QED
      BY <1>6, <3>1, ReplaceGrows, GrowsByAhead DEF SaveInline, reports
  <2>2. Ahead(r)' /\ Evaluated(r)
    BY <1>6 DEF SaveInline, At, Ahead, Evaluated, TypeOK
  <2>3. \A q \in Runs : Evaluated(q)' => Evaluated(q)
    BY <1>6 DEF SaveInline, At, Evaluated, TypeOK
  <2> QED
    BY <1>6, <2>1, <2>2, <2>3, LedgerReplaced DEF SaveInline, reports
<1>7. ASSUME NEW r \in Runs, Promote(r) PROVE LedgerInv'
  <2>1. Grows
    <3>1. \A q \in Runs : Ahead(q) => Ahead(q)' /\ next'[q] = next[q]
      BY <1>7 DEF Promote, Ahead, TypeOK
    <3> QED
      BY <1>7, <3>1, ReplaceGrows, GrowsByAhead DEF Promote, reports
  <2>2. Ahead(r)' /\ Evaluated(r)
    BY <1>7 DEF Promote, Promotable, Ahead, Evaluated, TypeOK
  <2> QED
    BY <1>7, <2>1, <2>2, LedgerReplaced DEF Promote, Evaluated, reports
<1>8. ASSUME NEW r \in Runs, Report(r) PROVE LedgerInv'
  <2>1. \A q \in Runs : Evaluated(q)' => Evaluated(q) /\ next'[q] = next[q]
    BY <1>8 DEF Report, Leave, Evaluated, TypeOK
  <2> QED
    BY <1>8, <2>1, GrowsByReport, LedgerKeeps DEF Report
<1>9. ASSUME NEW r \in Runs, NoReport(r) PROVE LedgerInv'
  <2>1. CASE torn'
    BY <2>1 DEF LedgerInv
  <2>2. CASE ~torn'
    <3>1. ~Ahead(r)
      BY <1>9, <2>2 DEF NoReport
    <3>2. \A q \in Runs : Evaluated(q)' => Evaluated(q) /\ next'[q] = next[q]
      BY <1>9 DEF NoReport, Leave, Evaluated, TypeOK
    <3>3. Grows
      BY <1>9, <3>1, GrowsQuietly DEF NoReport, Leave, Ahead, TypeOK, state
    <3> QED
      BY <1>9, <3>2, <3>3, LedgerKeeps DEF NoReport, state
  <2> QED
    BY <2>1, <2>2
<1>10. ASSUME NEW r \in Runs, ChildFails(r) PROVE LedgerInv'
  <2>1. ~Ahead(r)
    BY <1>10 DEF ChildFails, ShapeInv, Ahead, Ended
  <2>2. Grows
    BY <1>10, <2>1, GrowsQuietly DEF ChildFails, Ahead, TypeOK, state, reports
  <2> QED
    BY <1>10, <2>2, LedgerKeeps DEF ChildFails, Evaluated, TypeOK, state, reports
<1>11. ASSUME NEW r \in Runs, TimeOut(r) PROVE LedgerInv'
  <2>1. Grows
    BY <1>11, GrowsQuietly DEF TimeOut, Ahead, TypeOK, state, reports
  <2> QED
    BY <1>11, <2>1, LedgerKeeps DEF TimeOut, Evaluated, state, reports
<1>12. ASSUME NEW r \in Runs, Working(r) PROVE LedgerInv'
  BY <1>3, <1>4, <1>5, <1>6, <1>8, <1>9, <1>10, <1>12, <1>c DEF Working, PrintInline, InlineEnds
<1>13. ASSUME NEW r \in Runs, Parent(r) PROVE LedgerInv'
  BY <1>7, <1>8, <1>9, <1>11, <1>13 DEF Parent, PassOnFailure, Deliver, Terminate
<1>14. ASSUME NEW r \in Runs, ParentFails(r) PROVE LedgerInv'
  BY <1>9, <1>14 DEF ParentFails
<1> QED
  BY <1>1, <1>2, <1>12, <1>13, <1>14 DEF Next

(* The state file accounts for no alert, and for no damage since a room's  *)
(* first baseline, that was not reported, but in the two windows and in    *)
(* the rooms that the property excepts.                                    *)
THEOREM StateFollows == Spec => []StateFollowsReports
<1>1. Init => TypeOK /\ ShapeInv /\ LedgerInv
  BY TypeInit, ShapeInit, LedgerInit
<1>2. TypeOK /\ ShapeInv /\ LedgerInv /\ [Next]_vars => (TypeOK /\ ShapeInv /\ LedgerInv)'
  BY TypeStep, ShapeStep, LedgerStep
<1>3. TypeOK /\ LedgerInv => StateFollowsReports
  BY LedgerImplies
<1> QED
  BY <1>1, <1>2, <1>3, PTL DEF Spec

-----------------------------------------------------------------------------
(* The debounce *)

(* A state that records an alert of a room has a baseline of it.           *)
RecordInv ==
  /\ \A x \in Rooms : alerted[x] # 0 => baseline[x] # 0
  /\ \A r \in Runs, x \in Rooms :
       /\ work[r] = "evaluate" /\ x \in next[r].rooms => next[r].baseline[x] # 0
       /\ Evaluated(r) /\ next[r].alerted[x] # 0 => next[r].baseline[x] # 0

LEMMA RecordInit == Init => RecordInv
  BY DEF Init, RecordInv, Evaluated, Zero

(* A step that leaves the file alone and evaluates nothing anew.           *)
LEMMA RecordKeeps ==
  ASSUME RecordInv, UNCHANGED <<baseline, alerted>>,
         \A q \in Runs : /\ Evaluated(q)' => Evaluated(q) /\ next'[q] = next[q]
                         /\ work'[q] = "evaluate" => work[q] = "evaluate" /\ next'[q] = next[q]
  PROVE  RecordInv'
<1>1. ASSUME NEW q \in Runs, NEW x \in Rooms
      PROVE  /\ work'[q] = "evaluate" /\ x \in next'[q].rooms => next'[q].baseline[x] # 0
             /\ Evaluated(q)' /\ next'[q].alerted[x] # 0 => next'[q].baseline[x] # 0
  <2>1. /\ work[q] = "evaluate" /\ x \in next[q].rooms => next[q].baseline[x] # 0
        /\ Evaluated(q) /\ next[q].alerted[x] # 0 => next[q].baseline[x] # 0
    BY DEF RecordInv
  <2>2. /\ work'[q] = "evaluate" => work[q] = "evaluate" /\ next'[q] = next[q]
        /\ Evaluated(q)' => Evaluated(q) /\ next'[q] = next[q]
    OBVIOUS
  <2> QED
    BY <2>1, <2>2
<1> QED
  BY <1>1 DEF RecordInv

LEMMA RecordReplaced ==
  ASSUME RecordInv, NEW r \in Runs, Replace(r), Evaluated(r), UNCHANGED next,
         \A q \in Runs : /\ Evaluated(q)' => Evaluated(q)
                         /\ work'[q] = "evaluate" => work[q] = "evaluate"
  PROVE  RecordInv'
<1>1. \A x \in Rooms : alerted'[x] # 0 => baseline'[x] # 0
  BY DEF RecordInv, Replace
<1>2. ASSUME NEW q \in Runs, NEW x \in Rooms
      PROVE  /\ work'[q] = "evaluate" /\ x \in next'[q].rooms => next'[q].baseline[x] # 0
             /\ Evaluated(q)' /\ next'[q].alerted[x] # 0 => next'[q].baseline[x] # 0
  <2>1. /\ work[q] = "evaluate" /\ x \in next[q].rooms => next[q].baseline[x] # 0
        /\ Evaluated(q) /\ next[q].alerted[x] # 0 => next[q].baseline[x] # 0
    BY DEF RecordInv
  <2>2. /\ work'[q] = "evaluate" => work[q] = "evaluate" /\ next'[q] = next[q]
        /\ Evaluated(q)' => Evaluated(q) /\ next'[q] = next[q]
    OBVIOUS
  <2> QED
    BY <2>1, <2>2
<1> QED
  BY <1>1, <1>2 DEF RecordInv

LEMMA RecordCollects ==
  ASSUME TypeOK, RecordInv, NEW r \in Runs, Collect(r)
  PROVE  RecordInv'
<1>1. PICK S \in SUBSET Rooms \ {{}} : \E snap \in [S -> Damages] :
        next' = [next EXCEPT ![r] =
          [rooms |-> S, known |-> {}, emitted |-> {}, alerted |-> Zero,
           baseline |-> [x \in Rooms |-> IF x \in S THEN snap[x] ELSE 0]]]
  BY DEF Collect
<1>2. PICK snap \in [S -> Damages] :
        next' = [next EXCEPT ![r] =
          [rooms |-> S, known |-> {}, emitted |-> {}, alerted |-> Zero,
           baseline |-> [x \in Rooms |-> IF x \in S THEN snap[x] ELSE 0]]]
  BY <1>1
<1>3. 0 \notin Damages
  BY AlertAssumption DEF Damages
<1>4. \A x \in Rooms : x \in next'[r].rooms => next'[r].baseline[x] # 0
  BY <1>2, <1>3 DEF TypeOK
<1>5. ~Evaluated(r)' /\ \A q \in Runs \ {r} : work'[q] = work[q] /\ next'[q] = next[q]
  BY <1>2 DEF Collect, At, Evaluated, TypeOK
<1>6. UNCHANGED <<baseline, alerted>>
  BY DEF Collect, state
<1> QED
  BY <1>4, <1>5, <1>6 DEF RecordInv, Evaluated

LEMMA RecordEvaluates ==
  ASSUME TypeOK, RecordInv, NEW r \in Runs, Evaluate(r)
  PROVE  RecordInv'
<1>1. PICK old \in {File, NoFile}, t \in now .. MaxTime :
        next' = [next EXCEPT ![r] = Computed(old, next[r], t)]
  BY DEF Evaluate
<1>2. next'[r] = Computed(old, next[r], t) /\ work[r] = "evaluate" /\ work'[r] = "save"
  BY <1>1 DEF Evaluate, At, TypeOK
<1>3. \A q \in Runs \ {r} : work'[q] = work[q] /\ next'[q] = next[q]
  BY <1>1 DEF Evaluate, At, TypeOK
<1>4. UNCHANGED <<baseline, alerted>>
  BY DEF Evaluate
<1>5. ASSUME NEW x \in Rooms, next'[r].alerted[x] # 0 PROVE next'[r].baseline[x] # 0
  <2>1. CASE x \in next[r].rooms
    <3>1. next[r].baseline[x] # 0
      BY <1>2, <2>1 DEF RecordInv
    <3> QED
      BY <1>2, <2>1, <3>1 DEF Computed, NextBaseline
  <2>2. CASE x \notin next[r].rooms
    <3>1. next'[r].alerted[x] = old.alerted[x] /\ next'[r].baseline[x] = old.baseline[x]
      BY <1>2, <2>2 DEF Computed, NextBaseline, NextAlerted, Emitted
    <3>2. old.alerted[x] # 0 => old.baseline[x] # 0
      BY DEF RecordInv, File, NoFile, Zero
    <3> QED
      BY <1>5, <3>1, <3>2
  <2> QED
    BY <2>1, <2>2
<1> QED
  BY <1>2, <1>3, <1>4, <1>5 DEF RecordInv, Evaluated

LEMMA RecordStep == TypeOK /\ ShapeInv /\ RecordInv /\ [Next]_vars => RecordInv'
<1> SUFFICES ASSUME TypeOK, ShapeInv, RecordInv, [Next]_vars PROVE RecordInv'
  OBVIOUS
<1>1. CASE UNCHANGED vars
  BY <1>1, RecordKeeps DEF vars, state, Evaluated
<1>2. ASSUME NEW r \in Runs, Report(r) \/ NoReport(r) PROVE RecordInv'
  <2>1. \A q \in Runs : /\ Evaluated(q)' => Evaluated(q) /\ next'[q] = next[q]
                        /\ work'[q] = "evaluate" => work[q] = "evaluate" /\ next'[q] = next[q]
    BY <1>2 DEF Report, NoReport, Leave, Evaluated, TypeOK
  <2>2. UNCHANGED <<baseline, alerted>>
    BY <1>2 DEF Report, NoReport, state
  <2> QED
    BY <2>1, <2>2, RecordKeeps
<1>3. ASSUME NEW r \in Runs, Start(r) PROVE RecordInv'
  BY <1>3, RecordKeeps DEF Start, Evaluated, TypeOK, state
<1>4. ASSUME NEW r \in Runs, SaveInChild(r) \/ ChildCut(r) PROVE RecordInv'
  BY <1>4, RecordKeeps DEF SaveInChild, ChildCut, At, Evaluated, TypeOK, state
<1>5. ASSUME NEW r \in Runs, SaveInline(r) PROVE RecordInv'
  BY <1>5, RecordReplaced DEF SaveInline, At, Evaluated, TypeOK
<1>6. ASSUME NEW r \in Runs, Promote(r) PROVE RecordInv'
  BY <1>6, RecordReplaced DEF Promote, Promotable, Evaluated
<1>7. ASSUME NEW r \in Runs, ChildFails(r) PROVE RecordInv'
  BY <1>7, RecordKeeps DEF ChildFails, Evaluated, TypeOK, state
<1>8. ASSUME NEW r \in Runs, TimeOut(r) PROVE RecordInv'
  BY <1>8, RecordKeeps DEF TimeOut, Evaluated, state
<1>9. ASSUME NEW r \in Runs, Working(r) PROVE RecordInv'
  BY <1>2, <1>4, <1>5, <1>7, <1>9, RecordCollects, RecordEvaluates
  DEF Working, PrintInline, InlineEnds
<1>10. ASSUME NEW r \in Runs, Parent(r) PROVE RecordInv'
  BY <1>2, <1>6, <1>8, <1>10 DEF Parent, PassOnFailure, Deliver, Terminate
<1>11. ASSUME NEW r \in Runs, ParentFails(r) PROVE RecordInv'
  BY <1>2, <1>11 DEF ParentFails
<1> QED
  BY <1>1, <1>3, <1>9, <1>10, <1>11 DEF Next

\* An alert of room x that stdout has seen or is about to see.
Voiced(a, x) ==
  \/ a \in told[x]
  \/ \E q \in Runs : Ahead(q) /\ x \in next[q].emitted /\ a = next[q].alerted[x]

\* The voiced alerts of a room are spaced, and none is after the file's.
SpacedInv ==
  \A x \in Rooms \ (blind \cup stray) :
    /\ \A a \in Times : Voiced(a, x) => 1 <= a /\ a <= alerted[x]
    /\ \A a, b \in Times : Voiced(a, x) /\ Voiced(b, x) /\ a < b => b - a >= Debounce

\* What a run computed from the state that is still in the file, of the rooms
\* it knew as the file knows them.
CurrentInv ==
  \A r \in Runs : Evaluated(r) /\ fresh[r] => \A x \in Rooms :
    x \in next[r].known \/ baseline[x] = 0 =>
      IF x \in next[r].emitted
      THEN /\ 1 <= next[r].alerted[x]
           /\ alerted[x] = 0 \/ next[r].alerted[x] - alerted[x] >= Debounce
      ELSE next[r].alerted[x] = alerted[x]

DebounceInv == CurrentInv /\ (lost \/ SpacedInv)

LEMMA DebounceImplies == TypeOK /\ DebounceInv => DebounceHolds
<1> SUFFICES ASSUME TypeOK, DebounceInv, ~lost, NEW x \in Rooms \ (blind \cup stray),
                    NEW t \in told[x], NEW u \in told[x], t < u
             PROVE  u - t >= Debounce
  BY DEF DebounceHolds, Spaced
<1>1. t \in Times /\ u \in Times
  BY DEF TypeOK
<1> QED
  BY <1>1 DEF DebounceInv, SpacedInv, Voiced

LEMMA DebounceInit == Init => DebounceInv
<1> SUFFICES ASSUME Init PROVE CurrentInv /\ SpacedInv
  BY DEF DebounceInv
<1>1. CurrentInv
  BY DEF Init, CurrentInv, Evaluated
<1>2. SpacedInv
  BY DEF Init, SpacedInv, Voiced, Ahead
<1> QED
  BY <1>1, <1>2

(* A step that leaves the file alone, voices nothing in a room that is not *)
(* stray and evaluates nothing.                                            *)
LEMMA DebounceKeeps ==
  ASSUME DebounceInv, UNCHANGED <<baseline, alerted, lost, blind>>, stray \subseteq stray',
         \A x \in Rooms \ stray', a \in Times : Voiced(a, x)' => Voiced(a, x),
         \A q \in Runs : Evaluated(q)' /\ fresh'[q]
           => Evaluated(q) /\ fresh[q] /\ next'[q] = next[q]
  PROVE  DebounceInv'
<1>1. CurrentInv'
  BY DEF DebounceInv, CurrentInv
<1>2. SpacedInv => SpacedInv'
  BY DEF SpacedInv
<1> QED
  BY <1>1, <1>2 DEF DebounceInv

(* Nobody comes to be ahead and nothing is told.                           *)
LEMMA QuietByAhead ==
  ASSUME \A q \in Runs : Ahead(q)' => Ahead(q) /\ next'[q] = next[q],
         UNCHANGED told
  PROVE  \A x \in Rooms, a \in Times : Voiced(a, x)' => Voiced(a, x)
  BY DEF Voiced

(* A run replaces the file by a state it computed from the same file.      *)
LEMMA DebounceReplaced ==
  ASSUME TypeOK, DebounceInv, NEW r \in Runs, Replace(r), Evaluated(r),
         UNCHANGED <<next, told, stray>>,
         \A q \in Runs : Ahead(q)' => Ahead(q) \/ q = r
  PROVE  DebounceInv'
<1>1. CurrentInv'
  BY DEF Replace, CurrentInv
<1> SUFFICES ASSUME ~lost' PROVE SpacedInv'
  BY <1>1 DEF DebounceInv
<1>2. fresh[r] /\ SpacedInv /\ CurrentInv
  BY DEF Replace, DebounceInv, TypeOK
<1> SUFFICES ASSUME NEW x \in Rooms \ (blind' \cup stray')
             PROVE  /\ \A a \in Times : Voiced(a, x)' => 1 <= a /\ a <= alerted'[x]
                    /\ \A a, b \in Times :
                         Voiced(a, x)' /\ Voiced(b, x)' /\ a < b => b - a >= Debounce
  BY DEF SpacedInv
<1>0. x \in Rooms \ (blind \cup stray) /\ (x \in next[r].known \/ baseline[x] = 0)
  BY DEF Replace
<1> DEFINE n == next[r].alerted[x]
<1>3. alerted'[x] = n /\ n \in Nat /\ alerted[x] \in Nat /\ Times \subseteq Nat /\ Debounce \in Nat
  BY AlertAssumption DEF Replace, TypeOK, Work, Times
<1>4. ASSUME NEW a \in Times, Voiced(a, x)'
      PROVE  Voiced(a, x) \/ (x \in next[r].emitted /\ a = n)
  BY <1>4 DEF Voiced
<1>5. /\ x \in next[r].emitted =>
           1 <= n /\ (alerted[x] = 0 \/ n - alerted[x] >= Debounce)
      /\ x \notin next[r].emitted => n = alerted[x]
  BY <1>0, <1>2 DEF CurrentInv
<1>6. \A a \in Times : Voiced(a, x) => 1 <= a /\ a <= alerted[x]
  BY <1>0, <1>2 DEF SpacedInv
<1>7. \A a, b \in Times : Voiced(a, x) /\ Voiced(b, x) /\ a < b => b - a >= Debounce
  BY <1>0, <1>2 DEF SpacedInv
<1>8. alerted[x] <= n
  BY <1>3, <1>5
<1> HIDE DEF n
<1>9. ASSUME NEW a \in Times, Voiced(a, x)' PROVE 1 <= a /\ a <= alerted'[x]
  BY <1>3, <1>4, <1>5, <1>6, <1>8, <1>9
<1>10. ASSUME NEW a \in Times, NEW b \in Times, Voiced(a, x)', Voiced(b, x)', a < b
       PROVE  b - a >= Debounce
  <2>1. CASE Voiced(a, x) /\ Voiced(b, x)
    BY <1>7, <1>10, <2>1
  <2>2. CASE Voiced(a, x) /\ x \in next[r].emitted /\ b = n
    BY <1>3, <1>5, <1>6, <1>10, <2>2
  <2>3. CASE x \in next[r].emitted /\ a = n
    <3>1. b <= n
      BY <1>3, <1>9, <1>10
    <3> QED
      BY <1>3, <1>10, <2>3, <3>1
  <2> QED
    BY <1>4, <1>10, <2>1, <2>2, <2>3
<1> QED
  BY <1>9, <1>10

(* What a run computes from the file keeps the debounce of the rooms that  *)
(* it knows as the file knows them.                                        *)
LEMMA EvaluateSpaces ==
  ASSUME TypeOK, RecordInv, NEW r \in Runs, Evaluate(r), NEW x \in Rooms,
         x \in next'[r].known \/ baseline[x] = 0
  PROVE  IF x \in next'[r].emitted
         THEN /\ 1 <= next'[r].alerted[x]
              /\ alerted[x] = 0 \/ next'[r].alerted[x] - alerted[x] >= Debounce
         ELSE next'[r].alerted[x] = alerted[x]
<1>1. PICK old \in {File, NoFile}, t \in now .. MaxTime :
        next' = [next EXCEPT ![r] = Computed(old, next[r], t)]
  BY DEF Evaluate
<1>2. t \in Nat /\ 1 <= t /\ Debounce \in Nat /\ alerted[x] \in Nat
  BY AlertAssumption, <1>1 DEF TypeOK, Times
<1>3. next'[r] = Computed(old, next[r], t)
  BY <1>1 DEF TypeOK
<1>4. old.alerted[x] = alerted[x]
  <2>1. CASE old = File
    BY <2>1 DEF File
  <2>2. CASE old = NoFile
    <3>1. x \notin next'[r].known
      BY <1>3, <2>2 DEF Computed, NoFile, Zero
    <3> QED
      BY <2>2, <3>1 DEF RecordInv, NoFile, Zero
  <2> QED
    BY <2>1, <2>2
<1>5. CASE x \in next'[r].emitted
  <2>1. ~Suppressed(old, x, t) /\ next'[r].alerted[x] = t
    BY <1>3, <1>5 DEF Computed, Emitted, NextAlerted
  <2> QED
    BY <1>2, <1>4, <1>5, <2>1 DEF Suppressed
<1>6. CASE x \notin next'[r].emitted
  BY <1>3, <1>4, <1>6 DEF Computed, NextAlerted
<1> QED
  BY <1>5, <1>6

LEMMA DebounceStep ==
  TypeOK /\ ShapeInv /\ RecordInv /\ DebounceInv /\ [Next]_vars => DebounceInv'
<1> SUFFICES ASSUME TypeOK, ShapeInv, RecordInv, DebounceInv, [Next]_vars
             PROVE  DebounceInv'
  OBVIOUS
<1>1. CASE UNCHANGED vars
  BY <1>1, QuietByAhead, DebounceKeeps DEF vars, state, reports, Ahead, Evaluated
<1>2. ASSUME NEW r \in Runs, Start(r) PROVE DebounceInv'
  <2>1. \A q \in Runs : Ahead(q)' => Ahead(q) /\ next'[q] = next[q]
    BY <1>2 DEF Start, Ahead, TypeOK
  <2>2. \A q \in Runs : Evaluated(q)' => Evaluated(q)
    BY <1>2 DEF Start, Evaluated, TypeOK
  <2> QED
    BY <1>2, <2>1, <2>2, QuietByAhead, DebounceKeeps DEF Start, state, reports
<1>3. ASSUME NEW r \in Runs, Collect(r) PROVE DebounceInv'
  <2>1. ~Ahead(r)'
    BY <1>3 DEF Collect, At, ShapeInv, Ahead, TypeOK
  <2>2. \A q \in Runs \ {r} : next'[q] = next[q] /\ work'[q] = work[q]
    BY <1>3 DEF Collect, At, TypeOK
  <2>3. \A q \in Runs : Ahead(q)' => Ahead(q) /\ next'[q] = next[q]
    BY <1>3, <2>1, <2>2 DEF Collect, Ahead
  <2>4. ~Evaluated(r)'
    BY <1>3 DEF Collect, At, Evaluated, TypeOK
  <2>5. \A q \in Runs : Evaluated(q)' => Evaluated(q) /\ next'[q] = next[q]
    BY <2>2, <2>4 DEF Evaluated
  <2> QED
    BY <1>3, <2>3, <2>5, QuietByAhead, DebounceKeeps DEF Collect, state, reports
<1>4. ASSUME NEW r \in Runs, Evaluate(r) PROVE DebounceInv'
  <2>1. ~Ahead(r)'
    BY <1>4 DEF Evaluate, At, ShapeInv, Ahead, TypeOK
  <2>2. \A q \in Runs \ {r} : next'[q] = next[q] /\ work'[q] = work[q] /\ fresh'[q] = fresh[q]
    BY <1>4 DEF Evaluate, At, TypeOK
  <2>3. \A q \in Runs : Ahead(q)' => Ahead(q) /\ next'[q] = next[q]
    BY <1>4, <2>1, <2>2 DEF Evaluate, Ahead
  <2>4. \A x \in Rooms, a \in Times : Voiced(a, x)' => Voiced(a, x)
    BY <1>4, <2>3, QuietByAhead DEF Evaluate, reports
  <2>5. UNCHANGED <<baseline, alerted, lost, blind, stray>>
    BY <1>4 DEF Evaluate, reports
  <2>6. lost \/ SpacedInv => (lost \/ SpacedInv)'
    BY <2>4, <2>5 DEF SpacedInv
  <2>7. CurrentInv'
    <3> SUFFICES ASSUME NEW q \in Runs, Evaluated(q)', fresh'[q], NEW x \in Rooms,
                        x \in next'[q].known \/ baseline'[x] = 0
                 PROVE  IF x \in next'[q].emitted
                        THEN /\ 1 <= next'[q].alerted[x]
                             /\ alerted'[x] = 0 \/ next'[q].alerted[x] - alerted'[x] >= Debounce
                        ELSE next'[q].alerted[x] = alerted'[x]
      BY DEF CurrentInv
    <3>1. CASE q = r
      BY <1>4, <2>5, <3>1, EvaluateSpaces
    <3>2. CASE q # r
      BY <2>2, <2>5, <3>2 DEF DebounceInv, CurrentInv, Evaluated
    <3> QED
      BY <3>1, <3>2
  <2> QED
    BY <2>6, <2>7 DEF DebounceInv
<1>5. ASSUME NEW r \in Runs, SaveInChild(r) PROVE DebounceInv'
  <2>1. \A q \in Runs : Ahead(q)' => Ahead(q) /\ next'[q] = next[q]
    BY <1>5 DEF SaveInChild, At, Ahead, ShapeInv, TypeOK
  <2>2. \A q \in Runs : Evaluated(q)' => Evaluated(q)
    BY <1>5 DEF SaveInChild, At, Evaluated, TypeOK
  <2> QED
    BY <1>5, <2>1, <2>2, QuietByAhead, DebounceKeeps DEF SaveInChild, state, reports
<1>c. ASSUME NEW r \in Runs, ChildCut(r) PROVE DebounceInv'
  <2>1. \A q \in Runs : Ahead(q)' => Ahead(q) /\ next'[q] = next[q]
    BY <1>c DEF ChildCut, At, Ahead, ShapeInv, TypeOK
  <2>2. \A q \in Runs : Evaluated(q)' => Evaluated(q)
    BY <1>c DEF ChildCut, At, Evaluated, TypeOK
  <2> QED
    BY <1>c, <2>1, <2>2, QuietByAhead, DebounceKeeps DEF ChildCut, state, reports
<1>6. ASSUME NEW r \in Runs, SaveInline(r) PROVE DebounceInv'
  <2>1. Evaluated(r)
    BY <1>6 DEF SaveInline, At, Evaluated
  <2>2. \A q \in Runs : Ahead(q)' => Ahead(q) \/ q = r
    BY <1>6 DEF SaveInline, At, Ahead, TypeOK
  <2> QED
    BY <1>6, <2>1, <2>2, DebounceReplaced DEF SaveInline, reports
<1>7. ASSUME NEW r \in Runs, Promote(r) PROVE DebounceInv'
  <2>1. Evaluated(r)
    BY <1>7 DEF Promote, Promotable, Evaluated
  <2>2. \A q \in Runs : Ahead(q)' => Ahead(q) \/ q = r
    BY <1>7 DEF Promote, Ahead, TypeOK
  <2> QED
    BY <1>7, <2>1, <2>2, DebounceReplaced DEF Promote, reports
<1>8. ASSUME NEW r \in Runs, Report(r) PROVE DebounceInv'
  <2>1. \A q \in Runs : Ahead(q)' => Ahead(q) /\ next'[q] = next[q]
    BY <1>8 DEF Report, Leave, Ahead, TypeOK
  <2>2. ASSUME NEW x \in Rooms \ stray', NEW a \in Times, Voiced(a, x)' PROVE Voiced(a, x)
    <3>1. x \in next[r].emitted => Ahead(r)
      BY <1>8, <2>2 DEF Report
    <3> QED
      BY <1>8, <2>1, <2>2, <3>1 DEF Voiced, Report
  <2>3. \A q \in Runs : Evaluated(q)' => Evaluated(q) /\ next'[q] = next[q]
    BY <1>8 DEF Report, Leave, Evaluated, TypeOK
  <2>4. stray \subseteq stray' /\ UNCHANGED <<baseline, alerted, fresh, lost, blind>>
    BY <1>8 DEF Report
  <2> QED
    BY <2>2, <2>3, <2>4, DebounceKeeps
<1>9. ASSUME NEW r \in Runs, NoReport(r) PROVE DebounceInv'
  <2>1. \A q \in Runs : Ahead(q)' => Ahead(q) /\ next'[q] = next[q]
    BY <1>9 DEF NoReport, Leave, Ahead, TypeOK
  <2>2. \A q \in Runs : Evaluated(q)' => Evaluated(q) /\ next'[q] = next[q]
    BY <1>9 DEF NoReport, Leave, Evaluated, TypeOK
  <2> QED
    BY <1>9, <2>1, <2>2, QuietByAhead, DebounceKeeps DEF NoReport, state
<1>10. ASSUME NEW r \in Runs, ChildFails(r) PROVE DebounceInv'
  <2>1. \A q \in Runs : Ahead(q)' => Ahead(q) /\ next'[q] = next[q]
    BY <1>10 DEF ChildFails, Ahead, TypeOK
  <2>2. \A q \in Runs : Evaluated(q)' => Evaluated(q)
    BY <1>10 DEF ChildFails, Evaluated, TypeOK
  <2> QED
    BY <1>10, <2>1, <2>2, QuietByAhead, DebounceKeeps DEF ChildFails, state, reports
<1>11. ASSUME NEW r \in Runs, TimeOut(r) PROVE DebounceInv'
  <2>1. \A q \in Runs : Ahead(q)' => Ahead(q) /\ next'[q] = next[q]
    BY <1>11 DEF TimeOut, Ahead, TypeOK
  <2> QED
    BY <1>11, <2>1, QuietByAhead, DebounceKeeps DEF TimeOut, Evaluated, state, reports
<1>12. ASSUME NEW r \in Runs, Working(r) PROVE DebounceInv'
  BY <1>3, <1>4, <1>5, <1>6, <1>8, <1>9, <1>10, <1>12, <1>c
  DEF Working, PrintInline, InlineEnds
<1>13. ASSUME NEW r \in Runs, Parent(r) PROVE DebounceInv'
  BY <1>7, <1>8, <1>9, <1>11, <1>13 DEF Parent, PassOnFailure, Deliver, Terminate
<1>14. ASSUME NEW r \in Runs, ParentFails(r) PROVE DebounceInv'
  BY <1>9, <1>14 DEF ParentFails
<1> QED
  BY <1>1, <1>2, <1>12, <1>13, <1>14 DEF Next

(* The alerts of a room on stdout keep the debounce, until a run replaces  *)
(* a state that is newer than the one it read, and with the exception of   *)
(* the rooms whose record was lost to a failed read or whose alert went    *)
(* out without its state.                                                  *)
THEOREM Debounced == Spec => []DebounceHolds
<1>1. Init => TypeOK /\ ShapeInv /\ RecordInv /\ DebounceInv
  BY TypeInit, ShapeInit, RecordInit, DebounceInit
<1>2. TypeOK /\ ShapeInv /\ RecordInv /\ DebounceInv /\ [Next]_vars
      => (TypeOK /\ ShapeInv /\ RecordInv /\ DebounceInv)'
  BY TypeStep, ShapeStep, RecordStep, DebounceStep
<1>3. TypeOK /\ DebounceInv => DebounceHolds
  BY DebounceImplies
<1> QED
  BY <1>1, <1>2, <1>3, PTL DEF Spec

-----------------------------------------------------------------------------
(* Runs one at a time lose no update *)

\* Alerts of a room are spaced by the debounce, and no run takes the place of a
\* state that is newer than the one it read.  The rooms whose record a failed
\* read lost and those alerted by a cut child are excepted; as long as nothing
\* failed there is none.
DebounceAlone ==
  /\ ~lost
  /\ \A x \in Rooms \ (blind \cup stray) : Spaced(x)
  /\ faults = 0 => blind = {} /\ stray = {}

LoneInv ==
  /\ ~lost
  /\ IsFiniteSet(Active)
  /\ \A r, s \in Active : r = s
  /\ \A r \in Runs :
       /\ Active = {} => ~Ahead(r)
       /\ r \in Active /\ Evaluated(r) /\ ~Ahead(r) => fresh[r]

LEMMA LoneInit == Init => LoneInv
<1> SUFFICES ASSUME Init PROVE LoneInv
  OBVIOUS
<1>1. Active = {}
  BY DEF Init, Active
<1> QED
  BY <1>1, FS_EmptySet DEF Init, LoneInv, Ahead, Evaluated

(* A step that starts no run and leaves the state file alone.              *)
LEMMA LoneKeeps ==
  ASSUME LoneInv, UNCHANGED lost,
         \A q \in Runs : pc[q] \in {"new", "over"} => pc'[q] \in {"new", "over"},
         \A q \in Runs : pc'[q] \in {"new", "over"} => ~Ahead(q)',
         \A q \in Runs : q \in Active' /\ Evaluated(q)' /\ ~Ahead(q)' => fresh'[q]
  PROVE  LoneInv'
<1>1. Active' \subseteq Active
  BY DEF Active
<1>2. IsFiniteSet(Active')
  BY <1>1, FS_Subset DEF LoneInv
<1>3. Active' = {} => \A r \in Runs : ~Ahead(r)'
  BY DEF Active
<1> QED
  BY <1>1, <1>2, <1>3 DEF LoneInv

(* The run that replaces the state file is the only one.                   *)
LEMMA LoneReplaces ==
  ASSUME TypeOK, LoneInv, NEW r \in Active, Replace(r), Evaluated(r), ~Ahead(r),
         Active' = Active, Ahead(r)'
  PROVE  LoneInv'
<1>1. fresh[r] /\ Active = {r} /\ r \in Runs
  BY DEF LoneInv, Active
<1>2. ~lost'
  BY <1>1 DEF Replace, LoneInv
<1> QED
  BY <1>1, <1>2 DEF LoneInv

LEMMA LoneStep ==
  ASSUME MaxOverlap = 1, TypeOK, TypeOK', ShapeInv, ShapeInv', LoneInv, [Next]_vars
  PROVE  LoneInv'
<1>0. \A q \in Runs : pc[q] \in {"new", "over"} => ~Ahead(q)
  BY DEF ShapeInv, Ahead
<1>a. \A q \in Runs : pc'[q] \in {"new", "over"} => ~Ahead(q)'
  BY DEF ShapeInv, Ahead
<1>b. \A q \in Runs : q \in Active /\ Evaluated(q) /\ ~Ahead(q) => fresh[q]
  BY DEF LoneInv
<1>1. CASE UNCHANGED vars
  <2>1. UNCHANGED <<Active, lost, pc, work, saved, fresh>>
    BY <1>1 DEF vars, state, Active
  <2> QED
    BY <1>a, <1>b, <2>1, LoneKeeps DEF Ahead, Evaluated
<1>2. ASSUME NEW r \in Runs, Start(r) PROVE LoneInv'
  <2>1. Active = {}
    <3>1. Cardinality(Active) \in Nat /\ Cardinality(Active) < 1
      BY <1>2, FS_CardinalityType DEF Start, LoneInv
    <3> QED
      BY <3>1, FS_EmptySet DEF LoneInv
  <2>2. /\ pc'[r] \in {"waiting", "inline"} /\ work'[r] = "collect"
        /\ \A q \in Runs \ {r} : pc'[q] = pc[q]
        /\ UNCHANGED <<lost, saved>>
    BY <1>2 DEF Start, TypeOK, state
  <2>3. Active' = {r}
    BY <2>1, <2>2 DEF Active
  <2> QED
    BY <2>2, <2>3, FS_Singleton DEF LoneInv, Evaluated
<1>3. ASSUME NEW r \in Runs, Leave(r), UNCHANGED <<fresh, lost>> PROVE LoneInv'
  <2>1. /\ pc'[r] = "over"
        /\ \A q \in Runs \ {r} : pc'[q] = pc[q] /\ work'[q] = work[q] /\ saved'[q] = saved[q]
    BY <1>3 DEF Leave, TypeOK
  <2> QED
    BY <1>3, <1>a, <1>b, <2>1, LoneKeeps DEF Active, Ahead, Evaluated
<1>4. ASSUME NEW r \in Runs, Working(r) PROVE LoneInv'
  <2>1. ASSUME Collect(r) PROVE LoneInv'
    <3>1. /\ work'[r] = "evaluate" /\ UNCHANGED <<lost, pc, saved, fresh>>
          /\ \A q \in Runs \ {r} : work'[q] = work[q]
      BY <2>1 DEF Collect, At, TypeOK, state
    <3> QED
      BY <1>a, <1>b, <3>1, LoneKeeps DEF Active, Ahead, Evaluated
  <2>2. ASSUME Evaluate(r) PROVE LoneInv'
    <3>1. /\ fresh'[r] = TRUE /\ UNCHANGED <<lost, pc, saved>>
          /\ \A q \in Runs \ {r} : work'[q] = work[q] /\ fresh'[q] = fresh[q]
      BY <2>2 DEF Evaluate, At, TypeOK
    <3> QED
      BY <1>a, <1>b, <3>1, LoneKeeps DEF Active, Ahead, Evaluated
  <2>3. ASSUME SaveInChild(r) \/ ChildCut(r) PROVE LoneInv'
    <3>1. /\ work[r] = "save" /\ UNCHANGED <<lost, pc, saved, fresh>>
          /\ work'[r] \in {"done", "cut"}
          /\ \A q \in Runs \ {r} : work'[q] = work[q]
      BY <2>3 DEF SaveInChild, ChildCut, At, TypeOK, state
    <3>2. ~Ahead(r)
      BY <3>1 DEF Ahead, ShapeInv
    <3> QED
      BY <1>a, <1>b, <3>1, <3>2, LoneKeeps DEF Active, Ahead, Evaluated
  <2>4. ASSUME ChildFails(r) PROVE LoneInv'
    <3>1. /\ work'[r] = "failed" /\ UNCHANGED <<lost, pc, saved, fresh>>
          /\ \A q \in Runs \ {r} : work'[q] = work[q]
      BY <2>4 DEF ChildFails, TypeOK, state
    <3> QED
      BY <1>a, <1>b, <3>1, LoneKeeps DEF Active, Ahead, Evaluated
  <2>5. ASSUME SaveInline(r) PROVE LoneInv'
    <3>1. /\ pc[r] = "inline" /\ work[r] = "save" /\ saved'[r] = TRUE /\ pc' = pc
      BY <2>5 DEF SaveInline, At, TypeOK
    <3>2. r \in Active /\ Evaluated(r) /\ ~Ahead(r) /\ Ahead(r)' /\ Active' = Active
      BY <3>1 DEF Active, Evaluated, Ahead, ShapeInv
    <3> QED
      BY <2>5, <3>2, LoneReplaces DEF SaveInline
  <2> QED
    BY <1>3, <1>4, <2>1, <2>2, <2>3, <2>4, <2>5
    DEF Working, PrintInline, InlineEnds, Report, NoReport, state
<1>5. ASSUME NEW r \in Runs, Parent(r) PROVE LoneInv'
  <2>1. ASSUME Promote(r) PROVE LoneInv'
    <3>1. /\ pc[r] = "waiting" /\ pc'[r] = "promoted" /\ work[r] = "done"
          /\ \A q \in Runs \ {r} : pc'[q] = pc[q]
          /\ UNCHANGED <<work, saved>>
      BY <2>1 DEF Promote, Promotable, TypeOK
    <3>2. r \in Active /\ Evaluated(r) /\ ~Ahead(r) /\ Ahead(r)' /\ Active' = Active
      BY <3>1 DEF Active, Evaluated, Ahead, ShapeInv
    <3> QED
      BY <2>1, <3>2, LoneReplaces DEF Promote
  <2>2. ASSUME TimeOut(r) PROVE LoneInv'
    <3>1. /\ pc[r] = "waiting" /\ work[r] \notin Ended /\ pc'[r] = "killing"
          /\ UNCHANGED <<lost, work, saved, fresh>>
          /\ \A q \in Runs \ {r} : pc'[q] = pc[q]
      BY <2>2 DEF TimeOut, TypeOK, state
    <3> QED
      BY <1>a, <1>b, <3>1, LoneKeeps DEF Active, Ahead, Evaluated, Ended
  <2> QED
    BY <1>3, <1>5, <2>1, <2>2 DEF Parent, PassOnFailure, Deliver, Terminate, Report, NoReport, state
<1>6. ASSUME NEW r \in Runs, ParentFails(r) PROVE LoneInv'
  BY <1>3, <1>6 DEF ParentFails, NoReport, state
<1> QED
  BY <1>1, <1>2, <1>4, <1>5, <1>6 DEF Next

\* As long as nothing failed, every run that read the state in the file knows
\* the rooms it knows.
SightInv ==
  faults = 0 =>
    /\ blind = {} /\ stray = {}
    /\ \A r \in Runs :
         /\ pc[r] # "inline" /\ work[r] # "cut"
         /\ Evaluated(r) /\ fresh[r] => next[r].known = {x \in Rooms : baseline[x] # 0}

LEMMA SightInit == Init => SightInv
  BY DEF Init, SightInv, Evaluated

(* A step that leaves the file alone, starts no inline run, cuts no child  *)
(* and evaluates nothing.                                                  *)
LEMMA SightKeeps ==
  ASSUME SightInv, UNCHANGED <<baseline, blind, stray>>,
         faults' = 0 =>
           /\ faults = 0
           /\ \A q \in Runs :
                /\ pc'[q] = "inline" => pc[q] = "inline"
                /\ work'[q] = "cut" => work[q] = "cut"
                /\ Evaluated(q)' /\ fresh'[q]
                     => Evaluated(q) /\ fresh[q] /\ next'[q] = next[q]
  PROVE  SightInv'
<1> SUFFICES ASSUME faults' = 0
             PROVE  /\ blind' = {} /\ stray' = {}
                    /\ \A q \in Runs :
                         /\ pc'[q] # "inline" /\ work'[q] # "cut"
                         /\ Evaluated(q)' /\ fresh'[q]
                              => next'[q].known = {x \in Rooms : baseline'[x] # 0}
  BY DEF SightInv
<1>1. faults = 0 /\ blind' = {} /\ stray' = {}
  BY DEF SightInv
<1>2. ASSUME NEW q \in Runs
      PROVE  /\ pc'[q] # "inline" /\ work'[q] # "cut"
             /\ Evaluated(q)' /\ fresh'[q]
                  => next'[q].known = {x \in Rooms : baseline'[x] # 0}
  <2>1. /\ pc[q] # "inline" /\ work[q] # "cut"
        /\ Evaluated(q) /\ fresh[q] => next[q].known = {x \in Rooms : baseline[x] # 0}
    BY <1>1 DEF SightInv
  <2>2. /\ pc'[q] = "inline" => pc[q] = "inline"
        /\ work'[q] = "cut" => work[q] = "cut"
        /\ Evaluated(q)' /\ fresh'[q]
             => Evaluated(q) /\ fresh[q] /\ next'[q] = next[q]
    OBVIOUS
  <2> QED
    BY <2>1, <2>2
<1> QED
  BY <1>1, <1>2

LEMMA SightEvaluates ==
  ASSUME TypeOK, SightInv, NEW r \in Runs, Evaluate(r)
  PROVE  SightInv'
<1> SUFFICES ASSUME faults' = 0
             PROVE  /\ blind' = {} /\ stray' = {}
                    /\ \A q \in Runs :
                         /\ pc'[q] # "inline" /\ work'[q] # "cut"
                         /\ Evaluated(q)' /\ fresh'[q]
                              => next'[q].known = {x \in Rooms : baseline'[x] # 0}
  BY DEF SightInv
<1>1. PICK old \in {File, NoFile}, t \in now .. MaxTime :
        /\ \/ old = NoFile /\ Fault
           \/ old = NoFile /\ pc[r] = "inline" /\ UNCHANGED faults
           \/ old = File /\ UNCHANGED faults
        /\ next' = [next EXCEPT ![r] = Computed(old, next[r], t)]
  BY DEF Evaluate
<1>2. ~Fault
  BY DEF Fault, TypeOK
<1>3. faults = 0
  BY <1>1, <1>2
<1>4. old = File
  BY <1>1, <1>2, <1>3 DEF SightInv
<1>5. next'[r].known = {x \in Rooms : baseline'[x] # 0}
  BY <1>1, <1>4 DEF Computed, File, TypeOK, Evaluate
<1>6. ASSUME NEW q \in Runs \ {r}
      PROVE  next'[q] = next[q] /\ work'[q] = work[q] /\ fresh'[q] = fresh[q]
  BY <1>1 DEF Evaluate, At, TypeOK
<1>7. work'[r] = "save" /\ UNCHANGED <<baseline, blind, stray, pc>>
  BY DEF Evaluate, At, TypeOK, reports
<1> QED
  BY <1>3, <1>5, <1>6, <1>7 DEF SightInv, Evaluated

(* The run that replaces the state file knows what is in it.               *)
LEMMA SightReplaces ==
  ASSUME TypeOK, SightInv, NEW r \in Runs, Replace(r), Evaluated(r), fresh[r],
         UNCHANGED <<work, stray, faults>>,
         \A q \in Runs : pc'[q] = "inline" => pc[q] = "inline"
  PROVE  SightInv'
<1> SUFFICES ASSUME faults = 0 PROVE SightInv'
  BY DEF SightInv
<1>1. next[r].known = {x \in Rooms : baseline[x] # 0}
  BY DEF SightInv
<1>2. blind' = {} /\ stray' = {}
  BY <1>1 DEF Replace, SightInv
<1>3. \A q \in Runs : ~fresh'[q]
  BY DEF Replace
<1> QED
  BY <1>2, <1>3 DEF SightInv

LEMMA SightStep ==
  TypeOK /\ TypeOK' /\ ShapeInv /\ LoneInv /\ SightInv /\ [Next]_vars => SightInv'
<1> SUFFICES ASSUME TypeOK, TypeOK', ShapeInv, LoneInv, SightInv, [Next]_vars PROVE SightInv'
  OBVIOUS
<1>0. Fault => faults' # 0
  BY DEF Fault, TypeOK
<1>a. faults' # 0 => SightInv'
  BY DEF SightInv
<1>1. CASE UNCHANGED vars
  <2>1. UNCHANGED <<baseline, blind, stray, faults, pc, work, fresh, next>>
    BY <1>1 DEF vars, state, reports
  <2>2. \A q \in Runs : Evaluated(q)' => Evaluated(q)
    BY <2>1 DEF Evaluated
  <2> QED
    BY <2>1, <2>2, SightKeeps
<1>2. ASSUME NEW r \in Runs, Start(r) PROVE SightInv'
  <2>1. CASE UNCHANGED faults /\ pc' = [pc EXCEPT ![r] = "waiting"]
    BY <1>2, <2>1, SightKeeps DEF Start, state, reports, Evaluated, TypeOK
  <2> QED
    BY <1>0, <1>2, <1>a, <2>1 DEF Start
<1>3. ASSUME NEW r \in Runs, Leave(r), UNCHANGED <<baseline, fresh, blind, stray>>,
             faults' = 0 => faults = 0
      PROVE  SightInv'
  <2>1. ASSUME NEW q \in Runs
        PROVE  /\ pc'[q] = "inline" => pc[q] = "inline"
               /\ work'[q] = "cut" => work[q] = "cut"
               /\ Evaluated(q)' => Evaluated(q) /\ next'[q] = next[q]
    BY <1>3 DEF Leave, Evaluated, TypeOK
  <2> QED
    BY <1>3, <2>1, SightKeeps
<1>4. ASSUME NEW r \in Runs, NoReport(r), faults' = 0 => faults = 0 PROVE SightInv'
  BY <1>3, <1>4 DEF NoReport, state
<1>5. ASSUME NEW r \in Runs, Report(r), Ahead(r) \/ pc[r] = "inline" \/ work[r] = "cut",
             UNCHANGED faults
      PROVE  SightInv'
  <2>1. CASE Ahead(r)
    BY <1>3, <1>5, <2>1 DEF Report
  <2>2. CASE pc[r] = "inline" \/ work[r] = "cut"
    <3>1. faults # 0
      BY <2>2 DEF SightInv
    <3> QED
      BY <1>5, <1>a, <3>1
  <2> QED
    BY <1>5, <2>1, <2>2
<1>6. ASSUME NEW r \in Runs, Collect(r) PROVE SightInv'
  <2>1. \A q \in Runs : /\ work'[q] = "cut" => work[q] = "cut"
                        /\ Evaluated(q)' => Evaluated(q) /\ next'[q] = next[q]
    BY <1>6 DEF Collect, At, Evaluated, TypeOK
  <2> QED
    BY <1>6, <2>1, SightKeeps DEF Collect, state, reports
<1>7. ASSUME NEW r \in Runs, SaveInChild(r) PROVE SightInv'
  <2>1. \A q \in Runs : /\ work'[q] = "cut" => work[q] = "cut"
                        /\ Evaluated(q)' => Evaluated(q)
    BY <1>7 DEF SaveInChild, At, Evaluated, TypeOK
  <2> QED
    BY <1>7, <2>1, SightKeeps DEF SaveInChild, state, reports
<1>8. ASSUME NEW r \in Runs, SaveInline(r) PROVE SightInv'
  <2>1. faults # 0 /\ UNCHANGED faults
    BY <1>8 DEF SaveInline, SightInv
  <2> QED
    BY <1>a, <2>1
<1>9. ASSUME NEW r \in Runs, ChildCut(r) \/ ChildFails(r) PROVE SightInv'
  BY <1>0, <1>9, <1>a DEF ChildCut, ChildFails
<1>10. ASSUME NEW r \in Runs, Promote(r) PROVE SightInv'
  <2>1. r \in Active /\ Evaluated(r) /\ ~Ahead(r)
    BY <1>10 DEF Promote, Promotable, Active, Evaluated, Ahead, ShapeInv
  <2>2. fresh[r]
    BY <2>1 DEF LoneInv
  <2>3. \A q \in Runs : pc'[q] = "inline" => pc[q] = "inline"
    BY <1>10 DEF Promote, TypeOK
  <2> QED
    BY <1>10, <2>1, <2>2, <2>3, SightReplaces DEF Promote, reports
<1>11. ASSUME NEW r \in Runs, TimeOut(r) PROVE SightInv'
  <2>1. \A q \in Runs : pc'[q] = "inline" => pc[q] = "inline"
    BY <1>11 DEF TimeOut, TypeOK
  <2> QED
    BY <1>11, <2>1, SightKeeps DEF TimeOut, Evaluated, state, reports
<1>12. ASSUME NEW r \in Runs, Working(r) PROVE SightInv'
  BY <1>4, <1>5, <1>6, <1>7, <1>8, <1>9, <1>12, SightEvaluates
  DEF Working, PrintInline, InlineEnds
<1>13. ASSUME NEW r \in Runs, Parent(r) PROVE SightInv'
  <2>1. pc[r] = "promoted" => Ahead(r)
    BY DEF ShapeInv, Ahead
  <2> QED
    BY <1>4, <1>5, <1>10, <1>11, <1>13, <2>1 DEF Parent, PassOnFailure, Deliver, Terminate
<1>14. ASSUME NEW r \in Runs, ParentFails(r) PROVE SightInv'
  BY <1>0, <1>14, <1>a DEF ParentFails
<1> QED
  BY <1>1, <1>2, <1>12, <1>13, <1>14 DEF Next

(* With runs that do not overlap no state is replaced by one that was      *)
(* computed from an older state, whatever fails.  The debounce holds       *)
(* through time-outs, kills and failed children; a read of the state that  *)
(* fails and a child that is cut after its report break it for the rooms   *)
(* they concern, and nothing else does.                                    *)
THEOREM LoneRunsKeepDebounce ==
  ASSUME MaxOverlap = 1
  PROVE  Spec => []DebounceAlone
<1>1. Init => TypeOK /\ ShapeInv /\ LoneInv /\ SightInv
  BY TypeInit, ShapeInit, LoneInit, SightInit
<1>2. TypeOK /\ ShapeInv /\ LoneInv /\ SightInv /\ [Next]_vars
      => (TypeOK /\ ShapeInv /\ LoneInv /\ SightInv)'
  BY TypeStep, ShapeStep, LoneStep, SightStep
<1>3. LoneInv /\ SightInv /\ DebounceHolds => DebounceAlone
  BY DEF LoneInv, SightInv, DebounceHolds, DebounceAlone
<1> QED
  BY <1>1, <1>2, <1>3, Debounced, PTL DEF Spec
=============================================================================
