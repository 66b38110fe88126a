------------------------ MODULE LaunchGuard_proofs ------------------------
(***************************************************************************)
(* Proofs about the launch guard, for any number of runs, any threshold    *)
(* under the limit and any overlap: its types, that the paid validations   *)
(* are rationed, the first ones even where a run was let through while a   *)
(* validation was unsettled, and that the known failure is paid for a      *)
(* bounded number of times, between two validations and overall.           *)
(***************************************************************************)
EXTENDS LaunchGuard, SequenceTheorems, FiniteSetTheorems,
        WellFoundedInduction, TLAPS

-----------------------------------------------------------------------------
(* The order of the summaries *)

\* No run is twice in the log.
Injective == \A i, j \in DOMAIN log : log[i] = log[j] => i = j

LogInv == log \in Seq(Runs) /\ Injective

LEMMA NewerOrder ==
  ASSUME LogInv
  PROVE  /\ \A a, b : ~(Newer(a, b) /\ Newer(b, a))
         /\ \A a, b, c : Newer(a, b) /\ Newer(b, c) => Newer(a, c)
         /\ \A a, b : Newer(a, b) => a \in Written /\ b \in Written
         /\ Written \subseteq Runs
<1> USE DEF LogInv, Injective
<1>1. DOMAIN log = 1 .. Len(log) /\ Len(log) \in Nat OBVIOUS
<1>2. \A a, b : ~(Newer(a, b) /\ Newer(b, a)) BY <1>1 DEF Newer
<1>3. \A a, b, c : Newer(a, b) /\ Newer(b, c) => Newer(a, c) BY <1>1 DEF Newer
<1>4. \A a, b : Newer(a, b) => a \in Written /\ b \in Written BY DEF Newer, Written
<1>5. Written \subseteq Runs BY <1>1 DEF Written
<1> QED BY <1>2, <1>3, <1>4, <1>5

\* Taking r out of the log keeps the order of the others.
LEMMA OthersOrder ==
  ASSUME LogInv, NEW r \in Runs
  PROVE  /\ Others(r) \in Seq(Runs)
         /\ \A i, j \in DOMAIN Others(r) : Others(r)[i] = Others(r)[j] => i = j
         /\ \A j \in DOMAIN Others(r) : Others(r)[j] # r
         /\ \A q, p \in Runs \ {r} :
              Newer(q, p) <=> \E i, j \in DOMAIN Others(r) :
                                Others(r)[i] = p /\ Others(r)[j] = q /\ i < j
         /\ Written \ {r} = {Others(r)[i] : i \in DOMAIN Others(r)}
<1>1. DOMAIN log = 1 .. Len(log) /\ Len(log) \in Nat BY DEF LogInv
<1>2. CASE r \notin Written
  <2>1. Others(r) = log BY <1>2 DEF Others
  <2> QED BY <1>2, <2>1 DEF LogInv, Injective, Newer, Written
<1>3. CASE r \in Written
  <2> DEFINE at == CHOOSE i \in DOMAIN log : log[i] = r
             n == Len(log)
  <2>1. at \in 1 .. n /\ log[at] = r
    <3>1. \E i \in DOMAIN log : log[i] = r BY <1>3 DEF Written
    <3> QED BY <1>1, <3>1
  <2>2. Others(r) = SubSeq(log, 1, at - 1) \o SubSeq(log, at + 1, n)
    BY <1>3 DEF Others
  <2> HIDE DEF at
  <2> DEFINE o == Others(r)
             back(j) == IF j < at THEN j ELSE j + 1
  <2>3. n \in Nat /\ \A i \in 1 .. n : log[i] \in Runs BY <1>1 DEF LogInv
  <2> DEFINE s == SubSeq(log, 1, at - 1)
             t == SubSeq(log, at + 1, n)
  <2>4. /\ s \in Seq(Runs) /\ Len(s) = at - 1
        /\ \A j \in 1 .. at - 1 : s[j] = log[j]
    BY <2>1, <2>3, SubSeqProperties DEF LogInv
  <2>5. /\ t \in Seq(Runs) /\ Len(t) = n - at
        /\ \A j \in 1 .. n - at : t[j] = log[at + j]
    BY <2>1, <2>3, SubSeqProperties DEF LogInv
  <2>6. /\ o \in Seq(Runs) /\ DOMAIN o = 1 .. n - 1
        /\ \A j \in 1 .. n - 1 : o[j] = log[back(j)]
    <3>1. o = s \o t BY <2>2
    <3> HIDE DEF s, t, o
    <3>2. /\ o \in Seq(Runs) /\ Len(o) = (at - 1) + (n - at)
          /\ \A j \in 1 .. (at - 1) + (n - at) :
               o[j] = IF j <= at - 1 THEN s[j] ELSE t[j - (at - 1)]
      <4>1. s \in Seq(Runs) /\ t \in Seq(Runs) BY <2>4, <2>5
      <4>2. /\ s \o t \in Seq(Runs) /\ Len(s \o t) = Len(s) + Len(t)
            /\ \A j \in 1 .. Len(s) + Len(t) :
                 (s \o t)[j] = IF j <= Len(s) THEN s[j] ELSE t[j - Len(s)]
        BY ONLY <4>1, ConcatProperties, Zenon
      <4> QED BY <2>4, <2>5, <3>1, <4>2
    <3>3. Len(o) = n - 1 BY <2>1, <2>3, <3>2
    <3>4. DOMAIN o = 1 .. n - 1 BY <3>2, <3>3
    <3>5. ASSUME NEW j \in 1 .. n - 1 PROVE o[j] = log[back(j)]
      <4>1. CASE j < at BY <2>1, <2>3, <2>4, <3>2, <4>1
      <4>2. CASE ~(j < at)
        <5>1. j - (at - 1) \in 1 .. n - at /\ at + (j - (at - 1)) = j + 1
          BY <2>1, <2>3, <4>2
        <5>2. o[j] = t[j - (at - 1)] BY <2>1, <2>3, <3>2, <4>2
        <5> QED BY <2>5, <4>2, <5>1, <5>2
      <4> QED BY <4>1, <4>2
    <3> QED BY <3>2, <3>4, <3>5
  <2>7. \A j \in 1 .. n - 1 : back(j) \in 1 .. n /\ back(j) # at BY <2>1, <2>3
  <2>8. \A i, j \in 1 .. n - 1 : i < j <=> back(i) < back(j) BY <2>1, <2>3
  <2>9. \A k \in 1 .. n : k # at => \E j \in 1 .. n - 1 : back(j) = k
    <3> SUFFICES ASSUME NEW k \in 1 .. n, k # at
                 PROVE  \E j \in 1 .. n - 1 : back(j) = k
      OBVIOUS
    <3>1. CASE k < at
      <4>1. k \in 1 .. n - 1 /\ back(k) = k BY <2>1, <2>3, <3>1
      <4> QED BY <4>1
    <3>2. CASE k > at
      <4>1. k - 1 \in 1 .. n - 1 /\ back(k - 1) = k BY <2>1, <2>3, <3>2
      <4> QED BY <4>1
    <3> QED BY <2>1, <2>3, <3>1, <3>2
  <2> HIDE DEF o, back
  <2>10. \A i, j \in DOMAIN o : o[i] = o[j] => i = j
    <3> SUFFICES ASSUME NEW i \in 1 .. n - 1, NEW j \in 1 .. n - 1, o[i] = o[j] PROVE i = j
      BY <2>6
    <3>1. back(i) = back(j) BY <1>1, <2>6, <2>7 DEF LogInv, Injective
    <3>2. ~(back(i) < back(j)) /\ ~(back(j) < back(i)) BY <2>3, <2>7, <3>1
    <3>3. ~(i < j) /\ ~(j < i) BY <2>8, <3>2
    <3> QED BY <2>3, <3>3
  <2>11. \A j \in DOMAIN o : o[j] # r
    BY <1>1, <2>1, <2>6, <2>7 DEF LogInv, Injective
  <2>12. ASSUME NEW q \in Runs \ {r}, NEW p \in Runs \ {r}
         PROVE  Newer(q, p) <=> \E i, j \in DOMAIN o : o[i] = p /\ o[j] = q /\ i < j
    <3>1. ASSUME Newer(q, p) PROVE \E i, j \in DOMAIN o : o[i] = p /\ o[j] = q /\ i < j
      <4>1. PICK k, l \in 1 .. n : log[k] = p /\ log[l] = q /\ k < l
        BY <1>1, <3>1 DEF Newer
      <4>2. k # at /\ l # at BY <2>1, <4>1
      <4>3. PICK i, j \in 1 .. n - 1 : back(i) = k /\ back(j) = l BY <2>9, <4>2
      <4> QED BY <2>6, <2>8, <4>1, <4>3
    <3>2. ASSUME NEW i \in DOMAIN o, NEW j \in DOMAIN o, o[i] = p, o[j] = q, i < j
          PROVE  Newer(q, p)
      BY <1>1, <2>6, <2>7, <2>8, <3>2 DEF Newer
    <3> QED BY <3>1, <3>2
  <2>13. Written \ {r} = {o[i] : i \in DOMAIN o}
    <3>1. ASSUME NEW x \in Written \ {r} PROVE \E i \in DOMAIN o : o[i] = x
      <4>1. PICK k \in 1 .. n : log[k] = x BY <1>1 DEF Written
      <4>2. PICK j \in 1 .. n - 1 : back(j) = k BY <2>1, <2>9, <4>1
      <4> QED BY <2>6, <4>1, <4>2
    <3>2. ASSUME NEW i \in DOMAIN o PROVE o[i] \in Written \ {r}
      BY <1>1, <2>6, <2>7, <2>11 DEF Written
    <3> QED BY <3>1, <3>2
  <2> QED BY <2>6, <2>10, <2>11, <2>12, <2>13 DEF o
<1> QED BY <1>2, <1>3

\* A write makes the summary of r the newest, and keeps the order of the others.
LEMMA WriteOrder ==
  ASSUME LogInv, NEW r \in Runs, Write(r)
  PROVE  /\ LogInv' /\ Written' = Written \cup {r}
         /\ \A q, p \in Runs \ {r} : Newer(q, p)' <=> Newer(q, p)
         /\ \A p \in Written \ {r} : Newer(r, p)'
<1> DEFINE o == Others(r)
           n == Len(Others(r))
<1>1. log' = Append(o, r) BY DEF Write
<1>2. /\ o \in Seq(Runs) /\ n \in Nat /\ DOMAIN o = 1 .. n
      /\ \A i, j \in 1 .. n : o[i] = o[j] => i = j
      /\ \A j \in 1 .. n : o[j] # r
      /\ Written \ {r} = {o[i] : i \in 1 .. n}
      /\ \A q, p \in Runs \ {r} :
           Newer(q, p) <=> \E i, j \in 1 .. n : o[i] = p /\ o[j] = q /\ i < j
  <2>1. /\ o \in Seq(Runs)
        /\ \A i, j \in DOMAIN o : o[i] = o[j] => i = j
        /\ \A j \in DOMAIN o : o[j] # r
        /\ \A q, p \in Runs \ {r} :
             Newer(q, p) <=> \E i, j \in DOMAIN o : o[i] = p /\ o[j] = q /\ i < j
        /\ Written \ {r} = {o[i] : i \in DOMAIN o}
    BY OthersOrder
  <2> HIDE DEF o
  <2>2. n \in Nat /\ DOMAIN o = 1 .. n BY <2>1 DEF o
  <2> QED BY <2>1, <2>2
<1> HIDE DEF o, n
<1>3. /\ log' \in Seq(Runs) /\ DOMAIN log' = 1 .. n + 1 /\ log'[n + 1] = r
      /\ \A j \in 1 .. n : log'[j] = o[j]
  BY <1>1, <1>2, AppendProperties DEF n, o
<1>4. \A i \in 1 .. n + 1 : i \in 1 .. n \/ i = n + 1 BY <1>2
<1>5. \A i \in 1 .. n : i \in 1 .. n + 1 /\ i < n + 1 BY <1>2
<1>6. n + 1 \in 1 .. n + 1 BY <1>2
<1>7. Injective' BY <1>2, <1>3, <1>4 DEF Injective
<1>8. Written' = Written \cup {r}
  <2>1. Written' = {log'[i] : i \in 1 .. n + 1} BY <1>3 DEF Written
  <2>2. \A i \in 1 .. n + 1 : log'[i] \in Written \cup {r} BY <1>2, <1>3, <1>4
  <2>3. \A x \in Written : x # r => \E i \in 1 .. n + 1 : log'[i] = x
    BY <1>2, <1>3, <1>5
  <2>4. log'[n + 1] = r BY <1>3
  <2> QED BY <1>6, <2>1, <2>2, <2>3, <2>4
<1>9. ASSUME NEW q \in Runs \ {r}, NEW p \in Runs \ {r}
      PROVE  Newer(q, p)' <=> Newer(q, p)
  <2>1. Newer(q, p)' <=> \E i, j \in 1 .. n + 1 : log'[i] = p /\ log'[j] = q /\ i < j
    BY <1>3 DEF Newer
  <2>2. \A i \in 1 .. n + 1 : log'[i] \in {p, q} => i \in 1 .. n BY <1>3, <1>4
  <2> QED BY <1>2, <1>3, <1>5, <2>1, <2>2
<1>10. ASSUME NEW p \in Written \ {r} PROVE Newer(r, p)'
  <2>1. PICK i \in 1 .. n : o[i] = p BY <1>2
  <2> QED BY <1>3, <1>5, <1>6, <2>1 DEF Newer
<1> QED BY <1>3, <1>7, <1>8, <1>9, <1>10 DEF LogInv

-----------------------------------------------------------------------------
(* Types *)

\* What the phase of a run says about its summary.
RunInv ==
  \A r \in Runs :
    /\ pc[r] = "new" => verdict[r] = "none"
    /\ pc[r] \in {"new", "decided"} => r \notin Written
    /\ pc[r] \in {"recorded", "up", "down"} => r \in Written
    /\ pc[r] \in {"new", "decided", "recorded"} => status[r] = "unknown" /\ ~reached[r]
    /\ pc[r] = "up" => status[r] = "unknown" /\ reached[r]
    /\ pc[r] = "down" => status[r] \in {"completed", "failed"} /\ reached[r]
    /\ pc[r] \in {"new", "decided", "recorded", "up"} => failure[r] = "none"
    /\ status[r] # "unknown" \/ reached[r] \/ failure[r] # "none" => r \in Written

TInv == TypeOK /\ Injective /\ RunInv

LEMMA InitTypes == Init => TInv
<1> SUFFICES ASSUME Init PROVE TInv OBVIOUS
<1> USE DEF Init
<1>1. log \in Seq(Runs) /\ DOMAIN log = {} OBVIOUS
<1>2. TypeOK
  <2>1. hasty \in BOOLEAN OBVIOUS
  <2>3. stops = 0 /\ 0 \in 0 .. MaxStops BY GuardAssumption
  <2>2. pc \in [Runs -> Active \cup {"new", "over"}] BY DEF Active
  <2> QED BY <1>1, <2>1, <2>2, <2>3 DEF TypeOK
<1>3. Injective /\ Written = {} BY <1>1 DEF Injective, Written
<1>4. RunInv BY <1>3 DEF RunInv
<1> QED BY <1>2, <1>3, <1>4 DEF TInv

\* The steps of a run after the guard let it through.
Step(r) ==
  Record(r) \/ Prepare(r) \/ ScaleUp(r) \/ Train(r) \/ Finish(r) \/ Signal(r) \/ Kill(r)

\* A step concerns one run, which has begun and is not over.
LEMMA StepFrame ==
  ASSUME TInv, NEW r \in Runs, Step(r)
  PROVE  /\ pc[r] \in Active /\ pc'[r] \in (Active \ {"decided"}) \cup {"over"}
         /\ UNCHANGED <<verdict, hasty>>
         /\ \A q \in Runs \ {r} : /\ pc'[q] = pc[q] /\ status'[q] = status[q]
                                  /\ reached'[q] = reached[q] /\ failure'[q] = failure[q]
         /\ Write(r) \/ UNCHANGED log
         /\ LogInv' /\ (r \in Written => r \in Written')
         /\ \A q, p \in Runs \ {r} : Newer(q, p)' <=> Newer(q, p)
         /\ \A p \in Written \ {r} : r \in Written' \ Written => Newer(r, p)'
         /\ \A p \in Written \ {r} : Newer(r, p) => Newer(r, p)'
         /\ \A q \in Runs \ {r} : q \in Written' <=> q \in Written
<1>1. /\ pc[r] \in Active /\ UNCHANGED <<verdict, hasty>> /\ (Write(r) \/ UNCHANGED log)
      /\ \A q \in Runs \ {r} : /\ pc'[q] = pc[q] /\ status'[q] = status[q]
                               /\ reached'[q] = reached[q] /\ failure'[q] = failure[q]
      /\ pc'[r] \in (Active \ {"decided"}) \cup {"over"}
  BY DEF Step, Record, Prepare, ScaleUp, Train, Finish, Signal, Kill, Stop, End, Goto, Active,
     TInv, TypeOK
<1>2. LogInv BY DEF TInv, TypeOK, LogInv
<1>3. CASE Write(r)
  <2>1. /\ LogInv' /\ Written' = Written \cup {r}
        /\ \A q, p \in Runs \ {r} : Newer(q, p)' <=> Newer(q, p)
        /\ \A p \in Written \ {r} : Newer(r, p)'
    BY <1>2, <1>3, WriteOrder
  <2> QED BY <1>1, <2>1
<1>4. CASE UNCHANGED log
  <2>1. Written' = Written /\ LogInv' /\ \A q, p : Newer(q, p)' <=> Newer(q, p)
    BY <1>2, <1>4 DEF Written, Newer, LogInv, Injective
  <2> QED BY <1>1, <2>1
<1> QED BY <1>1, <1>3, <1>4

LEMMA StepTypes == ASSUME TInv, NEW r \in Runs, Step(r) PROVE TInv'
<1>1. /\ pc[r] \in Active /\ pc'[r] \in Active \cup {"over"} /\ UNCHANGED <<verdict, hasty>>
      /\ \A q \in Runs \ {r} : /\ pc'[q] = pc[q] /\ status'[q] = status[q]
                               /\ reached'[q] = reached[q] /\ failure'[q] = failure[q]
      /\ LogInv' /\ (r \in Written => r \in Written')
      /\ \A q \in Runs \ {r} : q \in Written' <=> q \in Written
  BY StepFrame
<1>2. TypeOK'
  <2> USE DEF TInv, TypeOK
  <2>1. log' \in Seq(Runs) BY <1>1 DEF LogInv
  <2> USE DEF Step, Record, Prepare, ScaleUp, Train, Finish, Signal, Kill, End, Goto
  <2>2. pc' \in [Runs -> Active \cup {"new", "over"}] BY DEF Active
  <2>3. status' \in [Runs -> {"unknown", "completed", "failed", "signal"}] OBVIOUS
  <2>4. reached' \in [Runs -> BOOLEAN] OBVIOUS
  <2>5. failure' \in [Runs -> {"none", "busy", "timeout"}] OBVIOUS
  <2>6. stops' \in 0 .. MaxStops BY GuardAssumption DEF Stop
  <2>7. \A q \in Runs : status'[q] = "completed" \/ failure'[q] # "none" => reached'[q]
    <3>1. status'[r] = "completed" \/ failure'[r] # "none" => reached'[r]
      BY DEF RunInv
    <3> QED BY <1>1, <3>1
  <2> QED BY <1>1, <2>1, <2>2, <2>3, <2>4, <2>5, <2>6, <2>7
<1>3. Write(r) => r \in Written'
  BY WriteOrder DEF TInv, TypeOK, LogInv
<1>4. RunInv'
  <2>1. \A q \in Runs \ {r} : verdict'[q] = verdict[q] BY <1>1
  <2>2. /\ pc'[r] # "new" /\ pc'[r] # "decided"
        /\ pc'[r] \in {"recorded", "up", "down"} => r \in Written'
        /\ pc'[r] = "recorded" => status'[r] = "unknown" /\ ~reached'[r]
        /\ pc'[r] = "up" => status'[r] = "unknown" /\ reached'[r]
        /\ pc'[r] = "down" => status'[r] \in {"completed", "failed"} /\ reached'[r]
        /\ pc'[r] \in {"recorded", "up"} => failure'[r] = "none"
        /\ status'[r] # "unknown" \/ reached'[r] \/ failure'[r] # "none" => r \in Written'
    BY <1>1, <1>3
       DEF Step, Record, Prepare, ScaleUp, Train, Finish, Signal, Kill, Stop, End, Goto,
           TInv, TypeOK, RunInv, Active
  <2> QED BY <1>1, <2>1, <2>2 DEF TInv, RunInv
<1> QED BY <1>1, <1>2, <1>4 DEF TInv, LogInv

\* What the guard decides.
LEMMA DecideFrame ==
  ASSUME TInv, NEW r \in Runs, Decide(r)
  PROVE  \E ask \in Asks, fix \in BOOLEAN :
           /\ pc[r] = "new" /\ pc' = [pc EXCEPT ![r] = "decided"]
           /\ Cardinality({q \in Runs : pc[q] \in Active}) < MaxOverlap
           /\ Recurrence(ask, fix) \in {"clear", "validated", "allowed", "recovery"}
           /\ verdict' = [verdict EXCEPT ![r] = Recurrence(ask, fix)]
           /\ hasty' = (\/ hasty
                        \/ /\ Recurrence(ask, fix) # "clear"
                           /\ \E q \in Runs : Unsettled(q) /\ Validation(q))
           /\ UNCHANGED <<log, status, reached, failure, stops>>
<1>1. PICK ask \in Asks, fix \in BOOLEAN :
        /\ Recurrence(ask, fix) # "blocked"
        /\ verdict' = [verdict EXCEPT ![r] = Recurrence(ask, fix)]
        /\ hasty' = (\/ hasty
                     \/ /\ Recurrence(ask, fix) # "clear"
                        /\ \E q \in Runs : Unsettled(q) /\ Validation(q))
  BY DEF Decide
<1>2. Recurrence(ask, fix) \in {"clear", "validated", "allowed", "recovery", "blocked"}
  BY DEF Recurrence
<1>3. /\ pc[r] = "new" /\ pc' = [pc EXCEPT ![r] = "decided"]
      /\ Cardinality({q \in Runs : pc[q] \in Active}) < MaxOverlap
      /\ UNCHANGED <<log, status, reached, failure, stops>>
  BY DEF Decide, Goto
<1> QED BY <1>1, <1>2, <1>3

LEMMA DecideTypes == ASSUME TInv, NEW r \in Runs, Decide(r) PROVE TInv'
<1>1. PICK ask \in Asks, fix \in BOOLEAN :
        /\ pc[r] = "new" /\ pc' = [pc EXCEPT ![r] = "decided"]
        /\ Recurrence(ask, fix) \in {"clear", "validated", "allowed", "recovery"}
        /\ verdict' = [verdict EXCEPT ![r] = Recurrence(ask, fix)]
        /\ hasty' = (\/ hasty
                     \/ /\ Recurrence(ask, fix) # "clear"
                        /\ \E q \in Runs : Unsettled(q) /\ Validation(q))
        /\ UNCHANGED <<log, status, reached, failure, stops>>
  BY DecideFrame
<1>2. TypeOK' BY <1>1 DEF TInv, TypeOK, Active
<1>3. Injective' /\ Written' = Written BY <1>1 DEF TInv, Injective, Written
<1>4. RunInv' BY <1>1, <1>3 DEF TInv, TypeOK, RunInv
<1> QED BY <1>2, <1>3, <1>4 DEF TInv

LEMMA NextTypes == TInv /\ [Next]_vars => TInv'
<1> SUFFICES ASSUME TInv, [Next]_vars PROVE TInv' OBVIOUS
<1>1. CASE UNCHANGED vars
  BY <1>1 DEF vars, TInv, TypeOK, Injective, RunInv, Written
<1>2. CASE Next BY <1>2, DecideTypes, StepTypes DEF Next, Step
<1> QED BY <1>1, <1>2

LEMMA SpecTypes == Spec => []TInv
BY InitTypes, NextTypes, PTL DEF Spec

\* Every reachable state is well typed.
THEOREM TypeCorrect == Spec => []TypeOK
<1>1. TInv => TypeOK BY DEF TInv
<1> QED BY <1>1, SpecTypes, PTL

-----------------------------------------------------------------------------
(* Validations *)

\* The validations a later run would count once they have written.
PA == {r \in Runs : /\ Validation(r)
                    /\ pc[r] = "decided" \/ (r \in Written /\ Consumes(r))}

Spent(a) ==
  /\ verdict[a] = "allowed" /\ pc[a] = "over" /\ a \in Written
  /\ NotAdmitted(a) \/ TimedOut(a)

\* The validations there have been: at first none,
NoneYet == PA = {}

\* then an explicit one,
One == \E a \in Runs : PA = {a} /\ verdict[a] = "allowed"

\* then its recovery, once it has failed,
Two ==
  \E a, b \in Runs :
    /\ PA = {a, b} /\ a # b
    /\ Spent(a) /\ verdict[b] = "recovery"
    /\ b \in Written => Newer(b, a)

\* and a last one if the first was not even admitted and the second timed out.
Three ==
  \E a, b, c \in Runs :
    /\ PA = {a, b, c} /\ a # b /\ c # a /\ c # b
    /\ Spent(a) /\ NotAdmitted(a)
    /\ verdict[b] = "recovery" /\ pc[b] = "over" /\ TimedOut(b) /\ Newer(b, a)
    /\ verdict[c] = "recovery"

ChainInv == ~hasty => NoneYet \/ One \/ Two \/ Three

\* Only a validation that is under way stops being one.
LEMMA StepPA ==
  ASSUME TInv, NEW r \in Runs, Step(r)
  PROVE  PA' = PA \/ (r \in PA /\ PA' = PA \ {r})
<1>1. /\ pc[r] \in Active /\ pc'[r] # "decided" /\ UNCHANGED verdict
      /\ \A q \in Runs \ {r} : /\ pc'[q] = pc[q] /\ status'[q] = status[q]
                               /\ reached'[q] = reached[q] /\ failure'[q] = failure[q]
      /\ \A q \in Runs \ {r} : q \in Written' <=> q \in Written
  <2> HIDE DEF TInv
  <2> QED BY StepFrame DEF Active
<1>2. \A q \in Runs \ {r} : q \in PA' <=> q \in PA
  BY <1>1 DEF PA, Validation, Consumes
<1>3. Validation(r) => r \in PA
  BY <1>1 DEF PA, Consumes, TInv, RunInv, Active
<1>4. r \in PA' => r \in PA BY <1>1, <1>3 DEF PA, Validation
<1>5. PA \subseteq Runs /\ PA' \subseteq Runs BY DEF PA
<1> HIDE DEF PA
<1> QED BY <1>2, <1>4, <1>5

LEMMA StepChain ==
  ASSUME TInv, ChainInv, NEW r \in Runs, Step(r)
  PROVE  ChainInv'
<1>1. /\ pc[r] \in Active /\ UNCHANGED <<verdict, hasty>>
      /\ \A q \in Runs \ {r} : /\ pc'[q] = pc[q] /\ status'[q] = status[q]
                               /\ reached'[q] = reached[q] /\ failure'[q] = failure[q]
      /\ \A q, p \in Runs \ {r} : Newer(q, p)' <=> Newer(q, p)
      /\ \A p \in Written \ {r} : r \in Written' \ Written => Newer(r, p)'
      /\ \A p \in Written \ {r} : Newer(r, p) => Newer(r, p)'
      /\ \A q \in Runs \ {r} : q \in Written' <=> q \in Written
  BY StepFrame
<1>2. PA' = PA \/ (r \in PA /\ PA' = PA \ {r}) BY StepPA
<1>3. ASSUME NEW a \in Runs, pc[a] = "over"
      PROVE  /\ a # r /\ pc'[a] = "over"
             /\ NotAdmitted(a)' = NotAdmitted(a) /\ TimedOut(a)' = TimedOut(a)
  BY <1>1, <1>3 DEF Active, NotAdmitted, TimedOut
<1>4. ASSUME NEW a \in Runs, Spent(a) PROVE a # r /\ Spent(a)' /\ a \in Written
  BY <1>1, <1>3, <1>4 DEF Spent
<1>5. CASE hasty BY <1>1, <1>5 DEF ChainInv
<1>6. CASE ~hasty /\ NoneYet
  BY <1>1, <1>2, <1>6 DEF ChainInv, NoneYet
<1>7. CASE ~hasty /\ One
  <2>1. PICK a \in Runs : PA = {a} /\ verdict[a] = "allowed" BY <1>7 DEF One
  <2>2. PA' = {a} \/ PA' = {} BY <1>2, <2>1
  <2> QED BY <1>1, <2>1, <2>2 DEF ChainInv, One, NoneYet
<1>8. CASE ~hasty /\ Two
  <2>1. PICK a, b \in Runs :
          /\ PA = {a, b} /\ a # b
          /\ Spent(a) /\ verdict[b] = "recovery"
          /\ b \in Written => Newer(b, a)
    BY <1>8 DEF Two
  <2>2. a # r /\ Spent(a)' /\ a \in Written BY <1>4, <2>1
  <2>3. (b \in Written => Newer(b, a))'
    <3>1. CASE b = r BY <1>1, <2>1, <2>2, <3>1
    <3>2. CASE b # r BY <1>1, <2>1, <2>2, <3>2
    <3> QED BY <3>1, <3>2
  <2>4. PA' = {a, b} \/ PA' = {a} BY <1>2, <2>1, <2>2
  <2>5. CASE PA' = {a, b}
    <3>1. Two' BY <1>1, <2>1, <2>2, <2>3, <2>5 DEF Two
    <3> QED BY <3>1 DEF ChainInv
  <2>6. CASE PA' = {a}
    <3>1. One' BY <2>2, <2>6 DEF One, Spent
    <3> QED BY <3>1 DEF ChainInv
  <2> QED BY <2>4, <2>5, <2>6
<1>9. CASE ~hasty /\ Three
  <2>1. PICK a, b, c \in Runs :
          /\ PA = {a, b, c} /\ a # b /\ c # a /\ c # b
          /\ Spent(a) /\ NotAdmitted(a)
          /\ verdict[b] = "recovery" /\ pc[b] = "over" /\ TimedOut(b) /\ Newer(b, a)
          /\ verdict[c] = "recovery"
    BY <1>9 DEF Three
  <2>2. a # r /\ Spent(a)' /\ NotAdmitted(a)' BY <1>3, <1>4, <2>1 DEF Spent
  <2>3. b # r /\ pc'[b] = "over" /\ TimedOut(b)' BY <1>3, <2>1
  <2>4. verdict'[b] = "recovery" /\ verdict'[c] = "recovery" BY <1>1, <2>1
  <2>5. Newer(b, a)' BY <1>1, <2>1, <2>2, <2>3
  <2>6. PA' = {a, b, c} \/ PA' = {a, b} BY <1>2, <2>1, <2>2, <2>3
  <2>7. CASE PA' = {a, b, c}
    <3>1. Three' BY <2>1, <2>2, <2>3, <2>4, <2>5, <2>7 DEF Three
    <3> QED BY <3>1 DEF ChainInv
  <2>8. CASE PA' = {a, b}
    <3>1. Two' BY <2>1, <2>2, <2>4, <2>5, <2>8 DEF Two
    <3> QED BY <3>1 DEF ChainInv
  <2> QED BY <2>6, <2>7, <2>8
<1> QED BY <1>5, <1>6, <1>7, <1>8, <1>9 DEF ChainInv

\* The guard lets a validation through only as the next of the chain.
LEMMA DecideChain ==
  ASSUME TInv, ChainInv, NEW r \in Runs, Decide(r)
  PROVE  ChainInv'
<1>1. PICK ask \in Asks, fix \in BOOLEAN :
        /\ pc[r] = "new" /\ pc' = [pc EXCEPT ![r] = "decided"]
        /\ Recurrence(ask, fix) \in {"clear", "validated", "allowed", "recovery"}
        /\ verdict' = [verdict EXCEPT ![r] = Recurrence(ask, fix)]
        /\ hasty' = (\/ hasty
                     \/ /\ Recurrence(ask, fix) # "clear"
                        /\ \E q \in Runs : Unsettled(q) /\ Validation(q))
        /\ UNCHANGED <<log, status, reached, failure, stops>>
  BY DecideFrame
<1> DEFINE v == Recurrence(ask, fix)
<1>2. /\ verdict[r] = "none" /\ r \notin Written /\ r \notin PA
      /\ \A q \in Runs \ {r} : pc'[q] = pc[q] /\ verdict'[q] = verdict[q]
      /\ verdict'[r] = v /\ pc'[r] = "decided"
  BY <1>1 DEF TInv, TypeOK, RunInv, PA, Validation
<1>3. /\ Written' = Written /\ \A q, p : Newer(q, p)' <=> Newer(q, p)
  BY <1>1 DEF Written, Newer
<1>4. /\ \A q : NotAdmitted(q)' = NotAdmitted(q) /\ TimedOut(q)' = TimedOut(q)
      /\ \A q : Consumes(q)' = Consumes(q)
  BY <1>1 DEF NotAdmitted, TimedOut, Consumes
<1>5. \A q \in Runs \ {r} : q \in PA' <=> q \in PA
  BY <1>2, <1>3, <1>4 DEF PA, Validation
<1>6. r \in PA' <=> v \in {"allowed", "recovery"}
  BY <1>2 DEF PA, Validation
<1>7. PA \subseteq Runs /\ PA' \subseteq Runs BY DEF PA
<1>8. ASSUME NEW a \in Runs, Spent(a) PROVE a # r /\ Spent(a)'
  BY <1>1, <1>2, <1>3, <1>4, <1>8 DEF Spent
<1> HIDE DEF v
<1>9. PA' = IF v \in {"allowed", "recovery"} THEN PA \cup {r} ELSE PA
  <2> HIDE DEF PA
  <2> QED BY <1>2, <1>5, <1>6, <1>7
<1> SUFFICES ASSUME ~hasty' PROVE (NoneYet \/ One \/ Two \/ Three)' BY DEF ChainInv
<1>10. ~hasty /\ (NoneYet \/ One \/ Two \/ Three) BY <1>1 DEF ChainInv
<1>11. CASE v \notin {"allowed", "recovery"}
  <2>1. PA' = PA BY <1>9, <1>11
  <2>2. CASE NoneYet BY <2>1, <2>2 DEF NoneYet
  <2>3. CASE One
    <3>1. PICK a \in Runs : PA = {a} /\ verdict[a] = "allowed" BY <2>3 DEF One
    <3>2. a # r BY <1>2, <3>1
    <3> QED BY <1>2, <2>1, <3>1, <3>2 DEF One
  <2>4. CASE Two
    <3>1. PICK a, b \in Runs :
            /\ PA = {a, b} /\ a # b
            /\ Spent(a) /\ verdict[b] = "recovery"
            /\ b \in Written => Newer(b, a)
      BY <2>4 DEF Two
    <3>2. b # r BY <1>2, <3>1
    <3> QED BY <1>2, <1>3, <1>8, <2>1, <3>1, <3>2 DEF Two
  <2>5. CASE Three
    <3>1. PICK a, b, c \in Runs :
            /\ PA = {a, b, c} /\ a # b /\ c # a /\ c # b
            /\ Spent(a) /\ NotAdmitted(a)
            /\ verdict[b] = "recovery" /\ pc[b] = "over" /\ TimedOut(b) /\ Newer(b, a)
            /\ verdict[c] = "recovery"
      BY <2>5 DEF Three
    <3>2. b # r /\ c # r BY <1>2, <3>1
    <3>3. /\ PA' = {a, b, c} /\ Spent(a)' /\ NotAdmitted(a)'
          /\ verdict'[b] = "recovery" /\ pc'[b] = "over" /\ TimedOut(b)' /\ Newer(b, a)'
          /\ verdict'[c] = "recovery"
      BY <1>2, <1>3, <1>4, <1>8, <2>1, <3>1, <3>2
    <3> QED BY <3>1, <3>3 DEF Three
  <2> QED BY <1>10, <2>2, <2>3, <2>4, <2>5
<1>12. CASE v \in {"allowed", "recovery"}
  <2>1. \A q \in Runs : Validation(q) => ~Unsettled(q)
    BY <1>1, <1>12 DEF v
  <2>2. Attempts = PA
    BY <2>1, NewerOrder DEF PA, Attempts, Unsettled, TInv, TypeOK, LogInv
  <2>3. PA' = PA \cup {r} BY <1>9, <1>12
  <2>4. CASE v = "allowed"
    <3>1. PA = {} BY <2>2, <2>4 DEF v, Recurrence
    <3>2. PA' = {r} /\ verdict'[r] = "allowed" BY <1>2, <2>3, <2>4, <3>1
    <3> QED BY <3>2 DEF One
  <2>5. CASE v = "recovery"
    <3>1. PA # {} /\ Recoverable(PA, ask, fix) BY <2>2, <2>5 DEF v, Recurrence
    <3>2. \A q \in PA : /\ Validation(q) /\ q \in Runs /\ q \in Written
                        /\ (status[q] = "failed" => pc[q] = "over")
      BY <2>1, <2>2 DEF PA, Attempts, TInv, RunInv, TypeOK, Active, Unsettled
    <3>3. verdict'[r] = "recovery" BY <1>2, <2>5
    <3>4. AdmissionRecoverable(PA) \/ TimeoutRecoverable(PA) BY <3>1 DEF Recoverable
    <3>5. CASE NoneYet BY <3>1, <3>5 DEF NoneYet
    <3>6. CASE One
      <4>1. PICK a \in Runs : PA = {a} /\ verdict[a] = "allowed" BY <3>6 DEF One
      <4>2. NotAdmitted(a) \/ TimedOut(a)
        <5>1. CASE AdmissionRecoverable(PA)
          BY <4>1, <5>1 DEF AdmissionRecoverable
        <5>2. CASE AfterRecovery(PA)
          BY <4>1, <5>2 DEF AfterRecovery
        <5>3. CASE TimedOut(Newest(PA))
          <6>1. Newest(PA) = a BY <4>1 DEF Newest
          <6> QED BY <5>3, <6>1
        <5> QED BY <3>4, <5>1, <5>2, <5>3 DEF TimeoutRecoverable
      <4>3. Spent(a) BY <3>2, <4>1, <4>2 DEF Spent, NotAdmitted, TimedOut
      <4>4. PA' = {a, r} /\ r # a /\ Spent(a)' BY <1>2, <1>8, <2>3, <4>1, <4>3
      <4>5. r \notin Written' BY <1>2, <1>3
      <4> QED BY <3>3, <4>4, <4>5 DEF Two
    <3>7. CASE Two
      <4>1. PICK a, b \in Runs :
              /\ PA = {a, b} /\ a # b
              /\ Spent(a) /\ verdict[b] = "recovery"
              /\ b \in Written => Newer(b, a)
        BY <3>7 DEF Two
      <4>2. Newer(b, a) /\ ~Newer(a, b)
        BY <3>2, <4>1, NewerOrder DEF TInv, TypeOK, LogInv
      <4>3. verdict[a] = "allowed" BY <4>1 DEF Spent
      <4>4. ~AdmissionRecoverable(PA) BY <4>1 DEF AdmissionRecoverable
      <4>5. Newest(PA) = b BY <4>1, <4>2 DEF Newest
      <4>6. AfterRecovery(PA) BY <3>4, <4>1, <4>4, <4>5 DEF TimeoutRecoverable
      <4>7. PICK first, second \in PA :
              /\ Recoveries(PA) = {second}
              /\ PA = {first, second} /\ first # second
              /\ NotAdmitted(first) /\ TimedOut(second)
        BY <4>6 DEF AfterRecovery
      <4>8. second = b /\ first = a
        <5>1. b \in Recoveries(PA) BY <4>1 DEF Recoveries
        <5> QED BY <4>1, <4>7, <5>1
      <4>9. NotAdmitted(a) /\ TimedOut(b) /\ pc[b] = "over"
        BY <3>2, <4>1, <4>7, <4>8 DEF TimedOut
      <4>10. b # r /\ a # r BY <1>2, <4>1
      <4>11. /\ PA' = {a, b, r} /\ Spent(a)' /\ NotAdmitted(a)'
             /\ verdict'[b] = "recovery" /\ pc'[b] = "over" /\ TimedOut(b)' /\ Newer(b, a)'
        BY <1>2, <1>3, <1>4, <1>8, <2>3, <4>1, <4>2, <4>9, <4>10
      <4> QED BY <3>3, <4>1, <4>10, <4>11 DEF Three
    <3>8. CASE Three
      <4>1. PICK a, b, c \in Runs :
              /\ PA = {a, b, c} /\ a # b /\ c # a /\ c # b
              /\ verdict[b] = "recovery" /\ TimedOut(b)
        BY <3>8 DEF Three
      <4>2. ~AdmissionRecoverable(PA) BY <4>1 DEF AdmissionRecoverable
      <4>3. ~AfterRecovery(PA) BY <4>1 DEF AfterRecovery
      <4>4. b \in Recoveries(PA) BY <4>1 DEF Recoveries
      <4> QED BY <3>4, <4>1, <4>2, <4>3, <4>4 DEF TimeoutRecoverable
    <3> QED BY <1>10, <3>5, <3>6, <3>7, <3>8
  <2> QED BY <1>12, <2>4, <2>5
<1> QED BY <1>11, <1>12

LEMMA NextChain == TInv /\ ChainInv /\ [Next]_vars => ChainInv'
<1> SUFFICES ASSUME TInv, ChainInv, [Next]_vars PROVE ChainInv' OBVIOUS
<1>1. CASE UNCHANGED vars
  BY <1>1 DEF vars, ChainInv, NoneYet, One, Two, Three, PA, Spent, Validation, Consumes,
     NotAdmitted, TimedOut, Written, Newer
<1>2. CASE Next BY <1>2, DecideChain, StepChain DEF Next, Step
<1> QED BY <1>1, <1>2

LEMMA InitChain == Init => ChainInv
<1> SUFFICES ASSUME Init PROVE PA = {} BY DEF ChainInv, NoneYet
<1> QED BY DEF Init, PA, Validation

\* At most two validations reach a worker, and one of them completes.
LEMMA ChainRations == TInv /\ ChainInv => ValidationsAreRationed
<1> SUFFICES ASSUME TInv, ChainInv PROVE ValidationsAreRationed OBVIOUS
<1> DEFINE Paid == {r \in Runs : Validation(r) /\ reached[r]}
           Done == {r \in Paid : Completed(r)}
<1> SUFFICES ASSUME ~hasty PROVE Cardinality(Paid) <= 2 /\ Cardinality(Done) <= 1
  BY DEF ValidationsAreRationed
<1>1. Paid \subseteq PA BY DEF PA, Consumes, TInv, RunInv
<1>2. ASSUME NEW a \in Runs, Spent(a) PROVE a \notin Done
  BY <1>2 DEF Spent, NotAdmitted, TimedOut, Completed
<1> SUFFICES \E x, y : Paid \subseteq {x, y} /\ Done \subseteq {y}
  <2>1. ASSUME NEW x, NEW y PROVE IsFiniteSet({x, y}) /\ Cardinality({x, y}) <= 2
    <3>1. CASE x = y
      <4>1. {x, y} = {y} BY <3>1
      <4>2. IsFiniteSet({y}) /\ Cardinality({y}) = 1 BY FS_Singleton
      <4>3. IsFiniteSet({x, y}) /\ Cardinality({x, y}) = 1 BY <4>1, <4>2, Zenon
      <4> QED BY <4>3
    <3>2. CASE x # y
      <4>1. IsFiniteSet({y}) /\ Cardinality({y}) = 1 BY FS_Singleton
      <4>2. IsFiniteSet({y} \cup {x}) /\ Cardinality({y} \cup {x}) = 2
        BY <3>2, <4>1, FS_AddElement
      <4>3. {x, y} = {y} \cup {x} OBVIOUS
      <4> QED BY <4>2, <4>3
    <3> QED BY <3>1, <3>2
  <2> SUFFICES ASSUME NEW x, NEW y, Paid \subseteq {x, y}, Done \subseteq {y}
               PROVE  Cardinality(Paid) <= 2 /\ Cardinality(Done) <= 1
    OBVIOUS
  <2> HIDE DEF Paid, Done
  <2>2. IsFiniteSet({x, y}) /\ Cardinality({x, y}) <= 2 /\ Cardinality({x, y}) \in Nat
    BY <2>1, FS_CardinalityType
  <2>3. IsFiniteSet({y}) /\ Cardinality({y}) = 1 BY FS_Singleton
  <2>4. Cardinality(Paid) \in Nat /\ Cardinality(Paid) <= Cardinality({x, y})
    BY <2>2, FS_Subset, FS_CardinalityType
  <2>5. Cardinality(Done) \in Nat /\ Cardinality(Done) <= Cardinality({y})
    BY <2>3, FS_Subset, FS_CardinalityType
  <2> QED BY <2>2, <2>3, <2>4, <2>5
<1> HIDE DEF Done
<1>3. Done \subseteq Paid BY DEF Done
<1>4. CASE NoneYet BY <1>1, <1>3, <1>4 DEF NoneYet
<1>5. CASE One
  <2>1. PICK a \in Runs : PA = {a} BY <1>5 DEF One
  <2> QED BY <1>1, <1>3, <2>1
<1>6. CASE Two
  <2>1. PICK a, b \in Runs : PA = {a, b} /\ Spent(a) BY <1>6 DEF Two
  <2> QED BY <1>1, <1>2, <1>3, <2>1
<1>7. CASE Three
  <2>1. PICK a, b, c \in Runs : PA = {a, b, c} /\ NotAdmitted(a) /\ TimedOut(b)
    BY <1>7 DEF Three
  <2>2. a \notin Paid BY <2>1 DEF NotAdmitted
  <2>3. b \notin Done BY <2>1 DEF TimedOut, Completed, Done
  <2> QED BY <1>1, <1>3, <2>1, <2>2, <2>3
<1> QED BY <1>4, <1>5, <1>6, <1>7 DEF ChainInv

\* Unless a run is let through while a validation is unsettled, at most two
\* validations are paid for, and at most one of them completes.
THEOREM ValidationsRationed == Spec => []ValidationsAreRationed
BY InitTypes, NextTypes, InitChain, NextChain, ChainRations, PTL DEF Spec

-----------------------------------------------------------------------------
(* Counting the failures *)

LEMMA LeastNatural ==
  ASSUME NEW S \in SUBSET Nat, S # {}
  PROVE  \E x \in S : \A y \in S : x <= y
<1>1. PICK x \in S : \A y \in S : ~(<<y, x>> \in OpToRel(<, Nat))
  BY NatLessThanWellFounded, WFMin
<1>2. \A y \in S : ~(y < x) BY <1>1 DEF OpToRel
<1> QED BY <1>2

\* One of the summaries is the newest.
LEMMA NewestExists ==
  ASSUME LogInv, NEW S, S \subseteq Written, S # {}
  PROVE  \E r \in S : \A q \in S \ {r} : Newer(r, q)
<1>1. DOMAIN log = 1 .. Len(log) /\ Len(log) \in Nat BY DEF LogInv
<1> DEFINE n == Len(log)
           T == {k \in 0 .. n : \E i \in 1 .. n : log[i] \in S /\ k = n - i}
<1>2. T \in SUBSET Nat /\ \A m \in 1 .. n : n - m \in 0 .. n BY <1>1
<1>3. \A q \in S : \E i \in 1 .. n : log[i] = q BY <1>1 DEF Written
<1>4. T # {}
  <2>1. PICK i \in 1 .. n : log[i] \in S BY <1>3
  <2>2. n - i \in 0 .. n BY <1>1
  <2> QED BY <2>1, <2>2
<1>5. PICK k \in T : \A l \in T : k <= l BY <1>2, <1>4, LeastNatural
<1>6. PICK i \in 1 .. n : log[i] \in S /\ k = n - i BY <1>5
<1>7. ASSUME NEW q \in S \ {log[i]} PROVE Newer(log[i], q)
  <2>1. PICK j \in 1 .. n : log[j] = q BY <1>3
  <2>2. n - j \in T
    <3>1. n - j \in 0 .. n BY <1>2
    <3> QED BY <2>1, <3>1
  <2>3. n - i <= n - j BY <1>5, <1>6, <2>2
  <2>4. j < i
    <3>1. j # i BY <1>7, <2>1
    <3> QED BY <1>1, <1>6, <2>1, <2>3, <3>1
  <2> QED BY <1>1, <2>1, <2>4 DEF Newer
<1> QED BY <1>6, <1>7

\* The newest failures are enough to see Threshold of them, among all the
\* summaries or among those after a given one.
LEMMA RecentCounts ==
  ASSUME LogInv, NEW B, B \subseteq Written, IsFiniteSet(B),
         NEW U \in SUBSET B, \A u \in U, q \in B : Newer(q, u) => q \in U,
         Cardinality(Recent(B, Limit) \cap U) < Threshold
  PROVE  Cardinality(U) < Threshold
<1> DEFINE R == Recent(B, Limit)
           W == R \cap U
<1>1. CASE U \subseteq R
  <2>1. W = U BY <1>1
  <2> QED BY <2>1
<1>2. CASE ~(U \subseteq R)
  <2>1. U \ R # {} /\ U \ R \subseteq Written BY <1>2
  <2>2. PICK u \in U \ R : \A q \in (U \ R) \ {u} : Newer(u, q)
    <3> HIDE DEF R
    <3> QED BY <2>1, NewestExists
  <2> DEFINE N == {q \in B : Newer(q, u)}
  <2>3. ~(Cardinality(N) < Limit) BY <2>2 DEF Recent
  <2>4. N \subseteq W
    <3> SUFFICES ASSUME NEW q \in B, Newer(q, u) PROVE q \in R /\ q \in U OBVIOUS
    <3>1. q \in U BY <2>2
    <3>2. q # u /\ ~Newer(u, q) BY NewerOrder
    <3> HIDE DEF R
    <3> QED BY <2>2, <3>1, <3>2
  <2>5. IsFiniteSet(W)
    <3>1. W \in SUBSET B OBVIOUS
    <3> HIDE DEF W
    <3> QED BY <3>1, FS_Subset
  <2> HIDE DEF N, W
  <2>6. /\ Cardinality(N) <= Cardinality(W)
        /\ Cardinality(N) \in Nat /\ Cardinality(W) \in Nat
    BY <2>4, <2>5, FS_Subset, FS_CardinalityType
  <2>7. Cardinality(W) < Threshold BY DEF W
  <2> QED BY <2>3, <2>6, <2>7, GuardAssumption
<1> QED BY <1>1, <1>2

-----------------------------------------------------------------------------
(* The known failure *)

Failed == {r \in Written : failure[r] = "busy"}

\* The runs that failed this way, or may yet.
Charged(v) == {r \in Runs : verdict[r] = v /\ (failure[r] = "busy" \/ pc[r] \in Active)}

\* Whoever relies on a completed validation was let through after it was over.
Reliance ==
  \A w \in Runs : verdict[w] = "validated" =>
    \E z \in Runs : /\ Validation(z) /\ Completed(z) /\ pc[z] = "over"
                    /\ w \in Written => Newer(w, z)

WasteInv ==
  /\ Cardinality(Charged("clear")) < Threshold + MaxOverlap
  /\ ~hasty => /\ Cardinality(Charged("validated")) < Threshold + MaxOverlap
               /\ Reliance

\* At most one validation completes.
LEMMA OneCompletes ==
  ASSUME TInv, ChainInv, ~hasty, NEW x \in Runs, NEW y \in Runs,
         Validation(x), Completed(x), Validation(y), Completed(y)
  PROVE  x = y /\ x \in PA
<1>1. x \in PA /\ y \in PA
  BY DEF PA, Consumes, Completed, TInv, TypeOK, RunInv
<1>2. ASSUME NEW a \in Runs, Spent(a) PROVE ~Completed(a)
  BY <1>2 DEF Spent, NotAdmitted, TimedOut, Completed
<1>3. CASE NoneYet BY <1>1, <1>3 DEF NoneYet
<1>4. CASE One BY <1>1, <1>4 DEF One
<1>5. CASE Two BY <1>1, <1>2, <1>5 DEF Two
<1>6. CASE Three
  <2>1. PICK a, b, c \in Runs : PA = {a, b, c} /\ Spent(a) /\ TimedOut(b)
    BY <1>6 DEF Three
  <2>2. ~Completed(b) BY <2>1 DEF TimedOut, Completed
  <2> QED BY <1>1, <1>2, <2>1, <2>2
<1> QED BY <1>1, <1>3, <1>4, <1>5, <1>6 DEF ChainInv

\* A new run is charged with what the guard has seen, what is under way, and itself.
LEMMA ChargeBound ==
  ASSUME NEW U \in SUBSET Runs, Cardinality(U) < Threshold,
         NEW A \in SUBSET Runs, Cardinality(A) < MaxOverlap,
         NEW r \in Runs, NEW C, C \subseteq U \cup A \cup {r}
  PROVE  Cardinality(C) < Threshold + MaxOverlap
<1>1. IsFiniteSet(U) /\ IsFiniteSet(A) BY GuardAssumption, FS_Subset
<1>2. /\ IsFiniteSet(U \cup A)
      /\ Cardinality(U \cup A) = Cardinality(U) + Cardinality(A) - Cardinality(U \cap A)
  BY <1>1, FS_Union
<1>3. IsFiniteSet(U \cap A)
  <2>1. U \cap A \in SUBSET U OBVIOUS
  <2> QED BY <1>1, <2>1, FS_Subset
<1>4. /\ IsFiniteSet(U \cup A \cup {r})
      /\ Cardinality(U \cup A \cup {r}) <= Cardinality(U \cup A) + 1
  <2> DEFINE V == U \cup A
  <2>1. IsFiniteSet(V) BY <1>2
  <2> HIDE DEF V
  <2>2. /\ IsFiniteSet(V \cup {r})
        /\ Cardinality(V \cup {r}) = IF r \in V THEN Cardinality(V) ELSE Cardinality(V) + 1
    BY <2>1, FS_AddElement
  <2>3. Cardinality(V) \in Nat BY <2>1, FS_CardinalityType
  <2>4. Cardinality(V \cup {r}) <= Cardinality(V) + 1 BY <2>2, <2>3
  <2> QED BY <2>2, <2>4 DEF V
<1>5. Cardinality(C) <= Cardinality(U \cup A \cup {r}) /\ IsFiniteSet(C)
  BY <1>4, FS_Subset
<1>6. /\ Cardinality(U) \in Nat /\ Cardinality(A) \in Nat /\ Cardinality(U \cap A) \in Nat
      /\ Cardinality(C) \in Nat /\ Cardinality(U \cup A) \in Nat
      /\ Cardinality(U \cup A \cup {r}) \in Nat
  BY <1>1, <1>2, <1>3, <1>4, <1>5, FS_CardinalityType
<1> QED BY <1>2, <1>4, <1>5, <1>6, GuardAssumption

LEMMA StepWaste ==
  ASSUME TInv, WasteInv, NEW r \in Runs, Step(r)
  PROVE  WasteInv'
<1>1. /\ pc[r] \in Active /\ UNCHANGED <<verdict, hasty>>
      /\ \A q \in Runs \ {r} : /\ pc'[q] = pc[q] /\ status'[q] = status[q]
                               /\ reached'[q] = reached[q] /\ failure'[q] = failure[q]
      /\ \A q, p \in Runs \ {r} : Newer(q, p)' <=> Newer(q, p)
      /\ \A p \in Written \ {r} : r \in Written' \ Written => Newer(r, p)'
      /\ \A p \in Written \ {r} : Newer(r, p) => Newer(r, p)'
      /\ \A q \in Runs \ {r} : q \in Written' <=> q \in Written
  BY StepFrame
<1>2. ASSUME NEW v, Cardinality(Charged(v)) < Threshold + MaxOverlap
      PROVE  Cardinality(Charged(v)') < Threshold + MaxOverlap
  <2>1. Charged(v)' \subseteq Charged(v) /\ Charged(v) \subseteq Runs
    BY <1>1 DEF Charged
  <2> HIDE DEF Charged
  <2>2. IsFiniteSet(Charged(v)) BY <2>1, GuardAssumption, FS_Subset
  <2>3. /\ Cardinality(Charged(v)') <= Cardinality(Charged(v))
        /\ Cardinality(Charged(v)') \in Nat /\ Cardinality(Charged(v)) \in Nat
    BY <2>1, <2>2, FS_Subset, FS_CardinalityType
  <2> QED BY <1>2, <2>3, GuardAssumption
<1>3. Cardinality(Charged("clear"))' < Threshold + MaxOverlap
  BY <1>2 DEF WasteInv
<1>4. ASSUME ~hasty
      PROVE  Cardinality(Charged("validated"))' < Threshold + MaxOverlap /\ Reliance'
  <2>1. Cardinality(Charged("validated")') < Threshold + MaxOverlap
    BY <1>2, <1>4 DEF WasteInv
  <2>2. ASSUME NEW w \in Runs, verdict'[w] = "validated"
        PROVE  \E z \in Runs : /\ Validation(z)' /\ Completed(z)' /\ pc'[z] = "over"
                               /\ w \in Written' => Newer(w, z)'
    <3>1. PICK z \in Runs : /\ Validation(z) /\ Completed(z) /\ pc[z] = "over"
                            /\ w \in Written => Newer(w, z)
      BY <1>1, <1>4, <2>2 DEF WasteInv, Reliance
    <3>2. z # r BY <1>1, <3>1 DEF Active
    <3>3. Validation(z)' /\ Completed(z)' /\ pc'[z] = "over"
      BY <1>1, <3>1, <3>2 DEF Validation, Completed
    <3>4. z \in Written BY <3>1 DEF Completed, TInv, RunInv
    <3>5. w \in Written' => Newer(w, z)'
      <4>1. CASE w = r BY <1>1, <3>1, <3>2, <3>4, <4>1
      <4>2. CASE w # r BY <1>1, <3>1, <3>2, <4>2
      <4> QED BY <4>1, <4>2
    <3> QED BY <3>3, <3>5
  <2>3. Reliance' BY <2>2 DEF Reliance
  <2> QED BY <2>1, <2>3
<1> QED BY <1>1, <1>3, <1>4 DEF WasteInv

LEMMA DecideWaste ==
  ASSUME TInv, ChainInv, WasteInv, NEW r \in Runs, Decide(r)
  PROVE  WasteInv'
<1>1. PICK ask \in Asks, fix \in BOOLEAN :
        /\ pc[r] = "new" /\ pc' = [pc EXCEPT ![r] = "decided"]
        /\ Cardinality({q \in Runs : pc[q] \in Active}) < MaxOverlap
        /\ Recurrence(ask, fix) \in {"clear", "validated", "allowed", "recovery"}
        /\ verdict' = [verdict EXCEPT ![r] = Recurrence(ask, fix)]
        /\ hasty' = (\/ hasty
                     \/ /\ Recurrence(ask, fix) # "clear"
                        /\ \E q \in Runs : Unsettled(q) /\ Validation(q))
        /\ UNCHANGED <<log, status, reached, failure, stops>>
  BY DecideFrame
<1> DEFINE v == Recurrence(ask, fix)
           A == {q \in Runs : pc[q] \in Active}
<1>2. /\ verdict[r] = "none" /\ r \notin Written
      /\ \A q \in Runs \ {r} : pc'[q] = pc[q] /\ verdict'[q] = verdict[q]
      /\ verdict'[r] = v /\ Written' = Written
      /\ \A q, p : Newer(q, p)' <=> Newer(q, p)
      /\ pc[r] \notin Active /\ failure[r] = "none" /\ failure' = failure
  BY <1>1 DEF TInv, TypeOK, RunInv, Written, Newer, Active
<1>3. LogInv /\ Written \subseteq Runs BY NewerOrder DEF TInv, TypeOK, LogInv
<1>4. Failed \subseteq Written /\ IsFiniteSet(Failed)
  <2>1. Failed \subseteq Written BY DEF Failed
  <2> QED BY <1>3, <2>1, GuardAssumption, FS_Subset
<1>5. ASSUME NEW x, x # v PROVE Charged(x)' = Charged(x)
  BY <1>2, <1>5 DEF Charged
<1>6. \A q \in Runs : failure[q] = "busy" => q \in Failed
  BY DEF Failed, TInv, RunInv
<1>7. ASSUME NEW x, NEW U \in SUBSET Runs, Cardinality(U) < Threshold,
             \A q \in Failed : verdict[q] = x => q \in U
      PROVE  Cardinality(Charged(x))' < Threshold + MaxOverlap
  <2>1. Charged(x)' \subseteq U \cup A \cup {r}
    BY <1>2, <1>6, <1>7 DEF Charged
  <2>2. A \in SUBSET Runs /\ Cardinality(A) < MaxOverlap BY <1>1
  <2> HIDE DEF A, v
  <2>3. Cardinality(Charged(x)') < Threshold + MaxOverlap
    BY <1>7, <2>1, <2>2, ChargeBound
  <2> QED BY <2>3
<1> HIDE DEF v
<1>8. Cardinality(Charged("clear"))' < Threshold + MaxOverlap
  <2>1. CASE v = "clear"
    <3>1. Cardinality(Known) < Threshold BY <2>1 DEF v, Recurrence
    <3>2. Known = Recent(Failed, Limit) \cap Failed BY DEF Known, Failed, Recent
    <3>3. Cardinality(Failed) < Threshold BY <1>3, <1>4, <3>1, <3>2, RecentCounts
    <3> QED BY <1>3, <1>4, <1>7, <2>1, <3>3
  <2>2. CASE v # "clear"
    <3>1. Charged("clear")' = Charged("clear") BY <1>5, <2>2
    <3> QED BY <3>1 DEF WasteInv
  <2> QED BY <2>1, <2>2
<1>9. ASSUME ~hasty'
      PROVE  Cardinality(Charged("validated"))' < Threshold + MaxOverlap /\ Reliance'
  <2>1. ~hasty BY <1>1, <1>9
  <2>2. ASSUME NEW w \in Runs \ {r}, verdict'[w] = "validated"
        PROVE  \E z \in Runs : /\ Validation(z)' /\ Completed(z)' /\ pc'[z] = "over"
                               /\ w \in Written' => Newer(w, z)'
    <3>1. PICK z \in Runs : /\ Validation(z) /\ Completed(z) /\ pc[z] = "over"
                            /\ w \in Written => Newer(w, z)
      BY <1>2, <2>1, <2>2 DEF WasteInv, Reliance
    <3>2. z # r BY <1>2, <3>1 DEF Validation
    <3> QED BY <1>1, <1>2, <3>1, <3>2 DEF Validation, Completed
  <2>3. CASE v # "validated"
    <3>1. Charged("validated")' = Charged("validated") BY <1>5, <2>3
    <3>2. Reliance' BY <1>2, <2>2, <2>3 DEF Reliance
    <3> QED BY <2>1, <3>1, <3>2 DEF WasteInv
  <2>4. CASE v = "validated"
    <3>1. /\ Attempts # {} /\ Completed(Newest(Attempts))
          /\ Cardinality(Since(Newest(Attempts))) < Threshold
      BY <2>4 DEF v, Recurrence
    <3>2. \A q \in Runs : Validation(q) => ~Unsettled(q) BY <1>1, <1>9, <2>4 DEF v
    <3>0. PICK z : z = Newest(Attempts) OBVIOUS
    <3>3. z \in Attempts
      <4>1. Attempts \subseteq Written BY DEF Attempts
      <4>2. \E q \in Attempts : \A p \in Attempts \ {q} : Newer(q, p)
        BY <1>3, <3>1, <4>1, NewestExists
      <4> QED BY <3>0, <4>2 DEF Newest
    <3>4. z \in Runs /\ Validation(z) /\ Completed(z) /\ z \in Written
      BY <1>3, <3>0, <3>1, <3>3 DEF Attempts
    <3>5. pc[z] = "over" /\ z # r
      BY <1>2, <3>2, <3>4 DEF Unsettled, Completed, TInv, TypeOK, RunInv, Active
    <3>6. Reliance'
      <4>1. Validation(z)' /\ Completed(z)' /\ pc'[z] = "over" /\ r \notin Written'
        BY <1>1, <1>2, <3>4, <3>5 DEF Validation, Completed
      <4> QED BY <2>2, <3>4, <4>1 DEF Reliance
    <3> DEFINE U == {q \in Failed : Newer(q, z)}
    <3>7. \A u \in U, q \in Failed : Newer(q, u) => q \in U BY <1>3, NewerOrder
    <3>8. Recent(Failed, Limit) \cap U = Since(z)
      BY DEF Since, Known, Failed, Recent
    <3>9. Cardinality(U) < Threshold
      <4>1. U \in SUBSET Failed OBVIOUS
      <4>2. Cardinality(Recent(Failed, Limit) \cap U) < Threshold BY <3>0, <3>1, <3>8
      <4> HIDE DEF U
      <4> QED BY <1>3, <1>4, <3>7, <4>1, <4>2, RecentCounts
    <3>10. ASSUME NEW q \in Failed, verdict[q] = "validated" PROVE q \in U
      <4>1. q \in Runs /\ q \in Written BY <1>3, <1>4
      <4>2. PICK y \in Runs : Validation(y) /\ Completed(y) /\ Newer(q, y)
        BY <2>1, <3>10, <4>1 DEF WasteInv, Reliance
      <4>3. y = z BY <2>1, <3>4, <4>2, OneCompletes
      <4> QED BY <4>2, <4>3
    <3>11. U \in SUBSET Runs BY <1>3, <1>4
    <3> HIDE DEF U
    <3>12. Cardinality(Charged("validated"))' < Threshold + MaxOverlap
      BY <1>7, <2>4, <3>9, <3>10, <3>11
    <3> QED BY <3>6, <3>12
  <2> QED BY <2>3, <2>4
<1> QED BY <1>8, <1>9 DEF WasteInv

LEMMA NextWaste == TInv /\ ChainInv /\ WasteInv /\ [Next]_vars => WasteInv'
<1> SUFFICES ASSUME TInv, ChainInv, WasteInv, [Next]_vars PROVE WasteInv' OBVIOUS
<1>1. CASE UNCHANGED vars
  BY <1>1 DEF vars, WasteInv, Charged, Reliance, Validation, Completed, Written, Newer
<1>2. CASE Next BY <1>2, DecideWaste, StepWaste DEF Next, Step
<1> QED BY <1>1, <1>2

LEMMA InitWaste == Init => WasteInv
<1> SUFFICES ASSUME Init PROVE WasteInv OBVIOUS
<1>1. Charged("clear") = {} /\ Charged("validated") = {} /\ Reliance
  BY DEF Init, Charged, Reliance, Active
<1>2. Cardinality({}) = 0 BY FS_EmptySet
<1>3. 0 < Threshold + MaxOverlap BY GuardAssumption
<1> QED BY <1>1, <1>2, <1>3 DEF WasteInv

LEMMA WasteBound == WasteInv => WasteIsBounded
<1> SUFFICES ASSUME WasteInv PROVE WasteIsBounded OBVIOUS
<1>1. ASSUME NEW v, Cardinality(Charged(v)) < Threshold + MaxOverlap
      PROVE  Cardinality({r \in Runs : failure[r] = "busy" /\ verdict[r] = v})
               < Threshold + MaxOverlap
  <2> DEFINE W == {r \in Runs : failure[r] = "busy" /\ verdict[r] = v}
  <2>1. W \subseteq Charged(v) /\ Charged(v) \subseteq Runs BY DEF Charged
  <2> HIDE DEF W
  <2>2. IsFiniteSet(Charged(v)) BY <2>1, GuardAssumption, FS_Subset
  <2>3. /\ Cardinality(W) <= Cardinality(Charged(v))
        /\ Cardinality(W) \in Nat /\ Cardinality(Charged(v)) \in Nat
    BY <2>1, <2>2, FS_Subset, FS_CardinalityType
  <2>4. Cardinality(W) < Threshold + MaxOverlap BY <1>1, <2>3, GuardAssumption
  <2> QED BY <2>4 DEF W
<1> QED BY <1>1 DEF WasteInv, WasteIsBounded

\* The known failure is paid for by less than Threshold runs and one for every
\* run under way, and as often again after a completed validation.
THEOREM WasteBounded == Spec => []WasteIsBounded
BY InitTypes, NextTypes, InitChain, NextChain, InitWaste, NextWaste, WasteBound, PTL DEF Spec

-----------------------------------------------------------------------------
(* First validations *)

\* The runs let through as first validations that reached a worker, or still
\* can.
Firsts == {r \in Runs : /\ verdict[r] = "allowed"
                        /\ reached[r] \/ pc[r] \in {"decided", "recorded"}}

\* However runs overlap, no more first validations are paid for than runs can
\* be under way at a time: the first one that is written stops them for good,
\* even if it is killed.
FirstsAreRationed ==
  Cardinality({r \in Runs : verdict[r] = "allowed" /\ reached[r]}) <= MaxOverlap

\* All in all the known failure is paid for at most as often as twice the
\* threshold and the overlap allow.
FailuresAreBounded ==
  ~hasty => Cardinality({r \in Runs : failure[r] = "busy"})
              <= 2 * (Threshold + MaxOverlap)

FirstInv == Cardinality(Firsts) <= MaxOverlap

LEMMA SmallerSet ==
  ASSUME NEW S \in SUBSET Runs, NEW T, T \subseteq S
  PROVE  Cardinality(T) \in Nat /\ Cardinality(S) \in Nat
         /\ Cardinality(T) <= Cardinality(S)
<1>1. IsFiniteSet(S) BY GuardAssumption, FS_Subset
<1> QED BY <1>1, FS_Subset, FS_CardinalityType

LEMMA InitFirst == Init => FirstInv
<1> SUFFICES ASSUME Init PROVE FirstInv OBVIOUS
<1>1. Firsts = {} BY DEF Init, Firsts
<1>2. Cardinality({}) = 0 BY FS_EmptySet
<1> QED BY <1>1, <1>2, GuardAssumption DEF FirstInv

\* A run only leaves the first validations once it was let through.
LEMMA StepFirst ==
  ASSUME TInv, FirstInv, NEW r \in Runs, Step(r)
  PROVE  FirstInv'
<1>1. /\ pc[r] \in Active /\ UNCHANGED verdict
      /\ \A q \in Runs \ {r} : pc'[q] = pc[q] /\ reached'[q] = reached[q]
  BY StepFrame
<1>2. reached'[r] \/ pc'[r] \in {"decided", "recorded"}
        => reached[r] \/ pc[r] \in {"decided", "recorded"}
  BY DEF Step, Record, Prepare, ScaleUp, Train, Finish, Signal, Kill, Stop,
         End, Goto, TInv, TypeOK
<1>3. Firsts' \subseteq Firsts /\ Firsts \in SUBSET Runs
  BY <1>1, <1>2 DEF Firsts
<1>4. /\ Cardinality(Firsts') \in Nat /\ Cardinality(Firsts) \in Nat
      /\ Cardinality(Firsts') <= Cardinality(Firsts)
  BY <1>3, SmallerSet
<1> QED BY <1>4, GuardAssumption DEF FirstInv

\* The guard lets a first validation through only while no run has paid for
\* one, so that all there are are under way.
LEMMA DecideFirst ==
  ASSUME TInv, FirstInv, NEW r \in Runs, Decide(r)
  PROVE  FirstInv'
<1>1. PICK ask \in Asks, fix \in BOOLEAN :
        /\ pc[r] = "new" /\ pc' = [pc EXCEPT ![r] = "decided"]
        /\ Cardinality({q \in Runs : pc[q] \in Active}) < MaxOverlap
        /\ verdict' = [verdict EXCEPT ![r] = Recurrence(ask, fix)]
        /\ UNCHANGED <<log, status, reached, failure, stops>>
  BY DecideFrame
<1> DEFINE v == Recurrence(ask, fix)
           Busy == {q \in Runs : pc[q] \in Active}
<1>2. Firsts \in SUBSET Runs /\ Busy \in SUBSET Runs BY DEF Firsts
<1>3. \A q \in Runs \ {r} : /\ pc'[q] = pc[q] /\ verdict'[q] = verdict[q]
                            /\ reached'[q] = reached[q]
  BY <1>1 DEF TInv, TypeOK
<1>4. verdict'[r] = v BY <1>1 DEF TInv, TypeOK
<1> HIDE DEF v
<1>5. CASE v # "allowed"
  <2>1. Firsts' \subseteq Firsts BY <1>3, <1>4, <1>5 DEF Firsts
  <2>2. /\ Cardinality(Firsts') \in Nat /\ Cardinality(Firsts) \in Nat
        /\ Cardinality(Firsts') <= Cardinality(Firsts)
    BY <1>2, <2>1, SmallerSet
  <2> QED BY <2>2, GuardAssumption DEF FirstInv
<1>6. CASE v = "allowed"
  <2>1. Attempts = {} BY <1>6 DEF v, Recurrence
  <2>2. ASSUME NEW q \in Firsts PROVE q \in Busy
    <3>1. q \in Runs /\ verdict[q] = "allowed" BY DEF Firsts
    <3>2. ~reached[q]
      <4>1. reached[q] => q \in Written /\ Consumes(q)
        BY <3>1 DEF TInv, RunInv, Consumes
      <4>2. q \notin Attempts BY <2>1
      <4> QED BY <3>1, <4>1, <4>2 DEF Attempts, Validation
    <3> QED BY <3>1, <3>2 DEF Firsts, Active
  <2>3. r \notin Busy BY <1>1 DEF Active
  <2>4. Firsts' \subseteq Busy \cup {r} BY <1>3, <2>2 DEF Firsts
  <2> HIDE DEF Busy
  <2>5. IsFiniteSet(Busy) BY <1>2, GuardAssumption, FS_Subset
  <2>6. Cardinality(Busy \cup {r}) = Cardinality(Busy) + 1
    BY <2>3, <2>5, FS_AddElement
  <2>7. /\ Cardinality(Firsts') \in Nat
        /\ Cardinality(Firsts') <= Cardinality(Busy \cup {r})
    BY <1>2, <2>4, SmallerSet
  <2>8. Cardinality(Busy) \in Nat /\ Cardinality(Busy) < MaxOverlap
    BY <1>1, <2>5, FS_CardinalityType DEF Busy
  <2> QED BY <2>6, <2>7, <2>8, GuardAssumption DEF FirstInv
<1> QED BY <1>5, <1>6

LEMMA NextFirst == TInv /\ FirstInv /\ [Next]_vars => FirstInv'
<1> SUFFICES ASSUME TInv, FirstInv, [Next]_vars PROVE FirstInv' OBVIOUS
<1>1. CASE UNCHANGED vars BY <1>1 DEF vars, FirstInv, Firsts
<1>2. CASE Next BY <1>2, DecideFirst, StepFirst DEF Next, Step
<1> QED BY <1>1, <1>2

\* However runs overlap, no more first validations are paid for than runs can
\* be under way at a time.
THEOREM FirstsRationed == Spec => []FirstsAreRationed
<1>1. TInv /\ FirstInv => FirstsAreRationed
  <2> SUFFICES ASSUME FirstInv PROVE FirstsAreRationed OBVIOUS
  <2> DEFINE P == {r \in Runs : verdict[r] = "allowed" /\ reached[r]}
  <2>1. P \subseteq Firsts /\ Firsts \in SUBSET Runs BY DEF Firsts
  <2> HIDE DEF P
  <2>2. /\ Cardinality(P) \in Nat /\ Cardinality(Firsts) \in Nat
        /\ Cardinality(P) <= Cardinality(Firsts)
    BY <2>1, SmallerSet
  <2>3. Cardinality(P) <= MaxOverlap BY <2>2, GuardAssumption DEF FirstInv
  <2> QED BY <2>3 DEF P, FirstsAreRationed
<1>2. TInv /\ FirstInv /\ [Next]_vars => (TInv /\ FirstInv)'
  BY NextTypes, NextFirst
<1> QED BY <1>1, <1>2, InitTypes, InitFirst, PTL DEF Spec

LEMMA TwoSets ==
  ASSUME NEW S \in SUBSET Runs, NEW T \in SUBSET Runs
  PROVE  Cardinality(S \cup T) \in Nat /\ Cardinality(S) \in Nat
         /\ Cardinality(T) \in Nat
         /\ Cardinality(S \cup T) <= Cardinality(S) + Cardinality(T)
<1>1. IsFiniteSet(S) /\ IsFiniteSet(T) BY GuardAssumption, FS_Subset
<1>2. IsFiniteSet(S \cup T) /\ IsFiniteSet(S \cap T)
  BY <1>1, FS_Union, FS_Intersection
<1>3. Cardinality(S \cup T)
        = Cardinality(S) + Cardinality(T) - Cardinality(S \cap T)
  BY <1>1, FS_Union
<1> QED BY <1>1, <1>2, <1>3, FS_CardinalityType

\* A run that has begun was let through by the guard.
VerdictInv == \A r \in Runs : verdict[r] = "none" => pc[r] = "new"

LEMMA NextVerdict == TInv /\ VerdictInv /\ [Next]_vars => VerdictInv'
<1> SUFFICES ASSUME TInv, VerdictInv, [Next]_vars PROVE VerdictInv' OBVIOUS
<1>1. CASE UNCHANGED vars BY <1>1 DEF vars, VerdictInv
<1>2. ASSUME NEW r \in Runs, Step(r) PROVE VerdictInv'
  <2>1. /\ pc[r] \in Active /\ UNCHANGED verdict
        /\ \A q \in Runs \ {r} : pc'[q] = pc[q]
    BY <1>2, StepFrame
  <2> QED BY <2>1 DEF VerdictInv, Active
<1>3. ASSUME NEW r \in Runs, Decide(r) PROVE VerdictInv'
  <2>1. PICK ask \in Asks, fix \in BOOLEAN :
          /\ pc' = [pc EXCEPT ![r] = "decided"]
          /\ Recurrence(ask, fix) \in {"clear", "validated", "allowed", "recovery"}
          /\ verdict' = [verdict EXCEPT ![r] = Recurrence(ask, fix)]
    BY <1>3, DecideFrame
  <2>2. verdict'[r] # "none" BY <2>1 DEF TInv, TypeOK
  <2>3. \A q \in Runs \ {r} : pc'[q] = pc[q] /\ verdict'[q] = verdict[q]
    BY <2>1 DEF TInv, TypeOK
  <2> QED BY <2>2, <2>3 DEF VerdictInv
<1> QED BY <1>1, <1>2, <1>3 DEF Next, Step

\* A run that failed with the known signature was let through by the guard as
\* one of three kinds, and each kind is bounded.
THEOREM FailuresBounded == Spec => []FailuresAreBounded
<1>1. TInv /\ VerdictInv /\ ValidationsAreRationed /\ WasteIsBounded
        => FailuresAreBounded
  <2> SUFFICES ASSUME TInv, VerdictInv, ValidationsAreRationed, WasteIsBounded, ~hasty
               PROVE  Cardinality({r \in Runs : failure[r] = "busy"})
                        <= 2 * (Threshold + MaxOverlap)
    BY DEF FailuresAreBounded
  <2> DEFINE B == {r \in Runs : failure[r] = "busy"}
             C == {r \in Runs : failure[r] = "busy" /\ verdict[r] = "clear"}
             V == {r \in Runs : failure[r] = "busy" /\ verdict[r] = "validated"}
             P == {r \in Runs : Validation(r) /\ reached[r]}
  <2>1. /\ Cardinality(C) < Threshold + MaxOverlap
        /\ Cardinality(V) < Threshold + MaxOverlap
        /\ Cardinality(P) <= 2
    BY DEF ValidationsAreRationed, WasteIsBounded
  <2>2. ASSUME NEW r \in Runs, failure[r] = "busy"
        PROVE  /\ reached[r]
               /\ verdict[r] \in {"clear", "validated", "allowed", "recovery"}
    BY <2>2 DEF TInv, TypeOK, RunInv, VerdictInv
  <2>3. B \subseteq (C \cup V) \cup P BY <2>2 DEF Validation
  <2>4. C \in SUBSET Runs /\ V \in SUBSET Runs /\ P \in SUBSET Runs OBVIOUS
  <2> HIDE DEF B, C, V, P
  <2>5. Cardinality(B) <= Cardinality((C \cup V) \cup P)
        /\ Cardinality(B) \in Nat /\ Cardinality((C \cup V) \cup P) \in Nat
    BY <2>3, <2>4, SmallerSet
  <2>6. /\ Cardinality((C \cup V) \cup P)
             <= Cardinality(C \cup V) + Cardinality(P)
        /\ Cardinality(C \cup V) \in Nat /\ Cardinality(P) \in Nat
    BY <2>4, TwoSets
  <2>7. /\ Cardinality(C \cup V) <= Cardinality(C) + Cardinality(V)
        /\ Cardinality(C) \in Nat /\ Cardinality(V) \in Nat
    BY <2>4, TwoSets
  <2>8. Cardinality(B) <= 2 * (Threshold + MaxOverlap)
    BY <2>1, <2>5, <2>6, <2>7, GuardAssumption
  <2> QED BY <2>8 DEF B
<1>2. Init => VerdictInv BY DEF Init, VerdictInv
<1>3. TInv /\ VerdictInv /\ [Next]_vars => (TInv /\ VerdictInv)'
  BY NextTypes, NextVerdict
<1> QED
  BY <1>1, <1>2, <1>3, InitTypes, ValidationsRationed, WasteBounded, PTL DEF Spec
=============================================================================
