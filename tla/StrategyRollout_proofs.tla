---------------------- MODULE StrategyRollout_proofs ----------------------
(***************************************************************************)
(* Proofs about the in-game rollout monitor, for any registry, payloads    *)
(* and windows: the books of the heap and of Memory agree, no confirmed    *)
(* rollback is left for a later tick, a candidate is withdrawn exactly on  *)
(* the second report in two consecutive ticks, and the baseline of a       *)
(* family never moves; and where rollback targets are no candidates, that  *)
(* they stand and that what was withdrawn stays withdrawn.                 *)
(***************************************************************************)
EXTENDS StrategyRollout, SequenceTheorems, FiniteSetTheorems,
        WellFoundedInduction, TLAPS

-----------------------------------------------------------------------------
(* The candidate of a family *)

\* A nonempty set of naturals has a least element.
LEMMA LeastNatural ==
  ASSUME NEW T \in SUBSET Nat, T # {}
  PROVE  \E x \in T : \A y \in T : x <= y
<1>1. \E x \in T : \A y \in T : ~ (<<y, x>> \in OpToRel(<, Nat))
  BY NatLessThanWellFounded, WFMin
<1>2. PICK x \in T : \A y \in T : ~ (<<y, x>> \in OpToRel(<, Nat))
  BY <1>1
<1>3. \A y \in T : ~(y < x)
  BY <1>2 DEF OpToRel
<1> QED BY <1>3

\* The candidate is an entry of the family, still in the shadow.
LEMMA CandidateIsShadow ==
  ASSUME NEW st, NEW f, Candidate(st, f) # None
  PROVE  Candidate(st, f) \in Candidates(st, f)
<1> DEFINE at == {i \in DOMAIN Order : Order[i] \in Candidates(st, f)}
<1>1. at # {} BY DEF Candidate
<1>2. at \in SUBSET Nat BY RegistryAssumption
<1>3. \E i \in at : \A j \in at : i <= j BY <1>1, <1>2, LeastNatural
<1>4. (CHOOSE i \in at : \A j \in at : i <= j) \in at BY <1>3
<1> QED BY <1>1, <1>4 DEF Candidate

\* The candidate of a family depends on the statuses of the family only.
LEMMA CandidateIsLocal ==
  ASSUME NEW st, NEW su, NEW f,
         \A e \in Entries : FamilyOf[e] = f => st[e] = su[e]
  PROVE  Candidate(st, f) = Candidate(su, f)
<1>1. Candidates(st, f) = Candidates(su, f) BY DEF Candidates
<1> QED BY <1>1 DEF Candidate

-----------------------------------------------------------------------------
(* The books of the rollbacks *)

BooksOK(b) ==
  b \in [status : [Entries -> Statuses], pending : [Families -> Pending \cup {None}],
         memory : [Families -> MemPending \cup {None}], applied : SUBSET Entries]

\* What is pending in the heap is pending in Memory too, and is the rollback
\* that the registry would still ask for.
Agree(b) ==
  \A f \in Families : b.pending[f] # None =>
    /\ b.memory[f] # None
    /\ b.memory[f].age = b.pending[f].age
    /\ b.memory[f].disabled = b.pending[f].disabled
    /\ b.memory[f].target = b.pending[f].target
    /\ CanRollBack(b.status, f)
    /\ b.pending[f].disabled = Candidate(b.status, f)
    /\ b.pending[f].target = RollbackTo[b.pending[f].disabled]

\* Nothing confirmed is waiting.
Quiet(b) == \A f \in Families : b.pending[f] # None => ~b.pending[f].confirmed

LEMMA AgedBooks ==
  ASSUME NEW b, BooksOK(b), Agree(b), Quiet(b)
  PROVE  BooksOK(Aged(b)) /\ Agree(Aged(b)) /\ Quiet(Aged(b))
<1>1. \A p \in Pending : Older(p) \in Pending /\ Older(p).confirmed = p.confirmed
                         /\ Older(p).disabled = p.disabled /\ Older(p).target = p.target
                         /\ Older(p).age = IF p.age = 2 THEN 2 ELSE p.age + 1
  BY NoneAssumption DEF Older, Pending
<1>2. \A p \in MemPending : Older(p) \in MemPending
                         /\ Older(p).disabled = p.disabled /\ Older(p).target = p.target
                         /\ Older(p).age = IF p.age = 2 THEN 2 ELSE p.age + 1
  BY NoneAssumption DEF Older, MemPending
<1>3. Older(None) = None BY DEF Older
<1>4. Aged(b) = [status |-> b.status, pending |-> [f \in Families |-> Older(b.pending[f])],
                 memory |-> [f \in Families |-> Older(b.memory[f])], applied |-> b.applied]
  BY DEF Aged
<1> HIDE DEF Aged
<1>5. BooksOK(Aged(b)) BY <1>1, <1>2, <1>3, <1>4 DEF BooksOK
<1>6. Agree(Aged(b)) BY <1>1, <1>2, <1>3, <1>4, NoneAssumption DEF BooksOK, Agree
<1>7. Quiet(Aged(b)) BY <1>1, <1>3, <1>4, NoneAssumption DEF BooksOK, Quiet
<1> QED BY <1>5, <1>6, <1>7

\* A sweep withdraws the candidates of the families that are due, and of no
\* other, and leaves nothing confirmed behind.
LEMMA SweptBooks ==
  ASSUME NEW b, BooksOK(b), Agree(b)
  PROVE  /\ BooksOK(ApplyPendingRollbacks(b))
         /\ Agree(ApplyPendingRollbacks(b))
         /\ Quiet(ApplyPendingRollbacks(b))
         /\ \A f \in Families \ Due(b) : \A e \in Entries :
              FamilyOf[e] = f => ApplyPendingRollbacks(b).status[e] = b.status[e]
         /\ \A f \in Due(b) :
              /\ b.status[Candidate(b.status, f)] = "shadow"
              /\ FamilyOf[Candidate(b.status, f)] = f
              /\ Candidate(b.status, f) \in Entries
              /\ ApplyPendingRollbacks(b).status[Candidate(b.status, f)] = "disabled"
<1> DEFINE withdrawn == {b.pending[f].disabled : f \in Due(b)}
           restored == {b.pending[f].target : f \in Due(b)}
           over == Expired(b) \cup Confirmed(b)
           next == ApplyPendingRollbacks(b)
<1>1. Due(b) \subseteq Confirmed(b) /\ Confirmed(b) \subseteq Families
  BY DEF Due, Confirmed
<1>2. \A f \in Due(b) : /\ b.pending[f] \in Pending /\ b.pending[f] # None
                        /\ b.pending[f].disabled \in Entries
                        /\ b.pending[f].target \in Entries
                        /\ b.status[b.pending[f].target] # "shadow"
  BY <1>1 DEF Due, Confirmed, BooksOK, Pending
<1>3. \A f \in Due(b) :
        /\ b.pending[f].disabled = Candidate(b.status, f)
        /\ Candidate(b.status, f) \in Candidates(b.status, f)
        /\ FamilyOf[b.pending[f].target] = f
  BY <1>1, <1>2, CandidateIsShadow DEF Agree, CanRollBack
<1>4. \A f \in Due(b) :
        /\ b.status[b.pending[f].disabled] = "shadow"
        /\ FamilyOf[b.pending[f].disabled] = f
  BY <1>3 DEF Candidates
<1>5. next = [status |-> IF Due(b) = {} THEN b.status ELSE Rolled(b.status, withdrawn, restored),
              pending |-> [f \in Families |-> IF f \in over THEN None ELSE b.pending[f]],
              memory |-> [f \in Families |-> IF f \in over THEN None ELSE b.memory[f]],
              applied |-> b.applied \cup withdrawn]
  BY DEF ApplyPendingRollbacks
<1>6. withdrawn \subseteq Entries /\ restored \subseteq Entries BY <1>2
<1>7. \A e \in Entries : next.status[e] =
        IF e \in restored THEN "incumbent" ELSE IF e \in withdrawn THEN "disabled"
        ELSE b.status[e]
  BY <1>5 DEF Rolled
<1>8. BooksOK(next)
  <2>1. next.status \in [Entries -> Statuses]
    BY <1>5 DEF Rolled, Statuses, BooksOK
  <2>2. next.pending \in [Families -> Pending \cup {None}] BY <1>5 DEF BooksOK
  <2>3. next.memory \in [Families -> MemPending \cup {None}] BY <1>5 DEF BooksOK
  <2>4. next.applied \in SUBSET Entries BY <1>5, <1>6 DEF BooksOK
  <2> HIDE DEF over, withdrawn, restored
  <2> QED BY <1>5, <2>1, <2>2, <2>3, <2>4 DEF BooksOK
<1>9. \A f \in Families \ Due(b) : \A e \in Entries :
        FamilyOf[e] = f => next.status[e] = b.status[e]
  <2> SUFFICES ASSUME NEW f \in Families \ Due(b), NEW e \in Entries, FamilyOf[e] = f
               PROVE  e \notin withdrawn /\ e \notin restored
    BY <1>7
  <2> QED BY <1>3, <1>4
<1>10. \A f \in Due(b) : next.status[b.pending[f].disabled] = "disabled"
  <2> SUFFICES ASSUME NEW f \in Due(b)
               PROVE  b.pending[f].disabled \in withdrawn \ restored
    BY <1>2, <1>7
  <2> QED BY <1>2, <1>4
<1>11. \A f \in Families : next.pending[f] # None =>
          f \notin over /\ next.pending[f] = b.pending[f] /\ next.memory[f] = b.memory[f]
  BY <1>5
<1>12. Agree(next)
  <2> SUFFICES ASSUME NEW f \in Families, next.pending[f] # None
               PROVE  /\ CanRollBack(next.status, f)
                      /\ Candidate(next.status, f) = Candidate(b.status, f)
    BY <1>11 DEF Agree
  <2>1. f \in Families \ Due(b) BY <1>1, <1>11
  <2>2. Candidate(next.status, f) = Candidate(b.status, f)
    BY <2>1, <1>9, CandidateIsLocal
  <2>3. CanRollBack(b.status, f) BY <1>11 DEF Agree
  <2>4. Candidate(b.status, f) \in Entries
    BY <2>3, CandidateIsShadow DEF CanRollBack, Candidates
  <2>5. RollbackTo[Candidate(b.status, f)] \in Entries
    BY <2>3, <2>4, RegistryAssumption DEF CanRollBack
  <2> QED BY <2>1, <2>2, <2>3, <2>5, <1>9 DEF CanRollBack
<1>13. Quiet(next)
  <2> SUFFICES ASSUME NEW f \in Families, next.pending[f] # None
               PROVE  ~b.pending[f].confirmed
    BY <1>11 DEF Quiet
  <2> QED BY <1>11 DEF Confirmed, Agree
<1> QED
  BY <1>3, <1>4, <1>2, <1>8, <1>9, <1>10, <1>12, <1>13

\* While nothing confirmed is pending, a sweep only forgets what is over.
LEMMA QuietSweep ==
  ASSUME NEW b, BooksOK(b), Agree(b), Quiet(b)
  PROVE  /\ ApplyPendingRollbacks(b).status = b.status
         /\ ApplyPendingRollbacks(b).applied = b.applied
         /\ \A f \in Families : ApplyPendingRollbacks(b).pending[f] =
              IF b.pending[f] # None /\ b.pending[f].age > 1 THEN None ELSE b.pending[f]
<1>1. Confirmed(b) = {} BY DEF Confirmed, Quiet
<1>2. Due(b) = {} BY <1>1 DEF Due
<1>3. {b.pending[f].disabled : f \in Due(b)} = {} BY <1>2
<1>4. \A f \in Families : f \in Expired(b) /\ b.pending[f] # None => b.pending[f].age > 1
  BY DEF Expired
<1>5. \A f \in Families : b.pending[f] # None /\ b.pending[f].age > 1 => f \in Expired(b)
  BY DEF Expired, Agree
<1> QED BY <1>1, <1>2, <1>3, <1>4, <1>5 DEF ApplyPendingRollbacks

\* The reports of a tick: a family is pending afterwards if it was reported
\* with a candidate to withdraw, and confirmed if it was pending before.
LEMMA AskedBooks ==
  ASSUME NEW b, BooksOK(b), Agree(b), NEW regressed \in SUBSET Families
  PROVE  /\ BooksOK(ExecuteRollback(b, regressed))
         /\ Agree(ExecuteRollback(b, regressed))
<1> DEFINE c(f) == Candidate(b.status, f)
           next == ExecuteRollback(b, regressed)
<1>1. \A f \in Families : CanRollBack(b.status, f) =>
        c(f) \in Entries /\ RollbackTo[c(f)] \in Entries
  BY CandidateIsShadow, RegistryAssumption DEF CanRollBack, Candidates
<1>2. next.status = b.status /\ next.applied = b.applied BY DEF ExecuteRollback
<1>3. \A f \in Families : next.pending[f] =
         IF f \notin regressed THEN b.pending[f]
         ELSE IF ~CanRollBack(b.status, f) THEN None
         ELSE [age |-> 0, confirmed |-> Confirms(b, f),
               disabled |-> c(f), target |-> RollbackTo[c(f)]]
  BY DEF ExecuteRollback
<1>4. \A f \in Families : next.memory[f] =
         IF f \notin regressed THEN b.memory[f]
         ELSE IF ~CanRollBack(b.status, f) THEN None
         ELSE [age |-> 0, disabled |-> c(f), target |-> RollbackTo[c(f)]]
  BY DEF ExecuteRollback
<1>5. \A f \in Families : Confirms(b, f) \in BOOLEAN BY DEF Confirms
<1> HIDE DEF next
<1>6. \A f \in Families : next.pending[f] \in Pending \cup {None}
  <2>1. \A f \in Families : CanRollBack(b.status, f) =>
          [age |-> 0, confirmed |-> Confirms(b, f), disabled |-> c(f),
           target |-> RollbackTo[c(f)]] \in Pending
    BY <1>1, <1>5 DEF Pending
  <2> QED BY <1>3, <2>1 DEF BooksOK
<1>7. \A f \in Families : next.memory[f] \in MemPending \cup {None}
  <2>1. \A f \in Families : CanRollBack(b.status, f) =>
          [age |-> 0, disabled |-> c(f), target |-> RollbackTo[c(f)]] \in MemPending
    BY <1>1 DEF MemPending
  <2> QED BY <1>4, <2>1 DEF BooksOK
<1>8. BooksOK(next)
  BY <1>2, <1>6, <1>7 DEF BooksOK, ExecuteRollback, next
<1>9. \A f \in regressed : CanRollBack(b.status, f) => next.memory[f] # None
  <2>1. \A f \in Families : CanRollBack(b.status, f) =>
          [age |-> 0, disabled |-> c(f), target |-> RollbackTo[c(f)]] \in MemPending
    BY <1>1 DEF MemPending
  <2> QED BY <1>4, <2>1, NoneAssumption
<1>10. Agree(next)
  <2> SUFFICES ASSUME NEW f \in Families, next.pending[f] # None
               PROVE  /\ next.memory[f] # None
                      /\ next.memory[f].age = next.pending[f].age
                      /\ next.memory[f].disabled = next.pending[f].disabled
                      /\ next.memory[f].target = next.pending[f].target
                      /\ CanRollBack(next.status, f)
                      /\ next.pending[f].disabled = Candidate(next.status, f)
                      /\ next.pending[f].target = RollbackTo[next.pending[f].disabled]
    BY DEF Agree
  <2>1. CASE f \in regressed
    <3>1. CanRollBack(b.status, f) BY <2>1, <1>3
    <3>2. /\ next.pending[f].age = 0 /\ next.pending[f].disabled = c(f)
          /\ next.pending[f].target = RollbackTo[c(f)]
      <4>1. \E k : next.pending[f] = [age |-> 0, confirmed |-> k, disabled |-> c(f),
                                      target |-> RollbackTo[c(f)]]
        BY <2>1, <3>1, <1>3, Zenon
      <4> QED BY <4>1
    <3>3. next.memory[f] = [age |-> 0, disabled |-> c(f), target |-> RollbackTo[c(f)]]
      BY <2>1, <3>1, <1>4
    <3>4. /\ next.memory[f].age = 0 /\ next.memory[f].disabled = c(f)
          /\ next.memory[f].target = RollbackTo[c(f)]
      BY <3>3
    <3> QED BY <2>1, <3>1, <3>2, <3>4, <1>2, <1>9
  <2>2. CASE f \notin regressed BY <2>2, <1>2, <1>3, <1>4 DEF Agree
  <2> QED BY <2>1, <2>2
<1> QED BY <1>8, <1>10 DEF next

-----------------------------------------------------------------------------
(* Types, and the agreement of the books *)

Inv == TypeOK /\ Agree(Books) /\ Quiet(Books)

LEMMA LastNType ==
  ASSUME NEW S, NEW s \in Seq(S), NEW n \in Nat
  PROVE  /\ LastN(s, n) \in Seq(S)
         /\ Len(LastN(s, n)) = IF Len(s) > n THEN n ELSE Len(s)
<1>1. CASE Len(s) > n
  <2>1. \A i \in Len(s) - n + 1 .. Len(s) : s[i] \in S BY <1>1
  <2> QED BY <1>1, <2>1, SubSeqProperties DEF LastN
<1>2. CASE ~(Len(s) > n) BY <1>2 DEF LastN
<1> QED BY <1>1, <1>2

\* Closing a tick with well-formed books.
LEMMA KeepTypes ==
  ASSUME Inv, NEW b, BooksOK(b), Agree(b), Quiet(b), Keep(b)
  PROVE  /\ status' \in [Entries -> Statuses]
         /\ pending' \in [Families -> Pending \cup {None}]
         /\ memPending' \in [Families -> MemPending \cup {None}]
         /\ history' \in Seq(Entries) /\ Len(history') <= HistoryLimit
         /\ Agree(Books)' /\ Quiet(Books)'
<1>1. PICK s \in Listings(b.applied) : history' = LastN(history \o s, HistoryLimit)
  BY DEF Keep
<1>2. Cardinality(b.applied) \in Nat
  BY RegistryAssumption, FS_Subset, FS_CardinalityType DEF BooksOK
<1>3. s \in Seq(Entries) BY <1>2 DEF Listings, BooksOK
<1>4. history \o s \in Seq(Entries) BY <1>3, ConcatProperties DEF Inv, TypeOK
<1>5. HistoryLimit \in Nat BY ConfigAssumption
<1>6. history' \in Seq(Entries) /\ Len(history') <= HistoryLimit
  <2> DEFINE h == history \o s
  <2>1. h \in Seq(Entries) /\ Len(h) \in Nat BY <1>4
  <2> HIDE DEF h
  <2>2. /\ LastN(h, HistoryLimit) \in Seq(Entries)
        /\ Len(LastN(h, HistoryLimit)) <= HistoryLimit
    BY <1>5, <2>1, LastNType
  <2> QED BY <1>1, <2>2 DEF h
<1>7. Books'.status = b.status /\ Books'.pending = b.pending /\ Books'.memory = b.memory
  BY DEF Books, Keep
<1>8. Agree(Books)' BY <1>7 DEF Agree
<1>9. Quiet(Books)' BY <1>7 DEF Quiet
<1> QED BY <1>6, <1>8, <1>9 DEF Keep, BooksOK

LEMMA BooksInv ==
  ASSUME Inv
  PROVE  /\ BooksOK(Aged(Books)) /\ Agree(Aged(Books)) /\ Quiet(Aged(Books))
         /\ BooksOK(Swept) /\ Agree(Swept) /\ Quiet(Swept)
         /\ BooksOK(SweptTwice) /\ Agree(SweptTwice) /\ Quiet(SweptTwice)
<1>1. BooksOK(Books) BY DEF Inv, TypeOK, BooksOK, Books
<1>2. BooksOK(Aged(Books)) /\ Agree(Aged(Books)) /\ Quiet(Aged(Books))
  BY <1>1, AgedBooks DEF Inv
<1>3. BooksOK(Swept) /\ Agree(Swept) /\ Quiet(Swept)
  BY <1>2, SweptBooks DEF Swept
<1> QED BY <1>2, <1>3, SweptBooks DEF SweptTwice

LEMMA InitInv == Init => Inv
<1> SUFFICES ASSUME Init PROVE Inv OBVIOUS
<1> USE RegistryAssumption, ConfigAssumption
<1>1. <<>> \in Seq(Windows) /\ Len(<<>>) = 0 /\ <<>> \in Seq(Entries) OBVIOUS
<1>2. TypeOK BY <1>1 DEF Init, TypeOK
<1>3. \A f \in Families : Books.pending[f] = None BY DEF Init, Books
<1> QED BY <1>2, <1>3 DEF Inv, Agree, Quiet

LEMMA ClockType == ASSUME TypeOK, TimePasses PROVE clock' \in 0 .. SummaryInterval - 1
BY ConfigAssumption DEF TypeOK, TimePasses

\* A tick without a summary.
LEMMA PlainTick ==
  ASSUME Inv, NEW b, BooksOK(b), Agree(b), Quiet(b), Keep(b), TimePasses,
         UNCHANGED <<payload, recent, baseline, kpiBaseline>>
  PROVE  Inv'
<1>1. clock' \in 0 .. SummaryInterval - 1 BY ClockType DEF Inv
<1>2. /\ status' \in [Entries -> Statuses]
      /\ pending' \in [Families -> Pending \cup {None}]
      /\ memPending' \in [Families -> MemPending \cup {None}]
      /\ history' \in Seq(Entries) /\ Len(history') <= HistoryLimit
      /\ Agree(Books)' /\ Quiet(Books)'
  BY KeepTypes
<1>3. TypeOK' BY <1>1, <1>2 DEF Inv, TypeOK
<1> QED BY <1>2, <1>3 DEF Inv

LEMMA AppendedType ==
  ASSUME TypeOK, NEW f \in Families, NEW w \in Windows
  PROVE  Appended(f, w) \in Seq(Windows) /\ Len(Appended(f, w)) <= MaxRecent
<1> DEFINE s == Append(recent[f], w)
<1>1. s \in Seq(Windows) /\ Len(s) \in Nat /\ MaxRecent \in Nat
  BY ConfigAssumption DEF TypeOK
<1> HIDE DEF s
<1>2. LastN(s, MaxRecent) \in Seq(Windows) /\ Len(LastN(s, MaxRecent)) <= MaxRecent
  BY <1>1, LastNType
<1> QED BY <1>2 DEF Appended, TypeOK, s

LEMMA BaselineType ==
  ASSUME TypeOK, NEW f \in Families, NEW windows \in Seq(Windows)
  PROVE  BaselineFor(f, windows) \in Seq(Windows)
<1>1. MinWindow \in Nat BY ConfigAssumption
<1>2. Seeded(f) \in Seq(Windows) BY DEF Seeded, TypeOK
<1>3. LastN(windows, MinWindow) \in Seq(Windows) BY <1>1, LastNType
<1>4. LastN(Seeded(f), MinWindow) \in Seq(Windows) BY <1>1, <1>2, LastNType
<1> QED BY <1>3, <1>4 DEF BaselineFor, TypeOK

\* The families reported in a tick with a summary.
Regressed ==
  {f \in Monitored(payload) : CheckKpiRegression(recent'[f], baseline'[f])}

LEMMA MonitorTick ==
  ASSUME Inv, NEW w \in Windows, Monitor(w)
  PROVE  Inv'
<1> DEFINE asked == ExecuteRollback(SweptTwice, Regressed)
           last == ApplyPendingRollbacks(asked)
<1>1. Regressed \in SUBSET Families BY DEF Regressed, Monitored
<1>2. Keep(last)
  BY DEF Monitor, Regressed
<1>3. /\ BooksOK(SweptTwice) /\ Agree(SweptTwice)
      /\ BooksOK(asked) /\ Agree(asked)
  BY <1>1, BooksInv, AskedBooks
<1>4. BooksOK(last) /\ Agree(last) /\ Quiet(last) BY <1>3, SweptBooks
<1> HIDE DEF last
<1>5. /\ status' \in [Entries -> Statuses]
      /\ pending' \in [Families -> Pending \cup {None}]
      /\ memPending' \in [Families -> MemPending \cup {None}]
      /\ history' \in Seq(Entries) /\ Len(history') <= HistoryLimit
      /\ Agree(Books)' /\ Quiet(Books)'
  BY <1>2, <1>4, KeepTypes
<1>6. recent' \in [Families -> Seq(Windows)] /\ \A f \in Families : Len(recent'[f]) <= MaxRecent
  BY AppendedType DEF Monitor, Inv
<1>7. \A f \in Families : BaselineFor(f, recent'[f]) \in Seq(Windows)
  BY <1>6, BaselineType DEF Inv
<1>8. baseline' \in [Families -> Seq(Windows)] BY <1>7 DEF Monitor
<1>9. kpiBaseline' \in [Families -> Seq(Windows)]
  BY <1>8 DEF Monitor, Inv, TypeOK
<1>10. clock' \in 0 .. SummaryInterval - 1 BY ClockType DEF Inv, Monitor
<1>11. payload' \in Payloads BY DEF Monitor, Inv, TypeOK
<1>12. TypeOK' BY <1>5, <1>6, <1>8, <1>9, <1>10, <1>11 DEF TypeOK
<1> QED BY <1>5, <1>12 DEF Inv

LEMMA ReloadInv == ASSUME Inv, Reload PROVE Inv'
<1> USE RegistryAssumption, ConfigAssumption
<1>1. <<>> \in Seq(Windows) /\ Len(<<>>) = 0 OBVIOUS
<1>2. TypeOK' BY <1>1 DEF Reload, Inv, TypeOK
<1>3. \A f \in Families : Books'.pending[f] = None BY DEF Reload, Books
<1> QED BY <1>2, <1>3 DEF Inv, Agree, Quiet

LEMMA NextInv == Inv /\ [Next]_vars => Inv'
<1> SUFFICES ASSUME Inv, [Next]_vars PROVE Inv' OBVIOUS
<1>1. CASE Unmonitored BY <1>1, BooksInv, PlainTick DEF Unmonitored
<1>2. CASE Unconsumed BY <1>2, BooksInv, PlainTick DEF Unconsumed
<1>3. CASE NoSummary BY <1>3, BooksInv, PlainTick DEF NoSummary
<1>4. CASE \E w \in Windows : Monitor(w) BY <1>4, MonitorTick
<1>5. CASE Reload BY <1>5, ReloadInv
<1>6. CASE UNCHANGED vars
  BY <1>6 DEF vars, Inv, TypeOK, Books, Agree, Quiet
<1> QED BY <1>1, <1>2, <1>3, <1>4, <1>5, <1>6 DEF Next, Tick

-----------------------------------------------------------------------------
(* Theorems about the books *)

LEMMA SpecInv == Spec => []Inv
BY InitInv, NextInv, PTL DEF Spec

\* The state of the rollout monitor is well typed and within its limits,
\* whatever the registry, the payloads and the windows are.
THEOREM TypeCorrect == Spec => []TypeOK
<1>1. Inv => TypeOK BY DEF Inv
<1> QED BY <1>1, SpecInv, PTL

\* applyPendingRollbacks leaves no confirmed rollback for a later tick, and the
\* heap and Memory ask for the same rollbacks.
THEOREM NoRollbackStranded == Spec => []NothingStranded
<1>1. Inv => NothingStranded
  BY DEF Inv, Agree, Quiet, NothingStranded, Books
<1> QED BY <1>1, SpecInv, PTL

-----------------------------------------------------------------------------
(* A candidate is withdrawn on the second report in two consecutive ticks *)

\* What the first sweep of a tick leaves: the rollbacks asked for one tick ago.
LEMMA SweptPending ==
  ASSUME Inv
  PROVE  /\ Swept.status = status /\ SweptTwice.status = status
         /\ \A f \in Families : SweptTwice.pending[f] # None <=> f \in Accused
         /\ \A f \in Families : Swept.pending[f] # None => Swept.pending[f].age = 1
         /\ \A f \in Families : SweptTwice.pending[f] # None => SweptTwice.pending[f].age = 1
         /\ \A f \in Families : ~(Swept.pending[f] # None /\ Swept.pending[f].age = 0)
<1>1. /\ BooksOK(Aged(Books)) /\ Agree(Aged(Books)) /\ Quiet(Aged(Books))
      /\ BooksOK(Swept) /\ Agree(Swept) /\ Quiet(Swept)
  BY BooksInv
<1>2. /\ Aged(Books).status = status
      /\ \A f \in Families : Aged(Books).pending[f] = Older(pending[f])
  BY DEF Aged, Books
<1>3. \A f \in Families : pending[f] # None =>
        /\ pending[f].age \in 0 .. 2
        /\ Older(pending[f]) # None
        /\ Older(pending[f]).age = IF pending[f].age = 2 THEN 2 ELSE pending[f].age + 1
  <2> SUFFICES ASSUME NEW f \in Families, pending[f] # None
               PROVE  /\ pending[f].age \in 0 .. 2
                      /\ Older(pending[f]) # None
                      /\ Older(pending[f]).age = IF pending[f].age = 2 THEN 2 ELSE pending[f].age + 1
    OBVIOUS
  <2>1. pending[f] \in Pending BY DEF Inv, TypeOK
  <2>2. Older(pending[f]) \in Pending BY <2>1, NoneAssumption DEF Older, Pending
  <2>3. Older(pending[f]) # None BY <2>2, NoneAssumption
  <2> QED BY <2>1, <2>3 DEF Older, Pending
<1>4. Older(None) = None BY DEF Older
<1>5. /\ Swept.status = status
      /\ \A f \in Families : Swept.pending[f] =
           IF Aged(Books).pending[f] # None /\ Aged(Books).pending[f].age > 1
           THEN None ELSE Aged(Books).pending[f]
  BY <1>1, <1>2, QuietSweep DEF Swept
<1>6. \A f \in Families : /\ Swept.pending[f] # None <=> f \in Accused
                          /\ Swept.pending[f] # None => Swept.pending[f].age = 1
  BY <1>2, <1>3, <1>4, <1>5 DEF Accused
<1>7. /\ SweptTwice.status = status
      /\ \A f \in Families : SweptTwice.pending[f] = Swept.pending[f]
  BY <1>1, <1>5, <1>6, QuietSweep DEF SweptTwice
<1> QED BY <1>5, <1>6, <1>7

\* A tick in which no family is reported.
LEMMA QuietTickRefines ==
  ASSUME Inv, status' = status, Accused' = {}
  PROVE  Abstract!Tick({})
<1>1. status' \in [Entries -> {"incumbent", "shadow", "disabled", "retired"}]
  BY DEF Inv, TypeOK, Statuses
<1> QED BY <1>1 DEF Abstract!Tick, Abstract!Untouched

LEMMA MonitorRefines ==
  ASSUME Inv, NEW w \in Windows, Monitor(w)
  PROVE  \E reported \in SUBSET Families : Abstract!Tick(reported)
<1> DEFINE reported == {f \in Regressed : CanRollBack(status, f)}
           asked == ExecuteRollback(SweptTwice, Regressed)
           last == ApplyPendingRollbacks(asked)
<1>1. Regressed \in SUBSET Families BY DEF Regressed, Monitored
<1>2. Keep(last) BY DEF Monitor, Regressed
<1>3. /\ BooksOK(SweptTwice) /\ Agree(SweptTwice) /\ Quiet(SweptTwice)
      /\ BooksOK(asked) /\ Agree(asked)
  BY <1>1, BooksInv, AskedBooks
<1>4. /\ SweptTwice.status = status
      /\ \A f \in Families : SweptTwice.pending[f] # None <=> f \in Accused
      /\ \A f \in Families : SweptTwice.pending[f] # None => SweptTwice.pending[f].age = 1
  BY SweptPending
<1>5. \A f \in reported : Confirms(SweptTwice, f) <=> f \in Accused
  BY <1>1, <1>3, <1>4 DEF Confirms, Agree
<1>6. asked.status = status BY <1>4 DEF ExecuteRollback
<1>7. \A f \in reported : /\ asked.pending[f] # None
                          /\ asked.pending[f].age = 0
                          /\ asked.pending[f].confirmed <=> f \in Accused
  <2> SUFFICES ASSUME NEW f \in reported
               PROVE  /\ asked.pending[f] # None
                      /\ asked.pending[f].age = 0
                      /\ asked.pending[f].confirmed <=> f \in Accused
    OBVIOUS
  <2>1. asked.pending[f] =
          [age |-> 0, confirmed |-> Confirms(SweptTwice, f),
           disabled |-> Candidate(SweptTwice.status, f),
           target |-> RollbackTo[Candidate(SweptTwice.status, f)]]
    BY <1>1, <1>4, Zenon DEF ExecuteRollback
  <2>2. PICK k : /\ k <=> Confirms(SweptTwice, f)
                 /\ asked.pending[f] =
                     [age |-> 0, confirmed |-> k,
                      disabled |-> Candidate(SweptTwice.status, f),
                      target |-> RollbackTo[Candidate(SweptTwice.status, f)]]
    BY <2>1, Zenon
  <2>3. CanRollBack(status, f) BY DEF reported
  <2>4. Candidate(status, f) \in Entries /\ RollbackTo[Candidate(status, f)] \in Entries
    BY <2>3, CandidateIsShadow, RegistryAssumption DEF CanRollBack, Candidates
  <2>5. Confirms(SweptTwice, f) \in BOOLEAN BY DEF Confirms
  <2>6. [age |-> 0, confirmed |-> Confirms(SweptTwice, f),
         disabled |-> Candidate(SweptTwice.status, f),
         target |-> RollbackTo[Candidate(SweptTwice.status, f)]] \in Pending
    BY <2>4, <2>5, <1>4 DEF Pending
  <2>7. asked.pending[f] # None BY <2>1, <2>6, NoneAssumption
  <2>8. asked.pending[f].confirmed = k /\ asked.pending[f].age = 0 BY <2>2
  <2> QED BY <2>2, <2>7, <2>8, <1>5
<1>8. \A f \in Families \ reported : asked.pending[f] # None =>
        /\ ~asked.pending[f].confirmed
        /\ asked.pending[f].age = 1
  BY <1>4, <1>3 DEF ExecuteRollback, Quiet
<1>9. Confirmed(asked) \subseteq reported \cap Accused
  BY <1>7, <1>8 DEF Confirmed
<1>10. Expired(asked) \cap reported = {}
  BY <1>7, <1>1 DEF Expired, Agree
<1>11. reported \cap Accused \subseteq Due(asked)
  <2> SUFFICES ASSUME NEW f \in reported \cap Accused PROVE f \in Due(asked)
    OBVIOUS
  <2>1. f \in Families BY <1>1
  <2>2. /\ asked.memory[f] # None
        /\ asked.memory[f].disabled = asked.pending[f].disabled
        /\ asked.memory[f].target = asked.pending[f].target
        /\ CanRollBack(status, f)
        /\ asked.pending[f].disabled = Candidate(status, f)
        /\ asked.pending[f].target = RollbackTo[Candidate(status, f)]
    BY <1>3, <1>6, <1>7, <2>1 DEF Agree
  <2>3. f \in Confirmed(asked) BY <1>7, <1>10, <2>1, <2>2 DEF Confirmed
  <2>4. FamilyOf[Candidate(status, f)] = f
    BY <2>2, CandidateIsShadow DEF CanRollBack, Candidates
  <2> QED BY <2>2, <2>3, <2>4, <1>6 DEF Due, CanRollBack
<1>12. Due(asked) = reported \cap Accused
  BY <1>9, <1>11 DEF Due
<1>13. \A f \in Families \ (reported \cap Accused) : Abstract!Untouched(f)
  <2>1. status' = last.status BY <1>2 DEF Keep
  <2> QED BY <1>3, <1>6, <1>12, <2>1, SweptBooks DEF Abstract!Untouched
<1>14. \A f \in reported \cap Accused : Abstract!Withdrawn(f)
  <2> SUFFICES ASSUME NEW f \in reported \cap Accused PROVE Abstract!Withdrawn(f)
    OBVIOUS
  <2> DEFINE c == Candidate(status, f)
  <2>1. status' = last.status BY <1>2 DEF Keep
  <2>2. c \in Entries /\ FamilyOf[c] = f /\ status[c] = "shadow" /\ last.status[c] = "disabled"
    BY <1>3, <1>6, <1>12, SweptBooks
  <2> QED BY <2>1, <2>2 DEF Abstract!Withdrawn
<1>15. Accused' = reported \ Accused
  <2>1. \A f \in Families : pending'[f] =
          IF f \in Expired(asked) \cup Confirmed(asked) THEN None ELSE asked.pending[f]
    BY <1>2 DEF Keep, ApplyPendingRollbacks
  <2>2. Confirmed(asked) = reported \cap Accused BY <1>9, <1>12 DEF Due
  <2>3. \A f \in Families : f \in Accused' <=> f \in reported \ Accused
    BY <2>1, <2>2, <1>7, <1>8, <1>10 DEF Accused
  <2>4. reported \subseteq Families /\ Accused' \subseteq Families BY <1>1 DEF Accused
  <2> QED BY <2>3, <2>4
<1>16. status' \in [Entries -> {"incumbent", "shadow", "disabled", "retired"}]
  BY NextInv, MonitorTick DEF Inv, TypeOK, Statuses
<1>17. Abstract!Tick(reported) BY <1>13, <1>14, <1>15, <1>16 DEF Abstract!Tick
<1> QED BY <1>1, <1>17

LEMMA StepRefines == Inv /\ [Next]_vars => [Abstract!Next]_<<status, Accused>>
<1> SUFFICES ASSUME Inv, [Next]_vars PROVE [Abstract!Next]_<<status, Accused>>
  OBVIOUS
<1> DEFINE Plain(b) == Keep(b) /\ b.status = status
                       /\ \A f \in Families : ~(b.pending[f] # None /\ b.pending[f].age = 0)
<1>1. ASSUME NEW b, Plain(b) PROVE Abstract!Tick({})
  <2>1. status' = status /\ Accused' = {} BY <1>1 DEF Keep, Accused
  <2> QED BY <2>1, QuietTickRefines
<1>2. CASE Unmonitored
  <2>1. \A f \in Families : Aged(Books).pending[f] = Older(pending[f])
    BY DEF Aged, Books
  <2>2. ASSUME NEW f \in Families, Older(pending[f]) # None
        PROVE  Older(pending[f]).age # 0
    <3>1. pending[f] # None BY <2>2 DEF Older
    <3>2. pending[f] \in Pending BY <3>1 DEF Inv, TypeOK
    <3> QED BY <3>1, <3>2 DEF Older, Pending
  <2>3. Plain(Aged(Books)) BY <1>2, <2>1, <2>2 DEF Unmonitored, Aged, Books
  <2> QED BY <1>1, <2>3 DEF Abstract!Next
<1>3. CASE Unconsumed
  <2>1. Plain(Swept) BY <1>3, SweptPending DEF Unconsumed
  <2> QED BY <1>1, <2>1 DEF Abstract!Next
<1>4. CASE NoSummary
  <2>1. Plain(SweptTwice) BY <1>4, SweptPending DEF NoSummary
  <2> QED BY <1>1, <2>1 DEF Abstract!Next
<1>5. CASE \E w \in Windows : Monitor(w) BY <1>5, MonitorRefines DEF Abstract!Next
<1>6. CASE Reload BY <1>6 DEF Reload, Abstract!Next, Abstract!Reload, Accused
<1>7. CASE UNCHANGED vars BY <1>7 DEF vars, Accused
<1> QED BY <1>2, <1>3, <1>4, <1>5, <1>6, <1>7 DEF Next, Tick

\* The loop with its monitor implements ConfirmedRollback: a candidate is
\* withdrawn on the second report in two consecutive ticks and at no other time.
THEOREM RollbackRefinement == Spec => ImplementsConfirmedRollback
<1>1. Init => Abstract!Init BY DEF Init, Abstract!Init, Accused
<1> QED
  BY <1>1, StepRefines, SpecInv, PTL
     DEF Spec, ImplementsConfirmedRollback, Abstract!Spec

-----------------------------------------------------------------------------
(* The baseline is measured once *)

\* Memory holds either no baseline or a full one, and the heap has no other.
BaselineInv ==
  \A f \in Families :
    /\ kpiBaseline[f] # <<>> => Len(kpiBaseline[f]) = MinWindow
    /\ baseline[f] \in {<<>>, kpiBaseline[f]}

LEMMA LastNFull ==
  ASSUME NEW s \in Seq(Windows), Len(s) <= MinWindow
  PROVE  LastN(s, MinWindow) = s
BY ConfigAssumption DEF LastN

\* What a tick with a summary does to the baseline of a family.
LEMMA FamilyBaseline ==
  ASSUME Inv, BaselineInv, NEW w \in Windows, Monitor(w), NEW f \in Families
  PROVE  /\ kpiBaseline[f] # <<>> => kpiBaseline'[f] = kpiBaseline[f]
         /\ kpiBaseline'[f] # <<>> => Len(kpiBaseline'[f]) = MinWindow
         /\ baseline'[f] \in {<<>>, kpiBaseline'[f]}
<1>1. /\ baseline'[f] = BaselineFor(f, recent'[f])
      /\ kpiBaseline'[f] = IF NeedsBaseline(f, recent'[f]) THEN baseline'[f] ELSE kpiBaseline[f]
  BY DEF Monitor
<1>2. MinWindow \in Nat \ {0} BY ConfigAssumption
<1>3. recent'[f] \in Seq(Windows) /\ kpiBaseline[f] \in Seq(Windows) /\ baseline[f] \in Seq(Windows)
  BY MonitorTick DEF Inv, TypeOK
<1>4. Seeded(f) = kpiBaseline[f]
  BY DEF Seeded, BaselineInv
<1>5. CASE NeedsBaseline(f, recent'[f])
  <2>1. kpiBaseline[f] = <<>>
    BY <1>2, <1>4, <1>5 DEF NeedsBaseline, BaselineInv
  <2>2. baseline'[f] = LastN(recent'[f], MinWindow) /\ kpiBaseline'[f] = baseline'[f]
    BY <1>1, <1>5 DEF BaselineFor, NeedsBaseline
  <2>3. Len(recent'[f]) >= MinWindow BY <1>5 DEF NeedsBaseline
  <2>4. Len(LastN(recent'[f], MinWindow)) = MinWindow
    BY <1>2, <1>3, <2>3, LastNType
  <2> QED BY <2>1, <2>2, <2>4
<1>6. CASE ~NeedsBaseline(f, recent'[f])
  <2>1. kpiBaseline'[f] = kpiBaseline[f] BY <1>1, <1>6
  <2>2. Len(kpiBaseline[f]) <= MinWindow
    BY <1>2 DEF BaselineInv
  <2>3. LastN(Seeded(f), MinWindow) = kpiBaseline[f] BY <1>3, <1>4, <2>2, LastNFull
  <2>4. baseline'[f] \in {<<>>, kpiBaseline[f]}
    BY <1>1, <1>6, <2>3 DEF BaselineFor, BaselineInv
  <2> QED BY <2>1, <2>4 DEF BaselineInv
<1> QED BY <1>5, <1>6

FixedStep ==
  \A f \in Families :
    /\ kpiBaseline[f] # <<>> => kpiBaseline'[f] = kpiBaseline[f]
    /\ baseline'[f] \in {<<>>, kpiBaseline'[f]}

LEMMA BaselineStep == Inv /\ BaselineInv /\ [Next]_vars => BaselineInv' /\ FixedStep
<1> SUFFICES ASSUME Inv, BaselineInv, [Next]_vars PROVE BaselineInv' /\ FixedStep
  OBVIOUS
<1>1. CASE UNCHANGED <<baseline, kpiBaseline>>
  BY <1>1 DEF BaselineInv, FixedStep
<1>2. CASE \E w \in Windows : Monitor(w)
  BY <1>2, FamilyBaseline DEF BaselineInv, FixedStep
<1>3. CASE Reload
  BY <1>3 DEF Reload, BaselineInv, FixedStep
<1> QED
  BY <1>1, <1>2, <1>3 DEF Next, Tick, Unmonitored, Unconsumed, NoSummary, vars

\* Neither a reload nor a long run of bad windows moves the baseline that a
\* family is judged against.
THEOREM BaselineNeverMoves == Spec => BaselineIsFixed
<1>1. Init => BaselineInv BY DEF Init, BaselineInv
<1>2. Inv /\ BaselineInv /\ [Next]_vars => FixedStep BY BaselineStep
<1>3. Spec => [](Inv /\ BaselineInv)
  BY <1>1, SpecInv, BaselineStep, PTL DEF Spec
<1>4. FixedStep =>
        \A f \in Families : /\ kpiBaseline[f] # <<>> => kpiBaseline'[f] = kpiBaseline[f]
                            /\ baseline'[f] \in {<<>>, kpiBaseline'[f]}
  BY DEF FixedStep
<1> QED BY <1>2, <1>3, <1>4, PTL DEF Spec, BaselineIsFixed

-----------------------------------------------------------------------------
(* What a rollback leaves behind *)

\* As in DEFAULT_STRATEGY_REGISTRY, where every entry gives way to the
\* incumbent of its family.
SettledTargets ==
  \A e \in Entries : RollbackTo[e] # None => DefaultStatus[RollbackTo[e]] = "incumbent"

Standing(st) == \A e \in Entries : RollbackTo[e] # None => st[RollbackTo[e]] = "incumbent"

\* Only candidates that have something to give way to are withdrawn.
WithdrawnHaveTargets ==
  \A e \in Entries : status[e] = "disabled" /\ DefaultStatus[e] # "disabled"
    => RollbackTo[e] # None

\* From st to su candidates are withdrawn, and nothing else changes.
OnlyWithdraws(st, su) ==
  \A e \in Entries : \/ su[e] = st[e]
                     \/ st[e] = "shadow" /\ su[e] = "disabled" /\ RollbackTo[e] # None

LEMMA SweepOnlyWithdraws ==
  ASSUME NEW b, BooksOK(b), Agree(b), Standing(b.status)
  PROVE  OnlyWithdraws(b.status, ApplyPendingRollbacks(b).status)
<1> DEFINE withdrawn == {b.pending[f].disabled : f \in Due(b)}
           restored == {b.pending[f].target : f \in Due(b)}
           next == ApplyPendingRollbacks(b)
<1>1. \A f \in Due(b) : f \in Families /\ b.pending[f] # None BY DEF Due, Confirmed
<1>2. \A f \in Due(b) : LET c == Candidate(b.status, f) IN
        /\ c # None /\ RollbackTo[c] # None
        /\ b.pending[f].disabled = c /\ b.pending[f].target = RollbackTo[c]
  BY <1>1 DEF Agree, CanRollBack
<1>3. \A f \in Due(b) : /\ Candidate(b.status, f) \in Entries
                        /\ b.status[Candidate(b.status, f)] = "shadow"
  BY <1>2, CandidateIsShadow DEF Candidates
<1>4. \A e \in restored : b.status[e] = "incumbent" BY <1>2, <1>3 DEF Standing
<1>5. \A e \in withdrawn : b.status[e] = "shadow" /\ RollbackTo[e] # None
  BY <1>2, <1>3
<1>6. next.status = IF Due(b) = {} THEN b.status ELSE Rolled(b.status, withdrawn, restored)
  BY DEF ApplyPendingRollbacks
<1>7. \A e \in Entries : next.status[e] =
        IF e \in restored THEN "incumbent" ELSE IF e \in withdrawn THEN "disabled"
        ELSE b.status[e]
  BY <1>6 DEF Rolled
<1> HIDE DEF withdrawn, restored, next
<1>8. OnlyWithdraws(b.status, next.status) BY <1>4, <1>5, <1>7 DEF OnlyWithdraws
<1> QED BY <1>8 DEF next

LEMMA TickOnlyWithdraws ==
  ASSUME Inv, Standing(status), Tick
  PROVE  OnlyWithdraws(status, status')
<1>1. CASE status' = status BY <1>1 DEF OnlyWithdraws
<1>2. CASE Unmonitored BY <1>1, <1>2 DEF Unmonitored, Keep, Aged, Books
<1>3. CASE Unconsumed BY <1>1, <1>3, SweptPending DEF Unconsumed, Keep
<1>4. CASE NoSummary BY <1>1, <1>4, SweptPending DEF NoSummary, Keep
<1>5. ASSUME NEW w \in Windows, Monitor(w) PROVE OnlyWithdraws(status, status')
  <2> DEFINE asked == ExecuteRollback(SweptTwice, Regressed)
  <2>1. Regressed \in SUBSET Families BY DEF Regressed, Monitored
  <2>2. Keep(ApplyPendingRollbacks(asked)) BY <1>5 DEF Monitor, Regressed
  <2>3. BooksOK(asked) /\ Agree(asked) BY <2>1, BooksInv, AskedBooks
  <2>4. asked.status = status BY SweptPending DEF ExecuteRollback
  <2> HIDE DEF asked
  <2>5. OnlyWithdraws(asked.status, ApplyPendingRollbacks(asked).status)
    BY <2>3, <2>4, SweepOnlyWithdraws
  <2> QED BY <2>2, <2>4, <2>5 DEF Keep
<1> QED BY <1>2, <1>3, <1>4, <1>5 DEF Tick

StandingInv == Standing(status) /\ WithdrawnHaveTargets

WithdrawnStep ==
  \A e \in Entries : status[e] = "disabled" => status'[e] = "disabled" \/ Reload

LEMMA StandingStep ==
  ASSUME SettledTargets, Inv, StandingInv, [Next]_vars
  PROVE  StandingInv' /\ WithdrawnStep
<1>1. CASE OnlyWithdraws(status, status')
  <2>1. \A e \in Entries : RollbackTo[e] # None => RollbackTo[e] \in Entries
    BY RegistryAssumption
  <2>2. Standing(status)' BY <1>1, <2>1 DEF StandingInv, Standing, OnlyWithdraws
  <2>3. WithdrawnHaveTargets'
    BY <1>1 DEF StandingInv, WithdrawnHaveTargets, OnlyWithdraws
  <2>4. WithdrawnStep BY <1>1 DEF WithdrawnStep, OnlyWithdraws
  <2> QED BY <2>2, <2>3, <2>4 DEF StandingInv
<1>2. CASE Tick BY <1>1, <1>2, TickOnlyWithdraws DEF StandingInv
<1>3. CASE Reload
  BY <1>3 DEF Reload, StandingInv, Standing, WithdrawnHaveTargets, WithdrawnStep,
              SettledTargets
<1>4. CASE UNCHANGED vars BY <1>1, <1>4 DEF vars, OnlyWithdraws
<1> QED BY <1>2, <1>3, <1>4 DEF Next

LEMMA StandingAlways == ASSUME SettledTargets PROVE Spec => []StandingInv
<1>1. Init => StandingInv
  BY DEF Init, StandingInv, Standing, WithdrawnHaveTargets, SettledTargets
<1>2. Inv /\ StandingInv /\ [Next]_vars => StandingInv' BY StandingStep
<1> QED BY <1>1, <1>2, SpecInv, PTL DEF Spec

\* A candidate that was withdrawn gives way to an incumbent, which stays one.
THEOREM TargetsStand == ASSUME SettledTargets PROVE Spec => []TargetIsIncumbent
<1>1. StandingInv => TargetIsIncumbent
  BY RegistryAssumption
     DEF StandingInv, Standing, WithdrawnHaveTargets, TargetIsIncumbent
<1> QED BY <1>1, StandingAlways, PTL

\* A candidate that was withdrawn does not come back before the bot is loaded
\* again.
THEOREM WithdrawalsLast == ASSUME SettledTargets PROVE Spec => WithdrawnStaysWithdrawn
<1>1. Inv /\ StandingInv /\ [Next]_vars => WithdrawnStep BY StandingStep
<1>2. WithdrawnStep =>
        \A e \in Entries : status[e] = "disabled" => status'[e] = "disabled" \/ Reload
  BY DEF WithdrawnStep
<1> QED
  BY <1>1, <1>2, SpecInv, StandingAlways, PTL DEF Spec, WithdrawnStaysWithdrawn

=============================================================================
