---------------------------- MODULE PaidCapacity ----------------------------
(***************************************************************************)
(* What the batch runner promises about paid compute: money is spent only  *)
(* while some run still has to give the capacity back, and a run that      *)
(* cannot give it back says so before it is gone.                          *)
(***************************************************************************)
CONSTANT Runs

VARIABLES
  paying,    \* the scaling group costs money, or is about to
  debtors,   \* runs that have yet to see the group empty
  declared   \* runs that ended without seeing it, on record

Init == paying = FALSE /\ debtors = {} /\ declared = {}

\* The run goes on to use the group, or to empty it.
Open(r) ==
  /\ debtors' = debtors \cup {r}
  /\ UNCHANGED <<paying, declared>>

Pay ==
  /\ debtors \cup declared # {}
  /\ paying' = TRUE
  /\ UNCHANGED <<debtors, declared>>

Stop ==
  /\ paying' = FALSE
  /\ UNCHANGED <<debtors, declared>>

\* The run has seen the group empty: whatever it costs from now on is the
\* doing of another run.
Settle(r) ==
  /\ paying => (debtors \ {r}) \cup declared # {}
  /\ debtors' = debtors \ {r}
  /\ UNCHANGED <<paying, declared>>

\* The run gives up, on record; its last call may have worked all the same.
Declare(r) ==
  /\ declared' = declared \cup {r}
  /\ debtors' \in {debtors, debtors \ {r}}
  /\ paying' \in {paying, FALSE}

Next == \/ Pay \/ Stop
        \/ \E r \in Runs : Open(r) \/ Settle(r) \/ Declare(r)

Spec == Init /\ [][Next]_<<paying, debtors, declared>>

\* Nobody pays for capacity that no run answers for.
Accounted == paying => debtors \cup declared # {}
=============================================================================
