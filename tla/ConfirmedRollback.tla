------------------------- MODULE ConfirmedRollback -------------------------
(***************************************************************************)
(* What the in-game rollback of a strategy candidate promises: a candidate *)
(* is withdrawn when its family is reported twice, in two consecutive      *)
(* ticks, never earlier and never later, and a family that is not reported *)
(* in a tick starts again from nothing.                                    *)
(***************************************************************************)
CONSTANTS Families, Entries, FamilyOf, DefaultStatus

VARIABLES
  status,    \* the rollout status of every registry entry
  accused    \* families reported once, in the last tick

Init == status = DefaultStatus /\ accused = {}

Withdrawn(f) ==
  \E e \in Entries :
    /\ FamilyOf[e] = f
    /\ status[e] = "shadow" /\ status'[e] = "disabled"

Untouched(f) ==
  \A e \in Entries : FamilyOf[e] = f => status'[e] = status[e]

\* One tick of the game in which the families of reported regressed.
Tick(reported) ==
  /\ accused' = reported \ accused
  /\ status' \in [Entries -> {"incumbent", "shadow", "disabled", "retired"}]
  /\ \A f \in Families :
       IF f \in reported \cap accused THEN Withdrawn(f) ELSE Untouched(f)

\* The bot is loaded again: nothing is remembered.
Reload == status' = DefaultStatus /\ accused' = {}

Next == Reload \/ \E reported \in SUBSET Families : Tick(reported)

Spec == Init /\ [][Next]_<<status, accused>>
=============================================================================
