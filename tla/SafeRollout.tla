---------------------------- MODULE SafeRollout ----------------------------
(***************************************************************************)
(* What the official deploy script promises about the bundle that plays    *)
(* the game, without its API calls, files and phases: one rollout at a     *)
(* time decides which bundle it wants live; only a wanted bundle ever      *)
(* becomes live; a bundle becomes healthy only while it is the live one;   *)
(* and a rollout that retreats may only want another, healthy bundle.      *)
(***************************************************************************)
CONSTANTS Bundles, Nothing

VARIABLES
  live,     \* the bundle the game server runs
  wanted,   \* the bundle the rollout in progress may put live, or Nothing
  healthy   \* bundles that passed a health gate while they were live

vars == <<live, wanted, healthy>>

Init ==
  /\ live \in Bundles
  /\ wanted = Nothing
  /\ healthy = {}

\* An operator asks for bundle b.
Request(b) ==
  /\ wanted = Nothing
  /\ wanted' = b
  /\ UNCHANGED <<live, healthy>>

\* The wanted bundle becomes live; if the reply was lost the rollout ends here.
GoLive ==
  /\ wanted # Nothing
  /\ live' = wanted
  /\ wanted' \in {wanted, Nothing}
  /\ UNCHANGED healthy

\* The gate judges the live bundle, and the rollout is over.
Prove ==
  /\ wanted # Nothing
  /\ live = wanted
  /\ healthy' = healthy \cup {live}
  /\ wanted' = Nothing
  /\ UNCHANGED live

\* The gate found the room dead: fall back to a bundle that was healthy.
Retreat(b) ==
  /\ wanted # Nothing
  /\ b \in healthy \ {wanted}
  /\ wanted' = b
  /\ UNCHANGED <<live, healthy>>

\* The rollout ends, by success without a gate, failure or a kill.
Finish ==
  /\ wanted # Nothing
  /\ wanted' = Nothing
  /\ UNCHANGED <<live, healthy>>

Next ==
  \/ \E b \in Bundles : Request(b) \/ Retreat(b)
  \/ GoLive
  \/ Prove
  \/ Finish

Spec == Init /\ [][Next]_vars
=============================================================================
