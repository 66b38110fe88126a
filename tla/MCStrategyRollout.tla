------------------------- MODULE MCStrategyRollout -------------------------
(***************************************************************************)
(* The two families of DEFAULT_STRATEGY_REGISTRY that have a candidate,    *)
(* each with its incumbent and its shadow entry.                           *)
(***************************************************************************)
EXTENDS StrategyRollout, TLC

CONSTANTS
  construction, remote,
  constructionIncumbent, constructionShadow, remoteIncumbent, remoteShadow,
  tuned,   \* an id that is not in the registry
  Good, Worst  \* territory scores of the windows

MCFamilies == {construction, remote}
MCOneFamily == {construction}
MCOrder == <<constructionIncumbent, constructionShadow, remoteIncumbent, remoteShadow>>
MCShortOrder == SubSeq(MCOrder, 1, 2)
MCEntries == {MCOrder[i] : i \in 1 .. 4}
MCTwoEntries == {MCOrder[i] : i \in 1 .. 2}

MCFamilyOf == [e \in Entries |->
  IF e \in {constructionIncumbent, constructionShadow} THEN construction ELSE remote]
MCDefaultStatus == [e \in Entries |->
  IF e \in {constructionShadow, remoteShadow} THEN "shadow" ELSE "incumbent"]
MCRollbackTo == [e \in Entries |->
  IF e \in {constructionIncumbent, constructionShadow}
  THEN constructionIncumbent ELSE remoteIncumbent]

\* A policy tuned from the incumbent, with an id of its own.
MCTuned == [family |-> construction, variant |-> tuned, ids |-> {tuned, constructionIncumbent}]
\* The shadow entry itself.
MCShadow == [family |-> construction, variant |-> constructionShadow, ids |-> {constructionShadow}]
\* A whole family.
MCWhole == [family |-> remote, variant |-> None, ids |-> {}]
\* A shadow entry with the family of another: both families are monitored.
MCMixed == [family |-> remote, variant |-> constructionShadow, ids |-> {constructionShadow}]

MCAllPayloads == {None, MCTuned, MCShadow, MCWhole, MCMixed}
MCMixedPayloads == {MCTuned, MCMixed}
MCConstructionPayloads == {None, MCTuned, MCShadow}

MCMetrics == {"reliability", "territory"}
MCWindows == {[reliability |-> 1, territory |-> t] : t \in {Good, Worst}}
MCWideWindows == [reliability : {0, 1}, territory : {Good, Worst}]
MCThreshold == [m \in Metrics |-> IF m = "reliability" THEN 10 ELSE 50]
=============================================================================
