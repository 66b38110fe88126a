------------------------- MODULE MCSimulatorHarness -------------------------
EXTENDS SimulatorHarness

MCRuns == {"r1", "r2", "r3"}
MCRunId == [r \in MCRuns |-> IF r = "r2" THEN <<"exp", "r01">> ELSE <<"exp">>]
MCWorkers == [r \in MCRuns |-> IF r = "r1" THEN 2 ELSE 1]
MCVariants == [r \in MCRuns |-> IF r = "r1" THEN 2 ELSE 1]
MCBase == [r \in MCRuns |-> CASE r = "r1" -> 0 [] r = "r2" -> 1 [] r = "r3" -> 3]
MCWorkerToken == [w \in 0 .. 1 |-> <<"00", "01">>[w + 1]]
=============================================================================
