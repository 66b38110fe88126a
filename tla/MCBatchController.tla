------------------------- MODULE MCBatchController -------------------------
EXTENDS BatchController

CONSTANTS c1, c2
=============================================================================
