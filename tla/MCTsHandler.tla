------------------------------ MODULE MCTsHandler ------------------------------
\* An instance of TsHandler.
EXTENDS TsHandler

CONSTANTS r1, r2

TwoRequests == {r1, r2}
===============================================================================
