------------------------------ MODULE MCGoHandler ------------------------------
\* An instance of GoHandler.
EXTENDS GoHandler

CONSTANTS r1, r2

TwoRequests == {r1, r2}
===============================================================================
