------------------------------ MODULE MCExchange ------------------------------
\* Instances of Exchange.
EXTENDS Exchange

CONSTANT r1

OneRequest == {r1}
AllHandlers == {"buffered", "forward", "adapter", "custom"}
OnlyForward == {"forward"}
===============================================================================
