--------------------------- MODULE MCPeripheralDma ---------------------------
EXTENDS PeripheralDma

CONSTANTS a1, a2

MCAddresses == {a1, a2}
==============================================================================
