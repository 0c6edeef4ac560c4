--------------------------- MODULE MCAudioInterface ---------------------------
EXTENDS AudioInterface

MCAddresses == {0, 2, 4, 6}
MCLengths == {0, 2, 6}
===============================================================================
