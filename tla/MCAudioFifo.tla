------------------------------ MODULE MCAudioFifo ------------------------------
EXTENDS AudioFifo

MCItems == {0, 1}
================================================================================
