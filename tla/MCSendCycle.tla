---------------------------- MODULE MCSendCycle ----------------------------
EXTENDS SendCycle

CONSTANTS t1, t2
MCOrder == <<t1, t2>>
=============================================================================
