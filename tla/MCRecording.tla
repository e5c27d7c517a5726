---------------------------- MODULE MCRecording ----------------------------
EXTENDS Recording

CONSTANTS a, b
MCLists == {<<{a}>>, <<{a, b}>>, <<{b}, {a}>>}
=============================================================================
