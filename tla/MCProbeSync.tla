---------------------------- MODULE MCProbeSync ----------------------------
EXTENDS ProbeSync
=============================================================================
