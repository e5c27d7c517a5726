-------------------------- MODULE MCProbeLifecycle --------------------------
EXTENDS ProbeLives
=============================================================================
