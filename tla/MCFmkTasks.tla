----------------------------- MODULE MCFmkTasks -----------------------------
EXTENDS FmkTaskPool
=============================================================================
