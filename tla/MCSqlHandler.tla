---------------------------- MODULE MCSqlHandler ----------------------------
EXTENDS SqlHandler
=============================================================================
