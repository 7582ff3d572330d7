---------------------------- MODULE MCMonoBridge ----------------------------
EXTENDS MonoBridge
=============================================================================
