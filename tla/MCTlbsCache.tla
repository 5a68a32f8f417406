---------------------------- MODULE MCTlbsCache ----------------------------
EXTENDS TlbsCache, TLC
=============================================================================
