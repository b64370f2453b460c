------------------------------ MODULE MCHyDFS ------------------------------
EXTENDS HyDFS
============================================================================
