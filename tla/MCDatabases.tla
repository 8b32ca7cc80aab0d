------------------------------ MODULE MCDatabases ------------------------------
EXTENDS Databases, TLC

\* Handles of column families are interchangeable: no liveness is about them.
CfSymmetry == Permutations(Cf)
===============================================================================
