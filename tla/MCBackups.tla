------------------------------- MODULE MCBackups -------------------------------
EXTENDS Backups

\* With IntHalf = 4, 8 is 2^32 and 9 is 2^32 + 1.
Numbers == {-1, 0, 1, 2, 8, 9}
===============================================================================
