--------------------------- MODULE MCIteratorCursor ---------------------------
EXTENDS IteratorCursor

\* Bound: a program that goes to and fro makes at most this many moves between
\* two placements of the cursor.
MaxPath == 4
ShortPath == Len(path) <= MaxPath
===============================================================================
