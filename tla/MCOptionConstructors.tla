------------------------- MODULE MCOptionConstructors -------------------------
EXTENDS OptionConstructors

\* int is -4 .. 3, uint32_t 0 .. 7 and size_t 0 .. 31: below every range,
\* negative, ordinary, and just above int, uint32_t and size_t.
Numbers == {-5, -1, 3, 4, 9, 32}
===============================================================================
