------------------------------ MODULE MCOptionFlow ------------------------------
EXTENDS OptionFlow, TLC

CONSTANTS create, buffer, levels

\* Two values for a setting that can be changed, one for each that cannot, and
\* an element that is no pair of strings.
Pairs == {<<buffer, 0>>, <<buffer, 1>>, <<levels, 1>>, <<create, 1>>, NULL}

OptSymmetry == Permutations(Opt)
===============================================================================
