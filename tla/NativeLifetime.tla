---------------------------- MODULE NativeLifetime ----------------------------
(***************************************************************************)
(* What the bindings promise about RocksDB's natives, without wrappers,    *)
(* collector or mutex: a native is made once and destroyed at most once;   *)
(* an iterator is destroyed only while its database is open, unless the    *)
(* program asked for it; and only an iterator whose database went first    *)
(* may be given up instead.                                                *)
(***************************************************************************)
CONSTANTS Handle, Iterator

VARIABLES
    life,      \* "unborn", "open", "destroyed" or "leaked"
    parents,   \* the databases a native was made from
    asked      \* what the program has asked to be destroyed

lvars == <<life, parents, asked>>

LifeInit ==
    /\ life = [h \in Handle |-> "unborn"]
    /\ parents = [h \in Handle |-> {}]
    /\ asked = {}

Make(h) ==
    /\ life[h] = "unborn"
    /\ life' = [life EXCEPT ![h] = "open"]
    /\ \E S \in SUBSET Handle : parents' = [parents EXCEPT ![h] = S]
    /\ UNCHANGED asked

Ask(h) ==
    /\ life[h] # "unborn"
    /\ asked' = asked \cup {h}
    /\ UNCHANGED <<life, parents>>

Kill(h) ==
    /\ life[h] = "open"
    /\ h \in Iterator \ asked => \A d \in parents[h] : life[d] = "open"
    /\ life' = [life EXCEPT ![h] = "destroyed"]
    /\ UNCHANGED <<parents, asked>>

GiveUp(h) ==
    /\ life[h] = "open"
    /\ h \in Iterator
    /\ \A d \in parents[h] : life[d] = "destroyed"
    /\ life' = [life EXCEPT ![h] = "leaked"]
    /\ UNCHANGED <<parents, asked>>

LifeNext == \E h \in Handle : Make(h) \/ Ask(h) \/ Kill(h) \/ GiveUp(h)

Spec == LifeInit /\ [][LifeNext]_lvars
===============================================================================
