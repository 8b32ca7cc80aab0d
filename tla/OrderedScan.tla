----------------------------- MODULE OrderedScan -----------------------------
(***************************************************************************)
(* What a scan promises, without iterators, seeks or positions: it is begun *)
(* at a key and in a direction, over a set of keys that nobody changes      *)
(* while it lasts, and hands out the keys that lie ahead one by one in      *)
(* order until none is left.                                                *)
(***************************************************************************)
EXTENDS Integers, Sequences, FiniteSetsExt

CONSTANT Key    \* numbers

VARIABLES
    keys,    \* the keys the scan ranges over
    way,     \* "up", "down", or "none" when no scan is under way
    shown,   \* the keys handed out, in order
    ahead    \* the keys still to come

svars == <<keys, way, shown, ahead>>

Idle == way = "none" /\ shown = <<>> /\ ahead = {}

ScanInit == keys \subseteq Key /\ Idle

\* The next of S is handed out after those of before, if there is one.
HandOut(S, before) ==
    \/ /\ S = {}
       /\ shown' = before /\ ahead' = {}
    \/ /\ S # {}
       /\ LET k == IF way' = "up" THEN Min(S) ELSE Max(S)
          IN  shown' = Append(before, k) /\ ahead' = S \ {k}

Begin(k) ==
    /\ \/ way' = "up"   /\ HandOut({x \in keys : x >= k}, <<>>)
       \/ way' = "down" /\ HandOut({x \in keys : x <= k}, <<>>)
    /\ UNCHANGED keys

Advance ==
    /\ way # "none"
    /\ way' = way
    /\ HandOut(ahead, shown)
    /\ UNCHANGED keys

\* A program may give a scan up; only when none is under way does it see
\* another set of keys.
Abandon ==
    /\ Idle'
    /\ keys' \subseteq Key

ScanNext == Advance \/ Abandon \/ \E k \in Key : Begin(k)

Spec == ScanInit /\ [][ScanNext]_svars
==============================================================================
