----------------------------- MODULE DurableStore -----------------------------
(***************************************************************************)
(* What a program may rely on that keeps its data through the bindings,    *)
(* without handles, locks, logs or files: a write that returned is what    *)
(* the store holds; a restart gives back one of the values a key may hold; *)
(* only writes that were not logged leave more than one, and closing the   *)
(* database settles those too.                                             *)
(***************************************************************************)
CONSTANTS Dir, Family, Key, Value, NULL

VARIABLES
    content,   \* what each family of each directory holds
    possible   \* what it may hold after a restart

svars == <<content, possible>>

\* Nothing is left to chance in what f holds.
Certain(f) == [n \in Family |-> [k \in Key |-> {f[n][k]}]]

StoreInit ==
    /\ content = [dir \in Dir |-> [n \in Family |-> [k \in Key |-> NULL]]]
    /\ possible = [dir \in Dir |-> Certain(content[dir])]

\* One write: some keys of one family get one value, or none.
Store(dir, n, K, v, logged) ==
    /\ content' = [content EXCEPT ![dir][n] = [k \in Key |-> IF k \in K THEN v ELSE @[k]]]
    /\ possible' = [possible EXCEPT ![dir][n] =
                      [k \in Key |-> IF k \notin K THEN @[k]
                                     ELSE IF logged THEN {v} ELSE @[k] \cup {v}]]

Settle(dir) ==
    /\ possible' = [possible EXCEPT ![dir] = Certain(content[dir])]
    /\ UNCHANGED content

Restart ==
    /\ \A dir \in Dir, n \in Family, k \in Key : content'[dir][n][k] \in possible[dir][n][k]
    /\ possible' = [dir \in Dir |-> Certain(content'[dir])]

StoreNext ==
    \/ \E dir \in Dir : Settle(dir)
    \/ \E dir \in Dir, n \in Family, K \in SUBSET Key, v \in Value \cup {NULL},
          logged \in BOOLEAN : Store(dir, n, K, v, logged)
    \/ Restart
===============================================================================
