---------------------------- MODULE IteratorCursor ----------------------------
(***************************************************************************)
(* The cursor behind a rocksdb-iterator: where each binding of             *)
(* guile-rocksdb-iterator.h leaves it, what it answers when the cursor is  *)
(* off the end, and what a scan sees while others write to the database.   *)
(*                                                                         *)
(* Keys are numbers in the order of RocksDB's comparator.  An iterator     *)
(* reads the state of the database at its creation or last refresh, within *)
(* the iterate-lower-bound (inclusive) and iterate-upper-bound (exclusive) *)
(* of its read options.                                                    *)
(***************************************************************************)
EXTENDS Naturals, Sequences, FiniteSetsExt

CONSTANTS
    MaxKey,    \* keys are 1 .. MaxKey
    Value,     \* the values a program stores
    Absent,    \* what a missing key is mapped to
    MaxWrites  \* bound: writes after the iterator was created

ASSUME KeyAssumption == MaxKey \in Nat \ {0}
ASSUME ValueAssumption == Absent \notin Value
ASSUME WritesAssumption == MaxWrites \in Nat

Key     == 1 .. MaxKey
Invalid == 0                   \* the position of an iterator off the end
Store   == [Key -> Value \cup {Absent}]

VARIABLES
    store,   \* the database
    snap,    \* the state of it the iterator reads
    lower,   \* iterate-lower-bound
    upper,   \* iterate-upper-bound
    pos,     \* the key the iterator stands on, or Invalid
    misused, \* natives called off the end, which RocksDB leaves undefined
    scan,    \* how the program last placed the iterator, and which way it went
    path,    \* the keys it has stood on since
    writes   \* how many writes there have been

db     == <<store, writes>>
opened == <<snap, lower, upper>>
cursor == <<pos, misused, scan, path>>
vars   == <<db, opened, cursor>>

Scan == [from : {"nowhere", "first", "last", "seek", "seek-for-prev"},
         key : 0 .. MaxKey, dir : {"none", "forward", "backward", "mixed"}]

TypeOK ==
    /\ store \in Store /\ snap \in Store
    /\ lower \in Key /\ upper \in 1 .. MaxKey + 1
    /\ pos \in Key \cup {Invalid}
    /\ misused \subseteq {"next", "prev", "key", "value", "key-unsafe", "value-unsafe"}
    /\ scan \in Scan
    /\ path \in Seq(Key)
    /\ writes \in 0 .. MaxWrites

-------------------------------------------------------------------------------
(* RocksDB's iterator *)

\* The keys an iterator can stand on.
Visible == {k \in lower .. upper - 1 : k \in Key /\ snap[k] # Absent}

Least(S)    == IF S = {} THEN Invalid ELSE Min(S)
Greatest(S) == IF S = {} THEN Invalid ELSE Max(S)

NativeFirst        == Least(Visible)
NativeLast         == Greatest(Visible)
NativeSeek(k)      == Least({v \in Visible : v >= k})
NativeSeekPrev(k)  == Greatest({v \in Visible : v <= k})
NativeNext         == Least({v \in Visible : v > pos})
NativePrev         == Greatest({v \in Visible : v < pos})

\* Any database, any bounds: an iterator fresh from rocksdb-create-iterator
\* stands nowhere.
Init ==
    /\ store \in Store
    /\ snap = store
    /\ lower \in Key
    /\ upper \in 1 .. MaxKey + 1
    /\ pos = Invalid
    /\ misused = {}
    /\ scan = [from |-> "nowhere", key |-> 0, dir |-> "none"]
    /\ path = <<>>
    /\ writes = 0

-------------------------------------------------------------------------------
(* The bindings *)

\* A placement of the cursor.  A binding that seeks answers #t wherever the
\* native lands.
Place(from, k, p) ==
    /\ pos' = p
    /\ scan' = [from |-> from, key |-> k, dir |-> "none"]
    /\ path' = IF p = Invalid THEN <<>> ELSE <<p>>
    /\ UNCHANGED <<db, opened, misused>>

SeekToFirst == Place("first", 0, NativeFirst)

\* grocksdb_iter_seek_to_last calls rocksdb_iter_seek_to_first.
SeekToLast == Place("last", 0, NativeFirst)

Seek(k) == Place("seek", k, NativeSeek(k))

\* Mutant: the native of seek is called.
SeekForPrevCallsSeek(k) == Place("seek-for-prev", k, NativeSeek(k))
SeekForPrev(k) == Place("seek-for-prev", k, NativeSeekPrev(k))

\* Mutant: the validity test is left out of ASSERT_ITER.
AssertNothing == TRUE
\* ASSERT_ITER goes on only with a valid iterator; the call answers #f and
\* changes nothing otherwise.
AssertIter == pos # Invalid

\* The way the program has gone since it placed the cursor.
Turn(dir) == IF scan.dir \in {"none", dir} THEN dir ELSE "mixed"

\* The native move op, to p: undefined off the end, where it may land anywhere
\* the iterator can stand.
Move(op, p, dir) ==
    /\ misused' = IF pos = Invalid THEN misused \cup {op} ELSE misused
    /\ pos' \in IF pos = Invalid THEN Visible \cup {Invalid} ELSE {p}
    /\ scan' = [scan EXCEPT !.dir = Turn(dir)]
    /\ path' = IF pos' = Invalid THEN path ELSE Append(path, pos')
    /\ UNCHANGED <<db, opened>>

\* Mutant: rocksdb-iter-next! moves the native twice.
NextTwice ==
    AssertIter /\ LET p == NativeNext
                  IN  Move("next", Least({v \in Visible : v > p /\ p # Invalid}), "forward")
\* Mutant: next goes to the next number, a key or not.
NextNumber == AssertIter /\ Move("next", pos + 1, "forward")
StepNext == AssertIter /\ Move("next", NativeNext, "forward")

\* Mutant: the slip of seek-to-last once more, prev calls the native of next.
PrevCallsNext == AssertIter /\ Move("prev", NativeNext, "backward")
StepPrev == AssertIter /\ Move("prev", NativePrev, "backward")

\* The native read op gives what the iterator stands on, undefined off the end;
\* it moves nothing.
Read(op) ==
    /\ misused' = IF pos = Invalid THEN misused \cup {op} ELSE misused
    /\ UNCHANGED <<db, opened, pos, scan, path>>

ReadKey   == AssertIter /\ Read("key")
ReadValue == AssertIter /\ Read("value")

\* rocksdb-iter-key-unsafe has a validity test of its own,
KeyUnsafe == pos # Invalid /\ Read("key-unsafe")
\* rocksdb-iter-value-unsafe has none.
ValueUnsafe == Read("value-unsafe")

\* Mutant: the cursor is put back on the key it stood on, as if the scan could
\* go on.
RefreshKeepsPlace ==
    /\ snap' = store
    /\ UNCHANGED <<db, lower, upper, cursor>>
\* Refresh takes the present state of the database and leaves the cursor
\* nowhere.  Where it fails it changes nothing and answers (values #f message).
Refresh ==
    /\ snap' = store
    /\ pos' = Invalid
    /\ scan' = [from |-> "nowhere", key |-> 0, dir |-> "none"]
    /\ path' = <<>>
    /\ UNCHANGED <<db, lower, upper, misused>>

-------------------------------------------------------------------------------
(* Writers of the database, on this thread or another *)

Write(k, v) ==
    /\ writes < MaxWrites
    /\ store' = [store EXCEPT ![k] = v]
    /\ writes' = writes + 1
    /\ UNCHANGED <<opened, cursor>>

Put(k, v) == Write(k, v)
Delete(k) == Write(k, Absent)

-------------------------------------------------------------------------------
Next ==
    \/ SeekToFirst \/ SeekToLast
    \/ \E k \in Key : Seek(k) \/ SeekForPrev(k)
    \/ StepNext \/ StepPrev
    \/ ReadKey \/ ReadValue \/ KeyUnsafe \/ ValueUnsafe
    \/ Refresh
    \/ \E k \in Key : Delete(k) \/ \E v \in Value : Put(k, v)

Spec == Init /\ [][Next]_vars

-------------------------------------------------------------------------------
(* Properties *)

Ascends  == \A i, j \in DOMAIN path : i < j => path[i] < path[j]
Descends == \A i, j \in DOMAIN path : i < j => path[i] > path[j]

\* A forward scan - seek-to-first! or seek!, then only next! - stands on every
\* key the iterator can see from there to where it is, and to the end once it
\* is off the end, each once and in order, whatever other calls read and
\* whoever writes to the database meanwhile.
ForwardScanIsComplete ==
    scan.from \in {"first", "seek"} /\ scan.dir \in {"none", "forward"} =>
        /\ Ascends
        /\ Range(path) = {k \in Visible : k >= scan.key /\ (pos # Invalid => k <= pos)}

\* The same backwards, from seek-for-prev! and by prev! alone.
BackwardScanIsComplete ==
    scan.from = "seek-for-prev" /\ scan.dir \in {"none", "backward"} =>
        /\ Descends
        /\ Range(path) = {k \in Visible : k <= scan.key /\ k >= pos}

\* The scan the program is in, if it is a plain one: begun by a seek and gone on
\* with in the one direction.
Way ==
    CASE scan.from \in {"first", "seek"} /\ scan.dir \in {"none", "forward"} -> "up"
      [] scan.from = "seek-for-prev" /\ scan.dir \in {"none", "backward"} -> "down"
      [] OTHER -> "none"
Shown == IF Way = "none" THEN <<>> ELSE path
ToCome ==
    CASE pos = Invalid \/ Way = "none" -> {}
      [] pos # Invalid /\ Way = "up"   -> {k \in Visible : k > pos}
      [] pos # Invalid /\ Way = "down" -> {k \in Visible : k < pos}

Ordered == INSTANCE OrderedScan WITH
    Key <- 0 .. MaxKey, keys <- Visible, way <- Way, shown <- Shown, ahead <- ToCome

\* The cursor implements an ordered scan: once begun, every move hands out the
\* next key in the direction of the scan, reads and writes of anybody change
\* nothing of what is still to come, and nothing but a seek begins another.
ImplementsOrderedScan == Ordered!Spec

\* A program that turns round on a forward scan meets the key it just left.
TurningBackRevisits ==
    [][StepPrev /\ scan.dir = "forward" /\ Len(path) > 1 /\ pos # Invalid =>
         pos' = path[Len(path) - 1]]_vars

\* Of the bindings only rocksdb-iter-value-unsafe ever moves or reads a native
\* iterator that is off the end.
OnlyValueUnsafeMisuses == misused \subseteq {"value-unsafe"}

\* rocksdb-iter-seek-to-last! places the iterator on the last key: the test
\* "reverse iteration" starts from there and counts down.
SeekToLastIsLast == scan.from = "last" /\ scan.dir = "none" => pos = NativeLast
===============================================================================
