------------------------- MODULE IteratorCursorProofs -------------------------
(***************************************************************************)
(* Proofs about IteratorCursor, for any number of keys, any values, any    *)
(* bounds of the iterator and any number of writes.                        *)
(***************************************************************************)
EXTENDS IteratorCursor, SetBounds, TLAPS

-------------------------------------------------------------------------------
(* Where the natives land *)

\* Where the natives of seek-to-first!, seek! and next! land.
LEMMA LeastIsLeast ==
    ASSUME NEW S \in SUBSET Key
    PROVE  \/ S = {} /\ Least(S) = Invalid
           \/ Least(S) \in S /\ \A y \in S : Least(S) <= y
<1>1. CASE S = {}
  BY <1>1 DEF Least
<1>2. CASE S # {}
  <2>1. S \in SUBSET Nat
    BY KeyAssumption DEF Key
  <2> QED BY <1>2, <2>1, MinIsLeast DEF Least
<1> QED BY <1>1, <1>2

\* Where those of seek-for-prev! and prev! land.
LEMMA GreatestIsGreatest ==
    ASSUME NEW S \in SUBSET Key
    PROVE  \/ S = {} /\ Greatest(S) = Invalid
           \/ Greatest(S) \in S /\ \A y \in S : Greatest(S) >= y
<1>1. CASE S = {}
  BY <1>1 DEF Greatest
<1>2. CASE S # {}
  <2>1. S \in SUBSET (0 .. MaxKey) /\ MaxKey \in Nat
    BY KeyAssumption DEF Key
  <2> QED BY <1>2, <2>1, MaxIsGreatest DEF Greatest
<1> QED BY <1>1, <1>2

-------------------------------------------------------------------------------
(* The inductive invariant *)

\* The cursor stands on the key it reached last, which the iterator can see.
OnPath ==
    /\ pos # Invalid => path # <<>> /\ pos = path[Len(path)] /\ pos \in Visible
    /\ scan.from = "nowhere" => path = <<>>
    /\ path = <<>> => scan.dir = "none"

\* A cursor that has only gone forward since it was placed has met everything
\* between its first key and where it is.
ForwardRun ==
    path # <<>> /\ scan.dir \in {"none", "forward"} =>
        /\ Ascends
        /\ Range(path) = {k \in Visible : k >= path[1] /\ (pos # Invalid => k <= pos)}

\* The same for one that has only gone backward.
BackwardRun ==
    path # <<>> /\ scan.dir \in {"none", "backward"} =>
        /\ Descends
        /\ Range(path) = {k \in Visible : k <= path[1] /\ k >= pos}

\* seek-to-first! and seek! placed it on the first key from scan.key on, or
\* there was none; seek-for-prev! on the last one up to it.
StartedRight ==
    /\ scan.from \in {"first", "seek"} =>
         \A k \in Visible : k >= scan.key => path # <<>> /\ path[1] <= k
    /\ scan.from \in {"first", "seek"} /\ path # <<>> => path[1] >= scan.key
    /\ scan.from = "seek-for-prev" =>
         \A k \in Visible : k <= scan.key => path # <<>> /\ path[1] >= k
    /\ scan.from = "seek-for-prev" /\ path # <<>> => path[1] <= scan.key

IInv ==
    TypeOK /\ OnPath /\ ForwardRun /\ BackwardRun /\ StartedRight
           /\ OnlyValueUnsafeMisuses

\* An iterator sees keys only, and the same ones until it is refreshed.
LEMMA VisibleKeys ==
    /\ Visible \in SUBSET Key
    /\ UNCHANGED opened => Visible' = Visible
    /\ \A k \in Key : k \in Nat /\ k # Invalid /\ k \in 0 .. MaxKey
BY KeyAssumption DEF Visible, opened, Key, Invalid

\* What one more key on the path changes.
LEMMA PathGrows ==
    ASSUME NEW p \in Key, TypeOK, path' = Append(path, p)
    PROVE  /\ path' \in Seq(Key) /\ path' # <<>>
           /\ Len(path') = Len(path) + 1 /\ Len(path) \in Nat
           /\ path'[Len(path')] = p
           /\ \A i \in DOMAIN path : path'[i] = path[i] /\ path[i] \in Key
           /\ DOMAIN path = 1 .. Len(path) /\ DOMAIN path' = 1 .. Len(path')
           /\ path # <<>> => Len(path) # 0 /\ path'[1] = path[1] /\ path[1] \in Key
           /\ Range(path') = Range(path) \cup {p}
<1>1. path \in Seq(Key)
  BY DEF TypeOK
<1>2. /\ path' \in Seq(Key) /\ path' # <<>>
      /\ Len(path') = Len(path) + 1 /\ Len(path) \in Nat
      /\ path'[Len(path')] = p
      /\ \A i \in 1 .. Len(path) : path'[i] = path[i] /\ path[i] \in Key
      /\ DOMAIN path = 1 .. Len(path) /\ DOMAIN path' = 1 .. Len(path')
  BY <1>1
<1>3. path # <<>> => Len(path) # 0
  BY <1>1
<1>4. Range(path') = Range(path) \cup {p}
  <2>1. \A i \in 1 .. Len(path') : i = Len(path') \/ i \in 1 .. Len(path)
    BY <1>2
  <2>2. Len(path') \in 1 .. Len(path') /\ \A i \in 1 .. Len(path) : i \in 1 .. Len(path')
    BY <1>2
  <2> QED BY <1>2, <2>1, <2>2 DEF Range
<1> QED BY <1>2, <1>3, <1>4

\* An iterator that is placed nowhere satisfies it.
LEMMA InvInit == Init => IInv
<1> SUFFICES ASSUME Init PROVE IInv
  OBVIOUS
<1>1. TypeOK
  BY KeyAssumption, WritesAssumption DEF Init, TypeOK, Scan, Key, Invalid
<1> QED
  BY <1>1 DEF Init, IInv, OnPath, ForwardRun, BackwardRun, StartedRight,
     OnlyValueUnsafeMisuses, Invalid

\* The seeks, each landing where its native puts it.
LEMMA PlaceStep ==
    ASSUME IInv, NEW from \in {"first", "last", "seek", "seek-for-prev"}, NEW k \in 0 .. MaxKey,
           NEW p \in Visible \cup {Invalid}, Place(from, k, p),
           from \in {"first", "seek"} =>
             /\ p = Invalid => \A v \in Visible : ~ (v >= k)
             /\ p # Invalid => p >= k /\ \A v \in Visible : v >= k => p <= v,
           from = "seek-for-prev" =>
             /\ p = Invalid => \A v \in Visible : ~ (v <= k)
             /\ p # Invalid => p <= k /\ \A v \in Visible : v <= k => p >= v
    PROVE  IInv'
<1> USE VisibleKeys
<1>1. /\ pos' = p /\ scan' = [from |-> from, key |-> k, dir |-> "none"]
      /\ UNCHANGED <<store, snap, lower, upper, misused, writes>>
      /\ Visible' = Visible
  BY DEF Place, db, opened
<1>2. CASE p = Invalid
  <2>1. path' = <<>>
    BY <1>2 DEF Place
  <2>2. TypeOK'
    BY <1>1, <1>2, <2>1 DEF IInv, TypeOK, Scan
  <2> QED
    BY <1>1, <1>2, <2>1, <2>2 DEF IInv, OnPath, ForwardRun, BackwardRun, StartedRight,
       OnlyValueUnsafeMisuses
<1>3. CASE p # Invalid
  <2>1. /\ path' = <<p>> /\ path' # <<>> /\ p \in Key /\ Len(path') = 1 /\ path'[1] = p
        /\ DOMAIN path' = {1} /\ path' \in Seq(Key)
    BY <1>3 DEF Place
  <2>2. TypeOK'
    BY <1>1, <2>1 DEF IInv, TypeOK, Scan
  <2>3. Range(path') = {p} /\ Ascends' /\ Descends'
    BY <2>1 DEF Range, Ascends, Descends
  <2>4. /\ {v \in Visible : v >= p /\ v <= p} = {p}
        /\ {v \in Visible : v <= p /\ v >= p} = {p}
    BY <1>3
  <2>5. ForwardRun' /\ BackwardRun'
    BY <1>1, <1>3, <2>1, <2>3, <2>4 DEF ForwardRun, BackwardRun
  <2>6. OnPath' /\ StartedRight'
    BY <1>1, <1>3, <2>1 DEF OnPath, StartedRight
  <2> QED
    BY <1>1, <2>2, <2>5, <2>6 DEF IInv, OnlyValueUnsafeMisuses
<1> QED BY <1>2, <1>3

\* Where the cursor goes when a move is called on a valid iterator.
LEMMA MoveShape ==
    ASSUME IInv, AssertIter, NEW op, NEW p \in Visible \cup {Invalid},
           NEW dir \in {"forward", "backward"}, Move(op, p, dir)
    PROVE  /\ pos' = p /\ scan' = [scan EXCEPT !.dir = Turn(dir)]
           /\ scan'.from = scan.from /\ scan'.key = scan.key /\ scan'.dir = Turn(dir)
           /\ path' = IF p = Invalid THEN path ELSE Append(path, p)
           /\ path # <<>> /\ path' # <<>> /\ path'[1] = path[1]
           /\ path \in Seq(Key) /\ pos \in Visible /\ pos = path[Len(path)]
           /\ UNCHANGED <<store, snap, lower, upper, misused, writes>>
           /\ Visible' = Visible
           /\ TypeOK' /\ OnPath' /\ StartedRight'
<1> USE VisibleKeys
<1>1. /\ pos' = p /\ scan' = [scan EXCEPT !.dir = Turn(dir)]
      /\ path' = IF p = Invalid THEN path ELSE Append(path, p)
      /\ UNCHANGED <<store, snap, lower, upper, misused, writes>>
      /\ Visible' = Visible
  BY DEF Move, AssertIter, db, opened
<1>2. /\ path # <<>> /\ path \in Seq(Key) /\ pos \in Visible /\ pos = path[Len(path)]
      /\ scan \in Scan /\ TypeOK
  BY DEF IInv, OnPath, AssertIter, TypeOK
<1>3. Turn(dir) \in {"none", "forward", "backward", "mixed"}
  BY DEF Turn
<1>4. /\ scan'.from = scan.from /\ scan'.key = scan.key /\ scan'.dir = Turn(dir)
      /\ scan' \in Scan
  BY <1>1, <1>2, <1>3 DEF Scan
<1>5. /\ path' # <<>> /\ path'[1] = path[1] /\ path' \in Seq(Key)
      /\ p # Invalid => path'[Len(path')] = p
  BY <1>1, <1>2, PathGrows
<1>6. TypeOK'
  BY <1>1, <1>2, <1>4, <1>5 DEF TypeOK
<1>7. OnPath' /\ StartedRight'
  BY <1>1, <1>2, <1>4, <1>5 DEF IInv, OnPath, StartedRight
<1> QED BY <1>1, <1>2, <1>4, <1>5, <1>6, <1>7

\* rocksdb-iter-next! goes to the next key, or off the end after the last.
LEMMA NextStep == IInv /\ StepNext => IInv'
<1> SUFFICES ASSUME IInv, StepNext PROVE IInv'
  OBVIOUS
<1> USE VisibleKeys
<1> DEFINE p == NativeNext
<1>1. \/ p = Invalid /\ \A v \in Visible : ~ (v > pos)
      \/ p \in Visible /\ p > pos /\ \A v \in Visible : v > pos => p <= v
  <2>1. {v \in Visible : v > pos} \in SUBSET Key
    OBVIOUS
  <2> QED BY <2>1, LeastIsLeast DEF NativeNext
<1> HIDE DEF p
<1>2. AssertIter /\ p \in Visible \cup {Invalid} /\ Move("next", p, "forward")
  BY <1>1 DEF StepNext, p
<1>3. /\ pos' = p /\ scan'.dir = Turn("forward")
      /\ path' = IF p = Invalid THEN path ELSE Append(path, p)
      /\ path # <<>> /\ path' # <<>> /\ path'[1] = path[1]
      /\ path \in Seq(Key) /\ pos \in Visible /\ pos = path[Len(path)]
      /\ UNCHANGED <<misused>> /\ Visible' = Visible
      /\ TypeOK' /\ OnPath' /\ StartedRight'
  BY <1>2, MoveShape
<1>4. ForwardRun'
  <2> SUFFICES ASSUME Turn("forward") = "forward"
               PROVE  /\ Ascends'
                      /\ Range(path') =
                           {k \in Visible : k >= path[1] /\ (p # Invalid => k <= p)}
    BY <1>3 DEF ForwardRun, Turn
  <2>1. /\ Ascends
        /\ Range(path) = {k \in Visible : k >= path[1] /\ k <= pos}
    BY <1>3 DEF IInv, ForwardRun, Turn
  <2>2. CASE p = Invalid
    BY <1>1, <1>3, <2>1, <2>2 DEF Ascends
  <2>3. CASE p # Invalid
    <3>1. /\ DOMAIN path = 1 .. Len(path) /\ DOMAIN path' = 1 .. Len(path) + 1
          /\ Len(path) \in Nat /\ path'[Len(path) + 1] = p
          /\ \A i \in DOMAIN path : path'[i] = path[i] /\ path[i] \in Key
          /\ Range(path') = Range(path) \cup {p} /\ path[1] \in Key /\ Len(path) # 0
      BY <1>1, <1>3, <2>3, PathGrows DEF IInv
    <3>2. \A i \in DOMAIN path : path[i] < p
      <4>1. \A i \in DOMAIN path : path[i] <= pos
        BY <1>3, <2>1, <3>1 DEF Range
      <4> QED BY <1>1, <1>3, <2>3, <3>1, <4>1
    <3>3. Ascends'
      BY <2>1, <3>1, <3>2 DEF Ascends
    <3>4. path[1] <= p
      <4>1. 1 \in DOMAIN path /\ p \in Nat
        BY <1>1, <2>3, <3>1
      <4> QED BY <3>1, <3>2, <4>1
    <3>5. {k \in Visible : k >= path[1] /\ k <= p}
            = {k \in Visible : k >= path[1] /\ k <= pos} \cup {p}
      BY <1>1, <1>3, <2>3, <3>1, <3>4
    <3> QED BY <2>1, <2>3, <3>1, <3>3, <3>5
  <2> QED BY <2>2, <2>3
<1>5. BackwardRun'
  BY <1>3 DEF BackwardRun, Turn
<1> QED BY <1>3, <1>4, <1>5 DEF IInv, OnlyValueUnsafeMisuses

\* rocksdb-iter-prev! goes to the previous key, or off the end before the first.
LEMMA PrevStep == IInv /\ StepPrev => IInv'
<1> SUFFICES ASSUME IInv, StepPrev PROVE IInv'
  OBVIOUS
<1> USE VisibleKeys
<1> DEFINE p == NativePrev
<1>1. \/ p = Invalid /\ \A v \in Visible : ~ (v < pos)
      \/ p \in Visible /\ p < pos /\ \A v \in Visible : v < pos => p >= v
  <2>1. {v \in Visible : v < pos} \in SUBSET Key
    OBVIOUS
  <2> QED BY <2>1, GreatestIsGreatest DEF NativePrev
<1> HIDE DEF p
<1>2. AssertIter /\ p \in Visible \cup {Invalid} /\ Move("prev", p, "backward")
  BY <1>1 DEF StepPrev, p
<1>3. /\ pos' = p /\ scan'.dir = Turn("backward")
      /\ path' = IF p = Invalid THEN path ELSE Append(path, p)
      /\ path # <<>> /\ path' # <<>> /\ path'[1] = path[1]
      /\ path \in Seq(Key) /\ pos \in Visible /\ pos = path[Len(path)]
      /\ UNCHANGED <<misused>> /\ Visible' = Visible
      /\ TypeOK' /\ OnPath' /\ StartedRight'
  BY <1>2, MoveShape
<1>4. BackwardRun'
  <2> SUFFICES ASSUME Turn("backward") = "backward"
               PROVE  /\ Descends'
                      /\ Range(path') = {k \in Visible : k <= path[1] /\ k >= p}
    BY <1>3 DEF BackwardRun, Turn
  <2>1. /\ Descends
        /\ Range(path) = {k \in Visible : k <= path[1] /\ k >= pos}
    BY <1>3 DEF IInv, BackwardRun, Turn
  <2>2. CASE p = Invalid
    <3>1. {k \in Visible : k <= path[1] /\ k >= pos} = {k \in Visible : k <= path[1] /\ k >= p}
      BY <1>1, <1>3, <2>2 DEF Invalid
    <3> QED BY <1>3, <2>1, <2>2, <3>1 DEF Descends
  <2>3. CASE p # Invalid
    <3>1. /\ DOMAIN path = 1 .. Len(path) /\ DOMAIN path' = 1 .. Len(path) + 1
          /\ Len(path) \in Nat /\ path'[Len(path) + 1] = p
          /\ \A i \in DOMAIN path : path'[i] = path[i] /\ path[i] \in Key
          /\ Range(path') = Range(path) \cup {p} /\ path[1] \in Key /\ Len(path) # 0
      BY <1>1, <1>3, <2>3, PathGrows DEF IInv
    <3>2. \A i \in DOMAIN path : path[i] > p
      <4>1. \A i \in DOMAIN path : path[i] >= pos
        BY <1>3, <2>1, <3>1 DEF Range
      <4> QED BY <1>1, <1>3, <2>3, <3>1, <4>1
    <3>3. Descends'
      BY <2>1, <3>1, <3>2 DEF Descends
    <3>4. path[1] >= p
      <4>1. 1 \in DOMAIN path /\ p \in Nat
        BY <1>1, <2>3, <3>1
      <4> QED BY <3>1, <3>2, <4>1
    <3>5. {k \in Visible : k <= path[1] /\ k >= p}
            = {k \in Visible : k <= path[1] /\ k >= pos} \cup {p}
      BY <1>1, <1>3, <2>3, <3>1, <3>4
    <3> QED BY <2>1, <3>1, <3>3, <3>5
  <2> QED BY <2>2, <2>3
<1>5. ForwardRun'
  BY <1>3 DEF ForwardRun, Turn
<1> QED BY <1>3, <1>4, <1>5 DEF IInv, OnlyValueUnsafeMisuses

\* The seeks keep it.
LEMMA SeeksStep ==
    ASSUME IInv,
           \/ SeekToFirst \/ SeekToLast
           \/ \E k \in Key : Seek(k) \/ SeekForPrev(k)
    PROVE  IInv'
<1> USE VisibleKeys
<1>1. /\ NativeFirst \in Visible \cup {Invalid}
      /\ NativeFirst = Invalid => Visible = {}
      /\ NativeFirst # Invalid => \A v \in Visible : NativeFirst <= v
  BY LeastIsLeast DEF NativeFirst
<1>2. 0 \in 0 .. MaxKey
  BY KeyAssumption
<1>3. CASE SeekToFirst
  <2>1. NativeFirst # Invalid => NativeFirst >= 0
    BY <1>1
  <2> QED BY <1>1, <1>2, <1>3, <2>1, PlaceStep DEF SeekToFirst
<1>4. CASE SeekToLast
  BY <1>1, <1>2, <1>4, PlaceStep DEF SeekToLast
<1>5. ASSUME NEW k \in Key, Seek(k) PROVE IInv'
  <2>1. {v \in Visible : v >= k} \in SUBSET Key
    OBVIOUS
  <2>2. \/ NativeSeek(k) = Invalid /\ \A v \in Visible : ~ (v >= k)
        \/ /\ NativeSeek(k) \in Visible /\ NativeSeek(k) >= k
           /\ \A v \in Visible : v >= k => NativeSeek(k) <= v
    BY <2>1, LeastIsLeast DEF NativeSeek
  <2> QED BY <1>5, <2>2, PlaceStep DEF Seek
<1>6. ASSUME NEW k \in Key, SeekForPrev(k) PROVE IInv'
  <2>1. {v \in Visible : v <= k} \in SUBSET Key
    OBVIOUS
  <2>2. \/ NativeSeekPrev(k) = Invalid /\ \A v \in Visible : ~ (v <= k)
        \/ /\ NativeSeekPrev(k) \in Visible /\ NativeSeekPrev(k) <= k
           /\ \A v \in Visible : v <= k => NativeSeekPrev(k) >= v
    BY <2>1, GreatestIsGreatest DEF NativeSeekPrev
  <2> QED BY <1>6, <2>2, PlaceStep DEF SeekForPrev
<1> QED BY <1>3, <1>4, <1>5, <1>6

\* Reading a key or a value moves nothing, and the one accessor that does not
\* ask whether the iterator is valid is rocksdb-iter-value-unsafe.
LEMMA ReadsStep ==
    ASSUME IInv, ReadKey \/ ReadValue \/ KeyUnsafe \/ ValueUnsafe
    PROVE  IInv'
<1>1. PICK op \in {"key", "value", "key-unsafe", "value-unsafe"} :
        Read(op) /\ (op # "value-unsafe" => pos # Invalid)
  BY DEF ReadKey, ReadValue, KeyUnsafe, ValueUnsafe, AssertIter
<1>2. /\ UNCHANGED <<store, snap, lower, upper, pos, scan, path, writes>>
      /\ misused' \subseteq misused \cup {"value-unsafe"}
  BY <1>1 DEF Read, db, opened
<1>3. Visible' = Visible
  BY <1>2, VisibleKeys DEF opened
<1>4. TypeOK'
  BY <1>2 DEF IInv, TypeOK
<1>5. OnPath' /\ ForwardRun' /\ BackwardRun' /\ StartedRight'
  BY <1>2, <1>3 DEF IInv, OnPath, ForwardRun, BackwardRun, StartedRight, Ascends, Descends
<1>6. OnlyValueUnsafeMisuses'
  BY <1>2 DEF IInv, OnlyValueUnsafeMisuses
<1> QED BY <1>4, <1>5, <1>6 DEF IInv

\* A refresh takes the cursor off the path, and a writer never touches what an
\* iterator reads.
LEMMA OthersStep ==
    ASSUME IInv,
           \/ Refresh \/ UNCHANGED vars
           \/ \E k \in Key : Delete(k) \/ \E v \in Value : Put(k, v)
    PROVE  IInv'
<1>1. CASE Refresh
  <2>1. TypeOK'
    BY <1>1, KeyAssumption DEF Refresh, IInv, TypeOK, Scan, db, Invalid
  <2> QED
    BY <1>1, <2>1 DEF Refresh, IInv, OnPath, ForwardRun, BackwardRun, StartedRight,
       OnlyValueUnsafeMisuses, db
<1>2. CASE UNCHANGED vars \/ \E k \in Key, v \in Value \cup {Absent} : Write(k, v)
  <2>1. UNCHANGED <<opened, cursor>>
    BY <1>2 DEF vars, Write
  <2>2. store' \in Store /\ writes' \in 0 .. MaxWrites
    BY <1>2, WritesAssumption DEF IInv, TypeOK, vars, db, Write, Store
  <2>3. TypeOK'
    BY <2>1, <2>2 DEF IInv, TypeOK, opened, cursor
  <2>4. Visible' = Visible
    BY <2>1, VisibleKeys
  <2> QED
    BY <2>1, <2>3, <2>4 DEF IInv, OnPath, ForwardRun, BackwardRun, StartedRight,
       Ascends, Descends, OnlyValueUnsafeMisuses, cursor
<1> QED BY <1>1, <1>2 DEF Delete, Put

\* Every step keeps it.
LEMMA InvStep == IInv /\ [Next]_vars => IInv'
BY NextStep, PrevStep, SeeksStep, ReadsStep, OthersStep DEF Next

\* Wherever the bindings move it, a cursor is where its path says.
THEOREM InvIsInvariant == Spec => []IInv
<1> QED BY InvInit, InvStep, PTL DEF Spec

-------------------------------------------------------------------------------
(* What follows *)

\* The cursor and its path keep their types.
THEOREM TypesHold == Spec => []TypeOK
<1>1. IInv => TypeOK
  BY DEF IInv
<1> QED BY <1>1, InvIsInvariant, PTL

\* A forward scan meets every key it can see up to where it is, in order, for
\* any number of keys and whatever is written meanwhile.
THEOREM ForwardScans == Spec => []ForwardScanIsComplete
<1>1. ASSUME IInv PROVE ForwardScanIsComplete
  <2> SUFFICES ASSUME scan.from \in {"first", "seek"}, scan.dir \in {"none", "forward"}
               PROVE  /\ Ascends
                      /\ Range(path) = {k \in Visible : k >= scan.key /\ (pos # Invalid => k <= pos)}
    BY DEF ForwardScanIsComplete
  <2> USE VisibleKeys
  <2>1. scan.key \in Nat /\ path \in Seq(Key)
    BY <1>1, KeyAssumption DEF IInv, TypeOK, Scan
  <2>2. CASE path = <<>>
    <3>1. pos = Invalid /\ \A k \in Visible : ~ (k >= scan.key)
      BY <1>1, <2>2 DEF IInv, OnPath, StartedRight
    <3>2. Range(path) = {} /\ Ascends
      BY <2>2 DEF Range, Ascends
    <3> QED BY <3>1, <3>2
  <2>3. CASE path # <<>>
    <3>1. /\ Ascends
          /\ Range(path) = {k \in Visible : k >= path[1] /\ (pos # Invalid => k <= pos)}
      BY <1>1, <2>3 DEF IInv, ForwardRun
    <3>2. /\ path[1] >= scan.key /\ path[1] \in Key
          /\ \A k \in Visible : k >= scan.key => path[1] <= k
      BY <1>1, <2>1, <2>3 DEF IInv, StartedRight
    <3>3. \A k \in Visible : k >= path[1] <=> k >= scan.key
      BY <2>1, <3>2
    <3> QED BY <3>1, <3>3
  <2> QED BY <2>2, <2>3
<1> QED BY <1>1, InvIsInvariant, PTL

\* The same for a backward scan from seek-for-prev!.
THEOREM BackwardScans == Spec => []BackwardScanIsComplete
<1>1. ASSUME IInv PROVE BackwardScanIsComplete
  <2> SUFFICES ASSUME scan.from = "seek-for-prev", scan.dir \in {"none", "backward"}
               PROVE  /\ Descends
                      /\ Range(path) = {k \in Visible : k <= scan.key /\ k >= pos}
    BY DEF BackwardScanIsComplete
  <2> USE VisibleKeys
  <2>1. scan.key \in Nat /\ path \in Seq(Key)
    BY <1>1, KeyAssumption DEF IInv, TypeOK, Scan
  <2>2. CASE path = <<>>
    <3>1. \A k \in Visible : ~ (k <= scan.key)
      BY <1>1, <2>2 DEF IInv, StartedRight
    <3>2. Range(path) = {} /\ Descends
      BY <2>2 DEF Range, Descends
    <3> QED BY <3>1, <3>2
  <2>3. CASE path # <<>>
    <3>1. /\ Descends
          /\ Range(path) = {k \in Visible : k <= path[1] /\ k >= pos}
      BY <1>1, <2>3 DEF IInv, BackwardRun
    <3>2. /\ path[1] <= scan.key /\ path[1] \in Key
          /\ \A k \in Visible : k <= scan.key => path[1] >= k
      BY <1>1, <2>1, <2>3 DEF IInv, StartedRight
    <3>3. \A k \in Visible : k <= path[1] <=> k <= scan.key
      BY <2>1, <3>2
    <3> QED BY <3>1, <3>3
  <2> QED BY <2>2, <2>3
<1> QED BY <1>1, InvIsInvariant, PTL

\* No binding but rocksdb-iter-value-unsafe works on an iterator off the end.
THEOREM MovesAreChecked == Spec => []OnlyValueUnsafeMisuses
<1>1. IInv => OnlyValueUnsafeMisuses
  BY DEF IInv
<1> QED BY <1>1, InvIsInvariant, PTL

\* A prev! that follows next! goes back to the key before.
THEOREM TurningBack == Spec => TurningBackRevisits
<1>1. ASSUME IInv, StepPrev, scan.dir = "forward", Len(path) > 1, pos # Invalid
      PROVE  pos' = path[Len(path) - 1]
  <2> USE VisibleKeys
  <2> DEFINE n == Len(path)
             p == NativePrev
  <2>1. /\ path # <<>> /\ path \in Seq(Key) /\ n \in Nat /\ n - 1 \in 1 .. n
        /\ DOMAIN path = 1 .. n /\ pos = path[n] /\ pos \in Visible
    BY <1>1 DEF IInv, OnPath, TypeOK
  <2>2. Ascends /\ Range(path) = {k \in Visible : k >= path[1] /\ k <= pos}
    BY <1>1, <2>1 DEF IInv, ForwardRun
  <2>3. path[n - 1] \in Visible /\ path[n - 1] < pos /\ path[n - 1] >= path[1]
    <3>1. path[n - 1] \in Range(path)
      BY <2>1 DEF Range
    <3> QED BY <2>1, <2>2, <3>1 DEF Ascends
  <2>4. pos' = p
    BY <1>1 DEF StepPrev, Move
  <2>5. \/ p = Invalid /\ \A v \in Visible : ~ (v < pos)
        \/ p \in Visible /\ p < pos /\ \A v \in Visible : v < pos => p >= v
    <3>1. {v \in Visible : v < pos} \in SUBSET Key
      OBVIOUS
    <3> QED BY <3>1, GreatestIsGreatest DEF NativePrev
  <2> HIDE DEF p
  <2>6. p \in Visible /\ p < pos /\ p >= path[n - 1]
    BY <2>3, <2>5
  <2>7. p \in Range(path)
    <3>1. path[1] \in Nat /\ path[n - 1] \in Nat /\ p \in Nat /\ pos \in Nat
      BY <2>1, <2>3, <2>6
    <3> QED BY <2>2, <2>3, <2>6, <3>1
  <2>8. PICK i \in 1 .. n : p = path[i]
    BY <2>1, <2>7 DEF Range
  <2>9. i = n - 1
    <3>1. p \in Nat /\ pos \in Nat /\ path[n - 1] \in Nat /\ path[i] \in Nat
      BY <2>1, <2>3, <2>6
    <3> HIDE DEF n
    <3>2. i # n
      BY <2>1, <2>6, <2>8, <3>1
    <3>3. i < n - 1 => path[i] < path[n - 1]
      BY <2>1, <2>2 DEF Ascends
    <3>4. ~ (i < n - 1)
      BY <2>6, <2>8, <3>1, <3>3
    <3> QED BY <2>1, <3>2, <3>4
  <2> QED BY <2>4, <2>8, <2>9
<1>2. IInv /\ [Next]_vars =>
        [StepPrev /\ scan.dir = "forward" /\ Len(path) > 1 /\ pos # Invalid =>
           pos' = path[Len(path) - 1]]_vars
  BY <1>1
<1> QED BY <1>2, InvIsInvariant, PTL DEF Spec, TurningBackRevisits

-------------------------------------------------------------------------------
(* The refinement *)

\* What the scan is not said to be in, it hands nothing out of.
LEMMA NoWayIsIdle == Way = "none" => Ordered!Idle
BY DEF Way, Shown, ToCome, Ordered!Idle

\* Giving a scan up is always possible.
LEMMA LeavingAbandons == Way' = "none" => Ordered!Abandon
<1> SUFFICES ASSUME Way' = "none" PROVE Ordered!Abandon
  OBVIOUS
<1>1. Shown' = <<>> /\ ToCome' = {}
  BY DEF Shown, ToCome
<1>2. Visible' \subseteq 0 .. MaxKey
  BY KeyAssumption DEF Visible, Key
<1> QED BY <1>1, <1>2 DEF Ordered!Abandon, Ordered!Idle

\* The two ends of a set of keys are those the abstract scan hands out.
LEMMA EndsAreTheEnds ==
    ASSUME NEW S \in SUBSET Key
    PROVE  /\ S = {} => Least(S) = Invalid /\ Greatest(S) = Invalid
           /\ S # {} => /\ Least(S) # Invalid /\ Least(S) = Ordered!Min(S)
                        /\ Greatest(S) # Invalid /\ Greatest(S) = Ordered!Max(S)
<1>1. CASE S = {}
  BY <1>1 DEF Least, Greatest
<1>2. CASE S # {}
  <2>1. Least(S) = Ordered!Min(S) /\ Greatest(S) = Ordered!Max(S)
    BY <1>2 DEF Ordered!Min, Ordered!Max, Min, Max, Least, Greatest
  <2>2. Least(S) \in S /\ Greatest(S) \in S
    BY <1>2, LeastIsLeast, GreatestIsGreatest
  <2> QED BY <1>2, <2>1, <2>2, VisibleKeys
<1> QED BY <1>1, <1>2

\* What comes after the next key is all that came before it but that one.
LEMMA RestIsAhead ==
    ASSUME NEW V \in SUBSET Key, NEW k \in Nat, NEW p
    PROVE  /\ (p \in {x \in V : x >= k} /\ \A y \in {x \in V : x >= k} : p <= y)
                => {x \in V : x > p} = {x \in V : x >= k} \ {p}
           /\ (p \in {x \in V : x <= k} /\ \A y \in {x \in V : x <= k} : p >= y)
                => {x \in V : x < p} = {x \in V : x <= k} \ {p}
           /\ (p \in {x \in V : x > k} /\ \A y \in {x \in V : x > k} : p <= y)
                => {x \in V : x > p} = {x \in V : x > k} \ {p}
           /\ (p \in {x \in V : x < k} /\ \A y \in {x \in V : x < k} : p >= y)
                => {x \in V : x < p} = {x \in V : x < k} \ {p}
<1>1. \A x \in V : x \in Nat
  BY VisibleKeys
<1> QED BY <1>1

\* A seek begins a scan, but for seek-to-last!, which begins none that anybody
\* promised.
LEMMA SeeksBegin ==
    ASSUME IInv,
           \/ SeekToFirst \/ SeekToLast
           \/ \E k \in Key : Seek(k) \/ SeekForPrev(k)
    PROVE  Ordered!ScanNext
<1> USE VisibleKeys
<1>1. ASSUME NEW k \in 0 .. MaxKey, NEW from \in {"first", "seek"},
             Place(from, k, Least({x \in Visible : x >= k}))
      PROVE  Ordered!Begin(k)
  <2> DEFINE S == {x \in Visible : x >= k}
             p == Least(S)
  <2>1. S \in SUBSET Key /\ k \in Nat
    BY KeyAssumption
  <2>2. /\ pos' = p /\ path' = IF p = Invalid THEN <<>> ELSE <<p>>
        /\ Way' = "up" /\ Visible' = Visible
    BY <1>1 DEF Place, Way
  <2>3. \/ S = {} /\ p = Invalid
        \/ p \in S /\ \A y \in S : p <= y
    BY <2>1, LeastIsLeast
  <2>4. p \in S => {x \in Visible : x > p} = S \ {p}
    <3> HIDE DEF p
    <3> QED BY <2>1, <2>3, RestIsAhead
  <2> HIDE DEF p
  <2>5. /\ Shown' = IF pos' = Invalid THEN <<>> ELSE Append(<<>>, pos')
        /\ ToCome' = IF pos' = Invalid THEN {} ELSE S \ {pos'}
    BY <2>1, <2>2, <2>3, <2>4 DEF Shown, ToCome
  <2>6. pos' = IF Way' = "up" THEN Least(S) ELSE Greatest(S)
    BY <2>2 DEF p
  <2> HIDE DEF S
  <2>7. Ordered!HandOut(S, <<>>)
    BY <2>1, <2>2, <2>5, <2>6, EndsAreTheEnds DEF Ordered!HandOut
  <2> QED BY <2>2, <2>7 DEF Ordered!Begin, S
<1>2. ASSUME NEW k \in Key, SeekForPrev(k) PROVE Ordered!Begin(k)
  <2> DEFINE S == {x \in Visible : x <= k}
             p == Greatest(S)
  <2>1. S \in SUBSET Key /\ k \in Nat
    BY KeyAssumption
  <2>2. /\ pos' = p /\ path' = IF p = Invalid THEN <<>> ELSE <<p>>
        /\ Way' = "down" /\ Visible' = Visible
    BY <1>2 DEF SeekForPrev, NativeSeekPrev, Place, Way
  <2>3. \/ S = {} /\ p = Invalid
        \/ p \in S /\ \A y \in S : p >= y
    BY <2>1, GreatestIsGreatest
  <2>4. p \in S => {x \in Visible : x < p} = S \ {p}
    <3> HIDE DEF p
    <3> QED BY <2>1, <2>3, RestIsAhead
  <2> HIDE DEF p
  <2>5. /\ Shown' = IF pos' = Invalid THEN <<>> ELSE Append(<<>>, pos')
        /\ ToCome' = IF pos' = Invalid THEN {} ELSE S \ {pos'}
    BY <2>1, <2>2, <2>3, <2>4 DEF Shown, ToCome
  <2>6. pos' = IF Way' = "up" THEN Least(S) ELSE Greatest(S)
    BY <2>2 DEF p
  <2> HIDE DEF S
  <2>7. Ordered!HandOut(S, <<>>)
    BY <2>1, <2>2, <2>5, <2>6, EndsAreTheEnds DEF Ordered!HandOut
  <2> QED BY <2>2, <2>7 DEF Ordered!Begin, S
<1>3. CASE SeekToFirst
  <2>1. 0 \in 0 .. MaxKey /\ {x \in Visible : x >= 0} = Visible
    BY KeyAssumption
  <2> QED BY <1>1, <1>3, <2>1 DEF SeekToFirst, NativeFirst, Ordered!ScanNext
<1>4. CASE SeekToLast
  BY <1>4, LeavingAbandons DEF SeekToLast, Place, Way, Ordered!ScanNext
<1>5. CASE \E k \in Key : Seek(k)
  BY <1>1, <1>5 DEF Seek, NativeSeek, Ordered!ScanNext
<1>6. CASE \E k \in Key : SeekForPrev(k)
  BY <1>2, <1>6 DEF Ordered!ScanNext
<1> QED BY <1>3, <1>4, <1>5, <1>6

\* A move goes on with the scan it is in, or gives it up.
LEMMA MovesAdvance == IInv /\ (StepNext \/ StepPrev) => Ordered!ScanNext
<1> SUFFICES ASSUME IInv, StepNext \/ StepPrev PROVE Ordered!ScanNext
  OBVIOUS
<1> USE VisibleKeys
<1>1. PICK dir \in {"forward", "backward"} :
        /\ dir = "forward" => StepNext
        /\ dir = "backward" => StepPrev
  OBVIOUS
<1> DEFINE S == IF dir = "forward" THEN {v \in Visible : v > pos} ELSE {v \in Visible : v < pos}
           p == IF dir = "forward" THEN Least(S) ELSE Greatest(S)
           op == IF dir = "forward" THEN "next" ELSE "prev"
           onward == IF dir = "forward" THEN "up" ELSE "down"
<1>2. S \in SUBSET Key
  OBVIOUS
<1>3. \/ S = {} /\ p = Invalid
      \/ /\ p \in S
         /\ \A y \in S : IF dir = "forward" THEN p <= y ELSE p >= y
  BY <1>2, LeastIsLeast, GreatestIsGreatest
<1>4. AssertIter /\ p \in Visible \cup {Invalid} /\ Move(op, p, dir)
  BY <1>1, <1>3 DEF StepNext, StepPrev, NativeNext, NativePrev
<1> HIDE DEF p, op
<1>5. /\ pos' = p
      /\ scan'.from = scan.from /\ scan'.dir = Turn(dir)
      /\ path' = IF p = Invalid THEN path ELSE Append(path, p)
      /\ pos \in Visible /\ Visible' = Visible
  BY <1>4, MoveShape
<1>6. CASE Way = onward
  <2>1. Way' = onward /\ pos # Invalid /\ pos \in Nat
    BY <1>5, <1>6 DEF Way, Turn
  <2>2. Shown = path /\ ToCome = S
    BY <1>6, <2>1 DEF Shown, ToCome
  <2>3. p \in S => S \ {p} = IF dir = "forward" THEN {x \in Visible : x > p}
                             ELSE {x \in Visible : x < p}
    BY <1>3, <2>1, RestIsAhead
  <2>4. /\ Shown' = IF pos' = Invalid THEN path ELSE Append(path, pos')
        /\ ToCome' = IF pos' = Invalid THEN {} ELSE S \ {pos'}
    BY <1>2, <1>3, <1>5, <2>1, <2>3 DEF Shown, ToCome
  <2>5. pos' = IF Way' = "up" THEN Least(S) ELSE Greatest(S)
    BY <1>5, <2>1 DEF p
  <2>6. Way' \in {"up", "down"}
    BY <2>1
  <2> HIDE DEF S, onward
  <2>7. Ordered!HandOut(S, path)
    BY <1>2, <2>4, <2>5, <2>6, EndsAreTheEnds DEF Ordered!HandOut
  <2> QED BY <1>5, <1>6, <2>1, <2>2, <2>6, <2>7 DEF Ordered!ScanNext, Ordered!Advance
<1>7. CASE Way # onward
  <2>1. Way' = "none"
    BY <1>5, <1>7 DEF Way, Turn
  <2> QED BY <2>1, LeavingAbandons DEF Ordered!ScanNext
<1> QED BY <1>6, <1>7

\* Every step is one of an ordered scan, or none.
LEMMA StepScan == IInv /\ [Next]_vars => [Ordered!ScanNext]_(Ordered!svars)
<1> SUFFICES ASSUME IInv, [Next]_vars PROVE [Ordered!ScanNext]_(Ordered!svars)
  OBVIOUS
<1>1. CASE Refresh
  BY <1>1, LeavingAbandons DEF Refresh, Way, Ordered!ScanNext
<1>2. CASE \/ ReadKey \/ ReadValue \/ KeyUnsafe \/ ValueUnsafe \/ UNCHANGED vars
           \/ \E k \in Key : Delete(k) \/ \E v \in Value : Put(k, v)
  <2>1. UNCHANGED <<opened, pos, scan, path>>
    BY <1>2 DEF ReadKey, ReadValue, KeyUnsafe, ValueUnsafe, Read, Delete, Put, Write, vars, cursor
  <2>2. Visible' = Visible /\ Way' = Way
    BY <2>1, VisibleKeys DEF Way
  <2> QED BY <2>1, <2>2 DEF Shown, ToCome, Ordered!svars
<1> QED BY <1>1, <1>2, SeeksBegin, MovesAdvance DEF Next

\* The iterator of the bindings implements an ordered scan, for any number of
\* keys, any bounds and any writers.
THEOREM ScansAreOrdered == Spec => ImplementsOrderedScan
<1>1. Init => Ordered!ScanInit
  <2> SUFFICES ASSUME Init PROVE Ordered!ScanInit
    OBVIOUS
  <2>1. Way = "none"
    BY DEF Init, Way
  <2>2. Visible \subseteq 0 .. MaxKey
    BY KeyAssumption DEF Visible, Key
  <2> QED BY <2>1, <2>2, NoWayIsIdle DEF Ordered!ScanInit
<1> QED
  BY <1>1, StepScan, InvIsInvariant, PTL DEF Spec, ImplementsOrderedScan, Ordered!Spec
===============================================================================
