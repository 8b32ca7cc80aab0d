----------------------- MODULE OptionConstructorsProofs -----------------------
(***************************************************************************)
(* Proofs about OptionConstructors, for any widths of C's integers, any    *)
(* numbers, and any number of settings given.                              *)
(***************************************************************************)
EXTENDS OptionConstructors, SetBounds, TLAPS

-------------------------------------------------------------------------------
(* The tables *)

\* What the proofs use of a row.
RowIsSound(r) ==
    /\ r.kind \in DOMAIN Admits
    /\ r.kind = "integer" => /\ r.conv \in {"size_t", "uint32_t", "int"}
                             /\ r.param \in {"size_t", "uint32_t", "int"}
    /\ r.kind = "unused" => r.key = HighPriority
    /\ r.kind = "cache" => r.key \in {"block-cache", "cache-compressed"}
    /\ r.kind = "symbol" => /\ DOMAIN r.names \subseteq 1 .. 3
                            /\ \A i, j \in DOMAIN r.names : r.names[i] = r.names[j] => i = j

\* Rows of each form are sound.
LEMMA RowForms ==
    /\ \A key : RowIsSound(Bool(key))
    /\ \A key : \A conv, param \in {"size_t", "uint32_t", "int"} :
          RowIsSound(Num(key, conv, param))
    /\ \A key : \A kind \in {"exact", "real", "string", "policy", "table", "refused"} :
          RowIsSound(Plain(key, kind))
    /\ RowIsSound(Plain(HighPriority, "unused"))
    /\ \A key \in {"block-cache", "cache-compressed"} : RowIsSound(Plain(key, "cache"))
    /\ \A key, names : /\ DOMAIN names \subseteq 1 .. 3
                       /\ \A i, j \in DOMAIN names : names[i] = names[j] => i = j
                       => RowIsSound(Enum(key, names))
<1>1. DOMAIN Admits = {"boolean", "unused", "refused", "integer", "exact", "real", "symbol",
                       "cache", "string", "policy", "table"}
  BY DEF Admits
<1> QED BY <1>1 DEF RowIsSound, Row, Num, Enum, Plain, Bool

\* The names of the enumerations are distinct.
LEMMA NamesAreDistinct ==
    /\ RowIsSound(Enum("index-type",
                       <<"binary-search", "hash-search", "two-level-index-search">>))
    /\ RowIsSound(Enum("data-block-index-type", <<"binary-search", "binary-search-and-hash">>))
    /\ RowIsSound(Enum("allocator", <<"default", "jemalloc", "guile">>))
BY RowForms

\* Every row of every table is sound.
LEMMA TablesAreSound == \A c \in Constructor : \A r \in Rows(c) : RowIsSound(r)
<1> USE RowForms, NamesAreDistinct
<1>1. \A i \in DOMAIN BlockBased : RowIsSound(BlockBased[i])
  BY DEF BlockBased
<1>2. \A i \in DOMAIN Cuckoo : RowIsSound(Cuckoo[i])
  BY DEF Cuckoo
<1>3. \A i \in DOMAIN DbOptions : RowIsSound(DbOptions[i])
  BY DEF DbOptions
<1>4. \A i \in DOMAIN WriteOptions : RowIsSound(WriteOptions[i])
  BY DEF WriteOptions
<1>5. \A i \in DOMAIN ReadOptions : RowIsSound(ReadOptions[i])
  BY DEF ReadOptions
<1>6. \A i \in DOMAIN PlainTable : RowIsSound(PlainTable[i])
  BY DEF PlainTable
<1>7. \A i \in DOMAIN LruCache : RowIsSound(LruCache[i])
  BY DEF LruCache
<1> QED
  BY <1>1, <1>2, <1>3, <1>4, <1>5, <1>6, <1>7 DEF Constructor, Rows, Range, Table

\* The row of a key has that key, and is sound.
LEMMA RowOfKey ==
    ASSUME NEW c \in Constructor, NEW k \in Keys(c)
    PROVE  RowOf(c, k) \in Rows(c) /\ RowOf(c, k).key = k /\ RowIsSound(RowOf(c, k))
<1>1. \E r \in Rows(c) : r.key = k
  BY DEF Keys
<1>2. RowOf(c, k) \in Rows(c) /\ RowOf(c, k).key = k
  BY <1>1 DEF RowOf
<1> QED BY <1>2, TablesAreSound

\* The tables are short.
LEMMA TableLengths ==
    \A c \in Constructor :
        /\ DOMAIN Table[c] \subseteq 1 .. 21
        /\ \A i \in DOMAIN Table[c] : Table[c][i].key \in Keys(c)
<1>1. \A c \in Constructor : DOMAIN Table[c] \subseteq 1 .. 21
  BY DEF Constructor, Table, BlockBased, Cuckoo, DbOptions, WriteOptions, ReadOptions,
     PlainTable, LruCache
<1>2. \A c \in Constructor : \A i \in DOMAIN Table[c] : Table[c][i].key \in Keys(c)
  BY DEF Keys, Rows, Range
<1> QED BY <1>1, <1>2

-------------------------------------------------------------------------------
(* One setting *)

\* An integer is its number.
LEMMA IntegersAreNumbers ==
    ASSUME NEW v \in Scheme, v.is = "integer"
    PROVE  v.num \in Int /\ v = Int_(v.num)
<1>0. \A is, n, sym : Val(is, n, sym).is = is
  BY DEF Val
<1>1. \A w \in {False, True} \cup Objects : w.is # "integer"
  <2>1. \A w \in {False, True} : w.is # "integer"
    BY <1>0 DEF True, False
  <2>2. \A w \in Objects : w.is # "integer"
    BY <1>0 DEF Objects
  <2> QED  BY <2>1, <2>2
<1>2. \A w \in Policies \cup Symbols : w.is # "integer"
  BY <1>0 DEF Policies, Symbols
<1>3. PICK n \in Number : v = Int_(n)
  BY <1>1, <1>2 DEF Scheme
<1>4. v.num = n
  BY <1>3 DEF Int_, Val
<1> QED BY <1>3, <1>4, NumberAssumption

\* What is stored has the kind of its row,
LEMMA StoredKinds ==
    ASSUME NEW r, RowIsSound(r), NEW v, NEW w \in Stored(r, v)
    PROVE  w.is \in {"default", "integer"} \cup Admits[r.kind]
<1>1. v.is \in Admits[r.kind] /\ w \in Converted(r, v)
  BY DEF Stored, WellTyped
<1>2. CASE r.kind = "boolean"
  BY <1>1, <1>2 DEF Converted, True, False, Val, Admits, Tags
<1>3. CASE r.kind \in {"integer", "symbol", "unused"}
  <2>1. w = Default \/ \E n : w = Int_(n)
    BY <1>1, <1>3 DEF Converted
  <2>2. Default.is = "default" /\ \A n : Int_(n).is = "integer"
    BY DEF Int_, Default, Val
  <2> QED BY <2>1, <2>2
<1>4. CASE r.kind \notin {"boolean", "integer", "symbol", "unused"}
  BY <1>1, <1>4 DEF Converted
<1> QED BY <1>2, <1>3, <1>4

\* and is what the program meant, unless a number is too large for the setter.
LEMMA StoredIsMeant ==
    ASSUME NEW r, RowIsSound(r), r.kind # "unused",
           NEW v \in Scheme, Narrow(r, v), NEW w \in Stored(r, v)
    PROVE  w = Meaning(r, v)
<1>1. v.is \in Admits[r.kind] /\ w \in Converted(r, v)
  BY DEF Stored, WellTyped
<1>2. CASE r.kind = "boolean"
  BY <1>1, <1>2 DEF Converted, Meaning, True, False
<1>3. CASE r.kind = "integer"
  <2>1. v.is = "integer"
    BY <1>1, <1>3 DEF Admits
  <2>2. w = Int_(AsParam(r.param, v.num)) /\ AsParam(r.param, v.num) = v.num
    BY <1>1, <1>3 DEF Converted, Narrow
  <2> QED BY <1>3, <2>1, <2>2, IntegersAreNumbers DEF Meaning
<1>4. CASE r.kind = "symbol"
  <2>1. PICK j \in DOMAIN r.names : r.names[j] = v.sym /\ w = Int_(j - 1)
    BY <1>1, <1>4 DEF Converted
  <2> DEFINE i == CHOOSE n \in DOMAIN r.names : r.names[n] = v.sym
  <2>2. i \in DOMAIN r.names /\ r.names[i] = v.sym
    BY <2>1
  <2>3. i = j
    BY <1>4, <2>1, <2>2 DEF RowIsSound
  <2>4. Meaning(r, v) = Int_(i - 1)
    BY <1>4 DEF Meaning
  <2> QED BY <2>1, <2>3, <2>4
<1>5. CASE r.kind \notin {"boolean", "integer", "symbol", "unused"}
  BY <1>1, <1>5 DEF Converted, Meaning
<1> QED BY <1>2, <1>3, <1>4, <1>5

-------------------------------------------------------------------------------
(* What a call applies *)

Typed == ctor \in Constructor /\ given \in Seq(Setting(ctor))

\* The last place of a key that was given, and what stands there.
LEMMA LastPlace ==
    ASSUME Typed, NEW k \in GivenKeys
    PROVE  /\ Max(PlacesOf(k)) \in PlacesOf(k)
           /\ \A i \in PlacesOf(k) : i <= Max(PlacesOf(k))
           /\ given[Max(PlacesOf(k))] \in Setting(ctor)
           /\ given[Max(PlacesOf(k))].key = k
<1>1. given \in Seq(Setting(ctor)) /\ Len(given) \in Nat /\ DOMAIN given = 1 .. Len(given)
  BY DEF Typed
<1>2. PlacesOf(k) \in SUBSET (0 .. Len(given))
  BY <1>1 DEF PlacesOf
<1>3. PlacesOf(k) # {}
  BY DEF PlacesOf, GivenKeys, Range
<1>4. /\ Max(PlacesOf(k)) \in PlacesOf(k)
      /\ \A i \in PlacesOf(k) : Max(PlacesOf(k)) >= i
  BY <1>1, <1>2, <1>3, MaxIsGreatest
<1>5. Max(PlacesOf(k)) \in 1 .. Len(given) /\ given[Max(PlacesOf(k))].key = k
  BY <1>1, <1>4 DEF PlacesOf
<1>6. \A i \in PlacesOf(k) : i \in Nat
  BY <1>2
<1> QED BY <1>1, <1>4, <1>5, <1>6

\* The places of Work, and what stands at them: every setting given with a key
\* the constructor knows, the last value where the keywords count once.
LEMMA WorkShape ==
    ASSUME Typed
    PROVE  /\ \E N \in Nat : DOMAIN Work \subseteq 1 .. N
           /\ \A i \in DOMAIN Work : Work[i] \in Setting(ctor) /\ Work[i].key \in GivenKeys
           /\ \A k \in GivenKeys \cap Keys(ctor) : \E i \in DOMAIN Work : Work[i].key = k
           /\ ctor # "read" => \A i \in DOMAIN Work : Work[i].val = Meant(Work[i].key)
<1>1. /\ given \in Seq(Setting(ctor)) /\ Len(given) \in Nat /\ DOMAIN given = 1 .. Len(given)
      /\ ctor \in Constructor
  BY DEF Typed
<1>2. CASE ctor = "read"
  <2>1. Work = given
    BY <1>2 DEF Work
  <2>2. \A i \in DOMAIN given : given[i] \in Setting(ctor) /\ given[i].key \in GivenKeys
    BY <1>1 DEF GivenKeys, Range
  <2>3. \A k \in GivenKeys : \E i \in DOMAIN given : given[i].key = k
    BY DEF GivenKeys, Range
  <2> QED BY <1>1, <1>2, <2>1, <2>2, <2>3
<1>3. CASE ctor # "read"
  <2>1. Work = [i \in GivenRows |-> given[Max(PlacesOf(Table[ctor][i].key))]]
    BY <1>3 DEF Work
  <2>2. GivenRows \subseteq 1 .. 21 /\ 21 \in Nat
    BY <1>1, TableLengths DEF GivenRows
  <2>3. ASSUME NEW i \in GivenRows
        PROVE  /\ Table[ctor][i].key \in GivenKeys
               /\ Work[i] \in Setting(ctor) /\ Work[i].key = Table[ctor][i].key
               /\ Work[i].val = Meant(Table[ctor][i].key)
    <3>1. Table[ctor][i].key \in GivenKeys
      BY DEF GivenRows
    <3> QED BY <2>1, <3>1, LastPlace DEF Meant
  <2>4. ASSUME NEW k \in GivenKeys \cap Keys(ctor)
        PROVE  \E i \in GivenRows : Table[ctor][i].key = k
    BY <2>4 DEF GivenRows, Keys, Rows, Range
  <2> QED BY <2>1, <2>2, <2>3, <2>4
<1> QED BY <1>2, <1>3

\* The next place, if one is ahead.
LEMMA NextPlace ==
    ASSUME Typed, at \in {0} \cup DOMAIN Work, Ahead # {}
    PROVE  /\ Min(Ahead) \in DOMAIN Work /\ Min(Ahead) > at
           /\ \A i \in DOMAIN Work : i <= Min(Ahead) <=> i <= at \/ i = Min(Ahead)
<1>1. PICK N \in Nat : DOMAIN Work \subseteq 1 .. N
  BY WorkShape
<1>2. Ahead \in SUBSET Nat /\ Ahead \subseteq DOMAIN Work /\ at \in Nat
  BY <1>1 DEF Ahead
<1>3. Min(Ahead) \in Ahead /\ \A i \in Ahead : Min(Ahead) <= i
  BY <1>2, MinIsLeast
<1>4. Min(Ahead) \in DOMAIN Work /\ Min(Ahead) > at
  BY <1>3 DEF Ahead
<1>5. ASSUME NEW i \in DOMAIN Work
      PROVE  i <= Min(Ahead) <=> i <= at \/ i = Min(Ahead)
  <2>1. i \in Nat /\ Min(Ahead) \in Nat
    BY <1>1, <1>4
  <2>2. i > at => Min(Ahead) <= i
    BY <1>3 DEF Ahead
  <2> QED BY <1>2, <1>4, <2>1, <2>2
<1> QED BY <1>4, <1>5

-------------------------------------------------------------------------------
(* The inductive invariant *)

\* Where a setting with key k has been applied so far.
Applied(k) == {i \in DOMAIN Work : i <= at /\ Work[i].key = k}

\* A field holds what was stored for it last, or the default.
FieldsSoFar ==
    \A k \in Keys(ctor) :
        \/ Applied(k) = {} /\ fields[k] = Default
        \/ \E i \in Applied(k) : /\ \A j \in Applied(k) : j <= i
                                  /\ fields[k] \in Stored(RowOf(ctor, k), Work[i].val)

\* A call that has made its object has applied everything.
MadeIsDone == outcome = "made" => Ahead = {}

\* What has been applied, and what a keyword constructor set out to apply, is
\* known.
KnownSoFar ==
    /\ \A i \in DOMAIN Work : i <= at => Work[i].key # Unknown
    /\ ctor # "read" /\ outcome # "raised" => Unknown \notin GivenKeys

IInv == TypeOK /\ FieldsSoFar /\ MadeIsDone /\ RaisesForCause /\ KnownSoFar

\* The values a program passes are Scheme values.
LEMMA CandidatesAreScheme ==
    ASSUME NEW c \in Constructor, NEW k \in Keys(c) \cup {Unknown}
    PROVE  Candidates(c, k) \subseteq Scheme
<1>1. /\ True \in Scheme /\ False \in Scheme
      /\ {Int_(n) : n \in Number} \subseteq Scheme /\ Objects \subseteq Scheme
      /\ Policies \subseteq Scheme /\ Symbols \subseteq Scheme
  BY DEF Scheme
<1>2. Val("string", 0, "k") \in Objects /\ Val("real", 0, "1.5") \in Objects
  BY DEF Objects
<1> DEFINE kind == RowOf(c, k).kind
<1>3. CASE k = Unknown
  BY <1>1, <1>3 DEF Candidates
<1>4. CASE k # Unknown
  <2>1. Candidates(c, k) \in
          {{False, True, Val("string", 0, "k")}, {False, True},
           {Int_(n) : n \in Number} \cup {Val("real", 0, "1.5")},
           Symbols \cup {True}, Policies \cup {True}, Objects \cup {True}}
    BY <1>4 DEF Candidates
  <2> QED BY <1>1, <1>2, <2>1
<1> QED BY <1>3, <1>4

\* The calls the model starts with are sequences of settings.
LEMMA InputsTyped ==
    ASSUME NEW c \in Constructor, NEW g \in Inputs(c)
    PROVE  g \in Seq(Setting(c)) /\ (c \in Positional \/ Len(g) <= MaxGiven)
<1>1. CASE c \in Positional
  <2>1. PICK n \in Arities[c] : g \in Places(c, n)
    BY <1>1 DEF Inputs
  <2>2. n \in Nat /\ \A i \in 1 .. n : i \in DOMAIN Table[c]
    <3>1. CASE c = "plain"
      BY <2>1, <3>1 DEF Arities, Table, PlainTable
    <3>2. CASE c = "cache"
      BY <2>1, <3>2 DEF Arities, Table, LruCache
    <3> QED BY <1>1, <3>1, <3>2 DEF Positional
  <2>3. PICK v : /\ g = [i \in 1 .. n |-> [key |-> Table[c][i].key, val |-> v[i]]]
                 /\ \A i \in 1 .. n : v[i] \in Candidates(c, Table[c][i].key)
    BY <2>1 DEF Places
  <2>4. \A i \in 1 .. n : [key |-> Table[c][i].key, val |-> v[i]] \in Setting(c)
    BY <2>2, <2>3, TableLengths, CandidatesAreScheme DEF Setting
  <2> QED BY <1>1, <2>2, <2>3, <2>4
<1>2. CASE c \notin Positional
  <2>1. PICK n \in 0 .. MaxGiven : g \in [1 .. n -> Entries(c)]
    BY <1>2 DEF Inputs
  <2>2. Entries(c) \subseteq Setting(c)
    BY CandidatesAreScheme DEF Entries, Setting
  <2>3. n \in Nat /\ n <= MaxGiven
    BY <2>1, GivenAssumption
  <2> QED BY <2>1, <2>2, <2>3
<1> QED BY <1>1, <1>2

\* When a call starts nothing has been applied.
LEMMA InvInit == Init => IInv
<1> SUFFICES ASSUME Init PROVE IInv
  OBVIOUS
<1>1. PICK c \in Constructor : \E g \in Inputs(c) : Starts(c, g)
  BY DEF Init
<1>2. Typed /\ (ctor \in Positional \/ Len(given) <= MaxGiven)
  BY <1>1, InputsTyped DEF Starts, Typed
<1>3. PICK N \in Nat : DOMAIN Work \subseteq 1 .. N
  BY <1>2, WorkShape
<1>4. \A k \in Keys(ctor) : Applied(k) = {} /\ fields[k] = Default
  BY <1>1, <1>3 DEF Starts, Applied
<1>5. Default.is = "default"
  BY DEF Default, Val
<1>6. TypeOK
  BY <1>1, <1>2, <1>4, <1>5 DEF Starts, TypeOK, Typed
<1>7. FieldsSoFar /\ MadeIsDone
  BY <1>1, <1>4 DEF Starts, FieldsSoFar, MadeIsDone
<1>8. RaisesForCause
  BY <1>1 DEF Starts, RaisesForCause, GivenKeys
<1>9. KnownSoFar
  BY <1>1, <1>3 DEF Starts, KnownSoFar, GivenKeys
<1> QED BY <1>6, <1>7, <1>8, <1>9 DEF IInv

\* Applying one more setting stores what it stands for, and nothing else.
LEMMA ApplyStep == IInv /\ Apply => IInv'
<1> SUFFICES ASSUME IInv, Apply PROVE IInv'
  OBVIOUS
<1> DEFINE m == Min(Ahead)
           k == Work[m].key
           r == RowOf(ctor, k)
<1>1. Typed /\ at \in {0} \cup DOMAIN Work /\ Ahead # {}
  BY DEF IInv, TypeOK, Typed, Apply, Running
<1>2. /\ m \in DOMAIN Work /\ m > at
      /\ \A i \in DOMAIN Work : i <= m <=> i <= at \/ i = m
  BY <1>1, NextPlace
<1>3. Work[m] \in Setting(ctor) /\ k # Unknown
  BY <1>1, <1>2, WorkShape DEF Apply, Next_
<1>4. k \in Keys(ctor) /\ RowIsSound(r) /\ r.key = k /\ ctor \in Constructor
  BY <1>1, <1>3, RowOfKey DEF Setting, Typed
<1>5. PICK w \in Stored(r, Work[m].val) : fields' = [fields EXCEPT ![k] = w]
  BY <1>4 DEF Apply, Next_
<1>6. /\ at' = m /\ UNCHANGED <<ctor, given, outcome>> /\ Work' = Work
      /\ consumed' = IF r.kind = "cache" THEN consumed \cup {r.key} ELSE consumed
  BY DEF Apply, Next_, Work, GivenRows, GivenKeys, PlacesOf
<1> HIDE DEF m, k, r
<1>7. TypeOK'
  <2>1. at' \in {0} \cup DOMAIN Work'
    BY <1>2, <1>6
  <2>2. DOMAIN fields' = Keys(ctor)
    BY <1>5 DEF IInv, TypeOK
  <2>3. w.is \in {"default", "integer"} \cup Admits[r.kind]
    BY <1>4, <1>5, StoredKinds
  <2>4. \A l \in Keys(ctor) :
          fields'[l].is \in {"default", "integer"} \cup Admits[RowOf(ctor, l).kind]
    BY <1>4, <1>5, <2>3 DEF IInv, TypeOK, r
  <2>5. consumed' \subseteq {"block-cache", "cache-compressed"}
    BY <1>4, <1>6 DEF IInv, TypeOK, RowIsSound
  <2> QED BY <1>6, <2>1, <2>2, <2>4, <2>5 DEF IInv, TypeOK
<1>8. FieldsSoFar'
  <2> SUFFICES ASSUME NEW l \in Keys(ctor)
               PROVE  \/ Applied(l)' = {} /\ fields'[l] = Default
                      \/ \E i \in Applied(l)' :
                           /\ \A j \in Applied(l)' : j <= i
                           /\ fields'[l] \in Stored(RowOf(ctor, l), Work[i].val)
    BY <1>6 DEF FieldsSoFar
  <2>1. CASE l = k
    <3>1. m \in Applied(l)' /\ \A j \in Applied(l)' : j <= m
      BY <1>2, <1>6, <2>1 DEF Applied, k
    <3>2. fields'[l] = w
      BY <1>4, <1>5, <2>1 DEF IInv, TypeOK
    <3> QED BY <1>5, <2>1, <3>1, <3>2 DEF r
  <2>2. CASE l # k
    <3>1. Applied(l)' = Applied(l)
      BY <1>2, <1>6, <2>2 DEF Applied, k
    <3>2. fields'[l] = fields[l]
      BY <1>4, <1>5, <2>2 DEF IInv, TypeOK
    <3> QED BY <3>1, <3>2 DEF IInv, FieldsSoFar
  <2> QED BY <2>1, <2>2
<1>9. MadeIsDone' /\ RaisesForCause'
  BY <1>6 DEF Apply, Running, MadeIsDone, RaisesForCause
<1>10. KnownSoFar'
  BY <1>2, <1>3, <1>6 DEF IInv, KnownSoFar, GivenKeys, k
<1> QED BY <1>7, <1>8, <1>9, <1>10 DEF IInv

\* A constructor that raises or wraps stores nothing more.
LEMMA EndStep ==
    ASSUME IInv, Raise \/ Wrap \/ UNCHANGED vars
    PROVE  IInv'
<1>1. /\ UNCHANGED <<ctor, given, at, fields, consumed>>
      /\ Work' = Work /\ Ahead' = Ahead
  BY DEF Raise, Wrap, vars, Work, GivenRows, GivenKeys, PlacesOf, Ahead
<1>2. TypeOK'
  BY <1>1 DEF IInv, TypeOK, Raise, Wrap, vars
<1>3. FieldsSoFar'
  BY <1>1 DEF IInv, FieldsSoFar, Applied
<1>4. MadeIsDone'
  BY <1>1 DEF IInv, MadeIsDone, Raise, Wrap, vars
<1>5. ASSUME Raise, ctor # "read"
      PROVE  \/ Unknown \in GivenKeys
             \/ \E k \in GivenKeys : \/ Stored(RowOf(ctor, k), Meant(k)) = {}
                                     \/ MayLack(k, Meant(k))
  <2>1. Typed /\ at \in {0} \cup DOMAIN Work /\ Ahead # {}
    BY <1>5 DEF IInv, TypeOK, Typed, Raise, Running
  <2> DEFINE n == Next_
  <2>2. n.key \in GivenKeys /\ n.val = Meant(n.key)
    BY <1>5, <2>1, NextPlace, WorkShape DEF Next_
  <2>3. n.key # Unknown => \/ Stored(RowOf(ctor, n.key), n.val) = {}
                            \/ MayLack(n.key, n.val)
    BY <1>5 DEF Raise
  <2> QED BY <2>2, <2>3
<1>6. RaisesForCause'
  <2>1. CASE Raise
    BY <1>1, <1>5, <2>1 DEF RaisesForCause, GivenKeys, Meant, PlacesOf
  <2>2. CASE Wrap
    BY <2>2 DEF Wrap, RaisesForCause
  <2>3. CASE UNCHANGED vars
    BY <2>3 DEF IInv, RaisesForCause, vars, GivenKeys, Meant, PlacesOf
  <2> QED BY <2>1, <2>2, <2>3
<1>7. KnownSoFar'
  BY <1>1 DEF IInv, KnownSoFar, GivenKeys, Raise, Wrap, vars
<1> QED BY <1>2, <1>3, <1>4, <1>6, <1>7 DEF IInv

\* However many settings, in whatever order, a native holds what was stored last.
THEOREM InvIsInvariant == Spec => []IInv
<1>1. IInv /\ [Next]_vars => IInv'
  BY ApplyStep, EndStep DEF Next
<1> QED BY <1>1, InvInit, PTL DEF Spec

-------------------------------------------------------------------------------
(* What follows *)

\* Every field keeps the kind its setting admits.
THEOREM TypesHold == Spec => []TypeOK
<1>1. IInv => TypeOK
  BY DEF IInv
<1> QED BY <1>1, InvIsInvariant, PTL

\* A keyword constructor raises only for a value that counted, or a keyword it
\* does not know.
THEOREM RaisesAreCaused == Spec => []RaisesForCause
<1>1. IInv => RaisesForCause
  BY DEF IInv
<1> QED BY <1>1, InvIsInvariant, PTL

\* In an object that was made, a setting given holds what its last value is
\* stored as.
LEMMA MadeHoldsTheLast ==
    ASSUME IInv, outcome = "made", NEW k \in GivenKeys \cap Keys(ctor)
    PROVE  /\ fields[k] \in Stored(RowOf(ctor, k), Meant(k))
           /\ Meant(k) \in Scheme /\ ctor \in Constructor
           /\ RowOf(ctor, k) \in Rows(ctor) /\ RowOf(ctor, k).key = k
           /\ RowIsSound(RowOf(ctor, k))
<1>1. Typed /\ Ahead = {} /\ at \in {0} \cup DOMAIN Work
  BY DEF IInv, TypeOK, Typed, MadeIsDone
<1>2. PICK N \in Nat : DOMAIN Work \subseteq 1 .. N
  BY <1>1, WorkShape
<1>3. \A i \in DOMAIN Work : i \in Nat /\ i <= at
  BY <1>1, <1>2 DEF Ahead
<1>4. Applied(k) = {i \in DOMAIN Work : Work[i].key = k} /\ Applied(k) # {}
  BY <1>1, <1>3, WorkShape DEF Applied
<1>5. PICK i \in Applied(k) : /\ \A j \in Applied(k) : j <= i
                             /\ fields[k] \in Stored(RowOf(ctor, k), Work[i].val)
  BY <1>4 DEF IInv, FieldsSoFar
<1>6. Work[i].val = Meant(k)
  <2>1. CASE ctor # "read"
    BY <1>1, <1>4, <1>5, <2>1, WorkShape
  <2>2. CASE ctor = "read"
    <3>1. Work = given
      BY <2>2 DEF Work
    <3>2. Applied(k) = PlacesOf(k)
      BY <1>4, <3>1 DEF PlacesOf
    <3> DEFINE m == Max(PlacesOf(k))
    <3>3. m \in PlacesOf(k) /\ i <= m
      BY <1>1, <1>5, <3>2, LastPlace
    <3>4. m <= i /\ m \in Nat /\ i \in Nat
      BY <1>3, <1>4, <1>5, <3>2, <3>3
    <3>5. m = i
      BY <3>3, <3>4
    <3> QED BY <3>1, <3>5 DEF Meant
  <2> QED BY <2>1, <2>2
<1>7. Meant(k) \in Scheme
  BY <1>1, LastPlace DEF Meant, Setting
<1> QED BY <1>1, <1>5, <1>6, <1>7, RowOfKey DEF Typed

\* An object that was made has what the program gave it, last values first.
THEOREM SettingsDoArrive == Spec => []SettingsArrive
<1>1. ASSUME IInv PROVE SettingsArrive
  <2> SUFFICES ASSUME outcome = "made", NEW k \in Keys(ctor), k # HighPriority,
                      k \in GivenKeys => Narrow(RowOf(ctor, k), Meant(k))
               PROVE  Arrives(k)
    BY DEF SettingsArrive
  <2>1. CASE k \in GivenKeys
    <3>1. /\ fields[k] \in Stored(RowOf(ctor, k), Meant(k)) /\ Meant(k) \in Scheme
          /\ RowOf(ctor, k).key = k /\ RowIsSound(RowOf(ctor, k))
      BY <1>1, <2>1, MadeHoldsTheLast
    <3>2. RowOf(ctor, k).kind # "unused"
      BY <3>1 DEF RowIsSound
    <3>3. fields[k] = Meaning(RowOf(ctor, k), Meant(k))
      BY <2>1, <3>1, <3>2, StoredIsMeant
    <3> QED BY <2>1, <3>3 DEF Arrives
  <2>2. CASE k \notin GivenKeys
    <3>1. Typed
      BY <1>1 DEF IInv, TypeOK, Typed
    <3>2. Applied(k) = {}
      BY <2>2, <3>1, WorkShape DEF Applied
    <3> QED BY <1>1, <2>2, <3>2 DEF IInv, FieldsSoFar, Arrives
  <2> QED BY <2>1, <2>2
<1> QED BY <1>1, InvIsInvariant, PTL

-------------------------------------------------------------------------------
(* There and back: options to alists *)

\* The options that can be read back.
LEMMA AlistRows ==
    /\ \A r \in Rows("write") : r.kind = "boolean" /\ r.key # HighPriority
    /\ \A r \in Rows("read") :
          /\ r.kind \in {"boolean", "refused", "string", "integer"}
          /\ r.kind = "integer" => r.conv = "int" /\ r.param \in {"int", "size_t"}
<1> DEFINE Readable(r) ==
             /\ r.kind \in {"boolean", "refused", "string", "integer"}
             /\ r.kind = "integer" => r.conv = "int" /\ r.param \in {"int", "size_t"}
           Switch(r) == r.kind = "boolean" /\ r.key # HighPriority
<1>1. /\ \A key : Readable(Bool(key))
      /\ \A key : \A param \in {"int", "size_t"} : Readable(Num(key, "int", param))
      /\ \A key : \A kind \in {"string", "refused"} : Readable(Plain(key, kind))
  BY DEF Row, Num, Plain, Bool
<1>2. \A key : key # HighPriority => Switch(Bool(key))
  BY DEF Row, Plain, Bool
<1> HIDE DEF Readable, Switch
<1>3. \A i \in DOMAIN ReadOptions : Readable(ReadOptions[i])
  BY <1>1 DEF ReadOptions
<1>4. \A i \in DOMAIN WriteOptions : Switch(WriteOptions[i])
  BY <1>2 DEF WriteOptions, HighPriority
<1> QED BY <1>3, <1>4 DEF Readable, Switch, Rows, Range, Table

\* A number and the multiples of the modulus are the same modulo it.
LEMMA ModShift ==
    ASSUME NEW m \in Nat \ {0}, NEW r \in 0 .. m - 1, NEW q \in Int
    PROVE  (r + q * m) % m = r
OBVIOUS

\* An int that went through a size_t comes back as it was, negative or not.
LEMMA IntComesBack ==
    ASSUME NEW n \in Accepted("int"), NEW param \in {"int", "size_t"}
    PROVE  AsParam("int", AsParam(param, n)) = n
<1> DEFINE H == IntHalf
           M == 2 * IntHalf
           S == SizeModulus
<1>1. /\ H \in Nat \ {0} /\ M \in Nat \ {0} /\ M = 2 * H /\ S \in Nat \ {0} /\ S > M
      /\ S % M = 0 /\ n \in Int /\ -H <= n /\ n < H
  BY WidthAssumption DEF Accepted
<1>2. \A x \in Int : AsParam("int", x) = ((x + H) % M) - H
  BY DEF AsParam
<1>3. \A x : AsParam("size_t", x) = x % S
  BY DEF AsParam
<1> HIDE DEF H, M, S
<1>4. AsParam("int", n) = n
  <2>1. n + H \in 0 .. M - 1 /\ n + H = (n + H) + 0 * M
    BY <1>1
  <2>2. (n + H) % M = n + H
    BY <1>1, <2>1, ModShift
  <2> QED BY <1>1, <1>2, <2>2
<1>5. AsParam("int", AsParam("size_t", n)) = n
  <2>1. CASE n >= 0
    <3>1. n \in 0 .. S - 1 /\ n = n + 0 * S
      BY <1>1, <2>1
    <3>2. n % S = n
      BY <1>1, <3>1, ModShift
    <3> QED BY <1>3, <1>4, <3>2
  <2>2. CASE n < 0
    <3>1. n + S \in 0 .. S - 1 /\ n = (n + S) + (-1) * S
      BY <1>1, <2>2
    <3>2. n % S = n + S
      <4>1. ((n + S) + (-1) * S) % S = n + S
        BY <1>1, <3>1, ModShift
      <4> QED BY <3>1, <4>1
    <3>3. PICK q \in Int : S = q * M
      BY <1>1
    <3>4. n + H \in 0 .. M - 1 /\ (n + S) + H = (n + H) + q * M
      BY <1>1, <3>3
    <3>5. ((n + S) + H) % M = n + H
      <4>1. ((n + H) + q * M) % M = n + H
        BY <1>1, <3>3, <3>4, ModShift
      <4> QED BY <3>4, <4>1
    <3> QED BY <1>1, <1>2, <1>3, <3>2, <3>5
  <2> QED BY <1>1, <2>1, <2>2
<1> QED BY <1>4, <1>5

\* rocksdb-readoptions->alist and rocksdb-writeoptions->alist give back what
\* the constructor was given, through the unsigned fields in between.
THEOREM AlistsComeBack == Spec => []AlistRoundTrip
<1>1. ASSUME IInv PROVE AlistRoundTrip
  <2> SUFFICES ASSUME outcome = "made", NEW k \in GivenKeys
               PROVE  LET m == Meaning(RowOf(ctor, k), Meant(k))
                      IN  /\ ctor = "write" => WriteAlist(k) = m
                          /\ ctor = "read" /\ m.is \in {"boolean", "integer"}
                                => ReadAlist(k) = m
    BY DEF AlistRoundTrip
  <2> DEFINE r == RowOf(ctor, k)
             v == Meant(k)
             m == Meaning(r, v)
  <2>1. k \in Keys(ctor)
    <3>1. Typed /\ Ahead = {} /\ at \in {0} \cup DOMAIN Work
      BY <1>1 DEF IInv, TypeOK, Typed, MadeIsDone
    <3>2. k # Unknown
      <4>1. CASE ctor # "read"
        BY <1>1, <4>1 DEF IInv, KnownSoFar
      <4>2. CASE ctor = "read"
        <5>1. PICK i \in DOMAIN given : given[i].key = k
          BY DEF GivenKeys, Range
        <5>2. Work = given
          BY <4>2 DEF Work
        <5>3. PICK N \in Nat : DOMAIN Work \subseteq 1 .. N
          BY <3>1, WorkShape
        <5>4. i <= at
          BY <3>1, <5>1, <5>2, <5>3 DEF Ahead
        <5> QED BY <1>1, <5>1, <5>2, <5>4 DEF IInv, KnownSoFar
      <4> QED BY <4>1, <4>2
    <3>3. k \in Keys(ctor) \cup {Unknown}
      BY <3>1, LastPlace DEF Setting
    <3> QED BY <3>2, <3>3
  <2>2. /\ fields[k] \in Stored(r, v) /\ v \in Scheme
        /\ r \in Rows(ctor) /\ r.key = k /\ RowIsSound(r)
    BY <1>1, <2>1, MadeHoldsTheLast
  <2> HIDE DEF r, v, m
  <2>3. r.kind \in {"boolean", "string"} => fields[k] = m
    BY <2>2, StoredIsMeant DEF Narrow, m
  <2>4. CASE ctor = "write"
    <3>1. r.kind = "boolean"
      BY <2>2, <2>4, AlistRows
    <3> QED BY <2>3, <2>4, <3>1 DEF WriteAlist, m, r, v
  <2>5. ASSUME ctor = "read", m.is \in {"boolean", "integer"} PROVE ReadAlist(k) = m
    <3>1. /\ r.kind \in {"boolean", "refused", "string", "integer"}
          /\ r.kind = "integer" => r.conv = "int" /\ r.param \in {"int", "size_t"}
      BY <2>2, <2>5, AlistRows
    <3>2. v.is \in Admits[r.kind] /\ fields[k] \in Converted(r, v)
      BY <2>2 DEF Stored, WellTyped
    <3>3. CASE r.kind = "boolean"
      <4>1. fields[k].is = "boolean"
        BY <3>2, <3>3 DEF Converted, True, False, Val
      <4> QED BY <2>3, <3>3, <4>1 DEF ReadAlist
    <3>4. CASE r.kind = "refused"
      BY <3>2, <3>4 DEF Admits
    <3>5. CASE r.kind = "string"
      <4>1. v.is = "string" /\ m = v
        BY <3>2, <3>5 DEF Admits, Meaning, m
      <4> QED BY <2>5, <4>1
    <3>6. CASE r.kind = "integer"
      <4>1. v.is = "integer" /\ m = v
        BY <3>2, <3>6 DEF Admits, Meaning, m
      <4>2. v = Int_(v.num)
        BY <2>2, <4>1, IntegersAreNumbers
      <4>3. /\ fields[k] = Int_(AsParam(r.param, v.num))
            /\ v.num \in Accepted("int") /\ r.param \in {"int", "size_t"}
        BY <3>1, <3>2, <3>6 DEF Converted
      <4>4. fields[k].is = "integer" /\ fields[k].num = AsParam(r.param, v.num)
        BY <4>3 DEF Int_, Val
      <4>5. ReadAlist(k) = Int_(AsParam("int", AsParam(r.param, v.num)))
        BY <4>4 DEF ReadAlist
      <4> QED BY <4>1, <4>2, <4>3, <4>5, IntComesBack
    <3> QED BY <3>1, <3>3, <3>4, <3>5, <3>6
  <2> QED BY <2>4, <2>5 DEF m, r, v
<1> QED BY <1>1, InvIsInvariant, PTL
===============================================================================
