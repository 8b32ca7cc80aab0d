-------------------------- MODULE OptionConstructors --------------------------
(***************************************************************************)
(* The constructors of option objects: rocksdb-options-create,             *)
(* rocksdb-block-based-options-create, rocksdb-cuckoo-options-create and   *)
(* rocksdb-writeoptions-create, which take keyword arguments and apply     *)
(* them in an order of their own, and rocksdb-readoptions-create, which    *)
(* walks the alist it is given; rocksdb-plain-options-create and           *)
(* rocksdb-cache-create-lru, whose arguments are known by their places.    *)
(* Each row of a table below is one setting:                               *)
(* what the constructor checks of the value, which C type it converts it   *)
(* to, and which C type RocksDB's setter takes.                            *)
(*                                                                         *)
(* A constructor makes the native first, applies the settings one by one,  *)
(* and wraps the native last; a setting it refuses raises and abandons the *)
(* native half made.  C's integers keep their wrap-around, at small sizes. *)
(***************************************************************************)
EXTENDS Integers, Sequences, FiniteSetsExt

CONSTANTS
    IntHalf,      \* one more than the greatest int; 2 * IntHalf is 2^32
    SizeModulus,  \* 2^64
    Number,       \* the numbers programs pass
    MaxGiven      \* bound: how many settings a call is given

ASSUME WidthAssumption ==
    /\ IntHalf \in Nat \ {0}
    /\ SizeModulus \in Nat
    /\ SizeModulus > 2 * IntHalf /\ SizeModulus % (2 * IntHalf) = 0
ASSUME NumberAssumption == Number \subseteq Int
ASSUME GivenAssumption == MaxGiven \in Nat

VARIABLES
    ctor,      \* the constructor running, or last run
    given,     \* the settings it was given, in the program's order
    at,        \* the place in Work of the setting it applied last, or 0
    fields,    \* the settings of the native
    consumed,  \* the cache arguments whose "consumed?" slot it has set
    outcome    \* "running", "made" or "raised"

vars == <<ctor, given, at, fields, consumed, outcome>>

-------------------------------------------------------------------------------
(* Scheme values and what a native stores *)

Val(is, num, sym) == [is |-> is, num |-> num, sym |-> sym]
Default  == Val("default", 0, "-")
False    == Val("boolean", 0, "#f")
True     == Val("boolean", 1, "#t")
Int_(n)  == Val("integer", n, "-")

\* Of plain table options num is the user-key-len and sym says whether the
\* numbers for the bloom bits and the index sparseness fit an int and a size_t.
\* Of a filter policy num counts the numbers after the symbol; bloom stands for
\* bloom-full and ribbon too.  Elsewhere num is 0, and sym "-", where nothing
\* depends on it.
Objects ==
    {Val("real", 0, "1.5"), Val("string", 0, "k"), Val("cache", 0, "lru"),
     Val("block-based", 0, "-"), Val("cuckoo", 0, "-"), Val("plain", 0, "overflows")}
    \cup {Val("plain", n, "fits") : n \in Number}
Policies == {Val("pair", n, s) : n \in 0 .. 2, s \in {"bloom", "ribbon-hybrid", "none"}}
Names    == {"binary-search", "hash-search", "two-level-index-search",
             "binary-search-and-hash", "default", "jemalloc", "guile"}
Symbols  == {Val("symbol", 0, s) : s \in Names}
Scheme   == {False, True} \cup {Int_(n) : n \in Number} \cup Objects \cup Policies \cup Symbols

-------------------------------------------------------------------------------
(* The tables of settings, in the order the code applies them *)

Row(key, kind, conv, param, names) ==
    [key |-> key, kind |-> kind, conv |-> conv, param |-> param, names |-> names]
Num(key, conv, param) == Row(key, "integer", conv, param, <<>>)
Enum(key, names)      == Row(key, "symbol", "int", "int", names)
Plain(key, kind)      == Row(key, kind, "-", "-", <<>>)
Bool(key)             == Plain(key, "boolean")

\* The keyword for the high priority of index blocks is bound to a variable
\* that no code reads.
HighPriority == "cache-index-and-filter-blocks-with-high-priority"

BlockBased == <<
    Num("block-size", "size_t", "size_t"),
    Num("block-size-deviation", "int", "int"),
    Num("block-restart-interval", "int", "int"),
    Num("index-block-restart-interval", "int", "int"),
    Num("metadata-block-size", "size_t", "size_t"),
    Bool("partition-filters"),
    Bool("use-delta-encoding"),
    Bool("no-block-cache"),
    Plain("block-cache", "cache"),
    Plain("cache-compressed", "cache"),
    Bool("whole-key-filtering"),
    Num("format-version", "int", "int"),
    Enum("index-type", <<"binary-search", "hash-search", "two-level-index-search">>),
    Enum("data-block-index-type", <<"binary-search", "binary-search-and-hash">>),
    Plain("data-block-hash-ratio", "real"),
    Bool("hash-index-allow-collision"),
    Bool("cache-index-and-filter-blocks"),
    Plain(HighPriority, "unused"),
    Bool("pin-l0-filter-and-index-blocks-in-cache"),
    Bool("pin-top-level-index-and-filter"),
    Plain("filter-policy", "policy")>>

Cuckoo == <<
    Plain("hash-ratio", "real"),
    Num("max-search-depth", "size_t", "uint32_t"),
    Num("cuckoo-block-size", "size_t", "uint32_t"),
    Bool("identity-as-first-hash"),
    Bool("use-module-hash")>>

DbOptions == <<
    Bool("create-if-missing"),
    Num("info-log-level", "size_t", "int"),
    Num("write-buffer-size", "size_t", "size_t"),
    Num("num-levels", "size_t", "int"),
    Num("max-bytes-for-level-base", "size_t", "size_t"),
    Plain("max-bytes-for-level-multiplier", "real"),
    Bool("level-compaction-dynamic-level-bytes"),
    Num("max-subcompactions", "size_t", "uint32_t"),
    Num("max-background-jobs", "size_t", "int"),
    Plain("table-factory", "table")>>

WriteOptions == <<
    Bool("sync"), Bool("disable-wal"), Bool("ignore-missing-column-families"),
    Bool("no-slowdown"), Bool("low-pri"), Bool("memtable-insert-hint-per-batch")>>

\* The type of snapshots is never defined: the test of a snapshot refuses all.
ReadOptions == <<
    Bool("verify-checksums"), Bool("fill-cache"), Plain("snapshot", "refused"),
    Plain("iterate-upper-bound", "string"), Plain("iterate-lower-bound", "string"),
    Num("read-tier", "int", "int"), Bool("tailing"),
    Num("readahead-size", "int", "size_t"), Bool("prefix-same-as-start"),
    Bool("pin_data"), Bool("total-order-seek"),
    Num("max-skippable-internal-keys", "int", "size_t"),
    Bool("background-purge-on-iterator-cleanup"), Bool("ignore-range-deletions")>>

\* These are kept as they are, in the slots of a wrapper without a native, and
\* converted when rocksdb-options-create takes them for its table factory.
PlainTable == <<
    Plain("user-key-len", "exact"), Plain("bloom-bits-per-key", "exact"),
    Plain("hash-table-ratio", "real"), Plain("index-sparseness", "exact")>>

LruCache == <<
    Num("capacity", "size_t", "size_t"),
    Enum("allocator", <<"default", "jemalloc", "guile">>)>>

Table == [plain |-> PlainTable, cache |-> LruCache, block_based |-> BlockBased, cuckoo |-> Cuckoo, rocksdb |-> DbOptions,
          write |-> WriteOptions, read |-> ReadOptions]
Constructor == DOMAIN Table
Positional  == {"plain", "cache"}
Rows(c)     == Range(Table[c])
Keys(c)     == {r.key : r \in Rows(c)}
RowOf(c, k) == CHOOSE r \in Rows(c) : r.key = k

-------------------------------------------------------------------------------
(* Conversions *)

\* The range scm_to_<conv> accepts; it raises on any other number.
Accepted(conv) ==
    CASE conv = "size_t"   -> 0 .. SizeModulus - 1
      [] conv = "uint32_t" -> 0 .. 2 * IntHalf - 1
      [] conv = "int"      -> -IntHalf .. IntHalf - 1

\* C's implicit conversion to the setter's parameter type.
AsParam(param, n) ==
    CASE param = "size_t"   -> n % SizeModulus
      [] param = "uint32_t" -> n % (2 * IntHalf)
      [] param = "int"      -> ((n + IntHalf) % (2 * IntHalf)) - IntHalf

\* The values each kind of setting admits; a boolean is true unless it is #f,
\* whatever it is.
Tags == {"boolean", "integer", "real", "string", "cache", "symbol", "pair",
         "block-based", "cuckoo", "plain"}
Admits == [boolean |-> Tags, unused |-> Tags, refused |-> {},
           integer |-> {"integer"}, exact |-> {"integer"}, real |-> {"real", "integer"},
           symbol |-> {"symbol"}, cache |-> {"cache"}, string |-> {"string"},
           policy |-> {"pair"}, table |-> {"block-based", "cuckoo", "plain"}]

\* Mutant: the type of a cache is not asserted.
WellTypedButCaches(r, v) == r.kind = "cache" \/ v.is \in Admits[r.kind]
\* SCM_ASSERT_TYPE, scm_assert_foreign_object_type, or the conversion itself.
WellTyped(r, v) == v.is \in Admits[r.kind]

\* (bloom number), (ribbon-hybrid number number); every real becomes a double.
PolicyIsKnown(v) ==
    \/ v.sym = "bloom" /\ v.num >= 1
    \/ v.sym = "ribbon-hybrid" /\ v.num >= 2

\* What the native holds after the setting of row r is applied with v: at most
\* one value, none when the constructor raises instead.  The integers of plain
\* table options are converted only here.
Converted(r, v) ==
    CASE r.kind = "boolean" -> {IF v = False THEN False ELSE True}
      [] r.kind = "unused"  -> {Default}
      [] r.kind = "integer" ->
            {Int_(AsParam(r.param, n)) : n \in {v.num} \cap Accepted(r.conv)}
      [] r.kind = "symbol"  ->
            {Int_(i - 1) : i \in {j \in DOMAIN r.names : r.names[j] = v.sym}}
      [] r.kind = "policy"  -> {w \in {v} : PolicyIsKnown(w)}
      [] r.kind = "table"   ->
            {w \in {v} : w.is = "plain" =>
                            w.num \in Accepted("uint32_t") /\ w.sym = "fits"}
      [] OTHER              -> {v}

\* rocksdb_jemalloc_nodump_allocator_create may set err.
MayLack(k, v) == k = "allocator" /\ v.sym = "jemalloc"

Stored(r, v) == IF WellTyped(r, v) THEN Converted(r, v) ELSE {}

-------------------------------------------------------------------------------
(* A call *)

GivenKeys == {e.key : e \in Range(given)}
PlacesOf(k) == {i \in DOMAIN given : given[i].key = k}
\* The rows of the table whose settings are given.
GivenRows == {i \in DOMAIN Table[ctor] : Table[ctor][i].key \in GivenKeys}

\* Mutants: the first of two occurrences counts, or every one is applied.
WorkFirstWins ==
    IF ctor = "read" THEN given
    ELSE [i \in GivenRows |-> given[Min(PlacesOf(Table[ctor][i].key))]]
WorkEveryOccurrence == given
\* The settings a call applies, each at its place in the order it applies them.
\* A keyword given twice is bound to its last value, and the code then asks for
\* one keyword after the other; an alist is walked as it is.
Work ==
    IF ctor = "read" THEN given
    ELSE [i \in GivenRows |-> given[Max(PlacesOf(Table[ctor][i].key))]]

Unknown == "no such setting"
Setting(c) == [key : Keys(c) \cup {Unknown}, val : Scheme]

TypeOK ==
    /\ ctor \in Constructor
    /\ given \in Seq(Setting(ctor)) /\ (ctor \in Positional \/ Len(given) <= MaxGiven)
    /\ at \in {0} \cup DOMAIN Work
    /\ DOMAIN fields = Keys(ctor)
    /\ \A k \in Keys(ctor) :
          fields[k].is \in {"default", "integer"} \cup Admits[RowOf(ctor, k).kind]
    /\ consumed \subseteq {"block-cache", "cache-compressed"}
    /\ outcome \in {"running", "made", "raised"}

\* The call starts: the native is made with RocksDB's defaults.  Binding the
\* keywords raises at once on one the constructor does not know.
Starts(c, g) ==
    /\ ctor = c /\ given = g
    /\ at = 0
    /\ fields = [k \in Keys(c) |-> Default]
    /\ consumed = {}
    /\ outcome = IF c # "read" /\ \E e \in Range(g) : e.key = Unknown
                   THEN "raised" ELSE "running"

\* Values worth telling apart for a key: those of its kind and one of another.
Candidates(c, k) ==
    IF k = Unknown THEN {True}
    ELSE LET kind == RowOf(c, k).kind
         IN  CASE kind = "boolean" -> {False, True, Val("string", 0, "k")}
               [] kind = "unused"  -> {False, True}
               [] kind \in {"integer", "exact"} -> {Int_(n) : n \in Number} \cup {Val("real", 0, "1.5")}
               [] kind = "symbol"  -> Symbols \cup {True}
               [] kind = "policy"  -> Policies \cup {True}
               [] OTHER            -> Objects \cup {True}
Entries(c) ==
    UNION {{[key |-> k, val |-> v] : v \in Candidates(c, k)} : k \in Keys(c) \cup {Unknown}}
\* By their places: all the arguments, or all but the optional allocator.
Arities == [plain |-> {4}, cache |-> {1, 2}]
Places(c, n) ==
    {[i \in 1 .. n |-> [key |-> Table[c][i].key, val |-> v[i]]] :
        v \in {v \in [1 .. n -> UNION {Candidates(c, k) : k \in Keys(c)}] :
                 \A i \in 1 .. n : v[i] \in Candidates(c, Table[c][i].key)}}
Inputs(c) == IF c \in Positional THEN UNION {Places(c, n) : n \in Arities[c]}
             ELSE UNION {[1 .. n -> Entries(c)] : n \in 0 .. MaxGiven}

Init == \E c \in Constructor : \E g \in Inputs(c) : Starts(c, g)

Ahead   == {i \in DOMAIN Work : i > at}
Running == outcome = "running" /\ Ahead # {}
Next_   == Work[Min(Ahead)]

\* Caches are marked consumed before their native is handed over.
Apply ==
    /\ Running
    /\ Next_.key # Unknown
    /\ LET r == RowOf(ctor, Next_.key)
       IN  /\ \E w \in Stored(r, Next_.val) : fields' = [fields EXCEPT ![r.key] = w]
           /\ consumed' = IF r.kind = "cache" THEN consumed \cup {r.key} ELSE consumed
    /\ at' = Min(Ahead)
    /\ UNCHANGED <<ctor, given, outcome>>

\* A value that fails its check, or in an alist a key nobody knows, raises.
\* So does an allocator that RocksDB was built without.
Raise ==
    /\ Running
    /\ Next_.key # Unknown => \/ Stored(RowOf(ctor, Next_.key), Next_.val) = {}
                              \/ MayLack(Next_.key, Next_.val)
    /\ outcome' = "raised"
    /\ UNCHANGED <<ctor, given, at, fields, consumed>>

Wrap ==
    /\ outcome = "running" /\ Ahead = {}
    /\ outcome' = "made"
    /\ UNCHANGED <<ctor, given, at, fields, consumed>>

Next == Apply \/ Raise \/ Wrap
Spec == Init /\ [][Next]_vars

-------------------------------------------------------------------------------
(* rocksdb-writeoptions->alist and rocksdb-readoptions->alist *)

\* Mutant: the getter's number is taken for an unsigned one.
ReadAlistUnsigned(k) ==
    IF fields[k].is = "integer" THEN Int_(AsParam("uint32_t", fields[k].num)) ELSE fields[k]
\* The numbers of read options come back through scm_from_int.
ReadAlist(k) ==
    IF fields[k].is = "integer" THEN Int_(AsParam("int", fields[k].num)) ELSE fields[k]

\* Write options are all booleans.
WriteAlist(k) == fields[k]

-------------------------------------------------------------------------------
(* Properties *)

\* The last value the program gave for k.
Meant(k) == given[Max(PlacesOf(k))].val
\* A number the setter's parameter cannot hold is cut silently: the settings
\* converted with scm_to_size_t for an int or a uint32_t.
Narrow(r, v) == r.kind = "integer" => AsParam(r.param, v.num) = v.num
\* The reference: what a setting given as v is meant to be.
Meaning(r, v) ==
    CASE r.kind = "boolean" -> Val("boolean", IF v = False THEN 0 ELSE 1,
                                   IF v = False THEN "#f" ELSE "#t")
      [] r.kind = "symbol"  -> Int_((CHOOSE i \in DOMAIN r.names : r.names[i] = v.sym) - 1)
      [] OTHER              -> v

Arrives(k) ==
    LET r == RowOf(ctor, k)
    IN  fields[k] = IF k \in GivenKeys THEN Meaning(r, Meant(k)) ELSE Default

\* An object that was made has every setting the program gave, the last one
\* where it gave two, and RocksDB's defaults elsewhere.  The keyword that no code
\* reads is left out, and so are numbers that the setter's type cuts.
SettingsArrive ==
    outcome = "made" =>
        \A k \in Keys(ctor) \ {HighPriority} :
            (k \in GivenKeys => Narrow(RowOf(ctor, k), Meant(k))) => Arrives(k)

\* A constructor with keywords raises only because of a keyword it does not
\* know or of a value that would have counted; one overridden by a later value
\* of the same keyword is never looked at.
RaisesForCause ==
    outcome = "raised" /\ ctor # "read" =>
        \/ Unknown \in GivenKeys
        \/ \E k \in GivenKeys : \/ Stored(RowOf(ctor, k), Meant(k)) = {}
                                \/ MayLack(k, Meant(k))

\* What rocksdb-readoptions->alist and rocksdb-writeoptions->alist answer is
\* what the constructor was given, although negative numbers are stored in
\* unsigned fields on the way.
AlistRoundTrip ==
    outcome = "made" =>
        \A k \in GivenKeys :
            LET m == Meaning(RowOf(ctor, k), Meant(k))
            IN  /\ ctor = "write" => WriteAlist(k) = m
                /\ ctor = "read" /\ m.is \in {"boolean", "integer"} => ReadAlist(k) = m
===============================================================================
