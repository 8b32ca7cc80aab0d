------------------------------ MODULE OptionFlow ------------------------------
(***************************************************************************)
(* Where the settings of an options object and of a database come from and *)
(* who can change them: guile-rocksdb-options-utils.cc, rocksdb-set-options*)
(* and set-create-if-missing! of guile-rocksdb-options.h, and the copies   *)
(* that rocksdb-open makes.                                                *)
(*                                                                         *)
(* home says which memory an object or a database reads its settings from; *)
(* nothing in the model but the copies in the code keeps these apart.      *)
(* meant is a history: the settings they were asked for.                   *)
(*                                                                         *)
(* rocksdb-set-options walks its alist pair by pair, and other threads go  *)
(* on meanwhile; the other calls are one step.  Strings made by            *)
(* rocksdb-options->string have the default delimiter.  Every call that    *)
(* RocksDB refuses raises, or returns #f and a message, and changes        *)
(* nothing; only FromString also has something to give up then.            *)
(***************************************************************************)
EXTENDS Naturals, Sequences, Functions

CONSTANTS
    Opt,      \* handles of type rocksdb-options
    Db,       \* databases, each in a directory of its own
    Name,     \* names of column families besides "default"
    Create,   \* the setting create_if_missing
    DbKey,    \* the other settings of a database
    CfKey,    \* the settings of a column family
    Mutable,  \* those of them RocksDB can change in an open database
    Pair,     \* what the alists for rocksdb-set-options have as elements: a
              \* setting and its value, or NULL for anything but two strings
    NULL,     \* nothing
    MaxPairs  \* bound: the length of the alists

Key == {Create} \cup DbKey \cup CfKey
ASSUME KeyAssumption == Mutable \subseteq CfKey /\ CfKey \cap ({Create} \cup DbKey) = {}
ASSUME HandleAssumption == NULL \notin Opt \cup Db /\ Opt \cap Db = {}
ASSUME BoundAssumption == MaxPairs \in Nat

Val        == {0, 1}
Settings   == [Key -> Val]
CfSettings == [CfKey -> Val]
ASSUME NullAssumption == NULL \notin CfSettings
DefaultSettings == [k \in Key |-> 0]
Place      == Opt \cup Db
ASSUME PairAssumption == Pair \subseteq (Key \X Val) \cup {NULL}
Alist == UNION {[1 .. n -> Pair] : n \in 0 .. MaxPairs}

VARIABLES
    value,   \* the settings in each place in memory
    freed,   \* the places destroyed
    home,    \* where each object and each database has its settings
    named,   \* the objects the program names
    open,    \* the databases that are open
    meant,   \* the settings each object or database was asked for
    family,  \* the settings of each database's other column families
    file,    \* the newest OPTIONS file of each database
    call     \* the rocksdb-set-options under way, or NULL

File == [main : Settings, family : [Name -> CfSettings \cup {NULL}]]
Call == [db : Db, alist : Alist, done : 0 .. MaxPairs]

memory == <<value, freed>>
vars   == <<memory, home, named, open, meant, family, file, call>>

TypeOK ==
    /\ value \in [Place -> Settings]
    /\ freed \subseteq Place
    /\ home \in [Opt \cup Db -> Place \cup {NULL}]
    /\ named \subseteq {o \in Opt : home[o] # NULL}
    /\ open \subseteq Db
    /\ meant \in [Opt \cup Db -> Settings]
    /\ family \in [Db -> [Name -> CfSettings \cup {NULL}]]
    /\ file \in [Db -> File \cup {NULL}]
    /\ call \in Call \cup {NULL}
    /\ call # NULL => call.done <= Len(call.alist)

Init ==
    /\ value = [p \in Place |-> DefaultSettings]
    /\ freed = {}
    /\ home = [x \in Opt \cup Db |-> NULL]
    /\ named = {}
    /\ open = {}
    /\ meant = [x \in Opt \cup Db |-> DefaultSettings]
    /\ family = [d \in Db |-> [n \in Name |-> NULL]]
    /\ file = [d \in Db |-> NULL]
    /\ call = NULL

-------------------------------------------------------------------------------
(* Helpers *)

\* The settings of s, and those of t that s does not have.
Over(s, t) == [k \in DOMAIN s \cup DOMAIN t |-> IF k \in DOMAIN s THEN s[k] ELSE t[k]]

Usable(o) == o \in named
Of(x) == value[home[x]]

\* Mutant: what is made shares the memory of what it was made from.
SharedHome(x, from) == IF home[from] = NULL THEN x ELSE home[from]
\* rocksdb_options_create_copy and new rocksdb_options_t{...}: a copy.
Home(x, from) == x

\* A new options object with settings s, read from another place; asked for were those of m.
Make(o, from, s, m) ==
    /\ home[o] = NULL
    /\ home' = [home EXCEPT ![o] = Home(o, from)]
    /\ value' = [value EXCEPT ![Home(o, from)] = s]
    /\ named' = named \cup {o}
    /\ meant' = [meant EXCEPT ![o] = m]

\* The OPTIONS file RocksDB writes when a database is opened or changed.
Written(d) == file' = [file EXCEPT ![d] = [main |-> value'[home'[d]], family |-> family'[d]]]

-------------------------------------------------------------------------------
(* Options objects *)

\* rocksdb-options-create; how it reads its keywords is in OptionConstructors.
OptionsCreate(o, s) == Make(o, o, s, s) /\ UNCHANGED <<freed, open, family, file, call>>

SetCreateIfMissing(o, v) ==
    /\ Usable(o)
    /\ value' = [value EXCEPT ![home[o]][Create] = v]
    /\ meant' = [meant EXCEPT ![o][Create] = v]
    /\ UNCHANGED <<freed, home, named, open, family, file, call>>

\* rocksdb->rocksdb-options.
GetOptions(d, o) ==
    /\ d \in open
    /\ Make(o, d, Of(d), meant[d])
    /\ UNCHANGED <<freed, open, family, file, call>>

\* Mutant: the string of the database's settings alone.
TextOfDb(s) == Restrict(s, {Create} \cup DbKey)
\* rocksdb-options->string: the two strings one after the other.
Text(s) == Over(Restrict(s, {Create} \cup DbKey), Restrict(s, CfKey))

\* Mutant: the base is destroyed whoever it belongs to.
AlwaysGivesUp(base) == TRUE
\* Whether string->rocksdb-options destroys its base when RocksDB refuses the
\* string: only one of its own, which no place of the model stands for.
GivesUp(base) == base = NULL

\* string->rocksdb-options of a string that says edit instead of what
\* rocksdb-options->string says of the object from, or, without one, edit
\* alone: a program makes such strings from rocksdb-options-string->alist.
FromString(o, base, from, edit) ==
    LET text   == IF from = NULL THEN edit ELSE Over(edit, Text(Of(from)))
        says   == IF from = NULL THEN edit ELSE Over(edit, meant[from])
        default == base = NULL
    IN  /\ home[o] = NULL
        /\ default \/ Usable(base)
        /\ from = NULL \/ Usable(from)
        /\ \/ /\ Make(o, o, Over(text, IF default THEN DefaultSettings ELSE Of(base)),
                            Over(says, IF default THEN DefaultSettings ELSE meant[base]))
              /\ UNCHANGED freed
           \/ /\ freed' = freed \cup {home[b] : b \in {b \in Opt : b = base /\ GivesUp(b)}}
              /\ UNCHANGED <<value, home, named, meant>>
        /\ UNCHANGED <<open, family, file, call>>

\* Mutants: the entry of a family has the settings of a new one, or no settings
\* of a database beside them.
EntryOfNew(d, n) == DefaultSettings
EntryOfFamily(d, n) == IF n \in Name THEN file[d].family[n] ELSE Restrict(file[d].main, CfKey)
\* The entry of family n in what the loaders return: new DBOptions and the
\* family's settings in the file.
Entry(d, n) ==
    Over(IF n \in Name THEN file[d].family[n] ELSE Restrict(file[d].main, CfKey), DefaultSettings)
\* The options they return before the entries: new ColumnFamilyOptions.
Root(d) == Over(Restrict(file[d].main, {Create} \cup DbKey), DefaultSettings)

\* load-options-from-file and load-latest-options make an object for the
\* database and one for each of its families; o is the one the program keeps.
LoadRoot(d, o) ==
    /\ file[d] # NULL
    /\ Make(o, o, Root(d), Over(Restrict(meant[d], {Create} \cup DbKey), DefaultSettings))
    /\ UNCHANGED <<freed, open, family, file, call>>

LoadEntry(d, n, o) ==
    /\ file[d] # NULL
    /\ n \in Name => file[d].family[n] # NULL
    /\ Make(o, o, Entry(d, n),
            Over(Restrict(IF n \in Name THEN family[d][n] ELSE meant[d], CfKey), DefaultSettings))
    /\ UNCHANGED <<freed, open, family, file, call>>

Drop(o) ==
    /\ Usable(o)
    /\ named' = named \ {o}
    /\ UNCHANGED <<memory, home, open, meant, family, file, call>>

\* The finalizer, SAFE_DESTROY_WITH(options, rocksdb_options_destroy).
Finalize(o) ==
    /\ home[o] # NULL /\ o \notin named /\ home[o] \notin freed
    /\ freed' = freed \cup {home[o]}
    /\ UNCHANGED <<value, home, named, open, meant, family, file, call>>

-------------------------------------------------------------------------------
(* Databases *)

\* rocksdb-open; RocksDB refuses what must be created and may not be, and a
\* database with families this call cannot name.
Open(d, o) ==
    /\ Usable(o) /\ d \notin open
    /\ file[d] # NULL \/ Of(o)[Create] = 1
    /\ \A n \in Name : family[d][n] = NULL
    /\ home' = [home EXCEPT ![d] = Home(d, o)]
    /\ value' = [value EXCEPT ![Home(d, o)] = Of(o)]
    /\ freed' = freed \ {d}
    /\ open' = open \cup {d}
    /\ meant' = [meant EXCEPT ![d] = meant[o]]
    /\ UNCHANGED <<named, family, call>>
    /\ Written(d)

Close(d) ==
    /\ d \in open
    /\ open' = open \ {d}
    /\ freed' = freed \cup {d}
    /\ UNCHANGED <<value, home, named, meant, family, file, call>>

\* rocksdb-create-column-family with the settings of o.
CreateColumnFamily(d, o, n) ==
    /\ d \in open /\ Usable(o)
    /\ family[d][n] = NULL
    /\ family' = [family EXCEPT ![d][n] = Restrict(Of(o), CfKey)]
    /\ UNCHANGED <<memory, home, named, open, meant, call>>
    /\ Written(d)

\* rocksdb-set-options begins: a foreign object and a list.
SetOptions(d, alist) ==
    /\ d \in open /\ call = NULL
    /\ call' = [db |-> d, alist |-> alist, done |-> 0]
    /\ UNCHANGED <<memory, home, named, open, meant, family, file>>

\* One round of the loop: both strings of the pair are copied, or it raises.
CopyPair ==
    /\ call # NULL /\ call.done < Len(call.alist)
    /\ call' = IF call.alist[call.done + 1] = NULL THEN NULL
               ELSE [call EXCEPT !.done = @ + 1]
    /\ UNCHANGED <<memory, home, named, open, meant, family, file>>

\* Mutant: scm_get_ref is called before the loop.
RefFoundAtFirst(d) == TRUE
\* scm_get_ref, after the loop.
RefFound(d) == d \in open

\* Mutant: of two pairs with the same key the first counts.
PlaceFirst(alist, k) ==
    CHOOSE i \in DOMAIN alist : alist[i][1] = k /\ \A j \in 1 .. i - 1 : alist[j][1] # k
\* rocksdb_set_options makes a map of the arrays: the last pair with a key.
PlaceOf(alist, k) ==
    CHOOSE i \in DOMAIN alist : /\ alist[i][1] = k
                              /\ \A j \in DOMAIN alist : j > i => alist[j][1] # k

KeysOf(alist) == {alist[i][1] : i \in DOMAIN alist}

\* The native, or an error: the database is closed, the map is empty, or has a
\* key that does not exist or cannot be changed.
ApplyOptions ==
    /\ call # NULL /\ call.done = Len(call.alist)
    /\ UNCHANGED <<freed, home, named, open, family>>
    /\ call' = NULL
    /\ LET d == call.db
           s == [k \in KeysOf(call.alist) |-> call.alist[PlaceOf(call.alist, k)][2]]
       IN  \/ /\ RefFound(d)
              /\ DOMAIN s # {} /\ DOMAIN s \subseteq Mutable
              /\ value' = [value EXCEPT ![home[d]] = Over(s, @)]
              /\ meant' = [meant EXCEPT ![d] = Over(s, @)]
              /\ Written(d)
           \/ UNCHANGED <<value, meant, file>>

-------------------------------------------------------------------------------
Edits == UNION {[K -> Val] : K \in {{}} \cup {{k} : k \in Key}}

Next ==
    \/ \E o \in Opt :
          \/ \E s \in Settings : OptionsCreate(o, s)
          \/ \E v \in Val : SetCreateIfMissing(o, v)
          \/ \E base, from \in Opt \cup {NULL}, edit \in Edits : FromString(o, base, from, edit)
          \/ Drop(o) \/ Finalize(o)
    \/ \E d \in Db, o \in Opt :
          \/ GetOptions(d, o) \/ LoadRoot(d, o) \/ Open(d, o)
          \/ \E n \in Name \cup {NULL} : LoadEntry(d, n, o)
          \/ \E n \in Name : CreateColumnFamily(d, o, n)
    \/ \E d \in Db : Close(d)
    \/ \E d \in Db, alist \in Alist : SetOptions(d, alist)
    \/ CopyPair \/ ApplyOptions

Spec == Init /\ [][Next]_vars

-------------------------------------------------------------------------------
(* Properties *)

\* Every object and every open database has the settings it was asked for:
\* none changes because another, a string or a file made from it does, and
\* what goes through a string or the OPTIONS file comes back.
SettingsAreTheirOwn ==
    \A x \in named \cup open : Of(x) = meant[x]

\* No object the program names, and no open database, is left with settings
\* that were destroyed: not by the finalizer of the object it was made from,
\* nor by a conversion that failed with it as its base.
NothingFreedIsUsed ==
    \A x \in named \cup open : home[x] \notin freed

\* rocksdb-set-options changes nothing, or every setting it names to the last
\* value given for it and no other, and then in a database that is open: a pair
\* that raises half way, or another thread's rocksdb-close!, leaves no trace.
SetOptionsIsWhole ==
    [][\A d \in Db : (d \in open) = (d \in open)' /\ file[d] # file'[d]
                        /\ family[d] = family'[d] =>
        /\ d \in open /\ call # NULL /\ call' = NULL
        /\ \A k \in Key :
             IF k \notin KeysOf(call.alist) THEN value'[d][k] = value[d][k]
             ELSE \E i \in DOMAIN call.alist :
                    /\ call.alist[i] = <<k, value'[d][k]>>
                    /\ \A j \in DOMAIN call.alist : call.alist[j][1] = k => j <= i]_vars
===============================================================================
