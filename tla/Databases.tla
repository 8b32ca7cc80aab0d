------------------------------- MODULE Databases -------------------------------
(***************************************************************************)
(* The databases a program opens and what it keeps in them:                *)
(* guile-rocksdb-main.h over the directories of RocksDB, the LOCK file of  *)
(* a directory, its column families, the write-ahead log that a write      *)
(* option switches off, and the ways a database is closed: rocksdb-close!, *)
(* the finalizer of a handle nobody names any more, the end of the process.*)
(*                                                                         *)
(* account and maybe are histories, a diligent program's own books: what   *)
(* the calls that returned have stored, and what each key may hold after   *)
(* the process ends without closing.  A call is one step here; how calls   *)
(* and finalizers meet inside one is the subject of ForeignObjects.  Any   *)
(* call may also be refused by RocksDB for reasons of its own; it raises,  *)
(* and changes nothing: a step that is not seen here.                      *)
(***************************************************************************)
EXTENDS Naturals, FiniteSets

CONSTANTS
    Dir,       \* directories
    Db,        \* handles of type rocksdb
    Cf,        \* handles of type rocksdb-column-family-handle
    Name,      \* names of column families besides "default"
    Default,   \* the family every database has
    MaxKey,    \* keys are 1 .. MaxKey, in RocksDB's order
    Value,     \* the values a program stores
    NULL,      \* no value, no handle, no family
    MaxWrites  \* bound: how many puts and deletes there are

ASSUME NameAssumption == Default \notin Name /\ NULL \notin Name \cup {Default}
ASSUME NullAssumption == NULL \notin Db /\ NULL \notin Cf /\ NULL \notin Value
ASSUME BoundAssumption == MaxKey \in Nat \ {0} /\ MaxWrites \in Nat

Family == Name \cup {Default}
Key    == 1 .. MaxKey

VARIABLES
    on,       \* the families of the database in each directory, none if absent
    present,  \* what they hold
    safe,     \* what of it is in a log or a table file
    lock,     \* the handle that has a directory's LOCK, or NULL
    db,       \* the handles of databases
    cf,       \* the handles of column families
    account,  \* what the calls that returned have stored
    maybe,    \* what a key may hold if the process ended now
    writes    \* how many writes there have been

disk    == <<on, present, safe>>
books   == <<account, maybe>>
vars    == <<disk, lock, db, cf, books, writes>>

\* An entry as it lies in a table: DBWithTTL appends a time stamp to values.
Entry == [val : Value \cup {NULL}, stamped : BOOLEAN]
Gone  == [val |-> NULL, stamped |-> FALSE]

States == {"unborn", "open", "closed"}
DbHandle == [state : States, dir : Dir \cup {NULL},
             mode : {"write", "ttl", "read", "none"},
             names : SUBSET {"handle", "iterator"}]
CfHandle == [state : States, db : Db \cup {NULL}, asked : Family \cup {NULL},
             rep : Family \cup {NULL}]
UnbornDb == [state |-> "unborn", dir |-> NULL, mode |-> "none", names |-> {}]
UnbornCf == [state |-> "unborn", db |-> NULL, asked |-> NULL, rep |-> NULL]

TypeOK ==
    /\ on \in [Dir -> SUBSET Family]
    /\ present \in [Dir -> [Family -> [Key -> Entry]]]
    /\ safe \in [Dir -> [Family -> [Key -> Entry]]]
    /\ lock \in [Dir -> Db \cup {NULL}]
    /\ db \in [Db -> DbHandle]
    /\ cf \in [Cf -> CfHandle]
    /\ account \in [Dir -> [Family -> [Key -> Value \cup {NULL}]]]
    /\ maybe \in [Dir -> [Family -> [Key -> SUBSET (Value \cup {NULL})]]]
    /\ writes \in 0 .. MaxWrites

Init ==
    /\ on = [dir \in Dir |-> {}]
    /\ present = [dir \in Dir |-> [n \in Family |-> [k \in Key |-> Gone]]]
    /\ safe = present
    /\ lock = [dir \in Dir |-> NULL]
    /\ db = [d \in Db |-> UnbornDb]
    /\ cf = [c \in Cf |-> UnbornCf]
    /\ account = [dir \in Dir |-> [n \in Family |-> [k \in Key |-> NULL]]]
    /\ maybe = [dir \in Dir |-> [n \in Family |-> [k \in Key |-> {NULL}]]]
    /\ writes = 0

-------------------------------------------------------------------------------
(* Opening *)

\* The conditions under which RocksDB opens a directory.  rocksdb_open and
\* rocksdb_open_with_ttl open the family "default" alone, which RocksDB refuses
\* for a database that has others, and need the LOCK; read-only opens need
\* neither, but the database must be there whatever create-if-missing says.
Openable(dir, mode, create) ==
    IF mode = "read" THEN Default \in on[dir]
    ELSE /\ lock[dir] = NULL
         /\ on[dir] \subseteq {Default}
         /\ on[dir] = {} => create

\* rocksdb-open, -open-with-ttl and -open-for-read-only; the ones RocksDB
\* refuses raise and leave no wrapper.
Open(d, dir, mode, create) ==
    /\ db[d].state = "unborn"
    /\ Openable(dir, mode, create)
    /\ db' = [db EXCEPT ![d] = [state |-> "open", dir |-> dir, mode |-> mode,
                                names |-> {"handle"}]]
    /\ on' = [on EXCEPT ![dir] = @ \cup {Default}]
    /\ lock' = IF mode = "read" THEN lock ELSE [lock EXCEPT ![dir] = d]
    /\ UNCHANGED <<present, safe, cf, books, writes>>

\* The program names the handle, and scm_get_ref finds its slot set.
Usable(d) == db[d].state = "open" /\ "handle" \in db[d].names

\* Mutant: the slot is given what stands for an option that was left out.
KeeperUnbound == "unbound"
\* An iterator keeps its database in its db slot.  The _cf variant, given a
\* handle without a family, hands RocksDB a null family; RocksDB reads
\* through it, and the process ends: that step is Exit.
Keeper == "iterator"
CreateIterator(d) ==
    /\ Usable(d)
    /\ db' = [db EXCEPT ![d].names = @ \cup {Keeper}]
    /\ UNCHANGED <<disk, lock, cf, books, writes>>

-------------------------------------------------------------------------------
(* Column families *)

\* Whether RocksDB can create the family.
Creates(d, n) == db[d].mode # "read" /\ n \notin on[db[d].dir]

\* rocksdb-create-column-family: err is not looked at, and a handle is made
\* whose native holds no family when RocksDB created none.
CreateColumnFamily(d, c, n) ==
    /\ Usable(d)
    /\ cf[c].state = "unborn"
    /\ cf' = [cf EXCEPT ![c] = [state |-> "open", db |-> d, asked |-> n,
                                rep |-> IF Creates(d, n) THEN n ELSE NULL]]
    /\ on' = IF Creates(d, n) THEN [on EXCEPT ![db[d].dir] = @ \cup {n}] ELSE on
    /\ UNCHANGED <<present, safe, lock, db, books, writes>>

\* A handle whose native holds no family.
Hollow(c) == cf[c].state = "open" /\ cf[c].rep = NULL

\* The family a call of the binding is about, through the handle c or, for the
\* bindings without one, NULL; and the family RocksDB turns to.  To the natives
\* that write, no family means the one with number 0.
Asked(c)  == IF c = NULL THEN Default ELSE cf[c].asked
\* Mutant: the _cf bindings call the natives without a family.
TargetAlwaysDefault(c) == Default
Target(c) == IF c = NULL \/ Hollow(c) THEN Default ELSE cf[c].rep

-------------------------------------------------------------------------------
(* Writing *)

\* The err of the native is set: a read-only database writes nothing.
Refused(d) == db[d].mode = "read"
\* Mutant: err is ignored, as in rocksdb-create-column-family.
RaisesNever(d) == FALSE
\* if(err != NULL) scm_syserror(err)
Raises(d) == Refused(d)

\* Setting the keys K of family n of a directory's table to e.
Set(table, dir, n, K, e) ==
    [table EXCEPT ![dir][n] = [k \in Key |-> IF k \in K THEN e ELSE @[k]]]

\* What the program learns of a write that returned: the keys hold v, and will
\* after a crash if the write was logged.
Acknowledge(dir, n, K, v, logged) ==
    /\ account' = Set(account, dir, n, K, v)
    /\ maybe' = [maybe EXCEPT ![dir][n] =
                   [k \in Key |-> IF k \notin K THEN @[k]
                                  ELSE IF logged THEN {v} ELSE @[k] \cup {v}]]

\* A write through d to the keys K of the family of c; logged is not
\* :disable-wal.  Handles go with the database they were created from.
Write(d, c, K, v, logged) ==
    LET dir == db[d].dir
        e   == [val |-> v, stamped |-> v # NULL /\ db[d].mode = "ttl"]
    IN  /\ Usable(d)
        /\ c # NULL => cf[c].state = "open" /\ cf[c].db = d
        /\ writes < MaxWrites
        /\ writes' = writes + 1
        /\ IF Refused(d) THEN UNCHANGED <<present, safe>>
           ELSE /\ present' = Set(present, dir, Target(c), K, e)
                /\ safe' = IF logged THEN Set(safe, dir, Target(c), K, e) ELSE safe
        /\ IF Raises(d) THEN UNCHANGED books
           ELSE Acknowledge(dir, Asked(c), K, v, logged)
        /\ UNCHANGED <<on, lock, db, cf>>

\* rocksdb-put and rocksdb-put-cf.
Put(d, c, k, v, logged) == Write(d, c, {k}, v, logged)

\* rocksdb-delete and rocksdb-delete-cf.
Delete(d, c, k, logged) == Write(d, c, {k}, NULL, logged)

\* rocksdb-delete-range-cf, which takes a handle: start included, end excluded.
DeleteRange(d, c, start, end, logged) ==
    c # NULL /\ Write(d, c, start .. end - 1, NULL, logged)

\* RocksDB writes the tables of a family to files when it sees fit.
Flush(dir, n) ==
    /\ lock[dir] # NULL
    /\ safe' = [safe EXCEPT ![dir][n] = present[dir][n]]
    /\ UNCHANGED <<on, present, lock, db, cf, books, writes>>

-------------------------------------------------------------------------------
(* Closing *)

\* Mutant: the slot is cleared and the native left alone.
ReleaseSlotOnly(d) == UNCHANGED <<safe, lock>>
\* rocksdb_close: what no log holds is flushed, the LOCK is let go.
Release(d) ==
    LET dir == db[d].dir
    IN  IF lock[dir] = d
          THEN /\ safe' = [safe EXCEPT ![dir] = present[dir]]
               /\ lock' = [lock EXCEPT ![dir] = NULL]
          ELSE UNCHANGED <<safe, lock>>

\* A program that closes counts on everything it wrote.
Settle(d) ==
    maybe' = IF db[d].mode = "read" THEN maybe
             ELSE [maybe EXCEPT ![db[d].dir] =
                     [n \in Family |-> [k \in Key |-> {account[db[d].dir][n][k]}]]]

Destroy(d) ==
    /\ Release(d)
    /\ Settle(d)
    /\ db' = [db EXCEPT ![d].state = "closed"]
    /\ UNCHANGED <<on, present, cf, account, writes>>

\* rocksdb-close!; on a closed database it does nothing.
Close(d) == Usable(d) /\ Destroy(d)

\* The program forgets a handle or its iterators.
Drop(d, x) ==
    /\ x \in db[d].names
    /\ db' = [db EXCEPT ![d].names = @ \ {x}]
    /\ UNCHANGED <<disk, lock, cf, books, writes>>

\* Mutant: the macro of the iterators, which looks for an open parent first.
DestroyableWithParent(d) == db[d].state = "open" /\ "iterator" \in db[d].names
\* SAFE_DESTROY_WITH: slot 0 is set.
Destroyable(d) == db[d].state = "open"

\* The finalizer of a handle neither the program nor an iterator names.
Finalize(d) == db[d].names = {} /\ Destroyable(d) /\ Destroy(d)

\* The process ends or is killed: Guile runs no finalizer then.  The next one
\* finds what is safe, and starts its books from it.
Exit ==
    /\ \E d \in Db : db[d].state = "open"
    /\ db' = [d \in Db |-> IF db[d].state = "open"
                             THEN [db[d] EXCEPT !.state = "closed", !.names = {}]
                             ELSE [db[d] EXCEPT !.names = {}]]
    /\ cf' = [c \in Cf |-> IF cf[c].state = "open"
                             THEN [cf[c] EXCEPT !.state = "closed"] ELSE cf[c]]
    /\ lock' = [dir \in Dir |-> NULL]
    /\ present' = safe
    /\ account' = [dir \in Dir |-> [n \in Family |-> [k \in Key |-> safe[dir][n][k].val]]]
    /\ maybe' = [dir \in Dir |-> [n \in Family |-> [k \in Key |-> {safe[dir][n][k].val}]]]
    /\ UNCHANGED <<on, safe, writes>>

-------------------------------------------------------------------------------
Next ==
    \/ \E d \in Db, dir \in Dir, mode \in {"write", "ttl", "read"}, create \in BOOLEAN :
          Open(d, dir, mode, create)
    \/ \E d \in Db : CreateIterator(d) \/ Close(d) \/ Finalize(d)
    \/ \E d \in Db, x \in {"handle", "iterator"} : Drop(d, x)
    \/ \E d \in Db, c \in Cf, n \in Family : CreateColumnFamily(d, c, n)
    \/ \E d \in Db, c \in Cf \cup {NULL}, logged \in BOOLEAN, k \in Key :
          \/ \E v \in Value : Put(d, c, k, v, logged)
          \/ Delete(d, c, k, logged)
          \/ \E end \in Key : DeleteRange(d, c, k, end, logged)
    \/ \E dir \in Dir, n \in Family : Flush(dir, n)
    \/ Exit

Spec == Init /\ [][Next]_vars

\* Collections keep happening and the finalization thread runs what they find;
\* a program owes no call.
FairSpec == Spec /\ \A d \in Db : WF_vars(Finalize(d))

-------------------------------------------------------------------------------
(* Properties *)

\* No handle the program holds, or held, is one RocksDB made no family for.
NoneHollow == \A c \in Cf : cf[c].asked # NULL => cf[c].rep # NULL

\* A directory opened always with or always without time stamps.
OneKind(dir) ==
    \/ \A d \in Db : db[d].dir = dir => db[d].mode = "ttl"
    \/ \A d \in Db : db[d].dir = dir => db[d].mode # "ttl"

\* What rocksdb-get, or an iterator, answers through d; anything else than a
\* value where the entry was written by the other kind of database.
Garbled == "the value with a stamp, without its end, or an error"
Answer(d, n, k) ==
    LET e == present[db[d].dir][n][k]
    IN  IF e.val = NULL \/ (e.stamped <=> db[d].mode = "ttl") THEN e.val ELSE Garbled

\* A database that is open for writing answers what the calls that returned
\* have stored in the family they named - whichever handles wrote, were closed,
\* lost or cut short in between - as long as no creation of a family failed
\* unseen and TTL databases are always opened as such.
AnswersLastWrite ==
    NoneHollow =>
        \A d \in Db : db[d].state = "open" /\ db[d].mode # "read" /\ OneKind(db[d].dir) =>
            \A n \in Family, k \in Key :
                Answer(d, n, k) = account[db[d].dir][n][k]

\* The bindings implement DurableStore as long as no creation of a family failed
\* unseen: the store holds what the writes that returned put there, and however
\* the process ends, a logged write is kept, and so is any other once its
\* database was closed or finalized.
Contents == [dir \in Dir |-> [n \in Family |-> [k \in Key |-> present[dir][n][k].val]]]
Durable == INSTANCE DurableStore WITH content <- Contents, possible <- maybe
ImplementsDurableStore ==
    Durable!StoreInit /\ [][NoneHollow' => Durable!StoreNext]_(Durable!svars)

\* Once rocksdb-close! has returned, or the finalizer has run, the directory is
\* free for the next rocksdb-open: no closed handle has its LOCK.
ClosedIsUnlocked == \A dir \in Dir : lock[dir] # NULL => db[lock[dir]].state = "open"

\* A directory whose database the program only lost, without closing it, can be
\* opened again in the end.
LostIsUnlocked ==
    \A dir \in Dir, d \in Db :
        (lock[dir] = d /\ db[d].names = {}) ~> (lock[dir] # d)

\* A write lands in the family its handle was asked for: what the assertions on
\* the argument of the _cf bindings are for.
WritesLandWhereAsked ==
    \A dir \in Dir, n \in Family, k \in Key :
        present[dir][n][k].val = account[dir][n][k]
===============================================================================
