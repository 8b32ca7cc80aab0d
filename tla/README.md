# guile-rocksdb: models, checks and proofs

TLA+ models of [guile-rocksdb](../src), the Guile bindings of RocksDB: about 1900
lines of C and C++ under `src/c_src`, loaded as one Guile extension.  RocksDB
itself and Guile's runtime are external; they are modelled from the way this code
uses them.

## The system

Every binding is a C function a Scheme program calls.  Natives of RocksDB are
wrapped in Guile *foreign objects* whose slot 0 is the native pointer; further
slots keep other wrappers reachable.  There is no server and no background work
of its own: concurrency comes from Guile threads that call the bindings, from
Guile's finalization thread that runs the destructors, and from writers of the
same database.

| Component (files in `src/c_src`) | State it keeps | Operations | What makes it correct |
|---|---|---|---|
| foreign objects (`guile-rocksdb.h`, `.c`) | slots, `destroy_mutex` | `scm_get_ref`, `SAFE_DESTROY_WITH(_2)`, `MX` | a native is destroyed once; never used after; the mutex is always released |
| database (`-main.h`) | native, column family handles, its directory | open (3 ways), close, put/get/delete/write and `_cf` variants | what a write that returned stored is read and survives; the directory is free once closed or lost |
| iterator (`-iterator.h`, `-iterator-utils.cc`) | native cursor, slots `db` and `opts` | create, seeks, next, prev, key, value, unsafe reads, refresh | destroyed before its database; scans complete and in order |
| checkpoint (`-checkpoint.h`) | native | create, use, destroy | not used after the database |
| options (`-options.h`, `-table-options.h`, `-readoptions.h`, `-writeoptions.h`, `-options-utils.cc`) | natives with settings | keyword and alist constructors, ->alist, string and file conversions | what was given arrives; failure leaves nothing behind |
| cache (`-cache.h`, `-cache-utils.cc`) | native, slot `consumed?` | create, destroy | neither freed in use nor lost |
| backup engine (`-backup.h`) | native, info snapshots | backup, purge, verify, restore, info | purge keeps what was asked, info indexes in range |
| write batch (`-writebatch.h`), environment (`-env.h`) | native | create, destroy | as any foreign object |

How they interact: an iterator points to its database, its column family and its
read options, and keeps the first and the last of these in slots; a column family
handle and a checkpoint point to their database and keep nothing; options are
copied into whatever is made from them; a cache is shared into table options.
All destructors run on the finalization thread, and all but those of options and
write batches take `destroy_mutex`; `rocksdb-close!` is the one destructor a
program can call itself, and on any foreign object: it checks no type.

What is hard, and hard to test: the order of finalizers, which the collector does
not fix; a close or a finalizer racing a call; a wrapper whose native is gone
although its own slot is set; errors raised half way, inside the mutex or with a
native half made; conversions between integers of different widths; cursors off
the end and scans under writes.  `PROJECT.json` lists each at its line.

## Modules

* `NativeLifetime` - the abstract specification: a native is made once, destroyed
  at most once, an iterator only while its database is open unless the program asked
  for it (`asked`), and only an iterator whose database went first may be given up.
* `ForeignObjects` - the core.  A handle stands for a wrapper and the native in its
  slot 0.  `ref` is the set of handles whose slot 0 is set, `keeps` the other
  slots, `deps` what the native points to, `freed` the natives destroyed.  A call
  is two steps: `Call...` checks the arguments (`GetRef` is `scm_get_ref`) and
  `Native` runs RocksDB and wraps the result; in between the C function holds
  raw pointers and no lock.  A destroy is `Lock`, `Destroy` (test and destructor),
  `Clear` (slot 0 := NULL), `Unlock`, by a thread in `rocksdb-close!` or by the
  finalization thread.  `Collect` queues everything unreachable at once;
  `Finalize` takes one from the queue, in any order.  An access to a native that
  is gone does not stop the model but is recorded in `faults`, so that the
  properties can say which accesses happen and which never do.  `closed` is the
  history of what the program passed to `rocksdb-close!`: a database, a handle of any
  other kind (`Closable`; its slot 0 is cleared under `destroy_mutex`, without the test
  of `SAFE_DESTROY_WITH_2`), or something that is no foreign object.  What
  `rocksdb_close` makes of a native of another type is undefined; the model takes it as
  the end of that native.  `ReadOptions` stands for every kind whose finalizer takes no
  mutex.
* `OrderedScan` - the abstract specification of a scan: begun at a key, in a
  direction, over keys that nobody changes while it lasts, it hands out one after the
  other what lies ahead.
* `IteratorCursor` - where each binding leaves an iterator; `snap` is the state of
  the database it reads, `path` the keys a scan has stood on, `misused` the bindings
  that called a native off the end.  `Way`, `Shown` and `ToCome` map it to
  `OrderedScan`: a program that turns round, goes off by `rocksdb-iter-seek-to-last!`
  or refreshes gives the abstract scan up.
* `OptionConstructors` - the constructors of option objects and of caches.  The
  tables `BlockBased`, `PlainTable`, `Cuckoo`, `DbOptions`, `WriteOptions`,
  `ReadOptions` and `LruCache` list each setting as the code applies it: its check,
  the `scm_to_...` conversion and the type of RocksDB's setter.  `Work` is what a call applies, each setting at its place in the order
  of application: keywords bound to their last value and positional arguments at the
  places of their rows, an alist as it is.  `at` is the place applied last.
  `Apply`, `Raise` and `Wrap` are one setting, an error, and the return of the new
  wrapper.
* `DurableStore` - the abstract specification of a database: what the writes that
  returned put there, and what of it a restart may give back.
* `Databases` - `guile-rocksdb-main.h` over the directories of RocksDB.  `on`,
  `present` and `safe` are what a directory holds in memory and on disk, `lock` its
  LOCK file, `db` and `cf` the handles and what names them.  `account` and `maybe`
  are histories, the books of a careful program.  `Open`, `CreateColumnFamily`,
  `Put`, `Delete`, `DeleteRange`, `Close` and `Finalize` are the bindings, one step
  each (what happens inside one is in `ForeignObjects`); `Flush` is RocksDB's, and
  `Exit` ends the process at any moment, without finalizers, and starts the next.
  A family that RocksDB did not create leaves a handle with `rep = NULL`.
* `Backups` - the backup engine over a directory of backups.  `engine` is the
  engine's list and last id, `info` the copy a program was given, `made` the history
  of all backups.  Counts and indexes pass through `size_t` and are converted to
  `uint32_t` and `int` as the calls in the code do.
* `OptionFlow` - where the settings of options objects and databases come from.
  `home` says which memory an object or a database reads its settings from and
  `value` what is there, so a missing copy would show; `meant` is the history of
  what each was asked for.  Strings and the OPTIONS file are modelled by the settings
  they carry.  `rocksdb-set-options` is `SetOptions`, one `CopyPair` per element of
  its list and `ApplyOptions`, since other threads may close the database meanwhile.
* `ForeignObjectsProofs`, `DatabasesProofs`, `BackupsProofs`, `OptionFlowProofs`,
  `IteratorCursorProofs`, `OptionConstructorsProofs` - the theorems.  `SetBounds` holds the
  lemmas about `Min` and `Max` that the last two share.
* `MC...` - what TLC needs besides: symmetry and the numbers at the edges of the C
  types.

How they compose: `ForeignObjects` has the life of wrappers, natives and threads and
implements `NativeLifetime`; `Databases` takes calls as atomic, which is what
`destroy_mutex` and the reachability theorems of `ForeignObjects` give a program
that does not race its own close, and implements `DurableStore`.  `IteratorCursor`
is what happens in one native of the first and implements `OrderedScan`, `OptionConstructors` how the objects of
`OptionFlow` come to their first settings.

## What the runs show

| Run | Bounds | Question |
|---|---|---|
| `one_thread` | 1 thread, 1 handle of each kind, a non-object, 6 calls | one program, closing whatever it has, and the finalizers: destroyed once; what the program did not close itself is destroyed in order, kept for the iterator that needs it, and no NULL to the seeks; `ForeignObjects` implements `NativeLifetime` |
| `two_threads` | 2 threads, database, iterator, options, 3 calls each, fair | closes and uses meeting in any interleaving, a use losing its native to a close alone; garbage is finalized, `rocksdb-close!` returns |
| `scan` | 4 keys, all stores and bounds, one concurrent write, at most 4 moves between placements | scans are complete, in order and of one state; turning back; who uses a cursor off the end; `IteratorCursor` implements `OrderedScan` |
| `constructors` | up to 2 settings per call, `int` -4..3, `uint32_t` 0..7, `size_t` 0..31 | settings arrive, errors have a cause, ->alist gives back what was given |
| `databases` | 1 directory, 2 handles, 1 named family and a handle of one, 2 keys, 3 writes, fair | reads give the last write that returned; crashes and exits keep what they must (`DurableStore`); a closed or lost database frees its directory |
| `backups` | 2 writes, 3 backups, counts and indexes -1, 0, 1, 2, 2^32 and 2^32 + 1 | the newest backup stays, restores do not go back, ids of an old info stay true |
| `option_flow` | 2 options objects, 1 database, 1 named family, 3 settings, lists of up to 2 pairs | objects and databases keep their own settings; `rocksdb-set-options` does all or nothing |

Why the bounds are enough.  A double destroy, or a destroy in the wrong order, needs
at most two actors and two handles; six calls make one handle of each kind and leave
one for a close.  Four keys allow a bound, a hole and a turn inside a scan.  Two
settings are what it takes for one to disturb the other, to be given twice, or to
raise after the first was applied.  Two handles of databases make a second opening,
by another kind of open, of a directory that the first closed, lost or still holds;
two keys make a range that includes its start and excludes its end; three writes
store, leave unlogged and overwrite.  Three backups leave a newest, a purged one and
one made after a purge; the scaled widths keep the order `int` < `uint32_t` <
`size_t` (`IntHalf` = 4, so 8 is 2^32).  Two options objects make a base and a source
of a string, or an object a database was opened with and one read from it; of the
three settings one belongs to the database, one to families and can be changed, one
to families and cannot.  The theorems lift the bounds of every passing run.

The threads of `ForeignObjects` may stop after their last call, a constructor ends
when it returns, and the handles of `Databases` and `OptionFlow` run out: hence
`CHECK_DEADLOCK FALSE` there.  A database can be opened once a handle, and handles
are not reused.

Runs that end in a violation, each a disagreement of the code with what it says:

* `use_after_close` - after `rocksdb-close!` of a database an iterator of it is used
  without the error "using object after destruction" (one thread, no other handles).
* `lost_database` - a program forgets its database and keeps a checkpoint, whose wrapper
  has no slot for the database: the finalizer closes it under the checkpoint.  (The same
  goes for a column family handle, but the bindings that take one take the database too.)
* `close_non_object` - `rocksdb-close!` of, say, a number raises between lock and
  unlock: `destroy_mutex` stays locked for ever.
* `seek_to_last` - it calls `rocksdb_iter_seek_to_first`.
* `lost_family` - `rocksdb-create-column-family` of a family that exists already
  returns a handle without one; what is put through it lands in the default family.

Three more defects are in the model without a run of their own, since the properties
that pass name them as their exception: `rocksdb-close!` of an iterator clears its slot
0, and the next seek, which reads the slot without `scm_get_ref`, passes NULL to RocksDB
(`NoNullDereference`); a thread has passed `scm_get_ref` and another closes the database
before the native runs (`UsesLoseToCloseOnly`); the keyword
`:cache-index-and-filter-blocks-with-high-priority` is bound to a variable nobody reads
(`HighPriority` in `SettingsArrive`).

## What the properties leave out

Some properties have a premise that sets a hazard aside, because nothing in the
repository says what should happen then; the hazard stays listed in `PROJECT.json`, with
a note, and the behaviour stays in the model.

| Property | Premise | Set aside |
|---|---|---|
| `SettingsArrive` | `Narrow`: the number fits the type of RocksDB's setter | numbers that are cut to `int` or `uint32_t` without an error |
| `SettingsArrive` | not `HighPriority` | the keyword that is bound and never read |
| `SettingsArrive` | rows are known by their names | two keywords of one call crossed with one another |
| `AnswersLastWrite` | `NoneHollow`: no handle without a family | what is written through one; `lost_family` shows it |
| `AnswersLastWrite` | `OneKind`: a directory is opened with TTL always or never | values that gain or lose a stamp |
| `AnswersLastWrite` | `Exit` starts the books again from the disk | what an exit loses; `ImplementsDurableStore` bounds that |
| `NewestSurvives`, `RestoreNeverGoesBack`, `VerifiesWhatInfoNamed` | `~emptied` | a purge that keeps 0 modulo 2^32, after which ids start again |
| `RaisesForCause` | - | the cache left consumed, and the native abandoned, by a call that raised |
| `BackwardScanIsComplete` | the scan began at `seek-for-prev!` | scans from `seek-to-last!`, which `seek_to_last` shows to begin at the wrong end |

## Fairness

`FairSpec` of `ForeignObjects` assumes that a thread inside a binding goes on, that
`pthread_mutex_lock` is granted when the mutex stays free, that collections keep
happening and that Guile's finalization thread runs what they queue: weak fairness
of `Native`, `DestroyRaises`, each actor's `Destroying`, `Collect` and `Finalize`.
Nothing makes a program call a binding or forget a handle.  With at most
`MaxCalls` closes per thread the finalization thread cannot be overtaken for ever;
with unboundedly many, a `pthread` mutex would owe it no turn.

`FairSpec` of `Databases` is weak fairness of `Finalize` alone: what
`ForeignObjects` shows as `GarbageIsFinalized`, taken as one step.

## What is proved

Every safety property and every refinement the passing runs check is also a theorem,
for every value of the constants: any sets of handles, threads, keys and settings, any
number of calls, writes, backups or pairs, any integer widths.  Where a theorem has a
hypothesis of its own it is named below.

### ForeignObjectsProofs

Type correctness, `NoDoubleDestroy`, `IteratorDestroyedBeforeDb`,
`SlotTellsTruth`, `FinalizedIsDestroyed`, `OptionsOutliveReaders`,
`NoNullDereference`, `IteratorKeepsDbOpen`, the refinement `ImplementsLifetime`,
and, if `rocksdb-close!` is only given foreign objects, `MutexHolderIsInside`.

Four of these carry the exception that `rocksdb-close!` makes necessary, since it takes
any handle: `IteratorDestroyedBeforeDb` and `NoNullDereference` but for iterators the
program closed itself, `OptionsOutliveReaders` but for options it closed itself,
`IteratorKeepsDbOpen` but for databases it closed itself.  They say that the collector
never does it, nor the close of something else; without its exception each of the four
is false, for a program that closes the one handle and goes on with the other.

None of these is inductive alone.  The invariant has four layers.

1. `Control`: types; an actor past `Lock` holds the mutex (unless it finalizes a kind
   that takes none) and is destroying a handle that exists; a thread destroys only what
   it passed to `rocksdb-close!`; handles being made are unused, each by one
   call, an iterator from one database.
2. `Apart`: what calls can name, through the program's variables, the arguments
   on the stacks and the slots of iterators, is apart from what is queued, being
   finalized or finalized.  It rests on `Control` alone and is the theorem
   `ApartIsInvariant`.
3. `Natives`: slot 0 mirrors the native except between destructor and assignment;
   an iterator that is not destroyed and not finalized has its database in its
   slot; a finalizer leaves nothing behind but such an iterator.  A close and a
   finalizer of the same read options do not share the mutex, but `Apart` keeps them
   from meeting (`OneDestroyer`); so a destroyer is alone with its native, hence nothing
   is destroyed twice and no finalizer destroys an iterator after its database.
4. `Reach`: what has been destroyed is out of every call's reach or was passed to
   `rocksdb-close!`.  Hence no finalizer takes the options, or the database,
   of an iterator in use, nor an iterator that a seek is given.

What `scm_get_ref` is good for follows from all four.  `OnlyCloseRacesUses`
(`UsesLoseToCloseOnly`): with any number of threads, a call finds the native of its own
argument gone only if some thread closed that handle; a finalizer never takes it.  `CheckedUsesFindNatives`
(`CheckedUseIsSafe`): in a program of one thread it never finds it gone.  That one
thread is a hypothesis of the theorem, as it is a bound of the run `one_thread`,
because with two the property is false: the close may come between `scm_get_ref` and the
native call.  The argument needs `ArgumentsLive`: the natives of a
running call's arguments are not destroyed, since the one thread is in the call and no
finalizer gets at what a call can name.

Assumptions: the named ASSUMEs of `ForeignObjects` (kinds are disjoint, NULL is no
handle), and what the model takes from Guile: finalizers run on one thread, the
collector sees the arguments of a running call (the stack is scanned; compare the
commented-out `scm_remember_upto_here_1` at `guile-rocksdb-main.h:188`), and a
finalizer runs once.

### DatabasesProofs

Type correctness, `ClosedIsUnlocked`, `AnswersLastWrite` and the refinement
`ImplementsDurableStore`.  The invariant adds to the types

* `Locks` - the LOCK of a directory belongs to the one handle that is open on it to
  write; without it a close could flush, or settle, a directory that another handle
  still writes;
* `Families` - a handle of a column family has the family it was asked for or none,
  so that without hollow handles a write lands where it was meant to;
* `Kept` - while no handle is hollow, tables and books agree, and what lies on the
  disk is one of the values the books allow after a crash;
* `Stamps` - an entry has a time stamp only if a TTL database wrote it, which decides
  whether an answer is garbled.

Every step then maps to a write, a settling or a restart of `DurableStore`, or to
none.  The premise of `AnswersLastWrite` and of the refinement, that no family was
lost unseen, is the negation of what `lost_family` finds.

### BackupsProofs

Type correctness, `NewestSurvives`, `RestoreNeverGoesBack` and, if there are fewer
backups than an `int` can index, `VerifiesWhatInfoNamed`.  The invariant says that
the writes are numbered (`Numbered`), that an open engine's list is the directory's
and its last id no greater than the number of backups ever made (`Counted`), that the newest
backup is there and holds more than anything restored (`Newest`), and that, until a
purge keeps nothing, each backup stands in the history under its own id, wherever a
list names it (`Named`).  `KeepLastList` says what a purge leaves of a list.

### OptionFlowProofs

Type correctness, `SettingsAreTheirOwn`, `NothingFreedIsUsed` and
`SetOptionsIsWhole`.  The invariant says that everything has its settings in a place
of its own (`Homes`), that nothing in use was destroyed (`Kept`), that memory and
OPTIONS files have the settings asked for (`Meant`), and that the pairs already copied
are pairs (`Copied`).  `TextIsAll` says that a string carries all settings and
`LastGiven` that of several pairs with one key the last one counts; its proof
takes the greatest index from the well-foundedness of `<`.

### IteratorCursorProofs

Type correctness, `ForwardScanIsComplete`, `BackwardScanIsComplete`,
`TurningBackRevisits`, `OnlyValueUnsafeMisuses` and the refinement `ImplementsOrderedScan`, for any number of keys and writes.  Completeness is
not inductive: it speaks of the key a seek was given, and a move knows only where the
cursor is.  The invariant therefore has

* `OnPath` - a valid cursor stands on the last key of its path, which it can see;
* `ForwardRun`, `BackwardRun` - a cursor that has only gone one way, however it was
  placed, has met everything between the first key of its path and where it is;
* `StartedRight` - the first key of the path is the first one the seek was to find, or
  there is none.

`LeastIsLeast` and `GreatestIsGreatest` say where RocksDB's moves land; they rest on
`SetBounds`, which takes the bounds of a set from the well-foundedness of `<`.  In the
refinement a seek begins a scan, a move either hands out the next key (`RestIsAhead`)
or turns, which gives it up, and writers and readers stutter.

### OptionConstructorsProofs

Type correctness, `SettingsArrive`, `RaisesForCause` and `AlistRoundTrip`, for any
number of settings, any numbers, and any widths of `int` and `uint32_t`, which are the
same, and of `size_t`, a multiple.  Lemmas establish once what the tables of settings have in common: the names of an
enumeration are distinct, each row has a conversion that fits its kind
(`RowIsSound`), and a key finds a row of its own (`RowOfKey`).  The invariant adds to the types

* `FieldsSoFar` - a field holds what the last setting applied to it is stored as, or
  RocksDB's default if none was;
* `MadeIsDone` - an object is made only when nothing is left to apply;
* `KnownSoFar` - nothing applied so far is an unknown key, and a keyword constructor
  that has not raised was given none.

`StoredIsMeant` then takes a stored value back to what the program meant, and the round
trip of the alists adds that a number `int` could hold survives the unsigned field it
is kept in.

### What is left to the model checker

`GarbageIsFinalized`, `CloseReturns` and `LostIsUnlocked`: liveness under fairness and
ENABLED are out of the prover's reach.  So are the runs that end in a violation, which
need a behaviour and no proof.  The prover reasons about one module of the model at a
time; what links them, as in "How they compose", is argued and not checked.

## Not modelled

* Data: the bytes of keys, values and strings, the files RocksDB writes, the texts of
  its messages (which a failed status may not have).
* RocksDB: tailing iterators, which follow the database instead of a state of it;
  prefix seeks; the time after which `rocksdb-open-with-ttl` lets entries go; two
  engines on one directory of backups; `:keep-log-files` with a directory in use;
  handles of column families used with another database; all of which RocksDB forbids or
  leaves undefined.
* `rocksdb-create-iterator-cf` with a handle that holds no family: RocksDB reads through
  a null pointer and the process ends, which is `Exit` of `Databases`.
* The slot `consumed?` of a cache in the loaders: `load-options-from-file`
  (`guile-rocksdb-options-utils.cc:46`) sets it and `load-latest-options` (line 116) does
  not.  The loaded options share the cache through a pointer of their own, so the
  difference is whether the finalizer frees the small native around it.
* What the bytevectors of the `-unsafe` accessors say after the iterator has moved or the
  collector has run: they alias the iterator's memory.
* `rocksdb-write`: no binding puts anything into a write batch, so it writes nothing.
* `rocksdb-options->string` with a delimiter of the program's own, which
  `string->rocksdb-options` does not read back.
* Memory: leaks of strings, natives and option copies; the stack that the arrays of `rocksdb-set-options`
  take; Guile's registration of RocksDB's threads for its allocator.
* The environment bindings: `rocksdb-create-default-env` has no return statement, so
  its value is whatever the register holds, and `rocksdb-create-mem-env` calls itself;
  no environment exists in a running program.

## Plan

1. One module in which the calls of `Databases` have the two steps they have in
   `ForeignObjects`, for programs that race their own `rocksdb-close!`, and the proof
   that without such races it is `Databases`.
2. Proofs of what remains true of a program that does race: which of the properties of
   `Databases` a use after a close can break.
