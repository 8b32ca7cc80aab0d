---------------------------- MODULE ForeignObjects ----------------------------
(***************************************************************************)
(* The life cycle of the foreign objects of guile-rocksdb: the Scheme      *)
(* wrappers around RocksDB's natives, the slots that keep other wrappers   *)
(* reachable, the NULL check of scm_get_ref, the one destructor a program  *)
(* can call (rocksdb-close!), the finalizers the collector runs, and the   *)
(* process-wide destroy_mutex they take.                                   *)
(*                                                                         *)
(* A handle is both the wrapper and the native in its slot 0.  Threads     *)
(* call the bindings; the Finalizer is Guile's finalization thread.  An    *)
(* access to a native that is gone does not stop the model: it is recorded *)
(* in the history variable faults, and the properties speak of it.         *)
(***************************************************************************)
EXTENDS Naturals, FiniteSets

CONSTANTS
    Thread,        \* the threads that call the bindings
    Finalizer,     \* Guile's finalization thread
    Db,            \* handles of type rocksdb
    Iterator,      \* handles of type rocksdb-iterator
    ColumnFamily,  \* handles of type rocksdb-column-family-handle
    Checkpoint,    \* handles of type rocksdb_checkpoint
    ReadOptions,   \* handles of type rocksdb-readoptions; the other kinds that
                   \* are destroyed without the mutex have the same life cycle
    NonObject,     \* Scheme values that are no foreign objects at all
    NULL,          \* the null pointer, and "nobody" and "nothing"
    MaxCalls       \* bound: how many calls each thread makes

Handle == Db \cup Iterator \cup ColumnFamily \cup Checkpoint \cup ReadOptions
Actor  == Thread \cup {Finalizer}

ASSUME ActorAssumption == Finalizer \notin Thread /\ NULL \notin Actor
ASSUME KindAssumption ==
    /\ Db \cap (Iterator \cup ColumnFamily \cup Checkpoint \cup ReadOptions) = {}
    /\ Iterator \cap (ColumnFamily \cup Checkpoint \cup ReadOptions) = {}
    /\ ColumnFamily \cap (Checkpoint \cup ReadOptions) = {}
    /\ Checkpoint \cap ReadOptions = {}
    /\ NonObject \cap Handle = {}
    /\ NULL \notin Handle \cup NonObject
ASSUME BoundAssumption == MaxCalls \in Nat

VARIABLES
    born,       \* handles that exist
    held,       \* handles the program can still name
    ref,        \* handles whose slot 0 is not NULL
    keeps,      \* the wrappers in a handle's other slots (iterators only)
    deps,       \* the natives a handle's native points to
    freed,      \* handles whose native has been destroyed
    closed,     \* foreign objects a program has passed to rocksdb-close!
    queue,      \* unreachable handles whose finalizer is yet to run
    finalized,  \* handles whose finalizer has run
    faults,     \* accesses to natives that were gone
    mutex,      \* the actor that holds destroy_mutex, or NULL
    pc,         \* where each actor is
    obj,        \* what the actor is destroying
    args,       \* the handles whose natives a thread's running call was given
    new,        \* the handle that call will return, or NULL
    calls       \* how many calls each thread has started

heap  == <<born, held, ref, keeps, deps, freed, closed>>
gc    == <<queue, finalized>>
frame == <<args, new, calls>>
vars  == <<heap, gc, faults, mutex, pc, obj, frame>>

Fault == [how : {"use", "destroy"}, via : Handle, on : Handle \cup {NULL}]

TypeOK ==
    /\ born \subseteq Handle
    /\ held \subseteq born
    /\ ref \subseteq born
    /\ keeps \in [Handle -> SUBSET Handle]
    /\ deps \in [Handle -> SUBSET Handle]
    /\ freed \subseteq born
    /\ closed \subseteq born
    /\ queue \subseteq born
    /\ finalized \subseteq born
    /\ faults \subseteq Fault
    /\ mutex \in Actor \cup {NULL}
    /\ pc \in [Actor -> {"idle", "native", "lock", "destroy", "clear", "unlock"}]
    /\ obj \in [Actor -> born \cup NonObject \cup {NULL}]
    /\ args \in [Thread -> SUBSET born]
    /\ new \in [Thread -> Handle \cup {NULL}]
    /\ calls \in [Thread -> 0 .. MaxCalls]

Init ==
    /\ born = {} /\ held = {} /\ ref = {} /\ freed = {} /\ closed = {}
    /\ keeps = [h \in Handle |-> {}]
    /\ deps = [h \in Handle |-> {}]
    /\ queue = {} /\ finalized = {} /\ faults = {}
    /\ mutex = NULL
    /\ pc = [a \in Actor |-> "idle"]
    /\ obj = [a \in Actor |-> NULL]
    /\ args = [t \in Thread |-> {}]
    /\ new = [t \in Thread |-> NULL]
    /\ calls = [t \in Thread |-> 0]

-------------------------------------------------------------------------------
(* Helpers *)

\* What an access to the natives of S meets that is gone: the natives
\* themselves, or those they point to.
Touch(how, S) ==
    {f \in Fault : /\ f.how = how
                   /\ f.via \in S
                   /\ f.on \in ({f.via} \cup deps[f.via]) \cap freed}

\* scm_foreign_object_ref(x, 0) of a wrapper that has been cleared.
NullRead(S) == {[how |-> "use", via |-> x, on |-> NULL] : x \in S \ ref}

\* Mutant: the NULL check is left out of scm_get_ref.
GetRefUnchecked(S) == TRUE
\* scm_get_ref raises "using object after destruction" unless slot 0 is set.
GetRef(S) == S \subseteq ref

\* The handles not yet made, nor promised to a call that is running.
Fresh(K) == {h \in K : h \notin born /\ \A t \in Thread : new[t] # h}

\* Mutant: the arguments of a running call are not kept alive.
RootsWithoutArguments == held \cup queue \cup ({obj[a] : a \in Actor} \cap Handle)
\* What the collector sees: the program's variables, the arguments on the
\* stacks, the wrappers being destroyed or waiting for their finalizer, and
\* what an iterator keeps in its db and opts slots.
Roots ==
    held \cup queue \cup (UNION {args[t] : t \in Thread})
         \cup ({obj[a] : a \in Actor} \cap Handle)
Reachable == Roots \cup (UNION {keeps[h] : h \in Roots})

\* Who destroys under MX: rocksdb-close!, whatever it is given, and the
\* finalizers of all kinds but the option objects and write batches.
Locked(a, x) == a # Finalizer \/ x \notin ReadOptions

\* Mutants: an iterator keeps only its options, or only its database, or the
\* mark of an option not given.
SlotsWithoutDb(h, S) == IF h \in Iterator THEN S \cap ReadOptions ELSE {}
SlotsWithoutOptions(h, S) == IF h \in Iterator THEN S \cap Db ELSE {}
SlotsWithUnbound(h, S) ==
    IF h \in Iterator THEN (S \cap (Db \cup ReadOptions)) \cup {NULL} ELSE {}
\* The slots of a new wrapper besides slot 0, and what its native points to.
Slots(h, S) == IF h \in Iterator THEN S \cap (Db \cup ReadOptions) ELSE {}
Points(h, S) ==
    IF h \in Iterator THEN S \cap (Db \cup ReadOptions) ELSE S \cap Db

\* Destroying an iterator or a column family handle works on its database;
\* the other destructors touch only their own native.
DestroyTouch(x) ==
    {f \in Touch("destroy", {x}) :
        f.on = x \/ (x \in Iterator \cup ColumnFamily /\ f.on \in Db)}

\* Mutants: the db slot is not looked at, or cleared before it is looked at.
ParentIgnored(x) == TRUE
ParentClearedFirst(x) == x \notin Iterator
\* The condition of SAFE_DESTROY_WITH_2 on the db slot of an iterator, whose
\* finalizer alone is written with that macro.
ParentOpen(x) == x \in Iterator => keeps[x] \cap Db \cap ref # {}

\* Mutants: slot 0 is not set to NULL, or that of the iterators of a database
\* is set to NULL with it.
ClearedNothing(x) == ref
ClearedWithIterators(x) == ref \ ({x} \cup {i \in Iterator : x \in keeps[i]})
\* scm_foreign_object_set_x(x, 0, NULL).
Cleared(x) == ref \ {x}

\* Mutant: nobody waits for the mutex.
NeverWaits == TRUE
\* pthread_mutex_lock returns.
MutexFree == mutex = NULL

\* Mutant: the destructor of iterators returns before MX unlocks.
ReleasedUnlessIterator(a) ==
    IF Locked(a, obj[a]) /\ obj[a] \notin Iterator THEN NULL ELSE mutex
\* pthread_mutex_unlock, for the destructors that lock.
Released(a) == IF Locked(a, obj[a]) THEN NULL ELSE mutex

\* What a program can pass to rocksdb-close!, which checks no type: handles of
\* any kind.  rocksdb_close deletes what it is given; that is undefined for what
\* is no database, and taken here as the end of that native.
Closable == held \cup NonObject

-------------------------------------------------------------------------------
(* Calls of the bindings *)

\* A call whose argument checks have passed: the C function holds the raw
\* pointers and goes on to the native without any lock.  A pointer that was
\* read as NULL is a fault already; the call goes on with the others.
Begin(t, S, n) ==
    /\ pc[t] = "idle"
    /\ calls[t] < MaxCalls
    /\ S \subseteq held
    /\ pc' = [pc EXCEPT ![t] = "native"]
    /\ args' = [args EXCEPT ![t] = S \cap ref]
    /\ new' = [new EXCEPT ![t] = n]
    /\ calls' = [calls EXCEPT ![t] = @ + 1]
    /\ faults' = faults \cup NullRead(S)
    /\ UNCHANGED <<heap, gc, mutex, obj>>

\* Optional arguments: none, or one member of K.
Optional(K) == {{}} \cup {{k} : k \in K}

CallOpen(t) == \E d \in Fresh(Db) : Begin(t, {}, d)

CallReadOptions(t) == \E o \in Fresh(ReadOptions) : Begin(t, {}, o)

\* put, get, delete, write and their _cf variants.
CallDb(t) ==
    \E d \in Db, c \in Optional(ColumnFamily), o \in Optional(ReadOptions) :
        /\ GetRef({d} \cup c \cup o)
        /\ Begin(t, {d} \cup c \cup o, NULL)

CallCreateColumnFamily(t) ==
    \E d \in Db, c \in Fresh(ColumnFamily) : GetRef({d}) /\ Begin(t, {d}, c)

CallCreateIterator(t) ==
    \E d \in Db, c \in Optional(ColumnFamily), o \in Optional(ReadOptions),
       i \in Fresh(Iterator) :
        /\ GetRef({d} \cup c \cup o)
        /\ Begin(t, {d} \cup c \cup o, i)

CallCreateCheckpoint(t) ==
    \E d \in Db, p \in Fresh(Checkpoint) : GetRef({d}) /\ Begin(t, {d}, p)

CallCheckpoint(t) ==
    \E p \in Checkpoint : GetRef({p}) /\ Begin(t, {p}, NULL)

\* next!, prev!, key, value and refresh! go through scm_get_ref.
CallIterStep(t) ==
    \E i \in Iterator : GetRef({i}) /\ Begin(t, {i}, NULL)

\* The seeks, get-error and the unsafe accessors read slot 0 unchecked.
CallIterSeek(t) == \E i \in Iterator : Begin(t, {i}, NULL)

\* rocksdb_open, rocksdb_checkpoint_object_create and every call that returns
\* no handle may fail; what was asked for is then not made.
NativeFails(t) == new[t] \in Db \cup Checkpoint \cup {NULL}

Wrap(h, S) ==
    /\ born' = born \cup {h}
    /\ held' = held \cup {h}
    /\ ref' = ref \cup {h}
    /\ keeps' = [keeps EXCEPT ![h] = Slots(h, S)]
    /\ deps' = [deps EXCEPT ![h] = Points(h, S)]
    /\ UNCHANGED <<freed, closed>>

\* The native runs, the wrapper of its result is made, the call returns.
Native(t) ==
    /\ pc[t] = "native"
    /\ faults' = faults \cup Touch("use", args[t])
    /\ \/ NativeFails(t) /\ UNCHANGED heap
       \/ new[t] # NULL /\ Wrap(new[t], args[t])
    /\ pc' = [pc EXCEPT ![t] = "idle"]
    /\ args' = [args EXCEPT ![t] = {}]
    /\ new' = [new EXCEPT ![t] = NULL]
    /\ UNCHANGED <<gc, mutex, obj, calls>>

-------------------------------------------------------------------------------
(* Destruction: MX, SAFE_DESTROY_WITH and SAFE_DESTROY_WITH_2 *)

\* rocksdb-close! checks nothing about its argument before it locks.
CallClose(t) ==
    \E x \in Closable :
        /\ pc[t] = "idle"
        /\ calls[t] < MaxCalls
        /\ pc' = [pc EXCEPT ![t] = "lock"]
        /\ obj' = [obj EXCEPT ![t] = x]
        /\ closed' = closed \cup ({x} \cap Handle)
        /\ calls' = [calls EXCEPT ![t] = @ + 1]
        /\ UNCHANGED <<born, held, ref, keeps, deps, freed, gc, faults, mutex,
                       args, new>>

Lock(a) ==
    /\ pc[a] = "lock"
    /\ MutexFree
    /\ mutex' = a
    /\ pc' = [pc EXCEPT ![a] = "destroy"]
    /\ UNCHANGED <<heap, gc, faults, obj, frame>>

\* The test of the macro and the native destructor it guards.  rocksdb-close!
\* looks at slot 0 only, of an iterator too.
Destroy(a) ==
    /\ pc[a] = "destroy"
    /\ obj[a] \in Handle
    /\ LET x == obj[a]
           go == x \in ref /\ (a = Finalizer => ParentOpen(x))
       IN  /\ keeps' = IF a = Finalizer /\ x \in Iterator /\ ParentOpen(x)
                         THEN [keeps EXCEPT ![x] = @ \ Db] ELSE keeps
           /\ faults' = IF go THEN faults \cup DestroyTouch(x) ELSE faults
           /\ freed' = IF go THEN freed \cup {x} ELSE freed
           /\ pc' = [pc EXCEPT ![a] = IF go THEN "clear" ELSE "unlock"]
    /\ UNCHANGED <<born, held, ref, deps, closed, gc, mutex, obj, frame>>

\* scm_foreign_object_ref raises on a value that is no foreign object: the
\* call is abandoned where it is, between the lock and the unlock.
DestroyRaises(t) ==
    /\ pc[t] = "destroy"
    /\ obj[t] \in NonObject
    /\ pc' = [pc EXCEPT ![t] = "idle"]
    /\ obj' = [obj EXCEPT ![t] = NULL]
    /\ UNCHANGED <<heap, gc, faults, mutex, frame>>

Clear(a) ==
    /\ pc[a] = "clear"
    /\ ref' = Cleared(obj[a])
    /\ pc' = [pc EXCEPT ![a] = "unlock"]
    /\ UNCHANGED <<born, held, keeps, deps, freed, closed, gc, faults, mutex,
                   obj, frame>>

Unlock(a) ==
    /\ pc[a] = "unlock"
    /\ mutex' = Released(a)
    /\ finalized' = IF a = Finalizer THEN finalized \cup {obj[a]} ELSE finalized
    /\ pc' = [pc EXCEPT ![a] = "idle"]
    /\ obj' = [obj EXCEPT ![a] = NULL]
    /\ UNCHANGED <<heap, queue, faults, frame>>

-------------------------------------------------------------------------------
(* The collector and the program's own variables *)

\* The program forgets a handle.
Drop(h) ==
    /\ h \in held
    /\ held' = held \ {h}
    /\ UNCHANGED <<born, ref, keeps, deps, freed, closed, gc, faults, mutex, pc,
                   obj, frame>>

\* A collection queues the finalizers of everything unreachable at once, in no
\* order: an iterator and its database may be finalized either way round.
Collect ==
    LET dead == born \ (Reachable \cup finalized)
    IN  /\ dead # {}
        /\ queue' = queue \cup dead
        /\ UNCHANGED <<heap, finalized, faults, mutex, pc, obj, frame>>

Finalize ==
    /\ pc[Finalizer] = "idle"
    /\ \E h \in queue :
        /\ queue' = queue \ {h}
        /\ obj' = [obj EXCEPT ![Finalizer] = h]
        /\ pc' = [pc EXCEPT ![Finalizer] = IF Locked(Finalizer, h) THEN "lock" ELSE "destroy"]
    /\ UNCHANGED <<heap, finalized, faults, mutex, frame>>

-------------------------------------------------------------------------------
Call(t) ==
    \/ CallOpen(t) \/ CallReadOptions(t) \/ CallDb(t)
    \/ CallCreateColumnFamily(t) \/ CallCreateIterator(t)
    \/ CallCreateCheckpoint(t) \/ CallCheckpoint(t)
    \/ CallIterStep(t) \/ CallIterSeek(t) \/ CallClose(t)

\* A destroy in progress goes on.
Destroying(a) == Lock(a) \/ Destroy(a) \/ Clear(a) \/ Unlock(a)

Next ==
    \/ \E t \in Thread : Call(t) \/ Native(t) \/ DestroyRaises(t)
    \/ \E a \in Actor : Destroying(a)
    \/ \E h \in Handle : Drop(h)
    \/ Collect
    \/ Finalize

Spec == Init /\ [][Next]_vars

\* Threads that run go on running, pthread_mutex_lock is granted once the
\* mutex stays free, collections keep happening and the finalization thread
\* runs what they queue.  No call, and no Drop, is ever owed.
Fairness ==
    /\ \A t \in Thread : WF_vars(Native(t)) /\ WF_vars(DestroyRaises(t))
    /\ \A a \in Actor : WF_vars(Destroying(a))
    /\ WF_vars(Collect)
    /\ WF_vars(Finalize)

FairSpec == Spec /\ Fairness

-------------------------------------------------------------------------------
(* Properties *)

\* No native is destroyed twice, whichever of rocksdb-close! and the finalizer
\* of the same wrapper come first or meet.
NoDoubleDestroy == \A f \in faults : f.how = "destroy" => f.on # f.via

\* No iterator is destroyed after its database but by the program's own
\* rocksdb-close! of the iterator: what the db slot and SAFE_DESTROY_WITH_2 are
\* for, since the collector may finalize the two in either order.
IteratorDestroyedBeforeDb ==
    \A f \in faults : f.how = "destroy" /\ f.via \in Iterator => f.via \in closed

\* The options an iterator was made with are never taken by the collector while
\* a call can still reach the iterator, although their finalizer takes no lock.
OptionsOutliveReaders == \A f \in faults : f.on \in ReadOptions => f.on \in closed

\* Only the bindings that skip scm_get_ref pass NULL to RocksDB, and only for an
\* iterator the program itself passed to rocksdb-close!: neither a finalizer nor
\* the close of its database clears the slot of an iterator a call can name.
NoNullDereference ==
    \A f \in faults : f.on = NULL => f.via \in Iterator \cap closed

\* The collector alone never closes a database under an iterator that the
\* program still uses: the db slot keeps it.
IteratorKeepsDbOpen ==
    \A f \in faults : f.via \in Iterator /\ f.on \in Db => f.on \in closed

\* The collector alone never closes a database under any handle made from it
\* that the program still uses.
DependentsKeepDbOpen ==
    \A f \in faults : f.how = "use" /\ f.on \in Db => f.on \in closed

\* A call that passed scm_get_ref on a handle finds that handle's native.
CheckedUseIsSafe == \A f \in faults : f.how = "use" => f.on # f.via

\* With more threads, which scm_get_ref does not shut out, the call finds that
\* native gone only if the program passed the handle to rocksdb-close!: never
\* because a finalizer took it.
UsesLoseToCloseOnly ==
    \A f \in faults : f.how = "use" /\ f.on = f.via => f.on \in closed

\* No call works on a database that has been destroyed: it raises "using object
\* after destruction" instead.
NoUseAfterDestruction == \A f \in faults : f.how = "use" => f.on \notin Db

\* A finalizer leaves a native behind in one case only: an iterator whose
\* database was closed before it.
FinalizedIsDestroyed ==
    \A h \in finalized : h \in freed \/ (h \in Iterator /\ deps[h] \cap Db \subseteq freed)

\* Whoever holds destroy_mutex is inside a destroy: it is never left locked.
MutexHolderIsInside ==
    mutex # NULL => pc[mutex] \in {"destroy", "clear", "unlock"}

\* Slot 0 tells the truth about the native, on which rocksdb-closed? and
\* scm_get_ref rely, except while a destroy is between its destructor and its
\* assignment of NULL.
SlotTellsTruth ==
    \A h \in born : \/ h \in ref <=> h \notin freed
                   \/ \E a \in Actor : pc[a] = "clear" /\ obj[a] = h

\* The detailed life cycle implements the abstract one: wrappers, slots, queue
\* and mutex are hidden, what is left is what became of each native.
Life == [h \in Handle |->
           IF h \notin born THEN "unborn"
           ELSE IF h \in freed THEN "destroyed"
           ELSE IF h \in finalized THEN "leaked" ELSE "open"]
Parents == [h \in Handle |-> deps[h] \cap Db]
Lifetime == INSTANCE NativeLifetime WITH life <- Life, parents <- Parents,
                                    asked <- closed
ImplementsLifetime == Lifetime!Spec

\* A handle the program has lost is finalized in the end.
GarbageIsFinalized ==
    \A h \in Handle : (h \in born /\ h \notin Reachable) ~> (h \in finalized)

\* rocksdb-close! returns.
CloseReturns == \A t \in Thread : (pc[t] = "lock") ~> (pc[t] = "idle")
===============================================================================
