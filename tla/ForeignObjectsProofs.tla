-------------------------- MODULE ForeignObjectsProofs --------------------------
(***************************************************************************)
(* Proofs about ForeignObjects, for any sets of threads and handles and    *)
(* any number of calls.                                                    *)
(***************************************************************************)
EXTENDS ForeignObjects, TLAPS

-------------------------------------------------------------------------------
(* What a call looks like from outside *)

\* Every call but rocksdb-close! is a Begin: of an unused handle if it makes
\* one, with one database if that handle is an iterator, and with arguments
\* whose slot 0 was checked unless they are iterators.
Begins(t, S, n) ==
    /\ Begin(t, S, n)
    /\ S \in SUBSET Handle
    /\ n = NULL \/ n \in Fresh(Handle)
    /\ n \in Iterator => \A d, e \in S \cap Db : d = e
    /\ S \ ref \subseteq Iterator

\* Every binding but rocksdb-close! starts as a Begin of that shape.
LEMMA CallShape ==
    ASSUME NEW t \in Thread, Call(t)
    PROVE  CallClose(t) \/ \E S, n : Begins(t, S, n)
<1> USE KindAssumption
<1>1. CASE CallClose(t)
  BY <1>1
<1>2. CASE CallOpen(t)
  BY <1>2 DEF CallOpen, Begins, Fresh, Handle
<1>3. CASE CallReadOptions(t)
  BY <1>3 DEF CallReadOptions, Begins, Fresh, Handle
<1>4. CASE CallDb(t)
  <2>1. PICK d \in Db, c \in Optional(ColumnFamily), o \in Optional(ReadOptions) :
          GetRef({d} \cup c \cup o) /\ Begin(t, {d} \cup c \cup o, NULL)
    BY <1>4 DEF CallDb
  <2>2. Begins(t, {d} \cup c \cup o, NULL)
    BY <2>1 DEF Begins, GetRef, Optional, Handle
  <2> QED BY <2>2
<1>5. CASE CallCreateColumnFamily(t)
  BY <1>5 DEF CallCreateColumnFamily, Begins, GetRef, Fresh, Handle
<1>6. CASE CallCreateIterator(t)
  <2>1. PICK d \in Db, c \in Optional(ColumnFamily), o \in Optional(ReadOptions),
             i \in Fresh(Iterator) :
          GetRef({d} \cup c \cup o) /\ Begin(t, {d} \cup c \cup o, i)
    BY <1>6 DEF CallCreateIterator
  <2>2. ({d} \cup c \cup o) \cap Db = {d}
    BY DEF Optional
  <2>3. Begins(t, {d} \cup c \cup o, i)
    BY <2>1, <2>2 DEF Begins, GetRef, Optional, Fresh, Handle
  <2> QED BY <2>3
<1>7. CASE CallCreateCheckpoint(t)
  BY <1>7 DEF CallCreateCheckpoint, Begins, GetRef, Fresh, Handle
<1>8. CASE CallCheckpoint(t)
  BY <1>8 DEF CallCheckpoint, Begins, GetRef, Handle
<1>9. CASE CallIterStep(t)
  BY <1>9 DEF CallIterStep, Begins, GetRef, Handle
<1>10. CASE CallIterSeek(t)
  BY <1>10 DEF CallIterSeek, Begins, Handle
<1> QED
  BY <1>1, <1>2, <1>3, <1>4, <1>5, <1>6, <1>7, <1>8, <1>9, <1>10 DEF Call

-------------------------------------------------------------------------------
(* Control: who destroys what, and who makes what *)

\* A destroy in progress has its object, threads destroy only what they passed
\* to rocksdb-close!, and from the lock to the unlock the mutex is the
\* destroyer's own.
Destroyers ==
    /\ \A a \in Actor : pc[a] \in {"lock", "destroy"} => obj[a] \in born \cup NonObject
    /\ \A a \in Actor : pc[a] \in {"clear", "unlock"} => obj[a] \in born
    /\ \A a \in Actor : pc[a] \in {"idle", "native"} => obj[a] = NULL
    /\ \A t \in Thread : obj[t] \in Handle => obj[t] \in closed
    /\ \A a \in Actor : pc[a] = "lock" => Locked(a, obj[a])
    /\ \A a \in Actor : pc[a] \in {"destroy", "clear", "unlock"} /\ Locked(a, obj[a])
                           => mutex = a
    /\ obj[Finalizer] \notin NonObject /\ pc[Finalizer] # "native"

\* Handles being made are unused and each is made by one call; an iterator is
\* made from one database.
Makers ==
    /\ \A t \in Thread : pc[t] # "native" => new[t] = NULL /\ args[t] = {}
    /\ \A t \in Thread : new[t] \notin born
    /\ \A t, u \in Thread : t # u /\ new[t] = new[u] => new[t] = NULL
    /\ \A t \in Thread : new[t] \in Iterator => \A d, e \in args[t] \cap Db : d = e

Control == TypeOK /\ Destroyers /\ Makers

\* The faults the helpers report are well typed.
LEMMA FaultTypes ==
    \A S : /\ \A how : Touch(how, S) \subseteq Fault
           /\ S \subseteq Handle => NullRead(S) \subseteq Fault
           /\ DestroyTouch(S) \subseteq Fault
BY DEF Touch, NullRead, DestroyTouch, Fault

\* The module loads with every actor idle and nothing made.
LEMMA ControlInit == Init => Control
BY BoundAssumption, KindAssumption
   DEF Init, Control, TypeOK, Destroyers, Makers, Actor

\* A call that starts keeps the control part of the invariant.
LEMMA ControlBegin ==
    ASSUME Control, NEW t \in Thread, NEW S, NEW n, Begins(t, S, n)
    PROVE  Control'
<1> USE KindAssumption, ActorAssumption, BoundAssumption
<1> USE DEF Control, Begins, Begin, heap, gc, Actor
<1>1. NullRead(S) \subseteq Fault
  BY FaultTypes
<1>2. n \in Handle \cup {NULL} /\ n \notin born /\ \A u \in Thread : n = new[u] => n = NULL
  BY DEF Fresh, TypeOK
<1>3. TypeOK'
  BY <1>1, <1>2 DEF TypeOK
<1>4. Destroyers'
  BY DEF TypeOK, Destroyers, Locked
<1>5. Makers'
  BY <1>2 DEF TypeOK, Makers
<1> QED BY <1>3, <1>4, <1>5

\* So does rocksdb-close! before it takes destroy_mutex.
LEMMA ControlClose ==
    ASSUME Control, NEW t \in Thread, CallClose(t)
    PROVE  Control'
<1> USE KindAssumption, ActorAssumption, BoundAssumption
<1> USE DEF Control, CallClose, Closable, gc, Actor, TypeOK
<1>1. TypeOK'
  OBVIOUS
<1>2. Destroyers'
  BY DEF Destroyers, Locked, Handle
<1>3. Makers'
  BY DEF Makers
<1> QED BY <1>1, <1>2, <1>3

\* So does a native that returns and the wrapper made of its result.
LEMMA ControlNative ==
    ASSUME Control, NEW t \in Thread, Native(t)
    PROVE  Control'
<1> USE KindAssumption, ActorAssumption
<1> USE DEF Control, Native, gc, Actor
<1>1. faults' \subseteq Fault
  BY FaultTypes DEF TypeOK
<1>2. CASE UNCHANGED heap
  BY <1>1, <1>2 DEF TypeOK, Destroyers, Makers, Locked, heap
<1>3. CASE new[t] # NULL /\ Wrap(new[t], args[t])
  <2> USE <1>3 DEF Wrap
  <2>1. new[t] \in Handle /\ args[t] \subseteq Handle
    BY DEF TypeOK
  <2>2. Slots(new[t], args[t]) \subseteq Handle /\ Points(new[t], args[t]) \subseteq Handle
    BY <2>1 DEF Slots, Points
  <2>3. TypeOK'
    BY <1>1, <2>1, <2>2 DEF TypeOK
  <2>4. Destroyers'
    BY DEF TypeOK, Destroyers, Locked
  <2>5. Makers'
    BY <2>1 DEF TypeOK, Makers
  <2> QED BY <2>3, <2>4, <2>5
<1> QED BY <1>2, <1>3

\* So do the steps of the destroy macros.
LEMMA ControlDestroying ==
    ASSUME Control, NEW a \in Actor, Destroying(a)
    PROVE  Control'
<1> USE KindAssumption, ActorAssumption
<1> USE DEF Control, heap, gc, frame
<1>1. CASE Lock(a)
  BY <1>1 DEF Lock, MutexFree, TypeOK, Destroyers, Makers, Locked, Actor
<1>2. CASE Destroy(a)
  <2>1. obj[a] \in born
    BY <1>2 DEF Destroy, Destroyers
  <2>2. DestroyTouch(obj[a]) \subseteq Fault
    BY FaultTypes
  <2>3. TypeOK'
    BY <1>2, <2>1, <2>2 DEF Destroy, TypeOK
  <2>4. Destroyers'
    BY <1>2, <2>1 DEF Destroy, TypeOK, Destroyers, Locked
  <2>5. Makers'
    BY <1>2 DEF Destroy, TypeOK, Makers, Actor
  <2> QED BY <2>3, <2>4, <2>5
<1>3. CASE Clear(a)
  BY <1>3 DEF Clear, Cleared, TypeOK, Destroyers, Makers, Locked, Actor
<1>4. CASE Unlock(a)
  BY <1>4 DEF Unlock, Released, TypeOK, Destroyers, Makers, Locked, Actor
<1> QED BY <1>1, <1>2, <1>3, <1>4 DEF Destroying

\* So do an abandoned rocksdb-close!, a forgotten handle, a collection and
\* the start of a finalizer.
LEMMA ControlRest ==
    ASSUME Control,
           \/ \E t \in Thread : DestroyRaises(t)
           \/ \E h \in Handle : Drop(h)
           \/ Collect
           \/ Finalize
           \/ UNCHANGED vars
    PROVE  Control'
<1> USE KindAssumption, ActorAssumption
<1> USE DEF Control, TypeOK, Destroyers, Makers, Locked, Actor, heap, gc, frame
<1>1. CASE \E t \in Thread : DestroyRaises(t)
  BY <1>1 DEF DestroyRaises
<1>2. CASE \E h \in Handle : Drop(h)
  BY <1>2 DEF Drop
<1>3. CASE Collect
  BY <1>3 DEF Collect
<1>4. CASE Finalize
  BY <1>4 DEF Finalize, Handle
<1>5. CASE UNCHANGED vars
  BY <1>5 DEF vars
<1> QED BY <1>1, <1>2, <1>3, <1>4, <1>5

\* Every step of the bindings and of the collector keeps Control.
LEMMA ControlStep == Control /\ [Next]_vars => Control'
BY CallShape, ControlBegin, ControlClose, ControlNative, ControlDestroying, ControlRest
   DEF Next

\* Types hold, an actor inside MX holds destroy_mutex and is destroying a
\* handle of the right kind, and calls are only making handles nobody has.
THEOREM ControlIsInvariant == Spec => []Control
<1> QED BY ControlInit, ControlStep, PTL DEF Spec

-------------------------------------------------------------------------------
(* Reachability: what calls can name is never what finalizers work on *)

\* Handles whose finalizer is due, at work or done, and those a call can name.
Dying  == queue \cup finalized \cup ({obj[Finalizer]} \cap Handle)
Usable == held \cup (UNION {args[t] : t \in Thread})
               \cup ({obj[t] : t \in Thread} \cap Handle)

\* Nothing a call can name, and nothing it keeps in its slots, is dying.
Apart == \A h \in Usable : h \notin Dying /\ keeps[h] \cap Dying = {}

\* When the module is loaded nothing is dying.
LEMMA ApartInit == Init => Apart
BY KindAssumption, ActorAssumption DEF Init, Apart, Usable, Dying, Actor

\* A step that fills no slot, makes nothing usable and nothing usable dying.
LEMMA ApartQuiet ==
    ASSUME Apart, \A h \in Usable : keeps'[h] \subseteq keeps[h],
           Usable' \subseteq Usable, Dying' \subseteq Dying
    PROVE  Apart'
BY DEF Apart

\* A call that starts touches only handles the program holds.
LEMMA ApartBegin ==
    ASSUME Control, Apart, NEW t \in Thread, NEW S, NEW n, Begins(t, S, n)
    PROVE  Apart'
<1>1. S \subseteq held /\ held \subseteq Usable
  BY DEF Begins, Begin, Usable
<1>2. Usable' \subseteq Usable /\ Dying' = Dying /\ keeps' = keeps
  BY <1>1 DEF Begins, Begin, heap, gc, Usable, Dying, Control, TypeOK
<1> QED BY <1>2, ApartQuiet

\* A new wrapper keeps only arguments of the call that makes it.
LEMMA ApartNative ==
    ASSUME Control, Apart, NEW t \in Thread, Native(t)
    PROVE  Apart'
<1> USE KindAssumption, ActorAssumption
<1> DEFINE h == new[t]
           S == args[t]
<1>1. S \subseteq Usable /\ S \subseteq Handle /\ S \subseteq born
  BY DEF Usable, Control, TypeOK
<1>2. UNCHANGED <<queue, finalized, obj>> /\ args' = [args EXCEPT ![t] = {}]
  BY DEF Native, gc
<1>3. Dying' = Dying
  BY <1>2 DEF Dying
<1>4. CASE UNCHANGED heap
  <2>1. Usable' \subseteq Usable
    BY <1>2, <1>4 DEF heap, Usable, Control, TypeOK
  <2> QED BY <1>3, <1>4, <2>1, ApartQuiet DEF heap
<1>5. CASE h # NULL /\ Wrap(h, S)
  <2>1. h \in Handle /\ h \notin born
    BY <1>5 DEF Control, TypeOK, Makers
  <2>2. Usable' \subseteq Usable \cup {h}
    BY <1>2, <1>5 DEF Wrap, Usable, Control, TypeOK
  <2>3. Dying \subseteq born
    BY DEF Dying, Control, TypeOK, Actor
  <2>4. keeps'[h] \subseteq S /\ \A g \in Handle \ {h} : keeps'[g] = keeps[g]
    BY <1>5, <2>1 DEF Wrap, Slots, Control, TypeOK
  <2>5. Usable \subseteq Handle
    BY DEF Usable, Control, TypeOK
  <2> QED BY <1>1, <1>3, <2>1, <2>2, <2>3, <2>4, <2>5 DEF Apart
<1> QED BY <1>4, <1>5 DEF Native

\* The steps that start no call and make nothing keep Apart.
LEMMA ApartRest ==
    ASSUME Control, Apart,
           \/ \E t \in Thread : CallClose(t) \/ DestroyRaises(t)
           \/ \E a \in Actor : Destroying(a)
           \/ \E h \in Handle : Drop(h)
           \/ Collect \/ Finalize \/ UNCHANGED vars
    PROVE  Apart'
<1> USE KindAssumption, ActorAssumption, ApartQuiet
<1> USE DEF heap, gc, frame
<1>1. ASSUME NEW t \in Thread, CallClose(t) PROVE Apart'
  <2>1. Usable' \subseteq Usable /\ Dying' = Dying
    BY <1>1 DEF CallClose, Closable, Usable, Dying, Control, TypeOK, Actor
  <2> QED BY <1>1, <2>1 DEF CallClose
<1>2. ASSUME NEW t \in Thread, DestroyRaises(t) PROVE Apart'
  <2>1. Usable' \subseteq Usable /\ Dying' = Dying
    BY <1>2 DEF DestroyRaises, Usable, Dying, Control, TypeOK, Actor
  <2> QED BY <1>2, <2>1 DEF DestroyRaises
<1>3. ASSUME NEW a \in Actor, Lock(a) \/ Clear(a) PROVE Apart'
  <2>1. UNCHANGED <<held, keeps, queue, finalized, obj, args>>
    BY <1>3 DEF Lock, Clear
  <2> QED BY <2>1 DEF Usable, Dying
<1>4. ASSUME NEW a \in Actor, Destroy(a) PROVE Apart'
  <2>1. /\ UNCHANGED <<held, queue, finalized, obj, args>>
        /\ \A g \in Handle : keeps'[g] \subseteq keeps[g]
    BY <1>4 DEF Destroy, Control, TypeOK
  <2>2. Usable' = Usable /\ Dying' = Dying /\ Usable \subseteq Handle
    BY <2>1 DEF Usable, Dying, Control, TypeOK
  <2> QED BY <2>1, <2>2
<1>5. ASSUME NEW a \in Actor, Unlock(a) PROVE Apart'
  <2>1. Usable' \subseteq Usable
    BY <1>5 DEF Unlock, Usable, Control, TypeOK, Actor
  <2>2. Dying' = Dying
    <3>1. CASE a = Finalizer
      BY <1>5, <3>1 DEF Unlock, Dying, Control, TypeOK, Destroyers
    <3>2. CASE a # Finalizer
      BY <1>5, <3>2 DEF Unlock, Dying, Control, TypeOK, Actor
    <3> QED BY <3>1, <3>2
  <2> QED BY <1>5, <2>1, <2>2 DEF Unlock
<1>6. ASSUME NEW h \in Handle, Drop(h) PROVE Apart'
  <2>1. Usable' \subseteq Usable /\ Dying' = Dying
    BY <1>6 DEF Drop, Usable, Dying
  <2> QED BY <1>6, <2>1 DEF Drop
<1>7. CASE Collect
  <2>1. Usable \subseteq Roots /\ Usable' = Usable
    BY <1>7 DEF Collect, Usable, Roots, Actor
  <2>2. Dying' = Dying \cup (born \ (Reachable \cup finalized))
    BY <1>7 DEF Collect, Dying
  <2>3. \A h \in Usable : h \in Reachable /\ keeps[h] \subseteq Reachable
    BY <2>1 DEF Reachable
  <2> QED BY <1>7, <2>1, <2>2, <2>3 DEF Collect, Apart
<1>8. CASE Finalize
  <2>1. Usable' \subseteq Usable
    BY <1>8 DEF Finalize, Usable, Control, TypeOK, Actor
  <2>2. Dying' = Dying
    BY <1>8 DEF Finalize, Dying, Control, TypeOK, Destroyers, Actor
  <2> QED BY <1>8, <2>1, <2>2 DEF Finalize
<1>9. CASE UNCHANGED vars
  <2>1. Usable' = Usable /\ Dying' = Dying
    BY <1>9 DEF vars, Usable, Dying
  <2> QED BY <1>9, <2>1 DEF vars
<1> QED BY <1>1, <1>2, <1>3, <1>4, <1>5, <1>6, <1>7, <1>8, <1>9 DEF Destroying

\* What a call can reach and what the finalizers work on are apart: this rests
\* on the collector's roots and on the slots of iterators.
THEOREM ApartIsInvariant == Spec => []Apart
<1>1. Control /\ Apart /\ [Next]_vars => Apart'
  BY CallShape, ApartBegin, ApartNative, ApartRest DEF Next
<1> QED BY <1>1, ApartInit, ControlIsInvariant, PTL DEF Spec

-------------------------------------------------------------------------------
(* Natives: slot 0 mirrors the native, and each is destroyed once *)

\* Between a destructor and the NULL that follows it, slot 0 is the only one
\* left behind, and everywhere else it says whether the native exists.
Mirror ==
    /\ SlotTellsTruth
    /\ \A a \in Actor : pc[a] = "clear" => obj[a] \in ref \cap freed

\* What an iterator points to is what its slots keep, until its own finalizer
\* finds its native destroyed or destroys it; and it points to one database.
IteratorSlots ==
    /\ \A h \in Handle : keeps[h] \subseteq deps[h] /\ deps[h] \subseteq born
    /\ \A i \in Iterator : \/ deps[i] \subseteq keeps[i]
                           \/ i \in freed /\ (i \in finalized \/ i = obj[Finalizer])
    /\ \A i \in Iterator : \A d, e \in deps[i] \cap Db : d = e
    /\ \A h \in Handle \ Iterator : deps[h] \cap ReadOptions = {}

\* Destroyed, or an iterator whose database went first.
Gone(h) == h \in freed \/ (h \in Iterator /\ deps[h] \cap Db \subseteq freed)

FinalizerLeavesNothing ==
    /\ FinalizedIsDestroyed
    /\ pc[Finalizer] = "unlock" => Gone(obj[Finalizer])

Natives ==
    /\ Mirror /\ IteratorSlots /\ FinalizerLeavesNothing
    /\ NoDoubleDestroy /\ IteratorDestroyedBeforeDb

\* When the module is loaded no native exists.
LEMMA NativesInit == Init => Natives
<1> SUFFICES ASSUME Init PROVE Natives
  OBVIOUS
<1>1. \A h \in Handle : keeps[h] = {} /\ deps[h] = {}
  BY DEF Init
<1>2. IteratorSlots
  BY <1>1 DEF IteratorSlots, Handle
<1> QED
  BY <1>2 DEF Init, Natives, Mirror, SlotTellsTruth, FinalizerLeavesNothing,
       FinalizedIsDestroyed, NoDoubleDestroy, IteratorDestroyedBeforeDb, Actor

\* A use, whatever it meets, is no destroy.
LEMMA UsesAreNoDestroys ==
    \A S : \A f \in Touch("use", S) \cup NullRead(S) : f.how = "use"
BY DEF Touch, NullRead

\* Two actors are never inside the destroy of one handle: the mutex sees to it,
\* or, when the finalizer takes no mutex, that no thread can name the handle.
LEMMA OneDestroyer ==
    ASSUME Control, Apart, NEW a \in Actor, NEW b \in Actor, a # b,
           obj[a] = obj[b], obj[a] \in Handle,
           pc[a] \in {"destroy", "clear", "unlock"},
           pc[b] \in {"destroy", "clear", "unlock"}
    PROVE  FALSE
<1> USE ActorAssumption DEF Actor
<1>1. CASE a \in Thread /\ b \in Thread
  BY <1>1 DEF Control, Destroyers, Locked
<1>2. CASE a = Finalizer \/ b = Finalizer
  BY <1>2 DEF Apart, Usable, Dying
<1> QED BY <1>1, <1>2

\* An actor about to destroy a handle is alone with it: its slot is set exactly
\* if its native exists; and nobody is destroying the database of an iterator.
LEMMA DestroyerIsAlone ==
    ASSUME Control, Apart, Mirror, NEW a \in Actor, pc[a] = "destroy", obj[a] \in born
    PROVE  /\ obj[a] \in ref <=> obj[a] \notin freed
           /\ obj[a] \in Iterator => \A d \in Db \cap ref : d \notin freed
<1>1. obj[a] \in Handle
  BY DEF Control, TypeOK
<1>2. obj[a] \in ref <=> obj[a] \notin freed
  <2>1. ASSUME NEW b \in Actor, pc[b] = "clear", obj[b] = obj[a] PROVE FALSE
    BY <1>1, <2>1, OneDestroyer
  <2> QED BY <2>1 DEF Mirror, SlotTellsTruth
<1>3. ASSUME obj[a] \in Iterator, NEW d \in Db \cap ref PROVE d \notin freed
  <2>1. ASSUME NEW b \in Actor, pc[b] = "clear", obj[b] = d PROVE FALSE
    BY <1>3, <2>1, KindAssumption DEF Locked, Control, Destroyers
  <2> QED BY <1>3, <2>1 DEF Control, TypeOK, Mirror, SlotTellsTruth
<1> QED BY <1>2, <1>3

\* What a destructor can meet that is gone is a database, and an iterator meets
\* it only if it was passed to rocksdb-close!.
LEMMA DestroyMeets ==
    ASSUME Control, Apart, Natives, NEW a \in Actor, Destroy(a),
           NEW f \in faults', f \notin faults
    PROVE  /\ f.how = "destroy" /\ f.via = obj[a] /\ f.on # f.via
           /\ f.on \in freed \cap Db \cap deps[f.via]
           /\ f.via \in Iterator => a \in Thread
<1> DEFINE x == obj[a]
           go == x \in ref /\ (a = Finalizer => ParentOpen(x))
<1> USE KindAssumption, ActorAssumption
<1>0. x \in born /\ x \in Handle /\ pc[a] = "destroy"
  BY DEF Destroy, Control, TypeOK, Destroyers
<1>1. /\ x \in ref <=> x \notin freed
      /\ x \in Iterator => \A d \in Db \cap ref : d \notin freed
  BY <1>0, DestroyerIsAlone DEF Natives
<1>2. go /\ f \in DestroyTouch(x)
  BY DEF Destroy
<1>3. f.how = "destroy" /\ f.via = x /\ f.on \in freed /\ (f.on = x \/ f.on \in deps[x] \cap Db)
  BY <1>2 DEF DestroyTouch, Touch
<1>4. f.on # x
  BY <1>1, <1>2, <1>3
<1>5. ASSUME x \in Iterator, a = Finalizer PROVE FALSE
  <2>1. PICK d \in keeps[x] \cap Db : d \in ref
    BY <1>2, <1>5 DEF ParentOpen
  <2>2. d \in deps[x] \cap Db /\ d \notin freed
    BY <2>1, <1>5, <1>0, <1>1 DEF Natives, IteratorSlots
  <2>3. f.on = d
    BY <2>2, <1>3, <1>4, <1>5 DEF Natives, IteratorSlots
  <2> QED BY <2>2, <2>3, <1>3
<1> QED BY <1>3, <1>4, <1>5 DEF Actor

\* The test and destructor of SAFE_DESTROY_WITH(_2) destroy a native once,
\* and an iterator only before its database.
LEMMA NativesDestroy ==
    ASSUME Control, Apart, Natives, NEW a \in Actor, Destroy(a)
    PROVE  Natives'
<1> DEFINE x == obj[a]
           go == x \in ref /\ (a = Finalizer => ParentOpen(x))
<1> USE KindAssumption, ActorAssumption
<1>0. x \in born /\ x \in Handle /\ pc[a] = "destroy"
  BY DEF Destroy, Control, TypeOK, Destroyers
<1>1. /\ x \in ref <=> x \notin freed
      /\ x \in Iterator => \A d \in Db \cap ref : d \notin freed
  BY <1>0, DestroyerIsAlone DEF Natives
<1>2. freed' = (IF go THEN freed \cup {x} ELSE freed) /\ UNCHANGED <<born, ref, deps, obj>>
  BY DEF Destroy
<1>3. pc' = [pc EXCEPT ![a] = IF go THEN "clear" ELSE "unlock"]
  BY DEF Destroy
<1>4. \A b \in Actor : b # a => pc'[b] = pc[b]
  BY <1>3 DEF Control, TypeOK
<1>5. pc'[a] = IF go THEN "clear" ELSE "unlock"
  BY <1>3 DEF Control, TypeOK
<1>6. Mirror'
  BY <1>0, <1>1, <1>2, <1>4, <1>5 DEF Natives, Mirror, SlotTellsTruth
<1>7. IteratorSlots'
  <2>1. keeps' = IF a = Finalizer /\ x \in Iterator /\ ParentOpen(x)
                   THEN [keeps EXCEPT ![x] = @ \ Db] ELSE keeps
    BY DEF Destroy
  <2>2. \A h \in Handle : keeps'[h] \subseteq keeps[h]
    BY <2>1 DEF Control, TypeOK
  <2>3. \A i \in Iterator : i # x => keeps'[i] = keeps[i]
    BY <2>1 DEF Control, TypeOK
  <2>4. (x \in freed' /\ x = obj'[Finalizer]) \/ keeps' = keeps
    BY <1>1, <1>2, <2>1
  <2>5. finalized' = finalized
    BY DEF Destroy, gc
  <2> QED BY <1>2, <2>2, <2>3, <2>4, <2>5 DEF Natives, IteratorSlots
<1>8. FinalizerLeavesNothing'
  <2>1. FinalizedIsDestroyed'
    BY <1>2 DEF Destroy, gc, Natives, FinalizerLeavesNothing, FinalizedIsDestroyed
  <2>2. ASSUME a = Finalizer, ~ go PROVE Gone(x)
    <3>1. CASE x \notin ref
      BY <3>1, <1>1 DEF Gone
    <3>2. CASE ~ ParentOpen(x) /\ x \in ref
      <4>1. x \in Iterator /\ keeps[x] \cap Db \cap ref = {}
        BY <3>2 DEF ParentOpen
      <4>2. deps[x] \cap Db \cap ref = {}
        BY <4>1, <3>2, <1>1 DEF Natives, IteratorSlots
      <4>3. deps[x] \subseteq born
        BY <1>0 DEF Natives, IteratorSlots
      <4>4. \A d \in born : d \in ref \/ d \in freed
        BY DEF Natives, Mirror, SlotTellsTruth
      <4> QED BY <4>1, <4>2, <4>3, <4>4 DEF Gone
    <3> QED BY <2>2, <3>1, <3>2
  <2>3. CASE a = Finalizer
    BY <2>1, <2>2, <2>3, <1>2, <1>5 DEF FinalizerLeavesNothing, Gone
  <2>4. CASE a # Finalizer
    BY <2>1, <2>4, <1>2, <1>4 DEF FinalizerLeavesNothing, Gone, Natives, Actor
  <2> QED BY <2>3, <2>4
<1>9. NoDoubleDestroy' /\ IteratorDestroyedBeforeDb'
  <2>1. \A f \in faults' : f \notin faults =>
          f.on # f.via /\ (f.via \in Iterator => f.via \in closed)
    BY <1>0, DestroyMeets DEF Control, Destroyers
  <2> QED BY <2>1 DEF Destroy, Natives, NoDoubleDestroy, IteratorDestroyedBeforeDb
<1> QED BY <1>6, <1>7, <1>8, <1>9 DEF Natives

\* A step that makes, destroys and clears nothing.
LEMMA NativesQuiet ==
    ASSUME Control, Natives,
           UNCHANGED <<born, ref, keeps, deps, freed, finalized>>,
           closed \subseteq closed',
           obj[Finalizer] \in Handle => obj'[Finalizer] = obj[Finalizer],
           \A f \in faults' : f \in faults \/ f.how = "use",
           \A a \in Actor : pc[a] = "clear" <=> pc'[a] = "clear",
           \A a \in Actor : pc'[a] \in {"clear", "unlock"} =>
                              pc[a] = pc'[a] /\ obj'[a] = obj[a]
    PROVE  Natives'
<1>1. Mirror'
  BY DEF Natives, Mirror, SlotTellsTruth
<1>2. IteratorSlots'
  BY DEF Natives, IteratorSlots, Handle
<1>3. FinalizerLeavesNothing'
  BY DEF Natives, FinalizerLeavesNothing, FinalizedIsDestroyed, Gone, Actor
<1>4. NoDoubleDestroy' /\ IteratorDestroyedBeforeDb'
  BY DEF Natives, NoDoubleDestroy, IteratorDestroyedBeforeDb
<1> QED BY <1>1, <1>2, <1>3, <1>4 DEF Natives

\* A native that returns makes at most one new native, with its wrapper.
LEMMA NativesNative ==
    ASSUME Control, Natives, NEW t \in Thread, Native(t)
    PROVE  Natives'
<1> USE KindAssumption, ActorAssumption
<1>1. /\ \A f \in faults' : f \in faults \/ f.how = "use"
      /\ closed' = closed /\ obj' = obj /\ finalized' = finalized
  BY UsesAreNoDestroys DEF Native, Wrap, heap, gc
<1>2. /\ \A a \in Actor : pc[a] = "clear" <=> pc'[a] = "clear"
      /\ \A a \in Actor : pc'[a] \in {"clear", "unlock"} =>
                         pc[a] = pc'[a] /\ obj'[a] = obj[a]
  BY DEF Native, Control, TypeOK, Actor
<1>3. CASE UNCHANGED heap
  BY <1>1, <1>2, <1>3, NativesQuiet DEF Native, heap, gc
<1>4. CASE new[t] # NULL /\ Wrap(new[t], args[t])
  <2> DEFINE h == new[t]
             S == args[t]
  <2>1. h \in Handle /\ h \notin born /\ h \notin freed /\ S \subseteq born
    BY <1>4 DEF Control, TypeOK, Makers
  <2>2. /\ born' = born \cup {h} /\ ref' = ref \cup {h} /\ freed' = freed
        /\ keeps' = [keeps EXCEPT ![h] = Slots(h, S)]
        /\ deps' = [deps EXCEPT ![h] = Points(h, S)]
    BY <1>4 DEF Wrap
  <2>3. Mirror'
    BY <1>2, <2>1, <2>2 DEF Natives, Mirror, SlotTellsTruth
  <2>4. IteratorSlots'
    <3>1. /\ Slots(h, S) \subseteq Points(h, S) /\ Points(h, S) \subseteq born
          /\ h \in Iterator => Points(h, S) = Slots(h, S)
          /\ h \notin Iterator => Points(h, S) \cap ReadOptions = {}
      BY <2>1 DEF Slots, Points, Handle
    <3>2. h \in Iterator => \A d, e \in Points(h, S) \cap Db : d = e
      BY DEF Control, Makers, Points
    <3>3. /\ keeps'[h] = Slots(h, S) /\ deps'[h] = Points(h, S)
          /\ \A g \in Handle \ {h} : keeps'[g] = keeps[g] /\ deps'[g] = deps[g]
      BY <2>1, <2>2 DEF Control, TypeOK
    <3> HIDE DEF h, S
    <3>4. \A g \in Handle : keeps'[g] \subseteq deps'[g] /\ deps'[g] \subseteq born'
      BY <2>2, <3>1, <3>3 DEF Natives, IteratorSlots
    <3>5. \A i \in Iterator : \/ deps'[i] \subseteq keeps'[i]
                              \/ i \in freed' /\ (i \in finalized' \/ i = obj'[Finalizer])
      BY <1>1, <2>2, <3>1, <3>3 DEF Natives, IteratorSlots, Handle
    <3>6. \A i \in Iterator : \A d, e \in deps'[i] \cap Db : d = e
      BY <3>2, <3>3 DEF Natives, IteratorSlots, Handle
    <3>7. \A g \in Handle \ Iterator : deps'[g] \cap ReadOptions = {}
      BY <3>1, <3>3 DEF Natives, IteratorSlots
    <3> QED BY <3>4, <3>5, <3>6, <3>7 DEF IteratorSlots
  <2>5. FinalizerLeavesNothing'
    <3>1. \A g \in born : deps'[g] = deps[g]
      BY <2>1, <2>2 DEF Control, TypeOK
    <3>2. finalized \subseteq born /\ UNCHANGED finalized
      BY DEF Control, TypeOK, Native, gc
    <3>3. pc'[Finalizer] = "unlock" => pc[Finalizer] = "unlock" /\ obj[Finalizer] \in born
      BY <1>2 DEF Control, Destroyers, Actor
    <3> QED
      BY <1>2, <2>2, <3>1, <3>2, <3>3
         DEF Natives, FinalizerLeavesNothing, FinalizedIsDestroyed, Gone, Actor
  <2>6. NoDoubleDestroy' /\ IteratorDestroyedBeforeDb'
    BY <1>1 DEF Natives, NoDoubleDestroy, IteratorDestroyedBeforeDb
  <2> QED BY <2>3, <2>4, <2>5, <2>6 DEF Natives
<1> QED BY <1>3, <1>4 DEF Native

\* The assignment of NULL after a destructor makes slot 0 tell the truth.
LEMMA NativesClear ==
    ASSUME Control, Apart, Natives, NEW a \in Actor, Clear(a)
    PROVE  Natives'
<1>1. obj[a] \in born /\ obj[a] \in freed /\ pc[a] = "clear"
  BY DEF Clear, Control, Destroyers, Natives, Mirror
<1>2. /\ ref' = ref \ {obj[a]}
      /\ UNCHANGED <<born, keeps, deps, freed, finalized, faults, obj, closed>>
  BY DEF Clear, Cleared, gc
<1>3. pc'[a] = "unlock" /\ \A b \in Actor \ {a} : pc'[b] = pc[b]
  BY DEF Clear, Control, TypeOK
<1>4. ASSUME NEW b \in Actor, b # a, pc[b] = "clear" PROVE obj[b] # obj[a]
  BY <1>1, <1>4, OneDestroyer DEF Control, TypeOK
<1>5. Mirror'
  BY <1>1, <1>2, <1>3, <1>4 DEF Natives, Mirror, SlotTellsTruth
<1>6. IteratorSlots'
  BY <1>2 DEF Natives, IteratorSlots
<1>7. FinalizerLeavesNothing'
  BY <1>1, <1>2, <1>3
     DEF Natives, FinalizerLeavesNothing, FinalizedIsDestroyed, Gone, Actor
<1>8. NoDoubleDestroy' /\ IteratorDestroyedBeforeDb'
  BY <1>2 DEF Natives, NoDoubleDestroy, IteratorDestroyedBeforeDb
<1> QED BY <1>5, <1>6, <1>7, <1>8 DEF Natives

\* Leaving MX, a finalizer has destroyed its native or found the database of
\* its iterator closed.
LEMMA NativesUnlock ==
    ASSUME Control, Natives, NEW a \in Actor, Unlock(a)
    PROVE  Natives'
<1>1. /\ pc[a] = "unlock" /\ UNCHANGED <<born, ref, keeps, deps, freed, faults, closed>>
      /\ finalized' = IF a = Finalizer THEN finalized \cup {obj[a]} ELSE finalized
  BY DEF Unlock, heap
<1>2. pc'[a] = "idle" /\ \A b \in Actor \ {a} : pc'[b] = pc[b] /\ obj'[b] = obj[b]
  BY DEF Unlock, Control, TypeOK
<1>3. Mirror'
  BY <1>1, <1>2 DEF Natives, Mirror, SlotTellsTruth
<1>4. IteratorSlots'
  BY <1>1, <1>2 DEF Natives, IteratorSlots, Actor
<1>5. FinalizerLeavesNothing'
  BY <1>1, <1>2 DEF Natives, FinalizerLeavesNothing, FinalizedIsDestroyed, Gone, Actor
<1>6. NoDoubleDestroy' /\ IteratorDestroyedBeforeDb'
  BY <1>1 DEF Natives, NoDoubleDestroy, IteratorDestroyedBeforeDb
<1> QED BY <1>3, <1>4, <1>5, <1>6 DEF Natives

\* Every step keeps Natives.
LEMMA NativesStep == Control /\ Apart /\ Natives /\ [Next]_vars => Natives'
<1> SUFFICES ASSUME Control, Apart, Natives, [Next]_vars PROVE Natives'
  OBVIOUS
<1> USE DEF heap, gc, frame
<1>1. ASSUME NEW t \in Thread, NEW S, NEW n, Begins(t, S, n) PROVE Natives'
  <2>1. \A f \in faults' : f \in faults \/ f.how = "use"
    BY <1>1, UsesAreNoDestroys DEF Begins, Begin
  <2> QED BY <1>1, <2>1, NativesQuiet DEF Begins, Begin, Control, TypeOK, Actor
<1>2. ASSUME NEW t \in Thread, CallClose(t) PROVE Natives'
  BY <1>2, NativesQuiet, ActorAssumption DEF CallClose, Control, TypeOK, Actor
<1>3. ASSUME NEW t \in Thread, DestroyRaises(t) PROVE Natives'
  BY <1>3, NativesQuiet, ActorAssumption DEF DestroyRaises, Control, TypeOK, Actor
<1>4. ASSUME NEW a \in Actor, Lock(a) PROVE Natives'
  BY <1>4, NativesQuiet DEF Lock, Control, TypeOK
<1>5. ASSUME NEW a \in Actor, Destroying(a) PROVE Natives'
  BY <1>4, <1>5, NativesDestroy, NativesClear, NativesUnlock DEF Destroying
<1>6. ASSUME NEW h \in Handle, Drop(h) PROVE Natives'
  BY <1>6, NativesQuiet DEF Drop
<1>7. CASE Collect
  BY <1>7, NativesQuiet DEF Collect
<1>8. CASE Finalize
  <2>1. obj[Finalizer] \notin Handle
    BY <1>8, KindAssumption DEF Finalize, Control, Destroyers, Actor
  <2> QED BY <1>8, <2>1, NativesQuiet, ActorAssumption DEF Finalize, Control, TypeOK, Actor
<1>9. CASE UNCHANGED vars
  BY <1>9, NativesQuiet DEF vars
<1> QED
  BY <1>1, <1>2, <1>3, <1>5, <1>6, <1>7, <1>8, <1>9, CallShape, NativesNative DEF Next

\* Slot 0 mirrors the native, the db slot of an iterator is emptied only by
\* its own destroy, no native is destroyed twice, and no iterator after its
\* database.
THEOREM NativesIsInvariant == Spec => []Natives
<1> QED BY NativesInit, NativesStep, ControlIsInvariant, ApartIsInvariant, PTL DEF Spec

-------------------------------------------------------------------------------
(* What is gone: the collector's garbage, or what a program closed *)

\* What has been destroyed is dying or was passed to rocksdb-close!.
Accounted == \A h \in freed : h \in Dying \/ h \in closed

Reach ==
    Accounted /\ OptionsOutliveReaders /\ NoNullDereference /\ IteratorKeepsDbOpen

\* When the module is loaded nothing is gone.
LEMMA ReachInit == Init => Reach
BY DEF Init, Reach, Accounted, OptionsOutliveReaders, NoNullDereference, IteratorKeepsDbOpen

\* Of the natives behind a handle that a call can name, its own, and for an
\* iterator those it was made from, are gone only after rocksdb-close!.
LEMMA GoneIsClosed ==
    ASSUME Control, Apart, Natives, Accounted, NEW h \in Usable, NEW g \in freed,
           g = h \/ (h \in Iterator /\ g \in deps[h])
    PROVE  g \in closed
<1>1. h \notin Dying /\ keeps[h] \cap Dying = {}
  BY DEF Apart
<1>2. CASE g = h
  BY <1>1, <1>2 DEF Accounted
<1>3. CASE h \in Iterator /\ g \in deps[h]
  <2>1. ~ (h \in finalized \/ h = obj[Finalizer])
    BY <1>1, <1>3 DEF Dying, Handle
  <2>2. g \in keeps[h]
    BY <1>3, <2>1 DEF Natives, IteratorSlots
  <2> QED BY <1>1, <2>2 DEF Accounted
<1> QED BY <1>2, <1>3

\* What a use by a running call can meet.
LEMMA UsesAreOfClosed ==
    ASSUME Control, Apart, Natives, Accounted, NEW S \in SUBSET Usable, S \subseteq Handle,
           NEW f \in Touch("use", S)
    PROVE  /\ f.on # NULL
           /\ f.on \in ReadOptions => f.on \in closed
           /\ f.via \in Iterator /\ f.on \in Db => f.on \in closed
           /\ f.on = f.via => f.on \in closed
<1> USE KindAssumption
<1>1. f.via \in S /\ f.on \in freed /\ (f.on = f.via \/ f.on \in deps[f.via])
  BY DEF Touch
<1>2. f.via \in Usable /\ f.via \in Handle /\ f.on \in Handle
  BY <1>1 DEF Control, TypeOK
<1>3. f.on \in ReadOptions => f.on = f.via \/ f.via \in Iterator
  BY <1>1, <1>2 DEF Natives, IteratorSlots
<1> QED BY <1>1, <1>2, <1>3, GoneIsClosed

\* A call that starts finds slot 0 of its arguments set: it was checked, or the
\* argument is an iterator, whose slot is NULL only if it was closed.
LEMMA BeginFindsSlots ==
    ASSUME Control, Apart, Natives, Reach, NEW t \in Thread, NEW S, NEW n, Begins(t, S, n)
    PROVE  S \ ref \subseteq Iterator \cap closed
<1> SUFFICES ASSUME NEW i \in S, i \notin ref PROVE i \in Iterator \cap closed
  OBVIOUS
<1>1. i \in Usable /\ i \in born
  BY DEF Begins, Begin, Usable, Control, TypeOK
<1>2. i \in freed
  BY <1>1 DEF Natives, Mirror, SlotTellsTruth
<1>3. i \in Iterator
  BY DEF Begins
<1> QED BY <1>1, <1>2, <1>3, GoneIsClosed DEF Reach

\* A call that starts reads NULL only from a closed iterator.
LEMMA ReachBegin ==
    ASSUME Control, Apart, Natives, Reach, NEW t \in Thread, NEW S, NEW n, Begins(t, S, n)
    PROVE  Reach'
<1> USE KindAssumption, ActorAssumption
<1>1. UNCHANGED <<freed, closed, Dying>>
  BY DEF Begins, Begin, heap, gc, Dying
<1>2. \A f \in faults' : f \in faults \/ (f.on = NULL /\ f.via \in Iterator \cap closed)
  <2>1. S \ ref \subseteq Iterator \cap closed
    BY BeginFindsSlots
  <2>2. faults' = faults \cup NullRead(S)
    BY DEF Begins, Begin
  <2> QED BY <2>1, <2>2 DEF NullRead
<1> QED
  BY <1>1, <1>2
     DEF Reach, Accounted, OptionsOutliveReaders, NoNullDereference, IteratorKeepsDbOpen,
         Handle

\* A native in progress touches its arguments and what these point to, which
\* the stack and the slots of an iterator keep from the collector.
LEMMA ReachNative ==
    ASSUME Control, Apart, Natives, Reach, NEW t \in Thread, Native(t)
    PROVE  Reach'
<1>1. args[t] \subseteq Usable /\ args[t] \subseteq Handle
  BY DEF Usable, Control, TypeOK
<1>2. /\ faults' = faults \cup Touch("use", args[t])
      /\ UNCHANGED <<freed, closed, Dying>>
  BY DEF Native, heap, gc, Wrap, Dying
<1> QED
  BY <1>1, <1>2, UsesAreOfClosed
     DEF Reach, Accounted, OptionsOutliveReaders, NoNullDereference, IteratorKeepsDbOpen

\* A destructor works on databases alone besides its own native.
LEMMA ReachDestroy ==
    ASSUME Control, Apart, Natives, Reach, NEW a \in Actor, Destroy(a)
    PROVE  Reach'
<1> USE KindAssumption, ActorAssumption
<1> DEFINE x == obj[a]
<1>1. x \in born /\ x \in Handle
  BY DEF Destroy, Control, TypeOK, Destroyers
<1>2. freed' \subseteq freed \cup {x} /\ UNCHANGED <<closed, Dying>>
  BY DEF Destroy, gc, Dying
<1>3. x \in Dying \/ x \in closed
  BY <1>1 DEF Control, Destroyers, Dying, Actor
<1>4. Accounted'
  BY <1>2, <1>3 DEF Reach, Accounted
<1>5. \A f \in faults' : f \notin faults =>
        f.on \in Db /\ (f.via \in Iterator => f.on \in closed)
  <2>1. ASSUME NEW f \in faults', f \notin faults
        PROVE  f.on \in Db /\ (f.via \in Iterator => f.on \in closed)
    <3>1. /\ f.via = x /\ f.on \in freed \cap Db \cap deps[f.via]
          /\ f.via \in Iterator => a \in Thread
      BY <2>1, DestroyMeets
    <3>2. f.via \in Iterator => x \in Usable
      BY <1>1, <3>1 DEF Usable
    <3> QED BY <3>1, <3>2, GoneIsClosed DEF Reach
  <2> QED BY <2>1
<1>6. OptionsOutliveReaders' /\ NoNullDereference' /\ IteratorKeepsDbOpen'
  BY <1>2, <1>5
     DEF Reach, OptionsOutliveReaders, NoNullDereference, IteratorKeepsDbOpen, Handle
<1> QED BY <1>4, <1>6 DEF Reach

\* A step that destroys nothing and revives nothing.
LEMMA ReachQuiet ==
    ASSUME Reach, UNCHANGED <<freed, faults>>, closed \subseteq closed',
           Dying \subseteq Dying'
    PROVE  Reach'
BY DEF Reach, Accounted, OptionsOutliveReaders, NoNullDereference, IteratorKeepsDbOpen

\* The steps that are no call and no destructor keep Reach.
LEMMA ReachRest ==
    ASSUME Control, Reach,
           \/ \E t \in Thread : CallClose(t) \/ DestroyRaises(t)
           \/ \E a \in Actor : Lock(a) \/ Clear(a) \/ Unlock(a)
           \/ \E h \in Handle : Drop(h)
           \/ Collect \/ Finalize \/ UNCHANGED vars
    PROVE  Reach'
<1> USE KindAssumption, ActorAssumption, ReachQuiet
<1> USE DEF heap, gc, frame
<1>1. ASSUME NEW t \in Thread, CallClose(t) \/ DestroyRaises(t) PROVE Reach'
  <2>1. Dying' = Dying
    BY <1>1 DEF CallClose, DestroyRaises, Dying, Control, TypeOK, Actor
  <2> QED BY <1>1, <2>1 DEF CallClose, DestroyRaises
<1>2. ASSUME NEW a \in Actor, Lock(a) \/ Clear(a) PROVE Reach'
  BY <1>2 DEF Lock, Clear, Dying
<1>3. ASSUME NEW a \in Actor, Unlock(a) PROVE Reach'
  <2>1. Dying \subseteq Dying'
    <3>1. CASE a = Finalizer
      BY <1>3, <3>1 DEF Unlock, Dying
    <3>2. CASE a # Finalizer
      BY <1>3, <3>2 DEF Unlock, Dying, Control, TypeOK, Actor
    <3> QED BY <3>1, <3>2
  <2> QED BY <1>3, <2>1 DEF Unlock
<1>4. ASSUME NEW h \in Handle, Drop(h) PROVE Reach'
  BY <1>4 DEF Drop, Dying
<1>5. CASE Collect
  BY <1>5 DEF Collect, Dying
<1>6. CASE Finalize
  <2>1. Dying' = Dying
    BY <1>6 DEF Finalize, Dying, Control, TypeOK, Destroyers, Actor
  <2> QED BY <1>6, <2>1 DEF Finalize
<1>7. CASE UNCHANGED vars
  BY <1>7 DEF vars, Dying
<1> QED BY <1>1, <1>2, <1>3, <1>4, <1>5, <1>6, <1>7

\* Every step keeps Reach.
LEMMA ReachStep == Control /\ Apart /\ Natives /\ Reach /\ [Next]_vars => Reach'
BY CallShape, ReachBegin, ReachNative, ReachDestroy, ReachRest
   DEF Next, Destroying

\* The collector never takes the options or the database of an iterator in use,
\* nor an iterator that a seek is given.
THEOREM ReachIsInvariant == Spec => []Reach
<1> QED
  BY ReachInit, ReachStep, ControlIsInvariant, ApartIsInvariant, NativesIsInvariant, PTL
     DEF Spec

-------------------------------------------------------------------------------
(* Checked uses: what scm_get_ref is good for *)

\* A call that starts reports at most a NULL, which is nobody's own native.
LEMMA BeginUses ==
    ASSUME NEW t \in Thread, NEW S, NEW n, Begins(t, S, n), NEW f \in faults', f \notin faults
    PROVE  f.on # f.via
BY KindAssumption DEF Begins, Begin, NullRead

\* A step that reports no use of its own keeps UsesLoseToCloseOnly.
LEMMA UsesLoseStep ==
    ASSUME Control, Apart, Natives, Reach, UsesLoseToCloseOnly, [Next]_vars
    PROVE  UsesLoseToCloseOnly'
<1> USE KindAssumption, ActorAssumption
<1>1. closed \subseteq closed'
  BY CallShape
     DEF Next, vars, heap, Begins, Begin, CallClose, Native, Wrap, Destroying, Lock, Destroy,
         Clear, Unlock, DestroyRaises, Drop, Collect, Finalize
<1>2. ASSUME NEW t \in Thread, Native(t) PROVE UsesLoseToCloseOnly'
  <2>1. args[t] \subseteq Usable /\ args[t] \subseteq Handle
    BY DEF Usable, Control, TypeOK
  <2>2. \A f \in Touch("use", args[t]) : f.on = f.via => f.on \in closed
    BY <2>1, UsesAreOfClosed DEF Reach
  <2> QED BY <1>1, <1>2, <2>2 DEF Native, UsesLoseToCloseOnly
<1>3. ASSUME NEW a \in Actor, Destroy(a) PROVE UsesLoseToCloseOnly'
  BY <1>1, <1>3, DestroyMeets DEF UsesLoseToCloseOnly
<1>4. ASSUME NEW t \in Thread, NEW S, NEW n, Begins(t, S, n) PROVE UsesLoseToCloseOnly'
  BY <1>1, <1>4, BeginUses DEF UsesLoseToCloseOnly
<1>5. CASE UNCHANGED faults
  BY <1>1, <1>5 DEF UsesLoseToCloseOnly
<1> QED
  BY <1>2, <1>3, <1>4, <1>5, CallShape
     DEF Next, vars, CallClose, Destroying, Lock, Clear, Unlock, DestroyRaises, Drop,
         Collect, Finalize

\* With one thread, nothing destroys what a running call was given: the thread
\* itself is in the call, and the finalizers get at nothing a call can name.
ArgumentsLive == \A t \in Thread : args[t] \cap freed = {}

\* Every step keeps it.
LEMMA ArgumentsLiveStep ==
    ASSUME \A t, u \in Thread : t = u,
           Control, Apart, Natives, ArgumentsLive, [Next]_vars
    PROVE  ArgumentsLive'
<1> USE KindAssumption, ActorAssumption
<1>1. ASSUME NEW t \in Thread, NEW S, NEW n, Begins(t, S, n) PROVE ArgumentsLive'
  <2>1. S \subseteq Usable /\ S \subseteq born /\ pc[t] = "idle"
    BY <1>1 DEF Begins, Begin, Usable, Control, TypeOK
  <2>2. ASSUME NEW h \in S \cap ref, h \in freed PROVE FALSE
    <3>1. PICK a \in Actor : pc[a] = "clear" /\ obj[a] = h
      BY <2>1, <2>2 DEF Natives, Mirror, SlotTellsTruth
    <3>2. a = Finalizer
      BY <2>1, <3>1 DEF Actor
    <3>3. h \in Dying
      BY <2>1, <2>2, <3>1, <3>2 DEF Dying, Control, TypeOK
    <3> QED BY <2>1, <3>3 DEF Apart
  <2>3. freed' = freed /\ args' = [args EXCEPT ![t] = S \cap ref]
    BY <1>1 DEF Begins, Begin, heap
  <2> QED BY <2>2, <2>3 DEF ArgumentsLive, Control, TypeOK
<1>2. ASSUME NEW t \in Thread, Native(t) PROVE ArgumentsLive'
  BY <1>2 DEF Native, Wrap, heap, ArgumentsLive, Control, TypeOK
<1>3. ASSUME NEW a \in Actor, Destroy(a) PROVE ArgumentsLive'
  <2>1. freed' \subseteq freed \cup {obj[a]} /\ args' = args /\ obj[a] \in Handle
    BY <1>3 DEF Destroy, frame
  <2>2. CASE a = Finalizer
    BY <2>1, <2>2 DEF ArgumentsLive, Apart, Usable, Dying
  <2>3. CASE a # Finalizer
    BY <1>3, <2>1, <2>3 DEF ArgumentsLive, Control, Makers, Destroy, Actor
  <2> QED BY <2>2, <2>3
<1>4. CASE UNCHANGED <<args, freed>>
  BY <1>4 DEF ArgumentsLive
<1> QED
  BY <1>1, <1>2, <1>3, <1>4, CallShape
     DEF Next, vars, heap, frame, CallClose, Destroying, Lock, Clear, Unlock, DestroyRaises,
         Drop, Collect, Finalize

\* So no use ever meets its own argument destroyed.
LEMMA CheckedUseStep ==
    ASSUME Control, Apart, Natives, ArgumentsLive, CheckedUseIsSafe, [Next]_vars
    PROVE  CheckedUseIsSafe'
<1> USE KindAssumption, ActorAssumption
<1>1. ASSUME NEW t \in Thread, Native(t) PROVE CheckedUseIsSafe'
  BY <1>1 DEF Native, Touch, ArgumentsLive, CheckedUseIsSafe
<1>2. ASSUME NEW a \in Actor, Destroy(a) PROVE CheckedUseIsSafe'
  BY <1>2, DestroyMeets DEF CheckedUseIsSafe
<1>3. ASSUME NEW t \in Thread, NEW S, NEW n, Begins(t, S, n) PROVE CheckedUseIsSafe'
  BY <1>3, BeginUses DEF CheckedUseIsSafe
<1>4. CASE UNCHANGED faults
  BY <1>4 DEF CheckedUseIsSafe
<1> QED
  BY <1>1, <1>2, <1>3, <1>4, CallShape
     DEF Next, vars, CallClose, Destroying, Lock, Clear, Unlock, DestroyRaises, Drop,
         Collect, Finalize

-------------------------------------------------------------------------------
(* The mutex *)

\* Whoever holds the mutex is inside a destroy that will release it.
Holder == mutex # NULL =>
            pc[mutex] \in {"destroy", "clear", "unlock"} /\ Locked(mutex, obj[mutex])

\* While rocksdb-close! is given foreign objects only, whoever takes
\* destroy_mutex in MX stays inside MX until it has unlocked it.
LEMMA HolderStep ==
    ASSUME NonObject = {}, Control, Holder, [Next]_vars
    PROVE  Holder'
<1> USE KindAssumption, ActorAssumption
<1> USE DEF Holder, Control, TypeOK, Actor
<1>1. ASSUME NEW t \in Thread, NEW S, NEW n, Begins(t, S, n) PROVE Holder'
  BY <1>1 DEF Begins, Begin, Locked
<1>2. ASSUME NEW t \in Thread, CallClose(t) PROVE Holder'
  BY <1>2 DEF CallClose, Locked
<1>3. ASSUME NEW t \in Thread, Native(t) PROVE Holder'
  BY <1>3 DEF Native, Locked
<1>4. ASSUME NEW t \in Thread, DestroyRaises(t) PROVE Holder'
  BY <1>4 DEF DestroyRaises
<1>5. ASSUME NEW a \in Actor, Lock(a) PROVE Holder'
  BY <1>5 DEF Lock, Destroyers, Locked
<1>6. ASSUME NEW a \in Actor, Destroy(a) \/ Clear(a) PROVE Holder'
  BY <1>6 DEF Destroy, Clear, Locked
<1>7. ASSUME NEW a \in Actor, Unlock(a) PROVE Holder'
  BY <1>7 DEF Unlock, Released, Destroyers, Locked
<1>8. ASSUME NEW h \in Handle, Drop(h) PROVE Holder'
  BY <1>8 DEF Drop, Locked
<1>9. CASE Collect
  BY <1>9 DEF Collect, Locked
<1>10. CASE Finalize
  BY <1>10 DEF Finalize, Locked
<1>11. CASE UNCHANGED vars
  BY <1>11 DEF vars, Locked
<1> QED
  BY <1>1, <1>2, <1>3, <1>4, <1>5, <1>6, <1>7, <1>8, <1>9, <1>10, <1>11, CallShape
     DEF Next, Destroying

-------------------------------------------------------------------------------
(* The abstract lifetime *)

\* The natives start unborn.
LEMMA LifeStarts == Init => Lifetime!LifeInit
BY DEF Init, Lifetime!LifeInit, Life, Parents

\* A finalized database was destroyed.
LEMMA FinalizedDbs == ASSUME Natives PROVE \A d \in finalized \cap Db : d \in freed
BY KindAssumption DEF Natives, FinalizerLeavesNothing, FinalizedIsDestroyed

\* A step that leaves natives, parents, finalizers and what was asked alone is a
\* stutter.
LEMMA LifeQuiet ==
    ASSUME UNCHANGED <<born, freed, finalized, deps, closed>>
    PROVE  UNCHANGED Lifetime!lvars
BY DEF Lifetime!lvars, Life, Parents

\* A native that returns makes at most one native: Make, or a stutter.
LEMMA LifeNative ==
    ASSUME Control, NEW t \in Thread, Native(t)
    PROVE  (\E h \in Handle : Lifetime!Make(h)) \/ UNCHANGED Lifetime!lvars
<1>1. CASE UNCHANGED heap
  BY <1>1, LifeQuiet DEF Native, heap, gc
<1>2. CASE new[t] # NULL /\ Wrap(new[t], args[t])
  <2> DEFINE h == new[t]
             P == Points(h, args[t])
  <2>1. h \in Handle /\ h \notin born /\ h \notin freed /\ h \notin finalized
    BY <1>2 DEF Control, TypeOK, Makers
  <2>2. /\ born' = born \cup {h} /\ freed' = freed /\ finalized' = finalized
        /\ deps' = [deps EXCEPT ![h] = P] /\ closed' = closed
    BY <1>2 DEF Wrap, Native, gc
  <2>3. Life' = [Life EXCEPT ![h] = "open"]
    BY <2>1, <2>2 DEF Life
  <2>4. Life[h] = "unborn"
    BY <2>1 DEF Life
  <2>5. Parents' = [Parents EXCEPT ![h] = P \cap Db]
    BY <2>1, <2>2 DEF Parents, Control, TypeOK
  <2>6. P \cap Db \in SUBSET Handle
    BY DEF Handle
  <2> HIDE DEF P, h
  <2>7. Lifetime!Make(h)
    BY <2>2, <2>3, <2>4, <2>5, <2>6 DEF Lifetime!Make
  <2> QED BY <2>1, <2>7
<1> QED BY <1>1, <1>2 DEF Native

\* rocksdb-close! of a handle asks for its destruction.
LEMMA LifeClose ==
    ASSUME Control, NEW t \in Thread, CallClose(t)
    PROVE  (\E h \in Handle : Lifetime!Ask(h)) \/ UNCHANGED Lifetime!lvars
<1> USE KindAssumption
<1>1. PICK x \in Closable : closed' = closed \cup ({x} \cap Handle)
  BY DEF CallClose
<1>2. UNCHANGED <<born, freed, finalized, deps>>
  BY DEF CallClose, gc
<1>3. UNCHANGED <<Life, Parents>>
  BY <1>2 DEF Life, Parents
<1>4. CASE x \in NonObject
  BY <1>1, <1>2, <1>4, LifeQuiet
<1>5. CASE x \in held
  <2>1. x \in Handle /\ x \in born
    BY <1>5 DEF Control, TypeOK
  <2>2. Life[x] # "unborn"
    BY <2>1 DEF Life
  <2>3. Lifetime!Ask(x)
    BY <1>1, <1>3, <2>1, <2>2 DEF Lifetime!Ask
  <2> QED BY <2>1, <2>3
<1> QED BY <1>4, <1>5 DEF Closable

\* The destructor in a destroy macro is a Kill, or a stutter where the test
\* fails.
LEMMA LifeDestroy ==
    ASSUME Control, Apart, Natives, NEW a \in Actor, Destroy(a)
    PROVE  (\E h \in Handle : Lifetime!Kill(h)) \/ UNCHANGED Lifetime!lvars
<1> USE KindAssumption
<1> DEFINE x == obj[a]
           go == x \in ref /\ (a = Finalizer => ParentOpen(x))
<1>1. x \in born /\ x \in Handle /\ pc[a] = "destroy"
  BY DEF Destroy, Control, TypeOK, Destroyers
<1>2. /\ freed' = IF go THEN freed \cup {x} ELSE freed
      /\ UNCHANGED <<born, deps, finalized, closed>>
  BY DEF Destroy, gc
<1>3. CASE ~ go
  BY <1>2, <1>3, LifeQuiet
<1>4. CASE go
  <2>1. /\ x \notin freed
        /\ x \in Iterator => \A d \in Db \cap ref : d \notin freed
    BY <1>1, <1>4, DestroyerIsAlone DEF Natives
  <2>2. ASSUME a = Finalizer, x \in Iterator, NEW d \in deps[x] \cap Db
        PROVE  d \in born /\ d \notin freed
    <3>1. PICK e \in keeps[x] \cap Db : e \in ref
      BY <1>4, <2>2 DEF ParentOpen
    <3>2. e \in deps[x] /\ e = d
      BY <1>1, <2>2, <3>1 DEF Natives, IteratorSlots
    <3> QED BY <2>1, <2>2, <3>1, <3>2 DEF Control, TypeOK
  <2>3. a # Finalizer => x \in closed /\ x \notin finalized
    BY <1>1 DEF Control, Destroyers, Apart, Usable, Dying, Actor
  <2>4. x \notin finalized
    <3>1. ASSUME x \in finalized PROVE FALSE
      <4>1. a = Finalizer /\ x \in Iterator /\ deps[x] \cap Db \subseteq freed
        BY <2>1, <2>3, <3>1 DEF Natives, FinalizerLeavesNothing, FinalizedIsDestroyed
      <4>2. PICK e \in keeps[x] \cap Db : e \in ref
        BY <1>4, <4>1 DEF ParentOpen
      <4>3. e \in deps[x]
        BY <1>1, <4>2 DEF Natives, IteratorSlots
      <4> QED BY <2>1, <4>1, <4>2, <4>3
    <3> QED BY <3>1
  <2>5. Life[x] = "open"
    BY <1>1, <2>1, <2>4 DEF Life
  <2>6. x \in Iterator \ closed => \A d \in Parents[x] : Life[d] = "open"
    BY <1>1, <2>2, <2>3, FinalizedDbs DEF Parents, Life, Handle
  <2>7. Life' = [Life EXCEPT ![x] = "destroyed"]
    BY <1>1, <1>2, <1>4 DEF Life
  <2>8. Parents' = Parents /\ closed' = closed
    BY <1>2 DEF Parents
  <2> HIDE DEF x
  <2>9. Lifetime!Kill(x)
    BY <2>5, <2>6, <2>7, <2>8 DEF Lifetime!Kill
  <2> QED BY <1>1, <2>9
<1> QED BY <1>3, <1>4

\* A finalizer that ends without having destroyed its native gives it up.
LEMMA LifeUnlock ==
    ASSUME Control, Natives, NEW a \in Actor, Unlock(a)
    PROVE  (\E h \in Handle : Lifetime!GiveUp(h)) \/ UNCHANGED Lifetime!lvars
<1> USE KindAssumption
<1> DEFINE x == obj[a]
<1>1. x \in born /\ x \in Handle /\ pc[a] = "unlock"
  BY DEF Unlock, Control, TypeOK, Destroyers
<1>2. /\ finalized' = IF a = Finalizer THEN finalized \cup {x} ELSE finalized
      /\ UNCHANGED <<born, freed, deps, closed>>
  BY DEF Unlock, heap
<1>3. Parents' = Parents
  BY <1>2 DEF Parents
<1>4. CASE a # Finalizer \/ x \in finalized
  BY <1>2, <1>4, LifeQuiet
<1>5. CASE x \in freed
  BY <1>2, <1>3, <1>5 DEF Life, Lifetime!lvars
<1>6. CASE a = Finalizer /\ x \notin finalized /\ x \notin freed
  <2>1. x \in Iterator /\ deps[x] \cap Db \subseteq freed
    BY <1>1, <1>6 DEF Natives, FinalizerLeavesNothing, Gone
  <2>2. Life[x] = "open" /\ Life' = [Life EXCEPT ![x] = "leaked"]
    BY <1>1, <1>2, <1>6 DEF Life
  <2>3. \A d \in Parents[x] : Life[d] = "destroyed"
    BY <1>1, <2>1 DEF Parents, Life, Handle, Control, TypeOK
  <2> HIDE DEF x
  <2>4. Lifetime!GiveUp(x)
    BY <1>2, <1>3, <2>1, <2>2, <2>3 DEF Lifetime!GiveUp
  <2> QED BY <1>1, <2>4
<1> QED BY <1>4, <1>5, <1>6

\* Every step of the bindings is a step of the abstract lifetime or a stutter.
LEMMA LifeStep ==
    Control /\ Apart /\ Natives /\ [Next]_vars => [Lifetime!LifeNext]_(Lifetime!lvars)
<1> SUFFICES ASSUME Control, Apart, Natives, [Next]_vars
             PROVE  Lifetime!LifeNext \/ UNCHANGED Lifetime!lvars
  OBVIOUS
<1> USE LifeQuiet DEF heap, gc, frame
<1>1. ASSUME NEW t \in Thread, NEW S, NEW n, Begins(t, S, n) PROVE UNCHANGED Lifetime!lvars
  BY <1>1 DEF Begins, Begin
<1>2. ASSUME NEW t \in Thread, DestroyRaises(t) PROVE UNCHANGED Lifetime!lvars
  BY <1>2 DEF DestroyRaises
<1>3. ASSUME NEW a \in Actor, Lock(a) \/ Clear(a) PROVE UNCHANGED Lifetime!lvars
  BY <1>3 DEF Lock, Clear
<1>4. ASSUME (\E h \in Handle : Drop(h)) \/ Collect \/ Finalize PROVE UNCHANGED Lifetime!lvars
  BY <1>4 DEF Drop, Collect, Finalize
<1>5. CASE UNCHANGED vars
  BY <1>5 DEF vars
<1> QED
  BY <1>1, <1>2, <1>3, <1>4, <1>5, CallShape, LifeNative, LifeClose, LifeDestroy, LifeUnlock
     DEF Next, Destroying, Lifetime!LifeNext

-------------------------------------------------------------------------------
(* Theorems *)

\* Every variable keeps its type, for any number of threads and handles.
THEOREM TypeCorrect == Spec => []TypeOK
<1>1. Control => TypeOK
  BY DEF Control
<1> QED BY <1>1, ControlIsInvariant, PTL

\* No native is destroyed twice by rocksdb-close! and the finalizers.
THEOREM DestroyedOnce == Spec => []NoDoubleDestroy
<1>1. Natives => NoDoubleDestroy
  BY DEF Natives
<1> QED BY <1>1, NativesIsInvariant, PTL

\* No iterator is destroyed after its database but by rocksdb-close! of itself.
THEOREM IteratorsGoFirst == Spec => []IteratorDestroyedBeforeDb
<1>1. Natives => IteratorDestroyedBeforeDb
  BY DEF Natives
<1> QED BY <1>1, NativesIsInvariant, PTL

\* Slot 0 says whether the native exists, but inside a destroy.
THEOREM SlotsAreTrue == Spec => []SlotTellsTruth
<1>1. Natives => SlotTellsTruth
  BY DEF Natives, Mirror
<1> QED BY <1>1, NativesIsInvariant, PTL

\* A finalizer gives up no native but an iterator's whose database went first.
THEOREM FinalizersDestroy == Spec => []FinalizedIsDestroyed
<1>1. Natives => FinalizedIsDestroyed
  BY DEF Natives, FinalizerLeavesNothing
<1> QED BY <1>1, NativesIsInvariant, PTL

\* No call reads read options that their lockless finalizer has destroyed: if
\* they are gone, the program itself passed them to rocksdb-close!.
THEOREM OptionsOutlive == Spec => []OptionsOutliveReaders
<1>1. Reach => OptionsOutliveReaders
  BY DEF Reach
<1> QED BY <1>1, ReachIsInvariant, PTL

\* The seeks that read slot 0 unchecked find NULL there only in an iterator the
\* program itself passed to rocksdb-close!; no finalizer, and no close of another
\* handle, puts it there while a call can name the iterator.
THEOREM SeeksFindIterator == Spec => []NoNullDereference
<1>1. Reach => NoNullDereference
  BY DEF Reach
<1> QED BY <1>1, ReachIsInvariant, PTL

\* An iterator finds its database closed only if rocksdb-close! was called on it.
THEOREM IteratorsKeepDb == Spec => []IteratorKeepsDbOpen
<1>1. Reach => IteratorKeepsDbOpen
  BY DEF Reach
<1> QED BY <1>1, ReachIsInvariant, PTL

\* In a program with one thread a call that passed scm_get_ref on a handle finds
\* that handle's native, whatever the finalization thread does meanwhile.
THEOREM CheckedUsesFindNatives ==
    ASSUME \A t, u \in Thread : t = u
    PROVE  Spec => []CheckedUseIsSafe
<1>1. Init => ArgumentsLive /\ CheckedUseIsSafe
  BY DEF Init, ArgumentsLive, CheckedUseIsSafe
<1>2. Control /\ Apart /\ Natives /\ ArgumentsLive /\ [Next]_vars => ArgumentsLive'
  BY ArgumentsLiveStep
<1>3. Control /\ Apart /\ Natives /\ ArgumentsLive /\ CheckedUseIsSafe /\ [Next]_vars
        => CheckedUseIsSafe'
  BY CheckedUseStep
<1> QED
  BY <1>1, <1>2, <1>3, ControlIsInvariant, ApartIsInvariant, NativesIsInvariant, PTL DEF Spec

\* With any number of threads, a call finds its own argument's native gone only
\* if some thread has passed that argument to rocksdb-close!.
THEOREM OnlyCloseRacesUses == Spec => []UsesLoseToCloseOnly
<1>1. Init => UsesLoseToCloseOnly
  BY DEF Init, UsesLoseToCloseOnly
<1>2. Control /\ Apart /\ Natives /\ Reach /\ UsesLoseToCloseOnly /\ [Next]_vars => UsesLoseToCloseOnly'
  BY UsesLoseStep
<1> QED
  BY <1>1, <1>2, ControlIsInvariant, ApartIsInvariant, NativesIsInvariant, ReachIsInvariant,
     PTL DEF Spec

\* If rocksdb-close! is only given foreign objects, the mutex is never left
\* locked.
THEOREM MutexIsReleased ==
    ASSUME NonObject = {}
    PROVE  Spec => []MutexHolderIsInside
<1>1. Init => Holder
  BY DEF Init, Holder
<1>2. Control /\ Holder /\ [Next]_vars => Holder'
  BY HolderStep
<1>3. Holder => MutexHolderIsInside
  BY DEF Holder, MutexHolderIsInside
<1> QED BY <1>1, <1>2, <1>3, ControlIsInvariant, PTL DEF Spec

\* The bindings implement the abstract lifetime of natives.
THEOREM LifetimeIsImplemented == Spec => ImplementsLifetime
<1> QED
  BY LifeStarts, LifeStep, ControlIsInvariant, ApartIsInvariant, NativesIsInvariant, PTL
     DEF Spec, ImplementsLifetime, Lifetime!Spec
===============================================================================
