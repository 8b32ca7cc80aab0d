---------------------------- MODULE DatabasesProofs ----------------------------
(***************************************************************************)
(* Theorems about Databases, for any directories, handles, families, keys  *)
(* and values and any number of writes.  The invariant relates the locks   *)
(* to the handles (Locks), the handles of families to what they were asked *)
(* for (Families), the tables to the program's books (Kept) and the stamps *)
(* of entries to the databases that wrote them (Stamps).                   *)
(***************************************************************************)
EXTENDS Databases, TLAPS

Table(S) == [Dir -> [Family -> [Key -> S]]]

\* The LOCK of a directory belongs to the one handle that is open on it to write.
Locks ==
    /\ \A dir \in Dir : lock[dir] # NULL =>
          /\ db[lock[dir]].state = "open"
          /\ db[lock[dir]].dir = dir
          /\ db[lock[dir]].mode # "read"
    /\ \A d \in Db : db[d].state = "open" =>
          /\ db[d].dir \in Dir
          /\ db[d].mode # "none"
          /\ db[d].mode # "read" => lock[db[d].dir] = d

\* A handle was asked for a family, and has that one or none.
Families ==
    \A c \in Cf :
        /\ cf[c].state = "unborn" <=> cf[c].asked = NULL
        /\ cf[c].rep \in {cf[c].asked, NULL}

\* The tables in memory say what the books say, and what lies on the disk is
\* one of the values a restart may give back.
Kept ==
    NoneHollow =>
        \A dir \in Dir, n \in Family, k \in Key :
            /\ present[dir][n][k].val = account[dir][n][k]
            /\ account[dir][n][k] \in maybe[dir][n][k]
            /\ safe[dir][n][k].val \in maybe[dir][n][k]

\* Some handle of the kind that writes such entries was opened on dir.
Writer(dir, stamped) ==
    \E d \in Db : /\ db[d].state # "unborn" /\ db[d].dir = dir
                  /\ db[d].mode = IF stamped THEN "ttl" ELSE "write"

Stamps ==
    \A dir \in Dir, n \in Family, k \in Key :
        /\ present[dir][n][k].val # NULL => Writer(dir, present[dir][n][k].stamped)
        /\ safe[dir][n][k].val # NULL => Writer(dir, safe[dir][n][k].stamped)

IInv == TypeOK /\ Locks /\ Families /\ Kept /\ Stamps

-------------------------------------------------------------------------------
(* Tables *)

LEMMA SetTable ==
    ASSUME NEW S, NEW table \in Table(S), NEW dir \in Dir, NEW n \in Family,
           NEW K, NEW e \in S
    PROVE  /\ Set(table, dir, n, K, e) \in Table(S)
           /\ \A r \in Dir, m \in Family, k \in Key :
                 Set(table, dir, n, K, e)[r][m][k] =
                    IF r = dir /\ m = n /\ k \in K THEN e ELSE table[r][m][k]
BY DEF Set, Table

\* One field of a record less or more: what the EXCEPTs of the actions leave.
LEMMA DbRecord ==
    ASSUME NEW h \in DbHandle, NEW N \in SUBSET {"handle", "iterator"}
    PROVE  /\ [h EXCEPT !.names = N] \in DbHandle
           /\ [h EXCEPT !.names = N].state = h.state
           /\ [h EXCEPT !.names = N].dir = h.dir
           /\ [h EXCEPT !.names = N].mode = h.mode
           /\ [h EXCEPT !.state = "closed"] \in DbHandle
           /\ [h EXCEPT !.state = "closed"].state = "closed"
           /\ [h EXCEPT !.state = "closed"].dir = h.dir
           /\ [h EXCEPT !.state = "closed"].mode = h.mode
BY DEF DbHandle, States

LEMMA CfRecord ==
    ASSUME NEW h \in CfHandle
    PROVE  /\ [h EXCEPT !.state = "closed"] \in CfHandle
           /\ [h EXCEPT !.state = "closed"].state = "closed"
           /\ [h EXCEPT !.state = "closed"].asked = h.asked
           /\ [h EXCEPT !.state = "closed"].rep = h.rep
BY DEF CfHandle, States

\* What each step does to the handles of databases.
Alike(h, g) == h.state = g.state /\ h.dir = g.dir /\ h.mode = g.mode

LEMMA NamesChange ==
    ASSUME TypeOK, NEW d \in Db,
           CreateIterator(d) \/ \E x \in {"handle", "iterator"} : Drop(d, x)
    PROVE  db' \in [Db -> DbHandle] /\ \A e \in Db : Alike(db'[e], db[e])
<1>1. PICK N \in SUBSET {"handle", "iterator"} : db' = [db EXCEPT ![d].names = N]
  <2>1. db[d].names \in SUBSET {"handle", "iterator"}
    BY DEF TypeOK, DbHandle
  <2> QED
    BY <2>1 DEF CreateIterator, Drop, Keeper
<1>2. db' = [db EXCEPT ![d] = [db[d] EXCEPT !.names = N]]
  BY <1>1
<1>3. db \in [Db -> DbHandle]
  BY DEF TypeOK
<1> QED
  <2>1. db'[d] = [db[d] EXCEPT !.names = N] /\ \A e \in Db : e # d => db'[e] = db[e]
    BY <1>2, <1>3
  <2>2. db[d] \in DbHandle
    BY <1>3
  <2>3. db'[d] \in DbHandle /\ Alike(db'[d], db[d])
    BY <1>1, <2>1, <2>2 DEF Alike, DbHandle
  <2>4. \A e \in Db : Alike(db'[e], db[e])
    BY <2>1, <2>3 DEF Alike
  <2>5. db' \in [Db -> DbHandle]
    BY <1>2, <1>3, <2>1, <2>3
  <2> QED
    BY <2>4, <2>5

LEMMA DestroyChange ==
    ASSUME TypeOK, NEW d \in Db, Destroy(d)
    PROVE  /\ db' \in [Db -> DbHandle]
           /\ \A e \in Db : e # d => db'[e] = db[e]
           /\ db'[d].state = "closed" /\ db'[d].dir = db[d].dir /\ db'[d].mode = db[d].mode
<1>1. db' = [db EXCEPT ![d] = [db[d] EXCEPT !.state = "closed"]]
  BY DEF Destroy
<1>2. db \in [Db -> DbHandle]
  BY DEF TypeOK
<1> QED
  BY <1>1, <1>2, DbRecord

LEMMA ExitChange ==
    ASSUME TypeOK, Exit
    PROVE  /\ db' \in [Db -> DbHandle] /\ cf' \in [Cf -> CfHandle]
           /\ \A d \in Db :
                 /\ db'[d].state = IF db[d].state = "open" THEN "closed" ELSE db[d].state
                 /\ db'[d].dir = db[d].dir /\ db'[d].mode = db[d].mode
           /\ \A c \in Cf :
                 /\ cf'[c].state = IF cf[c].state = "open" THEN "closed" ELSE cf[c].state
                 /\ cf'[c].asked = cf[c].asked /\ cf'[c].rep = cf[c].rep
<1>1. ASSUME NEW d \in Db
      PROVE  /\ db'[d] \in DbHandle
             /\ db'[d].state = IF db[d].state = "open" THEN "closed" ELSE db[d].state
             /\ db'[d].dir = db[d].dir /\ db'[d].mode = db[d].mode
  <2>1. db[d] \in DbHandle /\ {} \in SUBSET {"handle", "iterator"}
    BY DEF TypeOK
  <2>2. db'[d] = IF db[d].state = "open"
                   THEN [[db[d] EXCEPT !.state = "closed"] EXCEPT !.names = {}]
                   ELSE [db[d] EXCEPT !.names = {}]
    BY <2>1 DEF Exit
  <2>3. CASE db[d].state = "open"
    BY <2>1, <2>2, <2>3 DEF DbHandle, States
  <2>4. CASE db[d].state # "open"
    BY <2>1, <2>2, <2>4 DEF DbHandle
  <2> QED
    BY <2>3, <2>4
<1>2. ASSUME NEW c \in Cf
      PROVE  /\ cf'[c] \in CfHandle
             /\ cf'[c].state = IF cf[c].state = "open" THEN "closed" ELSE cf[c].state
             /\ cf'[c].asked = cf[c].asked /\ cf'[c].rep = cf[c].rep
  <2>1. cf[c] \in CfHandle
    BY DEF TypeOK
  <2>2. cf'[c] = IF cf[c].state = "open" THEN [cf[c] EXCEPT !.state = "closed"] ELSE cf[c]
    BY DEF Exit
  <2> QED
    BY <2>1, <2>2, CfRecord
<1>3. db' \in [Db -> DbHandle]
  <2>1. db' = [d \in Db |-> db'[d]]
    BY DEF Exit
  <2> QED
    BY <1>1, <2>1
<1>4. cf' \in [Cf -> CfHandle]
  <2>1. cf' = [c \in Cf |-> cf'[c]]
    BY DEF Exit
  <2> QED
    BY <1>2, <2>1
<1> QED
  BY <1>1, <1>2, <1>3, <1>4

-------------------------------------------------------------------------------
(* Types *)

LEMMA InitTyped == Init => TypeOK
<1> SUFFICES ASSUME Init PROVE TypeOK
  OBVIOUS
<1>1. Gone \in Entry
  BY DEF Gone, Entry
<1>2. UnbornDb \in DbHandle /\ UnbornCf \in CfHandle
  BY DEF UnbornDb, UnbornCf, DbHandle, CfHandle, States
<1> QED
  BY <1>1, <1>2, BoundAssumption DEF Init, TypeOK

\* The steps of Next as the proofs below take them: the three bindings that
\* write are one, and so are rocksdb-close! and the finalizer.
Step ==
    \/ \E d \in Db, dir \in Dir, mode \in {"write", "ttl", "read"}, create \in BOOLEAN :
          Open(d, dir, mode, create)
    \/ \E d \in Db : CreateIterator(d)
    \/ \E d \in Db, x \in {"handle", "iterator"} : Drop(d, x)
    \/ \E d \in Db, c \in Cf, n \in Family : CreateColumnFamily(d, c, n)
    \/ \E d \in Db, c \in Cf \cup {NULL}, K \in SUBSET Key, v \in Value \cup {NULL},
          logged \in BOOLEAN : Write(d, c, K, v, logged)
    \/ \E dir \in Dir, n \in Family : Flush(dir, n)
    \/ \E d \in Db : Destroyable(d) /\ Destroy(d)
    \/ Exit

LEMMA NextIsStep == Next => Step
<1> SUFFICES ASSUME Next PROVE Step
  OBVIOUS
<1>1. CASE \E d \in Db, dir \in Dir, mode \in {"write", "ttl", "read"}, create \in BOOLEAN :
             Open(d, dir, mode, create)
  BY <1>1 DEF Step
<1>2. CASE \E d \in Db : CreateIterator(d) \/ Close(d) \/ Finalize(d)
  BY <1>2 DEF Step, Close, Finalize, Usable, Destroyable
<1>3. CASE \E d \in Db, x \in {"handle", "iterator"} : Drop(d, x)
  BY <1>3 DEF Step
<1>4. CASE \E d \in Db, c \in Cf, n \in Family : CreateColumnFamily(d, c, n)
  BY <1>4 DEF Step
<1>5. CASE \E d \in Db, c \in Cf \cup {NULL}, logged \in BOOLEAN, k \in Key :
             \/ \E v \in Value : Put(d, c, k, v, logged)
             \/ Delete(d, c, k, logged)
             \/ \E end \in Key : DeleteRange(d, c, k, end, logged)
  <2>1. PICK d \in Db, c \in Cf \cup {NULL}, logged \in BOOLEAN, k \in Key :
             \/ \E v \in Value : Put(d, c, k, v, logged)
             \/ Delete(d, c, k, logged)
             \/ \E end \in Key : DeleteRange(d, c, k, end, logged)
    BY <1>5
  <2>2. {k} \in SUBSET Key /\ \A end \in Key : k .. end - 1 \in SUBSET Key
    BY BoundAssumption DEF Key
  <2>3. \E K \in SUBSET Key, v \in Value \cup {NULL} : Write(d, c, K, v, logged)
    BY <2>1, <2>2 DEF Put, Delete, DeleteRange
  <2> QED BY <2>3 DEF Step
<1>6. CASE \E dir \in Dir, n \in Family : Flush(dir, n)
  BY <1>6 DEF Step
<1>7. CASE Exit
  BY <1>7 DEF Step
<1> QED
  BY <1>1, <1>2, <1>3, <1>4, <1>5, <1>6, <1>7 DEF Next

\* What a write does to the tables and the books, entry by entry.
LEMMA WriteEntries ==
    ASSUME TypeOK, Locks, Families,
           NEW d \in Db, NEW c \in Cf \cup {NULL}, NEW K \in SUBSET Key,
           NEW v \in Value \cup {NULL}, NEW logged \in BOOLEAN, Write(d, c, K, v, logged)
    PROVE  \/ UNCHANGED <<present, safe, account, maybe>>
           \/ \E e \in Entry :
                /\ db[d].mode \in {"write", "ttl"}
                /\ db[d].dir \in Dir /\ Target(c) \in Family /\ Asked(c) \in Family
                /\ NoneHollow => Asked(c) = Target(c)
                /\ e.val = v
                /\ v # NULL => (e.stamped <=> db[d].mode = "ttl")
                /\ present' = Set(present, db[d].dir, Target(c), K, e)
                /\ safe' = IF logged THEN Set(safe, db[d].dir, Target(c), K, e) ELSE safe
                /\ Acknowledge(db[d].dir, Asked(c), K, v, logged)
<1> DEFINE e == [val |-> v, stamped |-> v # NULL /\ db[d].mode = "ttl"]
<1>1. e \in Entry
  BY DEF Entry
<1>2. db[d].dir \in Dir /\ db[d].mode \in {"write", "ttl", "read"}
  BY DEF Write, Usable, Locks, TypeOK, DbHandle
<1>3. Default \in Family /\ NULL \notin Family
  BY NameAssumption DEF Family
<1>4. Asked(c) \in Family /\ Target(c) \in Family
  BY <1>3 DEF Write, Asked, Target, Hollow, Families, TypeOK, CfHandle
<1>5. NoneHollow => Asked(c) = Target(c)
  BY <1>3, <1>4 DEF Write, Asked, Target, Hollow, Families, NoneHollow
<1>6. CASE Refused(d)
  BY <1>6 DEF Write, Raises, books
<1>7. CASE ~Refused(d)
  <2>1. /\ present' = Set(present, db[d].dir, Target(c), K, e)
        /\ safe' = IF logged THEN Set(safe, db[d].dir, Target(c), K, e) ELSE safe
        /\ Acknowledge(db[d].dir, Asked(c), K, v, logged)
    BY <1>7 DEF Write, Raises
  <2>2. db[d].mode \in {"write", "ttl"}
    BY <1>2, <1>7 DEF Refused
  <2>3. e.val = v /\ (v # NULL => (e.stamped <=> db[d].mode = "ttl"))
    OBVIOUS
  <2> HIDE DEF e
  <2> QED
    BY <1>1, <1>2, <1>4, <1>5, <2>1, <2>2, <2>3
<1> QED
  BY <1>6, <1>7

LEMMA StepTyped ==
    ASSUME IInv, [Next]_vars
    PROVE  TypeOK'
<1> USE DEF IInv
<1>1. CASE UNCHANGED vars
  BY <1>1 DEF vars, disk, books, TypeOK
<1>2. CASE \E d \in Db, dir \in Dir, mode \in {"write", "ttl", "read"}, create \in BOOLEAN :
             Open(d, dir, mode, create)
  <2>1. PICK d \in Db, dir \in Dir, mode \in {"write", "ttl", "read"}, create \in BOOLEAN :
             Open(d, dir, mode, create)
    BY <1>2
  <2>2. db' \in [Db -> DbHandle]
    BY <2>1 DEF Open, TypeOK, DbHandle, States
  <2>3. on' \in [Dir -> SUBSET Family] /\ lock' \in [Dir -> Db \cup {NULL}]
    BY <2>1 DEF Open, TypeOK, Family
  <2> QED
    BY <2>1, <2>2, <2>3 DEF Open, TypeOK, books
<1>3. CASE \E d \in Db : CreateIterator(d)
  BY <1>3, NamesChange DEF CreateIterator, TypeOK, disk, books
<1>4. CASE \E d \in Db, x \in {"handle", "iterator"} : Drop(d, x)
  BY <1>4, NamesChange DEF Drop, TypeOK, disk, books
<1>5. CASE \E d \in Db, c \in Cf, n \in Family : CreateColumnFamily(d, c, n)
  <2>1. PICK d \in Db, c \in Cf, n \in Family : CreateColumnFamily(d, c, n)
    BY <1>5
  <2>2. cf' \in [Cf -> CfHandle]
    BY <2>1 DEF CreateColumnFamily, TypeOK, CfHandle, States
  <2>3. on' \in [Dir -> SUBSET Family]
    BY <2>1 DEF CreateColumnFamily, TypeOK
  <2> QED
    BY <2>1, <2>2, <2>3 DEF CreateColumnFamily, TypeOK, books
<1>6. CASE \E d \in Db, c \in Cf \cup {NULL}, K \in SUBSET Key, v \in Value \cup {NULL},
             logged \in BOOLEAN : Write(d, c, K, v, logged)
  <2>1. PICK d \in Db, c \in Cf \cup {NULL}, K \in SUBSET Key, v \in Value \cup {NULL},
             logged \in BOOLEAN : Write(d, c, K, v, logged)
    BY <1>6
  <2>2. writes' \in 0 .. MaxWrites /\ UNCHANGED <<on, lock, db, cf>>
    BY <2>1, BoundAssumption DEF Write, TypeOK
  <2>3. CASE UNCHANGED <<present, safe, account, maybe>>
    BY <2>2, <2>3 DEF TypeOK
  <2>4. ASSUME NEW dir \in Dir, NEW m \in Family, NEW n \in Family, NEW e \in Entry,
               present' = Set(present, dir, m, K, e),
               safe' = IF logged THEN Set(safe, dir, m, K, e) ELSE safe,
               Acknowledge(dir, n, K, v, logged)
        PROVE  TypeOK'
    <3>1. present' \in Table(Entry) /\ safe' \in Table(Entry)
      <4>1. present \in Table(Entry) /\ safe \in Table(Entry)
        BY DEF TypeOK, Table
      <4>2. \A t \in Table(Entry) : Set(t, dir, m, K, e) \in Table(Entry)
        BY <2>4, SetTable
      <4> QED
        BY <2>4, <4>1, <4>2
    <3>2. account' \in Table(Value \cup {NULL})
      BY <2>4, SetTable DEF Acknowledge, TypeOK, Table
    <3>3. maybe' \in Table(SUBSET (Value \cup {NULL}))
      BY <2>4 DEF Acknowledge, TypeOK, Table
    <3> QED
      BY <2>2, <3>1, <3>2, <3>3 DEF TypeOK, Table
  <2> QED
    BY <2>1, <2>3, <2>4, WriteEntries
<1>7. CASE \E dir \in Dir, n \in Family : Flush(dir, n)
  BY <1>7 DEF Flush, TypeOK, books
<1>8. CASE \E d \in Db : Destroyable(d) /\ Destroy(d)
  <2>1. PICK d \in Db : Destroyable(d) /\ Destroy(d)
    BY <1>8
  <2>2. db[d].dir \in Dir
    BY <2>1 DEF Destroyable, Locks
  <2>3. safe' \in [Dir -> [Family -> [Key -> Entry]]] /\ lock' \in [Dir -> Db \cup {NULL}]
    BY <2>1, <2>2 DEF Destroy, Release, TypeOK
  <2>4. maybe' \in [Dir -> [Family -> [Key -> SUBSET (Value \cup {NULL})]]]
    BY <2>1, <2>2 DEF Destroy, Settle, TypeOK
  <2>5. db' \in [Db -> DbHandle]
    BY <2>1, DestroyChange
  <2> QED
    BY <2>1, <2>3, <2>4, <2>5 DEF Destroy, TypeOK
<1>9. CASE Exit
  <2>1. db' \in [Db -> DbHandle] /\ cf' \in [Cf -> CfHandle]
    BY <1>9, ExitChange
  <2>2. \A dir \in Dir, n \in Family, k \in Key : safe[dir][n][k].val \in Value \cup {NULL}
    BY DEF TypeOK, Entry
  <2>3. account' \in [Dir -> [Family -> [Key -> Value \cup {NULL}]]]
    BY <1>9, <2>2 DEF Exit
  <2>4. maybe' \in [Dir -> [Family -> [Key -> SUBSET (Value \cup {NULL})]]]
    <3>1. \A dir \in Dir, n \in Family, k \in Key :
             {safe[dir][n][k].val} \in SUBSET (Value \cup {NULL})
      BY <2>2
    <3>2. maybe' = [dir \in Dir |-> [n \in Family |-> [k \in Key |-> {safe[dir][n][k].val}]]]
      BY <1>9 DEF Exit
    <3> QED
      BY <3>1, <3>2
  <2>5. present' = safe /\ safe' = safe /\ on' = on /\ writes' = writes /\ lock' \in [Dir -> Db \cup {NULL}]
    BY <1>9 DEF Exit
  <2> QED
    BY <2>1, <2>3, <2>4, <2>5 DEF TypeOK
<1> QED
  BY <1>1, <1>2, <1>3, <1>4, <1>5, <1>6, <1>7, <1>8, <1>9, NextIsStep DEF Step

-------------------------------------------------------------------------------
(* Locks *)

LEMMA StepLocks ==
    ASSUME IInv, [Next]_vars
    PROVE  Locks'
<1>0. TypeOK /\ Locks
  BY DEF IInv
<1> USE <1>0 DEF Locks
<1>1. CASE UNCHANGED vars
  BY <1>1 DEF vars
<1>2. CASE \E d \in Db, dir \in Dir, mode \in {"write", "ttl", "read"}, create \in BOOLEAN :
             Open(d, dir, mode, create)
  BY <1>2, NullAssumption DEF Open, Openable, TypeOK, DbHandle
<1>3. CASE \E d \in Db : CreateIterator(d)
  BY <1>3, NamesChange DEF CreateIterator, Alike, TypeOK
<1>4. CASE \E d \in Db, x \in {"handle", "iterator"} : Drop(d, x)
  BY <1>4, NamesChange DEF Drop, Alike, TypeOK
<1>5. CASE \E d \in Db, c \in Cf, n \in Family : CreateColumnFamily(d, c, n)
  BY <1>5 DEF CreateColumnFamily
<1>6. CASE \E d \in Db, c \in Cf \cup {NULL}, K \in SUBSET Key, v \in Value \cup {NULL},
             logged \in BOOLEAN : Write(d, c, K, v, logged)
  BY <1>6 DEF Write
<1>7. CASE \E dir \in Dir, n \in Family : Flush(dir, n)
  BY <1>7 DEF Flush
<1>8. CASE \E d \in Db : Destroyable(d) /\ Destroy(d)
  <2>1. PICK d \in Db : Destroyable(d) /\ Destroy(d)
    BY <1>8
  <2>2. IF lock[db[d].dir] = d THEN lock' = [lock EXCEPT ![db[d].dir] = NULL]
        ELSE lock' = lock
    BY <2>1 DEF Destroy, Release
  <2>3. lock \in [Dir -> Db \cup {NULL}]
    BY DEF TypeOK
  <2> QED
    BY <2>1, <2>2, <2>3, DestroyChange, NullAssumption DEF Destroyable
<1>9. CASE Exit
  <2>1. lock' = [dir \in Dir |-> NULL]
    BY <1>9 DEF Exit
  <2>2. \A d \in Db : db'[d].state # "open"
    BY <1>9, ExitChange
  <2> QED
    BY <2>1, <2>2
<1> QED
  BY <1>1, <1>2, <1>3, <1>4, <1>5, <1>6, <1>7, <1>8, <1>9, NextIsStep DEF Step

-------------------------------------------------------------------------------
(* Handles of families *)

LEMMA StepFamilies ==
    ASSUME IInv, [Next]_vars
    PROVE  Families' /\ (NoneHollow' => NoneHollow)
<1>0. TypeOK /\ Families
  BY DEF IInv
<1> USE <1>0
<1>1. CASE UNCHANGED cf
  BY <1>1 DEF Families, NoneHollow
<1>2. CASE \E d \in Db, c \in Cf, n \in Family : CreateColumnFamily(d, c, n)
  <2>1. PICK d \in Db, c \in Cf, n \in Family : CreateColumnFamily(d, c, n)
    BY <1>2
  <2>2. /\ cf'[c].state = "open" /\ cf'[c].asked = n
        /\ cf'[c].rep \in {n, NULL}
        /\ \A e \in Cf : e # c => cf'[e] = cf[e]
    BY <2>1 DEF CreateColumnFamily, TypeOK
  <2>3. cf[c].asked = NULL /\ n # NULL
    BY <2>1, NameAssumption DEF CreateColumnFamily, Families, Family
  <2> QED
    BY <2>2, <2>3 DEF Families, NoneHollow
<1>3. CASE Exit
  <2>1. \A c \in Cf :
           /\ cf'[c].state = "unborn" <=> cf[c].state = "unborn"
           /\ cf'[c].asked = cf[c].asked /\ cf'[c].rep = cf[c].rep
    BY <1>3, ExitChange
  <2> QED
    BY <2>1 DEF Families, NoneHollow
<1>4. UNCHANGED cf \/ Exit \/ \E d \in Db, c \in Cf, n \in Family : CreateColumnFamily(d, c, n)
  <2>1. UNCHANGED vars \/ Step
    BY NextIsStep
  <2>2. UNCHANGED vars => UNCHANGED cf
    BY DEF vars
  <2>3. \A d \in Db :
           /\ CreateIterator(d) => UNCHANGED cf
           /\ \A x : Drop(d, x) => UNCHANGED cf
           /\ Destroy(d) => UNCHANGED cf
           /\ \A dir, mode, create : Open(d, dir, mode, create) => UNCHANGED cf
           /\ \A c, K, v, logged : Write(d, c, K, v, logged) => UNCHANGED cf
    BY DEF Open, CreateIterator, Drop, Write, Destroy
  <2>4. \A dir, n : Flush(dir, n) => UNCHANGED cf
    BY DEF Flush
  <2> QED
    BY <2>1, <2>2, <2>3, <2>4 DEF Step
<1> QED
  BY <1>1, <1>2, <1>3, <1>4

-------------------------------------------------------------------------------
(* What the steps do to tables and books *)

\* Steps that are neither a write nor a flush, a close or an exit.
Elsewhere == UNCHANGED <<present, safe, account, maybe>>

LEMMA StepKinds ==
    ASSUME IInv, [Next]_vars
    PROVE  \/ Elsewhere
           \/ \E d \in Db, c \in Cf \cup {NULL}, K \in SUBSET Key, v \in Value \cup {NULL},
                 logged \in BOOLEAN : Write(d, c, K, v, logged)
           \/ \E dir \in Dir, n \in Family : Flush(dir, n)
           \/ \E d \in Db : Destroyable(d) /\ Destroy(d)
           \/ Exit
<1>1. UNCHANGED vars => Elsewhere
  BY DEF vars, disk, books, Elsewhere
<1>2. \A d \in Db :
         /\ CreateIterator(d) => Elsewhere
         /\ \A x : Drop(d, x) => Elsewhere
         /\ \A dir, mode, create : Open(d, dir, mode, create) => Elsewhere
         /\ \A c, n : CreateColumnFamily(d, c, n) => Elsewhere
  BY DEF CreateIterator, Drop, Open, CreateColumnFamily, disk, books, Elsewhere
<1> QED
  BY <1>1, <1>2, NextIsStep DEF Step

\* A write, entry by entry: either nothing, or one value under some keys of one
\* family - the same one in the tables and in the books when no handle is hollow.
LEMMA WriteOne ==
    ASSUME IInv, NoneHollow,
           NEW d \in Db, NEW c \in Cf \cup {NULL}, NEW K \in SUBSET Key,
           NEW v \in Value \cup {NULL}, NEW logged \in BOOLEAN, Write(d, c, K, v, logged)
    PROVE  \/ Elsewhere
           \/ \E dir \in Dir, m \in Family, e \in Entry :
                /\ e.val = v
                /\ present' = Set(present, dir, m, K, e)
                /\ safe' = IF logged THEN Set(safe, dir, m, K, e) ELSE safe
                /\ Acknowledge(dir, m, K, v, logged)
<1>1. TypeOK /\ Locks /\ Families
  BY DEF IInv
<1>2. CASE Elsewhere
  BY <1>2
<1>3. CASE ~Elsewhere
  <2>1. PICK e \in Entry :
                /\ db[d].dir \in Dir /\ Target(c) \in Family
                /\ Asked(c) = Target(c)
                /\ e.val = v
                /\ present' = Set(present, db[d].dir, Target(c), K, e)
                /\ safe' = IF logged THEN Set(safe, db[d].dir, Target(c), K, e) ELSE safe
                /\ Acknowledge(db[d].dir, Asked(c), K, v, logged)
    BY <1>1, <1>3, WriteEntries DEF Elsewhere
  <2> QED
    BY <2>1
<1> QED
  BY <1>2, <1>3

\* A close or a finalizer: what it flushes and settles is one directory.
LEMMA DestroyOne ==
    ASSUME IInv, NEW d \in Db, Destroyable(d), Destroy(d)
    PROVE  /\ UNCHANGED <<present, account>>
           /\ \/ UNCHANGED <<safe, maybe>>
              \/ \E dir \in Dir :
                    /\ safe' = [safe EXCEPT ![dir] = present[dir]]
                    /\ maybe' = [maybe EXCEPT ![dir] =
                                   [n \in Family |-> [k \in Key |-> {account[dir][n][k]}]]]
<1>1. UNCHANGED <<present, account>>
  BY DEF Destroy
<1>2. db[d].state = "open" /\ db[d].dir \in Dir
  BY DEF Destroyable, IInv, Locks
<1>3. CASE db[d].mode = "read"
  <2>1. lock[db[d].dir] # d
    BY <1>2, <1>3, NullAssumption DEF IInv, Locks
  <2> QED
    BY <1>1, <1>3, <2>1 DEF Destroy, Release, Settle
<1>4. CASE db[d].mode # "read"
  <2>1. lock[db[d].dir] = d
    BY <1>2, <1>4 DEF IInv, Locks
  <2> QED
    BY <1>1, <1>2, <1>4, <2>1 DEF Destroy, Release, Settle
<1> QED
  BY <1>3, <1>4

-------------------------------------------------------------------------------
(* The tables and the books *)

LEMMA StepKept ==
    ASSUME IInv, [Next]_vars
    PROVE  Kept'
<1> SUFFICES ASSUME NoneHollow',
                    NEW r \in Dir, NEW n \in Family, NEW k \in Key
             PROVE  /\ present'[r][n][k].val = account'[r][n][k]
                    /\ account'[r][n][k] \in maybe'[r][n][k]
                    /\ safe'[r][n][k].val \in maybe'[r][n][k]
  BY DEF Kept
<1>1. NoneHollow
  BY StepFamilies
<1>2. /\ present[r][n][k].val = account[r][n][k]
      /\ account[r][n][k] \in maybe[r][n][k]
      /\ safe[r][n][k].val \in maybe[r][n][k]
  BY <1>1 DEF IInv, Kept
<1>3. /\ present \in Table(Entry) /\ safe \in Table(Entry)
      /\ account \in Table(Value \cup {NULL})
      /\ maybe \in Table(SUBSET (Value \cup {NULL}))
  BY DEF IInv, TypeOK, Table
<1>4. CASE Elsewhere
  BY <1>2, <1>4 DEF Elsewhere
<1>5. ASSUME ~Elsewhere,
             \E d \in Db, c \in Cf \cup {NULL}, K \in SUBSET Key, v \in Value \cup {NULL},
                logged \in BOOLEAN : Write(d, c, K, v, logged)
      PROVE  /\ present'[r][n][k].val = account'[r][n][k]
             /\ account'[r][n][k] \in maybe'[r][n][k]
             /\ safe'[r][n][k].val \in maybe'[r][n][k]
  <2>1. PICK d \in Db, c \in Cf \cup {NULL}, K \in SUBSET Key, v \in Value \cup {NULL},
             logged \in BOOLEAN : Write(d, c, K, v, logged)
    BY <1>5
  <2>2. PICK dir \in Dir, m \in Family, e \in Entry :
                /\ e.val = v
                /\ present' = Set(present, dir, m, K, e)
                /\ safe' = IF logged THEN Set(safe, dir, m, K, e) ELSE safe
                /\ Acknowledge(dir, m, K, v, logged)
    BY <1>1, <1>5, <2>1, WriteOne
  <2>3. /\ present'[r][n][k] = IF r = dir /\ n = m /\ k \in K THEN e ELSE present[r][n][k]
        /\ account'[r][n][k] = IF r = dir /\ n = m /\ k \in K THEN v ELSE account[r][n][k]
    BY <1>3, <2>2, SetTable DEF Acknowledge
  <2>4. safe'[r][n][k] = IF logged /\ r = dir /\ n = m /\ k \in K THEN e ELSE safe[r][n][k]
    BY <1>3, <2>2, SetTable
  <2>5. maybe'[r][n][k] = IF r = dir /\ n = m /\ k \in K
                            THEN IF logged THEN {v} ELSE maybe[r][n][k] \cup {v}
                            ELSE maybe[r][n][k]
    BY <1>3, <2>2 DEF Table, Acknowledge
  <2> QED
    BY <1>2, <2>2, <2>3, <2>4, <2>5
<1>6. CASE \E dir \in Dir, m \in Family : Flush(dir, m)
  <2>1. UNCHANGED <<present, account, maybe>>
    BY <1>6 DEF Flush, books
  <2>2. safe'[r][n][k] \in {safe[r][n][k], present[r][n][k]}
    BY <1>3, <1>6 DEF Flush, Table
  <2> QED
    BY <1>2, <2>1, <2>2
<1>7. CASE \E d \in Db : Destroyable(d) /\ Destroy(d)
  <2>1. CASE UNCHANGED <<present, account, safe, maybe>>
    BY <1>2, <2>1
  <2>2. ASSUME NEW dir \in Dir,
               UNCHANGED <<present, account>>,
               safe' = [safe EXCEPT ![dir] = present[dir]],
               maybe' = [maybe EXCEPT ![dir] =
                           [m \in Family |-> [j \in Key |-> {account[dir][m][j]}]]]
        PROVE  /\ present'[r][n][k].val = account'[r][n][k]
               /\ account'[r][n][k] \in maybe'[r][n][k]
               /\ safe'[r][n][k].val \in maybe'[r][n][k]
    <3>1. safe'[r] = (IF r = dir THEN present[r] ELSE safe[r])
      BY <1>3, <2>2 DEF Table
    <3>2. maybe'[r][n][k] = (IF r = dir THEN {account[r][n][k]} ELSE maybe[r][n][k])
      BY <1>3, <2>2 DEF Table
    <3> QED
      BY <1>2, <2>2, <3>1, <3>2
  <2> QED
    BY <1>7, <2>1, <2>2, DestroyOne
<1>8. CASE Exit
  BY <1>8 DEF Exit
<1> QED
  BY <1>4, <1>5, <1>6, <1>7, <1>8, StepKinds

-------------------------------------------------------------------------------
(* Stamps *)

LEMMA WriterStays ==
    ASSUME IInv, [Next]_vars, NEW dir, NEW stamped, Writer(dir, stamped)
    PROVE  Writer(dir, stamped)'
<1>0. TypeOK
  BY DEF IInv
<1> USE <1>0
<1>1. PICK w \in Db : /\ db[w].state # "unborn" /\ db[w].dir = dir
                      /\ db[w].mode = IF stamped THEN "ttl" ELSE "write"
  BY DEF Writer
<1>2. SUFFICES db'[w].state # "unborn" /\ db'[w].dir = db[w].dir /\ db'[w].mode = db[w].mode
  BY <1>1 DEF Writer
<1>3. CASE UNCHANGED db
  BY <1>1, <1>3
<1>4. ASSUME NEW d \in Db, NEW r, NEW mode, NEW create, Open(d, r, mode, create)
      PROVE  db'[w] = db[w]
  BY <1>1, <1>4 DEF Open, TypeOK
<1>5. ASSUME NEW d \in Db,
             CreateIterator(d) \/ \E x \in {"handle", "iterator"} : Drop(d, x)
      PROVE  Alike(db'[w], db[w])
  BY <1>5, NamesChange
<1>6. ASSUME NEW d \in Db, Destroy(d)
      PROVE  db'[w].state # "unborn" /\ db'[w].dir = db[w].dir /\ db'[w].mode = db[w].mode
  BY <1>1, <1>6, DestroyChange
<1>7. CASE Exit
  BY <1>1, <1>7, ExitChange
<1>8. /\ \A d, c, n : CreateColumnFamily(d, c, n) => UNCHANGED db
      /\ \A d, c, K, v, logged : Write(d, c, K, v, logged) => UNCHANGED db
      /\ \A r, n : Flush(r, n) => UNCHANGED db
      /\ UNCHANGED vars => UNCHANGED db
  BY DEF CreateColumnFamily, Write, Flush, vars
<1> QED
  BY <1>1, <1>3, <1>4, <1>5, <1>6, <1>7, <1>8, NextIsStep DEF Step, Alike

LEMMA StepStamps ==
    ASSUME IInv, [Next]_vars
    PROVE  Stamps'
<1> DEFINE WriterAfter(dir, stamped) ==
              \E d \in Db : /\ db'[d].state # "unborn" /\ db'[d].dir = dir
                            /\ db'[d].mode = IF stamped THEN "ttl" ELSE "write"
           Fine(dir, entry) == entry.val # NULL => WriterAfter(dir, entry.stamped)
<1>1. \A dir, stamped : Writer(dir, stamped) => WriterAfter(dir, stamped)
  <2> SUFFICES ASSUME NEW dir, NEW stamped, Writer(dir, stamped)
               PROVE  WriterAfter(dir, stamped)
    OBVIOUS
  <2>1. Writer(dir, stamped)'
    BY WriterStays
  <2> QED
    BY <2>1 DEF Writer
<1>2. \A dir \in Dir, n \in Family, k \in Key :
         Fine(dir, present[dir][n][k]) /\ Fine(dir, safe[dir][n][k])
  BY <1>1 DEF IInv, Stamps
<1> HIDE DEF WriterAfter, Fine
<1> SUFFICES ASSUME NEW r \in Dir, NEW n \in Family, NEW k \in Key
             PROVE  Fine(r, present'[r][n][k]) /\ Fine(r, safe'[r][n][k])
  BY DEF Stamps, Writer, Fine, WriterAfter
<1>3. present \in Table(Entry) /\ safe \in Table(Entry)
  BY DEF IInv, TypeOK, Table
<1>4. CASE Elsewhere
  BY <1>2, <1>4 DEF Elsewhere
<1>5. ASSUME ~Elsewhere,
             \E d \in Db, c \in Cf \cup {NULL}, K \in SUBSET Key, v \in Value \cup {NULL},
                logged \in BOOLEAN : Write(d, c, K, v, logged)
      PROVE  Fine(r, present'[r][n][k]) /\ Fine(r, safe'[r][n][k])
  <2>1. PICK d \in Db, c \in Cf \cup {NULL}, K \in SUBSET Key, v \in Value \cup {NULL},
             logged \in BOOLEAN : Write(d, c, K, v, logged)
    BY <1>5
  <2>2. PICK e \in Entry :
                /\ db[d].mode \in {"write", "ttl"}
                /\ db[d].dir \in Dir /\ Target(c) \in Family
                /\ e.val = v
                /\ v # NULL => (e.stamped <=> db[d].mode = "ttl")
                /\ present' = Set(present, db[d].dir, Target(c), K, e)
                /\ safe' = IF logged THEN Set(safe, db[d].dir, Target(c), K, e) ELSE safe
    BY <1>5, <2>1, WriteEntries DEF IInv, Elsewhere
  <2>3. /\ present'[r][n][k] \in {present[r][n][k], IF r = db[d].dir THEN e ELSE present[r][n][k]}
        /\ safe'[r][n][k] \in {safe[r][n][k], IF r = db[d].dir THEN e ELSE safe[r][n][k]}
    BY <1>3, <2>2, SetTable
  <2>4. Fine(db[d].dir, e)
    <3>1. SUFFICES ASSUME e.val # NULL PROVE WriterAfter(db[d].dir, e.stamped)
      BY DEF Fine
    <3>2. db[d].mode = IF e.stamped THEN "ttl" ELSE "write"
      BY <2>2, <3>1
    <3>3. db[d].state # "unborn"
      BY <2>1 DEF Write, Usable
    <3> QED
      BY <1>1, <3>2, <3>3 DEF Writer
  <2> QED
    BY <1>2, <2>3, <2>4
<1>6. CASE \E dir \in Dir, m \in Family : Flush(dir, m)
  BY <1>2, <1>3, <1>6 DEF Flush, Table
<1>7. CASE \E d \in Db : Destroyable(d) /\ Destroy(d)
  <2>1. present' = present
    BY <1>7 DEF Destroy
  <2>2. safe'[r] = safe[r] \/ safe'[r] = present[r]
    BY <1>3, <1>7, DestroyOne DEF Table
  <2> QED
    BY <1>2, <2>1, <2>2
<1>8. CASE Exit
  BY <1>2, <1>8 DEF Exit
<1> QED
  BY <1>4, <1>5, <1>6, <1>7, <1>8, StepKinds

-------------------------------------------------------------------------------
(* The invariant and the theorems *)

LEMMA InitIInv == Init => IInv
<1> SUFFICES ASSUME Init PROVE IInv
  OBVIOUS
<1>1. TypeOK
  BY InitTyped
<1>2. Locks /\ Families
  BY DEF Init, Locks, Families, UnbornDb, UnbornCf
<1>3. Kept /\ Stamps
  BY DEF Init, Kept, Stamps, Gone
<1> QED
  BY <1>1, <1>2, <1>3 DEF IInv

LEMMA StepIInv == IInv /\ [Next]_vars => IInv'
BY StepTyped, StepLocks, StepFamilies, StepKept, StepStamps DEF IInv

LEMMA Invariance == Spec => []IInv
<1> QED
  BY InitIInv, StepIInv, PTL DEF Spec

\* The variables keep their types: no binding stores anything else in them.
THEOREM TypesHold == Spec => []TypeOK
<1>1. IInv => TypeOK
  BY DEF IInv
<1> QED
  BY <1>1, Invariance, PTL

\* rocksdb_close lets the LOCK go whoever calls it: a closed or finalized handle
\* never has the LOCK of a directory.
THEOREM ClosedLetsGo == Spec => []ClosedIsUnlocked
<1>1. IInv => ClosedIsUnlocked
  BY DEF IInv, Locks, ClosedIsUnlocked
<1> QED
  BY <1>1, Invariance, PTL

\* rocksdb-get and iterators answer through a database open for writing what
\* the writes that returned have stored, as long as no family was lost and the
\* directory is opened always or never with a time to live.
THEOREM AnswersHold == Spec => []AnswersLastWrite
<1>1. IInv => AnswersLastWrite
  <2> SUFFICES ASSUME IInv, NoneHollow, NEW d \in Db,
                      db[d].state = "open", db[d].mode # "read", OneKind(db[d].dir),
                      NEW n \in Family, NEW k \in Key
               PROVE  Answer(d, n, k) = account[db[d].dir][n][k]
    BY DEF AnswersLastWrite
  <2> DEFINE e == present[db[d].dir][n][k]
  <2>1. db[d].dir \in Dir
    BY DEF IInv, Locks
  <2>2. e.val = account[db[d].dir][n][k]
    BY <2>1 DEF IInv, Kept
  <2>3. e.val # NULL => (e.stamped <=> db[d].mode = "ttl")
    <3>1. SUFFICES ASSUME e.val # NULL PROVE e.stamped <=> db[d].mode = "ttl"
      OBVIOUS
    <3>2. PICK w \in Db : /\ db[w].dir = db[d].dir
                          /\ db[w].mode = IF e.stamped THEN "ttl" ELSE "write"
      BY <2>1, <3>1 DEF IInv, Stamps, Writer
    <3> QED
      BY <3>2 DEF OneKind
  <2> QED
    BY <2>2, <2>3 DEF Answer
<1> QED
  BY <1>1, Invariance, PTL

-------------------------------------------------------------------------------
(* Databases implements DurableStore *)

LEMMA InitStore == Init => Durable!StoreInit
<1> SUFFICES ASSUME Init PROVE Durable!StoreInit
  OBVIOUS
<1>1. Contents = [dir \in Dir |-> [n \in Family |-> [k \in Key |-> NULL]]]
  BY DEF Init, Contents, Gone
<1>2. maybe = [dir \in Dir |-> Durable!Certain(Contents[dir])]
  BY <1>1 DEF Init, Durable!Certain
<1> QED
  BY <1>1, <1>2 DEF Durable!StoreInit

LEMMA StepStore ==
    ASSUME IInv, [Next]_vars, NoneHollow'
    PROVE  Durable!StoreNext \/ UNCHANGED Durable!svars
<1>1. NoneHollow
  BY StepFamilies
<1>2. /\ present \in Table(Entry) /\ safe \in Table(Entry)
      /\ account \in Table(Value \cup {NULL})
      /\ maybe \in Table(SUBSET (Value \cup {NULL}))
  BY DEF IInv, TypeOK, Table
<1>3. \A dir \in Dir, n \in Family, k \in Key :
         /\ Contents[dir][n][k] = account[dir][n][k]
         /\ safe[dir][n][k].val \in maybe[dir][n][k]
  BY <1>1 DEF IInv, Kept, Contents
<1>4. CASE Elsewhere
  BY <1>4 DEF Elsewhere, Contents, Durable!svars
<1>5. ASSUME ~Elsewhere,
             \E d \in Db, c \in Cf \cup {NULL}, K \in SUBSET Key, v \in Value \cup {NULL},
                logged \in BOOLEAN : Write(d, c, K, v, logged)
      PROVE  Durable!StoreNext
  <2>1. PICK d \in Db, c \in Cf \cup {NULL}, K \in SUBSET Key, v \in Value \cup {NULL},
             logged \in BOOLEAN : Write(d, c, K, v, logged)
    BY <1>5
  <2>2. PICK dir \in Dir, m \in Family, e \in Entry :
                /\ e.val = v
                /\ present' = Set(present, dir, m, K, e)
                /\ safe' = IF logged THEN Set(safe, dir, m, K, e) ELSE safe
                /\ Acknowledge(dir, m, K, v, logged)
    BY <1>1, <1>5, <2>1, WriteOne
  <2>3. Contents' = [Contents EXCEPT ![dir][m] = [k \in Key |-> IF k \in K THEN v ELSE @[k]]]
    <3>1. \A r \in Dir, n \in Family, k \in Key :
             present'[r][n][k].val =
                IF r = dir /\ n = m /\ k \in K THEN v ELSE present[r][n][k].val
      BY <1>2, <2>2, SetTable
    <3>2. Contents' = [r \in Dir |-> [n \in Family |-> [k \in Key |->
                          IF r = dir /\ n = m /\ k \in K THEN v ELSE present[r][n][k].val]]]
      BY <3>1 DEF Contents
    <3> DEFINE F == [k \in Key |-> IF k \in K THEN v ELSE Contents[dir][m][k]]
               G == [Contents EXCEPT ![dir][m] = F]
    <3>3. Contents = [r \in Dir |-> [n \in Family |-> [k \in Key |-> present[r][n][k].val]]]
      BY DEF Contents
    <3>4. \A r \in Dir, n \in Family :
             G[r][n] = IF r = dir /\ n = m THEN F ELSE Contents[r][n]
      BY <3>3
    <3>5. \A r \in Dir, n \in Family :
             G[r][n] = [k \in Key |-> IF r = dir /\ n = m /\ k \in K THEN v
                                      ELSE present[r][n][k].val]
      BY <3>3, <3>4
    <3>6. G = [r \in Dir |-> [n \in Family |-> G[r][n]]]
      BY <3>3
    <3> HIDE DEF G
    <3>7. G = Contents'
      BY <3>2, <3>5, <3>6
    <3> QED
      BY <3>7 DEF G
  <2>4. Durable!Store(dir, m, K, v, logged)
    BY <2>2, <2>3 DEF Acknowledge, Durable!Store
  <2> QED
    BY <2>4 DEF Durable!StoreNext
<1>6. CASE \E dir \in Dir, n \in Family : Flush(dir, n)
  BY <1>6 DEF Flush, books, Contents, Durable!svars
<1>7. CASE \E d \in Db : Destroyable(d) /\ Destroy(d)
  <2>1. Contents' = Contents
    BY <1>7 DEF Destroy, Contents
  <2>2. CASE maybe' = maybe
    BY <2>1, <2>2 DEF Durable!svars
  <2>3. ASSUME NEW dir \in Dir,
               maybe' = [maybe EXCEPT ![dir] =
                           [n \in Family |-> [k \in Key |-> {account[dir][n][k]}]]]
        PROVE  Durable!StoreNext
    <3>1. [n \in Family |-> [k \in Key |-> {account[dir][n][k]}]]
             = Durable!Certain(Contents[dir])
      BY <1>3 DEF Durable!Certain
    <3>2. Durable!Settle(dir)
      BY <2>1, <2>3, <3>1 DEF Durable!Settle
    <3> QED
      BY <3>2 DEF Durable!StoreNext
  <2> QED
    BY <1>7, <2>2, <2>3, DestroyOne
<1>8. CASE Exit
  <2>1. Contents' = [dir \in Dir |-> [n \in Family |-> [k \in Key |-> safe[dir][n][k].val]]]
    BY <1>8 DEF Exit, Contents
  <2>2. \A dir \in Dir, n \in Family, k \in Key : Contents'[dir][n][k] \in maybe[dir][n][k]
    BY <1>3, <2>1
  <2>3. maybe' = [dir \in Dir |-> Durable!Certain(Contents'[dir])]
    BY <1>8, <2>1 DEF Exit, Durable!Certain
  <2>4. Durable!Restart
    BY <2>2, <2>3 DEF Durable!Restart
  <2> QED
    BY <2>4 DEF Durable!StoreNext
<1> QED
  BY <1>4, <1>5, <1>6, <1>7, <1>8, StepKinds

\* The bindings implement a durable store: put, delete and delete-range store
\* what they return for, and a process that ends at any moment takes with it
\* only writes made with :disable-wal that no close or flush has settled.
THEOREM StoreIsDurable == Spec => ImplementsDurableStore
<1>1. IInv /\ [Next]_vars => [NoneHollow' => Durable!StoreNext]_(Durable!svars)
  BY StepStore
<1> QED
  BY <1>1, InitStore, Invariance, PTL DEF Spec, ImplementsDurableStore
===============================================================================
