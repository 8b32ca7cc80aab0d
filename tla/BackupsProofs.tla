----------------------------- MODULE BackupsProofs -----------------------------
(***************************************************************************)
(* Theorems about Backups, for any numbers a program passes, any widths of *)
(* C's integers and any number of writes and backups.  The invariant says  *)
(* how the engine, the directory and an info list are parts of the history *)
(* of backups (Counted, and Named while no purge was told to keep none)    *)
(* and that what the newest backup holds only grows (Newest).              *)
(***************************************************************************)
EXTENDS Backups, FiniteSetTheorems, TLAPS

\* The writes are numbered as they come.
Numbered == \E w \in 0 .. MaxWrites : files \cup memory = 1 .. w

\* The engine knows the directory, and no number outruns the history.
Counted ==
    /\ engine # NULL => engine.list = backups /\ engine.last <= Len(made)
    /\ \A i \in DOMAIN backups : backups[i].id <= Len(made)
    /\ Len(made) <= MaxBackups

\* The newest backup is there, holds what was written when it was made, and
\* nothing that was restored held more.
Newest ==
    ~emptied =>
        /\ made = <<>> => backups = <<>> /\ restored = NULL
        /\ made # <<>> =>
              /\ backups # <<>> /\ NewestOf(backups) = NewestOf(made)
              /\ NewestOf(made).holds \subseteq files
              /\ restored # NULL => restored \subseteq NewestOf(made).holds

\* A list whose entries stand in the history under their ids.
PartOfMade(list) ==
    /\ Len(list) <= Len(made)
    /\ \A i \in DOMAIN list : list[i].id \in DOMAIN made /\ made[list[i].id] = list[i]

Named ==
    ~emptied =>
        /\ \A j \in DOMAIN made : made[j].id = j
        /\ PartOfMade(backups)
        /\ engine # NULL => engine.last = Len(made)
        /\ info # NULL => PartOfMade(info)

IInv == TypeOK /\ Numbered /\ Counted /\ Newest /\ Named

-------------------------------------------------------------------------------
(* Lists and numbers *)

\* What a purge that keeps a backup leaves: the end of the list, newest included.
LEMMA KeepLastList ==
    ASSUME NEW list \in Seq(Backup), NEW n \in Nat
    PROVE  /\ KeepLast(list, n) \in Seq(Backup)
           /\ Len(KeepLast(list, n)) <= Len(list)
           /\ \A i \in DOMAIN KeepLast(list, n) :
                 \E j \in DOMAIN list : KeepLast(list, n)[i] = list[j]
           /\ n # 0 /\ list # <<>> =>
                 /\ KeepLast(list, n) # <<>>
                 /\ NewestOf(KeepLast(list, n)) = NewestOf(list)
<1>1. CASE n < Len(list)
  <2>1. KeepLast(list, n) = SubSeq(list, Len(list) - n + 1, Len(list))
    BY <1>1 DEF KeepLast
  <2>2. Len(list) - n + 1 \in 1 .. Len(list) + 1
    BY <1>1
  <2>3. /\ KeepLast(list, n) \in Seq(Backup)
        /\ Len(KeepLast(list, n)) = n
        /\ \A i \in 1 .. n : KeepLast(list, n)[i] = list[Len(list) - n + i]
    BY <1>1, <2>1, <2>2
  <2>4. \A i \in 1 .. n : Len(list) - n + i \in DOMAIN list
    BY <1>1
  <2>5. n # 0 => NewestOf(KeepLast(list, n)) = NewestOf(list)
    BY <1>1, <2>3 DEF NewestOf
  <2> QED
    BY <1>1, <2>3, <2>4, <2>5
<1>2. CASE ~(n < Len(list))
  <2>1. KeepLast(list, n) = SubSeq(list, 1, Len(list))
    BY <1>2 DEF KeepLast
  <2>2. KeepLast(list, n) = list
    BY <2>1
  <2> QED
    BY <2>2
<1> QED
  BY <1>1, <1>2

LEMMA AppendList ==
    ASSUME NEW list \in Seq(Backup), NEW b \in Backup
    PROVE  /\ Append(list, b) \in Seq(Backup)
           /\ Append(list, b) # <<>>
           /\ Len(Append(list, b)) = Len(list) + 1
           /\ NewestOf(Append(list, b)) = b
           /\ \A i \in DOMAIN list : Append(list, b)[i] = list[i]
           /\ DOMAIN Append(list, b) = DOMAIN list \cup {Len(list) + 1}
           /\ Append(list, b)[Len(list) + 1] = b
BY DEF NewestOf

\* Conversions change no number that int can hold.
LEMMA SmallNumbers ==
    ASSUME NEW i \in Nat, i < IntHalf
    PROVE  AsInt(i) = i /\ AsUint32(i) = i
<1>1. IntHalf \in Nat /\ IntHalf > 0
  BY WidthAssumption
<1>2. \A x, m \in Nat : x < m => x % m = x
  OBVIOUS
<1> QED
  BY <1>1, <1>2 DEF AsInt, AsUint32

LEMMA UintIsNat ==
    ASSUME NEW n \in Nat
    PROVE  AsUint32(n) \in Nat
<1>1. 2 * IntHalf \in Nat /\ 2 * IntHalf > 0
  BY WidthAssumption
<1> QED
  BY <1>1 DEF AsUint32

-------------------------------------------------------------------------------
(* Types and numbers *)

LEMMA InitIInv == Init => IInv
<1> SUFFICES ASSUME Init PROVE IInv
  OBVIOUS
<1>1. TypeOK
  <2>1. <<>> \in Seq(Backup)
    OBVIOUS
  <2>2. [said |-> None, was |-> None] \in [said : Backup \cup {None}, was : Backup \cup {None}]
    OBVIOUS
  <2> QED
    BY <2>1, <2>2 DEF Init, TypeOK
<1>2. Numbered
  <2>1. 0 \in 0 .. MaxWrites /\ files \cup memory = 1 .. 0
    BY BoundAssumption DEF Init
  <2> QED
    BY <2>1 DEF Numbered
<1>3. Counted /\ Newest /\ Named
  BY BoundAssumption DEF Init, Counted, Newest, Named, PartOfMade
<1> QED
  BY <1>1, <1>2, <1>3 DEF IInv

LEMMA StepNumbered ==
    ASSUME TypeOK, Numbered, [Next]_vars
    PROVE  /\ Numbered'
           /\ files' \subseteq Write /\ memory' \subseteq Write \ files'
           /\ files \subseteq files'
<1>1. CASE \E logged \in BOOLEAN : Put(logged)
  <2>1. PICK logged \in BOOLEAN : Put(logged)
    BY <1>1
  <2>2. PICK w \in 0 .. MaxWrites : files \cup memory = 1 .. w
    BY DEF Numbered
  <2>3. Cardinality(files \cup memory) = w
    <3>1. Cardinality(1 .. w) = w
      BY FS_Interval, BoundAssumption
    <3> QED
      BY <2>2, <3>1
  <2>4. /\ w + 1 \in Write
        /\ files' = IF logged THEN files \cup {w + 1} ELSE files
        /\ memory' = IF logged THEN memory ELSE memory \cup {w + 1}
    BY <2>1, <2>3 DEF Put
  <2>5. w + 1 \notin files \cup memory
    BY <2>2
  <2>6. files' \cup memory' = 1 .. (w + 1) /\ w + 1 \in 0 .. MaxWrites
    BY <2>2, <2>4, BoundAssumption DEF Write
  <2> QED
    BY <2>4, <2>5, <2>6 DEF Numbered, TypeOK
<1>2. CASE Flush
  BY <1>2 DEF Flush, Numbered, TypeOK
<1>3. CASE UNCHANGED data
  BY <1>3 DEF data, Numbered, TypeOK
<1>4. (\E logged \in BOOLEAN : Put(logged)) \/ Flush \/ UNCHANGED data
  BY DEF Next, vars, OpenEngine, CloseEngine, CreateNewBackup, PurgeOldBackups,
         RestoreLatest, GetBackupInfo, VerifyBackup
<1> QED
  BY <1>1, <1>2, <1>3, <1>4

\* What the entries of a typed list are.
LEMMA ListEntries ==
    ASSUME NEW list \in Seq(Backup)
    PROVE  /\ \A i \in DOMAIN list : list[i] \in Backup /\ list[i].id \in Nat
           /\ list # <<>> => Len(list) \in DOMAIN list /\ NewestOf(list) \in Backup
           /\ Len(list) \in Nat /\ DOMAIN list = 1 .. Len(list)
           /\ list = <<>> <=> Len(list) = 0
<1>1. \A b \in Backup : b.id \in Nat
  BY DEF Backup
<1>2. Len(list) \in Nat /\ DOMAIN list = 1 .. Len(list) /\ (list = <<>> <=> Len(list) = 0)
  OBVIOUS
<1>3. \A i \in DOMAIN list : list[i] \in Backup
  OBVIOUS
<1> QED
  BY <1>1, <1>2, <1>3 DEF NewestOf

LEMMA StepTyped ==
    ASSUME IInv, [Next]_vars
    PROVE  TypeOK' /\ Counted'
<1>0. TypeOK /\ Numbered /\ Counted
  BY DEF IInv
<1> USE <1>0
<1>1. files' \subseteq Write /\ memory' \subseteq Write \ files'
  BY StepNumbered
<1>2. CASE UNCHANGED <<backups, engine, info, answer, made, emptied>>
  BY <1>1, <1>2 DEF TypeOK, Counted, answer
<1>3. CASE OpenEngine
  <2>1. CASE backups = <<>>
    BY <1>1, <1>3, <2>1, BoundAssumption DEF OpenEngine, TypeOK, Counted, data, answer
  <2>2. CASE backups # <<>>
    <3>1. NewestOf(backups).id \in 0 .. MaxBackups /\ NewestOf(backups).id <= Len(made)
      <4>1. Len(backups) \in DOMAIN backups /\ backups[Len(backups)] \in Backup
        BY <2>2, ListEntries DEF TypeOK, NewestOf
      <4> QED
        BY <4>1, BoundAssumption DEF Counted, NewestOf, Backup
    <3> QED
      BY <1>1, <1>3, <2>2, <3>1 DEF OpenEngine, TypeOK, Counted, data, answer
  <2> QED
    BY <2>1, <2>2
<1>4. CASE CloseEngine
  BY <1>1, <1>4 DEF CloseEngine, TypeOK, Counted, data, answer
<1>5. CASE CreateNewBackup
  <2> DEFINE b    == [id |-> NextId, holds |-> files]
             list == Append(engine.list, b)
  <2>1. /\ engine # NULL /\ Len(made) < MaxBackups
        /\ backups' = list /\ engine' = [list |-> list, last |-> b.id]
        /\ made' = Append(made, b)
        /\ UNCHANGED <<info, answer, emptied>>
    BY <1>5 DEF CreateNewBackup
  <2>2. engine.list = backups /\ engine.last \in 0 .. MaxBackups /\ engine.last <= Len(made)
    BY <2>1 DEF TypeOK, Counted
  <2>3. backups \in Seq(Backup) /\ made \in Seq(Backup) /\ Len(made) \in Nat
    BY DEF TypeOK
  <2>4. b \in Backup /\ b.id <= Len(made) + 1 /\ b.id \in 0 .. MaxBackups
    BY <2>1, <2>2, <2>3, BoundAssumption DEF NextId, Backup, TypeOK
  <2> HIDE DEF b
  <2>5. /\ list \in Seq(Backup) /\ made' \in Seq(Backup)
        /\ Len(made') = Len(made) + 1
        /\ \A i \in DOMAIN list : list[i] = b \/ (i \in DOMAIN backups /\ list[i] = backups[i])
    BY <2>1, <2>2, <2>3, <2>4, AppendList
  <2> HIDE DEF list
  <2>6. TypeOK'
    BY <1>1, <2>1, <2>4, <2>5 DEF TypeOK, answer
  <2>7. \A i \in DOMAIN list : list[i].id <= Len(made')
    BY <2>3, <2>4, <2>5, ListEntries DEF Counted
  <2>8. Counted'
    BY <2>1, <2>3, <2>4, <2>5, <2>7, BoundAssumption DEF Counted
  <2> QED
    BY <2>6, <2>8
<1>6. CASE \E n \in Number : PurgeOldBackups(n)
  <2>1. PICK n \in Number : PurgeOldBackups(n)
    BY <1>6
  <2> DEFINE list == KeepLast(engine.list, AsUint32(n))
  <2>2. /\ engine # NULL
        /\ backups' = list /\ engine' = [engine EXCEPT !.list = list]
        /\ emptied' = (emptied \/ AsUint32(n) = 0)
        /\ UNCHANGED <<data, info, answer, made>>
    BY <2>1 DEF PurgeOldBackups
  <2>3. AsUint32(n) \in Nat
    BY <2>1, WidthAssumption, UintIsNat DEF PurgeOldBackups, SizeT
  <2>4. engine.list = backups /\ backups \in Seq(Backup)
    BY <2>2 DEF TypeOK, Counted
  <2>5. /\ list \in Seq(Backup)
        /\ \A i \in DOMAIN list : \E j \in DOMAIN backups : list[i] = backups[j]
    BY <2>3, <2>4, KeepLastList
  <2> HIDE DEF list
  <2>6. emptied' \in BOOLEAN
    BY <2>2
  <2>7. /\ engine' \in [list : Seq(Backup), last : 0 .. MaxBackups]
        /\ engine'.list = backups' /\ engine'.last = engine.last
    BY <2>2, <2>5 DEF TypeOK
  <2>8. TypeOK'
    BY <1>1, <2>2, <2>5, <2>6, <2>7 DEF TypeOK, answer
  <2>9. Counted'
    BY <2>2, <2>5, <2>7 DEF Counted
  <2> QED
    BY <2>8, <2>9
<1>7. CASE RestoreLatest
  <2>1. restored' \subseteq Write
    BY <1>7, ListEntries DEF RestoreLatest, TypeOK, Backup
  <2> QED
    BY <1>1, <1>7, <2>1 DEF RestoreLatest, TypeOK, Counted, data
<1>8. CASE GetBackupInfo
  BY <1>1, <1>8 DEF GetBackupInfo, TypeOK, Counted, data, answer
<1>9. CASE \E i \in Number : VerifyBackup(i)
  <2>1. PICK i \in Number : VerifyBackup(i)
    BY <1>9
  <2>2. checked' \in [said : Backup \cup {None}, was : Backup \cup {None}]
    BY <2>1, ListEntries DEF VerifyBackup, TypeOK
  <2> QED
    BY <1>1, <2>1, <2>2 DEF VerifyBackup, TypeOK, Counted, data
<1> QED
  BY <1>2, <1>3, <1>4, <1>5, <1>6, <1>7, <1>8, <1>9 DEF Next, Put, Flush, vars

-------------------------------------------------------------------------------
(* The newest backup *)

\* The ends of the two lists, in every state with a typed history.
LEMMA StepNewest ==
    ASSUME IInv, [Next]_vars
    PROVE  /\ Newest'
           /\ restored # NULL /\ ~emptied' => restored \subseteq restored'
<1>0. TypeOK /\ Counted /\ Newest
  BY DEF IInv
<1>1. backups \in Seq(Backup) /\ made \in Seq(Backup) /\ files \subseteq files'
  BY <1>0, StepNumbered DEF IInv, TypeOK
<1> SUFFICES ASSUME ~emptied'
             PROVE  Newest' /\ (restored # NULL => restored \subseteq restored')
  BY DEF Newest
<1>2. ~emptied
  BY DEF Next, vars, data, answer, Put, Flush, OpenEngine, CloseEngine, CreateNewBackup,
         PurgeOldBackups, RestoreLatest, GetBackupInfo, VerifyBackup
<1>3. /\ made = <<>> => backups = <<>> /\ restored = NULL
      /\ made # <<>> =>
            /\ backups # <<>> /\ NewestOf(backups) = NewestOf(made)
            /\ NewestOf(made).holds \subseteq files
            /\ restored # NULL => restored \subseteq NewestOf(made).holds
  BY <1>0, <1>2 DEF Newest
<1>4. CASE UNCHANGED <<backups, made, restored>>
  BY <1>1, <1>3, <1>4 DEF Newest, NewestOf
<1>5. CASE CreateNewBackup
  <2> DEFINE b == [id |-> NextId, holds |-> files]
  <2>1. /\ engine # NULL /\ Len(made) < MaxBackups
        /\ backups' = Append(engine.list, b) /\ made' = Append(made, b)
        /\ UNCHANGED <<files, restored>>
    BY <1>5 DEF CreateNewBackup, data, answer
  <2>2. engine.list = backups /\ b.holds = files
    BY <1>0, <2>1 DEF Counted
  <2>3. b \in Backup
    <3>1. engine.last \in Nat /\ engine.last <= Len(made) /\ Len(made) \in Nat
      BY <1>0, <1>1, <2>1, BoundAssumption DEF TypeOK, Counted
    <3>2. NextId \in 1 .. MaxBackups
      BY <2>1, <3>1, BoundAssumption DEF NextId
    <3> QED
      BY <1>0, <3>2 DEF Backup, TypeOK
  <2> HIDE DEF b
  <2>4. /\ backups' # <<>> /\ made' # <<>>
        /\ NewestOf(backups') = b /\ NewestOf(made') = b
    BY <1>1, <2>1, <2>2, <2>3, AppendList
  <2>5. restored # NULL => restored \subseteq files
    BY <1>3
  <2> QED
    BY <2>1, <2>2, <2>4, <2>5 DEF Newest, NewestOf
<1>6. CASE \E n \in Number : PurgeOldBackups(n)
  <2>1. PICK n \in Number : PurgeOldBackups(n)
    BY <1>6
  <2>2. /\ engine # NULL /\ backups' = KeepLast(engine.list, AsUint32(n))
        /\ AsUint32(n) # 0 /\ UNCHANGED <<files, made, restored>>
    BY <2>1 DEF PurgeOldBackups, data, answer
  <2>3. engine.list = backups /\ AsUint32(n) \in Nat
    BY <1>0, <2>1, <2>2, WidthAssumption, UintIsNat DEF Counted, PurgeOldBackups, SizeT
  <2>4. CASE backups = <<>>
    <3>1. backups' = <<>>
      <4>1. backups' \in Seq(Backup) /\ Len(backups') <= 0
        BY <1>1, <2>2, <2>3, <2>4, KeepLastList
      <4> QED
        BY <4>1, ListEntries
    <3> QED
      BY <1>3, <2>2, <2>4, <3>1 DEF Newest, NewestOf
  <2>5. CASE backups # <<>>
    <3>1. backups' # <<>> /\ NewestOf(backups') = NewestOf(backups)
      BY <1>1, <2>2, <2>3, <2>5, KeepLastList
    <3> QED
      BY <1>3, <2>2, <2>5, <3>1 DEF Newest, NewestOf
  <2> QED
    BY <2>4, <2>5
<1>7. CASE RestoreLatest
  <2>1. /\ engine # NULL /\ engine.list # <<>> /\ restored' = NewestOf(engine.list).holds
        /\ UNCHANGED <<files, backups, made>>
    BY <1>7 DEF RestoreLatest, data
  <2>2. engine.list = backups
    BY <1>0, <2>1 DEF Counted
  <2>3. made # <<>> /\ restored' = NewestOf(made).holds
    BY <1>3, <2>1, <2>2
  <2> QED
    BY <1>3, <2>1, <2>2, <2>3 DEF Newest, NewestOf
<1>8. \/ UNCHANGED <<backups, made, restored>>
      \/ CreateNewBackup
      \/ \E n \in Number : PurgeOldBackups(n)
      \/ RestoreLatest
  BY DEF Next, vars, answer, Put, Flush, OpenEngine, CloseEngine, GetBackupInfo, VerifyBackup
<1> QED
  BY <1>4, <1>5, <1>6, <1>7, <1>8

-------------------------------------------------------------------------------
(* Ids *)

LEMMA StepNamed ==
    ASSUME IInv, [Next]_vars
    PROVE  Named'
<1>0. TypeOK /\ Counted /\ Newest /\ Named
  BY DEF IInv
<1>1. backups \in Seq(Backup) /\ made \in Seq(Backup)
  BY <1>0 DEF TypeOK
<1> SUFFICES ASSUME ~emptied' PROVE Named'
  BY DEF Named
<1>2. ~emptied
  BY DEF Next, vars, data, answer, Put, Flush, OpenEngine, CloseEngine, CreateNewBackup,
         PurgeOldBackups, RestoreLatest, GetBackupInfo, VerifyBackup
<1>3. /\ \A j \in DOMAIN made : made[j].id = j
      /\ PartOfMade(backups)
      /\ engine # NULL => engine.last = Len(made) /\ engine.list = backups
      /\ info # NULL => PartOfMade(info)
  BY <1>0, <1>2 DEF Named, Counted
<1>4. CASE UNCHANGED <<backups, engine, info, made>>
  BY <1>3, <1>4 DEF Named, PartOfMade
<1>5. CASE OpenEngine
  <2>1. engine' = [list |-> backups, last |-> IF backups = <<>> THEN 0 ELSE NewestOf(backups).id]
        /\ UNCHANGED <<backups, info, made>>
    BY <1>5 DEF OpenEngine
  <2>2. engine'.last = Len(made)
    <3>1. CASE made = <<>>
      BY <1>0, <1>2, <2>1, <3>1 DEF Newest
    <3>2. CASE made # <<>>
      <4>1. backups # <<>> /\ NewestOf(backups) = made[Len(made)]
        BY <1>0, <1>2, <3>2 DEF Newest, NewestOf
      <4>2. made[Len(made)].id = Len(made)
        BY <1>1, <1>3, <3>2, ListEntries
      <4> QED
        BY <2>1, <4>1, <4>2
    <3> QED
      BY <3>1, <3>2
  <2> QED
    BY <1>3, <2>1, <2>2 DEF Named, PartOfMade
<1>6. CASE CloseEngine
  BY <1>3, <1>6 DEF CloseEngine, Named, PartOfMade
<1>7. CASE CreateNewBackup
  <2> DEFINE b    == [id |-> NextId, holds |-> files]
             next == Append(made, b)
  <2>1. /\ engine # NULL /\ Len(made) < MaxBackups
        /\ engine' = [list |-> Append(engine.list, b), last |-> b.id]
        /\ backups' = Append(engine.list, b) /\ made' = next
        /\ UNCHANGED info
    BY <1>7 DEF CreateNewBackup
  <2>2. engine.list = backups /\ b.id = Len(made) + 1 /\ Len(made) \in Nat
    BY <1>1, <1>3, <2>1 DEF NextId
  <2>3. b \in Backup
    BY <1>0, <2>1, <2>2, BoundAssumption DEF Backup, TypeOK
  <2> HIDE DEF b
  <2>4. /\ Len(next) = Len(made) + 1
        /\ DOMAIN next = DOMAIN made \cup {Len(made) + 1}
        /\ \A j \in DOMAIN made : next[j] = made[j]
        /\ next[Len(made) + 1] = b
    BY <1>1, <2>3, AppendList
  <2>5. /\ Len(backups') = Len(backups) + 1
        /\ \A i \in DOMAIN backups' :
              backups'[i] = b \/ (i \in DOMAIN backups /\ backups'[i] = backups[i])
    BY <1>1, <2>1, <2>2, <2>3, AppendList
  <2> HIDE DEF next
  <2>6. \A j \in DOMAIN made' : made'[j].id = j
    BY <1>3, <2>1, <2>2, <2>4
  <2>7. PartOfMade(backups)'
    <3>1. Len(backups') <= Len(made')
      BY <1>1, <1>3, <2>1, <2>4, <2>5 DEF PartOfMade
    <3>2. \A i \in DOMAIN backups' :
             backups'[i].id \in DOMAIN made' /\ made'[backups'[i].id] = backups'[i]
      BY <1>3, <2>1, <2>2, <2>4, <2>5 DEF PartOfMade
    <3> QED
      BY <3>1, <3>2 DEF PartOfMade
  <2>8. info' # NULL => PartOfMade(info)'
    <3> SUFFICES ASSUME info # NULL PROVE PartOfMade(info)'
      BY <2>1
    <3>1. info \in Seq(Backup) /\ PartOfMade(info)
      BY <1>0, <1>3 DEF TypeOK
    <3>2. Len(info) <= Len(made')
      BY <2>1, <2>2, <2>4, <3>1, ListEntries DEF PartOfMade
    <3> QED
      BY <2>1, <2>4, <3>1, <3>2 DEF PartOfMade
  <2>9. engine'.last = Len(made')
    BY <2>1, <2>2, <2>4
  <2> QED
    BY <2>6, <2>7, <2>8, <2>9 DEF Named
<1>8. CASE \E n \in Number : PurgeOldBackups(n)
  <2>1. PICK n \in Number : PurgeOldBackups(n)
    BY <1>8
  <2> DEFINE list == KeepLast(engine.list, AsUint32(n))
  <2>2. /\ engine # NULL /\ backups' = list
        /\ engine' = [engine EXCEPT !.list = list]
        /\ UNCHANGED <<made, info>>
    BY <2>1 DEF PurgeOldBackups
  <2>3. AsUint32(n) \in Nat
    BY <2>1, WidthAssumption, UintIsNat DEF PurgeOldBackups, SizeT
  <2>4. /\ Len(list) <= Len(backups) /\ list \in Seq(Backup)
        /\ \A i \in DOMAIN list : \E j \in DOMAIN backups : list[i] = backups[j]
    BY <1>1, <1>3, <2>2, <2>3, KeepLastList
  <2> HIDE DEF list
  <2>5. engine'.last = Len(made)
    BY <1>0, <1>3, <2>2 DEF TypeOK
  <2>6. PartOfMade(backups)'
    <3>1. Len(list) <= Len(made)
      BY <1>1, <1>3, <2>4, ListEntries DEF PartOfMade
    <3> QED
      BY <1>3, <2>2, <2>4, <3>1 DEF PartOfMade
  <2> QED
    BY <1>3, <2>2, <2>5, <2>6 DEF Named, PartOfMade
<1>9. CASE GetBackupInfo
  BY <1>3, <1>9 DEF GetBackupInfo, Named, PartOfMade
<1>10. \/ UNCHANGED <<backups, engine, info, made>>
       \/ OpenEngine \/ CloseEngine \/ CreateNewBackup \/ GetBackupInfo
       \/ \E n \in Number : PurgeOldBackups(n)
  BY DEF Next, vars, Put, Flush, RestoreLatest, VerifyBackup
<1> QED
  BY <1>4, <1>5, <1>6, <1>7, <1>8, <1>9, <1>10

-------------------------------------------------------------------------------
(* The theorems *)

LEMMA StepIInv == IInv /\ [Next]_vars => IInv'
<1> SUFFICES ASSUME IInv, [Next]_vars PROVE IInv'
  OBVIOUS
<1>1. TypeOK' /\ Counted' /\ Newest' /\ Named'
  BY StepTyped, StepNewest, StepNamed
<1>2. Numbered'
  BY StepNumbered DEF IInv
<1> QED
  BY <1>1, <1>2 DEF IInv

LEMMA Invariance == Spec => []IInv
BY InitIInv, StepIInv, PTL DEF Spec

\* The variables keep their types: above all, ids and lists stay within the
\* history of backups whatever the program purges and reopens.
THEOREM TypesHold == Spec => []TypeOK
<1>1. IInv => TypeOK
  BY DEF IInv
<1> QED
  BY <1>1, Invariance, PTL

\* rocksdb-backup-engine-purge-old-backups keeps the newest backup through any
\* number of purges and engines, unless the number it was given is 0 modulo 2^32.
THEOREM NewestStays == Spec => []NewestSurvives
<1>1. IInv => NewestSurvives
  BY DEF IInv, Newest, NewestSurvives
<1> QED
  BY <1>1, Invariance, PTL

\* rocksdb-backup-engine-restore-db-from-latest-backup never gives back less
\* than it gave before.
THEOREM RestoresGrow == Spec => RestoreNeverGoesBack
<1>1. IInv /\ [Next]_vars =>
        [restored # NULL /\ ~emptied' => restored \subseteq restored']_vars
  BY StepNewest
<1> QED
  BY <1>1, Invariance, PTL DEF Spec, RestoreNeverGoesBack

\* A verify with an id the program reads from its info list, at an index below
\* the count, verifies the very backup the list named, if there are not more
\* backups than an int can index.
THEOREM InfoStaysTrue ==
    ASSUME MaxBackups < IntHalf
    PROVE  Spec => []VerifiesWhatInfoNamed
<1>1. Init => VerifiesWhatInfoNamed
  BY DEF Init, VerifiesWhatInfoNamed
<1>2. IInv /\ VerifiesWhatInfoNamed /\ [Next]_vars => VerifiesWhatInfoNamed'
  <2> SUFFICES ASSUME IInv, VerifiesWhatInfoNamed, [Next]_vars, ~emptied'
               PROVE  checked'.said # None => checked'.said = checked'.was
    BY DEF VerifiesWhatInfoNamed
  <2>1. ~emptied
    BY DEF Next, vars, data, answer, Put, Flush, OpenEngine, CloseEngine, CreateNewBackup,
           PurgeOldBackups, RestoreLatest, GetBackupInfo, VerifyBackup
  <2>2. CASE checked' = checked
    BY <2>1, <2>2 DEF VerifiesWhatInfoNamed
  <2>3. CASE \E i \in Number : VerifyBackup(i)
    <3>1. PICK i \in Number : VerifyBackup(i)
      BY <2>3
    <3>2. PICK id \in IdsRead(i), j \in DOMAIN engine.list :
             /\ engine # NULL /\ info # NULL
             /\ engine.list[j].id = AsUint32(id)
             /\ checked' = [said |-> IF i + 1 \in DOMAIN info THEN info[i + 1] ELSE None,
                            was  |-> engine.list[j]]
      BY <3>1 DEF VerifyBackup
    <3>3. SUFFICES ASSUME i + 1 \in DOMAIN info PROVE info[i + 1] = engine.list[j]
      BY <3>2
    <3>4. /\ PartOfMade(info) /\ info \in Seq(Backup) /\ made \in Seq(Backup)
          /\ PartOfMade(engine.list)
      BY <2>1, <3>2 DEF IInv, Named, Counted, TypeOK
    <3>5. Len(made) \in Nat /\ Len(made) < IntHalf /\ IntHalf \in Nat
      BY <3>4, WidthAssumption, BoundAssumption DEF IInv, Counted
    <3>6. i \in Nat /\ i < IntHalf
      BY <3>1, <3>3, <3>4, <3>5, ListEntries, NumberAssumption DEF PartOfMade, VerifyBackup, SizeT
    <3>7. id = info[i + 1].id
      BY <3>2, <3>3, <3>6, SmallNumbers DEF IdsRead, Seen
    <3>8. id \in DOMAIN made /\ made[id] = info[i + 1]
      BY <3>3, <3>4, <3>7 DEF PartOfMade
    <3>9. AsUint32(id) = id
      BY <3>4, <3>5, <3>8, ListEntries, SmallNumbers
    <3> QED
      BY <3>2, <3>4, <3>8, <3>9 DEF PartOfMade
  <2>4. checked' = checked \/ \E i \in Number : VerifyBackup(i)
    BY DEF Next, vars, answer, Put, Flush, OpenEngine, CloseEngine, CreateNewBackup,
           PurgeOldBackups, RestoreLatest, GetBackupInfo
  <2> QED
    BY <2>2, <2>3, <2>4
<1> QED
  BY <1>1, <1>2, Invariance, PTL DEF Spec
===============================================================================
