-------------------------------- MODULE Backups --------------------------------
(***************************************************************************)
(* The backup engine: guile-rocksdb-backup.h over a directory of backups.  *)
(* A program backs up a database without a flush, purges, restores, and    *)
(* reads the list of backups from an info object that is a copy of the     *)
(* engine's list at some earlier time.  Engines are only closed by their   *)
(* finalizer; the next one learns of the backups from the directory.       *)
(*                                                                         *)
(* Numbers pass through scm_to_size_t and then C's conversion to what      *)
(* RocksDB takes: uint32_t for counts and ids, int for indexes.            *)
(***************************************************************************)
EXTENDS Integers, Sequences, FiniteSets

CONSTANTS
    IntHalf,      \* one more than the greatest int; 2 * IntHalf is 2^32
    SizeModulus,  \* 2^64
    Number,       \* the numbers a program passes
    NULL,         \* no engine, no info, nothing restored
    MaxWrites,    \* bound: writes to the database
    MaxBackups    \* bound: backups made

ASSUME WidthAssumption ==
    /\ IntHalf \in Nat \ {0}
    /\ SizeModulus \in Nat
    /\ SizeModulus > 2 * IntHalf /\ SizeModulus % (2 * IntHalf) = 0
ASSUME NumberAssumption == Number \subseteq Int
ASSUME BoundAssumption == MaxWrites \in Nat /\ MaxBackups \in Nat

VARIABLES
    files,     \* the writes that the database's logs and tables hold
    memory,    \* those it holds in memory alone, written with :disable-wal
    backups,   \* the directory of backups, oldest first
    engine,    \* the engine: its list of backups and the last id it gave
    info,      \* the list the program got from get-backup-info
    restored,  \* what the last restore put into the directory it was given
    checked,   \* the entry a program meant to verify, and what was verified
    made,      \* every backup ever made, in order
    emptied    \* whether a purge was asked to keep no backup

data   == <<files, memory>>
answer == <<restored, checked>>
vars   == <<data, backups, engine, info, answer, made, emptied>>

Write  == 1 .. MaxWrites
Backup == [id : 1 .. MaxBackups, holds : SUBSET Write]
None   == [id |-> 0, holds |-> {}]

TypeOK ==
    /\ files \subseteq Write /\ memory \subseteq Write \ files
    /\ backups \in Seq(Backup) /\ made \in Seq(Backup)
    /\ engine = NULL \/ engine \in [list : Seq(Backup), last : 0 .. MaxBackups]
    /\ info = NULL \/ info \in Seq(Backup)
    /\ restored = NULL \/ restored \subseteq Write
    /\ checked \in [said : Backup \cup {None}, was : Backup \cup {None}]
    /\ emptied \in BOOLEAN

Init ==
    /\ files = {} /\ memory = {}
    /\ backups = <<>> /\ made = <<>>
    /\ engine = NULL /\ info = NULL /\ restored = NULL
    /\ checked = [said |-> None, was |-> None]
    /\ emptied = FALSE

-------------------------------------------------------------------------------
(* Numbers and lists *)

\* scm_to_size_t raises on anything else.
SizeT == 0 .. SizeModulus - 1
AsUint32(n) == n % (2 * IntHalf)
AsInt(n) == ((n + IntHalf) % (2 * IntHalf)) - IntHalf

NewestOf(list) == list[Len(list)]

\* Mutant: the first n are kept.
KeepFirst(list, n) == SubSeq(list, 1, IF n < Len(list) THEN n ELSE Len(list))
\* The n newest of a list, or all of it.
KeepLast(list, n) == SubSeq(list, IF n < Len(list) THEN Len(list) - n + 1 ELSE 1, Len(list))

-------------------------------------------------------------------------------
(* The database that is backed up *)

Put(logged) ==
    LET w == Cardinality(files \cup memory) + 1
    IN  /\ w \in Write
        /\ files' = IF logged THEN files \cup {w} ELSE files
        /\ memory' = IF logged THEN memory ELSE memory \cup {w}
        /\ UNCHANGED <<backups, engine, info, answer, made, emptied>>

\* RocksDB flushes when it sees fit.
Flush ==
    /\ memory # {}
    /\ files' = files \cup memory
    /\ memory' = {}
    /\ UNCHANGED <<backups, engine, info, answer, made, emptied>>

-------------------------------------------------------------------------------
(* The engine *)

\* rocksdb-backup-engine-open reads the directory; the last id given is that of
\* the newest backup there.  RocksDB forbids two engines on one directory.
OpenEngine ==
    /\ engine = NULL
    /\ engine' = [list |-> backups,
                  last |-> IF backups = <<>> THEN 0 ELSE NewestOf(backups).id]
    /\ UNCHANGED <<data, backups, info, answer, made, emptied>>

\* The finalizer of an engine the program has dropped, or the end of the
\* process: rocksdb-backup-engine-close is no binding.
CloseEngine ==
    /\ engine # NULL
    /\ engine' = NULL
    /\ UNCHANGED <<data, backups, info, answer, made, emptied>>

\* Mutant: every other id is left out.
SkippingId == engine.last + 2
\* RocksDB numbers backups on from the newest.
NextId == engine.last + 1

\* rocksdb-backup-engine-create-new-backup copies the files: the variant that
\* flushes first is defined and not exported.
CreateNewBackup ==
    /\ engine # NULL
    /\ Len(made) < MaxBackups
    /\ LET b    == [id |-> NextId, holds |-> files]
           list == Append(engine.list, b)
       IN  /\ backups' = list
           /\ engine' = [list |-> list, last |-> b.id]
           /\ made' = Append(made, b)
    /\ UNCHANGED <<data, info, answer, emptied>>

\* rocksdb-backup-engine-purge-old-backups.
PurgeOldBackups(n) ==
    /\ engine # NULL
    /\ n \in SizeT
    /\ LET list == KeepLast(engine.list, AsUint32(n))
       IN  backups' = list /\ engine' = [engine EXCEPT !.list = list]
    /\ emptied' = (emptied \/ AsUint32(n) = 0)
    /\ UNCHANGED <<data, info, answer, made>>

\* rocksdb-backup-engine-restore-db-from-latest-backup, into a directory of its
\* own: no log is there that keep-log-files could keep.  It raises when there
\* is no backup.
RestoreLatest ==
    /\ engine # NULL
    /\ engine.list # <<>>
    /\ restored' = NewestOf(engine.list).holds
    /\ UNCHANGED <<data, backups, engine, info, checked, made, emptied>>

-------------------------------------------------------------------------------
(* The info object *)

\* rocksdb-backup-engine-get-backup-info returns a copy.
GetBackupInfo ==
    /\ engine # NULL
    /\ info' = engine.list
    /\ UNCHANGED <<data, backups, engine, answer, made, emptied>>

\* Mutant: the accessors read the engine's own list.
SeenThroughEngine == IF engine = NULL THEN info ELSE engine.list
\* What the accessors read from.
Seen == info

\* The ids an accessor may give for index i: nothing compares it with the count,
\* and off the list it reads whatever memory is there.
IdsRead(i) ==
    IF AsInt(i) + 1 \in DOMAIN Seen THEN {Seen[AsInt(i) + 1].id} ELSE 0 .. MaxBackups

\* A program that reads an id from its info and verifies that backup;
\* rocksdb-backup-engine-verify-backup raises unless the engine has it.
VerifyBackup(i) ==
    /\ engine # NULL /\ info # NULL
    /\ i \in SizeT
    /\ \E id \in IdsRead(i), j \in DOMAIN engine.list :
          /\ engine.list[j].id = AsUint32(id)
          /\ checked' = [said |-> IF i + 1 \in DOMAIN info THEN info[i + 1] ELSE None,
                         was  |-> engine.list[j]]
    /\ UNCHANGED <<data, backups, engine, info, restored, made, emptied>>

-------------------------------------------------------------------------------
Next ==
    \/ \E logged \in BOOLEAN : Put(logged)
    \/ Flush
    \/ OpenEngine \/ CloseEngine
    \/ CreateNewBackup
    \/ \E n \in Number : PurgeOldBackups(n)
    \/ RestoreLatest
    \/ GetBackupInfo
    \/ \E i \in Number : VerifyBackup(i)

Spec == Init /\ [][Next]_vars

-------------------------------------------------------------------------------
(* Properties *)

\* Whatever is purged, and however many engines come and go, the newest backup
\* stays, unless a purge was told to keep 0 - or 2^32, which is the same.
NewestSurvives ==
    ~emptied /\ made # <<>> =>
        backups # <<>> /\ NewestOf(backups) = NewestOf(made)

\* A later restore never holds less than an earlier one: no purge and no new
\* engine makes "latest" mean an older backup.
RestoreNeverGoesBack ==
    [][restored # NULL /\ ~emptied' => restored \subseteq restored']_vars

\* The id that an info gives for an index below its count is that of the
\* backup the program saw there, however old the info is and whatever was
\* purged since: what rocksdb-backup-engine-verify-backup then reads is it.
VerifiesWhatInfoNamed ==
    ~emptied /\ checked.said # None => checked.said = checked.was
===============================================================================
