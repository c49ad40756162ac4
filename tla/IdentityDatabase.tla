-------------------------- MODULE IdentityDatabase --------------------------
(***************************************************************************)
(* The identity database: how GetInstance opens it, creating or upgrading  *)
(* its tables, and how ImportYellowPageData replaces the yellow pages, for *)
(* several threads of a process that may crash at every step.              *)
(*                                                                         *)
(* A thread imports a file or asks for the instance in order to read; what *)
(* it reads is left to IdentityStore.  The file of an import is a sequence *)
(* of the phones of its records, which stay in file order in the table.    *)
(***************************************************************************)
EXTENDS Integers, Sequences, Functions, Subsequences

CONSTANTS
    Threads,
    Files,        \* contents of yellow page files: their version and phones
    Bundled,      \* those the system image may have
    MaxCrashes,   \* a bound
    Faults        \* may the database fail

Columns == {"SUPPLIER_ID", "IS_INTELLIGENT_DB"}
Nobody == "nobody"

\* A phone of a file: its record, its name and number, and has the record all fields it needs.
PhoneFields == {"record", "name", "number", "complete"}

ASSUME DatabaseAssumption ==
    /\ \A f \in Files :
        /\ f.version \in Seq(Nat)   \* its characters
        /\ f.phones \in Seq(Range(f.phones)) /\ \A p \in Range(f.phones) : DOMAIN p = PhoneFields
    /\ \A f, g \in Files : f.version = g.version => f = g
    /\ Bundled \subseteq Files /\ Bundled # {}
    /\ Nobody \notin Threads
    /\ MaxCrashes \in Nat /\ Faults \in BOOLEAN

VARIABLES
    disk,        \* what is committed: user_version, tables, columns, yellow pages
    instance,    \* is numberIdentityDatabase_ set
    mutex,       \* the holder of dbMutex_
    txn,         \* the transaction of the store, what it would commit, and (history) has it
                 \* begun without the recorded version
    pc,          \* where each thread is
    job,         \* what it needs the database for, and the file of an import
    file,        \* the file it is importing, for itself or in OnCreate
    crashes      \* a bound

databaseVars == <<disk, instance, mutex, txn, pc, job, file, crashes>>
threadVars == <<pc, job, file>>

-----------------------------------------------------------------------------
(* Yellow page files.  NoVersion stands for a first line without a version *)
(* (or for a file that cannot be opened), and for no recorded version.     *)

NoVersion == << >>

Parses(f) == f.version # NoVersion

\* Versions are strings of any length, and operator< of std::string is what orders them:
\* "10" and "1000" come before "9" and "999".
Before(a, b) ==
    \E n \in 0..Len(a) :
        /\ n < Len(b)
        /\ \A i \in 1..n : a[i] = b[i]
        /\ n = Len(a) \/ a[n + 1] < b[n + 1]

\* The phones stored.  A record with one phone that lacks a field is dropped with all its phones.
Pages(f) ==
    Keep(f.phones, {p \in Range(f.phones) :
        \A i \in DOMAIN f.phones : f.phones[i].record = p.record => f.phones[i].complete})

NoPages == << >>
Contents == {NoPages} \cup {Pages(f) : f \in Files}
Versions == {NoVersion} \cup {f.version : f \in Files}

NoTxn == [holder |-> Nobody, version |-> NoVersion, phones |-> NoPages, blind |-> FALSE]

AnyFile == CHOOSE f \in Bundled : TRUE
NoJob == [kind |-> "none", file |-> AnyFile]
Reading == [kind |-> "read", file |-> AnyFile]
Importing(f) == [kind |-> "import", file |-> f]
Jobs == {NoJob, Reading} \cup {Importing(f) : f \in Files}

Labels == {"idle", "lock", "open", "alter", "stamp", "begin", "check", "put", "records",
           "commit", "rollback", "ready", "null"}

DatabaseTypeOK ==
    /\ disk \in [user : 0..2, made : 0..6, columns : SUBSET Columns,
                 version : Versions, phones : Contents]
    /\ instance \in BOOLEAN
    /\ mutex \in Threads \cup {Nobody}
    /\ txn \in [holder : Threads \cup {Nobody}, version : Versions, phones : Contents,
                blind : BOOLEAN]
    /\ pc \in [Threads -> Labels]
    /\ job \in [Threads -> Jobs]
    /\ file \in [Threads -> Files]
    /\ crashes \in 0..MaxCrashes

\* A new device, or one whose database is of version 1.
Fresh == [user |-> 0, made |-> 0, columns |-> {}, version |-> NoVersion, phones |-> NoPages]
Old == [user |-> 1, made |-> 6, columns |-> {}, version |-> NoVersion, phones |-> NoPages]

DatabaseInit ==
    /\ disk \in {Fresh, Old} \cup
                {[Old EXCEPT !.version = f.version, !.phones = Pages(f)] : f \in {g \in Bundled : Parses(g)}}
    /\ instance = FALSE
    /\ mutex = Nobody
    /\ txn = NoTxn
    /\ pc = [t \in Threads |-> "idle"]
    /\ job = [t \in Threads |-> NoJob]
    /\ file = [t \in Threads |-> AnyFile]
    /\ crashes = 0

GoTo(t, label) == pc' = [pc EXCEPT ![t] = label]

-----------------------------------------------------------------------------
(* The process dies. *)

Die ==
    /\ instance' = FALSE
    /\ mutex' = Nobody
    /\ txn' = NoTxn
    /\ pc' = [t \in Threads |-> "idle"]
    /\ job' = [t \in Threads |-> NoJob]
    /\ file' = [t \in Threads |-> AnyFile]
    /\ UNCHANGED disk

\* Killed by the system, which starts it again for the next request.
Crash == crashes < MaxCrashes /\ crashes' = crashes + 1 /\ Die

-----------------------------------------------------------------------------
(* GetInstance. *)

\* A thread needs the database.
Call(t, j) ==
    /\ pc[t] = "idle"
    /\ GoTo(t, "lock")
    /\ job' = [job EXCEPT ![t] = j]
    /\ UNCHANGED <<disk, instance, mutex, txn, file, crashes>>

\* A thread is done with it.
Finish(t) ==
    /\ GoTo(t, "idle")
    /\ job' = [job EXCEPT ![t] = NoJob]
    /\ file' = [file EXCEPT ![t] = AnyFile]

\* A reader has read.
Release(t) ==
    /\ pc[t] \in {"ready", "null"}
    /\ Finish(t)
    /\ UNCHANGED <<disk, instance, mutex, txn, crashes>>

\* ImportYellowPageData parses the file before it begins the transaction.
Import(t, f) ==
    /\ file' = [file EXCEPT ![t] = f]
    /\ GoTo(t, "begin")
    /\ UNCHANGED job

\* The thread has the instance.
Go(t) ==
    CASE job[t].kind = "read"   -> GoTo(t, "ready") /\ UNCHANGED <<job, file>>
      [] Parses(job[t].file)    -> Import(t, job[t].file)
      [] OTHER                  -> Finish(t)

GetInstance(t) ==
    /\ pc[t] = "lock" /\ mutex = Nobody
    /\ IF instance THEN Go(t) /\ UNCHANGED mutex
                   ELSE GoTo(t, "open") /\ mutex' = t /\ UNCHANGED <<job, file>>
    /\ UNCHANGED <<disk, instance, txn, crashes>>

\* Create returns nullptr.  A reader reports it; an import dereferences it.
CreateFails(t) ==
    /\ IF job[t].kind = "import" THEN Die
       ELSE /\ GoTo(t, "null")
            /\ mutex' = Nobody
            /\ UNCHANGED <<disk, instance, txn, job, file>>
    /\ UNCHANGED crashes

\* An import has dereferenced a null instance.
Dereferenced(t) ==
    job[t].kind = "import" /\ mutex = t /\ mutex' = Nobody /\ ~instance'

\* A statement, or the store itself, fails.
OpenFails(t) == pc[t] \in {"open", "alter", "stamp"} /\ Faults /\ CreateFails(t)

\* OnCreate.  Its statements do nothing for what is there already.
CreateTable(t) ==
    /\ pc[t] = "open" /\ disk.user = 0 /\ disk.made < 6
    /\ disk' = [disk EXCEPT !.made = @ + 1, !.columns = IF disk.made = 3 THEN Columns ELSE @]
    /\ UNCHANGED <<instance, mutex, txn, threadVars, crashes>>

\* The bundled pages are imported into the new tables; whether that works is ignored.
OnCreate(t) ==
    /\ pc[t] = "open" /\ disk.user = 0 /\ disk.made = 6
    /\ \E f \in Bundled :
            IF Parses(f) THEN Import(t, f) ELSE GoTo(t, "stamp") /\ UNCHANGED <<job, file>>
    /\ UNCHANGED <<disk, instance, mutex, txn, crashes>>

\* ALTER TABLE fails for a column that is there.
AddColumn(t, column, next) ==
    IF column \in disk.columns THEN CreateFails(t)
    ELSE /\ disk' = [disk EXCEPT !.columns = @ \cup {column}]
         /\ GoTo(t, next)
         /\ UNCHANGED <<instance, mutex, txn, job, file, crashes>>

\* Mutant: the upgrade ends after its first statement.
OnUpgradeHalf(t) ==
    /\ disk.user = 1
    /\ pc[t] = "open" /\ AddColumn(t, "SUPPLIER_ID", "stamp")

OnUpgrade(t) ==
    /\ disk.user = 1
    /\ \/ pc[t] = "open" /\ AddColumn(t, "SUPPLIER_ID", "alter")
       \/ pc[t] = "alter" /\ AddColumn(t, "IS_INTELLIGENT_DB", "stamp")

\* The store is of the version wanted: at once, or once its callbacks have returned.
Opened(t) ==
    /\ \/ pc[t] = "open" /\ disk.user = 2
       \/ pc[t] = "stamp"
    /\ disk' = [disk EXCEPT !.user = 2]
    /\ instance' = TRUE
    /\ mutex' = Nobody
    /\ Go(t)
    /\ UNCHANGED <<txn, crashes>>

-----------------------------------------------------------------------------
(* ImportYellowPageDataWithFileStream. *)

\* An import ends, the one of OnCreate as much as any.
Imported(t) ==
    IF mutex = t THEN GoTo(t, "stamp") /\ file' = [file EXCEPT ![t] = AnyFile] /\ UNCHANGED job
                 ELSE Finish(t)

\* One transaction at a time.  The RollBack after a failure finds none of this thread.
BeginTransaction(t) ==
    /\ pc[t] = "begin"
    /\ \/ /\ txn.holder = Nobody
          /\ txn' = [holder |-> t, version |-> disk.version, phones |-> disk.phones,
                     blind |-> FALSE]
          /\ GoTo(t, "check")
          /\ UNCHANGED <<job, file>>
       \/ Faults /\ Imported(t) /\ UNCHANGED txn
    /\ UNCHANGED <<disk, instance, mutex, crashes>>

\* Mutant: the recorded version is not looked at.
CheckVersionNot(t) ==
    /\ pc[t] = "check"
    /\ GoTo(t, "put")
    /\ UNCHANGED <<disk, instance, mutex, txn, job, file, crashes>>

\* A query that fails reads as no version, and so does one without a result, with E_OK and "".
CheckVersion(t) ==
    /\ pc[t] = "check"
    /\ \/ /\ GoTo(t, IF Before(disk.version, file[t].version) THEN "put" ELSE "commit")
          /\ UNCHANGED txn
       \/ Faults /\ GoTo(t, "put") /\ txn' = [txn EXCEPT !.blind = TRUE]
    /\ UNCHANGED <<disk, instance, mutex, job, file, crashes>>

\* PutProperty.  It reads again: without a result it updates the row, if there is one; after an
\* error it inserts a row, which fails if there is one.
PutProperty(t) ==
    LET put(version) == txn' = [txn EXCEPT !.version = version] /\ GoTo(t, "records")
    IN /\ pc[t] = "put"
       /\ \/ put(file[t].version)
          \/ Faults /\ disk.version = NoVersion /\ put(NoVersion)
          \/ Faults /\ GoTo(t, "rollback") /\ UNCHANGED txn
       /\ UNCHANGED <<disk, instance, mutex, job, file, crashes>>

\* Mutant: the pages of the version before are not cleared.
ImportYellowPageRecordsMore(t) ==
    /\ pc[t] = "records"
    /\ txn' = [txn EXCEPT !.phones = IF @ = NoPages THEN Pages(file[t]) ELSE @]
    /\ GoTo(t, "commit")
    /\ UNCHANGED <<disk, instance, mutex, job, file, crashes>>

\* Mutant: the phones of a record that lacks a field are stored with the others.
ImportYellowPageRecordsAll(t) ==
    /\ pc[t] = "records"
    /\ txn' = [txn EXCEPT !.phones = file[t].phones]
    /\ GoTo(t, "commit")
    /\ UNCHANGED <<disk, instance, mutex, job, file, crashes>>

\* ClearYellowPageData and one insertion for each record and phone; any may fail.
ImportYellowPageRecords(t) ==
    /\ pc[t] = "records"
    /\ \/ txn' = [txn EXCEPT !.phones = Pages(file[t])] /\ GoTo(t, "commit")
       \/ Faults /\ GoTo(t, "rollback") /\ UNCHANGED txn
    /\ UNCHANGED <<disk, instance, mutex, job, file, crashes>>

Commit(t) ==
    /\ pc[t] = "commit"
    /\ \/ /\ disk' = [disk EXCEPT !.version = txn.version, !.phones = txn.phones]
          /\ txn' = NoTxn
          /\ Imported(t)
       \/ Faults /\ GoTo(t, "rollback") /\ UNCHANGED <<disk, txn, job, file>>
    /\ UNCHANGED <<instance, mutex, crashes>>

RollBack(t) ==
    /\ pc[t] = "rollback"
    /\ txn' = NoTxn
    /\ Imported(t)
    /\ UNCHANGED <<disk, instance, mutex, crashes>>

\* What a thread does in the database once it has called.
DatabaseStep(t) ==
    \/ GetInstance(t) \/ OpenFails(t) \/ CreateTable(t) \/ OnCreate(t) \/ OnUpgrade(t) \/ Opened(t)
    \/ BeginTransaction(t) \/ CheckVersion(t) \/ PutProperty(t) \/ ImportYellowPageRecords(t)
    \/ Commit(t) \/ RollBack(t)

DatabaseNext ==
    \/ \E t \in Threads :
        \/ \E j \in Jobs \ {NoJob} : Call(t, j)
        \/ DatabaseStep(t) \/ Release(t)
    \/ Crash

DatabaseSpec == DatabaseInit /\ [][DatabaseNext]_databaseVars

-----------------------------------------------------------------------------
(* Properties. *)

\* A recorded version is that of the pages in the table, whatever fails or overlaps while a
\* file is imported.  (Pages without a recorded version are replaced by the next import.)
Match(version, phones) == \A f \in Files : version = f.version /\ version # NoVersion => phones = Pages(f)

PagesMatchVersion == Match(disk.version, disk.phones)

\* A thread that gets the instance finds all tables and columns, even if the process died
\* between the statements that make them.
Complete == disk.made = 6 /\ disk.columns = Columns

OpenMeansComplete == instance => disk.user = 2 /\ Complete

\* An import replaces the pages by those of a file whose version comes before the one
\* recorded, as strings, only if it could not read the version recorded.
NoSightedDowngrade == Before(disk'.version, disk.version) => txn.blind
DowngradeOnlyBlind == [][NoSightedDowngrade]_disk

-----------------------------------------------------------------------------
(* The inductive invariant. *)

InTransaction == {"check", "put", "records", "commit", "rollback"}
InImport == {"begin"} \cup InTransaction

\* A thread in a transaction holds it, and what it would commit is consistent.
InOrder(t) ==
    /\ pc[t] \in InTransaction => txn.holder = t
    /\ pc[t] = "check" => txn.version = disk.version /\ txn.phones = disk.phones
    /\ pc[t] = "put" /\ ~txn.blind => Before(disk.version, file[t].version)
    /\ pc[t] = "records" => txn.version \in {NoVersion, file[t].version}
    /\ pc[t] \in {"records", "commit"} /\ ~txn.blind => ~Before(txn.version, disk.version)
    /\ pc[t] = "commit" => Match(txn.version, txn.phones)

TransactionInv == PagesMatchVersion /\ \A t \in Threads : InOrder(t)

\* How far the tables are made, by what a thread does ...
Making(t) ==
    /\ pc[t] = "alter" => "SUPPLIER_ID" \in disk.columns
    /\ pc[t] = "stamp" => Complete
    /\ mutex = t /\ pc[t] \in InImport => Complete

\* ... and by user_version.
Made ==
    /\ disk.user = 2 => Complete
    /\ disk.user = 1 => disk.made = 6
    /\ disk.user = 0 /\ disk.made >= 4 => disk.columns = Columns
    /\ instance => disk.user = 2

OpenInv == Made /\ \A t \in Threads : Making(t)

DatabaseInv == DatabaseTypeOK /\ TransactionInv /\ OpenInv
=============================================================================
