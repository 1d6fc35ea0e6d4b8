---------------------------- MODULE BackupArchive ----------------------------
(***************************************************************************)
(* What a backup writes and a restore reads (apps/backups: site, options,  *)
(* storage; the backup modules of the apps).  Two models stand for all: a  *)
(* channel, found by its name, and a data object with a file that refers   *)
(* to a channel.  The instance goes on changing during the backup, and a   *)
(* deployment may migrate it.                                              *)
(***************************************************************************)
EXTENDS Integers, FiniteSets

CONSTANTS
    Labels,             \* names of channels
    InitialLabel,       \* the one every new schema has
    NoLabel,
    MaxPk,              \* keys of either model
    MaxRowWrites        \* changes of the instance in a behaviour

ASSUME BackupArchiveAssumption ==
    /\ InitialLabel \in Labels /\ NoLabel \notin Labels
    /\ MaxPk \in Nat \ {0} /\ MaxRowWrites \in Nat

VARIABLES
    source,         \* the instance: version of the schema, channels, objects, next keys
    snapshot,       \* what the backup's transaction sees
    archive,        \* what is in the archive
    wanted,         \* query_args: the channels of a partial backup, or all
    step,           \* where the backup and then the restore is
    lastPk,         \* the last key of the model being written
    copy,           \* the new schema
    writes,
    skewed          \* history: a migration ran between the reading of migrations and the snapshot

archiveVars == <<source, snapshot, archive, wanted, step, lastPk, copy, writes, skewed>>

Pks == 1..MaxPk
NoChannels == [k \in Pks |-> NoLabel]
NoObjects == [k \in Pks |-> 0]
(* A new schema: migrations create the initial rows. *)
NewSchema(v) ==
    [version |-> v, channels |-> [NoChannels EXCEPT ![1] = InitialLabel], objects |-> NoObjects, nextChannel |-> 2, nextObject |-> 1]
NothingArchived == [version |-> 0, channels |-> NoChannels, objects |-> NoObjects]

ArchiveInit ==
    /\ source = NewSchema(1) /\ snapshot = NewSchema(1) /\ copy = NewSchema(1)
    /\ archive = NothingArchived
    /\ wanted \in {Labels, {InitialLabel}}
    /\ step = "idle" /\ lastPk = 0 /\ writes = 0 /\ skewed = FALSE

-----------------------------------------------------------------------------
(* The instance: rows get keys of a sequence, an object refers to a channel *)
(* that exists, and a channel takes its objects with it.                    *)
AddChannel(label) ==
    /\ writes < MaxRowWrites /\ source.nextChannel <= MaxPk
    /\ \A k \in Pks : source.channels[k] # label
    /\ source' = [source EXCEPT !.channels[source.nextChannel] = label, !.nextChannel = @ + 1]
    /\ writes' = writes + 1
    /\ UNCHANGED <<snapshot, archive, wanted, step, lastPk, copy, skewed>>

DeleteChannel(k) ==
    /\ writes < MaxRowWrites /\ source.channels[k] # NoLabel
    /\ source' = [source EXCEPT !.channels[k] = NoLabel,
                                !.objects = [o \in Pks |-> IF source.objects[o] = k THEN 0 ELSE source.objects[o]]]
    /\ writes' = writes + 1
    /\ UNCHANGED <<snapshot, archive, wanted, step, lastPk, copy, skewed>>

AddObject(k) ==
    /\ writes < MaxRowWrites /\ source.nextObject <= MaxPk /\ source.channels[k] # NoLabel
    /\ source' = [source EXCEPT !.objects[source.nextObject] = k, !.nextObject = @ + 1]
    /\ writes' = writes + 1
    /\ UNCHANGED <<snapshot, archive, wanted, step, lastPk, copy, skewed>>

(* A deployment brings the instance to the next version of the schema. *)
MigrateInstance ==
    /\ source.version = 1
    /\ source' = [source EXCEPT !.version = 2]
    /\ skewed' = (skewed \/ step = "migrations written")
    /\ UNCHANGED <<snapshot, archive, wanted, step, lastPk, copy, writes>>

-----------------------------------------------------------------------------
(* backup_instance: the migrations are read before the transaction starts. *)
WriteMigrations ==
    /\ step = "idle"
    /\ archive' = [archive EXCEPT !.version = source.version]
    /\ step' = "migrations written"
    /\ UNCHANGED <<source, snapshot, wanted, lastPk, copy, writes, skewed>>

(* SET TRANSACTION ISOLATION LEVEL REPEATABLE READ: all later reads are of  *)
(* this state.                                                              *)
TakeSnapshot ==
    /\ step = "migrations written"
    /\ snapshot' = source
    /\ step' = "channels" /\ lastPk' = 0
    /\ UNCHANGED <<source, archive, wanted, copy, writes, skewed>>

FaultSeen == source
Seen == snapshot

(* get_queryset: the channels asked for, and the objects of those. *)
ChannelIsWanted(k) == Seen.channels[k] \in wanted
ObjectIsWanted(o) == Seen.objects[o] # 0 /\ ChannelIsWanted(Seen.objects[o])

NextOf(ks) == CHOOSE k \in ks : \A j \in ks : k <= j

(* ModelBackup.backup: batches by key (here of one row), each row with its  *)
(* file; models in the order of their dependencies.                         *)
WriteChannel ==
    LET rest == {k \in Pks : k > lastPk /\ ChannelIsWanted(k)}
    IN  /\ step = "channels" /\ rest # {}
        /\ archive' = [archive EXCEPT !.channels[NextOf(rest)] = Seen.channels[NextOf(rest)]]
        /\ lastPk' = NextOf(rest)
        /\ UNCHANGED <<source, snapshot, wanted, step, copy, writes, skewed>>

ChannelsWritten ==
    /\ step = "channels" /\ \A k \in Pks : k > lastPk => ~ChannelIsWanted(k)
    /\ step' = "objects" /\ lastPk' = 0
    /\ UNCHANGED <<source, snapshot, archive, wanted, copy, writes, skewed>>

(* The file of an object that was deleted meanwhile is not there to copy.   *)
WriteObject ==
    LET rest == {o \in Pks : o > lastPk /\ ObjectIsWanted(o)}
        o == NextOf(rest)
    IN  /\ step = "objects" /\ rest # {}
        /\ IF source.objects[o] = 0
           THEN step' = "failed" /\ UNCHANGED <<archive, lastPk>>
           ELSE /\ archive' = [archive EXCEPT !.objects[o] = Seen.objects[o]]
                /\ lastPk' = o /\ UNCHANGED step
        /\ UNCHANGED <<source, snapshot, wanted, copy, writes, skewed>>

ObjectsWritten ==
    /\ step = "objects" /\ \A o \in Pks : o > lastPk => ~ObjectIsWanted(o)
    /\ step' = "archived"
    /\ UNCHANGED <<source, snapshot, archive, wanted, lastPk, copy, writes, skewed>>

-----------------------------------------------------------------------------
Partial == wanted # Labels

(* restore_to_new_schema: a schema migrated to the archive's version, and   *)
(* emptied for a full restore.  Rows of a later version do not fit.         *)
MakeSchema ==
    /\ step = "archived"
    /\ IF skewed
       THEN step' = "failed" /\ UNCHANGED copy
       ELSE /\ step' = "restore channels"
            /\ copy' = IF Partial THEN NewSchema(archive.version)
                       ELSE [NewSchema(archive.version) EXCEPT !.channels = NoChannels]
    /\ lastPk' = 0
    /\ UNCHANGED <<source, snapshot, archive, wanted, writes, skewed>>

(* save_batch of a partial restore: a row takes the key of the row with the *)
(* same name, or keeps its own.                                             *)
KeyFor(k) ==
    LET same == {j \in Pks : copy.channels[j] = archive.channels[k]}
    IN  IF Partial /\ same # {} THEN NextOf(same) ELSE k

RestoreChannel ==
    LET rest == {k \in Pks : k > lastPk /\ archive.channels[k] # NoLabel}
        k == NextOf(rest)
    IN  /\ step = "restore channels"
        /\ IF rest = {}
           THEN step' = "restore objects" /\ lastPk' = 0 /\ UNCHANGED copy
           ELSE copy' = [copy EXCEPT !.channels[KeyFor(k)] = archive.channels[k]] /\ lastPk' = k /\ UNCHANGED step
        /\ UNCHANGED <<source, snapshot, archive, wanted, writes, skewed>>

(* sequence_reset_sql: the next key is after the last one. *)
AfterLast(next, taken) == IF taken = {} THEN 1 ELSE 1 + CHOOSE k \in taken : \A j \in taken : j <= k

(* Objects, then reset_sequences, and the commit, which checks references. *)
RestoreObjects ==
    LET restored == [copy EXCEPT
            !.objects = archive.objects,
            !.nextChannel = AfterLast(@, {k \in Pks : copy.channels[k] # NoLabel}),
            !.nextObject = AfterLast(@, {o \in Pks : archive.objects[o] # 0}),
            !.version = 2]
        dangling == \E o \in Pks : archive.objects[o] # 0 /\ copy.channels[archive.objects[o]] = NoLabel
    IN  /\ step = "restore objects"
        /\ step' = IF dangling THEN "failed" ELSE "restored"
        /\ copy' = IF dangling THEN copy ELSE restored
        /\ UNCHANGED <<source, snapshot, archive, wanted, lastPk, writes, skewed>>

ArchiveNext ==
    \/ \E l \in Labels : AddChannel(l)
    \/ \E k \in Pks : DeleteChannel(k) \/ AddObject(k)
    \/ MigrateInstance \/ WriteMigrations \/ TakeSnapshot
    \/ WriteChannel \/ ChannelsWritten \/ WriteObject \/ ObjectsWritten
    \/ MakeSchema \/ RestoreChannel \/ RestoreObjects

-----------------------------------------------------------------------------
(* An archive is one state of the instance, whatever changes while it is    *)
(* written: every row asked for, and no object without its channel.         *)
ArchiveIsSnapshot ==
    step = "archived" =>
        /\ archive.channels = [k \in Pks |-> IF snapshot.channels[k] \in wanted THEN snapshot.channels[k] ELSE NoLabel]
        /\ \A o \in Pks : archive.objects[o] =
            IF snapshot.objects[o] # 0 /\ archive.channels[snapshot.objects[o]] # NoLabel THEN snapshot.objects[o] ELSE 0

(* A restore that succeeds gives every object back with the channel of the  *)
(* name it had, and rows made afterwards get keys that are free.            *)
RestoredIsArchived ==
    step = "restored" =>
        /\ \A o \in Pks : archive.objects[o] # 0 =>
            copy.objects[o] # 0 /\ copy.channels[copy.objects[o]] = archive.channels[archive.objects[o]]
        /\ \A k \in Pks : archive.channels[k] # NoLabel => \E j \in Pks : copy.channels[j] = archive.channels[k]
        /\ ~Partial => copy.channels = archive.channels /\ copy.objects = archive.objects
        /\ \A k \in Pks : k >= copy.nextChannel => copy.channels[k] = NoLabel
        /\ \A o \in Pks : o >= copy.nextObject => copy.objects[o] = 0

(* A backup is one state of the instance and a restore brings it back. *)
BackupIsFaithful == ArchiveIsSnapshot /\ RestoredIsArchived
=============================================================================
