------------------------------- MODULE Tenancy -------------------------------
(***************************************************************************)
(* Instances (apps/instances) with their schemas and files, soft and hard  *)
(* deletion (apps/core), and backups and restores (apps/backups).          *)
(*                                                                         *)
(* Rows live in the default database, schemas in the instances database,   *)
(* files in a bucket: no transaction spans two of them.  A restore builds  *)
(* a second instance, swaps places with it and deletes it.                 *)
(*                                                                         *)
(* A place is a schema with the storage prefix of the same origin: both    *)
(* are always swapped together, and are named here by the row that made    *)
(* them.  What a schema holds does not matter here.                        *)
(***************************************************************************)
EXTENDS Integers, FiniteSets

CONSTANTS
    Rows,           \* primary keys of instances, in order
    Backups,        \* primary keys of backups
    Restores,       \* primary keys of restores
    Nobody,         \* a backup of no restore
    InstancesLimit, \* AdminLimit.get_instances_count
    BackupsLimit,   \* BACKUPS_PER_ACCOUNT_LIMIT
    MaxMishaps      \* bound

ASSUME TenancyAssumption ==
    /\ Rows \subseteq Nat \ {0} /\ Nobody \notin Backups
    /\ InstancesLimit \in Nat /\ BackupsLimit \in Nat
    /\ MaxMishaps \in Nat

VARIABLES
    instances,   \* Instance rows
    used,        \* keys the sequence has given out, rolled back inserts included
    schemas,     \* schemas that exist
    files,       \* places whose files exist
    fileTasks,   \* DeleteFilesTask messages
    deletions,   \* DeleteLiveObjectTask messages for instances
    backups,     \* Backup rows, with the progress of RunBackupTask
    admitted,    \* backup requests between their check and the admin's lock
    restores,    \* Restore rows, with the progress of RunRestoreTask
    raced,       \* history: a row was changed while a restore held a copy of it
    broken,      \* history: rows whose deletion broke off after it had dropped the schema
    mishaps

tenancyVars == <<instances, used, schemas, files, fileTasks, deletions, backups, admitted, restores,
                 raced, broken, mishaps>>

NoRow == [state |-> "none", place |-> 0]
NoBackup == [state |-> "none", status |-> "-", of |-> 0, run |-> "idle", stored |-> "no"]
NoRestore == [of |-> 0, from |-> Nobody, run |-> "idle", copy |-> NoRow, temp |-> 0]

Over == [NoRestore EXCEPT !.run = "over"]

TenancyInit ==
    /\ instances = [i \in Rows |-> NoRow]
    /\ used = {}
    /\ schemas = {}
    /\ files = {} /\ fileTasks = {}
    /\ deletions = {}
    /\ backups = [b \in Backups |-> NoBackup]
    /\ admitted = 0
    /\ restores = [r \in Restores |-> NoRestore]
    /\ raced = "no" /\ broken = {}
    /\ mishaps = 0

Mishap ==
    /\ mishaps < MaxMishaps
    /\ mishaps' = mishaps + 1

Live == {i \in Rows : instances[i].state = "live"}
NextKey == CHOOSE i \in Rows \ used : \A j \in Rows \ used : i <= j

(* A restore works on the target it read at its start. *)
HeldCopies == {restores[r].of : r \in {q \in Restores : restores[q].run \in {"read", "built"}}}
Touch(i) == raced' = IF i \in HeldCopies THEN "yes" ELSE raced

-----------------------------------------------------------------------------
(* Instances *)

(* perform_create counts under the lock of the admin's row. *)
MayCreate == Cardinality(Live) < InstancesLimit

(* Instance.save: the schema is committed in its own database before the    *)
(* transaction of the request, which may still be undone.                   *)
CreateInstance ==
    /\ used # Rows
    /\ MayCreate
    /\ used' = used \cup {NextKey}
    /\ schemas' = schemas \cup {NextKey}
    /\ \/ /\ instances' = [instances EXCEPT ![NextKey] = [state |-> "live", place |-> NextKey]]
          /\ files' = files \cup {NextKey}
          /\ UNCHANGED mishaps
       \/ Mishap /\ UNCHANGED <<instances, files>>
    /\ UNCHANGED <<fileTasks, deletions, backups, admitted, restores, raced, broken>>

(* LiveAbstractModel.delete, whose task is sent after the commit. *)
DeleteInstance(i) ==
    /\ i \in Live
    /\ instances' = [instances EXCEPT ![i].state = "dead"]
    /\ deletions' = deletions \cup {i}
    /\ Touch(i)
    /\ UNCHANGED <<used, schemas, files, fileTasks, backups, admitted, restores, broken, mishaps>>

(* The schema and the storage prefix that the row names now. *)
PlaceOf(i) == instances[i].place

(* Deleting a row drops its schema and sends the task for its files at      *)
(* once, sets the instance of backups to NULL and deletes restores.         *)
HardDelete(i) ==
    /\ schemas' = schemas \ {PlaceOf(i)}
    /\ fileTasks' = fileTasks \cup {PlaceOf(i)}
    /\ instances' = [instances EXCEPT ![i] = NoRow]
    /\ backups' = [b \in Backups |-> IF backups[b].of = i THEN [backups[b] EXCEPT !.of = 0] ELSE backups[b]]
    /\ restores' = [r \in Restores |-> IF restores[r].of = i /\ restores[r].run = "queued"
                                       THEN Over ELSE restores[r]]
    /\ Touch(i)

(* DeleteLiveObjectTask.  A transaction that fails has dropped the schema   *)
(* all the same, and is tried again.                                        *)
DeleteLiveObject(i) ==
    /\ i \in deletions
    /\ \/ instances[i].state = "none" /\ deletions' = deletions \ {i}
          /\ UNCHANGED <<instances, schemas, fileTasks, backups, restores, raced, broken, mishaps>>
       \/ instances[i].state # "none" /\ HardDelete(i) /\ deletions' = deletions \ {i} /\ UNCHANGED <<broken, mishaps>>
       \/ /\ instances[i].state # "none"
          /\ Mishap
          /\ schemas' = schemas \ {PlaceOf(i)}
          /\ fileTasks' = fileTasks \cup {PlaceOf(i)}
          /\ broken' = broken \cup {i}
          /\ UNCHANGED <<instances, deletions, backups, restores, raced>>
    /\ UNCHANGED <<used, files, admitted>>

(* The command for what a lost task has left behind. *)
DeleteDeadObjects(i) ==
    /\ instances[i].state = "dead"
    /\ HardDelete(i)
    /\ UNCHANGED <<used, files, deletions, admitted, broken, mishaps>>

LoseDeletion(i) ==
    /\ i \in deletions
    /\ Mishap
    /\ deletions' = deletions \ {i}
    /\ UNCHANGED <<instances, used, schemas, files, fileTasks, backups, admitted, restores, raced, broken>>

DeleteFiles(p) ==
    /\ p \in fileTasks
    /\ fileTasks' = fileTasks \ {p}
    /\ files' = files \ {p}
    /\ UNCHANGED <<instances, used, schemas, deletions, backups, admitted, restores, raced, broken, mishaps>>

-----------------------------------------------------------------------------
(* Backups *)

Kept == {b \in Backups : backups[b].state = "live"}
Active == {b \in Kept : backups[b].status \in {"scheduled", "running"}}

(* BackupViewSet.perform_create looks for active backups before it locks    *)
(* the admin's row.                                                         *)
AdmitBackup ==
    /\ Active = {}
    /\ admitted < Cardinality(Backups)
    /\ admitted' = admitted + 1
    /\ UNCHANGED <<instances, used, schemas, files, fileTasks, deletions, backups, restores, raced, broken, mishaps>>

CreateBackup(b, i) ==
    /\ admitted > 0
    /\ admitted' = admitted - 1
    /\ i \in Live
    /\ IF Cardinality(Kept) >= BackupsLimit THEN UNCHANGED backups
       ELSE /\ backups[b] = NoBackup
            /\ backups' = [backups EXCEPT ![b] = [NoBackup EXCEPT !.state = "live", !.status = "scheduled",
                                                                  !.of = i, !.run = "queued"]]
    /\ UNCHANGED <<instances, used, schemas, files, fileTasks, deletions, restores, raced, broken, mishaps>>

(* RunBackupTask reads the row; Backup.run goes on if it is scheduled. *)
StartBackup(b) ==
    /\ backups[b].run = "queued"
    /\ backups' = [backups EXCEPT ![b].run =
            IF backups[b].state = "live" /\ backups[b].status = "scheduled" THEN "loaded" ELSE "idle"]
    /\ UNCHANGED <<instances, used, schemas, files, fileTasks, deletions, admitted, restores, raced, broken, mishaps>>

(* The status, by key, and the snapshot of backup_instance.  An instance or *)
(* schema that is gone is an error, after which the files are deleted.      *)
RunBackup(b) ==
    LET i == backups[b].of
        found == i # 0 /\ instances[i].state # "none" /\ instances[i].place \in schemas
    IN  /\ backups[b].run = "loaded"
        /\ backups' = [backups EXCEPT
                ![b].status = IF @ = "-" THEN @ ELSE IF found THEN "running" ELSE "error",
                ![b].run = IF found THEN "running" ELSE "idle"]
        /\ UNCHANGED <<instances, used, schemas, files, fileTasks, deletions, admitted, restores, raced, broken,
                       mishaps>>

(* self.save() writes the archive and all columns as they were read: the    *)
(* row is scheduled again, and live again, or inserted again.               *)
SaveBackup(b) ==
    /\ backups[b].run = "running"
    /\ \/ /\ backups' = [backups EXCEPT ![b].state = "live", ![b].status = "scheduled",
                                        ![b].stored = "yes", ![b].run = "saved"]
          /\ UNCHANGED mishaps
       \/ /\ Mishap
          /\ backups' = [backups EXCEPT ![b].status = IF @ = "-" THEN @ ELSE "error", ![b].stored = "no",
                                        ![b].run = "idle"]
    /\ UNCHANGED <<instances, used, schemas, files, fileTasks, deletions, admitted, restores, raced, broken>>

FinishBackup(b) ==
    /\ backups[b].run = "saved"
    /\ backups' = [backups EXCEPT ![b].status = IF @ = "-" THEN @ ELSE "success", ![b].run = "idle"]
    /\ UNCHANGED <<instances, used, schemas, files, fileTasks, deletions, admitted, restores, raced, broken, mishaps>>

(* destroy refuses one that is running; the row, and then its archive, go. *)
DeleteBackup(b) ==
    /\ b \in Kept
    /\ backups[b].status # "running"
    /\ backups' = [backups EXCEPT ![b].state = "dead"]
    /\ UNCHANGED <<instances, used, schemas, files, fileTasks, deletions, admitted, restores, raced, broken, mishaps>>

PurgeBackup(b) ==
    /\ backups[b].state = "dead"
    /\ backups' = [backups EXCEPT ![b].state = "purged", ![b].status = "-", ![b].stored = "no"]
    /\ restores' = [r \in Restores |-> IF restores[r].from = b /\ restores[r].run = "queued"
                                       THEN Over ELSE restores[r]]
    /\ UNCHANGED <<instances, used, schemas, files, fileTasks, deletions, admitted, raced, broken, mishaps>>

-----------------------------------------------------------------------------
(* Restores *)

(* RestoreSerializer offers the admin's finished backups. *)
CreateRestore(r, i, b) ==
    /\ restores[r] = NoRestore
    /\ i \in Live
    /\ b \in Kept /\ backups[b].status = "success"
    /\ restores' = [restores EXCEPT ![r] = [NoRestore EXCEPT !.of = i, !.from = b, !.run = "queued"]]
    /\ UNCHANGED <<instances, used, schemas, files, fileTasks, deletions, backups, admitted, raced, broken, mishaps>>

(* RunRestoreTask marks a restore aborted when an earlier one of the        *)
(* instance is not over, and then runs it all the same.  Statuses of        *)
(* restores are left out: nothing depends on them.                          *)
StartRestore(r) ==
    /\ restores[r].run = "queued"
    /\ restores' = [restores EXCEPT ![r].run = "read", ![r].copy = instances[restores[r].of]]
    /\ Touch(restores[r].of)
    /\ UNCHANGED <<instances, used, schemas, files, fileTasks, deletions, backups, admitted, broken, mishaps>>

(* restore_to_new_schema up to the swap: the second instance is not visible *)
(* yet, but its schema is.                                                  *)
BuildSchema(r) ==
    /\ restores[r].run = "read"
    /\ used # Rows
    /\ IF backups[restores[r].from].stored = "yes"
       THEN /\ used' = used \cup {NextKey}
            /\ schemas' = schemas \cup {NextKey}
            /\ files' = files \cup {NextKey}
            /\ restores' = [restores EXCEPT ![r].run = "built", ![r].temp = NextKey]
       ELSE /\ restores' = [restores EXCEPT ![r] = Over]
            /\ UNCHANGED <<used, schemas, files>>
    /\ UNCHANGED <<instances, fileTasks, deletions, backups, admitted, raced, broken, mishaps>>

FaultSwapped(r) ==
    [instances EXCEPT ![restores[r].of] = [restores[r].copy EXCEPT !.place = restores[r].temp],
                      ![restores[r].temp] = [state |-> "dead", place |-> restores[r].temp]]

(* Both rows are saved with all their columns: the target as it was read.   *)
Swapped(r) ==
    [instances EXCEPT ![restores[r].of] = [restores[r].copy EXCEPT !.place = restores[r].temp],
                      ![restores[r].temp] = [state |-> "dead", place |-> restores[r].copy.place]]

(* The swap, the soft deletion of the second instance and the commit; or a  *)
(* rollback, which also forgets the task that would drop its schema.        *)
SwapAndCommit(r) ==
    /\ restores[r].run = "built"
    /\ \/ /\ instances' = Swapped(r)
          /\ deletions' = deletions \cup {restores[r].temp}
          /\ restores' = [restores EXCEPT ![r] = Over]
          /\ raced' = IF \E q \in Restores \ {r} : /\ restores[q].run \in {"read", "built"}
                                                   /\ restores[q].of = restores[r].of
                      THEN "yes" ELSE raced
          /\ broken' = broken \ {restores[r].of}
          /\ UNCHANGED mishaps
       \/ /\ Mishap
          /\ restores' = [restores EXCEPT ![r] = Over]
          /\ UNCHANGED <<instances, deletions, raced, broken>>
    /\ UNCHANGED <<used, schemas, files, fileTasks, backups, admitted>>

TenancyNext ==
    \/ CreateInstance \/ AdmitBackup
    \/ \E i \in Rows : \/ DeleteInstance(i) \/ DeleteLiveObject(i) \/ DeleteDeadObjects(i)
                       \/ LoseDeletion(i) \/ DeleteFiles(i)
    \/ \E b \in Backups : \/ \E i \in Rows : CreateBackup(b, i)
                          \/ StartBackup(b) \/ RunBackup(b) \/ SaveBackup(b) \/ FinishBackup(b)
                          \/ DeleteBackup(b) \/ PurgeBackup(b)
    \/ \E r \in Restores : \/ \E i \in Rows, b \in Backups : CreateRestore(r, i, b)
                           \/ StartRestore(r) \/ BuildSchema(r) \/ SwapAndCommit(r)

TenancySpec == TenancyInit /\ [][TenancyNext]_tenancyVars

-----------------------------------------------------------------------------
(* Whatever restores and deletions overlap, a live instance has its schema *)
(* and its files, unless a task that was to delete it broke off.           *)
LiveHasPlace ==
    \A i \in Live \ broken :
        instances[i].place \in schemas \cap files /\ instances[i].place \notin fileTasks

(* Every schema belongs to a row, and no schema to two, as long as nothing  *)
(* failed and no row changed under a restore.                               *)
NothingLeft ==
    mishaps = 0 /\ raced = "no" =>
        /\ \A p \in schemas :
            \/ \E i \in Rows : instances[i].state # "none" /\ instances[i].place = p
            \/ \E r \in Restores : restores[r].run = "built" /\ restores[r].temp = p
        /\ \A i, j \in Rows : i # j /\ "none" \notin {instances[i].state, instances[j].state}
                                => instances[i].place # instances[j].place

(* Deletions, backups and restores leave every instance with a place of its *)
(* own, and no place behind.                                                *)
PlacesAreSound == LiveHasPlace /\ NothingLeft
=============================================================================
