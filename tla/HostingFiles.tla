---------------------------- MODULE HostingFiles ----------------------------
(***************************************************************************)
(* The file at one path of a hosting (apps/hosting): its row, the objects  *)
(* in the bucket, and the storage indicator of the instance, which is in   *)
(* the default database and so has transactions of its own.                *)
(***************************************************************************)
EXTENDS Integers, FiniteSets, FiniteSetsExt

CONSTANTS
    ObjectNames,    \* names of bucket objects, each generated once
    FileSizes,
    NoObject

ASSUME HostingFilesAssumption == NoObject \notin ObjectNames /\ FileSizes \subseteq Nat

VARIABLES
    fileRow,      \* the live row of the path
    deadRows,     \* soft deleted rows, until their task deletes them
    named,        \* names generated so far
    bucket,       \* objects in the bucket
    bytes,        \* InstanceIndicator of the storage size
    upload,       \* the open request: operation, the row it saved
    undone,       \* history: a request was rolled back after it had saved
    edited        \* history: names of files changed by a request without a file

hostingFilesVars == <<fileRow, deadRows, named, bucket, bytes, upload, undone, edited>>

NoFileRow == [name |-> NoObject, size |-> 0]
NoUpload == [op |-> "none", row |-> NoFileRow]

HostingFilesInit ==
    /\ fileRow = NoFileRow
    /\ deadRows = {} /\ named = {} /\ bucket = {} /\ bytes = 0
    /\ upload = NoUpload
    /\ undone = FALSE /\ edited = {}

OpenUpload(op, row) == upload.op = "none" /\ upload' = [op |-> op, row |-> row]

FaultCounted(row) == row.size

(* hostingfile_post_save_handler: created or not, the change of the size. *)
Counted(row) == row.size - fileRow.size

(* A file is posted to a free path or put at a path: its object is saved    *)
(* with the row, and the indicator's transaction is over at once.  Two      *)
(* requests for a row come one after the other (select_for_update).         *)
UploadFile(size) ==
    /\ \E name \in ObjectNames \ named :
        LET row == [name |-> name, size |-> size]
        IN  /\ OpenUpload("file", row)
            /\ named' = named \cup {name}
            /\ bucket' = bucket \cup {name}
            /\ bytes' = bytes + Counted(row)
    /\ UNCHANGED <<fileRow, deadRows, undone, edited>>

(* A PATCH without a file. *)
EditFile ==
    /\ fileRow # NoFileRow
    /\ OpenUpload("edit", fileRow)
    /\ UNCHANGED <<fileRow, deadRows, named, bucket, bytes, undone, edited>>

(* LiveAbstractModel.delete *)
SoftDeleteFile ==
    /\ fileRow # NoFileRow
    /\ OpenUpload("delete", NoFileRow)
    /\ UNCHANGED <<fileRow, deadRows, named, bucket, bytes, undone, edited>>

(* HostingFileSerializer.update: the name that the row had before goes from *)
(* the bucket after the commit (the storages of TransactionHooks).          *)
CommitUpload ==
    /\ upload.op # "none"
    /\ fileRow' = upload.row
    /\ IF upload.op = "delete" THEN deadRows' = deadRows \cup {fileRow} /\ UNCHANGED bucket
                               ELSE bucket' = bucket \ {fileRow.name} /\ UNCHANGED deadRows
    /\ edited' = IF upload.op = "edit" THEN edited \cup {fileRow.name} ELSE edited
    /\ upload' = NoUpload
    /\ UNCHANGED <<named, bytes, undone>>

(* A rollback deletes the object, but the indicator keeps its change. *)
UndoUpload ==
    /\ upload.op # "none"
    /\ upload' = NoUpload
    /\ bucket' = IF upload.op = "file" THEN bucket \ {upload.row.name} ELSE bucket
    /\ undone' = (undone \/ upload.op = "file")
    /\ UNCHANGED <<fileRow, deadRows, named, bytes, edited>>

(* DeleteLiveObjectTask, hosting_file_post_delete_handler: the object goes   *)
(* after the commit.                                                        *)
PurgeFile(row) ==
    /\ row \in deadRows
    /\ deadRows' = deadRows \ {row}
    /\ bucket' = bucket \ {row.name}
    /\ bytes' = bytes - row.size
    /\ UNCHANGED <<fileRow, named, upload, undone, edited>>

HostingFilesNext ==
    \/ \E size \in FileSizes : UploadFile(size)
    \/ EditFile \/ SoftDeleteFile \/ CommitUpload \/ UndoUpload
    \/ \E row \in deadRows : PurgeFile(row)

HostingFilesSpec == HostingFilesInit /\ [][HostingFilesNext]_hostingFilesVars

-----------------------------------------------------------------------------
(* "force to delete old file" (hosting/v1_1/serializers.py:177): only an old *)
(* file goes, the file of the live row is in the bucket.                     *)
FileThere == fileRow # NoFileRow => fileRow.name \in bucket

SizeOf == [row \in [name : ObjectNames, size : FileSizes] |-> row.size]

(* A request that sends no file makes an exception of that; and the storage  *)
(* of the instance is what its files take, deleted ones until they are gone, *)
(* unless a request was undone after its save.                               *)
FilesCounted ==
    /\ fileRow.name \in edited \/ FileThere
    /\ upload.op # "file" /\ ~undone =>
        bytes = fileRow.size + SumFunctionOnSet(SizeOf, deadRows)
=============================================================================
