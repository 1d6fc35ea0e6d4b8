------------------------------ MODULE MCRecords ------------------------------
(***************************************************************************)
(* Instance of DataObjects, BackupArchive, ObjectCache and                 *)
(* TransactionHooks for TLC: what happens to what is stored.  They share   *)
(* no state: a behaviour is one of one of them, and the others stay in one *)
(* initial state.                                                          *)
(***************************************************************************)
EXTENDS DataObjects, BackupArchive, ObjectCache, TransactionHooks, TLC

VARIABLE part

vars == <<dataVars, archiveVars, cacheVars, hooksVars, part>>

Init ==
    /\ part \in {"data", "archive", "cache", "hooks"}
    /\ part # "archive" => wanted = Labels
    /\ part # "cache" => db = "default"
    /\ DataInit /\ ArchiveInit /\ CacheInit /\ HooksInit

(* A step of one part leaves the others alone. *)
Next ==
    /\ UNCHANGED part
    /\ \/ part = "data" /\ DataNext /\ UNCHANGED <<archiveVars, cacheVars, hooksVars>>
       \/ part = "archive" /\ ArchiveNext /\ UNCHANGED <<dataVars, cacheVars, hooksVars>>
       \/ part = "cache" /\ CacheNext /\ UNCHANGED <<dataVars, archiveVars, hooksVars>>
       \/ part = "hooks" /\ HooksNext /\ UNCHANGED <<dataVars, archiveVars, cacheVars>>

Spec == Init /\ [][Next]_vars

(* The variables of the other parts have one value each. *)
PartView ==
    CASE part = "data" -> <<part, dataVars>>
      [] part = "archive" -> <<part, archiveVars>>
      [] part = "cache" -> <<part, cacheVars>>
      [] part = "hooks" -> <<part, hooksVars>>
=============================================================================
