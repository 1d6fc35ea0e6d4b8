------------------------------ MODULE FileStore ------------------------------
(***************************************************************************)
(* What StorageWithTransactionSupportMixin promises: a file that a         *)
(* committed row refers to exists.  Files may be added at any time, a      *)
(* commit may refer to existing files only, and only a file that no        *)
(* committed row refers to is deleted.                                     *)
(***************************************************************************)
EXTENDS FiniteSets

CONSTANT Files

VARIABLES
    stored,     \* the files in the bucket
    committed   \* the files that committed rows refer to

vars == <<stored, committed>>

Init == stored = {} /\ committed = {}

Add(f) == stored' = stored \cup {f} /\ UNCHANGED committed

Publish == committed' \in SUBSET stored /\ UNCHANGED stored

Remove(f) == f \notin committed /\ stored' = stored \ {f} /\ UNCHANGED committed

Next == Publish \/ \E f \in Files : Add(f) \/ Remove(f)

Spec == Init /\ [][Next]_vars
=============================================================================
