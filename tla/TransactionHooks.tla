-------------------------- MODULE TransactionHooks ---------------------------
(***************************************************************************)
(* The operations that a request or task defers to the end of its          *)
(* transaction: the patched Atomic blocks (apps/core/atomic_signals), the  *)
(* list of operations of each open block and what an exit does with them   *)
(* (apps/core/helpers.py, apps/core/signal_handlers.py).  The operations   *)
(* are those of the file storage (apps/core/backends/storage.py): a saved  *)
(* file is deleted if its transaction fails, a deleted file goes when the  *)
(* transaction has succeeded.                                              *)
(*                                                                         *)
(* One thread and one connection: blocks nest, savepoints are optional.    *)
(***************************************************************************)
EXTENDS Integers, Sequences, SequencesExt

CONSTANTS
    Files,      \* file names, each saved at most once
    GoogleFiles,\* those in a Google bucket, whose delete() is not deferred
    MaxDepth,   \* bound: nested atomic blocks
    MaxHookFaults   \* bound: operations that raise and killed processes

ASSUME HooksAssumption ==
    GoogleFiles \subseteq Files /\ MaxDepth \in Nat \ {0} /\ MaxHookFaults \in Nat

VARIABLES
    stack,      \* open blocks, the outermost first: the rows at their entry,
                \* their savepoint and the files to delete when they succeed
                \* and when they fail: their list of operations, by its two kinds
    rollback,   \* connection.needs_rollback
    refs,       \* the files the rows refer to, as this connection sees them
    files,      \* the files in the bucket
    exiting,    \* the files that an exit is still to delete
    saved,      \* files saved so far
    linked,     \* files a row has referred to
    hookFaults,
    released    \* history: files whose deletion on error was dropped by the
                \* successful exit of an inner block, or never registered

hooksVars == <<stack, rollback, refs, files, exiting, saved, linked, hookFaults, released>>

HooksInit ==
    /\ stack = <<>> /\ rollback = "no"
    /\ refs = {} /\ files = {} /\ exiting = <<>>
    /\ saved = {} /\ linked = {} /\ hookFaults = 0 /\ released = {}

InAtomicBlock == stack # <<>>
Innermost == Last(stack)

\* get_last_transaction_block_list(using).append(operation)
OnSuccess(f) == [Innermost EXCEPT !.onSuccess = Append(@, f)]
OnError(f) == [Innermost EXCEPT !.onError = Append(@, f)]
Defer(block) == stack' = [stack EXCEPT ![Len(stack)] = block]

-----------------------------------------------------------------------------
(* Atomic.__enter__ and __exit__ *)

\* atomic_enter, add_transaction_block.  No savepoint is made once a rollback
\* is due.
Enter(sid) ==
    /\ exiting = <<>> /\ Len(stack) < MaxDepth
    /\ stack' = Append(stack,
         [rows |-> refs,
          sid |-> IF ~InAtomicBlock THEN "outermost"
                  ELSE IF rollback = "yes" THEN "none" ELSE sid,
          onSuccess |-> <<>>, onError |-> <<>>])
    /\ UNCHANGED <<rollback, refs, files, exiting, saved, linked, hookFaults, released>>

\* The files that go if the block fails
ErrorFiles == ToSet(Innermost.onError)

\* The success operations of an inner block become those of the block around it.
HandedOn ==
    LET outer == stack[Len(stack) - 1]
    IN [outer EXCEPT !.onSuccess = @ \o Innermost.onSuccess]

\* Fault: an inner block forgets all of its operations.
FaultExitForgets ==
    /\ exiting = <<>> /\ InAtomicBlock /\ rollback = "no"
    /\ ErrorFiles \subseteq linked
    /\ stack' = Front(stack)
    /\ exiting' = IF Len(stack) = 1 THEN Innermost.onSuccess ELSE <<>>
    /\ released' = IF Len(stack) = 1 THEN released
                   ELSE released \cup ErrorFiles
    /\ UNCHANGED <<rollback, refs, files, saved, linked, hookFaults>>

\* The block ends without an exception and no rollback is due: the rows of the
\* files it saved are saved.  An inner block hands its success operations on to
\* the block around it and drops the error operations.
ExitSuccessful ==
    /\ exiting = <<>> /\ InAtomicBlock /\ rollback = "no"
    /\ ErrorFiles \subseteq linked
    /\ \/ /\ Innermost.sid = "outermost"
          /\ stack' = <<>>
          /\ exiting' = Innermost.onSuccess
          /\ UNCHANGED released
       \/ /\ Innermost.sid # "outermost"
          /\ stack' = [Front(stack) EXCEPT ![Len(stack) - 1] = HandedOn]
          /\ released' = released \cup ErrorFiles
          /\ UNCHANGED exiting
    /\ UNCHANGED <<rollback, refs, files, saved, linked, hookFaults>>

\* The block ends with an exception, a rollback is due, or the database refuses
\* to commit.  Error operations run now, success operations are forgotten.
ExitFailed ==
    /\ exiting = <<>> /\ InAtomicBlock
    /\ stack' = Front(stack)
    /\ exiting' = Innermost.onError
    /\ \/ /\ Innermost.sid = "none"
          /\ rollback' = "yes"
          /\ UNCHANGED refs
       \/ /\ Innermost.sid # "none"
          /\ rollback' = "no"
          /\ refs' = Innermost.rows
    /\ UNCHANGED <<files, saved, linked, hookFaults, released>>

-----------------------------------------------------------------------------
(* The operations of an exit, one after the other *)

RunOperation ==
    /\ exiting # <<>>
    /\ files' = files \ {Head(exiting)}
    /\ exiting' = Tail(exiting)
    /\ UNCHANGED <<stack, rollback, refs, saved, linked, hookFaults, released>>

\* One raises: it and the ones after it are lost.
RaiseInOperation ==
    /\ exiting # <<>> /\ hookFaults < MaxHookFaults
    /\ exiting' = <<>>
    /\ hookFaults' = hookFaults + 1
    /\ UNCHANGED <<stack, rollback, refs, files, saved, linked, released>>

\* The process dies; the database rolls its transaction back.
Crash ==
    /\ InAtomicBlock \/ exiting # <<>>
    /\ hookFaults < MaxHookFaults
    /\ hookFaults' = hookFaults + 1
    /\ stack' = <<>> /\ exiting' = <<>> /\ rollback' = "no"
    /\ refs' = IF InAtomicBlock THEN stack[1].rows ELSE refs
    /\ UNCHANGED <<files, saved, linked, released>>

-----------------------------------------------------------------------------
(* The storage and the rows *)

\* storage._save: the file is written, its deletion registered.  Nothing is
\* registered outside of a block, or if the bucket copies one of its own files.
SaveFile(f) ==
    /\ exiting = <<>> /\ rollback = "no" /\ f \notin saved
    /\ files' = files \cup {f} /\ saved' = saved \cup {f}
    /\ \/ /\ InAtomicBlock
          /\ Defer(OnError(f))
          /\ UNCHANGED released
       \/ /\ released' = released \cup {f}
          /\ UNCHANGED stack
    /\ UNCHANGED <<rollback, refs, exiting, linked, hookFaults>>

\* The row is saved with the name of the file, by the same Model.save and hence
\* in the same block.
LinkRow(f) ==
    /\ exiting = <<>> /\ rollback = "no"
    /\ f \in files \ linked
    /\ f \in released \/ (InAtomicBlock /\ f \in ErrorFiles)
    /\ refs' = refs \cup {f} /\ linked' = linked \cup {f}
    /\ UNCHANGED <<stack, rollback, files, exiting, saved, hookFaults, released>>

\* Fault: the file is deleted without waiting for the commit.
FaultDeleteAtOnce(f) ==
    /\ exiting = <<>> /\ rollback = "no" /\ f \in refs
    /\ refs' = refs \ {f}
    /\ files' = files \ {f}
    /\ UNCHANGED <<stack, rollback, exiting, saved, linked, hookFaults, released>>

\* The row is saved with another file or is deleted; its handler calls
\* storage.delete: after the commit, or at once outside of a transaction.
DeleteFile(f) ==
    /\ f \notin GoogleFiles
    /\ exiting = <<>> /\ rollback = "no" /\ f \in refs
    /\ refs' = refs \ {f}
    /\ \/ /\ InAtomicBlock
          /\ Defer(OnSuccess(f))
          /\ UNCHANGED exiting
       \/ /\ ~InAtomicBlock
          /\ exiting' = <<f>>
          /\ UNCHANGED stack
    /\ UNCHANGED <<rollback, files, saved, linked, hookFaults, released>>

\* GoogleCloudStorage overrides delete() of the mixin.
DeleteGoogleFile(f) ==
    /\ f \in GoogleFiles
    /\ exiting = <<>> /\ rollback = "no" /\ f \in refs
    /\ refs' = refs \ {f}
    /\ files' = files \ {f}
    /\ UNCHANGED <<stack, rollback, exiting, saved, linked, hookFaults, released>>

-----------------------------------------------------------------------------
HooksNext ==
    \/ \E sid \in {"savepoint", "none"} : Enter(sid)
    \/ ExitSuccessful \/ ExitFailed
    \/ RunOperation \/ RaiseInOperation \/ Crash
    \/ \E f \in Files : SaveFile(f) \/ LinkRow(f) \/ DeleteFile(f)
                          \/ DeleteGoogleFile(f)

HooksSpec == HooksInit /\ [][HooksNext]_hooksVars

-----------------------------------------------------------------------------
(* Properties *)

Blocks ==
    [rows : SUBSET Files, sid : {"outermost", "savepoint", "none"}, onSuccess : Seq(Files), onError : Seq(Files)]

\* Every variable has its type; only the bottom block is the outermost, and a
\* rollback is due only inside of it.
HooksTypeOK ==
    /\ stack \in Seq(Blocks) /\ exiting \in Seq(Files)
    /\ \A i \in DOMAIN stack : stack[i].sid = "outermost" <=> i = 1
    /\ rollback \in {"no", "yes"} /\ (rollback = "yes" => InAtomicBlock)
    /\ files \subseteq saved /\ refs \subseteq linked /\ linked \subseteq saved
    /\ saved \subseteq Files /\ released \subseteq Files
    /\ hookFaults \in 0..MaxHookFaults

\* What other connections see
Committed == IF InAtomicBlock THEN stack[1].rows ELSE refs

\* The files of the backends that defer their deletions
Store == INSTANCE FileStore WITH
    Files <- Files \ GoogleFiles,
    stored <- files \ GoogleFiles, committed <- Committed \ GoogleFiles

\* The deferred operations keep the storage's promise: however blocks nest and
\* fail, a file is deleted only when no committed row refers to it, and no
\* commit refers to a file that is gone.
StoreSpec == Store!Spec

\* At rest and without faults no file is left that no row refers to, except
\* the ones whose deletion was given up by a successful inner block.
NoOrphanFile ==
    ~InAtomicBlock /\ exiting = <<>> /\ hookFaults = 0 => files \ refs \subseteq released
=============================================================================
