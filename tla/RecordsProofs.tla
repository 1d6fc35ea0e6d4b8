----------------------------- MODULE RecordsProofs -----------------------------
(***************************************************************************)
(* Theorems about what happens to what is stored.  ObjectCache: for any    *)
(* number of processes, writes and expiries, the cache of a row of the     *)
(* default database never offers a value older than the last write that    *)
(* was committed and then invalidated.  TransactionHooks: however blocks   *)
(* nest and fail, no file is left behind, and the storage's promise, which *)
(* FileStore states, is implemented.  DataObjects: requests that overlap   *)
(* on the objects of a class lose no update, and leave distinct values of  *)
(* a unique field and files that are there.  The three share no state.     *)
(***************************************************************************)
EXTENDS ObjectCache, TransactionHooks, DataObjects, SequenceTheorems, TLAPS

\* The actions on the row that a process may take.
WriteStep(p) == \/ Lock(p) \/ Save(p) \/ Commit(p) \/ Rollback(p) \/ AutoSave(p)
                \/ Invalidate(p) \/ LoseInvalidation(p)

ReadStep(p) == \/ GetLocal(p) \/ GetGlobal(p) \/ CheckGlobal(p) \/ Compute(p)
               \/ Set(p) \/ ExpireLocal(p)

LEMMA NextCases ==
    ASSUME CacheNext
    PROVE  \/ ExpireGlobal \/ ExpireVersion
           \/ \E p \in Procs : WriteStep(p) \/ ReadStep(p)
  BY DEF CacheNext, Step, WriteStep, ReadStep

-----------------------------------------------------------------------------
(* Types *)

LEMMA WriteType ==
    ASSUME TypeOK, NEW p \in Procs, WriteStep(p)
    PROVE  TypeOK'
<1> USE DEF Go, Done, At, Places
<1>1. UNCHANGED <<global, localc, self, got, since, ret>>
  BY DEF WriteStep, Lock, Save, Commit, Rollback, AutoSave, Invalidate,
     LoseInvalidation, readVars
<1>2. CacheTypeOK'
  BY <1>1 DEF TypeOK, CacheTypeOK
<1>3. pc' \in [Procs -> Places]
  BY DEF TypeOK, GetTypeOK, WriteStep, Lock, Save, Commit, Rollback, AutoSave,
     Invalidate, LoseInvalidation
<1>4. GetTypeOK'
  BY <1>1, <1>3 DEF TypeOK, GetTypeOK
<1>5. RowTypeOK'
  <2>1. CASE Lock(p) \/ Rollback(p) \/ LoseInvalidation(p)
    BY <2>1 DEF TypeOK, RowTypeOK, Lock, Rollback, LoseInvalidation, keyVars
  <2>2. CASE Save(p) \/ AutoSave(p)
    BY <2>2 DEF TypeOK, RowTypeOK, Save, AutoSave, SetVersion, keyVars
  <2>3. CASE Commit(p) \/ Invalidate(p)
    BY <2>3 DEF TypeOK, RowTypeOK, Commit, Invalidate, SetVersion, Later, keyVars
  <2>4. QED
    BY <2>1, <2>2, <2>3 DEF WriteStep
<1>6. QED
  BY <1>2, <1>4, <1>5 DEF TypeOK

LEMMA ReadType ==
    ASSUME TypeOK, NEW p \in Procs, ReadStep(p)
    PROVE  TypeOK'
<1> USE DEF Go, At, Places, Return
<1>1. UNCHANGED <<writeVars, keyVars, settled>>
  BY DEF ReadStep, GetLocal, GetGlobal, CheckGlobal, Compute, Set, ExpireLocal
<1>2. RowTypeOK'
  BY <1>1 DEF TypeOK, RowTypeOK, writeVars, keyVars
<1>3. SeenBy(p) \in Nat /\ version \in Nat /\ row \in Nat /\ gen \in Nat /\ settled \in Nat
  BY DEF TypeOK, RowTypeOK, GetTypeOK, SeenBy
<1>4. CASE GetLocal(p)
  <2>1. CacheTypeOK'
    BY <1>4 DEF TypeOK, CacheTypeOK, GetLocal
  <2>2. GetTypeOK'
    BY <1>3, <1>4 DEF TypeOK, GetTypeOK, GetLocal
  <2>3. QED
    BY <1>2, <2>1, <2>2 DEF TypeOK
<1>5. CASE GetGlobal(p)
  BY <1>2, <1>5 DEF TypeOK, CacheTypeOK, GetTypeOK, GetGlobal
<1>6. CASE CheckGlobal(p)
  <2>1. PICK e \in got[p] :
        \/ /\ Accepted(e)
           /\ localc' = [localc EXCEPT ![p] = {[e EXCEPT !.tag = SeenBy(p)]}]
           /\ Return(p, e.val, since[p])
        \/ /\ ~Accepted(e)
           /\ self' = [self EXCEPT ![p] = version]
           /\ got' = [got EXCEPT ![p] = {}]
           /\ Go(p, "compute")
           /\ UNCHANGED <<localc, since, ret>>
    BY <1>6 DEF CheckGlobal
  <2>2. e \in Entries /\ [e EXCEPT !.tag = SeenBy(p)] \in Entries
    BY <1>3, <2>1 DEF TypeOK, GetTypeOK, Entries
  <2>3. CacheTypeOK'
    BY <1>6, <2>1, <2>2 DEF TypeOK, CacheTypeOK, CheckGlobal
  <2>4. GetTypeOK'
    BY <1>3, <2>1 DEF TypeOK, GetTypeOK
  <2>5. QED
    BY <1>2, <2>3, <2>4 DEF TypeOK
<1>7. CASE Compute(p)
  <2>1. [val |-> row, tag |-> self[p], born |-> gen] \in Entries
    BY <1>3 DEF TypeOK, GetTypeOK, Entries
  <2>2. GetTypeOK'
    BY <1>7, <2>1 DEF TypeOK, GetTypeOK, Compute
  <2>3. QED
    BY <1>2, <1>7, <2>2 DEF TypeOK, CacheTypeOK, Compute
<1>8. CASE Set(p)
  <2>1. GetTypeOK'
    BY <1>8 DEF TypeOK, GetTypeOK, Set
  <2>2. CacheTypeOK'
    BY <1>8 DEF TypeOK, CacheTypeOK, GetTypeOK, Set
  <2>3. QED
    BY <1>2, <2>1, <2>2 DEF TypeOK
<1>9. CASE ExpireLocal(p)
  BY <1>2, <1>9 DEF TypeOK, CacheTypeOK, GetTypeOK, ExpireLocal, readVars
<1>10. QED
  BY <1>4, <1>5, <1>6, <1>7, <1>8, <1>9 DEF ReadStep

\* Every variable keeps its type: the version key is the last one set, or gone.
THEOREM CacheTypeCorrect == CacheSpec => []TypeOK
<1>1. CacheInit => TypeOK
  BY CacheAssumption DEF CacheInit, TypeOK, RowTypeOK, CacheTypeOK, GetTypeOK, Places
<1>2. TypeOK /\ [CacheNext]_cacheVars => TypeOK'
  <2> SUFFICES ASSUME TypeOK, [CacheNext]_cacheVars PROVE TypeOK'
    OBVIOUS
  <2>1. CASE ExpireGlobal \/ ExpireVersion
    BY <2>1 DEF TypeOK, RowTypeOK, CacheTypeOK, GetTypeOK, ExpireGlobal,
       ExpireVersion, writeVars, keyVars, readVars
  <2>2. CASE UNCHANGED cacheVars
    BY <2>2 DEF TypeOK, RowTypeOK, CacheTypeOK, GetTypeOK, cacheVars, writeVars,
       keyVars, readVars
  <2>3. QED
    BY <2>1, <2>2, NextCases, WriteType, ReadType
<1>3. QED
  BY <1>1, <1>2, PTL DEF CacheSpec

-----------------------------------------------------------------------------
(* The writers *)

\* Who holds the row, and how its values are ordered.  Only the default
\* database is considered: no process is at "invalidated".
WriterInv ==
    /\ settled <= row /\ row <= written
    /\ \A p \in Procs : pc[p] # "invalidated"
    /\ \A p \in Procs : pc[p] \in {"locked", "saved"} => rowLock = p
    /\ \A p \in Procs : pc[p] = "saved" => wval[p] = written
    /\ \A p \in Procs : pc[p] = "hooks" => wval[p] <= row

\* An entry that may be offered is not older than settled; one read from the
\* row since the last invalidation is not either, so that it may be offered
\* once the version key is gone.
Fresh(e) ==
    /\ e.tag <= gen /\ e.born <= gen
    /\ Accepted(e) \/ e.born = gen => e.val >= settled

CacheInv ==
    /\ \A e \in global : Fresh(e)
    /\ \A p \in Procs : \A e \in localc[p] : Fresh(e)
    /\ \A p \in Procs : \A e \in got[p] : Fresh(e)
    /\ \A p \in Procs : self[p] <= gen

GetInv ==
    \A p \in Procs : /\ ret[p] = "recent"
                     /\ since[p] <= settled
                     /\ pc[p] = "set" => \A e \in got[p] : e.val >= since[p]

\* A get() leaves the writers alone.
LEMMA WriterKept ==
    ASSUME TypeOK, TypeOK', WriterInv, NEW p \in Procs, ReadStep(p)
    PROVE  WriterInv'
<1> USE DEF Go, At, Return
<1>1. UNCHANGED <<settled, row, written, rowLock, wval>>
  BY DEF ReadStep, GetLocal, GetGlobal, CheckGlobal, Compute, Set, ExpireLocal,
     writeVars
<1>2. /\ \A q \in Procs \ {p} : pc'[q] = pc[q]
      /\ pc'[p] = pc[p] \/ pc'[p] \in {"idle", "global", "check", "compute", "set"}
  BY DEF TypeOK, GetTypeOK, ReadStep, GetLocal, GetGlobal, CheckGlobal, Compute,
     Set, ExpireLocal
<1>3. QED
  BY <1>1, <1>2 DEF WriterInv

LEMMA WriterStep ==
    ASSUME TypeOK, TypeOK', WriterInv, db = "default", NEW p \in Procs, WriteStep(p)
    PROVE  WriterInv'
<1> USE DEF Go, At, Done
<1>t. /\ row \in Nat /\ settled \in Nat /\ written \in Nat
      /\ pc \in [Procs -> Places] /\ wval \in [Procs -> Nat] /\ None \notin Procs
  BY CacheAssumption DEF TypeOK, RowTypeOK, GetTypeOK
<1>1. CASE Lock(p)
  BY <1>t, <1>1 DEF WriterInv, Lock
<1>2. CASE Save(p)
  BY <1>t, <1>2 DEF WriterInv, Save
<1>3. CASE Commit(p)
  <2>1. /\ pc[p] = "saved" /\ wval[p] = written /\ rowLock = p
        /\ row' = wval[p] /\ rowLock' = None
        /\ pc' = [pc EXCEPT ![p] = "hooks"]
        /\ UNCHANGED <<settled, wval, written>>
    BY <1>3 DEF WriterInv, Commit
  <2>2. \A q \in Procs : q # p => pc[q] \notin {"locked", "saved"}
    BY <2>1 DEF WriterInv
  <2>3. QED
    BY <1>t, <2>1, <2>2 DEF WriterInv
<1>4. CASE Rollback(p)
  <2>1. \A q \in Procs : q # p => pc[q] \notin {"locked", "saved"}
    BY <1>4 DEF WriterInv, Rollback
  <2>2. QED
    BY <1>t, <1>4, <2>1 DEF WriterInv, Rollback
<1>5. CASE AutoSave(p)
  <2>1. \A q \in Procs : pc[q] \notin {"locked", "saved"}
    BY <1>t, <1>5 DEF WriterInv, AutoSave
  <2>2. QED
    BY <1>t, <1>5, <2>1 DEF WriterInv, AutoSave
<1>6. CASE Invalidate(p)
  <2>1. settled' <= row
    BY <1>t, <1>6 DEF WriterInv, Invalidate, Later
  <2>2. QED
    BY <1>t, <1>6, <2>1 DEF WriterInv, Invalidate
<1>7. CASE LoseInvalidation(p)
  BY <1>t, <1>7 DEF WriterInv, LoseInvalidation
<1>8. QED
  BY <1>1, <1>2, <1>3, <1>4, <1>5, <1>6, <1>7 DEF WriteStep

-----------------------------------------------------------------------------
(* The entries *)

\* A new version disqualifies whatever was stored before it.
LEMMA Renewed ==
    ASSUME TypeOK, NEW e \in Entries, Fresh(e), SetVersion
    PROVE  Fresh(e)'
  BY DEF Fresh, SetVersion, Accepted, Entries, TypeOK, RowTypeOK

LEMMA Same ==
    ASSUME NEW e, Fresh(e), UNCHANGED <<gen, version, settled>>
    PROVE  Fresh(e)'
  BY DEF Fresh, Accepted

LEMMA CacheWrite ==
    ASSUME TypeOK, WriterInv, CacheInv, GetInv, db = "default",
           NEW p \in Procs, WriteStep(p)
    PROVE  CacheInv' /\ GetInv'
<1> USE DEF Go, At, Done
<1>1. UNCHANGED <<global, localc, self, got, since, ret>>
  BY DEF WriteStep, Lock, Save, Commit, Rollback, AutoSave, Invalidate,
     LoseInvalidation, readVars
<1>2. /\ pc[p] # "set" /\ pc'[p] # "set"
      /\ \A q \in Procs \ {p} : pc'[q] = pc[q]
  BY DEF TypeOK, GetTypeOK, WriteStep, Lock, Save, Commit, Rollback, AutoSave,
     Invalidate, LoseInvalidation
<1>3. /\ global \subseteq Entries
      /\ \A q \in Procs : localc[q] \subseteq Entries /\ got[q] \subseteq Entries
      /\ settled \in Nat /\ gen \in Nat
      /\ since \in [Procs -> Nat] /\ self \in [Procs -> Nat] /\ wval \in [Procs -> Nat]
  BY DEF TypeOK, RowTypeOK, CacheTypeOK, GetTypeOK
<1>4. CASE Invalidate(p)
  <2>1. SetVersion /\ settled <= settled'
    BY <1>3, <1>4 DEF Invalidate, Later
  <2>2. CacheInv'
    BY <1>1, <1>3, <2>1, Renewed DEF CacheInv, SetVersion
  <2>3. \A q \in Procs : since[q] <= settled'
    BY <1>3, <1>4 DEF GetInv, Invalidate, Later
  <2>4. GetInv'
    BY <1>1, <1>2, <2>3 DEF GetInv
  <2>5. QED
    BY <2>2, <2>4
<1>5. CASE ~Invalidate(p)
  <2>1. UNCHANGED <<gen, version, settled>>
    BY <1>5 DEF WriteStep, Lock, Save, Commit, Rollback, AutoSave,
       LoseInvalidation, keyVars, WriterInv
  <2>2. CacheInv'
    BY <1>1, <2>1, Same DEF CacheInv
  <2>3. GetInv'
    BY <1>1, <1>2, <2>1 DEF GetInv
  <2>4. QED
    BY <2>2, <2>3
<1>6. QED
  BY <1>4, <1>5

LEMMA CacheRead ==
    ASSUME TypeOK, WriterInv, CacheInv, GetInv, NEW p \in Procs, ReadStep(p)
    PROVE  CacheInv' /\ GetInv'
<1> USE DEF Go, At, Return
<1>1. UNCHANGED <<gen, version, settled, row>>
  BY DEF ReadStep, GetLocal, GetGlobal, CheckGlobal, Compute, Set, ExpireLocal,
     writeVars, keyVars
<1>2. /\ global \subseteq Entries
      /\ \A q \in Procs : localc[q] \subseteq Entries /\ got[q] \subseteq Entries
      /\ settled \in Nat /\ gen \in Nat /\ row \in Nat /\ version \in {0, gen}
      /\ settled <= row
  BY DEF TypeOK, RowTypeOK, CacheTypeOK, GetTypeOK, WriterInv
<1>3. /\ since \in [Procs -> Nat] /\ self \in [Procs -> Nat]
      /\ ret \in [Procs -> {"recent", "stale"}] /\ pc \in [Procs -> Places]
      /\ localc \in [Procs -> SUBSET Entries] /\ got \in [Procs -> SUBSET Entries]
  BY DEF TypeOK, RowTypeOK, CacheTypeOK, GetTypeOK
<1>s. \A e : Fresh(e) => Fresh(e)'
  BY <1>1, Same
<1>4. CASE GetLocal(p)
  <2>1. UNCHANGED <<global, localc>> /\ pc'[p] \in {"idle", "global"}
    BY <1>3, <1>4 DEF GetLocal
  <2>2. \A q \in Procs : got'[q] \subseteq got[q] /\ self'[q] <= gen
    BY <1>2, <1>3, <1>4 DEF GetLocal, CacheInv
  <2>3. CacheInv'
    BY <1>1, <1>s, <2>1, <2>2 DEF CacheInv
  <2>4. ret'[p] = "recent" /\ since'[p] <= settled
    <3>1. \A e \in localc[p] : Accepted(e) => e.val >= settled
      BY DEF CacheInv, Fresh
    <3>2. QED
      BY <1>2, <1>3, <1>4, <3>1 DEF GetLocal, GetInv
  <2>5. \A q \in Procs \ {p} : /\ ret'[q] = ret[q] /\ since'[q] = since[q]
                              /\ pc'[q] = pc[q] /\ got'[q] = got[q]
    BY <1>3, <1>4 DEF GetLocal
  <2>6. GetInv'
    BY <1>1, <2>1, <2>4, <2>5 DEF GetInv
  <2>7. QED
    BY <2>3, <2>6
<1>5. CASE GetGlobal(p)
  <2>1. UNCHANGED <<global, localc, self, since, ret>> /\ pc'[p] # "set"
    BY <1>3, <1>5 DEF GetGlobal
  <2>2. \A q \in Procs : got'[q] = got[q] \/ got'[q] = global
    BY <1>3, <1>5 DEF GetGlobal
  <2>3. CacheInv'
    BY <1>1, <1>s, <2>1, <2>2 DEF CacheInv
  <2>4. \A q \in Procs \ {p} : pc'[q] = pc[q] /\ got'[q] = got[q]
    BY <1>3, <1>5 DEF GetGlobal
  <2>5. QED
    BY <1>1, <2>1, <2>3, <2>4 DEF GetInv
<1>6. CASE CheckGlobal(p)
  <2>1. PICK e \in got[p] :
        \/ /\ Accepted(e)
           /\ localc' = [localc EXCEPT ![p] = {[e EXCEPT !.tag = SeenBy(p)]}]
           /\ Return(p, e.val, since[p])
        \/ /\ ~Accepted(e)
           /\ self' = [self EXCEPT ![p] = version]
           /\ got' = [got EXCEPT ![p] = {}]
           /\ Go(p, "compute")
           /\ UNCHANGED <<localc, since, ret>>
    BY <1>6 DEF CheckGlobal
  <2>2. e \in Entries /\ Fresh(e)
    BY <1>2, <2>1 DEF CacheInv
  <2>3. SeenBy(p) \in Nat /\ SeenBy(p) <= gen
    BY <1>2, <1>3 DEF SeenBy, CacheInv
  <2>4. Accepted(e) => Fresh([e EXCEPT !.tag = SeenBy(p)])
    BY <1>2, <2>2, <2>3 DEF Fresh, Entries
  <2>5. \A q \in Procs : \A x \in localc'[q] : Fresh(x)
    BY <1>3, <2>1, <2>4 DEF CacheInv
  <2>6. \A q \in Procs : got'[q] \subseteq got[q] /\ self'[q] <= gen
    BY <1>2, <1>3, <2>1 DEF CacheInv
  <2>7. CacheInv'
    BY <1>1, <1>s, <1>6, <2>5, <2>6 DEF CacheInv, CheckGlobal
  <2>8. Accepted(e) => e.val >= since[p]
    BY <1>2, <1>3, <2>2 DEF Fresh, GetInv, Entries
  <2>9. GetInv'
    BY <1>1, <1>2, <1>3, <2>1, <2>8 DEF GetInv
  <2>10. QED
    BY <2>7, <2>9
<1>7. CASE Compute(p)
  <2> DEFINE e == [val |-> row, tag |-> self[p], born |-> gen]
  <2>1. Fresh(e) /\ e.val >= since[p]
    BY <1>2, <1>3 DEF Fresh, CacheInv, GetInv
  <2>2. UNCHANGED <<global, localc, self, since, ret>> /\ got' = [got EXCEPT ![p] = {e}]
        /\ pc' = [pc EXCEPT ![p] = "set"]
    BY <1>7 DEF Compute
  <2> HIDE DEF e
  <2>3. CacheInv'
    BY <1>1, <1>3, <1>s, <2>1, <2>2 DEF CacheInv
  <2>4. GetInv'
    BY <1>1, <1>3, <2>1, <2>2 DEF GetInv
  <2>5. QED
    BY <2>3, <2>4
<1>8. CASE Set(p)
  <2>1. /\ global' = got[p] /\ localc' = [localc EXCEPT ![p] = got[p]]
        /\ got' = [got EXCEPT ![p] = {}] /\ self' = [self EXCEPT ![p] = 0]
    BY <1>8 DEF Set
  <2>2. CacheInv'
    BY <1>1, <1>2, <1>3, <1>s, <2>1 DEF CacheInv
  <2>3. PICK e \in got[p] : Return(p, e.val, since[p])
    BY <1>8 DEF Set
  <2>4. e.val >= since[p]
    BY <1>8, <2>3 DEF Set, GetInv
  <2>5. GetInv'
    BY <1>1, <1>2, <1>3, <2>3, <2>4 DEF GetInv
  <2>6. QED
    BY <2>2, <2>5
<1>9. CASE ExpireLocal(p)
  <2>1. /\ UNCHANGED <<global, pc, self, got, since, ret>>
        /\ \A q \in Procs : localc'[q] \subseteq localc[q]
    BY <1>3, <1>9 DEF ExpireLocal, readVars
  <2>2. CacheInv'
    BY <1>1, <1>s, <2>1 DEF CacheInv
  <2>3. QED
    BY <1>1, <2>1, <2>2 DEF GetInv
<1>10. QED
  BY <1>4, <1>5, <1>6, <1>7, <1>8, <1>9 DEF ReadStep

-----------------------------------------------------------------------------
\* The inductive invariant of a row of the default database
DefaultInv == db = "default" => WriterInv /\ CacheInv /\ GetInv

LEMMA DefaultInductive == TypeOK /\ TypeOK' /\ DefaultInv /\ [CacheNext]_cacheVars => DefaultInv'
<1> SUFFICES ASSUME TypeOK, TypeOK', DefaultInv, [CacheNext]_cacheVars, db' = "default"
             PROVE  (WriterInv /\ CacheInv /\ GetInv)'
  BY DEF DefaultInv
<1>1. db' = db
  BY DEF CacheNext, Step, Lock, Save, Commit, Rollback, AutoSave, Invalidate, LoseInvalidation,
     GetLocal, GetGlobal, CheckGlobal, Compute, Set, ExpireLocal, ExpireGlobal,
     ExpireVersion, writeVars, cacheVars
<1>2. WriterInv /\ CacheInv /\ GetInv
  BY <1>1 DEF DefaultInv
<1>3. CASE UNCHANGED cacheVars
  <2>1. CacheInv'
    BY <1>2, <1>3, Same DEF CacheInv, cacheVars, keyVars, readVars
  <2>2. QED
    BY <1>2, <1>3, <2>1 DEF WriterInv, GetInv, cacheVars, writeVars, readVars
<1>4. CASE ExpireGlobal
  <2>1. CacheInv'
    BY <1>2, <1>4, Same DEF CacheInv, ExpireGlobal, keyVars, readVars
  <2>2. QED
    BY <1>2, <1>4, <2>1 DEF WriterInv, GetInv, ExpireGlobal, writeVars, readVars
<1>5. CASE ExpireVersion
  <2>1. \A e : Fresh(e) /\ e.born = gen => Fresh(e)'
    BY <1>5 DEF Fresh, ExpireVersion
  <2>2. CacheInv'
    BY <1>2, <1>5, <2>1 DEF CacheInv, ExpireVersion, Outlived, readVars
  <2>3. QED
    BY <1>2, <1>5, <2>2 DEF WriterInv, GetInv, ExpireVersion, writeVars, readVars
<1>6. QED
  BY <1>1, <1>2, <1>3, <1>4, <1>5, NextCases, WriterKept, WriterStep, CacheWrite,
     CacheRead

LEMMA DefaultInit == CacheInit => DefaultInv
  BY DEF CacheInit, DefaultInv, WriterInv, CacheInv, GetInv

\* A cached entry of a row of the default database that get() would accept is
\* not older than the last write that was committed and then invalidated.
THEOREM DefaultNoStaleEntryHolds == CacheSpec => []DefaultNoStaleEntry
<1>1. TypeOK /\ DefaultInv => DefaultNoStaleEntry
  BY DEF DefaultInv, CacheInv, Fresh, DefaultNoStaleEntry, NoStaleEntry, Cached
<1>2. QED
  BY <1>1, DefaultInit, DefaultInductive, CacheTypeCorrect, PTL DEF CacheSpec

\* A get() of such a row never returns a value older than the last write that
\* was committed and invalidated when it began.
THEOREM DefaultGetIsRecentHolds == CacheSpec => []DefaultGetIsRecent
<1>1. DefaultInv => DefaultGetIsRecent
  BY DEF DefaultInv, GetInv, DefaultGetIsRecent, GetIsRecent
<1>2. QED
  BY <1>1, DefaultInit, DefaultInductive, CacheTypeCorrect, PTL DEF CacheSpec

-----------------------------------------------------------------------------
(* The operations of transactions *)

\* The files that block i will delete when it succeeds and when it fails, and
\* that the exit under way will.
Succ(i) == ToSet(stack[i].onSuccess)
Err(i) == ToSet(stack[i].onError)
Going == ToSet(exiting)

\* Rows name linked files; what a deferred operation is about is none of them.
LevelsSound ==
    \A i \in DOMAIN stack :
        /\ stack[i].rows \subseteq linked /\ Err(i) \subseteq saved
        /\ Succ(i) \subseteq linked \ refs

\* What a rollback or a commit makes of the rows has its files.
RowsThere ==
    /\ \A i \in DOMAIN stack : stack[i].sid # "none" => stack[i].rows \ GoogleFiles \subseteq files
    /\ rollback = "no" => refs \ GoogleFiles \subseteq files

\* A file saved in a block is new to the rows at its entry and before; a file
\* deleted in it is gone from the rows of the blocks inside.
OperationsApart ==
    \A i, j \in DOMAIN stack :
        /\ j <= i => Err(i) \cap stack[j].rows = {}
        /\ j < i => Err(i) \cap Err(j) = {} /\ Succ(j) \cap stack[i].rows = {}

\* What an exit deletes no row names that may yet be committed.
GoingSound ==
    /\ Going \subseteq saved
    /\ \A i \in DOMAIN stack : Going \cap stack[i].rows = {}
    /\ rollback = "no" => Going \cap refs = {}

\* The files somebody has to delete if no row names them.
Watched == files \ (released \cup Going)

\* Of such a file there is a row or an operation, now and after every rollback
\* to the entry of a block; after it was linked, a row or a success operation.
NowWatched ==
    rollback = "no" =>
        \A f \in Watched :
            /\ f \in refs \/ \E i \in DOMAIN stack : f \in Succ(i) \cup Err(i)
            /\ \A i \in DOMAIN stack :
                f \in Err(i) \cap linked => f \in refs \/ \E k \in DOMAIN stack : f \in Succ(k)
BackWatched ==
    \A j \in DOMAIN stack : stack[j].sid # "none" =>
        \A f \in Watched :
            /\ \/ f \in stack[j].rows
               \/ \E k \in DOMAIN stack : IF k < j THEN f \in Succ(k) \cup Err(k) ELSE f \in Err(k)
            /\ \A i \in DOMAIN stack :
                i < j /\ f \in Err(i) \cap linked =>
                    f \in stack[j].rows \/ \E k \in DOMAIN stack : k < j /\ f \in Succ(k)

HooksInv ==
    /\ HooksTypeOK /\ LevelsSound /\ RowsThere /\ OperationsApart /\ GoingSound
    /\ hookFaults = 0 => NowWatched /\ BackWatched

\* What deferring an operation, handing a list on and running one operation do
\* to the set of the files that a list will delete.
LEMMA SetOfEmpty == ToSet(<<>>) = {}
  BY DEF ToSet

LEMMA SetOfAppend ==
    ASSUME NEW S, NEW s \in Seq(S), NEW e \in S PROVE ToSet(Append(s, e)) = ToSet(s) \cup {e}
  <1>1. /\ Len(Append(s, e)) = Len(s) + 1 /\ Append(s, e)[Len(s) + 1] = e
        /\ \A i \in 1..Len(s) : Append(s, e)[i] = s[i]
        /\ Append(s, e) \in Seq(S) /\ Len(s) \in Nat
    BY AppendProperties
  <1>2. DOMAIN s = 1..Len(s) /\ DOMAIN Append(s, e) = 1..(Len(s) + 1)
    BY <1>1, LenProperties
  <1>3. 1..(Len(s) + 1) = 1..Len(s) \cup {Len(s) + 1}
    BY <1>1
  <1> QED  BY <1>1, <1>2, <1>3 DEF ToSet

LEMMA SetOfConcat ==
    ASSUME NEW S, NEW s \in Seq(S), NEW t \in Seq(S) PROVE ToSet(s \o t) = ToSet(s) \cup ToSet(t)
  <1>1. /\ s \o t \in Seq(S) /\ Len(s \o t) = Len(s) + Len(t)
        /\ \A i \in 1..(Len(s) + Len(t)) : (s \o t)[i] = IF i <= Len(s) THEN s[i] ELSE t[i - Len(s)]
        /\ Len(s) \in Nat /\ Len(t) \in Nat
    BY ConcatProperties
  <1>2. DOMAIN s = 1..Len(s) /\ DOMAIN t = 1..Len(t) /\ DOMAIN (s \o t) = 1..(Len(s) + Len(t))
    BY <1>1, LenProperties
  <1>3. \A i \in DOMAIN (s \o t) : (s \o t)[i] \in ToSet(s) \cup ToSet(t)
    BY <1>1, <1>2 DEF ToSet
  <1>4. \A i \in DOMAIN s : s[i] \in ToSet(s \o t)
    <2>1. \A i \in DOMAIN s : i \in DOMAIN (s \o t) /\ (s \o t)[i] = s[i]
      BY <1>1, <1>2
    <2> QED  BY <2>1 DEF ToSet
  <1>5. \A i \in DOMAIN t : t[i] \in ToSet(s \o t)
    <2>1. \A i \in DOMAIN t : i + Len(s) \in DOMAIN (s \o t) /\ (s \o t)[i + Len(s)] = t[i]
      BY <1>1, <1>2
    <2> QED  BY <2>1 DEF ToSet
  <1> QED  BY <1>3, <1>4, <1>5 DEF ToSet

LEMMA SetOfTail ==
    ASSUME NEW S, NEW s \in Seq(S), s # <<>>
    PROVE  /\ Head(s) \in S /\ Tail(s) \in Seq(S)
           /\ ToSet(Tail(s)) \subseteq ToSet(s) /\ ToSet(s) \subseteq ToSet(Tail(s)) \cup {Head(s)}
           /\ Head(s) \in ToSet(s)
  <1>1. /\ Head(s) = s[1] /\ Tail(s) \in Seq(S) /\ Len(Tail(s)) = Len(s) - 1 /\ Len(s) \in Nat \ {0}
        /\ \A i \in 1..Len(Tail(s)) : Tail(s)[i] = s[i + 1]
    BY HeadTailProperties, EmptySeq
  <1>2. DOMAIN s = 1..Len(s) /\ DOMAIN Tail(s) = 1..(Len(s) - 1) /\ \A i \in 1..Len(s) : s[i] \in S
    BY <1>1, LenProperties, ElementOfSeq
  <1>3. \A i \in DOMAIN Tail(s) : Tail(s)[i] \in ToSet(s)
    BY <1>1, <1>2 DEF ToSet
  <1>4. \A i \in DOMAIN s : s[i] \in ToSet(Tail(s)) \cup {Head(s)}
    <2> SUFFICES ASSUME NEW i \in DOMAIN s, i # 1 PROVE s[i] \in ToSet(Tail(s))
      BY <1>1
    <2>1. i - 1 \in DOMAIN Tail(s) /\ Tail(s)[i - 1] = s[i]
      BY <1>1, <1>2
    <2> QED  BY <2>1 DEF ToSet
  <1> QED  BY <1>1, <1>2, <1>3, <1>4 DEF ToSet

\* The stack is a sequence of blocks, the innermost one last.
LEMMA StackShape ==
    ASSUME HooksTypeOK
    PROVE  /\ Len(stack) \in Nat /\ DOMAIN stack = 1..Len(stack)
           /\ InAtomicBlock <=> Len(stack) # 0
           /\ \A i \in 1..Len(stack) : stack[i] \in Blocks
           /\ Innermost = stack[Len(stack)]
  BY ElementOfSeq, LenProperties, EmptySeq DEF HooksTypeOK, InAtomicBlock, Innermost, Last

\* Entering a block puts it on top of the stack.
LEMMA Pushed ==
    ASSUME HooksTypeOK, NEW b \in Blocks, stack' = Append(stack, b)
    PROVE  /\ stack' \in Seq(Blocks) /\ DOMAIN stack' = 1..(Len(stack) + 1)
           /\ \A i \in 1..Len(stack) : stack'[i] = stack[i]
           /\ stack'[Len(stack) + 1] = b
  BY AppendProperties, LenProperties DEF HooksTypeOK

\* Deferring an operation changes one block of the stack.
LEMMA Replaced ==
    ASSUME NEW s \in Seq(Blocks), NEW n \in DOMAIN s, NEW b \in Blocks
    PROVE  /\ [s EXCEPT ![n] = b] \in Seq(Blocks) /\ DOMAIN [s EXCEPT ![n] = b] = DOMAIN s
           /\ \A i \in DOMAIN s : [s EXCEPT ![n] = b][i] = IF i = n THEN b ELSE s[i]
  <1>1. DOMAIN s = 1..Len(s)
    BY LenProperties
  <1>2. [s EXCEPT ![n] = b] \in Seq(Blocks)
    BY <1>1, ExceptSeq
  <1> QED  BY <1>2

\* A new block: what would be watched after a rollback to its entry is what is
\* watched now.
LEMMA EnterKeeps ==
    ASSUME HooksInv, NEW sid \in {"savepoint", "none"}, Enter(sid) PROVE HooksInv'
  <1>0. PICK n : n = Len(stack)
    OBVIOUS
  <1> DEFINE b == [rows |-> refs,
                   sid |-> IF ~InAtomicBlock THEN "outermost" ELSE IF rollback = "yes" THEN "none" ELSE sid,
                   onSuccess |-> <<>>, onError |-> <<>>]
  <1>1. HooksTypeOK /\ n \in Nat /\ DOMAIN stack = 1..n /\ (InAtomicBlock <=> n # 0)
    BY <1>0, StackShape DEF HooksInv
  <1>2. /\ exiting = <<>> /\ stack' = Append(stack, b)
        /\ rollback' = rollback /\ refs' = refs /\ files' = files /\ exiting' = exiting
        /\ saved' = saved /\ linked' = linked /\ hookFaults' = hookFaults /\ released' = released
    BY DEF Enter
  <1>3. b \in Blocks /\ refs \subseteq Files
    BY <1>1, EmptySeq DEF HooksTypeOK, Blocks
  <1>4. /\ b.rows = refs /\ b.onSuccess = <<>> /\ b.onError = <<>>
        /\ n = 0 <=> b.sid = "outermost"
        /\ b.sid # "none" => rollback = "no"
    BY <1>1 DEF HooksTypeOK
  <1> HIDE DEF b
  <1>5. /\ stack' \in Seq(Blocks) /\ DOMAIN stack' = 1..(n + 1)
        /\ \A i \in 1..n : stack'[i] = stack[i]
        /\ stack'[n + 1] = b
    BY <1>0, <1>1, <1>2, <1>3, Pushed
  <1>6. stack' # <<>>
    BY <1>1, <1>5, EmptySeq, LenProperties
  <1>7. HooksTypeOK'
    <2>1. \A i \in 1..(n + 1) : stack'[i].sid = "outermost" <=> i = 1
      BY <1>1, <1>4, <1>5 DEF HooksTypeOK
    <2> QED  BY <1>1, <1>2, <1>5, <1>6, <2>1 DEF HooksTypeOK, InAtomicBlock
  <1>8. /\ \A i \in 1..n : Succ(i)' = Succ(i) /\ Err(i)' = Err(i)
        /\ Succ(n + 1)' = {} /\ Err(n + 1)' = {} /\ stack'[n + 1].rows = refs
        /\ Going' = {} /\ Going = {}
    BY <1>2, <1>4, <1>5, SetOfEmpty DEF Succ, Err, Going
  <1>9. \A i \in 1..(n + 1) : i \in 1..n \/ i = n + 1
    BY <1>1
  <1>10. LevelsSound'
    BY <1>1, <1>2, <1>5, <1>8, <1>9 DEF HooksInv, LevelsSound, HooksTypeOK
  <1>11. RowsThere'
    BY <1>1, <1>2, <1>4, <1>5, <1>8, <1>9 DEF HooksInv, RowsThere
  <1>12. OperationsApart'
    <2>1. \A i \in 1..n : i < n + 1 /\ ~(n + 1 <= i) /\ ~(n + 1 < i)
      BY <1>1
    <2>2. \A j \in 1..n : Succ(j) \cap refs = {}
      BY <1>1 DEF HooksInv, LevelsSound
    <2> QED  BY <1>1, <1>2, <1>5, <1>8, <1>9, <2>1, <2>2 DEF HooksInv, OperationsApart
  <1>13. GoingSound'
    BY <1>8 DEF GoingSound
  <1>14. ASSUME hookFaults = 0, NowWatched, BackWatched PROVE NowWatched' /\ BackWatched'
    <2>1. Watched' = Watched
      BY <1>2, <1>8 DEF Watched
    <2>2. NowWatched'
      BY <1>1, <1>2, <1>5, <1>8, <1>9, <1>14, <2>1 DEF NowWatched
    <2>3. ASSUME NEW j \in 1..(n + 1), stack'[j].sid # "none", NEW f \in Watched
          PROVE  /\ \/ f \in stack'[j].rows
                    \/ \E k \in 1..(n + 1) : IF k < j THEN f \in Succ(k)' \cup Err(k)' ELSE f \in Err(k)'
                 /\ \A i \in 1..(n + 1) :
                     i < j /\ f \in Err(i)' \cap linked =>
                         f \in stack'[j].rows \/ \E k \in 1..(n + 1) : k < j /\ f \in Succ(k)'
      <3>1. CASE j = n + 1
        <4>1. \A i \in 1..n : i < j
          BY <1>1, <3>1
        <4> QED  BY <1>1, <1>4, <1>5, <1>8, <1>9, <1>14, <2>3, <3>1, <4>1 DEF NowWatched
      <3>2. CASE j \in 1..n
        <4>1. ~(n + 1 < j)
          BY <1>1, <3>2
        <4> QED  BY <1>1, <1>5, <1>8, <1>9, <1>14, <2>3, <3>2, <4>1 DEF BackWatched
      <3> QED  BY <1>9, <3>1, <3>2
    <2> QED  BY <1>2, <1>5, <2>1, <2>2, <2>3 DEF BackWatched
  <1> QED  BY <1>2, <1>7, <1>10, <1>11, <1>12, <1>13, <1>14 DEF HooksInv

\* Leaving a block keeps the blocks around it.
LEMMA FrontBlocks ==
    ASSUME HooksTypeOK, InAtomicBlock
    PROVE  /\ Front(stack) \in Seq(Blocks) /\ DOMAIN Front(stack) = 1..(Len(stack) - 1)
           /\ \A i \in 1..(Len(stack) - 1) : Front(stack)[i] = stack[i]
  <1>1. Len(stack) \in Nat \ {0} /\ stack \in Seq(Blocks) /\ \A i \in 1..(Len(stack) - 1) : stack[i] \in Blocks
    BY StackShape DEF HooksTypeOK
  <1>2. /\ 1 \in Int /\ Len(stack) - 1 \in Int
        /\ Len(stack) - 1 - 1 + 1 = Len(stack) - 1 /\ \A i \in 1..(Len(stack) - 1) : 1 + i - 1 = i
    BY <1>1
  <1>3. /\ SubSeq(stack, 1, Len(stack) - 1) \in Seq(Blocks)
        /\ Len(SubSeq(stack, 1, Len(stack) - 1)) = IF 1 <= Len(stack) - 1 THEN Len(stack) - 1 - 1 + 1 ELSE 0
        /\ \A i \in 1..(Len(stack) - 1 - 1 + 1) : SubSeq(stack, 1, Len(stack) - 1)[i] = stack[1 + i - 1]
    BY <1>1, <1>2, SubSeqProperties
  <1> QED  BY <1>1, <1>2, <1>3, LenProperties DEF Front

\* The block around a successful one inherits its success operations; its error
\* operations are released, or linked to a row that the transaction commits.
LEMMA ExitSuccessfulKeeps == ASSUME HooksInv, ExitSuccessful PROVE HooksInv'
  <1>0. PICK n : n = Len(stack)
    OBVIOUS
  <1>1. /\ HooksTypeOK /\ n \in Nat \ {0} /\ DOMAIN stack = 1..n /\ InAtomicBlock
        /\ Innermost = stack[n] /\ stack[n] \in Blocks /\ exiting = <<>> /\ rollback = "no"
        /\ rollback' = rollback /\ refs' = refs /\ files' = files
        /\ saved' = saved /\ linked' = linked /\ hookFaults' = hookFaults
    BY <1>0, StackShape DEF HooksInv, ExitSuccessful
  <1>2. Err(n) \subseteq linked /\ Going = {}
    BY <1>1, SetOfEmpty DEF ExitSuccessful, ErrorFiles, Err, Going
  <1>3. CASE Innermost.sid = "outermost"
    <2>1. n = 1 /\ stack' = <<>> /\ exiting' = stack[1].onSuccess /\ released' = released
      BY <1>1, <1>3 DEF ExitSuccessful, HooksTypeOK
    <2>2. Going' = Succ(1) /\ exiting' \in Seq(Files) /\ DOMAIN stack' = {}
      BY <1>1, <2>1 DEF Going, Succ, Blocks
    <2>3. HooksTypeOK'
      BY <1>1, <2>1, <2>2, EmptySeq DEF HooksTypeOK, InAtomicBlock
    <2>4. LevelsSound' /\ OperationsApart'
      BY <2>2 DEF LevelsSound, OperationsApart
    <2>5. RowsThere'
      BY <1>1, <2>2 DEF HooksInv, RowsThere
    <2>6. GoingSound'
      <3>1. Succ(1) \subseteq linked \ refs /\ linked \subseteq saved
        BY <1>1, <2>1 DEF HooksInv, LevelsSound, HooksTypeOK
      <3> QED  BY <1>1, <2>2, <3>1 DEF GoingSound
    <2>7. ASSUME hookFaults = 0, NowWatched PROVE NowWatched' /\ BackWatched'
      <3>1. ASSUME NEW f \in files, f \notin released, f \notin Succ(1) PROVE f \in refs
        <4>1. f \in Watched
          BY <1>2, <3>1 DEF Watched
        <4>2. f \in refs \/ f \in Err(1)
          BY <1>1, <2>1, <2>7, <3>1, <4>1 DEF NowWatched
        <4>3. CASE f \in Err(1)
          <5>1. f \in linked
            BY <1>2, <2>1, <4>3
          <5> QED  BY <1>1, <2>1, <2>7, <3>1, <4>1, <4>3, <5>1 DEF NowWatched
        <4> QED  BY <4>2, <4>3
      <3>2. \A f \in Watched' : f \in files /\ f \notin released /\ f \notin Succ(1)
        BY <1>1, <2>1, <2>2 DEF Watched
      <3> QED  BY <1>1, <2>2, <3>1, <3>2 DEF NowWatched, BackWatched
    <2> QED  BY <1>1, <2>3, <2>4, <2>5, <2>6, <2>7 DEF HooksInv
  <1>4. CASE Innermost.sid # "outermost"
    <2>1. /\ n - 1 \in 1..n /\ n - 1 \in Nat \ {0} /\ exiting' = exiting /\ released' = released \cup Err(n)
          /\ stack' = [Front(stack) EXCEPT ![n - 1] = HandedOn]
      BY <1>0, <1>1, <1>4 DEF ExitSuccessful, HooksTypeOK, ErrorFiles, Err
    <2>2. stack[n - 1] \in Blocks /\ HandedOn = [stack[n - 1] EXCEPT !.onSuccess = @ \o stack[n].onSuccess]
      BY <1>0, <1>1, <2>1, StackShape DEF HandedOn
    <2>3. /\ stack[n - 1].onSuccess \in Seq(Files) /\ stack[n].onSuccess \in Seq(Files)
          /\ stack[n - 1].onSuccess \o stack[n].onSuccess \in Seq(Files)
          /\ ToSet(stack[n - 1].onSuccess \o stack[n].onSuccess) = Succ(n - 1) \cup Succ(n)
      <3>1. stack[n - 1].onSuccess \in Seq(Files) /\ stack[n].onSuccess \in Seq(Files)
        BY <1>1, <2>2 DEF Blocks
      <3> QED  BY <3>1, SetOfConcat, ConcatProperties DEF Succ
    <2>4. /\ HandedOn \in Blocks /\ HandedOn.rows = stack[n - 1].rows /\ HandedOn.sid = stack[n - 1].sid
          /\ HandedOn.onError = stack[n - 1].onError
          /\ HandedOn.onSuccess = stack[n - 1].onSuccess \o stack[n].onSuccess
      BY <2>2, <2>3 DEF Blocks
    <2>5. /\ stack' \in Seq(Blocks) /\ DOMAIN stack' = 1..(n - 1)
          /\ \A i \in 1..(n - 1) : stack'[i] = IF i = n - 1 THEN HandedOn ELSE stack[i]
      <3>1. /\ Front(stack) \in Seq(Blocks) /\ DOMAIN Front(stack) = 1..(n - 1)
            /\ \A i \in 1..(n - 1) : Front(stack)[i] = stack[i]
        BY <1>0, <1>1, FrontBlocks
      <3>2. n - 1 \in DOMAIN Front(stack)
        BY <2>1, <3>1
      <3> QED  BY <2>1, <2>4, <3>1, <3>2, Replaced
    <2>6. \A i \in 1..(n - 1) : i \in 1..n /\ stack'[i].rows = stack[i].rows /\ stack'[i].sid = stack[i].sid
      BY <1>1, <2>4, <2>5
    <2>7. /\ \A i \in 1..(n - 1) : Err(i)' = Err(i) /\ Succ(i)' = IF i = n - 1 THEN Succ(n - 1) \cup Succ(n) ELSE Succ(i)
          /\ Going' = {}
      <3>1. \A i \in 1..(n - 1) : Err(i)' = Err(i)
        BY <2>4, <2>5 DEF Err
      <3>2. \A i \in 1..(n - 1) : Succ(i)' = IF i = n - 1 THEN Succ(n - 1) \cup Succ(n) ELSE Succ(i)
        BY <2>3, <2>4, <2>5 DEF Succ
      <3> QED  BY <1>2, <2>1, <3>1, <3>2 DEF Going
    <2>8. HooksTypeOK'
      <3>1. stack' # <<>> /\ Err(n) \subseteq Files
        BY <1>1, <1>2, <2>1, <2>5, LenProperties DEF HooksTypeOK
      <3>2. \A i \in 1..(n - 1) : stack'[i].sid = "outermost" <=> i = 1
        BY <1>1, <2>6 DEF HooksTypeOK
      <3> QED  BY <1>1, <2>1, <2>5, <3>1, <3>2 DEF HooksTypeOK, InAtomicBlock
    <2>9. n \in 1..n /\ \A i \in 1..n : i \in 1..(n - 1) \/ i = n
      BY <1>1
    <2>10. LevelsSound'
      BY <1>1, <2>1, <2>5, <2>6, <2>7, <2>9 DEF HooksInv, LevelsSound
    <2>11. RowsThere'
      BY <1>1, <2>5, <2>6 DEF HooksInv, RowsThere
    <2>12. OperationsApart'
      <3>1. ASSUME NEW i \in 1..(n - 1), NEW j \in 1..(n - 1), j < i PROVE Succ(j)' \cap stack'[i].rows = {}
        <4>1. j # n - 1
          BY <1>1, <3>1
        <4> QED  BY <1>1, <2>6, <2>7, <3>1, <4>1 DEF HooksInv, OperationsApart
      <3> QED  BY <1>1, <2>5, <2>6, <2>7, <3>1 DEF HooksInv, OperationsApart
    <2>13. GoingSound'
      BY <2>7 DEF GoingSound
    <2>14. ASSUME hookFaults = 0, NowWatched, BackWatched PROVE NowWatched' /\ BackWatched'
      <3>1. Watched' = Watched \ Err(n) /\ Watched' \subseteq Watched
        BY <1>1, <1>2, <2>1, <2>7 DEF Watched
      <3>2. \A f : (\E k \in 1..n : f \in Succ(k)) => \E k \in 1..(n - 1) : f \in Succ(k)'
        BY <1>1, <2>1, <2>5, <2>7, <2>9
      <3>3. \A f \in Watched' : (\E k \in 1..n : f \in Err(k)) => \E k \in 1..(n - 1) : f \in Err(k)'
        BY <2>7, <2>9, <3>1
      <3>4. NowWatched'
        BY <1>1, <2>1, <2>5, <2>6, <2>7, <2>14, <3>1, <3>2, <3>3 DEF NowWatched
      <3>5. ASSUME NEW j \in 1..(n - 1), stack'[j].sid # "none", NEW f \in Watched'
            PROVE  /\ \/ f \in stack'[j].rows
                      \/ \E k \in 1..(n - 1) : IF k < j THEN f \in Succ(k)' \cup Err(k)' ELSE f \in Err(k)'
                   /\ \A i \in 1..(n - 1) :
                       i < j /\ f \in Err(i)' \cap linked =>
                           f \in stack'[j].rows \/ \E k \in 1..(n - 1) : k < j /\ f \in Succ(k)'
        <4>1. ~(n < j) /\ \A k \in 1..(n - 1) : k < j => k # n - 1
          BY <1>1, <3>5
        <4>2. f \in Watched /\ f \notin Err(n) /\ j \in 1..n /\ stack[j].sid # "none" /\ stack'[j].rows = stack[j].rows
          BY <2>6, <3>1, <3>5
        <4>3. /\ f \in stack[j].rows \/ \E k \in 1..n : IF k < j THEN f \in Succ(k) \cup Err(k) ELSE f \in Err(k)
              /\ \A i \in 1..n : i < j /\ f \in Err(i) \cap linked =>
                    f \in stack[j].rows \/ \E k \in 1..n : k < j /\ f \in Succ(k)
          BY <1>1, <2>14, <4>2 DEF BackWatched
        <4> QED  BY <2>6, <2>7, <2>9, <4>1, <4>2, <4>3
      <3> QED  BY <1>1, <2>5, <3>4, <3>5 DEF BackWatched
    <2> QED  BY <1>1, <2>8, <2>10, <2>11, <2>12, <2>13, <2>14 DEF HooksInv
  <1> QED  BY <1>3, <1>4

\* A rollback to the entry of the innermost block: it was prepared for by
\* BackWatched.  One with no savepoint leaves the rollback to the block around.
LEMMA ExitFailedKeeps == ASSUME HooksInv, ExitFailed PROVE HooksInv'
  <1>0. PICK n : n = Len(stack)
    OBVIOUS
  <1>1. /\ HooksTypeOK /\ n \in Nat \ {0} /\ DOMAIN stack = 1..n /\ InAtomicBlock
        /\ Innermost = stack[n] /\ stack[n] \in Blocks /\ exiting = <<>>
        /\ files' = files /\ exiting' = stack[n].onError /\ stack' = Front(stack)
        /\ saved' = saved /\ linked' = linked /\ hookFaults' = hookFaults /\ released' = released
    BY <1>0, StackShape DEF HooksInv, ExitFailed
  <1>2. /\ \/ stack[n].sid = "none" /\ rollback' = "yes" /\ refs' = refs
           \/ stack[n].sid # "none" /\ rollback' = "no" /\ refs' = stack[n].rows
        /\ Going = {} /\ Going' = Err(n)
    BY <1>1, SetOfEmpty DEF ExitFailed, Going, Err
  <1>3. /\ stack' \in Seq(Blocks) /\ DOMAIN stack' = 1..(n - 1)
        /\ \A i \in 1..(n - 1) : stack'[i] = stack[i]
    BY <1>0, <1>1, FrontBlocks
  <1>4. \A i \in 1..(n - 1) : Succ(i)' = Succ(i) /\ Err(i)' = Err(i)
    BY <1>3 DEF Succ, Err
  <1>5. /\ n \in 1..n /\ \A i \in 1..(n - 1) : i \in 1..n /\ i < n /\ i <= n /\ ~(n < i)
        /\ \A i \in 1..n : i \in 1..(n - 1) \/ i = n
    BY <1>1
  <1>6. /\ stack[n].rows \subseteq linked /\ Err(n) \subseteq saved
        /\ \A j \in 1..n : Err(n) \cap stack[j].rows = {}
    BY <1>1, <1>5 DEF HooksInv, LevelsSound, OperationsApart
  <1>7. HooksTypeOK'
    <2>1. rollback' = "yes" => stack' # <<>>
      <3>1. stack[n].sid = "none" => n # 1
        BY <1>1, <1>5 DEF HooksTypeOK
      <3>2. n # 1 => 1 \in DOMAIN stack'
        BY <1>1, <1>3
      <3> QED  BY <1>2, <3>1, <3>2
    <2>2. \A i \in 1..(n - 1) : stack'[i].sid = "outermost" <=> i = 1
      BY <1>1, <1>3, <1>5 DEF HooksTypeOK
    <2>3. exiting' \in Seq(Files) /\ refs' \subseteq linked
      BY <1>1, <1>2, <1>6 DEF HooksTypeOK, Blocks
    <2> QED  BY <1>1, <1>2, <1>3, <2>1, <2>2, <2>3 DEF HooksTypeOK, InAtomicBlock
  <1>8. LevelsSound'
    <2>1. \A i \in 1..(n - 1) : Succ(i) \subseteq linked \ refs'
      BY <1>1, <1>2, <1>5 DEF HooksInv, LevelsSound, OperationsApart
    <2> QED  BY <1>1, <1>3, <1>4, <1>5, <2>1 DEF HooksInv, LevelsSound
  <1>9. RowsThere'
    BY <1>1, <1>2, <1>3, <1>5 DEF HooksInv, RowsThere
  <1>10. OperationsApart'
    BY <1>1, <1>3, <1>4, <1>5 DEF HooksInv, OperationsApart
  <1>11. GoingSound'
    BY <1>1, <1>2, <1>3, <1>5, <1>6 DEF GoingSound
  <1>12. ASSUME hookFaults = 0, BackWatched PROVE NowWatched' /\ BackWatched'
    <2>1. Watched' = Watched \ Err(n)
      BY <1>1, <1>2 DEF Watched
    <2>2. ASSUME rollback' = "no", NEW f \in Watched'
          PROVE  /\ f \in refs' \/ \E i \in 1..(n - 1) : f \in Succ(i)' \cup Err(i)'
                 /\ \A i \in 1..(n - 1) :
                     f \in Err(i)' \cap linked => f \in refs' \/ \E k \in 1..(n - 1) : f \in Succ(k)'
      <3>1. stack[n].sid # "none" /\ refs' = stack[n].rows /\ f \in Watched /\ f \notin Err(n) /\ ~(n < n)
        BY <1>1, <1>2, <2>1, <2>2
      <3>2. /\ f \in stack[n].rows \/ \E k \in 1..n : IF k < n THEN f \in Succ(k) \cup Err(k) ELSE f \in Err(k)
            /\ \A i \in 1..n : i < n /\ f \in Err(i) \cap linked =>
                  f \in stack[n].rows \/ \E k \in 1..n : k < n /\ f \in Succ(k)
        BY <1>1, <1>5, <1>12, <3>1 DEF BackWatched
      <3> QED  BY <1>4, <1>5, <3>1, <3>2
    <2>3. NowWatched'
      BY <1>1, <1>3, <2>2 DEF NowWatched
    <2>4. ASSUME NEW j \in 1..(n - 1), stack'[j].sid # "none", NEW f \in Watched'
          PROVE  /\ \/ f \in stack'[j].rows
                    \/ \E k \in 1..(n - 1) : IF k < j THEN f \in Succ(k)' \cup Err(k)' ELSE f \in Err(k)'
                 /\ \A i \in 1..(n - 1) :
                     i < j /\ f \in Err(i)' \cap linked =>
                         f \in stack'[j].rows \/ \E k \in 1..(n - 1) : k < j /\ f \in Succ(k)'
      <3>1. f \in Watched /\ f \notin Err(n) /\ j \in 1..n /\ stack[j].sid # "none" /\ stack'[j] = stack[j]
        BY <1>3, <1>5, <2>1, <2>4
      <3>2. /\ f \in stack[j].rows \/ \E k \in 1..n : IF k < j THEN f \in Succ(k) \cup Err(k) ELSE f \in Err(k)
            /\ \A i \in 1..n : i < j /\ f \in Err(i) \cap linked =>
                  f \in stack[j].rows \/ \E k \in 1..n : k < j /\ f \in Succ(k)
        BY <1>1, <1>12, <3>1 DEF BackWatched
      <3> QED  BY <1>4, <1>5, <3>1, <3>2
    <2> QED  BY <1>1, <1>3, <2>3, <2>4 DEF BackWatched
  <1> QED  BY <1>1, <1>7, <1>8, <1>9, <1>10, <1>11, <1>12 DEF HooksInv

\* A file that an exit deletes is one that no row names.
LEMMA RunOperationKeeps == ASSUME HooksInv, RunOperation PROVE HooksInv'
  <1>1. PICK g : g = Head(exiting)
    OBVIOUS
  <1>2. /\ HooksTypeOK /\ exiting \in Seq(Files) /\ exiting # <<>>
        /\ files' = files \ {g} /\ exiting' = Tail(exiting) /\ stack' = stack /\ rollback' = rollback
        /\ refs' = refs /\ saved' = saved /\ linked' = linked /\ hookFaults' = hookFaults /\ released' = released
    BY <1>1 DEF HooksInv, HooksTypeOK, RunOperation
  <1>3. g \in Files /\ exiting' \in Seq(Files) /\ Going' \subseteq Going /\ Going \subseteq Going' \cup {g} /\ g \in Going
    BY <1>1, <1>2, SetOfTail DEF Going
  <1>4. \A i : Succ(i)' = Succ(i) /\ Err(i)' = Err(i)
    BY <1>2 DEF Succ, Err
  <1>5. HooksTypeOK'
    BY <1>2, <1>3 DEF HooksTypeOK, InAtomicBlock
  <1>6. LevelsSound' /\ OperationsApart'
    BY <1>2, <1>4 DEF HooksInv, LevelsSound, OperationsApart
  <1>7. RowsThere' /\ GoingSound'
    BY <1>2, <1>3 DEF HooksInv, RowsThere, GoingSound
  <1>8. Watched' \subseteq Watched
    BY <1>2, <1>3 DEF Watched
  <1>9. ASSUME hookFaults = 0, NowWatched, BackWatched PROVE NowWatched' /\ BackWatched'
    BY <1>2, <1>4, <1>8, <1>9 DEF NowWatched, BackWatched
  <1> QED  BY <1>2, <1>5, <1>6, <1>7, <1>9 DEF HooksInv

\* What was to be deleted stays.
LEMMA RaiseInOperationKeeps == ASSUME HooksInv, RaiseInOperation PROVE HooksInv'
  <1>1. /\ HooksTypeOK /\ exiting' = <<>> /\ hookFaults' = hookFaults + 1 /\ hookFaults < MaxHookFaults
        /\ stack' = stack /\ rollback' = rollback /\ refs' = refs /\ files' = files
        /\ saved' = saved /\ linked' = linked /\ released' = released
    BY DEF HooksInv, RaiseInOperation
  <1>2. Going' = {} /\ \A i : Succ(i)' = Succ(i) /\ Err(i)' = Err(i)
    BY <1>1, SetOfEmpty DEF Going, Succ, Err
  <1>3. hookFaults' \in 0..MaxHookFaults /\ hookFaults' # 0
    BY <1>1, HooksAssumption DEF HooksTypeOK
  <1>4. HooksTypeOK'
    BY <1>1, <1>3, EmptySeq DEF HooksTypeOK, InAtomicBlock
  <1> QED  BY <1>1, <1>2, <1>3, <1>4 DEF HooksInv, LevelsSound, RowsThere, OperationsApart, GoingSound

\* A killed process leaves the rows of the outermost entry.
LEMMA CrashKeeps == ASSUME HooksInv, Crash PROVE HooksInv'
  <1>1. /\ HooksTypeOK /\ stack' = <<>> /\ exiting' = <<>> /\ rollback' = "no"
        /\ hookFaults' = hookFaults + 1 /\ hookFaults < MaxHookFaults
        /\ refs' = IF InAtomicBlock THEN stack[1].rows ELSE refs
        /\ files' = files /\ saved' = saved /\ linked' = linked /\ released' = released
    BY DEF HooksInv, Crash
  <1>2. Going' = {} /\ DOMAIN stack' = {}
    BY <1>1, SetOfEmpty DEF Going
  <1>3. hookFaults' \in 0..MaxHookFaults /\ hookFaults' # 0
    BY <1>1, HooksAssumption DEF HooksTypeOK
  <1>4. refs' \subseteq linked /\ refs' \ GoogleFiles \subseteq files
    <2>1. CASE InAtomicBlock
      <3>1. 1 \in DOMAIN stack /\ stack[1].sid = "outermost"
        BY <1>1, <2>1, StackShape DEF HooksTypeOK
      <3> QED  BY <1>1, <2>1, <3>1 DEF HooksInv, LevelsSound, RowsThere
    <2>2. CASE ~InAtomicBlock
      BY <1>1, <2>2 DEF HooksInv, HooksTypeOK, RowsThere
    <2> QED  BY <2>1, <2>2
  <1>5. HooksTypeOK'
    BY <1>1, <1>2, <1>3, <1>4, EmptySeq DEF HooksTypeOK, InAtomicBlock
  <1> QED  BY <1>1, <1>2, <1>3, <1>4, <1>5 DEF HooksInv, LevelsSound, RowsThere, OperationsApart, GoingSound

\* A file is saved: nothing was said of it before.
LEMMA SaveFileKeeps == ASSUME HooksInv, NEW f \in Files, SaveFile(f) PROVE HooksInv'
  <1>0. PICK n : n = Len(stack)
    OBVIOUS
  <1>1. /\ HooksTypeOK /\ n \in Nat /\ DOMAIN stack = 1..n /\ f \notin saved /\ exiting = <<>> /\ rollback = "no"
        /\ files' = files \cup {f} /\ saved' = saved \cup {f}
        /\ rollback' = rollback /\ refs' = refs /\ exiting' = exiting /\ linked' = linked /\ hookFaults' = hookFaults
    BY <1>0, StackShape DEF HooksInv, SaveFile
  <1>2. Going = {} /\ Going' = {}
    BY <1>1, SetOfEmpty DEF Going
  <1>3. f \notin linked /\ f \notin files /\ \A i \in 1..n : f \notin stack[i].rows /\ f \notin Err(i) /\ f \notin Succ(i)
    BY <1>1 DEF HooksInv, HooksTypeOK, LevelsSound
  <1>4. CASE InAtomicBlock /\ Defer(OnError(f)) /\ released' = released
    <2>1. n \in 1..n /\ stack[n] \in Blocks /\ OnError(f) = [stack[n] EXCEPT !.onError = Append(@, f)]
      BY <1>0, <1>1, <1>4, StackShape DEF OnError
    <2>2. /\ stack[n].onError \in Seq(Files) /\ Append(stack[n].onError, f) \in Seq(Files)
          /\ ToSet(Append(stack[n].onError, f)) = Err(n) \cup {f}
      <3>1. stack[n].onError \in Seq(Files)
        BY <2>1 DEF Blocks
      <3> QED  BY <3>1, SetOfAppend, AppendProperties DEF Err
    <2>3. /\ OnError(f) \in Blocks /\ OnError(f).rows = stack[n].rows /\ OnError(f).sid = stack[n].sid
          /\ OnError(f).onSuccess = stack[n].onSuccess /\ OnError(f).onError = Append(stack[n].onError, f)
      BY <2>1, <2>2 DEF Blocks
    <2>4. /\ stack' \in Seq(Blocks) /\ DOMAIN stack' = 1..n
          /\ \A i \in 1..n : stack'[i] = IF i = n THEN OnError(f) ELSE stack[i]
      <3>1. stack \in Seq(Blocks) /\ n \in DOMAIN stack /\ stack' = [stack EXCEPT ![n] = OnError(f)]
        BY <1>0, <1>1, <1>4, <2>1 DEF Defer, HooksTypeOK
      <3> QED  BY <1>1, <2>3, <3>1, Replaced
    <2>5. \A i \in 1..n : /\ stack'[i].rows = stack[i].rows /\ stack'[i].sid = stack[i].sid
                          /\ Succ(i)' = Succ(i) /\ Err(i)' = IF i = n THEN Err(n) \cup {f} ELSE Err(i)
      <3>1. \A i \in 1..n : stack'[i].rows = stack[i].rows /\ stack'[i].sid = stack[i].sid /\ Succ(i)' = Succ(i)
        BY <2>3, <2>4 DEF Succ
      <3>2. \A i \in 1..n : Err(i)' = IF i = n THEN Err(n) \cup {f} ELSE Err(i)
        BY <2>2, <2>3, <2>4 DEF Err
      <3> QED  BY <3>1, <3>2
    <2>6. HooksTypeOK'
      <3>1. stack' # <<>>
        BY <2>1, <2>4
      <3>2. \A i \in 1..n : stack'[i].sid = "outermost" <=> i = 1
        BY <1>1, <2>5 DEF HooksTypeOK
      <3> QED  BY <1>1, <1>4, <2>4, <3>1, <3>2 DEF HooksTypeOK, InAtomicBlock
    <2>7. LevelsSound'
      BY <1>1, <2>4, <2>5 DEF HooksInv, LevelsSound
    <2>8. RowsThere' /\ GoingSound'
      BY <1>1, <1>2, <2>4, <2>5 DEF HooksInv, RowsThere, GoingSound
    <2>9. OperationsApart'
      BY <1>1, <1>3, <2>4, <2>5 DEF HooksInv, OperationsApart
    <2>10. ASSUME hookFaults = 0, NowWatched, BackWatched PROVE NowWatched' /\ BackWatched'
      <3>1. Watched' \subseteq Watched \cup {f}
        BY <1>1, <1>2, <1>4 DEF Watched
      <3>2. NowWatched'
        BY <1>1, <1>3, <2>1, <2>4, <2>5, <2>10, <3>1 DEF NowWatched
      <3>3. \A j \in 1..n : ~(n < j)
        BY <1>1
      <3>4. BackWatched'
        BY <1>1, <1>3, <2>1, <2>4, <2>5, <2>10, <3>1, <3>3 DEF BackWatched
      <3> QED  BY <3>2, <3>4
    <2> QED  BY <1>1, <2>6, <2>7, <2>8, <2>9, <2>10 DEF HooksInv
  <1>5. CASE released' = released \cup {f} /\ stack' = stack
    <2>1. \A i : Succ(i)' = Succ(i) /\ Err(i)' = Err(i)
      BY <1>5 DEF Succ, Err
    <2>2. HooksTypeOK'
      BY <1>1, <1>5 DEF HooksTypeOK, InAtomicBlock
    <2>3. LevelsSound' /\ RowsThere' /\ OperationsApart' /\ GoingSound'
      BY <1>1, <1>2, <1>5, <2>1 DEF HooksInv, LevelsSound, RowsThere, OperationsApart, GoingSound
    <2>4. Watched' \subseteq Watched
      BY <1>1, <1>2, <1>5 DEF Watched
    <2>5. ASSUME hookFaults = 0, NowWatched, BackWatched PROVE NowWatched' /\ BackWatched'
      BY <1>1, <1>5, <2>1, <2>4, <2>5 DEF NowWatched, BackWatched
    <2> QED  BY <1>1, <2>2, <2>3, <2>5 DEF HooksInv
  <1> QED  BY <1>4, <1>5 DEF SaveFile

\* Only the innermost block has the file's deletion on its list.
LEMMA LinkRowKeeps == ASSUME HooksInv, NEW f \in Files, LinkRow(f) PROVE HooksInv'
  <1>0. PICK n : n = Len(stack)
    OBVIOUS
  <1>1. /\ HooksTypeOK /\ n \in Nat /\ DOMAIN stack = 1..n /\ f \in files /\ f \notin linked
        /\ exiting = <<>> /\ rollback = "no"
        /\ f \in released \/ (n # 0 /\ f \in Err(n))
        /\ refs' = refs \cup {f} /\ linked' = linked \cup {f}
        /\ stack' = stack /\ rollback' = rollback /\ files' = files /\ exiting' = exiting
        /\ saved' = saved /\ hookFaults' = hookFaults /\ released' = released
    BY <1>0, StackShape DEF HooksInv, LinkRow, ErrorFiles, Err
  <1>2. Going = {} /\ Going' = {} /\ \A i : Succ(i)' = Succ(i) /\ Err(i)' = Err(i)
    BY <1>1, SetOfEmpty DEF Going, Succ, Err
  <1>3. HooksTypeOK'
    BY <1>1 DEF HooksTypeOK, InAtomicBlock
  <1>4. LevelsSound' /\ RowsThere' /\ OperationsApart' /\ GoingSound'
    BY <1>1, <1>2 DEF HooksInv, LevelsSound, RowsThere, OperationsApart, GoingSound
  <1>5. ASSUME hookFaults = 0, NowWatched, BackWatched PROVE NowWatched' /\ BackWatched'
    <2>1. Watched' = Watched
      BY <1>1, <1>2 DEF Watched
    <2>2. NowWatched'
      BY <1>1, <1>2, <1>5, <2>1 DEF NowWatched
    <2>3. f \in Watched => \A i, j \in 1..n : i < j => f \notin Err(i)
      <3>1. SUFFICES ASSUME f \in Err(n), n # 0, NEW i \in 1..n, NEW j \in 1..n, i < j PROVE f \notin Err(i)
        BY <1>1 DEF Watched
      <3>2. n \in 1..n /\ i < n
        BY <1>1, <3>1
      <3> QED  BY <1>1, <3>1, <3>2 DEF HooksInv, OperationsApart
    <2>4. BackWatched'
      BY <1>1, <1>2, <1>5, <2>1, <2>3 DEF BackWatched
    <2> QED  BY <2>2, <2>4
  <1> QED  BY <1>1, <1>3, <1>4, <1>5 DEF HooksInv

\* A file is deleted with the commit, or now if there is no transaction.
LEMMA DeleteFileKeeps == ASSUME HooksInv, NEW f \in Files, DeleteFile(f) PROVE HooksInv'
  <1>0. PICK n : n = Len(stack)
    OBVIOUS
  <1>1. /\ HooksTypeOK /\ n \in Nat /\ DOMAIN stack = 1..n /\ f \in refs /\ f \in linked
        /\ exiting = <<>> /\ rollback = "no" /\ refs' = refs \ {f}
        /\ rollback' = rollback /\ files' = files /\ saved' = saved /\ linked' = linked
        /\ hookFaults' = hookFaults /\ released' = released
    BY <1>0, StackShape DEF HooksInv, HooksTypeOK, DeleteFile
  <1>2. Going = {}
    BY <1>1, SetOfEmpty DEF Going
  <1>3. CASE InAtomicBlock /\ Defer(OnSuccess(f)) /\ exiting' = exiting
    <2>1. n \in 1..n /\ stack[n] \in Blocks /\ OnSuccess(f) = [stack[n] EXCEPT !.onSuccess = Append(@, f)]
      BY <1>0, <1>1, <1>3, StackShape DEF OnSuccess
    <2>2. /\ stack[n].onSuccess \in Seq(Files) /\ Append(stack[n].onSuccess, f) \in Seq(Files)
          /\ ToSet(Append(stack[n].onSuccess, f)) = Succ(n) \cup {f}
      <3>1. stack[n].onSuccess \in Seq(Files)
        BY <2>1 DEF Blocks
      <3> QED  BY <3>1, SetOfAppend, AppendProperties DEF Succ
    <2>3. /\ OnSuccess(f) \in Blocks /\ OnSuccess(f).rows = stack[n].rows /\ OnSuccess(f).sid = stack[n].sid
          /\ OnSuccess(f).onError = stack[n].onError /\ OnSuccess(f).onSuccess = Append(stack[n].onSuccess, f)
      BY <2>1, <2>2 DEF Blocks
    <2>4. /\ stack' \in Seq(Blocks) /\ DOMAIN stack' = 1..n
          /\ \A i \in 1..n : stack'[i] = IF i = n THEN OnSuccess(f) ELSE stack[i]
      <3>1. stack \in Seq(Blocks) /\ n \in DOMAIN stack /\ stack' = [stack EXCEPT ![n] = OnSuccess(f)]
        BY <1>0, <1>1, <1>3, <2>1 DEF Defer, HooksTypeOK
      <3> QED  BY <1>1, <2>3, <3>1, Replaced
    <2>5. \A i \in 1..n : /\ stack'[i].rows = stack[i].rows /\ stack'[i].sid = stack[i].sid
                          /\ Err(i)' = Err(i) /\ Succ(i)' = IF i = n THEN Succ(n) \cup {f} ELSE Succ(i)
      <3>1. \A i \in 1..n : stack'[i].rows = stack[i].rows /\ stack'[i].sid = stack[i].sid /\ Err(i)' = Err(i)
        BY <2>3, <2>4 DEF Err
      <3>2. \A i \in 1..n : Succ(i)' = IF i = n THEN Succ(n) \cup {f} ELSE Succ(i)
        BY <2>2, <2>3, <2>4 DEF Succ
      <3> QED  BY <3>1, <3>2
    <2>6. HooksTypeOK'
      <3>1. stack' # <<>>
        BY <2>1, <2>4
      <3>2. \A i \in 1..n : stack'[i].sid = "outermost" <=> i = 1
        BY <1>1, <2>5 DEF HooksTypeOK
      <3> QED  BY <1>1, <1>3, <2>4, <3>1, <3>2 DEF HooksTypeOK, InAtomicBlock
    <2>7. LevelsSound'
      BY <1>1, <2>4, <2>5 DEF HooksInv, LevelsSound
    <2>8. Going' = {}
      BY <1>2, <1>3 DEF Going
    <2>9. RowsThere' /\ GoingSound'
      BY <1>1, <2>4, <2>5, <2>8 DEF HooksInv, RowsThere, GoingSound
    <2>10. \A i \in 1..n : ~(n < i)
      BY <1>1
    <2>11. OperationsApart'
      BY <1>1, <2>4, <2>5, <2>10 DEF HooksInv, OperationsApart
    <2>12. ASSUME hookFaults = 0, NowWatched, BackWatched PROVE NowWatched' /\ BackWatched'
      <3>1. Watched' = Watched
        BY <1>1, <1>2, <2>8 DEF Watched
      <3>2. NowWatched'
        BY <1>1, <2>1, <2>4, <2>5, <2>12, <3>1 DEF NowWatched
      <3>3. BackWatched'
        BY <1>1, <2>4, <2>5, <2>12, <3>1 DEF BackWatched
      <3> QED  BY <3>2, <3>3
    <2> QED  BY <1>1, <2>6, <2>7, <2>9, <2>11, <2>12 DEF HooksInv
  <1>4. CASE ~InAtomicBlock /\ exiting' = <<f>> /\ stack' = stack
    <2>1. n = 0 /\ DOMAIN stack = {} /\ DOMAIN stack' = {}
      BY <1>0, <1>1, <1>4, StackShape
    <2>2. Going' = {f} /\ exiting' \in Seq(Files)
      BY <1>4 DEF Going, ToSet
    <2>3. HooksTypeOK'
      BY <1>1, <1>4, <2>2 DEF HooksTypeOK, InAtomicBlock
    <2>4. LevelsSound' /\ OperationsApart' /\ RowsThere' /\ GoingSound'
      <3>1. f \in saved /\ refs \ GoogleFiles \subseteq files
        BY <1>1 DEF HooksInv, HooksTypeOK, RowsThere
      <3> QED  BY <1>1, <2>1, <2>2, <3>1 DEF LevelsSound, OperationsApart, RowsThere, GoingSound
    <2>5. ASSUME hookFaults = 0, NowWatched PROVE NowWatched' /\ BackWatched'
      <3>1. Watched' = Watched \ {f}
        BY <1>1, <1>2, <2>2 DEF Watched
      <3> QED  BY <1>1, <2>1, <2>5, <3>1 DEF NowWatched, BackWatched
    <2> QED  BY <1>1, <2>3, <2>4, <2>5 DEF HooksInv
  <1> QED  BY <1>3, <1>4 DEF DeleteFile

\* A bucket that does not defer deletes the file at once.
LEMMA DeleteGoogleFileKeeps == ASSUME HooksInv, NEW f \in Files, DeleteGoogleFile(f) PROVE HooksInv'
  <1>1. /\ HooksTypeOK /\ f \in GoogleFiles /\ exiting = <<>> /\ rollback = "no" /\ f \in refs
        /\ refs' = refs \ {f} /\ files' = files \ {f}
        /\ stack' = stack /\ rollback' = rollback /\ exiting' = exiting /\ saved' = saved
        /\ linked' = linked /\ hookFaults' = hookFaults /\ released' = released
    BY DEF HooksInv, DeleteGoogleFile
  <1>2. Going' = Going /\ \A i : Succ(i)' = Succ(i) /\ Err(i)' = Err(i)
    BY <1>1 DEF Going, Succ, Err
  <1>3. HooksTypeOK'
    BY <1>1 DEF HooksTypeOK, InAtomicBlock
  <1>4. LevelsSound' /\ RowsThere' /\ OperationsApart' /\ GoingSound'
    BY <1>1, <1>2 DEF HooksInv, LevelsSound, RowsThere, OperationsApart, GoingSound
  <1>5. ASSUME hookFaults = 0, NowWatched, BackWatched PROVE NowWatched' /\ BackWatched'
    <2>1. Watched' = Watched \ {f}
      BY <1>1, <1>2 DEF Watched
    <2> QED  BY <1>1, <1>2, <1>5, <2>1 DEF NowWatched, BackWatched
  <1> QED  BY <1>1, <1>3, <1>4, <1>5 DEF HooksInv

\* The invariant is inductive.
LEMMA HooksStep == HooksInv /\ [HooksNext]_hooksVars => HooksInv'
  <1> SUFFICES ASSUME HooksInv, [HooksNext]_hooksVars PROVE HooksInv'
    OBVIOUS
  <1>1. CASE UNCHANGED hooksVars
    <2>1. /\ stack' = stack /\ rollback' = rollback /\ refs' = refs /\ files' = files /\ exiting' = exiting
          /\ saved' = saved /\ linked' = linked /\ hookFaults' = hookFaults /\ released' = released
      BY <1>1 DEF hooksVars
    <2>2. Watched' = Watched /\ Going' = Going /\ \A i : Succ(i)' = Succ(i) /\ Err(i)' = Err(i)
      BY <2>1 DEF Watched, Going, Succ, Err
    <2>3. HooksTypeOK'
      BY <2>1 DEF HooksInv, HooksTypeOK, InAtomicBlock
    <2>4. LevelsSound' /\ RowsThere' /\ OperationsApart' /\ GoingSound'
      BY <2>1, <2>2 DEF HooksInv, LevelsSound, RowsThere, OperationsApart, GoingSound
    <2>5. hookFaults' = 0 => NowWatched' /\ BackWatched'
      BY <2>1, <2>2 DEF HooksInv, NowWatched, BackWatched
    <2> QED  BY <2>3, <2>4, <2>5 DEF HooksInv
  <1> QED  BY <1>1, EnterKeeps, ExitSuccessfulKeeps, ExitFailedKeeps, RunOperationKeeps, RaiseInOperationKeeps,
     CrashKeeps, SaveFileKeeps, LinkRowKeeps, DeleteFileKeeps, DeleteGoogleFileKeeps DEF HooksNext

\* It holds when nothing is open and nothing was saved.
LEMMA HooksStart == HooksInit => HooksInv
  <1> SUFFICES ASSUME HooksInit PROVE HooksInv
    OBVIOUS
  <1>1. stack = <<>> /\ exiting = <<>> /\ DOMAIN stack = {} /\ Going = {} /\ files = {} /\ refs = {}
    BY SetOfEmpty DEF HooksInit, Going
  <1>2. HooksTypeOK
    BY <1>1, EmptySeq, HooksAssumption DEF HooksInit, HooksTypeOK
  <1> QED  BY <1>1, <1>2 DEF HooksInv, LevelsSound, RowsThere, OperationsApart, GoingSound, NowWatched,
     BackWatched, Watched

\* The file of a transaction that failed is deleted with it, and the file that a
\* row no longer names with the commit.
THEOREM NoOrphanFileHolds == HooksSpec => []NoOrphanFile
  <1>1. HooksInv => NoOrphanFile
    <2> SUFFICES ASSUME HooksInv, ~InAtomicBlock, exiting = <<>>, hookFaults = 0 PROVE files \ refs \subseteq released
      BY DEF NoOrphanFile
    <2>1. DOMAIN stack = {} /\ rollback = "no" /\ Going = {}
      BY StackShape, SetOfEmpty DEF HooksInv, HooksTypeOK, Going
    <2> QED  BY <2>1 DEF HooksInv, NowWatched, Watched
  <1> QED  BY <1>1, HooksStart, HooksStep, PTL DEF HooksSpec

\* A step of the rows or the bucket is one that the storage's promise allows.
LEMMA StorePublishes ==
    ASSUME files' = files, Committed' \ GoogleFiles \subseteq files \ GoogleFiles
    PROVE  [Store!Next]_(Store!vars)
  BY DEF Store!Next, Store!Publish, Store!vars

\* The files of the Google bucket are none of the promise's.
LEMMA StoreStutters ==
    ASSUME files' \ GoogleFiles = files \ GoogleFiles, Committed' \ GoogleFiles = Committed \ GoogleFiles
    PROVE  [Store!Next]_(Store!vars)
  BY DEF Store!vars

\* Every step is one that the promise allows, or is invisible to it.
LEMMA StoreStep == HooksInv /\ [HooksNext]_hooksVars => [Store!Next]_(Store!vars)
  <1> SUFFICES ASSUME HooksInv, [HooksNext]_hooksVars PROVE [Store!Next]_(Store!vars)
    OBVIOUS
  <1>0. PICK n : n = Len(stack)
    OBVIOUS
  <1>1. /\ HooksTypeOK /\ n \in Nat /\ DOMAIN stack = 1..n /\ (InAtomicBlock <=> n # 0)
        /\ Innermost = stack[n] /\ \A i \in 1..n : stack[i] \in Blocks
    BY <1>0, StackShape DEF HooksInv
  <1>2. n # 0 => 1 \in 1..n /\ n \in 1..n
    BY <1>1
  <1>3. Committed \ GoogleFiles \subseteq files \ GoogleFiles
    <2>1. CASE InAtomicBlock
      BY <1>1, <1>2, <2>1 DEF HooksInv, HooksTypeOK, RowsThere, Committed
    <2>2. CASE ~InAtomicBlock
      BY <2>2 DEF HooksInv, HooksTypeOK, RowsThere, Committed
    <2> QED  BY <2>1, <2>2
  <1>4. CASE UNCHANGED hooksVars
    <2>1. files' = files /\ Committed' = Committed
      BY <1>4 DEF hooksVars, Committed, InAtomicBlock
    <2> QED  BY <2>1, StoreStutters
  <1>5. ASSUME NEW sid \in {"savepoint", "none"}, Enter(sid) PROVE [Store!Next]_(Store!vars)
    <2>1. PICK b \in Blocks : stack' = Append(stack, b) /\ b.rows = refs
      <3> DEFINE c == [rows |-> refs,
                       sid |-> IF ~InAtomicBlock THEN "outermost" ELSE IF rollback = "yes" THEN "none" ELSE sid,
                       onSuccess |-> <<>>, onError |-> <<>>]
      <3>1. refs \in SUBSET Files
        BY <1>1 DEF HooksTypeOK
      <3>2. c \in Blocks /\ c.rows = refs
        BY <3>1, EmptySeq DEF Blocks
      <3>3. stack' = Append(stack, c)
        BY <1>5 DEF Enter
      <3> QED  BY <3>2, <3>3
    <2>2. /\ DOMAIN stack' = 1..(n + 1) /\ \A i \in 1..n : stack'[i] = stack[i]
          /\ stack'[n + 1] = b
      BY <1>0, <1>1, <2>1, Pushed
    <2>3. stack' # <<>>
      BY <1>1, <2>2
    <2>4. Committed' = Committed
      BY <1>1, <1>2, <2>1, <2>2, <2>3 DEF Committed, InAtomicBlock
    <2> QED  BY <1>5, <2>4, StoreStutters DEF Enter
  <1>6. CASE ExitSuccessful
    <2>1. InAtomicBlock /\ rollback = "no" /\ refs' = refs /\ files' = files
      BY <1>6 DEF ExitSuccessful
    <2>2. CASE Innermost.sid = "outermost"
      <3>1. Committed' = refs
        BY <1>6, <2>1, <2>2 DEF ExitSuccessful, Committed, InAtomicBlock
      <3> QED  BY <2>1, <3>1, StorePublishes DEF HooksInv, RowsThere
    <2>3. CASE Innermost.sid # "outermost"
      <3>1. n - 1 \in 1..(n - 1) /\ 1 \in 1..(n - 1) /\ stack' = [Front(stack) EXCEPT ![n - 1] = HandedOn]
        BY <1>0, <1>1, <1>2, <1>6, <2>1, <2>3 DEF ExitSuccessful, HooksTypeOK
      <3>2. HandedOn.rows = stack[n - 1].rows
        BY <1>0, <1>1, <3>1 DEF HandedOn, Blocks
      <3>3. DOMAIN Front(stack) = 1..(n - 1) /\ \A i \in 1..(n - 1) : Front(stack)[i] = stack[i]
        BY <1>0, <1>1, <2>1, FrontBlocks
      <3>4. DOMAIN stack' = 1..(n - 1) /\ stack'[1].rows = stack[1].rows
        BY <3>1, <3>2, <3>3
      <3>5. stack' # <<>>
        BY <3>1, <3>4
      <3>6. Committed' = Committed
        BY <2>1, <3>4, <3>5 DEF Committed, InAtomicBlock
      <3> QED  BY <2>1, <3>6, StoreStutters
    <2> QED  BY <2>2, <2>3
  <1>7. CASE ExitFailed
    <2>1. InAtomicBlock /\ files' = files /\ stack' = Front(stack)
      BY <1>7 DEF ExitFailed
    <2>2. /\ DOMAIN stack' = 1..(n - 1) /\ stack' \in Seq(Blocks)
          /\ \A i \in 1..(n - 1) : stack'[i] = stack[i]
      BY <1>0, <1>1, <2>1, FrontBlocks
    <2>3. CASE n = 1
      <3>1. stack' = <<>> /\ refs' = stack[1].rows
        BY <1>1, <1>2, <1>7, <2>2, <2>3, EmptySeq, LenProperties DEF ExitFailed, HooksTypeOK
      <3>2. Committed' = Committed
        BY <2>1, <3>1 DEF Committed, InAtomicBlock
      <3> QED  BY <2>1, <3>2, StoreStutters
    <2>4. CASE n # 1
      <3>1. 1 \in 1..(n - 1)
        BY <1>1, <2>1, <2>4
      <3>2. stack'[1] = stack[1]
        BY <2>2, <3>1
      <3>5. 1 \in DOMAIN stack'
        BY <2>2, <3>1
      <3>4. stack' # <<>>
        BY <3>5
      <3>3. Committed' = Committed
        BY <2>1, <3>2, <3>4 DEF Committed, InAtomicBlock
      <3> QED  BY <2>1, <3>3, StoreStutters
    <2> QED  BY <2>3, <2>4
  <1>8. CASE RunOperation
    <2>1. PICK g : g = Head(exiting)
      OBVIOUS
    <2>2. /\ files' = files \ {g} /\ stack' = stack /\ refs' = refs /\ g \in Going /\ g \in Files
      BY <1>1, <1>8, <2>1, SetOfTail DEF RunOperation, Going, HooksTypeOK
    <2>3. Committed' = Committed
      BY <2>2 DEF Committed, InAtomicBlock
    <2>4. g \notin Committed
      <3>1. rollback = "yes" => InAtomicBlock
        BY <1>1 DEF HooksTypeOK
      <3>2. rollback \in {"no", "yes"} /\ GoingSound
        BY <1>1 DEF HooksInv, HooksTypeOK
      <3> QED  BY <1>1, <1>2, <2>2, <3>1, <3>2 DEF GoingSound, Committed
    <2>5. CASE g \in GoogleFiles
      BY <2>2, <2>3, <2>5, StoreStutters
    <2>6. CASE g \notin GoogleFiles
      <3>1. Store!Remove(g)
        BY <2>2, <2>3, <2>4, <2>6 DEF Store!Remove
      <3> QED  BY <2>2, <2>6, <3>1 DEF Store!Next
    <2> QED  BY <2>5, <2>6
  <1>9. CASE RaiseInOperation
    <2>1. files' = files /\ Committed' = Committed
      BY <1>9 DEF RaiseInOperation, Committed, InAtomicBlock
    <2> QED  BY <2>1, StoreStutters
  <1>10. CASE Crash
    <2>1. files' = files /\ Committed' = Committed
      BY <1>10 DEF Crash, Committed, InAtomicBlock
    <2> QED  BY <2>1, StoreStutters
  <1>11. ASSUME NEW f \in Files, NEW b \in Blocks, Defer(b), InAtomicBlock, b.rows = stack[n].rows,
                refs' = refs \/ refs' = refs \ {f}
         PROVE  Committed' = Committed
    <2>1. stack \in Seq(Blocks) /\ n \in DOMAIN stack /\ stack' = [stack EXCEPT ![n] = b]
      BY <1>0, <1>1, <1>2, <1>11 DEF Defer, HooksTypeOK
    <2>2. /\ DOMAIN stack' = 1..n /\ \A i \in 1..n : stack'[i] = IF i = n THEN b ELSE stack[i]
      BY <1>1, <1>11, <2>1, Replaced
    <2>3. stack' # <<>> /\ stack'[1].rows = stack[1].rows
      BY <1>1, <1>2, <1>11, <2>2
    <2> QED  BY <1>11, <2>3 DEF Committed, InAtomicBlock
  <1>12. ASSUME NEW f \in Files, SaveFile(f) PROVE [Store!Next]_(Store!vars)
    <2>1. files' = files \cup {f} /\ refs' = refs
      BY <1>12 DEF SaveFile
    <2>2. Committed' = Committed
      <3>1. CASE InAtomicBlock /\ Defer(OnError(f))
        <4>1. stack[n] \in Blocks /\ OnError(f) = [stack[n] EXCEPT !.onError = Append(@, f)]
          BY <1>1, <1>2, <3>1 DEF OnError
        <4>2. stack[n].onError \in Seq(Files) /\ Append(stack[n].onError, f) \in Seq(Files)
          BY <4>1, AppendProperties DEF Blocks
        <4>3. OnError(f) \in Blocks /\ OnError(f).rows = stack[n].rows
          BY <4>1, <4>2 DEF Blocks
        <4> QED  BY <1>11, <2>1, <3>1, <4>3
      <3>2. CASE stack' = stack
        BY <2>1, <3>2 DEF Committed, InAtomicBlock
      <3> QED  BY <1>12, <3>1, <3>2 DEF SaveFile
    <2>3. CASE f \in GoogleFiles
      BY <2>1, <2>2, <2>3, StoreStutters
    <2>4. CASE f \notin GoogleFiles
      <3>1. Store!Add(f)
        BY <2>1, <2>2, <2>4 DEF Store!Add
      <3> QED  BY <2>4, <3>1 DEF Store!Next
    <2> QED  BY <2>3, <2>4
  <1>13. ASSUME NEW f \in Files, LinkRow(f) PROVE [Store!Next]_(Store!vars)
    <2>1. files' = files /\ stack' = stack /\ refs' = refs \cup {f} /\ f \in files
      BY <1>13 DEF LinkRow
    <2>2. Committed' \ GoogleFiles \subseteq files \ GoogleFiles
      BY <1>3, <2>1 DEF Committed, InAtomicBlock
    <2> QED  BY <2>1, <2>2, StorePublishes
  <1>14. ASSUME NEW f \in Files, DeleteFile(f) PROVE [Store!Next]_(Store!vars)
    <2>1. files' = files /\ refs' = refs \ {f}
      BY <1>14 DEF DeleteFile
    <2>2. CASE InAtomicBlock /\ Defer(OnSuccess(f))
      <3>1. stack[n] \in Blocks /\ OnSuccess(f) = [stack[n] EXCEPT !.onSuccess = Append(@, f)]
        BY <1>1, <1>2, <2>2 DEF OnSuccess
      <3>2. stack[n].onSuccess \in Seq(Files) /\ Append(stack[n].onSuccess, f) \in Seq(Files)
        BY <3>1, AppendProperties DEF Blocks
      <3>3. OnSuccess(f) \in Blocks /\ OnSuccess(f).rows = stack[n].rows
        BY <3>1, <3>2 DEF Blocks
      <3>4. Committed' = Committed
        BY <1>11, <2>1, <2>2, <3>3
      <3> QED  BY <2>1, <3>4, StoreStutters
    <2>3. CASE ~InAtomicBlock /\ stack' = stack
      <3>1. Committed' = Committed \ {f}
        BY <2>1, <2>3 DEF Committed, InAtomicBlock
      <3> QED  BY <1>3, <2>1, <3>1, StorePublishes
    <2> QED  BY <1>14, <2>2, <2>3 DEF DeleteFile
  <1>15. ASSUME NEW f \in Files, DeleteGoogleFile(f) PROVE [Store!Next]_(Store!vars)
    <2>1. files' = files \ {f} /\ refs' = refs \ {f} /\ stack' = stack /\ f \in GoogleFiles
      BY <1>15 DEF DeleteGoogleFile
    <2>2. Committed' \ GoogleFiles = Committed \ GoogleFiles
      BY <2>1 DEF Committed, InAtomicBlock
    <2> QED  BY <2>1, <2>2, StoreStutters
  <1> QED  BY <1>4, <1>5, <1>6, <1>7, <1>8, <1>9, <1>10, <1>12, <1>13, <1>14, <1>15 DEF HooksNext

\* The transactions implement the storage's promise.
THEOREM HooksImplementFileStore == HooksSpec => StoreSpec
  <1>1. HooksInit => Store!Init
    BY DEF HooksInit, Store!Init, Committed, InAtomicBlock
  <1>2. HooksSpec => []HooksInv
    BY HooksStart, HooksStep, PTL DEF HooksSpec
  <1>3. HooksSpec => Store!Spec
    BY <1>1, <1>2, StoreStep, PTL DEF HooksSpec, Store!Spec
  <1> QED  BY <1>3 DEF StoreSpec

-----------------------------------------------------------------------------
(* Requests on data objects *)

Schemas == [indexed : {"no", "yes"}, file : Nat]
Objects ==
    [live : {"none", "live", "dead", "gone"}, revision : Nat, number : Nat, name : Names \cup {NoName},
     files : SUBSET (Nat \X Nat)]
Requests ==
    [at : {"idle", "arrived", "fetched", "valid", "saved", "collided"}, op : DataOps \cup {"none", "same"},
     row : Rows \cup {Nobody}, copy : Objects, name : Names \cup {NoName}, schema : Schemas,
     expected : Nat, seen : Nat, tries : Nat, upload : Nat]

RowTypes ==
    /\ objects \in [Rows -> Objects] /\ schema \in Schemas
    /\ asked \in [Rows -> [number : Nat, name : Names \cup {NoName}, changes : Nat]]
    /\ outdated \subseteq Rows /\ retried \subseteq Rows
RequestTypes ==
    /\ writer \in [Writers -> Requests]
    /\ \A w \in Writers : IF writer[w].at = "idle" THEN writer[w].expected = 0 ELSE writer[w].row \in Rows
    /\ objectLock \in [Rows -> Writers \cup {Nobody}]
    /\ stored \subseteq Nat /\ uploads \in Nat /\ sources \in Nat \ {0} /\ runs \in Nat

\* What a request starts from, and whether it has changed the copy it holds
Base(s) == IF s.op = "create" THEN NewRow ELSE objects[s.row]
One(s) == IF s.at = "saved" /\ Changes(s) THEN 1 ELSE 0

RowKept(r) ==
    LET o == objects[r]
        a == asked[r]
    IN  /\ o.live = "none" => o = EmptyRow /\ a = NothingAsked
        /\ o.live = "gone" => o.name = NoName
        /\ o.live = "live" =>
            /\ o.number = a.number
            /\ r \notin outdated => o.name = a.name
            /\ r \notin retried => o.revision = 1 + a.changes
        /\ a.name # NoName => schema.indexed = "yes"
        /\ o.name # NoName => schema.indexed = "yes"

\* A request that holds its row has a copy of what is committed, and of its own change.
Held(s) == s.at \in {"fetched", "valid", "saved", "collided"}
Ready(s) == s.at \in {"valid", "saved", "collided"}
CopyKept(w) ==
    LET s == writer[w]
    IN  /\ Held(s) => objectLock[s.row] = w /\ objects[s.row].live = (IF s.op = "create" THEN "none" ELSE "live")
        /\ s.at \in {"arrived", "fetched"} => s.op \in DataOps
        /\ s.at \in {"saved", "collided"} => s.op # "delete"
        /\ s.at = "fetched" => s.copy = Base(s)
        /\ Ready(s) =>
            /\ s.copy.live = "live"
            /\ s.copy.number = Base(s).number + (IF s.op = "increment" THEN 1 ELSE 0)
            /\ s.copy.revision >= Base(s).revision + One(s)
            /\ s.op = "same" => s.copy.revision = Base(s).revision /\ s.name = Base(s).name
            /\ s.row \notin retried /\ s.at # "collided" => s.copy.revision = Base(s).revision + One(s)
            /\ IF s.at = "saved" /\ s.op # "same" /\ s.schema.indexed = "no" THEN s.copy.name = NoName
               ELSE s.copy.name = (IF s.name # NoName THEN s.name ELSE Base(s).name)

\* Its schema was the class's; a name is for an indexed field.
SchemaKept(w) ==
    LET s == writer[w]
    IN  /\ s.name # NoName => s.schema.indexed = "yes" /\ s.op \in {"create", "rename", "same"}
        /\ s.schema.indexed = "yes" => schema.indexed = "yes"

\* What the client has seen is there, or the revision says that it is not.
SeenKept(w) ==
    LET s == writer[w]
        o == objects[s.row]
    IN  s.expected # 0 =>
        /\ s.op \in {"increment", "rename", "same"} /\ o.live # "none"
        /\ s.at \in {"arrived", "fetched"} /\ o.live = "live" =>
            s.expected < o.revision \/ (s.expected = o.revision /\ s.seen = asked[s.row].changes)
        /\ Ready(s) => s.seen = asked[s.row].changes

\* No two rows have the same name, committed or about to be.
NamesApart ==
    /\ \A q, r \in Rows : q # r /\ objects[q].name # NoName => objects[q].name # objects[r].name
    /\ \A w \in Writers : writer[w].at = "saved" /\ writer[w].copy.name # NoName =>
        /\ \A r \in Rows : r # writer[w].row => objects[r].name # writer[w].copy.name
        /\ \A v \in Writers : v # w /\ writer[v].at = "saved" => writer[v].copy.name # writer[w].copy.name

\* The files of a copy are its row's, or the one uploaded for it.
Calm == sources = 1 /\ schema.file = 1
CopyFiles(w) ==
    LET s == writer[w]
    IN  /\ Ready(s) /\ ~(s.at = "saved" /\ s.op = "upload") => s.copy.files \subseteq Base(s).files
        /\ s.upload # 0 <=> s.at = "saved" /\ s.op = "upload"
        /\ s.upload # 0 => s.copy.files = {<<s.schema.file, s.upload>>}
        /\ Calm /\ s.at # "idle" => s.schema.file = 1
        /\ Calm /\ Ready(s) /\ s.op # "upload" => s.copy.files = Base(s).files

\* A file belongs to one row, or to one request.
RowFiles ==
    /\ \A r \in Rows : \A f \in objects[r].files : f[2] \in stored
    /\ \A q, r \in Rows : q # r => \A f \in objects[q].files, g \in objects[r].files : f[2] # g[2]
    /\ stored \subseteq 1..uploads
FlyingFiles ==
    \A w \in Writers : writer[w].upload # 0 =>
        /\ writer[w].upload \in stored
        /\ \A r \in Rows : \A f \in objects[r].files : f[2] # writer[w].upload
        /\ \A v \in Writers : v # w => writer[v].upload # writer[w].upload

\* While the file field has not been removed, every file has somebody.
FilesKept ==
    /\ sources = 1 => schema.file <= 1
    /\ Calm =>
        /\ \A r \in Rows : \A f \in objects[r].files : f[1] = 1
        /\ \A f \in stored : \/ \E w \in Writers : writer[w].upload = f
                             \/ \E r \in Rows : \E g \in objects[r].files : g[2] = f

RequestKept(w) == CopyKept(w) /\ SchemaKept(w) /\ SeenKept(w) /\ CopyFiles(w)

DataInv ==
    /\ RowTypes /\ RequestTypes /\ trespassed = "no"
    /\ \A r \in Rows : RowKept(r)
    /\ \A w \in Writers : RequestKept(w)
    /\ NamesApart /\ RowFiles /\ FlyingFiles /\ FilesKept

-----------------------------------------------------------------------------
(* Steps that change one request only *)

Typed == RowTypes /\ RequestTypes /\ trespassed = "no"
AllKept == (\A r \in Rows : RowKept(r)) /\ \A w \in Writers : RequestKept(w)

\* A request stays right while another one takes a step that leaves the rows,
\* the class and its locks alone.
LEMMA OthersKept ==
    ASSUME DataInv, NEW v \in Writers, writer'[v] = writer[v],
           UNCHANGED <<objects, schema, asked, sources>>, retried \subseteq retried',
           \A r \in Rows : objectLock[r] # Nobody => objectLock'[r] = objectLock[r]
    PROVE  RequestKept(v)'
  <1> USE DEF DataInv, RequestKept
  <1>1. writer[v].at # "idle" => writer[v].row \in Rows
    BY DEF RequestTypes
  <1>2. CopyKept(v)'
    <2>1. Held(writer[v]) => writer[v].at # "idle" /\ objectLock'[writer[v].row] = v
      BY <1>1, DataObjectsAssumption DEF CopyKept, Held
    <2> QED  BY <1>1, <2>1 DEF CopyKept, Held, Ready, Base, One, Changes
  <1>3. SchemaKept(v)'
    BY DEF SchemaKept
  <1>4. SeenKept(v)'
    BY DEF SeenKept, Ready
  <1>5. CopyFiles(v)'
    BY DEF CopyFiles, Ready, Base, Calm
  <1> QED  BY <1>2, <1>3, <1>4, <1>5

\* A step of one request that touches no row: only that request is to be looked at.
LEMMA QuietStep ==
    ASSUME DataInv, NEW w \in Writers, NEW s \in Requests, To(w, s), s.row \in Rows,
           UNCHANGED <<objects, schema, asked, outdated, trespassed, sources>>,
           retried \subseteq retried', retried' \subseteq Rows,
           \A r \in Rows : objectLock[r] # Nobody => objectLock'[r] = objectLock[r],
           objectLock' \in [Rows -> Writers \cup {Nobody}], s.at # "idle",
           stored' \subseteq Nat, uploads' \in Nat, runs' \in Nat, RequestKept(w)'
    PROVE  Typed' /\ AllKept'
  <1>1. /\ writer' = [writer EXCEPT ![w] = s] /\ writer \in [Writers -> Requests]
        /\ \A v \in Writers : writer[v].at # "idle" => writer[v].row \in Rows
    BY DEF DataInv, RequestTypes, To
  <1>2. \A v \in Writers : v # w => writer'[v] = writer[v]
    BY <1>1
  <1>3. RowTypes' /\ trespassed' = "no"
    BY DEF DataInv, RowTypes
  <1>4. RequestTypes'
    BY <1>1 DEF DataInv, RequestTypes
  <1>5. \A r \in Rows : RowKept(r)'
    BY DEF DataInv, RowKept
  <1>6. \A v \in Writers : RequestKept(v)'
    BY <1>2, OthersKept
  <1> QED  BY <1>3, <1>4, <1>5, <1>6 DEF Typed, AllKept

\* The same for a request that does not save: names and files stay apart.
LEMMA PlainStep ==
    ASSUME DataInv, NEW w \in Writers, NEW s \in Requests, To(w, s), s.row \in Rows,
           UNCHANGED <<objects, schema, asked, outdated, trespassed, sources, stored, uploads>>,
           retried \subseteq retried', retried' \subseteq Rows,
           \A r \in Rows : objectLock[r] # Nobody => objectLock'[r] = objectLock[r],
           objectLock' \in [Rows -> Writers \cup {Nobody}], runs' \in Nat, s.at # "idle",
           s.at # "saved", s.upload = 0, writer[w].upload = 0, RequestKept(w)'
    PROVE  DataInv'
  <1>1. Typed' /\ AllKept'
    <2>1. stored' \subseteq Nat /\ uploads' \in Nat
      BY DEF DataInv, RequestTypes
    <2> QED  BY <2>1, QuietStep
  <1>2. /\ writer'[w] = s /\ \A v \in Writers : v # w => writer'[v] = writer[v]
    BY DEF DataInv, RequestTypes, To
  <1>3. NamesApart'
    BY <1>2 DEF DataInv, NamesApart
  <1>4. RowFiles'
    BY DEF DataInv, RowFiles
  <1>5. FlyingFiles'
    BY <1>2 DEF DataInv, FlyingFiles
  <1>6. FilesKept'
    <2>1. \A f \in stored : f # 0 => \A v \in Writers : writer[v].upload = f => writer'[v].upload = f
      BY <1>2
    <2>2. \A f \in stored, v \in Writers : writer[v].upload = f => \E u \in Writers : writer'[u].upload = f
      BY <1>2
    <2> QED  BY <2>2 DEF DataInv, FilesKept, Calm
  <1> QED  BY <1>1, <1>3, <1>4, <1>5, <1>6 DEF DataInv, Typed, AllKept

\* A request that arrives has seen the revision it expects.
LEMMA ArriveKeeps ==
    ASSUME DataInv, NEW w \in Writers, NEW r \in Rows, NEW op \in DataOps, NEW name \in Names \cup {NoName},
           NEW expected \in {0, objects[r].revision}, Arrive(w, r, op, name, expected)
    PROVE  DataInv'
  <1> DEFINE t == [Waiting EXCEPT !.at = "arrived", !.op = op, !.row = r, !.name = name, !.schema = schema,
                             !.expected = expected, !.seen = asked[r].changes]
  <1>0. /\ objects \in [Rows -> Objects] /\ schema \in Schemas /\ runs \in Nat
        /\ asked \in [Rows -> [number : Nat, name : Names \cup {NoName}, changes : Nat]]
        /\ objectLock \in [Rows -> Writers \cup {Nobody}] /\ retried \subseteq Rows
        /\ writer[w].at = "idle"
    BY DEF DataInv, RowTypes, RequestTypes, Arrive
  <1>1. EmptyRow \in Objects
    BY DEF EmptyRow, Objects
  <1>2. t \in Requests
    <2>1. expected \in Nat /\ asked[r].changes \in Nat
      BY <1>0 DEF Objects
    <2>2. Waiting \in Requests
      BY <1>1 DEF Waiting, Requests, Schemas
    <2> QED  BY <1>0, <2>1, <2>2 DEF Requests
  <1>3. PICK s \in Requests : s = t
    BY <1>2
  <1>4. /\ s.at = "arrived" /\ s.op = op /\ s.row = r /\ s.name = name /\ s.schema = schema
        /\ s.expected = expected /\ s.seen = asked[r].changes /\ s.upload = 0
    BY <1>3 DEF Waiting
  <1>5. To(w, s)
    BY <1>3 DEF Arrive, Converted
  <1>6. writer'[w] = s
    BY <1>5 DEF To, DataInv, RequestTypes
  <1> HIDE DEF t
  <1>7. writer[w].upload = 0
    BY <1>0 DEF DataInv, RequestKept, CopyFiles
  <1>8. UNCHANGED <<objects, schema, objectLock, stored, uploads, sources, asked, outdated, retried, trespassed>> /\ runs' \in Nat
    BY <1>0 DEF Arrive
  <1>9. RequestKept(w)'
    <2>1. CopyKept(w)'
      BY <1>4, <1>6 DEF CopyKept, Held, Ready
    <2>2. SchemaKept(w)'
      BY <1>4, <1>6, <1>8 DEF SchemaKept, Arrive, Converted
    <2>3. SeenKept(w)'
      BY <1>4, <1>6, <1>8 DEF SeenKept, Arrive, Ready
    <2>4. CopyFiles(w)'
      BY <1>4, <1>6, <1>8 DEF CopyFiles, Ready, Calm
    <2> QED  BY <2>1, <2>2, <2>3, <2>4 DEF RequestKept
  <1> QED  BY <1>0, <1>4, <1>5, <1>7, <1>8, <1>9, PlainStep

\* The row is read while nobody holds it, and is held from then on.
LEMMA FetchKeeps == ASSUME DataInv, NEW w \in Writers, Fetch(w) PROVE DataInv'
  <1>1. PICK s \in Requests : s = writer[w]
    BY DEF DataInv, RequestTypes
  <1>2. PICK r : r = s.row
    OBVIOUS
  <1> DEFINE t == [s EXCEPT !.at = "fetched", !.copy = IF s.op = "create" THEN NewRow ELSE objects[r]]
  <1>3. /\ s.at = "arrived" /\ r \in Rows /\ objects[r].live = (IF s.op = "create" THEN "none" ELSE "live")
        /\ objectLock[r] = Nobody /\ objectLock' = [objectLock EXCEPT ![r] = w] /\ To(w, t)
        /\ UNCHANGED <<objects, schema, stored, uploads, sources, runs, asked, outdated, retried, trespassed>>
    BY <1>1, <1>2 DEF Fetch, ReadLocked, DataInv, RequestTypes
  <1>4. t \in Requests
    <2>1. objects[r] \in Objects /\ NewRow \in Objects
      BY <1>3 DEF DataInv, RowTypes, NewRow, EmptyRow, Objects
    <2> QED  BY <2>1 DEF Requests
  <1>5. PICK n \in Requests : n = t
    BY <1>4
  <1>6. /\ n.at = "fetched" /\ n.op = s.op /\ n.row = r /\ n.name = s.name /\ n.schema = s.schema
        /\ n.expected = s.expected /\ n.seen = s.seen /\ n.upload = s.upload
        /\ n.copy = IF s.op = "create" THEN NewRow ELSE objects[r]
    BY <1>2, <1>5 DEF Requests
  <1>7. To(w, n)
    BY <1>3, <1>5
  <1>8. writer'[w] = n
    BY <1>7 DEF To, DataInv, RequestTypes
  <1> HIDE DEF t
  <1>9. CopyKept(w) /\ SchemaKept(w) /\ SeenKept(w) /\ CopyFiles(w)
    BY DEF DataInv, RequestKept
  <1>10. objectLock'[r] = w
    BY <1>3 DEF DataInv, RequestTypes
  <1>11. RequestKept(w)'
    <2>1. CopyKept(w)'
      BY <1>1, <1>3, <1>6, <1>8, <1>9, <1>10 DEF CopyKept, Held, Ready, Base
    <2>2. SchemaKept(w)'
      BY <1>1, <1>3, <1>6, <1>8, <1>9 DEF SchemaKept
    <2>3. SeenKept(w)'
      BY <1>1, <1>2, <1>3, <1>6, <1>8, <1>9 DEF SeenKept, Ready
    <2>4. CopyFiles(w)'
      BY <1>1, <1>3, <1>6, <1>8, <1>9 DEF CopyFiles, Ready, Calm
    <2> QED  BY <2>1, <2>2, <2>3, <2>4 DEF RequestKept
  <1>12. n.upload = 0 /\ writer[w].upload = 0 /\ n.at # "saved"
    BY <1>1, <1>3, <1>6, <1>9 DEF CopyFiles
  <1>13. /\ objectLock' \in [Rows -> Writers \cup {Nobody}] /\ runs' \in Nat /\ retried' \subseteq Rows
         /\ \A q \in Rows : objectLock[q] # Nobody => objectLock'[q] = objectLock[q]
    BY <1>3 DEF DataInv, RequestTypes, RowTypes
  <1> QED  BY <1>3, <1>6, <1>7, <1>11, <1>12, <1>13, PlainStep

\* The rows of requests that hold them
LEMMA RequestFacts ==
    ASSUME DataInv, NEW w \in Writers
    PROVE  /\ writer[w] \in Requests /\ (writer[w].at # "idle" => writer[w].row \in Rows)
           /\ CopyKept(w) /\ SchemaKept(w) /\ SeenKept(w) /\ CopyFiles(w)
           /\ Base(writer[w]) = (IF writer[w].op = "create" THEN NewRow ELSE objects[writer[w].row])
           /\ writer[w].at # "idle" => Base(writer[w]) \in Objects
           /\ writer[w].at # "saved" => writer[w].upload = 0
           /\ runs \in Nat /\ retried \subseteq Rows /\ objectLock \in [Rows -> Writers \cup {Nobody}]
  <1>1. NewRow \in Objects
    BY DEF NewRow, EmptyRow, Objects
  <1> QED  BY <1>1 DEF DataInv, RequestTypes, RowTypes, RequestKept, Base, CopyFiles

\* An expected revision that is met was seen with all the changes of the row.
LEMMA ValidateKeeps == ASSUME DataInv, NEW w \in Writers, Validate(w) PROVE DataInv'
  <1>1. PICK s \in Requests : s = writer[w]
    BY RequestFacts
  <1> DEFINE c == Validated(s)
             t == [s EXCEPT !.at = "valid", !.copy = c,
                            !.op = IF s.op = "rename" /\ s.name = s.copy.name THEN "same" ELSE s.op]
  <1>2. /\ s.at = "fetched" /\ s.row \in Rows /\ (s.expected # 0 => s.expected = s.copy.revision)
        /\ To(w, t)
        /\ UNCHANGED <<objects, schema, objectLock, stored, uploads, sources, runs, asked, outdated, retried, trespassed>>
    BY <1>1, RequestFacts DEF Validate
  <1>3. s.copy \in Objects /\ s.copy = Base(s) /\ s.op \in DataOps
    BY <1>1, <1>2, RequestFacts DEF CopyKept, Requests
  <1>4. /\ c \in Objects
        /\ c.live = s.copy.live /\ c.revision = s.copy.revision /\ c.files = s.copy.files
        /\ c.number = IF s.op = "increment" THEN s.copy.number + 1 ELSE s.copy.number
        /\ c.name = IF s.name # NoName THEN s.name ELSE s.copy.name
    <2>1. PICK number \in Nat : number = IF s.op = "increment" THEN s.copy.number + 1 ELSE s.copy.number
      BY <1>3 DEF Objects
    <2>2. PICK name \in Names \cup {NoName} : name = IF s.name # NoName THEN s.name ELSE s.copy.name
      BY <1>3 DEF Objects, Requests
    <2>3. PICK copy \in Objects : copy = s.copy
      BY <1>3
    <2>4. c = [copy EXCEPT !.number = number, !.name = name]
      BY <2>1, <2>2, <2>3 DEF Validated
    <2>5. /\ c \in Objects /\ c.number = number /\ c.name = name
          /\ c.live = copy.live /\ c.revision = copy.revision /\ c.files = copy.files
      BY <2>4 DEF Objects
    <2> QED  BY <2>1, <2>2, <2>3, <2>5
  <1> HIDE DEF c
  <1>5. t \in Requests
    BY <1>4 DEF Requests
  <1>6. PICK n \in Requests : n = t
    BY <1>5
  <1>7. /\ n.at = "valid" /\ n.row = s.row /\ n.name = s.name /\ n.schema = s.schema
        /\ n.expected = s.expected /\ n.seen = s.seen /\ n.upload = s.upload /\ n.copy = c
        /\ n.op = IF s.op = "rename" /\ s.name = s.copy.name THEN "same" ELSE s.op
    BY <1>6 DEF Requests
  <1>8. To(w, n)
    BY <1>2, <1>6
  <1>9. writer'[w] = n
    BY <1>8 DEF To, DataInv, RequestTypes
  <1> HIDE DEF t
  <1>10. n.op = "create" <=> s.op = "create"
    BY <1>7
  <1>11. Base(s)' = Base(s) /\ Base(n)' = Base(s) /\ Base(n) = Base(s)
    BY <1>2, <1>7, <1>10 DEF Base
  <1>12. CopyKept(w)'
    <2>1. objectLock[s.row] = w /\ objects[s.row].live = (IF s.op = "create" THEN "none" ELSE "live")
      BY <1>1, <1>2, RequestFacts DEF CopyKept, Held
    <2>2. Base(s).live = "live"
      BY <2>1 DEF Base, NewRow, EmptyRow
    <2>3. One(n) = 0
      BY <1>7 DEF One
    <2>4. Base(s).number \in Nat /\ Base(s).revision \in Nat
      BY <1>3 DEF Objects
    <2>5. n.op = "same" => s.name = Base(s).name
      BY <1>3, <1>7 DEF DataOps
    <2>6. n.op = "increment" <=> s.op = "increment"
      BY <1>7
    <2> QED  BY <1>2, <1>3, <1>4, <1>7, <1>9, <1>10, <1>11, <2>1, <2>2, <2>3, <2>4, <2>5, <2>6 DEF CopyKept, Held, Ready, One
  <1>13. SchemaKept(w)'
    BY <1>1, <1>2, <1>7, <1>9, RequestFacts DEF SchemaKept
  <1>14. SeenKept(w)'
    <2>1. SeenKept(w) /\ (s.expected # 0 => objects[s.row] = s.copy)
      <3>1. s.expected # 0 => s.op # "create"
        BY <1>1, RequestFacts DEF SeenKept
      <3> QED  BY <1>3, <3>1, RequestFacts DEF Base
    <2>2. s.expected # 0 => s.seen = asked[s.row].changes
      <3>1. s.expected # 0 => objects[s.row].live = "live"
        BY <1>1, <1>2, <2>1, RequestFacts DEF CopyKept, Held, SeenKept
      <3>2. s.expected # 0 => s.expected = objects[s.row].revision /\ s.expected \in Nat
        BY <1>2, <2>1 DEF Requests
      <3> QED  BY <1>1, <1>2, <2>1, <3>1, <3>2 DEF SeenKept
    <2> QED  BY <1>1, <1>2, <1>7, <1>9, <2>1, <2>2 DEF SeenKept, Ready
  <1>15. CopyFiles(w)'
    <2>1. n.copy.files = Base(s).files /\ n.upload = 0 /\ (Calm => n.schema.file = 1)
      BY <1>1, <1>2, <1>3, <1>4, <1>7, RequestFacts DEF CopyFiles
    <2> QED  BY <1>2, <1>7, <1>9, <1>11, <2>1 DEF CopyFiles, Ready, Calm
  <1>16. RequestKept(w)'
    BY <1>12, <1>13, <1>14, <1>15 DEF RequestKept
  <1>17. n.upload = 0 /\ writer[w].upload = 0
    BY <1>1, <1>2, <1>7, RequestFacts
  <1> QED  BY <1>2, <1>7, <1>8, <1>16, <1>17, RequestFacts, PlainStep

\* What dataobject_pre_save makes of a copy, field by field
LEMMA PresavedFields ==
    ASSUME NEW s \in Requests, uploads \in Nat
    PROVE  /\ Presaved(s) \in Objects
           /\ Presaved(s).live = s.copy.live /\ Presaved(s).number = s.copy.number
           /\ Presaved(s).revision = IF Changes(s) THEN s.copy.revision + 1 ELSE s.copy.revision
           /\ Presaved(s).name = IF s.op = "same" \/ s.schema.indexed = "yes" THEN s.copy.name ELSE NoName
           /\ s.op = "same" => Presaved(s).files = s.copy.files
           /\ s.op = "upload" => Presaved(s).files = {<<s.schema.file, uploads + 1>>}
           /\ s.op \notin {"same", "upload"} => Presaved(s).files = {f \in s.copy.files : f[1] = s.schema.file}
  <1>1. s.copy \in Objects /\ s.schema \in Schemas
    BY DEF Requests
  <1>2. CASE s.op = "same"
    BY <1>1, <1>2 DEF Presaved, Changes
  <1>3. CASE s.op # "same"
    <2>1. PICK fs : fs = {f \in s.copy.files : f[1] = s.schema.file /\ s.op # "upload"}
                    \cup (IF s.op = "upload" THEN {<<s.schema.file, uploads + 1>>} ELSE {})
      OBVIOUS
    <2>2. fs \in SUBSET (Nat \X Nat)
      <3>1. s.copy.files \subseteq Nat \X Nat /\ <<s.schema.file, uploads + 1>> \in Nat \X Nat
        BY <1>1 DEF Objects, Schemas
      <3> QED  BY <2>1, <3>1
    <2>3. Presaved(s) = [s.copy EXCEPT
              !.revision = IF Changes(s) THEN s.copy.revision + 1 ELSE s.copy.revision,
              !.name = IF s.schema.indexed = "yes" THEN s.copy.name ELSE NoName,
              !.files = fs]
      BY <1>3, <2>1 DEF Presaved
    <2>4. /\ Presaved(s) \in Objects
          /\ Presaved(s).live = s.copy.live /\ Presaved(s).number = s.copy.number
          /\ Presaved(s).revision = IF Changes(s) THEN s.copy.revision + 1 ELSE s.copy.revision
          /\ Presaved(s).name = IF s.schema.indexed = "yes" THEN s.copy.name ELSE NoName
          /\ Presaved(s).files = fs
      <3>1. PICK rev \in Nat : rev = IF Changes(s) THEN s.copy.revision + 1 ELSE s.copy.revision
        BY <1>1 DEF Objects
      <3>2. PICK name \in Names \cup {NoName} : name = IF s.schema.indexed = "yes" THEN s.copy.name ELSE NoName
        BY <1>1 DEF Objects
      <3>3. PICK copy \in Objects : copy = s.copy
        BY <1>1
      <3>4. Presaved(s) = [copy EXCEPT !.revision = rev, !.name = name, !.files = fs]
        BY <2>3, <3>1, <3>2, <3>3
      <3>5. PICK p : p = Presaved(s)
        OBVIOUS
      <3>6. /\ p \in Objects /\ p.revision = rev /\ p.name = name /\ p.files = fs
            /\ p.live = copy.live /\ p.number = copy.number
        BY <2>2, <3>4, <3>5 DEF Objects
      <3> QED  BY <3>1, <3>2, <3>3, <3>5, <3>6
    <2>5. /\ s.op = "upload" => fs = {<<s.schema.file, uploads + 1>>}
          /\ s.op # "upload" => fs = {f \in s.copy.files : f[1] = s.schema.file}
      BY <2>1
    <2> QED  BY <1>3, <2>4, <2>5
  <1> QED  BY <1>2, <1>3

\* While the file field has not been removed, pre_save keeps the files of the row.
LEMMA PresavedFiles ==
    ASSUME DataInv, NEW w \in Writers, writer[w].at = "valid", writer[w].op # "upload"
    PROVE  /\ Presaved(writer[w]).files \subseteq Base(writer[w]).files
           /\ Calm => Presaved(writer[w]).files = Base(writer[w]).files
  <1>1. PICK s \in Requests : s = writer[w]
    BY RequestFacts
  <1>2. /\ s.op # "same" => Presaved(s).files = {f \in s.copy.files : f[1] = s.schema.file}
        /\ s.op = "same" => Presaved(s).files = s.copy.files
    BY <1>1, PresavedFields DEF DataInv, RequestTypes
  <1>3. /\ s.copy.files \subseteq Base(s).files
        /\ Calm => s.copy.files = Base(s).files /\ s.schema.file = 1
    BY <1>1, RequestFacts DEF CopyFiles, Ready
  <1>4. Calm => \A f \in Base(s).files : f[1] = 1
    BY <1>1, RequestFacts DEF Base, NewRow, EmptyRow, DataInv, FilesKept
  <1> QED  BY <1>1, <1>2, <1>3, <1>4

\* What an object is saved with: its own new name, or the one it had.
LEMMA PresavedName ==
    ASSUME DataInv, NEW w \in Writers, writer[w].at = "valid"
    PROVE  LET s == writer[w]
           IN  /\ Presaved(s).name # NoName => Presaved(s).name = s.copy.name /\ schema.indexed = "yes"
               /\ s.op \in {"same", "upload"} => s.copy.name = Base(s).name
               /\ s.copy.name = IF s.name # NoName THEN s.name ELSE Base(s).name
  <1>1. PICK s \in Requests : s = writer[w]
    BY RequestFacts
  <1>2. Presaved(s).name = IF s.op = "same" \/ s.schema.indexed = "yes" THEN s.copy.name ELSE NoName
    BY PresavedFields DEF DataInv, RequestTypes
  <1>3. s.copy.name = (IF s.name # NoName THEN s.name ELSE Base(s).name) /\ (s.op = "same" => s.name = Base(s).name)
    BY <1>1, RequestFacts DEF CopyKept, Ready
  <1>4. Base(s).name # NoName => schema.indexed = "yes"
    BY <1>1, RequestFacts DEF Base, NewRow, EmptyRow, DataInv, RowKept
  <1>5. s.name # NoName => schema.indexed = "yes" /\ s.op # "upload"
    BY <1>1, RequestFacts DEF SchemaKept
  <1> QED  BY <1>1, <1>2, <1>3, <1>4, <1>5

\* Only a request with a new name collides: its revision has already grown.
LEMMA CollideKeeps == ASSUME DataInv, NEW w \in Writers, Collide(w) PROVE DataInv'
  <1>1. PICK s \in Requests : s = writer[w]
    BY RequestFacts
  <1>p. PICK p : p = Presaved(s)
    OBVIOUS
  <1> DEFINE t == [s EXCEPT !.at = "collided", !.tries = s.tries + 1, !.copy = p]
  <1>2. /\ s.at = "valid" /\ s.row \in Rows /\ s.op # "delete" /\ TakenBy(s.row, p.name, {"live", "dead"})
        /\ To(w, t)
        /\ UNCHANGED <<objects, schema, objectLock, stored, uploads, sources, runs, asked, outdated, retried, trespassed>>
    BY <1>1, <1>p, RequestFacts DEF Collide
  <1>3. /\ p \in Objects /\ p.live = s.copy.live /\ p.number = s.copy.number
        /\ p.revision = IF Changes(s) THEN s.copy.revision + 1 ELSE s.copy.revision
    BY <1>p, PresavedFields DEF DataInv, RequestTypes
  <1>4. p.name = s.copy.name /\ s.op \notin {"same", "upload"}
    <2>1. PICK q \in Rows \ {s.row} : p.name # NoName /\ objects[q].name = p.name
      BY <1>2 DEF TakenBy
    <2>2. p.name = s.copy.name
      BY <1>1, <1>2, <1>p, <2>1, PresavedName
    <2>3. s.op \in {"same", "upload"} => objects[s.row].name = objects[q].name
      BY <1>1, <1>2, <2>1, <2>2, PresavedName DEF Base
    <2>4. objects[s.row].name # objects[q].name
      BY <1>2, <2>1 DEF DataInv, NamesApart
    <2> QED  BY <2>2, <2>3, <2>4
  <1>5. p.files \subseteq Base(s).files /\ (Calm => p.files = Base(s).files)
    BY <1>1, <1>2, <1>p, <1>4, PresavedFiles
  <1>6. t \in Requests
    <2>1. s.tries + 1 \in Nat
      BY DEF Requests
    <2> QED  BY <1>3, <2>1 DEF Requests
  <1>7. PICK n \in Requests : n = t
    BY <1>6
  <1>8. /\ n.at = "collided" /\ n.row = s.row /\ n.name = s.name /\ n.schema = s.schema /\ n.op = s.op
        /\ n.expected = s.expected /\ n.seen = s.seen /\ n.upload = s.upload /\ n.copy = p
    BY <1>7 DEF Requests
  <1>9. To(w, n)
    BY <1>2, <1>7
  <1>10. writer'[w] = n
    BY <1>9 DEF To, DataInv, RequestTypes
  <1> HIDE DEF t
  <1>11. Base(n)' = Base(s)
    BY <1>2, <1>8 DEF Base
  <1>12. CopyKept(w)'
    <2>1. /\ objectLock[s.row] = w /\ objects[s.row].live = (IF s.op = "create" THEN "none" ELSE "live")
          /\ s.copy.live = "live" /\ s.copy.number = Base(s).number + (IF s.op = "increment" THEN 1 ELSE 0)
          /\ s.copy.revision >= Base(s).revision + One(s)
          /\ s.copy.name = (IF s.name # NoName THEN s.name ELSE Base(s).name)
      BY <1>1, <1>2, RequestFacts DEF CopyKept, Held, Ready
    <2>2. p.revision >= Base(s).revision /\ One(n) = 0
      <3>1. One(s) = 0 /\ One(n) = 0
        BY <1>2, <1>8 DEF One
      <3>2. s.copy.revision \in Nat /\ Base(s).revision \in Nat
        BY <1>1, <1>2, RequestFacts DEF Requests, Objects
      <3> QED  BY <1>3, <2>1, <3>1, <3>2
    <2>3. Base(s).revision + 0 = Base(s).revision
      BY <1>1, <1>2, RequestFacts DEF Requests, Objects
    <2>4. One(n)' = 0
      BY <1>8 DEF One
    <2> QED  BY <1>2, <1>3, <1>4, <1>8, <1>10, <1>11, <2>1, <2>2, <2>3, <2>4 DEF CopyKept, Held, Ready
  <1>13. SchemaKept(w)'
    BY <1>1, <1>2, <1>8, <1>10, RequestFacts DEF SchemaKept
  <1>14. SeenKept(w)'
    BY <1>1, <1>2, <1>8, <1>10, RequestFacts DEF SeenKept, Ready
  <1>15. n.upload = 0 /\ writer[w].upload = 0
    BY <1>1, <1>2, <1>8, RequestFacts
  <1>16. CopyFiles(w)'
    <2>1. Calm => n.schema.file = 1
      BY <1>1, <1>2, <1>8, RequestFacts DEF CopyFiles
    <2> QED  BY <1>2, <1>5, <1>8, <1>10, <1>11, <1>15, <2>1 DEF CopyFiles, Ready, Calm
  <1>17. RequestKept(w)'
    BY <1>12, <1>13, <1>14, <1>16 DEF RequestKept
  <1> QED  BY <1>2, <1>8, <1>9, <1>15, <1>17, RequestFacts, PlainStep

\* It is tried again with the revision that has grown.
LEMMA RevalidateKeeps == ASSUME DataInv, NEW w \in Writers, Revalidate(w) PROVE DataInv'
  <1>1. PICK s \in Requests : s = writer[w]
    BY RequestFacts
  <1> DEFINE t == [s EXCEPT !.at = "valid"]
  <1>2. /\ s.at = "collided" /\ s.row \in Rows /\ To(w, t) /\ retried' = retried \cup {s.row}
        /\ UNCHANGED <<objects, schema, objectLock, stored, uploads, sources, runs, asked, outdated, trespassed>>
    BY <1>1, RequestFacts DEF Revalidate
  <1>3. t \in Requests
    BY DEF Requests
  <1>4. PICK n \in Requests : n = t
    BY <1>3
  <1>5. /\ n.at = "valid" /\ n.row = s.row /\ n.name = s.name /\ n.schema = s.schema /\ n.op = s.op
        /\ n.expected = s.expected /\ n.seen = s.seen /\ n.upload = s.upload /\ n.copy = s.copy
    BY <1>4 DEF Requests
  <1>6. To(w, n)
    BY <1>2, <1>4
  <1>7. writer'[w] = n
    BY <1>6 DEF To, DataInv, RequestTypes
  <1> HIDE DEF t
  <1>8. Base(n)' = Base(s) /\ One(s) = 0 /\ One(n)' = 0
    BY <1>2, <1>5 DEF Base, One
  <1>9. CopyKept(w)'
    BY <1>1, <1>2, <1>5, <1>7, <1>8, RequestFacts DEF CopyKept, Held, Ready
  <1>10. SchemaKept(w)' /\ SeenKept(w)'
    BY <1>1, <1>2, <1>5, <1>7, RequestFacts DEF SchemaKept, SeenKept, Ready
  <1>11. n.upload = 0 /\ writer[w].upload = 0
    BY <1>1, <1>2, <1>5, RequestFacts
  <1>12. CopyFiles(w)'
    BY <1>1, <1>2, <1>5, <1>7, <1>8, <1>11, RequestFacts DEF CopyFiles, Ready, Calm
  <1>13. RequestKept(w)'
    BY <1>9, <1>10, <1>12 DEF RequestKept
  <1>14. retried' \subseteq Rows
    BY <1>2, RequestFacts
  <1> QED  BY <1>2, <1>5, <1>6, <1>11, <1>13, <1>14, RequestFacts, PlainStep

\* The object that is saved has a name that no other row has or is about to have.
LEMMA SavedNameIsNew ==
    ASSUME DataInv, NEW w \in Writers, SaveObject(w), NEW p, p = Presaved(writer[w]), p.name # NoName
    PROVE  /\ \A r \in Rows : r # writer[w].row => objects[r].name # p.name
           /\ \A v \in Writers : v # w /\ writer[v].at = "saved" => writer[v].copy.name # p.name
  <1>1. PICK s \in Requests : s = writer[w]
    BY RequestFacts
  <1>2. s.at = "valid" /\ s.row \in Rows /\ s.op # "delete"
    BY <1>1, RequestFacts DEF SaveObject
  <1>3. p.name = s.copy.name /\ schema.indexed = "yes"
    BY <1>1, <1>2, PresavedName
  <1>4. ASSUME NEW r \in Rows, r # s.row, objects[r].name = p.name PROVE FALSE
    <2>1. objects[r].live \notin {"live", "dead"}
      BY <1>1, <1>3, <1>4 DEF SaveObject, TakenBy
    <2>2. objects[r].live \in {"none", "gone"}
      BY <2>1 DEF DataInv, RowTypes, Objects
    <2>3. objects[r].name = NoName
      BY <2>2 DEF DataInv, RowKept, EmptyRow
    <2> QED  BY <1>4, <2>3
  <1>5. ASSUME NEW v \in Writers, v # w, writer[v].at = "saved", writer[v].copy.name = p.name PROVE FALSE
    <2>1. objectLock[writer[v].row] = v /\ objectLock[s.row] = w /\ writer[v].op # "delete"
      BY <1>1, <1>2, <1>5, RequestFacts DEF CopyKept, Held
    <2> QED  BY <1>1, <1>3, <1>5, <2>1 DEF SaveObject, NameIsPending
  <1> QED  BY <1>1, <1>4, <1>5

\* The copy is saved: with a name nobody has, and its file in the storage.
LEMMA SaveObjectKeeps == ASSUME DataInv, NEW w \in Writers, SaveObject(w) PROVE DataInv'
  <1>1. PICK s \in Requests : s = writer[w]
    BY RequestFacts
  <1>p. PICK p : p = Presaved(s)
    OBVIOUS
  <1>u. uploads \in Nat
    BY DEF DataInv, RequestTypes
  <1>v. PICK u \in Nat : u = IF s.op = "upload" THEN uploads + 1 ELSE 0
    BY <1>u
  <1> DEFINE t == [s EXCEPT !.at = "saved", !.copy = p, !.upload = u]
  <1>2. /\ s.at = "valid" /\ s.row \in Rows /\ s.op # "delete" /\ To(w, t)
        /\ uploads' = (IF u # 0 THEN uploads + 1 ELSE uploads)
        /\ stored' = (IF u # 0 THEN stored \cup {u} ELSE stored)
        /\ UNCHANGED <<objects, schema, objectLock, sources, runs, asked, outdated, retried, trespassed>>
    <2>1. u # 0 <=> s.op = "upload"
      BY <1>u, <1>v
    <2>2. /\ s.at = "valid" /\ s.op # "delete"
          /\ To(w, [s EXCEPT !.at = "saved", !.copy = p, !.upload = u])
          /\ UNCHANGED <<objects, schema, objectLock, sources, runs, asked, outdated, retried, trespassed>>
      BY <1>1, <1>p, <1>v DEF SaveObject
    <2>3. /\ uploads' = (IF u # 0 THEN uploads + 1 ELSE uploads)
          /\ stored' = (IF u # 0 THEN stored \cup {u} ELSE stored)
      BY <1>1, <1>v, <2>1 DEF SaveObject
    <2> QED  BY <1>1, <2>2, <2>3, RequestFacts
  <1>3. /\ p \in Objects /\ p.live = s.copy.live /\ p.number = s.copy.number
        /\ p.revision = (IF Changes(s) THEN s.copy.revision + 1 ELSE s.copy.revision)
        /\ p.name = IF s.op = "same" \/ s.schema.indexed = "yes" THEN s.copy.name ELSE NoName
        /\ s.op = "upload" => p.files = {<<s.schema.file, u>>}
    BY <1>p, <1>u, <1>v, PresavedFields
  <1>4. s.op # "upload" => p.files \subseteq Base(s).files /\ (Calm => p.files = Base(s).files)
    BY <1>1, <1>2, <1>p, PresavedFiles
  <1>5. t \in Requests
    BY <1>3 DEF Requests
  <1>6. PICK n \in Requests : n = t
    BY <1>5
  <1>7. /\ n.at = "saved" /\ n.row = s.row /\ n.name = s.name /\ n.schema = s.schema /\ n.op = s.op
        /\ n.expected = s.expected /\ n.seen = s.seen /\ n.upload = u /\ n.copy = p
    BY <1>6 DEF Requests
  <1>8. To(w, n)
    BY <1>2, <1>6
  <1>9. writer'[w] = n /\ \A v \in Writers : v # w => writer'[v] = writer[v]
    BY <1>8 DEF To, DataInv, RequestTypes
  <1> HIDE DEF t
  <1>10. Base(n)' = Base(s)
    BY <1>2, <1>7 DEF Base
  <1>11. CopyKept(w)'
    <2>1. /\ objectLock[s.row] = w /\ objects[s.row].live = (IF s.op = "create" THEN "none" ELSE "live")
          /\ s.copy.live = "live" /\ s.copy.number = Base(s).number + (IF s.op = "increment" THEN 1 ELSE 0)
          /\ s.copy.revision >= Base(s).revision + One(s)
          /\ s.op = "same" => s.copy.revision = Base(s).revision /\ s.name = Base(s).name
          /\ s.row \notin retried => s.copy.revision = Base(s).revision + One(s)
          /\ s.copy.name = (IF s.name # NoName THEN s.name ELSE Base(s).name)
      BY <1>1, <1>2, RequestFacts DEF CopyKept, Held, Ready
    <2>2. /\ p.revision >= Base(s).revision + One(n)
          /\ s.op = "same" => p.revision = Base(s).revision
          /\ s.row \notin retried => p.revision = Base(s).revision + One(n)
      <3>1. One(s) = 0 /\ One(n) = IF Changes(s) THEN 1 ELSE 0
        BY <1>2, <1>7 DEF One, Changes
      <3>2. s.copy.revision \in Nat /\ Base(s).revision \in Nat
        BY <1>1, <1>2, RequestFacts DEF Requests, Objects
      <3>3. s.op = "same" => ~Changes(s)
        BY DEF Changes
      <3> QED  BY <1>3, <2>1, <3>1, <3>2, <3>3
    <2>3. One(n)' = One(n)
      BY DEF One, Changes
    <2>4. p.name = IF s.op # "same" /\ s.schema.indexed = "no" THEN NoName
                   ELSE IF s.name # NoName THEN s.name ELSE Base(s).name
      <3>1. s.schema.indexed \in {"no", "yes"}
        BY DEF Requests, Schemas
      <3> QED  BY <1>3, <2>1, <3>1
    <2> QED  BY <1>2, <1>3, <1>7, <1>9, <1>10, <2>1, <2>2, <2>3, <2>4 DEF CopyKept, Held, Ready
  <1>12. SchemaKept(w)' /\ SeenKept(w)'
    BY <1>1, <1>2, <1>7, <1>9, RequestFacts DEF SchemaKept, SeenKept, Ready
  <1>13. CopyFiles(w)'
    <2>1. Calm => s.schema.file = 1
      BY <1>1, <1>2, RequestFacts DEF CopyFiles
    <2>2. u # 0 <=> s.op = "upload"
      BY <1>u, <1>v
    <2> QED  BY <1>2, <1>3, <1>4, <1>7, <1>9, <1>10, <2>1, <2>2 DEF CopyFiles, Ready, Calm
  <1>14. Typed' /\ AllKept'
    <2>1. RequestKept(w)'
      BY <1>11, <1>12, <1>13 DEF RequestKept
    <2>2. stored' \subseteq Nat /\ uploads' \in Nat
      BY <1>2, <1>u DEF DataInv, RequestTypes
    <2> QED  BY <1>2, <1>7, <1>8, <2>1, <2>2, RequestFacts, QuietStep
  <1>15. NamesApart'
    <2>1. p.name # NoName =>
            /\ \A r \in Rows : r # s.row => objects[r].name # p.name
            /\ \A v \in Writers : v # w /\ writer[v].at = "saved" => writer[v].copy.name # p.name
      BY <1>1, <1>p, SavedNameIsNew
    <2> QED  BY <1>2, <1>7, <1>9, <2>1 DEF DataInv, NamesApart
  <1>16. RowFiles'
    <2>1. stored' \subseteq 1..uploads' /\ stored \subseteq stored'
      BY <1>2, <1>u, <1>v DEF DataInv, RowFiles
    <2> QED  BY <1>2, <2>1 DEF DataInv, RowFiles
  <1>17. FlyingFiles'
    <2>1. u # 0 => u \notin stored
      BY <1>u, <1>v DEF DataInv, RowFiles
    <2>2. u # 0 => \A r \in Rows : \A f \in objects[r].files : f[2] # u
      BY <2>1 DEF DataInv, RowFiles
    <2>3. \A v \in Writers : writer[v].upload # 0 => writer[v].upload \in stored
      BY DEF DataInv, FlyingFiles
    <2>4. u # 0 => \A v \in Writers : writer[v].upload # u
      BY <2>1, <2>3
    <2> QED  BY <1>2, <1>7, <1>9, <2>2, <2>4 DEF DataInv, FlyingFiles
  <1>18. FilesKept'
    <2>1. \A f \in stored, v \in Writers : writer[v].upload = f => writer'[v].upload = f
      <3>1. 0 \notin stored /\ writer[w].upload = 0
        BY <1>1, <1>2, <1>u, RequestFacts DEF DataInv, RowFiles
      <3> QED  BY <1>9, <3>1
    <2>2. Calm' = Calm
      BY <1>2 DEF Calm
    <2>3. ASSUME Calm, NEW f \in stored'
          PROVE  (\E v \in Writers : writer'[v].upload = f) \/ \E r \in Rows : \E g \in objects[r].files : g[2] = f
      <3>1. CASE f \in stored
        BY <2>1, <2>3, <3>1 DEF DataInv, FilesKept
      <3>2. CASE f \notin stored
        BY <1>2, <1>7, <1>9, <2>3, <3>2
      <3> QED  BY <3>1, <3>2
    <2> QED  BY <1>2, <2>2, <2>3 DEF DataInv, FilesKept
  <1> QED  BY <1>14, <1>15, <1>16, <1>17, <1>18 DEF DataInv, Typed, AllKept

-----------------------------------------------------------------------------
(* Steps that end a request, and steps of rows *)

\* A step changes row r, which no other request holds; what it makes of it lets
\* an expected revision stay expected only if the row is the same.
LEMMA OthersFreed ==
    ASSUME DataInv, NEW v \in Writers, writer'[v] = writer[v], NEW r \in Rows,
           \A q \in Rows : q # r => objects'[q] = objects[q] /\ asked'[q] = asked[q],
           objects' \in [Rows -> Objects],
           Held(writer[v]) => writer[v].row # r,
           \A q \in Rows : objectLock[q] = v => objectLock'[q] = v,
           schema' = schema, sources' = sources, retried' = retried,
           objects[r].live # "none" => objects'[r].live # "none",
           objects[r].live # "none" /\ objects'[r].live = "live" =>
               /\ objects[r].live = "live"
               /\ \/ objects[r].revision < objects'[r].revision
                  \/ objects[r].revision = objects'[r].revision /\ asked'[r].changes = asked[r].changes
    PROVE  RequestKept(v)'
  <1>1. PICK s \in Requests : s = writer[v]
    BY RequestFacts
  <1>2. Held(s) => s.row \in Rows /\ objects'[s.row] = objects[s.row] /\ asked'[s.row] = asked[s.row]
    BY <1>1, RequestFacts DEF Held
  <1>3. Held(s) => Base(s)' = Base(s)
    BY <1>2 DEF Base
  <1>4. Ready(s) => Held(s)
    BY DEF Held, Ready
  <1>5. CopyKept(v)'
    <2>1. Held(s) => objectLock'[s.row] = v
      BY <1>1, <1>2, RequestFacts DEF CopyKept
    <2>2. One(s)' = One(s)
      BY DEF One, Changes
    <2>3. s.at = "fetched" => Held(s)
      BY DEF Held
    <2> QED  BY <1>1, <1>2, <1>3, <1>4, <2>1, <2>2, <2>3, RequestFacts DEF CopyKept, Held, Ready
  <1>6. SchemaKept(v)'
    BY <1>1, RequestFacts DEF SchemaKept
  <1>7. SeenKept(v)'
    <2>1. CASE Held(s)
      BY <1>1, <1>2, <2>1, RequestFacts DEF SeenKept, Ready, Held
    <2>2. CASE s.at = "arrived"
      <3>1. CASE s.row # r
        BY <1>1, <2>2, <3>1, RequestFacts DEF SeenKept, Ready
      <3>2. CASE s.row = r
        <4>1. s.expected \in Nat /\ objects[r].revision \in Nat /\ objects'[r].revision \in Nat
          BY DEF Requests, DataInv, RowTypes, Objects
        <4> QED  BY <1>1, <2>2, <3>2, <4>1, RequestFacts DEF SeenKept, Ready
      <3> QED  BY <3>1, <3>2
    <2>3. CASE s.at = "idle"
      <3>1. s.expected = 0
        BY <1>1, <2>3 DEF DataInv, RequestTypes
      <3> QED  BY <1>1, <3>1 DEF SeenKept
    <2> QED  BY <2>1, <2>2, <2>3 DEF Requests, Held
  <1>8. CopyFiles(v)'
    BY <1>1, <1>2, <1>3, <1>4, RequestFacts DEF CopyFiles, Ready, Calm
  <1> QED  BY <1>5, <1>6, <1>7, <1>8 DEF RequestKept

\* A request that is over claims nothing.
LEMMA WaitingKept ==
    ASSUME NEW w \in Writers, writer'[w] = Waiting
    PROVE  RequestKept(w)' /\ Waiting \in Requests
  <1>1. /\ Waiting.at = "idle" /\ Waiting.name = NoName /\ Waiting.schema.indexed = "no"
        /\ Waiting.expected = 0 /\ Waiting.upload = 0
    BY DEF Waiting
  <1>2. Waiting \in Requests
    BY DEF Waiting, EmptyRow, Requests, Objects, Schemas
  <1> QED  BY <1>1, <1>2 DEF RequestKept, CopyKept, SchemaKept, SeenKept, CopyFiles, Held, Ready

\* A request that ends gives up the rows that it holds, and no others.
LEMMA Freed ==
    ASSUME DataInv, NEW w \in Writers, Unlocked(w), To(w, Waiting)
    PROVE  /\ objectLock' \in [Rows -> Writers \cup {Nobody}]
           /\ \A v \in Writers : v # w => writer'[v] = writer[v] /\ \A q \in Rows : objectLock[q] = v => objectLock'[q] = v
           /\ writer' \in [Writers -> Requests] /\ writer'[w] = Waiting
           /\ \A v \in Writers : writer'[v].at # "idle" => writer'[v].row \in Rows
           /\ RequestKept(w)'
  <1>1. writer' = [writer EXCEPT ![w] = Waiting] /\ writer \in [Writers -> Requests]
    BY DEF To, DataInv, RequestTypes
  <1>2. Waiting \in Requests /\ Waiting.at = "idle" /\ writer'[w] = Waiting /\ RequestKept(w)'
    BY <1>1, WaitingKept DEF Waiting
  <1>3. objectLock \in [Rows -> Writers \cup {Nobody}] /\ \A v \in Writers : writer[v].at # "idle" => writer[v].row \in Rows
    BY DEF DataInv, RequestTypes
  <1> QED  BY <1>1, <1>2, <1>3 DEF Unlocked

\* The files that a commit deletes from the storage
Superseded(s) == {f[2] : f \in {g \in objects[s.row].files : g[1] = s.schema.file}}

\* What is committed: the row as it was, with what was asked for.
CommittedRow(w, s, r) ==
    /\ writer[w] = s /\ s \in Requests /\ s.at = "saved" /\ r = s.row /\ r \in Rows
    /\ objects' = [objects EXCEPT ![r] = s.copy]
    /\ asked'[r].number = IF s.op = "increment" THEN asked[r].number + 1 ELSE asked[r].number
    /\ asked'[r].name = IF s.name # NoName THEN s.name ELSE asked[r].name
    /\ asked'[r].changes = IF Changes(s) THEN asked[r].changes + 1 ELSE asked[r].changes
    /\ \A q \in Rows : q # r => asked'[q] = asked[q]
    /\ asked' \in [Rows -> [number : Nat, name : Names \cup {NoName}, changes : Nat]]
    /\ outdated' = IF Changes(s) /\ s.schema # schema THEN outdated \cup {r} ELSE outdated
    /\ stored' = IF s.op = "upload" THEN stored \ Superseded(s) ELSE stored
    /\ UNCHANGED <<schema, uploads, sources, runs, retried>>

\* CommitSave is what CommittedRow says; expected_revision was met by an object
\* that nobody had changed.
LEMMA CommitSaveIs ==
    ASSUME DataInv, NEW w \in Writers, CommitSave(w)
    PROVE  CommittedRow(w, writer[w], writer[w].row) /\ trespassed' = "no" /\ To(w, Waiting) /\ Unlocked(w)
  <1>1. PICK s \in Requests : s = writer[w]
    BY RequestFacts
  <1>2. PICK r : r = s.row
    OBVIOUS
  <1>3. s.at = "saved" /\ r \in Rows
    BY <1>1, <1>2, RequestFacts DEF CommitSave
  <1>4. asked \in [Rows -> [number : Nat, name : Names \cup {NoName}, changes : Nat]]
    BY DEF DataInv, RowTypes
  <1>5. PICK a : a = [number |-> IF s.op = "increment" THEN asked[r].number + 1 ELSE asked[r].number,
                      name |-> IF s.name # NoName THEN s.name ELSE asked[r].name,
                      changes |-> IF Changes(s) THEN asked[r].changes + 1 ELSE asked[r].changes]
    OBVIOUS
  <1>6. asked' = [asked EXCEPT ![r] = a]
    BY <1>1, <1>2, <1>5 DEF CommitSave
  <1>7. a \in [number : Nat, name : Names \cup {NoName}, changes : Nat]
    BY <1>3, <1>4, <1>5 DEF Requests
  <1>8. trespassed' = "no"
    BY <1>1, <1>2, <1>3, RequestFacts DEF CommitSave, SeenKept, Ready, DataInv
  <1>9. /\ UNCHANGED <<schema, uploads, sources, runs, retried>> /\ To(w, Waiting) /\ Unlocked(w)
        /\ objects' = [objects EXCEPT ![r] = s.copy]
        /\ outdated' = IF Changes(s) /\ s.schema # schema THEN outdated \cup {r} ELSE outdated
        /\ stored' = IF s.op = "upload" THEN stored \ Superseded(s) ELSE stored
    BY <1>1, <1>2 DEF CommitSave, Superseded
  <1>10. asked'[r] = a /\ \A q \in Rows : q # r => asked'[q] = asked[q]
    BY <1>3, <1>4, <1>6
  <1>11. asked' \in [Rows -> [number : Nat, name : Names \cup {NoName}, changes : Nat]]
    BY <1>4, <1>6, <1>7
  <1> QED  BY <1>1, <1>2, <1>3, <1>5, <1>8, <1>9, <1>10, <1>11 DEF CommittedRow

\* The row that is committed keeps to what was asked of it.
LEMMA CommitKeepsRow ==
    ASSUME DataInv, NEW w \in Writers, NEW s, NEW r, CommittedRow(w, s, r)
    PROVE  /\ RowKept(r)' /\ objects'[r] = s.copy /\ s.copy \in Objects /\ s.copy.live = "live"
           /\ objects[r].live # "none" =>
                /\ objects[r].live = "live"
                /\ \/ objects[r].revision < s.copy.revision
                   \/ objects[r].revision = s.copy.revision /\ asked'[r].changes = asked[r].changes
  <1>1. /\ s \in Requests /\ s.copy \in Objects /\ objects'[r] = s.copy /\ r \in Rows
        /\ objects[r] \in Objects /\ asked[r].changes \in Nat /\ asked[r].number \in Nat
    BY DEF CommittedRow, DataInv, RowTypes, Requests
  <1>2. /\ CopyKept(w) /\ SchemaKept(w) /\ s = writer[w] /\ RowKept(r)
    BY <1>1, RequestFacts DEF CommittedRow, DataInv
  <1>3. /\ s.copy.live = "live"
        /\ objects[r].live = (IF s.op = "create" THEN "none" ELSE "live")
        /\ s.copy.number = Base(s).number + (IF s.op = "increment" THEN 1 ELSE 0)
        /\ s.copy.revision >= Base(s).revision + One(s)
        /\ s.op = "same" => s.copy.revision = Base(s).revision /\ s.name = Base(s).name
        /\ r \notin retried => s.copy.revision = Base(s).revision + One(s)
        /\ IF s.op # "same" /\ s.schema.indexed = "no" THEN s.copy.name = NoName
           ELSE s.copy.name = (IF s.name # NoName THEN s.name ELSE Base(s).name)
        /\ One(s) = IF Changes(s) THEN 1 ELSE 0
    BY <1>2 DEF CopyKept, Held, Ready, One, CommittedRow
  <1>4. CASE s.op = "create"
    <2>1. /\ Base(s).revision = 1 /\ Base(s).number = 0 /\ Base(s).name = NoName /\ ~Changes(s)
          /\ asked[r] = NothingAsked
      BY <1>2, <1>3, <1>4 DEF Base, NewRow, EmptyRow, Changes, RowKept
    <2>2. asked[r].number = 0 /\ asked[r].name = NoName /\ asked[r].changes = 0
      BY <2>1 DEF NothingAsked
    <2>3. asked'[r].number = 0 /\ asked'[r].changes = 0 /\ asked'[r].name = s.name
      BY <1>4, <2>1, <2>2 DEF CommittedRow
    <2>4. /\ s.copy.number = 0 /\ s.copy.name = s.name /\ (r \notin retried => s.copy.revision = 1)
          /\ s.name # NoName => schema.indexed = "yes"
      BY <1>2, <1>3, <1>4, <2>1 DEF SchemaKept, Requests, Schemas
    <2>5. RowKept(r)'
      BY <1>1, <1>3, <2>3, <2>4 DEF RowKept, CommittedRow
    <2> QED  BY <1>1, <1>3, <1>4, <2>5
  <1>5. CASE s.op # "create"
    <2>1. Base(s) = objects[r] /\ objects[r].live = "live"
      BY <1>3, <1>5 DEF Base, CommittedRow
    <2>2. /\ objects[r].number = asked[r].number
          /\ r \notin outdated => objects[r].name = asked[r].name
          /\ r \notin retried => objects[r].revision = 1 + asked[r].changes
          /\ asked[r].name # NoName => schema.indexed = "yes"
          /\ objects[r].name # NoName => schema.indexed = "yes"
      BY <1>2, <2>1 DEF RowKept
    <2>3. objects[r].revision \in Nat /\ objects[r].number \in Nat /\ s.copy.revision \in Nat
      BY <1>1 DEF Objects
    <2>4. s.copy.number = asked'[r].number
      BY <1>1, <1>3, <2>1, <2>2 DEF CommittedRow
    <2>5. r \notin retried => s.copy.revision = 1 + asked'[r].changes
      BY <1>1, <1>3, <2>1, <2>2, <2>3 DEF CommittedRow
    <2>6. s.name # NoName => s.schema.indexed = "yes" /\ schema.indexed = "yes"
      BY <1>2 DEF SchemaKept
    <2>7. r \notin outdated' => s.copy.name = asked'[r].name
      <3>1. r \notin outdated' => r \notin outdated /\ (Changes(s) => s.schema = schema)
        BY DEF CommittedRow
      <3>2. s.op # "same" => Changes(s)
        BY <1>5 DEF Changes
      <3>3. asked'[r].name = IF s.name # NoName THEN s.name ELSE asked[r].name
        BY DEF CommittedRow
      <3> QED  BY <1>3, <2>1, <2>2, <2>6, <3>1, <3>2, <3>3
    <2>8. /\ s.copy.name # NoName => schema.indexed = "yes"
          /\ asked'[r].name # NoName => schema.indexed = "yes"
      BY <1>3, <2>1, <2>2, <2>6 DEF CommittedRow
    <2>9. RowKept(r)'
      <3>1. UNCHANGED <<schema, retried>>
        BY DEF CommittedRow
      <3> QED  BY <1>1, <1>3, <2>4, <2>5, <2>7, <2>8, <3>1 DEF RowKept
    <2>10. \/ objects[r].revision < s.copy.revision
           \/ objects[r].revision = s.copy.revision /\ asked'[r].changes = asked[r].changes
      <3>1. CASE Changes(s)
        <4>1. s.copy.revision >= objects[r].revision + 1
          BY <1>3, <2>1, <3>1
        <4> QED  BY <2>3, <4>1
      <3>2. CASE ~Changes(s)
        <4>1. s.op = "same"
          BY <1>5, <3>2 DEF Changes
        <4> QED  BY <1>3, <2>1, <3>2, <4>1 DEF CommittedRow
      <3> QED  BY <3>1, <3>2
    <2> QED  BY <1>1, <1>3, <2>1, <2>9, <2>10
  <1> QED  BY <1>4, <1>5

\* The row, its name and its file become what the request had prepared.
LEMMA CommitSaveKeeps == ASSUME DataInv, NEW w \in Writers, CommitSave(w) PROVE DataInv'
  <1>1. PICK s : s = writer[w]
    OBVIOUS
  <1>2. PICK r : r = s.row
    OBVIOUS
  <1>3. CommittedRow(w, s, r) /\ trespassed' = "no" /\ To(w, Waiting) /\ Unlocked(w)
    BY <1>1, <1>2, CommitSaveIs
  <1>4. /\ s \in Requests /\ s.at = "saved" /\ r \in Rows /\ objects' = [objects EXCEPT ![r] = s.copy]
        /\ objects \in [Rows -> Objects] /\ outdated \subseteq Rows
        /\ \A q \in Rows : q # r => asked'[q] = asked[q]
        /\ UNCHANGED <<schema, uploads, sources, runs, retried>>
    BY <1>3 DEF CommittedRow, DataInv, RowTypes
  <1>5. /\ RowKept(r)' /\ objects'[r] = s.copy /\ s.copy \in Objects /\ s.copy.live = "live"
        /\ objects[r].live # "none" =>
             /\ objects[r].live = "live"
             /\ \/ objects[r].revision < s.copy.revision
                \/ objects[r].revision = s.copy.revision /\ asked'[r].changes = asked[r].changes
    BY <1>3, CommitKeepsRow
  <1>6. /\ objects' \in [Rows -> Objects] /\ \A q \in Rows : q # r => objects'[q] = objects[q]
    BY <1>4, <1>5
  <1>7. RowTypes' /\ RequestTypes' /\ trespassed' = "no"
    <2>1. RowTypes'
      BY <1>3, <1>4, <1>6 DEF CommittedRow, DataInv, RowTypes
    <2>2. stored' \subseteq Nat /\ runs' \in Nat /\ uploads' \in Nat /\ sources' \in Nat \ {0}
      BY <1>3 DEF CommittedRow, DataInv, RequestTypes
    <2>3. /\ writer' \in [Writers -> Requests] /\ objectLock' \in [Rows -> Writers \cup {Nobody}]
          /\ \A v \in Writers : IF writer'[v].at = "idle" THEN writer'[v].expected = 0 ELSE writer'[v].row \in Rows
      BY <1>3, Freed DEF DataInv, RequestTypes, Waiting
    <2> QED  BY <1>3, <2>1, <2>2, <2>3 DEF RequestTypes
  <1>8. \A q \in Rows : RowKept(q)'
    <2>1. ASSUME NEW q \in Rows, q # r PROVE RowKept(q)'
      <3>1. RowKept(q) /\ (q \in outdated' <=> q \in outdated) /\ objects'[q] = objects[q]
        BY <1>3, <1>6, <2>1 DEF CommittedRow, DataInv
      <3> QED  BY <1>4, <2>1, <3>1 DEF RowKept
    <2> QED  BY <1>5, <2>1
  <1>9. \A v \in Writers : v # w => /\ writer'[v] = writer[v] /\ (Held(writer[v]) => writer[v].row # r)
                                    /\ \A q \in Rows : objectLock[q] = v => objectLock'[q] = v
    <2>1. objectLock[r] = w
      BY <1>1, <1>2, <1>4, RequestFacts DEF CopyKept, Held
    <2>2. \A v \in Writers : Held(writer[v]) => objectLock[writer[v].row] = v
      BY RequestFacts DEF CopyKept
    <2> QED  BY <1>3, <2>1, <2>2, Freed
  <1>10. \A v \in Writers : RequestKept(v)'
    <2>1. RequestKept(w)'
      BY <1>3, Freed
    <2>2. ASSUME NEW v \in Writers, v # w PROVE RequestKept(v)'
      BY <1>4, <1>5, <1>6, <1>9, <2>2, OthersFreed
    <2> QED  BY <2>1, <2>2
  <1>11. writer'[w] = Waiting /\ Waiting.at = "idle" /\ Waiting.upload = 0
    BY <1>3, Freed DEF Waiting
  <1>12. NamesApart'
    <2>1. \A q \in Rows : q # r /\ s.copy.name # NoName => objects[q].name # s.copy.name
      BY <1>1, <1>2, <1>4 DEF DataInv, NamesApart
    <2>2. \A v \in Writers : v # w /\ writer[v].at = "saved" /\ writer[v].copy.name # NoName =>
            writer[v].copy.name # s.copy.name
      BY <1>1, <1>4 DEF DataInv, NamesApart
    <2> QED  BY <1>5, <1>6, <1>9, <1>11, <2>1, <2>2 DEF DataInv, NamesApart
  <1>13. IF s.op = "upload"
         THEN s.upload \in stored /\ s.upload # 0 /\ s.copy.files = {<<s.schema.file, s.upload>>}
         ELSE s.copy.files \subseteq objects[r].files /\ (Calm => s.copy.files = objects[r].files) /\ s.upload = 0
    <2>1. CopyFiles(w) /\ CopyKept(w) /\ Ready(s) /\ Held(s)
      BY <1>4, RequestFacts DEF Ready, Held
    <2>2. CASE s.op = "upload"
      BY <1>1, <1>4, <2>1, <2>2 DEF CopyFiles, DataInv, FlyingFiles
    <2>3. CASE s.op # "upload"
      <3>1. s.op = "create" => objects[r] = EmptyRow
        BY <1>1, <1>2, <1>4, <2>1 DEF CopyKept, DataInv, RowKept
      <3>2. Base(s).files = objects[r].files
        BY <1>2, <3>1 DEF Base, NewRow, EmptyRow
      <3> QED  BY <1>1, <1>4, <2>1, <2>3, <3>2 DEF CopyFiles
    <2> QED  BY <2>2, <2>3
  <1>14. PICK lost : lost = IF s.op = "upload" THEN Superseded(s) ELSE {}
    OBVIOUS
  <1>15. /\ stored' = stored \ lost
         /\ \A f \in lost : \E g \in objects[r].files : g[2] = f
         /\ s.op = "upload" => \A g \in objects[r].files : g[1] = s.schema.file => g[2] \in lost
    BY <1>2, <1>3, <1>14 DEF CommittedRow, Superseded
  <1>16. RowFiles'
    <2>1. \A q \in Rows : q # r => \A f \in objects[q].files : f[2] \in stored /\ f[2] \notin lost
      BY <1>4, <1>15 DEF DataInv, RowFiles
    <2>2. \A f \in s.copy.files : f[2] \in stored' /\ \A q \in Rows : q # r => \A g \in objects[q].files : f[2] # g[2]
      <3>1. CASE s.op = "upload"
        <4>1. s.upload \notin lost /\ \A q \in Rows : \A g \in objects[q].files : g[2] # s.upload
          BY <1>1, <1>4, <1>13, <1>15, <3>1 DEF DataInv, FlyingFiles
        <4> QED  BY <1>13, <1>15, <3>1, <4>1
      <3>2. CASE s.op # "upload"
        BY <1>4, <1>13, <1>14, <1>15, <3>2 DEF DataInv, RowFiles
      <3> QED  BY <3>1, <3>2
    <2>3. stored' \subseteq 1..uploads'
      BY <1>4, <1>15 DEF DataInv, RowFiles
    <2>4. \A q \in Rows : \A f \in objects'[q].files : f[2] \in stored'
      BY <1>5, <1>6, <1>15, <2>1, <2>2
    <2>5. \A p, q \in Rows : p # q => \A f \in objects'[p].files, g \in objects'[q].files : f[2] # g[2]
      <3>1. \A p, q \in Rows : p # q /\ p # r /\ q # r =>
              \A f \in objects'[p].files, g \in objects'[q].files : f[2] # g[2]
        BY <1>6 DEF DataInv, RowFiles
      <3> QED  BY <1>5, <1>6, <2>2, <3>1
    <2> QED  BY <2>3, <2>4, <2>5 DEF RowFiles
  <1>17. FlyingFiles'
    <2>1. ASSUME NEW v \in Writers, v # w, writer[v].upload # 0
          PROVE  /\ writer[v].upload \in stored' /\ \A q \in Rows : \A f \in objects'[q].files : f[2] # writer[v].upload
      <3>1. /\ writer[v].upload \in stored /\ \A q \in Rows : \A f \in objects[q].files : f[2] # writer[v].upload
            /\ s.upload # writer[v].upload
        BY <1>1, <2>1 DEF DataInv, FlyingFiles
      <3>2. \A f \in s.copy.files : f[2] # writer[v].upload
        BY <1>4, <1>13, <3>1
      <3> QED  BY <1>4, <1>5, <1>6, <1>15, <3>1, <3>2
    <2>2. \A v \in Writers : v # w => writer'[v].upload = writer[v].upload
      BY <1>9
    <2>3. writer'[w].upload = 0
      BY <1>11
    <2>4. \A u, v \in Writers : u # v /\ u # w /\ v # w /\ writer[u].upload # 0 => writer[u].upload # writer[v].upload
      BY DEF DataInv, FlyingFiles
    <2> QED  BY <2>1, <2>2, <2>3, <2>4 DEF FlyingFiles
  <1>18. FilesKept'
    <2> SUFFICES ASSUME Calm
                 PROVE  /\ \A q \in Rows : \A f \in objects'[q].files : f[1] = 1
                        /\ \A f \in stored' : \/ \E v \in Writers : writer'[v].upload = f
                                              \/ \E q \in Rows : \E g \in objects'[q].files : g[2] = f
      BY <1>4 DEF DataInv, FilesKept, Calm
    <2>1. s.schema.file = 1
      BY <1>1, <1>4, RequestFacts DEF CopyFiles
    <2>2. \A q \in Rows : \A f \in objects[q].files : f[1] = 1
      BY DEF DataInv, FilesKept
    <2>3. \A f \in s.copy.files : f[1] = 1
      BY <1>4, <1>13, <2>1, <2>2
    <2>4. ASSUME NEW f \in stored'
          PROVE  (\E v \in Writers : writer'[v].upload = f) \/ \E q \in Rows : \E g \in objects'[q].files : g[2] = f
      <3>1. f \in stored /\ f \notin lost /\ f # 0
        BY <1>15 DEF DataInv, RowFiles
      <3>2. CASE \E v \in Writers : writer[v].upload = f
        <4>1. PICK v \in Writers : writer[v].upload = f
          BY <3>2
        <4>2. CASE v # w
          BY <1>9, <4>1, <4>2
        <4>3. CASE v = w
          <5>1. s.upload = f /\ <<s.schema.file, s.upload>> \in s.copy.files
            BY <1>1, <1>13, <3>1, <4>1, <4>3
          <5>2. <<s.schema.file, s.upload>>[2] = f
            BY <5>1
          <5> QED  BY <1>4, <1>5, <5>1, <5>2
        <4> QED  BY <4>2, <4>3
      <3>3. CASE \E q \in Rows : \E g \in objects[q].files : g[2] = f
        <4>1. PICK q \in Rows : \E g \in objects[q].files : g[2] = f
          BY <3>3
        <4>2. CASE q # r
          BY <1>6, <4>1, <4>2
        <4>3. CASE q = r /\ s.op # "upload"
          BY <1>5, <1>13, <4>1, <4>3
        <4>4. CASE q = r /\ s.op = "upload"
          BY <1>15, <2>1, <2>2, <3>1, <4>1, <4>4
        <4> QED  BY <4>2, <4>3, <4>4
      <3> QED  BY <3>1, <3>2, <3>3 DEF DataInv, FilesKept
    <2> QED  BY <1>5, <1>6, <2>2, <2>3, <2>4
  <1> QED  BY <1>7, <1>8, <1>10, <1>12, <1>16, <1>17, <1>18 DEF DataInv

\* An error takes the file that was stored with it, and nothing else.
LEMMA FailKeeps == ASSUME DataInv, NEW w \in Writers, Fail(w) PROVE DataInv'
  <1>1. PICK s : s = writer[w]
    OBVIOUS
  <1>2. /\ To(w, Waiting) /\ Unlocked(w) /\ stored' = stored \ Kept(w)
        /\ UNCHANGED <<objects, schema, uploads, sources, runs, asked, outdated, retried, trespassed>>
    BY DEF Fail
  <1>3. stored' = stored \ (IF s.upload = 0 THEN {} ELSE {s.upload})
    BY <1>1, <1>2 DEF Kept
  <1>4. /\ \A v \in Writers : v # w => writer'[v] = writer[v]
        /\ writer'[w] = Waiting /\ Waiting.at = "idle" /\ Waiting.upload = 0
    BY <1>2, Freed DEF Waiting
  <1>5. RowTypes' /\ RequestTypes' /\ trespassed' = "no"
    <2>1. /\ writer' \in [Writers -> Requests] /\ objectLock' \in [Rows -> Writers \cup {Nobody}]
          /\ \A v \in Writers : IF writer'[v].at = "idle" THEN writer'[v].expected = 0 ELSE writer'[v].row \in Rows
      BY <1>2, Freed DEF DataInv, RequestTypes, Waiting
    <2> QED  BY <1>2, <2>1 DEF DataInv, RequestTypes, RowTypes
  <1>6. \A q \in Rows : RowKept(q)'
    BY <1>2 DEF DataInv, RowKept
  <1>7. \A v \in Writers : RequestKept(v)'
    <2>1. RequestKept(w)'
      BY <1>2, Freed
    <2>2. ASSUME NEW v \in Writers, v # w PROVE RequestKept(v)'
      <3>1. Held(writer[v]) => objectLock[writer[v].row] = v /\ writer[v].row \in Rows
        BY RequestFacts DEF CopyKept, Held
      <3>2. Held(writer[v]) => objectLock'[writer[v].row] = v
        BY <1>2, <2>2, <3>1, Freed
      <3>3. CopyKept(v)'
        BY <1>2, <1>4, <2>2, <3>2, RequestFacts DEF CopyKept, Held, Ready, Base, One, Changes
      <3>4. SchemaKept(v)' /\ SeenKept(v)'
        BY <1>2, <1>4, <2>2, RequestFacts DEF SchemaKept, SeenKept, Ready
      <3>5. CopyFiles(v)'
        BY <1>2, <1>4, <2>2, RequestFacts DEF CopyFiles, Ready, Base, Calm
      <3> QED  BY <3>3, <3>4, <3>5 DEF RequestKept
    <2> QED  BY <2>1, <2>2
  <1>8. NamesApart'
    BY <1>2, <1>4 DEF DataInv, NamesApart
  <1>9. RowFiles'
    <2>1. s.upload # 0 => \A q \in Rows : \A f \in objects[q].files : f[2] # s.upload
      BY <1>1 DEF DataInv, FlyingFiles
    <2> QED  BY <1>2, <1>3, <2>1 DEF DataInv, RowFiles
  <1>10. FlyingFiles'
    BY <1>1, <1>2, <1>3, <1>4 DEF DataInv, FlyingFiles
  <1>11. FilesKept'
    <2>1. \A f \in stored', v \in Writers : writer[v].upload = f => writer'[v].upload = f
      <3>1. 0 \notin stored
        BY DEF DataInv, RowFiles
      <3> QED  BY <1>1, <1>3, <1>4, <3>1
    <2> QED  BY <1>2, <1>3, <2>1 DEF DataInv, FilesKept, Calm
  <1> QED  BY <1>5, <1>6, <1>7, <1>8, <1>9, <1>10, <1>11 DEF DataInv

\* A deleted row keeps its name and its files until it is purged.
LEMMA SoftDeleteKeeps == ASSUME DataInv, NEW w \in Writers, SoftDelete(w) PROVE DataInv'
  <1>1. PICK s : s = writer[w]
    OBVIOUS
  <1>2. PICK r : r = s.row
    OBVIOUS
  <1>3. /\ s.at = "valid" /\ s.op = "delete" /\ r \in Rows
        /\ objects' = [objects EXCEPT ![r].live = "dead"] /\ objects \in [Rows -> Objects]
        /\ To(w, Waiting) /\ Unlocked(w)
        /\ UNCHANGED <<schema, stored, uploads, sources, runs, asked, outdated, retried, trespassed>>
    BY <1>1, <1>2, RequestFacts DEF SoftDelete, DataInv, RowTypes
  <1>4. PICK o \in Objects : o = [objects[r] EXCEPT !.live = "dead"]
    <2>1. objects[r] \in Objects
      BY <1>3
    <2> QED  BY <2>1 DEF Objects
  <1>5. /\ objects' = [objects EXCEPT ![r] = o] /\ objects[r] \in Objects
        /\ o.live = "dead" /\ o.name = objects[r].name /\ o.files = objects[r].files
    <2>1. objects[r] \in Objects
      BY <1>3
    <2> QED  BY <1>3, <1>4, <2>1 DEF Objects
  <1>6. /\ objects' \in [Rows -> Objects] /\ objects'[r] = o /\ \A q \in Rows : q # r => objects'[q] = objects[q]
        /\ \A q \in Rows : objects'[q].name = objects[q].name /\ objects'[q].files = objects[q].files
    BY <1>3, <1>4, <1>5
  <1>7. /\ \A v \in Writers : v # w => writer'[v] = writer[v] /\ (Held(writer[v]) => writer[v].row # r)
                                       /\ \A q \in Rows : objectLock[q] = v => objectLock'[q] = v
        /\ writer'[w] = Waiting /\ Waiting.at = "idle" /\ Waiting.upload = 0
        /\ s.upload = 0 /\ objects[r].live = "live"
    <2>1. objectLock[r] = w /\ s.upload = 0 /\ objects[r].live = "live"
      BY <1>1, <1>2, <1>3, RequestFacts DEF CopyKept, Held
    <2>2. \A v \in Writers : Held(writer[v]) => objectLock[writer[v].row] = v
      BY RequestFacts DEF CopyKept
    <2> QED  BY <1>3, <2>1, <2>2, Freed DEF Waiting
  <1>8. RowTypes' /\ RequestTypes' /\ trespassed' = "no"
    <2>1. /\ writer' \in [Writers -> Requests] /\ objectLock' \in [Rows -> Writers \cup {Nobody}]
          /\ \A v \in Writers : IF writer'[v].at = "idle" THEN writer'[v].expected = 0 ELSE writer'[v].row \in Rows
      BY <1>3, Freed DEF DataInv, RequestTypes, Waiting
    <2> QED  BY <1>3, <1>6, <2>1 DEF DataInv, RequestTypes, RowTypes
  <1>9. \A q \in Rows : RowKept(q)'
    <2>1. ASSUME NEW q \in Rows, q # r PROVE RowKept(q)'
      BY <1>3, <1>6, <2>1 DEF DataInv, RowKept
    <2>2. RowKept(r)'
      BY <1>3, <1>5, <1>6, <1>7 DEF DataInv, RowKept
    <2> QED  BY <2>1, <2>2
  <1>10. \A v \in Writers : RequestKept(v)'
    <2>1. RequestKept(w)'
      BY <1>3, Freed
    <2>2. ASSUME NEW v \in Writers, v # w PROVE RequestKept(v)'
      BY <1>3, <1>5, <1>6, <1>7, <2>2, OthersFreed
    <2> QED  BY <2>1, <2>2
  <1>11. NamesApart'
    BY <1>6, <1>7 DEF DataInv, NamesApart
  <1>12. RowFiles'
    BY <1>3, <1>6 DEF DataInv, RowFiles
  <1>13. FlyingFiles'
    BY <1>3, <1>6, <1>7 DEF DataInv, FlyingFiles
  <1>14. FilesKept'
    <2>1. \A f \in stored, v \in Writers : writer[v].upload = f => writer'[v].upload = f
      BY <1>1, <1>7
    <2> QED  BY <1>3, <1>6, <2>1 DEF DataInv, FilesKept, Calm
  <1> QED  BY <1>8, <1>9, <1>10, <1>11, <1>12, <1>13, <1>14 DEF DataInv

\* A purged row leaves neither name nor file, and no other row had them.
LEMMA PurgeRowKeeps == ASSUME DataInv, NEW r \in Rows, PurgeRow(r) PROVE DataInv'
  <1>1. PICK o : o = [EmptyRow EXCEPT !.live = "gone"]
    OBVIOUS
  <1>2. o \in Objects /\ o.live = "gone" /\ o.name = NoName /\ o.files = {}
    BY <1>1 DEF EmptyRow, Objects
  <1>3. /\ objects[r].live = "dead" /\ objectLock[r] = Nobody /\ objects' = [objects EXCEPT ![r] = o]
        /\ stored' = stored \ {f[2] : f \in objects[r].files} /\ asked' = [asked EXCEPT ![r] = NothingAsked]
        /\ UNCHANGED <<schema, writer, objectLock, uploads, sources, runs, outdated, retried, trespassed>>
        /\ objects \in [Rows -> Objects] /\ asked \in [Rows -> [number : Nat, name : Names \cup {NoName}, changes : Nat]]
    BY <1>1 DEF PurgeRow, DataInv, RowTypes
  <1>4. /\ objects' \in [Rows -> Objects] /\ objects'[r] = o /\ asked'[r] = NothingAsked
        /\ \A q \in Rows : q # r => objects'[q] = objects[q] /\ asked'[q] = asked[q]
    BY <1>2, <1>3
  <1>5. RowTypes' /\ RequestTypes' /\ trespassed' = "no"
    <2>1. asked' \in [Rows -> [number : Nat, name : Names \cup {NoName}, changes : Nat]]
      BY <1>3 DEF NothingAsked
    <2> QED  BY <1>3, <1>4, <2>1 DEF DataInv, RowTypes, RequestTypes
  <1>6. \A q \in Rows : RowKept(q)'
    <2>1. ASSUME NEW q \in Rows, q # r PROVE RowKept(q)'
      BY <1>3, <1>4, <2>1 DEF DataInv, RowKept
    <2>2. RowKept(r)'
      BY <1>2, <1>4 DEF RowKept, NothingAsked
    <2> QED  BY <2>1, <2>2
  <1>7. \A v \in Writers : RequestKept(v)'
    <2> SUFFICES ASSUME NEW v \in Writers PROVE RequestKept(v)'
      OBVIOUS
    <2>1. Held(writer[v]) => writer[v].row # r
      BY <1>3, RequestFacts, DataObjectsAssumption DEF CopyKept
    <2> QED  BY <1>2, <1>3, <1>4, <2>1, OthersFreed
  <1>8. NamesApart'
    BY <1>2, <1>3, <1>4 DEF DataInv, NamesApart
  <1>9. RowFiles'
    <2>1. \A q \in Rows : \A f \in objects'[q].files : q # r /\ f \in objects[q].files
      BY <1>2, <1>4
    <2>2. \A q \in Rows : q # r => \A f \in objects[q].files : f[2] \in stored'
      BY <1>3 DEF DataInv, RowFiles
    <2>3. stored' \subseteq 1..uploads'
      BY <1>3 DEF DataInv, RowFiles
    <2>4. \A p, q \in Rows : p # q => \A f \in objects[p].files, g \in objects[q].files : f[2] # g[2]
      BY DEF DataInv, RowFiles
    <2> QED  BY <2>1, <2>2, <2>3, <2>4 DEF RowFiles
  <1>10. FlyingFiles'
    <2>1. \A q \in Rows : \A f \in objects'[q].files : f \in objects[q].files
      BY <1>2, <1>4
    <2>2. \A v \in Writers : writer[v].upload # 0 => writer[v].upload \in stored'
      BY <1>3 DEF DataInv, FlyingFiles
    <2> QED  BY <1>3, <2>1, <2>2 DEF DataInv, FlyingFiles
  <1>11. FilesKept'
    <2>1. \A q \in Rows : \A f \in objects'[q].files : f \in objects[q].files
      BY <1>2, <1>4
    <2>2. \A f \in stored', q \in Rows : \A g \in objects[q].files : g[2] = f => objects'[q] = objects[q]
      BY <1>3, <1>4
    <2>3. stored' \subseteq stored
      BY <1>3
    <2> QED  BY <1>3, <2>1, <2>2, <2>3 DEF DataInv, FilesKept, Calm
  <1> QED  BY <1>5, <1>6, <1>7, <1>8, <1>9, <1>10, <1>11 DEF DataInv

\* The class changes: an index is there from then on, and a file field that was
\* removed never comes back with its source.
LEMMA SchemaStep ==
    ASSUME DataInv, IndexBuilt \/ ChangeFileField
    PROVE  DataInv'
  <1>1. /\ UNCHANGED <<objects, writer, objectLock, stored, uploads, runs, asked, outdated, retried, trespassed>>
        /\ schema \in Schemas /\ sources \in Nat \ {0}
    BY DEF IndexBuilt, ChangeFileField, DataInv, RowTypes, RequestTypes
  <1>2. /\ schema' \in Schemas /\ sources' \in Nat \ {0}
        /\ schema.indexed = "yes" => schema'.indexed = "yes"
        /\ sources' = 1 => sources = 1 /\ schema'.file <= schema.file
    <2>1. CASE IndexBuilt
      <3>1. schema' = [schema EXCEPT !.indexed = "yes"] /\ sources' = sources
        BY <2>1 DEF IndexBuilt
      <3> QED  BY <1>1, <3>1 DEF Schemas
    <2>2. CASE schema.file # 0 /\ schema' = [schema EXCEPT !.file = 0] /\ UNCHANGED sources
      BY <1>1, <2>2 DEF Schemas
    <2>3. CASE schema.file = 0 /\ sources' = sources + 1 /\ schema' = [schema EXCEPT !.file = sources + 1]
      <3>1. PICK n \in Nat : n = sources + 1
        BY <1>1
      <3>2. schema' = [schema EXCEPT !.file = n] /\ sources' = n /\ n # 1 /\ n # 0
        BY <1>1, <2>3, <3>1
      <3> QED  BY <1>1, <3>2 DEF Schemas
    <2> QED  BY <2>1, <2>2, <2>3 DEF ChangeFileField
  <1>3. Calm' => Calm
    <2>1. sources = 1 => schema.file <= 1
      BY DEF DataInv, FilesKept
    <2> QED  BY <1>1, <1>2, <2>1 DEF Calm, Schemas
  <1>4. RowTypes' /\ RequestTypes' /\ trespassed' = "no"
    BY <1>1, <1>2 DEF DataInv, RowTypes, RequestTypes
  <1>5. \A r \in Rows : RowKept(r)'
    BY <1>1, <1>2 DEF DataInv, RowKept
  <1>6. \A w \in Writers : RequestKept(w)'
    <2> SUFFICES ASSUME NEW w \in Writers PROVE RequestKept(w)'
      OBVIOUS
    <2>1. CopyKept(w)'
      BY <1>1, RequestFacts DEF CopyKept, Held, Ready, Base, One, Changes
    <2>2. SchemaKept(w)' /\ SeenKept(w)'
      BY <1>1, <1>2, RequestFacts DEF SchemaKept, SeenKept, Ready
    <2>3. CopyFiles(w)'
      BY <1>1, <1>3, RequestFacts DEF CopyFiles, Ready, Base
    <2> QED  BY <2>1, <2>2, <2>3 DEF RequestKept
  <1>7. NamesApart' /\ RowFiles' /\ FlyingFiles'
    BY <1>1 DEF DataInv, NamesApart, RowFiles, FlyingFiles
  <1>8. FilesKept'
    <2>1. sources' = 1 => schema'.file <= 1
      <3>1. sources = 1 => schema.file <= 1
        BY DEF DataInv, FilesKept
      <3>2. schema.file \in Nat /\ schema'.file \in Nat
        BY <1>1, <1>2 DEF Schemas
      <3> QED  BY <1>2, <3>1, <3>2
    <2> QED  BY <1>1, <1>3, <2>1 DEF DataInv, FilesKept
  <1> QED  BY <1>4, <1>5, <1>6, <1>7, <1>8 DEF DataInv

\* The invariant is inductive.
LEMMA DataStep == DataInv /\ [DataNext]_dataVars => DataInv'
  <1> SUFFICES ASSUME DataInv, [DataNext]_dataVars PROVE DataInv'
    OBVIOUS
  <1>1. CASE UNCHANGED dataVars
    <2>1. UNCHANGED <<objects, schema, writer, objectLock, stored, uploads, sources, runs, asked, outdated, retried, trespassed>>
      BY <1>1 DEF dataVars
    <2>2. Typed' /\ \A r \in Rows : RowKept(r)'
      BY <2>1 DEF DataInv, Typed, RowTypes, RequestTypes, RowKept
    <2>3. \A w \in Writers : RequestKept(w)'
      BY <2>1, OthersKept
    <2>4. NamesApart' /\ RowFiles' /\ FlyingFiles' /\ FilesKept'
      BY <2>1 DEF DataInv, NamesApart, RowFiles, FlyingFiles, FilesKept, Calm
    <2> QED  BY <2>2, <2>3, <2>4 DEF DataInv, Typed
  <1>2. ASSUME NEW w \in Writers, NEW r \in Rows, NEW op \in DataOps, NEW n \in Names \cup {NoName},
               NEW e \in {0, objects[r].revision}, Arrive(w, r, op, n, e)
        PROVE  DataInv'
    BY <1>2, ArriveKeeps
  <1>3. ASSUME NEW w \in Writers,
               Fetch(w) \/ Validate(w) \/ SaveObject(w) \/ Collide(w) \/ Revalidate(w)
               \/ CommitSave(w) \/ SoftDelete(w) \/ Fail(w)
        PROVE  DataInv'
    BY <1>3, FetchKeeps, ValidateKeeps, SaveObjectKeeps, CollideKeeps, RevalidateKeeps, CommitSaveKeeps,
       SoftDeleteKeeps, FailKeeps
  <1> QED  BY <1>1, <1>2, <1>3, PurgeRowKeeps, SchemaStep DEF DataNext

\* It holds of an empty class that has its file field and no index yet.
LEMMA DataStart == DataInit => DataInv
  <1> SUFFICES ASSUME DataInit PROVE DataInv
    OBVIOUS
  <1>1. /\ objects = [r \in Rows |-> EmptyRow] /\ schema = [indexed |-> "no", file |-> 1]
        /\ writer = [w \in Writers |-> Waiting] /\ objectLock = [r \in Rows |-> Nobody]
        /\ stored = {} /\ uploads = 0 /\ sources = 1 /\ runs = 0
        /\ asked = [r \in Rows |-> NothingAsked] /\ outdated = {} /\ retried = {} /\ trespassed = "no"
    BY DEF DataInit
  <1>2. /\ EmptyRow \in Objects /\ EmptyRow.name = NoName /\ EmptyRow.files = {} /\ EmptyRow.live = "none"
        /\ NothingAsked.name = NoName /\ NothingAsked \in [number : Nat, name : Names \cup {NoName}, changes : Nat]
    BY DEF EmptyRow, NothingAsked, Objects
  <1>3. /\ Waiting \in Requests /\ Waiting.at = "idle" /\ Waiting.expected = 0 /\ Waiting.upload = 0
        /\ Waiting.name = NoName /\ Waiting.schema.indexed = "no"
    BY <1>2 DEF Waiting, Requests, Schemas
  <1>4. RowTypes /\ RequestTypes
    BY <1>1, <1>2, <1>3 DEF RowTypes, RequestTypes, Schemas
  <1>5. \A r \in Rows : RowKept(r)
    BY <1>1, <1>2 DEF RowKept
  <1>6. \A w \in Writers : RequestKept(w)
    BY <1>1, <1>3 DEF RequestKept, CopyKept, SchemaKept, SeenKept, CopyFiles, Held, Ready
  <1>7. NamesApart /\ RowFiles /\ FlyingFiles /\ FilesKept
    BY <1>1, <1>2, <1>3 DEF NamesApart, RowFiles, FlyingFiles, FilesKept
  <1> QED  BY <1>1, <1>4, <1>5, <1>6, <1>7 DEF DataInv

\* What is committed is what the requests asked for, each once, whatever
\* requests overlap: get_object locks the row before it is read, and keeps it.
THEOREM NoLostUpdateHolds == DataSpec => []NoLostUpdate
  <1>1. DataInv => NoLostUpdate
    BY DEF DataInv, RowKept, NoLostUpdate
  <1> QED  BY <1>1, DataStart, DataStep, PTL DEF DataSpec

\* Stored objects keep to the class: no two have the same value of a unique
\* field, and their files are there, also while its index is built and the file
\* field comes and goes.
THEOREM ObjectsAreSoundHolds == DataSpec => []ObjectsAreSound
  <1>1. DataInv => UniqueMeansDistinct
    BY DEF DataInv, NamesApart, UniqueMeansDistinct
  <1>2. DataInv => FilesOfRows
    <2> SUFFICES ASSUME DataInv PROVE FilesOfRows
      OBVIOUS
    <2>1. \A f \in UNION {objects[r].files : r \in Rows} : f[2] \in stored
      BY DEF DataInv, RowFiles
    <2>2. ASSUME sources = 1, schema.file = 1, NEW f \in stored
          PROVE  f \in {writer[w].upload : w \in Writers} \/ \E g \in UNION {objects[r].files : r \in Rows} : g[2] = f
      BY <2>2 DEF DataInv, FilesKept, Calm
    <2> QED  BY <2>1, <2>2 DEF FilesOfRows
  <1> QED  BY <1>1, <1>2, DataStart, DataStep, PTL DEF DataSpec, ObjectsAreSound
=============================================================================
