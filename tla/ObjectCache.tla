----------------------------- MODULE ObjectCache -----------------------------
(***************************************************************************)
(* One row of a CacheableAbstractModel and its cached copies: Cached.get,  *)
(* set, set_local and invalidate of apps/core/helpers.py, the save signal  *)
(* that invalidates (apps/core/signal_handlers.py) and the transactions of *)
(* the requests and tasks that write the row.                              *)
(*                                                                         *)
(* Every process has a local cache; the global cache and the version key   *)
(* are in redis.  A version is a random key, here the number of            *)
(* invalidations so far; 0 stands for no version.                          *)
(***************************************************************************)
EXTENDS Integers, FiniteSets

CONSTANTS
    Procs,       \* uwsgi and celery worker processes
    None,
    Databases,   \* where the row may be: "default", or "instances" for a model
                 \* of the tenant apps
    MaxWrites,   \* bound: values given to the row
    MaxExpiries  \* bound: expiries of the version key

ASSUME CacheAssumption ==
    /\ None \notin Procs
    /\ Databases \subseteq {"default", "instances"}
    /\ MaxWrites \in Nat /\ MaxExpiries \in Nat

VARIABLES
    db,         \* the row's database
    row,        \* the committed value: values are numbered as they are written
    rowLock,    \* the process whose transaction has written or locked the row
    written,    \* values given to the row so far
    gen,        \* invalidations so far
    version,    \* the version key in redis, gen or 0 when it has expired
    expiries,   \* how often it has expired
    global,     \* the entry of the global cache: a set of at most one entry
    localc,     \* the entry of each process's local cache, likewise
    pc,         \* what each process is doing
    wval,       \* the value a process is writing
    self,       \* self.version of a process's Cached object
    got,        \* the entry it has read or is about to store, at most one
    since,      \* history: settled when its get() began
    ret,        \* history: whether its last get() returned a value that old
    settled     \* history: the newest value that is committed and whose
                \* invalidation is done

writeVars == <<db, row, rowLock, written, wval>>
readVars == <<self, got, since, ret>>
keyVars == <<gen, version, expiries>>
cacheVars == <<writeVars, keyVars, global, localc, pc, readVars, settled>>

\* An entry is (value, version); history: born counts the invalidations done
\* when its value was read from the row.
Entries == [val : Nat, tag : Nat, born : Nat]

CacheInit ==
    /\ db \in Databases
    /\ row = 0 /\ rowLock = None /\ written = 0
    /\ gen = 0 /\ version = 0 /\ expiries = 0
    /\ global = {} /\ localc = [p \in Procs |-> {}]
    /\ pc = [p \in Procs |-> "idle"]
    /\ wval = [p \in Procs |-> 0]
    /\ self = [p \in Procs |-> 0] /\ got = [p \in Procs |-> {}]
    /\ since = [p \in Procs |-> 0] /\ ret = [p \in Procs |-> "recent"]
    /\ settled = 0

At(p, place) == pc[p] = place
Go(p, place) == pc' = [pc EXCEPT ![p] = place]

-----------------------------------------------------------------------------
(* Writing the row *)

Later(a, b) == IF a < b THEN b ELSE a

\* redis.set(version_key, generate_key(), ex=timeout + 300)
SetVersion == gen' = gen + 1 /\ version' = gen + 1

\* Atomic: the request's transaction takes the row with select_for_update.
Lock(p) ==
    /\ At(p, "idle") /\ rowLock = None /\ written < MaxWrites
    /\ rowLock' = p
    /\ Go(p, "locked")
    /\ UNCHANGED <<db, row, written, keyVars, global, localc, wval, readVars,
                   settled>>

\* save() and its post_save handler.  The invalidation is registered with the
\* default connection: a transaction on another one does not defer it.
Save(p) ==
    /\ At(p, "locked")
    /\ written' = written + 1
    /\ wval' = [wval EXCEPT ![p] = written + 1]
    /\ \/ /\ db = "default"
          /\ Go(p, "saved")
          /\ UNCHANGED <<gen, version>>
       \/ /\ db # "default"
          /\ SetVersion
          /\ Go(p, "invalidated")
    /\ UNCHANGED <<db, row, rowLock, global, localc, readVars, settled,
                   expiries>>

\* The request or task is done with the row.
Done(p) == Go(p, "idle") /\ wval' = [wval EXCEPT ![p] = 0]

\* The outermost block exits: what was registered on success is about to run.
Commit(p) ==
    /\ pc[p] \in {"saved", "invalidated"}
    /\ row' = wval[p]
    /\ rowLock' = None
    /\ \/ /\ At(p, "saved")
          /\ Go(p, "hooks")
          /\ UNCHANGED <<settled, wval>>
       \/ /\ At(p, "invalidated")
          /\ Done(p)
          /\ settled' = Later(settled, wval[p])
    /\ UNCHANGED <<db, written, keyVars, global, localc, readVars>>

\* The request fails or the process dies before the commit.
Rollback(p) ==
    /\ pc[p] \in {"locked", "saved", "invalidated"}
    /\ rowLock' = None
    /\ Done(p)
    /\ UNCHANGED <<db, row, written, keyVars, global, localc, readVars, settled>>

\* A save outside a transaction: committed by the time post_save is sent.
AutoSave(p) ==
    /\ At(p, "idle") /\ rowLock = None /\ written < MaxWrites
    /\ written' = written + 1
    /\ wval' = [wval EXCEPT ![p] = written + 1]
    /\ row' = written + 1
    /\ Go(p, "hooks")
    /\ UNCHANGED <<db, rowLock, keyVars, global, localc, readVars, settled>>

\* The registered operation of invalidate()
Invalidate(p) ==
    /\ At(p, "hooks")
    /\ SetVersion
    /\ settled' = Later(settled, wval[p])
    /\ Done(p)
    /\ UNCHANGED <<db, row, rowLock, written, global, localc, readVars, expiries>>

\* The process dies after the commit: the invalidation is lost.
LoseInvalidation(p) ==
    /\ At(p, "hooks")
    /\ Done(p)
    /\ UNCHANGED <<db, row, rowLock, written, keyVars, global, localc, readVars,
                   settled>>

-----------------------------------------------------------------------------
(* Cached.get *)

\* _check_version: a missing version key accepts anything; otherwise it is
\* remembered for set() and has to be the entry's.
Accepted(e) == version = 0 \/ e.tag = version
SeenBy(p) == IF version = 0 THEN self[p] ELSE version

\* A get() that began when oldest was settled returns val.
Return(p, val, oldest) ==
    /\ ret' = [ret EXCEPT ![p] = IF val >= oldest THEN "recent" ELSE "stale"]
    /\ since' = [since EXCEPT ![p] = 0]
    /\ got' = [got EXCEPT ![p] = {}]
    /\ self' = [self EXCEPT ![p] = 0]
    /\ Go(p, "idle")

\* The local cache: its entry, then the version key.
GetLocal(p) ==
    /\ At(p, "idle")
    /\ \/ \E e \in localc[p] : Accepted(e) /\ Return(p, e.val, settled)
       \/ /\ \A e \in localc[p] : ~Accepted(e)
          /\ since' = [since EXCEPT ![p] = settled]
          /\ self' = [self EXCEPT ![p] = IF localc[p] = {} THEN 0 ELSE version]
          /\ Go(p, "global")
          /\ UNCHANGED <<got, ret>>
    /\ UNCHANGED <<writeVars, keyVars, global, localc, settled>>

\* cache_storage.get: the entry of the global cache
GetGlobal(p) ==
    /\ At(p, "global")
    /\ got' = [got EXCEPT ![p] = global]
    /\ Go(p, IF global = {} THEN "compute" ELSE "check")
    /\ UNCHANGED <<writeVars, keyVars, global, localc, self, since, ret,
                   settled>>

\* Fault: an entry of the global cache is believed without a look at the
\* version key.
FaultTrustGlobal(p) ==
    /\ At(p, "check")
    /\ \E e \in got[p] :
          /\ localc' = [localc EXCEPT ![p] = {[e EXCEPT !.tag = SeenBy(p)]}]
          /\ Return(p, e.val, since[p])
    /\ UNCHANGED <<writeVars, keyVars, global, settled>>

\* _check_version of the global entry; an accepted one goes to the local cache
\* under self.version.
CheckGlobal(p) ==
    /\ At(p, "check")
    /\ \E e \in got[p] :
        \/ /\ Accepted(e)
           /\ localc' = [localc EXCEPT ![p] = {[e EXCEPT !.tag = SeenBy(p)]}]
           /\ Return(p, e.val, since[p])
        \/ /\ ~Accepted(e)
           /\ self' = [self EXCEPT ![p] = version]
           /\ got' = [got EXCEPT ![p] = {}]
           /\ Go(p, "compute")
           /\ UNCHANGED <<localc, since, ret>>
    /\ UNCHANGED <<writeVars, keyVars, global, settled>>

\* _compute_value: objects.get() reads the committed row.
Compute(p) ==
    /\ At(p, "compute")
    /\ got' = [got EXCEPT ![p] =
                   {[val |-> row, tag |-> self[p], born |-> gen]}]
    /\ Go(p, "set")
    /\ UNCHANGED <<writeVars, keyVars, global, localc, self, since, ret,
                   settled>>

\* set() and set_local()
Set(p) ==
    /\ At(p, "set")
    /\ global' = got[p]
    /\ localc' = [localc EXCEPT ![p] = got[p]]
    /\ \E e \in got[p] : Return(p, e.val, since[p])
    /\ UNCHANGED <<writeVars, keyVars, settled>>

-----------------------------------------------------------------------------
(* Expiry *)

ExpireGlobal ==
    /\ global # {}
    /\ global' = {}
    /\ UNCHANGED <<writeVars, keyVars, localc, pc, readVars, settled>>

\* LOCAL_CACHE_TIMEOUT, or a restart of the process
ExpireLocal(p) ==
    /\ localc[p] # {}
    /\ localc' = [localc EXCEPT ![p] = {}]
    /\ UNCHANGED <<writeVars, keyVars, global, pc, readVars, settled>>

\* What was read from the row before the last invalidation is gone from the
\* caches and from every get() under way, and the transaction of the
\* invalidation is over: entries live for at most timeout, a request for less
\* than the 300 seconds that the version key lives longer.
Outlived ==
    /\ \A e \in global : e.born = gen
    /\ \A p \in Procs : /\ \A e \in localc[p] \cup got[p] : e.born = gen
                        /\ ~At(p, "invalidated")

ExpireVersion ==
    /\ version # 0 /\ Outlived /\ expiries < MaxExpiries
    /\ expiries' = expiries + 1
    /\ version' = 0
    /\ UNCHANGED <<writeVars, gen, global, localc, pc, readVars, settled>>

-----------------------------------------------------------------------------
Step(p) ==
    \/ Lock(p) \/ Save(p) \/ Commit(p) \/ Rollback(p) \/ AutoSave(p)
    \/ Invalidate(p) \/ LoseInvalidation(p)
    \/ GetLocal(p) \/ GetGlobal(p) \/ CheckGlobal(p) \/ Compute(p) \/ Set(p)
    \/ ExpireLocal(p)

CacheNext == ExpireGlobal \/ ExpireVersion \/ \E p \in Procs : Step(p)

CacheSpec == CacheInit /\ [][CacheNext]_cacheVars

-----------------------------------------------------------------------------
(* Properties *)

Places == {"idle", "locked", "saved", "invalidated", "hooks", "global",
           "check", "compute", "set"}

RowTypeOK ==
    /\ db \in Databases
    /\ row \in Nat /\ rowLock \in Procs \cup {None} /\ written \in Nat
    /\ gen \in Nat /\ version \in {0, gen} /\ expiries \in Nat
    /\ wval \in [Procs -> Nat] /\ settled \in Nat

CacheTypeOK ==
    /\ global \in SUBSET Entries
    /\ localc \in [Procs -> SUBSET Entries]

GetTypeOK ==
    /\ pc \in [Procs -> Places]
    /\ self \in [Procs -> Nat]
    /\ got \in [Procs -> SUBSET Entries]
    /\ since \in [Procs -> Nat] /\ ret \in [Procs -> {"recent", "stale"}]

\* Every variable has its type.
TypeOK == RowTypeOK /\ CacheTypeOK /\ GetTypeOK

\* The entries that a get() may still come across
Cached == global \cup UNION {localc[p] : p \in Procs}

\* An entry that a get() would accept is not older than the last write whose
\* invalidation is done: "Set new random version value so that old cache is
\* correctly recognized even if race condition happens."
NoStaleEntry == \A e \in Cached : Accepted(e) => e.val >= settled

\* A get() does not return a value older than the last write that was
\* committed and invalidated when it began.
GetIsRecent == \A p \in Procs : ret[p] = "recent"

\* Both hold for the models of the default database, whatever process dies
\* between the commit and the invalidation.
DefaultNoStaleEntry == db = "default" => NoStaleEntry
DefaultGetIsRecent == db = "default" => GetIsRecent
=============================================================================
