---------------------------- MODULE KlassIndexes ----------------------------
(***************************************************************************)
(* The data classes of one instance and the database indexes behind them:  *)
(* Klass (apps/data/models.py), the tasks that build and drop indexes      *)
(* (apps/data/tasks.py) and the references that installed sockets keep to  *)
(* classes, fields and index flags (apps/sockets/processor.py, helpers.py).*)
(*                                                                         *)
(* A class is locked while it has index_changes.  Requests, socket tasks   *)
(* and KlassOperationQueue read it with a row lock and save it in the same *)
(* transaction: one step each.  IndexKlassTask works without a row lock,   *)
(* one DDL statement at a time, under a redis lock of the instance.  That  *)
(* lock lives for 15 minutes: here it outlasts every task that is alive.   *)
(***************************************************************************)
EXTENDS Integers, FiniteSets

CONSTANTS
    Classes,      \* primary keys of classes
    Fields,       \* field names
    Types,        \* index types: "order", "filter"
    Sockets,      \* primary keys of sockets
    MaxSaves,     \* bound: requests and installations that save a class
    MaxFaults     \* bound: failed DDL statements and killed workers

ASSUME IndexesAssumption == MaxSaves \in Nat /\ MaxFaults \in Nat

VARIABLES
    row,        \* the Klass rows
    installed,  \* Socket.installed: fields of each class a socket has installed
    db,         \* indexes in the database, by class: valid and invalid ones
    lock,       \* the redis lock: "free", "held" or left by a "dead" worker
    job,        \* the task that holds or held it, and its locals
    queued,     \* IndexKlassTask messages, sent or waiting for the lock
    after,      \* tasks that released the lock, before after_lock_released
    drops,      \* DeleteKlassIndexesTask messages, by class
    ops,        \* KlassOperationQueue messages
    lostDrops,  \* history: classes whose DeleteKlassIndexesTask failed or died
    saves, faults  \* bounded events so far

taskVars == <<lock, job, queued, after, drops, lostDrops>>
vars == <<row, installed, db, taskVars, ops, saves, faults>>

Flags == Fields \X Types
Index == [type : Types, field : Fields, rev : Nat]

\* The index of a flag <<field, type>>: its name holds the field's source, the
\* revision that first defined the field and the field's name.
IndexOf(mapping, x) == [type |-> x[2], field |-> x[1], rev |-> mapping[x[1]]]
IndexesOf(mapping, flags) == {IndexOf(mapping, x) : x \in flags}

NoRefs == [owner |-> "user", managed |-> {}, fields |-> {}, props |-> {}]
NoRow == [status |-> "new", fields |-> {}, flags |-> {}, revision |-> 0,
          mapping |-> [f \in Fields |-> 0], existing |-> {},
          add |-> {}, drop |-> {}, refs |-> NoRefs]
NoJob == [kind |-> "none", todo |-> {}, done |-> {}]

Live(k) == row[k].status = "live"
Locked(k) == row[k].add \cup row[k].drop # {}
\* Klass.clean, ClassDependency.process: a locked class is refused.
Editable(k) == Live(k) /\ ~Locked(k)
Migrating == {k \in Classes : Live(k) /\ Locked(k)}

Init ==
    /\ row = [k \in Classes |-> NoRow]
    /\ installed = [s \in Sockets |-> [k \in Classes |-> {}]]
    /\ db = [k \in Classes |-> [valid |-> {}, invalid |-> {}]]
    /\ lock = "free" /\ job = NoJob
    /\ queued = 0 /\ after = 0 /\ drops = {} /\ ops = {}
    /\ lostDrops = {} /\ saves = 0 /\ faults = 0

-----------------------------------------------------------------------------
(* Saving a class *)

\* A field keeps its source unless it is new or defined in another way.
ProcessMapping(r, fields, redefined) ==
    [f \in Fields |-> IF f \notin fields THEN 0
                      ELSE IF f \in r.fields \ redefined THEN r.mapping[f]
                      ELSE r.revision + 1]

\* Klass.save of a new or changed schema; "before" is the set of flags that the
\* tracked copy of the schema holds.
Saved(r, before, fields, flags, redefined) ==
    LET mapping == ProcessMapping(r, fields, redefined)
        wanted == IndexesOf(mapping, flags)
        add == wanted \ r.existing
        drop == IndexesOf(r.mapping, before) \ wanted
        moved == [r EXCEPT !.fields = fields, !.flags = flags,
                           !.mapping = mapping, !.revision = @ + 1]
    IN  IF add \cup drop = {} THEN moved
        ELSE [moved EXCEPT !.add = add, !.drop = drop,
                           !.existing = @ \cap wanted]

\* post_save sends the task once the transaction is committed.
Store(k, r) ==
    /\ row' = [row EXCEPT ![k] = r]
    /\ queued' = IF r.add \cup r.drop # {} THEN queued + 1 ELSE queued
    /\ UNCHANGED <<lock, job, after, drops, lostDrops>>

Count == saves < MaxSaves /\ saves' = saves + 1

FlagSets(fields) == SUBSET (fields \X Types)

\* KlassViewSet.create
CreateClass(k) ==
    \E fields \in SUBSET Fields : \E flags \in FlagSets(fields) :
        /\ row[k].status = "new"
        /\ Store(k, Saved([NoRow EXCEPT !.status = "live"], {}, fields, flags, {}))
        /\ Count
        /\ UNCHANGED <<installed, db, ops, faults>>

\* KlassViewSet.update with another schema; clean() refuses a locked class.
UpdateClass(k) ==
    \E fields \in SUBSET Fields :
    \E flags \in FlagSets(fields), redefined \in SUBSET (fields \cap row[k].fields) :
        /\ Editable(k)
        /\ fields # row[k].fields \/ flags # row[k].flags \/ redefined # {}
        /\ Store(k, Saved(row[k], row[k].flags, fields, flags, redefined))
        /\ Count
        /\ UNCHANGED <<installed, db, ops, faults>>

\* soft_delete: the row is dead and DeleteLiveObjectTask is on its way.
SoftDelete(k) ==
    /\ row' = [row EXCEPT ![k].status = "dead"]
    /\ UNCHANGED taskVars

\* KlassViewSet.destroy
DestroyClass(k) ==
    /\ Live(k) /\ ~Locked(k)
    /\ SoftDelete(k)
    /\ UNCHANGED <<installed, db, ops, saves, faults>>

\* DeleteLiveObjectTask deletes the row; post_delete sends the index task.
HardDelete(k) ==
    /\ row[k].status = "dead"
    /\ row' = [row EXCEPT ![k] = [NoRow EXCEPT !.status = "gone"]]
    /\ drops' = drops \cup {k}
    /\ UNCHANGED <<installed, db, lock, job, queued, after, ops, lostDrops, saves, faults>>

-----------------------------------------------------------------------------
(* References of sockets *)

PropsOf(refs) == {<<p[1], p[2]>> : p \in refs.props}
FieldsOf(refs) == {p[1] : p \in refs.fields}

\* cleanup_refs_props looks every referenced field up in the schema: it raises,
\* and the transaction rolls back, when a request has removed one.
CanClean(fields, refs) == \A x \in PropsOf(refs) : x[1] \in fields

\* Index flags after cleanup_refs_props: those no socket asks for any more go,
\* those some socket asks for are set.
CleanFlags(flags, old, new) == (flags \ (PropsOf(old) \ PropsOf(new))) \cup PropsOf(new)

\* Fields after cleanup_refs
CleanFields(fields, old, new) == fields \ (FieldsOf(old) \ FieldsOf(new))

\* Klass.cleanup_refs(save=True).  The fields are edited in place, in dicts
\* that the tracked copy of the list shares: a change of flags is not seen as a
\* change of the schema, only the removal of a field is.
CleanedUp(r, refs) ==
    LET flags == CleanFlags(r.flags, r.refs, refs)
        fields == CleanFields(r.fields, r.refs, refs)
        kept == {x \in flags : x[1] \in fields}
    IN  IF fields # r.fields
        THEN [Saved(r, flags, fields, kept, {}) EXCEPT !.refs = refs]
        ELSE IF refs # r.refs THEN [r EXCEPT !.flags = kept, !.refs = refs]
        ELSE r

\* ClassDependency.create_class
Created(s, fields, flags) ==
    [Saved([NoRow EXCEPT !.status = "live"], {}, fields, flags, {})
        EXCEPT !.refs = [owner |-> "socket", managed |-> {s},
                         fields |-> fields \X {s},
                         props |-> {<<x[1], x[2], s>> : x \in flags}]]

\* ClassDependency.merge_class_schema: references after socket s, which had
\* installed the fields "had", asks for fields and flags.
Merged(r, s, had, fields, flags) ==
    LET refs == r.refs
        fresh == fields \ r.fields
        unref == (had \ fields) \cap r.fields \cap FieldsOf(refs)
        joined == fields \cap r.fields \cap FieldsOf(refs)
        mine == {<<x[1], x[2], s>> : x \in flags}
    IN  [owner |-> refs.owner,
         managed |-> IF refs.owner = "socket" THEN refs.managed \cup {s} ELSE {},
         fields |-> {p \in refs.fields : ~(p[1] \in unref /\ p[2] = s) /\ p[1] \notin fresh}
                    \cup ((joined \cup fresh) \X {s}),
         props |-> {p \in refs.props :
                       ~(p[1] \in (fields \cap r.fields) \cup unref /\ p[3] = s)
                       /\ p[1] \notin fresh} \cup mine]

\* ClassDependency.update_class.  It works on a deep copy of the schema, so
\* every change is seen.
Updated(r, s, had, fields, flags, redefined) ==
    LET refs == Merged(r, s, had, fields, flags)
        merged == r.fields \cup fields
        left == CleanFields(merged, r.refs, refs)
        asked == CleanFlags(r.flags \cup flags, r.refs, refs)
        kept == {x \in asked : x[1] \in left}
    IN  IF left = r.fields /\ kept = r.flags /\ redefined = {}
        THEN [r EXCEPT !.refs = refs]
        ELSE [Saved(r, r.flags, left, kept, redefined) EXCEPT !.refs = refs]

\* ClassDependency.process for a class that does not exist
InstallNew(s, k) ==
    \E fields \in SUBSET Fields \ {{}} : \E flags \in FlagSets(fields) :
        /\ row[k].status = "new"
        /\ Store(k, Created(s, fields, flags))
        /\ installed' = [installed EXCEPT ![s][k] = fields]
        /\ Count
        /\ UNCHANGED <<db, ops, faults>>

\* ClassDependency.process for a class that exists; a locked class is refused.
\* A socket may give a field another target, or another type if it installed it.
InstallExisting(s, k) ==
    \E fields \in SUBSET Fields \ {{}} :
    \E flags \in FlagSets(fields),
       redefined \in SUBSET (fields \cap row[k].fields) :
        /\ Editable(k)
        /\ CanClean(row[k].fields \cup fields,
                    [row[k].refs EXCEPT !.props = @ \cup Merged(row[k], s, installed[s][k],
                                                               fields, flags).props])
        /\ Store(k, Updated(row[k], s, installed[s][k], fields, flags, redefined))
        /\ installed' = [installed EXCEPT ![s][k] = fields]
        /\ Count
        /\ UNCHANGED <<db, ops, faults>>

\* unref_data_klass: the references without those of socket s to the fields "had"
Unref(refs, s, had) ==
    [refs EXCEPT !.managed = @ \ {s},
                 !.fields = {p \in @ : ~(p[1] \in had /\ p[2] = s)},
                 !.props = {p \in @ : ~(p[1] \in had /\ p[3] = s)}]

Unmanaged(refs) == refs.owner = "socket" /\ refs.managed = {}

\* unref_data_klass and cleanup_data_klass_ref, when a socket is deleted or no
\* longer has the class.  On a locked class the new references are not saved.
Uninstall(s, k) ==
    LET refs == Unref(row[k].refs, s, installed[s][k])
    IN  /\ installed[s][k] # {}
        /\ installed' = [installed EXCEPT ![s][k] = {}]
        /\ \/ ~Live(k) /\ UNCHANGED <<row, taskVars, ops>>
           \/ /\ Live(k) /\ Locked(k)
              /\ ops' = ops \cup
                    {[klass |-> k, op |-> IF Unmanaged(refs) THEN "delete" ELSE "cleanup"]}
              /\ UNCHANGED <<row, taskVars>>
           \/ /\ Live(k) /\ ~Locked(k) /\ Unmanaged(refs)
              /\ SoftDelete(k) /\ UNCHANGED ops
           \/ /\ Live(k) /\ ~Locked(k) /\ ~Unmanaged(refs)
              /\ CanClean(row[k].fields, row[k].refs)
              /\ Store(k, CleanedUp(row[k], refs)) /\ UNCHANGED ops
        /\ UNCHANGED <<db, saves, faults>>

\* KlassOperationQueue.run; on a locked class the task is retried.
KlassOperation(k) ==
    \E m \in {x \in ops : x.klass = k} :
        /\ ~(Live(k) /\ Locked(k))
        /\ ops' = ops \ {m}
        /\ \/ ~Live(k) /\ UNCHANGED <<row, taskVars>>
           \/ Live(k) /\ m.op = "delete" /\ SoftDelete(k)
           \/ /\ Live(k) /\ m.op = "cleanup"
              /\ IF CanClean(row[k].fields, row[k].refs)
                 THEN Store(k, CleanedUp(row[k], row[k].refs))
                 ELSE UNCHANGED <<row, taskVars>>
        /\ UNCHANGED <<installed, db, saves, faults>>

-----------------------------------------------------------------------------
(* The tasks under the redis lock of the instance *)

\* ObjectProcessorBaseTask.run of IndexKlassTask, up to process_object: pick a
\* locked class, or return when there is none.
StartIndexing ==
    /\ queued > 0 /\ lock = "free"
    /\ queued' = queued - 1 /\ lock' = "held"
    /\ \/ /\ Migrating = {}
          /\ job' = [NoJob EXCEPT !.kind = "release"]
       \/ \E k \in Migrating :
             job' = [kind |-> "index", klass |-> k, done |-> {},
                     todo |-> ({"create"} \X row[k].add) \cup ({"drop"} \X row[k].drop)]
    /\ UNCHANGED <<row, installed, db, after, drops, ops, lostDrops, saves, faults>>

\* Fault: only valid indexes are selected.
FaultStartDropping(k) ==
    /\ k \in drops /\ lock = "free"
    /\ drops' = drops \ {k} /\ lock' = "held"
    /\ job' = [kind |-> "purge", klass |-> k, done |-> {}, todo |-> {"drop"} \X db[k].valid]
    /\ UNCHANGED <<row, installed, db, queued, after, ops, lostDrops, saves, faults>>

\* DeleteKlassIndexesTask.run: select the indexes of the deleted class.
StartDropping(k) ==
    /\ k \in drops /\ lock = "free"
    /\ drops' = drops \ {k} /\ lock' = "held"
    /\ job' = [kind |-> "purge", klass |-> k, done |-> {},
               todo |-> {"drop"} \X (db[k].valid \cup db[k].invalid)]
    /\ UNCHANGED <<row, installed, db, queued, after, ops, lostDrops, saves, faults>>

Running == job.kind \in {"index", "purge"} /\ lock = "held"

\* The statement succeeds: process_data_object_index with an index that is not
\* there, is invalid and recreated, or is valid and left alone; or its drop.
ExecuteDDL ==
    /\ Running
    /\ \E x \in job.todo :
        LET k == job.klass
            ix == x[2]
        IN  /\ db' = [db EXCEPT ![k] =
                        [valid |-> IF x[1] = "create" THEN @.valid \cup {ix} ELSE @.valid \ {ix},
                         invalid |-> @.invalid \ {ix}]]
            /\ job' = [job EXCEPT !.todo = @ \ {x},
                                  !.done = IF x[1] = "create" THEN @ \cup {ix} ELSE @]
    /\ UNCHANGED <<row, installed, lock, queued, after, drops, ops, lostDrops, saves, faults>>

\* Fault: an index is recorded as done before its statement.
FaultFailDDL ==
    /\ Running /\ faults < MaxFaults
    /\ faults' = faults + 1
    /\ \E x \in job.todo :
        job' = [job EXCEPT !.kind = "failed",
                           !.done = IF x[1] = "create" THEN @ \cup {x[2]} ELSE @]
    /\ UNCHANGED <<row, installed, db, lock, queued, after, drops, ops, lostDrops, saves>>

\* The statement raises.  An index that was being built concurrently stays
\* behind as an invalid one.
FailDDL ==
    /\ Running /\ faults < MaxFaults
    /\ faults' = faults + 1
    /\ \E x \in job.todo :
        LET k == job.klass
            ix == x[2]
            rest == db[k].invalid \ {ix}
        IN  \/ UNCHANGED db
            \/ /\ x[1] = "create" /\ ix \notin db[k].valid
               /\ \E left \in {{}, {ix}} : db' = [db EXCEPT ![k].invalid = rest \cup left]
    /\ \/ /\ job.kind = "index"
          /\ job' = [job EXCEPT !.kind = "failed"]
          /\ UNCHANGED <<lock, lostDrops>>
       \/ /\ job.kind = "purge"
          /\ job' = NoJob /\ lock' = "free"
          /\ lostDrops' = lostDrops \cup {job.klass}
    /\ UNCHANGED <<row, installed, queued, after, drops, ops, saves>>

\* cleanup_schema: flags whose index does not exist are removed.
CleanupSchema(r, existing) ==
    [r EXCEPT !.flags = {x \in @ : IndexOf(r.mapping, x) \in existing}]

\* Klass.unlock, by save_object or, with rollback, by handle_exception.  The
\* flags are removed in place, so save() sees no change of the schema.
Unlock ==
    /\ lock = "held"
    /\ \/ job.kind = "index" /\ job.todo = {}
       \/ job.kind = "failed"
    /\ LET k == job.klass
           existing == row[k].existing \cup job.done
           r == IF job.kind = "failed" THEN CleanupSchema(row[k], existing) ELSE row[k]
       IN  row' = [row EXCEPT ![k] = [r EXCEPT !.existing = existing,
                                               !.add = {}, !.drop = {}]]
    /\ job' = [NoJob EXCEPT !.kind = "release"]
    /\ UNCHANGED <<installed, db, lock, queued, after, drops, ops, lostDrops, saves, faults>>

\* TaskLockMixin: the lock is released; an index task goes on to
\* after_lock_released.
Release ==
    /\ lock = "held"
    /\ \/ job.kind = "release" /\ after' = after + 1
       \/ job.kind = "purge" /\ job.todo = {} /\ UNCHANGED after
    /\ lock' = "free" /\ job' = NoJob
    /\ UNCHANGED <<row, installed, db, queued, drops, ops, lostDrops, saves, faults>>

FaultAfterNothing ==
    /\ after > 0
    /\ after' = after - 1
    /\ UNCHANGED <<row, installed, db, lock, job, queued, drops, ops, lostDrops, saves, faults>>

\* ObjectProcessorBaseTask.after_lock_released
AfterLockReleased ==
    /\ after > 0
    /\ after' = after - 1
    /\ queued' = IF Migrating # {} THEN queued + 1 ELSE queued
    /\ UNCHANGED <<row, installed, db, lock, job, drops, ops, lostDrops, saves, faults>>

\* A worker is killed: its message is acknowledged already and lost, its lock
\* stays until it expires.
Crash ==
    /\ faults < MaxFaults
    /\ faults' = faults + 1
    /\ \/ /\ lock = "held"
          /\ lock' = "dead" /\ job' = NoJob
          /\ lostDrops' = IF job.kind = "purge" THEN lostDrops \cup {job.klass} ELSE lostDrops
          /\ UNCHANGED <<queued, after, drops, ops>>
       \/ /\ queued > 0 /\ queued' = queued - 1
          /\ UNCHANGED <<lock, job, after, drops, lostDrops, ops>>
       \/ /\ after > 0 /\ after' = after - 1
          /\ UNCHANGED <<lock, job, queued, drops, lostDrops, ops>>
       \/ \E k \in drops :
             /\ drops' = drops \ {k} /\ lostDrops' = lostDrops \cup {k}
             /\ UNCHANGED <<lock, job, queued, after, ops>>
       \/ \E m \in ops :
             /\ ops' = ops \ {m} /\ UNCHANGED taskVars
    /\ UNCHANGED <<row, installed, db, saves>>

ExpireLock ==
    /\ lock = "dead" /\ lock' = "free"
    /\ UNCHANGED <<row, installed, db, job, queued, after, drops, ops, lostDrops, saves, faults>>

-----------------------------------------------------------------------------
Request(k) == CreateClass(k) \/ UpdateClass(k) \/ DestroyClass(k)
SocketStep(s, k) == InstallNew(s, k) \/ InstallExisting(s, k) \/ Uninstall(s, k)

Next ==
    \/ \E k \in Classes : Request(k) \/ HardDelete(k) \/ KlassOperation(k) \/ StartDropping(k)
    \/ \E s \in Sockets, k \in Classes : SocketStep(s, k)
    \/ StartIndexing \/ ExecuteDDL \/ FailDDL \/ Unlock \/ Release
    \/ AfterLockReleased \/ Crash \/ ExpireLock

Spec == Init /\ [][Next]_vars

\* Some task takes the free lock, the one that has it goes on and redis expires
\* it after a worker's death; a task that released it goes on.
LockStep ==
    \/ StartIndexing \/ \E k \in Classes : StartDropping(k)
    \/ ExecuteDDL \/ Unlock \/ Release \/ ExpireLock

FairSpec == Spec /\ WF_vars(LockStep) /\ WF_vars(AfterLockReleased)

-----------------------------------------------------------------------------
RefsType == [owner : {"user", "socket"}, managed : SUBSET Sockets,
             fields : SUBSET (Fields \X Sockets), props : SUBSET (Fields \X Types \X Sockets)]
RowType == [status : {"new", "live", "dead", "gone"}, fields : SUBSET Fields,
            flags : SUBSET Flags, revision : Nat, mapping : [Fields -> Nat],
            existing : SUBSET Index, add : SUBSET Index, drop : SUBSET Index,
            refs : RefsType]
Steps == {"create", "drop"} \X Index
JobType == [kind : {"none", "release"}, todo : {{}}, done : {{}}]
           \cup [kind : {"index", "failed", "purge"}, klass : Classes,
                 todo : SUBSET Steps, done : SUBSET Index]

\* The variables have their types, and the flags of a class are flags of its
\* fields.
TypeOK ==
    /\ row \in [Classes -> RowType]
    /\ installed \in [Sockets -> [Classes -> SUBSET Fields]]
    /\ db \in [Classes -> [valid : SUBSET Index, invalid : SUBSET Index]]
    /\ lock \in {"free", "held", "dead"}
    /\ job \in JobType
    /\ queued \in Nat /\ after \in Nat /\ saves \in 0..MaxSaves /\ faults \in 0..MaxFaults
    /\ drops \in SUBSET Classes /\ lostDrops \in SUBSET Classes
    /\ ops \in SUBSET [klass : Classes, op : {"delete", "cleanup"}]
    /\ \A k \in Classes : \A x \in row[k].flags : x[1] \in row[k].fields

\* An index that a live class counts as existing, and that queries rely on, is
\* in the database and valid: whatever failed, died or was dropped meanwhile.
IndexesBacked ==
    \A k \in Classes : Live(k) => row[k].existing \subseteq db[k].valid

\* A class that no socket refers to and that is not being migrated shows only
\* index flags whose index exists.
FlagsIndexed ==
    \A k \in Classes : Live(k) /\ ~Locked(k) /\ row[k].refs.props = {} =>
        IndexesOf(row[k].mapping, row[k].flags) \subseteq row[k].existing

\* A deleted class leaves no index behind, unless the task that drops its
\* indexes failed, died or is still to finish.
NoIndexLeft ==
    \A k \in Classes : row[k].status = "gone" /\ db[k].valid \cup db[k].invalid # {} =>
        k \in drops \cup lostDrops \/ (job.kind = "purge" /\ job.klass = k)

\* The row of a class that is being migrated changes only when it is unlocked.
FrozenWhileLocked ==
    [][\A k \in Classes : Locked(k) /\ row'[k] # row[k] => ~Locked(k)']_vars

\* Once no more worker dies and no statement fails, an index task on its way or
\* running gets every locked class unlocked, also those whose own task was lost.
MigrationEnds ==
    \A k \in Classes :
        k \in Migrating /\ faults = MaxFaults
            /\ (queued + after > 0 \/ job.kind \in {"index", "failed", "release"})
        ~> k \notin Migrating

\* "If klass is no longer managed by any socket, delete it."
\* (apps/sockets/helpers.py)
ManagedOrDeleted ==
    \A k \in Classes : Live(k) /\ row[k].refs.owner = "socket" =>
        \/ \E s \in Sockets : installed[s][k] # {}
        \/ \E m \in ops : m.klass = k

=============================================================================
