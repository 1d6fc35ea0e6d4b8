----------------------------- MODULE DataObjects -----------------------------
(***************************************************************************)
(* Data objects of one class (apps/data): requests that create, change and *)
(* delete them while the class changes.  The class has a number that is    *)
(* incremented, a unique string whose index is still being built when the  *)
(* behaviour starts, and a file field that is removed and added again.  A  *)
(* request loads the schema before its transaction starts, reads the       *)
(* object with a row lock, validates, and saves the whole row.             *)
(***************************************************************************)
EXTENDS Integers, FiniteSets

CONSTANTS
    Writers,            \* requests
    Rows,               \* objects
    Names,              \* values of the unique field
    NoName,
    Nobody,
    RevalidateMaxRetry, \* REVALIDATE_MAX_RETRY
    MaxWriterRuns,      \* requests in a behaviour
    MaxSources,         \* definitions of the file field in a behaviour
    MaxUploads          \* files uploaded in a behaviour

ASSUME DataObjectsAssumption ==
    /\ NoName \notin Names /\ Nobody \notin Writers
    /\ {RevalidateMaxRetry, MaxWriterRuns, MaxSources, MaxUploads} \subseteq Nat

VARIABLES
    objects,           \* committed objects
    schema,         \* the class: is the unique field indexed, source of the file field (0: not defined)
    writer,         \* requests in flight
    objectLock,        \* the request that holds each row
    stored,         \* files in the storage
    uploads,        \* files uploaded
    sources,        \* sources given to the file field
    runs,           \* requests started
    asked,          \* history: what the committed requests asked of each object
    outdated,       \* history: objects saved with a schema that was no longer the class's
    retried,        \* history: objects saved again after an IntegrityError
    trespassed      \* history: expected_revision was met though the object had changed

dataVars ==
    <<objects, schema, writer, objectLock, stored, uploads, sources, runs, asked, outdated, retried, trespassed>>

EmptyRow == [live |-> "none", revision |-> 0, number |-> 0, name |-> NoName, files |-> {}]
NewRow == [EmptyRow EXCEPT !.live = "live", !.revision = 1]
Waiting ==
    [at |-> "idle", op |-> "none", row |-> Nobody, copy |-> EmptyRow, name |-> NoName,
     schema |-> [indexed |-> "no", file |-> 0], expected |-> 0, seen |-> 0, tries |-> 0, upload |-> 0]
NothingAsked == [number |-> 0, name |-> NoName, changes |-> 0]

DataInit ==
    /\ objects = [r \in Rows |-> EmptyRow]
    /\ schema = [indexed |-> "no", file |-> 1]
    /\ writer = [w \in Writers |-> Waiting]
    /\ objectLock = [r \in Rows |-> Nobody]
    /\ stored = {} /\ uploads = 0 /\ sources = 1 /\ runs = 0
    /\ asked = [r \in Rows |-> NothingAsked]
    /\ outdated = {} /\ retried = {} /\ trespassed = "no"

(* Klass.convert_schema_to_django_schema: a unique field is not part of the *)
(* schema before its index exists.                                          *)
FaultConverted == [schema EXCEPT !.indexed = "yes"]
Converted == schema

To(w, request) == writer' = [writer EXCEPT ![w] = request]

DataOps == {"create", "increment", "rename", "upload", "delete"}

(* ObjectSchemaProcessViewMixin.initial: the request has arrived, with the  *)
(* revision its client has seen, and the schema is loaded.                  *)
Arrive(w, r, op, name, expected) ==
    /\ writer[w].at = "idle" /\ runs < MaxWriterRuns
    /\ objects[r].live = (IF op = "create" THEN "none" ELSE "live")
    /\ IF op = "rename" THEN name # NoName ELSE name # NoName => op = "create"
    /\ name # NoName => Converted.indexed = "yes"
    /\ op = "upload" => schema.file # 0
    /\ expected # 0 => op \in {"increment", "rename"} /\ expected = objects[r].revision
    /\ To(w, [Waiting EXCEPT !.at = "arrived", !.op = op, !.row = r, !.name = name, !.schema = Converted,
                             !.expected = expected, !.seen = asked[r].changes])
    /\ runs' = runs + 1
    /\ UNCHANGED <<objects, schema, objectLock, stored, uploads, sources, asked, outdated, retried, trespassed>>

(* get_object in the transaction: AtomicMixin's queryset locks the row.     *)
FaultReadLocked(w) == UNCHANGED objectLock
ReadLocked(w) ==
    LET r == writer[w].row
    IN  objectLock[r] = Nobody /\ objectLock' = [objectLock EXCEPT ![r] = w]

Fetch(w) ==
    LET s == writer[w]
        r == s.row
    IN  /\ s.at = "arrived"
        /\ objects[r].live = (IF s.op = "create" THEN "none" ELSE "live")
        /\ ReadLocked(w)
        /\ To(w, [s EXCEPT !.at = "fetched", !.copy = IF s.op = "create" THEN NewRow ELSE objects[r]])
        /\ UNCHANGED <<objects, schema, stored, uploads, sources, runs, asked, outdated, retried, trespassed>>

(* ExpectedRevisionMixin.validate, then CleanValidateMixin.validate puts    *)
(* the values into the object: an increment is added to the value read.     *)
(* TrackChangesAbstractModel.save writes nothing if nothing has changed.    *)
Validated(s) ==
    [s.copy EXCEPT !.number = IF s.op = "increment" THEN @ + 1 ELSE @,
                   !.name = IF s.name # NoName THEN s.name ELSE @]

Validate(w) ==
    LET s == writer[w]
    IN  /\ s.at = "fetched"
        /\ s.expected # 0 => s.expected = s.copy.revision
        /\ To(w, [s EXCEPT !.at = "valid", !.copy = Validated(s),
                           !.op = IF @ = "rename" /\ s.name = s.copy.name THEN "same" ELSE @])
        /\ UNCHANGED <<objects, schema, objectLock, stored, uploads, sources, runs, asked, outdated, retried, trespassed>>

Changes(s) == s.op \notin {"create", "same"}

(* dataobject_pre_save: the revision grows in memory, and what the loaded   *)
(* schema does not know is removed.  HStoreFileField.pre_save: the new file *)
(* is stored now, the old one is deleted after the commit.                  *)
Presaved(s) ==
    IF s.op = "same" THEN s.copy ELSE
    [s.copy EXCEPT
        !.revision = IF Changes(s) THEN @ + 1 ELSE @,
        !.name = IF s.schema.indexed = "yes" THEN @ ELSE NoName,
        !.files = {f \in @ : f[1] = s.schema.file /\ s.op # "upload"}
                    \cup (IF s.op = "upload" THEN {<<s.schema.file, uploads + 1>>} ELSE {})]

TakenBy(r, name, live) == \E q \in Rows \ {r} : name # NoName /\ objects[q].name = name /\ objects[q].live \in live

(* An INSERT or UPDATE waits while another transaction has the same value   *)
(* in the unique index.                                                     *)
NameIsPending(w) ==
    \E v \in Writers \ {w} : writer[v].at = "saved" /\ writer[v].copy.name = writer[w].copy.name
        /\ writer[v].row # writer[w].row /\ writer[v].op # "delete" /\ writer[w].copy.name # NoName

SaveObject(w) ==
    LET s == writer[w]
    IN  /\ s.at = "valid" /\ s.op # "delete" /\ ~NameIsPending(w)
        /\ s.op = "upload" => uploads < MaxUploads
        /\ schema.indexed = "yes" => ~TakenBy(s.row, Presaved(s).name, {"live", "dead"})
        /\ To(w, [s EXCEPT !.at = "saved", !.copy = Presaved(s),
                           !.upload = IF s.op = "upload" THEN uploads + 1 ELSE 0])
        /\ uploads' = IF s.op = "upload" THEN uploads + 1 ELSE uploads
        /\ stored' = IF s.op = "upload" THEN stored \cup {uploads + 1} ELSE stored
        /\ UNCHANGED <<objects, schema, objectLock, sources, runs, asked, outdated, retried, trespassed>>

(* IntegrityError: the savepoint is rolled back, the object in memory keeps *)
(* its new revision.                                                        *)
Collide(w) ==
    LET s == writer[w]
    IN  /\ s.at = "valid" /\ s.op # "delete" /\ ~NameIsPending(w) /\ schema.indexed = "yes"
        /\ TakenBy(s.row, Presaved(s).name, {"live", "dead"})
        /\ To(w, [s EXCEPT !.at = "collided", !.tries = @ + 1, !.copy = Presaved(s)])
        /\ UNCHANGED <<objects, schema, objectLock, stored, uploads, sources, runs, asked, outdated, retried, trespassed>>

(* revalidate_integrityerror: UniqueValidator sees live objects only, so    *)
(* one that is deleted and not yet purged is met again.  The whole request  *)
(* is validated again, the expected revision included.                      *)
Revalidate(w) ==
    LET s == writer[w]
    IN  /\ s.at = "collided" /\ s.tries < RevalidateMaxRetry
        /\ ~TakenBy(s.row, s.copy.name, {"live"})
        /\ s.expected # 0 => s.expected = s.copy.revision
        /\ To(w, [s EXCEPT !.at = "valid"])
        /\ retried' = retried \cup {s.row}
        /\ UNCHANGED <<objects, schema, objectLock, stored, uploads, sources, runs, asked, outdated, trespassed>>

Unlocked(w) == objectLock' = [r \in Rows |-> IF objectLock[r] = w THEN Nobody ELSE objectLock[r]]

(* The transaction commits, and the file that was replaced goes. *)
CommitSave(w) ==
    LET s == writer[w]
        r == s.row
    IN  /\ s.at = "saved"
        /\ objects' = [objects EXCEPT ![r] = s.copy]
        /\ stored' = IF s.op = "upload"
                     THEN stored \ {f[2] : f \in {g \in objects[r].files : g[1] = s.schema.file}}
                     ELSE stored
        /\ asked' = [asked EXCEPT ![r] =
                [number |-> IF s.op = "increment" THEN @.number + 1 ELSE @.number,
                 name |-> IF s.name # NoName THEN s.name ELSE @.name,
                 changes |-> IF Changes(s) THEN @.changes + 1 ELSE @.changes]]
        /\ outdated' = IF Changes(s) /\ s.schema # schema THEN outdated \cup {r} ELSE outdated
        /\ trespassed' = IF s.expected # 0 /\ s.seen # asked[r].changes THEN "yes" ELSE trespassed
        /\ To(w, Waiting)
        /\ Unlocked(w)
        /\ UNCHANGED <<schema, uploads, sources, runs, retried>>

(* perform_destroy: soft_delete sets the flag of the row. *)
SoftDelete(w) ==
    LET s == writer[w]
    IN  /\ s.at = "valid" /\ s.op = "delete"
        /\ objects' = [objects EXCEPT ![s.row].live = "dead"]
        /\ To(w, Waiting)
        /\ Unlocked(w)
        /\ UNCHANGED <<schema, stored, uploads, sources, runs, asked, outdated, retried, trespassed>>

(* Any error ends the transaction: not found, RevisionMismatch, a value     *)
(* that is taken, IntegrityError after the last retry, a lost connection.   *)
(* The file that was stored is deleted again.                               *)
Kept(w) == IF writer[w].upload = 0 THEN {} ELSE {writer[w].upload}

Fail(w) ==
    /\ writer[w].at # "idle"
    /\ stored' = stored \ Kept(w)
    /\ To(w, Waiting)
    /\ Unlocked(w)
    /\ UNCHANGED <<objects, schema, uploads, sources, runs, asked, outdated, retried, trespassed>>

(* DeleteLiveObjectTask, and dataobject_post_delete_handler: the files the  *)
(* row still names go with it.                                              *)
PurgeRow(r) ==
    /\ objects[r].live = "dead" /\ objectLock[r] = Nobody
    /\ objects' = [objects EXCEPT ![r] = [EmptyRow EXCEPT !.live = "gone"]]
    /\ stored' = stored \ {f[2] : f \in objects[r].files}
    /\ asked' = [asked EXCEPT ![r] = NothingAsked]
    /\ UNCHANGED <<schema, writer, objectLock, uploads, sources, runs, outdated, retried, trespassed>>

(* IndexKlassTask: CREATE UNIQUE INDEX succeeds when the values differ. *)
IndexBuilt ==
    /\ schema.indexed = "no"
    /\ schema' = [schema EXCEPT !.indexed = "yes"]
    /\ UNCHANGED <<objects, writer, objectLock, stored, uploads, sources, runs, asked, outdated, retried, trespassed>>

(* The file field is removed from the class, or added: with a new source. *)
ChangeFileField ==
    /\ \/ schema.file # 0 /\ schema' = [schema EXCEPT !.file = 0] /\ UNCHANGED sources
       \/ /\ schema.file = 0 /\ sources < MaxSources
          /\ sources' = sources + 1 /\ schema' = [schema EXCEPT !.file = sources + 1]
    /\ UNCHANGED <<objects, writer, objectLock, stored, uploads, runs, asked, outdated, retried, trespassed>>

DataNext ==
    \/ \E w \in Writers :
        \/ \E r \in Rows, op \in DataOps, n \in Names \cup {NoName} :
               \E e \in {0, objects[r].revision} : Arrive(w, r, op, n, e)
        \/ Fetch(w) \/ Validate(w) \/ SaveObject(w) \/ Collide(w) \/ Revalidate(w)
        \/ CommitSave(w) \/ SoftDelete(w) \/ Fail(w)
    \/ \E r \in Rows : PurgeRow(r)
    \/ IndexBuilt \/ ChangeFileField

DataSpec == DataInit /\ [][DataNext]_dataVars

-----------------------------------------------------------------------------
(* What is committed is what the requests asked for, each once: increments  *)
(* add up, the name is the last one given, the revision counts the changes, *)
(* and expected_revision is met only by an object that nobody has changed.  *)
(* A request that had loaded an older schema may have removed values; one   *)
(* that was retried counts its revision twice.                              *)
NoLostUpdate ==
    /\ trespassed = "no"
    /\ \A r \in Rows : objects[r].live = "live" =>
        /\ objects[r].number = asked[r].number
        /\ r \notin outdated => objects[r].name = asked[r].name
        /\ r \notin retried => objects[r].revision = 1 + asked[r].changes

(* Two live objects never have the same value of a unique field, also when  *)
(* they were saved while its index was being built.                         *)
UniqueMeansDistinct ==
    \A q, r \in Rows : q # r /\ objects[q].live = "live" /\ objects[r].live = "live" /\ objects[q].name # NoName
        => objects[q].name # objects[r].name

(* Every file a row names is in the storage, and a stored file belongs to a *)
(* row or to a request in flight, unless the field it was in was removed    *)
(* from the class.                                                          *)
FilesOfRows ==
    LET named == UNION {objects[r].files : r \in Rows}
        flying == {writer[w].upload : w \in Writers}
    IN  /\ \A f \in named : f[2] \in stored
        /\ sources = 1 /\ schema.file = 1 => \A f \in stored : f \in flying \/ \E g \in named : g[2] = f

(* What is stored keeps to the class: distinct values of a unique field, and *)
(* files that are there.                                                     *)
ObjectsAreSound == UniqueMeansDistinct /\ FilesOfRows
=============================================================================
