------------------------- MODULE KlassIndexesProofs -------------------------
(***************************************************************************)
(* Theorems about classes and what is asked of their objects.  The indexes *)
(* of classes (KlassIndexes), for any classes, fields, index types and     *)
(* sockets and any number of edits, failures and killed workers; what a    *)
(* query finds (Queries), for any objects and conditions; and what a       *)
(* client sees that walks a list in pages (Pagination), for any rows and   *)
(* any writes between its requests.                                        *)
(***************************************************************************)
EXTENDS KlassIndexes, Queries, Pagination, Sums, FiniteSetTheorems, SequenceTheorems, TLAPS

-----------------------------------------------------------------------------
(* The inductive invariant *)

\* Of one row: what is to be built, what is to be dropped and what exists are
\* told apart; only live rows are locked; a flag that no socket asks for has an
\* index, or will have.
RowInv(r) ==
    /\ r.add \cap r.drop = {} /\ r.drop \cap r.existing = {}
    /\ r.status # "live" => r.add = {} /\ r.drop = {}
    /\ \A x \in r.flags : x \in PropsOf(r.refs) \/ IndexOf(r.mapping, x) \in r.existing \cup r.add

\* The index task works on a live, locked class, on what its row asks for; what
\* it has recorded as done is valid.
IndexJobInv ==
    job.kind \in {"index", "failed"} =>
        /\ Live(job.klass) /\ Locked(job.klass)
        /\ job.todo \subseteq ({"create"} \X row[job.klass].add)
                              \cup ({"drop"} \X row[job.klass].drop)
        /\ job.done \subseteq row[job.klass].add \cap db[job.klass].valid
        /\ job.kind = "index" =>
              \A ix \in row[job.klass].add : ix \in job.done \/ <<"create", ix>> \in job.todo

\* The purge of a deleted class has all its indexes ahead of it.
PurgeInv ==
    job.kind = "purge" =>
        /\ row[job.klass].status = "gone"
        /\ \A ix \in db[job.klass].valid \cup db[job.klass].invalid : <<"drop", ix>> \in job.todo
        /\ \A x \in job.todo : x[1] = "drop"

LockInv == job.kind # "none" <=> lock = "held"

IInv ==
    /\ TypeOK
    /\ \A k \in Classes : RowInv(row[k])
    /\ LockInv /\ IndexJobInv /\ PurgeInv
    /\ IndexesBacked /\ NoIndexLeft
    /\ \A k \in drops : row[k].status = "gone"

-----------------------------------------------------------------------------
(* Rows *)

LEMMA IndexOfType ==
    ASSUME NEW mapping \in [Fields -> Nat], NEW x \in Flags
    PROVE  IndexOf(mapping, x) \in Index
  BY DEF IndexOf, Index, Flags

LEMMA IndexesOfType ==
    ASSUME NEW mapping \in [Fields -> Nat], NEW flags \in SUBSET Flags
    PROVE  IndexesOf(mapping, flags) \in SUBSET Index
  BY IndexOfType DEF IndexesOf

LEMMA MappingType ==
    ASSUME NEW r \in RowType, NEW fields, NEW redefined
    PROVE  ProcessMapping(r, fields, redefined) \in [Fields -> Nat]
  BY DEF ProcessMapping, RowType

\* What Klass.save makes of an unlocked row: every flag has an index or will
\* have one, and nothing that exists is to be dropped.
LEMMA SavedRow ==
    ASSUME NEW r \in RowType, r.add = {}, r.drop = {},
           NEW before \in SUBSET Flags, NEW fields \in SUBSET Fields,
           NEW flags \in SUBSET Flags, NEW redefined
    PROVE  LET q == Saved(r, before, fields, flags, redefined)
           IN  /\ q \in RowType /\ q.status = r.status /\ q.refs = r.refs
               /\ q.fields = fields /\ q.flags = flags
               /\ q.existing \subseteq r.existing
               /\ q.add \cap q.drop = {} /\ q.drop \cap q.existing = {}
               /\ \A x \in flags : IndexOf(q.mapping, x) \in q.existing \cup q.add
<1> DEFINE mapping == ProcessMapping(r, fields, redefined)
           wanted == IndexesOf(mapping, flags)
           add == wanted \ r.existing
           drop == IndexesOf(r.mapping, before) \ wanted
           moved == [r EXCEPT !.fields = fields, !.flags = flags,
                              !.mapping = mapping, !.revision = @ + 1]
           q == Saved(r, before, fields, flags, redefined)
<1>1. mapping \in [Fields -> Nat]
  BY MappingType
<1>2. r.mapping \in [Fields -> Nat] /\ r.existing \in SUBSET Index
  BY DEF RowType
<1>3. wanted \in SUBSET Index /\ IndexesOf(r.mapping, before) \in SUBSET Index
  BY <1>1, <1>2, IndexesOfType
<1>4. \A x \in flags : IndexOf(mapping, x) \in wanted
  BY DEF IndexesOf
<1> HIDE DEF mapping, wanted
<1>5. moved \in RowType
  <2>1. r.revision + 1 \in Nat
    BY DEF RowType
  <2>2. moved = [r EXCEPT !.fields = fields, !.flags = flags,
                          !.mapping = mapping, !.revision = r.revision + 1]
    BY DEF RowType
  <2> HIDE DEF moved
  <2> QED
    BY <1>1, <2>1, <2>2 DEF RowType
<1>6. /\ moved.status = r.status /\ moved.refs = r.refs /\ moved.fields = fields
      /\ moved.flags = flags /\ moved.mapping = mapping
      /\ moved.existing = r.existing /\ moved.add = {} /\ moved.drop = {}
  BY DEF RowType
<1> HIDE DEF moved
<1>7. q = IF add \cup drop = {} THEN moved
          ELSE [moved EXCEPT !.add = add, !.drop = drop, !.existing = @ \cap wanted]
  BY DEF Saved, mapping, wanted, moved
<1> HIDE DEF q
<1>8. CASE add \cup drop = {}
  BY <1>4, <1>5, <1>6, <1>7, <1>8 DEF q
<1>9. CASE add \cup drop # {}
  <2>1. q = [moved EXCEPT !.add = add, !.drop = drop, !.existing = @ \cap wanted]
    BY <1>7, <1>9
  <2>2. q \in RowType
    BY <2>1, <1>5, <1>3, <1>2, <1>6 DEF RowType
  <2>3. /\ q.status = r.status /\ q.refs = r.refs /\ q.fields = fields
        /\ q.flags = flags /\ q.mapping = mapping
        /\ q.existing = r.existing \cap wanted /\ q.add = add /\ q.drop = drop
    BY <2>1, <1>5, <1>6 DEF RowType
  <2> QED
    BY <1>4, <2>2, <2>3 DEF q
<1> QED
  BY <1>8, <1>9

LEMMA NewRow ==
    LET base == [NoRow EXCEPT !.status = "live"]
    IN  /\ NoRow \in RowType /\ base \in RowType
        /\ base.add = {} /\ base.drop = {} /\ base.existing = {} /\ base.status = "live"
        /\ RowInv(NoRow) /\ RowInv([NoRow EXCEPT !.status = "gone"])
        /\ [NoRow EXCEPT !.status = "gone"] \in RowType
  BY DEF NoRow, NoRefs, RowType, RefsType, RowInv

\* A row is what its references, flags and indexes should be.
Sound(q) == q \in RowType /\ RowInv(q) /\ \A x \in q.flags : x[1] \in q.fields

\* A row saved with its references.
LEMMA SavedWithRefs ==
    ASSUME NEW r \in RowType, r.add = {}, r.drop = {}, r.status = "live",
           NEW before \in SUBSET Flags, NEW fields \in SUBSET Fields,
           NEW flags \in SUBSET Flags, \A x \in flags : x[1] \in fields,
           NEW redefined, NEW refs \in RefsType
    PROVE  LET q == [Saved(r, before, fields, flags, redefined) EXCEPT !.refs = refs]
           IN  /\ Sound(q) /\ q.status = "live"
               /\ q.existing \subseteq r.existing
<1> DEFINE p == Saved(r, before, fields, flags, redefined)
           q == [p EXCEPT !.refs = refs]
<1>1. /\ p \in RowType /\ p.status = r.status /\ p.refs = r.refs
      /\ p.fields = fields /\ p.flags = flags
      /\ p.existing \subseteq r.existing
      /\ p.add \cap p.drop = {} /\ p.drop \cap p.existing = {}
      /\ \A x \in flags : IndexOf(p.mapping, x) \in p.existing \cup p.add
  BY SavedRow, Zenon
<1> HIDE DEF p
<1>2. q \in RowType
  BY <1>1 DEF RowType
<1>3. /\ q.status = p.status /\ q.fields = p.fields /\ q.flags = p.flags
      /\ q.existing = p.existing /\ q.add = p.add /\ q.drop = p.drop
      /\ q.mapping = p.mapping
  BY <1>1 DEF RowType
<1> HIDE DEF q
<1>4. RowInv(q)
  BY <1>1, <1>3 DEF RowInv
<1>5. Sound(q) /\ q.status = "live" /\ q.existing \subseteq r.existing
  BY <1>1, <1>2, <1>3, <1>4 DEF Sound
<1> QED
  BY <1>5 DEF p, q

\* The same for a save that leaves the references alone.
LEMMA SavedSound ==
    ASSUME NEW r \in RowType, r.add = {}, r.drop = {}, r.status = "live",
           NEW before \in SUBSET Flags, NEW fields \in SUBSET Fields,
           NEW flags \in SUBSET Flags, \A x \in flags : x[1] \in fields,
           NEW redefined
    PROVE  LET q == Saved(r, before, fields, flags, redefined)
           IN  /\ Sound(q) /\ q.status = "live"
               /\ q.existing \subseteq r.existing
<1> DEFINE p == Saved(r, before, fields, flags, redefined)
<1>1. /\ p \in RowType /\ p.status = r.status /\ p.refs = r.refs
      /\ p.fields = fields /\ p.flags = flags
      /\ p.existing \subseteq r.existing
      /\ p.add \cap p.drop = {} /\ p.drop \cap p.existing = {}
      /\ \A x \in flags : IndexOf(p.mapping, x) \in p.existing \cup p.add
  BY SavedRow, Zenon
<1> HIDE DEF p
<1>2. RowInv(p)
  BY <1>1 DEF RowInv
<1> QED
  BY <1>1, <1>2 DEF Sound, p

LEMMA CreatedSound ==
    ASSUME NEW s \in Sockets, NEW fields \in SUBSET Fields,
           NEW flags \in SUBSET (fields \X Types)
    PROVE  /\ Sound(Created(s, fields, flags)) /\ Created(s, fields, flags).status = "live"
           /\ Created(s, fields, flags).existing = {}
<1> DEFINE base == [NoRow EXCEPT !.status = "live"]
           refs == [owner |-> "socket", managed |-> {s}, fields |-> fields \X {s},
                    props |-> {<<x[1], x[2], s>> : x \in flags}]
<1>1. refs \in RefsType
  BY DEF RefsType
<1>2. flags \in SUBSET Flags /\ \A x \in flags : x[1] \in fields
  BY DEF Flags
<1>3. /\ base \in RowType /\ base.add = {} /\ base.drop = {} /\ base.existing = {}
      /\ base.status = "live"
  BY NewRow
<1>4. Created(s, fields, flags) = [Saved(base, {}, fields, flags, {}) EXCEPT !.refs = refs]
  BY DEF Created
<1> HIDE DEF base, refs
<1> QED
  BY <1>1, <1>2, <1>3, <1>4, SavedWithRefs

LEMMA PropsType ==
    ASSUME NEW refs \in RefsType
    PROVE  PropsOf(refs) \in SUBSET Flags
  BY DEF PropsOf, RefsType, Flags

LEMMA CleanFlagsType ==
    ASSUME NEW flags \in SUBSET Flags, NEW old \in RefsType, NEW new \in RefsType
    PROVE  CleanFlags(flags, old, new) \in SUBSET Flags
  BY PropsType DEF CleanFlags

\* A flag left by cleanup_refs_props is asked for by a socket, or was there
\* without one.
LEMMA CleanFlagsOrigin ==
    ASSUME NEW flags, NEW old, NEW new, NEW x \in CleanFlags(flags, old, new)
    PROVE  x \in PropsOf(new) \/ (x \in flags /\ x \notin PropsOf(old))
  BY DEF CleanFlags

LEMMA CleanedUpSound ==
    ASSUME NEW r, Sound(r), r.add = {}, r.drop = {}, r.status = "live",
           NEW refs \in RefsType
    PROVE  /\ Sound(CleanedUp(r, refs)) /\ CleanedUp(r, refs).status = "live"
           /\ CleanedUp(r, refs).existing \subseteq r.existing
<1> DEFINE flags == CleanFlags(r.flags, r.refs, refs)
           fields == CleanFields(r.fields, r.refs, refs)
           kept == {x \in flags : x[1] \in fields}
           q == [r EXCEPT !.flags = kept, !.refs = refs]
<1>1. r \in RowType /\ r.flags \in SUBSET Flags /\ r.fields \in SUBSET Fields
      /\ r.refs \in RefsType
  BY DEF Sound, RowType
<1>2. flags \in SUBSET Flags
  BY <1>1, CleanFlagsType
<1>3. fields \in SUBSET Fields
  BY <1>1 DEF CleanFields
<1>4. kept \in SUBSET Flags /\ \A x \in kept : x[1] \in fields /\ x \in flags
  BY <1>2
<1>5. \A x \in kept : x \in PropsOf(refs) \/ (x \in r.flags /\ x \notin PropsOf(r.refs))
  BY <1>4, CleanFlagsOrigin
<1>6. CleanedUp(r, refs) =
        IF fields # r.fields THEN [Saved(r, flags, fields, kept, {}) EXCEPT !.refs = refs]
        ELSE IF refs # r.refs THEN q ELSE r
  BY DEF CleanedUp
<1> HIDE DEF flags, fields, kept
<1>7. CASE fields # r.fields
  BY <1>1, <1>2, <1>3, <1>4, <1>6, <1>7, SavedWithRefs
<1>8. CASE fields = r.fields /\ refs # r.refs
  <2>1. q \in RowType
    BY <1>1, <1>4 DEF RowType
  <2>2. /\ q.status = r.status /\ q.fields = r.fields /\ q.flags = kept
        /\ q.existing = r.existing /\ q.add = r.add /\ q.drop = r.drop
        /\ q.mapping = r.mapping /\ q.refs = refs
    BY <1>1 DEF RowType
  <2> HIDE DEF q
  <2>3. RowInv(q)
    BY <1>5, <2>2 DEF RowInv, Sound
  <2>4. Sound(q)
    BY <1>4, <1>8, <2>1, <2>2, <2>3 DEF Sound
  <2> QED
    BY <1>6, <1>8, <2>2, <2>4
<1>9. CASE fields = r.fields /\ refs = r.refs
  BY <1>6, <1>9
<1> QED
  BY <1>7, <1>8, <1>9

LEMMA MergedType ==
    ASSUME NEW r \in RowType, NEW s \in Sockets, NEW had, NEW fields \in SUBSET Fields,
           NEW flags \in SUBSET Flags
    PROVE  Merged(r, s, had, fields, flags) \in RefsType
<1> DEFINE m == Merged(r, s, had, fields, flags)
<1>1. r.refs \in RefsType
  BY DEF RowType
<1>2. m.managed \in SUBSET Sockets /\ m.owner \in {"user", "socket"}
  BY <1>1 DEF Merged, RefsType
<1>3. m.fields \in SUBSET (Fields \X Sockets)
  BY <1>1 DEF Merged, RefsType
<1>4. m.props \in SUBSET (Fields \X Types \X Sockets)
  <2>1. \A x \in flags : <<x[1], x[2], s>> \in Fields \X Types \X Sockets
    BY DEF Flags
  <2> QED
    BY <1>1, <2>1 DEF Merged, RefsType
<1>5. m = [owner |-> m.owner, managed |-> m.managed, fields |-> m.fields, props |-> m.props]
  BY DEF Merged
<1> HIDE DEF m
<1>6. m \in RefsType
  BY <1>2, <1>3, <1>4, <1>5 DEF RefsType
<1> QED
  BY <1>6 DEF m

LEMMA UpdatedSound ==
    ASSUME NEW r, Sound(r), r.add = {}, r.drop = {}, r.status = "live",
           NEW s \in Sockets, NEW had, NEW fields \in SUBSET Fields,
           NEW flags \in SUBSET Flags, NEW redefined
    PROVE  LET q == Updated(r, s, had, fields, flags, redefined)
           IN  Sound(q) /\ q.status = "live" /\ q.existing \subseteq r.existing
<1> DEFINE refs == Merged(r, s, had, fields, flags)
           left == CleanFields(r.fields \cup fields, r.refs, refs)
           asked == CleanFlags(r.flags \cup flags, r.refs, refs)
           kept == {x \in asked : x[1] \in left}
           q == [r EXCEPT !.refs = refs]
<1>1. r \in RowType /\ r.flags \in SUBSET Flags /\ r.fields \in SUBSET Fields
      /\ r.refs \in RefsType
  BY DEF Sound, RowType
<1>2. refs \in RefsType
  BY <1>1, MergedType
<1>3. asked \in SUBSET Flags
  BY <1>1, <1>2, CleanFlagsType
<1>4. left \in SUBSET Fields
  BY <1>1 DEF CleanFields
<1>5. kept \in SUBSET Flags /\ \A x \in kept : x[1] \in left /\ x \in asked
  BY <1>3
<1>6. \A x \in kept : x \in PropsOf(refs) \/ x \notin PropsOf(r.refs)
  BY <1>5, CleanFlagsOrigin
<1>7. Updated(r, s, had, fields, flags, redefined) =
        IF left = r.fields /\ kept = r.flags /\ redefined = {} THEN q
        ELSE [Saved(r, r.flags, left, kept, redefined) EXCEPT !.refs = refs]
  BY DEF Updated
<1> HIDE DEF refs, left, asked, kept
<1>8. CASE left = r.fields /\ kept = r.flags /\ redefined = {}
  <2>1. q \in RowType
    BY <1>1, <1>2 DEF RowType
  <2>2. /\ q.status = r.status /\ q.fields = r.fields /\ q.flags = r.flags
        /\ q.existing = r.existing /\ q.add = r.add /\ q.drop = r.drop
        /\ q.mapping = r.mapping /\ q.refs = refs
    BY <1>1 DEF RowType
  <2> HIDE DEF q
  <2>3. RowInv(q)
    BY <1>6, <1>8, <2>2 DEF RowInv, Sound
  <2>4. Sound(q)
    BY <2>1, <2>2, <2>3 DEF Sound
  <2> QED
    BY <1>7, <1>8, <2>2, <2>4
<1>9. CASE ~(left = r.fields /\ kept = r.flags /\ redefined = {})
  <2> DEFINE t == [Saved(r, r.flags, left, kept, redefined) EXCEPT !.refs = refs]
  <2>1. Sound(t) /\ t.status = "live" /\ t.existing \subseteq r.existing
    BY <1>1, <1>2, <1>4, <1>5, SavedWithRefs, Zenon
  <2> QED
    BY <1>7, <1>9, <2>1
<1> QED
  BY <1>8, <1>9

-----------------------------------------------------------------------------
(* Steps that save an unlocked class *)

DbType == [Classes -> [valid : SUBSET Index, invalid : SUBSET Index]]
InstalledType == [Sockets -> [Classes -> SUBSET Fields]]
OpsType == SUBSET [klass : Classes, op : {"delete", "cleanup"}]

LEMMA RowStep ==
    ASSUME IInv, NEW k \in Classes, NEW q, Sound(q), ~Locked(k),
           row[k].status # "gone", q.status # "gone",
           q.status = "live" => q.existing \subseteq db[k].valid,
           row' = [row EXCEPT ![k] = q],
           UNCHANGED <<db, lock, job, after, drops, lostDrops>>,
           queued' \in Nat, installed' \in InstalledType, ops' \in OpsType,
           saves' \in 0..MaxSaves, faults' \in 0..MaxFaults
    PROVE  IInv'
<1>1. row \in [Classes -> RowType] /\ q \in RowType
  BY DEF IInv, TypeOK, Sound
<1>2. /\ row' \in [Classes -> RowType] /\ row'[k] = q
      /\ \A c \in Classes : c # k => row'[c] = row[c]
  BY <1>1
<1>3. TypeOK'
  <2>1. \A c \in Classes : \A x \in row'[c].flags : x[1] \in row'[c].fields
    BY <1>2 DEF IInv, TypeOK, Sound
  <2> QED
    BY <1>2, <2>1 DEF IInv, TypeOK, InstalledType, OpsType
<1>4. \A c \in Classes : RowInv(row'[c])
  BY <1>2 DEF IInv, Sound
<1>5. job \in JobType
  BY DEF IInv, TypeOK
<1>6. job.kind \in {"index", "failed", "purge"} => job.klass \in Classes /\ job.klass # k
  BY <1>5 DEF IInv, IndexJobInv, PurgeInv, JobType
<1>7. LockInv'
  BY DEF IInv, LockInv
<1>8. IndexJobInv'
  <2> SUFFICES ASSUME job.kind \in {"index", "failed"}
               PROVE  IndexJobInv'
    BY DEF IndexJobInv
  <2>1. row'[job.klass] = row[job.klass]
    BY <1>2, <1>6
  <2> QED
    BY <2>1 DEF IInv, IndexJobInv, Live, Locked
<1>9. PurgeInv'
  <2> SUFFICES ASSUME job.kind = "purge"
               PROVE  PurgeInv'
    BY DEF PurgeInv
  <2>1. row'[job.klass] = row[job.klass]
    BY <1>2, <1>6
  <2> QED
    BY <2>1 DEF IInv, PurgeInv
<1>10. IndexesBacked'
  BY <1>2 DEF IInv, IndexesBacked, Live
<1>11. NoIndexLeft'
  BY <1>2 DEF IInv, NoIndexLeft
<1>12. \A c \in drops' : row'[c].status = "gone"
  BY <1>2 DEF IInv, TypeOK
<1> QED
  BY <1>3, <1>4, <1>7, <1>8, <1>9, <1>10, <1>11, <1>12 DEF IInv

\* An unlocked row is Sound and has nothing to build or drop.
LEMMA Unlocked ==
    ASSUME IInv, NEW k \in Classes, ~Locked(k)
    PROVE  Sound(row[k]) /\ row[k].add = {} /\ row[k].drop = {}
  BY DEF IInv, TypeOK, Sound, Locked

\* Steps that Store a row.
LEMMA StoreStep ==
    ASSUME IInv, NEW k \in Classes, NEW q, Sound(q), q.status = "live", ~Locked(k),
           row[k].status # "gone", q.existing \subseteq db[k].valid,
           Store(k, q), UNCHANGED <<db, faults>>,
           installed' \in InstalledType, ops' \in OpsType, saves' \in 0..MaxSaves
    PROVE  IInv'
<1>1. queued' \in Nat
  BY DEF Store, IInv, TypeOK
<1>2. faults' \in 0..MaxFaults
  BY DEF IInv, TypeOK
<1> QED
  BY <1>1, <1>2, RowStep DEF Store

LEMMA CountType ==
    ASSUME IInv, Count
    PROVE  saves' \in 0..MaxSaves
  BY IndexesAssumption DEF IInv, TypeOK, Count

LEMMA KeptTypes ==
    ASSUME IInv
    PROVE  /\ installed \in InstalledType /\ ops \in OpsType
           /\ saves \in 0..MaxSaves /\ faults \in 0..MaxFaults /\ queued \in Nat
  BY DEF IInv, TypeOK, InstalledType, OpsType

LEMMA Subflags ==
    ASSUME NEW fields \in SUBSET Fields, NEW flags \in FlagSets(fields)
    PROVE  flags \in SUBSET Flags /\ flags \in SUBSET (fields \X Types)
           /\ \A x \in flags : x[1] \in fields
  BY DEF FlagSets, Flags

\* A row that does not exist yet is not locked.
LEMMA NewUnlocked ==
    ASSUME IInv, NEW k \in Classes, row[k].status # "live"
    PROVE  ~Locked(k)
  BY DEF IInv, RowInv, Locked

LEMMA CreateClassStep ==
    ASSUME IInv, NEW k \in Classes, CreateClass(k)
    PROVE  IInv'
<1>1. PICK fields \in SUBSET Fields, flags \in SUBSET Flags :
        /\ flags \in FlagSets(fields) /\ row[k].status = "new"
        /\ Store(k, Saved([NoRow EXCEPT !.status = "live"], {}, fields, flags, {}))
        /\ Count /\ UNCHANGED <<installed, db, ops, faults>>
  BY Subflags DEF CreateClass
<1> DEFINE base == [NoRow EXCEPT !.status = "live"]
           q == Saved(base, {}, fields, flags, {})
<1>2. /\ base \in RowType /\ base.add = {} /\ base.drop = {} /\ base.existing = {}
      /\ base.status = "live"
  BY NewRow
<1>3. flags \in SUBSET Flags /\ \A x \in flags : x[1] \in fields
  BY <1>1, Subflags
<1> HIDE DEF base
<1>4. Sound(q) /\ q.status = "live" /\ q.existing \subseteq base.existing
  BY <1>2, <1>3, SavedSound
<1> HIDE DEF q
<1>5. Store(k, q)
  BY <1>1 DEF q, base
<1>6. ~Locked(k)
  BY <1>1, NewUnlocked
<1> QED
  BY <1>1, <1>2, <1>4, <1>5, <1>6, StoreStep, CountType, KeptTypes

LEMMA UpdateClassStep ==
    ASSUME IInv, NEW k \in Classes, UpdateClass(k)
    PROVE  IInv'
<1>1. PICK fields \in SUBSET Fields, flags \in SUBSET Flags, redefined \in SUBSET Fields :
        /\ flags \in FlagSets(fields) /\ Editable(k)
        /\ Store(k, Saved(row[k], row[k].flags, fields, flags, redefined))
        /\ Count /\ UNCHANGED <<installed, db, ops, faults>>
  BY Subflags DEF UpdateClass
<1> DEFINE q == Saved(row[k], row[k].flags, fields, flags, redefined)
<1>2. /\ Sound(row[k]) /\ row[k].add = {} /\ row[k].drop = {} /\ row[k].status = "live"
      /\ row[k] \in RowType /\ row[k].flags \in SUBSET Flags /\ ~Locked(k)
  BY <1>1, Unlocked DEF Editable, Live, Sound, RowType
<1>3. flags \in SUBSET Flags /\ \A x \in flags : x[1] \in fields
  BY <1>1, Subflags
<1>4. Sound(q) /\ q.status = "live" /\ q.existing \subseteq row[k].existing
  BY <1>2, <1>3, SavedSound, Zenon
<1> HIDE DEF q
<1>5. row[k].existing \subseteq db[k].valid
  BY <1>2 DEF IInv, IndexesBacked, Live
<1>6. Store(k, q)
  BY <1>1 DEF q
<1> QED
  BY <1>1, <1>2, <1>4, <1>5, <1>6, StoreStep, CountType, KeptTypes

LEMMA InstalledStep ==
    ASSUME IInv, NEW s \in Sockets, NEW k \in Classes, NEW fields \in SUBSET Fields,
           installed' = [installed EXCEPT ![s][k] = fields]
    PROVE  installed' \in InstalledType
  BY DEF IInv, TypeOK, InstalledType

LEMMA InstallNewStep ==
    ASSUME IInv, NEW s \in Sockets, NEW k \in Classes, InstallNew(s, k)
    PROVE  IInv'
<1>1. PICK fields \in SUBSET Fields, flags \in SUBSET Flags :
        /\ flags \in FlagSets(fields) /\ row[k].status = "new" /\ Store(k, Created(s, fields, flags))
        /\ installed' = [installed EXCEPT ![s][k] = fields]
        /\ Count /\ UNCHANGED <<db, ops, faults>>
  BY Subflags DEF InstallNew
<1> DEFINE q == Created(s, fields, flags)
<1>2. flags \in SUBSET (fields \X Types)
  BY <1>1, Subflags
<1>3. Sound(q) /\ q.status = "live" /\ q.existing = {}
  BY <1>2, CreatedSound
<1> HIDE DEF q
<1>4. Store(k, q)
  BY <1>1 DEF q
<1>5. ~Locked(k)
  BY <1>1, NewUnlocked
<1>6. installed' \in InstalledType
  BY <1>1, InstalledStep
<1> QED
  BY <1>1, <1>3, <1>4, <1>5, <1>6, StoreStep, CountType, KeptTypes

LEMMA InstallExistingStep ==
    ASSUME IInv, NEW s \in Sockets, NEW k \in Classes, InstallExisting(s, k)
    PROVE  IInv'
<1> DEFINE Body(fields, flags, redefined) ==
        /\ Editable(k)
        /\ CanClean(row[k].fields \cup fields,
                    [row[k].refs EXCEPT !.props = @ \cup Merged(row[k], s, installed[s][k],
                                                               fields, flags).props])
        /\ Store(k, Updated(row[k], s, installed[s][k], fields, flags, redefined))
        /\ installed' = [installed EXCEPT ![s][k] = fields]
        /\ Count /\ UNCHANGED <<db, ops, faults>>
<1>0. \E fields \in SUBSET Fields \ {{}} :
      \E flags \in FlagSets(fields),
         redefined \in SUBSET (fields \cap row[k].fields) :
        Body(fields, flags, redefined)
  BY Zenon DEF InstallExisting
<1> HIDE DEF Body
<1>1. PICK fields \in SUBSET Fields, flags \in SUBSET Flags, redefined \in SUBSET Fields :
        flags \in FlagSets(fields) /\ Body(fields, flags, redefined)
  BY <1>0, Subflags
<1> USE DEF Body
<1> DEFINE q == Updated(row[k], s, installed[s][k], fields, flags, redefined)
<1>2. /\ Sound(row[k]) /\ row[k].add = {} /\ row[k].drop = {} /\ row[k].status = "live"
      /\ ~Locked(k)
  BY <1>1, Unlocked DEF Editable, Live
<1>3. flags \in SUBSET Flags
  BY <1>1, Subflags
<1>4. Sound(q) /\ q.status = "live" /\ q.existing \subseteq row[k].existing
  BY <1>2, <1>3, UpdatedSound, Zenon
<1> HIDE DEF q
<1>5. row[k].existing \subseteq db[k].valid
  BY <1>2 DEF IInv, IndexesBacked, Live
<1>6. Store(k, q)
  BY <1>1 DEF q
<1>7. installed' \in InstalledType
  BY <1>1, InstalledStep
<1> QED
  BY <1>1, <1>2, <1>4, <1>5, <1>6, <1>7, StoreStep, CountType, KeptTypes

LEMMA UnrefType ==
    ASSUME NEW refs \in RefsType, NEW s, NEW had
    PROVE  Unref(refs, s, had) \in RefsType
  BY DEF Unref, RefsType

LEMMA SoftDeleteStep ==
    ASSUME IInv, NEW k \in Classes, Live(k), ~Locked(k), SoftDelete(k),
           UNCHANGED <<db, saves, faults>>,
           installed' \in InstalledType, ops' \in OpsType
    PROVE  IInv'
<1> DEFINE q == [row[k] EXCEPT !.status = "dead"]
<1>1. Sound(row[k]) /\ row[k].add = {} /\ row[k].drop = {} /\ row[k] \in RowType
  BY Unlocked DEF Sound
<1>2. row' = [row EXCEPT ![k] = q]
  BY DEF SoftDelete, IInv, TypeOK
<1>3. q \in RowType
  BY <1>1 DEF RowType
<1>4. /\ q.status = "dead" /\ q.fields = row[k].fields /\ q.flags = row[k].flags
      /\ q.existing = row[k].existing /\ q.add = {} /\ q.drop = {}
      /\ q.mapping = row[k].mapping /\ q.refs = row[k].refs
  BY <1>1 DEF RowType
<1> HIDE DEF q
<1>5. Sound(q)
  BY <1>1, <1>3, <1>4 DEF Sound, RowInv
<1>6. UNCHANGED <<db, lock, job, after, drops, lostDrops>> /\ queued' = queued
  BY DEF SoftDelete, taskVars
<1> QED
  BY <1>2, <1>4, <1>5, <1>6, RowStep, KeptTypes DEF Live

LEMMA DestroyClassStep ==
    ASSUME IInv, NEW k \in Classes, DestroyClass(k)
    PROVE  IInv'
  BY SoftDeleteStep, KeptTypes DEF DestroyClass

LEMMA UnchangedRows ==
    ASSUME IInv, UNCHANGED <<row, taskVars, db, saves, faults>>,
           installed' \in InstalledType, ops' \in OpsType
    PROVE  IInv'
<1>1. UNCHANGED <<row, lock, job, queued, after, drops, lostDrops, db, saves, faults>>
  BY DEF taskVars
<1>2. TypeOK'
  BY <1>1 DEF IInv, TypeOK, InstalledType, OpsType
<1> QED
  BY <1>1, <1>2 DEF IInv, RowInv, LockInv, IndexJobInv, PurgeInv, IndexesBacked, NoIndexLeft,
                    Live, Locked

LEMMA CleanupStep ==
    ASSUME IInv, NEW k \in Classes, Live(k), ~Locked(k), NEW refs \in RefsType,
           Store(k, CleanedUp(row[k], refs)), UNCHANGED <<db, saves, faults>>,
           installed' \in InstalledType, ops' \in OpsType
    PROVE  IInv'
<1> DEFINE q == CleanedUp(row[k], refs)
<1>1. Sound(row[k]) /\ row[k].add = {} /\ row[k].drop = {} /\ row[k].status = "live"
  BY Unlocked DEF Live
<1>2. Sound(q) /\ q.status = "live" /\ q.existing \subseteq row[k].existing
  BY <1>1, CleanedUpSound
<1> HIDE DEF q
<1>3. Store(k, q)
  BY DEF q
<1>4. row[k].existing \subseteq db[k].valid
  BY DEF IInv, IndexesBacked
<1> QED
  BY <1>1, <1>2, <1>3, <1>4, StoreStep, KeptTypes

LEMMA UninstallStep ==
    ASSUME IInv, NEW s \in Sockets, NEW k \in Classes, Uninstall(s, k)
    PROVE  IInv'
<1> DEFINE refs == Unref(row[k].refs, s, installed[s][k])
<1>1. refs \in RefsType
  BY UnrefType DEF IInv, TypeOK, RowType
<1>2. installed' \in InstalledType
  <2>1. installed' = [installed EXCEPT ![s][k] = {}]
    BY DEF Uninstall
  <2> QED
    BY <2>1 DEF IInv, TypeOK, InstalledType
<1>3. UNCHANGED <<db, saves, faults>>
  BY DEF Uninstall
<1>4. CASE ~Live(k) /\ UNCHANGED <<row, taskVars, ops>>
  BY <1>2, <1>3, <1>4, UnchangedRows, KeptTypes
<1>5. CASE /\ UNCHANGED <<row, taskVars>>
           /\ ops' = ops \cup
                 {[klass |-> k, op |-> IF Unmanaged(refs) THEN "delete" ELSE "cleanup"]}
  <2>1. ops' \in OpsType
    BY <1>5, KeptTypes DEF OpsType
  <2> QED
    BY <1>2, <1>3, <1>5, <2>1, UnchangedRows
<1>6. CASE Live(k) /\ ~Locked(k) /\ SoftDelete(k) /\ UNCHANGED ops
  BY <1>2, <1>3, <1>6, SoftDeleteStep, KeptTypes
<1>7. CASE Live(k) /\ ~Locked(k) /\ Store(k, CleanedUp(row[k], refs)) /\ UNCHANGED ops
  <2> HIDE DEF refs
  <2> QED
    BY <1>1, <1>2, <1>3, <1>7, CleanupStep, KeptTypes
<1> QED
  BY <1>4, <1>5, <1>6, <1>7 DEF Uninstall

LEMMA KlassOperationStep ==
    ASSUME IInv, NEW k \in Classes, KlassOperation(k)
    PROVE  IInv'
<1>1. PICK m \in ops :
        /\ ~(Live(k) /\ Locked(k)) /\ ops' = ops \ {m}
        /\ \/ UNCHANGED <<row, taskVars>>
           \/ Live(k) /\ SoftDelete(k)
           \/ Live(k) /\ Store(k, CleanedUp(row[k], row[k].refs))
        /\ UNCHANGED <<installed, db, saves, faults>>
  BY DEF KlassOperation
<1>2. ops' \in OpsType /\ installed' \in InstalledType
  BY <1>1, KeptTypes DEF OpsType
<1>3. row[k].refs \in RefsType
  BY DEF IInv, TypeOK, RowType
<1>4. CASE UNCHANGED <<row, taskVars>>
  BY <1>1, <1>2, <1>4, UnchangedRows
<1>5. CASE Live(k) /\ SoftDelete(k)
  BY <1>1, <1>2, <1>5, SoftDeleteStep
<1>6. CASE Live(k) /\ Store(k, CleanedUp(row[k], row[k].refs))
  BY <1>1, <1>2, <1>3, <1>6, CleanupStep
<1> QED
  BY <1>1, <1>4, <1>5, <1>6

LEMMA HardDeleteStep ==
    ASSUME IInv, NEW k \in Classes, HardDelete(k)
    PROVE  IInv'
<1> DEFINE q == [NoRow EXCEPT !.status = "gone"]
<1>1. /\ row[k].status = "dead" /\ row' = [row EXCEPT ![k] = q] /\ drops' = drops \cup {k}
      /\ UNCHANGED <<installed, db, lock, job, queued, after, ops, lostDrops, saves, faults>>
  BY DEF HardDelete
<1>2. q \in RowType /\ RowInv(q)
  BY NewRow
<1>3. q.status = "gone" /\ q.flags = {}
  BY DEF NoRow
<1> HIDE DEF q
<1>4. /\ row' \in [Classes -> RowType] /\ row'[k] = q
      /\ \A c \in Classes : c # k => row'[c] = row[c]
  BY <1>1, <1>2 DEF IInv, TypeOK
<1>5. TypeOK'
  <2>1. \A c \in Classes : \A x \in row'[c].flags : x[1] \in row'[c].fields
    BY <1>3, <1>4 DEF IInv, TypeOK
  <2> QED
    BY <1>1, <1>4, <2>1 DEF IInv, TypeOK
<1>6. \A c \in Classes : RowInv(row'[c])
  BY <1>2, <1>4 DEF IInv
<1>7. job.kind \in {"index", "failed", "purge"} => job.klass \in Classes /\ job.klass # k
  BY <1>1 DEF IInv, TypeOK, IndexJobInv, PurgeInv, JobType, Live
<1>8. LockInv' /\ IndexJobInv' /\ PurgeInv'
  <2>1. LockInv'
    BY <1>1 DEF IInv, LockInv
  <2>2. IndexJobInv'
    <3> SUFFICES ASSUME job.kind \in {"index", "failed"}
                 PROVE  IndexJobInv'
      BY <1>1 DEF IndexJobInv
    <3>1. row'[job.klass] = row[job.klass]
      BY <1>4, <1>7
    <3> QED
      BY <1>1, <3>1 DEF IInv, IndexJobInv, Live, Locked
  <2>3. PurgeInv'
    <3> SUFFICES ASSUME job.kind = "purge"
                 PROVE  PurgeInv'
      BY <1>1 DEF PurgeInv
    <3>1. row'[job.klass] = row[job.klass]
      BY <1>4, <1>7
    <3> QED
      BY <1>1, <3>1 DEF IInv, PurgeInv
  <2> QED
    BY <2>1, <2>2, <2>3
<1>9. IndexesBacked' /\ NoIndexLeft'
  BY <1>1, <1>3, <1>4 DEF IInv, IndexesBacked, NoIndexLeft, Live
<1>10. \A c \in drops' : row'[c].status = "gone"
  BY <1>1, <1>3, <1>4 DEF IInv, TypeOK
<1> QED
  BY <1>5, <1>6, <1>8, <1>9, <1>10 DEF IInv

-----------------------------------------------------------------------------
(* Steps of the tasks under the lock *)

LEMMA StartIndexingStep ==
    ASSUME IInv, StartIndexing
    PROVE  IInv'
<1>1. /\ queued > 0 /\ lock = "free" /\ queued' = queued - 1 /\ lock' = "held"
      /\ UNCHANGED <<row, installed, db, after, drops, ops, lostDrops, saves, faults>>
  BY DEF StartIndexing
<1>2. queued' \in Nat
  BY <1>1 DEF IInv, TypeOK
<1>3. job.kind = "none"
  BY <1>1 DEF IInv, LockInv
<1>4. /\ \A c \in Classes : RowInv(row[c])'
      /\ IndexesBacked' /\ \A c \in drops' : row'[c].status = "gone"
  BY <1>1 DEF IInv, IndexesBacked, Live, RowInv
<1>5. job' \in JobType => TypeOK'
  BY <1>1, <1>2 DEF IInv, TypeOK
<1>6. job'.kind # "purge" => NoIndexLeft' /\ PurgeInv'
  BY <1>1, <1>3 DEF IInv, NoIndexLeft, PurgeInv
<1>7. CASE job' = [NoJob EXCEPT !.kind = "release"]
  <2>1. job' \in JobType /\ job'.kind = "release"
    BY <1>7 DEF NoJob, JobType
  <2> QED
    BY <1>1, <1>4, <1>5, <1>6, <2>1 DEF IInv, LockInv, IndexJobInv
<1>8. ASSUME NEW k \in Migrating,
             job' = [kind |-> "index", klass |-> k, done |-> {},
                     todo |-> ({"create"} \X row[k].add) \cup ({"drop"} \X row[k].drop)]
      PROVE  IInv'
  <2>1. k \in Classes /\ Live(k) /\ Locked(k)
    BY DEF Migrating
  <2>2. row[k].add \in SUBSET Index /\ row[k].drop \in SUBSET Index
    BY <2>1 DEF IInv, TypeOK, RowType
  <2>3. job'.todo \in SUBSET Steps
    BY <1>8, <2>2 DEF Steps
  <2>4. job' \in JobType /\ job'.kind = "index" /\ job'.klass = k /\ job'.done = {}
    BY <1>8, <2>1, <2>3 DEF JobType
  <2>5. IndexJobInv'
    BY <1>1, <1>8, <2>1 DEF IndexJobInv, Live, Locked
  <2>6. LockInv'
    BY <1>1, <2>4 DEF LockInv
  <2> QED
    BY <1>1, <1>4, <1>5, <1>6, <2>4, <2>5, <2>6 DEF IInv
<1> QED
  BY <1>7, <1>8 DEF StartIndexing

LEMMA StartDroppingStep ==
    ASSUME IInv, NEW k \in Classes, StartDropping(k)
    PROVE  IInv'
<1>1. /\ k \in drops /\ lock = "free" /\ drops' = drops \ {k} /\ lock' = "held"
      /\ job' = [kind |-> "purge", klass |-> k, done |-> {},
                 todo |-> {"drop"} \X (db[k].valid \cup db[k].invalid)]
      /\ UNCHANGED <<row, installed, db, queued, after, ops, lostDrops, saves, faults>>
  BY DEF StartDropping
<1>2. job.kind = "none"
  BY <1>1 DEF IInv, LockInv
<1>3. db[k].valid \in SUBSET Index /\ db[k].invalid \in SUBSET Index
  BY DEF IInv, TypeOK
<1>4. job'.todo \in SUBSET Steps
  BY <1>1, <1>3 DEF Steps
<1>5. job' \in JobType /\ job'.kind = "purge" /\ job'.klass = k
  BY <1>1, <1>4 DEF JobType
<1>6. TypeOK'
  BY <1>1, <1>5 DEF IInv, TypeOK
<1>7. PurgeInv' /\ IndexJobInv' /\ LockInv'
  BY <1>1, <1>5 DEF IInv, PurgeInv, IndexJobInv, LockInv
<1>8. NoIndexLeft'
  BY <1>1, <1>2, <1>5 DEF IInv, NoIndexLeft
<1>9. /\ \A c \in Classes : RowInv(row[c])'
      /\ IndexesBacked' /\ \A c \in drops' : row'[c].status = "gone"
  BY <1>1 DEF IInv, IndexesBacked, Live, RowInv
<1> QED
  BY <1>6, <1>7, <1>8, <1>9 DEF IInv

\* The locals of a running task have their types.
LEMMA RunningJob ==
    ASSUME IInv, job.kind \in {"index", "failed", "purge"}
    PROVE  /\ job.klass \in Classes /\ job.todo \in SUBSET Steps /\ job.done \in SUBSET Index
           /\ job = [kind |-> job.kind, klass |-> job.klass, todo |-> job.todo,
                     done |-> job.done]
  BY DEF IInv, TypeOK, JobType

LEMMA ExecuteDDLStep ==
    ASSUME IInv, ExecuteDDL
    PROVE  IInv'
<1> DEFINE k == job.klass
<1>1. /\ job.kind \in {"index", "purge"} /\ lock = "held"
      /\ UNCHANGED <<row, installed, lock, queued, after, drops, ops, lostDrops, saves, faults>>
  BY DEF ExecuteDDL, Running
<1>2. PICK x \in job.todo :
        /\ db' = [db EXCEPT ![k] =
                    [valid |-> IF x[1] = "create" THEN @.valid \cup {x[2]} ELSE @.valid \ {x[2]},
                     invalid |-> @.invalid \ {x[2]}]]
        /\ job' = [job EXCEPT !.todo = @ \ {x},
                              !.done = IF x[1] = "create" THEN @ \cup {x[2]} ELSE @]
  BY DEF ExecuteDDL
<1>3. /\ k \in Classes /\ job.todo \in SUBSET Steps /\ job.done \in SUBSET Index
      /\ job = [kind |-> job.kind, klass |-> k, todo |-> job.todo, done |-> job.done]
  BY <1>1, RunningJob
<1>4. x[2] \in Index /\ x[1] \in {"create", "drop"} /\ x = <<x[1], x[2]>>
  BY <1>3 DEF Steps
<1>5. /\ job'.kind = job.kind /\ job'.klass = k /\ job'.todo = job.todo \ {x}
      /\ job'.done = IF x[1] = "create" THEN job.done \cup {x[2]} ELSE job.done
  BY <1>2, <1>3
<1>6. job' \in JobType
  <2>1. job'.done \in SUBSET Index /\ job'.todo \in SUBSET Steps
    BY <1>3, <1>4, <1>5
  <2>2. job' = [kind |-> job.kind, klass |-> k, todo |-> job'.todo, done |-> job'.done]
    BY <1>2, <1>3
  <2> QED
    BY <1>1, <1>3, <2>1, <2>2 DEF JobType
<1>7. db \in DbType
  BY DEF IInv, TypeOK, DbType
<1>8. /\ db'[k].valid = IF x[1] = "create" THEN db[k].valid \cup {x[2]} ELSE db[k].valid \ {x[2]}
      /\ db'[k].invalid = db[k].invalid \ {x[2]}
      /\ \A c \in Classes : c # k => db'[c] = db[c]
  BY <1>2, <1>3, <1>7 DEF DbType
<1>9. db' \in DbType
  BY <1>2, <1>3, <1>4, <1>7 DEF DbType
<1>10. TypeOK'
  BY <1>1, <1>6, <1>9 DEF IInv, TypeOK, DbType
<1> HIDE DEF k
<1>11. LockInv'
  BY <1>1, <1>5 DEF IInv, LockInv
<1>12. CASE job.kind = "index"
  <2>1. /\ row[k].status = "live"
        /\ job.todo \subseteq ({"create"} \X row[k].add) \cup ({"drop"} \X row[k].drop)
        /\ job.done \subseteq row[k].add \cap db[k].valid
        /\ \A ix \in row[k].add : ix \in job.done \/ <<"create", ix>> \in job.todo
        /\ Locked(k)
    BY <1>12 DEF IInv, IndexJobInv, k, Live
  <2>2. row[k].add \cap row[k].drop = {} /\ row[k].drop \cap row[k].existing = {}
    BY <1>3 DEF IInv, RowInv
  <2>3. row[k].existing \subseteq db[k].valid
    BY <1>3, <2>1 DEF IInv, IndexesBacked, Live
  <2>4. \/ x[1] = "create" /\ x[2] \in row[k].add
        \/ x[1] = "drop" /\ x[2] \in row[k].drop
    BY <1>4, <2>1
  <2>5. row[k].existing \subseteq db'[k].valid
    BY <1>8, <2>2, <2>3, <2>4
  <2>6. job'.done \subseteq row[k].add \cap db'[k].valid
    BY <1>5, <1>8, <2>1, <2>2, <2>4
  <2>7. \A ix \in row[k].add : ix \in job'.done \/ <<"create", ix>> \in job'.todo
    <3> TAKE ix \in row[k].add
    <3>1. CASE <<"create", ix>> = x
      <4>1. x[1] = "create" /\ x[2] = ix
        BY <3>1
      <4> QED
        BY <1>5, <4>1
    <3>2. CASE <<"create", ix>> # x
      <4>1. job.done \subseteq job'.done
        BY <1>5
      <4>2. ix \in job.done \/ <<"create", ix>> \in job.todo
        BY <2>1
      <4> QED
        BY <1>5, <3>2, <4>1, <4>2
    <3> QED
      BY <3>1, <3>2
  <2>8. job'.todo \subseteq ({"create"} \X row[k].add) \cup ({"drop"} \X row[k].drop)
    BY <1>5, <2>1
  <2>9. IndexJobInv'
    BY <1>1, <1>5, <2>1, <2>6, <2>7, <2>8 DEF IndexJobInv, Live, Locked
  <2>10. PurgeInv'
    BY <1>5, <1>12 DEF PurgeInv
  <2>11. IndexesBacked'
    BY <1>1, <1>3, <1>8, <2>5 DEF IInv, IndexesBacked, Live
  <2>12. NoIndexLeft'
    BY <1>1, <1>3, <1>8, <1>12, <2>1 DEF IInv, NoIndexLeft
  <2> QED
    BY <1>1, <1>10, <1>11, <2>9, <2>10, <2>11, <2>12 DEF IInv, RowInv
<1>13. CASE job.kind = "purge"
  <2>1. /\ row[k].status = "gone" /\ \A y \in job.todo : y[1] = "drop"
        /\ \A ix \in db[k].valid \cup db[k].invalid : <<"drop", ix>> \in job.todo
    BY <1>13 DEF IInv, PurgeInv, k
  <2>2. x[1] = "drop"
    BY <2>1
  <2>3. /\ \A ix \in db'[k].valid \cup db'[k].invalid : <<"drop", ix>> \in job'.todo
        /\ \A y \in job'.todo : y[1] = "drop"
    BY <1>4, <1>5, <1>8, <2>1, <2>2
  <2>4. PurgeInv'
    BY <1>1, <1>5, <2>1, <2>3 DEF PurgeInv
  <2>5. IndexJobInv'
    BY <1>5, <1>13 DEF IndexJobInv
  <2>6. IndexesBacked'
    BY <1>1, <1>8, <2>1 DEF IInv, IndexesBacked, Live
  <2>7. NoIndexLeft'
    BY <1>1, <1>5, <1>8, <1>13 DEF IInv, NoIndexLeft, k
  <2> QED
    BY <1>1, <1>10, <1>11, <2>4, <2>5, <2>6, <2>7 DEF IInv, RowInv
<1> QED
  BY <1>1, <1>12, <1>13

\* A statement that fails leaves at most one more invalid index behind.
LEMMA FailDDLStep ==
    ASSUME IInv, FailDDL
    PROVE  IInv'
<1> DEFINE k == job.klass
<1>1. /\ job.kind \in {"index", "purge"} /\ lock = "held"
      /\ faults < MaxFaults /\ faults' = faults + 1
      /\ UNCHANGED <<row, installed, queued, after, drops, ops, saves>>
  BY DEF FailDDL, Running
<1>2. faults' \in 0..MaxFaults
  BY <1>1, IndexesAssumption DEF IInv, TypeOK
<1>3. /\ k \in Classes /\ job.todo \in SUBSET Steps /\ job.done \in SUBSET Index
      /\ job = [kind |-> job.kind, klass |-> k, todo |-> job.todo, done |-> job.done]
  BY <1>1, RunningJob
<1>4. db \in DbType
  BY DEF IInv, TypeOK, DbType
<1>5. \/ UNCHANGED db
      \/ \E ix \in Index, left \in SUBSET Index :
            db' = [db EXCEPT ![k].invalid = (db[k].invalid \ {ix}) \cup left]
  <2>1. \A x \in job.todo : x[2] \in Index
    BY <1>3 DEF Steps
  <2>2. PICK x \in job.todo :
          \/ UNCHANGED db
          \/ \E left \in {{}, {x[2]}} :
                db' = [db EXCEPT ![k].invalid = (db[k].invalid \ {x[2]}) \cup left]
    BY DEF FailDDL
  <2>3. \A left \in {{}, {x[2]}} : left \in SUBSET Index
    BY <2>1
  <2> QED
    BY <2>1, <2>2, <2>3
<1>6. /\ db' \in DbType /\ \A c \in Classes : db'[c].valid = db[c].valid
      /\ \A c \in Classes : c # k => db'[c] = db[c]
  <2>1. CASE UNCHANGED db
    BY <1>4, <2>1
  <2>2. ASSUME NEW ix \in Index, NEW left \in SUBSET Index,
               db' = [db EXCEPT ![k].invalid = (db[k].invalid \ {ix}) \cup left]
        PROVE  /\ db' \in DbType /\ \A c \in Classes : db'[c].valid = db[c].valid
               /\ \A c \in Classes : c # k => db'[c] = db[c]
    BY <1>3, <1>4, <2>2 DEF DbType
  <2> QED
    BY <1>5, <2>1, <2>2
<1> HIDE DEF k
<1>7. IndexesBacked'
  BY <1>1, <1>6 DEF IInv, IndexesBacked, Live
<1>8. CASE /\ job.kind = "index" /\ job' = [job EXCEPT !.kind = "failed"]
           /\ UNCHANGED <<lock, lostDrops>>
  <2>1. /\ job'.kind = "failed" /\ job'.klass = k /\ job'.todo = job.todo
        /\ job'.done = job.done
        /\ job' = [kind |-> "failed", klass |-> k, todo |-> job.todo, done |-> job.done]
    BY <1>3, <1>8
  <2>2. job' \in JobType
    BY <1>3, <2>1 DEF JobType
  <2>3. TypeOK'
    BY <1>1, <1>2, <1>6, <1>8, <2>2 DEF IInv, TypeOK, DbType
  <2>4. LockInv' /\ PurgeInv'
    BY <1>1, <1>8, <2>1 DEF LockInv, PurgeInv
  <2>5. row[k].status = "live"
    BY <1>8 DEF IInv, IndexJobInv, k, Live
  <2>6. IndexJobInv'
    BY <1>1, <1>3, <1>6, <1>8, <2>1 DEF IInv, IndexJobInv, k, Live, Locked
  <2>7. NoIndexLeft'
    BY <1>1, <1>3, <1>6, <1>8, <2>1, <2>5 DEF IInv, NoIndexLeft
  <2> QED
    BY <1>1, <1>7, <2>3, <2>4, <2>6, <2>7 DEF IInv, RowInv
<1>9. CASE /\ job.kind = "purge" /\ job' = NoJob /\ lock' = "free"
           /\ lostDrops' = lostDrops \cup {k}
  <2>1. job' \in JobType /\ job'.kind = "none"
    BY <1>9 DEF NoJob, JobType
  <2>2. TypeOK'
    BY <1>1, <1>2, <1>3, <1>6, <1>9, <2>1 DEF IInv, TypeOK, DbType
  <2>3. LockInv' /\ PurgeInv' /\ IndexJobInv'
    BY <1>9, <2>1 DEF LockInv, PurgeInv, IndexJobInv
  <2>4. NoIndexLeft'
    BY <1>1, <1>3, <1>6, <1>9 DEF IInv, NoIndexLeft, k
  <2> QED
    BY <1>1, <1>7, <2>2, <2>3, <2>4 DEF IInv, RowInv
<1> QED
  BY <1>8, <1>9 DEF FailDDL, k

\* unlock(): what the task built or found is added to the existing indexes; with
\* rollback the flags that have no index go.
LEMMA UnlockStep ==
    ASSUME IInv, Unlock
    PROVE  IInv'
<1> DEFINE k == job.klass
           existing == row[k].existing \cup job.done
           r == IF job.kind = "failed" THEN CleanupSchema(row[k], existing) ELSE row[k]
           q == [r EXCEPT !.existing = existing, !.add = {}, !.drop = {}]
<1>1. /\ lock = "held" /\ row' = [row EXCEPT ![k] = q]
      /\ job' = [NoJob EXCEPT !.kind = "release"]
      /\ UNCHANGED <<installed, db, lock, queued, after, drops, ops, lostDrops, saves, faults>>
  BY DEF Unlock
<1>2. \/ job.kind = "index" /\ job.todo = {}
      \/ job.kind = "failed"
  BY DEF Unlock
<1>3. k \in Classes /\ job.done \in SUBSET Index
  BY <1>2, RunningJob
<1>4. /\ row[k].status = "live" /\ job.done \subseteq row[k].add \cap db[k].valid
      /\ job.kind = "index" => row[k].add \subseteq job.done
  BY <1>2 DEF IInv, IndexJobInv, Live
<1>5. /\ row[k] \in RowType /\ RowInv(row[k]) /\ row[k].existing \subseteq db[k].valid
      /\ \A x \in row[k].flags : x[1] \in row[k].fields
  BY <1>3, <1>4 DEF IInv, TypeOK, IndexesBacked, Live
<1> HIDE DEF k
<1>6. existing \in SUBSET Index /\ existing \subseteq db[k].valid
  BY <1>3, <1>4, <1>5 DEF RowType
<1>7. /\ r \in RowType /\ r.fields = row[k].fields /\ r.flags \subseteq row[k].flags
      /\ r.status = row[k].status /\ r.mapping = row[k].mapping /\ r.refs = row[k].refs
      /\ job.kind = "failed" => \A x \in r.flags : IndexOf(row[k].mapping, x) \in existing
  BY <1>5 DEF CleanupSchema, RowType
<1> HIDE DEF r, existing
<1>8. /\ q.status = r.status /\ q.fields = r.fields /\ q.flags = r.flags
      /\ q.mapping = r.mapping /\ q.refs = r.refs
      /\ q.existing = existing /\ q.add = {} /\ q.drop = {}
  BY <1>7 DEF RowType
<1>9. q \in RowType
  BY <1>6, <1>7 DEF RowType
<1> HIDE DEF q
<1>10. RowInv(q)
  <2>1. \A x \in q.flags : x \in PropsOf(q.refs) \/ IndexOf(q.mapping, x) \in existing
    <3>1. CASE job.kind = "failed"
      BY <1>7, <1>8, <3>1
    <3>2. CASE job.kind = "index"
      <4>1. \A x \in row[k].flags : x \in PropsOf(row[k].refs)
                \/ IndexOf(row[k].mapping, x) \in row[k].existing \cup row[k].add
        BY <1>5 DEF RowInv
      <4>2. row[k].existing \cup row[k].add \subseteq existing
        BY <1>4, <3>2 DEF existing
      <4> QED
        BY <1>7, <1>8, <4>1, <4>2
    <3> QED
      BY <1>2, <3>1, <3>2
  <2> QED
    BY <1>8, <2>1 DEF RowInv
<1>11. /\ row' \in [Classes -> RowType] /\ row'[k] = q
       /\ \A c \in Classes : c # k => row'[c] = row[c]
  BY <1>1, <1>3, <1>9 DEF IInv, TypeOK
<1>12. job' \in JobType /\ job'.kind = "release"
  BY <1>1 DEF NoJob, JobType
<1>13. TypeOK'
  <2>1. \A c \in Classes : \A x \in row'[c].flags : x[1] \in row'[c].fields
    BY <1>5, <1>7, <1>8, <1>11 DEF IInv, TypeOK
  <2> QED
    BY <1>1, <1>11, <1>12, <2>1 DEF IInv, TypeOK
<1>14. \A c \in Classes : RowInv(row'[c])
  BY <1>10, <1>11 DEF IInv
<1>15. LockInv' /\ IndexJobInv' /\ PurgeInv'
  BY <1>1, <1>12 DEF LockInv, IndexJobInv, PurgeInv
<1>16. IndexesBacked'
  BY <1>1, <1>6, <1>8, <1>11 DEF IInv, IndexesBacked, Live
<1>17. NoIndexLeft' /\ \A c \in drops' : row'[c].status = "gone"
  <2>1. q.status = "live"
    BY <1>4, <1>7, <1>8
  <2>2. \A c \in Classes : row'[c].status = "gone" => row[c].status = "gone" /\ c # k
    BY <1>11, <2>1
  <2>3. NoIndexLeft'
    BY <1>1, <1>2, <2>2 DEF IInv, NoIndexLeft
  <2>4. \A c \in drops : c # k /\ c \in Classes
    BY <1>4 DEF IInv, TypeOK
  <2> QED
    BY <1>1, <1>11, <2>3, <2>4 DEF IInv
<1> QED
  BY <1>13, <1>14, <1>15, <1>16, <1>17 DEF IInv

\* A step of the tasks that changes neither rows nor the database and ends, or
\* leaves alone, the task under the lock.
LEMMA TaskStep ==
    ASSUME IInv, UNCHANGED <<row, installed, db, saves>>,
           lock' \in {"free", "held", "dead"}, queued' \in Nat, after' \in Nat,
           faults' \in 0..MaxFaults, drops' \in SUBSET Classes,
           lostDrops' \in SUBSET Classes, ops' \in OpsType,
           drops' \subseteq drops, drops \cup lostDrops \subseteq drops' \cup lostDrops',
           \/ job' = job /\ (lock' = lock \/ {lock, lock'} = {"dead", "free"})
           \/ /\ job' = NoJob /\ lock' # "held"
              /\ job.kind = "purge" => job.todo = {} \/ job.klass \in lostDrops'
    PROVE  IInv'
<1>1. job' \in JobType
  BY DEF IInv, TypeOK, NoJob, JobType
<1>2. TypeOK'
  BY <1>1 DEF IInv, TypeOK, OpsType
<1>3. IndexesBacked' /\ \A k \in Classes : RowInv(row[k])'
  BY DEF IInv, IndexesBacked, Live, RowInv
<1>4. \A k \in drops' : row'[k].status = "gone"
  BY DEF IInv
<1>5. CASE job' = job /\ (lock' = lock \/ {lock, lock'} = {"dead", "free"})
  <2>1. LockInv'
    BY <1>5 DEF IInv, LockInv
  <2>2. IndexJobInv' /\ PurgeInv'
    BY <1>5 DEF IInv, IndexJobInv, PurgeInv, Live, Locked
  <2>3. NoIndexLeft'
    BY <1>5 DEF IInv, NoIndexLeft
  <2> QED
    BY <1>2, <1>3, <1>4, <2>1, <2>2, <2>3 DEF IInv
<1>6. CASE /\ job' = NoJob /\ lock' # "held"
           /\ job.kind = "purge" => job.todo = {} \/ job.klass \in lostDrops'
  <2>1. job'.kind = "none"
    BY <1>6 DEF NoJob
  <2>2. LockInv' /\ IndexJobInv' /\ PurgeInv'
    BY <1>6, <2>1 DEF LockInv, IndexJobInv, PurgeInv
  <2>3. ASSUME NEW k \in Classes, row[k].status = "gone",
               db[k].valid \cup db[k].invalid # {}
        PROVE  k \in drops' \cup lostDrops'
    <3>1. k \in drops \cup lostDrops \/ (job.kind = "purge" /\ job.klass = k)
      BY <2>3 DEF IInv, NoIndexLeft
    <3>2. CASE job.kind = "purge" /\ job.klass = k
      <4>1. job.todo # {}
        BY <2>3, <3>2 DEF IInv, PurgeInv
      <4> QED
        BY <1>6, <3>2, <4>1
    <3> QED
      BY <3>1, <3>2
  <2>4. NoIndexLeft'
    BY <2>3 DEF NoIndexLeft
  <2> QED
    BY <1>2, <1>3, <1>4, <2>2, <2>4 DEF IInv
<1> QED
  BY <1>5, <1>6

LEMMA TaskTypes ==
    ASSUME IInv
    PROVE  /\ lock \in {"free", "held", "dead"} /\ queued \in Nat /\ after \in Nat
           /\ faults \in 0..MaxFaults /\ drops \in SUBSET Classes
           /\ lostDrops \in SUBSET Classes /\ ops \in OpsType
  BY DEF IInv, TypeOK, OpsType

LEMMA ReleaseStep ==
    ASSUME IInv, Release
    PROVE  IInv'
<1>1. /\ lock' = "free" /\ job' = NoJob
      /\ UNCHANGED <<row, installed, db, queued, drops, ops, lostDrops, saves, faults>>
      /\ job.kind = "purge" => job.todo = {}
  BY DEF Release
<1>2. after' = after + 1 \/ after' = after
  BY DEF Release
<1>3. after' \in Nat
  BY <1>2, TaskTypes
<1> QED
  BY <1>1, <1>3, TaskTypes, TaskStep

LEMMA AfterLockReleasedStep ==
    ASSUME IInv, AfterLockReleased
    PROVE  IInv'
<1>1. /\ after > 0 /\ after' = after - 1 /\ queued' \in {queued, queued + 1}
      /\ UNCHANGED <<row, installed, db, lock, job, drops, ops, lostDrops, saves, faults>>
  BY DEF AfterLockReleased
<1>2. after' \in Nat /\ queued' \in Nat
  BY <1>1, TaskTypes
<1> QED
  BY <1>1, <1>2, TaskTypes, TaskStep

LEMMA ExpireLockStep ==
    ASSUME IInv, ExpireLock
    PROVE  IInv'
  BY TaskTypes, TaskStep DEF ExpireLock

LEMMA CrashStep ==
    ASSUME IInv, Crash
    PROVE  IInv'
<1>1. UNCHANGED <<row, installed, db, saves>> /\ faults' \in 0..MaxFaults
  BY IndexesAssumption DEF Crash, IInv, TypeOK
<1>2. CASE /\ lock = "held" /\ lock' = "dead" /\ job' = NoJob
           /\ lostDrops' = IF job.kind = "purge" THEN lostDrops \cup {job.klass} ELSE lostDrops
           /\ UNCHANGED <<queued, after, drops, ops>>
  <2>1. lostDrops' \in SUBSET Classes
    BY <1>2, TaskTypes, RunningJob
  <2>2. lostDrops \subseteq lostDrops' /\ (job.kind = "purge" => job.klass \in lostDrops')
    BY <1>2
  <2> QED
    BY <1>1, <1>2, <2>1, <2>2, TaskTypes, TaskStep
<1>3. CASE /\ queued > 0 /\ queued' = queued - 1
           /\ UNCHANGED <<lock, job, after, drops, lostDrops, ops>>
  <2>1. queued' \in Nat
    BY <1>3, TaskTypes
  <2> QED
    BY <1>1, <1>3, <2>1, TaskTypes, TaskStep
<1>4. CASE /\ after > 0 /\ after' = after - 1
           /\ UNCHANGED <<lock, job, queued, drops, lostDrops, ops>>
  <2>1. after' \in Nat
    BY <1>4, TaskTypes
  <2> QED
    BY <1>1, <1>4, <2>1, TaskTypes, TaskStep
<1>5. ASSUME NEW k \in drops, drops' = drops \ {k}, lostDrops' = lostDrops \cup {k},
             UNCHANGED <<lock, job, queued, after, ops>>
      PROVE  IInv'
  <2>1. drops' \in SUBSET Classes /\ lostDrops' \in SUBSET Classes
    BY <1>5, TaskTypes
  <2>2. drops' \subseteq drops /\ drops \cup lostDrops \subseteq drops' \cup lostDrops'
    BY <1>5
  <2> QED
    BY <1>1, <1>5, <2>1, <2>2, TaskTypes, TaskStep
<1>6. ASSUME NEW m \in ops, ops' = ops \ {m}, UNCHANGED taskVars
      PROVE  IInv'
  <2>1. ops' \in OpsType
    BY <1>6, TaskTypes DEF OpsType
  <2>2. UNCHANGED <<lock, job, queued, after, drops, lostDrops>>
    BY <1>6 DEF taskVars
  <2> QED
    BY <1>1, <2>1, <2>2, TaskTypes, TaskStep
<1> QED
  BY <1>2, <1>3, <1>4, <1>5, <1>6 DEF Crash

-----------------------------------------------------------------------------
(* The theorems *)

LEMMA InitStep == Init => IInv
<1> SUFFICES ASSUME Init PROVE IInv
  OBVIOUS
<1>1. /\ row = [k \in Classes |-> NoRow] /\ lock = "free" /\ job = NoJob
      /\ db = [k \in Classes |-> [valid |-> {}, invalid |-> {}]]
      /\ installed = [s \in Sockets |-> [k \in Classes |-> {}]]
      /\ queued = 0 /\ after = 0 /\ drops = {} /\ ops = {}
      /\ lostDrops = {} /\ saves = 0 /\ faults = 0
  BY DEF Init
<1>2. NoRow \in RowType /\ RowInv(NoRow) /\ NoRow.status = "new" /\ NoRow.flags = {}
  BY NewRow DEF NoRow
<1>3. NoJob \in JobType /\ NoJob.kind = "none"
  BY DEF NoJob, JobType
<1> HIDE DEF Init
<1>4. /\ db \in [Classes -> [valid : SUBSET Index, invalid : SUBSET Index]]
      /\ installed \in [Sockets -> [Classes -> SUBSET Fields]]
  BY <1>1
<1>5. saves \in 0..MaxSaves /\ faults \in 0..MaxFaults
  BY <1>1, IndexesAssumption
<1>6. TypeOK
  BY <1>1, <1>2, <1>3, <1>4, <1>5 DEF TypeOK
<1> QED
  BY <1>1, <1>2, <1>3, <1>6 DEF IInv, LockInv, IndexJobInv, PurgeInv, IndexesBacked,
                                NoIndexLeft, Live

LEMMA NextStep == IInv /\ [Next]_vars => IInv'
<1> SUFFICES ASSUME IInv, [Next]_vars PROVE IInv'
  OBVIOUS
<1>1. CASE UNCHANGED vars
  <2>1. UNCHANGED <<row, taskVars, db, saves, faults>> /\ UNCHANGED <<installed, ops>>
    BY <1>1 DEF vars
  <2> QED
    BY <2>1, UnchangedRows, KeptTypes
<1>2. ASSUME NEW k \in Classes,
             Request(k) \/ HardDelete(k) \/ KlassOperation(k) \/ StartDropping(k)
      PROVE  IInv'
  BY <1>2, CreateClassStep, UpdateClassStep, DestroyClassStep, HardDeleteStep,
     KlassOperationStep, StartDroppingStep DEF Request
<1>3. ASSUME NEW s \in Sockets, NEW k \in Classes, SocketStep(s, k)
      PROVE  IInv'
  BY <1>3, InstallNewStep, InstallExistingStep, UninstallStep DEF SocketStep
<1>4. CASE \/ StartIndexing \/ ExecuteDDL \/ FailDDL \/ Unlock \/ Release
           \/ AfterLockReleased \/ Crash \/ ExpireLock
  BY <1>4, StartIndexingStep, ExecuteDDLStep, FailDDLStep, UnlockStep, ReleaseStep,
     AfterLockReleasedStep, CrashStep, ExpireLockStep
<1> QED
  BY <1>1, <1>2, <1>3, <1>4 DEF Next

\* The inductive invariant holds in every reachable state.
THEOREM Invariance == Spec => []IInv
  BY InitStep, NextStep, PTL DEF Spec

\* The types, and that a class has flags only of its own fields.
THEOREM TypeCorrect == Spec => []TypeOK
<1>1. IInv => TypeOK
  BY DEF IInv
<1> QED
  BY <1>1, Invariance, PTL

\* Every index that a live class counts as existing is in the database and
\* valid, whichever statements failed and workers died (Klass.unlock).
THEOREM ExistingIndexesAreBacked == Spec => []IndexesBacked
<1>1. IInv => IndexesBacked
  BY DEF IInv
<1> QED
  BY <1>1, Invariance, PTL

\* An unlocked class without references of sockets shows no index flag without
\* an index: a failed migration takes its flags back (Klass.cleanup_schema).
THEOREM UnlockedFlagsAreIndexed == Spec => []FlagsIndexed
<1>1. IInv => FlagsIndexed
  <2> SUFFICES ASSUME IInv, NEW k \in Classes, ~Locked(k), row[k].refs.props = {}
               PROVE  IndexesOf(row[k].mapping, row[k].flags) \subseteq row[k].existing
    BY DEF FlagsIndexed
  <2>1. PropsOf(row[k].refs) = {} /\ row[k].add = {}
    BY DEF PropsOf, Locked
  <2>2. \A x \in row[k].flags : IndexOf(row[k].mapping, x) \in row[k].existing
    BY <2>1 DEF IInv, RowInv
  <2> QED
    BY <2>2 DEF IndexesOf
<1> QED
  BY <1>1, Invariance, PTL

\* A deleted class leaves indexes behind only if the task that drops them
\* failed, died or has not finished (DeleteKlassIndexesTask).
THEOREM DeletedClassesLeaveNoIndex == Spec => []NoIndexLeft
<1>1. IInv => NoIndexLeft
  BY DEF IInv
<1> QED
  BY <1>1, Invariance, PTL

\* Only unlocking changes the row of a locked class: no request, socket or
\* queued operation edits a schema under a migration (Klass.clean).
THEOREM LockedRowsAreFrozen == Spec => FrozenWhileLocked
<1> DEFINE Frozen == \A k \in Classes : Locked(k) /\ row'[k] # row[k] => ~Locked(k)'
<1>1. ASSUME IInv, [Next]_vars
      PROVE  [Frozen]_vars
  <2> DEFINE Only(k) == ~Locked(k) /\ \A c \in Classes : c # k => row'[c] = row[c]
  <2>1. \A k \in Classes : Only(k) => Frozen
    OBVIOUS
  <2>2. row \in [Classes -> RowType]
    BY <1>1 DEF IInv, TypeOK
  <2>3. ASSUME NEW k \in Classes, NEW r, Store(k, r), ~Locked(k)
        PROVE  Only(k)
    BY <2>2, <2>3 DEF Store
  <2>4. ASSUME NEW k \in Classes, SoftDelete(k), ~Locked(k)
        PROVE  Only(k)
    BY <2>2, <2>4 DEF SoftDelete
  <2>5. \A k \in Classes : row[k].status # "live" => ~Locked(k)
    BY <1>1 DEF IInv, RowInv, Locked
  <2>6. row' = row => Frozen
    OBVIOUS
  <2> HIDE DEF Only, Frozen
  <2>7. ASSUME NEW k \in Classes, Request(k)
        PROVE  Frozen
    <3>1. CASE CreateClass(k)
      BY <3>1, <2>1, <2>3, <2>5 DEF CreateClass
    <3>2. CASE UpdateClass(k)
      BY <3>2, <2>1, <2>3 DEF UpdateClass, Editable
    <3>3. CASE DestroyClass(k)
      BY <3>3, <2>1, <2>4 DEF DestroyClass
    <3> QED
      BY <2>7, <3>1, <3>2, <3>3 DEF Request
  <2>8. ASSUME NEW k \in Classes, HardDelete(k)
        PROVE  Frozen
    <3>1. Only(k)
      BY <2>8, <2>2, <2>5 DEF HardDelete, Only
    <3> QED
      BY <2>1, <3>1
  <2>9. ASSUME NEW k \in Classes, KlassOperation(k)
        PROVE  Frozen
    BY <2>9, <2>1, <2>3, <2>4, <2>6 DEF KlassOperation
  <2>10. ASSUME NEW s \in Sockets, NEW k \in Classes, SocketStep(s, k)
         PROVE  Frozen
    <3>1. CASE InstallNew(s, k)
      BY <3>1, <2>1, <2>3, <2>5 DEF InstallNew
    <3>2. CASE InstallExisting(s, k)
      BY <3>2, <2>1, <2>3 DEF InstallExisting, Editable
    <3>3. CASE Uninstall(s, k)
      BY <3>3, <2>1, <2>3, <2>4, <2>6 DEF Uninstall
    <3> QED
      BY <2>10, <3>1, <3>2, <3>3 DEF SocketStep
  <2>11. CASE Unlock
    <3> DEFINE k == job.klass
    <3>1. PICK q : row' = [row EXCEPT ![k] = q] /\ q.add = {} /\ q.drop = {}
      <4> DEFINE existing == row[k].existing \cup job.done
                 r == IF job.kind = "failed" THEN CleanupSchema(row[k], existing) ELSE row[k]
      <4>1. row' = [row EXCEPT ![k] = [r EXCEPT !.existing = existing, !.add = {}, !.drop = {}]]
        BY <2>11 DEF Unlock
      <4>2. job.kind \in {"index", "failed"}
        BY <2>11 DEF Unlock
      <4>3. row[k] \in RowType
        BY <1>1, <2>2, <4>2, RunningJob
      <4>4. "add" \in DOMAIN r /\ "drop" \in DOMAIN r
        BY <4>3 DEF CleanupSchema, RowType
      <4> HIDE DEF r, existing
      <4> DEFINE t == [r EXCEPT !.existing = existing, !.add = {}, !.drop = {}]
      <4>5. t.add = {} /\ t.drop = {}
        BY <4>4
      <4>6. row' = [row EXCEPT ![k] = t]
        BY <4>1
      <4> HIDE DEF t
      <4> QED
        BY <4>5, <4>6
    <3>2. \A c \in Classes : row'[c] # row[c] => row'[c] = q
      BY <2>2, <3>1
    <3> QED
      BY <3>1, <3>2 DEF Frozen, Locked
  <2>12. CASE \/ StartIndexing \/ ExecuteDDL \/ FailDDL \/ Release
              \/ AfterLockReleased \/ Crash \/ ExpireLock
    <3>1. row' = row
      BY <2>12 DEF StartIndexing, ExecuteDDL, FailDDL, Release, AfterLockReleased, Crash,
                   ExpireLock
    <3> QED
      BY <2>6, <3>1
  <2>13. ASSUME NEW k \in Classes, StartDropping(k)
         PROVE  Frozen
    BY <2>13, <2>6 DEF StartDropping
  <2> QED
    BY <1>1, <2>7, <2>8, <2>9, <2>10, <2>11, <2>12, <2>13 DEF Next
<1>2. Spec => [][Frozen]_vars
  BY <1>1, Invariance, PTL DEF Spec
<1> QED
  BY <1>2 DEF FrozenWhileLocked

-----------------------------------------------------------------------------
(* Queries *)

\* An object meets a condition.
Meets(t, c) ==
    IF c.lookup = "_is" THEN RefersTo(t, c.field, Meant(c.sub))
    ELSE IF c.lookup \in {"_neq", "_nin"}
    THEN ~Holds([c EXCEPT !.lookup = "_in"], things[t][c.field])
    ELSE Holds(c, things[t][c.field])

Uncut(cs) == \A c \in Nested(cs) : Cardinality(Meant(c.sub)) <= NestedQueryLimit

\* What is found meets the conditions that were processed, and all that does
\* is found unless a nested query was cut.
FoundBy(cs) ==
    /\ found \subseteq Things
    /\ \A t \in found, c \in cs : Meets(t, c)
    /\ Uncut(cs) => \A t \in Things \ found : \E c \in cs : ~Meets(t, c)

Processed == conditions \ todo

\* The nested query in work is that of a condition, which counts when it is left.
InWork(c) ==
    /\ c \in Processed /\ c.lookup = "_is" /\ c.field = nestedField
    /\ nestedTodo \subseteq c.sub
    /\ nestedFound = {t \in Targets : \A d \in c.sub \ nestedTodo : Holds(d, targets[t][d.field])}
    /\ FoundBy(Processed \ {c})

QueriesInv ==
    /\ conditions \subseteq TopConditions /\ todo \subseteq conditions
    /\ queryStage \in {"asking", "processing", "nested", "answered", "rejected"}
    /\ loadedKlass = IF queryStage = "nested" THEN "target" ELSE "thing"
    /\ queryStage = "processing" => FoundBy(Processed)
    /\ queryStage = "nested" => \E c \in Processed : InWork(c)
    /\ queryStage = "answered" => FoundBy(conditions)

\* A condition other than a nested query is met where it holds.
LEMMA MeetsHolds ==
  ASSUME NEW t, NEW c \in TopConditions, c.lookup # "_is"
  PROVE  Meets(t, c) <=> Holds(c, things[t][c.field])
<1>1. PICK v : v = things[t][c.field]
  OBVIOUS
<1>2. PICK field, lookup, values, sub : c = [field |-> field, lookup |-> lookup, values |-> values, sub |-> sub]
  <2>1. \E fields, lookups, values, subs : c \in Conditions(fields, lookups, values, subs)
    BY DEF TopConditions, SimpleConditions
  <2> QED
    BY <2>1 DEF Conditions
<1>3. CASE c.lookup \in {"_neq", "_nin"}
  <2>1. PICK d : d = [c EXCEPT !.lookup = "_in"]
    OBVIOUS
  <2>2. d.lookup = "_in" /\ d.values = c.values
    BY <1>2, <2>1
  <2>3. Meets(t, c) <=> ~Holds(d, v)
    BY <1>1, <1>3, <2>1 DEF Meets
  <2>4. Holds(d, v) <=> v \in c.values
    BY <2>2 DEF Holds
  <2>5. Holds(c, v) <=> v \notin c.values
    BY <1>3 DEF Holds
  <2> QED
    BY <1>1, <2>3, <2>4, <2>5
<1>4. CASE c.lookup \notin {"_neq", "_nin"}
  BY <1>4 DEF Meets
<1> QED
  BY <1>3, <1>4

\* The slice of a nested result is part of it, and all of it within the limit.
LEMMA SliceSound ==
  ASSUME NEW ids, ids \subseteq Targets
  PROVE  /\ Limited(ids) \subseteq ids
         /\ Cardinality(ids) <= NestedQueryLimit => Limited(ids) = ids
<1>1. Limited(ids) \subseteq ids
  BY DEF Limited
<1>2. ASSUME Cardinality(ids) <= NestedQueryLimit, NEW t \in ids
      PROVE  t \in Limited(ids)
  <2>1. PICK lower : lower = {s \in ids : s < t}
    OBVIOUS
  <2>2. IsFiniteSet(ids)
    BY QueriesAssumption, FS_Subset
  <2>3. t \in Nat
    <3>1. t \in Targets
      OBVIOUS
    <3> QED
      BY <3>1, QueriesAssumption, Zenon
  <2>4. lower \in SUBSET ids /\ t \notin lower
    BY <2>1, <2>3
  <2>5. /\ Cardinality(lower) \in Nat /\ Cardinality(ids) \in Nat
        /\ Cardinality(lower) <= Cardinality(ids) /\ Cardinality(lower) # Cardinality(ids)
    BY <2>2, <2>4, FS_Subset, FS_CardinalityType
  <2>6. NestedQueryLimit \in Nat
    BY QueriesAssumption
  <2>7. Cardinality(lower) < NestedQueryLimit
    BY <1>2, <2>5, <2>6
  <2> QED
    BY <2>1, <2>7 DEF Limited
<1> QED
  BY <1>1, <1>2

\* Another condition is processed: what is found is what of it meets that one.
LEMMA OneProcessed ==
  ASSUME NEW cs, NEW c, FoundBy(cs), found' \subseteq found, UNCHANGED <<things, targets>>,
         \A t \in found' : Meets(t, c),
         Uncut(cs \cup {c}) => \A t \in found \ found' : ~Meets(t, c)
  PROVE  FoundBy(cs \cup {c})'
<1>1. cs' = cs /\ c' = c
  OBVIOUS
<1>2. \A t, d : Meets(t, d)' <=> Meets(t, d)
  BY DEF Meets, RefersTo, Meant
<1>3. Uncut(cs \cup {c})' <=> Uncut(cs \cup {c})
  BY DEF Uncut, Meant, Nested
<1>4. Uncut(cs \cup {c}) => Uncut(cs)
  BY DEF Uncut, Nested
<1> QED
  BY <1>2, <1>3, <1>4 DEF FoundBy

\* Nothing that a query found or means changes.
LEMMA FoundKept ==
  ASSUME NEW cs, FoundBy(cs), UNCHANGED <<things, targets, found>>
  PROVE  FoundBy(cs)'
<1>1. \A t, d : Meets(t, d)' <=> Meets(t, d)
  BY DEF Meets, RefersTo, Meant
<1>2. Uncut(cs)' <=> Uncut(cs)
  BY DEF Uncut, Meant, Nested
<1> QED
  BY <1>1, <1>2 DEF FoundBy

\* AskQuery, and the steps that end a query.
LEMMA QueryFrame ==
  ASSUME QueriesInv, \/ \E c, d \in TopConditions : AskQuery({c, d})
                     \/ Reject \/ Answer
  PROVE  QueriesInv'
<1>1. ASSUME NEW c \in TopConditions, NEW d \in TopConditions, AskQuery({c, d})
      PROVE  QueriesInv'
  <2>1. /\ queryStage = "asking" /\ queryStage' \in {"processing", "rejected"}
        /\ conditions' = {c, d} /\ todo' = {c, d} /\ found' = Things /\ loadedKlass' = loadedKlass
    BY <1>1 DEF AskQuery
  <2>2. Processed' = {} /\ Things \ found' = {}
    BY <2>1 DEF Processed
  <2>3. FoundBy(Processed)'
    BY <2>1, <2>2 DEF FoundBy
  <2> QED
    BY <2>1, <2>3 DEF QueriesInv
<1>2. CASE Reject
  BY <1>2 DEF Reject, Restored, QueriesInv
<1>3. CASE Answer
  <2>1. /\ queryStage = "processing" /\ queryStage' = "answered" /\ todo = {}
        /\ UNCHANGED <<things, targets, loadedKlass, conditions, todo, found>>
    BY <1>3 DEF Answer
  <2>2. PICK cs : cs = conditions
    OBVIOUS
  <2>3. FoundBy(cs)
    BY <2>1, <2>2 DEF QueriesInv, Processed
  <2>4. FoundBy(cs)'
    BY <2>1, <2>3, FoundKept
  <2>5. FoundBy(conditions)'
    BY <2>1, <2>2, <2>4
  <2> QED
    BY <2>1, <2>5 DEF QueriesInv
<1> QED
  BY <1>1, <1>2, <1>3

\* Process: what is left meets the condition.
LEMMA ProcessStep ==
  ASSUME QueriesInv, NEW c \in todo, Process(c)
  PROVE  QueriesInv'
<1>1. /\ queryStage = "processing" /\ c.lookup # "_is"
      /\ found' = {t \in found : Holds(c, things[t][c.field])} /\ todo' = todo \ {c}
      /\ UNCHANGED <<things, targets, loadedKlass, conditions, queryStage>>
  BY DEF Process
<1>2. PICK cs : cs = Processed
  OBVIOUS
<1>3. FoundBy(cs) /\ Processed' = cs \cup {c}
  BY <1>1, <1>2 DEF QueriesInv, Processed
<1>4. \A t : Meets(t, c) <=> Holds(c, things[t][c.field])
  BY <1>1, MeetsHolds DEF QueriesInv
<1>5. FoundBy(cs \cup {c})'
  BY <1>1, <1>3, <1>4, OneProcessed
<1>6. FoundBy(Processed)'
  BY <1>3, <1>5
<1> QED
  BY <1>1, <1>6 DEF QueriesInv

\* EnterNested: the nested query starts with every object of the other class.
LEMMA EnterNestedStep ==
  ASSUME QueriesInv, NEW c \in todo, EnterNested(c)
  PROVE  QueriesInv'
<1>1. /\ queryStage = "processing" /\ c.lookup = "_is"
      /\ queryStage' = "nested" /\ loadedKlass' = "target" /\ todo' = todo \ {c}
      /\ nestedField' = c.field /\ nestedTodo' = c.sub /\ nestedFound' = Targets
      /\ UNCHANGED <<things, targets, conditions, found>>
  BY DEF EnterNested
<1>2. PICK cs : cs = Processed
  OBVIOUS
<1>3. FoundBy(cs) /\ Processed' = cs \cup {c} /\ cs = (cs \cup {c}) \ {c} /\ c \in Processed'
  BY <1>1, <1>2 DEF QueriesInv, Processed
<1>4. FoundBy(cs)'
  BY <1>1, <1>3, FoundKept
<1>5. FoundBy(Processed \ {c})'
  BY <1>3, <1>4
<1>6. InWork(c)'
  BY <1>1, <1>3, <1>5 DEF InWork
<1> QED
  BY <1>1, <1>3, <1>6 DEF QueriesInv

\* ProcessNested: what is left of the other class holds for one more condition.
LEMMA ProcessNestedStep ==
  ASSUME QueriesInv, NEW d \in nestedTodo, ProcessNested(d)
  PROVE  QueriesInv'
<1>1. /\ queryStage = "nested" /\ nestedTodo' = nestedTodo \ {d}
      /\ nestedFound' = {t \in nestedFound : Holds(d, targets[t][d.field])}
      /\ UNCHANGED <<things, targets, loadedKlass, conditions, todo, nestedField, found, queryStage>>
  BY DEF ProcessNested
<1>2. PICK c \in Processed : InWork(c)
  BY <1>1 DEF QueriesInv
<1>3. PICK cs : cs = Processed \ {c}
  OBVIOUS
<1>4. Processed' = Processed
  BY <1>1 DEF Processed
<1>5. FoundBy(cs)'
  BY <1>1, <1>2, <1>3, FoundKept DEF InWork
<1>6. FoundBy(Processed \ {c})'
  BY <1>3, <1>4, <1>5
<1>7. nestedTodo' \subseteq c.sub /\ c.sub \ nestedTodo' = (c.sub \ nestedTodo) \cup {d}
  BY <1>1, <1>2 DEF InWork
<1>8. nestedFound' = {t \in Targets : \A e \in c.sub \ nestedTodo' : Holds(e, targets[t][e.field])}
  BY <1>1, <1>2, <1>7 DEF InWork
<1>9. InWork(c)'
  BY <1>1, <1>2, <1>4, <1>6, <1>7, <1>8 DEF InWork
<1> QED
  BY <1>1, <1>4, <1>9 DEF QueriesInv

\* LeaveNested: what refers to an object of the slice meets the condition, and
\* without a cut nothing else does.
LEMMA LeaveNestedStep ==
  ASSUME QueriesInv, LeaveNested
  PROVE  QueriesInv'
<1>1. /\ queryStage = "nested" /\ nestedTodo = {}
      /\ found' = {t \in found : RefersTo(t, nestedField, Limited(nestedFound))}
      /\ queryStage' = "processing" /\ loadedKlass' = "thing"
      /\ UNCHANGED <<things, targets, conditions, todo>>
  BY DEF LeaveNested
<1>2. PICK c \in Processed : InWork(c)
  BY <1>1 DEF QueriesInv
<1>3. PICK cs : cs = Processed \ {c}
  OBVIOUS
<1>4. FoundBy(cs) /\ cs \cup {c} = Processed
  BY <1>2, <1>3 DEF InWork
<1>5. nestedFound = Meant(c.sub) /\ nestedFound \subseteq Targets
  BY <1>1, <1>2 DEF InWork, Meant
<1>6. PICK slice : slice = Limited(nestedFound)
  OBVIOUS
<1>7. /\ slice \subseteq nestedFound
      /\ Cardinality(nestedFound) <= NestedQueryLimit => slice = nestedFound
  BY <1>5, <1>6, SliceSound
<1>8. \A t : Meets(t, c) <=> RefersTo(t, nestedField, nestedFound)
  BY <1>2, <1>5 DEF InWork, Meets
<1>9. \A t : RefersTo(t, nestedField, slice) => RefersTo(t, nestedField, nestedFound)
  BY <1>7 DEF RefersTo
<1>10. \A t \in found' : Meets(t, c)
  BY <1>1, <1>6, <1>8, <1>9
<1>11. Uncut(cs \cup {c}) => \A t \in found \ found' : ~Meets(t, c)
  <2>1. Uncut(cs \cup {c}) => Cardinality(nestedFound) <= NestedQueryLimit
    BY <1>2, <1>5 DEF Uncut, Nested, InWork
  <2> QED
    BY <1>1, <1>6, <1>7, <1>8, <2>1
<1>12. FoundBy(cs \cup {c})'
  BY <1>1, <1>4, <1>10, <1>11, OneProcessed
<1>13. FoundBy(Processed)'
  <2>1. Processed' = cs \cup {c}
    BY <1>1, <1>4 DEF Processed
  <2> QED
    BY <1>12, <2>1
<1> QED
  BY <1>1, <1>13 DEF QueriesInv

\* A query answers with the objects that meet every condition, whatever the order
\* of its conditions, none is left out unless a nested query is cut at its limit,
\* and after a query, right or wrong, the class of the view is loaded.
THEOREM QueriesAreSoundHolds == QueriesSpec => []QueriesAreSound
<1>1. QueriesInit => QueriesInv
  BY DEF QueriesInit, QueriesInv
<1>2. QueriesInv /\ [QueriesNext]_queriesVars => QueriesInv'
  <2> SUFFICES ASSUME QueriesInv, [QueriesNext]_queriesVars PROVE QueriesInv'
    OBVIOUS
  <2>1. CASE UNCHANGED queriesVars
    <3>1. /\ UNCHANGED <<things, targets, loadedKlass, conditions, todo, found, queryStage>>
          /\ UNCHANGED <<nestedField, nestedTodo, nestedFound>>
      BY <2>1 DEF queriesVars
    <3>2. \A cs : FoundBy(cs) => FoundBy(cs)'
      BY <3>1, FoundKept
    <3>3. Processed' = Processed
      BY <3>1 DEF Processed
    <3>4. FoundBy(Processed) => FoundBy(Processed)'
      <4>1. PICK cs : cs = Processed
        OBVIOUS
      <4> QED
        BY <3>2, <3>3, <4>1
    <3>5. FoundBy(conditions) => FoundBy(conditions)'
      <4>1. PICK cs : cs = conditions
        OBVIOUS
      <4> QED
        BY <3>1, <3>2, <4>1
    <3>6. ASSUME NEW c \in Processed, InWork(c)
          PROVE  InWork(c)'
      <4>1. PICK cs : cs = Processed \ {c}
        OBVIOUS
      <4>2. FoundBy(cs)'
        BY <3>2, <3>6, <4>1 DEF InWork
      <4>3. FoundBy(Processed \ {c})'
        BY <3>3, <4>1, <4>2
      <4> QED
        BY <3>1, <3>3, <3>6, <4>3 DEF InWork
    <3> QED
      BY <3>1, <3>3, <3>4, <3>5, <3>6 DEF QueriesInv
  <2>2. CASE QueriesNext
    BY <2>2, QueryFrame, ProcessStep, EnterNestedStep, ProcessNestedStep, LeaveNestedStep DEF QueriesNext
  <2> QED
    BY <2>1, <2>2
<1>3. QueriesInv => QueriesAreSound
  <2> SUFFICES ASSUME QueriesInv PROVE QueriesAreSound
    OBVIOUS
  <2>1. AnswerIsExact
    <3> SUFFICES ASSUME queryStage = "answered"
                 PROVE  /\ \A t \in found : Means(t)
                        /\ Uncut(conditions) => \A t \in Things \ found : ~Means(t)
      BY DEF AnswerIsExact, Uncut
    <3>1. FoundBy(conditions)
      BY DEF QueriesInv
    <3>2. \A t : Means(t) <=> \A c \in conditions : Meets(t, c)
      BY DEF Means, Meets
    <3> QED
      BY <3>1, <3>2 DEF FoundBy
  <2>2. OwnKlassLoaded
    BY DEF QueriesInv, OwnKlassLoaded
  <2> QED
    BY <2>1, <2>2 DEF QueriesAreSound
<1> QED
  BY <1>1, <1>2, <1>3, PTL DEF QueriesSpec

-----------------------------------------------------------------------------
(* Pagination *)

Cursors == [direction : {"none", "on", "back"}, key : Keys \cup {NoKey}, value : FieldValues \cup {Null}]

RowTypes ==
    /\ rows \in [Keys -> FieldValues \cup {Null, Gone}]
    /\ query \in [kind : {"standard", "ordered", "redis"}, asc : BOOLEAN, size : Nat \ {0}]

\* One pair of a value and a key is before another, going up or down.
PairLess(v, a, w, b) ==
    IF query.kind = "ordered"
    THEN \/ v # Null /\ (w = Null \/ v < w)
         \/ v = w /\ a < b
    ELSE a < b

Toward(up, v, a, w, b) == IF up THEN PairLess(v, a, w, b) ELSE PairLess(w, b, v, a)

\* The pairs are in a strict order.
LEMMA PairsOrdered ==
  ASSUME NEW v \in FieldValues \cup {Null}, NEW w \in FieldValues \cup {Null}, NEW x \in FieldValues \cup {Null},
         NEW a \in Nat, NEW b \in Nat, NEW d \in Nat
  PROVE  /\ ~PairLess(v, a, v, a)
         /\ PairLess(v, a, w, b) /\ PairLess(w, b, x, d) => PairLess(v, a, x, d)
         /\ PairLess(v, a, x, d) => PairLess(v, a, w, b) \/ PairLess(w, b, x, d)
         /\ a # b => PairLess(v, a, w, b) \/ PairLess(w, b, v, a)
<1>1. /\ v \in FieldValues => v \in Nat
      /\ w \in FieldValues => w \in Nat
      /\ x \in FieldValues => x \in Nat
  BY PaginationAssumption, Zenon
<1>2. \A u \in FieldValues : u # Null
  BY PaginationAssumption
<1>3. /\ v = Null \/ (v # Null /\ v \in Nat)
      /\ w = Null \/ (w # Null /\ w \in Nat)
      /\ x = Null \/ (x # Null /\ x \in Nat)
  BY <1>1, <1>2
<1>4. CASE query.kind = "ordered"
  <2>1. ~PairLess(v, a, v, a)
    BY <1>3, <1>4 DEF PairLess
  <2>2. PairLess(v, a, w, b) /\ PairLess(w, b, x, d) => PairLess(v, a, x, d)
    BY <1>3, <1>4 DEF PairLess
  <2>3. PairLess(v, a, x, d) => PairLess(v, a, w, b) \/ PairLess(w, b, x, d)
    BY <1>3, <1>4 DEF PairLess
  <2>4. a # b => PairLess(v, a, w, b) \/ PairLess(w, b, v, a)
    BY <1>3, <1>4 DEF PairLess
  <2> QED
    BY <2>1, <2>2, <2>3, <2>4
<1>5. CASE query.kind # "ordered"
  BY <1>5 DEF PairLess
<1> QED
  BY <1>4, <1>5

\* A third pair is beyond the lesser of two or before the greater.
LEMMA PairBetween ==
  ASSUME NEW v \in FieldValues \cup {Null}, NEW w \in FieldValues \cup {Null}, NEW x \in FieldValues \cup {Null},
         NEW a \in Nat, NEW b \in Nat, NEW d \in Nat, PairLess(v, a, x, d)
  PROVE  PairLess(v, a, w, b) \/ PairLess(w, b, x, d)
BY PairsOrdered

\* A row that is there has a value or null, and a key.
LEMMA RowHasValue ==
  ASSUME RowTypes, NEW k \in Present
  PROVE  rows[k] \in FieldValues \cup {Null} /\ k \in Keys /\ k \in Nat /\ k # NoKey
<1>1. k \in Keys /\ rows[k] \in FieldValues \cup {Null}
  BY DEF RowTypes, Present
<1>2. k \in Nat \ {0}
  BY <1>1, PaginationAssumption, Zenon
<1> QED
  BY <1>1, <1>2 DEF NoKey

\* The order of the rows is that of their pairs.
LEMMA OrderIsOfPairs ==
  ASSUME RowTypes, NEW up \in BOOLEAN, NEW a \in Present, NEW b \in Present
  PROVE  InOrder(up, a, b) <=> Toward(up, rows[a], a, rows[b], b)
<1>1. InOrderOf(query, a, b) <=> PairLess(rows[a], a, rows[b], b)
  BY DEF InOrderOf, Below, PairLess
<1>2. InOrderOf(query, b, a) <=> PairLess(rows[b], b, rows[a], a)
  BY DEF InOrderOf, Below, PairLess
<1> QED
  BY <1>1, <1>2 DEF InOrder, Toward

\* A row matches a cursor when its pair is beyond the cursor's.
LEMMA MatchIsOfPairs ==
  ASSUME RowTypes, NEW c \in Cursors, NEW k \in Present
  PROVE  k \in Matching(c) <=> c.key = NoKey \/ Toward(Up(c), c.value, c.key, rows[k], k)
<1>1. PICK v, a, w, up : v = c.value /\ a = c.key /\ w = rows[k] /\ up = Up(c)
  OBVIOUS
<1>2. /\ v = Null \/ (v # Null /\ v \in Nat)
      /\ w = Null \/ (w # Null /\ w \in Nat)
      /\ a \in Nat /\ k \in Nat
  <2>1. v \in FieldValues \cup {Null} /\ w \in FieldValues \cup {Null} /\ a \in Keys \cup {0} /\ k \in Nat
    BY <1>1, RowHasValue DEF Cursors, NoKey
  <2>2. \A u \in FieldValues : u # Null /\ u \in Nat
    BY PaginationAssumption, Zenon
  <2>3. \A u \in Keys : u \in Nat
    BY PaginationAssumption, Zenon
  <2> QED
    BY <2>1, <2>2, <2>3
<1>3. BeyondKey(c, up, k) <=> IF up THEN a < k ELSE k < a
  BY <1>1, <1>2 DEF BeyondKey
<1>4. ASSUME query.kind = "ordered"
      PROVE  BeyondValue(c, up, k) <=> Toward(up, v, a, w, k)
  <2>1. CASE up
    BY <1>1, <1>2, <1>4, <2>1 DEF BeyondValue, PairAbove, Toward, PairLess
  <2>2. CASE ~up
    BY <1>1, <1>2, <1>4, <2>2 DEF BeyondValue, PairBelow, Toward, PairLess
  <2> QED
    BY <2>1, <2>2
<1>5. k \in Matching(c) <=> \/ a = NoKey
                            \/ IF query.kind = "ordered" THEN BeyondValue(c, up, k) ELSE BeyondKey(c, up, k)
  BY <1>1 DEF Matching
<1>6. CASE query.kind = "ordered"
  BY <1>1, <1>4, <1>5, <1>6
<1>7. CASE query.kind # "ordered"
  BY <1>1, <1>3, <1>5, <1>7 DEF Toward, PairLess
<1> QED
  BY <1>6, <1>7

\* A row that does not match a cursor comes before one that does.
LEMMA MatchAfter ==
  ASSUME RowTypes, NEW c \in Cursors, NEW k \in Present, k \notin Matching(c), NEW m \in Matching(c)
  PROVE  InOrder(Up(c), k, m)
<1>1. PICK v, a, w, x, up : v = c.value /\ a = c.key /\ w = rows[k] /\ x = rows[m] /\ up = Up(c)
  OBVIOUS
<1>2. m \in Present /\ Up(c) \in BOOLEAN
  BY DEF Matching, Up
<1>3. v \in FieldValues \cup {Null} /\ a \in Nat
  <2>1. a \in Keys \cup {0} /\ v \in FieldValues \cup {Null}
    BY <1>1 DEF Cursors, NoKey
  <2>2. \A u \in Keys : u \in Nat
    BY PaginationAssumption, Zenon
  <2> QED
    BY <2>1, <2>2
<1>4. w \in FieldValues \cup {Null} /\ x \in FieldValues \cup {Null} /\ k \in Nat /\ m \in Nat
  BY <1>1, <1>2, RowHasValue
<1>5. ~Toward(up, v, a, w, k) /\ Toward(up, v, a, x, m)
  BY <1>1, <1>2, MatchIsOfPairs
<1>6. Toward(up, w, k, x, m)
  <2>1. PairLess(v, a, x, m) => PairLess(v, a, w, k) \/ PairLess(w, k, x, m)
    BY <1>3, <1>4, PairBetween
  <2>2. PairLess(x, m, v, a) => PairLess(x, m, w, k) \/ PairLess(w, k, v, a)
    BY <1>3, <1>4, PairBetween
  <2> QED
    BY <1>5, <2>1, <2>2 DEF Toward
<1> QED
  BY <1>1, <1>2, <1>6, OrderIsOfPairs

\* The order of rows is strict, and the cursor at a row matches those beyond it.
LEMMA RowsOrdered ==
  ASSUME RowTypes, NEW up \in BOOLEAN, NEW a \in Present, NEW b \in Present
  PROVE  /\ ~InOrder(up, a, a)
         /\ a # b => InOrder(up, a, b) \/ InOrder(up, b, a)
         /\ InOrder(up, a, b) <=> InOrder(~up, b, a)
         /\ \A d \in Present : InOrder(up, a, b) /\ InOrder(up, b, d) => InOrder(up, a, d)
<1>1. /\ rows[a] \in FieldValues \cup {Null} /\ a \in Nat
      /\ rows[b] \in FieldValues \cup {Null} /\ b \in Nat
  BY RowHasValue
<1>2. ~InOrder(up, a, a)
  BY <1>1, OrderIsOfPairs, PairsOrdered DEF Toward
<1>3. a # b => InOrder(up, a, b) \/ InOrder(up, b, a)
  BY <1>1, OrderIsOfPairs, PairsOrdered DEF Toward
<1>4. InOrder(up, a, b) <=> InOrder(~up, b, a)
  BY DEF InOrder
<1>5. ASSUME NEW d \in Present, InOrder(up, a, b), InOrder(up, b, d)
      PROVE  InOrder(up, a, d)
  <2>1. rows[d] \in FieldValues \cup {Null} /\ d \in Nat
    BY RowHasValue
  <2> QED
    BY <1>1, <1>5, <2>1, OrderIsOfPairs, PairsOrdered DEF Toward
<1> QED
  BY <1>2, <1>3, <1>4, <1>5

LEMMA CursorAtRow ==
  ASSUME RowTypes, NEW k \in Present, NEW direction \in {"on", "back"}, NEW m \in Present
  PROVE  /\ CursorAt(direction, k) \in Cursors
         /\ m \in Matching(CursorAt(direction, k)) <=> InOrder(Up(CursorAt(direction, k)), k, m)
<1>1. PICK c : c = CursorAt(direction, k)
  OBVIOUS
<1>2. c \in Cursors /\ c.key = k /\ c.value = rows[k] /\ k # NoKey
  BY <1>1, RowHasValue DEF CursorAt, Cursors
<1>3. Up(c) \in BOOLEAN
  BY DEF Up
<1> QED
  BY <1>1, <1>2, <1>3, MatchIsOfPairs, OrderIsOfPairs

\* A finite set of rows has a last one in their order.
LEMMA LastRow ==
  ASSUME RowTypes, NEW up \in BOOLEAN, NEW S, S \subseteq Present, S # {}
  PROVE  \E m \in S : \A k \in S : k # m => InOrder(up, k, m)
<1> DEFINE Bad == {s \in SUBSET S : s # {} /\ ~\E m \in s : \A k \in s : k # m => InOrder(up, k, m)}
<1> SUFFICES ASSUME Bad # {} PROVE FALSE
  BY DEF Bad
<1>0. Bad \subseteq SUBSET S /\ IsFiniteSet(S)
  <2>1. S \subseteq Keys
    BY DEF Present
  <2> QED
    BY <2>1, PaginationAssumption, FS_Subset
<1>1. PICK s \in Bad : \A t \in SUBSET s : t # s => t \notin Bad
  <2> HIDE DEF Bad
  <2> QED
    BY <1>0, SmallestSet
<1>2. PICK a \in s : TRUE
  OBVIOUS
<1>3. PICK t : t = s \ {a}
  OBVIOUS
<1>4. t \subseteq s /\ t # s /\ t \notin Bad /\ a \in Present
  BY <1>1, <1>2, <1>3
<1>5. t # {}
  BY <1>1, <1>2, <1>3
<1>6. PICK m \in t : \A k \in t : k # m => InOrder(up, k, m)
  BY <1>4, <1>5
<1>7. m \in Present /\ m # a /\ m \in s
  BY <1>3, <1>4
<1>8. CASE InOrder(up, a, m)
  BY <1>1, <1>3, <1>6, <1>7, <1>8
<1>9. CASE InOrder(up, m, a)
  <2>1. ASSUME NEW k \in s, k # a
        PROVE  InOrder(up, k, a)
    <3>1. k \in Present /\ k \in t
      BY <1>3, <2>1
    <3>2. k = m \/ InOrder(up, k, m)
      BY <1>6, <3>1
    <3> QED
      BY <1>4, <1>7, <1>9, <3>1, <3>2, RowsOrdered
  <2> QED
    BY <1>1, <1>2, <2>1
<1> QED
  BY <1>4, <1>7, <1>8, <1>9, RowsOrdered

InOrderSeq(s, up) == \A i, j \in DOMAIN s : i < j => InOrder(up, s[i], s[j])

\* A finite set of rows can be put in their order.
LEMMA RowsCanBeOrdered ==
  ASSUME RowTypes, NEW up \in BOOLEAN, NEW S, S \subseteq Present
  PROVE  \E s \in [1..Cardinality(S) -> S] : InOrderSeq(s, up)
<1> DEFINE Good(r) == \E s \in [1..Cardinality(r) -> r] : InOrderSeq(s, up)
           Bad == {r \in SUBSET S : ~Good(r)}
<1> SUFFICES ASSUME Bad # {} PROVE FALSE
  OBVIOUS
<1>0. Bad \subseteq SUBSET S /\ IsFiniteSet(S)
  <2>1. S \subseteq Keys
    BY DEF Present
  <2> QED
    BY <2>1, PaginationAssumption, FS_Subset
<1>1. PICK r \in Bad : IsFiniteSet(r) /\ \A t \in SUBSET r : t # r => t \notin Bad
  <2> HIDE DEF Bad
  <2> QED
    BY <1>0, SmallestSet
<1>2. r # {}
  <2>1. Cardinality({}) = 0
    BY FS_EmptySet
  <2>2. PICK s : s = [i \in 1..0 |-> 0]
    OBVIOUS
  <2>3. s \in [1..0 -> {}] /\ InOrderSeq(s, up)
    BY <2>2 DEF InOrderSeq
  <2>4. Good({})
    BY <2>1, <2>3
  <2> QED
    BY <1>1, <2>4
<1>3. PICK m \in r : \A k \in r : k # m => InOrder(up, k, m)
  BY <1>1, <1>2, LastRow
<1>4. PICK t : t = r \ {m}
  OBVIOUS
<1>5. PICK n : n = Cardinality(t)
  OBVIOUS
<1>6. n \in Nat /\ Cardinality(r) = n + 1
  <2>1. IsFiniteSet(t) /\ n = Cardinality(r) - 1
    BY <1>1, <1>3, <1>4, <1>5, FS_RemoveElement
  <2>2. Cardinality(t) \in Nat
    BY <2>1, FS_CardinalityType
  <2>3. Cardinality(r) \in Nat
    BY <1>1, FS_CardinalityType
  <2> QED
    BY <1>5, <2>1, <2>2, <2>3
<1>7. PICK s \in [1..n -> t] : InOrderSeq(s, up)
  <2>1. t \in SUBSET r /\ t # r
    BY <1>4
  <2>2. Good(t)
    BY <1>1, <2>1
  <2> QED
    BY <1>5, <2>2
<1>8. PICK e : e = [i \in 1..(n + 1) |-> IF i = n + 1 THEN m ELSE s[i]]
  OBVIOUS
<1>9. e \in [1..(n + 1) -> r]
  BY <1>4, <1>6, <1>7, <1>8
<1>10. InOrderSeq(e, up)
  <2> SUFFICES ASSUME NEW i \in 1..(n + 1), NEW j \in 1..(n + 1), i < j
               PROVE  InOrder(up, e[i], e[j])
    BY <1>8 DEF InOrderSeq
  <2>1. i \in 1..n /\ e[i] = s[i] /\ s[i] \in t
    BY <1>6, <1>7, <1>8
  <2>2. CASE j = n + 1
    BY <1>3, <1>4, <1>8, <2>1, <2>2
  <2>3. CASE j # n + 1
    <3>1. j \in 1..n /\ e[j] = s[j]
      BY <1>6, <1>8, <2>3
    <3> QED
      BY <1>7, <2>1, <3>1 DEF InOrderSeq
  <2> QED
    BY <2>2, <2>3
<1>11. Good(r)
  BY <1>6, <1>9, <1>10
<1> QED
  BY <1>1, <1>11

\* Rows in order: all of them, each once.
LEMMA OrderedIsSound ==
  ASSUME RowTypes, NEW up \in BOOLEAN, NEW S, S \subseteq Present
  PROVE  /\ Ordered(S, up) \in Seq(S) /\ Len(Ordered(S, up)) = Cardinality(S)
         /\ InOrderSeq(Ordered(S, up), up)
         /\ ToSet(Ordered(S, up)) = S
<1>1. PICK s : s = Ordered(S, up)
  OBVIOUS
<1>2. PICK n : n = Cardinality(S)
  OBVIOUS
<1>3. IsFiniteSet(S) /\ n \in Nat
  <2>1. S \subseteq Keys
    BY DEF Present
  <2>2. IsFiniteSet(S)
    BY <2>1, PaginationAssumption, FS_Subset
  <2> QED
    BY <1>2, <2>2, FS_CardinalityType
<1>4. s \in [1..n -> S] /\ InOrderSeq(s, up)
  <2>1. \E e \in [1..n -> S] : InOrderSeq(e, up)
    BY <1>2, RowsCanBeOrdered
  <2>2. s = CHOOSE e \in [1..n -> S] : InOrderSeq(e, up)
    BY <1>1, <1>2 DEF Ordered, InOrderSeq
  <2> QED
    BY <2>1, <2>2
<1>5. s \in Seq(S) /\ Len(s) = n
  BY <1>3, <1>4, SeqDef, LenProperties
<1>6. s \in Injection(1..n, S)
  <2> SUFFICES ASSUME NEW i \in 1..n, NEW j \in 1..n, s[i] = s[j], i # j
               PROVE  FALSE
    BY <1>4 DEF Injection, IsInjective
  <2>1. InOrder(up, s[i], s[j]) \/ InOrder(up, s[j], s[i])
    BY <1>3, <1>4 DEF InOrderSeq
  <2>2. s[i] \in Present
    BY <1>4
  <2> QED
    BY <2>1, <2>2, RowsOrdered
<1>7. s \in Surjection(1..n, S)
  <2>1. Cardinality(1..n) = n
    BY <1>3, FS_Interval
  <2> QED
    BY <1>2, <1>3, <1>6, <2>1, FS_Injection
<1>8. ToSet(s) = S
  BY <1>4, <1>7 DEF Surjection, ToSet
<1> QED
  BY <1>1, <1>2, <1>4, <1>5, <1>8

\* The rows loaded for a cursor match it and are in order; unless some have
\* expired, a row that matches and is missing is beyond a full page.
LEMMA LoadedIsSound ==
  ASSUME RowTypes, NEW c \in Cursors
  PROVE  /\ Loaded(c) \in Seq(Keys) /\ InOrderSeq(Loaded(c), Up(c))
         /\ ToSet(Loaded(c)) \subseteq Matching(c)
         /\ ~Thins(c) => \A k \in Matching(c) \ ToSet(Loaded(c)) :
                /\ Len(Loaded(c)) >= PageSize
                /\ \A j \in ToSet(Loaded(c)) : InOrder(Up(c), j, k)
<1>1. PICK up, M, o : up = Up(c) /\ M = Matching(c) /\ o = Ordered(M, up)
  OBVIOUS
<1>2. up \in BOOLEAN /\ M \subseteq Present /\ Present \subseteq Keys
  BY <1>1 DEF Up, Matching, Present
<1>3. o \in Seq(M) /\ InOrderSeq(o, up) /\ ToSet(o) = M
  BY <1>1, <1>2, OrderedIsSound
<1>4. PICK n : n = Len(o)
  OBVIOUS
<1>5. n \in Nat /\ DOMAIN o = 1..n /\ \A i \in 1..n : o[i] \in M
  BY <1>3, <1>4, LenProperties
<1>6. PageSize \in Nat \ {0}
  BY PaginationAssumption DEF PageSize, RowTypes
<1>7. PICK z : z = IF n < PageSize THEN n ELSE PageSize
  OBVIOUS
<1>8. z \in Nat /\ z <= n /\ z <= PageSize /\ (z < n => z = PageSize)
  BY <1>5, <1>6, <1>7
<1>9. PICK p : p = Listed(c)
  OBVIOUS
<1>10. p \in Seq(M) /\ Len(p) = z /\ \A i \in 1..z : p[i] = o[i]
  <2>1. p = SubSeq(o, 1, z)
    BY <1>1, <1>4, <1>7, <1>9 DEF Listed, Prefix
  <2>2. \A i \in 1..z : o[i] \in M
    BY <1>5, <1>8
  <2> QED
    BY <1>8, <2>1, <2>2, SubSeqProperties
<1>11. DOMAIN p = 1..z /\ p \in [1..z -> M]
  BY <1>10, LenProperties
<1>12. PICK T : T = ToSet(p)
  OBVIOUS
<1>13. T \subseteq M /\ \A k \in T : \E i \in 1..z : k = o[i]
  BY <1>10, <1>11, <1>12 DEF ToSet
<1>14. PICK S : S = T \ expired
  OBVIOUS
<1>15. Loaded(c) = Ordered(S, up) /\ (Thins(c) <=> T \cap expired # {})
  BY <1>1, <1>9, <1>12, <1>14 DEF Loaded, Thins
<1>16. S \subseteq Present
  BY <1>2, <1>13, <1>14
<1>17. PICK l : l = Loaded(c)
  OBVIOUS
<1>18. l \in Seq(S) /\ Len(l) = Cardinality(S) /\ InOrderSeq(l, up) /\ ToSet(l) = S
  BY <1>2, <1>15, <1>16, <1>17, OrderedIsSound
<1>19. l \in Seq(Keys)
  <2>1. S \subseteq Keys
    BY <1>2, <1>16
  <2> QED
    BY <1>18, <2>1, SeqMonotonic
<1>20. ASSUME ~Thins(c), NEW k \in M \ S
       PROVE  Len(l) >= PageSize /\ \A j \in S : InOrder(up, j, k)
  <2>1. S = T
    BY <1>14, <1>15, <1>20
  <2>2. PICK i \in 1..n : k = o[i]
    BY <1>3, <1>5 DEF ToSet
  <2>3. ~(i \in 1..z)
    BY <1>10, <1>11, <1>12, <1>20, <2>1, <2>2 DEF ToSet
  <2>4. z < i /\ z = PageSize
    BY <1>5, <1>8, <2>2, <2>3
  <2>5. \A j \in S : InOrder(up, j, k)
    <3> SUFFICES ASSUME NEW j \in S PROVE InOrder(up, j, k)
      OBVIOUS
    <3>1. PICK q \in 1..z : j = o[q]
      BY <1>13, <2>1
    <3>2. q \in 1..n /\ q < i
      BY <1>5, <1>8, <2>2, <2>4, <3>1
    <3> QED
      BY <1>3, <1>5, <2>2, <3>1, <3>2 DEF InOrderSeq
  <2>6. Cardinality(T) = z
    <3>1. p \in [1..z -> T] /\ \A k1 \in T : \E i1 \in 1..z : p[i1] = k1
      BY <1>11, <1>12 DEF ToSet
    <3>2. p \in Surjection(1..z, T)
      BY <3>1 DEF Surjection
    <3>3. p \in Injection(1..z, T)
      <4> SUFFICES ASSUME NEW q \in 1..z, NEW r \in 1..z, p[q] = p[r], q # r
                   PROVE  FALSE
        BY <3>1 DEF Injection, IsInjective
      <4>1. q \in 1..n /\ r \in 1..n /\ o[q] = o[r] /\ o[q] \in Present
        BY <1>2, <1>5, <1>8, <1>10
      <4>2. InOrder(up, o[q], o[r]) \/ InOrder(up, o[r], o[q])
        BY <1>3, <1>5, <4>1 DEF InOrderSeq
      <4> QED
        BY <1>2, <4>1, <4>2, RowsOrdered
    <3>4. Cardinality(1..z) = z /\ IsFiniteSet(1..z)
      BY <1>8, FS_Interval
    <3> QED
      BY <3>2, <3>3, <3>4, FS_Surjection
  <2> QED
    BY <1>6, <1>18, <2>1, <2>4, <2>5, <2>6
<1> QED
  BY <1>1, <1>13, <1>14, <1>17, <1>18, <1>19, <1>20

\* The page of a cursor is in the order of the list, in either direction.
LEMMA PageIsSound ==
  ASSUME RowTypes, NEW c \in Cursors
  PROVE  /\ PageAt(c) \in Seq(Keys) /\ InOrderSeq(PageAt(c), query.asc)
         /\ ToSet(PageAt(c)) \subseteq Matching(c)
         /\ ~Thins(c) => \A k \in Matching(c) \ ToSet(PageAt(c)) :
                Full(PageAt(c)) /\ \A j \in ToSet(PageAt(c)) : InOrder(Up(c), j, k)
<1>1. PICK l, p : l = Loaded(c) /\ p = PageAt(c)
  OBVIOUS
<1>2. query.asc \in BOOLEAN
  BY DEF RowTypes
<1>3. CASE c.direction # "back"
  <2>1. p = l /\ Up(c) = query.asc
    BY <1>1, <1>2, <1>3 DEF PageAt, Up
  <2> QED
    BY <1>1, <2>1, LoadedIsSound DEF Full
<1>4. CASE c.direction = "back"
  <2>1. p = Reverse(l) /\ Up(c) = ~query.asc
    BY <1>1, <1>2, <1>4 DEF PageAt, Up
  <2>2. PICK n : n = Len(l)
    OBVIOUS
  <2>3. n \in Nat /\ DOMAIN l = 1..n /\ \A i \in 1..n : l[i] \in Keys
    BY <1>1, <2>2, LoadedIsSound, LenProperties
  <2>4. p = [i \in 1..n |-> l[(n - i) + 1]]
    BY <2>1, <2>2 DEF Reverse
  <2>5. p \in [1..n -> Keys]
    BY <2>3, <2>4
  <2>6. p \in Seq(Keys) /\ Len(p) = n /\ DOMAIN p = 1..n
    BY <2>3, <2>5, SeqDef, LenProperties
  <2>7. ToSet(p) = ToSet(l)
    <3>1. ASSUME NEW i \in 1..n
          PROVE  p[i] = l[(n - i) + 1] /\ (n - i) + 1 \in 1..n /\ l[i] = p[(n - i) + 1]
      BY <2>3, <2>4
    <3>2. ASSUME NEW k \in ToSet(p) PROVE k \in ToSet(l)
      <4>1. PICK i \in 1..n : k = p[i]
        BY <2>6, <3>2 DEF ToSet
      <4> QED
        BY <2>3, <3>1, <4>1 DEF ToSet
    <3>3. ASSUME NEW k \in ToSet(l) PROVE k \in ToSet(p)
      <4>1. PICK i \in 1..n : k = l[i]
        BY <2>3, <3>3 DEF ToSet
      <4> QED
        BY <2>6, <3>1, <4>1 DEF ToSet
    <3> QED
      BY <3>2, <3>3
  <2>8. InOrderSeq(p, query.asc)
    <3> SUFFICES ASSUME NEW i \in 1..n, NEW j \in 1..n, i < j
                 PROVE  InOrder(query.asc, p[i], p[j])
      BY <2>6 DEF InOrderSeq
    <3>1. PICK g, h : g = (n - j) + 1 /\ h = (n - i) + 1
      OBVIOUS
    <3>2. g \in 1..n /\ h \in 1..n /\ g < h /\ p[i] = l[h] /\ p[j] = l[g]
      BY <2>3, <2>4, <3>1
    <3>3. InOrder(~query.asc, l[g], l[h])
      BY <1>1, <2>1, <2>3, <3>2, LoadedIsSound DEF InOrderSeq
    <3> QED
      BY <1>2, <3>2, <3>3 DEF InOrder
  <2> QED
    BY <1>1, <2>2, <2>6, <2>7, <2>8, LoadedIsSound DEF Full
<1> QED
  BY <1>3, <1>4

(* Where the walk stands: the rows of the trail are behind every link that  *)
(* the client follows, and the others are ahead of it.                      *)
Behind(c, S) == \A k \in S : k \notin Matching(c)
Ahead(c, S) == S \subseteq Matching(c)

WalkTypesOK ==
    /\ RowTypes /\ walk \in {"next", "prev"}
    /\ trail \in Seq(Keys) /\ page \in Seq(Keys) /\ thinned \in BOOLEAN
    /\ \A c \in LinksAhead : c \in Cursors /\ c.direction = IF walk = "next" THEN "on" ELSE "back"

FrontSound ==
    /\ \A c \in LinksAhead : Behind(c, Steady \cap ToSet(trail))
    /\ ~thinned => /\ LinksAhead = {} => Steady \subseteq ToSet(trail)
                   /\ \A c \in LinksAhead : Ahead(c, Steady \ ToSet(trail))

(* The links back from the page, for the client to turn round.              *)
BackSound ==
    walk = "next" =>
        /\ SteadyInOrder(page)
        /\ \A c \in links.prev :
              /\ c \in Cursors /\ c.direction = "back"
              /\ Behind(c, Steady \cap ToSet(page))
              /\ Ahead(c, (Steady \cap ToSet(trail)) \ ToSet(page))

PagesInv == WalkTypesOK /\ SteadyInOrder(trail) /\ FrontSound /\ BackSound

\* The row at an end of a page.
LEMMA PageEnds ==
  ASSUME RowTypes, NEW c \in Cursors, PageAt(c) # <<>>
  PROVE  /\ Head(PageAt(c)) \in ToSet(PageAt(c)) /\ Last(PageAt(c)) \in ToSet(PageAt(c))
         /\ \A k \in ToSet(PageAt(c)) :
               /\ k # Head(PageAt(c)) => InOrder(query.asc, Head(PageAt(c)), k)
               /\ k # Last(PageAt(c)) => InOrder(query.asc, k, Last(PageAt(c)))
<1>1. PICK p : p = PageAt(c)
  OBVIOUS
<1>2. PICK n : n = Len(p)
  OBVIOUS
<1>3. p \in Seq(Keys) /\ InOrderSeq(p, query.asc)
  BY <1>1, PageIsSound
<1>4. n \in Nat /\ n # 0 /\ DOMAIN p = 1..n
  BY <1>1, <1>2, <1>3, LenProperties, EmptySeq
<1>5. Head(p) = p[1] /\ Last(p) = p[n]
  BY <1>2, <1>3 DEF Last
<1>6. ASSUME NEW i \in 1..n
      PROVE  /\ p[i] # p[1] => InOrder(query.asc, p[1], p[i])
             /\ p[i] # p[n] => InOrder(query.asc, p[i], p[n])
  <2>1. i = 1 \/ 1 < i
    OBVIOUS
  <2>2. i = n \/ i < n
    BY <1>4
  <2> QED
    BY <1>3, <1>4, <2>1, <2>2 DEF InOrderSeq
<1> QED
  BY <1>1, <1>4, <1>5, <1>6 DEF ToSet

\* The link on from a page: what the page shows or what did not match its
\* cursor does not match, and the rest does.
LEMMA FarLink ==
  ASSUME RowTypes, NEW c \in Cursors, NEW direction \in {"on", "back"},
         c.direction = "back" <=> direction = "back", PageAt(c) # <<>>,
         NEW f, f = IF direction = "back" THEN Head(PageAt(c)) ELSE Last(PageAt(c)),
         NEW d, d = CursorAt(direction, f)
  PROVE  /\ d \in Cursors /\ d.direction = direction
         /\ \A k \in ToSet(PageAt(c)) : k \notin Matching(d)
         /\ \A k \in Present \ Matching(c) : k \notin Matching(d)
         /\ ~Thins(c) => \A k \in Matching(c) \ ToSet(PageAt(c)) : k \in Matching(d)
<1>1. PICK p, up : p = ToSet(PageAt(c)) /\ up = Up(c)
  OBVIOUS
<1>2. up \in BOOLEAN /\ query.asc \in BOOLEAN /\ up = (query.asc = (direction # "back"))
  BY <1>1 DEF Up, RowTypes
<1>3. p \subseteq Matching(c) /\ Matching(c) \subseteq Present
  BY <1>1, PageIsSound DEF Matching
<1>4. f \in p /\ f \in Present
  BY <1>1, <1>3, PageEnds
<1>5. \A k \in p : k # f => InOrder(up, k, f)
  <2> SUFFICES ASSUME NEW k \in p, k # f PROVE InOrder(up, k, f)
    OBVIOUS
  <2>1. CASE direction = "back"
    <3>1. InOrder(query.asc, f, k)
      BY <1>1, <2>1, PageEnds
    <3> QED
      BY <1>2, <2>1, <3>1 DEF InOrder
  <2>2. CASE direction # "back"
    <3>1. InOrder(query.asc, k, f)
      BY <1>1, <2>2, PageEnds
    <3> QED
      BY <1>2, <2>2, <3>1
  <2> QED
    BY <2>1, <2>2
<1>6. d \in Cursors /\ d.direction = direction
  BY <1>4, CursorAtRow DEF CursorAt
<1>7. Up(d) = up
  BY <1>1, <1>6 DEF Up
<1>8. \A k \in Present : k \in Matching(d) <=> InOrder(up, f, k)
  BY <1>4, <1>7, CursorAtRow
<1>9. \A k \in p : k \notin Matching(d)
  <2> SUFFICES ASSUME NEW k \in p, InOrder(up, f, k) PROVE FALSE
    BY <1>3, <1>8
  <2>1. k \in Present
    BY <1>3
  <2> QED
    BY <1>2, <1>4, <1>5, <2>1, RowsOrdered
<1>10. ASSUME NEW k \in Present \ Matching(c), k \in Matching(d)
       PROVE  FALSE
  <2>1. InOrder(up, k, f) /\ InOrder(up, f, k)
    BY <1>1, <1>3, <1>4, <1>8, <1>10, MatchAfter
  <2> QED
    BY <1>2, <1>4, <2>1, RowsOrdered
<1>11. ASSUME ~Thins(c), NEW k \in Matching(c) \ p
       PROVE  k \in Matching(d)
  BY <1>1, <1>3, <1>4, <1>8, <1>11, PageIsSound
<1> QED
  BY <1>1, <1>6, <1>9, <1>10, <1>11

\* The link back from a page: what comes before the page matches it.
LEMMA NearLink ==
  ASSUME RowTypes, NEW c \in Cursors, c.direction # "back", PageAt(c) # <<>>,
         NEW d, d = CursorAt("back", Head(PageAt(c)))
  PROVE  /\ d \in Cursors /\ d.direction = "back"
         /\ \A k \in ToSet(PageAt(c)) : k \notin Matching(d)
         /\ \A k \in Present \ Matching(c) : k \in Matching(d)
<1>1. PICK p, up, h : p = ToSet(PageAt(c)) /\ up = query.asc /\ h = Head(PageAt(c))
  OBVIOUS
<1>2. up \in BOOLEAN /\ Up(c) = up
  BY <1>1 DEF Up, RowTypes
<1>3. p \subseteq Matching(c) /\ Matching(c) \subseteq Present
  BY <1>1, PageIsSound DEF Matching
<1>4. h \in p /\ h \in Present /\ \A k \in p : k # h => InOrder(up, h, k)
  BY <1>1, <1>3, PageEnds
<1>5. d \in Cursors /\ d.direction = "back"
  BY <1>1, <1>4, CursorAtRow DEF CursorAt
<1>6. Up(d) = ~up
  BY <1>1, <1>2, <1>5 DEF Up
<1>7. \A k \in Present : k \in Matching(d) <=> InOrder(~up, h, k)
  BY <1>1, <1>4, <1>6, CursorAtRow
<1>8. \A k \in Present : k \in Matching(d) <=> InOrder(up, k, h)
  BY <1>2, <1>7 DEF InOrder
<1>9. \A k \in p : k \notin Matching(d)
  <2> SUFFICES ASSUME NEW k \in p, InOrder(up, k, h) PROVE FALSE
    BY <1>3, <1>8
  <2>1. k \in Present
    BY <1>3
  <2> QED
    BY <1>2, <1>4, <2>1, RowsOrdered
<1>10. \A k \in Present \ Matching(c) : k \in Matching(d)
  BY <1>2, <1>3, <1>4, <1>8, MatchAfter
<1> QED
  BY <1>1, <1>5, <1>9, <1>10

AllInOrder(s, T) == \A i, j \in DOMAIN s : i < j /\ {s[i], s[j]} \subseteq T => InOrder(query.asc, s[i], s[j])

\* One sequence after another holds what each of them holds, and is in order
\* when both are and the first comes before the second.
LEMMA Joined ==
  ASSUME NEW s \in Seq(Keys), NEW t \in Seq(Keys), NEW T
  PROVE  /\ s \o t \in Seq(Keys) /\ ToSet(s \o t) = ToSet(s) \cup ToSet(t)
         /\ /\ AllInOrder(s, T) /\ AllInOrder(t, T)
            /\ \A a \in ToSet(s) \cap T, b \in ToSet(t) \cap T : InOrder(query.asc, a, b)
            => AllInOrder(s \o t, T)
<1>1. PICK r, m, n : r = s \o t /\ m = Len(s) /\ n = Len(t)
  OBVIOUS
<1>2. m \in Nat /\ n \in Nat /\ DOMAIN s = 1..m /\ DOMAIN t = 1..n
  BY <1>1, LenProperties
<1>3. /\ r \in Seq(Keys) /\ DOMAIN r = 1..(m + n)
      /\ \A i \in 1..(m + n) : r[i] = IF i <= m THEN s[i] ELSE t[i - m]
  <2>1. r \in Seq(Keys) /\ Len(r) = m + n
    BY <1>1, ConcatProperties
  <2>2. \A i \in 1..(m + n) : r[i] = IF i <= m THEN s[i] ELSE t[i - m]
    BY <1>1, ConcatProperties
  <2> QED
    BY <2>1, <2>2, LenProperties
<1>4. \A i \in 1..m : i \in 1..(m + n) /\ r[i] = s[i]
  BY <1>2, <1>3
<1>5. \A i \in 1..n : i + m \in 1..(m + n) /\ r[i + m] = t[i]
  BY <1>2, <1>3
<1>6. \A i \in 1..(m + n) : (i \in 1..m /\ r[i] = s[i]) \/ (m < i /\ i - m \in 1..n /\ r[i] = t[i - m])
  BY <1>2, <1>3
<1>7. ToSet(r) = ToSet(s) \cup ToSet(t)
  <2>1. ASSUME NEW k \in ToSet(r) PROVE k \in ToSet(s) \cup ToSet(t)
    BY <1>2, <1>3, <1>6, <2>1 DEF ToSet
  <2>2. ASSUME NEW k \in ToSet(s) PROVE k \in ToSet(r)
    BY <1>2, <1>3, <1>4, <2>2 DEF ToSet
  <2>3. ASSUME NEW k \in ToSet(t) PROVE k \in ToSet(r)
    <3>1. PICK i \in 1..n : k = t[i]
      BY <1>2, <2>3 DEF ToSet
    <3>2. i + m \in 1..(m + n) /\ r[i + m] = k
      BY <1>5, <3>1
    <3> QED
      BY <1>3, <3>2 DEF ToSet
  <2> QED
    BY <2>1, <2>2, <2>3
<1>8. ASSUME AllInOrder(s, T), AllInOrder(t, T),
             \A a \in ToSet(s) \cap T, b \in ToSet(t) \cap T : InOrder(query.asc, a, b)
      PROVE  AllInOrder(r, T)
  <2> SUFFICES ASSUME NEW i \in 1..(m + n), NEW j \in 1..(m + n), i < j, r[i] \in T, r[j] \in T
               PROVE  InOrder(query.asc, r[i], r[j])
    BY <1>3 DEF AllInOrder
  <2>1. CASE i \in 1..m /\ j \in 1..m
    BY <1>2, <1>4, <1>8, <2>1 DEF AllInOrder
  <2>2. CASE i \in 1..m /\ ~(j \in 1..m)
    <3>1. r[i] \in ToSet(s) /\ r[j] \in ToSet(t)
      BY <1>2, <1>4, <1>6, <2>2 DEF ToSet
    <3> QED
      BY <1>8, <3>1
  <2>3. CASE ~(i \in 1..m)
    <3>1. PICK g, h : g = i - m /\ h = j - m
      OBVIOUS
    <3>2. g \in 1..n /\ h \in 1..n /\ g < h /\ r[i] = t[g] /\ r[j] = t[h]
      BY <1>2, <1>6, <2>3, <3>1
    <3> QED
      BY <1>2, <1>8, <3>2 DEF AllInOrder
  <2> QED
    BY <2>1, <2>2, <2>3
<1> QED
  BY <1>1, <1>3, <1>7, <1>8

\* A page joins the trail in order, after it or before it.
LEMMA PageJoins ==
  ASSUME RowTypes, NEW c \in Cursors, NEW t \in Seq(Keys), NEW T, T \subseteq Present,
         AllInOrder(t, T), Behind(c, T \cap ToSet(t))
  PROVE  /\ c.direction # "back" => AllInOrder(t \o PageAt(c), T)
         /\ c.direction = "back" => AllInOrder(PageAt(c) \o t, T)
<1>1. PICK p : p = PageAt(c)
  OBVIOUS
<1>2. p \in Seq(Keys) /\ ToSet(p) \subseteq Matching(c) /\ AllInOrder(p, T) /\ query.asc \in BOOLEAN
  BY <1>1, PageIsSound DEF AllInOrder, InOrderSeq, RowTypes
<1>3. \A a \in ToSet(t) \cap T, b \in ToSet(p) \cap T : InOrder(Up(c), a, b)
  BY <1>2, MatchAfter DEF Behind
<1>4. CASE c.direction # "back"
  <2>1. Up(c) = query.asc
    BY <1>2, <1>4 DEF Up
  <2>2. \A a \in ToSet(t) \cap T, b \in ToSet(p) \cap T : InOrder(query.asc, a, b)
    BY <1>3, <2>1
  <2> QED
    BY <1>1, <1>2, <1>4, <2>2, Joined
<1>5. CASE c.direction = "back"
  <2>1. Up(c) = ~query.asc
    BY <1>2, <1>5 DEF Up
  <2>2. \A a \in ToSet(p) \cap T, b \in ToSet(t) \cap T : InOrder(query.asc, a, b)
    BY <1>2, <1>3, <2>1 DEF InOrder
  <2> QED
    BY <1>1, <1>2, <1>5, <2>2, Joined
<1> QED
  BY <1>4, <1>5

\* A page that is short is the last.
LEMMA ShortPage ==
  ASSUME RowTypes, NEW c \in Cursors, ~Thins(c), ~Full(PageAt(c)), NEW S, Ahead(c, S)
  PROVE  S \subseteq ToSet(PageAt(c))
BY PageIsSound DEF Ahead

\* A full page is not empty.
LEMMA FullPage ==
  ASSUME RowTypes, NEW p, Full(p)
  PROVE  p # <<>>
<1>1. PageSize \in Nat \ {0}
  BY PaginationAssumption DEF PageSize, RowTypes
<1>2. Len(<<>>) = 0
  OBVIOUS
<1> QED
  BY <1>1, <1>2 DEF Full

\* The next links of a page, for the rows of a set T: those that the walk has
\* seen are behind, the others ahead.
LEMMA NextLinks ==
  ASSUME RowTypes, NEW c \in Cursors, c.direction # "back", NEW T, T \subseteq Present,
         NEW seen, Behind(c, T \cap seen), NEW all, all = seen \cup ToSet(PageAt(c))
  PROVE  /\ \A d \in NextCursor(c, PageAt(c)) :
               d \in Cursors /\ d.direction = "on" /\ Behind(d, T \cap all)
         /\ ~Thins(c) /\ Ahead(c, T \ seen) =>
               /\ NextCursor(c, PageAt(c)) = {} => T \subseteq all
               /\ \A d \in NextCursor(c, PageAt(c)) : Ahead(d, T \ all)
<1>1. PICK p : p = PageAt(c)
  OBVIOUS
<1>2. ASSUME NEW d \in NextCursor(c, p)
      PROVE  /\ d \in Cursors /\ d.direction = "on" /\ Behind(d, T \cap all)
             /\ ~Thins(c) /\ Ahead(c, T \ seen) => Ahead(d, T \ all)
  <2>1. Full(p) /\ d = CursorAt("on", Last(p))
    BY <1>2 DEF NextCursor
  <2>2. p # <<>>
    BY <2>1, FullPage
  <2>3. /\ d \in Cursors /\ d.direction = "on"
        /\ \A k \in ToSet(p) : k \notin Matching(d)
        /\ \A k \in Present \ Matching(c) : k \notin Matching(d)
        /\ ~Thins(c) => \A k \in Matching(c) \ ToSet(p) : k \in Matching(d)
    BY <1>1, <2>1, <2>2, FarLink
  <2>4. Behind(d, T \cap all)
    BY <1>1, <2>3 DEF Behind
  <2>5. ~Thins(c) /\ Ahead(c, T \ seen) => Ahead(d, T \ all)
    BY <1>1, <2>3 DEF Ahead
  <2> QED
    BY <2>3, <2>4, <2>5
<1>3. ASSUME ~Thins(c), Ahead(c, T \ seen), NextCursor(c, p) = {}
      PROVE  T \subseteq all
  <2>1. ~Full(p)
    BY <1>3 DEF NextCursor
  <2> QED
    BY <1>1, <1>3, <2>1, ShortPage
<1> QED
  BY <1>1, <1>2, <1>3

\* The previous links of a page that the walk on shows.
LEMMA LinksBack ==
  ASSUME RowTypes, NEW c \in Cursors, c.direction # "back", NEW T, T \subseteq Present,
         NEW seen, Behind(c, T \cap seen), NEW all, all = seen \cup ToSet(PageAt(c)),
         NEW d \in PreviousCursor(c, PageAt(c))
  PROVE  /\ d \in Cursors /\ d.direction = "back"
         /\ Behind(d, T \cap ToSet(PageAt(c)))
         /\ Ahead(d, (T \cap all) \ ToSet(PageAt(c)))
<1>1. PICK p : p = PageAt(c)
  OBVIOUS
<1>2. CASE p = <<>>
  <2>1. d = [direction |-> "back", key |-> NoKey, value |-> Null]
    BY <1>1, <1>2 DEF PreviousCursor
  <2>2. d \in Cursors /\ d.direction = "back" /\ d.key = NoKey
    BY <2>1 DEF Cursors
  <2>3. Matching(d) = Present
    BY <2>2 DEF Matching
  <2>4. ToSet(p) = {}
    BY <1>2 DEF ToSet
  <2> QED
    BY <1>1, <2>2, <2>3, <2>4 DEF Behind, Ahead
<1>3. CASE p # <<>>
  <2>1. d = CursorAt("back", Head(p))
    BY <1>1, <1>3 DEF PreviousCursor
  <2>2. /\ d \in Cursors /\ d.direction = "back"
        /\ \A k \in ToSet(p) : k \notin Matching(d)
        /\ \A k \in Present \ Matching(c) : k \in Matching(d)
    BY <1>1, <1>3, <2>1, NearLink
  <2>3. Behind(d, T \cap ToSet(p))
    BY <2>2 DEF Behind
  <2>4. Ahead(d, (T \cap all) \ ToSet(p))
    BY <1>1, <2>2 DEF Ahead, Behind
  <2> QED
    BY <1>1, <2>2, <2>3, <2>4
<1> QED
  BY <1>2, <1>3

\* The previous links of a page that the walk back shows.
LEMMA PreviousLinks ==
  ASSUME RowTypes, NEW c \in Cursors, c.direction = "back", NEW T, T \subseteq Present,
         NEW seen, Behind(c, T \cap seen), NEW all, all = seen \cup ToSet(PageAt(c))
  PROVE  /\ \A d \in PreviousCursor(c, PageAt(c)) :
               d \in Cursors /\ d.direction = "back" /\ Behind(d, T \cap all)
         /\ ~Thins(c) /\ Ahead(c, T \ seen) =>
               /\ PreviousCursor(c, PageAt(c)) = {} => T \subseteq all
               /\ \A d \in PreviousCursor(c, PageAt(c)) : Ahead(d, T \ all)
<1>1. PICK p : p = PageAt(c)
  OBVIOUS
<1>2. ASSUME NEW d \in PreviousCursor(c, p)
      PROVE  /\ d \in Cursors /\ d.direction = "back" /\ Behind(d, T \cap all)
             /\ ~Thins(c) /\ Ahead(c, T \ seen) => Ahead(d, T \ all)
  <2>1. Full(p)
    BY <1>2 DEF PreviousCursor
  <2>2. p # <<>>
    BY <2>1, FullPage
  <2>3. d = CursorAt("back", Head(p))
    BY <1>2, <2>1, <2>2 DEF PreviousCursor
  <2>4. /\ d \in Cursors /\ d.direction = "back"
        /\ \A k \in ToSet(p) : k \notin Matching(d)
        /\ \A k \in Present \ Matching(c) : k \notin Matching(d)
        /\ ~Thins(c) => \A k \in Matching(c) \ ToSet(p) : k \in Matching(d)
    BY <1>1, <2>2, <2>3, FarLink
  <2>5. Behind(d, T \cap all)
    BY <1>1, <2>4 DEF Behind
  <2>6. ~Thins(c) /\ Ahead(c, T \ seen) => Ahead(d, T \ all)
    BY <1>1, <2>4 DEF Ahead
  <2> QED
    BY <2>4, <2>5, <2>6
<1>3. ASSUME ~Thins(c), Ahead(c, T \ seen), PreviousCursor(c, p) = {}
      PROVE  T \subseteq all
  <2>1. ~Full(p)
    BY <1>3, FullPage DEF PreviousCursor
  <2> QED
    BY <1>1, <1>3, <2>1, ShortPage
<1> QED
  BY <1>1, <1>2, <1>3

\* Where rows, order and request stay, so does what matches a cursor.
LEMMA MatchFrame ==
  ASSUME UNCHANGED <<rows, query>>
  PROVE  /\ Present' = Present /\ PageSize' = PageSize
         /\ \A c, k : (k \in Matching(c))' <=> k \in Matching(c)
         /\ \A c, S : Behind(c, S)' <=> Behind(c, S)
         /\ \A c, S : Ahead(c, S)' <=> Ahead(c, S)
         /\ \A s, T : AllInOrder(s, T)' <=> AllInOrder(s, T)
<1>1. Present' = Present /\ PageSize' = PageSize
  BY DEF Present, PageSize
<1>2. \A c, k : (k \in Matching(c))' <=> k \in Matching(c)
  BY <1>1 DEF Matching, BeyondValue, BeyondKey, PairAbove, PairBelow, Up
<1>3. \A c, S : Behind(c, S)' <=> Behind(c, S)
  BY <1>2 DEF Behind
<1>4. \A c, S : Ahead(c, S)' <=> Ahead(c, S)
  BY <1>2 DEF Ahead
<1>5. \A s, T : AllInOrder(s, T)' <=> AllInOrder(s, T)
  BY DEF AllInOrder, InOrder, InOrderOf, Below
<1> QED
  BY <1>1, <1>2, <1>3, <1>4, <1>5

\* The first page of a walk shows what PagesInv says, for any rows T.
LEMMA FirstPageSound ==
  ASSUME RowTypes, NEW T, T \subseteq Present, NEW p, p = PageAt(FirstPage)
  PROVE  /\ FirstPage \in Cursors /\ p \in Seq(Keys) /\ AllInOrder(p, T)
         /\ \A d \in NextCursor(FirstPage, p) :
               d \in Cursors /\ d.direction = "on" /\ Behind(d, T \cap ToSet(p))
         /\ ~Thins(FirstPage) => /\ NextCursor(FirstPage, p) = {} => T \subseteq ToSet(p)
                                 /\ \A d \in NextCursor(FirstPage, p) : Ahead(d, T \ ToSet(p))
         /\ PreviousCursor(FirstPage, p) = {}
<1>1. PICK c : c = FirstPage
  OBVIOUS
<1>2. c \in Cursors /\ c.direction = "none" /\ c.key = NoKey
  BY <1>1 DEF FirstPage, Cursors
<1>3. Matching(c) = Present
  BY <1>2 DEF Matching
<1>4. p \in Seq(Keys) /\ AllInOrder(p, T)
  BY <1>1, <1>2, PageIsSound DEF AllInOrder, InOrderSeq
<1>5. PICK none : none = {}
  OBVIOUS
<1>6. Behind(c, T \cap none) /\ ToSet(p) = none \cup ToSet(PageAt(c)) /\ Ahead(c, T \ none)
  BY <1>1, <1>3, <1>5 DEF Behind, Ahead
<1>7. /\ \A d \in NextCursor(c, PageAt(c)) :
            d \in Cursors /\ d.direction = "on" /\ Behind(d, T \cap ToSet(p))
      /\ ~Thins(c) /\ Ahead(c, T \ none) =>
            /\ NextCursor(c, PageAt(c)) = {} => T \subseteq ToSet(p)
            /\ \A d \in NextCursor(c, PageAt(c)) : Ahead(d, T \ ToSet(p))
  BY <1>2, <1>6, NextLinks
<1>8. PreviousCursor(c, p) = {}
  BY <1>2 DEF PreviousCursor
<1> QED
  BY <1>1, <1>2, <1>4, <1>6, <1>7, <1>8

\* The rows that stayed are rows, and in order as SteadyInOrder says.
LEMMA SteadyRows ==
  /\ Steady \subseteq Present
  /\ \A s : SteadyInOrder(s) <=> AllInOrder(s, Steady)
BY DEF Steady, SteadyInOrder, AllInOrder

\* Every list starts with such a page.
LEMMA PagesInit == PaginationInit => PagesInv
<1> SUFFICES ASSUME PaginationInit PROVE PagesInv
  OBVIOUS
<1>1. RowTypes
  <2>1. MaxPageSize \in Nat \ {0}
    BY PaginationAssumption
  <2>2. \A n \in 1..MaxPageSize + 1 : n \in Nat \ {0}
    BY <2>1
  <2>3. query \in [kind : {"standard", "ordered", "redis"}, asc : BOOLEAN, size : 1..MaxPageSize + 1]
    BY DEF PaginationInit
  <2>4. query.size \in Nat \ {0}
    BY <2>2, <2>3
  <2> QED
    BY <2>3, <2>4 DEF PaginationInit, RowTypes
<1>2. PICK p, T : p = PageAt(FirstPage) /\ T = Steady
  OBVIOUS
<1>3. /\ page = p /\ trail = p /\ walk = "next" /\ thinned = FALSE
      /\ links.next = NextCursor(FirstPage, p) /\ links.prev = PreviousCursor(FirstPage, p)
  BY <1>2 DEF PaginationInit, LinksOf
<1>4. ~Thins(FirstPage)
  BY DEF PaginationInit, Thins
<1>5. LinksAhead = NextCursor(FirstPage, p)
  BY <1>3 DEF LinksAhead
<1>6. /\ p \in Seq(Keys) /\ AllInOrder(p, T)
      /\ \A d \in NextCursor(FirstPage, p) :
               d \in Cursors /\ d.direction = "on" /\ Behind(d, T \cap ToSet(p))
      /\ NextCursor(FirstPage, p) = {} => T \subseteq ToSet(p)
      /\ \A d \in NextCursor(FirstPage, p) : Ahead(d, T \ ToSet(p))
      /\ PreviousCursor(FirstPage, p) = {}
  BY <1>1, <1>2, <1>4, SteadyRows, FirstPageSound
<1>7. WalkTypesOK
  BY <1>1, <1>3, <1>5, <1>6 DEF WalkTypesOK
<1>8. SteadyInOrder(trail) /\ SteadyInOrder(page)
  BY <1>2, <1>3, <1>6, SteadyRows
<1>9. FrontSound
  BY <1>2, <1>3, <1>5, <1>6 DEF FrontSound
<1>10. BackSound
  BY <1>3, <1>6, <1>8 DEF BackSound
<1> QED
  BY <1>7, <1>8, <1>9, <1>10 DEF PagesInv

\* One more page on.
LEMMA FollowNextStep == PagesInv /\ FollowNext => PagesInv'
<1> SUFFICES ASSUME PagesInv, FollowNext PROVE PagesInv'
  OBVIOUS
<1>1. PICK c \in LinksAhead : Follow(c, trail \o page')
  BY DEF FollowNext
<1>2. PICK p, t, s, T : p = PageAt(c) /\ t = trail /\ s = t \o p /\ T = Steady
  OBVIOUS
<1>3. /\ walk = "next" /\ c \in Cursors /\ c.direction = "on" /\ RowTypes
      /\ t \in Seq(Keys) /\ T \subseteq Present /\ AllInOrder(t, T) /\ Behind(c, T \cap ToSet(t))
      /\ ~thinned => Ahead(c, T \ ToSet(t))
  BY <1>1, <1>2, SteadyRows DEF PagesInv, WalkTypesOK, FrontSound, FollowNext
<1>4. /\ page' = p /\ trail' = s /\ walk' = "next" /\ thinned' = (thinned \/ Thins(c))
      /\ links'.next = NextCursor(c, p) /\ links'.prev = PreviousCursor(c, p)
      /\ UNCHANGED <<rows, query, expired, touched>>
  BY <1>1, <1>2, <1>3 DEF Follow, Shown, LinksOf
<1>5. LinksAhead' = NextCursor(c, p) /\ Steady' = T /\ RowTypes'
  BY <1>2, <1>3, <1>4 DEF LinksAhead, Steady, Present, RowTypes
<1>6. p \in Seq(Keys) /\ AllInOrder(p, T)
  BY <1>2, <1>3, PageIsSound DEF AllInOrder, InOrderSeq
<1>7. s \in Seq(Keys) /\ ToSet(s) = ToSet(t) \cup ToSet(p)
  BY <1>2, <1>3, <1>6, Joined
<1>8. AllInOrder(s, T)
  BY <1>2, <1>3, PageJoins
<1>9. PICK seen, all : seen = ToSet(t) /\ all = ToSet(s)
  OBVIOUS
<1>10. /\ \A d \in NextCursor(c, p) : d \in Cursors /\ d.direction = "on" /\ Behind(d, T \cap all)
       /\ ~Thins(c) /\ Ahead(c, T \ seen) =>
               /\ NextCursor(c, p) = {} => T \subseteq all
               /\ \A d \in NextCursor(c, p) : Ahead(d, T \ all)
  BY <1>2, <1>3, <1>7, <1>9, NextLinks
<1>11. \A d \in PreviousCursor(c, p) :
         /\ d \in Cursors /\ d.direction = "back"
         /\ Behind(d, T \cap ToSet(p))
         /\ Ahead(d, (T \cap all) \ ToSet(p))
  BY <1>2, <1>3, <1>7, <1>9, LinksBack
<1>12. thinned' \in BOOLEAN /\ (~thinned' => ~thinned /\ ~Thins(c))
  BY <1>4 DEF PagesInv, WalkTypesOK, Thins
<1>13. WalkTypesOK'
  BY <1>4, <1>5, <1>6, <1>7, <1>10, <1>12 DEF WalkTypesOK
<1>14. SteadyInOrder(trail)' /\ SteadyInOrder(page)'
  <2>1. AllInOrder(s, T)' /\ AllInOrder(p, T)'
    BY <1>4, <1>6, <1>8, MatchFrame
  <2> QED
    BY <1>4, <1>5, <2>1 DEF SteadyInOrder, AllInOrder
<1>15. FrontSound'
  <2>1. \A d \in NextCursor(c, p) : Behind(d, T \cap all)'
    BY <1>4, <1>10, MatchFrame
  <2>2. ~thinned' => /\ NextCursor(c, p) = {} => T \subseteq all
                     /\ \A d \in NextCursor(c, p) : Ahead(d, T \ all)'
    BY <1>3, <1>4, <1>9, <1>10, <1>12, MatchFrame
  <2> QED
    BY <1>4, <1>5, <1>9, <2>1, <2>2 DEF FrontSound, Behind, Ahead
<1>16. BackSound'
  <2>1. \A d \in PreviousCursor(c, p) : Behind(d, T \cap ToSet(p))' /\ Ahead(d, (T \cap all) \ ToSet(p))'
    BY <1>4, <1>11, MatchFrame
  <2> QED
    BY <1>4, <1>5, <1>9, <1>11, <1>14, <2>1 DEF BackSound, Behind, Ahead
<1> QED
  BY <1>13, <1>14, <1>15, <1>16 DEF PagesInv

\* One more page back.
LEMMA FollowPrevStep == PagesInv /\ FollowPrev => PagesInv'
<1> SUFFICES ASSUME PagesInv, FollowPrev PROVE PagesInv'
  OBVIOUS
<1>1. PICK c \in LinksAhead : Follow(c, page' \o trail)
  BY DEF FollowPrev
<1>2. PICK p, t, s, T : p = PageAt(c) /\ t = trail /\ s = p \o t /\ T = Steady
  OBVIOUS
<1>3. /\ walk = "prev" /\ c \in Cursors /\ c.direction = "back" /\ RowTypes
      /\ t \in Seq(Keys) /\ T \subseteq Present /\ AllInOrder(t, T) /\ Behind(c, T \cap ToSet(t))
      /\ ~thinned => Ahead(c, T \ ToSet(t))
  BY <1>1, <1>2, SteadyRows DEF PagesInv, WalkTypesOK, FrontSound, FollowPrev
<1>4. /\ page' = p /\ trail' = s /\ walk' = "prev" /\ thinned' = (thinned \/ Thins(c))
      /\ links'.prev = PreviousCursor(c, p)
      /\ UNCHANGED <<rows, query, expired, touched>>
  BY <1>1, <1>2, <1>3 DEF Follow, Shown, LinksOf
<1>5. LinksAhead' = PreviousCursor(c, p) /\ Steady' = T /\ RowTypes'
  BY <1>2, <1>3, <1>4 DEF LinksAhead, Steady, Present, RowTypes
<1>6. p \in Seq(Keys)
  BY <1>2, <1>3, PageIsSound
<1>7. s \in Seq(Keys) /\ ToSet(s) = ToSet(t) \cup ToSet(p)
  BY <1>2, <1>3, <1>6, Joined
<1>8. AllInOrder(s, T)
  BY <1>2, <1>3, PageJoins
<1>9. PICK seen, all : seen = ToSet(t) /\ all = ToSet(s)
  OBVIOUS
<1>10. /\ \A d \in PreviousCursor(c, p) : d \in Cursors /\ d.direction = "back" /\ Behind(d, T \cap all)
       /\ ~Thins(c) /\ Ahead(c, T \ seen) =>
               /\ PreviousCursor(c, p) = {} => T \subseteq all
               /\ \A d \in PreviousCursor(c, p) : Ahead(d, T \ all)
  BY <1>2, <1>3, <1>7, <1>9, PreviousLinks
<1>11. thinned' \in BOOLEAN /\ (~thinned' => ~thinned /\ ~Thins(c))
  BY <1>4 DEF PagesInv, WalkTypesOK, Thins
<1>12. WalkTypesOK'
  BY <1>4, <1>5, <1>6, <1>7, <1>10, <1>11 DEF WalkTypesOK
<1>13. SteadyInOrder(trail)'
  <2>1. AllInOrder(s, T)'
    BY <1>4, <1>8, MatchFrame
  <2> QED
    BY <1>4, <1>5, <2>1 DEF SteadyInOrder, AllInOrder
<1>14. FrontSound'
  <2>1. \A d \in PreviousCursor(c, p) : Behind(d, T \cap all)'
    BY <1>4, <1>10, MatchFrame
  <2>2. ~thinned' => /\ PreviousCursor(c, p) = {} => T \subseteq all
                     /\ \A d \in PreviousCursor(c, p) : Ahead(d, T \ all)'
    BY <1>3, <1>4, <1>9, <1>10, <1>11, MatchFrame
  <2> QED
    BY <1>4, <1>5, <1>9, <2>1, <2>2 DEF FrontSound, Behind, Ahead
<1>15. BackSound'
  BY <1>4 DEF BackSound
<1> QED
  BY <1>12, <1>13, <1>14, <1>15 DEF PagesInv

\* The client turns round.
LEMMA TurnStep == PagesInv /\ Turn => PagesInv'
<1> SUFFICES ASSUME PagesInv, Turn PROVE PagesInv'
  OBVIOUS
<1>1. RowTypes /\ UNCHANGED <<rows, query, expired>>
  BY DEF PagesInv, WalkTypesOK, Turn
<1>2. Present' = Present /\ RowTypes'
  BY <1>1, MatchFrame DEF RowTypes
<1>3. CASE walk = "next"
  <2>1. /\ walk' = "prev" /\ trail' = page /\ UNCHANGED <<page, links, touched, thinned>>
        /\ LinksAhead = {} /\ links.prev # {}
    BY <1>3 DEF Turn
  <2>2. PICK T, p, t, back : T = Steady /\ p = page /\ t = trail /\ back = links.prev
    OBVIOUS
  <2>3. Steady' = T /\ LinksAhead' = back /\ page' = p /\ trail' = p
    BY <1>1, <1>2, <2>1, <2>2 DEF Steady, LinksAhead
  <2>4. /\ AllInOrder(p, T) /\ p \in Seq(Keys)
        /\ \A c \in back : /\ c \in Cursors /\ c.direction = "back"
                           /\ Behind(c, T \cap ToSet(p))
                           /\ Ahead(c, (T \cap ToSet(t)) \ ToSet(p))
    BY <1>3, <2>2, SteadyRows DEF PagesInv, WalkTypesOK, BackSound
  <2>5. ~thinned' => T \subseteq ToSet(t)
    BY <2>1, <2>2 DEF PagesInv, FrontSound
  <2>6. WalkTypesOK'
    BY <1>2, <2>1, <2>3, <2>4 DEF WalkTypesOK, PagesInv
  <2>7. SteadyInOrder(trail)'
    <3>1. AllInOrder(p, T)'
      BY <1>1, <2>4, MatchFrame
    <3> QED
      BY <2>3, <3>1 DEF SteadyInOrder, AllInOrder
  <2>8. FrontSound'
    <3>1. \A c \in back : Behind(c, T \cap ToSet(p))'
      BY <1>1, <2>4, MatchFrame
    <3>2. ASSUME ~thinned', NEW c \in back
          PROVE  Ahead(c, T \ ToSet(p))'
      <4>1. T \ ToSet(p) = (T \cap ToSet(t)) \ ToSet(p)
        BY <2>5, <3>2
      <4>2. Ahead(c, T \ ToSet(p))
        BY <2>4, <3>2, <4>1 DEF Ahead
      <4> QED
        BY <1>1, <4>2, MatchFrame
    <3> QED
      BY <2>1, <2>2, <2>3, <3>1, <3>2 DEF FrontSound, Behind, Ahead
  <2>9. BackSound'
    BY <2>1 DEF BackSound
  <2> QED
    BY <2>6, <2>7, <2>8, <2>9 DEF PagesInv
<1>4. CASE walk # "next"
  <2>1. PICK p, T : p = PageAt(FirstPage) /\ T = Steady'
    OBVIOUS
  <2>2. /\ walk' = "next" /\ page' = p /\ trail' = p /\ thinned' = Thins(FirstPage)
        /\ links'.next = NextCursor(FirstPage, p) /\ links'.prev = PreviousCursor(FirstPage, p)
    BY <1>4, <2>1 DEF Turn, Shown, LinksOf
  <2>3. T \subseteq Present
    BY <1>2, <2>1 DEF Steady
  <2>4. /\ p \in Seq(Keys) /\ AllInOrder(p, T)
        /\ \A d \in NextCursor(FirstPage, p) :
               d \in Cursors /\ d.direction = "on" /\ Behind(d, T \cap ToSet(p))
        /\ ~Thins(FirstPage) => /\ NextCursor(FirstPage, p) = {} => T \subseteq ToSet(p)
                                /\ \A d \in NextCursor(FirstPage, p) : Ahead(d, T \ ToSet(p))
        /\ PreviousCursor(FirstPage, p) = {}
    BY <1>1, <2>1, <2>3, FirstPageSound
  <2>5. LinksAhead' = NextCursor(FirstPage, p)
    BY <2>2 DEF LinksAhead
  <2>6. WalkTypesOK'
    BY <1>2, <2>2, <2>4, <2>5 DEF WalkTypesOK, Thins
  <2>7. SteadyInOrder(trail)' /\ SteadyInOrder(page)'
    <3>1. AllInOrder(p, T)'
      BY <1>1, <2>4, MatchFrame
    <3> QED
      BY <2>1, <2>2, <3>1 DEF SteadyInOrder, AllInOrder
  <2>8. FrontSound'
    <3>1. \A d \in NextCursor(FirstPage, p) : Behind(d, T \cap ToSet(p))'
      BY <1>1, <2>4, MatchFrame
    <3>2. ~thinned' => \A d \in NextCursor(FirstPage, p) : Ahead(d, T \ ToSet(p))'
      BY <1>1, <2>2, <2>4, MatchFrame
    <3> QED
      BY <2>1, <2>2, <2>4, <2>5, <3>1, <3>2 DEF FrontSound, Behind, Ahead
  <2>9. BackSound'
    BY <2>2, <2>4, <2>7 DEF BackSound
  <2> QED
    BY <2>6, <2>7, <2>8, <2>9 DEF PagesInv
<1> QED
  BY <1>3, <1>4

\* Another request writes or loses rows: those that stay are as they were.
LEMMA RowsStep ==
  ASSUME PagesInv, NEW k \in Keys, rows' \in [Keys -> FieldValues \cup {Null, Gone}],
         \A m \in Keys : m # k => rows'[m] = rows[m],
         k \notin Steady', Steady' \subseteq Steady,
         UNCHANGED <<query, cursor, page, links, walk, trail, thinned>>
  PROVE  PagesInv'
<1>1. PICK S, T : S = Steady' /\ T = Steady
  OBVIOUS
<1>2. S \subseteq T /\ \A m \in S : rows'[m] = rows[m]
  BY <1>1 DEF Steady, Present
<1>3. LinksAhead' = LinksAhead
  BY DEF LinksAhead
<1>4. \A c : \A m \in S : (m \in Matching(c))' <=> m \in Matching(c)
  <2> SUFFICES ASSUME NEW c, NEW m \in S
               PROVE  (m \in Matching(c))' <=> m \in Matching(c)
    OBVIOUS
  <2>1. rows'[m] = rows[m] /\ m \in Present /\ m \in Present'
    BY <1>1, <1>2 DEF Steady
  <2>2. Up(c)' = Up(c)
    BY DEF Up
  <2> QED
    BY <2>1, <2>2 DEF Matching, BeyondValue, BeyondKey, PairAbove, PairBelow
<1>5. ASSUME NEW s, AllInOrder(s, T)
      PROVE  AllInOrder(s, S)'
  <2> SUFFICES ASSUME NEW i \in DOMAIN s, NEW j \in DOMAIN s, i < j, s[i] \in S, s[j] \in S
               PROVE  InOrder(query.asc, s[i], s[j])'
    BY DEF AllInOrder
  <2>1. InOrder(query.asc, s[i], s[j])
    BY <1>2, <1>5 DEF AllInOrder
  <2>2. rows'[s[i]] = rows[s[i]] /\ rows'[s[j]] = rows[s[j]]
    BY <1>2
  <2> QED
    BY <2>1, <2>2 DEF InOrder, InOrderOf, Below
<1>6. WalkTypesOK'
  BY <1>3 DEF PagesInv, WalkTypesOK, RowTypes
<1>7. SteadyInOrder(trail)'
  <2>1. PICK t : t = trail
    OBVIOUS
  <2>2. AllInOrder(t, T)
    BY <1>1, <2>1, SteadyRows DEF PagesInv
  <2>3. AllInOrder(t, S)'
    BY <1>5, <2>2
  <2> QED
    BY <1>1, <2>1, <2>3 DEF SteadyInOrder, AllInOrder
<1>8. FrontSound'
  <2>1. \A c \in LinksAhead : Behind(c, S \cap ToSet(trail))'
    <3>1. \A c \in LinksAhead : \A m \in T \cap ToSet(trail) : m \notin Matching(c)
      BY <1>1 DEF PagesInv, FrontSound, Behind
    <3> QED
      BY <1>2, <1>4, <3>1 DEF Behind
  <2>2. ASSUME ~thinned
        PROVE  /\ LinksAhead = {} => S \subseteq ToSet(trail)
               /\ \A c \in LinksAhead : Ahead(c, S \ ToSet(trail))'
    <3>1. /\ LinksAhead = {} => T \subseteq ToSet(trail)
          /\ \A c \in LinksAhead : \A m \in T \ ToSet(trail) : m \in Matching(c)
      BY <1>1, <2>2 DEF PagesInv, FrontSound, Ahead
    <3> QED
      BY <1>2, <1>4, <3>1 DEF Ahead
  <2> QED
    BY <1>1, <1>3, <2>1, <2>2 DEF FrontSound, Behind, Ahead
<1>9. BackSound'
  <2> SUFFICES ASSUME walk = "next"
               PROVE  /\ SteadyInOrder(page)'
                      /\ \A c \in links.prev :
                            /\ c \in Cursors /\ c.direction = "back"
                            /\ Behind(c, Steady \cap ToSet(page))'
                            /\ Ahead(c, (Steady \cap ToSet(trail)) \ ToSet(page))'
    BY DEF BackSound
  <2>1. SteadyInOrder(page)'
    <3>1. PICK p : p = page
      OBVIOUS
    <3>2. AllInOrder(p, T)
      BY <1>1, <3>1, SteadyRows DEF PagesInv, BackSound
    <3>3. AllInOrder(p, S)'
      BY <1>5, <3>2
    <3> QED
      BY <1>1, <3>1, <3>3 DEF SteadyInOrder, AllInOrder
  <2>2. ASSUME NEW c \in links.prev
        PROVE  /\ c \in Cursors /\ c.direction = "back"
               /\ \A m \in S \cap ToSet(page) : (m \notin Matching(c))'
               /\ \A m \in (S \cap ToSet(trail)) \ ToSet(page) : (m \in Matching(c))'
    <3>1. /\ c \in Cursors /\ c.direction = "back"
          /\ \A m \in T \cap ToSet(page) : m \notin Matching(c)
          /\ \A m \in (T \cap ToSet(trail)) \ ToSet(page) : m \in Matching(c)
      BY <1>1 DEF PagesInv, BackSound, Behind, Ahead
    <3> QED
      BY <1>2, <1>4, <3>1
  <2> QED
    BY <1>1, <2>1, <2>2 DEF Behind, Ahead
<1> QED
  BY <1>6, <1>7, <1>8, <1>9 DEF PagesInv

LEMMA ChangeRowStep ==
  ASSUME PagesInv, NEW k \in Keys, NEW value \in FieldValues \cup {Null, Gone}, ChangeRow(k, value)
  PROVE  PagesInv'
<1>1. rows' \in [Keys -> FieldValues \cup {Null, Gone}] /\ \A m \in Keys : m # k => rows'[m] = rows[m]
  BY DEF ChangeRow, PagesInv, WalkTypesOK, RowTypes
<1>2. k \notin Steady'
  BY DEF ChangeRow, Steady
<1>3. Steady' \subseteq Steady
  <2> SUFFICES ASSUME NEW m \in Steady' PROVE m \in Steady
    OBVIOUS
  <2>1. m \in Keys /\ m # k /\ rows'[m] # Gone /\ m \notin touched' \cup expired'
    BY <1>2 DEF Steady, Present
  <2> QED
    BY <1>1, <2>1 DEF ChangeRow, Steady, Present
<1> QED
  BY <1>1, <1>2, <1>3, RowsStep DEF ChangeRow

LEMMA ExpireStep ==
  ASSUME PagesInv, NEW k \in Keys, ExpireObject(k)
  PROVE  PagesInv'
<1>1. rows' \in [Keys -> FieldValues \cup {Null, Gone}] /\ \A m \in Keys : m # k => rows'[m] = rows[m]
  BY DEF ExpireObject, PagesInv, WalkTypesOK, RowTypes
<1>2. k \notin Steady' /\ Steady' \subseteq Steady
  BY DEF ExpireObject, Steady, Present
<1> QED
  BY <1>1, <1>2, RowsStep DEF ExpireObject

\* A step that changes nothing here.
LEMMA PagesStutter == PagesInv /\ UNCHANGED paginationVars => PagesInv'
<1> SUFFICES ASSUME PagesInv, UNCHANGED paginationVars PROVE PagesInv'
  OBVIOUS
<1>1. UNCHANGED <<rows, expired, query, cursor, page, links, walk, trail, touched, thinned>>
  BY DEF paginationVars
<1>2. Present' = Present /\ Steady' = Steady /\ LinksAhead' = LinksAhead
  BY <1>1 DEF Present, Steady, LinksAhead
<1>3. \A c : (Matching(c) = Matching(c)') /\ (Up(c)' = Up(c))
  BY <1>1, <1>2 DEF Matching, BeyondValue, BeyondKey, PairAbove, PairBelow, Up
<1>4. WalkTypesOK'
  BY <1>1, <1>2 DEF PagesInv, WalkTypesOK, RowTypes
<1>5. SteadyInOrder(trail)' /\ (BackSound => (walk = "next" => SteadyInOrder(page)'))
  BY <1>1, <1>2 DEF PagesInv, BackSound, SteadyInOrder, InOrder, InOrderOf, Below
<1>6. FrontSound'
  BY <1>1, <1>2, <1>3 DEF PagesInv, FrontSound, Behind, Ahead
<1>7. BackSound'
  BY <1>1, <1>2, <1>3, <1>5 DEF PagesInv, BackSound, Behind, Ahead
<1> QED
  BY <1>4, <1>5, <1>6, <1>7 DEF PagesInv

\* A client that has followed the links to an end of the list has seen every
\* row that stayed, once and in the order of the list, whatever was written
\* between its requests (EveryRowOnce).
THEOREM EveryRowOnceHolds == PaginationSpec => []EveryRowOnce
<1>1. PaginationInit => PagesInv
  BY PagesInit
<1>2. PagesInv /\ [PaginationNext]_paginationVars => PagesInv'
  <2> SUFFICES ASSUME PagesInv, [PaginationNext]_paginationVars PROVE PagesInv'
    OBVIOUS
  <2>1. CASE FollowNext
    BY <2>1, FollowNextStep
  <2>2. CASE FollowPrev
    BY <2>2, FollowPrevStep
  <2>3. CASE Turn
    BY <2>3, TurnStep
  <2>4. ASSUME NEW k \in Keys, ExpireObject(k)
        PROVE  PagesInv'
    BY <2>4, ExpireStep
  <2>5. ASSUME NEW k \in Keys, NEW value \in FieldValues \cup {Null, Gone}, ChangeRow(k, value)
        PROVE  PagesInv'
    BY <2>5, ChangeRowStep
  <2>6. CASE UNCHANGED paginationVars
    BY <2>6, PagesStutter
  <2> QED
    BY <2>1, <2>2, <2>3, <2>4, <2>5, <2>6 DEF PaginationNext
<1>3. PagesInv => EveryRowOnce
  BY DEF PagesInv, FrontSound, EveryRowOnce
<1> QED
  BY <1>1, <1>2, <1>3, PTL DEF PaginationSpec
=============================================================================
