------------------------------- MODULE Queries -------------------------------
(***************************************************************************)
(* Filtering of data objects by the query parameter (apps/data/filters):   *)
(* a query gives fields lookups, the lookup _is of a reference or relation *)
(* holds a query on the class it points to.  Fields are those of the class *)
(* that DataObject has loaded, so a nested query loads its class and puts  *)
(* the first one back.                                                     *)
(***************************************************************************)
EXTENDS Integers, FiniteSets

CONSTANTS
    Things,             \* ids of the objects of the class
    Targets,            \* ids of the objects it refers to
    Numbers,            \* values of number fields
    Nil,                \* no value
    NestedQueriesMax,   \* settings.DATA_OBJECT_NESTED_QUERIES_MAX
    NestedQueryLimit,   \* settings.DATA_OBJECT_NESTED_QUERY_LIMIT
    MaxListLength       \* ListValidationMixin.max_list_length

ASSUME QueriesAssumption ==
    /\ Things \subseteq Nat /\ Targets \subseteq Nat /\ Numbers \subseteq Int /\ Nil \notin Numbers \cup Targets
    /\ IsFiniteSet(Targets)
    /\ {NestedQueriesMax, NestedQueryLimit, MaxListLength} \subseteq Nat

VARIABLES
    things,         \* objects of the class: size, item (a reference), parts (a relation)
    targets,        \* objects of the other class: size
    loadedKlass,    \* DataObject.loaded_klass
    conditions,     \* the query: a set of conditions
    todo,           \* conditions not yet processed
    nestedField,    \* the field whose nested query is in work
    nestedTodo,     \* its conditions not yet processed
    nestedFound,    \* objects of the other class it has left
    found,          \* objects the queryset has left
    queryStage           \* "asking", "processing", "nested", "answered", "rejected"

queriesVars == <<things, targets, loadedKlass, conditions, todo, nestedField, nestedTodo, nestedFound, found, queryStage>>

Queryable(klass) == IF klass = "thing" THEN {"size", "note", "item", "parts"} ELSE {"size", "note"}
KindOf(field) ==
    CASE field = "size" -> "number" [] field = "note" -> "text" [] field = "item" -> "reference" [] OTHER -> "relation"

(* Only an indexed field can be filtered by. *)
FilterIndex(field) == field # "note"

NumberLookups == {"_gt", "_gte", "_lt", "_lte", "_eq", "_neq"}
ListLookups == {"_in", "_nin"}

Compares(lookup, v, n) ==
    CASE lookup = "_gt" -> v > n [] lookup = "_gte" -> v >= n [] lookup = "_lt" -> v < n [] OTHER -> v <= n

(* LookupRegistry.match: lookups by the types they support. *)
Supports(lookup, kind) ==
    CASE lookup \in NumberLookups \cup ListLookups -> kind # "relation"
      [] lookup = "_is" -> kind \in {"reference", "relation"}
      [] lookup = "_contains" -> kind = "relation"
      [] OTHER -> TRUE

(* Lookup.validate_value: a value of the field's type; a list of at most    *)
(* so many.                                                                 *)
ValidValue(c) == Cardinality(c.values) <= (IF c.lookup \in ListLookups \cup {"_contains"} THEN MaxListLength ELSE 1)

(* get_q: what a condition means in SQL for a value v of the field. *)
Holds(c, v) ==
    CASE c.lookup \in {"_eq", "_in"} -> v \in c.values
      [] c.lookup \in {"_neq", "_nin"} -> v \notin c.values
      [] c.lookup = "_contains" -> c.values \subseteq v
      [] c.lookup = "_exists" -> (v # Nil) = (c.values # {})
      [] OTHER -> v # Nil /\ \A n \in c.values : Compares(c.lookup, v, n)

Condition(field, lookup, values, sub) == [field |-> field, lookup |-> lookup, values |-> values, sub |-> sub]
Conditions(fields, lookups, values, subs) == [field : fields, lookup : lookups, values : values, sub : subs]
SimpleConditions ==
    Conditions({"size"}, NumberLookups, {{1}}, {{}})
        \cup Conditions({"size"}, ListLookups, SUBSET Numbers, {{}})
        \cup Conditions({"note"}, {"_eq"}, {{1}}, {{}})
Subqueries ==
    {{}, {Condition("size", "_gte", {1}, {})}, {Condition("size", "_lte", {1}, {}), Condition("size", "_neq", {1}, {})},
     {Condition("note", "_eq", {1}, {})}, {Condition("item", "_is", {}, {})}}
TopConditions ==
    SimpleConditions
        \cup Conditions({"item"}, {"_exists"}, {{}, Targets}, {{}})
        \cup Conditions({"parts"}, {"_contains", "_eq"}, {{t} : t \in Targets}, {{}})
        \cup Conditions({"item", "parts"}, {"_is"}, {{}}, Subqueries)

-----------------------------------------------------------------------------
QueriesInit ==
    /\ things \in [Things -> [size : Numbers \cup {Nil}, item : Targets \cup {Nil}, parts : SUBSET Targets]]
    /\ targets \in [Targets -> [size : Numbers]]
    /\ loadedKlass = "thing"
    /\ conditions = {} /\ todo = {} /\ nestedField = "none" /\ nestedTodo = {} /\ nestedFound = {}
    /\ found = {} /\ queryStage = "asking"

Nested(cs) == {c \in cs : c.lookup = "_is"}

(* QueryValidator: its counter starts again with every key of the query. *)
ValidQuery(query) ==
    \A c \in Nested(query) :
        /\ Cardinality({c}) <= NestedQueriesMax
        /\ Nested(c.sub) = {}

(* filter_queryset and the start of process_query.  A query has one value   *)
(* for a lookup of a field.                                                 *)
AskQuery(query) ==
    /\ queryStage = "asking"
    /\ \A c, d \in query : c.field = d.field /\ c.lookup = d.lookup => c = d
    /\ queryStage' = IF ValidQuery(query) THEN "processing" ELSE "rejected"
    /\ conditions' = query /\ todo' = query /\ found' = Things
    /\ UNCHANGED <<things, targets, loadedKlass, nestedField, nestedTodo, nestedFound>>

(* A condition is possible on the class that is loaded. *)
Accepted(c) ==
    /\ c.field \in Queryable(loadedKlass) /\ FilterIndex(c.field)
    /\ Supports(c.lookup, KindOf(c.field))
    /\ c.lookup \notin {"_is", "_exists"} => ValidValue(c)

Process(c) ==
    /\ queryStage = "processing" /\ c \in todo /\ c.lookup # "_is" /\ Accepted(c)
    /\ found' = {t \in found : Holds(c, things[t][c.field])}
    /\ todo' = todo \ {c}
    /\ UNCHANGED <<things, targets, loadedKlass, conditions, nestedField, nestedTodo, nestedFound, queryStage>>

(* ReferenceIsLookup.validate_value: loaded_klass loads the other class. *)
EnterNested(c) ==
    /\ queryStage = "processing" /\ c \in todo /\ c.lookup = "_is" /\ Accepted(c)
    /\ queryStage' = "nested" /\ loadedKlass' = "target"
    /\ nestedField' = c.field /\ nestedTodo' = c.sub /\ nestedFound' = Targets
    /\ todo' = todo \ {c}
    /\ UNCHANGED <<things, targets, conditions, found>>

ProcessNested(c) ==
    /\ queryStage = "nested" /\ c \in nestedTodo /\ Accepted(c)
    /\ nestedFound' = {t \in nestedFound : Holds(c, targets[t][c.field])}
    /\ nestedTodo' = nestedTodo \ {c}
    /\ UNCHANGED <<things, targets, loadedKlass, conditions, todo, nestedField, found, queryStage>>

(* The slice: the first ids, in the order of the model. *)
Limited(ids) == {t \in ids : Cardinality({s \in ids : s < t}) < NestedQueryLimit}

(* A reference is in the nested result, a relation overlaps it. *)
RefersTo(t, field, ids) == IF field = "item" THEN things[t].item \in ids ELSE things[t].parts \cap ids # {}

LeaveNested ==
    /\ queryStage = "nested" /\ nestedTodo = {}
    /\ found' = {t \in found : RefersTo(t, nestedField, Limited(nestedFound))}
    /\ queryStage' = "processing" /\ loadedKlass' = "thing"
    /\ UNCHANGED <<things, targets, conditions, todo, nestedField, nestedTodo, nestedFound>>

(* The way out of loaded_klass when a nested query is wrong. *)
FaultRestored == loadedKlass
Restored == "thing"

(* InvalidQuery, in the query or in a nested one. *)
Reject ==
    /\ \/ queryStage = "processing" /\ \E c \in todo : ~Accepted(c)
       \/ queryStage = "nested" /\ \E c \in nestedTodo : ~Accepted(c)
    /\ queryStage' = "rejected" /\ loadedKlass' = Restored
    /\ UNCHANGED <<things, targets, conditions, todo, nestedField, nestedTodo, nestedFound, found>>

Answer ==
    /\ queryStage = "processing" /\ todo = {}
    /\ queryStage' = "answered"
    /\ UNCHANGED <<things, targets, loadedKlass, conditions, todo, nestedField, nestedTodo, nestedFound, found>>

QueriesNext ==
    \/ \E c, d \in TopConditions : AskQuery({c, d})
    \/ LeaveNested \/ Reject \/ Answer
    \/ \E c \in todo : Process(c) \/ EnterNested(c)
    \/ \E c \in nestedTodo : ProcessNested(c)

QueriesSpec == QueriesInit /\ [][QueriesNext]_queriesVars

-----------------------------------------------------------------------------
(* The objects of the other class that a nested query means, and whether an *)
(* object is one the whole query means.                                     *)
Meant(sub) == {t \in Targets : \A c \in sub : Holds(c, targets[t][c.field])}
Means(t) ==
    \A c \in conditions :
        IF c.lookup = "_is" THEN RefersTo(t, c.field, Meant(c.sub))
        ELSE IF c.lookup \in {"_neq", "_nin"}
        THEN ~Holds([c EXCEPT !.lookup = "_in"], things[t][c.field])
        ELSE Holds(c, things[t][c.field])

(* The objects a query answers with are the ones that meet every condition, *)
(* in whatever order the conditions are processed, and _neq and _nin give   *)
(* what _eq and _in do not; a nested query that is cut at its limit may     *)
(* leave some out but adds none.                                            *)
AnswerIsExact ==
    queryStage = "answered" =>
        /\ \A t \in found : Means(t)
        /\ (\A c \in Nested(conditions) : Cardinality(Meant(c.sub)) <= NestedQueryLimit) => \A t \in Things \ found : ~Means(t)

(* After a query, also a wrong one, DataObject has the class of the view    *)
(* loaded again: the objects found are read and serialised with it.         *)
OwnKlassLoaded == queryStage # "nested" => loadedKlass = "thing"

(* A query that is accepted has at most so many nested queries: "Too many   *)
(* nested queries defined (exceeds {max})", apps/data/validators.py:267.    *)
FewNestedQueries == queryStage = "answered" => Cardinality(Nested(conditions)) <= NestedQueriesMax

(* A query, nested or not, right or wrong, gives the objects it means and   *)
(* leaves the class of the view loaded.                                     *)
QueriesAreSound == AnswerIsExact /\ OwnKlassLoaded
=============================================================================
