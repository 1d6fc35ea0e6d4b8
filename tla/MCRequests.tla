----------------------------- MODULE MCRequests -----------------------------
(***************************************************************************)
(* Instance of Pagination, Access, Users, Queries and EndpointCalls for    *)
(* TLC: what the API decides while it answers one request.  They share no  *)
(* state: a behaviour is one of one of them, and the others stay in one    *)
(* initial state.                                                          *)
(***************************************************************************)
EXTENDS Pagination, Access, Users, Queries, EndpointCalls, TLC

VARIABLE part

MCKeys == 1..4
MCFieldValues == 1..2
MCLevels == 0..3
MCTargets == 1..2

vars == <<paginationVars, accessVars, usersVars, queriesVars, callsVars, part>>

(* One initial state of the modules that have several *)
Unqueried == rows = [k \in Keys |-> Gone] /\ query = [kind |-> "standard", asc |-> TRUE, size |-> 1]
Unasked ==
    /\ things = [t \in Things |-> [size |-> Nil, item |-> Nil, parts |-> {}]]
    /\ targets = [t \in Targets |-> [size |-> 0]]
Unrequested == rights = (CHOOSE r \in RightsV1 : TRUE) /\ member = "out" /\ groupIds = "-"

Init ==
    /\ part \in {"pagination", "access", "users", "queries", "calls"}
    /\ part # "pagination" => Unqueried
    /\ part # "queries" => Unasked
    /\ part # "access" => Unrequested
    /\ PaginationInit /\ AccessInit /\ UsersInit /\ QueriesInit /\ CallsInit

(* A step of one part leaves the others alone. *)
Next ==
    /\ UNCHANGED part
    /\ \/ part = "pagination" /\ PaginationNext /\ UNCHANGED <<accessVars, usersVars, queriesVars, callsVars>>
       \/ part = "access" /\ AccessNext /\ UNCHANGED <<paginationVars, usersVars, queriesVars, callsVars>>
       \/ part = "users" /\ UsersNext /\ UNCHANGED <<paginationVars, accessVars, queriesVars, callsVars>>
       \/ part = "queries" /\ QueriesNext /\ UNCHANGED <<paginationVars, accessVars, usersVars, callsVars>>
       \/ part = "calls" /\ CallsNext /\ UNCHANGED <<paginationVars, accessVars, usersVars, queriesVars>>

Spec == Init /\ [][Next]_vars

(* The variables of the other parts have one value each. *)
PartView ==
    CASE part = "pagination" -> <<part, paginationVars>>
      [] part = "access" -> <<part, accessVars>>
      [] part = "users" -> <<part, usersVars>>
      [] part = "queries" -> <<part, queriesVars>>
      [] part = "calls" -> <<part, callsVars>>

Symmetry == Permutations(Calls)
=============================================================================
