------------------------------- MODULE Access -------------------------------
(***************************************************************************)
(* Who may do what to a data object (core/permissions.py and the           *)
(* permission classes of the views): a request is checked for the view,    *)
(* then the object is looked up among those its caller may see, then it is *)
(* checked for the object.  Version 1 of the API has levels for owner,     *)
(* group and others, version 2 an ACL.  The groups of a user are cached,   *)
(* and a membership may change between the checks.                         *)
(***************************************************************************)
EXTENDS Integers, FiniteSets

CONSTANTS
    Levels,         \* levels the object's group may have (version 1): among 0..3
    MaxMoves        \* changes of the membership in a behaviour

ASSUME AccessAssumption == Levels \subseteq 0..3 /\ MaxMoves \in Nat

VARIABLES
    rights,       \* of the object, its class and its endpoint
    request,      \* caller, action and how far the request is
    member,       \* committed: the user is "in" or "out" of the object's group
    moving,       \* the same in a transaction that is not over, or "none"
    groupIds,     \* User.get_group_ids_for_user in the cache: "in", "out" or "-"
    moves,
    early,        \* history: groupIds was looked up while the membership was changing
    misled,       \* history: the request used such groups
    seen          \* history: what member was while the request was served

accessVars == <<rights, request, member, moving, groupIds, moves, early, misled, seen>>

Perms == {"read", "write"}
Entries == {"*", "users", "groups"}       \* of the ACL: for all, this user, this group
Acls == [Entries -> SUBSET Perms]
Nothing == [e \in Entries |-> {}]

Actions == {"list", "retrieve", "create", "update", "destroy"}
Safe == {"list", "retrieve"}

(* ApiKeyAuthentication.authenticate: an admin by role, or an API key with  *)
(* its options and perhaps a user.  request.auth is the key.                *)
Callers ==
    [auth : {"write", "read"}, user : {"none"}]
        \cup [auth : {"key", "ignore_acl", "anonymous_read"}, user : {"none", "known"}]
AsUser(by) == by.user = "known"
ByKey(by) == by.auth \in {"key", "ignore_acl", "anonymous_read"}

(* ModelPermissions with DataObject.PERMISSION_CONFIG. *)
RequiredPermission(action) ==
    CASE action = "create" -> "create" [] action = "update" -> "update"
      [] action = "destroy" -> "delete" [] OTHER -> "read"
AdminHasPermissions(by, action) ==
    by.auth = "write" \/ (by.auth = "read" /\ RequiredPermission(action) = "read")

-----------------------------------------------------------------------------
(* Version 1 *)

KlassLevel(by, m) ==
    IF AsUser(by) /\ m = "in" /\ rights.klassGroup > rights.klassOther THEN rights.klassGroup ELSE rights.klassOther
FaultHasKlassCreateObjectPermission(by, action, m) == action = "create" /\ KlassLevel(by, m) >= 1
HasKlassCreateObjectPermission(by, action, m) == action = "create" /\ KlassLevel(by, m) >= 2
HasKlassReadPermission(by, action, m) == action # "create" /\ KlassLevel(by, m) >= 1

MinPermission(action) == CASE action = "update" -> 2 [] action = "destroy" -> 3 [] OTHER -> 0
Higher(a, b) == IF a > b THEN a ELSE b
OwnLevel(by) == IF AsUser(by) THEN Higher(rights.owner, rights.other) ELSE rights.other

(* HasDataObjectPermission; the user's groups only matter if they give more. *)
NeedsGroups(by) == AsUser(by) /\ rights.group > OwnLevel(by)
HasDataObjectPermission(by, action, m) ==
    (IF NeedsGroups(by) /\ m = "in" THEN rights.group ELSE OwnLevel(by)) >= MinPermission(action)

ViewAllows(by, action, m) ==
    \/ by.auth = "ignore_acl"
    \/ by.auth = "anonymous_read" /\ action \in Safe /\ HasKlassReadPermission(by, action, m)
    \/ /\ AsUser(by)
       /\ HasKlassCreateObjectPermission(by, action, m) \/ HasKlassReadPermission(by, action, m)

(* ObjectViewSet.get_queryset *)
Queryset(by, m) ==
    \/ ~ByKey(by) \/ by.auth = "ignore_acl"
    \/ rights.other >= 1
    \/ AsUser(by) /\ (rights.owner >= 1 \/ (rights.group >= 1 /\ m = "in"))

ObjectAllows(by, action, m) ==
    \/ by.auth = "ignore_acl"
    \/ by.auth = "anonymous_read" /\ action \in Safe
    \/ AsUser(by) /\ HasDataObjectPermission(by, action, m)

-----------------------------------------------------------------------------
(* Version 2 *)

ObjectPermission(action) == IF action = "retrieve" THEN "read" ELSE "write"

(* Permission.check_acl *)
OwnEntries(by) == IF AsUser(by) THEN {"*", "users"} ELSE {"*"}
CheckAcl(by, perm, acl, m) ==
    /\ ByKey(by)
    /\ \/ by.auth = "ignore_acl"
       \/ \E e \in OwnEntries(by) : perm \in acl[e]
       \/ AsUser(by) /\ m = "in" /\ perm \in acl["groups"]
LooksUpGroups(by, perm, acl) ==
    AsUser(by) /\ by.auth # "ignore_acl" /\ acl["groups"] # {} /\ \A e \in OwnEntries(by) : perm \notin acl[e]

(* has_parent_permission of the class, has_endpoint_level_permission: the   *)
(* endpoint's ACL here holds either all permissions of an entry or none.    *)
EndpointAcl == [e \in Entries |-> IF e \in rights.endpoint THEN {"read"} ELSE {}]
ParentAcl == [e \in Entries |-> IF e \in rights.parent THEN {"read"} ELSE {}]
CheckAclPermission(by, m) == CheckAcl(by, "read", ParentAcl, m) /\ CheckAcl(by, "read", EndpointAcl, m)

(* aclmodel_pre_save_handler: _public, _users and _groups. *)
Tags(acl) == {e \in Entries : acl[e] # {}}

(* AclQuerySet.filter_acl *)
FilterAcl(by, tags, m) ==
    \/ ~ByKey(by) \/ by.auth = "ignore_acl"
    \/ OwnEntries(by) \cap tags # {}
    \/ AsUser(by) /\ m = "in" /\ "groups" \in tags

(* AclValidator: entries without permissions go, and so do users and groups *)
(* that do not exist.                                                       *)
Cleaned(acl, known) == [e \in Entries |-> IF e = "*" \/ e \in known THEN acl[e] ELSE {}]

(* AclMixin.get_default_acl, when none is given. *)
DefaultAcl(by) == [Nothing EXCEPT !["users"] = IF AsUser(by) THEN Perms ELSE {}]

-----------------------------------------------------------------------------
(* Requests *)

NoRequest == [by |-> [auth |-> "key", user |-> "none"], action |-> "list", at |-> "none"]

RightsV1 ==
    [api : {"v1"}, klassOther : {0, 2}, klassGroup : 0..2, owner : {0, 3}, group : Levels, other : {0, 1}]
RightsV2 ==
    {r \in [api : {"v2"}, parent : {{"*"}, {"groups"}}, endpoint : {{"*"}, {"groups"}}, acl : Acls, tags : SUBSET Entries] :
        /\ r.acl = Nothing \/ \E by \in Callers : r.acl = DefaultAcl(by)
        /\ r.tags = Tags(r.acl)}

AccessInit ==
    /\ rights \in RightsV1 \cup RightsV2
    /\ request = NoRequest
    /\ member \in {"in", "out"} /\ moving = "none"
    /\ groupIds \in {"-", member}
    /\ moves = 0 /\ early = "no" /\ misled = "no" /\ seen = {member}

(* The groups the cache or the table gives, and what stays in the cache. *)
CachedGroups == IF groupIds = "-" THEN member ELSE groupIds
Looked ==
    /\ groupIds' = CachedGroups
    /\ early' = IF groupIds # "-" THEN early ELSE IF moving = "none" THEN "no" ELSE "yes"
    /\ misled' = IF early' = "yes" THEN "yes" ELSE misled
NotLooked == UNCHANGED <<groupIds, early, misled>>
LookedIf(needed) == (needed /\ Looked) \/ (~needed /\ NotLooked)

Ask(by, action) ==
    /\ request.at = "none"
    /\ request' = [by |-> by, action |-> action, at |-> "asked"]
    /\ seen' = {member}
    /\ UNCHANGED <<rights, member, moving, groupIds, moves, early, misled>>

Goes(allowed, to) == request' = [request EXCEPT !.at = IF allowed THEN to ELSE "refused"]

(* check_permissions *)
CheckView ==
    LET by == request.by
        asAdmin == AdminHasPermissions(by, request.action)
        next == IF request.action = "create" THEN "served" ELSE "allowed"
    IN  /\ request.at = "asked"
        /\ IF rights.api = "v1"
           THEN Goes(asAdmin \/ (ByKey(by) /\ ViewAllows(by, request.action, member)), next) /\ NotLooked
           ELSE /\ Goes(asAdmin \/ CheckAclPermission(by, CachedGroups), next)
                /\ LookedIf(LooksUpGroups(by, "read", ParentAcl) \/ LooksUpGroups(by, "read", EndpointAcl))
        /\ UNCHANGED <<rights, member, moving, moves, seen>>

(* get_queryset, and get_object from it *)
FindObject ==
    LET by == request.by
        next == IF request.action = "list" THEN "served" ELSE "found"
    IN  /\ request.at = "allowed"
        /\ IF rights.api = "v1" THEN Goes(Queryset(by, member), next) /\ NotLooked
           ELSE Goes(FilterAcl(by, rights.tags, CachedGroups), next) /\ LookedIf(AsUser(by) /\ by.auth # "ignore_acl")
        /\ UNCHANGED <<rights, member, moving, moves, seen>>

(* check_object_permissions, on the object as it was found *)
CheckObject ==
    LET by == request.by
        asAdmin == AdminHasPermissions(by, request.action)
        perm == ObjectPermission(request.action)
    IN  /\ request.at = "found"
        /\ IF rights.api = "v1"
           THEN /\ Goes(asAdmin \/ (ByKey(by) /\ ObjectAllows(by, request.action, CachedGroups)), "served")
                /\ LookedIf(NeedsGroups(by) /\ MinPermission(request.action) > 0)
           ELSE /\ Goes(asAdmin \/ CheckAcl(by, perm, rights.acl, CachedGroups), "served")
                /\ LookedIf(LooksUpGroups(by, perm, rights.acl))
        /\ UNCHANGED <<rights, member, moving, moves, seen>>

-----------------------------------------------------------------------------
(* Other requests *)

(* membership_invalidate_handler, after a save and after a delete. *)
Forgotten(to) == "-"

(* A membership is created or deleted: the cache forgets the user's groups  *)
(* before the change is committed.                                          *)
MoveMember(to) ==
    /\ moves < MaxMoves /\ moving = "none" /\ to # member
    /\ moving' = to
    /\ groupIds' = Forgotten(to) /\ early' = IF groupIds' = "-" THEN "no" ELSE early
    /\ moves' = moves + 1
    /\ UNCHANGED <<rights, request, member, misled, seen>>

EndMove(to) ==
    /\ moving # "none"
    /\ member' = to /\ seen' = seen \cup {to}
    /\ moving' = "none"
    /\ UNCHANGED <<rights, request, groupIds, moves, early, misled>>
CommitMove == EndMove(moving)
UndoMove == EndMove(member)

(* An ACL is saved, before the request: the object is read at once. *)
SaveAcl(acl, known) ==
    /\ rights.api = "v2" /\ request.at = "none" /\ moves = 0
    /\ rights' = [rights EXCEPT !.acl = Cleaned(acl, known), !.tags = Tags(Cleaned(acl, known))]
    /\ UNCHANGED <<request, member, moving, groupIds, moves, early, misled, seen>>

EvictGroups ==
    /\ groupIds # "-"
    /\ groupIds' = "-" /\ early' = "no"
    /\ UNCHANGED <<rights, request, member, moving, moves, misled, seen>>

AccessNext ==
    \/ \E by \in Callers, action \in Actions : Ask(by, action)
    \/ CheckView \/ FindObject \/ CheckObject
    \/ \E to \in {"in", "out"} : MoveMember(to)
    \/ CommitMove \/ UndoMove \/ EvictGroups
    \/ \E acl \in Acls, known \in SUBSET {"users", "groups"} : SaveAcl(acl, known)

AccessSpec == AccessInit /\ [][AccessNext]_accessVars

-----------------------------------------------------------------------------
(* What a caller may do, if m is the user's membership. *)
LevelOf(by, m) ==
    LET given == {rights.other} \cup (IF AsUser(by) THEN {rights.owner} ELSE {})
                    \cup (IF AsUser(by) /\ m = "in" THEN {rights.group} ELSE {})
    IN  CHOOSE l \in given : \A k \in given : l >= k
Given(by, acl, m) == acl["*"] \cup (IF AsUser(by) THEN acl["users"] \cup (IF m = "in" THEN acl["groups"] ELSE {}) ELSE {})

Entitled(by, action, m) ==
    \/ AdminHasPermissions(by, action) \/ by.auth = "ignore_acl"
    \/ /\ ByKey(by) /\ rights.api = "v1"
       /\ IF action = "create" THEN AsUser(by) /\ KlassLevel(by, m) >= 2
          ELSE /\ KlassLevel(by, m) >= 1
               /\ AsUser(by) \/ (by.auth = "anonymous_read" /\ action \in Safe)
               /\ LevelOf(by, m) >= (CASE action = "destroy" -> 3 [] action = "update" -> 2 [] OTHER -> 1)
    \/ /\ ByKey(by) /\ rights.api = "v2"
       /\ "read" \in Given(by, ParentAcl, m) /\ "read" \in Given(by, EndpointAcl, m)
       /\ CASE action = "create" -> TRUE
            [] action = "list" -> Given(by, rights.acl, m) # {}
            [] OTHER -> ObjectPermission(action) \in Given(by, rights.acl, m)

(* A request is served only to a caller who was entitled to it at some      *)
(* moment of the request, and refused only to one who was not at some       *)
(* moment - unless it used groups that were cached while the membership was *)
(* being committed.                                                         *)
GrantsAreCurrent ==
    misled = "no" =>
        /\ request.at = "served" => \E m \in seen : Entitled(request.by, request.action, m)
        /\ request.at = "refused" => \E m \in seen : ~Entitled(request.by, request.action, m)

(* What a list shows can be read: core/signal_handlers.py:73 says that      *)
(* whoever has an entry in an ACL may read.                                 *)
ListShowsReadable ==
    rights.api = "v2" =>
        \A by \in {c \in Callers : ByKey(c)} :
            FilterAcl(by, rights.tags, member) => CheckAcl(by, "read", rights.acl, member)
=============================================================================
