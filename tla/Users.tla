-------------------------------- MODULE Users --------------------------------
(***************************************************************************)
(* A user of an instance (apps/users): its row, its profile - a data       *)
(* object of the class user_profile - and its groups.  Version 1 of the    *)
(* API works on the user and locks its row, version 2 works on the profile *)
(* and locks that, and the account view works on the user it has           *)
(* authenticated and locks nothing.  What a request has written is seen by *)
(* others when it commits; the row stays locked until then.                *)
(***************************************************************************)
EXTENDS Integers, FiniteSets

CONSTANTS
    Sessions,           \* requests
    NoSession,
    UserGroups,         \* groups
    GroupMaxCount,      \* settings.USER_GROUP_MAX_COUNT
    MaxKeys,            \* resets of the key in a behaviour
    MaxRequests         \* requests in a behaviour

ASSUME UsersAssumption ==
    /\ NoSession \notin Sessions /\ IsFiniteSet(UserGroups)
    /\ GroupMaxCount \in Nat /\ MaxKeys \in Nat /\ MaxRequests \in Nat

VARIABLES
    user,           \* the committed row: alive or not, and its key
    profile,        \* the committed profile: "none", "live", "dead" (soft-deleted) or "gone"
    members,        \* committed memberships: groups of the user
    session,        \* what each request does, has read and has written
    userLock,       \* the request that holds the user's row
    profileLock,    \* the request that holds the profile's row
    keys,           \* keys made
    requests,
    overwrote,      \* history: a row read without a lock was written back changed
    lastReset       \* history: the key of the last reset that was committed

usersVars ==
    <<user, profile, members, session, userLock, profileLock, keys, requests, overwrote, lastReset>>

Update1 == "v1 update"
Delete1 == "v1 delete"
Reset1 == "v1 reset_key"
Update2 == "v2 update"
Delete2 == "v2 delete"
Reset2 == "v2 reset_key"
Account1 == "v1 account"
Account2 == "v2 account"
Join == "join a group"
V1 == {Update1, Delete1, Reset1}
V2 == {Update2, Delete2, Reset2}
Account == {Account1, Account2}
Ops == V1 \cup V2 \cup Account \cup {Join}

NoRow == [live |-> "none", key |-> 0]
Idle == [op |-> "none", at |-> "idle", copy |-> NoRow, user |-> NoRow, profile |-> "none", groups |-> {}]

UsersInit ==
    /\ user = NoRow /\ profile = "none" /\ members = {}
    /\ session = [s \in Sessions |-> Idle]
    /\ userLock = NoSession /\ profileLock = NoSession
    /\ keys = 0 /\ requests = 0
    /\ overwrote = "no" /\ lastReset = 0

FaultCreateUser ==
    /\ user = NoRow
    /\ user' = [live |-> "live", key |-> 0]
    /\ UNCHANGED <<profile, members, session, userLock, profileLock, keys, requests, overwrote, lastReset>>

(* A new user and its profile are saved in one transaction: by the handler  *)
(* user_post_save_handler in version 1 and after a social login, by the     *)
(* serializer in version 2.                                                 *)
CreateUser ==
    /\ user = NoRow
    /\ user' = [live |-> "live", key |-> 0] /\ profile' = "live"
    /\ UNCHANGED <<members, session, userLock, profileLock, keys, requests, overwrote, lastReset>>

UserLocked == V1 \cup {Join}        \* read with select_for_update on the user

Free(lock, s) == lock \in {NoSession, s}

(* get_object, or the authentication of the account view: version 1 locks   *)
(* the live user and needs its live profile, version 2 has joined the owner *)
(* to a live profile it has yet to lock.                                    *)
Begin(s, op) ==
    /\ session[s].at = "idle" /\ requests < MaxRequests
    /\ op \in V1 \cup Account \cup {Join} => user.live = "live"
    /\ op \in V1 \cup V2 => profile = "live"
    /\ op \in UserLocked => userLock = NoSession
    /\ session' = [session EXCEPT ![s] =
            [Idle EXCEPT !.op = op, !.at = IF op \in V2 THEN "reading" ELSE "read", !.copy = user, !.groups = members]]
    /\ userLock' = IF op \in UserLocked THEN s ELSE userLock
    /\ requests' = requests + 1
    /\ UNCHANGED <<user, profile, members, profileLock, keys, overwrote, lastReset>>

(* The lock of select_for_update(of=self): the profile is read again, the   *)
(* joined owner is not.                                                     *)
LockProfile(s) ==
    /\ session[s].at = "reading" /\ profileLock = NoSession /\ profile = "live"
    /\ session' = [session EXCEPT ![s].at = "read"]
    /\ profileLock' = s
    /\ UNCHANGED <<user, profile, members, userLock, keys, requests, overwrote, lastReset>>

Deletes(op) == op \in {Delete1, Delete2}
Resets(op) == op \in {Reset1, Reset2}

(* The row a request saves: all of its copy, or for soft_delete only the    *)
(* flag.                                                                    *)
Saved(s) ==
    IF Deletes(session[s].op) THEN [user EXCEPT !.live = "dead"]
    ELSE IF Resets(session[s].op) THEN [session[s].copy EXCEPT !.key = keys + 1]
    ELSE session[s].copy

(* user.save() of a serializer, reset() or delete().  Version 2 deletes the *)
(* profile first.                                                           *)
SaveUser(s) ==
    LET op == session[s].op
    IN  /\ session[s].at = (IF op = Delete2 THEN "profile saved" ELSE "read") /\ op # Join
        /\ Free(userLock, s) /\ userLock' = s
        /\ Resets(op) => keys < MaxKeys
        /\ keys' = IF Resets(op) THEN keys + 1 ELSE keys
        /\ session' = [session EXCEPT ![s].at = "user saved", ![s].user = Saved(s)]
        /\ overwrote' = IF op \in (V2 \ {Delete2}) \cup Account /\ session[s].copy # user THEN "yes" ELSE overwrote
        /\ UNCHANGED <<user, profile, members, profileLock, requests, lastReset>>

(* profile.save(): version 1 locks the profile for it if there is data for  *)
(* it, version 2 has it already and its account view saves what it has read *)
(* without a lock.                                                          *)
SaveProfile(s) ==
    LET op == session[s].op
    IN  /\ \/ session[s].at = "user saved" /\ op \in {Update1, Account1, Update2, Account2}
           \/ session[s].at = "read" /\ op = Delete2
        /\ Free(profileLock, s) /\ profileLock' = s
        /\ op \in {Update1, Account1} => profile = "live"
        /\ session' = [session EXCEPT ![s].at = "profile saved", ![s].profile = IF op = Delete2 THEN "dead" ELSE "live"]
        /\ overwrote' = IF op = Account2 /\ profile # "live" THEN "yes" ELSE overwrote
        /\ UNCHANGED <<user, profile, members, userLock, keys, requests, lastReset>>

(* MembershipViewSet.perform_create, and the deletion of a membership. *)
JoinGroup(s, g) ==
    /\ session[s].op = Join /\ session[s].at = "read"
    /\ g \notin members /\ Cardinality(session[s].groups) < GroupMaxCount
    /\ session' = [session EXCEPT ![s].at = "joined", ![s].groups = {g}]
    /\ UNCHANGED <<user, profile, members, userLock, profileLock, keys, requests, overwrote, lastReset>>

LeaveGroup(g) ==
    /\ g \in members
    /\ members' = members \ {g}
    /\ UNCHANGED <<user, profile, session, userLock, profileLock, keys, requests, overwrote, lastReset>>

Released(s) ==
    /\ session' = [session EXCEPT ![s] = Idle]
    /\ userLock' = IF userLock = s THEN NoSession ELSE userLock
    /\ profileLock' = IF profileLock = s THEN NoSession ELSE profileLock

Done(s) ==
    LET op == session[s].op
    IN  CASE op \in {Delete1, Reset1, Reset2, Delete2} -> session[s].at = "user saved"
          [] op \in {Update1, Account1} -> session[s].at \in {"user saved", "profile saved"}
          [] op \in {Update2, Account2} -> session[s].at = "profile saved"
          [] OTHER -> session[s].at = "joined"

(* The transaction of AtomicMixin ends.  A user that was saved after it was *)
(* purged is inserted again, with a new profile.                            *)
Commit(s) ==
    LET revived == session[s].user # NoRow /\ user.live = "gone"
    IN  /\ Done(s)
        /\ user' = IF session[s].user = NoRow THEN user ELSE session[s].user
        /\ profile' = IF session[s].profile # "none" THEN session[s].profile ELSE IF revived THEN "live" ELSE profile
        /\ members' = IF session[s].op = Join THEN members \cup session[s].groups ELSE members
        /\ lastReset' = IF Resets(session[s].op) THEN session[s].user.key ELSE lastReset
        /\ Released(s)
        /\ UNCHANGED <<keys, requests, overwrote>>

(* An error; also how PostgreSQL ends a deadlock of the two versions.  *)
Rollback(s) ==
    /\ session[s].at # "idle"
    /\ Released(s)
    /\ UNCHANGED <<user, profile, members, keys, requests, overwrote, lastReset>>

(* DeleteLiveObjectTask: the dead row goes, and all that refers to it. *)
PurgeUser ==
    /\ user.live = "dead" /\ userLock = NoSession /\ profileLock = NoSession
    /\ user' = [user EXCEPT !.live = "gone"] /\ profile' = "gone" /\ members' = {}
    /\ UNCHANGED <<session, userLock, profileLock, keys, requests, overwrote, lastReset>>

UsersNext ==
    \/ CreateUser \/ PurgeUser
    \/ \E s \in Sessions :
        \/ \E op \in Ops : Begin(s, op)
        \/ LockProfile(s) \/ SaveUser(s) \/ SaveProfile(s) \/ Commit(s) \/ Rollback(s)
        \/ \E g \in UserGroups : JoinGroup(s, g)
    \/ \E g \in UserGroups : LeaveGroup(g)

UsersSpec == UsersInit /\ [][UsersNext]_usersVars

-----------------------------------------------------------------------------
(* A live user has its live profile and the key of the last reset, whatever *)
(* requests of both versions overlap - unless one of them wrote back a row  *)
(* it had read without a lock.                                              *)
UserIsWhole ==
    overwrote = "no" =>
        /\ user.live = "live" => profile = "live"
        /\ user.live # "none" => user.key = lastReset
        /\ profile = "live" => user.live \in {"live", "dead"}

(* A user is in no more groups than the limit, however many requests add it *)
(* to groups at once.                                                       *)
GroupLimit == Cardinality(members) <= GroupMaxCount

(* A user, its profile, its key and its groups agree after any overlap of   *)
(* requests of both versions of the API.                                    *)
UsersAreSound == UserIsWhole /\ GroupLimit
=============================================================================
