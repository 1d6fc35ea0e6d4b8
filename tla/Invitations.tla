---------------------------- MODULE Invitations ----------------------------
(***************************************************************************)
(* Invitations to an instance and the roles of admins in it                *)
(* (apps/invitations, apps/admins).  All views lock the invitation they    *)
(* work on.                                                                *)
(***************************************************************************)
EXTENDS Integers, FiniteSets

CONSTANTS
    People,         \* addresses: of admins, now or later
    Owner,          \* the owner of the instance
    Keys            \* keys of invitations

ASSUME InvitationsAssumption == Owner \in People

VARIABLES
    registered,   \* people who have an account
    invitations,  \* Invitation rows, by key
    ranks,        \* AdminInstanceRole rows: 1 full, 2 write, 3 read, 4 none
    joined        \* history: who has joined with a key

invitationsVars == <<registered, invitations, ranks, joined>>

NoInvitation == [state |-> "none", email |-> Owner, rank |-> 4]
Entries == {k \in Keys : invitations[k].state \in {"new", "accepted", "declined"}}

InvitationsInit ==
    /\ registered = {Owner}
    /\ invitations = [k \in Keys |-> NoInvitation]
    /\ ranks = [a \in People |-> 4]
    /\ joined = [k \in Keys |-> {}]

(* add_to_instance never lowers a role. *)
Raised(a, rank) == IF ranks[a] > rank THEN [ranks EXCEPT ![a] = rank] ELSE ranks

FaultOpenKey(k) == k \in Entries

OpenKey(k) == invitations[k].state = "new"

(* Invitation.accept: whoever has the key joins, whatever the address. *)
Accept(k, a) ==
    /\ OpenKey(k)
    /\ invitations' = [invitations EXCEPT ![k].state = "accepted"]
    /\ ranks' = Raised(a, invitations[k].rank)
    /\ joined' = [joined EXCEPT ![k] = @ \cup {a}]

AcceptInvitation(k, a) ==
    /\ a \in registered
    /\ Accept(k, a)
    /\ UNCHANGED registered

(* RegisterView, with or without an invitation: a key that is not good      *)
(* undoes the account too.                                                  *)
SignUp(a) ==
    /\ a \notin registered
    /\ registered' = registered \cup {a}
    /\ (\E k \in Keys : Accept(k, a)) \/ UNCHANGED <<invitations, ranks, joined>>

(* An account that is deleted takes its role along. *)
Remove(a) ==
    /\ a \in registered \ {Owner}
    /\ registered' = registered \ {a}
    /\ ranks' = [ranks EXCEPT ![a] = 4]
    /\ UNCHANGED <<invitations, joined>>

(* One invitation for an address: one that is over is replaced.  The role   *)
(* is looked at without a lock, which at worst invites a member.            *)
Invite(k, email, rank) ==
    /\ invitations[k].state = "none"
    /\ email \in registered => email # Owner /\ ranks[email] = 4
    /\ ~\E j \in Entries : invitations[j].email = email /\ OpenKey(j)
    /\ invitations' = [j \in Keys |->
            IF j = k THEN [state |-> "new", email |-> email, rank |-> rank]
            ELSE IF j \in Entries /\ invitations[j].email = email
            THEN [invitations[j] EXCEPT !.state = "deleted"] ELSE invitations[j]]
    /\ UNCHANGED <<registered, ranks, joined>>

UpdateInvitation(k, rank) ==
    /\ k \in Entries
    /\ invitations' = [invitations EXCEPT ![k].rank = rank]
    /\ UNCHANGED <<registered, ranks, joined>>

(* AdminInvitationViewSet.destroy, for the invited account. *)
Decline(k) ==
    /\ invitations[k].state = "new" /\ invitations[k].email \in registered
    /\ invitations' = [invitations EXCEPT ![k].state = "declined"]
    /\ UNCHANGED <<registered, ranks, joined>>

DeleteInvitation(k) ==
    /\ k \in Entries
    /\ invitations' = [invitations EXCEPT ![k].state = "deleted"]
    /\ UNCHANGED <<registered, ranks, joined>>

(* AdminViewSet: a full role changes any role but the owner's, and anybody  *)
(* may give up their own.                                                   *)
SetRole(a, rank) ==
    /\ a # Owner /\ ranks[a] # 4
    /\ ranks' = [ranks EXCEPT ![a] = rank]
    /\ UNCHANGED <<registered, invitations, joined>>

InvitationsNext ==
    \/ \E a \in People :
        \/ SignUp(a) \/ Remove(a)
        \/ \E rank \in 1..4 : SetRole(a, rank)
        \/ \E k \in Keys : AcceptInvitation(k, a)
    \/ \E k \in Keys :
        \/ Decline(k) \/ DeleteInvitation(k)
        \/ \E rank \in 1..3 : UpdateInvitation(k, rank) \/ \E e \in People : Invite(k, e, rank)

InvitationsSpec == InvitationsInit /\ [][InvitationsNext]_invitationsVars

-----------------------------------------------------------------------------
(* A key lets one account in at most, and none while it is open or once it  *)
(* was declined (accept, under a row lock).                                 *)
InviteSpentOnce ==
    \A k \in Keys :
        /\ Cardinality(joined[k]) <= 1
        /\ invitations[k].state \in {"new", "declined"} => joined[k] = {}
=============================================================================
