------------------------------ MODULE MCTenants ------------------------------
(***************************************************************************)
(* Instance of Tenancy, Migrations, Accounts, Invitations and Standing for *)
(* TLC.  They share no state: a behaviour is one of one of them, and the   *)
(* others stay in their initial state, which the view leaves out.          *)
(***************************************************************************)
EXTENDS Tenancy, Migrations, Accounts, Invitations, Standing, TLC

VARIABLE part

MCRows == 1..3
MCTenantKeys == 1..3
MCRangeOf == [t \in MCTenantKeys |-> IF t < 3 THEN 1 ELSE 2]
MCAmounts == 0..2
MCMonths == 1..2
MCNoLimit == -1

Symmetry == Permutations(Restores) \cup Permutations(Requests)

vars == <<tenancyVars, migrationsVars, accountsVars, invitationsVars, standingVars, part>>

Init ==
    /\ part \in {"tenancy", "migrations", "accounts", "invitations", "standing"}
    /\ TenancyInit /\ AccountsInit /\ InvitationsInit /\ StandingInit
    /\ MigrationsInit /\ (part # "migrations" => tenantRows = {})

Next ==
    /\ UNCHANGED part
    /\ \/ /\ part = "tenancy" /\ TenancyNext
          /\ UNCHANGED <<migrationsVars, accountsVars, invitationsVars, standingVars>>
       \/ /\ part = "migrations" /\ MigrationsNext
          /\ UNCHANGED <<tenancyVars, accountsVars, invitationsVars, standingVars>>
       \/ /\ part = "accounts" /\ AccountsNext
          /\ UNCHANGED <<tenancyVars, migrationsVars, invitationsVars, standingVars>>
       \/ /\ part = "invitations" /\ InvitationsNext
          /\ UNCHANGED <<tenancyVars, migrationsVars, accountsVars, standingVars>>
       \/ /\ part = "standing" /\ StandingNext
          /\ UNCHANGED <<tenancyVars, migrationsVars, accountsVars, invitationsVars>>

Spec == Init /\ [][Next]_vars

PartView ==
    <<part, CASE part = "tenancy" -> tenancyVars
              [] part = "migrations" -> migrationsVars
              [] part = "accounts" -> accountsVars
              [] part = "invitations" -> invitationsVars
              [] part = "standing" -> standingVars>>
=============================================================================
