--------------------------- MODULE TenantsProofs ----------------------------
(***************************************************************************)
(* Theorems about accounts of administrators, their invitations, their     *)
(* spending limits, the instances they own, what a backup of one contains  *)
(* and how their schemas are migrated (Accounts, Invitations, Standing,    *)
(* Tenancy, BackupArchive, Migrations).  Each of the six has an inductive  *)
(* invariant of its own; they share no state.                              *)
(***************************************************************************)
EXTENDS Accounts, Invitations, Standing, Tenancy, BackupArchive, Migrations,
        FiniteSetTheorems, WellFoundedInduction, TLAPS

(* Invitations *)

InvitationRows ==
    [state : {"none", "new", "accepted", "declined", "deleted"}, email : People, rank : 1..4]

InvitationsTypeOK ==
    /\ invitations \in [Keys -> InvitationRows]
    /\ joined \in [Keys -> SUBSET People]

\* Before it is accepted a key has let nobody in, afterwards one.
KeysSound ==
    \A k \in Keys :
        /\ invitations[k].state \in {"none", "new", "declined"} => joined[k] = {}
        /\ joined[k] = {} \/ \E a \in People : joined[k] = {a}

InvitationsInv == InvitationsTypeOK /\ KeysSound

\* An open key lets one account in and is closed.
LEMMA AcceptKeeps ==
    ASSUME InvitationsInv, NEW k \in Keys, NEW a \in People, Accept(k, a)
    PROVE  InvitationsInv'
<1>1. /\ invitations' = [invitations EXCEPT ![k].state = "accepted"]
      /\ joined' = [joined EXCEPT ![k] = joined[k] \cup {a}] /\ joined[k] = {}
  BY DEF Accept, OpenKey, InvitationsInv, KeysSound
<1>2. InvitationsTypeOK'
  BY <1>1 DEF InvitationsInv, InvitationsTypeOK, InvitationRows
<1>3. /\ joined'[k] = {a} /\ invitations'[k].state = "accepted"
      /\ \A j \in Keys : j # k => joined'[j] = joined[j] /\ invitations'[j] = invitations[j]
  BY <1>1 DEF InvitationsInv, InvitationsTypeOK, InvitationRows
<1>4. KeysSound'
  BY <1>3 DEF InvitationsInv, KeysSound
<1>5. QED
  BY <1>2, <1>4 DEF InvitationsInv

\* A step that lets nobody in, and opens only keys that were never given out.
LEMMA NobodyJoins ==
    ASSUME InvitationsInv, joined' = joined, invitations' \in [Keys -> InvitationRows],
           \A k \in Keys : \/ invitations'[k].state = "deleted"
                           \/ invitations'[k].state = invitations[k].state
                           \/ invitations[k].state \in {"none", "new"}
    PROVE  InvitationsInv'
  BY DEF InvitationsInv, InvitationsTypeOK, KeysSound

\* A key lets one account in at most, and none while it is open or declined.
THEOREM InviteSpentOnceHolds == InvitationsSpec => []InviteSpentOnce
<1>1. InvitationsInit => InvitationsInv
  BY InvitationsAssumption DEF InvitationsInit, InvitationsInv, InvitationsTypeOK, InvitationRows,
     KeysSound, NoInvitation
<1>2. ASSUME InvitationsInv, [InvitationsNext]_invitationsVars PROVE InvitationsInv'
  <2>t. invitations \in [Keys -> InvitationRows] /\ joined \in [Keys -> SUBSET People]
    BY <1>2 DEF InvitationsInv, InvitationsTypeOK
  <2>1. ASSUME NEW a \in People, SignUp(a) PROVE InvitationsInv'
    <3>1. CASE \E k \in Keys : Accept(k, a)
      BY <1>2, <3>1, AcceptKeeps
    <3>2. CASE UNCHANGED <<invitations, ranks, joined>>
      BY <1>2, <2>t, <3>2, NobodyJoins
    <3>3. QED
      BY <2>1, <3>1, <3>2 DEF SignUp
  <2>2. ASSUME NEW a \in People, NEW k \in Keys, AcceptInvitation(k, a) PROVE InvitationsInv'
    BY <1>2, <2>2, AcceptKeeps DEF AcceptInvitation
  <2>3. ASSUME NEW a \in People, Remove(a) \/ \E rank \in 1..4 : SetRole(a, rank)
        PROVE  InvitationsInv'
    BY <1>2, <2>t, <2>3, NobodyJoins DEF Remove, SetRole
  <2>4. ASSUME NEW k \in Keys, Decline(k) \/ DeleteInvitation(k) PROVE InvitationsInv'
    <3>1. joined' = joined
      BY <2>4 DEF Decline, DeleteInvitation
    <3>2. invitations' \in [Keys -> InvitationRows]
      BY <2>t, <2>4 DEF Decline, DeleteInvitation, InvitationRows
    <3>3. \A j \in Keys : \/ invitations'[j].state = "deleted"
                          \/ invitations'[j].state = invitations[j].state
                          \/ invitations[j].state \in {"none", "new"}
      BY <2>t, <2>4 DEF Decline, DeleteInvitation, InvitationRows
    <3>4. QED
      BY <1>2, <3>1, <3>2, <3>3, NobodyJoins
  <2>5. ASSUME NEW k \in Keys, NEW rank \in 1..3, UpdateInvitation(k, rank) PROVE InvitationsInv'
    <3>1. joined' = joined /\ invitations' \in [Keys -> InvitationRows]
      BY <2>t, <2>5 DEF UpdateInvitation, InvitationRows
    <3>2. \A j \in Keys : invitations'[j].state = invitations[j].state
      BY <2>t, <2>5 DEF UpdateInvitation, InvitationRows
    <3>3. QED
      BY <1>2, <3>1, <3>2, NobodyJoins
  <2>6. ASSUME NEW k \in Keys, NEW rank \in 1..3, NEW e \in People, Invite(k, e, rank)
        PROVE  InvitationsInv'
    <3>1. /\ joined' = joined /\ invitations[k].state = "none"
          /\ invitations' = [j \in Keys |->
                IF j = k THEN [state |-> "new", email |-> e, rank |-> rank]
                ELSE IF j \in Entries /\ invitations[j].email = e
                THEN [invitations[j] EXCEPT !.state = "deleted"] ELSE invitations[j]]
      BY <2>6 DEF Invite
    <3>2. invitations' \in [Keys -> InvitationRows]
      BY <2>t, <3>1 DEF InvitationRows
    <3>3. \A j \in Keys : \/ invitations'[j].state = "deleted"
                          \/ invitations'[j].state = invitations[j].state
                          \/ invitations[j].state \in {"none", "new"}
      BY <2>t, <3>1 DEF InvitationRows
    <3>4. QED
      BY <1>2, <3>1, <3>2, <3>3, NobodyJoins
  <2>7. CASE UNCHANGED invitationsVars
    BY <1>2, <2>t, <2>7, NobodyJoins DEF invitationsVars
  <2>8. QED
    BY <1>2, <2>1, <2>2, <2>3, <2>4, <2>5, <2>6, <2>7 DEF InvitationsNext
<1>3. InvitationsInv => InviteSpentOnce
  <2> SUFFICES ASSUME InvitationsInv, NEW k \in Keys
               PROVE  /\ Cardinality(joined[k]) <= 1
                      /\ invitations[k].state \in {"new", "declined"} => joined[k] = {}
    BY DEF InviteSpentOnce
  <2>1. \A a : Cardinality({a}) = 1
    BY FS_Singleton
  <2>2. Cardinality({}) = 0
    BY FS_EmptySet
  <2>3. QED
    BY <2>1, <2>2 DEF InvitationsInv, KeysSound
<1>4. QED
  BY <1>1, <1>2, <1>3, PTL DEF InvitationsSpec

-----------------------------------------------------------------------------
(* Spending limits *)

MarkedAmounts == [limit : [Limits -> Nat], mark : [Limits -> Nat]]

StandingTypeOK ==
    /\ month \in Nat \ {0} /\ overage \in Nat
    /\ profile \in MarkedAmounts
    /\ checks \in [Limits -> Nat]
    /\ overtaken \in [Limits -> {"yes", "no"}]

\* Marks and listings are of this month or an earlier one, and those of this
\* month have a reason unless the limit was changed after the listing.
MarksSound ==
    \A l \in Limits :
        /\ profile.mark[l] <= month /\ checks[l] <= month
        /\ (profile.mark[l] = month \/ checks[l] = month) /\ overtaken[l] = "no"
              => overage > profile.limit[l]

StandingInv == StandingTypeOK /\ MarksSound

\* Who is marked as above a limit in this month is above it.
THEOREM BlockedForAReasonHolds == StandingSpec => []BlockedForAReason
<1> USE StandingAssumption DEF StandingTypeOK
<1>1. StandingInit => StandingInv
  BY DEF StandingInit, StandingInv, MarksSound, MarkedAmounts
<1>2. ASSUME StandingInv, [StandingNext]_standingVars PROVE StandingInv'
  <2>t. StandingTypeOK /\ MarksSound
    BY <1>2 DEF StandingInv
  <2>1. CASE Aggregate
    BY <2>t, <2>1 DEF Aggregate, StandingInv, MarksSound, MarkedAmounts
  <2>2. CASE NewMonth
    BY <2>t, <2>2 DEF NewMonth, StandingInv, MarksSound, MarkedAmounts
  <2>3. ASSUME NEW l \in Limits, ListAbove(l) PROVE StandingInv'
    <3>1. StandingTypeOK'
      BY <2>t, <2>3 DEF ListAbove
    <3>2. MarksSound'
      BY <2>t, <2>3 DEF ListAbove, Above, Exceeds, MarksSound, MarkedAmounts
    <3>3. QED
      BY <3>1, <3>2 DEF StandingInv
  <2>4. ASSUME NEW l \in Limits, MarkListed(l) PROVE StandingInv'
    <3>1. /\ profile' = [profile EXCEPT !.mark = [profile.mark EXCEPT ![l] = checks[l]]]
          /\ checks' = [checks EXCEPT ![l] = 0] /\ UNCHANGED <<month, overage, overtaken>>
      BY <2>t, <2>4 DEF MarkListed, MarkedAmounts
    <3>2. StandingTypeOK'
      BY <2>t, <3>1 DEF MarkedAmounts
    <3>3. /\ profile'.limit = profile.limit
          /\ \A x \in Limits : profile'.mark[x] = IF x = l THEN checks[l] ELSE profile.mark[x]
          /\ \A x \in Limits : checks'[x] = IF x = l THEN 0 ELSE checks[x]
      BY <2>t, <3>1 DEF MarkedAmounts
    <3>4. MarksSound'
      BY <2>t, <3>1, <3>3 DEF MarksSound
    <3>5. QED
      BY <3>2, <3>4 DEF StandingInv
  <2>5. ASSUME NEW soft \in Amounts, NEW hard \in Amounts, SaveProfile(soft, hard) PROVE StandingInv'
    <3> DEFINE limit == [l \in Limits |-> IF l = "soft" THEN soft ELSE hard]
               mark == [l \in Limits |-> NewMark(l, limit[l])]
    <3>1. /\ profile' = [limit |-> limit, mark |-> mark]
          /\ overtaken' = [l \in Limits |-> IF checks[l] # 0 /\ limit[l] # profile.limit[l]
                                            THEN "yes" ELSE overtaken[l]]
          /\ UNCHANGED <<month, overage, checks>>
      BY <2>5 DEF SaveProfile
    <3>2. /\ limit \in [Limits -> Nat]
          /\ \A l \in Limits : mark[l] = IF limit[l] = profile.limit[l] THEN profile.mark[l]
                                         ELSE IF overage > limit[l] THEN month ELSE 0
      BY DEF NewMark, Exceeds
    <3>3. mark \in [Limits -> Nat]
      BY <2>t, <3>2 DEF MarkedAmounts
    <3> HIDE DEF limit, mark
    <3>4. StandingTypeOK'
      BY <2>t, <3>1, <3>2, <3>3 DEF MarkedAmounts
    <3>5. profile'.limit = limit /\ profile'.mark = mark
      BY <3>1
    <3>6. MarksSound'
      BY <2>t, <3>1, <3>2, <3>5 DEF MarksSound, MarkedAmounts
    <3>7. QED
      BY <3>4, <3>6 DEF StandingInv
  <2>6. ASSUME \/ CheckStanding \/ UNCHANGED standingVars
               \/ \E p \in {"builder", "paid", "none"} : ChangePlan(p)
               \/ \E result \in {"yes", "no"} : Payment(result)
               \/ \E n \in Amounts : Store(n)
        PROVE  StandingInv'
    <3>1. UNCHANGED <<month, overage, profile, checks, overtaken>>
      BY <2>6 DEF CheckStanding, ChangePlan, Payment, Store, standingVars
    <3>2. QED
      BY <2>t, <3>1 DEF StandingInv, MarksSound
  <2>7. QED
    BY <1>2, <2>1, <2>2, <2>3, <2>4, <2>5, <2>6 DEF StandingNext
<1>3. StandingInv => BlockedForAReason
  BY DEF StandingInv, MarksSound, BlockedForAReason, Exceeds
<1>4. QED
  BY <1>1, <1>2, <1>3, PTL DEF StandingSpec

-----------------------------------------------------------------------------
(* Secrets of accounts *)

AccountRows ==
    [state : {"none", "live", "dead"}, password : Nat, key : Nat,
     active : {"yes", "no"}, noticed : {"yes", "no"}]
Tokens == [of : Admins, password : Nat]
OldKeys == [of : Admins, key : Nat]

AccountsTypeOK ==
    /\ accounts \in [Admins -> AccountRows]
    /\ drawn \in Nat
    /\ copies \in [Requests -> [of : Admins \cup {Outsider},
                                for : {"nothing", "account", "reset"}, row : AccountRows]]
    /\ mails \subseteq Tokens
    /\ spent \subseteq Tokens /\ retired \subseteq OldKeys

\* No secret in a row, a copy or a list is younger than the last one drawn.
SecretsDrawn ==
    /\ \A a \in Admins : accounts[a].password <= drawn /\ accounts[a].key <= drawn
    /\ \A q \in Requests : copies[q].row.password <= drawn /\ copies[q].row.key <= drawn
    /\ \A t \in spent : t.password <= drawn
    /\ \A r \in retired : r.key <= drawn

\* A request with a copy has one of an account that was there; an account that
\* was never there has no old secrets.
CopiesSound ==
    /\ \A q \in Requests : copies[q].for # "nothing" =>
        copies[q].of \in Admins /\ copies[q].row.state # "none"
    /\ \A a \in Admins : accounts[a].state = "none" =>
        (\A t \in spent : t.of # a) /\ (\A r \in retired : r.of # a)

SecretsInv == AccountsTypeOK /\ SecretsDrawn /\ CopiesSound /\ OldSecretsDie

\* A step that draws no secret, brings no old one back and ends no account.
LEMMA QuietAccounts ==
    ASSUME SecretsInv, AccountsTypeOK', UNCHANGED <<drawn, spent, retired, stale>>,
           \A a \in Admins : /\ accounts'[a].password = accounts[a].password
                             /\ accounts'[a].key = accounts[a].key
                             /\ accounts'[a].state = "none" => accounts[a].state = "none",
           \A q \in Requests :
               \/ copies'[q] = copies[q]
               \/ copies'[q] = Idle
               \/ \E a \in Admins : /\ copies'[q].of = a /\ copies'[q].row = accounts[a]
                                    /\ accounts[a].state # "none"
    PROVE  SecretsInv'
<1>1. SecretsDrawn'
  BY DEF SecretsInv, SecretsDrawn, AccountsTypeOK, Idle, NoAccount
<1>2. CopiesSound'
  BY DEF SecretsInv, CopiesSound, Idle
<1>3. OldSecretsDie'
  BY DEF SecretsInv, OldSecretsDie
<1>4. QED
  BY <1>1, <1>2, <1>3 DEF SecretsInv

\* A row saved from a copy: with the secrets it was read with, or with a new one
\* in the place of one that is old from now on.
LEMMA SaveKeeps ==
    ASSUME SecretsInv, AccountsTypeOK', NEW q \in Requests, NEW row \in AccountRows,
           copies[q].for # "nothing", Save(q, row), row.state = copies[q].row.state,
           drawn' \in {drawn, drawn + 1},
           row.password \in {copies[q].row.password, drawn'}, row.key \in {copies[q].row.key, drawn'},
           drawn' = drawn => row.password = copies[q].row.password /\ row.key = copies[q].row.key,
           \A t \in spent' \ spent : t = TokenOf(copies[q].of, copies[q].row) /\ row.password = drawn + 1,
           \A r \in retired' \ retired : r = [of |-> copies[q].of, key |-> copies[q].row.key]
                                           /\ row.key = drawn + 1,
           spent \subseteq spent', retired \subseteq retired'
    PROVE  SecretsInv'
<1> DEFINE a == copies[q].of
<1>1. /\ a \in Admins /\ copies[q].row.state # "none"
      /\ copies[q].row.password <= drawn /\ copies[q].row.key <= drawn
      /\ copies[q].row.password \in Nat /\ copies[q].row.key \in Nat
      /\ drawn \in Nat /\ drawn' \in Nat /\ drawn <= drawn'
      /\ row.password \in Nat /\ row.key \in Nat
  BY DEF SecretsInv, CopiesSound, SecretsDrawn, AccountsTypeOK, AccountRows
<1>2. /\ accounts' = [accounts EXCEPT ![a] = row]
      /\ accounts[a] # copies[q].row => a \in stale'
      /\ stale \subseteq stale'
      /\ copies' = [copies EXCEPT ![q] = Idle]
  BY DEF Save
<1>3. /\ accounts'[a] = row
      /\ \A b \in Admins : b # a => accounts'[b] = accounts[b]
      /\ copies'[q] = Idle
      /\ \A p \in Requests : p # q => copies'[p] = copies[p]
  BY <1>1, <1>2 DEF SecretsInv, AccountsTypeOK
<1>4. \A t \in spent' : t \in spent \/ (t.of = a /\ t.password = copies[q].row.password /\ row.password = drawn + 1)
  BY DEF TokenOf
<1>5. \A r \in retired' : r \in retired \/ (r.of = a /\ r.key = copies[q].row.key /\ row.key = drawn + 1)
  OBVIOUS
<1> HIDE DEF a
<1>6. row.password <= drawn' /\ row.key <= drawn'
  BY <1>1
<1>7. SecretsDrawn'
  <2>1. \A b \in Admins : accounts'[b].password <= drawn' /\ accounts'[b].key <= drawn'
    <3>1. \A b \in Admins : /\ accounts[b].password \in Nat /\ accounts[b].key \in Nat
                            /\ accounts[b].password <= drawn /\ accounts[b].key <= drawn
      BY DEF SecretsInv, SecretsDrawn, AccountsTypeOK, AccountRows
    <3>2. QED
      BY <1>1, <1>3, <1>6, <3>1
  <2>2. \A p \in Requests : copies'[p].row.password <= drawn' /\ copies'[p].row.key <= drawn'
    <3>1. \A p \in Requests : /\ copies[p].row.password \in Nat /\ copies[p].row.key \in Nat
                              /\ copies[p].row.password <= drawn /\ copies[p].row.key <= drawn
      BY DEF SecretsInv, SecretsDrawn, AccountsTypeOK, AccountRows
    <3>2. QED
      BY <1>1, <1>3, <3>1 DEF Idle, NoAccount
  <2>3. \A t \in spent' : t.password <= drawn'
    BY <1>1, <1>4 DEF SecretsInv, SecretsDrawn, AccountsTypeOK, Tokens
  <2>4. \A r \in retired' : r.key <= drawn'
    BY <1>1, <1>5 DEF SecretsInv, SecretsDrawn, AccountsTypeOK, OldKeys
  <2>5. QED
    BY <2>1, <2>2, <2>3, <2>4 DEF SecretsDrawn
<1>8. CopiesSound'
  <2>1. \A p \in Requests : copies'[p].for # "nothing" =>
            copies'[p].of \in Admins /\ copies'[p].row.state # "none"
    BY <1>3 DEF SecretsInv, CopiesSound, Idle
  <2>2. \A b \in Admins : accounts'[b].state = "none" => b # a /\ accounts[b].state = "none"
    BY <1>1, <1>3
  <2>3. QED
    BY <1>4, <1>5, <2>1, <2>2 DEF SecretsInv, CopiesSound
<1>9. OldSecretsDie'
  <2> SUFFICES ASSUME NEW b \in Admins, b \notin stale'
               PROVE  /\ \A t \in spent' : t.of = b => accounts'[b].password # t.password
                      /\ \A r \in retired' : r.of = b => accounts'[b].key # r.key
    BY DEF OldSecretsDie
  <2>0. b \notin stale
    BY <1>2
  <2>1. CASE b # a
    <3>1. /\ \A t \in spent' : t.of = b => t \in spent
          /\ \A r \in retired' : r.of = b => r \in retired
      BY <1>4, <1>5, <2>1
    <3>2. QED
      BY <1>3, <2>0, <2>1, <3>1 DEF SecretsInv, OldSecretsDie
  <2>2. CASE b = a
    <3>0. accounts[a] = copies[q].row /\ accounts'[b] = row
      BY <1>2, <1>3, <2>2
    <3>1. ASSUME NEW t \in spent', t.of = b PROVE row.password # t.password
      <4>1. CASE t \in spent
        <5>1. t.password \in Nat /\ t.password <= drawn /\ accounts[a].password # t.password
          BY <2>0, <2>2, <3>1, <4>1 DEF SecretsInv, SecretsDrawn, OldSecretsDie, AccountsTypeOK, Tokens
        <5>2. QED
          BY <1>1, <3>0, <5>1
      <4>2. CASE t \notin spent
        BY <1>1, <1>4, <3>1, <4>2
      <4>3. QED
        BY <4>1, <4>2
    <3>2. ASSUME NEW r \in retired', r.of = b PROVE row.key # r.key
      <4>1. CASE r \in retired
        <5>1. r.key \in Nat /\ r.key <= drawn /\ accounts[a].key # r.key
          BY <2>0, <2>2, <3>2, <4>1 DEF SecretsInv, SecretsDrawn, OldSecretsDie, AccountsTypeOK, OldKeys
        <5>2. QED
          BY <1>1, <3>0, <5>1
      <4>2. CASE r \notin retired
        BY <1>1, <1>5, <3>2, <4>2
      <4>3. QED
        BY <4>1, <4>2
    <3>3. QED
      BY <3>0, <3>1, <3>2
  <2>3. QED
    BY <2>1, <2>2
<1>10. QED
  BY <1>7, <1>8, <1>9 DEF SecretsInv

\* A new account has secrets that were never used before, or no password.
LEMMA SignUpKeeps ==
    ASSUME SecretsInv, AccountsTypeOK', NEW a \in Admins, accounts[a].state = "none",
           NEW row \in AccountRows, accounts' = [accounts EXCEPT ![a] = row], row.state = "live",
           drawn' \in Nat, drawn <= drawn', row.password <= drawn', row.key <= drawn',
           UNCHANGED <<copies, spent, retired, stale>>
    PROVE  SecretsInv'
<1>1. /\ accounts'[a] = row
      /\ \A b \in Admins : b # a => accounts'[b] = accounts[b]
  BY DEF SecretsInv, AccountsTypeOK
<1>2. SecretsDrawn'
  <2>1. drawn \in Nat /\ \A b \in Admins : accounts[b].password \in Nat /\ accounts[b].key \in Nat
    BY DEF SecretsInv, AccountsTypeOK, AccountRows
  <2>2. /\ \A q \in Requests : copies[q].row.password \in Nat /\ copies[q].row.key \in Nat
        /\ \A t \in spent : t.password \in Nat
        /\ \A r \in retired : r.key \in Nat
    BY DEF SecretsInv, AccountsTypeOK, AccountRows, Tokens, OldKeys
  <2>3. QED
    BY <1>1, <2>1, <2>2 DEF SecretsInv, SecretsDrawn
<1>3. CopiesSound'
  BY <1>1 DEF SecretsInv, CopiesSound
<1>4. OldSecretsDie'
  BY <1>1 DEF SecretsInv, CopiesSound, OldSecretsDie
<1>5. QED
  BY <1>2, <1>3, <1>4 DEF SecretsInv

\* Every step keeps the types of accounts, copies and tokens.
LEMMA AccountsType ==
    ASSUME SecretsInv, [AccountsNext]_accountsVars
    PROVE  AccountsTypeOK'
<1> USE DEF secretVars
<1>t. AccountsTypeOK /\ CopiesSound
  BY DEF SecretsInv
<1>n. NoAccount \in AccountRows /\ Idle \in [of : Admins \cup {Outsider},
        for : {"nothing", "account", "reset"}, row : AccountRows]
  BY DEF NoAccount, AccountRows, Idle
<1>1. ASSUME NEW a \in Admins,
             Register(a) \/ SocialSignUp(a)
      PROVE  AccountsTypeOK'
  <2>1. accounts' \in [Admins -> AccountRows] /\ drawn' \in Nat
    BY <1>t, <1>1 DEF AccountsTypeOK, Register, SocialSignUp, Drawn, NewAccount, AccountRows
  <2>2. mails' \subseteq Tokens
    BY <1>t, <1>1, <2>1 DEF AccountsTypeOK, Register, SocialSignUp, TokenOf, Tokens, AccountRows
  <2>3. QED
    BY <1>t, <1>1, <2>1, <2>2 DEF AccountsTypeOK, Register, SocialSignUp
<1>2. ASSUME NEW a \in Admins, SignIn(a) \/ Notice(a) \/ DeleteInactive(a)
      PROVE  AccountsTypeOK'
  <2>1. accounts' \in [Admins -> AccountRows]
    BY <1>t, <1>2 DEF AccountsTypeOK, SignIn, Notice, DeleteInactive, AccountRows
  <2>2. QED
    BY <1>t, <1>2, <2>1 DEF AccountsTypeOK, SignIn, Notice, DeleteInactive
<1>3. ASSUME NEW a \in Admins, MailToken(a) PROVE AccountsTypeOK'
  <2>1. mails' \subseteq Tokens
    BY <1>t, <1>3 DEF AccountsTypeOK, MailToken, TokenOf, Tokens, AccountRows
  <2>2. QED
    BY <1>t, <1>3, <2>1 DEF AccountsTypeOK, MailToken
<1>4. ASSUME NEW t \in mails, Activate(t) PROVE AccountsTypeOK'
  <2>1. t.of \in Admins
    BY <1>t DEF AccountsTypeOK, Tokens
  <2>2. accounts' \in [Admins -> AccountRows]
    BY <1>t, <1>4, <2>1 DEF AccountsTypeOK, Activate, AccountRows
  <2>3. QED
    BY <1>t, <1>4, <2>2 DEF AccountsTypeOK, Activate
<1>5. ASSUME NEW q \in Requests, NEW a \in Admins,
             Authenticate(q, a) \/ \E t \in mails : t.of = a /\ ReadToken(q, t)
      PROVE  AccountsTypeOK'
  <2>1. copies' \in [Requests -> [of : Admins \cup {Outsider},
                                  for : {"nothing", "account", "reset"}, row : AccountRows]]
    BY <1>t, <1>5 DEF AccountsTypeOK, Authenticate, ReadToken
  <2>2. QED
    BY <1>t, <1>5, <2>1 DEF AccountsTypeOK, Authenticate, ReadToken
<1>6. ASSUME NEW q \in Requests, UpdateAccount(q) \/ ResetKey(q) \/ SetPassword(q) \/ ConfirmReset(q)
      PROVE  AccountsTypeOK'
  <2>1. copies[q].for # "nothing" /\ copies[q].of \in Admins /\ copies[q].row \in AccountRows /\ drawn \in Nat
    BY <1>t, <1>6 DEF UpdateAccount, ResetKey, SetPassword, ConfirmReset, CopiesSound, AccountsTypeOK
  <2>2. \E row \in AccountRows : Save(q, row)
    <3>1. \A r \in AccountRows : /\ [r EXCEPT !.active = "no"] \in AccountRows
                                 /\ [r EXCEPT !.key = drawn + 1] \in AccountRows
                                 /\ [r EXCEPT !.password = drawn + 1] \in AccountRows
      BY <2>1 DEF AccountRows
    <3>2. QED
      BY <1>6, <2>1, <3>1 DEF UpdateAccount, ResetKey, SetPassword, ConfirmReset, ReplacedKey
  <2>3. /\ accounts' \in [Admins -> AccountRows]
        /\ copies' \in [Requests -> [of : Admins \cup {Outsider},
                                     for : {"nothing", "account", "reset"}, row : AccountRows]]
    BY <1>t, <1>n, <2>1, <2>2 DEF AccountsTypeOK, Save
  <2>4. drawn' \in Nat
    BY <1>6, <2>1 DEF UpdateAccount, ResetKey, SetPassword, ConfirmReset, Drawn
  <2>5. TokenOf(copies[q].of, copies[q].row) \in Tokens /\ [of |-> copies[q].of, key |-> copies[q].row.key] \in OldKeys
    BY <2>1 DEF TokenOf, Tokens, OldKeys, AccountRows
  <2>6. mails' \subseteq Tokens /\ spent' \subseteq Tokens /\ retired' \subseteq OldKeys
    BY <1>t, <1>6, <2>5 DEF AccountsTypeOK, UpdateAccount, ResetKey, SetPassword, ConfirmReset
  <2>7. QED
    BY <2>3, <2>4, <2>6 DEF AccountsTypeOK
<1>7. ASSUME (\E q \in Requests : Leave(q)) \/ ListInactive \/ UNCHANGED accountsVars
      PROVE  AccountsTypeOK'
  BY <1>t, <1>n, <1>7 DEF AccountsTypeOK, Leave, ListInactive, accountsVars
<1>8. \A t \in mails : t.of \in Admins
  BY <1>t DEF AccountsTypeOK, Tokens
<1>9. QED
  BY <1>1, <1>2, <1>3, <1>4, <1>5, <1>6, <1>7, <1>8 DEF AccountsNext

\* A used token and a replaced key are good for nothing, unless a copy of the
\* account that was out of date was saved.
THEOREM OldSecretsDieHolds == AccountsSpec => []OldSecretsDie
<1> USE DEF secretVars
<1>1. AccountsInit => SecretsInv
  BY DEF AccountsInit, SecretsInv, AccountsTypeOK, SecretsDrawn, CopiesSound, OldSecretsDie,
     NoAccount, Idle, AccountRows, Tokens, OldKeys
<1>2. ASSUME SecretsInv, [AccountsNext]_accountsVars PROVE SecretsInv'
  <2>t. AccountsTypeOK /\ AccountsTypeOK'
    BY <1>2, AccountsType DEF SecretsInv
  <2>1. ASSUME NEW a \in Admins, Register(a) \/ SocialSignUp(a) PROVE SecretsInv'
    <3>1. PICK row : /\ accounts[a].state = "none"
                     /\ accounts' = [accounts EXCEPT ![a] = row]
                     /\ \/ drawn' = drawn + 2 /\ row = NewAccount(drawn + 1, drawn + 2, "no")
                        \/ drawn' = drawn + 1 /\ row = NewAccount(0, drawn + 1, "yes")
                     /\ UNCHANGED <<copies, spent, retired, stale>>
      BY <2>1 DEF Register, SocialSignUp, Drawn
    <3>2. /\ row \in AccountRows /\ row.state = "live" /\ drawn' \in Nat /\ drawn <= drawn'
          /\ row.password <= drawn' /\ row.key <= drawn'
      BY <2>t, <3>1 DEF AccountsTypeOK, NewAccount, AccountRows
    <3>3. QED
      BY <1>2, <2>t, <3>1, <3>2, SignUpKeeps
  <2>2. ASSUME NEW a \in Admins, \/ SignIn(a) \/ MailToken(a) \/ Notice(a) \/ DeleteInactive(a)
                                 \/ \E q \in Requests : Authenticate(q, a)
        PROVE  SecretsInv'
    <3>1. UNCHANGED <<drawn, spent, retired, stale>>
      BY <2>2 DEF SignIn, MailToken, Notice, DeleteInactive, Authenticate
    <3>2. \A b \in Admins : /\ accounts'[b].password = accounts[b].password
                            /\ accounts'[b].key = accounts[b].key
                            /\ accounts'[b].state = "none" => accounts[b].state = "none"
      BY <2>t, <2>2 DEF AccountsTypeOK, AccountRows, SignIn, MailToken, Notice, DeleteInactive, Authenticate
    <3>3. \A q \in Requests :
               \/ copies'[q] = copies[q]
               \/ /\ copies'[q].of = a /\ copies'[q].row = accounts[a]
                  /\ accounts[a].state # "none"
      BY <2>t, <2>2 DEF AccountsTypeOK, SignIn, MailToken, Notice, DeleteInactive, Authenticate, Alive
    <3>4. QED
      BY <1>2, <2>t, <3>1, <3>2, <3>3, QuietAccounts
  <2>3. ASSUME NEW t \in mails, Activate(t) \/ \E q \in Requests : ReadToken(q, t)
        PROVE  SecretsInv'
    <3>0. t.of \in Admins
      BY <2>t DEF AccountsTypeOK, Tokens
    <3>1. UNCHANGED <<drawn, spent, retired, stale>>
      BY <2>3 DEF Activate, ReadToken
    <3>2. \A b \in Admins : /\ accounts'[b].password = accounts[b].password
                            /\ accounts'[b].key = accounts[b].key
                            /\ accounts'[b].state = "none" => accounts[b].state = "none"
      BY <2>t, <2>3, <3>0 DEF AccountsTypeOK, AccountRows, Activate, ReadToken
    <3>3. \A q \in Requests :
               \/ copies'[q] = copies[q]
               \/ /\ copies'[q].of = t.of /\ copies'[q].row = accounts[t.of]
                  /\ accounts[t.of].state # "none"
      BY <2>t, <2>3 DEF AccountsTypeOK, Activate, ReadToken, GoodToken, Alive
    <3>4. QED
      BY <1>2, <2>t, <3>0, <3>1, <3>2, <3>3, QuietAccounts
  <2>4. ASSUME NEW q \in Requests, UpdateAccount(q) PROVE SecretsInv'
    <3>1. PICK row : /\ Save(q, row) /\ copies[q].for = "account"
                     /\ row = copies[q].row \/ row = [copies[q].row EXCEPT !.active = "no"]
                     /\ UNCHANGED <<drawn, spent, retired>>
      BY <2>4 DEF UpdateAccount
    <3>2. /\ row \in AccountRows /\ row.state = copies[q].row.state
          /\ row.password = copies[q].row.password /\ row.key = copies[q].row.key
      BY <2>t, <3>1 DEF AccountsTypeOK, AccountRows
    <3>3. QED
      BY <1>2, <2>t, <3>1, <3>2, SaveKeeps
  <2>5. ASSUME NEW q \in Requests, ResetKey(q) PROVE SecretsInv'
    <3> DEFINE row == [copies[q].row EXCEPT !.key = drawn + 1]
    <3>0. copies[q].row \in AccountRows /\ drawn \in Nat
      BY <2>t DEF AccountsTypeOK
    <3>1. /\ Save(q, row) /\ copies[q].for = "account" /\ drawn' = drawn + 1 /\ spent' = spent
          /\ retired' = retired \cup {[of |-> copies[q].of, key |-> copies[q].row.key]}
      BY <2>5 DEF ResetKey, ReplacedKey, Drawn
    <3>2. /\ row \in AccountRows /\ row.state = copies[q].row.state
          /\ row.password = copies[q].row.password /\ row.key = drawn + 1 /\ drawn + 1 # drawn
      BY <3>0 DEF AccountRows
    <3> HIDE DEF row
    <3>3. QED
      BY <1>2, <2>t, <3>1, <3>2, SaveKeeps
  <2>6. ASSUME NEW q \in Requests, SetPassword(q) \/ ConfirmReset(q) PROVE SecretsInv'
    <3> DEFINE row == [copies[q].row EXCEPT !.password = drawn + 1]
    <3>0. copies[q].row \in AccountRows /\ drawn \in Nat
      BY <2>t DEF AccountsTypeOK
    <3>1. /\ Save(q, row) /\ copies[q].for # "nothing" /\ drawn' = drawn + 1 /\ retired' = retired
          /\ spent' = spent \/ spent' = spent \cup {TokenOf(copies[q].of, copies[q].row)}
      BY <2>6 DEF SetPassword, ConfirmReset, Drawn
    <3>2. /\ row \in AccountRows /\ row.state = copies[q].row.state
          /\ row.key = copies[q].row.key /\ row.password = drawn + 1 /\ drawn + 1 # drawn
      BY <3>0 DEF AccountRows
    <3> HIDE DEF row
    <3>3. QED
      BY <1>2, <2>t, <3>1, <3>2, SaveKeeps
  <2>7. ASSUME (\E q \in Requests : Leave(q)) \/ ListInactive \/ UNCHANGED accountsVars
        PROVE  SecretsInv'
    <3>1. UNCHANGED <<accounts, drawn, spent, retired, stale>>
      BY <2>7 DEF Leave, ListInactive, accountsVars
    <3>2. \A q \in Requests : copies'[q] = copies[q] \/ copies'[q] = Idle
      BY <2>t, <2>7 DEF AccountsTypeOK, Leave, ListInactive, accountsVars
    <3>3. QED
      BY <1>2, <2>t, <3>1, <3>2, QuietAccounts
  <2>8. QED
    BY <1>2, <2>1, <2>2, <2>3, <2>4, <2>5, <2>6, <2>7 DEF AccountsNext
<1>3. SecretsInv => OldSecretsDie
  BY DEF SecretsInv
<1>4. QED
  BY <1>1, <1>2, <1>3, PTL DEF AccountsSpec

(* Instances, deletions, restores *)

PlaceRows == [state : {"none", "live", "dead"}, place : Nat]
RestoreRows ==
    [of : Rows \cup {0}, from : Backups \cup {Nobody}, run : {"idle", "queued", "read", "built", "over"},
     copy : PlaceRows, temp : Nat]

TenancyTypeOK ==
    /\ instances \in [Rows -> PlaceRows]
    /\ used \subseteq Rows /\ schemas \subseteq used /\ files \subseteq used /\ fileTasks \subseteq used
    /\ restores \in [Restores -> RestoreRows]
    /\ raced \in {"yes", "no"} /\ mishaps \in Nat

There(i) == instances[i].state # "none"
Held(r) == restores[r].run \in {"read", "built"}
Built(r) == restores[r].run = "built"

\* A row that is there was made with a key, in a place that was.
RowSound(i) == There(i) => i \in used /\ instances[i].place \in used

\* What a restore works on at each of its steps; the second instance is nobody's but its own.
RestoreSound(r) ==
    /\ restores[r].run \in {"queued", "read", "built"} => restores[r].of \in used
    /\ restores[r].run = "queued" => There(restores[r].of)
    /\ Held(r) => restores[r].copy.state # "none" /\ restores[r].copy.place \in used
    /\ Built(r) => /\ restores[r].temp \in used /\ ~There(restores[r].temp)
                   /\ restores[r].temp \in schemas /\ restores[r].temp \in files /\ restores[r].temp \notin fileTasks
                   /\ \A i \in Rows : There(i) => instances[i].place # restores[r].temp

\* Two restores never share a second instance, and none works on another's.
TempsApart(q, r) ==
    Built(r) => /\ Held(q) => restores[q].copy.place # restores[r].temp
                /\ restores[q].run \in {"queued", "read", "built"} => restores[q].of # restores[r].temp
                /\ Built(q) /\ q # r => restores[q].temp # restores[r].temp

\* The place of a live row is no other row's, and no other row's restore will give it away.
LiveApart(i) ==
    instances[i].state = "live" =>
        /\ \A j \in Rows : j # i /\ There(j) => instances[j].place # instances[i].place
        /\ \A r \in Restores : Held(r) /\ restores[r].of # i => restores[r].copy.place # instances[i].place

\* As long as nothing failed and no row changed under a restore.
CalmRow(i) == \A j \in Rows : j # i /\ There(i) /\ There(j) => instances[j].place # instances[i].place
CalmRestore(r) ==
    Held(r) => /\ restores[r].copy = instances[restores[r].of]
               /\ \A q \in Restores : Held(q) /\ q # r => restores[q].of # restores[r].of
CalmPlace(p) ==
    p \in schemas => \/ \E i \in Rows : There(i) /\ instances[i].place = p
                     \/ \E r \in Restores : Built(r) /\ restores[r].temp = p
Calm ==
    mishaps = 0 /\ raced = "no" =>
        (\A i \in Rows : CalmRow(i)) /\ (\A r \in Restores : CalmRestore(r)) /\ (\A p \in Rows : CalmPlace(p))

TenancyInv ==
    /\ TenancyTypeOK
    /\ \A i \in Rows : RowSound(i) /\ LiveApart(i)
    /\ \A r \in Restores : RestoreSound(r)
    /\ \A q, r \in Restores : TempsApart(q, r)
    /\ LiveHasPlace
    /\ Calm

\* The sequence gives out a key that is new.
LEMMA KeyIsNew == ASSUME used \subseteq Rows, used # Rows PROVE NextKey \in Rows \ used
  <1> DEFINE T == Rows \ used
  <1>1. T \subseteq Nat /\ T # {}
    BY TenancyAssumption
  <1>2. \E x \in T : \A y \in T : ~(<<y, x>> \in OpToRel(<, Nat))
    BY <1>1, NatLessThanWellFounded, WFMin
  <1>3. PICK x \in T : \A y \in T : ~(<<y, x>> \in OpToRel(<, Nat))
    BY <1>2
  <1>4. \A y \in T : ~(y < x)
    BY <1>1, <1>3 DEF OpToRel
  <1>5. \A y \in T : x <= y
    BY <1>1, <1>4
  <1> QED  BY <1>5 DEF NextKey

\* The invariant holds before there is an instance.
LEMMA TenancyStart == TenancyInit => TenancyInv
  <1> SUFFICES ASSUME TenancyInit PROVE TenancyInv
    OBVIOUS
  <1>1. NoRow \in PlaceRows /\ NoRow.state = "none"
    BY DEF NoRow, PlaceRows
  <1>2. NoRestore \in RestoreRows /\ NoRestore.run = "idle"
    BY <1>1 DEF NoRestore, RestoreRows
  <1>3. \A i \in Rows : instances[i] = NoRow
    BY DEF TenancyInit
  <1>4. \A r \in Restores : restores[r] = NoRestore
    BY DEF TenancyInit
  <1>5. TenancyTypeOK
    BY <1>1, <1>2 DEF TenancyInit, TenancyTypeOK
  <1>6. \A i \in Rows : ~There(i) /\ instances[i].state # "live"
    BY <1>1, <1>3 DEF There
  <1>7. \A r \in Restores : restores[r].run = "idle" /\ ~Held(r) /\ ~Built(r)
    BY <1>2, <1>4 DEF Held, Built
  <1>8. schemas = {}
    BY DEF TenancyInit
  <1> QED  BY <1>5, <1>6, <1>7, <1>8
        DEF TenancyInv, RowSound, LiveApart, RestoreSound, TempsApart, LiveHasPlace, Live, Calm, CalmRow, CalmRestore, CalmPlace

\* The invariant after a step, part by part.
LEMMA TenancyJoin ==
  ASSUME TenancyTypeOK', \A i \in Rows : RowSound(i)' /\ LiveApart(i)', \A r \in Restores : RestoreSound(r)',
         \A q, r \in Restores : TempsApart(q, r)', LiveHasPlace', Calm'
  PROVE  TenancyInv'
  BY DEF TenancyInv

\* Steps that leave rows and places alone, and at most break off a restore that waits.
LEMMA QuietKeeps ==
  ASSUME TenancyInv, UNCHANGED <<instances, used, schemas, files, fileTasks, raced, broken>>,
         restores' \in [Restores -> RestoreRows],
         \A r \in Restores : restores'[r] = restores[r] \/ (restores'[r].run = "over" /\ (~Built(r) \/ mishaps' > 0)),
         mishaps' \in Nat, mishaps' >= mishaps
  PROVE  TenancyInv'
  <1>1. TenancyTypeOK'
    BY DEF TenancyInv, TenancyTypeOK
  <1>2. \A r \in Restores : restores'[r].run # "over" => restores'[r] = restores[r]
    OBVIOUS
  <1>3. \A i \in Rows : RowSound(i)' /\ LiveApart(i)'
    BY <1>2 DEF TenancyInv, RowSound, LiveApart, There, Held
  <1>4. \A r \in Restores : RestoreSound(r)'
    BY <1>2 DEF TenancyInv, RestoreSound, There, Held, Built
  <1>5. \A q, r \in Restores : TempsApart(q, r)'
    BY <1>2 DEF TenancyInv, TempsApart, Held, Built
  <1>6. LiveHasPlace'
    BY DEF TenancyInv, LiveHasPlace, Live
  <1>7. Calm'
    <2> SUFFICES ASSUME mishaps' = 0, raced' = "no"
                 PROVE  /\ \A i \in Rows : CalmRow(i)' /\ CalmPlace(i)'
                        /\ \A r \in Restores : CalmRestore(r)'
      BY DEF Calm
    <2>1. mishaps = 0 /\ raced = "no"
      BY DEF TenancyInv, TenancyTypeOK
    <2>2. \A i \in Rows : CalmRow(i) /\ CalmPlace(i)
      BY <2>1 DEF TenancyInv, Calm
    <2>3. \A r \in Restores : CalmRestore(r)
      BY <2>1 DEF TenancyInv, Calm
    <2>4. \A r \in Restores : Built(r) => restores'[r] = restores[r]
      OBVIOUS
    <2>5. ASSUME NEW p \in Rows PROVE CalmPlace(p)'
      BY <2>2, <2>4 DEF CalmPlace, There, Built
    <2>6. ASSUME NEW i \in Rows PROVE CalmRow(i)'
      BY <2>2 DEF CalmRow, There
    <2>7. ASSUME NEW r \in Restores PROVE CalmRestore(r)'
      BY <1>2, <2>3 DEF CalmRestore, Held
    <2> QED  BY <2>5, <2>6, <2>7
  <1> QED  BY <1>1, <1>3, <1>4, <1>5, <1>6, <1>7, TenancyJoin

\* A new row in a new place.
LEMMA CreateInstanceKeeps == ASSUME TenancyInv, CreateInstance PROVE TenancyInv'
  <1>0. PICK k \in Rows : k = NextKey /\ k \notin used
    BY KeyIsNew DEF TenancyInv, TenancyTypeOK, CreateInstance
  <1>1. k \in Rows /\ k \notin used /\ k \in Nat
    BY <1>0, TenancyAssumption
  <1>2. /\ used' = used \cup {k} /\ schemas' = schemas \cup {k}
        /\ UNCHANGED <<fileTasks, restores, raced, broken>>
    BY <1>0 DEF CreateInstance
  <1>t. TenancyTypeOK /\ \A i \in Rows : RowSound(i) /\ LiveApart(i)
    BY DEF TenancyInv
  <1>r. (\A r \in Restores : RestoreSound(r)) /\ \A q, r \in Restores : TempsApart(q, r)
    BY DEF TenancyInv
  <1>3. ~There(k)
    BY <1>t, <1>1 DEF RowSound
  <1>4. CASE /\ instances' = [instances EXCEPT ![k] = [state |-> "live", place |-> k]]
             /\ files' = files \cup {k} /\ mishaps' = mishaps
    <2>1. [state |-> "live", place |-> k] \in PlaceRows
      BY <1>1 DEF PlaceRows
    <2>2. TenancyTypeOK'
      BY <1>t, <1>1, <1>2, <1>4, <2>1 DEF TenancyTypeOK
    <2>3. /\ instances'[k].state = "live" /\ instances'[k].place = k
          /\ \A i \in Rows : i # k => instances'[i] = instances[i]
      BY <1>t, <1>1, <1>4 DEF TenancyTypeOK
    <2>4. /\ There(k)'
          /\ \A i \in Rows : i # k => (There(i)' <=> There(i))
      BY <2>3 DEF There
    <2>5. \A i \in Rows : RowSound(i)' /\ LiveApart(i)'
      <3> SUFFICES ASSUME NEW i \in Rows PROVE RowSound(i)' /\ LiveApart(i)'
        OBVIOUS
      <3>1. RowSound(i)'
        BY <1>t, <1>2, <2>3, <2>4 DEF RowSound
      <3>2. \A j \in Rows : There(j) => instances[j].place # k
        BY <1>t, <1>1 DEF RowSound
      <3>3. \A r \in Restores : Held(r) => restores[r].copy.place # k
        BY <1>r, <1>1 DEF RestoreSound
      <3>4. \A r \in Restores : Held(r)' <=> Held(r)
        BY <1>2 DEF Held
      <3>5. LiveApart(i)'
        BY <1>t, <1>2, <2>3, <2>4, <3>2, <3>3, <3>4 DEF LiveApart, There
      <3> QED  BY <3>1, <3>5
    <2>6. \A r \in Restores : RestoreSound(r)'
      <3> SUFFICES ASSUME NEW r \in Restores PROVE RestoreSound(r)'
        OBVIOUS
      <3>1. used \subseteq Rows /\ RestoreSound(r)
        BY <1>t, <1>r DEF TenancyTypeOK
      <3>2. /\ restores[r].run = "queued" => There(restores[r].of)'
            /\ Built(r) => ~There(restores[r].temp)'
        BY <1>1, <1>2, <2>3, <3>1 DEF RestoreSound, There, Built
      <3>3. k \notin fileTasks /\ \A i \in Rows : There(i)' => i = k \/ There(i)
        BY <1>t, <1>1, <2>4 DEF TenancyTypeOK
      <3> QED  BY <1>1, <1>2, <1>4, <2>3, <3>1, <3>2, <3>3 DEF RestoreSound, Held, Built
    <2>7. \A q, r \in Restores : TempsApart(q, r)'
      BY <1>r, <1>2 DEF TempsApart, Held, Built
    <2>8. LiveHasPlace'
      <3>1. \A i \in Rows : instances[i].state = "live" /\ i \notin broken =>
                 instances[i].place \in schemas /\ instances[i].place \in files /\ instances[i].place \notin fileTasks
        BY DEF TenancyInv, LiveHasPlace, Live
      <3>2. k \notin fileTasks
        BY <1>t, <1>1 DEF TenancyTypeOK
      <3> QED  BY <1>2, <1>4, <2>3, <3>1, <3>2 DEF LiveHasPlace, Live
    <2>9. Calm'
      <3> SUFFICES ASSUME mishaps = 0, raced = "no"
                   PROVE  /\ \A i \in Rows : CalmRow(i)' /\ CalmPlace(i)'
                          /\ \A r \in Restores : CalmRestore(r)'
        BY <1>2, <1>4 DEF Calm
      <3>1. \A i \in Rows : CalmRow(i) /\ CalmPlace(i)
        BY DEF TenancyInv, Calm
      <3>2. \A r \in Restores : CalmRestore(r)
        BY DEF TenancyInv, Calm
      <3>3. \A j \in Rows : There(j) => instances[j].place # k
        BY <1>t, <1>1 DEF RowSound
      <3>4. ASSUME NEW i \in Rows PROVE CalmRow(i)'
        BY <2>3, <2>4, <3>1, <3>3 DEF CalmRow
      <3>5. ASSUME NEW i \in Rows PROVE CalmPlace(i)'
        BY <1>1, <1>2, <1>3, <2>3, <2>4, <3>1 DEF CalmPlace, Built
      <3>6. ASSUME NEW r \in Restores PROVE CalmRestore(r)'
        <4>1. Held(r) => restores[r].of \in used
          BY <1>r DEF RestoreSound, Held
        <4>2. Held(r) => restores[r].of # k /\ restores[r].of \in Rows
          BY <1>t, <1>1, <4>1 DEF TenancyTypeOK
        <4> QED  BY <1>2, <2>3, <3>2, <4>2 DEF CalmRestore, Held
      <3> QED  BY <3>4, <3>5, <3>6
    <2> QED  BY <2>2, <2>5, <2>6, <2>7, <2>8, <2>9, TenancyJoin
  <1>5. CASE mishaps' = mishaps + 1 /\ UNCHANGED <<instances, files>>
    <2>1. TenancyTypeOK' /\ mishaps' # 0
      BY <1>t, <1>1, <1>2, <1>5 DEF TenancyTypeOK
    <2>2. \A i \in Rows : RowSound(i)' /\ LiveApart(i)'
      BY <1>t, <1>2, <1>5 DEF RowSound, LiveApart, There, Held
    <2>3. \A r \in Restores : RestoreSound(r)'
      BY <1>r, <1>2, <1>5 DEF RestoreSound, There, Held, Built
    <2>4. \A q, r \in Restores : TempsApart(q, r)'
      BY <1>r, <1>2 DEF TempsApart, Held, Built
    <2>5. LiveHasPlace'
      BY <1>2, <1>5 DEF TenancyInv, LiveHasPlace, Live
    <2>6. Calm'
      BY <2>1 DEF Calm
    <2> QED  BY <2>1, <2>2, <2>3, <2>4, <2>5, <2>6, TenancyJoin
  <1> QED  BY <1>0, <1>4, <1>5 DEF CreateInstance, Mishap

\* An instance is marked as deleted.
LEMMA DeleteInstanceKeeps == ASSUME TenancyInv, NEW k \in Rows, DeleteInstance(k) PROVE TenancyInv'
  <1>t. TenancyTypeOK /\ \A i \in Rows : RowSound(i) /\ LiveApart(i)
    BY DEF TenancyInv
  <1>r. (\A r \in Restores : RestoreSound(r)) /\ \A q, r \in Restores : TempsApart(q, r)
    BY DEF TenancyInv
  <1>1. /\ instances[k].state = "live" /\ UNCHANGED <<used, schemas, files, fileTasks, restores, broken, mishaps>>
        /\ instances' = [instances EXCEPT ![k].state = "dead"]
        /\ raced' = IF k \in HeldCopies THEN "yes" ELSE raced
    BY DEF DeleteInstance, Live, Touch
  <1>2. /\ instances' \in [Rows -> PlaceRows]
        /\ instances'[k].state = "dead" /\ instances'[k].place = instances[k].place
        /\ \A i \in Rows : i # k => instances'[i] = instances[i]
    BY <1>t, <1>1 DEF TenancyTypeOK, PlaceRows
  <1>3. \A i \in Rows : /\ There(i)' <=> There(i)
                        /\ instances'[i].place = instances[i].place
                        /\ instances'[i].state = "live" => instances[i].state = "live"
    BY <1>1, <1>2 DEF There
  <1>4. TenancyTypeOK'
    BY <1>t, <1>1, <1>2 DEF TenancyTypeOK
  <1>5. \A i \in Rows : RowSound(i)' /\ LiveApart(i)'
    BY <1>t, <1>1, <1>3 DEF RowSound, LiveApart, Held
  <1>6. \A r \in Restores : restores[r].of \in Rows => (There(restores[r].of)' <=> There(restores[r].of))
    BY <1>1, <1>2 DEF There
  <1>7. \A r \in Restores : RestoreSound(r)'
    <2> SUFFICES ASSUME NEW r \in Restores PROVE RestoreSound(r)'
      OBVIOUS
    <2>1. used \subseteq Rows
      BY <1>t DEF TenancyTypeOK
    <2>2. Built(r) => (There(restores[r].temp)' <=> There(restores[r].temp))
      BY <1>1, <1>2, <1>r, <2>1 DEF RestoreSound, There
    <2> QED  BY <1>r, <1>1, <1>3, <1>6, <2>1, <2>2 DEF RestoreSound, Held, Built, There
  <1>8. \A q, r \in Restores : TempsApart(q, r)'
    BY <1>r, <1>1 DEF TempsApart, Held, Built
  <1>9. LiveHasPlace'
    BY <1>1, <1>3 DEF TenancyInv, LiveHasPlace, Live
  <1>10. Calm'
    <2> SUFFICES ASSUME mishaps = 0, raced' = "no"
                 PROVE  /\ \A i \in Rows : CalmRow(i)' /\ CalmPlace(i)'
                        /\ \A r \in Restores : CalmRestore(r)'
      BY <1>1 DEF Calm
    <2>1. raced = "no" /\ k \notin HeldCopies
      BY <1>1
    <2>2. \A i \in Rows : CalmRow(i) /\ CalmPlace(i)
      BY <2>1 DEF TenancyInv, Calm
    <2>3. \A r \in Restores : CalmRestore(r)
      BY <2>1 DEF TenancyInv, Calm
    <2>4. \A r \in Restores : Held(r) => restores[r].of # k /\ restores[r].of \in Rows
      BY <1>t, <1>r, <2>1 DEF HeldCopies, Held, RestoreSound, TenancyTypeOK
    <2>5. ASSUME NEW r \in Restores PROVE CalmRestore(r)'
      BY <1>1, <1>2, <2>3, <2>4 DEF CalmRestore, Held
    <2>6. ASSUME NEW i \in Rows PROVE CalmRow(i)' /\ CalmPlace(i)'
      BY <1>1, <1>3, <2>2 DEF CalmRow, CalmPlace, Built
    <2> QED  BY <2>5, <2>6
  <1> QED  BY <1>4, <1>5, <1>7, <1>8, <1>9, <1>10, TenancyJoin

\* A row is deleted with its schema; its files will be.
LEMMA HardDeleteKeeps ==
  ASSUME TenancyInv, NEW k \in Rows, There(k), HardDelete(k), UNCHANGED <<used, files, broken, mishaps>>
  PROVE  TenancyInv'
  <1>t. TenancyTypeOK /\ \A i \in Rows : RowSound(i) /\ LiveApart(i)
    BY DEF TenancyInv
  <1>r. (\A r \in Restores : RestoreSound(r)) /\ \A q, r \in Restores : TempsApart(q, r)
    BY DEF TenancyInv
  <1>0. PICK p \in used : p = instances[k].place
    BY <1>t DEF RowSound
  <1>1. /\ schemas' = schemas \ {p} /\ fileTasks' = fileTasks \cup {p}
        /\ instances' = [instances EXCEPT ![k] = NoRow]
        /\ raced' = IF k \in HeldCopies THEN "yes" ELSE raced
    BY <1>0 DEF HardDelete, Touch, PlaceOf
  <1>2. NoRow \in PlaceRows /\ NoRow.state = "none"
    BY DEF NoRow, PlaceRows
  <1>3. Over \in RestoreRows /\ Over.run = "over"
    BY <1>2 DEF Over, NoRestore, RestoreRows
  <1>4. /\ instances' \in [Rows -> PlaceRows] /\ instances'[k].state = "none"
        /\ \A i \in Rows : i # k => instances'[i] = instances[i]
    BY <1>t, <1>1, <1>2 DEF TenancyTypeOK
  <1>5. restores' = [r \in Restores |-> IF restores[r].of = k /\ restores[r].run = "queued" THEN Over ELSE restores[r]]
    BY DEF HardDelete
  <1>6. /\ restores' \in [Restores -> RestoreRows]
        /\ \A r \in Restores : \/ restores'[r] = restores[r] /\ ~(restores[r].of = k /\ restores[r].run = "queued")
                               \/ restores'[r].run = "over" /\ restores[r].run = "queued"
    BY <1>t, <1>3, <1>5 DEF TenancyTypeOK
  <1>7. /\ ~There(k)'
        /\ \A i \in Rows : There(i)' <=> (There(i) /\ i # k)
    BY <1>4 DEF There
  <1>8. \A r \in Restores : /\ Held(r)' <=> Held(r)
                            /\ Built(r)' <=> Built(r)
                            /\ Held(r) => restores'[r] = restores[r]
                            /\ restores'[r].run = "queued" => restores'[r] = restores[r] /\ restores[r].of # k
    BY <1>6 DEF Held, Built
  <1>9. TenancyTypeOK'
    BY <1>t, <1>0, <1>1, <1>4, <1>6 DEF TenancyTypeOK
  <1>10. \A i \in Rows : RowSound(i)' /\ LiveApart(i)'
    BY <1>t, <1>4, <1>7, <1>8 DEF RowSound, LiveApart
  <1>11. \A r \in Restores : RestoreSound(r)'
    <2> SUFFICES ASSUME NEW r \in Restores PROVE RestoreSound(r)'
      OBVIOUS
    <2>1. used \subseteq Rows /\ RestoreSound(r)
      BY <1>t, <1>r DEF TenancyTypeOK
    <2>2. CASE restores'[r].run = "over"
      BY <2>2 DEF RestoreSound, Held, Built
    <2>3. CASE restores'[r] = restores[r]
      <3>1. /\ restores[r].run = "queued" => There(restores[r].of)'
            /\ Built(r) => ~There(restores[r].temp)'
        BY <1>4, <1>8, <2>1, <2>3 DEF RestoreSound, There, Built
      <3>2. Built(r) => restores[r].temp # p
        BY <1>0, <2>1 DEF RestoreSound
      <3> QED  BY <1>1, <1>4, <1>7, <1>8, <2>1, <2>3, <3>1, <3>2 DEF RestoreSound, Held, Built
    <2> QED  BY <1>6, <2>2, <2>3
  <1>12. \A q, r \in Restores : TempsApart(q, r)'
    <2> SUFFICES ASSUME NEW q \in Restores, NEW r \in Restores PROVE TempsApart(q, r)'
      OBVIOUS
    <2>1. TempsApart(q, r)
      BY <1>r
    <2> QED  BY <1>6, <1>8, <2>1 DEF TempsApart, Held, Built
  <1>13. LiveHasPlace'
    <2>1. \A i \in Rows : instances[i].state = "live" /\ i \notin broken =>
               instances[i].place \in schemas /\ instances[i].place \in files /\ instances[i].place \notin fileTasks
      BY DEF TenancyInv, LiveHasPlace, Live
    <2>2. \A i \in Rows : instances[i].state = "live" /\ i # k => instances[i].place # p
      BY <1>t, <1>0 DEF LiveApart
    <2> QED  BY <1>1, <1>4, <2>1, <2>2 DEF LiveHasPlace, Live
  <1>14. Calm'
    <2> SUFFICES ASSUME mishaps = 0, raced' = "no"
                 PROVE  /\ \A i \in Rows : CalmRow(i)' /\ CalmPlace(i)'
                        /\ \A r \in Restores : CalmRestore(r)'
      BY DEF Calm
    <2>1. raced = "no" /\ k \notin HeldCopies
      BY <1>1
    <2>2. \A i \in Rows : CalmRow(i) /\ CalmPlace(i)
      BY <2>1 DEF TenancyInv, Calm
    <2>3. \A r \in Restores : CalmRestore(r)
      BY <2>1 DEF TenancyInv, Calm
    <2>4. \A r \in Restores : Held(r) => restores[r].of # k /\ restores[r].of \in Rows
      BY <1>t, <1>r, <2>1 DEF HeldCopies, Held, RestoreSound, TenancyTypeOK
    <2>5. ASSUME NEW r \in Restores PROVE CalmRestore(r)'
      <3>1. CalmRestore(r)
        BY <2>3
      <3> QED  BY <1>4, <1>8, <2>4, <3>1 DEF CalmRestore
    <2>6. ASSUME NEW i \in Rows PROVE CalmRow(i)'
      BY <1>4, <1>7, <2>2 DEF CalmRow
    <2>7. ASSUME NEW i \in Rows PROVE CalmPlace(i)'
      <3> SUFFICES ASSUME i \in schemas, i # p
                   PROVE  \/ \E j \in Rows : There(j)' /\ instances'[j].place = i
                          \/ \E r \in Restores : Built(r)' /\ restores'[r].temp = i
        BY <1>1 DEF CalmPlace
      <3>1. \/ \E j \in Rows : There(j) /\ instances[j].place = i
            \/ \E r \in Restores : Built(r) /\ restores[r].temp = i
        BY <2>2 DEF CalmPlace
      <3>2. \A r \in Restores : Built(r) => Built(r)' /\ restores'[r] = restores[r]
        BY <1>8 DEF Held, Built
      <3> QED  BY <1>0, <1>4, <1>7, <3>1, <3>2
    <2> QED  BY <2>5, <2>6, <2>7
  <1> QED  BY <1>9, <1>10, <1>11, <1>12, <1>13, <1>14, TenancyJoin

\* The schema goes and the row stays.
LEMMA BrokenDeleteKeeps ==
  ASSUME TenancyInv, NEW k \in Rows, There(k), schemas' = schemas \ {PlaceOf(k)}, fileTasks' = fileTasks \cup {PlaceOf(k)},
         broken' = broken \cup {k}, mishaps' = mishaps + 1, UNCHANGED <<instances, used, files, restores, raced>>
  PROVE  TenancyInv'
  <1>t. TenancyTypeOK /\ \A i \in Rows : RowSound(i) /\ LiveApart(i)
    BY DEF TenancyInv
  <1>0. PICK p \in used : p = instances[k].place
    BY <1>t DEF RowSound
  <1>1. /\ schemas' = schemas \ {p} /\ fileTasks' = fileTasks \cup {p}
    BY <1>0 DEF PlaceOf
  <1>2. TenancyTypeOK' /\ mishaps' # 0
    BY <1>t, <1>0, <1>1 DEF TenancyTypeOK
  <1>3. \A i \in Rows : RowSound(i)' /\ LiveApart(i)'
    BY <1>t DEF RowSound, LiveApart, There, Held
  <1>4. \A r \in Restores : RestoreSound(r)'
    <2> SUFFICES ASSUME NEW r \in Restores PROVE RestoreSound(r)'
      OBVIOUS
    <2>1. RestoreSound(r)
      BY DEF TenancyInv
    <2>2. Built(r) => restores[r].temp # p
      BY <1>0, <2>1 DEF RestoreSound
    <2> QED  BY <1>1, <2>1, <2>2 DEF RestoreSound, There, Held, Built
  <1>5. \A q, r \in Restores : TempsApart(q, r)'
    BY DEF TenancyInv, TempsApart, Held, Built
  <1>6. LiveHasPlace'
    <2>1. \A i \in Rows : instances[i].state = "live" /\ i \notin broken =>
               instances[i].place \in schemas /\ instances[i].place \in files /\ instances[i].place \notin fileTasks
      BY DEF TenancyInv, LiveHasPlace, Live
    <2>2. \A i \in Rows : instances[i].state = "live" /\ i # k => instances[i].place # p
      BY <1>t, <1>0 DEF LiveApart
    <2> QED  BY <1>1, <2>1, <2>2 DEF LiveHasPlace, Live
  <1>7. Calm'
    BY <1>2 DEF Calm
  <1> QED  BY <1>2, <1>3, <1>4, <1>5, <1>6, <1>7, TenancyJoin

\* The files of a deleted row go.
LEMMA DeleteFilesKeeps == ASSUME TenancyInv, NEW p \in Rows, DeleteFiles(p) PROVE TenancyInv'
  <1>t. TenancyTypeOK /\ \A i \in Rows : RowSound(i) /\ LiveApart(i)
    BY DEF TenancyInv
  <1>1. /\ p \in fileTasks /\ fileTasks' = fileTasks \ {p} /\ files' = files \ {p}
        /\ UNCHANGED <<instances, used, schemas, restores, raced, broken, mishaps>>
    BY DEF DeleteFiles
  <1>2. TenancyTypeOK'
    BY <1>t, <1>1 DEF TenancyTypeOK
  <1>3. \A i \in Rows : RowSound(i)' /\ LiveApart(i)'
    BY <1>t, <1>1 DEF RowSound, LiveApart, There, Held
  <1>4. \A r \in Restores : RestoreSound(r)'
    BY <1>1 DEF TenancyInv, RestoreSound, There, Held, Built
  <1>5. \A q, r \in Restores : TempsApart(q, r)'
    BY <1>1 DEF TenancyInv, TempsApart, Held, Built
  <1>6. LiveHasPlace'
    BY <1>1 DEF TenancyInv, LiveHasPlace, Live
  <1>7. Calm'
    BY <1>1 DEF TenancyInv, Calm, CalmRow, CalmRestore, CalmPlace, There, Held, Built
  <1> QED  BY <1>2, <1>3, <1>4, <1>5, <1>6, <1>7, TenancyJoin

\* A restore is asked for.
LEMMA CreateRestoreKeeps ==
  ASSUME TenancyInv, NEW r \in Restores, NEW k \in Rows, NEW b \in Backups, CreateRestore(r, k, b)
  PROVE  TenancyInv'
  <1>t. TenancyTypeOK /\ \A i \in Rows : RowSound(i) /\ LiveApart(i)
    BY DEF TenancyInv
  <1>r. (\A q \in Restores : RestoreSound(q)) /\ \A q, s \in Restores : TempsApart(q, s)
    BY DEF TenancyInv
  <1> DEFINE row == [NoRestore EXCEPT !.of = k, !.from = b, !.run = "queued"]
  <1>1. /\ restores[r] = NoRestore /\ There(k) /\ restores' = [restores EXCEPT ![r] = row]
        /\ UNCHANGED <<instances, used, schemas, files, fileTasks, raced, broken, mishaps>>
    BY DEF CreateRestore, Live, There
  <1>2. row \in RestoreRows /\ row.run = "queued" /\ row.of = k
    BY DEF NoRestore, NoRow, RestoreRows, PlaceRows
  <1> HIDE DEF row
  <1>3. restores[r].run = "idle"
    BY <1>1 DEF NoRestore
  <1>4. /\ restores' \in [Restores -> RestoreRows] /\ restores'[r].run = "queued" /\ restores'[r].of = k
        /\ \A q \in Restores : q # r => restores'[q] = restores[q]
    BY <1>t, <1>1, <1>2 DEF TenancyTypeOK
  <1>5. \A q \in Restores : /\ Held(q)' <=> Held(q)
                            /\ Built(q)' <=> Built(q)
                            /\ Held(q) => restores'[q] = restores[q]
    BY <1>3, <1>4 DEF Held, Built
  <1>6. TenancyTypeOK'
    BY <1>t, <1>1, <1>4 DEF TenancyTypeOK
  <1>7. \A i \in Rows : RowSound(i)' /\ LiveApart(i)'
    BY <1>t, <1>1, <1>5 DEF RowSound, LiveApart, There
  <1>8. \A q \in Restores : RestoreSound(q)'
    <2> SUFFICES ASSUME NEW q \in Restores PROVE RestoreSound(q)'
      OBVIOUS
    <2>1. CASE q = r
      BY <1>t, <1>1, <1>4, <2>1 DEF RestoreSound, RowSound, Held, Built, There
    <2>2. CASE q # r
      BY <1>r, <1>1, <1>4, <2>2 DEF RestoreSound, Held, Built, There
    <2> QED  BY <2>1, <2>2
  <1>9. \A q, s \in Restores : TempsApart(q, s)'
    <2> SUFFICES ASSUME NEW q \in Restores, NEW s \in Restores, Built(s) PROVE TempsApart(q, s)'
      BY <1>5 DEF TempsApart
    <2>1. restores'[s] = restores[s] /\ restores[s].temp # k
      BY <1>r, <1>1, <1>5 DEF RestoreSound, Held, Built
    <2>2. TempsApart(q, s)
      BY <1>r
    <2>3. CASE q = r
      BY <1>4, <2>1, <2>3 DEF TempsApart, Held, Built
    <2>4. CASE q # r
      BY <1>4, <2>1, <2>2, <2>4 DEF TempsApart, Held, Built
    <2> QED  BY <2>3, <2>4
  <1>10. LiveHasPlace'
    BY <1>1 DEF TenancyInv, LiveHasPlace, Live
  <1>11. Calm'
    <2> SUFFICES ASSUME mishaps = 0, raced = "no"
                 PROVE  /\ \A i \in Rows : CalmRow(i)' /\ CalmPlace(i)'
                        /\ \A q \in Restores : CalmRestore(q)'
      BY <1>1 DEF Calm
    <2>1. /\ \A i \in Rows : CalmRow(i) /\ CalmPlace(i)
          /\ \A q \in Restores : CalmRestore(q)
      BY DEF TenancyInv, Calm
    <2>2. \A q \in Restores : Built(q) => restores'[q] = restores[q]
      BY <1>5 DEF Held, Built
    <2>3. ASSUME NEW i \in Rows PROVE CalmRow(i)' /\ CalmPlace(i)'
      BY <1>1, <1>5, <2>1, <2>2 DEF CalmRow, CalmPlace, There
    <2>4. ASSUME NEW q \in Restores PROVE CalmRestore(q)'
      BY <1>1, <1>5, <2>1 DEF CalmRestore
    <2> QED  BY <2>3, <2>4
  <1> QED  BY <1>6, <1>7, <1>8, <1>9, <1>10, <1>11, TenancyJoin

\* A restore reads the row it works on.
LEMMA StartRestoreKeeps == ASSUME TenancyInv, NEW r \in Restores, StartRestore(r) PROVE TenancyInv'
  <1>t. TenancyTypeOK /\ \A i \in Rows : RowSound(i) /\ LiveApart(i)
    BY DEF TenancyInv
  <1>r. (\A q \in Restores : RestoreSound(q)) /\ \A q, s \in Restores : TempsApart(q, s)
    BY DEF TenancyInv
  <1>0. PICK k \in Rows : k = restores[r].of /\ There(k)
    BY <1>t, <1>r DEF StartRestore, RestoreSound, TenancyTypeOK
  <1>1. /\ restores[r].run = "queued"
        /\ restores' = [restores EXCEPT ![r].run = "read", ![r].copy = instances[k]]
        /\ raced' = (IF k \in HeldCopies THEN "yes" ELSE raced)
        /\ UNCHANGED <<instances, used, schemas, files, fileTasks, broken, mishaps>>
    BY <1>0 DEF StartRestore, Touch
  <1>2. restores[r] \in RestoreRows /\ instances[k] \in PlaceRows
    BY <1>t DEF TenancyTypeOK
  <1>3. /\ restores' \in [Restores -> RestoreRows]
        /\ restores'[r].run = "read" /\ restores'[r].copy = instances[k] /\ restores'[r].of = k
        /\ \A q \in Restores : q # r => restores'[q] = restores[q]
    BY <1>t, <1>0, <1>1, <1>2 DEF TenancyTypeOK, RestoreRows
  <1>4. /\ Held(r)' /\ ~Held(r) /\ ~Built(r) /\ ~Built(r)'
        /\ \A q \in Restores : q # r => (Held(q)' <=> Held(q)) /\ (Built(q)' <=> Built(q))
    BY <1>1, <1>3 DEF Held, Built
  <1>5. instances[k].place \in used /\ k \in used /\ instances[k].state # "none"
    BY <1>t, <1>0 DEF RowSound, There
  <1>6. TenancyTypeOK'
    BY <1>t, <1>1, <1>3 DEF TenancyTypeOK
  <1>7. \A i \in Rows : RowSound(i)' /\ LiveApart(i)'
    <2> SUFFICES ASSUME NEW i \in Rows PROVE RowSound(i)' /\ LiveApart(i)'
      OBVIOUS
    <2>1. RowSound(i)'
      BY <1>t, <1>1 DEF RowSound, There
    <2>2. instances[i].state = "live" /\ k # i => instances[k].place # instances[i].place
      BY <1>t, <1>0 DEF LiveApart
    <2>3. LiveApart(i)'
      BY <1>t, <1>1, <1>3, <1>4, <2>2 DEF LiveApart, There
    <2> QED  BY <2>1, <2>3
  <1>8. \A q \in Restores : RestoreSound(q)'
    <2> SUFFICES ASSUME NEW q \in Restores PROVE RestoreSound(q)'
      OBVIOUS
    <2>1. CASE q = r
      BY <1>1, <1>3, <1>4, <1>5, <2>1 DEF RestoreSound
    <2>2. CASE q # r
      BY <1>r, <1>1, <1>3, <2>2 DEF RestoreSound, Held, Built, There
    <2> QED  BY <2>1, <2>2
  <1>9. \A q, s \in Restores : TempsApart(q, s)'
    <2> SUFFICES ASSUME NEW q \in Restores, NEW s \in Restores, Built(s), s # r PROVE TempsApart(q, s)'
      BY <1>4 DEF TempsApart
    <2>1. restores'[s] = restores[s] /\ restores[s].temp # k /\ restores[s].temp # instances[k].place
      BY <1>0, <1>r, <1>3 DEF RestoreSound
    <2>2. TempsApart(q, s)
      BY <1>r
    <2>3. CASE q = r
      BY <1>3, <1>4, <2>1, <2>3 DEF TempsApart
    <2>4. CASE q # r
      BY <1>3, <2>1, <2>2, <2>4 DEF TempsApart, Held, Built
    <2> QED  BY <2>3, <2>4
  <1>10. LiveHasPlace'
    BY <1>1 DEF TenancyInv, LiveHasPlace, Live
  <1>11. Calm'
    <2> SUFFICES ASSUME mishaps = 0, raced' = "no"
                 PROVE  /\ \A i \in Rows : CalmRow(i)' /\ CalmPlace(i)'
                        /\ \A q \in Restores : CalmRestore(q)'
      BY <1>1 DEF Calm
    <2>0. raced = "no" /\ \A q \in Restores : Held(q) => restores[q].of # k
      BY <1>1 DEF HeldCopies, Held
    <2>1. /\ \A i \in Rows : CalmRow(i) /\ CalmPlace(i)
          /\ \A q \in Restores : CalmRestore(q)
      BY <2>0 DEF TenancyInv, Calm
    <2>2. \A q \in Restores : Built(q) => Built(q)' /\ restores'[q] = restores[q]
      BY <1>3, <1>4
    <2>3. ASSUME NEW i \in Rows PROVE CalmRow(i)' /\ CalmPlace(i)'
      <3>1. CalmRow(i)'
        BY <1>1, <2>1 DEF CalmRow, There
      <3>2. CalmPlace(i)'
        BY <1>1, <2>1, <2>2 DEF CalmPlace, There
      <3> QED  BY <3>1, <3>2
    <2>4. ASSUME NEW q \in Restores PROVE CalmRestore(q)'
      <3>1. CASE q = r
        BY <1>1, <1>3, <1>4, <2>0, <3>1 DEF CalmRestore
      <3>2. CASE q # r
        BY <1>1, <1>3, <1>4, <2>0, <2>1, <3>2 DEF CalmRestore
      <3> QED  BY <3>1, <3>2
    <2> QED  BY <2>3, <2>4
  <1> QED  BY <1>6, <1>7, <1>8, <1>9, <1>10, <1>11, TenancyJoin

\* A restore builds the second instance.
LEMMA BuildSchemaKeeps == ASSUME TenancyInv, NEW r \in Restores, BuildSchema(r) PROVE TenancyInv'
  <1>t. TenancyTypeOK /\ \A i \in Rows : RowSound(i) /\ LiveApart(i)
    BY DEF TenancyInv
  <1>r. (\A q \in Restores : RestoreSound(q)) /\ \A q, s \in Restores : TempsApart(q, s)
    BY DEF TenancyInv
  <1>0. PICK k \in Rows : k = NextKey /\ k \notin used
    BY <1>t, KeyIsNew DEF TenancyTypeOK, BuildSchema
  <1>1. /\ restores[r].run = "read" /\ UNCHANGED <<instances, fileTasks, raced, broken, mishaps>>
        /\ \/ /\ used' = used \cup {k} /\ schemas' = schemas \cup {k} /\ files' = files \cup {k}
              /\ restores' = [restores EXCEPT ![r].run = "built", ![r].temp = k]
           \/ restores' = [restores EXCEPT ![r] = Over] /\ UNCHANGED <<used, schemas, files>>
    BY <1>0 DEF BuildSchema
  <1>2. CASE restores' = [restores EXCEPT ![r] = Over] /\ UNCHANGED <<used, schemas, files>>
    <2>1. Over \in RestoreRows /\ Over.run = "over"
      BY DEF Over, NoRestore, NoRow, RestoreRows, PlaceRows
    <2>2. restores' \in [Restores -> RestoreRows] /\ \A q \in Restores : restores'[q] = IF q = r THEN Over ELSE restores[q]
      BY <1>t, <1>2, <2>1 DEF TenancyTypeOK
    <2>3. ~Built(r) /\ mishaps \in Nat
      BY <1>t, <1>1 DEF Built, TenancyTypeOK
    <2> QED  BY <1>1, <1>2, <2>1, <2>2, <2>3, QuietKeeps
  <1>3. CASE /\ used' = used \cup {k} /\ schemas' = schemas \cup {k} /\ files' = files \cup {k}
             /\ restores' = [restores EXCEPT ![r].run = "built", ![r].temp = k]
    <2>1. restores[r] \in RestoreRows /\ k \in Nat
      BY <1>t, TenancyAssumption DEF TenancyTypeOK
    <2>2. /\ restores' \in [Restores -> RestoreRows]
          /\ restores'[r].run = "built" /\ restores'[r].temp = k
          /\ restores'[r].copy = restores[r].copy /\ restores'[r].of = restores[r].of
          /\ \A q \in Restores : q # r => restores'[q] = restores[q]
      BY <1>t, <1>3, <2>1 DEF TenancyTypeOK, RestoreRows
    <2>3. /\ Built(r)' /\ ~Built(r)
          /\ \A q \in Restores : /\ Held(q)' <=> Held(q)
                                 /\ q # r => (Built(q)' <=> Built(q))
                                 /\ restores'[q].copy = restores[q].copy /\ restores'[q].of = restores[q].of
      BY <1>1, <2>2 DEF Held, Built
    <2>4. Held(r)
      BY <1>1 DEF Held
    <2>5. /\ \A i \in Rows : There(i) => instances[i].place # k
          /\ \A q \in Restores : Held(q) => restores[q].copy.place # k
          /\ \A q \in Restores : restores[q].run \in {"queued", "read", "built"} => restores[q].of # k
          /\ \A q \in Restores : Built(q) => restores[q].temp # k
          /\ k \notin fileTasks /\ ~There(k)
      BY <1>t, <1>r, <1>0 DEF RowSound, RestoreSound, TenancyTypeOK
    <2>6. TenancyTypeOK'
      BY <1>t, <1>1, <1>3, <2>2 DEF TenancyTypeOK
    <2>7. \A i \in Rows : RowSound(i)' /\ LiveApart(i)'
      <3> SUFFICES ASSUME NEW i \in Rows PROVE RowSound(i)' /\ LiveApart(i)'
        OBVIOUS
      <3>1. RowSound(i) /\ LiveApart(i)
        BY <1>t
      <3>2. RowSound(i)'
        BY <1>1, <1>3, <3>1 DEF RowSound, There
      <3>3. LiveApart(i)'
        BY <1>1, <2>3, <3>1 DEF LiveApart, There
      <3> QED  BY <3>2, <3>3
    <2>8. \A q \in Restores : RestoreSound(q)'
      <3> SUFFICES ASSUME NEW q \in Restores PROVE RestoreSound(q)'
        OBVIOUS
      <3>0. RestoreSound(q)
        BY <1>r
      <3>1. CASE q = r
        BY <1>1, <1>3, <2>2, <2>3, <2>4, <2>5, <3>0, <3>1 DEF RestoreSound, There
      <3>2. CASE q # r
        BY <1>1, <1>3, <2>2, <3>0, <3>2 DEF RestoreSound, Held, Built, There
      <3> QED  BY <3>1, <3>2
    <2>9. \A q, s \in Restores : TempsApart(q, s)'
      <3> SUFFICES ASSUME NEW q \in Restores, NEW s \in Restores PROVE TempsApart(q, s)'
        OBVIOUS
      <3>0. TempsApart(q, s) /\ TempsApart(q, r)
        BY <1>r
      <3>1. /\ \A v \in Restores : restores'[v].run \in {"queued", "read", "built"} => restores[v].run \in {"queued", "read", "built"}
        BY <1>1, <2>2
      <3>2. CASE s = r
        BY <2>2, <2>3, <2>5, <3>1, <3>2 DEF TempsApart
      <3>3. CASE s # r
        BY <2>2, <2>3, <2>5, <3>0, <3>1, <3>3 DEF TempsApart
      <3> QED  BY <3>2, <3>3
    <2>10. LiveHasPlace'
      BY <1>1, <1>3 DEF TenancyInv, LiveHasPlace, Live
    <2>11. Calm'
      <3> SUFFICES ASSUME mishaps = 0, raced = "no"
                   PROVE  /\ \A i \in Rows : CalmRow(i)' /\ CalmPlace(i)'
                          /\ \A q \in Restores : CalmRestore(q)'
        BY <1>1 DEF Calm
      <3>1. /\ \A i \in Rows : CalmRow(i) /\ CalmPlace(i)
            /\ \A q \in Restores : CalmRestore(q)
        BY DEF TenancyInv, Calm
      <3>2. \A q \in Restores : Built(q) => Built(q)' /\ restores'[q].temp = restores[q].temp
        BY <2>2, <2>3
      <3>3. ASSUME NEW i \in Rows PROVE CalmRow(i)'
        BY <1>1, <3>1 DEF CalmRow, There
      <3>4. ASSUME NEW i \in Rows PROVE CalmPlace(i)'
        BY <1>1, <1>3, <2>2, <2>3, <3>1, <3>2 DEF CalmPlace, There
      <3>5. ASSUME NEW q \in Restores PROVE CalmRestore(q)'
        BY <1>1, <2>3, <3>1 DEF CalmRestore
      <3> QED  BY <3>3, <3>4, <3>5
    <2> QED  BY <2>6, <2>7, <2>8, <2>9, <2>10, <2>11, TenancyJoin
  <1> QED  BY <1>1, <1>2, <1>3

\* The rows swap their places, and the second instance is deleted.
LEMMA SwapKeeps ==
  ASSUME TenancyInv, NEW r \in Restores, Built(r), instances' = Swapped(r),
         restores' = [restores EXCEPT ![r] = Over],
         raced' = (IF \E q \in Restores \ {r} : /\ restores[q].run \in {"read", "built"}
                                                /\ restores[q].of = restores[r].of
                   THEN "yes" ELSE raced),
         broken' = broken \ {restores[r].of}, UNCHANGED <<used, schemas, files, fileTasks, mishaps>>
  PROVE  TenancyInv'
  <1>t. TenancyTypeOK /\ \A i \in Rows : RowSound(i) /\ LiveApart(i)
    BY DEF TenancyInv
  <1>r. (\A q \in Restores : RestoreSound(q)) /\ \A q, s \in Restores : TempsApart(q, s)
    BY DEF TenancyInv
  <1>h. Held(r) /\ restores[r].run = "built" /\ restores[r] \in RestoreRows
    BY <1>t DEF Held, Built, TenancyTypeOK
  <1>0. PICK k \in Rows, t \in Rows, p \in used : k = restores[r].of /\ t = restores[r].temp /\ p = restores[r].copy.place
    BY <1>t, <1>r, <1>h DEF RestoreSound, TenancyTypeOK
  <1>1. k # t /\ p # t /\ ~There(t) /\ t \in used /\ k \in used /\ restores[r].copy.state \in {"live", "dead"}
    <2>1. restores[r].copy.state \in {"live", "dead"}
      BY <1>h, <1>r DEF RestoreSound, RestoreRows, PlaceRows
    <2>2. RestoreSound(r) /\ TempsApart(r, r)
      BY <1>r
    <2> QED  BY <1>0, <1>h, <2>1, <2>2 DEF RestoreSound, TempsApart
  <1> DEFINE mine == [restores[r].copy EXCEPT !.place = restores[r].temp]
             other == [state |-> "dead", place |-> restores[r].copy.place]
  <1>2. /\ mine \in PlaceRows /\ mine.state = restores[r].copy.state /\ mine.place = t
        /\ other \in PlaceRows /\ other.state = "dead" /\ other.place = p
    BY <1>0, <1>h DEF RestoreRows, PlaceRows
  <1>3. instances' = [instances EXCEPT ![k] = mine, ![t] = other]
    BY <1>0 DEF Swapped
  <1> HIDE DEF mine, other
  <1>4. /\ instances' \in [Rows -> PlaceRows]
        /\ instances'[k].state = restores[r].copy.state /\ instances'[k].place = t
        /\ instances'[t].state = "dead" /\ instances'[t].place = p
        /\ \A i \in Rows : i # k /\ i # t => instances'[i] = instances[i]
    BY <1>t, <1>1, <1>2, <1>3 DEF TenancyTypeOK
  <1>5. Over \in RestoreRows /\ Over.run = "over"
    BY DEF Over, NoRestore, NoRow, RestoreRows, PlaceRows
  <1>6. /\ restores' \in [Restores -> RestoreRows] /\ restores'[r].run = "over"
        /\ \A q \in Restores : q # r => restores'[q] = restores[q]
    BY <1>t, <1>5 DEF TenancyTypeOK
  <1>7. /\ There(k)' /\ There(t)'
        /\ \A i \in Rows : i # k /\ i # t => (There(i)' <=> There(i))
    BY <1>1, <1>4 DEF There
  <1>8. /\ ~Held(r)' /\ ~Built(r)'
        /\ \A q \in Restores : q # r => (Held(q)' <=> Held(q)) /\ (Built(q)' <=> Built(q))
    BY <1>6 DEF Held, Built
  <1>9. TenancyTypeOK'
    BY <1>t, <1>4, <1>6 DEF TenancyTypeOK
  \* What a place of its own means for t and p.
  <1>10. /\ \A i \in Rows : There(i) => instances[i].place # t
         /\ \A q \in Restores : Held(q) => restores[q].copy.place # t
         /\ \A q \in Restores : restores[q].run \in {"queued", "read", "built"} => restores[q].of # t
         /\ \A q \in Restores : Built(q) /\ q # r => restores[q].temp # t
         /\ t \in schemas /\ t \in files /\ t \notin fileTasks
    <2>1. RestoreSound(r) /\ \A q \in Restores : TempsApart(q, r)
      BY <1>r
    <2> QED  BY <1>0, <2>1 DEF RestoreSound, TempsApart
  <1>11. /\ \A i \in Rows : instances[i].state = "live" /\ i # k => instances[i].place # p
         /\ \A q \in Restores : Built(q) => restores[q].temp # p
    BY <1>0, <1>t, <1>r, <1>h DEF LiveApart, TempsApart
  <1>12. \A i \in Rows : RowSound(i)' /\ LiveApart(i)'
    <2> SUFFICES ASSUME NEW i \in Rows PROVE RowSound(i)' /\ LiveApart(i)'
      OBVIOUS
    <2>0. RowSound(i) /\ LiveApart(i)
      BY <1>t
    <2>1. RowSound(i)'
      BY <1>1, <1>4, <1>7, <2>0 DEF RowSound
    <2>2. CASE i = k
      BY <1>1, <1>4, <1>7, <1>8, <1>6, <1>10, <2>1, <2>2 DEF LiveApart
    <2>3. CASE i = t
      BY <1>4, <2>1, <2>3 DEF LiveApart
    <2>4. CASE i # k /\ i # t
      <3> SUFFICES ASSUME instances[i].state = "live" PROVE LiveApart(i)'
        BY <1>4, <2>1, <2>4 DEF LiveApart
      <3>1. There(i)
        BY DEF There
      <3>2. instances[i].place # t /\ instances[i].place # p
        BY <1>10, <1>11, <2>4, <3>1
      <3> QED  BY <1>4, <1>6, <1>7, <1>8, <2>0, <2>4, <3>2 DEF LiveApart
    <2> QED  BY <2>1, <2>2, <2>3, <2>4
  <1>13. \A q \in Restores : RestoreSound(q)'
    <2> SUFFICES ASSUME NEW q \in Restores, q # r PROVE RestoreSound(q)'
      BY <1>6, <1>8 DEF RestoreSound
    <2>0. RestoreSound(q) /\ TempsApart(r, q) /\ used \subseteq Rows
      BY <1>r, <1>t DEF TenancyTypeOK
    <2>1. /\ restores[q].run = "queued" => There(restores[q].of)'
          /\ Built(q) => ~There(restores[q].temp)'
      <3>1. restores[q].run = "queued" => restores[q].of \in Rows /\ There(restores[q].of)
        BY <2>0 DEF RestoreSound
      <3>2. restores[q].run = "queued" => There(restores[q].of)'
        BY <1>1, <1>4, <1>6, <3>1 DEF There
      <3>3. Built(q) => restores[q].temp \in Rows /\ restores[q].temp # t /\ restores[q].temp # k
        BY <1>0, <1>10, <1>h, <2>0 DEF RestoreSound, TempsApart
      <3>4. Built(q) => ~There(restores[q].temp)
        BY <2>0 DEF RestoreSound
      <3> QED  BY <1>4, <1>6, <3>2, <3>3, <3>4 DEF There
    <2>2. Built(q) => \A i \in Rows : There(i)' => instances'[i].place # restores[q].temp
      BY <1>4, <1>7, <1>10, <1>11, <2>0 DEF RestoreSound
    <2> QED  BY <1>6, <1>8, <2>0, <2>1, <2>2 DEF RestoreSound
  <1>14. \A q, s \in Restores : TempsApart(q, s)'
    <2> SUFFICES ASSUME NEW q \in Restores, NEW s \in Restores PROVE TempsApart(q, s)'
      OBVIOUS
    <2>1. TempsApart(q, s)
      BY <1>r
    <2> QED  BY <1>6, <1>8, <2>1 DEF TempsApart
  <1>15. LiveHasPlace'
    <2>1. \A i \in Rows : instances[i].state = "live" /\ i \notin broken =>
               instances[i].place \in schemas /\ instances[i].place \in files /\ instances[i].place \notin fileTasks
      BY DEF TenancyInv, LiveHasPlace, Live
    <2>2. broken' = broken \ {k}
      BY <1>0
    <2> QED  BY <1>1, <1>4, <1>10, <2>1, <2>2 DEF LiveHasPlace, Live
  <1>16. Calm'
    <2> SUFFICES ASSUME mishaps = 0, raced' = "no"
                 PROVE  /\ \A i \in Rows : CalmRow(i)' /\ CalmPlace(i)'
                        /\ \A q \in Restores : CalmRestore(q)'
      BY DEF Calm
    <2>0. raced = "no" /\ \A q \in Restores : Held(q) /\ q # r => restores[q].of # k
      BY <1>0 DEF Held
    <2>1. /\ \A i \in Rows : CalmRow(i) /\ CalmPlace(i)
          /\ \A q \in Restores : CalmRestore(q)
      BY <2>0 DEF TenancyInv, Calm
    <2>2. instances[k].place = p /\ There(k)
      BY <1>0, <1>1, <1>h, <2>1 DEF CalmRestore, There
    <2>3. ASSUME NEW i \in Rows PROVE CalmRow(i)'
      <3>1. CalmRow(i) /\ CalmRow(k)
        BY <2>1
      <3>2. \A j \in Rows : There(j) /\ j # k => instances[j].place # p
        BY <2>2, <3>1 DEF CalmRow
      <3>3. CASE i = k
        BY <1>1, <1>4, <1>7, <1>10, <3>3 DEF CalmRow
      <3>4. CASE i = t
        BY <1>1, <1>4, <1>7, <1>10, <3>2, <3>4 DEF CalmRow
      <3>5. CASE i # k /\ i # t
        BY <1>1, <1>4, <1>7, <1>10, <3>1, <3>2, <3>5 DEF CalmRow
      <3> QED  BY <3>3, <3>4, <3>5
    <2>4. ASSUME NEW i \in Rows PROVE CalmPlace(i)'
      <3> SUFFICES ASSUME i \in schemas
                   PROVE  \/ \E j \in Rows : There(j)' /\ instances'[j].place = i
                          \/ \E q \in Restores : Built(q)' /\ restores'[q].temp = i
        BY DEF CalmPlace
      <3>1. CASE i = t
        BY <1>4, <1>7, <3>1
      <3>2. CASE i = p
        BY <1>4, <1>7, <3>2
      <3>3. CASE i # t /\ i # p
        <4>1. \/ \E j \in Rows : There(j) /\ instances[j].place = i
              \/ \E q \in Restores : Built(q) /\ restores[q].temp = i
          BY <2>1 DEF CalmPlace
        <4>2. \A j \in Rows : There(j) /\ instances[j].place = i => j # k /\ j # t
          BY <1>1, <2>2, <3>3
        <4>3. \A q \in Restores : Built(q) /\ restores[q].temp = i => q # r
          BY <1>0, <3>3
        <4>4. (\E j \in Rows : There(j) /\ instances[j].place = i) => \E j \in Rows : There(j)' /\ instances'[j].place = i
          BY <1>4, <1>7, <4>2
        <4>5. (\E q \in Restores : Built(q) /\ restores[q].temp = i) => \E q \in Restores : Built(q)' /\ restores'[q].temp = i
          BY <1>6, <1>8, <4>3
        <4> QED  BY <4>1, <4>4, <4>5
      <3> QED  BY <3>1, <3>2, <3>3
    <2>5. ASSUME NEW q \in Restores PROVE CalmRestore(q)'
      <3> SUFFICES ASSUME q # r, Held(q) PROVE CalmRestore(q)'
        BY <1>8 DEF CalmRestore
      <3>1. restores[q].of \in Rows /\ restores[q].of # k /\ restores[q].of # t
        BY <1>r, <1>t, <1>10, <2>0 DEF RestoreSound, TenancyTypeOK, Held
      <3>2. CalmRestore(q) /\ restores'[q] = restores[q]
        BY <1>6, <2>1
      <3> QED  BY <1>4, <1>6, <1>8, <3>1, <3>2 DEF CalmRestore
    <2> QED  BY <2>3, <2>4, <2>5
  <1> QED  BY <1>9, <1>12, <1>13, <1>14, <1>15, <1>16, TenancyJoin

\* Every step keeps the invariant.
LEMMA TenancyStep == ASSUME TenancyInv, [TenancyNext]_tenancyVars PROVE TenancyInv'
  <1>t. TenancyTypeOK
    BY DEF TenancyInv
  <1>q. mishaps \in Nat /\ restores \in [Restores -> RestoreRows]
    BY <1>t DEF TenancyTypeOK
  <1>o. Over \in RestoreRows /\ Over.run = "over"
    BY DEF Over, NoRestore, NoRow, RestoreRows, PlaceRows
  <1>1. ASSUME AdmitBackup \/ UNCHANGED tenancyVars PROVE TenancyInv'
    <2>1. UNCHANGED <<instances, used, schemas, files, fileTasks, restores, raced, broken, mishaps>>
      BY <1>1 DEF AdmitBackup, tenancyVars
    <2> QED  BY <1>q, <2>1, QuietKeeps
  <1>2. ASSUME NEW b \in Backups, (\E i \in Rows : CreateBackup(b, i)) \/ StartBackup(b) \/ RunBackup(b) \/ SaveBackup(b)
                  \/ FinishBackup(b) \/ DeleteBackup(b)
        PROVE  TenancyInv'
    <2>1. /\ UNCHANGED <<instances, used, schemas, files, fileTasks, restores, raced, broken>>
          /\ mishaps' = mishaps \/ mishaps' = mishaps + 1
      BY <1>2 DEF CreateBackup, StartBackup, RunBackup, SaveBackup, FinishBackup, DeleteBackup, Mishap
    <2>2. mishaps' \in Nat /\ mishaps' >= mishaps
      BY <1>q, <2>1
    <2> QED  BY <1>q, <2>1, <2>2, QuietKeeps
  <1>3. ASSUME NEW b \in Backups, PurgeBackup(b) PROVE TenancyInv'
    <2>1. /\ UNCHANGED <<instances, used, schemas, files, fileTasks, raced, broken, mishaps>>
          /\ restores' = [r \in Restores |-> IF restores[r].from = b /\ restores[r].run = "queued" THEN Over ELSE restores[r]]
      BY <1>3 DEF PurgeBackup
    <2>2. /\ restores' \in [Restores -> RestoreRows]
          /\ \A r \in Restores : restores'[r] = restores[r] \/ (restores'[r].run = "over" /\ ~Built(r))
      BY <1>q, <1>o, <2>1 DEF Built
    <2> QED  BY <1>q, <2>1, <2>2, QuietKeeps
  <1>4. ASSUME NEW i \in Rows, LoseDeletion(i) PROVE TenancyInv'
    <2>1. UNCHANGED <<instances, used, schemas, files, fileTasks, restores, raced, broken>> /\ mishaps' = mishaps + 1
      BY <1>4 DEF LoseDeletion, Mishap
    <2>2. mishaps' \in Nat /\ mishaps' >= mishaps
      BY <1>q, <2>1
    <2> QED  BY <1>q, <2>1, <2>2, QuietKeeps
  <1>5. ASSUME NEW i \in Rows, DeleteLiveObject(i) PROVE TenancyInv'
    <2>1. CASE instances[i].state = "none" /\ UNCHANGED <<instances, schemas, fileTasks, backups, restores, raced, broken, mishaps>>
      <3>1. UNCHANGED <<used, files>>
        BY <1>5 DEF DeleteLiveObject
      <3> QED  BY <1>q, <2>1, <3>1, QuietKeeps
    <2>2. CASE instances[i].state # "none" /\ HardDelete(i) /\ UNCHANGED <<broken, mishaps>>
      <3>1. UNCHANGED <<used, files>> /\ There(i)
        BY <1>5, <2>2 DEF DeleteLiveObject, There
      <3> QED  BY <2>2, <3>1, HardDeleteKeeps
    <2>3. CASE /\ instances[i].state # "none" /\ Mishap
               /\ schemas' = schemas \ {PlaceOf(i)} /\ fileTasks' = fileTasks \cup {PlaceOf(i)}
               /\ broken' = broken \cup {i} /\ UNCHANGED <<instances, deletions, backups, restores, raced>>
      <3>1. UNCHANGED <<used, files>> /\ There(i) /\ mishaps' = mishaps + 1
        BY <1>5, <2>3 DEF DeleteLiveObject, There, Mishap
      <3> QED  BY <2>3, <3>1, BrokenDeleteKeeps
    <2> QED  BY <1>5, <2>1, <2>2, <2>3 DEF DeleteLiveObject
  <1>6. ASSUME NEW i \in Rows, DeleteDeadObjects(i) PROVE TenancyInv'
    <2>1. There(i) /\ HardDelete(i) /\ UNCHANGED <<used, files, broken, mishaps>>
      BY <1>6 DEF DeleteDeadObjects, There
    <2> QED  BY <2>1, HardDeleteKeeps
  <1>7. ASSUME NEW r \in Restores, SwapAndCommit(r) PROVE TenancyInv'
    <2>0. Built(r) /\ UNCHANGED <<used, schemas, files, fileTasks>>
      BY <1>7 DEF SwapAndCommit, Built
    <2>1. CASE Mishap /\ restores' = [restores EXCEPT ![r] = Over] /\ UNCHANGED <<instances, deletions, raced, broken>>
      <3>1. mishaps' \in Nat /\ mishaps' >= mishaps /\ mishaps' > 0
        BY <1>q, <2>1 DEF Mishap
      <3>2. restores' \in [Restores -> RestoreRows] /\ \A q \in Restores : restores'[q] = IF q = r THEN Over ELSE restores[q]
        BY <1>q, <1>o, <2>1
      <3> QED  BY <1>o, <2>0, <2>1, <3>1, <3>2, QuietKeeps
    <2>2. CASE /\ instances' = Swapped(r) /\ restores' = [restores EXCEPT ![r] = Over]
               /\ raced' = (IF \E q \in Restores \ {r} : /\ restores[q].run \in {"read", "built"}
                                                         /\ restores[q].of = restores[r].of
                            THEN "yes" ELSE raced)
               /\ broken' = broken \ {restores[r].of} /\ mishaps' = mishaps
      BY <2>0, <2>2, SwapKeeps
    <2> QED  BY <1>7, <2>1, <2>2 DEF SwapAndCommit
  <1> QED  BY <1>1, <1>2, <1>3, <1>4, <1>5, <1>6, <1>7, CreateInstanceKeeps, DeleteInstanceKeeps, DeleteFilesKeeps,
              CreateRestoreKeeps, StartRestoreKeeps, BuildSchemaKeeps DEF TenancyNext

(* However many deletions, backups and restores overlap, a live instance   *)
(* has its schema and files unless its own deletion broke off; and when    *)
(* nothing failed and no row changed under a restore, every schema has one *)
(* owner (instances/models.py, core/tasks.py, backups/site.py).            *)
THEOREM PlacesAreSoundHolds == TenancySpec => []PlacesAreSound
  <1>1. TenancyInv => PlacesAreSound
    <2> SUFFICES ASSUME TenancyInv PROVE PlacesAreSound
      OBVIOUS
    <2>1. NothingLeft
      <3> SUFFICES ASSUME mishaps = 0, raced = "no" PROVE NothingLeft
        BY DEF NothingLeft
      <3>1. (\A i \in Rows : CalmRow(i)) /\ \A p \in Rows : CalmPlace(p)
        BY DEF TenancyInv, Calm
      <3>2. schemas \subseteq Rows
        BY DEF TenancyInv, TenancyTypeOK
      <3>3. \A i, j \in Rows : i # j /\ "none" \notin {instances[i].state, instances[j].state}
                                => instances[i].place # instances[j].place
        BY <3>1 DEF CalmRow, There
      <3> QED  BY <3>1, <3>2, <3>3 DEF NothingLeft, CalmPlace, There, Built
    <2> QED  BY <2>1 DEF PlacesAreSound, TenancyInv
  <1> QED  BY <1>1, TenancyStart, TenancyStep, PTL DEF TenancySpec

-----------------------------------------------------------------------------
(* BackupArchive: the archive is what the snapshot had up to the last key   *)
(* written, and the copy what the archive has up to the last key restored.  *)

\* A nonempty set of keys has a first one: what a batch takes next.
LEMMA FirstKey ==
  ASSUME NEW S, S \subseteq Pks, S # {}
  PROVE  NextOf(S) \in S /\ \A k \in S : NextOf(S) <= k
<1>1. S \subseteq Nat
  BY DEF Pks
<1>2. PICK m \in S : \A x \in S : ~(<<x, m>> \in OpToRel(<, Nat))
  BY <1>1, NatLessThanWellFounded, WFMin
<1>3. \A x \in S : ~(x < m)
  BY <1>1, <1>2 DEF OpToRel
<1>4. \A x \in S : m <= x
  BY <1>1, <1>3
<1> QED
  BY <1>4 DEF NextOf

\* sequence_reset_sql: the next key is after all that are used.
LEMMA LastKey ==
  ASSUME NEW S, S \subseteq Pks, NEW next
  PROVE  AfterLast(next, S) \in Nat \ {0} /\ \A k \in S : k < AfterLast(next, S)
<1>1. CASE S = {}
  BY <1>1 DEF AfterLast
<1>2. CASE S # {}
  <2> DEFINE U == {u \in Nat : \A x \in S : x <= u}
  <2>1. MaxPk \in U /\ U \subseteq Nat
    BY BackupArchiveAssumption DEF Pks
  <2>2. PICK m \in U : \A x \in U : ~(<<x, m>> \in OpToRel(<, Nat))
    BY <2>1, NatLessThanWellFounded, WFMin
  <2>3. \A x \in U : ~(x < m)
    BY <2>1, <2>2 DEF OpToRel
  <2>4. m \in S
    <3> SUFFICES ASSUME m \notin S PROVE FALSE
      OBVIOUS
    <3>1. PICK x \in S : TRUE
      BY <1>2
    <3>2. \A y \in S : y \in Nat /\ y < m
      BY DEF Pks
    <3>3. m - 1 \in U
      BY <3>1, <3>2
    <3> QED
      BY <2>3, <3>3
  <2>5. \E k \in S : \A j \in S : j <= k
    BY <2>2, <2>4
  <2> DEFINE top == CHOOSE k \in S : \A j \in S : j <= k
  <2>6. top \in S /\ \A j \in S : j <= top
    BY <2>5
  <2>7. AfterLast(next, S) = 1 + top
    BY <1>2 DEF AfterLast
  <2> HIDE DEF top
  <2> QED
    BY <2>6, <2>7 DEF Pks
<1> QED
  BY <1>1, <1>2

LabelColumns == [Pks -> Labels \cup {NoLabel}]
ReferenceColumns == [Pks -> Pks \cup {0}]

SchemaStates ==
    [version : Nat, channels : LabelColumns, objects : ReferenceColumns,
     nextChannel : Nat \ {0}, nextObject : Nat \ {0}]

\* A schema in order: names are apart, no reference dangles, keys are taken in order.
InOrder(s) ==
    /\ \A j, k \in Pks : s.channels[j] = s.channels[k] /\ s.channels[j] # NoLabel => j = k
    /\ \A o \in Pks : s.objects[o] # 0 => s.channels[s.objects[o]] # NoLabel
    /\ \A k \in Pks : k >= s.nextChannel => s.channels[k] = NoLabel
    /\ \A k \in Pks : k >= s.nextObject => s.objects[k] = 0

ArchiveTypes ==
    /\ source \in SchemaStates /\ snapshot \in SchemaStates /\ copy \in SchemaStates
    /\ archive \in [version : Nat, channels : LabelColumns, objects : ReferenceColumns]
    /\ wanted \in {Labels, {InitialLabel}}
    /\ lastPk \in Pks \cup {0}
    /\ step \in {"idle", "migrations written", "channels", "objects", "archived",
                 "restore channels", "restore objects", "restored", "failed"}

\* What the archive has of the channels and objects up to a key.
ChannelsUpTo(n) ==
    \A k \in Pks : archive.channels[k] =
        IF k <= n /\ ChannelIsWanted(k) THEN snapshot.channels[k] ELSE NoLabel

ObjectsUpTo(n) ==
    \A o \in Pks : archive.objects[o] =
        IF o <= n /\ ObjectIsWanted(o) THEN snapshot.objects[o] ELSE 0

WrittenSteps == {"archived", "restore channels", "restore objects", "restored"}

WrittenSound ==
    /\ step \in {"idle", "migrations written"} => ChannelsUpTo(0) /\ ObjectsUpTo(0)
    /\ step = "channels" => ChannelsUpTo(lastPk) /\ ObjectsUpTo(0)
    /\ step = "objects" => ChannelsUpTo(MaxPk) /\ ObjectsUpTo(lastPk)
    /\ step \in WrittenSteps => ChannelsUpTo(MaxPk) /\ ObjectsUpTo(MaxPk)

\* The channels of the copy while they are restored: those of the archive up to a
\* key, or of a partial restore the initial one.
CopiedUpTo(n) ==
    IF Partial
    THEN /\ \A k \in Pks : copy.channels[k] \in {NoLabel, InitialLabel}
         /\ \E k \in Pks : copy.channels[k] = InitialLabel
    ELSE \A k \in Pks : copy.channels[k] = IF k <= n THEN archive.channels[k] ELSE NoLabel

CopySound ==
    /\ step \in {"restore channels", "restore objects"} => copy.objects = NoObjects
    /\ step = "restore channels" => CopiedUpTo(lastPk)
    /\ step \in {"restore objects", "restored"} => CopiedUpTo(MaxPk)
    /\ step = "restored" => /\ copy.objects = archive.objects
                            /\ \A k \in Pks : k >= copy.nextChannel => copy.channels[k] = NoLabel
                            /\ \A o \in Pks : o >= copy.nextObject => copy.objects[o] = 0
                            /\ \A o \in Pks : archive.objects[o] # 0 => copy.channels[archive.objects[o]] # NoLabel

ArchiveInv == ArchiveTypes /\ InOrder(source) /\ InOrder(snapshot) /\ WrittenSound /\ CopySound

\* What the assumption says of keys and labels.
LEMMA KeyTypes ==
  /\ MaxPk \in Nat /\ MaxPk > 0 /\ Pks \subseteq Nat \ {0} /\ 1 \in Pks /\ 0 \notin Pks
  /\ InitialLabel \in Labels /\ NoLabel \notin Labels /\ InitialLabel # NoLabel
  /\ \A k \in Pks : k <= MaxPk
BY BackupArchiveAssumption DEF Pks

\* A new schema is in order.
LEMMA NewSchemaSound ==
  ASSUME NEW v \in Nat
  PROVE  NewSchema(v) \in SchemaStates /\ InOrder(NewSchema(v))
BY KeyTypes DEF NewSchema, SchemaStates, InOrder, LabelColumns, ReferenceColumns, NoChannels, NoObjects

\* Nothing is archived in the initial state.
LEMMA ArchiveStart == ArchiveInit => ArchiveInv
<1> SUFFICES ASSUME ArchiveInit PROVE ArchiveInv
  OBVIOUS
<1>1. NewSchema(1) \in SchemaStates /\ InOrder(NewSchema(1))
  BY NewSchemaSound
<1>2. ArchiveTypes
  BY <1>1, KeyTypes DEF ArchiveInit, ArchiveTypes, NothingArchived, LabelColumns, ReferenceColumns, NoChannels, NoObjects
<1>3. WrittenSound
  BY KeyTypes DEF ArchiveInit, WrittenSound, ChannelsUpTo, ObjectsUpTo, NothingArchived, NoChannels, NoObjects, WrittenSteps
<1>4. CopySound
  BY DEF ArchiveInit, CopySound
<1> QED
  BY <1>1, <1>2, <1>3, <1>4 DEF ArchiveInit, ArchiveInv

\* Steps of the instance leave it in order and touch nothing else.
LEMMA SourceStep ==
  ASSUME ArchiveInv, source' \in SchemaStates, InOrder(source'),
         UNCHANGED <<snapshot, archive, wanted, step, lastPk, copy>>
  PROVE  ArchiveInv'
<1>1. ArchiveTypes'
  BY DEF ArchiveInv, ArchiveTypes
<1>2. WrittenSound'
  BY DEF ArchiveInv, WrittenSound, ChannelsUpTo, ObjectsUpTo, ChannelIsWanted, ObjectIsWanted, Seen
<1>3. CopySound'
  BY DEF ArchiveInv, CopySound, CopiedUpTo, Partial
<1> QED
  BY <1>1, <1>2, <1>3 DEF ArchiveInv

\* The instance stays in order while rows come and go and it is migrated.
LEMMA InstanceChanges ==
  ASSUME ArchiveInv,
         \/ \E l \in Labels : AddChannel(l)
         \/ \E k \in Pks : DeleteChannel(k) \/ AddObject(k)
         \/ MigrateInstance
  PROVE  ArchiveInv'
<1>1. source \in SchemaStates /\ InOrder(source)
  BY DEF ArchiveInv, ArchiveTypes
<1>2. ASSUME NEW l \in Labels, AddChannel(l)
      PROVE  ArchiveInv'
  <2>1. PICK n : n = source.nextChannel
    OBVIOUS
  <2>2. n \in Pks /\ n + 1 \in Nat \ {0}
    <3>1. n \in Nat \ {0} /\ n <= MaxPk
      BY <1>1, <1>2, <2>1 DEF AddChannel, SchemaStates
    <3> QED
      BY <3>1, BackupArchiveAssumption DEF Pks
  <2>3. source' = [source EXCEPT !.channels[n] = l, !.nextChannel = n + 1]
    BY <1>2, <2>1 DEF AddChannel
  <2>4. source' \in SchemaStates
    BY <1>1, <2>2, <2>3 DEF SchemaStates, LabelColumns
  <2>5. /\ \A k \in Pks : source'.channels[k] = IF k = n THEN l ELSE source.channels[k]
        /\ source'.objects = source.objects /\ source'.nextObject = source.nextObject
        /\ source'.nextChannel = n + 1
    BY <1>1, <2>2, <2>3 DEF SchemaStates, LabelColumns
  <2>6. /\ \A k \in Pks : source.channels[k] # l
        /\ \A k \in Pks : k >= n => source.channels[k] = NoLabel
    BY <1>1, <1>2, <2>1 DEF AddChannel, InOrder
  <2>7. InOrder(source')
    <3>1. \A j, k \in Pks : source'.channels[j] = source'.channels[k] /\ source'.channels[j] # NoLabel => j = k
      BY <1>1, <2>5, <2>6 DEF InOrder
    <3>2. \A o \in Pks : source'.objects[o] # 0 => source'.channels[source'.objects[o]] # NoLabel
      <4> SUFFICES ASSUME NEW o \in Pks, source'.objects[o] # 0
                   PROVE  source'.channels[source'.objects[o]] # NoLabel
        OBVIOUS
      <4>1. source.objects[o] \in Pks /\ source.channels[source.objects[o]] # NoLabel
        BY <1>1, <2>5 DEF InOrder, SchemaStates, ReferenceColumns
      <4> QED
        BY <2>5, <4>1, KeyTypes
    <3>3. \A k \in Pks : k >= source'.nextChannel => source'.channels[k] = NoLabel
      <4>1. n \in Nat /\ \A k \in Pks : k \in Nat /\ (k >= n + 1 => k >= n /\ k # n)
        BY <2>2, KeyTypes
      <4> QED
        BY <2>5, <2>6, <4>1
    <3>4. \A k \in Pks : k >= source'.nextObject => source'.objects[k] = 0
      BY <1>1, <2>5 DEF InOrder
    <3> QED
      BY <3>1, <3>2, <3>3, <3>4 DEF InOrder
  <2> QED
    BY <1>2, <2>4, <2>7, SourceStep DEF AddChannel
<1>3. ASSUME NEW k \in Pks, DeleteChannel(k)
      PROVE  ArchiveInv'
  <2>1. source' = [source EXCEPT !.channels[k] = NoLabel,
                       !.objects = [o \in Pks |-> IF source.objects[o] = k THEN 0 ELSE source.objects[o]]]
    BY <1>3 DEF DeleteChannel
  <2>2. source' \in SchemaStates
    BY <1>1, <2>1, KeyTypes DEF SchemaStates, LabelColumns, ReferenceColumns
  <2>3. /\ \A j \in Pks : source'.channels[j] = IF j = k THEN NoLabel ELSE source.channels[j]
        /\ \A o \in Pks : source'.objects[o] = IF source.objects[o] = k THEN 0 ELSE source.objects[o]
        /\ source'.nextObject = source.nextObject /\ source'.nextChannel = source.nextChannel
    BY <1>1, <2>1 DEF SchemaStates, LabelColumns, ReferenceColumns
  <2>4. InOrder(source')
    <3>1. \A i, j \in Pks : source'.channels[i] = source'.channels[j] /\ source'.channels[i] # NoLabel => i = j
      BY <1>1, <2>3 DEF InOrder
    <3>2. \A o \in Pks : source'.objects[o] # 0 => source'.channels[source'.objects[o]] # NoLabel
      <4> SUFFICES ASSUME NEW o \in Pks, source'.objects[o] # 0
                   PROVE  source'.channels[source'.objects[o]] # NoLabel
        OBVIOUS
      <4>1. source'.objects[o] = source.objects[o] /\ source.objects[o] # k /\ source.objects[o] \in Pks
        BY <1>1, <2>3 DEF SchemaStates, ReferenceColumns
      <4> QED
        BY <4>1, <1>1, <2>3 DEF InOrder
    <3>3. \A j \in Pks : j >= source'.nextChannel => source'.channels[j] = NoLabel
      BY <1>1, <2>3 DEF InOrder
    <3>4. \A j \in Pks : j >= source'.nextObject => source'.objects[j] = 0
      BY <1>1, <2>3 DEF InOrder
    <3> QED
      BY <3>1, <3>2, <3>3, <3>4 DEF InOrder
  <2> QED
    BY <1>3, <2>2, <2>4, SourceStep DEF DeleteChannel
<1>4. ASSUME NEW k \in Pks, AddObject(k)
      PROVE  ArchiveInv'
  <2>1. PICK n : n = source.nextObject
    OBVIOUS
  <2>2. n \in Pks /\ n + 1 \in Nat \ {0}
    <3>1. n \in Nat \ {0} /\ n <= MaxPk
      BY <1>1, <1>4, <2>1 DEF AddObject, SchemaStates
    <3> QED
      BY <3>1, BackupArchiveAssumption DEF Pks
  <2>3. source' = [source EXCEPT !.objects[n] = k, !.nextObject = n + 1]
    BY <1>4, <2>1 DEF AddObject
  <2>4. source' \in SchemaStates
    BY <1>1, <2>2, <2>3 DEF SchemaStates, ReferenceColumns
  <2>5. /\ \A o \in Pks : source'.objects[o] = IF o = n THEN k ELSE source.objects[o]
        /\ source'.channels = source.channels /\ source'.nextChannel = source.nextChannel
        /\ source'.nextObject = n + 1
    BY <1>1, <2>2, <2>3 DEF SchemaStates, ReferenceColumns
  <2>6. source.channels[k] # NoLabel
    BY <1>4 DEF AddObject
  <2>7. InOrder(source')
    BY <1>1, <2>1, <2>2, <2>5, <2>6, KeyTypes DEF InOrder, SchemaStates
  <2> QED
    BY <1>4, <2>4, <2>7, SourceStep DEF AddObject
<1>5. CASE MigrateInstance
  <2>1. source' \in SchemaStates /\ InOrder(source')
    BY <1>1, <1>5 DEF MigrateInstance, SchemaStates, InOrder
  <2> QED
    BY <1>5, <2>1, SourceStep DEF MigrateInstance
<1> QED
  BY <1>2, <1>3, <1>4, <1>5

\* A step that takes the backup or the restore on to another part.
LEMMA WritingStarts ==
  ASSUME ArchiveInv, WriteMigrations \/ TakeSnapshot
  PROVE  ArchiveInv'
<1>1. CASE WriteMigrations
  <2>1. /\ archive'.channels = archive.channels /\ archive'.objects = archive.objects
        /\ archive' \in [version : Nat, channels : LabelColumns, objects : ReferenceColumns]
    BY <1>1 DEF WriteMigrations, ArchiveInv, ArchiveTypes, SchemaStates
  <2>2. ArchiveTypes'
    BY <1>1, <2>1 DEF WriteMigrations, ArchiveInv, ArchiveTypes
  <2>3. WrittenSound'
    BY <1>1, <2>1 DEF WriteMigrations, ArchiveInv, WrittenSound, WrittenSteps, ChannelsUpTo, ObjectsUpTo,
       ChannelIsWanted, ObjectIsWanted, Seen
  <2>4. CopySound'
    BY <1>1 DEF WriteMigrations, CopySound
  <2> QED
    BY <1>1, <2>2, <2>3, <2>4 DEF WriteMigrations, ArchiveInv
<1>2. CASE TakeSnapshot
  <2>1. ArchiveTypes'
    BY <1>2, KeyTypes DEF TakeSnapshot, ArchiveInv, ArchiveTypes
  <2>2. WrittenSound'
    <3>1. ChannelsUpTo(0) /\ ObjectsUpTo(0)
      BY <1>2 DEF TakeSnapshot, ArchiveInv, WrittenSound
    <3>2. \A k \in Pks : ~(k <= 0)
      BY KeyTypes
    <3>3. \A k \in Pks : archive.channels[k] = NoLabel /\ archive.objects[k] = 0
      BY <3>1, <3>2 DEF ChannelsUpTo, ObjectsUpTo
    <3>4. archive' = archive /\ lastPk' = 0 /\ step' = "channels"
      BY <1>2 DEF TakeSnapshot
    <3>5. ChannelsUpTo(lastPk)' /\ ObjectsUpTo(0)'
      BY <3>2, <3>3, <3>4 DEF ChannelsUpTo, ObjectsUpTo
    <3> QED
      BY <3>4, <3>5 DEF WrittenSound, WrittenSteps
  <2>3. CopySound'
    BY <1>2 DEF TakeSnapshot, CopySound
  <2> QED
    BY <1>2, <2>1, <2>2, <2>3 DEF TakeSnapshot, ArchiveInv
<1> QED
  BY <1>1, <1>2

\* Writing the next channel: none that is wanted is between the last key and it.
LEMMA ChannelStep ==
  ASSUME ArchiveInv, WriteChannel
  PROVE  ArchiveInv'
<1> DEFINE rest == {k \in Pks : k > lastPk /\ ChannelIsWanted(k)}
<1>1. rest # {} /\ rest \subseteq Pks
  BY DEF WriteChannel
<1>2. PICK n \in rest : n = NextOf(rest) /\ \A k \in rest : n <= k
  BY <1>1, FirstKey
<1>3. /\ archive' = [archive EXCEPT !.channels[n] = snapshot.channels[n]] /\ lastPk' = n
      /\ step = "channels" /\ UNCHANGED <<source, snapshot, wanted, step, copy>>
  BY <1>2 DEF WriteChannel, Seen
<1>4. n \in Pks /\ n > lastPk /\ ChannelIsWanted(n) /\ lastPk \in Nat
  <2>1. lastPk \in Pks \cup {0}
    BY DEF ArchiveInv, ArchiveTypes
  <2> QED
    BY <1>2, <2>1, KeyTypes
<1>5. /\ \A k \in Pks : archive'.channels[k] = IF k = n THEN snapshot.channels[n] ELSE archive.channels[k]
      /\ archive'.objects = archive.objects
      /\ archive' \in [version : Nat, channels : LabelColumns, objects : ReferenceColumns]
  BY <1>3, <1>4 DEF ArchiveInv, ArchiveTypes, LabelColumns, SchemaStates
<1>6. ArchiveTypes'
  BY <1>3, <1>4, <1>5 DEF ArchiveInv, ArchiveTypes
<1>7. ChannelsUpTo(lastPk)' /\ ObjectsUpTo(0)'
  <2>1. ChannelsUpTo(lastPk) /\ ObjectsUpTo(0)
    BY <1>3 DEF ArchiveInv, WrittenSound
  <2>2. \A k \in Pks : ChannelIsWanted(k)' = ChannelIsWanted(k)
    BY <1>3 DEF ChannelIsWanted, Seen
  <2>3. \A k \in Pks : k <= n /\ ChannelIsWanted(k) => k <= lastPk \/ k = n
    BY <1>2, <1>4, KeyTypes
  <2>4. ASSUME NEW k \in Pks
        PROVE  archive'.channels[k] = IF k <= lastPk' /\ ChannelIsWanted(k)' THEN snapshot'.channels[k] ELSE NoLabel
    BY <1>3, <1>4, <1>5, <2>1, <2>2, <2>3, KeyTypes DEF ChannelsUpTo
  <2>5. ObjectsUpTo(0)'
    BY <1>3, <1>5, <2>1 DEF ObjectsUpTo, ObjectIsWanted, ChannelIsWanted, Seen
  <2> QED
    BY <2>4, <2>5 DEF ChannelsUpTo
<1>8. WrittenSound'
  BY <1>3, <1>7 DEF WrittenSound, WrittenSteps
<1>9. CopySound'
  BY <1>3 DEF CopySound
<1> QED
  BY <1>3, <1>6, <1>8, <1>9 DEF ArchiveInv

\* Writing the next object, or failing when its file is gone.
LEMMA ObjectStep ==
  ASSUME ArchiveInv, WriteObject
  PROVE  ArchiveInv'
<1> DEFINE rest == {o \in Pks : o > lastPk /\ ObjectIsWanted(o)}
<1>1. rest # {} /\ rest \subseteq Pks
  BY DEF WriteObject
<1>2. PICK n \in rest : n = NextOf(rest) /\ \A k \in rest : n <= k
  BY <1>1, FirstKey
<1>3. step = "objects" /\ UNCHANGED <<source, snapshot, wanted, copy>>
  BY DEF WriteObject
<1>4. CASE source.objects[n] = 0
  <2>1. step' = "failed" /\ archive' = archive /\ lastPk' = lastPk
    BY <1>2, <1>4 DEF WriteObject
  <2> QED
    BY <1>3, <2>1 DEF ArchiveInv, ArchiveTypes, WrittenSound, CopySound, WrittenSteps
<1>5. CASE source.objects[n] # 0
  <2>1. archive' = [archive EXCEPT !.objects[n] = snapshot.objects[n]] /\ lastPk' = n /\ step' = step
    BY <1>2, <1>5 DEF WriteObject, Seen
  <2>2. n \in Pks /\ n > lastPk /\ ObjectIsWanted(n) /\ lastPk \in Nat
    <3>1. lastPk \in Pks \cup {0}
      BY DEF ArchiveInv, ArchiveTypes
    <3> QED
      BY <1>2, <3>1, KeyTypes
  <2>3. /\ \A k \in Pks : archive'.objects[k] = IF k = n THEN snapshot.objects[n] ELSE archive.objects[k]
        /\ archive'.channels = archive.channels
        /\ archive' \in [version : Nat, channels : LabelColumns, objects : ReferenceColumns]
    BY <2>1, <2>2 DEF ArchiveInv, ArchiveTypes, ReferenceColumns, SchemaStates
  <2>4. ArchiveTypes'
    BY <1>3, <2>1, <2>2, <2>3 DEF ArchiveInv, ArchiveTypes
  <2>5. ChannelsUpTo(MaxPk) /\ ObjectsUpTo(lastPk)
    BY <1>3 DEF ArchiveInv, WrittenSound
  <2>6. \A k \in Pks : ObjectIsWanted(k)' = ObjectIsWanted(k) /\ ChannelIsWanted(k)' = ChannelIsWanted(k)
    BY <1>3 DEF ObjectIsWanted, ChannelIsWanted, Seen
  <2>7. \A k \in Pks : k <= n /\ ObjectIsWanted(k) => k <= lastPk \/ k = n
    BY <1>2, <2>2, KeyTypes
  <2>8. ObjectsUpTo(lastPk)'
    <3> SUFFICES ASSUME NEW k \in Pks
                 PROVE  archive'.objects[k] = IF k <= lastPk' /\ ObjectIsWanted(k)' THEN snapshot'.objects[k] ELSE 0
      BY DEF ObjectsUpTo
    <3> QED
      BY <1>3, <2>1, <2>2, <2>3, <2>5, <2>6, <2>7, KeyTypes DEF ObjectsUpTo
  <2>9. ChannelsUpTo(MaxPk)'
    BY <1>3, <2>3, <2>5, <2>6 DEF ChannelsUpTo
  <2>10. WrittenSound'
    BY <1>3, <2>1, <2>8, <2>9 DEF WrittenSound, WrittenSteps
  <2>11. CopySound'
    BY <1>3, <2>1 DEF CopySound
  <2> QED
    BY <1>3, <2>4, <2>10, <2>11 DEF ArchiveInv
<1> QED
  BY <1>4, <1>5

\* A model is written when no wanted key is left after the last one.
LEMMA WritingEnds ==
  ASSUME ArchiveInv, ChannelsWritten \/ ObjectsWritten
  PROVE  ArchiveInv'
<1>1. UNCHANGED <<source, snapshot, archive, wanted, copy>>
  BY DEF ChannelsWritten, ObjectsWritten
<1>2. \A k \in Pks : ObjectIsWanted(k)' = ObjectIsWanted(k) /\ ChannelIsWanted(k)' = ChannelIsWanted(k)
  BY <1>1 DEF ObjectIsWanted, ChannelIsWanted, Seen
<1>3. CASE ChannelsWritten
  <2>1. step = "channels" /\ step' = "objects" /\ lastPk' = 0
    BY <1>3 DEF ChannelsWritten
  <2>2. ChannelsUpTo(lastPk) /\ ObjectsUpTo(0)
    BY <2>1 DEF ArchiveInv, WrittenSound
  <2>3. \A k \in Pks : ChannelIsWanted(k) => (k <= lastPk <=> k <= MaxPk)
    BY <1>3, KeyTypes DEF ChannelsWritten, ArchiveInv, ArchiveTypes
  <2>4. ChannelsUpTo(MaxPk)' /\ ObjectsUpTo(lastPk)'
    BY <1>1, <1>2, <2>1, <2>2, <2>3 DEF ChannelsUpTo, ObjectsUpTo
  <2>5. WrittenSound' /\ CopySound'
    BY <2>1, <2>4 DEF WrittenSound, CopySound, WrittenSteps
  <2>6. ArchiveTypes'
    BY <1>1, <2>1 DEF ArchiveInv, ArchiveTypes
  <2> QED
    BY <1>1, <2>5, <2>6 DEF ArchiveInv
<1>4. CASE ObjectsWritten
  <2>1. step = "objects" /\ step' = "archived" /\ lastPk' = lastPk
    BY <1>4 DEF ObjectsWritten
  <2>2. ChannelsUpTo(MaxPk) /\ ObjectsUpTo(lastPk)
    BY <2>1 DEF ArchiveInv, WrittenSound
  <2>3. \A k \in Pks : ObjectIsWanted(k) => (k <= lastPk <=> k <= MaxPk)
    BY <1>4, KeyTypes DEF ObjectsWritten, ArchiveInv, ArchiveTypes
  <2>4. ChannelsUpTo(MaxPk)' /\ ObjectsUpTo(MaxPk)'
    BY <1>1, <1>2, <2>1, <2>2, <2>3 DEF ChannelsUpTo, ObjectsUpTo
  <2>5. WrittenSound' /\ CopySound'
    BY <2>1, <2>4 DEF WrittenSound, CopySound, WrittenSteps
  <2>6. ArchiveTypes'
    BY <1>1, <2>1 DEF ArchiveInv, ArchiveTypes
  <2> QED
    BY <1>1, <2>5, <2>6 DEF ArchiveInv
<1> QED
  BY <1>3, <1>4

\* The schema that is restored to: empty, or of a partial restore with the initial channel.
LEMMA MakeStep ==
  ASSUME ArchiveInv, MakeSchema
  PROVE  ArchiveInv'
<1>1. step = "archived" /\ lastPk' = 0 /\ UNCHANGED <<source, snapshot, archive, wanted>>
  BY DEF MakeSchema
<1>2. ChannelsUpTo(MaxPk) /\ ObjectsUpTo(MaxPk)
  BY <1>1 DEF ArchiveInv, WrittenSound, WrittenSteps
<1>3. ChannelsUpTo(MaxPk)' /\ ObjectsUpTo(MaxPk)'
  BY <1>1, <1>2 DEF ChannelsUpTo, ObjectsUpTo, ObjectIsWanted, ChannelIsWanted, Seen
<1>4. CASE skewed
  <2>1. step' = "failed" /\ copy' = copy
    BY <1>4 DEF MakeSchema
  <2> QED
    BY <1>1, <2>1 DEF ArchiveInv, ArchiveTypes, WrittenSound, CopySound, WrittenSteps
<1>5. CASE ~skewed
  <2> DEFINE fresh == NewSchema(archive.version)
  <2>1. /\ step' = "restore channels"
        /\ copy' = IF Partial THEN fresh ELSE [fresh EXCEPT !.channels = NoChannels]
    BY <1>5 DEF MakeSchema
  <2>2. fresh \in SchemaStates
    BY NewSchemaSound DEF ArchiveInv, ArchiveTypes
  <2>3. NoChannels \in LabelColumns
    BY DEF NoChannels, LabelColumns
  <2>4. copy' \in SchemaStates
    BY <2>1, <2>2, <2>3 DEF SchemaStates
  <2>5. ArchiveTypes'
    BY <1>1, <2>1, <2>4 DEF ArchiveInv, ArchiveTypes
  <2>6. WrittenSound'
    BY <1>3, <2>1 DEF WrittenSound, WrittenSteps
  <2>7. copy'.objects = NoObjects
    BY <2>1 DEF NewSchema
  <2>8. ASSUME Partial
        PROVE  CopySound'
    <3>1. copy'.channels = [NoChannels EXCEPT ![1] = InitialLabel]
      BY <2>1, <2>8 DEF NewSchema
    <3>2. \A k \in Pks : copy'.channels[k] = IF k = 1 THEN InitialLabel ELSE NoLabel
      BY <3>1 DEF NoChannels
    <3>3. Partial'
      BY <1>1, <2>8 DEF Partial
    <3>4. CopiedUpTo(lastPk)'
      BY <3>2, <3>3, KeyTypes DEF CopiedUpTo
    <3> QED
      BY <2>1, <2>7, <3>4 DEF CopySound
  <2>9. ASSUME ~Partial
        PROVE  CopySound'
    <3>1. copy'.channels = NoChannels
      BY <2>1, <2>2, <2>9 DEF SchemaStates
    <3>2. \A k \in Pks : ~(k <= 0)
      BY KeyTypes
    <3>3. ~Partial'
      BY <1>1, <2>9 DEF Partial
    <3>4. CopiedUpTo(lastPk)'
      BY <1>1, <3>1, <3>2, <3>3 DEF CopiedUpTo, NoChannels
    <3> QED
      BY <2>1, <2>7, <3>4 DEF CopySound
  <2> QED
    BY <1>1, <2>5, <2>6, <2>8, <2>9 DEF ArchiveInv
<1> QED
  BY <1>4, <1>5

\* A partial backup has no other channel than the initial one.
LEMMA ArchivedLabels ==
  ASSUME ArchiveInv, step \in WrittenSteps, Partial, NEW k \in Pks, archive.channels[k] # NoLabel
  PROVE  archive.channels[k] = InitialLabel
<1>1. wanted = {InitialLabel}
  BY DEF ArchiveInv, ArchiveTypes, Partial
<1>2. ChannelIsWanted(k) /\ archive.channels[k] = snapshot.channels[k]
  BY DEF ArchiveInv, WrittenSound, ChannelsUpTo
<1> QED
  BY <1>1, <1>2 DEF ChannelIsWanted, Seen

\* Restoring the next channel, under its key or that of the channel of its name.
LEMMA RestoreChannelStep ==
  ASSUME ArchiveInv, RestoreChannel
  PROVE  ArchiveInv'
<1> DEFINE rest == {k \in Pks : k > lastPk /\ archive.channels[k] # NoLabel}
<1>1. step = "restore channels" /\ UNCHANGED <<source, snapshot, archive, wanted>>
  BY DEF RestoreChannel
<1>2. ChannelsUpTo(MaxPk) /\ ObjectsUpTo(MaxPk)
  BY <1>1 DEF ArchiveInv, WrittenSound, WrittenSteps
<1>3. ChannelsUpTo(MaxPk)' /\ ObjectsUpTo(MaxPk)'
  BY <1>1, <1>2 DEF ChannelsUpTo, ObjectsUpTo, ObjectIsWanted, ChannelIsWanted, Seen
<1>4. CopiedUpTo(lastPk) /\ copy.objects = NoObjects
  BY <1>1 DEF ArchiveInv, CopySound
<1>5. lastPk \in Nat /\ copy \in SchemaStates /\ Partial' = Partial
  <2>1. lastPk \in Pks \cup {0} /\ copy \in SchemaStates
    BY DEF ArchiveInv, ArchiveTypes
  <2>2. lastPk \in Nat
    BY <2>1, KeyTypes
  <2>3. Partial' = Partial
    BY <1>1 DEF Partial
  <2> QED
    BY <2>1, <2>2, <2>3
<1>6. CASE rest = {}
  <2>1. step' = "restore objects" /\ lastPk' = 0 /\ copy' = copy
    BY <1>6 DEF RestoreChannel
  <2>2. CopiedUpTo(MaxPk)
    <3>1. CASE Partial
      BY <1>4, <3>1 DEF CopiedUpTo
    <3>2. CASE ~Partial
      <4>1. \A k \in Pks : k <= MaxPk /\ (k <= lastPk \/ archive.channels[k] = NoLabel)
        BY <1>5, <1>6, KeyTypes
      <4> QED
        BY <1>4, <3>2, <4>1 DEF CopiedUpTo
    <3> QED
      BY <3>1, <3>2
  <2>3. CopiedUpTo(MaxPk)'
    BY <1>1, <1>5, <2>1, <2>2 DEF CopiedUpTo
  <2>4. CopySound'
    BY <1>4, <2>1, <2>3 DEF CopySound
  <2>5. ArchiveTypes' /\ WrittenSound'
    BY <1>1, <1>3, <2>1 DEF ArchiveInv, ArchiveTypes, WrittenSound, WrittenSteps
  <2> QED
    BY <1>1, <2>4, <2>5 DEF ArchiveInv
<1>7. CASE rest # {}
  <2>1. PICK n \in rest : n = NextOf(rest) /\ \A k \in rest : n <= k
    BY <1>7, FirstKey
  <2>2. PICK to : to = KeyFor(n)
    OBVIOUS
  <2>3. /\ copy' = [copy EXCEPT !.channels[to] = archive.channels[n]]
        /\ lastPk' = n /\ step' = step
    BY <1>7, <2>1, <2>2 DEF RestoreChannel
  <2>4. /\ n \in Pks /\ n > lastPk /\ archive.channels[n] # NoLabel
        /\ archive.channels[n] \in Labels \cup {NoLabel}
    BY <2>1 DEF ArchiveInv, ArchiveTypes, LabelColumns
  <2>5. to \in Pks /\ (~Partial => to = n)
    <3> DEFINE same == {j \in Pks : copy.channels[j] = archive.channels[n]}
    <3>1. CASE Partial /\ same # {}
      <4>1. NextOf(same) \in same
        BY <3>1, FirstKey
      <4> QED
        BY <2>2, <3>1, <4>1 DEF KeyFor
    <3>2. CASE ~(Partial /\ same # {})
      BY <2>2, <2>4, <3>2 DEF KeyFor
    <3> QED
      BY <3>1, <3>2
  <2>6. /\ \A k \in Pks : copy'.channels[k] = IF k = to THEN archive.channels[n] ELSE copy.channels[k]
        /\ copy'.objects = copy.objects
        /\ copy' \in SchemaStates
    BY <1>5, <2>3, <2>4, <2>5 DEF SchemaStates, LabelColumns
  <2>7. CopiedUpTo(lastPk)'
    <3>1. CASE Partial
      <4>1. archive.channels[n] = InitialLabel
        BY <1>1, <2>4, <3>1, ArchivedLabels DEF WrittenSteps
      <4>2. PICK k \in Pks : copy.channels[k] = InitialLabel
        BY <1>4, <3>1 DEF CopiedUpTo
      <4>3. copy'.channels[k] = InitialLabel
        BY <2>6, <4>1, <4>2
      <4>4. \A j \in Pks : copy'.channels[j] \in {NoLabel, InitialLabel}
        BY <1>4, <2>6, <3>1, <4>1 DEF CopiedUpTo
      <4> QED
        BY <1>5, <3>1, <4>3, <4>4 DEF CopiedUpTo
    <3>2. CASE ~Partial
      <4>1. \A k \in Pks : copy.channels[k] = IF k <= lastPk THEN archive.channels[k] ELSE NoLabel
        BY <1>4, <3>2 DEF CopiedUpTo
      <4>2. \A k \in Pks : k <= n => k <= lastPk \/ k = n \/ archive.channels[k] = NoLabel
        BY <1>5, <2>1, <2>4, KeyTypes
      <4>3. \A k \in Pks : k <= lastPk => k <= n
        BY <1>5, <2>4, KeyTypes
      <4>4. n <= n
        BY <2>4, KeyTypes
      <4>5. \A k \in Pks : copy'.channels[k] = IF k <= n THEN archive.channels[k] ELSE NoLabel
        BY <2>5, <2>6, <3>2, <4>1, <4>2, <4>3, <4>4
      <4> QED
        BY <1>1, <1>5, <2>3, <3>2, <4>5 DEF CopiedUpTo
    <3> QED
      BY <3>1, <3>2
  <2>8. CopySound'
    BY <1>1, <1>4, <2>3, <2>6, <2>7 DEF CopySound
  <2>9. ArchiveTypes' /\ WrittenSound'
    BY <1>1, <1>3, <2>3, <2>4, <2>6 DEF ArchiveInv, ArchiveTypes, WrittenSound, WrittenSteps
  <2> QED
    BY <1>1, <2>8, <2>9 DEF ArchiveInv
<1> QED
  BY <1>6, <1>7

\* Restoring objects, the next keys, and the check of references.
LEMMA RestoreObjectsStep ==
  ASSUME ArchiveInv, RestoreObjects
  PROVE  ArchiveInv'
<1>1. step = "restore objects" /\ UNCHANGED <<source, snapshot, archive, wanted, lastPk>>
  BY DEF RestoreObjects
<1>2. ChannelsUpTo(MaxPk) /\ ObjectsUpTo(MaxPk)
  BY <1>1 DEF ArchiveInv, WrittenSound, WrittenSteps
<1>3. ChannelsUpTo(MaxPk)' /\ ObjectsUpTo(MaxPk)'
  BY <1>1, <1>2 DEF ChannelsUpTo, ObjectsUpTo, ObjectIsWanted, ChannelIsWanted, Seen
<1>4. CopiedUpTo(MaxPk) /\ copy \in SchemaStates
  BY <1>1 DEF ArchiveInv, ArchiveTypes, CopySound
<1>5. CASE \E o \in Pks : archive.objects[o] # 0 /\ copy.channels[archive.objects[o]] = NoLabel
  <2>1. step' = "failed" /\ copy' = copy
    BY <1>5 DEF RestoreObjects
  <2> QED
    BY <1>1, <2>1 DEF ArchiveInv, ArchiveTypes, WrittenSound, CopySound, WrittenSteps
<1>6. CASE ~\E o \in Pks : archive.objects[o] # 0 /\ copy.channels[archive.objects[o]] = NoLabel
  <2> DEFINE taken == {k \in Pks : copy.channels[k] # NoLabel}
             made == {o \in Pks : archive.objects[o] # 0}
  <2>1. PICK nc : nc = AfterLast(copy.nextChannel, taken)
    OBVIOUS
  <2>2. PICK no : no = AfterLast(copy.nextObject, made)
    OBVIOUS
  <2>3. /\ nc \in Nat \ {0} /\ \A k \in taken : k < nc
        /\ no \in Nat \ {0} /\ \A k \in made : k < no
    BY <2>1, <2>2, LastKey
  <2>4. /\ step' = "restored"
        /\ copy' = [copy EXCEPT !.objects = archive.objects, !.nextChannel = nc, !.nextObject = no, !.version = 2]
    BY <1>6, <2>1, <2>2, <1>4 DEF RestoreObjects, SchemaStates
  <2>5. archive.objects \in ReferenceColumns
    BY DEF ArchiveInv, ArchiveTypes
  <2>6. /\ copy' \in SchemaStates /\ copy'.channels = copy.channels /\ copy'.objects = archive.objects
        /\ copy'.nextChannel = nc /\ copy'.nextObject = no
    BY <1>4, <2>3, <2>4, <2>5 DEF SchemaStates
  <2>7. CopiedUpTo(MaxPk)'
    BY <1>1, <1>4, <2>6 DEF CopiedUpTo, Partial
  <2>8. /\ \A k \in Pks : k >= nc => copy.channels[k] = NoLabel
        /\ \A o \in Pks : o >= no => archive.objects[o] = 0
    <3>1. \A k \in Pks : k \in Nat
      BY KeyTypes
    <3>2. ASSUME NEW k \in Pks, k >= nc
          PROVE  copy.channels[k] = NoLabel
      BY <2>3, <3>1, <3>2
    <3>3. ASSUME NEW o \in Pks, o >= no
          PROVE  archive.objects[o] = 0
      BY <2>3, <3>1, <3>3
    <3> QED
      BY <3>2, <3>3
  <2>9. CopySound'
    BY <1>1, <1>6, <2>4, <2>6, <2>7, <2>8 DEF CopySound
  <2>10. ArchiveTypes' /\ WrittenSound'
    BY <1>1, <1>3, <2>4, <2>6 DEF ArchiveInv, ArchiveTypes, WrittenSound, WrittenSteps
  <2> QED
    BY <1>1, <2>9, <2>10 DEF ArchiveInv
<1> QED
  BY <1>5, <1>6

\* The invariant of backups is inductive.
LEMMA ArchiveSteps ==
  ASSUME ArchiveInv, [ArchiveNext]_archiveVars
  PROVE  ArchiveInv'
<1>1. CASE UNCHANGED archiveVars
  <2>1. UNCHANGED <<source, snapshot, archive, wanted, step, lastPk, copy>>
    BY <1>1 DEF archiveVars
  <2> QED
    BY <2>1, SourceStep DEF ArchiveInv, ArchiveTypes
<1>2. CASE ArchiveNext
  BY <1>2, InstanceChanges, WritingStarts, ChannelStep, ObjectStep, WritingEnds, MakeStep,
     RestoreChannelStep, RestoreObjectsStep DEF ArchiveNext
<1> QED
  BY <1>1, <1>2

\* The invariant says what a backup and a restore promise.
LEMMA FaithfulState == ArchiveInv => BackupIsFaithful
<1> SUFFICES ASSUME ArchiveInv PROVE BackupIsFaithful
  OBVIOUS
<1> USE DEF WrittenSteps
<1>1. ArchiveIsSnapshot
  <2> SUFFICES ASSUME step = "archived" PROVE ArchiveIsSnapshot
    BY DEF ArchiveIsSnapshot
  <2>1. ChannelsUpTo(MaxPk) /\ ObjectsUpTo(MaxPk) /\ InOrder(snapshot)
    BY DEF ArchiveInv, WrittenSound
  <2>2. archive.channels \in LabelColumns /\ snapshot \in SchemaStates /\ NoLabel \notin wanted
    BY KeyTypes DEF ArchiveInv, ArchiveTypes
  <2>3. \A k \in Pks : archive.channels[k] =
            IF snapshot.channels[k] \in wanted THEN snapshot.channels[k] ELSE NoLabel
    BY <2>1, KeyTypes DEF ChannelsUpTo, ChannelIsWanted, Seen
  <2>4. archive.channels = [k \in Pks |-> IF snapshot.channels[k] \in wanted THEN snapshot.channels[k] ELSE NoLabel]
    BY <2>2, <2>3 DEF LabelColumns
  <2>5. ASSUME NEW o \in Pks
        PROVE  archive.objects[o] =
            IF snapshot.objects[o] # 0 /\ archive.channels[snapshot.objects[o]] # NoLabel THEN snapshot.objects[o] ELSE 0
    <3>1. archive.objects[o] = IF ObjectIsWanted(o) THEN snapshot.objects[o] ELSE 0
      BY <2>1, KeyTypes DEF ObjectsUpTo
    <3>2. snapshot.objects[o] \in Pks \cup {0}
      BY <2>2 DEF SchemaStates, ReferenceColumns
    <3>3. CASE snapshot.objects[o] # 0
      <4>1. ObjectIsWanted(o) <=> archive.channels[snapshot.objects[o]] # NoLabel
        BY <2>2, <2>3, <3>2, <3>3 DEF ObjectIsWanted, ChannelIsWanted, Seen
      <4> QED
        BY <3>1, <3>3, <4>1
    <3>4. CASE snapshot.objects[o] = 0
      BY <3>1, <3>4 DEF ObjectIsWanted, Seen
    <3> QED
      BY <3>3, <3>4
  <2> QED
    BY <2>4, <2>5 DEF ArchiveIsSnapshot
<1>2. RestoredIsArchived
  <2> SUFFICES ASSUME step = "restored" PROVE RestoredIsArchived
    BY DEF RestoredIsArchived
  <2>1. /\ CopiedUpTo(MaxPk) /\ copy.objects = archive.objects
        /\ \A k \in Pks : k >= copy.nextChannel => copy.channels[k] = NoLabel
        /\ \A o \in Pks : o >= copy.nextObject => copy.objects[o] = 0
        /\ \A o \in Pks : archive.objects[o] # 0 => copy.channels[archive.objects[o]] # NoLabel
    BY DEF ArchiveInv, CopySound
  <2>2. archive.channels \in LabelColumns /\ copy.channels \in LabelColumns /\ archive.objects \in ReferenceColumns
    BY DEF ArchiveInv, ArchiveTypes, SchemaStates
  <2>3. CASE ~Partial
    <3>1. \A k \in Pks : copy.channels[k] = IF k <= MaxPk THEN archive.channels[k] ELSE NoLabel
      BY <2>1, <2>3 DEF CopiedUpTo
    <3>2. \A k \in Pks : copy.channels[k] = archive.channels[k]
      BY <3>1, KeyTypes
    <3>3. copy.channels = archive.channels
      BY <2>2, <3>2 DEF LabelColumns
    <3> QED
      BY <2>1, <2>2, <2>3, <3>3 DEF RestoredIsArchived, ReferenceColumns
  <2>4. CASE Partial
    <3>1. \A k \in Pks : archive.channels[k] # NoLabel => archive.channels[k] = InitialLabel
      BY <2>4, ArchivedLabels
    <3>2. ASSUME NEW o \in Pks, archive.objects[o] # 0
          PROVE  copy.channels[archive.objects[o]] = archive.channels[archive.objects[o]]
      <4>1. ObjectsUpTo(MaxPk) /\ ChannelsUpTo(MaxPk) /\ wanted = {InitialLabel}
        BY <2>4 DEF ArchiveInv, ArchiveTypes, WrittenSound, Partial
      <4>2. ObjectIsWanted(o) /\ archive.objects[o] = snapshot.objects[o]
        BY <3>2, <4>1 DEF ObjectsUpTo
      <4>3. archive.objects[o] \in Pks
        BY <2>2, <3>2 DEF ReferenceColumns
      <4>4. archive.channels[archive.objects[o]] = InitialLabel
        BY <4>1, <4>2, <4>3, KeyTypes DEF ChannelsUpTo, ObjectIsWanted, ChannelIsWanted, Seen
      <4> QED
        BY <2>1, <2>4, <3>2, <4>3, <4>4 DEF CopiedUpTo
    <3>3. \E k \in Pks : copy.channels[k] = InitialLabel
      BY <2>1, <2>4 DEF CopiedUpTo
    <3> QED
      BY <2>1, <2>4, <3>1, <3>2, <3>3 DEF RestoredIsArchived
  <2> QED
    BY <2>3, <2>4
<1> QED
  BY <1>1, <1>2 DEF BackupIsFaithful

\* Whatever happens to the instance meanwhile, and for any number of rows: an archive is one
\* state of it, and a restore that succeeds brings back every row asked for, with its
\* references, and leaves the next keys free (ModelBackup.backup, save_batch, reset_sequences).
THEOREM BackupIsFaithfulHolds ==
  ArchiveInit /\ [][ArchiveNext]_archiveVars => []BackupIsFaithful
<1>1. ArchiveInit => ArchiveInv
  BY ArchiveStart
<1>2. ArchiveInv /\ [ArchiveNext]_archiveVars => ArchiveInv'
  BY ArchiveSteps
<1>3. ArchiveInv => BackupIsFaithful
  BY FaithfulState
<1> QED
  BY <1>1, <1>2, <1>3, PTL

-----------------------------------------------------------------------------
(* Migrations: threads have instances of their own, and each relies on what *)
(* it has done to its instance, on the loader only if it set it last.       *)

InitialData == {"profile", "configs", "channels", "templates"}

SchemaRows ==
    [made : {"no", "yes"}, tables : 0..Latest, recorded : 0..Latest, sql : {"no", "yes"},
     defaults : SUBSET InitialData]

ThreadSteps == {"parked", "schema", "patch", "execute", "restore", "populate", "sql", "signal"}

MigrationsTypeOK ==
    /\ tenantRows \subseteq Tenants
    /\ schema \in [Tenants -> SchemaRows]
    /\ loader \in {"original", "none"}
    /\ command \in {"ended", "public", "tenants", "broken", "failed"}
    /\ thread \in [Threads -> [pc : ThreadSteps, rest : SUBSET Tenants, created : {"yes", "no"}]]
    /\ known \in [Threads -> {{}, {0}, {Latest}}]
    /\ commands \in Nat

AtLatest(t) == schema[t].tables = Latest /\ schema[t].recorded = Latest

\* What a thread relies on at its next step.
LoaderSound(w) ==
    /\ thread[w].pc = "execute" /\ setBy = {w} => (loader = "none" <=> thread[w].created = "yes")
    /\ thread[w].pc = "populate" /\ setBy = {w} => loader = "original"

StageSound(w, t) ==
    /\ thread[w].pc \notin {"parked", "schema"} => schema[t].made = "yes"
    /\ thread[w].pc \in {"restore", "populate"} => thread[w].created = "yes" /\ schema[t].tables = Latest
    /\ thread[w].pc \in {"sql", "signal"} => t \in misled \/ AtLatest(t)
    /\ thread[w].pc = "signal" /\ thread[w].created = "yes" => t \in unindexed \/ schema[t].sql = "yes"

ThreadSound(w) ==
    /\ thread[w].pc = "parked" <=> thread[w].rest = {}
    /\ LoaderSound(w)
    /\ thread[w].pc # "parked" => StageSound(w, Current(w))

\* No two threads have the same instance, and none has one of a job that is left.
RangesApart ==
    /\ \A w \in Threads : \A t \in thread[w].rest : t \in tenantRows /\ RangeOf[t] \notin jobs
    /\ \A v, w \in Threads : v # w => thread[v].rest \cap thread[w].rest = {}
    /\ \A j \in jobs : \E t \in tenantRows : RangeOf[t] = j

SchemaSound(t) ==
    /\ schema[t].recorded <= schema[t].tables
    /\ schema[t].made = "yes" /\ t \notin halfway =>
        /\ schema[t].defaults = InitialData
        /\ t \notin unindexed => schema[t].sql = "yes"

Migrated(t) == schema[t].made = "yes" /\ (t \in misled \/ AtLatest(t))

\* How far the command has come.
CommandSound ==
    /\ command \in {"ended", "failed", "public"} => AllParked
    /\ command \in {"tenants", "broken"} => publicAt = Latest
    /\ command = "tenants" =>
        \A t \in tenantRows : RangeOf[t] \in jobs \/ (\E w \in Threads : t \in thread[w].rest) \/ Migrated(t)
    /\ command = "ended" /\ commands > 0 =>
        publicAt = Latest /\ FirstTenant \in tenantRows /\ \A t \in tenantRows : Migrated(t)

MigrationsInv ==
    /\ MigrationsTypeOK
    /\ \A w \in Threads : ThreadSound(w)
    /\ RangesApart
    /\ \A t \in Tenants : SchemaSound(t)
    /\ CommandSound

\* The next instance of a range is one of it.
LEMMA CurrentThere ==
  ASSUME MigrationsTypeOK, NEW w \in Threads, thread[w].rest # {}
  PROVE  Current(w) \in thread[w].rest /\ Current(w) \in Tenants
<1> DEFINE S == thread[w].rest
<1>1. S \subseteq Tenants /\ S \subseteq Nat
  BY MigrationsAssumption DEF MigrationsTypeOK
<1>2. PICK m \in S : \A x \in S : ~(<<x, m>> \in OpToRel(<, Nat))
  BY <1>1, NatLessThanWellFounded, WFMin
<1>3. \A x \in S : ~(x < m)
  BY <1>1, <1>2 DEF OpToRel
<1>4. \A x \in S : m <= x
  BY <1>1, <1>3
<1>5. Current(w) \in S
  BY <1>4 DEF Current
<1> QED
  BY <1>1, <1>5

\* No command has run in the initial state.
LEMMA MigrationsStart == MigrationsInit => MigrationsInv
<1> SUFFICES ASSUME MigrationsInit PROVE MigrationsInv
  OBVIOUS
<1>1. Latest \in Nat /\ Latest - 1 \in 0..Latest /\ 0 \in 0..Latest
  BY MigrationsAssumption
<1>2. NoSchema \in SchemaRows /\ OldSchema(Latest - 1) \in SchemaRows
  BY <1>1 DEF NoSchema, OldSchema, SchemaRows, InitialData
<1>3. \A t \in Tenants : schema[t] \in {NoSchema, OldSchema(Latest - 1)}
  BY DEF MigrationsInit
<1>4. MigrationsTypeOK
  BY <1>2 DEF MigrationsInit, MigrationsTypeOK, Parked, ThreadSteps
<1>5. \A w \in Threads : ThreadSound(w)
  BY DEF MigrationsInit, ThreadSound, LoaderSound, Parked
<1>6. RangesApart
  BY DEF MigrationsInit, RangesApart, Parked
<1>7. \A t \in Tenants : SchemaSound(t)
  <2> SUFFICES ASSUME NEW t \in Tenants PROVE SchemaSound(t)
    OBVIOUS
  <2>1. CASE schema[t] = NoSchema
    BY <2>1 DEF SchemaSound, NoSchema
  <2>2. CASE schema[t] = OldSchema(Latest - 1)
    BY <1>1, <2>2 DEF SchemaSound, OldSchema, InitialData
  <2> QED
    BY <1>3, <2>1, <2>2
<1>8. CommandSound
  BY DEF MigrationsInit, CommandSound, AllParked, Parked
<1> QED
  BY <1>4, <1>5, <1>6, <1>7, <1>8 DEF MigrationsInv

\* What a step of a thread on an instance may change.
WorkFrame(w, t) ==
    /\ tenantRows' = tenantRows /\ publicAt' = publicAt /\ jobs' = jobs /\ commands' = commands
    /\ \A v \in Threads : v # w => thread'[v] = thread[v]
    /\ \A u \in Tenants : u # t => schema'[u] = schema[u]
    /\ misled \subseteq misled' /\ unindexed \subseteq unindexed'
    /\ \A u \in Tenants : u # t => (u \in halfway => u \in halfway')
    /\ (loader' = loader /\ setBy' = setBy) \/ setBy' = {w}
    /\ command' = command \/ command' = "broken"

\* A step of a thread on its instance leaves the other threads and instances sound.
LEMMA OthersSound ==
  ASSUME MigrationsInv, NEW w \in Threads, NEW t \in thread[w].rest, WorkFrame(w, t),
         thread'[w].rest \subseteq thread[w].rest
  PROVE  /\ \A v \in Threads : v # w => ThreadSound(v)'
         /\ RangesApart'
         /\ \A u \in Tenants : u # t => SchemaSound(u)'
         /\ \A u \in Tenants : u # t /\ Migrated(u) => Migrated(u)'
<1>1. ASSUME NEW v \in Threads, v # w
      PROVE  ThreadSound(v)'
  <2>1. thread'[v] = thread[v] /\ ThreadSound(v)
    BY <1>1 DEF WorkFrame, MigrationsInv
  <2>2. Current(v)' = Current(v)
    BY <2>1 DEF Current
  <2>3. LoaderSound(v)'
    BY <1>1, <2>1 DEF WorkFrame, ThreadSound, LoaderSound
  <2>4. CASE thread[v].pc = "parked"
    BY <2>1, <2>3, <2>4 DEF ThreadSound
  <2>5. CASE thread[v].pc # "parked"
    <3>1. thread[v].rest # {}
      BY <2>1, <2>5 DEF ThreadSound
    <3>2. PICK u : u = Current(v)
      OBVIOUS
    <3>3. u \in thread[v].rest /\ u \in Tenants
      BY <3>1, <3>2, CurrentThere DEF MigrationsInv
    <3>4. u # t
      BY <1>1, <3>3 DEF MigrationsInv, RangesApart
    <3>5. schema'[u] = schema[u]
      BY <3>3, <3>4 DEF WorkFrame
    <3>6. StageSound(v, u)
      BY <2>1, <2>5, <3>2 DEF ThreadSound
    <3>7. StageSound(v, u)'
      BY <2>1, <3>5, <3>6 DEF StageSound, AtLatest, WorkFrame
    <3>8. StageSound(v, Current(v))'
      BY <2>2, <3>2, <3>7 DEF StageSound, AtLatest
    <3> QED
      BY <2>1, <2>3, <3>8 DEF ThreadSound
  <2> QED
    BY <2>4, <2>5
<1>2. RangesApart'
  <2>1. \A v \in Threads : thread'[v].rest \subseteq thread[v].rest
    BY DEF WorkFrame
  <2> QED
    BY <2>1 DEF WorkFrame, MigrationsInv, RangesApart
<1>3. ASSUME NEW u \in Tenants, u # t
      PROVE  SchemaSound(u)'
  <2>1. schema'[u] = schema[u] /\ SchemaSound(u) /\ (u \in halfway => u \in halfway') /\ (u \in unindexed => u \in unindexed')
    BY <1>3 DEF WorkFrame, MigrationsInv
  <2> QED
    BY <2>1 DEF SchemaSound
<1>4. ASSUME NEW u \in Tenants, u # t, Migrated(u)
      PROVE  Migrated(u)'
  BY <1>4 DEF WorkFrame, Migrated, AtLatest
<1> QED
  BY <1>1, <1>2, <1>3, <1>4

\* A thread's step on its instance, when the instance stays in its range or is migrated.
LEMMA WorkStep ==
  ASSUME MigrationsInv, MigrationsTypeOK', NEW w \in Threads, thread[w].pc # "parked",
         NEW t \in Tenants, t = Current(w), WorkFrame(w, t), ThreadSound(w)', SchemaSound(t)',
         \/ thread'[w].rest = thread[w].rest
         \/ thread'[w].rest = thread[w].rest \ {t} /\ Migrated(t)'
         \/ thread'[w].rest = {} /\ command' = "broken"
  PROVE  MigrationsInv'
<1>1. t \in thread[w].rest
  BY CurrentThere DEF MigrationsInv, ThreadSound
<1>2. thread'[w].rest \subseteq thread[w].rest
  OBVIOUS
<1>3. /\ \A v \in Threads : v # w => ThreadSound(v)'
      /\ RangesApart'
      /\ \A u \in Tenants : u # t => SchemaSound(u)'
      /\ \A u \in Tenants : u # t /\ Migrated(u) => Migrated(u)'
  BY <1>1, <1>2, OthersSound
<1>4. command \in {"tenants", "broken"}
  BY DEF MigrationsInv, MigrationsTypeOK, CommandSound, AllParked
<1>5. publicAt' = Latest
  BY <1>4 DEF MigrationsInv, CommandSound, WorkFrame
<1>6. command' = "tenants" =>
        \A u \in tenantRows' : RangeOf[u] \in jobs' \/ (\E v \in Threads : u \in thread'[v].rest) \/ Migrated(u)'
  <2> SUFFICES ASSUME command' = "tenants", NEW u \in tenantRows, RangeOf[u] \notin jobs,
                      ~\E v \in Threads : u \in thread'[v].rest
               PROVE  Migrated(u)'
    BY DEF WorkFrame
  <2>1. command = "tenants"
    BY <1>4 DEF WorkFrame
  <2>2. u \in Tenants /\ ((\E v \in Threads : u \in thread[v].rest) \/ Migrated(u))
    BY <2>1 DEF MigrationsInv, MigrationsTypeOK, CommandSound
  <2>3. CASE u = t
    BY <1>1, <2>3
  <2>4. CASE u # t
    <3>1. ~\E v \in Threads : u \in thread[v].rest
      BY <2>4 DEF WorkFrame
    <3> QED
      BY <1>3, <2>2, <2>4, <3>1
  <2> QED
    BY <2>3, <2>4
<1>7. CommandSound'
  BY <1>4, <1>5, <1>6 DEF CommandSound, WorkFrame
<1> QED
  BY <1>3, <1>7 DEF MigrationsInv

\* A thread goes on with the same instance.
LEMMA NextStep ==
  ASSUME MigrationsTypeOK, NEW w \in Threads, NEW pc \in ThreadSteps, Goes(w, pc)
  PROVE  /\ \A v \in Threads : v # w => thread'[v] = thread[v]
         /\ thread'[w].pc = pc /\ thread'[w].rest = thread[w].rest /\ thread'[w].created = thread[w].created
         /\ Current(w)' = Current(w)
         /\ thread' \in [Threads -> [pc : ThreadSteps, rest : SUBSET Tenants, created : {"yes", "no"}]]
<1>1. thread \in [Threads -> [pc : ThreadSteps, rest : SUBSET Tenants, created : {"yes", "no"}]]
  BY DEF MigrationsTypeOK
<1>2. thread' = [thread EXCEPT ![w].pc = pc]
  BY DEF Goes
<1>3. /\ \A v \in Threads : v # w => thread'[v] = thread[v]
      /\ thread'[w] = [thread[w] EXCEPT !.pc = pc]
      /\ thread' \in [Threads -> [pc : ThreadSteps, rest : SUBSET Tenants, created : {"yes", "no"}]]
  BY <1>1, <1>2
<1>4. thread'[w].pc = pc /\ thread'[w].rest = thread[w].rest /\ thread'[w].created = thread[w].created
  BY <1>1, <1>3
<1>5. Current(w)' = Current(w)
  BY <1>4 DEF Current
<1> QED
  BY <1>3, <1>4, <1>5

\* What holds of a thread that works, and of its instance.
LEMMA AtWork ==
  ASSUME MigrationsInv, NEW w \in Threads, thread[w].pc # "parked"
  PROVE  /\ Current(w) \in thread[w].rest /\ Current(w) \in Tenants /\ thread[w].rest # {}
         /\ StageSound(w, Current(w)) /\ LoaderSound(w)
         /\ SchemaSound(Current(w)) /\ schema[Current(w)] \in SchemaRows
<1>1. thread[w].rest # {}
  BY DEF MigrationsInv, ThreadSound
<1>2. Current(w) \in thread[w].rest /\ Current(w) \in Tenants
  BY <1>1, CurrentThere DEF MigrationsInv
<1> QED
  BY <1>1, <1>2 DEF MigrationsInv, ThreadSound, MigrationsTypeOK

\* A schema is created, or found.
LEMMA MigrateSchemaStep ==
  ASSUME MigrationsInv, NEW w \in Threads, MigrateSchema(w)
  PROVE  MigrationsInv'
<1> PICK t : t = Current(w)
  OBVIOUS
<1>1. thread[w].pc = "schema"
  BY DEF MigrateSchema
<1>2. PICK new \in {"yes", "no"} : new = IF schema[t].made = "no" THEN "yes" ELSE "no"
  OBVIOUS
<1>3. /\ schema' = [schema EXCEPT ![t].made = "yes"]
      /\ thread' = [thread EXCEPT ![w].pc = "patch", ![w].created = new]
      /\ halfway' = IF new = "yes" THEN halfway \cup {t} ELSE halfway
      /\ UNCHANGED <<tenantRows, publicAt, loader, setBy, command, jobs, known, commands, misled, unindexed>>
  BY <1>2 DEF MigrateSchema
<1>4. /\ t \in thread[w].rest /\ t \in Tenants /\ thread[w].rest # {}
      /\ SchemaSound(t) /\ schema[t] \in SchemaRows
  BY <1>1, AtWork
<1>5. /\ schema \in [Tenants -> SchemaRows]
      /\ thread \in [Threads -> [pc : ThreadSteps, rest : SUBSET Tenants, created : {"yes", "no"}]]
  BY DEF MigrationsInv, MigrationsTypeOK
<1>6. /\ schema'[t] = [schema[t] EXCEPT !.made = "yes"] /\ schema' \in [Tenants -> SchemaRows]
      /\ \A u \in Tenants : u # t => schema'[u] = schema[u]
  BY <1>3, <1>4, <1>5 DEF SchemaRows
<1>7. /\ thread'[w] = [thread[w] EXCEPT !.pc = "patch", !.created = new]
      /\ \A v \in Threads : v # w => thread'[v] = thread[v]
      /\ thread' \in [Threads -> [pc : ThreadSteps, rest : SUBSET Tenants, created : {"yes", "no"}]]
  BY <1>3, <1>5 DEF ThreadSteps
<1>8. thread'[w].pc = "patch" /\ thread'[w].rest = thread[w].rest
  BY <1>5, <1>7
<1>9. /\ schema'[t].made = "yes" /\ schema'[t].tables = schema[t].tables /\ schema'[t].recorded = schema[t].recorded
      /\ schema'[t].sql = schema[t].sql /\ schema'[t].defaults = schema[t].defaults
  BY <1>4, <1>6 DEF SchemaRows
<1>10. Current(w)' = t
  BY <1>8 DEF Current
<1>11. MigrationsTypeOK'
  BY <1>3, <1>6, <1>7 DEF MigrationsInv, MigrationsTypeOK
<1>12. StageSound(w, t)'
  BY <1>8, <1>9 DEF StageSound
<1>13. ThreadSound(w)'
  BY <1>4, <1>8, <1>10, <1>12 DEF ThreadSound, LoaderSound, StageSound, AtLatest
<1>14. schema[t].made = "yes" \/ t \in halfway'
  BY <1>2, <1>3, <1>4 DEF SchemaRows
<1>15. SchemaSound(t)'
  BY <1>3, <1>4, <1>9, <1>14 DEF SchemaSound
<1>16. WorkFrame(w, t)
  BY <1>3, <1>6, <1>7 DEF WorkFrame
<1> QED
  BY <1>1, <1>4, <1>8, <1>11, <1>13, <1>15, <1>16, WorkStep

\* The loader of all threads is replaced.
LEMMA PatchLoaderStep ==
  ASSUME MigrationsInv, NEW w \in Threads, PatchLoader(w)
  PROVE  MigrationsInv'
<1> PICK t : t = Current(w)
  OBVIOUS
<1>1. /\ thread[w].pc = "patch" /\ Goes(w, "execute") /\ setBy' = {w}
      /\ loader' = IF thread[w].created = "yes" THEN "none" ELSE "original"
      /\ UNCHANGED <<tenantRows, publicAt, schema, command, jobs, known, commands, misled, halfway, unindexed>>
  BY DEF PatchLoader
<1>2. /\ t \in thread[w].rest /\ t \in Tenants /\ thread[w].rest # {}
      /\ StageSound(w, t) /\ SchemaSound(t)
  BY <1>1, AtWork
<1>3. "execute" \in ThreadSteps
  BY DEF ThreadSteps
<1>4. /\ \A v \in Threads : v # w => thread'[v] = thread[v]
      /\ thread'[w].pc = "execute" /\ thread'[w].rest = thread[w].rest /\ thread'[w].created = thread[w].created
      /\ Current(w)' = t
      /\ thread' \in [Threads -> [pc : ThreadSteps, rest : SUBSET Tenants, created : {"yes", "no"}]]
  BY <1>1, <1>3, NextStep DEF MigrationsInv
<1>5. MigrationsTypeOK'
  BY <1>1, <1>4 DEF MigrationsInv, MigrationsTypeOK
<1>6. StageSound(w, t)'
  BY <1>1, <1>2, <1>4 DEF StageSound
<1>7. LoaderSound(w)'
  BY <1>1, <1>4 DEF LoaderSound
<1>8. ThreadSound(w)'
  BY <1>2, <1>4, <1>6, <1>7 DEF ThreadSound, StageSound, AtLatest
<1>9. SchemaSound(t)'
  BY <1>1, <1>2 DEF SchemaSound
<1>10. WorkFrame(w, t)
  BY <1>1, <1>4 DEF WorkFrame
<1> QED
  BY <1>1, <1>2, <1>4, <1>5, <1>8, <1>9, <1>10, WorkStep

\* The loader is put back.
LEMMA RestoreLoaderStep ==
  ASSUME MigrationsInv, NEW w \in Threads, RestoreLoader(w)
  PROVE  MigrationsInv'
<1> PICK t : t = Current(w)
  OBVIOUS
<1>1. /\ thread[w].pc = "restore" /\ Goes(w, "populate") /\ setBy' = {w} /\ loader' = "original"
      /\ UNCHANGED <<tenantRows, publicAt, schema, command, jobs, known, commands, misled, halfway, unindexed>>
  BY DEF RestoreLoader
<1>2. /\ t \in thread[w].rest /\ t \in Tenants /\ thread[w].rest # {}
      /\ StageSound(w, t) /\ SchemaSound(t)
  BY <1>1, AtWork
<1>3. "populate" \in ThreadSteps
  BY DEF ThreadSteps
<1>4. /\ \A v \in Threads : v # w => thread'[v] = thread[v]
      /\ thread'[w].pc = "populate" /\ thread'[w].rest = thread[w].rest /\ thread'[w].created = thread[w].created
      /\ Current(w)' = t
      /\ thread' \in [Threads -> [pc : ThreadSteps, rest : SUBSET Tenants, created : {"yes", "no"}]]
  BY <1>1, <1>3, NextStep DEF MigrationsInv
<1>5. MigrationsTypeOK'
  BY <1>1, <1>4 DEF MigrationsInv, MigrationsTypeOK
<1>6. StageSound(w, t)'
  BY <1>1, <1>2, <1>4 DEF StageSound
<1>7. LoaderSound(w)'
  BY <1>1, <1>4 DEF LoaderSound
<1>8. ThreadSound(w)'
  BY <1>2, <1>4, <1>6, <1>7 DEF ThreadSound, StageSound, AtLatest
<1>9. SchemaSound(t)'
  BY <1>1, <1>2 DEF SchemaSound
<1>10. WorkFrame(w, t)
  BY <1>1, <1>4 DEF WorkFrame
<1> QED
  BY <1>1, <1>2, <1>4, <1>5, <1>8, <1>9, <1>10, WorkStep

\* A statement fails: the thread is parked and the command broken.
LEMMA RaisesStep ==
  ASSUME MigrationsInv, NEW w \in Threads, thread[w].pc # "parked", Raises(w), misled \subseteq misled',
         UNCHANGED <<tenantRows, publicAt, schema, loader, setBy, jobs, known, commands, halfway, unindexed>>
  PROVE  MigrationsInv'
<1> PICK t : t = Current(w)
  OBVIOUS
<1>1. t \in thread[w].rest /\ t \in Tenants /\ SchemaSound(t)
  BY AtWork
<1>2. thread' = [thread EXCEPT ![w] = Parked] /\ command' = "broken"
  BY DEF Raises
<1>3. /\ thread'[w] = Parked /\ \A v \in Threads : v # w => thread'[v] = thread[v]
      /\ thread' \in [Threads -> [pc : ThreadSteps, rest : SUBSET Tenants, created : {"yes", "no"}]]
  BY <1>2 DEF MigrationsInv, MigrationsTypeOK, Parked, ThreadSteps
<1>4. thread'[w].pc = "parked" /\ thread'[w].rest = {}
  BY <1>3 DEF Parked
<1>5. MigrationsTypeOK'
  BY <1>2, <1>3 DEF MigrationsInv, MigrationsTypeOK
<1>6. ThreadSound(w)'
  BY <1>4 DEF ThreadSound, LoaderSound
<1>7. SchemaSound(t)'
  BY <1>1 DEF SchemaSound
<1>8. WorkFrame(w, t)
  BY <1>2, <1>3 DEF WorkFrame
<1> QED
  BY <1>1, <1>2, <1>4, <1>5, <1>6, <1>7, <1>8, WorkStep

\* Django's command, with the loader some thread has left.
LEMMA ExecuteStep ==
  ASSUME MigrationsInv, NEW w \in Threads, ExecuteMigrate(w)
  PROVE  MigrationsInv'
<1> PICK t : t = Current(w)
  OBVIOUS
<1> DEFINE clash == loader = "original" /\ schema[t].tables # schema[t].recorded
<1>1. /\ thread[w].pc = "execute"
      /\ misled' = IF Misleads(w) /\ thread[w].created = "no" THEN misled \cup {t} ELSE misled
      /\ UNCHANGED <<tenantRows, publicAt, loader, setBy, jobs, known, commands, halfway, unindexed>>
  BY DEF ExecuteMigrate
<1>2. CASE Raises(w) /\ UNCHANGED schema
  BY <1>1, <1>2, RaisesStep
<1>3. CASE /\ ~clash /\ schema' = [schema EXCEPT ![t] = Executed(@, thread[w].created)]
           /\ Goes(w, IF thread[w].created = "yes" THEN "restore" ELSE "sql")
           /\ UNCHANGED <<command, migrateFaults>>
  <2>1. /\ t \in thread[w].rest /\ t \in Tenants /\ thread[w].rest # {}
        /\ StageSound(w, t) /\ SchemaSound(t) /\ LoaderSound(w) /\ schema[t] \in SchemaRows
    BY <1>1, AtWork
  <2>2. PICK made : made = thread[w].created
    OBVIOUS
  <2>3. made \in {"yes", "no"}
    BY <2>2 DEF MigrationsInv, MigrationsTypeOK
  <2>4. PICK next \in ThreadSteps : next = IF made = "yes" THEN "restore" ELSE "sql"
    BY DEF ThreadSteps
  <2>5. /\ \A v \in Threads : v # w => thread'[v] = thread[v]
        /\ thread'[w].pc = next /\ thread'[w].rest = thread[w].rest /\ thread'[w].created = made
        /\ Current(w)' = t
        /\ thread' \in [Threads -> [pc : ThreadSteps, rest : SUBSET Tenants, created : {"yes", "no"}]]
    BY <1>3, <2>2, <2>4, NextStep DEF MigrationsInv
  <2>6. PICK row : row = Executed(schema[t], made)
    OBVIOUS
  <2>7. Latest \in 0..Latest
    BY MigrationsAssumption
  <2>8. /\ row \in SchemaRows /\ row.made = schema[t].made /\ row.sql = schema[t].sql
        /\ row.defaults = schema[t].defaults
        /\ \/ row.tables = Latest /\ row.recorded = Latest /\ loader # "none"
           \/ row.tables = Latest /\ row.recorded = schema[t].recorded /\ loader = "none" /\ made = "yes"
           \/ row.tables = schema[t].tables /\ row.recorded = schema[t].recorded /\ loader = "none" /\ made # "yes"
    BY <2>1, <2>6, <2>7 DEF Executed, SchemaRows
  <2>9. /\ schema'[t] = row /\ schema' \in [Tenants -> SchemaRows]
        /\ \A u \in Tenants : u # t => schema'[u] = schema[u]
    BY <1>3, <2>1, <2>2, <2>6, <2>8 DEF MigrationsInv, MigrationsTypeOK
  <2>10. MigrationsTypeOK'
    BY <1>1, <1>3, <2>5, <2>9 DEF MigrationsInv, MigrationsTypeOK
  <2>11. loader = "none" /\ made = "no" => t \in misled'
    BY <1>1, <2>1, <2>2 DEF LoaderSound, Misleads
  <2>12. StageSound(w, t)'
    BY <1>1, <2>1, <2>3, <2>4, <2>5, <2>8, <2>9, <2>11 DEF StageSound, AtLatest
  <2>13. ThreadSound(w)'
    <3>1. LoaderSound(w)'
      BY <2>4, <2>5 DEF LoaderSound
    <3>2. thread'[w].pc # "parked"
      BY <2>4, <2>5
    <3> QED
      BY <2>1, <2>5, <2>12, <3>1, <3>2 DEF ThreadSound, StageSound, AtLatest
  <2>14. SchemaSound(t)'
    <3>1. row.recorded <= row.tables
      <4>1. schema[t].recorded \in 0..Latest /\ schema[t].tables \in 0..Latest /\ schema[t].recorded <= schema[t].tables
        BY <2>1 DEF SchemaRows, SchemaSound
      <4> QED
        BY <2>7, <2>8, <4>1
    <3> QED
      BY <1>1, <2>1, <2>8, <2>9, <3>1 DEF SchemaSound
  <2>15. WorkFrame(w, t)
    BY <1>1, <1>3, <2>5, <2>9 DEF WorkFrame
  <2> QED
    BY <1>1, <2>1, <2>5, <2>10, <2>13, <2>14, <2>15, WorkStep
<1> QED
  BY <1>2, <1>3 DEF ExecuteMigrate

\* The names of migrations are recorded for a new schema, as far as the thread found them.
LEMMA PopulateStep ==
  ASSUME MigrationsInv, NEW w \in Threads, PopulateMigrations(w)
  PROVE  MigrationsInv'
<1> PICK t : t = Current(w)
  OBVIOUS
<1>1. /\ thread[w].pc = "populate"
      /\ UNCHANGED <<tenantRows, publicAt, loader, setBy, jobs, commands, halfway, unindexed>>
  BY DEF PopulateMigrations
<1>2. CASE Raises(w) /\ UNCHANGED <<schema, known, misled>>
  BY <1>1, <1>2, RaisesStep
<1>3. CASE /\ schema' = [schema EXCEPT ![t].recorded = IF Listed(w) = {0} THEN @ ELSE Latest]
           /\ Goes(w, "sql")
           /\ known' = [known EXCEPT ![w] = Listed(w)]
           /\ misled' = IF Misleads(w) \/ known[w] = {0} THEN misled \cup {t} ELSE misled
           /\ UNCHANGED <<command, migrateFaults>>
  <2>1. /\ t \in thread[w].rest /\ t \in Tenants /\ thread[w].rest # {}
        /\ StageSound(w, t) /\ SchemaSound(t) /\ LoaderSound(w) /\ schema[t] \in SchemaRows
    BY <1>1, AtWork
  <2>2. "sql" \in ThreadSteps
    BY DEF ThreadSteps
  <2>3. /\ \A v \in Threads : v # w => thread'[v] = thread[v]
        /\ thread'[w].pc = "sql" /\ thread'[w].rest = thread[w].rest /\ thread'[w].created = thread[w].created
        /\ Current(w)' = t
        /\ thread' \in [Threads -> [pc : ThreadSteps, rest : SUBSET Tenants, created : {"yes", "no"}]]
    BY <1>3, <2>2, NextStep DEF MigrationsInv
  <2>4. Listed(w) \in {{}, {0}, {Latest}}
    BY DEF Listed, Names, MigrationsInv, MigrationsTypeOK
  <2>5. t \in misled' \/ Listed(w) # {0}
    BY <1>1, <1>3, <2>1, MigrationsAssumption DEF LoaderSound, Misleads, Listed, Names
  <2>6. Latest \in 0..Latest
    BY MigrationsAssumption
  <2>7. PICK n : n = IF Listed(w) = {0} THEN schema[t].recorded ELSE Latest
    OBVIOUS
  <2>8. n \in 0..Latest /\ (n = schema[t].recorded \/ n = Latest) /\ (t \in misled' \/ n = Latest)
    BY <2>1, <2>5, <2>6, <2>7 DEF SchemaRows
  <2>9. schema' = [schema EXCEPT ![t].recorded = n]
    BY <1>3, <2>7
  <2>10. /\ schema'[t] = [schema[t] EXCEPT !.recorded = n] /\ schema' \in [Tenants -> SchemaRows]
         /\ \A u \in Tenants : u # t => schema'[u] = schema[u]
    BY <2>1, <2>8, <2>9 DEF MigrationsInv, MigrationsTypeOK, SchemaRows
  <2>11. /\ schema'[t].made = schema[t].made /\ schema'[t].tables = Latest /\ schema'[t].recorded = n
         /\ schema'[t].sql = schema[t].sql /\ schema'[t].defaults = schema[t].defaults
    BY <1>1, <2>1, <2>10 DEF SchemaRows, StageSound
  <2>12. MigrationsTypeOK'
    <3>1. known' \in [Threads -> {{}, {0}, {Latest}}]
      BY <1>3, <2>4 DEF MigrationsInv, MigrationsTypeOK
    <3> QED
      BY <1>1, <1>3, <2>3, <2>10, <3>1 DEF MigrationsInv, MigrationsTypeOK
  <2>13. StageSound(w, t)'
    BY <1>1, <2>1, <2>3, <2>8, <2>11 DEF StageSound, AtLatest
  <2>14. ThreadSound(w)'
    <3>1. LoaderSound(w)'
      BY <2>3 DEF LoaderSound
    <3> QED
      BY <2>1, <2>3, <2>13, <3>1 DEF ThreadSound, StageSound, AtLatest
  <2>15. SchemaSound(t)'
    <3>1. n <= Latest
      BY <2>6, <2>8
    <3> QED
      BY <1>1, <2>1, <2>11, <3>1 DEF SchemaSound
  <2>16. WorkFrame(w, t)
    BY <1>1, <1>3, <2>3, <2>10 DEF WorkFrame
  <2> QED
    BY <1>1, <2>1, <2>3, <2>12, <2>14, <2>15, <2>16, WorkStep
<1> QED
  BY <1>2, <1>3 DEF PopulateMigrations

\* The SQL of a new schema, or its failure, which is only printed.
LEMMA CustomSqlStep ==
  ASSUME MigrationsInv, NEW w \in Threads, RunCustomSql(w)
  PROVE  MigrationsInv'
<1> PICK t : t = Current(w)
  OBVIOUS
<1>1. /\ thread[w].pc = "sql" /\ Goes(w, "signal")
      /\ UNCHANGED <<tenantRows, publicAt, loader, setBy, command, jobs, known, commands, misled, halfway>>
  BY DEF RunCustomSql
<1>2. /\ t \in thread[w].rest /\ t \in Tenants /\ thread[w].rest # {}
      /\ StageSound(w, t) /\ SchemaSound(t) /\ LoaderSound(w) /\ schema[t] \in SchemaRows
  BY <1>1, AtWork
<1>3. "signal" \in ThreadSteps
  BY DEF ThreadSteps
<1>4. /\ \A v \in Threads : v # w => thread'[v] = thread[v]
      /\ thread'[w].pc = "signal" /\ thread'[w].rest = thread[w].rest /\ thread'[w].created = thread[w].created
      /\ Current(w)' = t
      /\ thread' \in [Threads -> [pc : ThreadSteps, rest : SUBSET Tenants, created : {"yes", "no"}]]
  BY <1>1, <1>3, NextStep DEF MigrationsInv
<1>5. PICK q \in {"no", "yes"} :
        /\ schema' = [schema EXCEPT ![t].sql = q]
        /\ \/ unindexed' = unindexed /\ q = IF thread[w].created = "yes" THEN "yes" ELSE schema[t].sql
           \/ unindexed' = unindexed \cup {t} /\ q = schema[t].sql
  <2>1. CASE /\ schema' = [schema EXCEPT ![t].sql = IF thread[w].created = "yes" THEN "yes" ELSE @]
             /\ UNCHANGED <<migrateFaults, unindexed>>
    BY <1>2, <2>1 DEF SchemaRows
  <2>2. CASE unindexed' = unindexed \cup {t} /\ UNCHANGED schema
    <3>1. schema = [schema EXCEPT ![t].sql = schema[t].sql]
      BY <1>2 DEF MigrationsInv, MigrationsTypeOK, SchemaRows
    <3> QED
      BY <1>2, <2>2, <3>1 DEF SchemaRows
  <2> QED
    BY <2>1, <2>2 DEF RunCustomSql
<1>6. /\ schema'[t] = [schema[t] EXCEPT !.sql = q] /\ schema' \in [Tenants -> SchemaRows]
      /\ \A u \in Tenants : u # t => schema'[u] = schema[u]
  BY <1>2, <1>5 DEF MigrationsInv, MigrationsTypeOK, SchemaRows
<1>7. /\ schema'[t].made = schema[t].made /\ schema'[t].tables = schema[t].tables
      /\ schema'[t].recorded = schema[t].recorded
      /\ schema'[t].sql = q /\ schema'[t].defaults = schema[t].defaults
  BY <1>2, <1>6 DEF SchemaRows
<1>8. MigrationsTypeOK'
  BY <1>1, <1>4, <1>6 DEF MigrationsInv, MigrationsTypeOK
<1>9. StageSound(w, t)'
  BY <1>1, <1>2, <1>4, <1>5, <1>7 DEF StageSound, AtLatest
<1>10. ThreadSound(w)'
  <2>1. LoaderSound(w)'
    BY <1>4 DEF LoaderSound
  <2> QED
    BY <1>2, <1>4, <1>9, <2>1 DEF ThreadSound, StageSound, AtLatest
<1>11. SchemaSound(t)'
  BY <1>1, <1>2, <1>5, <1>7 DEF SchemaSound
<1>12. WorkFrame(w, t)
  <2>1. unindexed \subseteq unindexed'
    BY <1>5
  <2> QED
    BY <1>1, <1>4, <1>6, <2>1 DEF WorkFrame
<1> QED
  BY <1>1, <1>2, <1>4, <1>8, <1>10, <1>11, <1>12, WorkStep

\* The initial data of a new schema; the instance is done.
LEMMA SendStep ==
  ASSUME MigrationsInv, NEW w \in Threads, SendPostMigrate(w)
  PROVE  MigrationsInv'
<1> PICK t : t = Current(w)
  OBVIOUS
<1> PICK made : made = thread[w].created
  OBVIOUS
<1> PICK rest : rest = thread[w].rest \ {t}
  OBVIOUS
<1>1. /\ thread[w].pc = "signal"
      /\ halfway' = IF made = "yes" THEN halfway \ {t} ELSE halfway
      /\ thread' = [thread EXCEPT ![w] = IF rest = {} THEN Parked ELSE [Parked EXCEPT !.pc = "schema", !.rest = rest]]
      /\ UNCHANGED <<tenantRows, publicAt, loader, setBy, command, jobs, known, commands, misled, unindexed>>
  BY DEF SendPostMigrate
<1>2. /\ t \in thread[w].rest /\ t \in Tenants /\ thread[w].rest # {}
      /\ StageSound(w, t) /\ SchemaSound(t) /\ LoaderSound(w) /\ schema[t] \in SchemaRows
  BY <1>1, AtWork
<1>3. made \in {"yes", "no"} /\ rest \subseteq Tenants
  BY DEF MigrationsInv, MigrationsTypeOK
<1>4. PICK d \in SUBSET InitialData :
        /\ schema' = [schema EXCEPT ![t].defaults = d]
        /\ made = "yes" => d = InitialData
        /\ made = "no" => d = schema[t].defaults
  <2>1. PICK d : d = schema[t].defaults \cup UserProfile(made) \cup PushConfigs(made) \cup DefaultChannels(made)
                       \cup Templates(made)
    OBVIOUS
  <2>2. schema' = [schema EXCEPT ![t].defaults = d]
    BY <2>1 DEF SendPostMigrate
  <2>3. schema[t].defaults \subseteq InitialData
    BY <1>2 DEF SchemaRows
  <2>4. (made = "yes" => d = InitialData) /\ (made = "no" => d = schema[t].defaults)
    BY <2>1, <2>3 DEF UserProfile, PushConfigs, DefaultChannels, Templates, InitialData
  <2> QED
    BY <1>3, <2>2, <2>3, <2>4
<1>5. /\ schema'[t] = [schema[t] EXCEPT !.defaults = d] /\ schema' \in [Tenants -> SchemaRows]
      /\ \A u \in Tenants : u # t => schema'[u] = schema[u]
  BY <1>2, <1>4 DEF MigrationsInv, MigrationsTypeOK, SchemaRows
<1>6. /\ schema'[t].made = schema[t].made /\ schema'[t].tables = schema[t].tables
      /\ schema'[t].recorded = schema[t].recorded
      /\ schema'[t].sql = schema[t].sql /\ schema'[t].defaults = d
  BY <1>2, <1>5 DEF SchemaRows
<1>7. /\ \A v \in Threads : v # w => thread'[v] = thread[v]
      /\ thread'[w].pc = IF rest = {} THEN "parked" ELSE "schema"
      /\ thread'[w].rest = rest
      /\ thread' \in [Threads -> [pc : ThreadSteps, rest : SUBSET Tenants, created : {"yes", "no"}]]
  BY <1>1, <1>3 DEF MigrationsInv, MigrationsTypeOK, Parked, ThreadSteps
<1>8. MigrationsTypeOK'
  BY <1>1, <1>5, <1>7 DEF MigrationsInv, MigrationsTypeOK
<1>9. ThreadSound(w)'
  BY <1>7 DEF ThreadSound, LoaderSound, StageSound
<1>10. SchemaSound(t)'
  BY <1>1, <1>2, <1>3, <1>4, <1>6 DEF SchemaSound, StageSound
<1>11. Migrated(t)'
  BY <1>1, <1>2, <1>6 DEF Migrated, StageSound, AtLatest
<1>12. WorkFrame(w, t)
  <2>1. \A u \in Tenants : u # t => (u \in halfway => u \in halfway')
    BY <1>1
  <2> QED
    BY <1>1, <1>5, <1>7, <2>1 DEF WorkFrame
<1> QED
  BY <1>1, <1>2, <1>7, <1>8, <1>9, <1>10, <1>11, <1>12, WorkStep

\* A thread takes a range that no other has.
LEMMA TakeJobStep ==
  ASSUME MigrationsInv, NEW w \in Threads, TakeJob(w)
  PROVE  MigrationsInv'
<1>1. PICK j \in jobs :
        /\ jobs' = jobs \ {j}
        /\ thread' = [thread EXCEPT ![w] =
                [Parked EXCEPT !.pc = "schema", !.rest = {t \in tenantRows : RangeOf[t] = j}]]
  BY DEF TakeJob
<1>2. /\ thread[w].pc = "parked"
      /\ UNCHANGED <<tenantRows, publicAt, schema, loader, setBy, command, known, commands, misled, halfway, unindexed>>
  BY DEF TakeJob
<1>3. PICK mine : mine = {t \in tenantRows : RangeOf[t] = j}
  OBVIOUS
<1>4. mine # {} /\ mine \subseteq Tenants
  BY <1>1, <1>3 DEF MigrationsInv, MigrationsTypeOK, RangesApart
<1>5. /\ \A v \in Threads : v # w => thread'[v] = thread[v]
      /\ thread'[w].pc = "schema" /\ thread'[w].rest = mine
      /\ thread' \in [Threads -> [pc : ThreadSteps, rest : SUBSET Tenants, created : {"yes", "no"}]]
  BY <1>1, <1>3, <1>4 DEF MigrationsInv, MigrationsTypeOK, Parked, ThreadSteps
<1>6. MigrationsTypeOK'
  BY <1>2, <1>5 DEF MigrationsInv, MigrationsTypeOK
<1>7. ASSUME NEW v \in Threads
      PROVE  ThreadSound(v)'
  <2>1. CASE v = w
    BY <1>4, <1>5, <2>1 DEF ThreadSound, LoaderSound, StageSound
  <2>2. CASE v # w
    <3>1. thread'[v] = thread[v] /\ ThreadSound(v)
      BY <1>5, <2>2 DEF MigrationsInv
    <3>2. Current(v)' = Current(v)
      BY <3>1 DEF Current
    <3> QED
      BY <1>2, <3>1, <3>2 DEF ThreadSound, LoaderSound, StageSound, AtLatest
  <2> QED
    BY <2>1, <2>2
<1>8. RangesApart'
  <2>1. RangesApart
    BY DEF MigrationsInv
  <2>2. ASSUME NEW v \in Threads, NEW t \in thread'[v].rest
        PROVE  t \in tenantRows' /\ RangeOf[t] \notin jobs'
    BY <1>1, <1>2, <1>3, <1>5, <2>1 DEF RangesApart
  <2>3. \A v \in Threads : v # w => thread[v].rest \cap mine = {}
    BY <1>1, <1>3, <2>1 DEF RangesApart
  <2>4. ASSUME NEW u \in Threads, NEW v \in Threads, u # v
        PROVE  thread'[u].rest \cap thread'[v].rest = {}
    <3>1. CASE u = w
      BY <1>5, <2>3, <2>4, <3>1
    <3>2. CASE v = w
      BY <1>5, <2>3, <2>4, <3>2
    <3>3. CASE u # w /\ v # w
      BY <1>5, <2>1, <2>4, <3>3 DEF RangesApart
    <3> QED
      BY <3>1, <3>2, <3>3
  <2>5. \A k \in jobs' : \E t \in tenantRows' : RangeOf[t] = k
    BY <1>1, <1>2, <2>1 DEF RangesApart
  <2> QED
    BY <2>2, <2>4, <2>5 DEF RangesApart
<1>9. \A t \in Tenants : SchemaSound(t)'
  BY <1>2 DEF MigrationsInv, SchemaSound
<1>10. CommandSound'
  <2>1. command \in {"tenants", "broken"}
    BY <1>1 DEF MigrationsInv, MigrationsTypeOK, CommandSound, AllParked
  <2>2. ASSUME command = "tenants", NEW t \in tenantRows
        PROVE  RangeOf[t] \in jobs' \/ (\E v \in Threads : t \in thread'[v].rest) \/ Migrated(t)'
    <3>1. RangeOf[t] \in jobs \/ (\E v \in Threads : t \in thread[v].rest) \/ Migrated(t)
      BY <2>2 DEF MigrationsInv, CommandSound
    <3>2. CASE RangeOf[t] \in jobs
      BY <1>1, <1>3, <1>5, <3>2
    <3>3. CASE \E v \in Threads : t \in thread[v].rest
      <4>1. PICK v \in Threads : t \in thread[v].rest
        BY <3>3
      <4>2. v # w
        BY <1>2, <4>1 DEF MigrationsInv, ThreadSound
      <4> QED
        BY <1>5, <4>1, <4>2
    <3>4. CASE Migrated(t)
      BY <1>2, <3>4 DEF Migrated, AtLatest
    <3> QED
      BY <3>1, <3>2, <3>3, <3>4
  <2> QED
    BY <1>2, <2>1, <2>2 DEF MigrationsInv, CommandSound
<1> QED
  BY <1>6, <1>7, <1>8, <1>9, <1>10 DEF MigrationsInv

\* A step of the command while no thread works.
LEMMA RestingStep ==
  ASSUME MigrationsInv, MigrationsTypeOK', CommandSound',
         \A w \in Threads : thread'[w].pc = "parked" /\ thread'[w].rest = {},
         \A j \in jobs' : \E t \in tenantRows' : RangeOf[t] = j,
         UNCHANGED <<schema, misled, halfway, unindexed>>
  PROVE  MigrationsInv'
<1>1. \A w \in Threads : ThreadSound(w)'
  BY DEF ThreadSound, LoaderSound
<1>2. RangesApart'
  BY DEF RangesApart
<1>3. \A t \in Tenants : SchemaSound(t)'
  BY DEF MigrationsInv, SchemaSound
<1> QED
  BY <1>1, <1>2, <1>3 DEF MigrationsInv

\* The command itself starts, submits, joins and fails when no thread works, or kills all.
LEMMA CommandStep ==
  ASSUME MigrationsInv, StartCommand \/ MigratePublic \/ JoinThreads \/ KillCommand
  PROVE  MigrationsInv'
<1>1. MigrationsTypeOK /\ CommandSound /\ \A w \in Threads : ThreadSound(w)
  BY DEF MigrationsInv
<1>2. AllParked => \A w \in Threads : thread[w].pc = "parked" /\ thread[w].rest = {}
  BY <1>1 DEF AllParked, ThreadSound
<1>3. CASE StartCommand
  <2>1. AllParked /\ AllParked'
    BY <1>1, <1>3 DEF StartCommand, CommandSound, AllParked
  <2>2. MigrationsTypeOK'
    BY <1>1, <1>3 DEF StartCommand, MigrationsTypeOK
  <2>3. CommandSound'
    BY <1>3, <2>1 DEF StartCommand, CommandSound
  <2> QED
    BY <1>2, <1>3, <2>1, <2>2, <2>3, RestingStep DEF StartCommand, AllParked
<1>4. CASE MigratePublic
  <2>1. AllParked
    BY <1>1, <1>4 DEF MigratePublic, CommandSound
  <2>2. MigrationsTypeOK'
    BY <1>1, <1>4 DEF MigratePublic, MigrationsTypeOK
  <2>3. jobs' = {RangeOf[t] : t \in tenantRows} /\ tenantRows' = tenantRows
    BY <1>4 DEF MigratePublic, SubmitJobs
  <2>4. CommandSound'
    BY <1>4, <2>3 DEF MigratePublic, CommandSound
  <2> QED
    BY <1>2, <1>4, <2>1, <2>2, <2>3, <2>4, RestingStep DEF MigratePublic
<1>5. CASE JoinThreads
  <2>1. AllParked /\ UNCHANGED <<publicAt, schema, loader, setBy, thread, commands, misled, halfway, unindexed>>
    BY <1>5 DEF JoinThreads
  <2>2. CASE command = "broken" /\ command' = "failed" /\ UNCHANGED <<tenantRows, jobs, known>>
    <3>1. MigrationsTypeOK'
      BY <1>1, <2>1, <2>2 DEF MigrationsTypeOK
    <3>2. CommandSound'
      BY <2>1, <2>2 DEF CommandSound, AllParked
    <3> QED
      BY <1>2, <2>1, <2>2, <3>1, <3>2, RestingStep DEF AllParked
  <2>3. CASE /\ command = "tenants" /\ FirstTenant \in tenantRows /\ command' = "ended"
             /\ UNCHANGED <<tenantRows, jobs, known>>
    <3>1. MigrationsTypeOK'
      BY <1>1, <2>1, <2>3 DEF MigrationsTypeOK
    <3>2. \A t \in tenantRows : Migrated(t)
      BY <1>1, <1>2, <2>1, <2>3 DEF CommandSound, AllParked
    <3>3. \A t \in tenantRows' : Migrated(t)'
      BY <2>1, <2>3, <3>2 DEF Migrated, AtLatest
    <3>4. AllParked' /\ publicAt' = Latest
      BY <1>1, <2>1, <2>3 DEF CommandSound, AllParked
    <3>5. CommandSound'
      BY <2>3, <3>3, <3>4 DEF CommandSound
    <3> QED
      BY <1>2, <2>1, <2>3, <3>1, <3>5, RestingStep DEF AllParked
  <2>4. CASE /\ command = "tenants" /\ FirstTenant \notin tenantRows
             /\ LoadFirstInstance /\ SubmitJobs(tenantRows')
             /\ known' = [w \in Threads |-> {}] /\ UNCHANGED command
    <3>1. MigrationsTypeOK'
      BY <1>1, <2>1, <2>4, MigrationsAssumption DEF LoadFirstInstance, MigrationsTypeOK
    <3>2. jobs' = {RangeOf[t] : t \in tenantRows'}
      BY <2>4 DEF SubmitJobs
    <3>3. CommandSound'
      BY <1>1, <2>1, <2>4, <3>2 DEF CommandSound
    <3> QED
      BY <1>2, <2>1, <3>1, <3>2, <3>3, RestingStep
  <2> QED
    BY <1>5, <2>2, <2>3, <2>4 DEF JoinThreads
<1>6. CASE KillCommand
  <2>1. \A w \in Threads : thread'[w].pc = "parked" /\ thread'[w].rest = {}
    BY <1>6 DEF KillCommand, Parked
  <2>2. thread' \in [Threads -> [pc : ThreadSteps, rest : SUBSET Tenants, created : {"yes", "no"}]]
    BY <1>6 DEF KillCommand, Parked, ThreadSteps
  <2>3. MigrationsTypeOK'
    BY <1>1, <1>6, <2>2 DEF KillCommand, MigrationsTypeOK
  <2>4. CommandSound'
    BY <1>6, <2>1 DEF KillCommand, CommandSound, AllParked
  <2> QED
    BY <1>6, <2>1, <2>3, <2>4, RestingStep DEF KillCommand
<1> QED
  BY <1>3, <1>4, <1>5, <1>6

\* The invariant of the migrate command is inductive.
LEMMA MigrationsStep ==
  ASSUME MigrationsInv, [MigrationsNext]_migrationsVars
  PROVE  MigrationsInv'
<1>1. CASE UNCHANGED migrationsVars
  BY <1>1 DEF migrationsVars, MigrationsInv, MigrationsTypeOK, ThreadSound, LoaderSound, StageSound, Current,
     AtLatest, RangesApart, SchemaSound, CommandSound, AllParked, Migrated
<1>2. CASE MigrationsNext
  BY <1>2, CommandStep, TakeJobStep, MigrateSchemaStep, PatchLoaderStep, ExecuteStep, RestoreLoaderStep,
     PopulateStep, CustomSqlStep, SendStep DEF MigrationsNext
<1> QED
  BY <1>1, <1>2

\* For any number of threads, instances, runs and faults: no schema records what its tables
\* do not have, and a command that ends without an error leaves every instance at the latest
\* migration, with its data, unless its thread saw the loader of another (_migrate_tenants).
THEOREM SchemasMigratedHolds == MigrationsSpec => []SchemasMigrated
<1>1. MigrationsInit => MigrationsInv
  BY MigrationsStart
<1>2. MigrationsInv /\ [MigrationsNext]_migrationsVars => MigrationsInv'
  BY MigrationsStep
<1>3. MigrationsInv => SchemasMigrated
  <2> SUFFICES ASSUME MigrationsInv PROVE SchemasMigrated
    OBVIOUS
  <2>1. tenantRows \subseteq Tenants /\ CommandSound /\ \A t \in Tenants : SchemaSound(t)
    BY DEF MigrationsInv, MigrationsTypeOK
  <2>2. OldSchema(Latest).defaults = InitialData
    BY DEF OldSchema, InitialData
  <2> QED
    BY <2>1, <2>2 DEF SchemasMigrated, CommandSound, SchemaSound, Migrated, AtLatest
<1> QED
  BY <1>1, <1>2, <1>3, PTL DEF MigrationsSpec

==============================================================================
