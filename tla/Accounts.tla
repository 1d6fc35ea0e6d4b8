------------------------------ MODULE Accounts ------------------------------
(***************************************************************************)
(* Admin accounts and their secrets (apps/admins, apps/core for tokens and *)
(* keys, apps/analytics for inactive accounts).                            *)
(*                                                                         *)
(* A request works on the copy of the account that authentication found    *)
(* (request.user); several views save all columns of that copy, others     *)
(* only the columns they set.  What a stale copy brings back is the hazard.*)
(* A password is the value of its column: salted, so never the same twice. *)
(***************************************************************************)
EXTENDS Integers

CONSTANTS
    Admins,         \* accounts: one for each address
    Requests,       \* requests in progress
    Outsider,       \* nobody with an account
    MaxSecrets      \* bound

ASSUME AccountsAssumption == Outsider \notin Admins /\ MaxSecrets \in Nat

VARIABLES
    accounts,     \* Admin rows
    drawn,        \* passwords and account keys drawn so far
    copies,       \* what each request has read
    mails,        \* tokens that were mailed: of whom, made with which password
    doomed,       \* accounts that DeleteInactiveAccounts has listed
    spent,        \* history: tokens that have set a password
    retired,      \* history: account keys that were replaced
    stale         \* history: accounts a whole row of which was saved from an old copy

accountsVars == <<accounts, drawn, copies, mails, doomed, spent, retired, stale>>
secretVars == <<drawn, copies, mails, doomed, spent, retired, stale>>

NoAccount == [state |-> "none", password |-> 0, key |-> 0, active |-> "no", noticed |-> "no"]
Idle == [of |-> Outsider, for |-> "nothing", row |-> NoAccount]

AccountsInit ==
    /\ accounts = [a \in Admins |-> NoAccount]
    /\ drawn = 0
    /\ copies = [q \in Requests |-> Idle]
    /\ mails = {} /\ doomed = {}
    /\ spent = {} /\ retired = {} /\ stale = {}

Alive(a) == accounts[a].state = "live"

(* PasswordResetTokenGenerator, with the password alone in the hash: what   *)
(* was mailed to activate an account also resets its password.              *)
TokenOf(a, row) == [of |-> a, password |-> row.password]

-----------------------------------------------------------------------------
(* Signing up and in *)

Drawn(n) == drawn + n <= MaxSecrets /\ drawn' = drawn + n

NewAccount(password, key, active) ==
    [state |-> "live", password |-> password, key |-> key, active |-> active, noticed |-> "no"]

Register(a) ==
    /\ accounts[a].state = "none"
    /\ Drawn(2)
    /\ accounts' = [accounts EXCEPT ![a] = NewAccount(drawn + 1, drawn + 2, "no")]
    /\ mails' = mails \cup {TokenOf(a, accounts'[a])}
    /\ UNCHANGED <<copies, doomed, spent, retired, stale>>

(* AdminSocialHelper makes an active account without a password. *)
SocialSignUp(a) ==
    /\ accounts[a].state = "none"
    /\ Drawn(1)
    /\ accounts' = [accounts EXCEPT ![a] = NewAccount(0, drawn + 1, "yes")]
    /\ UNCHANGED <<copies, mails, doomed, spent, retired, stale>>

(* AuthView, SocialAuthView, and requests to an instance by way of          *)
(* update_last_access: the columns of the last access only.                 *)
SignIn(a) ==
    /\ Alive(a)
    /\ accounts' = [accounts EXCEPT ![a].noticed = "no"]
    /\ UNCHANGED secretVars

(* ResendActivationEmailView and AdminResetPasswordView. *)
MailToken(a) ==
    /\ Alive(a)
    /\ mails' = mails \cup {TokenOf(a, accounts[a])}
    /\ UNCHANGED <<accounts, drawn, copies, doomed, spent, retired, stale>>

(* AdminTokenSerializer.  Only time makes an unused token bad. *)
GoodToken(t) == t \in mails /\ Alive(t.of) /\ accounts[t.of].password = t.password

Activate(t) ==
    /\ GoodToken(t)
    /\ accounts[t.of].active = "no"
    /\ accounts' = [accounts EXCEPT ![t.of].active = "yes"]
    /\ UNCHANGED secretVars

-----------------------------------------------------------------------------
(* Changes from a copy *)

(* ApiKeyAuthentication.get_admin_by_key: the copy is as good as the object *)
(* cache, at best the row of this moment.                                   *)
Authenticate(q, a) ==
    /\ copies[q] = Idle
    /\ Alive(a)
    /\ copies' = [copies EXCEPT ![q] = [of |-> a, for |-> "account", row |-> accounts[a]]]
    /\ UNCHANGED <<accounts, drawn, mails, doomed, spent, retired, stale>>

(* AdminResetPasswordConfirmationView reads the row without a lock. *)
ReadToken(q, t) ==
    /\ copies[q] = Idle
    /\ GoodToken(t)
    /\ copies' = [copies EXCEPT ![q] = [of |-> t.of, for |-> "reset", row |-> accounts[t.of]]]
    /\ UNCHANGED <<accounts, drawn, mails, doomed, spent, retired, stale>>

(* Model.save() of the copy: all columns, _is_live too. *)
Save(q, row) ==
    LET a == copies[q].of IN
    /\ accounts' = [accounts EXCEPT ![a] = row]
    /\ stale' = IF accounts[a] = copies[q].row THEN stale ELSE stale \cup {a}
    /\ copies' = [copies EXCEPT ![q] = Idle]

(* AccountView: another address makes the account inactive and mails a      *)
(* token.  The row is locked, the copy is saved all the same.               *)
UpdateAccount(q) ==
    /\ copies[q].for = "account"
    /\ \/ Save(q, copies[q].row) /\ UNCHANGED mails
       \/ /\ Save(q, [copies[q].row EXCEPT !.active = "no"])
          /\ mails' = mails \cup {TokenOf(copies[q].of, copies[q].row)}
    /\ UNCHANGED <<drawn, doomed, spent, retired>>

FaultReplacedKey(row) == row

(* UniqueKeyAbstractModel.reset *)
ReplacedKey(row) == [row EXCEPT !.key = drawn + 1]

ResetKey(q) ==
    /\ copies[q].for = "account"
    /\ Drawn(1)
    /\ Save(q, ReplacedKey(copies[q].row))
    /\ retired' = retired \cup {[of |-> copies[q].of, key |-> copies[q].row.key]}
    /\ UNCHANGED <<mails, doomed, spent>>

(* AdminChangePasswordView, or AdminSetPasswordView for one without. *)
SetPassword(q) ==
    /\ copies[q].for = "account"
    /\ Drawn(1)
    /\ Save(q, [copies[q].row EXCEPT !.password = drawn + 1])
    /\ UNCHANGED <<mails, doomed, spent, retired>>

ConfirmReset(q) ==
    /\ copies[q].for = "reset"
    /\ Drawn(1)
    /\ Save(q, [copies[q].row EXCEPT !.password = drawn + 1])
    /\ spent' = spent \cup {TokenOf(copies[q].of, copies[q].row)}
    /\ UNCHANGED <<mails, doomed, retired>>

(* A request that does not write, or is refused. *)
Leave(q) ==
    /\ copies[q] # Idle
    /\ copies' = [copies EXCEPT ![q] = Idle]
    /\ UNCHANGED <<accounts, drawn, mails, doomed, spent, retired, stale>>

-----------------------------------------------------------------------------
(* Accounts nobody uses *)

Notice(a) ==
    /\ Alive(a) /\ accounts[a].noticed = "no"
    /\ accounts' = [accounts EXCEPT ![a].noticed = "yes"]
    /\ UNCHANGED secretVars

(* DeleteInactiveAccounts lists a chunk, then deletes it one by one; the    *)
(* filter by the last key of a chunk is built and thrown away.              *)
ListInactive ==
    /\ doomed = {}
    /\ doomed' = {a \in Admins : Alive(a) /\ accounts[a].noticed = "yes"}
    /\ UNCHANGED <<accounts, drawn, copies, mails, spent, retired, stale>>

(* The deletion saves _is_live alone. *)
DeleteInactive(a) ==
    /\ a \in doomed
    /\ doomed' = doomed \ {a}
    /\ accounts' = [accounts EXCEPT ![a].state = "dead"]
    /\ UNCHANGED <<drawn, copies, mails, spent, retired, stale>>

AccountsNext ==
    \/ ListInactive
    \/ \E a \in Admins :
        \/ Register(a) \/ SocialSignUp(a) \/ SignIn(a) \/ MailToken(a) \/ Notice(a) \/ DeleteInactive(a)
        \/ \E q \in Requests : Authenticate(q, a)
    \/ \E t \in mails : Activate(t) \/ \E q \in Requests : ReadToken(q, t)
    \/ \E q \in Requests : UpdateAccount(q) \/ ResetKey(q) \/ SetPassword(q) \/ ConfirmReset(q) \/ Leave(q)

AccountsSpec == AccountsInit /\ [][AccountsNext]_accountsVars

-----------------------------------------------------------------------------
(* A token that has set a password and an account key that was replaced are *)
(* good for nothing, unless an old copy of the whole row was saved later.   *)
OldSecretsDie ==
    \A a \in Admins \ stale :
        /\ \A t \in spent : t.of = a => accounts[a].password # t.password
        /\ \A r \in retired : r.of = a => accounts[a].key # r.key
=============================================================================
