------------------------------ MODULE Hosting -------------------------------
(***************************************************************************)
(* The hostings of an instance (apps/hosting): their domains, the copy of  *)
(* those domains on the instance, which one is the default, and the status *)
(* of SSL, which a task and a daily refresh change behind the requests.    *)
(* Requests of the API hold a lock of the instance from before their reads *)
(* until after their commit, so one stands for all of them; the            *)
(* installation of a socket saves hostings without that lock.              *)
(***************************************************************************)
EXTENDS Integers, FiniteSets

CONSTANTS
    Sites, Domains,             \* hostings and their CNAMEs
    NoDomain,
    MaxWrites,                  \* requests and installations in a behaviour
    MaxTroubles                 \* late rollbacks and lost tasks in a behaviour

ASSUME HostingAssumption ==
    NoDomain \notin Domains /\ MaxWrites \in Nat /\ MaxTroubles \in Nat

VARIABLES
    site,         \* by hosting: its committed row
    listed,       \* Instance.domains
    write,        \* by writer: step, operation, hosting and the row it works on
    writes,
    checks,       \* SSL tasks sent: pairs of hosting and domain
    certs,        \* external: domains with a certificate
    troubles,
    crossed,      \* history: a socket's installation overlapped another writer
    orphaned,     \* history: domains left by a rollback, or deleted with a socket
    upset         \* history: hostings whose domain the refresh struck while a task or an
                  \* installation had it, or while the instance did not list it

hostingVars == <<site, listed, write, writes, checks, certs, troubles, crossed, orphaned, upset>>

NoSite == [state |-> "none", domain |-> NoDomain, default |-> "no", ssl |-> "off"]
NoWrite == [at |-> "idle", op |-> "none", site |-> {}, row |-> NoSite]

Writers == {"api", "install"}

HostingInit ==
    /\ site = [h \in Sites |-> NoSite]
    /\ listed = {}
    /\ write = [w \in Writers |-> NoWrite]
    /\ writes = 0
    /\ checks = {} /\ certs = {} /\ troubles = 0
    /\ crossed = "no" /\ orphaned = {} /\ upset = {}

Live == {h \in Sites : site[h].state = "live"}
Defaults == {h \in Live : site[h].default = "yes"}
Busy(w) == write[w].at # "idle"

(* Rows a writer has locked: a request with the read of its own hosting     *)
(* (select_for_update), any writer with what it saves.                      *)
LockedBy(w) ==
    IF write[w].at = "saved" /\ write[w].op = "set_default" THEN write[w].site \cup Defaults
    ELSE IF write[w].at = "saved" \/ w = "api" THEN write[w].site ELSE {}
Free(w, rows) == \A v \in Writers \ {w} : rows \cap LockedBy(v) = {}

-----------------------------------------------------------------------------
(* Writers *)

SiteOps(w) == IF w = "api" THEN {"create", "update", "delete", "set_default", "enable_ssl"}
              ELSE {"create", "update", "remove"}

(* A request, or an installation, reads the hosting and validates it: it is *)
(* not being checked.  A deletion is not validated.                         *)
ReadSite(w, op, h) ==
    /\ ~Busy(w) /\ writes < MaxWrites
    /\ w = "api" => Free(w, {h})
    /\ IF op = "create" THEN site[h].state = "none" ELSE h \in Live
    /\ op \in {"update", "set_default", "enable_ssl"} => site[h].ssl # "checking"
    /\ op = "enable_ssl" => site[h].domain # NoDomain /\ site[h].ssl # "on"
    /\ op = "set_default" => site[h].default = "no"
    /\ write' = [write EXCEPT ![w] = [at |-> "read", op |-> op, site |-> {h}, row |-> site[h]]]
    /\ writes' = writes + 1
    /\ crossed' = IF \E v \in Writers \ {w} : Busy(v) THEN "yes" ELSE crossed
    /\ UNCHANGED <<site, listed, checks, certs, troubles, orphaned, upset>>

(* hosting_pre_save_handler: a list of domains that changed is checked, even *)
(* with the same CNAME (the old list is compared with the new CNAME).        *)
Resaved(row, domain, listChanged) ==
    [row EXCEPT !.state = "live",
                !.domain = domain,
                !.default = IF Live = {} THEN "yes" ELSE @,
                !.ssl = IF ~listChanged THEN @ ELSE IF domain = NoDomain THEN "off" ELSE "checking"]

(* validate_domains, among the hostings committed. *)
DomainFree(own, d) == d = NoDomain \/ \A g \in Live \ own : site[g].domain # d

(* hosting_post_save_handler: the instance's row is of the default database  *)
(* and committed at once.                                                     *)
Relisted(old, new) == IF old = new THEN listed ELSE (listed \cup ({new} \ {NoDomain})) \ {old}

(* The row is saved, all of it. *)
SaveSite(w) ==
    /\ write[w].at = "read"
    /\ Free(w, write[w].site)
    /\ LET row == write[w].row
           old == row.domain
           Save(new, domains) == /\ write' = [write EXCEPT ![w].at = "saved", ![w].row = new]
                                 /\ listed' = domains
       IN  \/ /\ write[w].op \in {"create", "update"}
              /\ \E d \in Domains \cup {NoDomain}, changed \in BOOLEAN :
                    /\ DomainFree(write[w].site, d)
                    /\ d # old => changed
                    /\ Save(Resaved(row, d, changed), Relisted(old, d))
           \/ /\ write[w].op = "set_default"
              /\ Free(w, Defaults)
              /\ Save([row EXCEPT !.default = "yes"], listed)
           \/ /\ write[w].op = "enable_ssl"
              /\ Save([row EXCEPT !.ssl = "checking"], listed)
           \/ /\ write[w].op = "delete"
              /\ Save([row EXCEPT !.state = "deleted"], Relisted(old, NoDomain))
           \* SocketDependency.cleanup_model: no handler of a save runs.
           \/ /\ write[w].op = "remove"
              /\ Save([row EXCEPT !.state = "deleted"], listed)
    /\ UNCHANGED <<site, writes, checks, certs, troubles, crossed, orphaned, upset>>

FaultOthers(w) == [h \in Sites |-> site[h]]

(* set_default takes the mark from the old default. *)
Others(w) ==
    [h \in Sites |-> IF write[w].op = "set_default" THEN [site[h] EXCEPT !.default = "no"] ELSE site[h]]

(* A row that is being checked sends its task after the commit. *)
CommitSite(w) ==
    /\ write[w].at = "saved"
    /\ LET row == write[w].row
       IN  /\ site' = [h \in Sites |-> IF h \in write[w].site THEN row ELSE Others(w)[h]]
           /\ checks' = IF row.ssl = "checking" /\ row.state = "live"
                        THEN checks \cup (write[w].site \X {row.domain}) ELSE checks
           /\ orphaned' = IF write[w].op = "remove" THEN orphaned \cup {row.domain} ELSE orphaned
    /\ write' = [write EXCEPT ![w] = NoWrite]
    /\ UNCHANGED <<listed, writes, certs, troubles, crossed, upset>>

(* An error, refused by the serializer before the save or later in the      *)
(* request or the rest of the installation.                                 *)
RollbackSite(w) ==
    /\ Busy(w)
    /\ \/ write[w].at = "read" /\ UNCHANGED <<troubles, orphaned>>
       \/ /\ write[w].at = "saved" /\ troubles < MaxTroubles
          /\ troubles' = troubles + 1
          /\ orphaned' = orphaned \cup {write[w].row.domain} \cup {site[h].domain : h \in write[w].site}
    /\ write' = [write EXCEPT ![w] = NoWrite]
    /\ UNCHANGED <<site, listed, writes, checks, certs, crossed, upset>>

-----------------------------------------------------------------------------
(* Tasks *)

(* HostingAddSecureCustomDomainTask.run: hosting_qs.update waits for the     *)
(* row and finds only a live hosting.                                        *)
Marked(h, ssl) == IF h \in Live THEN [site EXCEPT ![h].ssl = ssl] ELSE site

(* The domain is valid and the script issues its certificate, or not: the   *)
(* task ends with a status of the failure, or is retried.                   *)
CheckDomain(h, d) ==
    /\ <<h, d>> \in checks
    /\ \A w \in Writers : h \notin LockedBy(w)
    /\ \/ site' = Marked(h, "on") /\ certs' = certs \cup {d}
       \/ \E ssl \in {"invalid", "other"} : site' = Marked(h, ssl) /\ UNCHANGED certs
    /\ checks' = checks \ {<<h, d>>}
    /\ UNCHANGED <<listed, write, writes, troubles, crossed, orphaned, upset>>

(* A task that its worker dies with: the hosting stays checked. *)
LoseCheck(h, d) ==
    /\ <<h, d>> \in checks /\ troubles < MaxTroubles
    /\ checks' = checks \ {<<h, d>>}
    /\ troubles' = troubles + 1
    /\ UNCHANGED <<site, listed, write, writes, certs, crossed, orphaned, upset>>

(* remove_domain, for the instance that lists the domain. *)
Struck(d) ==
    [h \in Sites |-> IF h \in Live /\ site[h].domain = d /\ d \in listed
                     THEN [site[h] EXCEPT !.ssl = "invalid"] ELSE site[h]]

(* HostingRefreshSecureCustomDomainCertTask: no instance has the domain any  *)
(* more, or its certificate was not renewed for too long.                    *)
RefreshCerts(d) ==
    /\ d \in certs
    /\ \A h \in Sites, w \in Writers : site[h].domain = d => h \notin LockedBy(w)
    /\ certs' = certs \ {d}
    /\ site' = Struck(d)
    /\ upset' = upset \cup {h \in Sites :
                    \/ <<h, d>> \in checks
                    \/ h \in Live /\ site[h].domain = d /\ d \notin listed
                    \/ \E w \in Writers : h \in write[w].site /\ write[w].row.domain = d}
    /\ UNCHANGED <<listed, write, writes, checks, troubles, crossed, orphaned>>

HostingNext ==
    \/ \E w \in Writers :
        \/ \E op \in SiteOps(w), h \in Sites : ReadSite(w, op, h)
        \/ SaveSite(w) \/ CommitSite(w) \/ RollbackSite(w)
    \/ \E h \in Sites, d \in Domains : CheckDomain(h, d) \/ LoseCheck(h, d)
    \/ \E d \in Domains : RefreshCerts(d)

-----------------------------------------------------------------------------
(* Between requests: one default at most, no domain with two hostings, and  *)
(* the instance lists the domains of its hostings - but for a domain of a   *)
(* save that was undone or of a hosting that went with its socket, and      *)
(* unless an installation overlapped another writer.                        *)
OneSitePerDomain ==
    crossed = "no" /\ (\A w \in Writers : ~Busy(w)) =>
        /\ Cardinality(Defaults) <= 1
        /\ \A g, h \in Live : site[g].domain = site[h].domain => g = h \/ site[g].domain = NoDomain
        /\ \A d \in Domains \ orphaned : d \in listed <=> \E h \in Live : site[h].domain = d

(* A hosting with SSL on has a certificate for the domain it has now, unless *)
(* the refresh removed one that a task or an installation was about.         *)
CertifiedWhenOn ==
    crossed = "no" => \A h \in Live \ upset : site[h].ssl = "on" => site[h].domain \in certs

(* What a domain serves is well defined and, with SSL on, certified. *)
SitesAreSound == OneSitePerDomain /\ CertifiedWhenOn
=============================================================================
