------------------------------ MODULE Notices ------------------------------
(***************************************************************************)
(* The tasks that go through accounts and invoices a chunk at a time:      *)
(* SendUnusedAccountNotification and DeleteInactiveAccounts, which end an  *)
(* account nobody uses, and MonthlySummaryTask (apps/analytics/tasks.py,   *)
(* apps/admins/tasks.py).                                                  *)
(*                                                                         *)
(* Each reads one row more than a chunk, to know whether a next run is     *)
(* needed.  What it then does to that row is the question.  A task's lock  *)
(* keeps it from running twice at a time; the owner uses the account at    *)
(* any moment.                                                             *)
(***************************************************************************)
EXTENDS Integers, FiniteSets

CONSTANTS
    Owners,          \* accounts, numbered in the order of their keys
    Summaries,       \* invoices of past months, numbered likewise
    NoticeChunk,     \* chunk_size of SendUnusedAccountNotification
    DeleteChunk,     \* chunk_size of DeleteInactiveAccounts
    SummaryChunk     \* chunk_size of MonthlySummaryTask

VARIABLES
    lastAccess,   \* "recent": within 12 hours, "used", "old": ACCOUNT_MAX_IDLE_DAYS ago
    noticedAt,    \* noticed_at: "none", "now", "past": ACCOUNT_NOTICE_CONFIRMATION_DAYS ago
    paying,       \* accounts with a paid plan
    live,         \* accounts that were not deleted
    warning,      \* the running SendUnusedAccountNotification: its stage and its rows
    condemned,    \* rows of the running DeleteInactiveAccounts
    statusSent,   \* invoices with status_sent
    warned,       \* history: accounts that were ever warned
    summed,       \* history: invoices whose summary was sent
    ended         \* history: accounts deleted for not being used

noticesVars == <<lastAccess, noticedAt, paying, live, warning, condemned, statusSent, warned, summed, ended>>

NoRows == [stage |-> "idle", rows |-> {}]

NoticesInit ==
    /\ lastAccess = [a \in Owners |-> "recent"]
    /\ noticedAt = [a \in Owners |-> "none"]
    /\ paying = {} /\ live = Owners
    /\ warning = NoRows /\ condemned = {}
    /\ statusSent = {} /\ warned = {} /\ summed = {} /\ ended = {}

(* queryset[:n], in the order of the keys *)
FirstOf(n, rows) == {r \in rows : Cardinality({s \in rows : s < r}) < n}

-----------------------------------------------------------------------------
(* Time and owners *)

Older(a) ==
    /\ \/ /\ lastAccess[a] # "old"
          /\ lastAccess' = [lastAccess EXCEPT ![a] = IF @ = "recent" THEN "used" ELSE "old"]
          /\ UNCHANGED noticedAt
       \/ /\ noticedAt[a] = "now"
          /\ noticedAt' = [noticedAt EXCEPT ![a] = "past"]
          /\ UNCHANGED lastAccess
    /\ UNCHANGED <<paying, live, warning, condemned, statusSent, warned, summed, ended>>

UpdateLastAccess(a) ==
    /\ a \in live /\ lastAccess[a] # "recent"
    /\ lastAccess' = [lastAccess EXCEPT ![a] = "recent"]
    /\ noticedAt' = [noticedAt EXCEPT ![a] = "none"]
    /\ UNCHANGED <<paying, live, warning, condemned, statusSent, warned, summed, ended>>

ChangePlan(a) ==
    /\ a \in live
    /\ paying' = IF a \in paying THEN paying \ {a} ELSE paying \union {a}
    /\ UNCHANGED <<lastAccess, noticedAt, live, warning, condemned, statusSent, warned, summed, ended>>

-----------------------------------------------------------------------------
(* SendUnusedAccountNotification *)

Unused == {a \in live \ paying : lastAccess[a] = "old" /\ noticedAt[a] = "none"}

(* The loop reads a chunk of its own ... *)
ListUnused ==
    /\ warning = NoRows /\ Unused # {}
    /\ warning' = [stage |-> "warn", rows |-> FirstOf(NoticeChunk, Unused)]
    /\ UNCHANGED <<lastAccess, noticedAt, paying, live, condemned, statusSent, warned, summed, ended>>

Warn(a) ==
    /\ warning.stage = "warn" /\ a \in warning.rows
    /\ warned' = warned \union {a}
    /\ warning' = [warning EXCEPT !.rows = @ \ {a}]
    /\ UNCHANGED <<lastAccess, noticedAt, paying, live, condemned, statusSent, summed, ended>>

(* ... and the list of keys is a second query, one row longer. *)
ListNoticed ==
    /\ warning.stage = "warn" /\ warning.rows = {}
    /\ warning' = [stage |-> "mark", rows |-> FirstOf(NoticeChunk + 1, Unused)]
    /\ UNCHANGED <<lastAccess, noticedAt, paying, live, condemned, statusSent, warned, summed, ended>>

MarkNoticed ==
    /\ warning.stage = "mark"
    /\ noticedAt' = [a \in Owners |-> IF a \in warning.rows \intersect live THEN "now" ELSE noticedAt[a]]
    /\ warning' = NoRows
    /\ UNCHANGED <<lastAccess, paying, live, condemned, statusSent, warned, summed, ended>>

-----------------------------------------------------------------------------
(* DeleteInactiveAccounts: the filter by last_pk is built and thrown away.  *)

ListInactive ==
    /\ condemned = {}
    /\ condemned' = FirstOf(DeleteChunk, {a \in live \ paying : noticedAt[a] = "past"})
    /\ UNCHANGED <<lastAccess, noticedAt, paying, live, warning, statusSent, warned, summed, ended>>

DeleteInactive(a) ==
    /\ a \in condemned
    /\ condemned' = condemned \ {a}
    /\ live' = live \ {a}
    /\ ended' = ended \union {a}
    /\ UNCHANGED <<lastAccess, noticedAt, paying, warning, statusSent, warned, summed>>

-----------------------------------------------------------------------------
(* MonthlySummaryTask: the chunk goes out, and the rows up to the last key  *)
(* that was read are marked, also when a message fails.                     *)
SendSummaries ==
    LET chunk == FirstOf(SummaryChunk + 1, Summaries \ statusSent) IN
    /\ chunk # {}
    /\ \/ summed' = summed \union FirstOf(SummaryChunk, chunk)
       \/ \E i \in FirstOf(SummaryChunk, chunk) : summed' = summed \union {j \in chunk : j < i}
    /\ statusSent' = statusSent \union {i \in Summaries : \E j \in chunk : i <= j}
    /\ UNCHANGED <<lastAccess, noticedAt, paying, live, warning, condemned, warned, ended>>

NoticesNext ==
    \/ ListUnused \/ ListNoticed \/ MarkNoticed \/ ListInactive \/ SendSummaries
    \/ \E a \in Owners :
        Older(a) \/ UpdateLastAccess(a) \/ ChangePlan(a) \/ Warn(a) \/ DeleteInactive(a)

NoticesSpec == NoticesInit /\ [][NoticesNext]_noticesVars

-----------------------------------------------------------------------------
(* An account that is deleted for not being used was warned before: the     *)
(* settings say it goes so long "since sending notice".                     *)
DeletedWereWarned == ended \subseteq warned
=============================================================================
