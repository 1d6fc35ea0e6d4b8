--------------------------- MODULE RequestsProofs ---------------------------
(***************************************************************************)
(* Theorems about requests: a user's rows under overlapping requests       *)
(* (Users), the result of an endpoint call (EndpointCalls), the permission *)
(* checks of a request (Access) and the changes of a room (Channels).      *)
(* Each of the four has an inductive invariant of its own; they share no   *)
(* state.                                                                  *)
(***************************************************************************)
EXTENDS Users, EndpointCalls, Access, Channels, FiniteSetTheorems, SequenceTheorems,
        WellFoundedInduction, TLAPS

USE DEF Update1, Delete1, Reset1, Update2, Delete2, Reset2, Account1, Account2, Join

(* Users *)

UserRows == [live : {"none", "live", "dead", "gone"}, key : Nat]
SessionRows ==
    [op : Ops \cup {"none"}, at : {"idle", "reading", "read", "user saved", "profile saved", "joined"},
     copy : UserRows, user : UserRows, profile : {"none", "live", "dead"}, groups : SUBSET UserGroups]

UsersTypeOK ==
    /\ user \in UserRows /\ profile \in {"none", "live", "dead", "gone"}
    /\ members \subseteq UserGroups
    /\ session \in [Sessions -> SessionRows]
    /\ userLock \in Sessions \cup {NoSession} /\ profileLock \in Sessions \cup {NoSession}
    /\ keys \in Nat /\ lastReset \in Nat

\* A request has written the user's row, must hold its lock, that of the profile.
Saves(s) ==
    session[s].at = "user saved" \/ (session[s].at = "profile saved" /\ session[s].op # Delete2)
HoldsUser(s) == session[s].op \in UserLocked \/ Saves(s)
HoldsProfile(s) ==
    (session[s].op \in V2 /\ session[s].at # "reading") \/ session[s].at = "profile saved"

LocksSound ==
    \A s \in Sessions : (HoldsUser(s) => userLock = s) /\ (HoldsProfile(s) => profileLock = s)

\* What a request has in hand at each of its steps.
SessionsShaped ==
    \A s \in Sessions :
        /\ session[s].at = "idle" => session[s] = Idle
        /\ session[s].at # "idle" => session[s].op \in Ops /\ session[s].copy.live # "none"
        /\ session[s].at = "reading" => session[s].op \in V2
        /\ session[s].at = "joined" => session[s].op = Join
        /\ session[s].at = "profile saved" => session[s].op \in {Update1, Account1, Update2, Account2, Delete2}
        /\ session[s].at = "user saved" => session[s].op # Join
        /\ Saves(s) => session[s].user.live # "none"
        /\ ~Saves(s) => session[s].user = NoRow
        /\ session[s].profile # "none" => HoldsProfile(s)
        /\ session[s].profile # "none" <=>
             session[s].at = "profile saved" \/ (session[s].op = Delete2 /\ session[s].at = "user saved")
        /\ session[s].profile = "dead" <=> session[s].profile # "none" /\ session[s].op = Delete2

\* Before the user is created there is nothing.
NothingBefore ==
    /\ user.live = "none" => /\ user = NoRow /\ profile = "none" /\ lastReset = 0
                             /\ \A s \in Sessions : session[s].at = "idle"

\* A request that joins a group has counted the groups, and holds the lock.
JoinsSound ==
    \A s \in Sessions : session[s].op = Join =>
        /\ session[s].at = "read" => members \subseteq session[s].groups
        /\ session[s].at = "joined" => Cardinality(members) < GroupMaxCount /\ \E g \in UserGroups : session[s].groups = {g}

\* As long as nothing was overwritten, what was read with a lock is what is there,
\* and what was saved follows from it.
SavesSound ==
    \A s \in Sessions :
        /\ session[s].at # "idle" => session[s].copy.live \in {"live", "dead"}
        /\ session[s].op \in UserLocked /\ session[s].at = "read" => session[s].copy = user /\ user.live = "live"
        /\ HoldsProfile(s) => profile = "live"
        /\ Saves(s) => /\ user.live \in {"live", "dead"}
                       /\ IF Deletes(session[s].op) THEN session[s].user = [user EXCEPT !.live = "dead"]
                          ELSE session[s].user.live = user.live
                       /\ ~Deletes(session[s].op) /\ ~Resets(session[s].op) => session[s].user = user

UsersInv ==
    /\ UsersTypeOK /\ LocksSound /\ SessionsShaped /\ NothingBefore /\ JoinsSound
    /\ GroupLimit /\ UserIsWhole
    /\ overwrote = "no" => SavesSound

\* An idle request has empty hands.
LEMMA IdleRow ==
    /\ Idle.op = "none" /\ Idle.at = "idle" /\ Idle.user = NoRow /\ Idle.profile = "none"
    /\ NoRow.live = "none" /\ NoRow.key = 0
  BY DEF Idle, NoRow

\* Nothing is there at first.
LEMMA UsersStart == UsersInit => UsersInv
<1> SUFFICES ASSUME UsersInit PROVE UsersInv
  OBVIOUS
<1>1. UsersTypeOK
  BY UsersAssumption DEF UsersInit, UsersTypeOK, UserRows, SessionRows, Idle, NoRow
<1>2. /\ \A s \in Sessions : session[s] = Idle
      /\ user = NoRow /\ profile = "none" /\ members = {} /\ lastReset = 0
  BY DEF UsersInit
<1>h. \A s \in Sessions : ~Saves(s) /\ ~HoldsUser(s) /\ ~HoldsProfile(s)
  BY <1>2, IdleRow DEF HoldsUser, HoldsProfile, Saves, UserLocked, V1, V2
<1>3. LocksSound
  BY <1>h DEF LocksSound
<1>4. SessionsShaped
  BY <1>2, <1>h, IdleRow DEF SessionsShaped
<1>5. NothingBefore /\ JoinsSound /\ UserIsWhole
  BY <1>2, IdleRow DEF NothingBefore, JoinsSound, UserIsWhole
<1>6. GroupLimit
  BY <1>2, FS_EmptySet, UsersAssumption DEF GroupLimit
<1>7. SavesSound
  BY <1>2, <1>h, IdleRow DEF SavesSound, UserLocked, V1
<1>8. QED
  BY <1>1, <1>3, <1>4, <1>5, <1>6, <1>7 DEF UsersInv

\* The sessions after a step of one of them.
LEMMA OneSession ==
    ASSUME UsersTypeOK, NEW s \in Sessions, NEW row \in SessionRows, session' = [session EXCEPT ![s] = row]
    PROVE  /\ session' \in [Sessions -> SessionRows] /\ session'[s] = row
           /\ \A r \in Sessions : r # s => /\ session'[r] = session[r]
                                           /\ Saves(r)' <=> Saves(r)
                                           /\ HoldsUser(r)' <=> HoldsUser(r)
                                           /\ HoldsProfile(r)' <=> HoldsProfile(r)
<1>1. /\ session' \in [Sessions -> SessionRows] /\ session'[s] = row
      /\ \A r \in Sessions : r # s => session'[r] = session[r]
  BY DEF UsersTypeOK
<1>2. QED
  BY <1>1 DEF Saves, HoldsUser, HoldsProfile

\* A step of a request that commits nothing: a lock it takes was free, and what it
\* has in hand is right.
LEMMA OwnStep ==
    ASSUME UsersInv, NEW s \in Sessions, NEW row \in SessionRows, session' = [session EXCEPT ![s] = row],
           UNCHANGED <<user, profile, members, lastReset>>, keys' \in Nat, user.live # "none",
           userLock' = userLock \/ (userLock' = s /\ userLock \in {NoSession, s}),
           profileLock' = profileLock \/ (profileLock' = s /\ profileLock \in {NoSession, s}),
           HoldsUser(s)' => userLock' = s, HoldsProfile(s)' => profileLock' = s,
           SessionsShaped!(s)', JoinsSound!(s)',
           overwrote' = "no" => overwrote = "no" /\ SavesSound!(s)'
    PROVE  UsersInv'
<1>t. UsersTypeOK /\ LocksSound /\ SessionsShaped /\ JoinsSound /\ GroupLimit /\ UserIsWhole
  BY DEF UsersInv
<1>1. /\ session' \in [Sessions -> SessionRows] /\ session'[s] = row
      /\ \A r \in Sessions : r # s => /\ session'[r] = session[r]
                                      /\ Saves(r)' <=> Saves(r)
                                      /\ HoldsUser(r)' <=> HoldsUser(r)
                                      /\ HoldsProfile(r)' <=> HoldsProfile(r)
  BY <1>t, OneSession
<1>2. UsersTypeOK'
  BY <1>t, <1>1 DEF UsersTypeOK
<1>3. LocksSound'
  BY <1>t, <1>1, UsersAssumption DEF LocksSound
<1>4. SessionsShaped'
  <2> SUFFICES ASSUME NEW r \in Sessions, r # s PROVE SessionsShaped!(r)'
    BY DEF SessionsShaped
  <2>1. QED
    BY <1>t, <1>1 DEF SessionsShaped
<1>5. JoinsSound'
  <2> SUFFICES ASSUME NEW r \in Sessions, r # s PROVE JoinsSound!(r)'
    BY DEF JoinsSound
  <2>1. QED
    BY <1>t, <1>1 DEF JoinsSound
<1>6. NothingBefore' /\ GroupLimit'
  BY <1>t DEF NothingBefore, GroupLimit
<1>7. UserIsWhole'
  BY <1>t DEF UserIsWhole
<1>8. ASSUME overwrote' = "no" PROVE SavesSound'
  <2> SUFFICES ASSUME NEW r \in Sessions, r # s PROVE SavesSound!(r)'
    BY <1>8 DEF SavesSound
  <2>1. SavesSound
    BY <1>8 DEF UsersInv
  <2>2. QED
    BY <1>1, <2>1 DEF SavesSound
<1>9. QED
  BY <1>2, <1>3, <1>4, <1>5, <1>6, <1>7, <1>8 DEF UsersInv

\* A request begins.
LEMMA BeginKeeps ==
    ASSUME UsersInv, NEW s \in Sessions, NEW op \in Ops, Begin(s, op)
    PROVE  UsersInv'
<1> DEFINE row == [Idle EXCEPT !.op = op, !.at = IF op \in V2 THEN "reading" ELSE "read", !.copy = user, !.groups = members]
<1>t. UsersTypeOK /\ LocksSound /\ SessionsShaped /\ NothingBefore /\ JoinsSound /\ GroupLimit /\ UserIsWhole
  BY DEF UsersInv
<1>1. /\ session[s].at = "idle" /\ session' = [session EXCEPT ![s] = row]
      /\ op \in V1 \cup Account \cup {Join} => user.live = "live"
      /\ op \in V1 \cup V2 => profile = "live"
      /\ op \in UserLocked => userLock = NoSession
      /\ userLock' = IF op \in UserLocked THEN s ELSE userLock
      /\ UNCHANGED <<user, profile, members, profileLock, keys, overwrote, lastReset>>
  BY DEF Begin
<1>2. /\ row.op = op /\ row.at = (IF op \in V2 THEN "reading" ELSE "read") /\ row.copy = user
      /\ row.user = NoRow /\ row.profile = "none" /\ row.groups = members
  BY DEF Idle
<1>3. row \in SessionRows
  BY <1>t DEF Idle, SessionRows, UsersTypeOK, UserRows, NoRow
<1> HIDE DEF row
<1>4. /\ session' \in [Sessions -> SessionRows] /\ session'[s] = row
      /\ \A r \in Sessions : r # s => session'[r] = session[r]
  BY <1>t, <1>1, <1>3 DEF UsersTypeOK
<1>5. UsersTypeOK'
  BY <1>t, <1>1, <1>4 DEF UsersTypeOK
<1>6. \A r \in Sessions : r # s => /\ Saves(r)' <=> Saves(r)
                                   /\ HoldsUser(r)' <=> HoldsUser(r)
                                   /\ HoldsProfile(r)' <=> HoldsProfile(r)
  BY <1>4 DEF Saves, HoldsUser, HoldsProfile
<1>7. ~Saves(s)' /\ ~HoldsProfile(s)' /\ (HoldsUser(s)' <=> op \in UserLocked)
  BY <1>2, <1>4 DEF Saves, HoldsUser, HoldsProfile
<1>8. LocksSound'
  BY <1>t, <1>1, <1>6, <1>7, UsersAssumption DEF LocksSound
<1>9. user.live # "none" /\ (op \in V2 => user.live # "none")
  BY <1>t, <1>1 DEF NothingBefore, Ops
<1>10. SessionsShaped'
  <2> SUFFICES ASSUME NEW r \in Sessions PROVE SessionsShaped!(r)'
    BY DEF SessionsShaped
  <2>1. CASE r # s
    BY <1>t, <1>4, <1>6, <2>1 DEF SessionsShaped
  <2>2. CASE r = s
    BY <1>2, <1>4, <1>7, <1>9, <2>2 DEF V2
  <2>3. QED
    BY <2>1, <2>2
<1>11. NothingBefore'
  BY <1>1, <1>9 DEF NothingBefore
<1>12. JoinsSound'
  BY <1>t, <1>1, <1>2, <1>4 DEF JoinsSound
<1>13. GroupLimit' /\ UserIsWhole'
  BY <1>t, <1>1 DEF GroupLimit, UserIsWhole
<1>14. ASSUME overwrote = "no" PROVE SavesSound'
  <2>1. SavesSound
    BY <1>14 DEF UsersInv
  <2>2. user.live \in {"live", "dead"} /\ (op \in UserLocked => user.live = "live")
    BY <1>t, <1>1, <1>14 DEF UserIsWhole, Ops, UserLocked
  <2>3. QED
    BY <1>1, <1>2, <1>4, <1>6, <1>7, <2>1, <2>2 DEF SavesSound
<1>15. QED
  BY <1>1, <1>5, <1>8, <1>10, <1>11, <1>12, <1>13, <1>14 DEF UsersInv

\* The row of a user is there for everybody who is not idle.
LEMMA UserThere ==
    ASSUME UsersInv, NEW s \in Sessions, session[s].at # "idle"
    PROVE  user.live # "none" /\ session[s] \in SessionRows /\ session[s].op \in Ops
  BY DEF UsersInv, NothingBefore, UsersTypeOK, SessionsShaped

\* A request gets the lock of the profile.
LEMMA LockProfileKeeps ==
    ASSUME UsersInv, NEW s \in Sessions, LockProfile(s)
    PROVE  UsersInv'
<1> DEFINE row == [session[s] EXCEPT !.at = "read"]
<1>t. UsersTypeOK /\ SessionsShaped!(s) /\ keys \in Nat
  BY DEF UsersInv, SessionsShaped, UsersTypeOK
<1>1. /\ session[s].at = "reading" /\ profileLock = NoSession /\ profile = "live"
      /\ session' = [session EXCEPT ![s] = row] /\ profileLock' = s
      /\ UNCHANGED <<user, profile, members, userLock, keys, overwrote, lastReset>>
  BY <1>t DEF LockProfile, UsersTypeOK
<1>2. user.live # "none" /\ session[s] \in SessionRows /\ session[s].op \in Ops
  BY <1>1, UserThere
<1>3. /\ row \in SessionRows /\ row.op = session[s].op /\ row.at = "read" /\ row.copy = session[s].copy
      /\ row.user = session[s].user /\ row.profile = session[s].profile /\ row.groups = session[s].groups
  BY <1>2 DEF SessionRows
<1> HIDE DEF row
<1>4. session'[s] = row
  BY <1>t, <1>1, <1>3, OneSession
<1>5. session[s].op \in V2
  BY <1>t, <1>1
<1>6. ~Saves(s)' /\ ~HoldsUser(s)' /\ HoldsProfile(s)' /\ ~Saves(s)
  BY <1>1, <1>3, <1>4, <1>5 DEF Saves, HoldsUser, HoldsProfile, UserLocked, V1, V2
<1>7. SessionsShaped!(s)'
  BY <1>t, <1>1, <1>2, <1>3, <1>4, <1>6
<1>8. JoinsSound!(s)'
  BY <1>3, <1>4, <1>5 DEF V2
<1>9. overwrote' = "no" => overwrote = "no" /\ SavesSound!(s)'
  BY <1>1, <1>3, <1>4, <1>5, <1>6 DEF UsersInv, SavesSound, UserLocked, V1, V2
<1>10. QED
  BY <1>1, <1>2, <1>3, <1>4, <1>6, <1>7, <1>8, <1>9, <1>t, OwnStep

\* A request writes the user's row.
LEMMA SaveUserKeeps ==
    ASSUME UsersInv, NEW s \in Sessions, SaveUser(s)
    PROVE  UsersInv'
<1> DEFINE op == session[s].op
           stored == Saved(s)
           row == [session[s] EXCEPT !.at = "user saved", !.user = stored]
<1>t. UsersTypeOK /\ SessionsShaped!(s) /\ LocksSound /\ user \in UserRows /\ keys \in Nat
  BY DEF UsersInv, SessionsShaped, UsersTypeOK
<1>1. /\ session[s].at = (IF op = Delete2 THEN "profile saved" ELSE "read") /\ op # Join
      /\ userLock \in {NoSession, s} /\ userLock' = s
      /\ keys' = (IF Resets(op) THEN keys + 1 ELSE keys)
      /\ overwrote' = IF op \in (V2 \ {Delete2}) \cup Account /\ session[s].copy # user THEN "yes" ELSE overwrote
      /\ UNCHANGED <<user, profile, members, profileLock, requests, lastReset>>
  BY DEF SaveUser, Free
<1>2. session[s].at # "idle" /\ user.live # "none" /\ session[s] \in SessionRows /\ op \in Ops
  BY <1>1, UserThere
<1>3. session' = [session EXCEPT ![s] = row]
  BY <1>t, <1>2 DEF SaveUser, UsersTypeOK
<1>4. /\ session[s].copy \in UserRows /\ session[s].copy.live # "none"
  BY <1>t, <1>2 DEF SessionRows
<1>5. /\ stored \in UserRows
      /\ Deletes(op) => stored = [user EXCEPT !.live = "dead"]
      /\ ~Deletes(op) /\ Resets(op) => stored.live = session[s].copy.live
      /\ ~Deletes(op) /\ ~Resets(op) => stored = session[s].copy
  <2>0. /\ Deletes(op) => stored = [user EXCEPT !.live = "dead"]
        /\ ~Deletes(op) /\ Resets(op) => stored = [session[s].copy EXCEPT !.key = keys + 1]
        /\ ~Deletes(op) /\ ~Resets(op) => stored = session[s].copy
    BY Zenon DEF Saved
  <2>1. user \in UserRows /\ keys \in Nat /\ session[s].copy \in UserRows
    BY <1>t, <1>4
  <2> HIDE DEF stored, op
  <2>2. CASE Deletes(op)
    BY <2>0, <2>1, <2>2 DEF UserRows
  <2>3. CASE ~Deletes(op) /\ Resets(op)
    <3>1. stored = [session[s].copy EXCEPT !.key = keys + 1]
      BY <2>0, <2>3
    <3>2. QED
      BY <2>1, <2>3, <3>1 DEF UserRows
  <2>4. CASE ~Deletes(op) /\ ~Resets(op)
    BY <2>0, <2>1, <2>4
  <2>5. QED
    BY <2>2, <2>3, <2>4
<1>6. stored.live # "none"
  BY <1>t, <1>4, <1>5 DEF UserRows
<1> HIDE DEF stored
<1>7. /\ row \in SessionRows /\ row.op = op /\ row.at = "user saved" /\ row.copy = session[s].copy
      /\ row.user = stored /\ row.profile = session[s].profile /\ row.groups = session[s].groups
  BY <1>2, <1>5 DEF SessionRows
<1> HIDE DEF row
<1>8. session'[s] = row
  BY <1>t, <1>3, <1>7, OneSession
<1>9. Saves(s)' /\ HoldsUser(s)' /\ (HoldsProfile(s)' <=> op \in V2)
  BY <1>7, <1>8 DEF Saves, HoldsUser, HoldsProfile
<1>10. op \in V2 => HoldsProfile(s)
  BY <1>1 DEF HoldsProfile
<1>11. HoldsProfile(s)' => profileLock = s
  BY <1>t, <1>9, <1>10 DEF LocksSound
<1>12. session[s].profile # "none" <=> op = Delete2
  BY <1>t, <1>1
<1>13. SessionsShaped!(s)'
  BY <1>t, <1>1, <1>2, <1>4, <1>6, <1>7, <1>8, <1>9, <1>12 DEF V2
<1>14. JoinsSound!(s)'
  BY <1>1, <1>7, <1>8
<1>15. ASSUME overwrote' = "no" PROVE overwrote = "no" /\ SavesSound!(s)'
  <2>1. overwrote = "no" /\ (op \in (V2 \ {Delete2}) \cup Account => session[s].copy = user)
    BY <1>1, <1>15
  <2>2. SavesSound /\ UserIsWhole
    BY <2>1 DEF UsersInv
  <2>3. session[s].copy.live \in {"live", "dead"} /\ (HoldsProfile(s) => profile = "live")
    BY <1>2, <2>2 DEF SavesSound
  <2>4. op \in V1 => session[s].copy = user /\ user.live = "live"
    BY <1>1, <2>2 DEF SavesSound, UserLocked, V1
  <2>5. op = Delete2 \/ session[s].copy = user
    BY <1>1, <1>2, <2>1, <2>4 DEF Ops
  <2>6. user.live \in {"live", "dead"}
    <3>1. CASE op = Delete2
      <4>1. profile = "live"
        BY <1>10, <2>3, <3>1 DEF V2
      <4>2. QED
        BY <2>1, <2>2, <4>1 DEF UserIsWhole
    <3>2. CASE session[s].copy = user
      BY <2>3, <3>2
    <3>3. QED
      BY <2>5, <3>1, <3>2
  <2>7. op = Delete2 => Deletes(op)
    BY DEF Deletes
  <2>8. QED
    BY <1>1, <1>5, <1>7, <1>8, <1>9, <1>10, <2>1, <2>3, <2>5, <2>6, <2>7
<1>16. keys' \in Nat
  <2>1. keys' = keys \/ keys' = keys + 1
    BY <1>1
  <2>2. keys \in Nat
    BY <1>t
  <2>3. QED
    BY <2>1, <2>2
<1>17. QED
  BY <1>1, <1>2, <1>3, <1>7, <1>9, <1>11, <1>13, <1>14, <1>15, <1>16, OwnStep

\* A request writes the profile's row.
LEMMA SaveProfileKeeps ==
    ASSUME UsersInv, NEW s \in Sessions, SaveProfile(s)
    PROVE  UsersInv'
<1> DEFINE op == session[s].op
           new == IF op = Delete2 THEN "dead" ELSE "live"
           row == [session[s] EXCEPT !.at = "profile saved", !.profile = new]
<1>t. UsersTypeOK /\ SessionsShaped!(s) /\ LocksSound /\ keys \in Nat
  BY DEF UsersInv, SessionsShaped, UsersTypeOK
<1>1. /\ \/ session[s].at = "user saved" /\ op \in {Update1, Account1, Update2, Account2}
         \/ session[s].at = "read" /\ op = Delete2
      /\ profileLock \in {NoSession, s} /\ profileLock' = s
      /\ op \in {Update1, Account1} => profile = "live"
      /\ overwrote' = IF op = Account2 /\ profile # "live" THEN "yes" ELSE overwrote
      /\ UNCHANGED <<user, profile, members, userLock, keys, requests, lastReset>>
  BY DEF SaveProfile, Free
<1>2. session[s].at # "idle" /\ user.live # "none" /\ session[s] \in SessionRows /\ op \in Ops
  BY <1>1, UserThere
<1>3. session' = [session EXCEPT ![s] = row]
  BY <1>t, <1>2 DEF SaveProfile, UsersTypeOK
<1>7. /\ row \in SessionRows /\ row.op = op /\ row.at = "profile saved" /\ row.copy = session[s].copy
      /\ row.user = session[s].user /\ row.profile = new /\ row.groups = session[s].groups
  BY <1>2 DEF SessionRows
<1> HIDE DEF row
<1>8. session'[s] = row
  BY <1>t, <1>3, <1>7, OneSession
<1>9. (Saves(s)' <=> Saves(s)) /\ (HoldsUser(s)' => HoldsUser(s)) /\ HoldsProfile(s)'
  BY <1>1, <1>7, <1>8 DEF Saves, HoldsUser, HoldsProfile
<1>10. HoldsUser(s)' => userLock = s
  BY <1>t, <1>9 DEF LocksSound
<1>13. SessionsShaped!(s)'
  BY <1>t, <1>1, <1>2, <1>7, <1>8, <1>9
<1>14. JoinsSound!(s)'
  BY <1>7, <1>8
<1>15. ASSUME overwrote' = "no" PROVE overwrote = "no" /\ SavesSound!(s)'
  <2>1. overwrote = "no" /\ (op = Account2 => profile = "live")
    BY <1>1, <1>15
  <2>2. SavesSound!(s)
    BY <2>1 DEF UsersInv, SavesSound
  <2>3. op \in V2 => HoldsProfile(s)
    BY <1>1 DEF HoldsProfile
  <2>4. profile = "live"
    BY <1>1, <2>1, <2>2, <2>3 DEF V2
  <2>8. QED
    BY <1>1, <1>2, <1>7, <1>8, <1>9, <2>1, <2>2, <2>4
<1>17. QED
  BY <1>t, <1>1, <1>2, <1>3, <1>7, <1>9, <1>10, <1>13, <1>14, <1>15, OwnStep

\* A request adds the user to a group.
LEMMA JoinGroupKeeps ==
    ASSUME UsersInv, NEW s \in Sessions, NEW g \in UserGroups, JoinGroup(s, g)
    PROVE  UsersInv'
<1> DEFINE row == [session[s] EXCEPT !.at = "joined", !.groups = {g}]
<1>t. UsersTypeOK /\ SessionsShaped!(s) /\ LocksSound /\ JoinsSound /\ keys \in Nat
  BY DEF UsersInv, SessionsShaped, UsersTypeOK
<1>1. /\ session[s].op = Join /\ session[s].at = "read"
      /\ Cardinality(session[s].groups) < GroupMaxCount
      /\ UNCHANGED <<user, profile, members, userLock, profileLock, keys, overwrote, lastReset>>
  BY DEF JoinGroup
<1>2. user.live # "none" /\ session[s] \in SessionRows
  BY <1>1, UserThere
<1>3. session' = [session EXCEPT ![s] = row]
  BY <1>t, <1>2 DEF JoinGroup, UsersTypeOK
<1>7. /\ row \in SessionRows /\ row.op = session[s].op /\ row.at = "joined" /\ row.copy = session[s].copy
      /\ row.user = session[s].user /\ row.profile = session[s].profile /\ row.groups = {g}
  BY <1>2 DEF SessionRows
<1> HIDE DEF row
<1>8. session'[s] = row
  BY <1>t, <1>3, <1>7, OneSession
<1>9. ~Saves(s)' /\ ~Saves(s) /\ HoldsUser(s) /\ ~HoldsProfile(s)' /\ ~HoldsProfile(s)
  BY <1>1, <1>7, <1>8 DEF Saves, HoldsUser, HoldsProfile, UserLocked, V2
<1>10. userLock = s
  BY <1>t, <1>9 DEF LocksSound
<1>11. Cardinality(members) < GroupMaxCount
  <2>1. members \subseteq session[s].groups /\ IsFiniteSet(session[s].groups)
    BY <1>t, <1>1, <1>2, FS_Subset, UsersAssumption DEF JoinsSound, SessionRows
  <2>2. /\ Cardinality(members) <= Cardinality(session[s].groups)
        /\ Cardinality(members) \in Nat /\ Cardinality(session[s].groups) \in Nat
    BY <2>1, FS_Subset, FS_CardinalityType
  <2>3. GroupMaxCount \in Nat
    BY UsersAssumption
  <2>4. Cardinality(session[s].groups) < GroupMaxCount
    BY <1>1
  <2>5. QED
    BY <2>2, <2>3, <2>4
<1>13. SessionsShaped!(s)'
  BY <1>t, <1>1, <1>7, <1>8, <1>9
<1>14. JoinsSound!(s)'
  BY <1>1, <1>7, <1>8, <1>11
<1>15. overwrote' = "no" => overwrote = "no" /\ SavesSound!(s)'
  BY <1>1, <1>7, <1>8, <1>9 DEF UsersInv, SavesSound
<1>17. QED
  BY <1>t, <1>1, <1>2, <1>3, <1>7, <1>9, <1>10, <1>13, <1>14, <1>15, OwnStep

\* Groups that are a part of the groups there were are no more than those.
LEMMA FewerGroups ==
    ASSUME UsersTypeOK, members' \subseteq members
    PROVE  /\ Cardinality(members) < GroupMaxCount => Cardinality(members') < GroupMaxCount
           /\ Cardinality(members) <= GroupMaxCount => Cardinality(members') <= GroupMaxCount
<1>1. IsFiniteSet(members) /\ GroupMaxCount \in Nat
  BY UsersAssumption, FS_Subset DEF UsersTypeOK
<1>2. Cardinality(members') <= Cardinality(members) /\ Cardinality(members') \in Nat /\ Cardinality(members) \in Nat
  BY <1>1, FS_Subset, FS_CardinalityType
<1>3. QED
  BY <1>1, <1>2

\* A request ends.  What it changes it had locked, or nobody relies on it.
LEMMA EndKeeps ==
    ASSUME UsersInv, NEW s \in Sessions, Released(s), UNCHANGED <<keys, overwrote>>,
           user' \in UserRows, profile' \in {"none", "live", "dead", "gone"}, members' \subseteq UserGroups,
           lastReset' \in Nat, user'.live # "none", GroupLimit', UserIsWhole',
           members' \subseteq members \/ HoldsUser(s),
           overwrote = "no" => (user' # user => HoldsUser(s)) /\ (profile' # profile => HoldsProfile(s))
    PROVE  UsersInv'
<1>t. UsersTypeOK /\ LocksSound /\ SessionsShaped /\ JoinsSound /\ GroupLimit
  BY DEF UsersInv
<1>0. Idle \in SessionRows
  BY DEF Idle, SessionRows, NoRow, UserRows
<1>1. /\ session' \in [Sessions -> SessionRows] /\ session'[s] = Idle
      /\ \A r \in Sessions : r # s => /\ session'[r] = session[r]
                                      /\ Saves(r)' <=> Saves(r)
                                      /\ HoldsUser(r)' <=> HoldsUser(r)
                                      /\ HoldsProfile(r)' <=> HoldsProfile(r)
  <2>1. session' = [session EXCEPT ![s] = Idle]
    BY DEF Released
  <2>2. QED
    BY <1>t, <1>0, <2>1, OneSession
<1>2. /\ userLock' = IF userLock = s THEN NoSession ELSE userLock
      /\ profileLock' = IF profileLock = s THEN NoSession ELSE profileLock
  BY DEF Released
<1>3. UsersTypeOK'
  BY <1>t, <1>1, <1>2 DEF UsersTypeOK
<1>4. ~Saves(s)' /\ ~HoldsUser(s)' /\ ~HoldsProfile(s)'
  BY <1>1, IdleRow DEF Saves, HoldsUser, HoldsProfile, UserLocked, V1, V2
<1>5. LocksSound'
  BY <1>t, <1>1, <1>2, <1>4 DEF LocksSound
<1>6. \A r \in Sessions : r # s => ~(HoldsUser(r) /\ HoldsUser(s)) /\ ~(HoldsProfile(r) /\ HoldsProfile(s))
  BY <1>t DEF LocksSound
<1>7. SessionsShaped'
  <2> SUFFICES ASSUME NEW r \in Sessions PROVE SessionsShaped!(r)'
    BY DEF SessionsShaped
  <2>1. CASE r # s
    BY <1>t, <1>1, <2>1 DEF SessionsShaped
  <2>2. CASE r = s
    BY <1>1, <1>4, <2>2, IdleRow
  <2>3. QED
    BY <2>1, <2>2
<1>8. JoinsSound'
  <2> SUFFICES ASSUME NEW r \in Sessions, session'[r].op = Join PROVE JoinsSound!(r)'
    BY DEF JoinsSound
  <2>1. r # s /\ session'[r] = session[r]
    BY <1>1, IdleRow
  <2>2. members' \subseteq members
    <3>1. HoldsUser(r)
      BY <2>1 DEF HoldsUser, UserLocked
    <3>2. QED
      BY <1>6, <2>1, <3>1
  <2>3. Cardinality(members) < GroupMaxCount => Cardinality(members') < GroupMaxCount
    BY <1>t, <2>2, FewerGroups
  <2>4. QED
    BY <1>t, <2>1, <2>2, <2>3 DEF JoinsSound
<1>9. NothingBefore'
  BY DEF NothingBefore
<1>10. ASSUME overwrote = "no" PROVE SavesSound'
  <2>0. SavesSound
    BY <1>10 DEF UsersInv
  <2> SUFFICES ASSUME NEW r \in Sessions PROVE SavesSound!(r)'
    BY DEF SavesSound
  <2>1. CASE r = s
    BY <1>1, <1>4, <2>1, IdleRow DEF UserLocked, V1
  <2>2. CASE r # s
    <3>1. HoldsUser(r) => user' = user
      BY <1>6, <1>10, <2>2
    <3>2. HoldsProfile(r) => profile' = profile
      BY <1>6, <1>10, <2>2
    <3>3. SavesSound!(r)
      BY <2>0 DEF SavesSound
    <3>4. Saves(r) \/ session[r].op \in UserLocked => HoldsUser(r)
      BY DEF HoldsUser
    <3>5. session'[r] = session[r] /\ (Saves(r)' <=> Saves(r)) /\ (HoldsProfile(r)' <=> HoldsProfile(r))
      BY <1>1, <2>2
    <3>6. QED
      BY <3>1, <3>2, <3>3, <3>4, <3>5
  <2>3. QED
    BY <2>1, <2>2
<1>11. QED
  BY <1>3, <1>5, <1>7, <1>8, <1>9, <1>10 DEF UsersInv

\* A request commits: what it wrote is what everybody reads.
LEMMA CommitKeeps ==
    ASSUME UsersInv, NEW s \in Sessions, Commit(s)
    PROVE  UsersInv'
<1> DEFINE op == session[s].op
           revived == session[s].user # NoRow /\ user.live = "gone"
<1>t. UsersTypeOK /\ LocksSound /\ SessionsShaped!(s) /\ JoinsSound!(s) /\ GroupLimit /\ UserIsWhole
  BY DEF UsersInv, SessionsShaped, JoinsSound
<1>1. /\ Done(s) /\ Released(s) /\ UNCHANGED <<keys, overwrote>>
      /\ user' = IF session[s].user = NoRow THEN user ELSE session[s].user
      /\ profile' = IF session[s].profile # "none" THEN session[s].profile ELSE IF revived THEN "live" ELSE profile
      /\ members' = IF op = Join THEN members \cup session[s].groups ELSE members
      /\ lastReset' = IF Resets(op) THEN session[s].user.key ELSE lastReset
  BY DEF Commit
<1>2. session[s].at # "idle"
  BY <1>1, <1>t, IdleRow DEF Done
<1>3. user.live # "none" /\ session[s] \in SessionRows /\ op \in Ops
  BY <1>2, UserThere
<1>4. session[s].user \in UserRows /\ session[s].user.key \in Nat /\ user \in UserRows /\ lastReset \in Nat
  BY <1>t, <1>3 DEF SessionRows, UserRows, UsersTypeOK
<1>5. /\ user' \in UserRows /\ lastReset' \in Nat
      /\ profile' \in {"none", "live", "dead", "gone"} /\ members' \subseteq UserGroups
  BY <1>t, <1>1, <1>3, <1>4 DEF SessionRows, UsersTypeOK
<1>6. Saves(s) <=> session[s].user # NoRow
  BY <1>t, IdleRow
<1>7. Saves(s) <=> op # Join
  BY <1>1, <1>3, <1>t DEF Done, Saves
<1>8. user'.live # "none"
  BY <1>1, <1>3, <1>6, <1>t
<1>9. HoldsUser(s)
  BY <1>7 DEF HoldsUser, UserLocked
<1>10. GroupLimit'
  <2>1. CASE op = Join
    <3>1. session[s].at = "joined"
      BY <1>1, <2>1 DEF Done
    <3>2. PICK g \in UserGroups : session[s].groups = {g}
      BY <1>t, <2>1, <3>1
    <3>3. Cardinality(members) < GroupMaxCount
      BY <1>t, <2>1, <3>1
    <3>4. IsFiniteSet(members)
      BY <1>t, UsersAssumption, FS_Subset DEF UsersTypeOK
    <3>5. Cardinality(members \cup {g}) = IF g \in members THEN Cardinality(members) ELSE Cardinality(members) + 1
      BY <3>4, FS_AddElement
    <3>6. Cardinality(members) \in Nat /\ GroupMaxCount \in Nat
      BY <3>4, FS_CardinalityType, UsersAssumption
    <3>7. Cardinality(members \cup {g}) <= GroupMaxCount
      BY <3>3, <3>5, <3>6
    <3>8. members' = members \cup {g}
      BY <1>1, <2>1, <3>2
    <3>9. QED
      BY <3>7, <3>8 DEF GroupLimit
  <2>2. CASE op # Join
    BY <1>t, <1>1, <2>2 DEF GroupLimit
  <2>3. QED
    BY <2>1, <2>2
<1>11. ASSUME overwrote = "no"
       PROVE  /\ user'.live = "live" => profile' = "live"
              /\ user'.key = lastReset'
              /\ profile' = "live" => user'.live \in {"live", "dead"}
              /\ profile' # profile => HoldsProfile(s)
  <2>1. SavesSound!(s)
    BY <1>11 DEF UsersInv, SavesSound
  <2>2. ~revived
    BY <1>6, <2>1
  <2>3. /\ user.live = "live" => profile = "live"
        /\ user.key = lastReset
        /\ profile = "live" => user.live \in {"live", "dead"}
    BY <1>t, <1>3, <1>11 DEF UserIsWhole
  <2>4. profile' = IF session[s].profile # "none" THEN session[s].profile ELSE profile
    BY <1>1, <2>2
  <2>5. profile' # profile => HoldsProfile(s)
    BY <1>t, <2>4
  <2>6. CASE op = Join
    <3>1. user' = user /\ lastReset' = lastReset
      BY <1>1, <1>6, <1>7, <2>6 DEF Resets
    <3>2. profile' = profile
      BY <1>t, <1>1, <2>4, <2>6 DEF Done
    <3>3. QED
      BY <2>3, <2>5, <3>1, <3>2
  <2>7. CASE op # Join
    <3>1. user' = session[s].user /\ Saves(s)
      BY <1>1, <1>6, <1>7, <2>7
    <3>2. CASE Deletes(op)
      <4>1. user' = [user EXCEPT !.live = "dead"] /\ lastReset' = lastReset
        BY <1>1, <2>1, <3>1, <3>2 DEF Deletes, Resets
      <4>2. user'.live = "dead" /\ user'.key = user.key
        BY <1>4, <4>1 DEF UserRows
      <4>3. QED
        BY <2>3, <2>5, <4>1, <4>2
    <3>3. CASE ~Deletes(op)
      <4>1. user'.live = user.live
        BY <2>1, <3>1, <3>3
      <4>2. user'.key = lastReset'
        BY <1>1, <2>1, <2>3, <3>1, <3>3
      <4>3. op # Delete2
        BY <3>3 DEF Deletes
      <4>4. session[s].profile # "none" => session[s].profile = "live" /\ profile = "live"
        BY <1>t, <1>3, <2>1, <4>3 DEF SessionRows
      <4>5. profile' = profile
        BY <2>4, <4>4
      <4>6. QED
        BY <2>3, <2>5, <4>1, <4>2, <4>5
    <3>4. QED
      BY <3>2, <3>3
  <2>8. QED
    BY <2>6, <2>7
<1>12. UserIsWhole'
  BY <1>1, <1>11 DEF UserIsWhole
<1>13. QED
  BY <1>1, <1>5, <1>8, <1>9, <1>10, <1>11, <1>12, EndKeeps

\* A user, its profile, its key and its groups agree after any overlap of requests
\* of both versions of the API.
THEOREM UsersAreSoundHolds == UsersSpec => []UsersAreSound
<1>1. ASSUME UsersInv, [UsersNext]_usersVars PROVE UsersInv'
  <2>t. UsersTypeOK /\ LocksSound /\ SessionsShaped /\ NothingBefore /\ JoinsSound /\ GroupLimit /\ UserIsWhole
    BY <1>1 DEF UsersInv
  <2>1. ASSUME NEW s \in Sessions, Rollback(s) PROVE UsersInv'
    <3>1. /\ session[s].at # "idle" /\ Released(s)
          /\ UNCHANGED <<user, profile, members, keys, requests, overwrote, lastReset>>
      BY <2>1 DEF Rollback
    <3>2. user.live # "none"
      BY <1>1, <3>1, UserThere
    <3>3. GroupLimit' /\ UserIsWhole'
      BY <2>t, <3>1 DEF GroupLimit, UserIsWhole
    <3>4. /\ user' \in UserRows /\ profile' \in {"none", "live", "dead", "gone"} /\ members' \subseteq UserGroups
          /\ lastReset' \in Nat /\ user'.live # "none" /\ UNCHANGED <<keys, overwrote>>
          /\ user' = user /\ profile' = profile /\ members' = members
      BY <2>t, <3>1, <3>2 DEF UsersTypeOK
    <3>5. QED
      BY <1>1, <3>1, <3>3, <3>4, EndKeeps
  <2>2. ASSUME NEW g \in UserGroups, LeaveGroup(g) PROVE UsersInv'
    <3>1. /\ members' = members \ {g}
          /\ UNCHANGED <<user, profile, session, userLock, profileLock, keys, requests, overwrote, lastReset>>
      BY <2>2 DEF LeaveGroup
    <3>2. /\ Cardinality(members) < GroupMaxCount => Cardinality(members') < GroupMaxCount
          /\ Cardinality(members) <= GroupMaxCount => Cardinality(members') <= GroupMaxCount
      BY <2>t, <3>1, FewerGroups
    <3>4. GroupLimit'
      BY <2>t, <3>2 DEF GroupLimit
    <3>5. JoinsSound'
      BY <2>t, <3>1, <3>2 DEF JoinsSound
    <3>6. UsersTypeOK'
      BY <2>t, <3>1 DEF UsersTypeOK
    <3>7. LocksSound' /\ SessionsShaped' /\ NothingBefore' /\ UserIsWhole' /\ (overwrote' = "no" => SavesSound')
      BY <1>1, <3>1 DEF UsersInv, LocksSound, SessionsShaped, NothingBefore, UserIsWhole, SavesSound,
         Saves, HoldsUser, HoldsProfile
    <3>8. QED
      BY <3>4, <3>5, <3>6, <3>7 DEF UsersInv
  <2>3. ASSUME PurgeUser PROVE UsersInv'
    <3>1. /\ user.live = "dead" /\ userLock = NoSession /\ profileLock = NoSession
          /\ user' = [user EXCEPT !.live = "gone"] /\ profile' = "gone" /\ members' = {}
          /\ UNCHANGED <<session, userLock, profileLock, keys, requests, overwrote, lastReset>>
      BY <2>3 DEF PurgeUser
    <3>2. user \in UserRows
      BY <2>t DEF UsersTypeOK
    <3>3. user' \in UserRows /\ user'.live = "gone" /\ user'.key = user.key
      BY <3>1, <3>2 DEF UserRows
    <3>4. UsersTypeOK'
      BY <2>t, <3>1, <3>3 DEF UsersTypeOK
    <3>5. \A s \in Sessions : ~HoldsUser(s) /\ ~HoldsProfile(s)
      BY <2>t, <3>1, UsersAssumption DEF LocksSound
    <3>6. \A s \in Sessions : /\ Saves(s)' <=> Saves(s)
                              /\ HoldsUser(s)' <=> HoldsUser(s)
                              /\ HoldsProfile(s)' <=> HoldsProfile(s)
      BY <3>1 DEF Saves, HoldsUser, HoldsProfile
    <3>7. LocksSound' /\ SessionsShaped'
      BY <2>t, <3>1, <3>5, <3>6 DEF LocksSound, SessionsShaped
    <3>8. \A s \in Sessions : session[s].op \notin UserLocked /\ ~Saves(s)
      BY <3>5 DEF HoldsUser
    <3>9. JoinsSound'
      BY <3>1, <3>8 DEF JoinsSound, UserLocked
    <3>10. NothingBefore' /\ UserIsWhole'
      BY <2>t, <3>1, <3>3 DEF NothingBefore, UserIsWhole
    <3>11. GroupLimit'
      BY <3>1, FS_EmptySet, UsersAssumption DEF GroupLimit
    <3>12. overwrote' = "no" => SavesSound'
      BY <1>1, <3>1, <3>5, <3>6, <3>8 DEF UsersInv, SavesSound
    <3>13. QED
      BY <3>4, <3>7, <3>9, <3>10, <3>11, <3>12 DEF UsersInv
  <2>4. ASSUME CreateUser PROVE UsersInv'
    <3>1. /\ user = NoRow /\ user' = [live |-> "live", key |-> 0] /\ profile' = "live"
          /\ UNCHANGED <<members, session, userLock, profileLock, keys, requests, overwrote, lastReset>>
      BY <2>4 DEF CreateUser
    <3>2. lastReset = 0 /\ \A s \in Sessions : session[s] = Idle
      BY <2>t, <3>1, IdleRow DEF NothingBefore, SessionsShaped
    <3>3. UsersTypeOK'
      BY <2>t, <3>1 DEF UsersTypeOK, UserRows
    <3>4. \A s \in Sessions : ~Saves(s)' /\ ~HoldsUser(s)' /\ ~HoldsProfile(s)'
      BY <3>1, <3>2, IdleRow DEF Saves, HoldsUser, HoldsProfile, UserLocked, V1, V2
    <3>5. LocksSound' /\ SessionsShaped'
      BY <3>1, <3>2, <3>4, IdleRow DEF LocksSound, SessionsShaped
    <3>6. JoinsSound' /\ GroupLimit'
      BY <2>t, <3>1 DEF JoinsSound, GroupLimit
    <3>7. NothingBefore' /\ UserIsWhole'
      BY <3>1, <3>2 DEF NothingBefore, UserIsWhole
    <3>8. SavesSound'
      BY <3>1, <3>2, <3>4, IdleRow DEF SavesSound, UserLocked, V1
    <3>9. QED
      BY <3>3, <3>5, <3>6, <3>7, <3>8 DEF UsersInv
  <2>5. CASE UNCHANGED usersVars
    BY <1>1, <2>5 DEF usersVars, UsersInv, UsersTypeOK, LocksSound, SessionsShaped, NothingBefore, JoinsSound,
       GroupLimit, UserIsWhole, SavesSound, Saves, HoldsUser, HoldsProfile
  <2>6. QED
    BY <1>1, <2>1, <2>2, <2>3, <2>4, <2>5, BeginKeeps, LockProfileKeeps, SaveUserKeeps, SaveProfileKeeps,
       JoinGroupKeeps, CommitKeeps DEF UsersNext
<1>2. UsersInv => UsersAreSound
  BY DEF UsersInv, UsersAreSound
<1>3. QED
  BY <1>1, <1>2, UsersStart, PTL DEF UsersSpec

-----------------------------------------------------------------------------
(* Endpoint calls *)

Messages == [type : {"subscribe", "message"}, channel : Calls]

CallsTypeOK ==
    /\ stage \in [Calls -> {"new", "offloaded", "done"} \cup Greenlets]
    /\ channelData \subseteq Calls /\ clientData \subseteq Calls /\ confirmed \subseteq Calls
    /\ pending \subseteq Calls /\ subscribed \subseteq Calls /\ results \subseteq Calls
    /\ wire \in Seq(Messages)
    /\ tasks \subseteq Calls /\ scripts \subseteq Calls /\ published \subseteq Calls /\ dropped \subseteq Calls

\* A message of this type for the call is on its way to the listener.
OnWire(type, c) == \E i \in DOMAIN wire : wire[i] = [type |-> type, channel |-> c]

\* A channel is in both tables or in none; in the tables it is being subscribed or is subscribed,
\* and only the second is ever confirmed.
ChannelSound(c) ==
    /\ c \in clientData <=> c \in channelData
    /\ c \in pending \/ c \in subscribed => c \in channelData
    /\ c \in pending => c \notin subscribed /\ c \notin confirmed /\ ~OnWire("subscribe", c)

\* Only a greenlet has a channel, and nothing is queued for a call without one.
StageSound(c) ==
    /\ c \in channelData => stage[c] \in {"subscribing", "waiting"}
    /\ stage[c] \in {"new", "offloaded", "retrying"} => c \notin confirmed /\ ~OnWire("subscribe", c)
    /\ stage[c] \in {"new", "offloaded"} => c \notin dropped
    /\ stage[c] = "retrying" => c \in dropped
    /\ stage[c] = "waiting" => c \in confirmed
    /\ c \in tasks \/ c \in scripts \/ c \in published => stage[c] \in {"waiting", "done"}

\* A greenlet no reset has hit has its channel, and Redis sends to it once it is confirmed.
ChannelKept(c) ==
    stage[c] \in {"subscribing", "waiting"} /\ c \notin dropped =>
        /\ c \in channelData
        /\ c \in confirmed \/ OnWire("subscribe", c) => c \in subscribed
        /\ stage[c] = "waiting" /\ c \in published => c \in results \/ OnWire("message", c)

CallsInv ==
    /\ CallsTypeOK
    /\ \A c \in Calls : ChannelSound(c) /\ StageSound(c) /\ ChannelKept(c)

\* The invariant holds before the first call.
LEMMA CallsStart == CallsInit => CallsInv
  <1> SUFFICES ASSUME CallsInit PROVE CallsInv
    OBVIOUS
  <1>1. \A c \in Calls, t \in {"subscribe", "message"} : ~OnWire(t, c)
    BY DEF CallsInit, OnWire
  <1> QED  BY <1>1 DEF CallsInit, CallsInv, CallsTypeOK, ChannelSound, StageSound, ChannelKept, Greenlets

\* Redis sends one message more.
LEMMA WireAppended ==
  ASSUME CallsTypeOK, NEW d \in Calls, NEW t \in {"subscribe", "message"},
         wire' = Append(wire, [type |-> t, channel |-> d])
  PROVE  /\ wire' \in Seq(Messages)
         /\ \A u, c : OnWire(u, c)' <=> (OnWire(u, c) \/ (u = t /\ c = d))
  <1> DEFINE m == [type |-> t, channel |-> d]
  <1>1. m \in Messages
    BY DEF Messages
  <1>2. wire \in Seq(Messages)
    BY DEF CallsTypeOK
  <1>3. /\ wire' \in Seq(Messages) /\ Len(wire') = Len(wire) + 1 /\ wire'[Len(wire) + 1] = m
        /\ \A i \in 1..Len(wire) : wire'[i] = wire[i]
    BY <1>1, <1>2
  <1>4. ASSUME NEW u, NEW c PROVE OnWire(u, c)' <=> (OnWire(u, c) \/ (u = t /\ c = d))
    <2> DEFINE x == [type |-> u, channel |-> c]
    <2>1. x = m <=> (u = t /\ c = d)
      OBVIOUS
    <2> HIDE DEF x, m
    <2>2. DOMAIN wire = 1..Len(wire) /\ DOMAIN wire' = 1..Len(wire') /\ Len(wire) \in Nat
      BY <1>2, <1>3
    <2>3. (\E i \in DOMAIN wire' : wire'[i] = x) <=> ((\E i \in DOMAIN wire : wire[i] = x) \/ x = m)
      BY <1>3, <2>2
    <2> QED  BY <2>1, <2>3 DEF OnWire, x
  <1> QED  BY <1>3, <1>4

\* The listener takes the first message off the wire.
LEMMA WireTaken ==
  ASSUME CallsTypeOK, wire # <<>>, wire' = Tail(wire)
  PROVE  /\ wire' \in Seq(Messages) /\ Head(wire) \in Messages
         /\ \A u, c : OnWire(u, c)' => OnWire(u, c)
         /\ \A u, c : OnWire(u, c) => OnWire(u, c)' \/ Head(wire) = [type |-> u, channel |-> c]
         /\ \A u, c : Head(wire) = [type |-> u, channel |-> c] => OnWire(u, c)
  <1>1. wire \in Seq(Messages)
    BY DEF CallsTypeOK
  <1>2. /\ wire' \in Seq(Messages) /\ Head(wire) \in Messages /\ Len(wire) \in Nat /\ Len(wire) > 0
        /\ Len(wire') = Len(wire) - 1 /\ Head(wire) = wire[1] /\ \A i \in 1..Len(wire') : wire'[i] = wire[i + 1]
        /\ DOMAIN wire = 1..Len(wire) /\ DOMAIN wire' = 1..Len(wire')
    BY <1>1
  <1>3. ASSUME NEW x
        PROVE  /\ (\E i \in DOMAIN wire' : wire'[i] = x) => \E i \in DOMAIN wire : wire[i] = x
               /\ (\E i \in DOMAIN wire : wire[i] = x) => (\E i \in DOMAIN wire' : wire'[i] = x) \/ Head(wire) = x
               /\ Head(wire) = x => \E i \in DOMAIN wire : wire[i] = x
    <2>1. ASSUME NEW i \in DOMAIN wire' PROVE i + 1 \in DOMAIN wire /\ wire[i + 1] = wire'[i]
      BY <1>2
    <2>2. ASSUME NEW i \in DOMAIN wire, i # 1 PROVE i - 1 \in DOMAIN wire' /\ wire'[i - 1] = wire[i]
      <3>1. i - 1 \in 1..Len(wire') /\ (i - 1) + 1 = i
        BY <1>2, <2>2
      <3> QED  BY <1>2, <3>1
    <2>3. 1 \in DOMAIN wire
      BY <1>2
    <2>4. (\E i \in DOMAIN wire' : wire'[i] = x) => \E i \in DOMAIN wire : wire[i] = x
      BY <2>1
    <2>5. ASSUME NEW i \in DOMAIN wire, wire[i] = x, Head(wire) # x PROVE \E j \in DOMAIN wire' : wire'[j] = x
      <3>1. i # 1
        BY <1>2, <2>5
      <3> QED  BY <2>2, <2>5, <3>1
    <2> QED  BY <1>2, <2>3, <2>4, <2>5
  <1> QED  BY <1>2, <1>3 DEF OnWire

\* A step that leaves the wire alone.
LEMMA WireStays == ASSUME wire' = wire PROVE \A u, c : OnWire(u, c)' <=> OnWire(u, c)
  BY DEF OnWire

\* Every step of a call, of the listener and of a worker keeps it.
LEMMA CallsStep == ASSUME CallsInv, [CallsNext]_callsVars PROVE CallsInv'
  <1>t. CallsTypeOK /\ \A c \in Calls : ChannelSound(c) /\ StageSound(c) /\ ChannelKept(c)
    BY DEF CallsInv
  <1>s. ASSUME CallsTypeOK', \A c \in Calls : (ChannelSound(c) /\ StageSound(c) /\ ChannelKept(c))'
        PROVE  CallsInv'
    BY <1>s DEF CallsInv
  <1>1. ASSUME HandleMessage PROVE CallsInv'
    <2>1. wire # <<>> /\ wire' = Tail(wire)
      BY <1>1 DEF HandleMessage
    <2>2. /\ wire' \in Seq(Messages) /\ Head(wire) \in Messages
          /\ \A u, c : OnWire(u, c)' => OnWire(u, c)
          /\ \A u, c : OnWire(u, c) => OnWire(u, c)' \/ Head(wire) = [type |-> u, channel |-> c]
          /\ \A u, c : Head(wire) = [type |-> u, channel |-> c] => OnWire(u, c)
      BY <1>t, <2>1, WireTaken
    <2> DEFINE d == Head(wire).channel
    <2>3. d \in Calls /\ (Head(wire) = [type |-> "subscribe", channel |-> d] \/ Head(wire) = [type |-> "message", channel |-> d])
      BY <2>2 DEF Messages
    <2>4. /\ UNCHANGED <<stage, channelData, clientData, pending, subscribed, dropped, tasks, scripts, published>>
          /\ \/ /\ Head(wire).type = "subscribe" /\ results' = results
                /\ confirmed' = confirmed \union ({d} \intersect channelData)
             \/ /\ Head(wire).type # "subscribe" /\ confirmed' = confirmed
                /\ results' = results \union ({d} \intersect clientData)
      BY <1>1 DEF HandleMessage, workerVars
    <2>5. \/ /\ results' = results /\ confirmed' = confirmed \union ({d} \intersect channelData)
             /\ Head(wire) = [type |-> "subscribe", channel |-> d]
          \/ /\ confirmed' = confirmed /\ results' = results \union ({d} \intersect clientData)
             /\ Head(wire) = [type |-> "message", channel |-> d]
      BY <2>3, <2>4
    <2>6. CallsTypeOK'
      BY <1>t, <2>2, <2>3, <2>4, <2>5 DEF CallsTypeOK
    <2>7. /\ \A c : OnWire("message", c) => OnWire("message", c)' \/ (c = d /\ confirmed' = confirmed
                        /\ results' = results \union ({d} \intersect clientData))
          /\ confirmed' # confirmed => OnWire("subscribe", d)
          /\ confirmed \subseteq confirmed' /\ results \subseteq results'
          /\ \A c : c \in confirmed' => c \in confirmed \/ (c = d /\ c \in channelData /\ OnWire("subscribe", c))
      BY <2>2, <2>5
    <2> HIDE DEF d
    <2>8. ASSUME NEW c \in Calls PROVE (ChannelSound(c) /\ StageSound(c) /\ ChannelKept(c))'
      <3>1. ChannelSound(c) /\ StageSound(c) /\ ChannelKept(c)
        BY <1>t
      <3> QED  BY <2>2, <2>3, <2>4, <2>7, <3>1 DEF ChannelSound, StageSound, ChannelKept, Greenlets
    <2> QED  BY <1>s, <2>6, <2>8
  <1>2. ASSUME NEW d \in Calls, PassOn(d) \/ RunView(d) \/ ExpirePayload(d) PROVE CallsInv'
    <2>1. /\ UNCHANGED <<channelData, clientData, confirmed, pending, subscribed, results, dropped, tasks, scripts, published, wire>>
          /\ \/ stage' = stage
             \/ stage[d] = "new" /\ stage' = [stage EXCEPT ![d] = "done"]
             \/ stage[d] = "new" /\ stage' = [stage EXCEPT ![d] = "offloaded"]
      BY <1>2 DEF PassOn, RunView, ExpirePayload, handlerVars, workerVars
    <2>2. \A u, c : OnWire(u, c)' <=> OnWire(u, c)
      BY <2>1, WireStays
    <2>3. CallsTypeOK'
      BY <1>t, <2>1 DEF CallsTypeOK
    <2>4. ASSUME NEW c \in Calls PROVE (ChannelSound(c) /\ StageSound(c) /\ ChannelKept(c))'
      BY <1>t, <2>1, <2>2 DEF CallsTypeOK, ChannelSound, StageSound, ChannelKept, Greenlets
    <2> QED  BY <1>s, <2>3, <2>4
  <1>3. ASSUME NEW d \in Calls, Subscribe(d) PROVE CallsInv'
    <2>1. \A u, c : OnWire(u, c)' <=> OnWire(u, c)
      BY <1>3, WireStays DEF Subscribe
    <2>2. CallsTypeOK'
      BY <1>t, <1>3 DEF CallsTypeOK, Subscribe, Greenlets, workerVars
    <2>3. d \notin channelData /\ d \notin confirmed
      BY <1>3, <1>t DEF Subscribe, StageSound
    <2>4. ASSUME NEW c \in Calls PROVE (ChannelSound(c) /\ StageSound(c) /\ ChannelKept(c))'
      <3>1. ~OnWire("subscribe", d) /\ stage[d] \in {"offloaded", "retrying"}
        BY <1>3, <1>t DEF Subscribe, StageSound
      <3> QED  BY <1>t, <1>3, <2>1, <2>3, <3>1 DEF Subscribe, workerVars, CallsTypeOK, ChannelSound, StageSound, ChannelKept, Greenlets
    <2> QED  BY <1>s, <2>2, <2>4
  <1>4. ASSUME NEW d \in Calls, AcceptSubscribe(d) PROVE CallsInv'
    <2>1. wire' = Append(wire, [type |-> "subscribe", channel |-> d])
      BY <1>4 DEF AcceptSubscribe
    <2>2. wire' \in Seq(Messages) /\ \A u, c : OnWire(u, c)' <=> (OnWire(u, c) \/ (u = "subscribe" /\ c = d))
      BY <1>t, <2>1, WireAppended
    <2>3. CallsTypeOK'
      BY <1>t, <1>4, <2>2 DEF CallsTypeOK, AcceptSubscribe, workerVars
    <2>4. d \in pending /\ d \in channelData /\ d \notin confirmed /\ stage[d] \in {"subscribing", "waiting"}
      BY <1>t, <1>4 DEF AcceptSubscribe, ChannelSound, StageSound
    <2>5. ASSUME NEW c \in Calls PROVE (ChannelSound(c) /\ StageSound(c) /\ ChannelKept(c))'
      BY <1>t, <1>4, <2>2, <2>4 DEF AcceptSubscribe, workerVars, ChannelSound, StageSound, ChannelKept, Greenlets
    <2> QED  BY <1>s, <2>3, <2>5
  <1>5. ASSUME NEW d \in Calls, SubscribeTimeout(d) PROVE CallsInv'
    <2>1. /\ channelData' = {} /\ clientData' = {} /\ pending' = {} /\ subscribed' = {} /\ wire' = <<>>
          /\ dropped' = dropped \union {c \in Calls : stage[c] \in Greenlets}
          /\ UNCHANGED <<confirmed, results, tasks, scripts, published>>
          /\ stage[d] = "subscribing" /\ d \notin confirmed
          /\ \/ stage' = [c \in Calls |-> IF stage[c] \in Greenlets THEN "done" ELSE stage[c]]
             \/ stage' = [stage EXCEPT ![d] = "retrying"]
      BY <1>5 DEF SubscribeTimeout, Reset, workerVars
    <2>2. wire' \in Seq(Messages) /\ \A u, c : ~OnWire(u, c)'
      BY <2>1 DEF OnWire
    <2>3. CallsTypeOK'
      BY <1>t, <2>1, <2>2 DEF CallsTypeOK, Greenlets
    <2>4. ASSUME NEW c \in Calls PROVE (ChannelSound(c) /\ StageSound(c) /\ ChannelKept(c))'
      <3>1. ChannelSound(c) /\ StageSound(c) /\ ChannelKept(c)
        BY <1>t
      <3>2. stage \in [Calls -> {"new", "offloaded", "done"} \cup Greenlets]
        BY <1>t DEF CallsTypeOK
      <3> QED  BY <2>1, <2>2, <3>1, <3>2 DEF ChannelSound, StageSound, ChannelKept, Greenlets
    <2> QED  BY <1>s, <2>3, <2>4
  <1>6. ASSUME NEW d \in Calls, QueueTask(d) PROVE CallsInv'
    <2>1. \A u, c : OnWire(u, c)' <=> OnWire(u, c)
      BY <1>6, WireStays DEF QueueTask, handlerVars
    <2>2. CallsTypeOK'
      BY <1>t, <1>6 DEF CallsTypeOK, QueueTask, Greenlets, handlerVars
    <2>3. ASSUME NEW c \in Calls PROVE (ChannelSound(c) /\ StageSound(c) /\ ChannelKept(c))'
      BY <1>t, <1>6, <2>1 DEF QueueTask, Confirmed, handlerVars, CallsTypeOK, ChannelSound, StageSound, ChannelKept, Greenlets
    <2> QED  BY <1>s, <2>2, <2>3
  <1>7. ASSUME NEW d \in Calls, FailToQueue(d) \/ GetResult(d) \/ WaitTimeout(d) PROVE CallsInv'
    <2>1. /\ stage[d] \in {"subscribing", "waiting"} /\ d \in confirmed
          /\ stage' = [stage EXCEPT ![d] = "done"]
          /\ channelData' = channelData \ {d}
          /\ clientData' = (IF d \in channelData THEN clientData \ {d} ELSE clientData)
          /\ subscribed' = (IF d \in channelData THEN subscribed \ {d} ELSE subscribed)
          /\ UNCHANGED <<confirmed, pending, wire, results, dropped, tasks, scripts, published>>
      BY <1>t, <1>7 DEF FailToQueue, GetResult, WaitTimeout, Unsubscribe, Answered, workerVars, Confirmed, StageSound
    <2>2. \A u, c : OnWire(u, c)' <=> OnWire(u, c)
      BY <2>1, WireStays
    <2>3. CallsTypeOK'
      BY <1>t, <2>1 DEF CallsTypeOK
    <2>4. ASSUME NEW c \in Calls PROVE (ChannelSound(c) /\ StageSound(c) /\ ChannelKept(c))'
      BY <1>t, <2>1, <2>2 DEF CallsTypeOK, ChannelSound, StageSound, ChannelKept, Greenlets
    <2> QED  BY <1>s, <2>3, <2>4
  <1>8. ASSUME NEW d \in Calls, RunTask(d) PROVE CallsInv'
    <2>1. \A u, c : OnWire(u, c)' <=> OnWire(u, c)
      BY <1>8, WireStays DEF RunTask, handlerVars
    <2>2. CallsTypeOK'
      BY <1>t, <1>8 DEF CallsTypeOK, RunTask, handlerVars
    <2>3. ASSUME NEW c \in Calls PROVE (ChannelSound(c) /\ StageSound(c) /\ ChannelKept(c))'
      BY <1>t, <1>8, <2>1 DEF RunTask, handlerVars, ChannelSound, StageSound, ChannelKept
    <2> QED  BY <1>s, <2>2, <2>3
  <1>9. ASSUME NEW d \in Calls, PublishResult(d) PROVE CallsInv'
    <2>1. wire' = wire \/ (d \in subscribed /\ wire' = Append(wire, [type |-> "message", channel |-> d]))
      BY <1>9 DEF PublishResult
    <2>2. /\ wire' \in Seq(Messages)
          /\ \A c : OnWire("subscribe", c)' <=> OnWire("subscribe", c)
          /\ \A c : OnWire("message", c) => OnWire("message", c)'
      BY <1>t, <2>1, WireAppended, WireStays DEF CallsTypeOK
    <2>3. d \in subscribed => OnWire("message", d)'
      <3>1. d \in subscribed => wire' = Append(wire, [type |-> "message", channel |-> d])
        BY <1>9 DEF PublishResult
      <3> QED  BY <1>t, <3>1, WireAppended
    <2>4. CallsTypeOK'
      BY <1>t, <1>9, <2>2 DEF CallsTypeOK, PublishResult
    <2>5. ASSUME NEW c \in Calls PROVE (ChannelSound(c) /\ StageSound(c) /\ ChannelKept(c))'
      BY <1>t, <1>9, <2>2, <2>3 DEF PublishResult, ChannelSound, StageSound, ChannelKept
    <2> QED  BY <1>s, <2>4, <2>5
  <1>10. ASSUME UNCHANGED callsVars PROVE CallsInv'
    <2>1. \A u, c : OnWire(u, c)' <=> OnWire(u, c)
      BY <1>10, WireStays DEF callsVars, handlerVars
    <2>2. CallsTypeOK'
      BY <1>t, <1>10 DEF callsVars, handlerVars, workerVars, CallsTypeOK
    <2>3. ASSUME NEW c \in Calls PROVE (ChannelSound(c) /\ StageSound(c) /\ ChannelKept(c))'
      BY <1>t, <1>10, <2>1 DEF callsVars, handlerVars, workerVars, ChannelSound, StageSound, ChannelKept
    <2> QED  BY <1>s, <2>2, <2>3
  <1> QED  BY <1>1, <1>2, <1>3, <1>4, <1>5, <1>6, <1>7, <1>8, <1>9, <1>10 DEF CallsNext

(* A result published while its call waits reaches its queue or is on its  *)
(* way, unless a reset by another call took the channel (listen, reset and *)
(* unsubscribe of async_tasks/handlers.py); and a call that has ended is   *)
(* in no table of the handler process.                                     *)
THEOREM ResultNotMissedHolds == CallsSpec => []ResultNotMissed
  <1>1. CallsInv => ResultNotMissed
    <2> SUFFICES ASSUME CallsInv, NEW c \in Calls PROVE ResultNotMissed!(c)
      BY DEF ResultNotMissed
    <2>1. ChannelSound(c) /\ StageSound(c) /\ ChannelKept(c)
      BY DEF CallsInv
    <2> QED  BY <2>1 DEF ChannelSound, StageSound, ChannelKept, OnWire
  <1> QED  BY <1>1, CallsStart, CallsStep, PTL DEF CallsSpec

-----------------------------------------------------------------------------
(* Access *)

Members == {"in", "out"}

RightsTyped ==
    \/ rights \in [api : {"v1"}, klassOther : {0, 2}, klassGroup : 0..2, owner : {0, 3}, group : 0..3, other : {0, 1}]
    \/ /\ rights \in [api : {"v2"}, parent : SUBSET Entries, endpoint : SUBSET Entries, acl : Acls, tags : SUBSET Entries]
       /\ rights.tags = Tags(rights.acl)

\* The three checks of a request, for one membership.
PassesView(by, action, m) ==
    AdminHasPermissions(by, action)
        \/ (rights.api = "v1" /\ ByKey(by) /\ ViewAllows(by, action, m))
        \/ (rights.api # "v1" /\ CheckAclPermission(by, m))
PassesFind(by, m) ==
    (rights.api = "v1" /\ Queryset(by, m)) \/ (rights.api # "v1" /\ FilterAcl(by, rights.tags, m))
PassesObject(by, action, m) ==
    AdminHasPermissions(by, action)
        \/ (rights.api = "v1" /\ ByKey(by) /\ ObjectAllows(by, action, m))
        \/ (rights.api # "v1" /\ CheckAcl(by, ObjectPermission(action), rights.acl, m))
PassesAll(by, action, m) ==
    /\ PassesView(by, action, m)
    /\ action # "create" => PassesFind(by, m)
    /\ action \notin {"create", "list"} => PassesObject(by, action, m)

\* The level a caller has is the highest one given.
LEMMA LevelReached ==
  ASSUME rights.api = "v1", RightsTyped, NEW by, NEW m, NEW k \in 0..3
  PROVE  LevelOf(by, m) >= k <=>
           (rights.other >= k \/ (AsUser(by) /\ (rights.owner >= k \/ (m = "in" /\ rights.group >= k))))
  <1> DEFINE given == {rights.other} \cup (IF AsUser(by) THEN {rights.owner} ELSE {})
                        \cup (IF AsUser(by) /\ m = "in" THEN {rights.group} ELSE {})
  <1>1. rights.other \in 0..3 /\ rights.owner \in 0..3 /\ rights.group \in 0..3
    BY DEF RightsTyped
  <1>2. given \subseteq 0..3 /\ given # {}
    BY <1>1
  <1>3. \A l : l \in given <=> \/ l = rights.other \/ (AsUser(by) /\ l = rights.owner)
                               \/ (AsUser(by) /\ m = "in" /\ l = rights.group)
    OBVIOUS
  <1>4. LevelOf(by, m) = CHOOSE l \in given : \A j \in given : l >= j
    BY DEF LevelOf
  <1> HIDE DEF given
  <1>5. \E l \in given : \A j \in given : l >= j
    <2>1. CASE 3 \in given  BY <1>2, <2>1
    <2>2. CASE 3 \notin given /\ 2 \in given  BY <1>2, <2>2
    <2>3. CASE 3 \notin given /\ 2 \notin given /\ 1 \in given  BY <1>2, <2>3
    <2>4. CASE 3 \notin given /\ 2 \notin given /\ 1 \notin given
      <3>1. \A x \in given : x = 0
        BY <1>2, <2>4
      <3>2. PICK x \in given : x = 0
        BY <1>2, <3>1
      <3> QED  BY <3>1, <3>2
    <2> QED  BY <2>1, <2>2, <2>3, <2>4
  <1>6. LevelOf(by, m) \in given /\ \A j \in given : LevelOf(by, m) >= j
    BY <1>4, <1>5
  <1>7. LevelOf(by, m) >= k <=> \E j \in given : j >= k
    <2> DEFINE l == LevelOf(by, m)
    <2>1. l \in 0..3 /\ l \in given /\ \A j \in given : j \in 0..3 /\ l >= j
      BY <1>2, <1>6
    <2> HIDE DEF l
    <2>2. l >= k <=> \E j \in given : j >= k
      BY <2>1
    <2> QED  BY <2>2 DEF l
  <1> QED  BY <1>3, <1>7

\* In version 1 the checks together are what the caller is entitled to.
LEMMA EntitledV1 ==
  ASSUME rights.api = "v1", RightsTyped, NEW by \in Callers, NEW action \in Actions, NEW m \in Members
  PROVE  Entitled(by, action, m) <=> PassesAll(by, action, m)
  <1>1. /\ rights.other \in {0, 1} /\ rights.owner \in {0, 3} /\ rights.group \in 0..3
        /\ rights.klassOther \in {0, 2} /\ rights.klassGroup \in 0..2
    BY DEF RightsTyped
  <1>2. /\ by.auth \in {"write", "read", "key", "ignore_acl", "anonymous_read"}
        /\ by.auth \in {"write", "read"} => ~AsUser(by)
    BY DEF Callers, AsUser
  <1>3. \A k \in 0..3 : LevelOf(by, m) >= k <=>
           (rights.other >= k \/ (AsUser(by) /\ (rights.owner >= k \/ (m = "in" /\ rights.group >= k))))
    <2> TAKE k \in 0..3
    <2> QED  BY LevelReached
  <1>4. /\ LevelOf(by, m) >= 1 <=> (rights.other >= 1 \/ (AsUser(by) /\ (rights.owner >= 1 \/ (m = "in" /\ rights.group >= 1))))
        /\ LevelOf(by, m) >= 2 <=> (AsUser(by) /\ (rights.owner >= 2 \/ (m = "in" /\ rights.group >= 2)))
        /\ LevelOf(by, m) >= 3 <=> (AsUser(by) /\ (rights.owner >= 3 \/ (m = "in" /\ rights.group >= 3)))
    BY <1>1, <1>3
  <1> DEFINE level == LevelOf(by, m)  kl == KlassLevel(by, m)
  <1>5. kl \in 0..2
    BY <1>1 DEF KlassLevel
  <1>6. CASE action = "create"
    BY <1>2, <1>5, <1>6 DEF Entitled, PassesAll, PassesView, AdminHasPermissions, RequiredPermission, ByKey, ViewAllows, Safe,
                       HasKlassCreateObjectPermission, HasKlassReadPermission
  <1>7. CASE action \in {"list", "retrieve"}
    <2>1. PassesAll(by, action, m) <=> PassesView(by, action, m) /\ PassesFind(by, m) /\ (action = "list" \/ PassesObject(by, action, m))
      BY <1>7 DEF PassesAll
    <2>2. HasDataObjectPermission(by, action, m)
      BY <1>1, <1>7 DEF HasDataObjectPermission, MinPermission, OwnLevel, Higher
    <2>3. PassesView(by, action, m) <=>
            (~ByKey(by) \/ by.auth = "ignore_acl" \/ (kl >= 1 /\ (AsUser(by) \/ by.auth = "anonymous_read")))
      BY <1>2, <1>5, <1>7 DEF PassesView, AdminHasPermissions, RequiredPermission, ByKey, ViewAllows, Safe,
                       HasKlassCreateObjectPermission, HasKlassReadPermission
    <2>4. PassesFind(by, m) <=> (~ByKey(by) \/ by.auth = "ignore_acl" \/ level >= 1)
      BY <1>4 DEF PassesFind, Queryset
    <2>5. PassesObject(by, action, m) <=> (~ByKey(by) \/ by.auth = "ignore_acl" \/ AsUser(by) \/ by.auth = "anonymous_read")
      BY <1>2, <1>7, <2>2 DEF PassesObject, AdminHasPermissions, RequiredPermission, ByKey, ObjectAllows, Safe
    <2>6. Entitled(by, action, m) <=> (~ByKey(by) \/ by.auth = "ignore_acl"
               \/ (kl >= 1 /\ level >= 1 /\ (AsUser(by) \/ by.auth = "anonymous_read")))
      BY <1>2, <1>7 DEF Entitled, AdminHasPermissions, RequiredPermission, ByKey, Safe
    <2> QED  BY <2>1, <2>3, <2>4, <2>5, <2>6
  <1>8. CASE action \in {"update", "destroy"}
    <2> DEFINE need == IF action = "destroy" THEN 3 ELSE 2
    <2>1. PassesAll(by, action, m) <=> PassesView(by, action, m) /\ PassesFind(by, m) /\ PassesObject(by, action, m)
      BY <1>8 DEF PassesAll
    <2>2. HasDataObjectPermission(by, action, m) <=>
            IF AsUser(by) THEN rights.owner >= need \/ (m = "in" /\ rights.group >= need) ELSE FALSE
      BY <1>1, <1>8 DEF HasDataObjectPermission, MinPermission, OwnLevel, Higher, NeedsGroups
    <2>3. PassesView(by, action, m) <=> (by.auth = "write" \/ by.auth = "ignore_acl" \/ (ByKey(by) /\ kl >= 1 /\ AsUser(by)))
      BY <1>2, <1>5, <1>8 DEF PassesView, AdminHasPermissions, RequiredPermission, ByKey, ViewAllows, Safe,
                       HasKlassCreateObjectPermission, HasKlassReadPermission
    <2>4. PassesFind(by, m) <=> (~ByKey(by) \/ by.auth = "ignore_acl" \/ level >= 1)
      BY <1>4 DEF PassesFind, Queryset
    <2>5. PassesObject(by, action, m) <=> (by.auth = "write" \/ by.auth = "ignore_acl" \/ (ByKey(by) /\ AsUser(by)
                                        /\ (rights.owner >= need \/ (m = "in" /\ rights.group >= need))))
      BY <1>2, <1>8, <2>2 DEF PassesObject, AdminHasPermissions, RequiredPermission, ByKey, ObjectAllows, Safe
    <2>6. Entitled(by, action, m) <=> (by.auth = "write" \/ by.auth = "ignore_acl"
               \/ (ByKey(by) /\ kl >= 1 /\ AsUser(by) /\ level >= need))
      BY <1>2, <1>8 DEF Entitled, AdminHasPermissions, RequiredPermission, ByKey, Safe
    <2>7. level >= need <=> AsUser(by) /\ (rights.owner >= need \/ (m = "in" /\ rights.group >= need))
      BY <1>4, <1>8
    <2>8. level >= need => level >= 1
      BY <1>1, <1>4, <1>8
    <2>9. by.auth = "write" => ~ByKey(by)
      BY DEF ByKey
    <2> HIDE DEF need, level, kl
    <2> QED  BY <2>1, <2>3, <2>4, <2>5, <2>6, <2>7, <2>8, <2>9
  <1> QED  BY <1>6, <1>7, <1>8 DEF Actions

\* What check_acl and filter_acl look at is what an ACL gives.
LEMMA AclGiven ==
  ASSUME NEW by \in Callers, NEW acl \in Acls, NEW perm \in Perms, NEW m \in Members
  PROVE  /\ CheckAcl(by, perm, acl, m) <=> (ByKey(by) /\ (by.auth = "ignore_acl" \/ perm \in Given(by, acl, m)))
         /\ FilterAcl(by, Tags(acl), m) <=> (~ByKey(by) \/ by.auth = "ignore_acl" \/ Given(by, acl, m) # {})
         /\ Given(by, acl, "out") \subseteq Given(by, acl, "in")
         /\ ~LooksUpGroups(by, perm, acl) =>
               (CheckAcl(by, perm, acl, "in") <=> CheckAcl(by, perm, acl, "out"))
  <1>1. \A x : x \in Given(by, acl, m) <=>
              (x \in acl["*"] \/ (AsUser(by) /\ (x \in acl["users"] \/ (m = "in" /\ x \in acl["groups"]))))
    BY DEF Given
  <1>2. \A e : e \in OwnEntries(by) <=> (e = "*" \/ (AsUser(by) /\ e = "users"))
    BY DEF OwnEntries
  <1>3. CheckAcl(by, perm, acl, m) <=> (ByKey(by) /\ (by.auth = "ignore_acl" \/ perm \in Given(by, acl, m)))
    BY <1>1, <1>2 DEF CheckAcl
  <1>4. FilterAcl(by, Tags(acl), m) <=> (~ByKey(by) \/ by.auth = "ignore_acl" \/ Given(by, acl, m) # {})
    <2>1. OwnEntries(by) \cap Tags(acl) # {} <=> (acl["*"] # {} \/ (AsUser(by) /\ acl["users"] # {}))
      BY <1>2 DEF Tags, Entries
    <2>2. "groups" \in Tags(acl) <=> acl["groups"] # {}
      BY DEF Tags, Entries
    <2>3. Given(by, acl, m) # {} <=>
            (acl["*"] # {} \/ (AsUser(by) /\ (acl["users"] # {} \/ (m = "in" /\ acl["groups"] # {}))))
      BY <1>1
    <2> QED  BY <2>1, <2>2, <2>3 DEF FilterAcl
  <1>5. Given(by, acl, "out") \subseteq Given(by, acl, "in")
    BY DEF Given
  <1>6. ASSUME ~LooksUpGroups(by, perm, acl) PROVE CheckAcl(by, perm, acl, "in") <=> CheckAcl(by, perm, acl, "out")
    BY <1>2, <1>6 DEF CheckAcl, LooksUpGroups
  <1> QED  BY <1>3, <1>4, <1>5, <1>6

\* The ACLs of the class, the endpoint and the object are ACLs.
LEMMA EndpointAcls ==
  ASSUME rights.api # "v1", RightsTyped
  PROVE  ParentAcl \in Acls /\ EndpointAcl \in Acls /\ rights.acl \in Acls /\ rights.tags = Tags(rights.acl) /\ rights.api = "v2"
  BY DEF RightsTyped, ParentAcl, EndpointAcl, Acls, Perms

\* In version 2 the checks together are what the caller is entitled to.
LEMMA EntitledV2 ==
  ASSUME rights.api # "v1", RightsTyped, NEW by \in Callers, NEW action \in Actions, NEW m \in Members
  PROVE  Entitled(by, action, m) <=> PassesAll(by, action, m)
  <1> DEFINE p == Given(by, ParentAcl, m)  e == Given(by, EndpointAcl, m)  o == Given(by, rights.acl, m)
             perm == ObjectPermission(action)
  <1>1. ParentAcl \in Acls /\ EndpointAcl \in Acls /\ rights.acl \in Acls /\ rights.tags = Tags(rights.acl) /\ rights.api = "v2"
    BY EndpointAcls
  <1>2. perm \in Perms /\ "read" \in Perms
    BY DEF ObjectPermission, Perms
  <1>3. /\ by.auth \in {"write", "read", "key", "ignore_acl", "anonymous_read"}
        /\ AdminHasPermissions(by, action) => ~ByKey(by)
        /\ by.auth = "ignore_acl" => ByKey(by)
    BY DEF Callers, AdminHasPermissions, ByKey
  <1>4. /\ CheckAcl(by, "read", ParentAcl, m) <=> (ByKey(by) /\ (by.auth = "ignore_acl" \/ "read" \in p))
        /\ CheckAcl(by, "read", EndpointAcl, m) <=> (ByKey(by) /\ (by.auth = "ignore_acl" \/ "read" \in e))
        /\ CheckAcl(by, perm, rights.acl, m) <=> (ByKey(by) /\ (by.auth = "ignore_acl" \/ perm \in o))
        /\ FilterAcl(by, rights.tags, m) <=> (~ByKey(by) \/ by.auth = "ignore_acl" \/ o # {})
    BY <1>1, <1>2, AclGiven
  <1>5. /\ PassesView(by, action, m) <=> (AdminHasPermissions(by, action) \/ (ByKey(by) /\ (by.auth = "ignore_acl" \/ ("read" \in p /\ "read" \in e))))
        /\ PassesFind(by, m) <=> (~ByKey(by) \/ by.auth = "ignore_acl" \/ o # {})
        /\ PassesObject(by, action, m) <=> (AdminHasPermissions(by, action) \/ (ByKey(by) /\ (by.auth = "ignore_acl" \/ perm \in o)))
    BY <1>4 DEF PassesView, PassesFind, PassesObject, CheckAclPermission
  <1>6. Entitled(by, action, m) <=>
          (AdminHasPermissions(by, action) \/ by.auth = "ignore_acl"
            \/ (ByKey(by) /\ "read" \in p /\ "read" \in e
                 /\ (action = "create" \/ (action = "list" /\ o # {}) \/ (action \notin {"create", "list"} /\ perm \in o))))
    <2>1. CASE action = "create"  BY <1>1, <2>1 DEF Entitled
    <2>2. CASE action = "list"  BY <1>1, <2>2 DEF Entitled
    <2>3. CASE action \notin {"create", "list"}  BY <1>1, <2>3 DEF Entitled
    <2> QED  BY <2>1, <2>2, <2>3
  <1> HIDE DEF p, e, o, perm
  <1> QED  BY <1>3, <1>5, <1>6 DEF PassesAll

\* A member may do whatever the caller may do without being one.
LEMMA MembersPass ==
  ASSUME RightsTyped, NEW by \in Callers, NEW action \in Actions
  PROVE  /\ PassesView(by, action, "out") => PassesView(by, action, "in")
         /\ PassesFind(by, "out") => PassesFind(by, "in")
         /\ PassesObject(by, action, "out") => PassesObject(by, action, "in")
  <1>1. CASE rights.api = "v1"
    <2>1. /\ rights.other \in {0, 1} /\ rights.owner \in {0, 3} /\ rights.group \in 0..3
          /\ rights.klassOther \in {0, 2} /\ rights.klassGroup \in 0..2
      BY <1>1 DEF RightsTyped
    <2>2. /\ KlassLevel(by, "out") >= 1 => KlassLevel(by, "in") >= 1
          /\ KlassLevel(by, "out") >= 2 => KlassLevel(by, "in") >= 2
      BY <2>1 DEF KlassLevel
    <2>3. ViewAllows(by, action, "out") => ViewAllows(by, action, "in")
      BY <2>2 DEF ViewAllows, HasKlassCreateObjectPermission, HasKlassReadPermission
    <2>4. Queryset(by, "out") => Queryset(by, "in")
      BY DEF Queryset
    <2>5. HasDataObjectPermission(by, action, "out") => HasDataObjectPermission(by, action, "in")
      <3> DEFINE own == OwnLevel(by)  min == MinPermission(action)
      <3>1. own \in 0..3 /\ rights.group \in 0..3 /\ min \in 0..3
        BY <2>1 DEF OwnLevel, Higher, MinPermission, Actions
      <3> HIDE DEF own, min
      <3>2. own >= min => (IF AsUser(by) /\ rights.group > own /\ "in" = "in" THEN rights.group ELSE own) >= min
        BY <3>1
      <3> QED  BY <3>2 DEF HasDataObjectPermission, NeedsGroups, own, min
    <2>6. ObjectAllows(by, action, "out") => ObjectAllows(by, action, "in")
      BY <2>5 DEF ObjectAllows
    <2> QED  BY <1>1, <2>3, <2>4, <2>6 DEF PassesView, PassesFind, PassesObject
  <1>2. CASE rights.api # "v1"
    <2>1. ParentAcl \in Acls /\ EndpointAcl \in Acls /\ rights.acl \in Acls /\ rights.tags = Tags(rights.acl)
      BY <1>2, EndpointAcls
    <2>2. ObjectPermission(action) \in Perms /\ "read" \in Perms /\ "in" \in Members /\ "out" \in Members
      BY DEF ObjectPermission, Perms, Members
    <2>3. ASSUME NEW acl \in Acls, NEW perm \in Perms
          PROVE  /\ CheckAcl(by, perm, acl, "out") => CheckAcl(by, perm, acl, "in")
                 /\ FilterAcl(by, Tags(acl), "out") => FilterAcl(by, Tags(acl), "in")
      BY <2>2, AclGiven
    <2> QED  BY <1>2, <2>1, <2>2, <2>3 DEF PassesView, PassesFind, PassesObject, CheckAclPermission
  <1> QED  BY <1>1, <1>2

\* So in both versions the three checks are exactly the entitlement.
LEMMA EntitledPasses ==
  ASSUME RightsTyped, NEW by \in Callers, NEW action \in Actions, NEW m \in Members
  PROVE  Entitled(by, action, m) <=> PassesAll(by, action, m)
  BY EntitledV1, EntitledV2

\* The user's groups do not matter to a check that does not look them up.
LEMMA GroupsUnused ==
  ASSUME RightsTyped, NEW by \in Callers, NEW action \in Actions
  PROVE  /\ (rights.api # "v1" /\ ~LooksUpGroups(by, "read", ParentAcl) /\ ~LooksUpGroups(by, "read", EndpointAcl)) =>
               (CheckAclPermission(by, "in") <=> CheckAclPermission(by, "out"))
         /\ (rights.api # "v1" /\ ~(AsUser(by) /\ by.auth # "ignore_acl")) =>
               (FilterAcl(by, rights.tags, "in") <=> FilterAcl(by, rights.tags, "out"))
         /\ (rights.api # "v1" /\ ~LooksUpGroups(by, ObjectPermission(action), rights.acl)) =>
               (CheckAcl(by, ObjectPermission(action), rights.acl, "in") <=> CheckAcl(by, ObjectPermission(action), rights.acl, "out"))
         /\ (rights.api = "v1" /\ ~(NeedsGroups(by) /\ MinPermission(action) > 0)) =>
               (ObjectAllows(by, action, "in") <=> ObjectAllows(by, action, "out"))
  <1>1. ObjectPermission(action) \in Perms /\ "read" \in Perms /\ "in" \in Members
    BY DEF ObjectPermission, Perms, Members
  <1>2. rights.api # "v1" => ParentAcl \in Acls /\ EndpointAcl \in Acls /\ rights.acl \in Acls
    BY EndpointAcls
  <1>3. ASSUME NEW acl \in Acls, NEW perm \in Perms, ~LooksUpGroups(by, perm, acl)
        PROVE  CheckAcl(by, perm, acl, "in") <=> CheckAcl(by, perm, acl, "out")
    BY <1>1, <1>3, AclGiven
  <1>4. ~(AsUser(by) /\ by.auth # "ignore_acl") => (FilterAcl(by, rights.tags, "in") <=> FilterAcl(by, rights.tags, "out"))
    BY DEF FilterAcl
  <1>5. ASSUME rights.api = "v1", ~(NeedsGroups(by) /\ MinPermission(action) > 0)
        PROVE  HasDataObjectPermission(by, action, "in") <=> HasDataObjectPermission(by, action, "out")
    <2>1. /\ rights.other \in {0, 1} /\ rights.owner \in {0, 3} /\ rights.group \in 0..3
      BY <1>5 DEF RightsTyped
    <2>2. OwnLevel(by) \in 0..3 /\ MinPermission(action) \in 0..3
      BY <2>1 DEF OwnLevel, Higher, MinPermission, Actions
    <2>3. MinPermission(action) = 0 => rights.group >= MinPermission(action) /\ OwnLevel(by) >= MinPermission(action)
      BY <2>1, <2>2
    <2>4. MinPermission(action) = 0 \/ MinPermission(action) > 0
      BY <2>2
    <2> QED  BY <1>5, <2>3, <2>4 DEF HasDataObjectPermission
  <1> QED  BY <1>1, <1>2, <1>3, <1>4, <1>5 DEF CheckAclPermission, ObjectAllows

AskedRows ==
    [by : Callers, action : Actions, at : {"none", "asked", "allowed", "found", "served", "refused"}]
USE DEF AskedRows

AccessTypeOK ==
    /\ RightsTyped
    /\ request \in AskedRows
    /\ member \in Members /\ moving \in Members \cup {"none"} /\ groupIds \in Members \cup {"-"}
    /\ early \in {"yes", "no"} /\ misled \in {"yes", "no"}
    /\ seen \subseteq Members /\ member \in seen

\* Groups that were looked up while nothing moved are the user's groups.
CacheSound == groupIds # "-" /\ early = "no" => groupIds = member /\ moving = "none"

\* Every check a request has passed it has passed for a membership it has seen.
ChecksFor(by, action) ==
    request.by = by /\ request.action = action /\ misled = "no" =>
        /\ request.at \in {"allowed", "found"} => action # "create" /\ \E m \in seen : PassesView(by, action, m)
        /\ request.at = "found" => action # "list" /\ \E m \in seen : PassesFind(by, m)
        /\ request.at = "served" => \E m \in seen : PassesAll(by, action, m)
        /\ request.at = "refused" => \E m \in seen : ~PassesAll(by, action, m)

ChecksSound == \A by \in Callers, action \in Actions : ChecksFor(by, action)

AccessInv == AccessTypeOK /\ CacheSound /\ ChecksSound

\* The invariant holds before the request.
LEMMA AccessStart == AccessInit => AccessInv
  <1> SUFFICES ASSUME AccessInit PROVE AccessInv
    OBVIOUS
  <1>1. RightsTyped
    <2>1. CASE rights \in RightsV1
      BY <2>1, AccessAssumption DEF RightsV1, RightsTyped
    <2>2. CASE rights \in RightsV2
      <3>1. rights \in [api : {"v2"}, parent : {{"*"}, {"groups"}}, endpoint : {{"*"}, {"groups"}}, acl : Acls, tags : SUBSET Entries]
        BY <2>2 DEF RightsV2
      <3>2. rights.tags = Tags(rights.acl)
        BY <2>2 DEF RightsV2
      <3>3. {"*"} \in SUBSET Entries /\ {"groups"} \in SUBSET Entries
        BY DEF Entries
      <3> QED  BY <3>1, <3>2, <3>3 DEF RightsTyped
    <2> QED  BY <2>1, <2>2 DEF AccessInit
  <1>2. NoRequest \in AskedRows
    BY DEF NoRequest, Callers, Actions
  <1>3. request.at = "none"
    BY DEF AccessInit, NoRequest
  <1> QED  BY <1>1, <1>2, <1>3 DEF AccessInit, AccessInv, AccessTypeOK, CacheSound, ChecksSound, ChecksFor, Members

\* Memberships seen at three checks: one of them passes all three.
LEMMA OneMembership ==
  ASSUME AccessTypeOK, NEW by \in Callers, NEW action \in Actions,
         \E m \in seen : PassesView(by, action, m),
         action # "create" => \E m \in seen : PassesFind(by, m),
         action \notin {"create", "list"} => \E m \in seen : PassesObject(by, action, m)
  PROVE  \E m \in seen : PassesAll(by, action, m)
  <1>1. seen \subseteq Members /\ seen # {}
    BY DEF AccessTypeOK
  <1>2. /\ PassesView(by, action, "out") => PassesView(by, action, "in")
        /\ PassesFind(by, "out") => PassesFind(by, "in")
        /\ PassesObject(by, action, "out") => PassesObject(by, action, "in")
    BY MembersPass DEF AccessTypeOK
  <1>3. CASE "in" \in seen
    BY <1>1, <1>2, <1>3 DEF Members, PassesAll
  <1>4. CASE "in" \notin seen
    BY <1>1, <1>4 DEF Members, PassesAll
  <1> QED  BY <1>3, <1>4

\* A look-up that does not mislead the request gives the present groups.
LEMMA LookedRight ==
  ASSUME AccessTypeOK, CacheSound, NEW needed \in BOOLEAN, LookedIf(needed)
  PROVE  /\ groupIds' \in Members \cup {"-"} /\ early' \in {"yes", "no"} /\ misled' \in {"yes", "no"}
         /\ misled' = "no" => misled = "no" /\ (needed => CachedGroups = member)
         /\ CachedGroups \in Members
         /\ groupIds' # "-" /\ early' = "no" => groupIds' = member /\ moving = "none"
  BY DEF AccessTypeOK, CacheSound, LookedIf, Looked, NotLooked, CachedGroups, Members

\* What a check changes: where the request is, and the cache of groups.
LEMMA CheckMoves ==
  ASSUME AccessInv, NEW passed \in BOOLEAN, NEW to \in {"allowed", "found", "served"}, Goes(passed, to),
         NEW needed \in BOOLEAN, LookedIf(needed), UNCHANGED <<rights, member, moving, moves, seen>>
  PROVE  /\ AccessTypeOK' /\ CacheSound'
         /\ request'.by = request.by /\ request'.action = request.action
         /\ request'.at = (IF passed THEN to ELSE "refused")
         /\ misled' = "no" => misled = "no" /\ (needed => CachedGroups = member)
  <1>1. /\ groupIds' \in Members \cup {"-"} /\ early' \in {"yes", "no"} /\ misled' \in {"yes", "no"}
        /\ misled' = "no" => misled = "no" /\ (needed => CachedGroups = member)
        /\ groupIds' # "-" /\ early' = "no" => groupIds' = member /\ moving = "none"
    BY LookedRight DEF AccessInv
  <1>2. request' = [request EXCEPT !.at = IF passed THEN to ELSE "refused"]
    BY DEF Goes
  <1>3. request \in AskedRows
    BY DEF AccessInv, AccessTypeOK
  <1>4. /\ request' \in AskedRows
        /\ request'.by = request.by /\ request'.action = request.action
        /\ request'.at = (IF passed THEN to ELSE "refused")
    BY <1>2, <1>3
  <1>5. RightsTyped'
    BY DEF AccessInv, AccessTypeOK, RightsTyped
  <1>6. AccessTypeOK' /\ CacheSound'
    BY <1>1, <1>4, <1>5 DEF AccessInv, AccessTypeOK, CacheSound
  <1> QED  BY <1>1, <1>4, <1>6

\* The checks only depend on the rights.
LEMMA RightsFixed ==
  ASSUME rights' = rights, NEW by, NEW action, NEW m
  PROVE  /\ PassesView(by, action, m)' <=> PassesView(by, action, m)
         /\ PassesFind(by, m)' <=> PassesFind(by, m)
         /\ PassesAll(by, action, m)' <=> PassesAll(by, action, m)
  BY DEF PassesView, PassesFind, PassesObject, PassesAll, ViewAllows, HasKlassCreateObjectPermission, HasKlassReadPermission,
         KlassLevel, CheckAclPermission, ParentAcl, EndpointAcl, Queryset, ObjectAllows, HasDataObjectPermission, NeedsGroups, OwnLevel

\* check_permissions: the request passes for the present membership.
LEMMA CheckViewKeeps == ASSUME AccessInv, CheckView PROVE AccessInv'
  <1> DEFINE by == request.by  action == request.action
             next == IF action = "create" THEN "served" ELSE "allowed"
             needed == rights.api # "v1" /\ (LooksUpGroups(by, "read", ParentAcl) \/ LooksUpGroups(by, "read", EndpointAcl))
             passed == AdminHasPermissions(by, action) \/
                          (IF rights.api = "v1" THEN ByKey(by) /\ ViewAllows(by, action, member)
                           ELSE CheckAclPermission(by, CachedGroups))
  <1>1. by \in Callers /\ action \in Actions /\ RightsTyped /\ member \in seen /\ member \in Members
    BY DEF AccessInv, AccessTypeOK
  <1>2. /\ UNCHANGED <<rights, member, moving, moves, seen>> /\ Goes(passed, next) /\ LookedIf(needed)
    BY DEF CheckView, LookedIf
  <1>3. passed \in BOOLEAN /\ needed \in BOOLEAN /\ next \in {"allowed", "found", "served"}
    OBVIOUS
  <1>4. ~needed /\ rights.api # "v1" => (CheckAclPermission(by, "in") <=> CheckAclPermission(by, "out"))
    BY <1>1, GroupsUnused
  <1>5. CachedGroups \in Members
    BY DEF CachedGroups, AccessInv, AccessTypeOK
  <1>6. (needed => CachedGroups = member) => (passed <=> PassesView(by, action, member))
    BY <1>1, <1>4, <1>5 DEF PassesView, Members
  <1>7. next = IF action = "create" THEN "served" ELSE "allowed"
    OBVIOUS
  <1> HIDE DEF passed, needed, next
  <1>8. /\ AccessTypeOK' /\ CacheSound'
        /\ request'.by = by /\ request'.action = action
        /\ request'.at = (IF passed THEN next ELSE "refused")
        /\ misled' = "no" => misled = "no" /\ (needed => CachedGroups = member)
    BY <1>2, <1>3, CheckMoves
  <1>9. ASSUME NEW b \in Callers, NEW a \in Actions PROVE ChecksFor(b, a)'
    <2> SUFFICES ASSUME b = by, a = action, misled' = "no"
                 PROVE  /\ request'.at \in {"allowed", "found"} => a # "create" /\ \E m \in seen : PassesView(b, a, m)'
                        /\ request'.at = "found" => a # "list" /\ \E m \in seen : PassesFind(b, m)'
                        /\ request'.at = "served" => \E m \in seen : PassesAll(b, a, m)'
                        /\ request'.at = "refused" => \E m \in seen : ~PassesAll(b, a, m)'
      BY <1>2, <1>8 DEF ChecksFor
    <2>1. \A m : /\ PassesView(b, a, m)' <=> PassesView(b, a, m)
                 /\ PassesAll(b, a, m)' <=> PassesAll(b, a, m)
      BY <1>2, RightsFixed
    <2>2. passed <=> PassesView(b, a, member)
      BY <1>6, <1>8
    <2>3. a = "create" => (PassesAll(b, a, member) <=> PassesView(b, a, member))
      BY DEF PassesAll
    <2>4. ~PassesView(b, a, member) => ~PassesAll(b, a, member)
      BY DEF PassesAll
    <2> QED  BY <1>1, <1>3, <1>7, <1>8, <2>1, <2>2, <2>3, <2>4
  <1> QED  BY <1>8, <1>9 DEF AccessInv, ChecksSound

\* get_object: the same.
LEMMA FindObjectKeeps == ASSUME AccessInv, FindObject PROVE AccessInv'
  <1> DEFINE by == request.by  action == request.action
             next == IF action = "list" THEN "served" ELSE "found"
             needed == rights.api # "v1" /\ AsUser(by) /\ by.auth # "ignore_acl"
             passed == IF rights.api = "v1" THEN Queryset(by, member) ELSE FilterAcl(by, rights.tags, CachedGroups)
  <1>1. by \in Callers /\ action \in Actions /\ RightsTyped /\ member \in seen /\ member \in Members /\ AccessTypeOK
    BY DEF AccessInv, AccessTypeOK
  <1>2. /\ UNCHANGED <<rights, member, moving, moves, seen>> /\ Goes(passed, next) /\ LookedIf(needed)
        /\ request.at = "allowed"
    BY DEF FindObject, LookedIf
  <1>3. passed \in BOOLEAN /\ needed \in BOOLEAN /\ next \in {"allowed", "found", "served"}
    BY DEF Queryset, FilterAcl
  <1>4. ~needed /\ rights.api # "v1" => (FilterAcl(by, rights.tags, "in") <=> FilterAcl(by, rights.tags, "out"))
    BY <1>1, GroupsUnused
  <1>5. CachedGroups \in Members
    BY DEF CachedGroups, AccessInv, AccessTypeOK
  <1>6. (needed => CachedGroups = member) => (passed <=> PassesFind(by, member))
    BY <1>1, <1>4, <1>5 DEF PassesFind, Members
  <1>7. next = IF action = "list" THEN "served" ELSE "found"
    OBVIOUS
  <1> HIDE DEF passed, needed, next
  <1>8. /\ AccessTypeOK' /\ CacheSound'
        /\ request'.by = by /\ request'.action = action
        /\ request'.at = (IF passed THEN next ELSE "refused")
        /\ misled' = "no" => misled = "no" /\ (needed => CachedGroups = member)
    BY <1>2, <1>3, CheckMoves
  <1>9. ASSUME NEW b \in Callers, NEW a \in Actions PROVE ChecksFor(b, a)'
    <2> SUFFICES ASSUME b = by, a = action, misled' = "no"
                 PROVE  /\ request'.at \in {"allowed", "found"} => a # "create" /\ \E m \in seen : PassesView(b, a, m)'
                        /\ request'.at = "found" => a # "list" /\ \E m \in seen : PassesFind(b, m)'
                        /\ request'.at = "served" => \E m \in seen : PassesAll(b, a, m)'
                        /\ request'.at = "refused" => \E m \in seen : ~PassesAll(b, a, m)'
      BY <1>2, <1>8 DEF ChecksFor
    <2>1. \A m : /\ PassesView(b, a, m)' <=> PassesView(b, a, m)
                 /\ PassesFind(b, m)' <=> PassesFind(b, m)
                 /\ PassesAll(b, a, m)' <=> PassesAll(b, a, m)
      BY <1>2, RightsFixed
    <2>2. passed <=> PassesFind(b, member)
      BY <1>6, <1>8
    <2>3. a # "create" /\ \E m \in seen : PassesView(b, a, m)
      BY <1>2, <1>8 DEF AccessInv, ChecksSound, ChecksFor
    <2>4. a = "list" /\ PassesFind(b, member) => \E m \in seen : PassesAll(b, a, m)
      BY <1>1, <2>3, OneMembership
    <2>5. ~PassesFind(b, member) => ~PassesAll(b, a, member)
      BY <2>3 DEF PassesAll
    <2> QED  BY <1>1, <1>3, <1>7, <1>8, <2>1, <2>2, <2>3, <2>4, <2>5
  <1> QED  BY <1>8, <1>9 DEF AccessInv, ChecksSound

\* check_object_permissions: the same.
LEMMA CheckObjectKeeps == ASSUME AccessInv, CheckObject PROVE AccessInv'
  <1> DEFINE by == request.by  action == request.action
             needed == IF rights.api = "v1" THEN NeedsGroups(by) /\ MinPermission(action) > 0
                       ELSE LooksUpGroups(by, ObjectPermission(action), rights.acl)
             passed == AdminHasPermissions(by, action) \/
                          (IF rights.api = "v1" THEN ByKey(by) /\ ObjectAllows(by, action, CachedGroups)
                           ELSE CheckAcl(by, ObjectPermission(action), rights.acl, CachedGroups))
  <1>1. by \in Callers /\ action \in Actions /\ RightsTyped /\ member \in seen /\ member \in Members /\ AccessTypeOK
    BY DEF AccessInv, AccessTypeOK
  <1>2. /\ UNCHANGED <<rights, member, moving, moves, seen>> /\ Goes(passed, "served") /\ LookedIf(needed)
        /\ request.at = "found"
    BY DEF CheckObject, LookedIf
  <1>3. passed \in BOOLEAN /\ needed \in BOOLEAN
    BY DEF LooksUpGroups, NeedsGroups
  <1>4. ~needed => /\ rights.api = "v1" => (ObjectAllows(by, action, "in") <=> ObjectAllows(by, action, "out"))
                   /\ rights.api # "v1" => (CheckAcl(by, ObjectPermission(action), rights.acl, "in")
                                              <=> CheckAcl(by, ObjectPermission(action), rights.acl, "out"))
    BY <1>1, GroupsUnused
  <1>5. CachedGroups \in Members
    BY DEF CachedGroups, AccessInv, AccessTypeOK
  <1>6. (needed => CachedGroups = member) => (passed <=> PassesObject(by, action, member))
    BY <1>1, <1>4, <1>5 DEF PassesObject, Members
  <1> HIDE DEF passed, needed
  <1>8. /\ AccessTypeOK' /\ CacheSound'
        /\ request'.by = by /\ request'.action = action
        /\ request'.at = (IF passed THEN "served" ELSE "refused")
        /\ misled' = "no" => misled = "no" /\ (needed => CachedGroups = member)
    BY <1>2, <1>3, CheckMoves
  <1>9. ASSUME NEW b \in Callers, NEW a \in Actions PROVE ChecksFor(b, a)'
    <2> SUFFICES ASSUME b = by, a = action, misled' = "no"
                 PROVE  /\ request'.at \in {"allowed", "found"} => a # "create" /\ \E m \in seen : PassesView(b, a, m)'
                        /\ request'.at = "found" => a # "list" /\ \E m \in seen : PassesFind(b, m)'
                        /\ request'.at = "served" => \E m \in seen : PassesAll(b, a, m)'
                        /\ request'.at = "refused" => \E m \in seen : ~PassesAll(b, a, m)'
      BY <1>2, <1>8 DEF ChecksFor
    <2>1. \A m : PassesAll(b, a, m)' <=> PassesAll(b, a, m)
      BY <1>2, RightsFixed
    <2>2. passed <=> PassesObject(b, a, member)
      BY <1>6, <1>8
    <2>3. /\ a \notin {"create", "list"} /\ \E m \in seen : PassesView(b, a, m)
          /\ \E m \in seen : PassesFind(b, m)
      BY <1>2, <1>8 DEF AccessInv, ChecksSound, ChecksFor
    <2>4. PassesObject(b, a, member) => \E m \in seen : PassesAll(b, a, m)
      BY <1>1, <2>3, OneMembership
    <2>5. ~PassesObject(b, a, member) => ~PassesAll(b, a, member)
      BY <2>3 DEF PassesAll
    <2> QED  BY <1>1, <1>3, <1>8, <2>1, <2>2, <2>4, <2>5
  <1> QED  BY <1>8, <1>9 DEF AccessInv, ChecksSound

\* Every step of the request and of the others keeps it.
LEMMA AccessStep == ASSUME AccessInv, [AccessNext]_accessVars PROVE AccessInv'
  <1>t. AccessTypeOK /\ CacheSound /\ \A b \in Callers, a \in Actions : ChecksFor(b, a)
    BY DEF AccessInv, ChecksSound
  <1>k. ASSUME rights' = rights, request' = request, misled' = misled, seen \subseteq seen'
        PROVE  ChecksSound'
    <2> SUFFICES ASSUME NEW b \in Callers, NEW a \in Actions PROVE ChecksFor(b, a)'
      BY DEF ChecksSound
    <2>1. \A m : /\ PassesView(b, a, m)' <=> PassesView(b, a, m)
                 /\ PassesFind(b, m)' <=> PassesFind(b, m)
                 /\ PassesAll(b, a, m)' <=> PassesAll(b, a, m)
      BY <1>k, RightsFixed
    <2>2. ChecksFor(b, a)
      BY <1>t
    <2> QED  BY <1>k, <2>1, <2>2 DEF ChecksFor
  <1>r. rights' = rights => RightsTyped'
    BY <1>t DEF AccessTypeOK, RightsTyped
  <1>1. ASSUME NEW by \in Callers, NEW action \in Actions, Ask(by, action) PROVE AccessInv'
    <2>1. request'.at = "asked" /\ request' \in AskedRows
      BY <1>1 DEF Ask
    <2>2. AccessTypeOK' /\ CacheSound'
      BY <1>t, <1>r, <1>1, <2>1 DEF Ask, AccessTypeOK, CacheSound
    <2>3. ChecksSound'
      BY <2>1 DEF ChecksSound, ChecksFor
    <2> QED  BY <2>2, <2>3 DEF AccessInv
  <1>2. ASSUME NEW to \in {"in", "out"}, MoveMember(to) PROVE AccessInv'
    <2>1. AccessTypeOK' /\ CacheSound'
      BY <1>t, <1>r, <1>2 DEF MoveMember, Forgotten, AccessTypeOK, CacheSound, Members
    <2> QED  BY <1>k, <1>2, <2>1 DEF MoveMember, AccessInv
  <1>3. ASSUME CommitMove \/ UndoMove PROVE AccessInv'
    <2>1. AccessTypeOK' /\ CacheSound'
      BY <1>t, <1>r, <1>3 DEF CommitMove, UndoMove, EndMove, AccessTypeOK, CacheSound
    <2> QED  BY <1>k, <1>3, <2>1 DEF CommitMove, UndoMove, EndMove, AccessInv
  <1>4. ASSUME EvictGroups PROVE AccessInv'
    <2>1. AccessTypeOK' /\ CacheSound'
      BY <1>t, <1>r, <1>4 DEF EvictGroups, AccessTypeOK, CacheSound
    <2> QED  BY <1>k, <1>4, <2>1 DEF EvictGroups, AccessInv
  <1>5. ASSUME NEW acl \in Acls, NEW known \in SUBSET {"users", "groups"}, SaveAcl(acl, known) PROVE AccessInv'
    <2> DEFINE c == Cleaned(acl, known)
    <2>1. c \in Acls
      BY DEF Cleaned, Acls
    <2>2. Tags(c) \in SUBSET Entries
      BY DEF Tags
    <2>3. rights.api = "v2" /\ rights' = [rights EXCEPT !.acl = c, !.tags = Tags(c)]
      BY <1>5 DEF SaveAcl
    <2> HIDE DEF c
    <2>4. rights \in [api : {"v2"}, parent : SUBSET Entries, endpoint : SUBSET Entries, acl : Acls, tags : SUBSET Entries]
      BY <1>t, <2>3 DEF AccessTypeOK, RightsTyped
    <2>5. /\ rights' \in [api : {"v2"}, parent : SUBSET Entries, endpoint : SUBSET Entries, acl : Acls, tags : SUBSET Entries]
          /\ rights'.acl = c /\ rights'.tags = Tags(c)
      BY <2>1, <2>2, <2>3, <2>4
    <2>6. RightsTyped'
      BY <2>5 DEF RightsTyped, Tags
    <2>7. AccessTypeOK' /\ CacheSound' /\ request'.at = "none"
      BY <1>t, <1>5, <2>6 DEF SaveAcl, AccessTypeOK, CacheSound
    <2>8. ChecksSound'
      BY <2>7 DEF ChecksSound, ChecksFor
    <2> QED  BY <2>7, <2>8 DEF AccessInv
  <1>6. ASSUME UNCHANGED accessVars PROVE AccessInv'
    <2>1. AccessTypeOK' /\ CacheSound'
      BY <1>t, <1>r, <1>6 DEF accessVars, AccessTypeOK, CacheSound
    <2> QED  BY <1>k, <1>6, <2>1 DEF accessVars, AccessInv
  <1> QED  BY <1>1, <1>2, <1>3, <1>4, <1>5, <1>6, CheckViewKeeps, FindObjectKeeps, CheckObjectKeeps DEF AccessNext

(* Unless it used groups cached while a membership was being committed, a  *)
(* request is served only to a caller who was entitled to it at some       *)
(* moment of the request, and refused only to one who was not: the view's  *)
(* check, the filtered list and the object's check (core/permissions.py,   *)
(* data/permissions.py, core/querysets.py) together are exactly the        *)
(* entitlement, however often the membership changes between them.         *)
THEOREM GrantsAreCurrentHolds == AccessSpec => []GrantsAreCurrent
  <1>1. AccessInv => GrantsAreCurrent
    <2> SUFFICES ASSUME AccessInv PROVE GrantsAreCurrent
      OBVIOUS
    <2>1. request.by \in Callers /\ request.action \in Actions /\ RightsTyped /\ seen \subseteq Members
      BY DEF AccessInv, AccessTypeOK
    <2>2. ChecksFor(request.by, request.action)
      BY <2>1 DEF AccessInv, ChecksSound
    <2>3. \A m \in seen : Entitled(request.by, request.action, m) <=> PassesAll(request.by, request.action, m)
      BY <2>1, EntitledPasses
    <2> QED  BY <2>2, <2>3 DEF ChecksFor, GrantsAreCurrent
  <1> QED  BY <1>1, AccessStart, AccessStep, PTL DEF AccessSpec

-----------------------------------------------------------------------------
(* Channels: what each client has received, has in its queue and will get  *)
(* from the stream, against what is saved, sent and overtaken.             *)

SmallerThan(i, ids) == {j \in ids : j < i}

\* Ids up to a bound are finitely many.
LEMMA BoundedIds ==
    ASSUME NEW ids, NEW n \in Nat, ids \subseteq 0..n
    PROVE  IsFiniteSet(ids) /\ Cardinality(ids) \in Nat /\ ids \subseteq Nat
<1>1. IsFiniteSet(0..n)
  BY FS_Interval
<1>2. IsFiniteSet(ids)
  BY <1>1, FS_Subset
<1> QED BY <1>2, FS_CardinalityType

\* Such a set has a greatest member.
LEMMA Greatest ==
    ASSUME NEW S, NEW n \in Nat, S \subseteq 0..n, S # {}
    PROVE  /\ Max(S) \in S
           /\ \A y \in S : y <= Max(S)
<1> DEFINE Above == {n - y : y \in S}
<1>1. Above \subseteq Nat /\ Above # {}
  <2>1. \A y \in S : y \in 0..n
    OBVIOUS
  <2>2. \A y \in 0..n : n - y \in Nat
    OBVIOUS
  <2>3. \A d \in Above : d \in Nat
    BY <2>1, <2>2
  <2> QED BY <2>3
<1>2. PICK d \in Above : \A e \in Above : ~(<<e, d>> \in OpToRel(<, Nat))
  BY <1>1, NatLessThanWellFounded, WFMin
<1>3. PICK m \in S : d = n - m
  BY <1>2
<1>4. \A y \in S : m >= y
  <2> SUFFICES ASSUME NEW y \in S, ~(m >= y) PROVE FALSE
    OBVIOUS
  <2>1. n - y \in Above /\ n - y \in Nat /\ d \in Nat /\ n - y < d
    BY <1>1, <1>3
  <2>2. <<n - y, d>> \in OpToRel(<, Nat)
    BY <2>1 DEF OpToRel
  <2> QED BY <1>2, <2>1, <2>2
<1>5. \E x \in S : \A y \in S : x >= y
  BY <1>4
<1>6. Max(S) \in S /\ \A y \in S : Max(S) >= y
  BY <1>5 DEF Max
<1> QED BY <1>6

\* A member that is not exceeded is the greatest.
LEMMA GreatestIs ==
    ASSUME NEW S \in SUBSET Nat, NEW m \in S, \A y \in S : y <= m
    PROVE  Max(S) = m
<1>1. \E x \in S : \A y \in S : x >= y
  <2>1. \A y \in S : m >= y
    OBVIOUS
  <2> QED BY <2>1
<1>2. Max(S) \in S /\ \A y \in S : Max(S) >= y
  BY <1>1 DEF Max
<1>3. Max(S) \in Nat /\ m \in Nat /\ Max(S) >= m /\ Max(S) <= m
  BY <1>2
<1> QED BY <1>3

\* How many ids are smaller than one of them.
LEMMA RankBound ==
    ASSUME NEW ids, NEW n \in Nat, ids \subseteq 0..n, NEW i \in ids
    PROVE  /\ Cardinality(SmallerThan(i, ids)) \in 0..Cardinality(ids) - 1
           /\ IsFiniteSet(SmallerThan(i, ids))
<1>1. IsFiniteSet(ids)
  BY BoundedIds
<1>2. SmallerThan(i, ids) \subseteq ids /\ i \notin SmallerThan(i, ids)
  BY DEF SmallerThan
<1>3. /\ IsFiniteSet(SmallerThan(i, ids))
      /\ Cardinality(SmallerThan(i, ids)) <= Cardinality(ids)
      /\ Cardinality(SmallerThan(i, ids)) # Cardinality(ids)
  BY <1>1, <1>2, FS_Subset
<1>4. Cardinality(SmallerThan(i, ids)) \in Nat /\ Cardinality(ids) \in Nat
  BY <1>1, <1>3, FS_CardinalityType
<1> QED BY <1>3, <1>4

\* A greater id has more smaller ones.
LEMMA RankIncreases ==
    ASSUME NEW ids, NEW n \in Nat, ids \subseteq 0..n, NEW i \in ids, NEW j \in ids, i < j
    PROVE  Cardinality(SmallerThan(i, ids)) < Cardinality(SmallerThan(j, ids))
<1> i \in Nat /\ j \in Nat /\ ids \subseteq Nat
  BY BoundedIds
<1>1. SmallerThan(i, ids) \subseteq SmallerThan(j, ids) /\ i \in SmallerThan(j, ids)
      /\ i \notin SmallerThan(i, ids)
  <2>1. \A l \in ids : l < i => l < j
    OBVIOUS
  <2>2. ~(i < i)
    OBVIOUS
  <2> QED BY <2>1, <2>2 DEF SmallerThan
<1>2. IsFiniteSet(SmallerThan(j, ids)) /\ IsFiniteSet(SmallerThan(i, ids))
  BY RankBound
<1>3. /\ Cardinality(SmallerThan(i, ids)) <= Cardinality(SmallerThan(j, ids))
      /\ Cardinality(SmallerThan(i, ids)) # Cardinality(SmallerThan(j, ids))
  BY <1>1, <1>2, FS_Subset
<1>4. Cardinality(SmallerThan(i, ids)) \in Nat /\ Cardinality(SmallerThan(j, ids)) \in Nat
  BY <1>2, FS_CardinalityType
<1> QED BY <1>3, <1>4

\* InIdOrder returns the ids, each once, smallest first.
LEMMA InIdOrderSound ==
    ASSUME NEW ids, NEW n \in Nat, ids \subseteq 0..n
    PROVE  /\ InIdOrder(ids) \in Seq(Nat)
           /\ Range(InIdOrder(ids)) = ids
           /\ \A k, l \in DOMAIN InIdOrder(ids) : k < l => InIdOrder(ids)[k] < InIdOrder(ids)[l]
<1> DEFINE card == Cardinality(ids)
           rank == [i \in ids |-> Cardinality(SmallerThan(i, ids))]
           order == InIdOrder(ids)
<1>1. IsFiniteSet(ids) /\ card \in Nat /\ ids \subseteq Nat
  BY BoundedIds
<1>2. \A i \in ids : rank[i] \in 0..card - 1
  BY RankBound
<1>3. \A i, j \in ids : i < j => rank[i] < rank[j]
  BY RankIncreases
<1>4. rank \in Surjection(ids, 0..card - 1)
  <2>1. rank \in [ids -> 0..card - 1]
    BY <1>2
  <2>2. \A i, j \in ids : rank[i] = rank[j] => i = j
    <3> SUFFICES ASSUME NEW i \in ids, NEW j \in ids, rank[i] = rank[j], i # j PROVE FALSE
      OBVIOUS
    <3>1. i < j \/ j < i
      OBVIOUS
    <3>2. rank[i] \in Int /\ rank[j] \in Int
      BY <1>1, <1>2
    <3>3. rank[i] < rank[j] \/ rank[j] < rank[i]
      BY <1>3, <3>1
    <3> HIDE DEF rank
    <3> QED BY <3>2, <3>3
  <2>3. rank \in Injection(ids, 0..card - 1)
    BY <2>1, <2>2 DEF Injection, IsInjective
  <2>4. IsFiniteSet(0..card - 1) /\ Cardinality(0..card - 1) = card
    BY <1>1, FS_Interval
  <2> QED BY <2>3, <2>4, FS_Injection
<1>5. \A k \in 1..card : \E i \in ids : rank[i] = k - 1
  <2> HIDE DEF rank, card
  <2>1. \A k \in 1..card : k - 1 \in 0..card - 1
    BY <1>1
  <2>2. \A y \in 0..card - 1 : \E i \in ids : rank[i] = y
    BY <1>4 DEF Surjection
  <2> QED BY <2>1, <2>2
<1>6. order = [k \in 1..card |-> CHOOSE i \in ids : rank[i] = k - 1]
  <2>1. \A k \in 1..card : (CHOOSE i \in ids : rank[i] = k - 1) =
                (CHOOSE i \in ids : Cardinality({j \in ids : j < i}) = k - 1)
    BY DEF SmallerThan
  <2> QED BY <2>1 DEF InIdOrder
<1>7. DOMAIN order = 1..card
  BY <1>6
<1>8. \A k \in 1..card : order[k] \in ids /\ rank[order[k]] = k - 1
  <2> HIDE DEF rank
  <2> SUFFICES ASSUME NEW k \in 1..card
               PROVE  order[k] \in ids /\ rank[order[k]] = k - 1
    OBVIOUS
  <2>1. order[k] = CHOOSE i \in ids : rank[i] = k - 1
    BY <1>6
  <2> QED BY <1>5, <2>1
<1>9. order \in Seq(Nat)
  <2> HIDE DEF rank, card, order
  <2>1. order \in [1..card -> Nat]
    BY <1>1, <1>6, <1>8
  <2> QED BY <1>1, <2>1
<1>10. Range(order) = ids
  <2>1. \A i \in ids : \E k \in 1..card : order[k] = i
    <3> SUFFICES ASSUME NEW i \in ids PROVE \E k \in 1..card : order[k] = i
      OBVIOUS
    <3>1. rank[i] + 1 \in 1..card /\ rank[i] \in Int
      BY <1>1, <1>2
    <3>2. PICK k \in 1..card : k = rank[i] + 1
      BY <3>1
    <3> HIDE DEF rank, card, order
    <3>a. order[k] \in ids /\ rank[order[k]] = k - 1
      BY <1>8
    <3>b. rank[i] = k - 1
      BY <3>1, <3>2
    <3>3. order[k] \in ids /\ rank[order[k]] = rank[i] /\ order[k] \in Int /\ i \in Int
      <4>1. rank[order[k]] = rank[i]
        BY <3>a, <3>b, Zenon
      <4>2. order[k] \in Nat /\ i \in Nat
        BY <1>1, <3>a, Zenon
      <4> QED BY <3>a, <4>1, <4>2
    <3>4. ~(order[k] < i) /\ ~(i < order[k])
      BY <1>2, <1>3, <3>1, <3>3
    <3> QED BY <3>3, <3>4
  <2> QED BY <1>7, <1>8, <2>1 DEF Range
<1>11. \A k, l \in 1..card : k < l => order[k] < order[l]
  <2> SUFFICES ASSUME NEW k \in 1..card, NEW l \in 1..card, k < l PROVE order[k] < order[l]
    OBVIOUS
  <2>1. order[k] \in ids /\ order[l] \in ids /\ rank[order[k]] = k - 1 /\ rank[order[l]] = l - 1
    BY <1>8
  <2> HIDE DEF rank, order
  <2>2. ~(order[l] < order[k])
    <3>1. order[l] < order[k] => rank[order[l]] < rank[order[k]]
      BY <1>3, <2>1
    <3>2. ~(l - 1 < k - 1)
      BY <1>1
    <3> QED BY <2>1, <3>1, <3>2
  <2>3. order[l] # order[k]
    BY <2>1
  <2>4. order[k] \in Nat /\ order[l] \in Nat
    BY <1>1, <2>1
  <2> QED BY <2>2, <2>3, <2>4
<1> QED BY <1>7, <1>9, <1>10, <1>11

(* What Newer returns *)

AfterIn(list, last) == {i \in list : \A l \in last : i > l}

\* Newer returns the first ids after the last one, and all of them if there is room.
LEMMA NewerSound ==
    ASSUME NEW last, NEW n \in Nat, NEW top \in Nat, listed \subseteq 0..top, last \subseteq Nat
    PROVE  /\ Newer(last, n) \subseteq AfterIn(listed, last)
           /\ \A i \in Newer(last, n), j \in AfterIn(listed, last) : j < i => j \in Newer(last, n)
           /\ Cardinality(Newer(last, n)) < n => Newer(last, n) = AfterIn(listed, last)
<1> DEFINE found == Newer(last, n)
           all == AfterIn(listed, last)
<1>1. all \subseteq 0..top /\ found = {i \in all : Cardinality(SmallerThan(i, all)) < n}
  BY DEF Newer, AfterIn, SmallerThan
<1> HIDE DEF all, found
<1>2. \A i \in all : Cardinality(SmallerThan(i, all)) \in Nat /\ IsFiniteSet(SmallerThan(i, all))
  <2> SUFFICES ASSUME NEW i \in all
               PROVE Cardinality(SmallerThan(i, all)) \in Nat /\ IsFiniteSet(SmallerThan(i, all))
    OBVIOUS
  <2>1. IsFiniteSet(SmallerThan(i, all))
    BY <1>1, RankBound
  <2> QED BY <2>1, FS_CardinalityType
<1>3. \A i, j \in all : j < i => Cardinality(SmallerThan(j, all)) < Cardinality(SmallerThan(i, all))
  BY <1>1, RankIncreases
<1>4. found \subseteq all
  BY <1>1
<1>5. \A i \in found, j \in all : j < i => j \in found
  <2> SUFFICES ASSUME NEW i \in found, NEW j \in all, j < i PROVE j \in found
    OBVIOUS
  <2>1. i \in all /\ Cardinality(SmallerThan(i, all)) < n
    BY <1>1
  <2>2. Cardinality(SmallerThan(j, all)) < Cardinality(SmallerThan(i, all))
    BY <1>3, <2>1
  <2>3. Cardinality(SmallerThan(j, all)) < n
    BY <1>2, <2>1, <2>2
  <2> QED BY <1>1, <2>3
<1>6. ASSUME Cardinality(found) < n PROVE found = all
  <2> SUFFICES ASSUME all \ found # {} PROVE FALSE
    BY <1>4
  <2>1. all \ found \subseteq Nat
    BY <1>1
  <2>2. PICK i \in all \ found : \A j \in all \ found : ~(<<j, i>> \in OpToRel(<, Nat))
    BY <2>1, NatLessThanWellFounded, WFMin
  <2>3. \A j \in all \ found : ~(j < i)
    <3> SUFFICES ASSUME NEW j \in all \ found, j < i PROVE FALSE
      OBVIOUS
    <3>1. <<j, i>> \in OpToRel(<, Nat)
      BY <2>1 DEF OpToRel
    <3> QED BY <2>2, <3>1
  <2>4. SmallerThan(i, all) \subseteq found
    BY <2>3 DEF SmallerThan
  <2>5. IsFiniteSet(found)
    BY <1>1, <1>4, BoundedIds
  <2>6. Cardinality(SmallerThan(i, all)) <= Cardinality(found) /\ Cardinality(found) \in Nat
    BY <2>4, <2>5, FS_Subset, FS_CardinalityType
  <2>7. Cardinality(SmallerThan(i, all)) < n
    BY <1>2, <1>6, <2>6
  <2> QED BY <1>1, <2>7
<1> QED BY <1>4, <1>5, <1>6 DEF all, found

(* Sequences of ids in the order they were published *)

\* y comes after x: it is newer, or another publisher overtook it.
Follows(x, y, overtaken) == x < y \/ (y \in overtaken /\ x # y)

Ordered(s, overtaken) ==
    \A m, n \in DOMAIN s :
        m < n /\ s[m] # Confirmation /\ s[n] # Confirmation => Follows(s[m], s[n], overtaken)

\* More changes that were overtaken do no harm.
LEMMA OrderedGrows ==
    ASSUME NEW s, NEW a, NEW b, a \subseteq b, Ordered(s, a)
    PROVE  Ordered(s, b)
BY DEF Ordered, Follows

\* A message put behind those it follows.
LEMMA OrderedAppend ==
    ASSUME NEW s \in Seq(Nat), NEW y \in Nat, NEW l, Ordered(s, l),
           y # Confirmation => \A x \in Range(s) \ {Confirmation} : Follows(x, y, l)
    PROVE  /\ Append(s, y) \in Seq(Nat) /\ Range(Append(s, y)) = Range(s) \cup {y}
           /\ Ordered(Append(s, y), l)
<1> DEFINE t == Append(s, y)
<1>1. /\ t \in Seq(Nat) /\ Len(s) \in Nat /\ DOMAIN s = 1..Len(s) /\ DOMAIN t = 1..Len(s) + 1
      /\ t[Len(s) + 1] = y /\ \A n \in 1..Len(s) : t[n] = s[n]
  OBVIOUS
<1> HIDE DEF t
<1>2. Range(t) = Range(s) \cup {y}
  <2>1. \A n \in 1..Len(s) + 1 : n \in 1..Len(s) \/ n = Len(s) + 1
    BY <1>1
  <2>2. Len(s) + 1 \in 1..Len(s) + 1 /\ \A n \in 1..Len(s) : n \in 1..Len(s) + 1
    BY <1>1
  <2> QED BY <1>1, <2>1, <2>2 DEF Range
<1>3. ASSUME NEW m \in DOMAIN t, NEW n \in DOMAIN t, m < n,
             t[m] # Confirmation, t[n] # Confirmation
      PROVE  Follows(t[m], t[n], l)
  <2>1. m \in 1..Len(s) /\ (n \in 1..Len(s) \/ n = Len(s) + 1)
    BY <1>1, <1>3
  <2>2. CASE n \in 1..Len(s)
    BY <1>1, <1>3, <2>1, <2>2 DEF Ordered
  <2>3. CASE n = Len(s) + 1
    <3>1. s[m] \in Range(s) \ {Confirmation} /\ t[n] = y /\ t[m] = s[m]
      BY <1>1, <1>3, <2>1, <2>3 DEF Range
    <3> QED BY <1>3, <3>1
  <2> QED BY <2>1, <2>2, <2>3
<1> QED BY <1>1, <1>2, <1>3 DEF Ordered, t

\* What is left follows what was taken.
LEMMA OrderedTail ==
    ASSUME NEW s \in Seq(Nat), NEW l, s # <<>>, Ordered(s, l)
    PROVE  /\ Tail(s) \in Seq(Nat) /\ Head(s) \in Nat
           /\ Range(s) = Range(Tail(s)) \cup {Head(s)}
           /\ Ordered(Tail(s), l)
           /\ Head(s) # Confirmation =>
                \A y \in Range(Tail(s)) \ {Confirmation} : Follows(Head(s), y, l)
<1> DEFINE t == Tail(s)
<1>1. /\ t \in Seq(Nat) /\ Len(s) \in Nat \ {0} /\ DOMAIN s = 1..Len(s)
      /\ DOMAIN t = 1..Len(s) - 1 /\ \A n \in 1..Len(s) - 1 : t[n] = s[n + 1]
      /\ Head(s) = s[1] /\ Head(s) \in Nat
  OBVIOUS
<1> HIDE DEF t
<1>2. \A n \in 1..Len(s) - 1 : n + 1 \in 1..Len(s) /\ 1 < n + 1
  BY <1>1
<1>3. \A n \in 1..Len(s) : n = 1 \/ n - 1 \in 1..Len(s) - 1
  BY <1>1
<1>a. 1 \in DOMAIN s
  BY <1>1
<1>4. Range(s) = Range(t) \cup {Head(s)}
  <2>1. \A n \in 1..Len(s) : s[n] \in Range(t) \cup {Head(s)}
    <3> SUFFICES ASSUME NEW n \in 1..Len(s), n # 1 PROVE s[n] \in Range(t)
      BY <1>1
    <3>1. n - 1 \in DOMAIN t /\ t[n - 1] = s[n - 1 + 1] /\ n - 1 + 1 = n
      BY <1>1, <1>3
    <3> QED BY <3>1 DEF Range
  <2>2. \A n \in 1..Len(s) - 1 : t[n] \in Range(s)
    BY <1>1, <1>2 DEF Range
  <2>3. Head(s) \in Range(s)
    BY <1>1, <1>a DEF Range
  <2>4. Range(s) \subseteq Range(t) \cup {Head(s)}
    BY <1>1, <2>1 DEF Range
  <2>5. Range(t) \subseteq Range(s)
    BY <1>1, <2>2 DEF Range
  <2> QED BY <2>3, <2>4, <2>5
<1>5. ASSUME NEW m \in DOMAIN t, NEW n \in DOMAIN t, m < n,
             t[m] # Confirmation, t[n] # Confirmation
      PROVE  Follows(t[m], t[n], l)
  <2>1. m + 1 \in DOMAIN s /\ n + 1 \in DOMAIN s /\ m + 1 < n + 1
        /\ t[m] = s[m + 1] /\ t[n] = s[n + 1]
    <3>1. m \in 1..Len(s) - 1 /\ n \in 1..Len(s) - 1
      BY <1>1
    <3>2. m \in Int /\ n \in Int
      BY <3>1
    <3>3. m + 1 < n + 1
      BY <1>5, <3>2
    <3>4. t[m] = s[m + 1] /\ t[n] = s[n + 1]
      BY <1>1, <3>1
    <3>5. m + 1 \in DOMAIN s /\ n + 1 \in DOMAIN s
      BY <1>1, <1>2, <3>1
    <3> QED BY <3>3, <3>4, <3>5
  <2> QED BY <1>5, <2>1 DEF Ordered
<1>6. ASSUME NEW y \in Range(t) \ {Confirmation}, Head(s) # Confirmation
      PROVE  Follows(Head(s), y, l)
  <2>1. PICK n \in DOMAIN t : y = t[n]
    BY DEF Range
  <2>2. 1 \in DOMAIN s /\ n + 1 \in DOMAIN s /\ 1 < n + 1 /\ y = s[n + 1]
    BY <1>1, <1>2, <2>1
  <2> QED BY <1>1, <1>6, <2>2 DEF Ordered
<1> QED BY <1>1, <1>4, <1>5, <1>6 DEF Ordered, t

\* A sequence put behind one that it follows.
LEMMA OrderedConcat ==
    ASSUME NEW s \in Seq(Nat), NEW t \in Seq(Nat), NEW l, Ordered(s, l), Ordered(t, l),
           \A x \in Range(s), y \in Range(t) : Follows(x, y, l)
    PROVE  /\ s \o t \in Seq(Nat) /\ Range(s \o t) = Range(s) \cup Range(t)
           /\ Ordered(s \o t, l)
<1> DEFINE r == s \o t
           a == Len(s)
           b == Len(t)
<1>1. /\ r \in Seq(Nat) /\ a \in Nat /\ b \in Nat /\ DOMAIN s = 1..a /\ DOMAIN t = 1..b
      /\ DOMAIN r = 1..a + b
  BY ConcatProperties, LenProperties
<1>2. \A n \in 1..a + b : r[n] = IF n <= a THEN s[n] ELSE t[n - a]
  BY ConcatProperties
<1> HIDE DEF r, a, b
<1>3. \A n \in 1..a + b : \/ n \in 1..a /\ r[n] = s[n]
                          \/ n > a /\ n - a \in 1..b /\ r[n] = t[n - a]
  <2> SUFFICES ASSUME NEW n \in 1..a + b
               PROVE  \/ n \in 1..a /\ r[n] = s[n]
                      \/ n > a /\ n - a \in 1..b /\ r[n] = t[n - a]
    OBVIOUS
  <2>1. CASE n <= a
    BY <1>1, <1>2, <2>1
  <2>2. CASE n > a
    <3>1. n - a \in 1..b /\ ~(n <= a)
      BY <1>1, <2>2
    <3> QED BY <1>2, <2>2, <3>1
  <2> QED BY <1>1, <2>1, <2>2
<1>4. \A n \in 1..a : n \in 1..a + b /\ r[n] = s[n]
  BY <1>1, <1>2
<1>5. \A n \in 1..b : n + a \in 1..a + b /\ r[n + a] = t[n]
  <2> SUFFICES ASSUME NEW n \in 1..b PROVE n + a \in 1..a + b /\ r[n + a] = t[n]
    OBVIOUS
  <2>1. PICK k : k = n + a
    OBVIOUS
  <2>2. k \in 1..a + b /\ ~(k <= a) /\ k - a = n
    BY <1>1, <2>1
  <2>3. r[k] = t[k - a]
    BY <1>2, <2>2
  <2> QED BY <2>1, <2>2, <2>3
<1>6. Range(r) = Range(s) \cup Range(t)
  <2>1. \A n \in DOMAIN r : r[n] \in Range(s) \cup Range(t)
    BY <1>1, <1>3 DEF Range
  <2>2. \A n \in DOMAIN s : s[n] \in Range(r)
    BY <1>1, <1>4 DEF Range
  <2>3. \A n \in DOMAIN t : t[n] \in Range(r)
    BY <1>1, <1>5 DEF Range
  <2> QED BY <2>1, <2>2, <2>3 DEF Range
<1>7. ASSUME NEW m \in DOMAIN r, NEW n \in DOMAIN r, m < n,
             r[m] # Confirmation, r[n] # Confirmation
      PROVE  Follows(r[m], r[n], l)
  <2>1. m \in 1..a + b /\ n \in 1..a + b
    BY <1>1
  <2>2. CASE m \in 1..a /\ r[m] = s[m] /\ n \in 1..a /\ r[n] = s[n]
    BY <1>1, <1>7, <2>2 DEF Ordered
  <2>3. CASE /\ m \in 1..a /\ r[m] = s[m]
             /\ n > a /\ n - a \in 1..b /\ r[n] = t[n - a]
    BY <1>1, <2>3 DEF Range
  <2>4. CASE /\ m > a /\ m - a \in 1..b /\ r[m] = t[m - a]
             /\ n > a /\ n - a \in 1..b /\ r[n] = t[n - a]
    <3>1. m - a < n - a /\ m - a \in DOMAIN t /\ n - a \in DOMAIN t
      BY <1>1, <1>7, <2>1, <2>4
    <3> QED BY <1>7, <2>4, <3>1 DEF Ordered
  <2>5. ~(m > a /\ n \in 1..a)
    BY <1>1, <1>7, <2>1
  <2> QED BY <1>3, <2>1, <2>2, <2>3, <2>4, <2>5
<1> QED BY <1>1, <1>6, <1>7 DEF Ordered, r

CallType == [pc : {"new", "save", "publish", "done", "killed"}, id : Nat]
VisitPcs == {"away", "subscribe", "wait", "orphaned", "read", "take"}
VisitType == [pc : VisitPcs, last : SUBSET Nat, left : Int, try : Nat]

\* The steps of a session before it has read the list
EarlyPcs == {"subscribe", "wait", "orphaned", "read"}

CallTypes == call \in [Publications -> CallType]
IdTypes ==
    /\ seq \in Nat /\ saved \subseteq 1..seq /\ sent \subseteq saved
    /\ trimmed \subseteq saved /\ listed = saved \ trimmed
ConnTypes ==
    /\ conn \in {"none", "opening", "open"} /\ cmds \in Seq({"subscribe", "unsubscribe"})
    /\ streaming \in {"yes", "no"} /\ stream \in Seq(Nat)
    /\ event \in {"absent", "unset", "set"} /\ registered \subseteq Clients
    /\ stale \in {"yes", "no"}
QueueTypes == queue \in [Clients -> Seq(Nat)]
VisitTypes == visit \in [Clients -> VisitType]
HistoryTypes ==
    /\ got \in [Clients -> Seq(Nat)]
    /\ cursor \in [Clients -> SUBSET Nat] /\ start \in [Clients -> SUBSET Nat]

\* An id belongs to one call, which has not saved it before "save" nor published it
\* before "publish".
CallsFollow ==
    /\ \A k \in Publications :
        /\ call[k].pc # "new" => call[k].id \in 1..seq
        /\ call[k].pc = "save" => call[k].id \notin saved
        /\ call[k].pc = "publish" => call[k].id \in saved \ sent
    /\ \A k, l \in Publications :
        call[k].pc # "new" /\ call[l].pc # "new" /\ call[k].id = call[l].id => k = l

OnStream == Range(stream) \ {Confirmation}
InQueue(c) == Range(queue[c])
Received(c) == Range(got[c])

StreamFollows == OnStream \subseteq sent /\ Ordered(stream, late)

\* Who listens has an event; a set event means that redis sends the room's messages,
\* unless an older confirmation has set it.
ConnFollows ==
    /\ event = "absent" <=> registered = {}
    /\ conn # "open" => streaming = "no" /\ stream = <<>> /\ event # "set"
    /\ event # "absent" =>
        \/ cmds # <<>> /\ cmds[Len(cmds)] = "subscribe"
        \/ cmds = <<>> /\ (streaming = "yes" \/ (stream = <<>> /\ event = "unset"))
    /\ event = "set" /\ stale = "no" =>
        cmds = <<>> /\ streaming = "yes" /\ Confirmation \notin Range(stream)
    /\ \A c \in registered : visit[c].pc \in {"read", "take"} => event = "set"

QueueFollows(c) ==
    /\ InQueue(c) \subseteq sent /\ Ordered(queue[c], late)
    /\ \A x \in InQueue(c), y \in OnStream : Follows(x, y, late)

\* The cursor is the greatest id received, or where the client began.
GotFollows(c) ==
    /\ Received(c) \subseteq saved /\ Ordered(got[c], late)
    /\ \A x \in Received(c) : \E m \in cursor[c] : x <= m
    /\ \A m \in cursor[c] : m = 0 \/ m \in Received(c)
    /\ \A m, n \in cursor[c] : m = n
    /\ start[c] # {} => cursor[c] # {}

IsNew(c, y) == \A l \in visit[c].last : y > l

\* Before the list is read last is the cursor; after that what is newer than last
\* was published, and what is to come follows what came.
VisitFollows(c) ==
    /\ visit[c].pc \in EarlyPcs => visit[c].last = cursor[c]
    /\ visit[c].pc = "take" =>
        /\ start[c] # {} => visit[c].last # {}
        /\ \A l \in visit[c].last : \E m \in cursor[c] : l <= m
        /\ \A x \in Received(c) : IsNew(c, x) => x \in sent
        /\ \A x \in Received(c), y \in InQueue(c) \cup OnStream :
                IsNew(c, y) => Follows(x, y, late)

Excused(i) == i \in late \/ i \in trimmed

\* Up to its cursor a client has everything, but for what a newer change has
\* overtaken or will have overtaken when it is published.
Covered(c) ==
    \A m \in cursor[c], i \in saved, s \in start[c] : s < i /\ i < m =>
        i \in Received(c) \/ Excused(i) \/ (i \notin sent /\ \E j \in sent : j > i)

\* What is newer than last will come, or nothing that comes will pass it.
Coming(c, j) ==
    \/ j \in InQueue(c)
    \/ c \in registered /\ j \in OnStream
    \/ c \notin registered /\ \A x \in InQueue(c) \cup Received(c) : x < j

Promised(c) ==
    visit[c].pc = "take" /\ visit[c].left > 0 /\ start[c] # {} =>
        \A j \in saved : IsNew(c, j) =>
            j \in Received(c) \/ Excused(j) \/ j \notin sent \/ Coming(c, j)

ClientFollows(c) ==
    /\ QueueFollows(c) /\ GotFollows(c) /\ VisitFollows(c)
    /\ stale = "no" => Covered(c) /\ Promised(c)

RoomInv == CallTypes /\ IdTypes /\ CallsFollow
ConnInv == ConnTypes /\ StreamFollows /\ ConnFollows
ClientsInv ==
    /\ QueueTypes /\ VisitTypes /\ HistoryTypes
    /\ \A c \in Clients : ClientFollows(c)

FollowInv == RoomInv /\ ConnInv /\ ClientsInv

(* Publishing *)

\* A call takes the lock and a number.
LEMMA TakeNumberStep ==
    ASSUME RoomInv, NEW k \in Publications, TakeNumber(k)
    PROVE  RoomInv' /\ UNCHANGED <<saved, sent, late, trimmed>>
<1> USE DEF RoomInv, CallTypes, CallType, IdTypes
<1>1. UNCHANGED <<saved, sent, late, trimmed, listed>> /\ seq' = seq + 1
  BY DEF TakeNumber
<1>2. PICK r : r = [pc |-> "save", id |-> seq + 1]
  OBVIOUS
<1>3. r \in CallType /\ r.pc = "save" /\ r.id = seq + 1
  BY <1>2
<1>4. call' = [call EXCEPT ![k] = r]
  BY <1>2 DEF TakeNumber
<1>5. call' \in [Publications -> CallType]
        /\ \A l \in Publications : call'[l] = IF l = k THEN r ELSE call[l]
  BY <1>3, <1>4
<1>6. CallTypes' /\ IdTypes'
  BY <1>1, <1>5
<1>7. \A l \in Publications : call[l].pc # "new" => call[l].id # seq + 1
  BY DEF CallsFollow
<1>8. CallsFollow'
  <2>1. \A l \in Publications :
            /\ call'[l].pc # "new" => call'[l].id \in 1..seq'
            /\ call'[l].pc = "save" => call'[l].id \notin saved'
            /\ call'[l].pc = "publish" => call'[l].id \in saved' \ sent'
    <3> SUFFICES ASSUME NEW l \in Publications
                 PROVE  /\ call'[l].pc # "new" => call'[l].id \in 1..seq'
                        /\ call'[l].pc = "save" => call'[l].id \notin saved'
                        /\ call'[l].pc = "publish" => call'[l].id \in saved' \ sent'
      OBVIOUS
    <3>1. CASE l = k
      BY <1>1, <1>3, <1>5, <3>1
    <3>2. CASE l # k
      BY <1>1, <1>5, <3>2 DEF CallsFollow
    <3> QED BY <3>1, <3>2
  <2>2. \A a, b \in Publications :
            call'[a].pc # "new" /\ call'[b].pc # "new" /\ call'[a].id = call'[b].id => a = b
    BY <1>3, <1>5, <1>7 DEF CallsFollow
  <2> QED BY <2>1, <2>2 DEF CallsFollow
<1> QED BY <1>1, <1>6, <1>8

\* What SaveChange does to the ids
SavesId(i) ==
    /\ i \in 1..seq /\ i \notin saved /\ saved' = saved \cup {i} /\ sent' = sent
    /\ late' = late \cup Overtaken(i, saved) /\ trimmed \subseteq trimmed'

\* A call saves its change and trims the list.
LEMMA SaveChangeStep ==
    ASSUME RoomInv, NEW k \in Publications, SaveChange(k)
    PROVE  RoomInv' /\ SavesId(call[k].id)
<1> USE DEF RoomInv, CallTypes, CallType, IdTypes
<1>1. PICK i : i = call[k].id
  OBVIOUS
<1>2. call[k].pc = "save" /\ i \in 1..seq /\ i \notin saved
  BY <1>1 DEF SaveChange, CallsFollow
<1>3. PICK cut : /\ cut \subseteq listed \cup {i}
                 /\ listed' = (listed \cup {i}) \ cut /\ trimmed' = trimmed \cup cut
  BY <1>1 DEF SaveChange
<1>4. /\ saved' = saved \cup {i} /\ late' = late \cup Overtaken(i, saved)
      /\ UNCHANGED <<seq, sent>> /\ call' = [call EXCEPT ![k].pc = "publish"]
  BY <1>1 DEF SaveChange
<1>5. call' \in [Publications -> CallType]
        /\ \A l \in Publications : /\ call'[l].id = call[l].id
                            /\ call'[l].pc = IF l = k THEN "publish" ELSE call[l].pc
  BY <1>4
<1>6. CallTypes' /\ IdTypes'
  <2>1. saved' \subseteq 1..seq' /\ sent' \subseteq saved' /\ trimmed' \subseteq saved'
    BY <1>2, <1>3, <1>4
  <2>2. listed' = saved' \ trimmed'
    BY <1>2, <1>3, <1>4
  <2> QED BY <1>4, <1>5, <2>1, <2>2
<1>7. CallsFollow'
  <2>1. \A l \in Publications :
            /\ call'[l].pc # "new" => call'[l].id \in 1..seq'
            /\ call'[l].pc = "save" => call'[l].id \notin saved'
            /\ call'[l].pc = "publish" => call'[l].id \in saved' \ sent'
    <3> SUFFICES ASSUME NEW l \in Publications
                 PROVE  /\ call'[l].pc # "new" => call'[l].id \in 1..seq'
                        /\ call'[l].pc = "save" => call'[l].id \notin saved'
                        /\ call'[l].pc = "publish" => call'[l].id \in saved' \ sent'
      OBVIOUS
    <3>1. CASE l = k
      BY <1>1, <1>2, <1>4, <1>5, <3>1
    <3>2. CASE l # k
      BY <1>1, <1>2, <1>4, <1>5, <3>2 DEF CallsFollow
    <3> QED BY <3>1, <3>2
  <2>2. \A a, b \in Publications :
            call'[a].pc # "new" /\ call'[b].pc # "new" /\ call'[a].id = call'[b].id => a = b
    BY <1>2, <1>5 DEF CallsFollow
  <2> QED BY <2>1, <2>2 DEF CallsFollow
<1> QED BY <1>1, <1>2, <1>3, <1>4, <1>6, <1>7 DEF SavesId

\* What PublishChange does to the ids and the messages
Publishes(i) ==
    /\ i \in saved \ sent /\ sent' = sent \cup {i}
    /\ late' = late \cup Overtaken(i, sent) /\ UNCHANGED <<saved, trimmed>>
    /\ stream' = IF streaming = "yes" THEN Append(stream, i) ELSE stream

\* A call publishes its change.
LEMMA PublishChangeStep ==
    ASSUME RoomInv, NEW k \in Publications, PublishChange(k)
    PROVE  RoomInv' /\ Publishes(call[k].id)
<1> USE DEF RoomInv, CallTypes, CallType, IdTypes
<1>1. PICK i : i = call[k].id
  OBVIOUS
<1>2. call[k].pc = "publish" /\ i \in saved \ sent
  BY <1>1 DEF PublishChange, CallsFollow
<1>4. /\ sent' = sent \cup {i} /\ late' = late \cup Overtaken(i, sent)
      /\ stream' = IF streaming = "yes" THEN Append(stream, i) ELSE stream
      /\ UNCHANGED <<seq, saved, listed, trimmed>> /\ call' = [call EXCEPT ![k].pc = "done"]
  BY <1>1 DEF PublishChange
<1>5. call' \in [Publications -> CallType]
        /\ \A l \in Publications : /\ call'[l].id = call[l].id
                            /\ call'[l].pc = IF l = k THEN "done" ELSE call[l].pc
  BY <1>4
<1>6. CallTypes' /\ IdTypes'
  BY <1>2, <1>4, <1>5
<1>7. CallsFollow'
  BY <1>1, <1>2, <1>4, <1>5 DEF CallsFollow
<1> QED BY <1>1, <1>2, <1>4, <1>6, <1>7 DEF Publishes

\* A call is killed.
LEMMA KillPublisherStep ==
    ASSUME RoomInv, NEW k \in Publications, KillPublisher(k)
    PROVE  RoomInv' /\ UNCHANGED <<saved, sent, late, trimmed>>
<1> USE DEF RoomInv, CallTypes, CallType, IdTypes
<1>1. call[k].pc # "new" /\ UNCHANGED <<seq, saved, sent, late, trimmed, listed>>
      /\ call' = [call EXCEPT ![k].pc = "killed"]
  BY DEF KillPublisher
<1>2. call' \in [Publications -> CallType]
        /\ \A l \in Publications : /\ call'[l].id = call[l].id
                            /\ call'[l].pc = IF l = k THEN "killed" ELSE call[l].pc
  BY <1>1
<1>3. CallTypes' /\ IdTypes'
  BY <1>1, <1>2
<1>4. CallsFollow'
  BY <1>1, <1>2 DEF CallsFollow
<1> QED BY <1>1, <1>3, <1>4

\* Other steps leave the room alone.
LEMMA RoomUnchanged ==
    ASSUME RoomInv, UNCHANGED <<call, seq, listed, saved, sent, trimmed>>
    PROVE  RoomInv'
BY DEF RoomInv, CallTypes, IdTypes, CallsFollow

(* What a step does to a client that it does not serve *)

\* A client stays where it was in its session, within what comes before the list or
\* in whole, or leaves.
Stays(c) ==
    \/ visit'[c] = visit[c]
    \/ /\ visit'[c].last = visit[c].last
       /\ visit[c].pc \in EarlyPcs /\ visit'[c].pc \in EarlyPcs
    \/ visit'[c].pc = "away"

Quiet(c) ==
    /\ got'[c] = got[c] /\ cursor'[c] = cursor[c] /\ start'[c] = start[c]
    /\ Stays(c)
    /\ queue'[c] = queue[c] \/ (queue'[c] = <<>> /\ visit'[c].pc # "take")
    /\ UNCHANGED <<saved, sent, late, trimmed>>
    /\ OnStream' \subseteq OnStream
    /\ stale' = "no" => stale = "no"
    /\ stale' = "no" /\ visit'[c].pc = "take" /\ c \in registered' =>
        c \in registered /\ OnStream \subseteq OnStream'

\* A step that does not serve a client keeps what holds of it.
LEMMA QuietStep ==
    ASSUME NEW c \in Clients, ClientFollows(c), IdTypes, Quiet(c)
    PROVE  ClientFollows(c)'
<1> USE DEF ClientFollows
<1>1. Received(c)' = Received(c) /\ InQueue(c)' \subseteq InQueue(c)
      /\ (visit'[c].pc = "take" => visit'[c] = visit[c] /\ queue'[c] = queue[c] /\ InQueue(c)' = InQueue(c))
  BY DEF Quiet, Stays, EarlyPcs, Received, InQueue, Range
<1>2. QueueFollows(c)'
  <2>1. Ordered(<<>>, late)
    BY DEF Ordered
  <2>2. Ordered(queue'[c], late')
    BY <2>1 DEF Quiet, QueueFollows
  <2> QED BY <1>1, <2>2 DEF Quiet, QueueFollows
<1>3. GotFollows(c)'
  BY <1>1 DEF Quiet, GotFollows
<1>4. VisitFollows(c)'
  <2>1. visit'[c].pc \in EarlyPcs => visit'[c].last = cursor'[c]
    BY DEF Quiet, Stays, VisitFollows, EarlyPcs
  <2>2. ASSUME visit'[c].pc = "take"
        PROVE  /\ start'[c] # {} => visit'[c].last # {}
               /\ \A l \in visit'[c].last : \E m \in cursor'[c] : l <= m
               /\ \A x \in Received(c)' : IsNew(c, x)' => x \in sent'
               /\ \A x \in Received(c)', y \in InQueue(c)' \cup OnStream' :
                    IsNew(c, y)' => Follows(x, y, late')
    <3>1. visit[c].pc = "take" /\ \A y : IsNew(c, y)' = IsNew(c, y)
      BY <1>1, <2>2 DEF IsNew
    <3> QED BY <1>1, <2>2, <3>1 DEF Quiet, VisitFollows
  <2> QED BY <2>1, <2>2 DEF VisitFollows
<1>5. ASSUME stale' = "no" PROVE Covered(c)'
  BY <1>1, <1>5 DEF Quiet, Covered, Excused
<1>6. ASSUME stale' = "no" PROVE Promised(c)'
  <2> SUFFICES ASSUME visit'[c].pc = "take", visit'[c].left > 0, start'[c] # {},
                      NEW j \in saved', IsNew(c, j)', j \notin Received(c)', ~Excused(j)',
                      j \in sent'
               PROVE  Coming(c, j)'
    BY DEF Promised
  <2>1. visit[c].pc = "take" /\ visit[c].left > 0 /\ start[c] # {} /\ IsNew(c, j)
        /\ j \in saved /\ j \notin Received(c) /\ ~Excused(j) /\ j \in sent
    BY <1>1 DEF Quiet, IsNew, Excused
  <2>2. Coming(c, j)
    BY <1>6, <2>1 DEF Quiet, Promised
  <2>3. CASE j \in InQueue(c)
    BY <1>1, <2>3 DEF Coming
  <2>4. CASE c \in registered /\ j \in OnStream
    <3>1. CASE c \in registered'
      BY <1>6, <2>4, <3>1 DEF Quiet, Coming
    <3>2. CASE c \notin registered'
      <4>1. \A x \in InQueue(c) \cup Received(c) : Follows(x, j, late)
        BY <2>1, <2>4 DEF QueueFollows, VisitFollows
      <4>2. \A x \in InQueue(c) \cup Received(c) : x < j
        BY <2>1, <4>1 DEF Follows, Excused
      <4> QED BY <1>1, <3>2, <4>2 DEF Coming
    <3> QED BY <3>1, <3>2
  <2>5. CASE c \notin registered /\ \A x \in InQueue(c) \cup Received(c) : x < j
    BY <1>1, <1>6, <2>5 DEF Quiet, Coming
  <2> QED BY <2>2, <2>3, <2>4, <2>5 DEF Coming
<1> QED BY <1>2, <1>3, <1>4, <1>5, <1>6

\* A change is saved.
LEMMA SavesStep ==
    ASSUME NEW c \in Clients, NEW i, ClientFollows(c), IdTypes, HistoryTypes, SavesId(i),
           UNCHANGED <<connVars, listenerVars, clientVars, stale>>
    PROVE  ClientFollows(c)'
<1> USE DEF ClientFollows, connVars, listenerVars, clientVars
<1>1. Received(c)' = Received(c) /\ InQueue(c)' = InQueue(c) /\ OnStream' = OnStream
      /\ \A y : IsNew(c, y)' = IsNew(c, y)
  BY DEF Received, InQueue, OnStream, IsNew, Range
<1>2. late \subseteq late' /\ \A x, y : Follows(x, y, late) => Follows(x, y, late')
  BY DEF SavesId, Follows
<1>3. QueueFollows(c)'
  <2>1. Ordered(queue'[c], late')
    BY <1>2, OrderedGrows DEF QueueFollows
  <2> QED BY <1>1, <1>2, <2>1 DEF QueueFollows, SavesId
<1>4. GotFollows(c)'
  <2>1. Ordered(got'[c], late')
    BY <1>2, OrderedGrows DEF GotFollows
  <2> QED BY <1>1, <2>1 DEF GotFollows, SavesId
<1>5. VisitFollows(c)'
  BY <1>1, <1>2 DEF VisitFollows, SavesId
<1>6. ASSUME stale' = "no" PROVE Covered(c)'
  <2> SUFFICES ASSUME NEW m \in cursor[c], NEW j \in saved', NEW s \in start[c], s < j, j < m
               PROVE  j \in Received(c) \/ Excused(j)' \/ (j \notin sent' /\ \E l \in sent' : l > j)
    BY <1>1 DEF Covered
  <2>1. CASE j \in saved
    BY <1>2, <1>6, <2>1 DEF Covered, Excused, SavesId
  <2>2. CASE j = i
    <3>1. m # 0
      BY <2>2 DEF SavesId, IdTypes, HistoryTypes
    <3>2. m \in saved
      BY <3>1 DEF GotFollows
    <3>3. i \in Overtaken(i, saved)
      BY <2>2, <3>2 DEF Overtaken, IdTypes, SavesId, HistoryTypes
    <3> QED BY <2>2, <3>3 DEF SavesId, Excused
  <2> QED BY <2>1, <2>2 DEF SavesId
<1>7. ASSUME stale' = "no" PROVE Promised(c)'
  <2> SUFFICES ASSUME visit[c].pc = "take", visit[c].left > 0, start[c] # {},
                      NEW j \in saved', IsNew(c, j), j \notin Received(c), ~Excused(j)',
                      j \in sent'
               PROVE  Coming(c, j)
    BY <1>1 DEF Promised, Coming
  <2>1. j \in saved /\ j \in sent /\ ~Excused(j)
    BY <1>2 DEF SavesId, IdTypes, Excused
  <2> QED BY <1>7, <2>1 DEF Promised
<1> QED BY <1>3, <1>4, <1>5, <1>6, <1>7

\* A change is published.
LEMMA PublishesStep ==
    ASSUME NEW c \in Clients, NEW i, ClientFollows(c), IdTypes, ConnInv, VisitTypes, HistoryTypes,
           Publishes(i), UNCHANGED <<listenerVars, clientVars, stale>>
    PROVE  ClientFollows(c)'
<1> USE DEF ClientFollows, listenerVars, clientVars
<1>1. Received(c)' = Received(c) /\ InQueue(c)' = InQueue(c)
      /\ \A y : IsNew(c, y)' = IsNew(c, y)
  BY DEF Received, InQueue, IsNew, Range
<1>2. late \subseteq late' /\ \A x, y : Follows(x, y, late) => Follows(x, y, late')
  BY DEF Publishes, Follows
<1>3. i \in Nat /\ i # Confirmation /\ i \in saved /\ i \notin sent /\ sent \subseteq Nat
      /\ Received(c) \subseteq Nat
  <2>1. saved \subseteq 1..seq /\ seq \in Nat /\ sent \subseteq saved
    BY DEF IdTypes
  <2>2. \A x \in 1..seq : x \in Nat /\ x # 0
    BY <2>1
  <2> QED BY <2>1, <2>2 DEF Publishes, Confirmation, GotFollows
<1>4. \A x \in sent : Follows(x, i, late')
  <2> SUFFICES ASSUME NEW x \in sent PROVE Follows(x, i, late')
    OBVIOUS
  <2>1. x # i /\ (x < i \/ x > i)
    BY <1>3
  <2>2. x > i => i \in late'
    BY DEF Publishes, Overtaken
  <2> QED BY <2>1, <2>2 DEF Follows
<1>5. OnStream' \subseteq OnStream \cup {i} /\ OnStream \subseteq OnStream'
      /\ (streaming = "yes" => i \in OnStream')
  <2>1. stream \in Seq(Nat) /\ Range(Append(stream, i)) = Range(stream) \cup {i}
    <3>1. stream \in Seq(Nat) /\ Ordered(<<>>, {})
      BY DEF ConnInv, ConnTypes, Ordered
    <3>2. stream \in Seq(Nat) /\ Ordered(stream, late')
      BY <1>2, OrderedGrows DEF ConnInv, ConnTypes, StreamFollows
    <3>3. \A x \in Range(stream) \ {Confirmation} : Follows(x, i, late')
      BY <1>4 DEF ConnInv, StreamFollows, OnStream
    <3> QED BY <1>3, <3>2, <3>3, OrderedAppend
  <2> QED BY <1>3, <2>1 DEF Publishes, OnStream
<1>6. QueueFollows(c)'
  <2>1. Ordered(queue'[c], late')
    BY <1>2, OrderedGrows DEF QueueFollows
  <2>2. \A x \in InQueue(c), y \in OnStream \cup {i} : Follows(x, y, late')
    BY <1>2, <1>4 DEF QueueFollows
  <2> QED BY <1>1, <1>5, <2>1, <2>2 DEF QueueFollows, Publishes
<1>7. GotFollows(c)'
  <2>1. Ordered(got'[c], late')
    BY <1>2, OrderedGrows DEF GotFollows
  <2> QED BY <1>1, <2>1 DEF GotFollows, Publishes
<1>a. ASSUME visit[c].pc = "take", NEW x \in Received(c), IsNew(c, i)
      PROVE  Follows(x, i, late')
  <2>1. CASE x \in sent
    BY <1>4, <2>1
  <2>2. CASE x \notin sent
    <3>1. PICK l \in visit[c].last : ~(x > l)
      BY <1>a, <2>2 DEF VisitFollows, IsNew
    <3>2. i > l
      BY <1>a DEF IsNew
    <3>3. PICK m \in cursor[c] : l <= m
      BY <1>a DEF VisitFollows
    <3>4. x < i
      BY <1>3, <3>1, <3>2 DEF HistoryTypes, VisitTypes, VisitType
    <3> QED BY <3>4 DEF Follows
  <2> QED BY <2>1, <2>2
<1>8. VisitFollows(c)'
  <2>2. visit'[c].pc \in EarlyPcs => visit'[c].last = cursor'[c]
    BY DEF VisitFollows
  <2>3. ASSUME visit[c].pc = "take"
        PROVE  /\ start[c] # {} => visit[c].last # {}
               /\ \A l \in visit[c].last : \E m \in cursor[c] : l <= m
               /\ \A x \in Received(c) : IsNew(c, x) => x \in sent'
               /\ \A x \in Received(c), y \in InQueue(c) \cup OnStream' :
                    IsNew(c, y) => Follows(x, y, late')
    <3>1. \A x \in Received(c) : IsNew(c, x) => x \in sent'
      BY <2>3 DEF VisitFollows, Publishes
    <3>2. \A x \in Received(c), y \in InQueue(c) \cup OnStream \cup {i} :
                    IsNew(c, y) => Follows(x, y, late')
      BY <1>2, <1>a, <2>3 DEF VisitFollows
    <3> QED BY <1>5, <2>3, <3>1, <3>2 DEF VisitFollows
  <2> QED BY <1>1, <2>2, <2>3 DEF VisitFollows
<1>9. ASSUME stale' = "no" PROVE Covered(c)'
  <2> SUFFICES ASSUME NEW m \in cursor[c], NEW j \in saved, NEW s \in start[c], s < j, j < m,
                      j \notin Received(c), ~Excused(j)'
               PROVE  j \notin sent' /\ \E l \in sent' : l > j
    BY <1>1 DEF Covered, Publishes
  <2>1. ~Excused(j)
    BY <1>2 DEF Excused, Publishes
  <2>2. j \notin sent /\ \E l \in sent : l > j
    BY <1>9, <2>1 DEF Covered
  <2>3. j # i
    BY <2>2 DEF Excused, Publishes, Overtaken
  <2> QED BY <2>2, <2>3 DEF Publishes
<1>10. ASSUME stale' = "no" PROVE Promised(c)'
  <2> SUFFICES ASSUME visit[c].pc = "take", visit[c].left > 0, start[c] # {},
                      NEW j \in saved, IsNew(c, j), j \notin Received(c), ~Excused(j)',
                      j \in sent'
               PROVE  Coming(c, j)'
    BY <1>1 DEF Promised, Publishes
  <2>1. ~Excused(j)
    BY <1>2 DEF Excused, Publishes
  <2>2. CASE j # i
    <3>1. Coming(c, j)
      BY <1>10, <2>1, <2>2 DEF Promised, Publishes
    <3> QED BY <1>1, <1>5, <3>1 DEF Coming
  <2>3. CASE j = i /\ c \in registered
    <3>1. event = "set"
      BY <2>3 DEF ConnInv, ConnFollows
    <3>2. streaming = "yes"
      BY <1>10, <3>1 DEF ConnInv, ConnFollows
    <3> QED BY <1>5, <2>3, <3>2 DEF Coming
  <2>4. CASE j = i /\ c \notin registered
    <3>1. \A x \in sent : x < i
      <4>1. ~(i \in late')
        BY <2>4 DEF Excused
      <4> QED BY <1>4, <4>1 DEF Follows
    <3>2. \A x \in InQueue(c) : x < i
      BY <3>1 DEF QueueFollows
    <3>3. \A x \in Received(c) : x < i
      <4>1. \A x \in Received(c) : Follows(x, i, late')
        BY <1>a, <2>4
      <4> QED BY <2>4, <4>1 DEF Follows, Excused
    <3> QED BY <1>1, <2>4, <3>2, <3>3 DEF Coming
  <2> QED BY <2>2, <2>3, <2>4
<1> QED BY <1>6, <1>7, <1>8, <1>9, <1>10

\* Ids are positive.
LEMMA IdsAreNat ==
    ASSUME IdTypes
    PROVE  /\ seq \in Nat /\ saved \subseteq 0..seq /\ saved \subseteq Nat /\ 0 \notin saved
           /\ sent \subseteq saved /\ listed \subseteq 0..seq
<1>1. seq \in Nat /\ saved \subseteq 1..seq /\ sent \subseteq saved /\ listed \subseteq saved
  BY DEF IdTypes
<1>2. \A x \in 1..seq : x \in Nat /\ x # 0 /\ x \in 0..seq
  BY <1>1
<1> QED BY <1>1, <1>2

\* The client receives newer ids of the list, or one from its queue.
LEMMA DeliverStep ==
    ASSUME NEW c \in Clients, NEW ids, IdTypes, HistoryTypes, GotFollows(c),
           Deliver(c, ids), ids \subseteq saved,
           \A x \in Received(c), y \in ids : Follows(x, y, late),
           UNCHANGED <<saved, late>>, start'[c] = start[c] \/ start'[c] = cursor[c]
    PROVE  /\ HistoryTypes' <=> start' \in [Clients -> SUBSET Nat]
           /\ GotFollows(c)'
           /\ Received(c)' = Received(c) \cup ids
           /\ cursor'[c] = cursor[c] \/ \E m \in ids : cursor'[c] = {m}
           /\ \A l \in cursor[c] : \E m \in cursor'[c] : l <= m
           /\ \A d \in Clients \ {c} : got'[d] = got[d] /\ cursor'[d] = cursor[d]
<1>0. /\ seq \in Nat /\ saved \subseteq 0..seq /\ saved \subseteq Nat /\ 0 \notin saved
  BY IdsAreNat
<1>1. /\ InIdOrder(ids) \in Seq(Nat) /\ Range(InIdOrder(ids)) = ids
      /\ \A k, l \in DOMAIN InIdOrder(ids) : k < l => InIdOrder(ids)[k] < InIdOrder(ids)[l]
  <2>1. ids \subseteq 0..seq
    BY <1>0
  <2> QED BY <1>0, <2>1, InIdOrderSound
<1>2. Ordered(InIdOrder(ids), late)
  BY <1>1 DEF Ordered, Follows
<1>3. got[c] \in Seq(Nat) /\ cursor[c] \in SUBSET Nat /\ Ordered(got[c], late)
  BY DEF HistoryTypes, GotFollows
<1>4. PICK g : g = got[c] \o InIdOrder(ids)
  OBVIOUS
<1>5. g \in Seq(Nat) /\ Range(g) = Received(c) \cup ids /\ Ordered(g, late)
  BY <1>1, <1>2, <1>3, <1>4, OrderedConcat DEF Received
<1>6. PICK m : m = IF cursor[c] \cup ids = {} THEN {} ELSE {Max(cursor[c] \cup ids)}
  OBVIOUS
<1>7. got' = [got EXCEPT ![c] = g] /\ cursor' = [cursor EXCEPT ![c] = m]
  BY <1>4, <1>6 DEF Deliver
<1>8. /\ got'[c] = g /\ cursor'[c] = m
      /\ \A d \in Clients \ {c} : got'[d] = got[d] /\ cursor'[d] = cursor[d]
  BY <1>7 DEF HistoryTypes
<1>9. Received(c)' = Received(c) \cup ids
  BY <1>5, <1>8 DEF Received
<1>10. CASE ids = {}
  <2>1. m = cursor[c]
    <3>1. CASE cursor[c] = {}
      BY <1>6, <1>10, <3>1
    <3>2. CASE cursor[c] # {}
      <4>1. PICK x : x \in cursor[c]
        BY <3>2
      <4>2. cursor[c] = {x} /\ x \in Nat
        BY <1>3, <4>1 DEF GotFollows
      <4>3. Max({x}) = x
        BY <4>2, GreatestIs
      <4> QED BY <1>6, <1>10, <4>2, <4>3
    <3> QED BY <3>1, <3>2
  <2>2. \A l \in cursor[c] : l <= l
    BY <1>3
  <2>3. HistoryTypes' <=> start' \in [Clients -> SUBSET Nat]
    BY <1>3, <1>5, <1>7, <2>1 DEF HistoryTypes
  <2>4. GotFollows(c)'
    BY <1>5, <1>8, <1>9, <1>10, <2>1 DEF GotFollows
  <2> QED BY <1>8, <1>9, <1>10, <2>1, <2>2, <2>3, <2>4
<1>11. CASE ids # {}
  <2>1. PICK n \in Nat : cursor[c] \cup ids \subseteq 0..n
    <3>1. \A x \in cursor[c] : x \in 0..seq
      BY <1>0 DEF GotFollows
    <3> QED BY <1>0, <3>1
  <2>2. PICK x : x = Max(cursor[c] \cup ids)
    OBVIOUS
  <2>3. m = {x} /\ x \in cursor[c] \cup ids /\ \A y \in cursor[c] \cup ids : y <= x
    BY <1>6, <1>11, <2>1, <2>2, Greatest
  <2>4. x \in Nat
    BY <1>0, <1>3, <2>3
  <2>5. m = cursor[c] \/ \E l \in ids : m = {l}
    BY <2>3 DEF GotFollows
  <2>6. HistoryTypes' <=> start' \in [Clients -> SUBSET Nat]
    BY <1>3, <1>5, <1>7, <2>3, <2>4 DEF HistoryTypes
  <2>7. Received(c)' \subseteq saved' /\ Ordered(got'[c], late')
    BY <1>5, <1>8, <1>9 DEF GotFollows
  <2>8. \A y \in Received(c) \cup ids : y <= x
    <3> SUFFICES ASSUME NEW y \in Received(c) PROVE y <= x
      BY <2>3
    <3>1. PICK l \in cursor[c] : y <= l
      BY DEF GotFollows
    <3>2. y \in Nat /\ l \in Nat /\ l <= x
      BY <1>0, <1>3, <2>3 DEF GotFollows
    <3> QED BY <2>4, <3>1, <3>2
  <2>9. x = 0 \/ x \in Received(c) \cup ids
    BY <2>3 DEF GotFollows
  <2>10. GotFollows(c)'
    BY <1>8, <1>9, <2>3, <2>7, <2>8, <2>9 DEF GotFollows
  <2> QED BY <1>8, <1>9, <2>3, <2>5, <2>6, <2>10
<1> QED BY <1>10, <1>11

\* What the list holds after the cursor leaves no gap.
LEMMA ListLeavesNoGap ==
    ASSUME NEW c \in Clients, NEW n \in Nat, NEW ids, IdTypes, HistoryTypes, GotFollows(c),
           ids = Newer(cursor[c], n), cursor[c] # {}
    PROVE  /\ ids \subseteq saved
           /\ \A x \in Received(c), y \in ids : x < y
           /\ \A i \in saved, m \in ids, l \in cursor[c] :
                l < i /\ i < m => i \in ids \/ i \in trimmed
           /\ Cardinality(ids) < n =>
                \A i \in saved, l \in cursor[c] : l < i => i \in ids \/ i \in trimmed
<1>0. /\ seq \in Nat /\ saved \subseteq Nat /\ listed \subseteq 0..seq /\ cursor[c] \subseteq Nat
  BY IdsAreNat DEF HistoryTypes
<1>1. /\ ids \subseteq AfterIn(listed, cursor[c])
      /\ \A i \in ids, j \in AfterIn(listed, cursor[c]) : j < i => j \in ids
      /\ Cardinality(ids) < n => ids = AfterIn(listed, cursor[c])
  BY <1>0, NewerSound
<1>2. \A i \in saved, l \in cursor[c] :
        l < i => i \in AfterIn(listed, cursor[c]) \/ i \in trimmed
  BY <1>0 DEF AfterIn, IdTypes, GotFollows
<1>3. ids \subseteq saved
  BY <1>1 DEF AfterIn, IdTypes
<1>4. ASSUME NEW x \in Received(c), NEW y \in ids PROVE x < y
  <2>1. PICK m \in cursor[c] : x <= m
    BY DEF GotFollows
  <2>2. y > m
    BY <1>1 DEF AfterIn
  <2>3. x \in Nat /\ y \in Nat /\ m \in Nat
    BY <1>0, <1>3 DEF GotFollows
  <2> QED BY <2>1, <2>2, <2>3
<1> QED BY <1>1, <1>2, <1>3, <1>4

\* The list fills what lies between the cursor and the last id it gives.
LEMMA CoveredByList ==
    ASSUME NEW c \in Clients, NEW n \in Nat, NEW ids, IdTypes, HistoryTypes, GotFollows(c),
           ids = Newer(cursor[c], n), cursor[c] # {}, Covered(c),
           Received(c)' = Received(c) \cup ids,
           cursor'[c] = cursor[c] \/ \E m \in ids : cursor'[c] = {m},
           UNCHANGED <<saved, sent, late, trimmed>>,
           start'[c] = start[c] \/ (start[c] = {} /\ start'[c] = cursor[c])
    PROVE  Covered(c)'
<1> SUFFICES ASSUME NEW m \in cursor'[c], NEW i \in saved, NEW s \in start'[c], s < i, i < m,
                    i \notin Received(c), i \notin ids, ~Excused(i)
             PROVE  i \notin sent /\ \E j \in sent : j > i
  BY DEF Covered, Excused
<1>0. saved \subseteq Nat /\ cursor[c] \subseteq Nat /\ 0 \notin saved
  BY IdsAreNat DEF HistoryTypes
<1>1. /\ ids \subseteq saved
      /\ \A j \in saved, k \in ids, l \in cursor[c] :
                l < j /\ j < k => j \in ids \/ j \in trimmed
  BY ListLeavesNoGap
<1>2. PICK l \in cursor[c] : TRUE
  OBVIOUS
<1>3. ~(l < i)
  <2> SUFFICES ASSUME l < i PROVE FALSE
    OBVIOUS
  <2>1. CASE m \in ids
    BY <1>1, <2>1 DEF Excused
  <2>2. CASE cursor'[c] = cursor[c]
    <3>1. m = l /\ l \in Nat /\ i \in Nat
      BY <1>0, <2>2 DEF GotFollows
    <3> QED BY <3>1
  <2> QED BY <2>1, <2>2
<1>4. i < l
  <2>1. i # l
    BY <1>0 DEF GotFollows
  <2> QED BY <1>0, <1>3, <2>1
<1>5. s \in start[c]
  <2>1. s # l
    BY <1>0, <1>3
  <2> QED BY <2>1 DEF GotFollows
<1> QED BY <1>4, <1>5 DEF Covered

\* A request keeps what holds of its client.
LEMMA RequestFollows ==
    ASSUME NEW c \in Clients, IdTypes, HistoryTypes, VisitTypes, ClientFollows(c), Request(c)
    PROVE  /\ HistoryTypes' /\ VisitTypes' /\ ClientFollows(c)'
           /\ \A d \in Clients \ {c} : /\ got'[d] = got[d] /\ cursor'[d] = cursor[d]
                                       /\ start'[d] = start[d] /\ visit'[d] = visit[d]
           /\ visit'[c].pc \notin {"read", "take"}
<1> USE DEF ClientFollows
<1>1. PICK found : found = IF c \in Pollers /\ cursor[c] # {} THEN Newer(cursor[c], 1) ELSE {}
  OBVIOUS
<1>2. PICK v : v = [Away EXCEPT !.pc = "subscribe", !.last = cursor[c]]
  OBVIOUS
<1>3. /\ Deliver(c, found)
      /\ visit' = IF found # {} THEN visit ELSE [visit EXCEPT ![c] = v]
      /\ start' = IF start[c] = {} THEN [start EXCEPT ![c] = cursor[c]] ELSE start
      /\ visit[c].pc = "away"
      /\ UNCHANGED <<publishVars, connVars, listenerVars>>
  BY <1>1, <1>2 DEF Request, faultVars
<1>4. cursor[c] \in SUBSET Nat /\ start[c] \in SUBSET Nat
  BY DEF HistoryTypes
<1>5. v \in VisitType /\ v.pc = "subscribe" /\ v.last = cursor[c]
  <2>1. v = [pc |-> "subscribe", last |-> cursor[c], left |-> 0, try |-> 1]
    BY <1>2 DEF Away
  <2> QED BY <1>4, <2>1 DEF VisitType, VisitPcs
<1>6. /\ VisitTypes' /\ \A d \in Clients \ {c} : visit'[d] = visit[d]
      /\ visit'[c] = IF found # {} THEN visit[c] ELSE v
  BY <1>3, <1>5 DEF VisitTypes
<1>7. /\ start' \in [Clients -> SUBSET Nat]
      /\ \A d \in Clients \ {c} : start'[d] = start[d]
      /\ start'[c] = IF start[c] = {} THEN cursor[c] ELSE start[c]
  BY <1>3, <1>4 DEF HistoryTypes
<1>8. /\ cursor[c] # {} \/ found = {}
      /\ found \subseteq saved /\ \A x \in Received(c), y \in found : Follows(x, y, late)
  <2>1. CASE found = {}
    BY <2>1
  <2>2. CASE found # {}
    <3>1. found = Newer(cursor[c], 1) /\ cursor[c] # {}
      BY <1>1, <2>2
    <3>2. found \subseteq saved /\ \A x \in Received(c), y \in found : x < y
      BY <3>1, ListLeavesNoGap
    <3> QED BY <3>1, <3>2 DEF Follows
  <2> QED BY <2>1, <2>2
<1>9. /\ HistoryTypes' /\ GotFollows(c)' /\ Received(c)' = Received(c) \cup found
      /\ cursor'[c] = cursor[c] \/ \E m \in found : cursor'[c] = {m}
      /\ \A d \in Clients \ {c} : got'[d] = got[d] /\ cursor'[d] = cursor[d]
  BY <1>3, <1>7, <1>8, DeliverStep DEF publishVars
<1>10. QueueFollows(c)'
  BY <1>3 DEF QueueFollows, InQueue, OnStream, publishVars, connVars, listenerVars
<1>11. VisitFollows(c)'
  BY <1>3, <1>5, <1>6, <1>9 DEF VisitFollows, EarlyPcs
<1>12. ASSUME stale' = "no", stale = "no" PROVE Covered(c)'
  <2>1. CASE found = Newer(cursor[c], 1) /\ cursor[c] # {}
    BY <1>3, <1>7, <1>9, <1>12, <2>1, CoveredByList DEF publishVars
  <2>2. CASE found = {}
    <3>1. cursor'[c] = cursor[c] /\ Received(c)' = Received(c)
      BY <1>9, <2>2
    <3>2. CASE start'[c] = start[c]
      BY <1>3, <1>12, <3>1, <3>2 DEF Covered, Excused, publishVars
    <3>3. CASE start'[c] = cursor[c]
      <4>1. \A m \in cursor[c], s \in cursor[c], i \in saved : ~(s < i /\ i < m)
        <5> SUFFICES ASSUME NEW m \in cursor[c], NEW s \in cursor[c], NEW i \in saved,
                            s < i, i < m
                     PROVE  FALSE
          OBVIOUS
        <5>1. s = m /\ i \in Nat /\ m \in Nat
          BY <1>4, IdsAreNat DEF GotFollows
        <5> QED BY <5>1
      <4> QED BY <1>3, <3>1, <3>3, <4>1 DEF Covered, publishVars
    <3> QED BY <1>7, <3>2, <3>3
  <2> QED BY <1>1, <2>1, <2>2
<1>13. visit'[c].pc \notin {"read", "take"}
  BY <1>3, <1>5, <1>6
<1>14. stale' = stale
  BY DEF Request, faultVars
<1> QED BY <1>6, <1>7, <1>9, <1>10, <1>11, <1>12, <1>13, <1>14 DEF Promised

\* The room in a queue is a number.
LEMMA MaxSizeIsNat ==
    ASSUME NEW c \in Clients
    PROVE  MaxSize(c) \in Nat
BY ChannelsAssumption DEF MaxSize

\* A client reads the list: from here on the stream must bring what it misses.
LEMMA ReadDatabaseFollows ==
    ASSUME NEW c \in Clients, IdTypes, HistoryTypes, VisitTypes, ClientFollows(c), OnStream \subseteq sent,
           ReadDatabase(c)
    PROVE  /\ HistoryTypes' /\ VisitTypes' /\ ClientFollows(c)'
           /\ \A d \in Clients \ {c} : /\ got'[d] = got[d] /\ cursor'[d] = cursor[d]
                                       /\ start'[d] = start[d] /\ visit'[d] = visit[d]
<1> USE DEF ClientFollows
<1>0. /\ visit[c].pc = "read" /\ visit[c].last = cursor[c] /\ cursor[c] \in SUBSET Nat
      /\ saved \subseteq Nat /\ seq \in Nat /\ saved \subseteq 0..seq /\ sent \subseteq saved
  BY IdsAreNat DEF ReadDatabase, VisitFollows, EarlyPcs, HistoryTypes
<1>1. PICK found : found = IF cursor[c] = {} THEN {} ELSE Newer(cursor[c], MaxSize(c))
  OBVIOUS
<1>2. PICK last : last = IF found = {} THEN cursor[c] ELSE {Max(found)}
  OBVIOUS
<1>3. PICK left : left = MaxSize(c) - Cardinality(found)
  OBVIOUS
<1>4. /\ Deliver(c, found)
      /\ visit' = [visit EXCEPT ![c].pc = "take", ![c].last = last, ![c].left = left]
      /\ UNCHANGED <<publishVars, connVars, listenerVars, start, stale>>
  BY <1>0, <1>1, <1>2, <1>3 DEF ReadDatabase, faultVars
<1>5. /\ cursor[c] # {} \/ found = {}
      /\ found \subseteq saved /\ \A x \in Received(c), y \in found : x < y
  <2>1. CASE found = {}
    BY <2>1
  <2>2. CASE found # {}
    <3>1. found = Newer(cursor[c], MaxSize(c)) /\ cursor[c] # {}
      BY <1>1, <2>2
    <3>2. found \subseteq saved /\ \A x \in Received(c), y \in found : x < y
      BY <3>1, MaxSizeIsNat, ListLeavesNoGap
    <3> QED BY <3>1, <3>2
  <2> QED BY <2>1, <2>2
<1>6. /\ HistoryTypes' /\ GotFollows(c)' /\ Received(c)' = Received(c) \cup found
      /\ cursor'[c] = cursor[c] \/ \E m \in found : cursor'[c] = {m}
      /\ \A l \in cursor[c] : \E m \in cursor'[c] : l <= m
      /\ \A d \in Clients \ {c} : got'[d] = got[d] /\ cursor'[d] = cursor[d]
  <2>1. \A x \in Received(c), y \in found : Follows(x, y, late)
    BY <1>5 DEF Follows
  <2>2. start' \in [Clients -> SUBSET Nat] /\ start'[c] = start[c]
    BY <1>4 DEF HistoryTypes
  <2> QED BY <1>4, <1>5, <2>1, <2>2, DeliverStep DEF publishVars
<1>7. Cardinality(found) \in Nat /\ left \in Int /\ (left > 0 => Cardinality(found) < MaxSize(c))
  <2>1. found \subseteq 0..seq
    BY <1>0, <1>5
  <2>2. Cardinality(found) \in Nat
    BY <1>0, <2>1, BoundedIds
  <2> QED BY <1>3, <2>2, MaxSizeIsNat
<1>8. found # {} => Max(found) \in found /\ \A y \in found : y <= Max(found)
  <2>1. found \subseteq 0..seq
    BY <1>0, <1>5
  <2> QED BY <1>0, <2>1, Greatest
<1>9. last \in SUBSET Nat
  BY <1>0, <1>2, <1>5, <1>8
<1>10. /\ VisitTypes' /\ \A d \in Clients \ {c} : visit'[d] = visit[d]
       /\ visit'[c].pc = "take" /\ visit'[c].last = last /\ visit'[c].left = left
  BY <1>4, <1>7, <1>9 DEF VisitTypes, VisitType, VisitPcs
<1>11. \A x \in Received(c) \cup found : \E l \in last : x <= l
  <2>1. CASE found = {}
    BY <1>2, <2>1 DEF GotFollows
  <2>2. CASE found # {}
    <3>1. last = {Max(found)} /\ Max(found) \in found /\ \A y \in found : y <= Max(found)
      BY <1>2, <1>8, <2>2
    <3>2. \A x \in Received(c) : x < Max(found) /\ x \in Nat /\ Max(found) \in Nat
      BY <1>0, <1>5, <3>1 DEF GotFollows
    <3> QED BY <3>1, <3>2
  <2> QED BY <2>1, <2>2
<1>12. /\ Received(c) \cup found \subseteq Nat
       /\ \A y : IsNew(c, y)' <=> \A l \in last : y > l
  BY <1>0, <1>5, <1>10 DEF GotFollows, IsNew
<1>13. /\ InQueue(c)' = InQueue(c) /\ OnStream' = OnStream
       /\ UNCHANGED <<saved, sent, late, trimmed>> /\ start'[c] = start[c]
  BY <1>4 DEF InQueue, OnStream, publishVars, connVars, listenerVars
<1>14. QueueFollows(c)'
  BY <1>4, <1>13 DEF QueueFollows, listenerVars
<1>15. VisitFollows(c)'
  <2>1. start[c] # {} => last # {}
    BY <1>2 DEF GotFollows
  <2>2. \A l \in last : \E m \in cursor'[c] : l <= m
    <3>1. CASE found = {}
      BY <1>2, <1>6, <3>1
    <3>2. CASE found # {}
      <4>1. Max(found) \in Received(c)'
        BY <1>6, <1>8, <3>2
      <4> QED BY <1>2, <1>6, <3>2, <4>1 DEF GotFollows
    <3> QED BY <3>1, <3>2
  <2>3. ASSUME NEW x \in Received(c) \cup found, NEW y \in Nat, \A l \in last : y > l
        PROVE  x < y
    <3>1. PICK l \in last : x <= l
      BY <1>11
    <3>2. x \in Nat /\ l \in Nat /\ y > l
      BY <1>9, <1>12, <2>3
    <3> QED BY <3>1, <3>2
  <2>4. \A x \in Received(c)' : ~IsNew(c, x)'
    <3> SUFFICES ASSUME NEW x \in Received(c)', IsNew(c, x)' PROVE FALSE
      OBVIOUS
    <3>1. x \in Received(c) \cup found /\ x \in Nat /\ \A l \in last : x > l
      BY <1>6, <1>12
    <3>2. x < x
      BY <2>3, <3>1
    <3> QED BY <3>1, <3>2
  <2>5. \A x \in Received(c)', y \in InQueue(c)' \cup OnStream' :
            IsNew(c, y)' => Follows(x, y, late')
    <3> SUFFICES ASSUME NEW x \in Received(c) \cup found, NEW y \in InQueue(c) \cup OnStream,
                        \A l \in last : y > l, y \in sent
                 PROVE  Follows(x, y, late')
      BY <1>6, <1>12, <1>13, OnStream \subseteq sent DEF QueueFollows
    <3> QED BY <1>0, <2>3 DEF Follows
  <2> QED BY <1>10, <2>1, <2>2, <2>4, <2>5, <1>13 DEF VisitFollows, EarlyPcs
<1>16. ASSUME stale' = "no" PROVE Covered(c)'
  <2>1. stale = "no"
    BY <1>4, <1>16
  <2>2. CASE cursor[c] = {}
    <3>1. found = {} /\ cursor'[c] = {}
      BY <1>1, <1>6, <2>2
    <3> QED BY <3>1 DEF Covered
  <2>3. CASE cursor[c] # {}
    <3>1. found = Newer(cursor[c], MaxSize(c))
      BY <1>1, <2>3
    <3> QED BY <1>6, <1>13, <2>1, <2>3, <3>1, MaxSizeIsNat, CoveredByList
  <2> QED BY <2>2, <2>3
<1>17. ASSUME stale' = "no" PROVE Promised(c)'
  <2> SUFFICES ASSUME left > 0, start[c] # {}, NEW j \in saved, IsNew(c, j)'
               PROVE  j \in Received(c)' \/ Excused(j)'
    BY <1>10, <1>13 DEF Promised
  <2>1. cursor[c] # {} /\ found = Newer(cursor[c], MaxSize(c)) /\ Cardinality(found) < MaxSize(c)
    BY <1>1, <1>7 DEF GotFollows
  <2>2. PICK l \in cursor[c] : TRUE
    BY <2>1
  <2>3. l < j
    <3>1. CASE found = {}
      BY <1>0, <1>2, <1>12, <2>2, <3>1
    <3>2. CASE found # {}
      <4>1. Max(found) \in found /\ j > Max(found) /\ Max(found) > l
        <5>1. Max(found) \in found /\ last = {Max(found)}
          BY <1>2, <1>8, <3>2
        <5>2. Max(found) \in AfterIn(listed, cursor[c])
          BY <1>0, <2>1, <5>1, MaxSizeIsNat, IdsAreNat, NewerSound
        <5> QED BY <1>12, <5>1, <5>2 DEF AfterIn
      <4>2. Max(found) \in Nat /\ j \in Nat /\ l \in Nat
        BY <1>0, <1>5, <4>1
      <4> QED BY <4>1, <4>2
    <3> QED BY <3>1, <3>2
  <2>4. j \in found \/ j \in trimmed
    BY <2>1, <2>3, MaxSizeIsNat, ListLeavesNoGap
  <2> QED BY <1>6, <1>13, <2>4 DEF Excused
<1>18. \A d \in Clients \ {c} : start'[d] = start[d]
  BY <1>4
<1> QED BY <1>6, <1>10, <1>14, <1>15, <1>16, <1>17, <1>18

\* A client takes a message from its queue.
LEMMA TakeFromQueueFollows ==
    ASSUME NEW c \in Clients, IdTypes, HistoryTypes, VisitTypes, QueueTypes, ClientFollows(c),
           OnStream \subseteq sent, TakeFromQueue(c)
    PROVE  /\ HistoryTypes' /\ VisitTypes' /\ QueueTypes' /\ ClientFollows(c)'
           /\ \A d \in Clients \ {c} : /\ got'[d] = got[d] /\ cursor'[d] = cursor[d]
                                       /\ start'[d] = start[d] /\ visit'[d] = visit[d]
                                       /\ queue'[d] = queue[d]
           /\ visit'[c].pc = "take"
<1> USE DEF ClientFollows
<1>0. /\ visit[c].pc = "take" /\ visit[c].left > 0 /\ queue[c] # <<>>
      /\ queue[c] \in Seq(Nat) /\ Ordered(queue[c], late)
      /\ saved \subseteq Nat /\ 0 \notin saved /\ sent \subseteq saved
      /\ visit[c] \in VisitType /\ cursor[c] \in SUBSET Nat
  BY IdsAreNat DEF TakeFromQueue, QueueTypes, QueueFollows, VisitTypes, HistoryTypes
<1>1. PICK i : i = Head(queue[c])
  OBVIOUS
<1>2. PICK rest : rest = Tail(queue[c])
  OBVIOUS
<1>3. /\ rest \in Seq(Nat) /\ i \in Nat /\ Ordered(rest, late)
      /\ InQueue(c) = Range(rest) \cup {i}
      /\ i # Confirmation => \A y \in Range(rest) \ {Confirmation} : Follows(i, y, late)
  BY <1>0, <1>1, <1>2, OrderedTail DEF InQueue
<1>4. InQueue(c) \subseteq sent /\ i \in sent /\ i # Confirmation
      /\ \A y \in Range(rest) \cup OnStream : Follows(i, y, late)
  <2>1. InQueue(c) \subseteq sent /\ i \in InQueue(c)
    BY <1>3 DEF QueueFollows
  <2>2. Confirmation \notin InQueue(c)
    BY <1>0, <2>1 DEF Confirmation
  <2>3. \A y \in OnStream : Follows(i, y, late)
    BY <2>1 DEF QueueFollows
  <2> QED BY <1>3, <2>1, <2>2, <2>3
<1>5. PICK new : new = {x \in {i} : \A l \in visit[c].last : x > l}
  OBVIOUS
<1>6. /\ new \subseteq {i} /\ (i \in new <=> IsNew(c, i))
  BY <1>5 DEF IsNew
<1>7. PICK left : left = visit[c].left - Cardinality(new)
  OBVIOUS
<1>8. left \in Int /\ (left > 0 => visit[c].left > 0)
  BY <1>0, <1>7
<1>9. /\ Deliver(c, new) /\ queue' = [queue EXCEPT ![c] = rest]
      /\ visit' = [visit EXCEPT ![c].left = left]
      /\ UNCHANGED <<publishVars, connVars, event, registered, start, stale>>
  BY <1>1, <1>2, <1>5, <1>7 DEF TakeFromQueue, faultVars
<1>10. /\ VisitTypes' /\ \A d \in Clients \ {c} : visit'[d] = visit[d]
       /\ visit'[c].pc = "take" /\ visit'[c].last = visit[c].last /\ visit'[c].left = left
  BY <1>0, <1>8, <1>9 DEF VisitTypes, VisitType
<1>11. QueueTypes' /\ queue'[c] = rest /\ InQueue(c)' = Range(rest)
       /\ \A d \in Clients \ {c} : queue'[d] = queue[d]
  BY <1>3, <1>9 DEF QueueTypes, InQueue
<1>12. \A x \in Received(c), y \in new : Follows(x, y, late)
  BY <1>0, <1>3, <1>6 DEF VisitFollows
<1>13. /\ HistoryTypes' /\ GotFollows(c)' /\ Received(c)' = Received(c) \cup new
       /\ cursor'[c] = cursor[c] \/ \E m \in new : cursor'[c] = {m}
       /\ \A l \in cursor[c] : \E m \in cursor'[c] : l <= m
       /\ \A d \in Clients \ {c} : got'[d] = got[d] /\ cursor'[d] = cursor[d]
  <2>1. start' \in [Clients -> SUBSET Nat] /\ start'[c] = start[c]
    BY <1>9 DEF HistoryTypes
  <2>2. new \subseteq saved
    BY <1>0, <1>4, <1>6
  <2> QED BY <1>9, <1>12, <2>1, <2>2, DeliverStep DEF publishVars
<1>14. /\ OnStream' = OnStream /\ UNCHANGED <<saved, sent, late, trimmed, registered, stale>>
       /\ start'[c] = start[c] /\ \A y : IsNew(c, y)' <=> IsNew(c, y)
  BY <1>9, <1>10 DEF OnStream, publishVars, connVars, IsNew
<1>15. QueueFollows(c)'
  BY <1>3, <1>4, <1>11, <1>14 DEF QueueFollows
<1>16. VisitFollows(c)'
  <2>1. start'[c] # {} => visit'[c].last # {}
    BY <1>0, <1>10, <1>14 DEF VisitFollows
  <2>2. \A l \in visit'[c].last : \E m \in cursor'[c] : l <= m
    <3> SUFFICES ASSUME NEW l \in visit[c].last PROVE \E m \in cursor'[c] : l <= m
      BY <1>10
    <3>1. PICK k \in cursor[c] : l <= k
      BY <1>0 DEF VisitFollows
    <3>2. PICK m \in cursor'[c] : k <= m
      BY <1>13
    <3>3. l \in Nat /\ k \in Nat /\ m \in Nat
      BY <1>0, <1>13 DEF VisitType, HistoryTypes
    <3> QED BY <3>1, <3>2, <3>3
  <2>3. \A x \in Received(c)' : IsNew(c, x)' => x \in sent'
    BY <1>0, <1>4, <1>6, <1>13, <1>14 DEF VisitFollows
  <2>4. \A x \in Received(c)', y \in InQueue(c)' \cup OnStream' :
            IsNew(c, y)' => Follows(x, y, late')
    <3>1. \A x \in Received(c), y \in InQueue(c) \cup OnStream : IsNew(c, y) => Follows(x, y, late)
      BY <1>0 DEF VisitFollows
    <3>2. \A x \in new, y \in Range(rest) \cup OnStream : Follows(x, y, late)
      BY <1>4, <1>6
    <3> QED BY <1>3, <1>11, <1>13, <1>14, <3>1, <3>2
  <2> QED BY <1>10, <2>1, <2>2, <2>3, <2>4 DEF VisitFollows, EarlyPcs
<1>17. ASSUME stale' = "no" PROVE Covered(c)'
  <2> SUFFICES ASSUME NEW m \in cursor'[c], NEW j \in saved, NEW s \in start[c], s < j, j < m,
                      j \notin Received(c)', ~Excused(j)
               PROVE  j \notin sent /\ \E k \in sent : k > j
    BY <1>14 DEF Covered, Excused
  <2>1. stale = "no" /\ j \notin Received(c)
    BY <1>13, <1>14, <1>17
  <2>2. CASE \E l \in cursor[c] : j < l
    BY <2>1, <2>2 DEF Covered
  <2>3. CASE ~(\E l \in cursor[c] : j < l)
    <3>1. m = i /\ i \in new
      BY <1>6, <1>13, <2>3
    <3>2. \A l \in cursor[c] : j > l
      <4> SUFFICES ASSUME NEW l \in cursor[c] PROVE j > l
        OBVIOUS
      <4>1. j # l
        BY <1>0, <2>1 DEF GotFollows
      <4> QED BY <1>0, <2>3, <4>1
    <3>3. IsNew(c, j)
      <4> SUFFICES ASSUME NEW l \in visit[c].last PROVE j > l
        BY DEF IsNew
      <4>1. PICK k \in cursor[c] : l <= k
        BY <1>0 DEF VisitFollows
      <4>2. j > k /\ j \in Nat /\ k \in Nat /\ l \in Nat
        BY <1>0, <3>2 DEF VisitType
      <4> QED BY <4>1, <4>2
    <3>4. j \notin sent \/ Coming(c, j)
      BY <1>0, <2>1, <3>3 DEF Promised
    <3>5. ~Coming(c, j)
      <4>1. ~Follows(i, j, late)
        BY <1>0, <1>3, <3>1 DEF Follows, Excused
      <4>2. j \notin Range(rest) \cup OnStream /\ j # i /\ ~(i < j)
        <5>1. j # i /\ ~(i < j)
          BY <1>0, <1>3, <3>1
        <5> QED BY <1>4, <4>1, <5>1
      <4> QED BY <1>3, <4>2 DEF Coming
    <3> QED BY <1>0, <1>3, <1>4, <3>1, <3>4, <3>5
  <2> QED BY <2>2, <2>3
<1>18. ASSUME stale' = "no" PROVE Promised(c)'
  <2> SUFFICES ASSUME left > 0, start[c] # {}, NEW j \in saved, IsNew(c, j),
                      j \notin Received(c)', ~Excused(j), j \in sent
               PROVE  Coming(c, j)'
    BY <1>10, <1>14 DEF Promised, Excused
  <2>1. Coming(c, j)
    BY <1>0, <1>8, <1>13, <1>14, <1>18 DEF Promised
  <2>2. j # i
    BY <1>6, <1>13
  <2> QED BY <1>3, <1>6, <1>11, <1>13, <1>14, <2>1, <2>2 DEF Coming
<1>19. \A d \in Clients \ {c} : start'[d] = start[d]
  BY <1>9
<1> QED BY <1>10, <1>11, <1>13, <1>15, <1>16, <1>17, <1>18, <1>19

\* A listening client with room gets the head of the stream into its queue.
LEMMA GetsHeadStep ==
    ASSUME NEW c \in Clients, ClientFollows(c), IdTypes, ConnInv, QueueTypes,
           UNCHANGED <<saved, sent, late, trimmed, stale>>,
           got'[c] = got[c], cursor'[c] = cursor[c], start'[c] = start[c], visit'[c] = visit[c],
           stream # <<>>, Head(stream) # Confirmation, stream' = Tail(stream),
           queue'[c] = Append(queue[c], Head(stream)), c \in registered, c \in registered'
    PROVE  ClientFollows(c)'
<1> USE DEF ClientFollows
<1>1. PICK i : i = Head(stream)
  OBVIOUS
<1>2. /\ i \in Nat /\ i # Confirmation /\ OnStream = OnStream' \cup {i}
      /\ \A y \in OnStream' : Follows(i, y, late)
  <2>1. stream \in Seq(Nat) /\ Ordered(stream, late)
    BY DEF ConnInv, ConnTypes, StreamFollows
  <2>2. /\ i \in Nat /\ Range(stream) = Range(Tail(stream)) \cup {i}
        /\ \A y \in Range(Tail(stream)) \ {Confirmation} : Follows(i, y, late)
    BY <1>1, <2>1, OrderedTail
  <2> QED BY <1>1, <2>2 DEF OnStream
<1>3. queue'[c] = Append(queue[c], i) /\ InQueue(c)' = InQueue(c) \cup {i} /\ Ordered(queue'[c], late)
  <2>1. queue[c] \in Seq(Nat) /\ Ordered(queue[c], late)
    BY DEF QueueTypes, QueueFollows
  <2>2. \A x \in Range(queue[c]) \ {Confirmation} : Follows(x, i, late)
    BY <1>2 DEF QueueFollows, InQueue
  <2> QED BY <1>1, <1>2, <2>1, <2>2, OrderedAppend DEF InQueue
<1>4. Received(c)' = Received(c) /\ InQueue(c)' \cup OnStream' = InQueue(c) \cup OnStream
      /\ \A y : IsNew(c, y)' <=> IsNew(c, y)
  BY <1>2, <1>3 DEF Received, IsNew
<1>5. QueueFollows(c)'
  BY <1>2, <1>3 DEF QueueFollows, ConnInv, StreamFollows
<1>6. GotFollows(c)' /\ VisitFollows(c)'
  BY <1>4 DEF GotFollows, VisitFollows
<1>7. Covered(c) => Covered(c)'
  BY <1>4 DEF Covered, Excused
<1>8. Promised(c) => Promised(c)'
  BY <1>4 DEF Promised, Excused, Coming
<1> QED BY <1>5, <1>6, <1>7, <1>8

(* The connection and the listener *)

\* A step that leaves the connection alone.
LEMMA ConnStill ==
    ASSUME ConnInv, UNCHANGED <<conn, cmds, streaming, stream, event, registered, stale>>,
           sent \subseteq sent', late \subseteq late',
           \A c \in registered :
                visit'[c].pc \in {"read", "take"} => visit[c].pc \in {"read", "take"}
    PROVE  ConnInv'
<1> USE DEF ConnInv
<1>1. ConnTypes'
  BY DEF ConnTypes
<1>2. StreamFollows'
  BY OrderedGrows DEF StreamFollows, OnStream
<1>3. ConnFollows'
  BY DEF ConnFollows
<1> QED BY <1>1, <1>2, <1>3

\* A published change is put on the stream.
LEMMA PublishesConn ==
    ASSUME ConnInv, IdTypes, NEW i, Publishes(i),
           UNCHANGED <<conn, cmds, streaming, event, registered, visit, stale>>
    PROVE  ConnInv'
<1> USE DEF ConnInv
<1>1. stream \in Seq(Nat) /\ late \subseteq late' /\ saved \subseteq Nat /\ 0 \notin saved
      /\ sent \subseteq saved /\ i \in saved \ sent
  BY IdsAreNat DEF ConnTypes, Publishes
<1>2. Ordered(stream, late')
  BY <1>1, OrderedGrows DEF StreamFollows
<1>3. \A x \in Range(stream) \ {Confirmation} : Follows(x, i, late')
  <2> SUFFICES ASSUME NEW x \in Range(stream) \ {Confirmation} PROVE Follows(x, i, late')
    OBVIOUS
  <2>1. x \in sent
    BY DEF StreamFollows, OnStream
  <2>2. x # i /\ (x < i \/ i \in Overtaken(i, sent))
    BY <1>1, <2>1 DEF Overtaken
  <2> QED BY <2>2 DEF Follows, Publishes
<1>4. /\ Append(stream, i) \in Seq(Nat) /\ Range(Append(stream, i)) = Range(stream) \cup {i}
      /\ Ordered(Append(stream, i), late')
  BY <1>1, <1>2, <1>3, OrderedAppend
<1>5. stream' = stream \/ (streaming = "yes" /\ stream' = Append(stream, i))
  BY DEF Publishes
<1>6. ConnTypes'
  BY <1>4, <1>5 DEF ConnTypes
<1>7. StreamFollows'
  BY <1>2, <1>4, <1>5 DEF StreamFollows, OnStream, Publishes
<1>8. ConnFollows'
  <2>1. i # Confirmation
    BY <1>1 DEF Confirmation
  <2>2. streaming = "yes" => conn = "open"
    BY DEF ConnFollows, ConnTypes
  <2>3. conn' # "open" => streaming' = "no" /\ stream' = <<>> /\ event' # "set"
    BY <1>5, <2>2 DEF ConnFollows
  <2>4. event' # "absent" =>
            \/ cmds' # <<>> /\ cmds'[Len(cmds')] = "subscribe"
            \/ cmds' = <<>> /\ (streaming' = "yes" \/ (stream' = <<>> /\ event' = "unset"))
    BY <1>5 DEF ConnFollows
  <2>5. event' = "set" /\ stale' = "no" =>
            cmds' = <<>> /\ streaming' = "yes" /\ Confirmation \notin Range(stream')
    BY <1>4, <1>5, <2>1 DEF ConnFollows
  <2> QED BY <2>3, <2>4, <2>5 DEF ConnFollows
<1> QED BY <1>6, <1>7, <1>8

\* Redis runs a command.
LEMMA RunCommandConn ==
    ASSUME ConnInv, RunCommand
    PROVE  ConnInv' /\ OnStream' = OnStream
<1> USE DEF ConnInv
<1>1. /\ cmds # <<>> /\ conn' = "open" /\ cmds' = Tail(cmds)
      /\ \/ Head(cmds) = "subscribe" /\ streaming' = "yes" /\ stream' = Append(stream, Confirmation)
         \/ Head(cmds) = "unsubscribe" /\ streaming' = "no" /\ stream' = stream
      /\ UNCHANGED <<sent, late, event, registered, visit, stale>>
  BY DEF RunCommand, publishVars, listenerVars, clientVars, faultVars
<1>2. cmds \in Seq({"subscribe", "unsubscribe"}) /\ stream \in Seq(Nat) /\ Ordered(stream, late)
  BY DEF ConnTypes, StreamFollows
<1>3. /\ Append(stream, Confirmation) \in Seq(Nat)
      /\ Range(Append(stream, Confirmation)) = Range(stream) \cup {Confirmation}
      /\ Ordered(Append(stream, Confirmation), late)
  BY <1>2, OrderedAppend DEF Confirmation
<1>4. /\ cmds' \in Seq({"subscribe", "unsubscribe"})
      /\ cmds' = <<>> => cmds[Len(cmds)] = Head(cmds)
      /\ cmds' # <<>> => cmds'[Len(cmds')] = cmds[Len(cmds)]
  <2>1. /\ Len(cmds) \in Nat \ {0} /\ Head(cmds) = cmds[1] /\ Len(cmds') = Len(cmds) - 1
        /\ \A n \in 1..Len(cmds') : cmds'[n] = cmds[n + 1]
        /\ cmds' \in Seq({"subscribe", "unsubscribe"})
    BY <1>1, <1>2
  <2>2. CASE cmds' = <<>>
    <3>1. Len(cmds') = 0
      BY <2>2
    <3>2. Len(cmds) = 1
      BY <2>1, <3>1
    <3>3. cmds[Len(cmds)] = Head(cmds)
      BY <2>1, <3>2
    <3> QED BY <2>1, <2>2, <3>3
  <2>3. CASE cmds' # <<>>
    <3>1. Len(cmds') \in 1..Len(cmds') /\ Len(cmds') + 1 = Len(cmds)
      BY <2>1, <2>3
    <3> QED BY <2>1, <2>3, <3>1
  <2> QED BY <2>1, <2>2, <2>3
<1>5. ConnTypes'
  BY <1>1, <1>2, <1>3, <1>4 DEF ConnTypes
<1>6. OnStream' = OnStream
  BY <1>1, <1>3 DEF OnStream
<1>7. StreamFollows'
  BY <1>1, <1>3, <1>6 DEF StreamFollows
<1>8. ConnFollows'
  <2>1. event' # "absent" =>
            \/ cmds' # <<>> /\ cmds'[Len(cmds')] = "subscribe"
            \/ cmds' = <<>> /\ (streaming' = "yes" \/ (stream' = <<>> /\ event' = "unset"))
    BY <1>1, <1>4 DEF ConnFollows
  <2>2. ~(event' = "set" /\ stale' = "no")
    BY <1>1 DEF ConnFollows
  <2> QED BY <1>1, <2>1, <2>2 DEF ConnFollows
<1> QED BY <1>5, <1>6, <1>7, <1>8

\* Nothing is on the stream.
LEMMA EmptyStream ==
    ASSUME stream' = <<>>
    PROVE  OnStream' = {} /\ StreamFollows'
BY DEF OnStream, StreamFollows, Ordered, Range

\* The first subscribe is lost with its pubsub object.
LEMMA ReplacePubsubConn ==
    ASSUME ConnInv, ReplacePubsub
    PROVE  ConnInv'
<1> USE DEF ConnInv
<1>1. /\ conn = "opening" /\ conn' = "open" /\ cmds' = <<>>
      /\ UNCHANGED <<sent, late, streaming, stream, event, registered, visit, stale>>
  BY DEF ReplacePubsub, publishVars, listenerVars, clientVars
<1>2. ConnTypes'
  BY <1>1 DEF ConnTypes
<1>3. StreamFollows'
  BY <1>1 DEF StreamFollows, OnStream
<1>4. ConnFollows'
  BY <1>1 DEF ConnFollows, ConnTypes
<1> QED BY <1>2, <1>3, <1>4

\* The connection breaks.
LEMMA ReconnectConn ==
    ASSUME ConnInv, Reconnect
    PROVE  ConnInv' /\ OnStream' = {}
<1> USE DEF ConnInv
<1>1. /\ streaming = "yes" /\ cmds = <<>> /\ stream' = <<Confirmation>> /\ stale' = "yes"
      /\ UNCHANGED <<sent, late, conn, cmds, streaming, event, registered, visit>>
  BY DEF Reconnect, publishVars, listenerVars, clientVars
<1>2. stream' \in Seq(Nat) /\ OnStream' = {} /\ Ordered(stream', late')
  BY <1>1 DEF OnStream, Range, Ordered, Confirmation
<1>3. ConnTypes'
  BY <1>1, <1>2 DEF ConnTypes
<1>4. StreamFollows'
  BY <1>2 DEF StreamFollows
<1>5. ConnFollows'
  BY <1>1 DEF ConnFollows
<1> QED BY <1>2, <1>3, <1>4, <1>5

\* The listener is reset.
LEMMA ClearedConn ==
    ASSUME ConnInv, Cleared, UNCHANGED stale
    PROVE  ConnInv' /\ OnStream' = {} /\ registered' = {}
<1>1. OnStream' = {} /\ StreamFollows'
  BY EmptyStream DEF Cleared
<1>2. ConnTypes'
  BY DEF ConnInv, ConnTypes, Cleared
<1>3. ConnFollows'
  BY DEF ConnFollows, Cleared
<1> QED BY <1>1, <1>2, <1>3 DEF ConnInv, Cleared

\* Who waits is left without an event.
LEMMA OrphanedEffect ==
    ASSUME NEW visits \in [Clients -> VisitType]
    PROVE  /\ Orphaned(visits) \in [Clients -> VisitType]
           /\ \A d \in Clients :
                \/ Orphaned(visits)[d] = visits[d]
                \/ /\ visits[d].pc = "wait" /\ Orphaned(visits)[d].pc = "orphaned"
                   /\ Orphaned(visits)[d].last = visits[d].last
BY DEF Orphaned, VisitType, VisitPcs

\* A client subscribes.
LEMMA SubscribeConn ==
    ASSUME ConnInv, NEW c \in Clients, VisitTypes, QueueTypes, SubscribeClient(c)
    PROVE  /\ ConnInv' /\ VisitTypes' /\ QueueTypes'
           /\ queue'[c] = <<>> /\ visit'[c].pc \in EarlyPcs /\ visit'[c].last = visit[c].last
           /\ \A d \in Clients \ {c} :
                queue'[d] = queue[d] /\ visit'[d] = visit[d] /\ (d \in registered' <=> d \in registered)
<1> USE DEF ConnInv
<1>1. /\ queue' = [queue EXCEPT ![c] = <<>>] /\ registered' = registered \cup {c}
      /\ \/ event = "absent" /\ event' = "unset" /\ cmds' = Append(cmds, "subscribe")
         \/ event # "absent" /\ UNCHANGED <<event, cmds>>
      /\ conn' = IF event = "absent" /\ conn = "none" THEN "opening" ELSE conn
      /\ visit' = [visit EXCEPT ![c].pc = IF event = "set" THEN "read" ELSE "wait"]
      /\ UNCHANGED <<streaming, stream, stale, sent, late>>
  BY DEF SubscribeClient, publishVars, faultVars
<1>2. QueueTypes' /\ queue'[c] = <<>> /\ \A d \in Clients \ {c} : queue'[d] = queue[d]
  BY <1>1 DEF QueueTypes
<1>3. /\ VisitTypes' /\ \A d \in Clients \ {c} : visit'[d] = visit[d]
      /\ visit'[c].pc = (IF event = "set" THEN "read" ELSE "wait")
      /\ visit'[c].last = visit[c].last
  BY <1>1 DEF VisitTypes, VisitType, VisitPcs
<1>4. /\ cmds \in Seq({"subscribe", "unsubscribe"}) /\ Append(cmds, "subscribe") \in Seq({"subscribe", "unsubscribe"})
      /\ Append(cmds, "subscribe") # <<>>
      /\ Append(cmds, "subscribe")[Len(Append(cmds, "subscribe"))] = "subscribe"
  BY DEF ConnTypes
<1>5. ConnTypes'
  BY <1>1, <1>4 DEF ConnTypes
<1>6. StreamFollows'
  BY <1>1 DEF StreamFollows, OnStream
<1>7. ConnFollows'
  <2>1. event' = "absent" <=> registered' = {}
    BY <1>1
  <2>2. conn' # "open" => streaming' = "no" /\ stream' = <<>> /\ event' # "set"
    BY <1>1 DEF ConnFollows
  <2>3. event' # "absent" =>
            \/ cmds' # <<>> /\ cmds'[Len(cmds')] = "subscribe"
            \/ cmds' = <<>> /\ (streaming' = "yes" \/ (stream' = <<>> /\ event' = "unset"))
    BY <1>1, <1>4 DEF ConnFollows
  <2>4. event' = "set" /\ stale' = "no" =>
            cmds' = <<>> /\ streaming' = "yes" /\ Confirmation \notin Range(stream')
    BY <1>1 DEF ConnFollows
  <2>5. \A d \in registered' : visit'[d].pc \in {"read", "take"} => event' = "set"
    <3> SUFFICES ASSUME NEW d \in registered', visit'[d].pc \in {"read", "take"}
                 PROVE  event' = "set"
      OBVIOUS
    <3>1. CASE d = c
      BY <1>1, <1>3, <3>1
    <3>2. CASE d # c
      <4>1. d \in registered /\ d \in Clients /\ visit'[d] = visit[d]
        BY <1>1, <1>3, <3>2 DEF ConnTypes
      <4> QED BY <1>1, <4>1 DEF ConnFollows
    <3> QED BY <3>1, <3>2
  <2> QED BY <2>1, <2>2, <2>3, <2>4, <2>5 DEF ConnFollows
<1> QED BY <1>1, <1>2, <1>3, <1>5, <1>6, <1>7 DEF EarlyPcs

\* The listener reads a confirmation.
LEMMA ListenConfirmationConn ==
    ASSUME ConnInv, VisitTypes, ListenConfirmation
    PROVE  /\ ConnInv' /\ VisitTypes' /\ OnStream' = OnStream /\ (stale' = "no" => stale = "no")
           /\ \A d \in Clients : \/ visit'[d] = visit[d]
                                 \/ /\ visit[d].pc = "wait" /\ visit'[d].pc = "read"
                                    /\ visit'[d].last = visit[d].last
<1> USE DEF ConnInv
<1>1. /\ stream # <<>> /\ Head(stream) = Confirmation /\ stream' = Tail(stream)
      /\ UNCHANGED <<conn, cmds, streaming, registered, sent, late>>
      /\ \/ event = "absent" /\ UNCHANGED <<event, visit, stale>>
         \/ /\ event # "absent" /\ event' = "set"
            /\ stale' = IF cmds # <<>> \/ Confirmation \in Range(Tail(stream)) THEN "yes" ELSE stale
            /\ visit' = [d \in Clients |->
                  IF visit[d].pc = "wait" THEN [visit[d] EXCEPT !.pc = "read"] ELSE visit[d]]
  BY DEF ListenConfirmation, publishVars
<1>2. stream \in Seq(Nat) /\ Ordered(stream, late)
  BY DEF ConnTypes, StreamFollows
<1>3. /\ stream' \in Seq(Nat) /\ Ordered(stream', late)
      /\ Range(stream) = Range(stream') \cup {Confirmation}
  BY <1>1, <1>2, OrderedTail
<1>4. OnStream' = OnStream
  BY <1>3 DEF OnStream
<1>5. /\ VisitTypes'
      /\ \A d \in Clients : \/ visit'[d] = visit[d]
                            \/ /\ visit[d].pc = "wait" /\ visit'[d].pc = "read"
                               /\ visit'[d].last = visit[d].last
  <2>1. CASE event = "absent"
    BY <1>1, <2>1 DEF VisitTypes
  <2>2. CASE event # "absent"
    <3>1. ASSUME NEW d \in Clients
          PROVE  /\ visit'[d] \in VisitType
                 /\ \/ visit'[d] = visit[d]
                    \/ /\ visit[d].pc = "wait" /\ visit'[d].pc = "read"
                       /\ visit'[d].last = visit[d].last
      <4>1. visit[d] \in VisitType
        BY DEF VisitTypes
      <4>2. visit'[d] = IF visit[d].pc = "wait" THEN [visit[d] EXCEPT !.pc = "read"] ELSE visit[d]
        BY <1>1, <2>2
      <4> QED BY <4>1, <4>2 DEF VisitType, VisitPcs
    <3>2. visit' \in [Clients -> VisitType]
      <4>1. visit' = [d \in Clients |-> visit'[d]]
        BY <1>1, <2>2
      <4> QED BY <3>1, <4>1
    <3> QED BY <3>1, <3>2 DEF VisitTypes
  <2> QED BY <2>1, <2>2
<1>6. ConnTypes'
  BY <1>1, <1>3 DEF ConnTypes
<1>7. StreamFollows'
  BY <1>1, <1>3, <1>4 DEF StreamFollows
<1>8. stale' = "no" => stale = "no"
  BY <1>1
<1>9. ConnFollows'
  <2>1. conn = "open"
    BY <1>1 DEF ConnFollows
  <2>2. CASE event = "absent"
    BY <1>1, <1>3, <2>1, <2>2 DEF ConnFollows
  <2>3. CASE event # "absent"
    <3>1. event' = "set" /\ registered' # {} /\ conn' = "open"
      BY <1>1, <2>1, <2>3 DEF ConnFollows
    <3>2. \/ cmds' # <<>> /\ cmds'[Len(cmds')] = "subscribe"
          \/ cmds' = <<>> /\ streaming' = "yes"
      BY <1>1, <2>3 DEF ConnFollows
    <3>3. stale' = "no" => cmds' = <<>> /\ Confirmation \notin Range(stream')
      BY <1>1, <2>3
    <3> QED BY <3>1, <3>2, <3>3 DEF ConnFollows
  <2> QED BY <2>2, <2>3
<1> QED BY <1>4, <1>5, <1>6, <1>7, <1>8, <1>9

\* Some clients leave, and the listener may have read one change.
LEMMA UnsubscribeConn ==
    ASSUME ConnInv, NEW gone, NEW visits \in [Clients -> VisitType],
           UnsubscribeClients(gone, visits),
           \A d \in registered \ gone : visits[d] = visit[d],
           UNCHANGED <<conn, streaming, sent, late, stale>>,
           stream' = stream \/ (stream # <<>> /\ stream' = Tail(stream))
    PROVE  /\ ConnInv' /\ VisitTypes' /\ OnStream' \subseteq OnStream
           /\ registered' = registered \ gone
           /\ \A d \in Clients :
                \/ visit'[d] = visits[d]
                \/ /\ visits[d].pc = "wait" /\ visit'[d].pc = "orphaned"
                   /\ visit'[d].last = visits[d].last
<1> USE DEF ConnInv
<1>1. PICK drop \in BOOLEAN : drop = (event # "absent" /\ gone # {} /\ registered \ gone = {})
  OBVIOUS
<1>2. /\ registered' = registered \ gone
      /\ event' = IF drop THEN "absent" ELSE event
      /\ cmds' = IF drop THEN Append(cmds, "unsubscribe") ELSE cmds
      /\ visit' = IF drop THEN Orphaned(visits) ELSE visits
  BY <1>1 DEF UnsubscribeClients
<1>3. stream \in Seq(Nat) /\ Ordered(stream, late)
  BY DEF ConnTypes, StreamFollows
<1>4. stream' \in Seq(Nat) /\ Range(stream') \subseteq Range(stream) /\ Ordered(stream', late)
  <2>1. CASE stream' = stream
    BY <1>3, <2>1
  <2>2. CASE stream # <<>> /\ stream' = Tail(stream)
    BY <1>3, <2>2, OrderedTail
  <2> QED BY <2>1, <2>2
<1>5. VisitTypes'
      /\ \A d \in Clients :
            \/ visit'[d] = visits[d]
            \/ /\ visits[d].pc = "wait" /\ visit'[d].pc = "orphaned"
               /\ visit'[d].last = visits[d].last
  BY <1>2, OrphanedEffect DEF VisitTypes
<1>6. ConnTypes'
  <2>1. cmds' \in Seq({"subscribe", "unsubscribe"})
    BY <1>2 DEF ConnTypes
  <2> QED BY <1>2, <1>4, <2>1 DEF ConnTypes
<1>7. OnStream' \subseteq OnStream
  BY <1>4 DEF OnStream
<1>8. StreamFollows'
  BY <1>4, <1>7 DEF StreamFollows
<1>9. ConnFollows'
  <2>1. conn' # "open" => streaming' = "no" /\ stream' = <<>> /\ event' # "set"
    BY <1>2 DEF ConnFollows
  <2>2. CASE drop
    BY <1>1, <1>2, <2>1, <2>2 DEF ConnFollows
  <2>3. CASE ~drop
    <3>1. event' = event /\ cmds' = cmds /\ visit' = visits
      BY <1>2, <2>3
    <3>2. event = "absent" <=> registered' = {}
      BY <1>1, <1>2, <2>3 DEF ConnFollows
    <3>3. \A d \in registered' : visit'[d].pc \in {"read", "take"} => event' = "set"
      BY <1>2, <3>1 DEF ConnFollows
    <3>4. stream = <<>> => stream' = <<>>
      OBVIOUS
    <3>5. event' # "absent" =>
            \/ cmds' # <<>> /\ cmds'[Len(cmds')] = "subscribe"
            \/ cmds' = <<>> /\ (streaming' = "yes" \/ (stream' = <<>> /\ event' = "unset"))
      BY <3>1, <3>4 DEF ConnFollows
    <3>6. event' = "set" /\ stale' = "no" =>
            cmds' = <<>> /\ streaming' = "yes" /\ Confirmation \notin Range(stream')
      BY <1>4, <3>1 DEF ConnFollows
    <3> QED BY <2>1, <3>1, <3>2, <3>3, <3>5, <3>6 DEF ConnFollows
  <2> QED BY <2>2, <2>3
<1> QED BY <1>2, <1>5, <1>6, <1>7, <1>8, <1>9

(* The steps together *)

\* Nobody has received anything in the initial state.
LEMMA FollowStart ==
    ASSUME Init
    PROVE  FollowInv
<1> USE DEF Init
<1>1. RoomInv
  BY ChannelsAssumption DEF RoomInv, CallTypes, CallType, IdTypes, CallsFollow
<1>2. ConnInv
  BY DEF ConnInv, ConnTypes, StreamFollows, ConnFollows, OnStream, Ordered, Range
<1>3. QueueTypes /\ HistoryTypes
  BY DEF QueueTypes, HistoryTypes
<1>4. VisitTypes
  BY DEF VisitTypes, VisitType, VisitPcs, Away
<1>5. ASSUME NEW c \in Clients PROVE ClientFollows(c)
  <2>1. /\ Received(c) = {} /\ InQueue(c) = {} /\ OnStream = {} /\ Ordered(<<>>, late)
        /\ visit[c].pc = "away" /\ cursor[c] \subseteq {0} /\ start[c] = cursor[c]
        /\ got[c] = <<>> /\ queue[c] = <<>>
    BY DEF Received, InQueue, OnStream, Ordered, Range, Away
  <2>2. QueueFollows(c) /\ GotFollows(c) /\ VisitFollows(c) /\ Covered(c) /\ Promised(c)
    BY <2>1 DEF QueueFollows, GotFollows, VisitFollows, Covered, Promised, EarlyPcs
  <2> QED BY <2>2 DEF ClientFollows
<1> QED BY <1>1, <1>2, <1>3, <1>4, <1>5 DEF FollowInv, ClientsInv

\* A step that changes no id and serves no client, at most the messages under way
LEMMA NobodyServed ==
    ASSUME ClientsInv, IdTypes, UNCHANGED <<listenerVars, clientVars, saved, sent, late, trimmed>>,
           OnStream' \subseteq OnStream, stale' = "no" => stale = "no" /\ OnStream' = OnStream
    PROVE  ClientsInv'
<1> USE DEF ClientsInv, listenerVars, clientVars
<1>1. QueueTypes' /\ VisitTypes' /\ HistoryTypes'
  BY DEF QueueTypes, VisitTypes, HistoryTypes
<1>2. ASSUME NEW c \in Clients PROVE ClientFollows(c)'
  <2>1. Quiet(c)
    BY DEF Quiet, Stays
  <2> QED BY <2>1, QuietStep
<1> QED BY <1>1, <1>2

\* The steps of a call.
LEMMA PublisherStep ==
    ASSUME FollowInv, NEW k \in Publications,
           \/ TakeNumber(k) \/ SaveChange(k) \/ PublishChange(k)
           \/ ExpireLock(k) \/ KillPublisher(k)
    PROVE  FollowInv'
<1> USE DEF FollowInv
<1>0. IdTypes /\ QueueTypes /\ VisitTypes /\ HistoryTypes /\ \A c \in Clients : ClientFollows(c)
  BY DEF RoomInv, ClientsInv
<1>1. CASE TakeNumber(k) \/ ExpireLock(k) \/ KillPublisher(k)
  <2>1. UNCHANGED <<connVars, listenerVars, clientVars, stale>>
    BY <1>1 DEF TakeNumber, ExpireLock, KillPublisher, faultVars
  <2>2. RoomInv' /\ UNCHANGED <<saved, sent, late, trimmed>>
    <3>1. CASE TakeNumber(k)
      BY <3>1, TakeNumberStep
    <3>2. CASE ExpireLock(k)
      <4>1. UNCHANGED <<call, seq, listed, saved, sent, late, trimmed>>
        BY <3>2 DEF ExpireLock
      <4> QED BY <4>1, RoomUnchanged
    <3>3. CASE KillPublisher(k)
      BY <3>3, KillPublisherStep
    <3> QED BY <1>1, <3>1, <3>2, <3>3
  <2>3. ConnInv'
    BY <2>1, <2>2, ConnStill DEF connVars, listenerVars, clientVars
  <2>4. ClientsInv'
    BY <1>0, <2>1, <2>2, NobodyServed DEF connVars, OnStream
  <2> QED BY <2>2, <2>3, <2>4
<1>2. CASE SaveChange(k)
  <2>1. UNCHANGED <<connVars, listenerVars, clientVars, stale>>
    BY <1>2 DEF SaveChange, faultVars
  <2>2. RoomInv' /\ SavesId(call[k].id)
    BY <1>2, SaveChangeStep
  <2>3. ConnInv'
    BY <2>1, <2>2, ConnStill DEF connVars, listenerVars, clientVars, SavesId
  <2>4. \A c \in Clients : ClientFollows(c)'
    BY <1>0, <2>1, <2>2, SavesStep
  <2>5. QueueTypes' /\ VisitTypes' /\ HistoryTypes'
    BY <1>0, <2>1 DEF QueueTypes, VisitTypes, HistoryTypes, listenerVars, clientVars
  <2> QED BY <2>2, <2>3, <2>4, <2>5 DEF ClientsInv
<1>3. CASE PublishChange(k)
  <2>1. UNCHANGED <<conn, cmds, streaming, listenerVars, clientVars, stale>>
    BY <1>3 DEF PublishChange, faultVars
  <2>2. RoomInv' /\ Publishes(call[k].id)
    BY <1>3, PublishChangeStep
  <2>3. ConnInv'
    BY <1>0, <2>1, <2>2, PublishesConn DEF listenerVars, clientVars
  <2>4. \A c \in Clients : ClientFollows(c)'
    BY <1>0, <2>1, <2>2, PublishesStep
  <2>5. QueueTypes' /\ VisitTypes' /\ HistoryTypes'
    BY <1>0, <2>1 DEF QueueTypes, VisitTypes, HistoryTypes, listenerVars, clientVars
  <2> QED BY <2>2, <2>3, <2>4, <2>5 DEF ClientsInv
<1> QED BY <1>1, <1>2, <1>3

\* The room as a whole is left alone.
LEMMA RoomStill ==
    ASSUME RoomInv, UNCHANGED publishVars
    PROVE  RoomInv' /\ UNCHANGED <<saved, sent, late, trimmed>>
BY RoomUnchanged DEF publishVars

\* The steps of the connection.
LEMMA ConnectionStep ==
    ASSUME FollowInv, RunCommand \/ ReplacePubsub \/ Reconnect
    PROVE  FollowInv'
<1> USE DEF FollowInv
<1>0. IdTypes
  BY DEF RoomInv
<1>1. UNCHANGED <<publishVars, listenerVars, clientVars>>
  BY DEF RunCommand, ReplacePubsub, Reconnect
<1>2. RoomInv' /\ UNCHANGED <<saved, sent, late, trimmed>>
  BY <1>1, RoomStill
<1>3. /\ ConnInv' /\ OnStream' \subseteq OnStream
      /\ stale' = "no" => stale = "no" /\ OnStream' = OnStream
  <2>1. CASE RunCommand
    BY <2>1, RunCommandConn DEF RunCommand, faultVars
  <2>2. CASE ReplacePubsub
    <3>1. OnStream' = OnStream /\ stale' = stale
      BY <2>2 DEF ReplacePubsub, OnStream
    <3> QED BY <2>2, <3>1, ReplacePubsubConn
  <2>3. CASE Reconnect
    BY <2>3, ReconnectConn DEF Reconnect
  <2> QED BY <2>1, <2>2, <2>3
<1>4. ClientsInv'
  BY <1>0, <1>1, <1>2, <1>3, NobodyServed
<1> QED BY <1>2, <1>3, <1>4

\* A confirmation serves nobody.
LEMMA ListenConfirmationStep ==
    ASSUME FollowInv, ListenConfirmation
    PROVE  FollowInv'
<1> USE DEF FollowInv, ClientsInv
<1>1. UNCHANGED <<publishVars, registered, queue, cursor, got, start>>
  BY DEF ListenConfirmation
<1>2. RoomInv' /\ UNCHANGED <<saved, sent, late, trimmed>>
  BY <1>1, RoomStill
<1>3. /\ ConnInv' /\ VisitTypes' /\ OnStream' = OnStream /\ (stale' = "no" => stale = "no")
      /\ \A d \in Clients : \/ visit'[d] = visit[d]
                            \/ /\ visit[d].pc = "wait" /\ visit'[d].pc = "read"
                               /\ visit'[d].last = visit[d].last
  BY ListenConfirmationConn
<1>4. QueueTypes' /\ HistoryTypes'
  BY <1>1 DEF QueueTypes, HistoryTypes
<1>5. ASSUME NEW c \in Clients PROVE ClientFollows(c)'
  <2>1. Quiet(c)
    BY <1>1, <1>2, <1>3 DEF Quiet, Stays, EarlyPcs
  <2> QED BY <2>1, QuietStep DEF RoomInv
<1> QED BY <1>2, <1>3, <1>4, <1>5

\* A change goes to every queue with room; who has none is dropped.
LEMMA ListenChangeStep ==
    ASSUME FollowInv, ListenChange
    PROVE  FollowInv'
<1> USE DEF FollowInv, ClientsInv
<1>1. PICK gone : gone = {c \in registered : IsFull(c)}
  OBVIOUS
<1>2. /\ stream # <<>> /\ Head(stream) # Confirmation /\ stream' = Tail(stream)
      /\ queue' = [c \in Clients |->
            IF c \in registered /\ ~IsFull(c) THEN Append(queue[c], Head(stream)) ELSE queue[c]]
      /\ UnsubscribeClients(gone, visit)
      /\ UNCHANGED <<publishVars, conn, streaming, cursor, got, start, stale>>
  BY <1>1 DEF ListenChange, faultVars
<1>3. RoomInv' /\ UNCHANGED <<saved, sent, late, trimmed>>
  BY <1>2, RoomStill
<1>4. /\ ConnInv' /\ VisitTypes' /\ OnStream' \subseteq OnStream
      /\ registered' = registered \ gone
      /\ \A d \in Clients :
            \/ visit'[d] = visit[d]
            \/ /\ visit[d].pc = "wait" /\ visit'[d].pc = "orphaned"
               /\ visit'[d].last = visit[d].last
  BY <1>2, <1>3, UnsubscribeConn DEF VisitTypes
<1>5. Head(stream) \in Nat
  BY <1>2, OrderedTail DEF ConnInv, ConnTypes, StreamFollows
<1>6. QueueTypes' /\ HistoryTypes'
  BY <1>2, <1>5 DEF QueueTypes, HistoryTypes
<1>7. ASSUME NEW c \in Clients PROVE ClientFollows(c)'
  <2>1. CASE c \in registered /\ ~IsFull(c)
    <3>1. c \in registered' /\ registered' # {}
      BY <1>1, <1>4, <2>1
    <3>2. visit' = visit
      BY <1>2, <1>4, <3>1 DEF UnsubscribeClients
    <3>3. queue'[c] = Append(queue[c], Head(stream))
      BY <1>2, <2>1
    <3> QED BY <1>2, <1>3, <2>1, <3>1, <3>2, <3>3, GetsHeadStep DEF RoomInv
  <2>2. CASE ~(c \in registered /\ ~IsFull(c))
    <3>1. c \notin registered' /\ queue'[c] = queue[c]
      BY <1>1, <1>2, <1>4, <2>2
    <3>2. Quiet(c)
      BY <1>2, <1>3, <1>4, <3>1 DEF Quiet, Stays, EarlyPcs
    <3> QED BY <3>2, QuietStep DEF RoomInv
  <2> QED BY <2>1, <2>2
<1> QED BY <1>3, <1>4, <1>6, <1>7

\* A client of another room resets the connection.
LEMMA ResetByOtherStep ==
    ASSUME FollowInv, ResetByOther
    PROVE  FollowInv'
<1> USE DEF FollowInv, ClientsInv
<1>1. /\ Cleared /\ visit' = Orphaned(visit)
      /\ UNCHANGED <<publishVars, queue, cursor, got, start, stale>>
  BY DEF ResetByOther
<1>2. RoomInv' /\ UNCHANGED <<saved, sent, late, trimmed>>
  BY <1>1, RoomStill
<1>3. ConnInv' /\ OnStream' = {} /\ registered' = {}
  BY <1>1, ClearedConn
<1>4. /\ VisitTypes'
      /\ \A d \in Clients : \/ visit'[d] = visit[d]
                            \/ /\ visit[d].pc = "wait" /\ visit'[d].pc = "orphaned"
                               /\ visit'[d].last = visit[d].last
  BY <1>1, OrphanedEffect DEF VisitTypes
<1>5. QueueTypes' /\ HistoryTypes'
  BY <1>1 DEF QueueTypes, HistoryTypes
<1>6. ASSUME NEW c \in Clients PROVE ClientFollows(c)'
  <2>1. Quiet(c)
    BY <1>1, <1>2, <1>3, <1>4 DEF Quiet, Stays, EarlyPcs
  <2> QED BY <2>1, QuietStep DEF RoomInv
<1> QED BY <1>2, <1>3, <1>4, <1>5, <1>6

\* A client of the room resets the connection.
LEMMA TimeOutStep ==
    ASSUME FollowInv, NEW c \in Clients, TimeOut(c)
    PROVE  FollowInv'
<1> USE DEF FollowInv, ClientsInv
<1>0. PICK r : r = [visit[c] EXCEPT !.pc = "subscribe", !.try = @ + 1]
  OBVIOUS
<1>1. /\ visit[c].pc \in {"wait", "orphaned"} /\ Cleared
      /\ \/ visit' = [Orphaned(visit) EXCEPT ![c] = r]
         \/ visit' = [d \in Clients |-> Away]
      /\ UNCHANGED <<publishVars, queue, cursor, got, start, stale>>
  BY <1>0 DEF TimeOut
<1>2. RoomInv' /\ UNCHANGED <<saved, sent, late, trimmed>>
  BY <1>1, RoomStill
<1>3. ConnInv' /\ OnStream' = {} /\ registered' = {}
  BY <1>1, ClearedConn
<1>4. r \in VisitType /\ r.pc = "subscribe" /\ r.last = visit[c].last
  <2>1. visit[c] \in VisitType
    BY DEF VisitTypes
  <2>2. /\ visit[c].last \in SUBSET Nat /\ visit[c].left \in Int /\ visit[c].try + 1 \in Nat
    BY <2>1 DEF VisitType
  <2>3. r = [[visit[c] EXCEPT !.pc = "subscribe"] EXCEPT !.try = visit[c].try + 1]
    BY <1>0, <2>1 DEF VisitType
  <2>4. r = [pc |-> "subscribe", last |-> visit[c].last, left |-> visit[c].left,
             try |-> visit[c].try + 1]
    BY <2>1, <2>3 DEF VisitType
  <2> QED BY <2>2, <2>4 DEF VisitType, VisitPcs
<1>5. VisitTypes' /\ \A d \in Clients : Stays(d)
  <2>1. CASE visit' = [Orphaned(visit) EXCEPT ![c] = r]
    <3>1. /\ Orphaned(visit) \in [Clients -> VisitType]
          /\ \A d \in Clients :
                \/ Orphaned(visit)[d] = visit[d]
                \/ /\ visit[d].pc = "wait" /\ Orphaned(visit)[d].pc = "orphaned"
                   /\ Orphaned(visit)[d].last = visit[d].last
      BY OrphanedEffect DEF VisitTypes
    <3>2. VisitTypes' /\ \A d \in Clients : visit'[d] = IF d = c THEN r ELSE Orphaned(visit)[d]
      BY <1>4, <2>1, <3>1 DEF VisitTypes
    <3> QED BY <1>1, <1>4, <3>1, <3>2 DEF Stays, EarlyPcs
  <2>2. CASE visit' = [d \in Clients |-> Away]
    BY <2>2 DEF VisitTypes, VisitType, VisitPcs, Away, Stays
  <2> QED BY <1>1, <2>1, <2>2
<1>6. QueueTypes' /\ HistoryTypes'
  BY <1>1 DEF QueueTypes, HistoryTypes
<1>7. ASSUME NEW d \in Clients PROVE ClientFollows(d)'
  <2>1. Quiet(d)
    BY <1>1, <1>2, <1>3, <1>5 DEF Quiet
  <2> QED BY <2>1, QuietStep DEF RoomInv
<1> QED BY <1>2, <1>3, <1>5, <1>6, <1>7

\* A client subscribes, with an empty queue.
LEMMA SubscribeStep ==
    ASSUME FollowInv, NEW c \in Clients, SubscribeClient(c)
    PROVE  FollowInv'
<1> USE DEF FollowInv, ClientsInv
<1>1. /\ visit[c].pc = "subscribe"
      /\ UNCHANGED <<publishVars, streaming, stream, cursor, got, start, stale>>
  BY DEF SubscribeClient, faultVars
<1>2. RoomInv' /\ UNCHANGED <<saved, sent, late, trimmed>>
  BY <1>1, RoomStill
<1>3. /\ ConnInv' /\ VisitTypes' /\ QueueTypes'
      /\ queue'[c] = <<>> /\ visit'[c].pc \in EarlyPcs /\ visit'[c].last = visit[c].last
      /\ \A d \in Clients \ {c} :
            queue'[d] = queue[d] /\ visit'[d] = visit[d] /\ (d \in registered' <=> d \in registered)
  BY SubscribeConn
<1>4. HistoryTypes' /\ OnStream' = OnStream
  BY <1>1 DEF HistoryTypes, OnStream
<1>5. ASSUME NEW d \in Clients PROVE ClientFollows(d)'
  <2>1. CASE d = c
    <3>1. Quiet(c)
      BY <1>1, <1>2, <1>3, <1>4 DEF Quiet, Stays, EarlyPcs
    <3> QED BY <2>1, <3>1, QuietStep DEF RoomInv
  <2>2. CASE d # c
    <3>1. Quiet(d)
      BY <1>1, <1>2, <1>3, <1>4, <2>2 DEF Quiet, Stays
    <3> QED BY <3>1, QuietStep DEF RoomInv
  <2> QED BY <2>1, <2>2
<1> QED BY <1>2, <1>3, <1>4, <1>5

\* A client leaves.
LEMMA EndSessionStep ==
    ASSUME FollowInv, NEW c \in Clients, EndSession(c)
    PROVE  FollowInv'
<1> USE DEF FollowInv, ClientsInv
<1>0. PICK visits : visits = [visit EXCEPT ![c] = Away]
  OBVIOUS
<1>1. /\ queue' = [queue EXCEPT ![c] = <<>>] /\ UnsubscribeClients({c}, visits)
      /\ UNCHANGED <<publishVars, conn, streaming, stream, cursor, got, start, stale>>
  BY <1>0 DEF EndSession, faultVars
<1>2. RoomInv' /\ UNCHANGED <<saved, sent, late, trimmed>>
  BY <1>1, RoomStill
<1>3. /\ visits \in [Clients -> VisitType] /\ visits[c].pc = "away"
      /\ \A d \in Clients \ {c} : visits[d] = visit[d]
  BY <1>0 DEF VisitTypes, VisitType, VisitPcs, Away
<1>4. registered \subseteq Clients
  BY DEF ConnInv, ConnTypes
<1>5. /\ ConnInv' /\ VisitTypes' /\ registered' = registered \ {c}
      /\ \A d \in Clients :
            \/ visit'[d] = visits[d]
            \/ /\ visits[d].pc = "wait" /\ visit'[d].pc = "orphaned"
               /\ visit'[d].last = visits[d].last
  <2>1. \A d \in registered \ {c} : visits[d] = visit[d]
    BY <1>3, <1>4
  <2> QED BY <1>1, <1>2, <1>3, <2>1, UnsubscribeConn
<1>6. QueueTypes' /\ queue'[c] = <<>> /\ \A d \in Clients \ {c} : queue'[d] = queue[d]
  BY <1>1 DEF QueueTypes
<1>7. HistoryTypes' /\ OnStream' = OnStream
  BY <1>1 DEF HistoryTypes, OnStream
<1>8. ASSUME NEW d \in Clients PROVE ClientFollows(d)'
  <2>1. CASE d = c
    <3>1. visit'[c].pc = "away"
      BY <1>3, <1>5
    <3>2. Quiet(c)
      BY <1>1, <1>2, <1>6, <1>7, <3>1 DEF Quiet, Stays
    <3> QED BY <2>1, <3>2, QuietStep DEF RoomInv
  <2>2. CASE d # c
    <3>1. Stays(d)
      BY <1>3, <1>5, <2>2 DEF Stays, EarlyPcs
    <3>2. Quiet(d)
      BY <1>1, <1>2, <1>5, <1>6, <1>7, <2>2, <3>1 DEF Quiet
    <3> QED BY <3>2, QuietStep DEF RoomInv
  <2> QED BY <2>1, <2>2
<1> QED BY <1>2, <1>5, <1>6, <1>7, <1>8

\* A request and the reading of the list and of the queue
LEMMA ServedStep ==
    ASSUME FollowInv, NEW c \in Clients, Request(c) \/ ReadDatabase(c) \/ TakeFromQueue(c)
    PROVE  FollowInv'
<1> USE DEF FollowInv, ClientsInv
<1>0. IdTypes /\ OnStream \subseteq sent /\ registered \subseteq Clients
  BY DEF RoomInv, ConnInv, ConnTypes, StreamFollows
<1>1. UNCHANGED <<publishVars, connVars, event, registered, stale>>
      /\ (Request(c) \/ ReadDatabase(c) => UNCHANGED queue)
  BY DEF Request, ReadDatabase, TakeFromQueue, listenerVars, faultVars
<1>2. RoomInv' /\ UNCHANGED <<saved, sent, late, trimmed>>
  BY <1>1, RoomStill
<1>3. /\ HistoryTypes' /\ VisitTypes' /\ QueueTypes' /\ ClientFollows(c)'
      /\ \A d \in Clients \ {c} : /\ got'[d] = got[d] /\ cursor'[d] = cursor[d]
                                  /\ start'[d] = start[d] /\ visit'[d] = visit[d]
                                  /\ queue'[d] = queue[d]
      /\ visit'[c].pc \in {"read", "take"} => visit[c].pc \in {"read", "take"}
  <2>1. CASE Request(c)
    <3>1. UNCHANGED queue
      BY <1>1, <2>1
    <3> QED BY <1>0, <2>1, <3>1, RequestFollows DEF QueueTypes
  <2>2. CASE ReadDatabase(c)
    <3>1. UNCHANGED queue /\ visit[c].pc = "read"
      BY <1>1, <2>2 DEF ReadDatabase
    <3> QED BY <1>0, <2>2, <3>1, ReadDatabaseFollows DEF QueueTypes
  <2>3. CASE TakeFromQueue(c)
    <3>1. visit[c].pc = "take"
      BY <2>3 DEF TakeFromQueue
    <3> QED BY <1>0, <2>3, <3>1, TakeFromQueueFollows
  <2> QED BY <2>1, <2>2, <2>3
<1>4. OnStream' = OnStream
  BY <1>1 DEF OnStream, connVars
<1>5. ConnInv'
  <2>1. \A d \in registered :
            visit'[d].pc \in {"read", "take"} => visit[d].pc \in {"read", "take"}
    BY <1>0, <1>3
  <2> QED BY <1>1, <1>2, <2>1, ConnStill DEF connVars
<1>6. ASSUME NEW d \in Clients PROVE ClientFollows(d)'
  <2>1. CASE d = c
    BY <1>3, <2>1
  <2>2. CASE d # c
    <3>1. Quiet(d)
      BY <1>1, <1>2, <1>3, <1>4, <2>2 DEF Quiet, Stays
    <3> QED BY <1>0, <3>1, QuietStep
  <2> QED BY <2>1, <2>2
<1> QED BY <1>2, <1>3, <1>5, <1>6

\* A stuttering step.
LEMMA FollowUnchanged ==
    ASSUME FollowInv, UNCHANGED vars
    PROVE  FollowInv'
<1> USE DEF FollowInv, vars
<1>1. RoomInv' /\ UNCHANGED <<saved, sent, late, trimmed>>
  BY RoomStill
<1>2. ConnInv'
  BY <1>1, ConnStill DEF connVars, listenerVars, clientVars, faultVars
<1>3. ClientsInv'
  BY <1>1, NobodyServed DEF connVars, faultVars, OnStream, RoomInv
<1> QED BY <1>1, <1>2, <1>3

\* The invariant of the room is inductive.
LEMMA FollowStep ==
    ASSUME FollowInv, [Next]_vars
    PROVE  FollowInv'
<1>1. CASE UNCHANGED vars
  BY <1>1, FollowUnchanged
<1>2. ASSUME NEW k \in Publications,
             \/ TakeNumber(k) \/ SaveChange(k) \/ PublishChange(k)
             \/ ExpireLock(k) \/ KillPublisher(k)
      PROVE  FollowInv'
  BY <1>2, PublisherStep
<1>3. CASE RunCommand \/ ReplacePubsub \/ Reconnect
  BY <1>3, ConnectionStep
<1>4. CASE Listen
  BY <1>4, ListenConfirmationStep, ListenChangeStep DEF Listen
<1>5. CASE ResetByOther
  BY <1>5, ResetByOtherStep
<1>6. ASSUME NEW c \in Clients, ClientStep(c) \/ EndSession(c)
      PROVE  FollowInv'
  BY <1>6, ServedStep, SubscribeStep, TimeOutStep, EndSessionStep DEF ClientStep
<1> QED BY <1>1, <1>2, <1>3, <1>4, <1>5, <1>6 DEF Next

\* What is covered up to the cursor leaves no gap.
LEMMA NoGapFollows ==
    ASSUME FollowInv
    PROVE  NoGap
<1> SUFFICES ASSUME stale = "no", NEW c \in Clients, got[c] # <<>>, NEW i \in saved,
                    NEW s \in start[c], s < i, i < Max(Range(got[c]))
             PROVE  i \in Range(got[c]) \cup late \cup trimmed \cup (saved \ sent)
  BY DEF NoGap
<1>0. /\ GotFollows(c) /\ Covered(c) /\ IdTypes /\ cursor[c] \subseteq Nat /\ saved \subseteq Nat
      /\ got[c] \in Seq(Nat)
  BY IdsAreNat DEF FollowInv, RoomInv, ClientsInv, ClientFollows, HistoryTypes
<1>1. PICK x : x \in Received(c)
  <2>1. 1 \in DOMAIN got[c]
    BY <1>0
  <2> QED BY <2>1 DEF Received, Range
<1>2. PICK m \in cursor[c] : x <= m
  BY <1>0, <1>1 DEF GotFollows
<1>3. m \in Received(c)
  <2>1. x \in saved /\ x # 0 /\ x \in Nat /\ m \in Nat
    BY <1>0, <1>1, <1>2, IdsAreNat DEF GotFollows
  <2>2. m # 0
    BY <1>2, <2>1
  <2> QED BY <1>0, <2>2 DEF GotFollows
<1>4. \A y \in Received(c) : y <= m
  BY <1>0 DEF GotFollows
<1>5. Max(Range(got[c])) = m
  <2>1. Received(c) \in SUBSET Nat
    BY <1>0 DEF GotFollows
  <2> QED BY <1>3, <1>4, <2>1, GreatestIs DEF Received
<1> QED BY <1>0, <1>5 DEF Covered, Excused, Received

\* What was received is in order.
LEMMA InOrderFollows ==
    ASSUME FollowInv
    PROVE  InOrder
<1> SUFFICES ASSUME NEW c \in Clients, NEW m \in DOMAIN got[c], NEW n \in DOMAIN got[c], m < n
             PROVE  got[c][m] < got[c][n] \/ (got[c][n] \in late /\ got[c][m] # got[c][n])
  BY DEF InOrder
<1>1. GotFollows(c) /\ 0 \notin saved
  BY IdsAreNat DEF FollowInv, RoomInv, ClientsInv, ClientFollows
<1>2. got[c][m] # Confirmation /\ got[c][n] # Confirmation
  BY <1>1 DEF GotFollows, Received, Range, Confirmation
<1> QED BY <1>1, <1>2 DEF GotFollows, Ordered, Follows

\* For any clients, queue and list sizes, numbers of tries and of faults: a client that follows
\* the room by its last id gets every change, once and in order, with the exceptions FollowsRoom
\* names (create_change, RedisPubSubHandler, ChannelHandler).
THEOREM FollowsRoomHolds == Spec => []FollowsRoom
<1>1. Init => FollowInv
  BY FollowStart
<1>2. FollowInv /\ [Next]_vars => FollowInv'
  BY FollowStep
<1>3. FollowInv => FollowsRoom
  BY NoGapFollows, InOrderFollows DEF FollowsRoom
<1> QED BY <1>1, <1>2, <1>3, PTL DEF Spec
=============================================================================
