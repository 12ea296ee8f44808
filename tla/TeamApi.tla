------------------------------ MODULE TeamApi ------------------------------
(***************************************************************************)
(* The team API on Supabase (apps/api/src/services/supabase and the stored *)
(* procedures of the last migration), as the desktop and the admin console *)
(* use it.                                                                 *)
(*                                                                         *)
(* Unlike the SQLite services, a service here is a sequence of statements, *)
(* each a request of its own to the database, and others run in between.   *)
(* A stored procedure is one transaction; it reads users, assignments and  *)
(* devices without locks before it locks the account's row.  A service     *)
(* whose database request fails stops half way.                            *)
(***************************************************************************)
EXTENDS Naturals, FiniteSets

CONSTANTS
    Users,      \* those who lease; an administrator besides them is always there
    Managed,    \* those of them whom administrators deal with
    Accounts,
    MaxLeases,  \* bound on the account_sessions rows
    None,
    MaxEvents   \* bound on what users and administrators do

ASSUME TeamAssumption ==
    /\ MaxLeases \in Nat \ {0} /\ MaxEvents \in Nat
    /\ None \notin Nat \cup Accounts
    /\ Managed \subseteq Users

Leases == 1 .. MaxLeases

VARIABLES
    user,       \* role and status
    account,    \* status, and whether a login is stored for it
    assigned,   \* pairs <<account, user>> assigned and not expired
    device,     \* of each user (one): "active" or "revoked"
    enrolling,  \* registrations between reading a device and writing it
    lease,      \* the account_sessions rows
    admin,      \* what is left to do of an administrator's request
    events      \* what users and administrators did so far

team == <<user, account, assigned, device, enrolling>>
apiVars == <<team, lease, admin, events>>

Rows == [st : {"unused", "live", "ended", "deleted"}, user : Users \cup {None},
         account : Accounts \cup {None}, fresh : BOOLEAN]
NoRow == [st |-> "unused", user |-> None, account |-> None, fresh |-> FALSE]

Live == {l \in Leases : lease[l].st = "live"}
LiveOn(a) == {l \in Live : lease[l].account = a}
LiveOf(u) == {l \in Live : lease[l].user = u}
EndAll(S) == [l \in Leases |-> IF l \in S THEN [lease[l] EXCEPT !.st = "ended", !.fresh = FALSE] ELSE lease[l]]
NextId == {l \in Leases : lease[l].st = "unused" /\ \A k \in 1 .. l - 1 : lease[k].st # "unused"}

-----------------------------------------------------------------------------
(* What the window asks for (leases.routes.ts, lease.service.ts)           *)

\* currentUser() of every route
Active(u) == user[u].active
Entitled(u, a) == user[u].role = "admin" \/ <<a, u>> \in assigned

\* acquire_account_lease_for_user(), up to the lock on the account's row
MayAcquire(u, a) == Active(u) /\ Entitled(u, a) /\ device[u] = "active"

NewRow(u, a) == [st |-> "live", user |-> u, account |-> a, fresh |-> TRUE]

\* Mutant of Acquired: a live lease of somebody else does not stand in the way.
AcquiredShared(u, a) ==
    IF account[a].status # "available" THEN {}
    ELSE {[id |-> l, rows |-> [lease EXCEPT ![l] = NewRow(u, a)]] : l \in NextId}

\* The rest of it: the lease granted and the rows it leaves, nothing when it
\* refuses.  A silent lease ends, one's own is handed out again, and that of
\* another stands.
Acquired(u, a) ==
    LET standing == {l \in LiveOn(a) : lease[l].fresh}
    IN  IF account[a].status # "available" THEN {}
        ELSE IF standing # {}
        THEN {[id |-> l, rows |-> lease] : l \in standing \cap LiveOf(u)}
        ELSE {[id |-> l, rows |-> [EndAll(LiveOn(a)) EXCEPT ![l] = NewRow(u, a)]] : l \in NextId}

\* Mutant of Heartbeat: the assignment is not asked again.
HeartbeatAnyway(u, l) ==
    IF l \notin LiveOf(u) THEN [code |-> "SESSION_NOT_FOUND", rows |-> lease]
    ELSE [code |-> "ok", rows |-> [lease EXCEPT ![l].fresh = TRUE]]

\* heartbeat_account_session_for_user(): the device and the status are not asked
Heartbeat(u, l) ==
    IF l \notin LiveOf(u) THEN [code |-> "SESSION_NOT_FOUND", rows |-> lease]
    ELSE IF ~Entitled(u, lease[l].account)
    THEN [code |-> "ASSIGNMENT_EXPIRED", rows |-> EndAll({l})]
    ELSE [code |-> "ok", rows |-> [lease EXCEPT ![l].fresh = TRUE]]

ReleaseReasons == {"manual", "logout", "lease_timeout", "admin_force_release", "error"}

\* release_account_lease_for_user(): also of a lease that has ended
Release(u, l, reason) ==
    IF /\ reason \in ReleaseReasons
       /\ lease[l].st \in {"live", "ended"}
       /\ lease[l].user = u \/ user[u].role = "admin"
    THEN [code |-> "ok", rows |-> EndAll({l} \cap Live)]
    ELSE [code |-> "refused", rows |-> lease]

\* getAccountSessionBlob()
HandsOutBlob(u, l) == l \in LiveOf(u) /\ account[lease[l].account].blob

-----------------------------------------------------------------------------
(* Administrators, from the console or a window.  They are not among Users, *)
(* so that the refusals to lock oneself or the last one out never apply.   *)

Event == events < MaxEvents /\ events' = events + 1

Nobody == [op |-> "none"]

\* a request of an administrator that leaves rest to be done
Begin(rest) ==
    /\ admin = Nobody
    /\ Event
    /\ admin' = rest

\* a service that ended these leases: status first, then whose leases are live
EndingOf(u, on) == [op |-> "end", user |-> u, on |-> on]

\* the role or the status
updateUser == \E u \in Managed, role \in {"operator", "admin"}, active \in BOOLEAN :
    /\ user[u].role = role \/ user[u].active = active
    /\ user' = [user EXCEPT ![u] = [role |-> role, active |-> active]]
    /\ user' # user
    /\ Begin(IF active THEN Nobody ELSE EndingOf(u, Accounts))
    /\ UNCHANGED <<account, assigned, device, enrolling, lease>>

revokeDevice == \E u \in Managed :
    /\ device' = [device EXCEPT ![u] = "revoked"]
    /\ Begin(EndingOf(u, Accounts))
    /\ UNCHANGED <<user, account, assigned, enrolling, lease>>

approveDevice == \E u \in Managed :
    /\ device[u] = "revoked" /\ device' = [device EXCEPT ![u] = "active"]
    /\ Begin(Nobody)
    /\ UNCHANGED <<user, account, assigned, enrolling, lease>>

addAssignment == \E a \in Accounts, u \in Managed :
    /\ account[a].status = "available" /\ Active(u) /\ user[u].role # "admin"
    /\ assigned' = assigned \cup {<<a, u>>} /\ assigned' # assigned
    /\ Begin(Nobody)
    /\ UNCHANGED <<user, account, device, enrolling, lease>>

revokeAssignment == \E a \in Accounts, u \in Managed :
    /\ assigned' = assigned \ {<<a, u>>} /\ assigned' # assigned
    /\ Begin(EndingOf(u, {a}))
    /\ UNCHANGED <<user, account, device, enrolling, lease>>

\* the last statements of these services: select the live leases, end them
EndSessions ==
    /\ admin.op = "end"
    /\ lease' = EndAll({l \in LiveOf(admin.user) : lease[l].account \in admin.on})
    /\ admin' = Nobody
    /\ UNCHANGED <<team, events>>

\* busy is asked first, the account is written afterwards
updateAccount == \E a \in Accounts, status \in {"available", "closed"} :
    /\ account[a].status \in {"available", "closed"} \ {status}
    /\ status = "closed" => LiveOn(a) = {}
    /\ Begin([op |-> "write", account |-> a, status |-> status])
    /\ UNCHANGED <<team, lease>>

deleteAccount == \E a \in Accounts :
    /\ account[a].status # "deleted" /\ LiveOn(a) = {}
    /\ Begin([op |-> "write", account |-> a, status |-> "deleted"])
    /\ UNCHANGED <<team, lease>>

\* its leases are deleted with an account
WriteAccount ==
    /\ admin.op = "write"
    /\ account' = [account EXCEPT ![admin.account].status = admin.status]
    /\ lease' = [l \in Leases |-> IF /\ admin.status = "deleted"
                                     /\ lease[l].account = admin.account
                                  THEN [NoRow EXCEPT !.st = "deleted"] ELSE lease[l]]
    /\ admin' = Nobody
    /\ UNCHANGED <<user, assigned, device, enrolling, events>>

SessionBlobs(a, blob) ==
    /\ account[a].status # "deleted" /\ account[a].blob # blob
    /\ account' = [account EXCEPT ![a].blob = blob]
    /\ Begin(Nobody)
    /\ UNCHANGED <<user, assigned, device, enrolling, lease>>

saveAccountSessionBlob == \E a \in Accounts : SessionBlobs(a, TRUE)
deleteAccountSessionBlob == \E a \in Accounts : SessionBlobs(a, FALSE)

\* each of the account's live leases is released by itself
forceReleaseAccount == \E a \in Accounts :
    /\ LiveOn(a) # {}
    /\ lease' = EndAll(LiveOn(a))
    /\ Begin(Nobody)
    /\ UNCHANGED team

\* a database request of the service fails: the rest is not done
ServiceFails == admin # Nobody /\ admin' = Nobody /\ UNCHANGED <<team, lease, events>>

Administration ==
    \/ updateUser \/ revokeDevice \/ approveDevice \/ addAssignment \/ revokeAssignment
    \/ EndSessions \/ updateAccount \/ deleteAccount \/ WriteAccount
    \/ saveAccountSessionBlob \/ deleteAccountSessionBlob \/ forceReleaseAccount
    \/ ServiceFails

-----------------------------------------------------------------------------
(* Devices, other operators, and time                                      *)

\* registerDevice(): what is read is not revoked, what is written is active
RegisterDevice(u) ==
    /\ \/ /\ u \notin enrolling /\ device[u] = "active" /\ Event
          /\ enrolling' = enrolling \cup {u} /\ UNCHANGED device
       \/ /\ u \in enrolling /\ enrolling' = enrolling \ {u}
          /\ device' = [device EXCEPT ![u] = "active"] /\ UNCHANGED events
    /\ UNCHANGED <<user, account, assigned, lease, admin>>

\* another operator acquires or releases
OtherOperator(u) ==
    /\ \/ \E a \in Accounts : MayAcquire(u, a) /\
            \E granted \in Acquired(u, a) : lease' = granted.rows
       \/ \E l \in LiveOf(u) : Active(u) /\ lease' = Release(u, l, "manual").rows
    /\ lease' # lease
    /\ Event
    /\ UNCHANGED <<team, admin>>

\* 120 seconds have passed without a heartbeat (and its reconnect grace, which
\* the window never asks for)
FallsSilent(l) ==
    /\ l \in Live /\ lease[l].fresh
    /\ lease' = [lease EXCEPT ![l].fresh = FALSE]
    /\ UNCHANGED <<team, admin, events>>

\* Mutant of Silent: leases of administrators are spared.
SilentOperators == {l \in Live : ~lease[l].fresh /\ user[lease[l].user].role # "admin"}

Silent == {l \in Live : ~lease[l].fresh}

\* reap_stale_account_sessions(): by the database every minute, and by every
\* dashboard that is opened
Reap ==
    /\ Silent # {}
    /\ lease' = EndAll(Silent)
    /\ UNCHANGED <<team, admin, events>>

AssignmentExpires == \E p \in assigned \cap (Accounts \X Managed) :
    /\ assigned' = assigned \ {p}
    /\ Event
    /\ UNCHANGED <<user, account, device, enrolling, lease, admin>>

ApiInit ==
    /\ user = [u \in Users |-> [role |-> "operator", active |-> TRUE]]
    /\ account = [a \in Accounts |-> [status |-> "available", blob |-> TRUE]]
    /\ assigned = Accounts \X Users
    /\ device = [u \in Users |-> "active"]
    /\ enrolling = {}
    /\ admin = Nobody /\ events = 0

ApiTypeOK ==
    /\ user \in [Users -> [role : {"operator", "admin"}, active : BOOLEAN]]
    /\ account \in [Accounts -> [status : {"available", "closed", "deleted"}, blob : BOOLEAN]]
    /\ assigned \subseteq Accounts \X Users
    /\ device \in [Users -> {"active", "revoked"}]
    /\ enrolling \subseteq Users
    /\ lease \in [Leases -> Rows]
    /\ admin.op \in {"none", "end", "write"}
    /\ events \in 0 .. MaxEvents

=============================================================================
