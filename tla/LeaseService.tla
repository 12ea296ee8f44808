---------------------------- MODULE LeaseService ----------------------------
(***************************************************************************)
(* Account leases in the team API on SQLite (apps/api/src/services/sqlite). *)
(*                                                                         *)
(* A handler is one synchronous transaction, so it is one action.  A       *)
(* request is not: the route authenticates its sender first and then waits *)
(* for the body, and other handlers run in between; the role it goes on    *)
(* with is the one read then.  Requests without a body do both at once.    *)
(*                                                                         *)
(* Time is counted per lease: ticks since its last heartbeat, since its    *)
(* start, and left of its reconnect grace.                                 *)
(***************************************************************************)
EXTENDS Naturals, FiniteSets

CONSTANTS
    Users,
    Root,         \* the administrator the database is seeded with
    Accounts,
    Devices,
    Owner,        \* whose device it is
    Leases,       \* ids of account_sessions rows; a bound on how many there are
    None,
    StaleAfter,   \* 120 s without a heartbeat
    Grace,        \* 300 s for a client that is reconnecting
    Limit         \* 4 hours

ASSUME RootAssumption == Root \in Users /\ None \notin Users \cup Accounts \cup Devices
ASSUME OwnerAssumption == Owner \in [Devices -> Users]
ASSUME TimeAssumption == /\ StaleAfter \in Nat /\ Grace \in Nat /\ Limit \in Nat
                         /\ StaleAfter < Grace /\ Grace < Limit

VARIABLES
    user,         \* role and status of a user
    account,      \* "absent", "available", "closed" (maintenance or disabled), "deleted"
    assignment,   \* per account and user: "none", "revoked", "expired", "dated", "open"
    device,       \* "absent", "active" or "revoked"
    lease,        \* the account_sessions rows
    request,      \* the role an authenticated request waiting for its body has
    overdue       \* history: leases past the limit an acquisition met and left live

team == <<user, account, assignment, device>>
vars == <<team, lease, request, overdue>>

Roles == {"admin", "operator"}
NoLease == [st |-> "unused", user |-> None, account |-> None, device |-> None,
            silent |-> 0, age |-> 0, grace |-> 0]
Ended == [NoLease EXCEPT !.st = "ended"]
LeaseType == [st : {"unused", "live", "ended"}, user : Users \cup {None},
              account : Accounts \cup {None}, device : Devices \cup {None},
              silent : 0 .. StaleAfter + 1, age : 0 .. Limit + 1, grace : 0 .. Grace]

TypeOK ==
    /\ user \in [Users -> [role : Roles, status : {"absent", "active", "suspended"}]]
    /\ account \in [Accounts -> {"absent", "available", "closed", "deleted"}]
    /\ assignment \in [Accounts \X Users -> {"none", "revoked", "expired", "dated", "open"}]
    /\ device \in [Devices -> {"absent", "active", "revoked"}]
    /\ lease \in [Leases -> LeaseType]
    /\ request \in [Users -> Roles \cup {"none"}]
    /\ overdue \in SUBSET Leases

Init ==
    /\ user = [u \in Users |-> [role |-> IF u = Root THEN "admin" ELSE "operator",
                                status |-> IF u = Root THEN "active" ELSE "absent"]]
    /\ account = [a \in Accounts |-> "absent"]
    /\ assignment = [p \in Accounts \X Users |-> "none"]
    /\ device = [d \in Devices |-> "absent"]
    /\ lease = [l \in Leases |-> NoLease]
    /\ request = [u \in Users |-> "none"]
    /\ overdue = {}

-----------------------------------------------------------------------------
Live == {l \in Leases : lease[l].st = "live"}
LiveOn(a) == {l \in Live : lease[l].account = a}

\* The rows with S ended.
EndAll(S) == [l \in Leases |-> IF l \in S THEN Ended ELSE lease[l]]

\* Without an active assignment only administrators may use an account.
Entitled(u, a) == \/ user[u].role = "admin"
                  \/ assignment[<<a, u>>] \in {"dated", "open"}

\* currentUser(): only active users get past it.
Active(u) == user[u].status = "active"
ActiveAdmin(u) == Active(u) /\ user[u].role = "admin"

\* Mutant of Authenticate: the status is not asked.
AuthenticateAnyone(u) ==
    /\ request[u] = "none"
    /\ request' = [request EXCEPT ![u] = user[u].role]
    /\ UNCHANGED <<team, lease, overdue>>

Authenticate(u) ==
    /\ Active(u) /\ request[u] = "none"
    /\ request' = [request EXCEPT ![u] = user[u].role]
    /\ UNCHANGED <<team, lease, overdue>>

Done(u) == request[u] # "none" /\ request' = [request EXCEPT ![u] = "none"]

\* The body never comes or is invalid, or the handler throws and rolls back: an
\* acquisition that is refused, a heartbeat of a lease that ended, a release
\* with a reason the schema of the table rejects.
Fail(u) == Done(u) /\ UNCHANGED <<team, lease, overdue>>

-----------------------------------------------------------------------------
(* lease.service.ts                                                        *)

\* Mutant of Stale: a lease without a grace period is not stale.
StaleInGrace(l) == lease[l].silent > StaleAfter /\ lease[l].grace > 0

Stale(l) == lease[l].silent > StaleAfter /\ lease[l].grace = 0
Reaped == {l \in Live : Stale(l)}

\* The timer, and every dashboard that is opened.
Reap ==
    /\ Reaped # {}
    /\ lease' = EndAll(Reaped)
    /\ UNCHANGED <<team, request, overdue>>

\* What acquireLease() asks before it looks for a live lease.
MayAcquire(u, a, d) ==
    /\ Entitled(u, a)
    /\ Owner[d] = u /\ device[d] = "active"
    /\ account[a] = "available"

\* Mutant of Standing: leases past the limit are passed over.
StandingInTime(a) == {l \in LiveOn(a) \ Reaped : lease[l].age <= Limit}

\* The live leases of a left after the reaper pass acquireLease() starts with.
Standing(a) == LiveOn(a) \ Reaped

\* The id of a new row; one that nobody has used is as good as another.
FreshId == CHOOSE l \in Leases : lease[l].st = "unused"

Acquire(u, a, d) ==
    /\ Done(u)
    /\ MayAcquire(u, a, d)
    /\ Standing(a) = {}
    /\ \E l \in Leases :
        /\ lease[l].st = "unused" /\ l = FreshId
        /\ lease' = [EndAll(Reaped) EXCEPT
                        ![l] = [NoLease EXCEPT !.st = "live", !.user = u,
                                               !.account = a, !.device = d]]
    /\ UNCHANGED <<team, overdue>>

\* The holder asks again from the same device and is given the lease it has.
Reacquire(u, a, d) ==
    /\ Done(u)
    /\ MayAcquire(u, a, d)
    /\ \E l \in Standing(a) :
        lease[l].age <= Limit /\ lease[l].user = u /\ lease[l].device = d
    /\ lease' = EndAll(Reaped)
    /\ UNCHANGED <<team, overdue>>

\* A lease past the limit is to end as 'lease_timeout', which the CHECK of the
\* column does not allow: the update throws and everything is rolled back.
AcquireOverdue(u, a, d) ==
    /\ Done(u)
    /\ MayAcquire(u, a, d)
    /\ \E l \in Standing(a) : lease[l].age > Limit /\ overdue' = overdue \cup {l}
    /\ UNCHANGED <<team, lease>>

\* Mutant of Heartbeat: the assignment is not asked.
HeartbeatAlways(u, l, exited, reconnecting) ==
    /\ Done(u)
    /\ l \in Live /\ lease[l].user = u
    /\ lease' = IF exited THEN EndAll({l})
                ELSE [lease EXCEPT ![l] = [@ EXCEPT !.silent = 0,
                                                    !.grace = IF reconnecting THEN Grace
                                                              ELSE 0]]
    /\ UNCHANGED <<team, overdue>>

\* Only the id and the user are asked, never how long the lease was silent.
Heartbeat(u, l, exited, reconnecting) ==
    /\ Done(u)
    /\ l \in Live /\ lease[l].user = u
    /\ lease' = IF exited \/ ~Entitled(u, lease[l].account) THEN EndAll({l})
                ELSE [lease EXCEPT ![l] = [@ EXCEPT !.silent = 0,
                                                    !.grace = IF reconnecting THEN Grace
                                                              ELSE 0]]
    /\ UNCHANGED <<team, overdue>>

\* Releasing a lease that has ended changes no more than its reason: see Fail.
Release(u, l) ==
    /\ Done(u)
    /\ l \in Live
    /\ lease[l].user = u \/ request[u] = "admin"
    /\ lease' = EndAll({l})
    /\ UNCHANGED <<team, overdue>>

ForceRelease(u, a) ==
    /\ ActiveAdmin(u)
    /\ LiveOn(a) # {}
    /\ lease' = EndAll(LiveOn(a))
    /\ UNCHANGED <<team, request, overdue>>

-----------------------------------------------------------------------------
(* auth.service.ts                                                         *)

CreateUser(by, u, role) ==
    /\ Done(by) /\ request[by] = "admin"
    /\ user[u].status = "absent"
    /\ user' = [user EXCEPT ![u] = [role |-> role, status |-> "active"]]
    /\ UNCHANGED <<account, assignment, device, lease, overdue>>

\* Mutant of LastAdmin: suspended administrators count.
LastOfRole(u) == /\ ActiveAdmin(u)
                 /\ \A v \in Users \ {u} : user[v].role # "admin"

\* LAST_ADMIN_REQUIRED
LastAdmin(u) == /\ ActiveAdmin(u)
                /\ \A v \in Users \ {u} : ~ActiveAdmin(v)

\* A role or a status that is left out is the one the user has; "same" is a
\* status left out, which ends no lease of a user who is suspended already.
UpdateUser(by, u, role, status) ==
    /\ Done(by) /\ request[by] = "admin"
    /\ user[u].status # "absent"
    /\ ~(by = u /\ status = "suspended")
    /\ LastAdmin(u) => role = "admin" /\ status # "suspended"
    /\ user' = [user EXCEPT ![u] =
                    [role |-> role, status |-> IF status = "same" THEN @.status ELSE status]]
    /\ lease' = IF status = "suspended" THEN EndAll({l \in Live : lease[l].user = u})
                ELSE lease
    /\ UNCHANGED <<account, assignment, device, overdue>>

-----------------------------------------------------------------------------
(* account.service.ts                                                      *)

CreateAccount(by, a, status) ==
    /\ Done(by) /\ request[by] = "admin"
    /\ account[a] = "absent"
    /\ account' = [account EXCEPT ![a] = status]
    /\ UNCHANGED <<user, assignment, device, lease, overdue>>

\* Mutant of UpdateAccount: leases are not asked.
UpdateAccountAnyway(by, a, status) ==
    /\ Done(by) /\ request[by] = "admin"
    /\ account[a] \in {"available", "closed"}
    /\ account' = [account EXCEPT ![a] = status]
    /\ UNCHANGED <<user, assignment, device, lease, overdue>>

UpdateAccount(by, a, status) ==
    /\ Done(by) /\ request[by] = "admin"
    /\ account[a] \in {"available", "closed"}
    /\ status = "closed" /\ account[a] # "closed" => LiveOn(a) = {}
    /\ account' = [account EXCEPT ![a] = status]
    /\ UNCHANGED <<user, assignment, device, lease, overdue>>

\* Its assignments and its ended leases stay: export() in save() (database.ts:182)
\* opens the database anew, without the foreign keys that would delete them.
DeleteAccount(by, a) ==
    /\ ActiveAdmin(by)
    /\ account[a] \in {"available", "closed"}
    /\ LiveOn(a) = {}
    /\ account' = [account EXCEPT ![a] = "deleted"]
    /\ UNCHANGED <<user, assignment, device, lease, request, overdue>>

-----------------------------------------------------------------------------
(* admin.service.ts and device.service.ts                                  *)

AddAssignment(by, a, u, term) ==
    /\ Done(by) /\ request[by] = "admin"
    /\ account[a] = "available"
    /\ Active(u) /\ user[u].role # "admin"
    /\ assignment' = [assignment EXCEPT ![<<a, u>>] = term]
    /\ UNCHANGED <<user, account, device, lease, overdue>>

RevokeAssignment(by, a, u) ==
    /\ ActiveAdmin(by)
    /\ assignment[<<a, u>>] # "none"
    /\ assignment' = [assignment EXCEPT ![<<a, u>>] = "revoked"]
    /\ lease' = EndAll({l \in LiveOn(a) : lease[l].user = u})
    /\ UNCHANGED <<user, account, device, request, overdue>>

RegisterDevice(u, d) ==
    /\ Done(u)
    /\ Owner[d] = u /\ device[d] # "revoked"
    /\ device' = [device EXCEPT ![d] = "active"]
    /\ UNCHANGED <<user, account, assignment, lease, overdue>>

ApproveDevice(by, d) ==
    /\ ActiveAdmin(by)
    /\ device[d] # "absent"
    /\ device' = [device EXCEPT ![d] = "active"]
    /\ UNCHANGED <<user, account, assignment, lease, request, overdue>>

\* Mutant of RevokeDevice: its leases go on.
RevokeDeviceOnly(by, d) ==
    /\ ActiveAdmin(by)
    /\ device[d] # "absent"
    /\ device' = [device EXCEPT ![d] = "revoked"]
    /\ UNCHANGED <<user, account, assignment, lease, request, overdue>>

RevokeDevice(by, d) ==
    /\ ActiveAdmin(by)
    /\ device[d] # "absent"
    /\ device' = [device EXCEPT ![d] = "revoked"]
    /\ lease' = EndAll({l \in Live : lease[l].device = d})
    /\ UNCHANGED <<user, account, assignment, request, overdue>>

-----------------------------------------------------------------------------
(* Time.                                                                   *)

AtMost(n, bound) == IF n <= bound THEN n ELSE bound

\* Ages are not told apart beyond the bound they are compared with.
Tick ==
    /\ lease' = [l \in Leases |->
            IF l \notin Live THEN lease[l]
            ELSE [lease[l] EXCEPT !.silent = AtMost(@ + 1, StaleAfter + 1),
                                  !.age = AtMost(@ + 1, Limit + 1),
                                  !.grace = IF @ > 0 THEN @ - 1 ELSE 0]]
    /\ UNCHANGED <<team, request, overdue>>

\* expires_at passes; the row itself stays as it is.
AssignmentExpires(a, u) ==
    /\ assignment[<<a, u>>] = "dated"
    /\ assignment' = [assignment EXCEPT ![<<a, u>>] = "expired"]
    /\ UNCHANGED <<user, account, device, lease, request, overdue>>

-----------------------------------------------------------------------------
Operator(u) ==
    \/ Authenticate(u)
    \/ Fail(u)
    \/ \E a \in Accounts, d \in Devices :
        Acquire(u, a, d) \/ Reacquire(u, a, d) \/ AcquireOverdue(u, a, d)
    \/ \E l \in Leases, exited, reconnecting \in BOOLEAN :
        Heartbeat(u, l, exited, reconnecting)
    \/ \E l \in Leases : Release(u, l)
    \/ \E d \in Devices : RegisterDevice(u, d)

Administrator(by) ==
    \/ \E u \in Users, role \in Roles : CreateUser(by, u, role)
    \/ \E u \in Users, role \in Roles, status \in {"same", "active", "suspended"} :
        UpdateUser(by, u, role, status)
    \/ \E a \in Accounts, status \in {"available", "closed"} :
        CreateAccount(by, a, status) \/ UpdateAccount(by, a, status)
    \/ \E a \in Accounts : DeleteAccount(by, a) \/ ForceRelease(by, a)
    \/ \E a \in Accounts, u \in Users, term \in {"dated", "open"} :
        AddAssignment(by, a, u, term)
    \/ \E a \in Accounts, u \in Users : RevokeAssignment(by, a, u)
    \/ \E d \in Devices : ApproveDevice(by, d) \/ RevokeDevice(by, d)

Next ==
    \/ \E u \in Users : Operator(u) \/ Administrator(u)
    \/ Reap
    \/ Tick
    \/ \E a \in Accounts, u \in Users : AssignmentExpires(a, u)

Spec == Init /\ [][Next]_vars

\* Time passes and the reaper's timer fires.  No user is obliged to anything.
FairSpec == Spec /\ WF_vars(Tick) /\ WF_vars(Reap)

-----------------------------------------------------------------------------
(* Properties.                                                             *)

\* However claims, releases, heartbeats and administration overlap, an account
\* is on loan to at most one lease, and a lease that ended never returns.  The
\* checks of acquireLease() are enough; the unique index of the table is not
\* modelled and never needed.
Granted == {l \in Leases : lease[l].st # "unused"}
Abstract == INSTANCE AccountLease WITH
                holders <- [a \in Accounts |-> LiveOn(a)], granted <- Granted
OneHolder == Abstract!Spec

\* A leased account is in service: neither maintenance nor deletion overtakes a
\* lease, whichever request was first.
LeasedInService == \A l \in Live : account[lease[l].account] = "available"

\* A live lease is held from a device of its holder that nobody revoked.
LeasedFromTrusted ==
    \A l \in Live : /\ device[lease[l].device] = "active"
                    /\ Owner[lease[l].device] = lease[l].user

\* There is always an administrator who can sign in: no two updates, of roles
\* or statuses, by administrators demoted meanwhile, take away the last one.
AdminRemains == \E u \in Users : ActiveAdmin(u)

\* acquireLease() ends a lease older than four hours it meets.
LongLeaseExpires == overdue = {}

\* No lease stays live while its client is silent.
SilentLeaseEnds == \A l \in Leases : []<>(l \in Live => lease[l].silent = 0)

Holds(u, a) == \E l \in LiveOn(a) : lease[l].user = u

\* Who loses the right to an account, by expiry, revocation or a change of role,
\* loses the lease too, however eagerly the client sends heartbeats.
LostEntitlementEnds ==
    \A u \in Users, a \in Accounts :
        <>[]~Entitled(u, a) => <>[]~Holds(u, a)

\* A user who stays suspended ends up without leases, also without the one a
\* request that was already authenticated acquired afterwards.
SuspensionEnds ==
    \A u \in Users : <>[]~Active(u) => <>[](\A a \in Accounts : ~Holds(u, a))

=============================================================================
