---------------------------- MODULE LeaseProofs ----------------------------
(***************************************************************************)
(* Proofs about LeaseService for every number of users, accounts, devices  *)
(* and leases and every choice of the three time limits.                   *)
(***************************************************************************)
EXTENDS LeaseService, TLAPS

-----------------------------------------------------------------------------
(* Types.                                                                  *)

\* The row types contain the rows the handlers write.
LEMMA RowTypes == NoLease \in LeaseType /\ Ended \in LeaseType
  BY TimeAssumption DEF NoLease, Ended, LeaseType

\* Ending leases keeps the table well typed.
LEMMA EndAllType ==
    ASSUME lease \in [Leases -> LeaseType], NEW S
    PROVE  EndAll(S) \in [Leases -> LeaseType]
  BY RowTypes DEF EndAll

\* A capped counter stays under its cap.
LEMMA AtMostType ==
    ASSUME NEW b \in Nat, NEW n \in 0 .. b
    PROVE  AtMost(n + 1, b) \in 0 .. b
  BY DEF AtMost

LEMMA DoneType ==
    ASSUME request \in [Users -> Roles \cup {"none"}], NEW u \in Users, Done(u)
    PROVE  request' \in [Users -> Roles \cup {"none"}]
  BY DEF Done

LEMMA AcquireType ==
    ASSUME TypeOK, NEW u \in Users, NEW a \in Accounts, NEW d \in Devices, Acquire(u, a, d)
    PROVE  TypeOK'
<1>1. EndAll(Reaped) \in [Leases -> LeaseType]
  BY EndAllType DEF TypeOK
<1>2. [NoLease EXCEPT !.st = "live", !.user = u, !.account = a, !.device = d] \in LeaseType
  BY RowTypes DEF LeaseType
<1>3. lease' \in [Leases -> LeaseType]
  BY <1>1, <1>2 DEF Acquire
<1>4. request' \in [Users -> Roles \cup {"none"}]
  BY DoneType DEF Acquire, TypeOK
<1> QED BY <1>3, <1>4 DEF Acquire, TypeOK, team

LEMMA HeartbeatType ==
    ASSUME TypeOK, NEW u \in Users, NEW l \in Leases, NEW exited \in BOOLEAN,
           NEW reconnecting \in BOOLEAN, Heartbeat(u, l, exited, reconnecting)
    PROVE  TypeOK'
<1>1. EndAll({l}) \in [Leases -> LeaseType]
  BY EndAllType DEF TypeOK
<1>2. [lease[l] EXCEPT !.silent = 0, !.grace = IF reconnecting THEN Grace ELSE 0]
          \in LeaseType
  <2>1. lease[l] \in LeaseType
    BY DEF TypeOK
  <2>2. 0 \in 0 .. StaleAfter + 1 /\ Grace \in 0 .. Grace /\ 0 \in 0 .. Grace
    BY TimeAssumption
  <2> QED BY <2>1, <2>2 DEF LeaseType
<1>3. lease' \in [Leases -> LeaseType]
  BY <1>1, <1>2 DEF Heartbeat, TypeOK
<1>4. request' \in [Users -> Roles \cup {"none"}]
  BY DoneType DEF Heartbeat, TypeOK
<1> QED BY <1>3, <1>4 DEF Heartbeat, TypeOK, team

LEMMA TickType ==
    ASSUME TypeOK, Tick
    PROVE  TypeOK'
<1>1. ASSUME NEW r \in LeaseType
      PROVE  [r EXCEPT !.silent = AtMost(@ + 1, StaleAfter + 1),
                       !.age = AtMost(@ + 1, Limit + 1),
                       !.grace = IF @ > 0 THEN @ - 1 ELSE 0] \in LeaseType
  <2>1. r.silent \in 0 .. StaleAfter + 1 /\ r.age \in 0 .. Limit + 1 /\ r.grace \in 0 .. Grace
    BY DEF LeaseType
  <2>2. /\ AtMost(r.silent + 1, StaleAfter + 1) \in 0 .. StaleAfter + 1
        /\ AtMost(r.age + 1, Limit + 1) \in 0 .. Limit + 1
    BY <2>1, AtMostType, TimeAssumption
  <2>3. (IF r.grace > 0 THEN r.grace - 1 ELSE 0) \in 0 .. Grace
    BY <2>1, TimeAssumption
  <2> QED BY <2>2, <2>3 DEF LeaseType
<1>2. lease' \in [Leases -> LeaseType]
  BY <1>1 DEF Tick, TypeOK
<1> QED BY <1>2 DEF Tick, TypeOK, team

\* Every step keeps every variable in its type.
LEMMA TypeStep == TypeOK /\ [Next]_vars => TypeOK'
<1> SUFFICES ASSUME TypeOK, [Next]_vars PROVE TypeOK'
  OBVIOUS
<1>1. ASSUME NEW u \in Users, Operator(u) PROVE TypeOK'
  <2>1. CASE Authenticate(u)
    BY <2>1 DEF Authenticate, TypeOK, team
  <2>2. CASE Fail(u)
    BY <2>2, DoneType DEF Fail, TypeOK, team
  <2>3. ASSUME NEW a \in Accounts, NEW d \in Devices, Acquire(u, a, d) PROVE TypeOK'
    BY <2>3, AcquireType
  <2>4. ASSUME NEW a \in Accounts, NEW d \in Devices, Reacquire(u, a, d) PROVE TypeOK'
    BY <2>4, DoneType, EndAllType DEF Reacquire, TypeOK, team
  <2>5. ASSUME NEW a \in Accounts, NEW d \in Devices, AcquireOverdue(u, a, d) PROVE TypeOK'
    BY <2>5, DoneType DEF AcquireOverdue, Standing, LiveOn, Live, TypeOK, team
  <2>6. ASSUME NEW l \in Leases, NEW exited \in BOOLEAN, NEW reconnecting \in BOOLEAN,
               Heartbeat(u, l, exited, reconnecting)
        PROVE  TypeOK'
    BY <2>6, HeartbeatType
  <2>7. ASSUME NEW l \in Leases, Release(u, l) PROVE TypeOK'
    BY <2>7, DoneType, EndAllType DEF Release, TypeOK, team
  <2>8. ASSUME NEW d \in Devices, RegisterDevice(u, d) PROVE TypeOK'
    BY <2>8, DoneType DEF RegisterDevice, TypeOK
  <2> QED BY <1>1, <2>1, <2>2, <2>3, <2>4, <2>5, <2>6, <2>7, <2>8 DEF Operator
<1>2. ASSUME NEW by \in Users, Administrator(by) PROVE TypeOK'
  <2>1. ASSUME NEW u \in Users, NEW role \in Roles, CreateUser(by, u, role) PROVE TypeOK'
    BY <2>1, DoneType DEF CreateUser, TypeOK
  <2>2. ASSUME NEW u \in Users, NEW role \in Roles,
               NEW status \in {"same", "active", "suspended"}, UpdateUser(by, u, role, status)
        PROVE  TypeOK'
    BY <2>2, DoneType, EndAllType DEF UpdateUser, TypeOK
  <2>3. ASSUME NEW a \in Accounts, NEW status \in {"available", "closed"},
               CreateAccount(by, a, status) \/ UpdateAccount(by, a, status)
        PROVE  TypeOK'
    BY <2>3, DoneType DEF CreateAccount, UpdateAccount, TypeOK
  <2>4. ASSUME NEW a \in Accounts, DeleteAccount(by, a) PROVE TypeOK'
    BY <2>4 DEF DeleteAccount, TypeOK
  <2>5. ASSUME NEW a \in Accounts, ForceRelease(by, a) PROVE TypeOK'
    BY <2>5, EndAllType DEF ForceRelease, TypeOK, team
  <2>6. ASSUME NEW a \in Accounts, NEW u \in Users, NEW term \in {"dated", "open"},
               AddAssignment(by, a, u, term)
        PROVE  TypeOK'
    BY <2>6, DoneType DEF AddAssignment, TypeOK
  <2>7. ASSUME NEW a \in Accounts, NEW u \in Users, RevokeAssignment(by, a, u) PROVE TypeOK'
    BY <2>7, EndAllType DEF RevokeAssignment, TypeOK
  <2>8. ASSUME NEW d \in Devices, ApproveDevice(by, d) PROVE TypeOK'
    BY <2>8 DEF ApproveDevice, TypeOK
  <2>9. ASSUME NEW d \in Devices, RevokeDevice(by, d) PROVE TypeOK'
    BY <2>9, EndAllType DEF RevokeDevice, TypeOK
  <2> QED BY <1>2, <2>1, <2>2, <2>3, <2>4, <2>5, <2>6, <2>7, <2>8, <2>9 DEF Administrator
<1>3. CASE Reap
  BY <1>3, EndAllType DEF Reap, TypeOK, team
<1>4. CASE Tick
  BY <1>4, TickType
<1>5. ASSUME NEW a \in Accounts, NEW u \in Users, AssignmentExpires(a, u) PROVE TypeOK'
  BY <1>5 DEF AssignmentExpires, TypeOK
<1>6. CASE UNCHANGED vars
  BY <1>6 DEF vars, team, TypeOK
<1> QED BY <1>1, <1>2, <1>3, <1>4, <1>5, <1>6 DEF Next

LEMMA TypeInit == Init => TypeOK
  BY RowTypes, RootAssumption DEF Init, TypeOK, Roles

\* The variables of the lease service keep their types.
THEOREM TypeCorrect == Spec => []TypeOK
  BY TypeInit, TypeStep, PTL DEF Spec

-----------------------------------------------------------------------------
(* Who holds a lease.                                                      *)

\* No lease becomes live, changes hands or is ended and granted again.
OnlyEnds ==
    \A l \in Leases :
        /\ l \in Live' => /\ l \in Live
                         /\ lease'[l].user = lease[l].user
                         /\ lease'[l].account = lease[l].account
                         /\ lease'[l].device = lease[l].device
        /\ (lease'[l].st = "unused") <=> (lease[l].st = "unused")

Acquired == \E u \in Users, a \in Accounts, d \in Devices : Acquire(u, a, d)

LEMMA EndAllOnlyEnds ==
    ASSUME NEW S, S \subseteq Live, lease' = EndAll(S)
    PROVE  OnlyEnds
  BY DEF OnlyEnds, EndAll, Live, Ended, NoLease

LEMMA SameOnlyEnds == ASSUME UNCHANGED lease PROVE OnlyEnds
  BY DEF OnlyEnds, Live

\* Acquire is the only step that makes a lease live.
LEMMA HolderStep == TypeOK /\ [Next]_vars => Acquired \/ OnlyEnds
<1> SUFFICES ASSUME TypeOK, [Next]_vars PROVE Acquired \/ OnlyEnds
  OBVIOUS
<1>1. ASSUME NEW u \in Users, Operator(u) PROVE Acquired \/ OnlyEnds
  <2>1. CASE Authenticate(u) \/ Fail(u)
    BY <2>1, SameOnlyEnds DEF Authenticate, Fail
  <2>2. ASSUME NEW a \in Accounts, NEW d \in Devices, Acquire(u, a, d) PROVE Acquired
    BY <2>2 DEF Acquired
  <2>3. ASSUME NEW a \in Accounts, NEW d \in Devices, Reacquire(u, a, d) PROVE OnlyEnds
    BY <2>3, EndAllOnlyEnds DEF Reacquire, Reaped
  <2>4. ASSUME NEW a \in Accounts, NEW d \in Devices, AcquireOverdue(u, a, d) PROVE OnlyEnds
    BY <2>4, SameOnlyEnds DEF AcquireOverdue
  <2>5. ASSUME NEW l \in Leases, NEW exited \in BOOLEAN, NEW reconnecting \in BOOLEAN,
               Heartbeat(u, l, exited, reconnecting)
        PROVE  OnlyEnds
    <3>1. CASE lease' = EndAll({l})
      BY <2>5, <3>1, EndAllOnlyEnds DEF Heartbeat
    <3>2. CASE lease' = [lease EXCEPT ![l] = [@ EXCEPT !.silent = 0,
                                !.grace = IF reconnecting THEN Grace ELSE 0]]
      BY <3>2 DEF OnlyEnds, Live, TypeOK, LeaseType
    <3> QED BY <2>5, <3>1, <3>2 DEF Heartbeat
  <2>6. ASSUME NEW l \in Leases, Release(u, l) PROVE OnlyEnds
    BY <2>6, EndAllOnlyEnds DEF Release
  <2>7. ASSUME NEW d \in Devices, RegisterDevice(u, d) PROVE OnlyEnds
    BY <2>7, SameOnlyEnds DEF RegisterDevice
  <2> QED BY <1>1, <2>1, <2>2, <2>3, <2>4, <2>5, <2>6, <2>7 DEF Operator
<1>2. ASSUME NEW by \in Users, Administrator(by) PROVE OnlyEnds
  <2>1. ASSUME NEW u \in Users, NEW role \in Roles, CreateUser(by, u, role) PROVE OnlyEnds
    BY <2>1, SameOnlyEnds DEF CreateUser
  <2>2. ASSUME NEW u \in Users, NEW role \in Roles,
               NEW status \in {"same", "active", "suspended"}, UpdateUser(by, u, role, status)
        PROVE  OnlyEnds
    <3>1. CASE status = "suspended"
      BY <2>2, <3>1, EndAllOnlyEnds DEF UpdateUser
    <3>2. CASE status # "suspended"
      BY <2>2, <3>2, SameOnlyEnds DEF UpdateUser
    <3> QED BY <3>1, <3>2
  <2>3. ASSUME NEW a \in Accounts, NEW status \in {"available", "closed"},
               CreateAccount(by, a, status) \/ UpdateAccount(by, a, status)
        PROVE  OnlyEnds
    BY <2>3, SameOnlyEnds DEF CreateAccount, UpdateAccount
  <2>4. ASSUME NEW a \in Accounts, DeleteAccount(by, a) PROVE OnlyEnds
    BY <2>4, SameOnlyEnds DEF DeleteAccount
  <2>5. ASSUME NEW a \in Accounts, ForceRelease(by, a) PROVE OnlyEnds
    BY <2>5, EndAllOnlyEnds DEF ForceRelease, LiveOn
  <2>6. ASSUME NEW a \in Accounts, NEW u \in Users, NEW term \in {"dated", "open"},
               AddAssignment(by, a, u, term)
        PROVE  OnlyEnds
    BY <2>6, SameOnlyEnds DEF AddAssignment
  <2>7. ASSUME NEW a \in Accounts, NEW u \in Users, RevokeAssignment(by, a, u) PROVE OnlyEnds
    BY <2>7, EndAllOnlyEnds DEF RevokeAssignment, LiveOn
  <2>8. ASSUME NEW d \in Devices, ApproveDevice(by, d) PROVE OnlyEnds
    BY <2>8, SameOnlyEnds DEF ApproveDevice
  <2>9. ASSUME NEW d \in Devices, RevokeDevice(by, d) PROVE OnlyEnds
    BY <2>9, EndAllOnlyEnds DEF RevokeDevice
  <2> QED BY <1>2, <2>1, <2>2, <2>3, <2>4, <2>5, <2>6, <2>7, <2>8, <2>9 DEF Administrator
<1>3. CASE Reap
  BY <1>3, EndAllOnlyEnds DEF Reap, Reaped
<1>4. CASE Tick
  <2>1. ASSUME NEW l \in Leases
        PROVE  /\ lease'[l].st = lease[l].st /\ lease'[l].user = lease[l].user
               /\ lease'[l].account = lease[l].account /\ lease'[l].device = lease[l].device
    <3>1. CASE l \notin Live
      BY <1>4, <3>1 DEF Tick
    <3>2. CASE l \in Live
      <4>1. /\ lease[l] \in LeaseType
            /\ lease'[l] = [lease[l] EXCEPT !.silent = AtMost(@ + 1, StaleAfter + 1),
                                            !.age = AtMost(@ + 1, Limit + 1),
                                            !.grace = IF @ > 0 THEN @ - 1 ELSE 0]
        BY <1>4, <3>2 DEF Tick, TypeOK
      <4> QED BY <4>1 DEF LeaseType
    <3> QED BY <3>1, <3>2
  <2> QED BY <2>1 DEF OnlyEnds, Live
<1>5. ASSUME NEW a \in Accounts, NEW u \in Users, AssignmentExpires(a, u) PROVE OnlyEnds
  BY <1>5, SameOnlyEnds DEF AssignmentExpires
<1>6. CASE UNCHANGED vars
  BY <1>6, SameOnlyEnds DEF vars
<1> QED BY <1>1, <1>2, <1>3, <1>4, <1>5, <1>6 DEF Next

-----------------------------------------------------------------------------
(* The service implements AccountLease.                                    *)

\* Steps that only end leases are steps of the abstract End.
LEMMA EndRefines == TypeOK /\ OnlyEnds => Abstract!End
<1> SUFFICES ASSUME TypeOK, OnlyEnds PROVE Abstract!End
  OBVIOUS
<1>1. \A a \in Accounts : LiveOn(a)' \subseteq LiveOn(a)
  BY DEF OnlyEnds, LiveOn, Live
<1>2. Granted' = Granted
  BY DEF OnlyEnds, Granted
<1>3. \A a \in Accounts : LiveOn(a)' \subseteq Leases
  BY DEF LiveOn, Live
<1> QED BY <1>1, <1>2, <1>3 DEF Abstract!End

\* An acquisition is a grant of the lease it inserts.
LEMMA AcquireRefines ==
    ASSUME TypeOK, NEW u \in Users, NEW a \in Accounts, NEW d \in Devices, Acquire(u, a, d)
    PROVE  \E l \in Leases : Abstract!Grant(a, l)
<1>1. PICK l \in Leases :
        /\ lease[l].st = "unused"
        /\ lease' = [EndAll(Reaped) EXCEPT
                        ![l] = [NoLease EXCEPT !.st = "live", !.user = u,
                                               !.account = a, !.device = d]]
  BY DEF Acquire
<1>2. /\ lease'[l].st = "live" /\ lease'[l].account = a
      /\ \A m \in Leases \ {l} : lease'[m] = IF m \in Reaped THEN Ended ELSE lease[m]
  BY <1>1, RowTypes DEF EndAll, LeaseType
<1>3. Ended.st = "ended"
  BY DEF Ended, NoLease
<1>4. l \notin Granted /\ Granted' = Granted \cup {l}
  <2>1. \A m \in Leases \ {l} : lease'[m].st # "unused" <=> lease[m].st # "unused"
    BY <1>2, <1>3 DEF Reaped, Live
  <2> QED BY <2>1, <1>1, <1>2 DEF Granted
<1>5. LiveOn(a)' = {l}
  <2>1. l \in LiveOn(a)'
    BY <1>2 DEF LiveOn, Live
  <2>2. ASSUME NEW m \in LiveOn(a)', m # l PROVE FALSE
    <3>1. m \in LiveOn(a) /\ m \notin Reaped
      BY <2>2, <1>2, <1>3 DEF LiveOn, Live
    <3> QED BY <3>1 DEF Acquire, Standing
  <2> QED BY <2>1, <2>2
<1>6. \A b \in Accounts \ {a} : LiveOn(b)' \subseteq LiveOn(b)
  BY <1>2, <1>3 DEF LiveOn, Live
<1>7. \A b \in Accounts : LiveOn(b)' \subseteq Leases
  BY DEF LiveOn, Live
<1> QED BY <1>4, <1>5, <1>6, <1>7 DEF Abstract!Grant

\* However requests overlap, an account is on loan to at most one lease, and
\* a lease is granted once and never returns.
THEOREM Refinement == Spec => OneHolder
<1>1. Init => Abstract!Init
  BY RowTypes DEF Init, Abstract!Init, Granted, LiveOn, Live, NoLease
<1>2. TypeOK /\ [Next]_vars
        => [Abstract!Next]_<<[a \in Accounts |-> LiveOn(a)], Granted>>
  <2> SUFFICES ASSUME TypeOK, [Next]_vars PROVE Abstract!Next
    OBVIOUS
  <2>1. CASE OnlyEnds
    BY <2>1, EndRefines DEF Abstract!Next
  <2>2. CASE Acquired
    BY <2>2, AcquireRefines DEF Abstract!Next, Acquired
  <2> QED BY <2>1, <2>2, HolderStep
<1> QED BY <1>1, <1>2, TypeCorrect, PTL DEF Spec, OneHolder, Abstract!Spec

-----------------------------------------------------------------------------
(* Who writes accounts, devices and users.                                 *)

LEMMA OperatorsWrite ==
    ASSUME NEW u \in Users, Operator(u)
    PROVE  /\ UNCHANGED <<user, account>>
           /\ UNCHANGED device \/ \E d \in Devices : RegisterDevice(u, d)
<1>1. Authenticate(u) \/ Fail(u) => UNCHANGED <<user, account, device>>
  BY DEF Authenticate, Fail, team
<1>2. \A a, d : Acquire(u, a, d) \/ Reacquire(u, a, d) \/ AcquireOverdue(u, a, d)
               => UNCHANGED <<user, account, device>>
  BY DEF Acquire, Reacquire, AcquireOverdue, team
<1>3. /\ \A l, exited, reconnecting : Heartbeat(u, l, exited, reconnecting)
                                     => UNCHANGED <<user, account, device>>
      /\ \A l : Release(u, l) => UNCHANGED <<user, account, device>>
  BY DEF Heartbeat, Release, team
<1>4. \A d : RegisterDevice(u, d) => UNCHANGED <<user, account>>
  BY DEF RegisterDevice
<1> QED BY <1>1, <1>2, <1>3, <1>4 DEF Operator

LEMMA AdministratorsWrite ==
    ASSUME NEW by \in Users, Administrator(by)
    PROVE  /\ \/ UNCHANGED user
              \/ \E u \in Users, role \in Roles :
                    \/ CreateUser(by, u, role)
                    \/ \E status \in {"same", "active", "suspended"} :
                          UpdateUser(by, u, role, status)
           /\ \/ UNCHANGED account
              \/ \E a \in Accounts :
                    \/ \E status \in {"available", "closed"} :
                          CreateAccount(by, a, status) \/ UpdateAccount(by, a, status)
                    \/ DeleteAccount(by, a)
           /\ UNCHANGED device \/ \E d \in Devices : ApproveDevice(by, d) \/ RevokeDevice(by, d)
<1>1. /\ \A u, role : CreateUser(by, u, role) => UNCHANGED <<account, device>>
      /\ \A u, role, status : UpdateUser(by, u, role, status) => UNCHANGED <<account, device>>
  BY DEF CreateUser, UpdateUser
<1>2. /\ \A a, status : CreateAccount(by, a, status) \/ UpdateAccount(by, a, status)
                        => UNCHANGED <<user, device>>
      /\ \A a : DeleteAccount(by, a) => UNCHANGED <<user, device>>
  BY DEF CreateAccount, UpdateAccount, DeleteAccount
<1>3. /\ \A a, u, term : AddAssignment(by, a, u, term) => UNCHANGED <<user, account, device>>
      /\ \A a, u : RevokeAssignment(by, a, u) => UNCHANGED <<user, account, device>>
      /\ \A a : ForceRelease(by, a) => UNCHANGED <<user, account, device>>
  BY DEF AddAssignment, RevokeAssignment, ForceRelease, team
<1>4. \A d : ApproveDevice(by, d) \/ RevokeDevice(by, d) => UNCHANGED <<user, account>>
  BY DEF ApproveDevice, RevokeDevice
<1> QED BY <1>1, <1>2, <1>3, <1>4 DEF Administrator

LEMMA NobodyWrites ==
    ASSUME \/ Reap \/ Tick \/ \E a \in Accounts, u \in Users : AssignmentExpires(a, u)
           \/ UNCHANGED vars
    PROVE  UNCHANGED <<user, account, device>>
  BY DEF Reap, Tick, AssignmentExpires, vars, team

LEMMA WritersOfUsers ==
    ASSUME [Next]_vars
    PROVE  \/ UNCHANGED user
           \/ \E by \in Users, u \in Users, role \in Roles :
                 \/ CreateUser(by, u, role)
                 \/ \E status \in {"same", "active", "suspended"} :
                       UpdateUser(by, u, role, status)
  BY OperatorsWrite, AdministratorsWrite, NobodyWrites DEF Next

LEMMA WritersOfAccounts ==
    ASSUME [Next]_vars
    PROVE  \/ UNCHANGED account
           \/ \E by \in Users, a \in Accounts :
                 \/ \E status \in {"available", "closed"} :
                       CreateAccount(by, a, status) \/ UpdateAccount(by, a, status)
                 \/ DeleteAccount(by, a)
  BY OperatorsWrite, AdministratorsWrite, NobodyWrites DEF Next

LEMMA WritersOfDevices ==
    ASSUME [Next]_vars
    PROVE  \/ UNCHANGED device
           \/ \E u \in Users, d \in Devices :
                 RegisterDevice(u, d) \/ ApproveDevice(u, d) \/ RevokeDevice(u, d)
  BY OperatorsWrite, AdministratorsWrite, NobodyWrites DEF Next

-----------------------------------------------------------------------------
(* Leases, accounts and devices.                                           *)

\* What an acquisition inserts.
LEMMA AcquireInserts ==
    ASSUME TypeOK, NEW u \in Users, NEW a \in Accounts, NEW d \in Devices, Acquire(u, a, d),
           NEW m \in Live'
    PROVE  \/ m \in Live /\ lease'[m] = lease[m]
           \/ lease'[m].user = u /\ lease'[m].account = a /\ lease'[m].device = d
  BY RowTypes DEF Acquire, EndAll, Live, Ended, NoLease

\* A live lease names a user, an account and a device.
Known == \A l \in Live : /\ lease[l].user \in Users
                         /\ lease[l].account \in Accounts
                         /\ lease[l].device \in Devices

LEMMA KnownCorrect == Spec => []Known
<1>1. Init => Known
  BY DEF Init, Known, Live, NoLease
<1>2. TypeOK /\ Known /\ [Next]_vars => Known'
  <2> SUFFICES ASSUME TypeOK, Known, [Next]_vars PROVE Known'
    OBVIOUS
  <2>1. CASE Acquired
    BY <2>1, AcquireInserts DEF Acquired, Known
  <2>2. CASE OnlyEnds
    BY <2>2 DEF OnlyEnds, Known, Live
  <2> QED BY <2>1, <2>2, HolderStep
<1> QED BY <1>1, <1>2, TypeCorrect, PTL DEF Spec

\* Maintenance and deletion never overtake a lease.
THEOREM InService == Spec => []LeasedInService
<1>1. Init => LeasedInService
  BY DEF Init, LeasedInService, Live, NoLease
<1>2. TypeOK /\ Known /\ LeasedInService /\ [Next]_vars => LeasedInService'
  <2> SUFFICES ASSUME TypeOK, Known, LeasedInService, [Next]_vars, NEW m \in Live'
               PROVE  account'[lease'[m].account] = "available"
    BY DEF LeasedInService
  <2>1. CASE Acquired
    <3>1. PICK u \in Users, a \in Accounts, d \in Devices : Acquire(u, a, d)
      BY <2>1 DEF Acquired
    <3>2. account' = account /\ account[a] = "available"
      BY <3>1 DEF Acquire, MayAcquire, team
    <3> QED BY <3>1, <3>2, AcquireInserts DEF LeasedInService
  <2>2. CASE OnlyEnds
    <3>1. /\ m \in LiveOn(lease[m].account) /\ lease[m].account \in Accounts
          /\ lease'[m].account = lease[m].account
      BY <2>2 DEF OnlyEnds, LiveOn, Live, Known
    <3>2. account[lease[m].account] = "available"
      BY <3>1 DEF LeasedInService, LiveOn
    <3>3. CASE UNCHANGED account
      BY <3>1, <3>2, <3>3
    <3>4. ASSUME NEW by \in Users, NEW a \in Accounts,
                 \/ \E status \in {"available", "closed"} :
                      CreateAccount(by, a, status) \/ UpdateAccount(by, a, status)
                 \/ DeleteAccount(by, a)
          PROVE  account'[lease[m].account] = "available"
      BY <3>1, <3>2, <3>4 DEF CreateAccount, UpdateAccount, DeleteAccount, TypeOK
    <3>5. \/ UNCHANGED account
          \/ \E by \in Users, a \in Accounts :
                \/ \E status \in {"available", "closed"} :
                      CreateAccount(by, a, status) \/ UpdateAccount(by, a, status)
                \/ DeleteAccount(by, a)
      BY WritersOfAccounts
    <3> QED BY <3>1, <3>3, <3>4, <3>5
  <2> QED BY <2>1, <2>2, HolderStep
<1> QED BY <1>1, <1>2, TypeCorrect, KnownCorrect, PTL DEF Spec

\* A lease is always held from a device of its holder that nobody revoked.
THEOREM FromTrusted == Spec => []LeasedFromTrusted
<1>1. Init => LeasedFromTrusted
  BY DEF Init, LeasedFromTrusted, Live, NoLease
<1>2. TypeOK /\ Known /\ LeasedFromTrusted /\ [Next]_vars => LeasedFromTrusted'
  <2> SUFFICES ASSUME TypeOK, Known, LeasedFromTrusted, [Next]_vars, NEW m \in Live'
               PROVE  /\ device'[lease'[m].device] = "active"
                      /\ Owner[lease'[m].device] = lease'[m].user
    BY DEF LeasedFromTrusted
  <2>1. CASE Acquired
    <3>1. PICK u \in Users, a \in Accounts, d \in Devices : Acquire(u, a, d)
      BY <2>1 DEF Acquired
    <3>2. device' = device /\ device[d] = "active" /\ Owner[d] = u
      BY <3>1 DEF Acquire, MayAcquire, team
    <3> QED BY <3>1, <3>2, AcquireInserts DEF LeasedFromTrusted
  <2>2. CASE OnlyEnds
    <3>1. /\ m \in Live /\ lease[m].device \in Devices
          /\ lease'[m].device = lease[m].device /\ lease'[m].user = lease[m].user
      BY <2>2 DEF OnlyEnds, Live, Known
    <3>2. /\ device[lease[m].device] = "active"
          /\ Owner[lease[m].device] = lease[m].user
      BY <3>1 DEF LeasedFromTrusted
    <3>3. CASE UNCHANGED device
      BY <3>1, <3>2, <3>3
    <3>4. ASSUME NEW u \in Users, NEW d \in Devices,
                 RegisterDevice(u, d) \/ ApproveDevice(u, d)
          PROVE  device'[lease[m].device] = "active"
      BY <3>1, <3>2, <3>4 DEF RegisterDevice, ApproveDevice, TypeOK
    <3>5. ASSUME NEW by \in Users, NEW d \in Devices, RevokeDevice(by, d)
          PROVE  device'[lease[m].device] = "active"
      <4>1. lease[m].device # d
        BY <3>1, <3>5 DEF RevokeDevice, EndAll, Live, Ended, NoLease
      <4> QED BY <4>1, <3>1, <3>2, <3>5 DEF RevokeDevice, TypeOK
    <3>6. \/ UNCHANGED device
          \/ \E u \in Users, d \in Devices :
                RegisterDevice(u, d) \/ ApproveDevice(u, d) \/ RevokeDevice(u, d)
      BY WritersOfDevices
    <3> QED BY <3>1, <3>2, <3>3, <3>4, <3>5, <3>6
  <2> QED BY <2>1, <2>2, HolderStep
<1> QED BY <1>1, <1>2, TypeCorrect, KnownCorrect, PTL DEF Spec

-----------------------------------------------------------------------------
(* Administrators.                                                         *)

\* No order of promotions, demotions and suspensions, also by administrators
\* who were demoted while their request waited, removes the last one.
THEOREM SomeAdmin == Spec => []AdminRemains
<1>1. Init => AdminRemains
  BY RootAssumption DEF Init, AdminRemains, ActiveAdmin, Active
<1>2. TypeOK /\ AdminRemains /\ [Next]_vars => AdminRemains'
  <2> SUFFICES ASSUME TypeOK, AdminRemains, [Next]_vars PROVE AdminRemains'
    OBVIOUS
  <2>1. CASE UNCHANGED user
    BY <2>1 DEF AdminRemains, ActiveAdmin, Active
  <2>2. PICK v \in Users : ActiveAdmin(v)
    BY DEF AdminRemains
  <2>3. ASSUME NEW by \in Users, NEW u \in Users, NEW role \in Roles, CreateUser(by, u, role)
        PROVE  AdminRemains'
    <3>1. u # v
      BY <2>2, <2>3 DEF CreateUser, ActiveAdmin, Active
    <3> QED BY <2>2, <2>3, <3>1 DEF CreateUser, AdminRemains, ActiveAdmin, Active, TypeOK
  <2>4. ASSUME NEW by \in Users, NEW u \in Users, NEW role \in Roles,
               NEW status \in {"same", "active", "suspended"}, UpdateUser(by, u, role, status)
        PROVE  AdminRemains'
    <3>1. CASE LastAdmin(u)
      <4>1. role = "admin" /\ status # "suspended" /\ user[u].status = "active"
        BY <2>4, <3>1 DEF UpdateUser, LastAdmin, ActiveAdmin, Active
      <4>2. user'[u] = [role |-> "admin", status |-> "active"]
        BY <2>4, <4>1 DEF UpdateUser, TypeOK
      <4> QED BY <4>2 DEF AdminRemains, ActiveAdmin, Active
    <3>2. CASE ~LastAdmin(u)
      <4>1. PICK w \in Users \ {u} : ActiveAdmin(w)
        BY <2>2, <3>2 DEF LastAdmin
      <4>2. user'[w] = user[w]
        BY <2>4, <4>1 DEF UpdateUser, TypeOK
      <4> QED BY <4>1, <4>2 DEF AdminRemains, ActiveAdmin, Active
    <3> QED BY <3>1, <3>2
  <2>5. \/ UNCHANGED user
        \/ \E by \in Users, u \in Users, role \in Roles :
              \/ CreateUser(by, u, role)
              \/ \E status \in {"same", "active", "suspended"} :
                    UpdateUser(by, u, role, status)
    BY WritersOfUsers
  <2> QED BY <2>1, <2>3, <2>4, <2>5
<1> QED BY <1>1, <1>2, TypeCorrect, PTL DEF Spec

=============================================================================
