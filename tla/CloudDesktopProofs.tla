-------------------------- MODULE CloudDesktopProofs --------------------------
(***************************************************************************)
(* Proofs about CloudDesktop for any users, accounts, leases and bounds.   *)
(***************************************************************************)
EXTENDS CloudDesktop, TLAPS

-----------------------------------------------------------------------------
(* The inductive invariant.                                                *)

Refs == Leases \cup {None}
Tokens == {"none", "good", "expired"}

AdminType ==
    \/ admin = Nobody
    \/ admin \in [op : {"end"}, user : Managed, on : SUBSET Accounts]
    \/ admin \in [op : {"write"}, account : Accounts,
                  status : {"available", "closed", "deleted"}]

\* A lease that was not granted is on no account.
Blank == \A l \in Leases : lease[l].st = "unused" => lease[l].account = None

\* An account is on loan to at most one lease.
OneEach == \A l, k \in Live : lease[l].account = lease[k].account => l = k

Posts == [what : {"nothing", "acquire", "heartbeat", "manual", "logout", "error",
                  "process_exit"},
          lease : Refs, account : Accounts \cup {None}, auth : Tokens]
Asks(q) == q \in Posts /\ (q.what = "acquire" => q.account \in Accounts)

Launches == [op : {"launch"}, at : {"acquire", "release", "granting", "blob", "switch", "undo"},
             account : Accounts, old : Refs, new : Refs]
Releases == [op : {"release"}, at : {"post"}, old : Refs]
Leavings == [op : {"leave"}, at : {"post", "finish"}, old : Refs]
Quits == [op : {"quit"}, at : {"prepare", "post"}, old : Refs]
Calls == [kind : {"tick", "exit", "again", "restore", "logout", "close", "quit"},
          lease : Refs, auth : Tokens, ref : Refs \cup {Here}]

FgType == fg = Idle \/ fg \in Launches \/ fg \in Releases \/ fg \in Leavings \/ fg \in Quits

WinType ==
    /\ view \in {"shared", "personal", "gone"}
    /\ signed \in {"in", "leaving", "out"}
    /\ token \in Tokens
    /\ win \in [sid : Refs, owner : Refs]
    /\ saved \in Refs
    /\ FgType
    /\ calls \subseteq Calls
    /\ checks \in 0 .. 2 /\ missed \in 0 .. MaxMissed - 1
    /\ Asks(late)
    /\ riot \in [login : Refs \cup {Local}, on : BOOLEAN]

\* Leases the window knows were granted, and are shown only by the team vault.
Known ==
    /\ saved # None => lease[saved].st # "unused"
    /\ win.sid # None => lease[win.sid].st # "unused" /\ view = "shared"
    /\ fg \in Launches \cup Releases => view = "shared"

\* The leases that were released for an exit that is about to happen.
Given == {l \in Leases : \E c \in calls : c.kind = "quit" /\ c.lease = l}

\* They are over and no login of theirs returns.
QuitInv ==
    /\ \A l \in Given : /\ lease[l].st \in {"ended", "deleted"} /\ riot.login # l
                        /\ fg \in Launches => fg.new # l
    /\ fg \in Quits /\ fg.at = "post" => riot.login = None /\ saved \in {fg.old, None}

IInv == ApiTypeOK /\ AdminType /\ Blank /\ OneEach /\ WinType /\ Known /\ QuitInv

-----------------------------------------------------------------------------
(* The rows of the API.                                                    *)

LEMMA NoneFacts ==
    /\ None \notin Leases /\ None \notin Accounts
    /\ Here \notin Refs /\ Local \notin Refs /\ 1 \in Leases
    /\ MaxEvents \in Nat /\ MaxMissed \in Nat \ {0} /\ Me \in Users
  BY TeamAssumption, WindowAssumption DEF Refs, Leases

\* Rows of which none comes to life.
Ends(rows) == \A l \in Leases :
    /\ rows[l].st = "live" => lease[l].st = "live" /\ rows[l].account = lease[l].account
    /\ rows[l].st = "unused" <=> lease[l].st = "unused"
    /\ rows[l].st = "unused" => rows[l].account = lease[l].account
    /\ rows[l].st = "live" \/ lease[l].st \notin {"ended", "deleted"}
       \/ rows[l].st \in {"ended", "deleted"}

\* Rows of which one does, the only one of its account.
Grants(a, l, rows) ==
    /\ lease[l].st = "unused" /\ rows[l].st = "live" /\ rows[l].account = a
    /\ \A k \in Leases \ {l} :
        /\ rows[k].st = "live" => /\ lease[k].st = "live" /\ rows[k].account = lease[k].account
                                  /\ rows[k].account # a
        /\ rows[k].st = "unused" <=> lease[k].st = "unused"
        /\ rows[k].st = "unused" => rows[k].account = lease[k].account
        /\ lease[k].st \in {"ended", "deleted"} => rows[k].st \in {"ended", "deleted"}

RowsStep(rows) ==
    /\ rows \in [Leases -> Rows]
    /\ Ends(rows) \/ \E a \in Accounts, l \in Leases : Grants(a, l, rows)

LEMMA RowFacts ==
    ASSUME lease \in [Leases -> Rows], NEW l \in Leases
    PROVE  /\ lease[l] \in Rows
           /\ lease[l].st \in {"unused", "live", "ended", "deleted"}
           /\ [lease[l] EXCEPT !.st = "ended", !.fresh = FALSE] \in Rows
           /\ [lease[l] EXCEPT !.st = "ended", !.fresh = FALSE].st = "ended"
           /\ \A b \in BOOLEAN : /\ [lease[l] EXCEPT !.fresh = b] \in Rows
                                 /\ [lease[l] EXCEPT !.fresh = b].st = lease[l].st
                                 /\ [lease[l] EXCEPT !.fresh = b].account = lease[l].account
  BY DEF Rows

LEMMA SameRows ==
    ASSUME lease \in [Leases -> Rows]
    PROVE  RowsStep(lease)
  BY DEF RowsStep, Ends

LEMMA EndAllStep ==
    ASSUME lease \in [Leases -> Rows], NEW S \in SUBSET Live
    PROVE  /\ RowsStep(EndAll(S)) /\ Ends(EndAll(S))
           /\ \A l \in S : EndAll(S)[l].st = "ended"
           /\ \A l \in Leases \ S : EndAll(S)[l] = lease[l]
<1>1. \A l \in Leases : EndAll(S)[l] =
        IF l \in S THEN [lease[l] EXCEPT !.st = "ended", !.fresh = FALSE] ELSE lease[l]
  BY DEF EndAll
<1>2. \A l \in S : l \in Leases /\ lease[l].st = "live"
  BY DEF Live
<1>3. EndAll(S) \in [Leases -> Rows]
  BY RowFacts DEF EndAll
<1>4. Ends(EndAll(S))
  BY <1>1, <1>2, RowFacts DEF Ends
<1> QED BY <1>1, <1>2, <1>3, <1>4, RowFacts DEF RowsStep

LEMMA FreshStep ==
    ASSUME lease \in [Leases -> Rows], NEW l \in Leases, NEW b \in BOOLEAN
    PROVE  RowsStep([lease EXCEPT ![l].fresh = b])
<1>1. \A k \in Leases : [lease EXCEPT ![l].fresh = b][k] =
        IF k = l THEN [lease[l] EXCEPT !.fresh = b] ELSE lease[k]
  OBVIOUS
<1>2. [lease EXCEPT ![l].fresh = b] \in [Leases -> Rows]
  BY RowFacts
<1>3. Ends([lease EXCEPT ![l].fresh = b])
  <2>1. \A k \in Leases : /\ [lease EXCEPT ![l].fresh = b][k].st = lease[k].st
                          /\ [lease EXCEPT ![l].fresh = b][k].account = lease[k].account
    <3>1. /\ [lease[l] EXCEPT !.fresh = b].st = lease[l].st
          /\ [lease[l] EXCEPT !.fresh = b].account = lease[l].account
      BY RowFacts
    <3> QED BY <1>1, <3>1
  <2> QED BY <2>1 DEF Ends
<1> QED BY <1>2, <1>3 DEF RowsStep

\* What an acquisition grants is live afterwards, and the account is nobody else's.
LEMMA AcquiredStep ==
    ASSUME lease \in [Leases -> Rows], NEW u \in Users, NEW a \in Accounts,
           NEW g \in Acquired(u, a)
    PROVE  /\ RowsStep(g.rows)
           /\ g.id \in Leases /\ g.rows[g.id].st = "live"
           /\ lease[g.id].st \in {"unused", "live"}
<1> DEFINE standing == {l \in LiveOn(a) : lease[l].fresh}
<1>1. CASE standing # {}
  <2>1. PICK l \in standing : g = [id |-> l, rows |-> lease]
    BY <1>1 DEF Acquired
  <2>2. g.id = l /\ g.rows = lease /\ l \in Leases /\ lease[l].st = "live"
    BY <2>1 DEF LiveOn, Live
  <2> QED BY <2>2, SameRows
<1>2. CASE standing = {}
  <2>1. PICK l \in NextId :
          g = [id |-> l, rows |-> [EndAll(LiveOn(a)) EXCEPT ![l] = NewRow(u, a)]]
    BY <1>2 DEF Acquired
  <2>2. l \in Leases /\ lease[l].st = "unused" /\ LiveOn(a) \subseteq Live /\ l \notin Live
    BY DEF NextId, LiveOn, Live
  <2>3. /\ NewRow(u, a) \in Rows /\ NewRow(u, a).st = "live" /\ NewRow(u, a).account = a
    BY DEF NewRow, Rows
  <2>4. /\ EndAll(LiveOn(a)) \in [Leases -> Rows] /\ Ends(EndAll(LiveOn(a)))
        /\ \A k \in LiveOn(a) : EndAll(LiveOn(a))[k].st = "ended"
        /\ \A k \in Leases \ LiveOn(a) : EndAll(LiveOn(a))[k] = lease[k]
    BY <2>2, EndAllStep DEF RowsStep
  <2>5. /\ g.id = l /\ g.rows \in [Leases -> Rows] /\ g.rows[l] = NewRow(u, a)
        /\ \A k \in Leases \ {l} : g.rows[k] = EndAll(LiveOn(a))[k]
    BY <2>1, <2>2, <2>3, <2>4
  <2>6. \A k \in Leases \ {l} : g.rows[k].st = "live" => g.rows[k].account # a
    BY <2>4, <2>5 DEF LiveOn, Live
  <2>7. Grants(a, l, g.rows)
    BY <2>2, <2>3, <2>4, <2>5, <2>6 DEF Grants, Ends
  <2> QED BY <2>2, <2>3, <2>5, <2>7 DEF RowsStep
<1> QED BY <1>1, <1>2

LEMMA HeartbeatStep ==
    ASSUME lease \in [Leases -> Rows], NEW u, NEW l
    PROVE  /\ RowsStep(Heartbeat(u, l).rows)
           /\ Heartbeat(u, l).code \in {"ok", "SESSION_NOT_FOUND", "ASSIGNMENT_EXPIRED"}
<1>1. CASE l \notin LiveOf(u)
  BY <1>1, SameRows DEF Heartbeat
<1>2. CASE l \in LiveOf(u)
  <2>1. l \in Leases /\ {l} \in SUBSET Live
    BY <1>2 DEF LiveOf, Live
  <2> QED BY <1>2, <2>1, EndAllStep, FreshStep DEF Heartbeat
<1> QED BY <1>1, <1>2

LEMMA ReleaseStep ==
    ASSUME lease \in [Leases -> Rows], NEW u, NEW l, NEW reason
    PROVE  /\ RowsStep(Release(u, l, reason).rows)
           /\ Release(u, l, reason).code = "ok" /\ l \in Leases
              => Release(u, l, reason).rows[l].st \in {"ended", "deleted"}
<1>1. {l} \cap Live \in SUBSET Live
  OBVIOUS
<1>2. RowsStep(EndAll({l} \cap Live))
  BY <1>1, EndAllStep
<1>3. ASSUME l \in Leases, lease[l].st \in {"live", "ended"}
      PROVE  EndAll({l} \cap Live)[l].st = "ended"
  BY <1>1, <1>3, EndAllStep DEF Live
<1> QED BY <1>2, <1>3, SameRows DEF Release

LEMMA EffectsStep ==
    ASSUME ApiTypeOK, NEW q, Asks(q), NEW rows \in Effects(q)
    PROVE  RowsStep(rows)
<1>1. lease \in [Leases -> Rows] /\ Me \in Users
  BY NoneFacts DEF ApiTypeOK
<1>2. CASE rows = lease
  BY <1>1, <1>2, SameRows
<1>3. CASE q.what = "acquire"
  <2>1. rows = lease \/ \E g \in Acquired(Me, q.account) : rows = g.rows
    BY <1>3 DEF Effects
  <2> QED BY <1>1, <1>2, <1>3, <2>1, AcquiredStep DEF Asks
<1>4. CASE q.what = "heartbeat"
  BY <1>1, <1>2, <1>4, HeartbeatStep DEF Effects
<1>5. CASE q.what \in {"manual", "logout", "error", "process_exit"}
  BY <1>1, <1>2, <1>5, ReleaseStep DEF Effects
<1>6. CASE q.what \notin {"acquire", "heartbeat", "manual", "logout", "error", "process_exit"}
  BY <1>2, <1>6 DEF Effects
<1> QED BY <1>3, <1>4, <1>5, <1>6

\* What a step makes of the rows.
LEMMA RowsKeep ==
    ASSUME lease \in [Leases -> Rows], Blank, OneEach, RowsStep(lease')
    PROVE  /\ lease' \in [Leases -> Rows] /\ Blank' /\ OneEach'
           /\ \A l \in Leases :
                /\ lease[l].st # "unused" => /\ lease'[l].st # "unused"
                                             /\ l \in Live' => l \in Live
                /\ lease[l].st \in {"ended", "deleted"} => lease'[l].st \in {"ended", "deleted"}
<1>1. CASE Ends(lease')
  BY <1>1 DEF RowsStep, Ends, OneEach, Blank, Live
<1>2. ASSUME NEW a \in Accounts, NEW l \in Leases, Grants(a, l, lease')
      PROVE  Blank' /\ OneEach' /\ \A k \in Leases :
                /\ lease[k].st # "unused" => /\ lease'[k].st # "unused"
                                             /\ k \in Live' => k \in Live
                /\ lease[k].st \in {"ended", "deleted"} => lease'[k].st \in {"ended", "deleted"}
  BY <1>2 DEF Grants, OneEach, Blank, Live
<1> QED BY <1>1, <1>2 DEF RowsStep

-----------------------------------------------------------------------------
(* The API's steps.                                                        *)

LEMMA Begun ==
    ASSUME ApiTypeOK, NEW rest, Begin(rest),
           \/ rest = Nobody
           \/ rest \in [op : {"end"}, user : Managed, on : SUBSET Accounts]
           \/ rest \in [op : {"write"}, account : Accounts,
                        status : {"available", "closed", "deleted"}]
    PROVE  AdminType' /\ events' \in 0 .. MaxEvents /\ admin'.op \in {"none", "end", "write"}
<1>1. admin' = rest /\ events' \in 0 .. MaxEvents
  BY NoneFacts DEF Begin, Event, ApiTypeOK
<1>2. rest.op \in {"none", "end", "write"}
  BY DEF Nobody
<1> QED BY <1>1, <1>2 DEF AdminType

ApiStep == ApiTypeOK' /\ AdminType' /\ RowsStep(lease')

LEMMA PeopleStep ==
    ASSUME ApiTypeOK,
           \/ updateUser \/ revokeDevice \/ approveDevice \/ addAssignment \/ revokeAssignment
    PROVE  ApiStep
<1>1. lease' = lease /\ RowsStep(lease)
  BY SameRows DEF updateUser, revokeDevice, approveDevice, addAssignment, revokeAssignment,
     ApiTypeOK
<1>2. /\ AdminType' /\ events' \in 0 .. MaxEvents /\ admin'.op \in {"none", "end", "write"}
  <2>1. PICK rest : /\ Begin(rest)
                    /\ rest = Nobody \/ \E u \in Managed, S \in SUBSET Accounts :
                                            rest = EndingOf(u, S)
    <3>1. CASE updateUser
      <4>1. PICK u \in Managed, active \in BOOLEAN :
                Begin(IF active THEN Nobody ELSE EndingOf(u, Accounts))
        BY <3>1 DEF updateUser
      <4> QED BY <4>1
    <3>2. CASE revokeDevice \/ approveDevice \/ addAssignment
      BY <3>2 DEF revokeDevice, approveDevice, addAssignment
    <3>3. CASE revokeAssignment
      <4>1. PICK a \in Accounts, u \in Managed : Begin(EndingOf(u, {a}))
        BY <3>3 DEF revokeAssignment
      <4> QED BY <4>1
    <3> QED BY <3>1, <3>2, <3>3
  <2>2. ASSUME NEW u \in Managed, NEW S \in SUBSET Accounts
        PROVE  EndingOf(u, S) \in [op : {"end"}, user : Managed, on : SUBSET Accounts]
    BY DEF EndingOf
  <2> QED BY <2>1, <2>2, Begun
<1>3. /\ user' \in [Users -> [role : {"operator", "admin"}, active : BOOLEAN]]
      /\ device' \in [Users -> {"active", "revoked"}]
      /\ assigned' \subseteq Accounts \X Users /\ UNCHANGED <<account, enrolling>>
  <2>1. Managed \subseteq Users
    BY TeamAssumption
  <2>2. CASE updateUser
    BY <2>1, <2>2 DEF updateUser, ApiTypeOK
  <2>3. CASE revokeDevice \/ approveDevice
    BY <2>1, <2>3 DEF revokeDevice, approveDevice, ApiTypeOK
  <2>4. CASE addAssignment \/ revokeAssignment
    <3>1. PICK a \in Accounts, u \in Managed :
            /\ assigned' = assigned \cup {<<a, u>>} \/ assigned' = assigned \ {<<a, u>>}
            /\ UNCHANGED <<user, account, device, enrolling>>
      BY <2>4 DEF addAssignment, revokeAssignment
    <3>2. <<a, u>> \in Accounts \X Users
      BY <2>1
    <3>3. assigned' \subseteq Accounts \X Users
      BY <3>1, <3>2 DEF ApiTypeOK
    <3> QED BY <3>1, <3>3 DEF ApiTypeOK
  <2> QED BY <2>2, <2>3, <2>4
<1> QED BY <1>1, <1>2, <1>3 DEF ApiStep, ApiTypeOK

LEMMA AccountStep ==
    ASSUME ApiTypeOK,
           updateAccount \/ deleteAccount \/ saveAccountSessionBlob \/ deleteAccountSessionBlob
    PROVE  ApiStep
<1>1. lease' = lease /\ RowsStep(lease)
  BY SameRows DEF updateAccount, deleteAccount, saveAccountSessionBlob,
     deleteAccountSessionBlob, SessionBlobs, ApiTypeOK, team
<1>2. PICK rest : /\ Begin(rest)
                  /\ \/ rest = Nobody
                     \/ rest \in [op : {"write"}, account : Accounts,
                                  status : {"available", "closed", "deleted"}]
  <2>1. CASE updateAccount
    <3>1. PICK a \in Accounts, status \in {"available", "closed"} :
            Begin([op |-> "write", account |-> a, status |-> status])
      BY <2>1 DEF updateAccount
    <3> QED BY <3>1
  <2>2. CASE deleteAccount
    <3>1. PICK a \in Accounts : Begin([op |-> "write", account |-> a, status |-> "deleted"])
      BY <2>2 DEF deleteAccount
    <3> QED BY <3>1
  <2>3. CASE saveAccountSessionBlob \/ deleteAccountSessionBlob
    BY <2>3 DEF saveAccountSessionBlob, deleteAccountSessionBlob, SessionBlobs
  <2> QED BY <2>1, <2>2, <2>3
<1>3. /\ AdminType' /\ events' \in 0 .. MaxEvents /\ admin'.op \in {"none", "end", "write"}
  BY <1>2, Begun
<1>4. /\ account' \in [Accounts -> [status : {"available", "closed", "deleted"}, blob : BOOLEAN]]
      /\ UNCHANGED <<user, assigned, device, enrolling>>
  <2>1. CASE updateAccount \/ deleteAccount
    BY <2>1 DEF updateAccount, deleteAccount, ApiTypeOK, team
  <2>2. ASSUME NEW a \in Accounts, NEW blob \in BOOLEAN, SessionBlobs(a, blob)
        PROVE  /\ account' \in [Accounts -> [status : {"available", "closed", "deleted"},
                                        blob : BOOLEAN]]
               /\ UNCHANGED <<user, assigned, device, enrolling>>
    <3>1. /\ account' = [account EXCEPT ![a].blob = blob]
          /\ UNCHANGED <<user, assigned, device, enrolling>>
      BY <2>2 DEF SessionBlobs
    <3>2. [account[a] EXCEPT !.blob = blob]
            \in [status : {"available", "closed", "deleted"}, blob : BOOLEAN]
      BY DEF ApiTypeOK
    <3> QED BY <3>1, <3>2 DEF ApiTypeOK
  <2> QED BY <2>1, <2>2 DEF saveAccountSessionBlob, deleteAccountSessionBlob
<1> QED BY <1>1, <1>3, <1>4 DEF ApiStep, ApiTypeOK

LEMMA ServiceStep ==
    ASSUME ApiTypeOK, AdminType, Blank,
           EndSessions \/ WriteAccount \/ forceReleaseAccount \/ ServiceFails
    PROVE  ApiStep
<1>1. lease \in [Leases -> Rows]
  BY DEF ApiTypeOK
<1>2. RowsStep(lease')
  <2>1. CASE EndSessions
    <3>1. PICK S \in SUBSET Live : lease' = EndAll(S)
      BY <2>1 DEF EndSessions, LiveOf
    <3> QED BY <1>1, <3>1, EndAllStep
  <2>2. CASE WriteAccount
    <3>1. admin.account \in Accounts
      BY <2>2 DEF AdminType, WriteAccount, Nobody
    <3>2. \A l \in Leases : lease'[l] = IF /\ admin.status = "deleted"
                                           /\ lease[l].account = admin.account
                                        THEN [NoRow EXCEPT !.st = "deleted"] ELSE lease[l]
      BY <2>2 DEF WriteAccount
    <3>3. [NoRow EXCEPT !.st = "deleted"] \in Rows /\ [NoRow EXCEPT !.st = "deleted"].st = "deleted"
      BY DEF NoRow, Rows
    <3>4. lease' \in [Leases -> Rows]
      BY <1>1, <2>2, <3>2, <3>3 DEF WriteAccount
    <3>5. \A l \in Leases : lease[l].st = "unused" => lease[l].account # admin.account
      BY <3>1, NoneFacts DEF Blank
    <3> QED BY <1>1, <3>2, <3>3, <3>4, <3>5 DEF RowsStep, Ends
  <2>3. CASE forceReleaseAccount
    <3>1. PICK S \in SUBSET Live : lease' = EndAll(S)
      BY <2>3 DEF forceReleaseAccount, LiveOn
    <3> QED BY <1>1, <3>1, EndAllStep
  <2>4. CASE ServiceFails
    BY <1>1, <2>4, SameRows DEF ServiceFails
  <2> QED BY <2>1, <2>2, <2>3, <2>4
<1>3. AdminType' /\ events' \in 0 .. MaxEvents /\ admin'.op \in {"none", "end", "write"}
  <2>1. CASE admin' = Nobody /\ events' = events
    BY <2>1 DEF AdminType, Nobody, ApiTypeOK
  <2>2. CASE Begin(Nobody)
    BY <2>2, Begun
  <2> QED BY <2>1, <2>2 DEF EndSessions, WriteAccount, forceReleaseAccount, ServiceFails
<1>4. /\ account' \in [Accounts -> [status : {"available", "closed", "deleted"}, blob : BOOLEAN]]
      /\ UNCHANGED <<user, assigned, device, enrolling>>
  <2>1. CASE WriteAccount
    <3>1. admin.status \in {"available", "closed", "deleted"}
      BY <2>1 DEF AdminType, WriteAccount, Nobody
    <3> QED BY <2>1, <3>1 DEF WriteAccount, ApiTypeOK
  <2>2. CASE ~WriteAccount
    BY <2>2 DEF EndSessions, forceReleaseAccount, ServiceFails, ApiTypeOK, team
  <2> QED BY <2>1, <2>2
<1> QED BY <1>2, <1>3, <1>4 DEF ApiStep, ApiTypeOK, RowsStep

LEMMA OthersStep ==
    ASSUME ApiTypeOK, AdminType,
           \/ Reap \/ AssignmentExpires
           \/ \E u \in Users : RegisterDevice(u) \/ OtherOperator(u)
           \/ \E l \in Leases : FallsSilent(l)
    PROVE  ApiStep
<1>1. lease \in [Leases -> Rows]
  BY DEF ApiTypeOK
<1>2. RowsStep(lease')
  <2>1. CASE lease' = lease
    BY <1>1, <2>1, SameRows
  <2>2. CASE Reap
    <3>1. Silent \in SUBSET Live /\ lease' = EndAll(Silent)
      BY <2>2 DEF Reap, Silent
    <3> QED BY <1>1, <3>1, EndAllStep
  <2>3. ASSUME NEW u \in Users, OtherOperator(u)
        PROVE  RowsStep(lease')
    BY <1>1, <2>3, AcquiredStep, ReleaseStep DEF OtherOperator
  <2>4. ASSUME NEW l \in Leases, FallsSilent(l)
        PROVE  RowsStep(lease')
    BY <1>1, <2>4, FreshStep DEF FallsSilent
  <2> QED BY <2>1, <2>2, <2>3, <2>4 DEF AssignmentExpires, RegisterDevice
<1>3. events' \in 0 .. MaxEvents /\ admin' = admin
  BY NoneFacts DEF Reap, AssignmentExpires, RegisterDevice, OtherOperator, FallsSilent, Event,
     ApiTypeOK
<1>4. /\ UNCHANGED <<user, account>>
      /\ assigned' \subseteq assigned /\ enrolling' \subseteq Users
      /\ device' \in [Users -> {"active", "revoked"}]
  BY DEF Reap, AssignmentExpires, RegisterDevice, OtherOperator, FallsSilent, team, ApiTypeOK
<1> QED BY <1>2, <1>3, <1>4 DEF ApiStep, ApiTypeOK, RowsStep, AdminType

LEMMA ApiSteps == ASSUME ApiTypeOK, AdminType, Blank, Api PROVE ApiStep /\ UNCHANGED winVars
  BY PeopleStep, AccountStep, ServiceStep, OthersStep, NoneFacts DEF Api, Administration

-----------------------------------------------------------------------------
(* A step of the window.                                                   *)

ApiKept == RowsStep(lease') /\ UNCHANGED <<team, admin>> /\ (events' = events \/ Event)

KnownStep ==
    /\ saved' \in {saved, None} \cup Live'
    /\ win'.sid \in {win.sid, saved, None} \cup Live'
    /\ view' # "shared" => win'.sid = None
    /\ fg' \in Launches \cup Releases => view' = "shared"

GivenStep ==
    /\ Given' \subseteq Given
    /\ riot'.login \in {riot.login, None, Local} \/ (fg \in Launches /\ riot'.login = fg.new)
    /\ fg' \in Launches => \/ fg'.new \in {None} \cup Live'
                           \/ fg \in Launches /\ fg'.new = fg.new
    /\ fg' \in Quits /\ fg'.at = "post" => riot'.login = None /\ saved' \in {fg'.old, None}

LEMMA ApiKeeps ==
    ASSUME IInv, ApiKept
    PROVE  /\ ApiTypeOK' /\ AdminType' /\ Blank' /\ OneEach'
           /\ \A l \in Leases :
                /\ lease[l].st # "unused" => /\ lease'[l].st # "unused"
                                             /\ l \in Live' => l \in Live
                /\ lease[l].st \in {"ended", "deleted"} => lease'[l].st \in {"ended", "deleted"}
<1>1. /\ lease' \in [Leases -> Rows] /\ Blank' /\ OneEach'
      /\ \A l \in Leases :
            /\ lease[l].st # "unused" => /\ lease'[l].st # "unused"
                                         /\ l \in Live' => l \in Live
            /\ lease[l].st \in {"ended", "deleted"} => lease'[l].st \in {"ended", "deleted"}
  BY RowsKeep DEF IInv, ApiTypeOK, ApiKept
<1>2. events' \in 0 .. MaxEvents
  BY NoneFacts DEF IInv, ApiTypeOK, ApiKept, Event
<1> QED BY <1>1, <1>2 DEF IInv, ApiTypeOK, AdminType, ApiKept, team

LEMMA WindowStep ==
    ASSUME IInv, ApiKept, WinType', KnownStep, GivenStep
    PROVE  IInv'
<1>1. /\ ApiTypeOK' /\ AdminType' /\ Blank' /\ OneEach'
      /\ \A l \in Leases :
            /\ lease[l].st # "unused" => lease'[l].st # "unused"
            /\ lease[l].st \in {"ended", "deleted"} => lease'[l].st \in {"ended", "deleted"}
  BY ApiKeeps
<1>2. \A l \in Live' : l \in Leases /\ lease'[l].st = "live"
  BY DEF Live
<1>3. saved \in Refs /\ win.sid \in Refs /\ Given \subseteq Leases
  BY DEF IInv, WinType, Given
<1>4. Known'
  BY <1>1, <1>2, <1>3 DEF IInv, Known, KnownStep, Refs
<1>5. QuitInv'
  <2>1. ASSUME NEW l \in Given'
        PROVE  /\ lease'[l].st \in {"ended", "deleted"} /\ riot'.login # l
               /\ fg' \in Launches => fg'.new # l
    <3>1. /\ l \in Leases /\ lease[l].st \in {"ended", "deleted"} /\ riot.login # l
          /\ fg \in Launches => fg.new # l
      BY <1>3, <2>1 DEF GivenStep, IInv, QuitInv
    <3>2. lease'[l].st \in {"ended", "deleted"} /\ l \notin Live' /\ l # None /\ l # Local
      BY <1>1, <1>2, <3>1, NoneFacts DEF Refs
    <3> QED BY <3>1, <3>2 DEF GivenStep
  <2> QED BY <2>1 DEF QuitInv, GivenStep
<1> QED BY <1>1, <1>4, <1>5 DEF IInv

\* What the window is busy with.
LEMMA Kinds ==
    ASSUME FgType
    PROVE  /\ fg.op = "launch" => fg \in Launches
           /\ fg.op = "release" => fg \in Releases
           /\ fg.op = "leave" => fg \in Leavings
           /\ fg.op = "quit" => fg \in Quits
           /\ fg.op = "none" => fg = Idle
  BY DEF FgType, Idle, Launches, Releases, Leavings, Quits

LEMMA KindsDiffer ==
    /\ Idle \notin Launches /\ Idle \notin Releases /\ Idle \notin Quits /\ Idle \notin Leavings
    /\ \A o \in Launches : o \notin Releases /\ o \notin Quits /\ o \notin Leavings /\ o # Idle
    /\ \A o \in Releases : o \notin Launches /\ o \notin Quits /\ o \notin Leavings /\ o # Idle
    /\ \A o \in Leavings : o \notin Launches /\ o \notin Quits /\ o \notin Releases /\ o # Idle
    /\ \A o \in Quits : o \notin Launches /\ o \notin Releases /\ o \notin Leavings /\ o # Idle
<1>1. Idle.op = "none"
  BY DEF Idle
<1> QED BY <1>1 DEF Launches, Releases, Leavings, Quits

LEMMA QuietFacts == Asks(Quiet) /\ \A what \in {"nothing", "heartbeat", "manual", "logout",
    "error", "process_exit"}, l \in Refs : token \in Tokens => Asks(Post(what, l, None))
  BY DEF Quiet, Asking, Post, Asks, Posts, Tokens, Refs

LEMMA AnswersStep ==
    ASSUME IInv, NEW q, Asks(q), Answered(q) \/ Unanswered(q)
    PROVE  RowsStep(lease') /\ Asks(late') /\ (events' = events \/ Event)
<1>1. RowsStep(lease) /\ Asks(late)
  BY SameRows DEF IInv, ApiTypeOK, WinType
<1>2. \A rows \in Effects(q) : RowsStep(rows)
  BY EffectsStep DEF IInv
<1> QED BY <1>1, <1>2 DEF Answered, Unanswered

LEMMA CleansUpFacts ==
    ASSUME IInv, NEW owner \in Refs, NEW r \in CleansUp(owner)
    PROVE  /\ r \in [login : Refs \cup {Local}, on : BOOLEAN]
           /\ r.login \in {riot.login, None}
           /\ riot.login = Local => r = riot
<1>1. riot \in [login : Refs \cup {Local}, on : BOOLEAN]
  BY DEF IInv, WinType
<1>2. Personal \in [login : Refs \cup {Local}, on : BOOLEAN] /\ Personal.login = None
  BY DEF Personal, Refs
<1>3. /\ [riot EXCEPT !.on = FALSE] \in [login : Refs \cup {Local}, on : BOOLEAN]
      /\ [riot EXCEPT !.on = FALSE].login = riot.login
  BY <1>1
<1> QED BY <1>1, <1>2, <1>3, NoneFacts DEF CleansUp

LEMMA SetLeaseFacts ==
    ASSUME IInv, NEW w \in [sid : Refs, owner : Refs], SetLease(w)
    PROVE  /\ win' = w /\ win' \in [sid : Refs, owner : Refs]
           /\ checks' \in 0 .. 2 /\ missed' \in 0 .. MaxMissed - 1
  BY NoneFacts DEF SetLease, IInv, WinType

LEMMA NoLeaseFacts ==
    /\ NoLease \in [sid : Refs, owner : Refs] /\ NoLease.sid = None
    /\ \A l \in Refs : Holding(l) \in [sid : Refs, owner : Refs] /\ Holding(l).sid = l
  BY DEF NoLease, Holding, Refs

LEMMA ClearFacts ==
    ASSUME IInv, NEW ref \in Refs \cup {Here}, clearLocalLease(ref)
    PROVE  /\ saved' = None /\ win' \in [sid : Refs, owner : Refs]
           /\ win'.sid \in {win.sid, None} /\ (ref = Here => win'.sid = None)
           /\ (ref # Here => win' = win)
           /\ checks' \in 0 .. 2 /\ missed' \in 0 .. MaxMissed - 1
           /\ riot' \in [login : Refs \cup {Local}, on : BOOLEAN]
           /\ riot'.login \in {riot.login, None}
           /\ riot.login = Local => riot' = riot
<1>1. win \in [sid : Refs, owner : Refs] /\ win.owner \in Refs
      /\ checks \in 0 .. 2 /\ missed \in 0 .. MaxMissed - 1
  BY DEF IInv, WinType
<1>2. CASE ref = Here
  BY <1>1, <1>2, SetLeaseFacts, NoLeaseFacts, CleansUpFacts DEF clearLocalLease
<1>3. CASE ref # Here
  BY <1>1, <1>3, CleansUpFacts DEF clearLocalLease
<1> QED BY <1>2, <1>3

-----------------------------------------------------------------------------
(* The operations of the window.                                           *)

LEMMA StartKeeps ==
    ASSUME IInv, NEW o, Start(o),
           o \in Launches \/ o \in Releases \/ o \in Leavings \/ o \in Quits,
           o \in Launches \cup Releases => view = "shared",
           o \in Launches => o.new = None,
           o \in Quits => o.at # "post"
    PROVE  IInv'
<1>1. /\ fg' = o /\ Event
      /\ UNCHANGED <<team, admin, lease, late, view, signed, token, win, saved, calls, checks,
                     missed, riot>>
  BY DEF Start, others
<1>2. ApiKept
  BY <1>1, SameRows DEF ApiKept, IInv, ApiTypeOK
<1>3. WinType'
  BY <1>1 DEF IInv, WinType, FgType
<1>4. KnownStep
  BY <1>1 DEF KnownStep, IInv, Known
<1>5. GivenStep
  BY <1>1 DEF GivenStep, Given
<1> QED BY <1>2, <1>3, <1>4, <1>5, WindowStep

LEMMA StartsKeep ==
    ASSUME IInv, HandleLaunch \/ HandleRelease \/ SwitchToPersonal \/ Quit
    PROVE  IInv'
<1>1. win.sid \in Refs /\ saved \in Refs /\ None \in Refs
  BY DEF IInv, WinType, Refs
<1>2. CASE HandleLaunch
  <2>1. PICK a \in Accounts, at \in {"acquire", "release"} :
          Start([op |-> "launch", at |-> at, account |-> a, old |-> win.sid, new |-> None])
    BY <1>2 DEF HandleLaunch
  <2>2. [op |-> "launch", at |-> at, account |-> a, old |-> win.sid, new |-> None] \in Launches
    BY <1>1 DEF Launches
  <2> QED BY <1>2, <2>1, <2>2, KindsDiffer, StartKeeps DEF HandleLaunch
<1>3. CASE HandleRelease
  <2>1. [op |-> "release", at |-> "post", old |-> win.sid] \in Releases
    BY <1>1 DEF Releases
  <2> QED BY <1>3, <2>1, KindsDiffer, StartKeeps DEF HandleRelease, ActiveLeaseBanner
<1>4. CASE SwitchToPersonal
  <2>1. [op |-> "leave", at |-> "post", old |-> saved] \in Leavings
    BY <1>1 DEF Leavings
  <2> QED BY <1>4, <2>1, KindsDiffer, StartKeeps DEF SwitchToPersonal
<1>5. CASE Quit
  <2>1. /\ [op |-> "quit", at |-> "prepare", old |-> None] \in Quits
        /\ [op |-> "quit", at |-> "prepare", old |-> None].at # "post"
    BY <1>1 DEF Quits
  <2> QED BY <1>5, <2>1, KindsDiffer, StartKeeps DEF Quit
<1> QED BY <1>2, <1>3, <1>4, <1>5

\* Types of what an operation may leave alone.
LEMMA Kept ==
    ASSUME IInv
    PROVE  /\ FgType /\ token \in Tokens /\ Asks(late) /\ saved \in Refs
           /\ view \in {"shared", "personal", "gone"}
           /\ win \in [sid : Refs, owner : Refs] /\ win.sid \in Refs /\ win.owner \in Refs
           /\ checks \in 0 .. 2 /\ missed \in 0 .. MaxMissed - 1
           /\ riot \in [login : Refs \cup {Local}, on : BOOLEAN]
           /\ calls \subseteq Calls /\ RowsStep(lease) /\ None \in Refs
  BY SameRows DEF IInv, WinType, ApiTypeOK, Refs

LEMMA FewerCalls ==
    ASSUME IInv, calls' \subseteq calls
    PROVE  calls' \subseteq Calls /\ Given' \subseteq Given
  BY Kept DEF Given

\* One more call, which is not the end of a quit.
LEMMA MoreCalls ==
    ASSUME IInv, NEW S \in SUBSET Calls, calls' = calls \cup S, \A c \in S : c.kind # "quit"
    PROVE  calls' \subseteq Calls /\ Given' \subseteq Given
  BY Kept DEF Given

LEMMA OneMoreCall ==
    ASSUME IInv, NEW l \in Refs, NEW kind \in {"tick", "exit", "restore", "logout", "close"},
           calls' = calls \cup {Call(kind, l)}
    PROVE  calls' \subseteq Calls /\ Given' \subseteq Given
<1>1. Call(kind, l) \in Calls /\ Call(kind, l).kind = kind
  BY Kept DEF Call, Calls, Tokens
<1>2. {Call(kind, l)} \in SUBSET Calls /\ \A c \in {Call(kind, l)} : c.kind # "quit"
  BY <1>1
<1> QED BY <1>2, MoreCalls

LEMMA LaunchStep ==
    ASSUME IInv, fg \in Launches, ApiKept, UNCHANGED <<view, signed, token>>,
           calls' \subseteq Calls, Given' \subseteq Given,
           Asks(late'), saved' \in {saved, None} \cup Live', saved' \in Refs,
           win' \in [sid : Refs, owner : Refs], win'.sid \in {win.sid, None} \cup Live',
           checks' \in 0 .. 2, missed' \in 0 .. MaxMissed - 1,
           riot' \in [login : Refs \cup {Local}, on : BOOLEAN],
           riot'.login \in {riot.login, None, fg.new},
           fg' = Idle \/ (fg' \in Launches /\ fg'.new \in {fg.new} \cup Live')
    PROVE  IInv'
<1>1. view = "shared"
  BY DEF IInv, Known
<1>2. WinType'
  BY DEF IInv, WinType, FgType
<1>3. KnownStep
  BY <1>1 DEF KnownStep
<1>4. GivenStep
  BY KindsDiffer DEF GivenStep
<1> QED BY <1>2, <1>3, <1>4, WindowStep

LEMMA Gone ==
    ASSUME NEW at \in {"acquire", "granting", "blob", "switch", "undo"}, fg \in Launches,
           Goto(at)
    PROVE  fg' \in Launches /\ fg'.new = fg.new
  BY DEF Goto, Launches

\* A lease granted after a logout is shown, and its release asked for.
LEMMA AcquireAnsweredKeeps == ASSUME IInv, AcquireAnswered PROVE IInv'
<1>1. /\ token \in Tokens /\ Asks(late) /\ saved \in Refs
      /\ win \in [sid : Refs, owner : Refs] /\ checks \in 0 .. 2
      /\ missed \in 0 .. MaxMissed - 1 /\ riot \in [login : Refs \cup {Local}, on : BOOLEAN]
      /\ lease \in [Leases -> Rows] /\ calls \subseteq Calls
      /\ fg \in Launches /\ fg.account \in Accounts
  BY Kinds DEF IInv, WinType, ApiTypeOK, AcquireAnswered, At, Launches
<1>2. UNCHANGED <<team, admin, events, view, signed, token, late, riot>>
  BY DEF AcquireAnswered, others, session
<1>3. ASSUME NEW granted \in Acquired(Me, fg.account), lease' = granted.rows,
             persistLease(granted.id), fg' = [fg EXCEPT !.at = "blob", !.new = granted.id],
             calls' = calls \/ calls' = calls \cup {Call("logout", granted.id)}
      PROVE  IInv'
  <2>1. /\ RowsStep(granted.rows) /\ granted.id \in Leases
        /\ granted.rows[granted.id].st = "live"
    BY <1>1, <1>3, AcquiredStep, NoneFacts
  <2>2. ApiKept /\ granted.id \in Live'
    BY <1>2, <1>3, <2>1 DEF ApiKept, Live
  <2>3. granted.id \in Refs
    BY <2>1 DEF Refs
  <2>4. /\ win' = Holding(granted.id) /\ checks' \in 0 .. 2 /\ missed' \in 0 .. MaxMissed - 1
        /\ saved' = granted.id
    BY <1>3, <2>3, NoLeaseFacts, SetLeaseFacts DEF persistLease
  <2>5. fg' \in Launches /\ fg'.new = granted.id
    BY <1>1, <1>3, <2>3 DEF Launches
  <2>6. calls' \subseteq Calls /\ Given' \subseteq Given
    BY <1>3, <2>3, FewerCalls, OneMoreCall
  <2> QED BY <1>1, <1>2, <2>2, <2>3, <2>4, <2>5, <2>6, NoLeaseFacts, LaunchStep
<1>4. ASSUME lease' \in {lease} \cup {g.rows : g \in Acquired(Me, fg.account)},
             fg' = Idle, UNCHANGED <<win, saved, calls, checks, missed>>
      PROVE  IInv'
  <2>1. ApiKept
    BY <1>1, <1>2, <1>4, SameRows, AcquiredStep, NoneFacts DEF ApiKept
  <2>2. calls' \subseteq Calls /\ Given' \subseteq Given
    BY <1>4, FewerCalls
  <2> QED BY <1>1, <1>2, <1>4, <2>1, <2>2, LaunchStep
<1> QED BY <1>3, <1>4 DEF AcquireAnswered

LEMMA LaunchSteps ==
    ASSUME IInv, \/ ReleaseOld \/ AcquireChecked \/ AcquireFails
                 \/ FetchBlob \/ SwitchAccount \/ UndoLaunch
    PROVE  IInv'
<1>1. FgType /\ token \in Tokens /\ Asks(late) /\ saved \in Refs
      /\ win \in [sid : Refs, owner : Refs] /\ checks \in 0 .. 2
      /\ missed \in 0 .. MaxMissed - 1 /\ riot \in [login : Refs \cup {Local}, on : BOOLEAN]
      /\ lease \in [Leases -> Rows] /\ calls \subseteq Calls
  BY DEF IInv, WinType, ApiTypeOK
<1>2. fg \in Launches /\ fg.account \in Accounts /\ fg.old \in Refs /\ fg.new \in Refs
      /\ UNCHANGED <<team, admin, view, signed, token>>
      /\ calls' \subseteq Calls /\ Given' \subseteq Given
  <2>1. fg \in Launches
    BY <1>1, Kinds DEF ReleaseOld, AcquireChecked, AcquireFails, FetchBlob, SwitchAccount,
       UndoLaunch, At
  <2>2. UNCHANGED <<team, admin, view, signed, token, calls>>
    BY DEF ReleaseOld, AcquireChecked, AcquireFails, FetchBlob, SwitchAccount, UndoLaunch,
       Step, Asked, others
  <2> QED BY <1>1, <2>1, <2>2 DEF Launches, Given
<1>3. CASE ReleaseOld
  <2> DEFINE q == Post("manual", fg.old, None)
  <2>1. Asks(q)
    BY <1>1, <1>2, QuietFacts
  <2>2. /\ Answered(q) \/ Unanswered(q)
        /\ Goto("acquire") \/ fg' = Idle
        /\ UNCHANGED <<win, saved, checks, missed, riot>>
    BY <1>3 DEF ReleaseOld
  <2>3. ApiKept /\ Asks(late')
    BY <1>2, <2>1, <2>2, AnswersStep DEF ApiKept
  <2> QED BY <1>1, <1>2, <2>2, <2>3, Gone, LaunchStep
<1>4. CASE AcquireChecked
  <2>1. Goto("granting") /\ UNCHANGED <<events, lease, late, win, saved, checks, missed, riot>>
    BY <1>4 DEF AcquireChecked, Step
  <2>2. ApiKept
    BY <1>1, <1>2, <2>1, SameRows DEF ApiKept
  <2> QED BY <1>1, <1>2, <2>1, <2>2, Gone, LaunchStep
<1>6. CASE AcquireFails
  <2> DEFINE q == Post("acquire", None, fg.account)
  <2>1. Asks(q)
    BY <1>1, <1>2 DEF Asks, Post, Posts, Refs
  <2>2. Unanswered(q) /\ fg' = Idle /\ UNCHANGED <<win, saved, checks, missed, riot>>
    BY <1>6 DEF AcquireFails
  <2>3. ApiKept /\ Asks(late')
    BY <1>2, <2>1, <2>2, AnswersStep DEF ApiKept
  <2> QED BY <1>1, <1>2, <2>2, <2>3, LaunchStep
<1>7. CASE FetchBlob
  <2>1. /\ Goto("switch") \/ Goto("undo")
        /\ UNCHANGED <<events, lease, late, win, saved, checks, missed, riot>>
    BY <1>7 DEF FetchBlob, Step
  <2>2. ApiKept
    BY <1>1, <1>2, <2>1, SameRows DEF ApiKept
  <2> QED BY <1>1, <1>2, <2>1, <2>2, Gone, LaunchStep
<1>8. CASE SwitchAccount
  <2>1. /\ UNCHANGED <<events, lease, late, win, saved, checks, missed>>
        /\ Goto("undo") \/ fg' = Idle
        /\ riot' \in {[login |-> fg.new, on |-> TRUE], riot, [riot EXCEPT !.on = FALSE], Personal}
    BY <1>8 DEF SwitchAccount, Step, SwitchTo, SwitchFails
  <2>2. ApiKept
    BY <1>1, <1>2, <2>1, SameRows DEF ApiKept
  <2>3. /\ riot' \in [login : Refs \cup {Local}, on : BOOLEAN]
        /\ riot'.login \in {riot.login, None, fg.new}
    <3>1. CASE riot' = [login |-> fg.new, on |-> TRUE]
      BY <1>2, <3>1
    <3>2. CASE riot' \in {riot, [riot EXCEPT !.on = FALSE]}
      BY <1>1, <3>2
    <3>3. CASE riot' = Personal
      BY <3>3 DEF Personal, Refs
    <3> QED BY <2>1, <3>1, <3>2, <3>3
  <2> QED BY <1>1, <1>2, <2>1, <2>2, <2>3, Gone, LaunchStep
<1>9. CASE UndoLaunch
  <2> DEFINE q == Post("error", fg.new, None)
             w == [win EXCEPT !.sid = None]
  <2>1. Asks(q)
    BY <1>1, <1>2, QuietFacts
  <2>2. (Answered(q) \/ Unanswered(q)) /\ SetLease(w) /\ saved' = None /\ fg' = Idle
        /\ UNCHANGED riot
    BY <1>9 DEF UndoLaunch, ForgetNew
  <2>3. ApiKept /\ Asks(late')
    BY <1>2, <2>1, <2>2, AnswersStep DEF ApiKept
  <2>4. w \in [sid : Refs, owner : Refs] /\ w.sid = None /\ None \in Refs
    BY <1>1 DEF Refs
  <2> HIDE DEF w
  <2> QED BY <1>1, <1>2, <2>2, <2>3, <2>4, SetLeaseFacts, LaunchStep
<1> QED BY <1>3, <1>4, <1>6, <1>7, <1>8, <1>9

\* An operation that is not a launch goes on, or ends.
LEMMA OtherStep ==
    ASSUME IInv, ApiKept, UNCHANGED <<signed, token>>, FgType', fg' \notin Launches,
           fg' \in Releases => fg \in Releases,
           view' \in {"shared", "personal", "gone"}, Asks(late'),
           saved' \in {saved, None}, win' \in [sid : Refs, owner : Refs],
           win'.sid \in {win.sid, None}, view' = view \/ win'.sid = None,
           view' = view \/ fg' \notin Releases,
           calls' \subseteq Calls, Given' \subseteq Given,
           checks' \in 0 .. 2, missed' \in 0 .. MaxMissed - 1,
           riot' \in [login : Refs \cup {Local}, on : BOOLEAN],
           riot'.login \in {riot.login, None, Local},
           fg' \in Quits /\ fg'.at = "post" => riot'.login = None /\ saved' \in {fg'.old, None}
    PROVE  IInv'
<1>1. WinType'
  BY NoneFacts DEF IInv, WinType, Refs
<1>2. view' # "shared" => win'.sid = None
  BY DEF IInv, Known
<1>3. fg' \in Launches \cup Releases => view' = "shared"
  BY DEF IInv, Known
<1>4. KnownStep /\ GivenStep
  BY <1>2, <1>3 DEF KnownStep, GivenStep
<1> QED BY <1>1, <1>4, WindowStep

LEMMA FinishReleaseKeeps == ASSUME IInv, FinishRelease PROVE IInv'
<1> DEFINE q == Post("manual", fg.old, None)
<1>1. fg \in Releases /\ fg.old \in Refs
  BY Kept, Kinds DEF FinishRelease, At, Releases
<1>2. /\ Answered(q) \/ Unanswered(q)
      /\ clearLocalLease(Here) /\ fg' = Idle
      /\ UNCHANGED <<team, admin, view, signed, token, calls>>
  BY DEF FinishRelease, Released, Asked, others
<1>3. Asks(q)
  BY <1>1, Kept, QuietFacts
<1>4. ApiKept /\ Asks(late')
  BY <1>2, <1>3, AnswersStep DEF ApiKept
<1>5. FgType' /\ Given' \subseteq Given
  BY <1>2 DEF FgType, Given
<1> QED BY <1>2, <1>4, <1>5, Kept, KindsDiffer, ClearFacts, OtherStep

LEMMA PrepareQuitKeeps == ASSUME IInv, PrepareQuit PROVE IInv'
<1>1. fg \in Quits
  BY Kept, Kinds DEF PrepareQuit, At
<1>2. /\ UNCHANGED <<team, admin, view, signed, token, calls, events, lease, late, win, saved,
                     checks, missed>>
      /\ \/ riot' = Personal /\ fg' = [fg EXCEPT !.at = "post", !.old = saved]
         \/ riot' \in {riot, [riot EXCEPT !.on = FALSE]} /\ fg' = Idle
  BY DEF PrepareQuit, Step, Asked, others
<1>3. ApiKept /\ Given' \subseteq Given
  BY <1>2, Kept DEF ApiKept, Given
<1>4. CASE riot' = Personal /\ fg' = [fg EXCEPT !.at = "post", !.old = saved]
  <2>1. fg' \in Quits /\ fg'.old = saved
    BY <1>1, <1>4, Kept DEF Quits
  <2>2. riot' \in [login : Refs \cup {Local}, on : BOOLEAN] /\ riot'.login = None
    BY <1>4, Kept DEF Personal
  <2> QED BY <1>2, <1>3, <2>1, <2>2, Kept, KindsDiffer, OtherStep DEF FgType
<1>5. CASE riot' \in {riot, [riot EXCEPT !.on = FALSE]} /\ fg' = Idle
  <2>1. riot' \in [login : Refs \cup {Local}, on : BOOLEAN] /\ riot'.login = riot.login
    BY <1>5, Kept
  <2> QED BY <1>2, <1>3, <1>5, <2>1, Kept, KindsDiffer, OtherStep DEF FgType
<1> QED BY <1>2, <1>4, <1>5

LEMMA CallFacts ==
    ASSUME IInv, NEW l \in Refs,
           NEW kind \in {"tick", "exit", "again", "restore", "logout", "close", "quit"}
    PROVE  /\ Call(kind, l) \in Calls /\ Call(kind, l).kind = kind /\ Call(kind, l).lease = l
           /\ [Call(kind, l) EXCEPT !.auth = "none"] \in Calls
           /\ [Call(kind, l) EXCEPT !.auth = "none"].kind = kind
  BY Kept DEF Call, Calls, Tokens

LEMMA GivenKept ==
    ASSUME \A c \in calls' : c.kind = "quit" =>
               \E d \in calls : d.kind = "quit" /\ d.lease = c.lease
    PROVE  Given' \subseteq Given
  BY DEF Given

\* A release that was taken is over for good, and so is its login when quitting.
LEMMA LeavePostedKeeps == ASSUME IInv, LeavePosted PROVE IInv'
<1> DEFINE q == Post("logout", fg.old, None)
<1>1. /\ fg \in Leavings \/ fg \in Quits
      /\ fg.op = "quit" => fg \in Quits
      /\ fg.at = "post" /\ fg.old \in Refs
  BY Kept, Kinds DEF LeavePosted, Leavings, Quits
<1>2. UNCHANGED <<team, admin, view, signed, token, win, checks, missed, riot>>
  BY DEF LeavePosted, others
<1>3. Asks(q)
  BY <1>1, Kept, QuietFacts
<1>4. ASSUME fg.old # None, Unanswered(q), fg' = Idle, UNCHANGED <<saved, calls>>
      PROVE  IInv'
  <2>1. ApiKept /\ Asks(late') /\ Given' \subseteq Given
    BY <1>2, <1>3, <1>4, AnswersStep DEF ApiKept, Given
  <2> QED BY <1>2, <1>4, <2>1, Kept, KindsDiffer, OtherStep DEF FgType
<1>5. ASSUME ReleasePersisted(q) PROVE ApiKept /\ Asks(late')
  <2>1. CASE fg.old = None
    BY <1>2, <1>5, <2>1, Kept DEF ReleasePersisted, ApiKept
  <2>2. CASE fg.old # None
    BY <1>2, <1>3, <1>5, <2>2, AnswersStep DEF ReleasePersisted, ReleaseTaken, ApiKept
  <2> QED BY <2>1, <2>2
<1>6. ASSUME ReleasePersisted(q), fg.op = "leave", Goto("finish"), UNCHANGED <<saved, calls>>
      PROVE  IInv'
  <2>1. fg \in Leavings
    BY <1>6, Kept, Kinds
  <2>2. fg' \in Leavings
    BY <1>6, <2>1 DEF Goto, Leavings
  <2>3. Given' \subseteq Given
    BY <1>6 DEF Given
  <2> QED BY <1>2, <1>5, <1>6, <2>2, <2>3, Kept, KindsDiffer, OtherStep DEF FgType
<1>7. ASSUME ReleasePersisted(q), fg.op = "quit", fg' = Idle, saved' = None,
             calls' = calls \cup {Call("quit", fg.old)}
      PROVE  IInv'
  <2>1. ApiKept /\ Asks(late')
    BY <1>5, <1>7
  <2>2. /\ ApiTypeOK' /\ AdminType' /\ Blank' /\ OneEach'
        /\ \A l \in Leases :
            /\ lease[l].st # "unused" => lease'[l].st # "unused"
            /\ lease[l].st \in {"ended", "deleted"} => lease'[l].st \in {"ended", "deleted"}
    BY <2>1, ApiKeeps
  <2>3. riot.login = None
    BY <1>1, <1>7 DEF IInv, QuitInv
  <2>9. Call("quit", fg.old) \in Calls /\ Call("quit", fg.old).lease = fg.old
    BY <1>1, CallFacts
  <2>4. calls' \subseteq Calls /\ \A l \in Given' : l \in Given \/ l = fg.old
    BY <1>7, <2>9, Kept DEF Given
  <2>5. fg.old # None => lease'[fg.old].st \in {"ended", "deleted"}
    <3>1. ASSUME fg.old # None
          PROVE  /\ fg.old \in Leases /\ lease' \in Effects(q) /\ Authorized(q)
                 /\ Release(Me, fg.old, "logout").code = "ok"
                 /\ q.lease = fg.old /\ q.what = "logout"
      BY <1>1, <1>7, <3>1 DEF ReleasePersisted, ReleaseTaken, Answered, Post, Asking, Refs
    <3>2. fg.old # None => lease' = Release(Me, fg.old, "logout").rows
      BY <3>1 DEF Effects
    <3> QED BY <3>1, <3>2, ReleaseStep DEF IInv, ApiTypeOK
  <2>6. WinType'
    BY <1>2, <1>7, <2>1, <2>4, Kept DEF IInv, WinType, FgType
  <2>7. Known'
    <3>1. win.sid # None => lease'[win.sid].st # "unused" /\ view = "shared"
      BY <2>2, Kept DEF IInv, Known, Refs
    <3> QED BY <1>2, <1>7, <3>1, KindsDiffer DEF Known
  <2>8. QuitInv'
    <3>1. \A l \in Given' : l \in Leases
      BY DEF Given
    <3> QED BY <1>2, <1>7, <2>2, <2>3, <2>4, <2>5, <3>1, KindsDiffer, NoneFacts
            DEF IInv, QuitInv
  <2> QED BY <2>2, <2>6, <2>7, <2>8 DEF IInv
<1> QED BY <1>4, <1>6, <1>7 DEF LeavePosted

\* The calls of a view that is left are those of before.
LEMMA LeaveFacts ==
    ASSUME IInv, Leave
    PROVE  /\ calls' \subseteq Calls /\ Given' \subseteq Given
           /\ win' \in [sid : Refs, owner : Refs] /\ win'.sid = None
           /\ checks' \in 0 .. 2 /\ missed' \in 0 .. MaxMissed - 1
<1>1. ASSUME NEW d \in calls'
      PROVE  d \in Calls /\ \E c \in calls : c.kind = d.kind /\ c.lease = d.lease
  <2>1. PICK c \in calls : d = [c EXCEPT !.ref = IF @ = Here THEN win.owner ELSE @]
    BY DEF Leave
  <2>2. c \in Calls /\ win.owner \in Refs
    BY Kept
  <2> QED BY <2>1, <2>2 DEF Calls
<1>3. calls' \subseteq Calls /\ Given' \subseteq Given
  BY <1>1, GivenKept
<1> QED BY <1>3, NoLeaseFacts, NoneFacts DEF Leave

LEMMA LeaveFinishedKeeps == ASSUME IInv, LeaveFinished PROVE IInv'
<1>1. fg \in Leavings /\ fg.old \in Refs
  BY Kept, Kinds DEF LeaveFinished, At, Leavings
<1>2. /\ fg' = Idle
      /\ UNCHANGED <<team, admin, lease, late, signed, token, events>>
  BY DEF LeaveFinished, others
<1>3. ApiKept
  BY <1>2, Kept DEF ApiKept
<1>4. /\ saved' \in {saved, None}
      /\ riot' \in [login : Refs \cup {Local}, on : BOOLEAN]
      /\ riot'.login \in {riot.login, None}
  <2>1. CASE riot' \in CleansUp(fg.old) /\ saved' = None
    BY <1>1, <2>1, CleansUpFacts
  <2>2. CASE UNCHANGED <<riot, saved>>
    BY <2>2, Kept
  <2> QED BY <2>1, <2>2 DEF LeaveFinished
<1>5. CASE view' = "personal" /\ Leave
  BY <1>2, <1>3, <1>4, <1>5, Kept, LeaveFacts, KindsDiffer, OtherStep DEF FgType
<1>6. CASE Stay
  <2>1. Given' \subseteq Given
    BY <1>6 DEF Stay, Given
  <2> QED BY <1>2, <1>3, <1>4, <1>6, <2>1, Kept, KindsDiffer, OtherStep DEF FgType, Stay
<1> QED BY <1>5, <1>6 DEF LeaveFinished

-----------------------------------------------------------------------------
(* Calls, and what happens around the window.                              *)

LEMMA ViewStep ==
    ASSUME IInv, ApiKept, fg' = fg \/ fg' = Idle,
           view' \in {"shared", "personal", "gone"}, signed' \in {"in", "leaving", "out"},
           token' \in Tokens, Asks(late'), saved' \in {saved, None},
           win' \in [sid : Refs, owner : Refs],
           win'.sid \in {win.sid, None} \/ (win'.sid = saved /\ view' = "shared"),
           view' = view \/ (win'.sid = None /\ fg' = Idle),
           calls' \subseteq Calls, Given' \subseteq Given,
           checks' \in 0 .. 2, missed' \in 0 .. MaxMissed - 1,
           riot' \in [login : Refs \cup {Local}, on : BOOLEAN],
           riot'.login \in {riot.login, None} \/ (riot'.login = Local /\ fg' = Idle)
    PROVE  IInv'
<1>1. FgType' /\ saved' \in Refs
  BY DEF IInv, WinType, FgType, Refs
<1>2. WinType'
  BY <1>1 DEF WinType
<1>3. KnownStep
  <2>1. view' # "shared" => win'.sid = None
    BY DEF IInv, Known
  <2>2. fg' \in Launches \cup Releases => view' = "shared"
    BY KindsDiffer DEF IInv, Known
  <2> QED BY <2>1, <2>2 DEF KnownStep
<1>4. GivenStep
  BY KindsDiffer DEF GivenStep, IInv, QuitInv
<1> QED BY <1>2, <1>3, <1>4, WindowStep

LEMMA RequestFacts ==
    ASSUME NEW c \in Calls
    PROVE  Asks(Request(c))
  BY DEF Request, Asks, Posts, Calls, Tokens, Refs

LEMMA EndFacts ==
    ASSUME IInv, WindowEnds
    PROVE  /\ fg' = Idle /\ calls' \subseteq Calls /\ Given' \subseteq Given
           /\ win' \in [sid : Refs, owner : Refs] /\ win'.sid = None
           /\ checks' \in 0 .. 2 /\ missed' \in 0 .. MaxMissed - 1
  BY NoLeaseFacts, NoneFacts DEF WindowEnds, Given

LEMMA DroppedFacts == ASSUME IInv, Dropped PROVE Asks(late')
  BY Kept, RequestFacts DEF Dropped

LEMMA QuitFinishedKeeps == ASSUME IInv, QuitFinished PROVE IInv'
<1>1. PICK c \in calls :
        /\ IF riot.on
           THEN calls' = calls \ {c} /\ UNCHANGED <<late, view, fg, win, checks, missed>>
           ELSE view' = "gone" /\ WindowEnds /\ Dropped
        /\ UNCHANGED <<team, admin, lease, signed, token, saved, events, riot>>
  BY DEF QuitFinished, others
<1>2. ApiKept /\ signed \in {"in", "leaving", "out"}
  BY <1>1, Kept DEF ApiKept, IInv, WinType
<1>3. CASE riot.on
  <2>1. calls' \subseteq calls
    BY <1>1, <1>3
  <2> QED BY <1>1, <1>2, <1>3, <2>1, Kept, FewerCalls, ViewStep
<1>4. CASE ~riot.on
  BY <1>1, <1>2, <1>4, Kept, EndFacts, DroppedFacts, ViewStep
<1> QED BY <1>3, <1>4

LEMMA RiotKeeps ==
    ASSUME IInv, ResetRiot \/ LaunchLocal \/ Recover \/ RiotToggles
    PROVE  IInv'
<1>1. /\ UNCHANGED <<team, admin, lease, late, view, signed, token, win, saved, fg, calls,
                     checks, missed>>
      /\ events' = events \/ Event
  BY DEF ResetRiot, LaunchLocal, Recover, RiotToggles, Elsewhere, others, session
<1>2. ApiKept /\ signed \in {"in", "leaving", "out"}
  BY <1>1, Kept DEF ApiKept, IInv, WinType
<1>3. /\ riot' \in [login : Refs \cup {Local}, on : BOOLEAN]
      /\ riot'.login \in {riot.login, None} \/ (riot'.login = Local /\ fg = Idle)
  <2>1. CASE riot' \in {Personal, [riot EXCEPT !.on = FALSE], [riot EXCEPT !.on = ~@]}
    <3>1. riot' = Personal \/ riot' = [riot EXCEPT !.on = FALSE] \/ riot' = [riot EXCEPT !.on = ~@]
      BY <2>1
    <3>2. CASE riot' = Personal
      BY <3>2, Kept DEF Personal
    <3>3. CASE riot' = [riot EXCEPT !.on = FALSE]
      BY <3>3, Kept
    <3>4. CASE riot' = [riot EXCEPT !.on = ~@]
      <4>1. riot.on = TRUE \/ riot.on = FALSE
        BY Kept
      <4>2. riot' = [riot EXCEPT !.on = TRUE] \/ riot' = [riot EXCEPT !.on = FALSE]
        BY <3>4, <4>1, Zenon
      <4> QED BY <4>2, Kept
    <3> QED BY <3>1, <3>2, <3>3, <3>4
  <2>2. CASE riot' = [login |-> Local, on |-> TRUE] /\ fg = Idle
    BY <2>2
  <2> QED BY <2>1, <2>2 DEF ResetRiot, LaunchLocal, Recover, RiotToggles
<1> QED BY <1>1, <1>2, <1>3, Kept, FewerCalls, ViewStep

LEMMA ChangeViewKeeps == ASSUME IInv, ChangeView PROVE IInv'
<1>1. /\ fg = Idle /\ Event
      /\ UNCHANGED <<team, admin, lease, late, signed, token, saved, fg, riot>>
  BY DEF ChangeView, others
<1>2. ApiKept /\ signed \in {"in", "leaving", "out"}
  BY <1>1, Kept DEF ApiKept, IInv, WinType
<1>3. CASE view' = "personal" /\ Leave
  BY <1>1, <1>2, <1>3, Kept, LeaveFacts, ViewStep
<1>4. CASE view = "personal" /\ view' = "shared" /\ UNCHANGED <<win, checks, missed, calls>>
  <2>1. win.sid = None
    BY <1>4 DEF IInv, Known
  <2> QED BY <1>1, <1>2, <1>4, <2>1, Kept, FewerCalls, ViewStep
<1> QED BY <1>3, <1>4 DEF ChangeView

LEMMA RestoreKeeps == ASSUME IInv, Restore PROVE IInv'
<1>1. /\ view = "shared" /\ saved # None /\ SetLease(Holding(saved))
      /\ calls' = calls \cup {Call("restore", saved)}
      /\ UNCHANGED <<team, admin, signed, token, fg, view, events, lease, late, saved, riot>>
  BY DEF Restore, Calling, CallStep, others
<1>2. ApiKept /\ signed \in {"in", "leaving", "out"}
  BY <1>1, Kept DEF ApiKept, IInv, WinType
<1>3. calls' \subseteq Calls /\ Given' \subseteq Given
  BY <1>1, Kept, OneMoreCall
<1> QED BY <1>1, <1>2, <1>3, Kept, NoLeaseFacts, SetLeaseFacts, ViewStep

LEMMA TickKeeps == ASSUME IInv, Tick PROVE IInv'
<1>1. /\ checks' = IF riot.on THEN 1 ELSE IF checks < 2 THEN checks + 1 ELSE 2
      /\ \E kind \in {"exit", "tick"} : calls' = calls \cup {Call(kind, win.sid)}
      /\ UNCHANGED <<team, admin, signed, token, fg, view, events, lease, late, win, saved,
                     missed, riot>>
  BY DEF Tick, Calling, CallStep, others
<1>2. ApiKept /\ signed \in {"in", "leaving", "out"}
  BY <1>1, Kept DEF ApiKept, IInv, WinType
<1>3. calls' \subseteq Calls /\ Given' \subseteq Given
  BY <1>1, Kept, OneMoreCall
<1>4. checks' \in 0 .. 2
  BY <1>1, Kept
<1> QED BY <1>1, <1>2, <1>3, <1>4, Kept, ViewStep

LEMMA WithoutFacts ==
    ASSUME IInv, NEW c \in calls, NEW gaveUp, calls' = Without(c, gaveUp)
    PROVE  calls' \subseteq Calls /\ Given' \subseteq Given
<1>1. ASSUME NEW e \in calls'
      PROVE  e \in Calls /\ \E d \in calls : d.kind = e.kind /\ d.lease = e.lease
  <2>1. PICK d \in calls : e \in {d, [d EXCEPT !.ref = None]}
    BY DEF Without
  <2>2. d \in Calls /\ None \in Refs
    BY Kept
  <2> QED BY <2>1, <2>2 DEF Calls
<1> QED BY <1>1, GivenKept

LEMMA MissedTooFacts ==
    ASSUME IInv, NEW c \in calls,
           calls' \in {Without(c, TRUE), Without(c, TRUE) \cup MissedToo(c)}
    PROVE  calls' \subseteq Calls /\ Given' \subseteq Given
<1>1. ASSUME NEW e \in Without(c, TRUE)
      PROVE  e \in Calls /\ \E d \in calls : d.kind = e.kind /\ d.lease = e.lease
  <2>1. PICK d \in calls : e \in {d, [d EXCEPT !.ref = None]}
    BY DEF Without
  <2>2. d \in Calls /\ None \in Refs
    BY Kept
  <2> QED BY <2>1, <2>2 DEF Calls
<1>2. ASSUME NEW e \in MissedToo(c)
      PROVE  e \in Calls /\ e.kind = "again"
  <2>1. c \in Calls /\ None \in Refs
    BY Kept
  <2> QED BY <2>1 DEF MissedToo, Calls
<1>3. \A e \in calls' : /\ e \in Calls
                        /\ e.kind = "quit" => \E d \in calls : d.kind = "quit" /\ d.lease = e.lease
  BY <1>1, <1>2
<1> QED BY <1>3, GivenKept

LEMMA HeartbeatAnsweredKeeps == ASSUME IInv, HeartbeatAnswered PROVE IInv'
<1>1. PICK c \in calls : \E code \in {"failed", Code(Request(c))} :
        /\ c.kind \in {"tick", "restore"}
        /\ calls' = Without(c, GivesUp(c, code))
        /\ IF code = "failed" THEN Unanswered(Request(c)) ELSE Answered(Request(c))
        /\ IF GivesUp(c, code) THEN clearLocalLease(c.ref) ELSE Counted(c, code)
        /\ UNCHANGED <<team, admin, signed, token, fg, view>>
  BY DEF HeartbeatAnswered, CallStep, others
<1>2. PICK code \in {"failed", Code(Request(c))} :
        /\ c.kind \in {"tick", "restore"}
        /\ calls' = Without(c, GivesUp(c, code))
        /\ IF code = "failed" THEN Unanswered(Request(c)) ELSE Answered(Request(c))
        /\ IF GivesUp(c, code) THEN clearLocalLease(c.ref) ELSE Counted(c, code)
        /\ UNCHANGED <<team, admin, signed, token, fg, view>>
  BY <1>1
<1>3. c \in Calls /\ c.ref \in Refs \cup {Here} /\ Asks(Request(c))
  BY Kept, RequestFacts DEF Calls
<1>4. ApiKept /\ Asks(late') /\ signed \in {"in", "leaving", "out"}
  BY <1>2, <1>3, AnswersStep DEF ApiKept, IInv, WinType
<1>5. calls' \subseteq Calls /\ Given' \subseteq Given
  BY <1>2, WithoutFacts
<1>6. CASE GivesUp(c, code)
  BY <1>2, <1>3, <1>4, <1>5, <1>6, Kept, ClearFacts, ViewStep
<1>7. CASE ~GivesUp(c, code)
  <2>1. code \in {"failed", "ok", "SESSION_NOT_FOUND", "ASSIGNMENT_EXPIRED", "UNAUTHENTICATED"}
    BY HeartbeatStep DEF Code, IInv, ApiTypeOK
  <2>2. Counted(c, code)
    BY <1>2, <1>7
  <2>3. missed' \in 0 .. MaxMissed - 1
    BY <1>2, <1>7, <2>1, <2>2, Kept, NoneFacts DEF GivesUp, Counted
  <2> QED BY <1>2, <1>4, <1>5, <2>2, <2>3, Kept, ViewStep DEF Counted
<1> QED BY <1>6, <1>7

LEMMA ReleaseAnsweredKeeps == ASSUME IInv, ReleaseAnswered PROVE IInv'
<1>1. PICK c \in calls :
        /\ Answered(Request(c)) \/ Unanswered(Request(c))
        /\ IF c.kind = "close"
           THEN view' = "gone" /\ WindowEnds /\ saved' = None /\ riot' \in CleansUp(win.owner)
           ELSE /\ clearLocalLease(c.ref)
                /\ calls' \in {Without(c, TRUE), Without(c, TRUE) \cup MissedToo(c)}
                /\ UNCHANGED <<view, fg>>
        /\ UNCHANGED <<team, admin, signed, token>>
  BY DEF ReleaseAnswered, others
<1>2. c \in Calls /\ c.ref \in Refs \cup {Here} /\ Asks(Request(c))
  BY Kept, RequestFacts DEF Calls
<1>3. ApiKept /\ Asks(late') /\ signed \in {"in", "leaving", "out"}
  BY <1>1, <1>2, AnswersStep DEF ApiKept, IInv, WinType
<1>4. CASE c.kind = "close"
  BY <1>1, <1>3, <1>4, Kept, EndFacts, CleansUpFacts, ViewStep
<1>5. CASE c.kind # "close"
  <2>1. calls' \subseteq Calls /\ Given' \subseteq Given
    BY <1>1, <1>5, MissedTooFacts
  <2> QED BY <1>1, <1>2, <1>3, <1>5, <2>1, Kept, ClearFacts, ViewStep
<1> QED BY <1>4, <1>5

LEMMA GivenUpAgainKeeps == ASSUME IInv, GivenUpAgain PROVE IInv'
<1>1. PICK c \in calls :
        /\ clearLocalLease(c.ref) /\ calls' = Without(c, TRUE)
        /\ UNCHANGED <<team, admin, events, lease, late, view, signed, token, fg>>
  BY DEF GivenUpAgain, others, session
<1>2. c.ref \in Refs \cup {Here} /\ signed \in {"in", "leaving", "out"}
  BY Kept DEF Calls, IInv, WinType
<1>3. ApiKept
  BY <1>1, Kept DEF ApiKept
<1>4. calls' \subseteq Calls /\ Given' \subseteq Given
  BY <1>1, WithoutFacts
<1> QED BY <1>1, <1>2, <1>3, <1>4, Kept, ClearFacts, ViewStep

LEMMA LogoutCallFacts ==
    ASSUME IInv
    PROVE  /\ LogoutCalls \subseteq Calls /\ \A c \in LogoutCalls : c.kind # "quit"
           /\ {[c EXCEPT !.auth = "none"] : c \in LogoutCalls} \subseteq Calls
           /\ \A c \in {[d EXCEPT !.auth = "none"] : d \in LogoutCalls} : c.kind # "quit"
<1>1. \A c \in LogoutCalls : c = Call("logout", win.sid)
  BY DEF LogoutCalls
<1>2. /\ Call("logout", win.sid) \in Calls /\ Call("logout", win.sid).kind = "logout"
      /\ [Call("logout", win.sid) EXCEPT !.auth = "none"] \in Calls
      /\ [Call("logout", win.sid) EXCEPT !.auth = "none"].kind = "logout"
  <2>1. win.sid \in Refs
    BY Kept
  <2> QED BY <2>1, Kept DEF Call, Calls, Tokens
<1> QED BY <1>1, <1>2

LEMMA SessionKeeps ==
    ASSUME IInv, CloseWindow \/ Logout \/ LoggedOut \/ Login \/ TokenExpires
    PROVE  IInv'
<1>1. UNCHANGED <<team, admin, lease, late, view, win, saved, fg, checks, missed, riot>>
  BY DEF CloseWindow, Logout, LoggedOut, Login, TokenExpires, others
<1>2. events' = events \/ Event
  BY DEF CloseWindow, Logout, LoggedOut, Login, TokenExpires
<1>3. ApiKept
  BY <1>1, <1>2, Kept DEF ApiKept
<1>4. signed' \in {"in", "leaving", "out"} /\ token' \in Tokens
  BY DEF IInv, WinType, Tokens, CloseWindow, Logout, LoggedOut, Login, TokenExpires
<1>5. calls' \subseteq Calls /\ Given' \subseteq Given
  <2>1. CASE CloseWindow
    BY <2>1, Kept, OneMoreCall DEF CloseWindow, Calling
  <2>2. CASE Logout
    BY <2>2, LogoutCallFacts, MoreCalls DEF Logout
  <2>3. CASE LoggedOut
    BY <2>3, LogoutCallFacts, MoreCalls DEF LoggedOut
  <2>4. CASE Login \/ TokenExpires
    BY <2>4, FewerCalls DEF Login, TokenExpires
  <2> QED BY <2>1, <2>2, <2>3, <2>4
<1> QED BY <1>1, <1>3, <1>4, <1>5, Kept, ViewStep

LEMMA RestartKeeps == ASSUME IInv, Restart PROVE IInv'
<1>1. /\ Event /\ WindowEnds /\ Dropped
      /\ view' \in {"shared", "personal"}
      /\ signed' \in {"in", "leaving", "out"} /\ token' \in {token, "none"}
      /\ UNCHANGED <<team, admin, lease, saved, riot>>
  BY DEF Restart, others, IInv, WinType
<1>2. ApiKept /\ token' \in Tokens
  BY <1>1, Kept DEF ApiKept, Tokens
<1> QED BY <1>1, <1>2, Kept, EndFacts, DroppedFacts, ViewStep

LEMMA LateKeeps == ASSUME IInv, Late PROVE IInv'
<1>1. /\ lease' \in Effects(late) /\ late' = Quiet
      /\ UNCHANGED <<team, admin, view, signed, token, events, win, saved, fg, calls, checks,
                     missed, riot>>
  BY DEF Late, others, session
<1>2. ApiKept /\ signed \in {"in", "leaving", "out"}
  BY <1>1, Kept, EffectsStep DEF ApiKept, IInv, WinType
<1> QED BY <1>1, <1>2, Kept, QuietFacts, FewerCalls, ViewStep

LEMMA ApiKeepsAll == ASSUME IInv, Api PROVE IInv'
<1>1. ApiStep /\ UNCHANGED winVars
  BY ApiSteps DEF IInv
<1>2. UNCHANGED <<view, signed, token, win, saved, fg, calls, checks, missed, late, riot>>
  BY <1>1 DEF winVars
<1>3. /\ ApiTypeOK' /\ AdminType' /\ Blank' /\ OneEach'
      /\ \A l \in Leases :
            /\ lease[l].st # "unused" => lease'[l].st # "unused"
            /\ lease[l].st \in {"ended", "deleted"} => lease'[l].st \in {"ended", "deleted"}
  BY <1>1, RowsKeep DEF ApiStep, IInv, ApiTypeOK
<1>4. WinType'
  BY <1>2 DEF IInv, WinType, FgType
<1>5. Known'
  <2>1. (saved # None => saved \in Leases) /\ (win.sid # None => win.sid \in Leases)
    BY Kept DEF Refs
  <2> QED BY <1>2, <1>3, <2>1 DEF IInv, Known
<1>6. QuitInv'
  <2>1. Given' = Given /\ Given \subseteq Leases
    BY <1>2 DEF Given
  <2> QED BY <1>2, <1>3, <2>1 DEF IInv, QuitInv
<1> QED BY <1>3, <1>4, <1>5, <1>6 DEF IInv

-----------------------------------------------------------------------------
(* The invariant.                                                          *)

LEMMA Initially == Init => IInv
<1> SUFFICES ASSUME Init PROVE IInv
  OBVIOUS
<1>1. /\ user \in [Users -> [role : {"operator", "admin"}, active : BOOLEAN]]
      /\ account \in [Accounts -> [status : {"available", "closed", "deleted"}, blob : BOOLEAN]]
      /\ assigned \subseteq Accounts \X Users
      /\ device \in [Users -> {"active", "revoked"}] /\ enrolling \subseteq Users
      /\ admin = Nobody /\ admin.op = "none" /\ events \in 0 .. MaxEvents
  BY NoneFacts DEF Init, ApiInit, Nobody
<1>2. /\ NoRow \in Rows /\ NoRow.st = "unused" /\ NoRow.account = None
      /\ \A a \in Accounts : NewRow(Me, a) \in Rows /\ NewRow(Me, a).st = "live"
  BY NoneFacts DEF NoRow, Rows, NewRow
<1>3. /\ lease \in [Leases -> Rows] /\ Live \subseteq {1} /\ Blank
      /\ saved \in Refs /\ (saved # None => lease[saved].st = "live")
      /\ riot \in [login : Refs \cup {Local}, on : BOOLEAN]
  <2>1. CASE lease = NoRows /\ saved = None /\ riot = Personal
    BY <1>2, <2>1 DEF NoRows, Live, Blank, Refs, Personal
  <2>2. ASSUME NEW a \in Accounts, lease = [NoRows EXCEPT ![1] = NewRow(Me, a)],
               saved = 1, riot = [login |-> 1, on |-> TRUE]
        PROVE  /\ lease \in [Leases -> Rows] /\ Live \subseteq {1} /\ Blank
               /\ saved \in Refs /\ (saved # None => lease[saved].st = "live")
               /\ riot \in [login : Refs \cup {Local}, on : BOOLEAN]
    <3>1. \A l \in Leases : lease[l] = IF l = 1 THEN NewRow(Me, a) ELSE NoRow
      BY <2>2 DEF NoRows
    <3>2. lease \in [Leases -> Rows]
      BY <1>2, <2>2 DEF NoRows
    <3> QED BY <1>2, <2>2, <3>1, <3>2, NoneFacts DEF Live, Blank, Refs
  <2> QED BY <2>1, <2>2 DEF Init
<1>4. OneEach
  BY <1>3 DEF OneEach
<1>5. WinType
  BY <1>3, NoneFacts, NoLeaseFacts, QuietFacts DEF Init, WinType, FgType, Tokens
<1>6. Known /\ QuitInv
  BY <1>3, KindsDiffer, NoLeaseFacts DEF Init, Known, QuitInv, Given
<1>7. ApiTypeOK /\ AdminType
  BY <1>1, <1>3 DEF ApiTypeOK, AdminType
<1> QED BY <1>3, <1>4, <1>5, <1>6, <1>7 DEF IInv

LEMMA Stutters == ASSUME IInv, UNCHANGED vars PROVE IInv'
<1>1. /\ UNCHANGED <<team, admin, lease, events, view, signed, token, win, saved, fg, calls,
                     checks, missed, late, riot>>
  BY DEF vars, apiVars, winVars
<1>2. ApiKept /\ signed \in {"in", "leaving", "out"}
  BY <1>1, Kept DEF ApiKept, IInv, WinType
<1> QED BY <1>1, <1>2, Kept, FewerCalls, ViewStep

LEMMA Steps == ASSUME IInv, [Next]_vars PROVE IInv'
<1>1. CASE HandleLaunch \/ HandleRelease \/ SwitchToPersonal \/ Quit
  BY <1>1, StartsKeep
<1>2. CASE \/ ReleaseOld \/ AcquireChecked \/ AcquireAnswered \/ AcquireFails
           \/ FetchBlob \/ SwitchAccount \/ UndoLaunch
  BY <1>2, LaunchSteps, AcquireAnsweredKeeps
<1>3. CASE FinishRelease \/ PrepareQuit \/ LeavePosted \/ LeaveFinished \/ QuitFinished
  BY <1>3, FinishReleaseKeeps, PrepareQuitKeeps, LeavePostedKeeps, LeaveFinishedKeeps,
     QuitFinishedKeeps
<1>4. CASE ResetRiot \/ LaunchLocal \/ Recover \/ RiotToggles
  BY <1>4, RiotKeeps
<1>5. CASE \/ ChangeView \/ Restore \/ Tick \/ HeartbeatAnswered \/ ReleaseAnswered
           \/ GivenUpAgain
  BY <1>5, ChangeViewKeeps, RestoreKeeps, TickKeeps, HeartbeatAnsweredKeeps,
     ReleaseAnsweredKeeps, GivenUpAgainKeeps
<1>6. CASE CloseWindow \/ Logout \/ LoggedOut \/ Login \/ TokenExpires
  BY <1>6, SessionKeeps
<1>7. CASE Restart \/ Late \/ Api \/ UNCHANGED vars
  BY <1>7, RestartKeeps, LateKeeps, ApiKeepsAll, Stutters
<1> QED BY <1>1, <1>2, <1>3, <1>4, <1>5, <1>6, <1>7 DEF Next, Window

\* The inductive invariant holds in every state.
THEOREM Invariant == Spec => []IInv
<1>1. IInv /\ [Next]_vars => IInv'
  BY Steps
<1> QED BY Initially, <1>1, PTL DEF Spec

\* No counter of the window leaves its range and every request, operation and row
\* has the shape it should have, whatever answer comes when.
THEOREM TypeCorrect == Spec => []TypeOK
<1>1. IInv => TypeOK
  <2> SUFFICES ASSUME IInv PROVE TypeOK
    OBVIOUS
  <2>1. fg.op \in {"none", "launch", "release", "leave", "quit"}
    BY Kept DEF FgType, Idle, Launches, Releases, Leavings, Quits
  <2>2. calls \subseteq [kind : {"tick", "exit", "again", "restore", "logout", "close", "quit"},
                         lease : Leases \cup {None}, auth : {"none", "good", "expired"},
                         ref : Leases \cup {None, Here}]
    <3>1. ASSUME NEW c \in Calls
          PROVE  c \in [kind : {"tick", "exit", "again", "restore", "logout", "close", "quit"},
                        lease : Leases \cup {None}, auth : {"none", "good", "expired"},
                        ref : Leases \cup {None, Here}]
      BY DEF Calls, Refs, Tokens
    <3> QED BY <3>1, Kept
  <2>3. riot \in [login : Leases \cup {None, Local}, on : BOOLEAN]
    BY Kept DEF Refs
  <2>4. /\ ApiTypeOK /\ view \in {"shared", "personal", "gone"}
        /\ signed \in {"in", "leaving", "out"} /\ token \in {"none", "good", "expired"}
        /\ win \in [sid : Leases \cup {None}, owner : Leases \cup {None}]
        /\ saved \in Leases \cup {None}
        /\ checks \in 0 .. 2 /\ missed \in 0 .. MaxMissed - 1
    BY DEF IInv, WinType, Refs, Tokens
  <2> QED BY <2>1, <2>2, <2>3, <2>4 DEF TypeOK
<1> QED BY <1>1, Invariant, PTL

-----------------------------------------------------------------------------
(* What becomes of the rows, and the promise of the API.                   *)

\* Steps that ask the API for nothing.
LEMMA Silently ==
    ASSUME \/ HandleLaunch \/ AcquireChecked \/ FetchBlob \/ SwitchAccount \/ HandleRelease
           \/ SwitchToPersonal \/ Quit \/ PrepareQuit \/ LeaveFinished \/ QuitFinished
           \/ ResetRiot \/ LaunchLocal \/ ChangeView \/ Restore \/ Tick
           \/ CloseWindow \/ Logout \/ LoggedOut \/ Login \/ TokenExpires
           \/ Recover \/ RiotToggles \/ Restart \/ GivenUpAgain
    PROVE  lease' = lease
  BY DEF HandleLaunch, Start, AcquireChecked, FetchBlob, SwitchAccount, HandleRelease,
         SwitchToPersonal, Quit, PrepareQuit, LeaveFinished, QuitFinished, ResetRiot,
         LaunchLocal, Elsewhere, ChangeView, Restore, Tick, CloseWindow, Logout, LoggedOut,
         Login, TokenExpires, Recover, RiotToggles, Restart, GivenUpAgain

LEMMA WindowRows == ASSUME IInv, Window PROVE RowsStep(lease')
<1>1. CASE ReleaseOld \/ AcquireFails \/ UndoLaunch \/ AcquireAnswered
  <2>1. fg \in Launches /\ fg.account \in Accounts /\ fg.old \in Refs /\ fg.new \in Refs
    BY <1>1, Kept, Kinds DEF ReleaseOld, AcquireFails, UndoLaunch, AcquireAnswered, At, Launches
  <2>2. Asks(Post("acquire", None, fg.account))
    BY <2>1, Kept DEF Post, Asks, Posts
  <2>3. Asks(Post("manual", fg.old, None)) /\ Asks(Post("error", fg.new, None))
    BY <2>1, Kept, QuietFacts
  <2>4. CASE ReleaseOld
    BY <2>3, <2>4, AnswersStep DEF ReleaseOld
  <2>5. CASE AcquireFails
    BY <2>2, <2>5, AnswersStep DEF AcquireFails
  <2>6. CASE UndoLaunch
    BY <2>3, <2>6, AnswersStep DEF UndoLaunch
  <2>7. CASE AcquireAnswered
    <3>1. lease' = lease \/ \E g \in Acquired(Me, fg.account) : lease' = g.rows
      BY <2>7 DEF AcquireAnswered
    <3>2. lease \in [Leases -> Rows] /\ Me \in Users
      BY NoneFacts DEF IInv, ApiTypeOK
    <3> QED BY <2>1, <3>1, <3>2, Kept, AcquiredStep
  <2> QED BY <1>1, <2>4, <2>5, <2>6, <2>7
<1>2. CASE FinishRelease
  <2>1. fg.old \in Refs
    BY <1>2, Kept, Kinds DEF FinishRelease, At, Releases
  <2> QED BY <1>2, <2>1, Kept, QuietFacts, AnswersStep DEF FinishRelease, Released
<1>3. CASE LeavePosted
  <2>1. fg.old \in Refs
    BY <1>3, Kept, Kinds DEF LeavePosted, Leavings, Quits
  <2>2. Asks(Post("logout", fg.old, None))
    BY <2>1, Kept, QuietFacts
  <2>3. \/ lease' = lease \/ Answered(Post("logout", fg.old, None))
        \/ Unanswered(Post("logout", fg.old, None))
    BY <1>3 DEF LeavePosted, ReleasePersisted, ReleaseTaken
  <2> QED BY <2>2, <2>3, Kept, AnswersStep
<1>4. CASE HeartbeatAnswered \/ ReleaseAnswered
  <2>1. PICK c \in calls : Answered(Request(c)) \/ Unanswered(Request(c))
    BY <1>4 DEF HeartbeatAnswered, ReleaseAnswered
  <2>2. Asks(Request(c))
    BY Kept, RequestFacts
  <2> QED BY <2>1, <2>2, AnswersStep
<1>5. CASE Late
  BY <1>5, Kept, EffectsStep DEF Late, IInv
<1>6. CASE lease' = lease
  BY <1>6, Kept
<1> QED BY <1>1, <1>2, <1>3, <1>4, <1>5, <1>6, Silently DEF Window

LEMMA EveryStepsRows == ASSUME IInv, [Next]_vars PROVE RowsStep(lease')
<1>1. CASE Window
  BY <1>1, WindowRows
<1>2. CASE Api
  BY <1>2, ApiSteps DEF IInv, ApiStep
<1>3. CASE UNCHANGED vars
  BY <1>3, Kept DEF vars, apiVars
<1> QED BY <1>1, <1>2, <1>3 DEF Next

Granted == {l \in Leases : lease[l].st # "unused"}

\* The promise of the API is kept, whatever its callers do: an account is on loan
\* to one lease at a time, which is new.
THEOREM Refinement == Spec => OneHolder
<1>1. Init => Promise!Init
  <2>1. IInv => /\ \A a \in Accounts : LiveOn(a) \subseteq Granted
                /\ \A a \in Accounts : \A l, k \in LiveOn(a) : l = k
                /\ \A a, b \in Accounts : a # b => LiveOn(a) \cap LiveOn(b) = {}
    BY DEF IInv, OneEach, LiveOn, Live, Granted
  <2> QED BY <2>1, Initially DEF Promise!Init, Granted
<1>2. ASSUME IInv, [Next]_vars PROVE Promise!Next
  <2>1. CASE Ends(lease')
    <3>1. Granted' = Granted /\ \A a \in Accounts : LiveOn(a)' \subseteq LiveOn(a)
      BY <2>1 DEF Ends, Granted, LiveOn, Live
    <3>2. \A a \in Accounts : LiveOn(a)' \subseteq Leases
      BY DEF LiveOn, Live
    <3> QED BY <3>1, <3>2 DEF Promise!Next, Promise!End, Granted
  <2>2. ASSUME NEW a \in Accounts, NEW l \in Leases, Grants(a, l, lease')
        PROVE  Promise!Next
    <3>1. l \notin Granted /\ Granted' = Granted \cup {l}
      BY <2>2 DEF Grants, Granted
    <3>2. LiveOn(a)' = {l} /\ \A b \in Accounts \ {a} : LiveOn(b)' \subseteq LiveOn(b)
      BY <2>2 DEF Grants, LiveOn, Live
    <3>3. \A b \in Accounts : LiveOn(b)' \subseteq Leases
      BY DEF LiveOn, Live
    <3> QED BY <3>1, <3>2, <3>3 DEF Promise!Next, Promise!Grant, Granted
  <2> QED BY <1>2, <2>1, <2>2, EveryStepsRows DEF RowsStep
<1>3. IInv /\ [Next]_vars
        => [Promise!Next]_<<[a \in Accounts |-> LiveOn(a)], {l \in Leases : lease[l].st # "unused"}>>
  BY <1>2
<1> QED BY <1>1, <1>3, Invariant, PTL DEF Spec, OneHolder, Promise!Spec

-----------------------------------------------------------------------------
(* What a step may never do.                                               *)

\* While Riot runs a personal profile, no answer about a lease takes it away.
THEOREM LocalStays == Spec => LocalSessionKept
<1>1. ASSUME IInv, Window, riot = [login |-> Local, on |-> TRUE], events' = events,
             fg.op \notin {"launch", "quit"}
      PROVE  riot'.login = Local
  <2>1. riot.login = Local /\ riot.on
    BY <1>1
  <2>2. ~Event
    BY <1>1 DEF Event, IInv, ApiTypeOK
  <2>3. CASE riot' = riot
    BY <2>1, <2>3
  <2>4. CASE FinishRelease
    BY <1>1, <2>1, <2>4, ClearFacts DEF FinishRelease, Released
  <2>5. CASE LeaveFinished
    <3>1. fg.old \in Refs
      BY <1>1, <2>5, Kept, Kinds DEF LeaveFinished, At, Leavings
    <3> QED BY <1>1, <2>1, <2>5, <3>1, CleansUpFacts DEF LeaveFinished
  <2>6. CASE HeartbeatAnswered
    <3>1. PICK c \in calls : clearLocalLease(c.ref) \/ UNCHANGED riot
      BY <2>6 DEF HeartbeatAnswered, Counted
    <3>2. c.ref \in Refs \cup {Here}
      BY <1>1, Kept DEF Calls
    <3> QED BY <1>1, <2>1, <3>1, <3>2, ClearFacts
  <2>7. CASE ReleaseAnswered
    <3>1. PICK c \in calls : clearLocalLease(c.ref) \/ riot' \in CleansUp(win.owner)
      BY <2>7 DEF ReleaseAnswered
    <3>2. c.ref \in Refs \cup {Here} /\ win.owner \in Refs
      BY <1>1, Kept DEF Calls
    <3> QED BY <1>1, <2>1, <3>1, <3>2, ClearFacts, CleansUpFacts
  <2>11. CASE GivenUpAgain
    <3>1. PICK c \in calls : clearLocalLease(c.ref)
      BY <2>11 DEF GivenUpAgain
    <3>2. c.ref \in Refs \cup {Here}
      BY <1>1, Kept DEF Calls
    <3> QED BY <1>1, <2>1, <3>1, <3>2, ClearFacts
  <2>8. ~(SwitchAccount \/ PrepareQuit \/ ResetRiot \/ LaunchLocal \/ Recover \/ RiotToggles)
    BY <1>1, <2>1, <2>2 DEF SwitchAccount, PrepareQuit, At, ResetRiot, LaunchLocal, Recover,
       RiotToggles
  <2>9. CASE \/ HandleLaunch \/ ReleaseOld \/ AcquireChecked \/ AcquireAnswered
             \/ AcquireFails \/ FetchBlob \/ UndoLaunch \/ HandleRelease \/ SwitchToPersonal
             \/ Quit \/ LeavePosted \/ QuitFinished
    <3>1. riot' = riot
      BY <2>9 DEF HandleLaunch, Start, ReleaseOld, AcquireChecked, AcquireAnswered,
         AcquireFails, FetchBlob, UndoLaunch, HandleRelease, SwitchToPersonal, Quit,
         LeavePosted, QuitFinished
    <3> QED BY <2>3, <3>1
  <2>10. CASE \/ ChangeView \/ Restore \/ Tick \/ CloseWindow \/ Logout \/ LoggedOut \/ Login
              \/ TokenExpires \/ Restart \/ Late
    <3>1. riot' = riot
      BY <2>10 DEF ChangeView, Restore, Tick, CloseWindow, Logout, LoggedOut, Login,
         TokenExpires, Restart, Late
    <3> QED BY <2>3, <3>1
  <2> QED BY <1>1, <2>4, <2>5, <2>6, <2>7, <2>8, <2>9, <2>10, <2>11
         DEF Window
<1>2. ASSUME Api PROVE riot' = riot
  BY <1>2 DEF Api, winVars
<1>3. IInv /\ [Next]_vars
      => [riot = [login |-> Local, on |-> TRUE] /\ riot'.login # Local
          => events' # events \/ fg.op \in {"launch", "quit"}]_vars
  BY <1>1, <1>2 DEF Next
<1> QED BY <1>3, Invariant, PTL DEF Spec, LocalSessionKept

\* When the application exits, the lease that was recorded has ended and no login
\* of it is left in Riot, although other calls were answered since its release.
THEOREM QuitsClean == Spec => QuitLeavesNothing
<1>1. ASSUME IInv, NEW c \in calls, c.kind = "quit"
      PROVE  c.lease \notin Live /\ (c.lease # None => riot.login # c.lease)
  <2>1. c.lease \in Refs
    BY <1>1, Kept DEF Calls
  <2>2. CASE c.lease \in Leases
    <3>1. lease[c.lease].st \in {"ended", "deleted"} /\ riot.login # c.lease
      BY <1>1, <2>2 DEF IInv, QuitInv, Given
    <3> QED BY <3>1 DEF Live
  <2>3. CASE c.lease = None
    BY <2>3, NoneFacts DEF Live
  <2> QED BY <2>1, <2>2, <2>3 DEF Refs
<1>2. IInv /\ [Next]_vars
      => [\A c \in calls : c.kind = "quit" /\ view # "gone" /\ view' = "gone"
                           /\ ~Waiting("close")
          => c.lease \notin Live /\ (c.lease # None => riot.login # c.lease)]_vars
  BY <1>1
<1> QED BY <1>2, Invariant, PTL DEF Spec, QuitLeavesNothing

\* The lease shown stays shown, or none is, and so does its record.
LEMMA RecordKept ==
    ASSUME IInv, Recorded, RowsStep(lease'),
           win'.sid \in {win.sid, None} \/ saved' = win'.sid,
           saved' = saved \/ win'.sid = None \/ saved' = win'.sid
    PROVE  Recorded'
<1>1. /\ None \notin Live' /\ Live' \subseteq Leases
  BY NoneFacts DEF Live
<1>2. ASSUME win'.sid = win.sid, saved' = saved, win.sid \in Live'
      PROVE  saved = win.sid
  <2>1. win.sid \in Leases /\ win.sid # None
    BY <1>1, <1>2
  <2>2. view = "shared" /\ lease[win.sid].st # "unused"
    BY <2>1 DEF IInv, Known
  <2>3. win.sid \in Live
    BY <1>2, <2>1, <2>2, RowsKeep DEF IInv, ApiTypeOK
  <2> QED BY <2>2, <2>3 DEF Recorded
<1> QED BY <1>1, <1>2 DEF Recorded

\* A call that is answered is no longer among those of another view.
LEMMA Taken ==
    ASSUME IInv, NEW c \in calls, c.ref # Here, NEW gaveUp, calls' = Without(c, gaveUp)
    PROVE  c \in calls \ calls'
<1>1. ASSUME NEW d \in calls \ {c}, [d EXCEPT !.ref = None] = c, d.ref = c.ref
      PROVE  FALSE
  <2>1. d \in Calls /\ c \in Calls
    BY <1>1, Kept
  <2>2. c.ref = None
    BY <1>1, <2>1 DEF Calls
  <2>3. [d EXCEPT !.ref = None] = d
    BY <1>1, <2>1, <2>2 DEF Calls
  <2> QED BY <1>1, <2>3
<1> QED BY <1>1 DEF Without

\* So is a release that failed, although the tick it was made in goes on.
LEMMA TakenToo ==
    ASSUME IInv, NEW c \in calls, c.ref # Here, c.kind # "again",
           calls' = Without(c, TRUE) \cup MissedToo(c)
    PROVE  c \in calls \ calls'
<1>1. c \notin Without(c, TRUE)
  <2>1. ASSUME NEW d \in calls \ {c}, [d EXCEPT !.ref = None] = c, d.ref = c.ref
        PROVE  FALSE
    <3>1. d \in Calls /\ c \in Calls
      BY <2>1, Kept
    <3>2. c.ref = None
      BY <2>1, <3>1 DEF Calls
    <3>3. [d EXCEPT !.ref = None] = d
      BY <2>1, <3>1, <3>2 DEF Calls
    <3> QED BY <2>1, <3>3
  <2> QED BY <2>1 DEF Without
<1>2. \A e \in MissedToo(c) : e.kind = "again"
  <2>1. c \in Calls
    BY Kept
  <2> QED BY <2>1 DEF MissedToo, Calls
<1> QED BY <1>1, <1>2

\* A release that was taken leaves no lease.
LEMMA TakenEnds ==
    ASSUME IInv, fg.old \in Leases, ReleaseTaken(Post("logout", fg.old, None))
    PROVE  fg.old \notin Live'
<1> DEFINE q == Post("logout", fg.old, None)
<1>1. /\ lease' \in Effects(q) /\ Authorized(q) /\ Release(Me, fg.old, "logout").code = "ok"
      /\ q.lease = fg.old /\ q.what = "logout"
  BY DEF ReleaseTaken, Answered, Post, Asking
<1>2. lease' = Release(Me, fg.old, "logout").rows
  BY <1>1 DEF Effects
<1>3. fg.old \in Refs
  BY DEF Refs
<1> QED BY <1>1, <1>2, <1>3, NoneFacts, ReleaseStep DEF IInv, ApiTypeOK, Live

\* Steps that leave the record and the lease shown alone.
LEMMA RecordUntouched ==
    ASSUME \/ HandleLaunch \/ ReleaseOld \/ AcquireChecked \/ AcquireFails \/ FetchBlob
           \/ SwitchAccount \/ HandleRelease \/ SwitchToPersonal \/ Quit \/ PrepareQuit
           \/ ResetRiot \/ LaunchLocal \/ Tick \/ CloseWindow \/ Logout \/ LoggedOut \/ Login
           \/ TokenExpires \/ Recover \/ RiotToggles \/ Late
    PROVE  UNCHANGED <<saved, win>>
  BY DEF HandleLaunch, Start, ReleaseOld, AcquireChecked, AcquireFails, FetchBlob,
         SwitchAccount, HandleRelease, SwitchToPersonal, Quit, PrepareQuit, ResetRiot,
         LaunchLocal, Elsewhere, Tick, CloseWindow, Logout, LoggedOut, Login, TokenExpires,
         Recover, RiotToggles, Late

\* The lease the team vault shows stays recorded while the API holds it, unless a
\* team vault that was left before hears of its own.
THEOREM LeaseStaysRecorded == Spec => LeaseRecorded
<1>1. ASSUME IInv, Window, Recorded, RowsStep(lease'),
             ~ \E c \in calls \ calls' : c.ref # Here
      PROVE  Recorded'
  <2>1. CASE UNCHANGED <<saved, win>>
    BY <1>1, <2>1, RecordKept
  <2>2. CASE AcquireAnswered
    <3>1. UNCHANGED <<saved, win>> \/ \E l : persistLease(l)
      BY <2>2 DEF AcquireAnswered
    <3>2. ASSUME NEW l, persistLease(l) PROVE saved' = win'.sid
      BY <3>2 DEF persistLease, SetLease, Holding
    <3> QED BY <1>1, <2>1, <3>1, <3>2, RecordKept
  <2>3. CASE UndoLaunch
    <3>1. win'.sid = None
      BY <1>1, <2>3, Kept DEF UndoLaunch, ForgetNew, SetLease
    <3> QED BY <1>1, <3>1, RecordKept
  <2>4. CASE FinishRelease
    <3>1. win'.sid = None
      BY <1>1, <2>4, ClearFacts DEF FinishRelease, Released
    <3> QED BY <1>1, <3>1, RecordKept
  <2>5. CASE LeavePosted
    <3>1. \/ UNCHANGED <<saved, win>>
          \/ /\ ReleasePersisted(Post("logout", fg.old, None))
             /\ fg.op = "quit" /\ fg.at = "post" /\ saved' = None /\ win' = win
      BY <2>5 DEF LeavePosted
    <3>2. ASSUME ReleasePersisted(Post("logout", fg.old, None)), fg.op = "quit",
                 fg.at = "post", win' = win, win.sid \in Live'
          PROVE  FALSE
      <4>1. win.sid \in Leases /\ win.sid # None
        BY <3>2, NoneFacts DEF Live
      <4>2. view = "shared" /\ lease[win.sid].st # "unused"
        BY <1>1, <4>1 DEF IInv, Known
      <4>3. win.sid \in Live
        BY <1>1, <3>2, <4>1, <4>2, RowsKeep DEF IInv, ApiTypeOK
      <4>4. saved = win.sid /\ saved = fg.old
        BY <1>1, <3>2, <4>1, <4>2, <4>3, Kept, Kinds DEF Recorded, IInv, QuitInv
      <4> QED BY <1>1, <3>2, <4>1, <4>4, TakenEnds DEF ReleasePersisted
    <3> QED BY <1>1, <2>1, <3>1, <3>2 DEF Recorded
  <2>6. CASE LeaveFinished
    <3>1. CASE view = "shared" /\ Leave
      BY <1>1, <3>1, LeaveFacts, RecordKept
    <3>2. CASE win' = win /\ view # "shared"
      <4>1. win.sid = None
        BY <1>1, <3>2 DEF IInv, Known
      <4> QED BY <1>1, <3>2, <4>1, RecordKept
    <3> QED BY <2>1, <2>6, <3>1, <3>2 DEF LeaveFinished, Stay
  <2>7. CASE QuitFinished
    <3>1. saved' = saved /\ (win' = win \/ WindowEnds)
      BY <2>7 DEF QuitFinished
    <3> QED BY <1>1, <3>1, EndFacts, RecordKept
  <2>8. CASE ChangeView
    <3>1. saved' = saved /\ (win' = win \/ Leave)
      BY <2>8 DEF ChangeView
    <3> QED BY <1>1, <3>1, LeaveFacts, RecordKept
  <2>9. CASE Restore
    <3>1. saved' = win'.sid
      BY <2>9 DEF Restore, SetLease, Holding
    <3> QED BY <1>1, <3>1, RecordKept
  <2>10. ASSUME NEW c \in calls, clearLocalLease(c.ref),
                \/ \E gaveUp : calls' = Without(c, gaveUp)
                \/ c.kind # "again" /\ calls' = Without(c, TRUE) \cup MissedToo(c)
         PROVE  Recorded'
    <3>1. c.ref \in Refs \cup {Here}
      BY <1>1, Kept DEF Calls
    <3>2. c.ref = Here
      BY <1>1, <2>10, Taken, TakenToo
    <3> QED BY <1>1, <2>10, <3>1, <3>2, ClearFacts, RecordKept
  <2>11. CASE HeartbeatAnswered
    <3>1. \/ UNCHANGED <<saved, win>>
          \/ \E c \in calls : \E code : calls' = Without(c, GivesUp(c, code)) /\ clearLocalLease(c.ref)
      BY <2>11 DEF HeartbeatAnswered, Counted
    <3> QED BY <2>1, <2>10, <3>1
  <2>12. CASE ReleaseAnswered
    <3>1. \/ WindowEnds
          \/ \E c \in calls : /\ clearLocalLease(c.ref) /\ c.kind # "again"
                              /\ calls' \in {Without(c, TRUE), Without(c, TRUE) \cup MissedToo(c)}
      BY <2>12 DEF ReleaseAnswered
    <3>2. CASE WindowEnds
      BY <1>1, <3>2, EndFacts, RecordKept
    <3> QED BY <2>10, <3>1, <3>2
  <2>13. CASE Restart
    BY <1>1, <2>13, EndFacts, RecordKept DEF Restart
  <2>14. CASE GivenUpAgain
    BY <2>10, <2>14 DEF GivenUpAgain
  <2> QED BY <1>1, <2>1, <2>2, <2>3, <2>4, <2>5, <2>6, <2>7, <2>8, <2>9, <2>11, <2>12, <2>13,
             <2>14, RecordUntouched DEF Window
<1>2. ASSUME IInv, Api, Recorded, RowsStep(lease') PROVE Recorded'
  BY <1>2, RecordKept DEF Api, winVars
<1>3. IInv /\ [Next]_vars
      => [Recorded => Recorded' \/ \E c \in calls \ calls' : c.ref # Here]_vars
  BY <1>1, <1>2, EveryStepsRows DEF Next
<1> QED BY <1>3, Invariant, PTL DEF Spec, LeaseRecorded

=============================================================================
