---------------------------- MODULE CloudDesktop ----------------------------
(***************************************************************************)
(* Shared accounts in the desktop: the window that acquires a lease, puts  *)
(* the account's login into Riot and keeps the lease with heartbeats       *)
(* (useCloudAccounts.ts, leaseExit.ts, useAuth.ts, App.tsx), against the   *)
(* team API.                                                               *)
(*                                                                         *)
(* A request takes up to 12 seconds.  What it was given is fixed when it   *)
(* is sent; its effect and what the window makes of the answer are one     *)
(* step here, or the answer is lost, or nobody hears of the request, which *)
(* may then be carried out later.  Whatever happens between two steps of a *)
(* caller - heartbeats, a logout, a launch - interleaves.                  *)
(***************************************************************************)
EXTENDS TeamApi

CONSTANTS
    Me,           \* the user of this window
    Here,         \* the owner of a call is what the mounted view says
    Local,        \* the owner of a personal profile's login
    MaxMissed     \* heartbeats that fail before the lease is given up (4)

ASSUME WindowAssumption ==
    /\ Me \in Users /\ MaxMissed \in Nat \ {0}
    /\ {Here, Local} \cap (Leases \cup {None}) = {}

VARIABLES
    view,     \* "shared": the team vault is mounted; "personal"; "gone": no window
    signed,   \* useAuth's user: "in", "leaving" until the API answered a logout, "out"
    token,    \* the access token: "none", "good" or "expired"
    win,      \* of the mounted view: the lease shown (sid) and leaseOwner
    saved,    \* the lease in localStorage
    fg,       \* the operation that holds run()'s lock
    calls,    \* other requests under way: heartbeats, restores, releases
    checks,   \* of the effect: 0 before its first check, then 1 + closed in a row
    missed,   \* heartbeats missed in a row
    late,     \* a request the window gave up and the API may still carry out
    riot      \* whose login Riot has, and whether it runs

winVars == <<view, signed, token, win, saved, fg, calls, checks, missed, late, riot>>
vars == <<apiVars, winVars>>
session == <<view, signed, token, events>>
others == <<team, admin>>

NoLease == [sid |-> None, owner |-> None]
Holding(l) == [sid |-> l, owner |-> l]
Idle == [op |-> "none"]

-----------------------------------------------------------------------------
(* Requests (lib/api.ts)                                                   *)

Post(what, l, a) == [what |-> what, lease |-> l, account |-> a, auth |-> token]
Asking == Post("nothing", None, None)
Quiet == [Asking EXCEPT !.auth = "none"]

\* readAuth() and currentUser()
Authorized(q) == q.auth = "good" /\ Active(Me)

\* the rows a request may leave
Effects(q) ==
    IF ~Authorized(q) THEN {lease}
    ELSE CASE q.what = "acquire" ->
                IF MayAcquire(Me, q.account)
                THEN {g.rows : g \in Acquired(Me, q.account)} \cup {lease} ELSE {lease}
           [] q.what = "heartbeat" -> {Heartbeat(Me, q.lease).rows}
           [] q.what \in {"manual", "logout", "error", "process_exit"} ->
                {Release(Me, q.lease, q.what).rows}
           [] OTHER -> {lease}

Answered(q) == lease' \in Effects(q) /\ UNCHANGED <<late, events>>

\* the request is refused, times out or cannot be made: it was carried out and
\* the answer lost, it was never carried out, or it will be
Unanswered(q) ==
    \/ Answered(q)
    \/ UNCHANGED <<lease, late, events>>
    \/ late = Quiet /\ late' = q /\ Event /\ UNCHANGED lease

Late ==
    /\ late # Quiet
    /\ lease' \in Effects(late)
    /\ late' = Quiet
    /\ UNCHANGED <<others, session, win, saved, fg, calls, checks, missed, riot>>

-----------------------------------------------------------------------------
(* Riot, through the commands the window gives (commands/session.rs)       *)

Personal == [login |-> None, on |-> FALSE]

\* Mutant of CleansUp: the owner of the settings is not asked.
CleansUpAny(owner) == {riot} \cup (IF owner # None THEN {Personal} ELSE {})

\* cleanup_account_session(): another owner's settings are left alone.  It may
\* fail: a match is on, another operation has the lock, a file cannot be written.
CleansUp(owner) ==
    {riot} \cup (IF owner # None /\ riot.login = owner
                 THEN {Personal, [riot EXCEPT !.on = FALSE]} ELSE {})

\* switch_account_session(): Riot is stopped, the login written, Riot started
SwitchTo(l) == riot' = [login |-> l, on |-> TRUE]

\* the same stopped half way: as it was, stopped, or personal settings again
SwitchFails == riot' \in {riot, [riot EXCEPT !.on = FALSE], Personal}

-----------------------------------------------------------------------------
(* The lease in the window                                                 *)

\* a lease that the view learns of starts its effects anew
SetLease(w) == /\ win' = w
               /\ checks' = IF w.sid = win.sid THEN checks ELSE 0
               /\ missed' = IF w.sid \in {win.sid, None} THEN missed ELSE 0

\* clearLocalLease(): the view forgets, then Riot's settings are restored for
\* the owner that was remembered.  A call from a view that is no longer there
\* has that view's owner, and shares only localStorage.
clearLocalLease(ref) ==
    /\ saved' = None
    /\ IF ref = Here
       THEN SetLease(NoLease) /\ riot' \in CleansUp(win.owner)
       ELSE riot' \in CleansUp(ref) /\ UNCHANGED <<win, checks, missed>>

\* Mutant of persistLease: nothing is stored.
PersistNothing(l) == SetLease(Holding(l)) /\ UNCHANGED saved

persistLease(l) == SetLease(Holding(l)) /\ saved' = l

Call(kind, l) == [kind |-> kind, lease |-> l, ref |-> Here, auth |-> token]

Start(operation) ==
    /\ fg = Idle
    /\ Event
    /\ fg' = operation
    /\ UNCHANGED <<others, lease, late, view, signed, token, win, saved, calls,
                   checks, missed, riot>>

Asked == UNCHANGED <<others, view, signed, token, calls>>
Step == Asked /\ UNCHANGED events
At(op, at) == fg.op = op /\ fg.at = at
Goto(at) == fg' = [fg EXCEPT !.at = at]

\* acquireAndLaunch(): everything below works with the lease it was called with
HandleLaunch == \E a \in Accounts :
    /\ view = "shared" /\ signed # "out"
    /\ Start([op |-> "launch", at |-> IF win.sid = None THEN "acquire" ELSE "release",
              account |-> a, old |-> win.sid, new |-> None])

ReleaseOld ==
    /\ At("launch", "release")
    /\ LET q == Post("manual", fg.old, None)
       IN \/ /\ Authorized(q) /\ Release(Me, fg.old, "manual").code = "ok"
             /\ Answered(q) /\ Goto("acquire")
          \/ Unanswered(q) /\ fg' = Idle
    /\ Asked /\ UNCHANGED <<win, saved, checks, missed, riot>>

\* the API has read everything but the account's row and its lease
AcquireChecked ==
    /\ At("launch", "acquire")
    /\ Authorized(Post("acquire", None, fg.account)) /\ MayAcquire(Me, fg.account)
    /\ Goto("granting")
    /\ Step /\ UNCHANGED <<lease, late, win, saved, checks, missed, riot>>

\* a lease that is shown after a logout is released at once, without a token
AcquireAnswered ==
    /\ At("launch", "granting")
    /\ \/ \E granted \in Acquired(Me, fg.account) :
            /\ lease' = granted.rows
            /\ persistLease(granted.id)
            /\ fg' = [fg EXCEPT !.at = "blob", !.new = granted.id]
            /\ calls' = IF signed = "out" THEN calls \cup {Call("logout", granted.id)} ELSE calls
       \/ /\ lease' \in {lease} \cup {g.rows : g \in Acquired(Me, fg.account)}
          /\ fg' = Idle
          /\ UNCHANGED <<win, saved, calls, checks, missed>>
    /\ UNCHANGED <<others, session, late, riot>>

AcquireFails ==
    /\ At("launch", "acquire")
    /\ Unanswered(Post("acquire", None, fg.account))
    /\ fg' = Idle
    /\ Asked /\ UNCHANGED <<win, saved, checks, missed, riot>>

FetchBlob ==
    /\ At("launch", "blob")
    /\ \/ Authorized(Asking) /\ HandsOutBlob(Me, fg.new) /\ Goto("switch")
       \/ Goto("undo")
    /\ Step /\ UNCHANGED <<lease, late, win, saved, checks, missed, riot>>

SwitchAccount ==
    /\ At("launch", "switch")
    /\ \/ SwitchTo(fg.new) /\ fg' = Idle
       \/ SwitchFails /\ Goto("undo")
    /\ Step /\ UNCHANGED <<lease, late, win, saved, checks, missed>>

\* leaseOwner keeps the lease that is given up
ForgetNew == SetLease([win EXCEPT !.sid = None]) /\ saved' = None

\* The release may fail.  When a match was on, the user is asked and all is done
\* again: another launch, for to release the old lease again changes nothing.
UndoLaunch ==
    /\ At("launch", "undo")
    /\ LET q == Post("error", fg.new, None) IN Answered(q) \/ Unanswered(q)
    /\ ForgetNew
    /\ fg' = Idle
    /\ Asked /\ UNCHANGED riot

\* the banner of the lease that is held
ActiveLeaseBanner == view = "shared" /\ win.sid # None

\* the banner's release, which asks about a match first
HandleRelease == /\ ActiveLeaseBanner
                 /\ Start([op |-> "release", at |-> "post", old |-> win.sid])

\* the lease is cleared whether or not the API took the release
Released(q, ref) ==
    /\ Answered(q) \/ Unanswered(q)
    /\ clearLocalLease(ref)

FinishRelease ==
    /\ At("release", "post")
    /\ Released(Post("manual", fg.old, None), Here)
    /\ fg' = Idle
    /\ Asked

-----------------------------------------------------------------------------
(* Leaving: personal profiles from the tray, quitting, Riot reset          *)

Waiting(kind) == \E c \in calls : c.kind = kind

\* releasePersistedCloudLease(): the key goes once the release was taken
SwitchToPersonal ==
    /\ saved # None /\ ~Waiting("quit") /\ view # "gone"
    /\ Start([op |-> "leave", at |-> "post", old |-> saved])

Quit ==
    /\ ~Waiting("quit") /\ view # "gone"
    /\ Start([op |-> "quit", at |-> "prepare", old |-> None])

\* prepare_quit: Riot is stopped and its settings restored, whoever owns them
PrepareQuit ==
    /\ At("quit", "prepare")
    /\ \/ riot' = Personal /\ fg' = [fg EXCEPT !.at = "post", !.old = saved]
       \/ riot' \in {riot, [riot EXCEPT !.on = FALSE]} /\ fg' = Idle
    /\ Step /\ UNCHANGED <<lease, late, win, saved, checks, missed>>

\* Mutant of ReleaseTaken: a release that failed is good enough.
ReleaseTried(q) == fg.old # None /\ (Answered(q) \/ Unanswered(q))

ReleaseTaken(q) ==
    /\ Authorized(q) /\ Release(Me, q.lease, q.what).code = "ok"
    /\ Answered(q)

ReleasePersisted(q) == IF fg.old = None THEN UNCHANGED <<lease, late, events>> ELSE ReleaseTaken(q)

LeavePosted ==
    /\ fg.op \in {"leave", "quit"} /\ fg.at = "post"
    /\ LET q == Post("logout", fg.old, None)
       IN \/ /\ ReleasePersisted(q)
             /\ IF fg.op = "leave" THEN Goto("finish") /\ UNCHANGED <<saved, calls>>
                ELSE fg' = Idle /\ saved' = None /\ calls' = calls \cup {Call("quit", fg.old)}
          \/ fg.old # None /\ Unanswered(q) /\ fg' = Idle /\ UNCHANGED <<saved, calls>>
    /\ UNCHANGED <<others, view, signed, token, win, checks, missed, riot>>

\* the view is left: it forgets its lease, its calls keep the owner it knew
Leave ==
    /\ calls' = {[c EXCEPT !.ref = IF @ = Here THEN win.owner ELSE @] : c \in calls}
    /\ win' = NoLease /\ checks' = 0 /\ missed' = 0

Stay == UNCHANGED <<view, win, checks, missed, calls>>

\* the settings are restored before the key goes and the view changes
LeaveFinished ==
    /\ At("leave", "finish")
    /\ \/ /\ riot' \in CleansUp(fg.old)
          /\ saved' = None
          /\ IF view = "shared" THEN view' = "personal" /\ Leave ELSE Stay
       \/ Stay /\ UNCHANGED <<riot, saved>>
    /\ fg' = Idle
    /\ UNCHANGED <<others, lease, late, signed, token, events>>

Request(c) == [what |-> IF c.kind \in {"tick", "restore"} THEN "heartbeat"
                        ELSE IF c.kind = "exit" THEN "process_exit" ELSE "logout",
               lease |-> c.lease, account |-> None, auth |-> c.auth]

\* the window is no more: its operation and its calls end
WindowEnds == /\ fg' = Idle /\ calls' = {}
              /\ win' = NoLease /\ checks' = 0 /\ missed' = 0

\* a request of its may still be under way
Dropped == late' \in {late} \cup {Request(c) : c \in {d \in calls : d.kind \notin {"again", "quit"}}}

\* finish_quit, when run() has let go of its lock: refused while Riot runs
QuitFinished == \E c \in calls :
    /\ c.kind = "quit"
    /\ IF riot.on
       THEN calls' = calls \ {c} /\ UNCHANGED <<late, view, fg, win, checks, missed>>
       ELSE view' = "gone" /\ WindowEnds /\ Dropped
    /\ UNCHANGED <<others, lease, signed, token, saved, events, riot>>

Elsewhere == UNCHANGED <<others, lease, late, view, signed, token, win, saved, fg, calls,
                        checks, missed>>

\* handleResetRiot(): whoever owns the settings; and the Stop Riot buttons
ResetRiot ==
    /\ fg = Idle /\ Event
    /\ view # "gone"
    /\ riot' \in {Personal, [riot EXCEPT !.on = FALSE]}
    /\ Elsewhere

\* a personal profile is launched; a lease that is not given up stays
LaunchLocal ==
    /\ fg = Idle /\ Event
    /\ view = "personal"
    /\ riot' \in {[login |-> Local, on |-> TRUE], Personal}
    /\ Elsewhere

\* the header switches views, not while an operation runs
ChangeView ==
    /\ fg = Idle /\ Event
    /\ \/ view = "shared" /\ view' = "personal" /\ Leave
       \/ view = "personal" /\ view' = "shared" /\ UNCHANGED <<win, checks, missed, calls>>
    /\ UNCHANGED <<others, lease, late, signed, token, saved, fg, riot>>

-----------------------------------------------------------------------------
(* Effects of the view: restoring, heartbeats, releases outside run()      *)

Calling(c) == calls' = calls \cup {c}
CallStep == UNCHANGED <<others, signed, token, fg>>

\* a lease found in localStorage is shown at once and asked for
Restore ==
    /\ view = "shared" /\ signed # "out" /\ win.sid = None /\ saved # None
    /\ SetLease(Holding(saved))
    /\ Calling(Call("restore", saved))
    /\ CallStep /\ UNCHANGED <<view, events, lease, late, saved, riot>>

\* tick(): every 60 seconds, unless the last one still waits
Tick ==
    /\ view = "shared" /\ win.sid # None
    /\ ~ \E c \in calls : c.ref = Here /\ c.lease = win.sid /\ c.kind \in {"tick", "exit"}
    /\ checks' = IF riot.on THEN 1 ELSE IF checks < 2 THEN checks + 1 ELSE 2
    /\ Calling(Call(IF ~riot.on /\ checks = 2 THEN "exit" ELSE "tick", win.sid))
    /\ CallStep /\ UNCHANGED <<view, events, lease, late, win, saved, missed, riot>>

Code(q) == IF Authorized(q) THEN Heartbeat(Me, q.lease).code ELSE "UNAUTHENTICATED"

\* a restored lease is given up for any reason, another when the API says that
\* it is over or does not answer too often
GivesUp(c, code) ==
    IF c.kind = "restore" THEN code # "ok"
    ELSE \/ code \in {"SESSION_NOT_FOUND", "ASSIGNMENT_EXPIRED", "UNAUTHENTICATED"}
         \/ code = "failed" /\ missed + 1 >= MaxMissed

\* Mutant of Counted: misses are not counted.
CountedNever(c, code) == UNCHANGED <<win, saved, checks, riot, missed>>

\* the count is that of the view's; a call of another view gives up or not
Counted(c, code) ==
    /\ UNCHANGED <<win, saved, checks, riot>>
    /\ missed' = IF c.kind # "tick" \/ c.ref # Here THEN missed
                 ELSE IF code = "ok" THEN 0 ELSE missed + 1

\* what is left of the calls; a view that was left gives a lease up once
Without(c, gaveUp) ==
    {IF gaveUp /\ c.ref # Here /\ d.ref = c.ref THEN [d EXCEPT !.ref = None] ELSE d :
        d \in calls \ {c}}

HeartbeatAnswered == \E c \in calls : \E code \in {"failed", Code(Request(c))} :
    /\ c.kind \in {"tick", "restore"}
    /\ calls' = Without(c, GivesUp(c, code))
    /\ IF code = "failed" THEN Unanswered(Request(c)) ELSE Answered(Request(c))
    /\ IF GivesUp(c, code) THEN clearLocalLease(c.ref) ELSE Counted(c, code)
    /\ CallStep /\ UNCHANGED view

\* The release failed in the tick of a lease whose Riot was closed: to that it
\* is a heartbeat missed.
MissedToo(c) ==
    IF c.kind = "exit" /\ (~Authorized(Request(c)) \/ missed + 1 >= MaxMissed)
    THEN {[c EXCEPT !.kind = "again", !.ref = IF @ = Here THEN Here ELSE None]} ELSE {}

\* releaseLease(): after Riot was closed, at logout, when the window closes,
\* which then is destroyed
ReleaseAnswered == \E c \in calls :
    /\ c.kind \in {"exit", "logout", "close"}
    /\ Answered(Request(c)) \/ Unanswered(Request(c))
    /\ IF c.kind = "close"
       THEN view' = "gone" /\ WindowEnds /\ saved' = None /\ riot' \in CleansUp(win.owner)
       ELSE /\ clearLocalLease(c.ref)
            /\ calls' \in {Without(c, TRUE), Without(c, TRUE) \cup MissedToo(c)}
            /\ UNCHANGED <<view, fg>>
    /\ UNCHANGED <<others, signed, token>>

\* the tick gives up what the view shows by then
GivenUpAgain == \E c \in calls :
    /\ c.kind = "again"
    /\ clearLocalLease(c.ref)
    /\ calls' = Without(c, TRUE)
    /\ UNCHANGED <<others, lease, late, session, fg>>

\* onCloseRequested: with a lease the window is destroyed, without it is hidden
CloseWindow ==
    /\ view = "shared" /\ win.sid # None /\ ~Waiting("close")
    /\ Event
    /\ Calling(Call("close", win.sid))
    /\ UNCHANGED <<others, lease, late, view, signed, token, win, saved, fg, checks,
                   missed, riot>>

LogoutCalls == IF view = "shared" /\ win.sid # None THEN {Call("logout", win.sid)} ELSE {}

\* logout(): the release is asked for first, the token goes when the API has
\* answered or not; a lease that is still shown then is released without it
Logout ==
    /\ signed = "in" /\ Event
    /\ signed' = "leaving"
    /\ calls' = calls \cup LogoutCalls
    /\ UNCHANGED <<others, lease, late, view, token, win, saved, fg, checks, missed, riot>>

LoggedOut ==
    /\ signed = "leaving"
    /\ token' = "none" /\ signed' = "out"
    /\ calls' = calls \cup {[c EXCEPT !.auth = "none"] : c \in LogoutCalls}
    /\ UNCHANGED <<others, lease, late, view, win, saved, fg, checks, missed, riot, events>>

\* login() and checkSession()
Login ==
    /\ signed = "out" /\ view # "gone" /\ Active(Me)
    /\ signed' = "in" /\ token' = "good"
    /\ Event
    /\ UNCHANGED <<others, lease, late, view, win, saved, fg, calls, checks, missed, riot>>

TokenExpires ==
    /\ token = "good" /\ token' = "expired" /\ Event
    /\ UNCHANGED <<others, lease, late, view, signed, win, saved, fg, calls, checks,
                   missed, riot>>

-----------------------------------------------------------------------------
(* Riot and LAAP themselves                                                *)

\* recover_orphaned_account_session: every 30 seconds, outside operations
Recover ==
    /\ view # "gone" /\ fg = Idle /\ ~riot.on /\ riot.login # None
    /\ riot' = Personal
    /\ UNCHANGED <<others, lease, late, session, win, saved, fg, calls, checks, missed>>

RiotToggles ==
    /\ riot' = [riot EXCEPT !.on = ~@]
    /\ Event
    /\ UNCHANGED <<others, lease, late, view, signed, token, win, saved, fg, calls, checks, missed>>

\* LAAP dies, or was closed, and starts again; a request may still arrive
Restart ==
    /\ Event
    /\ view' \in {"shared", "personal"}
    /\ signed' \in {"out"} \cup ({signed} \ {"leaving"})
    /\ token' = IF signed' = "in" THEN token ELSE "none"
    /\ WindowEnds /\ Dropped
    /\ UNCHANGED <<others, lease, saved, riot>>

NoRows == [l \in Leases |-> NoRow]

\* LAAP starts with nothing, or finds what it left when it last ended: a lease,
\* and its login in Riot.
Init ==
    /\ ApiInit
    /\ \/ lease = NoRows /\ saved = None /\ riot = Personal
       \/ \E a \in Accounts :
            /\ lease = [NoRows EXCEPT ![1] = NewRow(Me, a)]
            /\ saved = 1 /\ riot = [login |-> 1, on |-> TRUE]
    /\ view = "shared" /\ signed = "in" /\ token = "good"
    /\ win = NoLease /\ fg = Idle /\ calls = {}
    /\ checks = 0 /\ missed = 0 /\ late = Quiet

Window ==
    \/ HandleLaunch \/ ReleaseOld \/ AcquireChecked \/ AcquireAnswered \/ AcquireFails
    \/ FetchBlob \/ SwitchAccount \/ UndoLaunch \/ HandleRelease \/ FinishRelease
    \/ SwitchToPersonal \/ Quit \/ PrepareQuit \/ LeavePosted \/ LeaveFinished
    \/ QuitFinished \/ ResetRiot \/ LaunchLocal \/ ChangeView
    \/ Restore \/ Tick \/ HeartbeatAnswered \/ ReleaseAnswered \/ GivenUpAgain
    \/ CloseWindow \/ Logout \/ LoggedOut \/ Login \/ TokenExpires
    \/ Recover \/ RiotToggles \/ Restart \/ Late

Api ==
    /\ \/ Administration \/ Reap \/ AssignmentExpires
       \/ RegisterDevice(Me)
       \/ \E u \in Users \ {Me} : OtherOperator(u)
       \/ \E l \in Leases : FallsSilent(l)
    /\ UNCHANGED winVars

Next == Window \/ Api

Spec == Init /\ [][Next]_vars

Beaten(l) == view = "shared" /\ win.sid = l

\* The timers of the window and of the database, answers or their timeouts, and
\* the clock, for a lease nobody sends heartbeats for.  Nothing is assumed of the
\* network, of the user, or of an administrator.
Fairness ==
    /\ WF_vars(Tick)
    /\ WF_vars(HeartbeatAnswered \/ ReleaseAnswered \/ GivenUpAgain)
    /\ WF_vars(Reap /\ UNCHANGED winVars)
    /\ WF_vars(\E l \in Leases : ~Beaten(l) /\ FallsSilent(l) /\ UNCHANGED winVars)

FairSpec == Spec /\ Fairness

-----------------------------------------------------------------------------
(* Properties                                                              *)

\* Types of the window's state and the API's: no counter leaves its range,
\* whatever call answers when.
TypeOK ==
    /\ ApiTypeOK
    /\ view \in {"shared", "personal", "gone"}
    /\ signed \in {"in", "leaving", "out"}
    /\ token \in {"none", "good", "expired"}
    /\ win \in [sid : Leases \cup {None}, owner : Leases \cup {None}]
    /\ saved \in Leases \cup {None}
    /\ fg.op \in {"none", "launch", "release", "leave", "quit"}
    /\ calls \subseteq [kind : {"tick", "exit", "again", "restore", "logout", "close", "quit"},
                        lease : Leases \cup {None}, auth : {"none", "good", "expired"},
                        ref : Leases \cup {None, Here}]
    /\ checks \in 0 .. 2 /\ missed \in 0 .. MaxMissed - 1
    /\ riot \in [login : Leases \cup {None, Local}, on : BOOLEAN]

\* What the API promises holds whatever the window, administrators and late
\* requests do: an account is on loan to one lease at a time, which is new
\* (idx_exclusive_account_session, acquire_account_lease_for_user()).
Promise == INSTANCE AccountLease WITH
    holders <- [a \in Accounts |-> LiveOn(a)],
    granted <- {l \in Leases : lease[l].st # "unused"}
OneHolder == Promise!Spec

Recorded == view = "shared" /\ win.sid \in Live => saved = win.sid

\* "Keep the release handler at application scope so tray Quit can always find
\* it" (App.tsx:56): the lease the team vault shows stays recorded in
\* localStorage while the API holds it.  Only an answer that a team vault waited
\* for when it was left may wipe the record of the one mounted since.
LeaseRecorded ==
    [][Recorded => Recorded' \/ \E c \in calls \ calls' : c.ref # Here]_vars

\* "A session owner marker prevents an old cloud cleanup from stopping a newer
\* local session" (docs/desktop-hardening-verification.md:18): while Riot runs a
\* personal profile, no answer about a lease takes it away; only what the user
\* asked for does.
LocalSessionKept ==
    [][riot = [login |-> Local, on |-> TRUE] /\ riot'.login # Local
       => events' # events \/ fg.op \in {"launch", "quit"}]_vars

\* Quitting "releases any cloud lease before exiting"
\* (docs/riot-installation-and-presence.md:31): when the application exits, the
\* lease that was recorded has ended and no login of it is left in Riot.
QuitLeavesNothing ==
    [][\A c \in calls : c.kind = "quit" /\ view # "gone" /\ view' = "gone"
                        /\ ~Waiting("close")
        => c.lease \notin Live /\ (c.lease # None => riot.login # c.lease)]_vars

ShowsDead == \E l \in Leases \ Live : Beaten(l)
Orphans == {l \in LiveOf(Me) : ~Beaten(l)}

\* A lease that is over - reaped, released by an administrator, its account
\* closed - does not go on being shown, be the network what it may (the tick of
\* useCloudAccounts.ts and its count of missed heartbeats).
LossNoticed == ShowsDead ~> ~ShowsDead

\* No account stays on loan for nothing: a lease that no window sends heartbeats
\* for ends, be it one whose grant was never heard of, one the window gave up
\* when the network failed, or one left behind by a launch, a view or a death.
OrphansEnd == Orphans # {} ~> Orphans = {}

\* An operator whose assignment is gone for good loses the account, although the
\* service that revoked it may have stopped before it ended the lease, and an
\* acquisition may have been granted meanwhile.
EntitlementEnds ==
    \A a \in Accounts :
        \/ []<>Entitled(Me, a)
        \/ <>[](LiveOn(a) \cap LiveOf(Me) = {})

=============================================================================
