# LAAP in TLA+

Models, checks and proofs of LAAP, the League account launcher: a desktop
application (Tauri: Rust and React), a team API (Node, on SQLite or Supabase)
and an admin console. The specifications are translated from the code; where
the code and its comments, tests or documents disagree, a run shows how.

Paths are relative to the repository. `R/` stands for
`apps/desktop/src-tauri/src/`, `A/` for `apps/api/src/`, `D/` for
`apps/desktop/src/`, `C/` for `apps/admin/src/`.

    tlc -workers 2 -config RiotSettings.cfg MCRiotSettings.tla
    tlapm RiotSettingsProofs.tla
    tlapm RiotRecoveryProofs.tla
    tlapm LeaseProofs.tla
    tlapm CloudDesktopProofs.tla
    tlapm LocalVaultProofs.tla
    tlapm DesktopPresenceProofs.tla
    tlapm ApiPersistenceProofs.tla
    tlapm AdminPagesProofs.tla

## The system

| Component | State | Operations | Hard behaviour | What makes it correct |
|---|---|---|---|---|
| Riot settings, `R/riot/session_manager.rs` | two settings files, their `.backup`s, a marker with the missing files, the owner file | inject a login, clean up, recover | death between any two file operations, failed writes and deletions | the player's own settings can be recovered at every moment and do come back |
| Sign-in sandbox, `R/riot/provisioner.rs` | staging directory with copies and manifest, the worker in memory | prepare, poll, finish, recover | abandoned directories, partial restoration, retries | only logins made in a sandbox are captured, nothing of the player's is lost |
| Operation lock, `R/riot/operation.rs` | a mutex, two lock files, time of the last launch | acquire, reserve, cooldown | several LAAP processes, death of the holder | one command at a time, one sandbox on the computer |
| Commands, `R/commands/session.rs` | the live sandbox and its ticket | switch, cleanup, start / poll / finish / cancel / complete a sign-in, close, launch, shut down, recover | a failing step of several, the recovery timer against a launch | every failure path leaves recoverable files |
| Stopping Riot, `R/riot/process.rs` | processes of the system | snapshot, stop | Riot starting again in between | files are replaced only while Riot is closed |
| Team API on SQLite, `A/services/sqlite/*`, `A/routes/*` | users, accounts, assignments, devices, leases (`account_sessions`) | acquire, heartbeat, release, reap, force-release, administration | requests that authenticate, then wait for their body; time | one lease per account, only for those entitled, from trusted devices, of accounts in service; leases end |
| Persistence, `A/db/database.ts`, `A/server.ts` | database in memory, its file, a chain of saves | transaction, save, open, seed, shutdown | a death after the answer, a failed save, copies of different moments | the file never goes back; only a death or a failed disk forgets what was acknowledged |
| Team API on Supabase, `A/services/supabase/*`, `supabase/migrations/*` | the same tables in Postgres | the same, as procedures and separate statements | statements of two requests interleave | as on SQLite |
| Cloud lease client, `D/features/team-vault/useCloudAccounts.ts` | current lease, stored lease, missed heartbeats | acquire and launch, heartbeat, release, resume after restart | lost and late answers, logout, the window closing | client and server agree in the end; a lost lease restores the settings |
| Window operations, `D/context/RiotOperations.tsx`, `D/hooks/*`, `D/features/personal-roster/useLocalAccounts.ts` | a lock, a confirmation, the sign-in poll, synchronisation | run, confirm, poll, cancel | unmounting, stale answers, a retry with confirmation | no two operations, nothing after cancellation |
| Local vault, `R/local_store/*` | encrypted profiles, quarantine files, two locks | list, add, refresh, delete, launch | several processes, damaged records | no profile is lost or overwritten |
| Presence proxy, `R/presence*.rs`, settings `R/launcher_settings.rs` | proxy, its sessions, mode, settings file | start, stop, change mode, filter stanzas | a mode change during a launch, limits on workers and buffers | the chosen mode reaches every session |
| Tray, window, quitting, `R/tray.rs`, `R/lib.rs` | permission to quit | prepare, finish, close events | a command between prepare and finish | LAAP quits only with Riot closed and the files restored |
| Admin console, `C/pages/*`, `C/App.tsx` | the mounted page's list, the version of its latest read, its forms and dialogs | read, poll, retry, create, edit, confirm, grant, revoke | answers out of order, closures over old renderings, one flag for several forms | a list never goes back and shows the page's own changes; forms come free |
| Rate limiter, `A/http/rate-limit.ts` | counts per key | allow, reset, sweep | the boundary of a window | no more attempts than the limit within a window |

How they interact: the window calls the commands; the commands share the
operation lock, the settings directory and Riot with every other LAAP process
on the computer; the window's timer calls recovery every 30 s. The cloud client
talks HTTP to the team API; its lease id becomes the owner of a managed launch.
The API's handlers share one database; a handler is synchronous, a request is
not.

## Modules

| Module | What it is |
|---|---|
| `RiotSettings` | settings files, sandbox, lock, commands and recovery, composed: they share the directory and only make sense together |
| `MCRiotSettings` | symmetry for TLC |
| `RiotSettingsProofs` | types and mutual exclusion, proved |
| `RiotRecoveryProofs` | the player's settings survive and are not captured, and a launch is left alone, proved |
| `AccountLease` | what the team API promises about leases, in two actions |
| `LeaseService` | the team API on SQLite |
| `MCLeaseService` | device owners for TLC |
| `LeaseProofs` | types, three invariants and the refinement, proved |
| `TeamApi` | the team API on Supabase: stored procedures, and services that are several statements |
| `CloudDesktop` | `TeamApi` composed with the window that leases from it, over a network that loses and delays |
| `MCCloudDesktop` | users and accounts for TLC |
| `CloudDesktopProofs` | types, the refinement, two invariants and an action property, proved |
| `LocalVault` | the encrypted vault, the sync that fills it in, and the roster that shows it |
| `MCLocalVault` | symmetry for TLC |
| `LocalVaultProofs` | types, six invariants and an action property, proved |
| `ChatRelay` | the presence proxy: Riot's configuration, its chat connections and their relays |
| `DesktopPresence` | `ChatRelay` composed with setup, settings, launches, status, closing and quitting |
| `MCDesktopPresence` | connections for TLC |
| `DesktopPresenceProofs` | types, two invariants and two action properties, proved |
| `ApiPersistence` | the local API's database in memory, its copies on their way to the file, and the process |
| `MCApiPersistence` | an instance for TLC |
| `DurableStore` | what a database in memory and its file promise, in four actions |
| `ApiPersistenceProofs` | types, three invariants, two action properties and the refinement, proved |
| `AdminPages` | the account pool, the people and the assignments of the admin console |
| `MCAdminPages` | an instance for TLC |
| `AdminPagesProofs` | types, two invariants and an action property, proved |

Definitions named `...Anyway`, `...Only`, `...DropsFirst` and so on, each with a
comment that starts with "Mutant of", are not part of a model. Put in place of
the definition they follow, each makes the property it was written for fail.

### RiotSettings and the code

A file is abstracted to where its login comes from: `Personal` (the player),
`Accounts` (LAAP or a sandbox), `None`. `write_private()` replaces a file at
once (a temporary file and a rename), so one write is one step, and so is one
deletion. `op` is the command that holds the operation lock: its label (`at`)
names the next file operation, its `goal` where the command is going.

| Code | Actions |
|---|---|
| `acquire()`, `idle()` | `CanAcquire`, `CanOperate` |
| `switch_account_session`, `launch_local` | `BeginSwitch`, `Stop`, `Backup`*, `Marker`, `Write`*, `SetOwner`, `Launch` |
| `cleanup_account_session`, `restore_managed` | `BeginCleanup`, `Stop`, `PutBack`*, `Drop`*, `Unmark`, `Disown` |
| `start_provisioning_session` | `BeginStart`, `Stop`, `MakeDir`, `Snap`*, `Manifest`, `Clear`*, `Launch` |
| `finish_` and `cancel_provisioning_session` | `BeginFinish`, `Stop`, `Unsnap`*, `RemoveDir` |
| `complete_local_provisioning` | `BeginComplete` (reads the login), then as above, and the vault |
| `shutdown_riot_sync` | `BeginShutdown`, the sandbox, then cleanup |
| `recover_orphaned_account_session` | `BeginRecover`, `Scan` over the staging directories, then `PutBack` and so on |
| `close_riot_client`, `launch_riot_client`, `restart_riot_presence` | `CloseRiot`, `LaunchPlain` |
| errors, deaths | `StopFails`, `FileFails`, `LaunchFails`, `UnsnapFails`, `RemoveEntry`, `Crash` |

(* once per file.) `own`, `vault` and `crashed` are history: the versions of each
file of the player's that may be given back, which logins were stored, whether a
recovery pass is still due. `inject_account_session` (`session.rs:75`), registered
but called by nothing in the repository, is left out.

Assumptions about what is outside. A running client saves the login it uses, into
any of the files (`RiotSaves`). It is the player's where some file still holds the
player's, also beside a backup that a launch left which stopped half-way; a managed
one where some file holds a login LAAP wrote or one made in a sandbox; where no file
holds one, the user signs in, to the account of the sandbox while it lives and as
himself otherwise. A login of the player's that is saved where LAAP holds nothing of
that file replaces what is to be given back (`own` is then that version); where LAAP
holds an older one, either may come back. Three constants say how bad the environment is: `Faults` (which file
operations fail), `Early` (what may come between a death of LAAP and its first
complete recovery pass) and `RiotWaits` (no Riot process appears while a command
works). `Early = "nothing"` is an assumption, not a guard of the code: the
window calls recovery when it is mounted (`D/App.tsx:158`). Commands that come
before it while an open client makes it wait (`Early = "riot"`) are what
`riot_abandoned` is about.

### LeaseService and the code

A handler runs in one synchronous transaction of an in-memory database, so it is
one action, with its rollback when it throws (`Fail`, `AcquireOverdue`). A
request with a body is two: `Authenticate` is `currentUser()` and
`requireCurrentAdmin()`; the handler comes with the body, any time later, and
uses the role read then (`request`), as the routes do. Handlers that read the
status or the role again do so in the model. Requests without a body
(`DELETE`, approval, forced release) are one action. A user has at most one
request waiting for its body.

Deleting an account leaves its assignments: the cascade would need `PRAGMA
foreign_keys`, which sql.js resets with the `export()` of every save
(`A/db/database.ts:182`).

Time is counted per lease, in ticks: silence, age, grace left. `Tick` caps them
one past the constant they are compared with. An assignment with a date may
expire at any moment.

`suspended` and `disabled` are one status, and so are `maintenance` and
`disabled` of an account: the code asks only whether they are `active` and
`available`. `FreshId` is an id no lease had yet: ids are random and nothing compares them,
so one choice stands for all. Initially there is only the seeded administrator; the rest of the
demonstration inventory of `A/db/seed.ts` is reached by creating it. The unique
index on live leases is not modelled: `OneHolder` holds without it. Left out
because nothing asks for them: the audit log, session blobs, names, passwords,
`last_seen_at`, the reasons of ended leases.

`AccountLease` is what that amounts to: leases end, or an account without a
lease is granted a new one. `LeaseService` maps `holders` to the live leases of
each account and `granted` to the rows there are. So does `CloudDesktop`, whose
API may start with a lease it granted earlier, which is why `AccountLease` starts
with any leases, at most one per account.

### TeamApi, CloudDesktop and the code

`TeamApi` has no `Next`: it is the services and procedures as operators and
actions, which `CloudDesktop` puts behind requests. A procedure of
`supabase/migrations/20260904000000_production_hardening.sql` is one
transaction, but `acquire` reads the user, the assignment and the device before
it locks the account's row: `AcquireChecked` and `AcquireAnswered` are two
steps. A service is a sequence of statements; `admin` is what is left of an
administrator's, and `ServiceFails` ends it half way. `fresh` is what the
120 seconds of the reaper are about; no other time is counted.

A request the window makes is fixed when it is sent (`Post`). Its effect and
what the window makes of the answer are one step, or the answer is lost
(`Unanswered`: carried out, never carried out, or kept in `late` and carried out
at any later time). Between two steps of one caller everything else interleaves.

| Code | Actions |
|---|---|
| `acquireAndLaunch` | `HandleLaunch`, `ReleaseOld`, `AcquireChecked`, `AcquireAnswered`, `AcquireFails`, `FetchBlob`, `SwitchAccount`, `UndoLaunch` |
| banner, tray, logout, closing | `HandleRelease`, `FinishRelease`; `SwitchToPersonal`, `LeavePosted`, `LeaveFinished`; `Logout`, `LoggedOut`; `CloseWindow` |
| quitting | `Quit`, `PrepareQuit`, `LeavePosted`, `QuitFinished` |
| restore, heartbeats, Riot's exit | `Restore`, `Tick`, `HeartbeatAnswered`, `ReleaseAnswered`, `GivenUpAgain` |
| `useAuth`, `App.tsx` | `Login`, `TokenExpires`, `ChangeView`, `LaunchLocal`, `ResetRiot` |
| the 30 s recovery, Riot, LAAP itself | `Recover`, `RiotToggles`, `Restart` |

`riot` is what `RiotSettings` promises of the settings: the owner of the login
that Riot has, and whether it runs. A command that fails leaves one of the
states `RiotSettings` ends in. Confirmation of a running match is the command
failing and being given again. `Here` stands for "the owner this mounted view
knows when the answer comes"; a view that is left takes its owner with it
(`Leave`), which is how closures over refs behave when a component unmounts.
Counters are small: `missed` has the code's rule with `MaxMissed`, `checks` its
two consecutive looks at a closed Riot. A release that fails after Riot's exit is
caught like a failed heartbeat: it counts as missed and may clear the lease a second
time (`GivenUpAgain`). A lease whose acquisition is answered after a logout is
released by the effect of `useCloudAccounts.ts:134` (in `AcquireAnswered`). Not
modelled: the session check runs again when the computer comes online
(`useAuth.ts:52`), which renders anew whoever is signed in and starts the count of
missed heartbeats from 0.

### LocalVault and the code

A vault command takes the file lock, loads, changes and saves
(`R/local_store/storage.rs`, `manager.rs`), so its disk effects are one step; it
may stop anywhere (`Load(done)`), with the copies in quarantine made so far and
the file old or new. `key` is the keychain's entry: a missing one is replaced,
after which no record decrypts. A record is damaged only while LAAP is down.
`val` abstracts rank and icon to whose they are: an identity (the League Client
said so), `"own"` (typed, or as imported), `"picked"` (an uploaded image).

| Code | Actions |
|---|---|
| `list_local_accounts`, `loadAccounts()` | `Refresh`, `ListLocalAccounts`, `Listed` |
| import and sign-in, delete, launch | `ConfirmImport`, `SignInAgain`, `ConfirmDelete`, `HandleLaunch`; then `SaveLocalAccount` and so on, and `Answered` |
| the edit dialog | `OpenEdit`, `PickIcon`, `EditLocalAccount`, `CloseEdit` |
| `sync_profile_customizations` | `SyncNow`, `Identify`, `Fetch`, `ApplySync`, `SyncReload`, `SyncListed` |
| surroundings | `Restart` |

LAAP starts with any profiles of a version that neither encrypted nor recorded
identities, if any; two of them may have the login of one Riot account, and both are
then bound to it (`storage.rs:130`). Who is logged in to League is no variable: each
question of the sync is answered by whoever may be logged in by then, the profile's
account again after another one included. What an edit submits depends on the form
alone, so submitting and carrying it out are one step. A profile id is 128 random
bits and is not drawn twice. `owed`, `inherited`, `returned` and `overtaken` are
history.

### ChatRelay, DesktopPresence and the code

`ChatRelay` keeps of every stanza only the player's global presence, as the mode
it was rewritten for. A relay chooses the mode when a stanza is complete
(`ReadPresence`) and has it written later (`WritePresence`); `unseen` is the
watch channel's mark. `applied` is one field shared by all relays, as in the
code. `DesktopPresence` adds two native threads: `cmd`, a presence request, of
which `useLauncher` makes one at a time, and `op`, an operation under `run()`
and `OPERATION`. A label (`at`) names what comes next: between two locks of the
code there are two labels.

| Code | Actions |
|---|---|
| `set_presence_mode`, `retry_`, `prepare_`, `allow_normal_online_launch`, `initialize_presence` | `ChangePresence`, `AskSetup`, `TryAgain`, then `StartupMode`, `SaveMode`, `BeginSetup`, `AllowOnline`, `PrepareSetup`, `ApplyMode` |
| `status()` every 5 s | `UpdatePresence`, `AnswerStatus`, `RetireProxy` |
| `LaunchPlan::prepare` and `launch` | `Run`, `PlanLaunch`, `PrepareLaunch`, `StopRiot`, `Launch`, `StartProxy`, `SpawnClient`, `TrackingEnds` |
| `prepare_quit`, `finish_quit` | `Run("quit")`, `StopRiot`, `FinishQuit` |
| `CloseRequested`, `RunEvent::ExitRequested`, `keep_open()` | `CloseWindow` or `ExitRequested` (looks for a proxy), `LookForRiot`, `LeaveProxy`, `Exit` |
| the proxy | `ConfigRequest`, `Connect`, `ReadPresence`, `WritePresence`, `ModeChanged`, `ConnectionEnds`, `ListenerStops` |

The end of LAAP is on the main thread, which holds no lock of a launch: each of the
two looks of `keep_open()`, the `stop_proxy()` after them and the end of the process
is a step, and a launch may go on in between (`leave`, whose `late` marks one that
put its proxy in place since LAAP looked). `tray` says whether there is an icon to
hide behind and whether `QUIT_ALLOWED` is set; an exit that is refused leaves it set
and, when the window was closed, LAAP without one. A change of the settings file and
its possible failure are one step, and so are the two locks of `apply_mode()` (nothing
reads what both change in between). Not modelled: a
reload of the window while a native request runs, and a client that takes longer
than the 30 s cooldown to appear.

### ApiPersistence and the code

sql.js keeps the database in memory. `save()` exports it at once, and the copies
are written one behind another. `saves` is that chain with who waits for which
copy, `phase` how far its head is. A database is the set of changes made to it,
each one transaction or statement; `answer` says of each change how its request
ended. Handlers run from one wait for the disk to the next, so each is one step
up to its save, and `chmod` resumes whoever waited.

| Code | Actions |
|---|---|
| `save()` | `save`, then `writeFile`, `rename`, `chmod`; `saveFails` at any of the three |
| `AppDatabase.open()`, `seedDatabase()` | `open`, and `seedDatabase` inside `chmod` |
| `transactionSync()` and single statements, answered before `context.database.save()` (`A/server.ts:95`) | `transactionSync` |
| `transaction()` of the lease operations, saved before the answer | `transaction` |
| a refusal, a POST that changes nothing | `Refused`, `SavedForNothing` |
| the reaper of the server and `GET dashboard` | `reapStaleSessions` |
| `GET session-blob`, which encrypts an old blob anew | `getAccountSessionBlob` |
| `close()` on SIGTERM or SIGINT, the end of the process | `close`, `exit`, `Dies` |

Facts of the code that the model has, and no property forbids: `savePromise`, once
rejected, rejects every later save of the process (`broken`), while requests are
still answered with ok; a lease operation whose save fails is committed in memory
all the same (the `ROLLBACK` finds no transaction and throws); the reaper's or
the dashboard's failed save reaches nobody and ends the process; the blob encrypted
anew is not saved by its request. A forgotten answer of the last process is
history (`"forgotten"`) and not a state of the code.

`DurableStore` is what that amounts to: the database grows, moments of it become the
file in their order, and what is lost comes back as the file. `CrashKeepsPrefix`
maps its memory to the database (to the file, while no process runs) and its copies to
what the chain of saves holds. So a crash takes back the newest changes and no
others: an assignment in the file never lacks the account that was created before
it.

### AdminPages and the code

One page is mounted at a time. `commits` counts the changes of the team's data,
and a list is the count at which it was read (of the three answers the
assignments' page waits for, the oldest). A slot of `flight` is one async
function of the page: the calls of its job, then `refresh()`. The rendering it
closed over is kept with it: `off`, and `blank` (nobody was chosen).

| Code | Actions |
|---|---|
| the effects on mounting, leaving and `offline` (`C/App.tsx`) | `Mount`, `Unmount`, `setOffline` |
| `refresh()`: timer, Retry, after a job | `Tick`, `Retry`, `Succeeds`; `Read`, `Deliver`, `ReadFails` |
| `createAccount`, `updateAccount`, `confirmAction` | the same names, then `Commit`, `Succeeds`, `CallFails` |
| `createUser`, `updateUser` | the same names; a new password is a second call |
| `handleGrantAccess`, `handleRevoke`, the people's list | the same names, `select` |
| dialogs | `Dialog` |

An answer either brings what was asked for or fails: that a body which cannot be read
counts as an empty success (`C/lib/api.ts:30`), and that the 12 s do not cover reading
it, is left out.

A grant sends all its calls at once and the first refusal ends the job; what the
others still change is a change of `Elsewhere`, as is a call that outlives its
page. Known and without a promise to the contrary: the timer of the assignments
keeps the `selectedUserId` of the rendering that set it, so when nobody had been
chosen then, each of its reads chooses the first person again (TLC refutes "a
grant goes to the person clicked last" in nine steps); ticked accounts survive a
change of the person; the answer to an edit closes the dialog of another record
that was opened meanwhile; the answer to one revocation clears the mark of
another; a failed read of the assignments is a toast only (`missed`); the
confirmation can be sent while the console is offline.

## Runs

| Run | Instance | Checks | Result |
|---|---|---|---|
| `riot_settings` | 2 processes, 2 files, 2 contents of the player's, 1 login, 2 directories, failed writes, 2 mishaps | `Recoverable`, `NewestUntilMishap`, `OriginalsKept`, `CleanMeansOriginal` | hold, 805,496 states |
| `riot_recovery` | 1 process, 2 files, 2 deaths, fairness | `CapturedIsSandboxLogin`, `RecoverySparesLaunch`, `EventuallyRestored` | hold, 50,488 states |
| `riot_worst_case` | 2 processes, 1 file, every fault, `Early = "anything"`, Riot at any time, 2 mishaps | `OneSandbox` | hold, 2,155,846 states |
| `riot_abandoned` | 1 process, 1 death, Riot open before recovery | `CleanupRestoresOriginals` | violated |
| `riot_retry_capture` | 1 process, 1 failed write | `CapturedIsSandboxLogin` | violated |
| `lease_service` | 2 users with a device each, 1 account, 2 leases, fairness | `LeasedInService`, `LeasedFromTrusted`, `AdminRemains`, `OneHolder`, `SilentLeaseEnds`, `LostEntitlementEnds`, `SuspensionEnds` | hold, 439,812 states |
| `lease_timeout` | 1 lease | `LongLeaseExpires` | violated |
| `cloud_desktop` | a window, its user and a rival, 1 account, 2 leases, 2 events, fairness | `OneHolder`, `LeaseRecorded`, `LocalSessionKept`, `QuitLeavesNothing`, `LossNoticed`, `OrphansEnd`, `EntitlementEnds` | hold, 207,491 states |
| `local_vault` | 2 ids, 2 identities, rank and icon, up to 2 old profiles, 2 commands, 1 sync, 1 restart | `LoginsSurvive`, `OnlyOldTwins`, `LoginMatchesIdentity`, `LiveValuesOwn`, `RosterFresh`, `LiveValuesKept` | hold, 1,771,923 states |
| `desktop_presence` | 1 connection, 3 events, 1 retry, fairness | `NoChangeLost`, `TruthfulStatus`, `ChoiceReachesRiot`, `ProxyStays`, `ExitKeepsChat` | hold, 1,478,256 states |
| `api_persistence` | 3 changes, 3 copies, 1 death, 1 failed file operation | `AckedOnTheWay`, `OrderlyKeepsAcked`, `CrashKeepsPrefix` | hold, 450,654 states |
| `admin_pages` | 2 persons, 2 assignments, 2 reads or jobs at a time, 2 jobs, 1 change elsewhere, 1 failed read, fairness | `OwnChangeShown`, `FormsFree`, `ListNeverBackwards`, `ListCatchesUp` | hold, 603,426 states |

The type invariants, and the inductive invariants of the proofs, were checked on
these instances before they were proved; the runs check the properties. Four
properties that a proved invariant or the refinement implies are left to the proofs:
`IconsCached` of `LocalVault`; `FileNeverBack`, `ServesSeeded` and
`LeaseAnswersFromFile` of `ApiPersistence`.

Bounds. There are exactly two settings files (`R/riot/paths.rs:3`), so N = 2 is
the program's own size; it separates the first file of a loop from the last.
Two processes show every conflict of the locks, which know only "mine" and
"another's". Two directories: a third would need a third sandbox abandoned
without a recovery pass. Two mishaps are a death or failure, and one during what
repairs it; `MaxMishaps` bounds nothing else. Two leases of one account are a
lease and its successor, which is what exclusiveness is about; rows are never
reused, so when they run out no lease is granted. `StaleAfter = 0 < Grace = 1 <
Limit = 2` keep the order of 120 s, 300 s and 4 h and let each bound be met and
passed. Directories, logins and processes are interchangeable, and the runs of
`RiotSettings` without temporal properties that need fairness use that symmetry.

`cloud_desktop`: an event is something a person, an administrator, Riot or the
death of LAAP does, or a request that is delayed; a network that refuses or loses
answers costs nothing, so any number of requests may fail. Two events are a lease
and what goes wrong with it, or two things that go wrong with the lease LAAP
found when it started. Two leases are the one that was replaced and its
successor, which is what stale answers need. Two missed heartbeats instead of
four separate "one more" from "too many". `local_vault`: two identities and two
profiles make every conflict of identity; two commands are one that decides from
what another did; one sync, because syncs follow one another, with any login to
League at each of its three questions. One restart allows one lost key or one damaged record. `desktop_presence`: relays do
not see one another except through `applied`, and the proofs are for any number
of them; three events are a launch, a choice that falls into it, and one
disturbance. `api_persistence`: three changes are one in the file, one in a copy and
one behind it, and so are three copies; a failure and a death are one each,
because a failed copy stays failed and a dead process starts over. `admin_pages`:
two slots let any read or job overlap any other, which is what versions are
about; two jobs are one that ends while the other is under way.

All but `admin_pages` of these disable the deadlock check: events are bounded, and when they are
spent LAAP may have ended, with Riot closed and nothing left to do, and the API may
have made and answered its last change.

### What the violations say

* `riot_abandoned`. A sandbox is open, its client saves the login made in it, and
  LAAP dies; Riot stays open. Recovery waits for Riot to close
  (`session_manager.rs:178`), commands do not: a launch stops Riot, finds neither
  marker nor backup and backs the sandbox's login up as if it were the player's. The
  cleanup after that launch puts it into the player's settings file, against "Cleans
  up the managed Riot session and restores original user settings"
  (`commands/session.rs:87`).
* `riot_retry_capture`. A cancellation fails after one file was put back. The
  sandbox is still registered and its ticket valid, so `complete` polls the
  settings and stores the player's own login as the new profile.
* `lease_timeout`. The reason `lease_timeout` is not one the column's `CHECK`
  allows. The transaction rolls back, the old lease lives.

Four more facts TLC shows, which no sentence of the repository contradicts: an
operator suspended between the route's look at the status and the body acquires a
lease, because `acquireLease()` reads only the role (it does end, says
`SuspensionEnds`: no further request gets past `currentUser()`, and the reaper takes
a silent lease); with
two processes, the timer of one restores the settings under a client that the
other has just launched, because the cooldown is kept in memory
(`operation.rs:52`), so `RecoverySparesLaunch` is a property of one process; with
`"tear"` in `Faults`, a directory deleted in part (its copies, not its manifest)
makes every later recovery pass fail at the missing copy, so `EventuallyRestored`
fails; with `"delete"`, a backup that cannot be deleted is kept by the next
launch because it exists (`session_manager.rs:99`), and `OriginalsKept` fails.

What the models had to leave to the code, told by TLC when a property was first
stated more strongly:

* The release that follows Riot's exit is given the reason `process_exit`, which
  `packages/validation/src/index.ts:5` and the procedure refuse: it always fails,
  and the lease lasts until the reaper comes (`OrphansEnd` says that it does).
* An answer to a heartbeat of a team vault that was left wipes the record of the
  lease the next one persisted (`useCloudAccounts.ts:83`); `LeaseRecorded`
  excludes it. A heartbeat of an older lease answered `SESSION_NOT_FOUND` after
  the next was acquired clears the next.
* When the release of the old lease succeeded and acquiring the next one fails,
  the old login stays in Riot and no lease stands behind it.
* `registerDevice` reads, then writes: it can undo a revocation in between.
  `updateAccount` asks for leases before it writes, so a lease may be acquired
  in between.
* The sync's quiet listing has no request number (`useLocalAccounts.ts:148`): it
  can replace a newer list. `overtaken` excludes that from `RosterFresh`.
* Every listing of a vault of which no record decrypts writes another set of
  quarantine copies (`storage.rs:141`).
* A mode chosen between `presence.rs:490` and `:497` of a launch is told to no
  proxy; the next "waiting" status sends it again (`ChoiceReachesRiot`), unless
  the setup has failed or an error is shown, which the property exempts.
* `status()` may stop the proxy of a launch that slips in between its two looks
  (`presence.rs:350`); `ProxyStays` exempts that step.
* A plan prepared without the filter is not asked again: Offline chosen while Riot is
  being stopped launches unfiltered (`presence.rs:478`), although "An Offline request
  never silently falls back to Online" (`docs/riot-installation-and-presence.md:41`).
  The code keeps that only for requests made before the plan, which is no more than
  its guard at `presence.rs:463`, so no property states it.
* `QUIT_ALLOWED` stays set when `ExitRequested` is refused: closing the window
  then ends LAAP without stopping Riot first, and a second refusal, after the window
  is gone, leaves LAAP running without one.
* A launch whose proxy becomes the current one after `keep_open()` found none is cut
  off by the `stop_proxy()` that follows (`presence.rs:42` and `:497`, `lib.rs:34` and
  `:106`); `ExitKeepsChat` exempts it.
* The sync's recheck compares two moments: when the profile's account leaves League
  and is back at the second look, the rank of the login in between may be written to
  its profile (`profile_assets.rs:503` and `:562`). `LiveValuesOwn` exempts the rank of
  such a profile (`returned`), never an icon.
* Two old records of one Riot account are both bound to it (`storage.rs:130`), though a
  new one would be refused (`manager.rs:126`). `OnlyOldTwins` says that there are no others.
* When the second backup of a launch fails (`session_manager.rs:100`), the first stays
  without a marker. A newer login of the player's that is saved before the recovery pass
  is then rolled back to that backup: `Recoverable` counts both as the player's,
  `NewestUntilMishap` says that it takes a failure or a death.
* A marker that outlives its backups (a cleanup that died after the first) makes the next
  launch skip the backup (`session_manager.rs:92`). With `Early = "riot"` a launch may
  come before the pass that would remove it, and TLC refutes `CleanMeansOriginal`.
* The timer of a setup's retry that falls upon another request is lost with all
  that would follow it (`useLauncher.ts:72`).

### Fairness

`RiotSettings`: a command that holds the lock goes on (`WF(Work)`: it is
straight-line code), a launched client is listed or gone (`WF(RiotUp)`), the
30 s pass (`WF(CoolDown)`), and the recovery timer finds the lock free again and
again (`SF(BeginRecover)`: the timer never stops and commands are rare; weak
fairness would not do, because every command disables it). Nothing obliges the
player, Riot or a failure. `EventuallyRestored` assumes that Riot ends up closed
and speaks of computers without a waiting sandbox.

`LeaseService`: time passes (`WF(Tick)`) and the reaper's timer fires
(`WF(Reap)`, `A/server.ts:104`). No user is obliged to anything; that a silent,
disentitled or suspended user's lease ends does not rest on a request of theirs.

`CloudDesktop`: the 60 s timer of the mounted view (`WF(Tick)`), every request
answers or times out after 12 s (`WF` of the two answers), the database reaps
(`WF(Reap)`), and 120 s pass for a lease nobody sends heartbeats for. Nothing is
assumed of the network: answers may fail forever. `EntitlementEnds` says "gone
for good", because an administrator may assign again.

`DesktopPresence`: the 5 s timer (`WF(UpdatePresence)`), native requests and a
launch's preparation go on (`WF(Requested)`, `WF(PrepareLaunch)`), and a relay
writes what it chose and looks at its watch channel (`WF(Relay(c))`). Neither the
user, Riot nor a launch is obliged to anything.

`AdminPages`: the page's 20 s timer (`WF(Tick)`), and every read and call is answered
or given up after 12 s (`WF(Proceeds(s))`, for each slot). An answer may always be a
failure, `MaxFaults` times. `ApiPersistence` states no fairness: its properties are
of safety.

## Proofs

All theorems are of `Spec`, for every value of the constants that satisfies the
named assumptions, and need no bound on processes, files, users or leases.

`RiotSettingsProofs`, under `NAssumption`, `NoneAssumption`, `KindAssumption`
and `EnvAssumption`:

* `TypeCorrect == Spec => [](TypeOK /\ OpInv)`. `TypeOK` alone is not inductive:
  a step at label "unsnap" reads `snap[op.cur]`, so `op.cur` must be a directory
  there. `OpInv` says what a command knows at each label (its process, its
  directory, its login, which goals lead there). Each step goes through
  `Advance`, `Goto` or `GotoFor`; one lemma about each carries most of it.
* `SandboxAlone == Spec => []OneSandbox`. `OneSandbox` is not inductive either:
  `Clear` registers a sandbox, so no other may exist while a command with goal
  "start" is on its way; `RemoveDir` must take away the sandbox of its own
  process. `LockInv` adds who may have a sandbox under each goal. The proof
  never looks at files, failures or Riot: the theorem holds in the worst
  environment, and also across deaths, which is where it could go wrong.

`RiotRecoveryProofs`, under the same assumptions and `Calm` (`Early =
"nothing"`, `RiotWaits`, `Faults \subseteq {"write"}`):

* `SafeCorrect == Spec => []SafeInv`, and from it `RecoveryCorrect`
  (`Recoverable`), `OriginalsSurvive` (`OriginalsKept`) and `CleanCorrect`
  (`CleanMeansOriginal`). Any number of processes may die any number of times
  and any write may fail, and the player's client saves beside any backup that is
  left; each of the three speaks of the set `own` of versions that may be given back. `Recoverable` is not inductive by itself: `Write`
  overwrites a file, so every file must be in a backup or in the marker by then
  (`FullInv`); `Drop` deletes a backup, so every file must have been put back
  (`LoopInv`: what a loop over the files has done for those it passed);
  `RemoveDir` deletes the snapshot, so it must be the only one, and nobody's
  live sandbox (`DirInv`, with `LockInv` from the other module); and a managed login
  that a client saves is in no file whose earlier version LAAP does not hold
  (`HeldInv`: while a managed login is among the settings, every file is backed up,
  marked as missing or in a snapshot). A step is
  either quiet (it moves the command and leaves the copies alone:
  `SameRecoverable`, `SameFull`), or it belongs to a launch or a cleanup, where
  no staging directory exists (`NoDirsRecoverable`), or to the building or the
  end of a sandbox; one lemma for each.
* `CapturesOwnSandbox`: `CapturedIsSandboxLogin`, under `Calm` and without failing
  file operations (`Faults = {}`), as `riot_recovery` checks it. While a window
  holds a sandbox's ticket and no command has begun to put the settings back,
  every login in them was made in the sandbox (`CaptureInv`), because they were
  emptied before the ticket was given out. `riot_retry_capture` is what one failed
  write does to it.
* `RecoverySpares`: `RecoverySparesLaunch`, in the same environment and for one
  process. A client that is starting was either launched by a process that
  remembers it, or before a death; then the pass that came next has left nothing to
  recover, and what was begun since either launched again or ended as it began
  (`SparedInv`).
* `Calm` is needed: with `Early = "riot"` TLC refutes `CleanMeansOriginal` (the marker
  that outlives its backups, above) and `riot_abandoned` a cleanup's promise, and *What the violations say* tells what failing deletions do. `RiotWaits` is
  needed: without it TLC violates `OriginalsKept`. A launch finds a file absent,
  the player opens Riot and Riot writes that file before the marker lists it as
  absent; the write of the login then destroys it.

`LeaseProofs`, under `RootAssumption`, `OwnerAssumption` and `TimeAssumption`:

* `TypeCorrect`, `InService`, `FromTrusted`, `SomeAdmin`: `TypeOK`,
  `LeasedInService`, `LeasedFromTrusted`, `AdminRemains` are invariants. They
  need that a live lease names a known user, account and device, which comes
  first.
* `Refinement == Spec => OneHolder`, where `OneHolder` is `AccountLease!Spec`
  under the mapping. Nearly every action ends some leases and grants none
  (`EndRefines`); `Acquire` is the only `Grant` (`AcquireRefines`), and its id
  is new because rows are never reused.

`CloudDesktopProofs`, under `TeamAssumption` and `WindowAssumption`:

* `Refinement == Spec => OneHolder`, as for SQLite, but a request is several
  steps here and may be carried out after its caller gave up. Whatever it does to
  the rows of the leases is one `RowsStep`: some end (`Ends`), or one that was
  never used comes to life on an account without another (`Grants`). This is
  shown once for each service and procedure, and every step of the window either
  leaves the rows alone or is one of them.
* `TypeCorrect`, `QuitsClean`: `TypeOK` and `QuitLeavesNothing` hold in every
  state. `QuitLeavesNothing` is not inductive: the lease is given back some steps
  before LAAP exits, and answers to older requests come in between. `QuitInv` says
  that a lease given back for an exit is over and that neither Riot nor a launch
  that is still under way has its login. `Known` adds that the leases the window
  refers to were granted, so a new lease is none of them.
* `LocalStays`, `LeaseStaysRecorded`: `LocalSessionKept` and `LeaseRecorded` hold
  of every step. The second rests on a row that was granted and is not live never
  becoming live again: a record that is wiped is of a lease that is over.

`LocalVaultProofs`, under `VaultAssumption`:

* `TypeCorrect`, `NoLoginLost`, `TwinsAreOld`, `LoginsMatch`,
  `SyncAppliesOwn`, `IconsOnDisk`, `RosterSettles`: `TypeOK`, the five
  invariants of the run and `IconsCached`. `EditsKeepLive`: `LiveValuesKept` holds of every step.
* `LoginsSurvive` is inductive once the types are known. The others are not. `OnlyOldTwins` and
  `LoginMatchesIdentity` speak of identities that were written down, but a record
  of an older version gets its own when it is loaded: `Identities` says that two
  records which *would* be bound to the same one both were inherited with its login. `LiveValuesOwn` and `IconsCached`
  need the same of every list on its way and every open form (`ValuesInv`), and
  of what a sync carries between two requests (`SyncInv`: it is of the account the
  sync asked for first, unless it is a rank and that account was away). `FreshInv` follows the
  newest listing: it is the vault's, or a command that was carried out since will
  ask for another.

`DesktopPresenceProofs`, under `BoundAssumption`, for every number of connections,
events and retries:

* `TypeCorrect`, `ChangesReachRelays`, `StatusIsTruthful`: `TypeOK`,
  `NoChangeLost` and `TruthfulStatus` are invariants; `ExitsKeepChat` and
  `ProxiesStay`: `ExitKeepsChat` and `ProxyStays` hold of every step. The invariant `IInv`
  says which relays and proxies there are (`RelayInv`: without a proxy nothing is
  open; what a relay chose or shows is the mode unless the change is unseen), what
  a launch may rely on at each label (`LaunchInv`: from "listen" on no other proxy
  exists) and whether a choice may still reach the proxy (`ChoiceInv`).
  `LeaveInv` carries LAAP's look at proxy and Riot to the steps that act on it: nobody
  comes to depend on the proxy meanwhile except through a launch that `leave` marks as late.
  `NoChangeLost` is not inductive: a relay that is writing settles in the next
  step, so what it picked must already be known to be the mode or to be `unseen`.

`ApiPersistenceProofs`, under `PersistenceAssumption`, for any number of changes,
copies, deaths and failures:

* `TypeCorrect`, `AckedChangesSaved`, `ShutdownForgetsNothing`, `SeededBeforeServing`:
  `TypeOK`, `AckedOnTheWay`, `OrderlyKeepsAcked` and `ServesSeeded` are invariants;
  `FileOnlyGrows`, `LeaseAnswersDurable`: `FileNeverBack` and `LeaseAnswersFromFile`
  hold of every step. None of these is inductive. `Chain` says that the file, the
  copies in their order and memory each contain the one before, which is what a
  `rename` needs (`UnderWay`: the temporary file then holds the oldest copy).
  `Waits` says who waits for which copy and that it has the change waited for,
  which is what an answer needs; `Started` what a process has done by each phase
  of its life, `Failed` that a rejected chain is empty for good, and `Ended` that a
  process that closed in order left nothing behind: it ends only when no copy is
  left. A copy that joins the chain and one that leaves it are a lemma each.
* `Refinement`: `CrashKeepsPrefix`. Most steps change memory by one change and give up
  or add copies (`GrowsOrCopies`), deaths and ends lose memory (`EndsLoses`), and
  `rename` is the only one that writes (`renameStores`, from `Chain` and `UnderWay`).

`AdminPagesProofs`, under `AdminAssumption`, for any number of persons, assignments, jobs
and answers under way:

* `TypeCorrect`, `OwnChangesShown`, `FormsComeFree`: `TypeOK`, `OwnChangeShown` and `FormsFree`
  are invariants; `ListsOnlyGrow`: `ListNeverBackwards` holds of every step.
  `FormsFree` is inductive. The others need `Version`: the page is loading exactly
  while the read that `requestVersion` names is under way, and what that read
  brings is no older than what the page shows or was told of. It stays true because
  every success starts a read of its own, and a read is answered after it was
  asked. `Past` and `NoPage` bound what is shown by what there is.

Model-checked only: everything under fairness, which the proof system does not
reach (`EventuallyRestored`, `SilentLeaseEnds`, `LostEntitlementEnds`, `SuspensionEnds`,
`LossNoticed`, `OrphansEnd`, `EntitlementEnds`, `ChoiceReachesRiot`, `ListCatchesUp`), and
`NewestUntilMishap`, which counts the versions in `own`. Every other property of a passing
run is a theorem.

## Plan

What is left, in this order:

1. `ConsoleSession`: the console around its pages, login, logout, the session that
   is found at the start and the 20 s dashboard poll (`C/App.tsx`, `A/routes/auth.routes.ts`,
   `A/http/auth.ts`).
2. The window's sign-in poll against cancellation, the tray's menu, which is not
   built again while its snapshot does not change (`D/hooks/useTrayActions.ts:65`),
   and `owns_provisioning()`'s `try_lock`, which makes a command refuse itself while
   a poll holds the mutex.

## Not modelled

Encryption and keychains beyond "which key" (library calls); discovery of the
Riot installation; the rate limiter (a fixed window in one process's memory,
which its unit tests reach); passwords, cookies and tokens beyond "good or not";
the audit log and the dashboard's figures; bytes of stanzas and certificates;
icons, rendering and what is typed into forms; a dialog's background reached by
keyboard; two API processes on one database file, a second signal during a
shutdown, and power loss (nothing is synced: a rename is taken as durable);
build and release.
