---------------------------- MODULE RiotSettings ----------------------------
(***************************************************************************)
(* How LAAP borrows the Riot Client's settings files and gives them back.  *)
(*                                                                         *)
(* A managed launch (riot/session_manager.rs) backs the files up, writes a *)
(* marker and replaces them by a saved login; a sign-in sandbox            *)
(* (riot/provisioner.rs) copies them to a staging directory and deletes    *)
(* them.  Cleanup, cancellation and a recovery pass every 30 seconds put   *)
(* the player's own files back.  The commands (commands/session.rs) run    *)
(* one at a time under the operation lock (riot/operation.rs), each file   *)
(* operation is one step, and the process may die between any two.         *)
(*                                                                         *)
(* A settings file is abstracted to where its login comes from: the        *)
(* player's own (Personal), a login LAAP put there or one made inside a    *)
(* sandbox (Accounts), or no file (None).                                  *)
(***************************************************************************)
EXTENDS Naturals, FiniteSets

CONSTANTS
    Instances,     \* LAAP processes on the computer
    N,             \* the number of settings files
    Personal,      \* contents the player's own files may have
    Accounts,      \* logins LAAP manages; also the owner id of their launch
    Dirs,          \* names a staging directory may be given
    None,          \* no file, no owner, no directory, no process
    Faults,        \* what may fail: "write", "delete", "tear"
    Early,         \* when commands run after a death of LAAP and before the
                   \* recovery pass: never ("nothing"), while Riot is open and
                   \* makes the pass wait ("riot"), at any time ("anything")
    RiotWaits,     \* no Riot process appears while a command is working
    MaxMishaps     \* bound on deaths and failed file operations together

ASSUME NAssumption == N \in Nat \ {0}
ASSUME NoneAssumption == None \notin Personal \cup Accounts \cup Dirs \cup Instances
ASSUME KindAssumption == Personal \cap Accounts = {}
ASSUME EnvAssumption == /\ Early \in {"nothing", "riot", "anything"}
                        /\ RiotWaits \in BOOLEAN
                        /\ Faults \subseteq {"write", "delete", "tear"}
                        /\ MaxMishaps \in Nat

Files == 1 .. N
Logins == Personal \cup Accounts
Contents == Logins \cup {None}

VARIABLES
    file,      \* the settings files
    backup,    \* their .backup files
    managed,   \* does .laap-managed-session.json exist?
    missing,   \* the files it lists as absent before the launch
    owner,     \* .laap-session-owner
    snap,      \* the .laap-provision-* directories
    op,        \* the command holding the operation lock, and where it is
    staging,   \* per process, the directory of its live sandbox
    ticket,    \* processes whose window was given the id of the live sandbox
    cool,      \* processes whose last launch was less than 30 s ago
    riot,      \* the Riot Client: "off", "starting" (launched, not listed), "on"
    own,       \* history: the player's versions of each file that may be given back
    vault,     \* history: logins stored from a sandbox
    crashed,   \* history: no complete recovery pass since a process died
    mishaps    \* deaths and failed file operations so far

disk == <<file, backup, managed, missing, owner, snap>>
procs == <<staging, ticket, cool>>
history == <<own, vault, crashed>>
vars == <<disk, op, procs, riot, history, mishaps>>

NoSnap == [on |-> FALSE, manifest |-> FALSE, existed |-> {},
           copy |-> [f \in Files |-> None]]
Idle == [at |-> "idle", goal |-> "none", by |-> None, k |-> 1,
         acct |-> None, cur |-> None, absent |-> {}]

Labels == {"idle", "stop", "backup", "marker", "write", "owner", "launch",
           "putback", "drop", "unmark", "disown", "mkdir", "snap", "manifest",
           "clear", "unsnap", "rmdir", "scan"}
Goals == {"none", "switch", "cleanup", "start", "finish", "complete",
          "shutdown", "undo", "recover"}

SnapType == [on : BOOLEAN, manifest : BOOLEAN, existed : SUBSET Files,
             copy : [Files -> Contents]]
OpType == [at : Labels, goal : Goals, by : Instances \cup {None}, k : Files,
           acct : Contents, cur : Dirs \cup {None}, absent : SUBSET Files]

TypeOK ==
    /\ file \in [Files -> Contents]
    /\ backup \in [Files -> Contents]
    /\ managed \in BOOLEAN
    /\ missing \in SUBSET Files
    /\ owner \in Accounts \cup {None}
    /\ snap \in [Dirs -> SnapType]
    /\ op \in OpType
    /\ staging \in [Instances -> Dirs \cup {None}]
    /\ ticket \in SUBSET Instances
    /\ cool \in SUBSET Instances
    /\ riot \in {"off", "starting", "on"}
    /\ own \in [Files -> SUBSET (Personal \cup {None})]
    /\ vault \in SUBSET Logins
    /\ crashed \in BOOLEAN
    /\ mishaps \in Nat

Init ==
    /\ file \in [Files -> Personal \cup {None}]
    /\ backup = [f \in Files |-> None]
    /\ managed = FALSE
    /\ missing = {}
    /\ owner = None
    /\ snap = [d \in Dirs |-> NoSnap]
    /\ op = Idle
    /\ staging = [i \in Instances |-> None]
    /\ ticket = {}
    /\ cool = {}
    /\ riot = "off"
    /\ own = [f \in Files |-> {file[f]}]
    /\ vault = {}
    /\ crashed = FALSE
    /\ mishaps = 0

-----------------------------------------------------------------------------
(* The operation lock and the steps of the command that holds it.          *)

\* Mutant of CanAcquire: the sign-in lock is not asked.
CanAcquireAnyway(i) == op.at = "idle"

\* acquire(): the operation lock is free and the sign-in lock is this
\* process's own or nobody's.  A process holds the sign-in lock as long as its
\* sandbox lives, and the system drops it when the process dies.
CanAcquire(i) ==
    /\ op.at = "idle"
    /\ staging[i] # None \/ \A j \in Instances : staging[j] = None

\* The pass runs when LAAP is started; a command comes first only in between.
AfterRecovery == crashed => Early = "anything" \/ (Early = "riot" /\ riot = "on")

\* acquire() followed by idle(): no sandbox of this process either.
CanOperate(i) == CanAcquire(i) /\ staging[i] = None /\ AfterRecovery

Begin(i, goal, at) == [Idle EXCEPT !.by = i, !.goal = goal, !.at = at]

\* The next file of a loop over the files or, after the last one, label l.
Advance(o, l) == IF o.k < N THEN [o EXCEPT !.k = @ + 1]
                            ELSE [o EXCEPT !.k = 1, !.at = l]
Goto(l) == [op EXCEPT !.k = 1, !.at = l]
GotoFor(goal, l) == [op EXCEPT !.k = 1, !.at = l, !.goal = goal]

BeginSwitch(i, a) ==
    /\ CanOperate(i)
    /\ op' = [Begin(i, "switch", "stop") EXCEPT !.acct = a]
    /\ UNCHANGED <<disk, procs, riot, history, mishaps>>

\* expected is None when the caller names no owner.
BeginCleanup(i, expected) ==
    /\ CanOperate(i)
    /\ expected = None \/ owner = expected
    /\ op' = Begin(i, "cleanup", "stop")
    /\ UNCHANGED <<disk, procs, riot, history, mishaps>>

BeginStart(i) ==
    /\ CanOperate(i)
    /\ op' = Begin(i, "start", "stop")
    /\ UNCHANGED <<disk, procs, riot, history, mishaps>>

\* finish_provisioning_session and cancel_provisioning_session.
BeginFinish(i) ==
    /\ CanAcquire(i) /\ staging[i] # None
    /\ op' = [Begin(i, "finish", "stop") EXCEPT !.cur = staging[i]]
    /\ UNCHANGED <<disk, procs, riot, history, mishaps>>

\* poll_captured_session() returns the first settings file with a saved login.
FirstLogin(f) == file[f] # None /\ \A g \in 1 .. f - 1 : file[g] = None

BeginComplete(i) ==
    /\ CanAcquire(i) /\ staging[i] # None
    /\ i \in ticket
    /\ \E f \in Files :
        /\ FirstLogin(f)
        /\ op' = [Begin(i, "complete", "stop") EXCEPT !.cur = staging[i], !.acct = file[f]]
    /\ UNCHANGED <<disk, procs, riot, history, mishaps>>

\* shutdown_riot_sync(): the sandbox first, if there is one, then the cleanup.
BeginShutdown(i) ==
    /\ CanAcquire(i) /\ AfterRecovery
    /\ op' = IF staging[i] # None
             THEN [Begin(i, "shutdown", "stop") EXCEPT !.cur = staging[i]]
             ELSE Begin(i, "cleanup", "stop")
    /\ UNCHANGED <<disk, procs, riot, history, mishaps>>

\* recover_orphaned_account_session, called on start and every 30 seconds.
BeginRecover(i) ==
    /\ CanAcquire(i) /\ staging[i] = None
    /\ i \notin cool
    /\ riot # "on"
    /\ op' = Begin(i, "recover", "scan")
    /\ UNCHANGED <<disk, procs, riot, history, mishaps>>

\* close_riot_client, and the stop of restart_riot_presence.
CloseRiot(i) ==
    /\ CanOperate(i)
    /\ riot = "on"
    /\ riot' = "off"
    /\ UNCHANGED <<disk, op, procs, history, mishaps>>

\* launch_riot_client, and the launch of restart_riot_presence.
LaunchPlain(i) ==
    /\ CanOperate(i)
    /\ riot = "off"
    /\ riot' = "starting"
    /\ cool' = cool \cup {i}
    /\ UNCHANGED <<disk, op, staging, ticket, history, mishaps>>

\* Mutants of AfterStop: the marker is not looked for; the backups are deleted
\* before they are put back.
AfterStopRebackup ==
    CASE op.goal = "switch"  -> Goto("backup")
      [] op.goal = "cleanup" -> Goto("putback")
      [] op.goal = "start"   -> Goto("mkdir")
      [] OTHER               -> Goto("unsnap")

AfterStopDropsFirst ==
    CASE op.goal = "switch"  -> IF managed THEN Goto("write") ELSE Goto("backup")
      [] op.goal = "cleanup" -> Goto("drop")
      [] op.goal = "start"   -> Goto("mkdir")
      [] OTHER               -> Goto("unsnap")

\* What follows stop_riot() in each command.
AfterStop ==
    CASE op.goal = "switch"  -> IF managed THEN Goto("write") ELSE Goto("backup")
      [] op.goal = "cleanup" -> Goto("putback")
      [] op.goal = "start"   -> Goto("mkdir")
      [] OTHER               -> Goto("unsnap")

\* stop_riot() ends the processes it sees; a client that was launched but is
\* not listed yet is not one of them.
Stop ==
    /\ op.at = "stop"
    /\ riot' = IF riot = "on" THEN "off" ELSE riot
    /\ op' = AfterStop
    /\ UNCHANGED <<disk, procs, history, mishaps>>

\* A match is running and was not confirmed, or the processes do not exit.
StopFails ==
    /\ op.at = "stop"
    /\ riot = "on"
    /\ op' = Idle
    /\ UNCHANGED <<disk, procs, riot, history, mishaps>>

-----------------------------------------------------------------------------
(* inject_session(), set_owner() and the launch.                           *)

Backup ==
    /\ op.at = "backup"
    /\ LET f == op.k IN
        /\ backup' = IF file[f] # None /\ backup[f] = None
                     THEN [backup EXCEPT ![f] = file[f]] ELSE backup
        /\ op' = Advance([op EXCEPT !.absent = IF file[f] = None THEN @ \cup {f} ELSE @],
                         "marker")
    /\ UNCHANGED <<file, managed, missing, owner, snap, procs, riot, history,
                   mishaps>>

Marker ==
    /\ op.at = "marker"
    /\ managed' = TRUE
    /\ missing' = op.absent
    /\ op' = Goto("write")
    /\ UNCHANGED <<file, backup, owner, snap, procs, riot, history, mishaps>>

Write ==
    /\ op.at = "write"
    /\ file' = [file EXCEPT ![op.k] = op.acct]
    /\ op' = Advance(op, "owner")
    /\ UNCHANGED <<backup, managed, missing, owner, snap, procs, riot, history,
                   mishaps>>

SetOwner ==
    /\ op.at = "owner"
    /\ owner' = op.acct
    /\ op' = Goto("launch")
    /\ UNCHANGED <<file, backup, managed, missing, snap, procs, riot, history,
                   mishaps>>

\* Mutant of Launch: the launch is not remembered.
LaunchForgotten ==
    /\ op.at = "launch"
    /\ riot # "on"
    /\ riot' = "starting"
    /\ ticket' = IF op.goal = "start" THEN ticket \cup {op.by} ELSE ticket
    /\ op' = Idle
    /\ UNCHANGED <<disk, staging, cool, history, mishaps>>

Launch ==
    /\ op.at = "launch"
    /\ riot # "on"
    /\ riot' = "starting"
    /\ cool' = cool \cup {op.by}
    /\ ticket' = IF op.goal = "start" THEN ticket \cup {op.by} ELSE ticket
    /\ op' = Idle
    /\ UNCHANGED <<disk, staging, history, mishaps>>

-----------------------------------------------------------------------------
(* restore_managed().                                                      *)

\* Mutant of PutBack: files that were missing are left.
PutBackOnly ==
    /\ op.at = "putback"
    /\ file' = IF backup[op.k] # None THEN [file EXCEPT ![op.k] = backup[op.k]] ELSE file
    /\ op' = Advance(op, "drop")
    /\ UNCHANGED <<backup, managed, missing, owner, snap, procs, riot, history,
                   mishaps>>

PutBack ==
    /\ op.at = "putback"
    /\ LET f == op.k IN
        file' = IF backup[f] # None THEN [file EXCEPT ![f] = backup[f]]
                ELSE IF managed /\ f \in missing THEN [file EXCEPT ![f] = None]
                ELSE file
    /\ op' = Advance(op, "drop")
    /\ UNCHANGED <<backup, managed, missing, owner, snap, procs, riot, history,
                   mishaps>>

Drop ==
    /\ op.at = "drop"
    /\ backup' = [backup EXCEPT ![op.k] = None]
    /\ op' = Advance(op, "unmark")
    /\ UNCHANGED <<file, managed, missing, owner, snap, procs, riot, history,
                   mishaps>>

Unmark ==
    /\ op.at = "unmark"
    /\ managed' = FALSE
    /\ missing' = {}
    /\ op' = Goto("disown")
    /\ UNCHANGED <<file, backup, owner, snap, procs, riot, history, mishaps>>

Disown ==
    /\ op.at = "disown"
    /\ owner' = None
    /\ op' = Idle
    /\ crashed' = IF op.goal = "recover" THEN FALSE ELSE crashed
    /\ UNCHANGED <<file, backup, managed, missing, snap, procs, riot, own, vault,
                   mishaps>>

-----------------------------------------------------------------------------
(* prepare_for_provisioning(), finish_and_restore(), recover_abandoned().  *)

MakeDir ==
    /\ op.at = "mkdir"
    /\ \E d \in Dirs :
        /\ ~snap[d].on
        /\ snap' = [snap EXCEPT ![d].on = TRUE]
        /\ op' = [Goto("snap") EXCEPT !.cur = d]
    /\ UNCHANGED <<file, backup, managed, missing, owner, procs, riot, history,
                   mishaps>>

Snap ==
    /\ op.at = "snap"
    /\ snap' = [snap EXCEPT ![op.cur].copy[op.k] = file[op.k]]
    /\ op' = Advance(op, "manifest")
    /\ UNCHANGED <<file, backup, managed, missing, owner, procs, riot, history,
                   mishaps>>

Manifest ==
    /\ op.at = "manifest"
    /\ snap' = [snap EXCEPT ![op.cur] =
                    [@ EXCEPT !.manifest = TRUE, !.existed = {f \in Files : snap[op.cur].copy[f] # None}]]
    /\ op' = Goto("clear")
    /\ UNCHANGED <<file, backup, managed, missing, owner, procs, riot, history,
                   mishaps>>

\* Mutant of Clear: the settings stay.
ClearNothing ==
    /\ op.at = "clear"
    /\ staging' = IF op.k = N THEN [staging EXCEPT ![op.by] = op.cur] ELSE staging
    /\ op' = Advance(op, "launch")
    /\ UNCHANGED <<disk, ticket, cool, riot, history, mishaps>>

\* Deletes the settings; with the last one the sandbox is registered.
Clear ==
    /\ op.at = "clear"
    /\ file' = [file EXCEPT ![op.k] = None]
    /\ staging' = IF op.k = N THEN [staging EXCEPT ![op.by] = op.cur] ELSE staging
    /\ op' = Advance(op, "launch")
    /\ UNCHANGED <<backup, managed, missing, owner, snap, ticket, cool, riot,
                   history, mishaps>>

\* restore(): a copy the manifest names must be readable.
Unsnap ==
    /\ op.at = "unsnap"
    /\ op.k \in snap[op.cur].existed => snap[op.cur].copy[op.k] # None
    /\ file' = [file EXCEPT ![op.k] = IF op.k \in snap[op.cur].existed
                                      THEN snap[op.cur].copy[op.k] ELSE None]
    /\ op' = Advance(op, "rmdir")
    /\ UNCHANGED <<backup, managed, missing, owner, snap, procs, riot, history,
                   mishaps>>

UnsnapFails ==
    /\ op.at = "unsnap"
    /\ op.k \in snap[op.cur].existed /\ snap[op.cur].copy[op.k] = None
    /\ op' = Idle
    /\ UNCHANGED <<disk, procs, riot, history, mishaps>>

AfterRemove == CASE op.goal = "recover"  -> [Goto("scan") EXCEPT !.cur = None]
                 [] op.goal = "shutdown" -> [GotoFor("cleanup", "stop") EXCEPT !.cur = None]
                 [] OTHER                -> Idle

\* remove_dir_all(), then the sandbox is gone.  complete_local_provisioning
\* stores the captured login in the vault, which may fail.
RemoveDir ==
    /\ op.at = "rmdir"
    /\ snap' = [snap EXCEPT ![op.cur] = NoSnap]
    /\ staging' = IF op.goal = "recover" THEN staging
                  ELSE [staging EXCEPT ![op.by] = None]
    /\ ticket' = IF op.goal = "recover" THEN ticket ELSE ticket \ {op.by}
    /\ vault' \in IF op.goal = "complete" THEN {vault, vault \cup {op.acct}} ELSE {vault}
    /\ op' = AfterRemove
    /\ UNCHANGED <<file, backup, managed, missing, owner, cool, riot, own, crashed,
                   mishaps>>

\* remove_dir_all() deletes the entries one by one, in no particular order.
RemoveEntry ==
    /\ "tear" \in Faults
    /\ op.at = "rmdir"
    /\ \/ snap' = [snap EXCEPT ![op.cur].manifest = FALSE]
       \/ \E f \in Files : snap' = [snap EXCEPT ![op.cur].copy[f] = None]
    /\ UNCHANGED <<file, backup, managed, missing, owner, op, procs, riot, history,
                   mishaps>>

\* Mutant of Scan: backups without a marker are not looked for.
ScanMarker ==
    /\ op.at = "scan"
    /\ \/ \E d \in Dirs :
            /\ snap[d].on
            /\ op' = [Goto(IF snap[d].manifest THEN "unsnap" ELSE "rmdir") EXCEPT !.cur = d]
            /\ UNCHANGED crashed
       \/ /\ \A d \in Dirs : ~snap[d].on
          /\ IF managed
             THEN op' = Goto("putback") /\ UNCHANGED crashed
             ELSE op' = Idle /\ crashed' = FALSE
    /\ UNCHANGED <<disk, procs, riot, own, vault, mishaps>>

\* recover_abandoned() takes the directories in the order the system lists
\* them; recover_orphaned_session() then looks for a managed session.
Scan ==
    /\ op.at = "scan"
    /\ \/ \E d \in Dirs :
            /\ snap[d].on
            /\ op' = [Goto(IF snap[d].manifest THEN "unsnap" ELSE "rmdir") EXCEPT !.cur = d]
            /\ UNCHANGED crashed
       \/ /\ \A d \in Dirs : ~snap[d].on
          /\ IF managed \/ \E f \in Files : backup[f] # None
             THEN op' = Goto("putback") /\ UNCHANGED crashed
             ELSE op' = Idle /\ crashed' = FALSE
    /\ UNCHANGED <<disk, procs, riot, own, vault, mishaps>>

-----------------------------------------------------------------------------
(* Failures.                                                               *)

Mishap == mishaps < MaxMishaps /\ mishaps' = mishaps + 1

Writing ==
    \/ op.at \in {"marker", "write", "owner", "manifest"}
    \/ op.at = "backup" /\ file[op.k] # None /\ backup[op.k] = None
    \/ op.at = "snap" /\ file[op.k] # None
    \/ op.at = "putback" /\ backup[op.k] # None
    \/ op.at = "unsnap" /\ op.k \in snap[op.cur].existed

Deleting ==
    \/ op.at = "rmdir"
    \/ op.at = "drop" /\ backup[op.k] # None
    \/ op.at = "unmark" /\ managed
    \/ op.at = "disown" /\ owner # None
    \/ op.at = "clear" /\ file[op.k] # None
    \/ op.at = "putback" /\ backup[op.k] = None /\ managed /\ op.k \in missing
                         /\ file[op.k] # None
    \/ op.at = "unsnap" /\ op.k \notin snap[op.cur].existed /\ file[op.k] # None

\* What the command does about the error: inject_session() restores, a failed
\* owner write cleans up, a failed snapshot is discarded, a failed deletion
\* restores a sandbox that was never registered, every other one just returns.
OnError ==
    CASE op.at = "write" -> GotoFor("cleanup", "putback")
      [] op.at = "owner" -> GotoFor("cleanup", "stop")
      [] op.at \in {"snap", "manifest"} -> Goto("rmdir")
      [] op.at = "clear" -> GotoFor("undo", "stop")
      [] OTHER -> Idle

FileFails ==
    /\ \/ "write" \in Faults /\ Writing
       \/ "delete" \in Faults /\ Deleting
    /\ Mishap
    /\ op' = OnError
    /\ UNCHANGED <<disk, procs, riot, history>>

\* launch() fails, or finds that Riot was started meanwhile.
LaunchFails ==
    /\ op.at = "launch"
    /\ \/ Mishap
       \/ riot = "on" /\ UNCHANGED mishaps
    /\ op' = IF op.goal = "switch" THEN GotoFor("cleanup", "stop")
                                   ELSE GotoFor("finish", "stop")
    /\ UNCHANGED <<disk, procs, riot, history>>

\* A process dies: its memory and its locks are gone, the files and Riot stay.
\* It is started again, with nothing in memory.
Crash(i) ==
    /\ Mishap
    /\ op' = IF op.by = i THEN Idle ELSE op
    /\ staging' = [staging EXCEPT ![i] = None]
    /\ ticket' = ticket \ {i}
    /\ cool' = cool \ {i}
    /\ crashed' = TRUE
    /\ UNCHANGED <<disk, riot, own, vault>>

-----------------------------------------------------------------------------
(* The Riot Client, the player and the clock.                              *)

RiotUp ==
    /\ riot = "starting"
    /\ RiotWaits => op.at = "idle"
    /\ riot' = "on"
    /\ UNCHANGED <<disk, op, procs, history, mishaps>>

PlayerOpensRiot ==
    /\ riot = "off"
    /\ RiotWaits => op.at = "idle"
    /\ riot' = "on"
    /\ UNCHANGED <<disk, op, procs, history, mishaps>>

RiotExits ==
    /\ riot # "off"
    /\ riot' = "off"
    /\ UNCHANGED <<disk, op, procs, history, mishaps>>

\* LAAP holds what file f was before: a backup or an entry of the marker, or a
\* snapshot with its manifest.
BackedUp(f) == backup[f] # None \/ (managed /\ f \in missing)
Held(f) == BackedUp(f) \/ \E d \in Dirs : snap[d].manifest

Stopped == \A i \in Instances : staging[i] = None
LoggedOut == \A f \in Files : file[f] = None

\* Whose login a running client uses: the player's where a file still holds it,
\* also beside a backup; a managed one where LAAP wrote it.  Without any file the
\* player signs in, for the sandbox while it lives and as himself otherwise.
UsesPlayers == (LoggedOut /\ Stopped) \/ \E f \in Files : file[f] \in Personal
UsesManaged == (LoggedOut /\ ~Stopped) \/ \E f \in Files : file[f] \in Accounts

\* A running client saves the login it uses.  The player's own is the version
\* to be given back or, where LAAP holds an older one already, one of them.
RiotSaves(f) ==
    /\ riot = "on"
    /\ \E c \in (IF UsesPlayers THEN Personal ELSE {}) \cup (IF UsesManaged THEN Accounts ELSE {}) :
        /\ file' = [file EXCEPT ![f] = c]
        /\ own' = IF c \in Accounts THEN own
                  ELSE [own EXCEPT ![f] = IF Held(f) THEN @ \cup {c} ELSE {c}]
    /\ UNCHANGED <<backup, managed, missing, owner, snap, op, procs, riot, vault,
                   crashed, mishaps>>

\* Thirty seconds are enough for a launched client to be listed or to be gone.
CoolDown(i) ==
    /\ i \in cool
    /\ riot # "starting"
    /\ cool' = cool \ {i}
    /\ UNCHANGED <<disk, op, staging, ticket, riot, history, mishaps>>

-----------------------------------------------------------------------------
Commands(i) ==
    \/ \E a \in Accounts : BeginSwitch(i, a)
    \/ \E a \in Accounts \cup {None} : BeginCleanup(i, a)
    \/ BeginStart(i)
    \/ BeginFinish(i)
    \/ BeginComplete(i)
    \/ BeginShutdown(i)
    \/ CloseRiot(i)
    \/ LaunchPlain(i)

Work ==
    \/ Stop \/ StopFails
    \/ Backup \/ Marker \/ Write \/ SetOwner \/ Launch
    \/ PutBack \/ Drop \/ Unmark \/ Disown
    \/ MakeDir \/ Snap \/ Manifest \/ Clear
    \/ Unsnap \/ UnsnapFails \/ RemoveDir \/ Scan

Next ==
    \/ \E i \in Instances : Commands(i) \/ BeginRecover(i) \/ Crash(i) \/ CoolDown(i)
    \/ Work
    \/ RemoveEntry \/ FileFails \/ LaunchFails
    \/ RiotUp \/ PlayerOpensRiot \/ RiotExits
    \/ \E f \in Files : RiotSaves(f)

Spec == Init /\ [][Next]_vars

\* A command runs to its end, a launched client is listed or gone in time, the
\* cooldown passes, and the 30-second timer does not miss every free moment.
Fairness ==
    /\ WF_vars(Work)
    /\ WF_vars(RiotUp)
    /\ \A i \in Instances : WF_vars(CoolDown(i)) /\ SF_vars(BeginRecover(i))

FairSpec == Spec /\ Fairness

-----------------------------------------------------------------------------
(* Properties.                                                             *)

\* What a recovery pass would leave in file f is the player's: the snapshots
\* are put back, in some order, before the managed session, so the backup and
\* the marker come first.
RecoversOwn(f) ==
    IF backup[f] # None THEN backup[f] \in own[f]
    ELSE IF managed /\ f \in missing THEN None \in own[f]
    ELSE IF \E d \in Dirs : snap[d].manifest
         THEN \A d \in Dirs : snap[d].manifest => snap[d].copy[f] \in own[f]
    ELSE file[f] \in own[f]

\* At every moment, between any two file operations of any command, recovery
\* from what is on disk gives the player's own settings back: of every file the
\* version LAAP found, or one the player's client saved since.  (Not always the
\* newest: a client that runs between a command that stopped half-way and the
\* recovery pass may save a login that the older copy then replaces.)
Recoverable == \A f \in Files : RecoversOwn(f)

\* As long as no process died and no file operation failed there is one such
\* version: what LAAP would give back is the newest login the player's client
\* saved, however commands, refused stops and Riot's comings and goings mix.
NewestUntilMishap == mishaps = 0 => \A f \in Files : Cardinality(own[f]) = 1

\* Some place on disk still holds a version of the player's of every file that
\* had one: the file, its backup, or a sandbox snapshot with its manifest.  No
\* order of launches, sandboxes, failures and recovery destroys the last copy.
OriginalsKept ==
    \A f \in Files : None \notin own[f] =>
        own[f] \cap ({file[f], backup[f]}
                     \cup {snap[d].copy[f] : d \in {e \in Dirs : snap[e].manifest}}) # {}

IsOwn == \A f \in Files : file[f] \in own[f]

Clean == /\ ~managed
         /\ \A f \in Files : backup[f] = None
         /\ \A d \in Dirs : ~snap[d].manifest

\* Once LAAP has put its backups, marker and snapshots away, the settings are
\* the player's own: no managed login stays behind, none of the player's files
\* is missing and none is older than what LAAP found when it came.
CleanMeansOriginal == Clean => IsOwn

\* "Cleans up the managed Riot session and restores original user settings"
\* (commands/session.rs:87): what a cleanup puts back from a backup, into a file
\* the player had, is the player's.
CleanupRestoresOriginals ==
    [][/\ op.at = "putback" /\ op.goal = "cleanup" /\ op' # op /\ op'.at # "idle"
       /\ backup[op.k] # None /\ None \notin own[op.k]
       => file'[op.k] \in own[op.k]]_vars

\* What a completed sign-in stores in the vault was made inside the sandbox; it
\* is never the player's own login read back after a partial restoration.
CapturedIsSandboxLogin == vault \subseteq Accounts

\* At most one process has a live sandbox, and while it lives no command of
\* another process runs: nobody else rewrites the settings under the sign-in or
\* sweeps its staging directory up as abandoned.
OneSandbox ==
    \A i \in Instances : staging[i] # None =>
        /\ \A j \in Instances : staging[j] # None => i = j
        /\ op.at # "idle" => op.by = i

\* Recovery leaves the settings of a client alone that LAAP launched and the
\* system does not list yet, unless a process died in between.
RecoverySparesLaunch ==
    [][ op.goal = "recover" /\ riot = "starting" /\ ~crashed => UNCHANGED file ]_vars

\* After the client stays closed and nothing fails any more, the player's own
\* settings are back and LAAP's copies are gone, unless a sandbox still waits.
EventuallyRestored ==
    <>[](riot = "off") => <>[]( \/ Clean /\ IsOwn
                                \/ \E i \in Instances : staging[i] # None )

-----------------------------------------------------------------------------
(* The inductive invariant behind OneSandbox (RiotSettingsProofs) and behind  *)
(* Recoverable and its consequences (RiotRecoveryProofs).                     *)

NoDirs == \A d \in Dirs : ~snap[d].on

\* What the command knows at each label.
OpInv ==
    /\ op.at # "idle" => op.by \in Instances
    /\ op.at \in {"mkdir", "snap", "manifest", "clear"} => op.goal = "start"
    /\ op.at \in {"snap", "manifest", "clear", "unsnap", "rmdir"} => op.cur \in Dirs
    /\ op.at \in {"backup", "marker", "write", "owner"} => op.goal = "switch"
    /\ op.at = "scan" => op.goal = "recover"
    /\ op.at \in {"putback", "drop", "unmark", "disown"} => op.goal \in {"cleanup", "recover"}
    /\ op.at = "launch" => op.goal \in {"switch", "start"}
    /\ op.at = "unsnap" => op.goal \in {"finish", "complete", "shutdown", "undo", "recover"}
    /\ op.at = "stop" => op.goal \notin {"none", "recover"}
    /\ op.at = "rmdir" => op.goal \in {"start", "finish", "complete", "shutdown", "undo", "recover"}
    /\ \/ op.at = "stop" /\ op.goal \in {"finish", "complete", "shutdown", "undo"}
       \/ op.at = "launch" /\ op.goal = "start"
       => op.cur \in Dirs
    /\ op.goal = "switch" => op.acct \in Accounts
    /\ op.goal = "complete" => op.acct \in Logins

\* Who may have a sandbox while a command runs.
LockInv ==
    /\ OneSandbox
    /\ op.at # "idle" /\ op.goal \in {"switch", "cleanup", "recover", "undo"} => Stopped
    /\ op.goal = "start" /\ op.at \notin {"idle", "launch"} => Stopped
    /\ \/ op.at # "idle" /\ op.goal \in {"finish", "complete", "shutdown"}
       \/ op.at = "launch" /\ op.goal = "start"
       => staging[op.by] = op.cur /\ op.cur # None

\* There is at most one staging directory; who knows it, and what it holds.
DirInv ==
    /\ \A d, e \in Dirs : snap[d].on /\ snap[e].on => d = e
    /\ \A d \in Dirs : snap[d].manifest =>
        snap[d].on /\ snap[d].existed = {f \in Files : snap[d].copy[f] # None}
    /\ \A i \in Instances : staging[i] # None => snap[staging[i]].manifest
    /\ op.goal # "undo"
    /\ op.at # "idle" /\ op.goal \in {"switch", "cleanup"} => NoDirs
    /\ op.at \in {"putback", "drop", "unmark", "disown", "mkdir"} => NoDirs
    /\ op.at = "stop" /\ op.goal = "start" => NoDirs
    /\ op.at \in {"snap", "manifest", "clear", "rmdir"} => snap[op.cur].on
    /\ op.at \in {"clear", "unsnap"} => snap[op.cur].manifest
    /\ op.at = "rmdir" /\ op.goal = "start" => ~snap[op.cur].manifest
    /\ op.at \in {"snap", "manifest"} => ~snap[op.cur].manifest
    /\ ~crashed /\ (op.at = "idle" \/ op.goal = "recover") =>
        \A d \in Dirs : snap[d].on => \E i \in Instances : staging[i] = d

\* With a marker every file has its backup or is listed as missing, unless the
\* backups are just being deleted or a process died while it deleted them.
FullInv ==
    /\ ~managed => missing = {}
    /\ \A f \in missing : backup[f] = None
    /\ \/ op.at \notin {"drop", "unmark"} /\ ~crashed
       \/ op.at # "idle" /\ op.goal = "switch"
       => (managed => \A f \in Files : backup[f] # None \/ f \in missing)
    /\ \A f \in Files : backup[f] # None =>
        IF \E d \in Dirs : snap[d].manifest
        THEN \A d \in Dirs : snap[d].manifest => snap[d].copy[f] # None
        ELSE file[f] # None

\* How far the loops over the files have come.
LoopInv ==
    /\ op.at \notin {"idle", "stop"} => riot # "on"
    /\ op.at = "stop" /\ op.goal = "switch" => op.absent = {}
    /\ op.at \in {"backup", "marker"} => ~managed /\ \A f \in op.absent : file[f] = None
    /\ op.at = "backup" => \A f \in 1 .. op.k - 1 : backup[f] # None \/ f \in op.absent
    /\ op.at = "marker" => \A f \in Files : backup[f] # None \/ f \in op.absent
    /\ op.at = "write" => managed
    /\ op.at = "putback" => \A f \in 1 .. op.k - 1 : file[f] \in own[f]
    /\ op.at \in {"drop", "unmark"} => IsOwn
    /\ op.at = "drop" => \A f \in 1 .. op.k - 1 : backup[f] = None
    /\ op.at \in {"unmark", "disown"} => \A f \in Files : backup[f] = None
    /\ op.at = "disown" => ~managed
    /\ op.at = "snap" => \A f \in 1 .. op.k - 1 : snap[op.cur].copy[f] = file[f]
    /\ op.at = "manifest" => snap[op.cur].copy = file
    /\ op.at = "unsnap" => \A f \in 1 .. op.k - 1 : file[f] = snap[op.cur].copy[f]
    /\ op.at = "rmdir" /\ snap[op.cur].manifest => file = snap[op.cur].copy

SafeInv == Recoverable /\ DirInv /\ FullInv /\ LoopInv

\* While a managed login is among the settings LAAP holds what every file was,
\* and other than in a sandbox that took it for the settings to be put back.
HeldInv ==
    /\ (\E g \in Files : file[g] \in Accounts) => \A f \in Files : Held(f)
    /\ \A d \in Dirs : snap[d].manifest /\ (\E g \in Files : snap[d].copy[g] \in Accounts)
                     => \A f \in Files : BackedUp(f)

=============================================================================
