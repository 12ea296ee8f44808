--------------------------- MODULE DesktopPresence ---------------------------
(***************************************************************************)
(* LAAP Presence in the desktop: the chosen mode, the setup, the launches  *)
(* of Riot through the proxy, and LAAP's own end (presence.rs, tray.rs,    *)
(* lib.rs, useLauncher.ts, RiotOperations.tsx, useTrayActions.ts).         *)
(*                                                                         *)
(* Two native threads work at a time: one on a presence request, of which  *)
(* the window makes one at a time (useLauncher's pending), and one on an   *)
(* operation, of which run() and OPERATION allow one.  They share the      *)
(* settings, SETUP and ACTIVE, each behind a lock of its own that is let   *)
(* go between two looks.  The main thread looks at them too when LAAP is   *)
(* closed or quit, and holds up neither.                                   *)
(***************************************************************************)
EXTENDS ChatRelay

CONSTANTS
    MaxEvents,  \* bound on what the user and Riot do of themselves
    MaxTries    \* setups that failed and are tried again by a timer (3)

ASSUME BoundAssumption == MaxEvents \in Nat /\ MaxTries \in Nat

VARIABLES
    up,         \* LAAP runs and has its window
    desired,    \* settings: presence_mode
    startup,    \* settings: startup_presence
    setup,      \* SETUP: "no", "preparing", "ready", or "failed" with an error
    preparing,  \* who holds PREPARE
    bypass,     \* ONLINE_BYPASS
    cooldown,   \* a launch was marked in the last 30 seconds
    cmd,        \* the presence request under way
    op,         \* the operation under way
    quit,       \* "no"; "finish": Riot is stopped, finish_quit comes; "exit"
    tray,       \* "none" could be set up; "there"; "allowed", with QUIT_ALLOWED
    leave,      \* where the main thread is with the end of LAAP; "late" is history:
                \* a launch put its proxy in place since it looked for one
    tries,      \* automatic retries, and whether one's timer is set
    events      \* what the user and Riot did so far

presenceVars == <<up, desired, startup, setup, preparing, bypass, cooldown, cmd, op,
                  quit, tray, leave, tries, events>>
vars == <<relayVars, presenceVars>>

settings == <<desired, startup>>
certificate == <<setup, preparing>>
leaving == <<up, quit, tray, leave>>

Event == events < MaxEvents /\ events' = events + 1

NoCmd == [do |-> "none", at |-> "none", mode |-> "online"]
NoOp == [do |-> "none", at |-> "none", mode |-> "online", filtered |-> FALSE]
Ask(do, at) == [NoCmd EXCEPT !.do = do, !.at = at]
Tries == [made |-> 0, set |-> FALSE]
Staying == [at |-> "no", by |-> "none", late |-> FALSE]

-----------------------------------------------------------------------------
(* Setup                                                                   *)

\* certificate_bytes() when it is cached, download_certificate() when it is not
Certified(cached, fetched) == cached \/ fetched

\* validate_identity(), check_local_dns()
Prepared(certified, resolved) == certified /\ resolved

\* ensure_ready(): nothing to do, or PREPARE is taken and the setup begins
EnsureReady(who) ==
    /\ preparing = "none" /\ setup # "ready"
    /\ setup' = "preparing" /\ preparing' = who

SetupEnds(who, ok) ==
    /\ preparing = who
    /\ \E cached, fetched, resolved \in BOOLEAN : ok = Prepared(Certified(cached, fetched), resolved)
    /\ setup' = IF ok THEN "ready" ELSE "failed"
    /\ preparing' = "none"

AlreadyReady == preparing = "none" /\ setup = "ready" /\ UNCHANGED certificate

\* a retry has the setup done again; an error stays until then
Unready == IF setup = "ready" THEN "no" ELSE setup

-----------------------------------------------------------------------------
(* The state shown (status)                                                *)

\* Mutant of Idle: the launch that is under way is not asked for.
IdleAtOnce == riot = "off"

Idle == riot = "off" /\ ~cooldown

\* Mutant of Status: any mode that was applied will do.
StatusHopeful ==
    CASE setup = "preparing" -> "preparing"
      [] setup = "failed" -> IF bypass /\ desired = "online" THEN "normal_online" ELSE "setup_failed"
      [] OTHER ->
            IF proxy.st = "none" THEN IF riot = "off" THEN "next_launch" ELSE "restart_required"
            ELSE IF proxy.st = "dead" THEN "restart_required"
            ELSE IF proxy.error THEN "error"
            ELSE IF Connected /\ proxy.applied # "none" THEN "active" ELSE "waiting"

\* of a proxy that is not to be retired
Status ==
    CASE setup = "preparing" -> "preparing"
      [] setup = "failed" -> IF bypass /\ desired = "online" THEN "normal_online" ELSE "setup_failed"
      [] OTHER ->
            IF proxy.st = "none" THEN IF riot = "off" THEN "next_launch" ELSE "restart_required"
            ELSE IF proxy.st = "dead" THEN "restart_required"
            ELSE IF proxy.error THEN "error"
            ELSE IF Connected /\ proxy.applied = desired THEN "active" ELSE "waiting"

Retires == setup \notin {"preparing", "failed"} /\ Idle

\* Mutant of Continued: what waits is only shown.
ContinuedNever(state) == NoCmd

\* updatePresence(), while there is a window: a proxy that waits is told the mode again
Continued(state) == IF up /\ cmd.do = "status" /\ state = "waiting" THEN Ask("retry", "begin")
                    ELSE NoCmd

\* initialize(): a setup that failed is tried again later, a few times
Rearmed(state) ==
    IF up /\ cmd.do \in {"init", "again"} /\ state = "setup_failed" /\ tries.made < MaxTries
    THEN [made |-> tries.made + 1, set |-> TRUE] ELSE tries

-----------------------------------------------------------------------------
(* Requests of the window                                                  *)

CmdIdle == up /\ cmd = NoCmd
Shared == UNCHANGED <<relayVars, leaving, cooldown, op>>

ChangePresence == \E mode \in Modes :
    CmdIdle /\ Event /\ cmd' = [Ask("mode", "save") EXCEPT !.mode = mode]
    /\ Shared /\ UNCHANGED <<settings, certificate, bypass, tries>>

\* retry_presence, prepare_presence_support, allow_normal_online_launch
AskSetup == \E do \in {"retry", "prepare", "allow"} :
    /\ CmdIdle /\ Event
    /\ cmd' = Ask(do, "begin")
    /\ Shared /\ UNCHANGED <<settings, certificate, bypass, tries>>

\* save_launcher_settings takes OPERATION; the mode of this session stays
SaveSettings == \E mode \in Modes :
    /\ CmdIdle /\ Event
    /\ op.at \in {"none", "track"}
    /\ startup' = mode
    /\ cmd' = Ask("status", "status")
    /\ Shared /\ UNCHANGED <<desired, certificate, bypass, tries>>

\* every 5 seconds, and after each operation
UpdatePresence ==
    /\ CmdIdle
    /\ cmd' = Ask("status", "status")
    /\ Shared /\ UNCHANGED <<settings, certificate, bypass, tries, events>>

\* the timer's retry is lost when it comes upon another request
TryAgain ==
    /\ up /\ tries.set
    /\ tries' = [tries EXCEPT !.set = FALSE]
    /\ cmd' = IF cmd = NoCmd THEN Ask("again", "begin") ELSE cmd
    /\ Shared /\ UNCHANGED <<settings, certificate, bypass, events>>

CmdAt(at) == cmd.at = at
CmdGoto(at) == cmd' = [cmd EXCEPT !.at = at]
CmdStep == UNCHANGED <<leaving, op, events>>

\* initialize_presence(): once per run of LAAP, the startup mode is selected
StartupMode ==
    /\ CmdAt("startup")
    /\ \/ desired' = startup /\ CmdGoto("prepare")
       \/ cmd' = NoCmd /\ UNCHANGED desired
    /\ CmdStep /\ UNCHANGED <<relayVars, startup, certificate, bypass, cooldown, tries>>

\* set_presence_mode() stores the mode first
SaveMode ==
    /\ CmdAt("save")
    /\ \/ desired' = cmd.mode /\ cmd' = Ask("retry", "apply")
       \/ cmd' = NoCmd /\ UNCHANGED desired
    /\ CmdStep /\ UNCHANGED <<relayVars, startup, certificate, bypass, cooldown, tries>>

BeginSetup ==
    /\ CmdAt("begin") /\ cmd.do # "allow"
    /\ setup' = Unready
    /\ CmdGoto("prepare")
    /\ CmdStep /\ UNCHANGED <<relayVars, settings, preparing, bypass, cooldown, tries>>

\* allow_normal_online_launch()
AllowOnline ==
    /\ CmdAt("begin") /\ cmd.do = "allow"
    /\ IF desired = "online" /\ setup = "failed"
       THEN bypass' = TRUE /\ CmdGoto("status")
       ELSE cmd' = NoCmd /\ UNCHANGED bypass
    /\ CmdStep /\ UNCHANGED <<relayVars, settings, certificate, cooldown, tries>>

AfterSetup ==
    IF cmd.do = "init" THEN CmdGoto("status")
    ELSE IF cmd.do = "prepare" THEN cmd' = NoCmd
    ELSE CmdGoto("apply")

PrepareSetup ==
    /\ CmdAt("prepare")
    /\ \/ EnsureReady("cmd") /\ UNCHANGED cmd
       \/ AlreadyReady /\ AfterSetup
       \/ \E ok \in BOOLEAN : SetupEnds("cmd", ok) /\ AfterSetup
    /\ CmdStep /\ UNCHANGED <<relayVars, settings, bypass, cooldown, tries>>

\* apply_mode(); what it waits for, up to 3 seconds, need not come
ApplyMode ==
    /\ CmdAt("apply")
    /\ bypass' = (bypass /\ desired # "offline")
    /\ IF proxy.st = "none" THEN UNCHANGED relayVars ELSE ChangeMode(desired)
    /\ CmdGoto("status")
    /\ CmdStep /\ UNCHANGED <<settings, certificate, cooldown, tries>>

\* status(): the proxy is retired in a later step than Riot was looked for
AnswerStatus ==
    /\ CmdAt("status")
    /\ IF Retires THEN cmd' = Ask("none", "retire") /\ UNCHANGED tries
       ELSE cmd' = Continued(Status) /\ tries' = Rearmed(Status)
    /\ CmdStep /\ UNCHANGED <<relayVars, settings, certificate, bypass, cooldown>>

RetireProxy ==
    /\ CmdAt("retire")
    /\ StopProxy(riot)
    /\ cmd' = NoCmd
    /\ CmdStep /\ UNCHANGED <<settings, certificate, bypass, cooldown, tries>>

Requested == StartupMode \/ SaveMode \/ BeginSetup \/ AllowOnline \/ PrepareSetup
             \/ ApplyMode \/ AnswerStatus \/ RetireProxy

-----------------------------------------------------------------------------
(* Operations: run(), and the commands it is given                         *)

\* switch_account_session, launch_local_account, start_provisioning_session,
\* restart_riot_presence; close_riot_client; the tray's quit
Run == \E do \in {"switch", "stop", "quit"} :
    /\ up /\ op = NoOp /\ Event
    /\ do = "quit" => tray # "none" /\ quit = "no"
    /\ op' = [NoOp EXCEPT !.do = do, !.at = IF do = "switch" THEN "plan" ELSE "stop"]
    /\ UNCHANGED <<relayVars, settings, certificate, bypass, cooldown, cmd, leaving, tries>>

OpAt(at) == op.at = at
OpGoto(at) == op' = [op EXCEPT !.at = at]
OpShared == UNCHANGED <<settings, bypass, cmd, up, tray, tries, events>>
OpStep == OpShared /\ UNCHANGED leave

\* LaunchPlan::prepare(): the mode is read before the setup is asked for
PlanLaunch ==
    /\ OpAt("plan")
    /\ op' = [op EXCEPT !.at = "prepare", !.mode = desired]
    /\ OpStep /\ UNCHANGED <<relayVars, certificate, cooldown, quit>>

\* without the filter only online, and when the user allowed it
Unfiltered == op.mode = "online" /\ bypass

\* the mode was needed for that only
Planned(filtered) == op' = [NoOp EXCEPT !.do = op.do, !.at = "stop", !.filtered = filtered]

PrepareLaunch ==
    /\ OpAt("prepare")
    /\ \/ EnsureReady("op") /\ UNCHANGED op
       \/ AlreadyReady /\ (Planned(TRUE) \/ op' = NoOp)
       \/ SetupEnds("op", TRUE) /\ (Planned(TRUE) \/ op' = NoOp)
       \/ SetupEnds("op", FALSE) /\ IF Unfiltered THEN Planned(FALSE) ELSE op' = NoOp
    /\ OpStep /\ UNCHANGED <<relayVars, cooldown, quit>>

\* stop_riot(), and the login that is written or restored: any of it may fail,
\* the user may keep the match
StopRiot ==
    /\ OpAt("stop")
    /\ \/ op' = NoOp /\ UNCHANGED <<relayVars, quit>>
       \/ /\ StopProxy("off")
          /\ IF op.do = "switch" THEN OpGoto("start") \/ op' = NoOp ELSE op' = NoOp
          /\ quit' = IF op.do = "quit" THEN "finish" ELSE quit
    /\ OpStep /\ UNCHANGED <<certificate, cooldown>>

\* LaunchPlan::launch() up to the mode it starts the proxy with
Launch ==
    /\ OpAt("start")
    /\ IF riot # "off" /\ (op.filtered \/ proxy.st # "none")
       THEN op' = NoOp /\ UNCHANGED relayVars
       ELSE /\ StopProxy(riot)
            /\ IF op.filtered THEN op' = [op EXCEPT !.at = "listen", !.mode = desired]
               ELSE OpGoto("spawn")
    /\ OpStep /\ UNCHANGED <<certificate, cooldown, quit>>

\* the listeners answer; only now the proxy is the current one
StartProxy ==
    /\ OpAt("listen")
    /\ \/ /\ proxy' = Started(op.mode) /\ cooldown' = TRUE
          /\ op' = [op EXCEPT !.at = "spawn", !.mode = NoOp.mode]
          /\ leave' = [leave EXCEPT !.late = (leave # Staying)]
       \/ op' = NoOp /\ UNCHANGED <<proxy, cooldown, leave>>
    /\ OpShared /\ UNCHANGED <<conn, riot, certificate, quit>>

\* spawn_client(); Riot that runs by then takes no arguments
SpawnClient ==
    /\ OpAt("spawn")
    /\ \/ /\ riot' = IF riot # "off" THEN riot ELSE IF ~op.filtered THEN "plain"
                     ELSE IF proxy.st = "on" THEN "served" ELSE "lost"
          /\ cooldown' = TRUE
          /\ op' = [NoOp EXCEPT !.at = "track"]
          /\ UNCHANGED <<proxy, conn>>
       \/ StopProxy(riot) /\ op' = NoOp /\ UNCHANGED cooldown
    /\ OpStep /\ UNCHANGED <<certificate, quit>>

\* run() keeps its lock until the client was seen, for 2 minutes at most, or the
\* user stops waiting
TrackingEnds ==
    /\ OpAt("track")
    /\ op' = NoOp
    /\ OpStep /\ UNCHANGED <<relayVars, certificate, cooldown, quit>>

Operated == PlanLaunch \/ PrepareLaunch \/ StopRiot \/ Launch \/ StartProxy \/ SpawnClient
            \/ TrackingEnds

-----------------------------------------------------------------------------
(* The end of LAAP (lib.rs: CloseRequested, ExitRequested)                 *)

\* finish_quit(), after run() let go of its lock
FinishQuit ==
    /\ up /\ quit = "finish"
    /\ IF riot = "off" /\ proxy.st = "none"
       THEN quit' = "exit" /\ tray' = "allowed"
       ELSE quit' = "no" /\ UNCHANGED tray
    /\ UNCHANGED <<relayVars, settings, certificate, bypass, cooldown, cmd, op, up, leave, tries,
                   events>>

\* keep_open() looks for a proxy that is alive; without one there is no more to ask
LookForProxy(by) ==
    leave' = [at |-> IF proxy.st = "on" THEN "idle" ELSE "stop", by |-> by, late |-> FALSE]

LeaveStep == UNCHANGED <<settings, certificate, bypass, cooldown, cmd, op, tray, tries>>

\* CloseRequested hides the window, unless that is to be the end
CloseWindow ==
    /\ up /\ leave = Staying /\ tray # "there"
    /\ Event
    /\ LookForProxy("close")
    /\ LeaveStep /\ UNCHANGED <<relayVars, up, quit>>

\* the exit that finish_quit() asked for, or the one that follows the last window
ExitRequested ==
    /\ \/ quit = "exit" /\ leave = Staying /\ quit' = "no"
       \/ leave.at = "closed" /\ UNCHANGED quit
    /\ LookForProxy("exit")
    /\ LeaveStep /\ UNCHANGED <<relayVars, up, events>>

\* Mutant of KeepOpen: a launch that was only marked does not count.
KeepOpenRunning == riot # "off"

KeepOpen == ~Idle

\* keep_open() looks for Riot; when it refuses, QUIT_ALLOWED stays
LookForRiot ==
    /\ leave.at = "idle"
    /\ leave' = IF KeepOpen THEN Staying ELSE [leave EXCEPT !.at = "stop"]
    /\ LeaveStep /\ UNCHANGED <<relayVars, up, quit, events>>

\* stop_proxy(), whatever was launched by then; a window that closes is gone
LeaveProxy ==
    /\ leave.at = "stop"
    /\ StopProxy(riot)
    /\ IF leave.by = "close" THEN up' = FALSE /\ leave' = [leave EXCEPT !.at = "closed"]
       ELSE UNCHANGED up /\ leave' = [leave EXCEPT !.at = "end"]
    /\ LeaveStep /\ UNCHANGED <<quit, events>>

\* what a process knew is gone
Forget ==
    /\ setup' = "no" /\ preparing' = "none" /\ bypass' = FALSE /\ cooldown' = FALSE
    /\ op' = NoOp /\ quit' = "no" /\ leave' = Staying /\ tries' = Tries

\* what is left of LAAP are its settings
Exit ==
    /\ leave.at = "end"
    /\ StopProxy(riot)
    /\ up' = FALSE /\ tray' = "none" /\ cmd' = NoCmd /\ Forget
    /\ UNCHANGED <<settings, events>>

\* LAAP dies, or has ended, and is started again
Restart ==
    /\ Event
    /\ StopProxy(riot)
    /\ up' = TRUE /\ tray' \in {"none", "there"} /\ cmd' = Ask("init", "startup") /\ Forget
    /\ UNCHANGED settings

-----------------------------------------------------------------------------
(* Riot and time                                                           *)

RiotToggles ==
    /\ Event
    /\ riot' = IF riot = "off" THEN "plain" ELSE "off"
    /\ UNCHANGED <<proxy, conn, settings, certificate, bypass, cooldown, cmd, op, leaving, tries>>

\* a proxy is started within 5 seconds of its launch's mark
CooldownEnds ==
    /\ cooldown /\ op.at # "spawn"
    /\ cooldown' = FALSE
    /\ UNCHANGED <<relayVars, settings, certificate, bypass, cmd, op, leaving, tries, events>>

Init ==
    /\ RelayInit
    /\ riot \in {"off", "plain"}
    /\ desired \in Modes /\ startup = desired
    /\ up = TRUE /\ tray \in {"none", "there"} /\ cmd = Ask("init", "startup") /\ op = NoOp
    /\ setup = "no" /\ preparing = "none" /\ bypass = FALSE /\ cooldown = FALSE
    /\ quit = "no" /\ leave = Staying /\ tries = Tries
    /\ events = 0

Relay(c) == WritePresence(c) \/ ModeChanged(c)

Chat ==
    \/ /\ \/ ConfigRequest
          \/ \E c \in Conns : Connect(c) \/ ReadPresence(c) \/ Relay(c)
       /\ UNCHANGED presenceVars
    \/ /\ ListenerStops \/ \E c \in Conns : ConnectionEnds(c)
       /\ Event
       /\ UNCHANGED <<settings, certificate, bypass, cooldown, cmd, op, leaving, tries>>

Next ==
    \/ Chat
    \/ ChangePresence \/ AskSetup \/ SaveSettings \/ UpdatePresence \/ TryAgain \/ Requested
    \/ Run \/ Operated
    \/ FinishQuit \/ CloseWindow \/ ExitRequested \/ LookForRiot \/ LeaveProxy \/ Exit
    \/ Restart
    \/ RiotToggles \/ CooldownEnds

Spec == Init /\ [][Next]_vars

\* The window's timer, native threads that run, and relays with something to
\* write.  Nothing is assumed of Riot, the network or the user.
Fairness ==
    /\ WF_vars(UpdatePresence)
    /\ WF_vars(Requested)
    /\ WF_vars(PrepareLaunch)
    /\ \A c \in Conns : WF_vars(Relay(c) /\ UNCHANGED presenceVars)

FairSpec == Spec /\ Fairness

-----------------------------------------------------------------------------
(* Properties                                                              *)

\* Types; a mode counts as applied only while a chat connection is open
\* (Connected's drop), Riot is served only by a proxy whose worker runs, and
\* SETUP says so whenever PREPARE is held.
TypeOK ==
    /\ RelayTypeOK
    /\ {up, bypass, cooldown} \subseteq BOOLEAN /\ tray \in {"none", "there", "allowed"}
    /\ desired \in Modes /\ startup \in Modes
    /\ setup \in {"no", "preparing", "ready", "failed"}
    /\ preparing \in {"none", "cmd", "op"} /\ (preparing # "none" <=> setup = "preparing")
    /\ cmd \in [do : {"none", "init", "again", "status", "mode", "retry", "prepare", "allow"},
                at : {"none", "startup", "save", "begin", "prepare", "apply", "status", "retire"},
                mode : Modes]
    /\ op \in [do : {"none", "switch", "stop", "quit"}, mode : Modes, filtered : BOOLEAN,
               at : {"none", "plan", "prepare", "stop", "start", "listen", "spawn", "track"}]
    /\ quit \in {"no", "finish", "exit"}
    /\ leave \in [at : {"no", "idle", "stop", "closed", "end"}, by : {"none", "close", "exit"},
                  late : BOOLEAN]
    /\ tries \in [made : 0 .. MaxTries, set : BOOLEAN]
    /\ events \in 0 .. MaxEvents
    /\ proxy.applied # "none" => Connected
    /\ riot = "served" => proxy.st = "on"

\* "Unknown or failed states never claim that offline presence is active"
\* (docs/riot-installation-and-presence.md:29): when the state shown says that
\* the chosen mode is active, no relay at rest shows Riot's friends the other.
TruthfulStatus ==
    CmdAt("status") /\ ~Retires /\ Status = "active"
    => \A c \in Conns : Settled(c) => conn[c].shown \in {"none", desired}

Shows(mode) == \E c \in Conns : conn[c].shown = mode
Unsaid == up /\ setup # "failed" /\ ~proxy.error /\ \E mode \in Modes \ {desired} : Shows(mode)

\* "The header or system-bar menu still changes the current session immediately"
\* (docs/riot-installation-and-presence.md:25): while LAAP has its window, Riot's
\* friends do not go on being shown another mode than the chosen one unless LAAP
\* shows an error, also when the choice fell into a launch that had read the old mode.
ChoiceReachesRiot == Unsaid ~> ~Unsaid

Depending == proxy.st = "on" /\ (riot = "served" \/ OpAt("spawn"))

\* The proxy of a client that runs, or is about to, is stopped by nothing but
\* the operation that stops the client and accidents: the state that is asked
\* for every 5 seconds retires it only when neither is the case.  (Between that
\* look and the retirement, or LAAP's end, a launch may slip in.)
ProxyStays ==
    [][/\ Depending /\ proxy'.st # "on"
          => op' # op \/ events' # events \/ CmdAt("retire") \/ leave.late
       /\ CmdAt("status") /\ cmd'.at = "retire" => ~Depending]_vars

\* "Keep LAAP open while presence controls are running" (presence.rs:48), as far
\* as LAAP keeps to it: closed or quit, it neither stops the proxy nor ends under
\* a client whose chat goes through it, or that is being started, unless the launch
\* put that proxy in place after LAAP had looked for one.
ExitKeepsChat == [][LeaveProxy \/ Exit => ~Depending \/ leave.late]_vars

=============================================================================
