------------------------ MODULE DesktopPresenceProofs ------------------------
(***************************************************************************)
(* Proofs about DesktopPresence for every number of chat connections,      *)
(* events and tries.                                                       *)
(***************************************************************************)
EXTENDS DesktopPresence, TLAPS

-----------------------------------------------------------------------------
(* The inductive invariant.                                                *)

\* Of one proxy nothing was said in another mode than its present one: its
\* mode was never changed.
Pure ==
    /\ proxy.applied \in {"none", proxy.mode}
    /\ \A c \in Conns : /\ conn[c].picked \in {"none", proxy.mode}
                        /\ conn[c].shown \in {"none", proxy.mode}

\* A relay has still to look at the change of mode, or writes or wrote the mode.
Caught(c) ==
    \/ conn[c].unseen
    \/ /\ conn[c].picked \in {"none", proxy.mode}
       /\ conn[c].picked = "none" => conn[c].shown \in {"none", proxy.mode}

RelayInv ==
    /\ RelayTypeOK
    /\ proxy.applied # "none" => Connected
    /\ riot = "served" => proxy.st = "on"
    /\ proxy.st # "on" => conn = AllClosed
    /\ \A c \in Conns : (conn[c].open \/ conn[c] = Closed) /\ Caught(c)

\* The launches: nobody else starts a proxy, and the one of a client that is
\* being started was marked.
LaunchInv ==
    /\ op.at = "listen" => proxy.st = "none" /\ op.filtered
    /\ op.at = "spawn" /\ proxy.st # "none" => cooldown

\* A proxy has the chosen mode, is about to be told it, or has said no other
\* mode than the one it was started with.
ChoiceInv ==
    /\ CmdAt("startup") => Pure
    /\ CmdAt("apply") \/ Pure \/ proxy.mode = desired

CmdType ==
    [do : {"none", "init", "again", "status", "mode", "retry", "prepare", "allow"},
     at : {"none", "startup", "save", "begin", "prepare", "apply", "status", "retire"},
     mode : Modes]
OpType ==
    [do : {"none", "switch", "stop", "quit"}, mode : Modes, filtered : BOOLEAN,
     at : {"none", "plan", "prepare", "stop", "start", "listen", "spawn", "track"}]

LeaveType ==
    [at : {"no", "idle", "stop", "closed", "end"}, by : {"none", "close", "exit"},
     late : BOOLEAN]

PresenceTypeOK ==
    /\ up \in BOOLEAN /\ bypass \in BOOLEAN /\ cooldown \in BOOLEAN
    /\ desired \in Modes /\ startup \in Modes
    /\ setup \in {"no", "preparing", "ready", "failed"}
    /\ preparing \in {"none", "cmd", "op"}
    /\ preparing # "none" <=> setup = "preparing"
    /\ cmd \in CmdType /\ op \in OpType
    /\ quit \in {"no", "finish", "exit"} /\ tray \in {"none", "there", "allowed"}
    /\ leave \in LeaveType
    /\ tries \in [made : 0 .. MaxTries, set : BOOLEAN]
    /\ events \in 0 .. MaxEvents

IInv == RelayInv /\ PresenceTypeOK /\ LaunchInv /\ ChoiceInv

\* LAAP goes on to its end only while nobody depends on the proxy, or one was
\* put in place since it looked.
LeaveInv == leave.at \in {"stop", "end"} /\ ~leave.late => ~Depending

-----------------------------------------------------------------------------
(* What the relays do.                                                     *)

ConnType == [open : BOOLEAN, unseen : BOOLEAN, picked : Modes \cup {"none"},
             shown : Modes \cup {"none"}]
ProxyType == [st : {"none", "on", "dead"}, mode : Modes, applied : Modes \cup {"none"},
              error : BOOLEAN, routed : BOOLEAN]

LEMMA ClosedFacts ==
    /\ Closed \in ConnType /\ AllClosed \in [Conns -> ConnType]
    /\ \A c \in Conns : AllClosed[c] = Closed
    /\ Closed.open = FALSE /\ Closed.unseen = FALSE
    /\ Closed.picked = "none" /\ Closed.shown = "none"
  BY DEF Closed, AllClosed, ConnType

LEMMA NoProxyFacts ==
    /\ NoProxy \in ProxyType
    /\ NoProxy.st = "none" /\ NoProxy.mode = "online" /\ NoProxy.applied = "none"
  BY DEF NoProxy, ProxyType, Modes

\* A proxy no connection of which is open has said nothing.
LEMMA NothingSaid ==
    ASSUME conn = AllClosed, proxy.applied = "none"
    PROVE  Pure /\ \A c \in Conns : (conn[c].open \/ conn[c] = Closed) /\ Caught(c)
  BY ClosedFacts DEF Pure, Caught

LEMMA NothingSaidNext ==
    ASSUME conn' = AllClosed, proxy'.applied = "none"
    PROVE  Pure' /\ \A c \in Conns : (conn'[c].open \/ conn'[c] = Closed) /\ Caught(c)'
  BY ClosedFacts DEF Pure, Caught

\* Stopping the proxy leaves nothing of it.
LEMMA Stopped ==
    ASSUME NEW then \in {"off", "served", "lost", "plain"}, StopProxy(then)
    PROVE  RelayInv' /\ Pure' /\ proxy'.st = "none" /\ riot' # "served"
<1>1. proxy' = NoProxy /\ conn' = AllClosed /\ riot' \in {"off", "lost", "plain"}
  BY DEF StopProxy
<1>2. Pure' /\ \A c \in Conns : (conn'[c].open \/ conn'[c] = Closed) /\ Caught(c)'
  BY <1>1, NoProxyFacts, NothingSaidNext
<1>3. RelayTypeOK'
  BY <1>1, NoProxyFacts, ClosedFacts DEF RelayTypeOK, ProxyType, ConnType
<1> QED BY <1>1, <1>2, <1>3, NoProxyFacts DEF RelayInv

\* A change of mode leaves every open relay with something to look at.
LEMMA Changed ==
    ASSUME RelayInv, NEW mode \in Modes, ChangeMode(mode)
    PROVE  /\ RelayInv' /\ proxy'.mode = mode /\ proxy'.st = proxy.st
           /\ riot' = riot
<1>1. /\ proxy' \in ProxyType /\ proxy'.mode = mode /\ proxy'.st = proxy.st
      /\ proxy'.applied = proxy.applied /\ riot' = riot
  BY DEF ChangeMode, RelayInv, RelayTypeOK, ProxyType
<1>2. ASSUME NEW c \in Conns
      PROVE  /\ conn'[c] \in ConnType /\ conn'[c].open = conn[c].open
             /\ conn'[c].unseen = conn[c].open
             /\ conn'[c].picked = conn[c].picked /\ conn'[c].shown = conn[c].shown
             /\ ~conn[c].open => conn'[c] = Closed
  <2>1. conn[c] \in ConnType /\ (conn[c].open \/ conn[c] = Closed)
    BY DEF RelayInv, RelayTypeOK, ConnType
  <2>2. conn'[c] = IF conn[c].open THEN [conn[c] EXCEPT !.unseen = TRUE] ELSE conn[c]
    BY DEF ChangeMode
  <2>3. CASE conn[c].open
    <3>1. conn[c].open = TRUE
      BY <2>1, <2>3 DEF ConnType
    <3> QED BY <2>1, <2>2, <2>3, <3>1 DEF ConnType
  <2>4. CASE ~conn[c].open
    BY <2>1, <2>2, <2>4, ClosedFacts
  <2> QED BY <2>3, <2>4
<1>3. conn' \in [Conns -> ConnType]
  BY <1>2 DEF ChangeMode
<1>4. \A c \in Conns : (conn'[c].open \/ conn'[c] = Closed) /\ Caught(c)'
  BY <1>2, ClosedFacts DEF Caught
<1>5. Connected => Connected'
  BY <1>2 DEF Connected
<1>6. proxy.st # "on" => conn' = AllClosed
  <2>1. ASSUME conn = AllClosed PROVE conn' = AllClosed
    BY <2>1, <1>2, ClosedFacts DEF ChangeMode, AllClosed
  <2> QED BY <2>1 DEF RelayInv
<1> QED BY <1>1, <1>3, <1>4, <1>5, <1>6 DEF RelayInv, RelayTypeOK, ProxyType, ConnType

\* What every step of the chat preserves.
ChatKeeps == RelayInv' /\ (Pure => Pure') /\ proxy'.mode = proxy.mode /\ riot' \in {riot, "lost"}
             /\ (proxy.st = "none" => proxy'.st = "none")
             /\ (proxy'.st = "none" => proxy.st = "none")
             /\ (proxy'.st = "on" => proxy.st = "on")

LEMMA ConfigRequestKeeps == ASSUME RelayInv, ConfigRequest PROVE ChatKeeps
<1>1. /\ proxy' \in ProxyType /\ proxy'.st = proxy.st /\ proxy'.mode = proxy.mode
      /\ proxy'.applied = proxy.applied /\ conn' = conn /\ riot' = riot
  BY DEF ConfigRequest, RelayInv, RelayTypeOK, ProxyType
<1> QED BY <1>1 DEF ChatKeeps, RelayInv, RelayTypeOK, ProxyType, Pure, Caught, Connected

\* A relay that changes alone, to one that is open and caught the mode.
LEMMA OneRelay ==
    ASSUME RelayInv, NEW c \in Conns, NEW r \in ConnType, r.open, proxy.st = "on",
           conn' = [conn EXCEPT ![c] = r],
           proxy' \in ProxyType, proxy'.st = proxy.st, proxy'.mode = proxy.mode,
           proxy'.applied \in {proxy.applied, r.shown}, riot' = riot,
           \/ r.unseen
           \/ /\ r.picked \in {"none", proxy.mode}
              /\ r.picked = "none" => r.shown \in {"none", proxy.mode},
           Pure => r.picked \in {"none", proxy.mode} /\ r.shown \in {"none", proxy.mode}
    PROVE  ChatKeeps
<1>1. conn \in [Conns -> ConnType]
  BY DEF RelayInv, RelayTypeOK, ConnType
<1>2. conn' \in [Conns -> ConnType] /\ conn'[c] = r
      /\ \A d \in Conns \ {c} : conn'[d] = conn[d]
  BY <1>1
<1>3. Connected'
  BY <1>2 DEF Connected
<1>4. \A d \in Conns : (conn'[d].open \/ conn'[d] = Closed) /\ Caught(d)'
  <2>1. TAKE d \in Conns
  <2>2. CASE d = c
    BY <2>2, <1>2 DEF Caught
  <2>3. CASE d # c
    BY <2>3, <1>2 DEF Caught, RelayInv
  <2> QED BY <2>2, <2>3
<1>5. Pure => Pure'
  <2>1. ASSUME Pure, NEW d \in Conns
        PROVE  conn'[d].picked \in {"none", proxy.mode} /\ conn'[d].shown \in {"none", proxy.mode}
    BY <2>1, <1>2 DEF Pure
  <2>2. Pure => proxy'.applied \in {"none", proxy.mode}
    BY DEF Pure
  <2> QED BY <2>1, <2>2 DEF Pure
<1> QED BY <1>2, <1>3, <1>4, <1>5 DEF ChatKeeps, RelayInv, RelayTypeOK, ProxyType, ConnType

\* An open relay is one of a proxy that runs.
LEMMA OpenRuns ==
    ASSUME RelayInv, NEW c \in Conns
    PROVE  /\ conn[c] \in ConnType /\ proxy \in ProxyType
           /\ conn[c].open => proxy.st = "on"
           /\ conn[c].picked # "none" \/ conn[c].unseen => conn[c].open
  BY ClosedFacts DEF RelayInv, RelayTypeOK, ConnType, ProxyType

LEMMA ConnectKeeps == ASSUME RelayInv, NEW c \in Conns, Connect(c) PROVE ChatKeeps
<1>1. CASE conn' = [conn EXCEPT ![c] = [Closed EXCEPT !.open = TRUE]] /\ UNCHANGED proxy
  <2> DEFINE r == [Closed EXCEPT !.open = TRUE]
  <2>1. r \in ConnType /\ r.open /\ r.picked = "none" /\ r.shown = "none"
    BY DEF Closed, ConnType
  <2>2. proxy' = proxy /\ riot' = riot /\ proxy.st = "on" /\ proxy \in ProxyType
    BY <1>1, OpenRuns DEF Connect
  <2>3. conn' = [conn EXCEPT ![c] = r]
    BY <1>1
  <2> HIDE DEF r
  <2> QED BY <2>1, <2>2, <2>3, OneRelay
<1>2. CASE proxy' = [proxy EXCEPT !.error = TRUE] /\ UNCHANGED conn
  <2>1. /\ proxy' \in ProxyType /\ proxy'.st = proxy.st /\ proxy'.mode = proxy.mode
        /\ proxy'.applied = proxy.applied /\ conn' = conn /\ riot' = riot
    BY <1>2 DEF Connect, RelayInv, RelayTypeOK, ProxyType
  <2> QED BY <2>1 DEF ChatKeeps, RelayInv, RelayTypeOK, ProxyType, Pure, Caught, Connected
<1> QED BY <1>1, <1>2 DEF Connect

LEMMA ReadKeeps == ASSUME RelayInv, NEW c \in Conns, ReadPresence(c) PROVE ChatKeeps
<1> DEFINE r == [conn[c] EXCEPT !.picked = proxy.mode]
<1>1. conn[c] \in ConnType /\ proxy \in ProxyType /\ proxy.st = "on" /\ conn[c].open
  BY OpenRuns DEF ReadPresence
<1>2. r \in ConnType /\ r.open /\ r.picked = proxy.mode /\ r.shown = conn[c].shown
  BY <1>1 DEF ConnType, ProxyType
<1>3. proxy' = proxy /\ riot' = riot /\ conn' = [conn EXCEPT ![c] = r]
  BY DEF ReadPresence
<1>4. proxy.mode # "none"
  BY <1>1 DEF ProxyType, Modes
<1>5. Pure => r.shown \in {"none", proxy.mode}
  BY <1>2 DEF Pure
<1> HIDE DEF r
<1> QED BY <1>1, <1>2, <1>3, <1>4, <1>5, OneRelay

LEMMA WriteKeeps == ASSUME RelayInv, NEW c \in Conns, WritePresence(c) PROVE ChatKeeps
<1> DEFINE r == Written(conn[c])
<1>1. conn[c] \in ConnType /\ proxy \in ProxyType /\ proxy.st = "on" /\ conn[c].open
  BY OpenRuns DEF WritePresence
<1>2. /\ r \in ConnType /\ r.open /\ r.picked = "none" /\ r.shown = conn[c].picked
      /\ r.unseen = conn[c].unseen
  BY <1>1 DEF ConnType, Written
<1>3. riot' = riot /\ conn' = [conn EXCEPT ![c] = r]
  BY DEF WritePresence
<1>4. /\ proxy' \in ProxyType /\ proxy'.st = proxy.st /\ proxy'.mode = proxy.mode
      /\ proxy'.applied = r.shown
  BY <1>1, <1>2 DEF WritePresence, ProxyType, ConnType
<1>5. r.unseen \/ r.shown \in {"none", proxy.mode}
  BY <1>2 DEF RelayInv, Caught
<1>6. Pure => r.shown \in {"none", proxy.mode}
  BY <1>2 DEF Pure
<1> HIDE DEF r
<1> QED BY <1>1, <1>2, <1>3, <1>4, <1>5, <1>6, OneRelay

LEMMA ModeChangedKeeps == ASSUME RelayInv, NEW c \in Conns, ModeChanged(c) PROVE ChatKeeps
<1> DEFINE p == IF conn[c].shown = "none" THEN "none" ELSE proxy.mode
           r == [conn[c] EXCEPT !.unseen = FALSE, !.picked = p]
<1>1. conn[c] \in ConnType /\ proxy \in ProxyType /\ proxy.st = "on" /\ conn[c].open
  BY OpenRuns DEF ModeChanged
<1>2. r \in ConnType /\ r.open /\ r.picked = p /\ r.shown = conn[c].shown
  BY <1>1 DEF ConnType, ProxyType
<1>3. proxy' = proxy /\ riot' = riot /\ conn' = [conn EXCEPT ![c] = r]
  BY <1>1 DEF ModeChanged, RelayInv, RelayTypeOK
<1>4. proxy.mode # "none"
  BY <1>1 DEF ProxyType, Modes
<1>5. r.picked \in {"none", proxy.mode} /\ (r.picked = "none" => r.shown \in {"none", proxy.mode})
  BY <1>2, <1>4
<1>6. Pure => r.shown \in {"none", proxy.mode}
  BY <1>2 DEF Pure
<1> HIDE DEF r, p
<1> QED BY <1>1, <1>2, <1>3, <1>5, <1>6, OneRelay

LEMMA EndKeeps == ASSUME RelayInv, NEW c \in Conns, ConnectionEnds(c) PROVE ChatKeeps
<1>1. PICK error \in BOOLEAN :
          /\ conn' = [conn EXCEPT ![c] = Closed]
          /\ proxy' = [proxy EXCEPT !.error = @ \/ error,
                                    !.applied = IF \A d \in Conns \ {c} : ~conn[d].open
                                                THEN "none" ELSE @]
          /\ UNCHANGED riot
  BY DEF ConnectionEnds
<1>2. conn \in [Conns -> ConnType] /\ proxy \in ProxyType /\ proxy.st = "on"
  BY OpenRuns DEF ConnectionEnds, RelayInv, RelayTypeOK, ConnType
<1>3. conn' \in [Conns -> ConnType] /\ conn'[c] = Closed
      /\ \A d \in Conns \ {c} : conn'[d] = conn[d]
  BY <1>1, <1>2, ClosedFacts
<1>4. /\ proxy' \in ProxyType /\ proxy'.st = proxy.st /\ proxy'.mode = proxy.mode
      /\ proxy'.applied = IF \A d \in Conns \ {c} : ~conn[d].open THEN "none" ELSE proxy.applied
  BY <1>1, <1>2 DEF ProxyType
<1>5. proxy'.applied # "none" => Connected'
  BY <1>3, <1>4 DEF Connected
<1>6. \A d \in Conns : (conn'[d].open \/ conn'[d] = Closed) /\ Caught(d)'
  <2>1. TAKE d \in Conns
  <2>2. CASE d = c
    BY <2>2, <1>3, ClosedFacts DEF Caught
  <2>3. CASE d # c
    BY <2>3, <1>3, <1>4 DEF Caught, RelayInv
  <2> QED BY <2>2, <2>3
<1>7. Pure => Pure'
  <2>1. ASSUME Pure, NEW d \in Conns
        PROVE  conn'[d].picked \in {"none", proxy.mode} /\ conn'[d].shown \in {"none", proxy.mode}
    BY <2>1, <1>3, ClosedFacts DEF Pure
  <2>2. Pure => proxy'.applied \in {"none", proxy.mode}
    BY <1>4 DEF Pure
  <2> QED BY <2>1, <2>2, <1>4 DEF Pure
<1> QED BY <1>1, <1>2, <1>3, <1>4, <1>5, <1>6, <1>7
        DEF ChatKeeps, RelayInv, RelayTypeOK, ProxyType, ConnType

LEMMA ListenerKeeps == ASSUME RelayInv, ListenerStops PROVE ChatKeeps
<1>1. proxy \in ProxyType /\ proxy.st = "on" /\ riot \in {"off", "served", "lost", "plain"}
  BY DEF ListenerStops, RelayInv, RelayTypeOK, ProxyType
<1>2. /\ proxy' \in ProxyType /\ proxy'.st = "dead" /\ proxy'.mode = proxy.mode
      /\ proxy'.applied = "none"
  BY <1>1 DEF ListenerStops, NoProxy, ProxyType
<1>3. conn' = AllClosed /\ riot' \in {riot, "lost"} /\ riot' # "served"
  BY DEF ListenerStops
<1>4. Pure' /\ \A c \in Conns : (conn'[c].open \/ conn'[c] = Closed) /\ Caught(c)'
  BY <1>2, <1>3, NothingSaidNext
<1>5. RelayTypeOK'
  BY <1>1, <1>2, <1>3, ClosedFacts DEF RelayTypeOK, ProxyType, ConnType
<1> QED BY <1>1, <1>2, <1>3, <1>4, <1>5 DEF ChatKeeps, RelayInv

-----------------------------------------------------------------------------
(* What the requests and the operations do.                                *)

\* Steps that leave the relays alone.
LEMMA RelaysRest ==
    ASSUME RelayInv, UNCHANGED relayVars
    PROVE  RelayInv' /\ Pure' = Pure /\ proxy' = proxy /\ riot' = riot
  BY DEF relayVars, RelayInv, RelayTypeOK, Pure, Caught, Connected

CmdDos == {"none", "init", "again", "status", "mode", "retry", "prepare", "allow"}
CmdAts == {"none", "startup", "save", "begin", "prepare", "apply", "status", "retire"}
OpAts == {"none", "plan", "prepare", "stop", "start", "listen", "spawn", "track"}

LEMMA NoCmdFacts == NoCmd \in CmdType /\ NoCmd.at = "none"
  BY DEF NoCmd, CmdType, Modes

LEMMA AskFacts ==
    ASSUME NEW do \in CmdDos, NEW at \in CmdAts
    PROVE  Ask(do, at) \in CmdType /\ Ask(do, at).at = at
  BY DEF Ask, NoCmd, CmdType, CmdDos, CmdAts, Modes

LEMMA CmdGotoFacts ==
    ASSUME cmd \in CmdType, NEW at \in CmdAts, CmdGoto(at)
    PROVE  cmd' \in CmdType /\ cmd'.at = at
  BY DEF CmdGoto, CmdType, CmdAts

LEMMA NoOpFacts == NoOp \in OpType /\ NoOp.at = "none"
  BY DEF NoOp, OpType, Modes

LEMMA OpGotoFacts ==
    ASSUME op \in OpType, NEW at \in OpAts, OpGoto(at)
    PROVE  op' \in OpType /\ op'.at = at /\ op'.mode = op.mode /\ op'.filtered = op.filtered
  BY DEF OpGoto, OpType, OpAts

\* A step of the window's requests that leaves the relays, the launches and
\* the chosen mode alone.
LEMMA RequestStep ==
    ASSUME IInv, PresenceTypeOK', UNCHANGED <<relayVars, op, cooldown, desired>>,
           ~CmdAt("startup")', ~CmdAt("apply")
    PROVE  IInv'
<1>1. RelayInv' /\ Pure' = Pure /\ proxy' = proxy
  BY RelaysRest DEF IInv
<1>2. LaunchInv'
  BY <1>1 DEF IInv, LaunchInv
<1>3. ChoiceInv'
  BY <1>1 DEF IInv, ChoiceInv, CmdAt
<1> QED BY <1>1, <1>2, <1>3 DEF IInv

LEMMA ChangePresenceKeeps == ASSUME IInv, ChangePresence PROVE IInv'
<1>1. PICK mode \in Modes : cmd' = [Ask("mode", "save") EXCEPT !.mode = mode]
  BY DEF ChangePresence
<1>2. Ask("mode", "save") \in CmdType /\ Ask("mode", "save").at = "save"
  BY AskFacts DEF CmdDos, CmdAts
<1>3. cmd' \in CmdType /\ cmd'.at = "save" /\ cmd.at = "none"
  BY <1>1, <1>2, NoCmdFacts DEF CmdType, ChangePresence, CmdIdle
<1>4. events' \in 0 .. MaxEvents
  BY BoundAssumption DEF ChangePresence, Event, IInv, PresenceTypeOK
<1>5. PresenceTypeOK'
  BY <1>3, <1>4 DEF ChangePresence, IInv, PresenceTypeOK, Shared, settings, certificate, leaving
<1> QED BY <1>3, <1>5, RequestStep DEF ChangePresence, Shared, settings, CmdAt

LEMMA AskSetupKeeps == ASSUME IInv, AskSetup PROVE IInv'
<1>1. cmd' \in CmdType /\ cmd'.at = "begin" /\ cmd.at = "none"
  BY NoCmdFacts, AskFacts DEF AskSetup, CmdIdle, CmdDos, CmdAts
<1>2. events' \in 0 .. MaxEvents
  BY BoundAssumption DEF AskSetup, Event, IInv, PresenceTypeOK
<1>3. PresenceTypeOK'
  BY <1>1, <1>2 DEF AskSetup, IInv, PresenceTypeOK, Shared, settings, certificate, leaving
<1> QED BY <1>1, <1>3, RequestStep DEF AskSetup, Shared, settings, CmdAt

LEMMA SaveSettingsKeeps == ASSUME IInv, SaveSettings PROVE IInv'
<1>1. cmd' \in CmdType /\ cmd'.at = "status" /\ cmd.at = "none"
  BY NoCmdFacts, AskFacts DEF SaveSettings, CmdIdle, CmdDos, CmdAts
<1>2. events' \in 0 .. MaxEvents
  BY BoundAssumption DEF SaveSettings, Event, IInv, PresenceTypeOK
<1>3. PresenceTypeOK'
  BY <1>1, <1>2 DEF SaveSettings, IInv, PresenceTypeOK, Shared, certificate, leaving
<1> QED BY <1>1, <1>3, RequestStep DEF SaveSettings, Shared, CmdAt

LEMMA UpdatePresenceKeeps == ASSUME IInv, UpdatePresence PROVE IInv'
<1>1. cmd' \in CmdType /\ cmd'.at = "status" /\ cmd.at = "none"
  BY NoCmdFacts, AskFacts DEF UpdatePresence, CmdIdle, CmdDos, CmdAts
<1>2. PresenceTypeOK'
  BY <1>1 DEF UpdatePresence, IInv, PresenceTypeOK, Shared, settings, certificate, leaving
<1> QED BY <1>1, <1>2, RequestStep DEF UpdatePresence, Shared, settings, CmdAt

LEMMA TryAgainKeeps == ASSUME IInv, TryAgain PROVE IInv'
<1>1. tries' \in [made : 0 .. MaxTries, set : BOOLEAN]
  BY DEF TryAgain, IInv, PresenceTypeOK
<1>2. CASE cmd = NoCmd
  <2>1. cmd' \in CmdType /\ cmd'.at = "begin" /\ cmd.at = "none"
    BY <1>2, NoCmdFacts, AskFacts DEF TryAgain, CmdDos, CmdAts
  <2>2. PresenceTypeOK'
    BY <1>1, <2>1 DEF TryAgain, IInv, PresenceTypeOK, Shared, settings, certificate, leaving
  <2> QED BY <2>1, <2>2, RequestStep DEF TryAgain, Shared, settings, CmdAt
<1>3. CASE cmd # NoCmd
  <2>1. PresenceTypeOK'
    BY <1>1, <1>3 DEF TryAgain, IInv, PresenceTypeOK, Shared, settings, certificate, leaving
  <2>2. RelayInv' /\ Pure' = Pure /\ proxy' = proxy
    BY RelaysRest DEF IInv, TryAgain, Shared
  <2> QED BY <1>3, <2>1, <2>2
          DEF TryAgain, Shared, settings, IInv, LaunchInv, ChoiceInv, CmdAt
<1> QED BY <1>2, <1>3

LEMMA StartupModeKeeps == ASSUME IInv, StartupMode PROVE IInv'
<1>1. cmd' \in CmdType /\ cmd'.at \in {"none", "prepare"} /\ cmd.at = "startup"
  BY NoCmdFacts, CmdGotoFacts DEF StartupMode, IInv, PresenceTypeOK, CmdAts, CmdAt
<1>2. desired' \in Modes
  BY DEF StartupMode, IInv, PresenceTypeOK
<1>3. PresenceTypeOK'
  BY <1>1, <1>2 DEF StartupMode, IInv, PresenceTypeOK, CmdStep, certificate, leaving
<1>4. RelayInv' /\ Pure' = Pure /\ proxy' = proxy
  BY RelaysRest DEF IInv, StartupMode
<1>5. LaunchInv'
  BY <1>4 DEF StartupMode, CmdStep, IInv, LaunchInv
<1>6. ChoiceInv'
  BY <1>1, <1>4 DEF IInv, ChoiceInv, CmdAt
<1> QED BY <1>3, <1>4, <1>5, <1>6 DEF IInv

LEMMA SaveModeKeeps == ASSUME IInv, SaveMode PROVE IInv'
<1>1. CASE desired' = cmd.mode /\ cmd' = Ask("retry", "apply")
  <2>1. cmd' \in CmdType /\ cmd'.at = "apply" /\ desired' \in Modes
    BY <1>1, AskFacts DEF IInv, PresenceTypeOK, CmdType, CmdDos, CmdAts
  <2>2. PresenceTypeOK'
    BY <2>1 DEF SaveMode, IInv, PresenceTypeOK, CmdStep, certificate, leaving
  <2>3. RelayInv' /\ Pure' = Pure /\ proxy' = proxy
    BY RelaysRest DEF IInv, SaveMode
  <2> QED BY <2>1, <2>2, <2>3 DEF SaveMode, CmdStep, IInv, LaunchInv, ChoiceInv, CmdAt
<1>2. CASE cmd' = NoCmd /\ UNCHANGED desired
  <2>1. cmd' \in CmdType /\ cmd'.at = "none" /\ cmd.at = "save"
    BY <1>2, NoCmdFacts DEF SaveMode, CmdAt
  <2>2. PresenceTypeOK'
    BY <1>2, <2>1 DEF SaveMode, IInv, PresenceTypeOK, CmdStep, certificate, leaving
  <2> QED BY <1>2, <2>1, <2>2, RequestStep DEF SaveMode, CmdStep, CmdAt
<1> QED BY <1>1, <1>2 DEF SaveMode

LEMMA BeginSetupKeeps == ASSUME IInv, BeginSetup PROVE IInv'
<1>1. cmd' \in CmdType /\ cmd'.at = "prepare" /\ cmd.at = "begin"
  BY CmdGotoFacts DEF BeginSetup, IInv, PresenceTypeOK, CmdAts, CmdAt
<1>2. PresenceTypeOK'
  BY <1>1 DEF BeginSetup, Unready, IInv, PresenceTypeOK, CmdStep, settings, leaving
<1> QED BY <1>1, <1>2, RequestStep DEF BeginSetup, CmdStep, settings, CmdAt

LEMMA AllowOnlineKeeps == ASSUME IInv, AllowOnline PROVE IInv'
<1>1. /\ cmd' \in CmdType /\ cmd'.at \in {"none", "status"} /\ cmd.at = "begin"
      /\ bypass' \in BOOLEAN
  BY NoCmdFacts, CmdGotoFacts DEF AllowOnline, IInv, PresenceTypeOK, CmdAts, CmdAt
<1>2. PresenceTypeOK'
  BY <1>1 DEF AllowOnline, IInv, PresenceTypeOK, CmdStep, settings, certificate, leaving
<1> QED BY <1>1, <1>2, RequestStep DEF AllowOnline, CmdStep, settings, CmdAt

\* ensure_ready() keeps SETUP and PREPARE in step, whoever calls it.
LEMMA SetupTypes ==
    ASSUME IInv, NEW who \in {"cmd", "op"},
           EnsureReady(who) \/ AlreadyReady \/ \E ok \in BOOLEAN : SetupEnds(who, ok)
    PROVE  /\ setup' \in {"no", "preparing", "ready", "failed"}
           /\ preparing' \in {"none", "cmd", "op"}
           /\ preparing' # "none" <=> setup' = "preparing"
<1>1. CASE EnsureReady(who)
  BY <1>1 DEF EnsureReady
<1>2. CASE AlreadyReady
  BY <1>2 DEF AlreadyReady, certificate, IInv, PresenceTypeOK
<1>3. CASE \E ok \in BOOLEAN : SetupEnds(who, ok)
  BY <1>3 DEF SetupEnds
<1> QED BY <1>1, <1>2, <1>3

LEMMA PrepareSetupKeeps == ASSUME IInv, PrepareSetup PROVE IInv'
<1>1. EnsureReady("cmd") \/ AlreadyReady \/ \E ok \in BOOLEAN : SetupEnds("cmd", ok)
  BY DEF PrepareSetup
<1>2. AfterSetup => cmd' \in CmdType /\ cmd'.at \in {"none", "status", "apply"}
  BY NoCmdFacts, CmdGotoFacts DEF AfterSetup, IInv, PresenceTypeOK, CmdAts
<1>3. cmd' \in CmdType /\ cmd'.at # "startup" /\ cmd.at = "prepare"
  BY <1>2 DEF PrepareSetup, CmdAt, IInv, PresenceTypeOK
<1>4. PresenceTypeOK'
  BY <1>1, <1>3, SetupTypes DEF PrepareSetup, IInv, PresenceTypeOK, CmdStep, settings, leaving
<1> QED BY <1>3, <1>4, RequestStep DEF PrepareSetup, CmdStep, settings, CmdAt

LEMMA ApplyModeKeeps == ASSUME IInv, ApplyMode PROVE IInv'
<1>1. cmd' \in CmdType /\ cmd'.at = "status"
  BY CmdGotoFacts DEF ApplyMode, IInv, PresenceTypeOK, CmdAts
<1>2. PresenceTypeOK'
  BY <1>1 DEF ApplyMode, IInv, PresenceTypeOK, CmdStep, settings, certificate, leaving
<1>3. /\ RelayInv' /\ (Pure' \/ proxy'.mode = desired) /\ proxy'.st = proxy.st
  <2>1. CASE proxy.st = "none"
    <3>1. RelayInv' /\ Pure' = Pure /\ proxy' = proxy
      BY <2>1, RelaysRest DEF ApplyMode, IInv
    <3>2. proxy.applied = "none" /\ conn = AllClosed
      BY <2>1, ClosedFacts DEF IInv, RelayInv, Connected
    <3> QED BY <3>1, <3>2, NothingSaid
  <2>2. CASE proxy.st # "none"
    BY <2>2, Changed DEF ApplyMode, IInv, PresenceTypeOK
  <2> QED BY <2>1, <2>2
<1>4. LaunchInv'
  BY <1>3 DEF ApplyMode, CmdStep, IInv, LaunchInv
<1>5. ChoiceInv'
  BY <1>1, <1>3 DEF ApplyMode, settings, ChoiceInv, CmdAt
<1> QED BY <1>2, <1>3, <1>4, <1>5 DEF IInv

LEMMA AnswerStatusKeeps == ASSUME IInv, AnswerStatus PROVE IInv'
<1>1. /\ cmd' \in CmdType /\ cmd'.at \in {"retire", "none", "begin"} /\ cmd.at = "status"
  BY NoCmdFacts, CmdGotoFacts, AskFacts
     DEF AnswerStatus, Continued, IInv, PresenceTypeOK, CmdDos, CmdAts, CmdAt
<1>2. tries' \in [made : 0 .. MaxTries, set : BOOLEAN]
  <2>1. tries \in [made : 0 .. MaxTries, set : BOOLEAN]
    BY DEF IInv, PresenceTypeOK
  <2>2. tries.made < MaxTries => tries.made + 1 \in 0 .. MaxTries
    BY <2>1, BoundAssumption
  <2>3. Rearmed(Status) \in [made : 0 .. MaxTries, set : BOOLEAN]
    BY <2>1, <2>2 DEF Rearmed
  <2> QED BY <2>1, <2>3 DEF AnswerStatus
<1>3. PresenceTypeOK'
  BY <1>1, <1>2 DEF AnswerStatus, IInv, PresenceTypeOK, CmdStep, settings, certificate, leaving
<1> QED BY <1>1, <1>3, RequestStep DEF AnswerStatus, CmdStep, settings, CmdAt

\* After the proxy was stopped nothing is left to be said or to be started.
LEMMA StoppedStep ==
    ASSUME IInv, PresenceTypeOK', NEW then \in {"off", "served", "lost", "plain"},
           StopProxy(then),
           op'.at = "listen" => op'.filtered
    PROVE  IInv'
<1>1. RelayInv' /\ Pure' /\ proxy'.st = "none"
  BY Stopped
<1> QED BY <1>1 DEF IInv, LaunchInv, ChoiceInv

\* What StopProxy is told of Riot.
LEMMA RiotKnown == ASSUME IInv PROVE riot \in {"off", "served", "lost", "plain"}
  BY DEF IInv, RelayInv, RelayTypeOK

LEMMA RetireProxyKeeps == ASSUME IInv, RetireProxy PROVE IInv'
<1>1. PresenceTypeOK'
  BY NoCmdFacts DEF RetireProxy, IInv, PresenceTypeOK, CmdStep, settings, certificate, leaving
<1>2. op' = op
  BY DEF RetireProxy, CmdStep
<1> QED BY <1>1, <1>2, RiotKnown, StoppedStep DEF RetireProxy, IInv, LaunchInv

\* A step of an operation, or of LAAP's end, that leaves the relays, the
\* request and the chosen mode alone.
LEMMA OperationStep ==
    ASSUME IInv, PresenceTypeOK', LaunchInv', UNCHANGED <<relayVars, cmd, desired>>
    PROVE  IInv'
<1>1. RelayInv' /\ Pure' = Pure /\ proxy' = proxy
  BY RelaysRest DEF IInv
<1> QED BY <1>1 DEF IInv, ChoiceInv, CmdAt

LEMMA RunKeeps == ASSUME IInv, Run PROVE IInv'
<1>1. PICK do \in {"switch", "stop", "quit"} :
          op' = [NoOp EXCEPT !.do = do, !.at = IF do = "switch" THEN "plan" ELSE "stop"]
  BY DEF Run
<1>2. op' \in OpType /\ op'.at \in {"plan", "stop"}
  BY <1>1 DEF NoOp, OpType, Modes
<1>3. events' \in 0 .. MaxEvents
  BY BoundAssumption DEF Run, Event, IInv, PresenceTypeOK
<1>4. PresenceTypeOK'
  BY <1>2, <1>3 DEF Run, IInv, PresenceTypeOK, settings, certificate, leaving
<1>5. LaunchInv'
  BY <1>2 DEF LaunchInv
<1> QED BY <1>4, <1>5, OperationStep DEF Run, settings

LEMMA PlanLaunchKeeps == ASSUME IInv, PlanLaunch PROVE IInv'
<1>1. op' \in OpType /\ op'.at = "prepare"
  BY DEF PlanLaunch, IInv, PresenceTypeOK, OpType
<1>2. PresenceTypeOK'
  BY <1>1 DEF PlanLaunch, IInv, PresenceTypeOK, OpStep, OpShared, settings, certificate
<1>3. LaunchInv'
  BY <1>1 DEF LaunchInv
<1> QED BY <1>2, <1>3, OperationStep DEF PlanLaunch, OpStep, OpShared, settings

LEMMA PrepareLaunchKeeps == ASSUME IInv, PrepareLaunch PROVE IInv'
<1>1. EnsureReady("op") \/ AlreadyReady \/ \E ok \in BOOLEAN : SetupEnds("op", ok)
  BY DEF PrepareLaunch
<1>2. /\ op \in OpType /\ op.at = "prepare"
  BY DEF PrepareLaunch, OpAt, IInv, PresenceTypeOK
<1>3. ASSUME NEW filtered \in BOOLEAN, Planned(filtered)
      PROVE  op' \in OpType /\ op'.at = "stop"
  BY <1>2, <1>3 DEF Planned, NoOp, OpType, Modes
<1>4. op' \in OpType /\ op'.at \in {"prepare", "none", "stop"}
  BY <1>2, <1>3, NoOpFacts DEF PrepareLaunch
<1>5. PresenceTypeOK'
  BY <1>1, <1>4, SetupTypes DEF PrepareLaunch, IInv, PresenceTypeOK, OpStep, OpShared, settings
<1>6. LaunchInv'
  BY <1>4 DEF LaunchInv
<1> QED BY <1>5, <1>6, OperationStep DEF PrepareLaunch, OpStep, OpShared, settings

LEMMA StopRiotKeeps == ASSUME IInv, StopRiot PROVE IInv'
<1>1. CASE op' = NoOp /\ UNCHANGED <<relayVars, quit>>
  <2>1. PresenceTypeOK'
    BY <1>1, NoOpFacts DEF StopRiot, IInv, PresenceTypeOK, OpStep, OpShared, settings, certificate
  <2>2. LaunchInv'
    BY <1>1, NoOpFacts DEF LaunchInv
  <2> QED BY <1>1, <2>1, <2>2, OperationStep DEF StopRiot, OpStep, OpShared, settings
<1>2. CASE /\ StopProxy("off")
           /\ IF op.do = "switch" THEN OpGoto("start") \/ op' = NoOp ELSE op' = NoOp
           /\ quit' = IF op.do = "quit" THEN "finish" ELSE quit
  <2>1. \/ op' = NoOp
        \/ op' \in OpType /\ op'.at = "start"
    BY <1>2, OpGotoFacts DEF IInv, PresenceTypeOK, OpAts
  <2>2. PresenceTypeOK'
    BY <1>2, <2>1, NoOpFacts
       DEF StopRiot, IInv, PresenceTypeOK, OpStep, OpShared, settings, certificate
  <2>3. op'.at # "listen"
    BY <2>1, NoOpFacts
  <2> QED BY <1>2, <2>2, <2>3, StoppedStep
<1> QED BY <1>1, <1>2 DEF StopRiot

LEMMA LaunchKeeps == ASSUME IInv, Launch PROVE IInv'
<1>1. op \in OpType /\ op.at = "start"
  BY DEF Launch, OpAt, IInv, PresenceTypeOK
<1>2. CASE op' = NoOp /\ UNCHANGED relayVars
  <2>1. PresenceTypeOK'
    BY <1>2, NoOpFacts DEF Launch, IInv, PresenceTypeOK, OpStep, OpShared, settings, certificate
  <2>2. LaunchInv'
    BY <1>2, NoOpFacts DEF LaunchInv
  <2> QED BY <1>2, <2>1, <2>2, OperationStep DEF Launch, OpStep, OpShared, settings
<1>3. CASE /\ StopProxy(riot)
           /\ IF op.filtered THEN op' = [op EXCEPT !.at = "listen", !.mode = desired]
              ELSE OpGoto("spawn")
  <2>1. op' \in OpType /\ (op'.at = "listen" => op'.filtered)
    <3>1. CASE op.filtered
      <4>1. op' = [op EXCEPT !.at = "listen", !.mode = desired]
        BY <1>3, <3>1
      <4>2. op' \in OpType /\ op'.at = "listen" /\ op'.filtered = op.filtered
        BY <1>1, <4>1 DEF OpType, IInv, PresenceTypeOK
      <4> QED BY <3>1, <4>2
    <3>2. CASE ~op.filtered
      BY <1>1, <1>3, <3>2, OpGotoFacts DEF OpAts
    <3> QED BY <3>1, <3>2
  <2>2. PresenceTypeOK'
    BY <2>1 DEF Launch, IInv, PresenceTypeOK, OpStep, OpShared, settings, certificate
  <2> QED BY <1>3, <2>1, <2>2, RiotKnown, StoppedStep
<1> QED BY <1>2, <1>3 DEF Launch

LEMMA StartProxyKeeps == ASSUME IInv, StartProxy PROVE IInv'
<1>1. op \in OpType /\ op.at = "listen" /\ proxy.st = "none"
  BY DEF StartProxy, OpAt, IInv, PresenceTypeOK, LaunchInv
<1>2. CASE /\ proxy' = Started(op.mode) /\ cooldown' = TRUE
           /\ op' = [op EXCEPT !.at = "spawn", !.mode = NoOp.mode]
           /\ leave' = [leave EXCEPT !.late = (leave # Staying)]
  <2>1. /\ op' \in OpType /\ op'.at = "spawn" /\ leave' \in LeaveType
    BY <1>1, <1>2 DEF NoOp, OpType, Modes, IInv, PresenceTypeOK, LeaveType
  <2>2. proxy' \in ProxyType /\ proxy'.st = "on" /\ proxy'.applied = "none"
    BY <1>1, <1>2 DEF Started, NoProxy, ProxyType, OpType
  <2>3. conn' = AllClosed /\ riot' = riot
    BY <1>1 DEF StartProxy, IInv, RelayInv
  <2>4. Pure' /\ \A c \in Conns : (conn'[c].open \/ conn'[c] = Closed) /\ Caught(c)'
    BY <2>2, <2>3, NothingSaidNext
  <2>5. RelayInv'
    BY <2>2, <2>3, <2>4, ClosedFacts DEF IInv, RelayInv, RelayTypeOK, ProxyType, ConnType
  <2>6. PresenceTypeOK'
    BY <1>2, <2>1 DEF StartProxy, IInv, PresenceTypeOK, OpShared, settings, certificate
  <2>7. LaunchInv'
    BY <1>2, <2>1 DEF LaunchInv
  <2> QED BY <2>4, <2>5, <2>6, <2>7 DEF IInv, ChoiceInv
<1>3. CASE op' = NoOp /\ UNCHANGED <<proxy, cooldown, leave>>
  <2>1. PresenceTypeOK'
    BY <1>3, NoOpFacts DEF StartProxy, IInv, PresenceTypeOK, OpShared, settings, certificate
  <2>2. LaunchInv'
    BY <1>3, NoOpFacts DEF LaunchInv
  <2> QED BY <1>3, <2>1, <2>2, OperationStep DEF StartProxy, OpShared, settings, relayVars
<1> QED BY <1>2, <1>3 DEF StartProxy

LEMMA SpawnClientKeeps == ASSUME IInv, SpawnClient PROVE IInv'
<1>1. CASE StopProxy(riot) /\ op' = NoOp /\ UNCHANGED cooldown
  <2>1. PresenceTypeOK'
    BY <1>1, NoOpFacts
       DEF SpawnClient, IInv, PresenceTypeOK, OpStep, OpShared, settings, certificate
  <2> QED BY <1>1, <2>1, NoOpFacts, RiotKnown, StoppedStep
<1>2. CASE /\ riot' = IF riot # "off" THEN riot ELSE IF ~op.filtered THEN "plain"
                      ELSE IF proxy.st = "on" THEN "served" ELSE "lost"
           /\ cooldown' = TRUE
           /\ op' = [NoOp EXCEPT !.at = "track"]
           /\ UNCHANGED <<proxy, conn>>
  <2>1. op' \in OpType /\ op'.at = "track"
    BY <1>2 DEF NoOp, OpType, Modes
  <2>2. riot' \in {"off", "served", "lost", "plain"} /\ (riot' = "served" => proxy.st = "on")
    BY <1>2, RiotKnown DEF IInv, RelayInv
  <2>3. RelayInv' /\ Pure' = Pure
    BY <1>2, <2>2 DEF IInv, RelayInv, RelayTypeOK, Pure, Caught, Connected
  <2>4. PresenceTypeOK'
    BY <1>2, <2>1 DEF SpawnClient, IInv, PresenceTypeOK, OpStep, OpShared, settings, certificate
  <2> QED BY <1>2, <2>1, <2>3, <2>4
          DEF SpawnClient, OpStep, OpShared, settings, IInv, LaunchInv, ChoiceInv, CmdAt
<1> QED BY <1>1, <1>2 DEF SpawnClient

LEMMA TrackingEndsKeeps == ASSUME IInv, TrackingEnds PROVE IInv'
<1>1. PresenceTypeOK'
  BY NoOpFacts DEF TrackingEnds, IInv, PresenceTypeOK, OpStep, OpShared, settings, certificate
<1>2. LaunchInv'
  BY NoOpFacts DEF TrackingEnds, LaunchInv
<1> QED BY <1>1, <1>2, OperationStep DEF TrackingEnds, OpStep, OpShared, settings

-----------------------------------------------------------------------------
(* LAAP's end, Riot and time.                                              *)

LEMMA FinishQuitKeeps == ASSUME IInv, FinishQuit PROVE IInv'
<1>1. PresenceTypeOK'
  BY DEF FinishQuit, IInv, PresenceTypeOK, settings, certificate
<1>2. LaunchInv'
  BY DEF FinishQuit, relayVars, IInv, LaunchInv
<1> QED BY <1>1, <1>2, OperationStep DEF FinishQuit, settings

LEMMA StayingFacts == Staying \in LeaveType /\ Staying.at = "no" /\ Staying.late = FALSE
  BY DEF Staying, LeaveType

\* A step of LAAP's end that only looks.
LEMMA LookStep ==
    ASSUME IInv, LeaveStep, UNCHANGED relayVars, up' \in BOOLEAN,
           quit' \in {"no", "finish", "exit"}, leave' \in LeaveType, events' \in 0 .. MaxEvents
    PROVE  IInv'
<1>1. PresenceTypeOK'
  BY DEF LeaveStep, IInv, PresenceTypeOK, settings, certificate
<1>2. LaunchInv'
  BY DEF LeaveStep, relayVars, IInv, LaunchInv
<1> QED BY <1>1, <1>2, OperationStep DEF LeaveStep, settings

LEMMA LookForProxyType ==
    ASSUME NEW by \in {"close", "exit"}, LookForProxy(by)
    PROVE  leave' \in LeaveType
  BY DEF LookForProxy, LeaveType

LEMMA CloseWindowKeeps == ASSUME IInv, CloseWindow PROVE IInv'
<1>1. events' \in 0 .. MaxEvents
  BY BoundAssumption DEF CloseWindow, Event, IInv, PresenceTypeOK
<1> QED BY <1>1, LookForProxyType, LookStep DEF CloseWindow, IInv, PresenceTypeOK

LEMMA ExitRequestedKeeps == ASSUME IInv, ExitRequested PROVE IInv'
  BY LookForProxyType, LookStep DEF ExitRequested, IInv, PresenceTypeOK

LEMMA LookForRiotKeeps == ASSUME IInv, LookForRiot PROVE IInv'
<1>1. leave' \in LeaveType
  BY StayingFacts DEF LookForRiot, IInv, PresenceTypeOK, LeaveType
<1> QED BY <1>1, LookStep DEF LookForRiot, IInv, PresenceTypeOK

LEMMA LeaveProxyKeeps == ASSUME IInv, LeaveProxy PROVE IInv'
<1>1. up' \in BOOLEAN /\ leave' \in LeaveType
  BY DEF LeaveProxy, IInv, PresenceTypeOK, LeaveType
<1>2. PresenceTypeOK'
  BY <1>1 DEF LeaveProxy, LeaveStep, IInv, PresenceTypeOK, settings, certificate
<1> QED BY <1>2, RiotKnown, StoppedStep DEF LeaveProxy, LeaveStep, IInv, LaunchInv

LEMMA TriesFacts == Tries \in [made : 0 .. MaxTries, set : BOOLEAN]
<1>1. 0 \in 0 .. MaxTries
  BY BoundAssumption
<1> QED BY <1>1 DEF Tries

LEMMA ForgetFacts ==
    ASSUME IInv, Forget
    PROVE  /\ bypass' \in BOOLEAN /\ cooldown' \in BOOLEAN
           /\ setup' \in {"no", "preparing", "ready", "failed"}
           /\ preparing' \in {"none", "cmd", "op"}
           /\ preparing' # "none" <=> setup' = "preparing"
           /\ op' \in OpType /\ op'.at = "none"
           /\ quit' \in {"no", "finish", "exit"} /\ leave' \in LeaveType
           /\ tries' \in [made : 0 .. MaxTries, set : BOOLEAN]
  BY NoOpFacts, TriesFacts, StayingFacts DEF Forget

LEMMA ExitKeeps == ASSUME IInv, Exit PROVE IInv'
<1>1. PresenceTypeOK'
  BY NoCmdFacts, ForgetFacts DEF Exit, IInv, PresenceTypeOK, settings
<1> QED BY <1>1, RiotKnown, ForgetFacts, StoppedStep DEF Exit

LEMMA RestartKeeps == ASSUME IInv, Restart PROVE IInv'
<1>1. events' \in 0 .. MaxEvents
  BY BoundAssumption DEF Restart, Event, IInv, PresenceTypeOK
<1>2. cmd' \in CmdType
  BY AskFacts DEF Restart, CmdDos, CmdAts
<1>3. PresenceTypeOK'
  BY <1>1, <1>2, ForgetFacts DEF Restart, IInv, PresenceTypeOK, settings
<1> QED BY <1>3, RiotKnown, ForgetFacts, StoppedStep DEF Restart

LEMMA RiotTogglesKeeps == ASSUME IInv, RiotToggles PROVE IInv'
<1>1. events' \in 0 .. MaxEvents
  BY BoundAssumption DEF RiotToggles, Event, IInv, PresenceTypeOK
<1>2. PresenceTypeOK'
  BY <1>1 DEF RiotToggles, IInv, PresenceTypeOK, settings, certificate, leaving
<1>3. riot' \in {"off", "plain"} /\ proxy' = proxy /\ conn' = conn
  BY DEF RiotToggles
<1>4. RelayInv' /\ Pure' = Pure
  BY <1>3 DEF IInv, RelayInv, RelayTypeOK, Pure, Caught, Connected
<1> QED BY <1>2, <1>3, <1>4 DEF RiotToggles, settings, IInv, LaunchInv, ChoiceInv, CmdAt

LEMMA CooldownEndsKeeps == ASSUME IInv, CooldownEnds PROVE IInv'
<1>1. PresenceTypeOK'
  BY DEF CooldownEnds, IInv, PresenceTypeOK, settings, certificate, leaving
<1>2. LaunchInv'
  BY DEF CooldownEnds, relayVars, IInv, LaunchInv
<1> QED BY <1>1, <1>2, OperationStep DEF CooldownEnds, settings

\* A step of the chat, and what else it changes.
LEMMA ChatStep ==
    ASSUME IInv, ChatKeeps, PresenceTypeOK', UNCHANGED <<cmd, op, cooldown, desired>>
    PROVE  IInv'
  BY DEF IInv, ChatKeeps, LaunchInv, ChoiceInv, CmdAt

LEMMA ChatStepKeeps == ASSUME IInv, Chat PROVE IInv'
<1>1. ChatKeeps
  BY ConfigRequestKeeps, ConnectKeeps, ReadKeeps, WriteKeeps, ModeChangedKeeps, EndKeeps,
     ListenerKeeps DEF Chat, Relay, IInv
<1>2. events' \in 0 .. MaxEvents
  BY BoundAssumption DEF Chat, Event, IInv, PresenceTypeOK, presenceVars
<1>3. PresenceTypeOK'
  BY <1>2 DEF Chat, IInv, PresenceTypeOK, presenceVars, settings, certificate, leaving
<1> QED BY <1>1, <1>3, ChatStep DEF Chat, presenceVars, settings

-----------------------------------------------------------------------------
(* The theorems.                                                           *)

LEMMA InitInv == Init => IInv
<1> SUFFICES ASSUME Init PROVE IInv
  OBVIOUS
<1>1. proxy = NoProxy /\ conn = AllClosed /\ riot \in {"off", "plain"}
  BY DEF Init, RelayInit
<1>2. Pure /\ \A c \in Conns : (conn[c].open \/ conn[c] = Closed) /\ Caught(c)
  BY <1>1, NoProxyFacts, NothingSaid
<1>3. RelayInv
  BY <1>1, <1>2, NoProxyFacts, ClosedFacts DEF RelayInv, RelayTypeOK, ProxyType, ConnType
<1>4. PresenceTypeOK
  <2>1. cmd \in CmdType /\ op \in OpType /\ tries \in [made : 0 .. MaxTries, set : BOOLEAN]
    BY NoOpFacts, AskFacts, TriesFacts DEF Init, CmdDos, CmdAts
  <2>2. events \in 0 .. MaxEvents
    BY BoundAssumption DEF Init
  <2> QED BY <2>1, <2>2, StayingFacts DEF Init, PresenceTypeOK
<1>5. LaunchInv
  BY NoOpFacts DEF Init, LaunchInv
<1> QED BY <1>2, <1>3, <1>4, <1>5 DEF IInv, ChoiceInv

LEMMA NextInv == IInv /\ [Next]_vars => IInv'
<1> SUFFICES ASSUME IInv, [Next]_vars PROVE IInv'
  OBVIOUS
<1>1. CASE Chat
  BY <1>1, ChatStepKeeps
<1>2. CASE ChangePresence \/ AskSetup \/ SaveSettings \/ UpdatePresence \/ TryAgain
  BY <1>2, ChangePresenceKeeps, AskSetupKeeps, SaveSettingsKeeps, UpdatePresenceKeeps,
     TryAgainKeeps
<1>3. CASE Requested
  BY <1>3, StartupModeKeeps, SaveModeKeeps, BeginSetupKeeps, AllowOnlineKeeps,
     PrepareSetupKeeps, ApplyModeKeeps, AnswerStatusKeeps, RetireProxyKeeps DEF Requested
<1>4. CASE Run \/ Operated
  BY <1>4, RunKeeps, PlanLaunchKeeps, PrepareLaunchKeeps, StopRiotKeeps, LaunchKeeps,
     StartProxyKeeps, SpawnClientKeeps, TrackingEndsKeeps DEF Operated
<1>5. CASE \/ FinishQuit \/ CloseWindow \/ ExitRequested \/ LookForRiot \/ LeaveProxy \/ Exit
           \/ Restart
  BY <1>5, FinishQuitKeeps, CloseWindowKeeps, ExitRequestedKeeps, LookForRiotKeeps,
     LeaveProxyKeeps, ExitKeeps, RestartKeeps
<1>6. CASE RiotToggles \/ CooldownEnds
  BY <1>6, RiotTogglesKeeps, CooldownEndsKeeps
<1>7. CASE UNCHANGED vars
  <2>1. PresenceTypeOK' /\ LaunchInv'
    BY <1>7 DEF vars, relayVars, presenceVars, IInv, PresenceTypeOK, LaunchInv
  <2> QED BY <1>7, <2>1, OperationStep DEF vars, presenceVars
<1> QED BY <1>1, <1>2, <1>3, <1>4, <1>5, <1>6, <1>7 DEF Next

LEMMA Invariance == Spec => []IInv
<1>1. Init => IInv
  BY InitInv
<1>2. IInv /\ [Next]_vars => IInv'
  BY NextInv
<1> QED BY <1>1, <1>2, PTL DEF Spec

\* Types; a mode counts as applied only while a chat connection is open, Riot
\* is served only by a proxy that runs, and SETUP is in step with PREPARE.
THEOREM TypeCorrect == Spec => []TypeOK
<1>1. IInv => TypeOK
  BY DEF IInv, RelayInv, PresenceTypeOK, TypeOK, CmdType, OpType, LeaveType
<1> QED BY Invariance, <1>1, PTL

\* However many connections, a change of mode is never lost between a stanza's
\* choice of mode and its writing.
THEOREM ChangesReachRelays == Spec => []NoChangeLost
<1>1. IInv => NoChangeLost
  BY DEF IInv, RelayInv, Caught, NoChangeLost, Settled
<1> QED BY Invariance, <1>1, PTL

\* "Active" is never shown for a mode that a relay at rest does not show.
THEOREM StatusIsTruthful == Spec => []TruthfulStatus
<1>1. ASSUME IInv, CmdAt("status"), ~Retires, Status = "active", NEW c \in Conns, Settled(c)
      PROVE  conn[c].shown \in {"none", desired}
  <2>1. proxy.applied = desired
    BY <1>1 DEF Status
  <2>2. proxy.mode = desired
    <3>1. desired # "none"
      BY <1>1 DEF IInv, PresenceTypeOK, Modes
    <3> QED BY <1>1, <2>1, <3>1 DEF IInv, ChoiceInv, Pure, CmdAt
  <2> QED BY <1>1, <2>2 DEF IInv, RelayInv, Caught, Settled
<1>2. IInv => TruthfulStatus
  BY <1>1 DEF TruthfulStatus
<1> QED BY Invariance, <1>2, PTL

\* A proxy that a client depends on is one whose launch is in its first half
\* minute, or whose Riot runs: it is not idle.
LEMMA DependingBusy == IInv /\ Depending => ~Idle
  BY DEF IInv, RelayInv, LaunchInv, Depending, Idle, OpAt

LEMMA StoppedNone == ASSUME NEW then, StopProxy(then) PROVE ~Depending'
  BY NoProxyFacts DEF StopProxy, Depending

\* Nothing but a launch makes a client depend on the proxy.
LEMMA NoNewDependence == ASSUME IInv, Next, Depending' PROVE Depending \/ StartProxy
<1>1. CASE Chat
  <2>1. ChatKeeps /\ op' = op
    BY <1>1, ConfigRequestKeeps, ConnectKeeps, ReadKeeps, WriteKeeps, ModeChangedKeeps, EndKeeps,
       ListenerKeeps DEF Chat, Relay, IInv, presenceVars
  <2> QED BY <2>1 DEF ChatKeeps, Depending, OpAt
<1>2. CASE ChangePresence \/ AskSetup \/ SaveSettings \/ UpdatePresence \/ TryAgain
  BY <1>2 DEF ChangePresence, AskSetup, SaveSettings, UpdatePresence, TryAgain, Shared, relayVars,
              Depending, OpAt
<1>3. CASE Requested
  <2>1. CASE RetireProxy
    BY <2>1, StoppedNone DEF RetireProxy
  <2>2. CASE ApplyMode
    <3>1. proxy'.st = proxy.st /\ riot' = riot
      BY <2>2, Changed DEF ApplyMode, relayVars, IInv, PresenceTypeOK
    <3> QED BY <2>2, <3>1 DEF ApplyMode, CmdStep, Depending, OpAt
  <2>3. CASE ~RetireProxy /\ ~ApplyMode
    BY <1>3, <2>3 DEF Requested, StartupMode, SaveMode, BeginSetup, AllowOnline, PrepareSetup,
                      AnswerStatus, CmdStep, relayVars, Depending, OpAt
  <2> QED BY <2>1, <2>2, <2>3
<1>4. CASE Run
  <2>1. op'.at # "spawn"
    BY <1>4 DEF Run, NoOp
  <2> QED BY <1>4, <2>1 DEF Run, relayVars, Depending, OpAt
<1>5. CASE Operated
  <2>1. op \in OpType
    BY DEF IInv, PresenceTypeOK
  <2>2. CASE PlanLaunch \/ PrepareLaunch \/ TrackingEnds
    <3>1. op'.at # "spawn"
      BY <2>1, <2>2, NoOpFacts
         DEF PlanLaunch, PrepareLaunch, TrackingEnds, Planned, OpType, OpAt, NoOp
    <3>2. proxy' = proxy /\ riot' = riot
      BY <2>2 DEF PlanLaunch, PrepareLaunch, TrackingEnds, relayVars
    <3> QED BY <3>1, <3>2 DEF Depending, OpAt
  <2>3. CASE StopRiot \/ Launch
    <3>1. ~UNCHANGED relayVars => ~Depending'
      BY <2>3, StoppedNone DEF StopRiot, Launch
    <3>2. UNCHANGED relayVars /\ op' = NoOp => Depending
      BY NoOpFacts DEF relayVars, Depending, OpAt
    <3>3. op' = NoOp \/ ~Depending'
      BY <2>3, StoppedNone DEF StopRiot, Launch
    <3> QED BY <3>1, <3>2, <3>3
  <2>4. CASE SpawnClient
    BY <2>4, StoppedNone DEF SpawnClient, Depending, OpAt
  <2> QED BY <1>5, <2>2, <2>3, <2>4 DEF Operated
<1>6. CASE FinishQuit \/ CloseWindow \/ ExitRequested \/ LookForRiot \/ CooldownEnds
  BY <1>6 DEF FinishQuit, CloseWindow, ExitRequested, LookForRiot, LeaveStep, CooldownEnds,
              relayVars, Depending, OpAt
<1>7. CASE LeaveProxy \/ Exit \/ Restart
  BY <1>7, StoppedNone DEF LeaveProxy, Exit, Restart
<1>8. CASE RiotToggles
  BY <1>8 DEF RiotToggles, Depending, OpAt
<1> QED BY <1>1, <1>2, <1>3, <1>4, <1>5, <1>6, <1>7, <1>8 DEF Next

LEMMA NextLeave == IInv /\ LeaveInv /\ [Next]_vars => LeaveInv'
<1> SUFFICES ASSUME IInv, LeaveInv, [Next]_vars PROVE LeaveInv'
  OBVIOUS
<1>1. CASE UNCHANGED vars
  BY <1>1 DEF vars, relayVars, presenceVars, LeaveInv, Depending, OpAt
<1>2. CASE Next /\ StartProxy
  <2>1. CASE leave' = [leave EXCEPT !.late = (leave # Staying)]
    <3>1. leave.at \in {"stop", "end"} => leave # Staying
      BY StayingFacts
    <3> QED BY <2>1, <3>1 DEF LeaveInv, IInv, PresenceTypeOK, LeaveType
  <2>2. CASE UNCHANGED <<proxy, leave, riot>> /\ op' = NoOp
    BY <2>2, NoOpFacts DEF LeaveInv, Depending, OpAt
  <2> QED BY <1>2, <2>1, <2>2 DEF StartProxy
<1>3. CASE Next /\ ~StartProxy
  <2>1. Depending' => Depending
    BY <1>3, NoNewDependence
  <2>2. CASE CloseWindow \/ ExitRequested
    <3>1. leave'.at = "stop" => proxy.st # "on"
      BY <2>2 DEF CloseWindow, ExitRequested, LookForProxy
    <3>2. leave'.at \in {"idle", "stop"}
      BY <2>2 DEF CloseWindow, ExitRequested, LookForProxy
    <3> QED BY <2>1, <3>1, <3>2 DEF LeaveInv, Depending
  <2>3. CASE LookForRiot
    BY <2>1, <2>3, DependingBusy, StayingFacts DEF LookForRiot, KeepOpen, LeaveInv
  <2>4. CASE LeaveProxy
    BY <2>4, StoppedNone DEF LeaveProxy, LeaveInv
  <2>5. CASE ~(CloseWindow \/ ExitRequested \/ LookForRiot \/ LeaveProxy)
    <3>1. leave' = leave \/ leave' = Staying
      BY <1>3, <2>5
      DEF Next, Chat, presenceVars, leaving, ChangePresence, AskSetup, SaveSettings,
          UpdatePresence, TryAgain, Shared, Requested, StartupMode, SaveMode, BeginSetup,
          AllowOnline, PrepareSetup, ApplyMode, AnswerStatus, RetireProxy, CmdStep, Run,
          Operated, PlanLaunch, PrepareLaunch, StopRiot, Launch, SpawnClient, TrackingEnds,
          OpStep, FinishQuit, Exit, Forget, Restart, RiotToggles, CooldownEnds
    <3> QED BY <2>1, <3>1, StayingFacts DEF LeaveInv
  <2> QED BY <2>2, <2>3, <2>4, <2>5
<1> QED BY <1>1, <1>2, <1>3

LEMMA LeaveInvariance == Spec => []LeaveInv
<1>1. Init => LeaveInv
  BY StayingFacts DEF Init, LeaveInv
<1> QED BY Invariance, <1>1, NextLeave, PTL DEF Spec

\* LAAP, closed or quit, stops no proxy that a client depends on and does not
\* end under it, unless a launch put that proxy in place after LAAP looked.
THEOREM ExitsKeepChat == Spec => ExitKeepsChat
<1>1. LeaveInv => [LeaveProxy \/ Exit => ~Depending \/ leave.late]_vars
  BY DEF LeaveInv, LeaveProxy, Exit
<1> QED BY LeaveInvariance, <1>1, PTL DEF ExitKeepsChat

\* Events are counted.
LEMMA EventCounts == ASSUME IInv, Event PROVE events' # events
  BY BoundAssumption DEF Event, IInv, PresenceTypeOK

\* The relays and the requests do not stop a proxy, but for the retirement.
LEMMA RequestsKeepProxy ==
    ASSUME IInv, \/ ChangePresence \/ AskSetup \/ SaveSettings \/ UpdatePresence \/ TryAgain
                 \/ Requested /\ ~CmdAt("retire")
    PROVE  proxy'.st = proxy.st
<1>1. CASE ApplyMode
  <2>1. CASE proxy.st = "none"
    BY <1>1, <2>1 DEF ApplyMode, relayVars
  <2>2. CASE proxy.st # "none"
    BY <1>1, <2>2, Changed DEF ApplyMode, IInv, PresenceTypeOK
  <2> QED BY <2>1, <2>2
<1>2. CASE ~ApplyMode
  BY <1>2 DEF relayVars, ChangePresence, AskSetup, SaveSettings, UpdatePresence, TryAgain, Shared,
              Requested, StartupMode, SaveMode, BeginSetup, AllowOnline, PrepareSetup,
              AnswerStatus, RetireProxy
<1> QED BY <1>1, <1>2

LEMMA ChatKeepsProxy == ASSUME IInv, Chat, events' = events PROVE proxy'.st = proxy.st
<1>1. ConfigRequest \/ \E c \in Conns : Connect(c) \/ ReadPresence(c) \/ Relay(c)
  BY EventCounts DEF Chat
<1>2. proxy \in ProxyType
  BY DEF IInv, RelayInv, RelayTypeOK, ProxyType
<1> QED BY <1>1, <1>2 DEF ConfigRequest, Connect, ReadPresence, Relay, WritePresence, ModeChanged,
                       ProxyType

\* A proxy that a client depends on outlives all but the operation that stops
\* the client, accidents and a retirement that was decided before.
THEOREM ProxiesStay == Spec => ProxyStays
<1>1. ASSUME IInv, LeaveInv, Next, Depending, op' = op, events' = events,
             ~CmdAt("retire"), ~leave.late
      PROVE  proxy'.st = "on"
  <2>1. proxy.st = "on" /\ ~Idle
    BY <1>1, DependingBusy DEF Depending
  <2>2. CASE Chat
    BY <1>1, <2>1, <2>2, ChatKeepsProxy
  <2>3. CASE \/ ChangePresence \/ AskSetup \/ SaveSettings \/ UpdatePresence \/ TryAgain
             \/ Requested
    BY <1>1, <2>1, <2>3, RequestsKeepProxy
  <2>4. CASE Run \/ CloseWindow \/ Restart \/ RiotToggles
    BY <1>1, <2>4, EventCounts DEF Run, CloseWindow, Restart, RiotToggles
  <2>5. CASE Operated
    <3>1. op'.at = op.at
      BY <1>1
    <3>2. op.at = "prepare" /\ UNCHANGED relayVars
      <4>1. PlanLaunch => op'.at = "prepare" /\ op.at = "plan"
        BY <1>1 DEF PlanLaunch, OpAt, IInv, PresenceTypeOK, OpType
      <4>2. StopRiot => op.at = "stop" /\ op'.at \in {"start", "none"}
        BY <1>1, NoOpFacts, OpGotoFacts DEF StopRiot, OpAt, IInv, PresenceTypeOK, OpAts
      <4>3. Launch => op.at = "start" /\ op'.at \in {"listen", "spawn", "none"}
        BY <1>1, NoOpFacts, OpGotoFacts DEF Launch, OpAt, IInv, PresenceTypeOK, OpType, OpAts
      <4>4. StartProxy => op.at = "listen" /\ op'.at \in {"spawn", "none"}
        <5>1. op \in OpType
          BY <1>1 DEF IInv, PresenceTypeOK
        <5>2. [op EXCEPT !.at = "spawn", !.mode = NoOp.mode].at = "spawn"
          BY <5>1 DEF OpType
        <5> QED BY <5>2, NoOpFacts DEF StartProxy, OpAt
      <4>5. SpawnClient => op.at = "spawn" /\ op'.at \in {"track", "none"}
        BY NoOpFacts DEF SpawnClient, OpAt, NoOp
      <4>6. TrackingEnds => op.at = "track" /\ op'.at = "none"
        BY NoOpFacts DEF TrackingEnds, OpAt
      <4>7. PrepareLaunch => op.at = "prepare" /\ UNCHANGED relayVars
        BY DEF PrepareLaunch, OpAt
      <4> QED BY <2>5, <3>1, <4>1, <4>2, <4>3, <4>4, <4>5, <4>6, <4>7 DEF Operated
    <3> QED BY <2>1, <3>2 DEF relayVars
  <2>6. CASE FinishQuit \/ ExitRequested \/ LookForRiot \/ CooldownEnds
    BY <2>1, <2>6 DEF FinishQuit, ExitRequested, LookForRiot, CooldownEnds, relayVars
  <2>7. ~(LeaveProxy \/ Exit)
    BY <1>1 DEF LeaveInv, LeaveProxy, Exit
  <2> QED BY <1>1, <2>2, <2>3, <2>4, <2>5, <2>6, <2>7 DEF Next
<1>2. ASSUME IInv, Next, CmdAt("status"), cmd'.at = "retire"
      PROVE  ~Depending
  <2>1. CASE AnswerStatus
    <3>1. ~Retires => cmd'.at \in {"none", "begin"}
      BY <2>1, NoCmdFacts, AskFacts DEF AnswerStatus, Continued, CmdDos, CmdAts
    <3> QED BY <1>2, <3>1, DependingBusy DEF Retires
  <2>2. CASE ~AnswerStatus
    <3>1. \/ cmd' = cmd \/ cmd' = NoCmd \/ cmd' = Ask("init", "startup")
          \/ CmdIdle \/ cmd = NoCmd \/ cmd.at # "status"
      BY <1>2, <2>2
      DEF Next, Chat, presenceVars, ChangePresence, AskSetup, SaveSettings, UpdatePresence,
          TryAgain, Requested, StartupMode, SaveMode, BeginSetup, AllowOnline, PrepareSetup,
          ApplyMode, RetireProxy, CmdAt, Run, Operated, PlanLaunch, PrepareLaunch, StopRiot,
          Launch, StartProxy, SpawnClient, TrackingEnds, OpStep, OpShared, FinishQuit, LeaveStep,
          ExitRequested, CloseWindow, LookForRiot, LeaveProxy, Exit, Restart, RiotToggles,
          CooldownEnds
    <3> QED BY <1>2, <3>1, NoCmdFacts, AskFacts DEF CmdIdle, CmdAt, CmdDos, CmdAts
  <2> QED BY <2>1, <2>2
<1>3. IInv /\ LeaveInv /\ [Next]_vars
      => [/\ Depending /\ proxy'.st # "on"
             => op' # op \/ events' # events \/ CmdAt("retire") \/ leave.late
          /\ CmdAt("status") /\ cmd'.at = "retire" => ~Depending]_vars
  BY <1>1, <1>2
<1> QED BY Invariance, LeaveInvariance, <1>3, PTL DEF Spec, ProxyStays

=============================================================================
