------------------------------ MODULE ChatRelay ------------------------------
(***************************************************************************)
(* LAAP's presence proxy (presence_proxy.rs, presence_protocol.rs): Riot   *)
(* reads its chat configuration through it, connects its chat to it, and   *)
(* every chat connection is relayed by a task that rewrites what Riot says *)
(* about the player.                                                       *)
(*                                                                         *)
(* A relay forwards whole stanzas.  Of what it forwards only the player's  *)
(* global presence is kept here, as the mode it was rewritten for; all     *)
(* else passes untouched.  A task may be suspended between choosing the    *)
(* mode of a stanza and having written it, while the mode changes.         *)
(***************************************************************************)
EXTENDS Naturals

CONSTANT Conns  \* the chat connections served at a time (8)

Modes == {"online", "offline"}

VARIABLES
    proxy,  \* ACTIVE: "none", "on", or "dead" when its worker ended
    conn,   \* the relays
    riot    \* "off"; "served" by the proxy; "lost" when that ended; or "plain"

relayVars == <<proxy, conn, riot>>

NoProxy == [st |-> "none", mode |-> "online", applied |-> "none", error |-> FALSE,
            routed |-> FALSE]

Closed == [open |-> FALSE, unseen |-> FALSE, picked |-> "none", shown |-> "none"]
AllClosed == [c \in Conns |-> Closed]

Connected == \E c \in Conns : conn[c].open

-----------------------------------------------------------------------------
(* The proxy as the commands see it                                        *)

\* start(), once its listeners answer
Started(mode) == [NoProxy EXCEPT !.st = "on", !.mode = mode]

\* stop_proxy(): the worker is joined, its relays with it
StopProxy(then) ==
    /\ proxy' = NoProxy
    /\ conn' = AllClosed
    /\ riot' = IF then = "served" THEN "lost" ELSE then

\* change_mode(): every relay is woken, whether or not the mode is new
ChangeMode(mode) ==
    /\ proxy' = [proxy EXCEPT !.mode = mode, !.error = FALSE]
    /\ conn' = [c \in Conns |-> IF conn[c].open THEN [conn[c] EXCEPT !.unseen = TRUE]
                               ELSE conn[c]]
    /\ UNCHANGED riot

-----------------------------------------------------------------------------
(* Riot's configuration and connections                                    *)

\* config_request(): routed to the local chat, or refused; what holds no chat
\* configuration passes
ConfigRequest ==
    /\ riot = "served" /\ proxy.st = "on"
    /\ \/ proxy' = [proxy EXCEPT !.routed = TRUE, !.error = FALSE]
       \/ proxy' = [proxy EXCEPT !.error = TRUE]
    /\ UNCHANGED <<conn, riot>>

\* serve_chat(), chat_connection(): both handshakes, and the real chat server
Connect(c) ==
    /\ riot = "served" /\ proxy.st = "on" /\ ~conn[c].open
    /\ \/ /\ proxy.routed
          /\ conn' = [conn EXCEPT ![c] = [Closed EXCEPT !.open = TRUE]]
          /\ UNCHANGED proxy
       \/ proxy' = [proxy EXCEPT !.error = TRUE] /\ UNCHANGED conn
    /\ UNCHANGED riot

\* relay_presence(): a stanza is complete; its mode is chosen
ReadPresence(c) ==
    /\ conn[c].open /\ conn[c].picked = "none"
    /\ conn' = [conn EXCEPT ![c].picked = proxy.mode]
    /\ UNCHANGED <<proxy, riot>>

\* Mutant of Written: the change seen while writing counts as handled.
WrittenSeen(r) == [r EXCEPT !.shown = r.picked, !.picked = "none", !.unseen = FALSE]

Written(r) == [r EXCEPT !.shown = r.picked, !.picked = "none"]

\* it is rewritten, written and flushed, and kept for later changes
WritePresence(c) ==
    /\ conn[c].picked # "none"
    /\ conn' = [conn EXCEPT ![c] = Written(@)]
    /\ proxy' = [proxy EXCEPT !.applied = conn[c].picked, !.error = FALSE]
    /\ UNCHANGED riot

\* the mode was changed: the last presence is said again
ModeChanged(c) ==
    /\ conn[c].unseen /\ conn[c].picked = "none"
    /\ conn' = [conn EXCEPT ![c].unseen = FALSE,
                            ![c].picked = IF conn[c].shown = "none" THEN "none" ELSE proxy.mode]
    /\ UNCHANGED <<proxy, riot>>

\* either side closes, or a stanza is malformed, too large, incomplete for 15
\* seconds or cannot be written; Connected's drop forgets what was applied
ConnectionEnds(c) == \E error \in BOOLEAN :
    /\ conn[c].open
    /\ conn' = [conn EXCEPT ![c] = Closed]
    /\ proxy' = [proxy EXCEPT !.error = @ \/ error,
                              !.applied = IF \A d \in Conns \ {c} : ~conn[d].open
                                          THEN "none" ELSE @]
    /\ UNCHANGED riot

\* one of the listeners ends, and the worker with it
ListenerStops ==
    /\ proxy.st = "on"
    /\ proxy' = [NoProxy EXCEPT !.st = "dead", !.mode = proxy.mode, !.error = TRUE]
    /\ conn' = AllClosed
    /\ riot' = IF riot = "served" THEN "lost" ELSE riot

RelayInit == proxy = NoProxy /\ conn = AllClosed

RelayTypeOK ==
    /\ proxy \in [st : {"none", "on", "dead"}, mode : Modes, applied : Modes \cup {"none"},
                  error : BOOLEAN, routed : BOOLEAN]
    /\ conn \in [Conns -> [open : BOOLEAN, unseen : BOOLEAN, picked : Modes \cup {"none"},
                           shown : Modes \cup {"none"}]]
    /\ riot \in {"off", "served", "lost", "plain"}

\* a relay that has nothing left to do
Settled(c) == conn[c].open /\ ~conn[c].unseen /\ conn[c].picked = "none"

\* "Once the session is routed, the header changes presence live by replaying
\* the latest global presence" (docs/riot-installation-and-presence.md:27): no
\* change of mode is lost between a stanza's choice of mode and its writing; a
\* relay at rest shows the mode of the proxy.
NoChangeLost == \A c \in Conns : Settled(c) => conn[c].shown \in {"none", proxy.mode}

=============================================================================
