----------------------------- MODULE LocalVault -----------------------------
(***************************************************************************)
(* The personal roster: the encrypted vault of saved logins                *)
(* (local_store/*.rs), the League Client sync that fills in a profile's    *)
(* rank and icon (profile_assets.rs), and the window that lists and edits  *)
(* profiles (useLocalAccounts.ts and the dialogs of the roster).           *)
(*                                                                         *)
(* A vault command loads the file, changes the list and saves it under one *)
(* file lock, so the disk effects of a command are one step; what differs  *)
(* between its executions is where it stopped, because the disk refused a  *)
(* write or the process died.  The window's requests, the sync's reads of  *)
(* the League Client and the roster listings interleave freely.            *)
(***************************************************************************)
EXTENDS Naturals, FiniteSets

CONSTANTS
    Ids,          \* profile ids (128 random bits: never used twice)
    Puuids,       \* Riot identities
    Kinds,        \* what the sync fills in: "rank", "icon"
    None,         \* no profile, no identity, no login
    MaxCommands,  \* bound on the commands the user gives; an old record beyond
                  \* the first counts as one
    MaxSyncs,     \* bound on the runs of the sync
    MaxRestarts   \* bound on restarts of LAAP

Anon == "anon"      \* a login whose identity cannot be detected
Empty == "empty"    \* nothing that can be signed in with again
Logins == Puuids \cup {Anon}
Values == Puuids \cup {"own", "picked"}  \* of the League login, typed, a picked image
Plain == 0   \* not encrypted; other numbers are that of the key it was encrypted with

LocalAccount == [login : Logins \cup {Empty}, puuid : Puuids \cup {None},
                 val : [Kinds -> Values], auto : [Kinds -> BOOLEAN], form : Nat, damaged : BOOLEAN]
Vaults == [Ids -> LocalAccount \cup {None}]
Details == [val : [Kinds -> Values], auto : [Kinds -> BOOLEAN]]
LocalAccountSummary == [val : [Kinds -> Values], auto : [Kinds -> BOOLEAN], has_session : BOOLEAN]
Rosters == [Ids -> LocalAccountSummary \cup {None}]

ASSUME VaultAssumption ==
    /\ None \notin Ids \cup Logins \cup {Empty} \cup Values
    /\ None \notin LocalAccount \cup LocalAccountSummary
    /\ Kinds \subseteq {"rank", "icon"}
    /\ Puuids \cap {"anon", "empty", "own", "picked"} = {}

VARIABLES
    file,        \* laap_local_accounts.json: a record per profile id
    quarantine,  \* records copied to quarantine-*.json
    key,         \* the key of the OS keychain: its number, 0 when there is none
    keys,        \* how many keys were ever made
    cached,      \* identities whose icon is in profile-assets; "picked" for uploads
    shown,       \* the profiles the roster shows (a summary per id)
    loads,       \* list_local_accounts calls in flight
    fg,          \* the dialog or command the window is busy with
    sync,        \* sync_profile_customizations and the window's use of its result
    used,        \* ids handed out so far
    owed,        \* history: the login each profile was last saved with
    inherited,   \* history: the logins of the records an earlier version left
    returned,    \* history: profiles whose account was away during a sync of
                 \* theirs and back when the sync looked again
    listFailed,  \* the roster shows an error instead of a list
    overtaken,   \* history: a list the sync read was shown over a newer one
    spent        \* commands, syncs and restarts so far

vars == <<file, quarantine, key, keys, cached, shown, loads, fg, sync,
          used, owed, inherited, returned, listFailed, overtaken, spent>>
disk == <<file, quarantine, key, keys>>
lists == <<listFailed, overtaken>>
past == <<owed, inherited, returned>>
window == <<shown, loads, fg, sync, lists>>

Present(f) == {i \in Ids : f[i] # None}

-----------------------------------------------------------------------------
(* The vault file (local_store/storage.rs, crypto.rs)                      *)

\* load_or_create() of the key, on every command: a missing entry is replaced
CurrentKey == IF key = 0 THEN keys + 1 ELSE key

LoadOrCreate == /\ key' = CurrentKey
                /\ keys' = IF key = 0 THEN keys + 1 ELSE keys

\* decrypt() fails on a damaged envelope and on another key's
Decrypts(r) == ~r.damaged /\ (r.form \in {Plain, CurrentKey} \/ r.login = Empty)

Detected(login) == IF login \in Puuids THEN login ELSE None

Bound(r) == [r EXCEPT !.puuid = IF @ = None THEN Detected(r.login) ELSE @]

Unreadable == {i \in Present(file) : ~Decrypts(file[i])}

\* what load_unlocked() returns; a record without an identity is bound to its login's
Loaded == [i \in Ids |-> IF i \in Present(file) \ Unreadable THEN Bound(file[i]) ELSE None]

LockedOut == Present(file) # {} /\ Present(file) = Unreadable

LoadChanges == \/ Unreadable # {}
               \/ \E i \in Present(Loaded) : \/ Loaded[i] # file[i]
                                             \/ file[i].form = Plain

Encrypt(r) == [r EXCEPT !.form = CurrentKey]

Encrypted(a) == [i \in Ids |-> IF a[i] = None THEN None ELSE Encrypt(a[i])]

\* Mutant of AtomicWrite: the vault is written in place.
WriteInPlace(old, new) == {old, new, [i \in Ids |-> None]}

\* a temporary file, synced, then renamed over the vault: the old or the new
AtomicWrite(old, new) == {old, new}

\* load_unlocked(): copy what cannot be read, then save what could.  It stops
\* half way (done = FALSE) with the copies made so far, or with the file saved.
Load(done) ==
    /\ LoadOrCreate
    /\ \E copied \in SUBSET Unreadable :
        /\ quarantine' = quarantine \cup {[id |-> i, was |-> file[i]] : i \in copied}
        /\ done => copied = Unreadable /\ ~LockedOut
        /\ \/ file' = file /\ (done => ~LoadChanges)
           \/ /\ copied = Unreadable /\ ~LockedOut /\ LoadChanges
              /\ file' \in AtomicWrite(file, Encrypted(Loaded))
              /\ done => file' = Encrypted(Loaded)

\* update(): load, change, save; TRUE when the new list reached the disk
Update(new) ==
    /\ LoadOrCreate
    /\ ~LockedOut
    /\ quarantine' = quarantine \cup {[id |-> i, was |-> file[i]] : i \in Unreadable}
    /\ file' = Encrypted(new)

-----------------------------------------------------------------------------
(* Profiles (local_store/manager.rs): each command returns the list it     *)
(* leaves, as a set that is empty when it refuses.                         *)

Claimed(a, puuid, i) == puuid # None /\ \E j \in Present(a) \ {i} : a[j].puuid = puuid

create_profile(a, i, d, login) ==
    IF login = Empty \/ Claimed(a, Detected(login), i) THEN {}
    ELSE {[a EXCEPT ![i] = [login |-> login, puuid |-> Detected(login), val |-> d.val,
                            auto |-> d.auto, form |-> Plain, damaged |-> FALSE]]}

\* Mutant of edit_profile: the form always wins.
EditOverwrites(a, i, d) ==
    IF a[i] = None THEN {} ELSE {[a EXCEPT ![i].auto = d.auto, ![i].val = d.val]}

\* a value the sync keeps, before and after the edit, is not the form's to change
edit_profile(a, i, d) ==
    IF a[i] = None THEN {}
    ELSE {[a EXCEPT ![i].auto = d.auto,
                    ![i].val = [k \in Kinds |-> IF a[i].auto[k] /\ d.auto[k]
                                                THEN a[i].val[k] ELSE d.val[k]]]}

\* Mutants of refresh_session: other profiles are not asked; the profile is not asked.
RefreshUnclaimed(a, i, login) ==
    IF \/ login = Empty \/ a[i] = None
       \/ Detected(login) # None /\ a[i].puuid \notin {None, Detected(login)}
    THEN {}
    ELSE {[a EXCEPT ![i].login = login,
                    ![i].puuid = IF Detected(login) # None THEN Detected(login) ELSE @]}
RefreshAny(a, i, login) ==
    IF login = Empty \/ a[i] = None \/ Claimed(a, Detected(login), i) THEN {}
    ELSE {[a EXCEPT ![i].login = login]}

refresh_session(a, i, login) ==
    IF \/ login = Empty \/ a[i] = None
       \/ Claimed(a, Detected(login), i)
       \/ Detected(login) # None /\ a[i].puuid \notin {None, Detected(login)}
    THEN {}
    ELSE {[a EXCEPT ![i].login = login,
                    ![i].puuid = IF Detected(login) # None THEN Detected(login) ELSE @]}

delete_account(a, i) == IF a[i] = None THEN {} ELSE {[a EXCEPT ![i] = None]}

apply_customization_sync(a, i, puuid, got) ==
    IF a[i] = None \/ a[i].puuid # puuid THEN a
    ELSE [a EXCEPT ![i].val = [k \in Kinds |-> IF a[i].auto[k] /\ got[k] # None
                                               THEN got[k] ELSE @[k]]]

\* session_for() then mark_played(): nothing of a profile that is modelled changes
mark_played(a, i) == IF a[i] = None \/ a[i].login = Empty THEN {} ELSE {a}

Summary(r) == [val |-> r.val, auto |-> r.auto, has_session |-> r.login # Empty]

list_summaries == [i \in Ids |-> IF Loaded[i] = None THEN None ELSE Summary(Loaded[i])]

-----------------------------------------------------------------------------
(* The window (useLocalAccounts.ts, PersonalRosterView.tsx, dialogs)       *)

Nothing == [i \in Ids |-> None]
Idle == [cmd |-> "none"]
Waiting(c) == fg.cmd = c /\ fg.at = "sent"

\* Mutant of StartLoad: every answer counts.
StartLoadAlways(in_flight) ==
    in_flight \cup {[fresh |-> TRUE, at |-> "sent", list |-> Nothing]}

\* loadAccounts(): the newest request is the one whose answer counts; an answer
\* to an older one is dropped
StartLoad(in_flight) ==
    {[l EXCEPT !.fresh = FALSE] : l \in {m \in in_flight : m.at = "sent"}} \cup
        {[fresh |-> TRUE, at |-> "sent", list |-> Nothing]}

Outdated(s) == IF s.at = "list" THEN [s EXCEPT !.fresh = FALSE] ELSE s

\* a command was carried out: remember what its profile was saved with
Carried(c, new) ==
    /\ owed' = [owed EXCEPT ![c.id] = IF new[c.id] = None THEN None ELSE new[c.id].login]
    /\ used' = used \cup {c.id}
    /\ fg' = [cmd |-> c.cmd, at |-> "done"]

\* the same, or the command failed somewhere on the way
Run(c, results) ==
    /\ \/ \E new \in results : Update(new) /\ Carried(c, new)
       \/ /\ \E done \in BOOLEAN : Load(done)
          /\ fg' = [cmd |-> c.cmd, at |-> "failed"]
          /\ UNCHANGED <<owed, used>>
    /\ UNCHANGED <<cached, shown, loads, sync, inherited, returned, lists, spent>>

SaveLocalAccount == Waiting("create") /\ Run(fg, create_profile(Loaded, fg.id, fg.d, fg.login))
DeleteLocalAccount == Waiting("delete") /\ Run(fg, delete_account(Loaded, fg.id))
RefreshLocalAccount == Waiting("refresh") /\ Run(fg, refresh_session(Loaded, fg.id, fg.login))
LaunchLocalAccount == Waiting("launch") /\ Run(fg, mark_played(Loaded, fg.id))

Spend == /\ spent.commands < MaxCommands
         /\ spent' = [spent EXCEPT !.commands = @ + 1]

Send(c) ==
    /\ fg = Idle
    /\ Spend
    /\ fg' = c
    /\ UNCHANGED <<disk, cached, shown, loads, sync, lists, used, past>>

NewDetails == [val |-> [k \in Kinds |-> "own"], auto |-> [k \in Kinds |-> TRUE]]

\* an import, or a finished sign-in, becomes a profile with a fresh id
ConfirmImport == \E i \in Ids \ used, login \in Logins \cup {Empty} :
    Send([cmd |-> "create", at |-> "sent", id |-> i, d |-> NewDetails, login |-> login])

\* the profiles the roster shows, each with everything that its card or row offers
Rows == Present(shown)

SignInAgain == \E i \in Rows, login \in Logins \cup {Empty} :
    Send([cmd |-> "refresh", at |-> "sent", id |-> i, login |-> login])

ConfirmDelete == \E i \in Rows : Send([cmd |-> "delete", at |-> "sent", id |-> i])

\* without a saved login only a retry gets here, and fails
HandleLaunch == \E i \in Rows : Send([cmd |-> "launch", at |-> "sent", id |-> i])

\* the edit dialog starts from what the roster shows, however old that is
OpenEdit == \E i \in Rows :
    Send([cmd |-> "edit", at |-> "form", id |-> i,
          d |-> [val |-> shown[i].val, auto |-> shown[i].auto]])

Editing == fg.cmd = "edit" /\ fg.at = "form"

\* save_icon(): the image is checked, scaled and written whole
SaveIcon(image) == cached' = cached \cup {image}

upload_profile_icon == SaveIcon("picked")

\* the image is on disk before the form names it
PickIcon ==
    /\ Editing
    /\ "icon" \in Kinds
    /\ upload_profile_icon
    /\ fg' = [fg EXCEPT !.d.val["icon"] = "picked", !.d.auto["icon"] = FALSE]
    /\ UNCHANGED <<disk, shown, loads, sync, lists, used, past, spent>>

\* what the user made of the form: syncs switched on or off (off is what lets a
\* field be typed in), fields typed in or removed
Submitted ==
    {[auto |-> auto, val |-> [k \in Kinds |-> IF k \in typed THEN "own" ELSE fg.d.val[k]]] :
        auto \in [Kinds -> BOOLEAN], typed \in SUBSET Kinds}

\* the form is submitted and the command carried out: what is submitted depends
\* on nothing that happens in between
EditLocalAccount ==
    /\ Editing
    /\ Run(fg, UNION {edit_profile(Loaded, fg.id, d) : d \in Submitted})

CloseEdit ==
    /\ Editing
    /\ fg' = Idle
    /\ UNCHANGED <<disk, cached, shown, loads, sync, lists, used, past, spent>>

\* the answer: success lists the profiles again, a failure only reports
Answered ==
    /\ fg # Idle /\ fg.at \in {"done", "failed"}
    /\ fg' = Idle
    /\ IF fg.at = "done" THEN loads' = StartLoad(loads) /\ sync' = Outdated(sync)
       ELSE UNCHANGED <<loads, sync>>
    /\ UNCHANGED <<disk, cached, shown, lists, used, past, spent>>

\* the roster's refresh button and the laap:refresh event
Refresh ==
    /\ Cardinality(loads) < 2
    /\ Spend
    /\ loads' = StartLoad(loads)
    /\ sync' = Outdated(sync)
    /\ UNCHANGED <<disk, cached, shown, fg, lists, used, past>>

ListLocalAccounts == \E l \in loads :
    /\ l.at = "sent"
    /\ \E answer \in {[l EXCEPT !.at = "ok", !.list = list_summaries],
                     [l EXCEPT !.at = "error"]} :
        /\ Load(answer.at = "ok")
        /\ loads' = (loads \ {l}) \cup (IF l.fresh THEN {answer} ELSE {})
    /\ UNCHANGED <<cached, shown, fg, sync, lists, used, past, spent>>

\* the profiles the sync would touch, as the window sees them: syncSignature
Signature(s) == {p \in Present(s) \X Kinds : s[p[1]].auto[p[2]]}

Listed == \E l \in loads :
    /\ l.at # "sent"
    /\ loads' = loads \ {l}
    /\ shown' = l.list
    /\ overtaken' = FALSE
    /\ listFailed' = (l.at = "error")
    /\ sync' = IF Signature(shown) # Signature(l.list)
               THEN [sync EXCEPT !.epoch = FALSE] ELSE sync
    /\ UNCHANGED <<disk, cached, fg, used, past, spent>>

-----------------------------------------------------------------------------
(* The League Client sync (profile_assets.rs, syncNow): whoever is logged  *)
(* in to League by then answers each of its questions.                     *)

NoSync == [at |-> "idle", epoch |-> TRUE, fresh |-> TRUE, id |-> None, who |-> None,
           away |-> FALSE, had |-> None, got |-> [k \in Kinds |-> None], list |-> Nothing]

SyncNow ==
    /\ sync.at = "idle" /\ fg.cmd # "launch"
    /\ Signature(shown) # {}
    /\ spent.syncs < MaxSyncs
    /\ spent' = [spent EXCEPT !.syncs = @ + 1]
    /\ sync' = [NoSync EXCEPT !.at = "identify"]
    /\ UNCHANGED <<disk, cached, shown, loads, fg, lists, used, past>>

SyncStep == UNCHANGED <<shown, loads, fg, lists, used, owed, inherited, spent>>

\* load the vault, ask the League Client who is logged in, find that profile
Identify ==
    /\ sync.at = "identify"
    /\ \/ /\ Load(TRUE)
          /\ \E i \in Present(Loaded) :
              /\ Loaded[i].puuid # None
              /\ \E k \in Kinds : Loaded[i].auto[k]
              /\ sync' = [sync EXCEPT !.at = "fetch", !.id = i, !.who = Loaded[i].puuid,
                                      !.had = [val |-> Loaded[i].val, auto |-> Loaded[i].auto]]
       \/ (\E done \in BOOLEAN : Load(done)) /\ sync' = NoSync
    /\ UNCHANGED <<cached, returned>> /\ SyncStep

\* the solo queue rank in an answer about p, if it has one that can be read
solo_rank(p) == {p, None}

\* what p's rank changes: nothing where it is not asked for or is what the
\* profile had when the sync began
FetchedRanks(p) ==
    {rank \in solo_rank(p) :
        rank # None => /\ "rank" \in Kinds /\ sync.had.auto["rank"]
                       /\ rank # sync.had.val["rank"]}

\* profile_icon(): from the cache, or downloaded into it
profile_icon(p) == SaveIcon(p)

\* the icon id came with the identity; its image is downloaded unless it is cached
FetchesIcon == /\ "icon" \in Kinds /\ sync.had.auto["icon"]
               /\ sync.had.val["icon"] # sync.who \/ sync.who \notin cached

Fetched(p, rank, icon) ==
    [sync EXCEPT !.at = "apply", !.had = None, !.away = (p # sync.who),
                 !.got = [k \in Kinds |-> IF k = "rank" THEN rank ELSE icon]]

\* the rank is that of whoever is logged in by then
Fetch ==
    /\ sync.at = "fetch"
    /\ \E p \in Puuids : \E rank \in FetchedRanks(p) :
        \/ FetchesIcon /\ profile_icon(sync.who) /\ sync' = Fetched(p, rank, sync.who)
        \/ cached' = cached /\ sync' = Fetched(p, rank, None)
    /\ UNCHANGED <<disk, returned>> /\ SyncStep

\* Mutant of Recheck: the identity is asked for once.
NoRecheck(p) == TRUE

\* "recheck identity after any slow image download; never apply results from a
\* previous login"
Recheck(p) == p = sync.who

\* what is new is applied to the vault as it is by now
ApplySync ==
    /\ sync.at = "apply"
    /\ \E p \in Puuids :
        LET new == apply_customization_sync(Loaded, sync.id, sync.who, sync.got)
            news == Recheck(p) /\ \E k \in Kinds : sync.got[k] # None
        IN /\ \/ /\ news /\ Update(new)
                 /\ sync' = IF new = Loaded THEN NoSync
                            ELSE [NoSync EXCEPT !.at = "reload", !.epoch = sync.epoch]
              \/ news /\ (\E done \in BOOLEAN : Load(done)) /\ sync' = NoSync
              \/ ~news /\ sync' = NoSync /\ UNCHANGED disk
           /\ returned' = IF sync.away /\ p = sync.who
                          THEN returned \cup {sync.id} ELSE returned
    /\ UNCHANGED cached /\ SyncStep

\* syncNow(): list quietly, unless the sync options changed meanwhile.  This
\* request has no number of its own: only the epoch can make it outdated.
SyncReload ==
    /\ sync.at = "reload"
    /\ IF sync.epoch
       THEN \/ /\ Load(TRUE)
               /\ sync' = [sync EXCEPT !.at = "list", !.list = list_summaries]
            \/ Load(FALSE) /\ sync' = NoSync
       ELSE sync' = NoSync /\ UNCHANGED disk
    /\ UNCHANGED <<cached, returned>> /\ SyncStep

SyncListed ==
    /\ sync.at = "list"
    /\ sync' = NoSync
    /\ IF sync.epoch
       THEN shown' = sync.list /\ overtaken' = (overtaken \/ ~sync.fresh)
       ELSE UNCHANGED <<shown, overtaken>>
    /\ UNCHANGED listFailed
    /\ UNCHANGED <<disk, cached, loads, fg, used, past, spent>>

-----------------------------------------------------------------------------
(* The surroundings                                                        *)

\* LAAP dies or is closed and starts again.  While it is down the keychain may
\* lose its entry, and a record of the file may be damaged.
Restart ==
    /\ spent.restarts < MaxRestarts
    /\ spent' = [spent EXCEPT !.restarts = @ + 1]
    /\ shown' = Nothing /\ fg' = Idle /\ sync' = NoSync
    /\ overtaken' = FALSE /\ listFailed' = FALSE
    /\ loads' = StartLoad({})
    /\ \/ UNCHANGED <<file, key>>
       \/ key' = 0 /\ UNCHANGED file
       \/ /\ \E i \in Present(file) : file' = [file EXCEPT ![i].damaged = TRUE]
          /\ UNCHANGED key
    /\ UNCHANGED <<quarantine, keys, cached, used, past>>

\* a profile of a version that did not encrypt its login and did not record
\* whose it is
Legacy(login) == [login |-> login, puuid |-> None, val |-> NewDetails.val,
                  auto |-> NewDetails.auto, form |-> Plain, damaged |-> FALSE]

\* Any such profiles, if any: nothing kept two of them from the same Riot account.
\* What the old version was told to save counts towards MaxCommands.
Init ==
    /\ inherited \in [Ids -> Logins \cup {None}]
    /\ file = [i \in Ids |-> IF inherited[i] = None THEN None ELSE Legacy(inherited[i])]
    /\ quarantine = {} /\ key = 0 /\ keys = 0
    /\ cached = {}
    /\ shown = Nothing /\ fg = Idle /\ sync = NoSync
    /\ loads = StartLoad({})
    /\ used = Present(file)
    /\ owed = inherited /\ returned = {}
    /\ overtaken = FALSE /\ listFailed = FALSE
    /\ spent = [commands |-> IF used = {} THEN 0 ELSE Cardinality(used) - 1,
                syncs |-> 0, restarts |-> 0]

Next ==
    \/ ConfirmImport \/ SignInAgain \/ ConfirmDelete \/ HandleLaunch \/ OpenEdit
    \/ PickIcon \/ CloseEdit \/ Answered \/ Refresh
    \/ SaveLocalAccount \/ EditLocalAccount \/ DeleteLocalAccount
    \/ RefreshLocalAccount \/ LaunchLocalAccount
    \/ ListLocalAccounts \/ Listed
    \/ SyncNow \/ Identify \/ Fetch \/ ApplySync
    \/ SyncReload \/ SyncListed
    \/ Restart

Spec == Init /\ [][Next]_vars

-----------------------------------------------------------------------------
(* Properties                                                              *)

\* Every variable has its type (the lists in flight hold what a listing returns).
TypeOK ==
    /\ file \in Vaults
    /\ \A q \in quarantine : q.id \in Ids /\ q.was \in LocalAccount
    /\ key \in 0 .. keys /\ keys \in Nat
    /\ cached \subseteq Puuids \cup {"picked"}
    /\ shown \in Rosters
    /\ \A l \in loads : l.at \in {"sent", "ok", "error"} /\ l.list \in Rosters
    /\ fg.cmd \in {"none", "create", "refresh", "delete", "launch", "edit"}
    /\ used \subseteq Ids
    /\ owed \in [Ids -> Logins \cup {Empty, None}]
    /\ inherited \in [Ids -> Logins \cup {None}] /\ returned \subseteq Ids
    /\ overtaken \in BOOLEAN /\ listFailed \in BOOLEAN

\* No login that a command acknowledged is ever lost without its profile being
\* deleted: whatever fails, and wherever the process dies, the record is in the
\* vault file or was copied to quarantine (load_unlocked, atomic_write).
LoginsSurvive == \A i \in Ids : owed[i] # None =>
    \/ file[i] # None /\ file[i].login = owed[i]
    \/ \E q \in quarantine : q.id = i /\ q.was.login = owed[i]

\* No command makes a second profile of a Riot identity, although imports and
\* sign-ins decide it from what they read and old records get theirs as they are
\* read (create_profile, refresh_session): where two profiles have one identity,
\* an earlier version saved that account's login in both (load_unlocked binds
\* each without a look at the others).
OnlyOldTwins == \A i, j \in Present(file) :
    i # j /\ file[i].puuid # None /\ file[i].puuid = file[j].puuid
    => inherited[i] = file[i].puuid /\ inherited[j] = file[i].puuid

\* A profile's login is never that of another Riot account than the profile's,
\* whichever way the login got there (refresh_session, create_profile, load_unlocked).
LoginMatchesIdentity == \A i \in Present(file) :
    file[i].puuid # None => Detected(file[i].login) \in {None, file[i].puuid}

\* A rank or icon that came from the League Client came from the profile's own
\* account, although the player may log in to another one while the sync is at
\* work ("never apply results from a previous login", profile_assets.rs).  The
\* recheck compares two moments: it misses an account that left and came back in
\* between, whose profile may then show the rank of the login it found meanwhile.
\* An icon is the profile's own even so.
LiveValuesOwn == \A i \in Present(file), k \in Kinds :
    file[i].val[k] \in Puuids => \/ file[i].val[k] = file[i].puuid
                                 \/ k = "rank" /\ i \in returned

\* A profile never names an icon whose image is not on disk (save_icon before use).
IconsCached == \A i \in Present(file) : "icon" \in Kinds =>
    file[i].val["icon"] \in cached \cup {"own"}

\* An edit made in a dialog that was opened before the sync ran does not put the
\* old rank or icon back while the profile goes on syncing (edit_profile).
LiveValuesKept == [][\A i \in Present(file), k \in Kinds :
    (/\ file[i].val[k] \in Puuids /\ file[i].auto[k]
     /\ file'[i] # None /\ file'[i].auto[k]) => file'[i].val[k] \in Puuids]_vars

\* When nothing is under way the roster shows the profiles of the vault, no more
\* and no fewer: answers of older listings do not replace newer ones.  The
\* sync's own listing carries no request number, which overtaken accounts for.
RosterFresh ==
    (/\ fg = Idle /\ loads = {} /\ sync.at = "idle" /\ ~overtaken
     /\ key # 0 /\ ~listFailed)
    => Present(shown) = Present(file) \ Unreadable
=============================================================================
