----------------------------- MODULE AdminPages -----------------------------
(***************************************************************************)
(* The three working pages of the admin console (apps/admin/src/pages):    *)
(* the account pool, the people and who may use which account.             *)
(*                                                                         *)
(* Each page holds a list that it reads again every 20 seconds, when the   *)
(* console loses or finds the API, on Retry and after every change of its  *)
(* own.  Any number of these reads and of the calls that make changes are  *)
(* under way at a time.  What a callback does, it does with the values of  *)
(* the rendering it was made in: whether the console was offline, and      *)
(* whether a person was chosen.                                            *)
(*                                                                         *)
(* The team's data is the number of changes made to it so far; a list is   *)
(* the number it was read at, 0 when nothing is shown.                     *)
(***************************************************************************)
EXTENDS Naturals

CONSTANTS
    Persons,      \* who can be given an account: the users but the admins
    First,        \* the first of them in the answers of the API
    Grants,       \* assignments that can be revoked
    Slots,        \* bound: reads and calls under way at a time
    None,
    MaxElsewhere, \* bound on the changes that other clients make
    MaxJobs,      \* bound on the changes begun on these pages
    MaxFaults     \* bound on reads that fail

Kinds == {"Account pool", "Assignments", "Users"}
Dialogs == {"edit", "confirm"}

ASSUME AdminAssumption ==
    /\ First \in Persons /\ Slots # {}
    /\ None \notin Persons \cup Grants \cup Slots \cup Kinds \cup Dialogs
    /\ MaxElsewhere \in Nat /\ MaxJobs \in Nat /\ MaxFaults \in Nat

VARIABLES
    commits,   \* changes made to the team's data, the first before any page
    kind,      \* the page that is mounted
    offline,   \* what the console says of the API
    at,        \* the list that is shown
    loading, error,
    missed,    \* the last read of the assignments failed, which only a toast says
    flight,    \* reads and calls under way
    latest,    \* the read whose version is requestVersion.current
    saving, revoking,
    dialog,    \* the dialog that covers the page
    chosen,    \* selectedUserId
    blank,     \* nobody was chosen when the timer was set
    acked,     \* history: the newest change this page was told of
    begun, elsewhere, faults

page == <<kind, offline, at, loading, error, missed, latest>>
forms == <<saving, revoking, dialog>>
person == <<chosen, blank>>
bounds == <<begun, elsewhere, faults>>
vars == <<commits, page, flight, forms, person, acked, bounds>>

SavingJobs == {"create", "edit", "confirm", "grant"}
Jobs == SavingJobs \cup {"revoke"}

\* A slot of `flight`: a job's calls ("call", `left` of them not made yet), then
\* the read that follows it, or a read of its own ("asked", "read").  off and
\* blank are the closure's.
Free == [stage |-> "free", by |-> "none", left |-> 0, at |-> 0,
         off |-> FALSE, blank |-> FALSE, to |-> None]
Call(by, n, to) == [stage |-> "call", by |-> by, left |-> n, at |-> 0,
                    off |-> offline, blank |-> chosen = None, to |-> to]
Asked(by, b) == [Free EXCEPT !.stage = "asked", !.by = by, !.blank = b]

Room == \E s \in Slots : flight[s] = Free
FreeSlot == CHOOSE s \in Slots : flight[s] = Free

Reading(s) == flight[s].stage \in {"asked", "read"}
Saves(s) == flight[s].by \in SavingJobs

-----------------------------------------------------------------------------
(* refresh(): the read r in slot s, unless the closure's offline is set.   *)
(* Every earlier read is stale from now on.                                *)

request(s, r, off) ==
    IF off
    THEN /\ flight' = [flight EXCEPT ![s] = Free]
         /\ latest' = None /\ loading' = FALSE /\ error' = TRUE
    ELSE /\ flight' = [flight EXCEPT ![s] = r]
         /\ latest' = s /\ loading' = TRUE /\ error' = FALSE

\* The page of the assignments shows nothing and nobody when it is offline.
refresh(s, r, off) ==
    /\ request(s, r, off)
    /\ IF off /\ kind = "Assignments"
       THEN at' = 0 /\ chosen' = None
       ELSE UNCHANGED <<at, chosen>>

\* The finally of a job: its calls and its read have ended.
Done(s) ==
    /\ saving' = (saving /\ ~Saves(s))
    /\ revoking' = IF flight[s].by = "revoke" THEN None ELSE revoking

\* GET: the API answers with its data as they are.
Read(s) ==
    /\ flight[s].stage = "asked"
    /\ flight' = [flight EXCEPT ![s].stage = "read", ![s].at = commits]
    /\ UNCHANGED <<commits, page, forms, person, acked, bounds>>

\* Mutant of Deliver: without the comparison with requestVersion.
DeliverAny(s) ==
    /\ flight[s].stage = "read"
    /\ flight' = [flight EXCEPT ![s] = Free]
    /\ Done(s)
    /\ at' = flight[s].at /\ loading' = FALSE /\ missed' = FALSE
    /\ latest' = IF latest = s THEN None ELSE latest
    /\ chosen' = IF kind = "Assignments" /\ flight[s].blank THEN First ELSE chosen
    /\ UNCHANGED <<commits, kind, offline, error, dialog, blank, acked, bounds>>

\* Mutant of Deliver: a job is over only when its read is the latest.
DeliverStuck(s) ==
    /\ flight[s].stage = "read"
    /\ flight' = [flight EXCEPT ![s] = Free]
    /\ IF latest = s
       THEN /\ Done(s)
            /\ at' = flight[s].at /\ loading' = FALSE /\ missed' = FALSE
            /\ latest' = None
            /\ chosen' = IF kind = "Assignments" /\ flight[s].blank THEN First ELSE chosen
       ELSE UNCHANGED <<at, loading, missed, latest, chosen, saving, revoking>>
    /\ UNCHANGED <<commits, kind, offline, error, dialog, blank, acked, bounds>>

\* The answer arrives.  A stale one changes nothing but ends its own job.
Deliver(s) ==
    /\ flight[s].stage = "read"
    /\ flight' = [flight EXCEPT ![s] = Free]
    /\ Done(s)
    /\ IF latest = s
       THEN /\ at' = flight[s].at /\ loading' = FALSE /\ missed' = FALSE
            /\ latest' = None
            /\ chosen' = IF kind = "Assignments" /\ flight[s].blank THEN First ELSE chosen
       ELSE UNCHANGED <<at, loading, missed, latest, chosen>>
    /\ UNCHANGED <<commits, kind, offline, error, dialog, blank, acked, bounds>>

\* No answer in 12 seconds, or a refusal: an error on the page, of the
\* assignments only a toast.
ReadFails(s) ==
    /\ Reading(s) /\ faults < MaxFaults
    /\ faults' = faults + 1
    /\ flight' = [flight EXCEPT ![s] = Free]
    /\ Done(s)
    /\ IF latest = s
       THEN /\ loading' = FALSE /\ latest' = None
            /\ error' = (kind # "Assignments") /\ missed' = (kind = "Assignments")
       ELSE UNCHANGED <<loading, latest, error, missed>>
    /\ UNCHANGED <<commits, kind, offline, at, dialog, person, acked, begun, elsewhere>>

\* Mutant of Tick: nothing is read again under an error.
TickUnlessError ==
    /\ kind # None /\ Room /\ ~error
    /\ \A s \in Slots : flight[s].by # "tick"
    /\ refresh(FreeSlot, Asked("tick", blank), offline)
    /\ UNCHANGED <<commits, kind, offline, missed, forms, blank, acked, bounds>>

\* The timer: the effect's closure.  A read of 12 seconds is over by then.
Tick ==
    /\ kind # None /\ Room
    /\ \A s \in Slots : flight[s].by # "tick"
    /\ refresh(FreeSlot, Asked("tick", blank), offline)
    /\ UNCHANGED <<commits, kind, offline, missed, forms, blank, acked, bounds>>

Retry ==
    /\ kind # None /\ Room
    /\ error /\ ~loading
    /\ refresh(FreeSlot, Asked("retry", chosen = None), offline)
    /\ UNCHANGED <<commits, kind, offline, missed, forms, blank, acked, bounds>>

-----------------------------------------------------------------------------
(* A change: the calls of a job, and what follows                          *)

Begin(by, n, to) ==
    /\ Room /\ begun < MaxJobs
    /\ begun' = begun + 1
    /\ flight' = [flight EXCEPT ![FreeSlot] = Call(by, n, to)]
    /\ UNCHANGED <<commits, page, dialog, acked, elsewhere, faults>>

Submits(by, n, to) ==
    /\ Begin(by, n, to)
    /\ saving' = TRUE /\ UNCHANGED <<revoking, person>>

\* The API makes the change of one call.
Commit(s) ==
    /\ flight[s].stage = "call" /\ flight[s].left > 0
    /\ commits' = commits + 1
    /\ flight' = [flight EXCEPT ![s].left = @ - 1, ![s].at = commits']
    /\ UNCHANGED <<page, forms, person, acked, bounds>>

\* Mutant of Succeeds: the list is left for the timer to read.
SucceedsOnly(s) ==
    LET f == flight[s] IN
    /\ f.stage = "call" /\ f.left = 0
    /\ acked' = IF f.at > acked THEN f.at ELSE acked
    /\ dialog' = IF dialog = f.by THEN None ELSE dialog
    /\ flight' = [flight EXCEPT ![s] = Free]
    /\ Done(s)
    /\ UNCHANGED <<commits, page, person, bounds>>

\* All calls were answered: the form closes and the list is read again.
Succeeds(s) ==
    LET f == flight[s] IN
    /\ f.stage = "call" /\ f.left = 0
    /\ acked' = IF f.at > acked THEN f.at ELSE acked
    /\ dialog' = IF dialog = f.by THEN None ELSE dialog
    /\ refresh(s, [f EXCEPT !.stage = "asked"], f.off)
    /\ IF f.off THEN Done(s) ELSE UNCHANGED <<saving, revoking>>
    /\ UNCHANGED <<commits, kind, offline, missed, blank, bounds>>

\* One call is refused or given up: a toast, whatever the others have changed.
CallFails(s) ==
    /\ flight[s].stage = "call"
    /\ flight' = [flight EXCEPT ![s] = Free]
    /\ Done(s)
    /\ UNCHANGED <<commits, page, dialog, person, acked, bounds>>

Proceeds(s) ==
    Read(s) \/ Deliver(s) \/ ReadFails(s) \/ Commit(s) \/ Succeeds(s) \/ CallFails(s)

-----------------------------------------------------------------------------
(* The account pool (AccountsPage.tsx), for an admin                       *)

\* The form for a new account can be opened at any time.
createReady == kind = "Account pool" /\ ~saving /\ ~offline
accountRows == kind = "Account pool" /\ at # 0
editReady == kind = "Account pool" /\ dialog = "edit" /\ ~saving /\ ~offline

\* The one form that can be sent while the console is offline.
confirmReady == kind = "Account pool" /\ dialog = "confirm" /\ ~saving

createAccount == createReady /\ Submits("create", 1, None)
updateAccount == editReady /\ Submits("edit", 1, None)
confirmAction == confirmReady /\ Submits("confirm", 1, None)

openAccount == accountRows /\ dialog' \in Dialogs

-----------------------------------------------------------------------------
(* The people (UsersPage.tsx)                                              *)

personReady == kind = "Users" /\ ~saving /\ ~offline
personRows == kind = "Users" /\ at # 0
personEditReady == kind = "Users" /\ dialog = "edit" /\ ~saving /\ ~offline

createUser == personReady /\ Submits("create", 1, None)

\* What is new of the person, then the password if one was typed
updateUser == personEditReady /\ \E n \in {1, 2} : Submits("edit", n, None)

openUser == personRows /\ dialog' = "edit"

\* A dialog opens, and closes, also over a job: the one that asks for a
\* confirmation stays until the job is over.
Dialog ==
    /\ \/ dialog = None /\ (openAccount \/ openUser)
       \/ dialog = "edit" /\ dialog' = None
       \/ dialog = "confirm" /\ ~saving /\ dialog' = None
    /\ UNCHANGED <<commits, page, flight, saving, revoking, person, acked, bounds>>

-----------------------------------------------------------------------------
(* Who may use which account (AssignmentsPage.tsx)                         *)

People == kind = "Assignments" /\ at # 0

\* The person whose accounts are shown: the chosen one, else the first
selectedUser == IF chosen = None THEN First ELSE chosen

\* A click in the list of the people
select(p) ==
    /\ People
    /\ chosen' = p
    /\ UNCHANGED <<commits, page, flight, forms, blank, acked, bounds>>

grantReady == People /\ ~saving /\ ~offline
revokeReady(g) == People /\ revoking # g /\ ~offline

\* All accounts that were ticked in the form, at once
handleGrantAccess == grantReady /\ \E n \in {1, 2} : Submits("grant", n, selectedUser)

handleRevoke(g) ==
    /\ revokeReady(g)
    /\ Begin("revoke", 1, g)
    /\ revoking' = g /\ UNCHANGED <<saving, person>>

-----------------------------------------------------------------------------
(* The console around the page (App.tsx)                                   *)

\* A page is opened, the account pool with the accounts of the dashboard.
Mount(k) ==
    /\ kind = None
    /\ kind' = k /\ at' \in (IF k = "Account pool" THEN 1 .. commits ELSE {0})
    /\ blank' = TRUE
    /\ request(FreeSlot, Asked("tick", TRUE), offline)
    /\ UNCHANGED <<commits, offline, missed, forms, chosen, acked, bounds>>

\* It is left: the answers to what is under way change nothing any more.
Unmount ==
    /\ kind # None
    /\ kind' = None /\ at' = 0 /\ loading' = TRUE /\ error' = FALSE /\ missed' = FALSE
    /\ flight' = [s \in Slots |-> Free] /\ latest' = None
    /\ saving' = FALSE /\ revoking' = None /\ dialog' = None
    /\ chosen' = None /\ blank' = TRUE /\ acked' = 0
    /\ UNCHANGED <<commits, offline, bounds>>

\* The dashboard's poll fails, or succeeds again: the page's effect is set up
\* anew, and reads.
setOffline ==
    /\ offline' = ~offline
    /\ IF kind = None
       THEN UNCHANGED <<kind, at, loading, error, missed, latest, flight, person>>
       ELSE /\ Room
            /\ blank' = (chosen = None)
            /\ refresh(FreeSlot, Asked("tick", chosen = None), ~offline)
            /\ UNCHANGED <<kind, missed>>
    /\ UNCHANGED <<commits, forms, acked, bounds>>

\* Another client's change, or one that a page that was left had sent
Elsewhere ==
    /\ elsewhere < MaxElsewhere
    /\ elsewhere' = elsewhere + 1
    /\ commits' = commits + 1
    /\ UNCHANGED <<page, flight, forms, person, acked, begun, faults>>

Init ==
    /\ commits = 1 /\ kind = None /\ offline = FALSE
    /\ at = 0 /\ loading = TRUE /\ error = FALSE /\ missed = FALSE
    /\ flight = [s \in Slots |-> Free] /\ latest = None
    /\ saving = FALSE /\ revoking = None /\ dialog = None
    /\ chosen = None /\ blank = TRUE /\ acked = 0
    /\ begun = 0 /\ elsewhere = 0 /\ faults = 0

Next ==
    \/ \E k \in Kinds : Mount(k)
    \/ Unmount \/ setOffline \/ Elsewhere
    \/ Tick \/ Retry \/ Dialog
    \/ \E s \in Slots : Proceeds(s)
    \/ createAccount \/ updateAccount \/ confirmAction
    \/ createUser \/ updateUser
    \/ handleGrantAccess
    \/ \E p \in Persons : select(p)
    \/ \E g \in Grants : handleRevoke(g)

Spec == Init /\ [][Next]_vars

\* The timer goes off while the page is there; every read and every call ends,
\* after 12 seconds at the latest.
FairSpec == Spec /\ WF_vars(Tick) /\ \A s \in Slots : WF_vars(Proceeds(s))

-----------------------------------------------------------------------------
(* Properties                                                              *)

Flights ==
    [stage : {"free", "call", "asked", "read"}, by : {"none", "tick", "retry"} \cup Jobs,
     left : Nat, at : Nat, off : BOOLEAN, blank : BOOLEAN,
     to : {None} \cup Persons \cup Grants]

TypeOK ==
    /\ commits \in Nat /\ kind \in Kinds \cup {None} /\ offline \in BOOLEAN
    /\ at \in Nat /\ loading \in BOOLEAN /\ error \in BOOLEAN /\ missed \in BOOLEAN
    /\ flight \in [Slots -> Flights] /\ latest \in Slots \cup {None}
    /\ saving \in BOOLEAN /\ revoking \in Grants \cup {None} /\ dialog \in Dialogs \cup {None}
    /\ chosen \in Persons \cup {None} /\ blank \in BOOLEAN
    /\ acked \in Nat
    /\ begun \in 0 .. MaxJobs /\ elsewhere \in 0 .. MaxElsewhere /\ faults \in 0 .. MaxFaults

\* A list never gives way to an older one while its page is there, whatever
\* answers overtake each other (requestVersion, initialAccounts).
ListNeverBackwards ==
    [][kind # None /\ kind' = kind /\ at' # 0 => at <= at']_vars

\* A list that is shown as neither loading nor failed has every change that this
\* page was told of.
OwnChangeShown ==
    kind # None /\ ~loading /\ ~error /\ ~missed => acked <= at

\* The buttons of the forms are off exactly while one job or the read after it is
\* under way, so no form is sent twice; and a revocation shown as under way is.
FormsFree ==
    /\ saving <=> \E s \in Slots : Saves(s)
    /\ \A s, t \in Slots : Saves(s) /\ Saves(t) => s = t
    /\ revoking # None =>
         \E s \in Slots : flight[s].by = "revoke" /\ flight[s].to = revoking

\* A page that stays open and online shows every change in the end: the list is
\* up to date again and again.
ListCatchesUp == []<>(kind = None \/ offline \/ at = commits)
=============================================================================
