--------------------------- MODULE ApiPersistence ---------------------------
(***************************************************************************)
(* The local team API's database and its file (apps/api/src/db/database.ts *)
(* and seed.ts, with the request handler, the reaper and the shutdown of   *)
(* server.ts).                                                             *)
(*                                                                         *)
(* sql.js keeps the database in memory.  save() exports a copy of it at    *)
(* once; the copies are written one after another, each to a temporary     *)
(* file that is renamed over the database file.  An answer does not wait   *)
(* for the copy of its change, except those of the lease operations, which *)
(* save inside transaction().                                              *)
(*                                                                         *)
(* A database is the set of changes made to it: each is one transaction or *)
(* statement and is made once.  A handler runs from one wait for the disk  *)
(* to the next in one step.                                                *)
(***************************************************************************)
EXTENDS Naturals, Sequences

CONSTANTS
    Changes,    \* what requests, the reaper and a dashboard change
    Seed,       \* the rows that seedDatabase() makes
    Torn,       \* a temporary file written in part
    MaxSaves,   \* bound on copies waiting behind one another
    MaxDeaths,  \* bound on processes that die
    MaxFailures \* bound on file operations that fail

ASSUME PersistenceAssumption ==
    /\ Seed \notin Changes
    /\ Changes \cap {"open", "seed", "close", "reaper", "nobody"} = {}
    /\ MaxSaves \in Nat /\ MaxDeaths \in Nat /\ MaxFailures \in Nat

Databases == SUBSET (Changes \cup {Seed})

VARIABLES
    proc,     \* the API's process
    mem,      \* the database in its memory
    saves,    \* the copies on their way to the file, oldest first, and who waits
    phase,    \* how far the oldest of them is
    broken,   \* savePromise is rejected, and so is every later one
    file,     \* the database file; without one there is nothing in it
    tmp,      \* the temporary file
    answer,   \* of each change: how it was made and answered
    deaths, failures

vars == <<proc, mem, saves, phase, broken, file, tmp, answer, deaths, failures>>
disk == <<file, tmp>>
bounds == <<deaths, failures>>

Processes == {"down", "opening", "seeding", "up", "closing", "closed", "stuck"}
Phases == {"write", "rename", "chmod"}

\* "saving" waits inside transaction(); nobody asked for what is "made";
\* "forgotten" was answered with ok and is not in the file of a process that ended.
Answers == {"none", "saving", "ok", "error", "made", "lost", "forgotten"}

\* Who waits for a copy: a handler inside transaction() by its change
Savers == {"open", "seed", "close", "reaper", "nobody"} \cup Changes
Save(who, what) == [by |-> who, what |-> what]

Serving == proc \in {"up", "closing", "stuck"}

\* A change that can still be made, and the answer to it
Fresh(c) == Serving /\ answer[c] = "none" /\ Len(saves) < MaxSaves
Answer(c, a) == answer' = [answer EXCEPT ![c] = a]

\* The process is gone, and with it what was not in the file.
Ends ==
    /\ proc' = "down" /\ mem' = {} /\ saves' = <<>> /\ phase' = "write"
    /\ broken' = FALSE
    /\ answer' = [c \in Changes |->
         IF answer[c] = "saving" THEN "lost"
         ELSE IF answer[c] = "ok" /\ c \notin file THEN "forgotten"
         ELSE answer[c]]

-----------------------------------------------------------------------------
(* save(): a copy of the moment, behind those on their way                 *)

\* Mutant of save: savePromise is not chained, and a small copy overtakes.
saveOvertakes(who, what) ==
    saves' = IF broken THEN <<>> ELSE <<Save(who, what)>> \o saves

\* Mutant of save: none is made while another is under way.
saveCoalesced(who, what) ==
    saves' = IF broken THEN <<>>
             ELSE IF who = "nobody" /\ saves # <<>> THEN saves
             ELSE Append(saves, Save(who, what))

save(who, what) ==
    saves' = IF broken THEN <<>> ELSE Append(saves, Save(who, what))

Copying == saves # <<>>

writeFile ==
    /\ Copying /\ phase = "write"
    /\ tmp' = Head(saves).what /\ phase' = "rename"
    /\ UNCHANGED <<proc, mem, saves, broken, file, answer, bounds>>

rename ==
    /\ Copying /\ phase = "rename"
    /\ file' = tmp /\ tmp' = {} /\ phase' = "chmod"
    /\ UNCHANGED <<proc, mem, saves, broken, answer, bounds>>

\* seedDatabase(), unless there are users: its rows, then a copy
seedDatabase ==
    IF Seed \in mem
    THEN proc' = "up" /\ saves' = Tail(saves) /\ UNCHANGED mem
    ELSE /\ proc' = "seeding" /\ mem' = mem \cup {Seed}
         /\ saves' = Append(Tail(saves), Save("seed", mem'))

\* The oldest copy is in place: who waited for it goes on.
chmod ==
    /\ Copying /\ phase = "chmod"
    /\ phase' = "write"
    /\ \/ /\ Head(saves).by = "open" /\ seedDatabase
          /\ UNCHANGED answer
       \/ /\ Head(saves).by = "seed" /\ proc' = "up"
          /\ saves' = Tail(saves) /\ UNCHANGED <<mem, answer>>
       \/ \* close() goes on to database.close(): nothing is exported any more
          /\ Head(saves).by = "close" /\ proc' = "closed"
          /\ saves' = Tail(saves) /\ UNCHANGED <<mem, answer>>
       \/ /\ Head(saves).by \in {"reaper", "nobody"}
          /\ saves' = Tail(saves) /\ UNCHANGED <<proc, mem, answer>>
       \/ \* transaction() returns, and the server saves once more.
          \E c \in Changes :
            /\ Head(saves).by = c /\ Answer(c, "ok")
            /\ saves' = IF proc = "closed" THEN Tail(saves)
                        ELSE Append(Tail(saves), Save("nobody", mem))
            /\ UNCHANGED <<proc, mem>>
    /\ UNCHANGED <<broken, disk, bounds>>

\* One copy fails: nothing catches that, so every copy behind it and every
\* later one fails too.
saveFails ==
    LET waits(who) == \E i \in DOMAIN saves : saves[i].by = who IN
    /\ Copying /\ failures < MaxFailures
    /\ failures' = failures + 1
    /\ IF phase = "write" THEN tmp' \in {tmp, Torn} ELSE UNCHANGED tmp
    /\ IF waits("open") \/ waits("seed") \/ waits("reaper")
       THEN Ends
       ELSE /\ broken' = TRUE /\ saves' = <<>> /\ phase' = "write"
            /\ proc' = IF waits("close") THEN "stuck" ELSE proc
            /\ answer' = [c \in Changes |->
                 IF answer[c] = "saving" THEN "error" ELSE answer[c]]
            /\ UNCHANGED mem
    /\ UNCHANGED <<file, deaths>>

-----------------------------------------------------------------------------
(* The process                                                             *)

\* AppDatabase.open(): the file as it is, saved before anything else happens
open ==
    /\ proc = "down"
    /\ proc' = "opening" /\ mem' = file
    /\ saves' = <<Save("open", file)>>
    /\ UNCHANGED <<phase, broken, disk, answer, bounds>>

\* SIGTERM, SIGINT: close() waits for a copy while requests are served.  When it
\* fails the process stays, without its reaper.
close ==
    /\ proc = "up"
    /\ proc' = IF broken THEN "stuck" ELSE "closing"
    /\ save("close", mem)
    /\ UNCHANGED <<mem, phase, broken, disk, answer, bounds>>

\* Mutant of exit: process.exit(), whatever is left.
exitAtOnce ==
    /\ proc = "closed"
    /\ Ends
    /\ UNCHANGED <<disk, bounds>>

\* The server has closed; node ends when nothing is left to do.
exit ==
    /\ proc = "closed" /\ ~Copying
    /\ Ends
    /\ UNCHANGED <<disk, bounds>>

Dies ==
    /\ proc # "down" /\ deaths < MaxDeaths
    /\ deaths' = deaths + 1
    /\ IF Copying /\ phase = "write" THEN tmp' \in {tmp, Torn} ELSE UNCHANGED tmp
    /\ Ends
    /\ UNCHANGED <<file, failures>>

-----------------------------------------------------------------------------
(* What makes changes                                                      *)

\* A handler that changes the database (transactionSync() or run()): the answer
\* is sent, then the copy is made, and its failure reaches nobody.
transactionSync(c) ==
    /\ Fresh(c)
    /\ mem' = mem \cup {c} /\ Answer(c, "ok")
    /\ save("nobody", mem')
    /\ UNCHANGED <<proc, phase, broken, disk, bounds>>

\* acquireLease, releaseLease, heartbeatLease: committed, then saved before the
\* answer.  When the save fails there is no transaction left to roll back.
transaction(c) ==
    /\ Fresh(c)
    /\ mem' = mem \cup {c}
    /\ Answer(c, IF broken THEN "error" ELSE "saving")
    /\ save(c, mem')
    /\ UNCHANGED <<proc, phase, broken, disk, bounds>>

\* The handler refuses, or throws since the database is closed.
Refused(c) ==
    /\ Serving \/ proc = "closed"
    /\ answer[c] = "none" /\ Answer(c, "error")
    /\ UNCHANGED <<proc, mem, saves, phase, broken, disk, bounds>>

\* GET session-blob encrypts an old blob anew and makes no copy of it.
getAccountSessionBlob(c) ==
    /\ Fresh(c)
    /\ mem' = mem \cup {c} /\ Answer(c, "made")
    /\ UNCHANGED <<proc, saves, phase, broken, disk, bounds>>

\* The reaper of the server and GET dashboard: nobody takes the failure of this
\* copy, which ends the process.
reapStaleSessions(c) ==
    /\ Fresh(c)
    /\ IF broken
       THEN Ends
       ELSE /\ mem' = mem \cup {c} /\ Answer(c, "made")
            /\ save("reaper", mem')
            /\ UNCHANGED <<proc, phase, broken>>
    /\ UNCHANGED <<disk, bounds>>

\* A POST that changes nothing (logout) is followed by a copy as well.
SavedForNothing ==
    /\ Serving /\ ~broken /\ Len(saves) < MaxSaves
    /\ save("nobody", mem)
    /\ UNCHANGED <<proc, mem, phase, broken, disk, answer, bounds>>

routeRequest ==
    \/ SavedForNothing
    \/ \E c \in Changes :
         \/ transactionSync(c) \/ transaction(c) \/ Refused(c)
         \/ getAccountSessionBlob(c) \/ reapStaleSessions(c)

-----------------------------------------------------------------------------
Init ==
    /\ proc = "down" /\ mem = {} /\ saves = <<>> /\ phase = "write"
    /\ broken = FALSE
    /\ file = {} /\ tmp = {}
    /\ answer = [c \in Changes |-> "none"]
    /\ deaths = 0 /\ failures = 0

saveStep == writeFile \/ rename \/ chmod

Next ==
    \/ open \/ close \/ exit \/ Dies
    \/ saveStep \/ saveFails
    \/ routeRequest

Spec == Init /\ [][Next]_vars

-----------------------------------------------------------------------------
(* Properties                                                              *)

TypeOK ==
    /\ proc \in Processes /\ mem \in Databases
    /\ saves \in Seq([by : Savers, what : Databases])
    /\ phase \in Phases /\ broken \in BOOLEAN
    /\ file \in Databases /\ tmp \in Databases \cup {Torn}
    /\ answer \in [Changes -> Answers]
    /\ deaths \in 0 .. MaxDeaths /\ failures \in 0 .. MaxFailures

\* The file never goes back: whatever is in it stays, through saves that
\* overtake each other's requests, failed writes, deaths and restarts.
FileNeverBack == [][file \subseteq file']_vars

\* A crash takes back the newest changes and no others: the file is the database
\* as it was at one moment, not a mixture of moments, not a part of one and not
\* an earlier one than before.
Store == INSTANCE DurableStore WITH
             Changes <- Changes \cup {Seed},
             mem <- IF proc = "down" THEN file ELSE mem,
             copies <- {saves[i].what : i \in DOMAIN saves}
CrashKeepsPrefix == Store!Spec

\* While the process lives and its disk has not failed, what was answered with
\* ok is in the file or in a copy on its way there (server.ts sends the answer
\* first and saves afterwards).
AckedOnTheWay ==
    proc # "down" /\ ~broken =>
        \A c \in Changes : answer[c] = "ok" =>
            c \in file \/ \E i \in DOMAIN saves : c \in saves[i].what

\* Only a process that died or a disk that failed forgets what was answered with
\* ok: a shutdown in order, during which requests are served, does not.
OrderlyKeepsAcked ==
    deaths = 0 /\ failures = 0 => \A c \in Changes : answer[c] # "forgotten"

\* A lease operation that waited for its copy is answered with ok when the file
\* has its change: it is the one answer a crash cannot take back.
LeaseAnswersFromFile ==
    [][\A c \in Changes :
         answer[c] = "saving" /\ answer'[c] = "ok" => c \in file]_vars

\* Requests are served when the first users are in the file.
ServesSeeded == Serving => Seed \in file
=============================================================================
