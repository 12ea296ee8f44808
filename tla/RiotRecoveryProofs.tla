------------------------- MODULE RiotRecoveryProofs -------------------------
(***************************************************************************)
(* The player's settings survive, for any number of processes, files,      *)
(* logins, deaths and failed writes.                                       *)
(***************************************************************************)
EXTENDS RiotSettingsProofs

\* The environment of the proof: the recovery pass comes first after a death
\* of LAAP, no Riot process appears while a command works, deletions succeed.
Calm == Early = "nothing" /\ RiotWaits /\ Faults \subseteq {"write"}

Inv == TypeOK /\ OpInv /\ LockInv /\ SafeInv /\ HeldInv

-----------------------------------------------------------------------------
(* Steps that leave the settings and LAAP's copies of them alone.          *)

SameCopies == UNCHANGED <<file, backup, managed, missing, snap, own>>

LEMMA SameRecoverable == ASSUME Recoverable, SameCopies PROVE Recoverable'
  BY DEF Recoverable, RecoversOwn, SameCopies

\* The marker accounts for every file.
Complete == managed => \A f \in Files : backup[f] # None \/ f \in missing

LEMMA SameFull ==
    ASSUME FullInv, SameCopies,
           \/ op'.at \notin {"drop", "unmark"} /\ ~crashed'
           \/ op'.at # "idle" /\ op'.goal = "switch"
           => Complete
    PROVE  FullInv'
  BY DEF FullInv, SameCopies, Complete

\* Every staging directory belongs to a live sandbox.
Staged == \A d \in Dirs : snap[d].on => \E i \in Instances : staging[i] = d

LEMMA NothingStaged ==
    ASSUME Stopped, Staged, TypeOK
    PROVE  NoDirs
  BY NoneAssumption DEF Stopped, Staged, NoDirs

\* A command that stops half-way, anywhere but while it builds or removes a
\* directory, leaves no directory nobody knows of.
LEMMA AbortStaged ==
    ASSUME Inv, ~crashed, op.at \notin {"idle", "snap", "manifest", "clear", "rmdir"}
    PROVE  Staged
<1> USE DEF Inv, SafeInv
<1>1. CASE NoDirs
  BY <1>1 DEF NoDirs, Staged
<1>2. CASE op.goal = "recover"
  BY <1>2 DEF DirInv, Staged
<1>3. CASE \/ op.goal = "finish" \/ op.goal = "complete" \/ op.goal = "shutdown"
           \/ op.at = "launch" /\ op.goal = "start"
  <2>1. op.by \in Instances /\ staging[op.by] = op.cur /\ op.cur # None
    BY <1>3 DEF OpInv, LockInv
  <2>2. op.cur \in Dirs /\ snap[op.cur].on
    BY <2>1 DEF DirInv, TypeOK
  <2> QED BY <2>1, <2>2 DEF DirInv, Staged
<1>4. CASE \/ op.goal = "switch" \/ op.goal = "cleanup"
           \/ op.goal = "start" /\ op.at # "launch"
  <2>1. op.goal = "start" => op.at \in {"stop", "mkdir", "launch"}
    <3>1. op.at \in Labels
      BY OpFields DEF OpType
    <3> QED BY <3>1 DEF OpInv, Labels
  <2>2. NoDirs
    BY <1>4, <2>1 DEF DirInv
  <2> QED BY <1>1, <2>2
<1>5. CASE op.goal = "undo" \/ op.goal = "none"
  <2>1. op.goal # "undo"
    BY DEF DirInv
  <2>2. op.at \in Labels
    BY OpFields DEF OpType
  <2> QED BY <1>5, <2>1, <2>2 DEF OpInv, Labels
<1>6. op.goal \in Goals
  BY OpFields DEF OpType
<1> QED BY <1>2, <1>3, <1>4, <1>5, <1>6 DEF Goals

\* A command that returns early.
LEMMA IdleSafe ==
    ASSUME Inv, SameCopies, op' = Idle, staging' = staging,
           ~crashed' => Staged /\ Complete
    PROVE  SafeInv'
<1> USE IdleFields DEF Inv, SafeInv
<1>1. Recoverable'
  BY SameRecoverable
<1>2. FullInv'
  BY SameFull
<1>3. DirInv'
  BY DEF DirInv, SameCopies, Staged
<1>4. LoopInv'
  BY DEF LoopInv
<1> QED BY <1>1, <1>2, <1>3, <1>4

\* A command begins.
LEMMA BeginSafe ==
    ASSUME Inv, NEW i \in Instances, CanAcquire(i), SameCopies, staging' = staging,
           crashed' = crashed,
           \/ /\ op'.at = "stop" /\ op'.goal \in {"switch", "cleanup", "start"}
              /\ op'.goal = "switch" => op'.absent = {}
              /\ staging[i] = None /\ ~crashed
           \/ op'.at = "stop" /\ op'.goal \in {"finish", "complete", "shutdown"}
           \/ op'.at = "scan" /\ op'.goal = "recover" /\ riot' # "on"
    PROVE  SafeInv'
<1> USE DEF Inv, SafeInv
<1>1. op.at = "idle" /\ (~crashed => Staged /\ Complete)
  BY DEF CanAcquire, DirInv, FullInv, Staged, Complete
<1>2. Recoverable'
  BY SameRecoverable
<1>3. FullInv'
  BY <1>1, SameFull
<1>4. DirInv'
  <2>1. op'.goal \in {"switch", "cleanup", "start"} => NoDirs
    BY <1>1, NothingStaged DEF CanAcquire, Stopped
  <2> QED BY <1>1, <2>1 DEF DirInv, SameCopies, Staged, NoDirs
<1>5. LoopInv'
  BY DEF LoopInv
<1> QED BY <1>2, <1>3, <1>4, <1>5

LEMMA CommandsSafe ==
    ASSUME Calm, Inv, NEW i \in Instances, Commands(i) \/ BeginRecover(i)
    PROVE  SafeInv'
<1> USE DEF SameCopies, disk, procs, history
<1>1. AfterRecovery => ~crashed
  BY DEF AfterRecovery, Calm
<1>2. ASSUME NEW a \in Accounts, BeginSwitch(i, a) PROVE SafeInv'
  <2>1. op'.at = "stop" /\ op'.goal = "switch" /\ op'.absent = {}
    BY <1>2 DEF BeginSwitch, Begin, Idle
  <2> QED BY <1>1, <1>2, <2>1, BeginSafe DEF BeginSwitch, CanOperate
<1>3. ASSUME NEW a \in Accounts \cup {None}, BeginCleanup(i, a) PROVE SafeInv'
  BY <1>1, <1>3, BeginFields, BeginSafe DEF BeginCleanup, CanOperate
<1>4. CASE BeginStart(i)
  BY <1>1, <1>4, BeginFields, BeginSafe DEF BeginStart, CanOperate
<1>5. CASE BeginFinish(i)
  <2>1. op'.at = "stop" /\ op'.goal = "finish"
    BY <1>5 DEF BeginFinish, Begin, Idle
  <2> QED BY <1>5, <2>1, BeginSafe DEF BeginFinish
<1>6. CASE BeginComplete(i)
  <2>1. PICK f \in Files :
          op' = [Begin(i, "complete", "stop") EXCEPT !.cur = staging[i], !.acct = file[f]]
    BY <1>6 DEF BeginComplete
  <2>2. op'.at = "stop" /\ op'.goal = "complete"
    BY <2>1 DEF Begin, Idle
  <2> QED BY <1>6, <2>2, BeginSafe DEF BeginComplete
<1>7. CASE BeginShutdown(i)
  <2>1. op'.at = "stop"
        /\ \/ op'.goal = "shutdown"
           \/ op'.goal = "cleanup" /\ staging[i] = None
    BY <1>7 DEF BeginShutdown, Begin, Idle
  <2> QED BY <1>1, <1>7, <2>1, BeginSafe DEF BeginShutdown
<1>8. CASE BeginRecover(i)
  BY <1>8, BeginFields, BeginSafe DEF BeginRecover
<1>9. CASE CloseRiot(i) \/ LaunchPlain(i)
  <2>1. op.at = "idle" /\ op' = op /\ SameCopies /\ staging' = staging /\ crashed' = crashed
    BY <1>9 DEF CloseRiot, LaunchPlain, CanOperate, CanAcquire
  <2> QED BY <2>1, SameRecoverable, SameFull
          DEF Inv, SafeInv, DirInv, FullInv, LoopInv, Complete, NoDirs
<1> QED BY <1>2, <1>3, <1>4, <1>5, <1>6, <1>7, <1>8, <1>9 DEF Commands

-----------------------------------------------------------------------------
(* A command goes on without touching the files.                           *)

LEMMA QuietWorkSafe ==
    ASSUME Inv, Stop \/ StopFails \/ SetOwner \/ Launch \/ Disown \/ UnsnapFails \/ Scan
    PROVE  SafeInv'
<1> USE OpFields DEF Inv, SafeInv, SameCopies, disk, procs, history
<1>1. CASE Stop
  <2>1. /\ op.at = "stop" /\ SameCopies /\ staging' = staging /\ crashed' = crashed
        /\ riot' # "on"
    BY <1>1 DEF Stop
  <2>2. /\ op'.at = CASE op.goal = "switch"  -> IF managed THEN "write" ELSE "backup"
                      [] op.goal = "cleanup" -> "putback"
                      [] op.goal = "start"   -> "mkdir"
                      [] OTHER               -> "unsnap"
        /\ op'.goal = op.goal /\ op'.k = 1 /\ op'.absent = op.absent /\ Kept(op')
    BY <1>1, GotoFields DEF Stop, AfterStop, Labels
  <2>3. op.goal \notin {"none", "recover", "undo"} /\ op.goal \in Goals
    BY <2>1 DEF OpInv, DirInv, OpType
  <2>4. CASE op.goal = "switch"
    <3>1. /\ op'.at = IF managed THEN "write" ELSE "backup"
          /\ op'.goal = "switch" /\ op'.absent = {} /\ NoDirs
      BY <2>1, <2>2, <2>4 DEF LoopInv, DirInv
    <3>2. FullInv'
      BY <2>1, <2>4, <3>1, SameFull DEF FullInv, Complete
    <3>3. DirInv'
      BY <2>1, <3>1 DEF DirInv, NoDirs
    <3>4. LoopInv'
      BY <2>1, <2>2, <3>1 DEF LoopInv
    <3> QED BY <2>1, <3>2, <3>3, <3>4, SameRecoverable
  <2>5. CASE op.goal # "switch"
    <3>1. /\ op'.at = CASE op.goal = "cleanup" -> "putback"
                        [] op.goal = "start"   -> "mkdir"
                        [] OTHER               -> "unsnap"
          /\ op.goal = "cleanup" \/ op.goal = "start" => NoDirs
      BY <2>1, <2>2, <2>5 DEF DirInv
    <3>2. FullInv'
      BY <2>1, <2>2, <2>5, <3>1, SameFull DEF FullInv, Complete
    <3>3. op'.at = "unsnap" => snap[op.cur].manifest /\ op'.cur = op.cur
      <4>1. op'.at = "unsnap" => op.goal \in {"finish", "complete", "shutdown"}
        BY <2>3, <2>5, <3>1 DEF Goals
      <4> QED BY <2>1, <2>2, <4>1 DEF Kept, LockInv, OpInv, DirInv
    <3>4. DirInv'
      BY <2>1, <2>2, <2>5, <3>1, <3>3 DEF DirInv, NoDirs
    <3>5. LoopInv'
      BY <2>1, <2>2, <2>5, <3>1 DEF LoopInv
    <3> QED BY <2>1, <3>2, <3>4, <3>5, SameRecoverable
  <2> QED BY <2>4, <2>5
<1>2. CASE StopFails \/ Launch \/ UnsnapFails
  <2>1. /\ op.at \in {"stop", "launch", "unsnap"} /\ op' = Idle /\ SameCopies
        /\ staging' = staging /\ crashed' = crashed
    BY <1>2 DEF StopFails, Launch, UnsnapFails
  <2> QED BY <2>1, AbortStaged, IdleSafe DEF FullInv, Complete
<1>3. CASE Disown
  <2>1. op.at = "disown" /\ op' = Idle /\ SameCopies /\ staging' = staging
    BY <1>3 DEF Disown
  <2> QED BY <2>1, IdleSafe DEF LoopInv, DirInv, NoDirs, Staged, Complete
<1>4. CASE SetOwner
  <2>1. /\ op.at = "owner" /\ SameCopies /\ staging' = staging /\ crashed' = crashed
        /\ riot' = riot
    BY <1>4 DEF SetOwner
  <2>2. op'.at = "launch" /\ op'.goal = op.goal /\ op.goal = "switch"
    BY <1>4, GotoFields DEF SetOwner, Labels, OpInv
  <2>3. FullInv'
    BY <2>1, <2>2, SameFull DEF FullInv, Complete
  <2>4. DirInv'
    BY <2>1, <2>2 DEF DirInv, NoDirs
  <2>5. LoopInv'
    BY <2>1, <2>2 DEF LoopInv
  <2> QED BY <2>1, <2>3, <2>4, <2>5, SameRecoverable
<1>5. CASE Scan
  <2>1. /\ op.at = "scan" /\ op.goal = "recover" /\ SameCopies /\ staging' = staging
        /\ riot' = riot
    BY <1>5 DEF Scan, OpInv
  <2>2. CASE op' = Idle
    <3>1. NoDirs /\ ~managed
      BY <1>5, <2>1, <2>2, IdleFields DEF Scan, NoDirs, Goto, OpType
    <3> QED BY <2>1, <2>2, <3>1, IdleSafe DEF NoDirs, Staged, Complete
  <2>3. CASE /\ op'.at = "putback" /\ op'.goal = "recover" /\ op'.k = 1
             /\ NoDirs /\ crashed' = crashed
    <3>1. FullInv'
      BY <2>1, <2>3, SameFull DEF FullInv, Complete
    <3>2. DirInv'
      BY <2>1, <2>3 DEF DirInv, NoDirs
    <3>3. LoopInv'
      BY <2>1, <2>3 DEF LoopInv
    <3> QED BY <2>1, <3>1, <3>2, <3>3, SameRecoverable
  <2>4. ASSUME NEW d \in Dirs, snap[d].on, crashed' = crashed, op'.goal = "recover",
               op'.cur = d, op'.k = 1,
               op'.at = IF snap[d].manifest THEN "unsnap" ELSE "rmdir"
        PROVE  SafeInv'
    <3>1. FullInv'
      BY <2>1, <2>4, SameFull DEF FullInv, Complete
    <3>2. DirInv'
      BY <2>1, <2>4 DEF DirInv
    <3>3. LoopInv'
      BY <2>1, <2>4 DEF LoopInv
    <3> QED BY <2>1, <3>1, <3>2, <3>3, SameRecoverable
  <2>5. \/ op' = Idle
        \/ /\ op'.at = "putback" /\ op'.goal = "recover" /\ op'.k = 1
           /\ NoDirs /\ crashed' = crashed
        \/ \E d \in Dirs :
              /\ snap[d].on /\ crashed' = crashed
              /\ op'.goal = "recover" /\ op'.cur = d /\ op'.k = 1
              /\ op'.at = IF snap[d].manifest THEN "unsnap" ELSE "rmdir"
    BY <1>5, <2>1 DEF Scan, Goto, OpType, NoDirs
  <2> QED BY <2>2, <2>3, <2>4, <2>5
<1> QED BY <1>1, <1>2, <1>3, <1>4, <1>5

-----------------------------------------------------------------------------
(* A managed launch and its cleanup; no staging directory exists.          *)

\* Without directories a file recovers from its backup or the marker.
LEMMA NoDirsRecoverable ==
    ASSUME NoDirs, DirInv
    PROVE  Recoverable <=> \A f \in Files :
               IF backup[f] # None THEN backup[f] \in own[f]
               ELSE IF managed /\ f \in missing THEN None \in own[f]
               ELSE file[f] \in own[f]
<1>1. \A d \in Dirs : ~snap[d].manifest
  BY DEF NoDirs, DirInv
<1> QED BY <1>1 DEF Recoverable, RecoversOwn

\* In the next state, for a step that keeps the directories.
LEMMA NoDirsRecoverableNext ==
    ASSUME NoDirs, DirInv, snap' = snap,
           \A f \in Files :
               IF backup'[f] # None THEN backup'[f] \in own'[f]
               ELSE IF managed' /\ f \in missing' THEN None \in own'[f]
               ELSE file'[f] \in own'[f]
    PROVE  Recoverable'
<1>1. \A d \in Dirs : ~snap'[d].manifest
  BY DEF NoDirs, DirInv
<1> QED BY <1>1 DEF Recoverable, RecoversOwn

\* The directories stay away.
LEMMA NoDirsNext ==
    ASSUME NoDirs, DirInv, snap' = snap, staging' = staging,
           op'.at \in {"backup", "marker", "write", "owner",
                       "putback", "drop", "unmark", "disown"},
           op'.goal = op.goal
    PROVE  DirInv'
  BY DEF DirInv, NoDirs

LEMMA LaunchSafe ==
    ASSUME Inv, Backup \/ Marker \/ Write
    PROVE  SafeInv'
<1> USE OpFields DEF Inv, SafeInv, disk, procs, history
<1>1. NoDirs /\ op.goal = "switch"
  BY DEF Backup, Marker, Write, OpInv, DirInv
<1>2. /\ \A f \in Files :
            IF backup[f] # None THEN backup[f] \in own[f]
            ELSE IF managed /\ f \in missing THEN None \in own[f]
            ELSE file[f] \in own[f]
      /\ \A f \in Files : backup[f] # None => file[f] # None
  BY <1>1, NoDirsRecoverable DEF FullInv, DirInv, NoDirs
<1>3. \A d \in Dirs : ~snap[d].manifest
  BY <1>1 DEF NoDirs, DirInv
<1>4. CASE Backup
  <2>1. /\ op.at = "backup" /\ UNCHANGED <<file, managed, missing, snap, staging, own, riot, crashed>>
        /\ op'.goal = "switch" /\ ~managed
        /\ \A f \in op.absent : file[f] = None
    BY <1>1, <1>4, BackupFields DEF Backup, LoopInv
  <2>2. /\ op.k < N => op'.at = "backup" /\ op'.k = op.k + 1
        /\ ~(op.k < N) => op'.at = "marker"
        /\ op'.absent = IF file[op.k] = None THEN op.absent \cup {op.k} ELSE op.absent
    BY <1>4, BackupFields DEF Collected, OpType
  <2>3. \A f \in Files : backup'[f] = IF f = op.k /\ file[f] # None /\ backup[f] = None
                                     THEN file[f] ELSE backup[f]
    BY <1>4 DEF Backup, TypeOK
  <2>4. Recoverable'
    BY <1>1, <1>2, <2>1, <2>3, NoDirsRecoverableNext
  <2>5. DirInv'
    BY <1>1, <2>1, <2>2, NoDirsNext
  <2>6. FullInv'
    BY <1>2, <1>3, <2>1, <2>3 DEF FullInv
  <2>7. \A f \in 1 .. op.k : backup'[f] # None \/ f \in op'.absent
    <3>1. \A f \in 1 .. op.k : f \in Files /\ (f = op.k \/ f \in 1 .. op.k - 1)
      BY NAssumption DEF Files
    <3>2. \A f \in 1 .. op.k - 1 : backup[f] # None \/ f \in op.absent
      BY <2>1 DEF LoopInv
    <3> QED BY <2>2, <2>3, <3>1, <3>2
  <2>8. LoopInv'
    <3>1. CASE op.k < N
      <4>1. op'.k - 1 = op.k
        BY <2>2, <3>1, NAssumption DEF Files
      <4> QED BY <2>1, <2>2, <2>7, <3>1, <4>1 DEF LoopInv
    <3>2. CASE ~(op.k < N)
      <4>1. Files = 1 .. op.k
        BY <3>2, NAssumption DEF Files
      <4> QED BY <2>1, <2>2, <2>7, <3>2, <4>1 DEF LoopInv
    <3> QED BY <3>1, <3>2
  <2> QED BY <2>4, <2>5, <2>6, <2>8
<1>5. CASE Marker
  <2>1. /\ op.at = "marker" /\ UNCHANGED <<file, backup, snap, staging, own, riot, crashed>>
        /\ managed' = TRUE /\ missing' = op.absent /\ ~managed
        /\ \A f \in op.absent : f \in Files /\ file[f] = None
        /\ \A f \in Files : backup[f] # None \/ f \in op.absent
    BY <1>5 DEF Marker, LoopInv
  <2>2. op'.at = "write" /\ op'.goal = "switch" /\ op'.k = 1
    BY <1>1, <1>5, GotoFields DEF Marker, Labels
  <2>3. Recoverable'
    BY <1>1, <1>2, <2>1, NoDirsRecoverableNext
  <2>4. DirInv'
    BY <1>1, <2>1, <2>2, NoDirsNext
  <2>5. FullInv'
    BY <1>2, <1>3, <2>1, <2>2 DEF FullInv
  <2>6. LoopInv'
    BY <2>1, <2>2 DEF LoopInv
  <2> QED BY <2>3, <2>4, <2>5, <2>6
<1>6. CASE Write
  <2>1. /\ op.at = "write"
        /\ UNCHANGED <<backup, managed, missing, snap, staging, own, riot, crashed>>
        /\ op.acct \in Accounts /\ managed /\ Complete
    BY <1>1, <1>6 DEF Write, OpInv, LoopInv, FullInv, Complete
  <2>2. op'.at \in {"write", "owner"} /\ op'.goal = "switch"
    BY <1>1, <1>6, <2>1, AdvanceFields DEF Write, Labels
  <2>3. \A f \in Files : file'[f] = IF f = op.k THEN op.acct ELSE file[f]
    BY <1>6 DEF Write, TypeOK
  <2>4. Recoverable'
    BY <1>1, <1>2, <2>1, NoDirsRecoverableNext DEF Complete
  <2>5. DirInv'
    BY <1>1, <2>1, <2>2, NoDirsNext
  <2>6. FullInv'
    BY <1>2, <1>3, <2>1, <2>2, <2>3, NoneAssumption DEF FullInv, Complete
  <2>7. LoopInv'
    BY <2>1, <2>2 DEF LoopInv
  <2> QED BY <2>4, <2>5, <2>6, <2>7
<1> QED BY <1>4, <1>5, <1>6

LEMMA CleanupSafe ==
    ASSUME Inv, PutBack \/ Drop \/ Unmark
    PROVE  SafeInv'
<1> USE OpFields DEF Inv, SafeInv, disk, procs, history
<1>1. NoDirs /\ op.goal \in {"cleanup", "recover"}
  BY DEF PutBack, Drop, Unmark, OpInv, DirInv
<1>2. /\ \A f \in Files :
            IF backup[f] # None THEN backup[f] \in own[f]
            ELSE IF managed /\ f \in missing THEN None \in own[f]
            ELSE file[f] \in own[f]
      /\ \A f \in Files : backup[f] # None => file[f] # None
  BY <1>1, NoDirsRecoverable DEF FullInv, DirInv, NoDirs
<1>3. \A d \in Dirs : ~snap[d].manifest
  BY <1>1 DEF NoDirs, DirInv
<1>4. CASE PutBack
  <2>1. /\ op.at = "putback"
        /\ UNCHANGED <<backup, managed, missing, snap, staging, own, riot, crashed>>
    BY <1>4 DEF PutBack
  <2>2. /\ op.k < N => op'.at = "putback" /\ op'.k = op.k + 1
        /\ ~(op.k < N) => op'.at = "drop" /\ op'.k = 1
        /\ op'.goal = op.goal
    BY <1>4, <2>1, AdvanceFields DEF PutBack, Labels
  <2>3. /\ file' \in [Files -> Contents]
        /\ \A f \in Files : f # op.k => file'[f] = file[f]
        /\ file'[op.k] \in own[op.k]
        /\ backup[op.k] # None => file'[op.k] = backup[op.k]
    BY <1>2, <1>4 DEF PutBack, TypeOK, Contents
  <2>4. Recoverable'
    BY <1>1, <1>2, <2>1, <2>3, NoDirsRecoverableNext
  <2>5. DirInv'
    BY <1>1, <2>1, <2>2, NoDirsNext
  <2>6. FullInv'
    BY <1>1, <1>2, <1>3, <2>1, <2>2, <2>3 DEF FullInv
  <2>7. \A f \in 1 .. op.k : file'[f] \in own[f]
    <3>1. \A f \in 1 .. op.k : f \in Files /\ (f = op.k \/ f \in 1 .. op.k - 1)
      BY NAssumption DEF Files
    <3> QED BY <2>1, <2>3, <3>1 DEF LoopInv
  <2>8. LoopInv'
    <3>1. CASE op.k < N
      <4>1. op'.k - 1 = op.k
        BY <2>2, <3>1, NAssumption DEF Files
      <4> QED BY <2>1, <2>2, <2>7, <3>1, <4>1 DEF LoopInv
    <3>2. CASE ~(op.k < N)
      <4>1. Files = 1 .. op.k
        BY <3>2, NAssumption DEF Files
      <4>2. IsOwn'
        BY <2>1, <2>7, <4>1 DEF IsOwn
      <4> QED BY <2>1, <2>2, <3>2, <4>2 DEF LoopInv
    <3> QED BY <3>1, <3>2
  <2> QED BY <2>4, <2>5, <2>6, <2>8
<1>5. CASE Drop
  <2>1. /\ op.at = "drop" /\ \A f \in Files : file[f] \in own[f]
        /\ UNCHANGED <<file, managed, missing, snap, staging, own, riot, crashed>>
    BY <1>5 DEF Drop, LoopInv, IsOwn
  <2>2. /\ op.k < N => op'.at = "drop" /\ op'.k = op.k + 1
        /\ ~(op.k < N) => op'.at = "unmark" /\ op'.k = 1
        /\ op'.goal = op.goal
    BY <1>5, <2>1, AdvanceFields DEF Drop, Labels
  <2>3. \A f \in Files : backup'[f] = IF f = op.k THEN None ELSE backup[f]
    BY <1>5 DEF Drop, TypeOK
  <2>4. Recoverable'
    <3>1. \A f \in missing : backup[f] = None
      BY DEF FullInv
    <3> QED BY <1>1, <1>2, <2>1, <2>3, <3>1, NoDirsRecoverableNext
  <2>5. DirInv'
    BY <1>1, <2>1, <2>2, NoDirsNext
  <2>6. FullInv'
    <3>1. missing \subseteq Files
      BY DEF TypeOK
    <3> QED BY <1>1, <1>2, <1>3, <2>1, <2>2, <2>3, <3>1 DEF FullInv
  <2>7. \A f \in 1 .. op.k : backup'[f] = None
    <3>1. \A f \in 1 .. op.k : f \in Files /\ (f = op.k \/ f \in 1 .. op.k - 1)
      BY NAssumption DEF Files
    <3> QED BY <2>1, <2>3, <3>1 DEF LoopInv
  <2>8. LoopInv'
    <3>1. CASE op.k < N
      <4>1. op'.k - 1 = op.k
        BY <2>2, <3>1, NAssumption DEF Files
      <4> QED BY <2>1, <2>2, <2>7, <3>1, <4>1 DEF LoopInv, IsOwn
    <3>2. CASE ~(op.k < N)
      <4>1. Files = 1 .. op.k
        BY <3>2, NAssumption DEF Files
      <4> QED BY <2>1, <2>2, <2>7, <3>2, <4>1 DEF LoopInv, IsOwn
    <3> QED BY <3>1, <3>2
  <2> QED BY <2>4, <2>5, <2>6, <2>8
<1>6. CASE Unmark
  <2>1. /\ op.at = "unmark" /\ \A f \in Files : file[f] \in own[f] /\ backup[f] = None
        /\ UNCHANGED <<file, backup, snap, staging, own, riot, crashed>>
        /\ managed' = FALSE /\ missing' = {}
    BY <1>6 DEF Unmark, LoopInv, IsOwn
  <2>2. op'.at = "disown" /\ op'.goal = op.goal
    BY <1>6, GotoFields DEF Unmark, Labels
  <2>3. Recoverable'
    BY <1>1, <2>1, NoDirsRecoverableNext
  <2>4. DirInv'
    BY <1>1, <2>1, <2>2, NoDirsNext
  <2>5. FullInv'
    BY <2>1 DEF FullInv
  <2>6. LoopInv'
    BY <2>1, <2>2 DEF LoopInv
  <2> QED BY <2>3, <2>4, <2>5, <2>6
<1> QED BY <1>4, <1>5, <1>6

-----------------------------------------------------------------------------
(* A sandbox is built.                                                     *)

LEMMA BuildSafe ==
    ASSUME Inv, MakeDir \/ Snap \/ Manifest \/ Clear
    PROVE  SafeInv'
<1> USE OpFields DEF Inv, SafeInv, disk, procs, history
<1>1. op.goal = "start" /\ Stopped
  BY DEF MakeDir, Snap, Manifest, Clear, OpInv, LockInv
<1>2. CASE MakeDir
  <2>1. /\ op.at = "mkdir" /\ NoDirs
        /\ UNCHANGED <<file, backup, managed, missing, staging, own, riot, crashed>>
    BY <1>2 DEF MakeDir, DirInv
  <2>2. PICK d \in Dirs : /\ snap' = [snap EXCEPT ![d].on = TRUE]
                          /\ op' = [Goto("snap") EXCEPT !.cur = d]
    BY <1>2 DEF MakeDir
  <2>3. op'.at = "snap" /\ op'.goal = "start" /\ op'.k = 1 /\ op'.cur = d
    BY <1>1, <2>2 DEF Goto, OpType
  <2>4. \A e \in Dirs : /\ snap'[e].on = (e = d)
                        /\ snap'[e].manifest = FALSE /\ snap[e].manifest = FALSE
    <3>1. \A e \in Dirs : snap[e].on = FALSE /\ snap[e].manifest = FALSE
      BY <2>1 DEF NoDirs, DirInv, TypeOK, SnapType
    <3> QED BY <2>2, <3>1 DEF TypeOK, SnapType
  <2>5. Recoverable'
    BY <2>1, <2>4 DEF Recoverable, RecoversOwn
  <2>6. DirInv'
    BY <1>1, <2>1, <2>3, <2>4, ZenonT(40) DEF DirInv, Stopped
  <2>7. FullInv'
    BY <2>1, <2>3, <2>4 DEF FullInv
  <2>8. LoopInv'
    BY <2>1, <2>3 DEF LoopInv
  <2> QED BY <2>5, <2>6, <2>7, <2>8
<1>3. CASE Snap
  <2>1. /\ op.at = "snap" /\ op.cur \in Dirs /\ snap[op.cur].on /\ ~snap[op.cur].manifest
        /\ UNCHANGED <<file, backup, managed, missing, staging, own, riot, crashed>>
    BY <1>3 DEF Snap, DirInv, OpInv
  <2>2. /\ op.k < N => op'.at = "snap" /\ op'.k = op.k + 1
        /\ ~(op.k < N) => op'.at = "manifest" /\ op'.k = 1
        /\ op'.goal = "start" /\ op'.cur = op.cur
    BY <1>1, <1>3, <2>1, AdvanceFields DEF Snap, Labels, Kept
  <2>3. \A d \in Dirs : /\ snap'[d].on = snap[d].on
                        /\ snap'[d].manifest = FALSE /\ snap[d].manifest = FALSE
    <3>1. \A d \in Dirs : snap[d].manifest = FALSE
      BY <2>1 DEF DirInv, TypeOK, SnapType
    <3> QED BY <1>3, <3>1 DEF Snap, TypeOK, SnapType
  <2>4. /\ snap'[op.cur].copy \in [Files -> Contents]
        /\ \A f \in Files : snap'[op.cur].copy[f] =
                              IF f = op.k THEN file[f] ELSE snap[op.cur].copy[f]
    BY <1>3, <2>1 DEF Snap, TypeOK, SnapType
  <2>5. Recoverable'
    BY <2>1, <2>3 DEF Recoverable, RecoversOwn
  <2>6. DirInv'
    BY <1>1, <2>1, <2>2, <2>3 DEF DirInv, Stopped
  <2>7. FullInv'
    BY <1>1, <2>1, <2>2, <2>3 DEF FullInv
  <2>8. \A f \in 1 .. op.k : snap'[op.cur].copy[f] = file[f]
    <3>1. \A f \in 1 .. op.k : f \in Files /\ (f = op.k \/ f \in 1 .. op.k - 1)
      BY NAssumption DEF Files
    <3> QED BY <2>1, <2>4, <3>1 DEF LoopInv
  <2>9. LoopInv'
    <3>1. CASE op.k < N
      <4>1. op'.k - 1 = op.k
        BY <2>2, <3>1, NAssumption DEF Files
      <4> QED BY <2>1, <2>2, <2>8, <3>1, <4>1 DEF LoopInv
    <3>2. CASE ~(op.k < N)
      <4>1. Files = 1 .. op.k
        BY <3>2, NAssumption DEF Files
      <4>2. snap'[op.cur].copy = file
        <5>1. file \in [Files -> Contents] /\ \A f \in Files : snap'[op.cur].copy[f] = file[f]
          BY <2>8, <4>1 DEF TypeOK
        <5> QED BY <2>4, <5>1
      <4> QED BY <2>1, <2>2, <3>2, <4>2 DEF LoopInv
    <3> QED BY <3>1, <3>2
  <2> QED BY <2>5, <2>6, <2>7, <2>9
<1>4. CASE Manifest
  <2>1. /\ op.at = "manifest" /\ op.cur \in Dirs /\ snap[op.cur].on /\ ~snap[op.cur].manifest
        /\ snap[op.cur].copy = file
        /\ UNCHANGED <<file, backup, managed, missing, staging, own, riot, crashed>>
    BY <1>4 DEF Manifest, DirInv, OpInv, LoopInv
  <2>2. op'.at = "clear" /\ op'.goal = "start" /\ op'.cur = op.cur /\ op'.k = 1
    BY <1>1, <1>4, GotoFields DEF Manifest, Labels, Kept
  <2>3. /\ \A d \in Dirs : /\ snap'[d].on = snap[d].on
                           /\ snap'[d].manifest <=> d = op.cur
                           /\ ~snap[d].manifest
        /\ snap'[op.cur].copy = file
        /\ snap'[op.cur].existed = {f \in Files : file[f] # None}
    <3>1. \A d \in Dirs : snap[d].manifest = FALSE
      BY <2>1 DEF DirInv, TypeOK, SnapType
    <3>2. \A d \in Dirs : d # op.cur => snap'[d] = snap[d]
      BY <1>4 DEF Manifest, TypeOK
    <3>3. /\ snap'[op.cur].on = snap[op.cur].on /\ snap'[op.cur].manifest = TRUE
          /\ snap'[op.cur].copy = snap[op.cur].copy
          /\ snap'[op.cur].existed = {f \in Files : snap[op.cur].copy[f] # None}
      BY <1>4, <2>1 DEF Manifest, TypeOK, SnapType
    <3> QED BY <2>1, <3>1, <3>2, <3>3
  <2>4. Recoverable'
    BY <2>1, <2>3 DEF Recoverable, RecoversOwn
  <2>5. DirInv'
    BY <1>1, <2>1, <2>2, <2>3 DEF DirInv, Stopped
  <2>6. FullInv'
    BY <2>1, <2>2, <2>3 DEF FullInv
  <2>7. LoopInv'
    BY <2>1, <2>2 DEF LoopInv
  <2> QED BY <2>4, <2>5, <2>6, <2>7
<1>5. CASE Clear
  <2>1. /\ op.at = "clear" /\ op.cur \in Dirs /\ snap[op.cur].manifest /\ op.by \in Instances
        /\ UNCHANGED <<backup, managed, missing, snap, own, riot, crashed>>
    BY <1>5 DEF Clear, DirInv, OpInv
  <2>2. op'.at \in {"clear", "launch"} /\ op'.goal = "start" /\ op'.cur = op.cur
    BY <1>1, <1>5, <2>1, AdvanceFields DEF Clear, Labels, Kept
  <2>3. Recoverable'
    BY <2>1 DEF Recoverable, RecoversOwn
  <2>4. \A i \in Instances : staging'[i] # None => staging'[i] = op.cur
    BY <1>1, <1>5 DEF Clear, Stopped, TypeOK
  <2>5. DirInv'
    BY <1>1, <2>1, <2>2, <2>4 DEF DirInv
  <2>6. FullInv'
    BY <2>1, <2>2 DEF FullInv
  <2>7. LoopInv'
    BY <2>1, <2>2 DEF LoopInv
  <2> QED BY <2>3, <2>5, <2>6, <2>7
<1> QED BY <1>2, <1>3, <1>4, <1>5

-----------------------------------------------------------------------------
(* A sandbox ends.                                                         *)

LEMMA UnsnapSafe ==
    ASSUME Inv, Unsnap
    PROVE  SafeInv'
<1> USE OpFields DEF Inv, SafeInv, disk, procs, history
<1>1. /\ op.at = "unsnap" /\ op.cur \in Dirs /\ snap[op.cur].manifest
      /\ UNCHANGED <<backup, managed, missing, snap, staging, own, riot, crashed>>
  BY DEF Unsnap, DirInv, OpInv
<1>2. /\ op.k < N => op'.at = "unsnap" /\ op'.k = op.k + 1
      /\ ~(op.k < N) => op'.at = "rmdir" /\ op'.k = 1
      /\ op'.goal = op.goal /\ op'.cur = op.cur /\ op.goal # "start"
  BY <1>1, AdvanceFields DEF Unsnap, Labels, Kept, OpInv
<1>3. snap[op.cur].on /\ snap[op.cur].copy \in [Files -> Contents]
      /\ snap[op.cur].existed = {f \in Files : snap[op.cur].copy[f] # None}
  BY <1>1 DEF DirInv, TypeOK, SnapType
<1>4. /\ file' \in [Files -> Contents]
      /\ \A f \in Files : file'[f] = IF f = op.k THEN snap[op.cur].copy[f] ELSE file[f]
  BY <1>3 DEF Unsnap, TypeOK, Contents
<1>5. Recoverable'
  BY <1>1 DEF Recoverable, RecoversOwn
<1>6. DirInv'
  BY <1>1, <1>2, <1>3 DEF DirInv, NoDirs
<1>7. FullInv'
  <2>1. op'.at # "drop" /\ op'.at # "unmark" /\ op.goal # "switch"
    BY <1>1, <1>2 DEF OpInv
  <2> QED BY <1>1, <1>2, <2>1 DEF FullInv
<1>8. \A f \in 1 .. op.k : file'[f] = snap[op.cur].copy[f]
  <2>1. \A f \in 1 .. op.k : f \in Files /\ (f = op.k \/ f \in 1 .. op.k - 1)
    BY NAssumption DEF Files
  <2> QED BY <1>1, <1>4, <2>1 DEF LoopInv
<1>9. LoopInv'
  <2>1. CASE op.k < N
    <3>1. op'.k - 1 = op.k
      BY <1>2, <2>1, NAssumption DEF Files
    <3> QED BY <1>1, <1>2, <1>8, <2>1, <3>1 DEF LoopInv
  <2>2. CASE ~(op.k < N)
    <3>1. Files = 1 .. op.k
      BY <2>2, NAssumption DEF Files
    <3>2. file' = snap[op.cur].copy
      BY <1>3, <1>4, <1>8, <3>1
    <3> QED BY <1>1, <1>2, <2>2, <3>2 DEF LoopInv
  <2> QED BY <2>1, <2>2
<1> QED BY <1>5, <1>6, <1>7, <1>9

\* The files are back when the directory with its manifest goes.
LEMMA RemoveDirSafe ==
    ASSUME Inv, RemoveDir
    PROVE  SafeInv'
<1> USE OpFields DEF Inv, SafeInv, disk, procs, history
<1>1. /\ op.at = "rmdir" /\ op.cur \in Dirs /\ op.by \in Instances /\ snap[op.cur].on
      /\ snap[op.cur].manifest => file = snap[op.cur].copy
      /\ UNCHANGED <<file, backup, managed, missing, own, riot, crashed>>
  BY DEF RemoveDir, DirInv, OpInv, LoopInv
<1>2. \A d \in Dirs : /\ snap'[d].on = FALSE /\ snap'[d].manifest = FALSE
                      /\ snap[d].manifest => d = op.cur
  <2>1. \A d \in Dirs : d # op.cur => snap[d].on = FALSE /\ snap[d].manifest = FALSE
    BY <1>1 DEF DirInv, TypeOK, SnapType
  <2> QED BY <1>1, <2>1 DEF RemoveDir, NoSnap, TypeOK
<1>3. Stopped'
  <2>1. CASE op.goal = "recover"
    BY <1>1, <2>1 DEF RemoveDir, LockInv, Stopped
  <2>2. CASE op.goal # "recover"
    <3>1. staging' = [staging EXCEPT ![op.by] = None]
      BY <2>2 DEF RemoveDir
    <3>2. \A j \in Instances : j # op.by => staging[j] = None
      BY <1>1 DEF LockInv, OneSandbox
    <3> QED BY <3>1, <3>2 DEF Stopped, TypeOK
  <2> QED BY <2>1, <2>2
<1>4. \/ op'.at = "idle" /\ op'.goal = "none"
      \/ op'.at = "scan" /\ op'.goal = "recover"
      \/ op'.at = "stop" /\ op'.goal = "cleanup"
  <2>1. Goto("scan") \in OpType /\ GotoFor("cleanup", "stop") \in OpType
    BY GotoType, GotoForType DEF Labels, Goals
  <2>2. \/ op' = Idle
        \/ op.goal = "recover" /\ op' = [Goto("scan") EXCEPT !.cur = None]
        \/ op' = [GotoFor("cleanup", "stop") EXCEPT !.cur = None]
    BY DEF RemoveDir, AfterRemove
  <2>3. /\ [Goto("scan") EXCEPT !.cur = None].at = Goto("scan").at
        /\ [Goto("scan") EXCEPT !.cur = None].goal = Goto("scan").goal
        /\ [GotoFor("cleanup", "stop") EXCEPT !.cur = None].at = GotoFor("cleanup", "stop").at
        /\ [GotoFor("cleanup", "stop") EXCEPT !.cur = None].goal = GotoFor("cleanup", "stop").goal
    BY <2>1 DEF OpType
  <2>4. /\ Goto("scan").at = "scan" /\ Goto("scan").goal = op.goal
        /\ GotoFor("cleanup", "stop").at = "stop" /\ GotoFor("cleanup", "stop").goal = "cleanup"
    <3>1. "scan" \in Labels /\ "stop" \in Labels /\ "cleanup" \in Goals
      BY DEF Labels, Goals
    <3> QED BY <3>1, GotoFields, GotoForFields
  <2> QED BY <2>2, <2>3, <2>4, IdleFields
<1>5. Recoverable'
  <2>1. \A f \in Files : IF backup[f] # None THEN backup[f] \in own[f]
                         ELSE IF managed /\ f \in missing THEN None \in own[f]
                         ELSE file[f] \in own[f]
    BY <1>1, <1>2 DEF Recoverable, RecoversOwn
  <2> QED BY <1>1, <1>2, <2>1 DEF Recoverable, RecoversOwn
<1>6. DirInv'
  BY <1>2, <1>3, <1>4 DEF DirInv, NoDirs, Stopped
<1>7. FullInv'
  <2>1. \A f \in Files : backup[f] # None => file[f] # None
    BY <1>1, <1>2 DEF FullInv
  <2> QED BY <1>1, <1>2, <1>4, <2>1 DEF FullInv
<1>8. LoopInv'
  BY <1>1, <1>4 DEF LoopInv
<1> QED BY <1>5, <1>6, <1>7, <1>8

-----------------------------------------------------------------------------
(* Failures, Riot and the clock.                                           *)

LEMMA FailureSafe ==
    ASSUME Calm, Inv, FileFails \/ LaunchFails
    PROVE  SafeInv'
<1> USE OpFields DEF Inv, SafeInv, disk, procs, history
<1>1. SameCopies /\ staging' = staging /\ crashed' = crashed /\ riot' = riot
  BY DEF FileFails, LaunchFails, SameCopies
<1>2. Recoverable'
  BY <1>1, SameRecoverable
<1>3. CASE FileFails
  <2>1. Writing /\ op' = OnError
    BY <1>3 DEF FileFails, Calm
  <2>2. op.at \in {"marker", "write", "owner", "manifest", "backup", "snap", "putback", "unsnap"}
    BY <2>1 DEF Writing
  <2>3. CASE op.at \in {"marker", "backup", "putback", "unsnap"}
    <3>1. op' = Idle
      BY <2>1, <2>3 DEF OnError
    <3> QED BY <1>1, <2>3, <3>1, AbortStaged, IdleSafe DEF FullInv, Complete
  <2>4. CASE op.at \in {"write", "owner"}
    <3>1. op.goal = "switch" /\ NoDirs /\ Complete
      BY <2>4 DEF OpInv, DirInv, FullInv, Complete
    <3>2. op'.at \in {"putback", "stop"} /\ op'.goal = "cleanup" /\ op'.k = 1
      <4>1. \/ op' = GotoFor("cleanup", "putback")
            \/ op' = GotoFor("cleanup", "stop")
        BY <2>1, <2>4 DEF OnError
      <4>2. "putback" \in Labels /\ "stop" \in Labels /\ "cleanup" \in Goals
        BY DEF Labels, Goals
      <4> QED BY <4>1, <4>2, GotoForFields
    <3>3. FullInv'
      BY <1>1, <3>1, <3>2, SameFull
    <3>4. DirInv'
      BY <1>1, <3>1, <3>2 DEF DirInv, SameCopies, NoDirs
    <3>5. LoopInv'
      BY <1>1, <2>4, <3>2 DEF LoopInv
    <3> QED BY <1>2, <3>3, <3>4, <3>5
  <2>5. CASE op.at \in {"snap", "manifest"}
    <3>1. op'.at = "rmdir" /\ op'.goal = op.goal /\ op'.cur = op.cur /\ op.goal = "start"
      BY <2>1, <2>5, GotoFields DEF OnError, Labels, OpInv, Kept
    <3>2. FullInv'
      BY <1>1, <2>5, <3>1, SameFull DEF FullInv, Complete
    <3>3. DirInv'
      BY <1>1, <2>5, <3>1 DEF DirInv, SameCopies
    <3>4. LoopInv'
      <4>1. ~snap[op.cur].manifest
        BY <2>5 DEF DirInv
      <4> QED BY <1>1, <2>5, <3>1, <4>1 DEF LoopInv, SameCopies
    <3> QED BY <1>2, <3>2, <3>3, <3>4
  <2> QED BY <2>2, <2>3, <2>4, <2>5
<1>4. CASE LaunchFails
  <2>1. /\ op.at = "launch" /\ op'.at = "stop" /\ Kept(op')
        /\ op'.goal = IF op.goal = "switch" THEN "cleanup" ELSE "finish"
        /\ op.goal = "switch" => NoDirs
    <3>1. op' = IF op.goal = "switch" THEN GotoFor("cleanup", "stop") ELSE GotoFor("finish", "stop")
      BY <1>4 DEF LaunchFails
    <3>2. "stop" \in Labels /\ "cleanup" \in Goals /\ "finish" \in Goals
      BY DEF Labels, Goals
    <3>3. op.at = "launch" /\ (op.goal = "switch" => NoDirs)
      BY <1>4 DEF LaunchFails, DirInv
    <3> QED BY <3>1, <3>2, <3>3, GotoForFields
  <2>2. FullInv'
    BY <1>1, <2>1, SameFull DEF FullInv, Complete
  <2>3. DirInv'
    BY <1>1, <2>1 DEF DirInv, SameCopies, NoDirs
  <2>4. LoopInv'
    BY <1>1, <2>1 DEF LoopInv
  <2> QED BY <1>2, <2>2, <2>3, <2>4
<1> QED BY <1>3, <1>4

LEMMA CrashSafe ==
    ASSUME Inv, NEW i \in Instances, Crash(i)
    PROVE  SafeInv'
<1> USE DEF Inv, SafeInv, disk
<1>1. SameCopies /\ riot' = riot /\ crashed' = TRUE
      /\ staging' = [staging EXCEPT ![i] = None] /\ op' = IF op.by = i THEN Idle ELSE op
  BY DEF Crash, SameCopies
<1>2. \A j \in Instances : staging'[j] = IF j = i THEN None ELSE staging[j]
  BY <1>1 DEF TypeOK
<1>3. Recoverable'
  BY <1>1, SameRecoverable
<1>4. CASE op.by = i
  <2>1. op'.at = "idle" /\ op'.goal = "none"
    BY <1>1, <1>4, IdleFields
  <2>2. DirInv'
    BY <1>1, <1>2, <2>1 DEF DirInv, SameCopies
  <2>3. FullInv'
    BY <1>1, <2>1, SameFull
  <2>4. LoopInv'
    BY <2>1 DEF LoopInv
  <2> QED BY <1>3, <2>2, <2>3, <2>4
<1>5. CASE op.by # i
  <2>1. op' = op
    BY <1>1, <1>5
  <2>2. DirInv'
    BY <1>1, <1>2, <2>1 DEF DirInv, SameCopies, NoDirs
  <2>3. FullInv'
    BY <1>1, <2>1, SameFull DEF FullInv, Complete
  <2>4. LoopInv'
    BY <1>1, <2>1 DEF LoopInv, SameCopies, IsOwn
  <2> QED BY <1>3, <2>2, <2>3, <2>4
<1> QED BY <1>4, <1>5

\* A client has a managed login only where LAAP holds every file.
LEMMA UsedHeld == ASSUME Inv, UsesManaged PROVE \A f \in Files : Held(f)
<1>1. CASE ~Stopped
  <2>1. PICK i \in Instances : staging[i] # None
    BY <1>1 DEF Stopped
  <2>2. staging[i] \in Dirs /\ snap[staging[i]].manifest
    BY <2>1 DEF Inv, SafeInv, DirInv, TypeOK
  <2> QED BY <2>2 DEF Held
<1>2. CASE \E f \in Files : file[f] \in Accounts
  BY <1>2 DEF Inv, HeldInv
<1> QED BY <1>1, <1>2 DEF UsesManaged

LEMMA RiotSafe ==
    ASSUME Calm, Inv,
           \/ RiotUp \/ PlayerOpensRiot \/ RiotExits
           \/ \E f \in Files : RiotSaves(f)
           \/ \E i \in Instances : CoolDown(i)
           \/ UNCHANGED vars
    PROVE  SafeInv'
<1> USE DEF Inv, SafeInv, disk, procs, history
<1>1. ASSUME SameCopies, UNCHANGED <<op, staging, crashed>>,
             riot' = "on" => riot = "on" \/ op.at = "idle"
      PROVE  SafeInv'
  BY <1>1, SameRecoverable, SameFull
     DEF SameCopies, DirInv, FullInv, LoopInv, IsOwn, Complete, NoDirs
<1>2. CASE RiotUp \/ PlayerOpensRiot \/ RiotExits
  BY <1>1, <1>2 DEF RiotUp, PlayerOpensRiot, RiotExits, SameCopies, Calm
<1>3. ASSUME NEW f \in Files, RiotSaves(f) PROVE SafeInv'
  <2>1. /\ riot = "on"
        /\ UNCHANGED <<backup, managed, missing, snap, op, staging, riot, crashed>>
    BY <1>3 DEF RiotSaves
  <2>2. PICK c \in Logins :
          /\ file' = [file EXCEPT ![f] = c]
          /\ own' = IF c \in Accounts THEN own
                    ELSE [own EXCEPT ![f] = IF Held(f) THEN @ \cup {c} ELSE {c}]
          /\ c \in Accounts => UsesManaged
    BY <1>3, KindAssumption DEF RiotSaves, Logins
  <2>3. c # None
    BY NoneAssumption DEF Logins
  <2>4. op.at \in {"idle", "stop"}
    BY <2>1 DEF LoopInv
  <2>5. /\ \A g \in Files : file'[g] = IF g = f THEN c ELSE file[g]
        /\ \A g \in Files : g # f => own'[g] = own[g]
        /\ Held(f) => own[f] \subseteq own'[f]
    BY <2>2 DEF TypeOK
  <2>6. Recoverable'
    <3>1. Held(f) \/ c \in own'[f]
      <4>1. c \in Accounts => Held(f)
        BY <2>2, UsedHeld DEF Inv
      <4> QED BY <2>2, <4>1 DEF TypeOK
    <3>2. Held(f) => RecoversOwn(f)'
      BY <2>1, <2>5 DEF Recoverable, RecoversOwn, Held, BackedUp
    <3>3. ~Held(f) => RecoversOwn(f)'
      BY <2>1, <2>5, <3>1 DEF RecoversOwn, Held, BackedUp
    <3>4. \A g \in Files : g # f => RecoversOwn(g)'
      BY <2>1, <2>5 DEF Recoverable, RecoversOwn
    <3> QED BY <3>2, <3>3, <3>4 DEF Recoverable
  <2>7. DirInv'
    BY <2>1 DEF DirInv, NoDirs
  <2>8. FullInv'
    BY <2>1, <2>3, <2>5 DEF FullInv
  <2>9. LoopInv'
    BY <2>1, <2>4 DEF LoopInv
  <2> QED BY <2>6, <2>7, <2>8, <2>9
<1>4. CASE \E i \in Instances : CoolDown(i)
  BY <1>1, <1>4 DEF CoolDown, SameCopies
<1>5. CASE UNCHANGED vars
  BY <1>1, <1>5 DEF vars, SameCopies
<1> QED BY <1>2, <1>3, <1>4, <1>5

-----------------------------------------------------------------------------

LEMMA SafeStep == ASSUME Calm PROVE Inv /\ [Next]_vars => SafeInv'
<1> SUFFICES ASSUME Inv, [Next]_vars PROVE SafeInv'
  OBVIOUS
<1>1. CASE Work
  BY <1>1, QuietWorkSafe, LaunchSafe, CleanupSafe, BuildSafe, UnsnapSafe, RemoveDirSafe DEF Work
<1>2. ~RemoveEntry
  BY DEF RemoveEntry, Calm
<1> QED BY <1>1, <1>2, CommandsSafe, FailureSafe, CrashSafe, RiotSafe DEF Next

LEMMA SafeInit == Init => SafeInv
<1> SUFFICES ASSUME Init PROVE SafeInv
  OBVIOUS
<1>1. \A d \in Dirs : ~snap[d].on /\ ~snap[d].manifest
  BY DEF Init, NoSnap
<1>2. Recoverable
  BY <1>1 DEF Init, Recoverable, RecoversOwn
<1>3. DirInv
  BY <1>1, IdleFields DEF Init, DirInv
<1>4. FullInv
  BY <1>1, IdleFields DEF Init, FullInv
<1>5. LoopInv
  BY IdleFields DEF Init, LoopInv
<1> QED BY <1>2, <1>3, <1>4, <1>5 DEF SafeInv

-----------------------------------------------------------------------------
(* Where a managed login is, LAAP holds what every file was.               *)

SameHeld == UNCHANGED <<file, backup, managed, missing, snap>>

LEMMA QuietHeld == ASSUME HeldInv, SameHeld PROVE HeldInv'
  BY DEF HeldInv, Held, BackedUp, SameHeld

\* A step that brings no managed login into a file and keeps what is held.
LEMMA KeptHeld ==
    ASSUME HeldInv, UNCHANGED <<backup, managed, missing, snap>>,
           \A f \in Files : file'[f] \in Accounts => file[f] \in Accounts
    PROVE  HeldInv'
  BY DEF HeldInv, Held, BackedUp

LEMMA LaunchHeld == ASSUME Inv, Backup \/ Marker \/ Write PROVE HeldInv'
<1> USE OpFields DEF Inv, SafeInv
<1>1. CASE Backup
  <2>1. UNCHANGED <<file, managed, missing, snap>>
        /\ \A f \in Files : backup[f] # None => backup'[f] # None
    BY <1>1 DEF Backup, TypeOK
  <2> QED BY <2>1 DEF HeldInv, Held, BackedUp
<1>2. CASE Marker
  <2>1. UNCHANGED <<file, backup, snap>> /\ ~managed
    BY <1>2 DEF Marker, LoopInv
  <2> QED BY <2>1 DEF HeldInv, Held, BackedUp
<1>3. CASE Write
  <2>1. /\ UNCHANGED <<backup, managed, missing, snap>>
        /\ \A f \in Files : BackedUp(f)
    BY <1>3 DEF Write, LoopInv, OpInv, FullInv, BackedUp
  <2> QED BY <2>1 DEF HeldInv, Held, BackedUp
<1> QED BY <1>1, <1>2, <1>3

LEMMA CleanupHeld == ASSUME Inv, PutBack \/ Drop \/ Unmark PROVE HeldInv'
<1> USE OpFields DEF Inv, SafeInv
<1>1. NoDirs /\ \A d \in Dirs : ~snap[d].manifest
  BY DEF PutBack, Drop, Unmark, DirInv, NoDirs
<1>2. \A f \in Files : own[f] \cap Accounts = {}
  BY KindAssumption, NoneAssumption DEF TypeOK
<1>3. CASE PutBack
  <2>1. UNCHANGED <<backup, managed, missing, snap>>
        /\ \A f \in Files : file'[f] = file[f] \/ file'[f] = None \/ file'[f] \in own[f]
    BY <1>1, <1>3, NoDirsRecoverable DEF PutBack, TypeOK
  <2> QED BY <1>2, <2>1, NoneAssumption, KeptHeld
<1>4. CASE Drop \/ Unmark
  <2>1. UNCHANGED <<file, snap>> /\ \A f \in Files : file[f] \notin Accounts
    BY <1>2, <1>4 DEF Drop, Unmark, LoopInv, IsOwn
  <2> QED BY <1>1, <2>1 DEF HeldInv
<1> QED BY <1>3, <1>4

LEMMA SandboxHeld ==
    ASSUME Inv, MakeDir \/ Snap \/ Manifest \/ Clear \/ Unsnap \/ RemoveDir PROVE HeldInv'
<1> USE OpFields DEF Inv, SafeInv
<1>1. CASE MakeDir
  <2>1. PICK d \in Dirs : snap' = [snap EXCEPT ![d].on = TRUE]
    BY <1>1 DEF MakeDir
  <2>2. \A e \in Dirs : snap'[e].manifest = snap[e].manifest /\ snap'[e].copy = snap[e].copy
    BY <2>1 DEF TypeOK, SnapType
  <2> QED BY <1>1, <2>2 DEF MakeDir, HeldInv, Held, BackedUp
<1>2. CASE Snap
  <2>1. /\ op.cur \in Dirs /\ ~snap[op.cur].manifest
        /\ UNCHANGED <<file, backup, managed, missing>>
    BY <1>2 DEF Snap, DirInv, OpInv
  <2>2. /\ \A e \in Dirs : snap'[e].manifest = snap[e].manifest
        /\ \A e \in Dirs : e # op.cur => snap'[e] = snap[e]
    BY <1>2, <2>1 DEF Snap, TypeOK, SnapType
  <2> QED BY <2>1, <2>2 DEF HeldInv, Held, BackedUp
<1>3. CASE Manifest
  <2>1. /\ op.cur \in Dirs /\ \A d \in Dirs : ~snap[d].manifest
        /\ snap[op.cur].copy = file
        /\ UNCHANGED <<file, backup, managed, missing>>
    BY <1>3 DEF Manifest, DirInv, OpInv, LoopInv
  <2>2. /\ snap'[op.cur].manifest /\ snap'[op.cur].copy = snap[op.cur].copy
        /\ \A e \in Dirs : e # op.cur => snap'[e] = snap[e]
    BY <1>3, <2>1 DEF Manifest, TypeOK, SnapType
  <2>3. (\E g \in Files : file[g] \in Accounts) => \A f \in Files : BackedUp(f)
    BY <2>1 DEF HeldInv, Held
  <2> QED BY <2>1, <2>2, <2>3 DEF HeldInv, Held, BackedUp
<1>4. CASE Clear
  <2>1. UNCHANGED <<backup, managed, missing, snap>>
        /\ \A f \in Files : file'[f] = file[f] \/ file'[f] = None
    BY <1>4 DEF Clear, TypeOK
  <2> QED BY <2>1, NoneAssumption, KeptHeld
<1>5. CASE Unsnap
  <2>1. /\ op.cur \in Dirs /\ snap[op.cur].manifest
        /\ UNCHANGED <<backup, managed, missing, snap>>
    BY <1>5 DEF Unsnap, DirInv, OpInv
  <2>2. /\ \A f \in Files : f # op.k => file'[f] = file[f]
        /\ file'[op.k] \in {snap[op.cur].copy[op.k], None}
    BY <1>5 DEF Unsnap, TypeOK
  <2>3. file'[op.k] \in Accounts => \A f \in Files : BackedUp(f)
    BY <2>1, <2>2, NoneAssumption DEF HeldInv
  <2> QED BY <2>1, <2>2, <2>3 DEF HeldInv, Held, BackedUp
<1>6. CASE RemoveDir
  <2>1. /\ op.cur \in Dirs /\ snap[op.cur].on
        /\ snap[op.cur].manifest => file = snap[op.cur].copy
        /\ UNCHANGED <<file, backup, managed, missing>>
    BY <1>6 DEF RemoveDir, DirInv, OpInv, LoopInv
  <2>2. /\ ~snap'[op.cur].manifest
        /\ \A e \in Dirs : e # op.cur => snap'[e] = snap[e]
    BY <1>6, <2>1 DEF RemoveDir, TypeOK, NoSnap
  <2>3. \A d \in Dirs : ~snap'[d].manifest
    BY <2>1, <2>2 DEF DirInv
  <2>4. (\E g \in Files : file[g] \in Accounts) => \A f \in Files : BackedUp(f)
    BY <2>1, <2>2, <2>3 DEF HeldInv, Held
  <2> QED BY <2>1, <2>3, <2>4 DEF HeldInv, Held, BackedUp
<1> QED BY <1>1, <1>2, <1>3, <1>4, <1>5, <1>6

LEMMA HeldStep == ASSUME Calm PROVE Inv /\ [Next]_vars => HeldInv'
<1> SUFFICES ASSUME Inv, [Next]_vars PROVE HeldInv'
  OBVIOUS
<1> USE DEF Inv, SameHeld, disk, procs, history
<1>1. ASSUME NEW i \in Instances, Commands(i) \/ BeginRecover(i) \/ Crash(i) \/ CoolDown(i)
      PROVE  HeldInv'
  <2>1. SameHeld
    BY <1>1 DEF Commands, BeginSwitch, BeginCleanup, BeginStart, BeginFinish, BeginComplete,
       BeginShutdown, CloseRiot, LaunchPlain, BeginRecover, Crash, CoolDown
  <2> QED BY <2>1, QuietHeld
<1>2. CASE \/ Stop \/ StopFails \/ SetOwner \/ Launch \/ Disown \/ UnsnapFails \/ Scan
           \/ FileFails \/ LaunchFails \/ RiotUp \/ PlayerOpensRiot \/ RiotExits
  <2>1. SameHeld
    BY <1>2 DEF Stop, StopFails, SetOwner, Launch, Disown, UnsnapFails, Scan, FileFails,
       LaunchFails, RiotUp, PlayerOpensRiot, RiotExits
  <2> QED BY <2>1, QuietHeld
<1>3. ASSUME NEW f \in Files, RiotSaves(f) PROVE HeldInv'
  <2>1. PICK c \in Logins : file' = [file EXCEPT ![f] = c] /\ (c \in Accounts => UsesManaged)
    BY <1>3, KindAssumption DEF RiotSaves, Logins
  <2>2. UNCHANGED <<backup, managed, missing, snap>>
        /\ \A g \in Files : file'[g] = IF g = f THEN c ELSE file[g]
    BY <1>3, <2>1 DEF RiotSaves, TypeOK
  <2>3. CASE UsesManaged
    BY <2>2, <2>3, UsedHeld DEF HeldInv, Held, BackedUp
  <2>4. CASE c \notin Accounts
    BY <2>2, <2>4, KeptHeld
  <2> QED BY <2>1, <2>3, <2>4
<1>4. CASE UNCHANGED vars
  BY <1>4, QuietHeld DEF vars
<1>5. ~RemoveEntry
  BY DEF RemoveEntry, Calm
<1> QED BY <1>1, <1>2, <1>3, <1>4, <1>5, LaunchHeld, CleanupHeld, SandboxHeld DEF Next, Work

LEMMA HeldInit == Init => HeldInv
<1> SUFFICES ASSUME Init PROVE HeldInv
  OBVIOUS
<1>1. \A f \in Files : file[f] \notin Accounts
  BY KindAssumption, NoneAssumption DEF Init
<1>2. \A d \in Dirs : ~snap[d].manifest
  BY DEF Init, NoSnap
<1> QED BY <1>1, <1>2 DEF HeldInv

\* Between any two file operations of any command, what is on disk determines
\* the player's settings, and every command knows enough to keep it so.
THEOREM SafeCorrect == ASSUME Calm PROVE Spec => []SafeInv
<1>1. Init => Inv
  BY TypeInit, LockInit, SafeInit, HeldInit DEF Inv
<1>2. Inv /\ [Next]_vars => Inv'
  BY TypeStep, OpInvStep, LockStep, SafeStep, HeldStep DEF Inv
<1>3. Inv => SafeInv
  BY DEF Inv
<1> QED BY <1>1, <1>2, <1>3, PTL DEF Spec

\* Recovery from any state of the disk gives the player's settings back.
THEOREM RecoveryCorrect == ASSUME Calm PROVE Spec => []Recoverable
<1>1. SafeInv => Recoverable
  BY DEF SafeInv
<1> QED BY <1>1, SafeCorrect, PTL

\* The last copy of a file of the player's is never destroyed.
THEOREM OriginalsSurvive == ASSUME Calm PROVE Spec => []OriginalsKept
<1>1. Recoverable => OriginalsKept
  BY DEF Recoverable, RecoversOwn, OriginalsKept
<1> QED BY <1>1, RecoveryCorrect, PTL

\* When LAAP has put its copies away, the settings are the player's.
THEOREM CleanCorrect == ASSUME Calm PROVE Spec => []CleanMeansOriginal
<1>1. TypeOK /\ Recoverable => CleanMeansOriginal
  <2>1. ASSUME TypeOK, Recoverable, Clean PROVE IsOwn
    BY <2>1 DEF Recoverable, RecoversOwn, Clean, IsOwn
  <2> QED BY <2>1 DEF CleanMeansOriginal
<1> QED BY <1>1, TypeCorrect, RecoveryCorrect, PTL

-----------------------------------------------------------------------------
(* What a completed sign-in captures, when no file operation fails.        *)

\* No login of the player's own is among the settings.
Made == \A f \in Files : file[f] \in Accounts \cup {None}

\* A window that was given the sandbox finds only logins made in it, until the
\* command that puts the settings back has begun to.
CaptureInv ==
    /\ vault \subseteq Accounts
    /\ op.goal = "complete" => op.acct \in Accounts
    /\ op.at = "clear" => \A f \in 1 .. op.k - 1 : file[f] = None
    /\ op.at = "launch" /\ op.goal = "start" => \A f \in Files : file[f] = None
    /\ \A i \in ticket : staging[i] # None
    /\ ticket # {} /\ op.at \in {"idle", "stop"} => Made

\* A loop that is not the one that clears the settings, or its beginning.
Clears ==
    \/ op'.at = "clear" /\ op'.k # 1
    \/ op'.at = "launch" /\ op'.goal = "start"

\* A step that gives out no sandbox.
LEMMA CaptureKept ==
    ASSUME CaptureInv, UNCHANGED <<vault, staging, ticket>>, ~Clears,
           op'.goal = "complete" => op'.acct \in Accounts,
           ticket # {} /\ op'.at \in {"idle", "stop"} => Made'
    PROVE  CaptureInv'
<1>1. \A f \in 1 .. 1 - 1 : FALSE
  OBVIOUS
<1> QED BY <1>1 DEF CaptureInv, Clears

LEMMA NoTickets == ASSUME TypeOK, CaptureInv, Stopped PROVE ticket = {}
  BY DEF CaptureInv, Stopped, TypeOK

LEMMA CommandsCapture ==
    ASSUME Inv, CaptureInv, NEW i \in Instances, Commands(i) \/ BeginRecover(i)
    PROVE  CaptureInv'
<1> USE DEF disk, procs, history
<1>1. CASE CloseRiot(i) \/ LaunchPlain(i)
  BY <1>1 DEF CloseRiot, LaunchPlain, CaptureInv, Made
<1>2. CASE ~(CloseRiot(i) \/ LaunchPlain(i))
  <2>1. UNCHANGED <<file, vault, staging, ticket>> /\ op.at = "idle"
    BY <1>2 DEF Commands, BeginRecover, BeginSwitch, BeginCleanup, BeginStart, BeginFinish,
       BeginComplete, BeginShutdown, CanOperate, CanAcquire
  <2>2. ticket # {} => Made'
    BY <2>1 DEF CaptureInv, Made
  <2>3. op'.at \in {"stop", "scan"} /\ (op'.goal = "complete" => op'.acct \in Accounts)
    <3>1. ASSUME NEW a \in Accounts, BeginSwitch(i, a)
          PROVE  op'.at = "stop" /\ op'.goal = "switch"
      BY <3>1 DEF BeginSwitch, Begin, Idle
    <3>2. ASSUME NEW a \in Accounts \cup {None}, BeginCleanup(i, a)
          PROVE  op'.at = "stop" /\ op'.goal = "cleanup"
      BY <3>2, BeginFields DEF BeginCleanup
    <3>3. BeginStart(i) => op'.at = "stop" /\ op'.goal = "start"
      BY BeginFields DEF BeginStart
    <3>4. BeginFinish(i) => op'.at = "stop" /\ op'.goal = "finish"
      BY DEF BeginFinish, Begin, Idle
    <3>5. CASE BeginComplete(i)
      <4>1. PICK f \in Files :
              /\ FirstLogin(f)
              /\ op' = [Begin(i, "complete", "stop") EXCEPT !.cur = staging[i], !.acct = file[f]]
        BY <3>5 DEF BeginComplete
      <4>2. file[f] \in Accounts
        BY <2>1, <3>5, <4>1 DEF BeginComplete, CaptureInv, Made, FirstLogin
      <4>3. op'.at = "stop" /\ op'.acct = file[f]
        BY <4>1 DEF Begin, Idle
      <4> QED BY <4>2, <4>3
    <3>6. BeginShutdown(i) => op'.at = "stop" /\ op'.goal \in {"shutdown", "cleanup"}
      BY BeginFields DEF BeginShutdown, Begin, Idle
    <3>7. BeginRecover(i) => op'.at = "scan" /\ op'.goal = "recover"
      BY BeginFields DEF BeginRecover
    <3> QED BY <1>2, <3>1, <3>2, <3>3, <3>4, <3>5, <3>6, <3>7 DEF Commands
  <2> QED BY <2>1, <2>2, <2>3, CaptureKept DEF Clears
<1> QED BY <1>1, <1>2

\* The work of a command while no sandbox lives.
LEMMA StoppedCapture ==
    ASSUME Inv, CaptureInv,
           \/ Backup \/ Marker \/ Write \/ SetOwner \/ PutBack \/ Drop \/ Unmark \/ Disown
           \/ MakeDir \/ Snap \/ Manifest \/ Scan
    PROVE  CaptureInv'
<1> USE OpFields DEF Inv, procs, history
<1>1. UNCHANGED <<vault, staging, ticket>>
  BY DEF Backup, Marker, Write, SetOwner, PutBack, Drop, Unmark, Disown, MakeDir, Snap,
     Manifest, Scan
<1>2. Stopped
  <2>1. op.at # "idle" /\ \/ op.goal \in {"switch", "cleanup", "recover"}
                          \/ op.goal = "start" /\ op.at # "launch"
    BY DEF Backup, Marker, Write, SetOwner, PutBack, Drop, Unmark, Disown, MakeDir, Snap,
       Manifest, Scan, OpInv
  <2> QED BY <2>1 DEF LockInv
<1>3. ~Clears /\ op'.goal # "complete"
  <2>1. CASE Backup
    BY <2>1, BackupFields DEF Backup, OpInv, Clears
  <2>2. CASE Write
    BY <2>2, AdvanceFields DEF Write, OpInv, Clears, Labels
  <2>3. CASE PutBack \/ Drop
    BY <2>3, AdvanceFields DEF PutBack, Drop, OpInv, Clears, Labels
  <2>4. CASE Snap
    BY <2>4, AdvanceFields DEF Snap, OpInv, Clears, Labels
  <2>5. CASE Marker \/ SetOwner \/ Unmark
    BY <2>5, GotoFields DEF Marker, SetOwner, Unmark, OpInv, Clears, Labels
  <2>6. CASE Manifest
    BY <2>6, GotoFields DEF Manifest, OpInv, Clears, Labels
  <2>7. CASE Disown
    BY <2>7, IdleFields DEF Disown, Clears
  <2>8. CASE MakeDir \/ Scan
    <3>1. Goto("snap") \in OpType /\ Goto("unsnap") \in OpType /\ Goto("rmdir") \in OpType
      BY GotoType DEF Labels
    <3>2. /\ Goto("snap").at = "snap" /\ Goto("unsnap").at = "unsnap"
          /\ Goto("rmdir").at = "rmdir" /\ Goto("putback").at = "putback"
          /\ \A l \in {"snap", "unsnap", "rmdir", "putback"} : Goto(l).goal = op.goal
      BY GotoFields DEF Labels
    <3>3. op.goal \in {"start", "recover"}
      BY <2>8 DEF MakeDir, Scan, OpInv
    <3>4. \/ \E l \in {"snap", "unsnap", "rmdir"}, d \in Dirs : op' = [Goto(l) EXCEPT !.cur = d]
          \/ op' = Goto("putback") \/ op' = Idle
      BY <2>8 DEF MakeDir, Scan
    <3>5. ASSUME NEW l \in {"snap", "unsnap", "rmdir"}, NEW d \in Dirs,
                 op' = [Goto(l) EXCEPT !.cur = d]
          PROVE  op'.at = Goto(l).at /\ op'.goal = Goto(l).goal
      BY <3>1, <3>5 DEF OpType
    <3> QED BY <3>2, <3>3, <3>4, <3>5, IdleFields DEF Clears
  <2> QED BY <2>1, <2>2, <2>3, <2>4, <2>5, <2>6, <2>7, <2>8
<1> QED BY <1>1, <1>2, <1>3, NoTickets, CaptureKept

\* The rest of a command's work.
LEMMA WorkCapture ==
    ASSUME Inv, CaptureInv, Stop \/ StopFails \/ Clear \/ Launch \/ Unsnap \/ UnsnapFails
                            \/ RemoveDir
    PROVE  CaptureInv'
<1> USE OpFields DEF Inv, procs, history
<1>1. CASE Stop
  <2>1. /\ op'.at \in {"write", "backup", "putback", "mkdir", "unsnap"}
        /\ op'.goal = op.goal /\ op'.acct = op.acct
    BY <1>1, GotoFields DEF Stop, AfterStop, Labels, Kept
  <2> QED BY <1>1, <2>1, CaptureKept DEF Stop, Clears, CaptureInv
<1>2. CASE StopFails
  <2>1. ticket # {} => Made'
    BY <1>2 DEF StopFails, disk, CaptureInv, Made
  <2> QED BY <1>2, <2>1, IdleFields, CaptureKept DEF StopFails, Clears
<1>3. CASE Clear
  <2>1. /\ Stopped /\ ticket = {} /\ op.goal = "start"
        /\ \A f \in 1 .. op.k - 1 : file[f] = None
    <3>1. Stopped /\ op.goal = "start"
      BY <1>3 DEF Clear, OpInv, LockInv
    <3> QED BY <1>3, <3>1, NoTickets DEF Clear, CaptureInv
  <2>2. \A f \in 1 .. op.k : file'[f] = None
    <3>1. \A f \in 1 .. op.k : f \in Files /\ (f = op.k \/ f \in 1 .. op.k - 1)
      BY NAssumption DEF Files
    <3> QED BY <1>3, <2>1, <3>1 DEF Clear, TypeOK
  <2>3. UNCHANGED <<vault, ticket>> /\ op'.goal = "start"
    BY <1>3, <2>1, AdvanceFields DEF Clear, Labels
  <2>4. CASE op.k < N
    <3>1. op'.at = "clear" /\ op'.k - 1 = op.k
      BY <1>3, <2>4, AdvanceFields, NAssumption DEF Clear, Labels, Files
    <3> QED BY <2>1, <2>2, <2>3, <3>1 DEF CaptureInv
  <2>5. CASE ~(op.k < N)
    <3>1. op'.at = "launch" /\ Files = 1 .. op.k
      BY <1>3, <2>5, AdvanceFields, NAssumption DEF Clear, Labels, Files
    <3> QED BY <2>1, <2>2, <2>3, <3>1 DEF CaptureInv
  <2> QED BY <2>4, <2>5
<1>4. CASE Launch
  <2>1. /\ UNCHANGED <<file, vault, staging>> /\ op.at = "launch"
        /\ ticket' = IF op.goal = "start" THEN ticket \cup {op.by} ELSE ticket
        /\ op'.at = "idle" /\ op'.goal = "none"
    BY <1>4, IdleFields DEF Launch, disk
  <2>2. CASE op.goal = "start"
    <3>1. Made' /\ staging[op.by] # None
      BY <2>1, <2>2 DEF CaptureInv, LockInv, Made
    <3> QED BY <2>1, <2>2, <3>1 DEF CaptureInv
  <2>3. CASE op.goal # "start"
    <3>1. op.goal = "switch"
      BY <2>1, <2>3 DEF OpInv
    <3>2. ticket = {}
      BY <2>1, <3>1, NoTickets DEF LockInv
    <3> QED BY <2>1, <2>3, <3>2 DEF CaptureInv
  <2> QED BY <2>2, <2>3
<1>5. CASE Unsnap
  <2>1. op'.at \in {"unsnap", "rmdir"} /\ op'.goal = op.goal /\ op'.acct = op.acct
    BY <1>5, AdvanceFields DEF Unsnap, Labels, Kept
  <2> QED BY <1>5, <2>1, CaptureKept DEF Unsnap, Clears, CaptureInv
<1>6. ~UnsnapFails
  BY DEF UnsnapFails, SafeInv, DirInv, OpInv
<1>7. CASE RemoveDir
  <2>1. /\ vault' \subseteq Accounts
        /\ \/ op'.at = "idle" /\ op'.goal = "none"
           \/ op'.at = "scan" /\ op'.goal = "recover"
           \/ op'.at = "stop" /\ op'.goal = "cleanup"
    <3>1. vault' \subseteq Accounts
      BY <1>7 DEF RemoveDir, CaptureInv
    <3>2. Goto("scan") \in OpType /\ GotoFor("cleanup", "stop") \in OpType
      BY GotoType, GotoForType DEF Labels, Goals
    <3>3. \/ op' = Idle
          \/ op.goal = "recover" /\ op' = [Goto("scan") EXCEPT !.cur = None]
          \/ op' = [GotoFor("cleanup", "stop") EXCEPT !.cur = None]
      BY <1>7 DEF RemoveDir, AfterRemove
    <3>4. /\ [Goto("scan") EXCEPT !.cur = None].at = Goto("scan").at
          /\ [Goto("scan") EXCEPT !.cur = None].goal = Goto("scan").goal
          /\ [GotoFor("cleanup", "stop") EXCEPT !.cur = None].at = GotoFor("cleanup", "stop").at
          /\ [GotoFor("cleanup", "stop") EXCEPT !.cur = None].goal
             = GotoFor("cleanup", "stop").goal
      BY <3>2 DEF OpType
    <3>5. "scan" \in Labels /\ "stop" \in Labels /\ "cleanup" \in Goals
      BY DEF Labels, Goals
    <3>6. /\ Goto("scan").at = "scan" /\ Goto("scan").goal = op.goal
          /\ GotoFor("cleanup", "stop").at = "stop" /\ GotoFor("cleanup", "stop").goal = "cleanup"
      BY <3>5, GotoFields, GotoForFields
    <3> QED BY <3>1, <3>3, <3>4, <3>6, IdleFields
  <2>2. ticket' = {}
    <3>1. ASSUME NEW i \in ticket PROVE i = op.by /\ op.goal # "recover"
      <4>1. i \in Instances /\ staging[i] # None /\ op.at = "rmdir"
        BY <1>7 DEF CaptureInv, TypeOK, RemoveDir
      <4> QED BY <4>1 DEF LockInv, OneSandbox, Stopped
    <3> QED BY <1>7, <3>1 DEF RemoveDir
  <2> QED BY <2>1, <2>2 DEF CaptureInv
<1> QED BY <1>1, <1>2, <1>3, <1>4, <1>5, <1>6, <1>7

\* What happens to a command, and around it.
LEMMA OtherCapture ==
    ASSUME Inv, CaptureInv,
           \/ LaunchFails \/ RiotUp \/ PlayerOpensRiot \/ RiotExits
           \/ \E f \in Files : RiotSaves(f)
           \/ \E i \in Instances : Crash(i) \/ CoolDown(i)
           \/ UNCHANGED vars
    PROVE  CaptureInv'
<1> USE OpFields DEF Inv, disk, procs, history
<1>1. CASE LaunchFails
  <2>1. UNCHANGED <<file, vault, staging, ticket>> /\ op.at = "launch"
    BY <1>1 DEF LaunchFails
  <2>2. op'.at = "stop" /\ op'.goal \in {"cleanup", "finish"}
    <3>1. "stop" \in Labels /\ "cleanup" \in Goals /\ "finish" \in Goals
      BY DEF Labels, Goals
    <3> QED BY <1>1, <3>1, GotoForFields DEF LaunchFails
  <2>3. ticket # {} => Made'
    <3>1. op.goal = "switch" => ticket = {}
      BY <2>1, NoTickets DEF LockInv
    <3>2. op.goal = "start" => Made'
      BY <2>1 DEF CaptureInv, Made
    <3> QED BY <2>1, <3>1, <3>2 DEF OpInv
  <2> QED BY <2>1, <2>2, <2>3, CaptureKept DEF Clears
<1>2. CASE UNCHANGED <<file, op, staging, ticket, vault>>
  BY <1>2 DEF CaptureInv, Made
<1>3. ASSUME NEW f \in Files, RiotSaves(f) PROVE CaptureInv'
  <2>1. /\ riot = "on" /\ UNCHANGED <<op, staging, ticket, vault>>
        /\ \E c \in Logins : file' = [file EXCEPT ![f] = c] /\ (c \in Accounts \/ UsesPlayers)
    BY <1>3 DEF RiotSaves, Logins
  <2>2. op.at \in {"idle", "stop"}
    BY <2>1 DEF SafeInv, LoopInv
  <2>3. ASSUME ticket # {} PROVE Made'
    <3>1. PICK i \in ticket : i \in Instances /\ staging[i] # None
      BY <2>3 DEF CaptureInv, TypeOK
    <3>2. Made
      BY <2>2, <2>3 DEF CaptureInv
    <3>3. ~UsesPlayers
      BY <3>1, <3>2, KindAssumption, NoneAssumption DEF UsesPlayers, Stopped, Made
    <3> QED BY <2>1, <3>2, <3>3 DEF Made, TypeOK
  <2> QED BY <2>1, <2>2, <2>3 DEF CaptureInv
<1>4. ASSUME NEW i \in Instances, Crash(i) PROVE CaptureInv'
  <2>1. /\ UNCHANGED <<file, vault>> /\ ticket' = ticket \ {i}
        /\ staging' = [staging EXCEPT ![i] = None]
        /\ op' = IF op.by = i THEN Idle ELSE op
    BY <1>4 DEF Crash
  <2>2. \A j \in ticket' : j \in ticket /\ staging'[j] # None
    BY <2>1 DEF CaptureInv, TypeOK
  <2>3. CASE op' = op
    BY <2>1, <2>2, <2>3 DEF CaptureInv, Made
  <2>4. CASE op.by = i
    <3>1. ticket' # {} => op.at = "idle"
      BY <2>1, <2>2, <2>4 DEF CaptureInv, LockInv, OneSandbox, TypeOK
    <3> QED BY <2>1, <2>2, <2>4, <3>1, IdleFields DEF CaptureInv, Made
  <2> QED BY <2>1, <2>3, <2>4
<1> QED BY <1>1, <1>2, <1>3, <1>4 DEF RiotUp, PlayerOpensRiot, RiotExits, CoolDown, vars

\* When no file operation fails, a sign-in that is completed stores a login that
\* was made inside its sandbox, whichever processes died before and whatever Riot
\* saved meanwhile.
THEOREM CapturesOwnSandbox ==
    ASSUME Calm, Faults = {} PROVE Spec => []CapturedIsSandboxLogin
<1>1. Init => Inv /\ CaptureInv
  BY TypeInit, LockInit, SafeInit, HeldInit, IdleFields DEF Inv, Init, CaptureInv
<1>2. Inv /\ [Next]_vars => Inv'
  BY TypeStep, OpInvStep, LockStep, SafeStep, HeldStep DEF Inv
<1>3. Inv /\ CaptureInv /\ [Next]_vars => CaptureInv'
  <2>1. ~RemoveEntry /\ ~FileFails
    BY DEF RemoveEntry, FileFails
  <2> QED BY <2>1, CommandsCapture, StoppedCapture, WorkCapture, OtherCapture DEF Next, Work
<1>4. CaptureInv => CapturedIsSandboxLogin
  BY DEF CaptureInv, CapturedIsSandboxLogin
<1> QED BY <1>1, <1>2, <1>3, <1>4, PTL DEF Spec

-----------------------------------------------------------------------------
(* What recovery leaves alone, when no file operation fails and one process *)
(* of LAAP runs.                                                           *)

Plain == ~managed /\ \A f \in Files : backup[f] = None

\* A client that nobody remembers launching was launched before a death.  The
\* pass that came next left nothing to recover, and every command since then ends
\* as it began or launches another client.
SparedInv ==
    /\ op.at = "idle" => op.goal = "none"
    /\ op.goal = "recover" => op.by \notin cool
    /\ riot = "starting" /\ ~crashed /\ cool = {} =>
        /\ op.goal \notin {"complete", "shutdown"}
        /\ op.goal \notin {"switch", "cleanup"} => Plain
        /\ op.goal \in {"none", "recover"} => Stopped

\* A step that goes on with a command.
LEMMA SparedKept ==
    ASSUME SparedInv, op'.at # "idle", op'.goal = op.goal, op'.by = op.by,
           UNCHANGED <<staging, cool, crashed>>, riot' \in {riot, "off", "on"},
           op.goal \in {"switch", "cleanup"} \/ (Plain => Plain')
    PROVE  SparedInv'
  BY DEF SparedInv, Stopped

LEMMA CommandsSpare ==
    ASSUME Inv, SparedInv, NEW i \in Instances, Commands(i) \/ BeginRecover(i)
    PROVE  SparedInv'
<1> USE DEF disk, procs, history
<1>1. CASE CloseRiot(i) \/ LaunchPlain(i)
  BY <1>1 DEF CloseRiot, LaunchPlain, CanOperate, CanAcquire, SparedInv
<1>2. CASE ~(CloseRiot(i) \/ LaunchPlain(i))
  <2>1. UNCHANGED <<backup, managed, staging, cool, riot, crashed>> /\ op.at = "idle"
    BY <1>2 DEF Commands, BeginRecover, BeginSwitch, BeginCleanup, BeginStart, BeginFinish,
       BeginComplete, BeginShutdown, CanOperate, CanAcquire
  <2>2. riot = "starting" /\ ~crashed /\ cool = {} => Plain /\ Stopped
    BY <2>1 DEF SparedInv
  <2>3. /\ op'.at \in {"stop", "scan"} /\ op'.goal \notin {"none"}
        /\ op'.goal \in {"complete", "shutdown"} => staging[i] # None
        /\ op'.goal = "recover" => op'.by = i /\ i \notin cool
    <3>1. ASSUME NEW a \in Accounts, BeginSwitch(i, a)
          PROVE  op'.at = "stop" /\ op'.goal = "switch"
      BY <3>1 DEF BeginSwitch, Begin, Idle
    <3>2. ASSUME NEW a \in Accounts \cup {None}, BeginCleanup(i, a)
          PROVE  op'.at = "stop" /\ op'.goal = "cleanup"
      BY <3>2, BeginFields DEF BeginCleanup
    <3>3. BeginStart(i) => op'.at = "stop" /\ op'.goal = "start"
      BY BeginFields DEF BeginStart
    <3>4. BeginFinish(i) => op'.at = "stop" /\ op'.goal = "finish"
      BY DEF BeginFinish, Begin, Idle
    <3>5. BeginComplete(i) => op'.at = "stop" /\ op'.goal = "complete" /\ staging[i] # None
      BY DEF BeginComplete, Begin, Idle
    <3>6. BeginShutdown(i) => /\ op'.at = "stop"
                              /\ \/ op'.goal = "shutdown" /\ staging[i] # None
                                 \/ op'.goal = "cleanup"
      BY BeginFields DEF BeginShutdown, Begin, Idle
    <3>7. BeginRecover(i) => /\ op'.at = "scan" /\ op'.goal = "recover"
                             /\ op'.by = i /\ i \notin cool
      BY BeginFields DEF BeginRecover
    <3> QED BY <1>2, <3>1, <3>2, <3>3, <3>4, <3>5, <3>6, <3>7 DEF Commands
  <2> QED BY <2>1, <2>2, <2>3 DEF SparedInv, Plain, Stopped
<1> QED BY <1>1, <1>2

\* Steps within a command, by what they do to the backups.
LEMMA StepsSpare ==
    ASSUME Inv, SparedInv,
           \/ Stop \/ Backup \/ Marker \/ Write \/ SetOwner \/ PutBack \/ Drop \/ Unmark
           \/ MakeDir \/ Snap \/ Manifest \/ Unsnap
    PROVE  SparedInv'
<1> USE OpFields DEF Inv, procs, history
<1>1. CASE Stop
  <2>1. op'.at # "idle" /\ op'.goal = op.goal /\ op'.by = op.by
    BY <1>1, GotoFields DEF Stop, AfterStop, Labels, Kept
  <2>2. UNCHANGED <<backup, managed, staging, cool, crashed>> /\ riot' \in {riot, "off"}
    BY <1>1 DEF Stop, disk
  <2> QED BY <2>1, <2>2, SparedKept DEF Plain
<1>2. CASE Backup
  <2>1. op'.at # "idle" /\ op'.goal = op.goal /\ op'.by = op.by /\ op.goal = "switch"
    BY <1>2, BackupFields DEF Backup, OpInv, Kept
  <2> QED BY <1>2, <2>1, SparedKept DEF Backup
<1>3. CASE Marker \/ Unmark
  <2>1. op'.at # "idle" /\ op'.goal = op.goal /\ op'.by = op.by
    BY <1>3, GotoFields DEF Marker, Unmark, Labels, Kept
  <2>2. op.goal = "switch" \/ (Plain => Plain')
    BY <1>3 DEF Marker, Unmark, OpInv, Plain
  <2> QED BY <1>3, <2>1, <2>2, SparedKept DEF Marker, Unmark
<1>4. CASE Write \/ PutBack \/ Drop \/ Snap \/ Unsnap
  <2>1. op'.at # "idle" /\ op'.goal = op.goal /\ op'.by = op.by
    BY <1>4, AdvanceFields DEF Write, PutBack, Drop, Snap, Unsnap, Labels, Kept
  <2>2. Plain => Plain'
    BY <1>4 DEF Write, PutBack, Drop, Snap, Unsnap, Plain, TypeOK
  <2> QED BY <1>4, <2>1, <2>2, SparedKept DEF Write, PutBack, Drop, Snap, Unsnap
<1>5. CASE SetOwner \/ Manifest
  <2>1. op'.at # "idle" /\ op'.goal = op.goal /\ op'.by = op.by
    BY <1>5, GotoFields DEF SetOwner, Manifest, Labels, Kept
  <2> QED BY <1>5, <2>1, SparedKept DEF SetOwner, Manifest, Plain
<1>6. CASE MakeDir
  <2>1. Goto("snap") \in OpType /\ Goto("snap").at = "snap" /\ Goto("snap").goal = op.goal
        /\ Goto("snap").by = op.by
    BY GotoType, GotoFields DEF Labels, Kept
  <2>2. op'.at # "idle" /\ op'.goal = op.goal /\ op'.by = op.by
    BY <1>6, <2>1 DEF MakeDir, OpType
  <2> QED BY <1>6, <2>2, SparedKept DEF MakeDir, Plain
<1> QED BY <1>1, <1>2, <1>3, <1>4, <1>5, <1>6

\* Steps that register a sandbox, launch, or end a command or a sandbox.
LEMMA EndsSpare ==
    ASSUME Inv, SparedInv, Clear \/ Launch \/ Disown \/ Scan \/ StopFails \/ UnsnapFails
                           \/ LaunchFails
    PROVE  SparedInv'
<1> USE OpFields, IdleFields DEF Inv, procs, history
<1>1. CASE Clear
  <2>1. op'.at # "idle" /\ op'.goal = "start"
    BY <1>1, AdvanceFields DEF Clear, OpInv, Labels
  <2>2. op.goal = "start" /\ UNCHANGED <<backup, managed, cool, riot, crashed>>
    BY <1>1 DEF Clear, OpInv
  <2> QED BY <2>1, <2>2 DEF SparedInv, Plain
<1>2. CASE Launch
  BY <1>2 DEF Launch, SparedInv
<1>3. CASE Disown
  <2>1. Plain' /\ Stopped'
    BY <1>3 DEF Disown, OpInv, SafeInv, LoopInv, LockInv, Plain, Stopped
  <2> QED BY <1>3, <2>1 DEF Disown, SparedInv
<1>4. CASE Scan
  <2>1. /\ op.at = "scan" /\ op.goal = "recover" /\ Stopped'
        /\ UNCHANGED <<backup, managed, cool, riot>>
    BY <1>4 DEF Scan, OpInv, LockInv, Stopped, disk
  <2>2. CASE op' = Idle
    <3>1. /\ Goto("putback").at = "putback"
          /\ \A l \in {"unsnap", "rmdir"} : Goto(l) \in OpType /\ Goto(l).at = l
      BY GotoType, GotoFields DEF Labels
    <3>2. \A l \in {"unsnap", "rmdir"}, d \in Dirs : [Goto(l) EXCEPT !.cur = d].at = l
      BY <3>1 DEF OpType
    <3>3. Plain
      BY <1>4, <2>2, <3>1, <3>2 DEF Scan, Plain
    <3> QED BY <2>1, <2>2, <3>3 DEF SparedInv, Plain
  <2>3. CASE op' # Idle
    <3>1. \A l \in {"unsnap", "rmdir", "putback"} :
              /\ Goto(l) \in OpType /\ Goto(l).at = l
              /\ Goto(l).goal = op.goal /\ Goto(l).by = op.by
      BY GotoType, GotoFields DEF Labels, Kept
    <3>2. \A l \in {"unsnap", "rmdir"}, d \in Dirs :
              /\ [Goto(l) EXCEPT !.cur = d].at = l
              /\ [Goto(l) EXCEPT !.cur = d].goal = op.goal
              /\ [Goto(l) EXCEPT !.cur = d].by = op.by
      BY <3>1 DEF OpType
    <3>3. /\ UNCHANGED <<staging, cool, crashed>>
          /\ \/ op' = Goto("putback")
             \/ \E l \in {"unsnap", "rmdir"}, d \in Dirs : op' = [Goto(l) EXCEPT !.cur = d]
      BY <1>4, <2>3 DEF Scan
    <3>4. op'.at # "idle" /\ op'.goal = op.goal /\ op'.by = op.by
      <4>1. CASE op' = Goto("putback")
        BY <3>1, <4>1
      <4>2. ASSUME NEW l \in {"unsnap", "rmdir"}, NEW d \in Dirs,
                   op' = [Goto(l) EXCEPT !.cur = d]
            PROVE  op'.at = l /\ op'.goal = op.goal /\ op'.by = op.by
        BY <3>2, <4>2
      <4> QED BY <3>3, <4>1, <4>2
    <3>5. Plain => Plain'
      BY <2>1 DEF Plain
    <3> QED BY <2>1, <3>3, <3>4, <3>5, SparedKept
  <2> QED BY <2>2, <2>3
<1>5. CASE StopFails
  BY <1>5 DEF StopFails, SparedInv
<1>6. ~UnsnapFails
  BY DEF UnsnapFails, SafeInv, DirInv, OpInv
<1>7. CASE LaunchFails
  <2>1. "stop" \in Labels /\ "cleanup" \in Goals /\ "finish" \in Goals
    BY DEF Labels, Goals
  <2>2. /\ op'.at = "stop"
        /\ op'.goal = IF op.goal = "switch" THEN "cleanup" ELSE "finish"
    BY <1>7, <2>1, GotoForFields DEF LaunchFails
  <2>3. UNCHANGED <<backup, managed, staging, cool, riot, crashed>>
        /\ op.goal \in {"switch", "start"}
    BY <1>7 DEF LaunchFails, OpInv, disk
  <2> QED BY <2>2, <2>3 DEF SparedInv, Plain
<1> QED BY <1>1, <1>2, <1>3, <1>4, <1>5, <1>6, <1>7

LEMMA RemovalSpares ==
    ASSUME Inv, SparedInv, RemoveDir
    PROVE  SparedInv'
<1> USE OpFields, IdleFields DEF Inv
<1>1. /\ UNCHANGED <<backup, managed, cool, riot, crashed>> /\ op.at = "rmdir"
      /\ staging' = IF op.goal = "recover" THEN staging ELSE [staging EXCEPT ![op.by] = None]
  BY DEF RemoveDir
<1>2. CASE op.goal = "recover"
  <2>1. Goto("scan") \in OpType /\ Goto("scan").at = "scan" /\ Goto("scan").goal = op.goal
        /\ Goto("scan").by = op.by
    BY GotoType, GotoFields DEF Labels, Kept
  <2>2. op'.at = "scan" /\ op'.goal = op.goal /\ op'.by = op.by
    BY <1>2, <2>1 DEF RemoveDir, AfterRemove, OpType
  <2> QED BY <1>1, <1>2, <2>2, SparedKept DEF Plain
<1>3. CASE op.goal = "shutdown"
  <2>1. "stop" \in Labels /\ "cleanup" \in Goals
    BY DEF Labels, Goals
  <2>2. GotoFor("cleanup", "stop") \in OpType /\ GotoFor("cleanup", "stop").at = "stop"
        /\ GotoFor("cleanup", "stop").goal = "cleanup"
    BY <2>1, GotoForType, GotoForFields
  <2>3. op'.at = "stop" /\ op'.goal = "cleanup"
    BY <1>3, <2>2 DEF RemoveDir, AfterRemove, OpType
  <2> QED BY <1>1, <1>3, <2>3 DEF SparedInv
<1>4. CASE op.goal \notin {"recover", "shutdown"}
  <2>1. op' = Idle
    BY <1>4 DEF RemoveDir, AfterRemove
  <2>2. op.goal \in {"start", "finish", "complete"} /\ op.by \in Instances
    BY <1>1, <1>4 DEF OpInv, SafeInv, DirInv
  <2>3. Stopped'
    BY <1>1, <1>4, <2>2 DEF LockInv, OneSandbox, Stopped, TypeOK
  <2> QED BY <1>1, <2>1, <2>2, <2>3 DEF SparedInv, Plain
<1> QED BY <1>2, <1>3, <1>4

LEMMA OthersSpare ==
    ASSUME SparedInv,
           \/ RiotUp \/ PlayerOpensRiot \/ RiotExits
           \/ \E f \in Files : RiotSaves(f)
           \/ \E i \in Instances : Crash(i) \/ CoolDown(i)
           \/ UNCHANGED vars
    PROVE  SparedInv'
<1> USE IdleFields DEF disk, procs, history
<1>1. CASE RiotUp \/ PlayerOpensRiot \/ RiotExits
  BY <1>1 DEF RiotUp, PlayerOpensRiot, RiotExits, SparedInv
<1>2. ASSUME NEW f \in Files, RiotSaves(f) PROVE SparedInv'
  BY <1>2 DEF RiotSaves, SparedInv
<1>3. ASSUME NEW i \in Instances, Crash(i) PROVE SparedInv'
  BY <1>3 DEF Crash, SparedInv
<1>4. ASSUME NEW i \in Instances, CoolDown(i) PROVE SparedInv'
  BY <1>4 DEF CoolDown, SparedInv
<1>5. CASE UNCHANGED vars
  BY <1>5 DEF vars, SparedInv, Plain, Stopped
<1> QED BY <1>1, <1>2, <1>3, <1>4, <1>5

\* On a computer with one LAAP whose file operations succeed, the recovery timer
\* never rewrites the settings of a client that LAAP launched and that is not
\* listed yet, however long the player leaves it so.
THEOREM RecoverySpares ==
    ASSUME Calm, Faults = {}, \A i, j \in Instances : i = j
    PROVE  Spec => RecoverySparesLaunch
<1>1. Init => Inv /\ SparedInv
  BY TypeInit, LockInit, SafeInit, HeldInit, IdleFields DEF Inv, Init, SparedInv
<1>2. Inv /\ [Next]_vars => Inv'
  BY TypeStep, OpInvStep, LockStep, SafeStep, HeldStep DEF Inv
<1>3. Inv /\ SparedInv /\ [Next]_vars => SparedInv'
  <2>1. ~RemoveEntry /\ ~FileFails
    BY DEF RemoveEntry, FileFails
  <2> QED BY <2>1, CommandsSpare, StepsSpare, EndsSpare, RemovalSpares, OthersSpare
          DEF Next, Work
<1>4. Inv /\ SparedInv /\ [Next]_vars
      => (op.goal = "recover" /\ riot = "starting" /\ ~crashed => UNCHANGED file)
  <2> SUFFICES ASSUME Inv, SparedInv, [Next]_vars,
                      op.goal = "recover", riot = "starting", ~crashed
               PROVE  UNCHANGED file
    OBVIOUS
  <2> USE DEF Inv
  <2>1. cool = {} /\ op.at # "idle"
    BY DEF SparedInv, OpInv, TypeOK
  <2>2. Plain /\ Stopped
    BY <2>1 DEF SparedInv
  <2>3. op.at # "unsnap"
    BY <2>2, NoneAssumption DEF OpInv, SafeInv, DirInv, Stopped
  <2>4. CASE PutBack
    BY <2>2, <2>4, OpFields DEF PutBack, Plain
  <2>5. CASE ~PutBack
    <3>1. ~Write /\ ~Clear /\ ~Unsnap /\ ~RemoveEntry /\ ~FileFails
      BY <2>3 DEF Write, Clear, Unsnap, OpInv, RemoveEntry, FileFails
    <3>2. ASSUME NEW i \in Instances, Commands(i) \/ BeginRecover(i) PROVE UNCHANGED file
      BY <2>1, <3>2 DEF Commands, BeginRecover, BeginSwitch, BeginCleanup, BeginStart,
         BeginFinish, BeginComplete, BeginShutdown, CloseRiot, LaunchPlain, CanOperate,
         CanAcquire
    <3>3. ASSUME NEW f \in Files, RiotSaves(f) PROVE FALSE
      BY <3>3 DEF RiotSaves
    <3>4. ASSUME NEW i \in Instances, Crash(i) \/ CoolDown(i) PROVE UNCHANGED file
      BY <3>4 DEF Crash, CoolDown, disk
    <3>5. CASE Work
      BY <2>5, <3>1, <3>5 DEF Work, Stop, StopFails, Backup, Marker, SetOwner, Launch, Drop,
         Unmark, Disown, MakeDir, Snap, Manifest, UnsnapFails, RemoveDir, Scan, disk
    <3>6. CASE LaunchFails \/ RiotUp \/ PlayerOpensRiot \/ RiotExits \/ UNCHANGED vars
      BY <3>6 DEF LaunchFails, RiotUp, PlayerOpensRiot, RiotExits, vars, disk
    <3> QED BY <3>1, <3>2, <3>3, <3>4, <3>5, <3>6 DEF Next
  <2> QED BY <2>4, <2>5
<1> QED BY <1>1, <1>2, <1>3, <1>4, PTL DEF Spec, RecoverySparesLaunch

=============================================================================
