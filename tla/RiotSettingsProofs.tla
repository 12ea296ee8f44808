------------------------- MODULE RiotSettingsProofs -------------------------
(***************************************************************************)
(* Proofs about RiotSettings for any number of processes, settings files   *)
(* and accounts.  The types and the sandbox lock are proved in every       *)
(* environment: any faults, any crashes, Riot starting at any moment.      *)
(***************************************************************************)
EXTENDS RiotSettings, TLAPS

-----------------------------------------------------------------------------
(* The record of the running command.                                      *)

LEMMA FirstFile == 1 \in Files
  BY NAssumption DEF Files

LEMMA NextFile == ASSUME NEW k \in Files, k < N PROVE k + 1 \in Files
  BY NAssumption DEF Files

LEMMA GotoType == ASSUME op \in OpType, NEW l \in Labels PROVE Goto(l) \in OpType
  BY FirstFile DEF OpType, Goto

LEMMA GotoForType ==
    ASSUME op \in OpType, NEW g \in Goals, NEW l \in Labels
    PROVE  GotoFor(g, l) \in OpType
  BY FirstFile DEF OpType, GotoFor

LEMMA AdvanceType ==
    ASSUME NEW o \in OpType, NEW l \in Labels
    PROVE  Advance(o, l) \in OpType
  BY FirstFile, NextFile DEF OpType, Advance

LEMMA IdleType == Idle \in OpType
  BY FirstFile DEF Idle, Labels, Goals, Contents, OpType

LEMMA BeginType ==
    ASSUME NEW i \in Instances, NEW g \in Goals, NEW l \in Labels
    PROVE  Begin(i, g, l) \in OpType
  BY IdleType DEF Begin, OpType

LEMMA NoSnapType == NoSnap \in SnapType
  BY DEF NoSnap, SnapType, Contents

\* The fields of the record.
LEMMA OpFields ==
    ASSUME TypeOK
    PROVE  /\ op.k \in Files /\ op.acct \in Contents /\ op.by \in Instances \cup {None}
           /\ op.cur \in Dirs \cup {None} /\ op.absent \in SUBSET Files
           /\ op \in OpType
  BY DEF TypeOK, OpType

-----------------------------------------------------------------------------
(* Types.                                                                  *)

\* A step that begins a command.
LEMMA CommandsType ==
    ASSUME TypeOK, NEW i \in Instances, Commands(i)
    PROVE  TypeOK'
<1> USE DEF disk, procs, history
<1>1. ASSUME NEW a \in Accounts, BeginSwitch(i, a) PROVE TypeOK'
  <2>1. Begin(i, "switch", "stop") \in OpType
    BY BeginType DEF Goals, Labels
  <2>2. [Begin(i, "switch", "stop") EXCEPT !.acct = a] \in OpType
    BY <2>1 DEF OpType, Contents, Logins
  <2> QED BY <1>1, <2>2 DEF BeginSwitch, TypeOK
<1>2. ASSUME NEW a \in Accounts \cup {None}, BeginCleanup(i, a) PROVE TypeOK'
  <2>1. Begin(i, "cleanup", "stop") \in OpType
    BY BeginType DEF Goals, Labels
  <2> QED BY <1>2, <2>1 DEF BeginCleanup, TypeOK
<1>3. CASE BeginStart(i)
  <2>1. Begin(i, "start", "stop") \in OpType
    BY BeginType DEF Goals, Labels
  <2> QED BY <1>3, <2>1 DEF BeginStart, TypeOK
<1>4. CASE BeginFinish(i)
  <2>1. Begin(i, "finish", "stop") \in OpType
    BY BeginType DEF Goals, Labels
  <2>2. [Begin(i, "finish", "stop") EXCEPT !.cur = staging[i]] \in OpType
    BY <2>1 DEF OpType, TypeOK
  <2> QED BY <1>4, <2>2 DEF BeginFinish, TypeOK
<1>5. CASE BeginComplete(i)
  <2>1. Begin(i, "complete", "stop") \in OpType
    BY BeginType DEF Goals, Labels
  <2>2. PICK f \in Files :
          op' = [Begin(i, "complete", "stop") EXCEPT !.cur = staging[i], !.acct = file[f]]
    BY <1>5 DEF BeginComplete
  <2>3. staging[i] \in Dirs \cup {None} /\ file[f] \in Contents
    BY DEF TypeOK
  <2>4. op' \in OpType
    BY <2>1, <2>2, <2>3 DEF OpType
  <2> QED BY <1>5, <2>4 DEF BeginComplete, TypeOK
<1>6. CASE BeginShutdown(i)
  <2>1. Begin(i, "shutdown", "stop") \in OpType /\ Begin(i, "cleanup", "stop") \in OpType
    BY BeginType DEF Goals, Labels
  <2>2. [Begin(i, "shutdown", "stop") EXCEPT !.cur = staging[i]] \in OpType
    BY <2>1 DEF OpType, TypeOK
  <2> QED BY <1>6, <2>1, <2>2 DEF BeginShutdown, TypeOK
<1>7. CASE CloseRiot(i) \/ LaunchPlain(i)
  BY <1>7 DEF CloseRiot, LaunchPlain, TypeOK
<1> QED BY <1>1, <1>2, <1>3, <1>4, <1>5, <1>6, <1>7 DEF Commands

LEMMA WorkType1 ==
    ASSUME TypeOK, Stop \/ StopFails \/ Backup \/ Marker \/ Write \/ SetOwner \/ Launch,
           OpInv
    PROVE  TypeOK'
<1> USE OpFields DEF disk, procs, history
<1>1. CASE Stop
  <2>1. AfterStop \in OpType
    BY GotoType DEF AfterStop, Labels
  <2> QED BY <1>1, <2>1 DEF Stop, TypeOK
<1>2. CASE StopFails
  BY <1>2, IdleType DEF StopFails, TypeOK
<1>3. CASE Backup
  <2>1. [op EXCEPT !.absent = IF file[op.k] = None THEN @ \cup {op.k} ELSE @] \in OpType
    BY DEF OpType
  <2>2. op' \in OpType
    BY <1>3, <2>1, AdvanceType DEF Backup, Labels
  <2>3. backup' \in [Files -> Contents]
    BY <1>3 DEF Backup, TypeOK
  <2> QED BY <1>3, <2>2, <2>3 DEF Backup, TypeOK
<1>4. CASE Marker
  <2>1. Goto("write") \in OpType
    BY GotoType DEF Labels
  <2> QED BY <1>4, <2>1 DEF Marker, TypeOK
<1>5. CASE Write
  <2>1. op' \in OpType
    BY <1>5, AdvanceType DEF Write, Labels
  <2> QED BY <1>5, <2>1 DEF Write, TypeOK
<1>6. CASE SetOwner
  <2>1. op' \in OpType
    BY <1>6, GotoType DEF SetOwner, Labels
  <2>2. op.acct \in Accounts
    BY <1>6 DEF SetOwner, OpInv
  <2> QED BY <1>6, <2>1, <2>2 DEF SetOwner, TypeOK
<1>7. CASE Launch
  <2>1. op.by \in Instances
    BY <1>7 DEF Launch, OpInv
  <2> QED BY <1>7, <2>1, IdleType DEF Launch, TypeOK
<1> QED BY <1>1, <1>2, <1>3, <1>4, <1>5, <1>6, <1>7

LEMMA WorkType2 ==
    ASSUME TypeOK, PutBack \/ Drop \/ Unmark \/ Disown \/ MakeDir \/ Snap \/ Manifest \/ Clear,
           OpInv
    PROVE  TypeOK'
<1> USE OpFields DEF disk, procs, history
<1>1. CASE PutBack
  <2>1. op' \in OpType
    BY <1>1, AdvanceType DEF PutBack, Labels
  <2>2. file' \in [Files -> Contents]
    BY <1>1 DEF PutBack, TypeOK, Contents
  <2> QED BY <1>1, <2>1, <2>2 DEF PutBack, TypeOK
<1>2. CASE Drop
  <2>1. op' \in OpType
    BY <1>2, AdvanceType DEF Drop, Labels
  <2> QED BY <1>2, <2>1 DEF Drop, TypeOK, Contents
<1>3. CASE Unmark
  <2>1. op' \in OpType
    BY <1>3, GotoType DEF Unmark, Labels
  <2> QED BY <1>3, <2>1 DEF Unmark, TypeOK
<1>4. CASE Disown
  BY <1>4, IdleType DEF Disown, TypeOK
<1>5. CASE MakeDir
  <2>1. Goto("snap") \in OpType
    BY GotoType DEF Labels
  <2>2. PICK d \in Dirs : /\ snap' = [snap EXCEPT ![d].on = TRUE]
                          /\ op' = [Goto("snap") EXCEPT !.cur = d]
    BY <1>5 DEF MakeDir
  <2>3. op' \in OpType
    BY <2>1, <2>2 DEF OpType
  <2>4. snap' \in [Dirs -> SnapType]
    BY <2>2, ZenonT(40) DEF TypeOK, SnapType
  <2> QED BY <1>5, <2>3, <2>4 DEF MakeDir, TypeOK
<1>6. CASE Snap
  <2>1. op' \in OpType
    BY <1>6, AdvanceType DEF Snap, Labels
  <2>2. snap' \in [Dirs -> SnapType]
    BY <1>6, ZenonT(40) DEF Snap, TypeOK, SnapType
  <2> QED BY <1>6, <2>1, <2>2 DEF Snap, TypeOK
<1>7. CASE Manifest
  <2>1. op' \in OpType
    BY <1>7, GotoType DEF Manifest, Labels
  <2>2. op.cur \in Dirs /\ snap[op.cur] \in SnapType
    BY <1>7 DEF Manifest, OpInv, TypeOK
  <2>3. [snap[op.cur] EXCEPT !.manifest = TRUE,
                             !.existed = {f \in Files : snap[op.cur].copy[f] # None}] \in SnapType
    BY <2>2 DEF SnapType
  <2>4. snap' \in [Dirs -> SnapType]
    BY <1>7, <2>2, <2>3 DEF Manifest, TypeOK
  <2> QED BY <1>7, <2>1, <2>4 DEF Manifest, TypeOK
<1>8. CASE Clear
  <2>1. op' \in OpType
    BY <1>8, AdvanceType DEF Clear, Labels
  <2>2. staging' \in [Instances -> Dirs \cup {None}]
    BY <1>8 DEF Clear, TypeOK
  <2> QED BY <1>8, <2>1, <2>2 DEF Clear, TypeOK, Contents
<1> QED BY <1>1, <1>2, <1>3, <1>4, <1>5, <1>6, <1>7, <1>8

LEMMA WorkType3 ==
    ASSUME TypeOK, Unsnap \/ UnsnapFails \/ RemoveDir \/ Scan, OpInv
    PROVE  TypeOK'
<1> USE OpFields DEF disk, procs, history
<1>1. CASE Unsnap
  <2>1. op' \in OpType
    BY <1>1, AdvanceType DEF Unsnap, Labels
  <2>2. op.cur \in Dirs
    BY <1>1 DEF Unsnap, OpInv
  <2>3. snap[op.cur].copy \in [Files -> Contents]
    BY <2>2 DEF TypeOK, SnapType
  <2>4. file' \in [Files -> Contents]
    BY <1>1, <2>3 DEF Unsnap, TypeOK, Contents
  <2> QED BY <1>1, <2>1, <2>4 DEF Unsnap, TypeOK
<1>2. CASE UnsnapFails
  BY <1>2, IdleType DEF UnsnapFails, TypeOK
<1>3. CASE RemoveDir
  <2>1. Goto("scan") \in OpType /\ GotoFor("cleanup", "stop") \in OpType
    BY GotoType, GotoForType DEF Labels, Goals
  <2>2. /\ [Goto("scan") EXCEPT !.cur = None] \in OpType
        /\ [GotoFor("cleanup", "stop") EXCEPT !.cur = None] \in OpType
    BY <2>1 DEF OpType
  <2>3. op' \in OpType
    BY <1>3, <2>2, IdleType DEF RemoveDir, AfterRemove
  <2>4. snap' \in [Dirs -> SnapType]
    BY <1>3, NoSnapType DEF RemoveDir, TypeOK
  <2>5. staging' \in [Instances -> Dirs \cup {None}]
    BY <1>3 DEF RemoveDir, TypeOK
  <2>6. ticket' \in SUBSET Instances
    BY <1>3 DEF RemoveDir, TypeOK
  <2>7. vault' \in SUBSET Logins
    BY <1>3 DEF RemoveDir, TypeOK, OpInv
  <2> QED BY <1>3, <2>3, <2>4, <2>5, <2>6, <2>7 DEF RemoveDir, TypeOK
<1>4. CASE Scan
  <2>1. /\ Goto("unsnap") \in OpType /\ Goto("rmdir") \in OpType
        /\ Goto("putback") \in OpType
    BY GotoType DEF Labels
  <2>2. \A d \in Dirs : /\ [Goto("unsnap") EXCEPT !.cur = d] \in OpType
                       /\ [Goto("rmdir") EXCEPT !.cur = d] \in OpType
    BY <2>1 DEF OpType
  <2>3. op' \in OpType /\ crashed' \in BOOLEAN
    BY <1>4, <2>1, <2>2, IdleType DEF Scan, TypeOK
  <2> QED BY <1>4, <2>3 DEF Scan, TypeOK
<1> QED BY <1>1, <1>2, <1>3, <1>4

\* Failures, Riot and the clock.
LEMMA OtherType ==
    ASSUME TypeOK, OpInv,
           \/ RemoveEntry \/ FileFails \/ LaunchFails
           \/ RiotUp \/ PlayerOpensRiot \/ RiotExits
           \/ \E f \in Files : RiotSaves(f)
           \/ \E i \in Instances : BeginRecover(i) \/ Crash(i) \/ CoolDown(i)
           \/ UNCHANGED vars
    PROVE  TypeOK'
<1> USE OpFields DEF disk, procs, history
<1>1. CASE RemoveEntry
  <2>1. op.cur \in Dirs
    BY <1>1 DEF RemoveEntry, OpInv
  <2>2. snap' \in [Dirs -> SnapType]
    <3>1. CASE snap' = [snap EXCEPT ![op.cur].manifest = FALSE]
      BY <3>1, ZenonT(40) DEF TypeOK, SnapType
    <3>2. ASSUME NEW f \in Files, snap' = [snap EXCEPT ![op.cur].copy[f] = None]
          PROVE  snap' \in [Dirs -> SnapType]
      BY <3>2, ZenonT(40) DEF TypeOK, SnapType, Contents
    <3> QED BY <1>1, <3>1, <3>2 DEF RemoveEntry
  <2> QED BY <1>1, <2>2 DEF RemoveEntry, TypeOK
<1>2. CASE FileFails
  <2>1. /\ GotoFor("cleanup", "putback") \in OpType /\ GotoFor("cleanup", "stop") \in OpType
        /\ Goto("rmdir") \in OpType /\ GotoFor("undo", "stop") \in OpType
    BY GotoType, GotoForType DEF Labels, Goals
  <2>2. op' \in OpType
    BY <1>2, <2>1, IdleType DEF FileFails, OnError
  <2> QED BY <1>2, <2>2 DEF FileFails, Mishap, TypeOK
<1>3. CASE LaunchFails
  <2>1. GotoFor("cleanup", "stop") \in OpType /\ GotoFor("finish", "stop") \in OpType
    BY GotoForType DEF Labels, Goals
  <2> QED BY <1>3, <2>1 DEF LaunchFails, Mishap, TypeOK
<1>4. CASE RiotUp \/ PlayerOpensRiot \/ RiotExits
  BY <1>4 DEF RiotUp, PlayerOpensRiot, RiotExits, TypeOK
<1>5. ASSUME NEW f \in Files, RiotSaves(f) PROVE TypeOK'
  <2>1. PICK c \in Logins :
          /\ file' = [file EXCEPT ![f] = c]
          /\ own' = IF c \in Accounts THEN own
                    ELSE [own EXCEPT ![f] = IF Held(f) THEN @ \cup {c} ELSE {c}]
    BY <1>5 DEF RiotSaves, Logins
  <2>2. c \in Contents /\ (c \in Accounts \/ c \in Personal)
    BY DEF Contents, Logins
  <2>3. file' \in [Files -> Contents] /\ own' \in [Files -> SUBSET (Personal \cup {None})]
    BY <2>1, <2>2 DEF TypeOK
  <2> QED BY <1>5, <2>3 DEF RiotSaves, TypeOK
<1>6. ASSUME NEW i \in Instances, BeginRecover(i) PROVE TypeOK'
  <2>1. Begin(i, "recover", "scan") \in OpType
    BY BeginType DEF Goals, Labels
  <2> QED BY <1>6, <2>1 DEF BeginRecover, TypeOK
<1>7. ASSUME NEW i \in Instances, Crash(i) PROVE TypeOK'
  BY <1>7, IdleType DEF Crash, Mishap, TypeOK
<1>8. ASSUME NEW i \in Instances, CoolDown(i) PROVE TypeOK'
  BY <1>8 DEF CoolDown, TypeOK
<1>9. CASE UNCHANGED vars
  BY <1>9 DEF vars, TypeOK
<1> QED BY <1>1, <1>2, <1>3, <1>4, <1>5, <1>6, <1>7, <1>8, <1>9

\* Given what a command knows at its label, every step keeps the types.
LEMMA TypeStep == TypeOK /\ OpInv /\ [Next]_vars => TypeOK'
  BY CommandsType, WorkType1, WorkType2, WorkType3, OtherType DEF Next, Work

-----------------------------------------------------------------------------
(* What a command knows at each label.                                     *)

\* The record after a step, field by field.
Kept(o) == o.by = op.by /\ o.acct = op.acct /\ o.cur = op.cur

LEMMA GotoFields ==
    ASSUME TypeOK, NEW l \in Labels
    PROVE  Goto(l).at = l /\ Goto(l).goal = op.goal /\ Goto(l).k = 1
           /\ Goto(l).absent = op.absent /\ Kept(Goto(l))
  BY OpFields DEF Goto, OpType, Kept

LEMMA GotoForFields ==
    ASSUME TypeOK, NEW l \in Labels, NEW g \in Goals
    PROVE  GotoFor(g, l).at = l /\ GotoFor(g, l).goal = g /\ GotoFor(g, l).k = 1
           /\ Kept(GotoFor(g, l))
  BY OpFields DEF GotoFor, OpType, Kept

\* Where a command goes when a file cannot be written or deleted.
LEMMA FailedFile ==
    ASSUME TypeOK, FileFails
    PROVE  \/ op' = Idle
           \/ op.at = "write" /\ op'.at = "putback" /\ op'.goal = "cleanup" /\ Kept(op')
           \/ op.at = "owner" /\ op'.at = "stop" /\ op'.goal = "cleanup" /\ Kept(op')
           \/ op.at \in {"snap", "manifest"} /\ op'.at = "rmdir" /\ op'.goal = op.goal /\ Kept(op')
           \/ op.at = "clear" /\ op'.at = "stop" /\ op'.goal = "undo" /\ Kept(op')
<1>1. op' = OnError
  BY DEF FileFails
<1>2. CASE op.at = "write"
  <2>1. op' = GotoFor("cleanup", "putback") /\ "cleanup" \in Goals /\ "putback" \in Labels
    BY <1>1, <1>2 DEF OnError, Goals, Labels
  <2> QED BY <1>2, <2>1, GotoForFields
<1>3. CASE op.at = "owner"
  <2>1. op' = GotoFor("cleanup", "stop") /\ "cleanup" \in Goals /\ "stop" \in Labels
    BY <1>1, <1>3 DEF OnError, Goals, Labels
  <2> QED BY <1>3, <2>1, GotoForFields
<1>4. CASE op.at \in {"snap", "manifest"}
  <2>1. op' = Goto("rmdir") /\ "rmdir" \in Labels
    BY <1>1, <1>4 DEF OnError, Labels
  <2> QED BY <1>4, <2>1, GotoFields
<1>5. CASE op.at = "clear"
  <2>1. op' = GotoFor("undo", "stop") /\ "undo" \in Goals /\ "stop" \in Labels
    BY <1>1, <1>5 DEF OnError, Goals, Labels
  <2> QED BY <1>5, <2>1, GotoForFields
<1>6. CASE op.at \notin {"write", "owner", "snap", "manifest", "clear"}
  BY <1>1, <1>6 DEF OnError
<1> QED BY <1>2, <1>3, <1>4, <1>5, <1>6

LEMMA AdvanceFields ==
    ASSUME TypeOK, NEW l \in Labels
    PROVE  /\ Advance(op, l).goal = op.goal /\ Advance(op, l).absent = op.absent
           /\ Kept(Advance(op, l))
           /\ op.k < N => Advance(op, l).at = op.at /\ Advance(op, l).k = op.k + 1
           /\ ~(op.k < N) => Advance(op, l).at = l /\ Advance(op, l).k = 1
  BY OpFields DEF Advance, OpType, Kept

\* The loop of the backups also collects the files it does not find.
Collected == [op EXCEPT !.absent = IF file[op.k] = None THEN @ \cup {op.k} ELSE @]

LEMMA BackupFields ==
    ASSUME TypeOK, Backup
    PROVE  /\ op'.goal = op.goal /\ Kept(op') /\ op'.absent = Collected.absent
           /\ op.k < N => op'.at = "backup" /\ op'.k = op.k + 1
           /\ ~(op.k < N) => op'.at = "marker" /\ op'.k = 1
<1>1. /\ Collected.goal = op.goal /\ Kept(Collected) /\ Collected.k = op.k
      /\ Collected.at = op.at /\ Collected \in OpType
  BY OpFields DEF Collected, OpType, Kept
<1>2. op' = Advance(Collected, "marker") /\ op.at = "backup"
  BY DEF Backup, Collected
<1> QED BY <1>1, <1>2 DEF Advance, OpType, Kept

LEMMA BeginFields ==
    ASSUME NEW i, NEW g, NEW l
    PROVE  /\ Begin(i, g, l).by = i /\ Begin(i, g, l).goal = g /\ Begin(i, g, l).at = l
           /\ Begin(i, g, l).k = 1
  BY DEF Begin, Idle

LEMMA IdleFields == Idle.at = "idle" /\ Idle.goal = "none" /\ Idle.by = None
  BY DEF Idle

\* An idle record satisfies OpInv whatever else it holds.
LEMMA IdleInv == ASSUME op' = Idle PROVE OpInv'
  BY IdleFields DEF OpInv

LEMMA CommandsInv ==
    ASSUME TypeOK, OpInv, NEW i \in Instances, Commands(i) \/ BeginRecover(i)
    PROVE  OpInv'
<1>1. ASSUME NEW a \in Accounts, BeginSwitch(i, a) PROVE OpInv'
  <2>1. op'.at = "stop" /\ op'.goal = "switch" /\ op'.by = i /\ op'.acct = a
    BY <1>1 DEF BeginSwitch, Begin, Idle
  <2> QED BY <2>1 DEF OpInv
<1>2. ASSUME NEW a \in Accounts \cup {None}, BeginCleanup(i, a) PROVE OpInv'
  BY <1>2, BeginFields DEF BeginCleanup, OpInv
<1>3. CASE BeginStart(i)
  BY <1>3, BeginFields DEF BeginStart, OpInv
<1>4. CASE BeginFinish(i)
  <2>1. op'.at = "stop" /\ op'.goal = "finish" /\ op'.by = i /\ op'.cur \in Dirs
    BY <1>4 DEF BeginFinish, Begin, Idle, TypeOK
  <2> QED BY <2>1 DEF OpInv
<1>5. CASE BeginComplete(i)
  <2>1. PICK f \in Files :
          /\ FirstLogin(f)
          /\ op' = [Begin(i, "complete", "stop") EXCEPT !.cur = staging[i], !.acct = file[f]]
    BY <1>5 DEF BeginComplete
  <2>2. op'.at = "stop" /\ op'.goal = "complete" /\ op'.by = i /\ op'.acct = file[f]
        /\ op'.cur \in Dirs
    BY <1>5, <2>1 DEF BeginComplete, Begin, Idle, TypeOK
  <2>3. file[f] \in Logins
    BY <2>1 DEF FirstLogin, TypeOK, Contents
  <2> QED BY <2>2, <2>3 DEF OpInv
<1>6. CASE BeginShutdown(i)
  <2>1. op'.at = "stop" /\ op'.by = i
        /\ \/ op'.goal = "shutdown" /\ op'.cur \in Dirs
           \/ op'.goal = "cleanup"
    BY <1>6 DEF BeginShutdown, Begin, Idle, TypeOK
  <2> QED BY <2>1 DEF OpInv
<1>7. CASE CloseRiot(i) \/ LaunchPlain(i)
  BY <1>7 DEF CloseRiot, LaunchPlain, OpInv
<1>8. CASE BeginRecover(i)
  BY <1>8, BeginFields DEF BeginRecover, OpInv
<1> QED BY <1>1, <1>2, <1>3, <1>4, <1>5, <1>6, <1>7, <1>8 DEF Commands

LEMMA WorkInv ==
    ASSUME TypeOK, OpInv, Work
    PROVE  OpInv'
<1> USE OpFields DEF Kept
<1>1. CASE Stop
  <2>1. /\ op'.at = CASE op.goal = "switch"  -> IF managed THEN "write" ELSE "backup"
                      [] op.goal = "cleanup" -> "putback"
                      [] op.goal = "start"   -> "mkdir"
                      [] OTHER               -> "unsnap"
        /\ op'.goal = op.goal /\ Kept(op')
    BY <1>1, GotoFields DEF Stop, AfterStop, Labels
  <2>2. op.goal \in Goals
    BY DEF OpType
  <2>3. op.at = "stop"
    BY <1>1 DEF Stop
  <2> QED BY <2>1, <2>2, <2>3 DEF OpInv, Goals
<1>2. CASE StopFails \/ Launch \/ Disown \/ UnsnapFails
  BY <1>2, IdleInv DEF StopFails, Launch, Disown, UnsnapFails
<1>3. CASE Backup
  BY <1>3, BackupFields DEF OpInv, Backup
<1>4. CASE Marker
  BY <1>4, GotoFields DEF Marker, OpInv, Labels
<1>5. CASE Write
  BY <1>5, AdvanceFields DEF Write, OpInv, Labels
<1>6. CASE SetOwner
  BY <1>6, GotoFields DEF SetOwner, OpInv, Labels
<1>7. CASE PutBack
  BY <1>7, AdvanceFields DEF PutBack, OpInv, Labels
<1>8. CASE Drop
  BY <1>8, AdvanceFields DEF Drop, OpInv, Labels
<1>9. CASE Unmark
  BY <1>9, GotoFields DEF Unmark, OpInv, Labels
<1>10. CASE MakeDir
  <2>1. PICK d \in Dirs : op' = [Goto("snap") EXCEPT !.cur = d]
    BY <1>10 DEF MakeDir
  <2>2. op'.at = "snap" /\ op'.goal = op.goal /\ op'.by = op.by /\ op'.acct = op.acct
        /\ op'.cur = d
    BY <2>1 DEF Goto, OpType
  <2> QED BY <1>10, <2>2 DEF MakeDir, OpInv
<1>11. CASE Snap
  BY <1>11, AdvanceFields DEF Snap, OpInv, Labels
<1>12. CASE Manifest
  BY <1>12, GotoFields DEF Manifest, OpInv, Labels
<1>13. CASE Clear
  BY <1>13, AdvanceFields DEF Clear, OpInv, Labels
<1>14. CASE Unsnap
  BY <1>14, AdvanceFields DEF Unsnap, OpInv, Labels
<1>15. CASE RemoveDir
  <2>1. \/ op' = Idle
        \/ op.goal = "recover" /\ op'.at = "scan" /\ op'.goal = op.goal
           /\ op'.by = op.by /\ op'.acct = op.acct
        \/ op'.at = "stop" /\ op'.goal = "cleanup" /\ op'.by = op.by /\ op'.acct = op.acct
    BY <1>15 DEF RemoveDir, AfterRemove, Goto, GotoFor, OpType
  <2> QED BY <1>15, <2>1, IdleInv DEF RemoveDir, OpInv
<1>16. CASE Scan
  <2>1. \/ op' = Idle
        \/ op'.at = "putback" /\ op'.goal = op.goal /\ Kept(op')
        \/ op'.at \in {"unsnap", "rmdir"} /\ op'.goal = op.goal /\ op'.by = op.by
           /\ op'.acct = op.acct /\ op'.cur \in Dirs
    BY <1>16 DEF Scan, Goto, OpType
  <2> QED BY <1>16, <2>1, IdleInv DEF Scan, OpInv
<1> QED BY <1>1, <1>2, <1>3, <1>4, <1>5, <1>6, <1>7, <1>8, <1>9, <1>10, <1>11, <1>12,
           <1>13, <1>14, <1>15, <1>16 DEF Work

LEMMA OtherInv ==
    ASSUME TypeOK, OpInv,
           \/ RemoveEntry \/ FileFails \/ LaunchFails
           \/ RiotUp \/ PlayerOpensRiot \/ RiotExits
           \/ \E f \in Files : RiotSaves(f)
           \/ \E i \in Instances : Crash(i) \/ CoolDown(i)
           \/ UNCHANGED vars
    PROVE  OpInv'
<1> USE OpFields DEF Kept
<1>1. CASE UNCHANGED op
  BY <1>1 DEF OpInv
<1>2. CASE FileFails
  <2>1. \/ op' = Idle
        \/ op.at = "write" /\ op'.at = "putback" /\ op'.goal = "cleanup" /\ Kept(op')
        \/ op.at = "owner" /\ op'.at = "stop" /\ op'.goal = "cleanup" /\ Kept(op')
        \/ op.at \in {"snap", "manifest"} /\ op'.at = "rmdir" /\ op'.goal = op.goal /\ Kept(op')
        \/ op.at = "clear" /\ op'.at = "stop" /\ op'.goal = "undo" /\ Kept(op')
    BY <1>2, FailedFile
  <2> QED BY <2>1, IdleInv DEF OpInv
<1>3. CASE LaunchFails
  <2>1. /\ op.at = "launch" /\ op'.at = "stop" /\ Kept(op')
        /\ op'.goal = IF op.goal = "switch" THEN "cleanup" ELSE "finish"
    BY <1>3, GotoForFields DEF LaunchFails, Labels, Goals
  <2> QED BY <2>1 DEF OpInv
<1>4. ASSUME NEW i \in Instances, Crash(i) PROVE OpInv'
  BY <1>1, <1>4, IdleInv DEF Crash
<1> QED BY <1>1, <1>2, <1>3, <1>4 DEF RemoveEntry, RiotUp, PlayerOpensRiot, RiotExits,
           RiotSaves, CoolDown, vars

LEMMA OpInvStep == TypeOK /\ OpInv /\ [Next]_vars => OpInv'
  BY CommandsInv, WorkInv, OtherInv DEF Next

LEMMA TypeInit == Init => TypeOK /\ OpInv
<1> SUFFICES ASSUME Init PROVE TypeOK /\ OpInv
  OBVIOUS
<1>1. file \in [Files -> Contents]
  BY DEF Init, Contents, Logins
<1>2. snap \in [Dirs -> SnapType]
  BY NoSnapType DEF Init
<1>3. TypeOK
  BY <1>1, <1>2, IdleType DEF Init, TypeOK, Contents
<1>4. OpInv
  BY IdleFields DEF Init, OpInv
<1> QED BY <1>3, <1>4

\* In every environment the variables keep their types, and a command knows at
\* each step what the rest of it relies on.
THEOREM TypeCorrect == Spec => [](TypeOK /\ OpInv)
  BY TypeInit, TypeStep, OpInvStep, PTL DEF Spec

-----------------------------------------------------------------------------
(* The sandbox and the operation lock.                                     *)

\* The command goes on with the same goal and leaves the sandboxes alone.
GoesOn ==
    /\ op.at # "idle" /\ op'.goal = op.goal /\ Kept(op')
    /\ op'.at = "launch" /\ op.goal = "start" => op.at = "launch"
    /\ op.at = "launch" => op'.at = "launch"
    /\ staging' = staging

LEMMA GoesOnLock == ASSUME LockInv, GoesOn PROVE LockInv'
  BY DEF LockInv, GoesOn, Kept, OneSandbox, Stopped

LEMMA IdleLock ==
    ASSUME LockInv, op' = Idle, staging' = staging
    PROVE  LockInv'
  BY IdleFields DEF LockInv, OneSandbox, Stopped

LEMMA CommandsLock ==
    ASSUME TypeOK, OpInv, LockInv, NEW i \in Instances, Commands(i) \/ BeginRecover(i)
    PROVE  LockInv'
<1> USE DEF procs
<1>1. ASSUME CanAcquire(i), staging' = staging, op'.by = i, op'.at = "stop" \/ op'.at = "scan",
             \/ staging[i] = None /\ op'.goal \notin {"finish", "complete", "shutdown"}
             \/ /\ staging[i] # None /\ op'.cur = staging[i]
                /\ op'.goal \in {"finish", "complete", "shutdown"}
      PROVE  LockInv'
  BY <1>1 DEF LockInv, CanAcquire, OneSandbox, Stopped
<1>2. ASSUME NEW a \in Accounts, BeginSwitch(i, a) PROVE LockInv'
  <2>1. op'.at = "stop" /\ op'.goal = "switch" /\ op'.by = i
    BY <1>2 DEF BeginSwitch, Begin, Idle
  <2> QED BY <1>1, <1>2, <2>1 DEF BeginSwitch, CanOperate
<1>3. ASSUME NEW a \in Accounts \cup {None}, BeginCleanup(i, a) PROVE LockInv'
  BY <1>1, <1>3, BeginFields DEF BeginCleanup, CanOperate
<1>4. CASE BeginStart(i)
  BY <1>1, <1>4, BeginFields DEF BeginStart, CanOperate
<1>5. CASE BeginFinish(i)
  <2>1. op'.at = "stop" /\ op'.goal = "finish" /\ op'.by = i /\ op'.cur = staging[i]
    BY <1>5 DEF BeginFinish, Begin, Idle
  <2> QED BY <1>1, <1>5, <2>1 DEF BeginFinish
<1>6. CASE BeginComplete(i)
  <2>1. PICK f \in Files :
          op' = [Begin(i, "complete", "stop") EXCEPT !.cur = staging[i], !.acct = file[f]]
    BY <1>6 DEF BeginComplete
  <2>2. op'.at = "stop" /\ op'.goal = "complete" /\ op'.by = i /\ op'.cur = staging[i]
    BY <2>1 DEF Begin, Idle
  <2> QED BY <1>1, <1>6, <2>2 DEF BeginComplete
<1>7. CASE BeginShutdown(i)
  <2>1. op'.at = "stop" /\ op'.by = i
        /\ \/ staging[i] # None /\ op'.goal = "shutdown" /\ op'.cur = staging[i]
           \/ staging[i] = None /\ op'.goal = "cleanup"
    BY <1>7 DEF BeginShutdown, Begin, Idle
  <2> QED BY <1>1, <1>7, <2>1 DEF BeginShutdown
<1>8. CASE BeginRecover(i)
  BY <1>1, <1>8, BeginFields DEF BeginRecover
<1>9. CASE CloseRiot(i) \/ LaunchPlain(i)
  BY <1>9 DEF CloseRiot, LaunchPlain, LockInv, OneSandbox, Stopped
<1> QED BY <1>2, <1>3, <1>4, <1>5, <1>6, <1>7, <1>8, <1>9 DEF Commands

LEMMA WorkLock ==
    ASSUME TypeOK, OpInv, LockInv, Work
    PROVE  LockInv'
<1> USE OpFields DEF Kept, procs
<1>1. CASE Stop
  <2>1. op'.at \in {"write", "backup", "putback", "mkdir", "unsnap"} /\ op'.goal = op.goal
        /\ Kept(op')
    BY <1>1, GotoFields DEF Stop, AfterStop, Labels
  <2> QED BY <1>1, <2>1, GoesOnLock DEF Stop, GoesOn
<1>2. CASE StopFails \/ Launch \/ Disown \/ UnsnapFails
  BY <1>2, IdleLock DEF StopFails, Launch, Disown, UnsnapFails
<1>3. CASE Backup
  BY <1>3, BackupFields, GoesOnLock DEF Backup, GoesOn
<1>4. CASE Marker
  BY <1>4, GotoFields, GoesOnLock DEF Marker, GoesOn, Labels
<1>5. CASE Write
  BY <1>5, AdvanceFields, GoesOnLock DEF Write, GoesOn, Labels
<1>6. CASE SetOwner
  BY <1>6, GotoFields, GoesOnLock DEF SetOwner, GoesOn, Labels, OpInv
<1>7. CASE PutBack
  BY <1>7, AdvanceFields, GoesOnLock DEF PutBack, GoesOn, Labels
<1>8. CASE Drop
  BY <1>8, AdvanceFields, GoesOnLock DEF Drop, GoesOn, Labels
<1>9. CASE Unmark
  BY <1>9, GotoFields, GoesOnLock DEF Unmark, GoesOn, Labels
<1>10. CASE MakeDir
  <2>1. PICK d \in Dirs : op' = [Goto("snap") EXCEPT !.cur = d]
    BY <1>10 DEF MakeDir
  <2>2. op'.at = "snap" /\ op'.goal = op.goal /\ op'.by = op.by
    BY <2>1 DEF Goto, OpType
  <2> QED BY <1>10, <2>2 DEF MakeDir, OpInv, LockInv, OneSandbox, Stopped
<1>11. CASE Snap
  BY <1>11, AdvanceFields, GoesOnLock DEF Snap, GoesOn, Labels
<1>12. CASE Manifest
  BY <1>12, GotoFields, GoesOnLock DEF Manifest, GoesOn, Labels
<1>13. CASE Clear
  <2>1. Stopped /\ op.by \in Instances /\ op.goal = "start" /\ op.cur \in Dirs
    BY <1>13 DEF Clear, OpInv, LockInv
  <2>2. CASE op.k < N
    <3>1. op.k # N
      BY <2>2, NAssumption
    <3> QED BY <1>13, <2>2, <3>1, AdvanceFields, GoesOnLock DEF Clear, GoesOn, Labels
  <2>3. CASE ~(op.k < N)
    <3>1. op.k = N
      BY <2>3, NAssumption DEF Files
    <3>2. staging' = [staging EXCEPT ![op.by] = op.cur]
      BY <1>13, <3>1 DEF Clear
    <3>3. /\ staging'[op.by] = op.cur
          /\ \A j \in Instances : j # op.by => staging'[j] = None
      BY <2>1, <3>2 DEF Stopped, TypeOK
    <3>4. op'.at = "launch" /\ op'.goal = "start" /\ op'.by = op.by /\ op'.cur = op.cur
      BY <1>13, <2>1, <2>3, AdvanceFields DEF Clear, Labels
    <3>5. op.cur # None
      BY <2>1, NoneAssumption
    <3> QED BY <2>1, <3>3, <3>4, <3>5 DEF LockInv, OneSandbox, Stopped
  <2> QED BY <2>2, <2>3
<1>14. CASE Unsnap
  BY <1>14, AdvanceFields, GoesOnLock DEF Unsnap, GoesOn, Labels
<1>15. CASE RemoveDir
  <2>1. CASE op.goal = "recover"
    <3>1. op'.at = "scan" /\ op'.goal = "recover" /\ op'.by = op.by /\ staging' = staging
      BY <1>15, <2>1 DEF RemoveDir, AfterRemove, Goto, OpType
    <3> QED BY <1>15, <2>1, <3>1 DEF RemoveDir, LockInv, OneSandbox, Stopped
  <2>2. CASE op.goal # "recover"
    <3>1. op.by \in Instances /\ staging' = [staging EXCEPT ![op.by] = None]
      BY <1>15, <2>2 DEF RemoveDir, OpInv
    <3>2. \A j \in Instances : j # op.by => staging[j] = None
      BY <1>15 DEF RemoveDir, LockInv, OneSandbox
    <3>3. Stopped'
      BY <3>1, <3>2 DEF Stopped, TypeOK
    <3>4. \/ op' = Idle
          \/ op'.goal = "cleanup" /\ op'.by = op.by /\ op'.at = "stop"
      <4>1. GotoFor("cleanup", "stop") \in OpType
        BY GotoForType DEF Labels, Goals
      <4>2. \/ op' = Idle
            \/ op' = [GotoFor("cleanup", "stop") EXCEPT !.cur = None]
        BY <1>15, <2>2 DEF RemoveDir, AfterRemove
      <4> QED BY <4>1, <4>2, GotoForFields DEF OpType, Labels, Goals
    <3> QED BY <3>3, <3>4, IdleFields DEF LockInv, OneSandbox, Stopped
  <2> QED BY <2>1, <2>2
<1>16. CASE Scan
  <2>1. op.goal = "recover" /\ op.at # "idle"
    BY <1>16 DEF Scan, OpInv
  <2>2. \/ op' = Idle
        \/ op'.at \in {"putback", "unsnap", "rmdir"} /\ op'.goal = op.goal /\ op'.by = op.by
    BY <1>16 DEF Scan, Goto, OpType
  <2> QED BY <1>16, <2>1, <2>2, IdleLock DEF Scan, LockInv, OneSandbox, Stopped
<1> QED BY <1>1, <1>2, <1>3, <1>4, <1>5, <1>6, <1>7, <1>8, <1>9, <1>10, <1>11, <1>12,
           <1>13, <1>14, <1>15, <1>16 DEF Work

LEMMA OtherLock ==
    ASSUME TypeOK, OpInv, LockInv,
           \/ RemoveEntry \/ FileFails \/ LaunchFails
           \/ RiotUp \/ PlayerOpensRiot \/ RiotExits
           \/ \E f \in Files : RiotSaves(f)
           \/ \E i \in Instances : Crash(i) \/ CoolDown(i)
           \/ UNCHANGED vars
    PROVE  LockInv'
<1> USE OpFields DEF Kept, procs
<1>1. CASE op' = op /\ staging' = staging
  BY <1>1 DEF LockInv, OneSandbox, Stopped
<1>2. CASE FileFails
  <2>1. \/ op' = Idle
        \/ op.at = "write" /\ op'.at = "putback" /\ op'.goal = "cleanup" /\ Kept(op')
        \/ op.at = "owner" /\ op'.at = "stop" /\ op'.goal = "cleanup" /\ Kept(op')
        \/ op.at \in {"snap", "manifest"} /\ op'.at = "rmdir" /\ op'.goal = op.goal /\ Kept(op')
        \/ op.at = "clear" /\ op'.at = "stop" /\ op'.goal = "undo" /\ Kept(op')
    BY <1>2, FailedFile
  <2>2. staging' = staging
    BY <1>2 DEF FileFails
  <2> QED BY <2>1, <2>2, IdleLock DEF OpInv, LockInv, OneSandbox, Stopped
<1>3. CASE LaunchFails
  <2>1. /\ op.at = "launch" /\ op'.at = "stop" /\ Kept(op')
        /\ op'.goal = IF op.goal = "switch" THEN "cleanup" ELSE "finish"
    BY <1>3, GotoForFields DEF LaunchFails, Labels, Goals
  <2>2. staging' = staging
    BY <1>3 DEF LaunchFails
  <2> QED BY <2>1, <2>2 DEF OpInv, LockInv, OneSandbox, Stopped
<1>4. ASSUME NEW i \in Instances, Crash(i) PROVE LockInv'
  <2>1. staging' = [staging EXCEPT ![i] = None] /\ op' = IF op.by = i THEN Idle ELSE op
    BY <1>4 DEF Crash
  <2>2. \A j \in Instances : staging'[j] = IF j = i THEN None ELSE staging[j]
    BY <2>1 DEF TypeOK
  <2>3. CASE op.by = i
    BY <2>1, <2>2, <2>3, IdleFields DEF LockInv, OneSandbox, Stopped
  <2>4. CASE op.by # i
    BY <2>1, <2>2, <2>4 DEF LockInv, OneSandbox, Stopped, OpInv
  <2> QED BY <2>3, <2>4
<1> QED BY <1>1, <1>2, <1>3, <1>4 DEF RemoveEntry, RiotUp, PlayerOpensRiot, RiotExits,
           RiotSaves, CoolDown, vars

LEMMA LockInit == Init => LockInv
  BY IdleFields DEF Init, LockInv, OneSandbox, Stopped

LEMMA LockStep == TypeOK /\ OpInv /\ LockInv /\ [Next]_vars => LockInv'
  BY CommandsLock, WorkLock, OtherLock DEF Next

\* Whatever fails and whoever crashes, one sandbox lives at a time and no
\* command of another process runs meanwhile.
THEOREM SandboxAlone == Spec => []OneSandbox
<1>1. LockInv => OneSandbox
  BY DEF LockInv
<1> QED BY <1>1, LockInit, LockStep, TypeCorrect, PTL DEF Spec

=============================================================================
