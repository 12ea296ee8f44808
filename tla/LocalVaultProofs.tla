-------------------------- MODULE LocalVaultProofs --------------------------
(***************************************************************************)
(* Proofs about LocalVault for any profiles, identities and bounds.        *)
(***************************************************************************)
EXTENDS LocalVault, TLAPS

-----------------------------------------------------------------------------
(* The inductive invariant.                                                *)

Quarantined == [id : Ids, was : LocalAccount]
Listings == [fresh : BOOLEAN, at : {"sent", "ok", "error"}, list : Rosters]
Commands == {"create", "refresh", "delete", "launch", "edit"}
Syncs == [at : {"idle", "identify", "fetch", "apply", "reload", "list"},
          epoch : BOOLEAN, fresh : BOOLEAN, away : BOOLEAN,
          id : Ids \cup {None}, who : Puuids \cup {None},
          had : Details \cup {None}, got : [Kinds -> Puuids \cup {None}], list : Rosters]

Creating == [cmd : {"create"}, at : {"sent"}, id : Ids, d : Details,
             login : Logins \cup {Empty}]
Refreshing == [cmd : {"refresh"}, at : {"sent"}, id : Ids, login : Logins \cup {Empty}]
Choosing == [cmd : {"delete", "launch"}, at : {"sent"}, id : Ids]
Edits == [cmd : {"edit"}, at : {"form"}, id : Ids, d : Details]
Answers == [cmd : Commands, at : {"done", "failed"}]

DiskType ==
    /\ file \in Vaults
    /\ quarantine \subseteq Quarantined
    /\ key \in Nat /\ keys \in Nat /\ key <= keys

WindowType ==
    /\ cached \subseteq Puuids \cup {"picked"}
    /\ shown \in Rosters
    /\ loads \subseteq Listings
    /\ sync \in Syncs
    /\ \/ fg = Idle
       \/ fg \in Creating \/ fg \in Refreshing \/ fg \in Choosing \/ fg \in Edits
       \/ fg \in Answers
    /\ used \subseteq Ids
    /\ owed \in [Ids -> Logins \cup {Empty, None}]
    /\ inherited \in [Ids -> Logins \cup {None}] /\ returned \subseteq Ids
    /\ overtaken \in BOOLEAN /\ listFailed \in BOOLEAN

\* Whose login a record holds, be it written down or not.
Who(r) == IF r.puuid # None THEN r.puuid ELSE Detected(r.login)

\* Two old records of one account, which nothing kept apart.
Twins(i, j, who) == inherited[i] = who /\ inherited[j] = who

Identities(f) ==
    /\ \A i \in Present(f) : f[i].puuid # None => Detected(f[i].login) \in {None, f[i].puuid}
    /\ \A i, j \in Present(f) : i # j /\ Who(f[i]) # None =>
        Who(f[i]) # Who(f[j]) \/ Twins(i, j, Who(f[i]))

\* Values that profile i may have: no other account's, but for a rank that came
\* while its own was away; no image that is not there.
ValuesOk(i, val) ==
    \A k \in Kinds :
        /\ val[k] \in Puuids /\ file[i] # None =>
            file[i].puuid = val[k] \/ (k = "rank" /\ i \in returned)
        /\ k = "icon" => val[k] \in cached \cup {"own"}

ListOk(list) == \A i \in Ids : list[i] # None => i \in used /\ ValuesOk(i, list[i].val)

\* The same of every record, list and form that a value may come from.
ValuesInv ==
    /\ Present(file) \subseteq used
    /\ \A i \in Present(file) : ValuesOk(i, file[i].val)
    /\ ListOk(shown) /\ ListOk(sync.list) /\ \A l \in loads : ListOk(l.list)
    /\ fg \in Edits => fg.id \in used /\ ValuesOk(fg.id, fg.d.val)
    /\ fg \in Creating => fg.id \notin used /\ fg.d = NewDetails

\* What a sync has is the account's that it asked for, unless that one was away.
SyncInv ==
    /\ sync.at \in {"fetch", "apply"} => sync.who \in Puuids /\ sync.id \in Ids
    /\ sync.at = "fetch" => sync.had \in Details
    /\ sync.at = "apply" => \A k \in Kinds :
        /\ sync.got[k] \in {None, sync.who} \/ (k = "rank" /\ sync.away)
        /\ k = "icon" => sync.got[k] \in {None} \cup cached

Readable == Present(file) \ Unreadable
Current(list) == Present(list) = Readable \/ (fg \in Answers /\ fg.at = "done")

\* The newest list, shown or on its way, is the vault's, or a command that was
\* carried out since will ask for another.
FreshInv ==
    /\ \A l, m \in loads : l.fresh /\ m.fresh => l = m
    /\ \A l \in loads : l.at # "sent" => l.fresh
    /\ \A l \in loads : l.fresh /\ l.at = "ok" => Current(l.list)
    /\ sync.at = "list" /\ sync.fresh => Current(sync.list)
    /\ (\A l \in loads : ~l.fresh) /\ ~overtaken /\ ~listFailed => Current(shown)

\* What the steps leave of the history.
PastKept == inherited' = inherited /\ returned \subseteq returned'

IInv == DiskType /\ WindowType /\ Identities(file) /\ LoginsSurvive /\ ValuesInv
        /\ SyncInv /\ FreshInv

-----------------------------------------------------------------------------
(* What the vault returns.                                                 *)

LEMMA NoneFacts ==
    /\ None \notin Ids /\ None \notin Puuids /\ None # Anon /\ None # Empty
    /\ None \notin Logins \cup {Empty} /\ None \notin Values
    /\ None \notin LocalAccount /\ None \notin LocalAccountSummary
    /\ Anon \notin Puuids /\ Empty \notin Puuids /\ Anon # Empty
    /\ "own" \notin Puuids /\ "picked" \notin Puuids /\ "own" # "picked"
  BY VaultAssumption DEF Logins, Anon, Empty, Values

LEMMA DetectedFacts ==
    ASSUME NEW login
    PROVE  /\ Detected(login) \in Puuids \cup {None}
           /\ Detected(login) # None => Detected(login) = login
           /\ login \in Puuids => Detected(login) = login
  BY NoneFacts DEF Detected

\* The records of what was read differ from the file's in the identity alone.
LEMMA BoundFacts ==
    ASSUME NEW r \in LocalAccount
    PROVE  /\ Bound(r) \in LocalAccount /\ Bound(r) # None
           /\ Bound(r).login = r.login /\ Bound(r).val = r.val /\ Bound(r).auto = r.auto
           /\ Bound(r).damaged = r.damaged /\ Bound(r).form = r.form
           /\ Bound(r).puuid = Who(r) /\ Who(Bound(r)) = Who(r)
<1>1. Detected(r.login) \in Puuids \cup {None}
  BY DetectedFacts
<1>2. /\ Bound(r) \in LocalAccount
      /\ Bound(r).login = r.login /\ Bound(r).val = r.val /\ Bound(r).auto = r.auto
      /\ Bound(r).damaged = r.damaged /\ Bound(r).form = r.form
      /\ Bound(r).puuid = IF r.puuid = None THEN Detected(r.login) ELSE r.puuid
  BY <1>1 DEF Bound, LocalAccount
<1> QED BY <1>2, NoneFacts DEF Who

LEMMA EncryptFacts ==
    ASSUME DiskType, NEW r \in LocalAccount
    PROVE  /\ Encrypt(r) \in LocalAccount /\ Encrypt(r) # None
           /\ Encrypt(r).login = r.login /\ Encrypt(r).val = r.val /\ Encrypt(r).auto = r.auto
           /\ Encrypt(r).damaged = r.damaged /\ Encrypt(r).form = CurrentKey
           /\ Encrypt(r).puuid = r.puuid /\ Who(Encrypt(r)) = Who(r)
<1>1. CurrentKey \in Nat
  BY DEF DiskType, CurrentKey
<1>2. /\ Encrypt(r) \in LocalAccount
      /\ Encrypt(r).login = r.login /\ Encrypt(r).val = r.val /\ Encrypt(r).auto = r.auto
      /\ Encrypt(r).damaged = r.damaged /\ Encrypt(r).form = CurrentKey
      /\ Encrypt(r).puuid = r.puuid
  BY <1>1 DEF Encrypt, LocalAccount
<1> QED BY <1>2, NoneFacts DEF Who

LEMMA FileFacts ==
    ASSUME DiskType, NEW i \in Ids
    PROVE  /\ i \in Present(file) <=> file[i] # None
           /\ file[i] # None => file[i] \in LocalAccount
  BY DEF DiskType, Vaults, Present

LEMMA LoadedFacts ==
    ASSUME DiskType
    PROVE  /\ Loaded \in Vaults
           /\ Present(Loaded) = Readable
           /\ \A i \in Present(Loaded) :
                /\ i \in Ids /\ file[i] \in LocalAccount /\ Loaded[i] = Bound(file[i])
                /\ Loaded[i] \in LocalAccount
                /\ ~Loaded[i].damaged
<1>1. ASSUME NEW i \in Ids
      PROVE  /\ Loaded[i] \in LocalAccount \cup {None}
             /\ Loaded[i] # None <=> i \in Readable
             /\ Loaded[i] # None => /\ file[i] \in LocalAccount /\ Loaded[i] = Bound(file[i])
                                    /\ ~Loaded[i].damaged
  <2>1. CASE i \in Readable
    <3>1. file[i] \in LocalAccount /\ Decrypts(file[i])
      BY <2>1, FileFacts DEF Readable, Unreadable
    <3>2. Loaded[i] = Bound(file[i])
      BY <2>1 DEF Loaded, Readable
    <3> QED BY <2>1, <3>1, <3>2, BoundFacts DEF Decrypts
  <2>2. CASE i \notin Readable
    BY <2>2 DEF Loaded, Readable
  <2> QED BY <2>1, <2>2
<1>2. Loaded \in Vaults
  BY <1>1 DEF Loaded, Vaults
<1>3. Present(Loaded) = Readable
  BY <1>1 DEF Present, Readable
<1> QED BY <1>1, <1>2, <1>3 DEF Present

\* What is read has as many identities as the file.
LEMMA LoadedIdentities ==
    ASSUME DiskType, Identities(file)
    PROVE  /\ Identities(Loaded)
           /\ \A i \in Present(Loaded) : Loaded[i].puuid = Who(Loaded[i])
<1>1. ASSUME NEW i \in Present(Loaded)
      PROVE  /\ i \in Present(file) /\ file[i] \in LocalAccount
             /\ Loaded[i].login = file[i].login
             /\ Loaded[i].puuid = Who(file[i]) /\ Who(Loaded[i]) = Who(file[i])
  BY <1>1, LoadedFacts, BoundFacts DEF Readable
<1>2. ASSUME NEW i \in Present(Loaded), Loaded[i].puuid # None
      PROVE  Detected(Loaded[i].login) \in {None, Loaded[i].puuid}
  BY <1>1, <1>2 DEF Identities, Who
<1> QED BY <1>1, <1>2 DEF Identities

-----------------------------------------------------------------------------
(* What reaches the disk.                                                  *)

\* A record that may be saved for profile i.
Fits(i, r) ==
    /\ ~r.damaged
    /\ \A k \in Kinds : /\ r.val[k] \in Puuids =>
                            r.puuid = r.val[k] \/ (k = "rank" /\ i \in returned')
                        /\ k = "icon" => r.val[k] \in cached \cup {"own"}
    /\ i \in Readable /\ Loaded[i].puuid # None => r.puuid = Loaded[i].puuid
    /\ i \in used => i \in Readable

\* A list that a command may save.
Good(new) ==
    /\ new \in Vaults
    /\ Identities(new)
    /\ \A i \in Present(new) : Fits(i, new[i])

\* What holds after a command, wherever it stopped.
DiskKeeps ==
    /\ PastKept
    /\ DiskType' /\ Identities(file)' /\ quarantine \subseteq quarantine'
    /\ \A i \in Ids : file'[i] # None =>
        /\ \A k \in Kinds :
            /\ file'[i].val[k] \in Puuids =>
                file'[i].puuid = file'[i].val[k] \/ (k = "rank" /\ i \in returned')
            /\ k = "icon" => file'[i].val[k] \in cached \cup {"own"}
        /\ i \in used => /\ file[i] # None
                         /\ file[i].puuid # None => file'[i].puuid = file[i].puuid

LEMMA KeyFacts ==
    ASSUME DiskType, LoadOrCreate
    PROVE  /\ key' \in Nat /\ keys' \in Nat /\ key' <= keys'
           /\ CurrentKey' = CurrentKey
  BY DEF DiskType, LoadOrCreate, CurrentKey

LEMMA Saved ==
    ASSUME DiskType, LoadOrCreate, NEW new \in Vaults, file' = Encrypted(new),
           \A i \in Present(new) : ~new[i].damaged
    PROVE  /\ file' \in Vaults /\ Readable' = Present(new)
           /\ \A i \in Ids : /\ file'[i] # None <=> new[i] # None
                             /\ new[i] # None =>
                                /\ new[i] \in LocalAccount /\ file'[i] = Encrypt(new[i])
                                /\ file'[i].login = new[i].login
                                /\ file'[i].puuid = new[i].puuid
                                /\ file'[i].val = new[i].val /\ file'[i].auto = new[i].auto
                                /\ Who(file'[i]) = Who(new[i])
           /\ Identities(new) => Identities(file')
<1>1. ASSUME NEW i \in Ids
      PROVE  /\ file'[i] \in LocalAccount \cup {None}
             /\ file'[i] # None <=> new[i] # None
             /\ new[i] # None =>
                /\ new[i] \in LocalAccount /\ file'[i] = Encrypt(new[i])
                /\ file'[i].login = new[i].login
                /\ file'[i].puuid = new[i].puuid
                /\ file'[i].val = new[i].val /\ file'[i].auto = new[i].auto
                /\ file'[i].damaged = new[i].damaged /\ file'[i].form = CurrentKey
                /\ Who(file'[i]) = Who(new[i])
  <2>1. file'[i] = IF new[i] = None THEN None ELSE Encrypt(new[i])
    BY DEF Encrypted
  <2>2. new[i] \in LocalAccount \cup {None}
    BY DEF Vaults
  <2> QED BY <2>1, <2>2, EncryptFacts
<1>2. file' \in Vaults
  BY <1>1 DEF Vaults, Encrypted
<1>3. Present(file') = Present(new)
  BY <1>1 DEF Present
<1>4. Unreadable' = {}
  <2>1. ASSUME NEW i \in Present(file')
        PROVE  Decrypts(file[i])'
    <3>1. i \in Ids /\ new[i] # None /\ ~new[i].damaged
      BY <2>1, <1>3 DEF Present
    <3>2. file'[i].form = CurrentKey' /\ ~file'[i].damaged
      BY <3>1, <1>1, KeyFacts
    <3> QED BY <3>2 DEF Decrypts
  <2> QED BY <2>1 DEF Unreadable
<1>5. Readable' = Present(new)
  BY <1>3, <1>4 DEF Readable
<1>6. Identities(new) => Identities(file')
  <2>1. \A i \in Present(file') : i \in Ids /\ i \in Present(new) /\ new[i] # None
    BY <1>3 DEF Present
  <2> QED BY <1>1, <1>3, <2>1 DEF Identities
<1> QED BY <1>1, <1>2, <1>5, <1>6

LEMMA Copied ==
    ASSUME DiskType, NEW S \in SUBSET Unreadable,
           quarantine' = quarantine \cup {[id |-> i, was |-> file[i]] : i \in S}
    PROVE  /\ quarantine \subseteq quarantine' /\ quarantine' \subseteq Quarantined
           /\ \A i \in S : [id |-> i, was |-> file[i]] \in quarantine'
<1>1. ASSUME NEW i \in S PROVE [id |-> i, was |-> file[i]] \in Quarantined
  <2>1. i \in Ids /\ file[i] \in LocalAccount
    BY FileFacts DEF Unreadable, Present
  <2> QED BY <2>1 DEF Quarantined
<1> QED BY <1>1 DEF DiskType

\* A login that is not read is in quarantine before the file is replaced.
LEMMA LoginsKept ==
    ASSUME DiskType, LoginsSurvive, quarantine \subseteq quarantine',
           \A i \in Unreadable : [id |-> i, was |-> file[i]] \in quarantine',
           \A i \in Ids : owed'[i] # None =>
               \/ file'[i] # None /\ file'[i].login = owed'[i]
               \/ /\ owed'[i] = owed[i]
                  /\ i \in Readable => file'[i] # None /\ file'[i].login = file[i].login
    PROVE  LoginsSurvive'
<1>1. ASSUME NEW i \in Ids, owed'[i] # None, owed'[i] = owed[i],
             i \in Readable => file'[i] # None /\ file'[i].login = file[i].login
      PROVE  \/ file'[i] # None /\ file'[i].login = owed'[i]
             \/ \E q \in quarantine' : q.id = i /\ q.was.login = owed'[i]
  <2>1. CASE file[i] # None /\ file[i].login = owed[i]
    <3>1. CASE i \in Readable
      BY <1>1, <2>1, <3>1
    <3>2. CASE i \notin Readable
      <4>1. [id |-> i, was |-> file[i]] \in quarantine'
        BY <2>1, <3>2, FileFacts DEF Readable
      <4> QED BY <1>1, <2>1, <4>1
    <3> QED BY <3>1, <3>2
  <2>2. CASE \E q \in quarantine : q.id = i /\ q.was.login = owed[i]
    BY <1>1, <2>2
  <2> QED BY <1>1, <2>1, <2>2 DEF LoginsSurvive
<1> QED BY <1>1 DEF LoginsSurvive

LEMMA LoadedGood ==
    ASSUME DiskType, Identities(file), ValuesInv, PastKept
    PROVE  Good(Loaded)
<1>1. ASSUME NEW i \in Present(Loaded), NEW k \in Kinds
      PROVE  /\ Loaded[i].val[k] \in Puuids =>
                    Loaded[i].puuid = Loaded[i].val[k] \/ (k = "rank" /\ i \in returned')
             /\ k = "icon" => Loaded[i].val[k] \in cached \cup {"own"}
  <2>1. /\ i \in Ids /\ file[i] \in LocalAccount /\ i \in Present(file)
        /\ Loaded[i].val = file[i].val /\ Loaded[i].puuid = Who(file[i])
    BY LoadedFacts, BoundFacts DEF Readable
  <2>2. ValuesOk(i, file[i].val) /\ file[i] # None
    BY <2>1, FileFacts DEF ValuesInv
  <2> QED BY <2>1, <2>2, NoneFacts DEF ValuesOk, Who, PastKept
<1> QED BY <1>1, LoadedFacts, LoadedIdentities DEF Good, Fits

LEMMA UpdateKeeps ==
    ASSUME DiskType, ValuesInv, PastKept, NEW new, Good(new), Update(new)
    PROVE  /\ DiskKeeps
           /\ Readable' = Present(new)
           /\ \A i \in Unreadable : [id |-> i, was |-> file[i]] \in quarantine'
           /\ \A i \in Ids : /\ file'[i] # None <=> new[i] # None
                             /\ new[i] # None => /\ file'[i].login = new[i].login
                                                 /\ file'[i].val = new[i].val
                                                 /\ file'[i].auto = new[i].auto
                                                 /\ file'[i].puuid = new[i].puuid
<1>1. /\ new \in Vaults /\ Identities(new)
      /\ \A i \in Present(new) : ~new[i].damaged
  BY DEF Good, Fits
<1>2. LoadOrCreate /\ file' = Encrypted(new)
  BY DEF Update
<1>3. /\ file' \in Vaults /\ Readable' = Present(new) /\ Identities(file')
      /\ \A i \in Ids : /\ file'[i] # None <=> new[i] # None
                        /\ new[i] # None => /\ file'[i].login = new[i].login
                                            /\ file'[i].val = new[i].val
                                            /\ file'[i].auto = new[i].auto
                                            /\ file'[i].puuid = new[i].puuid
  BY <1>1, <1>2, Saved
<1>4. /\ quarantine \subseteq quarantine' /\ quarantine' \subseteq Quarantined
      /\ \A i \in Unreadable : [id |-> i, was |-> file[i]] \in quarantine'
  BY Copied DEF Update
<1>5. DiskType'
  BY <1>2, <1>3, <1>4, KeyFacts DEF DiskType
<1>6. Identities(file)'
  BY <1>3 DEF Identities, Present, Who, Detected, Twins, PastKept
<1>7. ASSUME NEW i \in Ids, file'[i] # None
      PROVE  /\ \A k \in Kinds :
                /\ file'[i].val[k] \in Puuids =>
                    file'[i].puuid = file'[i].val[k] \/ (k = "rank" /\ i \in returned')
                /\ k = "icon" => file'[i].val[k] \in cached \cup {"own"}
             /\ i \in used => /\ file[i] # None
                              /\ file[i].puuid # None => file'[i].puuid = file[i].puuid
  <2>1. i \in Present(new) /\ file'[i].val = new[i].val /\ file'[i].puuid = new[i].puuid
    BY <1>3, <1>7 DEF Present
  <2>2. i \in Readable => file[i] \in LocalAccount /\ Loaded[i].puuid = Who(file[i])
    BY LoadedFacts, BoundFacts
  <2>3. i \in Readable => file[i] # None
    BY FileFacts DEF Readable
  <2> QED BY <2>1, <2>2, <2>3 DEF Good, Fits, Who
<1> QED BY <1>3, <1>4, <1>5, <1>6, <1>7 DEF DiskKeeps

\* A command that only reads, or that stops on its way.
LEMMA LoadKeeps ==
    ASSUME DiskType, Identities(file), LoginsSurvive, ValuesInv, PastKept,
           NEW done \in BOOLEAN, Load(done)
    PROVE  /\ DiskKeeps /\ Readable' = Readable
           /\ owed' = owed => LoginsSurvive'
           /\ \A i \in Ids : file'[i] # None =>
                /\ file[i] # None
                /\ file'[i].val = file[i].val /\ file'[i].auto = file[i].auto
<1> DEFINE Copies(S) == quarantine' = quarantine \cup {[id |-> i, was |-> file[i]] : i \in S}
<1>1. /\ LoadOrCreate
      /\ \E copied \in SUBSET Unreadable :
            /\ Copies(copied)
            /\ \/ file' = file
               \/ copied = Unreadable /\ file' = Encrypted(Loaded)
  BY DEF Load, AtomicWrite
<1>2. PICK copied \in SUBSET Unreadable :
            /\ Copies(copied)
            /\ \/ file' = file
               \/ copied = Unreadable /\ file' = Encrypted(Loaded)
  BY <1>1
<1>3. /\ quarantine \subseteq quarantine' /\ quarantine' \subseteq Quarantined
      /\ \A i \in copied : [id |-> i, was |-> file[i]] \in quarantine'
  BY <1>2, Copied
<1>4. CASE file' = file
  <2>1. DiskType'
    BY <1>1, <1>3, <1>4, KeyFacts DEF DiskType
  <2>2. Readable' = Readable
    BY <1>1, <1>4, KeyFacts DEF Readable, Unreadable, Decrypts, Present
  <2>3. Identities(file)'
    BY <1>4 DEF Identities, Present, Who, Detected, Twins, PastKept
  <2>4. \A i \in Ids : file[i] # None => ValuesOk(i, file[i].val)
    BY FileFacts DEF ValuesInv
  <2>5. DiskKeeps
    BY <1>3, <1>4, <2>1, <2>3, <2>4 DEF DiskKeeps, ValuesOk, PastKept
  <2>6. owed' = owed => LoginsSurvive'
    BY <1>3, <1>4 DEF LoginsSurvive
  <2> QED BY <1>4, <2>2, <2>5, <2>6
<1>5. CASE copied = Unreadable /\ file' = Encrypted(Loaded)
  <2>1. /\ Loaded \in Vaults /\ Present(Loaded) = Readable
        /\ \A i \in Present(Loaded) : ~Loaded[i].damaged
    BY LoadedFacts
  <2>2. Good(Loaded)
    BY LoadedGood
  <2>4. /\ file' \in Vaults /\ Readable' = Present(Loaded) /\ Identities(file')
        /\ \A i \in Ids : /\ file'[i] # None <=> Loaded[i] # None
                          /\ Loaded[i] # None => /\ file'[i].login = Loaded[i].login
                                                 /\ file'[i].val = Loaded[i].val
                                                 /\ file'[i].auto = Loaded[i].auto
                                                 /\ file'[i].puuid = Loaded[i].puuid
    BY <1>1, <1>5, <2>1, <2>2, Saved DEF Good
  <2>5. \A i \in Ids : Loaded[i] # None => i \in Present(Loaded)
    BY DEF Present
  <2>6. ASSUME NEW i \in Ids, file'[i] # None
        PROVE  /\ i \in Present(Loaded) /\ file[i] # None
               /\ file'[i].login = file[i].login
               /\ file'[i].val = file[i].val /\ file'[i].auto = file[i].auto
               /\ file'[i].puuid = Loaded[i].puuid /\ file'[i].puuid = Who(file[i])
               /\ file'[i].val = Loaded[i].val
    BY <2>4, <2>5, <2>6, LoadedFacts, BoundFacts, NoneFacts
  <2>7. DiskType'
    BY <1>1, <1>3, <2>4, KeyFacts DEF DiskType
  <2>8. Identities(file)'
    BY <2>4 DEF Identities, Present, Who, Detected, Twins, PastKept
  <2>9. DiskKeeps
    BY <1>3, <2>2, <2>6, <2>7, <2>8 DEF DiskKeeps, Good, Fits, Who
  <2>10. owed' = owed => LoginsSurvive'
    <3>1. \A i \in Readable : file'[i] # None /\ file'[i].login = file[i].login
      BY <2>1, <2>4, <2>6, LoadedFacts, NoneFacts DEF Present
    <3>2. \A i \in Unreadable : [id |-> i, was |-> file[i]] \in quarantine'
      BY <1>3, <1>5
    <3> QED BY <1>3, <3>1, <3>2, LoginsKept
  <2> QED BY <2>1, <2>4, <2>6, <2>9, <2>10
<1> QED BY <1>2, <1>4, <1>5

-----------------------------------------------------------------------------
(* What stays true of lists and forms while the disk goes on.              *)

Done(c) == c \in Answers /\ c.at = "done"

NewOk(i, val) ==
    \A k \in Kinds :
        /\ val[k] \in Puuids /\ file'[i] # None =>
            file'[i].puuid = val[k] \/ (k = "rank" /\ i \in returned')
        /\ k = "icon" => val[k] \in cached' \cup {"own"}

NewListOk(list) == \A i \in Ids : list[i] # None => i \in used' /\ NewOk(i, list[i].val)

NewCurrent(list) == Present(list) = Readable' \/ Done(fg')

LEMMA DiskSame ==
    ASSUME IInv, UNCHANGED disk, PastKept
    PROVE  /\ DiskKeeps /\ Readable' = Readable
           /\ owed' = owed => LoginsSurvive'
<1>1. DiskType' /\ Identities(file)' /\ quarantine' = quarantine /\ file' = file
  BY DEF IInv, disk, DiskType, Identities, Present, Who, Detected, Twins, PastKept
<1>2. Readable' = Readable
  BY DEF disk, Readable, Unreadable, Decrypts, Present, CurrentKey
<1>3. \A i \in Ids : file[i] # None => ValuesOk(i, file[i].val)
  BY FileFacts DEF IInv, ValuesInv
<1>4. DiskKeeps
  BY <1>1, <1>3 DEF DiskKeeps, ValuesOk, PastKept
<1>5. owed' = owed => LoginsSurvive'
  BY <1>1 DEF IInv, LoginsSurvive
<1> QED BY <1>2, <1>4, <1>5

LEMMA ValuesStay ==
    ASSUME IInv, DiskKeeps, cached \subseteq cached', used \subseteq used'
    PROVE  /\ \A i \in used : \A val : ValuesOk(i, val) => NewOk(i, val)
           /\ \A list : ListOk(list) => NewListOk(list)
           /\ \A i \in Present(file') : NewOk(i, file'[i].val)
<1>1. used \subseteq Ids
  BY DEF IInv, WindowType
<1>2. ASSUME NEW i \in used, NEW val, ValuesOk(i, val)
      PROVE  NewOk(i, val)
  BY <1>1, <1>2, NoneFacts DEF DiskKeeps, NewOk, ValuesOk, PastKept
<1>3. ASSUME NEW list, ListOk(list)
      PROVE  NewListOk(list)
  BY <1>2, <1>3 DEF NewListOk, ListOk
<1>4. ASSUME NEW i \in Present(file') PROVE NewOk(i, file'[i].val)
  <2>1. i \in Ids /\ file'[i] # None
    BY DEF Present
  <2> QED BY <2>1 DEF DiskKeeps, NewOk
<1> QED BY <1>2, <1>3, <1>4

\* Lists, forms and records are all there is to ValuesInv.
LEMMA ValuesKept ==
    ASSUME IInv, DiskKeeps, cached \subseteq cached', used \subseteq used',
           Present(file') \subseteq used',
           NewListOk(shown'), NewListOk(sync'.list), \A l \in loads' : NewListOk(l.list),
           fg' \in Edits => fg'.id \in used' /\ NewOk(fg'.id, fg'.d.val),
           fg' \in Creating => fg'.id \notin used' /\ fg'.d = NewDetails
    PROVE  ValuesInv'
<1>1. \A i \in Present(file') : NewOk(i, file'[i].val)
  BY ValuesStay
<1> QED BY <1>1 DEF ValuesInv, NewListOk, ListOk, NewOk, ValuesOk, Present, NewDetails

\* Records that are used stay used.
LEMMA RecordsUsed ==
    ASSUME IInv, UNCHANGED used,
           \A i \in Ids : file'[i] # None => file[i] # None
    PROVE  Present(file') \subseteq used'
  BY DEF IInv, ValuesInv, Present

\* A step of the dialogs and commands.
LEMMA DialogStep ==
    ASSUME IInv, DiskKeeps, LoginsSurvive',
           UNCHANGED <<shown, loads, sync, returned, lists>>,
           cached \subseteq cached', cached' \subseteq Puuids \cup {"picked"},
           used \subseteq used', used' \subseteq Ids, Present(file') \subseteq used',
           owed' \in [Ids -> Logins \cup {Empty, None}],
           \/ fg' = Idle
           \/ fg' \in Creating \/ fg' \in Refreshing \/ fg' \in Choosing \/ fg' \in Edits
           \/ fg' \in Answers,
           fg' \in Edits => fg'.id \in used' /\ NewOk(fg'.id, fg'.d.val),
           fg' \in Creating => fg'.id \notin used' /\ fg'.d = NewDetails,
           (Readable' = Readable /\ ~Done(fg)) \/ Done(fg')
    PROVE  IInv'
<1>1. DiskType' /\ Identities(file)'
  BY DEF DiskKeeps
<1>2. WindowType'
  BY DEF IInv, WindowType, lists, Rosters, LocalAccountSummary, DiskKeeps, PastKept
<1>3. ValuesInv'
  <2>1. NewListOk(shown) /\ NewListOk(sync.list) /\ \A l \in loads : NewListOk(l.list)
    BY ValuesStay DEF IInv, ValuesInv
  <2> QED BY <2>1, ValuesKept
<1>4. SyncInv'
  BY DEF IInv, SyncInv
<1>5. FreshInv'
  BY DEF IInv, FreshInv, Current, Done, lists
<1> QED BY <1>1, <1>2, <1>3, <1>4, <1>5 DEF IInv

\* A step of the sync.
LEMMA SyncStepKeeps ==
    ASSUME IInv, DiskKeeps, LoginsSurvive', Readable' = Readable,
           UNCHANGED <<shown, loads, fg, lists, used, owed>>, returned' \subseteq Ids,
           \A i \in Ids : file'[i] # None => file[i] # None,
           cached \subseteq cached', cached' \subseteq Puuids \cup {"picked"},
           sync' \in Syncs, SyncInv',
           NewListOk(sync'.list),
           sync'.at = "list" /\ sync'.fresh => Present(sync'.list) = Readable
    PROVE  IInv'
<1>1. DiskType' /\ Identities(file)'
  BY DEF DiskKeeps
<1>2. UNCHANGED <<shown, loads, fg, used, owed, listFailed, overtaken>>
  BY DEF lists
<1>3. WindowType'
  BY <1>2 DEF IInv, WindowType, DiskKeeps, PastKept
<1>4. ValuesInv'
  <2>1. NewListOk(shown) /\ \A l \in loads : NewListOk(l.list)
    BY <1>2, ValuesStay DEF IInv, ValuesInv
  <2>2. Present(file') \subseteq used'
    BY <1>2, RecordsUsed
  <2>3. fg \in Edits => fg.id \in used /\ NewOk(fg.id, fg.d.val)
    BY <1>2, ValuesStay DEF IInv, ValuesInv
  <2>4. fg \in Creating => fg.id \notin used /\ fg.d = NewDetails
    BY DEF IInv, ValuesInv
  <2> QED BY <1>2, <2>1, <2>2, <2>3, <2>4, ValuesKept
<1>5. FreshInv'
  BY <1>2 DEF IInv, FreshInv, Current
<1> QED BY <1>1, <1>3, <1>4, <1>5 DEF IInv

-----------------------------------------------------------------------------
(* Dialogs.                                                                *)

\* Which command the window is busy with says what there is of it.
LEMMA DialogKinds ==
    ASSUME NEW c, \/ c = Idle
                  \/ c \in Creating \/ c \in Refreshing \/ c \in Choosing \/ c \in Edits
                  \/ c \in Answers
    PROVE  /\ c.cmd = "create" /\ c.at = "sent" => c \in Creating
           /\ c.cmd = "refresh" /\ c.at = "sent" => c \in Refreshing
           /\ c.cmd \in {"delete", "launch"} /\ c.at = "sent" => c \in Choosing
           /\ c.cmd = "edit" /\ c.at \in {"form", "sent"} => c \in Edits
           /\ c # Idle /\ c.at \in {"done", "failed"} => c \in Answers
  BY DEF Idle, Creating, Refreshing, Choosing, Edits, Answers, Commands

LEMMA NotOthers ==
    /\ Idle \notin Answers /\ Idle \notin Edits /\ Idle \notin Creating
    /\ \A c \in Creating : c \notin Edits /\ c \notin Answers
    /\ \A c \in Refreshing : c \notin Edits /\ c \notin Creating /\ c \notin Answers
    /\ \A c \in Choosing : c \notin Edits /\ c \notin Creating /\ c \notin Answers
    /\ \A c \in Edits : c \notin Creating /\ c \notin Answers
    /\ \A c \in Answers : c \notin Edits /\ c \notin Creating
<1>1. Idle.cmd = "none"
  BY DEF Idle
<1> QED BY <1>1 DEF Creating, Refreshing, Choosing, Edits, Answers, Commands

LEMMA NewDetailsType == NewDetails \in Details
<1>1. "own" \in Values
  BY DEF Values
<1> QED BY <1>1 DEF NewDetails, Details

\* A dialog that leaves the disk and the lists alone.
LEMMA DialogOpens ==
    ASSUME IInv, UNCHANGED <<disk, shown, loads, sync, lists, used, past>>,
           cached \subseteq cached', cached' \subseteq Puuids \cup {"picked"},
           ~Done(fg),
           \/ fg' = Idle
           \/ fg' \in Creating \/ fg' \in Refreshing \/ fg' \in Choosing \/ fg' \in Edits
           \/ fg' \in Answers,
           fg' \in Edits => fg'.id \in used' /\ NewOk(fg'.id, fg'.d.val),
           fg' \in Creating => fg'.id \notin used' /\ fg'.d = NewDetails
    PROVE  IInv'
<1>1. DiskKeeps /\ Readable' = Readable /\ LoginsSurvive'
  BY DiskSame DEF past, PastKept
<1>2. file' = file
  BY DEF disk
<1>3. /\ used' \subseteq Ids /\ owed' \in [Ids -> Logins \cup {Empty, None}]
      /\ returned' = returned
  BY DEF IInv, WindowType, past
<1>4. Present(file') \subseteq used'
  BY <1>2 DEF IInv, ValuesInv
<1> QED BY <1>1, <1>3, <1>4, DialogStep

LEMMA DialogSent ==
    ASSUME IInv, NEW c, Send(c),
           c \in Creating \/ c \in Refreshing \/ c \in Choosing \/ c \in Edits,
           c \in Edits => c.id \in used /\ ValuesOk(c.id, c.d.val),
           c \in Creating => c.id \notin used /\ c.d = NewDetails
    PROVE  IInv'
<1>1. /\ UNCHANGED <<disk, cached, shown, loads, sync, lists, used, past>>
      /\ fg = Idle /\ fg' = c
  BY DEF Send
<1>2. ~Done(fg)
  BY <1>1, NotOthers DEF Done
<1>3. c \in Edits => NewOk(c.id, c.d.val)
  BY <1>1 DEF disk, past, NewOk, ValuesOk
<1>4. cached' \subseteq Puuids \cup {"picked"}
  BY <1>1 DEF IInv, WindowType
<1> QED BY <1>1, <1>2, <1>3, <1>4, DialogOpens

LEMMA ConfirmImportKeeps == ASSUME IInv, ConfirmImport PROVE IInv'
<1>1. PICK i \in Ids \ used, login \in Logins \cup {Empty} :
        Send([cmd |-> "create", at |-> "sent", id |-> i, d |-> NewDetails, login |-> login])
  BY DEF ConfirmImport
<1> DEFINE c == [cmd |-> "create", at |-> "sent", id |-> i, d |-> NewDetails, login |-> login]
<1>2. c \in Creating /\ c.id = i /\ c.d = NewDetails
  BY NewDetailsType DEF Creating
<1> QED BY <1>1, <1>2, NotOthers, DialogSent

LEMMA SignInAgainKeeps == ASSUME IInv, SignInAgain PROVE IInv'
<1>1. PICK i \in Rows, login \in Logins \cup {Empty} :
        Send([cmd |-> "refresh", at |-> "sent", id |-> i, login |-> login])
  BY DEF SignInAgain
<1>2. [cmd |-> "refresh", at |-> "sent", id |-> i, login |-> login] \in Refreshing
  BY DEF Refreshing, Rows, Present
<1> QED BY <1>1, <1>2, NotOthers, DialogSent

LEMMA ChoiceKeeps == ASSUME IInv, ConfirmDelete \/ HandleLaunch PROVE IInv'
<1>1. PICK i \in Rows, do \in {"delete", "launch"} :
        Send([cmd |-> do, at |-> "sent", id |-> i])
  BY DEF ConfirmDelete, HandleLaunch
<1>2. [cmd |-> do, at |-> "sent", id |-> i] \in Choosing
  BY DEF Choosing, Rows, Present
<1> QED BY <1>1, <1>2, NotOthers, DialogSent

LEMMA OpenEditKeeps == ASSUME IInv, OpenEdit PROVE IInv'
<1>1. PICK i \in Rows :
        Send([cmd |-> "edit", at |-> "form", id |-> i,
              d |-> [val |-> shown[i].val, auto |-> shown[i].auto]])
  BY DEF OpenEdit
<1> DEFINE c == [cmd |-> "edit", at |-> "form", id |-> i,
                 d |-> [val |-> shown[i].val, auto |-> shown[i].auto]]
<1>2. i \in Ids /\ shown[i] # None
  BY DEF Rows, Present
<1>3. shown[i] \in LocalAccountSummary
  BY <1>2 DEF IInv, WindowType, Rosters
<1>4. c \in Edits /\ c.id = i /\ c.d.val = shown[i].val
  BY <1>2, <1>3 DEF Edits, Details, LocalAccountSummary
<1>5. i \in used /\ ValuesOk(i, shown[i].val)
  BY <1>2 DEF IInv, ValuesInv, ListOk
<1> QED BY <1>1, <1>4, <1>5, NotOthers, DialogSent

LEMMA EditFacts ==
    ASSUME IInv, Editing
    PROVE  /\ fg \in Edits /\ fg.id \in used /\ fg.id \in Ids /\ ~Done(fg)
           /\ ValuesOk(fg.id, fg.d.val) /\ fg.d \in Details
           /\ fg.d.val \in [Kinds -> Values] /\ fg.d.auto \in [Kinds -> BOOLEAN]
<1>1. fg \in Edits
  BY DialogKinds DEF Editing, IInv, WindowType
<1> QED BY <1>1, NotOthers DEF IInv, ValuesInv, Edits, Done, Details

LEMMA PickIconKeeps == ASSUME IInv, PickIcon PROVE IInv'
<1>1. fg \in Edits /\ fg.id \in used /\ ~Done(fg) /\ ValuesOk(fg.id, fg.d.val) /\ fg.d \in Details
  BY EditFacts DEF PickIcon
<1>2. /\ fg' = [fg EXCEPT !.d.val["icon"] = "picked", !.d.auto["icon"] = FALSE]
      /\ UNCHANGED <<disk, shown, loads, sync, lists, used, past>>
      /\ cached' = cached \cup {"picked"} /\ "icon" \in Kinds
  BY DEF PickIcon, upload_profile_icon, SaveIcon
<1>3. "picked" \in Values
  BY DEF Values
<1>4. /\ fg' \in Edits /\ fg'.id = fg.id
      /\ fg'.d.val = [fg.d.val EXCEPT !["icon"] = "picked"]
  BY <1>1, <1>2, <1>3 DEF Edits, Details
<1>5. NewOk(fg.id, fg'.d.val)
  <2>1. ASSUME NEW k \in Kinds
        PROVE  fg'.d.val[k] = IF k = "icon" THEN "picked" ELSE fg.d.val[k]
    BY <1>1, <1>4 DEF Edits, Details
  <2> QED BY <1>1, <1>2, <2>1, NoneFacts DEF NewOk, ValuesOk, disk, past
<1>6. cached' \subseteq Puuids \cup {"picked"}
  BY <1>2 DEF IInv, WindowType
<1> QED BY <1>1, <1>2, <1>4, <1>5, <1>6, NotOthers, DialogOpens

LEMMA CloseEditKeeps == ASSUME IInv, CloseEdit PROVE IInv'
<1>1. ~Done(fg)
  BY EditFacts DEF CloseEdit
<1>2. /\ UNCHANGED <<disk, cached, shown, loads, sync, lists, used, past>>
      /\ fg' = Idle /\ cached' \subseteq Puuids \cup {"picked"}
  BY DEF CloseEdit, IInv, WindowType
<1> QED BY <1>1, <1>2, NotOthers, DialogOpens

-----------------------------------------------------------------------------
(* Commands.                                                               *)

\* A record whose identity no other profile has.
Alone(i, r) ==
    /\ r.puuid # None => Detected(r.login) \in {None, r.puuid}
    /\ Who(r) # None => \A j \in Present(Loaded) \ {i} :
        Loaded[j].puuid # Who(r) \/ Twins(i, j, Who(r))

Replaces(new, i, r) == new = [Loaded EXCEPT ![i] = r]

\* One profile is replaced in a list that is good.
LEMMA OneReplaced ==
    ASSUME IInv, PastKept, NEW i \in Ids, NEW r \in LocalAccount, Fits(i, r), Alone(i, r),
           NEW new, Replaces(new, i, r)
    PROVE  Good(new) /\ \A j \in Ids \ {i} : new[j] = Loaded[j]
<1>1. Loaded \in Vaults /\ Present(Loaded) = Readable
  BY LoadedFacts DEF IInv
<1>2. Good(Loaded) /\ Identities(Loaded)
  BY LoadedGood, LoadedIdentities DEF IInv
<1>3. /\ new \in Vaults /\ new[i] = r /\ r # None
      /\ \A j \in Ids \ {i} : new[j] = Loaded[j]
  BY <1>1, NoneFacts DEF Vaults, Replaces
<1>4. \A j \in Present(new) \ {i} : j \in Present(Loaded) /\ new[j] = Loaded[j] /\ j \in Ids
  BY <1>3 DEF Present
<1>5. Identities(new)
  <2>1. \A j \in Present(new) : new[j].puuid # None
                                => Detected(new[j].login) \in {None, new[j].puuid}
    BY <1>2, <1>3, <1>4 DEF Identities, Alone
  <2>2. ASSUME NEW j \in Present(new), NEW m \in Present(new), j # m, Who(new[j]) # None,
               Who(new[j]) = Who(new[m])
        PROVE  Twins(j, m, Who(new[j]))
    <3>1. \A n \in Present(Loaded) : Loaded[n].puuid = Who(Loaded[n])
      BY LoadedIdentities DEF IInv
    <3>2. CASE j # i /\ m # i
      BY <1>2, <1>4, <2>2, <3>2 DEF Identities
    <3>3. CASE j = i
      BY <1>3, <1>4, <2>2, <3>1, <3>3 DEF Alone, Twins
    <3>4. CASE m = i
      BY <1>3, <1>4, <2>2, <3>1, <3>4 DEF Alone, Twins
    <3> QED BY <3>2, <3>3, <3>4
  <2> QED BY <2>1, <2>2 DEF Identities
<1> QED BY <1>2, <1>3, <1>4, <1>5 DEF Good

LEMMA CreateGood ==
    ASSUME IInv, PastKept, fg \in Creating,
           NEW new \in create_profile(Loaded, fg.id, fg.d, fg.login)
    PROVE  Good(new) /\ \A j \in Ids \ {fg.id} : new[j] = Loaded[j]
<1> DEFINE i == fg.id
           r == [login |-> fg.login, puuid |-> Detected(fg.login), val |-> fg.d.val,
                 auto |-> fg.d.auto, form |-> Plain, damaged |-> FALSE]
<1>1. /\ i \in Ids /\ fg.d \in Details /\ fg.login \in Logins \cup {Empty}
      /\ i \notin used /\ fg.d.val = [k \in Kinds |-> "own"]
  BY DEF IInv, ValuesInv, Creating, NewDetails
<1>2. Detected(fg.login) \in Puuids \cup {None}
  BY DetectedFacts
<1>3. /\ r \in LocalAccount /\ ~r.damaged /\ Who(r) = Detected(fg.login)
      /\ r.puuid = Detected(fg.login) /\ r.login = fg.login
      /\ \A k \in Kinds : r.val[k] = "own"
  BY <1>1, <1>2 DEF LocalAccount, Details, Plain, Who
<1>4. /\ new = [Loaded EXCEPT ![i] = r]
      /\ ~Claimed(Loaded, Detected(fg.login), i)
  BY DEF create_profile
<1>5. i \notin Readable
  BY <1>1 DEF IInv, ValuesInv, Readable
<1>6. Fits(i, r)
  BY <1>1, <1>3, <1>5, NoneFacts DEF Fits
<1>7. Alone(i, r)
  BY <1>3, <1>4 DEF Alone, Claimed
<1>8. i \in Ids /\ r \in LocalAccount /\ Replaces(new, i, r)
  BY <1>1, <1>3, <1>4 DEF Replaces
<1> HIDE DEF r, i
<1>9. Good(new) /\ \A j \in Ids \ {i} : new[j] = Loaded[j]
  BY <1>6, <1>7, <1>8, OneReplaced
<1> QED BY <1>9 DEF i

LEMMA ProfileThere ==
    ASSUME IInv, PastKept, NEW i \in Ids, Loaded[i] # None
    PROVE  /\ i \in Readable /\ Loaded[i] \in LocalAccount /\ ~Loaded[i].damaged
           /\ file[i] # None /\ file[i] \in LocalAccount
           /\ Loaded[i].puuid = Who(file[i]) /\ Loaded[i].puuid = Who(Loaded[i])
           /\ Loaded[i].val = file[i].val /\ Loaded[i].auto = file[i].auto
           /\ Loaded[i].puuid # None => Detected(Loaded[i].login) \in {None, Loaded[i].puuid}
           /\ \A j \in Present(Loaded) \ {i} : Loaded[i].puuid # None =>
                Loaded[j].puuid # Loaded[i].puuid \/ Twins(i, j, Loaded[i].puuid)
           /\ Fits(i, Loaded[i])
<1>1. i \in Present(Loaded)
  BY DEF Present
<1>2. Good(Loaded) /\ Identities(Loaded)
  BY LoadedGood, LoadedIdentities DEF IInv
<1>3. \A j \in Present(Loaded) : Loaded[j].puuid = Who(Loaded[j])
  BY LoadedIdentities DEF IInv
<1>4. /\ i \in Readable /\ Loaded[i] \in LocalAccount /\ ~Loaded[i].damaged
      /\ file[i] \in LocalAccount /\ Loaded[i] = Bound(file[i])
  BY <1>1, LoadedFacts DEF IInv
<1>5. \A j \in Present(Loaded) \ {i} : Loaded[i].puuid # None =>
        Loaded[j].puuid # Loaded[i].puuid \/ Twins(i, j, Loaded[i].puuid)
  BY <1>1, <1>2, <1>3 DEF Identities
<1> QED BY <1>1, <1>2, <1>3, <1>4, <1>5, BoundFacts, NoneFacts DEF Good, Identities

\* What a form may be submitted with.
LEMMA SubmittedDetails ==
    ASSUME fg.d \in Details, NEW d \in Submitted
    PROVE  d \in Details /\ \A k \in Kinds : d.val[k] \in {fg.d.val[k], "own"}
<1>1. PICK auto \in [Kinds -> BOOLEAN], typed \in SUBSET Kinds :
          d = [auto |-> auto,
               val |-> [k \in Kinds |-> IF k \in typed THEN "own" ELSE fg.d.val[k]]]
  BY DEF Submitted
<1>2. \A k \in Kinds : fg.d.val[k] \in Values
  BY DEF Details
<1>3. "own" \in Values
  BY DEF Values
<1>4. [k \in Kinds |-> IF k \in typed THEN "own" ELSE fg.d.val[k]] \in [Kinds -> Values]
  BY <1>2, <1>3
<1> QED BY <1>1, <1>4 DEF Details

LEMMA EditGood ==
    ASSUME IInv, PastKept, Editing, NEW d \in Submitted,
           NEW new \in edit_profile(Loaded, fg.id, d)
    PROVE  Good(new) /\ \A j \in Ids \ {fg.id} : new[j] = Loaded[j]
<1> DEFINE i == fg.id
           val == [k \in Kinds |-> IF Loaded[i].auto[k] /\ d.auto[k]
                                   THEN Loaded[i].val[k] ELSE d.val[k]]
           r == [Loaded[i] EXCEPT !.auto = d.auto, !.val = val]
<1>1. /\ i \in Ids /\ fg.d \in Details /\ i \in used /\ ValuesOk(i, fg.d.val)
  BY EditFacts
<1>11. /\ d.val \in [Kinds -> Values] /\ d.auto \in [Kinds -> BOOLEAN]
       /\ \A k \in Kinds : d.val[k] \in {fg.d.val[k], "own"}
  BY <1>1, SubmittedDetails DEF Details
<1>2. Loaded[i] # None
  BY DEF edit_profile
<1>3. Loaded \in Vaults
  BY LoadedFacts DEF IInv
<1>4. Replaces(new, i, r)
  BY <1>1, <1>2, <1>3 DEF edit_profile, Vaults, Replaces
<1>5. val \in [Kinds -> Values]
  <2>1. Loaded[i].val \in [Kinds -> Values] /\ Loaded[i].auto \in [Kinds -> BOOLEAN]
    BY <1>1, <1>2, ProfileThere DEF LocalAccount
  <2> QED BY <1>11, <2>1
<1>6. \A k \in Kinds : /\ val[k] \in Puuids =>
                            Loaded[i].puuid = val[k] \/ (k = "rank" /\ i \in returned')
                       /\ k = "icon" => val[k] \in cached \cup {"own"}
  <2>1. \A k \in Kinds : val[k] \in {Loaded[i].val[k], fg.d.val[k], "own"}
    BY <1>11
  <2> QED BY <1>1, <1>2, <2>1, ProfileThere, NoneFacts DEF ValuesOk, Who, Fits, PastKept
<1> HIDE DEF val
<1>7. /\ r \in LocalAccount /\ ~r.damaged /\ r.val = val
      /\ r.login = Loaded[i].login /\ r.puuid = Loaded[i].puuid
  <2>1. Loaded[i] \in LocalAccount /\ ~Loaded[i].damaged
    BY <1>1, <1>2, ProfileThere
  <2> QED BY <1>11, <1>5, <2>1 DEF LocalAccount
<1>8. Who(r) = Loaded[i].puuid
  BY <1>1, <1>2, <1>7, ProfileThere DEF Who
<1>9. Fits(i, r)
  BY <1>1, <1>2, <1>6, <1>7, ProfileThere DEF Fits
<1>10. Alone(i, r)
  BY <1>1, <1>2, <1>7, <1>8, ProfileThere DEF Alone
<1> HIDE DEF r
<1> QED BY <1>1, <1>4, <1>7, <1>9, <1>10, OneReplaced

LEMMA RefreshGood ==
    ASSUME IInv, PastKept, fg \in Refreshing,
           NEW new \in refresh_session(Loaded, fg.id, fg.login)
    PROVE  Good(new) /\ \A j \in Ids \ {fg.id} : new[j] = Loaded[j]
<1> DEFINE i == fg.id
           who == Detected(fg.login)
           r == [Loaded[i] EXCEPT !.login = fg.login,
                                  !.puuid = IF who # None THEN who ELSE Loaded[i].puuid]
<1>1. i \in Ids /\ fg.login \in Logins \cup {Empty}
  BY DEF Refreshing
<1>2. /\ Loaded[i] # None /\ ~Claimed(Loaded, who, i)
      /\ who # None => Loaded[i].puuid \in {None, who}
  BY DEF refresh_session
<1>3. Loaded \in Vaults /\ who \in Puuids \cup {None}
  BY LoadedFacts, DetectedFacts DEF IInv
<1>4. Replaces(new, i, r)
  BY <1>1, <1>2, <1>3 DEF refresh_session, Vaults, Replaces
<1>5. /\ r \in LocalAccount /\ ~r.damaged /\ r.val = Loaded[i].val /\ r.login = fg.login
      /\ r.puuid = IF who # None THEN who ELSE Loaded[i].puuid
  <2>1. Loaded[i] \in LocalAccount /\ ~Loaded[i].damaged
    BY <1>1, <1>2, ProfileThere
  <2> HIDE DEF who
  <2> QED BY <1>1, <1>3, <2>1 DEF LocalAccount
<1>6. Detected(r.login) = who /\ Who(r) = r.puuid
  BY <1>5 DEF Who
<1>7. Fits(i, r)
  <2>1. Fits(i, Loaded[i])
    BY <1>1, <1>2, ProfileThere
  <2> QED BY <1>2, <1>5, <2>1, NoneFacts DEF Fits
<1>8. Alone(i, r)
  BY <1>1, <1>2, <1>5, <1>6, ProfileThere DEF Alone, Claimed
<1> HIDE DEF r
<1> QED BY <1>1, <1>4, <1>5, <1>7, <1>8, OneReplaced

LEMMA DeleteGood ==
    ASSUME IInv, PastKept, fg \in Choosing, NEW new \in delete_account(Loaded, fg.id)
    PROVE  Good(new) /\ \A j \in Ids \ {fg.id} : new[j] = Loaded[j]
<1>1. Loaded \in Vaults /\ fg.id \in Ids /\ new = [Loaded EXCEPT ![fg.id] = None]
  BY LoadedFacts DEF IInv, Choosing, delete_account
<1>2. Good(Loaded)
  BY LoadedGood DEF IInv
<1>3. new \in Vaults /\ new[fg.id] = None /\ \A j \in Ids \ {fg.id} : new[j] = Loaded[j]
  BY <1>1 DEF Vaults
<1>4. \A j \in Present(new) : j \in Present(Loaded) /\ new[j] = Loaded[j]
  BY <1>3 DEF Present
<1> QED BY <1>2, <1>3, <1>4 DEF Good, Identities

\* A command, carried out or not.
LEMMA RunKeeps ==
    ASSUME IInv, fg \in Creating \/ fg \in Refreshing \/ fg \in Choosing \/ fg \in Edits,
           NEW results, Run(fg, results),
           PastKept => \A new \in results :
                Good(new) /\ \A j \in Ids \ {fg.id} : new[j] = Loaded[j]
    PROVE  IInv'
<1>1. fg.id \in Ids /\ fg.cmd \in Commands /\ ~Done(fg)
  BY NotOthers DEF Creating, Refreshing, Choosing, Edits, Commands, Done
<1>2. /\ UNCHANGED <<cached, shown, loads, sync, returned, lists>> /\ PastKept
      /\ cached' \subseteq Puuids \cup {"picked"} /\ used \subseteq Ids
      /\ owed \in [Ids -> Logins \cup {Empty, None}]
  BY DEF Run, IInv, WindowType, PastKept
<1>3. ASSUME NEW new \in results, Update(new), Carried(fg, new)
      PROVE  IInv'
  <2>1. /\ Good(new) /\ \A j \in Ids \ {fg.id} : new[j] = Loaded[j]
    BY <1>2, <1>3
  <2>2. /\ DiskKeeps /\ quarantine \subseteq quarantine'
        /\ \A i \in Unreadable : [id |-> i, was |-> file[i]] \in quarantine'
        /\ \A i \in Ids : /\ file'[i] # None <=> new[i] # None
                          /\ new[i] # None => file'[i].login = new[i].login
    BY <1>2, <1>3, <2>1, UpdateKeeps DEF IInv, DiskKeeps
  <2>3. /\ owed' = [owed EXCEPT ![fg.id] = IF new[fg.id] = None THEN None ELSE new[fg.id].login]
        /\ used' = used \cup {fg.id}
        /\ fg' = [cmd |-> fg.cmd, at |-> "done"]
    BY <1>3 DEF Carried
  <2>4. fg' \in Answers /\ Done(fg') /\ fg' \notin Edits /\ fg' \notin Creating
    BY <1>1, <2>3, NotOthers DEF Answers, Done
  <2>5. new[fg.id] # None => new[fg.id].login \in Logins \cup {Empty}
    BY <1>1, <2>1 DEF Good, Vaults, LocalAccount
  <2>6. owed' \in [Ids -> Logins \cup {Empty, None}]
    BY <1>2, <2>3, <2>5
  <2>7. \A i \in Readable : i \in Ids /\ Loaded[i] # None /\ Loaded[i].login = file[i].login
    <3>1. \A i \in Readable : /\ i \in Present(Loaded) /\ file[i] \in LocalAccount
                              /\ Loaded[i] = Bound(file[i])
      BY LoadedFacts DEF IInv
    <3> QED BY <3>1, BoundFacts DEF Present
  <2>8. LoginsSurvive'
    <3>1. ASSUME NEW i \in Ids, owed'[i] # None
          PROVE  \/ file'[i] # None /\ file'[i].login = owed'[i]
                 \/ /\ owed'[i] = owed[i]
                    /\ i \in Readable => file'[i] # None /\ file'[i].login = file[i].login
      <4>1. CASE i = fg.id
        BY <1>2, <2>2, <2>3, <3>1, <4>1
      <4>2. CASE i # fg.id
        BY <1>2, <2>1, <2>2, <2>3, <2>7, <4>2
      <4> QED BY <4>1, <4>2
    <3> QED BY <2>2, <3>1, LoginsKept DEF IInv
  <2>9. Present(file') \subseteq used'
    <3>1. \A i \in Ids : Loaded[i] # None => i \in used
      BY LoadedFacts DEF IInv, ValuesInv, Present, Readable
    <3> QED BY <2>1, <2>2, <2>3, <3>1 DEF Present
  <2> QED BY <1>1, <1>2, <2>2, <2>3, <2>4, <2>6, <2>8, <2>9, DialogStep
<1>4. ASSUME NEW done \in BOOLEAN, Load(done), fg' = [cmd |-> fg.cmd, at |-> "failed"],
             UNCHANGED <<owed, used>>
      PROVE  IInv'
  <2>1. /\ DiskKeeps /\ Readable' = Readable /\ LoginsSurvive'
        /\ \A i \in Ids : file'[i] # None => file[i] # None
    BY <1>2, <1>4, LoadKeeps DEF IInv
  <2>2. fg' \in Answers /\ fg' \notin Edits /\ fg' \notin Creating
    BY <1>1, <1>4, NotOthers DEF Answers
  <2>3. Present(file') \subseteq used'
    BY <1>4, <2>1, RecordsUsed
  <2> QED BY <1>1, <1>2, <1>4, <2>1, <2>2, <2>3, DialogStep
<1> QED BY <1>3, <1>4 DEF Run

LEMMA CommandsKeep ==
    ASSUME IInv, \/ SaveLocalAccount \/ EditLocalAccount \/ DeleteLocalAccount
                 \/ RefreshLocalAccount \/ LaunchLocalAccount
    PROVE  IInv'
<1>1. fg = Idle \/ fg \in Creating \/ fg \in Refreshing \/ fg \in Choosing \/ fg \in Edits
      \/ fg \in Answers
  BY DEF IInv, WindowType
<1>2. CASE SaveLocalAccount
  <2>1. fg \in Creating /\ fg.at = "sent"
    BY <1>1, <1>2, DialogKinds DEF SaveLocalAccount, Waiting
  <2> QED BY <1>2, <2>1, CreateGood, RunKeeps DEF SaveLocalAccount
<1>3. CASE EditLocalAccount
  <2> DEFINE results == UNION {edit_profile(Loaded, fg.id, d) : d \in Submitted}
  <2>1. fg \in Edits /\ Editing /\ Run(fg, results)
    BY <1>3, EditFacts DEF EditLocalAccount
  <2>2. PastKept => \A new \in results :
                Good(new) /\ \A j \in Ids \ {fg.id} : new[j] = Loaded[j]
    BY <2>1, EditGood
  <2> HIDE DEF results
  <2> QED BY <2>1, <2>2, RunKeeps
<1>4. CASE DeleteLocalAccount
  <2>1. fg \in Choosing /\ fg.at = "sent"
    BY <1>1, <1>4, DialogKinds DEF DeleteLocalAccount, Waiting
  <2> QED BY <1>4, <2>1, DeleteGood, RunKeeps DEF DeleteLocalAccount
<1>5. CASE RefreshLocalAccount
  <2>1. fg \in Refreshing /\ fg.at = "sent"
    BY <1>1, <1>5, DialogKinds DEF RefreshLocalAccount, Waiting
  <2> QED BY <1>5, <2>1, RefreshGood, RunKeeps DEF RefreshLocalAccount
<1>6. CASE LaunchLocalAccount
  <2>1. fg \in Choosing /\ fg.at = "sent"
    BY <1>1, <1>6, DialogKinds DEF LaunchLocalAccount, Waiting
  <2>2. \A new \in mark_played(Loaded, fg.id) : new = Loaded
    BY DEF mark_played
  <2>3. PastKept => Good(Loaded)
    BY LoadedGood DEF IInv
  <2> QED BY <1>6, <2>1, <2>2, <2>3, RunKeeps DEF LaunchLocalAccount
<1> QED BY <1>2, <1>3, <1>4, <1>5, <1>6

-----------------------------------------------------------------------------
(* Listings.                                                               *)

LEMMA NothingFacts ==
    /\ Nothing \in Rosters /\ Present(Nothing) = {} /\ ListOk(Nothing) /\ NewListOk(Nothing)
  BY DEF Nothing, Rosters, Present, ListOk, NewListOk

LEMMA NewListings ==
    ASSUME NEW S \in SUBSET Listings
    PROVE  /\ StartLoad(S) \subseteq Listings
           /\ \A l \in StartLoad(S) : l.at = "sent" /\ (l.fresh => l.list = Nothing)
           /\ \A l, m \in StartLoad(S) : l.fresh /\ m.fresh => l = m
           /\ \E l \in StartLoad(S) : l.fresh
           /\ \A l \in StartLoad(S) : l.list = Nothing \/ \E m \in S : l.list = m.list
<1> DEFINE new == [fresh |-> TRUE, at |-> "sent", list |-> Nothing]
           T == {m \in S : m.at = "sent"}
<1>1. new \in Listings /\ new.fresh /\ new.at = "sent" /\ new.list = Nothing
  BY NothingFacts DEF Listings
<1>2. ASSUME NEW m \in S
      PROVE  /\ [m EXCEPT !.fresh = FALSE] \in Listings
             /\ ~[m EXCEPT !.fresh = FALSE].fresh
             /\ [m EXCEPT !.fresh = FALSE].list = m.list
             /\ [m EXCEPT !.fresh = FALSE].at = m.at
  BY DEF Listings
<1>3. /\ T \subseteq S /\ \A m \in T : m.at = "sent"
      /\ StartLoad(S) = {[m EXCEPT !.fresh = FALSE] : m \in T} \cup {new}
  BY DEF StartLoad
<1> HIDE DEF new, T
<1> QED BY <1>1, <1>2, <1>3

\* The profiles are listed again.
LEMMA ListsAgain ==
    ASSUME IInv, UNCHANGED <<disk, cached, shown, lists, used, past>>,
           loads' = StartLoad(loads), sync' = Outdated(sync), fg' = fg \/ fg' = Idle
    PROVE  IInv'
<1>1. loads \in SUBSET Listings /\ sync \in Syncs
  BY DEF IInv, WindowType
<1>2. /\ sync' \in Syncs /\ sync'.list = sync.list /\ sync'.at = sync.at
      /\ sync.at # "list" => sync' = sync
      /\ sync'.at = "list" => ~sync'.fresh
  BY <1>1 DEF Outdated, Syncs
<1>3. DiskKeeps /\ LoginsSurvive' /\ DiskType' /\ Identities(file)' /\ file' = file
  BY DiskSame DEF DiskKeeps, disk, past, PastKept
<1>4. WindowType'
  BY <1>1, <1>2, NewListings DEF IInv, WindowType, lists, past
<1>5. ValuesInv'
  <2>1. /\ NewListOk(shown') /\ NewListOk(sync'.list)
        /\ \A l \in loads : NewListOk(l.list)
        /\ fg \in Edits => fg.id \in used /\ NewOk(fg.id, fg.d.val)
    BY <1>2, <1>3, ValuesStay DEF IInv, ValuesInv
  <2>2. \A l \in loads' : NewListOk(l.list)
    BY <1>1, <2>1, NewListings, NothingFacts
  <2>3. Present(file') \subseteq used'
    BY <1>3 DEF IInv, ValuesInv
  <2>4. /\ fg' \in Edits => fg'.id \in used' /\ NewOk(fg'.id, fg'.d.val)
        /\ fg' \in Creating => fg'.id \notin used' /\ fg'.d = NewDetails
    BY <2>1, NotOthers DEF IInv, ValuesInv
  <2> QED BY <1>3, <2>1, <2>2, <2>3, <2>4, ValuesKept
<1>6. SyncInv'
  BY <1>2 DEF IInv, SyncInv
<1>7. FreshInv'
  BY <1>1, <1>2, NewListings DEF FreshInv
<1> QED BY <1>3, <1>4, <1>5, <1>6, <1>7 DEF IInv

LEMMA AnsweredKeeps == ASSUME IInv, Answered PROVE IInv'
<1>1. /\ fg' = Idle /\ UNCHANGED <<disk, cached, shown, lists, used, past>>
      /\ fg # Idle
  BY DEF Answered
<1>2. CASE fg.at = "done"
  BY <1>1, <1>2, ListsAgain DEF Answered
<1>3. CASE fg.at # "done"
  <2>1. UNCHANGED <<loads, sync>> /\ ~Done(fg)
    BY <1>3 DEF Answered, Done
  <2>2. cached' \subseteq Puuids \cup {"picked"}
    BY <1>1 DEF IInv, WindowType
  <2> QED BY <1>1, <2>1, <2>2, NotOthers, DialogOpens
<1> QED BY <1>2, <1>3

LEMMA RefreshKeeps == ASSUME IInv, Refresh PROVE IInv'
  BY ListsAgain DEF Refresh

LEMMA Summaries ==
    ASSUME IInv, PastKept
    PROVE  /\ list_summaries \in Rosters /\ Present(list_summaries) = Readable
           /\ ListOk(list_summaries)
<1>1. ASSUME NEW i \in Ids
      PROVE  /\ Loaded[i] = None => list_summaries[i] = None /\ i \notin Readable
             /\ Loaded[i] # None =>
                /\ list_summaries[i] \in LocalAccountSummary
                /\ list_summaries[i] # None
                /\ list_summaries[i].val = file[i].val
                /\ i \in Readable /\ i \in Present(file)
  <2>1. list_summaries[i] = IF Loaded[i] = None THEN None ELSE Summary(Loaded[i])
    BY DEF list_summaries
  <2>2. Loaded[i] = None => i \notin Readable
    BY LoadedFacts DEF IInv, Present
  <2>3. ASSUME Loaded[i] # None
        PROVE  Summary(Loaded[i]) \in LocalAccountSummary /\ Summary(Loaded[i]).val = file[i].val
    <3>1. Loaded[i] \in LocalAccount /\ Loaded[i].val = file[i].val
      BY <2>3, ProfileThere
    <3> QED BY <3>1 DEF Summary, LocalAccountSummary, LocalAccount
  <2>4. Loaded[i] # None => i \in Readable /\ i \in Present(file)
    BY ProfileThere DEF Readable
  <2> QED BY <2>1, <2>2, <2>3, <2>4, NoneFacts
<1>2. list_summaries \in Rosters
  BY <1>1 DEF list_summaries, Rosters
<1>3. Present(list_summaries) = Readable
  BY <1>1 DEF Present, Readable
<1>4. ListOk(list_summaries)
  BY <1>1 DEF ListOk, IInv, ValuesInv
<1> QED BY <1>2, <1>3, <1>4

\* A listing is answered.
LEMMA ListingStep ==
    ASSUME IInv, DiskKeeps, LoginsSurvive', Readable' = Readable,
           \A i \in Ids : file'[i] # None => file[i] # None,
           UNCHANGED <<cached, shown, fg, sync, lists, used, past>>,
           NEW l \in loads, NEW m \in Listings, NewListOk(m.list),
           m.at = "ok" => Present(m.list) = Readable,
           loads' = (loads \ {l}) \cup (IF l.fresh THEN {m} ELSE {}), m.fresh = l.fresh
    PROVE  IInv'
<1>1. DiskType' /\ Identities(file)'
  BY DEF DiskKeeps
<1>2. WindowType'
  BY DEF IInv, WindowType, lists, past
<1>3. ValuesInv'
  <2>1. /\ NewListOk(shown) /\ NewListOk(sync.list)
        /\ \A n \in loads : NewListOk(n.list)
        /\ fg \in Edits => fg.id \in used /\ NewOk(fg.id, fg.d.val)
    BY ValuesStay DEF IInv, ValuesInv
  <2>2. Present(file') \subseteq used'
    BY RecordsUsed
  <2>3. fg \in Creating => fg.id \notin used /\ fg.d = NewDetails
    BY DEF IInv, ValuesInv
  <2> QED BY <2>1, <2>2, <2>3, ValuesKept
<1>4. SyncInv'
  BY DEF IInv, SyncInv
<1>5. FreshInv'
  BY DEF IInv, FreshInv, Current, lists
<1> QED BY <1>1, <1>2, <1>3, <1>4, <1>5 DEF IInv

LEMMA ListLocalAccountsKeeps == ASSUME IInv, ListLocalAccounts PROVE IInv'
<1>1. PICK l \in loads : \E m \in {[l EXCEPT !.at = "ok", !.list = list_summaries],
                                  [l EXCEPT !.at = "error"]} :
        /\ Load(m.at = "ok")
        /\ loads' = (loads \ {l}) \cup (IF l.fresh THEN {m} ELSE {})
        /\ UNCHANGED <<cached, shown, fg, sync, lists, used, past>>
  BY DEF ListLocalAccounts
<1>0. PICK m \in {[l EXCEPT !.at = "ok", !.list = list_summaries],
                 [l EXCEPT !.at = "error"]} :
        /\ Load(m.at = "ok")
        /\ loads' = (loads \ {l}) \cup (IF l.fresh THEN {m} ELSE {})
        /\ UNCHANGED <<cached, shown, fg, sync, lists, used, past>>
  BY <1>1
<1>2. l \in Listings /\ PastKept /\ UNCHANGED owed
  BY <1>0 DEF IInv, WindowType, past, PastKept
<1>3. /\ DiskKeeps /\ Readable' = Readable /\ LoginsSurvive'
      /\ \A i \in Ids : file'[i] # None => file[i] # None
  BY <1>0, <1>2, LoadKeeps DEF IInv
<1>4. /\ NewListOk(l.list) /\ NewListOk(list_summaries)
      /\ list_summaries \in Rosters /\ Present(list_summaries) = Readable
  BY <1>0, <1>2, <1>3, Summaries, ValuesStay DEF IInv, ValuesInv
<1>5. /\ m \in Listings /\ m.fresh = l.fresh /\ m.list \in {l.list, list_summaries}
      /\ m.at = "ok" => m.list = list_summaries
  BY <1>0, <1>2, <1>4 DEF Listings
<1> QED BY <1>0, <1>3, <1>4, <1>5, ListingStep

LEMMA ListedKeeps == ASSUME IInv, Listed PROVE IInv'
<1>1. PICK l \in loads :
        /\ l.at # "sent"
        /\ loads' = loads \ {l}
        /\ shown' = l.list /\ overtaken' = FALSE /\ listFailed' = (l.at = "error")
        /\ sync' = IF Signature(shown) # Signature(l.list)
                   THEN [sync EXCEPT !.epoch = FALSE] ELSE sync
        /\ UNCHANGED <<disk, cached, fg, used, past>>
  BY DEF Listed
<1>2. l \in Listings /\ sync \in Syncs
  BY DEF IInv, WindowType
<1>3. /\ sync' \in Syncs /\ sync'.at = sync.at /\ sync'.list = sync.list
      /\ sync'.fresh = sync.fresh /\ sync'.who = sync.who /\ sync'.id = sync.id
      /\ sync'.had = sync.had /\ sync'.got = sync.got /\ sync'.away = sync.away
  <2>1. CASE sync' = sync
    BY <1>2, <2>1
  <2>2. CASE sync' = [sync EXCEPT !.epoch = FALSE]
    BY <1>2, <2>2 DEF Syncs
  <2> QED BY <1>1, <2>1, <2>2
<1>4. /\ shown' = l.list /\ ~overtaken' /\ listFailed' = (l.at = "error")
      /\ overtaken' \in BOOLEAN
  BY <1>1
<1>5. DiskKeeps /\ LoginsSurvive' /\ DiskType' /\ Identities(file)' /\ file' = file
      /\ Readable' = Readable
  BY <1>1, DiskSame DEF DiskKeeps, disk, past, PastKept
<1>6. WindowType'
  <2>1. listFailed' \in BOOLEAN /\ overtaken' \in BOOLEAN
    BY <1>4 DEF IInv, WindowType
  <2>2. shown' \in Rosters
    BY <1>2, <1>4 DEF IInv, WindowType, Listings
  <2> QED BY <1>1, <1>3, <2>1, <2>2 DEF IInv, WindowType, past
<1>7. ValuesInv'
  <2>1. /\ NewListOk(shown) /\ NewListOk(sync.list)
        /\ \A n \in loads : NewListOk(n.list)
        /\ fg \in Edits => fg.id \in used /\ NewOk(fg.id, fg.d.val)
    BY <1>1, <1>5, ValuesStay DEF IInv, ValuesInv
  <2>2. Present(file') \subseteq used'
    BY <1>1, <1>5 DEF IInv, ValuesInv
  <2>3. fg \in Creating => fg.id \notin used /\ fg.d = NewDetails
    BY DEF IInv, ValuesInv
  <2> QED BY <1>1, <1>3, <1>4, <1>5, <2>1, <2>2, <2>3, ValuesKept
<1>8. SyncInv'
  BY <1>1, <1>3 DEF IInv, SyncInv
<1>9. FreshInv'
  <2>1. l.fresh /\ (~listFailed' => Current(l.list))
    BY <1>1, <1>2, <1>4 DEF IInv, FreshInv, Listings
  <2> QED BY <1>1, <1>3, <1>4, <1>5, <2>1 DEF IInv, FreshInv, Current
<1> QED BY <1>5, <1>6, <1>7, <1>8, <1>9 DEF IInv

-----------------------------------------------------------------------------
(* The sync and the surroundings.                                          *)

LEMMA NoSyncFacts ==
    /\ NoSync \in Syncs /\ NoSync.at = "idle" /\ NoSync.list = Nothing
    /\ NoSync.fresh /\ NoSync.who = None /\ ~NoSync.away
<1>1. [k \in Kinds |-> None] \in [Kinds -> Puuids \cup {None}]
  OBVIOUS
<1> QED BY <1>1, NothingFacts DEF NoSync, Syncs

\* The vault was read, or left alone, and the sync goes on or is over.
LEMMA SyncReads ==
    ASSUME IInv, UNCHANGED disk \/ \E done \in BOOLEAN : Load(done),
           UNCHANGED <<shown, loads, fg, lists, used, owed>>,
           PastKept, returned' \subseteq Ids,
           cached \subseteq cached', cached' \subseteq Puuids \cup {"picked"},
           sync' \in Syncs, SyncInv',
           sync'.list \in {sync.list, Nothing, list_summaries},
           sync'.at = "list" /\ sync'.fresh => sync'.list = list_summaries
    PROVE  IInv'
<1>1. /\ DiskKeeps /\ Readable' = Readable /\ LoginsSurvive'
      /\ \A i \in Ids : file'[i] # None => file[i] # None
  <2>1. CASE UNCHANGED disk
    BY <2>1, DiskSame DEF disk
  <2>2. CASE \E done \in BOOLEAN : Load(done)
    BY <2>2, LoadKeeps DEF IInv
  <2> QED BY <2>1, <2>2
<1>2. NewListOk(sync.list) /\ NewListOk(Nothing) /\ NewListOk(list_summaries)
  BY <1>1, Summaries, NothingFacts, ValuesStay DEF IInv, ValuesInv
<1>3. Present(list_summaries) = Readable
  BY Summaries
<1> QED BY <1>1, <1>2, <1>3, SyncStepKeeps

LEMMA SyncEnds ==
    ASSUME IInv, UNCHANGED disk \/ \E done \in BOOLEAN : Load(done),
           UNCHANGED <<cached, shown, loads, fg, lists, used, owed>>, sync' = NoSync,
           PastKept, returned' \subseteq Ids
    PROVE  IInv'
<1>1. cached' \subseteq Puuids \cup {"picked"}
  BY DEF IInv, WindowType
<1>2. sync' \in Syncs /\ sync'.at = "idle" /\ sync'.list = Nothing
  BY NoSyncFacts
<1>3. SyncInv'
  BY <1>2 DEF SyncInv
<1> QED BY <1>1, <1>2, <1>3, SyncReads

\* A step of the sync that changes no history.
LEMMA PastSame ==
    ASSUME IInv, UNCHANGED <<inherited, returned>>
    PROVE  PastKept /\ returned' \subseteq Ids
  BY DEF IInv, WindowType, PastKept

LEMMA SyncNowKeeps == ASSUME IInv, SyncNow PROVE IInv'
<1>1. /\ sync' = [NoSync EXCEPT !.at = "identify"]
      /\ UNCHANGED <<disk, cached, shown, loads, fg, lists, used, owed>>
      /\ UNCHANGED <<inherited, returned>>
  BY DEF SyncNow, past
<1>2. sync' \in Syncs /\ sync'.at = "identify" /\ sync'.list = Nothing
  BY <1>1, NoSyncFacts DEF Syncs
<1>3. SyncInv'
  BY <1>2 DEF SyncInv
<1>4. cached' \subseteq Puuids \cup {"picked"}
  BY <1>1 DEF IInv, WindowType
<1> QED BY <1>1, <1>2, <1>3, <1>4, PastSame, SyncReads

LEMMA IdentifyKeeps == ASSUME IInv, Identify PROVE IInv'
<1>1. /\ UNCHANGED <<cached, shown, loads, fg, lists, used, owed>>
      /\ UNCHANGED <<inherited, returned>>
  BY DEF Identify, SyncStep
<1>2. PastKept /\ returned' \subseteq Ids
  BY <1>1, PastSame
<1>3. CASE (\E done \in BOOLEAN : Load(done)) /\ sync' = NoSync
  BY <1>1, <1>2, <1>3, SyncEnds
<1>4. ASSUME Load(TRUE), NEW i \in Present(Loaded), Loaded[i].puuid # None,
             sync' = [sync EXCEPT !.at = "fetch", !.id = i, !.who = Loaded[i].puuid,
                                  !.had = [val |-> Loaded[i].val, auto |-> Loaded[i].auto]]
      PROVE  IInv'
  <2>1. i \in Ids /\ Loaded[i] \in LocalAccount
    BY LoadedFacts DEF IInv
  <2>2. [val |-> Loaded[i].val, auto |-> Loaded[i].auto] \in Details
    BY <2>1 DEF LocalAccount, Details
  <2>3. Loaded[i].puuid \in Puuids /\ sync \in Syncs
    BY <1>4, <2>1 DEF IInv, WindowType, LocalAccount
  <2>4. /\ sync' \in Syncs /\ sync'.at = "fetch" /\ sync'.list = sync.list
        /\ sync'.who \in Puuids /\ sync'.id \in Ids /\ sync'.had \in Details
    BY <1>4, <2>1, <2>2, <2>3 DEF Syncs
  <2>5. SyncInv'
    BY <2>4 DEF SyncInv
  <2>6. cached' \subseteq Puuids \cup {"picked"}
    BY <1>1 DEF IInv, WindowType
  <2> QED BY <1>1, <1>2, <1>4, <2>4, <2>5, <2>6, SyncReads
<1> QED BY <1>3, <1>4 DEF Identify

LEMMA FetchKeeps == ASSUME IInv, Fetch PROVE IInv'
<1>0. PICK p \in Puuids : \E rank \in FetchedRanks(p), icon \in {sync.who, None} :
        /\ sync' = Fetched(p, rank, icon)
        /\ cached' = IF icon = None THEN cached ELSE cached \cup {icon}
  BY NoneFacts DEF Fetch, profile_icon, SaveIcon, IInv, SyncInv
<1>1. PICK rank \in FetchedRanks(p), icon \in {sync.who, None} :
        /\ sync' = Fetched(p, rank, icon)
        /\ cached' = IF icon = None THEN cached ELSE cached \cup {icon}
  BY <1>0
<1>2. /\ UNCHANGED <<disk, shown, loads, fg, lists, used, owed>> /\ sync.at = "fetch"
      /\ UNCHANGED <<inherited, returned>>
  BY DEF Fetch, SyncStep
<1>3. sync \in Syncs /\ cached \subseteq Puuids \cup {"picked"}
      /\ sync.who \in Puuids /\ sync.id \in Ids
  BY <1>2 DEF IInv, WindowType, SyncInv
<1>4. rank \in {p, None}
  BY DEF FetchedRanks, solo_rank
<1>5. [k \in Kinds |-> IF k = "rank" THEN rank ELSE icon] \in [Kinds -> Puuids \cup {None}]
  BY <1>3, <1>4
<1>6. /\ sync' \in Syncs /\ sync'.at = "apply" /\ sync'.list = sync.list
      /\ sync'.got = [k \in Kinds |-> IF k = "rank" THEN rank ELSE icon]
      /\ sync'.who = sync.who /\ sync'.id = sync.id /\ sync'.away = (p # sync.who)
  BY <1>1, <1>3, <1>5 DEF Syncs, Fetched
<1>7. cached \subseteq cached' /\ cached' \subseteq Puuids \cup {"picked"}
      /\ icon \in {None} \cup cached'
  BY <1>1, <1>3
<1>8. SyncInv'
  <2>1. \A k \in Kinds : sync'.got[k] = IF k = "rank" THEN rank ELSE icon
    BY <1>6
  <2> QED BY <1>3, <1>4, <1>6, <1>7, <2>1 DEF SyncInv
<1> QED BY <1>2, <1>3, <1>6, <1>7, <1>8, PastSame, SyncReads

\* What the sync writes to the profile it asked about.
LEMMA ApplyGood ==
    ASSUME IInv, PastKept, sync.at = "apply", sync.away => sync.id \in returned',
           NEW new, new = apply_customization_sync(Loaded, sync.id, sync.who, sync.got)
    PROVE  /\ Good(new)
           /\ \A j \in Ids :
                /\ new[j] = None <=> Loaded[j] = None
                /\ Loaded[j] # None =>
                    /\ new[j].login = Loaded[j].login
                    /\ \A k \in Kinds : new[j].val[k] \in {Loaded[j].val[k]} \cup Puuids
<1> DEFINE i == sync.id
           val == [k \in Kinds |-> IF Loaded[i].auto[k] /\ sync.got[k] # None
                                   THEN sync.got[k] ELSE Loaded[i].val[k]]
           r == [Loaded[i] EXCEPT !.val = val]
<1>1. Good(Loaded) /\ Loaded \in Vaults
  BY LoadedGood, LoadedFacts DEF IInv
<1>2. CASE Loaded[i] = None \/ Loaded[i].puuid # sync.who
  BY <1>1, <1>2 DEF apply_customization_sync
<1>3. CASE Loaded[i] # None /\ Loaded[i].puuid = sync.who
  <2>1. /\ i \in Ids /\ sync.who \in Puuids /\ sync.got \in [Kinds -> Puuids \cup {None}]
        /\ \A k \in Kinds : /\ sync.got[k] \in {None, sync.who}
                               \/ (k = "rank" /\ i \in returned')
                            /\ k = "icon" => sync.got[k] \in {None} \cup cached
    BY DEF IInv, SyncInv, WindowType, Syncs
  <2>2. /\ Loaded[i] \in LocalAccount /\ ~Loaded[i].damaged /\ Fits(i, Loaded[i])
        /\ Loaded[i].puuid = Who(Loaded[i])
        /\ Loaded[i].puuid # None => Detected(Loaded[i].login) \in {None, Loaded[i].puuid}
        /\ \A j \in Present(Loaded) \ {i} : Loaded[i].puuid # None =>
             Loaded[j].puuid # Loaded[i].puuid \/ Twins(i, j, Loaded[i].puuid)
    BY <1>3, <2>1, ProfileThere
  <2>3. new = [Loaded EXCEPT ![i] = r]
    BY <1>1, <1>3, <2>1 DEF apply_customization_sync, Vaults
  <2>4. val \in [Kinds -> Values]
    BY <2>1, <2>2 DEF LocalAccount, Values
  <2>5. \A k \in Kinds : val[k] = Loaded[i].val[k]
                         \/ /\ val[k] = sync.who \/ (k = "rank" /\ i \in returned')
                            /\ k = "icon" => val[k] \in cached
    BY <2>1, NoneFacts
  <2>13. \A k \in Kinds : val[k] \in {Loaded[i].val[k]} \cup Puuids
    BY <2>1
  <2> HIDE DEF val
  <2>6. /\ r \in LocalAccount /\ ~r.damaged /\ r.val = val /\ r # None
        /\ r.login = Loaded[i].login /\ r.puuid = Loaded[i].puuid
    BY <2>2, <2>4, NoneFacts DEF LocalAccount
  <2>7. Fits(i, r)
    BY <1>3, <2>2, <2>5, <2>6 DEF Fits
  <2>8. Alone(i, r)
    BY <2>2, <2>6 DEF Alone, Who
  <2>12. i \in Ids /\ r \in LocalAccount /\ Replaces(new, i, r)
    BY <2>1, <2>3, <2>6 DEF Replaces
  <2> HIDE DEF r, i
  <2>9. Good(new) /\ \A j \in Ids \ {i} : new[j] = Loaded[j]
    BY <2>7, <2>8, <2>12, OneReplaced
  <2>10. new[i] = r
    BY <1>1, <2>1, <2>3 DEF Vaults
  <2>11. \A k \in Kinds : r.val[k] \in {Loaded[i].val[k]} \cup Puuids
    BY <2>6, <2>13
  <2> QED BY <1>3, <2>6, <2>9, <2>10, <2>11
<1> QED BY <1>2, <1>3

\* What comes of a sync's last step.
LEMMA ApplyCases ==
    ASSUME IInv, ApplySync
    PROVE  LET new == apply_customization_sync(Loaded, sync.id, sync.who, sync.got) IN
           /\ PastKept /\ returned' \subseteq Ids
           /\ \/ sync' = NoSync /\ (UNCHANGED disk \/ \E done \in BOOLEAN : Load(done))
              \/ /\ Update(new)
                 /\ sync.away => sync.id \in returned'
                 /\ \/ sync' = NoSync
                    \/ sync' = [NoSync EXCEPT !.at = "reload", !.epoch = sync.epoch]
<1> DEFINE new == apply_customization_sync(Loaded, sync.id, sync.who, sync.got)
<1>1. PICK p \in Puuids :
        /\ \/ /\ Recheck(p) /\ Update(new)
              /\ \/ sync' = NoSync
                 \/ sync' = [NoSync EXCEPT !.at = "reload", !.epoch = sync.epoch]
           \/ (\E done \in BOOLEAN : Load(done)) /\ sync' = NoSync
           \/ sync' = NoSync /\ UNCHANGED disk
        /\ returned' = IF sync.away /\ p = sync.who
                       THEN returned \cup {sync.id} ELSE returned
  BY DEF ApplySync
<1>2. sync.id \in Ids /\ returned \subseteq Ids /\ inherited' = inherited
  BY DEF ApplySync, SyncStep, IInv, SyncInv, WindowType
<1>3. PastKept /\ returned' \subseteq Ids
  BY <1>1, <1>2 DEF PastKept
<1>4. Recheck(p) => (sync.away => sync.id \in returned')
  BY <1>1 DEF Recheck
<1> HIDE DEF new
<1>5. \/ sync' = NoSync /\ (UNCHANGED disk \/ \E done \in BOOLEAN : Load(done))
      \/ /\ Update(new)
         /\ sync.away => sync.id \in returned'
         /\ \/ sync' = NoSync
            \/ sync' = [NoSync EXCEPT !.at = "reload", !.epoch = sync.epoch]
  BY <1>1, <1>4
<1> QED BY <1>3, <1>5 DEF new

LEMMA ApplySyncKeeps == ASSUME IInv, ApplySync PROVE IInv'
<1> DEFINE new == apply_customization_sync(Loaded, sync.id, sync.who, sync.got)
<1>1. UNCHANGED <<cached, shown, loads, fg, lists, used, owed>> /\ sync.at = "apply"
  BY DEF ApplySync, SyncStep
<1>2. PastKept /\ returned' \subseteq Ids
  BY ApplyCases
<1>3. CASE sync' = NoSync /\ (UNCHANGED disk \/ \E done \in BOOLEAN : Load(done))
  BY <1>1, <1>2, <1>3, SyncEnds
<1>4. ASSUME Update(new), sync.away => sync.id \in returned',
             \/ sync' = NoSync
             \/ sync' = [NoSync EXCEPT !.at = "reload", !.epoch = sync.epoch]
      PROVE  IInv'
  <2>1. /\ Good(new)
        /\ \A j \in Ids : /\ new[j] = None <=> Loaded[j] = None
                          /\ Loaded[j] # None => new[j].login = Loaded[j].login
    BY <1>1, <1>2, <1>4, ApplyGood
  <2> HIDE DEF new
  <2>2. /\ DiskKeeps /\ Readable' = Present(new)
        /\ \A i \in Unreadable : [id |-> i, was |-> file[i]] \in quarantine'
        /\ \A i \in Ids : /\ file'[i] # None <=> new[i] # None
                          /\ new[i] # None => file'[i].login = new[i].login
    BY <1>2, <1>4, <2>1, UpdateKeeps DEF IInv
  <2>3. Present(new) = Present(Loaded) /\ Present(Loaded) = Readable
    BY <2>1, LoadedFacts DEF Present, IInv
  <2>4. \A i \in Ids : Loaded[i] # None => file[i] # None /\ Loaded[i].login = file[i].login
    BY <1>2, ProfileThere, BoundFacts, LoadedFacts DEF IInv, Present
  <2>5. \A i \in Readable : i \in Ids /\ Loaded[i] # None
    BY <2>3 DEF Present
  <2>6. LoginsSurvive'
    BY <1>1, <2>1, <2>2, <2>4, <2>5, LoginsKept DEF IInv, DiskKeeps
  <2>7. \A i \in Ids : file'[i] # None => file[i] # None
    BY <2>1, <2>2, <2>4
  <2>8. NewListOk(sync.list) /\ NewListOk(Nothing)
    BY <1>1, <2>2, ValuesStay, NothingFacts DEF IInv, ValuesInv
  <2>9. /\ sync' \in Syncs /\ sync'.at \in {"idle", "reload"}
        /\ sync'.list \in {sync.list, Nothing}
        /\ cached' \subseteq Puuids \cup {"picked"}
    <3>1. sync \in Syncs /\ cached \subseteq Puuids \cup {"picked"}
      BY DEF IInv, WindowType
    <3> QED BY <1>1, <1>4, <3>1, NoSyncFacts DEF Syncs
  <2>10. SyncInv'
    BY <2>9 DEF SyncInv
  <2> QED BY <1>1, <1>2, <2>2, <2>3, <2>6, <2>7, <2>8, <2>9, <2>10, SyncStepKeeps
<1> QED BY <1>3, <1>4, ApplyCases

LEMMA SyncReloadKeeps == ASSUME IInv, SyncReload PROVE IInv'
<1>1. /\ UNCHANGED <<cached, shown, loads, fg, lists, used, owed>>
      /\ UNCHANGED <<inherited, returned>>
  BY DEF SyncReload, SyncStep
<1>2. CASE sync' = NoSync /\ (UNCHANGED disk \/ \E done \in BOOLEAN : Load(done))
  BY <1>1, <1>2, PastSame, SyncEnds
<1>3. CASE /\ Load(TRUE)
           /\ sync' = [sync EXCEPT !.at = "list", !.list = list_summaries]
  <2>1. list_summaries \in Rosters /\ sync \in Syncs
    BY <1>1, PastSame, Summaries DEF IInv, WindowType
  <2>2. sync' \in Syncs /\ sync'.at = "list" /\ sync'.list = list_summaries
    BY <1>3, <2>1 DEF Syncs
  <2>3. SyncInv'
    BY <2>2 DEF SyncInv
  <2>4. cached' \subseteq Puuids \cup {"picked"}
    BY <1>1 DEF IInv, WindowType
  <2> QED BY <1>1, <1>3, <2>2, <2>3, <2>4, PastSame, SyncReads
<1> QED BY <1>2, <1>3 DEF SyncReload

LEMMA SyncListedKeeps == ASSUME IInv, SyncListed PROVE IInv'
<1>1. /\ sync.at = "list" /\ sync' = NoSync
      /\ UNCHANGED <<disk, cached, loads, fg, used, owed, inherited, returned, listFailed>>
      /\ \/ shown' = sync.list /\ overtaken' = (overtaken \/ ~sync.fresh)
         \/ shown' = shown /\ overtaken' = overtaken
  BY DEF SyncListed, past
<1>3. /\ DiskKeeps /\ LoginsSurvive' /\ DiskType' /\ Identities(file)' /\ file' = file
      /\ Readable' = Readable
  BY <1>1, DiskSame DEF DiskKeeps, disk, PastKept
<1>4. WindowType'
  <2>1. sync.list \in Rosters /\ sync.fresh \in BOOLEAN
    BY DEF IInv, WindowType, Syncs
  <2>2. overtaken' \in BOOLEAN
    BY <1>1, <2>1 DEF IInv, WindowType
  <2> QED BY <1>1, <2>1, <2>2, NoSyncFacts DEF IInv, WindowType
<1>5. ValuesInv'
  <2>1. /\ NewListOk(shown) /\ NewListOk(sync.list)
        /\ \A n \in loads : NewListOk(n.list)
        /\ fg \in Edits => fg.id \in used /\ NewOk(fg.id, fg.d.val)
    BY <1>1, <1>3, ValuesStay DEF IInv, ValuesInv
  <2>2. Present(file') \subseteq used'
    BY <1>1, <1>3 DEF IInv, ValuesInv
  <2>3. fg \in Creating => fg.id \notin used /\ fg.d = NewDetails
    BY DEF IInv, ValuesInv
  <2> QED BY <1>1, <1>3, <2>1, <2>2, <2>3, NoSyncFacts, NothingFacts, ValuesKept
<1>6. SyncInv'
  BY <1>1, NoSyncFacts DEF SyncInv
<1>7. FreshInv'
  <2>1. overtaken \in BOOLEAN /\ sync.fresh \in BOOLEAN
    BY DEF IInv, WindowType, Syncs
  <2>2. \A list : Current(list) => Current(list)'
    BY <1>1, <1>3 DEF Current
  <2>3. CASE shown' = sync.list /\ overtaken' = (overtaken \/ ~sync.fresh)
    <3>1. ~overtaken' => Current(shown')
      BY <1>1, <2>1, <2>3 DEF IInv, FreshInv
    <3> QED BY <1>1, <2>2, <3>1, NoSyncFacts DEF IInv, FreshInv
  <2>4. CASE shown' = shown /\ overtaken' = overtaken
    BY <1>1, <2>2, <2>4, NoSyncFacts DEF IInv, FreshInv
  <2> QED BY <1>1, <2>3, <2>4
<1> QED BY <1>3, <1>4, <1>5, <1>6, <1>7 DEF IInv

LEMMA RestartKeeps == ASSUME IInv, Restart PROVE IInv'
<1>1. /\ shown' = Nothing /\ fg' = Idle /\ sync' = NoSync
      /\ ~overtaken' /\ ~listFailed' /\ overtaken' \in BOOLEAN /\ listFailed' \in BOOLEAN
      /\ loads' = StartLoad({})
      /\ key' \in {key, 0}
      /\ UNCHANGED <<quarantine, keys, cached, used, owed, inherited, returned>>
  BY DEF Restart, past
<1>2. ASSUME NEW i \in Ids
      PROVE  /\ file'[i] # None <=> file[i] # None
             /\ file[i] # None =>
                /\ file'[i] \in LocalAccount /\ file'[i].login = file[i].login
                /\ file'[i].puuid = file[i].puuid /\ file'[i].val = file[i].val
  <2>1. file[i] # None => file[i] \in LocalAccount
    BY FileFacts DEF IInv
  <2>2. CASE file' = file
    BY <2>1, <2>2
  <2>3. ASSUME NEW j \in Present(file), file' = [file EXCEPT ![j].damaged = TRUE]
        PROVE  /\ file'[i] # None <=> file[i] # None
               /\ file[i] # None =>
                  /\ file'[i] \in LocalAccount /\ file'[i].login = file[i].login
                  /\ file'[i].puuid = file[i].puuid /\ file'[i].val = file[i].val
    <3>1. file'[i] = IF i = j THEN [file[i] EXCEPT !.damaged = TRUE] ELSE file[i]
      BY <2>3 DEF IInv, DiskType, Vaults
    <3>2. file[j] # None
      BY DEF Present
    <3>3. file[i] # None => /\ [file[i] EXCEPT !.damaged = TRUE] \in LocalAccount
                            /\ [file[i] EXCEPT !.damaged = TRUE].login = file[i].login
                            /\ [file[i] EXCEPT !.damaged = TRUE].puuid = file[i].puuid
                            /\ [file[i] EXCEPT !.damaged = TRUE].val = file[i].val
      BY <2>1 DEF LocalAccount
    <3> QED BY <2>1, <3>1, <3>2, <3>3, NoneFacts
  <2> QED BY <2>2, <2>3 DEF Restart
<1>3. Present(file') = Present(file)
  BY <1>2 DEF Present
<1>4. DiskType'
  <2>1. file' \in Vaults
    <3>1. file' = [i \in Ids |-> file'[i]]
      BY DEF Restart, IInv, DiskType, Vaults
    <3> QED BY <1>2, <3>1 DEF Vaults
  <2> QED BY <1>1, <2>1 DEF IInv, DiskType
<1>5. Identities(file)'
  <2>1. Identities(file')
    BY <1>1, <1>2, <1>3 DEF IInv, Identities, Present, Who, Twins
  <2> QED BY <1>1, <2>1 DEF Identities, Present, Who, Detected, Twins
<1>6. LoginsSurvive'
  BY <1>1, <1>2 DEF IInv, LoginsSurvive
<1>7. DiskKeeps
  <2>1. \A i \in Ids : file[i] # None => ValuesOk(i, file[i].val)
    BY FileFacts DEF IInv, ValuesInv
  <2> QED BY <1>1, <1>2, <1>4, <1>5, <2>1 DEF DiskKeeps, ValuesOk, PastKept
<1>8. /\ loads' \subseteq Listings /\ \A l \in loads' : l.list = Nothing
      /\ \A l \in loads' : l.at = "sent"
      /\ \A l, m \in loads' : l.fresh /\ m.fresh => l = m
      /\ \E l \in loads' : l.fresh
  <2>1. {} \in SUBSET Listings
    OBVIOUS
  <2> QED BY <1>1, <2>1, NewListings
<1>9. WindowType'
  BY <1>1, <1>8, NoSyncFacts, NothingFacts DEF IInv, WindowType
<1>10. ValuesInv'
  BY <1>1, <1>3, <1>7, <1>8, NoSyncFacts, NothingFacts, NotOthers, ValuesKept DEF IInv, ValuesInv
<1>11. SyncInv'
  BY <1>1, NoSyncFacts DEF SyncInv
<1>12. FreshInv'
  BY <1>1, <1>8, NoSyncFacts DEF FreshInv
<1> QED BY <1>4, <1>5, <1>6, <1>9, <1>10, <1>11, <1>12 DEF IInv

-----------------------------------------------------------------------------
(* The invariant.                                                          *)

LEMMA LegacyFacts ==
    ASSUME NEW login \in Logins
    PROVE  /\ Legacy(login) \in LocalAccount /\ Legacy(login).login = login
           /\ Legacy(login).puuid = None /\ Legacy(login).val = [k \in Kinds |-> "own"]
  BY NewDetailsType DEF Legacy, LocalAccount, NewDetails, Details, Plain

LEMMA Initially == Init => IInv
<1> SUFFICES ASSUME Init PROVE IInv
  OBVIOUS
<1>1. /\ quarantine = {} /\ key = 0 /\ keys = 0 /\ cached = {} /\ returned = {}
      /\ shown = Nothing /\ fg = Idle /\ sync = NoSync /\ loads = StartLoad({})
      /\ used = Present(file) /\ overtaken = FALSE /\ listFailed = FALSE
      /\ owed = inherited /\ inherited \in [Ids -> Logins \cup {None}]
      /\ file = [i \in Ids |-> IF inherited[i] = None THEN None ELSE Legacy(inherited[i])]
  BY DEF Init
<1>2. /\ file \in Vaults
      /\ \A i \in Ids : file[i] # None =>
            /\ file[i] \in LocalAccount /\ file[i].login \in Logins
            /\ file[i].puuid = None /\ file[i].val = [k \in Kinds |-> "own"]
      /\ \A i \in Ids : /\ file[i] = None => inherited[i] = None
                        /\ file[i] # None => file[i].login = inherited[i]
  <2>1. ASSUME NEW i \in Ids
        PROVE  /\ file[i] \in LocalAccount \cup {None}
               /\ file[i] # None =>
                    /\ file[i] \in LocalAccount /\ file[i].login \in Logins
                    /\ file[i].puuid = None /\ file[i].val = [k \in Kinds |-> "own"]
               /\ file[i] = None => inherited[i] = None
               /\ file[i] # None => file[i].login = inherited[i]
    <3>1. inherited[i] # None => inherited[i] \in Logins
      BY <1>1
    <3>2. file[i] = IF inherited[i] = None THEN None ELSE Legacy(inherited[i])
      BY <1>1
    <3> QED BY <3>1, <3>2, LegacyFacts, NoneFacts
  <2> QED BY <1>1, <2>1 DEF Vaults
<1>3. DiskType
  BY <1>1, <1>2 DEF DiskType
<1>4. /\ loads \subseteq Listings /\ \A l \in loads : l.list = Nothing
      /\ \A l \in loads : l.at = "sent"
      /\ \A l, m \in loads : l.fresh /\ m.fresh => l = m
      /\ \E l \in loads : l.fresh
  <2>1. {} \in SUBSET Listings
    OBVIOUS
  <2> QED BY <1>1, <2>1, NewListings
<1>5. WindowType
  <2>1. owed \in [Ids -> Logins \cup {Empty, None}]
    BY <1>1, <1>2
  <2>2. used \subseteq Ids
    BY <1>1 DEF Present
  <2> QED BY <1>1, <1>4, <2>1, <2>2, NoSyncFacts, NothingFacts DEF WindowType
<1>6. Identities(file)
  BY <1>2, DetectedFacts DEF Identities, Present, Who, Twins
<1>7. LoginsSurvive
  BY <1>1, <1>2 DEF LoginsSurvive
<1>8. ValuesInv
  <2>1. \A i \in Present(file) : ValuesOk(i, file[i].val)
    BY <1>2, NoneFacts DEF Present, ValuesOk
  <2> QED BY <1>1, <1>4, <2>1, NoSyncFacts, NothingFacts, NotOthers DEF ValuesInv
<1>9. SyncInv
  BY <1>1, NoSyncFacts DEF SyncInv
<1>10. FreshInv
  BY <1>1, <1>4, NoSyncFacts DEF FreshInv
<1> QED BY <1>3, <1>5, <1>6, <1>7, <1>8, <1>9, <1>10 DEF IInv

LEMMA Steps == ASSUME IInv, [Next]_vars PROVE IInv'
<1>1. CASE UNCHANGED vars
  <2>1. UNCHANGED <<file, quarantine, key, keys, cached, shown, loads, fg, sync,
                    used, owed, inherited, returned, listFailed, overtaken>>
    BY <1>1 DEF vars
  <2>2. UNCHANGED disk
    BY <2>1 DEF disk
  <2>3. DiskType' /\ Identities(file)' /\ LoginsSurvive' /\ DiskKeeps /\ Readable' = Readable
    BY <2>1, <2>2, DiskSame DEF DiskKeeps, PastKept
  <2>4. WindowType'
    BY <2>1 DEF IInv, WindowType
  <2>5. ValuesInv' /\ SyncInv'
    BY <2>1 DEF IInv, ValuesInv, SyncInv, ListOk, ValuesOk, Present
  <2>6. FreshInv'
    BY <2>1, <2>3 DEF IInv, FreshInv, Current
  <2> QED BY <2>3, <2>4, <2>5, <2>6 DEF IInv
<1>2. CASE ConfirmImport \/ SignInAgain \/ ConfirmDelete \/ HandleLaunch \/ OpenEdit
           \/ PickIcon \/ CloseEdit
  BY <1>2, ConfirmImportKeeps, SignInAgainKeeps, ChoiceKeeps, OpenEditKeeps,
     PickIconKeeps, CloseEditKeeps
<1>3. CASE Answered \/ Refresh \/ ListLocalAccounts \/ Listed
  BY <1>3, AnsweredKeeps, RefreshKeeps, ListLocalAccountsKeeps, ListedKeeps
<1>4. CASE \/ SaveLocalAccount \/ EditLocalAccount \/ DeleteLocalAccount
           \/ RefreshLocalAccount \/ LaunchLocalAccount
  BY <1>4, CommandsKeep
<1>5. CASE SyncNow \/ Identify \/ Fetch \/ ApplySync \/ SyncReload \/ SyncListed
           \/ Restart
  BY <1>5, SyncNowKeeps, IdentifyKeeps, FetchKeeps, ApplySyncKeeps, SyncReloadKeeps,
     SyncListedKeeps, RestartKeeps
<1> QED BY <1>1, <1>2, <1>3, <1>4, <1>5 DEF Next

\* The invariant holds in every state of every behaviour.
THEOREM Invariant == Spec => []IInv
<1>1. Init => IInv
  BY Initially
<1>2. IInv /\ [Next]_vars => IInv'
  BY Steps
<1> QED BY <1>1, <1>2, PTL DEF Spec

-----------------------------------------------------------------------------
(* What follows.                                                           *)

\* Every variable keeps its type.
THEOREM TypeCorrect == Spec => []TypeOK
<1>1. IInv => TypeOK
  <2> SUFFICES ASSUME IInv PROVE TypeOK
    OBVIOUS
  <2>1. key \in 0 .. keys
    BY DEF IInv, DiskType
  <2>2. \A q \in quarantine : q.id \in Ids /\ q.was \in LocalAccount
    BY DEF IInv, DiskType, Quarantined
  <2>3. \A l \in loads : l.at \in {"sent", "ok", "error"} /\ l.list \in Rosters
    BY DEF IInv, WindowType, Listings
  <2>4. fg.cmd \in {"none", "create", "refresh", "delete", "launch", "edit"}
    BY DEF IInv, WindowType, Idle, Creating, Refreshing, Choosing, Edits, Answers, Commands
  <2> QED BY <2>1, <2>2, <2>3, <2>4 DEF IInv, DiskType, WindowType, TypeOK
<1> QED BY <1>1, Invariant, PTL

\* No login that was saved is lost unless its profile is deleted.
THEOREM NoLoginLost == Spec => []LoginsSurvive
<1>1. IInv => LoginsSurvive
  BY DEF IInv
<1> QED BY <1>1, Invariant, PTL

\* No two profiles get one Riot identity, unless both were saved before LAAP kept
\* profiles apart.
THEOREM TwinsAreOld == Spec => []OnlyOldTwins
<1>1. IInv => OnlyOldTwins
  BY DEF IInv, Identities, OnlyOldTwins, Who, Twins
<1> QED BY <1>1, Invariant, PTL

\* A profile holds no other account's login.
THEOREM LoginsMatch == Spec => []LoginMatchesIdentity
<1>1. IInv => LoginMatchesIdentity
  BY DEF IInv, Identities, LoginMatchesIdentity
<1> QED BY <1>1, Invariant, PTL

\* What the sync applied is of the profile's own account, but for a rank that it
\* read while another account was logged in.
THEOREM SyncAppliesOwn == Spec => []LiveValuesOwn
<1>1. IInv => LiveValuesOwn
  BY DEF IInv, ValuesInv, ValuesOk, LiveValuesOwn, Present
<1> QED BY <1>1, Invariant, PTL

\* No profile names an icon that is not on disk.
THEOREM IconsOnDisk == Spec => []IconsCached
<1>1. IInv => IconsCached
  BY DEF IInv, ValuesInv, ValuesOk, IconsCached
<1> QED BY <1>1, Invariant, PTL

\* When nothing is under way the roster shows the vault's profiles.
THEOREM RosterSettles == Spec => []RosterFresh
<1>1. IInv => RosterFresh
  BY NotOthers DEF IInv, FreshInv, Current, Readable, RosterFresh
<1> QED BY <1>1, Invariant, PTL

-----------------------------------------------------------------------------
(* Edits and the sync.                                                     *)

\* A list that a command saves keeps the values that go on being synced.
LEMMA UpdateKeepsValues ==
    ASSUME IInv, PastKept, NEW new, Good(new), Update(new),
           \A i \in Present(file), k \in Kinds :
               (/\ Loaded[i] # None /\ Loaded[i].val[k] \in Puuids /\ Loaded[i].auto[k]
                /\ new[i] # None /\ new[i].auto[k]) => new[i].val[k] \in Puuids,
           NEW i \in Present(file), NEW k \in Kinds,
           file[i].val[k] \in Puuids, file[i].auto[k], file'[i] # None, file'[i].auto[k]
    PROVE  file'[i].val[k] \in Puuids
<1>1. i \in Ids
  BY DEF Present
<1>2. /\ new[i] # None /\ file'[i].val = new[i].val /\ file'[i].auto = new[i].auto
  BY <1>1, UpdateKeeps DEF IInv
<1>3. i \in Readable
  BY <1>1, <1>2 DEF IInv, ValuesInv, Good, Fits, Present
<1>4. Loaded[i] # None
  BY <1>3, LoadedFacts DEF IInv, Present
<1>5. Loaded[i].val = file[i].val /\ Loaded[i].auto = file[i].auto
  BY <1>1, <1>4, ProfileThere
<1> QED BY <1>2, <1>4, <1>5

KeepsValues(new) ==
    \A i \in Present(file), k \in Kinds :
        (/\ Loaded[i] # None /\ Loaded[i].val[k] \in Puuids /\ Loaded[i].auto[k]
         /\ new[i] # None /\ new[i].auto[k]) => new[i].val[k] \in Puuids

ValuesStayLive ==
    \A i \in Present(file), k \in Kinds :
        (/\ file[i].val[k] \in Puuids /\ file[i].auto[k]
         /\ file'[i] # None /\ file'[i].auto[k]) => file'[i].val[k] \in Puuids

LEMMA UpdateStaysLive ==
    ASSUME IInv, PastKept, NEW new, Good(new), Update(new), KeepsValues(new)
    PROVE  ValuesStayLive
  BY UpdateKeepsValues DEF KeepsValues, ValuesStayLive

LEMMA LoadStaysLive ==
    ASSUME IInv, PastKept, UNCHANGED file \/ \E done \in BOOLEAN : Load(done)
    PROVE  ValuesStayLive
<1>1. \A i \in Ids : file'[i] # None => /\ file'[i].val = file[i].val
                                        /\ file'[i].auto = file[i].auto
  BY LoadKeeps DEF IInv
<1> QED BY <1>1 DEF ValuesStayLive, Present

\* The other profiles of a command's list are as they were read.
LEMMA OthersKeepValues ==
    ASSUME NEW new, NEW i \in Ids, \A j \in Ids \ {i} : new[j] = Loaded[j],
           i \in Present(file) => \A k \in Kinds :
               (/\ Loaded[i] # None /\ Loaded[i].val[k] \in Puuids /\ Loaded[i].auto[k]
                /\ new[i] # None /\ new[i].auto[k]) => new[i].val[k] \in Puuids
    PROVE  KeepsValues(new)
  BY DEF KeepsValues, Present

\* A command of the window: carried out, or stopped somewhere.
LEMMA RunStaysLive ==
    ASSUME IInv, PastKept, NEW i \in Ids, fg.id = i, NEW results, Run(fg, results),
           \A new \in results :
               /\ Good(new) /\ \A j \in Ids \ {i} : new[j] = Loaded[j]
               /\ i \in Present(file) => \A k \in Kinds :
                    (/\ Loaded[i] # None /\ Loaded[i].val[k] \in Puuids /\ Loaded[i].auto[k]
                     /\ new[i] # None /\ new[i].auto[k]) => new[i].val[k] \in Puuids
    PROVE  ValuesStayLive
<1>1. ASSUME NEW new \in results, Update(new) PROVE ValuesStayLive
  <2>1. Good(new) /\ KeepsValues(new)
    BY OthersKeepValues
  <2> QED BY <1>1, <2>1, UpdateStaysLive
<1> QED BY <1>1, LoadStaysLive DEF Run

LEMMA CommandsStayLive ==
    ASSUME IInv, PastKept,
           \/ SaveLocalAccount \/ EditLocalAccount \/ DeleteLocalAccount
           \/ RefreshLocalAccount \/ LaunchLocalAccount
    PROVE  ValuesStayLive
<1> DEFINE Keeps(new) == fg.id \in Present(file) => \A k \in Kinds :
        (/\ Loaded[fg.id] # None /\ Loaded[fg.id].val[k] \in Puuids /\ Loaded[fg.id].auto[k]
         /\ new[fg.id] # None /\ new[fg.id].auto[k]) => new[fg.id].val[k] \in Puuids
<1>1. fg = Idle \/ fg \in Creating \/ fg \in Refreshing \/ fg \in Choosing \/ fg \in Edits
      \/ fg \in Answers
  BY DEF IInv, WindowType
<1>2. CASE SaveLocalAccount
  <2>1. fg \in Creating /\ fg.id \in Ids
    BY <1>1, <1>2, DialogKinds DEF SaveLocalAccount, Waiting, Creating
  <2>2. fg.id \notin Present(file)
    BY <2>1 DEF IInv, ValuesInv
  <2> QED BY <1>2, <2>1, <2>2, CreateGood, RunStaysLive DEF SaveLocalAccount
<1>3. CASE EditLocalAccount
  <2> DEFINE results == UNION {edit_profile(Loaded, fg.id, d) : d \in Submitted}
  <2>1. /\ Editing /\ Run(fg, results) /\ fg.id \in Ids
        /\ \A d \in Submitted : d \in Details
    BY <1>3, EditFacts, SubmittedDetails DEF EditLocalAccount
  <2>2. ASSUME NEW d \in Submitted, NEW new \in edit_profile(Loaded, fg.id, d),
               Loaded[fg.id] # None, NEW k \in Kinds
        PROVE  /\ new[fg.id].auto = d.auto
               /\ new[fg.id].val[k] = IF Loaded[fg.id].auto[k] /\ d.auto[k]
                                      THEN Loaded[fg.id].val[k] ELSE d.val[k]
    <3>1. Loaded \in Vaults /\ Loaded[fg.id] \in LocalAccount /\ d \in Details
      BY <2>1, <2>2, LoadedFacts, ProfileThere DEF IInv
    <3> QED BY <2>1, <2>2, <3>1 DEF edit_profile, Vaults, LocalAccount
  <2>3. \A new \in results : Keeps(new)
    BY <2>2
  <2>4. \A new \in results : Good(new) /\ \A j \in Ids \ {fg.id} : new[j] = Loaded[j]
    BY <2>1, EditGood
  <2> HIDE DEF results
  <2> QED BY <2>1, <2>3, <2>4, RunStaysLive
<1>4. CASE DeleteLocalAccount
  <2>1. fg \in Choosing /\ fg.id \in Ids
    BY <1>1, <1>4, DialogKinds DEF DeleteLocalAccount, Waiting, Choosing
  <2>2. \A new \in delete_account(Loaded, fg.id) : new[fg.id] = None
    BY <2>1, LoadedFacts DEF delete_account, IInv, Vaults
  <2> QED BY <1>4, <2>1, <2>2, DeleteGood, RunStaysLive DEF DeleteLocalAccount
<1>5. CASE RefreshLocalAccount
  <2>1. fg \in Refreshing /\ fg.id \in Ids
    BY <1>1, <1>5, DialogKinds DEF RefreshLocalAccount, Waiting, Refreshing
  <2>2. ASSUME NEW new \in refresh_session(Loaded, fg.id, fg.login), Loaded[fg.id] # None
        PROVE  new[fg.id].val = Loaded[fg.id].val
    <3>1. Loaded \in Vaults /\ Loaded[fg.id] \in LocalAccount
      BY <2>1, <2>2, LoadedFacts, ProfileThere DEF IInv
    <3> QED BY <2>1, <2>2, <3>1 DEF refresh_session, Vaults, LocalAccount
  <2>3. \A new \in refresh_session(Loaded, fg.id, fg.login) : Keeps(new)
    BY <2>2
  <2> QED BY <1>5, <2>1, <2>3, RefreshGood, RunStaysLive DEF RefreshLocalAccount
<1>6. CASE LaunchLocalAccount
  <2>1. fg \in Choosing /\ fg.id \in Ids
    BY <1>1, <1>6, DialogKinds DEF LaunchLocalAccount, Waiting, Choosing
  <2>2. \A new \in mark_played(Loaded, fg.id) : new = Loaded
    BY DEF mark_played
  <2>3. Good(Loaded)
    BY LoadedGood DEF IInv
  <2> QED BY <1>6, <2>1, <2>2, <2>3, RunStaysLive DEF LaunchLocalAccount
<1> QED BY <1>2, <1>3, <1>4, <1>5, <1>6

LEMMA ApplyStaysLive == ASSUME IInv, PastKept, ApplySync PROVE ValuesStayLive
<1> DEFINE new == apply_customization_sync(Loaded, sync.id, sync.who, sync.got)
<1>1. CASE UNCHANGED disk \/ \E done \in BOOLEAN : Load(done)
  BY <1>1, LoadStaysLive DEF disk
<1>2. CASE /\ sync.at = "apply" /\ Update(new)
           /\ sync.away => sync.id \in returned'
  <2>1. /\ Good(new)
        /\ \A j \in Ids : Loaded[j] # None =>
             \A k \in Kinds : new[j].val[k] \in {Loaded[j].val[k]} \cup Puuids
    BY <1>2, ApplyGood
  <2> HIDE DEF new
  <2>2. KeepsValues(new)
    BY <2>1 DEF KeepsValues, Present
  <2> QED BY <1>2, <2>1, <2>2, UpdateStaysLive
<1> HIDE DEF new
<1> QED BY <1>1, <1>2, ApplyCases DEF ApplySync, new

\* Deleting is what takes a profile away; the file after a restart has the
\* values of before.
LEMMA RestartStaysLive == ASSUME IInv, PastKept, Restart PROVE ValuesStayLive
<1>1. CASE file' = file
  BY <1>1, LoadStaysLive
<1>2. ASSUME NEW j \in Present(file), file' = [file EXCEPT ![j].damaged = TRUE]
      PROVE  ValuesStayLive
  <2>1. ASSUME NEW i \in Present(file)
        PROVE  file'[i].val = file[i].val
    <3>1. i \in Ids /\ file[i] \in LocalAccount
      BY <2>1, FileFacts DEF Present, IInv
    <3>2. file'[i] = IF i = j THEN [file[i] EXCEPT !.damaged = TRUE] ELSE file[i]
      BY <1>2, <3>1 DEF IInv, DiskType, Vaults
    <3> QED BY <3>1, <3>2 DEF LocalAccount
  <2> QED BY <2>1 DEF ValuesStayLive
<1> QED BY <1>1, <1>2 DEF Restart

\* No step takes back what the history says.
LEMMA PastStays == ASSUME IInv, Next PROVE PastKept
<1>1. CASE \/ ConfirmImport \/ SignInAgain \/ ConfirmDelete \/ HandleLaunch \/ OpenEdit
           \/ PickIcon \/ CloseEdit \/ Answered \/ Refresh
  BY <1>1 DEF ConfirmImport, SignInAgain, ConfirmDelete, HandleLaunch, OpenEdit, Send,
       PickIcon, CloseEdit, Answered, Refresh, past, PastKept
<1>2. CASE \/ SaveLocalAccount \/ EditLocalAccount \/ DeleteLocalAccount
           \/ RefreshLocalAccount \/ LaunchLocalAccount
  BY <1>2 DEF SaveLocalAccount, EditLocalAccount, DeleteLocalAccount,
       RefreshLocalAccount, LaunchLocalAccount, Run, PastKept
<1>3. CASE ListLocalAccounts \/ Listed \/ SyncNow \/ SyncListed \/ Restart
  BY <1>3 DEF ListLocalAccounts, Listed, SyncNow, SyncListed, Restart, past, PastKept
<1>4. CASE Identify \/ Fetch \/ SyncReload
  BY <1>4 DEF Identify, Fetch, SyncReload, SyncStep, PastKept
<1>5. CASE ApplySync
  BY <1>5, ApplyCases
<1> QED BY <1>1, <1>2, <1>3, <1>4, <1>5 DEF Next

\* An edit made from an old list does not put back what the sync replaced.
THEOREM EditsKeepLive == Spec => LiveValuesKept
<1>1. ASSUME IInv, Next PROVE ValuesStayLive
  <2> PastKept
    BY <1>1, PastStays
  <2>1. CASE \/ SaveLocalAccount \/ EditLocalAccount \/ DeleteLocalAccount
             \/ RefreshLocalAccount \/ LaunchLocalAccount
    BY <1>1, <2>1, CommandsStayLive
  <2>2. CASE ApplySync
    BY <1>1, <2>2, ApplyStaysLive
  <2>3. CASE Restart
    BY <1>1, <2>3, RestartStaysLive
  <2>4. CASE ConfirmImport \/ SignInAgain \/ ConfirmDelete \/ HandleLaunch \/ OpenEdit
             \/ PickIcon \/ CloseEdit \/ Answered \/ Refresh \/ Listed
             \/ SyncNow \/ Fetch \/ SyncListed
    <3>1. UNCHANGED file
      BY <2>4 DEF ConfirmImport, SignInAgain, ConfirmDelete, HandleLaunch, OpenEdit, Send,
           PickIcon, CloseEdit, Answered, Refresh, Listed, SyncNow, Fetch, SyncListed,
           disk
    <3> QED BY <1>1, <3>1, LoadStaysLive
  <2>5. CASE ListLocalAccounts \/ Identify \/ SyncReload
    <3>1. UNCHANGED disk \/ \E done \in BOOLEAN : Load(done)
      BY <2>5 DEF ListLocalAccounts, Identify, SyncReload
    <3> QED BY <1>1, <3>1, LoadStaysLive DEF disk
  <2> QED BY <1>1, <2>1, <2>2, <2>3, <2>4, <2>5 DEF Next
<1>2. IInv /\ [Next]_vars
      => [\A i \in Present(file), k \in Kinds :
            (/\ file[i].val[k] \in Puuids /\ file[i].auto[k]
             /\ file'[i] # None /\ file'[i].auto[k]) => file'[i].val[k] \in Puuids]_vars
  BY <1>1 DEF ValuesStayLive
<1> QED BY <1>2, Invariant, PTL DEF Spec, LiveValuesKept
=============================================================================
