-------------------------- MODULE AdminPagesProofs --------------------------
(***************************************************************************)
(* Proofs about the pages of the admin console.  The inductive invariant   *)
(* says that nothing is newer than the data, that the read whose version   *)
(* counts is under way exactly while the page is loading and brings        *)
(* nothing older than what the page shows or was told of, and which job    *)
(* holds which button.                                                     *)
(***************************************************************************)
EXTENDS AdminPages, TLAPS

\* Nothing shown, read or told of is newer than the data.
Past ==
    /\ at <= commits /\ acked <= commits
    /\ \A s \in Slots : flight[s].at <= commits

\* Without a page nothing is under way that a page would take up.
NoPage ==
    kind = None =>
        /\ at = 0 /\ acked = 0 /\ latest = None
        /\ \A s \in Slots : flight[s] = Free

\* requestVersion names the read that the page is loading, if any.
Version ==
    /\ kind # None => (loading <=> latest # None)
    /\ latest # None =>
         /\ Reading(latest)
         /\ flight[latest].stage = "read" =>
              at <= flight[latest].at /\ acked <= flight[latest].at

IInv == TypeOK /\ Past /\ NoPage /\ Version /\ OwnChangeShown /\ FormsFree

-----------------------------------------------------------------------------
(* What a slot can hold                                                    *)

LEMMA FreeSlotIsFree ==
    ASSUME Room
    PROVE  FreeSlot \in Slots /\ flight[FreeSlot] = Free
BY DEF Room, FreeSlot

LEMMA FreeIsIdle ==
    /\ Free \in Flights /\ Free.stage = "free" /\ Free.by = "none" /\ Free.at = 0
    /\ \A b \in BOOLEAN, by \in {"tick", "retry"} :
         /\ Asked(by, b) \in Flights /\ Asked(by, b).stage = "asked"
         /\ Asked(by, b).by = by /\ Asked(by, b).at = 0
BY DEF Free, Flights, Asked, Jobs, SavingJobs

LEMMA CallFacts ==
    ASSUME TypeOK, NEW by \in Jobs, NEW n \in Nat,
           NEW to \in {None} \cup Persons \cup Grants
    PROVE  /\ Call(by, n, to) \in Flights
           /\ Call(by, n, to).stage = "call" /\ Call(by, n, to).by = by
           /\ Call(by, n, to).at = 0 /\ Call(by, n, to).to = to
BY DEF TypeOK, Call, Flights

-----------------------------------------------------------------------------
(* Steps that several actions share                                        *)

\* refresh() of the timer, of Retry or of the effect, in a free slot
LEMMA OwnReadKeeps ==
    ASSUME IInv, Room, kind # None,
           NEW r, \E b \in BOOLEAN, by \in {"tick", "retry"} : r = Asked(by, b),
           NEW off \in BOOLEAN,
           refresh(FreeSlot, r, off),
           offline' \in BOOLEAN, blank' \in BOOLEAN,
           UNCHANGED <<commits, kind, missed, forms, acked, bounds>>
    PROVE  IInv'
<1> USE AdminAssumption
<1>1. FreeSlot \in Slots /\ flight[FreeSlot] = Free
  BY FreeSlotIsFree
<1>2. r \in Flights /\ r.stage = "asked" /\ r.by \in {"tick", "retry"} /\ r.at = 0
  BY FreeIsIdle
<1>3. flight' = [flight EXCEPT ![FreeSlot] = IF off THEN Free ELSE r]
  BY DEF refresh, request
<1>4. TypeOK'
  <2>1. flight' \in [Slots -> Flights]
    BY <1>2, <1>3, FreeIsIdle DEF IInv, TypeOK
  <2>2. latest' \in Slots \cup {None} /\ loading' \in BOOLEAN /\ error' \in BOOLEAN
    BY <1>1 DEF refresh, request
  <2>3. at' \in Nat /\ chosen' \in Persons \cup {None}
    BY DEF IInv, TypeOK, refresh
  <2> QED BY <2>1, <2>2, <2>3 DEF IInv, TypeOK, forms, bounds
<1>5. Past'
  BY <1>1, <1>2, <1>3, FreeIsIdle
  DEF IInv, TypeOK, Past, refresh, request, Flights
<1>6. NoPage' /\ Version' /\ OwnChangeShown'
  BY <1>1, <1>2, <1>3, FreeIsIdle
  DEF IInv, TypeOK, NoPage, Version, OwnChangeShown, Reading, refresh, request
<1>7. \A s \in Slots : s # FreeSlot => flight'[s] = flight[s]
  BY <1>3 DEF IInv, TypeOK
<1>8. flight'[FreeSlot].by \notin Jobs
  BY <1>1, <1>2, <1>3, FreeIsIdle DEF IInv, TypeOK, Jobs, SavingJobs
<1>9. flight[FreeSlot].by \notin Jobs
  BY <1>1, FreeIsIdle DEF Jobs, SavingJobs
<1>10. FormsFree'
  BY <1>1, <1>7, <1>8, <1>9 DEF IInv, FormsFree, Saves, forms, Jobs
<1> QED BY <1>4, <1>5, <1>6, <1>10 DEF IInv

\* A job or a read that ends leaves its slot and lets go of its button.
LEMMA DoneFreesForms ==
    ASSUME IInv, NEW s \in Slots, flight' = [flight EXCEPT ![s] = Free], Done(s)
    PROVE  /\ FormsFree'
           /\ saving' \in BOOLEAN /\ revoking' \in Grants \cup {None}
           /\ flight' \in [Slots -> Flights]
           /\ flight'[s] = Free
           /\ \A t \in Slots : t # s => flight'[t] = flight[t]
<1>1. /\ flight' \in [Slots -> Flights] /\ flight'[s] = Free
      /\ \A t \in Slots : t # s => flight'[t] = flight[t]
  BY FreeIsIdle DEF IInv, TypeOK
<1>2. ~Saves(s)' /\ \A t \in Slots : t # s => (Saves(t)' <=> Saves(t))
  BY <1>1, FreeIsIdle DEF Saves, SavingJobs
<1>3. /\ saving' <=> \E t \in Slots : Saves(t)'
      /\ \A t, u \in Slots : Saves(t)' /\ Saves(u)' => t = u
  BY <1>2 DEF IInv, FormsFree, Done, TypeOK
<1>4. revoking' # None =>
         \E t \in Slots : flight'[t].by = "revoke" /\ flight'[t].to = revoking'
  BY <1>1 DEF IInv, FormsFree, Done
<1>5. FormsFree'
  BY <1>3, <1>4 DEF FormsFree
<1> QED BY <1>1, <1>5 DEF IInv, TypeOK, Done

\* The calls of a job are begun in a free slot.
LEMMA BeginKeeps ==
    ASSUME IInv, kind # None, NEW by \in Jobs, NEW n \in Nat,
           NEW to \in {None} \cup Persons \cup Grants, Begin(by, n, to),
           saving' \in BOOLEAN, revoking' \in Grants \cup {None},
           UNCHANGED person
    PROVE  /\ TypeOK' /\ Past' /\ NoPage' /\ Version' /\ OwnChangeShown'
           /\ FreeSlot \in Slots /\ flight[FreeSlot] = Free
           /\ flight'[FreeSlot] = Call(by, n, to)
           /\ \A s \in Slots : s # FreeSlot => flight'[s] = flight[s]
<1> USE AdminAssumption
<1>1. FreeSlot \in Slots /\ flight[FreeSlot] = Free
  BY FreeSlotIsFree DEF Begin
<1>2. /\ Call(by, n, to) \in Flights /\ Call(by, n, to).stage = "call"
      /\ Call(by, n, to).at = 0
  BY CallFacts DEF IInv
<1>3. /\ flight' \in [Slots -> Flights]
      /\ flight'[FreeSlot] = Call(by, n, to)
      /\ \A s \in Slots : s # FreeSlot => flight'[s] = flight[s]
  BY <1>1, <1>2 DEF Begin, IInv, TypeOK
<1>4. TypeOK'
  BY <1>3 DEF Begin, IInv, TypeOK, page, person
<1>5. Past' /\ NoPage' /\ OwnChangeShown'
  BY <1>2, <1>3 DEF Begin, IInv, TypeOK, Past, NoPage, OwnChangeShown, page
<1>6. latest # FreeSlot \/ latest = None
  BY <1>1, FreeIsIdle DEF IInv, Version, Reading
<1>7. Version'
  BY <1>3, <1>6 DEF Begin, IInv, TypeOK, Version, Reading, page
<1> QED BY <1>1, <1>3, <1>4, <1>5, <1>7

\* A form is sent: it was free, and is not.
LEMMA SubmitKeeps ==
    ASSUME IInv, kind # None, ~saving, NEW by \in SavingJobs, NEW n \in Nat,
           NEW to \in {None} \cup Persons \cup Grants, Submits(by, n, to)
    PROVE  IInv'
<1>1. by \in Jobs
  BY DEF Jobs
<1>2. /\ TypeOK' /\ Past' /\ NoPage' /\ Version' /\ OwnChangeShown'
      /\ FreeSlot \in Slots /\ flight[FreeSlot] = Free
      /\ flight'[FreeSlot] = Call(by, n, to)
      /\ \A s \in Slots : s # FreeSlot => flight'[s] = flight[s]
  BY <1>1, BeginKeeps DEF Submits, IInv, TypeOK
<1>3. flight'[FreeSlot].by = by
  BY <1>1, <1>2, CallFacts DEF IInv
<1>4. \A s \in Slots : ~Saves(s)
  BY DEF IInv, FormsFree
<1>5. \A s \in Slots : Saves(s)' <=> s = FreeSlot
  BY <1>2, <1>3, <1>4 DEF Saves
<1>6. \A s \in Slots : flight[s].by = "revoke" => flight'[s] = flight[s]
  BY <1>2, FreeIsIdle
<1>7. FormsFree'
  BY <1>2, <1>5, <1>6 DEF IInv, FormsFree, Submits
<1> QED BY <1>2, <1>7 DEF IInv

-----------------------------------------------------------------------------
(* The steps of reads and calls                                            *)

\* What is under way is under way for a page.
LEMMA PageIsThere ==
    ASSUME IInv, NEW s \in Slots, flight[s].stage # "free"
    PROVE  kind # None
BY FreeIsIdle DEF IInv, NoPage

LEMMA ReadKeeps ==
    ASSUME IInv, NEW s \in Slots, Read(s)
    PROVE  IInv'
<1> USE AdminAssumption
<1>1. flight' = [flight EXCEPT ![s] = [flight[s] EXCEPT !.stage = "read", !.at = commits]]
  BY DEF Read, IInv, TypeOK
<1>2. /\ flight' \in [Slots -> Flights]
      /\ flight'[s].stage = "read" /\ flight'[s].at = commits
      /\ flight'[s].by = flight[s].by /\ flight'[s].to = flight[s].to
      /\ \A t \in Slots : t # s => flight'[t] = flight[t]
  BY <1>1 DEF IInv, TypeOK, Flights
<1>3. kind # None
  BY PageIsThere DEF Read
<1>4. TypeOK'
  BY <1>2 DEF Read, IInv, TypeOK, page, forms, person, bounds
<1>5. Past' /\ NoPage' /\ OwnChangeShown'
  BY <1>2, <1>3 DEF Read, IInv, TypeOK, Past, NoPage, OwnChangeShown, page
<1>6. Version'
  BY <1>2, <1>3 DEF Read, IInv, TypeOK, Past, Version, Reading, page
<1>7. FormsFree'
  BY <1>2 DEF Read, IInv, FormsFree, Saves, forms
<1> QED BY <1>4, <1>5, <1>6, <1>7 DEF IInv

LEMMA DeliverKeeps ==
    ASSUME IInv, NEW s \in Slots, Deliver(s)
    PROVE  IInv' /\ at <= at'
<1> USE AdminAssumption
<1>1. /\ FormsFree'
      /\ saving' \in BOOLEAN /\ revoking' \in Grants \cup {None}
      /\ flight' \in [Slots -> Flights] /\ flight'[s] = Free
      /\ \A t \in Slots : t # s => flight'[t] = flight[t]
  BY DoneFreesForms DEF Deliver
<1>2. kind # None
  BY PageIsThere DEF Deliver
<1>3. flight[s].at \in Nat
  BY DEF IInv, TypeOK, Flights
<1>4. TypeOK'
  <2>1. at' \in Nat /\ latest' \in Slots \cup {None} /\ chosen' \in Persons \cup {None}
    BY <1>3 DEF Deliver, IInv, TypeOK
  <2>2. loading' \in BOOLEAN /\ missed' \in BOOLEAN
    BY DEF Deliver, IInv, TypeOK
  <2> QED BY <1>1, <2>1, <2>2 DEF Deliver, IInv, TypeOK, bounds
<1>5. at <= at' /\ (latest = s => acked <= at')
  BY <1>3 DEF Deliver, IInv, TypeOK, Version
<1>6. Past' /\ NoPage'
  BY <1>1, <1>2, FreeIsIdle DEF Deliver, IInv, TypeOK, Past, NoPage
<1>7. Version' /\ OwnChangeShown'
  BY <1>1, <1>2, <1>5 DEF Deliver, IInv, TypeOK, Version, OwnChangeShown, Reading
<1> QED BY <1>1, <1>4, <1>5, <1>6, <1>7 DEF IInv

LEMMA ReadFailsKeeps ==
    ASSUME IInv, NEW s \in Slots, ReadFails(s)
    PROVE  IInv'
<1> USE AdminAssumption
<1>1. /\ FormsFree'
      /\ saving' \in BOOLEAN /\ revoking' \in Grants \cup {None}
      /\ flight' \in [Slots -> Flights] /\ flight'[s] = Free
      /\ \A t \in Slots : t # s => flight'[t] = flight[t]
  BY DoneFreesForms DEF ReadFails
<1>2. kind # None
  BY PageIsThere DEF ReadFails, Reading
<1>3. TypeOK'
  <2>1. /\ latest' \in Slots \cup {None} /\ loading' \in BOOLEAN
        /\ error' \in BOOLEAN /\ missed' \in BOOLEAN
    BY DEF ReadFails, IInv, TypeOK
  <2>2. faults' \in 0 .. MaxFaults
    BY DEF ReadFails, IInv, TypeOK
  <2> QED BY <1>1, <2>1, <2>2 DEF ReadFails, IInv, TypeOK, person
<1>4. Past' /\ NoPage'
  BY <1>1, <1>2, FreeIsIdle DEF ReadFails, IInv, TypeOK, Past, NoPage
<1>5. Version' /\ OwnChangeShown'
  BY <1>1, <1>2 DEF ReadFails, IInv, TypeOK, Version, OwnChangeShown, Reading
<1> QED BY <1>1, <1>3, <1>4, <1>5 DEF IInv

LEMMA CommitKeeps ==
    ASSUME IInv, NEW s \in Slots, Commit(s)
    PROVE  IInv'
<1> USE AdminAssumption
<1>1. flight' = [flight EXCEPT ![s] = [flight[s] EXCEPT !.left = @ - 1, !.at = commits']]
  BY DEF Commit, IInv, TypeOK
<1>2. commits' \in Nat /\ commits' > commits /\ flight[s].left - 1 \in Nat
  BY DEF Commit, IInv, TypeOK, Flights
<1>3. /\ flight' \in [Slots -> Flights]
      /\ flight'[s].stage = "call" /\ flight'[s].at = commits'
      /\ flight'[s].by = flight[s].by /\ flight'[s].to = flight[s].to
      /\ \A t \in Slots : t # s => flight'[t] = flight[t]
  BY <1>1, <1>2 DEF Commit, IInv, TypeOK, Flights
<1>4. kind # None
  BY PageIsThere DEF Commit
<1>5. TypeOK'
  BY <1>2, <1>3 DEF Commit, IInv, TypeOK, page, forms, person, bounds
<1>6. Past' /\ NoPage' /\ OwnChangeShown'
  <2>1. \A t \in Slots : flight[t].at \in Nat
    BY DEF IInv, TypeOK, Flights
  <2> QED BY <1>2, <1>3, <1>4, <2>1
          DEF Commit, IInv, TypeOK, Past, NoPage, OwnChangeShown, page
<1>7. Version'
  BY <1>3, <1>4 DEF Commit, IInv, TypeOK, Version, Reading, page
<1>8. FormsFree'
  BY <1>3 DEF Commit, IInv, FormsFree, Saves, forms
<1> QED BY <1>5, <1>6, <1>7, <1>8 DEF IInv

LEMMA SucceedsKeeps ==
    ASSUME IInv, NEW s \in Slots, Succeeds(s)
    PROVE  IInv' /\ (at' # 0 => at <= at')
<1> USE AdminAssumption
<1> DEFINE f == flight[s]
           r == [f EXCEPT !.stage = "asked"]
<1>1. f \in Flights /\ f.off \in BOOLEAN /\ f.at \in Nat /\ kind # None
  BY PageIsThere DEF Succeeds, IInv, TypeOK, Flights
<1>2. /\ r \in Flights /\ r.stage = "asked" /\ r.by = f.by /\ r.to = f.to /\ r.at = f.at
  BY <1>1 DEF Flights
<1>3. flight' = [flight EXCEPT ![s] = IF f.off THEN Free ELSE r]
  BY <1>1 DEF Succeeds, refresh, request
<1>4. /\ flight' \in [Slots -> Flights]
      /\ flight'[s] = IF f.off THEN Free ELSE r
      /\ \A t \in Slots : t # s => flight'[t] = flight[t]
  BY <1>2, <1>3, FreeIsIdle DEF IInv, TypeOK
<1>5. acked' \in Nat /\ acked' <= commits
  BY <1>1 DEF Succeeds, IInv, TypeOK, Past
<1>6. FormsFree' /\ saving' \in BOOLEAN /\ revoking' \in Grants \cup {None}
  <2>1. CASE f.off
    BY <2>1, <1>3, DoneFreesForms DEF Succeeds
  <2>2. CASE ~f.off
    <3>1. \A t \in Slots : flight'[t].by = flight[t].by /\ flight'[t].to = flight[t].to
      BY <2>2, <1>2, <1>4
    <3> QED BY <2>2, <3>1 DEF Succeeds, IInv, TypeOK, FormsFree, Saves
  <2> QED BY <2>1, <2>2
<1>7. TypeOK'
  <2>1. latest' \in Slots \cup {None} /\ loading' \in BOOLEAN /\ error' \in BOOLEAN
    BY <1>1 DEF Succeeds, refresh, request
  <2>2. at' \in Nat /\ chosen' \in Persons \cup {None}
    BY DEF Succeeds, IInv, TypeOK, refresh
  <2>3. dialog' \in Dialogs \cup {None}
    BY DEF Succeeds, IInv, TypeOK
  <2> QED BY <1>4, <1>5, <1>6, <2>1, <2>2, <2>3
          DEF Succeeds, IInv, TypeOK, bounds
<1>8. at' <= at /\ (at' # 0 => at <= at')
  BY DEF Succeeds, IInv, TypeOK, refresh
<1>9. Past'
  <2>1. flight'[s].at <= commits
    BY <1>1, <1>2, <1>4, FreeIsIdle DEF IInv, TypeOK, Past
  <2>2. at' <= commits
    BY <1>7, <1>8 DEF IInv, TypeOK, Past
  <2> QED BY <1>4, <1>5, <2>1, <2>2 DEF Succeeds, IInv, Past
<1>11. NoPage'
  BY <1>1 DEF Succeeds, NoPage
<1>10. Version' /\ OwnChangeShown'
  BY <1>1, <1>2, <1>4
  DEF Succeeds, IInv, Version, OwnChangeShown, Reading, refresh, request
<1> QED BY <1>6, <1>7, <1>8, <1>9, <1>10, <1>11 DEF IInv

LEMMA CallFailsKeeps ==
    ASSUME IInv, NEW s \in Slots, CallFails(s)
    PROVE  IInv'
<1> USE AdminAssumption
<1>1. /\ FormsFree'
      /\ saving' \in BOOLEAN /\ revoking' \in Grants \cup {None}
      /\ flight' \in [Slots -> Flights] /\ flight'[s] = Free
      /\ \A t \in Slots : t # s => flight'[t] = flight[t]
  BY DoneFreesForms DEF CallFails
<1>2. kind # None /\ latest # s
  BY PageIsThere DEF CallFails, IInv, Version, Reading
<1>3. TypeOK'
  BY <1>1 DEF CallFails, IInv, TypeOK, page, person, bounds
<1>4. Past' /\ NoPage'
  BY <1>1, <1>2, FreeIsIdle DEF CallFails, IInv, TypeOK, Past, NoPage, page
<1>5. Version' /\ OwnChangeShown'
  BY <1>1, <1>2 DEF CallFails, IInv, TypeOK, Version, OwnChangeShown, Reading, page
<1> QED BY <1>1, <1>3, <1>4, <1>5 DEF IInv

-----------------------------------------------------------------------------
(* The steps of the admin and of the console                               *)

LEMMA TickKeeps ==
    ASSUME IInv, Tick
    PROVE  IInv' /\ (at' # 0 => at <= at')
<1>1. IInv'
  BY OwnReadKeeps DEF Tick, IInv, TypeOK
<1> QED BY <1>1 DEF Tick, refresh, IInv, TypeOK

LEMMA RetryKeeps ==
    ASSUME IInv, Retry
    PROVE  IInv' /\ (at' # 0 => at <= at')
<1>1. IInv'
  <2>1. (chosen = None) \in BOOLEAN /\ offline \in BOOLEAN
    BY DEF IInv, TypeOK
  <2>2. offline' \in BOOLEAN /\ blank' \in BOOLEAN
    BY DEF Retry, IInv, TypeOK
  <2> QED BY <2>1, <2>2, OwnReadKeeps DEF Retry
<1> QED BY <1>1 DEF Retry, refresh, IInv, TypeOK

LEMMA SetOfflineKeeps ==
    ASSUME IInv, setOffline
    PROVE  IInv' /\ (at' # 0 => at <= at')
<1>1. CASE kind = None
  <2>1. TypeOK'
    BY <1>1 DEF setOffline, IInv, TypeOK, person, forms, bounds
  <2>2. Past' /\ NoPage' /\ Version' /\ OwnChangeShown' /\ FormsFree'
    BY <1>1 DEF setOffline, IInv, Past, NoPage, Version, OwnChangeShown, FormsFree,
       Saves, Reading, forms
  <2> QED BY <1>1, <2>1, <2>2 DEF setOffline, IInv, TypeOK
<1>2. CASE kind # None
  <2>1. (chosen = None) \in BOOLEAN /\ (~offline) \in BOOLEAN
    BY DEF IInv, TypeOK
  <2>2. offline' \in BOOLEAN /\ blank' \in BOOLEAN
    BY <1>2 DEF setOffline, IInv, TypeOK
  <2>3. IInv'
    BY <1>2, <2>1, <2>2, OwnReadKeeps DEF setOffline
  <2> QED BY <1>2, <2>3 DEF setOffline, refresh, IInv, TypeOK
<1> QED BY <1>1, <1>2

LEMMA MountKeeps ==
    ASSUME IInv, NEW k \in Kinds, Mount(k)
    PROVE  IInv'
<1> USE AdminAssumption
<1>1. FreeSlot \in Slots /\ flight[FreeSlot] = Free
  BY FreeSlotIsFree DEF Mount, IInv, NoPage, Room
<1> DEFINE r == Asked("tick", TRUE)
<1>2. r \in Flights /\ r.stage = "asked" /\ r.by = "tick" /\ r.at = 0
  BY FreeIsIdle
<1>3. flight' = [flight EXCEPT ![FreeSlot] = IF offline THEN Free ELSE r]
  BY DEF Mount, request
<1>4. /\ flight' \in [Slots -> Flights]
      /\ flight'[FreeSlot] = IF offline THEN Free ELSE r
      /\ \A t \in Slots : t # FreeSlot => flight'[t] = flight[t]
  BY <1>1, <1>2, <1>3, FreeIsIdle DEF IInv, TypeOK
<1>5. at' \in Nat /\ at' <= commits
  <2>1. commits \in Nat /\ at' \in (1 .. commits) \cup {0}
    BY DEF Mount, IInv, TypeOK
  <2> QED BY <2>1
<1>6. latest' \in Slots \cup {None} /\ loading' \in BOOLEAN /\ error' \in BOOLEAN
  BY <1>1 DEF Mount, request
<1>7. TypeOK'
  BY <1>4, <1>5, <1>6 DEF Mount, IInv, TypeOK, forms, bounds
<1>8. Past'
  <2>1. \A t \in Slots : flight'[t].at <= commits
    <3>1. flight'[FreeSlot].at = 0
      BY <1>2, <1>4, FreeIsIdle
    <3>2. 0 <= commits
      BY DEF IInv, TypeOK
    <3> QED BY <1>1, <1>4, <3>1, <3>2 DEF IInv, Past
  <2> QED BY <1>5, <2>1 DEF Mount, IInv, Past
<1>12. NoPage' /\ OwnChangeShown'
  <2>1. kind' # None /\ acked' = 0
    BY DEF Mount, IInv, NoPage
  <2> QED BY <1>5, <2>1 DEF NoPage, OwnChangeShown
<1>9. Version'
  BY <1>1, <1>2, <1>4 DEF Mount, Version, Reading, request
<1>10. \A t \in Slots : flight[t].by \notin Jobs /\ flight'[t].by \notin Jobs
  BY <1>1, <1>2, <1>4, FreeIsIdle DEF Mount, IInv, NoPage, Jobs, SavingJobs
<1>11. FormsFree'
  BY <1>10 DEF Mount, IInv, FormsFree, Saves, Jobs, forms
<1> QED BY <1>7, <1>8, <1>9, <1>11, <1>12 DEF IInv

LEMMA UnmountKeeps ==
    ASSUME IInv, Unmount
    PROVE  IInv'
<1> USE AdminAssumption
<1>1. /\ flight' \in [Slots -> Flights]
      /\ \A s \in Slots : flight'[s] = Free
  BY FreeIsIdle DEF Unmount
<1>2. TypeOK'
  BY <1>1 DEF Unmount, IInv, TypeOK, bounds
<1>3. Past' /\ NoPage' /\ Version' /\ OwnChangeShown'
  BY <1>1, FreeIsIdle DEF Unmount, IInv, TypeOK, Past, NoPage, Version, OwnChangeShown
<1>4. FormsFree'
  BY <1>1, FreeIsIdle DEF Unmount, FormsFree, Saves, SavingJobs
<1> QED BY <1>2, <1>3, <1>4 DEF IInv

LEMMA ElsewhereKeeps ==
    ASSUME IInv, Elsewhere
    PROVE  IInv'
<1>1. elsewhere' \in 0 .. MaxElsewhere
  BY AdminAssumption DEF Elsewhere, IInv, TypeOK
<1>2. TypeOK'
  BY <1>1 DEF Elsewhere, IInv, TypeOK, page, forms, person
<1>3. Past'
  <2>1. \A s \in Slots : flight[s].at \in Nat
    BY DEF IInv, TypeOK, Flights
  <2> QED BY <2>1 DEF Elsewhere, IInv, TypeOK, Past, page
<1>4. NoPage' /\ Version' /\ OwnChangeShown' /\ FormsFree'
  BY DEF Elsewhere, IInv, NoPage, Version, OwnChangeShown, FormsFree, Saves, Reading,
     page, forms
<1> QED BY <1>2, <1>3, <1>4 DEF IInv

LEMMA DialogKeeps ==
    ASSUME IInv, Dialog
    PROVE  IInv'
<1>1. TypeOK'
  BY DEF Dialog, openAccount, openUser, Dialogs, IInv, TypeOK, page, person, bounds
<1>2. Past' /\ NoPage' /\ Version' /\ OwnChangeShown' /\ FormsFree'
  BY DEF Dialog, IInv, Past, NoPage, Version, OwnChangeShown, FormsFree, Saves, Reading,
     page
<1> QED BY <1>1, <1>2 DEF IInv

LEMMA SelectKeeps ==
    ASSUME IInv, NEW p \in Persons, select(p)
    PROVE  IInv'
<1>1. TypeOK'
  BY DEF select, IInv, TypeOK, page, forms, bounds
<1>2. Past' /\ NoPage' /\ Version' /\ OwnChangeShown' /\ FormsFree'
  BY DEF select, IInv, Past, NoPage, Version, OwnChangeShown, FormsFree, Saves, Reading,
     page, forms
<1> QED BY <1>1, <1>2 DEF IInv

\* A form or a dialog is sent.
LEMMA FormsKeep ==
    ASSUME IInv,
           createAccount \/ updateAccount \/ confirmAction
             \/ createUser \/ updateUser \/ handleGrantAccess
    PROVE  IInv'
<1> USE AdminAssumption
<1>1. kind # None /\ ~saving
  BY DEF createAccount, updateAccount, confirmAction, createUser, updateUser,
     handleGrantAccess, createReady, editReady, confirmReady, personReady,
     personEditReady, grantReady, People, Kinds
<1>2. PICK by \in SavingJobs, n \in Nat, to \in {None} \cup Persons : Submits(by, n, to)
  <2>1. selectedUser \in Persons
    BY DEF selectedUser, IInv, TypeOK
  <2> QED BY <2>1 DEF createAccount, updateAccount, confirmAction, createUser, updateUser,
             handleGrantAccess, SavingJobs
<1> QED BY <1>1, <1>2, SubmitKeeps

LEMMA RevokeKeeps ==
    ASSUME IInv, NEW g \in Grants, handleRevoke(g)
    PROVE  IInv'
<1> USE AdminAssumption
<1>1. kind # None /\ "revoke" \in Jobs /\ "revoke" \notin SavingJobs
  BY DEF handleRevoke, revokeReady, People, Kinds, Jobs, SavingJobs
<1>2. /\ TypeOK' /\ Past' /\ NoPage' /\ Version' /\ OwnChangeShown'
      /\ FreeSlot \in Slots /\ flight[FreeSlot] = Free
      /\ flight'[FreeSlot] = Call("revoke", 1, g)
      /\ \A s \in Slots : s # FreeSlot => flight'[s] = flight[s]
  BY <1>1, BeginKeeps DEF handleRevoke, IInv, TypeOK
<1>3. flight'[FreeSlot].by = "revoke" /\ flight'[FreeSlot].to = g
  BY <1>1, <1>2, CallFacts DEF IInv
<1>4. \A s \in Slots : Saves(s)' <=> Saves(s)
  BY <1>1, <1>2, <1>3, FreeIsIdle DEF Saves, SavingJobs
<1>5. FormsFree'
  BY <1>2, <1>3, <1>4 DEF IInv, FormsFree, handleRevoke
<1> QED BY <1>2, <1>5 DEF IInv

-----------------------------------------------------------------------------
LEMMA InitHolds == Init => IInv
<1> SUFFICES ASSUME Init PROVE IInv
  OBVIOUS
<1> USE AdminAssumption
<1>1. TypeOK
  <2>1. flight \in [Slots -> Flights]
    BY FreeIsIdle DEF Init
  <2>2. begun \in 0 .. MaxJobs /\ elsewhere \in 0 .. MaxElsewhere /\ faults \in 0 .. MaxFaults
    BY DEF Init
  <2> QED BY <2>1, <2>2 DEF Init, TypeOK
<1>2. Past
  BY FreeIsIdle DEF Init, Past
<1>4. NoPage /\ Version /\ OwnChangeShown
  BY DEF Init, NoPage, Version, OwnChangeShown
<1>3. FormsFree
  BY FreeIsIdle DEF Init, FormsFree, Saves, SavingJobs
<1> QED BY <1>1, <1>2, <1>3, <1>4 DEF IInv

LEMMA StepKeeps ==
    ASSUME IInv, [Next]_vars
    PROVE  IInv' /\ (kind # None /\ kind' = kind /\ at' # 0 => at <= at')
<1>1. CASE \E s \in Slots : Read(s) \/ ReadFails(s) \/ Commit(s) \/ CallFails(s)
  <2>1. UNCHANGED at
    BY <1>1 DEF Read, ReadFails, Commit, CallFails, page
  <2>2. IInv'
    BY <1>1, ReadKeeps, ReadFailsKeeps, CommitKeeps, CallFailsKeeps
  <2> QED BY <2>1, <2>2 DEF IInv, TypeOK
<1>2. CASE \E s \in Slots : Deliver(s) \/ Succeeds(s)
  BY <1>2, DeliverKeeps, SucceedsKeeps
<1>3. CASE Tick \/ Retry \/ setOffline
  BY <1>3, TickKeeps, RetryKeeps, SetOfflineKeeps
<1>4. CASE \E k \in Kinds : Mount(k)
  BY <1>4, MountKeeps DEF Mount
<1>5. CASE Unmount
  BY <1>5, UnmountKeeps DEF Unmount
<1>6. CASE Elsewhere \/ Dialog \/ \E p \in Persons : select(p)
  BY <1>6, ElsewhereKeeps, DialogKeeps, SelectKeeps
  DEF Elsewhere, Dialog, select, page, IInv, TypeOK
<1>7. CASE \/ createAccount \/ updateAccount \/ confirmAction
           \/ createUser \/ updateUser \/ handleGrantAccess
  <2>1. UNCHANGED at
    BY <1>7 DEF createAccount, updateAccount, confirmAction, createUser, updateUser,
       handleGrantAccess, Submits, Begin, page
  <2> QED BY <1>7, <2>1, FormsKeep DEF IInv, TypeOK
<1>8. CASE \E g \in Grants : handleRevoke(g)
  <2>1. UNCHANGED at
    BY <1>8 DEF handleRevoke, Begin, page
  <2> QED BY <1>8, <2>1, RevokeKeeps DEF IInv, TypeOK
<1>9. CASE UNCHANGED vars
  <2>1. TypeOK'
    BY <1>9 DEF IInv, TypeOK, vars, page, forms, person, bounds
  <2>2. Past' /\ NoPage' /\ Version' /\ OwnChangeShown' /\ FormsFree'
    BY <1>9 DEF IInv, Past, NoPage, Version, OwnChangeShown, FormsFree, Saves, Reading,
       vars, page, forms
  <2> QED BY <1>9, <2>1, <2>2 DEF IInv, TypeOK, vars, page
<1> QED
  BY <1>1, <1>2, <1>3, <1>4, <1>5, <1>6, <1>7, <1>8, <1>9 DEF Next, Proceeds

LEMMA Invariance == Spec => []IInv
<1>1. Init => IInv
  BY InitHolds
<1>2. IInv /\ [Next]_vars => IInv'
  BY StepKeeps
<1> QED BY <1>1, <1>2, PTL DEF Spec

\* The variables keep their types.
THEOREM TypeCorrect == Spec => []TypeOK
<1>1. IInv => TypeOK
  BY DEF IInv
<1> QED BY <1>1, Invariance, PTL

\* A page that is neither loading nor failed shows what it was told of.
THEOREM OwnChangesShown == Spec => []OwnChangeShown
<1>1. IInv => OwnChangeShown
  BY DEF IInv
<1> QED BY <1>1, Invariance, PTL

\* The buttons of the forms are off exactly while a job is under way.
THEOREM FormsComeFree == Spec => []FormsFree
<1>1. IInv => FormsFree
  BY DEF IInv
<1> QED BY <1>1, Invariance, PTL

\* No answer that was overtaken takes a list back.
THEOREM ListsOnlyGrow == Spec => ListNeverBackwards
<1>1. IInv /\ [Next]_vars => [kind # None /\ kind' = kind /\ at' # 0 => at <= at']_vars
  BY StepKeeps
<1> QED BY <1>1, Invariance, PTL DEF Spec, ListNeverBackwards
=============================================================================
