------------------------ MODULE ApiPersistenceProofs ------------------------
(***************************************************************************)
(* Proofs about the database and its file.  The inductive invariant says   *)
(* that the file, the copies on their way to it and the database in memory *)
(* are one growing chain, who waits for which copy, and what each answer   *)
(* means.                                                                  *)
(***************************************************************************)
EXTENDS ApiPersistence, TLAPS

\* The file, then the copies in their order, then memory: each holds the one before.
Chain ==
    /\ proc # "down" => file \subseteq mem
    /\ \A i \in DOMAIN saves :
         file \subseteq saves[i].what /\ saves[i].what \subseteq mem
    /\ \A i, j \in DOMAIN saves : i <= j => saves[i].what \subseteq saves[j].what

\* How far the oldest copy is, on disk
UnderWay ==
    /\ saves = <<>> => phase = "write"
    /\ saves # <<>> /\ phase = "rename" => tmp = saves[1].what
    /\ saves # <<>> /\ phase = "chmod" => file = saves[1].what

\* Who waits for a copy, and what is in it
Waits ==
    /\ \A i \in DOMAIN saves :
         /\ saves[i].by = "open" => proc = "opening"
         /\ saves[i].by = "seed" => proc = "seeding"
         /\ saves[i].by \in Changes =>
              answer[saves[i].by] = "saving" /\ saves[i].by \in saves[i].what
    /\ \A i, j \in DOMAIN saves :
         i # j /\ saves[i].by \in Changes => saves[j].by # saves[i].by

\* What a process has done by the time it is where it is
Started ==
    /\ proc = "down" => saves = <<>> /\ ~broken
    /\ proc = "opening" => saves = <<Save("open", mem)>> /\ file = mem
    /\ proc = "seeding" => saves = <<Save("seed", mem)>> /\ Seed \in mem
    /\ proc \in {"up", "closing", "closed", "stuck"} => Seed \in file

\* A save that failed leaves no copy waiting.
Failed == broken => saves = <<>> /\ failures > 0

\* Between processes every change answered with ok is in the file, or forgotten.
Ended ==
    proc = "down" => \A c \in Changes : answer[c] = "ok" => c \in file

IInv ==
    /\ TypeOK /\ Chain /\ UnderWay /\ Waits /\ Started /\ Failed
    /\ Ended /\ AckedOnTheWay /\ OrderlyKeepsAcked
-----------------------------------------------------------------------------
(* Sequences                                                               *)

LEMMA AppendFacts ==
    ASSUME NEW S, NEW q \in Seq(S), NEW e \in S
    PROVE  /\ Append(q, e) \in Seq(S)
           /\ Append(q, e) # <<>>
           /\ DOMAIN Append(q, e) = DOMAIN q \cup {Len(q) + 1}
           /\ \A i \in DOMAIN q : Append(q, e)[i] = q[i]
           /\ Append(q, e)[Len(q) + 1] = e
           /\ Len(q) + 1 \notin DOMAIN q
           /\ \A i \in DOMAIN q : i < Len(q) + 1
           /\ q # <<>> => 1 \in DOMAIN q
           /\ q = <<>> => Len(q) + 1 = 1
OBVIOUS

LEMMA TailFacts ==
    ASSUME NEW S, NEW q \in Seq(S), q # <<>>
    PROVE  /\ Tail(q) \in Seq(S)
           /\ Head(q) = q[1] /\ 1 \in DOMAIN q /\ q[1] \in S
           /\ DOMAIN Tail(q) \subseteq Nat
           /\ \A i \in DOMAIN Tail(q) :
                /\ i \in Nat /\ i >= 1 /\ i + 1 \in DOMAIN q /\ i + 1 # 1
                /\ Tail(q)[i] = q[i + 1]
           /\ \A i \in DOMAIN q : i # 1 =>
                i \in Nat /\ i - 1 \in DOMAIN Tail(q) /\ Tail(q)[i - 1] = q[i]
OBVIOUS

LEMMA OneFacts ==
    ASSUME NEW S, NEW e \in S
    PROVE  /\ <<e>> \in Seq(S) /\ <<e>> # <<>>
           /\ DOMAIN <<e>> = {1} /\ <<e>>[1] = e
           /\ Tail(<<e>>) = <<>>
OBVIOUS

LEMMA NoneFacts ==
    ASSUME NEW S
    PROVE  <<>> \in Seq(S) /\ DOMAIN <<>> = {}
OBVIOUS

Copies == [by : Savers, what : Databases]

-----------------------------------------------------------------------------
(* Steps that several actions share                                        *)

\* A process that ends forgets only what its file does not have.
LEMMA EndsKeeps ==
    ASSUME IInv, Ends, UNCHANGED file, tmp' \in Databases \cup {Torn},
           deaths' \in 0 .. MaxDeaths, failures' \in 0 .. MaxFailures,
           deaths' >= deaths, failures' >= failures,
           deaths' > 0 \/ failures' > 0
             \/ \A c \in Changes : answer[c] = "ok" => c \in file
    PROVE  IInv'
<1> USE PersistenceAssumption
<1>1. TypeOK'
  BY NoneFacts DEF IInv, TypeOK, Ends, Processes, Phases, Answers, Databases
<1>2. Chain' /\ UnderWay' /\ Waits' /\ Started' /\ Failed' /\ Ended'
  BY DEF IInv, TypeOK, Ends, Chain, UnderWay, Waits, Started, Failed, Ended
<1>3. AckedOnTheWay'
  BY DEF Ends, AckedOnTheWay
<1>4. OrderlyKeepsAcked'
  <2> SUFFICES ASSUME deaths' = 0, failures' = 0, NEW c \in Changes,
                      answer'[c] = "forgotten"
               PROVE  FALSE
    BY DEF OrderlyKeepsAcked
  <2>1. deaths = 0 /\ failures = 0
    BY DEF IInv, TypeOK
  <2> QED BY <2>1 DEF IInv, OrderlyKeepsAcked, Ends
<1> QED BY <1>1, <1>2, <1>3, <1>4 DEF IInv

\* A copy of the new memory is queued for somebody, with the chain kept.
LEMMA SaveKeeps ==
    ASSUME IInv, Serving, ~broken,
           NEW who \in Savers \ {"open", "seed"}, NEW what \in Databases,
           mem \subseteq what, mem' = what,
           saves' = Append(saves, Save(who, what)),
           proc' \in {"up", "closing", "stuck"},
           answer' \in [Changes -> Answers],
           \A c \in Changes : answer[c] = "saving" => answer'[c] = "saving",
           \A c \in Changes : answer'[c] = "ok" => answer[c] = "ok" \/ c \in what,
           \A c \in Changes : answer'[c] = "forgotten" => answer[c] = "forgotten",
           who \in Changes => who \in what /\ answer'[who] = "saving"
                              /\ answer[who] # "saving",
           UNCHANGED <<phase, broken, disk, bounds>>
    PROVE  IInv'
<1> USE PersistenceAssumption
<1> DEFINE n == Len(saves) + 1
<1>0. saves \in Seq(Copies) /\ Save(who, what) \in Copies
  BY DEF IInv, TypeOK, Copies, Save
<1>1. /\ saves' \in Seq(Copies) /\ saves' # <<>>
      /\ DOMAIN saves' = DOMAIN saves \cup {n}
      /\ \A i \in DOMAIN saves : saves'[i] = saves[i]
      /\ saves'[n] = Save(who, what)
      /\ n \notin DOMAIN saves /\ \A i \in DOMAIN saves : i < n
      /\ saves # <<>> => 1 \in DOMAIN saves
      /\ saves = <<>> => n = 1
  BY <1>0, AppendFacts
<1> HIDE DEF n
<1>s. saves'[n].by = who /\ saves'[n].what = what
  BY <1>1 DEF Save
<1>2. TypeOK'
  BY <1>1 DEF IInv, TypeOK, Copies, disk, bounds, Processes
<1>3. Chain'
  <2>1. file \subseteq mem
    BY DEF IInv, Chain, Serving
  <2>2. \A i \in DOMAIN saves' :
          file' \subseteq saves'[i].what /\ saves'[i].what \subseteq mem'
    BY <1>1, <1>s, <2>1 DEF IInv, Chain, disk
  <2>3. ASSUME NEW i \in DOMAIN saves', NEW j \in DOMAIN saves', i <= j
        PROVE  saves'[i].what \subseteq saves'[j].what
    <3>1. CASE j = n
      BY <3>1, <2>2, <1>s
    <3>2. CASE j # n
      <4>1. j \in DOMAIN saves /\ j < n
        BY <1>1, <3>2
      <4>2. i # n
        BY <4>1, <2>3, <1>0, AppendFacts DEF n
      <4> QED BY <4>1, <4>2, <2>3, <1>1 DEF IInv, Chain
    <3> QED BY <3>1, <3>2
  <2> QED BY <2>1, <2>2, <2>3 DEF Chain, disk
<1>4. UnderWay'
  BY <1>1 DEF IInv, UnderWay, disk
<1>5. Waits'
  <2>1. \A i \in DOMAIN saves' :
          saves'[i].by # "open" /\ saves'[i].by # "seed"
    BY <1>1, <1>s DEF IInv, Waits, Serving
  <2>2. ASSUME NEW i \in DOMAIN saves', saves'[i].by \in Changes
        PROVE  answer'[saves'[i].by] = "saving" /\ saves'[i].by \in saves'[i].what
    BY <2>2, <1>1, <1>s DEF IInv, Waits
  <2>3. ASSUME NEW i \in DOMAIN saves', NEW j \in DOMAIN saves',
               i # j, saves'[i].by \in Changes, saves'[j].by = saves'[i].by
        PROVE  FALSE
    <3>1. CASE i \in DOMAIN saves /\ j \in DOMAIN saves
      BY <3>1, <2>3, <1>1 DEF IInv, Waits
    <3>2. CASE i = n \/ j = n
      BY <3>2, <2>3, <1>1, <1>s DEF IInv, Waits
    <3> QED BY <3>1, <3>2, <1>1
  <2> QED BY <2>1, <2>2, <2>3 DEF Waits
<1>6. Started' /\ Failed' /\ Ended'
  BY DEF IInv, Started, Failed, Ended, Serving, disk
<1>7. AckedOnTheWay'
  <2> SUFFICES ASSUME NEW c \in Changes, answer'[c] = "ok"
               PROVE  c \in file \/ \E i \in DOMAIN saves' : c \in saves'[i].what
    BY DEF AckedOnTheWay, disk
  <2>1. CASE c \in what
    BY <2>1, <1>1, <1>s
  <2>2. CASE answer[c] = "ok"
    BY <2>2, <1>1 DEF IInv, AckedOnTheWay, Serving
  <2> QED BY <2>1, <2>2
<1>8. OrderlyKeepsAcked'
  BY DEF IInv, OrderlyKeepsAcked, bounds
<1> QED BY <1>2, <1>3, <1>4, <1>5, <1>6, <1>7, <1>8 DEF IInv

\* The oldest copy is in place and its saver goes on, perhaps to save once more.
LEMMA DoneKeeps ==
    ASSUME IInv, saves # <<>>, phase = "chmod", phase' = "write",
           \/ saves' = Tail(saves)
           \/ saves' = Append(Tail(saves), Save("nobody", mem)),
           proc' \in {"up", "closing", "closed", "stuck"},
           proc \in {"opening", "seeding"} => Seed \in mem,
           answer' \in [Changes -> Answers],
           \A c \in Changes : c # saves[1].by => answer'[c] = answer[c],
           \A c \in Changes : answer'[c] = "ok" =>
               answer[c] = "ok" \/ c = saves[1].by,
           \A c \in Changes : answer'[c] = "forgotten" => answer[c] = "forgotten",
           UNCHANGED <<mem, broken, disk, bounds>>
    PROVE  IInv'
<1> USE PersistenceAssumption
<1>0. saves \in Seq(Copies)
  BY DEF IInv, TypeOK, Copies
<1> DEFINE More == Save("nobody", mem)
<1>m. More \in Copies /\ More.by = "nobody" /\ More.what = mem
  BY DEF IInv, TypeOK, Copies, Save, Savers
<1> HIDE DEF More
<1>1. /\ saves' \in Seq(Copies)
      /\ 1 \in DOMAIN saves /\ saves[1] \in Copies
      /\ \A i \in DOMAIN saves' :
           /\ i \in Nat
           /\ \/ i + 1 \in DOMAIN saves /\ i + 1 # 1 /\ saves'[i] = saves[i + 1]
              \/ i = Len(saves) /\ saves'[i] = More
      /\ \A i \in DOMAIN saves : i # 1 =>
           i \in Nat /\ i - 1 \in DOMAIN saves' /\ saves'[i - 1] = saves[i]
      /\ \A i \in DOMAIN saves : i \in Nat /\ i < Len(saves) + 1
      /\ Len(saves) \in Nat
  BY <1>0, <1>m DEF More
<1>f. file = saves[1].what /\ file \subseteq mem /\ proc # "down" /\ ~broken
  BY DEF IInv, UnderWay, Chain, Started, Failed
<1>2. TypeOK'
  BY <1>1 DEF IInv, TypeOK, Copies, disk, bounds, Processes, Phases
<1>3. Chain'
  <2>1. ASSUME NEW i \in DOMAIN saves', NEW j \in DOMAIN saves', i <= j
        PROVE  saves'[i].what \subseteq saves'[j].what
    <3>1. CASE saves'[j] = More
      <4>1. saves'[i].what \subseteq mem
        BY <1>1, <1>m DEF IInv, Chain
      <4> QED BY <3>1, <4>1, <1>m
    <3>2. CASE saves'[j] # More
      <4>1. j + 1 \in DOMAIN saves /\ saves'[j] = saves[j + 1] /\ j < Len(saves)
        <5>1. j \in Nat /\ j + 1 \in DOMAIN saves /\ saves'[j] = saves[j + 1]
          BY <1>1, <3>2
        <5>2. j + 1 < Len(saves) + 1
          BY <5>1, <1>1
        <5> QED BY <5>1, <5>2, <1>1
      <4>2. i \in Nat /\ i # Len(saves)
        BY <4>1, <2>1, <1>1
      <4>3. i + 1 \in DOMAIN saves /\ saves'[i] = saves[i + 1]
        BY <4>2, <1>1
      <4>4. i + 1 <= j + 1
        BY <4>2, <2>1, <1>1
      <4> QED BY <4>1, <4>3, <4>4 DEF IInv, Chain
    <3> QED BY <3>1, <3>2
  <2>2. \A i \in DOMAIN saves' :
          file' \subseteq saves'[i].what /\ saves'[i].what \subseteq mem'
    BY <1>1, <1>m, <1>f DEF IInv, Chain, disk
  <2> QED BY <2>1, <2>2, <1>f DEF Chain, disk
<1>4. UnderWay'
  BY DEF UnderWay
<1>5. Waits'
  <2>1. ASSUME NEW i \in DOMAIN saves'
        PROVE  /\ saves'[i].by # "open" /\ saves'[i].by # "seed"
               /\ saves'[i].by \in Changes =>
                    answer'[saves'[i].by] = "saving" /\ saves'[i].by \in saves'[i].what
    <3>0. CASE saves'[i] = More
      BY <3>0, <1>m
    <3> SUFFICES ASSUME saves'[i] # More
                 PROVE  /\ saves'[i].by # "open" /\ saves'[i].by # "seed"
                        /\ saves'[i].by \in Changes =>
                             /\ answer'[saves'[i].by] = "saving"
                             /\ saves'[i].by \in saves'[i].what
      BY <3>0
    <3> DEFINE k == i + 1
    <3>1. k \in DOMAIN saves /\ k # 1 /\ saves'[i] = saves[k]
      BY <1>1
    <3> HIDE DEF k
    <3>2. proc \notin {"opening", "seeding"}
      <4>1. proc \in {"opening", "seeding"} => DOMAIN saves = {1}
        BY OneFacts DEF IInv, Started
      <4> QED BY <4>1, <3>1
    <3>3. saves[k].by \in Changes => saves[k].by # saves[1].by
      BY <3>1, <1>1 DEF IInv, Waits
    <3> QED BY <3>1, <3>2, <3>3 DEF IInv, Waits
  <2>2. ASSUME NEW i \in DOMAIN saves', NEW j \in DOMAIN saves', i # j,
               saves'[i].by \in Changes
        PROVE  saves'[j].by # saves'[i].by
    <3>1. saves'[i] # More
      BY <2>2, <1>m
    <3>2. CASE saves'[j] = More
      BY <3>2, <2>2, <1>m
    <3>3. CASE saves'[j] # More
      <4>1. /\ i + 1 \in DOMAIN saves /\ j + 1 \in DOMAIN saves /\ i + 1 # j + 1
            /\ saves'[i] = saves[i + 1] /\ saves'[j] = saves[j + 1]
        BY <1>1, <2>2, <3>1, <3>3
      <4> QED BY <4>1, <2>2 DEF IInv, Waits
    <3> QED BY <3>2, <3>3
  <2> QED BY <2>1, <2>2 DEF Waits
<1>6. Started'
  <2>1. Seed \in file
    <3>1. CASE proc \in {"opening", "seeding"}
      <4>1. saves[1].what = mem
        BY <3>1, OneFacts DEF IInv, Started, Save
      <4> QED BY <4>1, <3>1, <1>f
    <3>2. CASE proc \notin {"opening", "seeding"}
      BY <3>2, <1>f DEF IInv, Started, TypeOK, Processes
    <3> QED BY <3>1, <3>2
  <2> QED BY <2>1 DEF Started, disk
<1>7. Failed' /\ Ended'
  BY <1>f DEF Failed, Ended
<1>8. AckedOnTheWay'
  <2> SUFFICES ASSUME NEW c \in Changes, answer'[c] = "ok", c \notin file
               PROVE  \E i \in DOMAIN saves' : c \in saves'[i].what
    BY DEF AckedOnTheWay, disk
  <2>1. answer[c] = "ok"
    <3>1. ASSUME c = saves[1].by PROVE FALSE
      <4>1. saves[1].by \in saves[1].what
        BY <1>1, <3>1 DEF IInv, Waits
      <4> QED BY <4>1, <3>1, <1>f
    <3> QED BY <3>1
  <2>2. PICK i \in DOMAIN saves : c \in saves[i].what
    BY <2>1, <1>f DEF IInv, AckedOnTheWay
  <2>3. i # 1
    BY <2>2, <1>f
  <2> QED BY <2>2, <2>3, <1>1
<1>9. OrderlyKeepsAcked'
  BY DEF IInv, OrderlyKeepsAcked, bounds
<1> QED BY <1>2, <1>3, <1>4, <1>5, <1>6, <1>7, <1>8, <1>9 DEF IInv

-----------------------------------------------------------------------------
(* The steps of Next                                                       *)

LEMMA writeFileKeeps == IInv /\ writeFile => IInv'
<1> SUFFICES ASSUME IInv, writeFile PROVE IInv'
  OBVIOUS
<1> USE DEF Copying
<1>0. saves[1] = Head(saves) /\ saves[1].what \in Databases
  <2>1. saves \in Seq(Copies) /\ saves # <<>>
    BY DEF IInv, TypeOK, Copies, writeFile
  <2>2. saves[1] = Head(saves) /\ saves[1] \in Copies
    BY <2>1, TailFacts
  <2> QED BY <2>2 DEF Copies
<1>1. TypeOK'
  BY <1>0 DEF IInv, TypeOK, writeFile, bounds, Phases
<1>2. UnderWay'
  BY <1>0 DEF IInv, UnderWay, writeFile
<1>3. /\ Chain' /\ Waits' /\ Started' /\ Failed' /\ Ended'
      /\ AckedOnTheWay' /\ OrderlyKeepsAcked'
  BY DEF IInv, Chain, Waits, Started, Failed, Ended, AckedOnTheWay, OrderlyKeepsAcked,
         writeFile, bounds
<1> QED BY <1>1, <1>2, <1>3 DEF IInv

LEMMA renameKeeps == IInv /\ rename => IInv'
<1> SUFFICES ASSUME IInv, rename PROVE IInv'
  OBVIOUS
<1> USE DEF Copying
<1>0. /\ 1 \in DOMAIN saves /\ saves[1].what \in Databases
      /\ \A i \in DOMAIN saves : i \in Nat /\ 1 <= i
  <2>1. saves \in Seq(Copies) /\ saves # <<>>
    BY DEF IInv, TypeOK, Copies, rename
  <2>2. 1 \in DOMAIN saves /\ saves[1] \in Copies
    BY <2>1, TailFacts
  <2>3. \A i \in DOMAIN saves : i \in Nat /\ 1 <= i
    BY <2>1
  <2> QED BY <2>2, <2>3 DEF Copies
<1>f. file' = saves[1].what /\ file \subseteq file' /\ file' \subseteq mem
  BY <1>0 DEF IInv, UnderWay, Chain, rename
<1>1. TypeOK'
  BY <1>0, <1>f DEF IInv, TypeOK, rename, bounds, Phases, Databases
<1>2. UnderWay' /\ Failed' /\ Ended' /\ OrderlyKeepsAcked'
  BY <1>f DEF IInv, UnderWay, Failed, Ended, OrderlyKeepsAcked, rename, bounds
<1>3. Chain'
  BY <1>0, <1>f DEF IInv, Chain, rename
<1>4. Waits'
  BY DEF IInv, Waits, rename
<1>5. Started'
  <2>1. proc = "opening" => file' = mem'
    BY <1>f, OneFacts DEF IInv, Started, Save, rename
  <2> QED BY <2>1, <1>f DEF IInv, Started, rename
<1>6. AckedOnTheWay'
  BY <1>f DEF IInv, AckedOnTheWay, rename
<1> QED BY <1>1, <1>2, <1>3, <1>4, <1>5, <1>6 DEF IInv

LEMMA chmodKeeps == IInv /\ chmod => IInv'
<1> SUFFICES ASSUME IInv, chmod PROVE IInv'
  OBVIOUS
<1> USE PersistenceAssumption
<1>0. /\ Head(saves) = saves[1] /\ 1 \in DOMAIN saves /\ saves # <<>>
      /\ answer \in [Changes -> Answers]
      /\ phase = "chmod" /\ phase' = "write"
  <2>1. saves \in Seq(Copies) /\ saves # <<>>
    BY DEF IInv, TypeOK, Copies, chmod, Copying
  <2> QED BY <2>1, TailFacts DEF IInv, TypeOK, chmod
<1>1. CASE Head(saves).by = "open" /\ seedDatabase /\ UNCHANGED answer
  <2>1. CASE Seed \in mem
    BY <1>0, <1>1, <2>1, DoneKeeps DEF chmod, seedDatabase
  <2>2. CASE Seed \notin mem
    <3> DEFINE e == Save("seed", mem')
    <3>1. proc = "opening" /\ saves = <<Save("open", mem)>> /\ file = mem /\ ~broken
      BY <1>0, <1>1 DEF IInv, Waits, Started, Failed
    <3>2. /\ proc' = "seeding" /\ mem' = mem \cup {Seed} /\ saves' = <<e>>
          /\ answer' = answer
      BY <1>1, <2>2, <3>1, OneFacts DEF seedDatabase
    <3>3. e \in Copies /\ e.by = "seed" /\ e.what = mem'
      BY <3>2 DEF IInv, TypeOK, Save, Copies, Savers, Databases
    <3>4. saves' \in Seq(Copies) /\ DOMAIN saves' = {1} /\ saves'[1] = e
          /\ saves' # <<>>
      BY <3>2, <3>3, OneFacts
    <3> HIDE DEF e
    <3>5. TypeOK'
      BY <3>2, <3>4, <1>0
         DEF IInv, TypeOK, Copies, Databases, Processes, Phases, chmod, disk, bounds
    <3>6. Chain' /\ UnderWay' /\ Waits'
      BY <1>0, <3>1, <3>2, <3>3, <3>4 DEF Chain, UnderWay, Waits, chmod, disk
    <3>7. Started'
      BY <3>2 DEF Started, e
    <3>8. AckedOnTheWay'
      <4>1. \A c \in Changes : answer[c] = "ok" => c \in file
        <5> SUFFICES ASSUME NEW c \in Changes, answer[c] = "ok" PROVE c \in mem
          BY <3>1
        <5>1. c \in file \/ \E i \in DOMAIN saves : c \in saves[i].what
          BY <3>1 DEF IInv, AckedOnTheWay
        <5> QED BY <5>1, <3>1 DEF IInv, Chain
      <4> QED BY <4>1, <3>2 DEF AckedOnTheWay, chmod, disk
    <3>9. Failed' /\ Ended' /\ OrderlyKeepsAcked'
      BY <3>1, <3>2 DEF IInv, Failed, Ended, OrderlyKeepsAcked, chmod, bounds
    <3> QED BY <3>5, <3>6, <3>7, <3>8, <3>9 DEF IInv
  <2> QED BY <2>1, <2>2
<1>2. CASE /\ Head(saves).by = "seed" /\ proc' = "up"
           /\ saves' = Tail(saves) /\ UNCHANGED <<mem, answer>>
  <2>1. proc = "seeding" /\ Seed \in mem
    BY <1>0, <1>2 DEF IInv, Waits, Started
  <2> QED BY <1>0, <1>2, <2>1, DoneKeeps DEF chmod
<1> DEFINE Running == proc \notin {"down", "opening", "seeding"}
<1>r. saves[1].by \notin {"open", "seed"} =>
        proc \in {"up", "closing", "closed", "stuck"}
  <2>1. proc # "down"
    BY <1>0 DEF IInv, Started
  <2>2. proc = "opening" => saves[1].by = "open"
    BY OneFacts DEF IInv, Started, Save
  <2>3. proc = "seeding" => saves[1].by = "seed"
    BY OneFacts DEF IInv, Started, Save
  <2> QED BY <2>1, <2>2, <2>3 DEF IInv, TypeOK, Processes
<1>3. CASE /\ Head(saves).by = "close" /\ proc' = "closed"
           /\ saves' = Tail(saves) /\ UNCHANGED <<mem, answer>>
  BY <1>0, <1>3, <1>r, DoneKeeps DEF chmod
<1>4. CASE /\ Head(saves).by \in {"reaper", "nobody"}
           /\ saves' = Tail(saves) /\ UNCHANGED <<proc, mem, answer>>
  BY <1>0, <1>4, <1>r, DoneKeeps DEF chmod
<1>5. ASSUME NEW c \in Changes, Head(saves).by = c, Answer(c, "ok"),
             saves' = IF proc = "closed" THEN Tail(saves)
                      ELSE Append(Tail(saves), Save("nobody", mem)),
             UNCHANGED <<proc, mem>>
      PROVE  IInv'
  <2>1. answer' = [answer EXCEPT ![c] = "ok"]
    BY <1>5 DEF Answer
  <2>2. answer' \in [Changes -> Answers]
    BY <2>1, <1>0 DEF Answers
  <2>3. proc \in {"up", "closing", "closed", "stuck"}
    BY <1>0, <1>5, <1>r
  <2> QED BY <1>0, <1>5, <2>1, <2>2, <2>3, DoneKeeps DEF chmod
<1> QED BY <1>1, <1>2, <1>3, <1>4, <1>5 DEF chmod

LEMMA saveFailsKeeps == IInv /\ saveFails => IInv'
<1> SUFFICES ASSUME IInv, saveFails PROVE IInv'
  OBVIOUS
<1> DEFINE waits(who) == \E i \in DOMAIN saves : saves[i].by = who
<1>0. /\ tmp' \in Databases \cup {Torn} /\ failures' \in 0 .. MaxFailures
      /\ failures' > 0 /\ failures' >= failures
      /\ file' = file /\ deaths' = deaths /\ deaths \in 0 .. MaxDeaths
  BY PersistenceAssumption DEF IInv, TypeOK, saveFails
<1>1. CASE waits("open") \/ waits("seed") \/ waits("reaper")
  BY <1>0, <1>1, EndsKeeps DEF saveFails
<1>2. CASE ~(waits("open") \/ waits("seed") \/ waits("reaper"))
  <2>1. /\ broken' = TRUE /\ saves' = <<>> /\ phase' = "write" /\ mem' = mem
        /\ proc' = IF waits("close") THEN "stuck" ELSE proc
        /\ answer' = [c \in Changes |->
             IF answer[c] = "saving" THEN "error" ELSE answer[c]]
    BY <1>2 DEF saveFails
  <2>2. proc \in {"up", "closing", "closed", "stuck"}
    <3>1. proc # "down"
      BY DEF IInv, Started, saveFails, Copying
    <3>2. proc # "opening" /\ proc # "seeding"
      BY <1>2, OneFacts DEF IInv, Started, Save
    <3> QED BY <3>1, <3>2 DEF IInv, TypeOK, Processes
  <2>3. TypeOK'
    BY <1>0, <2>1, NoneFacts DEF IInv, TypeOK, Processes, Phases, Answers
  <2>4. Chain' /\ UnderWay' /\ Waits' /\ Ended'
    BY <1>0, <2>1, <2>2 DEF IInv, Chain, UnderWay, Waits, Ended
  <2>5. Started' /\ Failed' /\ AckedOnTheWay' /\ OrderlyKeepsAcked'
    BY <1>0, <2>1, <2>2 DEF IInv, Started, Failed, AckedOnTheWay, OrderlyKeepsAcked
  <2> QED BY <2>3, <2>4, <2>5 DEF IInv
<1> QED BY <1>1, <1>2

LEMMA openKeeps == IInv /\ open => IInv'
<1> SUFFICES ASSUME IInv, open PROVE IInv'
  OBVIOUS
<1> USE PersistenceAssumption
<1> DEFINE e == Save("open", file)
<1>1. /\ proc = "down" /\ proc' = "opening" /\ mem' = file /\ saves' = <<e>>
      /\ UNCHANGED <<phase, broken, file, tmp, answer, deaths, failures>>
  BY DEF open, disk, bounds
<1>2. e \in Copies /\ e.by = "open" /\ e.what = file /\ file \in Databases
  BY DEF IInv, TypeOK, Save, Copies, Savers, Databases
<1>3. /\ saves' \in Seq(Copies) /\ DOMAIN saves' = {1} /\ saves'[1] = e
      /\ saves' # <<>> /\ saves = <<>> /\ ~broken
  BY <1>1, <1>2, OneFacts DEF IInv, Started
<1>4. Started'
  BY <1>1 DEF Started
<1> HIDE DEF e
<1>5. TypeOK'
  BY <1>1, <1>2, <1>3 DEF IInv, TypeOK, Copies, Processes
<1>6. Chain' /\ UnderWay' /\ Waits' /\ Ended'
  BY <1>1, <1>2, <1>3 DEF IInv, Chain, UnderWay, Waits, Ended
<1>7. AckedOnTheWay'
  <2>1. \A c \in Changes : c \in file => \E i \in DOMAIN saves' : c \in saves'[i].what
    BY <1>2, <1>3
  <2>2. \A c \in Changes : answer[c] = "ok" => c \in file
    BY <1>1 DEF IInv, Ended
  <2> QED BY <1>1, <2>2 DEF AckedOnTheWay
<1>8. Failed' /\ OrderlyKeepsAcked'
  BY <1>1, <1>3 DEF IInv, Failed, OrderlyKeepsAcked
<1> QED BY <1>4, <1>5, <1>6, <1>7, <1>8 DEF IInv

LEMMA closeKeeps == IInv /\ close => IInv'
<1> SUFFICES ASSUME IInv, close PROVE IInv'
  OBVIOUS
<1> USE PersistenceAssumption
<1>1. CASE broken
  <2>1. /\ proc = "up" /\ proc' = "stuck" /\ saves' = <<>> /\ saves = <<>>
        /\ UNCHANGED <<mem, phase, broken, file, tmp, answer, deaths, failures>>
    BY <1>1 DEF IInv, Failed, close, save, disk, bounds
  <2>2. TypeOK'
    BY <2>1 DEF IInv, TypeOK, Processes
  <2>3. Chain' /\ UnderWay' /\ Waits' /\ Started' /\ Failed' /\ Ended'
    BY <2>1 DEF IInv, Chain, UnderWay, Waits, Started, Failed, Ended
  <2>4. AckedOnTheWay' /\ OrderlyKeepsAcked'
    BY <1>1, <2>1 DEF IInv, AckedOnTheWay, OrderlyKeepsAcked
  <2> QED BY <2>2, <2>3, <2>4 DEF IInv
<1>2. CASE ~broken
  <2>1. /\ Serving /\ mem' = mem /\ proc' \in {"up", "closing", "stuck"}
        /\ saves' = Append(saves, Save("close", mem))
        /\ "close" \in Savers \ {"open", "seed"} /\ "close" \notin Changes
        /\ mem \in Databases
        /\ answer' = answer /\ answer \in [Changes -> Answers]
    BY <1>2 DEF IInv, TypeOK, close, save, Serving, Savers
  <2>2. UNCHANGED <<phase, broken, disk, bounds>>
    BY DEF close
  <2> QED BY <1>2, <2>1, <2>2, SaveKeeps
<1> QED BY <1>1, <1>2

LEMMA exitKeeps == IInv /\ exit => IInv'
<1> SUFFICES ASSUME IInv, exit PROVE IInv'
  OBVIOUS
<1>1. /\ file' = file /\ tmp' \in Databases \cup {Torn} /\ Ends
      /\ deaths' = deaths /\ failures' = failures
      /\ deaths \in 0 .. MaxDeaths /\ failures \in 0 .. MaxFailures
  BY DEF IInv, TypeOK, exit, disk, bounds
<1>2. failures > 0 \/ \A c \in Changes : answer[c] = "ok" => c \in file
  <2>1. CASE broken
    BY <2>1 DEF IInv, Failed
  <2>2. CASE ~broken
    <3>1. DOMAIN saves = {} /\ proc # "down"
      BY NoneFacts DEF exit, Copying
    <3> QED BY <2>2, <3>1 DEF IInv, AckedOnTheWay
  <2> QED BY <2>1, <2>2
<1> QED BY <1>1, <1>2, PersistenceAssumption, EndsKeeps

LEMMA DiesKeeps == IInv /\ Dies => IInv'
<1> SUFFICES ASSUME IInv, Dies PROVE IInv'
  OBVIOUS
<1>1. /\ file' = file /\ tmp' \in Databases \cup {Torn} /\ Ends
      /\ deaths' > 0 /\ deaths' >= deaths /\ failures' = failures
      /\ deaths' \in 0 .. MaxDeaths /\ failures \in 0 .. MaxFailures
  BY PersistenceAssumption DEF IInv, TypeOK, Dies
<1> QED BY <1>1, PersistenceAssumption, EndsKeeps

LEMMA transactionSyncKeeps ==
    ASSUME NEW c \in Changes, IInv, transactionSync(c)
    PROVE  IInv'
<1> USE PersistenceAssumption
<1>1. /\ Serving /\ answer[c] = "none" /\ mem' = mem \cup {c} /\ proc' = proc
      /\ answer' = [answer EXCEPT ![c] = "ok"] /\ answer \in [Changes -> Answers]
      /\ mem \cup {c} \in Databases
      /\ UNCHANGED <<phase, broken, disk, bounds>>
  BY DEF IInv, TypeOK, transactionSync, Fresh, Answer, Databases
<1>2. answer' \in [Changes -> Answers]
  BY <1>1 DEF Answers
<1>3. CASE broken
  <2>1. saves' = <<>> /\ saves = <<>>
    BY <1>3 DEF IInv, Failed, transactionSync, save
  <2>2. TypeOK'
    BY <1>1, <1>2, <2>1 DEF IInv, TypeOK, disk, bounds
  <2>3. Chain' /\ UnderWay' /\ Waits' /\ Started' /\ Failed' /\ Ended'
    BY <1>1, <2>1, <1>3 DEF IInv, Chain, UnderWay, Waits, Started, Failed, Ended,
                       Serving, disk, bounds
  <2>4. AckedOnTheWay' /\ OrderlyKeepsAcked'
    BY <1>1, <1>3 DEF IInv, AckedOnTheWay, OrderlyKeepsAcked, bounds
  <2> QED BY <2>2, <2>3, <2>4 DEF IInv
<1>4. CASE ~broken
  <2>1. saves' = Append(saves, Save("nobody", mem \cup {c}))
    BY <1>1, <1>4 DEF transactionSync, save
  <2>2. "nobody" \in Savers \ {"open", "seed"} /\ "nobody" \notin Changes
    BY DEF Savers
  <2>3. proc' \in {"up", "closing", "stuck"}
    BY <1>1 DEF Serving
  <2> QED BY <1>1, <1>2, <1>4, <2>1, <2>2, <2>3, SaveKeeps
<1> QED BY <1>3, <1>4

LEMMA transactionKeeps ==
    ASSUME NEW c \in Changes, IInv, transaction(c)
    PROVE  IInv'
<1> USE PersistenceAssumption
<1>1. /\ Serving /\ answer[c] = "none" /\ mem' = mem \cup {c} /\ proc' = proc
      /\ answer' = [answer EXCEPT ![c] = IF broken THEN "error" ELSE "saving"]
      /\ answer \in [Changes -> Answers]
      /\ mem \cup {c} \in Databases
      /\ UNCHANGED <<phase, broken, disk, bounds>>
  BY DEF IInv, TypeOK, transaction, Fresh, Answer, Databases
<1>2. answer' \in [Changes -> Answers]
  BY <1>1 DEF Answers
<1>3. CASE broken
  <2>1. saves' = <<>> /\ saves = <<>>
    BY <1>3 DEF IInv, Failed, transaction, save
  <2>2. TypeOK'
    BY <1>1, <1>2, <2>1 DEF IInv, TypeOK, disk, bounds
  <2>3. Chain' /\ UnderWay' /\ Waits' /\ Started' /\ Failed' /\ Ended'
    BY <1>1, <2>1, <1>3 DEF IInv, Chain, UnderWay, Waits, Started, Failed, Ended,
                       Serving, disk, bounds
  <2>4. AckedOnTheWay' /\ OrderlyKeepsAcked'
    BY <1>1, <1>3 DEF IInv, AckedOnTheWay, OrderlyKeepsAcked, bounds
  <2> QED BY <2>2, <2>3, <2>4 DEF IInv
<1>4. CASE ~broken
  <2>1. saves' = Append(saves, Save(c, mem \cup {c}))
    BY <1>1, <1>4 DEF transaction, save
  <2>2. c \in Savers \ {"open", "seed"}
    BY DEF Savers
  <2>3. proc' \in {"up", "closing", "stuck"} /\ answer'[c] = "saving"
    BY <1>1, <1>4 DEF Serving
  <2>4. \A d \in Changes : d # c => answer'[d] = answer[d]
    BY <1>1
  <2> QED BY <1>1, <1>2, <1>4, <2>1, <2>2, <2>3, <2>4, SaveKeeps
<1> QED BY <1>3, <1>4

\* Nothing but memory and the answer to c changes.
LEMMA NoSaveKeeps ==
    ASSUME NEW c \in Changes, NEW a \in {"error", "made"}, IInv, proc # "down",
           proc \notin {"opening", "seeding"},
           answer[c] = "none", Answer(c, a), mem' \in {mem, mem \cup {c}},
           UNCHANGED <<proc, saves, phase, broken, disk, bounds>>
    PROVE  IInv'
<1>1. /\ answer' = [answer EXCEPT ![c] = a] /\ answer \in [Changes -> Answers]
      /\ a \in Answers
  BY DEF IInv, TypeOK, Answer, Answers
<1>2. TypeOK'
  BY <1>1 DEF IInv, TypeOK, Databases, disk, bounds
<1>3. Chain' /\ UnderWay' /\ Started' /\ Failed' /\ Ended'
  BY DEF IInv, Chain, UnderWay, Started, Failed, Ended, disk, bounds
<1>4. Waits'
  BY <1>1 DEF IInv, Waits
<1>5. AckedOnTheWay' /\ OrderlyKeepsAcked'
  BY <1>1 DEF IInv, AckedOnTheWay, OrderlyKeepsAcked, disk, bounds
<1> QED BY <1>2, <1>3, <1>4, <1>5 DEF IInv

LEMMA RefusedKeeps ==
    ASSUME NEW c \in Changes, IInv, Refused(c)
    PROVE  IInv'
BY NoSaveKeeps DEF Refused, Serving

LEMMA getAccountSessionBlobKeeps ==
    ASSUME NEW c \in Changes, IInv, getAccountSessionBlob(c)
    PROVE  IInv'
BY NoSaveKeeps DEF getAccountSessionBlob, Fresh, Serving

LEMMA reapStaleSessionsKeeps ==
    ASSUME NEW c \in Changes, IInv, reapStaleSessions(c)
    PROVE  IInv'
<1> USE PersistenceAssumption
<1>0. Serving /\ answer[c] = "none" /\ UNCHANGED <<disk, bounds>>
  BY DEF reapStaleSessions, Fresh
<1>1. CASE broken
  <2>1. failures > 0
    BY <1>1 DEF IInv, Failed
  <2>2. /\ file' = file /\ tmp' \in Databases \cup {Torn} /\ Ends
        /\ deaths' = deaths /\ failures' = failures
        /\ deaths \in 0 .. MaxDeaths /\ failures \in 0 .. MaxFailures
    BY <1>0, <1>1 DEF IInv, TypeOK, reapStaleSessions, disk, bounds
  <2> QED BY <2>1, <2>2, EndsKeeps
<1>2. CASE ~broken
  <2>1. /\ mem' = mem \cup {c} /\ answer' = [answer EXCEPT ![c] = "made"]
        /\ saves' = Append(saves, Save("reaper", mem \cup {c}))
        /\ answer \in [Changes -> Answers] /\ mem \cup {c} \in Databases
        /\ UNCHANGED <<proc, phase, broken>>
    BY <1>2 DEF IInv, TypeOK, reapStaleSessions, Answer, save, Databases
  <2>2. answer' \in [Changes -> Answers]
    BY <2>1 DEF Answers
  <2>3. "reaper" \in Savers \ {"open", "seed"} /\ "reaper" \notin Changes
    BY DEF Savers
  <2>4. proc' \in {"up", "closing", "stuck"}
    BY <1>0, <2>1 DEF Serving
  <2> QED BY <1>0, <1>2, <2>1, <2>2, <2>3, <2>4, SaveKeeps
<1> QED BY <1>1, <1>2

LEMMA SavedForNothingKeeps == IInv /\ SavedForNothing => IInv'
<1> SUFFICES ASSUME IInv, SavedForNothing PROVE IInv'
  OBVIOUS
<1>1. /\ Serving /\ ~broken /\ mem' = mem /\ answer' = answer
      /\ proc' \in {"up", "closing", "stuck"}
      /\ saves' = Append(saves, Save("nobody", mem))
      /\ "nobody" \in Savers \ {"open", "seed"} /\ "nobody" \notin Changes
      /\ mem \in Databases /\ answer \in [Changes -> Answers]
      /\ UNCHANGED <<phase, broken, disk, bounds>>
  BY PersistenceAssumption
     DEF IInv, TypeOK, SavedForNothing, save, Savers, Serving
<1> QED BY <1>1, SaveKeeps

-----------------------------------------------------------------------------
(* Theorems                                                                *)

LEMMA InitEstablishes == Init => IInv
<1> SUFFICES ASSUME Init PROVE IInv
  OBVIOUS
<1>1. TypeOK
  <2>1. <<>> \in Seq([by : Savers, what : Databases])
    OBVIOUS
  <2>2. saves \in Seq([by : Savers, what : Databases])
    BY <2>1 DEF Init
  <2>3. answer \in [Changes -> Answers] /\ deaths \in 0 .. MaxDeaths
          /\ failures \in 0 .. MaxFailures
    BY PersistenceAssumption DEF Init, Answers
  <2>4. /\ proc \in Processes /\ mem \in Databases /\ phase \in Phases
        /\ broken \in BOOLEAN /\ file \in Databases /\ tmp \in Databases \cup {Torn}
    BY DEF Init, Processes, Phases, Databases
  <2> QED BY <2>2, <2>3, <2>4 DEF TypeOK
<1>2. Chain /\ UnderWay /\ Waits /\ Started /\ Failed /\ Ended
  BY NoneFacts DEF Init, Chain, UnderWay, Waits, Started, Failed, Ended
<1>3. AckedOnTheWay /\ OrderlyKeepsAcked
  BY DEF Init, AckedOnTheWay, OrderlyKeepsAcked
<1> QED BY <1>1, <1>2, <1>3 DEF IInv

LEMMA NextKeeps == IInv /\ [Next]_vars => IInv'
<1> SUFFICES ASSUME IInv, [Next]_vars PROVE IInv'
  OBVIOUS
<1>1. CASE UNCHANGED vars
  <2>1. TypeOK'
    BY <1>1 DEF vars, IInv, TypeOK
  <2>2. Chain' /\ UnderWay' /\ Waits'
    BY <1>1 DEF vars, IInv, Chain, UnderWay, Waits
  <2>3. Started' /\ Failed' /\ Ended' /\ AckedOnTheWay' /\ OrderlyKeepsAcked'
    BY <1>1 DEF vars, IInv, Started, Failed, Ended, AckedOnTheWay, OrderlyKeepsAcked
  <2> QED BY <2>1, <2>2, <2>3 DEF IInv
<1>2. CASE open
  BY <1>2, openKeeps
<1>3. CASE close
  BY <1>3, closeKeeps
<1>4. CASE exit
  BY <1>4, exitKeeps
<1>5. CASE Dies
  BY <1>5, DiesKeeps
<1>6. CASE saveStep
  BY <1>6, writeFileKeeps, renameKeeps, chmodKeeps DEF saveStep
<1>7. CASE saveFails
  BY <1>7, saveFailsKeeps
<1>8. CASE routeRequest
  BY <1>8, SavedForNothingKeeps, transactionSyncKeeps, transactionKeeps, RefusedKeeps,
     getAccountSessionBlobKeeps, reapStaleSessionsKeeps DEF routeRequest
<1> QED BY <1>1, <1>2, <1>3, <1>4, <1>5, <1>6, <1>7, <1>8 DEF Next

LEMMA InvariantHolds == Spec => []IInv
BY InitEstablishes, NextKeeps, PTL DEF Spec

\* Every variable keeps its type, whatever fails and whenever the process dies.
THEOREM TypeCorrect == Spec => []TypeOK
<1>1. IInv => TypeOK
  BY DEF IInv
<1> QED BY <1>1, InvariantHolds, PTL

\* What server.ts has answered with ok and then saves is in the file or on its
\* way there for as long as the process lives and its disk works.
THEOREM AckedChangesSaved == Spec => []AckedOnTheWay
<1>1. IInv => AckedOnTheWay
  BY DEF IInv
<1> QED BY <1>1, InvariantHolds, PTL

\* Shutting down on a signal, with requests still arriving, forgets nothing that
\* was answered with ok.
THEOREM ShutdownForgetsNothing == Spec => []OrderlyKeepsAcked
<1>1. IInv => OrderlyKeepsAcked
  BY DEF IInv
<1> QED BY <1>1, InvariantHolds, PTL

\* createApp() listens when the first users are in the file.
THEOREM SeededBeforeServing == Spec => []ServesSeeded
<1>1. IInv => ServesSeeded
  BY DEF IInv, Started, ServesSeeded, Serving
<1> QED BY <1>1, InvariantHolds, PTL

\* The renames of save() never put an older copy over a newer file.
THEOREM FileOnlyGrows == Spec => FileNeverBack
<1>1. IInv /\ [Next]_vars => [file \subseteq file']_vars
  <2> SUFFICES ASSUME IInv, Next PROVE file \subseteq file'
    BY DEF vars
  <2>1. CASE rename
    <3>1. saves \in Seq(Copies) /\ saves # <<>>
      BY <2>1 DEF IInv, TypeOK, Copies, rename, Copying
    <3>2. 1 \in DOMAIN saves
      BY <3>1, TailFacts
    <3> QED BY <2>1, <3>1, <3>2 DEF IInv, Chain, UnderWay, rename
  <2>2. CASE open \/ close \/ exit \/ Dies
    BY <2>2 DEF open, close, exit, Dies, disk
  <2>3. CASE writeFile \/ chmod \/ saveFails
    BY <2>3 DEF writeFile, chmod, saveFails, disk
  <2>4. CASE routeRequest
    BY <2>4 DEF routeRequest, SavedForNothing, transactionSync, transaction, Refused,
                getAccountSessionBlob, reapStaleSessions, disk
  <2> QED BY <2>1, <2>2, <2>3, <2>4 DEF Next, saveStep
<1> QED BY <1>1, InvariantHolds, PTL DEF Spec, FileNeverBack

\* The answer of a lease operation follows the file that has its change.
THEOREM LeaseAnswersDurable == Spec => LeaseAnswersFromFile
<1> DEFINE Durable == \A c \in Changes :
                         answer[c] = "saving" /\ answer'[c] = "ok" => c \in file
<1>1. IInv /\ [Next]_vars => [Durable]_vars
  <2> SUFFICES ASSUME IInv, Next, NEW c \in Changes,
                      answer[c] = "saving", answer'[c] = "ok"
               PROVE  c \in file
    BY DEF vars
  <2>0. answer \in [Changes -> Answers]
    BY DEF IInv, TypeOK
  <2>1. CASE chmod
    <3>1. saves \in Seq(Copies) /\ saves # <<>>
      BY <2>1 DEF IInv, TypeOK, Copies, chmod, Copying
    <3>2. 1 \in DOMAIN saves /\ Head(saves) = saves[1]
      BY <3>1, TailFacts
    <3>3. PICK d \in Changes : Head(saves).by = d /\ Answer(d, "ok")
      <4>1. answer' # answer
        BY <2>0
      <4> QED BY <2>1, <4>1 DEF chmod
    <3>4. d = c
      BY <3>3, <2>0 DEF Answer
    <3>5. c \in saves[1].what
      BY <3>2, <3>3, <3>4 DEF IInv, Waits
    <3> QED BY <3>1, <3>5, <2>1 DEF IInv, UnderWay, chmod
  <2>2. CASE open \/ close \/ writeFile \/ rename \/ SavedForNothing
    BY <2>2 DEF open, close, writeFile, rename, SavedForNothing
  <2>3. CASE exit \/ Dies \/ saveFails
    BY <2>3 DEF exit, Dies, saveFails, Ends
  <2>4. ASSUME NEW d \in Changes,
               \/ transactionSync(d) \/ transaction(d) \/ Refused(d)
               \/ getAccountSessionBlob(d)
        PROVE  FALSE
    <3>1. answer[d] = "none" /\ \E a \in Answers : Answer(d, a)
      BY <2>4 DEF transactionSync, transaction, Refused, getAccountSessionBlob, Fresh,
                  Answers
    <3> QED BY <3>1, <2>0 DEF Answer
  <2>5. ASSUME NEW d \in Changes, reapStaleSessions(d)
        PROVE  FALSE
    <3>1. answer[d] = "none" /\ (Ends \/ Answer(d, "made"))
      BY <2>5 DEF reapStaleSessions, Fresh
    <3> QED BY <3>1, <2>0 DEF Answer, Ends
  <2> QED BY <2>1, <2>2, <2>3, <2>4, <2>5 DEF Next, saveStep, routeRequest
<1> QED BY <1>1, InvariantHolds, PTL DEF Spec, LeaseAnswersFromFile
-----------------------------------------------------------------------------
(* The promise of DurableStore: each step is one of its steps.             *)

Moments(q) == {q[i].what : i \in DOMAIN q}

\* Memory is as it was or has one change more, and the copies are those there
\* were, without some, and one of memory.
LEMMA GrowsOrCopies ==
    ASSUME proc # "down", proc' # "down", UNCHANGED file,
           mem' = mem \/ \E c \in Changes \cup {Seed} : mem' = mem \cup {c},
           Moments(saves') \subseteq Moments(saves) \cup {mem'}
    PROVE  Store!Next
BY DEF Store!Next, Store!Change, Store!Copy, Store!Copied, Moments

\* Without copies nothing can become the file, and nothing does.
LEMMA EndsLoses ==
    ASSUME Ends, UNCHANGED file
    PROVE  Store!Next
<1>1. Moments(saves') = {}
  BY DEF Ends, Moments
<1> QED BY <1>1 DEF Ends, Moments, Store!Next, Store!Lose

LEMMA MomentsOfNone == Moments(<<>>) = {}
BY DEF Moments

LEMMA MomentsAppended ==
    ASSUME NEW q \in Seq(Copies), NEW who \in Savers, NEW what \in Databases
    PROVE  Moments(Append(q, Save(who, what))) = Moments(q) \cup {what}
<1> DEFINE e == Save(who, what)
<1>1. e \in Copies /\ e.what = what
  BY DEF Copies, Save
<1>2. /\ DOMAIN Append(q, e) = DOMAIN q \cup {Len(q) + 1}
      /\ \A i \in DOMAIN q : Append(q, e)[i] = q[i]
      /\ Append(q, e)[Len(q) + 1] = e
  BY <1>1, AppendFacts
<1> HIDE DEF e
<1>3. Moments(Append(q, e)) = Moments(q) \cup {e.what}
  BY <1>2 DEF Moments
<1> QED BY <1>1, <1>3 DEF e

LEMMA MomentsOfTail ==
    ASSUME NEW q \in Seq(Copies), q # <<>>
    PROVE  Tail(q) \in Seq(Copies) /\ Moments(Tail(q)) \subseteq Moments(q)
BY TailFacts DEF Moments

\* save() adds the present moment to the copies, or gives all up.
LEMMA SaveCopies ==
    ASSUME IInv, NEW who \in Savers, NEW what \in Databases, save(who, what)
    PROVE  Moments(saves') \subseteq Moments(saves) \cup {what}
<1>1. saves \in Seq(Copies)
  BY DEF IInv, TypeOK, Copies
<1> QED BY <1>1, MomentsOfNone, MomentsAppended DEF save

LEMMA openStores == ASSUME IInv, open PROVE Store!Next
<1>1. file \in Databases /\ "open" \in Savers
  BY DEF IInv, TypeOK, Savers
<1>2. Save("open", file) \in Copies /\ Save("open", file).what = file
  BY <1>1 DEF Save, Copies
<1>3. Moments(saves') = {file}
  BY <1>2, OneFacts DEF open, Moments
<1>4. /\ proc = "down" /\ proc' # "down" /\ mem' = file /\ file' = file
  BY DEF open, disk
<1> QED BY <1>3, <1>4 DEF Moments, Store!Next, Store!Copy, Store!Copied

LEMMA renameStores == ASSUME IInv, rename PROVE Store!Next
<1>1. saves \in Seq(Copies) /\ saves # <<>>
  BY DEF IInv, TypeOK, Copies, rename, Copying
<1>2. 1 \in DOMAIN saves
  BY <1>1, TailFacts
<1>3. file' = saves[1].what /\ file \subseteq file'
  BY <1>1, <1>2 DEF IInv, Chain, UnderWay, rename
<1>4. proc # "down" /\ UNCHANGED <<proc, mem, saves>>
  BY <1>1 DEF IInv, Started, rename
<1> QED BY <1>2, <1>3, <1>4 DEF Store!Next, Store!Write

LEMMA chmodStores == ASSUME IInv, chmod PROVE Store!Next
<1>1. saves \in Seq(Copies) /\ saves # <<>> /\ mem \in Databases
  BY DEF IInv, TypeOK, Copies, chmod, Copying
<1>2. proc # "down" /\ file' = file
  BY <1>1 DEF IInv, Started, chmod, disk
<1>3. Tail(saves) \in Seq(Copies) /\ Moments(Tail(saves)) \subseteq Moments(saves)
  BY <1>1, MomentsOfTail
<1>4. CASE proc' # "down" /\ mem' = mem /\ saves' = Tail(saves)
  BY <1>2, <1>3, <1>4, GrowsOrCopies
<1>5. CASE proc' # "down" /\ mem' = mem /\ saves' = Append(Tail(saves), Save("nobody", mem))
  <2>1. Moments(saves') = Moments(Tail(saves)) \cup {mem}
    BY <1>1, <1>3, <1>5, MomentsAppended DEF Savers
  <2> QED BY <1>2, <1>3, <1>5, <2>1, GrowsOrCopies
<1>6. CASE /\ proc' # "down" /\ mem' = mem \cup {Seed}
           /\ saves' = Append(Tail(saves), Save("seed", mem'))
  <2>1. mem' \in Databases
    BY <1>1, <1>6 DEF Databases
  <2>2. Moments(saves') = Moments(Tail(saves)) \cup {mem'}
    BY <1>3, <1>6, <2>1, MomentsAppended DEF Savers
  <2> QED BY <1>2, <1>3, <1>6, <2>2, GrowsOrCopies
<1> QED BY <1>2, <1>4, <1>5, <1>6 DEF chmod, seedDatabase

LEMMA saveFailsStores == ASSUME IInv, saveFails PROVE Store!Next
<1>1. file' = file
  BY DEF saveFails
<1>2. CASE Ends
  BY <1>1, <1>2, EndsLoses
<1>3. CASE /\ saves' = <<>> /\ mem' = mem /\ proc' \in {"stuck", proc}
  <2>1. proc # "down"
    BY DEF IInv, Started, saveFails, Copying
  <2> QED BY <1>1, <1>3, <2>1, MomentsOfNone, GrowsOrCopies
<1> QED BY <1>2, <1>3 DEF saveFails

LEMMA closeStores == ASSUME IInv, close PROVE Store!Next
<1>1. mem \in Databases /\ "close" \in Savers
  BY DEF IInv, TypeOK, Savers
<1>2. Moments(saves') \subseteq Moments(saves) \cup {mem}
  BY <1>1, SaveCopies DEF close
<1> QED BY <1>2, GrowsOrCopies DEF close, disk

LEMMA routeRequestStores ==
    ASSUME IInv, routeRequest
    PROVE  Store!Next \/ UNCHANGED <<proc, mem, saves, file>>
<1>1. mem \in Databases /\ {"nobody", "reaper"} \subseteq Savers /\ Changes \subseteq Savers
  BY DEF IInv, TypeOK, Savers
<1>2. \A c \in Changes : mem \cup {c} \in Databases
  BY <1>1 DEF Databases
<1>3. CASE SavedForNothing
  <2>1. Moments(saves') \subseteq Moments(saves) \cup {mem}
    BY <1>1, <1>3, SaveCopies DEF SavedForNothing
  <2> QED BY <1>3, <2>1, GrowsOrCopies DEF SavedForNothing, Serving, disk
<1>4. ASSUME NEW c \in Changes, NEW who \in Savers, Fresh(c),
             mem' = mem \cup {c}, save(who, mem'), UNCHANGED <<proc, file>>
      PROVE  Store!Next
  <2>1. Moments(saves') \subseteq Moments(saves) \cup {mem'}
    BY <1>2, <1>4, SaveCopies
  <2> QED BY <1>4, <2>1, GrowsOrCopies DEF Fresh, Serving
<1>5. ASSUME NEW c \in Changes, transactionSync(c) \/ transaction(c) PROVE Store!Next
  BY <1>1, <1>4, <1>5 DEF transactionSync, transaction, disk
<1>6. ASSUME NEW c \in Changes, Refused(c) PROVE UNCHANGED <<proc, mem, saves, file>>
  BY <1>6 DEF Refused, disk
<1>7. ASSUME NEW c \in Changes, getAccountSessionBlob(c) PROVE Store!Next
  BY <1>7, GrowsOrCopies DEF getAccountSessionBlob, Fresh, Serving, disk
<1>8. ASSUME NEW c \in Changes, reapStaleSessions(c) PROVE Store!Next
  <2>1. CASE broken
    BY <1>8, <2>1, EndsLoses DEF reapStaleSessions, disk
  <2>2. CASE ~broken
    BY <1>1, <1>4, <1>8, <2>2 DEF reapStaleSessions, disk
  <2> QED BY <2>1, <2>2 DEF IInv, TypeOK
<1> QED BY <1>3, <1>5, <1>6, <1>7, <1>8 DEF routeRequest

\* Through every order of requests, saves, failures, deaths and restarts the file
\* is the database of one moment, and a crash takes back what came after it.
THEOREM Refinement == Spec => CrashKeepsPrefix
<1>1. Init => Store!Init
  BY MomentsOfNone DEF Init, Store!Init, Moments
<1>2. IInv /\ [Next]_vars
        => [Store!Next]_<<IF proc = "down" THEN file ELSE mem,
                          {saves[i].what : i \in DOMAIN saves}, file>>
  <2> SUFFICES ASSUME IInv, [Next]_vars
               PROVE  Store!Next \/ UNCHANGED <<proc, mem, saves, file>>
    OBVIOUS
  <2>1. CASE UNCHANGED vars
    BY <2>1 DEF vars, disk
  <2>2. CASE open \/ close
    BY <2>2, openStores, closeStores
  <2>3. CASE exit \/ Dies
    BY <2>3, EndsLoses DEF exit, Dies, disk
  <2>4. CASE saveStep
    <3>1. writeFile => UNCHANGED <<proc, mem, saves, file>>
      BY DEF writeFile
    <3> QED BY <2>4, <3>1, renameStores, chmodStores DEF saveStep
  <2>5. CASE saveFails \/ routeRequest
    BY <2>5, saveFailsStores, routeRequestStores
  <2> QED BY <2>1, <2>2, <2>3, <2>4, <2>5 DEF Next
<1> QED BY <1>1, <1>2, InvariantHolds, PTL DEF Spec, CrashKeepsPrefix, Store!Spec
=============================================================================
