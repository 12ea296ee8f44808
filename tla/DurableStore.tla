---------------------------- MODULE DurableStore ----------------------------
(***************************************************************************)
(* What a database that is kept in memory and copied to a file promises:   *)
(* the file is always memory as it was at some moment, never an earlier    *)
(* moment than before, and what is lost is what came after that moment.    *)
(***************************************************************************)
CONSTANT Changes

VARIABLES
    mem,     \* the database
    copies,  \* moments of it that may yet become the file
    file

Init == mem = {} /\ copies = {} /\ file = {}

\* Of the moments only the present one is new; any may be given up.
Copied == copies' \subseteq copies \cup {mem'}

Change == \E c \in Changes : mem' = mem \cup {c} /\ Copied /\ UNCHANGED file

Copy == Copied /\ UNCHANGED <<mem, file>>

Write ==
    /\ file' \in copies /\ file \subseteq file'
    /\ UNCHANGED <<mem, copies>>

\* Memory is lost, and comes back as the file.
Lose == mem' = file /\ copies' = {} /\ UNCHANGED file

Next == Change \/ Copy \/ Write \/ Lose

Spec == Init /\ [][Next]_<<mem, copies, file>>
=============================================================================
