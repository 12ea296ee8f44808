---------------------------- MODULE AccountLease ----------------------------
(***************************************************************************)
(* What the team API promises about leases: an account is on loan to at    *)
(* most one lease, a lease is granted once, and once over it never returns. *)
(***************************************************************************)
CONSTANTS Accounts, Leases

VARIABLES
    holders,   \* per account, the leases it is on loan to
    granted    \* the leases granted so far

\* Leases granted before, and at most one on each account.
Init ==
    /\ granted \subseteq Leases
    /\ holders \in [Accounts -> SUBSET granted]
    /\ \A a \in Accounts : \A l, k \in holders[a] : l = k
    /\ \A a, b \in Accounts : a # b => holders[a] \cap holders[b] = {}

\* Any leases end.
End ==
    /\ holders' \in [Accounts -> SUBSET Leases]
    /\ \A a \in Accounts : holders'[a] \subseteq holders[a]
    /\ UNCHANGED granted

\* An account without a lease gets a new one.  Leases that had run out without
\* anyone noticing, its own among them, end in the same step.
Grant(a, l) ==
    /\ l \notin granted
    /\ granted' = granted \cup {l}
    /\ holders' \in [Accounts -> SUBSET Leases]
    /\ holders'[a] = {l}
    /\ \A b \in Accounts \ {a} : holders'[b] \subseteq holders[b]

Next == End \/ \E a \in Accounts, l \in Leases : Grant(a, l)

Spec == Init /\ [][Next]_<<holders, granted>>

=============================================================================
