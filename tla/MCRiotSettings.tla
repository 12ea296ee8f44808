--------------------------- MODULE MCRiotSettings ---------------------------
(* Small instances of RiotSettings for TLC. *)
EXTENDS RiotSettings, TLC

\* Logins of one kind, staging directories and processes are interchangeable.
Symmetry == Permutations(Personal) \cup Permutations(Accounts)
            \cup Permutations(Dirs) \cup Permutations(Instances)

=============================================================================
