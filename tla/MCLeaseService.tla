--------------------------- MODULE MCLeaseService ---------------------------
(* Small instances of LeaseService for TLC. *)
EXTENDS LeaseService

CONSTANTS root, mia, pc1, pc2

MCOwner == [d \in Devices |-> IF d = pc1 THEN root ELSE mia]

=============================================================================
