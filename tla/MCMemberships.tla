--------------------------- MODULE MCMemberships ---------------------------
(* Instances of Memberships for TLC. *)
EXTENDS Memberships, TLC

Symmetry == Permutations(User) \cup Permutations(Request) \cup Permutations(Runner)

=============================================================================
