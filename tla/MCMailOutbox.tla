---------------------------- MODULE MCMailOutbox ----------------------------
(* Instances of MailOutbox for TLC. *)
EXTENDS MailOutbox, TLC

Symmetry == Permutations(Message) \cup Permutations(Worker)

=============================================================================
