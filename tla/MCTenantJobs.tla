---------------------------- MODULE MCTenantJobs ----------------------------
(* Instances of TenantJobs for TLC. *)
EXTENDS TenantJobs

CONSTANT t1

\* Every job belongs to one space.
OneSpace == [j \in Job |-> t1]

=============================================================================
