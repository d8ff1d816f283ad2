--------------------------- MODULE MCVoiceCluster ---------------------------
(* Instances of VoiceCluster for TLC. *)
EXTENDS VoiceCluster, TLC

Symmetry == Permutations(Node) \cup Permutations(User)

=============================================================================
