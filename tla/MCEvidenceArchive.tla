-------------------------- MODULE MCEvidenceArchive --------------------------
(* Instances of EvidenceArchive small enough for TLC. *)
EXTENDS EvidenceArchive, TLC

Symmetric == Permutations(Documents) \cup Permutations(Procs)
=============================================================================
