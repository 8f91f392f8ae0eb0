-------------------------- MODULE MCStorageLifecycle --------------------------
(* Instances of StorageLifecycle for TLC. *)
EXTENDS StorageLifecycle, TLC

CONSTANTS g1, g2, i1, i2

OneGallery   == [i \in Images |-> g1]
TwoGalleries == [i \in Images |-> IF i = i1 THEN g1 ELSE g2]
TaskSymmetry == Permutations(Tasks)
=============================================================================
