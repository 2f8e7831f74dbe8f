------------------------------ MODULE MCTailer ------------------------------
(* Small instances of Tailer for TLC. *)
EXTENDS TailerStream, TLC

\* Inode numbers are interchangeable; used where no liveness is checked.
Symmetry == Permutations(Inodes)
=============================================================================
