------------------------------ MODULE MCDocker ------------------------------
(* Two containers and one slot for each kind of request. *)
EXTENDS Docker
=============================================================================
