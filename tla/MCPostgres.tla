----------------------------- MODULE MCPostgres -----------------------------
(* A small instance of Postgres for TLC. *)
EXTENDS Postgres

\* One of the parts that only fill their own fields stands for all four.
MCOtherParts == <<"connections">>
=============================================================================
