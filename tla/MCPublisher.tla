---------------------------- MODULE MCPublisher ----------------------------
EXTENDS Publisher

\* errLogInterval is shorter than noSubLogInterval.
MCInterval == [failures |-> 1, noSubs |-> 2]
=============================================================================
