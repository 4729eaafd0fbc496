----------------------------- MODULE MCMemStore -----------------------------
EXTENDS MemStore, TLC

CONSTANTS p1, p2

MCWrites == (p1 :> {1, 2}) @@ (p2 :> {3})
MCKept == {[desc |-> "d", upd |-> 1]}
=============================================================================
