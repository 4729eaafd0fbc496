------------------------------- MODULE MCLearn -------------------------------
EXTENDS Learn

Opt(e, p, v) == [evolve |-> e, prove |-> p, validate |-> v]

MCOptions == {Opt(TRUE, FALSE, FALSE), Opt(FALSE, TRUE, TRUE)}
(* Two failure modes, a shared one, and a failure that distils nothing.     *)
MCFails == {<<"rejected", "denied">>, <<"rejected", "rejected">>, <<"finished", "denied">>}

AnyGuard == Permutations(Guards \ Inert)
=============================================================================
