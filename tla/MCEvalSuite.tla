----------------------------- MODULE MCEvalSuite -----------------------------
(***************************************************************************)
(* Instances of EvalSuite: suites of up to two cases chosen so that every  *)
(* kind of case meets every other (the limit of two cases is exceeded by   *)
(* one suite of three), two samples per case.                              *)
(***************************************************************************)
EXTENDS EvalSuite

CONSTANTS D1   \* a diagnosis of the closed set

K(n, m, fix, mach, goal, diag, term, obs) ==
    [name |-> n, model |-> m, script |-> TRUE, fixture |-> fix,
     machine |-> mach, goal |-> goal, diag |-> diag, term |-> term,
     obs |-> obs]

Plain   == K("a", "script", FALSE, FALSE, FALSE, NoDiag, "finished", TRUE)
Fixed   == K("a", "script", TRUE, FALSE, FALSE, NoDiag, AnyTerm, TRUE)
Unsafe  == K("../x", "script", TRUE, FALSE, FALSE, NoDiag, AnyTerm, FALSE)
Rules   == K("b", "rules", FALSE, TRUE, TRUE, D1, "finished", FALSE)
Blind   == K("b", "rules", FALSE, FALSE, FALSE, NoDiag, AnyTerm, FALSE)
Mute    == [Plain EXCEPT !.script = FALSE]
Denied  == K("b", "script", FALSE, FALSE, FALSE, NoDiag, "denied", FALSE)
Geist   == K("a", "geist", TRUE, TRUE, TRUE, D1, "finished", TRUE)
Remote  == K("b", "remote", TRUE, FALSE, FALSE, NoDiag, "finished", TRUE)

MCSuites == {<<>>, <<Mute>>, <<Blind>>, <<Unsafe>>,
             <<Plain, Fixed>>, <<Fixed, Remote>>, <<Geist, Plain>>,
             <<Rules, Plain>>, <<Denied, Rules, Plain>>}
LadderSuites == {<<Plain, Denied>>}
=============================================================================
