--------------------------- MODULE MCMachinePause ---------------------------
(* Instances of MachinePause for TLC. *)
EXTENDS MachinePause

CONSTANTS p1, p2

\* A quiet host on which two runs follow each other, one on which everything
\* happens to a single run, and one whose steps journal large records.
QuietHost ==
    [foreign |-> {}, users |-> FALSE, races |-> FALSE, faults |-> TRUE,
     exec |-> FALSE, large |-> FALSE,
     ids |-> 2, ops |-> 2, runs |-> 2, kills |-> 0]
RoughHost ==
    [foreign |-> {p2}, users |-> TRUE, races |-> TRUE, faults |-> FALSE,
     exec |-> TRUE, large |-> FALSE,
     ids |-> 3, ops |-> 2, runs |-> 1, kills |-> 1]
WordyHost ==
    [QuietHost EXCEPT !.faults = FALSE, !.large = TRUE,
                       !.ids = 1, !.ops = 3, !.runs = 1]

AllHosts == {QuietHost, RoughHost, WordyHost}

\* A killed run whose guardian is killed with it, and the next one.
KilledHosts ==
    {[QuietHost EXCEPT !.faults = FALSE, !.ids = 1, !.ops = 1, !.kills = 1]}
=============================================================================
