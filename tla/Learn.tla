------------------------------- MODULE Learn -------------------------------
(***************************************************************************)
(* The learning loop: `improve' distils a lesson from each failing case of  *)
(* a suite, `distill' a skill from a passing run, and both save it, measure *)
(* the suite again, ask the guards and keep or delete it (src/cli/main.c,   *)
(* src/improve/improve.c, src/eval/guard_ring.c). `audit' judges the kept   *)
(* lessons afterwards from the journals of later runs.                      *)
(*                                                                          *)
(* A suite run gives any result: its cases work on the shared directory and *)
(* may save memories of their own there, the model may sample. They cannot   *)
(* write the reserved slugs (see MemStore), which store holds; a command run *)
(* by a case is taken to leave the directory alone. measured remembers what  *)
(* was measured with which reserved memories, since that is what the command *)
(* decides by. A store operation may fail and so may a suite run. The        *)
(* process may die at any step: what it leaves is the store of that state.   *)
(* A save is one step with the suite run that follows it.                    *)
(***************************************************************************)
EXTENDS Integers, Sequences, FiniteSets, FiniteSetsExt, SequencesExt

CONSTANTS
    Slugs,      \* reserved slugs that can be minted
    Skills,     \* the skill- slugs among them
    Cases,      \* cases of the train suite, in order
    Holdout,    \* cases of the validation suite
    Fails,      \* per case, how it ends when it fails: the possibilities
    Guards,     \* run configurations offered as guards
    Inert,      \* guards without an (expect) criterion
    Variants,   \* descriptions a mutation operator can make of the seed
    RingCap,    \* SPG_GUARD_RING_CAP
    MaxGuards,  \* bound: --guard arguments
    MaxGuarded, \* bound: --guard arguments of a command that is run
    MaxSpoilt,  \* bound: candidates for which store operations fail
    Existing,   \* slugs that may hold a memory before the command
    Options,    \* the options `improve' is called with
    AuditSpan   \* bound: journals, seconds and hits of an audit

None == "none"

Terminations == {"rejected", "denied", "budget", "max_steps", "error", "finished"}

(* One fixed slug per failure mode; a run that finished and missed its      *)
(* expectation distils nothing here.                                        *)
spg_reflect_case(termination) ==
    [rejected |-> "lesson-rejected", denied |-> "lesson-denied", budget |-> "lesson-budget",
     max_steps |-> "lesson-max-steps", error |-> "lesson-error", finished |-> None][termination]

ASSUME LearnAssumption ==
    /\ Cases \subseteq Nat /\ IsFiniteSet(Cases)
    /\ Holdout \subseteq Nat /\ IsFiniteSet(Holdout)
    /\ Fails \subseteq [Cases -> Terminations] /\ Skills \subseteq Slugs
    /\ Existing \subseteq Slugs /\ None \notin Slugs \cup Variants
    /\ \A f \in Fails, i \in Cases : spg_reflect_case(f[i]) \in Slugs \cup {None}
    /\ Guards \cap {"train", "valid", None} = {}
    /\ Inert \subseteq Guards /\ RingCap \in Nat \ {0}
    /\ Options \subseteq [evolve : BOOLEAN, prove : BOOLEAN, validate : BOOLEAN]
    /\ MaxGuards \in Nat /\ MaxGuarded \in 0..MaxGuards /\ MaxSpoilt \in Nat /\ AuditSpan \in Nat

VARIABLES
    cmd,       \* the command: its kind and its options
    fails,     \* per case: its termination when it fails
    ring,      \* the guard ring: per slot, shape and last_seen
    given,     \* history: the --guard arguments
    store,     \* per reserved slug: the description stored
    measured,  \* history: counts of the baseline, and of the trials and guard
               \* runs of the candidates kept or on trial
    pc,
    cands,     \* candidates: slug and origin case
    job,       \* the candidate under trial
    cur,       \* cur_passed
    orig,      \* orig_passed
    kept,      \* slugs reported as kept
    spoilt,    \* history: slugs for which a store operation failed
    first,     \* history: the store before the command
    committed  \* history: the store after the last commit

vars == <<cmd, fails, ring, given, store, measured, pc, cands, job, cur, orig,
          kept, spoilt, first, committed>>

Free == [shape |-> None, seen |-> 0]

NoJob == [k |-> 0, slug |-> None, text |-> None, scores |-> <<>>, trial |-> 0,
          proven |-> FALSE, slot |-> 0, gbase |-> FALSE, accept |-> FALSE]

Commands ==
    {[kind |-> "distill", evolve |-> FALSE, prove |-> FALSE, validate |-> FALSE]} \cup
    {[kind |-> "improve", evolve |-> o.evolve, prove |-> o.prove, validate |-> o.validate] :
        o \in Options}

Init ==
    /\ cmd \in Commands
    /\ fails \in Fails
    /\ ring = [i \in 1..RingCap |-> Free]
    /\ given = <<>>
    /\ store \in {s \in [Slugs -> {None, "old"}] : \A x \in Slugs \ Existing : s[x] = None}
    /\ measured = {} /\ pc = "args" /\ cands = <<>> /\ job = NoJob
    /\ cur = 0 /\ orig = 0 /\ kept = {} /\ spoilt = {}
    /\ first = store /\ committed = store

Goto(label) == pc' = label

-----------------------------------------------------------------------------
(* The guard ring.                                                          *)

RecordUnrefreshed(r, g, clock) ==
    LET has  == {i \in DOMAIN r : r[i].shape = g}
        free == {i \in DOMAIN r : r[i] = Free}
        lru  == {i \in DOMAIN r : \A j \in DOMAIN r : r[i].seen <= r[j].seen}
        slot == IF free # {} THEN Min(free) ELSE Min(lru)
    IN  IF has # {} THEN r ELSE [r EXCEPT ![slot] = [shape |-> g, seen |-> clock]]

(* A known shape is refreshed; a new one takes a free slot, else that of    *)
(* the shape least recently seen.                                           *)
spg_guard_ring_record(r, g, clock) ==
    LET has  == {i \in DOMAIN r : r[i].shape = g}
        free == {i \in DOMAIN r : r[i] = Free}
        lru  == {i \in DOMAIN r : \A j \in DOMAIN r : r[i].seen <= r[j].seen}
        slot == IF has # {} THEN Min(has) ELSE IF free # {} THEN Min(free) ELSE Min(lru)
    IN  [r EXCEPT ![slot] = [shape |-> g, seen |-> clock]]

GuardArgument ==
    /\ pc = "args" /\ Len(given) < MaxGuards
    /\ \E g \in Guards :
          /\ given' = Append(given, g)
          /\ ring' = spg_guard_ring_record(ring, g, Len(given) + 1)
    /\ UNCHANGED <<cmd, fails, store, measured, pc, cands, job, cur, orig, kept,
                   spoilt, first, committed>>

(* A guard that passed without the lesson and fails with it vetoes it.      *)
spg_guard_survives(baseline, trial) == trial \/ ~baseline

-----------------------------------------------------------------------------
(* Suite runs.                                                              *)

(* What eval_run_suite may find: the cases that pass. A guard is a suite of *)
(* one case; one without a criterion never passes, nor does one whose run   *)
(* could not be made.                                                       *)
Outcomes(suite) ==
    SUBSET (IF suite = "train" THEN Cases ELSE IF suite = "valid" THEN Holdout
            ELSE IF suite \in Inert THEN {} ELSE {1})

Measure(suite, s, passed) ==
    measured' = measured \cup
        {[k |-> job.k, suite |-> suite, store |-> s, n |-> Cardinality(passed)]}

GateSuite == IF cmd.validate THEN "valid" ELSE "train"

(* A save or a delete (text None) of the candidate. One that fails leaves   *)
(* the store as it was, and the command goes on.                            *)
Fault(slug) == spoilt' = spoilt \cup {slug} /\ Cardinality(spoilt') <= MaxSpoilt

Put(text, s) ==
    \/ s = [store EXCEPT ![job.slug] = text] /\ UNCHANGED spoilt
    \/ s = store /\ Fault(job.slug)

Exit(code) == Goto(code)

-----------------------------------------------------------------------------
(* Baseline and candidates.                                                 *)

(* What spg_reflect_case makes of the report, one candidate per slug: from  *)
(* the first failing case that distils it.                                  *)
Candidates(passed) ==
    LET slug(i) == spg_reflect_case(fails[i])
        fresh == {i \in Cases \ passed :
                    /\ slug(i) # None
                    /\ \A j \in Cases \ passed : j < i => slug(j) # slug(i)}
        nth(n) == CHOOSE i \in fresh : Cardinality({j \in fresh : j < i}) = n - 1
    IN  [n \in 1..Cardinality(fresh) |-> [slug |-> slug(nth(n)), origin |-> nth(n)]]

(* `distill' asks the journal for the verdict of its run: only a passing    *)
(* one mints, and then one skill.                                           *)
Distil ==
    /\ pc = "args" /\ cmd.kind = "distill" /\ Len(given) <= MaxGuarded
    /\ \E verdict \in {"pass", "fail", "none"}, slug \in Skills :
          IF verdict = "pass"
          THEN cands' = <<[slug |-> slug, origin |-> 0]>> /\ Goto("baseline")
          ELSE Exit("failed") /\ UNCHANGED cands
    /\ UNCHANGED <<cmd, fails, ring, given, store, measured, job, cur, orig, kept,
                   spoilt, first, committed>>

Improve ==
    /\ pc = "args" /\ cmd.kind = "improve" /\ Len(given) <= MaxGuarded
    /\ Goto("baseline")
    /\ UNCHANGED <<cmd, fails, ring, given, store, measured, cands, job, cur, orig,
                   kept, spoilt, first, committed>>

Baseline ==
    /\ pc = "baseline"
    /\ \E passed \in Outcomes("train") :
          /\ Measure("train", store, passed)
          /\ cands' = IF cmd.kind = "distill" THEN cands ELSE Candidates(passed)
          /\ cur' = Cardinality(passed) /\ orig' = Cardinality(passed)
    /\ Goto(IF cmd.validate THEN "gatebase" ELSE "next")
    /\ UNCHANGED <<cmd, fails, ring, given, store, job, kept, spoilt, first, committed>>

(* The hold-out gate measures the validation suite instead.                 *)
GateBaseline ==
    /\ pc = "gatebase"
    /\ \E passed \in Outcomes("valid") :
          /\ Measure("valid", store, passed)
          /\ cur' = Cardinality(passed) /\ orig' = Cardinality(passed)
    /\ Goto("next")
    /\ UNCHANGED <<cmd, fails, ring, given, store, cands, job, kept, spoilt, first,
                   committed>>

-----------------------------------------------------------------------------
(* One candidate.                                                           *)

TentativeSave ==
    /\ pc = "next" /\ job.k < Len(cands)
    /\ LET c == cands[job.k + 1] IN
          \/ /\ store' = [store EXCEPT ![c.slug] = "seed"]
             /\ Goto(IF cmd.evolve THEN "evolve" ELSE "trial")
             /\ UNCHANGED spoilt
          \/ /\ Fault(c.slug)
             /\ Goto(IF cmd.kind = "distill" THEN "failed"
                     ELSE IF cmd.evolve THEN "evolve" ELSE "trial")
             /\ UNCHANGED store
    /\ job' = [NoJob EXCEPT !.k = job.k + 1, !.slug = cands[job.k + 1].slug, !.text = "seed"]
    /\ UNCHANGED <<cmd, fails, ring, given, measured, cands, cur, orig, kept, first, committed>>

(* spg_gepa_select: the seed wins ties.                                     *)
spg_gepa_select(scores) ==
    Min({i \in DOMAIN scores : \A j \in DOMAIN scores : scores[j].n <= scores[i].n})

(* gepa_evolve saves and measures the seed and each variant an operator     *)
(* could make of it; a failed run scores nothing.                           *)
EvolveMeasure ==
    /\ pc = "evolve"
    /\ LET used == {job.scores[i].text : i \in DOMAIN job.scores} IN
          \E text \in (IF used = {} THEN {"seed"} ELSE Variants \ used) :
             /\ Put(text, store')
             /\ \E passed \in Outcomes(GateSuite) :
                   job' = [job EXCEPT !.scores =
                             Append(@, [text |-> text, n |-> Cardinality(passed)])]
    /\ UNCHANGED <<cmd, fails, ring, given, measured, pc, cands, cur, orig, kept, first, committed>>

EvolveSelect ==
    /\ pc = "evolve" /\ job.scores # <<>>
    /\ LET best == job.scores[spg_gepa_select(job.scores)].text
       IN  job' = [job EXCEPT !.text = best, !.scores = <<>>] /\ Put(best, store')
    /\ Goto("trial")
    /\ UNCHANGED <<cmd, fails, ring, given, measured, cands, cur, orig, kept, first, committed>>

spg_improve_accept(baseline, candidate) == candidate >= baseline

(* Where the trial leads: to a rejection, to the benefit proof or to the    *)
(* guards. Without a hold-out suite the trial is the proof's run too.       *)
Trial ==
    /\ pc = "trial"
    /\ \E passed \in Outcomes(GateSuite) :
          LET ok     == spg_improve_accept(cur, Cardinality(passed))
              proven == ~cmd.prove \/ cands[job.k].origin \in passed
          IN  /\ Measure(GateSuite, store, passed)
              /\ job' = [job EXCEPT !.trial = Cardinality(passed), !.proven = proven]
              /\ Goto(IF ~ok THEN "commit"
                      ELSE IF cmd.prove /\ cmd.validate THEN "prove"
                      ELSE IF proven THEN "guards" ELSE "commit")
    /\ UNCHANGED <<cmd, fails, ring, given, store, cands, cur, orig, kept, spoilt, first,
                   committed>>

Prove ==
    /\ pc = "prove"
    /\ \E passed \in Outcomes("train") :
          LET proven == cands[job.k].origin \in passed
          IN  /\ job' = [job EXCEPT !.proven = proven]
              /\ Goto(IF proven THEN "guards" ELSE "commit")
    /\ UNCHANGED <<cmd, fails, ring, given, store, measured, cands, cur, orig, kept, spoilt, first,
                   committed>>

(* A suite run that is not SPG_OK ends the command.                         *)
SuiteFails ==
    /\ pc \in {"baseline", "gatebase", "trial", "prove"}
    /\ Exit("failed")
    /\ UNCHANGED <<cmd, fails, ring, given, store, measured, cands, job, cur, orig, kept,
                   spoilt, first, committed>>

-----------------------------------------------------------------------------
(* The guards: each is run without the lesson, then with it.                *)
Shape == IF job.slot < RingCap THEN ring[job.slot + 1].shape ELSE None

(* guard_run: the lesson is saved or deleted and the guard's suite is run.  *)
guard_run(text, passed) ==
    Put(text, store') /\ Measure(Shape, store', passed)

GuardBaseline ==
    /\ pc = "guards" /\ Shape # None
    /\ \E passed \in Outcomes(Shape) :
          guard_run(None, passed) /\ job' = [job EXCEPT !.gbase = passed # {}]
    /\ Goto("guardtrial")
    /\ UNCHANGED <<cmd, fails, ring, given, cands, cur, orig, kept, first, committed>>

GuardTrialUnvetoed ==
    /\ pc = "guardtrial"
    /\ \E passed \in Outcomes(Shape) : guard_run(job.text, passed)
    /\ job' = [job EXCEPT !.slot = @ + 1]
    /\ Goto("guards")
    /\ UNCHANGED <<cmd, fails, ring, given, cands, cur, orig, kept, first, committed>>

GuardTrial ==
    /\ pc = "guardtrial"
    /\ \E passed \in Outcomes(Shape) :
          /\ guard_run(job.text, passed)
          /\ IF spg_guard_survives(job.gbase, passed # {})
             THEN job' = [job EXCEPT !.slot = @ + 1] /\ Goto("guards")
             ELSE job' = job /\ Goto("resave")
    /\ UNCHANGED <<cmd, fails, ring, given, cands, cur, orig, kept, first, committed>>

GuardsDone ==
    /\ pc = "guards" /\ Shape = None
    /\ job' = [job EXCEPT !.accept = TRUE]
    /\ Goto("resave")
    /\ UNCHANGED <<cmd, fails, ring, given, store, measured, cands, cur, orig, kept, spoilt,
                   first, committed>>

(* The guard runs toggled the lesson: it is saved again.                    *)
Resave ==
    /\ pc = "resave"
    /\ Put(job.text, store')
    /\ Goto("commit")
    /\ UNCHANGED <<cmd, fails, ring, given, measured, cands, job, cur, orig, kept, first,
                   committed>>

CommitKeepsCount ==
    /\ pc = "commit"
    /\ IF job.accept
       THEN kept' = kept \cup {job.slug} /\ UNCHANGED <<store, spoilt, measured>>
       ELSE /\ Put(None, store') /\ UNCHANGED kept
            /\ measured' = {e \in measured : e.k # job.k}
    /\ committed' = store'
    /\ Goto("next")
    /\ UNCHANGED <<cmd, fails, ring, given, cands, job, cur, orig, first>>

(* Keep, or revert by deleting; the status of the delete is dropped.        *)
spg_improve_commit ==
    /\ pc = "commit"
    /\ IF job.accept
       THEN /\ kept' = kept \cup {job.slug}
            /\ cur' = job.trial
            /\ UNCHANGED <<store, spoilt, measured>>
       ELSE /\ Put(None, store') /\ UNCHANGED <<kept, cur>>
            /\ measured' = {e \in measured : e.k # job.k}
    /\ committed' = store'
    /\ Goto("next")
    /\ UNCHANGED <<cmd, fails, ring, given, cands, job, orig, first>>

Report ==
    /\ pc = "next" /\ job.k = Len(cands)
    /\ Exit("done")
    /\ UNCHANGED <<cmd, fails, ring, given, store, measured, cands, job, cur, orig, kept,
                   spoilt, first, committed>>

Next ==
    \/ GuardArgument \/ Distil \/ Improve \/ Baseline \/ GateBaseline
    \/ TentativeSave \/ EvolveMeasure \/ EvolveSelect \/ Trial \/ Prove
    \/ SuiteFails \/ GuardBaseline \/ GuardTrial \/ GuardsDone \/ Resave
    \/ spg_improve_commit \/ Report

Spec == Init /\ [][Next]_vars

-----------------------------------------------------------------------------
(* The audit of a kept lesson: runs are split at its mint time, and the     *)
(* rates of its failure on the two sides are compared.                      *)
Later(js, minted) == {i \in DOMAIN js : js[i].finished > minted}

Tally(js, runs) ==
    LET upTo[n \in 0..Len(js)] ==
            IF n = 0 THEN 0 ELSE upTo[n - 1] + (IF n \in runs THEN js[n].hits ELSE 0)
    IN  upTo[Len(js)]

AuditSwapped(js, minted) ==
    LET later       == Later(js, minted)
        after_runs  == Cardinality(later)
        before_runs == Len(js) - after_runs
        after       == Tally(js, later)
        before      == Tally(js, DOMAIN js \ later)
    IN  IF after_runs = 0 THEN "pending"
        ELSE IF after = 0 THEN "kept"
        ELSE IF after * after_runs < before * before_runs THEN "improving" ELSE "review"

audit_verdict(js, minted) ==
    LET later       == Later(js, minted)
        after_runs  == Cardinality(later)
        before_runs == Len(js) - after_runs
        after       == Tally(js, later)
        before      == Tally(js, DOMAIN js \ later)
    IN  IF after_runs = 0 THEN "pending"
        ELSE IF after = 0 THEN "kept"
        ELSE IF after * before_runs < before * after_runs THEN "improving" ELSE "review"

Journals == BoundedSeq([finished : 0..AuditSpan, hits : 0..AuditSpan], AuditSpan)

-----------------------------------------------------------------------------
(* Properties.                                                              *)

(* The variables keep their types; a pass count never exceeds the suite and *)
(* the guard ring never holds a shape twice.                                *)
TypeOK ==
    /\ cmd \in Commands /\ fails \in [Cases -> Terminations]
    /\ ring \in [1..RingCap -> [shape : Guards \cup {None}, seen : 0..MaxGuards]]
    /\ \A i, j \in DOMAIN ring : ring[i].shape = ring[j].shape => i = j \/ ring[i] = Free
    /\ {store, first, committed} \subseteq [Slugs -> {None, "old", "seed"} \cup Variants]
    /\ cands \in Seq([slug : Slugs, origin : Cases \cup {0}])
    /\ job.k \in 0..Len(cands) /\ job.slot \in 0..RingCap
    /\ cur \in 0..Cardinality(Cases \cup Holdout) /\ orig \in 0..Cardinality(Cases \cup Holdout)
    /\ kept \subseteq Slugs /\ spoilt \subseteq Slugs

(* What a candidate's slug holds is beyond the command's word when a store  *)
(* operation on it failed, or when a memory of that name was there before:  *)
(* a revert deletes that one too.                                           *)
Excused == spoilt \cup {s \in {cands[i].slug : i \in DOMAIN cands} : first[s] # None}

Agree(s, t) == \A x \in Slugs \ Excused : s[x] = t[x]

(* The memories once the first k candidates are decided.                    *)
Standing(k) ==
    [x \in Slugs |-> IF \E i \in 1..k : cands[i].slug = x THEN store[x] ELSE first[x]]

(* The learning loop's promise (README: "invariant: final >= baseline"):    *)
(* after each decision, and so at the end, the count reported is one that   *)
(* the gating suite gave in a run on the memories that are left, and it     *)
(* never fell below the baseline, although each candidate was saved,        *)
(* evolved, toggled by the guards and saved again after it was measured.    *)
(* The lessons reported as kept are stored, and no other new one is. A      *)
(* failed store operation spoils this for its own slug only.                *)
NeverWorse ==
    pc \in {"next", "done"} =>
        /\ cur >= orig
        /\ \E e \in measured : e.suite = GateSuite /\ e.n = cur /\ Agree(e.store, store)
        /\ {s \in Slugs : store[s] # first[s]} \ Excused = kept \ Excused

(* No lesson is kept against a guard: for each of them and each guard the   *)
(* ring held, the run without it and the run with it were made, on top of   *)
(* what was decided before, and it is not so that the first passed and the  *)
(* second did not (spg_guard_ring_gate). The one with it was made on what   *)
(* the command leaves of that decision.                                     *)
GuardsHold ==
    pc \in {"next", "done"} =>
        \A k \in 1..job.k, i \in DOMAIN ring :
            cands[k].slug \in kept /\ ring[i].shape # None =>
                \E without, with \in {e \in measured : e.k = k /\ e.suite = ring[i].shape} :
                    /\ Agree(without.store, Standing(k - 1))
                    /\ Agree(with.store, Standing(k))
                    /\ without.n > 0 => with.n > 0

(* A later run without the failure never turns the audit's verdict for the  *)
(* worse; one that has it at least as often as the later runs before it on  *)
(* average never turns "review" for the better; and runs before the lesson  *)
(* was minted cannot make it "kept" (audit_command). A run that has it less *)
(* often lowers the rate and may turn "review" into "improving".            *)
AuditMonotone ==
    pc = "args" /\ given = <<>> =>
    \A js \in Journals, minted \in 0..(AuditSpan - 1) :
        LET v     == audit_verdict(js, minted)
            later == Later(js, minted)
            with(h) == audit_verdict(Append(js, [finished |-> minted + 1, hits |-> h]), minted)
        IN  /\ v \in {"kept", "improving"} => with(0) = v
            /\ with(0) # "pending"
            /\ \A h \in 1..AuditSpan :
                  /\ with(h) # "kept"
                  /\ v = "review" /\ h * Cardinality(later) >= Tally(js, later)
                     => with(h) = "review"
            /\ v = "kept" => \A i \in later : js[i].hits = 0

(* The ring holds the RingCap shapes given last, however often a shape is   *)
(* repeated (spg_guard_ring_record).                                        *)
RingKeepsRecent ==
    LET lastSeen(g) == Max({i \in DOMAIN given : given[i] = g})
        shapes == ToSet(given)
        newer(g) == {h \in shapes : lastSeen(h) > lastSeen(g)}
    IN  {ring[i].shape : i \in DOMAIN ring} \ {None} =
            {g \in shapes : Cardinality(newer(g)) < RingCap}

(* A revert leaves the store as the mint found it ("the store ends          *)
(* byte-identical to before the mint").                                     *)
RevertRestores ==
    [][pc = "commit" /\ ~job.accept /\ job.slug \notin spoilt' => store' = committed]_vars
=============================================================================
