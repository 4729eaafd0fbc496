------------------------------ MODULE EvalSuite ------------------------------
(***************************************************************************)
(* The evaluation harness (src/src/cli/main.c eval_run_suite and           *)
(* eval_command, src/src/eval/eval.c, src/src/eval/fixture.c): it reads a  *)
(* suite of cases, runs every case a number of times through the agent     *)
(* loop, judges each run and adds the verdicts up in one report, whose     *)
(* totals are the exit code of `eval` and the score the improvement loop   *)
(* compares.                                                               *)
(*                                                                         *)
(* The agent run itself (module AgentLoop) is one nondeterministic step    *)
(* here: any termination, any reply, any observation, and a side effect on *)
(* the directory and on the memory store the harness handed to it.  What   *)
(* is kept is everything the harness does around it: the sandbox that is   *)
(* rebuilt before a sample, the static reply buffer, the model adapter     *)
(* that is opened once per case, the early exits that abandon the suite,   *)
(* the counters of the report.                                             *)
(*                                                                         *)
(* A case is a record:                                                     *)
(*   name     the name, which also names its sandbox directory             *)
(*   model    "script", "rules", "geist" or "remote"                       *)
(*   script   whether a (script ...) was given                             *)
(*   fixture  whether it runs in a sandbox                                 *)
(*   machine  whether it shows a machine state, with a process profile and *)
(*            a seeded history window                                      *)
(*   goal     whether it has a goal file                                   *)
(*   diag     the expected diagnosis, or NoDiag                            *)
(*   term     the expected termination, or AnyTerm                         *)
(*   obs      whether it expects an observation (and so an answer)         *)
(***************************************************************************)
EXTENDS Integers, Sequences, FiniteSets

CONSTANTS
    Suites,        \* the suites that can be asked for: sequences of cases
    UnsafeNames,   \* names with a byte that could steer a path
    Samples,       \* --samples N
    MaxCases,      \* EVAL_MAX_CASES
    Categories,    \* the closed set of diagnoses
    NoDiag,        \* no diagnosis expected, or none recognised in a reply
    AnyTerm        \* no (termination ...) expected

\* The endings the harness tells apart; "budget" counts as "max_steps" does.
Terminations == {"finished", "max_steps", "denied", "rejected"}

CaseRecords ==
    [name : STRING, model : {"script", "rules", "geist", "remote"},
     script : BOOLEAN, fixture : BOOLEAN, machine : BOOLEAN, goal : BOOLEAN,
     diag : Categories \cup {NoDiag}, term : Terminations \cup {AnyTerm},
     obs : BOOLEAN]

ASSUME EvalAssumption ==
    /\ Suites \subseteq Seq(CaseRecords)
    /\ Samples \in Nat \ {0}
    /\ MaxCases \in Nat \ {0}
    /\ NoDiag \notin Categories

Statuses == {"ok", "format", "io", "schema", "invalid_arg", "model"}
Outcomes == {"pass", "fail_termination", "fail_observation", "fail_run_error"}

(***************************************************************************)
(* One run of the agent: its status, how the loop ended, whether the       *)
(* expected observation was seen, the reply left in the model buffer (a    *)
(* run that fails early writes none), and whether the machine satisfies    *)
(* the goal afterwards.                                                    *)
(***************************************************************************)
NoReply == [said |-> FALSE, answer |-> FALSE, cat |-> NoDiag, ids |-> {}]
Replies == {NoReply} \cup
           [said : {TRUE}, answer : BOOLEAN, cat : Categories \cup {NoDiag},
            ids : {{}, {"absent"}}]
Runs == [status : {"ok", "io"}, term : Terminations, seen : BOOLEAN,
         reply : Replies, satisfied : BOOLEAN, paused : BOOLEAN]

VARIABLES
    pc,        \* where eval_run_suite is
    rc,        \* its return status
    suite,     \* the cases
    store,     \* the shared memory store; {} when none is given (`eval`)
    c,         \* the index of the current case
    s,         \* the number of samples of this case that are done
    adapters,  \* model adapters that are open
    disk,      \* the sandbox directories: what each holds
    mounted,   \* the store the run was given: "shared", "sandbox" or "none"
    output,    \* the static model_output buffer
    ledger,    \* the static case_pause_ledger holds a process
    window,    \* case_history: "empty", "seeded" or "ticked" behind the seeds
    report,    \* struct eval_run_report
    truth,     \* ghost, per case: what its samples really did
    exit       \* the exit code of eval_command, or -1

vars == <<pc, rc, suite, store, c, s, adapters, disk, mounted, output,
          ledger, window, report, truth, exit>>

case == suite[c]
RealModel(k) == k.model \in {"geist", "remote"}
Dirs == {k.name : k \in UNION {{q[i] : i \in 1..Len(q)} : q \in Suites}}
            \X (0..Samples - 1)
Marks == {"fixture", "palace", "residue"}

EmptyCase == [runs |-> 0, passed |-> 0, parsed |-> 0, gated |-> 0,
              answered |-> 0, diagOk |-> 0, halluc |-> 0]
EmptyReport == [total |-> 0, passed |-> 0, parsed |-> 0, gated |-> 0,
                ncases |-> 0, cases |-> [i \in 1..MaxCases |-> EmptyCase]]
NoTruth == [i \in 1..MaxCases |-> [good |-> 0, answers |-> 0, halluc |-> 0, runs |-> 0]]

Init ==
    /\ pc = "load" /\ rc = "ok" /\ exit = -1
    /\ suite \in Suites
    /\ store \in {{}, {"palace"}}
    /\ c = 1 /\ s = 0 /\ adapters = 0
    /\ disk \in {[d \in Dirs |-> left] :      \* left by an earlier evaluation
                    left \in {{}, {"fixture", "residue"}}}
    /\ mounted = "none"
    /\ output = NoReply
    /\ ledger = FALSE /\ window = "empty"
    /\ report = EmptyReport /\ truth = NoTruth

Abandon(e) ==
    /\ pc' = "done" /\ rc' = e

\* eval_command refuses an argument before it runs anything.
Usage ==
    /\ pc = "load"
    /\ pc' = "done" /\ exit' = 2
    /\ UNCHANGED <<rc, suite, store, c, s, adapters, disk, mounted, output,
                   ledger, window, report, truth>>

(***************************************************************************)
(* Loading the suite, its run, policy and scenario files and the model     *)
(* profile: each may be missing or malformed, which ends the command.      *)
(***************************************************************************)
LoadSuite ==
    /\ pc = "load"
    /\ \/ pc' = "profile" /\ rc' = rc
       \/ \E e \in {"io", "format"} : Abandon(e)
    /\ UNCHANGED <<ledger, window, suite, store, c, s, adapters, disk, mounted, output,
                   report, truth, exit>>

LoadProfile ==
    /\ pc = "profile"
    /\ \/ pc' = "case" /\ rc' = "ok"
       \/ \E e \in {"io", "schema"} : Abandon(e)
    /\ UNCHANGED <<ledger, window, suite, store, c, s, adapters, disk, mounted, output,
                   report, truth, exit>>

(***************************************************************************)
(* The fields of the next case, then the files it names (history seeds,    *)
(* machine and machine_after, goal, process profile): a missing or invalid *)
(* one abandons the whole suite.                                           *)
(***************************************************************************)
ReadCase ==
    /\ pc = "case"
    /\ c <= Len(suite) /\ report.ncases < MaxCases
    /\ pc' = "history"
    /\ s' = 0
    /\ UNCHANGED <<rc, suite, store, c, adapters, disk, mounted, output,
                   ledger, window, report, truth, exit>>

ReadFile(at, next, needed) ==
    /\ pc = at
    /\ \/ pc' = next /\ rc' = rc
       \/ needed /\ \E e \in {"io", "schema"} : Abandon(e)
    /\ UNCHANGED <<suite, store, c, s, adapters, disk, mounted, output,
                   ledger, report, truth, exit>>

\* The window is emptied and seeded again for every case that has a history.
ReadHistory ==
    /\ ReadFile("history", "machine", case.machine)
    /\ window' = IF case.machine THEN "seeded" ELSE window

ReadMachine == ReadFile("machine", "goal", case.machine) /\ UNCHANGED window

ReadGoal == ReadFile("goal", "procs", case.goal) /\ UNCHANGED window

ReadProcessProfile ==
    /\ ReadFile("procs", IF RealModel(case) THEN "adapter" ELSE "script",
                case.machine)
    /\ UNCHANGED window

(***************************************************************************)
(* A scripted case needs a script that can be read; the rules case         *)
(* computes its one reply from the machine state and needs that instead.   *)
(***************************************************************************)
ReadScript ==
    /\ pc = "script"
    /\ \/ /\ case.model = "rules" /\ ~case.machine
          /\ Abandon("invalid_arg")
       \/ /\ case.model = "script" /\ ~case.script
          /\ Abandon("format")
       \/ /\ case.model = "script" /\ case.script
          /\ Abandon("io")
       \/ /\ \/ case.model = "rules" /\ case.machine
             \/ case.model = "script" /\ case.script
          /\ pc' = "sample" /\ rc' = rc
    /\ UNCHANGED <<ledger, window, suite, store, c, s, adapters, disk, mounted, output,
                   report, truth, exit>>

(***************************************************************************)
(* The adapter of a real-model case is opened once and shared by its       *)
(* samples.  A GGUF that does not load abandons the suite; a remote that   *)
(* is not configured is one failing run of its case.                       *)
(***************************************************************************)
OpenAdapter ==
    /\ pc = "adapter"
    /\ \/ /\ adapters' = adapters + 1
          /\ pc' = "sample"
          /\ UNCHANGED <<rc, s, report, truth>>
       \/ /\ case.model = "geist"
          /\ Abandon("model")
          /\ UNCHANGED <<adapters, s, report, truth>>
       \/ /\ case.model = "remote"
          /\ report' = [report EXCEPT !.total = @ + 1]
          /\ truth' = [truth EXCEPT ![c].runs = @ + 1]
          /\ s' = 1
          /\ pc' = "endcase"
          /\ UNCHANGED <<rc, adapters>>
    /\ UNCHANGED <<ledger, window, suite, store, c, disk, mounted, output, exit>>

(***************************************************************************)
(* eval_sandbox_prepare: the directory of this case and sample is deleted, *)
(* made again, filled from the fixture and overlaid with the shared store. *)
(* An unsafe name is refused before anything is touched, and any command   *)
(* may fail half way.                                                      *)
(***************************************************************************)
Dir == <<case.name, s>>

NameIsSafe(n) == n \notin UnsafeNames

ResetSkipped(files) == files
Reset(files) == {}

CopyInto(dst, src) == dst \cup src

SandboxFails ==
    \/ ~NameIsSafe(case.name) /\ disk' = disk
    \/ /\ NameIsSafe(case.name)
       /\ \E left \in {disk[Dir], {}, {"fixture"}} :   \* rm, cp or overlay
            disk' = [disk EXCEPT ![Dir] = left]

SandboxReady ==
    /\ NameIsSafe(case.name)
    /\ disk' = [disk EXCEPT
                  ![Dir] = CopyInto(CopyInto(Reset(@), {"fixture"}), store)]

\* model_output[0] = '\0': the buffer is static and outlives cases.
StaleOutput == output
FreshOutput == NoReply

PrepareSample ==
    /\ pc = "sample" /\ s < Samples
    /\ \/ /\ case.fixture
          /\ SandboxReady
          /\ mounted' = "sandbox"
          /\ pc' = "run"
          /\ output' = FreshOutput
          /\ UNCHANGED <<report, s, truth>>
       \/ /\ case.fixture
          /\ SandboxFails
          /\ report' = [report EXCEPT !.total = @ + 1]
          /\ truth' = [truth EXCEPT ![c].runs = @ + 1]
          /\ s' = s + 1
          /\ UNCHANGED <<mounted, pc, output>>
       \/ /\ ~case.fixture
          /\ mounted' = IF store = {} THEN "none" ELSE "shared"
          /\ pc' = "run"
          /\ output' = FreshOutput
          /\ UNCHANGED <<disk, report, s, truth>>
    /\ UNCHANGED <<ledger, window, rc, suite, store, c, adapters, exit>>

(***************************************************************************)
(* spg_eval_judge; the step bounds of an expectation are left out, they    *)
(* fail a run exactly as a termination does.                               *)
(***************************************************************************)
Judge(k, run) ==
    IF run.status # "ok" THEN "fail_run_error"
    ELSE IF k.term # AnyTerm /\ run.term # k.term THEN "fail_termination"
    ELSE IF k.obs /\ ~run.seen THEN "fail_observation"
    ELSE "pass"

(***************************************************************************)
(* The rungs of a run: a harness error earns none, a rejected reply did    *)
(* not parse, a denied one parsed and did not pass the gate.               *)
(***************************************************************************)
Parsed(outcome, run) == outcome # "fail_run_error" /\ run.term # "rejected"
Gated(outcome, run) == Parsed(outcome, run) /\ run.term # "denied"

(***************************************************************************)
(* The diagnosis of a reply is the first word of its reason, if that word  *)
(* is in the closed set; the ids it names after it are invented when the   *)
(* snapshot does not hold them.                                            *)
(***************************************************************************)
Diagnosis(reply) == IF reply.cat \in Categories THEN reply.cat ELSE NoDiag
NamesAbsent(k, reply) == k.machine /\ "absent" \in reply.ids
DiagRight(k, reply) == k.diag = NoDiag \/ Diagnosis(reply) = k.diag

(* A wrong diagnosis overrules a pass; on the scripted path, so does a     *)
(* goal that the machine does not satisfy.  An error return of the         *)
(* evaluation of the goal would leave the pass standing; it has none but   *)
(* for a null argument (machine_goal.c:152), and none is null here.        *)
OverruleDiagnosis(k, out, outcome) ==
    IF outcome = "pass" /\ ~DiagRight(k, out) THEN "fail_observation" ELSE outcome

OverruleGoalNever(k, run, outcome) == outcome
OverruleGoal(k, run, outcome) ==
    IF outcome = "pass" /\ k.goal /\ k.machine /\ ~run.satisfied
    THEN "fail_observation" ELSE outcome

One(b) == IF b THEN 1 ELSE 0

(***************************************************************************)
(* What a sample adds to the counters of its case and of the report.       *)
(***************************************************************************)
Rungs(k, run, out, verdict) ==
    [passed   |-> One(verdict = "pass"),
     parsed   |-> One(Parsed(Judge(k, run), run)),
     gated    |-> One(Gated(Judge(k, run), run)),
     answered |-> One(k.obs /\ out.answer),
     diagOk   |-> One(k.diag # NoDiag /\ DiagRight(k, out)),
     halluc   |-> One(k.diag # NoDiag /\ NamesAbsent(k, out))]

CaseTally(n, a) ==
    [runs |-> n.runs, passed |-> n.passed + a.passed, parsed |-> n.parsed + a.parsed,
     gated |-> n.gated + a.gated, answered |-> n.answered + a.answered,
     diagOk |-> n.diagOk + a.diagOk, halluc |-> n.halluc + a.halluc]

Tally(r, a) ==
    [total |-> r.total + 1, passed |-> r.passed + a.passed,
     parsed |-> r.parsed + a.parsed, gated |-> r.gated + a.gated,
     ncases |-> r.ncases, cases |-> [r.cases EXCEPT ![c] = CaseTally(@, a)]]

(***************************************************************************)
(* What a run did in fact, judged by itself and without the report: it     *)
(* ended as the case asks, the observation was seen, the diagnosis in its  *)
(* OWN reply is the expected one and the goal holds.                       *)
(***************************************************************************)
Good(k, run) ==
    /\ run.status = "ok"
    /\ k.term \in {AnyTerm, run.term}
    /\ k.obs => run.seen
    /\ DiagRight(k, run.reply)
    /\ (k.goal /\ k.machine /\ ~RealModel(k)) => run.satisfied

\* The runs that differ in something this case asks about.
RunsOf(k) ==
    {r \in Runs : /\ ~k.obs => ~r.seen /\ ~r.reply.answer
                  /\ k.diag = NoDiag => r.reply.cat = NoDiag /\ r.reply.ids = {}
                  /\ ~k.goal => ~r.satisfied
                  /\ ~k.machine => ~r.paused
                  /\ r.status # "ok" => r.term = "max_steps" /\ ~r.seen}

(***************************************************************************)
(* The agent runs: it writes to the directory and the store it was given,  *)
(* to the pause ledger and the history window of the case, and, unless it  *)
(* fails early, to the reply buffer.                                       *)
(***************************************************************************)
AgentRuns(run) ==
    /\ output' = IF run.reply.said THEN run.reply ELSE output
    /\ disk' = IF case.fixture
               THEN [disk EXCEPT ![Dir] = @ \cup {"residue"}] ELSE disk
    /\ store' = IF mounted = "shared" THEN store \cup {"residue"} ELSE store
    /\ ledger' = (ledger \/ (case.machine /\ run.paused))
    /\ window' = IF case.machine THEN "ticked" ELSE window
    /\ truth' = [truth EXCEPT ![c] =
                    [good |-> @.good + One(Good(case, run)),
                     answers |-> @.answers + One(case.obs /\ run.reply.answer),
                     halluc |-> @.halluc + One(/\ case.diag # NoDiag
                                               /\ NamesAbsent(case, run.reply)),
                     runs |-> @.runs + 1]]
    /\ s' = s + 1
    /\ pc' = "sample"
    /\ UNCHANGED <<rc, suite, c, adapters, mounted, exit>>

ModelSample ==
    /\ pc = "run" /\ RealModel(case)
    /\ \E run \in RunsOf(case) :
        /\ AgentRuns(run)
        /\ report' = Tally(report, Rungs(case, run, output',
                               OverruleDiagnosis(case, output', Judge(case, run))))

\* spg_eval_run_case opens and closes a fake adapter around the run.
ScriptSample ==
    /\ pc = "run" /\ ~RealModel(case)
    /\ \E run \in RunsOf(case) :
        /\ AgentRuns(run)
        /\ report' = Tally(report, Rungs(case, run, output',
                       OverruleGoal(case, run,
                         OverruleDiagnosis(case, output', Judge(case, run)))))

\* The fake adapter of a scripted sample does not open: the suite is abandoned.
ScriptRefused ==
    /\ pc = "run" /\ ~RealModel(case)
    /\ Abandon("invalid_arg")
    /\ UNCHANGED <<ledger, window, suite, store, c, s, adapters, disk, mounted, output,
                   report, truth, exit>>

CloseAdapter ==
    /\ pc = "sample" /\ s = Samples
    /\ adapters' = IF RealModel(case) THEN adapters - 1 ELSE adapters
    /\ pc' = "endcase"
    /\ UNCHANGED <<ledger, window, rc, suite, store, c, s, disk, mounted, output, report,
                   truth, exit>>

EndCase ==
    /\ pc = "endcase"
    /\ report' = [report EXCEPT !.cases[c].runs = s, !.ncases = @ + 1]
    /\ c' = c + 1
    /\ pc' = "case"
    /\ UNCHANGED <<ledger, window, rc, suite, store, s, adapters, disk, mounted, output,
                   truth, exit>>

EndSuite ==
    /\ pc = "case"
    /\ c > Len(suite) \/ report.ncases >= MaxCases
    /\ pc' = "done"
    /\ UNCHANGED <<ledger, window, rc, suite, store, c, s, adapters, disk, mounted, output,
                   report, truth, exit>>

(***************************************************************************)
(* eval_command: an abandoned suite is a failure, and so is a report in    *)
(* which a run did not pass or nothing ran.                                *)
(***************************************************************************)
ReportOk(r) == r.total > 0 /\ r.passed = r.total

Exit ==
    /\ pc = "done" /\ exit = -1
    /\ exit' = IF rc = "ok" /\ ReportOk(report) THEN 0 ELSE 1
    /\ UNCHANGED <<ledger, window, pc, rc, suite, store, c, s, adapters, disk, mounted,
                   output, report, truth>>

Next ==
    \/ Usage \/ LoadSuite \/ LoadProfile \/ ReadCase \/ ReadHistory \/ ReadMachine
    \/ ReadGoal \/ ReadProcessProfile \/ ReadScript \/ OpenAdapter
    \/ PrepareSample \/ ModelSample \/ ScriptSample \/ ScriptRefused \/ CloseAdapter
    \/ EndCase \/ EndSuite \/ Exit

Spec == Init /\ [][Next]_vars

-----------------------------------------------------------------------------
(***************************************************************************)
(* Properties                                                              *)
(***************************************************************************)

TypeOK ==
    /\ pc \in {"load", "profile", "case", "history", "machine", "goal",
               "procs", "script", "adapter", "sample",
               "run", "endcase", "done"}
    /\ rc \in Statuses
    /\ s \in 0..Samples /\ c \in 1..Len(suite) + 1
    /\ adapters \in Nat
    /\ store \subseteq Marks
    /\ disk \in [Dirs -> SUBSET Marks]
    /\ mounted \in {"none", "shared", "sandbox"}
    /\ output \in Replies
    /\ report.total \in Nat /\ report.ncases \in 0..MaxCases
    /\ exit \in {-1, 0, 1, 2}

\* The sum of a function of the cases.
Sum(f) ==
    LET upTo[n \in 0..MaxCases] == IF n = 0 THEN 0 ELSE upTo[n - 1] + f[n]
    IN  upTo[MaxCases]

RunsOfCases == [i \in 1..MaxCases |-> report.cases[i].runs]
PassedOfCases == [i \in 1..MaxCases |-> report.cases[i].passed]
ParsedOfCases == [i \in 1..MaxCases |-> report.cases[i].parsed]
GatedOfCases == [i \in 1..MaxCases |-> report.cases[i].gated]

(***************************************************************************)
(* Nothing is left over from one sample to the next: when a sample of a    *)
(* case with a fixture starts, its directory holds the fixture and the     *)
(* shared store and nothing an earlier sample, an earlier case of the same *)
(* name or an earlier evaluation left there, and the run is given the      *)
(* sandbox's own store; and the adapter of a case is closed on every way   *)
(* out of it, finished or abandoned.                                       *)
(***************************************************************************)
NothingLeftOver ==
    /\ (pc = "run" /\ case.fixture) =>
          /\ disk[Dir] = {"fixture"} \cup store
          /\ mounted = "sandbox"
    /\ adapters = One(pc \in {"sample", "run"} /\ RealModel(case))

(***************************************************************************)
(* The report is about the runs that were made.  Between two cases its     *)
(* totals are the sums of its cases, however a sample ended (a sandbox     *)
(* that could not be built, a remote that was not there, a verdict         *)
(* overruled after the ladder was tallied); and an answer is scored for    *)
(* the sample that gave it: the reply buffer is static, so a run that      *)
(* fails before it decodes anything leaves whatever the buffer held.       *)
(***************************************************************************)
ReportHonest ==
    /\ \A i \in 1..MaxCases :
          /\ report.cases[i].answered = truth[i].answers
          /\ report.cases[i].halluc = truth[i].halluc
          /\ report.cases[i].passed = truth[i].good
    /\ pc = "case" =>
          /\ report.total = Sum(RunsOfCases)
          /\ report.passed = Sum(PassedOfCases)
          /\ report.parsed = Sum(ParsedOfCases)
          /\ report.gated = Sum(GatedOfCases)
          /\ report.ncases = c - 1
          /\ \A i \in 1..report.ncases : report.cases[i].runs = truth[i].runs

(***************************************************************************)
(* eval exits with 0 only when every case of the suite up to the limit was *)
(* run Samples times and every one of those runs really did what its case  *)
(* asks.                                                                   *)
(***************************************************************************)
ExitZeroEarned ==
    exit = 0 =>
        \A i \in 1..(IF Len(suite) < MaxCases THEN Len(suite) ELSE MaxCases) :
            truth[i].good = Samples /\ truth[i].runs = Samples

(***************************************************************************)
(* The ladder of the report, which main.c declares monotone by             *)
(* construction: passing runs are gated, gated runs parsed.  A case that   *)
(* expects "denied" or "rejected" passes without the rungs below it.       *)
(***************************************************************************)
LadderMonotone ==
    \A i \in 1..MaxCases :
        /\ report.cases[i].passed <= report.cases[i].gated
        /\ report.cases[i].gated <= report.cases[i].parsed

(***************************************************************************)
(* A run starts with no process in its pause ledger and only the seeded    *)
(* snapshots in its history window.  Both objects are static and are not   *)
(* reset between samples.                                                  *)
(***************************************************************************)
RunStartsFresh ==
    (pc = "run" /\ case.machine) => ~ledger /\ window = "seeded"
=============================================================================
