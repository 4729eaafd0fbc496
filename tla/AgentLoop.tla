----------------------------- MODULE AgentLoop ------------------------------
(***************************************************************************)
(* The governed agent loop: spg_agent_loop_run (src/run/agent_loop.c), the  *)
(* orchestrator tick it drives (src/run/orchestrator.c), the actor step     *)
(* (src/actor/actor.c) and the journal records and charges each of them     *)
(* makes. One step of the loop is the sequence of actions                   *)
(*                                                                          *)
(*   BeginStep -> Actor -> Parse -> Gate -> Execute -> EndStep              *)
(*                                                                          *)
(* and `pc' is the action that comes next. Any journal append may fail      *)
(* (JournalFaults); a failed append or executor ends the tick with a status *)
(* other than SPG_OK, which ends the run before the step is charged.        *)
(*                                                                          *)
(* Around the loop stands spg_agent_run with its last watchdog service      *)
(* (src/run/agent_run.c) and agent_command with its best-of-N attempts, the     *)
(* verdict and the release of the paused processes (src/cli/main.c): they   *)
(* write to the same journal,                                               *)
(*                                                                          *)
(*   EndRun -> NextAttempt / LastAttempt -> Verdict -> Release              *)
(*                                                                          *)
(* What the executors do to the outside world is the subject of the modules *)
(* PlantLoop and MachinePause; here an executor is what the loop sees of    *)
(* it: the records it appends, the observation it leaves, its status.       *)
(***************************************************************************)
EXTENDS Policy

CONSTANTS
    Recommendations,    \* the well-formed recommendations a model may emit
    MaxSteps,           \* config.max_steps
    MaxRepairs,         \* config.max_repairs
    StepBudget,         \* config.step_budget, 0 = unlimited
    TokenBudget,        \* config.token_budget, 0 = unlimited
    WallBudget,         \* TRUE iff config.wall_budget_ms > 0
    MaxDecode,          \* base.max_decode_tokens
    FinishOnNoProgress, \* config.finish_on_no_progress
    WriteJournal,       \* base.write_journal
    Attached,           \* which of state->store, ->sim, ->device are set
    RefreshMachine,     \* config.refresh_machine with a live host
    JournalFaults,      \* TRUE iff spg_journal_writer_append may fail
    Observations,       \* the texts executors put in the observation buffer
    Repairs,            \* the texts self-repair puts there: the hint, with
                        \* or without a stored lesson in front
    Marked,             \* the texts that contain config.observation_marker
    Attempts,           \* --best-of
    HasExpect,          \* the run file declares (expect (observation ...))
    HasPostCheck,       \* the run file declares a post-check command
    MaxPaused           \* the most processes a run leaves in the pause ledger

(* The cleared observation buffer. *)
Empty == "empty"

ASSUME AgentLoopAssumption ==
    /\ Recommendations \subseteq [kind : ActionKinds, capability : STRING,
                                  cost : U64 \ {0}, target : STRING,
                                  uses_network : BOOLEAN]
    /\ \A r \in Recommendations :
          r.uses_network = (r.kind = "ssh_auth_probe")
    /\ MaxSteps \in Nat \ {0}
    /\ MaxRepairs \in Nat
    /\ StepBudget \in U64 /\ TokenBudget \in U64 /\ MaxDecode \in U64
    /\ WallBudget \in BOOLEAN /\ FinishOnNoProgress \in BOOLEAN
    /\ WriteJournal \in BOOLEAN
    /\ Attached \subseteq {"store", "sim", "device"}
    /\ RefreshMachine \in BOOLEAN /\ JournalFaults \in BOOLEAN
    /\ Repairs # {}
    /\ Attempts \in Nat \ {0} /\ MaxPaused \in Nat
    /\ HasExpect \in BOOLEAN /\ HasPostCheck \in BOOLEAN

VARIABLES
    pc,        \* the part of the run that comes next; "returned" = the loop
               \* has returned, "done" = agent_command has
    step,      \* the loop index: ticks that have returned SPG_OK
    journal,   \* the records appended so far
    parent,    \* parent_sequence threaded through the steps, 0 = none
    tick,      \* the orchestrator result of the step in progress
    usage,     \* usage.consumed: action classes, inference_steps, tokens
    obs,       \* workspace.observation_buf
    prev_obs,  \* prev_obs_hash, Empty while have_prev_obs is false
    snapshot,  \* profile ids in state->machine
    result,    \* spg_agent_loop_result
    dispatched,\* history: per class, cost of every action an executor was given
               \* in this attempt
    shown,     \* history: observations that executed steps of this attempt
               \* left in the buffer
    attempt,   \* the attempt that runs
    best       \* of the attempts so far: best_rank, the verdict, steps_taken

loopVars == <<pc, step, journal, parent, tick, usage, obs, prev_obs, snapshot,
              result, dispatched, shown>>

outer == <<attempt, best>>

vars == <<loopVars, outer>>

-----------------------------------------------------------------------------
(* Journal records carry what the properties tell apart: the event kind, who  *)
(* appended it, the parent sequence, the step (timestamp_ns is step + 1), the *)
(* attempt and whether the event status is SPG_OK. A record's sequence is its *)
(* position.                                                                  *)
Events == {"model_input", "model_output", "graph", "memory", "error", "result",
           "policy_decision", "action", "sim"}

(* The writers of a step, and those that write when the loop has returned: the *)
(* watchdog service of spg_agent_run, the verdict and the release of the       *)
(* paused processes. The latter all hang under 0.                              *)
StepWriters == {"watchdog", "actor", "tick", "gate", "executor"}
EndWriters  == {"service", "verdict", "release"}
Writers     == StepWriters \cup EndWriters

Record(by, event, par, ok) ==
    [by |-> by, event |-> event, parent |-> par, tick |-> step,
     try |-> attempt, ok |-> ok]

(* n records of one writer, the first under `par', each next one under the    *)
(* record before it.                                                          *)
Chain(by, events, n, par, oks) ==
    [i \in 1 .. (IF WriteJournal THEN n ELSE 0) |->
        Record(by, events[i], IF i = 1 THEN par ELSE Len(journal) + i - 1,
               oks[i])]

(* spg_journal_writer_append as its callers see it: nothing is written when   *)
(* write_journal is off.                                                      *)
Append1(log, rec) == IF WriteJournal THEN Append(log, rec) ELSE log

(* The sequence the append returned, 0 when nothing was written. *)
SeqAfter(log) == IF WriteJournal THEN Len(log) + 1 ELSE 0

(* sequence != 0 ? sequence : fallback *)
OrElse(seq, fallback) == IF seq # 0 THEN seq ELSE fallback

NoTick == [rec |-> <<>>, decision |-> "none", stage |-> "not_started",
           output_seq |-> 0, policy_seq |-> 0, exec_seq |-> 0,
           tokens |-> 0, mutated |-> FALSE]

Stages == {"not_started", "actor_done", "recommendation_rejected", "finished",
           "policy_gated", "sim_executed", "memory_executed", "shell_executed",
           "machine_executed", "device_executed"}

Terminations == {"running", "finished", "max_steps", "rejected", "denied",
                 "budget", "error"}

Counters == Classes \cup {"inference_steps", "tokens"}

NoUsage    == [c \in Counters |-> 0]
NoResult   == [termination |-> "running", steps_taken |-> 0,
               repairs_used |-> 0, actions_executed |-> 0,
               observation_seen |-> FALSE]
NoDispatch == [c \in Classes |-> 0]

Init ==
    /\ pc = "check"
    /\ step = 0
    /\ journal = <<>>
    /\ parent = 0
    /\ tick = NoTick
    /\ usage = NoUsage
    /\ obs = Empty
    /\ prev_obs = Empty
    /\ snapshot = DOMAIN MayPause
    /\ result = NoResult
    /\ dispatched = NoDispatch
    /\ shown = {}
    /\ attempt = 1
    /\ best = [rank |-> -2, pass |-> TRUE, steps |-> 0]

(* return from spg_agent_loop_run *)
Stop(why) ==
    /\ pc' = "returned"
    /\ result' = [result EXCEPT !.termination = why]

(* A tick that returned a status other than SPG_OK: steps_taken counts it,    *)
(* nothing else of the step is accounted.                                     *)
TickError ==
    /\ pc' = "returned"
    /\ result' = [result EXCEPT !.termination = "error",
                                !.steps_taken = step + 1]
    /\ UNCHANGED <<step, parent, usage, prev_obs, snapshot>>

-----------------------------------------------------------------------------
(* The checks before a tick. The loop condition, off by one: *)
StepsLeftInclusive == step <= MaxSteps

(* step < config->max_steps *)
StepsLeft == step < MaxSteps

(* token_budget and step_budget are tested between steps, on what the steps    *)
(* before have used.                                                          *)
BudgetSpent ==
    \/ TokenBudget > 0 /\ usage["tokens"] >= TokenBudget
    \/ StepBudget > 0 /\ usage["inference_steps"] >= StepBudget

BudgetStop ==
    /\ pc = "check" /\ StepsLeft
    /\ BudgetSpent \/ WallBudget
    /\ Stop("budget")
    /\ UNCHANGED <<step, journal, parent, tick, usage, obs, prev_obs,
                   snapshot, dispatched, shown>>

(* The for loop runs out of steps. *)
StepCap ==
    /\ pc = "check" /\ ~StepsLeft
    /\ Stop("max_steps")
    /\ UNCHANGED <<step, journal, parent, tick, usage, obs, prev_obs,
                   snapshot, dispatched, shown>>

(* The budget test passes and the watchdog is serviced. When the watchdog     *)
(* trips, its record becomes the parent of the step; an append that fails     *)
(* there is ignored.                                                          *)
BeginStep ==
    /\ pc = "check" /\ StepsLeft /\ ~BudgetSpent
    /\ \/ UNCHANGED <<journal, parent>>
       \/ /\ "device" \in Attached /\ WriteJournal
          /\ journal' = Append(journal, Record("watchdog", "action", parent, FALSE))
          /\ parent' = Len(journal')
    /\ tick' = NoTick
    /\ pc' = "actor"
    /\ UNCHANGED <<step, usage, obs, prev_obs, snapshot, result, dispatched,
                   shown>>

-----------------------------------------------------------------------------
(* spg_actor_step: four chained records (input, output, graph, memory); the   *)
(* step may fail before each of them: the context does not fit, the model     *)
(* errs after its output was recorded, the graph or the fact table is full,   *)
(* an append fails.                                                           *)
ActorEvents == <<"model_input", "model_output", "graph", "memory">>

ActorRecords(n, modelOk) ==
    Chain("actor", ActorEvents, n, parent, <<TRUE, modelOk, TRUE, TRUE>>)

Actor ==
    /\ pc = "actor"
    /\ \/ \E tokens \in 0 .. MaxDecode :
             /\ journal' = journal \o ActorRecords(4, TRUE)
             /\ tick' = [tick EXCEPT
                           !.stage = "actor_done", !.tokens = tokens,
                           !.output_seq = IF WriteJournal
                                            THEN Len(journal) + 2 ELSE 0]
             /\ pc' = "parse"
             /\ UNCHANGED <<step, parent, usage, prev_obs, snapshot, result>>
       \/ /\ \E n \in 0 .. 3, modelOk \in BOOLEAN :
                /\ modelOk \/ n = 2
                /\ journal' = journal \o ActorRecords(n, modelOk)
          /\ TickError
          /\ UNCHANGED tick
    /\ UNCHANGED <<obs, dispatched, shown>>

-----------------------------------------------------------------------------
(* spg_recommendation_parse and what the tick does with its verdict. A reply  *)
(* that overflows the token or node arrays is an error of the tick.           *)
TickParent == OrElse(tick.output_seq, parent)

Reject ==
    /\ journal' = Append1(journal, Record("tick", "error", TickParent, FALSE))
    /\ tick' = [tick EXCEPT !.stage = "recommendation_rejected"]
    /\ pc' = "account"

Finish ==
    /\ journal' = Append1(journal, Record("tick", "result", TickParent, TRUE))
    /\ tick' = [tick EXCEPT !.stage = "finished"]
    /\ pc' = "account"

Parse ==
    /\ pc = "parse"
    /\ \/ /\ \/ Reject
             \/ Finish
             \/ \E r \in Recommendations :
                   /\ tick' = [tick EXCEPT !.rec = r]
                   /\ pc' = "gate"
                   /\ UNCHANGED journal
          /\ UNCHANGED <<step, parent, usage, prev_obs, snapshot, result>>
       \/ TickError /\ UNCHANGED <<journal, tick>>
    /\ UNCHANGED <<obs, dispatched, shown>>

-----------------------------------------------------------------------------
(* spg_policy_gate_step: decide, journal, and on a denial add the graph nodes *)
(* (which may fail after the decision was journalled).                        *)
GateRecord(d) == Record("gate", "policy_decision", TickParent, d = "allow")

(* A tick that stops on refused capabilities only. *)
ProceedsUnlessRefused(d) ==
    d \notin {"unknown_capability", "disabled_capability", "kind_mismatch"}

(* The tick goes on to an executor on SPG_POLICY_DECISION_ALLOW alone. *)
Proceeds(d) == d = "allow"

Gate ==
    /\ pc = "gate"
    /\ LET d == GateDecision(tick.rec, usage, snapshot)
       IN  \/ /\ journal' = Append1(journal, GateRecord(d))
              /\ tick' = [tick EXCEPT !.decision = d, !.stage = "policy_gated",
                                      !.policy_seq = SeqAfter(journal)]
              /\ pc' = IF Proceeds(d) THEN "execute" ELSE "account"
              /\ UNCHANGED <<step, parent, usage, prev_obs, snapshot, result>>
           \/ /\ JournalFaults /\ WriteJournal
              /\ TickError /\ UNCHANGED <<journal, tick>>
           \/ /\ d # "allow"
              /\ journal' = Append1(journal, GateRecord(d))
              /\ TickError /\ UNCHANGED tick
    /\ UNCHANGED <<obs, dispatched, shown>>

-----------------------------------------------------------------------------
(* The executors, seen from the tick. Their parent is the gate's record.      *)
ExecParent == OrElse(tick.policy_seq, TickParent)

Dispatch ==
    dispatched' = [dispatched EXCEPT ![ClassOf(tick.rec.kind)] =
                                         @ + tick.rec.cost]

(* An executor returned SPG_OK after appending `events'; `fresh' tells whether *)
(* it wrote the observation buffer, `mutated' whether the simulator changed.  *)
Executed(stage, events, fresh, mutated) ==
    /\ journal' = journal \o Chain("executor", events, Len(events), ExecParent,
                                   <<TRUE, TRUE, TRUE>>)
    /\ tick' = [tick EXCEPT !.stage = stage, !.mutated = mutated,
                            !.exec_seq = IF WriteJournal
                                           THEN Len(journal) + Len(events)
                                           ELSE 0]
    /\ pc' = "account"
    /\ shown' = IF fresh THEN shown \cup {obs'} ELSE shown
    /\ UNCHANGED <<step, parent, usage, prev_obs, snapshot, result>>

(* An executor failed after it may have acted: n of its records were written. *)
ExecError(events, n) ==
    /\ journal' = journal \o Chain("executor", events, n, ExecParent,
                                   <<TRUE, TRUE, TRUE>>)
    /\ TickError
    /\ UNCHANGED <<tick, shown>>

AppendFails == JournalFaults /\ WriteJournal

(* spg_mem_executor_step: one record; only a read that finds its entry writes *)
(* the shared observation buffer.                                             *)
ExecuteMemory ==
    /\ pc = "execute" /\ tick.rec.kind \in MemoryKinds
    /\ "store" \in Attached
    /\ Dispatch
    /\ \/ /\ tick.rec.kind = "memory_read"
          /\ obs' \in Observations
          /\ Executed("memory_executed", <<"memory">>, TRUE, FALSE)
       \/ /\ Executed("memory_executed", <<"memory">>, FALSE, FALSE)
          /\ UNCHANGED obs
       \/ /\ AppendFails /\ ExecError(<<"memory">>, 0)
          /\ UNCHANGED obs

(* spg_device_executor_step: one record whatever the outcome; a channel name   *)
(* longer than any channel's is an error without one.                         *)
ExecuteDevice ==
    /\ pc = "execute" /\ tick.rec.kind = "device_write"
    /\ Dispatch
    /\ \/ /\ tick.rec.target # NoTarget
          /\ Executed("device_executed", <<"action">>, FALSE, FALSE)
       \/ /\ AppendFails \/ tick.rec.target = NoTarget
          /\ ExecError(<<"action">>, 0)
    /\ UNCHANGED obs

(* spg_machine_executor_step: the append's status is discarded, so a failed   *)
(* append leaves an executed action without a record.                         *)
ExecuteMachine ==
    /\ pc = "execute" /\ tick.rec.kind \in MachineKinds
    /\ Dispatch
    /\ \/ Executed("machine_executed", <<"action">>, FALSE, FALSE)
       \/ AppendFails /\ Executed("machine_executed", <<>>, FALSE, FALSE)
    /\ UNCHANGED obs

(* spg_shell_executor_step: always overwrites the observation, also when the  *)
(* boundary refuses the command.                                              *)
ExecuteShell ==
    /\ pc = "execute" /\ tick.rec.kind = "local_shell"
    /\ Dispatch
    /\ obs' \in Observations
    /\ \/ Executed("shell_executed", <<"action">>, TRUE, FALSE)
       \/ AppendFails /\ ExecError(<<"action">>, 0)

(* No executor exists for ssh_auth_probe: the tick ends at POLICY_GATED with  *)
(* an ALLOW decision.                                                         *)
SkipSsh ==
    /\ pc = "execute" /\ tick.rec.kind = "ssh_auth_probe"
    /\ pc' = "account"
    /\ UNCHANGED <<step, journal, parent, tick, usage, obs, prev_obs, snapshot,
                   result, dispatched, shown>>

(* spg_sim_executor_step: sim, graph and memory records, then the payload is  *)
(* mirrored into the observation buffer. The world is already changed when a  *)
(* later record or the graph fails.                                           *)
SimEvents == <<"sim", "graph", "memory">>

ExecuteSim ==
    /\ pc = "execute" /\ tick.rec.kind = "simulator" /\ "sim" \in Attached
    /\ Dispatch
    /\ \/ /\ obs' \in Observations
          /\ \E mutated \in BOOLEAN :
                Executed("sim_executed", SimEvents, TRUE, mutated)
       \/ /\ \E n \in 0 .. 2 : ExecError(SimEvents, n)
          /\ UNCHANGED obs

(* An allowed action whose subsystem is not attached is an error. *)
MissingExecutor ==
    /\ pc = "execute"
    /\ \/ tick.rec.kind \in MemoryKinds /\ "store" \notin Attached
       \/ tick.rec.kind = "simulator" /\ "sim" \notin Attached
    /\ TickError
    /\ UNCHANGED <<journal, tick, obs, dispatched, shown>>

Execute == \/ ExecuteMemory \/ ExecuteDevice \/ ExecuteMachine
           \/ ExecuteShell  \/ ExecuteSim    \/ SkipSsh  \/ MissingExecutor

-----------------------------------------------------------------------------
(* After the tick. add_u64 saturates. *)
AddU64(acc, v) == IF acc > U64Max - v THEN U64Max ELSE acc + v

(* The counters accumulate_usage charges with the cost of the action, by the   *)
(* stage the tick reached; device_executed is not among them.                 *)
Charged ==
    IF tick.stage = "sim_executed"          THEN {"sim_actions"}
    ELSE IF tick.stage = "memory_executed"  THEN {"memory_actions"}
    ELSE IF tick.stage = "machine_executed" THEN {"machine_actions"}
    ELSE IF tick.stage = "shell_executed"   THEN {"shell_actions"}
    ELSE {}

(* accumulate_usage that charges one unit an action, whatever its cost. *)
AccumulateUsageFlat ==
    [c \in Counters |->
        IF c = "inference_steps" THEN AddU64(usage[c], 1)
        ELSE IF c = "tokens"     THEN AddU64(usage[c], tick.tokens)
        ELSE IF c \in Charged    THEN AddU64(usage[c], 1)
        ELSE usage[c]]

(* accumulate_usage: one inference step, the decoded tokens, and the cost of  *)
(* an action that was executed.                                               *)
AccumulateUsage ==
    [c \in Counters |->
        IF c = "inference_steps" THEN AddU64(usage[c], 1)
        ELSE IF c = "tokens"     THEN AddU64(usage[c], tick.tokens)
        ELSE IF c \in Charged    THEN AddU64(usage[c], tick.rec.cost)
        ELSE usage[c]]

(* The record of an executor that step_sequence looks at: not the machine's,  *)
(* not the device's.                                                          *)
ReportedSeq ==
    IF tick.stage \in {"machine_executed", "device_executed"}
      THEN 0 ELSE tick.exec_seq

(* step_sequence that only looks at the executors and the gate. *)
StepSequenceNoActor == OrElse(ReportedSeq, tick.policy_seq)

(* step_sequence *)
StepSequence ==
    OrElse(ReportedSeq, OrElse(tick.policy_seq, OrElse(tick.output_seq, parent)))

(* The part of a step every tick that returned SPG_OK goes through. *)
Account ==
    /\ pc = "account"
    /\ usage' = AccumulateUsage
    /\ parent' = StepSequence
    /\ UNCHANGED <<journal, tick, dispatched, shown>>

(* The success marker is latched while the step's observation is current:     *)
(* whatever stands in the buffer, a repair text of the step before included.  *)
MarkerSeen == result.observation_seen \/ obs \in Marked

(* The fields of the result every accounted step sets. *)
Stepped(res) == [res EXCEPT !.steps_taken = step + 1,
                            !.observation_seen = MarkerSeen]

(* return SPG_OK with a termination *)
Return(why, res) ==
    /\ pc' = "returned"
    /\ result' = [Stepped(res) EXCEPT !.termination = why]
    /\ UNCHANGED step

(* the next iteration of the for loop *)
Continue(res) ==
    /\ pc' = "check"
    /\ step' = step + 1
    /\ result' = Stepped(res)

EndFinished ==
    /\ Account
    /\ tick.stage = "finished"
    /\ Return("finished", result)
    /\ UNCHANGED <<obs, prev_obs, snapshot>>

(* Self-repair that retries the step before it is accounted. *)
EndRejectedForever ==
    /\ pc = "account" /\ tick.stage = "recommendation_rejected"
    /\ obs' \in Repairs
    /\ pc' = "check"
    /\ UNCHANGED <<step, journal, parent, tick, usage, prev_obs, snapshot,
                   result, dispatched, shown>>

(* repairs_used++ *)
Repaired(res) == [res EXCEPT !.repairs_used = @ + 1]

(* Self-repair: the parse error becomes the next observation, with the        *)
(* directive of a stored lesson in front if there is one, up to max_repairs   *)
(* times.                                                                     *)
EndRejected ==
    /\ Account
    /\ tick.stage = "recommendation_rejected"
    /\ \/ /\ result.repairs_used < MaxRepairs
          /\ obs' \in Repairs
          /\ Continue(Repaired(result))
       \/ /\ result.repairs_used >= MaxRepairs
          /\ Return("rejected", result)
          /\ UNCHANGED obs
    /\ UNCHANGED <<prev_obs, snapshot>>

(* The denial branch that forgets to ask for prior progress. *)
EndDeniedEager ==
    /\ Account
    /\ tick.stage = "policy_gated" /\ tick.decision # "allow"
    /\ LET converged == FinishOnNoProgress /\ tick.decision \in
                           {"capability_budget", "global_budget"}
       IN  Return(IF converged THEN "finished" ELSE "denied", result)
    /\ UNCHANGED <<obs, prev_obs, snapshot>>

(* A denial ends the run; a budget denial after progress counts as converged. *)
(* made_progress is set together with actions_executed.                       *)
EndDenied ==
    /\ Account
    /\ tick.stage = "policy_gated" /\ tick.decision # "allow"
    /\ LET converged == /\ FinishOnNoProgress
                        /\ result.actions_executed > 0
                        /\ tick.decision \in {"capability_budget",
                                               "global_budget"}
       IN  Return(IF converged THEN "finished" ELSE "denied", result)
    /\ UNCHANGED <<obs, prev_obs, snapshot>>

(* The convergence stop: a simulator step that changed nothing, or another    *)
(* step that leaves a non-empty observation equal to the remembered one.      *)
IsSim      == tick.rec.kind = "simulator"
Remembers  == FinishOnNoProgress /\ ~IsSim /\ obs # Empty
NoProgress == /\ FinishOnNoProgress
              /\ IF IsSim THEN ~tick.mutated
                          ELSE obs # Empty /\ obs = prev_obs

(* An allowed action: count it, observe the host again, test for convergence. *)
EndExecuted ==
    /\ Account
    /\ tick.decision = "allow"
    /\ snapshot' \in IF RefreshMachine THEN SUBSET DOMAIN MayPause
                                       ELSE {snapshot}
    /\ prev_obs' = IF Remembers THEN obs ELSE prev_obs
    /\ LET res == [result EXCEPT !.actions_executed = @ + 1]
       IN  IF NoProgress THEN Return("finished", res) ELSE Continue(res)
    /\ UNCHANGED obs

EndStep == EndFinished \/ EndRejected \/ EndDenied \/ EndExecuted

-----------------------------------------------------------------------------
(* When the loop has returned.                                                *)

(* The end of spg_agent_run: one more watchdog service if no tick failed. Its *)
(* record is the root of a tree of its own (no parent_sequence).              *)
EndRun ==
    /\ pc = "returned"
    /\ \/ UNCHANGED journal
       \/ /\ "device" \in Attached /\ WriteJournal
          /\ result.termination # "error"
          /\ journal' = Append(journal, Record("service", "action", 0, FALSE))
    /\ pc' = "judge"
    /\ UNCHANGED <<step, parent, tick, usage, obs, prev_obs, snapshot, result,
                   dispatched, shown, outer>>

(* spg_run_rank: the terminations from best to worst. *)
RunRank ==
    CASE result.termination = "finished"  -> 4
      [] result.termination = "max_steps" -> 3
      [] result.termination = "budget"    -> 2
      [] result.termination = "denied"    -> 1
      [] result.termination = "rejected"  -> 0
      [] OTHER                            -> -1

(* spg_eval_judge on the expectation of the run file. *)
Passes ==
    HasExpect => /\ result.termination = "finished"
                 /\ obs \in Marked \/ result.observation_seen

Rank == IF HasExpect /\ Passes THEN 100 ELSE RunRank

Unbeatable == Rank = 100 \/ (~HasExpect /\ Rank = 4)

(* The first of the best attempts is kept. *)
Keep == best' = IF Rank > best.rank
                  THEN [rank |-> Rank, pass |-> Passes,
                        steps |-> result.steps_taken]
                  ELSE best

(* Another attempt: usage, result and observation start afresh, the step count *)
(* and the parent sequence with them; journal and host are the same.           *)
NextAttempt ==
    /\ pc = "judge" /\ attempt < Attempts /\ ~Unbeatable
    /\ Keep
    /\ attempt' = attempt + 1
    /\ pc' = "check"
    /\ step' = 0 /\ parent' = 0 /\ tick' = NoTick
    /\ usage' = NoUsage /\ dispatched' = NoDispatch
    /\ obs' = Empty /\ prev_obs' = Empty /\ shown' = {}
    /\ result' = NoResult
    /\ UNCHANGED <<journal, snapshot>>

LastAttempt ==
    /\ pc = "judge" /\ (attempt = Attempts \/ Unbeatable)
    /\ Keep
    /\ pc' = "verdict"
    /\ UNCHANGED <<step, journal, parent, tick, usage, obs, prev_obs, snapshot,
                   result, dispatched, shown, attempt>>

(* A record of agent_command, under 0. *)
RootRecord(by, event, at, ok) ==
    [by |-> by, event |-> event, parent |-> 0, tick |-> at, try |-> attempt,
     ok |-> ok]

(* The verdict, if there is an expectation or a post-check: the judgement of  *)
(* the best attempt and the exit of the post-check. A failed append is        *)
(* ignored.                                                                   *)
Verdict ==
    /\ pc = "verdict"
    /\ \/ /\ HasExpect \/ HasPostCheck
          /\ \E post_ok \in IF HasPostCheck THEN BOOLEAN ELSE {TRUE} :
                journal' = Append1(journal,
                              RootRecord("verdict", "result", best.steps,
                                         best.pass /\ post_ok))
       \/ /\ (HasExpect \/ HasPostCheck) => AppendFails
          /\ UNCHANGED journal
    /\ pc' = "release"
    /\ UNCHANGED <<step, parent, tick, usage, obs, prev_obs, snapshot, result,
                   dispatched, shown, outer>>

(* spg_machine_ledger_release: what is still paused is resumed, one record a  *)
(* process, under no decision; a failed append is ignored.                    *)
Release ==
    /\ pc = "release"
    /\ \E n \in IF WriteJournal THEN 0 .. MaxPaused ELSE {0} :
       \E resumed \in [1 .. n -> BOOLEAN] :
          journal' = journal \o [i \in 1 .. n |->
                                   RootRecord("release", "action", 0,
                                              resumed[i])]
    /\ pc' = "done"
    /\ UNCHANGED <<step, parent, tick, usage, obs, prev_obs, snapshot, result,
                   dispatched, shown, outer>>

Done == pc = "done" /\ UNCHANGED vars

(* spg_agent_loop_run *)
Loop == BudgetStop \/ StepCap \/ BeginStep \/ Actor \/ Parse \/ Gate
           \/ Execute \/ EndStep

Next == \/ Loop /\ UNCHANGED outer
        \/ EndRun \/ NextAttempt \/ LastAttempt \/ Verdict \/ Release \/ Done

Spec == Init /\ [][Next]_vars

(* Where the program waits for another one: for the model's answer, for a      *)
(* command of the shell executor or the post-check, for a channel program of   *)
(* an attached device (written by the executor and the watchdog, read after an *)
(* executed step). None of these waits has an end of its own (Waiting for a    *)
(* program is cmd_executor.c's wait for the exit).                             *)
Waiting ==
    \/ pc = "actor"
    \/ pc = "execute" /\ tick.rec.kind = "local_shell"
    \/ pc = "verdict" /\ HasPostCheck
    \/ /\ "device" \in Attached
       /\ \/ pc \in {"check", "returned"}
          \/ pc = "execute" /\ tick.rec.kind = "device_write"
          \/ pc = "account" /\ tick.decision = "allow"

(* The program is one thread: it takes its next step whenever it has one and   *)
(* does not wait for another program. That the other program answers is        *)
(* assumed nowhere.                                                            *)
FairSpec == Spec /\ WF_vars(Next /\ ~Waiting)

-----------------------------------------------------------------------------
(* Properties.                                                                *)

RecordSet == [by : Writers, event : Events, parent : Nat, tick : Nat,
              try : Nat, ok : BOOLEAN]

TickSet == [rec : Recommendations \cup {<<>>},
            decision : Decisions \cup {"none"}, stage : Stages,
            output_seq : Nat, policy_seq : Nat, exec_seq : Nat,
            tokens : 0 .. MaxDecode, mutated : BOOLEAN]

ResultSet == [termination : Terminations, steps_taken : 0 .. MaxSteps,
              repairs_used : Nat, actions_executed : Nat,
              observation_seen : BOOLEAN]

(* Where control is in the middle of a step. *)
InTick == {"actor", "parse", "gate", "execute", "account"}

(* Every variable stays in its type; pc only takes the values of the tick's   *)
(* control flow (spg_agent_loop_run, spg_orchestrator_tick, agent_command).       *)
TypeOK ==
    /\ pc \in {"check", "returned", "judge", "verdict", "release", "done"}
                 \cup InTick
    /\ step \in 0 .. MaxSteps
    /\ journal \in Seq(RecordSet)
    /\ parent \in Nat
    /\ tick \in TickSet
    /\ usage \in [Counters -> U64]
    /\ obs \in Observations \cup Repairs \cup {Empty}
    /\ prev_obs \in Observations \cup Repairs \cup {Empty}
    /\ snapshot \subseteq DOMAIN MayPause
    /\ result \in ResultSet
    /\ dispatched \in [Classes -> Nat]
    /\ shown \subseteq Observations
    /\ attempt \in 1 .. Attempts
    /\ best \in [rank : -2 .. 100, pass : BOOLEAN, steps : 0 .. MaxSteps]

(* The counters the gate reads never pass the policy's global budgets, even   *)
(* next to UINT64_MAX where used + cost would wrap (would_exceed, add_u64).   *)
ChargedWithinBudget == \A c \in Classes : usage[c] <= Budgets[c]

(* What the executors were actually handed in an attempt, failed ticks        *)
(* included, stays within the budget of its class: the gate decides on a counter that is      *)
(* charged only after the executor returned, so this needs the charge of      *)
(* every earlier step (accumulate_usage) and the end of the run on an error.  *)
(* machine_actions is left out: see MachineSpendWithinBudget.                 *)
SpendWithinBudget ==
    \A c \in Classes \ {"machine_actions"} : dispatched[c] <= Budgets[c]

(* The same for machine_actions, the class of pause, resume and device_write. *)
(* SECURITY.md states it for every class.                                     *)
MachineSpendWithinBudget ==
    dispatched["machine_actions"] <= Budgets["machine_actions"]

(* A record an executor wrote hangs under a policy decision of the same step  *)
(* that says allow, directly or through the executor's own records: nothing   *)
(* is executed on a denial, on the decision of an earlier step or of the same *)
(* step of an earlier attempt (spg_orchestrator_tick's early returns).        *)
EffectsAuthorised ==
    \A i \in DOMAIN journal : journal[i].by = "executor" =>
        LET p == journal[i].parent
        IN  /\ p \in 1 .. i - 1
            /\ journal[p].tick = journal[i].tick
            /\ journal[p].try = journal[i].try
            /\ \/ journal[p].by = "gate" /\ journal[p].ok
               \/ journal[p].by = "executor"

(* The steps of an attempt are one tree rooted at the attempt's first record,  *)
(* and a step hangs under the step before it: parent_sequence survives         *)
(* rejected, repaired and watchdog-tripped steps (step_sequence and its        *)
(* fallbacks), is not carried into the next attempt, and no step hangs under   *)
(* or comes after the records that close its attempt, which are roots          *)
(* (spg_agent_run's service, the verdict, the release).                        *)
TrailConnected ==
    \A i \in DOMAIN journal : journal[i].by \in StepWriters =>
        LET r       == journal[i]
            Same(j) == j \in 1 .. i - 1 /\ journal[j].try = r.try
        IN  /\ \A j \in 1 .. i - 1 : Same(j) => journal[j].by \in StepWriters
            /\ \/ r.parent = 0 /\ \A j \in 1 .. i - 1 : ~Same(j)
               \/ Same(r.parent) /\ journal[r.parent].tick >= r.tick - 1

(* The loop reports FINISHED only on a finish recommendation or, when the     *)
(* convergence stop is on, after an allowed action: never for a run whose     *)
(* first action was refused for lack of budget.                               *)
FinishIsEarned ==
    result.termination = "finished" =>
        \/ tick.stage = "finished"
        \/ FinishOnNoProgress /\ result.actions_executed > 0

(* A marker that an executed step showed is latched, whatever later steps      *)
(* wrote over it; and one that is latched was shown by a step, or stood in     *)
(* what the loop itself put into the buffer: a repair text, which a stored     *)
(* lesson is part of, or the empty text, which contains an empty marker.       *)
MarkerLatched ==
    pc \notin InTick /\ result.termination # "error" =>
        /\ shown \cap Marked # {} => result.observation_seen
        /\ result.observation_seen =>
              \/ shown \cap Marked # {}
              \/ result.repairs_used > 0 /\ Repairs \cap Marked # {}
              \/ Empty \in Marked

(* The token budget is overrun by less than one decode, the step budget not   *)
(* at all, although both are only tested between steps.                       *)
BudgetOvershoot ==
    /\ TokenBudget > 0 => usage["tokens"] < TokenBudget + MaxDecode
    /\ StepBudget > 0 => usage["inference_steps"] <= StepBudget

(* What spg_agent_loop_run reports is what happened, however repairs,         *)
(* denials, executed steps and budgets mix: a step that did not end the run   *)
(* was a counted repair or a counted action, FINISHED was earned, the marker  *)
(* of an executed step is never lost nor seen where no text of the attempt    *)
(* could hold it, and no budget is overrun by more than the last decode.      *)
ResultHonest ==
    /\ result.repairs_used <= MaxRepairs
    /\ pc = "check" => step = result.repairs_used + result.actions_executed
    /\ FinishIsEarned
    /\ MarkerLatched
    /\ BudgetOvershoot

(* Every run ends with its last attempt judged, the verdict written and the    *)
(* ledger released, unless it waits for ever for one program it has started or *)
(* asked: repairs, denials, budgets and attempts never go round without end.   *)
Terminates == <>(pc = "done") \/ <>[]Waiting
=============================================================================
