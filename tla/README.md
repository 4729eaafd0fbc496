# geistshell in TLA+

A verification project for geistshell, the governed agent shell: TLA+ modules for
its components, TLC configurations, and proofs checked by TLAPS. Every definition
is translated from the C source; `PROJECT.json` maps each one to its lines. Source
paths below are relative to the repository's `src/` (`run/agent_loop.c`).

## 1. The system

A run asks a language model for one *recommendation* at a time, parses it,
decides it against a policy, executes it if allowed, and journals every stage.
Around that loop: what the model is shown, how its answer is decoded, what it
remembers, how its runs are evaluated and what is learnt from them.

| Component | State | Operations | Hard behaviour | Correct when |
|---|---|---|---|---|
| Agent loop (`run/agent_loop.c`, `run/agent_run.c`, best-of-N in `cli/main.c`) | step, usage counters, observation buffer, parent sequence, result; the attempt and the best result | check budgets, tick, account, repair, converge, stop; end an attempt, judge, retry, release | counters charged after the fact; stale buffer; a tick may fail anywhere; records that start over at parent 0 | budgets hold, the result says what the steps did, each attempt is one tree, the run ends unless it waits for a program |
| Orchestrator tick, actor (`run/orchestrator.c`, `actor/actor.c`) | result of the step, records written | actor, parse, gate, execute | early returns and failing appends in the middle | no effect without an allow of its own step; one connected journal |
| Policy (`policy/policy.c`, `policy/policy_gate.c`) | capabilities, budgets, process profile | decide, journal the decision | 64-bit sums, duplicate capability names | an allow leaves room in the class budget |
| Plant (`device/device.c`, `executor/device_executor.c`) | contact stamps, pending contact, latch | sample, read, write, check, safe state, service | channel programs fail at will; stamping is late; the clock restarts per attempt | silence is noticed, no setpoint to a silent plant, the latch tells who refused |
| Pausing (`executor/machine_executor.c`, `cli/main.c`) | ledger, guardian children, journal, lock file | pause, resume, release, recover | kill at any point, recycled pids, inherited descriptors, two runs | what we stopped is continued |
| Command executor (`exec/cmd_executor.c`) | descriptors, deadlines, children | spawn, poll, drain, kill, reap | programs hang, fork, close, flood; exit races the deadline | output complete or flagged; the batch returns |
| Journal (`journal/journal.c`, `journal_sign.c`) | file, stdio buffer, sequence, hash | open, append, close, scan, seal | half-written records, kill, scan during a write or a truncation | acknowledged records can be read back |
| Memory store (`memory/mem_store.c`, `mem_command.c`, `pref.c`) | one file per slug, MEMORY.md, an index in RAM | save, delete, list, read the index | two processes at the capacity, failing writes, a directory or a file that cannot be read, death between two steps | a map in which an operation happens once or not at all |
| Learning (`improve/improve.c`, `eval/guard_ring.c`, `cli/main.c`) | lessons, the count of passed cases, guard ring | reflect, evolve, try, guard, keep or revert, audit | suite runs whose results vary; store operations that fail between save, measure and revert | every decision rests on runs that were made with what is kept |
| Evaluation (`cli/main.c` eval, `eval/eval.c`, `eval/fixture.c`) | sandbox, adapter, reply buffer, report | read a case, prepare, run, judge, overrule, total | static buffers, gotos out of the sample loop, verdicts overruled after the ladder | the report and the exit code are earned |
| Model adapter (`model/model_adapter.c`, `grammar_mask.c`, `model_remote*.c`) | KV cache, shadow, pinned prefix, reply | prefill, pin, reset, decode slot by slot, remote call | an engine that fails after it took effect; pieces that lead nowhere; text that escapes its slot | this call's prompt; replies that say what was decoded |
| Reader and parser (`dsl/sexpr.c`, `actor/recommendation.c`) | none | tokenize, parse, check the fields of a kind | escapes, comments, capacities | used by the model adapter's properties |
| Machine observation (`machine/`) | samples, window, goal, profile | sample, rate, select, historise, judge, diagnose | processes come and go while /proc is read; sensors fail | shares of the right process; verdicts that rest on the last sample's answers |
| Context, graph, facts (`context/`, `graph/`, `memory/memory.c`) | bounded tables, a bounded text | add, link, rank, render | tables and text at their limits | the best-ranked, in order, and the cut is said |
| Configuration, schema, chat, other CLI | - | parse, print | - | not modelled (section 6) |

Interaction: the loop calls the tick; the tick assembles the context, calls the
model adapter, parses its reply, asks the gate and one executor; all append to
one journal. The plant's watchdog is serviced by the loop before every tick and by
`spg_agent_run` at the end. Shell actions and channel programs run through the
command executor. The agent command of the CLI opens the journal, takes the lock,
recovers pauses of a killed run, runs the loop (best-of-N) and releases the
ledger. The eval command runs the loop once per case and sample; improve and
distill run eval and write to the memory store.

## 2. Modules

| Module | Models | State and actions in the code |
|---|---|---|
| `Policy` | `spg_policy_decide`, `machine_denial`, the gate's decision | operators only; budgets at the width `U64Max` |
| `AgentLoop` | loop, tick, actor, gate, the executors as the tick sees them; the attempts of best-of-N, the verdict, the release of the ledger | `pc` is the place in the loop; one action per stage (`BeginStep`, `Actor`, `Parse`, `Gate`, `Execute*`, `End*`), each with its error paths; `EndRun`, `NextAttempt`, `LastAttempt`, `Verdict`, `Release` write the records that close an attempt or the run, all at parent 0 |
| `PlantLoop` | device table, watchdog, device executor, service, best-of-N clock | `last`/`pending` are `last_contact`/`contact_pending`, `tripped` is `watchdog_tripped`; `plant` (at its safe value or away from it) and `age` are the world, `deaf` remembers who refused the last safe write |
| `MachinePause` | machine executor, ledger, guardians, recovery, journal opening, lock | one action per system call, so that a crash falls between any two; `proc` is the host's process table, `host` says what this host may do, records of more than 1024 bytes between those of the ledger included |
| `CmdExecutor` | `spg_cmd_executor_run` | one action per spawn, poll, read (which may fail: `ReadFails`), deadline pass, wait; the `Program*` actions are the children |
| `Journal`, `AuditTrail` | writer, stdio, reader and its users; what the journal promises | `file` holds one chunk per record that reached it, whole or torn; a hash is the sequence of contents it commits to. Abstract: a sequence that grows at its end or restarts |
| `MemStore`, `Palace` | the store; what it promises its callers | `files`, `tmp`, one operation in flight per process (`op`), the RAM index (`cache`); a scan, a write, a rename and the index are steps of their own. A scan may miss any files (`Scans`: `opendir` or `readdir` fails) and fail to read others (`Readings`); `clear` remembers whether it did, `blind` which memories were saved after a scan that missed files. The lines of MEMORY.md are a function of the scan and the upsert and are checked where they are written. Abstract: a map and requests that are called, applied, answered |
| `Learn` | improve, distill, audit, guard ring | a suite run gives any result at any time (`Outcomes`): cases share the store and the model may sample; `measured` remembers what was measured on which memories; one action per measurement or decision |
| `EvalSuite` | eval_run_suite, eval_command, judge, fixture | one action per thing a case reads or prepares, one per sample; an agent run is any termination, reply, observation and side effect on the sandbox |
| `Sexpr`, `Recommendation` | reader and form check | folds over lexemes and fields; operators only |
| `GrammarMask`, `RemoteCodec` | masks, scaffolds, capability names; JSON escaping | operators only |
| `ModelAdapter` | adapter, engine, decoder, remote call, parse of the reply | `GeistPrefill` is one call of the engine after the other, each of which may fail; one action per piece a slot takes |
| `Context` | graph, facts, ranking, rendering | operators only; a section is a number of units |
| `Observe` | sampler, Linux backend, window, the context of each step, goal and diagnosis | `host` moves between any two reads (`OpenSample`, `ReadEntry`, `CloseSample`); a step shows a context and historises its snapshot (`Tick`) |
| `AgentLoop_proofs`, `PlantLoop_proofs`, `MachinePause_proofs`, `CmdExecutor_proofs`, `Journal_proofs`, `MemStore_proofs`, `Learn_proofs`, `EvalSuite_proofs` | theorems about the module each is named after (section 4); `PlantLoop_proofs`, about what surrounds the loop, also holds those about `Observe` and `ModelAdapter`, which it extends too | |
| `MC*` | instances for TLC | |

Data is abstracted to what the properties tell apart: a recommendation is its
kind, capability, cost, target and network flag; an observation is a model value;
a setpoint is in range or not; a unit of output is one read; a text of the model
is a sequence of lexemes; a lesson is its slug and its variant. Control is not
abstracted: guards, early returns, the order of calls and the error paths are
those of the source. Reading a reply twice, once as the decoder wrote it and once
as the parser reads it, is how `ModelAdapter` composes with `Recommendation`.

## 3. Runs

| Run | Question | Result |
|---|---|---|
| `agent_trail` | Three steps over every executor with appends failing at any record, and a second attempt: do effects hang under an allow of their own step and attempt, is each attempt one tree that its closing records leave alone, is the spend within budget? | holds |
| `agent_budget` | Three steps, two attempts, every kind of recommendation the gate tells apart, budgets and convergence on, repair texts with and without the marker: is the result what the steps did, are charges within budget, does the run end? | holds (it ends or waits for ever for one program) |
| `plant_watchdog` | A sensor and two actuators, two attempts: is a silence noticed, does a setpoint reach a silent plant, does the latch mean what it says, and who refused? | holds (contact properties for the first attempt) |
| `pause` | A quiet host with two runs, crashes anywhere, recycled pids and failing appends: is everything we stopped guarded, and continued in the end? A rough host with user stops, races under the signal and killed guardians: can the ledger be read back from the journal? A wordy host with large records: what do they hide? | holds |
| `pause_recovery` | Does the next start resume what the journal owes? | no: finding |
| `cmd_batch` | Two programs that may do anything, polls and reads that fail: is output complete or its loss accounted for, do groups die, does the batch return? | holds (it returns when programs keep to their streams and groups) |
| `journal_trail` | Failing appends, kills, a scan meanwhile: do acknowledged records stay, does the file implement `AuditTrail`? | holds |
| `mem_store` | Two processes at the capacity, failing writes, scans that miss files or cannot read them, deaths: does the store implement `Palace`, do index and cache name only what is there and all of it after a clear scan, is the capacity kept? | holds (but for one file per further writer and for saves after a blind scan) |
| `learn` | Every result of every suite run, one candidate's store operations failing, lessons there before: does each decision rest on a run made with what is kept, is the count reported one that was measured and not below the baseline? | holds for the slugs whose store operations succeed and that were free |
| `eval_suite` | Every kind of case beside every other, twice each: does anything of a sample reach the next, does the report add up, is exit code 0 earned? | holds |
| `decode` | Two calls of eight adapters with one engine failure: is this call's prompt in the cache, do replies say what was decoded, are accepted numbers in range, does a remote reply arrive verbatim? | holds |
| `observe` | A host that moves while it is sampled, readings that fail and come back, runs of up to four steps: shares, selection, window, context and verdicts | holds |

### Bounds and why they are enough

- `AgentLoop`: three steps: a budget is reached, refused and looked at once more, a
  repair is followed by an action, two equal observations converge. Two attempts:
  one that is followed and one that is last; in `agent_trail` the second ends with
  its first step and follows one of at most two (`ShortRetry`), which is enough to
  hang a record of the second under one of the first. `U64Max = 7` with a shell
  cost of 4 makes two charges wrap. The wall clock may expire before any step.
  Two repair texts, of which one (`lesson`: a stored lesson is appended to it)
  holds the marker.
- `PlantLoop`: two actuators and a sensor are needed for one channel to mask
  another; a timeout of one step and four steps per attempt reach expiry, trip,
  recovery and a second expiry; two attempts restart the clock once. The two
  actuators are interchangeable (`SYMMETRY Actuators`).
- `MachinePause`: two pids, a new identity for one of them, two pauses, two starts
  on the quiet host; on the rough one three identities, two actions, one killed
  guardian; on the wordy one three actions with a large record anywhere between
  them, one start. Each of the rough host's liberties breaks one of the guarantees by
  design (section 5), so `StopsGuarded`, `OwnStopsInLedger` and
  `NothingStaysPaused` speak of a host without them, `LedgerJournaled` of one
  whose appends succeed and on which no second start truncates the journal of a
  run that is up; what a large record hides from the recovery's walk is part of
  what it says.
- `CmdExecutor`: two commands with one stream each, a buffer and a pipe of one
  unit, up to two units counted (a flood goes on after that): the buffer
  overflows, a pipe is full when a program is killed, one deadline passes while
  the other command is busy. Any read and any poll may fail. A program has at most one descendant at a time.
  Every command has a timeout.
- `Journal`: three chunks, two opens, two contents of which one is oversized: a
  failed record, its successor under the same sequence number and one more fit.
- `MemStore`: two processes, one with two slugs to write of which one is reserved,
  the other with one, a fourth memory that may be there from the start; a capacity
  of two, two operations: a full store, a count taken before another process adds,
  a delete between a scan and a rename, a scan that misses a full directory and a
  save after it. An operation touches its own slug, the scan and the index, and
  leaves nothing in flight, so a third one starts from a directory that is among
  the initial ones (up to `MaxFiles` memories of any slugs). One process reads
  (`Readers`). The processes write disjoint slugs, because the temporary file of a
  slug has one name, and two writers of the same slug may write into each other's.
- `Learn`: two cases, three slugs of which one is a skill, three guards of which one
  has no criterion (`Inert`) and the others are interchangeable (`SYMMETRY
  AnyGuard`), a ring of two, at most one candidate whose store operations may fail,
  one slug that may hold a lesson before. A ring of two with up to four arguments
  wraps and refreshes; with up to two the command is run. Each suite run picks its
  result anew. `improve` either evolves its lessons or proves and validates them, so
  that each stage occurs.
- `EvalSuite`: two samples per case, suites of up to three cases with a limit of
  two; the suites put a case with a fixture before and after one with the same
  name, a remote, an engine, rules.
- `ModelAdapter`: two calls that share a prefix or not; a vocabulary with pieces
  after which nothing continues; a choice slot of three steps (24), a string slot
  of one (64) with pieces that hold several lexemes, a number slot of two (12) with
  pieces of one and of four digits; numbers of 16 bits (`UintMax = 65535`, 64 in the
  code), so that two pieces pass both limits, the unsigned of the reader and the
  signed of the recommendation;
  capacities that cut the second call's reply. The logits are any choice the mask
  leaves. Every caller of the adapter resets the session, so requests do.
- `Observe`: three pids and a snapshot of two, so that one is left out; a window
  of two over four steps wraps; tables sized so that a run of four steps fills
  graph, facts, log and context in one of the scenarios. Scenarios, not a product
  of constants: a machine that moves under a short run, one that stands still
  under a long run, one whose sensors and counters fail and come back between its
  samples, and variants with an invalid profile or goal.

### Fairness

`AgentLoop` assumes weak fairness of its own steps (a sequential program) except
where it waits for another program (`Waiting`: the model's reply, a shell command,
the post-check, a channel program): that wait can be without limit (`NeverStalls`
below), so `Terminates` says that the run ends or waits for one of them for ever.
`MachinePause` assumes it of the agent and of the guardians, which block only on
their pipe; nothing is assumed of the host, of crashes or of programs that
outlive the agent. `CmdExecutor` assumes that the executor is scheduled and that
time passes; nothing is assumed of the programs. The other specifications state
safety only. `CHECK_DEADLOCK FALSE` is set where the system really stops: the
agent has exited for the last time, the batch, the command or the evaluation has
returned, the bound on calls or operations is used up.

## 4. Proofs

Each proof module EXTENDS its component and is checked by TLAPS for every value
of the constants that satisfies the component's `ASSUME` (types of the constants,
finite sets where the code has arrays, bounds at least what the code needs). The
assumptions are evaluated by TLC on the instances. The layout is the same
everywhere: an inductive invariant made of named parts, one lemma per action or
group of actions, one theorem per property. The invariants were checked by TLC
before they were proved. Except where a hypothesis is named, a theorem is `Spec =>
[]Property` (or `Spec => Property` for an action property). `Observe` and
`ModelAdapter` call their specifications `ObserveSpec` and `ModelSpec`, so that one
proof module can extend them and `PlantLoop`. `PromptKept` rests on the assumption
`PromptAssumption` that every request
resets the session, as every request of the agent does (`cli/main.c:1577`, `:1886`,
`run/agent_run.c:154`). The chat REPL, which is not modelled, may continue a session
(`chat/main.c:574`), and there the cache holds more than the prompt on purpose.

| Module | Theorems | Inductive invariant and why it is needed |
|---|---|---|
| `AgentLoop_proofs` | `TypeCorrect`, `BudgetSafe`, `SpendSafe` (`ChargedWithinBudget`, `SpendWithinBudget`) | `Phase`: what is known where control is. `BudgetInv`: the gate decides before the executor runs and the loop charges after it, so the room the decision left is carried through `execute` and `account`; a failed tick ends the run with the action uncharged, which the same room covers. `machine_actions` is excluded, because the code does not keep it (section 5) |
| | `ResultIsHonest` (`ResultHonest`) | `HonestInv`: the counters of the result are those of the steps (`Counted`), and a text with the marker in the buffer is that of an executed step, of a repair that was made, or empty (`Latch`, `Held`). Nothing is assumed of repair texts: section 5 says what follows |
| | `TrailIsConnected`, `EffectsAreAuthorised` | `TrailInv`: the sequence numbers a tick reports are records of that tick or 0, `parent` is a record of the step before in the same attempt, the allow the executor runs under is the gate's of this step, and what closes an attempt (`Closed`) comes after all of its steps. The records that close an attempt or the run are roots of their own, and the theorem says so of them instead of leaving them out |
| `PlantLoop_proofs` | `TypeCorrect`, `SetpointSafe`, `SilenceIsNoticed`, `LatchIsHonest` | `FirstContact`: in the first attempt a stamp is never in the future, a silence is at most one step longer than its stamp says, and a contact that waits for its stamp is no older than the watchdog can lag. `LatchIsHonest` follows each safe write: the actuators that did not obey are exactly those that refused (`deaf`), and may stay at the setpoint. `FirstContact` fails in later attempts, where the clock restarts under the stamps (section 5) |
| | `WindowKept` (`WindowIsTail` of `Observe`) | `Ring`: the ring holds the last snapshots that fit, each in the slot its number has modulo the window, and the head is the number of the next. Pushing keeps it and reading from the oldest slot gives the tail; the lemmas before it (`Apart`, `ShiftedBack`, ...) are the arithmetic of remainders this takes, for every width, 0 included |
| | `SnapshotBest`, `SharesOwned` (`SnapshotIsBest`, `SharesOwnProcess` of `Observe`) | `SampleInv`: a process of the host has counters, a listing read so far names every pid once and only pids it has been through, and the snapshot before is a list of complete rows. `Held` is what the buffer promises after each offer: as full as it can be, nothing in it twice, and all it lacks weaker than all it holds (`Top`); that the comparison of the code is a strict order on rows of different pids (`RanksOrder`) is what makes it enough |
| | `VerdictKept` (`VerdictHonest`) | `VerdictInv` with `SampleInv`: nothing is said before the end. What is judged is the snapshot written out and read back, so the lemma `CaseFileTells` says what survives that: each value, and whether it was known. `Sensed` ties the snapshot to what the files of the last sample answered, through every step between the sample and the verdict; `AnswersKnown` reads the conclusions of goal and baseline in those terms |
| | `ContextKept` (`ContextHonest`) | `ContextInv`: every node of the table has a kind with a weight and numbers for scores, through every outcome of a step (`TablesGraph`), so that references can be ranked, and so has every fact (`TablesFacts`); the sorted insertion then keeps the best references of each list with the same argument as the buffer of processes (`Shows`, `ListedBest`) |
| | `PromptKept` (`KvIsPrompt` of `ModelAdapter`) | `Kept`: the side the adapter relies on, the engine's history or our shadow of the daemon's, begins with the pinned prefix, through calls that fail before or after they took effect. The daemon's own history may be anything; a prefill that it accepts makes it the shadow again |
| | `RemoteKept` (`RemoteVerbatim` of `ModelAdapter`) | `WireInv`: nothing is on the wire while a reply is decoded. The step that sends rests on the codec: what `Escaped` writes is one of the JSON texts of its argument, and the parser reads back whatever text is made of JSON forms of the characters (`UnescapeInverts`): each form is read as its character and to its end (`FormRead`), the forms stand one behind the other (`FlattenIs`, `JoinsPlace`), and `UpTo` carries that from the last to the first. `RemoteAssumption` says that prompts and contents are characters and the output has room for something |
| `MachinePause_proofs` | `TypeCorrect`, `StopsAreGuarded`, `OwnStopsAreInLedger` | `PInv`, on a peaceful host: every stopped process has a guardian that waits or is armed (`Guarded`), every ledger entry from the fork on has its own guardian (`EntriesOwn`), every waiting guardian of a run that is up has its entry (`GuardsOwned`), a signal in flight is aimed at who was checked (`Aiming`), and an entry is only let go when its process is not ours any more (`NotOurs`) |
| | `LedgerIsJournaled`, `LedgerIsJournaledAlone` | `Booked`: with appends that succeed the recovery's walk over the journal, which ends at the first large record (`Walked`), yields the ledger but for what was recorded behind that end (`Match`), short of the action in flight (a pause enters the ledger before its record, a resume leaves it before). The second theorem has any number of starts under the hypothesis that none falls into a run that is up (`StartsAlone`); the first is the case of one start |
| `CmdExecutor_proofs` | `TypeCorrect`, `GroupsDie`, `CaptureIsComplete` | `Captured`: until something is dropped or a read fails (`lost`), what a program wrote is what was captured plus what is in the pipe; `Closed`: a closed end is an emptied one, by the end of the file or with the loss noted; `Killed`: after the kill nothing of the group is left to fork |
| `Journal_proofs` | `TypeCorrect`, `AcknowledgedSurvive`, `ScansReadOneTrail`, `AuditsComplete`, `JournalIsTrail` (refinement) | `Room`: chunks on file and in the buffer fit the bound. `Chain`: the readable records are linked by their hashes from the first on, what the writer's hash commits to is never longer than the file, and what was acknowledged before the first failure is on file or level with it. `Scan`: what a reader accepted is a prefix of the readable records of the file it started on |
| `MemStore_proofs` | `TypeCorrect`, `FilesAreBounded` | the files present and those claimed by saves that passed the capacity test, without those whose scan missed files (`blind`): each process has at most one such claim |
| | `IndexIsExact`, `OwnWritesAreRead` | the list of an operation that nobody overtook is what one of the possible scans and readings of the directory gives, in `entry_before` order (`Prepared`), and the saved line is first; a valid cache is what a rebuild over some scan of the directory may give as long as nobody else changed it (`Fresh`). A scan that missed nothing is the whole directory |
| | `StoreIsPalace`: `PrivateSlugs => (Spec => Implements)` | a save's temporary file holds what the save was asked to write. `PrivateSlugs` says that no two processes write the same slug; without it the statement is false, because the temporary file of a slug has one name |
| `Learn_proofs` | `TypeCorrect`, `ScoreIsNeverWorse`, `GuardsAreHeld`, `FreshRevertRestores` | `Staged`: which store the place in the command is about. `Measures`: the count kept was given by a run in the log on the committed memories (`Counted`), an accepted trial by one on those and the candidate. `Guarded`: for every guard the ring held when a candidate was kept, the log has its run without it and its run with it (`Witnessed`), each on the memories decided by then. All of it up to the slugs that are excused (`Excused`): where a store operation failed or a memory was there before. `FreshRevertRestores` is `RevertRestores` for slugs that were free; section 5 shows the statement false without |
| | `RingIsRecent`, `AuditIsMonotone` | `Ring`: a slot names its shape and where that was last given, a free slot means that nothing was dropped, and what was dropped was last given before everything held. The audit's verdict is a function of counts over journals; the proof compares the counts of two journals that differ in one run. A later run with the failure less often than the average of those before lowers the rate and may turn `review` into `improving`, so the statement is about runs without it and runs with at least that average |
| `EvalSuite_proofs` | `TypeCorrect`, `NothingIsLeftOver`, `ReportIsHonest`, `ExitZeroIsEarned` | `Placed` and `Fresh`: what a case prepared, where control is; `Counted`: each case counts its own samples, and the totals run ahead of the cases by those of the case in progress; `Earned`: never more passes than runs, and as many only if every sample so far did what its case asks |

**Induction over data.** The theorems of the library that state induction take an
operator as a parameter and cannot be instantiated here. Where a proof needs a
recursive function (`Sum`, `Tally`, `Owed`) or a ranking (`Candidates`, the order
of the index), it uses the lemma `UpTo` instead: a subset of `0 .. N` that holds 0
and the successor of each of its members is `0 .. N`, which follows from
cardinalities. With it, the recursion is shown to have a solution, the solution to
be unique, and one element more to change it in the expected way (`OwedAppend`,
`SumChanged`).

**Only model-checked.** Liveness under fairness (`Terminates`, `NothingStaysPaused`,
`Returns`) and everything that needs `ENABLED`: the prover does not handle them.
`RepliesSayWhatWasDecoded` of `ModelAdapter`: it would take a proof that the tokenizer
and the parser (the folds of `Sexpr` and `Recommendation`) read every reply as its
slots wrote it, whatever the pieces of the vocabulary and the sizes of the token and
node tables. Each token changes the depth and the place in the form in which all later
ones are read, so the invariant of that induction is the grammar itself; it was not
attempted.
`RecoveryResumesOwed`, `RecoveryComplete` and the other refuted statements of
section 5 have no theorem, of course; where a restriction makes one true, that is
the theorem (`FreshRevertRestores`, `LedgerIsJournaledAlone`).

## 5. Disagreements found

With a run (quotes in `PROJECT.json`): the journal is truncated before the
recovery reads it (`cli/main.c:2454`, `pause_recovery`).

### Disagreements without a run

Each statement is defined in its module and refuted by TLC under the instance
given. The name after the colon is a configuration of this directory or a
definition of the MC module to use for the named constant.

| Statement | Instance | What the code does |
|---|---|---|
| `PlantLoop!SafeWhileTripped` | `PlantWatchdog.cfg`, as a `PROPERTY` | the latch is set before the safe state is driven (`executor/device_executor.c:168`) and a safe write that fails leaves its actuator where it was (`device/device.c:503`); README.md:181: "the watchdog drives the plant there when contact is lost". `LatchHonest` is what holds |
| `AgentLoop!MachineSpendWithinBudget` | `AgentDeviceBudget.cfg` | `accumulate_usage` (`run/agent_loop.c:76`) charges `machine_actions` only for a pause or resume, never for a `device_write` decided against the same counter; SECURITY.md:68 speaks of a "global per-action-class budget" |
| `PlantLoop!RetriesNoticeSilence` | `PlantBestOf.cfg` | a later best-of-N attempt restarts the clock under the stamps of the one before, and a stamp in the future counts as contact (`cli/main.c:2838`); device_executor.h:77 promises that a contact loss is caught |
| `Journal!RecoveryComplete` | `JournalRecovery.cfg` | the recovery scan ends at the first record of more than 1024 bytes (`executor/machine_executor.c:551`) |
| `CmdExecutor!NeverStalls` | `CmdClosed.cfg` | a program that closes its streams and runs on is waited for without a limit (`exec/cmd_executor.c:365`); it also fails with `Liberties = {"stray"}` (a descendant outside the group) and `{"flood"}` (`drain_fd` reads until the pipe is empty). device.h:46: a device "must never be able to stall the loop" |
| `Learn!RevertRestores` | `LearnRevert.cfg` | reverting a candidate deletes a lesson of the same slug kept by an earlier run (`improve/improve.c:71`); `cli/main.c:4641` says "the store ends byte-identical to before the mint" |
| `EvalSuite!LadderMonotone` | `EvalLadder.cfg` | a case that expects a denial passes without a gate rung (`cli/main.c:3309`); `cli/main.c:3100` says "Monotone by construction" |
| `EvalSuite!RunStartsFresh` | `EvalSuite.cfg` | the pause ledger and the window of a case are static and kept between its samples (`cli/main.c:3716`), so a later sample is answered "already paused" (`executor/machine_executor.c:329`) |
| `ModelAdapter!ValidByConstruction` | `DecodeValid.cfg` | a constrained reply can be unusable: a name completed by force without its closing text (`model/model_adapter.c:657`), a string slot ended by a lone backslash (`:474`), an empty number slot, a number the reader or the check finds too large (`dsl/sexpr.c:79`, `actor/recommendation.c:377`: the slot limits tokens, not digits); grammar_mask.h:63 says schema-valid by construction |
| `Observe!RecentEvents` | `Scenarios <- FullLog` | the log of headers stops when it is full (`journal/journal.c:188`), so later contexts show old events as recent (agent_loop.h:100) |
| `Observe!CriticalGoneIsUnhealthy` | `Scenarios <- Departed` | a critical process that is gone is in no snapshot and does not count while another critical one runs (`machine/machine_goal.c:114`) |
| `Observe!UnknownOnFailure` | `Scenarios <- BadSensor` | a sensor file that holds no number leaves 0, a known reading (`machine/telemetry.c:212`, `telemetry_host.c:97`) |

Read in the code while modelling, some checked with the formula given:

- `step_sequence` threads the gate's record, not the "Newest journaled sequence"
  (`agent_loop.c:86`), after a machine or device step: `pc = "check" => parent =
  Len(journal)` fails in `AgentLoop`.
- An allowed `ssh_auth_probe` has no executor (`orchestrator.c:470`) and is counted
  among the "Actions the run actually executed" (`agent_loop.h:111`).
- The marker of `expect_observation` is searched in the buffer also after a repair
  wrote it (`agent_loop.c:211-218`, `236-250`), so a repair text that quotes a stored
  lesson can latch it, next to "every step's observation" (`agent_loop.h:88`):
  `pc = "done" /\ shown \cap Marked = {} => ~result.observation_seen` fails in
  `AgentBudget.cfg`.
- Convergence compares the buffer although the step may not have written it
  (`agent_loop.c:347`).
- `journal_action` drops the status of its append (`machine_executor.c:297`) next to
  "Journalled whatever the outcome".
- Reads feed a writable channel (`device.c:387`), although "A writable channel is
  fed only by a successful write to it" (`device.h:253`).
- The watchdog latch is cleared only when every channel is in contact
  (`device_executor.c:164`), not by "any successful contact" (`device.h:105`): a
  setpoint written after a trip survives the next expiry.
- A second run truncates the journal before the lock refuses it (`main.c:2454`
  before `2677`): `JournalOwesLedger` fails on `QuietHost` with `faults = FALSE`.
- A pid may be recycled between the identity check and the signal
  (`machine_executor.c:240`, `247`); a resume continues a process the user stopped
  (`policy_gate.c:268`); the guardian's pipe is not close-on-exec
  (`machine_executor.c:105`), so a program of the run can keep a guardian asleep.
- `timed_out` may be set for a program that exited by itself (`cmd_executor.c:484`).
- A read that fails closes the stream and drops what is left in the pipe without the
  truncation flag (`cmd_executor.c:102`); `CaptureComplete` accounts for it by `lost`.
- A directory that cannot be opened counts as an empty one (`mem_store.c:221`): a save
  passes the capacity test, MEMORY.md gets one line, and an empty index is cached
  (`mem_store.c:338`, `368`, `443`). `Bounded`, `IndexExact` and `ReadYourWrites` say what
  is left: after a scan that missed files only `OfFiles` and the first line.
- A CPU reading that fails leaves no base, so the next share is taken over the
  whole uptime (`telemetry_host.c:92`, `backend_linux.c:36`; `Span` in `Observe`).
- A critical process that is stopped is healthy in the evaluation: the case file
  does not record the state that `critical_health_bp` looks at
  (`machine_fixture.c:131`, `machine_goal.c:134`).
- A pinned prompt is prefilled as tokenized, without the BOS the full path puts in
  front (`model_adapter.c:166`), next to "Byte-identical to a full prefill by
  construction" (`model_adapter.c:738`).

## 6. Not modelled, and why

`PROJECT.json` lists every component. Left out for good: vendored code, host
backends other than Linux (system calls), hash arithmetic (an injective function
where needed), printing and option parsing, model profiles and the search for
model files (tables and paths). Configuration files and the schema that validates
them are parsers without state: the models quantify over the values they produce.
The chat REPL is a terminal loop around the engine library. The simulator's
transitions and risk scores are arithmetic on its own tables and enter the loop
only through the outcome of a tick. Power loss is left out: nothing calls `fsync`,
so no record is promised to survive it. The keyed seal compares two hashes and
adds no state of its own.

## 7. Plan

Done, in this order: `Policy` and `AgentLoop` with their proofs, `PlantLoop`,
`MachinePause`, `CmdExecutor`, `Journal` over `AuditTrail`, `MemStore` over
`Palace`, `Learn`, `EvalSuite`, `Sexpr` to `ModelAdapter`, `Context` and `Observe`.

Then the proofs of section 4, which hold safety properties of all ten stateful
modules.

Later models, where a reader wants them: the simulator's transitions and risk, the
chat turn loop with its history trimming.
