-------------------------- MODULE AgentLoop_proofs --------------------------
(***************************************************************************)
(* Proofs about AgentLoop, for every policy, every set of recommendations   *)
(* and every bound.                                                         *)
(***************************************************************************)
EXTENDS AgentLoop, SequenceTheorems, TLAPS

(* Every action kind is governed by one of the four budget classes           *)
(* (consumed_for_action).                                                    *)
LEMMA ClassOfType ==
    ASSUME NEW k
    PROVE  ClassOf(k) \in Classes
BY DEF ClassOf, Classes

(* An allow decision leaves room for the cost in the class of the action:    *)
(* would_exceed does not wrap (spg_policy_decide).                           *)
LEMMA AllowFits ==
    ASSUME NEW rec \in Recommendations, NEW used \in [Counters -> U64],
           NEW snap, GateDecision(rec, used, snap) = "allow"
    PROVE  used[ClassOf(rec.kind)] + rec.cost <= Budgets[ClassOf(rec.kind)]
<1>1. MachineDenial(rec, snap) \in {"none"} \cup DenyReasons
  BY DEF MachineDenial, DenyReasons
<1>2. Decide(used, GateRequest(rec)) = "allow"
  BY <1>1 DEF GateDecision, DenyReasons
<1>3. GateRequest(rec).kind = rec.kind /\ GateRequest(rec).cost = rec.cost
  BY AgentLoopAssumption DEF GateRequest
<1>4. ~WouldExceed(used[ClassOf(rec.kind)], rec.cost,
                   Budgets[ClassOf(rec.kind)])
  BY <1>2, <1>3 DEF Decide
<1>5. /\ used[ClassOf(rec.kind)] \in Nat
      /\ Budgets[ClassOf(rec.kind)] \in Nat
      /\ rec.cost \in Nat
  BY ClassOfType, PolicyAssumption, AgentLoopAssumption DEF U64, Counters
<1>. QED
  BY <1>4, <1>5 DEF WouldExceed

-----------------------------------------------------------------------------
(* Type correctness. Phase is what TypeOK needs to be inductive: which parts  *)
(* of the tick are set where control is.                                      *)
Phase ==
    /\ pc \in InTick => step < MaxSteps
    /\ pc \in {"gate", "execute"} => tick.rec \in Recommendations
    /\ pc = "execute" => tick.stage = "policy_gated" /\ tick.decision = "allow"
    /\ pc = "account" /\ Charged # {} =>
          /\ tick.rec \in Recommendations
          /\ Charged = {ClassOf(tick.rec.kind)}

(* Records chained by one writer are records: Chain builds a sequence of the  *)
(* journal's type (append_journal in actor.c threads the parent this way).    *)
LEMMA ChainType ==
    ASSUME TypeOK, NEW by \in Writers, NEW events \in Seq(Events),
           NEW n \in 0 .. Len(events), NEW par \in Nat,
           NEW oks \in Seq(BOOLEAN), n <= Len(oks)
    PROVE  /\ Chain(by, events, n, par, oks) \in Seq(RecordSet)
           /\ Len(Chain(by, events, n, par, oks)) =
                  IF WriteJournal THEN n ELSE 0
<1>. DEFINE k == IF WriteJournal THEN n ELSE 0
            e(i) == Record(by, events[i],
                           IF i = 1 THEN par ELSE Len(journal) + i - 1, oks[i])
<1>1. k \in Nat /\ k <= n
  OBVIOUS
<1>2. \A i \in 1 .. k : e(i) \in RecordSet
  BY <1>1 DEF Record, RecordSet, TypeOK
<1>3. Chain(by, events, n, par, oks) = [i \in 1 .. k |-> e(i)]
  BY DEF Chain
<1>. HIDE DEF e, k
<1>4. [i \in 1 .. k |-> e(i)] \in Seq(RecordSet)
  BY <1>1, <1>2
<1>5. Len([i \in 1 .. k |-> e(i)]) = k
  BY <1>1
<1>. QED
  BY <1>3, <1>4, <1>5 DEF k

(* What append1 returns is a journal again. *)
LEMMA AppendType ==
    ASSUME TypeOK, NEW by \in Writers, NEW event \in Events, NEW par \in Nat,
           NEW ok \in BOOLEAN
    PROVE  Append1(journal, Record(by, event, par, ok)) \in Seq(RecordSet)
<1>1. Record(by, event, par, ok) \in RecordSet
  BY AgentLoopAssumption DEF Record, RecordSet, TypeOK
<1>2. journal \in Seq(RecordSet)
  BY DEF TypeOK
<1>. QED
  BY <1>1, <1>2, AppendProperties DEF Append1

(* The gate's decision is one of the decisions the loop knows. *)
LEMMA DecisionType ==
    ASSUME NEW rec, NEW used, NEW snap
    PROVE  GateDecision(rec, used, snap) \in Decisions
<1>1. Decide(used, GateRequest(rec)) \in Decisions
  BY DEF Decide, Decisions, DenyReasons
<1>2. MachineDenial(rec, snap) \in {"none"} \cup DenyReasons
  BY DEF MachineDenial, DenyReasons
<1>. QED
  BY <1>1, <1>2 DEF GateDecision, Decisions, DenyReasons

(* Saturating addition stays within 64 bits (add_u64). *)
LEMMA UsageType ==
    ASSUME TypeOK, Phase, pc = "account"
    PROVE  AccumulateUsage \in [Counters -> U64]
<1>1. U64Max \in Nat \ {0} /\ 1 \in U64
  BY PolicyAssumption DEF U64
<1>2. \A a, v \in U64 : AddU64(a, v) \in U64
  BY <1>1 DEF AddU64, U64
<1>3. tick.tokens \in U64
  BY <1>1, AgentLoopAssumption DEF TypeOK, TickSet, U64
<1>4. Charged # {} => tick.rec.cost \in U64
  BY AgentLoopAssumption DEF Phase, InTick
<1>. QED
  BY <1>1, <1>2, <1>3, <1>4 DEF AccumulateUsage, TypeOK

LEMMA TypeInit == Init => TypeOK /\ Phase
<1>. SUFFICES ASSUME Init PROVE TypeOK /\ Phase
  OBVIOUS
<1>1. 0 \in U64 /\ MaxSteps \in Nat /\ MaxDecode \in Nat
  BY PolicyAssumption, AgentLoopAssumption DEF U64
<1>2. TypeOK
  <2>1. 1 \in 1 .. Attempts
    BY AgentLoopAssumption
  <2>2. [rank |-> -2, pass |-> TRUE, steps |-> 0]
           \in [rank : -2 .. 100, pass : BOOLEAN, steps : 0 .. MaxSteps]
    BY <1>1
  <2>3. /\ NoTick \in TickSet /\ NoUsage \in [Counters -> U64]
        /\ NoDispatch \in [Classes -> Nat] /\ NoResult \in ResultSet
    BY <1>1 DEF NoTick, TickSet, Stages, NoUsage, NoDispatch, NoResult,
                ResultSet, Terminations
  <2>. QED
    BY <1>1, <2>1, <2>2, <2>3 DEF Init, TypeOK
<1>3. Phase
  BY DEF Init, Phase, InTick
<1>. QED
  BY <1>2, <1>3

(* TickError leaves a well-typed result. *)
LEMMA TickErrorType ==
    ASSUME TypeOK, Phase, pc \in InTick, TickError
    PROVE  /\ pc' = "returned" /\ result' \in ResultSet
           /\ step' = step /\ parent' = parent /\ usage' = usage
           /\ prev_obs' = prev_obs /\ snapshot' = snapshot
<1>. DEFINE n == step + 1
<1>1. n \in 0 .. MaxSteps
  BY AgentLoopAssumption DEF TypeOK, Phase, InTick
<1>2. result' = [result EXCEPT !.termination = "error", !.steps_taken = n]
  BY DEF TickError
<1>. HIDE DEF n
<1>3. result' \in ResultSet
  BY <1>1, <1>2 DEF TypeOK, ResultSet, Terminations
<1>. QED
  BY <1>3 DEF TickError

(* The records of an executor extend the journal. *)
LEMMA ExecRecords ==
    ASSUME TypeOK, NEW events \in Seq(Events), NEW n \in 0 .. Len(events),
           n <= 3
    PROVE  journal \o Chain("executor", events, n, ExecParent,
                            <<TRUE, TRUE, TRUE>>) \in Seq(RecordSet)
<1>. DEFINE oks == <<TRUE, TRUE, TRUE>>
<1>1. /\ ExecParent \in Nat /\ "executor" \in Writers
      /\ oks \in Seq(BOOLEAN) /\ n <= Len(oks)
  BY DEF ExecParent, TickParent, OrElse, TypeOK, TickSet, Writers, StepWriters
<1>. HIDE DEF oks
<1>2. Chain("executor", events, n, ExecParent, oks) \in Seq(RecordSet)
  BY <1>1, ChainType, Zenon
<1>. QED
  BY <1>2, ConcatProperties DEF TypeOK, oks

(* What an executor that returned SPG_OK leaves behind. *)
LEMMA ExecutedType ==
    ASSUME TypeOK, NEW stage \in Stages, NEW events \in Seq(Events),
           Len(events) <= 3, NEW fresh \in BOOLEAN, NEW mutated \in BOOLEAN,
           obs' \in Observations \/ fresh = FALSE,
           Executed(stage, events, fresh, mutated)
    PROVE  /\ journal' \in Seq(RecordSet)
           /\ tick' \in TickSet /\ tick'.stage = stage /\ tick'.rec = tick.rec
           /\ tick'.decision = tick.decision
           /\ shown' \subseteq Observations
           /\ pc' = "account"
           /\ UNCHANGED <<step, parent, usage, prev_obs, snapshot, result>>
<1>. DEFINE q == IF WriteJournal THEN Len(journal) + Len(events) ELSE 0
<1>1. q \in Nat
  BY DEF TypeOK
<1>2. tick' = [tick EXCEPT !.stage = stage, !.mutated = mutated,
                           !.exec_seq = q]
  BY Zenon DEF Executed
<1>. HIDE DEF q
<1>3. /\ tick' \in TickSet /\ tick'.stage = stage /\ tick'.rec = tick.rec
      /\ tick'.decision = tick.decision
  BY <1>1, <1>2, Zenon DEF TypeOK, TickSet
<1>4. Len(events) \in 0 .. Len(events)
  OBVIOUS
<1>5. journal' \in Seq(RecordSet)
  BY <1>4, ExecRecords, Zenon DEF Executed
<1>6. shown' \subseteq Observations
  <2>1. shown' = IF fresh THEN shown \cup {obs'} ELSE shown
    BY Zenon DEF Executed
  <2>. QED
    BY <2>1, Zenon DEF TypeOK
<1>. QED
  BY <1>3, <1>5, <1>6, Zenon DEF Executed

(* Handing an action to an executor adds its cost to a natural number. *)
LEMMA DispatchType ==
    ASSUME TypeOK, tick.rec \in Recommendations, Dispatch
    PROVE  /\ dispatched' \in [Classes -> Nat]
           /\ \A c \in Classes : dispatched'[c] =
                 IF c = ClassOf(tick.rec.kind) THEN dispatched[c] + tick.rec.cost
                 ELSE dispatched[c]
<1>1. tick.rec.cost \in Nat /\ ClassOf(tick.rec.kind) \in Classes
  BY ClassOfType, AgentLoopAssumption, PolicyAssumption DEF U64
<1>. QED
  BY <1>1 DEF Dispatch, TypeOK

(* The class an executed stage is charged to is the class the gate decided   *)
(* on; a device write is charged to none (accumulate_usage).                 *)
LEMMA ChargedClass ==
    /\ tick.stage = "sim_executed" => Charged = {"sim_actions"}
    /\ tick.stage = "memory_executed" => Charged = {"memory_actions"}
    /\ tick.stage = "machine_executed" => Charged = {"machine_actions"}
    /\ tick.stage = "shell_executed" => Charged = {"shell_actions"}
    /\ tick.stage \in {"device_executed", "policy_gated"} => Charged = {}
BY DEF Charged


(* Each executor action is an error or leaves the stage that belongs to the   *)
(* kind of the recommendation.                                                *)
ExecFailed ==
    /\ TickError /\ UNCHANGED <<tick, shown>>
    /\ journal' \in Seq(RecordSet)
    /\ Dispatch \/ UNCHANGED dispatched
    /\ obs' \in Observations \cup {obs}

ExecDone ==
    /\ pc' = "account" /\ Dispatch
    /\ journal' \in Seq(RecordSet)
    /\ tick' \in TickSet /\ tick'.rec = tick.rec
    /\ tick'.decision = tick.decision
    /\ shown' \subseteq Observations
    /\ UNCHANGED <<step, parent, usage, prev_obs, snapshot, result>>
    /\ obs' \in Observations \cup {obs}
    /\ Charged' = IF tick.rec.kind = "device_write" THEN {}
                  ELSE {ClassOf(tick.rec.kind)}

LEMMA ExecuteCases ==
    ASSUME TypeOK, Phase, Execute
    PROVE  ExecFailed \/ SkipSsh \/ ExecDone
<1>. DEFINE Evs == {<<>>, <<"memory">>, <<"action">>, SimEvents}
            Pairs == {<<"memory_executed", k>> : k \in MemoryKinds} \cup
                     {<<"machine_executed", k>> : k \in MachineKinds} \cup
                     {<<"device_executed", "device_write">>,
                      <<"shell_executed", "local_shell">>,
                      <<"sim_executed", "simulator">>}
<1>0. /\ \A ev \in Evs : ev \in Seq(Events) /\ Len(ev) <= 3
      /\ Len(SimEvents) = 3 /\ Len(<<"memory">>) = 1 /\ Len(<<"action">>) = 1
      /\ 0 <= 1 /\ 0 \in 0 .. 2 /\ \A n \in 0 .. 2 : n <= 3
  BY DEF SimEvents, Events
<1>1. ASSUME NEW ev \in Evs, NEW n \in 0 .. 2, n <= Len(ev), ExecError(ev, n),
             Dispatch, obs' \in Observations \cup {obs}
      PROVE  ExecFailed
  <2>1. n \in 0 .. Len(ev) /\ n <= 3
    BY <1>0, <1>1
  <2>. QED
    BY <1>0, <1>1, <2>1, ExecRecords, Zenon DEF ExecError, ExecFailed
<1>2. ASSUME NEW st \in Stages, NEW ev \in Evs, NEW fr \in BOOLEAN,
             NEW mu \in BOOLEAN, obs' \in Observations \/ fr = FALSE,
             Executed(st, ev, fr, mu), Dispatch,
             <<st, tick.rec.kind>> \in Pairs,
             obs' \in Observations \cup {obs}
      PROVE  ExecDone
  <2>1. /\ journal' \in Seq(RecordSet)
        /\ tick' \in TickSet /\ tick'.stage = st /\ tick'.rec = tick.rec
        /\ tick'.decision = tick.decision
        /\ shown' \subseteq Observations
        /\ pc' = "account"
        /\ UNCHANGED <<step, parent, usage, prev_obs, snapshot, result>>
    BY <1>0, <1>2, ExecutedType, Zenon
  <2>2. Charged' = IF tick.rec.kind = "device_write" THEN {}
                   ELSE {ClassOf(tick.rec.kind)}
    BY <1>2, <2>1 DEF Charged, ClassOf, MemoryKinds, MachineKinds
  <2>. QED
    BY <1>2, <2>1, <2>2, Zenon DEF ExecDone
<1>3. {"memory_executed", "machine_executed", "device_executed",
       "shell_executed", "sim_executed"} \subseteq Stages
  BY DEF Stages
<1>4. <<>> \in Evs /\ <<"memory">> \in Evs /\ <<"action">> \in Evs
      /\ SimEvents \in Evs
  OBVIOUS
<1>5. /\ \A k \in MemoryKinds : <<"memory_executed", k>> \in Pairs
      /\ \A k \in MachineKinds : <<"machine_executed", k>> \in Pairs
      /\ <<"device_executed", "device_write">> \in Pairs
      /\ <<"shell_executed", "local_shell">> \in Pairs
      /\ <<"sim_executed", "simulator">> \in Pairs
  OBVIOUS
<1>. HIDE DEF Evs, Pairs
<1>6. CASE MissingExecutor
  BY <1>6 DEF MissingExecutor, ExecFailed, TypeOK
<1>7. CASE ExecuteMemory
  BY <1>0, <1>1, <1>2, <1>3, <1>4, <1>5, <1>7, Zenon DEF ExecuteMemory
<1>8. CASE ExecuteDevice
  BY <1>0, <1>1, <1>2, <1>3, <1>4, <1>5, <1>8, Zenon DEF ExecuteDevice
<1>9. CASE ExecuteMachine
  BY <1>0, <1>1, <1>2, <1>3, <1>4, <1>5, <1>9, Zenon DEF ExecuteMachine
<1>10. CASE ExecuteShell
  BY <1>0, <1>1, <1>2, <1>3, <1>4, <1>5, <1>10, Zenon DEF ExecuteShell
<1>11. CASE ExecuteSim
  <2>1. \A n \in 0 .. 2 : n <= Len(SimEvents)
    BY <1>0
  <2>. QED
    BY <1>1, <1>2, <1>3, <1>4, <1>5, <1>11, <2>1, Zenon DEF ExecuteSim
<1>. QED
  BY <1>6, <1>7, <1>8, <1>9, <1>10, <1>11 DEF Execute

(* One step of the loop keeps the types. *)
LEMMA TypeLoop ==
    ASSUME TypeOK, Phase, Loop, attempt' = attempt, best' = best
    PROVE  TypeOK' /\ Phase'
<1>1. CASE BudgetStop \/ StepCap
  <2>1. result' \in ResultSet
    BY <1>1 DEF BudgetStop, StepCap, Stop, TypeOK, ResultSet, Terminations
  <2>. QED
    BY <1>1, <2>1 DEF BudgetStop, StepCap, Stop, StepsLeft, TypeOK, Phase, InTick
<1>3. CASE BeginStep
  <2>1. journal' \in Seq(RecordSet) /\ parent' \in Nat
    <3>1. CASE UNCHANGED <<journal, parent>>
      BY <3>1 DEF TypeOK
    <3>2. CASE /\ journal' = Append(journal, Record("watchdog", "action",
                                                   parent, FALSE))
               /\ parent' = Len(journal')
      <4>. DEFINE r == Record("watchdog", "action", parent, FALSE)
      <4>1. r \in RecordSet
        BY DEF TypeOK, Record, RecordSet, Writers, StepWriters, Events
      <4>. HIDE DEF r
      <4>2. journal \in Seq(RecordSet)
        BY DEF TypeOK
      <4>3. journal' = Append(journal, r)
        BY <3>2 DEF r
      <4>4. journal' \in Seq(RecordSet)
        BY <4>1, <4>2, <4>3, AppendProperties
      <4>5. parent' = Len(journal')
        BY <3>2
      <4>. QED
        BY <4>4, <4>5
    <3>. QED
      BY <1>3, <3>1, <3>2 DEF BeginStep
  <2>2. tick' \in TickSet /\ pc' = "actor"
    BY <1>3, AgentLoopAssumption DEF BeginStep, NoTick, TickSet, Stages, U64
  <2>. QED
    BY <1>3, <2>1, <2>2, AgentLoopAssumption DEF BeginStep, StepsLeft, TypeOK, Phase, InTick
<1>4. CASE Actor
  <2>1. ASSUME NEW n \in 0 .. 4, NEW m \in BOOLEAN
        PROVE  journal \o ActorRecords(n, m) \in Seq(RecordSet)
    <3>1. /\ ActorEvents \in Seq(Events) /\ Len(ActorEvents) = 4
          /\ <<TRUE, m, TRUE, TRUE>> \in Seq(BOOLEAN)
          /\ Len(<<TRUE, m, TRUE, TRUE>>) = 4
      BY DEF ActorEvents, Events
    <3>2. /\ parent \in Nat /\ "actor" \in Writers
          /\ n \in 0 .. Len(ActorEvents) /\ n <= Len(<<TRUE, m, TRUE, TRUE>>)
      BY <3>1 DEF TypeOK, Writers, StepWriters
    <3>3. ActorRecords(n, m) \in Seq(RecordSet)
      BY <3>1, <3>2, ChainType, Zenon DEF ActorRecords
    <3>. QED
      BY <3>3, ConcatProperties DEF TypeOK
  <2>3. CASE /\ \E n \in 0 .. 3, modelOk \in BOOLEAN :
                   journal' = journal \o ActorRecords(n, modelOk)
             /\ TickError /\ UNCHANGED tick
    <3>1. journal' \in Seq(RecordSet)
      BY <2>1, <2>3
    <3>. QED
      BY <1>4, <2>3, <3>1, TickErrorType DEF Actor, TypeOK, Phase, InTick
  <2>4. ASSUME NEW tokens \in 0 .. MaxDecode,
               journal' = journal \o ActorRecords(4, TRUE),
               tick' = [tick EXCEPT !.stage = "actor_done", !.tokens = tokens,
                          !.output_seq = IF WriteJournal
                                           THEN Len(journal) + 2 ELSE 0],
               pc' = "parse",
               UNCHANGED <<step, parent, usage, prev_obs, snapshot, result>>
        PROVE  TypeOK' /\ Phase'
    <3>. DEFINE o == IF WriteJournal THEN Len(journal) + 2 ELSE 0
    <3>1. o \in Nat
      BY DEF TypeOK
    <3>2. tick' = [tick EXCEPT !.stage = "actor_done", !.tokens = tokens,
                               !.output_seq = o]
      BY <2>4
    <3>. HIDE DEF o
    <3>3. tick' \in TickSet
      BY <3>1, <3>2 DEF TypeOK, TickSet, Stages
    <3>4. 4 \in 0 .. 4
      OBVIOUS
    <3>5. journal' \in Seq(RecordSet)
      BY <2>1, <2>4, <3>4, Zenon
    <3>. QED
      BY <1>4, <2>4, <3>3, <3>5 DEF Actor, TypeOK, Phase, InTick
  <2>. QED
    BY <1>4, <2>3, <2>4 DEF Actor
<1>5. CASE Parse
  <2>0. TickParent \in Nat
    BY DEF TickParent, OrElse, TypeOK, TickSet
  <2>1. CASE TickError /\ UNCHANGED <<journal, tick>>
    BY <1>5, <2>1, TickErrorType DEF Parse, TypeOK, Phase, InTick
  <2>2. ASSUME NEW ev \in {"error", "result"}, NEW ok \in BOOLEAN,
               NEW st \in {"recommendation_rejected", "finished"},
               journal' = Append1(journal, Record("tick", ev, TickParent, ok)),
               tick' = [tick EXCEPT !.stage = st],
               pc' = "account",
               UNCHANGED <<step, parent, usage, prev_obs, snapshot, result>>
        PROVE  TypeOK' /\ Phase'
    <3>1. journal' \in Seq(RecordSet)
      <4>1. "tick" \in Writers /\ ev \in Events
        BY DEF Writers, StepWriters, Events
      <4>. QED
        BY <2>0, <2>2, <4>1, AppendType, Zenon
    <3>2. tick' \in TickSet /\ tick'.stage = st
      BY <2>2 DEF TypeOK, TickSet, Stages
    <3>3. Charged' = {}
      BY <2>2, <3>2 DEF Charged
    <3>. QED
      BY <1>5, <2>2, <3>1, <3>2, <3>3 DEF Parse, TypeOK, Phase, InTick
  <2>3. ASSUME NEW r \in Recommendations, tick' = [tick EXCEPT !.rec = r],
               pc' = "gate", UNCHANGED journal,
               UNCHANGED <<step, parent, usage, prev_obs, snapshot, result>>
        PROVE  TypeOK' /\ Phase'
    <3>1. tick' \in TickSet /\ tick'.rec = r
      BY <2>3 DEF TypeOK, TickSet
    <3>. QED
      BY <1>5, <2>3, <3>1 DEF Parse, TypeOK, Phase, InTick
  <2>. QED
    BY <1>5, <2>1, <2>2, <2>3, Zenon DEF Parse, Reject, Finish
<1>6. CASE Gate
  <2>. DEFINE d == GateDecision(tick.rec, usage, snapshot)
  <2>0. TickParent \in Nat /\ d \in Decisions /\ (d = "allow") \in BOOLEAN
    BY DecisionType DEF TickParent, OrElse, TypeOK, TickSet
  <2>1. Append1(journal, GateRecord(d)) \in Seq(RecordSet)
    <3>1. "gate" \in Writers /\ "policy_decision" \in Events
      BY DEF Writers, StepWriters, Events
    <3>. QED
      BY <2>0, <3>1, AppendType, Zenon DEF GateRecord
  <2>2. CASE TickError /\ UNCHANGED tick
             /\ journal' \in {journal, Append1(journal, GateRecord(d))}
    <3>1. journal' \in Seq(RecordSet)
      BY <2>1, <2>2 DEF TypeOK
    <3>. QED
      BY <1>6, <2>2, <3>1, TickErrorType DEF Gate, TypeOK, Phase, InTick
  <2>3. CASE /\ journal' = Append1(journal, GateRecord(d))
             /\ tick' = [tick EXCEPT !.decision = d, !.stage = "policy_gated",
                                     !.policy_seq = SeqAfter(journal)]
             /\ pc' = IF d = "allow" THEN "execute" ELSE "account"
             /\ UNCHANGED <<step, parent, usage, prev_obs, snapshot, result>>
    <3>. DEFINE q == SeqAfter(journal)
    <3>1. q \in Nat
      BY DEF SeqAfter, TypeOK
    <3>2. tick' = [tick EXCEPT !.decision = d, !.stage = "policy_gated",
                               !.policy_seq = q]
      BY <2>3
    <3>. HIDE DEF q, d
    <3>3. /\ tick' \in TickSet /\ tick'.rec = tick.rec
          /\ tick'.stage = "policy_gated" /\ tick'.decision = d
      BY <2>0, <3>1, <3>2 DEF TypeOK, TickSet, Stages
    <3>4. Charged' = {}
      BY <3>3 DEF Charged
    <3>. QED
      BY <1>6, <2>1, <2>3, <3>3, <3>4 DEF Gate, TypeOK, Phase, InTick
  <2>. QED
    BY <1>6, <2>2, <2>3 DEF Gate, Proceeds
<1>7. CASE Execute
  <2>0. pc = "execute" /\ tick.rec \in Recommendations
    BY <1>7 DEF Execute, ExecuteMemory, ExecuteDevice, ExecuteMachine,
                ExecuteShell, ExecuteSim, SkipSsh, MissingExecutor, Phase, InTick
  <2>1. CASE SkipSsh
    <3>1. Charged' = {}
      BY <2>0, <2>1, ChargedClass DEF SkipSsh, Charged, Phase, InTick
    <3>. QED
      BY <2>1, <3>1 DEF SkipSsh, TypeOK, Phase, InTick
  <2>2. CASE ExecFailed
    <3>1. dispatched' \in [Classes -> Nat]
      BY <2>0, <2>2, DispatchType DEF TypeOK, ExecFailed
    <3>. QED
      BY <2>0, <2>2, <3>1, TickErrorType DEF TypeOK, Phase, ExecFailed, InTick
  <2>3. CASE ExecDone
    <3>1. dispatched' \in [Classes -> Nat]
      BY <2>0, <2>3, DispatchType DEF ExecDone
    <3>. QED
      BY <2>0, <2>3, <3>1 DEF TypeOK, Phase, ExecDone, InTick
  <2>. QED
    BY <1>7, <2>1, <2>2, <2>3, ExecuteCases
<1>8. CASE EndStep
  <2>1. /\ pc = "account" /\ step \in 0 .. MaxSteps - 1
        /\ usage' \in [Counters -> U64] /\ parent' \in Nat
        /\ UNCHANGED <<journal, tick, dispatched, shown>>
    <3>1. Account
      BY <1>8 DEF EndStep, EndFinished, EndRejected, EndDenied, EndExecuted
    <3>2. StepSequence \in Nat
      BY DEF StepSequence, ReportedSeq, OrElse, TypeOK, TickSet
    <3>. QED
      BY <3>1, <3>2, UsageType, AgentLoopAssumption
      DEF Account, TypeOK, Phase, InTick
  <2>2. /\ obs' \in Observations \cup Repairs \cup {Empty}
        /\ prev_obs' \in Observations \cup Repairs \cup {Empty}
        /\ snapshot' \subseteq DOMAIN MayPause
    BY <1>8 DEF EndStep, EndFinished, EndRejected, EndDenied, EndExecuted, TypeOK
  <2>. DEFINE n == step + 1
  <2>3. n \in 0 .. MaxSteps
    BY <2>1, AgentLoopAssumption
  <2>4. ASSUME NEW res \in ResultSet
        PROVE  /\ Stepped(res) \in ResultSet
               /\ \A t \in Terminations :
                     [Stepped(res) EXCEPT !.termination = t] \in ResultSet
    <3>1. MarkerSeen \in BOOLEAN
      BY DEF MarkerSeen, TypeOK, ResultSet
    <3>2. Stepped(res) = [res EXCEPT !.steps_taken = n,
                                     !.observation_seen = MarkerSeen]
      BY DEF Stepped
    <3>. HIDE DEF n
    <3>3. Stepped(res) \in ResultSet
      BY <2>3, <3>1, <3>2, Zenon DEF ResultSet
    <3>. QED
      BY <3>3, Zenon DEF ResultSet
  <2>5. ASSUME NEW res \in ResultSet,
               Continue(res) \/ \E t \in Terminations : Return(t, res)
        PROVE  /\ result' \in ResultSet
               /\ \/ pc' = "check" /\ step' = n
                  \/ pc' = "returned" /\ step' = step
    BY <2>4, <2>5, Zenon DEF Continue, Return
  <2>6. /\ result \in ResultSet
        /\ [result EXCEPT !.repairs_used = @ + 1] \in ResultSet
        /\ [result EXCEPT !.actions_executed = @ + 1] \in ResultSet
    <3>. DEFINE r == result.repairs_used + 1
                a == result.actions_executed + 1
    <3>1. r \in Nat /\ a \in Nat
      BY DEF TypeOK, ResultSet
    <3>. HIDE DEF r, a
    <3>2. /\ [result EXCEPT !.repairs_used = r] \in ResultSet
          /\ [result EXCEPT !.actions_executed = a] \in ResultSet
      BY <3>1, Zenon DEF TypeOK, ResultSet
    <3>. QED
      BY <3>2, Zenon DEF r, a, TypeOK
  <2>7. \E res \in ResultSet :
           Continue(res) \/ \E t \in Terminations : Return(t, res)
    <3>1. {"finished", "rejected", "denied"} \subseteq Terminations
      BY DEF Terminations
    <3>. QED
      BY <1>8, <2>6, <3>1
      DEF EndStep, EndFinished, EndRejected, EndDenied, EndExecuted, Repaired
  <2>8. /\ result' \in ResultSet
        /\ \/ pc' = "check" /\ step' = n
           \/ pc' = "returned" /\ step' = step
    BY <2>5, <2>7
  <2>. QED
    BY <2>1, <2>2, <2>3, <2>8 DEF TypeOK, Phase, InTick
<1>. QED
  BY <1>1, <1>3, <1>4, <1>5, <1>6, <1>7, <1>8 DEF Loop

(* The best attempt so far is one of the attempts (agent_command). *)
LEMMA KeepType ==
    ASSUME TypeOK, Keep
    PROVE  best' \in [rank : -2 .. 100, pass : BOOLEAN, steps : 0 .. MaxSteps]
<1>1. Rank \in -2 .. 100
  BY DEF Rank, RunRank
<1>2. Passes \in BOOLEAN
  BY DEF Passes
<1>3. result.steps_taken \in 0 .. MaxSteps
  BY DEF TypeOK, ResultSet
<1>. QED
  BY <1>1, <1>2, <1>3 DEF TypeOK, Keep

(* What agent_command writes is a record. *)
LEMMA RootType ==
    ASSUME TypeOK, NEW by \in Writers, NEW event \in Events, NEW at \in Nat,
           NEW ok \in BOOLEAN
    PROVE  RootRecord(by, event, at, ok) \in RecordSet
BY AgentLoopAssumption DEF RootRecord, RecordSet, TypeOK

(* The journal after the loop has returned: the records at its end are of the  *)
(* writers that close an attempt.                                              *)
Closed ==
    /\ journal' \in Seq(RecordSet) /\ Len(journal') >= Len(journal)
    /\ \A i \in 1 .. Len(journal) : journal'[i] = journal[i]
    /\ \A i \in Len(journal) + 1 .. Len(journal') :
          journal'[i].by \in EndWriters /\ journal'[i].try = attempt
    /\ ~WriteJournal => journal' = journal

LEMMA ClosedSame == ASSUME TypeOK, UNCHANGED journal PROVE Closed
BY DEF Closed, TypeOK

LEMMA ClosedOne ==
    ASSUME TypeOK, WriteJournal, NEW rec \in RecordSet,
           rec.by \in EndWriters, rec.try = attempt,
           journal' = Append(journal, rec)
    PROVE  Closed
<1>1. journal \in Seq(RecordSet)
  BY DEF TypeOK
<1>2. /\ journal' \in Seq(RecordSet) /\ Len(journal') = Len(journal) + 1
      /\ \A i \in 1 .. Len(journal) : journal'[i] = journal[i]
      /\ journal'[Len(journal) + 1] = rec
  BY <1>1, AppendProperties
<1>. QED
  BY <1>1, <1>2 DEF Closed

(* The three writers after the loop (spg_agent_run, agent_command). *)
LEMMA EndClosed ==
    ASSUME TypeOK, EndRun \/ Verdict \/ Release
    PROVE  Closed
<1>0. {"service", "verdict", "release"} \subseteq EndWriters
      /\ EndWriters \subseteq Writers /\ {"action", "result"} \subseteq Events
      /\ 0 \in Nat /\ best.steps \in Nat /\ best.pass \in BOOLEAN
  BY AgentLoopAssumption DEF EndWriters, Writers, Events, TypeOK
<1>1. CASE EndRun
  <2>1. CASE UNCHANGED journal
    BY <2>1, ClosedSame
  <2>2. CASE WriteJournal /\ journal' =
                Append(journal, Record("service", "action", 0, FALSE))
    <3>. DEFINE rec == Record("service", "action", 0, FALSE)
    <3>1. rec \in RecordSet /\ rec.by = "service" /\ rec.try = attempt
      BY <1>0 DEF Record, RecordSet, TypeOK
    <3>. HIDE DEF rec
    <3>. QED
      BY <1>0, <2>2, <3>1, ClosedOne DEF rec
  <2>. QED
    BY <1>1, <2>1, <2>2 DEF EndRun
<1>2. CASE Verdict
  <2>1. CASE UNCHANGED journal
    BY <2>1, ClosedSame
  <2>2. ASSUME NEW post_ok \in BOOLEAN,
               journal' = Append1(journal, RootRecord("verdict", "result",
                                             best.steps, best.pass /\ post_ok))
        PROVE  Closed
    <3>. DEFINE ok == best.pass /\ post_ok
                rec == RootRecord("verdict", "result", best.steps, ok)
    <3>1. ok \in BOOLEAN
      OBVIOUS
    <3>. HIDE DEF ok
    <3>2. rec \in RecordSet
      BY <1>0, <3>1, RootType
    <3>3. rec.by = "verdict" /\ rec.try = attempt
      BY DEF RootRecord
    <3>. HIDE DEF rec
    <3>4. CASE WriteJournal
      BY <1>0, <2>2, <3>2, <3>3, <3>4, ClosedOne DEF rec, ok, Append1
    <3>5. CASE ~WriteJournal
      BY <2>2, <3>5, ClosedSame DEF Append1
    <3>. QED
      BY <3>4, <3>5
  <2>. QED
    BY <1>2, <2>1, <2>2, Zenon DEF Verdict
<1>3. CASE Release
  <2>2. PICK n \in IF WriteJournal THEN 0 .. MaxPaused ELSE {0} :
        \E resumed \in [1 .. n -> BOOLEAN] :
           journal' = journal \o [i \in 1 .. n |->
                       RootRecord("release", "action", 0, resumed[i])]
    BY <1>3 DEF Release
  <2>1. PICK resumed \in [1 .. n -> BOOLEAN] :
           journal' = journal \o [i \in 1 .. n |->
                       RootRecord("release", "action", 0, resumed[i])]
    BY <2>2
  <2>. DEFINE rec(i) == RootRecord("release", "action", 0, resumed[i])
              recs   == [i \in 1 .. n |-> rec(i)]
  <2>3. n \in Nat /\ (~WriteJournal => n = 0)
    BY <2>2, AgentLoopAssumption
  <2>8. \A i \in 1 .. n : /\ rec(i) \in RecordSet
                          /\ rec(i).by = "release" /\ rec(i).try = attempt
    <3>. TAKE i \in 1 .. n
    <3>1. resumed[i] \in BOOLEAN
      BY <2>1
    <3>2. rec(i) \in RecordSet
      BY <1>0, <3>1, RootType
    <3>. QED
      BY <3>2 DEF RootRecord
  <2>9. journal' = journal \o recs
    BY <2>1
  <2>. HIDE DEF rec
  <2>4. recs \in Seq(RecordSet) /\ Len(recs) = n
        /\ \A i \in 1 .. n : recs[i] = rec(i)
    BY <2>8, <2>3
  <2>. HIDE DEF recs
  <2>5. journal \in Seq(RecordSet)
    BY DEF TypeOK
  <2>6. /\ journal' \in Seq(RecordSet) /\ Len(journal') = Len(journal) + n
        /\ \A i \in 1 .. Len(journal) : journal'[i] = journal[i]
        /\ \A i \in Len(journal) + 1 .. Len(journal) + n :
              journal'[i] = recs[i - Len(journal)]
    BY <2>9, <2>3, <2>4, <2>5, ConcatProperties
  <2>10. \A i \in Len(journal) + 1 .. Len(journal) + n :
            journal'[i].by = "release" /\ journal'[i].try = attempt
    <3>. TAKE i \in Len(journal) + 1 .. Len(journal) + n
    <3>1. i - Len(journal) \in 1 .. n
      BY <2>3, <2>5
    <3>. QED
      BY <2>4, <2>6, <2>8, <3>1
  <2>7. ~WriteJournal => journal' = journal
    BY <2>9, <2>3, <2>4, <2>5, ConcatEmptySeq
  <2>. QED
    BY <1>0, <2>3, <2>5, <2>6, <2>7, <2>10 DEF Closed
<1>. QED
  BY <1>1, <1>2, <1>3

(* Every step of a run keeps the types. *)
LEMMA TypeNext == TypeOK /\ Phase /\ [Next]_vars => TypeOK' /\ Phase'
<1>. SUFFICES ASSUME TypeOK, Phase, [Next]_vars PROVE TypeOK' /\ Phase'
  OBVIOUS
<1>0. CASE UNCHANGED vars
  <2>1. TypeOK'
    BY <1>0 DEF TypeOK, vars, loopVars, outer
  <2>2. Charged' = Charged
    BY <1>0 DEF vars, loopVars, Charged
  <2>. QED
    BY <1>0, <2>1, <2>2 DEF vars, loopVars, Phase
<1>1. CASE Loop /\ UNCHANGED outer
  BY <1>1, TypeLoop DEF outer
<1>2. CASE EndRun \/ Verdict \/ Release
  <2>1. journal' \in Seq(RecordSet)
    BY <1>2, EndClosed DEF Closed
  <2>2. pc' \in {"judge", "release", "done"}
        /\ UNCHANGED <<step, parent, tick, usage, obs, prev_obs, snapshot,
                       result, dispatched, shown, attempt, best>>
    BY <1>2 DEF EndRun, Verdict, Release, outer
  <2>. QED
    BY <2>1, <2>2 DEF TypeOK, Phase, InTick
<1>3. CASE NextAttempt
  <2>1. best' \in [rank : -2 .. 100, pass : BOOLEAN, steps : 0 .. MaxSteps]
    BY <1>3, KeepType DEF NextAttempt
  <2>2. attempt' \in 1 .. Attempts
    BY <1>3, AgentLoopAssumption DEF NextAttempt, TypeOK
  <2>3. /\ pc' = "check" /\ step' = 0 /\ parent' = 0 /\ tick' = NoTick
        /\ usage' = NoUsage /\ dispatched' = NoDispatch /\ result' = NoResult
        /\ obs' = Empty /\ prev_obs' = Empty /\ shown' = {}
        /\ UNCHANGED <<journal, snapshot>>
    BY <1>3 DEF NextAttempt
  <2>4. 0 \in U64 /\ MaxSteps \in Nat /\ MaxDecode \in Nat
    BY PolicyAssumption, AgentLoopAssumption DEF U64
  <2>5. /\ NoTick \in TickSet /\ NoUsage \in [Counters -> U64]
        /\ NoDispatch \in [Classes -> Nat] /\ NoResult \in ResultSet
    BY <2>4 DEF NoTick, TickSet, Stages, NoUsage, NoDispatch, NoResult,
                ResultSet, Terminations
  <2>6. TypeOK'
    BY <2>1, <2>2, <2>3, <2>4, <2>5 DEF TypeOK
  <2>7. Phase'
    BY <2>3 DEF Phase, InTick
  <2>. QED
    BY <2>6, <2>7
<1>4. CASE LastAttempt
  <2>1. best' \in [rank : -2 .. 100, pass : BOOLEAN, steps : 0 .. MaxSteps]
    BY <1>4, KeepType DEF LastAttempt
  <2>. QED
    BY <1>4, <2>1 DEF LastAttempt, TypeOK, Phase, InTick
<1>. QED
  BY <1>0, <1>1, <1>2, <1>3, <1>4 DEF Next, Done

(* The agent loop is type correct for every policy and every set of           *)
(* recommendations (spg_agent_loop_run).                                      *)
THEOREM TypeCorrect == Spec => []TypeOK
<1>. QED
  BY TypeInit, TypeNext, PTL DEF Spec

-----------------------------------------------------------------------------
(* The budgets. ChargedWithinBudget is not inductive: the charge happens one  *)
(* action after the decision, so the invariant carries the room the gate      *)
(* found (Room) up to the charge, and says how much of what was dispatched is *)
(* still to be charged (Books).                                               *)
Running == pc = "check" \/ pc \in InTick

Pending(c) == IF pc = "account" /\ c \in Charged THEN tick.rec.cost ELSE 0

Room ==
    pc = "execute" \/ (pc = "account" /\ Charged # {}) =>
        usage[ClassOf(tick.rec.kind)] + tick.rec.cost
            <= Budgets[ClassOf(tick.rec.kind)]

Books ==
    \A c \in Classes \ {"machine_actions"} :
        /\ dispatched[c] <= Budgets[c]
        /\ Running => dispatched[c] = usage[c] + Pending(c)

BudgetInv == ChargedWithinBudget /\ Room /\ Books

LEMMA BudgetTypes ==
    ASSUME TypeOK, NEW c \in Classes
    PROVE  usage[c] \in Nat /\ Budgets[c] \in Nat /\ dispatched[c] \in Nat
           /\ usage[c] <= U64Max /\ U64Max \in Nat
BY PolicyAssumption DEF TypeOK, Counters, U64

LEMMA BudgetInit == Init => BudgetInv
<1>. SUFFICES ASSUME Init PROVE BudgetInv
  OBVIOUS
<1>1. \A c \in Classes : usage[c] = 0 /\ dispatched[c] = 0 /\ Budgets[c] \in Nat
  BY PolicyAssumption DEF Init, NoUsage, NoDispatch, Counters, U64
<1>. QED
  BY <1>1 DEF Init, BudgetInv, ChargedWithinBudget, Room, Books, Pending

(* Steps that leave the counters alone and do not change what is pending. *)
LEMMA BudgetFrame ==
    ASSUME TypeOK, BudgetInv, UNCHANGED <<usage, dispatched>>,
           pc \in {"check", "actor", "parse", "gate", "execute"},
           pc' \notin {"execute", "account"} \/ (pc' = "account" /\ Charged' = {})
    PROVE  BudgetInv'
<1>1. ChargedWithinBudget'
  BY DEF BudgetInv, ChargedWithinBudget
<1>2. Room'
  BY DEF Room
<1>3. ASSUME NEW c \in Classes
      PROVE  Pending(c) = 0 /\ Pending(c)' = 0
  BY DEF Pending
<1>4. Books'
  BY <1>3 DEF Books, BudgetInv, Running, InTick
<1>. QED
  BY <1>1, <1>2, <1>4 DEF BudgetInv

LEMMA BudgetLoop ==
    ASSUME TypeOK, Phase, BudgetInv, Loop
    PROVE  BudgetInv'
<1>1. CASE BudgetStop \/ StepCap \/ BeginStep
  BY <1>1, BudgetFrame DEF BudgetStop, StepCap, Stop, BeginStep, StepsLeft
<1>2. CASE Actor
  <2>1. pc = "actor" /\ pc' \in {"parse", "returned"}
        /\ UNCHANGED <<usage, dispatched>>
    BY <1>2, Zenon DEF Actor, TickError
  <2>. QED
    BY <2>1, BudgetFrame
<1>3. CASE Parse
  <2>1. pc = "parse" /\ UNCHANGED <<usage, dispatched>>
        /\ pc' \in {"account", "gate", "returned"}
    BY <1>3, Zenon DEF Parse, Reject, Finish, TickError
  <2>2. CASE pc' = "account"
    <3>1. tick'.stage \in {"recommendation_rejected", "finished"}
      BY <1>3, <2>2 DEF Parse, Reject, Finish, TickError, TypeOK, TickSet
    <3>2. Charged' = {}
      BY <3>1 DEF Charged
    <3>. QED
      BY <2>1, <2>2, <3>2, BudgetFrame
  <2>. QED
    BY <2>1, <2>2, BudgetFrame
<1>4. CASE Gate
  <2>. DEFINE d == GateDecision(tick.rec, usage, snapshot)
  <2>1. pc = "gate" /\ UNCHANGED <<usage, dispatched>>
        /\ tick.rec \in Recommendations
    BY <1>4, Zenon DEF Gate, TickError, Phase
  <2>2. CASE pc' = "returned"
    BY <2>1, <2>2, BudgetFrame
  <2>3. CASE pc' # "returned"
    <3>1. /\ pc' = IF d = "allow" THEN "execute" ELSE "account"
          /\ tick' = [tick EXCEPT !.decision = d, !.stage = "policy_gated",
                                  !.policy_seq = SeqAfter(journal)]
      BY <1>4, <2>3, Zenon DEF Gate, Proceeds, TickError
    <3>. HIDE DEF d
    <3>2. tick'.rec = tick.rec /\ tick'.stage = "policy_gated"
      BY <3>1, Zenon DEF TypeOK, TickSet
    <3>3. Charged' = {}
      BY <3>2 DEF Charged
    <3>4. CASE d # "allow"
      BY <2>1, <3>1, <3>3, <3>4, BudgetFrame
    <3>5. CASE d = "allow"
      <4>1. usage[ClassOf(tick.rec.kind)] + tick.rec.cost
               <= Budgets[ClassOf(tick.rec.kind)]
        BY <2>1, <3>5, AllowFits DEF TypeOK, d
      <4>2. Room'
        BY <2>1, <3>2, <4>1 DEF Room
      <4>3. \A c \in Classes : Pending(c) = 0 /\ Pending(c)' = 0
        BY <2>1, <3>1, <3>5 DEF Pending
      <4>. QED
        BY <2>1, <4>2, <4>3, <3>1, <3>5
        DEF BudgetInv, ChargedWithinBudget, Books, Running, InTick
    <3>. QED
      BY <3>4, <3>5
  <2>. QED
    BY <2>2, <2>3
<1>5. CASE Execute
  <2>. DEFINE k == ClassOf(tick.rec.kind)
  <2>0. pc = "execute" /\ tick.rec \in Recommendations /\ k \in Classes
    BY <1>5, ClassOfType
    DEF Execute, ExecuteMemory, ExecuteDevice, ExecuteMachine,
        ExecuteShell, ExecuteSim, SkipSsh, MissingExecutor, Phase
  <2>1. CASE SkipSsh
    <3>1. Charged' = {}
      BY <2>0, <2>1 DEF SkipSsh, Charged, Phase
    <3>. QED
      BY <2>0, <2>1, <3>1, BudgetFrame DEF SkipSsh
  <2>2. tick.rec.cost \in Nat
    BY <2>0, AgentLoopAssumption, PolicyAssumption DEF U64
  <2>3. \A c \in Classes : /\ usage[c] \in Nat /\ Budgets[c] \in Nat
                           /\ dispatched[c] \in Nat
    BY BudgetTypes
  <2>4. /\ usage[k] + tick.rec.cost <= Budgets[k]
        /\ \A c \in Classes : usage[c] <= Budgets[c]
        /\ \A c \in Classes \ {"machine_actions"} :
              dispatched[c] = usage[c] /\ dispatched[c] <= Budgets[c]
    BY <2>0, <2>3 DEF BudgetInv, Room, Books, Pending, ChargedWithinBudget, Running, InTick
  <2>5. Dispatch => \A c \in Classes : dispatched'[c] =
                       IF c = k THEN dispatched[c] + tick.rec.cost
                       ELSE dispatched[c]
    BY <2>0, DispatchType
  <2>. HIDE DEF k
  <2>6. Dispatch \/ UNCHANGED dispatched =>
          \A c \in Classes \ {"machine_actions"} : dispatched'[c] <= Budgets[c]
    BY <2>2, <2>3, <2>4, <2>5
  <2>7. CASE ExecFailed
    <3>1. pc' = "returned" /\ usage' = usage
      BY <2>7 DEF ExecFailed, TickError
    <3>2. Books'
      BY <2>6, <2>7, <3>1 DEF ExecFailed, Books, Running, InTick
    <3>. QED
      BY <2>4, <3>1, <3>2 DEF BudgetInv, ChargedWithinBudget, Room
  <2>8. CASE ExecDone
    <3>1. pc' = "account" /\ usage' = usage /\ tick'.rec = tick.rec /\ Dispatch
      BY <2>8 DEF ExecDone
    <3>2. Charged' = IF tick.rec.kind = "device_write" THEN {} ELSE {k}
      BY <2>8 DEF ExecDone, k
    <3>3. Room'
      BY <2>4, <3>1 DEF Room, k
    <3>4. tick.rec.kind = "device_write" => k = "machine_actions"
      BY DEF k, ClassOf, MemoryKinds
    <3>5. \A c \in Classes \ {"machine_actions"} :
             Pending(c)' = IF c = k THEN tick.rec.cost ELSE 0
      BY <3>1, <3>2, <3>4 DEF Pending
    <3>6. Books'
      BY <2>2, <2>3, <2>4, <2>5, <2>6, <3>1, <3>5 DEF Books
    <3>. QED
      BY <2>4, <3>1, <3>3, <3>6 DEF BudgetInv, ChargedWithinBudget
  <2>. QED
    BY <1>5, <2>1, <2>7, <2>8, ExecuteCases
<1>6. CASE EndStep
  <2>1. Account /\ pc' \in {"check", "returned"}
    BY <1>6 DEF EndStep, EndFinished, EndRejected, EndDenied, EndExecuted,
                Continue, Return
  <2>2. pc = "account" /\ usage' = AccumulateUsage /\ dispatched' = dispatched
    BY <2>1 DEF Account
  <2>3. ASSUME NEW c \in Classes
        PROVE  usage'[c] = usage[c] + Pending(c) /\ usage'[c] <= Budgets[c]
    <3>1. usage'[c] = IF c \in Charged THEN AddU64(usage[c], tick.rec.cost)
                      ELSE usage[c]
      BY <2>2 DEF AccumulateUsage, Counters, Classes
    <3>2. /\ usage[c] \in Nat /\ Budgets[c] \in Nat /\ U64Max \in Nat
          /\ Budgets[c] <= U64Max /\ usage[c] <= Budgets[c]
      BY BudgetTypes, PolicyAssumption DEF U64, BudgetInv, ChargedWithinBudget
    <3>3. CASE c \in Charged
      <4>1. tick.rec \in Recommendations /\ c = ClassOf(tick.rec.kind)
        BY <2>2, <3>3 DEF Phase
      <4>2. tick.rec.cost \in Nat
        BY <4>1, AgentLoopAssumption, PolicyAssumption DEF U64
      <4>3. usage[c] + tick.rec.cost <= Budgets[c]
        BY <2>2, <3>3, <4>1 DEF BudgetInv, Room
      <4>. QED
        BY <2>2, <3>1, <3>2, <3>3, <4>2, <4>3 DEF AddU64, Pending
    <3>4. CASE c \notin Charged
      BY <3>1, <3>2, <3>4 DEF Pending
    <3>. QED
      BY <3>3, <3>4
  <2>4. \A c \in Classes : Pending(c)' = 0
    BY <2>1 DEF Pending
  <2>5. \A c \in Classes : usage'[c] \in Nat
    BY <2>2, UsageType, PolicyAssumption DEF Counters, U64
  <2>6. Books'
    BY <2>2, <2>3, <2>4, <2>5 DEF Books, BudgetInv, Running, InTick
  <2>. QED
    BY <2>1, <2>3, <2>6 DEF BudgetInv, ChargedWithinBudget, Room
<1>. QED
  BY <1>1, <1>2, <1>3, <1>4, <1>5, <1>6 DEF Loop

(* Between the attempts nothing is charged, and the next one starts at zero.   *)
LEMMA BudgetNext ==
    TypeOK /\ Phase /\ BudgetInv /\ [Next]_vars => BudgetInv'
<1>. SUFFICES ASSUME TypeOK, Phase, BudgetInv, [Next]_vars PROVE BudgetInv'
  OBVIOUS
<1>0. CASE UNCHANGED vars
  <2>1. Charged' = Charged
    BY <1>0 DEF vars, loopVars, Charged
  <2>2. \A c \in Classes : Pending(c)' = Pending(c)
    BY <1>0, <2>1 DEF vars, loopVars, Pending
  <2>3. Running' = Running
    BY <1>0 DEF vars, loopVars, Running
  <2>. QED
    BY <1>0, <2>1, <2>2, <2>3
    DEF vars, loopVars, BudgetInv, ChargedWithinBudget, Room, Books
<1>1. CASE Loop
  BY <1>1, BudgetLoop
<1>2. CASE EndRun \/ LastAttempt \/ Verdict \/ Release
  <2>1. pc' \in {"judge", "verdict", "release", "done"}
        /\ UNCHANGED <<usage, dispatched>>
    BY <1>2 DEF EndRun, LastAttempt, Verdict, Release
  <2>. QED
    BY <2>1 DEF BudgetInv, ChargedWithinBudget, Room, Books, Running, InTick
<1>3. CASE NextAttempt
  <2>1. /\ pc' = "check" /\ usage' = NoUsage /\ dispatched' = NoDispatch
    BY <1>3 DEF NextAttempt
  <2>2. \A c \in Classes : usage'[c] = 0 /\ dispatched'[c] = 0
                           /\ Budgets[c] \in Nat /\ Pending(c)' = 0
    BY <2>1, PolicyAssumption DEF NoUsage, NoDispatch, Counters, U64, Pending
  <2>. QED
    BY <2>1, <2>2 DEF BudgetInv, ChargedWithinBudget, Room, Books
<1>. QED
  BY <1>0, <1>1, <1>2, <1>3 DEF Next, Done

(* The counters the gate decides on stay within the policy's global budgets,  *)
(* for every policy and whatever the model emits (spg_policy_decide,          *)
(* accumulate_usage).                                                         *)
THEOREM BudgetSafe == Spec => []ChargedWithinBudget
<1>1. BudgetInv => ChargedWithinBudget
  BY DEF BudgetInv
<1>. QED
  BY <1>1, TypeInit, TypeNext, BudgetInit, BudgetNext, PTL DEF Spec

(* What the shell, simulator and memory executors were handed in a run stays  *)
(* within the budget of their class, runs that end in an error included       *)
(* (spg_orchestrator_tick dispatches before accumulate_usage charges).        *)
THEOREM SpendSafe == Spec => []SpendWithinBudget
<1>1. BudgetInv => SpendWithinBudget
  BY DEF BudgetInv, Books, SpendWithinBudget
<1>. QED
  BY <1>1, TypeInit, TypeNext, BudgetInit, BudgetNext, PTL DEF Spec

-----------------------------------------------------------------------------
(* What the loop reports. The invariant says where control is when the       *)
(* result, the marker and the counters agree with what happened.             *)
(* A step that has not returned is not in the result yet, and began within    *)
(* the budgets.                                                               *)
Counted ==
    /\ Running =>
          /\ step = result.repairs_used + result.actions_executed
          /\ result.termination = "running"
    /\ pc \in InTick =>
          /\ TokenBudget > 0 => usage["tokens"] < TokenBudget
          /\ StepBudget > 0 => usage["inference_steps"] < StepBudget

(* A text with the marker stood in the buffer: one of the executed steps'      *)
(* texts sh, the text of one of n repairs, or the empty text.                  *)
Held(sh, n) ==
    \/ sh \cap Marked # {}
    \/ n > 0 /\ Repairs \cap Marked # {}
    \/ Empty \in Marked

(* The marker is latched at the end of the step that showed it, before the    *)
(* buffer is written again.                                                   *)
Latch ==
    Running =>
        /\ obs \in Marked => Held(shown, result.repairs_used)
        /\ result.observation_seen => Held(shown, result.repairs_used)
        /\ shown \cap Marked # {} =>
              result.observation_seen \/ (pc = "account" /\ obs \in Marked)

HonestInv == Counted /\ Latch /\ ResultHonest

LEMMA BudgetNat ==
    ASSUME TypeOK
    PROVE  /\ TokenBudget \in Nat /\ StepBudget \in Nat /\ MaxDecode \in Nat
           /\ U64Max \in Nat /\ MaxRepairs \in Nat /\ step \in Nat
           /\ usage["tokens"] \in Nat /\ usage["inference_steps"] \in Nat
           /\ result.repairs_used \in Nat /\ result.actions_executed \in Nat
BY AgentLoopAssumption, PolicyAssumption
   DEF TypeOK, ResultSet, Counters, U64

LEMMA HonestInit == Init => HonestInv
<1>. SUFFICES ASSUME Init PROVE HonestInv
  OBVIOUS
<1>1. /\ pc = "check" /\ step = 0 /\ shown = {} /\ obs = Empty
      /\ result.repairs_used = 0 /\ result.actions_executed = 0
      /\ result.termination = "running" /\ result.observation_seen = FALSE
      /\ usage["tokens"] = 0 /\ usage["inference_steps"] = 0
      /\ TokenBudget \in Nat /\ StepBudget \in Nat /\ MaxDecode \in Nat
      /\ MaxRepairs \in Nat
  BY AgentLoopAssumption, PolicyAssumption
  DEF Init, NoUsage, NoResult, Counters, U64
<1>. QED
  BY <1>1 DEF HonestInv, Counted, Latch, Held, ResultHonest, FinishIsEarned,
     MarkerLatched, BudgetOvershoot, InTick

(* A tick that fails reports an error and nothing else. *)
LEMMA HonestError ==
    ASSUME TypeOK, HonestInv, pc \in InTick, TickError, shown' = shown
    PROVE  HonestInv'
<1>1. /\ pc' = "returned" /\ usage' = usage
      /\ result'.termination = "error"
      /\ result'.repairs_used = result.repairs_used
  BY DEF TickError, TypeOK, ResultSet
<1>. QED
  BY <1>1 DEF HonestInv, Counted, Latch, ResultHonest, FinishIsEarned,
     MarkerLatched, BudgetOvershoot, Running, InTick

(* The other steps of a tick leave the result to the loop. *)
LEMMA HonestTick ==
    ASSUME TypeOK, HonestInv, pc \in InTick \ {"account"},
           pc' \in InTick, UNCHANGED <<step, usage, result>>,
           UNCHANGED <<obs, shown>> \/
              (pc' = "account" /\ shown' = shown \cup {obs'})
    PROVE  HonestInv'
<1>1. Running /\ Running' /\ pc # "account" /\ pc # "check" /\ pc' # "check"
      /\ pc' \in InTick
  BY DEF InTick, Running
<1>2. Counted'
  BY <1>1 DEF HonestInv, Counted
<1>3. Latch'
  BY <1>1 DEF HonestInv, Latch, Held
<1>4. ResultHonest'
  BY <1>1, <1>2 DEF HonestInv, Counted, ResultHonest, FinishIsEarned,
     MarkerLatched, BudgetOvershoot
<1>. QED
  BY <1>2, <1>3, <1>4 DEF HonestInv

(* An executor that returned leaves its observation current, or none. *)
LEMMA ExecuteShows ==
    ASSUME Execute
    PROVE  \/ TickError /\ shown' = shown
           \/ /\ pc' = "account" /\ UNCHANGED <<step, usage, result>>
              /\ UNCHANGED <<obs, shown>> \/ shown' = shown \cup {obs'}
<1>1. ASSUME NEW st, NEW ev, NEW fr \in BOOLEAN, NEW mu,
             Executed(st, ev, fr, mu), fr = FALSE => obs' = obs
      PROVE  /\ pc' = "account" /\ UNCHANGED <<step, usage, result>>
             /\ UNCHANGED <<obs, shown>> \/ shown' = shown \cup {obs'}
  BY <1>1, Zenon DEF Executed
<1>2. ASSUME NEW ev, NEW n, ExecError(ev, n)
      PROVE  TickError /\ shown' = shown
  BY <1>2, Zenon DEF ExecError
<1>3. CASE ExecuteMemory
  BY <1>1, <1>2, <1>3, Zenon DEF ExecuteMemory
<1>4. CASE ExecuteDevice
  BY <1>1, <1>2, <1>4, Zenon DEF ExecuteDevice
<1>5. CASE ExecuteMachine
  BY <1>1, <1>2, <1>5, Zenon DEF ExecuteMachine
<1>6. CASE ExecuteShell
  BY <1>1, <1>2, <1>6, Zenon DEF ExecuteShell
<1>7. CASE ExecuteSim
  BY <1>1, <1>2, <1>7, Zenon DEF ExecuteSim
<1>8. CASE SkipSsh
  BY <1>8 DEF SkipSsh
<1>9. CASE MissingExecutor
  BY <1>9 DEF MissingExecutor
<1>. QED
  BY <1>3, <1>4, <1>5, <1>6, <1>7, <1>8, <1>9 DEF Execute

(* A step that is accounted passes a budget by less than one decode. *)
LEMMA AccountOvershoot ==
    ASSUME TypeOK, Phase, HonestInv, Account
    PROVE  BudgetOvershoot'
<1>1. /\ usage'["tokens"] = AddU64(usage["tokens"], tick.tokens)
      /\ usage'["inference_steps"] = AddU64(usage["inference_steps"], 1)
  BY DEF Account, AccumulateUsage, Counters
<1>2. tick.tokens \in 0 .. MaxDecode
  BY DEF TypeOK, TickSet
<1>3. /\ TokenBudget > 0 => usage["tokens"] < TokenBudget
      /\ StepBudget > 0 => usage["inference_steps"] < StepBudget
  BY DEF HonestInv, Counted, Account, Running, InTick
<1>4. \A a, v \in Nat : AddU64(a, v) <= a + v
  BY PolicyAssumption DEF AddU64
<1>5. /\ usage'["tokens"] <= usage["tokens"] + tick.tokens
      /\ usage'["inference_steps"] <= usage["inference_steps"] + 1
  <2>1. usage["tokens"] \in Nat /\ usage["inference_steps"] \in Nat
    BY PolicyAssumption DEF TypeOK, Counters, U64
  <2>2. tick.tokens \in Nat /\ 1 \in Nat
    BY <1>2, BudgetNat
  <2>3. AddU64(usage["tokens"], tick.tokens) <= usage["tokens"] + tick.tokens
    BY <1>4, <2>1, <2>2
  <2>4. AddU64(usage["inference_steps"], 1) <= usage["inference_steps"] + 1
    BY <1>4, <2>1, <2>2
  <2>. QED
    BY <1>1, <2>3, <2>4
<1>6. usage'["tokens"] \in Nat /\ usage'["inference_steps"] \in Nat
  BY UsageType, PolicyAssumption DEF Account, Counters, U64
<1>. QED
  BY <1>2, <1>3, <1>5, <1>6, BudgetNat DEF BudgetOvershoot

LEMMA HonestEnd ==
    ASSUME TypeOK, Phase, HonestInv, EndStep
    PROVE  HonestInv'
<1>1. Account /\ pc = "account" /\ shown' = shown /\ tick' = tick
  BY DEF EndStep, EndFinished, EndRejected, EndDenied, EndExecuted, Account
<1>2. BudgetOvershoot'
  BY <1>1, AccountOvershoot
<1>0. Running
  BY <1>1 DEF Running, InTick
<1>3. /\ shown \cap Marked # {} => MarkerSeen
      /\ MarkerSeen => Held(shown, result.repairs_used)
  BY <1>0, <1>1 DEF HonestInv, Latch, MarkerSeen
<1>4. /\ step = result.repairs_used + result.actions_executed
      /\ result.termination = "running" /\ result.repairs_used <= MaxRepairs
  BY <1>0, <1>1 DEF HonestInv, Counted, ResultHonest
<1>5. ASSUME NEW res \in ResultSet
      PROVE  /\ Stepped(res).observation_seen = MarkerSeen
             /\ Stepped(res).termination = res.termination
             /\ Stepped(res).repairs_used = res.repairs_used
             /\ Stepped(res).actions_executed = res.actions_executed
             /\ \A t \in Terminations :
                   LET r == [Stepped(res) EXCEPT !.termination = t]
                   IN  /\ r.observation_seen = MarkerSeen /\ r.termination = t
                       /\ r.repairs_used = res.repairs_used
                       /\ r.actions_executed = res.actions_executed
  <2>. DEFINE n == step + 1
  <2>1. Stepped(res) = [res EXCEPT !.steps_taken = n,
                                   !.observation_seen = MarkerSeen]
    BY DEF Stepped
  <2>. HIDE DEF n
  <2>. QED
    BY <2>1, Zenon DEF ResultSet
<1>6. ASSUME NEW res \in ResultSet, Continue(res), res.termination = "running",
             res.repairs_used <= MaxRepairs,
             step + 1 = res.repairs_used + res.actions_executed,
             obs' \in Marked => Held(shown, res.repairs_used),
             MarkerSeen => Held(shown, res.repairs_used)
      PROVE  HonestInv'
  <2>1. /\ result'.observation_seen = MarkerSeen
        /\ result'.termination = "running"
        /\ result'.repairs_used = res.repairs_used
        /\ result'.actions_executed = res.actions_executed
        /\ pc' = "check" /\ step' = step + 1
    BY <1>5, <1>6 DEF Continue
  <2>. QED
    BY <1>1, <1>2, <1>3, <1>6, <2>1 DEF HonestInv, Counted, Latch, Held,
       ResultHonest, FinishIsEarned, MarkerLatched, Running, InTick
<1>7. ASSUME NEW res \in ResultSet, NEW t \in Terminations, Return(t, res),
             res.repairs_used <= MaxRepairs,
             MarkerSeen => Held(shown, res.repairs_used),
             t = "finished" => \/ tick.stage = "finished"
                               \/ FinishOnNoProgress /\ res.actions_executed > 0
      PROVE  HonestInv'
  <2>1. /\ result'.observation_seen = MarkerSeen
        /\ result'.termination = t
        /\ result'.repairs_used = res.repairs_used
        /\ result'.actions_executed = res.actions_executed
        /\ pc' = "returned"
    BY <1>5, <1>7 DEF Return
  <2>. QED
    BY <1>1, <1>2, <1>3, <1>7, <2>1 DEF HonestInv, Counted, Latch, Held,
       ResultHonest, FinishIsEarned, MarkerLatched, Running, InTick
<1>8. result \in ResultSet /\ {"finished", "rejected", "denied"} \subseteq Terminations
  BY DEF TypeOK, Terminations
<1>9. obs \in Marked => Held(shown, result.repairs_used)
  BY <1>0, <1>1 DEF HonestInv, Latch
<1>10. CASE EndFinished
  BY <1>3, <1>4, <1>7, <1>8, <1>10 DEF EndFinished
<1>11. CASE EndRejected
  <2>. DEFINE n == result.repairs_used + 1
  <2>1. CASE Return("rejected", result)
    BY <1>3, <1>4, <1>7, <1>8, <2>1
  <2>2. CASE /\ result.repairs_used < MaxRepairs /\ obs' \in Repairs
             /\ Continue(Repaired(result))
    <3>1. n \in Nat /\ n > 0 /\ n <= MaxRepairs
      BY <2>2, BudgetNat
    <3>2. Repaired(result) = [result EXCEPT !.repairs_used = n]
      BY DEF Repaired
    <3>3. step + 1 = n + result.actions_executed
      BY <1>4, BudgetNat
    <3>. HIDE DEF n
    <3>4. /\ Repaired(result) \in ResultSet
          /\ Repaired(result).termination = "running"
          /\ Repaired(result).repairs_used = n
          /\ Repaired(result).actions_executed = result.actions_executed
      BY <1>4, <1>8, <3>1, <3>2, Zenon DEF ResultSet
    <3>5. /\ obs' \in Marked => Held(shown, n)
          /\ MarkerSeen => Held(shown, n)
      BY <1>3, <2>2, <3>1 DEF Held
    <3>. QED
      BY <1>6, <2>2, <3>1, <3>3, <3>4, <3>5
  <2>. QED
    BY <1>11, <2>1, <2>2 DEF EndRejected
<1>12. CASE EndDenied
  <2>. DEFINE converged == /\ FinishOnNoProgress
                           /\ result.actions_executed > 0
                           /\ tick.decision \in {"capability_budget",
                                                 "global_budget"}
  <2>1. Return(IF converged THEN "finished" ELSE "denied", result)
    BY <1>12 DEF EndDenied
  <2>. QED
    BY <1>3, <1>4, <1>7, <1>8, <2>1
<1>13. CASE EndExecuted
  <2>. DEFINE n == result.actions_executed + 1
              res == [result EXCEPT !.actions_executed = n]
  <2>1. n \in Nat /\ n > 0 /\ step + 1 = result.repairs_used + n
    BY <1>4, BudgetNat
  <2>2. /\ IF NoProgress THEN Return("finished", res) ELSE Continue(res)
        /\ obs' = obs
    BY <1>13, Zenon DEF EndExecuted
  <2>. HIDE DEF n
  <2>3. /\ res \in ResultSet /\ res.termination = "running"
        /\ res.repairs_used = result.repairs_used
        /\ res.actions_executed = n
    BY <1>4, <1>8, <2>1, Zenon DEF ResultSet
  <2>. HIDE DEF res
  <2>4. CASE NoProgress
    BY <1>3, <1>4, <1>7, <1>8, <2>1, <2>2, <2>3, <2>4 DEF NoProgress
  <2>5. CASE ~NoProgress
    BY <1>3, <1>4, <1>6, <1>9, <2>1, <2>2, <2>3, <2>5
  <2>. QED
    BY <2>4, <2>5
<1>. QED
  BY <1>10, <1>11, <1>12, <1>13 DEF EndStep

LEMMA HonestLoop ==
    ASSUME TypeOK, Phase, HonestInv, Loop
    PROVE  HonestInv'
<1>1. CASE BudgetStop \/ StepCap
  <2>1. /\ pc = "check" /\ pc' = "returned"
        /\ UNCHANGED <<step, usage, obs, shown, tick>>
        /\ result'.termination \in {"budget", "max_steps"}
        /\ result'.repairs_used = result.repairs_used
        /\ result'.observation_seen = result.observation_seen
    BY <1>1 DEF BudgetStop, StepCap, Stop, TypeOK, ResultSet
  <2>. QED
    BY <2>1 DEF HonestInv, Counted, Latch, ResultHonest, FinishIsEarned,
       MarkerLatched, BudgetOvershoot, Running, InTick
<1>2. CASE BeginStep
  <2>1. /\ pc = "check" /\ pc' = "actor" /\ ~BudgetSpent
        /\ UNCHANGED <<step, usage, obs, shown, result>>
    BY <1>2 DEF BeginStep
  <2>2. Counted'
    BY <2>1, BudgetNat DEF HonestInv, Counted, BudgetSpent, Running, InTick
  <2>. QED
    BY <2>1, <2>2 DEF HonestInv, Counted, Latch, ResultHonest, FinishIsEarned,
       MarkerLatched, BudgetOvershoot, Running, InTick
<1>3. CASE Actor \/ Parse \/ Gate
  <2>1. /\ pc \in {"actor", "parse", "gate"} /\ UNCHANGED <<obs, shown>>
        /\ TickError \/ (/\ pc' \in {"parse", "gate", "execute", "account"}
                         /\ UNCHANGED <<step, usage, result>>)
    BY <1>3, Zenon DEF Actor, Parse, Reject, Finish, Gate
  <2>. QED
    BY <2>1, HonestError, HonestTick DEF Running, InTick
<1>4. CASE Execute
  <2>1. pc = "execute"
    BY <1>4 DEF Execute, ExecuteMemory, ExecuteDevice, ExecuteMachine,
                ExecuteShell, ExecuteSim, SkipSsh, MissingExecutor
  <2>. QED
    BY <1>4, <2>1, ExecuteShows, HonestError, HonestTick DEF Running, InTick
<1>5. CASE EndStep
  BY <1>5, HonestEnd
<1>. QED
  BY <1>1, <1>2, <1>3, <1>4, <1>5 DEF Loop

(* After the loop the result is only read, and the next attempt forgets it.    *)
LEMMA HonestNext ==
    TypeOK /\ Phase /\ HonestInv /\ [Next]_vars => HonestInv'
<1>. SUFFICES ASSUME TypeOK, Phase, HonestInv, [Next]_vars PROVE HonestInv'
  OBVIOUS
<1>0. CASE UNCHANGED vars
  BY <1>0 DEF vars, loopVars, HonestInv, Counted, Latch, Held, ResultHonest,
     FinishIsEarned, MarkerLatched, BudgetOvershoot, Running, InTick
<1>1. CASE Loop
  BY <1>1, HonestLoop
<1>2. CASE EndRun \/ LastAttempt \/ Verdict \/ Release
  <2>1. /\ pc \notin InTick /\ pc' \notin InTick /\ pc' # "check" /\ ~Running'
        /\ UNCHANGED <<tick, usage, result, shown>>
    BY <1>2 DEF EndRun, LastAttempt, Verdict, Release, Running, InTick
  <2>. QED
    BY <2>1 DEF HonestInv, Counted, Latch, ResultHonest, FinishIsEarned,
       MarkerLatched, BudgetOvershoot
<1>3. CASE NextAttempt
  <2>1. /\ pc' = "check" /\ step' = 0 /\ shown' = {} /\ obs' = Empty
        /\ usage' = NoUsage /\ result' = NoResult
    BY <1>3 DEF NextAttempt
  <2>2. /\ result'.repairs_used = 0 /\ result'.actions_executed = 0
        /\ result'.termination = "running" /\ result'.observation_seen = FALSE
        /\ usage'["tokens"] = 0 /\ usage'["inference_steps"] = 0
        /\ TokenBudget \in Nat /\ StepBudget \in Nat /\ MaxDecode \in Nat
        /\ MaxRepairs \in Nat
    BY <2>1, BudgetNat DEF NoUsage, NoResult, Counters
  <2>. QED
    BY <2>1, <2>2 DEF HonestInv, Counted, Latch, Held, ResultHonest,
       FinishIsEarned, MarkerLatched, BudgetOvershoot, InTick
<1>. QED
  BY <1>0, <1>1, <1>2, <1>3 DEF Next, Done

(* The result spg_agent_loop_run returns is what happened: steps are repairs  *)
(* plus executed actions, FINISHED is earned, a marker that a step showed is   *)
(* latched and one that is latched stood in the buffer, and no budget is       *)
(* passed by more than the last decode.                                        *)
THEOREM ResultIsHonest == Spec => []ResultHonest
<1>1. HonestInv => ResultHonest
  BY DEF HonestInv
<1>. QED
  BY <1>1, TypeInit, TypeNext, HonestInit, HonestNext, PTL DEF Spec

-----------------------------------------------------------------------------
(* The journal as a tree per attempt. A record of a step is placed when it is  *)
(* the first of its attempt and hangs under 0, or hangs under an earlier        *)
(* record of its own step or the one before; nothing that closes the attempt    *)
(* is in front of it; and an executor's record hangs under an allow of its own  *)
(* step or a record of the same executor.                                       *)
Same(J, i, j) == j \in 1 .. i - 1 /\ J[j].try = J[i].try

Placed(J, i) ==
    J[i].by \in StepWriters =>
        /\ \A j \in 1 .. i - 1 : Same(J, i, j) => J[j].by \in StepWriters
        /\ \/ J[i].parent = 0 /\ \A j \in 1 .. i - 1 : ~Same(J, i, j)
           \/ Same(J, i, J[i].parent) /\ J[J[i].parent].tick >= J[i].tick - 1
        /\ J[i].by = "executor" =>
              /\ Same(J, i, J[i].parent)
              /\ J[J[i].parent].tick = J[i].tick
              /\ \/ J[J[i].parent].by = "gate" /\ J[J[i].parent].ok
                 \/ J[J[i].parent].by = "executor"

NamesIn(J, q) == q \in DOMAIN J /\ J[q].tick = step /\ J[q].try = attempt

OfStep(q) == NamesIn(journal, q)

(* What the next record of a step may hang under. *)
Anchor(q) ==
    \/ q = 0 /\ \A j \in DOMAIN journal : journal[j].try # attempt
    \/ /\ q \in DOMAIN journal /\ journal[q].tick >= step - 1
       /\ journal[q].try = attempt

(* While the loop runs, its attempt is the last one of the journal and is not  *)
(* closed.                                                                      *)
Tries(J) == \A j \in DOMAIN J : J[j].try <= attempt

Open(J) == \A j \in DOMAIN J : J[j].try = attempt => J[j].by \in StepWriters

Tree(J) == (\A i \in DOMAIN J : Placed(J, i)) /\ Tries(J) /\ Open(J)

Allows(q) == OfStep(q) /\ journal[q].by = "gate" /\ journal[q].ok

(* The sequences a step threads from one record to the next: `parent' is the  *)
(* last of the step before, the ones in `tick' are of this step, and an       *)
(* executor is only reached with its allow on record.                         *)
Threaded ==
    /\ pc \in {"check", "actor"} => Anchor(parent)
    /\ pc \in {"parse", "gate", "execute", "account"} =>
          /\ OfStep(tick.output_seq)
          /\ tick.policy_seq # 0 => OfStep(tick.policy_seq)
          /\ ReportedSeq # 0 => OfStep(ReportedSeq)
    /\ pc = "execute" => Allows(tick.policy_seq)

TrailInv ==
    /\ \A i \in DOMAIN journal : Placed(journal, i)
    /\ Tries(journal)
    /\ Running => Open(journal)
    /\ IF WriteJournal THEN Threaded ELSE journal = <<>>
    /\ pc \in {"actor", "parse", "gate"} => tick.policy_seq = 0
    /\ pc \in {"actor", "parse", "gate", "execute"} => tick.exec_seq = 0

(* The journal J continues `journal' by n records of one writer, each under   *)
(* the one before and the first under `par'.                                  *)
Continues(J, by, n, par, oks) ==
    /\ J \in Seq(RecordSet) /\ Len(J) = Len(journal) + n
    /\ \A i \in 1 .. Len(journal) : J[i] = journal[i]
    /\ \A i \in Len(journal) + 1 .. Len(journal) + n :
          /\ J[i].by = by /\ J[i].tick = step /\ J[i].try = attempt
          /\ J[i].ok = oks[i - Len(journal)]
          /\ J[i].parent = IF i = Len(journal) + 1 THEN par ELSE i - 1

LEMMA ChainAppend ==
    ASSUME TypeOK, NEW by \in StepWriters, NEW events \in Seq(Events),
           NEW n \in 0 .. Len(events), NEW par \in Nat,
           NEW oks \in Seq(BOOLEAN), n <= Len(oks), WriteJournal
    PROVE  Continues(journal \o Chain(by, events, n, par, oks),
                     by, n, par, oks)
<1>. DEFINE C == Chain(by, events, n, par, oks)
            J == journal \o C
            up(i) == IF i = 1 THEN par ELSE Len(journal) + i - 1
<1>1. C \in Seq(RecordSet) /\ Len(C) = n
  BY ChainType DEF Writers
<1>2. ASSUME NEW i \in 1 .. n
      PROVE  /\ C[i].by = by /\ C[i].tick = step /\ C[i].ok = oks[i]
             /\ C[i].try = attempt
             /\ C[i].parent = up(i)
  <2>1. C[i] = Record(by, events[i], up(i), oks[i])
    BY DEF Chain
  <2>. HIDE DEF C, up
  <2>. QED
    BY <2>1 DEF Record
<1>3. journal \in Seq(RecordSet) /\ n \in Nat
  BY DEF TypeOK
<1>. HIDE DEF C
<1>4. J \in Seq(RecordSet) /\ Len(J) = Len(journal) + n
  BY <1>1, <1>3, ConcatProperties
<1>5. \A i \in 1 .. Len(journal) : J[i] = journal[i]
  BY <1>1, <1>3
<1>6. ASSUME NEW i \in Len(journal) + 1 .. Len(journal) + n
      PROVE  /\ J[i].by = by /\ J[i].tick = step /\ J[i].try = attempt
             /\ J[i].ok = oks[i - Len(journal)]
             /\ J[i].parent = IF i = Len(journal) + 1 THEN par ELSE i - 1
  <2>. DEFINE k == i - Len(journal)
  <2>1. /\ k \in 1 .. n /\ J[i] = C[k] /\ i - 1 = Len(journal) + k - 1
        /\ (i = Len(journal) + 1 <=> k = 1)
    BY <1>1, <1>3, <1>4
  <2>. HIDE DEF J
  <2>. QED
    BY <1>2, <2>1
<1>. QED
  BY <1>4, <1>5, <1>6 DEF Continues, C

(* What is placed stays so when the journal grows. *)
LEMMA PrefixPlaced ==
    ASSUME TypeOK, NEW J \in Seq(RecordSet), Len(J) >= Len(journal),
           \A i \in 1 .. Len(journal) : J[i] = journal[i],
           NEW i \in 1 .. Len(journal), Placed(journal, i)
    PROVE  Placed(J, i)
<1>1. journal \in Seq(RecordSet) /\ i \in Nat
  BY DEF TypeOK
<1>2. J[i] = journal[i] /\ \A p \in 1 .. i - 1 : J[p] = journal[p]
  BY <1>1
<1>. QED
  BY <1>1, <1>2 DEF Placed, Same

(* Records chained under an anchor are placed, the executor's under an allow. *)
LEMMA ChainPlaced ==
    ASSUME TypeOK, NEW by \in StepWriters, NEW n \in Nat, NEW par \in Nat,
           NEW oks, NEW J, Continues(J, by, n, par, oks),
           Tree(journal),
           Anchor(par), by = "executor" => Allows(par)
    PROVE  Tree(J)
<1>1. /\ J \in Seq(RecordSet) /\ Len(J) = Len(journal) + n
      /\ \A i \in 1 .. Len(journal) : J[i] = journal[i]
      /\ \A i \in Len(journal) + 1 .. Len(journal) + n :
            /\ J[i].by = by /\ J[i].tick = step /\ J[i].try = attempt
            /\ J[i].parent = IF i = Len(journal) + 1 THEN par ELSE i - 1
  BY DEF Continues
<1>2. /\ journal \in Seq(RecordSet) /\ step \in Nat /\ Len(journal) \in Nat
      /\ attempt \in Nat
  BY AgentLoopAssumption DEF TypeOK
<1>3. ASSUME NEW i \in 1 .. Len(journal) PROVE Placed(J, i)
  <2>1. Placed(journal, i) /\ Len(J) >= Len(journal)
    BY <1>1, <1>2 DEF Tree
  <2>. QED
    BY <1>1, <2>1, PrefixPlaced
<1>4. Tries(J) /\ Open(J)
  <2>1. ASSUME NEW j \in DOMAIN J
        PROVE  J[j].try <= attempt /\ (J[j].try = attempt => J[j].by \in StepWriters)
    <3>1. \/ j \in 1 .. Len(journal) /\ J[j] = journal[j]
          \/ J[j].try = attempt /\ J[j].by = by
      BY <1>1, <1>2
    <3>. QED
      BY <1>2, <3>1 DEF Tree, Tries, Open
  <2>. QED
    BY <2>1 DEF Tries, Open
<1>5. ASSUME NEW i \in Len(journal) + 1 .. Len(journal) + n PROVE Placed(J, i)
  <2>1. /\ J[i].parent = IF i = Len(journal) + 1 THEN par ELSE i - 1
        /\ J[i].tick = step /\ J[i].by = by /\ J[i].try = attempt
    BY <1>1
  <2>2. \A j \in 1 .. i - 1 : J[j].try = attempt => J[j].by \in StepWriters
    BY <1>1, <1>2, <1>4 DEF Open
  <2>3. CASE i = Len(journal) + 1
    <3>1. par \in DOMAIN journal => par \in 1 .. i - 1 /\ J[par] = journal[par]
      BY <1>1, <1>2, <2>3
    <3>2. \A j \in 1 .. i - 1 : j \in DOMAIN journal /\ J[j] = journal[j]
      BY <1>1, <1>2, <2>3
    <3>3. J[i].parent = par
      BY <2>1, <2>3
    <3>4. CASE par = 0 /\ \A j \in DOMAIN journal : journal[j].try # attempt
      <4>1. by # "executor"
        BY <1>2, <3>4 DEF Allows, OfStep, NamesIn
      <4>. QED
        BY <2>1, <2>2, <3>2, <3>3, <3>4, <4>1 DEF Placed, Same
    <3>5. CASE /\ par \in DOMAIN journal /\ journal[par].tick >= step - 1
               /\ journal[par].try = attempt
      <4>1. Same(J, i, par) /\ J[par].tick >= step - 1
        BY <2>1, <3>1, <3>5 DEF Same
      <4>2. by = "executor" => /\ J[par].tick = step
                               /\ J[par].by = "gate" /\ J[par].ok
        BY <3>1, <3>5 DEF Allows, OfStep, NamesIn
      <4>. QED
        BY <2>1, <2>2, <3>3, <4>1, <4>2 DEF Placed, Same
    <3>. QED
      BY <3>4, <3>5 DEF Anchor
  <2>4. CASE i # Len(journal) + 1
    <3>1. /\ i - 1 \in Len(journal) + 1 .. Len(journal) + n
          /\ i - 1 \in 1 .. i - 1
      BY <1>1, <1>2, <2>4
    <3>2. J[i - 1].tick = step /\ J[i - 1].by = by /\ J[i - 1].try = attempt
      BY <1>1, <3>1
    <3>3. J[i].parent = i - 1
      BY <2>1, <2>4
    <3>4. Same(J, i, i - 1) /\ step >= step - 1
      BY <1>2, <2>1, <3>1, <3>2 DEF Same
    <3>. QED
      BY <2>1, <2>2, <3>2, <3>3, <3>4 DEF Placed, Same
  <2>. QED
    BY <2>3, <2>4
<1>6. \A i \in DOMAIN J : Placed(J, i)
  BY <1>1, <1>2, <1>3, <1>5
<1>. QED
  BY <1>4, <1>6 DEF Tree

(* append1 is a chain of one. *)
LEMMA Append1Continues ==
    ASSUME TypeOK, NEW by \in StepWriters, NEW event \in Events, NEW par \in Nat,
           NEW ok \in BOOLEAN
    PROVE  Continues(Append(journal, Record(by, event, par, ok)),
                     by, 1, par, <<ok>>)
<1>. DEFINE r == Record(by, event, par, ok)
            J == Append(journal, r)
<1>1. /\ r \in RecordSet /\ r.by = by /\ r.tick = step /\ r.ok = ok
      /\ r.parent = par /\ r.try = attempt
  BY AgentLoopAssumption DEF Record, RecordSet, TypeOK, Writers
<1>2. journal \in Seq(RecordSet)
  BY DEF TypeOK
<1>. HIDE DEF r
<1>3. /\ J \in Seq(RecordSet) /\ Len(J) = Len(journal) + 1
      /\ \A i \in 1 .. Len(journal) : J[i] = journal[i]
      /\ J[Len(journal) + 1] = r
  BY <1>1, <1>2, AppendProperties
<1>. HIDE DEF J
<1>4. Continues(J, by, 1, par, <<ok>>)
  BY <1>1, <1>2, <1>3 DEF Continues
<1>. QED
  BY <1>4 DEF J, r

(* Nothing is appended when write_journal is off. *)
LEMMA ChainOff ==
    ASSUME TypeOK, ~WriteJournal, NEW by, NEW events, NEW n, NEW par, NEW oks
    PROVE  journal \o Chain(by, events, n, par, oks) = journal
<1>1. Chain(by, events, n, par, oks) = <<>>
  BY DEF Chain
<1>2. journal \in Seq(RecordSet)
  BY DEF TypeOK
<1>. QED
  BY <1>1, <1>2, ConcatEmptySeq

(* The journal after the n records of a writer: still a tree, in which the     *)
(* sequences of the step keep naming records of the step.                     *)
Grown(by, n, oks) ==
    /\ Tree(journal')
    /\ ~WriteJournal => journal' = <<>>
    /\ WriteJournal => \A q : OfStep(q) => NamesIn(journal', q)
    /\ WriteJournal =>
          \A i \in Len(journal) + 1 .. Len(journal) + n :
             /\ NamesIn(journal', i) /\ journal'[i].by = by
             /\ journal'[i].ok = oks[i - Len(journal)]

(* A writer that follows the rule keeps the tree. *)
LEMMA Grow ==
    ASSUME TypeOK, TrailInv, Running, step' = step, attempt' = attempt,
           NEW by \in StepWriters, NEW n \in Nat, NEW par \in Nat, NEW oks,
           IF WriteJournal THEN Continues(journal', by, n, par, oks)
                           ELSE journal' = journal,
           WriteJournal => Anchor(par) /\ (by = "executor" => Allows(par))
    PROVE  Grown(by, n, oks)
<1>1. CASE ~WriteJournal
  BY <1>1 DEF TrailInv, Grown, Tree, Tries, Open
<1>2. CASE WriteJournal
  <2>0. Tree(journal)
    BY DEF TrailInv, Tree
  <2>1. Tree(journal')
    BY <1>2, <2>0, ChainPlaced, Zenon
  <2>2. /\ journal' \in Seq(RecordSet) /\ Len(journal') = Len(journal) + n
        /\ \A i \in 1 .. Len(journal) : journal'[i] = journal[i]
        /\ \A i \in Len(journal) + 1 .. Len(journal) + n :
              /\ journal'[i].by = by /\ journal'[i].tick = step
              /\ journal'[i].try = attempt
              /\ journal'[i].ok = oks[i - Len(journal)]
    BY <1>2 DEF Continues
  <2>3. journal \in Seq(RecordSet)
    BY DEF TypeOK
  <2>4. \A q : OfStep(q) => NamesIn(journal', q)
    BY <2>2, <2>3 DEF OfStep, NamesIn
  <2>5. \A i \in Len(journal) + 1 .. Len(journal) + n : NamesIn(journal', i)
    BY <2>2, <2>3 DEF OfStep, NamesIn
  <2>. QED
    BY <1>2, <2>1, <2>2, <2>4, <2>5 DEF Grown
<1>. QED
  BY <1>1, <1>2

LEMMA AnchorOfStep ==
    ASSUME TypeOK, NEW q, OfStep(q)
    PROVE  Anchor(q) /\ q \in Nat /\ q # 0
<1>1. journal \in Seq(RecordSet) /\ step \in Nat
  BY AgentLoopAssumption DEF TypeOK
<1>. QED
  BY <1>1 DEF Anchor, OfStep, NamesIn

LEMMA TrailInit == Init => TrailInv
<1>. SUFFICES ASSUME Init PROVE TrailInv
  OBVIOUS
<1>1. /\ journal = <<>> /\ parent = 0 /\ pc = "check"
  BY DEF Init
<1>. QED
  BY <1>1 DEF TrailInv, Threaded, Anchor, Tries, Open

(* An attempt that is over threads nothing any more. *)
LEMMA TrailDone ==
    ASSUME TrailInv, pc' = "returned",
           Tree(journal'), attempt' = attempt,
           ~WriteJournal => journal' = <<>>
    PROVE  TrailInv'
<1>1. Tries(journal)' /\ ~Running'
  BY DEF Tree, Tries, Running, InTick
<1>. QED
  BY <1>1 DEF TrailInv, Threaded, Tree

LEMMA TrailBegin ==
    ASSUME TypeOK, TrailInv, BeginStep, attempt' = attempt
    PROVE  TrailInv'
<1>1. /\ pc = "check" /\ pc' = "actor" /\ step' = step
      /\ tick' = NoTick
  BY DEF BeginStep
<1>2. tick'.policy_seq = 0 /\ tick'.exec_seq = 0 /\ Running
  BY <1>1 DEF NoTick, Running
<1>3. CASE UNCHANGED <<journal, parent>>
  BY <1>1, <1>2, <1>3 DEF TrailInv, Threaded, Anchor, Tries, Open
<1>4. CASE /\ WriteJournal
           /\ journal' = Append(journal, Record("watchdog", "action",
                                                parent, FALSE))
           /\ parent' = Len(journal')
  <2>1. Continues(journal', "watchdog", 1, parent, <<FALSE>>)
    <3>1. /\ "watchdog" \in StepWriters /\ "action" \in Events /\ parent \in Nat
          /\ FALSE \in BOOLEAN
      BY DEF StepWriters, Events, TypeOK
    <3>. QED
      BY <1>4, <3>1, Append1Continues
  <2>2. Anchor(parent)
    BY <1>1, <1>4 DEF TrailInv, Threaded
  <2>3. parent \in Nat /\ 1 \in Nat
    BY DEF TypeOK
  <2>4. /\ Tree(journal')
        /\ \A i \in Len(journal) + 1 .. Len(journal) + 1 : NamesIn(journal', i)
    <3>0. "watchdog" \in StepWriters
      BY DEF StepWriters
    <3>1. IF WriteJournal
            THEN Continues(journal', "watchdog", 1, parent, <<FALSE>>)
            ELSE journal' = journal
      BY <1>4, <2>1
    <3>2. WriteJournal => /\ Anchor(parent)
                          /\ "watchdog" = "executor" => Allows(parent)
      BY <2>2
    <3>. QED
      BY <1>1, <1>2, <1>4, <2>3, <3>0, <3>1, <3>2, Grow, Zenon DEF Grown
  <2>5. Len(journal') = Len(journal) + 1 /\ journal \in Seq(RecordSet)
    BY <2>1 DEF Continues, TypeOK
  <2>6. NamesIn(journal', Len(journal) + 1)
    BY <2>4, <2>5
  <2>7. parent' \in DOMAIN journal' /\ journal'[parent'].tick >= step' - 1
        /\ journal'[parent'].try = attempt
    <3>1. step \in Nat /\ parent' = Len(journal) + 1
      BY <1>4, <2>5, AgentLoopAssumption DEF TypeOK
    <3>2. parent' \in DOMAIN journal' /\ journal'[parent'].tick = step
          /\ journal'[parent'].try = attempt
      BY <2>6, <3>1 DEF NamesIn
    <3>. QED
      BY <1>1, <3>1, <3>2
  <2>. QED
    BY <1>1, <1>2, <1>4, <2>4, <2>7
    DEF TrailInv, Threaded, Anchor, Tree, Tries, Open
<1>. QED
  BY <1>3, <1>4 DEF BeginStep

LEMMA TrailActor ==
    ASSUME TypeOK, TrailInv, Actor, attempt' = attempt
    PROVE  TrailInv'
<1>1. pc = "actor" /\ step' = step /\ parent \in Nat
  BY DEF Actor, TickError, TypeOK
<1>2. (WriteJournal => Anchor(parent)) /\ Running
  BY <1>1 DEF TrailInv, Threaded, Running, InTick
<1>3. ASSUME NEW n \in 0 .. 4, NEW m \in BOOLEAN,
             journal' = journal \o ActorRecords(n, m)
      PROVE  /\ Tree(journal')
             /\ ~WriteJournal => journal' = <<>>
             /\ WriteJournal =>
                   \A i \in Len(journal) + 1 .. Len(journal) + n : NamesIn(journal', i)
  <2>. DEFINE oks == <<TRUE, m, TRUE, TRUE>>
  <2>1. /\ ActorEvents \in Seq(Events) /\ n \in 0 .. Len(ActorEvents)
        /\ oks \in Seq(BOOLEAN) /\ n <= Len(oks) /\ "actor" \in StepWriters
        /\ n \in Nat
    BY DEF ActorEvents, Events, StepWriters
  <2>. HIDE DEF oks
  <2>2. journal' = journal \o Chain("actor", ActorEvents, n, parent, oks)
    BY <1>3 DEF ActorRecords, oks
  <2>3. WriteJournal => Continues(journal', "actor", n, parent, oks)
    BY <1>1, <2>1, <2>2, ChainAppend, Zenon
  <2>4. ~WriteJournal => journal' = journal
    BY <2>2, ChainOff, Zenon
  <2>5. IF WriteJournal THEN Continues(journal', "actor", n, parent, oks)
                        ELSE journal' = journal
    BY <2>3, <2>4
  <2>6. WriteJournal => Anchor(parent) /\ ("actor" = "executor" => Allows(parent))
    BY <1>2
  <2>. QED
    BY <1>1, <1>2, <2>1, <2>5, <2>6, Grow, Zenon DEF Grown
<1>4. ASSUME NEW n \in 0 .. 3, NEW m \in BOOLEAN,
             journal' = journal \o ActorRecords(n, m), TickError
      PROVE  TrailInv'
  <2>1. n \in 0 .. 4 /\ pc' = "returned"
    BY <1>4 DEF TickError
  <2>. QED
    BY <1>3, <1>4, <2>1, TrailDone
<1>5. ASSUME NEW tokens \in 0 .. MaxDecode,
             journal' = journal \o ActorRecords(4, TRUE),
             tick' = [tick EXCEPT !.stage = "actor_done", !.tokens = tokens,
                        !.output_seq = IF WriteJournal
                                         THEN Len(journal) + 2 ELSE 0],
             pc' = "parse"
      PROVE  TrailInv'
  <2>. DEFINE q == IF WriteJournal THEN Len(journal) + 2 ELSE 0
  <2>1. tick' = [tick EXCEPT !.stage = "actor_done", !.tokens = tokens,
                             !.output_seq = q]
    BY <1>5
  <2>2. WriteJournal => q = Len(journal) + 2 /\ Len(journal) \in Nat
    BY DEF TypeOK
  <2>. HIDE DEF q
  <2>3. /\ tick'.output_seq = q /\ tick'.policy_seq = tick.policy_seq
        /\ tick'.exec_seq = tick.exec_seq
    BY <2>1 DEF TypeOK, TickSet
  <2>4. tick'.policy_seq = 0 /\ tick'.exec_seq = 0
    BY <1>1, <2>3 DEF TrailInv
  <2>5. 4 \in 0 .. 4
    OBVIOUS
  <2>6. /\ Tree(journal')
        /\ ~WriteJournal => journal' = <<>>
        /\ WriteJournal =>
              \A i \in Len(journal) + 1 .. Len(journal) + 4 : NamesIn(journal', i)
    BY <1>3, <1>5, <2>5, Zenon
  <2>7. WriteJournal => NamesIn(journal', q)
    BY <2>2, <2>6
  <2>8. WriteJournal => OfStep(tick.output_seq)'
    BY <1>1, <2>3, <2>7 DEF OfStep, NamesIn
  <2>. QED
    BY <1>5, <2>4, <2>6, <2>8
    DEF TrailInv, Threaded, ReportedSeq, Tree, Tries, Open
<1>. QED
  BY <1>4, <1>5, Zenon DEF Actor

(* One record under an anchor (append1 of the tick and of the gate). *)
LEMMA GrowOne ==
    ASSUME TypeOK, TrailInv, step' = step, attempt' = attempt, Running,
           NEW by \in StepWriters \ {"executor"}, NEW event \in Events,
           NEW par \in Nat, NEW ok \in BOOLEAN,
           journal' = Append1(journal, Record(by, event, par, ok)),
           WriteJournal => Anchor(par)
    PROVE  /\ Tree(journal')
           /\ ~WriteJournal => journal' = <<>>
           /\ WriteJournal => \A q : OfStep(q) => NamesIn(journal', q)
           /\ WriteJournal => LET n == Len(journal) + 1
                              IN  /\ NamesIn(journal', n)
                                  /\ journal'[n].by = by
                                  /\ journal'[n].ok = ok
<1>. DEFINE oks == <<ok>>
<1>1. IF WriteJournal THEN Continues(journal', by, 1, par, oks)
                      ELSE journal' = journal
  BY Append1Continues, Zenon DEF Append1
<1>2. WriteJournal => Anchor(par) /\ (by = "executor" => Allows(par))
  OBVIOUS
<1>. HIDE DEF oks
<1>3. Grown(by, 1, oks)
  <2>1. 1 \in Nat
    OBVIOUS
  <2>. QED
    BY <1>1, <1>2, <2>1, Grow, Zenon
<1>4. Len(journal) \in Nat
  BY DEF TypeOK
<1>5. Len(journal) + 1 \in Len(journal) + 1 .. Len(journal) + 1
      /\ Len(journal) + 1 - Len(journal) = 1
  BY <1>4
<1>6. oks[1] = ok
  BY DEF oks
<1>. QED
  BY <1>3, <1>5, <1>6 DEF Grown

LEMMA TickParentAnchor ==
    ASSUME TypeOK, TrailInv, pc \in {"parse", "gate", "execute"}
    PROVE  TickParent \in Nat /\ (WriteJournal => Anchor(TickParent))
<1>1. TickParent \in Nat
  BY DEF TypeOK, TickSet, TickParent, OrElse
<1>2. WriteJournal => OfStep(tick.output_seq)
  BY DEF TrailInv, Threaded
<1>. QED
  BY <1>1, <1>2, AnchorOfStep DEF TickParent, OrElse

LEMMA TrailParse ==
    ASSUME TypeOK, TrailInv, Parse, attempt' = attempt
    PROVE  TrailInv'
<1>1. /\ pc = "parse" /\ step' = step
      /\ TickParent \in Nat /\ (WriteJournal => Anchor(TickParent))
      /\ tick.policy_seq = 0 /\ tick.exec_seq = 0
      /\ WriteJournal => OfStep(tick.output_seq)
      /\ Running /\ Tree(journal)
  BY TickParentAnchor
  DEF Parse, TickError, TrailInv, Threaded, Running, InTick, Tree
<1>2. CASE TickError /\ UNCHANGED <<journal, tick>>
  BY <1>1, <1>2, TrailDone DEF TickError, TrailInv
<1>3. ASSUME NEW ev \in {"error", "result"}, NEW ok \in BOOLEAN, NEW st,
             journal' = Append1(journal, Record("tick", ev, TickParent, ok)),
             tick' = [tick EXCEPT !.stage = st], pc' = "account"
      PROVE  TrailInv'
  <2>1. "tick" \in StepWriters \ {"executor"} /\ ev \in Events
    BY DEF StepWriters, Events
  <2>2. /\ Tree(journal')
        /\ ~WriteJournal => journal' = <<>>
        /\ WriteJournal => NamesIn(journal', tick.output_seq)
    BY <1>1, <1>3, <2>1, GrowOne, Zenon
  <2>3. /\ tick'.output_seq = tick.output_seq /\ tick'.policy_seq = 0
        /\ tick'.exec_seq = 0
    BY <1>1, <1>3 DEF TypeOK, TickSet
  <2>4. WriteJournal => OfStep(tick.output_seq)'
    BY <1>1, <2>2, <2>3 DEF OfStep, NamesIn
  <2>. QED
    BY <1>3, <2>2, <2>3, <2>4
    DEF TrailInv, Threaded, ReportedSeq, Tree, Tries, Open
<1>4. ASSUME NEW r \in Recommendations, tick' = [tick EXCEPT !.rec = r],
             pc' = "gate", UNCHANGED <<journal, parent>>
      PROVE  TrailInv'
  <2>1. /\ tick'.output_seq = tick.output_seq /\ tick'.policy_seq = 0
        /\ tick'.exec_seq = 0
    BY <1>1, <1>4 DEF TypeOK, TickSet
  <2>2. WriteJournal => OfStep(tick.output_seq)'
    BY <1>1, <1>4, <2>1 DEF OfStep, NamesIn
  <2>. QED
    BY <1>1, <1>4, <2>1, <2>2
    DEF TrailInv, Threaded, ReportedSeq, Tree, Tries, Open
<1>. QED
  BY <1>2, <1>3, <1>4, Zenon DEF Parse, Reject, Finish

LEMMA TrailGate ==
    ASSUME TypeOK, TrailInv, Gate, attempt' = attempt
    PROVE  TrailInv'
<1>. DEFINE d == GateDecision(tick.rec, usage, snapshot)
            ok == d = "allow"
<1>1. /\ pc = "gate" /\ step' = step
      /\ TickParent \in Nat /\ (WriteJournal => Anchor(TickParent))
      /\ tick.exec_seq = 0
      /\ WriteJournal => OfStep(tick.output_seq)
      /\ Running /\ Tree(journal)
  BY TickParentAnchor
  DEF Gate, TickError, TrailInv, Threaded, Running, InTick, Tree
<1>2. /\ "gate" \in StepWriters \ {"executor"} /\ "policy_decision" \in Events
      /\ ok \in BOOLEAN
  BY DEF StepWriters, Events
<1>3. CASE TickError /\ journal' = journal
  BY <1>1, <1>3, TrailDone DEF TickError, TrailInv
<1>4. ASSUME journal' = Append1(journal, GateRecord(d))
      PROVE  /\ Tree(journal')
             /\ ~WriteJournal => journal' = <<>>
             /\ WriteJournal =>
                   /\ NamesIn(journal', tick.output_seq)
                   /\ NamesIn(journal', Len(journal) + 1)
                   /\ journal'[Len(journal) + 1].by = "gate"
                   /\ journal'[Len(journal) + 1].ok = ok
  <2>1. journal' = Append1(journal,
                      Record("gate", "policy_decision", TickParent, ok))
    BY <1>4 DEF GateRecord
  <2>. HIDE DEF ok, d
  <2>. QED
    BY <1>1, <1>2, <2>1, GrowOne, Zenon
<1>5. CASE TickError /\ journal' = Append1(journal, GateRecord(d))
  BY <1>4, <1>5, TrailDone DEF TickError
<1>6. CASE /\ journal' = Append1(journal, GateRecord(d))
           /\ tick' = [tick EXCEPT !.decision = d, !.stage = "policy_gated",
                                   !.policy_seq = SeqAfter(journal)]
           /\ pc' = IF d = "allow" THEN "execute" ELSE "account"
  <2>. DEFINE q == SeqAfter(journal)
  <2>1. WriteJournal => q = Len(journal) + 1
    BY DEF SeqAfter
  <2>2. tick' = [tick EXCEPT !.decision = d, !.stage = "policy_gated",
                             !.policy_seq = q]
    BY <1>6
  <2>. HIDE DEF q, d
  <2>3. /\ tick'.output_seq = tick.output_seq /\ tick'.policy_seq = q
        /\ tick'.exec_seq = 0
    BY <1>1, <2>2 DEF TypeOK, TickSet
  <2>4. WriteJournal => /\ OfStep(tick.output_seq)' /\ OfStep(tick.policy_seq)'
                        /\ d = "allow" => Allows(tick.policy_seq)'
    BY <1>1, <1>4, <1>6, <2>1, <2>3 DEF OfStep, NamesIn, Allows, d
  <2>5. ReportedSeq' = 0
    BY <2>3 DEF ReportedSeq
  <2>6. pc' \notin {"actor", "parse", "gate", "check"}
        /\ (pc' = "execute" => d = "allow")
    BY <1>6
  <2>. QED
    BY <1>4, <1>6, <2>3, <2>4, <2>5, <2>6
    DEF TrailInv, Threaded, Tree, Tries, Open
<1>. QED
  BY <1>3, <1>5, <1>6, Zenon DEF Gate, Proceeds

(* The records of an executor grow under the allow of the step. *)
LEMMA GrowExec ==
    ASSUME TypeOK, TrailInv, pc = "execute", step' = step, attempt' = attempt,
           NEW events \in Seq(Events), NEW n \in 0 .. Len(events), n <= 3,
           journal' = journal \o Chain("executor", events, n, ExecParent,
                                       <<TRUE, TRUE, TRUE>>)
    PROVE  Grown("executor", n, <<TRUE, TRUE, TRUE>>)
<1>. DEFINE oks == <<TRUE, TRUE, TRUE>>
<1>1. /\ ExecParent \in Nat /\ "executor" \in StepWriters
      /\ oks \in Seq(BOOLEAN) /\ n <= Len(oks) /\ n \in Nat /\ Running
  BY DEF ExecParent, TickParent, OrElse, TypeOK, TickSet, StepWriters, Running,
         InTick
<1>. HIDE DEF oks
<1>2. WriteJournal => /\ Anchor(ExecParent)
                      /\ "executor" = "executor" => Allows(ExecParent)
  <2>1. WriteJournal => Allows(tick.policy_seq)
    BY DEF TrailInv, Threaded
  <2>2. WriteJournal => ExecParent = tick.policy_seq
    BY <2>1, AnchorOfStep DEF ExecParent, OrElse, Allows
  <2>. QED
    BY <2>1, <2>2, AnchorOfStep DEF Allows
<1>3. WriteJournal => Continues(journal', "executor", n, ExecParent, oks)
  BY <1>1, ChainAppend, Zenon DEF oks
<1>4. ~WriteJournal => journal' = journal
  BY ChainOff, Zenon
<1>5. IF WriteJournal THEN Continues(journal', "executor", n, ExecParent, oks)
                      ELSE journal' = journal
  BY <1>3, <1>4
<1>. QED
  BY <1>1, <1>2, <1>5, Grow, Zenon DEF oks

LEMMA TrailExecuted ==
    ASSUME TypeOK, TrailInv, pc = "execute", attempt' = attempt,
           NEW st, NEW events \in Seq(Events), Len(events) <= 3, NEW fr, NEW mu,
           events # <<>> \/ st = "machine_executed",
           Executed(st, events, fr, mu)
    PROVE  TrailInv'
<1>. DEFINE n == Len(events)
            q == IF WriteJournal THEN Len(journal) + Len(events) ELSE 0
            oks == <<TRUE, TRUE, TRUE>>
<1>1. /\ step' = step /\ parent' = parent /\ pc' = "account"
      /\ journal' = journal \o Chain("executor", events, n, ExecParent, oks)
      /\ tick' = [tick EXCEPT !.stage = st, !.mutated = mu, !.exec_seq = q]
  BY Zenon DEF Executed
<1>2. n \in 0 .. Len(events) /\ n <= 3 /\ n \in Nat
  OBVIOUS
<1>3. Grown("executor", n, oks)
  <2>. HIDE DEF n
  <2>. QED
    BY <1>1, <1>2, GrowExec, Zenon
<1>4. /\ Tree(journal')
      /\ ~WriteJournal => journal' = <<>>
      /\ WriteJournal => \A r : OfStep(r) => NamesIn(journal', r)
      /\ WriteJournal => \A i \in Len(journal) + 1 .. Len(journal) + n :
                            NamesIn(journal', i)
  BY <1>3, Zenon DEF Grown
<1>5. WriteJournal /\ st # "machine_executed" => NamesIn(journal', q)
  <2>1. events # <<>> => n >= 1
    OBVIOUS
  <2>2. Len(journal) \in Nat
    BY DEF TypeOK
  <2>. QED
    BY <1>2, <1>4, <2>1, <2>2
<1>. HIDE DEF q, n, oks
<1>6. /\ tick'.stage = st /\ tick'.exec_seq = q
      /\ tick'.output_seq = tick.output_seq
      /\ tick'.policy_seq = tick.policy_seq
  BY <1>1 DEF TypeOK, TickSet
<1>7. ReportedSeq' # 0 => ReportedSeq' = q /\ st # "machine_executed"
  BY <1>6 DEF ReportedSeq
<1>8. WriteJournal => OfStep(tick.output_seq) /\ OfStep(tick.policy_seq)
  BY DEF TrailInv, Threaded, Allows
<1>9. WriteJournal => /\ OfStep(tick.output_seq)' /\ OfStep(tick.policy_seq)'
                      /\ ReportedSeq' # 0 => OfStep(ReportedSeq)'
  BY <1>1, <1>4, <1>5, <1>6, <1>7, <1>8 DEF OfStep, NamesIn
<1>. QED
  BY <1>1, <1>4, <1>9 DEF TrailInv, Threaded, Tree, Tries, Open

LEMMA TrailExecute ==
    ASSUME TypeOK, TrailInv, Execute, attempt' = attempt
    PROVE  TrailInv'
<1>. DEFINE Evs == {<<"memory">>, <<"action">>, SimEvents}
<1>0. /\ \A ev \in Evs : ev \in Seq(Events) /\ Len(ev) <= 3 /\ ev # <<>>
      /\ <<"memory">> \in Evs /\ <<"action">> \in Evs /\ SimEvents \in Evs
      /\ Len(SimEvents) = 3 /\ Len(<<"memory">>) = 1 /\ Len(<<"action">>) = 1
      /\ <<>> \in Seq(Events) /\ Len(<<>>) <= 3
  BY DEF SimEvents, Events
<1>1. pc = "execute" /\ Tree(journal)
  BY DEF Execute, ExecuteMemory, ExecuteDevice, ExecuteMachine,
         ExecuteShell, ExecuteSim, SkipSsh, MissingExecutor, TrailInv, Tree,
         Running, InTick
<1>. HIDE DEF Evs
<1>2. ASSUME NEW ev \in Evs, NEW n \in 0 .. 2, n <= Len(ev), ExecError(ev, n)
      PROVE  TrailInv'
  <2>1. n \in 0 .. Len(ev) /\ n <= 3 /\ ev \in Seq(Events)
    BY <1>0, <1>2
  <2>2. /\ step' = step /\ pc' = "returned"
        /\ journal' = journal \o Chain("executor", ev, n, ExecParent,
                                       <<TRUE, TRUE, TRUE>>)
    BY <1>2, Zenon DEF ExecError, TickError
  <2>3. Grown("executor", n, <<TRUE, TRUE, TRUE>>)
    BY <1>1, <2>1, <2>2, GrowExec, Zenon
  <2>. QED
    BY <2>2, <2>3, TrailDone DEF Grown
<1>3. ASSUME NEW ev \in Evs, NEW st, NEW fr, NEW mu, Executed(st, ev, fr, mu)
      PROVE  TrailInv'
  BY <1>0, <1>1, <1>3, TrailExecuted, Zenon
<1>4. ASSUME NEW fr, NEW mu, Executed("machine_executed", <<>>, fr, mu)
      PROVE  TrailInv'
  BY <1>0, <1>1, <1>4, TrailExecuted, Zenon
<1>5. 0 \in 0 .. 2 /\ 0 <= 1
  OBVIOUS
<1>6. CASE ExecuteMemory
  BY <1>0, <1>2, <1>3, <1>5, <1>6, Zenon DEF ExecuteMemory
<1>7. CASE ExecuteDevice
  BY <1>0, <1>2, <1>3, <1>5, <1>7, Zenon DEF ExecuteDevice
<1>8. CASE ExecuteMachine
  BY <1>0, <1>3, <1>4, <1>8, Zenon DEF ExecuteMachine
<1>9. CASE ExecuteShell
  BY <1>0, <1>2, <1>3, <1>5, <1>9, Zenon DEF ExecuteShell
<1>10. CASE ExecuteSim
  <2>1. \A n \in 0 .. 2 : n <= Len(SimEvents)
    BY <1>0
  <2>. QED
    BY <1>0, <1>2, <1>3, <1>10, <2>1, Zenon DEF ExecuteSim
<1>11. CASE SkipSsh
  <2>1. pc' = "account" /\ UNCHANGED <<step, journal, parent, tick>>
    BY <1>11 DEF SkipSsh
  <2>. QED
    BY <1>1, <2>1
    DEF TrailInv, Threaded, OfStep, NamesIn, ReportedSeq, Tree, Tries, Open
<1>12. CASE MissingExecutor
  BY <1>1, <1>12, TrailDone DEF MissingExecutor, TickError, TrailInv
<1>. QED
  BY <1>6, <1>7, <1>8, <1>9, <1>10, <1>11, <1>12 DEF Execute

(* The next step hangs under the last record this one reports.                *)
LEMMA TrailEnd ==
    ASSUME TypeOK, TrailInv, EndStep, attempt' = attempt
    PROVE  TrailInv'
<1>1. Account /\ pc = "account"
  BY DEF EndStep, EndFinished, EndRejected, EndDenied, EndExecuted, Account
<1>2. /\ parent' = StepSequence /\ journal' = journal /\ tick' = tick
  BY <1>1 DEF Account
<1>3. pc' = "returned" \/ (pc' = "check" /\ step' = step + 1)
  BY DEF EndStep, EndFinished, EndRejected, EndDenied, EndExecuted,
         Continue, Return
<1>6. Tree(journal)
  BY <1>1 DEF TrailInv, Tree, Running, InTick
<1>4. CASE pc' = "returned"
  BY <1>2, <1>4, <1>6, TrailDone DEF TrailInv
<1>5. CASE pc' = "check" /\ step' = step + 1
  <2>1. WriteJournal => OfStep(StepSequence)
    <3>1. WriteJournal => /\ OfStep(tick.output_seq)
                          /\ tick.policy_seq # 0 => OfStep(tick.policy_seq)
                          /\ ReportedSeq # 0 => OfStep(ReportedSeq)
      BY <1>1 DEF TrailInv, Threaded
    <3>2. WriteJournal => tick.output_seq # 0
      BY <3>1, AnchorOfStep
    <3>. QED
      BY <3>1, <3>2 DEF StepSequence, OrElse
  <2>2. step \in Nat
    BY AgentLoopAssumption DEF TypeOK
  <2>3. WriteJournal => Anchor(parent)'
    BY <1>2, <1>5, <2>1, <2>2 DEF Anchor, OfStep, NamesIn
  <2>. QED
    BY <1>2, <1>5, <1>6, <2>3 DEF TrailInv, Threaded, Tree, Tries, Open
<1>. QED
  BY <1>3, <1>4, <1>5

(* The records that close an attempt leave the ones before them in place.     *)
LEMMA TrailClosed ==
    ASSUME TypeOK, TrailInv, EndRun \/ Verdict \/ Release
    PROVE  TrailInv'
<1>1. Closed
  BY EndClosed
<1>2. /\ pc' \in {"judge", "release", "done"} /\ attempt' = attempt
      /\ UNCHANGED <<step, tick, parent>> /\ ~Running'
  BY DEF EndRun, Verdict, Release, outer, Running, InTick
<1>3. /\ journal \in Seq(RecordSet) /\ attempt \in Nat
      /\ \A i \in DOMAIN journal : Placed(journal, i)
      /\ Tries(journal)
  BY AgentLoopAssumption DEF TypeOK, TrailInv
<1>4. ASSUME NEW i \in DOMAIN journal'
      PROVE  Placed(journal', i) /\ journal'[i].try <= attempt
  <2>1. CASE i \in 1 .. Len(journal)
    <3>1. Placed(journal', i)
      BY <1>1, <1>3, <2>1, PrefixPlaced DEF Closed
    <3>. QED
      BY <1>1, <1>3, <2>1, <3>1 DEF Closed, Tries
  <2>2. CASE i \notin 1 .. Len(journal)
    <3>1. journal'[i].by \in EndWriters /\ journal'[i].try = attempt
      BY <1>1, <1>3, <2>2 DEF Closed
    <3>2. journal'[i].by \notin StepWriters
      BY <3>1 DEF EndWriters, StepWriters
    <3>. QED
      BY <1>3, <3>1, <3>2 DEF Placed
  <2>. QED
    BY <2>1, <2>2
<1>5. (\A i \in DOMAIN journal' : Placed(journal', i)) /\ Tries(journal)'
  BY <1>2, <1>4 DEF Tries
<1>. QED
  BY <1>1, <1>2, <1>5 DEF TrailInv, Threaded, Closed

(* The next attempt starts a tree of its own. *)
LEMMA TrailNextAttempt ==
    ASSUME TypeOK, TrailInv, NextAttempt
    PROVE  TrailInv'
<1>1. /\ pc' = "check" /\ parent' = 0 /\ attempt' = attempt + 1
      /\ journal' = journal
  BY DEF NextAttempt
<1>2. journal \in Seq(RecordSet) /\ attempt \in Nat
  BY AgentLoopAssumption DEF TypeOK
<1>3. \A j \in DOMAIN journal : journal[j].try \in Nat
  <2>1. \A j \in DOMAIN journal : journal[j] \in RecordSet
    BY <1>2
  <2>2. \A rec \in RecordSet : rec.try \in Nat
    BY DEF RecordSet
  <2>. QED
    BY <2>1, <2>2
<1>4. \A j \in DOMAIN journal' : journal'[j].try < attempt'
  BY <1>1, <1>2, <1>3 DEF TrailInv, Tries
<1>5. \A j \in DOMAIN journal' : journal'[j].try # attempt'
                              /\ journal'[j].try <= attempt'
  BY <1>1, <1>2, <1>3, <1>4
<1>. QED
  BY <1>1, <1>5 DEF TrailInv, Threaded, Anchor, Tries, Open

LEMMA TrailNext == TypeOK /\ TrailInv /\ [Next]_vars => TrailInv'
<1>. SUFFICES ASSUME TypeOK, TrailInv, [Next]_vars PROVE TrailInv'
  OBVIOUS
<1>1. CASE UNCHANGED vars
  BY <1>1 DEF vars, loopVars, outer, TrailInv, Threaded, Anchor, Allows, OfStep,
              NamesIn, ReportedSeq, Tries, Open, Running
<1>2. ASSUME BudgetStop \/ StepCap, attempt' = attempt PROVE TrailInv'
  <2>1. pc = "check" /\ pc' = "returned" /\ journal' = journal
    BY <1>2 DEF BudgetStop, StepCap, Stop
  <2>2. Tree(journal')
    BY <2>1 DEF TrailInv, Tree, Running
  <2>. QED
    BY <1>2, <2>1, <2>2, TrailDone DEF TrailInv
<1>3. CASE Loop /\ UNCHANGED outer
  <2>1. attempt' = attempt
    BY <1>3 DEF outer
  <2>. QED
    BY <1>2, <1>3, <2>1, TrailBegin, TrailActor, TrailParse, TrailGate,
       TrailExecute, TrailEnd DEF Loop
<1>4. CASE LastAttempt
  <2>1. /\ pc' = "verdict" /\ UNCHANGED <<step, tick, parent, journal, attempt>>
        /\ ~Running'
    BY <1>4 DEF LastAttempt, Running, InTick
  <2>. QED
    BY <2>1 DEF TrailInv, Threaded, Tries
<1>. QED
  BY <1>1, <1>3, <1>4, TrailClosed, TrailNextAttempt DEF Next, Done

(* The steps of an attempt are one tree, whatever mix of repaired, denied,     *)
(* failed and watchdog-tripped steps wrote it: parent_sequence always names a  *)
(* record of the step before (step_sequence and its fallbacks), is dropped     *)
(* with the attempt, and nothing of a step hangs under or follows the          *)
(* watchdog, verdict and release records that close it.                        *)
THEOREM TrailIsConnected == Spec => []TrailConnected
<1>1. TrailInv => TrailConnected
  BY DEF TrailInv, Placed, Same, TrailConnected
<1>. QED
  BY <1>1, TypeInit, TypeNext, TrailInit, TrailNext, PTL DEF Spec

(* No record of an executor without an allow of the same step above it, for    *)
(* every policy and every recommendation (spg_orchestrator_tick).              *)
THEOREM EffectsAreAuthorised == Spec => []EffectsAuthorised
<1>1. TrailInv => EffectsAuthorised
  BY DEF TrailInv, Placed, Same, EffectsAuthorised, StepWriters
<1>. QED
  BY <1>1, TypeInit, TypeNext, TrailInit, TrailNext, PTL DEF Spec

=============================================================================
