------------------------------- MODULE Policy -------------------------------
(***************************************************************************)
(* The deterministic policy engine: spg_policy_decide (src/policy/policy.c) *)
(* and the decision half of spg_policy_gate_step (src/policy/policy_gate.c).*)
(* Both are pure: a decision is a function of the loaded policy (constants  *)
(* here), of the usage accumulated so far, of the machine snapshot, and of  *)
(* the parsed recommendation.                                               *)
(*                                                                          *)
(* A recommendation is a record                                             *)
(*   [kind, capability, cost, target, uses_network]                         *)
(* where target is a profile id for the machine actions, a channel name for *)
(* device_write and NoTarget for the kinds that carry none.                 *)
(***************************************************************************)
EXTENDS Integers, Sequences, FiniteSets

CONSTANTS
    U64Max,          \* UINT64_MAX; a small number in the TLC instances
    Capabilities,    \* the policy's capabilities, in file order
    Budgets,         \* policy.budgets: one bound per action class
    NetworkDeny,     \* TRUE iff network_default is SPG_POLICY_NETWORK_DENY
    MayPause,        \* process profile: profile id -> may_pause
    NetworkChannels, \* channels the operator declared (network true)
    NoTarget         \* "the recommendation has no target"

MachineKinds == {"machine_pause_process", "machine_resume_process"}
MemoryKinds  == {"memory_save", "memory_delete", "memory_read"}
ActionKinds  == {"local_shell", "ssh_auth_probe", "simulator", "device_write"}
                    \cup MachineKinds \cup MemoryKinds

CapabilityKinds == {"local_shell", "ssh_auth_probe", "simulator", "memory",
                    "machine_process", "device"}

Classes == {"shell_actions", "sim_actions", "memory_actions",
            "machine_actions"}

U64 == 0 .. U64Max

ASSUME PolicyAssumption ==
    /\ U64Max \in Nat \ {0}
    /\ Capabilities \in Seq([name : STRING, kind : CapabilityKinds,
                             enabled : BOOLEAN, budget : U64])
    /\ Budgets \in [Classes -> U64]
    /\ NetworkDeny \in BOOLEAN
    /\ \A p \in DOMAIN MayPause : MayPause[p] \in BOOLEAN

-----------------------------------------------------------------------------
DenyReasons == {"unknown_capability", "disabled_capability", "kind_mismatch",
                "network", "capability_budget", "global_budget",
                "invalid_request", "unmanaged_process", "process_protected",
                "process_identity"}

Decisions == {"allow"} \cup DenyReasons

(* cap_kind_for_action *)
CapKindForAction(kind) ==
    IF kind \in MemoryKinds         THEN "memory"
    ELSE IF kind \in MachineKinds   THEN "machine_process"
    ELSE IF kind = "device_write"   THEN "device"
    ELSE kind

(* The class whose counter and budget govern a kind: consumed_for_action and  *)
(* global_budget_for_action switch over the kind in the same way.             *)
ClassOf(kind) ==
    IF kind \in {"local_shell", "ssh_auth_probe"} THEN "shell_actions"
    ELSE IF kind = "simulator"                    THEN "sim_actions"
    ELSE IF kind \in MemoryKinds                  THEN "memory_actions"
    ELSE "machine_actions"

(* would_exceed without its overflow test: used + cost wraps at 2^64. *)
WouldExceedWrapping(used, cost, budget) ==
    (used + cost) % (U64Max + 1) > budget

(* would_exceed: the overflow test comes first, so the sum never wraps. *)
WouldExceed(used, cost, budget) ==
    \/ cost > U64Max - used
    \/ used + cost > budget

(* Names are not required to be unique: the first match wins. *)
Matches(name) == {i \in DOMAIN Capabilities : Capabilities[i].name = name}

FirstMatch(name) ==
    CHOOSE i \in Matches(name) : \A j \in Matches(name) : i <= j

(* spg_policy_decide: the first test that fails names the denial. `used' is   *)
(* the usage function of the run so far.                                      *)
Decide(used, request) ==
    LET cap == Capabilities[FirstMatch(request.capability)]
        class == ClassOf(request.kind)
    IN  IF request.kind \notin ActionKinds \/ request.cost = 0
          THEN "invalid_request"
        ELSE IF /\ request.uses_network
                /\ NetworkDeny
                /\ request.kind # "ssh_auth_probe"
          THEN "network"
        ELSE IF Matches(request.capability) = {} THEN "unknown_capability"
        ELSE IF ~cap.enabled                     THEN "disabled_capability"
        ELSE IF cap.kind # CapKindForAction(request.kind)
          THEN "kind_mismatch"
        ELSE IF WouldExceed(0, request.cost, cap.budget)
          THEN "capability_budget"
        ELSE IF WouldExceed(used[class], request.cost, Budgets[class])
          THEN "global_budget"
        ELSE "allow"

-----------------------------------------------------------------------------
(* machine_denial: process semantics only, decided before capability and      *)
(* budget. `snapshot' is the set of profile ids the machine sample holds; an   *)
(* empty profile stands for "no profile configured", NoTarget for a target     *)
(* that is empty or longer than SPG_PROCESS_ID_CAP.                            *)
MachineDenial(rec, snapshot) ==
    IF rec.kind \notin MachineKinds              THEN "none"
    ELSE IF DOMAIN MayPause = {}                 THEN "unmanaged_process"
    ELSE IF rec.target = NoTarget                THEN "invalid_request"
    ELSE IF rec.target \notin DOMAIN MayPause    THEN "unmanaged_process"
    ELSE IF /\ rec.kind = "machine_pause_process"
            /\ ~MayPause[rec.target]             THEN "process_protected"
    ELSE IF rec.target \notin snapshot           THEN "process_identity"
    ELSE "none"

(* device_target_uses_network: the channel table decides, not model text. *)
GateRequest(rec) ==
    [rec EXCEPT !.uses_network =
        \/ @
        \/ rec.kind = "device_write" /\ rec.target \in NetworkChannels]

(* The decision of spg_policy_gate_step. *)
GateDecision(rec, used, snapshot) ==
    LET md == MachineDenial(rec, snapshot)
    IN  IF md # "none" THEN md
        ELSE IF Matches(rec.capability) = {} THEN "unknown_capability"
        ELSE Decide(used, GateRequest(rec))
=============================================================================
