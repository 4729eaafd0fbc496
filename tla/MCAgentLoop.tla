---------------------------- MODULE MCAgentLoop -----------------------------
(***************************************************************************)
(* Instances of AgentLoop for TLC. The policy has one capability per kind,  *)
(* a disabled one, and a second entry under a name already taken; p1 may be *)
(* paused, p2 is protected, p9 is in no profile.                            *)
(***************************************************************************)
EXTENDS AgentLoop

Cap(n, k, e, b) == [name |-> n, kind |-> k, enabled |-> e, budget |-> b]

MCCapabilities ==
    << Cap("sh", "local_shell", TRUE, 5),  Cap("ssh", "ssh_auth_probe", TRUE, 1),
       Cap("sim", "simulator", TRUE, 2),   Cap("mem", "memory", TRUE, 1),
       Cap("proc", "machine_process", TRUE, 1), Cap("dev", "device", TRUE, 1),
       Cap("off", "local_shell", FALSE, 5), Cap("sim", "local_shell", TRUE, 5) >>

\* U64Max is 7: two shell actions of cost 4 wrap around it.
MCBudgets == [c \in Classes |->
    CASE c = "shell_actions"   -> 6
      [] c = "sim_actions"     -> 3
      [] c = "memory_actions"  -> 2
      [] c = "machine_actions" -> 1]

MCMayPause == [p \in {"p1", "p2"} |-> p = "p1"]

Rec(k, cap, c, t) == [kind |-> k, capability |-> cap, cost |-> c, target |-> t,
                      uses_network |-> k = "ssh_auth_probe"]

Shell   == Rec("local_shell", "sh", 4, NoTarget)
Ssh     == Rec("ssh_auth_probe", "ssh", 1, "host")
Sim     == Rec("simulator", "sim", 2, NoTarget)
Save    == Rec("memory_save", "mem", 1, NoTarget)
Read    == Rec("memory_read", "mem", 1, NoTarget)
Pause   == Rec("machine_pause_process", "proc", 1, "p1")
Write   == Rec("device_write", "dev", 1, "heater")

\* Recommendations the gate has a reason of its own to refuse.
Refused == { Rec("local_shell", "off", 1, NoTarget),
             Rec("local_shell", "none", 1, NoTarget),
             Rec("memory_save", "sim", 1, NoTarget),
             Rec("simulator", "sim", 3, NoTarget),
             Rec("machine_pause_process", "proc", 1, "p2"),
             Rec("machine_resume_process", "proc", 1, "p9"),
             Rec("machine_resume_process", "proc", 1, NoTarget),
             Rec("device_write", "dev", 1, "remote") }

AllRecs     == {Shell, Ssh, Sim, Save, Read, Pause, Write,
                Rec("device_write", "dev", 1, NoTarget)} \cup Refused
TrailRecs   == {Shell, Sim, Read, Pause, Write} \cup
               {Rec("local_shell", "none", 1, NoTarget)}
DeviceRecs  == {Write}

\* A second attempt follows one of at most two steps and ends with its first.
ShortRetry == attempt > 1 => best.steps <= 2 /\ step = 0
=============================================================================
