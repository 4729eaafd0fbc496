---------------------------- MODULE MachinePause ----------------------------
(***************************************************************************)
(* Pausing processes of the host: the machine executor, its pause ledger,   *)
(* the guardian children and the recovery from the journal                  *)
(* (src/executor/machine_executor.c), with the part of the agent command    *)
(* that opens the journal, takes the lock, recovers and releases            *)
(* (src/cli/main.c).                                                        *)
(*                                                                          *)
(* The host is external: processes exit, pids are recycled under a new      *)
(* start identity, the user stops and continues processes, and the agent or *)
(* a guardian may be killed between any two system calls. Machine steps run *)
(* with --allow-exec. A profile id stands for the pid the snapshot gives    *)
(* it, so `snapshot' maps a pid to the identity that was observed.          *)
(***************************************************************************)
EXTENDS Integers, Sequences, FiniteSets

CONSTANTS
    Pids,       \* pids of the processes in the profile
    MaxPaused,  \* SPG_MACHINE_MAX_PAUSED
    Hosts       \* the hosts a run can meet, and the bounds on what they do

(* A host gives                                                             *)
(*   foreign   the pids the agent may not signal: kill fails with EPERM     *)
(*   users     whether the user stops and continues processes as well       *)
(*   races     whether a pid is recycled between the check and the signal   *)
(*   faults    whether spg_journal_writer_append may fail                   *)
(*   exec      whether steps that run a program come between machine steps  *)
(*   large     whether a step journals a record of more than 1024 bytes     *)
(* and the bounds: ids (start identities handed out), ops (machine actions  *)
(* of a run), runs (starts of the agent), kills (guardians killed).         *)
ASSUME PauseAssumption ==
    /\ MaxPaused \in Nat \ {0}
    /\ \A h \in Hosts :
          /\ h.foreign \subseteq Pids
          /\ {h.ids, h.ops, h.kills} \subseteq Nat /\ h.runs \in Nat \ {0}
          /\ {h.users, h.races, h.faults, h.exec, h.large} \subseteq BOOLEAN

VARIABLES
    host,     \* the host of this behaviour
    proc,     \* per pid: the start identity and state of its process
    ids,      \* identities handed out so far
    pc,       \* where the agent is
    op,       \* the signal it is about to send
    snapshot, \* per pid: the identity in state->machine, 0 = not observed
    ledger,   \* entries of spg_machine_pause_ledger
    guards,   \* the guardian children, in fork order
    child,    \* write ends a running program inherited, {0} = no program
    journal,  \* machine_action records with (outcome ok), and large records
    owed,     \* history: pauses the journal owed when this run was started
    ops, runs, kills

vars == <<host, proc, ids, pc, op, snapshot, ledger, guards, child, journal, owed,
          ops, runs, kills>>
past == <<journal, owed>>

(* The state of a process; "ours" is a process our SIGSTOP stopped while it *)
(* was running, "users" one that somebody else had stopped.                 *)
States == {"none", "running", "ours", "users"}

Idle == [kind |-> "none", pid |-> 0, id |-> 0, ok |-> FALSE]

Init ==
    /\ host \in Hosts
    /\ proc = [p \in Pids |-> [id |-> 0, st |-> "none"]]
    /\ ids = 0
    /\ pc = "exited"
    /\ op = Idle
    /\ snapshot = [p \in Pids |-> 0]
    /\ ledger = {}
    /\ guards = <<>>
    /\ child = {0}
    /\ journal = <<>> /\ owed = {}
    /\ ops = 0 /\ runs = 0 /\ kills = 0

-----------------------------------------------------------------------------
(* The host.                                                                *)
Live(p) == proc[p].st # "none"

(* spg_backend_process_identity                                             *)
IdentityMatches(p, id) == Live(p) /\ proc[p].id = id

(* What a signal does to the process that has the pid when it arrives.      *)
Stopped(p) == [proc EXCEPT ![p].st = IF @ = "running" THEN "ours" ELSE @]
Continued(p) == [proc EXCEPT ![p].st = "running"]

(* Somebody is between the identity check and the kill for this pid.        *)
Aimed(p) ==
    \/ pc = "kill" /\ op.pid = p
    \/ \E i \in DOMAIN guards : guards[i].st = "armed" /\ guards[i].pid = p

AgentVars == <<pc, op, snapshot, ledger, guards, child, journal, owed, ops,
               runs, kills>>

Spawn ==
    /\ ids < host.ids
    /\ \E p \in Pids :
          /\ ~Live(p)
          /\ proc' = [proc EXCEPT ![p] = [id |-> ids + 1, st |-> "running"]]
    /\ ids' = ids + 1
    /\ UNCHANGED AgentVars

Exit ==
    /\ \E p \in Pids :
          /\ Live(p) /\ (host.races \/ ~Aimed(p))
          /\ proc' = [proc EXCEPT ![p].st = "none"]
    /\ UNCHANGED ids /\ UNCHANGED AgentVars

UserStop ==
    /\ host.users
    /\ \E p \in Pids :
          /\ proc[p].st = "running"
          /\ proc' = [proc EXCEPT ![p].st = "users"]
    /\ UNCHANGED ids /\ UNCHANGED AgentVars

UserContinue ==
    /\ host.users
    /\ \E p \in Pids :
          /\ proc[p].st \in {"ours", "users"}
          /\ proc' = Continued(p)
    /\ UNCHANGED ids /\ UNCHANGED AgentVars

-----------------------------------------------------------------------------
(* Guardians.                                                               *)
Alive(i) == guards[i].st # "gone"

Pending == {"waiting", "armed"}

Waiting(p, id) == {i \in DOMAIN guards : /\ guards[i].pid = p
                                         /\ guards[i].id = id
                                         /\ guards[i].st \in Pending}

Down == pc \in {"exited", "dead"}

(* A guardian that did not close its own copy of the write end.             *)
EndOfFileNever(i) == FALSE

(* The pipe of guardian i has no writer left: not the agent, not a guardian *)
(* forked while the agent held the write end, not a running program.        *)
EndOfFile(i) ==
    /\ Down
    /\ i \notin child
    /\ \A j \in DOMAIN guards : Alive(j) => i \notin guards[j].holds

(* read() returned 0: check the identity, ...                               *)
GuardWakes(i) ==
    /\ guards[i].st = "waiting" /\ EndOfFile(i)
    /\ guards' = [guards EXCEPT ![i].st =
                    IF IdentityMatches(guards[i].pid, guards[i].id)
                      THEN "armed" ELSE "gone"]
    /\ UNCHANGED proc

(* ... then kill(pid, SIGCONT) and _exit; ...                               *)
GuardContinues(i) ==
    /\ guards[i].st = "armed"
    /\ proc' = IF Live(guards[i].pid) THEN Continued(guards[i].pid) ELSE proc
    /\ guards' = [guards EXCEPT ![i].st = "gone"]

(* ... or a byte arrived and it exits without acting.                       *)
GuardStandsDown(i) ==
    /\ guards[i].st = "dismissed"
    /\ guards' = [guards EXCEPT ![i].st = "gone"]
    /\ UNCHANGED proc

Guardian ==
    /\ \E i \in DOMAIN guards :
          GuardWakes(i) \/ GuardContinues(i) \/ GuardStandsDown(i)
    /\ UNCHANGED <<ids, pc, op, snapshot, ledger, child, past, ops, runs,
                   kills>>

GuardKilled ==
    /\ kills < host.kills
    /\ \E i \in DOMAIN guards :
          /\ Alive(i)
          /\ guards' = [guards EXCEPT ![i].st = "gone"]
    /\ kills' = kills + 1
    /\ UNCHANGED <<proc, ids, pc, op, snapshot, ledger, child, past, ops,
                   runs>>

-----------------------------------------------------------------------------
(* The ledger.                                                              *)
Entries(p, id) == {e \in ledger : e.pid = p /\ e.id = id}

(* dismiss_guardian for the entries in `gone': the byte goes to a guardian  *)
(* that still reads; without a reader the write raises SIGPIPE, which nothing *)
(* handles. A negative guard_fd (guard 0) is skipped.                       *)
Unread(gone) == \E e \in gone : e.guard # 0 /\ ~Alive(e.guard)

(* ledger_forget (also the tail of ledger_release) and the dismissal in it; *)
(* the agent goes on at `next'.                                             *)
Forget(gone, next) ==
    IF Unread(gone)
      THEN /\ pc' = "dead" /\ ledger' = {}
           /\ UNCHANGED guards
      ELSE /\ pc' = next /\ ledger' = ledger \ gone
           /\ guards' = [i \in DOMAIN guards |->
                           IF \E e \in gone : e.guard = i
                             THEN [guards[i] EXCEPT !.st = "dismissed"]
                             ELSE guards[i]]

(* ledger->count >= SPG_MACHINE_MAX_PAUSED                                  *)
LedgerFull == Cardinality(ledger) >= MaxPaused

(* spg_machine_executor_step up to the first system call: find_target, then *)
(* the ledger decides whether a pause may go on.                            *)
Choose ==
    /\ pc = "idle" /\ ops < host.ops
    /\ ops' = ops + 1
    /\ \E p \in Pids, kind \in {"pause", "resume"} :
          /\ op' = [kind |-> kind, pid |-> p, id |-> snapshot[p], ok |-> FALSE]
          /\ \/ /\ snapshot[p] = 0
                /\ pc' = "record" /\ UNCHANGED ledger
             \/ /\ snapshot[p] # 0 /\ kind = "resume"
                /\ pc' = "check" /\ UNCHANGED ledger
             \/ /\ snapshot[p] # 0 /\ kind = "pause"
                /\ Entries(p, snapshot[p]) # {} \/ LedgerFull
                /\ pc' = "record" /\ UNCHANGED ledger
             \/ /\ snapshot[p] # 0 /\ kind = "pause"
                /\ Entries(p, snapshot[p]) = {} /\ ~LedgerFull
                /\ ledger' = ledger \cup {[pid |-> p, id |-> snapshot[p],
                                           guard |-> 0]}
                /\ pc' = "guard"
    /\ UNCHANGED <<proc, ids, snapshot, guards, child, past, runs, kills>>

(* A pause goes on when no guardian could be forked.                        *)
SpawnGuardianOptional ==
    /\ pc = "guard" /\ pc' = "check"
    /\ UNCHANGED <<ledger, guards>>
    /\ UNCHANGED <<proc, ids, op, snapshot, child, past, ops, runs, kills>>

(* spawn_guardian: pipe and fork; the child inherits the write ends the agent *)
(* holds for its other guardians. Without a guardian the pause is refused.  *)
SpawnGuardian ==
    /\ pc = "guard"
    /\ \/ /\ guards' = Append(guards,
                [pid |-> op.pid, id |-> op.id, st |-> "waiting",
                 holds |-> {e.guard : e \in ledger} \ {0}])
          /\ ledger' = (ledger \ Entries(op.pid, op.id)) \cup
                {[pid |-> op.pid, id |-> op.id, guard |-> Len(guards) + 1]}
          /\ pc' = "check"
       \/ Forget(Entries(op.pid, op.id), "record")
    /\ UNCHANGED <<proc, ids, op, snapshot, child, past, ops, runs, kills>>

Releasing == op.kind = "release"

(* identity_still_matches in send_signal                                    *)
CheckIdentity ==
    /\ pc = "check"
    /\ pc' = IF IdentityMatches(op.pid, op.id) THEN "kill"
             ELSE IF Releasing THEN "record" ELSE "settle"
    /\ UNCHANGED <<proc, ids, op, snapshot, ledger, guards, child, past, ops,
                   runs, kills>>

(* kill: the signal goes to whatever process has the pid by now.            *)
Kill ==
    /\ pc = "kill"
    /\ LET ok == Live(op.pid) /\ op.pid \notin host.foreign
       IN  /\ op' = [op EXCEPT !.ok = ok]
           /\ proc' = IF ~ok THEN proc
                      ELSE IF op.kind = "pause" THEN Stopped(op.pid)
                      ELSE Continued(op.pid)
    /\ pc' = IF Releasing THEN "record" ELSE "settle"
    /\ UNCHANGED <<ids, snapshot, ledger, guards, child, past, ops, runs,
                   kills>>

(* A pause that failed and a resume that landed leave the ledger.           *)
Settle ==
    /\ pc = "settle"
    /\ IF op.ok = (op.kind = "resume")
         THEN Forget(Entries(op.pid, op.id), "record")
         ELSE pc' = "record" /\ UNCHANGED <<ledger, guards>>
    /\ UNCHANGED <<proc, ids, op, snapshot, child, past, ops, runs, kills>>

(* journal_action; only (outcome ok) records matter to recovery, and the    *)
(* status of the append is dropped. After a step the host is observed again. *)
Observed == [p \in Pids |-> IF Live(p) THEN proc[p].id ELSE 0]

RecordAction ==
    /\ pc = "record"
    /\ \/ /\ journal' = IF op.ok
                          THEN Append(journal,
                                 [kind |-> IF op.kind = "pause" THEN "pause"
                                                                ELSE "resume",
                                  pid |-> op.pid, id |-> op.id])
                          ELSE journal
       \/ host.faults /\ op.ok /\ UNCHANGED journal
    /\ IF Releasing THEN pc' = "dismiss" /\ UNCHANGED snapshot
                    ELSE pc' = "idle" /\ snapshot' \in {snapshot, Observed}
    /\ UNCHANGED <<proc, ids, op, ledger, guards, child, owed, ops, runs,
                   kills>>

-----------------------------------------------------------------------------
(* Other steps of the loop may run a program (a shell command, a channel    *)
(* program): the write ends are not close-on-exec, so it holds them too.    *)
ExecStart ==
    /\ host.exec /\ pc = "idle" /\ child = {0}
    /\ child' = {e.guard : e \in ledger} \ {0}
    /\ pc' = "exec"
    /\ UNCHANGED <<proc, ids, op, snapshot, ledger, guards, past, ops, runs,
                   kills>>

(* The agent waits for the program and reaps it.                            *)
ExecDone ==
    /\ pc = "exec"
    /\ child' = {0} /\ pc' = "idle"
    /\ UNCHANGED <<proc, ids, op, snapshot, ledger, guards, past, ops, runs,
                   kills>>

(* The recovery's buffer ends the walk at record n or before.               *)
Ended(log, n) == \E k \in 1 .. n : log[k].kind = "large"

(* A step journals a record that no buffer of 1024 bytes holds (the prompt, *)
(* the model's output, a program's); smaller records of other kinds are     *)
(* passed over by the recovery. One is enough to end its walk.              *)
LargeRecord ==
    /\ host.large /\ pc = "idle" /\ ~Ended(journal, Len(journal))
    /\ journal' = Append(journal, [kind |-> "large", pid |-> 0, id |-> 0])
    /\ UNCHANGED <<proc, ids, pc, op, snapshot, ledger, guards, child, owed,
                   ops, runs, kills>>

(* A program whose agent died runs on for as long as it likes.              *)
OrphanExits ==
    /\ pc # "exec" /\ child # {0}
    /\ child' = {0}
    /\ UNCHANGED <<proc, ids, pc, op, snapshot, ledger, guards, past, ops,
                   runs, kills>>

-----------------------------------------------------------------------------
(* Every way out of a run goes through spg_machine_ledger_release.          *)
EndRun ==
    /\ pc = "idle"
    /\ pc' = "release"
    /\ UNCHANGED <<proc, ids, op, snapshot, ledger, guards, child, past, ops,
                   runs, kills>>

ReleaseNext ==
    /\ pc = "release"
    /\ \/ /\ ledger = {}
          /\ pc' = "exited" /\ UNCHANGED op
       \/ \E e \in ledger :
             /\ op' = [kind |-> "release", pid |-> e.pid, id |-> e.id,
                       ok |-> FALSE]
             /\ pc' = "check"
    /\ UNCHANGED <<proc, ids, snapshot, ledger, guards, child, past, ops,
                   runs, kills>>

DismissReleased ==
    /\ pc = "dismiss"
    /\ Forget(Entries(op.pid, op.id), "release")
    /\ UNCHANGED <<proc, ids, op, snapshot, child, past, ops, runs, kills>>

(* SIGKILL: the ledger is gone and every descriptor is closed.              *)
Crash ==
    /\ ~Down
    /\ pc' = "dead" /\ ledger' = {}
    /\ UNCHANGED <<proc, ids, op, snapshot, guards, child, past, ops, runs,
                   kills>>

(* pending_add and pending_remove by pid alone.                             *)
OwedByPid(log) ==
    LET due[n \in 0 .. Len(log)] ==
          IF n = 0 THEN {}
          ELSE LET r == log[n]
                   known == {e \in due[n - 1] : e[1] = r.pid}
               IN  IF Ended(log, n) THEN due[n - 1]
                   ELSE IF r.kind = "resume" THEN due[n - 1] \ known
                   ELSE IF known # {} THEN due[n - 1]
                   ELSE due[n - 1] \cup {<<r.pid, r.id>>}
    IN  due[Len(log)]

(* The walk of spg_machine_recover_journal: pauses without a resume, as far *)
(* as the first record that does not fit the buffer.                        *)
Owed(log) ==
    LET due[n \in 0 .. Len(log)] ==
          IF n = 0 THEN {}
          ELSE LET r == log[n]
               IN  IF Ended(log, n) THEN due[n - 1]
                   ELSE IF r.kind = "resume" THEN due[n - 1] \ {<<r.pid, r.id>>}
                   ELSE IF Cardinality(due[n - 1]) < MaxPaused
                     THEN due[n - 1] \cup {<<r.pid, r.id>>}
                   ELSE due[n - 1]
    IN  due[Len(log)]

(* The next run truncates the journal, then asks for the lock. The guardians *)
(* inherited the lock's descriptor, so it is refused while one is left.     *)
LockIgnoresGuardians == pc \notin {"exited", "dead"}

LockHeld == ~Down \/ \E i \in DOMAIN guards : Alive(i)

StartRun ==
    /\ runs < host.runs
    /\ runs' = runs + 1
    /\ journal' = <<>>
    /\ IF LockHeld
         THEN UNCHANGED <<pc, ops, owed>>
         ELSE pc' = "recover" /\ ops' = 0 /\ owed' = Owed(journal)
    /\ UNCHANGED <<proc, ids, op, snapshot, ledger, guards, child, kills>>

(* Recovery resumes what is owed, then the host is observed.                *)
Recover ==
    /\ pc = "recover"
    /\ proc' = [p \in Pids |->
                  IF \E e \in Owed(journal) :
                        /\ e[1] = p /\ IdentityMatches(p, e[2])
                        /\ p \notin host.foreign
                    THEN [proc[p] EXCEPT !.st = "running"] ELSE proc[p]]
    /\ snapshot' = Observed
    /\ pc' = "idle"
    /\ UNCHANGED <<ids, op, ledger, guards, child, past, ops, runs, kills>>

Agent == /\ \/ Choose \/ SpawnGuardian \/ CheckIdentity \/ Kill \/ Settle
            \/ RecordAction \/ ExecDone \/ EndRun \/ ReleaseNext
            \/ DismissReleased \/ Recover
         /\ UNCHANGED host

GuardianRuns == Guardian /\ UNCHANGED host

Environment == /\ \/ Spawn \/ Exit \/ UserStop \/ UserContinue \/ GuardKilled
                  \/ OrphanExits \/ ExecStart \/ LargeRecord \/ Crash \/ StartRun
               /\ UNCHANGED host

Next == Agent \/ GuardianRuns \/ Environment

Spec == Init /\ [][Next]_vars

(* The agent's loop is bounded and its system calls return; guardians block *)
(* only on their pipe. Nothing is assumed of the host, the user, a crash or a *)
(* program that outlives the agent.                                         *)
FairSpec == Spec /\ WF_vars(Agent) /\ WF_vars(GuardianRuns)

-----------------------------------------------------------------------------
(* Properties.                                                              *)

(* Every variable stays in its type (struct spg_machine_pause_ledger,       *)
(* struct pending_pause).                                                   *)
TypeOK ==
    /\ host \in Hosts
    /\ proc \in [Pids -> [id : 0 .. host.ids, st : States]]
    /\ ids \in 0 .. host.ids
    /\ pc \in {"exited", "dead", "recover", "idle", "exec", "guard", "check",
               "kill", "settle", "record", "release", "dismiss"}
    /\ op \in [kind : {"none", "pause", "resume", "release"},
               pid : Pids \cup {0}, id : 0 .. host.ids, ok : BOOLEAN]
    /\ snapshot \in [Pids -> 0 .. host.ids]
    /\ ledger \subseteq [pid : Pids, id : 0 .. host.ids, guard : 0 .. Len(guards)]
    /\ Cardinality(ledger) <= MaxPaused
    /\ \A i \in DOMAIN guards :
          guards[i] \in [pid : Pids, id : 0 .. host.ids,
                         st : {"waiting", "armed", "dismissed", "gone"},
                         holds : SUBSET (1 .. i - 1)]
    /\ child \subseteq 0 .. Len(guards)
    /\ ops \in 0 .. host.ops /\ runs \in 0 .. host.runs /\ kills \in 0 .. host.kills

(* A host that kills no guardian, leaves stopping to us and recycles no pid *)
(* under a signal on its way.                                               *)
Peaceful == host.kills = 0 /\ ~host.users /\ ~host.races

(* On a peaceful host a process we stopped has a guardian that will continue *)
(* it should the agent die now: the guardian is armed before the stop and   *)
(* dismissed only after the continue (spg_machine_executor_step,            *)
(* ledger_release).                                                         *)
StopsGuarded ==
    Peaceful => \A p \in Pids : proc[p].st = "ours" => Waiting(p, proc[p].id) # {}

(* When a run decides on its next action, every process that is stopped on  *)
(* our account is in its own ledger: nothing of an earlier run is left over, *)
(* because recovery and the lock come before the first snapshot             *)
(* (main.c, agent command).                                                 *)
OwnStopsInLedger ==
    Peaceful /\ pc = "idle" => \A p \in Pids :
        proc[p].st = "ours" => Entries(p, proc[p].id) # {}

Held == {<<e.pid, e.id>> : e \in ledger}

(* What records of this kind say behind the end of the walk.                *)
Late(log, kind) ==
    LET late == {n \in DOMAIN log : log[n].kind = kind /\ Ended(log, n)}
    IN  {<<log[n].pid, log[n].id>> : n \in late}

(* The recovery's walk finds every pause of the ledger but those recorded   *)
(* behind a large record, and no other but those whose resume was.          *)
JournalOwesLedger ==
    pc = "idle" => /\ Held \subseteq Owed(journal) \cup Late(journal, "pause")
                   /\ Owed(journal) \subseteq Held \cup Late(journal, "resume")

(* When appends succeed, what the ledger holds can be read back from the    *)
(* journal should everything else be lost, and nothing else is; only a      *)
(* record of more than 1024 bytes hides a pause or a resume (journal_action, *)
(* spg_machine_recover_journal). A second start would truncate the journal  *)
(* of a run that is up before the lock refuses it (main.c:2454, 2677).      *)
LedgerJournaled == ~host.faults /\ host.runs = 1 => JournalOwesLedger

(* Actions.md, the second line of defence: the next start resumes what the  *)
(* journal of a killed run still owes before it observes the host.          *)
RecoveryResumesOwed ==
    pc = "idle" /\ ops = 0 => \A e \in owed :
        proc[e[1]].id = e[2] => proc[e[1]].st # "ours"

(* Nothing stays paused: a process we stopped is continued or gone in the   *)
(* end, whether the run ends or is killed at any point, by the ledger or by *)
(* its guardian (docs/machine-intelligence/Actions.md).                     *)
NothingStaysPaused ==
    \A p \in Pids : (Peaceful /\ proc[p].st = "ours") ~> (proc[p].st # "ours")
=============================================================================
