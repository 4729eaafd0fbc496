------------------------------ MODULE Observe ------------------------------
(***************************************************************************)
(* How a run of the agent sees the machine it works on: the sampler and    *)
(* its Linux backend (src/src/machine/telemetry_host.c, telemetry.c,       *)
(* process.c, process_profile.c, backend_linux.c), the window of past      *)
(* snapshots, the context each step is shown (module Context), and what    *)
(* the rule baseline and the goal (diagnose.c, machine_goal.c) conclude    *)
(* from the last snapshot.                                                 *)
(*                                                                         *)
(* The host is external and runs on while it is sampled: processes start,  *)
(* stop, exit and have their pid taken over between any two files the      *)
(* sampler opens.  /proc is listed in any order.                           *)
(***************************************************************************)
EXTENDS Context

CONSTANTS
    Pids,        \* the pids of the host
    Programs,    \* the names a process can have in /proc (comm, cut at 15)
    Long,        \* a function: names longer than comm shows -> what it shows
    Pages,       \* the resident sizes a process can have, in pages
    PageBytes,   \* sysconf(_SC_PAGESIZE)
    ProfileCap,  \* SPG_PROCESS_PROFILE_CAP
    Absent,      \* ... no such file
    Garbled,     \* ... a file whose text is not a number
    RawCap,      \* SPG_MACHINE_RAW_PROCESSES
    SnapCap,     \* SPG_MACHINE_MAX_PROCESSES
    HistoryCap,  \* SPG_MACHINE_HISTORY_CAP
    Thresholds,  \* spg_rule_thresholds_default
    MaxRepairs,
    Scenarios    \* the runs, see below

(* A scenario gives a run its machine and its command line:                *)
(*   procs     what runs on the machine at the start                       *)
(*   profile   the process profile, a sequence of entries                  *)
(*   goal      the machine goal                                            *)
(*   window, limit, refresh, headerCap, steps, fixed    the configuration  *)
(*   readings  what the sensors may answer: [temp, total, avail, cpu, dir] *)
(*   outcomes  what may come of a step                                     *)
(*   moves     the bound on what the host does during the run              *)

MachineUnknown == -1    \* SPG_MACHINE_UNKNOWN, SPG_MACHINE_UNKNOWN_S
Unset   == -1    \* SPG_GOAL_UNSET, SPG_GOAL_UNSET_S
Scale   == 10000 \* bp_scale

NoProcess == [id |-> 0]

ASSUME ObserveAssumption ==
    /\ {PageBytes, RawCap, SnapCap, HistoryCap} \cup Pages \cup Pids \subseteq Nat
    /\ {Absent, Garbled, Thresholds.temp, Thresholds.share} \subseteq Int
    /\ \A c \in Scenarios :
          /\ {c.window, c.limit, c.headerCap} \subseteq Nat
          /\ {c.goal.temp, c.goal.health, c.goal.actions} \subseteq Int
          /\ DOMAIN c.profile = 1..Len(c.profile) /\ Len(c.profile) \in Nat
          /\ \A i \in DOMAIN c.profile : c.profile[i].role \in {"critical", "batch"}
          /\ \A r \in c.readings :
                {r.temp, r.total, r.avail} \subseteq Int /\ r.dir \in BOOLEAN
          /\ DOMAIN c.procs = Pids
          /\ \A p \in Pids :
                LET x == c.procs[p]
                IN x # NoProcess => /\ DOMAIN x = {"id", "cpu", "st", "name", "pages"}
                                    /\ {x.cpu, x.pages} \subseteq Nat

VARIABLES
    host,     \* [proc, tot, idle, births]: the machine itself
    conf,     \* the scenario of this run
    phase,    \* "start", "open", "dir", "tick", "end", "judged", "refused"
    smp,      \* the sample being taken: [cpu, sense, listed, seen, raw, total]
    machine,  \* state->machine: the current snapshot
    hist,     \* struct spg_machine_history: [entries, head, n]
    run,      \* [step, repairs, acts, graph, facts, journal, obs]
    ctx,      \* the last context, as spg_context_render left it
    report,   \* the verdict and the diagnosis at the end
    aux       \* auxiliary: what the host and the steps did so far

observeVars == <<host, conf, phase, smp, machine, hist, run, ctx, report, aux>>

-----------------------------------------------------------------------------
(* Process profiles.                                                       *)

\* parse_entry: both permissions are given, a critical process has neither.
EntryValid(e) == e.role = "critical" => ~e.may_pause /\ ~e.may_stop

ProfileValid(p) ==
    /\ Len(p) <= ProfileCap
    /\ \A i \in DOMAIN p : EntryValid(p[i])
    /\ \A i, j \in DOMAIN p : p[i].id = p[j].id => i = j

\* spg_process_profile_match: the first entry for what comm shows of a name.
Matches(e, name) ==
    e.match = name \/ (e.match \in DOMAIN Long /\ Long[e.match] = name)

ProfileMatch(p, name) ==
    LET fit == {i \in DOMAIN p : Matches(p[i], name)}
    IN IF fit = {} THEN 0 ELSE Min(fit)

Role(p, entry) == IF entry = 0 THEN "unknown" ELSE p[entry].role

-----------------------------------------------------------------------------
(* The parsers, by what they make of a file.                               *)

\* spg_telemetry_parse_int behind spg_backend_temperature.
TemperatureOf(r) == IF r = Absent THEN MachineUnknown ELSE IF r = Garbled THEN 0 ELSE r

\* spg_telemetry_parse_meminfo: MemTotal and MemAvailable.
MemoryOf(total, avail) ==
    [total |-> IF total = Absent THEN MachineUnknown ELSE total,
     used  |-> IF total = Absent \/ avail = Absent THEN MachineUnknown
               ELSE IF avail > total THEN 0 ELSE total - avail]

\* spg_process_parse_stat
ParseStat(p) ==
    [pid |-> p, id |-> host.proc[p].id, time |-> host.proc[p].cpu,
     st  |-> host.proc[p].st, name |-> host.proc[p].name,
     rss |-> IF PageBytes = 0 THEN MachineUnknown ELSE host.proc[p].pages * PageBytes]

-----------------------------------------------------------------------------
(* Utilisation.                                                            *)

NoCpu == [total |-> 0, idle |-> 0]

TelemetryUtilisation(prev, cur) ==
    LET total == cur.total - prev.total
        idle  == cur.idle - prev.idle
    IN IF total <= 0 \/ idle < 0 THEN MachineUnknown
       ELSE IF idle >= total THEN 0 ELSE ((total - idle) * Scale) \div total

\* The same pid is the same process.
SamePid(a, b) == a.pid = b.pid

\* spg_process_find and spg_process_utilisation_bp agree on the identity.
SameProcess(a, b) == a.pid = b.pid /\ a.id = b.id

ProcessUtilisation(prev, s, delta) ==
    LET before == {i \in DOMAIN prev : SameProcess(prev[i], s)}
        busy   == s.time - prev[Min(before)].time
    IN IF before = {} \/ delta = 0 THEN MachineUnknown
       ELSE IF busy < 0 THEN MachineUnknown
       ELSE IF busy >= delta THEN Scale ELSE (busy * Scale) \div delta

-----------------------------------------------------------------------------
(* Selection.                                                              *)

Known(v)    == v # MachineUnknown
Measured(v) == IF Known(v) THEN v ELSE 0

\* ranks_before: managed, then CPU, then memory, then the lower pid.
RanksBefore(a, b) ==
    LET managed(s) == IF s.entry # 0 THEN 1 ELSE 0
        key(s)     == <<managed(s), Measured(s.bp), Measured(s.rss), -s.pid>>
    IN \E i \in 1..4 : /\ key(a)[i] > key(b)[i]
                       /\ \A j \in 1..(i - 1) : key(a)[j] = key(b)[j]

\* A full buffer that keeps the processes that were listed first.
OfferFirst(buf, s) == IF Len(buf) < SnapCap THEN Append(buf, s) ELSE buf

\* spg_process_offer: a full buffer loses its weakest, to a stronger one only.
Offer(buf, s) ==
    IF Len(buf) < SnapCap THEN Append(buf, s)
    ELSE LET worst == CHOOSE i \in DOMAIN buf :
                          \A j \in DOMAIN buf \ {i} : RanksBefore(buf[j], buf[i])
         IN IF SnapCap = 0 THEN buf
            ELSE IF RanksBefore(s, buf[worst]) THEN [buf EXCEPT ![worst] = s]
            ELSE buf

\* A process that costs nothing is no signal, unless it is managed.
Signal(s) == (Known(s.rss) /\ s.rss # 0) \/ (Known(s.bp) /\ s.bp # 0) \/ s.entry # 0

\* spg_process_select, from a buffer that is no longer than the snapshot: the
\* best that is left, one place after the other.
Select(buf) ==
    LET better(s) == {t \in ToSet(buf) : RanksBefore(t, s)}
    IN [i \in DOMAIN buf |->
           CHOOSE s \in ToSet(buf) : Cardinality(better(s)) = i - 1]

(* select_processes: role, share, filter and offer, one process of the     *)
(* list after the other.                                                   *)
Rated(s, prev, delta) ==
    LET entry == ProfileMatch(conf.profile, s.name)
    IN [pid |-> s.pid, id |-> s.id, time |-> s.time, st |-> s.st, name |-> s.name,
        rss |-> s.rss, entry |-> entry, role |-> Role(conf.profile, entry),
        bp |-> ProcessUtilisation(prev, s, delta)]

RatedAll(raw, prev, delta) == [i \in DOMAIN raw |-> Rated(raw[i], prev, delta)]

SelectProcesses(rated) ==
    LET kept[n \in 0..Len(rated)] ==
            IF n = 0 THEN <<>>
            ELSE IF Signal(rated[n]) THEN Offer(kept[n - 1], rated[n])
            ELSE kept[n - 1]
    IN Select(kept[Len(rated)])

-----------------------------------------------------------------------------
(* The window of past snapshots.                                           *)

EmptyHistory == [entries |-> <<>>, head |-> 0, n |-> 0]

Window(w) == Lesser(w, HistoryCap)

\* The entry of a tick, without the processes.
Entry(tick, m) == [tick |-> tick, util |-> m.util, temp |-> m.temp,
                   used |-> m.mem.used, count |-> m.count]

Push(h, window, e) ==
    IF window = 0 THEN h
    ELSE [entries |-> IF h.n < window THEN Append(h.entries, e)
                      ELSE [h.entries EXCEPT ![h.head + 1] = e],
          head    |-> (h.head + 1) % window,
          n       |-> Lesser(h.n + 1, window)]

\* A wrapped ring is read from its first slot.
OldestAtZero(h, window) == 0

\* Where the oldest entry is: at the head once the ring has wrapped.
Oldest(h, window) == IF h.n < window THEN 0 ELSE h.head

HistoryUnits(h, window) ==
    IF window = 0 THEN <<>>
    ELSE <<Unit("machine-history",
                [i \in 1..h.n |->
                    h.entries[((Oldest(h, window) + i - 1) % window) + 1]])>>

-----------------------------------------------------------------------------
(* The goal and the rule baseline.                                         *)

\* spg_machine_goal_load: a share above 100% is a typo.
GoalValid(g) == g.health <= Scale

Critical(m) == {i \in DOMAIN m.procs : m.procs[i].role = "critical"}

CriticalHealth(m) ==
    IF Critical(m) = {} THEN MachineUnknown
    ELSE IF \E i \in Critical(m) : m.procs[i].st \in {"T", "Z"} THEN 0 ELSE Scale

\* A reading that is missing does not contradict the goal.
BrokenLenient(limit, value, bad) == limit # Unset /\ Known(value) /\ bad

\* One constraint: "unmeasurable" comes before "broken".
Broken(limit, value, bad) == limit # Unset /\ (~Known(value) \/ bad)

Evaluate(g, m, acts) ==
    LET health == CriticalHealth(m)
    IN IF ~g.present THEN "no_goal"
       ELSE IF g.actions # Unset /\ acts > g.actions THEN "too_many_actions"
       ELSE IF Broken(g.temp, m.temp, m.temp > g.temp)
            THEN IF Known(m.temp) THEN "temperature_too_high" ELSE "unmeasurable"
       ELSE IF Broken(g.health, health, health < g.health)
            THEN IF Known(health) THEN "critical_unhealthy" ELSE "unmeasurable"
       ELSE "satisfied"

Nobody == "nobody"

\* The first of the entries with the largest known value.
Largest(m, field) ==
    LET can == {i \in DOMAIN m.procs : Known(m.procs[i][field])}
    IN IF can = {} THEN 0
       ELSE Min({i \in can : \A j \in can : m.procs[j][field] <= m.procs[i][field]})

Blame(m, i) == IF i = 0 \/ m.procs[i].entry = 0 THEN Nobody ELSE m.procs[i].shown

\* Healthy: the signals that would have shown a problem were readable.
AllReadable(m) ==
    Known(m.util) /\ Known(m.mem.total) /\ Known(m.mem.used) /\ Known(m.temp)

Diagnose(m) ==
    LET hot  == Largest(m, "bp")
        fat  == Largest(m, "rss")
        full == /\ Known(m.mem.total) /\ m.mem.total > 0 /\ Known(m.mem.used)
                /\ (Lesser(m.mem.used, m.mem.total) * Scale) \div m.mem.total
                       >= Thresholds.memory
        by   == [batch |-> "batch_pressure", critical |-> "critical_pressure",
                 unknown |-> "inconclusive"]
    IN IF Known(m.temp) /\ m.temp > Thresholds.temp THEN <<"thermal_anomaly", Nobody>>
       ELSE IF full THEN <<"memory_pressure", Blame(m, fat)>>
       ELSE IF Known(m.util) /\ m.util >= Thresholds.cpu
            THEN IF hot = 0 \/ m.procs[hot].bp < Thresholds.share
                 THEN <<"inconclusive", Nobody>>
                 ELSE <<by[m.procs[hot].role], Blame(m, hot)>>
       ELSE <<IF AllReadable(m) THEN "healthy" ELSE "inconclusive", Nobody>>

(* spg_machine_state_render and spg_machine_state_parse: a case file is a  *)
(* snapshot that was written out.  A process is shown by its profile id,   *)
(* else by its name, with its role, share and size; nothing tells whether  *)
(* it is stopped, and a process with a role counts as managed.             *)
Written(m) ==
    [m EXCEPT !.procs =
        [i \in DOMAIN m.procs |->
            LET s == m.procs[i]
            IN [shown |-> IF s.entry = 0 THEN s.name ELSE conf.profile[s.entry].id,
                role |-> s.role, bp |-> s.bp, rss |-> s.rss]]]

ReadBack(w) ==
    [w EXCEPT !.procs =
        [i \in DOMAIN w.procs |->
            [shown |-> w.procs[i].shown, role |-> w.procs[i].role,
             bp |-> w.procs[i].bp, rss |-> w.procs[i].rss, st |-> "none",
             entry |-> IF w.procs[i].role = "unknown" THEN 0 ELSE 1]]]

-----------------------------------------------------------------------------
Alive(p)  == host.proc[p] # NoProcess

NoSample == [cpu |-> NoCpu, cpuOk |-> FALSE, sense |-> Absent, listed |-> {},
             seen |-> {}, raw |-> <<>>, total |-> 0]

NoSnapshot == [cpu |-> NoCpu, util |-> MachineUnknown, temp |-> MachineUnknown,
               mem |-> [total |-> MachineUnknown, used |-> MachineUnknown],
               procs |-> <<>>, count |-> MachineUnknown, truncated |-> FALSE]

NoContext == [status |-> "none", view |-> [budgets |-> 0]]

ObserveInit ==
    /\ conf \in Scenarios
    /\ host = [proc |-> conf.procs, tot |-> 2, idle |-> 1, births |-> Cardinality(Pids)]
    /\ phase = "start"
    /\ smp = NoSample
    /\ machine = NoSnapshot
    /\ hist = EmptyHistory
    /\ run = [step |-> 0, repairs |-> 0, acts |-> 0, graph |-> EmptyGraph,
              facts |-> <<>>, journal |-> 0, obs |-> "none"]
    /\ ctx = NoContext
    /\ report = [verdict |-> "none", diag |-> "none", blamed |-> Nobody]
    /\ aux = [moved |-> 0, first |-> TRUE, prior |-> {}, basis |-> {},
              counted |-> FALSE, span |-> "nothing", shown |-> <<>>, seen |-> [graph |-> EmptyGraph]]

(* agent_command: an invalid profile or goal ends the command; otherwise   *)
(* the host is sampled once before the first step.                         *)
StartRun ==
    /\ phase = "start"
    /\ phase' = IF ProfileValid(conf.profile) /\ GoalValid(conf.goal)
             THEN "open" ELSE "refused"
    /\ UNCHANGED <<host, conf, smp, machine, hist, run, ctx, report, aux>>

-----------------------------------------------------------------------------
(* The host, while it is being sampled.  What it does between a step and   *)
(* the sample that follows is part of what it does before the sample.      *)

HostSteps(h) ==
    /\ phase \in {"open", "dir"} /\ aux.moved < conf.moves
    /\ host' = h
    /\ aux' = [aux EXCEPT !.moved = @ + 1]
    /\ UNCHANGED <<conf, phase, smp, machine, hist, run, ctx, report>>

Work(p) ==
    /\ Alive(p) /\ host.proc[p].st = "R"
    /\ HostSteps([host EXCEPT !.proc[p].cpu = @ + 1, !.tot = @ + 1])

Idle == HostSteps([host EXCEPT !.tot = @ + 1, !.idle = @ + 1])

Spawn(p, name, pages) ==
    /\ ~Alive(p)
    /\ HostSteps([host EXCEPT !.births = @ + 1,
                              !.proc[p] = [id |-> host.births + 1, cpu |-> 0, st |-> "R",
                                           name |-> name, pages |-> pages]])

Exit(p) == Alive(p) /\ HostSteps([host EXCEPT !.proc[p] = NoProcess])

Stop(p) == /\ Alive(p) /\ host.proc[p].st = "R"
           /\ HostSteps([host EXCEPT !.proc[p].st = "T"])

\* Suspend, or a CPU that was taken away: the counters start again.
CountersReset == /\ host.tot > 0
                 /\ HostSteps([host EXCEPT !.tot = 0, !.idle = 0])

HostMoves ==
    \/ \E p \in Pids : Work(p) \/ Exit(p) \/ Stop(p)
    \/ \E p \in Pids, name \in Programs, pages \in Pages : Spawn(p, name, pages)
    \/ Idle
    \/ CountersReset

-----------------------------------------------------------------------------
(* spg_machine_sample_with_processes.                                      *)

(* The counters and the sensors, then opendir.                             *)
OpenSample ==
    /\ phase = "open"
    /\ \E r \in conf.readings :
          smp' = [cpuOk  |-> r.cpu,
                  cpu    |-> IF r.cpu THEN [total |-> host.tot, idle |-> host.idle]
                             ELSE NoCpu,
                  sense  |-> r,
                  listed |-> IF r.dir THEN {p \in Pids : Alive(p)} ELSE {},
                  seen   |-> {}, raw |-> <<>>, total |-> 0]
    /\ phase' = "dir"
    /\ UNCHANGED <<host, conf, machine, hist, run, ctx, report, aux>>

(* One entry of /proc, which may be a process that started after opendir.  *)
(* A process that has exited is counted, not sampled; so is one beyond the *)
(* buffer.                                                                 *)
ReadEntry(p) ==
    /\ phase = "dir" /\ smp.sense.dir
    /\ p \notin smp.seen
    /\ p \in smp.listed \/ Alive(p)
    /\ smp' = [smp EXCEPT !.seen = @ \cup {p}, !.total = @ + 1,
                          !.raw = IF Len(@) < RawCap /\ Alive(p)
                                  THEN Append(@, ParseStat(p)) ELSE @]
    /\ UNCHANGED <<host, conf, phase, machine, hist, run, ctx, report, aux>>

(* What the utilisation of the snapshot is a share of: of the time since   *)
(* the sample before, or, when /proc/stat could not be read then, of the   *)
(* time since the boot (its counters are all zero after a failure).        *)
Span == IF ~smp.cpuOk \/ aux.first THEN "nothing"
        ELSE IF aux.counted THEN "between" ELSE "boot"

(* The end of the list: rate, select, and install the snapshot.            *)
CloseSample ==
    /\ phase = "dir" /\ smp.listed \subseteq smp.seen
    /\ LET delta == IF smp.cpuOk /\ ~aux.first /\ smp.cpu.total >= machine.cpu.total
                    THEN smp.cpu.total - machine.cpu.total ELSE 0
           rated == RatedAll(smp.raw, machine.procs, delta)
           procs == SelectProcesses(rated)
       IN /\ machine' =
                [cpu   |-> smp.cpu,
                 util  |-> IF smp.cpuOk /\ ~aux.first
                           THEN TelemetryUtilisation(machine.cpu, smp.cpu) ELSE MachineUnknown,
                 temp  |-> TemperatureOf(smp.sense.temp),
                 mem   |-> MemoryOf(smp.sense.total, smp.sense.avail),
                 procs |-> procs,
                 count |-> IF smp.sense.dir THEN smp.total ELSE MachineUnknown,
                 truncated |-> smp.total > Len(procs)]
          /\ aux' = [aux EXCEPT !.first = FALSE,
                                !.prior = {<<machine.procs[i].pid, machine.procs[i].id>> :
                                              i \in DOMAIN machine.procs},
                                !.basis = ToSet(rated),
                                !.counted = smp.cpuOk, !.span = Span]
    /\ smp' = [NoSample EXCEPT !.sense = smp.sense]
    /\ phase' = "tick"
    /\ UNCHANGED <<host, conf, hist, run, ctx, report>>

-----------------------------------------------------------------------------
(* One step of the agent loop, as far as the context is concerned.         *)

\* The log of headers: capped, and what comes after is not in it.
Headers == [i \in 1..Lesser(run.journal, conf.headerCap) |-> i]

View == BuildView(run.graph, run.facts, Headers, conf.limit, conf.steps, run.step)

MachineUnits ==
    (IF conf.goal.present THEN <<Unit("machine-goal", conf.goal)>> ELSE <<>>)
    \o HistoryUnits(hist, Window(conf.window))
    \o <<Unit("machine-state", Written(machine))>>

NextContext(view) ==
    LET src == [host_status |-> conf.fixed.host_status,
                memory_index |-> conf.fixed.memory_index,
                observation |-> run.obs]
    IN Render(ConstantUnits(conf.fixed), VaryingUnits(view, src, MachineUnits))

Executed(o) == o \in {"acted", "sim"}
Repaired(o) == o = "rejected" /\ run.repairs < MaxRepairs

\* The journal records of a step: the actor's, the gate's, the executor's.
Records(o) == CASE o = "acted" -> 6 [] o = "sim" -> 8 [] OTHER -> 5

(* What a step adds to the tables: [ok, graph, facts].                     *)
TablesAfter(o) ==
    LET a == ActorUpdates(run.graph)
        f == AddFact(run.facts, run.journal + 2, 5000)
        d == DenyUpdates(a.g)
        r == SimUpdates(a.g, TRUE)
        g == AddFact(f.f, run.journal + 6, 10000)
    IN IF ~(a.ok /\ f.ok) THEN [ok |-> FALSE, graph |-> a.g, facts |-> f.f]
       ELSE IF o = "denied" THEN [ok |-> d.ok, graph |-> d.g, facts |-> f.f]
       ELSE IF o = "sim" THEN [ok |-> r.ok /\ g.ok, graph |-> r.g, facts |-> g.f]
       ELSE [ok |-> TRUE, graph |-> a.g, facts |-> f.f]

\* The snapshot this step decided on, before any refresh.
Historise(h) == Push(h, Window(conf.window), Entry(run.step + 1, machine))

\* History: the tables this step's context was made from.
Shown == [graph |-> run.graph, facts |-> run.facts, journal |-> run.journal]

(* The step fails: its context does not fit, or a table is full.  The      *)
(* snapshot it looked at does not enter the window.                        *)
StepFails(c, t) ==
    /\ c.status # "ok" \/ ~t.ok
    /\ run' = IF c.status # "ok" THEN [run EXCEPT !.step = @ + 1]
              ELSE [run EXCEPT !.step = @ + 1, !.graph = t.graph, !.facts = t.facts]
    /\ phase' = "end"
    /\ aux' = [aux EXCEPT !.seen = Shown]
    /\ UNCHANGED hist

(* A step that ends without an error puts its snapshot into the window; an *)
(* action that was executed is followed by a new sample.                   *)
StepDone(o, c, t) ==
    /\ c.status = "ok" /\ t.ok
    /\ run' = [step    |-> run.step + 1,
               repairs |-> IF Repaired(o) THEN run.repairs + 1 ELSE run.repairs,
               acts    |-> IF Executed(o) THEN run.acts + 1 ELSE run.acts,
               graph   |-> t.graph,
               facts   |-> t.facts,
               journal |-> run.journal + Records(o),
               obs     |-> IF o = "sim" \/ Repaired(o) THEN o ELSE run.obs]
    /\ hist' = Historise(hist)
    /\ aux' = [aux EXCEPT !.shown = Append(@, Entry(run.step + 1, machine)),
                          !.seen = Shown]
    /\ phase' = IF Executed(o) /\ conf.refresh THEN "open"
             ELSE IF Executed(o) \/ Repaired(o) THEN "tick" ELSE "end"

Tick ==
    /\ phase = "tick" /\ run.step < conf.steps
    /\ LET view == View
           c    == NextContext(view)
       IN /\ \E o \in conf.outcomes :
                LET t == TablesAfter(o) IN StepFails(c, t) \/ StepDone(o, c, t)
          /\ ctx' = [status |-> c.status, view |-> view]
    /\ UNCHANGED <<host, conf, smp, machine, report>>

LastStep ==
    /\ phase = "tick" /\ run.step = conf.steps
    /\ phase' = "end"
    /\ UNCHANGED <<host, conf, smp, machine, hist, run, ctx, report, aux>>

(* The evaluation: the snapshot, written out and read back as a case file, *)
(* is judged against the goal and diagnosed by rule.                       *)
Judge ==
    /\ phase = "end"
    /\ LET m == ReadBack(Written(machine))
       IN report' = [verdict |-> Evaluate(conf.goal, m, run.acts),
                     diag    |-> Diagnose(m)[1],
                     blamed  |-> Diagnose(m)[2]]
    /\ phase' = "judged"
    /\ UNCHANGED <<host, conf, smp, machine, hist, run, ctx, aux>>

ObserveNext ==
    \/ StartRun \/ HostMoves \/ OpenSample \/ CloseSample
    \/ \E p \in Pids : ReadEntry(p)
    \/ Tick \/ LastStep \/ Judge

ObserveSpec == ObserveInit /\ [][ObserveNext]_observeVars

-----------------------------------------------------------------------------
(* Properties.                                                             *)

(* A process is shown with a share of the CPU only if the snapshot before  *)
(* showed the very same process, not an earlier one with its pid, and no   *)
(* share is more than the whole (spg_process_find,                         *)
(* spg_process_utilisation_bp): whatever exits, starts and takes over pids *)
(* between and during the two samples.  The whole need not be the time     *)
(* between the two: see Span.                                              *)
SharesOwnProcess ==
    \A i \in DOMAIN machine.procs :
        LET s == machine.procs[i]
        IN Known(s.bp) => /\ <<s.pid, s.id>> \in aux.prior
                          /\ s.bp \in 0..Scale

(* The processes of a snapshot are the strongest of all that were read,    *)
(* strongest first and managed ones before all others, in whatever order   *)
(* /proc listed them; and the snapshot says that it is cut whenever the    *)
(* machine has more (spg_process_offer, spg_process_select).               *)
SnapshotIsBest ==
    LET cand      == {s \in aux.basis : Signal(s)}
        better(s) == {t \in cand : RanksBefore(t, s)}
    IN /\ ToSet(machine.procs) = {s \in cand : Cardinality(better(s)) < SnapCap}
       /\ \A i \in DOMAIN machine.procs : Cardinality(better(machine.procs[i])) = i - 1
       /\ machine.truncated <=> machine.count > Len(machine.procs)

(* The window the model reads is the tail of the snapshots the steps of    *)
(* the run decided on, oldest first, one for every step, also when the     *)
(* ring has wrapped and when a step was repeated without a new sample      *)
(* (spg_machine_history_push, _render; agent_loop.c pushes before it       *)
(* refreshes).                                                             *)
WindowIsTail ==
    LET w == Window(conf.window)
        n == Lesser(w, Len(aux.shown))
    IN HistoryUnits(hist, w) =
           IF w = 0 THEN <<>>
           ELSE <<Unit("machine-history",
                       SubSeq(aux.shown, Len(aux.shown) - n + 1, Len(aux.shown)))>>

(* The references of a context are the best-ranked nodes and facts and the *)
(* latest logged events there are, a list says that it is cut exactly when *)
(* it is, nodes and facts come best first and events in the order they     *)
(* happened (spg_context_build), while the tables grow with every step.    *)
BestRefs(v, cands) ==
    LET limit     == Lesser(conf.limit, RefCap)
        better(r) == {c \in ToSet(cands) : Before(c, r)}
    IN /\ ToSet(v.refs) = {r \in ToSet(cands) : Cardinality(better(r)) < limit}
       /\ v.truncated <=> Len(cands) > limit

BestFirst(refs) == \A i, j \in DOMAIN refs : i < j => Before(refs[i], refs[j])
InTime(refs)    == \A i, j \in DOMAIN refs : i < j => refs[i].rank < refs[j].rank

\* The events that a context can refer to.
Logged(journal) ==
    [i \in 1..Lesser(journal, conf.headerCap) |-> [index |-> i, rank |-> i]]

ContextHonest ==
    ctx.status = "ok" =>
        /\ BestRefs(ctx.view.graph, Candidates(aux.seen.graph.nodes, GraphRank))
        /\ BestRefs(ctx.view.memory, Candidates(aux.seen.facts, FactRank))
        /\ BestRefs(ctx.view.journal, Logged(aux.seen.journal))
        /\ BestFirst(ctx.view.graph.refs) /\ BestFirst(ctx.view.memory.refs)
        /\ InTime(ctx.view.journal.refs)

(* A verdict rests on what the files of the last sample answered, never on *)
(* an answer that did not come and never on one of an earlier sample       *)
(* (spg_machine_goal_evaluate, spg_rule_diagnose).  A goal is satisfied    *)
(* only if the budget of actions is kept; if the temperature it limits had *)
(* a file with a number within the limit, or with no number, which the     *)
(* getter counts as 0; and if it asks for healthy services, if a process   *)
(* the profile has as critical was seen, stopped or not: the case file     *)
(* does not say.  Healthy is said only of a machine whose sensor and       *)
(* memory files were there and whose CPU counters were read now and looked *)
(* for before (if in vain, the load is that since the boot).  A process is *)
(* blamed for the load only if it is in the snapshot, batch work of the    *)
(* profile, and has the share.                                             *)
Answered(limit) ==
    /\ smp.sense.temp # Absent
    /\ smp.sense.temp = Garbled \/ smp.sense.temp <= limit

VerdictHonest ==
    /\ report.verdict = "satisfied" =>
          LET g == conf.goal
          IN /\ g.present
             /\ g.actions # Unset => run.acts <= g.actions
             /\ g.temp # Unset => Answered(g.temp)
             /\ g.health # Unset =>
                   \E s \in aux.basis : s.role = "critical"
    /\ report.diag = "healthy" =>
          /\ Answered(Thresholds.temp)
          /\ Absent \notin {smp.sense.total, smp.sense.avail}
          /\ aux.span # "nothing"
    /\ report.diag = "batch_pressure" =>
          \E i \in DOMAIN machine.procs :
              LET s == machine.procs[i]
              IN /\ s.role = "batch" /\ s.bp >= Thresholds.share
                 /\ report.blamed = conf.profile[s.entry].id

-----------------------------------------------------------------------------
(* Statements of the sources that the code does not keep.                  *)

(* agent_loop.c:179 (and agent_loop.h:100): every event logged so far is   *)
(* exposed to the step, so the recent events a context shows end with the  *)
(* latest record of the journal.                                           *)
RecentEvents ==
    (ctx.status = "ok" /\ aux.seen.journal > 0
        /\ conf.headerCap > 0 /\ Lesser(conf.limit, RefCap) > 0) =>
        Last(ctx.view.journal.refs).rank = aux.seen.journal

(* machine_goal.c:113: the health of the critical services is "10000 when  *)
(* every process the profile marks critical is running, 0 when any is      *)
(* stopped or gone".                                                       *)
CriticalGoneIsUnhealthy ==
    (report.verdict = "satisfied" /\ conf.goal.health = Scale) =>
        \A e \in DOMAIN conf.profile :
            conf.profile[e].role = "critical" =>
                \E i \in DOMAIN machine.procs :
                    machine.procs[i].entry = e /\ machine.procs[i].st = "R"

(* telemetry_host.c:97: each getter "leaves its field unknown on failure". *)
UnknownOnFailure ==
    (phase = "tick" /\ smp.sense.temp \in {Absent, Garbled}) => machine.temp = MachineUnknown
=============================================================================
