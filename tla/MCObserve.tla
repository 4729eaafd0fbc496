----------------------------- MODULE MCObserve -----------------------------
EXTENDS Observe

MCLong == [svc_with_a_long_name |-> "svc_with_a_long"]

Managed(id, match, role, pausable) ==
    [id |-> id, match |-> match, role |-> role, may_pause |-> pausable,
     may_stop |-> pausable]

MCProfile ==
    <<Managed("db", "svc_with_a_long_name", "critical", FALSE),
      Managed("job", "job", "batch", TRUE)>>
TwoServices ==
    <<Managed("db", "svc_with_a_long_name", "critical", FALSE),
      Managed("web", "job", "critical", FALSE)>>

Proc(id, name, pages) == [id |-> id, cpu |-> 0, st |-> "R", name |-> name, pages |-> pages]
Busy  == <<Proc(1, "svc_with_a_long", 0), Proc(2, "misc", 2), Proc(3, "job", 2)>>
Quiet == <<Proc(1, "misc", 0), Proc(2, "misc", 0), NoProcess>>

MCPids == 1..3
MCAbsent == -2
MCGarbled == -3

Sense(temp, total, avail) ==
    [temp |-> temp, total |-> total, avail |-> avail, cpu |-> TRUE, dir |-> TRUE]
Fine   == Sense(40, 10, 6)
Hot    == Sense(90, 10, 0)
Mute   == Sense(Garbled, 10, 6)
Blind  == [Sense(Absent, 10, Absent) EXCEPT !.cpu = FALSE]
NoProc == [Sense(40, 10, 12) EXCEPT !.dir = FALSE]

Goal   == [present |-> TRUE, temp |-> 70, health |-> 10000, actions |-> 1]
NoGoal == [present |-> FALSE, temp |-> Unset, health |-> Unset, actions |-> Unset]

MCThresholds == [cpu |-> 8000, memory |-> 9000, temp |-> 75, share |-> 5000]

Fixed(directive) ==
    [directive |-> directive, user_profile |-> "none", goal |-> "task",
     tools |-> "none", exemplars |-> "none", host_status |-> "load",
     memory_index |-> "none"]

\* A machine that moves under the samples of a short run: what it takes to
\* exit, be replaced under the same pid, and let time pass.
Moving ==
    [procs |-> Busy, profile |-> MCProfile, goal |-> Goal, window |-> 2, limit |-> 2,
     refresh |-> TRUE, headerCap |-> 20, steps |-> 1, fixed |-> Fixed("skill"),
     readings |-> {Fine, Blind}, outcomes |-> {"acted", "finish"}, moves |-> 3]

\* A machine that stands still under a longer run, with every outcome.
Still ==
    [Moving EXCEPT !.steps = 4, !.moves = 0, !.refresh = FALSE, !.limit = 3,
                   !.readings = {Fine, Hot, Blind, NoProc},
                   !.outcomes = {"acted", "sim", "denied", "rejected", "finish"}]

\* Sensors and counters that fail in one sample and answer in the next.
Failing ==
    [Moving EXCEPT !.steps = 2, !.moves = 1, !.readings = {Fine, Blind, Mute}]

MCScenarios ==
    {Moving, Failing, Still,
     [Still EXCEPT !.procs = Quiet, !.window = 9, !.headerCap = 6, !.goal = NoGoal],
     [Still EXCEPT !.window = 0, !.limit = 2, !.fixed = Fixed("none")],
     [Still EXCEPT !.goal.health = 10001],
     [Still EXCEPT !.profile = <<Managed("db", "job", "critical", TRUE)>>],
     [Still EXCEPT !.profile = <<Managed("job", "job", "batch", TRUE),
                                 Managed("job", "misc", "batch", FALSE)>>]}

\* A log of headers that fills up; a service that is gone; a broken sensor.
FullLog   == {[Still EXCEPT !.headerCap = 6]}
Departed  == {[Still EXCEPT !.profile = TwoServices, !.moves = 1]}
BadSensor == {[Still EXCEPT !.readings = {Mute}]}
=============================================================================
