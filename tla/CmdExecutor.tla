---------------------------- MODULE CmdExecutor -----------------------------
(***************************************************************************)
(* The command executor: spg_cmd_executor_run (src/exec/cmd_executor.c)     *)
(* spawns a batch of programs, multiplexes their output with poll, kills    *)
(* the process group of a program whose deadline has passed, and reaps.     *)
(* Shell actions, channel programs and a sampling round all go through it.  *)
(*                                                                          *)
(* The programs are external. One consists of up to two processes: the child *)
(* the executor forked, and a descendant in its process group ("kin") or    *)
(* one that left the group ("stray"). Time is abstracted to whether the     *)
(* deadline of a command has passed. A unit of data is what one read takes. *)
(***************************************************************************)
EXTENDS Integers, FiniteSets

CONSTANTS
    N,           \* commands in the batch
    Streams,     \* stdout and stderr
    Room,        \* units that fit a caller's buffer
    PipeCap,     \* units that fit a pipe
    MaxWrites,   \* bound: units one program writes to one stream
    Liberties    \* what hosts and programs may do beyond the ordinary, of
                 \*   "stray": a descendant leaves the process group
                 \*   "close": a program closes a stream and runs on
                 \*   "flood": a program writes without end
                 \*   "poll":  poll fails for another reason than EINTR
                 \*   "read":  a read fails for another reason than EINTR

Cmds == 1 .. N

ASSUME CmdAssumption ==
    /\ N \in Nat \ {0} /\ IsFiniteSet(Streams)
    /\ Room \in Nat /\ PipeCap \in Nat \ {0}
    /\ MaxWrites \in Nat /\ MaxWrites > Room
    /\ Liberties \subseteq {"stray", "close", "flood", "poll", "read"}

VARIABLES
    free,    \* the liberties taken in this behaviour, fixed
    pc,      \* spawn, poll, drain, check, reap, done
    next,    \* the command spawn_one or waitpid is at
    ready,   \* descriptors the last poll reported and that are not drained
    open,    \* open_fds
    fd,      \* per command: the streams whose read end is open
    len,     \* stdout_len, stderr_len
    trunc,   \* streams flagged stdout_truncated, stderr_truncated
    lost,    \* history: streams closed because a read failed
    res,     \* per command: state of the child and of its result
    due,     \* commands whose deadline has passed
    procs,   \* per command: its live processes
    holds,   \* per command and stream: processes that hold the write end
    pipe,    \* per command and stream: units in the pipe
    written  \* history: units written, saturating at MaxWrites

vars == <<free, pc, next, ready, open, fd, len, trunc, lost, res, due, procs,
          holds, pipe, written>>

Executor == <<free, pc, next, ready, open, fd, len, trunc, lost>>
Program  == <<procs, holds, pipe, written>>

(* child: not spawned, running, a zombie that exited or was signalled, or     *)
(* reaped; "failed" is a command that never started.                          *)
NotRun == [child |-> "none", exited |-> FALSE, timed_out |-> FALSE]

Init ==
    /\ free \in {{}, Liberties}
    /\ pc = "spawn" /\ next = 1 /\ ready = {} /\ open = 0
    /\ fd = [i \in Cmds |-> {}]
    /\ len = [i \in Cmds |-> [s \in Streams |-> 0]]
    /\ trunc = [i \in Cmds |-> {}]
    /\ lost = {}
    /\ res = [i \in Cmds |-> NotRun]
    /\ due = {}
    /\ procs = [i \in Cmds |-> {}]
    /\ holds = [i \in Cmds |-> [s \in Streams |-> {}]]
    /\ pipe = [i \in Cmds |-> [s \in Streams |-> 0]]
    /\ written = [i \in Cmds |-> [s \in Streams |-> 0]]

-----------------------------------------------------------------------------
(* The request is invalid, a pipe or the fork fails, or the child reports     *)
(* that it could not exec; nothing of the command is left behind.             *)
SpawnFails ==
    /\ res' = [res EXCEPT ![next].child = "failed"]
    /\ UNCHANGED <<open, fd, procs, holds>>

(* spawn_one returns once the child has executed its program. *)
SpawnWorks ==
    /\ res' = [res EXCEPT ![next].child = "running"]
    /\ open' = open + Cardinality(Streams)
    /\ fd' = [fd EXCEPT ![next] = Streams]
    /\ procs' = [procs EXCEPT ![next] = {"child"}]
    /\ holds' = [holds EXCEPT ![next] = [s \in Streams |-> {"child"}]]

Spawn ==
    /\ pc = "spawn" /\ next <= N
    /\ SpawnFails \/ SpawnWorks
    /\ next' = next + 1
    /\ UNCHANGED <<free, pc, ready, len, trunc, lost, due, pipe, written>>

SpawnDone ==
    /\ pc = "spawn" /\ next > N
    /\ pc' = "poll"
    /\ UNCHANGED <<free, next, ready, open, fd, len, trunc, lost, res, due, Program>>

-----------------------------------------------------------------------------
Active(i) == fd[i] # {}

Readable(i, s) == s \in fd[i] /\ (pipe[i][s] > 0 \/ holds[i][s] = {})

(* A timeout computed from the first command of the batch alone. *)
TimeoutFirst == 1 \in due /\ Active(1)

(* poll_timeout_ms: the soonest deadline of an active command has passed. *)
Timeout == \E i \in due : Active(i)

(* poll returns when a descriptor is readable or the timeout is over. *)
Poll ==
    /\ pc = "poll" /\ open > 0
    /\ ready' = {d \in Cmds \X Streams : Readable(d[1], d[2])}
    /\ ready' # {} \/ Timeout
    /\ pc' = "drain"
    /\ UNCHANGED <<free, next, open, fd, len, trunc, lost, res, due, Program>>

(* A failed poll leaves the loop with the read ends still open. *)
PollFails ==
    /\ "poll" \in free /\ pc = "poll" /\ open > 0
    /\ pc' = "reap" /\ next' = 1
    /\ UNCHANGED <<free, ready, open, fd, len, trunc, lost, res, due, Program>>

LoopDone ==
    /\ pc = "poll" /\ open = 0
    /\ pc' = "reap" /\ next' = 1
    /\ UNCHANGED <<free, ready, open, fd, len, trunc, lost, res, due, Program>>

(* append_capped that stops flagging once the buffer is full. *)
AppendCappedSilent(i, s) ==
    /\ len' = [len EXCEPT ![i][s] = IF @ < Room THEN @ + 1 ELSE @]
    /\ UNCHANGED trunc

(* append_capped: what does not fit is dropped and flagged. *)
AppendCapped(i, s) ==
    IF len[i][s] < Room
      THEN len' = [len EXCEPT ![i][s] = @ + 1] /\ UNCHANGED trunc
      ELSE trunc' = [trunc EXCEPT ![i] = @ \cup {s}] /\ UNCHANGED len

(* One read of drain_fd: data is stored, ... *)
ReadData(i, s) ==
    /\ pipe[i][s] > 0
    /\ pipe' = [pipe EXCEPT ![i][s] = @ - 1]
    /\ AppendCapped(i, s)
    /\ UNCHANGED <<ready, open, fd, lost>>

(* ... an empty pipe ends the drain: EAGAIN while somebody holds the write    *)
(* end, the end of the file otherwise.                                        *)
ReadEmpty(i, s) ==
    /\ pipe[i][s] = 0
    /\ ready' = ready \ {<<i, s>>}
    /\ IF holds[i][s] = {}
         THEN fd' = [fd EXCEPT ![i] = @ \ {s}] /\ open' = open - 1
         ELSE UNCHANGED <<fd, open>>
    /\ UNCHANGED <<len, trunc, lost, pipe>>

(* A hard error closes the descriptor; what is in the pipe goes with it, and  *)
(* no flag is raised.                                                         *)
ReadFails(i, s) ==
    /\ "read" \in free
    /\ ready' = ready \ {<<i, s>>}
    /\ fd' = [fd EXCEPT ![i] = @ \ {s}] /\ open' = open - 1
    /\ pipe' = [pipe EXCEPT ![i][s] = 0]
    /\ lost' = lost \cup {<<i, s>>}
    /\ UNCHANGED <<len, trunc>>

Drain ==
    /\ pc = "drain" /\ ready # {}
    /\ \E d \in ready : \/ ReadData(d[1], d[2])
                         \/ ReadEmpty(d[1], d[2])
                         \/ ReadFails(d[1], d[2])
    /\ UNCHANGED <<free, pc, next, res, due, procs, holds, written>>

Drained ==
    /\ pc = "drain" /\ ready = {}
    /\ pc' = "check"
    /\ UNCHANGED <<free, next, ready, open, fd, len, trunc, lost, res, due, Program>>

-----------------------------------------------------------------------------
(* The process group the child leads (setpgid in child_exec). *)
Group == {"child", "kin"}

(* Killing the child and leaving its group alone. *)
VictimsChildOnly == {"child"}

(* kill(-pid): whoever is still in the group. *)
Victims == Group

Overdue(i) == Active(i) /\ i \in due /\ ~res[i].timed_out

(* The pass over the deadlines after every poll. *)
Check ==
    /\ pc = "check"
    /\ LET hit == {i \in Cmds : Overdue(i)}
       IN  /\ res' = [i \in Cmds |->
                        IF i \notin hit THEN res[i]
                        ELSE [res[i] EXCEPT
                                !.timed_out = TRUE,
                                !.child = IF @ = "running" THEN "zombie"
                                                           ELSE @]]
           /\ procs' = [i \in Cmds |-> IF i \in hit THEN procs[i] \ Victims
                                                    ELSE procs[i]]
           /\ holds' = [i \in Cmds |-> [s \in Streams |->
                          IF i \in hit THEN holds[i][s] \ Victims
                                       ELSE holds[i][s]]]
    /\ pc' = "poll"
    /\ UNCHANGED <<free, next, ready, open, fd, len, trunc, lost, due, pipe, written>>

(* reap_all: a blocking waitpid for every command that was started. *)
Reap ==
    /\ pc = "reap" /\ next <= N
    /\ \/ /\ res[next].child = "failed"
          /\ UNCHANGED res
       \/ /\ res[next].child = "zombie"
          /\ res' = [res EXCEPT ![next].child = "reaped"]
    /\ next' = next + 1
    /\ UNCHANGED <<free, pc, ready, open, fd, len, trunc, lost, due, Program>>

Return ==
    /\ pc = "reap" /\ next > N
    /\ pc' = "done"
    /\ UNCHANGED <<free, next, ready, open, fd, len, trunc, lost, res, due, Program>>

-----------------------------------------------------------------------------
(* The programs and the clock. A write to a pipe without a reader fails.      *)
ProgramWrites ==
    /\ \E i \in Cmds, s \in Streams :
          /\ holds[i][s] # {} /\ s \in fd[i] /\ pipe[i][s] < PipeCap
          /\ "flood" \in free \/ written[i][s] < MaxWrites
          /\ pipe' = [pipe EXCEPT ![i][s] = @ + 1]
          /\ written' = [written EXCEPT ![i][s] =
                           IF @ < MaxWrites THEN @ + 1 ELSE @]
    /\ UNCHANGED <<Executor, res, due, procs, holds>>

(* A descendant inherits the streams of the child; bound: one at a time. *)
ProgramForks ==
    /\ \E i \in Cmds, q \in {"kin", "stray"} :
          /\ q = "stray" => "stray" \in free
          /\ procs[i] = {"child"}
          /\ procs' = [procs EXCEPT ![i] = @ \cup {q}]
          /\ holds' = [holds EXCEPT ![i] = [s \in Streams |->
                         IF "child" \in @[s] THEN @[s] \cup {q} ELSE @[s]]]
    /\ UNCHANGED <<Executor, res, due, pipe, written>>

ProgramCloses ==
    /\ "close" \in free
    /\ \E i \in Cmds, s \in Streams : \E q \in holds[i][s] :
          holds' = [holds EXCEPT ![i][s] = @ \ {q}]
    /\ UNCHANGED <<Executor, res, due, procs, pipe, written>>

ProgramExits ==
    /\ \E i \in Cmds : \E q \in procs[i] :
          /\ procs' = [procs EXCEPT ![i] = @ \ {q}]
          /\ holds' = [holds EXCEPT ![i] = [s \in Streams |-> @[s] \ {q}]]
          /\ res' = IF q # "child" THEN res
                    ELSE [res EXCEPT ![i].child = "zombie", ![i].exited = TRUE]
    /\ UNCHANGED <<Executor, due, pipe, written>>

DeadlinePasses ==
    /\ \E i \in Cmds :
          /\ res[i].child \notin {"none", "failed"} /\ i \notin due
          /\ due' = due \cup {i}
    /\ UNCHANGED <<Executor, res, Program>>

Run == \/ Spawn \/ SpawnDone \/ Poll \/ PollFails \/ LoopDone \/ Drain \/ Drained
       \/ Check \/ Reap \/ Return

Host == ProgramWrites \/ ProgramForks \/ ProgramCloses \/ ProgramExits

Next == Run \/ Host \/ DeadlinePasses

Spec == Init /\ [][Next]_vars

(* The executor is scheduled and time passes; nothing is assumed of the       *)
(* programs, which may stay silent, hang or run on for ever.                  *)
FairSpec == Spec /\ WF_vars(Run) /\ WF_vars(DeadlinePasses)

-----------------------------------------------------------------------------
(* Properties.                                                                *)

(* Every variable stays in its type, and open_fds is the number of open read  *)
(* ends, which the loop's exit relies on (spg_cmd_executor_run, drain_fd).    *)
TypeOK ==
    /\ pc \in {"spawn", "poll", "drain", "check", "reap", "done"}
    /\ free \in {{}, Liberties}
    /\ next \in 1 .. N + 1
    /\ ready \subseteq Cmds \X Streams
    /\ fd \in [Cmds -> SUBSET Streams]
    /\ open = Cardinality({d \in Cmds \X Streams : d[2] \in fd[d[1]]})
    /\ len \in [Cmds -> [Streams -> 0 .. Room]]
    /\ trunc \in [Cmds -> SUBSET Streams]
    /\ lost \subseteq Cmds \X Streams
    /\ res \in [Cmds -> [child : {"none", "running", "zombie", "reaped",
                                  "failed"},
                         exited : BOOLEAN, timed_out : BOOLEAN]]
    /\ due \subseteq Cmds
    /\ procs \in [Cmds -> SUBSET {"child", "kin", "stray"}]
    /\ \A i \in Cmds, s \in Streams : holds[i][s] \subseteq procs[i]
    /\ pipe \in [Cmds -> [Streams -> 0 .. PipeCap]]
    /\ written \in [Cmds -> [Streams -> 0 .. MaxWrites]]

(* When the batch returns, a buffer holds everything its program wrote, the   *)
(* last words before an exit or a kill included, or as much as fits with the  *)
(* truncation flag set: nothing is lost between poll, drain, the kill and the *)
(* end of the file. Short of that, and then unflagged, is only the output of  *)
(* a stream whose read failed or that a failed poll left open (drain_fd,      *)
(* spg_cmd_executor_run); the flag is never raised for another reason.        *)
CaptureComplete ==
    pc = "done" => \A i \in Cmds, s \in Streams :
        /\ s \in trunc[i] => len[i][s] = Room /\ written[i][s] > Room
        /\ \/ len[i][s] = written[i][s]
           \/ s \in trunc[i]
           \/ <<i, s>> \in lost \/ s \in fd[i]

(* When the batch returns, nothing of a program that was killed for its       *)
(* deadline is left in its process group ("so descendants die with it").      *)
GroupDies ==
    pc = "done" => \A i \in Cmds : res[i].timed_out => procs[i] \cap Group = {}

(* "Per-command timeouts kill stragglers" (cmd_executor.h): with a timeout on *)
(* every command the batch returns although programs and their descendants   *)
(* hang, as long as they keep to their streams and their group.              *)
Returns == (free = {}) ~> (pc = "done")

(* The same without that restriction: device.h, "A device that does not       *)
(* answer must never be able to stall the loop that governs it".              *)
NeverStalls == <>(pc = "done")
=============================================================================
