----------------------------- MODULE PlantLoop ------------------------------
(***************************************************************************)
(* The attached plant and its watchdog: the channel table and the contact   *)
(* bookkeeping of src/device/device.c, the device executor and the watchdog *)
(* service of src/executor/device_executor.c, and the order in which the    *)
(* agent loop (src/run/agent_loop.c), the run (src/run/agent_run.c) and the *)
(* best-of-N driver (src/cli/main.c) call them.                             *)
(*                                                                          *)
(* The channel programs are external: every call of one may fail. The clock *)
(* is the step counter the loop injects; it restarts with every attempt,    *)
(* the contact stamps do not.                                               *)
(***************************************************************************)
EXTENDS Integers, FiniteSets

CONSTANTS
    Channels,         \* names in the channel table
    Writable,         \* channels with a (safe ...) value
    Timeout,          \* watchdog_timeout in steps, 0 = disabled
    MaxSteps,         \* config.max_steps
    Attempts,         \* --best-of
    Unknown           \* a channel name that is not in the table

(* Contact is stamped per channel and once for the device as a whole.       *)
Device == "device"
Slots  == Channels \cup {Device}

ASSUME PlantAssumption ==
    /\ Channels # {} /\ Writable \subseteq Channels
    /\ Device \notin Channels /\ Unknown \notin Slots
    /\ Timeout \in Nat /\ MaxSteps \in Nat \ {0} /\ Attempts \in Nat \ {0}

VARIABLES
    enabled,   \* config.execution_enabled (--allow-exec), fixed
    pc,        \* start, service, tick, observe, final, ended
    now,       \* the injected clock: step + 1
    attempt,   \* the attempt in progress, from 1
    last,      \* last_contact of the device and of every channel
    pending,   \* slots whose contact_pending is set
    tripped,   \* watchdog_tripped
    plant,     \* where each writable channel is: at its safe value or away
               \* from it, as it was found or where a setpoint put it
    deaf,      \* history: channels that failed when the safe state was last
               \* driven
    outcome,   \* outcome of the device executor in this step
    failed,    \* loop_status # SPG_OK
    age        \* history: steps since the last successful transaction

vars == <<enabled, pc, now, attempt, last, pending, tripped, plant, deaf,
          outcome, failed, age>>

Places == {"away", "safe"}

Outcomes == {"none", "written", "unknown_channel", "refused",
             "watchdog_expired", "io_failed", "not_executed"}

(* The table is loaded and the watchdog armed at 0 (spg_device_init,        *)
(* spg_device_arm_watchdog).                                                *)
Init ==
    /\ enabled \in BOOLEAN
    /\ pc = "start"
    /\ now = 1
    /\ attempt = 1
    /\ last = [s \in Slots |-> 0]
    /\ pending = {}
    /\ tripped = FALSE
    /\ plant = [c \in Writable |-> "away"]
    /\ deaf = {}
    /\ outcome = "none"
    /\ failed = FALSE
    /\ age = [s \in Slots |-> 0]

-----------------------------------------------------------------------------
(* A transaction that succeeded on the channels `ok' marks those channels and *)
(* the device; nothing else is fed (spg_device_read, spg_device_write).     *)
Fed(ok) == IF ok = {} THEN {} ELSE ok \cup {Device}

Younger(ages, ok) == [s \in DOMAIN ages |-> IF s \in ok THEN 0 ELSE ages[s]]

(* spg_device_sample: every channel is read, `ok' are the ones whose program *)
(* answered a number within the range.                                      *)
Sample(ok) ==
    /\ pending' = pending \cup Fed(ok)
    /\ age' = Younger(age, Fed(ok))

(* The first half of spg_device_watchdog_check: pending contact is stamped  *)
(* with the time of the check.                                              *)
Stamped == [s \in Slots |-> IF s \in pending THEN now ELSE last[s]]

Overdue(stamp, s) == now >= stamp[s] /\ now - stamp[s] > Timeout

(* A check that only asks for contact with the machine as a whole.          *)
VerdictGlobal(stamp) ==
    IF Timeout = 0                 THEN "disabled"
    ELSE IF Overdue(stamp, Device) THEN "expired"
    ELSE "ok"

(* The second half: a clock that went backwards counts as contact.          *)
Verdict(stamp) ==
    IF Timeout = 0                                     THEN "disabled"
    ELSE IF now < stamp[Device]                        THEN "ok"
    ELSE IF Overdue(stamp, Device)                     THEN "expired"
    ELSE IF \E c \in Writable : Overdue(stamp, c)      THEN "expired"
    ELSE "ok"

(* Where a channel may be after a write of `value' that failed: the program  *)
(* did not run, hung, died or answered with another value, so it may not    *)
(* have moved at all.                                                       *)
AfterFailure(c, value) == {plant[c], value, "away"}

(* A safe state that gives up at the first channel that fails.              *)
SafeStateGivesUp(ok) ==
    /\ IF ok = Writable
         THEN plant' = [c \in Writable |-> "safe"] /\ deaf' = {}
         ELSE \E c \in Writable \ ok : UNCHANGED plant /\ deaf' = deaf \cup {c}
    /\ pending' = Fed({})
    /\ UNCHANGED age

(* spg_device_safe_state: every writable channel is attempted, `ok' obeyed. *)
SafeState(ok) ==
    /\ plant' \in [Writable -> Places]
    /\ \A c \in Writable : plant'[c] \in IF c \in ok THEN {"safe"}
                                         ELSE AfterFailure(c, "safe")
    /\ deaf' = Writable \ ok
    /\ pending' = Fed(ok)
    /\ age' = Younger(age, Fed(ok))

-----------------------------------------------------------------------------
(* spg_device_watchdog_service: OK clears the latch, an expiry drives the   *)
(* safe state unless the latch is set; its journal record is AgentLoop's.   *)
Service ==
    /\ last' = Stamped
    /\ \/ /\ Verdict(Stamped) = "expired" /\ ~tripped
          /\ tripped' = TRUE
          /\ \E ok \in SUBSET Writable : SafeState(ok)
       \/ /\ Verdict(Stamped) = "expired" => tripped
          /\ tripped' = (tripped /\ Verdict(Stamped) # "ok")
          /\ pending' = {}
          /\ UNCHANGED <<plant, deaf, age>>

(* The value of a setpoint is abstracted to whether it is within the range. *)
(* A write that fails feeds nothing; an echo of another value is such a       *)
(* failure (spg_device_write).                                              *)
Write(c, inRange) ==
    \/ /\ c \in Writable /\ inRange
       /\ UNCHANGED deaf
       /\ \/ /\ outcome' = "written"
             /\ plant' = [plant EXCEPT ![c] = "away"]
             /\ pending' = Fed({c})
             /\ age' = Younger(age, Fed({c}))
          \/ /\ outcome' = "io_failed"
             /\ \E place \in AfterFailure(c, "away") :
                   plant' = [plant EXCEPT ![c] = place]
             /\ pending' = {}
             /\ UNCHANGED age
    \/ /\ c \notin Writable \/ ~inRange
       /\ outcome' = "refused"
       /\ pending' = {}
       /\ UNCHANGED <<plant, deaf, age>>

(* The executor that writes first and looks at the watchdog afterwards.     *)
ExecutorStepEager(c, inRange) ==
    /\ c \in Channels /\ enabled
    /\ last' = Stamped
    /\ Write(c, inRange)

(* spg_device_executor_step; without a device it does nothing to the plant. *)
ExecutorStep(c, inRange) ==
    \/ /\ c \notin Channels
       /\ outcome' = "unknown_channel"
       /\ UNCHANGED <<last, pending, plant, deaf, age>>
    \/ /\ c \in Channels
       /\ last' = Stamped
       /\ \/ /\ Verdict(Stamped) = "expired"
             /\ outcome' = "watchdog_expired"
             /\ \E ok \in SUBSET Writable : SafeState(ok)
          \/ /\ Verdict(Stamped) # "expired" /\ ~enabled
             /\ outcome' = "not_executed"
             /\ pending' = {}
             /\ UNCHANGED <<plant, deaf, age>>
          \/ /\ Verdict(Stamped) # "expired" /\ enabled
             /\ Write(c, inRange)

-----------------------------------------------------------------------------
(* One reading before the first tick, so the first decision is not blind.   *)
Start ==
    /\ pc = "start"
    /\ \E ok \in SUBSET Channels : Sample(ok)
    /\ pc' = "service"
    /\ UNCHANGED <<enabled, now, attempt, last, tripped, plant, deaf,
                   outcome, failed>>

(* step < config->max_steps                                                 *)
StepsLeft == now <= MaxSteps

(* The top of the for loop: the watchdog is serviced before every tick.     *)
BeginTick ==
    /\ pc = "service" /\ StepsLeft
    /\ Service
    /\ outcome' = "none"
    /\ pc' = "tick"
    /\ UNCHANGED <<enabled, now, attempt, failed>>

(* A tick that executes an allowed device_write, ...                        *)
DeviceTick ==
    /\ pc = "tick"
    /\ \E c \in Channels \cup {Unknown}, inRange \in BOOLEAN :
          ExecutorStep(c, inRange)
    /\ pc' = "observe"
    /\ UNCHANGED <<enabled, now, attempt, tripped, failed>>

(* ... another allowed action ...                                           *)
OtherTick ==
    /\ pc = "tick"
    /\ pc' = "observe"
    /\ UNCHANGED <<enabled, now, attempt, last, pending, tripped, plant,
                   deaf, outcome, failed, age>>

(* The clock moves on: every silence is one step longer.                    *)
Older(ages) == [s \in DOMAIN ages |-> ages[s] + 1]

Pass ==
    /\ now' = now + 1
    /\ age' = Older(age)

(* ... or no action: a repair, after which the loop goes on without looking *)
(* at the plant, or a finish, a denial or a rejection that ends the run.    *)
IdleTick ==
    /\ pc = "tick"
    /\ Pass
    /\ pc' \in {"service", "final"}
    /\ UNCHANGED <<enabled, attempt, last, pending, tripped, plant, deaf,
                   outcome, failed>>

(* An executed action is followed by a sample of the plant; the convergence *)
(* stop may end the run after it.                                           *)
Observe ==
    /\ pc = "observe"
    /\ \E ok \in SUBSET Channels :
          /\ pending' = pending \cup Fed(ok)
          /\ age' = Older(Younger(age, Fed(ok)))
    /\ now' = now + 1
    /\ pc' \in {"service", "final"}
    /\ UNCHANGED <<enabled, attempt, last, tripped, plant, deaf, outcome, failed>>

(* A tick that returned an error ends the run without the last service; so  *)
(* does a journal that refuses the executor's record after the write.       *)
TickFails ==
    /\ pc \in {"tick", "observe"}
    /\ pc' = "ended"
    /\ failed' = TRUE
    /\ UNCHANGED <<enabled, now, attempt, last, pending, tripped, plant,
                   deaf, outcome, age>>

(* The loop returns at its top: no steps or no budget left.                 *)
LeaveLoop ==
    /\ pc = "service"
    /\ pc' = "final"
    /\ UNCHANGED <<enabled, now, attempt, last, pending, tripped, plant,
                   deaf, outcome, failed, age>>

(* spg_agent_run: one more service at the time the next tick would have had. *)
EndRun ==
    /\ pc = "final"
    /\ Service
    /\ pc' = "ended"
    /\ UNCHANGED <<enabled, now, attempt, outcome, failed>>

(* The best-of-N driver runs the next attempt on the same device: the clock *)
(* starts again at 1 and the watchdog is not armed again.                   *)
NextAttempt ==
    /\ pc = "ended" /\ attempt < Attempts
    /\ attempt' = attempt + 1
    /\ now' = 1
    /\ age' = Older(age)
    /\ pc' = "service"
    /\ failed' = FALSE
    /\ UNCHANGED <<enabled, last, pending, tripped, plant, deaf, outcome>>

Done == pc = "ended" /\ UNCHANGED vars

Next == \/ Start \/ BeginTick \/ DeviceTick \/ OtherTick \/ IdleTick \/ Observe
        \/ TickFails \/ LeaveLoop \/ EndRun \/ NextAttempt \/ Done

Spec == Init /\ [][Next]_vars

-----------------------------------------------------------------------------
(* Properties.                                                              *)

(* Every variable stays in its type (struct spg_device,                     *)
(* struct spg_device_executor_result).                                      *)
TypeOK ==
    /\ enabled \in BOOLEAN
    /\ pc \in {"start", "service", "tick", "observe", "final", "ended"}
    /\ now \in 1 .. MaxSteps + 1
    /\ attempt \in 1 .. Attempts
    /\ last \in [Slots -> 0 .. MaxSteps + 1]
    /\ pending \subseteq Slots
    /\ tripped \in BOOLEAN
    /\ plant \in [Writable -> Places]
    /\ deaf \subseteq Writable
    /\ outcome \in Outcomes
    /\ failed \in BOOLEAN
    /\ age \in [Slots -> Nat]

Armed == Timeout > 0

(* Contact is stamped when it is checked, not when it happens, which makes a *)
(* silence look one step shorter than it is, never more: what the watchdog  *)
(* must notice is a silence of more than Timeout + 1 steps.                 *)
Silent(s) == age[s] > Timeout + 1

(* A setpoint the model chose is only written while every writable channel  *)
(* and the machine as a whole have answered lately: a live sensor, or       *)
(* another actuator, never excuses a dead one (spg_device_executor_step     *)
(* checks first). Of the first attempt: see RetriesNoticeSilence.           *)
SetpointNeedsContact ==
    Armed /\ attempt = 1 /\ pc = "observe" /\ outcome = "written" =>
        \A s \in Writable \cup {Device} : ~Silent(s)

Unnoticed ==
    /\ Armed /\ ~tripped
    /\ pc = "tick" \/ (pc = "ended" /\ ~failed)
    /\ \E s \in Writable \cup {Device} : Silent(s)

(* When a tick of the first attempt is about to run, and when that attempt  *)
(* has ended normally, a silence of the machine or of an actuator has been  *)
(* noticed and the safe state has been driven (spg_device_watchdog_service  *)
(* before every tick and in spg_agent_run).                                 *)
SilenceNoticed == attempt = 1 => ~Unnoticed

(* device_executor.h, without the restriction to the first attempt: "a      *)
(* contact loss is caught even when the model never asks for another        *)
(* device_write (or the run is about to finish)".                           *)
RetriesNoticeSilence == ~Unnoticed

(* The latch means what it says: in the step that sets it every actuator    *)
(* went to its safe value or refused that itself, whatever the others did,  *)
(* and in the first attempt the step that clears it finds nobody silent     *)
(* (spg_device_watchdog_service, spg_device_safe_state).                    *)
LatchHonest ==
    [][/\ ~tripped /\ tripped' =>
             \A c \in Writable : plant'[c] = "safe" \/ c \in deaf'
       /\ tripped /\ ~tripped' /\ attempt = 1 =>
             \A s \in Writable \cup {Device} : ~Silent(s)]_vars

(* README.md, without the actuators that refused: "the watchdog drives the  *)
(* plant there [to the safe values] when contact is lost".                  *)
SafeWhileTripped ==
    [][~tripped /\ tripped' => \A c \in Writable : plant'[c] = "safe"]_vars
=============================================================================
