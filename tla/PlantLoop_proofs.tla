-------------------------- MODULE PlantLoop_proofs --------------------------
(***************************************************************************)
(* Proofs about the loop's surroundings.  First about PlantLoop, for every  *)
(* channel table, every timeout, every number of steps and every number of  *)
(* attempts.  Then about the two components that stand between the world    *)
(* and the decision of a tick: Observe, what a snapshot, a window of        *)
(* snapshots, a context and a verdict show of the machine, and              *)
(* ModelAdapter, the prompt the engine decodes from.                        *)
(***************************************************************************)
EXTENDS PlantLoop, Observe, ModelAdapter, SequenceTheorems, FiniteSetTheorems,
        TLAPS

(* What the types need to be inductive: inside a step the clock is within   *)
(* max_steps, and a tick begins without an outcome of the executor.         *)
Phase ==
    /\ pc \in {"tick", "observe"} => now <= MaxSteps
    /\ pc = "tick" => outcome = "none"

(* Contact that is pending is this step's, or the last one's once the clock *)
(* has moved on and no check has stamped it yet.                            *)
Lag == IF pc \in {"service", "final"} THEN 1 ELSE 0

(* How the stamps relate to the silences they stand for: a stamp is never   *)
(* ahead of the clock, and makes a silence look at most one step shorter.   *)
Contact ==
    \A s \in Slots :
        /\ last[s] <= now
        /\ age[s] <= now - last[s] + 1
        /\ s \in pending => age[s] <= Lag

(* The clock of a later attempt starts again below the stamps, so that all  *)
(* this is said of the first one.                                           *)
FirstContact == attempt = 1 => Contact

-----------------------------------------------------------------------------
(* Facts about the helpers.                                                 *)

(* Only slots are fed, and by this step's transaction. *)
LEMMA FedSlots ==
    ASSUME NEW ok \in SUBSET Channels
    PROVE  Fed(ok) \subseteq Slots
BY DEF Fed, Slots

(* A transaction makes the slots it feeds young (spg_device_read).          *)
LEMMA YoungerType ==
    ASSUME NEW ages \in [Slots -> Nat], NEW ok
    PROVE  /\ Younger(ages, ok) \in [Slots -> Nat]
           /\ \A s \in Slots : /\ Younger(ages, ok)[s] <= ages[s]
                               /\ s \in ok => Younger(ages, ok)[s] = 0
BY DEF Younger

(* A step without contact makes every silence one step longer.              *)
LEMMA OlderType ==
    ASSUME NEW ages \in [Slots -> Nat]
    PROVE  /\ Older(ages) \in [Slots -> Nat]
           /\ \A s \in Slots : Older(ages)[s] = ages[s] + 1
BY DEF Older

(* The stamps of the watchdog after a step: now for what was in contact,    *)
(* and as they were for the rest (spg_device_watchdog_check).               *)
LEMMA StampedType ==
    ASSUME TypeOK
    PROVE  /\ Stamped \in [Slots -> 0 .. MaxSteps + 1]
           /\ \A s \in Slots : Stamped[s] = IF s \in pending THEN now
                                            ELSE last[s]
BY PlantAssumption DEF Stamped, TypeOK

(* A check that answers "ok" finds nobody silent: neither the machine nor   *)
(* one of the actuators (spg_device_watchdog_check).                        *)
LEMMA OkHearsEveryone ==
    ASSUME TypeOK, Contact, Armed, Verdict(Stamped) # "expired"
    PROVE  \A s \in Writable \cup {Device} : ~Silent(s)
<1>. SUFFICES ASSUME NEW s \in Writable \cup {Device}
              PROVE  age[s] <= Timeout + 1
  BY PlantAssumption DEF Silent, TypeOK, Slots
<1>1. s \in Slots /\ Device \in Slots
  BY PlantAssumption DEF Slots
<1>2. \A r \in Slots : Stamped[r] <= now /\ Stamped[r] \in Nat
  BY StampedType, PlantAssumption DEF TypeOK, Contact
<1>3. age[s] <= now - Stamped[s] + 1
  BY <1>1, StampedType, PlantAssumption DEF TypeOK, Contact, Lag
<1>4. now \in Nat /\ Timeout \in Nat /\ Timeout # 0 /\ age[s] \in Nat
  BY <1>1, PlantAssumption DEF TypeOK, Armed
<1>5. ~(now < Stamped[Device])
  BY <1>1, <1>2, <1>4
<1>6. ~Overdue(Stamped, Device) /\ \A c \in Writable : ~Overdue(Stamped, c)
  BY <1>4, <1>5 DEF Verdict
<1>7. ~Overdue(Stamped, s)
  BY <1>6
<1>. QED
  BY <1>1, <1>2, <1>3, <1>4, <1>7 DEF Overdue

-----------------------------------------------------------------------------
(* What the shared steps of the actions do to the variables of the plant.   *)

(* Every contact that is pending was made now. *)
MadeNow == \A s \in pending' : age'[s] = 0

(* The variables of the plant have their types after the step.              *)
PlantTyped ==
    /\ last' \in [Slots -> 0 .. MaxSteps + 1]
    /\ pending' \subseteq Slots
    /\ plant' \in [Writable -> Places]
    /\ deaf' \subseteq Writable
    /\ age' \in [Slots -> Nat]

(* No silence grew.                                                         *)
NotOlder == \A s \in Slots : age'[s] <= age[s]

(* Driving the writable channels to their safe state feeds those that obey, *)
(* and leaves none away from it but those that refused                      *)
(* (spg_device_safe_state).                                                 *)
LEMMA SafeStateStep ==
    ASSUME TypeOK, NEW ok \in SUBSET Writable, SafeState(ok)
    PROVE  /\ pending' \subseteq Slots /\ plant' \in [Writable -> Places]
           /\ deaf' \subseteq Writable
           /\ age' \in [Slots -> Nat] /\ MadeNow /\ NotOlder
           /\ \A c \in Writable : plant'[c] = "safe" \/ c \in deaf'
<1>1. ok \in SUBSET Channels /\ age \in [Slots -> Nat]
  BY PlantAssumption DEF TypeOK
<1>2. pending' = Fed(ok) /\ age' = Younger(age, Fed(ok))
  BY DEF SafeState
<1>3. pending' \subseteq Slots
  BY <1>1, <1>2, FedSlots
<1>4. /\ age' \in [Slots -> Nat] /\ NotOlder
      /\ \A s \in pending' : age'[s] = 0
  BY <1>1, <1>2, <1>3, YoungerType DEF NotOlder
<1>5. /\ plant' \in [Writable -> Places] /\ deaf' = Writable \ ok
      /\ \A c \in Writable : c \in ok => plant'[c] = "safe"
  BY DEF SafeState
<1>. QED
  BY <1>3, <1>4, <1>5 DEF MadeNow

(* A transaction that failed before the first channel feeds nothing.        *)
LEMMA QuietStep ==
    ASSUME TypeOK, pending' = {}, UNCHANGED age
    PROVE  /\ pending' \subseteq Slots /\ age' \in [Slots -> Nat]
           /\ MadeNow /\ NotOlder
BY DEF TypeOK, MadeNow, NotOlder

(* A service stamps what was pending, and clears the latch only when it     *)
(* finds the watchdog alive (spg_device_watchdog_service).                  *)
LEMMA ServiceStep ==
    ASSUME TypeOK, Service
    PROVE  /\ PlantTyped /\ MadeNow /\ NotOlder /\ last' = Stamped
           /\ tripped' \in BOOLEAN
           /\ ~tripped' => Verdict(Stamped) # "expired"
           /\ tripped /\ ~tripped' => Verdict(Stamped) = "ok"
           /\ ~tripped /\ tripped' =>
                  \A c \in Writable : plant'[c] = "safe" \/ c \in deaf'
<1>1. last' = Stamped /\ last' \in [Slots -> 0 .. MaxSteps + 1]
  BY StampedType DEF Service
<1>2. CASE /\ Verdict(Stamped) = "expired" /\ ~tripped
           /\ tripped' = TRUE
           /\ \E ok \in SUBSET Writable : SafeState(ok)
  BY <1>1, <1>2, SafeStateStep DEF PlantTyped
<1>3. CASE /\ Verdict(Stamped) = "expired" => tripped
           /\ tripped' = (tripped /\ Verdict(Stamped) # "ok")
           /\ pending' = {}
           /\ UNCHANGED <<plant, deaf, age>>
  <2>1. /\ pending' \subseteq Slots /\ age' \in [Slots -> Nat]
        /\ MadeNow /\ NotOlder
    BY <1>3, QuietStep
  <2>2. plant' \in [Writable -> Places] /\ deaf' \subseteq Writable
    BY <1>3 DEF TypeOK
  <2>3. tripped \in BOOLEAN
    BY DEF TypeOK
  <2>. QED
    BY <1>1, <1>3, <2>1, <2>2, <2>3 DEF PlantTyped
<1>. QED
  BY <1>2, <1>3 DEF Service

(* A write is obeyed, refused or fails; only the first feeds the watchdog.  *)
LEMMA WriteStep ==
    ASSUME TypeOK, NEW c, NEW inRange \in BOOLEAN, Write(c, inRange)
    PROVE  /\ pending' \subseteq Slots /\ plant' \in [Writable -> Places]
           /\ deaf' \subseteq Writable
           /\ age' \in [Slots -> Nat] /\ MadeNow /\ NotOlder
           /\ outcome' \in {"written", "io_failed", "refused"}
<1>1. CASE /\ c \in Writable
           /\ outcome' = "written"
           /\ plant' = [plant EXCEPT ![c] = "away"] /\ deaf' = deaf
           /\ pending' = Fed({c})
           /\ age' = Younger(age, Fed({c}))
  <2>1. {c} \in SUBSET Channels
    BY <1>1, PlantAssumption
  <2>2. pending' \subseteq Slots
    BY <1>1, <2>1, FedSlots
  <2>3. age \in [Slots -> Nat]
    BY DEF TypeOK
  <2>4. /\ age' \in [Slots -> Nat] /\ NotOlder
        /\ \A s \in pending' : age'[s] = 0
    BY <1>1, <2>2, <2>3, YoungerType DEF NotOlder
  <2>5. plant' \in [Writable -> Places] /\ deaf' \subseteq Writable
    BY <1>1 DEF TypeOK, Places
  <2>. QED
    BY <1>1, <2>2, <2>4, <2>5 DEF MadeNow
<1>2. CASE /\ outcome' \in {"io_failed", "refused"}
           /\ \/ plant' = plant
              \/ c \in Writable /\ \E place \in AfterFailure(c, "away") :
                    plant' = [plant EXCEPT ![c] = place]
           /\ deaf' = deaf
           /\ pending' = {}
           /\ UNCHANGED age
  <2>1. plant' \in [Writable -> Places] /\ deaf' \subseteq Writable
    BY <1>2 DEF TypeOK, Places, AfterFailure
  <2>. QED
    BY <1>2, <2>1, QuietStep
<1>. QED
  BY <1>1, <1>2 DEF Write

(* The executor asks the watchdog before it writes                          *)
(* (spg_device_executor_step).                                              *)
LEMMA ExecutorStepStep ==
    ASSUME TypeOK, NEW c, NEW inRange \in BOOLEAN, ExecutorStep(c, inRange)
    PROVE  /\ PlantTyped /\ NotOlder
           /\ \/ MadeNow /\ last' = Stamped
              \/ UNCHANGED <<last, pending, age>>
           /\ outcome' \in Outcomes
           /\ outcome' = "written" => Verdict(Stamped) # "expired"
<1>1. CASE /\ outcome' = "unknown_channel"
           /\ UNCHANGED <<last, pending, plant, deaf, age>>
  BY <1>1 DEF PlantTyped, NotOlder, TypeOK, Outcomes
<1>2. CASE /\ last' = Stamped
           /\ Verdict(Stamped) = "expired"
           /\ outcome' = "watchdog_expired"
           /\ \E ok \in SUBSET Writable : SafeState(ok)
  BY <1>2, SafeStateStep, StampedType DEF PlantTyped, Outcomes
<1>3. CASE /\ last' = Stamped
           /\ outcome' = "not_executed"
           /\ pending' = {}
           /\ UNCHANGED <<plant, deaf, age>>
  <2>1. plant' \in [Writable -> Places] /\ deaf' \subseteq Writable
    BY <1>3 DEF TypeOK
  <2>. QED
    BY <1>3, <2>1, QuietStep, StampedType DEF PlantTyped, Outcomes
<1>4. CASE /\ last' = Stamped
           /\ Verdict(Stamped) # "expired"
           /\ Write(c, inRange)
  BY <1>4, WriteStep, StampedType DEF PlantTyped, Outcomes
<1>. QED
  BY <1>1, <1>2, <1>3, <1>4 DEF ExecutorStep

-----------------------------------------------------------------------------
(* Type correctness of a step, with the phase of the loop. *)
LEMMA TypeInit == Init => TypeOK /\ Phase /\ FirstContact
<1>. SUFFICES ASSUME Init PROVE TypeOK /\ Phase /\ FirstContact
  OBVIOUS
<1>1. TypeOK /\ Phase
  <2>1. /\ 0 \in 0 .. MaxSteps + 1 /\ 0 \in Nat
        /\ 1 \in 1 .. MaxSteps + 1 /\ 1 \in 1 .. Attempts
    BY PlantAssumption
  <2>2. /\ last \in [Slots -> 0 .. MaxSteps + 1] /\ age \in [Slots -> Nat]
        /\ plant \in [Writable -> Places] /\ deaf \subseteq Writable
    BY <2>1 DEF Init, Places
  <2>. QED
    BY <2>1, <2>2 DEF Init, TypeOK, Phase, Outcomes
<1>. QED
  BY <1>1 DEF Init, FirstContact, Contact, Lag

(* Every step keeps the types, and what the phase says of the clock.        *)
LEMMA TypeNext == TypeOK /\ Phase /\ [Next]_vars => TypeOK' /\ Phase'
<1>. SUFFICES ASSUME TypeOK, Phase, [Next]_vars PROVE TypeOK' /\ Phase'
  OBVIOUS
<1>0. CASE UNCHANGED vars
  BY <1>0 DEF TypeOK, Phase, vars
<1>1. CASE Start
  <2>1. PICK ok \in SUBSET Channels : Sample(ok)
    BY <1>1 DEF Start
  <2>2. pending' \subseteq Slots /\ age' \in [Slots -> Nat]
    BY <2>1, FedSlots, YoungerType DEF Sample, TypeOK
  <2>. QED
    BY <1>1, <2>2 DEF Start, TypeOK, Phase
<1>2. CASE BeginTick
  <2>1. PlantTyped /\ tripped' \in BOOLEAN
    BY <1>2, ServiceStep DEF BeginTick
  <2>. QED
    BY <1>2, <2>1 DEF BeginTick, StepsLeft, TypeOK, Phase, PlantTyped, Outcomes
<1>3. CASE DeviceTick
  <2>1. PlantTyped /\ outcome' \in Outcomes
    BY <1>3, ExecutorStepStep DEF DeviceTick
  <2>. QED
    BY <1>3, <2>1 DEF DeviceTick, TypeOK, Phase, PlantTyped
<1>4. CASE OtherTick \/ TickFails \/ LeaveLoop
  BY <1>4 DEF OtherTick, TickFails, LeaveLoop, TypeOK, Phase
<1>5. CASE IdleTick
  <2>1. age' \in [Slots -> Nat]
    BY <1>5, OlderType DEF IdleTick, Pass, TypeOK
  <2>. QED
    BY <1>5, <2>1, PlantAssumption DEF IdleTick, Pass, TypeOK, Phase
<1>6. CASE Observe
  <2>1. PICK ok \in SUBSET Channels :
            /\ pending' = pending \cup Fed(ok)
            /\ age' = Older(Younger(age, Fed(ok)))
    BY <1>6 DEF Observe
  <2>2. pending' \subseteq Slots
    BY <2>1, FedSlots DEF TypeOK
  <2>3. age' \in [Slots -> Nat]
    BY <2>1, YoungerType, OlderType DEF TypeOK
  <2>. QED
    BY <1>6, <2>2, <2>3, PlantAssumption DEF Observe, TypeOK, Phase
<1>7. CASE EndRun
  <2>1. PlantTyped /\ tripped' \in BOOLEAN
    BY <1>7, ServiceStep DEF EndRun
  <2>. QED
    BY <1>7, <2>1 DEF EndRun, TypeOK, Phase, PlantTyped
<1>8. CASE NextAttempt
  <2>1. age' \in [Slots -> Nat]
    BY <1>8, OlderType DEF NextAttempt, TypeOK
  <2>2. now' \in 1 .. MaxSteps + 1 /\ attempt' \in 1 .. Attempts
    BY <1>8, PlantAssumption DEF NextAttempt, TypeOK
  <2>. QED
    BY <1>8, <2>1, <2>2 DEF NextAttempt, TypeOK, Phase
<1>9. CASE Done
  BY <1>9 DEF Done, TypeOK, Phase, vars
<1>. QED
  BY <1>0, <1>1, <1>2, <1>3, <1>4, <1>5, <1>6, <1>7, <1>8, <1>9 DEF Next

(* A step that stamps all that was pending, lets nobody grow older and feeds *)
(* only now leaves the stamps honest.                                        *)
LEMMA StampKeepsContact ==
    ASSUME TypeOK, Contact, last' = Stamped, MadeNow, NotOlder, now' = now,
           age' \in [Slots -> Nat], pending' \subseteq Slots
    PROVE  Contact'
<1>. SUFFICES ASSUME NEW s \in Slots
              PROVE  /\ last'[s] <= now
                     /\ age'[s] <= now - last'[s] + 1
                     /\ s \in pending' => age'[s] <= Lag'
  BY DEF Contact
<1>1. /\ last'[s] = IF s \in pending THEN now ELSE last[s]
      /\ now \in Nat /\ last[s] \in Nat /\ age[s] \in Nat /\ age'[s] \in Nat
  BY StampedType, PlantAssumption DEF TypeOK
<1>2. /\ last[s] <= now /\ age[s] <= now - last[s] + 1
      /\ s \in pending => age[s] <= 1
      /\ age'[s] <= age[s]
  <2>1. Lag \in {0, 1}
    BY DEF Lag
  <2>. QED
    BY <1>1, <2>1 DEF Contact, NotOlder
<1>3. s \in pending' => age'[s] <= Lag'
  BY <1>1 DEF MadeNow, Lag
<1>. QED
  BY <1>1, <1>2, <1>3

(* Every step of the first attempt keeps the stamps honest.                 *)
LEMMA ContactNext ==
    TypeOK /\ Phase /\ FirstContact /\ [Next]_vars => FirstContact'
<1>. SUFFICES ASSUME TypeOK, Phase, FirstContact, [Next]_vars, attempt' = 1
              PROVE  Contact'
  BY DEF FirstContact
<1>a. attempt = 1
  BY DEF vars, Next, Start, BeginTick, DeviceTick, OtherTick, IdleTick, Observe,
         TickFails, LeaveLoop, EndRun, NextAttempt, Done, TypeOK
<1>b. Contact
  BY <1>a DEF FirstContact
<1>c. /\ now \in Nat /\ age \in [Slots -> Nat] /\ pending \subseteq Slots
      /\ \A s \in Slots : last[s] \in Nat
  BY PlantAssumption DEF TypeOK
<1>0. CASE UNCHANGED vars
  BY <1>b, <1>0 DEF vars, Contact, Lag
<1>1. CASE Start
  <2>1. PICK ok \in SUBSET Channels : Sample(ok)
    BY <1>1 DEF Start
  <2>2. /\ \A s \in Slots : age'[s] \in Nat /\ age'[s] <= age[s]
        /\ \A s \in Fed(ok) \cap Slots : age'[s] = 0
    BY <1>c, <2>1, YoungerType DEF Sample
  <2>3. pending' = pending \cup Fed(ok) /\ now' = now /\ last' = last
        /\ pc = "start" /\ pc' = "service"
    BY <1>1, <2>1 DEF Start, Sample
  <2>. QED
    BY <1>b, <1>c, <2>2, <2>3 DEF Contact, Lag
<1>2. CASE BeginTick
  <2>1. PlantTyped /\ MadeNow /\ NotOlder /\ last' = Stamped /\ now' = now
    BY <1>2, ServiceStep DEF BeginTick
  <2>. QED
    BY <1>b, <2>1, StampKeepsContact DEF PlantTyped
<1>3. CASE DeviceTick
  <2>1. /\ PlantTyped /\ NotOlder /\ now' = now
        /\ \/ MadeNow /\ last' = Stamped
           \/ UNCHANGED <<last, pending, age>>
    BY <1>3, ExecutorStepStep DEF DeviceTick
  <2>2. CASE MadeNow /\ last' = Stamped
    BY <1>b, <2>1, <2>2, StampKeepsContact DEF PlantTyped
  <2>3. CASE UNCHANGED <<last, pending, age>>
    BY <1>b, <1>3, <2>1, <2>3 DEF DeviceTick, Contact, Lag
  <2>. QED
    BY <2>1, <2>2, <2>3
<1>4. CASE OtherTick \/ TickFails \/ LeaveLoop
  BY <1>b, <1>4 DEF OtherTick, TickFails, LeaveLoop, Contact, Lag
<1>5. CASE IdleTick
  <2>1. \A s \in Slots : age'[s] = age[s] + 1
    BY <1>c, <1>5, OlderType DEF IdleTick, Pass
  <2>2. now' = now + 1 /\ last' = last /\ pending' = pending /\ pc = "tick"
        /\ pc' \in {"service", "final"}
    BY <1>5 DEF IdleTick, Pass
  <2>. QED
    BY <1>b, <1>c, <2>1, <2>2 DEF Contact, Lag
<1>6. CASE Observe
  <2>1. PICK ok \in SUBSET Channels :
            /\ pending' = pending \cup Fed(ok)
            /\ age' = Older(Younger(age, Fed(ok)))
    BY <1>6 DEF Observe
  <2>. DEFINE young == Younger(age, Fed(ok))
  <2>2. /\ young \in [Slots -> Nat]
        /\ \A s \in Slots : /\ young[s] <= age[s]
                            /\ s \in Fed(ok) => young[s] = 0
    BY <1>c, YoungerType
  <2>3. age' = Older(young)
    BY <2>1
  <2>. HIDE DEF young
  <2>4. \A s \in Slots : age'[s] = young[s] + 1
    BY <2>2, <2>3, OlderType
  <2>5. now' = now + 1 /\ last' = last /\ pc = "observe"
        /\ pc' \in {"service", "final"}
    BY <1>6 DEF Observe
  <2>. QED
    BY <1>b, <1>c, <2>1, <2>2, <2>4, <2>5 DEF Contact, Lag
<1>7. CASE EndRun
  <2>1. PlantTyped /\ MadeNow /\ NotOlder /\ last' = Stamped /\ now' = now
    BY <1>7, ServiceStep DEF EndRun
  <2>. QED
    BY <1>b, <2>1, StampKeepsContact DEF PlantTyped
<1>8. CASE NextAttempt
  BY <1>a, <1>8 DEF NextAttempt
<1>9. CASE Done
  BY <1>b, <1>9 DEF Done, vars, Contact, Lag
<1>. QED
  BY <1>0, <1>1, <1>2, <1>3, <1>4, <1>5, <1>6, <1>7, <1>8, <1>9 DEF Next

-----------------------------------------------------------------------------
(* The inductive invariant of the theorems. *)
IInv == TypeOK /\ Phase /\ FirstContact

(* The invariant holds in every reachable state.                            *)
LEMMA IInvHolds == Spec => []IInv
<1>1. Init => IInv
  BY TypeInit DEF IInv
<1>2. IInv /\ [Next]_vars => IInv'
  BY TypeNext, ContactNext DEF IInv
<1>. QED
  BY <1>1, <1>2, PTL DEF Spec

(* The variables of the plant loop stay in their types (struct spg_device,   *)
(* struct spg_device_executor_result).                                       *)
THEOREM TypeCorrect == Spec => []TypeOK
<1>1. IInv => TypeOK
  BY DEF IInv
<1>. QED
  BY <1>1, IInvHolds, PTL

(* A setpoint is only written while the machine and every actuator have      *)
(* answered within the timeout (spg_device_executor_step looks at the        *)
(* watchdog before it writes; what happened after the last check is at most  *)
(* one step old).                                                            *)
THEOREM SetpointSafe == Spec => []SetpointNeedsContact
<1>1. Init => SetpointNeedsContact
  BY DEF Init, SetpointNeedsContact
<1>2. IInv /\ SetpointNeedsContact /\ [Next]_vars => SetpointNeedsContact'
  <2>. SUFFICES ASSUME IInv, SetpointNeedsContact, [Next]_vars,
                       Armed, attempt' = 1, pc' = "observe",
                       outcome' = "written"
                PROVE  \A s \in Writable \cup {Device} : ~Silent(s)'
    BY DEF SetpointNeedsContact, Armed
  <2>1. CASE UNCHANGED vars \/ Done
    BY <2>1 DEF vars, Done, SetpointNeedsContact, Silent
  <2>2. CASE DeviceTick
    <3>1. NotOlder /\ PlantTyped /\ Verdict(Stamped) # "expired"
      BY <2>2, ExecutorStepStep DEF DeviceTick, IInv
    <3>2. TypeOK /\ Contact
      BY <2>2 DEF IInv, FirstContact, DeviceTick
    <3>3. \A s \in Writable \cup {Device} : ~Silent(s)
      BY <3>1, <3>2, OkHearsEveryone
    <3>4. \A s \in Slots : age'[s] \in Nat /\ age[s] \in Nat
                            /\ age'[s] <= age[s]
      BY <3>1, <3>2 DEF TypeOK, PlantTyped, NotOlder
    <3>5. Writable \cup {Device} \subseteq Slots /\ Timeout \in Nat
      BY PlantAssumption DEF Slots
    <3>. QED
      BY <3>3, <3>4, <3>5 DEF Silent
  <2>3. CASE OtherTick
    BY <2>3 DEF OtherTick, IInv, Phase
  <2>4. ~(Start \/ BeginTick \/ IdleTick \/ Observe \/ TickFails
          \/ LeaveLoop \/ EndRun \/ NextAttempt)
    BY DEF Start, BeginTick, IdleTick, Observe, TickFails, LeaveLoop, EndRun,
           NextAttempt
  <2>. QED
    BY <2>1, <2>2, <2>3, <2>4 DEF Next
<1>. QED
  BY <1>1, <1>2, IInvHolds, PTL DEF Spec

(* A service after which the latch is clear has found nobody silent. *)
LEMMA ServiceHears ==
    ASSUME IInv, Service, Armed, attempt = 1, ~tripped'
    PROVE  \A s \in Writable \cup {Device} : ~Silent(s) /\ ~Silent(s)'
<1>1. TypeOK /\ Contact
  BY DEF IInv, FirstContact
<1>2. PlantTyped /\ NotOlder /\ Verdict(Stamped) # "expired"
  BY <1>1, ServiceStep
<1>3. \A s \in Writable \cup {Device} : ~Silent(s)
  BY <1>1, <1>2, OkHearsEveryone
<1>4. \A s \in Slots : age'[s] \in Nat /\ age[s] \in Nat
                        /\ age'[s] <= age[s]
  BY <1>1, <1>2 DEF TypeOK, PlantTyped, NotOlder
<1>5. Writable \cup {Device} \subseteq Slots /\ Timeout \in Nat
  BY PlantAssumption DEF Slots
<1>. QED
  BY <1>3, <1>4, <1>5 DEF Silent

(* No tick of the first attempt runs, and the attempt does not end, with a   *)
(* silence the watchdog has not answered (spg_device_watchdog_service before *)
(* every tick and in spg_agent_run).                                         *)
THEOREM SilenceIsNoticed == Spec => []SilenceNoticed
<1>1. Init => SilenceNoticed
  BY DEF Init, SilenceNoticed, Unnoticed
<1>2. IInv /\ SilenceNoticed /\ [Next]_vars => SilenceNoticed'
  <2>. SUFFICES ASSUME IInv, SilenceNoticed, [Next]_vars,
                       attempt' = 1, Armed, ~tripped',
                       pc' = "tick" \/ (pc' = "ended" /\ ~failed')
                PROVE  \A s \in Writable \cup {Device} : ~Silent(s)'
    BY DEF SilenceNoticed, Unnoticed, Armed
  <2>1. CASE UNCHANGED vars \/ Done
    BY <2>1 DEF vars, Done, SilenceNoticed, Unnoticed, Silent
  <2>2. CASE BeginTick \/ EndRun
    BY <2>2, ServiceHears DEF BeginTick, EndRun
  <2>3. ~(Start \/ DeviceTick \/ OtherTick \/ IdleTick \/ Observe \/ TickFails
          \/ LeaveLoop \/ NextAttempt)
    BY DEF Start, DeviceTick, OtherTick, IdleTick, Observe, TickFails,
           LeaveLoop, NextAttempt
  <2>. QED
    BY <2>1, <2>2, <2>3 DEF Next
<1>. QED
  BY <1>1, <1>2, IInvHolds, PTL DEF Spec

(* The latch is only set by a service after which every actuator is at its   *)
(* safe value or has failed to go there itself, and in the first attempt     *)
(* only cleared when nobody is silent (spg_device_watchdog_service,          *)
(* spg_device_safe_state).                                                   *)
THEOREM LatchIsHonest == Spec => LatchHonest
<1>. DEFINE Honest ==
        /\ ~tripped /\ tripped' =>
             \A c \in Writable : plant'[c] = "safe" \/ c \in deaf'
        /\ tripped /\ ~tripped' /\ attempt = 1 =>
             \A s \in Writable \cup {Device} : ~Silent(s)
<1>1. IInv /\ [Next]_vars => [Honest]_vars
  <2>. SUFFICES ASSUME IInv, Next PROVE Honest
    OBVIOUS
  <2>1. CASE BeginTick \/ EndRun
    <3>1. Service /\ TypeOK
      BY <2>1 DEF BeginTick, EndRun, IInv
    <3>2. /\ ~tripped /\ tripped' =>
                \A c \in Writable : plant'[c] = "safe" \/ c \in deaf'
          /\ tripped /\ ~tripped' => Verdict(Stamped) = "ok"
      BY <3>1, ServiceStep
    <3>3. Verdict(Stamped) = "ok" => Armed
      BY PlantAssumption DEF Verdict, Armed
    <3>. QED
      BY <3>1, <3>2, <3>3, ServiceHears
  <2>2. CASE \/ Start \/ DeviceTick \/ OtherTick \/ IdleTick \/ Observe
             \/ TickFails \/ LeaveLoop \/ NextAttempt \/ Done
    BY <2>2 DEF Start, DeviceTick, OtherTick, IdleTick, Observe, TickFails,
                LeaveLoop, NextAttempt, Done, vars
  <2>. QED
    BY <2>1, <2>2 DEF Next
<1>2. (Spec => [][Honest]_vars) <=> (Spec => LatchHonest)
  BY DEF LatchHonest
<1>. QED
  BY <1>1, <1>2, IInvHolds, PTL DEF Spec

-----------------------------------------------------------------------------
(***************************************************************************)
(* The window of machine snapshots (Observe).  With arithmetic on the       *)
(* remainders that place a snapshot in the ring.                            *)
(***************************************************************************)
(* What a remainder is. *)
LEMMA Remainder ==
    ASSUME NEW a \in Int, NEW w \in Nat \ {0}
    PROVE  /\ a % w \in 0 .. w - 1
           /\ a \div w \in Int
           /\ a = w * (a \div w) + (a % w)
BY SMTT(30)

(* There is only one. *)
LEMMA OneRemainder ==
    ASSUME NEW w \in Nat \ {0}, NEW q \in Int, NEW p \in Int,
           NEW r \in 0 .. w - 1, NEW s \in 0 .. w - 1, w * q + r = w * p + s
    PROVE  r = s
BY SMTT(30)

(* Before the ring wraps, a slot has the number of its entry. *)
LEMMA Small ==
    ASSUME NEW a \in Nat, NEW w \in Nat \ {0}, a < w
    PROVE  a % w = a
BY SMTT(30)

(* Entries closer than w are in different slots. *)
LEMMA Apart ==
    ASSUME NEW a \in Nat, NEW b \in Nat, NEW w \in Nat \ {0}, a < b, b < a + w
    PROVE  a % w # b % w
<1>. SUFFICES ASSUME a % w = b % w PROVE FALSE
  OBVIOUS
<1>. DEFINE q == a \div w
            p == b \div w
            r == a % w
<1>1. q \in Int /\ p \in Int /\ r \in Int /\ a = w * q + r /\ b = w * p + r
  BY Remainder
<1>. HIDE DEF q, p, r
<1>2. CASE p <= q
  <2>1. w * p <= w * q
    BY <1>1, <1>2, SMTT(30)
  <2>. QED
    BY <1>1, <2>1
<1>3. CASE p >= q + 1
  <2>1. w * p >= w * q + w
    BY <1>1, <1>3, SMTT(30)
  <2>. QED
    BY <1>1, <2>1
<1>. QED
  BY <1>1, <1>2, <1>3

(* Whole turns of the ring do not matter. *)
LEMMA Shifted ==
    ASSUME NEW a \in Nat, NEW w \in Nat \ {0}, NEW j \in Int, NEW k \in Int
    PROVE  ((a % w) + j) % w = (a + w * k + j) % w
<1>. DEFINE q == a \div w
            r == a % w
            p == (r + j) \div w
            s == (r + j) % w
            b == a + w * k + j
            u == b \div w
            v == b % w
<1>1. q \in Int /\ r \in Int /\ a = w * q + r
  BY Remainder
<1>. HIDE DEF q, r
<1>2. p \in Int /\ s \in 0 .. w - 1 /\ r + j = w * p + s
  BY <1>1, Remainder
<1>. HIDE DEF p, s
<1>3. b \in Int
  OBVIOUS
<1>4. b = w * (q + k + p) + s
  BY <1>1, <1>2, SMTT(30) DEF b
<1>. HIDE DEF b
<1>5. u \in Int /\ v \in 0 .. w - 1 /\ b = w * u + v
  BY <1>3, Remainder
<1>. HIDE DEF u, v
<1>6. q + k + p \in Int
  BY <1>1, <1>2
<1>7. s = v
  BY <1>2, <1>4, <1>5, <1>6, OneRemainder
<1>. QED
  BY <1>7 DEF s, v, b, r

(* How the head moves. *)
LEMMA ShiftedOne ==
    ASSUME NEW a \in Nat, NEW w \in Nat \ {0}
    PROVE  (a + 1) % w = ((a % w) + 1) % w
<1>1. ((a % w) + 1) % w = (a + w * 0 + 1) % w
  <2>. DEFINE j == 1
              k == 0
  <2>1. j \in Int /\ k \in Int
    OBVIOUS
  <2>. HIDE DEF j, k
  <2>2. ((a % w) + j) % w = (a + w * k + j) % w
    BY <2>1, Shifted
  <2>. QED
    BY <2>2 DEF j, k
<1>2. a + w * 0 + 1 = a + 1
  OBVIOUS
<1>. QED
  BY <1>1, <1>2

(* How a full ring is read. *)
LEMMA ShiftedBack ==
    ASSUME NEW a \in Nat, NEW w \in Nat \ {0}, NEW j \in Int
    PROVE  ((a % w) + j) % w = (a - w + j) % w
<1>1. ((a % w) + j) % w = (a + w * (-1) + j) % w
  <2>. DEFINE k == -1
  <2>1. k \in Int
    OBVIOUS
  <2>. HIDE DEF k
  <2>2. ((a % w) + j) % w = (a + w * k + j) % w
    BY <2>1, Shifted
  <2>. QED
    BY <2>2 DEF k
<1>2. a + w * (-1) + j = a - w + j
  OBVIOUS
<1>. QED
  BY <1>1, <1>2

(* What the ring h of w slots holds of the snapshots s of the steps so far: *)
(* the last n of them, each in the slot its number gives it.                *)
Ring(h, s, w) ==
    /\ h.n = IF Len(s) < w THEN Len(s) ELSE w
    /\ h.head = IF w = 0 THEN 0 ELSE Len(s) % w
    /\ \E S : s \in Seq(S) /\ h.entries \in Seq(S)
    /\ Len(h.entries) = h.n
    /\ \A k \in Len(s) - h.n + 1 .. Len(s) : h.entries[((k - 1) % w) + 1] = s[k]

(* What Append does, in the sort the ring needs. *)
LEMMA AppendFacts ==
    ASSUME NEW S, NEW s \in Seq(S), NEW e
    PROVE  /\ Append(s, e) \in Seq(S \cup {e}) /\ Len(Append(s, e)) = Len(s) + 1
           /\ Append(s, e)[Len(s) + 1] = e
           /\ \A i \in 1 .. Len(s) : Append(s, e)[i] = s[i]
           /\ s \in Seq(S \cup {e}) /\ Len(s) \in Nat
OBVIOUS

(* spg_machine_history_push keeps the last w snapshots, wrapped or not. *)
LEMMA RingPush ==
    ASSUME NEW w \in Nat, NEW h, NEW s, Ring(h, s, w), NEW e
    PROVE  Ring(Push(h, w, e), Append(s, e), w)
<1>. DEFINE L == Len(s)
            t == Append(s, e)
            g == Push(h, w, e)
            n == IF L + 1 < w THEN L + 1 ELSE w
<1>1. PICK S : s \in Seq(S) /\ h.entries \in Seq(S)
  BY DEF Ring
<1>2. /\ t \in Seq(S \cup {e}) /\ Len(t) = L + 1 /\ t[L + 1] = e
      /\ \A i \in 1 .. L : t[i] = s[i]
      /\ L \in Nat
  BY <1>1, AppendFacts
<1>3. h.n = (IF L < w THEN L ELSE w) /\ Len(h.entries) = h.n
      /\ h.head = IF w = 0 THEN 0 ELSE L % w
  BY DEF Ring
<1>. HIDE DEF t, L
<1>4. CASE w = 0
  <2>1. g = h /\ h.n = 0 /\ h.head = 0
    BY <1>2, <1>3, <1>4 DEF Push
  <2>2. h.entries \in Seq(S \cup {e})
    BY <1>1, AppendFacts
  <2>. HIDE DEF g
  <2>3. \A k \in Len(t) - g.n + 1 .. Len(t) : FALSE
    BY <1>2, <2>1
  <2>4. g.n = IF Len(t) < w THEN Len(t) ELSE w
    BY <1>2, <1>4, <2>1
  <2>5. Ring(g, t, w)
    BY <1>2, <1>3, <1>4, <2>1, <2>2, <2>3, <2>4 DEF Ring
  <2>. QED
    BY <2>5 DEF g, t
<1>5. CASE w # 0
  <2>1. g = [entries |-> IF h.n < w THEN Append(h.entries, e)
                         ELSE [h.entries EXCEPT ![h.head + 1] = e],
             head    |-> (h.head + 1) % w,
             n       |-> Lesser(h.n + 1, w)]
    BY <1>5 DEF Push
  <2>2. h.head = L % w /\ h.head \in 0 .. w - 1
    <3>1. w \in Nat \ {0} /\ L \in Int
      BY <1>2, <1>5
    <3>. QED
      BY <1>3, <1>5, <3>1, Remainder
  <2>3. g.n = n /\ n \in Nat
    BY <1>2, <1>3, <1>5, <2>1 DEF Lesser
  <2>4. g.head = (L + 1) % w
    <3>1. g.head = ((L % w) + 1) % w
      BY <2>1, <2>2
    <3>. QED
      BY <1>2, <1>5, <3>1, ShiftedOne
  <2>5. g.entries = IF L < w THEN Append(h.entries, e)
                    ELSE [h.entries EXCEPT ![h.head + 1] = e]
    BY <1>2, <1>3, <2>1
  <2>. HIDE DEF g
  <2>6. /\ g.entries \in Seq(S \cup {e}) /\ Len(g.entries) = n
        /\ g.entries[h.head + 1] = e
        /\ \A i \in 1 .. h.n : i # h.head + 1 => g.entries[i] = h.entries[i]
    <3>1. CASE L < w
      <4>1. h.head = L
        BY <1>2, <1>5, <2>2, <3>1, Small
      <4>2. h.n = L /\ n = L + 1
        BY <1>2, <1>3, <3>1
      <4>. QED
        <5>1. g.entries = Append(h.entries, e)
          BY <2>5, <3>1
        <5>2. h.entries \in Seq(S) /\ Len(h.entries) = L
          BY <1>1, <1>3, <4>2
        <5>. QED
          BY <4>1, <4>2, <5>1, <5>2, AppendFacts
    <3>2. CASE ~(L < w)
      <4>1. h.n = w /\ n = w /\ h.head + 1 \in 1 .. w
        BY <1>2, <1>3, <1>5, <2>2, <3>2
      <4>2. h.entries \in Seq(S \cup {e})
        BY <1>1, AppendFacts
      <4>. QED
        BY <1>3, <2>5, <3>2, <4>1, <4>2
    <3>. QED
      BY <3>1, <3>2
  <2>7. ASSUME NEW k \in (L + 1) - n + 1 .. L + 1
        PROVE  g.entries[((k - 1) % w) + 1] = t[k]
    <3>1. CASE k = L + 1
      BY <1>2, <2>2, <2>6, <3>1
    <3>2. CASE k # L + 1
      <4>1. k \in Nat /\ k - 1 \in Nat /\ k - 1 < L /\ L < (k - 1) + w /\ k \in 1 .. L
            /\ k \in L - h.n + 1 .. L
        <5>1. k \in Int /\ (L + 1) - n + 1 <= k /\ k <= L
          BY <1>2, <2>3, <3>2
        <5>2. CASE L < w
          <6>1. h.n = L /\ n \in Nat /\ n <= L + 1
            BY <1>2, <1>3, <5>2
          <6>. QED
            BY <1>2, <5>1, <5>2, <6>1
        <5>3. CASE ~(L < w)
          <6>1. h.n = w /\ n = w
            BY <1>2, <1>3, <5>3
          <6>. QED
            BY <1>2, <1>5, <5>1, <5>3, <6>1
        <5>. QED
          BY <5>2, <5>3
      <4>2. (k - 1) % w # L % w
        BY <1>2, <1>5, <4>1, Apart
      <4>3. (k - 1) % w \in 0 .. w - 1
        BY <1>5, <4>1, Remainder
      <4>4. ((k - 1) % w) + 1 \in 1 .. h.n
        <5>1. CASE L < w
          <6>1. (k - 1) % w = k - 1
            BY <1>2, <1>5, <4>1, <5>1, Small
          <6>. QED
            BY <1>2, <1>3, <4>1, <5>1, <6>1
        <5>2. CASE ~(L < w)
          BY <1>2, <1>3, <4>3, <5>2
        <5>. QED
          BY <5>1, <5>2
      <4>5. h.entries[((k - 1) % w) + 1] = s[k]
        BY <4>1 DEF Ring, L
      <4>6. g.entries[((k - 1) % w) + 1] = h.entries[((k - 1) % w) + 1]
        <5>. DEFINE c == (k - 1) % w
                    d == L % w
        <5>1. c \in Nat /\ d \in Nat /\ c # d /\ h.head = d /\ c + 1 \in 1 .. h.n
          BY <2>2, <4>2, <4>3, <4>4
        <5>. HIDE DEF c, d
        <5>2. g.entries[c + 1] = h.entries[c + 1]
          BY <2>6, <5>1
        <5>. QED
          BY <5>2 DEF c
      <4>. QED
        BY <1>2, <4>1, <4>5, <4>6
    <3>. QED
      BY <3>1, <3>2
  <2>. HIDE DEF n
  <2>8. n = IF Len(t) < w THEN Len(t) ELSE w
    BY <1>2 DEF n
  <2>9. \A k \in Len(t) - g.n + 1 .. Len(t) : g.entries[((k - 1) % w) + 1] = t[k]
    BY <1>2, <2>3, <2>7
  <2>10. \E T : t \in Seq(T) /\ g.entries \in Seq(T)
    BY <1>2, <2>6
  <2>11. Ring(g, t, w)
    BY <1>2, <1>5, <2>3, <2>4, <2>6, <2>8, <2>9, <2>10, Zenon DEF Ring
  <2>. QED
    BY <2>11 DEF g, t
<1>. QED
  BY <1>4, <1>5

(* The last n of a sequence, one by one. *)
LEMMA LastOf ==
    ASSUME NEW S, NEW s \in Seq(S), NEW n \in 0 .. Len(s)
    PROVE  SubSeq(s, Len(s) - n + 1, Len(s)) = [i \in 1 .. n |-> s[Len(s) - n + i]]
<1>. DEFINE t == SubSeq(s, Len(s) - n + 1, Len(s))
<1>1. Len(s) \in Nat /\ Len(s) - n + 1 \in 1 .. Len(s) + 1
      /\ Len(s) \in (Len(s) - n + 1) - 1 .. Len(s)
  OBVIOUS
<1>2. /\ t \in Seq(S) /\ Len(t) = Len(s) - (Len(s) - n + 1) + 1
      /\ \A i \in 1 .. Len(s) - (Len(s) - n + 1) + 1 : t[i] = s[(Len(s) - n + 1) + i - 1]
  BY <1>1, SubSeqProperties
<1>3. Len(s) - (Len(s) - n + 1) + 1 = n
      /\ \A i \in 1 .. n : (Len(s) - n + 1) + i - 1 = Len(s) - n + i
  BY <1>1
<1>. HIDE DEF t
<1>4. t \in Seq(S) /\ Len(t) = n /\ \A i \in 1 .. n : t[i] = s[Len(s) - n + i]
  BY <1>2, <1>3
<1>5. t = [i \in 1 .. n |-> s[Len(s) - n + i]]
  BY <1>4
<1>. QED
  BY <1>5 DEF t

(* The window reads the ring from its oldest entry.                         *)
LEMMA RingReads ==
    ASSUME NEW w \in Nat \ {0}, NEW h, NEW s, Ring(h, s, w)
    PROVE  [i \in 1 .. h.n |-> h.entries[((Oldest(h, w) + i - 1) % w) + 1]]
              = SubSeq(s, Len(s) - h.n + 1, Len(s))
<1>. DEFINE L == Len(s)
            n == h.n
            o == Oldest(h, w)
<1>1. PICK S : s \in Seq(S) /\ h.entries \in Seq(S)
  BY DEF Ring
<1>2. L \in Nat /\ n = (IF L < w THEN L ELSE w) /\ h.head = L % w
  BY <1>1 DEF Ring
<1>3. o = IF L < w THEN 0 ELSE L % w
  <2>1. o = IF n < w THEN 0 ELSE h.head
    BY DEF Oldest
  <2>. QED
    BY <1>2, <2>1
<1>. HIDE DEF o, L, n
<1>4. ASSUME NEW i \in 1 .. n
      PROVE  h.entries[((o + i - 1) % w) + 1] = s[L - n + i]
  <2>1. i \in Nat /\ L - n + i \in L - n + 1 .. L
    BY <1>2
  <2>2. (o + i - 1) % w = ((L - n + i) - 1) % w
    <3>1. CASE L < w
      BY <1>2, <1>3, <2>1, <3>1
    <3>2. CASE ~(L < w)
      <4>1. ((L % w) + (i - 1)) % w = (L - w + (i - 1)) % w
        <5>1. i - 1 \in Int
          BY <2>1
        <5>. QED
          BY <1>2, <5>1, ShiftedBack
      <4>2. o + i - 1 = (L % w) + (i - 1)
        <5>1. L % w \in Int
          BY <1>2, Remainder
        <5>. QED
          BY <1>3, <2>1, <3>2, <5>1
      <4>3. L - w + (i - 1) = (L - n + i) - 1
        BY <1>2, <2>1, <3>2
      <4>. QED
        BY <4>1, <4>2, <4>3
    <3>. QED
      BY <3>1, <3>2
  <2>3. h.entries[(((L - n + i) - 1) % w) + 1] = s[L - n + i]
    BY <2>1 DEF Ring, L, n
  <2>. QED
    BY <2>2, <2>3
<1>5. SubSeq(s, L - n + 1, L) = [i \in 1 .. n |-> s[L - n + i]]
  <2>1. n \in 0 .. L
    BY <1>2
  <2>. QED
    BY <1>1, <2>1, LastOf DEF L
<1>. QED
  BY <1>4, <1>5 DEF o, L, n

(* What the steps decided on, and what the window keeps of it.              *)
ObsInv ==
    /\ conf \in Scenarios /\ "shown" \in DOMAIN aux
    /\ Ring(hist, aux.shown, Window(conf.window))

(* The window is bounded by HistoryCap, whatever the configuration asks. *)
LEMMA WindowSize ==
    ASSUME conf \in Scenarios
    PROVE  Window(conf.window) \in Nat
BY ObserveAssumption DEF Window, Lesser

(* A run starts with an empty ring and no step. *)
LEMMA WindowInit ==
    ASSUME ObserveInit
    PROVE  ObsInv
<1>. DEFINE w == Window(conf.window)
<1>1. conf \in Scenarios /\ hist = [entries |-> <<>>, head |-> 0, n |-> 0]
      /\ "shown" \in DOMAIN aux /\ aux.shown = <<>>
  BY DEF ObserveInit, EmptyHistory
<1>2. w \in Nat
  BY <1>1, WindowSize
<1>. HIDE DEF w
<1>3. w # 0 => 0 % w = 0
  BY <1>2, Small
<1>4. <<>> \in Seq({}) /\ Len(<<>>) = 0
  OBVIOUS
<1>5. Ring(hist, <<>>, w)
  BY <1>1, <1>2, <1>3, <1>4 DEF Ring
<1>. QED
  BY <1>1, <1>5 DEF ObsInv, w

(* Outside a completed step neither the window nor the list of snapshots    *)
(* moves.                                                                   *)
LEMMA WindowRests ==
    ASSUME ObsInv, conf' = conf, hist' = hist,
           DOMAIN aux' = DOMAIN aux, aux'.shown = aux.shown
    PROVE  ObsInv'
BY DEF ObsInv, Ring, Window, Lesser

(* What moves on the host moves neither. *)
LEMMA WindowHost ==
    ASSUME ObsInv, NEW h, HostSteps(h)
    PROVE  ObsInv'
<1>1. /\ conf' = conf /\ hist' = hist
      /\ DOMAIN aux' = DOMAIN aux /\ aux'.shown = aux.shown
  BY DEF HostSteps, ObsInv
<1>. QED
  BY <1>1, WindowRests

(* Only a completed tick pushes, and it pushes what it decided on. *)
LEMMA WindowNext ==
    ASSUME ObsInv, [ObserveNext]_observeVars
    PROVE  ObsInv'
<1>1. CASE UNCHANGED <<conf, hist, aux>>
  BY <1>1, WindowRests
<1>2. CASE HostMoves
  BY <1>2, WindowHost DEF HostMoves, Work, Exit, Stop, Spawn,
     Idle, CountersReset
<1>3. CASE CloseSample
  <2>1. /\ conf' = conf /\ hist' = hist
        /\ DOMAIN aux' = DOMAIN aux /\ aux'.shown = aux.shown
    <3>1. conf' = conf /\ hist' = hist
          /\ \E v, w, x, y, z : aux' = [aux EXCEPT !.first = v, !.prior = w, !.basis = x,
                                                  !.counted = y, !.span = z]
      BY <1>3, Zenon DEF CloseSample
    <3>. QED
      BY <3>1 DEF ObsInv
  <2>. QED
    BY <2>1, WindowRests
<1>4. CASE Tick
  <2>1. conf' = conf /\ \E o, c, t : StepFails(c, t) \/ StepDone(o, c, t)
    BY <1>4, Zenon DEF Tick
  <2>2. CASE \E c, t : StepFails(c, t)
    <3>1. hist' = hist /\ DOMAIN aux' = DOMAIN aux /\ aux'.shown = aux.shown
      BY <2>2 DEF StepFails, ObsInv
    <3>. QED
      BY <2>1, <3>1, WindowRests
  <2>3. CASE \E o, c, t : StepDone(o, c, t)
    <3>. DEFINE e == Entry(run.step + 1, machine)
                w == Window(conf.window)
    <3>1. hist' = Push(hist, w, e)
          /\ aux' = [aux EXCEPT !.shown = Append(@, e), !.seen = Shown]
      BY <2>3 DEF StepDone, Historise
    <3>. HIDE DEF e
    <3>2. "shown" \in DOMAIN aux' /\ aux'.shown = Append(aux.shown, e)
      BY <3>1 DEF ObsInv
    <3>3. w \in Nat /\ Ring(hist, aux.shown, w)
      BY WindowSize DEF ObsInv
    <3>4. w' = w
      BY <2>1 DEF Window, Lesser
    <3>. HIDE DEF w
    <3>5. Ring(Push(hist, w, e), Append(aux.shown, e), w)
      BY <3>3, RingPush
    <3>6. Ring(hist', aux'.shown, w')
      BY <3>1, <3>2, <3>4, <3>5
    <3>. QED
      BY <2>1, <3>2, <3>6 DEF ObsInv, w
  <2>. QED
    BY <2>1, <2>2, <2>3
<1>. QED
  BY <1>1, <1>2, <1>3, <1>4 DEF ObserveNext, observeVars, StartRun, OpenSample,
     ReadEntry, LastStep, Judge

(* spg_machine_history_render then shows the tail of what was pushed. *)
LEMMA WindowSafe ==
    ASSUME ObsInv
    PROVE  WindowIsTail
<1>. DEFINE w == Window(conf.window)
            s == aux.shown
            L == Len(s)
<1>1. w \in Nat /\ Ring(hist, s, w)
  BY WindowSize DEF ObsInv
<1>. HIDE DEF w, s
<1>2. L \in Nat /\ hist.n = Lesser(w, L)
  BY <1>1 DEF Ring, Lesser
<1>3. w # 0 => [i \in 1 .. hist.n |->
                  hist.entries[((Oldest(hist, w) + i - 1) % w) + 1]]
               = SubSeq(s, L - hist.n + 1, L)
  BY <1>1, RingReads
<1>4. w # 0 => HistoryUnits(hist, w)
               = <<Unit("machine-history", SubSeq(s, L - hist.n + 1, L))>>
  BY <1>3, Zenon DEF HistoryUnits
<1>5. w = 0 => HistoryUnits(hist, w) = <<>>
  BY DEF HistoryUnits
<1>. QED
  BY <1>2, <1>4, <1>5 DEF WindowIsTail, w, s

-----------------------------------------------------------------------------
(* For every machine, every configuration of windows and every capacity of  *)
(* the ring: the window the model reads is the tail of the snapshots the    *)
(* steps decided on, wrapped ring and repeated steps included               *)
(* (spg_machine_history_push, _render; agent_loop.c).                       *)
THEOREM WindowKept == ObserveSpec => []WindowIsTail
<1>1. ObserveInit => ObsInv
  BY WindowInit
<1>2. ObsInv /\ [ObserveNext]_observeVars => ObsInv'
  BY WindowNext
<1>3. ObsInv => WindowIsTail
  BY WindowSafe
<1>. QED
  BY <1>1, <1>2, <1>3, PTL DEF ObserveSpec

-----------------------------------------------------------------------------
(***************************************************************************)
(* The snapshot, the verdict and the context (Observe).  Each shows a best  *)
(* few of a longer list, kept in order by insertion: first what that says   *)
(* of any order, then the two orders of the code.                           *)
(***************************************************************************)
(* The best of a list.  R is an order as a set of pairs, C the entries of a *)
(* list so far, B what a buffer of cap places keeps of them.                *)

StrictOrder(R, C) ==
    /\ \A x \in C : <<x, x>> \notin R
    /\ \A x, y, z \in C : <<x, y>> \in R /\ <<y, z>> \in R => <<x, z>> \in R
    /\ \A x, y \in C : x # y => <<x, y>> \in R \/ <<y, x>> \in R

Ahead(R, C, s) == {t \in C : <<t, s>> \in R}

(* The buffer is as full as it can be, and what it lacks is weaker than all *)
(* that it holds.                                                           *)
Top(R, B, C, cap) ==
    /\ B \subseteq C
    /\ Cardinality(B) = IF Cardinality(C) < cap THEN Cardinality(C) ELSE cap
    /\ \A b \in B, c \in C \ B : <<b, c>> \in R

(* What is ahead of an entry is a part of the list.                         *)
LEMMA AheadFinite ==
    ASSUME NEW R, NEW C, IsFiniteSet(C), NEW s
    PROVE  /\ Ahead(R, C, s) \in SUBSET C /\ IsFiniteSet(Ahead(R, C, s))
           /\ Cardinality(Ahead(R, C, s)) \in Nat
           /\ Cardinality(Ahead(R, C, s)) <= Cardinality(C)
<1>1. Ahead(R, C, s) \in SUBSET C
  BY DEF Ahead
<1>. QED
  BY <1>1, FS_Subset, FS_CardinalityType

(* No two entries have the same number of entries ahead of them.            *)
LEMMA AheadApart ==
    ASSUME NEW R, NEW C, IsFiniteSet(C), StrictOrder(R, C),
           NEW s \in C, NEW t \in C, <<s, t>> \in R
    PROVE  Cardinality(Ahead(R, C, s)) < Cardinality(Ahead(R, C, t))
<1>. DEFINE S == Ahead(R, C, s)
            T == Ahead(R, C, t)
<1>1. S \in SUBSET T /\ s \in T /\ s \notin S
  BY DEF StrictOrder, Ahead
<1>2. /\ IsFiniteSet(T) /\ IsFiniteSet(S)
      /\ Cardinality(S) \in Nat /\ Cardinality(T) \in Nat
  BY AheadFinite
<1>. HIDE DEF S, T
<1>3. Cardinality(S) <= Cardinality(T) /\ (Cardinality(T) = Cardinality(S) => T = S)
  BY <1>1, <1>2, FS_Subset
<1>. QED
  BY <1>1, <1>2, <1>3 DEF S, T

(* An entry is not ahead of itself.                                         *)
LEMMA AheadLess ==
    ASSUME NEW R, NEW C, IsFiniteSet(C), StrictOrder(R, C), NEW s \in C
    PROVE  Cardinality(Ahead(R, C, s)) < Cardinality(C)
<1>. DEFINE S == Ahead(R, C, s)
<1>1. S \in SUBSET C /\ s \in C /\ s \notin S
  BY DEF StrictOrder, Ahead
<1>2. Cardinality(S) \in Nat /\ Cardinality(C) \in Nat
  BY AheadFinite, FS_CardinalityType
<1>. HIDE DEF S
<1>3. Cardinality(S) <= Cardinality(C) /\ (Cardinality(C) = Cardinality(S) => C = S)
  BY <1>1, FS_Subset
<1>. QED
  BY <1>1, <1>2, <1>3 DEF S

(* So every place of the ranking is taken by exactly one entry.             *)
LEMMA PlaceTaken ==
    ASSUME NEW R, NEW C, IsFiniteSet(C), StrictOrder(R, C), NEW i \in 1 .. Cardinality(C)
    PROVE  /\ \E s \in C : Cardinality(Ahead(R, C, s)) = i - 1
           /\ \A s, t \in C : Cardinality(Ahead(R, C, s)) = Cardinality(Ahead(R, C, t)) => s = t
<1>. DEFINE n == Cardinality(C)
            P == 0 .. n - 1
            f == [s \in C |-> Cardinality(Ahead(R, C, s))]
<1>1. n \in Nat /\ n # 0 /\ i - 1 \in P
  BY FS_CardinalityType
<1>2. IsFiniteSet(P) /\ Cardinality(P) = n
  <2>. HIDE DEF n
  <2>1. 0 \in Int /\ n - 1 \in Int /\ ~(0 > n - 1) /\ n - 1 - 0 + 1 = n
    BY <1>1
  <2>. QED
    BY <2>1, FS_Interval
<1>3. \A s, t \in C : Cardinality(Ahead(R, C, s)) = Cardinality(Ahead(R, C, t)) => s = t
  <2>. SUFFICES ASSUME NEW s \in C, NEW t \in C, s # t
                PROVE  Cardinality(Ahead(R, C, s)) # Cardinality(Ahead(R, C, t))
    OBVIOUS
  <2>1. Cardinality(Ahead(R, C, s)) \in Nat /\ Cardinality(Ahead(R, C, t)) \in Nat
    BY AheadFinite
  <2>2. <<s, t>> \in R \/ <<t, s>> \in R
    BY DEF StrictOrder
  <2>. QED
    BY <2>1, <2>2, AheadApart
<1>4. f \in [C -> P]
  <2>1. \A s \in C : Cardinality(Ahead(R, C, s)) \in P
    <3>. TAKE s \in C
    <3>1. Cardinality(Ahead(R, C, s)) \in Nat /\ Cardinality(Ahead(R, C, s)) < n
      BY AheadFinite, AheadLess
    <3>. HIDE DEF n
    <3>. QED
      BY <1>1, <3>1
  <2>. QED
    BY <2>1
<1>5. f \in Injection(C, P)
  BY <1>3, <1>4 DEF Injection, IsInjective
<1>. HIDE DEF P
<1>6. f \in Surjection(C, P)
  <2>. HIDE DEF f
  <2>. QED
    BY <1>2, <1>5, FS_Injection
<1>7. \E s \in C : f[s] = i - 1
  <2>. HIDE DEF f
  <2>. QED
    BY <1>1, <1>6 DEF Surjection
<1>. QED
  BY <1>3, <1>7

(* A buffer that keeps the top keeps the entries with less than cap others  *)
(* ahead of them, and nothing outside is ahead of any of them.              *)
LEMMA TopIsBest ==
    ASSUME NEW R, NEW C, IsFiniteSet(C), StrictOrder(R, C), NEW cap \in Nat,
           NEW B, Top(R, B, C, cap)
    PROVE  /\ B = {s \in C : Cardinality(Ahead(R, C, s)) < cap}
           /\ \A s \in B : Ahead(R, B, s) = Ahead(R, C, s)
           /\ IsFiniteSet(B) /\ StrictOrder(R, B)
<1>1. B \in SUBSET C /\ \A b \in B, c \in C \ B : <<b, c>> \in R /\ <<c, b>> \notin R
  BY DEF Top, StrictOrder
<1>2. /\ IsFiniteSet(B) /\ Cardinality(B) \in Nat /\ Cardinality(C) \in Nat
      /\ Cardinality(C) = Cardinality(B) => C = B
  BY <1>1, FS_Subset, FS_CardinalityType
<1>3. StrictOrder(R, B)
  BY <1>1 DEF StrictOrder
<1>4. \A s \in B : Ahead(R, B, s) = Ahead(R, C, s)
  BY <1>1 DEF Ahead
<1>5. ASSUME NEW s \in B PROVE Cardinality(Ahead(R, C, s)) < cap
  <2>1. Cardinality(Ahead(R, B, s)) < Cardinality(B)
    BY <1>2, <1>3, AheadLess
  <2>2. Cardinality(B) <= cap
    BY <1>2 DEF Top
  <2>3. Cardinality(Ahead(R, B, s)) \in Nat
    BY <1>2, AheadFinite
  <2>. QED
    BY <1>2, <1>4, <2>1, <2>2, <2>3
<1>6. ASSUME NEW s \in C, s \notin B PROVE ~(Cardinality(Ahead(R, C, s)) < cap)
  <2>1. Cardinality(B) = cap
    BY <1>2, <1>6 DEF Top
  <2>2. B \in SUBSET Ahead(R, C, s)
    BY <1>1, <1>6 DEF Ahead
  <2>3. IsFiniteSet(Ahead(R, C, s)) /\ Cardinality(Ahead(R, C, s)) \in Nat
    BY AheadFinite
  <2>4. Cardinality(B) <= Cardinality(Ahead(R, C, s))
    BY <2>2, <2>3, FS_Subset
  <2>. QED
    BY <2>1, <2>3, <2>4
<1>7. B = {s \in C : Cardinality(Ahead(R, C, s)) < cap}
  BY <1>1, <1>5, <1>6
<1>. QED
  BY <1>2, <1>3, <1>4, <1>7

(* One entry more: a buffer with room takes it.                             *)
LEMMA TopGrows ==
    ASSUME NEW R, NEW C, IsFiniteSet(C), NEW cap \in Nat, NEW B, Top(R, B, C, cap),
           Cardinality(B) # cap, NEW x, x \notin C
    PROVE  Top(R, B \cup {x}, C \cup {x}, cap)
<1>1. B \in SUBSET C
  BY DEF Top
<1>2. /\ IsFiniteSet(B) /\ Cardinality(B) \in Nat /\ Cardinality(C) \in Nat
      /\ Cardinality(C) = Cardinality(B) => C = B
  BY <1>1, FS_Subset, FS_CardinalityType
<1>3. B = C /\ Cardinality(C) < cap
  BY <1>2 DEF Top
<1>. DEFINE D == C \cup {x}
<1>4. Cardinality(D) = Cardinality(C) + 1
  BY FS_AddElement
<1>. HIDE DEF D
<1>5. Top(R, D, D, cap)
  BY <1>2, <1>3, <1>4 DEF Top
<1>. QED
  BY <1>3, <1>5 DEF D

(* A full buffer ignores what is weaker than all it holds.                  *)
LEMMA TopKeeps ==
    ASSUME NEW R, NEW C, IsFiniteSet(C), NEW cap \in Nat, NEW B, Top(R, B, C, cap),
           Cardinality(B) = cap, NEW x, x \notin C, \A b \in B : <<b, x>> \in R
    PROVE  Top(R, B, C \cup {x}, cap)
<1>. DEFINE D == C \cup {x}
<1>1. B \in SUBSET C /\ B \subseteq D /\ \A b \in B, c \in D \ B : <<b, c>> \in R
  BY DEF Top
<1>2. Cardinality(C) \in Nat /\ Cardinality(D) = Cardinality(C) + 1
      /\ Cardinality(B) <= Cardinality(C)
  BY <1>1, FS_AddElement, FS_CardinalityType, FS_Subset
<1>. HIDE DEF D
<1>3. Cardinality(B) = IF Cardinality(D) < cap THEN Cardinality(D) ELSE cap
  BY <1>2
<1>4. Top(R, B, D, cap)
  BY <1>1, <1>3 DEF Top
<1>. QED
  BY <1>4 DEF D

(* A full buffer gives up its weakest for something stronger.               *)
LEMMA TopReplaces ==
    ASSUME NEW R, NEW C, IsFiniteSet(C), NEW cap \in Nat, NEW B, Top(R, B, C, cap),
           Cardinality(B) = cap, NEW x, x \notin C, StrictOrder(R, C \cup {x}),
           NEW w \in B, \A b \in B \ {w} : <<b, w>> \in R, <<x, w>> \in R
    PROVE  Top(R, (B \ {w}) \cup {x}, C \cup {x}, cap)
<1>. DEFINE D == C \cup {x}
            E == (B \ {w}) \cup {x}
<1>1. B \in SUBSET C /\ w \in C /\ x \notin B \ {w}
  BY DEF Top
<1>2. /\ Cardinality(C) \in Nat /\ Cardinality(D) = Cardinality(C) + 1
      /\ Cardinality(B) <= Cardinality(C) /\ IsFiniteSet(B)
  BY <1>1, FS_AddElement, FS_CardinalityType, FS_Subset
<1>3. IsFiniteSet(B \ {w}) /\ Cardinality(B \ {w}) = cap - 1
  BY <1>2, FS_RemoveElement
<1>4. Cardinality(E) = cap
  <2>. DEFINE F == B \ {w}
  <2>1. IsFiniteSet(F) /\ Cardinality(F) = cap - 1 /\ x \notin F
    BY <1>1, <1>3
  <2>. HIDE DEF F
  <2>2. Cardinality(F \cup {x}) = cap - 1 + 1
    BY <2>1, FS_AddElement
  <2>. QED
    BY <2>2 DEF F
<1>5. E \subseteq D
  BY <1>1
<1>6. ASSUME NEW b \in E, NEW c \in D \ E PROVE <<b, c>> \in R
  <2>1. c = w \/ c \in C \ B
    BY <1>1
  <2>2. \A d \in B : d \in D
    BY <1>1
  <2>3. CASE c = w
    BY <2>3
  <2>4. CASE c \in C \ B
    <3>1. <<w, c>> \in R /\ \A d \in B : <<d, c>> \in R
      BY <2>4 DEF Top
    <3>2. x \in D /\ w \in D /\ c \in D
      BY <1>1, <2>4
    <3>3. <<x, c>> \in R
      <4>. HIDE DEF D, E
      <4>1. StrictOrder(R, D)
        BY DEF D
      <4>. QED
        BY <3>1, <3>2, <4>1 DEF StrictOrder
    <3>. QED
      BY <3>1, <3>3
  <2>. QED
    BY <2>1, <2>3, <2>4
<1>. HIDE DEF D, E
<1>7. Cardinality(E) = IF Cardinality(D) < cap THEN Cardinality(D) ELSE cap
  BY <1>2, <1>4
<1>8. Top(R, E, D, cap)
  BY <1>5, <1>6, <1>7 DEF Top
<1>. QED
  BY <1>8 DEF D, E

(* Somebody is first and somebody is last.                                  *)
LEMMA FirstPlace ==
    ASSUME NEW R, NEW C, IsFiniteSet(C), StrictOrder(R, C), C # {}
    PROVE  \E s \in C : \A t \in C \ {s} : <<s, t>> \in R
<1>1. Cardinality(C) \in Nat /\ Cardinality(C) # 0
  BY FS_CardinalityType, FS_EmptySet
<1>2. PICK s \in C : Cardinality(Ahead(R, C, s)) = 1 - 1
  <2>1. 1 \in 1 .. Cardinality(C)
    BY <1>1
  <2>. QED
    BY <2>1, PlaceTaken
<1>3. Ahead(R, C, s) = {}
  BY <1>2, AheadFinite, FS_EmptySet
<1>. QED
  BY <1>3 DEF Ahead, StrictOrder

(* A list that is not empty has a last entry.                               *)
LEMMA LastPlace ==
    ASSUME NEW R, NEW C, IsFiniteSet(C), StrictOrder(R, C), C # {}
    PROVE  \E s \in C : \A t \in C \ {s} : <<t, s>> \in R
<1>. DEFINE Q == {p \in C \X C : <<p[2], p[1]>> \in R}
<1>1. \A x, y \in C : <<x, y>> \in Q <=> <<y, x>> \in R
  OBVIOUS
<1>. HIDE DEF Q
<1>2. StrictOrder(Q, C)
  BY <1>1 DEF StrictOrder
<1>3. PICK s \in C : \A t \in C \ {s} : <<s, t>> \in Q
  BY <1>2, FirstPlace
<1>. QED
  BY <1>1, <1>3

(* The smallest and the largest of a set of numbers are among them.         *)
LEMMA LeastOf ==
    ASSUME NEW S, IsFiniteSet(S), S # {}, \A x \in S : x \in Int
    PROVE  Min(S) \in S /\ \A i \in S : Min(S) <= i
<1>. DEFINE R == {p \in S \X S : p[1] < p[2]}
<1>1. \A x, y \in S : <<x, y>> \in R <=> x < y
  OBVIOUS
<1>. HIDE DEF R
<1>2. StrictOrder(R, S)
  BY <1>1 DEF StrictOrder
<1>3. PICK s \in S : \A t \in S \ {s} : <<s, t>> \in R
  BY <1>2, FirstPlace
<1>4. ASSUME NEW y \in S PROVE s <= y
  <2>1. y # s => s < y
    BY <1>1, <1>3
  <2>. QED
    BY <2>1
<1>. QED
  BY <1>4 DEF Min

(* A finite set of integers has a greatest.                                 *)
LEMMA GreatestOf ==
    ASSUME NEW S, IsFiniteSet(S), S # {}, \A x \in S : x \in Int
    PROVE  Max(S) \in S /\ \A i \in S : i <= Max(S)
<1>. DEFINE R == {p \in S \X S : p[1] > p[2]}
<1>1. \A x, y \in S : <<x, y>> \in R <=> x > y
  OBVIOUS
<1>. HIDE DEF R
<1>2. StrictOrder(R, S)
  BY <1>1 DEF StrictOrder
<1>3. PICK s \in S : \A t \in S \ {s} : <<s, t>> \in R
  BY <1>2, FirstPlace
<1>4. ASSUME NEW y \in S PROVE s >= y
  <2>1. y # s => s > y
    BY <1>1, <1>3
  <2>. QED
    BY <2>1
<1>5. Max(S) \in S /\ \A i \in S : Max(S) >= i
  BY <1>4 DEF Max
<1>. QED
  BY <1>5

(* The smallest of some indices, the largest or 0.                          *)
LEMMA LeastIndex ==
    ASSUME NEW S, S # {}, NEW n \in Nat, S \in SUBSET (1 .. n)
    PROVE  Min(S) \in S /\ \A i \in S : Min(S) <= i
<1>1. IsFiniteSet(1 .. n)
  BY FS_Interval
<1>2. IsFiniteSet(S)
  BY <1>1, FS_Subset
<1>3. \A x \in 1 .. n : x \in Int
  OBVIOUS
<1>4. \A x \in S : x \in Int
  BY <1>3
<1>. QED
  BY <1>2, <1>4, LeastOf

(* The last index of a set of indices, 0 when there is none.                *)
LEMMA GreatestIndex ==
    ASSUME NEW S, NEW n \in Nat, S \in SUBSET (1 .. n)
    PROVE  Max({0} \cup S) \in {0} \cup S /\ \A i \in S : i <= Max({0} \cup S)
<1>. DEFINE T == {0} \cup S
<1>1. IsFiniteSet(0 .. n) /\ T \in SUBSET (0 .. n) /\ T # {} /\ S \subseteq T
  BY FS_Interval
<1>2. \A x \in T : x \in Int
  BY <1>1
<1>. HIDE DEF T
<1>3. IsFiniteSet(T)
  BY <1>1, FS_Subset
<1>4. Max(T) \in T /\ \A i \in T : i <= Max(T)
  BY <1>1, <1>2, <1>3, GreatestOf
<1>. QED
  BY <1>1, <1>4 DEF T

-----------------------------------------------------------------------------
(* The order of the processes (ranks_before).                               *)

Ranks(C) == {p \in C \X C : RanksBefore(p[1], p[2])}

\* Rows of the process table: what the order compares is a number, and no
\* two have the same pid.
Rows(C) ==
    /\ \A s \in C : {s.pid, s.bp, s.rss} \subseteq Int
    /\ \A s, t \in C : s.pid = t.pid => s = t

\* The order, one criterion after the other.
RanksFirst(a, b) ==
    LET m(s) == IF s.entry # 0 THEN 1 ELSE 0
    IN \/ m(a) > m(b)
       \/ /\ m(a) = m(b)
          /\ \/ Measured(a.bp) > Measured(b.bp)
             \/ /\ Measured(a.bp) = Measured(b.bp)
                /\ \/ Measured(a.rss) > Measured(b.rss)
                   \/ Measured(a.rss) = Measured(b.rss) /\ -a.pid > -b.pid

(* The comparison of the model is the one of the code, criterion by         *)
(* criterion (ranks_before).                                                *)
LEMMA RanksUnfold ==
    ASSUME NEW a, NEW b
    PROVE  RanksBefore(a, b) <=> RanksFirst(a, b)
<1>. DEFINE m(s) == IF s.entry # 0 THEN 1 ELSE 0
            K == <<m(a), Measured(a.bp), Measured(a.rss), -a.pid>>
            L == <<m(b), Measured(b.bp), Measured(b.rss), -b.pid>>
            G(i) == K[i] > L[i] /\ \A j \in 1 .. (i - 1) : K[j] = L[j]
<1>1. RanksBefore(a, b) <=> \E i \in 1 .. 4 : G(i)
  BY DEF RanksBefore
<1>. HIDE DEF G
<1>2. (\E i \in 1 .. 4 : G(i)) <=> G(1) \/ G(2) \/ G(3) \/ G(4)
  <2>1. 1 .. 4 = {1, 2, 3, 4}
    OBVIOUS
  <2>. QED
    BY <2>1
<1>3. /\ K[1] = m(a) /\ K[2] = Measured(a.bp) /\ K[3] = Measured(a.rss) /\ K[4] = -a.pid
      /\ L[1] = m(b) /\ L[2] = Measured(b.bp) /\ L[3] = Measured(b.rss) /\ L[4] = -b.pid
  OBVIOUS
<1>. HIDE DEF K, L
<1>4. G(1) <=> K[1] > L[1]
  <2>1. 1 .. (1 - 1) = {}
    OBVIOUS
  <2>. QED
    BY <2>1 DEF G
<1>5. G(2) <=> K[2] > L[2] /\ K[1] = L[1]
  <2>1. 1 .. (2 - 1) = {1}
    OBVIOUS
  <2>. QED
    BY <2>1 DEF G
<1>6. G(3) <=> K[3] > L[3] /\ K[1] = L[1] /\ K[2] = L[2]
  <2>1. 1 .. (3 - 1) = {1, 2}
    OBVIOUS
  <2>. QED
    BY <2>1 DEF G
<1>7. G(4) <=> K[4] > L[4] /\ K[1] = L[1] /\ K[2] = L[2] /\ K[3] = L[3]
  <2>1. 1 .. (4 - 1) = {1, 2, 3}
    OBVIOUS
  <2>. QED
    BY <2>1 DEF G
<1>. HIDE DEF m
<1>8. RanksFirst(a, b) <=>
        \/ m(a) > m(b)
        \/ /\ m(a) = m(b)
           /\ \/ Measured(a.bp) > Measured(b.bp)
              \/ /\ Measured(a.bp) = Measured(b.bp)
                 /\ \/ Measured(a.rss) > Measured(b.rss)
                    \/ Measured(a.rss) = Measured(b.rss) /\ -a.pid > -b.pid
  BY DEF RanksFirst, m
<1>. QED
  BY <1>1, <1>2, <1>3, <1>4, <1>5, <1>6, <1>7, <1>8

(* It is an order on the rows of a table, whatever is known of them.        *)
LEMMA RanksOrder ==
    ASSUME NEW C, Rows(C)
    PROVE  StrictOrder(Ranks(C), C)
<1>. DEFINE m(s) == IF s.entry # 0 THEN 1 ELSE 0
            u(s) == Measured(s.bp)
            v(s) == Measured(s.rss)
            F(a, b) == \/ m(a) > m(b)
                       \/ /\ m(a) = m(b)
                          /\ \/ u(a) > u(b)
                             \/ /\ u(a) = u(b)
                                /\ \/ v(a) > v(b)
                                   \/ v(a) = v(b) /\ -a.pid > -b.pid
<1>1. \A a, b \in C : <<a, b>> \in Ranks(C) <=> F(a, b)
  BY RanksUnfold DEF Ranks, RanksFirst
<1>2. \A s \in C : m(s) \in Int /\ u(s) \in Int /\ v(s) \in Int /\ s.pid \in Int
  BY DEF Rows, Measured
<1>. HIDE DEF m, u, v
<1>3. \A x \in C : ~F(x, x)
  BY <1>2
<1>4. \A x, y, z \in C : F(x, y) /\ F(y, z) => F(x, z)
  BY <1>2
<1>5. \A x, y \in C : x # y => F(x, y) \/ F(y, x)
  BY <1>2 DEF Rows
<1>. HIDE DEF F
<1>. QED
  BY <1>1, <1>3, <1>4, <1>5 DEF StrictOrder

(* A set of numbers that holds 0 and the successor of each of its members    *)
(* is all of them: so much induction the recursions below need.              *)
LEMMA UpTo ==
    ASSUME NEW N \in Nat, NEW K \in SUBSET (0 .. N), 0 \in K,
           \A k \in K : k < N => k + 1 \in K
    PROVE  K = 0 .. N
<1>. DEFINE D == {k \in 0 .. N : \A j \in 0 .. k : j \in K}
            c == Cardinality(D)
<1>1. IsFiniteSet(0 .. N) /\ D \in SUBSET (0 .. N) /\ 0 \in D
  BY FS_Interval
<1>2. IsFiniteSet(D) /\ c \in Nat
  <2>. HIDE DEF D
  <2>. QED
    BY <1>1, FS_Subset, FS_CardinalityType
<1>3. ASSUME NEW k \in D PROVE k + 1 <= c /\ k \in Nat
  <2>1. k \in Nat /\ (0 .. k) \in SUBSET D
    OBVIOUS
  <2>2. Cardinality(0 .. k) = k + 1
    BY <2>1, FS_Interval
  <2>. HIDE DEF D
  <2>3. Cardinality(0 .. k) <= c
    BY <1>2, <2>1, FS_Subset
  <2>. QED
    BY <2>1, <2>2, <2>3
<1>. DEFINE d == c - 1
            I == 0 .. d
<1>. HIDE DEF c
<1>4. d \in Nat /\ d + 1 = c
  BY <1>1, <1>2, <1>3
<1>5. D \in SUBSET I
  BY <1>2, <1>3, <1>4
<1>6. Cardinality(I) = c /\ IsFiniteSet(I)
  <2>. HIDE DEF d
  <2>. QED
    BY <1>4, FS_Interval
<1>7. D = I
  <2>1. Cardinality(D) = Cardinality(I)
    BY <1>6 DEF c
  <2>. HIDE DEF I, D
  <2>. QED
    BY <1>5, <1>6, <2>1, FS_Subset
<1>8. d \in D /\ d + 1 \notin D
  BY <1>4, <1>7
<1>. HIDE DEF d
<1>9. d = N
  <2>1. d \in 0 .. N /\ d \in K /\ \A j \in 0 .. d : j \in K
    BY <1>4, <1>8
  <2>2. d < N => d + 1 \in D
    <3>1. \A j \in 0 .. (d + 1) : j \in 0 .. d \/ j = d + 1
      BY <1>4
    <3>. QED
      BY <1>4, <2>1, <3>1
  <2>. QED
    BY <1>8, <2>1, <2>2
<1>. QED
  BY <1>8, <1>9

(* A recursion over the numbers up to N has a solution.                     *)
Recurs(g, N, S, a, F) ==
    /\ g \in [0 .. N -> S] /\ g[0] = a
    /\ \A n \in 1 .. N : g[n] = F[<<n, g[n - 1]>>]

(* A recursion on the entries of a list has a solution.                     *)
LEMMA Recursion ==
    ASSUME NEW N \in Nat, NEW S, NEW a \in S, NEW F \in [(1 .. N) \X S -> S]
    PROVE  \E g : Recurs(g, N, S, a, F)
<1>. DEFINE Chain(g, k) == Recurs(g, k, S, a, F)
            K == {k \in 0 .. N : \E g : Chain(g, k)}
<1>1. 0 \in K
  <2>1. Chain([n \in 0 .. 0 |-> a], 0)
    BY DEF Recurs
  <2>2. 0 \in 0 .. N
    OBVIOUS
  <2>. HIDE DEF Chain
  <2>. QED
    BY <2>1, <2>2
<1>2. ASSUME NEW k \in K, k < N PROVE k + 1 \in K
  <2>1. k \in 0 .. N /\ \E g : Chain(g, k)
    OBVIOUS
  <2>2. PICK g : Chain(g, k)
    BY <2>1
  <2>. DEFINE m == k + 1
              y == F[<<m, g[k]>>]
              h == [n \in 0 .. m |-> IF n = m THEN y ELSE g[n]]
  <2>3. k \in Nat /\ m \in 1 .. N /\ m \in Nat /\ m - 1 = k /\ k \in 0 .. k
    BY <1>2, <2>1
  <2>4. \A n \in 0 .. k : g[n] \in S
    BY <2>2 DEF Recurs
  <2>5. y \in S
    BY <2>3, <2>4
  <2>. HIDE DEF y
  <2>6. \A n \in 0 .. m : n \in 0 .. k \/ n = m
    BY <2>3
  <2>7. h \in [0 .. m -> S]
    BY <2>4, <2>5, <2>6
  <2>8. h[m] = y /\ \A n \in 0 .. k : h[n] = g[n]
    BY <2>3
  <2>. HIDE DEF h
  <2>9. ASSUME NEW n \in 1 .. m PROVE h[n] = F[<<n, h[n - 1]>>]
    <3>1. CASE n = m
      BY <2>3, <2>8, <3>1 DEF y
    <3>2. CASE n # m
      <4>1. n \in 1 .. k /\ n \in 0 .. k /\ n - 1 \in 0 .. k
        BY <2>3, <3>2
      <4>. QED
        BY <2>2, <2>8, <4>1 DEF Recurs
    <3>. QED
      BY <3>1, <3>2
  <2>10. h[0] = a
    BY <2>2, <2>3, <2>8 DEF Recurs
  <2>11. Chain(h, m)
    BY <2>7, <2>9, <2>10 DEF Recurs
  <2>. HIDE DEF Chain
  <2>. QED
    BY <2>3, <2>11
<1>3. K \in SUBSET (0 .. N)
  OBVIOUS
<1>. HIDE DEF K
<1>4. K = 0 .. N
  BY <1>1, <1>2, <1>3, UpTo
<1>5. N \in K
  BY <1>4
<1>. QED
  BY <1>5 DEF K

(* A sequence without repetitions is as long as the set of its elements.    *)
Unrepeated(s) == \A i, j \in DOMAIN s : s[i] = s[j] => i = j

(* A list without repetitions has as many entries as members.               *)
LEMMA LengthOf ==
    ASSUME NEW S, NEW s \in Seq(S), Unrepeated(s)
    PROVE  IsFiniteSet(ToSet(s)) /\ Cardinality(ToSet(s)) = Len(s) /\ ToSet(s) \subseteq S
<1>. DEFINE n == Len(s)
            T == ToSet(s)
<1>1. n \in Nat /\ DOMAIN s = 1 .. n
  OBVIOUS
<1>2. T = {s[i] : i \in DOMAIN s}
  BY DEF ToSet
<1>3. s \in [1 .. n -> T]
  BY <1>1, <1>2
<1>4. s \in Bijection(1 .. n, T)
  <2>1. \A t \in T : \E i \in 1 .. n : s[i] = t
    BY <1>1, <1>2
  <2>2. \A i, j \in 1 .. n : s[i] = s[j] => i = j
    BY <1>1 DEF Unrepeated
  <2>. HIDE DEF n, T
  <2>. QED
    BY <1>3, <2>1, <2>2 DEF Bijection, Injection, Surjection, IsInjective
<1>5. T \subseteq S
  BY <1>1, <1>2
<1>6. ExistsBijection(1 .. n, T)
  BY <1>4 DEF ExistsBijection
<1>7. IsFiniteSet(1 .. n) /\ Cardinality(1 .. n) = n
  <2>. HIDE DEF n
  <2>. QED
    BY <1>1, FS_Interval
<1>. HIDE DEF n, T
<1>8. IsFiniteSet(T) /\ Cardinality(T) = Cardinality(1 .. n)
  BY <1>6, <1>7, FS_Bijection
<1>. QED
  BY <1>5, <1>7, <1>8 DEF n, T

-----------------------------------------------------------------------------
(* What the buffer holds after the processes C of the list were offered to  *)
(* it (spg_process_offer): the best of them, each once, in any order.  R is *)
(* the order on all the processes of the list.                              *)
Held(R, buf, C) ==
    /\ buf \in Seq(C) /\ Unrepeated(buf)
    /\ Top(R, ToSet(buf), C, SnapCap)

(* One more place, and one place taken over. *)
LEMMA Appended ==
    ASSUME NEW C, NEW buf \in Seq(C), Unrepeated(buf), NEW x, x \notin C
    PROVE  /\ Append(buf, x) \in Seq(C \cup {x}) /\ Unrepeated(Append(buf, x))
           /\ ToSet(Append(buf, x)) = ToSet(buf) \cup {x}
<1>. DEFINE t == Append(buf, x)
            n == Len(buf)
<1>1. /\ n \in Nat /\ DOMAIN buf = 1 .. n /\ DOMAIN t = 1 .. n + 1
      /\ t[n + 1] = x /\ \A i \in 1 .. n : t[i] = buf[i] /\ buf[i] \in C
      /\ t \in Seq(C \cup {x})
  OBVIOUS
<1>. HIDE DEF t, n
<1>2. \A i \in 1 .. n + 1 : i \in 1 .. n \/ i = n + 1
  BY <1>1
<1>3. \A i \in 1 .. n : i \in 1 .. n + 1
  BY <1>1
<1>4. n + 1 \in 1 .. n + 1
  BY <1>1
<1>5. Unrepeated(t)
  BY <1>1, <1>2 DEF Unrepeated
<1>6. ToSet(t) = ToSet(buf) \cup {x}
  BY <1>1, <1>2, <1>3, <1>4 DEF ToSet
<1>. QED
  BY <1>1, <1>5, <1>6 DEF t

(* t is s with the entry at w replaced by x.                                *)
Swaps(t, s, w, x) == ToSet(t) = (ToSet(s) \ {s[w]}) \cup {x}

(* A place of the buffer that is overwritten: the new entry is in, the old  *)
(* one out.                                                                 *)
LEMMA Replaced ==
    ASSUME NEW C, NEW buf \in Seq(C), Unrepeated(buf), NEW x, x \notin C,
           NEW w \in DOMAIN buf
    PROVE  /\ [buf EXCEPT ![w] = x] \in Seq(C \cup {x})
           /\ Unrepeated([buf EXCEPT ![w] = x])
           /\ Swaps([buf EXCEPT ![w] = x], buf, w, x)
<1>. DEFINE t == [buf EXCEPT ![w] = x]
            n == Len(buf)
<1>1. /\ n \in Nat /\ DOMAIN buf = 1 .. n /\ DOMAIN t = 1 .. n
      /\ t[w] = x /\ \A i \in 1 .. n : buf[i] \in C /\ (i # w => t[i] = buf[i])
      /\ t \in Seq(C \cup {x}) /\ w \in 1 .. n
  OBVIOUS
<1>. HIDE DEF t, n
<1>2. Unrepeated(t)
  BY <1>1 DEF Unrepeated
<1>3. \A i \in 1 .. n : i # w => buf[i] # buf[w]
  BY <1>1 DEF Unrepeated
<1>4. ToSet(t) = (ToSet(buf) \ {buf[w]}) \cup {x}
  <2>1. ToSet(t) \subseteq (ToSet(buf) \ {buf[w]}) \cup {x}
    BY <1>1, <1>3 DEF ToSet
  <2>2. (ToSet(buf) \ {buf[w]}) \cup {x} \subseteq ToSet(t)
    BY <1>1, <1>3 DEF ToSet
  <2>. QED
    BY <2>1, <2>2
<1>. QED
  BY <1>1, <1>2, <1>4 DEF t, Swaps

(* spg_process_offer keeps the best, whatever it is offered next.           *)
LEMMA OfferHolds ==
    ASSUME NEW D, Rows(D), NEW C, C \subseteq D, IsFiniteSet(C), NEW x \in D \ C, NEW buf,
           Held(Ranks(D), buf, C)
    PROVE  Held(Ranks(D), Offer(buf, x), C \cup {x})
<1>. DEFINE R == Ranks(D)
            B == ToSet(buf)
            n == Len(buf)
<1>1. buf \in Seq(C) /\ Unrepeated(buf) /\ Top(R, B, C, SnapCap)
  BY DEF Held
<1>2. IsFiniteSet(B) /\ Cardinality(B) = n /\ B \subseteq C /\ n \in Nat
  BY <1>1, LengthOf
<1>3. StrictOrder(R, D)
  BY RanksOrder
<1>4. StrictOrder(R, C \cup {x}) /\ StrictOrder(R, B)
  BY <1>2, <1>3 DEF StrictOrder
<1>5. SnapCap \in Nat
  BY ObserveAssumption
<1>6. \A a, b \in D : <<a, b>> \in R <=> RanksBefore(a, b)
  BY DEF Ranks
<1>7. n <= SnapCap
  <2>1. Cardinality(C) \in Nat
    BY FS_CardinalityType
  <2>. QED
    BY <1>2, <1>5, <1>1, <2>1 DEF Top
<1>8. buf \in Seq(C \cup {x})
  BY <1>1
<1>. HIDE DEF R
<1>9. CASE n < SnapCap
  <2>. DEFINE t == Append(buf, x)
  <2>1. Offer(buf, x) = t
    BY <1>9 DEF Offer
  <2>2. t \in Seq(C \cup {x}) /\ Unrepeated(t) /\ ToSet(t) = B \cup {x}
    BY <1>1, Appended
  <2>3. Cardinality(B) # SnapCap
    BY <1>2, <1>5, <1>9
  <2>. HIDE DEF t, B
  <2>4. Top(R, B \cup {x}, C \cup {x}, SnapCap)
    BY <1>1, <1>5, <2>3, TopGrows
  <2>. QED
    BY <2>1, <2>2, <2>4 DEF Held, R
<1>10. CASE ~(n < SnapCap)
  <2>1. n = SnapCap /\ Cardinality(B) = SnapCap
    BY <1>2, <1>5, <1>7, <1>10
  <2>. DEFINE Worst(i) == \A j \in DOMAIN buf \ {i} : RanksBefore(buf[j], buf[i])
              worst == CHOOSE i \in DOMAIN buf : Worst(i)
  <2>2. Offer(buf, x) = IF SnapCap = 0 THEN buf
                        ELSE IF RanksBefore(x, buf[worst]) THEN [buf EXCEPT ![worst] = x]
                        ELSE buf
    BY <1>10 DEF Offer
  <2>3. ASSUME \A b \in B : <<b, x>> \in R
        PROVE  Held(R, buf, C \cup {x})
    <3>. HIDE DEF B
    <3>1. Top(R, B, C \cup {x}, SnapCap)
      BY <1>1, <1>5, <2>1, <2>3, TopKeeps
    <3>. QED
      BY <1>1, <1>8, <3>1 DEF Held, B
  <2>4. CASE SnapCap = 0
    <3>1. B = {}
      <4>. HIDE DEF B
      <4>. QED
        BY <1>2, <2>1, <2>4, FS_EmptySet
    <3>2. Held(R, buf, C \cup {x})
      BY <2>3, <3>1
    <3>. QED
      BY <2>2, <2>4, <3>2 DEF R
  <2>5. CASE SnapCap # 0
    <3>1. B # {}
      <4>. HIDE DEF B
      <4>. QED
        BY <1>2, <2>1, <2>5, FS_EmptySet
    <3>2. worst \in DOMAIN buf /\ Worst(worst)
      <4>1. PICK w \in B : \A b \in B \ {w} : <<b, w>> \in R
        <5>. HIDE DEF B
        <5>. QED
          BY <1>2, <1>4, <3>1, LastPlace
      <4>2. PICK i \in DOMAIN buf : buf[i] = w
        BY DEF ToSet
      <4>3. \A j \in DOMAIN buf \ {i} : buf[j] \in B \ {w}
        BY <4>2, <1>1 DEF Unrepeated, ToSet
      <4>4. Worst(i)
        BY <1>2, <1>6, <4>1, <4>2, <4>3
      <4>. HIDE DEF Worst
      <4>. QED
        BY <4>4
    <3>. DEFINE w == buf[worst]
    <3>3. w \in B /\ \A b \in B \ {w} : <<b, w>> \in R
      <4>1. w \in B
        BY <3>2 DEF ToSet
      <4>2. ASSUME NEW b \in B \ {w} PROVE <<b, w>> \in R
        <5>1. PICK j \in DOMAIN buf : buf[j] = b
          BY DEF ToSet
        <5>2. RanksBefore(b, w)
          BY <3>2, <5>1
        <5>. HIDE DEF worst, w
        <5>. QED
          BY <1>2, <1>6, <4>1, <5>2
      <4>. QED
        BY <4>1, <4>2
    <3>4. Offer(buf, x) = IF RanksBefore(x, w) THEN [buf EXCEPT ![worst] = x] ELSE buf
      BY <2>2, <2>5
    <3>5. w \in D /\ x # w
      BY <1>2, <3>3
    <3>6. CASE RanksBefore(x, w)
      <4>. DEFINE t == [buf EXCEPT ![worst] = x]
      <4>1. t \in Seq(C \cup {x}) /\ Unrepeated(t) /\ ToSet(t) = (B \ {w}) \cup {x}
        <5>1. worst \in DOMAIN buf /\ x \notin C
          BY <3>2
        <5>. HIDE DEF worst, B
        <5>2. buf \in Seq(C) /\ Unrepeated(buf)
          BY <1>1
        <5>3. t \in Seq(C \cup {x}) /\ Unrepeated(t)
          BY <5>1, <5>2, Replaced
        <5>4. Swaps(t, buf, worst, x)
          BY <5>1, <5>2, Replaced
        <5>. QED
          BY <5>3, <5>4 DEF B, Swaps
      <4>2. <<x, w>> \in R
        BY <1>6, <3>5, <3>6
      <4>3. Offer(buf, x) = t
        BY <3>4, <3>6
      <4>. HIDE DEF B, w, t
      <4>4. Top(R, (B \ {w}) \cup {x}, C \cup {x}, SnapCap)
        BY <1>1, <1>4, <1>5, <2>1, <3>3, <4>2, TopReplaces
      <4>. QED
        BY <4>1, <4>3, <4>4 DEF Held, R
    <3>7. CASE ~RanksBefore(x, w)
      <4>. HIDE DEF B, w
      <4>1. <<w, x>> \in R
        BY <1>3, <1>6, <3>5, <3>7 DEF StrictOrder
      <4>2. \A b \in B : <<b, x>> \in R
        BY <1>2, <1>3, <3>3, <3>5, <4>1 DEF StrictOrder
      <4>3. Held(R, buf, C \cup {x})
        BY <2>3, <4>2
      <4>. QED
        BY <3>4, <3>7, <4>3 DEF R
    <3>. QED
      BY <3>6, <3>7
  <2>. QED
    BY <2>4, <2>5
<1>. QED
  BY <1>9, <1>10

-----------------------------------------------------------------------------
(* select_processes: the buffer after every process of the list.            *)
KeptOf(rated) ==
    CHOOSE g : g = [n \in 0 .. Len(rated) |->
                       IF n = 0 THEN <<>>
                       ELSE IF Signal(rated[n]) THEN Offer(g[n - 1], rated[n])
                       ELSE g[n - 1]]

(* The selection of the model by its recursion.                             *)
LEMMA SelectProcessesIs ==
    ASSUME NEW rated
    PROVE  SelectProcesses(rated) = Select(KeptOf(rated)[Len(rated)])
BY DEF SelectProcesses, KeptOf

(* An offer keeps the buffer a list of processes of the table.              *)
LEMMA OfferType ==
    ASSUME NEW T, NEW buf \in Seq(T), NEW x \in T
    PROVE  Offer(buf, x) \in Seq(T)
<1>1. ASSUME NEW w PROVE [buf EXCEPT ![w] = x] \in Seq(T)
  <2>. DEFINE t == [buf EXCEPT ![w] = x]
              n == Len(buf)
  <2>1. n \in Nat /\ DOMAIN buf = 1 .. n /\ \A i \in 1 .. n : buf[i] \in T
    OBVIOUS
  <2>2. t = [i \in 1 .. n |-> IF i = w THEN x ELSE buf[i]]
    BY <2>1
  <2>. HIDE DEF n, t
  <2>3. t \in [1 .. n -> T]
    BY <2>1, <2>2
  <2>4. t \in Seq(T)
    BY <2>1, <2>3
  <2>. QED
    BY <2>4 DEF t
<1>2. Append(buf, x) \in Seq(T)
  OBVIOUS
<1>. QED
  BY <1>1, <1>2 DEF Offer

(* The loop over the list, one process after the other.                     *)
LEMMA KeptSteps ==
    ASSUME NEW T, NEW rated \in Seq(T)
    PROVE  /\ KeptOf(rated)[0] = <<>>
           /\ \A n \in 1 .. Len(rated) :
                 KeptOf(rated)[n] = IF Signal(rated[n])
                                    THEN Offer(KeptOf(rated)[n - 1], rated[n])
                                    ELSE KeptOf(rated)[n - 1]
<1>. DEFINE N == Len(rated)
            S == Seq(T)
            F == [p \in (1 .. N) \X S |->
                     IF Signal(rated[p[1]]) THEN Offer(p[2], rated[p[1]]) ELSE p[2]]
            Solves(g) == g = [n \in 0 .. N |->
                                 IF n = 0 THEN <<>>
                                 ELSE IF Signal(rated[n]) THEN Offer(g[n - 1], rated[n])
                                 ELSE g[n - 1]]
<1>1. N \in Nat /\ <<>> \in S /\ \A n \in 1 .. N : rated[n] \in T
  OBVIOUS
<1>2. F \in [(1 .. N) \X S -> S]
  <2>. SUFFICES ASSUME NEW p \in (1 .. N) \X S
                PROVE  (IF Signal(rated[p[1]]) THEN Offer(p[2], rated[p[1]]) ELSE p[2]) \in S
    OBVIOUS
  <2>1. p[1] \in 1 .. N /\ p[2] \in Seq(T)
    OBVIOUS
  <2>2. Offer(p[2], rated[p[1]]) \in Seq(T)
    BY <1>1, <2>1, OfferType
  <2>. QED
    BY <2>1, <2>2
<1>3. \A n \in 1 .. N, b \in S :
         F[<<n, b>>] = IF Signal(rated[n]) THEN Offer(b, rated[n]) ELSE b
  OBVIOUS
<1>. HIDE DEF F, S
<1>4. PICK g : Recurs(g, N, S, <<>>, F)
  <2>. DEFINE e == <<>>
  <2>1. e \in S
    BY <1>1
  <2>. HIDE DEF N, e
  <2>2. \E g : Recurs(g, N, S, e, F)
    BY <1>1, <1>2, <2>1, Recursion
  <2>. QED
    BY <2>2 DEF e
<1>5. Solves(g)
  <2>. HIDE DEF N
  <2>1. ASSUME NEW n \in 0 .. N
        PROVE  g[n] = IF n = 0 THEN <<>>
                      ELSE IF Signal(rated[n]) THEN Offer(g[n - 1], rated[n])
                      ELSE g[n - 1]
    <3>1. CASE n = 0
      BY <1>4, <3>1 DEF Recurs
    <3>2. CASE n # 0
      <4>1. n \in 1 .. N /\ n - 1 \in 0 .. N
        BY <1>1, <3>2
      <4>2. g[n - 1] \in S /\ g[n] = F[<<n, g[n - 1]>>]
        BY <1>4, <4>1 DEF Recurs
      <4>. QED
        BY <1>3, <3>2, <4>1, <4>2
    <3>. QED
      BY <3>1, <3>2
  <2>2. g = [n \in 0 .. N |-> g[n]]
    BY <1>4 DEF Recurs
  <2>. QED
    BY <2>1, <2>2
<1>6. Solves(KeptOf(rated))
  <2>1. KeptOf(rated) = CHOOSE h : Solves(h)
    BY DEF KeptOf
  <2>. HIDE DEF Solves
  <2>. QED
    BY <1>5, <2>1
<1>7. 0 \in 0 .. N /\ \A n \in 1 .. N : n \in 0 .. N /\ n # 0
  BY <1>1
<1>. QED
  BY <1>6, <1>7

\* The processes among the first n of a list that are a signal.
(* Of the first n processes, those the snapshot would show.                 *)
Signals(rated, n) == {s \in {rated[i] : i \in 1 .. n} : Signal(s)}

(* After the whole listing the buffer holds the best of the processes that  *)
(* signal anything (spg_process_select).                                    *)
LEMMA KeptHolds ==
    ASSUME NEW T, NEW rated \in Seq(T), Unrepeated(rated), Rows(ToSet(rated))
    PROVE  Held(Ranks(ToSet(rated)), KeptOf(rated)[Len(rated)], Signals(rated, Len(rated)))
<1>. DEFINE N == Len(rated)
            D == ToSet(rated)
            R == Ranks(D)
            g == KeptOf(rated)
            K == {n \in 0 .. N : Held(R, g[n], Signals(rated, n))}
<1>1. N \in Nat /\ DOMAIN rated = 1 .. N
  OBVIOUS
<1>2. D = {rated[i] : i \in 1 .. N} /\ \A i \in 1 .. N : rated[i] \in D
  BY <1>1 DEF ToSet
<1>3. /\ g[0] = <<>>
      /\ \A n \in 1 .. N : g[n] = IF Signal(rated[n]) THEN Offer(g[n - 1], rated[n])
                                  ELSE g[n - 1]
  BY KeptSteps
<1>4. Rows(D) /\ IsFiniteSet(D)
  BY LengthOf
<1>. HIDE DEF N, D, g
<1>5. 0 \in K
  <2>1. Signals(rated, 0) = {}
    BY DEF Signals
  <2>2. <<>> \in Seq({}) /\ Unrepeated(<<>>) /\ ToSet(<<>>) = {}
    BY DEF Unrepeated, ToSet
  <2>3. Cardinality({}) = 0 /\ SnapCap \in Nat
    BY FS_EmptySet, ObserveAssumption
  <2>4. Top(R, {}, {}, SnapCap)
    BY <2>3 DEF Top
  <2>5. Held(R, <<>>, {})
    BY <2>2, <2>4 DEF Held
  <2>6. Held(R, g[0], Signals(rated, 0))
    BY <1>3, <2>1, <2>5
  <2>7. 0 \in 0 .. N
    BY <1>1
  <2>. HIDE DEF R
  <2>. QED
    BY <2>6, <2>7
<1>6. ASSUME NEW n \in K, n < N PROVE n + 1 \in K
  <2>. DEFINE m == n + 1
              C == Signals(rated, n)
              x == rated[m]
  <2>1. n \in 0 .. N /\ Held(R, g[n], C)
    OBVIOUS
  <2>2. n \in Nat /\ m \in 1 .. N /\ m \in 0 .. N /\ m - 1 = n /\ m \notin 1 .. n
        /\ 1 .. m = (1 .. n) \cup {m} /\ 1 .. n \subseteq 1 .. N
    BY <1>1, <1>6, <2>1
  <2>. HIDE DEF m
  <2>3. g[m] = IF Signal(x) THEN Offer(g[n], x) ELSE g[n]
    BY <1>3, <2>2
  <2>4. Signals(rated, m) = IF Signal(x) THEN C \cup {x} ELSE C
    BY <2>2 DEF Signals
  <2>5. C \subseteq D /\ IsFiniteSet(C) /\ x \in D /\ x \notin C
    <3>1. C \in SUBSET D /\ x \in D
      BY <1>2, <2>2 DEF Signals
    <3>2. x \notin C
      BY <1>1, <2>2 DEF Signals, Unrepeated
    <3>. QED
      BY <1>4, <3>1, <3>2, FS_Subset
  <2>6. Held(R, g[m], Signals(rated, m))
    <3>1. CASE Signal(x)
      <4>1. Held(R, Offer(g[n], x), C \cup {x})
        <5>. HIDE DEF C, x
        <5>. QED
          BY <1>4, <2>1, <2>5, OfferHolds
      <4>. QED
        BY <2>3, <2>4, <3>1, <4>1
    <3>2. CASE ~Signal(x)
      BY <2>1, <2>3, <2>4, <3>2
    <3>. QED
      BY <3>1, <3>2
  <2>. HIDE DEF R
  <2>. QED
    BY <2>2, <2>6 DEF m
<1>7. K \in SUBSET (0 .. N)
  OBVIOUS
<1>. HIDE DEF K
<1>8. K = 0 .. N
  BY <1>1, <1>5, <1>6, <1>7, UpTo
<1>9. N \in K
  BY <1>1, <1>8
<1>. QED
  BY <1>9 DEF K, N, D, g

(* spg_process_select: the buffer, strongest first.                         *)
LEMMA SelectSorts ==
    ASSUME NEW D, Rows(D), NEW C, C \subseteq D, IsFiniteSet(C), NEW buf,
           Held(Ranks(D), buf, C)
    PROVE  /\ Len(Select(buf)) = Len(buf) /\ DOMAIN Select(buf) = 1 .. Len(buf)
           /\ Len(buf) \in Nat
           /\ ToSet(Select(buf)) = {s \in C : Cardinality(Ahead(Ranks(D), C, s)) < SnapCap}
           /\ \A i \in DOMAIN Select(buf) :
                 Cardinality(Ahead(Ranks(D), C, Select(buf)[i])) = i - 1
<1>. DEFINE R == Ranks(D)
            B == ToSet(buf)
            n == Len(buf)
            t == Select(buf)
<1>1. buf \in Seq(C) /\ Unrepeated(buf) /\ Top(R, B, C, SnapCap)
  BY DEF Held
<1>2. IsFiniteSet(B) /\ Cardinality(B) = n /\ B \subseteq C /\ n \in Nat
      /\ DOMAIN buf = 1 .. n
  BY <1>1, LengthOf
<1>3. StrictOrder(R, C) /\ SnapCap \in Nat
  BY RanksOrder, ObserveAssumption DEF StrictOrder
<1>4. \A a, b \in D : <<a, b>> \in R <=> RanksBefore(a, b)
  BY DEF Ranks
<1>. HIDE DEF R
<1>5. /\ B = {s \in C : Cardinality(Ahead(R, C, s)) < SnapCap}
      /\ \A s \in B : Ahead(R, B, s) = Ahead(R, C, s)
      /\ StrictOrder(R, B)
  <2>. HIDE DEF B
  <2>. QED
    BY <1>1, <1>3, TopIsBest
<1>6. \A s \in B : {u \in B : RanksBefore(u, s)} = Ahead(R, B, s)
  BY <1>2, <1>4 DEF Ahead
<1>7. t = [i \in 1 .. n |->
             CHOOSE s \in B : Cardinality({u \in B : RanksBefore(u, s)}) = i - 1]
  BY <1>2 DEF Select
<1>. HIDE DEF B, n, t
<1>8. ASSUME NEW i \in 1 .. n
      PROVE  t[i] \in B /\ Cardinality(Ahead(R, B, t[i])) = i - 1
  <2>0. i \in 1 .. Cardinality(B) /\ IsFiniteSet(B) /\ StrictOrder(R, B)
    BY <1>2, <1>5
  <2>1. PICK s \in B : Cardinality(Ahead(R, B, s)) = i - 1
    BY <2>0, PlaceTaken
  <2>2. Cardinality({u \in B : RanksBefore(u, s)}) = i - 1
    BY <1>6, <2>1
  <2>3. t[i] \in B /\ Cardinality({u \in B : RanksBefore(u, t[i])}) = i - 1
    BY <1>7, <2>2
  <2>. QED
    BY <1>6, <2>3
<1>9. DOMAIN t = 1 .. n /\ Len(t) = n
  BY <1>2, <1>7
<1>10. ToSet(t) = B
  <2>1. ASSUME NEW s \in B PROVE \E i \in 1 .. n : t[i] = s
    <3>. DEFINE i == Cardinality(Ahead(R, B, s)) + 1
    <3>1. Cardinality(Ahead(R, B, s)) \in Nat /\ Cardinality(Ahead(R, B, s)) < n
      BY <1>2, <1>5, AheadFinite, AheadLess
    <3>2. i \in 1 .. n /\ i - 1 = Cardinality(Ahead(R, B, s))
      BY <1>2, <3>1
    <3>. HIDE DEF i
    <3>3. t[i] \in B /\ Cardinality(Ahead(R, B, t[i])) = Cardinality(Ahead(R, B, s))
      BY <1>8, <3>2
    <3>4. t[i] = s
      BY <1>2, <1>5, <3>2, <3>3, PlaceTaken
    <3>. QED
      BY <3>2, <3>4
  <2>. QED
    BY <1>8, <1>9, <2>1 DEF ToSet
<1>11. \A i \in DOMAIN t : Cardinality(Ahead(R, C, t[i])) = i - 1
  BY <1>5, <1>8, <1>9
<1>. QED
  BY <1>2, <1>5, <1>9, <1>10, <1>11 DEF R, B, n, t

-----------------------------------------------------------------------------
(* The sampler, from the listing to the snapshot.                           *)

\* What a process of the host is read as; what is known of a process shown.
ReadRow(s) == {s.pid, s.time, s.rss} \subseteq Int
ShownRow(s, p) ==
    /\ {s.pid, s.time, s.rss, s.bp} \subseteq Int
    /\ s.entry \in 0 .. Len(p) /\ s.role = Role(p, s.entry)

\* A list with an index from one on.
List(s) == Len(s) \in Nat /\ DOMAIN s = 1 .. Len(s)

(* A share is a part of the whole. *)
LEMMA ShareOf ==
    ASSUME NEW a \in Nat, NEW d \in Nat, a < d
    PROVE  (a * Scale) \div d \in 0 .. Scale
<1>. DEFINE n == a * Scale
            q == n \div d
            D == Scale * d
            m == q * d
<1>1. n \in Nat /\ D \in Nat /\ n < D /\ d > 0 /\ Scale \in Nat
  BY DEF Scale
<1>. HIDE DEF n
<1>2. q \in Nat /\ m \in Nat /\ m <= n
  BY <1>1
<1>. HIDE DEF q
<1>3. q > Scale => m >= D
  BY <1>2 DEF Scale
<1>. HIDE DEF m, D
<1>4. ~(q > Scale)
  BY <1>1, <1>2, <1>3
<1>5. q \in 0 .. Scale
  BY <1>1, <1>2, <1>4
<1>. QED
  BY <1>5 DEF q, n

(* spg_process_utilisation_bp: a known share is one of a process that was   *)
(* there before.                                                            *)
LEMMA UtilisationOf ==
    ASSUME NEW prev, List(prev), \A i \in DOMAIN prev : prev[i].time \in Int,
           NEW s, s.time \in Int, NEW delta \in Nat
    PROVE  \/ ProcessUtilisation(prev, s, delta) = MachineUnknown
           \/ /\ ProcessUtilisation(prev, s, delta) \in 0 .. Scale
              /\ \E i \in DOMAIN prev : SameProcess(prev[i], s)
<1>. DEFINE before == {i \in DOMAIN prev : SameProcess(prev[i], s)}
            b == s.time - prev[Min(before)].time
<1>1. CASE before = {} \/ delta = 0
  BY <1>1 DEF ProcessUtilisation
<1>2. CASE before # {} /\ delta # 0
  <2>1. \E i \in DOMAIN prev : SameProcess(prev[i], s)
    BY <1>2
  <2>2. Min(before) \in before
    <3>1. before \in SUBSET (1 .. Len(prev)) /\ Len(prev) \in Nat
      BY DEF List
    <3>. HIDE DEF before
    <3>. QED
      BY <1>2, <3>1, LeastIndex
  <2>3. b \in Int
    <3>1. Min(before) \in DOMAIN prev
      BY <2>2
    <3>. QED
      BY <3>1
  <2>4. ProcessUtilisation(prev, s, delta) =
           IF b < 0 THEN MachineUnknown
           ELSE IF b >= delta THEN Scale ELSE (b * Scale) \div delta
    BY <1>2 DEF ProcessUtilisation
  <2>. HIDE DEF b, before
  <2>5. b >= 0 /\ ~(b >= delta) => (b * Scale) \div delta \in 0 .. Scale
    BY <2>3, ShareOf
  <2>6. Scale \in 0 .. Scale
    BY DEF Scale
  <2>. QED
    BY <2>1, <2>3, <2>4, <2>5, <2>6
<1>. QED
  BY <1>1, <1>2

(* spg_process_profile_match answers an entry of the profile, or none. *)
LEMMA MatchIndex ==
    ASSUME NEW p, List(p), NEW name
    PROVE  ProfileMatch(p, name) \in 0 .. Len(p)
<1>. DEFINE fit == {i \in DOMAIN p : Matches(p[i], name)}
<1>1. fit \in SUBSET (1 .. Len(p)) /\ Len(p) \in Nat
  BY DEF List
<1>2. ProfileMatch(p, name) = IF fit = {} THEN 0 ELSE Min(fit)
  BY DEF ProfileMatch
<1>. HIDE DEF fit
<1>3. fit # {} => Min(fit) \in fit
  BY <1>1, LeastIndex
<1>4. fit # {} => Min(fit) \in 1 .. Len(p)
  BY <1>1, <1>3
<1>. QED
  BY <1>1, <1>2, <1>4

(* What is known of one rated process. *)
LEMMA RatedRow ==
    ASSUME NEW prev, List(prev), \A i \in DOMAIN prev : prev[i].time \in Int,
           NEW s, ReadRow(s), NEW delta \in Nat, List(conf.profile)
    PROVE  /\ ShownRow(Rated(s, prev, delta), conf.profile)
           /\ Rated(s, prev, delta).pid = s.pid
           /\ Known(Rated(s, prev, delta).bp) =>
                 /\ Rated(s, prev, delta).bp \in 0 .. Scale
                 /\ \E i \in DOMAIN prev : SameProcess(prev[i], Rated(s, prev, delta))
<1>. DEFINE r == Rated(s, prev, delta)
            u == ProcessUtilisation(prev, s, delta)
            e == ProfileMatch(conf.profile, s.name)
<1>1. /\ r.pid = s.pid /\ r.id = s.id /\ r.time = s.time /\ r.rss = s.rss
      /\ r.entry = e /\ r.role = Role(conf.profile, e) /\ r.bp = u
  BY DEF Rated
<1>2. \/ u = MachineUnknown
      \/ u \in 0 .. Scale /\ \E i \in DOMAIN prev : SameProcess(prev[i], s)
  <2>1. s.time \in Int
    BY DEF ReadRow
  <2>. QED
    BY <2>1, UtilisationOf
<1>3. e \in 0 .. Len(conf.profile)
  BY MatchIndex
<1>. HIDE DEF r, u, e
<1>4. u \in Int
  <2>1. u = -1 \/ u \in 0 .. 10000
    BY <1>2 DEF MachineUnknown, Scale
  <2>2. CASE u = -1
    <3>1. -1 \in Int
      OBVIOUS
    <3>. QED
      BY <2>2, <3>1
  <2>3. CASE u \in 0 .. 10000
    BY <2>3
  <2>. QED
    BY <2>1, <2>2, <2>3
<1>5. ShownRow(r, conf.profile)
  BY <1>1, <1>3, <1>4 DEF ShownRow, ReadRow
<1>6. \A x : SameProcess(x, r) <=> SameProcess(x, s)
  BY <1>1 DEF SameProcess
<1>. QED
  BY <1>1, <1>2, <1>5, <1>6 DEF Known, r

(* select_processes as a whole: out of a listing where no pid comes twice   *)
(* and every row is complete, the strongest signals, in their order.        *)
LEMMA SelectBest ==
    ASSUME NEW S, NEW rated \in Seq(S), Rows(ToSet(rated)),
           \A i, j \in DOMAIN rated : rated[i].pid = rated[j].pid => i = j
    PROVE  /\ List(SelectProcesses(rated))
           /\ \E C : /\ C = {s \in ToSet(rated) : Signal(s)}
                     /\ ToSet(SelectProcesses(rated)) =
                           {s \in C : Cardinality(Ahead(Ranks(ToSet(rated)), C, s)) < SnapCap}
                     /\ \A i \in DOMAIN SelectProcesses(rated) :
                           Cardinality(Ahead(Ranks(ToSet(rated)), C, SelectProcesses(rated)[i]))
                               = i - 1
<1>. DEFINE D == ToSet(rated)
            n == Len(rated)
            C == Signals(rated, n)
            buf == KeptOf(rated)[n]
            t == SelectProcesses(rated)
<1>1. D = {rated[i] : i \in 1 .. n} /\ DOMAIN rated = 1 .. n /\ n \in Nat
  BY DEF ToSet
<1>2. rated \in Seq(D)
  BY <1>1
<1>3. Unrepeated(rated)
  BY DEF Unrepeated
<1>4. Held(Ranks(D), buf, C)
  <2>. HIDE DEF D
  <2>1. Rows(ToSet(rated)) /\ rated \in Seq(D) /\ Unrepeated(rated)
    BY <1>2, <1>3
  <2>. QED
    BY <2>1, KeptHolds DEF D
<1>5. IsFiniteSet(D)
  BY <1>2, <1>3, LengthOf
<1>6. C = {s \in D : Signal(s)}
  BY <1>1 DEF Signals
<1>7. C \in SUBSET D
  BY <1>6
<1>8. IsFiniteSet(C) /\ C \subseteq D /\ Rows(D)
  BY <1>5, <1>7, FS_Subset
<1>9. t = Select(buf)
  BY SelectProcessesIs
<1>. HIDE DEF D, C, buf, t
<1>10. /\ Len(Select(buf)) = Len(buf) /\ DOMAIN Select(buf) = 1 .. Len(buf)
       /\ Len(buf) \in Nat
       /\ ToSet(Select(buf)) = {s \in C : Cardinality(Ahead(Ranks(D), C, s)) < SnapCap}
       /\ \A i \in DOMAIN Select(buf) :
             Cardinality(Ahead(Ranks(D), C, Select(buf)[i])) = i - 1
  BY <1>4, <1>8, SelectSorts
<1>. QED
  BY <1>6, <1>9, <1>10 DEF List, D, t

-----------------------------------------------------------------------------
(* What the sampler can rely on.  A process of the host has counters; a     *)
(* listing has every pid once, and nothing in it when /proc did not open;   *)
(* the snapshot before is a list of complete rows.                          *)
ProcessOk(x) ==
    x # NoProcess => /\ DOMAIN x = {"id", "cpu", "st", "name", "pages"}
                     /\ x.cpu \in Nat /\ x.pages \in Nat

(* The host: its processes have counters, and its own are numbers.          *)
HostInv ==
    /\ DOMAIN host = {"proc", "tot", "idle", "births"}
    /\ DOMAIN host.proc = Pids /\ \A p \in Pids : ProcessOk(host.proc[p])
    /\ host.tot \in Int

(* A listing read so far.                                                   *)
Listing(raw, seen) ==
    /\ \E S : raw \in Seq(S)
    /\ \A i \in DOMAIN raw : ReadRow(raw[i]) /\ raw[i].pid \in seen
    /\ \A i, j \in DOMAIN raw : raw[i].pid = raw[j].pid => i = j

(* The sample under way.                                                    *)
SmpInv ==
    /\ DOMAIN smp = {"cpu", "cpuOk", "sense", "listed", "seen", "raw", "total"}
    /\ Listing(smp.raw, smp.seen)
    /\ smp.cpu.total \in Int
    /\ phase = "dir" => smp.sense \in conf.readings /\ (~smp.sense.dir => smp.total = 0)

(* The snapshot before: complete rows, each read as the profile has it.     *)
MachineInv ==
    /\ List(machine.procs)
    /\ \A i \in DOMAIN machine.procs : ShownRow(machine.procs[i], conf.profile)
    /\ DOMAIN machine = {"cpu", "util", "temp", "mem", "procs", "count", "truncated"}
    /\ machine.cpu.total \in Int /\ machine.temp \in Int

(* The inductive invariant of the sampler, with the two properties it is    *)
(* for.                                                                     *)
SampleInv ==
    /\ conf \in Scenarios /\ {"prior", "basis", "first"} \subseteq DOMAIN aux
    /\ HostInv /\ SmpInv /\ MachineInv
    /\ SnapshotIsBest /\ SharesOwnProcess

(* A listing grows by a process whose pid was not listed before. *)
LEMMA ListingGrows ==
    ASSUME NEW raw, NEW seen, Listing(raw, seen), NEW p, p \notin seen,
           NEW s, ReadRow(s), s.pid = p
    PROVE  Listing(Append(raw, s), seen \cup {p})
<1>. DEFINE t == Append(raw, s)
            n == Len(raw)
<1>1. PICK S : raw \in Seq(S)
  BY DEF Listing
<1>2. /\ n \in Nat /\ DOMAIN raw = 1 .. n /\ DOMAIN t = 1 .. n + 1
      /\ t[n + 1] = s /\ \A i \in 1 .. n : t[i] = raw[i]
      /\ t \in Seq(S \cup {s})
  BY <1>1
<1>. HIDE DEF t, n
<1>3. \A i \in 1 .. n + 1 : i \in 1 .. n \/ i = n + 1
  BY <1>2
<1>4. \A i \in 1 .. n : ReadRow(t[i]) /\ t[i].pid \in seen
  BY <1>2 DEF Listing
<1>5. \A i, j \in 1 .. n : t[i].pid = t[j].pid => i = j
  BY <1>2 DEF Listing
<1>6. \A i \in DOMAIN t : ReadRow(t[i]) /\ t[i].pid \in seen \cup {p}
  BY <1>2, <1>3, <1>4
<1>7. \A i, j \in DOMAIN t : t[i].pid = t[j].pid => i = j
  BY <1>2, <1>3, <1>4, <1>5
<1>. QED
  BY <1>2, <1>6, <1>7 DEF Listing, t

(* Nothing is known at the start, and nothing is shown. *)
LEMMA SampleInit ==
    ASSUME ObserveInit
    PROVE  SampleInv
<1>1. /\ conf \in Scenarios /\ host.proc = conf.procs /\ host.tot = 2
      /\ DOMAIN host = {"proc", "tot", "idle", "births"}
      /\ smp = NoSample /\ machine = NoSnapshot /\ phase = "start"
      /\ {"prior", "basis", "first"} \subseteq DOMAIN aux /\ aux.basis = {}
  BY DEF ObserveInit
<1>2. HostInv
  <2>1. /\ DOMAIN conf.procs = Pids
        /\ \A p \in Pids :
              conf.procs[p] # NoProcess =>
                 /\ DOMAIN conf.procs[p] = {"id", "cpu", "st", "name", "pages"}
                 /\ {conf.procs[p].cpu, conf.procs[p].pages} \subseteq Nat
    BY <1>1, ObserveAssumption
  <2>. QED
    BY <1>1, <2>1 DEF HostInv, ProcessOk
<1>3. SmpInv
  <2>1. <<>> \in Seq({}) /\ DOMAIN <<>> = {}
    OBVIOUS
  <2>2. Listing(<<>>, {})
    BY <2>1 DEF Listing
  <2>. QED
    BY <1>1, <2>2 DEF SmpInv, NoSample, NoCpu
<1>4. MachineInv
  BY <1>1 DEF MachineInv, NoSnapshot, NoCpu, List, MachineUnknown
<1>5. SnapshotIsBest
  <2>1. machine.procs = <<>> /\ machine.truncated = FALSE /\ machine.count = -1
    BY <1>1 DEF NoSnapshot, MachineUnknown
  <2>2. ToSet(machine.procs) = {} /\ DOMAIN machine.procs = {} /\ Len(machine.procs) = 0
    BY <2>1 DEF ToSet
  <2>. QED
    BY <1>1, <2>1, <2>2 DEF SnapshotIsBest
<1>6. SharesOwnProcess
  BY <1>1 DEF SharesOwnProcess, NoSnapshot
<1>. QED
  BY <1>1, <1>2, <1>3, <1>4, <1>5, <1>6 DEF SampleInv

(* What stays as it is keeps what was known of it. *)
LEMMA SnapshotRests ==
    ASSUME SampleInv, conf' = conf, machine' = machine, DOMAIN aux' = DOMAIN aux,
           aux'.prior = aux.prior, aux'.basis = aux.basis
    PROVE  /\ conf' \in Scenarios /\ {"prior", "basis", "first"} \subseteq DOMAIN aux'
           /\ MachineInv' /\ SnapshotIsBest' /\ SharesOwnProcess'
<1>1. MachineInv'
  BY DEF SampleInv, MachineInv
<1>2. SnapshotIsBest'
  BY DEF SampleInv, SnapshotIsBest
<1>3. SharesOwnProcess'
  BY DEF SampleInv, SharesOwnProcess
<1>. QED
  BY <1>1, <1>2, <1>3 DEF SampleInv

(* The host as it was is a host the sampler can rely on.                    *)
LEMMA HostRests ==
    ASSUME HostInv, host' = host
    PROVE  HostInv'
BY DEF HostInv

(* The sample as it was, unless the listing begins.                         *)
LEMMA SmpRests ==
    ASSUME SmpInv, smp' = smp, conf' = conf, phase' = "dir" => phase = "dir"
    PROVE  SmpInv'
BY DEF SmpInv

(* Whatever the host does, its processes keep their counters. *)
LEMMA HostMoveKeeps ==
    ASSUME SampleInv, HostMoves
    PROVE  SampleInv'
<1>1. PICK h : HostSteps(h) /\ host' = h
  BY DEF HostMoves, Work, Exit, Stop, Spawn, Idle, CountersReset, HostSteps
<1>2. /\ conf' = conf /\ machine' = machine /\ smp' = smp /\ phase' = phase
      /\ DOMAIN aux' = DOMAIN aux /\ aux'.prior = aux.prior /\ aux'.basis = aux.basis
  BY <1>1 DEF HostSteps, SampleInv
<1>3. HostInv
  BY DEF SampleInv
<1>4. HostInv'
  <2>1. CASE \E p \in Pids : Work(p)
    <3>1. PICK p \in Pids : Alive(p) /\ host' = [host EXCEPT !.proc[p].cpu = @ + 1, !.tot = @ + 1]
      BY <2>1 DEF Work, HostSteps
    <3>2. /\ DOMAIN host' = DOMAIN host /\ host'.tot = host.tot + 1
          /\ host'.proc = [host.proc EXCEPT ![p] = [host.proc[p] EXCEPT !.cpu = @ + 1]]
      BY <1>3, <3>1 DEF HostInv
    <3>3. ProcessOk([host.proc[p] EXCEPT !.cpu = @ + 1])
      BY <1>3, <3>1 DEF HostInv, ProcessOk, Alive
    <3>. QED
      BY <1>3, <3>2, <3>3 DEF HostInv
  <2>2. CASE \E p \in Pids : Stop(p)
    <3>1. PICK p \in Pids : Alive(p) /\ host' = [host EXCEPT !.proc[p].st = "T"]
      BY <2>2 DEF Stop, HostSteps
    <3>2. /\ DOMAIN host' = DOMAIN host /\ host'.tot = host.tot
          /\ host'.proc = [host.proc EXCEPT ![p] = [host.proc[p] EXCEPT !.st = "T"]]
      BY <1>3, <3>1 DEF HostInv
    <3>3. ProcessOk([host.proc[p] EXCEPT !.st = "T"])
      BY <1>3, <3>1 DEF HostInv, ProcessOk, Alive
    <3>. QED
      BY <1>3, <3>2, <3>3 DEF HostInv
  <2>3. CASE \E p \in Pids : Exit(p)
    <3>1. PICK p \in Pids : host' = [host EXCEPT !.proc[p] = NoProcess]
      BY <2>3 DEF Exit, HostSteps
    <3>2. /\ DOMAIN host' = DOMAIN host /\ host'.tot = host.tot
          /\ host'.proc = [host.proc EXCEPT ![p] = NoProcess]
      BY <1>3, <3>1 DEF HostInv
    <3>3. ProcessOk(NoProcess)
      BY DEF ProcessOk
    <3>. QED
      BY <1>3, <3>2, <3>3 DEF HostInv
  <2>4. CASE \E p \in Pids, name \in Programs, pages \in Pages : Spawn(p, name, pages)
    <3>. DEFINE New(n, g) == [id |-> host.births + 1, cpu |-> 0, st |-> "R",
                              name |-> n, pages |-> g]
    <3>1. PICK p \in Pids, name \in Programs, pages \in Pages :
             host' = [host EXCEPT !.births = @ + 1, !.proc[p] = New(name, pages)]
      BY <2>4 DEF Spawn, HostSteps
    <3>2. ProcessOk(New(name, pages))
      <4>1. pages \in Nat
        BY ObserveAssumption
      <4>. QED
        BY <4>1 DEF ProcessOk
    <3>. HIDE DEF New
    <3>3. /\ DOMAIN host' = DOMAIN host /\ host'.tot = host.tot
          /\ host'.proc = [host.proc EXCEPT ![p] = New(name, pages)]
      BY <1>3, <3>1 DEF HostInv
    <3>. QED
      BY <1>3, <3>2, <3>3 DEF HostInv
  <2>5. CASE Idle
    <3>1. host' = [host EXCEPT !.tot = @ + 1, !.idle = @ + 1]
      BY <2>5 DEF Idle, HostSteps
    <3>2. DOMAIN host' = DOMAIN host /\ host'.proc = host.proc
      BY <1>3, <3>1 DEF HostInv
    <3>3. host'.tot = host.tot + 1
      BY <1>3, <3>1 DEF HostInv
    <3>. QED
      BY <1>3, <3>2, <3>3 DEF HostInv
  <2>6. CASE CountersReset
    <3>1. host' = [host EXCEPT !.tot = 0, !.idle = 0]
      BY <2>6 DEF CountersReset, HostSteps
    <3>2. DOMAIN host' = DOMAIN host /\ host'.proc = host.proc /\ host'.tot = 0
      BY <1>3, <3>1 DEF HostInv
    <3>. QED
      BY <1>3, <3>2 DEF HostInv
  <2>. QED
    BY <2>1, <2>2, <2>3, <2>4, <2>5, <2>6, Zenon DEF HostMoves
<1>5. SmpInv'
  BY <1>2, SmpRests DEF SampleInv
<1>. QED
  BY <1>2, <1>4, <1>5, SnapshotRests DEF SampleInv

(* The counters are read, /proc is opened: nothing is listed yet. *)
LEMMA OpenKeeps ==
    ASSUME SampleInv, OpenSample
    PROVE  SampleInv'
<1>1. /\ conf' = conf /\ machine' = machine /\ host' = host /\ aux' = aux
      /\ phase' = "dir"
  BY DEF OpenSample
<1>2. PICK r \in conf.readings :
         smp' = [cpuOk  |-> r.cpu,
                 cpu    |-> IF r.cpu THEN [total |-> host.tot, idle |-> host.idle]
                            ELSE NoCpu,
                 sense  |-> r,
                 listed |-> IF r.dir THEN {p \in Pids : Alive(p)} ELSE {},
                 seen   |-> {}, raw |-> <<>>, total |-> 0]
  BY DEF OpenSample
<1>3. SmpInv'
  <2>1. <<>> \in Seq({}) /\ DOMAIN <<>> = {}
    OBVIOUS
  <2>2. Listing(<<>>, {})
    BY <2>1 DEF Listing
  <2>3. smp'.cpu.total \in Int
    BY <1>2 DEF SampleInv, HostInv, NoCpu
  <2>4. /\ DOMAIN smp' = {"cpu", "cpuOk", "sense", "listed", "seen", "raw", "total"}
        /\ smp'.raw = <<>> /\ smp'.seen = {} /\ smp'.total = 0 /\ smp'.sense = r
    BY <1>2
  <2>. QED
    BY <1>1, <2>2, <2>3, <2>4 DEF SmpInv
<1>. QED
  BY <1>1, <1>3, SnapshotRests, HostRests DEF SampleInv

(* A pid is read once in a listing, and what is read of it is a row. *)
LEMMA ReadKeeps ==
    ASSUME SampleInv, NEW p \in Pids, ReadEntry(p)
    PROVE  SampleInv'
<1>1. /\ conf' = conf /\ machine' = machine /\ host' = host /\ aux' = aux
      /\ phase' = phase /\ phase = "dir" /\ p \notin smp.seen /\ smp.sense.dir
      /\ smp' = [smp EXCEPT !.seen = @ \cup {p}, !.total = @ + 1,
                            !.raw = IF Len(@) < RawCap /\ Alive(p)
                                    THEN Append(@, ParseStat(p)) ELSE @]
  BY DEF ReadEntry
<1>. DEFINE raw == IF Len(smp.raw) < RawCap /\ Alive(p)
                   THEN Append(smp.raw, ParseStat(p)) ELSE smp.raw
<1>2. SmpInv /\ HostInv
  BY DEF SampleInv
<1>3. /\ DOMAIN smp' = {"cpu", "cpuOk", "sense", "listed", "seen", "raw", "total"}
      /\ smp'.raw = raw /\ smp'.seen = smp.seen \cup {p}
      /\ smp'.sense = smp.sense /\ smp'.cpu = smp.cpu
  BY <1>1, <1>2 DEF SmpInv
<1>4. Listing(raw, smp.seen \cup {p})
  <2>1. CASE Len(smp.raw) < RawCap /\ Alive(p)
    <3>1. ReadRow(ParseStat(p)) /\ ParseStat(p).pid = p
      <4>1. host.proc[p].cpu \in Nat /\ host.proc[p].pages \in Nat
        BY <1>2, <2>1 DEF HostInv, ProcessOk, Alive
      <4>2. PageBytes \in Nat /\ p \in Nat
        BY ObserveAssumption
      <4>3. host.proc[p].pages * PageBytes \in Int
        BY <4>1, <4>2
      <4>. QED
        BY <4>1, <4>2, <4>3 DEF ParseStat, ReadRow, MachineUnknown
    <3>2. raw = Append(smp.raw, ParseStat(p))
      BY <2>1
    <3>. QED
      BY <1>1, <1>2, <3>1, <3>2, ListingGrows DEF SmpInv
  <2>2. CASE ~(Len(smp.raw) < RawCap /\ Alive(p))
    <3>1. raw = smp.raw
      BY <2>2
    <3>. QED
      BY <1>2, <3>1 DEF SmpInv, Listing
  <2>. QED
    BY <2>1, <2>2
<1>. HIDE DEF raw
<1>5. SmpInv'
  BY <1>1, <1>2, <1>3, <1>4 DEF SmpInv
<1>. QED
  BY <1>1, <1>5, SnapshotRests, HostRests DEF SampleInv

(* The snapshot that is installed: the strongest of what was read, each     *)
(* share measured against the snapshot before.                              *)
LEMMA CloseKeeps ==
    ASSUME SampleInv, CloseSample
    PROVE  SampleInv'
<1>. DEFINE delta == IF smp.cpuOk /\ ~aux.first /\ smp.cpu.total >= machine.cpu.total
                     THEN smp.cpu.total - machine.cpu.total ELSE 0
            prev == machine.procs
            rated == RatedAll(smp.raw, prev, delta)
            procs == SelectProcesses(rated)
            D == ToSet(rated)
            prior == {<<prev[i].pid, prev[i].id>> : i \in DOMAIN prev}
            count == IF smp.sense.dir THEN smp.total ELSE MachineUnknown
<1>1. /\ phase = "dir" /\ phase' = "tick" /\ conf' = conf /\ host' = host
      /\ smp' = [NoSample EXCEPT !.sense = smp.sense]
      /\ machine' =
            [cpu   |-> smp.cpu,
             util  |-> IF smp.cpuOk /\ ~aux.first
                       THEN TelemetryUtilisation(machine.cpu, smp.cpu) ELSE MachineUnknown,
             temp  |-> TemperatureOf(smp.sense.temp),
             mem   |-> MemoryOf(smp.sense.total, smp.sense.avail),
             procs |-> procs, count |-> count,
             truncated |-> smp.total > Len(procs)]
      /\ aux' = [aux EXCEPT !.first = FALSE, !.prior = prior, !.basis = D,
                            !.counted = smp.cpuOk, !.span = Span]
  BY DEF CloseSample
<1>2. SmpInv /\ MachineInv /\ conf \in Scenarios /\ {"prior", "basis", "first"} \subseteq DOMAIN aux
  BY DEF SampleInv
<1>3. /\ machine'.procs = procs /\ machine'.count = count
      /\ machine'.truncated = (smp.total > Len(procs))
      /\ machine'.cpu = smp.cpu /\ machine'.temp = TemperatureOf(smp.sense.temp)
      /\ DOMAIN machine' = {"cpu", "util", "temp", "mem", "procs", "count", "truncated"}
      /\ DOMAIN aux' = DOMAIN aux /\ aux'.prior = prior /\ aux'.basis = D
  <2>. HIDE DEF procs, count, prior, D
  <2>. QED
    BY <1>1, <1>2
<1>4. delta \in Nat
  BY <1>2 DEF SmpInv, MachineInv
<1>5. List(conf.profile)
  BY <1>2, ObserveAssumption DEF List
<1>6. List(prev) /\ \A i \in DOMAIN prev : prev[i].time \in Int
  BY <1>2 DEF MachineInv, ShownRow
<1>7. PICK S : smp.raw \in Seq(S)
  BY <1>2 DEF SmpInv, Listing
<1>. HIDE DEF delta, prev
<1>8. /\ DOMAIN rated = DOMAIN smp.raw
      /\ \A i \in DOMAIN smp.raw : rated[i] = Rated(smp.raw[i], prev, delta)
      /\ \E T : rated \in Seq(T)
  <2>. DEFINE n == Len(smp.raw)
              g(i) == Rated(smp.raw[i], prev, delta)
              T == {g(i) : i \in 1 .. n}
  <2>1. n \in Nat /\ DOMAIN smp.raw = 1 .. n
    BY <1>7
  <2>2. rated = [i \in 1 .. n |-> g(i)]
    BY <2>1 DEF RatedAll
  <2>. HIDE DEF rated, g, n
  <2>3. rated \in Seq(T)
    BY <2>1, <2>2
  <2>4. DOMAIN rated = 1 .. n /\ \A i \in 1 .. n : rated[i] = g(i)
    BY <2>2
  <2>. QED
    BY <2>1, <2>3, <2>4 DEF g
<1>9. PICK T : rated \in Seq(T)
  BY <1>8
<1>. HIDE DEF rated
<1>10. ASSUME NEW i \in DOMAIN rated
       PROVE  /\ ShownRow(rated[i], conf.profile) /\ rated[i].pid = smp.raw[i].pid
              /\ Known(rated[i].bp) =>
                    /\ rated[i].bp \in 0 .. Scale
                    /\ \E j \in DOMAIN prev : SameProcess(prev[j], rated[i])
  <2>. DEFINE s == smp.raw[i]
  <2>1. ReadRow(s) /\ rated[i] = Rated(s, prev, delta)
    BY <1>2, <1>8 DEF SmpInv, Listing
  <2>. HIDE DEF s
  <2>2. /\ ShownRow(Rated(s, prev, delta), conf.profile)
        /\ Rated(s, prev, delta).pid = s.pid
        /\ Known(Rated(s, prev, delta).bp) =>
              /\ Rated(s, prev, delta).bp \in 0 .. Scale
              /\ \E j \in DOMAIN prev : SameProcess(prev[j], Rated(s, prev, delta))
    BY <1>4, <1>5, <1>6, <2>1, RatedRow
  <2>. QED
    BY <2>1, <2>2 DEF s
<1>11. \A i, j \in DOMAIN rated : rated[i].pid = rated[j].pid => i = j
  BY <1>2, <1>8, <1>10 DEF SmpInv, Listing
<1>12. ASSUME NEW s \in D PROVE \E i \in DOMAIN rated : rated[i] = s
  BY DEF ToSet
<1>13. Rows(D)
  <2>1. \A s \in D : {s.pid, s.bp, s.rss} \subseteq Int
    BY <1>10, <1>12 DEF ShownRow
  <2>2. \A s, t \in D : s.pid = t.pid => s = t
    BY <1>11, <1>12
  <2>. QED
    BY <2>1, <2>2 DEF Rows
<1>14. /\ List(procs)
       /\ \E C : /\ C = {s \in D : Signal(s)}
                 /\ ToSet(procs) = {s \in C : Cardinality(Ahead(Ranks(D), C, s)) < SnapCap}
                 /\ \A i \in DOMAIN procs :
                       Cardinality(Ahead(Ranks(D), C, procs[i])) = i - 1
  BY <1>9, <1>11, <1>13, SelectBest
<1>. HIDE DEF procs, D
<1>15. ASSUME NEW i \in DOMAIN procs
       PROVE  procs[i] \in D /\ \E j \in DOMAIN rated : rated[j] = procs[i]
  <2>1. procs[i] \in ToSet(procs)
    BY DEF ToSet
  <2>. QED
    BY <1>12, <1>14, <2>1
<1>16. MachineInv'
  <2>1. smp.sense.temp \in Int
    BY <1>1, <1>2, ObserveAssumption DEF SmpInv
  <2>2. TemperatureOf(smp.sense.temp) \in Int
    BY <2>1 DEF TemperatureOf, MachineUnknown
  <2>3. \A i \in DOMAIN procs : ShownRow(procs[i], conf.profile)
    BY <1>10, <1>15
  <2>. QED
    BY <1>1, <1>2, <1>3, <1>14, <2>2, <2>3 DEF MachineInv, SmpInv
<1>17. SmpInv'
  <2>1. <<>> \in Seq({}) /\ DOMAIN <<>> = {}
    OBVIOUS
  <2>2. Listing(<<>>, {})
    BY <2>1 DEF Listing
  <2>. QED
    BY <1>1, <2>2 DEF SmpInv, NoSample, NoCpu
<1>18. SharesOwnProcess'
  <2>1. ASSUME NEW i \in DOMAIN procs, Known(procs[i].bp)
        PROVE  <<procs[i].pid, procs[i].id>> \in prior /\ procs[i].bp \in 0 .. Scale
    <3>1. PICK j \in DOMAIN prev : SameProcess(prev[j], procs[i])
      BY <1>10, <1>15, <2>1
    <3>2. <<procs[i].pid, procs[i].id>> = <<prev[j].pid, prev[j].id>>
      BY <3>1 DEF SameProcess
    <3>. QED
      BY <1>10, <1>15, <2>1, <3>2
  <2>. HIDE DEF prior
  <2>. QED
    BY <1>3, <2>1 DEF SharesOwnProcess
<1>19. SnapshotIsBest'
  <2>. DEFINE C == {s \in D : Signal(s)}
              better(s) == {t \in C : RanksBefore(t, s)}
  <2>1. \A s \in C : better(s) = Ahead(Ranks(D), C, s)
    BY DEF Ahead, Ranks
  <2>2. ToSet(procs) = {s \in C : Cardinality(Ahead(Ranks(D), C, s)) < SnapCap}
        /\ \A i \in DOMAIN procs : Cardinality(Ahead(Ranks(D), C, procs[i])) = i - 1
    BY <1>14
  <2>3. \A i \in DOMAIN procs : procs[i] \in C
    <3>1. \A i \in DOMAIN procs : procs[i] \in ToSet(procs)
      BY DEF ToSet
    <3>. QED
      BY <2>2, <3>1
  <2>4. (smp.total > Len(procs)) <=> count > Len(procs)
    <3>1. CASE smp.sense.dir
      BY <3>1
    <3>2. CASE ~smp.sense.dir
      <4>1. smp.total = 0 /\ count = -1 /\ Len(procs) \in Nat
        BY <1>1, <1>2, <1>14, <3>2 DEF SmpInv, List, MachineUnknown
      <4>. QED
        BY <4>1
    <3>. QED
      BY <3>1, <3>2
  <2>. HIDE DEF C, better, count
  <2>5. ToSet(procs) = {s \in C : Cardinality(better(s)) < SnapCap}
    BY <2>1, <2>2
  <2>6. \A i \in DOMAIN procs : Cardinality(better(procs[i])) = i - 1
    BY <2>1, <2>2, <2>3
  <2>. QED
    BY <1>3, <2>4, <2>5, <2>6 DEF SnapshotIsBest, C, better
<1>20. HostInv'
  BY <1>1, HostRests DEF SampleInv
<1>. QED
  BY <1>1, <1>2, <1>3, <1>16, <1>17, <1>18, <1>19, <1>20 DEF SampleInv

(* Nothing else touches the snapshot, nor what is known of it. *)
LEMMA SampleNext ==
    ASSUME SampleInv, [ObserveNext]_observeVars
    PROVE  SampleInv'
<1>1. CASE HostMoves
  BY <1>1, HostMoveKeeps
<1>2. CASE OpenSample
  BY <1>2, OpenKeeps
<1>3. CASE CloseSample
  BY <1>3, CloseKeeps
<1>4. CASE \E p \in Pids : ReadEntry(p)
  BY <1>4, ReadKeeps
<1>5. ASSUME conf' = conf, machine' = machine, smp' = smp, host' = host,
             phase' = "dir" => phase = "dir",
             DOMAIN aux' = DOMAIN aux, aux'.prior = aux.prior, aux'.basis = aux.basis
      PROVE  SampleInv'
  BY <1>5, SnapshotRests, HostRests, SmpRests DEF SampleInv
<1>6. CASE UNCHANGED observeVars
  BY <1>5, <1>6 DEF observeVars
<1>7. CASE StartRun \/ LastStep \/ Judge
  BY <1>5, <1>7 DEF StartRun, LastStep, Judge
<1>8. CASE Tick
  <2>1. /\ conf' = conf /\ machine' = machine /\ smp' = smp /\ host' = host
        /\ \E o, c, t : StepFails(c, t) \/ StepDone(o, c, t)
    BY <1>8, Zenon DEF Tick
  <2>2. /\ phase' # "dir"
        /\ \E x, y : aux' = [aux EXCEPT !.seen = x] \/ aux' = [aux EXCEPT !.shown = x, !.seen = y]
    BY <2>1 DEF StepFails, StepDone
  <2>. QED
    BY <1>5, <2>1, <2>2 DEF SampleInv
<1>. QED
  BY <1>1, <1>2, <1>3, <1>4, <1>6, <1>7, <1>8 DEF ObserveNext

-----------------------------------------------------------------------------
(* The verdict and the diagnosis.                                           *)

(* The row with the largest known value is a row with a known value. *)
LEMMA LargestIs ==
    ASSUME NEW m, List(m.procs), NEW field, \A i \in DOMAIN m.procs : m.procs[i][field] \in Int
    PROVE  \/ Largest(m, field) = 0
           \/ Largest(m, field) \in DOMAIN m.procs /\ Known(m.procs[Largest(m, field)][field])
<1>. DEFINE can == {i \in DOMAIN m.procs : Known(m.procs[i][field])}
            most == {i \in can : \A j \in can : m.procs[j][field] <= m.procs[i][field]}
            n == Len(m.procs)
            V == {m.procs[i][field] : i \in can}
<1>1. Largest(m, field) = IF can = {} THEN 0 ELSE Min(most)
  BY DEF Largest
<1>2. can \in SUBSET (1 .. n) /\ n \in Nat
  BY DEF List
<1>3. CASE can # {}
  <2>1. IsFiniteSet(can)
    <3>1. IsFiniteSet(1 .. n)
      BY <1>2, FS_Interval
    <3>. QED
      BY <1>2, <3>1, FS_Subset
  <2>. DEFINE f(i) == m.procs[i][field]
              R == {p \in can \X can : \/ f(p[1]) > f(p[2])
                                       \/ f(p[1]) = f(p[2]) /\ p[1] < p[2]}
  <2>2. \A i \in can : f(i) \in Int /\ i \in Int
    BY <1>2
  <2>. HIDE DEF f
  <2>3. \A x, y \in can : <<x, y>> \in R <=> f(x) > f(y) \/ (f(x) = f(y) /\ x < y)
    OBVIOUS
  <2>. HIDE DEF R, can
  <2>4. StrictOrder(R, can)
    BY <2>2, <2>3 DEF StrictOrder
  <2>5. PICK s \in can : \A t \in can \ {s} : <<s, t>> \in R
    BY <1>3, <2>1, <2>4, FirstPlace
  <2>6. ASSUME NEW j \in can PROVE f(j) <= f(s)
    <3>1. CASE j = s
      BY <2>2, <3>1
    <3>2. CASE j # s
      <4>1. f(s) > f(j) \/ f(s) = f(j)
        BY <2>3, <2>5, <3>2
      <4>2. f(s) \in Int /\ f(j) \in Int
        BY <2>2
      <4>. QED
        BY <4>1, <4>2
    <3>. QED
      BY <3>1, <3>2
  <2>7. s \in most
    BY <2>6 DEF f
  <2>8. most # {} /\ most \in SUBSET (1 .. n)
    BY <1>2, <2>7
  <2>. HIDE DEF most
  <2>9. Min(most) \in most
    BY <1>2, <2>8, LeastIndex
  <2>10. Min(most) \in can
    BY <2>9 DEF most
  <2>. QED
    BY <1>1, <1>3, <2>10 DEF can
<1>. QED
  BY <1>1, <1>3

(* What a case file tells of the snapshot it was written from. *)
CaseFile(m) ==
    /\ m.temp = machine.temp /\ m.util = machine.util /\ m.mem = machine.mem
    /\ List(m.procs) /\ DOMAIN m.procs = DOMAIN machine.procs
    /\ \A i \in DOMAIN machine.procs :
          LET r == m.procs[i]
              s == machine.procs[i]
          IN /\ r.role = s.role /\ r.bp = s.bp /\ r.rss = s.rss
             /\ r.entry = IF s.role = "unknown" THEN 0 ELSE 1
             /\ s.entry # 0 => r.shown = conf.profile[s.entry].id

(* What a case file says of a snapshot: every value as it was measured, and *)
(* an unknown one as unknown.                                               *)
LEMMA CaseFileTells ==
    ASSUME MachineInv
    PROVE  CaseFile(ReadBack(Written(machine)))
<1>. DEFINE w == Written(machine)
            m == ReadBack(w)
            P == DOMAIN machine.procs
            u(i) == [shown |-> IF machine.procs[i].entry = 0 THEN machine.procs[i].name
                               ELSE conf.profile[machine.procs[i].entry].id,
                     role |-> machine.procs[i].role, bp |-> machine.procs[i].bp,
                     rss |-> machine.procs[i].rss]
            v(i) == [shown |-> w.procs[i].shown, role |-> w.procs[i].role,
                     bp |-> w.procs[i].bp, rss |-> w.procs[i].rss, st |-> "none",
                     entry |-> IF w.procs[i].role = "unknown" THEN 0 ELSE 1]
<1>1. w = [machine EXCEPT !.procs = [i \in P |-> u(i)]]
  BY DEF Written
<1>. HIDE DEF u
<1>2. /\ DOMAIN w = DOMAIN machine /\ w.procs = [i \in P |-> u(i)]
      /\ w.temp = machine.temp /\ w.util = machine.util /\ w.mem = machine.mem
  <2>. HIDE DEF w
  <2>. QED
    BY <1>1 DEF MachineInv
<1>3. m = [w EXCEPT !.procs = [i \in P |-> v(i)]]
  <2>1. DOMAIN w.procs = P
    BY <1>2
  <2>. HIDE DEF w
  <2>. QED
    BY <2>1 DEF ReadBack
<1>. HIDE DEF v, w, m
<1>4. /\ m.procs = [i \in P |-> v(i)]
      /\ m.temp = machine.temp /\ m.util = machine.util /\ m.mem = machine.mem
  BY <1>2, <1>3 DEF MachineInv
<1>5. ASSUME NEW i \in P
      PROVE  LET r == m.procs[i]
                 s == machine.procs[i]
             IN /\ r.role = s.role /\ r.bp = s.bp /\ r.rss = s.rss
                /\ r.entry = IF s.role = "unknown" THEN 0 ELSE 1
                /\ s.entry # 0 => r.shown = conf.profile[s.entry].id
  <2>1. m.procs[i] = v(i) /\ w.procs[i] = u(i)
    BY <1>2, <1>4
  <2>. QED
    BY <2>1 DEF u, v
<1>6. List(m.procs) /\ DOMAIN m.procs = P
  <2>1. P = 1 .. Len(machine.procs) /\ Len(machine.procs) \in Nat
    BY DEF MachineInv, List
  <2>. HIDE DEF P
  <2>2. DOMAIN m.procs = 1 .. Len(machine.procs)
    BY <1>4, <2>1
  <2>3. Len(m.procs) = Len(machine.procs)
    BY <1>4, <2>1
  <2>. QED
    BY <2>1, <2>2, <2>3 DEF List
<1>. QED
  BY <1>4, <1>5, <1>6 DEF CaseFile, m, w

(* spg_machine_goal_evaluate: satisfied only by what was measured. *)
LEMMA GoalHonest ==
    ASSUME conf \in Scenarios, MachineInv, run.acts \in Int,
           NEW m, CaseFile(m), Evaluate(conf.goal, m, run.acts) = "satisfied"
    PROVE  LET g == conf.goal
           IN /\ g.present
              /\ g.actions # Unset => run.acts <= g.actions
              /\ g.temp # Unset => Known(machine.temp) /\ machine.temp <= g.temp
              /\ g.health # Unset => Critical(machine) # {}
<1>. DEFINE g == conf.goal
            health == CriticalHealth(m)
            hot == Broken(g.temp, m.temp, m.temp > g.temp)
            sick == Broken(g.health, health, health < g.health)
<1>1. g.temp \in Int /\ g.actions \in Int /\ machine.temp \in Int
  BY ObserveAssumption DEF MachineInv
<1>2. g.present /\ ~(g.actions # Unset /\ run.acts > g.actions) /\ ~hot /\ ~sick
  <2>. DEFINE v == Evaluate(g, m, run.acts)
              many == g.actions # Unset /\ run.acts > g.actions
  <2>1. v = IF ~g.present THEN "no_goal"
            ELSE IF many THEN "too_many_actions"
            ELSE IF hot THEN IF Known(m.temp) THEN "temperature_too_high" ELSE "unmeasurable"
            ELSE IF sick THEN IF Known(health) THEN "critical_unhealthy" ELSE "unmeasurable"
            ELSE "satisfied"
    BY DEF Evaluate
  <2>2. v = "satisfied"
    OBVIOUS
  <2>. HIDE DEF v, many, hot, sick, health
  <2>3. g.present /\ ~many /\ ~hot /\ ~sick
    BY <2>1, <2>2
  <2>. QED
    BY <2>3 DEF many
<1>3. g.actions # Unset => run.acts <= g.actions
  BY <1>1, <1>2
<1>4. g.temp # Unset => Known(machine.temp) /\ machine.temp <= g.temp
  BY <1>1, <1>2 DEF Broken, CaseFile
<1>5. g.health # Unset => Critical(machine) # {}
  <2>. SUFFICES ASSUME g.health # Unset PROVE Critical(machine) # {}
    OBVIOUS
  <2>1. Known(health)
    BY <1>2 DEF Broken
  <2>2. Critical(m) # {}
    BY <2>1 DEF CriticalHealth, Known
  <2>. QED
    BY <2>2 DEF Critical, CaseFile
<1>. QED
  BY <1>2, <1>3, <1>4, <1>5

(* spg_rule_diagnose: healthy only when all could be read, pressure only    *)
(* from a managed process that owns the share.                              *)
LEMMA DiagnosisHonest ==
    ASSUME conf \in Scenarios, MachineInv, NEW m, CaseFile(m)
    PROVE  /\ Diagnose(m)[1] = "healthy" =>
                 AllReadable(machine) /\ machine.temp <= Thresholds.temp
           /\ Diagnose(m)[1] = "batch_pressure" =>
                 \E i \in DOMAIN machine.procs :
                     LET s == machine.procs[i]
                     IN /\ s.role = "batch" /\ s.bp >= Thresholds.share
                        /\ Diagnose(m)[2] = conf.profile[s.entry].id
<1>. DEFINE hot == Largest(m, "bp")
            fat  == Largest(m, "rss")
            full == /\ Known(m.mem.total) /\ m.mem.total > 0 /\ Known(m.mem.used)
                    /\ (Lesser(m.mem.used, m.mem.total) * Scale) \div m.mem.total
                           >= Thresholds.memory
            by == [batch |-> "batch_pressure", critical |-> "critical_pressure",
                   unknown |-> "inconclusive"]
            d == Diagnose(m)
            warm == Known(m.temp) /\ m.temp > Thresholds.temp
            busy == Known(m.util) /\ m.util >= Thresholds.cpu
            weak == hot = 0 \/ m.procs[hot].bp < Thresholds.share
<1>1. d = IF warm THEN <<"thermal_anomaly", Nobody>>
          ELSE IF full THEN <<"memory_pressure", Blame(m, fat)>>
          ELSE IF busy
               THEN IF weak THEN <<"inconclusive", Nobody>>
                    ELSE <<by[m.procs[hot].role], Blame(m, hot)>>
          ELSE <<IF AllReadable(m) THEN "healthy" ELSE "inconclusive", Nobody>>
  BY DEF Diagnose
<1>2. Thresholds.temp \in Int /\ Thresholds.share \in Int /\ machine.temp \in Int
  BY ObserveAssumption DEF MachineInv
<1>3. AllReadable(m) <=> AllReadable(machine)
  BY DEF AllReadable, CaseFile
<1>4. ~weak => /\ hot \in DOMAIN machine.procs
               /\ machine.procs[hot].bp >= Thresholds.share
               /\ machine.procs[hot].role \in {"unknown", "critical", "batch"}
               /\ machine.procs[hot].role # "unknown" => machine.procs[hot].entry # 0
               /\ m.procs[hot].role = machine.procs[hot].role
               /\ machine.procs[hot].role # "unknown" =>
                     Blame(m, hot) = conf.profile[machine.procs[hot].entry].id
  <2>. SUFFICES ASSUME ~weak
                PROVE  /\ hot \in DOMAIN machine.procs
                       /\ machine.procs[hot].bp >= Thresholds.share
                       /\ machine.procs[hot].role \in {"unknown", "critical", "batch"}
                       /\ machine.procs[hot].role # "unknown" => machine.procs[hot].entry # 0
                       /\ m.procs[hot].role = machine.procs[hot].role
                       /\ machine.procs[hot].role # "unknown" =>
                             Blame(m, hot) = conf.profile[machine.procs[hot].entry].id
    OBVIOUS
  <2>1. hot \in DOMAIN m.procs /\ hot # 0
    <3>1. List(m.procs) /\ \A i \in DOMAIN m.procs : m.procs[i]["bp"] \in Int
      BY DEF CaseFile, MachineInv, ShownRow
    <3>2. hot = 0 \/ hot \in DOMAIN m.procs
      BY <3>1, LargestIs
    <3>. QED
      BY <3>2
  <2>2. ~(m.procs[hot].bp < Thresholds.share)
    OBVIOUS
  <2>. HIDE DEF hot
  <2>3. /\ hot \in DOMAIN machine.procs /\ m.procs[hot].bp = machine.procs[hot].bp
        /\ m.procs[hot].role = machine.procs[hot].role
        /\ m.procs[hot].entry = IF machine.procs[hot].role = "unknown" THEN 0 ELSE 1
        /\ machine.procs[hot].entry # 0 =>
              m.procs[hot].shown = conf.profile[machine.procs[hot].entry].id
    BY <2>1 DEF CaseFile
  <2>4. /\ machine.procs[hot].bp \in Int
        /\ machine.procs[hot].entry \in 0 .. Len(conf.profile)
        /\ machine.procs[hot].role = Role(conf.profile, machine.procs[hot].entry)
    BY <2>3 DEF MachineInv, ShownRow
  <2>5. /\ machine.procs[hot].role \in {"unknown", "critical", "batch"}
        /\ machine.procs[hot].role # "unknown" => machine.procs[hot].entry # 0
    <3>1. Len(conf.profile) \in Nat /\ DOMAIN conf.profile = 1 .. Len(conf.profile)
          /\ \A i \in DOMAIN conf.profile : conf.profile[i].role \in {"critical", "batch"}
      BY ObserveAssumption
    <3>2. machine.procs[hot].entry # 0 => machine.procs[hot].entry \in DOMAIN conf.profile
      BY <2>4, <3>1
    <3>. QED
      BY <2>4, <3>1, <3>2 DEF Role
  <2>6. machine.procs[hot].role # "unknown" =>
           Blame(m, hot) = conf.profile[machine.procs[hot].entry].id
    BY <2>1, <2>3, <2>5 DEF Blame
  <2>. QED
    BY <1>2, <2>2, <2>3, <2>4, <2>5, <2>6
<1>. HIDE DEF d, warm, full, busy, weak, hot, fat
<1>5. d[1] = "healthy" => ~warm /\ AllReadable(m)
  <2>1. ~weak => by[m.procs[hot].role] # "healthy"
    BY <1>4
  <2>. QED
    BY <1>1, <2>1
<1>6. d[1] = "batch_pressure" => /\ ~weak /\ machine.procs[hot].role = "batch"
                                 /\ d[2] = Blame(m, hot)
  <2>1. ~weak /\ by[m.procs[hot].role] = "batch_pressure" => machine.procs[hot].role = "batch"
    BY <1>4
  <2>. HIDE DEF by
  <2>. QED
    BY <1>1, <2>1
<1>7. d[1] = "healthy" => machine.temp <= Thresholds.temp
  <2>1. AllReadable(m) => Known(m.temp)
    BY DEF AllReadable
  <2>2. m.temp = machine.temp
    BY DEF CaseFile
  <2>. QED
    BY <1>2, <1>5, <2>1, <2>2 DEF warm
<1>8. d[1] = "batch_pressure" =>
         /\ hot \in DOMAIN machine.procs /\ machine.procs[hot].role = "batch"
         /\ machine.procs[hot].bp >= Thresholds.share
         /\ d[2] = conf.profile[machine.procs[hot].entry].id
  BY <1>4, <1>6
<1>. QED
  BY <1>3, <1>5, <1>7, <1>8 DEF d

(* Between two samples the snapshot is what the last one was answered: no   *)
(* value stays from the one before, and a load has two readings.            *)
Sensed ==
    /\ "span" \in DOMAIN aux
    /\ phase \in {"tick", "end", "judged"} =>
          /\ machine.temp = TemperatureOf(smp.sense.temp)
          /\ machine.mem = MemoryOf(smp.sense.total, smp.sense.avail)
          /\ Known(machine.util) => aux.span # "nothing"

(* A sample writes every field anew (state_init), and no step but a sample  *)
(* touches the snapshot.                                                    *)
LEMMA SensedNext ==
    ASSUME SampleInv, Sensed, [ObserveNext]_observeVars
    PROVE  Sensed'
<1>. DEFINE late == {"tick", "end", "judged"}
<1>1. ASSUME machine' = machine, smp' = smp, DOMAIN aux' = DOMAIN aux,
             aux'.span = aux.span, phase' \in late => phase \in late
      PROVE  Sensed'
  BY <1>1 DEF Sensed
<1>2. ASSUME phase' \notin late, DOMAIN aux' = DOMAIN aux
      PROVE  Sensed'
  BY <1>2 DEF Sensed
<1>3. CASE HostMoves
  <2>1. \E h : HostSteps(h)
    BY <1>3 DEF HostMoves, Work, Exit, Stop, Spawn, Idle, CountersReset
  <2>2. phase' \in {"open", "dir"} /\ DOMAIN aux' = DOMAIN aux
    BY <2>1 DEF HostSteps
  <2>. QED
    BY <1>2, <2>2
<1>4. CASE OpenSample
  BY <1>2, <1>4 DEF OpenSample
<1>5. CASE \E p \in Pids : ReadEntry(p)
  BY <1>2, <1>5 DEF ReadEntry
<1>6. CASE CloseSample
  <2>. DEFINE util == IF smp.cpuOk /\ ~aux.first
                      THEN TelemetryUtilisation(machine.cpu, smp.cpu) ELSE MachineUnknown
  <2>1. /\ \E c, q, n, t :
              machine' = [cpu |-> c, util |-> util,
                          temp |-> TemperatureOf(smp.sense.temp),
                          mem |-> MemoryOf(smp.sense.total, smp.sense.avail),
                          procs |-> q, count |-> n, truncated |-> t]
        /\ \E x, y : aux' = [aux EXCEPT !.first = FALSE, !.prior = x, !.basis = y,
                                        !.counted = smp.cpuOk, !.span = Span]
        /\ smp'.sense = smp.sense
    BY <1>6 DEF CloseSample, NoSample
  <2>. HIDE DEF util
  <2>2. /\ machine'.temp = TemperatureOf(smp.sense.temp)
        /\ machine'.mem = MemoryOf(smp.sense.total, smp.sense.avail)
        /\ machine'.util = util
    BY <2>1
  <2>3. DOMAIN aux' = DOMAIN aux /\ aux'.span = Span
    BY <2>1 DEF Sensed
  <2>4. Known(util) => Span # "nothing"
    BY DEF util, Span, Known
  <2>. QED
    BY <2>1, <2>2, <2>3, <2>4 DEF Sensed
<1>7. CASE StartRun \/ LastStep \/ Judge
  BY <1>1, <1>7 DEF StartRun, LastStep, Judge
<1>8. CASE Tick
  <2>1. /\ machine' = machine /\ smp' = smp /\ phase = "tick"
        /\ \E o, c, t : StepFails(c, t) \/ StepDone(o, c, t)
    BY <1>8, Zenon DEF Tick
  <2>2. \E x, y : aux' = [aux EXCEPT !.seen = x] \/ aux' = [aux EXCEPT !.shown = x, !.seen = y]
    BY <2>1 DEF StepFails, StepDone
  <2>3. DOMAIN aux' = DOMAIN aux /\ aux'.span = aux.span
    BY <2>2 DEF Sensed
  <2>. QED
    BY <1>1, <2>1, <2>3
<1>9. CASE UNCHANGED observeVars
  BY <1>1, <1>9 DEF observeVars
<1>. QED
  BY <1>3, <1>4, <1>5, <1>6, <1>7, <1>8, <1>9 DEF ObserveNext

(* What the goal and the baseline may conclude from, in terms of what the   *)
(* last sample was answered.                                                *)
LEMMA AnswersKnown ==
    ASSUME SampleInv, Sensed, phase = "end"
    PROVE  /\ \A t : Known(machine.temp) /\ machine.temp <= t => Answered(t)
           /\ Critical(machine) # {} => \E s \in aux.basis : s.role = "critical"
           /\ AllReadable(machine) => /\ Absent \notin {smp.sense.total, smp.sense.avail}
                                      /\ aux.span # "nothing"
<1>1. ASSUME NEW t, Known(machine.temp), machine.temp <= t
      PROVE  Answered(t)
  BY <1>1 DEF Sensed, Known, TemperatureOf, Answered
<1>2. ASSUME NEW i \in Critical(machine)
      PROVE  \E s \in aux.basis : s.role = "critical"
  <2>1. machine.procs[i] \in ToSet(machine.procs) /\ machine.procs[i].role = "critical"
    BY <1>2 DEF Critical, ToSet
  <2>2. machine.procs[i] \in aux.basis
    BY <2>1 DEF SampleInv, SnapshotIsBest
  <2>. QED
    BY <2>1, <2>2
<1>3. AllReadable(machine) => /\ Absent \notin {smp.sense.total, smp.sense.avail}
                              /\ aux.span # "nothing"
  <2>1. machine.mem = MemoryOf(smp.sense.total, smp.sense.avail)
        /\ (Known(machine.util) => aux.span # "nothing")
    BY DEF Sensed
  <2>2. Known(machine.mem.total) => smp.sense.total # Absent
    BY <2>1 DEF MemoryOf, Known
  <2>3. Known(machine.mem.used) => smp.sense.avail # Absent
    BY <2>1 DEF MemoryOf, Known
  <2>. QED
    BY <2>1, <2>2, <2>3 DEF AllReadable
<1>. QED
  BY <1>1, <1>2, <1>3

(* The evaluation comes once, at the end, and nothing follows it. *)
VerdictInv ==
    /\ "acts" \in DOMAIN run /\ run.acts \in Int
    /\ Sensed
    /\ phase # "judged" => report.verdict = "none" /\ report.diag = "none"
    /\ VerdictHonest

(* No run begins judged.                                                    *)
LEMMA VerdictInit ==
    ASSUME ObserveInit
    PROVE  VerdictInv
BY DEF ObserveInit, VerdictInv, VerdictHonest, Sensed

(* The evaluation of the last snapshot is honest                            *)
(* (spg_machine_goal_evaluate, spg_rule_diagnose).                          *)
LEMMA JudgeKeeps ==
    ASSUME SampleInv, VerdictInv, Judge
    PROVE  VerdictInv'
<1>. DEFINE m == ReadBack(Written(machine))
<1>1. /\ conf' = conf /\ machine' = machine /\ run' = run /\ phase' = "judged"
      /\ report' = [verdict |-> Evaluate(conf.goal, m, run.acts),
                    diag    |-> Diagnose(m)[1],
                    blamed  |-> Diagnose(m)[2]]
  BY DEF Judge
<1>2. /\ conf \in Scenarios /\ MachineInv /\ run.acts \in Int /\ CaseFile(m)
      /\ "acts" \in DOMAIN run
  BY CaseFileTells DEF SampleInv, VerdictInv
<1>. HIDE DEF m
<1>3. /\ report'.verdict = Evaluate(conf.goal, m, run.acts)
      /\ report'.diag = Diagnose(m)[1] /\ report'.blamed = Diagnose(m)[2]
  BY <1>1
<1>4. report'.verdict = "satisfied" =>
         LET g == conf.goal
         IN /\ g.present
            /\ g.actions # Unset => run.acts <= g.actions
            /\ g.temp # Unset => Known(machine.temp) /\ machine.temp <= g.temp
            /\ g.health # Unset => Critical(machine) # {}
  BY <1>2, <1>3, GoalHonest
<1>5. /\ report'.diag = "healthy" =>
            AllReadable(machine) /\ machine.temp <= Thresholds.temp
      /\ report'.diag = "batch_pressure" =>
            \E i \in DOMAIN machine.procs :
                LET s == machine.procs[i]
                IN /\ s.role = "batch" /\ s.bp >= Thresholds.share
                   /\ report'.blamed = conf.profile[s.entry].id
  BY <1>2, <1>3, DiagnosisHonest
<1>6. /\ \A t : Known(machine.temp) /\ machine.temp <= t => Answered(t)
      /\ Critical(machine) # {} => \E s \in aux.basis : s.role = "critical"
      /\ AllReadable(machine) => /\ Absent \notin {smp.sense.total, smp.sense.avail}
                                 /\ aux.span # "nothing"
  BY AnswersKnown DEF VerdictInv, Judge
<1>7. smp' = smp /\ aux' = aux /\ machine' = machine
  BY DEF Judge
<1>8. report'.verdict = "satisfied" =>
         LET g == conf.goal
         IN /\ g.present
            /\ g.actions # Unset => run.acts <= g.actions
            /\ g.temp # Unset => Answered(g.temp)
            /\ g.health # Unset => \E s \in aux.basis : s.role = "critical"
  BY <1>4, <1>6
<1>9. report'.diag = "healthy" =>
         /\ Answered(Thresholds.temp)
         /\ Absent \notin {smp.sense.total, smp.sense.avail}
         /\ aux.span # "nothing"
  <2>1. AllReadable(machine) => Known(machine.temp)
    BY DEF AllReadable
  <2>. QED
    BY <1>5, <1>6, <2>1
<1>10. VerdictHonest'
  BY <1>1, <1>5, <1>7, <1>8, <1>9 DEF VerdictHonest, Answered
<1>11. Sensed'
  BY SensedNext DEF VerdictInv, ObserveNext
<1>. QED
  BY <1>1, <1>2, <1>10, <1>11 DEF VerdictInv

(* No step but the evaluation says anything of the machine.                 *)
LEMMA VerdictNext ==
    ASSUME SampleInv, VerdictInv, [ObserveNext]_observeVars
    PROVE  VerdictInv'
<1>0. Sensed'
  BY SensedNext DEF VerdictInv
<1>1. CASE Judge
  BY <1>1, JudgeKeeps
<1>2. ASSUME report' = report, phase # "judged", "acts" \in DOMAIN run', run'.acts \in Int
      PROVE  VerdictInv'
  <2>1. report'.verdict = "none" /\ report'.diag = "none"
    BY <1>2 DEF VerdictInv
  <2>2. VerdictHonest'
    BY <2>1 DEF VerdictHonest
  <2>. QED
    BY <1>0, <1>2, <2>1, <2>2 DEF VerdictInv
<1>3. ASSUME report' = report, phase # "judged", run' = run
      PROVE  VerdictInv'
  BY <1>2, <1>3 DEF VerdictInv
<1>4. CASE UNCHANGED observeVars
  BY <1>0, <1>4 DEF observeVars, VerdictInv, VerdictHonest, Answered
<1>5. CASE HostMoves
  <2>1. \E h : HostSteps(h)
    BY <1>5 DEF HostMoves, Work, Exit, Stop, Spawn, Idle, CountersReset
  <2>. QED
    BY <1>3, <2>1 DEF HostSteps
<1>6. CASE StartRun \/ OpenSample \/ CloseSample \/ LastStep
  BY <1>3, <1>6 DEF StartRun, OpenSample, CloseSample, LastStep
<1>7. CASE \E p \in Pids : ReadEntry(p)
  BY <1>3, <1>7 DEF ReadEntry
<1>8. CASE Tick
  <2>1. /\ report' = report /\ phase = "tick"
        /\ \E o, c, t : StepFails(c, t) \/ StepDone(o, c, t)
    BY <1>8, Zenon DEF Tick
  <2>2. "acts" \in DOMAIN run' /\ run'.acts \in Int
    <3>1. CASE \E c, t : StepFails(c, t)
      BY <3>1 DEF StepFails, VerdictInv
    <3>2. CASE \E o, c, t : StepDone(o, c, t)
      BY <3>2 DEF StepDone, VerdictInv
    <3>. QED
      BY <2>1, <3>1, <3>2
  <2>. QED
    BY <1>2, <2>1, <2>2
<1>. QED
  BY <1>1, <1>4, <1>5, <1>6, <1>7, <1>8 DEF ObserveNext

-----------------------------------------------------------------------------
(* The references of a context.                                             *)

RefOrder(C) == {p \in C \X C : Before(p[1], p[2])}

\* References to different entries, each with a rank.
Refs(C) ==
    /\ \A r \in C : r.index \in Int /\ r.rank \in Int
    /\ \A r, q \in C : r.index = q.index => r = q

(* Before is a strict order on references with different indices.           *)
LEMMA RefsOrder ==
    ASSUME NEW C, Refs(C)
    PROVE  StrictOrder(RefOrder(C), C)
<1>1. \A a, b \in C : <<a, b>> \in RefOrder(C) <=>
                         a.rank > b.rank \/ (a.rank = b.rank /\ a.index < b.index)
  BY DEF RefOrder, Before
<1>2. \A a \in C : a.rank \in Int /\ a.index \in Int
  BY DEF Refs
<1>3. \A x \in C : <<x, x>> \notin RefOrder(C)
  BY <1>1, <1>2
<1>4. \A x, y, z \in C : <<x, y>> \in RefOrder(C) /\ <<y, z>> \in RefOrder(C)
                            => <<x, z>> \in RefOrder(C)
  BY <1>1, <1>2
<1>5. \A x, y \in C : x # y => <<x, y>> \in RefOrder(C) \/ <<y, x>> \in RefOrder(C)
  BY <1>1, <1>2 DEF Refs
<1>. QED
  BY <1>3, <1>4, <1>5 DEF StrictOrder

(* What lies before a place, an entry, what lay after it. *)
LEMMA InsertFacts ==
    ASSUME NEW S, NEW s \in Seq(S), NEW e \in S, NEW p \in 1 .. Len(s) + 1
    PROVE  /\ InsertAt(s, p, e) \in Seq(S) /\ Len(InsertAt(s, p, e)) = Len(s) + 1
           /\ DOMAIN InsertAt(s, p, e) = 1 .. Len(s) + 1
           /\ InsertAt(s, p, e)[p] = e
           /\ \A i \in 1 .. Len(s) : i < p => InsertAt(s, p, e)[i] = s[i]
           /\ \A i \in 1 .. Len(s) : i >= p => InsertAt(s, p, e)[i + 1] = s[i]
<1>. DEFINE n == Len(s)
            a == SubSeq(s, 1, p - 1)
            b == SubSeq(s, p, n)
            t == a \o <<e>> \o b
<1>1. n \in Nat /\ p \in Int /\ 1 <= p /\ p <= n + 1
  OBVIOUS
<1>2. InsertAt(s, p, e) = t
  BY DEF InsertAt
<1>3. a \in Seq(S) /\ Len(a) = p - 1 /\ \A i \in 1 .. p - 1 : a[i] = s[i]
  BY <1>1
<1>4. b \in Seq(S) /\ Len(b) = n - p + 1 /\ \A i \in 1 .. n - p + 1 : b[i] = s[p + i - 1]
  BY <1>1
<1>. HIDE DEF a, b
<1>. DEFINE c == a \o <<e>>
<1>5. c \in Seq(S) /\ Len(c) = p /\ c[p] = e /\ \A i \in 1 .. p - 1 : c[i] = a[i]
  <2>1. c = Append(a, e)
    BY <1>3
  <2>2. Len(a) + 1 = p
    BY <1>1, <1>3
  <2>. HIDE DEF c
  <2>. QED
    BY <1>1, <1>3, <2>1, <2>2
<1>. HIDE DEF c
<1>6. /\ t = c \o b /\ t \in Seq(S) /\ Len(t) = n + 1 /\ DOMAIN t = 1 .. n + 1
      /\ \A i \in 1 .. p : t[i] = c[i]
      /\ \A i \in 1 .. n - p + 1 : t[p + i] = b[i]
  <2>1. t = c \o b
    BY DEF c
  <2>2. c \o b \in Seq(S) /\ Len(c \o b) = n + 1
    <3>1. c \in Seq(S) /\ b \in Seq(S)
      BY <1>4, <1>5
    <3>2. c \o b \in Seq(S) /\ Len(c \o b) = Len(c) + Len(b)
      BY <3>1
    <3>. HIDE DEF n
    <3>3. Len(c) + Len(b) = n + 1
      BY <1>1, <1>4, <1>5
    <3>. QED
      BY <3>2, <3>3
  <2>. HIDE DEF n
  <2>3. DOMAIN (c \o b) = 1 .. n + 1
    BY <2>2
  <2>4. \A i \in 1 .. p : (c \o b)[i] = c[i]
    BY <1>1, <1>4, <1>5
  <2>5. \A i \in 1 .. n - p + 1 : (c \o b)[p + i] = b[i]
    BY <1>1, <1>4, <1>5
  <2>. QED
    BY <2>1, <2>2, <2>3, <2>4, <2>5
<1>. HIDE DEF t
<1>7. \A i \in 1 .. n : i < p => t[i] = s[i]
  BY <1>1, <1>3, <1>5, <1>6
<1>8. \A i \in 1 .. n : i >= p => t[i + 1] = s[i]
  <2>. TAKE i \in 1 .. n
  <2>. HAVE i >= p
  <2>. DEFINE k == i - p + 1
  <2>1. k \in 1 .. n - p + 1 /\ p + k = i + 1 /\ p + k - 1 = i
    BY <1>1
  <2>. HIDE DEF k
  <2>. QED
    BY <1>4, <1>6, <2>1
<1>9. t[p] = e
  BY <1>1, <1>5, <1>6
<1>. HIDE DEF n
<1>. QED
  BY <1>2, <1>6, <1>7, <1>8, <1>9 DEF n

(* A sorted list goes on being one around the place of a new reference. *)
LEMMA SortedInsert ==
    ASSUME NEW D, Refs(D), NEW s \in Seq(D), BestFirst(s), NEW x \in D,
           NEW p \in 1 .. Len(s) + 1,
           \A i \in 1 .. Len(s) : i < p => Before(s[i], x),
           \A i \in 1 .. Len(s) : i >= p => Before(x, s[i])
    PROVE  /\ BestFirst(InsertAt(s, p, x))
           /\ \A e : e \in ToSet(InsertAt(s, p, x)) <=> e \in ToSet(s) \/ e = x
<1>. DEFINE n == Len(s)
            t == InsertAt(s, p, x)
<1>1. /\ DOMAIN t = 1 .. n + 1 /\ t[p] = x
      /\ \A i \in 1 .. n : i < p => t[i] = s[i]
      /\ \A i \in 1 .. n : i >= p => t[i + 1] = s[i]
  BY InsertFacts
<1>2. /\ n \in Nat /\ DOMAIN s = 1 .. n /\ \A i \in 1 .. n : s[i] \in D
      /\ p \in Nat /\ 1 <= p /\ p <= n + 1
  OBVIOUS
<1>. HIDE DEF t, n
<1>3. ASSUME NEW i \in 1 .. n + 1
      PROVE  \/ i < p /\ i \in 1 .. n /\ t[i] = s[i]
             \/ i = p /\ t[i] = x
             \/ i > p /\ i - 1 \in 1 .. n /\ i - 1 >= p /\ t[i] = s[i - 1]
  <2>1. CASE i < p
    BY <1>1, <1>2, <2>1
  <2>2. CASE i = p
    BY <1>1, <2>2
  <2>3. CASE i > p
    <3>. DEFINE j == i - 1
    <3>1. j \in 1 .. n /\ j >= p /\ j + 1 = i
      BY <1>2, <2>3
    <3>. HIDE DEF j
    <3>2. t[i] = s[j]
      BY <1>1, <3>1
    <3>. QED
      BY <2>3, <3>1, <3>2 DEF j
  <2>. QED
    BY <1>2, <2>1, <2>2, <2>3
<1>4. ASSUME NEW i \in 1 .. n + 1, NEW j \in 1 .. n + 1, i < j PROVE Before(t[i], t[j])
  <2>1. CASE j < p
    <3>1. i \in 1 .. n /\ j \in 1 .. n /\ t[i] = s[i] /\ t[j] = s[j]
      BY <1>2, <1>3, <1>4, <2>1
    <3>. QED
      BY <1>2, <1>4, <3>1 DEF BestFirst
  <2>2. CASE j = p
    <3>1. i \in 1 .. n /\ i < p /\ t[i] = s[i] /\ t[j] = x
      BY <1>2, <1>3, <1>4, <2>2
    <3>. QED
      BY <3>1 DEF n
  <2>3. CASE j > p
    <3>1. j - 1 \in 1 .. n /\ j - 1 >= p /\ t[j] = s[j - 1]
      BY <1>3, <2>3
    <3>2. CASE i < p
      <4>1. i \in 1 .. n /\ t[i] = s[i] /\ i < j - 1
        BY <1>2, <1>3, <3>1, <3>2
      <4>. QED
        BY <1>2, <3>1, <4>1 DEF BestFirst
    <3>3. CASE i = p
      <4>1. t[i] = x
        BY <1>3, <3>3
      <4>. QED
        BY <3>1, <4>1 DEF n
    <3>4. CASE i > p
      <4>1. i - 1 \in 1 .. n /\ t[i] = s[i - 1] /\ i - 1 < j - 1
        BY <1>2, <1>3, <1>4, <3>1, <3>4
      <4>. QED
        BY <1>2, <3>1, <4>1 DEF BestFirst
    <3>. QED
      BY <1>2, <3>2, <3>3, <3>4
  <2>. QED
    BY <1>2, <2>1, <2>2, <2>3
<1>5. BestFirst(t)
  BY <1>1, <1>4 DEF BestFirst
<1>6. ASSUME NEW e PROVE e \in ToSet(t) <=> e \in ToSet(s) \/ e = x
  <2>1. e \in ToSet(t) <=> \E i \in 1 .. n + 1 : t[i] = e
    BY <1>1 DEF ToSet
  <2>2. e \in ToSet(s) <=> \E i \in 1 .. n : s[i] = e
    BY <1>2 DEF ToSet
  <2>3. (\E i \in 1 .. n + 1 : t[i] = e) => (\E i \in 1 .. n : s[i] = e) \/ e = x
    BY <1>3
  <2>4. e = x => \E i \in 1 .. n + 1 : t[i] = e
    BY <1>1, <1>2
  <2>5. ASSUME NEW i \in 1 .. n PROVE \E j \in 1 .. n + 1 : t[j] = s[i]
    <3>1. i \in 1 .. n + 1 /\ i + 1 \in 1 .. n + 1
      BY <1>2
    <3>2. t[i] = s[i] \/ t[i + 1] = s[i]
      BY <1>1, <1>2
    <3>. QED
      BY <3>1, <3>2
  <2>. QED
    BY <2>1, <2>2, <2>3, <2>4, <2>5
<1>. QED
  BY <1>5, <1>6 DEF t

(* What a list of references shows of the entries C so far: the best ones,  *)
(* in their order, and whether that is all there are.                       *)
Shows(R, v, C, cap) ==
    /\ DOMAIN v = {"refs", "truncated"}
    /\ v.refs \in Seq(C) /\ BestFirst(v.refs)
    /\ Top(R, ToSet(v.refs), C, cap)
    /\ v.truncated <=> Cardinality(C) > cap

(* insert_graph_ref and its kin keep that up, entry by entry. *)
LEMMA InsertHolds ==
    ASSUME NEW D, Refs(D), NEW C, C \in SUBSET D, IsFiniteSet(C), NEW x \in D, x \notin C,
           NEW cap \in Nat, NEW v, Shows(RefOrder(D), v, C, cap)
    PROVE  Shows(RefOrder(D), InsertRef(v, cap, x), C \cup {x}, cap)
<1>. DEFINE R == RefOrder(D)
            s == v.refs
            n == Len(s)
            B == ToSet(s)
            E == C \cup {x}
            W == InsertRef(v, cap, x)
<1>1. /\ DOMAIN v = {"refs", "truncated"} /\ s \in Seq(C) /\ BestFirst(s)
      /\ Top(R, B, C, cap) /\ (v.truncated <=> Cardinality(C) > cap)
  BY DEF Shows
<1>2. StrictOrder(R, D)
  BY RefsOrder
<1>3. \A a, b \in D : <<a, b>> \in R <=> Before(a, b)
  BY DEF RefOrder
<1>. HIDE DEF R
<1>4. n \in Nat /\ DOMAIN s = 1 .. n /\ \A i \in 1 .. n : s[i] \in C /\ s[i] \in D
  BY <1>1
<1>5. Unrepeated(s)
  <2>1. \A i, j \in 1 .. n : i < j => s[i] # s[j]
    BY <1>1, <1>2, <1>3, <1>4 DEF BestFirst, StrictOrder
  <2>2. \A i, j \in 1 .. n : i < j \/ j < i \/ i = j
    OBVIOUS
  <2>. QED
    BY <1>4, <2>1, <2>2 DEF Unrepeated
<1>6. IsFiniteSet(B) /\ Cardinality(B) = n /\ B \subseteq C
  BY <1>1, <1>5, LengthOf
<1>7. Cardinality(C) \in Nat /\ Cardinality(E) = Cardinality(C) + 1
  BY FS_AddElement, FS_CardinalityType
<1>8. n = IF Cardinality(C) < cap THEN Cardinality(C) ELSE cap
  BY <1>1, <1>6 DEF Top
<1>9. s \in Seq(E) /\ StrictOrder(R, E)
  <2>1. StrictOrder(R, E)
    BY <1>2 DEF StrictOrder
  <2>. QED
    BY <1>1, <2>1
<1>10. \A i \in 1 .. n : s[i] \in B
  BY <1>4 DEF ToSet
<1>11. ASSUME NEW b \in B PROVE b \in D /\ \E i \in 1 .. n : s[i] = b
  BY <1>4 DEF ToSet
<1>. HIDE DEF n, B, E
<1>12. CASE cap = 0 \/ (n = cap /\ ~Before(x, s[n]))
  <2>1. W = [v EXCEPT !.truncated = TRUE]
    BY <1>12 DEF InsertRef, n
  <2>2. DOMAIN W = {"refs", "truncated"} /\ W.refs = s /\ W.truncated
    BY <1>1, <2>1
  <2>3. n = cap
    BY <1>7, <1>8, <1>12
  <2>4. ASSUME NEW b \in B PROVE <<b, x>> \in R
    <3>1. PICK i \in 1 .. n : s[i] = b
      BY <1>11
    <3>2. n \in 1 .. n /\ cap # 0 /\ s[n] \in D /\ s[n] # x /\ b \in D
      BY <1>4, <2>3, <3>1
    <3>3. <<s[n], x>> \in R
      BY <1>2, <1>3, <1>12, <3>2 DEF StrictOrder
    <3>4. CASE i = n
      BY <3>1, <3>3, <3>4
    <3>5. CASE i # n
      <4>1. Before(s[i], s[n])
        BY <1>1, <1>4, <3>1, <3>2, <3>5 DEF BestFirst
      <4>2. <<b, s[n]>> \in R
        BY <1>3, <3>1, <3>2, <4>1
      <4>. QED
        BY <1>2, <3>2, <3>3, <4>2 DEF StrictOrder
    <3>. QED
      BY <3>4, <3>5
  <2>5. Top(R, B, C \cup {x}, cap)
    <3>1. Cardinality(B) = cap /\ \A b \in B : <<b, x>> \in R
      BY <1>6, <2>3, <2>4
    <3>2. Top(R, B, C, cap)
      BY <1>1 DEF B
    <3>. QED
      BY <3>1, <3>2, TopKeeps
  <2>6. Cardinality(E) > cap
    BY <1>7, <1>8, <2>3
  <2>. QED
    BY <1>1, <1>9, <2>2, <2>5, <2>6 DEF Shows, B, E, R
<1>13. CASE ~(cap = 0 \/ (n = cap /\ ~Before(x, s[n])))
  <2>. DEFINE K == IF n = cap THEN cap - 1 ELSE n
              kept == SubSeq(s, 1, K)
              before == {i \in DOMAIN kept : ~Before(x, kept[i])}
              p == Max({0} \cup before) + 1
              t == InsertAt(kept, p, x)
  <2>1. W = [refs |-> t, truncated |-> v.truncated \/ n = cap]
    BY <1>13 DEF InsertRef, n
  <2>2. K \in Nat /\ K <= n
    BY <1>4, <1>13
  <2>. HIDE DEF K
  <2>3. kept \in Seq(E) /\ Len(kept) = K /\ DOMAIN kept = 1 .. K
        /\ \A i \in 1 .. K : kept[i] = s[i] /\ i \in 1 .. n
    <3>1. SubSeq(s, 1, K) \in Seq(E) /\ Len(SubSeq(s, 1, K)) = K
      BY <1>4, <1>9, <2>2 DEF n
    <3>2. \A i \in 1 .. K : SubSeq(s, 1, K)[i] = s[i] /\ i \in 1 .. n
      BY <1>4, <1>9, <2>2 DEF n
    <3>3. DOMAIN SubSeq(s, 1, K) = 1 .. K
      BY <3>1
    <3>. QED
      BY <3>1, <3>2, <3>3
  <2>. HIDE DEF kept
  <2>4. /\ p \in 1 .. K + 1
        /\ \A i \in 1 .. K : i < p => ~(i > p - 1)
        /\ \A i \in 1 .. K : i >= p => Before(x, kept[i])
        /\ p > 1 => p - 1 \in 1 .. K /\ ~Before(x, kept[p - 1])
    <3>. DEFINE g == Max({0} \cup before)
    <3>1. before \in SUBSET (1 .. K)
      BY <2>3
    <3>2. g \in {0} \cup before /\ \A i \in before : i <= g
      <4>. HIDE DEF before
      <4>. QED
        BY <2>2, <3>1, GreatestIndex
    <3>. HIDE DEF g
    <3>3. p = g + 1 /\ g \in 0 .. K
      BY <2>2, <3>1, <3>2 DEF g
    <3>4. \A i \in 1 .. K : i >= p => i \notin before
      BY <3>2, <3>3
    <3>5. g > 0 => g \in before
      BY <3>2
    <3>. HIDE DEF p
    <3>6. p - 1 = g
      BY <3>3
    <3>. QED
      BY <2>2, <2>3, <3>3, <3>4, <3>5, <3>6
  <2>. HIDE DEF p
  <2>5. kept \in Seq(D) /\ BestFirst(kept) /\ \A i \in 1 .. K : kept[i] \in D /\ kept[i] # x
    <3>1. \A i \in 1 .. K : kept[i] \in D /\ kept[i] # x
      BY <1>4, <2>3
    <3>2. BestFirst(kept)
      BY <1>1, <1>4, <2>3 DEF BestFirst
    <3>3. kept \in Seq(D)
      BY <2>3, <3>1
    <3>. QED
      BY <3>1, <3>2, <3>3
  <2>6. ASSUME NEW i \in 1 .. K, i < p PROVE Before(kept[i], x)
    <3>. DEFINE q == p - 1
    <3>1. q \in 1 .. K /\ ~Before(x, kept[q]) /\ i <= q
      BY <2>2, <2>4, <2>6
    <3>. HIDE DEF q
    <3>2. Before(kept[q], x)
      BY <1>2, <1>3, <2>5, <3>1 DEF StrictOrder
    <3>3. CASE i = q
      BY <3>2, <3>3
    <3>4. CASE i # q
      <4>1. Before(kept[i], kept[q])
        BY <2>3, <2>5, <3>1, <3>4 DEF BestFirst
      <4>2. <<kept[i], kept[q]>> \in R /\ <<kept[q], x>> \in R
        BY <1>3, <2>5, <3>1, <3>2, <4>1
      <4>3. <<kept[i], x>> \in R
        BY <1>2, <2>5, <3>1, <4>2 DEF StrictOrder
      <4>. QED
        BY <1>3, <2>5, <4>3
    <3>. QED
      BY <3>3, <3>4
  <2>7. /\ BestFirst(t)
        /\ \A e : e \in ToSet(t) <=> e \in ToSet(kept) \/ e = x
    <3>1. /\ p \in 1 .. Len(kept) + 1
          /\ \A i \in 1 .. Len(kept) : i < p => Before(kept[i], x)
          /\ \A i \in 1 .. Len(kept) : i >= p => Before(x, kept[i])
          /\ kept \in Seq(D) /\ BestFirst(kept)
      BY <2>3, <2>4, <2>5, <2>6
    <3>. QED
      BY <3>1, SortedInsert
  <2>8. t \in Seq(E)
    <3>1. p \in 1 .. Len(kept) + 1 /\ kept \in Seq(E) /\ x \in E
      BY <2>3, <2>4 DEF E
    <3>. QED
      BY <3>1, InsertFacts
  <2>. HIDE DEF t
  <2>9. /\ DOMAIN W = {"refs", "truncated"} /\ W.refs = t
        /\ W.truncated <=> v.truncated \/ n = cap
    <3>. HIDE DEF W
    <3>1. DOMAIN W = {"refs", "truncated"} /\ W.refs = t
      BY <2>1
    <3>2. W.truncated = (v.truncated \/ n = cap)
      BY <2>1
    <3>. QED
      BY <3>1, <3>2
  <2>10. W.truncated <=> Cardinality(E) > cap
    BY <1>1, <1>7, <1>8, <2>9
  <2>11. ASSUME NEW e PROVE e \in ToSet(kept) <=> \E i \in 1 .. K : s[i] = e
    BY <2>3 DEF ToSet
  <2>12. Top(R, ToSet(t), C \cup {x}, cap)
    <3>1. CASE n # cap
      <4>1. K = n
        BY <3>1 DEF K
      <4>2. \A e : e \in ToSet(kept) <=> e \in B
        BY <1>10, <1>11, <2>11, <4>1
      <4>3. ToSet(t) = B \cup {x}
        BY <2>7, <4>2
      <4>4. Cardinality(B) # cap /\ Top(R, B, C, cap)
        BY <1>1, <1>6, <3>1 DEF B
      <4>5. Top(R, B \cup {x}, C \cup {x}, cap)
        BY <4>4, TopGrows
      <4>. QED
        BY <4>3, <4>5
    <3>2. CASE n = cap
      <4>. DEFINE w == s[n]
      <4>1. K = n - 1 /\ n \in 1 .. n /\ Before(x, w) /\ n # 0
        BY <1>4, <1>13, <3>2 DEF K
      <4>2. w \in B /\ w \in D
        BY <1>4, <1>10, <4>1
      <4>3. \A i \in 1 .. n : i \in 1 .. K \/ i = n
        BY <1>4, <4>1
      <4>4. \A i \in 1 .. K : s[i] # w /\ <<s[i], w>> \in R
        <5>1. \A i \in 1 .. K : Before(s[i], w) /\ i \in 1 .. n /\ i # n
          BY <1>1, <1>4, <2>2, <4>1 DEF BestFirst
        <5>. QED
          BY <1>2, <1>3, <1>4, <4>2, <5>1 DEF StrictOrder
      <4>. HIDE DEF w
      <4>5. \A e : e \in ToSet(kept) <=> e \in B \ {w}
        <5>1. \A i \in 1 .. K : s[i] \in B
          BY <1>10, <2>3
        <5>2. \A b \in B : b # w => \E i \in 1 .. K : s[i] = b
          BY <1>11, <4>3 DEF w
        <5>. QED
          BY <2>11, <4>4, <5>1, <5>2
      <4>6. ToSet(t) = (B \ {w}) \cup {x}
        BY <2>7, <4>5
      <4>7. /\ Cardinality(B) = cap /\ Top(R, B, C, cap) /\ StrictOrder(R, C \cup {x})
            /\ \A b \in B \ {w} : <<b, w>> \in R
            /\ <<x, w>> \in R
        <5>1. \A b \in B \ {w} : <<b, w>> \in R
          BY <1>11, <4>3, <4>4 DEF w
        <5>2. <<x, w>> \in R
          BY <1>3, <4>1, <4>2
        <5>. QED
          BY <1>1, <1>6, <1>9, <3>2, <5>1, <5>2 DEF B, E
      <4>8. Top(R, (B \ {w}) \cup {x}, C \cup {x}, cap)
        BY <4>2, <4>7, TopReplaces
      <4>. QED
        BY <4>6, <4>8
    <3>. QED
      BY <3>1, <3>2
  <2>. QED
    BY <2>7, <2>8, <2>9, <2>10, <2>12 DEF Shows, R, E
<1>. QED
  BY <1>12, <1>13

(* An insertion keeps the references a list.                                *)
LEMMA InsertType ==
    ASSUME NEW T, NEW v \in [refs : Seq(T), truncated : BOOLEAN], NEW x \in T, NEW cap \in Nat
    PROVE  InsertRef(v, cap, x) \in [refs : Seq(T), truncated : BOOLEAN]
<1>. DEFINE s == v.refs
            n == Len(s)
            V == [refs : Seq(T), truncated : BOOLEAN]
<1>1. s \in Seq(T) /\ v.truncated \in BOOLEAN /\ n \in Nat
  OBVIOUS
<1>2. CASE cap = 0 \/ (n = cap /\ ~Before(x, s[n]))
  BY <1>2 DEF InsertRef
<1>3. CASE ~(cap = 0 \/ (n = cap /\ ~Before(x, s[n])))
  <2>. DEFINE K == IF n = cap THEN cap - 1 ELSE n
              kept == SubSeq(s, 1, K)
              before == {i \in DOMAIN kept : ~Before(x, kept[i])}
              p == Max({0} \cup before) + 1
  <2>1. InsertRef(v, cap, x) = [refs |-> InsertAt(kept, p, x),
                                truncated |-> v.truncated \/ n = cap]
    BY <1>3 DEF InsertRef
  <2>2. K \in Nat /\ K <= n
    BY <1>1, <1>3
  <2>. HIDE DEF K
  <2>3. kept \in Seq(T) /\ Len(kept) = K /\ DOMAIN kept = 1 .. K
    <3>1. SubSeq(s, 1, K) \in Seq(T) /\ Len(SubSeq(s, 1, K)) = K
      BY <1>1, <2>2
    <3>. QED
      BY <3>1
  <2>. HIDE DEF kept
  <2>4. p \in 1 .. Len(kept) + 1
    <3>. DEFINE g == Max({0} \cup before)
    <3>1. before \in SUBSET (1 .. K)
      BY <2>3
    <3>2. g \in {0} \cup before
      <4>. HIDE DEF before
      <4>. QED
        BY <2>2, <3>1, GreatestIndex
    <3>3. g \in 0 .. K
      BY <2>2, <3>1, <3>2
    <3>. HIDE DEF g
    <3>. QED
      BY <2>2, <2>3, <3>3 DEF g
  <2>. HIDE DEF p
  <2>5. InsertAt(kept, p, x) \in Seq(T)
    BY <2>3, <2>4, InsertFacts
  <2>. QED
    BY <2>1, <2>5
<1>. QED
  BY <1>2, <1>3

(* The loop of spg_context_build over a table, one entry after the other.   *)
ViewOf(cands, cap) ==
    CHOOSE g : g = [n \in 0 .. Len(cands) |->
                       IF n = 0 THEN [refs |-> <<>>, truncated |-> FALSE]
                       ELSE InsertRef(g[n - 1], cap, cands[n])]

(* The references of the model by their recursion.                          *)
LEMMA RankedIs ==
    ASSUME NEW cands, NEW limit
    PROVE  Ranked(cands, limit) = ViewOf(cands, Lesser(limit, RefCap))[Len(cands)]
BY DEF Ranked, ViewOf

(* That recursion unfolds, entry by entry (spg_context_build).              *)
LEMMA ViewSteps ==
    ASSUME NEW T, NEW cands \in Seq(T), NEW cap \in Nat
    PROVE  /\ ViewOf(cands, cap)[0] = [refs |-> <<>>, truncated |-> FALSE]
           /\ \A n \in 1 .. Len(cands) :
                 ViewOf(cands, cap)[n] = InsertRef(ViewOf(cands, cap)[n - 1], cap, cands[n])
<1>. DEFINE N == Len(cands)
            V == [refs : Seq(T), truncated : BOOLEAN]
            none == [refs |-> <<>>, truncated |-> FALSE]
            F == [p \in (1 .. N) \X V |-> InsertRef(p[2], cap, cands[p[1]])]
            Solves(g) == g = [n \in 0 .. N |->
                                 IF n = 0 THEN none ELSE InsertRef(g[n - 1], cap, cands[n])]
<1>1. N \in Nat /\ none \in V /\ \A n \in 1 .. N : cands[n] \in T
  <2>1. <<>> \in Seq(T)
    OBVIOUS
  <2>. QED
    BY <2>1
<1>2. F \in [(1 .. N) \X V -> V]
  <2>. SUFFICES ASSUME NEW p \in (1 .. N) \X V
                PROVE  InsertRef(p[2], cap, cands[p[1]]) \in V
    BY Zenon
  <2>1. p[1] \in 1 .. N /\ p[2] \in V
    BY Zenon
  <2>2. cands[p[1]] \in T
    BY <1>1, <2>1
  <2>. QED
    BY <2>1, <2>2, InsertType
<1>. HIDE DEF V, none
<1>3. \A n \in 1 .. N, b \in V : F[<<n, b>>] = InsertRef(b, cap, cands[n])
  OBVIOUS
<1>. HIDE DEF F
<1>4. PICK g : Recurs(g, N, V, none, F)
  <2>. HIDE DEF N
  <2>1. \E g : Recurs(g, N, V, none, F)
    BY <1>1, <1>2, Recursion
  <2>. QED
    BY <2>1
<1>5. Solves(g)
  <2>. HIDE DEF N
  <2>1. ASSUME NEW n \in 0 .. N
        PROVE  g[n] = IF n = 0 THEN none ELSE InsertRef(g[n - 1], cap, cands[n])
    <3>1. CASE n = 0
      BY <1>4, <3>1 DEF Recurs
    <3>2. CASE n # 0
      <4>1. n \in 1 .. N /\ n - 1 \in 0 .. N
        BY <1>1, <3>2
      <4>2. g[n - 1] \in V /\ g[n] = F[<<n, g[n - 1]>>]
        BY <1>4, <4>1 DEF Recurs
      <4>. QED
        BY <1>3, <3>2, <4>1, <4>2
    <3>. QED
      BY <3>1, <3>2
  <2>2. g = [n \in 0 .. N |-> g[n]]
    BY <1>4 DEF Recurs
  <2>. QED
    BY <2>1, <2>2
<1>6. Solves(ViewOf(cands, cap))
  <2>1. ViewOf(cands, cap) = CHOOSE h : Solves(h)
    BY DEF ViewOf, none
  <2>. HIDE DEF Solves
  <2>. QED
    BY <1>5, <2>1
<1>7. 0 \in 0 .. N /\ \A n \in 1 .. N : n \in 0 .. N /\ n # 0
  BY <1>1
<1>. QED
  BY <1>6, <1>7 DEF none

\* Candidates: entry i of a table, under the index i.
(* Candidates by their place in the table.                                  *)
Numbered(cands) ==
    \A i \in DOMAIN cands : cands[i].index = i /\ cands[i].rank \in Int

(* The first n candidates.                                                  *)
Firsts(cands, n) == {cands[i] : i \in 1 .. n}

(* After the whole table the references are the best of it, best first.     *)
LEMMA RankedShows ==
    ASSUME NEW T, NEW cands \in Seq(T), Numbered(cands), NEW limit \in Nat
    PROVE  /\ Shows(RefOrder(ToSet(cands)), Ranked(cands, limit), ToSet(cands),
                    Lesser(limit, RefCap))
           /\ Cardinality(ToSet(cands)) = Len(cands) /\ IsFiniteSet(ToSet(cands))
           /\ Refs(ToSet(cands)) /\ Lesser(limit, RefCap) \in Nat
<1>. DEFINE N == Len(cands)
            D == ToSet(cands)
            R == RefOrder(D)
            cap == Lesser(limit, RefCap)
            g == ViewOf(cands, cap)
            K == {n \in 0 .. N : Shows(R, g[n], Firsts(cands, n), cap)}
<1>1. N \in Nat /\ DOMAIN cands = 1 .. N
  OBVIOUS
<1>2. D = Firsts(cands, N) /\ \A i \in 1 .. N : cands[i] \in D
  BY <1>1 DEF ToSet, Firsts
<1>3. cap \in Nat
  BY ContextAssumption DEF Lesser
<1>4. Unrepeated(cands)
  BY DEF Unrepeated, Numbered
<1>5. IsFiniteSet(D) /\ Cardinality(D) = N
  BY <1>4, LengthOf
<1>6. Refs(D)
  <2>1. \A r \in D : \E i \in 1 .. N : r = cands[i]
    BY <1>2 DEF Firsts
  <2>2. \A i \in 1 .. N : cands[i].index = i /\ cands[i].rank \in Int
    BY <1>1 DEF Numbered
  <2>. HIDE DEF N, D
  <2>. QED
    BY <1>1, <2>1, <2>2 DEF Refs
<1>. HIDE DEF cap
<1>7. /\ g[0] = [refs |-> <<>>, truncated |-> FALSE]
      /\ \A n \in 1 .. N : g[n] = InsertRef(g[n - 1], cap, cands[n])
  BY <1>3, ViewSteps
<1>. HIDE DEF N, D, g
<1>8. 0 \in K
  <2>. DEFINE none == [refs |-> <<>>, truncated |-> FALSE]
  <2>1. Firsts(cands, 0) = {}
    BY DEF Firsts
  <2>2. <<>> \in Seq({}) /\ BestFirst(<<>>) /\ ToSet(<<>>) = {}
    BY DEF BestFirst, ToSet
  <2>3. Cardinality({}) = 0
    BY FS_EmptySet
  <2>4. Top(R, {}, {}, cap)
    BY <1>3, <2>3 DEF Top
  <2>5. DOMAIN none = {"refs", "truncated"} /\ none.refs = <<>> /\ none.truncated = FALSE
    OBVIOUS
  <2>. HIDE DEF none, R
  <2>6. Shows(R, none, {}, cap)
    <3>1. none.refs \in Seq({}) /\ BestFirst(none.refs)
      BY <2>2, <2>5, Zenon
    <3>2. Top(R, ToSet(none.refs), {}, cap)
      BY <2>2, <2>4, <2>5, Zenon
    <3>3. none.truncated <=> Cardinality({}) > cap
      BY <1>3, <2>3, <2>5
    <3>. QED
      BY <2>5, <3>1, <3>2, <3>3, Zenon DEF Shows
  <2>7. Shows(R, g[0], Firsts(cands, 0), cap)
    BY <1>7, <2>1, <2>6 DEF none
  <2>8. 0 \in 0 .. N
    BY <1>1
  <2>. QED
    BY <2>7, <2>8
<1>9. ASSUME NEW n \in K, n < N PROVE n + 1 \in K
  <2>. DEFINE m == n + 1
              C == Firsts(cands, n)
              x == cands[m]
  <2>1. n \in 0 .. N /\ Shows(R, g[n], C, cap)
    OBVIOUS
  <2>2. n \in Nat /\ m \in 1 .. N /\ m \in 0 .. N /\ m - 1 = n /\ m \notin 1 .. n
        /\ 1 .. m = (1 .. n) \cup {m} /\ 1 .. n \subseteq 1 .. N
    BY <1>1, <1>9, <2>1
  <2>. HIDE DEF m
  <2>3. g[m] = InsertRef(g[n], cap, x)
    BY <1>7, <2>2
  <2>4. Firsts(cands, m) = C \cup {x}
    BY <2>2 DEF Firsts
  <2>5. C \in SUBSET D /\ IsFiniteSet(C) /\ x \in D /\ x \notin C
    <3>1. C \in SUBSET D /\ x \in D
      BY <1>2, <2>2 DEF Firsts
    <3>2. x \notin C
      BY <1>1, <1>4, <2>2 DEF Firsts, Unrepeated
    <3>. QED
      BY <1>5, <3>1, <3>2, FS_Subset
  <2>6. Shows(R, InsertRef(g[n], cap, x), C \cup {x}, cap)
    <3>. HIDE DEF C, x
    <3>. QED
      BY <1>3, <1>6, <2>1, <2>5, InsertHolds
  <2>7. Shows(R, g[m], Firsts(cands, m), cap)
    BY <2>3, <2>4, <2>6
  <2>. HIDE DEF R
  <2>. QED
    BY <2>2, <2>7 DEF m
<1>10. K \in SUBSET (0 .. N)
  OBVIOUS
<1>. HIDE DEF K
<1>11. K = 0 .. N
  BY <1>1, <1>8, <1>9, <1>10, UpTo
<1>12. N \in K
  BY <1>1, <1>11
<1>13. Shows(R, g[N], D, cap)
  BY <1>2, <1>12 DEF K
<1>14. Ranked(cands, limit) = g[N]
  BY RankedIs DEF g, N, cap
<1>. QED
  BY <1>3, <1>5, <1>6, <1>13, <1>14 DEF D, N, cap

-----------------------------------------------------------------------------
(* The graph the references point into.                                     *)

(* The kinds of a node.                                                     *)
Kinds == {"goal", "plan", "action", "policy_decision", "result", "memory",
          "hypothesis", "observation", "eval_mark"}
(* Scores are numbers.                                                      *)
ScoresOk(c) == {c.confidence, c.utility, c.risk, c.novelty, c.cost} \subseteq Int
(* A node of the table has a kind and scores.                               *)
NodeOk(x) ==
    /\ DOMAIN x = {"kind", "flags", "scores"}
    /\ x.kind \in Kinds /\ ScoresOk(x.scores)

(* The nodes of a table.                                                    *)
NodesOk(nodes) ==
    /\ \E S : nodes \in Seq(S)
    /\ \A i \in DOMAIN nodes : NodeOk(nodes[i])

(* A table of nodes and edges.                                              *)
GraphOk(g) == DOMAIN g = {"nodes", "edges"} /\ NodesOk(g.nodes)

(* A node of the table has a rank. *)
LEMMA GraphRankIs ==
    ASSUME NEW x, NodeOk(x)
    PROVE  GraphRank(x) \in Int
<1>. DEFINE bonus == (IF "open" \in x.flags THEN 5000 ELSE 0)
                     + (IF "blocked" \in x.flags THEN 1200 ELSE 0)
            flagged == NodeWeight[x.kind] + bonus
            closed == IF "closed" \in x.flags /\ flagged >= 2500 THEN 2500 ELSE 0
            c == x.scores
            rest == c.confidence \div 2 + c.utility + c.novelty \div 2
                    + (10000 - c.risk) \div 3 + (10000 - c.cost) \div 4
<1>1. NodeWeight[x.kind] \in Int
  <2>1. x.kind \in Kinds
    BY DEF NodeOk
  <2>. QED
    BY <2>1 DEF Kinds, NodeWeight
<1>2. bonus \in Int
  OBVIOUS
<1>. DEFINE w == NodeWeight[x.kind]
<1>. HIDE DEF bonus, w
<1>3. flagged \in Int /\ closed \in Int
  BY <1>1, <1>2 DEF w
<1>4. /\ c.confidence \div 2 \in Int /\ c.utility \in Int /\ c.novelty \div 2 \in Int
      /\ (10000 - c.risk) \div 3 \in Int /\ (10000 - c.cost) \div 4 \in Int
  <2>1. /\ c.confidence \in Int /\ c.utility \in Int /\ c.novelty \in Int
        /\ c.risk \in Int /\ c.cost \in Int
    BY DEF NodeOk, ScoresOk
  <2>. HIDE DEF c
  <2>. QED
    BY <2>1
<1>. DEFINE a1 == c.confidence \div 2
            a2 == c.utility
            a3 == c.novelty \div 2
            a4 == (10000 - c.risk) \div 3
            a5 == (10000 - c.cost) \div 4
<1>. HIDE DEF flagged, closed
<1>5. GraphRank(x) = flagged - closed + a1 + a2 + a3 + a4 + a5
  BY DEF GraphRank, flagged, closed, bonus
<1>6. a1 \in Int /\ a2 \in Int /\ a3 \in Int /\ a4 \in Int /\ a5 \in Int
  BY <1>4
<1>. HIDE DEF a1, a2, a3, a4, a5
<1>. QED
  BY <1>3, <1>5, <1>6

(* A node more, or the table as it was when it is full                      *)
(* (spg_graph_add_node).                                                    *)
LEMMA NodeAdded ==
    ASSUME NEW g, GraphOk(g), NEW kind \in Kinds
    PROVE  /\ GraphOk(AddNode(g, kind).g)
           /\ AddNode(g, kind).ok =>
                 /\ DOMAIN AddNode(g, kind).g.nodes = 1 .. Len(AddNode(g, kind).g.nodes)
                 /\ Len(AddNode(g, kind).g.nodes) \in Nat
                 /\ Len(AddNode(g, kind).g.nodes) # 0
<1>1. CASE Len(g.nodes) >= MaxNodes
  BY <1>1 DEF AddNode
<1>2. CASE ~(Len(g.nodes) >= MaxNodes)
  <2>. DEFINE x == [kind |-> kind, flags |-> {"open"}, scores |-> NoScores]
              s == g.nodes
              n == Len(s)
              t == Append(s, x)
              h == [g EXCEPT !.nodes = t]
  <2>1. AddNode(g, kind).g = h
    BY <1>2 DEF AddNode
  <2>2. NodeOk(x)
    BY DEF NodeOk, ScoresOk, NoScores
  <2>3. PICK S : s \in Seq(S)
    BY DEF GraphOk, NodesOk
  <2>. HIDE DEF x
  <2>4. /\ n \in Nat /\ DOMAIN s = 1 .. n /\ t \in Seq(S \cup {x})
        /\ DOMAIN t = 1 .. n + 1 /\ Len(t) = n + 1
        /\ t[n + 1] = x /\ \A i \in 1 .. n : t[i] = s[i]
    BY <2>3
  <2>. HIDE DEF t, n
  <2>5. \A i \in 1 .. n + 1 : i \in 1 .. n \/ i = n + 1
    BY <2>4
  <2>6. \A i \in DOMAIN t : NodeOk(t[i])
    BY <2>2, <2>4, <2>5 DEF GraphOk, NodesOk
  <2>7. NodesOk(t)
    BY <2>4, <2>6 DEF NodesOk
  <2>8. DOMAIN h = {"nodes", "edges"} /\ h.nodes = t
    BY DEF GraphOk
  <2>. HIDE DEF h
  <2>9. GraphOk(h)
    BY <2>7, <2>8 DEF GraphOk
  <2>. QED
    BY <2>1, <2>4, <2>8, <2>9
<1>. QED
  BY <1>1, <1>2

(* The scores and flags of a node of the table are set.                     *)
LEMMA NodeScored ==
    ASSUME NEW g, GraphOk(g), NEW n \in DOMAIN g.nodes, NEW c, ScoresOk(c), NEW flags
    PROVE  GraphOk(SetFlags(SetScores(g, n, c), n, flags))
<1>. DEFINE y == [[g.nodes[n] EXCEPT !.scores = c] EXCEPT !.flags = flags]
            s == g.nodes
            t == [s EXCEPT ![n] = y]
            h == SetScores(g, n, c)
            k == SetFlags(h, n, flags)
<1>1. PICK S : s \in Seq(S)
  BY DEF GraphOk, NodesOk
<1>2. NodeOk(s[n])
  BY DEF GraphOk, NodesOk
<1>3. NodeOk(y)
  BY <1>2 DEF NodeOk
<1>4. h = [g EXCEPT !.nodes = [s EXCEPT ![n] = [s[n] EXCEPT !.scores = c]]]
  BY DEF SetScores
<1>5. DOMAIN h = {"nodes", "edges"} /\ h.nodes = [s EXCEPT ![n] = [s[n] EXCEPT !.scores = c]]
  <2>. HIDE DEF h
  <2>. QED
    BY <1>4 DEF GraphOk
<1>. HIDE DEF h
<1>6. k = [h EXCEPT !.nodes = [h.nodes EXCEPT ![n] = [h.nodes[n] EXCEPT !.flags = flags]]]
  BY DEF SetFlags
<1>. HIDE DEF k
<1>7. DOMAIN k = {"nodes", "edges"}
      /\ k.nodes = [h.nodes EXCEPT ![n] = [h.nodes[n] EXCEPT !.flags = flags]]
  BY <1>5, <1>6
<1>. HIDE DEF y
<1>8. k.nodes = t
  <2>1. h.nodes[n] = [s[n] EXCEPT !.scores = c] /\ DOMAIN h.nodes = DOMAIN s
        /\ \A i \in DOMAIN s : i # n => h.nodes[i] = s[i]
    BY <1>5
  <2>2. k.nodes = [i \in DOMAIN s |-> IF i = n THEN y ELSE h.nodes[i]]
    BY <1>7, <2>1 DEF y
  <2>3. t = [i \in DOMAIN s |-> IF i = n THEN y ELSE s[i]]
    OBVIOUS
  <2>. HIDE DEF t, s
  <2>. QED
    BY <2>1, <2>2, <2>3
<1>9. t \in Seq(S \cup {y}) /\ DOMAIN t = DOMAIN s
      /\ \A i \in DOMAIN s : t[i] = IF i = n THEN y ELSE s[i]
  BY <1>1
<1>. HIDE DEF t
<1>10. NodesOk(t)
  BY <1>3, <1>9 DEF GraphOk, NodesOk
<1>. QED
  BY <1>7, <1>8, <1>10 DEF GraphOk, k, h

(* An edge more changes no node.                                            *)
LEMMA EdgeAdded ==
    ASSUME NEW g, GraphOk(g), NEW a, NEW b
    PROVE  GraphOk(AddEdge(g, a, b).g)
<1>1. AddEdge(g, a, b).g = g \/ AddEdge(g, a, b).g = [g EXCEPT !.edges = Append(@, <<a, b>>)]
  BY DEF AddEdge
<1>. QED
  BY <1>1 DEF GraphOk

(* What a node with scores and an edge leaves of the graph, failed or not.  *)
Scored(g, n, c, flags) == SetFlags(SetScores(g, n, c), n, flags)

(* A node with its scores, and the edge to it.                              *)
LEMMA ScoredAdded ==
    ASSUME NEW g, GraphOk(g), NEW kind \in Kinds, AddNode(g, kind).ok,
           NEW c, ScoresOk(c), NEW flags, NEW a, NEW b
    PROVE  GraphOk(AddEdge(Scored(AddNode(g, kind).g, Len(AddNode(g, kind).g.nodes), c, flags),
                           a, b).g)
<1>. DEFINE h == AddNode(g, kind).g
            n == Len(h.nodes)
<1>1. GraphOk(h) /\ DOMAIN h.nodes = 1 .. n /\ n \in Nat /\ n # 0
  BY NodeAdded
<1>. HIDE DEF h
<1>2. n \in DOMAIN h.nodes
  BY <1>1
<1>. HIDE DEF n
<1>3. GraphOk(Scored(h, n, c, flags))
  BY <1>1, <1>2, NodeScored DEF Scored
<1>4. GraphOk(AddEdge(Scored(h, n, c, flags), a, b).g)
  BY <1>3, EdgeAdded
<1>. QED
  BY <1>4 DEF h, n

(* The table after the observation of a step (agent_loop.c).                *)
LEMMA ActorGraph ==
    ASSUME NEW g, GraphOk(g)
    PROVE  GraphOk(ActorUpdates(g).g)
<1>. DEFINE r == AddNode(g, "observation")
            c == [confidence |-> 5000, utility |-> 5000, risk |-> 0,
                  novelty |-> 5000, cost |-> 0]
            a == AddNode(r.g, "plan")
            n == Len(a.g.nodes)
<1>1. ActorUpdates(g) = IF ~(r.ok /\ a.ok) THEN [ok |-> FALSE, g |-> r.g]
                        ELSE AddEdge(Scored(a.g, n, c, {"open"}), <<n, n - 1>>[1], <<n, n - 1>>[2])
  BY DEF ActorUpdates, AddScored, Scored
<1>2. GraphOk(r.g) /\ "plan" \in Kinds
  BY NodeAdded DEF Kinds
<1>3. ScoresOk(c)
  BY DEF ScoresOk
<1>. HIDE DEF r, c
<1>4. a.ok => GraphOk(AddEdge(Scored(a.g, n, c, {"open"}), <<n, n - 1>>[1], <<n, n - 1>>[2]).g)
  BY <1>2, <1>3, ScoredAdded
<1>. HIDE DEF a
<1>. QED
  BY <1>1, <1>2, <1>4

(* The table after a denied proposal.                                       *)
LEMMA DenyGraph ==
    ASSUME NEW g, GraphOk(g)
    PROVE  GraphOk(DenyUpdates(g).g)
<1>. DEFINE r == [ok |-> TRUE, g |-> g]
            c == [NoScores EXCEPT !.confidence = 10000]
            a == AddNode(r.g, "policy_decision")
            n == Len(a.g.nodes)
            e == <<PlanNode(g), n>>
<1>1. DenyUpdates(g) = IF ~(r.ok /\ a.ok) THEN [ok |-> FALSE, g |-> r.g]
                       ELSE AddEdge(Scored(a.g, n, c, {"blocked"}), e[1], e[2])
  BY DEF DenyUpdates, AddScored, Scored
<1>2. r.g = g /\ "policy_decision" \in Kinds
  BY DEF Kinds
<1>3. ScoresOk(c)
  BY DEF ScoresOk, NoScores
<1>. HIDE DEF r, c, e
<1>4. a.ok => GraphOk(AddEdge(Scored(a.g, n, c, {"blocked"}), e[1], e[2]).g)
  BY <1>2, <1>3, ScoredAdded
<1>. HIDE DEF a
<1>. QED
  BY <1>1, <1>2, <1>4

(* The table after a simulated one that succeeded.                          *)
LEMMA SimGraph ==
    ASSUME NEW g, GraphOk(g)
    PROVE  GraphOk(SimUpdates(g, TRUE).g)
<1>. DEFINE r == [ok |-> TRUE, g |-> g]
            c == [confidence |-> 10000, utility |-> IF TRUE THEN 7500 ELSE 0,
                  risk |-> 0, novelty |-> 2500, cost |-> 0]
            a == AddNode(r.g, "result")
            n == Len(a.g.nodes)
            e == <<PlanNode(g), n>>
            u == SimUpdates(g, TRUE)
<1>1. u = IF ~(r.ok /\ a.ok) THEN [ok |-> FALSE, g |-> r.g]
                            ELSE AddEdge(Scored(a.g, n, c, {"open"}), e[1], e[2])
  BY DEF SimUpdates, AddScored, Scored
<1>2. r.g = g /\ "result" \in Kinds
  BY DEF Kinds
<1>3. ScoresOk(c)
  BY DEF ScoresOk
<1>. HIDE DEF r, c, e
<1>4. a.ok => GraphOk(AddEdge(Scored(a.g, n, c, {"open"}), e[1], e[2]).g)
  BY <1>2, <1>3, ScoredAdded
<1>. HIDE DEF a, u
<1>5. GraphOk(u.g)
  BY <1>1, <1>2, <1>4
<1>. QED
  BY <1>5 DEF u

(* The tables after a step, whatever came of it. *)
LEMMA TablesGraph ==
    ASSUME NEW o, GraphOk(run.graph)
    PROVE  GraphOk(TablesAfter(o).graph)
<1>. DEFINE a == ActorUpdates(run.graph)
<1>1. GraphOk(a.g)
  BY ActorGraph
<1>. HIDE DEF a
<1>2. GraphOk(DenyUpdates(a.g).g) /\ GraphOk(SimUpdates(a.g, TRUE).g)
  BY <1>1, DenyGraph, SimGraph
<1>3. TablesAfter(o).graph \in {a.g, DenyUpdates(a.g).g, SimUpdates(a.g, TRUE).g}
  BY DEF TablesAfter, a
<1>. QED
  BY <1>1, <1>2, <1>3

(* The kinds of a fact.                                                     *)
FactKinds == {"constraint", "artifact", "relation", "entity", "observation"}
(* A fact of the table has what its rank is made of.                        *)
FactOk(x) == x.kind \in FactKinds /\ {x.confidence, x.event} \subseteq Int
(* The facts of a table.                                                    *)
FactsOk(facts) ==
    /\ \E S : facts \in Seq(S)
    /\ \A i \in DOMAIN facts : FactOk(facts[i])

(* A fact of the table has a rank. *)
LEMMA FactRankIs ==
    ASSUME NEW x, FactOk(x)
    PROVE  FactRank(x) \in Int
<1>. DEFINE a1 == FactWeight[x.kind]
            a2 == IF x.status = "active" THEN 6000
                  ELSE IF x.status = "superseded" THEN 1200 ELSE 0
            a3 == x.confidence
            a4 == IF x.linked THEN 1000 ELSE 0
            a5 == IF x.event > 1000000 THEN 1000 ELSE x.event \div 1000
<1>1. a1 \in Int
  <2>1. x.kind \in FactKinds
    BY DEF FactOk
  <2>. QED
    BY <2>1 DEF FactKinds, FactWeight
<1>2. a2 \in Int /\ a4 \in Int
  OBVIOUS
<1>3. a3 \in Int /\ a5 \in Int
  <2>. DEFINE e == x.event
  <2>1. e \in Int /\ a3 \in Int
    BY DEF FactOk
  <2>. HIDE DEF e, a3
  <2>2. (IF e > 1000000 THEN 1000 ELSE e \div 1000) \in Int
    BY <2>1
  <2>. QED
    BY <2>1, <2>2 DEF e
<1>4. FactRank(x) = a1 + a2 + a3 + a4 + a5
  BY DEF FactRank
<1>. HIDE DEF a1, a2, a3, a4, a5
<1>. QED
  BY <1>1, <1>2, <1>3, <1>4

(* A fact more, or the table as it was when it is full                      *)
(* (spg_memory_add_fact).                                                   *)
LEMMA FactAdded ==
    ASSUME NEW facts, FactsOk(facts), NEW e \in Int, NEW c \in Int
    PROVE  FactsOk(AddFact(facts, e, c).f)
<1>1. CASE Len(facts) >= MaxFacts
  BY <1>1 DEF AddFact
<1>2. CASE ~(Len(facts) >= MaxFacts)
  <2>. DEFINE x == [kind |-> "artifact", status |-> "active", event |-> e,
                    linked |-> TRUE, confidence |-> c]
              t == Append(facts, x)
              n == Len(facts)
  <2>1. AddFact(facts, e, c).f = t
    BY <1>2 DEF AddFact
  <2>2. FactOk(x)
    BY DEF FactOk, FactKinds
  <2>3. PICK S : facts \in Seq(S)
    BY DEF FactsOk
  <2>. HIDE DEF x
  <2>4. /\ n \in Nat /\ DOMAIN facts = 1 .. n /\ t \in Seq(S \cup {x})
        /\ DOMAIN t = 1 .. n + 1 /\ t[n + 1] = x /\ \A i \in 1 .. n : t[i] = facts[i]
    BY <2>3
  <2>. HIDE DEF t, n
  <2>5. \A i \in 1 .. n + 1 : i \in 1 .. n \/ i = n + 1
    BY <2>4
  <2>6. \A i \in DOMAIN t : FactOk(t[i])
    BY <2>2, <2>4, <2>5 DEF FactsOk
  <2>7. FactsOk(t)
    BY <2>4, <2>6 DEF FactsOk
  <2>. QED
    BY <2>1, <2>7
<1>. QED
  BY <1>1, <1>2

(* The facts after a step, whatever came of it. *)
LEMMA TablesFacts ==
    ASSUME NEW o, FactsOk(run.facts), run.journal \in Nat
    PROVE  FactsOk(TablesAfter(o).facts)
<1>. DEFINE f == AddFact(run.facts, run.journal + 2, 5000)
            g == AddFact(f.f, run.journal + 6, 10000)
<1>1. FactsOk(f.f)
  BY FactAdded
<1>2. TablesAfter(o).facts \in {f.f, g.f}
  BY DEF TablesAfter
<1>. HIDE DEF f
<1>3. FactsOk(g.f)
  BY <1>1, FactAdded
<1>. HIDE DEF g
<1>. QED
  BY <1>1, <1>2, <1>3

(* A list is the best of its table, best first. *)
LEMMA ListedBest ==
    ASSUME NEW T, NEW cands \in Seq(T), Numbered(cands), conf \in Scenarios
    PROVE  /\ BestRefs(Ranked(cands, conf.limit), cands)
           /\ BestFirst(Ranked(cands, conf.limit).refs)
           /\ DOMAIN Ranked(cands, conf.limit) = {"refs", "truncated"}
<1>. DEFINE v == Ranked(cands, conf.limit)
            D == ToSet(cands)
            cap == Lesser(conf.limit, RefCap)
<1>1. conf.limit \in Nat
  BY ObserveAssumption
<1>2. /\ Shows(RefOrder(D), v, D, cap) /\ Cardinality(D) = Len(cands)
      /\ IsFiniteSet(D) /\ Refs(D) /\ cap \in Nat
  BY <1>1, RankedShows
<1>. HIDE DEF v, D, cap
<1>3. ToSet(v.refs) = {r \in D : Cardinality(Ahead(RefOrder(D), D, r)) < cap}
  <2>1. Top(RefOrder(D), ToSet(v.refs), D, cap)
    BY <1>2 DEF Shows
  <2>2. StrictOrder(RefOrder(D), D)
    BY <1>2, RefsOrder
  <2>. QED
    BY <1>2, <2>1, <2>2, TopIsBest
<1>4. \A r \in D : {c \in D : Before(c, r)} = Ahead(RefOrder(D), D, r)
  BY DEF Ahead, RefOrder
<1>5. ToSet(v.refs) = {r \in D : Cardinality({c \in D : Before(c, r)}) < cap}
  BY <1>3, <1>4
<1>6. v.truncated <=> Len(cands) > cap
  BY <1>2 DEF Shows
<1>7. BestRefs(v, cands)
  BY <1>5, <1>6 DEF BestRefs, D, cap
<1>8. BestFirst(v.refs) /\ DOMAIN v = {"refs", "truncated"}
  BY <1>2 DEF Shows
<1>. QED
  BY <1>7, <1>8 DEF v

(* The list for the graph: the best-ranked nodes, in their order. *)
LEMMA GraphListed ==
    ASSUME NEW nodes, NodesOk(nodes), conf \in Scenarios
    PROVE  /\ BestRefs(Ranked(Candidates(nodes, GraphRank), conf.limit),
                       Candidates(nodes, GraphRank))
           /\ BestFirst(Ranked(Candidates(nodes, GraphRank), conf.limit).refs)
<1>. DEFINE cands == Candidates(nodes, GraphRank)
            n == Len(nodes)
            f(i) == [index |-> i, rank |-> GraphRank(nodes[i])]
            T == {f(i) : i \in 1 .. n}
<1>1. n \in Nat /\ DOMAIN nodes = 1 .. n
  BY DEF NodesOk
<1>2. cands = [i \in 1 .. n |-> f(i)]
  BY <1>1 DEF Candidates
<1>3. \A i \in 1 .. n : f(i).index = i /\ f(i).rank \in Int
  BY <1>1, GraphRankIs DEF NodesOk
<1>. HIDE DEF cands, f, n
<1>4. cands \in Seq(T) /\ Numbered(cands)
  BY <1>1, <1>2, <1>3 DEF Numbered
<1>. HIDE DEF T
<1>5. BestRefs(Ranked(cands, conf.limit), cands) /\ BestFirst(Ranked(cands, conf.limit).refs)
  BY <1>4, ListedBest
<1>. QED
  BY <1>5 DEF cands

(* The list for the facts: the best-ranked facts, in their order. *)
LEMMA FactsListed ==
    ASSUME NEW facts, FactsOk(facts), conf \in Scenarios
    PROVE  /\ BestRefs(Ranked(Candidates(facts, FactRank), conf.limit),
                       Candidates(facts, FactRank))
           /\ BestFirst(Ranked(Candidates(facts, FactRank), conf.limit).refs)
<1>. DEFINE cands == Candidates(facts, FactRank)
            n == Len(facts)
            f(i) == [index |-> i, rank |-> FactRank(facts[i])]
            T == {f(i) : i \in 1 .. n}
<1>1. n \in Nat /\ DOMAIN facts = 1 .. n
  BY DEF FactsOk
<1>2. cands = [i \in 1 .. n |-> f(i)]
  BY <1>1 DEF Candidates
<1>3. \A i \in 1 .. n : f(i).index = i /\ f(i).rank \in Int
  BY <1>1, FactRankIs DEF FactsOk
<1>. HIDE DEF cands, f, n
<1>4. cands \in Seq(T) /\ Numbered(cands)
  BY <1>1, <1>2, <1>3 DEF Numbered
<1>. HIDE DEF T
<1>5. BestRefs(Ranked(cands, conf.limit), cands) /\ BestFirst(Ranked(cands, conf.limit).refs)
  BY <1>4, ListedBest
<1>. QED
  BY <1>5 DEF cands

(* The list for the journal: the latest events, reversed, so that they are  *)
(* in the order they happened.                                              *)
LEMMA EventsListed ==
    ASSUME NEW k \in Nat, conf \in Scenarios,
           NEW cands, cands = [i \in 1 .. k |-> [index |-> i, rank |-> i]],
           NEW w, w = [Ranked(cands, conf.limit) EXCEPT !.refs = Reverse(@)]
    PROVE  BestRefs(w, cands) /\ InTime(w.refs)
<1>. DEFINE v == Ranked(cands, conf.limit)
            D == ToSet(cands)
            s == v.refs
            t == w.refs
            n == Len(s)
<1>1. cands \in Seq(D) /\ Numbered(cands)
  <2>1. Len(cands) = k /\ DOMAIN cands = 1 .. k /\ \A i \in 1 .. k : cands[i] \in D
    BY DEF ToSet
  <2>. HIDE DEF D
  <2>2. cands \in Seq(D)
    BY <2>1
  <2>3. Numbered(cands)
    BY DEF Numbered
  <2>. QED
    BY <2>2, <2>3
<1>2. \A r \in D : r.rank = r.index /\ r.rank \in Int
  BY DEF ToSet
<1>3. /\ BestRefs(v, cands) /\ DOMAIN v = {"refs", "truncated"}
      /\ Shows(RefOrder(D), v, D, Lesser(conf.limit, RefCap))
  BY <1>1, ListedBest, RankedShows, ObserveAssumption
<1>4. w = [v EXCEPT !.refs = Reverse(@)]
  OBVIOUS
<1>. HIDE DEF v, D
<1>5. t = Reverse(s) /\ w.truncated = v.truncated
  BY <1>3, <1>4
<1>6. s \in Seq(D) /\ BestFirst(s)
  BY <1>3 DEF Shows
<1>7. n \in Nat /\ DOMAIN s = 1 .. n /\ \A i \in 1 .. n : s[i] \in D
  BY <1>6
<1>8. t = [i \in 1 .. n |-> s[n - i + 1]]
  BY <1>5 DEF Reverse
<1>. HIDE DEF s, t, n
<1>9. ASSUME NEW i \in 1 .. n, NEW j \in 1 .. n, i < j
      PROVE  t[i].rank < t[j].rank
  <2>. DEFINE p == n - j + 1
              q == n - i + 1
  <2>1. p \in 1 .. n /\ q \in 1 .. n /\ p < q
    BY <1>7, <1>9
  <2>2. t[i] = s[q] /\ t[j] = s[p]
    BY <1>8
  <2>. HIDE DEF p, q
  <2>3. Before(s[p], s[q]) /\ s[p] \in D /\ s[q] \in D
    BY <1>6, <1>7, <2>1 DEF BestFirst
  <2>. QED
    BY <1>2, <2>2, <2>3 DEF Before
<1>10. InTime(t)
  BY <1>8, <1>9 DEF InTime
<1>11. ToSet(t) = ToSet(s)
  <2>1. DOMAIN t = 1 .. n
    BY <1>8
  <2>2. \A i \in 1 .. n : n - i + 1 \in 1 .. n /\ t[i] = s[n - i + 1] /\ s[i] = t[n - i + 1]
    BY <1>7, <1>8
  <2>. QED
    BY <1>7, <2>1, <2>2 DEF ToSet
<1>12. BestRefs(w, cands)
  BY <1>3, <1>5, <1>11 DEF BestRefs, s, t
<1>. QED
  BY <1>10, <1>12 DEF t

(* The tables as the next step finds them, and the last context, with what  *)
(* it was made from.                                                        *)
ContextInv ==
    /\ conf \in Scenarios /\ "seen" \in DOMAIN aux
    /\ {"graph", "facts", "journal"} \subseteq DOMAIN run
    /\ run.journal \in Nat /\ GraphOk(run.graph) /\ FactsOk(run.facts)
    /\ ContextHonest

(* The tables begin empty, and no context is shown.                         *)
LEMMA ContextInit ==
    ASSUME ObserveInit
    PROVE  ContextInv
<1>1. <<>> \in Seq({}) /\ DOMAIN <<>> = {}
  OBVIOUS
<1>2. GraphOk(EmptyGraph)
  BY <1>1 DEF GraphOk, NodesOk, EmptyGraph
<1>3. FactsOk(<<>>)
  BY <1>1 DEF FactsOk
<1>. QED
  BY <1>2, <1>3 DEF ObserveInit, ContextInv, ContextHonest, NoContext

(* A step that leaves the tables and the context alone leaves them honest.  *)
LEMMA ContextRests ==
    ASSUME ContextInv, conf' = conf, ctx' = ctx, run' = run,
           DOMAIN aux' = DOMAIN aux, aux'.seen = aux.seen
    PROVE  ContextInv'
<1>1. ContextHonest'
  BY DEF ContextInv, ContextHonest, BestRefs, Logged
<1>. QED
  BY <1>1 DEF ContextInv

(* A step is shown the tables as they are before it changes them. *)
LEMMA TickKeeps ==
    ASSUME ContextInv, Tick
    PROVE  ContextInv'
<1>1. PICK c, t, o :
         /\ StepFails(c, t) \/ StepDone(o, c, t)
         /\ t = TablesAfter(o)
         /\ ctx' = [status |-> c.status, view |-> View]
         /\ conf' = conf
  <2>. DEFINE c == NextContext(View)
  <2>1. /\ \E o \in conf.outcomes : LET t == TablesAfter(o) IN StepFails(c, t) \/ StepDone(o, c, t)
        /\ ctx' = [status |-> c.status, view |-> View] /\ conf' = conf
    BY Zenon DEF Tick
  <2>. HIDE DEF c
  <2>. QED
    BY <2>1, Zenon
<1>2. GraphOk(t.graph) /\ FactsOk(t.facts)
  BY <1>1, TablesGraph, TablesFacts DEF ContextInv
<1>3. /\ conf' \in Scenarios /\ "seen" \in DOMAIN aux' /\ aux'.seen = Shown
      /\ {"graph", "facts", "journal"} \subseteq DOMAIN run'
      /\ run'.journal \in Nat /\ GraphOk(run'.graph) /\ FactsOk(run'.facts)
  <2>1. CASE StepFails(c, t)
    <3>1. aux' = [aux EXCEPT !.seen = Shown]
          /\ \/ run' = [run EXCEPT !.step = @ + 1]
             \/ run' = [run EXCEPT !.step = @ + 1, !.graph = t.graph, !.facts = t.facts]
      BY <2>1 DEF StepFails
    <3>. QED
      BY <1>1, <1>2, <3>1 DEF ContextInv
  <2>2. CASE StepDone(o, c, t)
    <3>1. /\ \E x : aux' = [aux EXCEPT !.shown = x, !.seen = Shown]
          /\ DOMAIN run' = {"step", "repairs", "acts", "graph", "facts", "journal", "obs"}
          /\ run'.graph = t.graph /\ run'.facts = t.facts
          /\ run'.journal = run.journal + Records(o)
      BY <2>2 DEF StepDone
    <3>2. Records(o) \in Nat
      BY DEF Records
    <3>. QED
      BY <1>1, <1>2, <3>1, <3>2 DEF ContextInv
  <2>. QED
    BY <1>1, <2>1, <2>2
<1>4. ContextHonest'
  <2>. DEFINE v == View
              nodes == Candidates(run.graph.nodes, GraphRank)
              facts == Candidates(run.facts, FactRank)
              events == Logged(run.journal)
              k == Lesser(run.journal, conf.headerCap)
              heads == [i \in DOMAIN Headers |-> [index |-> i, rank |-> Headers[i]]]
  <2>1. /\ v.graph = Ranked(nodes, conf.limit) /\ v.memory = Ranked(facts, conf.limit)
        /\ v.journal = [Ranked(heads, conf.limit) EXCEPT !.refs = Reverse(@)]
    <3>1. v = BuildView(run.graph, run.facts, Headers, conf.limit, conf.steps, run.step)
      BY DEF View
    <3>. HIDE DEF v
    <3>. QED
      BY <3>1 DEF BuildView
  <2>2. heads = events /\ events = [i \in 1 .. k |-> [index |-> i, rank |-> i]]
    BY DEF Headers, Logged
  <2>3. conf \in Scenarios /\ NodesOk(run.graph.nodes) /\ FactsOk(run.facts) /\ k \in Nat
    BY ObserveAssumption DEF ContextInv, GraphOk, Lesser
  <2>. HIDE DEF v, k, heads, events
  <2>4. BestRefs(v.graph, nodes) /\ BestFirst(v.graph.refs)
    BY <2>1, <2>3, GraphListed
  <2>5. BestRefs(v.memory, facts) /\ BestFirst(v.memory.refs)
    BY <2>1, <2>3, FactsListed
  <2>6. BestRefs(v.journal, events) /\ InTime(v.journal.refs)
    BY <2>1, <2>2, <2>3, EventsListed
  <2>7. /\ aux'.seen.graph = run.graph /\ aux'.seen.facts = run.facts
        /\ aux'.seen.journal = run.journal /\ ctx'.view = v /\ conf' = conf
    BY <1>1, <1>3 DEF Shown, v
  <2>. QED
    BY <2>4, <2>5, <2>6, <2>7 DEF ContextHonest, BestRefs, events, Logged
<1>. QED
  BY <1>3, <1>4 DEF ContextInv

(* Every step of the observation keeps the tables and the context.          *)
LEMMA ContextNext ==
    ASSUME ContextInv, [ObserveNext]_observeVars
    PROVE  ContextInv'
<1>1. CASE UNCHANGED observeVars
  BY <1>1, ContextRests DEF observeVars
<1>2. CASE HostMoves
  <2>1. \E h : HostSteps(h)
    BY <1>2 DEF HostMoves, Work, Exit, Stop, Spawn, Idle, CountersReset
  <2>2. /\ conf' = conf /\ ctx' = ctx /\ run' = run
        /\ DOMAIN aux' = DOMAIN aux /\ aux'.seen = aux.seen
    BY <2>1 DEF HostSteps, ContextInv
  <2>. QED
    BY <2>2, ContextRests
<1>3. CASE CloseSample
  <2>1. /\ conf' = conf /\ ctx' = ctx /\ run' = run
        /\ \E v, w, x, y, z : aux' = [aux EXCEPT !.first = v, !.prior = w, !.basis = x,
                                                  !.counted = y, !.span = z]
    BY <1>3, Zenon DEF CloseSample
  <2>2. DOMAIN aux' = DOMAIN aux /\ aux'.seen = aux.seen
    BY <2>1 DEF ContextInv
  <2>. QED
    BY <2>1, <2>2, ContextRests
<1>4. CASE StartRun \/ OpenSample \/ LastStep \/ Judge
  BY <1>4, ContextRests DEF StartRun, OpenSample, LastStep, Judge
<1>5. CASE \E p \in Pids : ReadEntry(p)
  BY <1>5, ContextRests DEF ReadEntry
<1>6. CASE Tick
  BY <1>6, TickKeeps
<1>. QED
  BY <1>1, <1>2, <1>3, <1>4, <1>5, <1>6 DEF ObserveNext

-----------------------------------------------------------------------------
(* For every host that moves under the sampler, every order of /proc and    *)
(* every capacity of the snapshot: what a snapshot shows is the strongest   *)
(* of what was read, strongest first, and it says when it is cut            *)
(* (spg_process_offer, spg_process_select).                                 *)
THEOREM SnapshotBest == ObserveSpec => []SnapshotIsBest
<1>1. ObserveInit => SampleInv
  BY SampleInit
<1>2. SampleInv /\ [ObserveNext]_observeVars => SampleInv'
  BY SampleNext
<1>3. SampleInv => SnapshotIsBest
  BY DEF SampleInv
<1>. QED
  BY <1>1, <1>2, <1>3, PTL DEF ObserveSpec

(* A share of the CPU is shown of the very same process as in the snapshot  *)
(* before, and is a part of the whole, whatever exits, starts and takes over   *)
(* pids meanwhile (spg_process_find, spg_process_utilisation_bp).           *)
THEOREM SharesOwned == ObserveSpec => []SharesOwnProcess
<1>1. ObserveInit => SampleInv
  BY SampleInit
<1>2. SampleInv /\ [ObserveNext]_observeVars => SampleInv'
  BY SampleNext
<1>3. SampleInv => SharesOwnProcess
  BY DEF SampleInv
<1>. QED
  BY <1>1, <1>2, <1>3, PTL DEF ObserveSpec

(* For every goal, profile and reading: a verdict rests on what the files   *)
(* of the last sample answered.  A goal is satisfied only if a limited      *)
(* temperature had a file with a number within the limit, or with no number *)
(* (counted as 0), and if healthy services, when asked for, had one of the  *)
(* critical processes of the profile seen, stopped or not; healthy is said  *)
(* only if the sensor and memory files were there and the CPU counters read *)
(* (against those since boot, when the sample before could not); and a      *)
(* process is blamed only if it is shown as batch work with the share       *)
(* (spg_machine_goal_evaluate, spg_rule_diagnose).                          *)
THEOREM VerdictKept == ObserveSpec => []VerdictHonest
<1>1. ObserveInit => SampleInv /\ VerdictInv
  BY SampleInit, VerdictInit
<1>2. SampleInv /\ VerdictInv /\ [ObserveNext]_observeVars => SampleInv' /\ VerdictInv'
  BY SampleNext, VerdictNext
<1>3. VerdictInv => VerdictHonest
  BY DEF VerdictInv
<1>. QED
  BY <1>1, <1>2, <1>3, PTL DEF ObserveSpec

(* For every history of steps, every limit and every capacity: a context    *)
(* refers to the best-ranked nodes and facts, best first, and to the latest *)
(* logged events, in their order, and a list that is cut says so            *)
(* (spg_context_build).                                                     *)
THEOREM ContextKept == ObserveSpec => []ContextHonest
<1>1. ObserveInit => ContextInv
  BY ContextInit
<1>2. ContextInv /\ [ObserveNext]_observeVars => ContextInv'
  BY ContextNext
<1>3. ContextInv => ContextHonest
  BY DEF ContextInv
<1>. QED
  BY <1>1, <1>2, <1>3, PTL DEF ObserveSpec

-----------------------------------------------------------------------------
(***************************************************************************)
(* The prompt in the KV cache (ModelAdapter).                               *)
(***************************************************************************)
(* The tokens the adapter adds itself are tokens. *)
LEMMA FixedTokens ==
    /\ \A t \in {"bos", "anchor", "g", "l"} : t \in Tokens /\ <<t>> \in Seq(Tokens)
    /\ <<"bos">> \o <<"anchor">> \in Seq(Tokens)
<1>1. \A t \in {"bos", "anchor", "g", "l"} : t \in Tokens
  BY Zenon DEF Tokens
<1>2. \A t \in Tokens : <<t>> \in Seq(Tokens)
  OBVIOUS
<1>3. \A x, y \in Seq(Tokens) : x \o y \in Seq(Tokens)
  OBVIOUS
<1>. QED
  BY <1>1, <1>2, <1>3

(* A session whose pins lie within what they pin.                           *)
Fields == [hist : Seq(Tokens), dpin : Nat, shadow : Seq(Tokens), gpin : Nat, faults : Int]

(* Sessions: no pin is beyond the history.                                  *)
Session == {s \in Fields : s.dpin <= Len(s.hist) /\ s.gpin <= Len(s.shadow)}

(* s holds the pinned prefix p in its first n places.                       *)
Holds(s, n, p) == n = Len(p) /\ n <= Len(s) /\ Upto(s, n) = p

(* The side the adapter relies on, the engine's own history or the shadow   *)
(* of the daemon's, begins with the pinned prefix.                          *)
Kept(kind, p, s) ==
    /\ kind = "local"  => Holds(s.hist, s.dpin, p)
    /\ kind = "geistd" => Holds(s.shadow, s.gpin, p)

(* The first n of a history. *)
LEMMA UptoFacts ==
    ASSUME NEW s \in Seq(Tokens), NEW n \in Nat, n <= Len(s)
    PROVE  /\ Upto(s, n) \in Seq(Tokens) /\ Len(Upto(s, n)) = n
           /\ \A i \in 1 .. n : Upto(s, n)[i] = s[i]
BY SubSeqProperties DEF Upto

(* What one assignment to a field of the session changes. *)
LEMMA FieldFacts ==
    ASSUME NEW s \in Fields
    PROVE  /\ \A f \in Int : /\ [s EXCEPT !.faults = f] \in Fields
                             /\ [s EXCEPT !.faults = f].hist = s.hist
                             /\ [s EXCEPT !.faults = f].dpin = s.dpin
                             /\ [s EXCEPT !.faults = f].shadow = s.shadow
                             /\ [s EXCEPT !.faults = f].gpin = s.gpin
           /\ \A h \in Seq(Tokens) : /\ [s EXCEPT !.hist = h] \in Fields
                                  /\ [s EXCEPT !.hist = h].hist = h
                                  /\ [s EXCEPT !.hist = h].dpin = s.dpin
                                  /\ [s EXCEPT !.hist = h].shadow = s.shadow
                                  /\ [s EXCEPT !.hist = h].gpin = s.gpin
           /\ \A d \in Seq(Tokens) : /\ [s EXCEPT !.shadow = d] \in Fields
                                  /\ [s EXCEPT !.shadow = d].hist = s.hist
                                  /\ [s EXCEPT !.shadow = d].dpin = s.dpin
                                  /\ [s EXCEPT !.shadow = d].shadow = d
                                  /\ [s EXCEPT !.shadow = d].gpin = s.gpin
           /\ \A n \in Nat : /\ [s EXCEPT !.dpin = n] \in Fields
                             /\ [s EXCEPT !.dpin = n].hist = s.hist
                             /\ [s EXCEPT !.dpin = n].dpin = n
                             /\ [s EXCEPT !.dpin = n].shadow = s.shadow
                             /\ [s EXCEPT !.dpin = n].gpin = s.gpin
           /\ \A n \in Nat : /\ [s EXCEPT !.gpin = n] \in Fields
                             /\ [s EXCEPT !.gpin = n].hist = s.hist
                             /\ [s EXCEPT !.gpin = n].dpin = s.dpin
                             /\ [s EXCEPT !.gpin = n].shadow = s.shadow
                             /\ [s EXCEPT !.gpin = n].gpin = n
BY DEF Fields

(* What a session is. *)
LEMMA SessionFields ==
    ASSUME NEW s \in Session
    PROVE  /\ s.hist \in Seq(Tokens) /\ s.shadow \in Seq(Tokens) /\ s.faults \in Int
           /\ s.dpin \in Nat /\ s.gpin \in Nat
           /\ s.dpin <= Len(s.hist) /\ s.gpin <= Len(s.shadow) /\ s \in Fields
BY DEF Session, Fields

(* A failed operation changes neither shadow nor our pin, and nothing at    *)
(* all but the faults unless a daemon may have carried it out.              *)
LEMMA TryOutcomes ==
    ASSUME NEW kind, NEW s \in Session, NEW t \in Session, NEW o \in Try(kind, s, t)
    PROVE  /\ o.s \in Session
           /\ o.ok => o.s = t
           /\ o.s.hist \in {s.hist, t.hist}
           /\ ~o.ok => o.s.shadow = s.shadow /\ o.s.gpin = s.gpin
           /\ ~o.ok /\ kind # "geistd" => o.s.hist = s.hist /\ o.s.dpin = s.dpin
<1>. DEFINE one == [s EXCEPT !.faults = @ - 1]
            two == [one EXCEPT !.hist = t.hist, !.dpin = t.dpin]
<1>1. \/ o = [s |-> t, ok |-> TRUE]
      \/ o = [s |-> one, ok |-> FALSE]
      \/ kind = "geistd" /\ o = [s |-> two, ok |-> FALSE]
  <2>. HIDE DEF one, two
  <2>1. o \in {Ok(t)} \cup
             (IF s.faults = 0 THEN {}
              ELSE {Failed(one)} \cup (IF kind # "geistd" THEN {} ELSE {Failed(two)}))
    BY Zenon DEF Try, one, two
  <2>. QED
    BY <2>1, Zenon DEF Ok, Failed
<1>2. /\ one \in Session /\ one.shadow = s.shadow /\ one.gpin = s.gpin
      /\ one.hist = s.hist /\ one.dpin = s.dpin
  <2>1. one = [s EXCEPT !.faults = s.faults - 1] /\ s.faults - 1 \in Int
    BY SessionFields DEF Fields
  <2>. HIDE DEF one
  <2>2. /\ one \in Fields /\ one.shadow = s.shadow /\ one.gpin = s.gpin
        /\ one.hist = s.hist /\ one.dpin = s.dpin
    BY <2>1, SessionFields, FieldFacts
  <2>. QED
    BY <2>2, SessionFields DEF Session
<1>. HIDE DEF one
<1>3. /\ two \in Session /\ two.hist = t.hist /\ two.shadow = s.shadow /\ two.gpin = s.gpin
  <2>. DEFINE w == [one EXCEPT !.hist = t.hist]
  <2>1. one \in Fields /\ t.hist \in Seq(Tokens) /\ t.dpin \in Nat /\ t.dpin <= Len(t.hist)
    BY <1>2, SessionFields
  <2>2. w \in Fields /\ w.hist = t.hist /\ w.shadow = one.shadow /\ w.gpin = one.gpin
    BY <2>1, FieldFacts
  <2>3. two = [w EXCEPT !.dpin = t.dpin]
    OBVIOUS
  <2>. HIDE DEF w, two
  <2>4. /\ two \in Fields /\ two.hist = t.hist /\ two.dpin = t.dpin
        /\ two.shadow = one.shadow /\ two.gpin = one.gpin
    BY <2>1, <2>2, <2>3, FieldFacts
  <2>5. s.gpin <= Len(s.shadow)
    BY SessionFields
  <2>. QED
    BY <1>2, <2>1, <2>4, <2>5 DEF Session
<1>. HIDE DEF two
<1>. QED
  BY <1>1, <1>2, <1>3

(* A call that failed without effect on the side relied on keeps it. *)
LEMMA KeptAfterFailure ==
    ASSUME NEW kind, NEW p, NEW s, NEW t, Kept(kind, p, s),
           t.shadow = s.shadow, t.gpin = s.gpin,
           kind # "geistd" => t.hist = s.hist /\ t.dpin = s.dpin
    PROVE  Kept(kind, p, t)
BY DEF Kept

(* eng_reset cuts the side the adapter relies on to the pinned prefix.      *)
LEMMA ResetCuts ==
    ASSUME NEW kind, NEW p, NEW s \in Session, Kept(kind, p, s),
           NEW o \in EngReset(kind, s)
    PROVE  /\ o.s \in Session /\ Kept(kind, p, o.s)
           /\ o.ok /\ kind = "local"  => o.s.hist = p
           /\ o.ok /\ kind = "geistd" => o.s.shadow = p
<1>. DEFINE h == Upto(s.hist, s.dpin)
            d == IF kind = "local" THEN s.shadow ELSE Upto(s.shadow, s.gpin)
            t == [s EXCEPT !.hist = h, !.shadow = d]
<1>1. h \in Seq(Tokens) /\ Len(h) = s.dpin
  BY SessionFields, UptoFacts
<1>2. d \in Seq(Tokens) /\ s.gpin <= Len(d)
  BY SessionFields, UptoFacts
<1>3. o \in Try(kind, s, t)
  BY Zenon DEF EngReset
<1>4. kind = "local" => h = p
  BY DEF Kept, Holds
<1>5. kind = "geistd" => d = p
  BY DEF Kept, Holds
<1>6. Upto(h, s.dpin) = h /\ (kind # "local" => Upto(d, s.gpin) = d)
  <2>1. \A x \in Seq(Tokens) : Upto(x, Len(x)) = x
    BY UptoFacts
  <2>2. kind # "local" => Len(d) = s.gpin
    BY SessionFields, UptoFacts
  <2>. QED
    BY <1>1, <1>2, <2>1, <2>2
<1>. HIDE DEF h, d
<1>7. /\ t \in Session /\ t.hist = h /\ t.shadow = d /\ t.dpin = s.dpin /\ t.gpin = s.gpin
  <2>. DEFINE w == [s EXCEPT !.hist = h]
  <2>1. w \in Fields /\ w.hist = h /\ w.dpin = s.dpin /\ w.gpin = s.gpin
    BY <1>1, SessionFields, FieldFacts
  <2>2. t = [w EXCEPT !.shadow = d]
    OBVIOUS
  <2>. HIDE DEF w
  <2>3. /\ t \in Fields /\ t.hist = h /\ t.shadow = d /\ t.dpin = s.dpin /\ t.gpin = s.gpin
    BY <1>2, <2>1, <2>2, FieldFacts
  <2>. HIDE DEF t
  <2>. QED
    BY <1>1, <1>2, <2>3, SessionFields DEF Session
<1>. HIDE DEF t
<1>8. Kept(kind, p, t)
  BY <1>1, <1>2, <1>4, <1>5, <1>6, <1>7 DEF Kept, Holds
<1>. QED
  BY <1>3, <1>4, <1>5, <1>7, <1>8, TryOutcomes, KeptAfterFailure

(* What is appended does not touch the pinned prefix.                       *)
LEMMA HoldsAppended ==
    ASSUME NEW s \in Seq(Tokens), NEW n \in Nat, NEW p, Holds(s, n, p), NEW x \in Seq(Tokens)
    PROVE  Holds(s \o x, n, p)
<1>1. s \o x \in Seq(Tokens) /\ Len(s \o x) = Len(s) + Len(x)
      /\ \A i \in 1 .. Len(s) : (s \o x)[i] = s[i]
  OBVIOUS
<1>2. n <= Len(s)
  BY DEF Holds
<1>. DEFINE g == s \o x
<1>. HIDE DEF g
<1>3. g \in Seq(Tokens) /\ n <= Len(g) /\ \A i \in 1 .. n : g[i] = s[i]
  BY <1>1, <1>2 DEF g
<1>4. Upto(g, n) = Upto(s, n)
  <2>. DEFINE a == Upto(g, n)
              b == Upto(s, n)
  <2>1. /\ a \in Seq(Tokens) /\ Len(a) = n /\ \A i \in 1 .. n : a[i] = g[i]
        /\ b \in Seq(Tokens) /\ Len(b) = n /\ \A i \in 1 .. n : b[i] = s[i]
    BY <1>2, <1>3, UptoFacts
  <2>. HIDE DEF a, b
  <2>2. a = b
    BY <1>3, <2>1
  <2>. QED
    BY <2>2 DEF a, b
<1>. QED
  BY <1>3, <1>4 DEF Holds, g

(* eng_prefill_tokens appends to the side the adapter relies on; a daemon   *)
(* that accepted it has exactly shadow and tail.                            *)
LEMMA PrefillAppends ==
    ASSUME NEW kind, NEW p, NEW s \in Session, Kept(kind, p, s), NEW ids \in Seq(Tokens),
           NEW o \in EngPrefillTokens(kind, s, ids)
    PROVE  /\ o.s \in Session /\ Kept(kind, p, o.s)
           /\ o.ok /\ kind = "local"  => o.s.hist = s.hist \o ids
           /\ o.ok /\ kind = "geistd" => o.s.hist = s.shadow \o ids /\ o.s.shadow = s.shadow \o ids
           /\ o.ok => o.s.dpin = s.dpin /\ o.s.gpin = s.gpin
<1>. DEFINE h == s.hist \o ids
            d == s.shadow \o ids
            u == [s EXCEPT !.hist = @ \o ids]
            v == [s EXCEPT !.hist = d, !.shadow = d]
<1>1. /\ h \in Seq(Tokens) /\ Len(h) = Len(s.hist) + Len(ids)
      /\ d \in Seq(Tokens) /\ Len(d) = Len(s.shadow) + Len(ids)
      /\ Len(ids) \in Nat
  BY SessionFields
<1>2. CASE kind = "local"
  <2>1. o \in Try(kind, s, u)
    BY <1>2, Zenon DEF EngPrefillTokens
  <2>2. u = [s EXCEPT !.hist = h]
    BY DEF Session
  <2>3. Holds(h, s.dpin, p)
    BY <1>2, SessionFields, HoldsAppended DEF Kept
  <2>. HIDE DEF h, u
  <2>4. /\ u \in Session /\ u.hist = h /\ u.dpin = s.dpin /\ u.gpin = s.gpin
    <3>1. /\ u \in Fields /\ u.hist = h /\ u.dpin = s.dpin /\ u.gpin = s.gpin
          /\ u.shadow = s.shadow
      BY <1>1, <2>2, SessionFields, FieldFacts
    <3>2. s.dpin <= Len(h) /\ s.gpin <= Len(s.shadow)
      BY <1>1, SessionFields
    <3>. QED
      BY <3>1, <3>2 DEF Session
  <2>5. Kept(kind, p, u)
    BY <1>2, <2>3, <2>4 DEF Kept
  <2>6. /\ o.s \in Session
        /\ o.ok => o.s = u
        /\ ~o.ok => /\ o.s.shadow = s.shadow /\ o.s.gpin = s.gpin
                    /\ kind # "geistd" => o.s.hist = s.hist /\ o.s.dpin = s.dpin
    BY <2>1, <2>4, TryOutcomes
  <2>7. ~o.ok => Kept(kind, p, o.s)
    BY <2>6, KeptAfterFailure
  <2>8. kind # "geistd" /\ u.hist = s.hist \o ids
    BY <1>2, <2>4 DEF h
  <2>. HIDE DEF u, h
  <2>. QED
    BY <2>4, <2>5, <2>6, <2>7, <2>8, Zenon
<1>3. CASE kind # "local"
  <2>1. \/ o = Failed(s)
        \/ /\ IsPrefix(Upto(s.hist, s.dpin), d)
           /\ o \in Try(kind, s, v)
    BY <1>3, Zenon DEF EngPrefillTokens
  <2>2. CASE o = Failed(s)
    BY <2>2 DEF Failed
  <2>3. CASE /\ IsPrefix(Upto(s.hist, s.dpin), d)
             /\ o \in Try(kind, s, v)
    <3>1. s.dpin <= Len(d)
      BY <1>1, <2>3, SessionFields, UptoFacts DEF IsPrefix
    <3>2. kind = "geistd" => Holds(d, s.gpin, p)
      BY SessionFields, HoldsAppended DEF Kept
    <3>. HIDE DEF d
    <3>3. /\ v \in Session /\ v.hist = d /\ v.shadow = d
          /\ v.dpin = s.dpin /\ v.gpin = s.gpin
      <4>. DEFINE w == [s EXCEPT !.hist = d]
      <4>1. w \in Fields /\ w.hist = d /\ w.dpin = s.dpin /\ w.gpin = s.gpin
        BY <1>1, SessionFields, FieldFacts
      <4>2. v = [w EXCEPT !.shadow = d]
        OBVIOUS
      <4>. HIDE DEF w
      <4>3. /\ v \in Fields /\ v.hist = d /\ v.shadow = d
            /\ v.dpin = s.dpin /\ v.gpin = s.gpin
        BY <1>1, <4>1, <4>2, FieldFacts
      <4>. HIDE DEF v
      <4>. QED
        BY <1>1, <3>1, <4>3, SessionFields DEF Session
    <3>. HIDE DEF v
    <3>4. Kept(kind, p, v)
      BY <1>3, <3>2, <3>3 DEF Kept
    <3>. QED
      <4>1. /\ o.s \in Session
            /\ o.ok => o.s = v
            /\ ~o.ok => o.s.shadow = s.shadow /\ o.s.gpin = s.gpin
            /\ ~o.ok /\ kind # "geistd" => o.s.hist = s.hist /\ o.s.dpin = s.dpin
        BY <2>3, <3>3, TryOutcomes
      <4>2. Kept(kind, p, o.s)
        BY <3>4, <4>1, KeptAfterFailure
      <4>. QED
        BY <1>3, <3>3, <4>1, <4>2 DEF d
  <2>. QED
    BY <2>1, <2>2, <2>3
<1>. QED
  BY <1>2, <1>3

(* eng_decode_step appends one token of the model.                          *)
LEMMA DecodeAppends ==
    ASSUME NEW kind, NEW p, NEW s \in Session, Kept(kind, p, s),
           NEW o \in EngDecodeStep(kind, s)
    PROVE  o.s \in Session /\ Kept(kind, p, o.s)
<1>. DEFINE g == <<"g">>
            h == s.hist \o g
            d == s.shadow \o g
            t == [s EXCEPT !.hist = h]
            u == [t EXCEPT !.shadow = d]
<1>1. /\ g \in Seq(Tokens) /\ s.hist \in Seq(Tokens) /\ s.shadow \in Seq(Tokens)
      /\ s.dpin \in Nat /\ s.gpin \in Nat
      /\ s.dpin <= Len(s.hist) /\ s.gpin <= Len(s.shadow) /\ s \in Fields
  BY FixedTokens, SessionFields
<1>2. \A x \in Seq(Tokens) : Append(x, "g") = x \o g
  OBVIOUS
<1>3. o \in Try(kind, s, t) \/ (kind # "local" /\ o \in Try(kind, s, u))
  <2>. DEFINE T == [s EXCEPT !.hist = Append(@, "g")]
              U == [T EXCEPT !.shadow = Append(@, "g")]
  <2>1. o \in Try(kind, s, T) \/ (kind # "local" /\ o \in Try(kind, s, U))
    BY Zenon DEF EngDecodeStep
  <2>2. T = t
    BY <1>1, <1>2
  <2>3. t.shadow = s.shadow
    BY <1>1 DEF Fields
  <2>4. U = [t EXCEPT !.shadow = Append(t.shadow, "g")]
    BY <2>2
  <2>. HIDE DEF T, U
  <2>5. U = u
    BY <1>1, <1>2, <2>3, <2>4
  <2>. QED
    BY <2>1, <2>2, <2>5
<1>4. /\ h \in Seq(Tokens) /\ Len(h) = Len(s.hist) + 1
      /\ d \in Seq(Tokens) /\ Len(d) = Len(s.shadow) + 1
      /\ Len(s.hist) \in Nat /\ Len(s.shadow) \in Nat
  BY <1>1
<1>5. /\ kind = "local"  => Holds(h, s.dpin, p)
      /\ kind = "geistd" => Holds(d, s.gpin, p) /\ Holds(s.shadow, s.gpin, p)
  BY <1>1, HoldsAppended DEF Kept
<1>. HIDE DEF h, d, g
<1>6. /\ t \in Fields /\ t.hist = h /\ t.shadow = s.shadow
      /\ t.dpin = s.dpin /\ t.gpin = s.gpin
  BY <1>1, <1>4, FieldFacts
<1>. HIDE DEF t
<1>7. /\ u \in Fields /\ u.hist = h /\ u.shadow = d
      /\ u.dpin = s.dpin /\ u.gpin = s.gpin
  BY <1>4, <1>6, FieldFacts
<1>. HIDE DEF u
<1>8. t \in Session /\ u \in Session
  <2>1. /\ s.dpin <= Len(h)
        /\ s.gpin <= Len(s.shadow)
        /\ s.gpin <= Len(d)
    BY <1>1, <1>4
  <2>2. t \in Session
    BY <1>6, <2>1 DEF Session
  <2>3. u \in Session
    BY <1>7, <2>1 DEF Session
  <2>. QED
    BY <2>2, <2>3
<1>9. Kept(kind, p, t) /\ (kind # "local" => Kept(kind, p, u))
  BY <1>5, <1>6, <1>7 DEF Kept
<1>10. ASSUME NEW v \in {t, u}, o \in Try(kind, s, v), Kept(kind, p, v)
       PROVE  o.s \in Session /\ Kept(kind, p, o.s)
  BY <1>8, <1>10, TryOutcomes, KeptAfterFailure
<1>. QED
  BY <1>3, <1>9, <1>10

(* A reset and then a prefill leave the pinned prefix and what was given.   *)
ResetFilled(kind, s, ids, o) ==
    \E x \in EngReset(kind, s) :
        IF x.ok THEN o \in EngPrefillTokens(kind, x.s, ids) ELSE o = x

(* What the history is after the two calls: pinned prefix, then ids. *)
LEMMA ResetPrefill ==
    ASSUME NEW kind, NEW p, NEW s \in Session, Kept(kind, p, s), NEW ids \in Seq(Tokens),
           NEW o, ResetFilled(kind, s, ids, o)
    PROVE  /\ o.s \in Session /\ Kept(kind, p, o.s)
           /\ o.ok /\ kind \in {"local", "geistd"} => o.s.hist = p \o ids
           /\ o.ok /\ kind = "geistd" => o.s.shadow = p \o ids
<1>1. PICK x \in EngReset(kind, s) :
         IF x.ok THEN o \in EngPrefillTokens(kind, x.s, ids) ELSE o = x
  BY DEF ResetFilled
<1>2. /\ x.s \in Session /\ Kept(kind, p, x.s)
      /\ x.ok /\ kind = "local"  => x.s.hist = p
      /\ x.ok /\ kind = "geistd" => x.s.shadow = p
  BY ResetCuts
<1>3. CASE x.ok /\ o \in EngPrefillTokens(kind, x.s, ids)
  <2>. DEFINE y == x.s
  <2>1. y \in Session /\ Kept(kind, p, y) /\ o \in EngPrefillTokens(kind, y, ids)
    BY <1>2, <1>3
  <2>2. /\ kind = "local" => y.hist = p
        /\ kind = "geistd" => y.shadow = p
    BY <1>2, <1>3
  <2>. HIDE DEF y
  <2>3. /\ o.s \in Session /\ Kept(kind, p, o.s)
        /\ o.ok /\ kind = "local"  => o.s.hist = y.hist \o ids
        /\ o.ok /\ kind = "geistd" => o.s.hist = y.shadow \o ids /\ o.s.shadow = y.shadow \o ids
    BY <2>1, PrefillAppends
  <2>. QED
    BY <2>2, <2>3
<1>. QED
  BY <1>1, <1>2, <1>3

-----------------------------------------------------------------------------
(* geist_prefill.                                                           *)

\* The adapter, as far as it matters here.
Adapter(a) ==
    {"kind", "cfg", "pinned", "pinOn", "next"} \subseteq DOMAIN a /\ a.pinned \in Seq(Tokens)

Engine == {"local", "geistd"}

\* The tokens of the prompt and nothing else but a BOS in front.
Prompted(s, full) == s.hist = full \/ s.hist = <<"bos">> \o full

(* What a request brings. *)
LEMMA RequestTokens ==
    ASSUME NEW r \in Requests
    PROVE  r.reset /\ r.full \in Seq(Tokens) /\ r.pfx \in Seq(Tokens)
BY PromptAssumption, Zenon DEF Tokens

(* A prefix and the rest are the whole: the tail geist_prefill sends. *)
LEMMA PrefixParts ==
    ASSUME NEW p \in Seq(Tokens), NEW full \in Seq(Tokens), IsPrefix(p, full)
    PROVE  /\ Len(p) <= Len(full) /\ Upto(full, Len(p)) = p
           /\ SubSeq(full, Len(p) + 1, Len(full)) \in Seq(Tokens)
           /\ p \o SubSeq(full, Len(p) + 1, Len(full)) = full
<1>. DEFINE n == Len(p)
            m == Len(full)
            t == SubSeq(full, n + 1, m)
            c == p \o t
<1>1. n \in Nat /\ m \in Nat /\ n <= m /\ Upto(p, n) = Upto(full, n)
  <2>1. n <= m /\ Upto(p, n) = Upto(full, n)
    BY Zenon DEF IsPrefix, Upto
  <2>. QED
    BY <2>1
<1>2. Upto(p, n) = p
  BY UptoFacts
<1>3. \A i \in 1 .. n : p[i] = full[i]
  <2>1. \A i \in 1 .. n : Upto(full, n)[i] = full[i]
    BY <1>1, UptoFacts
  <2>. QED
    BY <1>1, <1>2, <2>1
<1>4. /\ t \in Seq(Tokens) /\ Len(t) = m - n
      /\ \A i \in 1 .. m - n : t[i] = full[n + i]
  <2>1. /\ t \in Seq(Tokens)
        /\ Len(t) = IF n + 1 <= m THEN m - (n + 1) + 1 ELSE 0
        /\ \A i \in 1 .. m - (n + 1) + 1 : t[i] = full[(n + 1) + i - 1]
    BY <1>1, SubSeqProperties
  <2>2. m - (n + 1) + 1 = m - n /\ \A i \in 1 .. m - n : (n + 1) + i - 1 = n + i
    BY <1>1
  <2>. HIDE DEF t, n, m
  <2>. QED
    BY <1>1, <2>1, <2>2
<1>. HIDE DEF t
<1>5. /\ c \in Seq(Tokens) /\ Len(c) = n + (m - n)
      /\ \A i \in 1 .. n + (m - n) : c[i] = IF i <= n THEN p[i] ELSE t[i - n]
  BY <1>4, ConcatProperties
<1>. HIDE DEF c, n, m
<1>6. \A i \in 1 .. m : c[i] = full[i]
  <2>. SUFFICES ASSUME NEW i \in 1 .. m PROVE c[i] = full[i]
    OBVIOUS
  <2>1. n + (m - n) = m /\ i \in Nat
    BY <1>1
  <2>2. CASE i <= n
    BY <1>1, <1>3, <1>5, <2>1, <2>2
  <2>3. CASE ~(i <= n)
    <3>1. i - n \in 1 .. m - n /\ n + (i - n) = i
      BY <1>1, <2>3
    <3>. QED
      BY <1>4, <1>5, <2>1, <2>3, <3>1
  <2>. QED
    BY <2>2, <2>3
<1>7. c = full
  BY <1>1, <1>5, <1>6 DEF m
<1>. QED
  BY <1>1, <1>2, <1>4, <1>7 DEF c, n, m, t

(* geist_prefill with a pin: reset to it, then the tail of the prompt. *)
LEMMA PinnedPrefills ==
    ASSUME NEW a, Adapter(a), a.kind \in Engine,
           NEW s \in Session, Kept(a.kind, a.pinned, s), NEW r \in Requests,
           NEW x \in PinnedPrefill(a, s, r)
    PROVE  /\ x.a = a /\ x.o.s \in Session /\ Kept(a.kind, a.pinned, x.o.s)
           /\ x.o.ok => Prompted(x.o.s, r.full)
<1>. DEFINE tail == SubSeq(r.full, Len(a.pinned) + 1, Len(r.full))
            k == a.kind
            p == a.pinned
<1>1. CASE ~IsPrefix(p, r.full)
  <2>1. x = [o |-> Failed(s), a |-> a]
    BY <1>1, Zenon DEF PinnedPrefill
  <2>. QED
    BY <2>1 DEF Failed
<1>2. CASE IsPrefix(p, r.full)
  <2>1. x = [o |-> x.o, a |-> a] /\ ResetFilled(k, s, tail, x.o)
    BY <1>2 DEF PinnedPrefill, Then, ResetFilled
  <2>2. p \in Seq(Tokens) /\ tail \in Seq(Tokens) /\ p \o tail = r.full
    BY <1>2, RequestTokens, PrefixParts DEF Adapter
  <2>. HIDE DEF tail, k, p
  <2>. DEFINE o == x.o
  <2>. HIDE DEF o
  <2>3. /\ o.s \in Session /\ Kept(k, p, o.s)
        /\ o.ok /\ k \in {"local", "geistd"} => o.s.hist = p \o tail
    <3>1. Kept(k, p, s)
      BY DEF k, p
    <3>2. ResetFilled(k, s, tail, o)
      BY <2>1 DEF o
    <3>3. tail \in Seq(Tokens)
      BY <2>2
    <3>. QED
      BY <3>1, <3>2, <3>3, ResetPrefill, SMTT(30)
  <2>4. k \in {"local", "geistd"}
    BY DEF k, Engine
  <2>. QED
    BY <2>1, <2>2, <2>3, <2>4 DEF Prompted, k, p, o
<1>. QED
  BY <1>1, <1>2

(* geist_prefill without a pin: reset, then the whole prompt. *)
LEMMA FullPrefills ==
    ASSUME NEW a, Adapter(a), a.kind \in Engine, a.pinned = <<>>,
           NEW s \in Session, Kept(a.kind, a.pinned, s), NEW r \in Requests,
           NEW x \in FullPrefill(a, s, r)
    PROVE  /\ x.a = a /\ x.o.s \in Session /\ Kept(a.kind, a.pinned, x.o.s)
           /\ x.o.ok => Prompted(x.o.s, r.full)
<1>. DEFINE k == a.kind
            bos == <<"bos">> \o r.full
<1>1. r.reset /\ r.full \in Seq(Tokens) /\ bos \in Seq(Tokens) /\ Kept(k, <<>>, s)
      /\ k \in {"local", "geistd"}
  BY RequestTokens, FixedTokens DEF Engine
<1>. DEFINE o == x.o
<1>2. PICK y \in EngReset(k, s) :
         /\ x = [o |-> o, a |-> a]
         /\ IF y.ok THEN o \in EngSetPrompt(k, y.s, r.full) ELSE o = y
  BY <1>1 DEF FullPrefill, Then
<1>. HIDE DEF k, bos, o
<1>4. /\ y.s \in Session /\ Kept(k, <<>>, y.s)
      /\ y.ok /\ k = "local"  => y.s.hist = <<>>
      /\ y.ok /\ k = "geistd" => y.s.shadow = <<>>
  BY <1>1, ResetCuts
<1>5. CASE y.ok /\ o \in EngSetPrompt(k, y.s, r.full)
  <2>. DEFINE z == y.s
  <2>1. PICK ids \in {r.full, bos} : o \in EngPrefillTokens(k, z, ids)
    BY <1>5 DEF EngSetPrompt, bos
  <2>2. z \in Session /\ Kept(k, <<>>, z) /\ ids \in Seq(Tokens)
    BY <1>1, <1>4
  <2>3. /\ k = "local" => z.hist = <<>>
        /\ k = "geistd" => z.shadow = <<>>
    BY <1>4, <1>5
  <2>. HIDE DEF z
  <2>4. /\ o.s \in Session /\ Kept(k, <<>>, o.s)
        /\ o.ok /\ k = "local"  => o.s.hist = z.hist \o ids
        /\ o.ok /\ k = "geistd" => o.s.hist = z.shadow \o ids
    BY <2>1, <2>2, PrefillAppends
  <2>5. <<>> \o ids = ids
    BY <2>2
  <2>6. o.ok => o.s.hist = ids
    BY <1>1, <2>3, <2>4, <2>5
  <2>. QED
    BY <1>2, <2>1, <2>4, <2>6 DEF Prompted, bos, k, o
<1>6. CASE ~y.ok /\ o = y
  BY <1>2, <1>4, <1>6 DEF k, o
<1>. QED
  BY <1>2, <1>5, <1>6

(* eng_pin_prefix on a session that holds the whole prompt: whether it      *)
(* succeeds or not, the history stays, and the adapter relies on the pin    *)
(* only if it did.                                                          *)
LEMMA PinFills ==
    ASSUME NEW kind \in Engine, NEW p \in Seq(Tokens), NEW full \in Seq(Tokens),
           IsPrefix(p, full), NEW s \in Session, Kept(kind, <<>>, s),
           s.hist = full, kind = "geistd" => s.shadow = full,
           NEW o \in EngPinPrefix(kind, s, Len(p))
    PROVE  /\ o.s \in Session /\ o.s.hist = full
           /\ Kept(kind, IF o.ok THEN p ELSE <<>>, o.s)
<1>. DEFINE n == Len(p)
            w == [s EXCEPT !.dpin = n]
            g == IF kind = "local" THEN s.gpin ELSE n
            t == [w EXCEPT !.gpin = g]
<1>1. n \in Nat /\ n <= Len(full) /\ Upto(full, n) = p
  BY PrefixParts
<1>. HIDE DEF n
<1>2. /\ w \in Fields /\ w.hist = full /\ w.dpin = n /\ w.shadow = s.shadow
      /\ w.gpin = s.gpin
  BY <1>1, SessionFields, FieldFacts
<1>3. o \in Try(kind, s, t)
  <2>. DEFINE T == [s EXCEPT !.dpin = n, !.gpin = IF kind = "local" THEN @ ELSE n]
  <2>1. o \in Try(kind, s, T)
    BY Zenon DEF EngPinPrefix, n
  <2>2. T = t
    BY <1>2, SessionFields DEF Fields
  <2>. QED
    BY <2>1, <2>2
<1>. HIDE DEF w
<1>4. g \in Nat /\ g <= Len(s.shadow)
  BY <1>1, SessionFields DEF Engine
<1>. HIDE DEF g
<1>5. /\ t \in Fields /\ t.hist = full /\ t.dpin = n /\ t.shadow = s.shadow
      /\ t.gpin = g
  BY <1>2, <1>4, FieldFacts
<1>. HIDE DEF t
<1>6. t \in Session
  BY <1>1, <1>4, <1>5 DEF Session
<1>7. kind = "geistd" => g = n
  BY DEF g
<1>8. Kept(kind, p, t)
  BY <1>1, <1>5, <1>7 DEF Kept, Holds, n
<1>9. /\ o.s \in Session /\ (o.ok => o.s = t) /\ o.s.hist \in {s.hist, t.hist}
      /\ ~o.ok => o.s.shadow = s.shadow /\ o.s.gpin = s.gpin
      /\ ~o.ok /\ kind # "geistd" => o.s.hist = s.hist /\ o.s.dpin = s.dpin
  BY <1>3, <1>6, TryOutcomes
<1>10. ~o.ok => Kept(kind, <<>>, o.s)
  BY <1>9, KeptAfterFailure
<1>. QED
  BY <1>5, <1>8, <1>9, <1>10

(* geist_prefill that sets the pin: whole prompt first, then pin it. *)
LEMMA EstablishPrefills ==
    ASSUME NEW a, Adapter(a), a.kind \in Engine, a.pinned = <<>>,
           NEW s \in Session, Kept(a.kind, a.pinned, s), NEW r \in Requests,
           TokensArePrefix(r.full, r.pfx), NEW x \in EstablishPin(a, s, r)
    PROVE  /\ Adapter(x.a) /\ x.a.kind = a.kind
           /\ x.o.s \in Session /\ Kept(a.kind, x.a.pinned, x.o.s)
           /\ x.o.ok => Prompted(x.o.s, r.full)
<1>. DEFINE k == a.kind
            full == r.full
            p == r.pfx
<1>1. /\ k \in Engine /\ full \in Seq(Tokens) /\ p \in Seq(Tokens) /\ Kept(k, <<>>, s)
      /\ IsPrefix(p, full)
  BY RequestTokens DEF TokensArePrefix
<1>2. PICK o : /\ ResetFilled(k, s, full, o)
               /\ IF o.ok
                  THEN \E q \in EngPinPrefix(k, o.s, Len(p)) :
                          x = [o |-> Ok(q.s),
                               a |-> IF q.ok THEN [a EXCEPT !.pinned = p]
                                     ELSE [a EXCEPT !.pinOn = FALSE]]
                  ELSE x = [o |-> o, a |-> a]
  BY DEF EstablishPin, Then, ResetFilled
<1>. HIDE DEF k, full, p
<1>3. /\ o.s \in Session /\ Kept(k, <<>>, o.s)
      /\ o.ok => o.s.hist = <<>> \o full
      /\ o.ok /\ k = "geistd" => o.s.shadow = <<>> \o full
  <2>. DEFINE e == <<>>
  <2>1. ResetFilled(k, s, full, o) /\ Kept(k, e, s) /\ full \in Seq(Tokens)
    BY <1>1, <1>2
  <2>2. k \in {"local", "geistd"}
    BY <1>1 DEF Engine
  <2>. HIDE DEF e
  <2>3. /\ o.s \in Session /\ Kept(k, e, o.s)
        /\ o.ok => o.s.hist = e \o full
        /\ o.ok /\ k = "geistd" => o.s.shadow = e \o full
    BY <2>1, <2>2, ResetPrefill, SMTT(30)
  <2>. QED
    BY <2>3 DEF e
<1>4. <<>> \o full = full
  BY <1>1
<1>5. CASE o.ok
  <2>. DEFINE y == o.s
  <2>1. PICK q \in EngPinPrefix(k, y, Len(p)) :
           x = [o |-> Ok(q.s),
                a |-> IF q.ok THEN [a EXCEPT !.pinned = p]
                      ELSE [a EXCEPT !.pinOn = FALSE]]
    BY <1>2, <1>5
  <2>2. /\ y \in Session /\ Kept(k, <<>>, y) /\ y.hist = full
        /\ k = "geistd" => y.shadow = full
    BY <1>3, <1>4, <1>5
  <2>. HIDE DEF y
  <2>3. /\ q.s \in Session /\ q.s.hist = full
        /\ Kept(k, IF q.ok THEN p ELSE <<>>, q.s)
    BY <1>1, <2>1, <2>2, PinFills
  <2>4. x.o.s = q.s /\ x.a \in {[a EXCEPT !.pinned = p], [a EXCEPT !.pinOn = FALSE]}
        /\ x.a = IF q.ok THEN [a EXCEPT !.pinned = p] ELSE [a EXCEPT !.pinOn = FALSE]
    BY <2>1 DEF Ok
  <2>5. /\ Adapter(x.a) /\ x.a.kind = k
        /\ x.a.pinned = IF q.ok THEN p ELSE <<>>
    BY <1>1, <2>4 DEF Adapter, k
  <2>. QED
    BY <2>3, <2>4, <2>5 DEF Prompted, k, full
<1>6. CASE ~o.ok
  BY <1>2, <1>3, <1>6 DEF k
<1>. QED
  BY <1>5, <1>6

(* geist_prefill: the engine ends up with exactly the prompt, or fails.     *)
LEMMA GeistPrefills ==
    ASSUME NEW a, Adapter(a), a.kind \in Engine,
           NEW s \in Session, Kept(a.kind, a.pinned, s), NEW r \in Requests,
           NEW x \in GeistPrefill(a, s, r)
    PROVE  /\ Adapter(x.a) /\ x.a.kind = a.kind
           /\ x.o.s \in Session /\ Kept(a.kind, x.a.pinned, x.o.s)
           /\ x.o.ok => Prompted(x.o.s, r.full)
<1>1. CASE a.pinned # <<>>
  <2>1. x \in PinnedPrefill(a, s, r)
    BY <1>1, Zenon DEF GeistPrefill
  <2>. QED
    BY <2>1, PinnedPrefills
<1>2. CASE a.pinned = <<>> /\ a.pinOn /\ TokensArePrefix(r.full, r.pfx)
  <2>1. x \in EstablishPin(a, s, r)
    BY <1>2, Zenon DEF GeistPrefill
  <2>. QED
    BY <1>2, <2>1, EstablishPrefills
<1>3. CASE a.pinned = <<>> /\ ~(a.pinOn /\ TokensArePrefix(r.full, r.pfx))
  <2>1. x \in FullPrefill(a, s, r)
    BY <1>3, Zenon DEF GeistPrefill
  <2>. QED
    BY <1>3, <2>1, FullPrefills
<1>. QED
  BY <1>1, <1>2, <1>3

-----------------------------------------------------------------------------
(* The invariant of the session.                                            *)
KvInv ==
    /\ Adapter(ad) /\ ses \in Session /\ Kept(ad.kind, ad.pinned, ses)
    /\ KvIsPrompt

\* A step that leaves the session in order and is not the end of a prefill.
Orderly ==
    /\ Adapter(ad') /\ ses' \in Session /\ Kept(ad'.kind, ad'.pinned, ses')
    /\ stage' # "prefilled"

(* Between two prefills there is nothing more to show. *)
LEMMA OrderlyStep ==
    ASSUME Orderly PROVE KvInv'
BY DEF Orderly, KvInv, KvIsPrompt, Adapter, Session, Fields, Kept, Holds

(* A session as it is created: nothing pinned. *)
LEMMA FreshSession ==
    ASSUME NEW f \in Int, NEW kind
    PROVE  /\ Fresh(f) \in Session /\ Kept(kind, <<>>, Fresh(f))
<1>1. <<>> \in Seq(Tokens) /\ Len(<<>>) = 0
  OBVIOUS
<1>2. Upto(<<>>, 0) = <<>>
  <2>. DEFINE e == <<>>
  <2>1. e \in Seq(Tokens) /\ Len(e) = 0 /\ 0 <= Len(e) /\ 0 \in Nat
    BY <1>1
  <2>2. \A x \in Seq(Tokens) : Len(x) = 0 => x = <<>>
    OBVIOUS
  <2>. HIDE DEF e
  <2>3. Upto(e, 0) \in Seq(Tokens) /\ Len(Upto(e, 0)) = 0
    BY <2>1, UptoFacts
  <2>. QED
    BY <2>2, <2>3 DEF e
<1>. QED
  BY <1>1, <1>2 DEF Fresh, Session, Fields, Kept, Holds

(* No adapter yet. *)
LEMMA KvInit ==
    ASSUME ModelInit
    PROVE  KvInv
<1>1. ses \in Session /\ Kept("none", <<>>, ses)
  BY FreshSession, AdapterAssumption DEF ModelInit
<1>2. Adapter(ad) /\ ad.kind = "none" /\ ad.pinned = <<>> /\ stage = "none"
  BY DEF ModelInit, NoAdapter, Adapter
<1>. QED
  BY <1>1, <1>2 DEF KvInv, KvIsPrompt

\* The engine works on the session, or an error is met, and the adapter stays.
EngineStep ==
    /\ ad' = ad /\ stage' # "prefilled"
    /\ \/ ses' = ses
       \/ ses' = [ses EXCEPT !.faults = @ - 1]
       \/ \E o \in EngDecodeStep(ad.kind, ses) : ses' = o.s
       \/ \E o \in EngPrefillTokens(ad.kind, ses, <<"l">>)
                 \cup EngPrefillTokens(ad.kind, ses, <<"g">>) : ses' = o.s

(* Decoding, a fixed piece or an error leave the pinned prefix alone. *)
LEMMA EngineSteps ==
    ASSUME KvInv, EngineStep
    PROVE  Orderly
<1>1. Adapter(ad) /\ ses \in Session /\ Kept(ad.kind, ad.pinned, ses)
  BY DEF KvInv
<1>2. ses' \in Session /\ Kept(ad.kind, ad.pinned, ses')
  <2>1. CASE ses' = ses
    BY <1>1, <2>1
  <2>2. CASE ses' = [ses EXCEPT !.faults = @ - 1]
    <3>1. ses' = [ses EXCEPT !.faults = ses.faults - 1] /\ ses.faults - 1 \in Int
      BY <1>1, <2>2, SessionFields DEF Fields
    <3>2. /\ ses' \in Fields /\ ses'.hist = ses.hist /\ ses'.dpin = ses.dpin
          /\ ses'.shadow = ses.shadow /\ ses'.gpin = ses.gpin
      BY <1>1, <3>1, SessionFields, FieldFacts
    <3>3. ses' \in Session
      BY <1>1, <3>2, SessionFields DEF Session
    <3>. QED
      BY <1>1, <3>2, <3>3 DEF Kept
  <2>3. CASE \E o \in EngDecodeStep(ad.kind, ses) : ses' = o.s
    BY <1>1, <2>3, DecodeAppends
  <2>4. CASE \E o \in EngPrefillTokens(ad.kind, ses, <<"l">>)
                    \cup EngPrefillTokens(ad.kind, ses, <<"g">>) : ses' = o.s
    <3>1. PICK ids \in {<<"l">>, <<"g">>} :
             \E o \in EngPrefillTokens(ad.kind, ses, ids) : ses' = o.s
      BY <2>4
    <3>2. ids \in Seq(Tokens)
      BY FixedTokens
    <3>. QED
      BY <1>1, <3>1, <3>2, PrefillAppends
  <2>. QED
    BY <2>1, <2>2, <2>3, <2>4 DEF EngineStep
<1>. QED
  BY <1>1, <1>2 DEF Orderly, EngineStep

(* spg_model_adapter_init: a fresh session, with the anchor at most. *)
LEMMA InitSteps ==
    ASSUME KvInv, NEW c, AdapterInit(c)
    PROVE  Orderly
<1>. DEFINE s == Fresh(ses.faults)
<1>1. s \in Session /\ Kept(c.kind, <<>>, s)
  BY FreshSession, SessionFields DEF KvInv
<1>2. \E o \in IF c.pmi THEN EngSetPrompt(c.kind, s, <<"anchor">>) ELSE {Ok(s)} :
         ses' = o.s
  BY Zenon DEF AdapterInit
<1>. HIDE DEF s
<1>3. ses' \in Session /\ Kept(c.kind, <<>>, ses')
  <2>1. CASE ~c.pmi
    BY <1>1, <1>2, <2>1 DEF Ok
  <2>2. CASE c.pmi
    <3>1. PICK ids \in {<<"anchor">>, <<"bos">> \o <<"anchor">>} :
             \E o \in EngPrefillTokens(c.kind, s, ids) : ses' = o.s
      BY <1>2, <2>2 DEF EngSetPrompt
    <3>2. ids \in Seq(Tokens)
      BY FixedTokens
    <3>. QED
      BY <1>1, <3>1, <3>2, PrefillAppends
  <2>. QED
    BY <2>1, <2>2
<1>4. Adapter(ad') /\ ad'.kind = c.kind /\ ad'.pinned = <<>> /\ stage' = "idle"
  BY DEF AdapterInit, Adapter
<1>. QED
  BY <1>3, <1>4 DEF Orderly

(* spg_model_adapter_destroy forgets the pin with the session. *)
LEMMA DestroySteps ==
    ASSUME KvInv, AdapterDestroy
    PROVE  Orderly
<1>1. ses' \in Session /\ Kept("none", <<>>, ses')
  BY FreshSession, SessionFields DEF KvInv, AdapterDestroy
<1>2. Adapter(ad') /\ ad'.kind = "none" /\ ad'.pinned = <<>> /\ stage' = "none"
  BY DEF AdapterDestroy, NoAdapter, Adapter
<1>. QED
  BY <1>1, <1>2 DEF Orderly

(* The fake backend has no session. *)
LEMMA FakeSteps ==
    ASSUME KvInv, NEW r, GenerateFake(r)
    PROVE  Orderly
<1>1. ses' = ses /\ stage' = "done" /\ \E n : ad' = [ad EXCEPT !.next = n]
  BY Zenon DEF GenerateFake
<1>2. Adapter(ad') /\ ad'.kind = ad.kind /\ ad'.pinned = ad.pinned
  BY <1>1 DEF KvInv, Adapter
<1>. QED
  BY <1>1, <1>2 DEF KvInv, Orderly

(* The start of a reply: the only step that ends a prefill. *)
LEMMA GeistSteps ==
    ASSUME KvInv, NEW r \in Requests, GenerateGeist(r)
    PROVE  KvInv'
<1>1. PICK x \in GeistPrefill(ad, ses, r) :
         /\ ses' = x.o.s /\ ad' = x.a
         /\ stage' = "prefilled" => x.o.ok
  BY DEF GenerateGeist, Return
<1>2. Adapter(ad) /\ ad.kind \in Engine /\ ses \in Session /\ Kept(ad.kind, ad.pinned, ses)
  BY DEF KvInv, GenerateGeist, Engine
<1>3. /\ Adapter(x.a) /\ x.a.kind = ad.kind
      /\ x.o.s \in Session /\ Kept(ad.kind, x.a.pinned, x.o.s)
      /\ x.o.ok => Prompted(x.o.s, r.full)
  BY <1>1, <1>2, GeistPrefills
<1>4. req' = r
  BY DEF GenerateGeist, Begin
<1>5. CASE stage' # "prefilled"
  <2>1. Orderly
    BY <1>1, <1>3, <1>5 DEF Orderly
  <2>. QED
    BY <2>1, OrderlyStep
<1>6. CASE stage' = "prefilled"
  <2>1. Adapter(ad') /\ ses' \in Session /\ Kept(ad'.kind, ad'.pinned, ses')
        /\ Prompted(ses', req'.full)
    BY <1>1, <1>3, <1>4, <1>6
  <2>. QED
    BY <2>1 DEF KvInv, KvIsPrompt, Prompted, Adapter, Session, Fields, Kept, Holds
<1>. QED
  BY <1>5, <1>6

\* The steps of the decoder and of the backends without a session.

(* The decoder moves no token of the session: only the engine does.         *)
LEMMA DecoderSteps ==
    ASSUME \/ EmitReasonPrefix \/ SkipReason \/ EmitOpening \/ ChoiceStep
           \/ ChoiceEnd \/ DecodeStringSlot \/ DecodeNumberSlot
           \/ Segment \/ FreeStep
    PROVE  EngineStep
<1>1. ASSUME NEW text, NEW d, EmitLiteral(text, d), ad' = ad
      PROVE  EngineStep
  BY <1>1 DEF EmitLiteral, Return, Goto, EngineStep
<1>2. ASSUME NEW takes, NEW cap, SlotStep(takes, cap), ad' = ad
      PROVE  EngineStep
  BY <1>2 DEF SlotStep, EngineError, Return, Goto, EngineStep
<1>3. CASE EmitReasonPrefix
  BY <1>3 DEF EmitReasonPrefix, EngineError, Return, Goto, EngineStep
<1>4. CASE SkipReason
  BY <1>4 DEF SkipReason, Goto, EngineStep
<1>5. CASE EmitOpening
  BY <1>1, <1>5 DEF EmitOpening
<1>6. CASE ChoiceStep
  BY <1>6 DEF ChoiceStep, EngineError, Return, Goto, EngineStep
<1>7. CASE ChoiceEnd
  BY <1>7 DEF ChoiceEnd, AfterChoice, Return, Goto, EngineStep
<1>8. CASE DecodeStringSlot \/ DecodeNumberSlot
  BY <1>2, <1>8 DEF DecodeStringSlot, DecodeNumberSlot
<1>9. CASE Segment
  BY <1>1, <1>9 DEF Segment, Goto, EngineStep
<1>10. CASE FreeStep
  BY <1>10 DEF FreeStep, EngineError, Return, Goto, EngineStep
<1>. QED
  BY <1>3, <1>4, <1>5, <1>6, <1>7, <1>8, <1>9, <1>10

(* Every step of the adapter keeps the invariant. *)
LEMMA KvNext ==
    ASSUME KvInv, [ModelNext]_modelVars
    PROVE  KvInv'
<1>1. CASE UNCHANGED modelVars
  BY <1>1 DEF modelVars, KvInv, KvIsPrompt, Adapter, Kept, Holds
<1>2. CASE \E c \in Configs : AdapterInit(c)
  BY <1>2, InitSteps, OrderlyStep
<1>3. CASE \E c \in Configs : AdapterInitFails(c)
  <2>1. EngineStep
    BY <1>3 DEF AdapterInitFails, EngineStep
  <2>. QED
    BY <2>1, EngineSteps, OrderlyStep
<1>4. CASE AdapterDestroy
  BY <1>4, DestroySteps, OrderlyStep
<1>5. CASE \E r \in Requests : GenerateNothing(r) \/ GenerateRemote(r)
  <2>1. EngineStep
    BY <1>5 DEF GenerateNothing, GenerateRemote, Return, EngineStep
  <2>. QED
    BY <2>1, EngineSteps, OrderlyStep
<1>6. CASE \E r \in Requests : GenerateGeist(r)
  BY <1>6, GeistSteps
<1>7. CASE \E r \in Requests : GenerateFake(r)
  BY <1>7, FakeSteps, OrderlyStep
<1>8. CASE ParseReply
  <2>1. EngineStep
    BY <1>8 DEF ParseReply, EngineStep
  <2>. QED
    BY <2>1, EngineSteps, OrderlyStep
<1>9. CASE \/ EmitReasonPrefix \/ SkipReason \/ EmitOpening \/ ChoiceStep
           \/ ChoiceEnd \/ DecodeStringSlot \/ DecodeNumberSlot
           \/ Segment \/ FreeStep
  <2>1. EngineStep
    BY <1>9, DecoderSteps
  <2>. QED
    BY <2>1, EngineSteps, OrderlyStep
<1>. QED
  BY <1>1, <1>2, <1>3, <1>4, <1>5, <1>6, <1>7, <1>8, <1>9 DEF ModelNext

-----------------------------------------------------------------------------
(* For every tokenizer, every set of requests that reset the session, every *)
(* order of adapters and calls and every failure of the engine or of the    *)
(* socket to it: decoding starts from exactly the prompt of its request     *)
(* (geist_prefill).                                                         *)
THEOREM PromptKept ==
    ModelSpec => []KvIsPrompt
<1>1. ModelInit => KvInv
  BY KvInit
<1>2. KvInv /\ [ModelNext]_modelVars => KvInv'
  BY KvNext
<1>3. KvInv => KvIsPrompt
  BY DEF KvInv
<1>. QED
  BY <1>1, <1>2, <1>3, PTL DEF ModelSpec

-----------------------------------------------------------------------------
(* The remote codec: what an escaped prompt and a JSON reply are read as.   *)

(* The units JSON is written in, and what the reader of the adapter makes   *)
(* of the unit at place i: how long it is, and which text it stands for.    *)
Units == {"q", "bs", "nl", "ctl", "astral", "w", "n", "u", "hexctl", "hexq",
          "hexw", "hexbs", "hexnl", "high", "low"}

UnitAt(s, i) ==
    LET escape(j)  == s[j] = "bs" /\ j < Len(s)
        unicode(j) == escape(j) /\ s[j + 1] = "u" /\ j + 2 <= Len(s)
        pair(j)    == /\ unicode(j) /\ s[j + 2] = "high"
                      /\ j + 5 <= Len(s) /\ s[j + 3] = "bs" /\ s[j + 4] = "u"
                      /\ s[j + 5] = "low"
    IN IF pair(i)         THEN [n |-> 6, c |-> <<"astral">>]
       ELSE IF unicode(i) THEN [n |-> 3, c |-> <<Codec!HexValue[s[i + 2]]>>]
       ELSE IF escape(i)
            THEN [n |-> 2, c |-> IF s[i + 1] = "n" THEN <<"nl">>
                                 ELSE IF s[i + 1] = "u" THEN <<>>
                                 ELSE <<s[i + 1]>>]
       ELSE IF s[i] = "bs" THEN [n |-> 1, c |-> <<>>]
       ELSE [n |-> 1, c |-> <<s[i]>>]

(* The texts read from each place on. *)
TextsFrom(s) ==
    CHOOSE f : f = [i \in 1 .. Len(s) + 1 |->
                       IF i > Len(s) THEN <<>>
                       ELSE UnitAt(s, i).c \o f[i + UnitAt(s, i).n]]

LEMMA UnescapedIs ==
    ASSUME NEW s
    PROVE  Codec!Unescaped(s) = TextsFrom(s)[1]
BY DEF Codec!Unescaped, TextsFrom, UnitAt

(* The reader never goes beyond the end.                                    *)
LEMMA UnitLength ==
    ASSUME NEW s, Len(s) \in Nat, NEW i \in 1 .. Len(s)
    PROVE  UnitAt(s, i).n \in Nat /\ UnitAt(s, i).n >= 1 /\ i + UnitAt(s, i).n <= Len(s) + 1
<1>. DEFINE a == s[i] = "bs" /\ i < Len(s)
            b == a /\ s[i + 1] = "u" /\ i + 2 <= Len(s)
            p == /\ b /\ s[i + 2] = "high"
                 /\ i + 5 <= Len(s) /\ s[i + 3] = "bs" /\ s[i + 4] = "u"
                 /\ s[i + 5] = "low"
            m == IF p THEN 6 ELSE IF b THEN 3 ELSE IF a THEN 2 ELSE 1
<1>1. UnitAt(s, i).n = m
  BY DEF UnitAt
<1>2. m \in Nat /\ m >= 1 /\ i + m <= Len(s) + 1
  OBVIOUS
<1>. QED
  BY <1>1, <1>2

(* A pair of escapes that ends within the text leaves room for each of its  *)
(* six units (unescape_into tests the end before it reads on).              *)
LEMMA RoomOfSix ==
    ASSUME NEW n \in Nat, NEW i \in 1 .. n, i + 6 <= n + 1
    PROVE  i < n /\ i + 2 <= n /\ i + 5 <= n
OBVIOUS

(* A form of a character is read as that character, and to its end          *)
(* (unescape_into).                                                         *)
LEMMA FormRead ==
    ASSUME NEW s, Len(s) \in Nat, NEW i \in 1 .. Len(s), NEW c \in Codec!Chars,
           NEW f \in Codec!JsonForms(c), i + Len(f) <= Len(s) + 1,
           \A j \in 1 .. Len(f) : s[i + j - 1] = f[j]
    PROVE  UnitAt(s, i).n = Len(f) /\ UnitAt(s, i).c = <<c>>
<1>1. CASE Len(f) = 1 /\ f[1] = c /\ c # "bs"
  <2>1. s[i] = c
    BY <1>1
  <2>. QED
    BY <1>1, <2>1 DEF UnitAt
<1>2. ASSUME NEW d, Len(f) = 2, f[1] = "bs", f[2] = d, d # "u",
             <<c>> = IF d = "n" THEN <<"nl">> ELSE <<d>>
      PROVE  UnitAt(s, i).n = Len(f) /\ UnitAt(s, i).c = <<c>>
  <2>1. s[i] = "bs" /\ s[i + 1] = d /\ i + 1 <= Len(s)
    BY <1>2
  <2>. QED
    BY <1>2, <2>1 DEF UnitAt
<1>3. ASSUME NEW d, Len(f) = 3, f[1] = "bs", f[2] = "u", f[3] = d, d # "high",
             c = Codec!HexValue[d]
      PROVE  UnitAt(s, i).n = Len(f) /\ UnitAt(s, i).c = <<c>>
  <2>1. s[i] = "bs" /\ s[i + 1] = "u" /\ s[i + 2] = d /\ i + 2 <= Len(s)
    BY <1>3
  <2>. QED
    BY <1>3, <2>1 DEF UnitAt
<1>4. CASE c = "astral" /\ f = <<"bs", "u", "high", "bs", "u", "low">>
  <2>1. /\ Len(f) = 6 /\ f[1] = "bs" /\ f[2] = "u" /\ f[3] = "high"
        /\ f[4] = "bs" /\ f[5] = "u" /\ f[6] = "low"
    BY <1>4
  <2>2. \A j \in 1 .. 6 : s[i + j - 1] = f[j]
    BY <2>1
  <2>3. s[i] = "bs" /\ s[i + 1] = "u" /\ s[i + 2] = "high"
    <3>1. /\ s[i + 1 - 1] = f[1] /\ s[i + 2 - 1] = f[2] /\ s[i + 3 - 1] = f[3]
      BY <2>2
    <3>. QED
      BY <2>1, <3>1
  <2>4. s[i + 3] = "bs" /\ s[i + 4] = "u" /\ s[i + 5] = "low"
    <3>1. /\ s[i + 4 - 1] = f[4] /\ s[i + 5 - 1] = f[5] /\ s[i + 6 - 1] = f[6]
      BY <2>2
    <3>. QED
      BY <2>1, <3>1
  <2>5. i < Len(s) /\ i + 2 <= Len(s) /\ i + 5 <= Len(s)
    <3>1. i + 6 <= Len(s) + 1
      BY <2>1, Zenon
    <3>. QED
      BY <3>1, RoomOfSix, Zenon
  <2>6. UnitAt(s, i) = [n |-> 6, c |-> <<"astral">>]
    BY <2>3, <2>4, <2>5 DEF UnitAt
  <2>. QED
    BY <1>4, <2>1, <2>6
<1>5. CASE c = "q"
  <2>1. f = <<"bs", "q">> \/ f = <<"bs", "u", "hexq">>
    BY <1>5 DEF Codec!JsonForms
  <2>2. CASE f = <<"bs", "q">>
    BY <1>2, <1>5, <2>2
  <2>3. CASE f = <<"bs", "u", "hexq">>
    <3>1. Codec!HexValue["hexq"] = "q"
      BY DEF Codec!HexValue
    <3>. QED
      BY <1>3, <1>5, <2>3, <3>1
  <2>. QED
    BY <2>1, <2>2, <2>3
<1>6. CASE c = "bs"
  <2>1. f = <<"bs", "bs">> \/ f = <<"bs", "u", "hexbs">>
    BY <1>6 DEF Codec!JsonForms
  <2>2. CASE f = <<"bs", "bs">>
    BY <1>2, <1>6, <2>2
  <2>3. CASE f = <<"bs", "u", "hexbs">>
    <3>1. Codec!HexValue["hexbs"] = "bs"
      BY DEF Codec!HexValue
    <3>. QED
      BY <1>3, <1>6, <2>3, <3>1
  <2>. QED
    BY <2>1, <2>2, <2>3
<1>7. CASE c = "nl"
  <2>1. f = <<"bs", "n">> \/ f = <<"bs", "u", "hexnl">>
    BY <1>7 DEF Codec!JsonForms
  <2>2. CASE f = <<"bs", "n">>
    BY <1>2, <1>7, <2>2
  <2>3. CASE f = <<"bs", "u", "hexnl">>
    <3>1. Codec!HexValue["hexnl"] = "nl"
      BY DEF Codec!HexValue
    <3>. QED
      BY <1>3, <1>7, <2>3, <3>1
  <2>. QED
    BY <2>1, <2>2, <2>3
<1>8. CASE c = "ctl"
  BY <1>3, <1>8 DEF Codec!JsonForms, Codec!HexValue
<1>9. CASE c = "astral"
  BY <1>1, <1>4, <1>9 DEF Codec!JsonForms
<1>10. CASE c = "w"
  BY <1>1, <1>3, <1>10 DEF Codec!JsonForms, Codec!HexValue
<1>. QED
  BY <1>5, <1>6, <1>7, <1>8, <1>9, <1>10 DEF Codec!Chars

(* Reading on from a place gives the unit there and the text of the next.   *)
Reads(f, s) ==
    /\ DOMAIN f = 1 .. Len(s) + 1 /\ f[Len(s) + 1] = <<>>
    /\ \A i \in 1 .. Len(s) : f[i] = UnitAt(s, i).c \o f[i + UnitAt(s, i).n]

LEMMA TextsRead ==
    ASSUME NEW s, Len(s) \in Nat
    PROVE  Reads(TextsFrom(s), s)
<1>. DEFINE N == Len(s)
            n(i) == UnitAt(s, i).n
            c(i) == UnitAt(s, i).c
            Behind(f, k) == /\ DOMAIN f = (N + 1 - k) .. N + 1 /\ f[N + 1] = <<>>
                            /\ \A i \in (N + 1 - k) .. N : f[i] = c(i) \o f[i + n(i)]
            K == {k \in 0 .. N : \E f : Behind(f, k)}
<1>1. \A i \in 1 .. N : n(i) \in Nat /\ n(i) >= 1 /\ i + n(i) <= N + 1
  BY UnitLength
<1>2. N \in Nat
  OBVIOUS
<1>. HIDE DEF n, c, N
<1>3. 0 \in K
  <2>1. Behind([i \in N + 1 .. N + 1 |-> <<>>], 0)
    BY <1>2
  <2>. HIDE DEF Behind
  <2>. QED
    BY <1>2, <2>1
<1>4. ASSUME NEW k \in K, k < N
      PROVE  k + 1 \in K
  <2>1. PICK f : Behind(f, k)
    BY <1>4
  <2>. DEFINE p == N - k
              y == c(p) \o f[p + n(p)]
  <2>2. p \in 1 .. N /\ N + 1 - (k + 1) = p /\ N + 1 - k = p + 1
    BY <1>2, <1>4
  <2>. HIDE DEF p, y
  <2>. DEFINE h == [i \in p .. N + 1 |-> IF i = p THEN y ELSE f[i]]
  <2>3. DOMAIN h = p .. N + 1 /\ h[p] = y /\ \A i \in p + 1 .. N + 1 : h[i] = f[i]
    BY <1>2, <2>2
  <2>. HIDE DEF h
  <2>4. h[N + 1] = <<>>
    BY <1>2, <2>1, <2>2, <2>3
  <2>5. ASSUME NEW i \in p .. N
        PROVE  h[i] = c(i) \o h[i + n(i)]
    <3>1. i + n(i) \in p + 1 .. N + 1
      BY <1>1, <1>2, <2>2
    <3>2. h[i + n(i)] = f[i + n(i)]
      BY <2>3, <3>1
    <3>3. CASE i = p
      BY <2>3, <3>2, <3>3 DEF y
    <3>4. CASE i # p
      <4>1. i \in p + 1 .. N /\ i \in p + 1 .. N + 1
        BY <1>2, <2>2, <3>4
      <4>2. h[i] = f[i] /\ f[i] = c(i) \o f[i + n(i)]
        BY <2>1, <2>2, <2>3, <4>1
      <4>. QED
        BY <3>2, <4>2
    <3>. QED
      BY <3>3, <3>4
  <2>6. Behind(h, k + 1)
    BY <2>2, <2>3, <2>4, <2>5
  <2>. HIDE DEF Behind
  <2>7. k + 1 \in 0 .. N
    BY <1>2, <1>4
  <2>. QED
    BY <2>6, <2>7
<1>5. K \in SUBSET (0 .. N)
  OBVIOUS
<1>. HIDE DEF K
<1>6. K = 0 .. N
  BY <1>2, <1>3, <1>4, <1>5, UpTo
<1>7. N \in K
  BY <1>2, <1>6
<1>8. PICK f : Behind(f, N)
  BY <1>7 DEF K
<1>. DEFINE F == [i \in 1 .. N + 1 |-> IF i > N THEN <<>> ELSE c(i) \o f[i + n(i)]]
            g == [i \in 1 .. N + 1 |-> f[i]]
            G(x) == [i \in 1 .. N + 1 |-> IF i > N THEN <<>> ELSE c(i) \o x[i + n(i)]]
<1>9. N + 1 - N = 1
  BY <1>2
<1>10. g = G(g)
  <2>1. ASSUME NEW i \in 1 .. N + 1
        PROVE  g[i] = IF i > N THEN <<>> ELSE c(i) \o g[i + n(i)]
    <3>1. CASE i > N
      BY <1>2, <1>8, <2>1, <3>1
    <3>2. CASE ~(i > N)
      <4>1. i \in 1 .. N /\ i + n(i) \in 1 .. N + 1
        BY <1>1, <1>2, <3>2
      <4>2. f[i] = c(i) \o f[i + n(i)]
        BY <1>8, <1>9, <4>1
      <4>. QED
        BY <3>2, <4>1, <4>2
    <3>. QED
      BY <3>1, <3>2
  <2>. QED
    BY <2>1
<1>11. TextsFrom(s) = G(TextsFrom(s))
  <2>1. TextsFrom(s) = CHOOSE x : x = G(x)
    BY DEF TextsFrom, N, n, c
  <2>. HIDE DEF G
  <2>. QED
    BY <1>10, <2>1
<1>. DEFINE t == TextsFrom(s)
<1>. HIDE DEF t
<1>12. t = G(t)
  BY <1>11 DEF t
<1>13. DOMAIN t = 1 .. N + 1 /\ t[N + 1] = <<>> /\ \A i \in 1 .. N : t[i] = c(i) \o t[i + n(i)]
  <2>1. N + 1 \in 1 .. N + 1 /\ N + 1 > N /\ \A i \in 1 .. N : i \in 1 .. N + 1 /\ ~(i > N)
    BY <1>2
  <2>2. DOMAIN t = 1 .. N + 1
    BY <1>12
  <2>3. \A i \in 1 .. N + 1 : t[i] = IF i > N THEN <<>> ELSE c(i) \o t[i + n(i)]
    BY <1>12, Zenon
  <2>. HIDE DEF G
  <2>. QED
    BY <2>1, <2>2, <2>3
<1>. QED
  BY <1>13 DEF Reads, t, N, n, c

(* The texts F one after the other: what the first k make.                  *)
Joins(g, F, X) ==
    /\ g \in [0 .. Len(F) -> Seq(X)] /\ g[0] = <<>>
    /\ \A k \in 1 .. Len(F) : g[k] = g[k - 1] \o F[k]

LEMMA FlattenIs ==
    ASSUME NEW X, NEW F \in Seq(Seq(X))
    PROVE  \E g : Joins(g, F, X) /\ Codec!FlattenSeq(F) = g[Len(F)]
<1>. DEFINE n == Len(F)
            S == Seq(X)
            Q == [p \in (1 .. n) \X S |-> p[2] \o F[p[1]]]
<1>1. n \in Nat /\ <<>> \in S /\ DOMAIN F = 1 .. n /\ \A i \in 1 .. n : F[i] \in S
  OBVIOUS
<1>2. Q \in [(1 .. n) \X S -> S]
  BY <1>1
<1>. HIDE DEF n, S, Q
<1>3. PICK g : Recurs(g, n, S, <<>>, Q)
  BY <1>1, <1>2, Recursion
<1>4. /\ g \in [0 .. n -> S] /\ g[0] = <<>>
      /\ \A k \in 1 .. n : g[k] = g[k - 1] \o F[k]
  <2>1. g \in [0 .. n -> S] /\ g[0] = <<>> /\ \A k \in 1 .. n : g[k] = Q[<<k, g[k - 1]>>]
    BY <1>3 DEF Recurs
  <2>2. ASSUME NEW k \in 1 .. n PROVE g[k] = g[k - 1] \o F[k]
    <3>1. g[k - 1] \in S
      BY <1>1, <2>1
    <3>2. <<k, g[k - 1]>> \in (1 .. n) \X S
      BY <3>1
    <3>. QED
      BY <2>1, <3>2 DEF Q
  <2>. QED
    BY <2>1, <2>2
<1>5. Joins(g, F, X)
  BY <1>4 DEF Joins, n, S
<1>6. Codec!FlattenSeq(F) = g[n]
  <2>1. CASE n = 0
    <3>1. F = <<>>
      BY <2>1 DEF n
    <3>. QED
      BY <1>4, <2>1, <3>1 DEF Codec!FlattenSeq, n
  <2>2. CASE n # 0
    <3>. DEFINE G(x) == [i \in 1 .. n |-> IF i = 1 THEN F[i] ELSE x[i - 1] \o F[i]]
                h == [i \in 1 .. n |-> g[i]]
                f == CHOOSE x : x = G(x)
    <3>1. h = G(h)
      <4>1. ASSUME NEW i \in 1 .. n
            PROVE  h[i] = IF i = 1 THEN F[i] ELSE h[i - 1] \o F[i]
        <5>1. CASE i = 1
          <6>0. i - 1 = 0 /\ g[i] = g[i - 1] \o F[i] /\ F[i] \in S
            BY <1>1, <1>4, <5>1
          <6>1. g[1] = <<>> \o F[1] /\ F[1] \in Seq(X)
            BY <1>4, <5>1, <6>0 DEF S
          <6>2. <<>> \o F[1] = F[1]
            BY <6>1
          <6>. QED
            BY <5>1, <6>1, <6>2
        <5>2. CASE i # 1
          <6>1. i - 1 \in 1 .. n
            BY <1>1, <5>2
          <6>. QED
            BY <1>4, <5>2, <6>1
        <5>. QED
          BY <5>1, <5>2
      <4>. QED
        BY <4>1
    <3>2. Codec!FlattenSeq(F) = f[n]
      BY <2>2 DEF Codec!FlattenSeq, n
    <3>. HIDE DEF G
    <3>3. f = G(f)
      BY <3>1
    <3>. HIDE DEF f, h
    <3>4. \A i \in 1 .. n : f[i] = IF i = 1 THEN F[i] ELSE f[i - 1] \o F[i]
      BY <3>3, Zenon DEF G
    <3>. DEFINE K == {k \in 0 .. n : k # 0 => f[k] = g[k]}
    <3>5. 0 \in K /\ K \in SUBSET (0 .. n)
      BY <1>1
    <3>6. ASSUME NEW k \in K, k < n PROVE k + 1 \in K
      <4>. DEFINE m == k + 1
      <4>1. m \in 1 .. n /\ m - 1 = k /\ k \in 0 .. n
        BY <1>1, <3>6
      <4>. HIDE DEF m
      <4>2. f[m] = IF m = 1 THEN F[m] ELSE f[k] \o F[m]
        BY <3>4, <4>1
      <4>3. g[m] = g[k] \o F[m] /\ F[m] \in Seq(X)
        BY <1>1, <1>4, <4>1 DEF S
      <4>4. <<>> \o F[m] = F[m]
        BY <4>3
      <4>5. f[m] = g[m]
        <5>1. CASE k = 0
          BY <1>4, <4>1, <4>2, <4>3, <4>4, <5>1
        <5>2. CASE k # 0
          <6>1. m # 1 /\ f[k] = g[k]
            BY <3>6, <4>1, <5>2
          <6>. QED
            BY <4>2, <4>3, <6>1
        <5>. QED
          BY <5>1, <5>2
      <4>6. m \in 0 .. n
        BY <1>1, <4>1
      <4>. QED
        BY <4>5, <4>6 DEF m
    <3>. HIDE DEF K
    <3>7. K = 0 .. n
      BY <1>1, <3>5, <3>6, UpTo
    <3>8. n \in K
      BY <1>1, <3>7
    <3>9. f[n] = g[n]
      BY <2>2, <3>8 DEF K
    <3>. QED
      BY <3>2, <3>9
  <2>. QED
    BY <2>1, <2>2
<1>. QED
  BY <1>5, <1>6 DEF n

(* Each of the texts stands in the whole where the ones before it end.      *)
Placed(g, F) ==
    \A k \in 1 .. Len(F) :
        /\ Len(g[k - 1]) \in Nat /\ Len(g[k]) = Len(g[k - 1]) + Len(F[k])
        /\ Len(g[k]) <= Len(g[Len(F)])
        /\ \A j \in 1 .. Len(F[k]) : g[Len(F)][Len(g[k - 1]) + j] = F[k][j]

(* What is joined is placed so.                                             *)
LEMMA JoinsPlace ==
    ASSUME NEW X, NEW F \in Seq(Seq(X)), NEW g, Joins(g, F, X)
    PROVE  Placed(g, F)
<1>. DEFINE n == Len(F)
            w == g[n]
            Starts(k) == /\ Len(g[k]) <= Len(w)
                         /\ \A i \in 1 .. Len(g[k]) : w[i] = g[k][i]
            K == {k \in 0 .. n : Starts(n - k)}
<1>1. n \in Nat /\ \A k \in 1 .. n : F[k] \in Seq(X)
  OBVIOUS
<1>2. \A k \in 0 .. n : g[k] \in Seq(X)
  BY DEF Joins
<1>3. \A k \in 1 .. n : g[k] = g[k - 1] \o F[k]
  BY DEF Joins
<1>. HIDE DEF n
<1>4. ASSUME NEW k \in 1 .. n
      PROVE  /\ Len(g[k - 1]) \in Nat /\ Len(F[k]) \in Nat
             /\ Len(g[k]) = Len(g[k - 1]) + Len(F[k])
             /\ \A i \in 1 .. Len(g[k - 1]) : g[k][i] = g[k - 1][i]
             /\ \A j \in 1 .. Len(F[k]) : g[k][Len(g[k - 1]) + j] = F[k][j]
  <2>. DEFINE a == g[k - 1]
              b == F[k]
  <2>1. a \in Seq(X) /\ b \in Seq(X) /\ g[k] = a \o b
    <3>1. k - 1 \in 0 .. n
      BY <1>1
    <3>. QED
      BY <1>1, <1>2, <1>3, <3>1
  <2>. HIDE DEF a, b
  <2>2. /\ Len(a) \in Nat /\ Len(b) \in Nat /\ Len(a \o b) = Len(a) + Len(b)
        /\ \A i \in 1 .. Len(a) : (a \o b)[i] = a[i]
        /\ \A j \in 1 .. Len(b) : (a \o b)[Len(a) + j] = b[j]
    BY <2>1
  <2>. QED
    BY <2>1, <2>2 DEF a, b
<1>5. 0 \in K
  <2>1. n - 0 = n /\ Len(g[n]) \in Nat
    BY <1>1, <1>2
  <2>. QED
    BY <1>1, <2>1
<1>6. ASSUME NEW k \in K, k < n
      PROVE  k + 1 \in K
  <2>. DEFINE p == n - k
  <2>1. p \in 1 .. n /\ n - (k + 1) = p - 1 /\ k + 1 \in 0 .. n
    BY <1>1, <1>6
  <2>2. Starts(p)
    BY <1>6
  <2>. HIDE DEF p, w
  <2>3. Len(g[p - 1]) <= Len(g[p]) /\ Len(g[p - 1]) \in Nat /\ Len(g[p]) \in Nat
    <3>1. /\ Len(g[p - 1]) \in Nat /\ Len(F[p]) \in Nat
          /\ Len(g[p]) = Len(g[p - 1]) + Len(F[p])
      BY <1>4, <2>1, Zenon
    <3>. DEFINE x == Len(g[p - 1])
                y == Len(F[p])
    <3>. HIDE DEF x, y
    <3>2. x \in Nat /\ y \in Nat /\ Len(g[p]) = x + y
      BY <3>1 DEF x, y
    <3>3. x <= Len(g[p]) /\ x \in Nat /\ Len(g[p]) \in Nat
      BY <3>2
    <3>. QED
      BY <3>3 DEF x
  <2>4. Len(w) \in Nat
    BY <1>1, <1>2 DEF w
  <2>5. ASSUME NEW i \in 1 .. Len(g[p - 1]) PROVE w[i] = g[p - 1][i]
    <3>1. i \in 1 .. Len(g[p])
      BY <2>3
    <3>2. w[i] = g[p][i]
      BY <2>2, <3>1
    <3>3. g[p][i] = g[p - 1][i]
      BY <1>4, <2>1
    <3>. QED
      BY <3>2, <3>3
  <2>6. Starts(p - 1)
    BY <2>2, <2>3, <2>4, <2>5
  <2>. HIDE DEF Starts
  <2>. QED
    BY <2>1, <2>6
<1>7. K \in SUBSET (0 .. n)
  OBVIOUS
<1>. HIDE DEF K
<1>8. K = 0 .. n
  BY <1>1, <1>5, <1>6, <1>7, UpTo
<1>9. ASSUME NEW k \in 1 .. n
      PROVE  /\ Len(g[k - 1]) \in Nat /\ Len(g[k]) = Len(g[k - 1]) + Len(F[k])
             /\ Len(g[k]) <= Len(w)
             /\ \A j \in 1 .. Len(F[k]) : w[Len(g[k - 1]) + j] = F[k][j]
  <2>1. n - k \in K /\ n - (n - k) = k
    BY <1>1, <1>8
  <2>2. Starts(k)
    BY <2>1 DEF K
  <2>. HIDE DEF w
  <2>3. ASSUME NEW j \in 1 .. Len(F[k])
        PROVE  w[Len(g[k - 1]) + j] = F[k][j]
    <3>. DEFINE x == Len(g[k - 1])
                y == Len(F[k])
    <3>0. x \in Nat /\ y \in Nat /\ Len(g[k]) = x + y
      BY <1>4, Zenon
    <3>. HIDE DEF x
    <3>1. x + j \in 1 .. Len(g[k])
      <4>1. j \in 1 .. y
        OBVIOUS
      <4>. HIDE DEF y
      <4>. QED
        BY <3>0, <4>1
    <3>. USE DEF x
    <3>2. w[Len(g[k - 1]) + j] = g[k][Len(g[k - 1]) + j]
      BY <2>2, <3>1
    <3>. QED
      BY <1>4, <3>2
  <2>. QED
    BY <1>4, <2>2, <2>3
<1>. QED
  BY <1>9 DEF n, Placed

(* A text with one more unit in front.                                      *)
LEMMA OneAhead ==
    ASSUME NEW X, NEW x \in X, NEW b \in Seq(X)
    PROVE  /\ <<x>> \o b \in Seq(X) /\ Len(<<x>> \o b) = Len(b) + 1
           /\ (<<x>> \o b)[1] = x
           /\ \A i \in 1 .. Len(b) : (<<x>> \o b)[i + 1] = b[i]
OBVIOUS

(* The text of a unit, and what is left of a text behind its first k.       *)
LEMMA RestOf ==
    ASSUME NEW X, NEW t \in Seq(X), NEW k \in 1 .. Len(t)
    PROVE  SubSeq(t, k, Len(t)) = <<t[k]>> \o SubSeq(t, k + 1, Len(t))
<1>. DEFINE n == Len(t)
            a == SubSeq(t, k, n)
            b == SubSeq(t, k + 1, n)
            c == <<t[k]>> \o b
<1>1. n \in Nat /\ k \in Nat /\ 1 <= k /\ k <= n /\ t[k] \in X
  OBVIOUS
<1>2. a \in Seq(X) /\ Len(a) = n - k + 1 /\ \A i \in 1 .. n - k + 1 : a[i] = t[k + i - 1]
  BY <1>1
<1>3. b \in Seq(X) /\ Len(b) = n - k /\ \A i \in 1 .. n - k : b[i] = t[k + i]
  BY <1>1
<1>. HIDE DEF a, b
<1>4. <<t[k]>> \in Seq(X) /\ Len(<<t[k]>>) = 1 /\ <<t[k]>>[1] = t[k]
  BY <1>1
<1>5. /\ c \in Seq(X) /\ Len(c) = n - k + 1 /\ c[1] = t[k]
      /\ \A i \in 1 .. n - k : c[i + 1] = b[i]
  <2>. DEFINE x == t[k]
  <2>. HIDE DEF b
  <2>1. x \in X /\ b \in Seq(X)
    BY <1>1, <1>3
  <2>. HIDE DEF x
  <2>2. /\ <<x>> \o b \in Seq(X) /\ Len(<<x>> \o b) = Len(b) + 1 /\ (<<x>> \o b)[1] = x
        /\ \A i \in 1 .. Len(b) : (<<x>> \o b)[i + 1] = b[i]
    BY <2>1, OneAhead
  <2>3. c = <<x>> \o b
    BY DEF x
  <2>. HIDE DEF c
  <2>4. Len(b) = n - k /\ Len(b) + 1 = n - k + 1
    BY <1>1, <1>3
  <2>. QED
    BY <2>2, <2>3, <2>4 DEF x
<1>. HIDE DEF c
<1>6. ASSUME NEW i \in 1 .. n - k + 1 PROVE a[i] = c[i]
  <2>1. CASE i = 1
    <3>1. k + 1 - 1 = k /\ 1 \in 1 .. n - k + 1
      BY <1>1
    <3>. QED
      BY <1>2, <1>5, <2>1, <3>1
  <2>2. CASE i # 1
    <3>. DEFINE j == i - 1
    <3>1. j \in 1 .. n - k /\ j + 1 = i /\ k + i - 1 = k + j
      BY <1>1, <2>2
    <3>. HIDE DEF j
    <3>. QED
      BY <1>2, <1>3, <1>5, <3>1
  <2>. QED
    BY <2>1, <2>2
<1>7. a = c
  BY <1>1, <1>2, <1>5, <1>6
<1>. QED
  BY <1>7 DEF a, c, b, n

(* A form is a text of units, and not empty.                                *)
LEMMA FormUnits ==
    ASSUME NEW c \in Codec!Chars, NEW f \in Codec!JsonForms(c)
    PROVE  f \in Seq(Units) /\ Len(f) >= 1
<1>1. \A x, y, z, u, v, w \in Units :
         /\ <<x>> \in Seq(Units) /\ <<x, y>> \in Seq(Units) /\ <<x, y, z>> \in Seq(Units)
         /\ <<x, y, z, u, v, w>> \in Seq(Units)
  OBVIOUS
<1>2. {"q", "bs", "nl", "ctl", "astral", "w", "n", "u", "hexctl", "hexq", "hexw",
       "hexbs", "hexnl", "high", "low"} \subseteq Units
  BY DEF Units
<1>. HIDE DEF Units
<1>3. \/ \E x \in Units : f = <<x>>
      \/ \E x, y \in Units : f = <<x, y>>
      \/ \E x, y, z \in Units : f = <<x, y, z>>
      \/ f = <<"bs", "u", "high", "bs", "u", "low">>
  <2>1. CASE c = "q"
    BY <1>2, <2>1 DEF Codec!JsonForms
  <2>2. CASE c = "bs"
    BY <1>2, <2>2 DEF Codec!JsonForms
  <2>3. CASE c = "nl"
    BY <1>2, <2>3 DEF Codec!JsonForms
  <2>4. CASE c = "ctl"
    BY <1>2, <2>4 DEF Codec!JsonForms
  <2>5. CASE c = "astral"
    BY <1>2, <2>5 DEF Codec!JsonForms
  <2>6. CASE c = "w"
    BY <1>2, <2>6 DEF Codec!JsonForms
  <2>. QED
    BY <2>1, <2>2, <2>3, <2>4, <2>5, <2>6 DEF Codec!Chars
<1>4. f \in Seq(Units)
  <2>1. \A x \in Units : f = <<x>> => f \in Seq(Units)
    BY <1>1, Zenon
  <2>2. \A x, y \in Units : f = <<x, y>> => f \in Seq(Units)
    BY <1>1, Zenon
  <2>3. \A x, y, z \in Units : f = <<x, y, z>> => f \in Seq(Units)
    BY <1>1, Zenon
  <2>4. <<"bs", "u", "high", "bs", "u", "low">> \in Seq(Units)
    <3>1. "bs" \in Units /\ "u" \in Units /\ "high" \in Units /\ "low" \in Units
      BY <1>2
    <3>. QED
      BY <3>1
  <2>. QED
    BY <1>3, <2>1, <2>2, <2>3, <2>4, Zenon
<1>5. Len(f) >= 1
  <2>1. \A x : f = <<x>> => Len(f) = 1
    OBVIOUS
  <2>2. \A x, y : f = <<x, y>> => Len(f) = 2
    OBVIOUS
  <2>3. \A x, y, z : f = <<x, y, z>> => Len(f) = 3
    OBVIOUS
  <2>4. f = <<"bs", "u", "high", "bs", "u", "low">> => Len(f) = 6
    OBVIOUS
  <2>5. Len(f) \in {1, 2, 3, 6}
    BY <1>3, <2>1, <2>2, <2>3, <2>4, Zenon
  <2>6. \A m \in {1, 2, 3, 6} : m >= 1
    OBVIOUS
  <2>. QED
    BY <2>5, <2>6, Zenon
<1>. QED
  BY <1>4, <1>5

(* Whatever JSON text of a content a server sends, the adapter reads the    *)
(* content (unescape_into).                                                 *)
LEMMA UnescapeInverts ==
    ASSUME NEW t \in Seq(Codec!Chars), NEW json \in Codec!JsonTexts(t)
    PROVE  Codec!Unescaped(json) = t
<1>. DEFINE n == Len(t)
            C == Codec!Chars
<1>1. n \in Nat /\ DOMAIN t = 1 .. n /\ \A i \in 1 .. n : t[i] \in C
  OBVIOUS
<1>2. PICK F : /\ json = Codec!FlattenSeq(F) /\ DOMAIN F = DOMAIN t
               /\ F = [i \in DOMAIN t |-> F[i]]
               /\ \A i \in DOMAIN t : F[i] \in Codec!JsonForms(t[i])
  BY DEF Codec!JsonTexts
<1>. HIDE DEF n, C
<1>3. \A i \in 1 .. n : F[i] \in Seq(Units) /\ Len(F[i]) >= 1
  BY <1>1, <1>2, FormUnits DEF C
<1>4. F \in Seq(Seq(Units)) /\ Len(F) = n
  <2>1. F = [i \in 1 .. n |-> F[i]]
    BY <1>1, <1>2
  <2>2. F \in [1 .. n -> Seq(Units)]
    BY <1>3, <2>1
  <2>. QED
    BY <1>1, <2>2
<1>5. PICK g : Joins(g, F, Units) /\ Codec!FlattenSeq(F) = g[n]
  BY <1>4, FlattenIs
<1>. DEFINE at(k) == Len(g[k]) + 1
            m == Len(json)
            f == TextsFrom(json)
<1>6. json = g[n] /\ json \in Seq(Units) /\ m \in Nat
  <2>1. n \in 0 .. n
    BY <1>1
  <2>2. g[n] \in Seq(Units)
    BY <1>4, <1>5, <2>1 DEF Joins
  <2>. QED
    BY <1>2, <1>5, <2>2
<1>7. g[0] = <<>>
  BY <1>5 DEF Joins
<1>8. ASSUME NEW k \in 1 .. n
      PROVE  /\ Len(g[k - 1]) \in Nat /\ Len(g[k]) = Len(g[k - 1]) + Len(F[k])
             /\ Len(g[k]) <= m
             /\ \A j \in 1 .. Len(F[k]) : json[Len(g[k - 1]) + j] = F[k][j]
  <2>1. /\ Len(g[k - 1]) \in Nat /\ Len(g[k]) = Len(g[k - 1]) + Len(F[k])
        /\ Len(g[k]) <= Len(g[Len(F)])
        /\ \A j \in 1 .. Len(F[k]) : g[Len(F)][Len(g[k - 1]) + j] = F[k][j]
    <3>1. k \in 1 .. Len(F) /\ Joins(g, F, Units)
      BY <1>4, <1>5
    <3>. HIDE DEF at, m, f
    <3>2. F \in Seq(Seq(Units))
      BY <1>4
    <3>3. Placed(g, F)
      BY <3>1, <3>2, JoinsPlace
    <3>. QED
      BY <3>1, <3>3 DEF Placed
  <2>2. g[Len(F)] = json /\ Len(g[Len(F)]) = m
    BY <1>4, <1>6
  <2>. QED
    BY <2>1, <2>2, Zenon
<1>9. Reads(f, json)
  BY <1>6, TextsRead
<1>. HIDE DEF f
<1>10. ASSUME NEW k \in 1 .. n
       PROVE  f[at(k - 1)] = <<t[k]>> \o f[at(k)]
  <2>. DEFINE i == at(k - 1)
              u == F[k]
              c == t[k]
  <2>1. Len(g[k - 1]) \in Nat /\ Len(u) \in Nat /\ Len(u) >= 1
    BY <1>3, <1>8
  <2>2. Len(g[k]) = Len(g[k - 1]) + Len(u) /\ Len(g[k]) <= m
    BY <1>8
  <2>3. u \in Codec!JsonForms(c) /\ c \in Codec!Chars
    BY <1>1, <1>2 DEF C
  <2>4. \A j \in 1 .. Len(u) : json[Len(g[k - 1]) + j] = u[j]
    BY <1>8
  <2>. DEFINE a == Len(g[k - 1])
              b == Len(u)
              e == Len(g[k])
  <2>5. a \in Nat /\ b \in Nat /\ b >= 1 /\ e = a + b /\ e <= m /\ i = a + 1
        /\ at(k) = e + 1
    BY <2>1, <2>2
  <2>6. \A j \in 1 .. b : json[a + j] = u[j]
    BY <2>4
  <2>. HIDE DEF a, b, e, at, i, m
  <2>7. i \in 1 .. m /\ i + b <= m + 1 /\ i + b = at(k)
    BY <1>6, <2>5
  <2>8. \A j \in 1 .. b : json[i + j - 1] = u[j]
    <3>1. \A j \in 1 .. b : i + j - 1 = a + j
      BY <2>5
    <3>. QED
      BY <2>6, <3>1
  <2>. HIDE DEF u, c
  <2>9. UnitAt(json, i).n = b /\ UnitAt(json, i).c = <<c>>
    BY <1>6, <2>3, <2>7, <2>8, FormRead DEF b, m
  <2>10. f[i] = UnitAt(json, i).c \o f[i + UnitAt(json, i).n]
    BY <1>9, <2>7 DEF Reads, m
  <2>. QED
    BY <2>7, <2>9, <2>10 DEF i, c
<1>. DEFINE Rest(k) == f[at(k)] = SubSeq(t, k + 1, n)
            K == {k \in 0 .. n : Rest(n - k)}
<1>11. 0 \in K
  <2>1. f[at(n)] = <<>>
    BY <1>6, <1>9 DEF Reads
  <2>2. SubSeq(t, n + 1, n) = <<>>
    BY <1>1
  <2>3. n - 0 = n /\ 0 \in 0 .. n
    BY <1>1
  <2>. QED
    BY <2>1, <2>2, <2>3
<1>12. ASSUME NEW k \in K, k < n
       PROVE  k + 1 \in K
  <2>. DEFINE p == n - k
  <2>1. p \in 1 .. n /\ n - (k + 1) = p - 1 /\ k + 1 \in 0 .. n /\ p - 1 + 1 = p
    BY <1>1, <1>12
  <2>2. f[at(p)] = SubSeq(t, p + 1, n)
    BY <1>12
  <2>. HIDE DEF p, at
  <2>3. f[at(p - 1)] = <<t[p]>> \o SubSeq(t, p + 1, n)
    BY <1>10, <2>1, <2>2
  <2>4. SubSeq(t, p, n) = <<t[p]>> \o SubSeq(t, p + 1, n)
    BY <2>1, RestOf DEF n
  <2>5. Rest(p - 1)
    BY <2>1, <2>3, <2>4
  <2>. HIDE DEF Rest
  <2>. QED
    BY <2>1, <2>5
<1>13. K \in SUBSET (0 .. n)
  OBVIOUS
<1>. HIDE DEF K
<1>14. K = 0 .. n
  BY <1>1, <1>11, <1>12, <1>13, UpTo
<1>15. Rest(0)
  <2>1. n \in K /\ n - n = 0
    BY <1>1, <1>14
  <2>. QED
    BY <2>1 DEF K
<1>16. at(0) = 1 /\ 0 + 1 = 1
  BY <1>7
<1>17. f[1] = SubSeq(t, 1, n)
  BY <1>15, <1>16
<1>18. SubSeq(t, 1, n) = t
  BY DEF n
<1>. QED
  BY <1>17, <1>18, UnescapedIs DEF f

(* What the adapter escapes is a JSON text of the prompt (w_escaped).       *)
LEMMA EscapedIsJson ==
    ASSUME NEW t \in Seq(Codec!Chars)
    PROVE  Codec!IsJsonOf(Codec!Escaped(t), t)
<1>. DEFINE f == [i \in DOMAIN t |-> Codec!EscapedChar(t[i])]
            forms == UNION {Codec!JsonForms(t[i]) : i \in DOMAIN t}
<1>1. ASSUME NEW i \in DOMAIN t
      PROVE  Codec!EscapedChar(t[i]) \in Codec!JsonForms(t[i])
  <2>. DEFINE c == t[i]
  <2>1. c \in Codec!Chars
    OBVIOUS
  <2>. HIDE DEF c
  <2>2. Codec!EscapedChar(c) \in Codec!JsonForms(c)
    BY <2>1 DEF Codec!Chars, Codec!EscapedChar, Codec!EscapedCharLax, Codec!JsonForms
  <2>. QED
    BY <2>2 DEF c
<1>2. f \in [DOMAIN t -> forms] /\ \A i \in DOMAIN t : f[i] \in Codec!JsonForms(t[i])
  BY <1>1
<1>3. Codec!Escaped(t) = Codec!FlattenSeq(f)
  BY DEF Codec!Escaped
<1>. HIDE DEF f
<1>. QED
  BY <1>2, <1>3 DEF Codec!IsJsonOf, Codec!JsonTexts

(* The inductive invariant of the remote call: while a reply is decoded     *)
(* nothing has gone over the wire.                                          *)
WireInv ==
    /\ stage \in {"prefilled", "decode"} => wire = NoWire
    /\ RemoteVerbatim

(* The reply is the content, or a part of it that is marked as cut.         *)
LEMMA FittingCuts ==
    ASSUME NEW X, NEW t \in Seq(X), NEW cap \in Nat \ {0}
    PROVE  /\ Len(t) < cap => Fitting(t, cap) = t
           /\ Len(t) >= cap => IsStrictPrefix(Fitting(t, cap), t)
<1>1. Len(t) < cap => Fitting(t, cap) = t
  BY DEF Fitting
<1>2. ASSUME Len(t) >= cap
      PROVE  IsStrictPrefix(Fitting(t, cap), t)
  <2>. DEFINE p == SubSeq(t, 1, cap - 1)
  <2>1. Fitting(t, cap) = p
    BY <1>2 DEF Fitting, Upto
  <2>2. Len(p) = cap - 1 /\ Len(p) <= Len(t) /\ p = SubSeq(t, 1, Len(p)) /\ p \in Seq(X)
    BY <1>2
  <2>3. p # t
    BY <1>2, <2>2
  <2>. HIDE DEF p
  <2>4. IsPrefix(p, t)
    BY <2>2 DEF IsPrefix
  <2>. QED
    BY <2>1, <2>3, <2>4 DEF IsStrictPrefix
<1>. QED
  BY <1>1, <1>2

(* A call of the endpoint (spg_remote_generate).                            *)
LEMMA RemoteKeeps ==
    ASSUME NEW r \in Requests, GenerateRemote(r)
    PROVE  WireInv'
<1>1. stage' = "done" /\ req' = r
  BY DEF GenerateRemote, Begin
<1>2. CASE wire' = NoWire
  BY <1>1, <1>2 DEF WireInv, RemoteVerbatim
<1>3. CASE wire' # NoWire
  <2>1. PICK t \in RemoteReplies, why \in {"stop", "length", "other"} :
           \E json \in Codec!JsonTexts(t) :
              /\ wire' = [sent |-> Codec!Escaped(r.text), content |-> t]
              /\ res' = ParseResponse(json, why, r.cap)
    BY <1>3, Zenon DEF GenerateRemote
  <2>2. PICK json \in Codec!JsonTexts(t) :
              /\ wire' = [sent |-> Codec!Escaped(r.text), content |-> t]
              /\ res' = ParseResponse(json, why, r.cap)
    BY <2>1
  <2>3. /\ t \in Seq(Codec!Chars) /\ r.text \in Seq(Codec!Chars)
        /\ r.cap \in Nat \ {0} /\ Len(t) \in Nat
    BY RemoteAssumption
  <2>4. Codec!Unescaped(json) = t
    BY <2>3, UnescapeInverts
  <2>5. Codec!IsJsonOf(Codec!Escaped(r.text), r.text)
    BY <2>3, EscapedIsJson
  <2>6. /\ res'.out = Fitting(t, r.cap) /\ res'.trunc = (Len(t) >= r.cap)
        /\ res'.st = IF Len(t) >= r.cap THEN "limit" ELSE "ok"
    BY <2>2, <2>4 DEF ParseResponse
  <2>7. /\ Len(t) < r.cap => Fitting(t, r.cap) = t
        /\ Len(t) >= r.cap => IsStrictPrefix(Fitting(t, r.cap), t)
    BY <2>3, FittingCuts
  <2>8. wire'.sent = Codec!Escaped(r.text) /\ wire'.content = t
    BY <2>2
  <2>9. CASE Len(t) >= r.cap
    <3>1. res'.trunc /\ res'.st = "limit" /\ IsStrictPrefix(res'.out, t)
      BY <2>6, <2>7, <2>9
    <3>. QED
      BY <1>1, <2>5, <2>8, <3>1 DEF WireInv, RemoteVerbatim
  <2>10. CASE ~(Len(t) >= r.cap)
    <3>1. ~res'.trunc /\ res'.out = t
      <4>1. Len(t) < r.cap
        BY <2>3, <2>10
      <4>. QED
        BY <2>6, <2>7, <2>10, <4>1, Zenon
    <3>. QED
      BY <1>1, <2>5, <2>8, <3>1 DEF WireInv, RemoteVerbatim
  <2>. QED
    BY <2>9, <2>10
<1>. QED
  BY <1>2, <1>3

(* The decoder works on a prompt of the engine, and sends nothing.          *)
LEMMA DecoderSendsNothing ==
    ASSUME \/ EmitReasonPrefix \/ SkipReason \/ EmitOpening \/ ChoiceStep
           \/ ChoiceEnd \/ DecodeStringSlot \/ DecodeNumberSlot
           \/ Segment \/ FreeStep
    PROVE  stage \in {"prefilled", "decode"} /\ wire' = wire
<1>1. CASE EmitReasonPrefix \/ SkipReason \/ EmitOpening
  BY <1>1 DEF EmitReasonPrefix, SkipReason, EmitOpening, At
<1>2. CASE ChoiceStep \/ ChoiceEnd
  BY <1>2 DEF ChoiceStep, ChoiceEnd, At
<1>3. CASE DecodeStringSlot \/ DecodeNumberSlot
  BY <1>3 DEF DecodeStringSlot, DecodeNumberSlot, SlotStep, At
<1>4. CASE Segment \/ FreeStep
  BY <1>4 DEF Segment, FreeStep, At
<1>. QED
  BY <1>1, <1>2, <1>3, <1>4

(* Every step of the adapter keeps the wire and the result together.        *)
LEMMA WireNext ==
    ASSUME WireInv, [ModelNext]_modelVars
    PROVE  WireInv'
<1>1. ASSUME wire' = NoWire PROVE WireInv'
  BY <1>1 DEF WireInv, RemoteVerbatim
<1>2. ASSUME stage' \in {"none", "idle"} PROVE WireInv'
  BY <1>2 DEF WireInv, RemoteVerbatim
<1>3. CASE UNCHANGED modelVars
  BY <1>3 DEF modelVars, WireInv, RemoteVerbatim
<1>4. CASE \E c \in Configs : AdapterInit(c) \/ AdapterInitFails(c)
  BY <1>2, <1>4 DEF AdapterInit, AdapterInitFails
<1>5. CASE AdapterDestroy \/ ParseReply
  BY <1>2, <1>5 DEF AdapterDestroy, ParseReply
<1>6. CASE \E r \in Requests : GenerateNothing(r) \/ GenerateGeist(r) \/ GenerateFake(r)
  BY <1>1, <1>6 DEF GenerateNothing, GenerateGeist, GenerateFake
<1>7. CASE \E r \in Requests : GenerateRemote(r)
  BY <1>7, RemoteKeeps
<1>8. CASE \/ EmitReasonPrefix \/ SkipReason \/ EmitOpening \/ ChoiceStep
           \/ ChoiceEnd \/ DecodeStringSlot \/ DecodeNumberSlot
           \/ Segment \/ FreeStep
  <2>1. wire' = NoWire
    BY <1>8, DecoderSendsNothing DEF WireInv
  <2>. QED
    BY <1>1, <2>1
<1>. QED
  BY <1>3, <1>4, <1>5, <1>6, <1>7, <1>8 DEF ModelNext

(* For every prompt, every content in every JSON form a server may choose   *)
(* and every capacity of the output: the endpoint is sent a JSON text of    *)
(* the prompt, and the caller gets the content as it is, or a beginning of  *)
(* it that is marked as cut (spg_remote_build_request,                      *)
(* spg_remote_parse_response).                                              *)
THEOREM RemoteKept == ModelSpec => []RemoteVerbatim
<1>1. ModelInit => WireInv
  BY DEF ModelInit, WireInv, RemoteVerbatim
<1>2. WireInv /\ [ModelNext]_modelVars => WireInv'
  BY WireNext
<1>3. WireInv => RemoteVerbatim
  BY DEF WireInv
<1>. QED
  BY <1>1, <1>2, <1>3, PTL DEF ModelSpec

=============================================================================
