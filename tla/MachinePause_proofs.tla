------------------------ MODULE MachinePause_proofs -------------------------
(***************************************************************************)
(* Proofs about MachinePause, for every profile of processes, every size of *)
(* the ledger and every host.                                               *)
(***************************************************************************)
EXTENDS MachinePause, FiniteSetTheorems, SequenceTheorems, TLAPS

(* A guardian as it is kept in `guards'. *)
GuardSet ==
    [pid : Pids, id : 0 .. host.ids, holds : SUBSET Nat,
     st : {"waiting", "armed", "dismissed", "gone"}]

EntrySet == [pid : Pids, id : 0 .. host.ids, guard : 0 .. Len(guards)]

(* What the signal in progress looks like where the agent is. *)
Phase ==
    /\ pc = "guard" => Entries(op.pid, op.id) # {} /\ op.kind = "pause"
    /\ op.kind # "none" => op.pid \in Pids
    /\ pc \in {"guard", "check", "kill"} => ~op.ok
    /\ pc \in {"check", "kill"} => op.kind # "none"
    /\ pc = "settle" => op.kind \in {"pause", "resume"}
    /\ pc = "dismiss" => op.kind = "release"

TInv ==
    /\ TypeOK /\ Phase
    /\ IsFiniteSet(ledger) /\ guards \in Seq(GuardSet)

LEMMA HostTypes ==
    ASSUME TypeOK
    PROVE  /\ host.ids \in Nat /\ host.ops \in Nat /\ host.kills \in Nat
           /\ host.runs \in Nat \ {0} /\ host.foreign \subseteq Pids
BY PauseAssumption DEF TypeOK

-----------------------------------------------------------------------------
(* Sequences of guardians.                                                  *)

(* Changing the state of some guardians leaves everything else of them.     *)
SameGuards(g) ==
    /\ DOMAIN g = DOMAIN guards /\ Len(g) = Len(guards)
    /\ g \in Seq(GuardSet)
    /\ \A i \in DOMAIN guards : /\ g[i].pid = guards[i].pid
                                /\ g[i].id = guards[i].id
                                /\ g[i].holds = guards[i].holds

LEMMA GuardFacts ==
    ASSUME guards \in Seq(GuardSet)
    PROVE  /\ DOMAIN guards = 1 .. Len(guards) /\ Len(guards) \in Nat
           /\ \A i \in DOMAIN guards : guards[i] \in GuardSet
OBVIOUS

LEMMA OneGuard ==
    ASSUME guards \in Seq(GuardSet), NEW i \in DOMAIN guards,
           NEW st \in {"waiting", "armed", "dismissed", "gone"},
           NEW g, g = [guards EXCEPT ![i].st = st]
    PROVE  /\ SameGuards(g) /\ g[i].st = st
           /\ \A j \in DOMAIN guards \ {i} : g[j] = guards[j]
<1>1. g = [guards EXCEPT ![i] = [guards[i] EXCEPT !.st = st]]
  OBVIOUS
<1>. DEFINE r == [guards[i] EXCEPT !.st = st]
<1>2. /\ r \in GuardSet /\ r.st = st /\ r.pid = guards[i].pid
      /\ r.id = guards[i].id /\ r.holds = guards[i].holds
  BY GuardFacts DEF GuardSet
<1>3. g = [guards EXCEPT ![i] = r]
  BY <1>1
<1>. HIDE DEF r
<1>4. /\ g \in Seq(GuardSet) /\ Len(g) = Len(guards) /\ g[i] = r
      /\ \A j \in DOMAIN guards \ {i} : g[j] = guards[j]
      /\ DOMAIN g = DOMAIN guards
  BY <1>2, <1>3
<1>. QED
  BY <1>2, <1>4 DEF SameGuards

(* The guardians of the entries that are forgotten are dismissed. *)
Dismissed(gone) ==
    [i \in DOMAIN guards |-> IF \E e \in gone : e.guard = i
                               THEN [guards[i] EXCEPT !.st = "dismissed"]
                               ELSE guards[i]]

LEMMA DismissedType ==
    ASSUME guards \in Seq(GuardSet), NEW gone
    PROVE  /\ SameGuards(Dismissed(gone))
           /\ \A i \in DOMAIN guards :
                 Dismissed(gone)[i].st = IF \E e \in gone : e.guard = i
                                           THEN "dismissed" ELSE guards[i].st
<1>. DEFINE r(i) == IF \E e \in gone : e.guard = i
                      THEN [guards[i] EXCEPT !.st = "dismissed"]
                      ELSE guards[i]
            n == Len(guards)
<1>1. n \in Nat /\ DOMAIN guards = 1 .. n
      /\ \A i \in 1 .. n : guards[i] \in GuardSet
  BY GuardFacts
<1>2. \A i \in 1 .. n :
         /\ r(i) \in GuardSet /\ r(i).pid = guards[i].pid
         /\ r(i).id = guards[i].id /\ r(i).holds = guards[i].holds
         /\ r(i).st = IF \E e \in gone : e.guard = i
                        THEN "dismissed" ELSE guards[i].st
  BY <1>1 DEF GuardSet
<1>3. Dismissed(gone) = [i \in 1 .. n |-> r(i)]
  BY <1>1 DEF Dismissed
<1>. HIDE DEF r, n
<1>4. /\ [i \in 1 .. n |-> r(i)] \in Seq(GuardSet)
      /\ Len([i \in 1 .. n |-> r(i)]) = n
      /\ DOMAIN [i \in 1 .. n |-> r(i)] = 1 .. n
  BY <1>1, <1>2
<1>. QED
  BY <1>1, <1>2, <1>3, <1>4 DEF SameGuards, n

(* The types of guardians do not depend on their states. *)
GuardsTyped ==
    /\ guards \in Seq(GuardSet)
    /\ \A i \in DOMAIN guards : guards[i].holds \subseteq 1 .. i - 1

LEMMA TypedGuards == TInv => GuardsTyped
BY DEF TInv, TypeOK, GuardsTyped

LEMMA SameGuardsTyped ==
    ASSUME GuardsTyped, SameGuards(guards'), host' = host
    PROVE  GuardsTyped' /\ Len(guards)' = Len(guards)
<1>1. GuardSet' = GuardSet
  BY DEF GuardSet
<1>. QED
  BY <1>1 DEF GuardsTyped, SameGuards

-----------------------------------------------------------------------------
(* What ledger_forget leaves.                                               *)
LEMMA ForgetStep ==
    ASSUME TInv, NEW gone \in SUBSET ledger, NEW next, Forget(gone, next)
    PROVE  /\ ledger' \subseteq ledger
           /\ SameGuards(guards')
           /\ \/ /\ pc' = "dead" /\ ledger' = {} /\ guards' = guards
              \/ /\ pc' = next /\ ledger' = ledger \ gone
                 /\ \A e \in gone : e.guard # 0 => Alive(e.guard)
                 /\ \A i \in DOMAIN guards :
                       guards'[i].st = IF \E e \in gone : e.guard = i
                                         THEN "dismissed" ELSE guards[i].st
<1>1. CASE Unread(gone)
  BY <1>1 DEF Forget, SameGuards, TInv
<1>2. CASE ~Unread(gone)
  <2>1. guards' = Dismissed(gone) /\ pc' = next /\ ledger' = ledger \ gone
    BY <1>2 DEF Forget, Dismissed
  <2>2. SameGuards(guards') /\ \A i \in DOMAIN guards :
           guards'[i].st = IF \E e \in gone : e.guard = i
                             THEN "dismissed" ELSE guards[i].st
    BY <2>1, DismissedType DEF TInv
  <2>3. \A e \in gone : e.guard # 0 => Alive(e.guard)
    BY <1>2 DEF Unread
  <2>. QED
    BY <2>1, <2>2, <2>3
<1>. QED
  BY <1>1, <1>2

-----------------------------------------------------------------------------
(* Type correctness, part by part.                                          *)
ProcTyped ==
    /\ proc \in [Pids -> [id : 0 .. host.ids, st : States]]
    /\ ids \in 0 .. host.ids

AgentTyped ==
    /\ pc \in {"exited", "dead", "recover", "idle", "exec", "guard", "check",
               "kill", "settle", "record", "release", "dismiss"}
    /\ op \in [kind : {"none", "pause", "resume", "release"},
               pid : Pids \cup {0}, id : 0 .. host.ids, ok : BOOLEAN]
    /\ snapshot \in [Pids -> 0 .. host.ids]

LedgerTyped ==
    /\ ledger \subseteq EntrySet /\ IsFiniteSet(ledger)
    /\ Cardinality(ledger) <= MaxPaused

RestTyped ==
    /\ host \in Hosts /\ child \subseteq 0 .. Len(guards)
    /\ ops \in 0 .. host.ops /\ runs \in 0 .. host.runs
    /\ kills \in 0 .. host.kills

LEMMA TypeParts ==
    TInv <=> /\ ProcTyped /\ AgentTyped /\ LedgerTyped /\ GuardsTyped
             /\ RestTyped /\ Phase
<1>1. ASSUME GuardsTyped
      PROVE  \A i \in DOMAIN guards :
                guards[i] \in [pid : Pids, id : 0 .. host.ids,
                              st : {"waiting", "armed", "dismissed", "gone"},
                              holds : SUBSET (1 .. i - 1)]
  <2>. SUFFICES ASSUME NEW i \in DOMAIN guards
                PROVE  guards[i] \in
                          [pid : Pids, id : 0 .. host.ids,
                           st : {"waiting", "armed", "dismissed", "gone"},
                           holds : SUBSET (1 .. i - 1)]
    OBVIOUS
  <2>1. guards[i] \in GuardSet /\ guards[i].holds \in SUBSET (1 .. i - 1)
    BY <1>1, GuardFacts DEF GuardsTyped
  <2>. QED
    BY <2>1, Zenon DEF GuardSet
<1>2. ASSUME TInv PROVE GuardsTyped
  BY <1>2, TypedGuards
<1>. QED
  BY <1>1, <1>2 DEF TInv, TypeOK, ProcTyped, AgentTyped, LedgerTyped,
                    GuardsTyped, RestTyped, EntrySet

LEMMA TypePartsNext ==
    ASSUME ProcTyped', AgentTyped', LedgerTyped', GuardsTyped', RestTyped',
           Phase'
    PROVE  TInv'
BY TypeParts, PTL

(* A set of at most one element more. *)
LEMMA OneMore ==
    ASSUME NEW S, NEW x, IsFiniteSet(S)
    PROVE  /\ IsFiniteSet(S \cup {x})
           /\ Cardinality(S) \in Nat /\ Cardinality(S \cup {x}) \in Nat
           /\ Cardinality(S \cup {x}) <= Cardinality(S) + 1
<1>1. /\ IsFiniteSet(S \cup {x})
      /\ Cardinality(S \cup {x}) = IF x \in S THEN Cardinality(S)
                                   ELSE Cardinality(S) + 1
  BY FS_AddElement
<1>2. Cardinality(S) \in Nat
  BY FS_CardinalityType
<1>. QED
  BY <1>1, <1>2

(* A ledger only shrinks between two pauses. *)
LEMMA LedgerShrinks ==
    ASSUME LedgerTyped, ledger' \subseteq ledger, host' = host,
           Len(guards)' = Len(guards)
    PROVE  LedgerTyped'
<1>1. EntrySet' = EntrySet
  BY DEF EntrySet
<1>2. IsFiniteSet(ledger') /\ Cardinality(ledger') <= Cardinality(ledger)
      /\ Cardinality(ledger') \in Nat /\ Cardinality(ledger) \in Nat
  BY FS_Subset, FS_CardinalityType DEF LedgerTyped
<1>. QED
  BY <1>1, <1>2, PauseAssumption DEF LedgerTyped

(* What stays when only the agent and its ledger move. *)
LEMMA ForgetTypes ==
    ASSUME TInv, NEW p \in Pids \cup {0}, NEW id, NEW next,
           Forget(Entries(p, id), next), host' = host, child' = child,
           UNCHANGED <<ops, runs, kills>>
    PROVE  LedgerTyped' /\ GuardsTyped' /\ RestTyped' /\ pc' \in {"dead", next}
<1>1. Entries(p, id) \in SUBSET ledger
  BY DEF Entries
<1>2. ledger' \subseteq ledger /\ SameGuards(guards') /\ pc' \in {"dead", next}
  BY <1>1, ForgetStep
<1>3. LedgerTyped /\ GuardsTyped /\ RestTyped
  BY TypeParts
<1>4. GuardsTyped' /\ Len(guards)' = Len(guards)
  BY <1>2, <1>3, SameGuardsTyped
<1>5. LedgerTyped'
  BY <1>2, <1>3, <1>4, LedgerShrinks
<1>. QED
  BY <1>2, <1>3, <1>4, <1>5 DEF RestTyped

LEMMA HostSteps ==
    ASSUME TInv, Spawn \/ Exit \/ UserStop \/ UserContinue, host' = host
    PROVE  TInv'
<1>1. /\ ProcTyped /\ AgentTyped /\ LedgerTyped /\ GuardsTyped
      /\ RestTyped /\ Phase
  BY TypeParts
<1>2. UNCHANGED AgentVars
  BY DEF Spawn, Exit, UserStop, UserContinue
<1>3. host.ids \in Nat
  BY HostTypes DEF TInv
<1>4. ProcTyped'
  <2>1. CASE Spawn
    <3>1. PICK p \in Pids :
              proc' = [proc EXCEPT ![p] = [id |-> ids + 1, st |-> "running"]]
      BY <2>1 DEF Spawn
    <3>2. ids' = ids + 1 /\ ids + 1 \in 0 .. host.ids
      BY <1>1, <1>3, <2>1 DEF Spawn, ProcTyped
    <3>3. [id |-> ids + 1, st |-> "running"] \in
              [id : 0 .. host.ids, st : States]
      BY <3>2 DEF States
    <3>. QED
      BY <1>1, <3>1, <3>2, <3>3 DEF ProcTyped
  <2>2. CASE Exit \/ UserStop \/ UserContinue
    BY <1>1, <2>2 DEF Exit, UserStop, UserContinue, Continued, ProcTyped, States
  <2>. QED
    BY <2>1, <2>2
<1>5. AgentTyped' /\ LedgerTyped' /\ GuardsTyped' /\ RestTyped' /\ Phase'
  BY <1>1, <1>2 DEF AgentVars, past, AgentTyped, LedgerTyped, GuardsTyped,
       RestTyped, Phase, EntrySet, GuardSet, Entries
<1>. QED
  BY <1>4, <1>5, TypePartsNext

LEMMA GuardianSteps ==
    ASSUME TInv, Guardian \/ GuardKilled, host' = host
    PROVE  TInv' /\ SameGuards(guards')
<1>1. /\ ProcTyped /\ AgentTyped /\ LedgerTyped /\ GuardsTyped
      /\ RestTyped /\ Phase
  BY TypeParts
<1>2. PICK i \in DOMAIN guards, st \in {"armed", "gone"} :
         guards' = [guards EXCEPT ![i].st = st]
  BY DEF Guardian, GuardKilled, GuardWakes, GuardContinues, GuardStandsDown
<1>3. SameGuards(guards')
  BY <1>1, <1>2, OneGuard DEF GuardsTyped
<1>4. GuardsTyped' /\ Len(guards)' = Len(guards)
  BY <1>1, <1>3, SameGuardsTyped
<1>5. UNCHANGED <<ids, pc, op, snapshot, ledger, child, ops, runs>>
  BY DEF Guardian, GuardKilled, past
<1>6. ProcTyped'
  <2>1. proc' = proc \/ \E p \in Pids : proc' = Continued(p)
    <3>1. \A j \in DOMAIN guards : guards[j].pid \in Pids
      BY <1>1, GuardFacts DEF GuardsTyped, GuardSet
    <3>. QED
      BY <3>1, Zenon DEF Guardian, GuardKilled, GuardWakes, GuardContinues,
                         GuardStandsDown
  <2>. QED
    BY <1>1, <1>5, <2>1 DEF Continued, ProcTyped, States
<1>7. kills' \in 0 .. host.kills
  <2>1. kills \in 0 .. host.kills /\ host.kills \in Nat
    BY <1>1, HostTypes DEF RestTyped, TInv
  <2>2. kills' = kills \/ (kills' = kills + 1 /\ kills < host.kills)
    BY DEF Guardian, GuardKilled
  <2>. QED
    BY <2>1, <2>2
<1>8. AgentTyped' /\ RestTyped' /\ Phase' /\ LedgerTyped'
  BY <1>1, <1>4, <1>5, <1>7, LedgerShrinks
     DEF AgentTyped, RestTyped, Phase, Entries
<1>. QED
  BY <1>3, <1>4, <1>6, <1>8, TypePartsNext

(* The ledger takes one entry for a pause that goes on. *)
LEMMA ChooseTypes == TInv /\ Choose /\ host' = host => TInv'
<1>. SUFFICES ASSUME TInv, Choose, host' = host PROVE TInv'
  OBVIOUS
<1>1. /\ ProcTyped /\ AgentTyped /\ LedgerTyped /\ GuardsTyped
      /\ RestTyped /\ Phase
  BY TypeParts
<1>2. /\ UNCHANGED <<proc, ids, snapshot, guards, child, runs, kills>>
      /\ ops < host.ops /\ ops' = ops + 1
  BY DEF Choose
<1>3. PICK p \in Pids, kind \in {"pause", "resume"} :
         /\ op' = [kind |-> kind, pid |-> p, id |-> snapshot[p], ok |-> FALSE]
         /\ \/ pc' \in {"record", "check"} /\ UNCHANGED ledger
            \/ /\ kind = "pause" /\ pc' = "guard" /\ ~LedgerFull
               /\ ledger' = ledger \cup {[pid |-> p, id |-> snapshot[p],
                                          guard |-> 0]}
  BY DEF Choose
<1>. DEFINE e == [pid |-> p, id |-> snapshot[p], guard |-> 0]
<1>4. e \in EntrySet
  BY <1>1, GuardFacts DEF AgentTyped, EntrySet, GuardsTyped
<1>5. AgentTyped'
  BY <1>1, <1>2, <1>3 DEF AgentTyped
<1>6. LedgerTyped'
  <2>1. EntrySet' = EntrySet
    BY <1>2 DEF EntrySet
  <2>2. CASE UNCHANGED ledger
    BY <1>1, <2>1, <2>2 DEF LedgerTyped
  <2>3. CASE ~LedgerFull /\ ledger' = ledger \cup {e}
    <3>1. /\ IsFiniteSet(ledger') /\ Cardinality(ledger) \in Nat
          /\ Cardinality(ledger') <= Cardinality(ledger) + 1
      BY <1>1, <2>3, OneMore DEF LedgerTyped
    <3>2. Cardinality(ledger') <= MaxPaused
      <4>1. Cardinality(ledger') \in Nat
        BY <3>1, FS_CardinalityType
      <4>. QED
        BY <2>3, <3>1, <4>1, PauseAssumption DEF LedgerFull
    <3>. QED
      BY <1>1, <1>4, <2>1, <2>3, <3>1, <3>2 DEF LedgerTyped
  <2>. QED
    BY <1>3, <2>2, <2>3
<1>7. RestTyped' /\ ProcTyped' /\ GuardsTyped'
  <2>1. ops + 1 \in 0 .. host.ops
    BY <1>1, <1>2, HostTypes DEF RestTyped, TInv
  <2>. QED
    BY <1>1, <1>2, <2>1 DEF RestTyped, ProcTyped, GuardsTyped, GuardSet
<1>8. Phase'
  <2>1. CASE pc' \in {"record", "check"}
    BY <1>3, <2>1 DEF Phase
  <2>2. CASE kind = "pause" /\ pc' = "guard" /\ ledger' = ledger \cup {e}
    <3>1. e.pid = op'.pid /\ e.id = op'.id /\ e \in ledger'
      BY <1>3, <2>2
    <3>. QED
      BY <1>3, <2>2, <3>1 DEF Phase, Entries
  <2>. QED
    BY <1>3, <2>1, <2>2
<1>. QED
  BY <1>1, <1>5, <1>6, <1>7, <1>8, TypePartsNext

(* The entry of the pause gets its guardian, whose number is the next one. *)
LEMMA SpawnGuardianTypes == TInv /\ SpawnGuardian /\ host' = host => TInv'
<1>. SUFFICES ASSUME TInv, SpawnGuardian, host' = host PROVE TInv'
  OBVIOUS
<1>1. /\ ProcTyped /\ AgentTyped /\ LedgerTyped /\ GuardsTyped
      /\ RestTyped /\ Phase
  BY TypeParts
<1>2. /\ UNCHANGED <<proc, ids, op, snapshot, child, ops, runs, kills>>
      /\ pc = "guard"
  BY DEF SpawnGuardian
<1>3. op.pid \in Pids /\ op.id \in 0 .. host.ids /\ op.kind = "pause" /\ ~op.ok
      /\ Entries(op.pid, op.id) # {}
  BY <1>1, <1>2 DEF AgentTyped, Phase
<1>4. CASE Forget(Entries(op.pid, op.id), "record")
  <2>1. LedgerTyped' /\ GuardsTyped' /\ RestTyped' /\ pc' \in {"dead", "record"}
    BY <1>2, <1>3, <1>4, ForgetTypes
  <2>2. AgentTyped' /\ ProcTyped' /\ Phase'
    BY <1>1, <1>2, <2>1 DEF AgentTyped, ProcTyped, Phase
  <2>. QED
    BY <2>1, <2>2, TypePartsNext
<1>5. ASSUME guards' = Append(guards,
                [pid |-> op.pid, id |-> op.id, st |-> "waiting",
                 holds |-> {e.guard : e \in ledger} \ {0}]),
             ledger' = (ledger \ Entries(op.pid, op.id)) \cup
                {[pid |-> op.pid, id |-> op.id, guard |-> Len(guards) + 1]},
             pc' = "check"
      PROVE  TInv'
  <2>. DEFINE n == Len(guards)
              h == {e.guard : e \in ledger} \ {0}
              g == [pid |-> op.pid, id |-> op.id, st |-> "waiting",
                    holds |-> h]
              x == [pid |-> op.pid, id |-> op.id, guard |-> n + 1]
              rest == ledger \ Entries(op.pid, op.id)
  <2>1. n \in Nat /\ DOMAIN guards = 1 .. n /\ guards \in Seq(GuardSet)
    BY <1>1, GuardFacts DEF GuardsTyped
  <2>2. h \subseteq 1 .. n
    <3>1. \A e \in ledger : e.guard \in 0 .. n
      BY <1>1, <2>1 DEF LedgerTyped, EntrySet
    <3>. QED
      BY <3>1, <2>1
  <2>. HIDE DEF n, h
  <2>3. h \subseteq Nat
    BY <2>1, <2>2
  <2>4. g \in GuardSet /\ g.holds = h
    BY <1>3, <2>3 DEF GuardSet
  <2>. HIDE DEF g
  <2>5. guards' = Append(guards, g)
    BY <1>5 DEF g, h
  <2>6. /\ guards' \in Seq(GuardSet) /\ Len(guards') = n + 1
        /\ DOMAIN guards' = 1 .. n + 1 /\ guards'[n + 1] = g
        /\ \A i \in 1 .. n : guards'[i] = guards[i]
    BY <2>1, <2>4, <2>5 DEF n
  <2>7. GuardsTyped'
    <3>1. GuardSet' = GuardSet
      BY DEF GuardSet
    <3>2. ASSUME NEW i \in 1 .. n + 1
          PROVE  guards'[i].holds \subseteq 1 .. i - 1
      <4>1. CASE i = n + 1
        <5>1. i - 1 = n
          BY <2>1, <4>1
        <5>. QED
          BY <2>2, <2>4, <2>6, <4>1, <5>1
      <4>2. CASE i \in 1 .. n
        BY <1>1, <2>1, <2>6, <4>2 DEF GuardsTyped
      <4>. QED
        BY <2>1, <3>2, <4>1, <4>2
    <3>. QED
      BY <2>6, <3>1, <3>2 DEF GuardsTyped
  <2>8. EntrySet \subseteq EntrySet' /\ x \in EntrySet'
    BY <1>3, <2>1, <2>6 DEF EntrySet, n
  <2>9. LedgerTyped'
    <3>1. rest \in SUBSET ledger /\ rest # ledger
      BY <1>3 DEF Entries
    <3>2. /\ IsFiniteSet(rest) /\ Cardinality(rest) \in Nat
          /\ Cardinality(ledger) \in Nat
          /\ Cardinality(rest) <= Cardinality(ledger)
          /\ Cardinality(rest) # Cardinality(ledger)
      BY <1>1, <3>1, FS_Subset, FS_CardinalityType DEF LedgerTyped
    <3>3. ledger' = rest \cup {x}
      BY <1>5 DEF n
    <3>. HIDE DEF rest, x
    <3>4. /\ IsFiniteSet(ledger')
          /\ Cardinality(ledger') <= Cardinality(rest) + 1
      BY <3>2, <3>3, OneMore
    <3>5. Cardinality(ledger') \in Nat
      BY <3>4, FS_CardinalityType
    <3>6. ledger' \subseteq EntrySet'
      BY <1>1, <2>8, <3>1, <3>3 DEF LedgerTyped
    <3>. QED
      BY <1>1, <3>2, <3>4, <3>5, <3>6, PauseAssumption DEF LedgerTyped
  <2>10. RestTyped'
    BY <1>1, <1>2, <2>1, <2>6 DEF RestTyped, n
  <2>11. AgentTyped' /\ ProcTyped' /\ Phase'
    BY <1>1, <1>2, <1>3, <1>5 DEF AgentTyped, ProcTyped, Phase
  <2>. QED
    BY <2>7, <2>9, <2>10, <2>11, TypePartsNext
<1>. QED
  BY <1>4, <1>5 DEF SpawnGuardian

(* The actions after which an entry may be forgotten. *)
LEMMA ForgettingTypes ==
    TInv /\ (Settle \/ DismissReleased) /\ host' = host => TInv'
<1>. SUFFICES ASSUME TInv, Settle \/ DismissReleased, host' = host PROVE TInv'
  OBVIOUS
<1>1. /\ ProcTyped /\ AgentTyped /\ LedgerTyped /\ GuardsTyped
      /\ RestTyped /\ Phase
  BY TypeParts
<1>2. UNCHANGED <<proc, ids, op, snapshot, child, ops, runs, kills>>
  BY DEF Settle, DismissReleased
<1>3. LedgerTyped' /\ GuardsTyped' /\ RestTyped'
      /\ pc' \in {"dead", "record", "release"}
  <2>1. CASE \E next \in {"record", "release"} :
                Forget(Entries(op.pid, op.id), next)
    <3>1. PICK next \in {"record", "release"} :
                Forget(Entries(op.pid, op.id), next)
      BY <2>1
    <3>2. op.pid \in Pids \cup {0}
      BY <1>1 DEF AgentTyped
    <3>. QED
      BY <1>2, <3>1, <3>2, ForgetTypes
  <2>2. CASE pc' = "record" /\ UNCHANGED <<ledger, guards>>
    BY <1>1, <1>2, <2>2 DEF LedgerTyped, GuardsTyped, RestTyped, EntrySet, GuardSet
  <2>. QED
    BY <2>1, <2>2 DEF Settle, DismissReleased
<1>4. ProcTyped' /\ AgentTyped' /\ Phase'
  BY <1>1, <1>2, <1>3 DEF ProcTyped, AgentTyped, Phase
<1>. QED
  BY <1>3, <1>4, TypePartsNext

(* The actions that leave ledger and guardians alone. *)
LEMMA PlainTypes ==
    TInv /\ host' = host
    /\ \/ CheckIdentity \/ Kill \/ RecordAction \/ ExecStart \/ LargeRecord \/ ExecDone
       \/ OrphanExits \/ EndRun \/ ReleaseNext \/ StartRun \/ Recover
    => TInv'
<1>. SUFFICES ASSUME TInv, host' = host,
                     \/ CheckIdentity \/ Kill \/ RecordAction \/ ExecStart \/ LargeRecord
                     \/ ExecDone \/ OrphanExits \/ EndRun \/ ReleaseNext
                     \/ StartRun \/ Recover
              PROVE  TInv'
  OBVIOUS
<1>1. /\ ProcTyped /\ AgentTyped /\ LedgerTyped /\ GuardsTyped
      /\ RestTyped /\ Phase
  BY TypeParts
<1>2. UNCHANGED <<ledger, guards, kills, ids>>
  BY DEF CheckIdentity, Kill, RecordAction, ExecStart, LargeRecord, ExecDone, OrphanExits,
         EndRun, ReleaseNext, StartRun, Recover
<1>3. LedgerTyped' /\ GuardsTyped'
  BY <1>1, <1>2 DEF LedgerTyped, GuardsTyped, EntrySet, GuardSet
<1>4. RestTyped'
  <2>1. child' \subseteq 0 .. Len(guards)
    <3>1. CASE ExecStart
      BY <1>1, <3>1 DEF ExecStart, LedgerTyped, EntrySet
    <3>2. CASE child' = {0} \/ child' = child
      <4>1. {0} \subseteq 0 .. Len(guards)
        BY <1>1 DEF GuardsTyped
      <4>2. Len(guards)' = Len(guards)
        BY <1>2
      <4>. QED
        BY <1>1, <3>2, <4>1, <4>2, Zenon DEF RestTyped
    <3>. QED
      BY <3>1, <3>2 DEF CheckIdentity, Kill, RecordAction, ExecDone,
         LargeRecord, OrphanExits, EndRun, ReleaseNext, StartRun, Recover
  <2>2. ops' \in 0 .. host.ops /\ runs' \in 0 .. host.runs
    <3>1. CASE StartRun
      <4>1. runs + 1 \in 0 .. host.runs /\ 0 \in 0 .. host.ops
        BY <1>1, <3>1, HostTypes DEF StartRun, RestTyped, TInv
      <4>. QED
        BY <1>1, <3>1, <4>1 DEF StartRun, RestTyped
    <3>2. CASE UNCHANGED <<ops, runs>>
      BY <1>1, <3>2 DEF RestTyped
    <3>. QED
      BY <3>1, <3>2 DEF CheckIdentity, Kill, RecordAction, ExecStart, LargeRecord, ExecDone,
         OrphanExits, EndRun, ReleaseNext, Recover
  <2>. QED
    BY <1>1, <1>2, <2>1, <2>2 DEF RestTyped
<1>5. ProcTyped'
  <2>1. CASE proc' = proc
    BY <1>1, <1>2, <2>1 DEF ProcTyped
  <2>2. CASE Kill
    <3>1. proc' \in {proc, Stopped(op.pid), Continued(op.pid)}
      BY <2>2 DEF Kill
    <3>2. Stopped(op.pid) \in [Pids -> [id : 0 .. host.ids, st : States]]
      BY <1>1 DEF Stopped, ProcTyped, States
    <3>3. Continued(op.pid) \in [Pids -> [id : 0 .. host.ids, st : States]]
      BY <1>1 DEF Continued, ProcTyped, States
    <3>. QED
      BY <1>1, <1>2, <3>1, <3>2, <3>3 DEF ProcTyped
  <2>3. CASE Recover
    <3>1. \A p \in Pids : /\ proc[p] \in [id : 0 .. host.ids, st : States]
                          /\ [proc[p] EXCEPT !.st = "running"] \in
                                [id : 0 .. host.ids, st : States]
      BY <1>1 DEF ProcTyped, States
    <3>. QED
      BY <1>1, <1>2, <2>3, <3>1, Zenon DEF Recover, ProcTyped
  <2>. QED
    BY <2>1, <2>2, <2>3 DEF CheckIdentity, RecordAction, ExecStart, LargeRecord, ExecDone,
       OrphanExits, EndRun, ReleaseNext, StartRun
<1>6. AgentTyped' /\ Phase'
  <2>0. \A p \in Pids : Observed[p] \in 0 .. host.ids
    BY <1>1, HostTypes DEF Observed, ProcTyped, TInv
  <2>1. CASE CheckIdentity
    <3>1. /\ UNCHANGED <<op, snapshot>> /\ pc = "check"
          /\ \/ pc' = "kill"
             \/ pc' = IF Releasing THEN "record" ELSE "settle"
      BY <2>1 DEF CheckIdentity
    <3>. QED
      BY <1>1, <3>1 DEF AgentTyped, Phase, Releasing
  <2>5. CASE ExecStart \/ LargeRecord \/ ExecDone \/ OrphanExits \/ EndRun \/ StartRun
    <3>1. UNCHANGED <<op, snapshot>> /\ pc' \in {pc, "exec", "idle", "release",
                                               "recover"}
      BY <2>5 DEF ExecStart, LargeRecord, ExecDone, OrphanExits, EndRun, StartRun
    <3>. QED
      BY <1>1, <1>2, <3>1 DEF AgentTyped, Phase, Entries
  <2>2. CASE Kill
    <3>. DEFINE ok == Live(op.pid) /\ op.pid \notin host.foreign
    <3>1. op' = [op EXCEPT !.ok = ok] /\ ok \in BOOLEAN
      BY <2>2 DEF Kill
    <3>2. pc' = (IF Releasing THEN "record" ELSE "settle") /\ pc = "kill"
          /\ snapshot' = snapshot
      BY <2>2 DEF Kill
    <3>3. op.kind # "none"
      BY <1>1, <3>2 DEF Phase
    <3>. HIDE DEF ok
    <3>4. AgentTyped'
      BY <1>1, <3>1, <3>2 DEF AgentTyped
    <3>. QED
      BY <1>1, <3>1, <3>2, <3>3, <3>4 DEF AgentTyped, Phase, Releasing
  <2>3. CASE RecordAction \/ Recover
    <3>1. snapshot' \in [Pids -> 0 .. host.ids]
      BY <1>1, <2>0, <2>3 DEF RecordAction, Recover, Observed, AgentTyped
    <3>. QED
      BY <1>1, <2>3, <3>1 DEF RecordAction, Recover, AgentTyped, Phase, Releasing
  <2>4. CASE ReleaseNext
    <3>1. \A e \in ledger : e.pid \in Pids /\ e.id \in 0 .. host.ids
      BY <1>1 DEF LedgerTyped, EntrySet
    <3>2. CASE pc' = "exited" /\ UNCHANGED op
      BY <1>1, <2>4, <3>2 DEF ReleaseNext, AgentTyped, Phase
    <3>3. ASSUME NEW e \in ledger, pc' = "check",
                 op' = [kind |-> "release", pid |-> e.pid, id |-> e.id,
                        ok |-> FALSE]
          PROVE  AgentTyped' /\ Phase'
      <4>1. AgentTyped'
        BY <1>1, <2>4, <3>1, <3>3 DEF ReleaseNext, AgentTyped
      <4>. QED
        BY <3>1, <3>3, <4>1 DEF Phase
    <3>. QED
      BY <2>4, <3>2, <3>3 DEF ReleaseNext
  <2>. QED
    BY <2>1, <2>2, <2>3, <2>4, <2>5
<1>. QED
  BY <1>3, <1>4, <1>5, <1>6, TypePartsNext

LEMMA CrashTypes == TInv /\ Crash /\ host' = host => TInv'
<1>. SUFFICES ASSUME TInv, Crash, host' = host PROVE TInv'
  OBVIOUS
<1>1. /\ ProcTyped /\ AgentTyped /\ LedgerTyped /\ GuardsTyped
      /\ RestTyped /\ Phase
  BY TypeParts
<1>2. LedgerTyped'
  BY <1>1, LedgerShrinks DEF Crash
<1>. QED
  BY <1>1, <1>2, TypePartsNext DEF Crash, ProcTyped, AgentTyped, GuardsTyped,
     GuardSet, RestTyped, Phase, Entries

LEMMA TypeInit == Init => TInv
<1>. SUFFICES ASSUME Init PROVE TInv
  OBVIOUS
<1>1. host \in Hosts /\ host.ids \in Nat /\ host.ops \in Nat
      /\ host.kills \in Nat /\ host.runs \in Nat
  BY PauseAssumption DEF Init
<1>2. guards = <<>> /\ guards \in Seq(GuardSet) /\ DOMAIN guards = {}
      /\ Len(guards) = 0
  BY DEF Init
<1>3. IsFiniteSet(ledger) /\ Cardinality(ledger) = 0 /\ ledger = {}
  BY FS_EmptySet DEF Init
<1>4. LedgerTyped /\ GuardsTyped
  BY <1>2, <1>3, PauseAssumption DEF LedgerTyped, GuardsTyped
<1>5. ProcTyped /\ AgentTyped
  BY <1>1 DEF Init, ProcTyped, AgentTyped, Idle, States
<1>6. RestTyped /\ Phase
  BY <1>1, <1>2 DEF Init, RestTyped, Phase, Idle
<1>. QED
  BY <1>4, <1>5, <1>6, TypeParts

LEMMA TypeNext == TInv /\ [Next]_vars => TInv' /\ host' = host
<1>. SUFFICES ASSUME TInv, [Next]_vars PROVE TInv' /\ host' = host
  OBVIOUS
<1>0. CASE UNCHANGED vars
  <2>1. /\ ProcTyped /\ AgentTyped /\ LedgerTyped /\ GuardsTyped
        /\ RestTyped /\ Phase
    BY TypeParts
  <2>2. /\ ProcTyped' /\ AgentTyped' /\ LedgerTyped' /\ GuardsTyped'
        /\ RestTyped' /\ Phase'
    BY <1>0, <2>1 DEF vars, ProcTyped, AgentTyped, LedgerTyped, GuardsTyped,
       RestTyped, Phase, EntrySet, GuardSet, Entries
  <2>. QED
    BY <1>0, <2>2, TypePartsNext DEF vars
<1>1. CASE Agent
  BY <1>1, ChooseTypes, SpawnGuardianTypes, ForgettingTypes, PlainTypes,
     Zenon DEF Agent
<1>2. CASE GuardianRuns
  BY <1>2, GuardianSteps, Zenon DEF GuardianRuns
<1>3. CASE Environment
  BY <1>3, HostSteps, GuardianSteps, PlainTypes, CrashTypes, Zenon
     DEF Environment
<1>. QED
  BY <1>0, <1>1, <1>2, <1>3 DEF Next

LEMMA TypesHold == Spec => []TInv
BY TypeInit, TypeNext, PTL DEF Spec

(* Every variable stays in its type, and the ledger never holds more than    *)
(* SPG_MACHINE_MAX_PAUSED entries, whatever the host and the user do         *)
(* (ledger_append, spg_machine_executor_step).                               *)
THEOREM TypeCorrect == Spec => []TypeOK
<1>1. TInv => TypeOK
  BY DEF TInv
<1>. QED
  BY <1>1, TypesHold, PTL

-----------------------------------------------------------------------------
(* The safety of pauses on a peaceful host. The inductive invariant says     *)
(* who answers for a process that is stopped on our account.                 *)
OursUnder(p, id) == proc[p].st = "ours" /\ proc[p].id = id

(* Guardian i waits on behalf of entry e. *)
Owns(e, i) == /\ guards[i].pid = e.pid /\ guards[i].id = e.id
              /\ guards[i].st = "waiting"

(* A process of ours may be signalled and has a guardian. *)
Guarded ==
    \A p \in Pids : proc[p].st = "ours" =>
        p \notin host.foreign /\ Waiting(p, proc[p].id) # {}

(* While the agent is up, entries and waiting guardians stand for each other; *)
(* the only entry without one is that of the pause about to fork it.         *)
EntriesOwn ==
    /\ Down => ledger = {}
    /\ \A e \in ledger :
          IF e.guard = 0 THEN pc = "guard" /\ e.pid = op.pid /\ e.id = op.id
                         ELSE Owns(e, e.guard)
    /\ pc = "guard" => \A e \in Entries(op.pid, op.id) : e.guard = 0

GuardsOwned ==
    ~Down => \A i \in DOMAIN guards :
        /\ guards[i].st # "armed"
        /\ guards[i].st = "waiting" => \E e \in ledger : e.guard = i /\ Owns(e, i)

(* Nothing came between the check and the signal, and a stop that is on its  *)
(* way has its entry.                                                        *)
Aiming ==
    /\ pc = "kill" => IdentityMatches(op.pid, op.id)
    /\ pc \in {"check", "kill"} /\ op.kind = "pause" =>
          Entries(op.pid, op.id) # {}

(* Where the entry of the process is about to go, the process is not ours.   *)
Letting ==
    \/ pc \in {"check", "kill"} /\ op.kind = "pause"
    \/ pc = "settle" /\ op.ok = (op.kind = "resume")
    \/ pc \in {"record", "dismiss"} /\ op.kind = "release"

NotOurs == Letting => ~OursUnder(op.pid, op.id)

Answered == Guarded /\ EntriesOwn /\ GuardsOwned /\ Aiming /\ NotOurs

PInv == Peaceful => Answered

(* Nobody new is ours. *)
NoneStopped ==
    \A p \in Pids : proc'[p].st = "ours" => proc'[p] = proc[p]

LEMMA StillGuarded ==
    ASSUME Guarded, NoneStopped, guards' = guards, host' = host
    PROVE  Guarded'
BY DEF Guarded, NoneStopped, Waiting

LEMMA PauseInit == Init => Answered
<1>. SUFFICES ASSUME Init PROVE Answered
  OBVIOUS
<1>1. \A p \in Pids : proc[p].st = "none"
  BY DEF Init
<1>. QED
  BY <1>1 DEF Init, Answered, Guarded, EntriesOwn, GuardsOwned, Aiming, NotOurs,
     Letting, Down

(* Processes start and exit; a signal on its way still meets the process it   *)
(* was aimed at.                                                              *)
LEMMA PauseHost ==
    ASSUME TInv, Peaceful, Answered, host' = host,
           Spawn \/ Exit \/ UserStop \/ UserContinue
    PROVE  Answered'
<1>1. /\ UNCHANGED AgentVars
      /\ \E p \in Pids :
            /\ \/ ~Live(p) /\ proc' = [proc EXCEPT
                                    ![p] = [id |-> ids + 1, st |-> "running"]]
               \/ ~Aimed(p) /\ proc' = [proc EXCEPT ![p].st = "none"]
  BY DEF Spawn, Exit, UserStop, UserContinue, Peaceful
<1>2. proc \in [Pids -> [id : 0 .. host.ids, st : States]]
  BY DEF TInv, TypeOK
<1>3. NoneStopped
  BY <1>1, <1>2 DEF NoneStopped
<1>4. UNCHANGED <<pc, op, ledger, guards>>
  BY <1>1 DEF AgentVars
<1>5. Guarded' /\ NotOurs'
  <2>1. Guarded'
    BY <1>3, <1>4, StillGuarded DEF Answered
  <2>2. Letting' => Letting /\ op.pid \in Pids
    BY <1>4 DEF Letting, TInv, Phase
  <2>. QED
    BY <1>3, <1>4, <2>1, <2>2 DEF NoneStopped, NotOurs, Answered, OursUnder
<1>6. EntriesOwn' /\ GuardsOwned'
  BY <1>4 DEF Answered, EntriesOwn, GuardsOwned, Owns, Entries, Down
<1>7. Aiming'
  <2>1. pc = "kill" => IdentityMatches(op.pid, op.id)'
    BY <1>1, <1>2, <1>4 DEF Answered, Aiming, IdentityMatches, Live, Aimed, TInv, Phase
  <2>. QED
    BY <1>4, <2>1 DEF Answered, Aiming, Entries
<1>. QED
  BY <1>5, <1>6, <1>7 DEF Answered

(* Guardians only act once the agent is gone, and only leave a process that  *)
(* they continued or that is no longer the one they were forked for.         *)
LEMMA PauseGuardian ==
    ASSUME TInv, Peaceful, Answered, host' = host, Guardian \/ GuardKilled
    PROVE  Answered'
<1>1. host.kills = 0 /\ kills \in Nat
  BY HostTypes DEF TInv, TypeOK, Peaceful
<1>2. PICK i \in DOMAIN guards :
         GuardWakes(i) \/ GuardContinues(i) \/ GuardStandsDown(i)
  BY <1>1 DEF Guardian, GuardKilled
<1>3. UNCHANGED <<pc, op, ledger>>
  BY DEF Guardian, GuardKilled
<1>4. PICK st \in {"armed", "gone"} : guards' = [guards EXCEPT ![i].st = st]
  BY <1>2 DEF GuardWakes, GuardContinues, GuardStandsDown
<1>5. /\ SameGuards(guards') /\ guards'[i].st = st
      /\ \A j \in DOMAIN guards \ {i} : guards'[j] = guards[j]
  <2>1. guards \in Seq(GuardSet) /\ i \in DOMAIN guards
        /\ st \in {"waiting", "armed", "dismissed", "gone"}
    BY <1>2, <1>4 DEF TInv
  <2>. QED
    BY <1>4, <2>1, OneGuard, ZenonT(30)
<1>6. guards[i].pid \in Pids /\ proc \in [Pids -> [id : 0 .. host.ids, st : States]]
  BY GuardFacts DEF TInv, TypeOK, GuardSet
<1>7. NoneStopped
  BY <1>2, <1>6 DEF GuardWakes, GuardContinues, GuardStandsDown, Continued,
                    NoneStopped
<1>8. ~GuardStandsDown(i) => Down
  BY <1>2 DEF GuardWakes, GuardContinues, EndOfFile, Answered, GuardsOwned
<1>9. GuardStandsDown(i) => proc' = proc /\ guards[i].st = "dismissed"
                           /\ guards'[i].st = "gone"
  <2>. SUFFICES ASSUME GuardStandsDown(i) PROVE guards'[i].st = "gone"
    BY DEF GuardStandsDown
  <2>1. guards' = [guards EXCEPT ![i].st = "gone"]
    BY DEF GuardStandsDown
  <2>. QED
    BY <2>1, OneGuard DEF TInv
<1>10. Guarded'
  <2>. SUFFICES ASSUME NEW p \in Pids, proc'[p].st = "ours"
                PROVE  p \notin host.foreign /\ Waiting(p, proc[p].id)' # {}
    BY DEF Guarded
  <2>1. proc'[p] = proc[p] /\ p \notin host.foreign /\ proc[p].st = "ours"
    BY <1>7 DEF NoneStopped, Answered, Guarded
  <2>2. PICK j \in Waiting(p, proc[p].id) : TRUE
    BY <2>1 DEF Answered, Guarded
  <2>3. j \in DOMAIN guards /\ guards[j].pid = p /\ guards[j].id = proc[p].id
        /\ guards[j].st \in Pending
    BY <2>2 DEF Waiting
  <2>4. guards'[j].st \in Pending
    <3>1. CASE j # i
      BY <1>5, <2>3, <3>1
    <3>2. CASE j = i /\ GuardWakes(i)
      <4>1. IdentityMatches(guards[i].pid, guards[i].id)
        BY <2>1, <2>3, <3>2 DEF IdentityMatches, Live
      <4>2. guards' = [guards EXCEPT ![i].st = "armed"]
        BY <3>2, <4>1 DEF GuardWakes
      <4>3. guards'[i].st = "armed"
        BY <4>2, OneGuard DEF TInv
      <4>. QED
        BY <3>2, <4>3 DEF Pending
    <3>3. CASE j = i /\ GuardContinues(i)
      <4>1. proc' = Continued(p)
        BY <2>1, <2>3, <3>3 DEF GuardContinues, Live
      <4>. QED
        BY <1>6, <2>1, <4>1 DEF Continued
    <3>4. CASE j = i /\ GuardStandsDown(i)
      BY <1>9, <2>3, <3>4 DEF Pending
    <3>. QED
      BY <1>2, <3>1, <3>2, <3>3, <3>4
  <2>5. j \in Waiting(p, proc[p].id)'
    BY <1>5, <2>1, <2>3, <2>4 DEF Waiting, SameGuards
  <2>. QED
    BY <2>1, <2>5
<1>11. EntriesOwn' /\ GuardsOwned'
  <2>1. CASE Down
    <3>1. ledger = {} /\ pc \in {"exited", "dead"}
      BY <2>1 DEF Answered, EntriesOwn, Down
    <3>. QED
      BY <1>3, <3>1 DEF EntriesOwn, GuardsOwned, Down, Entries
  <2>2. CASE ~Down
    <3>1. /\ guards[i].st = "dismissed" /\ guards'[i].st = "gone"
          /\ DOMAIN guards' = DOMAIN guards
      BY <1>5, <1>8, <1>9, <2>2 DEF SameGuards
    <3>2. \A e, j : Owns(e, j) /\ j \in DOMAIN guards => Owns(e, j)'
      BY <1>5, <3>1 DEF Owns
    <3>3. EntriesOwn'
      <4>1. \A e \in ledger : e.guard \in 0 .. Len(guards)
        BY DEF TInv, TypeOK
      <4>2. \A e \in ledger : e.guard # 0 => e.guard \in DOMAIN guards
        BY <4>1, GuardFacts DEF TInv
      <4>. QED
        BY <1>3, <3>2, <4>2, <2>2 DEF EntriesOwn, Answered, Entries, Down
    <3>4. GuardsOwned'
      <4>. SUFFICES ASSUME NEW j \in DOMAIN guards
                    PROVE  /\ guards'[j].st # "armed"
                           /\ guards'[j].st = "waiting" =>
                                 \E e \in ledger : e.guard = j /\ Owns(e, j)'
        BY <1>3, <3>1 DEF GuardsOwned
      <4>1. CASE j = i
        BY <3>1, <4>1
      <4>2. CASE j # i
        BY <1>5, <2>2, <3>2, <4>2 DEF Answered, GuardsOwned
      <4>. QED
        BY <4>1, <4>2
    <3>. QED
      BY <3>3, <3>4
  <2>. QED
    BY <2>1, <2>2
<1>12. Aiming'
  <2>1. CASE Down
    BY <1>3, <2>1 DEF Aiming, Down
  <2>2. CASE ~Down
    BY <1>3, <1>8, <1>9, <2>2 DEF Answered, Aiming, Entries, IdentityMatches, Live
  <2>. QED
    BY <2>1, <2>2
<1>13. NotOurs'
  <2>1. Letting' => Letting /\ op.pid \in Pids
    BY <1>3 DEF Letting, TInv, Phase
  <2>. QED
    BY <1>3, <1>7, <2>1 DEF NoneStopped, NotOurs, Answered, OursUnder
<1>. QED
  BY <1>10, <1>11, <1>12, <1>13 DEF Answered

(* An entry that waits for its guardian is the only one of its process. *)
LEMMA PauseChoose ==
    ASSUME TInv, Answered, Choose, host' = host
    PROVE  Answered'
<1>1. /\ UNCHANGED <<proc, guards>> /\ pc = "idle"
  BY DEF Choose
<1>2. PICK p \in Pids, kind \in {"pause", "resume"} :
         /\ op' = [kind |-> kind, pid |-> p, id |-> snapshot[p], ok |-> FALSE]
         /\ \/ pc' = "record" /\ UNCHANGED ledger
            \/ pc' = "check" /\ UNCHANGED ledger /\ kind = "resume"
            \/ /\ kind = "pause" /\ pc' = "guard"
               /\ Entries(p, snapshot[p]) = {}
               /\ ledger' = ledger \cup {[pid |-> p, id |-> snapshot[p],
                                          guard |-> 0]}
  BY DEF Choose
<1>3. Guarded'
  BY <1>1, StillGuarded DEF Answered, NoneStopped
<1>4. EntriesOwn'
  <2>1. \A e \in ledger : e.guard # 0 /\ Owns(e, e.guard)'
    BY <1>1 DEF Answered, EntriesOwn, Owns
  <2>. DEFINE x == [pid |-> p, id |-> snapshot[p], guard |-> 0]
  <2>2. x.pid = p /\ x.id = snapshot[p] /\ x.guard = 0
    OBVIOUS
  <2>3. op'.pid = p /\ op'.id = snapshot[p] /\ pc' \in {"record", "check", "guard"}
    BY <1>2
  <2>4. CASE UNCHANGED ledger /\ pc' \in {"record", "check"}
    BY <2>1, <2>4 DEF EntriesOwn, Down
  <2>5. CASE /\ Entries(p, snapshot[p]) = {} /\ pc' = "guard"
             /\ ledger' = ledger \cup {x}
    <3>. HIDE DEF x
    <3>. QED
      BY <2>1, <2>2, <2>3, <2>5 DEF EntriesOwn, Entries, Down
  <2>. QED
    BY <1>2, <2>4, <2>5
<1>5. GuardsOwned'
  <2>1. ledger \subseteq ledger' /\ ~Down
    BY <1>1, <1>2 DEF Down
  <2>. QED
    BY <1>1, <2>1 DEF Answered, GuardsOwned, Owns
<1>6. Aiming' /\ NotOurs'
  BY <1>2 DEF Aiming, NotOurs, Letting
<1>. QED
  BY <1>3, <1>4, <1>5, <1>6 DEF Answered

(* Forgetting the entries of a process that is not ours takes no guardian    *)
(* from anybody else.                                                        *)
LEMMA ForgetKeeps ==
    ASSUME TInv, Answered, ~Down, host' = host,
           UNCHANGED <<proc, op>>,
           NEW next \in {"record", "release"},
           Forget(Entries(op.pid, op.id), next),
           ~OursUnder(op.pid, op.id) \/ op.pid \notin Pids
    PROVE  Guarded' /\ EntriesOwn' /\ GuardsOwned' /\ Aiming'
<1>. DEFINE gone == Entries(op.pid, op.id)
<1>1. gone \in SUBSET ledger
  BY DEF Entries
<1>2. SameGuards(guards')
  BY <1>1, ForgetStep
<1>3. Aiming'
  BY <1>1, ForgetStep DEF Aiming
<1>4. CASE pc' = "dead" /\ ledger' = {} /\ guards' = guards
  <2>1. Guarded'
    BY <1>4, StillGuarded DEF Answered, NoneStopped
  <2>. QED
    BY <1>3, <1>4, <2>1 DEF EntriesOwn, GuardsOwned, Down
<1>5. CASE /\ pc' = next /\ ledger' = ledger \ gone
           /\ \A i \in DOMAIN guards :
                 guards'[i].st = IF \E e \in gone : e.guard = i
                                   THEN "dismissed" ELSE guards[i].st
  <2>1. \A e \in ledger : e.guard # 0 =>
           e.guard \in DOMAIN guards /\ Owns(e, e.guard)
    <3>1. \A e \in ledger : e.guard \in 0 .. Len(guards)
      BY DEF TInv, TypeOK
    <3>2. \A e \in ledger : e.guard # 0 => e.guard \in DOMAIN guards
      BY <3>1, GuardFacts DEF TInv
    <3>. QED
      BY <3>2 DEF Answered, EntriesOwn
  <2>2. ASSUME NEW i \in DOMAIN guards, guards[i].st = "waiting",
               ~(guards[i].pid = op.pid /\ guards[i].id = op.id)
        PROVE  guards'[i].st = "waiting"
    <3>1. ~ \E e \in gone : e.guard = i
      <4>. SUFFICES ASSUME NEW e \in gone, e.guard = i PROVE FALSE
        OBVIOUS
      <4>1. e \in ledger /\ e.pid = op.pid /\ e.id = op.id
        BY DEF Entries
      <4>2. e.guard # 0
        BY GuardFacts DEF TInv
      <4>. QED
        BY <2>1, <2>2, <4>1, <4>2 DEF Owns
    <3>. QED
      BY <1>5, <2>2, <3>1
  <2>3. Guarded'
    <3>. SUFFICES ASSUME NEW p \in Pids, proc[p].st = "ours"
                  PROVE  p \notin host.foreign /\ Waiting(p, proc[p].id)' # {}
      BY DEF Guarded
    <3>1. PICK i \in Waiting(p, proc[p].id) : p \notin host.foreign
      BY DEF Answered, Guarded
    <3>2. /\ i \in DOMAIN guards /\ guards[i].pid = p
          /\ guards[i].id = proc[p].id /\ guards[i].st = "waiting"
      BY <3>1 DEF Waiting, Pending, Answered, GuardsOwned
    <3>3. ~(guards[i].pid = op.pid /\ guards[i].id = op.id)
      BY <3>2 DEF OursUnder
    <3>4. guards'[i].st = "waiting"
      BY <2>2, <3>2, <3>3
    <3>5. i \in Waiting(p, proc[p].id)'
      BY <1>2, <3>2, <3>4 DEF Waiting, Pending, SameGuards
    <3>. QED
      BY <3>1, <3>5
  <2>4. EntriesOwn'
    <3>. SUFFICES ASSUME NEW e \in ledger \ gone
                  PROVE  e.guard # 0 /\ Owns(e, e.guard)'
      BY <1>5 DEF EntriesOwn, Down
    <3>1. ~(e.pid = op.pid /\ e.id = op.id)
      BY DEF Entries
    <3>2. e.guard # 0
      BY <3>1 DEF Answered, EntriesOwn
    <3>3. e.guard \in DOMAIN guards /\ Owns(e, e.guard)
      BY <2>1, <3>2
    <3>4. guards'[e.guard].st = "waiting"
      BY <2>2, <3>1, <3>3 DEF Owns
    <3>. QED
      BY <1>2, <3>2, <3>3, <3>4 DEF Owns, SameGuards
  <2>5. GuardsOwned'
    <3>. SUFFICES ASSUME NEW i \in DOMAIN guards
                  PROVE  /\ guards'[i].st # "armed"
                         /\ guards'[i].st = "waiting" =>
                               \E e \in ledger \ gone : e.guard = i /\ Owns(e, i)'
      BY <1>2, <1>5 DEF GuardsOwned, SameGuards
    <3>1. guards[i].st # "armed"
      BY DEF Answered, GuardsOwned
    <3>2. guards'[i].st # "armed"
      BY <1>5, <3>1
    <3>3. ASSUME guards'[i].st = "waiting"
          PROVE  \E e \in ledger \ gone : e.guard = i /\ Owns(e, i)'
      <4>1. guards[i].st = "waiting" /\ ~ \E e \in gone : e.guard = i
        BY <1>5, <3>3
      <4>2. PICK e \in ledger : e.guard = i /\ Owns(e, i)
        BY <4>1 DEF Answered, GuardsOwned
      <4>. QED
        BY <1>2, <3>3, <4>1, <4>2 DEF Owns, SameGuards
    <3>. QED
      BY <3>2, <3>3
  <2>. QED
    BY <1>3, <2>3, <2>4, <2>5
<1>. QED
  BY <1>1, <1>4, <1>5, ForgetStep

(* A pause gets its guardian before its signal, or is given up.             *)
LEMMA PauseSpawnGuardian ==
    ASSUME TInv, Answered, SpawnGuardian, host' = host
    PROVE  Answered'
<1>1. pc = "guard" /\ UNCHANGED <<proc, op>> /\ op.kind = "pause"
      /\ op.pid \in Pids
  BY DEF SpawnGuardian, TInv, Phase
<1>2. ~Down
  BY <1>1 DEF Down
<1>3. ~OursUnder(op.pid, op.id)
  <2>. SUFFICES ASSUME OursUnder(op.pid, op.id) PROVE FALSE
    OBVIOUS
  <2>1. PICK i \in Waiting(op.pid, op.id) : TRUE
    BY <1>1 DEF OursUnder, Answered, Guarded
  <2>2. i \in DOMAIN guards /\ guards[i].pid = op.pid /\ guards[i].id = op.id
        /\ guards[i].st = "waiting"
    BY <1>2, <2>1 DEF Waiting, Pending, Answered, GuardsOwned
  <2>3. PICK e \in ledger : e.guard = i /\ Owns(e, i)
    BY <1>2, <2>2 DEF Answered, GuardsOwned
  <2>4. e \in Entries(op.pid, op.id)
    BY <2>2, <2>3 DEF Owns, Entries
  <2>5. e.guard = 0
    BY <1>1, <2>4 DEF Answered, EntriesOwn
  <2>. QED
    BY <2>2, <2>3, <2>5, GuardFacts DEF TInv
<1>4. CASE Forget(Entries(op.pid, op.id), "record")
  <2>1. Guarded' /\ EntriesOwn' /\ GuardsOwned' /\ Aiming'
    BY <1>1, <1>2, <1>3, <1>4, ForgetKeeps
  <2>2. pc' \in {"dead", "record"}
    BY <1>4 DEF Forget
  <2>3. NotOurs'
    BY <1>1, <2>2 DEF NotOurs, Letting
  <2>. QED
    BY <2>1, <2>3 DEF Answered
<1>5. ASSUME guards' = Append(guards,
                [pid |-> op.pid, id |-> op.id, st |-> "waiting",
                 holds |-> {e.guard : e \in ledger} \ {0}]),
             ledger' = (ledger \ Entries(op.pid, op.id)) \cup
                {[pid |-> op.pid, id |-> op.id, guard |-> Len(guards) + 1]},
             pc' = "check"
      PROVE  Answered'
  <2>. DEFINE n == Len(guards)
              h == {e.guard : e \in ledger} \ {0}
              g == [pid |-> op.pid, id |-> op.id, st |-> "waiting",
                    holds |-> h]
              x == [pid |-> op.pid, id |-> op.id, guard |-> n + 1]
  <2>1. n \in Nat /\ DOMAIN guards = 1 .. n /\ guards \in Seq(GuardSet)
    BY GuardFacts DEF TInv
  <2>2. g.pid = op.pid /\ g.id = op.id /\ g.st = "waiting"
    BY Zenon
  <2>3. x.pid = op.pid /\ x.id = op.id /\ x.guard = n + 1
    OBVIOUS
  <2>4. ledger' = (ledger \ Entries(op.pid, op.id)) \cup {x}
    BY <1>5
  <2>5. guards' = Append(guards, g)
    BY <1>5
  <2>. HIDE DEF g, x, n
  <2>6. /\ DOMAIN guards' = 1 .. n + 1 /\ guards'[n + 1] = g
        /\ \A i \in 1 .. n : guards'[i] = guards[i]
    BY <2>1, <2>5 DEF n
  <2>7. /\ guards'[n + 1].pid = op.pid /\ guards'[n + 1].id = op.id
        /\ guards'[n + 1].st = "waiting"
    BY <2>2, <2>6
  <2>8. \A e \in ledger \ Entries(op.pid, op.id) :
           e.guard # 0 /\ e.guard \in 1 .. n /\ Owns(e, e.guard)
    <3>1. \A e \in ledger : e.guard \in 0 .. n
      BY DEF TInv, TypeOK, n
    <3>. QED
      BY <2>1, <3>1 DEF Answered, EntriesOwn, Entries
  <2>9. Guarded'
    <3>1. \A q, id : Waiting(q, id) \subseteq Waiting(q, id)'
      BY <2>1, <2>6 DEF Waiting
    <3>. QED
      BY <1>1, <3>1 DEF Answered, Guarded
  <2>10. EntriesOwn'
    <3>1. ASSUME NEW e \in ledger'
          PROVE  e.guard # 0 /\ Owns(e, e.guard)'
      <4>1. CASE e = x
        BY <2>1, <2>3, <2>7, <4>1 DEF Owns
      <4>2. CASE e \in ledger \ Entries(op.pid, op.id)
        BY <2>6, <2>8, <4>2 DEF Owns
      <4>. QED
        BY <2>4, <4>1, <4>2
    <3>. QED
      BY <1>5, <3>1 DEF EntriesOwn, Down
  <2>11. GuardsOwned'
    <3>. SUFFICES ASSUME NEW i \in 1 .. n + 1
                  PROVE  /\ guards'[i].st # "armed"
                         /\ guards'[i].st = "waiting" =>
                               \E e \in ledger' : e.guard = i /\ Owns(e, i)'
      BY <2>6 DEF GuardsOwned
    <3>1. CASE i = n + 1
      <4>1. x \in ledger' /\ x.guard = i
        BY <2>3, <2>4, <3>1
      <4>2. guards'[i].pid = x.pid /\ guards'[i].id = x.id
            /\ guards'[i].st = "waiting"
        BY <2>3, <2>7, <3>1
      <4>. QED
        BY <4>1, <4>2 DEF Owns
    <3>2. CASE i \in 1 .. n
      <4>1. guards'[i] = guards[i] /\ i # 0 /\ i \in DOMAIN guards
        BY <2>1, <2>6, <3>2
      <4>2. guards'[i].st # "armed"
        BY <1>2, <4>1 DEF Answered, GuardsOwned
      <4>3. ASSUME guards'[i].st = "waiting"
            PROVE  \E e \in ledger' : e.guard = i /\ Owns(e, i)'
        <5>1. PICK e \in ledger : e.guard = i /\ Owns(e, i)
          BY <1>2, <4>1, <4>3 DEF Answered, GuardsOwned
        <5>2. e \notin Entries(op.pid, op.id)
          BY <1>1, <4>1, <5>1 DEF Answered, EntriesOwn
        <5>. QED
          BY <2>4, <4>1, <5>1, <5>2 DEF Owns
      <4>. QED
        BY <4>2, <4>3
    <3>. QED
      BY <2>1, <3>1, <3>2
  <2>12. Aiming'
    <3>1. x \in Entries(op.pid, op.id)'
      BY <1>1, <2>3, <2>4 DEF Entries
    <3>. QED
      BY <1>5, <3>1 DEF Aiming
  <2>13. NotOurs'
    BY <1>1, <1>3 DEF NotOurs, OursUnder
  <2>. QED
    BY <2>9, <2>10, <2>11, <2>12, <2>13 DEF Answered
<1>. QED
  BY <1>4, <1>5 DEF SpawnGuardian

(* The signal lands on the process that was checked: a stop on one that has  *)
(* its guardian, a continue on one whose entry may then go.                  *)
LEMMA PauseKill ==
    ASSUME TInv, Answered, Kill, host' = host
    PROVE  Answered'
<1>. DEFINE ok == Live(op.pid) /\ op.pid \notin host.foreign
<1>1. /\ pc = "kill" /\ UNCHANGED <<ledger, guards>>
      /\ pc' = IF Releasing THEN "record" ELSE "settle"
      /\ op' = [op EXCEPT !.ok = ok]
      /\ proc' = IF ~ok THEN proc
                 ELSE IF op.kind = "pause" THEN Stopped(op.pid)
                 ELSE Continued(op.pid)
  BY DEF Kill
<1>2. IdentityMatches(op.pid, op.id) /\ op.pid \in Pids /\ op.kind # "none"
  BY <1>1 DEF Answered, Aiming, TInv, Phase
<1>3. /\ proc \in [Pids -> [id : 0 .. host.ids, st : States]]
      /\ op'.pid = op.pid /\ op'.id = op.id /\ op'.kind = op.kind
      /\ op'.ok = ok
      /\ op.kind \in {"pause", "resume", "release"}
  BY <1>1, <1>2 DEF TInv, TypeOK
<1>4. ok = (op.pid \notin host.foreign)
  BY <1>2 DEF IdentityMatches
<1>. HIDE DEF ok
<1>5. ~Down /\ ~Down'
  BY <1>1 DEF Down, Releasing
<1>6. EntriesOwn' /\ GuardsOwned' /\ Aiming'
  <2>1. pc' \in {"record", "settle"}
    BY <1>1 DEF Releasing
  <2>. QED
    BY <1>1, <1>5, <2>1 DEF Answered, EntriesOwn, GuardsOwned, Aiming, Owns
<1>7. \A p \in Pids : p # op.pid => proc'[p] = proc[p]
  BY <1>1, <1>3 DEF Stopped, Continued
<1>8. proc'[op.pid].id = proc[op.pid].id
  BY <1>1, <1>2, <1>3 DEF Stopped, Continued
<1>9. Guarded'
  <2>. SUFFICES ASSUME NEW p \in Pids, proc'[p].st = "ours"
                PROVE  p \notin host.foreign /\ Waiting(p, proc'[p].id) # {}
    BY <1>1 DEF Guarded, Waiting
  <2>1. CASE proc[p].st = "ours"
    BY <1>7, <1>8, <2>1 DEF Answered, Guarded
  <2>2. CASE proc[p].st # "ours"
    <3>1. p = op.pid /\ ok /\ op.kind = "pause"
      BY <1>1, <1>2, <1>3, <1>7, <2>2 DEF Continued
    <3>2. PICK e \in Entries(op.pid, op.id) : TRUE
      BY <1>1, <3>1 DEF Answered, Aiming
    <3>3. e \in ledger /\ e.pid = op.pid /\ e.id = op.id
      BY <3>2 DEF Entries
    <3>4. e.guard # 0 /\ Owns(e, e.guard)
      BY <1>1, <3>3 DEF Answered, EntriesOwn
    <3>5. e.guard \in DOMAIN guards
      <4>1. e.guard \in 0 .. Len(guards)
        BY <3>3 DEF TInv, TypeOK
      <4>. QED
        BY <3>4, <4>1, GuardFacts DEF TInv
    <3>6. e.guard \in Waiting(op.pid, op.id)
      BY <3>3, <3>4, <3>5 DEF Waiting, Owns, Pending
    <3>7. proc'[p].id = op.id
      BY <1>2, <1>8, <3>1 DEF IdentityMatches
    <3>. QED
      BY <1>4, <3>1, <3>6, <3>7
  <2>. QED
    BY <2>1, <2>2
<1>10. NotOurs'
  <2>. SUFFICES ASSUME Letting', OursUnder(op.pid, op.id)' PROVE FALSE
    BY DEF NotOurs
  <2>1. proc'[op.pid].st = "ours"
    BY <1>3 DEF OursUnder
  <2>2. CASE op.kind = "pause"
    <3>1. ~ok
      BY <1>1, <1>3, <2>2 DEF Letting, Releasing
    <3>2. proc' = proc
      BY <1>1, <3>1
    <3>3. ~OursUnder(op.pid, op.id)
      BY <1>1, <2>2 DEF Answered, NotOurs, Letting
    <3>. QED
      BY <1>3, <3>2, <3>3 DEF OursUnder
  <2>3. CASE op.kind # "pause" /\ ok
    BY <1>1, <1>2, <1>3, <2>1, <2>3 DEF Continued
  <2>4. CASE op.kind # "pause" /\ ~ok
    <3>1. op.kind = "release"
      BY <1>1, <1>3, <2>4 DEF Letting, Releasing
    <3>2. proc[op.pid].st = "ours"
      BY <1>1, <2>1, <2>4
    <3>. QED
      BY <1>2, <1>4, <2>4, <3>2 DEF Answered, Guarded
  <2>. QED
    BY <2>2, <2>3, <2>4
<1>. QED
  BY <1>6, <1>9, <1>10 DEF Answered

(* A failed pause and a landed resume leave the ledger, and so does what the  *)
(* end of a run has let go.                                                  *)
LEMMA PauseForgets ==
    ASSUME TInv, Answered, Settle \/ DismissReleased, host' = host
    PROVE  Answered'
<1>1. ~Down /\ UNCHANGED <<proc, op>> /\ pc \in {"settle", "dismiss"}
  BY DEF Settle, DismissReleased, Down
<1>2. CASE Settle /\ op.ok = (op.kind = "resume")
  <2>1. Forget(Entries(op.pid, op.id), "record") /\ pc = "settle"
    BY <1>2 DEF Settle
  <2>2. ~OursUnder(op.pid, op.id) /\ op.kind # "release"
    BY <1>2, <2>1 DEF Answered, NotOurs, Letting, TInv, Phase
  <2>3. Guarded' /\ EntriesOwn' /\ GuardsOwned' /\ Aiming'
    BY <1>1, <2>1, <2>2, ForgetKeeps
  <2>4. pc' \in {"dead", "record"}
    BY <2>1 DEF Forget
  <2>. QED
    BY <1>1, <2>2, <2>3, <2>4 DEF Answered, NotOurs, Letting
<1>3. CASE Settle /\ op.ok # (op.kind = "resume")
  <2>1. pc' = "record" /\ UNCHANGED <<ledger, guards>> /\ op.kind # "release"
        /\ pc = "settle"
    BY <1>3 DEF Settle, TInv, Phase
  <2>2. Guarded'
    BY <1>1, <2>1, StillGuarded DEF Answered, NoneStopped
  <2>. QED
    BY <1>1, <2>1, <2>2 DEF Answered, EntriesOwn, GuardsOwned, Aiming, NotOurs,
       Letting, Owns, Down
<1>4. CASE DismissReleased
  <2>1. /\ Forget(Entries(op.pid, op.id), "release") /\ pc = "dismiss"
        /\ op.kind = "release"
    BY <1>4 DEF DismissReleased, TInv, Phase
  <2>2. ~OursUnder(op.pid, op.id)
    BY <2>1 DEF Answered, NotOurs, Letting
  <2>3. Guarded' /\ EntriesOwn' /\ GuardsOwned' /\ Aiming'
    BY <1>1, <2>1, <2>2, ForgetKeeps
  <2>4. pc' \in {"dead", "release"}
    BY <2>1 DEF Forget
  <2>. QED
    BY <2>3, <2>4 DEF Answered, NotOurs, Letting
<1>. QED
  BY <1>2, <1>3, <1>4

(* The next run begins when nobody is left of the last one: the lock is held  *)
(* by every guardian, so that no process is ours when it is taken.           *)
LEMMA PauseStart ==
    ASSUME TInv, Answered, StartRun, host' = host
    PROVE  Answered'
<1>1. UNCHANGED <<proc, op, ledger, guards>>
  BY DEF StartRun
<1>2. Guarded'
  BY <1>1, StillGuarded DEF Answered, NoneStopped
<1>3. CASE pc' = pc
  BY <1>1, <1>2, <1>3 DEF Answered, EntriesOwn, GuardsOwned, Aiming, NotOurs,
     Letting, OursUnder, Owns, Down, Entries, IdentityMatches, Live
<1>4. CASE pc' = "recover" /\ ~LockHeld
  <2>1. Down /\ \A i \in DOMAIN guards : guards[i].st = "gone"
    BY <1>4 DEF LockHeld, Alive
  <2>2. ledger = {}
    BY <2>1 DEF Answered, EntriesOwn
  <2>. QED
    BY <1>1, <1>2, <1>4, <2>1, <2>2 DEF Answered, EntriesOwn, GuardsOwned,
       Aiming, NotOurs, Letting
<1>. QED
  BY <1>3, <1>4 DEF StartRun

(* The actions that stop nobody and leave ledger and guardians alone. *)
LEMMA PausePlain ==
    ASSUME TInv, Answered, host' = host,
           \/ CheckIdentity \/ RecordAction \/ ExecStart \/ LargeRecord \/ ExecDone
           \/ OrphanExits \/ EndRun \/ ReleaseNext \/ Recover
    PROVE  Answered'
<1>1. UNCHANGED <<ledger, guards>>
  BY DEF CheckIdentity, RecordAction, ExecStart, LargeRecord, ExecDone, OrphanExits, EndRun,
         ReleaseNext, Recover
<1>2. NoneStopped
  <2>1. CASE Recover
    <3>1. proc \in [Pids -> [id : 0 .. host.ids, st : States]]
      BY DEF TInv, TypeOK
    <3>. QED
      BY <2>1, <3>1 DEF Recover, NoneStopped
  <2>2. CASE proc' = proc
    BY <2>2 DEF NoneStopped
  <2>. QED
    BY <2>1, <2>2 DEF CheckIdentity, RecordAction, ExecStart, LargeRecord, ExecDone,
       OrphanExits, EndRun, ReleaseNext
<1>3. Guarded'
  BY <1>1, <1>2, StillGuarded DEF Answered
<1>4. CASE CheckIdentity
  <2>1. /\ UNCHANGED <<proc, op>> /\ pc = "check"
        /\ pc' = IF IdentityMatches(op.pid, op.id) THEN "kill"
                 ELSE IF Releasing THEN "record" ELSE "settle"
    BY <1>4 DEF CheckIdentity
  <2>2. EntriesOwn' /\ GuardsOwned' /\ Aiming'
    BY <1>1, <2>1 DEF Answered, EntriesOwn, GuardsOwned, Aiming, Owns, Down,
       Entries, IdentityMatches, Live, Releasing
  <2>3. NotOurs'
    <3>1. OursUnder(op.pid, op.id) => IdentityMatches(op.pid, op.id)
      BY DEF OursUnder, IdentityMatches, Live
    <3>. QED
      BY <2>1, <3>1 DEF Answered, NotOurs, Letting, OursUnder, Releasing
  <2>. QED
    BY <1>3, <2>2, <2>3 DEF Answered
<1>5. CASE RecordAction
  <2>1. /\ UNCHANGED <<proc, op>> /\ pc = "record"
        /\ pc' = IF Releasing THEN "dismiss" ELSE "idle"
    BY <1>5 DEF RecordAction
  <2>2. EntriesOwn' /\ GuardsOwned' /\ Aiming'
    BY <1>1, <2>1 DEF Answered, EntriesOwn, GuardsOwned, Aiming, Owns, Down,
       Releasing
  <2>3. NotOurs'
    BY <2>1 DEF Answered, NotOurs, Letting, OursUnder, Releasing
  <2>. QED
    BY <1>3, <2>2, <2>3 DEF Answered
<1>6. CASE ExecStart \/ LargeRecord \/ ExecDone \/ EndRun \/ Recover
  <2>1. pc \in {"idle", "exec", "recover"} /\ pc' \in {"idle", "exec", "release"}
    BY <1>6 DEF ExecStart, LargeRecord, ExecDone, EndRun, Recover
  <2>2. op' = op
    BY <1>6 DEF ExecStart, LargeRecord, ExecDone, EndRun, Recover
  <2>. QED
    BY <1>1, <1>3, <2>1, <2>2 DEF Answered, EntriesOwn, GuardsOwned, Aiming,
       NotOurs, Letting, Owns, Down
<1>7. CASE OrphanExits
  BY <1>1, <1>3, <1>7 DEF OrphanExits, Answered, EntriesOwn, GuardsOwned, Aiming,
     NotOurs, Letting, OursUnder, Owns, Down, Entries, IdentityMatches, Live
<1>8. CASE ReleaseNext
  <2>1. /\ pc = "release"
        /\ \/ ledger = {} /\ pc' = "exited" /\ op' = op
           \/ pc' = "check" /\ op'.kind = "release"
    BY <1>8 DEF ReleaseNext
  <2>. QED
    BY <1>1, <1>3, <2>1 DEF Answered, EntriesOwn, GuardsOwned, Aiming, NotOurs,
       Letting, Owns, Down
<1>. QED
  BY <1>4, <1>5, <1>6, <1>7, <1>8

LEMMA PauseCrash ==
    ASSUME Answered, Crash, host' = host
    PROVE  Answered'
<1>1. Guarded'
  BY StillGuarded DEF Answered, Crash, NoneStopped
<1>. QED
  BY <1>1 DEF Crash, Answered, EntriesOwn, GuardsOwned, Aiming, NotOurs, Letting,
     Down

LEMMA PauseNext == TInv /\ PInv /\ [Next]_vars => PInv'
<1>. SUFFICES ASSUME TInv, PInv, [Next]_vars, Peaceful' PROVE Answered'
  BY DEF PInv
<1>1. host' = host
  BY TypeNext
<1>2. Peaceful /\ Answered
  BY <1>1 DEF Peaceful, PInv
<1>3. CASE UNCHANGED vars
  BY <1>2, <1>3 DEF vars, Answered, Guarded, EntriesOwn, GuardsOwned, Aiming,
     NotOurs, Letting, OursUnder, Owns, Down, Entries, IdentityMatches, Live,
     Waiting
<1>4. CASE Agent
  BY <1>2, <1>4, PauseChoose, PauseSpawnGuardian, PauseKill, PauseForgets,
     PausePlain, Zenon DEF Agent
<1>5. CASE GuardianRuns
  BY <1>2, <1>5, PauseGuardian, Zenon DEF GuardianRuns
<1>6. CASE Environment
  BY <1>2, <1>6, PauseHost, PauseGuardian, PausePlain, PauseCrash, PauseStart,
     Zenon DEF Environment
<1>. QED
  BY <1>3, <1>4, <1>5, <1>6 DEF Next

LEMMA PauseHolds == Spec => [](TInv /\ PInv)
<1>1. Init => TInv /\ PInv
  BY TypeInit, PauseInit DEF PInv
<1>2. TInv /\ PInv /\ [Next]_vars => (TInv /\ PInv)'
  BY TypeNext, PauseNext
<1>. QED
  BY <1>1, <1>2, PTL DEF Spec

(* On a host that kills no guardian, recycles no pid under a signal and      *)
(* leaves stopping to us, whatever we stopped has a guardian that will       *)
(* continue it: through every crash, failed append, release and restart      *)
(* (spg_machine_executor_step, ledger_release, spawn_guardian).              *)
THEOREM StopsAreGuarded == Spec => []StopsGuarded
<1>1. TInv /\ PInv => StopsGuarded
  BY DEF PInv, Answered, Guarded, StopsGuarded
<1>. QED
  BY <1>1, PauseHolds, PTL

(* And a run that decides on its next action has every process it stopped in *)
(* its own ledger: the lock and the recovery leave it nothing of an earlier  *)
(* run (main.c, agent command).                                              *)
THEOREM OwnStopsAreInLedger == Spec => []OwnStopsInLedger
<1>1. TInv /\ PInv => OwnStopsInLedger
  <2>. SUFFICES ASSUME TInv, PInv, Peaceful, pc = "idle", NEW p \in Pids,
                       proc[p].st = "ours"
                PROVE  Entries(p, proc[p].id) # {}
    BY DEF OwnStopsInLedger
  <2>1. ~Down /\ Answered
    BY DEF Down, PInv
  <2>2. PICK i \in Waiting(p, proc[p].id) : TRUE
    BY <2>1 DEF Answered, Guarded
  <2>3. PICK e \in ledger : e.guard = i /\ Owns(e, i)
    BY <2>1, <2>2 DEF Waiting, Pending, Answered, GuardsOwned
  <2>. QED
    BY <2>2, <2>3 DEF Entries, Owns, Waiting
<1>. QED
  BY <1>1, PauseHolds, PTL

-----------------------------------------------------------------------------
(* The ledger and the journal. What a journal owes is defined by recursion;   *)
(* a set of numbers that holds 0 and the successor of each of its members is  *)
(* all of them.                                                               *)
LEMMA UpTo ==
    ASSUME NEW N \in Nat, NEW K \in SUBSET (0 .. N), 0 \in K,
           \A k \in K : k < N => k + 1 \in K
    PROVE  K = 0 .. N
<1>. DEFINE D == {k \in 0 .. N : \A j \in 0 .. k : j \in K}
            c == Cardinality(D)
<1>1. IsFiniteSet(0 .. N) /\ D \in SUBSET (0 .. N) /\ 0 \in D
  BY FS_Interval
<1>2. IsFiniteSet(D) /\ c \in Nat
  <2>. HIDE DEF D
  <2>. QED
    BY <1>1, FS_Subset, FS_CardinalityType
<1>3. ASSUME NEW k \in D PROVE k + 1 <= c /\ k \in Nat
  <2>1. k \in Nat /\ (0 .. k) \in SUBSET D
    OBVIOUS
  <2>2. Cardinality(0 .. k) = k + 1
    BY <2>1, FS_Interval
  <2>. HIDE DEF D
  <2>3. Cardinality(0 .. k) <= c
    BY <1>2, <2>1, FS_Subset
  <2>. QED
    BY <2>1, <2>2, <2>3
<1>. DEFINE d == c - 1
            I == 0 .. d
<1>. HIDE DEF c
<1>4. d \in Nat /\ d + 1 = c
  BY <1>1, <1>2, <1>3
<1>5. D \in SUBSET I
  BY <1>2, <1>3, <1>4
<1>6. Cardinality(I) = c /\ IsFiniteSet(I)
  <2>. HIDE DEF d
  <2>. QED
    BY <1>4, FS_Interval
<1>7. D = I
  <2>. HIDE DEF I, D
  <2>. QED
    BY <1>5, <1>6, FS_Subset DEF c
<1>8. d \in D /\ d + 1 \notin D
  BY <1>4, <1>7
<1>. HIDE DEF d
<1>9. d = N
  <2>1. d \in 0 .. N /\ d \in K /\ \A j \in 0 .. d : j \in K
    BY <1>4, <1>8
  <2>2. d < N => d + 1 \in D
    <3>1. \A j \in 0 .. (d + 1) : j \in 0 .. d \/ j = d + 1
      BY <1>4
    <3>. QED
      BY <1>4, <2>1, <3>1
  <2>. QED
    BY <1>8, <2>1, <2>2
<1>. QED
  BY <1>8, <1>9

(* One record of the walk (pending_add, pending_remove). *)
Walked(log, n, due) ==
    LET r == log[n]
    IN  IF Ended(log, n) THEN due
        ELSE IF r.kind = "resume" THEN due \ {<<r.pid, r.id>>}
        ELSE IF Cardinality(due) < MaxPaused THEN due \cup {<<r.pid, r.id>>}
        ELSE due

Dues(log) ==
    CHOOSE due : due = [n \in 0 .. Len(log) |->
          IF n = 0 THEN {}
          ELSE LET r == log[n]
               IN  IF Ended(log, n) THEN due[n - 1]
                   ELSE IF r.kind = "resume" THEN due[n - 1] \ {<<r.pid, r.id>>}
                   ELSE IF Cardinality(due[n - 1]) < MaxPaused
                     THEN due[n - 1] \cup {<<r.pid, r.id>>}
                   ELSE due[n - 1]]

LEMMA OwedIs ==
    ASSUME NEW log
    PROVE  Owed(log) = Dues(log)[Len(log)]
BY DEF Owed, Dues

DueTo(g, log, k) ==
    /\ DOMAIN g = 0 .. k /\ g = [n \in 0 .. k |-> g[n]] /\ g[0] = {}
    /\ \A n \in 1 .. k : g[n] = Walked(log, n, g[n - 1])

LEMMA DueExists ==
    ASSUME NEW log, NEW N \in Nat
    PROVE  \E g : DueTo(g, log, N)
<1>. DEFINE K == {k \in 0 .. N : \E g : DueTo(g, log, k)}
<1>1. 0 \in K
  <2>1. DueTo([n \in 0 .. 0 |-> {}], log, 0)
    BY DEF DueTo
  <2>. QED
    BY <2>1
<1>2. ASSUME NEW k \in K, k < N PROVE k + 1 \in K
  <2>1. PICK g : DueTo(g, log, k)
    OBVIOUS
  <2>. DEFINE m == k + 1
              h == [n \in 0 .. m |-> IF n = m THEN Walked(log, m, g[k]) ELSE g[n]]
  <2>2. k \in Nat /\ m \in 1 .. N /\ m = k + 1
    BY <1>2
  <2>. HIDE DEF m
  <2>3. /\ \A n \in 0 .. k : h[n] = g[n]
        /\ DOMAIN h = 0 .. m /\ h = [n \in 0 .. m |-> h[n]]
    BY <2>2
  <2>4. h[m] = Walked(log, m, g[k])
    BY <2>2
  <2>. HIDE DEF h
  <2>5. ASSUME NEW n \in 1 .. m PROVE h[n] = Walked(log, n, h[n - 1])
    <3>1. CASE n = m
      <4>1. n - 1 = k /\ k \in 0 .. k
        BY <2>2, <3>1
      <4>. QED
        BY <2>3, <2>4, <3>1, <4>1
    <3>2. CASE n # m
      <4>1. n \in 1 .. k /\ n \in 0 .. k /\ n - 1 \in 0 .. k
        BY <2>2, <3>2
      <4>. QED
        BY <2>1, <2>3, <4>1 DEF DueTo
    <3>. QED
      BY <3>1, <3>2
  <2>6. h[0] = {}
    <3>1. 0 \in 0 .. k /\ g[0] = {}
      BY <2>1, <2>2 DEF DueTo
    <3>. QED
      BY <2>3, <3>1
  <2>7. DueTo(h, log, m)
    BY <2>3, <2>5, <2>6 DEF DueTo
  <2>. QED
    BY <2>2, <2>7 DEF m
<1>3. K = 0 .. N
  <2>1. K \in SUBSET (0 .. N)
    OBVIOUS
  <2>. HIDE DEF K
  <2>. QED
    BY <1>1, <1>2, <2>1, UpTo
<1>. QED
  BY <1>3

LEMMA DuesMeans ==
    ASSUME NEW log, Len(log) \in Nat
    PROVE  DueTo(Dues(log), log, Len(log))
<1>. DEFINE N == Len(log)
            S == Dues(log)
            E(g) == [n \in 0 .. N |->
                       IF n = 0 THEN {}
                       ELSE LET r == log[n]
                            IN  IF Ended(log, n) THEN g[n - 1]
                                ELSE IF r.kind = "resume"
                                  THEN g[n - 1] \ {<<r.pid, r.id>>}
                                ELSE IF Cardinality(g[n - 1]) < MaxPaused
                                  THEN g[n - 1] \cup {<<r.pid, r.id>>}
                                ELSE g[n - 1]]
<1>1. PICK g : DueTo(g, log, N)
  BY DueExists
<1>2. \A f, n : n \in 0 .. N => E(f)[n] = IF n = 0 THEN {} ELSE Walked(log, n, f[n - 1])
  BY DEF Walked
<1>3. \A f : DOMAIN E(f) = 0 .. N /\ E(f) = [n \in 0 .. N |-> E(f)[n]]
  OBVIOUS
<1>4. (\E f : f = E(f)) => S = E(S)
  BY DEF Dues
<1>. HIDE DEF E, S, N
<1>5. g = E(g)
  <2>1. \A n \in 0 .. N : n # 0 => n \in 1 .. N
    BY DEF N
  <2>2. \A n \in 0 .. N : g[n] = E(g)[n]
    BY <1>1, <1>2, <2>1 DEF DueTo
  <2>3. g = [n \in 0 .. N |-> g[n]] /\ E(g) = [n \in 0 .. N |-> E(g)[n]]
    BY <1>1, <1>3 DEF DueTo
  <2>. QED
    BY <2>2, <2>3
<1>6. S = E(S)
  BY <1>4, <1>5
<1>7. \A n \in 0 .. N : S[n] = IF n = 0 THEN {} ELSE Walked(log, n, S[n - 1])
  BY <1>2, <1>6
<1>8. DOMAIN S = 0 .. N /\ S = [n \in 0 .. N |-> S[n]]
  BY <1>3, <1>6
<1>9. N \in Nat /\ \A n \in 1 .. N : n \in 0 .. N /\ n # 0
  BY DEF N
<1>10. S[0] = {} /\ \A n \in 1 .. N : S[n] = Walked(log, n, S[n - 1])
  BY <1>7, <1>9
<1>11. DueTo(S, log, N)
  BY <1>8, <1>10, Zenon DEF DueTo
<1>. QED
  BY <1>11 DEF S, N

LEMMA OwedByNothing == Owed(<<>>) = {}
<1>1. Len(<<>>) = 0
  OBVIOUS
<1>. QED
  BY <1>1, OwedIs, DuesMeans DEF DueTo

(* One record more. *)
LEMMA OwedAppend ==
    ASSUME NEW S, NEW log \in Seq(S), NEW r \in S
    PROVE  Owed(Append(log, r)) = Walked(Append(log, r), Len(log) + 1, Owed(log))
<1>. DEFINE N == Len(log)
            m == N + 1
            more == Append(log, r)
            F == Dues(log)
            H == Dues(more)
            K == {n \in 0 .. N : H[n] = F[n]}
<1>1. N \in Nat /\ Len(more) = m /\ m = N + 1
      /\ \A n \in 1 .. N : more[n] = log[n]
  OBVIOUS
<1>. HIDE DEF more, N, m
<1>2. DueTo(F, log, N) /\ DueTo(H, more, m)
  BY <1>1, DuesMeans DEF N
<1>. HIDE DEF F, H
<1>3. K = 0 .. N
  <2>1. K \in SUBSET (0 .. N) /\ 0 \in K
    <3>1. 0 \in 0 .. N
      BY <1>1
    <3>2. H[0] = F[0]
      BY <1>2 DEF DueTo
    <3>. QED
      BY <3>1, <3>2
  <2>2. ASSUME NEW k \in K, k < N PROVE k + 1 \in K
    <3>. DEFINE j == k + 1
    <3>1. j \in 1 .. N /\ j \in 1 .. m /\ j - 1 = k /\ j \in 0 .. N /\ j = k + 1
      BY <1>1, <2>2
    <3>0. \A n \in 1 .. j : more[n] = log[n]
      BY <1>1, <3>1
    <3>. HIDE DEF j
    <3>2. F[j] = Walked(log, j, F[k]) /\ H[j] = Walked(more, j, H[k])
      BY <1>2, <3>1 DEF DueTo
    <3>3. Ended(more, j) <=> Ended(log, j)
      BY <3>0 DEF Ended
    <3>4. more[j] = log[j]
      BY <1>1, <3>1
    <3>5. Walked(more, j, H[k]) = Walked(log, j, H[k])
      BY <3>3, <3>4 DEF Walked
    <3>. QED
      BY <2>2, <3>1, <3>2, <3>5
  <2>. HIDE DEF K
  <2>. QED
    BY <1>1, <2>1, <2>2, UpTo
<1>4. H[m] = Walked(more, m, H[N])
  <2>1. m \in 1 .. m /\ m - 1 = N
    BY <1>1
  <2>. QED
    BY <1>2, <2>1 DEF DueTo
<1>5. H[N] = F[N]
  BY <1>1, <1>3
<1>. QED
  BY <1>1, <1>4, <1>5, OwedIs DEF F, H, N, m, more

(* What a record more changes behind the end of the walk. *)
LEMMA LateAppend ==
    ASSUME NEW S, NEW log \in Seq(S), NEW r \in S, NEW kind \in {"pause", "resume"}
    PROVE  Late(Append(log, r), kind) =
             IF r.kind = kind /\ Ended(log, Len(log))
               THEN Late(log, kind) \cup {<<r.pid, r.id>>} ELSE Late(log, kind)
<1>. DEFINE N == Len(log)
            m == N + 1
            more == Append(log, r)
<1>1. /\ N \in Nat /\ m = N + 1 /\ more[m] = r
      /\ DOMAIN log = 1 .. N /\ DOMAIN more = 1 .. m
      /\ \A n \in 1 .. N : more[n] = log[n]
  OBVIOUS
<1>. HIDE DEF more, N, m
<1>2. ASSUME NEW n \in 1 .. N PROVE Ended(more, n) <=> Ended(log, n)
  BY <1>1 DEF Ended
<1>3. r.kind = kind => (Ended(more, m) <=> Ended(log, N))
  <2>1. \A n \in 1 .. m : n = m \/ n \in 1 .. N
    BY <1>1
  <2>2. \A n \in 1 .. N : n \in 1 .. m
    BY <1>1
  <2>. QED
    BY <1>1, <2>1, <2>2 DEF Ended
<1>4. 1 .. m = (1 .. N) \cup {m} /\ m \notin 1 .. N
  BY <1>1
<1>. DEFINE l == {n \in DOMAIN log : log[n].kind = kind /\ Ended(log, n)}
            h == {n \in DOMAIN more : more[n].kind = kind /\ Ended(more, n)}
<1>5. h = IF r.kind = kind /\ Ended(log, N) THEN l \cup {m} ELSE l
  BY <1>1, <1>2, <1>3, <1>4, Zenon
<1>6. l \in SUBSET (1 .. N)
  BY <1>1
<1>. HIDE DEF l, h
<1>7. {<<more[n].pid, more[n].id>> : n \in l} = {<<log[n].pid, log[n].id>> : n \in l}
  BY <1>1, <1>6
<1>8. {<<more[n].pid, more[n].id>> : n \in l \cup {m}} =
        {<<more[n].pid, more[n].id>> : n \in l} \cup {<<r.pid, r.id>>}
  BY <1>1
<1>. QED
  BY <1>5, <1>7, <1>8 DEF Late, l, h, N, more

LEMMA LateNone ==
    ASSUME NEW S, NEW log \in Seq(S), ~Ended(log, Len(log)), NEW kind
    PROVE  Late(log, kind) = {}
<1>1. ASSUME NEW n \in DOMAIN log PROVE ~Ended(log, n)
  BY DEF Ended
<1>. QED
  BY <1>1 DEF Late

(* What the ledger holds, as the journal writes it. *)
This == <<op.pid, op.id>>
Records == [kind : {"pause", "resume", "large"}, pid : Pids \cup {0},
            id : 0 .. host.ids]

(* The walk over this journal finds these pauses, short of what stands behind *)
(* its end.                                                                   *)
Match(log, pairs) == /\ pairs \subseteq Owed(log) \cup Late(log, "pause")
                     /\ Owed(log) \subseteq pairs \cup Late(log, "resume")

(* ... and perhaps one more. *)
MatchBut(log, pairs, one) ==
    /\ pairs \subseteq Owed(log) \cup Late(log, "pause")
    /\ Owed(log) \subseteq pairs \cup {one} \cup Late(log, "resume")

(* With appends that succeed, the journal owes what is in the ledger, short   *)
(* of the action in flight: a pause is in the ledger first, a resume leaves   *)
(* it first.                                                                  *)
Booked ==
    /\ pc = "recover" => ledger = {} /\ journal = <<>>
    /\ pc \in {"idle", "exec"} => Match(journal, Held)
    /\ op.kind = "pause" /\ pc \in {"guard", "check", "kill", "settle"} =>
          This \in Held /\ Match(journal, Held \ {This})
    /\ op.kind = "resume" /\ pc \in {"check", "kill", "settle"} =>
          Match(journal, Held)
    /\ pc = "record" /\ ~op.ok /\ op.kind # "release" => Match(journal, Held)
    /\ pc = "record" /\ op.ok /\ op.kind = "pause" =>
          This \in Held /\ Match(journal, Held \ {This})
    /\ pc = "record" /\ op.ok /\ op.kind = "resume" =>
          This \notin Held /\ MatchBut(journal, Held, This)
    /\ pc = "record" => op.kind \in {"pause", "resume", "release"}

BInv == /\ Down => ledger = {}
        /\ journal \in Seq(Records)
        /\ ~host.faults => Booked

(* Nobody asks for the lock while a run holds it, ... *)
StartsAlone == runs' # runs => Down

(* ... which is the case where only one run is started. *)
Started == host.runs = 1 /\ runs = 0 => Down

(* The record of a pause that succeeded: there is room for it.               *)
LEMMA MatchPause ==
    ASSUME NEW S, NEW log \in Seq(S), NEW r \in S, NEW pairs, NEW x \in pairs,
           IsFiniteSet(pairs), Cardinality(pairs) <= MaxPaused,
           r.kind = "pause", <<r.pid, r.id>> = x, Match(log, pairs \ {x})
    PROVE  Match(Append(log, r), pairs)
<1>. DEFINE more == Append(log, r)
            m == Len(log) + 1
            due == Owed(log)
<1>1. /\ Owed(more) = Walked(more, m, due) /\ more[m] = r
      /\ Late(more, "resume") = Late(log, "resume")
      /\ Late(more, "pause") = IF Ended(log, Len(log))
                                 THEN Late(log, "pause") \cup {x}
                                 ELSE Late(log, "pause")
  BY OwedAppend, LateAppend
<1>2. Ended(more, m) <=> Ended(log, Len(log))
  <2>1. /\ Len(log) \in Nat /\ m = Len(log) + 1 /\ \A n \in 1 .. Len(log) : more[n] = log[n]
    OBVIOUS
  <2>2. \A n : n \in 1 .. m <=> n = m \/ n \in 1 .. Len(log)
    BY <2>1
  <2>. HIDE DEF more, m
  <2>. QED
    BY <1>1, <2>1, <2>2 DEF Ended
<1>. HIDE DEF more, m, due
<1>3. CASE Ended(log, Len(log))
  <2>1. Owed(more) = due
    BY <1>1, <1>2, <1>3 DEF Walked
  <2>. QED
    BY <1>1, <1>3, <2>1 DEF Match, due, more
<1>4. CASE ~Ended(log, Len(log))
  <2>1. Late(log, "pause") = {} /\ Late(log, "resume") = {}
    BY <1>4, LateNone
  <2>2. due = pairs \ {x}
    BY <2>1 DEF Match, due
  <2>3. Cardinality(pairs \ {x}) < MaxPaused
    <3>1. Cardinality(pairs \ {x}) = Cardinality(pairs) - 1 /\ Cardinality(pairs) \in Nat
      BY FS_RemoveElement, FS_CardinalityType
    <3>. QED
      BY <3>1, PauseAssumption
  <2>4. Owed(more) = due \cup {x}
    BY <1>1, <1>2, <1>4, <2>2, <2>3 DEF Walked
  <2>. QED
    BY <2>1, <2>2, <2>4, <1>1, <1>4 DEF Match, more
<1>. QED
  BY <1>3, <1>4

(* The record of a resume that succeeded. *)
LEMMA MatchResume ==
    ASSUME NEW S, NEW log \in Seq(S), NEW r \in S, NEW pairs, NEW x,
           r.kind = "resume", <<r.pid, r.id>> = x, x \notin pairs,
           MatchBut(log, pairs, x)
    PROVE  Match(Append(log, r), pairs)
<1>. DEFINE more == Append(log, r)
            m == Len(log) + 1
            due == Owed(log)
<1>1. /\ Owed(more) = Walked(more, m, due) /\ more[m] = r
      /\ Late(more, "pause") = Late(log, "pause")
      /\ Late(more, "resume") = IF Ended(log, Len(log))
                                  THEN Late(log, "resume") \cup {x}
                                  ELSE Late(log, "resume")
  BY OwedAppend, LateAppend
<1>2. Ended(more, m) <=> Ended(log, Len(log))
  <2>1. /\ Len(log) \in Nat /\ m = Len(log) + 1 /\ \A n \in 1 .. Len(log) : more[n] = log[n]
    OBVIOUS
  <2>2. \A n : n \in 1 .. m <=> n = m \/ n \in 1 .. Len(log)
    BY <2>1
  <2>. HIDE DEF more, m
  <2>. QED
    BY <1>1, <2>1, <2>2 DEF Ended
<1>. HIDE DEF more, m, due
<1>3. CASE Ended(log, Len(log))
  <2>1. Owed(more) = due
    BY <1>1, <1>2, <1>3 DEF Walked
  <2>. QED
    BY <1>1, <1>3, <2>1 DEF Match, MatchBut, due, more
<1>4. CASE ~Ended(log, Len(log))
  <2>1. Late(log, "pause") = {} /\ Late(log, "resume") = {}
    BY <1>4, LateNone
  <2>2. Owed(more) = due \ {x}
    BY <1>1, <1>2, <1>4 DEF Walked
  <2>. QED
    BY <2>1, <2>2, <1>1, <1>4 DEF Match, MatchBut, due, more
<1>. QED
  BY <1>3, <1>4

(* A large record hides nothing that was written before it. *)
LEMMA MatchLarge ==
    ASSUME NEW S, NEW log \in Seq(S), NEW r \in S, NEW pairs,
           r.kind = "large", Match(log, pairs)
    PROVE  Match(Append(log, r), pairs)
<1>. DEFINE more == Append(log, r)
            m == Len(log) + 1
<1>1. /\ Owed(more) = Walked(more, m, Owed(log)) /\ more[m] = r
      /\ \A kind \in {"pause", "resume"} : Late(more, kind) = Late(log, kind)
  BY OwedAppend, LateAppend
<1>2. m \in 1 .. m
  OBVIOUS
<1>. HIDE DEF more, m
<1>3. Owed(more) = Owed(log)
  BY <1>1, <1>2 DEF Walked, Ended
<1>. QED
  BY <1>1, <1>3 DEF Match, more

(* Fewer pairs than entries. *)
LEMMA PairedBound ==
    ASSUME TInv
    PROVE  /\ IsFiniteSet(Held) /\ Cardinality(Held) \in Nat
           /\ Cardinality(Held) <= MaxPaused
<1>. DEFINE f == [e \in ledger |-> <<e.pid, e.id>>]
<1>1. IsFiniteSet(ledger) /\ Cardinality(ledger) <= MaxPaused
      /\ Cardinality(ledger) \in Nat
  BY FS_CardinalityType DEF TInv, TypeOK
<1>2. f \in Surjection(ledger, Held)
  BY DEF Surjection, Held
<1>3. IsFiniteSet(Held) /\ Cardinality(Held) <= Cardinality(ledger)
  <2>. HIDE DEF f, Held
  <2>. QED
    BY <1>1, <1>2, FS_Surjection
<1>. QED
  BY <1>1, <1>3, FS_CardinalityType, PauseAssumption

(* What forgetting leaves of the pairs. *)
LEMMA ForgetPairs ==
    ASSUME TInv, NEW next, Forget(Entries(op.pid, op.id), next), op' = op
    PROVE  \/ pc' = "dead" /\ ledger' = {}
           \/ pc' = next /\ Held' = Held \ {This}
<1>1. Entries(op.pid, op.id) \in SUBSET ledger
  BY DEF Entries
<1>2. \/ pc' = "dead" /\ ledger' = {}
      \/ pc' = next /\ ledger' = ledger \ Entries(op.pid, op.id)
  BY <1>1, ForgetStep
<1>3. ASSUME ledger' = ledger \ Entries(op.pid, op.id)
      PROVE  Held' = Held \ {This}
  BY <1>3 DEF Held, This, Entries
<1>. QED
  BY <1>2, <1>3

LEMMA BookInit == Init => BInv /\ Started
BY DEF Init, BInv, Booked, Down, Started, Idle

LEMMA BookChoose ==
    ASSUME TInv, Booked, Choose, host' = host
    PROVE  Booked' /\ pc' \notin {"exited", "dead"} /\ journal' = journal
<1>1. journal' = journal /\ Match(journal, Held)
  BY DEF Choose, Booked, past
<1>2. PICK p \in Pids, kind \in {"pause", "resume"} :
         /\ op' = [kind |-> kind, pid |-> p, id |-> snapshot[p], ok |-> FALSE]
         /\ \/ pc' = "record" /\ UNCHANGED ledger
            \/ pc' = "check" /\ UNCHANGED ledger /\ kind = "resume"
            \/ /\ kind = "pause" /\ pc' = "guard"
               /\ Entries(p, snapshot[p]) = {}
               /\ ledger' = ledger \cup {[pid |-> p, id |-> snapshot[p],
                                          guard |-> 0]}
  BY DEF Choose
<1>3. op'.kind = kind /\ ~op'.ok /\ op'.pid = p /\ op'.id = snapshot[p]
  BY <1>2
<1>4. Owed(journal)' = Owed(journal)
  BY <1>1
<1>5. CASE UNCHANGED ledger
  <2>1. Held' = Held
    BY <1>5 DEF Held
  <2>2. pc' = "record" \/ (pc' = "check" /\ kind = "resume")
    <3>1. ASSUME kind = "pause", pc' = "guard", Entries(p, snapshot[p]) = {},
                 ledger' = ledger \cup {[pid |-> p, id |-> snapshot[p], guard |-> 0]}
          PROVE  FALSE
      <4>. DEFINE x == [pid |-> p, id |-> snapshot[p], guard |-> 0]
      <4>1. x \in ledger /\ x.pid = p /\ x.id = snapshot[p]
        BY <1>5, <3>1
      <4>. HIDE DEF x
      <4>. QED
        BY <3>1, <4>1 DEF Entries
    <3>. QED
      BY <1>2, <3>1
  <2>. QED
    BY <1>1, <1>3, <1>4, <2>1, <2>2 DEF Booked
<1>6. CASE /\ kind = "pause" /\ pc' = "guard" /\ Entries(p, snapshot[p]) = {}
           /\ ledger' = ledger \cup {[pid |-> p, id |-> snapshot[p], guard |-> 0]}
  <2>. DEFINE x == [pid |-> p, id |-> snapshot[p], guard |-> 0]
  <2>1. x.pid = p /\ x.id = snapshot[p] /\ ledger' = ledger \cup {x}
    BY <1>6
  <2>. HIDE DEF x
  <2>2. <<p, snapshot[p]>> \notin Held
    BY <1>6 DEF Entries, Held
  <2>3. Held' = Held \cup {<<p, snapshot[p]>>}
    BY <2>1 DEF Held
  <2>4. This' = <<p, snapshot[p]>>
    BY <1>3 DEF This
  <2>5. This' \in Held' /\ Held = Held' \ {This'}
    BY <2>2, <2>3, <2>4
  <2>. QED
    BY <1>1, <1>3, <1>4, <1>6, <2>5 DEF Booked
<1>. QED
  BY <1>1, <1>2, <1>5, <1>6

LEMMA BookSpawnGuardian ==
    ASSUME TInv, Booked, SpawnGuardian, host' = host
    PROVE  Booked' /\ (Down' => ledger' = {}) /\ journal' = journal
<1>1. /\ journal' = journal /\ op' = op /\ pc = "guard" /\ op.kind = "pause"
      /\ This \in Held /\ Match(journal, Held \ {This}) /\ ~op.ok
  BY DEF SpawnGuardian, Booked, past, TInv, Phase
<1>2. Owed(journal)' = Owed(journal) /\ This' = This
  BY <1>1 DEF This
<1>3. CASE /\ ledger' = (ledger \ Entries(op.pid, op.id)) \cup
                {[pid |-> op.pid, id |-> op.id, guard |-> Len(guards) + 1]}
           /\ pc' = "check"
  <2>. DEFINE x == [pid |-> op.pid, id |-> op.id, guard |-> Len(guards) + 1]
  <2>1. /\ x.pid = op.pid /\ x.id = op.id
        /\ ledger' = (ledger \ Entries(op.pid, op.id)) \cup {x}
    BY <1>3
  <2>. HIDE DEF x
  <2>2. Held' = (Held \ {This}) \cup {This}
    BY <2>1 DEF Held, Entries, This
  <2>. QED
    BY <1>1, <1>2, <1>3, <2>2 DEF Booked, Down
<1>4. CASE Forget(Entries(op.pid, op.id), "record")
  <2>1. \/ pc' = "dead" /\ ledger' = {}
        \/ pc' = "record" /\ Held' = Held \ {This}
    BY <1>1, <1>4, ForgetPairs
  <2>. QED
    BY <1>1, <1>2, <2>1 DEF Booked, Down
<1>. QED
  BY <1>3, <1>4 DEF SpawnGuardian

LEMMA BookSignal ==
    ASSUME TInv, Booked, CheckIdentity \/ Kill \/ Settle, host' = host
    PROVE  Booked' /\ (Down' => ledger' = {}) /\ journal' = journal
<1>1. journal' = journal /\ Owed(journal)' = Owed(journal)
  BY DEF CheckIdentity, Kill, Settle, past
<1>2. op.kind \in {"none", "pause", "resume", "release"} /\ op.ok \in BOOLEAN
  BY DEF TInv, TypeOK
<1>3. CASE CheckIdentity
  <2>1. /\ UNCHANGED <<op, ledger>> /\ pc = "check" /\ ~op.ok /\ op.kind # "none"
        /\ pc' = IF IdentityMatches(op.pid, op.id) THEN "kill"
                 ELSE IF Releasing THEN "record" ELSE "settle"
    BY <1>3 DEF CheckIdentity, TInv, Phase
  <2>2. Held' = Held /\ This' = This
    BY <2>1 DEF Held, This
  <2>. QED
    BY <1>1, <1>2, <2>1, <2>2 DEF Booked, Down, Releasing
<1>4. CASE Kill
  <2>1. /\ ledger' = ledger /\ pc = "kill" /\ op.kind # "none"
        /\ pc' = IF Releasing THEN "record" ELSE "settle"
    BY <1>4 DEF Kill, TInv, Phase
  <2>2. op'.kind = op.kind /\ op'.pid = op.pid /\ op'.id = op.id
    BY <1>4 DEF Kill, TInv, TypeOK
  <2>3. Held' = Held /\ This' = This
    BY <2>1, <2>2 DEF Held, This
  <2>. QED
    BY <1>1, <1>2, <2>1, <2>2, <2>3 DEF Booked, Down, Releasing
<1>5. CASE Settle
  <2>1. op' = op /\ pc = "settle" /\ op.kind \in {"pause", "resume"}
    BY <1>5 DEF Settle, TInv, Phase
  <2>2. This' = This
    BY <2>1 DEF This
  <2>3. CASE op.ok = (op.kind = "resume")
    <3>1. Forget(Entries(op.pid, op.id), "record")
      BY <1>5, <2>3 DEF Settle
    <3>2. \/ pc' = "dead" /\ ledger' = {}
          \/ pc' = "record" /\ Held' = Held \ {This}
      BY <2>1, <3>1, ForgetPairs
    <3>3. (op.kind = "pause" /\ ~op.ok) \/ (op.kind = "resume" /\ op.ok)
      BY <1>2, <2>1, <2>3
    <3>4. Match(journal, Held) =>
            This \notin Held \ {This} /\ MatchBut(journal, Held \ {This}, This)
      BY DEF Match, MatchBut
    <3>. QED
      BY <1>1, <2>1, <2>2, <3>2, <3>3, <3>4 DEF Booked, Down
  <2>4. CASE op.ok # (op.kind = "resume")
    <3>1. pc' = "record" /\ ledger' = ledger
      BY <1>5, <2>4 DEF Settle
    <3>2. Held' = Held
      BY <3>1 DEF Held
    <3>3. (op.kind = "pause" /\ op.ok) \/ (op.kind = "resume" /\ ~op.ok)
      BY <1>2, <2>1, <2>4
    <3>. QED
      BY <1>1, <2>1, <2>2, <3>1, <3>2, <3>3 DEF Booked, Down
  <2>. QED
    BY <2>3, <2>4
<1>. QED
  BY <1>3, <1>4, <1>5

(* The record of an action that succeeded settles the account: there is room  *)
(* for a pause, because its entry is one of the MaxPaused of the ledger.      *)
LEMMA BookRecord ==
    ASSUME TInv, journal \in Seq(Records), RecordAction, host' = host
    PROVE  /\ journal' \in Seq(Records)' /\ ~Down'
           /\ Booked /\ ~host.faults => Booked'
<1>. DEFINE r == [kind |-> IF op.kind = "pause" THEN "pause" ELSE "resume",
                  pid |-> op.pid, id |-> op.id]
<1>1. /\ pc = "record" /\ UNCHANGED <<op, ledger>>
      /\ pc' = IF Releasing THEN "dismiss" ELSE "idle"
      /\ \/ journal' = IF op.ok THEN Append(journal, r) ELSE journal
         \/ host.faults /\ journal' = journal
  BY DEF RecordAction
<1>2. /\ op.ok \in BOOLEAN /\ op.pid \in Pids \cup {0} /\ op.id \in 0 .. host.ids
  BY DEF TInv, TypeOK
<1>3. /\ r \in Records /\ <<r.pid, r.id>> = This
      /\ r.kind = IF op.kind = "pause" THEN "pause" ELSE "resume"
  BY <1>2 DEF Records, This
<1>. HIDE DEF r
<1>4. Records' = Records
  BY DEF Records
<1>5. journal' \in Seq(Records)
  BY <1>1, <1>3, SMTT(30)
<1>6. ~Down'
  BY <1>1 DEF Down
<1>7. ASSUME Booked, ~host.faults PROVE Booked'
  <2>1. Held' = Held /\ This' = This
    BY <1>1 DEF Held, This
  <2>2. CASE Releasing
    BY <1>1, <2>2 DEF Booked, Releasing
  <2>3. CASE ~Releasing
    <3>1. op.kind \in {"pause", "resume"} /\ op.kind # "release" /\ pc' = "idle"
      BY <1>1, <1>7, <2>3 DEF Booked, Releasing
    <3>2. Match(journal', Held)
      <4>1. CASE ~op.ok
        <5>1. Match(journal, Held) /\ journal' = journal
          BY <1>1, <1>7, <3>1, <4>1 DEF Booked
        <5>. QED
          BY <5>1, Zenon
      <4>2. CASE op.ok
        <5>1. journal' = Append(journal, r)
          BY <1>1, <1>7, <4>2
        <5>2. CASE op.kind = "pause"
          <6>1. /\ This \in Held /\ Match(journal, Held \ {This})
                /\ r.kind = "pause" /\ <<r.pid, r.id>> = This
            BY <1>1, <1>3, <1>7, <4>2, <5>2 DEF Booked
          <6>2. IsFiniteSet(Held) /\ Cardinality(Held) <= MaxPaused
            BY PairedBound
          <6>3. Match(Append(journal, r), Held)
            BY <1>3, <6>1, <6>2, MatchPause, Zenon
          <6>. QED
            BY <5>1, <6>3, Zenon
        <5>3. CASE op.kind = "resume"
          <6>1. /\ This \notin Held /\ MatchBut(journal, Held, This)
                /\ r.kind = "resume" /\ <<r.pid, r.id>> = This
            BY <1>1, <1>3, <1>7, <4>2, <5>3 DEF Booked
          <6>2. Match(Append(journal, r), Held)
            BY <1>3, <6>1, MatchResume, Zenon
          <6>. QED
            BY <5>1, <6>2, Zenon
        <5>. QED
          BY <3>1, <5>2, <5>3
      <4>. QED
        BY <1>2, <4>1, <4>2
    <3>3. Match(journal', Held')
      BY <2>1, <3>2
    <3>. QED
      BY <1>1, <3>1, <3>3 DEF Booked
  <2>. QED
    BY <2>2, <2>3
<1>. QED
  BY <1>4, <1>5, <1>6, <1>7

LEMMA BookPlain ==
    ASSUME TInv, Booked, host' = host,
           \/ ExecStart \/ ExecDone \/ OrphanExits \/ EndRun \/ ReleaseNext
           \/ DismissReleased \/ Recover \/ Crash
    PROVE  Booked' /\ journal' = journal
<1>1. journal' = journal /\ Owed(journal)' = Owed(journal)
  BY DEF ExecStart, ExecDone, OrphanExits, EndRun, ReleaseNext, DismissReleased,
         Recover, Crash, past
<1>2. CASE ExecStart \/ ExecDone \/ EndRun
  <2>1. ledger' = ledger /\ pc \in {"idle", "exec"} /\ pc' \in {"idle", "exec", "release"}
    BY <1>2 DEF ExecStart, ExecDone, EndRun
  <2>2. Held' = Held
    BY <2>1 DEF Held
  <2>. QED
    BY <1>1, <2>1, <2>2 DEF Booked
<1>3. CASE OrphanExits
  <2>1. UNCHANGED <<pc, op, ledger>>
    BY <1>3 DEF OrphanExits
  <2>2. Held' = Held /\ This' = This
    BY <2>1 DEF Held, This
  <2>. QED
    BY <1>1, <2>1, <2>2 DEF Booked
<1>4. CASE ReleaseNext
  <2>1. pc' = "exited" \/ (pc' = "check" /\ op'.kind = "release")
    BY <1>4 DEF ReleaseNext
  <2>. QED
    BY <1>1, <2>1 DEF Booked
<1>5. CASE DismissReleased
  <2>1. pc' \in {"dead", "release"}
    BY <1>5 DEF DismissReleased, Forget
  <2>. QED
    BY <1>1, <2>1 DEF Booked
<1>6. CASE Recover
  <2>1. pc' = "idle" /\ ledger = {} /\ ledger' = {} /\ journal = <<>>
    BY <1>6 DEF Recover, Booked
  <2>2. Held' = {} /\ Match(journal, {})
    BY <2>1, OwedByNothing DEF Held, Match, Late
  <2>. QED
    BY <1>1, <2>1, <2>2 DEF Booked
<1>7. CASE Crash
  BY <1>1, <1>7 DEF Crash, Booked
<1>. QED
  BY <1>2, <1>3, <1>4, <1>5, <1>6, <1>7

(* A large record changes nothing that is booked. *)
LEMMA BookLarge ==
    ASSUME TInv, journal \in Seq(Records), LargeRecord, host' = host
    PROVE  /\ journal' \in Seq(Records)
           /\ Booked => Booked'
<1>. DEFINE r == [kind |-> "large", pid |-> 0, id |-> 0]
<1>1. /\ journal' = Append(journal, r) /\ pc = "idle"
      /\ UNCHANGED <<pc, op, ledger>>
  BY DEF LargeRecord
<1>2. r \in Records /\ r.kind = "large"
  BY HostTypes DEF Records, TInv
<1>. HIDE DEF r
<1>3. journal' \in Seq(Records)
  BY <1>1, <1>2, SMTT(30)
<1>4. ASSUME Booked PROVE Booked'
  <2>1. Match(journal, Held)
    BY <1>1, <1>4 DEF Booked
  <2>2. Match(Append(journal, r), Held)
    BY <1>2, <2>1, MatchLarge, Zenon
  <2>3. Held' = Held
    BY <1>1 DEF Held
  <2>4. Match(journal', Held')
    BY <1>1, <2>2, <2>3, Zenon
  <2>. QED
    BY <1>1, <2>4 DEF Booked
<1>. QED
  BY <1>3, <1>4

(* A run that is over leaves no ledger behind. *)
LEMMA DownIsEmpty ==
    ASSUME TInv, Down => ledger = {}, host' = host,
           \/ ExecStart \/ LargeRecord \/ ExecDone \/ OrphanExits \/ EndRun \/ ReleaseNext
           \/ DismissReleased \/ Recover \/ Crash \/ StartRun \/ Choose
           \/ SpawnGuardian \/ CheckIdentity \/ Kill \/ Settle \/ RecordAction
    PROVE  Down' => ledger' = {}
<1>1. CASE \/ ExecStart \/ LargeRecord \/ ExecDone \/ EndRun \/ Recover \/ Choose
           \/ CheckIdentity \/ Kill \/ RecordAction
  BY <1>1 DEF ExecStart, LargeRecord, ExecDone, EndRun, Recover, Choose, CheckIdentity, Kill,
     RecordAction, Down
<1>2. CASE OrphanExits \/ ReleaseNext \/ Crash \/ StartRun
  BY <1>2 DEF OrphanExits, ReleaseNext, Crash, StartRun, Down
<1>3. CASE DismissReleased \/ SpawnGuardian \/ Settle
  <2>1. CASE \E next \in {"release", "record"} : Forget(Entries(op.pid, op.id), next)
    BY <2>1 DEF Forget, Down
  <2>. QED
    BY <1>3, <2>1 DEF DismissReleased, SpawnGuardian, Settle, Down
<1>. QED
  BY <1>1, <1>2, <1>3

LEMMA BookNext == TInv /\ BInv /\ [Next]_vars /\ StartsAlone => BInv'
<1>. SUFFICES ASSUME TInv, BInv, [Next]_vars, StartsAlone PROVE BInv'
  OBVIOUS
<1>1. host' = host /\ Records' = Records
  BY TypeNext DEF Records
<1>2. /\ Down => ledger = {}
      /\ journal \in Seq(Records)
      /\ ~host.faults => Booked
  BY DEF BInv
<1>3. CASE UNCHANGED <<pc, op, ledger, journal>>
  <2>1. Held' = Held /\ This' = This /\ journal' = journal
    BY <1>3 DEF Held, This
  <2>2. Down' <=> Down
    BY <1>3 DEF Down
  <2>3. Booked => Booked'
    BY <1>3, <2>1 DEF Booked
  <2>4. journal' \in Seq(Records)'
    <3>1. journal' = journal
      BY <1>3
    <3>. QED
      BY <1>1, <1>2, <3>1, Zenon
  <2>. QED
    BY <1>1, <1>2, <1>3, <2>2, <2>3, <2>4 DEF BInv
<1>4. CASE StartRun
  <2>1. /\ Down /\ ledger' = ledger /\ journal' = <<>> /\ op' = op
        /\ pc' = pc \/ pc' = "recover"
    <3>1. runs' # runs
      BY <1>4 DEF StartRun, TInv, TypeOK
    <3>. QED
      BY <1>4, <3>1 DEF StartRun, StartsAlone
  <2>2. ledger' = {} /\ pc' \in {"exited", "dead", "recover"}
    BY <1>2, <2>1 DEF Down
  <2>3. <<>> \in Seq(Records)
    OBVIOUS
  <2>. QED
    BY <1>1, <2>1, <2>2, <2>3 DEF BInv, Booked
<1>5. CASE RecordAction
  <2>1. Down' => ledger' = {}
    BY <1>1, <1>2, <1>5, DownIsEmpty
  <2>. QED
    BY <1>1, <1>2, <1>5, <2>1, BookRecord DEF BInv
<1>6. CASE \/ ExecStart \/ ExecDone \/ OrphanExits \/ EndRun \/ ReleaseNext
           \/ DismissReleased \/ Recover \/ Crash \/ Choose \/ SpawnGuardian
           \/ CheckIdentity \/ Kill \/ Settle
  <2>1. Down' => ledger' = {}
    BY <1>1, <1>2, <1>6, DownIsEmpty
  <2>2. journal' = journal
    BY <1>6 DEF ExecStart, ExecDone, OrphanExits, EndRun, ReleaseNext,
       DismissReleased, Recover, Crash, Choose, SpawnGuardian, CheckIdentity,
       Kill, Settle, past
  <2>3. ASSUME ~host.faults PROVE Booked'
    <3>1. Booked /\ host' = host
      BY <1>1, <1>2, <2>3
    <3>2. CASE Choose
      BY <3>1, <3>2, BookChoose
    <3>3. CASE SpawnGuardian
      BY <3>1, <3>3, BookSpawnGuardian
    <3>4. CASE CheckIdentity \/ Kill \/ Settle
      BY <3>1, <3>4, BookSignal
    <3>5. CASE \/ ExecStart \/ ExecDone \/ OrphanExits \/ EndRun \/ ReleaseNext
               \/ DismissReleased \/ Recover \/ Crash
      BY <3>1, <3>5, BookPlain
    <3>. QED
      BY <1>6, <3>2, <3>3, <3>4, <3>5, Zenon
  <2>4. journal' \in Seq(Records)'
    BY <1>1, <1>2, <2>2, Zenon
  <2>. QED
    BY <1>1, <2>1, <2>3, <2>4 DEF BInv
<1>7. \/ UNCHANGED <<pc, op, ledger, journal>> \/ StartRun \/ RecordAction
      \/ LargeRecord
      \/ ExecStart \/ ExecDone \/ OrphanExits \/ EndRun \/ ReleaseNext
      \/ DismissReleased \/ Recover \/ Crash \/ Choose \/ SpawnGuardian
      \/ CheckIdentity \/ Kill \/ Settle
  <2>1. Spawn \/ Exit \/ UserStop \/ UserContinue \/ GuardKilled \/ Guardian
           => UNCHANGED <<pc, op, ledger, journal>>
    BY DEF Spawn, Exit, UserStop, UserContinue, GuardKilled, Guardian, AgentVars,
       past
  <2>2. UNCHANGED vars => UNCHANGED <<pc, op, ledger, journal>>
    BY DEF vars
  <2>. QED
    BY <2>1, <2>2, Zenon DEF Next, Agent, GuardianRuns, Environment
<1>8. CASE LargeRecord
  <2>1. Down' => ledger' = {}
    BY <1>8 DEF LargeRecord, Down
  <2>. QED
    BY <1>1, <1>2, <1>8, <2>1, BookLarge DEF BInv
<1>. QED
  BY <1>3, <1>4, <1>5, <1>6, <1>7, <1>8

LEMMA StartedNext ==
    TInv /\ Started /\ [Next]_vars => Started' /\ (host.runs = 1 => StartsAlone)
<1>. SUFFICES ASSUME TInv, Started, [Next]_vars
              PROVE  Started' /\ (host.runs = 1 => StartsAlone)
  OBVIOUS
<1>1. host' = host /\ runs \in 0 .. host.runs
  BY TypeNext DEF TInv, TypeOK
<1>2. CASE StartRun
  BY <1>1, <1>2 DEF StartRun, Started, StartsAlone
<1>3. CASE ~StartRun
  <2>1. runs' = runs
    BY <1>3, Zenon DEF Next, Agent, GuardianRuns, Environment, vars, Spawn, Exit, UserStop,
       UserContinue, GuardKilled, Guardian, AgentVars, ExecStart, LargeRecord, ExecDone,
       OrphanExits, EndRun, ReleaseNext, DismissReleased, Recover, Crash, Choose,
       SpawnGuardian, CheckIdentity, Kill, Settle, RecordAction
  <2>2. pc \in {"exited", "dead"} => \/ pc' \in {"exited", "dead"}
    BY <1>3, SMT DEF Next, Agent, GuardianRuns, Environment, vars, Spawn, Exit, UserStop,
       UserContinue, GuardKilled, Guardian, AgentVars, ExecStart, LargeRecord, ExecDone,
       OrphanExits, EndRun, ReleaseNext, DismissReleased, Recover, Crash, Choose,
       SpawnGuardian, CheckIdentity, Kill, Settle, RecordAction, Down
  <2>. QED
    BY <1>1, <2>1, <2>2 DEF Started, StartsAlone, Down
<1>. QED
  BY <1>2, <1>3

LEMMA OneStart ==
    TInv /\ BInv /\ Started /\ host.runs = 1 /\ [Next]_vars
        => BInv' /\ Started' /\ host' = host
BY BookNext, StartedNext, TypeNext

LEMMA BookKeepsLedger == BInv /\ ~host.faults => JournalOwesLedger
BY DEF BInv, Booked, JournalOwesLedger, Match

(* When appends succeed and the agent is started once, a run that decides on  *)
(* its next action can lose everything but its journal: the recovery's walk   *)
(* finds there what its ledger holds and nothing else, short of the pauses    *)
(* and resumes that stand behind a record of more than 1024 bytes             *)
(* (journal_action, spg_machine_recover_journal), however pids are recycled,  *)
(* users interfere or guardians die.                                          *)
THEOREM LedgerIsJournaled == Spec => []LedgerJournaled
<1>. DEFINE J == host.runs = 1 => BInv
<1>1. Init => J /\ Started
  BY BookInit
<1>2. TInv /\ J /\ Started /\ [Next]_vars => J' /\ Started'
  BY OneStart, StartedNext, TypeNext
<1>3. J => LedgerJournaled
  BY BookKeepsLedger DEF LedgerJournaled
<1>. QED
  BY <1>1, <1>2, <1>3, TypesHold, PTL DEF Spec

(* The same for any number of starts, as long as nobody starts the agent      *)
(* while it is up: but for a large record, the only thing that separates      *)
(* ledger and journal is the truncation before the lock is asked for          *)
(* (main.c:2454, 2677).                                                       *)
THEOREM LedgerIsJournaledAlone ==
    Spec /\ [][StartsAlone]_vars => [](~host.faults => JournalOwesLedger)
<1>1. Init => BInv
  BY BookInit
<1>2. TInv /\ BInv /\ [Next]_vars /\ [StartsAlone]_vars => BInv'
  <2>1. UNCHANGED vars => StartsAlone
    BY DEF vars, StartsAlone
  <2>. QED
    BY <2>1, BookNext
<1>. QED
  BY <1>1, <1>2, BookKeepsLedger, TypesHold, PTL DEF Spec

=============================================================================
