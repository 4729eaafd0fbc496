------------------------- MODULE CmdExecutor_proofs -------------------------
(***************************************************************************)
(* Proofs about CmdExecutor, for every number of commands, every buffer and *)
(* pipe size and whatever the programs do.                                  *)
(***************************************************************************)
EXTENDS CmdExecutor, FiniteSetTheorems, TLAPS

Procs    == {"child", "kin", "stray"}
Children == {"none", "running", "zombie", "reaped", "failed"}
OpenEnds == {d \in Cmds \X Streams : d[2] \in fd[d[1]]}

(* A command whose turn to be spawned has not come has nothing yet. *)
Unspawned ==
    pc = "spawn" => \A i \in next .. N :
        res[i] = NotRun /\ fd[i] = {} /\ procs[i] = {}

Types ==
    /\ TypeOK
    /\ holds \in [Cmds -> [Streams -> SUBSET Procs]]

(* A closed read end leaves an empty pipe: drain_fd closes on the end of the  *)
(* file, and on an error, which takes with it what is in the pipe.            *)
Closed ==
    /\ pc = "spawn" => lost = {}
    /\ \A i \in Cmds, s \in Streams :
          /\ s \notin fd[i] => pipe[i][s] = 0
          /\ <<i, s>> \in lost => s \notin fd[i]

(* Every unit written is in the pipe or in the buffer until the first one is  *)
(* dropped, and then the flag is up.                                          *)
Balance(w, l, p) == w = IF l + p <= MaxWrites THEN l + p ELSE MaxWrites

Kept(w, l, p, flagged) ==
    IF flagged THEN l = Room /\ w > Room ELSE Balance(w, l, p)

(* Of a stream whose read failed only the flag is still right.                *)
Account(w, l, p, flagged, broken) ==
    IF broken THEN flagged => l = Room /\ w > Room ELSE Kept(w, l, p, flagged)

Captured ==
    \A i \in Cmds, s \in Streams :
        Account(written[i][s], len[i][s], pipe[i][s], s \in trunc[i],
                <<i, s>> \in lost)

(* kill(-pid) leaves nobody who could fork again. *)
Killed == \A i \in Cmds : res[i].timed_out => procs[i] \cap Group = {}

-----------------------------------------------------------------------------
(* The number of open read ends. *)
LEMMA EndsFinite ==
    IsFiniteSet(Cmds \X Streams) /\ IsFiniteSet(OpenEnds)
<1>1. IsFiniteSet(Cmds \X Streams)
  <2>1. IsFiniteSet(Cmds)
    BY CmdAssumption, FS_Interval DEF Cmds
  <2>. QED
    BY <2>1, CmdAssumption, FS_Product
<1>. QED
  BY <1>1, FS_Subset DEF OpenEnds

(* spawn_one opens one read end a stream. *)
LEMMA SpawnCounts ==
    ASSUME fd \in [Cmds -> SUBSET Streams], NEW i \in Cmds, fd[i] = {},
           open = Cardinality(OpenEnds),
           open' = open + Cardinality(Streams),
           fd' = [fd EXCEPT ![i] = Streams]
    PROVE  open' = Cardinality(OpenEnds')
<1>. DEFINE New == {i} \X Streams
<1>1. OpenEnds' = OpenEnds \cup New
  BY DEF OpenEnds
<1>2. OpenEnds \cap New = {}
  BY DEF OpenEnds
<1>3. IsFiniteSet(New) /\ Cardinality(New) = Cardinality(Streams)
  <2>1. IsFiniteSet({i}) /\ Cardinality({i}) = 1
    BY FS_Singleton
  <2>2. IsFiniteSet(Streams)
    BY CmdAssumption
  <2>3. IsFiniteSet(New) /\ Cardinality(New) = 1 * Cardinality(Streams)
    BY <2>1, <2>2, FS_Product
  <2>. QED
    BY <2>2, <2>3, FS_CardinalityType
<1>4. Cardinality(OpenEnds \cup New)
         = Cardinality(OpenEnds) + Cardinality(New)
           - Cardinality(OpenEnds \cap New)
  BY <1>3, EndsFinite, FS_Union
<1>5. Cardinality(OpenEnds \cap New) = 0 /\ Cardinality(OpenEnds) \in Nat
      /\ Cardinality(Streams) \in Nat
  BY <1>2, EndsFinite, FS_EmptySet, FS_CardinalityType, CmdAssumption
<1>. QED
  BY <1>1, <1>3, <1>4, <1>5

(* drain_fd closes one. *)
LEMMA CloseCounts ==
    ASSUME fd \in [Cmds -> SUBSET Streams], NEW i \in Cmds, NEW s \in fd[i],
           open = Cardinality(OpenEnds), open' = open - 1,
           fd' = [fd EXCEPT ![i] = @ \ {s}]
    PROVE  open' = Cardinality(OpenEnds')
<1>1. OpenEnds' = OpenEnds \ {<<i, s>>}
  BY DEF OpenEnds
<1>2. <<i, s>> \in OpenEnds
  BY DEF OpenEnds
<1>3. Cardinality(OpenEnds \ {<<i, s>>}) = Cardinality(OpenEnds) - 1
  BY <1>2, EndsFinite, FS_RemoveElement
<1>. QED
  BY <1>1, <1>3

-----------------------------------------------------------------------------
(* Type correctness. A descriptor is only reported ready while it is open     *)
(* (Ready), so drain_fd never closes one twice.                               *)
Ready == \A d \in ready : d[2] \in fd[d[1]]

Shape == Types /\ Unspawned /\ Ready

ResultSet == [child : Children, exited : BOOLEAN, timed_out : BOOLEAN]

LEMMA ShapeInit == Init => Shape
<1>. SUFFICES ASSUME Init PROVE Shape
  OBVIOUS
<1>1. OpenEnds = {}
  BY DEF Init, OpenEnds
<1>2. open = Cardinality(OpenEnds)
  BY <1>1, FS_EmptySet DEF Init
<1>3. /\ NotRun \in ResultSet /\ 1 \in 1 .. N + 1 /\ 0 \in 0 .. Room
      /\ 0 \in 0 .. PipeCap /\ 0 \in 0 .. MaxWrites
  BY CmdAssumption DEF NotRun, ResultSet, Children
<1>4. Types
  BY <1>2, <1>3 DEF Init, Types, TypeOK, OpenEnds, ResultSet, Children, Procs
<1>5. Unspawned /\ Ready
  BY <1>3 DEF Init, Unspawned, Ready, Cmds
<1>. QED
  BY <1>4, <1>5 DEF Shape

(* A result only changes where it is assigned. *)
LEMMA ResChild ==
    ASSUME res \in [Cmds -> ResultSet], NEW i \in Cmds, NEW c \in Children,
           res' = [res EXCEPT ![i].child = c]
    PROVE  /\ res' \in [Cmds -> ResultSet]
           /\ \A j \in Cmds : j # i => res'[j] = res[j]
           /\ \A j \in Cmds : /\ res'[j].timed_out = res[j].timed_out
                               /\ res'[j].exited = res[j].exited
<1>. DEFINE x == [res[i] EXCEPT !.child = c]
<1>1. x \in ResultSet /\ x.timed_out = res[i].timed_out
      /\ x.exited = res[i].exited
  BY DEF ResultSet
<1>2. res' = [res EXCEPT ![i] = x]
  OBVIOUS
<1>. HIDE DEF x
<1>. QED
  BY <1>1, <1>2

(* The steps that move control, reap a child or read descriptors only. *)
LEMMA ShapeControl ==
    ASSUME Shape,
           SpawnDone \/ Poll \/ PollFails \/ LoopDone \/ Drained \/ Return
    PROVE  Shape'
<1>1. /\ UNCHANGED <<free, open, fd, len, trunc, lost, res, due, Program>>
      /\ pc' \in {"poll", "drain", "check", "reap", "done"}
      /\ next' = next \/ next' = 1
      /\ ready' = ready \/ ready' = {d \in Cmds \X Streams : Readable(d[1], d[2])}
  BY DEF SpawnDone, Poll, PollFails, LoopDone, Drained, Return
<1>2. ready' \subseteq Cmds \X Streams /\ Ready'
  BY <1>1 DEF Shape, Types, TypeOK, Ready, Readable
<1>3. next' \in 1 .. N + 1
  BY <1>1, CmdAssumption DEF Shape, Types, TypeOK
<1>4. Unspawned'
  BY <1>1 DEF Unspawned
<1>. QED
  BY <1>1, <1>2, <1>3, <1>4 DEF Shape, Types, TypeOK, Program

LEMMA ShapeReap ==
    ASSUME Shape, Reap
    PROVE  Shape'
<1>1. /\ pc = "reap" /\ next \in Cmds /\ next' = next + 1
      /\ UNCHANGED <<free, pc, ready, open, fd, len, trunc, lost, due, Program>>
      /\ res' = res \/ res' = [res EXCEPT ![next].child = "reaped"]
  BY CmdAssumption DEF Reap, Shape, Types, TypeOK, Cmds
<1>2. res' \in [Cmds -> ResultSet]
  <2>1. res \in [Cmds -> ResultSet] /\ "reaped" \in Children
    BY DEF Shape, Types, TypeOK, ResultSet, Children
  <2>. QED
    BY <1>1, <2>1, ResChild
<1>3. next' \in 1 .. N + 1
  BY <1>1, CmdAssumption DEF Cmds
<1>. QED
  BY <1>1, <1>2, <1>3
  DEF Shape, Types, TypeOK, Unspawned, Ready, Program, ResultSet, Children

LEMMA ShapeSpawn ==
    ASSUME Shape, Spawn
    PROVE  Shape'
<1>1. /\ pc = "spawn" /\ pc' = pc /\ next \in Cmds /\ next' = next + 1
      /\ UNCHANGED <<free, ready, len, trunc, lost, due, pipe, written>>
  BY CmdAssumption DEF Spawn, Shape, Types, TypeOK, Cmds
<1>2. res[next] = NotRun /\ fd[next] = {} /\ procs[next] = {}
  BY <1>1, CmdAssumption DEF Shape, Unspawned, Cmds
<1>3. next' \in 1 .. N + 1
  BY <1>1, CmdAssumption DEF Cmds
<1>4. CASE SpawnFails
  <2>1. /\ UNCHANGED <<open, fd, procs, holds>>
        /\ res' = [res EXCEPT ![next].child = "failed"]
    BY <1>4 DEF SpawnFails
  <2>2. res' \in [Cmds -> ResultSet]
        /\ \A j \in Cmds : j # next => res'[j] = res[j]
    <3>1. res \in [Cmds -> ResultSet] /\ {"failed", "running"} \subseteq Children
      BY DEF Shape, Types, TypeOK, ResultSet, Children
    <3>. QED
      BY <1>1, <2>1, <3>1, ResChild
  <2>3. Unspawned'
    BY <1>1, <2>1, <2>2, CmdAssumption DEF Shape, Types, TypeOK, Unspawned, Cmds
  <2>. QED
    BY <1>1, <1>3, <2>1, <2>2, <2>3
    DEF Shape, Types, TypeOK, Ready, ResultSet, Children
<1>5. CASE SpawnWorks
  <2>1. /\ res' = [res EXCEPT ![next].child = "running"]
        /\ open' = open + Cardinality(Streams)
        /\ fd' = [fd EXCEPT ![next] = Streams]
        /\ procs' = [procs EXCEPT ![next] = {"child"}]
        /\ holds' = [holds EXCEPT ![next] = [s \in Streams |-> {"child"}]]
    BY <1>5 DEF SpawnWorks
  <2>2. res' \in [Cmds -> ResultSet]
        /\ \A j \in Cmds : j # next => res'[j] = res[j]
    <3>1. res \in [Cmds -> ResultSet] /\ {"failed", "running"} \subseteq Children
      BY DEF Shape, Types, TypeOK, ResultSet, Children
    <3>. QED
      BY <1>1, <2>1, <3>1, ResChild
  <2>3. open' = Cardinality(OpenEnds')
    BY <1>1, <1>2, <2>1, SpawnCounts DEF Shape, Types, TypeOK, OpenEnds
  <2>4. fd' \in [Cmds -> SUBSET Streams] /\ procs' \in [Cmds -> SUBSET Procs]
    BY <1>1, <2>1 DEF Shape, Types, TypeOK, Procs
  <2>5. /\ holds' \in [Cmds -> [Streams -> SUBSET Procs]]
        /\ \A i \in Cmds, s \in Streams : holds'[i][s] \subseteq procs'[i]
    <3>. DEFINE h == [s \in Streams |-> {"child"}]
    <3>1. h \in [Streams -> SUBSET Procs] /\ \A s \in Streams : h[s] = {"child"}
      BY DEF Procs
    <3>2. holds' = [holds EXCEPT ![next] = h]
      BY <2>1
    <3>. HIDE DEF h
    <3>. QED
      BY <1>1, <2>1, <3>1, <3>2 DEF Shape, Types, TypeOK
  <2>6. Unspawned'
    BY <1>1, <2>1, <2>2, CmdAssumption DEF Shape, Types, TypeOK, Unspawned, Cmds
  <2>7. Ready'
    BY <1>1, <2>1 DEF Shape, Types, TypeOK, Ready
  <2>8. Types'
    BY <1>1, <1>3, <2>2, <2>3, <2>4, <2>5
    DEF Shape, Types, TypeOK, ResultSet, Children, Procs, OpenEnds
  <2>. QED
    BY <2>6, <2>7, <2>8 DEF Shape
<1>. QED
  BY <1>4, <1>5 DEF Spawn

LEMMA ShapeDrain ==
    ASSUME Shape, Drain
    PROVE  Shape'
<1>1. /\ pc = "drain"
      /\ UNCHANGED <<free, pc, next, res, due, procs, holds, written>>
  BY DEF Drain
<1>2. PICK d \in ready : \/ ReadData(d[1], d[2]) \/ ReadEmpty(d[1], d[2])
                         \/ ReadFails(d[1], d[2])
  BY DEF Drain
<1>3. PICK i \in Cmds, s \in Streams : d = <<i, s>> /\ s \in fd[i]
  BY DEF Shape, Types, TypeOK, Ready
<1>4. CASE ReadData(i, s)
  <2>1. /\ pipe' = [pipe EXCEPT ![i][s] = @ - 1] /\ pipe[i][s] > 0
        /\ UNCHANGED <<ready, open, fd, lost>>
        /\ \/ /\ len[i][s] < Room /\ trunc' = trunc
              /\ len' = [len EXCEPT ![i][s] = @ + 1]
           \/ len' = len /\ trunc' = [trunc EXCEPT ![i] = @ \cup {s}]
    BY <1>4 DEF ReadData, AppendCapped
  <2>2. pipe' \in [Cmds -> [Streams -> 0 .. PipeCap]]
    BY <2>1, CmdAssumption DEF Shape, Types, TypeOK
  <2>3. len' \in [Cmds -> [Streams -> 0 .. Room]]
    <3>. DEFINE n == len[i][s] + 1
    <3>1. len[i][s] < Room => n \in 0 .. Room
      BY CmdAssumption DEF Shape, Types, TypeOK
    <3>2. \/ len' = len
          \/ len[i][s] < Room /\ len' = [len EXCEPT ![i][s] = n]
      BY <2>1
    <3>3. len \in [Cmds -> [Streams -> 0 .. Room]]
      BY DEF Shape, Types, TypeOK
    <3>. HIDE DEF n
    <3>. QED
      BY <3>1, <3>2, <3>3
  <2>4. trunc' \in [Cmds -> SUBSET Streams]
    <3>. DEFINE t == trunc[i] \cup {s}
    <3>1. t \subseteq Streams
      BY DEF Shape, Types, TypeOK
    <3>2. trunc' = trunc \/ trunc' = [trunc EXCEPT ![i] = t]
      BY <2>1
    <3>3. trunc \in [Cmds -> SUBSET Streams]
      BY DEF Shape, Types, TypeOK
    <3>. HIDE DEF t
    <3>. QED
      BY <3>1, <3>2, <3>3
  <2>. QED
    BY <1>1, <2>1, <2>2, <2>3, <2>4 DEF Shape, Types, TypeOK, Unspawned, Ready
<1>5. CASE ReadEmpty(i, s) \/ ReadFails(i, s)
  <2>1. /\ ready' = ready \ {<<i, s>>}
        /\ UNCHANGED <<len, trunc>>
        /\ pipe' = pipe \/ pipe' = [pipe EXCEPT ![i][s] = 0]
        /\ lost' = lost \/ lost' = lost \cup {<<i, s>>}
        /\ \/ fd' = [fd EXCEPT ![i] = @ \ {s}] /\ open' = open - 1
           \/ UNCHANGED <<fd, open>>
    BY <1>5 DEF ReadEmpty, ReadFails
  <2>2. open' = Cardinality(OpenEnds')
    BY <1>3, <2>1, CloseCounts DEF Shape, Types, TypeOK, OpenEnds
  <2>3. fd' \in [Cmds -> SUBSET Streams]
    <3>. DEFINE f == fd[i] \ {s}
    <3>1. f \subseteq Streams
      BY DEF Shape, Types, TypeOK
    <3>2. fd' = fd \/ fd' = [fd EXCEPT ![i] = f]
      BY <2>1
    <3>3. fd \in [Cmds -> SUBSET Streams]
      BY DEF Shape, Types, TypeOK
    <3>. HIDE DEF f
    <3>. QED
      BY <3>1, <3>2, <3>3
  <2>4. Ready'
    <3>1. ASSUME NEW e \in ready' PROVE e[2] \in fd'[e[1]]
      <4>1. PICK j \in Cmds, t \in Streams : e = <<j, t>> /\ t \in fd[j]
        BY <2>1 DEF Shape, Types, TypeOK, Ready
      <4>2. <<j, t>> # <<i, s>>
        BY <2>1, <4>1
      <4>. QED
        BY <2>1, <4>1, <4>2 DEF Shape, Types, TypeOK
    <3>. QED
      BY <3>1 DEF Ready
  <2>5. pipe' \in [Cmds -> [Streams -> 0 .. PipeCap]]
    <3>. DEFINE z == 0
    <3>1. z \in 0 .. PipeCap
      BY CmdAssumption
    <3>2. pipe' = pipe \/ pipe' = [pipe EXCEPT ![i][s] = z]
      BY <2>1
    <3>3. pipe \in [Cmds -> [Streams -> 0 .. PipeCap]]
      BY DEF Shape, Types, TypeOK
    <3>. HIDE DEF z
    <3>. QED
      BY <3>1, <3>2, <3>3
  <2>6. lost' \subseteq Cmds \X Streams
    BY <2>1 DEF Shape, Types, TypeOK
  <2>. QED
    BY <1>1, <2>1, <2>2, <2>3, <2>4, <2>5, <2>6 DEF Shape, Types, TypeOK, Unspawned, OpenEnds
<1>. QED
  BY <1>2, <1>3, <1>4, <1>5

(* What the pass over the deadlines does to one command. *)
LEMMA CheckEffect ==
    ASSUME Shape, Check
    PROVE  /\ pc' = "poll"
           /\ UNCHANGED <<free, next, ready, open, fd, len, trunc, lost, due, pipe,
                          written>>
           /\ res' \in [Cmds -> ResultSet]
           /\ procs' \in [Cmds -> SUBSET Procs]
           /\ holds' \in [Cmds -> [Streams -> SUBSET Procs]]
           /\ \A i \in Cmds, s \in Streams :
                 holds'[i][s] \subseteq holds[i][s] \cap procs'[i]
           /\ \A i \in Cmds : /\ procs'[i] \subseteq procs[i]
                              /\ \/ res'[i] = res[i]
                                 \/ procs'[i] = procs[i] \ Victims
<1>1. /\ res \in [Cmds -> ResultSet] /\ procs \in [Cmds -> SUBSET Procs]
      /\ holds \in [Cmds -> [Streams -> SUBSET Procs]]
      /\ \A i \in Cmds, s \in Streams : holds[i][s] \subseteq procs[i]
  BY DEF Shape, Types, TypeOK, ResultSet, Children, Procs
<1>. DEFINE late(i) == [res[i] EXCEPT
                           !.timed_out = TRUE,
                           !.child = IF @ = "running" THEN "zombie" ELSE @]
            hit == {i \in Cmds : Overdue(i)}
<1>2. /\ res' = [i \in Cmds |-> IF i \notin hit THEN res[i] ELSE late(i)]
      /\ procs' = [i \in Cmds |-> IF i \in hit THEN procs[i] \ Victims
                                               ELSE procs[i]]
      /\ holds' = [i \in Cmds |-> [s \in Streams |->
                      IF i \in hit THEN holds[i][s] \ Victims
                                   ELSE holds[i][s]]]
      /\ pc' = "poll"
      /\ UNCHANGED <<free, next, ready, open, fd, len, trunc, lost, due, pipe, written>>
  BY Zenon DEF Check
<1>3. ASSUME NEW i \in Cmds PROVE late(i) \in ResultSet
  <2>. DEFINE c == IF res[i].child = "running" THEN "zombie" ELSE res[i].child
  <2>1. late(i) = [res[i] EXCEPT !.timed_out = TRUE, !.child = c]
    OBVIOUS
  <2>2. c \in Children
    BY <1>1 DEF ResultSet, Children
  <2>. HIDE DEF c, late
  <2>. QED
    BY <1>1, <2>1, <2>2 DEF ResultSet
<1>. HIDE DEF late, hit
<1>4. res' \in [Cmds -> ResultSet]
  BY <1>1, <1>2, <1>3
<1>5. procs' \in [Cmds -> SUBSET Procs]
  BY <1>1, <1>2
<1>6. holds' \in [Cmds -> [Streams -> SUBSET Procs]]
  BY <1>1, <1>2
<1>7. \A i \in Cmds, s \in Streams :
         holds'[i][s] \subseteq holds[i][s] \cap procs'[i]
  BY <1>1, <1>2
<1>8. \A i \in Cmds : /\ procs'[i] \subseteq procs[i]
                      /\ \/ res'[i] = res[i]
                         \/ procs'[i] = procs[i] \ Victims
  BY <1>1, <1>2
<1>. QED
  BY <1>2, <1>4, <1>5, <1>6, <1>7, <1>8

LEMMA ShapeCheck ==
    ASSUME Shape, Check
    PROVE  Shape'
<1>1. Unspawned'
  BY CheckEffect DEF Unspawned
<1>2. Ready'
  BY CheckEffect DEF Shape, Ready
<1>3. Types'
  BY CheckEffect DEF Shape, Types, TypeOK, ResultSet, Children, Procs
<1>. QED
  BY <1>1, <1>2, <1>3 DEF Shape

(* What the programs may do: a program that is not there does nothing, a      *)
(* stream nobody holds is not written and is not inherited.                   *)
LEMMA HostEffect ==
    ASSUME Shape, Host
    PROVE  /\ UNCHANGED <<Executor, due>>
           /\ res' \in [Cmds -> ResultSet]
           /\ procs' \in [Cmds -> SUBSET Procs]
           /\ holds' \in [Cmds -> [Streams -> SUBSET Procs]]
           /\ \A i \in Cmds, s \in Streams :
                 /\ holds'[i][s] \subseteq procs'[i]
                 /\ holds[i][s] = {} => holds'[i][s] = {}
           /\ \A i \in Cmds :
                 /\ res'[i].timed_out = res[i].timed_out
                 /\ procs[i] = {} => res'[i] = res[i]
                 /\ procs'[i] \subseteq procs[i] \/ procs[i] = {"child"}
           /\ \/ UNCHANGED <<pipe, written>>
              \/ \E i \in Cmds, s \in Streams :
                    /\ s \in fd[i] /\ pipe[i][s] < PipeCap
                    /\ pipe' = [pipe EXCEPT ![i][s] = @ + 1]
                    /\ written' = [written EXCEPT ![i][s] =
                                     IF @ < MaxWrites THEN @ + 1 ELSE @]
<1>1. /\ res \in [Cmds -> ResultSet] /\ procs \in [Cmds -> SUBSET Procs]
      /\ holds \in [Cmds -> [Streams -> SUBSET Procs]]
      /\ \A i \in Cmds, s \in Streams : holds[i][s] \subseteq procs[i]
  BY DEF Shape, Types, TypeOK, ResultSet, Children, Procs
<1>2. CASE ProgramWrites
  BY <1>1, <1>2, Zenon DEF ProgramWrites
<1>3. CASE ProgramForks
  <2>1. PICK i \in Cmds, q \in {"kin", "stray"} :
           /\ procs[i] = {"child"}
           /\ procs' = [procs EXCEPT ![i] = @ \cup {q}]
           /\ holds' = [holds EXCEPT ![i] = [s \in Streams |->
                           IF "child" \in @[s] THEN @[s] \cup {q} ELSE @[s]]]
    BY <1>3 DEF ProgramForks
  <2>. DEFINE h == [s \in Streams |-> IF "child" \in holds[i][s]
                                        THEN holds[i][s] \cup {q}
                                        ELSE holds[i][s]]
  <2>2. /\ h \in [Streams -> SUBSET Procs]
        /\ \A s \in Streams : /\ h[s] \subseteq procs[i] \cup {q}
                              /\ holds[i][s] = {} => h[s] = {}
    BY <1>1 DEF Procs
  <2>3. holds' = [holds EXCEPT ![i] = h]
    BY <1>1, <2>1
  <2>. HIDE DEF h
  <2>4. procs' \in [Cmds -> SUBSET Procs]
    BY <1>1, <2>1 DEF Procs
  <2>5. holds' \in [Cmds -> [Streams -> SUBSET Procs]]
    BY <1>1, <2>2, <2>3
  <2>6. UNCHANGED <<Executor, res, due, pipe, written>>
    BY <1>3 DEF ProgramForks
  <2>7. \A j \in Cmds, s \in Streams :
           /\ holds'[j][s] \subseteq procs'[j]
           /\ holds[j][s] = {} => holds'[j][s] = {}
    BY <1>1, <2>1, <2>2, <2>3
  <2>8. \A j \in Cmds : procs'[j] \subseteq procs[j] \/ procs[j] = {"child"}
    BY <1>1, <2>1
  <2>. QED
    BY <1>1, <2>4, <2>5, <2>6, <2>7, <2>8
<1>4. CASE ProgramCloses
  <2>1. PICK i \in Cmds, s \in Streams : \E q \in holds[i][s] :
           holds' = [holds EXCEPT ![i][s] = @ \ {q}]
    BY <1>4 DEF ProgramCloses
  <2>2. PICK q \in holds[i][s] : holds' = [holds EXCEPT ![i][s] = @ \ {q}]
    BY <2>1
  <2>3. UNCHANGED <<Executor, res, due, procs, pipe, written>>
    BY <1>4 DEF ProgramCloses
  <2>. DEFINE h == holds[i][s] \ {q}
  <2>4. h \subseteq holds[i][s] /\ holds' = [holds EXCEPT ![i][s] = h]
    BY <2>2
  <2>. HIDE DEF h
  <2>5. holds' \in [Cmds -> [Streams -> SUBSET Procs]]
    BY <1>1, <2>4
  <2>6. \A j \in Cmds, t \in Streams : holds'[j][t] \subseteq holds[j][t]
    BY <1>1, <2>4
  <2>. QED
    BY <1>1, <2>3, <2>5, <2>6
<1>5. CASE ProgramExits
  <2>1. PICK i \in Cmds : \E q \in procs[i] :
           /\ procs' = [procs EXCEPT ![i] = @ \ {q}]
           /\ holds' = [holds EXCEPT ![i] = [s \in Streams |-> @[s] \ {q}]]
           /\ res' = IF q # "child" THEN res
                     ELSE [res EXCEPT ![i].child = "zombie", ![i].exited = TRUE]
    BY <1>5 DEF ProgramExits
  <2>2. PICK q \in procs[i] :
           /\ procs' = [procs EXCEPT ![i] = @ \ {q}]
           /\ holds' = [holds EXCEPT ![i] = [s \in Streams |-> @[s] \ {q}]]
           /\ res' = IF q # "child" THEN res
                     ELSE [res EXCEPT ![i].child = "zombie", ![i].exited = TRUE]
    BY <2>1
  <2>3. UNCHANGED <<Executor, due, pipe, written>>
    BY <1>5 DEF ProgramExits
  <2>. DEFINE h == [s \in Streams |-> holds[i][s] \ {q}]
              x == [res[i] EXCEPT !.child = "zombie", !.exited = TRUE]
  <2>4. /\ h \in [Streams -> SUBSET Procs]
        /\ \A s \in Streams : /\ h[s] \subseteq procs[i] \ {q}
                              /\ h[s] \subseteq holds[i][s]
    BY <1>1
  <2>5. x \in ResultSet /\ x.timed_out = res[i].timed_out
    BY <1>1 DEF ResultSet, Children
  <2>6. holds' = [holds EXCEPT ![i] = h]
    BY <1>1, <2>2
  <2>7. res' = res \/ res' = [res EXCEPT ![i] = x]
    BY <1>1, <2>2
  <2>. HIDE DEF h, x
  <2>8. procs' \in [Cmds -> SUBSET Procs]
    BY <1>1, <2>2
  <2>9. holds' \in [Cmds -> [Streams -> SUBSET Procs]]
    BY <1>1, <2>4, <2>6
  <2>10. \A j \in Cmds, s \in Streams :
           /\ holds'[j][s] \subseteq procs'[j]
           /\ holds[j][s] = {} => holds'[j][s] = {}
    BY <1>1, <2>2, <2>4, <2>6
  <2>11. /\ res' \in [Cmds -> ResultSet]
         /\ \A j \in Cmds : /\ res'[j].timed_out = res[j].timed_out
                            /\ procs[j] = {} => res'[j] = res[j]
                            /\ procs'[j] \subseteq procs[j]
    BY <1>1, <2>2, <2>5, <2>7
  <2>. QED
    BY <2>3, <2>8, <2>9, <2>10, <2>11
<1>. QED
  BY <1>2, <1>3, <1>4, <1>5 DEF Host

LEMMA ShapeHost ==
    ASSUME Shape, Host
    PROVE  Shape'
<1>1. UNCHANGED <<free, pc, next, ready, open, fd, len, trunc, lost, due>>
  BY HostEffect DEF Executor
<1>2. /\ pipe' \in [Cmds -> [Streams -> 0 .. PipeCap]]
      /\ written' \in [Cmds -> [Streams -> 0 .. MaxWrites]]
  <2>1. /\ pipe \in [Cmds -> [Streams -> 0 .. PipeCap]]
        /\ written \in [Cmds -> [Streams -> 0 .. MaxWrites]]
    BY DEF Shape, Types, TypeOK
  <2>2. CASE UNCHANGED <<pipe, written>>
    BY <2>1, <2>2
  <2>3. ASSUME NEW i \in Cmds, NEW s \in Streams, pipe[i][s] < PipeCap,
               pipe' = [pipe EXCEPT ![i][s] = @ + 1],
               written' = [written EXCEPT ![i][s] =
                             IF @ < MaxWrites THEN @ + 1 ELSE @]
        PROVE  /\ pipe' \in [Cmds -> [Streams -> 0 .. PipeCap]]
               /\ written' \in [Cmds -> [Streams -> 0 .. MaxWrites]]
    <3>. DEFINE n == pipe[i][s] + 1
                w == IF written[i][s] < MaxWrites THEN written[i][s] + 1
                                                  ELSE written[i][s]
    <3>1. n \in 0 .. PipeCap /\ w \in 0 .. MaxWrites
      BY <2>1, <2>3, CmdAssumption
    <3>2. /\ pipe' = [pipe EXCEPT ![i][s] = n]
          /\ written' = [written EXCEPT ![i][s] = w]
      BY <2>3
    <3>. HIDE DEF n, w
    <3>. QED
      BY <2>1, <3>1, <3>2
  <2>. QED
    BY <2>2, <2>3, HostEffect
<1>3. Types'
  BY <1>1, <1>2, HostEffect
  DEF Shape, Types, TypeOK, ResultSet, Children, Procs
<1>4. Unspawned'
  <2>1. ASSUME pc = "spawn", NEW i \in next .. N
        PROVE  res'[i] = NotRun /\ fd'[i] = {} /\ procs'[i] = {}
    <3>1. i \in Cmds
      BY CmdAssumption DEF Shape, Types, TypeOK, Cmds
    <3>2. res[i] = NotRun /\ fd[i] = {} /\ procs[i] = {}
      BY <2>1 DEF Shape, Unspawned
    <3>3. /\ procs[i] = {} => res'[i] = res[i]
          /\ procs'[i] \subseteq procs[i] \/ procs[i] = {"child"}
      BY <3>1, HostEffect
    <3>. QED
      BY <1>1, <3>2, <3>3
  <2>. QED
    BY <1>1, <2>1 DEF Unspawned
<1>5. Ready'
  BY <1>1 DEF Shape, Ready
<1>. QED
  BY <1>3, <1>4, <1>5 DEF Shape

LEMMA ShapeNext == Shape /\ [Next]_vars => Shape'
<1>. SUFFICES ASSUME Shape, [Next]_vars PROVE Shape'
  OBVIOUS
<1>1. CASE UNCHANGED vars
  BY <1>1 DEF vars, Shape, Types, TypeOK, Unspawned, Ready
<1>2. CASE DeadlinePasses
  <2>1. UNCHANGED <<Executor, res, Program>> /\ due' \subseteq Cmds
    BY <1>2 DEF DeadlinePasses, Shape, Types, TypeOK
  <2>. QED
    BY <2>1 DEF Shape, Types, TypeOK, Unspawned, Ready, Executor, Program
<1>. QED
  BY <1>1, <1>2, ShapeControl, ShapeReap, ShapeSpawn, ShapeDrain, ShapeCheck,
     ShapeHost DEF Next, Run

(* Every variable keeps its type, and open_fds, on which the loop's exit      *)
(* relies, is the number of open read ends: drain_fd never closes one twice.  *)
THEOREM TypeCorrect == Spec => []TypeOK
<1>1. Shape => TypeOK
  BY DEF Shape, Types
<1>. QED
  BY <1>1, ShapeInit, ShapeNext, PTL DEF Spec

-----------------------------------------------------------------------------
(* kill(-pid).                                                                *)
LEMMA KilledNext == Shape /\ Killed /\ [Next]_vars => Killed'
<1>. SUFFICES ASSUME Shape, Killed, [Next]_vars PROVE Killed'
  OBVIOUS
<1>0. res \in [Cmds -> ResultSet] /\ procs \in [Cmds -> SUBSET Procs]
  BY DEF Shape, Types, TypeOK, ResultSet, Children, Procs
<1>1. CASE UNCHANGED <<res, procs>>
  BY <1>1 DEF Killed
<1>2. CASE Reap
  <2>1. /\ next \in Cmds /\ procs' = procs /\ "reaped" \in Children
        /\ res' = res \/ res' = [res EXCEPT ![next].child = "reaped"]
    BY <1>2, CmdAssumption
    DEF Reap, Program, Shape, Types, TypeOK, Cmds, Children
  <2>2. \A j \in Cmds : res'[j].timed_out = res[j].timed_out
    BY <1>0, <2>1, ResChild
  <2>. QED
    BY <2>1, <2>2 DEF Killed
<1>3. CASE Spawn
  <2>1. /\ next \in Cmds /\ res[next] = NotRun
        /\ {"failed", "running"} \subseteq Children
    BY <1>3, CmdAssumption
    DEF Spawn, Shape, Types, TypeOK, Unspawned, Cmds, Children
  <2>2. /\ \/ res' = [res EXCEPT ![next].child = "failed"]
           \/ res' = [res EXCEPT ![next].child = "running"]
        /\ procs' = procs \/ procs' = [procs EXCEPT ![next] = {"child"}]
    BY <1>3 DEF Spawn, SpawnFails, SpawnWorks
  <2>3. \A j \in Cmds : res'[j].timed_out = res[j].timed_out
    BY <1>0, <2>1, <2>2, ResChild
  <2>4. ~res[next].timed_out
    BY <2>1 DEF NotRun
  <2>. QED
    BY <1>0, <2>1, <2>2, <2>3, <2>4 DEF Killed
<1>4. CASE Check
  BY <1>0, <1>4, CheckEffect DEF Killed, Victims
<1>5. CASE Host
  <2>1. ASSUME NEW i \in Cmds, res'[i].timed_out
        PROVE  procs'[i] \cap Group = {}
    <3>1. /\ res'[i].timed_out = res[i].timed_out
          /\ procs'[i] \subseteq procs[i] \/ procs[i] = {"child"}
      BY <1>5, HostEffect
    <3>2. procs[i] \cap Group = {}
      BY <2>1, <3>1 DEF Killed
    <3>. QED
      BY <3>1, <3>2 DEF Group
  <2>. QED
    BY <2>1 DEF Killed
<1>. QED
  BY <1>1, <1>2, <1>3, <1>4, <1>5
  DEF Next, Run, SpawnDone, Poll, PollFails, LoopDone, Drain, Drained, Return,
      DeadlinePasses, Program, vars

(* When the batch returns, nothing is left of the process group of a program  *)
(* killed for its deadline, whatever it forked before (kill(-pid) in          *)
(* spg_cmd_executor_run: "so descendants die with it").                       *)
THEOREM GroupsDie == Spec => []GroupDies
<1>1. Init => Killed
  BY DEF Init, Killed, NotRun
<1>2. Killed => GroupDies
  BY DEF Killed, GroupDies
<1>. QED
  BY <1>1, <1>2, ShapeInit, ShapeNext, KilledNext, PTL DEF Spec

-----------------------------------------------------------------------------
(* Nothing a program wrote is lost.                                           *)
(* One read: the unit is stored, or dropped with the flag up.                 *)
LEMMA ReadKeeps ==
    ASSUME NEW w \in 0 .. MaxWrites, NEW l \in 0 .. Room, NEW p \in 0 .. PipeCap,
           NEW s, NEW T, Kept(w, l, p, s \in T), p > 0
    PROVE  IF l < Room THEN Kept(w, l + 1, p - 1, s \in T)
                       ELSE Kept(w, l, p - 1, TRUE)
BY CmdAssumption DEF Kept, Balance

(* One write: the unit is in the pipe, the history saturates.                 *)
LEMMA WriteKeeps ==
    ASSUME NEW w \in 0 .. MaxWrites, NEW l \in 0 .. Room, NEW p \in 0 .. PipeCap,
           NEW s, NEW T, Kept(w, l, p, s \in T)
    PROVE  Kept(IF w < MaxWrites THEN w + 1 ELSE w, l, p + 1, s \in T)
BY CmdAssumption DEF Kept, Balance

LEMMA CapturedInit == Init => Closed /\ Captured
<1>. SUFFICES ASSUME Init PROVE Closed /\ Captured
  OBVIOUS
<1>1. Closed
  BY DEF Init, Closed
<1>2. Balance(0, 0, 0)
  BY CmdAssumption DEF Balance
<1>3. Captured
  BY <1>2 DEF Init, Captured, Account, Kept
<1>. QED
  BY <1>1, <1>3

LEMMA CapturedDrain ==
    ASSUME Shape, Closed, Captured, Drain
    PROVE  Closed' /\ Captured'
<1>0. /\ written' = written /\ pc' = pc /\ pc = "drain"
      /\ fd \in [Cmds -> SUBSET Streams]
      /\ len \in [Cmds -> [Streams -> 0 .. Room]]
      /\ trunc \in [Cmds -> SUBSET Streams]
      /\ pipe \in [Cmds -> [Streams -> 0 .. PipeCap]]
      /\ written \in [Cmds -> [Streams -> 0 .. MaxWrites]]
  BY DEF Drain, Shape, Types, TypeOK
<1>1. PICK d \in ready : \/ ReadData(d[1], d[2]) \/ ReadEmpty(d[1], d[2])
                         \/ ReadFails(d[1], d[2])
  BY DEF Drain
<1>2. PICK i \in Cmds, s \in Streams : d = <<i, s>> /\ s \in fd[i]
  BY DEF Shape, Types, TypeOK, Ready
<1>3. CASE ReadData(i, s)
  <2>1. /\ pipe' = [pipe EXCEPT ![i][s] = @ - 1] /\ pipe[i][s] > 0
        /\ fd' = fd /\ lost' = lost
    BY <1>3 DEF ReadData
  <2>2. IF len[i][s] < Room
          THEN trunc' = trunc /\ len' = [len EXCEPT ![i][s] = @ + 1]
          ELSE len' = len /\ trunc' = [trunc EXCEPT ![i] = @ \cup {s}]
    BY <1>3 DEF ReadData, AppendCapped
  <2>3. <<i, s>> \notin lost /\ Kept(written[i][s], len[i][s], pipe[i][s], s \in trunc[i])
    BY <1>2 DEF Closed, Captured, Account
  <2>4. IF len[i][s] < Room
          THEN Kept(written[i][s], len[i][s] + 1, pipe[i][s] - 1, s \in trunc[i])
          ELSE Kept(written[i][s], len[i][s], pipe[i][s] - 1, TRUE)
    <3>1. /\ written[i][s] \in 0 .. MaxWrites /\ len[i][s] \in 0 .. Room
          /\ pipe[i][s] \in 0 .. PipeCap /\ pipe[i][s] > 0
      BY <1>0, <2>1
    <3>. QED
      BY <2>3, <3>1, ReadKeeps, Zenon
  <2>5. pipe'[i][s] = pipe[i][s] - 1
    BY <1>0, <2>1
  <2>6. Kept(written[i][s], len'[i][s], pipe'[i][s], s \in trunc'[i])
    <3>1. CASE len[i][s] < Room
      <4>1. len'[i][s] = len[i][s] + 1 /\ trunc' = trunc
        BY <1>0, <2>2, <3>1
      <4>. QED
        BY <2>4, <2>5, <3>1, <4>1
    <3>2. CASE ~(len[i][s] < Room)
      <4>1. len' = len /\ (s \in trunc'[i]) = TRUE
        BY <1>0, <2>2, <3>2
      <4>. QED
        BY <2>4, <2>5, <3>2, <4>1
    <3>. QED
      BY <3>1, <3>2
  <2>7. ASSUME NEW j \in Cmds, NEW t \in Streams, <<j, t>> # <<i, s>>
        PROVE  /\ pipe'[j][t] = pipe[j][t] /\ len'[j][t] = len[j][t]
               /\ (t \in trunc'[j]) = (t \in trunc[j])
    BY <1>0, <2>1, <2>2, <2>7
  <2>8. Captured'
    <3>1. ASSUME NEW j \in Cmds, NEW t \in Streams
          PROVE  Account(written[j][t], len'[j][t], pipe'[j][t], t \in trunc'[j],
                         <<j, t>> \in lost)
      <4>1. CASE j = i /\ t = s
        BY <2>3, <2>6, <4>1 DEF Account
      <4>2. CASE <<j, t>> # <<i, s>>
        BY <2>7, <4>2 DEF Captured
      <4>. QED
        BY <4>1, <4>2
    <3>. QED
      BY <1>0, <2>1, <3>1 DEF Captured
  <2>9. Closed'
    BY <1>0, <1>2, <2>1, <2>7 DEF Closed
  <2>. QED
    BY <2>8, <2>9
<1>4. CASE ReadEmpty(i, s)
  <2>1. /\ UNCHANGED <<len, trunc, lost, pipe>> /\ pipe[i][s] = 0
        /\ fd' = [fd EXCEPT ![i] = @ \ {s}] \/ fd' = fd
    BY <1>4 DEF ReadEmpty
  <2>2. Captured'
    BY <1>0, <2>1 DEF Captured
  <2>3. ASSUME NEW j \in Cmds, NEW t \in Streams
        PROVE  /\ t \notin fd'[j] => t \notin fd[j] \/ (j = i /\ t = s)
               /\ t \in fd'[j] => t \in fd[j]
    BY <1>0, <2>1
  <2>4. Closed'
    BY <1>0, <2>1, <2>3 DEF Closed
  <2>. QED
    BY <2>2, <2>4
<1>5. CASE ReadFails(i, s)
  <2>1. /\ UNCHANGED <<len, trunc>> /\ lost' = lost \cup {<<i, s>>}
        /\ fd' = [fd EXCEPT ![i] = @ \ {s}]
        /\ pipe' = [pipe EXCEPT ![i][s] = 0]
    BY <1>5 DEF ReadFails
  <2>2. ASSUME NEW j \in Cmds, NEW t \in Streams, <<j, t>> # <<i, s>>
        PROVE  /\ pipe'[j][t] = pipe[j][t] /\ (t \in fd'[j] <=> t \in fd[j])
               /\ <<j, t>> \in lost' <=> <<j, t>> \in lost
    BY <1>0, <2>1, <2>2
  <2>3. /\ <<i, s>> \notin lost /\ <<i, s>> \in lost' /\ s \notin fd'[i]
        /\ pipe'[i][s] = 0
    BY <1>0, <1>2, <2>1 DEF Closed
  <2>4. s \in trunc[i] => len[i][s] = Room /\ written[i][s] > Room
    BY <2>3 DEF Captured, Account, Kept
  <2>5. ASSUME NEW j \in Cmds, NEW t \in Streams
        PROVE  /\ Account(written[j][t], len[j][t], pipe'[j][t], t \in trunc[j],
                           <<j, t>> \in lost')
               /\ t \notin fd'[j] => pipe'[j][t] = 0
               /\ <<j, t>> \in lost' => t \notin fd'[j]
    <3>1. CASE j = i /\ t = s
      BY <2>3, <2>4, <3>1 DEF Account
    <3>2. CASE <<j, t>> # <<i, s>>
      <4>1. Account(written[j][t], len[j][t], pipe[j][t], t \in trunc[j],
                    <<j, t>> \in lost)
        BY DEF Captured
      <4>2. /\ t \notin fd[j] => pipe[j][t] = 0
            /\ <<j, t>> \in lost => t \notin fd[j]
        BY DEF Closed
      <4>. QED
        BY <2>2, <3>2, <4>1, <4>2 DEF Account
    <3>. QED
      BY <3>1, <3>2
  <2>. QED
    BY <1>0, <2>1, <2>5 DEF Captured, Closed
<1>. QED
  BY <1>1, <1>2, <1>3, <1>4, <1>5

LEMMA CapturedHost ==
    ASSUME Shape, Closed, Captured, Host
    PROVE  Closed' /\ Captured'
<1>0. /\ UNCHANGED <<pc, fd, len, trunc, lost>>
      /\ len \in [Cmds -> [Streams -> 0 .. Room]]
      /\ trunc \in [Cmds -> SUBSET Streams]
      /\ pipe \in [Cmds -> [Streams -> 0 .. PipeCap]]
      /\ written \in [Cmds -> [Streams -> 0 .. MaxWrites]]
  BY HostEffect DEF Executor, Shape, Types, TypeOK
<1>2. CASE UNCHANGED <<pipe, written>>
  BY <1>0, <1>2 DEF Closed, Captured
<1>3. ASSUME NEW i \in Cmds, NEW s \in Streams, s \in fd[i],
             pipe' = [pipe EXCEPT ![i][s] = @ + 1],
             written' = [written EXCEPT ![i][s] =
                            IF @ < MaxWrites THEN @ + 1 ELSE @]
      PROVE  Closed' /\ Captured'
  <2>. DEFINE w == IF written[i][s] < MaxWrites THEN written[i][s] + 1
                                                ELSE written[i][s]
  <2>1. Kept(w, len[i][s], pipe[i][s] + 1, s \in trunc[i])
    <3>1. /\ written[i][s] \in 0 .. MaxWrites /\ len[i][s] \in 0 .. Room
          /\ pipe[i][s] \in 0 .. PipeCap
      BY <1>0
    <3>2. Kept(written[i][s], len[i][s], pipe[i][s], s \in trunc[i])
      BY <1>3 DEF Closed, Captured, Account
    <3>. QED
      BY <3>1, <3>2, WriteKeeps, Zenon
  <2>2. /\ written' = [written EXCEPT ![i][s] = w]
        /\ pipe'[i][s] = pipe[i][s] + 1
    BY <1>0, <1>3
  <2>. HIDE DEF w
  <2>3. written'[i][s] = w
    BY <1>0, <2>2
  <2>4. ASSUME NEW j \in Cmds, NEW t \in Streams, <<j, t>> # <<i, s>>
        PROVE  pipe'[j][t] = pipe[j][t] /\ written'[j][t] = written[j][t]
    BY <1>0, <1>3, <2>2, <2>4
  <2>5. Captured'
    <3>1. ASSUME NEW j \in Cmds, NEW t \in Streams
          PROVE  Account(written'[j][t], len[j][t], pipe'[j][t], t \in trunc[j],
                         <<j, t>> \in lost)
      <4>1. CASE j = i /\ t = s
        BY <1>3, <2>1, <2>2, <2>3, <4>1 DEF Account, Closed
      <4>2. CASE <<j, t>> # <<i, s>>
        BY <2>4, <4>2 DEF Captured
      <4>. QED
        BY <4>1, <4>2
    <3>. QED
      BY <1>0, <3>1 DEF Captured
  <2>6. Closed'
    <3>1. ASSUME NEW j \in Cmds, NEW t \in Streams, t \notin fd[j]
          PROVE  pipe'[j][t] = 0
      <4>1. <<j, t>> # <<i, s>> /\ pipe[j][t] = 0
        BY <1>3, <3>1 DEF Closed
      <4>. QED
        BY <2>4, <4>1
    <3>. QED
      BY <1>0, <3>1 DEF Closed
  <2>. QED
    BY <2>5, <2>6
<1>. QED
  BY <1>2, <1>3, HostEffect

LEMMA CapturedNext ==
    Shape /\ Closed /\ Captured /\ [Next]_vars => Closed' /\ Captured'
<1>. SUFFICES ASSUME Shape, Closed, Captured, [Next]_vars
              PROVE  Closed' /\ Captured'
  OBVIOUS
<1>1. CASE /\ UNCHANGED <<fd, len, trunc, lost, pipe, written>>
           /\ pc' = pc \/ pc' # "spawn"
  BY <1>1 DEF Closed, Captured
<1>2. CASE Spawn
  <2>1. /\ UNCHANGED <<len, trunc, lost, pipe, written>>
        /\ lost = {} /\ lost' = lost
        /\ next \in Cmds
        /\ fd' = fd \/ fd' = [fd EXCEPT ![next] = Streams]
    BY <1>2, CmdAssumption
    DEF Spawn, SpawnFails, SpawnWorks, Shape, Types, TypeOK, Cmds, Closed
  <2>2. \A i \in Cmds, s \in Streams : s \notin fd'[i] => s \notin fd[i]
    BY <2>1 DEF Shape, Types, TypeOK
  <2>. QED
    BY <2>1, <2>2 DEF Closed, Captured
<1>3. CASE Check
  <2>1. UNCHANGED <<fd, len, trunc, lost, pipe, written>> /\ pc' = "poll"
    BY <1>3, CheckEffect
  <2>. QED
    BY <2>1 DEF Closed, Captured
<1>. QED
  BY <1>1, <1>2, <1>3, CapturedDrain, CapturedHost
  DEF Next, Run, SpawnDone, Poll, PollFails, LoopDone, Drained, Reap, Return,
      DeadlinePasses, Executor, Program, vars

(* When the batch returns, the buffers hold what the programs wrote or are    *)
(* full with the flag up, but for the streams whose read failed or that a     *)
(* failed poll left open, and no flag is up without cause: for every mix of   *)
(* writes, forks, closes, exits, kills, truncations and failing reads         *)
(* (drain_fd, append_capped).                                                 *)
THEOREM CaptureIsComplete == Spec => []CaptureComplete
<1>1. Shape /\ Closed /\ Captured => CaptureComplete
  <2>. SUFFICES ASSUME Shape, Closed, Captured,
                       NEW i \in Cmds, NEW s \in Streams
                PROVE  /\ s \in trunc[i] => len[i][s] = Room /\ written[i][s] > Room
                       /\ \/ len[i][s] = written[i][s]
                          \/ s \in trunc[i]
                          \/ <<i, s>> \in lost \/ s \in fd[i]
    BY DEF CaptureComplete
  <2>1. Account(written[i][s], len[i][s], pipe[i][s], s \in trunc[i],
                <<i, s>> \in lost)
    BY DEF Captured
  <2>2. len[i][s] \in 0 .. Room /\ written[i][s] \in 0 .. MaxWrites
    BY DEF Shape, Types, TypeOK
  <2>3. s \in trunc[i] => len[i][s] = Room /\ written[i][s] > Room
    BY <2>1 DEF Account, Kept
  <2>4. ASSUME <<i, s>> \notin lost, s \notin fd[i], s \notin trunc[i]
        PROVE  len[i][s] = written[i][s]
    <3>1. pipe[i][s] = 0
      BY <2>4 DEF Closed
    <3>2. Balance(written[i][s], len[i][s], 0)
      BY <2>1, <2>4, <3>1 DEF Account, Kept
    <3>. QED
      BY <2>2, <3>2, CmdAssumption DEF Balance
  <2>. QED
    BY <2>3, <2>4
<1>. QED
  BY <1>1, ShapeInit, ShapeNext, CapturedInit, CapturedNext, PTL DEF Spec

=============================================================================
