-------------------------- MODULE EvalSuite_proofs --------------------------
(***************************************************************************)
(* Proofs about EvalSuite, for every set of suites and every bound.         *)
(***************************************************************************)
EXTENDS EvalSuite, FiniteSetTheorems, TLAPS

-----------------------------------------------------------------------------
(* The sum of a function, although it is defined by recursion: a set of       *)
(* numbers that holds 0 and the successor of each of its members is all of    *)
(* them.                                                                      *)
Sums(f) ==
    CHOOSE g : g = [n \in 0 .. MaxCases |-> IF n = 0 THEN 0 ELSE g[n - 1] + f[n]]

LEMMA SumIs ==
    ASSUME NEW f
    PROVE  Sum(f) = Sums(f)[MaxCases]
BY DEF Sum, Sums

LEMMA UpTo ==
    ASSUME NEW N \in Nat, NEW K \in SUBSET (0 .. N), 0 \in K,
           \A k \in K : k < N => k + 1 \in K
    PROVE  K = 0 .. N
<1>. DEFINE D == {k \in 0 .. N : \A j \in 0 .. k : j \in K}
            size == Cardinality(D)
<1>1. IsFiniteSet(0 .. N) /\ D \in SUBSET (0 .. N) /\ 0 \in D
  BY FS_Interval
<1>2. IsFiniteSet(D) /\ size \in Nat
  <2>. HIDE DEF D
  <2>. QED
    BY <1>1, FS_Subset, FS_CardinalityType
<1>3. ASSUME NEW k \in D PROVE k + 1 <= size /\ k \in Nat
  <2>1. k \in Nat /\ (0 .. k) \in SUBSET D
    OBVIOUS
  <2>2. Cardinality(0 .. k) = k + 1
    BY <2>1, FS_Interval
  <2>. HIDE DEF D
  <2>3. Cardinality(0 .. k) <= size
    BY <1>2, <2>1, FS_Subset
  <2>. QED
    BY <2>1, <2>2, <2>3
<1>. DEFINE d == size - 1
            I == 0 .. d
<1>. HIDE DEF size
<1>4. d \in Nat /\ d + 1 = size
  BY <1>1, <1>2, <1>3
<1>5. D \in SUBSET I
  BY <1>2, <1>3, <1>4
<1>6. Cardinality(I) = size /\ IsFiniteSet(I)
  <2>. HIDE DEF d
  <2>. QED
    BY <1>4, FS_Interval
<1>7. D = I
  <2>. HIDE DEF I, D
  <2>. QED
    BY <1>5, <1>6, FS_Subset DEF size
<1>8. d \in D /\ d + 1 \notin D
  BY <1>4, <1>7
<1>. HIDE DEF d
<1>9. d = N
  <2>1. d \in 0 .. N /\ d \in K /\ \A j \in 0 .. d : j \in K
    BY <1>4, <1>8
  <2>2. d < N => d + 1 \in D
    <3>1. \A j \in 0 .. (d + 1) : j \in 0 .. d \/ j = d + 1
      BY <1>4
    <3>. QED
      BY <1>4, <2>1, <3>1
  <2>. QED
    BY <1>8, <2>1, <2>2
<1>. QED
  BY <1>8, <1>9

Ints == [1 .. MaxCases -> Int]

(* The recursion has a solution, and it is what CHOOSE gives. *)
SumTo(g, f, k) ==
    /\ g \in [0 .. k -> Int] /\ g[0] = 0
    /\ \A n \in 1 .. k : g[n] = g[n - 1] + f[n]

LEMMA SumExists ==
    ASSUME NEW f \in Ints
    PROVE  \E g : SumTo(g, f, MaxCases)
<1>. DEFINE N == MaxCases
            K == {k \in 0 .. N : \E g : SumTo(g, f, k)}
<1>1. N \in Nat
  BY EvalAssumption
<1>2. 0 \in K
  <2>1. SumTo([n \in 0 .. 0 |-> 0], f, 0)
    BY DEF SumTo
  <2>. QED
    BY <1>1, <2>1
<1>3. ASSUME NEW k \in K, k < N PROVE k + 1 \in K
  <2>1. PICK g : SumTo(g, f, k)
    OBVIOUS
  <2>. DEFINE m == k + 1
              h == [n \in 0 .. m |-> IF n = m THEN g[k] + f[m] ELSE g[n]]
  <2>2. k \in Nat /\ m \in 1 .. N /\ m = k + 1 /\ f[m] \in Int
    BY <1>1, <1>3 DEF Ints
  <2>3. g[k] \in Int /\ \A n \in 0 .. k : g[n] \in Int
    BY <2>1, <2>2 DEF SumTo
  <2>. HIDE DEF m
  <2>4. h \in [0 .. m -> Int] /\ \A n \in 0 .. k : h[n] = g[n]
    BY <2>2, <2>3
  <2>5. h[m] = g[k] + f[m]
    BY <2>2
  <2>. HIDE DEF h
  <2>6. ASSUME NEW n \in 1 .. m PROVE h[n] = h[n - 1] + f[n]
    <3>1. CASE n = m
      <4>1. n - 1 = k /\ k \in 0 .. k
        BY <2>2, <3>1
      <4>. QED
        BY <2>4, <2>5, <3>1, <4>1
    <3>2. CASE n # m
      <4>1. n \in 1 .. k /\ n \in 0 .. k /\ n - 1 \in 0 .. k
        BY <2>2, <3>2
      <4>. QED
        BY <2>1, <2>4, <4>1 DEF SumTo
    <3>. QED
      BY <3>1, <3>2
  <2>7. h[0] = 0
    BY <2>1, <2>2, <2>4 DEF SumTo
  <2>8. SumTo(h, f, m)
    BY <2>4, <2>6, <2>7 DEF SumTo
  <2>. QED
    BY <2>2, <2>8 DEF m
<1>4. K = 0 .. N
  <2>1. K \in SUBSET (0 .. N)
    OBVIOUS
  <2>. HIDE DEF K, N
  <2>. QED
    BY <1>1, <1>2, <1>3, <2>1, UpTo
<1>. QED
  BY <1>1, <1>4

LEMMA SumsMeans ==
    ASSUME NEW f \in Ints
    PROVE  SumTo(Sums(f), f, MaxCases)
<1>. DEFINE N == MaxCases
            S == Sums(f)
            E(g) == [n \in 0 .. N |-> IF n = 0 THEN 0 ELSE g[n - 1] + f[n]]
<1>1. N \in Nat
  BY EvalAssumption
<1>2. PICK g : SumTo(g, f, N)
  BY SumExists
<1>3. g = E(g)
  <2>1. \A n \in 0 .. N : n # 0 => n \in 1 .. N
    BY <1>1
  <2>2. g \in [0 .. N -> Int] /\ \A n \in 0 .. N : g[n] = E(g)[n]
    BY <1>2, <2>1 DEF SumTo
  <2>. QED
    BY <2>2
<1>4. S = E(S)
  BY <1>3 DEF Sums
<1>. HIDE DEF S
<1>5. S[0] = 0 /\ \A n \in 1 .. N : S[n] = S[n - 1] + f[n]
  <2>1. \A n \in 1 .. N : n \in 0 .. N /\ n # 0
    BY <1>1
  <2>. QED
    BY <1>1, <1>4, <2>1
<1>. DEFINE K == {n \in 0 .. N : S[n] = g[n]}
<1>6. K = 0 .. N
  <2>1. K \in SUBSET (0 .. N) /\ 0 \in K
    BY <1>1, <1>2, <1>5 DEF SumTo
  <2>2. ASSUME NEW k \in K, k < N PROVE k + 1 \in K
    <3>1. k + 1 \in 1 .. N /\ (k + 1) - 1 = k /\ k + 1 \in 0 .. N
      BY <1>1, <2>2
    <3>. QED
      BY <1>2, <1>5, <2>2, <3>1 DEF SumTo
  <2>. HIDE DEF K, N
  <2>. QED
    BY <1>1, <2>1, <2>2, UpTo
<1>7. S \in [0 .. N -> Int]
  <2>1. S = [n \in 0 .. N |-> S[n]]
    <3>1. DOMAIN S = 0 .. N /\ S = [n \in DOMAIN S |-> S[n]]
      BY <1>4
    <3>. QED
      BY <3>1
  <2>2. \A n \in 0 .. N : S[n] \in Int
    BY <1>2, <1>6 DEF SumTo
  <2>. QED
    BY <2>1, <2>2
<1>. QED
  BY <1>5, <1>7 DEF SumTo, S

(* One summand changed. *)
LEMMA SumChanged ==
    ASSUME NEW f \in Ints, NEW h \in Ints, NEW i \in 1 .. MaxCases, NEW d \in Int,
           h[i] = f[i] + d, \A j \in 1 .. MaxCases : j # i => h[j] = f[j]
    PROVE  Sum(h) = Sum(f) + d /\ Sum(f) \in Int
<1>. DEFINE N == MaxCases
            F == Sums(f)
            H == Sums(h)
            K == {n \in 0 .. N : H[n] = F[n] + (IF n >= i THEN d ELSE 0)}
<1>1. N \in Nat
  BY EvalAssumption
<1>2. SumTo(F, f, N) /\ SumTo(H, h, N)
  BY SumsMeans
<1>. HIDE DEF F, H
<1>3. \A n \in 0 .. N : F[n] \in Int /\ H[n] \in Int
  BY <1>2 DEF SumTo
<1>4. K = 0 .. N
  <2>1. K \in SUBSET (0 .. N)
    OBVIOUS
  <2>2. 0 \in K
    BY <1>1, <1>2 DEF SumTo
  <2>3. ASSUME NEW k \in K, k < N PROVE k + 1 \in K
    <3>. DEFINE m == k + 1
    <3>1. m \in 1 .. N /\ m - 1 = k /\ m \in 0 .. N /\ k \in 0 .. N /\ m = k + 1
      BY <1>1, <2>3
    <3>2. F[k] \in Int /\ H[k] = F[k] + (IF k >= i THEN d ELSE 0)
      BY <1>3, <2>3
    <3>. HIDE DEF m
    <3>3. F[m] = F[k] + f[m] /\ H[m] = H[k] + h[m]
      BY <1>2, <3>1 DEF SumTo
    <3>4. h[m] = f[m] + (IF m = i THEN d ELSE 0) /\ f[m] \in Int
      BY <3>1 DEF Ints
    <3>5. H[m] = F[m] + (IF m >= i THEN d ELSE 0)
      BY <1>1, <3>1, <3>2, <3>3, <3>4
    <3>. QED
      BY <3>1, <3>5 DEF m
  <2>. HIDE DEF K, N
  <2>. QED
    BY <1>1, <2>1, <2>2, <2>3, UpTo
<1>5. H[N] = F[N] + d
  BY <1>1, <1>4
<1>. QED
  BY <1>1, <1>3, <1>5, SumIs DEF F, H

LEMMA SumOfNothing ==
    ASSUME NEW f \in Ints, \A j \in 1 .. MaxCases : f[j] = 0
    PROVE  Sum(f) = 0
<1>. DEFINE N == MaxCases
            F == Sums(f)
            K == {n \in 0 .. N : F[n] = 0}
<1>1. N \in Nat
  BY EvalAssumption
<1>2. SumTo(F, f, N)
  BY SumsMeans
<1>. HIDE DEF F
<1>3. K = 0 .. N
  <2>1. K \in SUBSET (0 .. N) /\ 0 \in K
    BY <1>1, <1>2 DEF SumTo
  <2>2. ASSUME NEW k \in K, k < N PROVE k + 1 \in K
    <3>1. k + 1 \in 1 .. N /\ (k + 1) - 1 = k /\ k + 1 \in 0 .. N
      BY <1>1, <2>2
    <3>. QED
      BY <1>2, <2>2, <3>1 DEF SumTo
  <2>. HIDE DEF K, N
  <2>. QED
    BY <1>1, <2>1, <2>2, UpTo
<1>. QED
  BY <1>1, <1>3, SumIs DEF F

-----------------------------------------------------------------------------
(* Types, and where the harness is: inside a case the case is one of the      *)
(* suite and of the report, and its samples are counted.                      *)
CaseStates == {"history", "machine", "goal", "procs", "script", "adapter",
               "sample", "run", "endcase"}

InCase == pc \in CaseStates

Count == [runs : Nat, passed : Nat, parsed : Nat, gated : Nat, answered : Nat,
          diagOk : Nat, halluc : Nat]

Report == [total : Nat, passed : Nat, parsed : Nat, gated : Nat, ncases : Nat,
           cases : [1 .. MaxCases -> Count]]

Facts == [good : Nat, answers : Nat, halluc : Nat, runs : Nat]

Types ==
    /\ pc \in CaseStates \cup {"load", "profile", "case", "done"}
    /\ rc \in Statuses /\ exit \in {-1, 0, 1, 2}
    /\ suite \in Suites
    /\ s \in 0 .. Samples /\ c \in Nat \ {0} /\ c <= Len(suite) + 1
    /\ adapters \in Nat /\ store \in SUBSET Marks
    /\ disk \in [Dirs -> SUBSET Marks]
    /\ mounted \in {"none", "shared", "sandbox"}
    /\ output \in Replies
    /\ report \in Report /\ truth \in [1 .. MaxCases -> Facts]

Placed ==
    /\ report.ncases = c - 1 /\ report.ncases <= MaxCases
    /\ InCase => c <= Len(suite) /\ c <= MaxCases
    /\ pc = "run" => s < Samples /\ output = NoReply
    /\ pc \in CaseStates \ {"sample", "run", "endcase"} => s = 0
    /\ pc = "adapter" => RealModel(case)
    /\ pc # "done" => rc = "ok" /\ exit = -1

(* Nothing is left over, with what opens and closes the adapter. *)
Fresh ==
    /\ NothingLeftOver
    /\ adapters = One(pc \in {"sample", "run"} /\ RealModel(case))

(* The report counts what happened. The totals run ahead of the cases by the  *)
(* samples of the case that is being run.                                     *)
Told(i) ==
    /\ report.cases[i].answered = truth[i].answers
    /\ report.cases[i].halluc = truth[i].halluc
    /\ report.cases[i].passed = truth[i].good
    /\ i < c => report.cases[i].runs = truth[i].runs
    /\ i >= c => report.cases[i].runs = 0
    /\ i >= c /\ pc # "done" => truth[i].runs = IF InCase /\ i = c THEN s ELSE 0
    /\ i > c => truth[i].good = 0
    /\ i = c /\ pc # "done" /\ (~InCase \/ s = 0) => truth[i].good = 0

Counted ==
    /\ \A i \in 1 .. MaxCases : Told(i)
    /\ report.passed = Sum(PassedOfCases)
    /\ report.parsed = Sum(ParsedOfCases)
    /\ report.gated = Sum(GatedOfCases)
    /\ pc # "done" => report.total = Sum(RunsOfCases) + (IF InCase THEN s ELSE 0)

(* Never more passes than runs, and as many only if every sample of every     *)
(* case so far was good.                                                      *)
Flawless ==
    report.passed = report.total =>
        /\ \A i \in 1 .. (c - 1) : truth[i].good = Samples /\ truth[i].runs = Samples
        /\ InCase => truth[c].good = s
        /\ pc = "endcase" => s = Samples

Earned ==
    /\ report.passed <= report.total
    /\ pc # "done" \/ (rc = "ok" /\ exit # 2) => Flawless
    /\ pc = "done" /\ rc = "ok" /\ exit # 2 => c > Len(suite) \/ c > MaxCases
    /\ exit = 0 => rc = "ok" /\ report.passed = report.total

Inv == Types /\ Placed /\ Fresh /\ Counted /\ Earned

LEMMA Bounds ==
    /\ Samples \in Nat \ {0} /\ MaxCases \in Nat \ {0}
    /\ Suites \subseteq Seq(CaseRecords)
BY EvalAssumption

LEMMA CaseKnown ==
    ASSUME Types, c <= Len(suite)
    PROVE  case \in CaseRecords /\ c \in 1 .. Len(suite)
BY Bounds DEF Types, case

LEMMA DirKnown ==
    ASSUME Types, c <= Len(suite), s < Samples
    PROVE  Dir \in Dirs
<1>1. c \in 1 .. Len(suite) /\ suite \in Suites /\ s \in 0 .. (Samples - 1)
  BY CaseKnown, Bounds DEF Types
<1>2. case \in UNION {{q[i] : i \in 1..Len(q)} : q \in Suites}
  BY <1>1 DEF case
<1>3. case.name \in {k.name : k \in UNION {{q[i] : i \in 1..Len(q)} : q \in Suites}}
  BY <1>2
<1>. QED
  BY <1>1, <1>3 DEF Dir, Dirs

LEMMA ReplyTypes ==
    /\ NoReply \in Replies
    /\ \A k : \A r \in RunsOf(k) : r.reply \in Replies
BY DEF Replies, RunsOf, Runs

(* A run that did not start: one more run, nothing passed. *)
RunLost ==
    /\ report' = [report EXCEPT !.total = @ + 1]
    /\ truth' = [truth EXCEPT ![c].runs = @ + 1]
    /\ s' = s + 1

LEMMA LostFacts ==
    ASSUME Types, RunLost, c <= MaxCases
    PROVE  /\ report' \in Report /\ truth' \in [1 .. MaxCases -> Facts]
           /\ report'.total = report.total + 1 /\ report'.passed = report.passed
           /\ report'.parsed = report.parsed /\ report'.gated = report.gated
           /\ report'.ncases = report.ncases /\ report'.cases = report.cases
           /\ truth'[c] = [truth[c] EXCEPT !.runs = @ + 1]
           /\ \A i \in 1 .. MaxCases : i # c => truth'[i] = truth[i]
<1>1. /\ report \in Report /\ truth \in [1 .. MaxCases -> Facts] /\ c \in 1 .. MaxCases
  BY Bounds DEF Types
<1>2. /\ report' \in Report
      /\ report'.total = report.total + 1 /\ report'.passed = report.passed
      /\ report'.parsed = report.parsed /\ report'.gated = report.gated
      /\ report'.ncases = report.ncases /\ report'.cases = report.cases
  BY <1>1 DEF RunLost, Report
<1>3. [truth[c] EXCEPT !.runs = @ + 1] \in Facts
  BY <1>1 DEF Facts
<1>4. truth' = [truth EXCEPT ![c] = [truth[c] EXCEPT !.runs = @ + 1]]
  BY DEF RunLost
<1>. QED
  BY <1>1, <1>2, <1>3, <1>4

(* A sample that was judged. *)
Bits == [passed : {0, 1}, parsed : {0, 1}, gated : {0, 1}, answered : {0, 1},
         diagOk : {0, 1}, halluc : {0, 1}]

LEMMA RungsBits ==
    ASSUME NEW k, NEW run, NEW out, NEW verdict
    PROVE  Rungs(k, run, out, verdict) \in Bits
BY DEF Rungs, Bits, One

LEMMA TallyFacts ==
    ASSUME NEW r \in Report, c \in 1 .. MaxCases, NEW a \in Bits
    PROVE  /\ Tally(r, a) \in Report
           /\ Tally(r, a).cases[c] = CaseTally(r.cases[c], a)
           /\ \A i \in 1 .. MaxCases : i # c => Tally(r, a).cases[i] = r.cases[i]
<1>1. r.cases[c] \in Count /\ r.cases \in [1 .. MaxCases -> Count]
  BY DEF Report
<1>2. CaseTally(r.cases[c], a) \in Count
  <2>. DEFINE n == r.cases[c]
  <2>1. n \in Count
    BY <1>1
  <2>2. \A x \in Nat, y \in {0, 1} : x + y \in Nat
    OBVIOUS
  <2>3. /\ {n.runs, n.passed, n.parsed, n.gated, n.answered, n.diagOk, n.halluc} \subseteq Nat
        /\ {a.passed, a.parsed, a.gated, a.answered, a.diagOk, a.halluc} \subseteq {0, 1}
    <3>. HIDE DEF n
    <3>. QED
      BY <2>1 DEF Count, Bits
  <2>. HIDE DEF n
  <2>4. /\ n.runs \in Nat /\ n.passed + a.passed \in Nat /\ n.parsed + a.parsed \in Nat
        /\ n.gated + a.gated \in Nat /\ n.answered + a.answered \in Nat
        /\ n.diagOk + a.diagOk \in Nat /\ n.halluc + a.halluc \in Nat
    BY <2>2, <2>3
  <2>5. CaseTally(n, a) \in Count
    BY <2>4 DEF CaseTally, Count
  <2>. QED
    BY <2>5 DEF n
<1>3. /\ [r.cases EXCEPT ![c] = CaseTally(@, a)] \in [1 .. MaxCases -> Count]
      /\ [r.cases EXCEPT ![c] = CaseTally(@, a)][c] = CaseTally(r.cases[c], a)
      /\ \A i \in 1 .. MaxCases : i # c =>
            [r.cases EXCEPT ![c] = CaseTally(@, a)][i] = r.cases[i]
  BY <1>1, <1>2
<1>. QED
  BY <1>3 DEF Tally, Report, Bits

(* A sample that was judged: its verdict is about its own run and reply.      *)
Sampled ==
    /\ pc = "run"
    /\ \E run \in RunsOf(case), verdict \in Outcomes :
          /\ AgentRuns(run) /\ output' = run.reply
          /\ verdict = "pass" <=> Good(case, run)
          /\ report' = Tally(report, Rungs(case, run, output', verdict))

LEMMA VerdictIsGood ==
    ASSUME NEW k, NEW run
    PROVE  LET judged == OverruleDiagnosis(k, run.reply, Judge(k, run))
               goal == OverruleGoal(k, run, judged)
           IN  /\ judged \in Outcomes /\ goal \in Outcomes
               /\ RealModel(k) => (judged = "pass" <=> Good(k, run))
               /\ ~RealModel(k) => (goal = "pass" <=> Good(k, run))
BY DEF OverruleDiagnosis, OverruleGoal, Judge, Outcomes, Good

LEMMA SamplesSampled ==
    ASSUME Placed, ModelSample \/ ScriptSample
    PROVE  Sampled
<1>1. pc = "run" /\ output = NoReply
  BY DEF ModelSample, ScriptSample, Placed
<1>2. ASSUME NEW run \in RunsOf(case), AgentRuns(run)
      PROVE  output' = run.reply
  <2>1. output' = IF run.reply.said THEN run.reply ELSE NoReply
    BY <1>1, <1>2 DEF AgentRuns
  <2>2. run.reply \in Replies
    BY ReplyTypes
  <2>3. ~run.reply.said => run.reply = NoReply
    BY <2>2 DEF Replies
  <2>. QED
    BY <2>1, <2>3
<1>3. CASE ModelSample
  BY <1>1, <1>2, <1>3, VerdictIsGood DEF ModelSample, Sampled
<1>4. CASE ScriptSample
  BY <1>1, <1>2, <1>4, VerdictIsGood DEF ScriptSample, Sampled
<1>. QED
  BY <1>3, <1>4

LEMMA SampledTypes ==
    ASSUME Types, Placed, Sampled
    PROVE  Types'
<1>1. PICK run \in RunsOf(case), verdict \in Outcomes :
         AgentRuns(run) /\ report' = Tally(report, Rungs(case, run, output', verdict))
  BY DEF Sampled
<1>2. /\ c <= Len(suite) /\ c \in 1 .. MaxCases /\ s < Samples /\ InCase /\ Dir \in Dirs
      /\ Samples \in Nat
  BY DirKnown, Bounds DEF Sampled, Placed, InCase, CaseStates, Types
<1>3. report' \in Report
  BY <1>1, <1>2, RungsBits, TallyFacts DEF Types
<1>4. truth' \in [1 .. MaxCases -> Facts]
  <2>. DEFINE g == One(Good(case, run))
              a == One(case.obs /\ run.reply.answer)
              h == One(case.diag # NoDiag /\ NamesAbsent(case, run.reply))
              t == truth[c]
              u == [good |-> t.good + g, answers |-> t.answers + a,
                    halluc |-> t.halluc + h, runs |-> t.runs + 1]
  <2>1. truth' = [truth EXCEPT ![c] = u]
    BY <1>1 DEF AgentRuns
  <2>2. {g, a, h} \subseteq {0, 1}
    BY DEF One
  <2>3. t \in Facts
    BY <1>2 DEF Types
  <2>. HIDE DEF g, a, h, t
  <2>4. {t.good, t.answers, t.halluc, t.runs} \subseteq Nat
    BY <2>3 DEF Facts
  <2>5. /\ t.good + g \in Nat /\ t.answers + a \in Nat /\ t.halluc + h \in Nat
        /\ t.runs + 1 \in Nat
    BY <2>2, <2>4
  <2>6. u \in Facts
    BY <2>5 DEF Facts
  <2>. HIDE DEF u
  <2>. QED
    BY <2>1, <2>6 DEF Types
<1>5. output' \in Replies
  BY <1>1, ReplyTypes DEF AgentRuns, Types
<1>6. disk' \in [Dirs -> SUBSET Marks]
  <2>1. disk' = [disk EXCEPT ![Dir] = @ \cup {"residue"}] \/ disk' = disk
    BY <1>1 DEF AgentRuns
  <2>2. disk[Dir] \cup {"residue"} \in SUBSET Marks
    BY <1>2 DEF Types, Marks
  <2>. QED
    BY <2>1, <2>2 DEF Types
<1>7. store' \in SUBSET Marks
  BY <1>1 DEF AgentRuns, Types, Marks
<1>8. /\ s' \in 0 .. Samples /\ pc' = "sample"
      /\ UNCHANGED <<rc, suite, c, adapters, mounted, exit>>
  BY <1>1, <1>2 DEF AgentRuns, Types
<1>. QED
  BY <1>3, <1>4, <1>5, <1>6, <1>7, <1>8 DEF Types, CaseStates

LEMMA SampledPlaced ==
    ASSUME Types, Placed, Sampled
    PROVE  Placed'
<1>1. PICK run \in RunsOf(case), verdict \in Outcomes :
         AgentRuns(run) /\ report' = Tally(report, Rungs(case, run, output', verdict))
  BY DEF Sampled
<1>2. report'.ncases = report.ncases
  BY <1>1 DEF Tally
<1>3. pc' = "sample" /\ UNCHANGED <<rc, suite, c, exit>>
  BY <1>1 DEF AgentRuns
<1>. QED
  BY <1>2, <1>3 DEF Placed, InCase, CaseStates, Sampled

(* The steps that count nothing. *)
Quiet == UNCHANGED <<report, truth, c, suite>>

Moves == \/ LoadSuite \/ LoadProfile \/ ReadCase \/ ReadHistory \/ ReadMachine
         \/ ReadGoal \/ ReadProcessProfile \/ ReadScript \/ ScriptRefused
         \/ CloseAdapter \/ EndSuite \/ Usage \/ Exit

LEMMA MovesPlaced ==
    ASSUME Types, Placed, Fresh, Moves
    PROVE  Types' /\ Placed' /\ Quiet
<1>. USE DEF Types, Placed, Quiet, InCase, CaseStates, Statuses
<1>1. CASE Usage
  BY <1>1 DEF Usage
<1>2. CASE LoadSuite
  BY <1>2 DEF LoadSuite, Abandon
<1>3. CASE LoadProfile
  BY <1>3 DEF LoadProfile, Abandon
<1>4. CASE ReadCase
  <2>1. /\ pc' = "history" /\ s' = 0 /\ c <= Len(suite) /\ report.ncases < MaxCases
        /\ UNCHANGED <<rc, suite, store, c, adapters, disk, mounted, output, report, truth, exit>>
        /\ pc = "case"
    BY <1>4 DEF ReadCase
  <2>2. c <= MaxCases /\ 0 \in 0 .. Samples
    BY <2>1, Bounds
  <2>. QED
    BY <2>1, <2>2
<1>5. ASSUME NEW at \in CaseStates \ {"sample", "run", "endcase"},
             NEW next \in CaseStates \ {"sample", "run", "endcase"}, NEW needed,
             ReadFile(at, next, needed), next = "adapter" => RealModel(case)
      PROVE  Types' /\ Placed' /\ Quiet
  <2>1. /\ pc = at /\ s = 0
        /\ \/ pc' = next /\ rc' = rc
           \/ pc' = "done" /\ rc' \in {"io", "schema"}
        /\ UNCHANGED <<suite, store, c, s, adapters, disk, mounted, output, report, truth,
                       exit>>
    BY <1>5 DEF ReadFile, Abandon
  <2>2. RealModel(case)' = RealModel(case)
    BY <2>1 DEF case, RealModel
  <2>. QED
    BY <1>5, <2>1, <2>2
<1>6. CASE ReadHistory
  BY <1>5, <1>6 DEF ReadHistory
<1>7. CASE ReadMachine
  BY <1>5, <1>7 DEF ReadMachine
<1>8. CASE ReadGoal
  BY <1>5, <1>8 DEF ReadGoal
<1>9. CASE ReadProcessProfile
  <2>1. CASE RealModel(case)
    BY <1>5, <1>9, <2>1 DEF ReadProcessProfile
  <2>2. CASE ~RealModel(case)
    BY <1>5, <1>9, <2>2 DEF ReadProcessProfile
  <2>. QED
    BY <2>1, <2>2
<1>10. CASE ReadScript
  <2>1. /\ pc = "script"
        /\ \/ pc' = "sample" /\ rc' = rc
           \/ pc' = "done" /\ rc' \in {"invalid_arg", "format", "io"}
        /\ UNCHANGED <<suite, store, c, s, adapters, disk, mounted, output, report, truth,
                       exit>>
    BY <1>10 DEF ReadScript, Abandon
  <2>. QED
    BY <2>1
<1>11. CASE ScriptRefused
  BY <1>11 DEF ScriptRefused, Abandon
<1>12. CASE CloseAdapter
  <2>1. /\ pc = "sample" /\ pc' = "endcase" /\ adapters' \in Int
        /\ UNCHANGED <<suite, store, c, s, disk, mounted, output, report, truth, exit, rc>>
        /\ adapters' = IF RealModel(case) THEN adapters - 1 ELSE adapters
    BY <1>12 DEF CloseAdapter
  <2>2. RealModel(case) => adapters = 1
    BY <2>1 DEF Fresh, One
  <2>. QED
    BY <2>1, <2>2
<1>13. CASE EndSuite
  BY <1>13 DEF EndSuite
<1>14. CASE Exit
  <2>1. /\ pc = "done" /\ exit' \in {0, 1}
        /\ UNCHANGED <<pc, rc, suite, store, c, s, adapters, disk, mounted, output, report,
                       truth>>
    BY <1>14 DEF Exit
  <2>. QED
    BY <2>1
<1>. QED
  BY <1>1, <1>2, <1>3, <1>4, <1>6, <1>7, <1>8, <1>9, <1>10, <1>11, <1>12, <1>13, <1>14
     DEF Moves

LEMMA InitPlaced ==
    ASSUME Init
    PROVE  Types /\ Placed
<1>1. EmptyReport \in Report
  BY Bounds DEF EmptyReport, EmptyCase, Report, Count
<1>2. NoTruth \in [1 .. MaxCases -> Facts]
  BY DEF NoTruth, Facts
<1>3. disk \in [Dirs -> SUBSET Marks] /\ store \in SUBSET Marks
  BY DEF Init, Marks
<1>4. Len(suite) \in Nat /\ 0 \in 0 .. Samples /\ MaxCases \in Nat
  BY Bounds DEF Init
<1>. QED
  BY <1>1, <1>2, <1>3, <1>4, ReplyTypes
     DEF Init, Types, Placed, CaseStates, InCase, Statuses, EmptyReport

LEMMA OpenPlaced ==
    ASSUME Types, Placed, OpenAdapter
    PROVE  /\ Types' /\ Placed' /\ UNCHANGED <<c, suite, exit>>
           /\ pc = "adapter"
           /\ \/ /\ Quiet /\ pc' \in {"sample", "done"} /\ s' = s
                 /\ pc' = "done" => rc' # "ok"
              \/ RunLost /\ pc' = "endcase"
<1>1. /\ pc = "adapter" /\ s = 0 /\ c <= MaxCases /\ c <= Len(suite)
      /\ Samples \in Nat \ {0}
  BY Bounds DEF OpenAdapter, Placed, InCase, CaseStates
<1>2. UNCHANGED <<suite, store, c, disk, mounted, output, exit>>
  BY DEF OpenAdapter
<1>3. CASE /\ adapters' = adapters + 1 /\ pc' = "sample"
           /\ UNCHANGED <<rc, s, report, truth>>
  BY <1>1, <1>2, <1>3 DEF Types, Placed, Quiet, InCase, CaseStates
<1>4. CASE Abandon("model") /\ UNCHANGED <<adapters, s, report, truth>>
  BY <1>1, <1>2, <1>4 DEF Types, Placed, Quiet, InCase, CaseStates, Abandon, Statuses
<1>5. CASE /\ report' = [report EXCEPT !.total = @ + 1]
           /\ truth' = [truth EXCEPT ![c].runs = @ + 1]
           /\ s' = 1 /\ pc' = "endcase"
           /\ UNCHANGED <<rc, adapters>>
  <2>1. RunLost
    BY <1>1, <1>5 DEF RunLost
  <2>2. report' \in Report /\ truth' \in [1 .. MaxCases -> Facts]
        /\ report'.ncases = report.ncases
    BY <1>1, <2>1, LostFacts
  <2>. QED
    BY <1>1, <1>2, <1>5, <2>1, <2>2 DEF Types, Placed, InCase, CaseStates
<1>. QED
  BY <1>3, <1>4, <1>5 DEF OpenAdapter

LEMMA PreparePlaced ==
    ASSUME Types, Placed, PrepareSample
    PROVE  /\ Types' /\ Placed' /\ UNCHANGED <<c, suite, exit, rc, adapters>>
           /\ pc = "sample" /\ s < Samples
           /\ \/ Quiet /\ pc' = "run" /\ s' = s
              \/ RunLost /\ pc' = "sample"
<1>1. /\ pc = "sample" /\ s < Samples /\ c <= MaxCases /\ c <= Len(suite)
      /\ UNCHANGED <<ledger, window, rc, suite, store, c, adapters, exit>>
      /\ Samples \in Nat \ {0} /\ Dir \in Dirs
  BY Bounds, DirKnown DEF PrepareSample, Placed, InCase, CaseStates
<1>2. CASE /\ SandboxReady /\ mounted' = "sandbox" /\ pc' = "run" /\ output' = FreshOutput
           /\ UNCHANGED <<report, s, truth>>
  <2>1. disk' \in [Dirs -> SUBSET Marks]
    <3>1. CopyInto(CopyInto(Reset(disk[Dir]), {"fixture"}), store) \in SUBSET Marks
      BY <1>1 DEF CopyInto, Reset, Marks, Types
    <3>. QED
      BY <1>2, <3>1 DEF SandboxReady, Types
  <2>. QED
    BY <1>1, <1>2, <2>1, ReplyTypes DEF Types, Placed, Quiet, InCase, CaseStates, FreshOutput
<1>3. CASE /\ SandboxFails
           /\ report' = [report EXCEPT !.total = @ + 1]
           /\ truth' = [truth EXCEPT ![c].runs = @ + 1]
           /\ s' = s + 1
           /\ UNCHANGED <<mounted, pc, output>>
  <2>1. RunLost
    BY <1>3 DEF RunLost
  <2>2. report' \in Report /\ truth' \in [1 .. MaxCases -> Facts]
        /\ report'.ncases = report.ncases
    BY <1>1, <2>1, LostFacts
  <2>3. disk' \in [Dirs -> SUBSET Marks]
    <3>1. \A left \in {disk[Dir], {}, {"fixture"}} : left \in SUBSET Marks
      BY <1>1 DEF Types, Marks
    <3>. QED
      BY <1>3, <3>1 DEF SandboxFails, Types
  <2>4. s' \in 0 .. Samples
    BY <1>1, <1>3 DEF Types
  <2>. QED
    BY <1>1, <1>3, <2>1, <2>2, <2>3, <2>4 DEF Types, Placed, InCase, CaseStates
<1>4. CASE /\ mounted' = (IF store = {} THEN "none" ELSE "shared")
           /\ pc' = "run" /\ output' = FreshOutput
           /\ UNCHANGED <<disk, report, s, truth>>
  BY <1>1, <1>4, ReplyTypes DEF Types, Placed, Quiet, InCase, CaseStates, FreshOutput
<1>. QED
  BY <1>1, <1>2, <1>3, <1>4 DEF PrepareSample

LEMMA EndPlaced ==
    ASSUME Types, Placed, EndCase
    PROVE  /\ Types' /\ Placed' /\ pc = "endcase" /\ pc' = "case" /\ c \in 1 .. MaxCases
           /\ c' = c + 1 /\ UNCHANGED <<truth, suite, exit, rc, s, adapters>>
           /\ report'.total = report.total /\ report'.passed = report.passed
           /\ report'.parsed = report.parsed /\ report'.gated = report.gated
           /\ report'.cases = [report.cases EXCEPT ![c] = [@ EXCEPT !.runs = s]]
<1>1. /\ pc = "endcase" /\ pc' = "case" /\ c' = c + 1 /\ c \in 1 .. MaxCases
      /\ c <= Len(suite)
      /\ report' = [report EXCEPT !.cases[c].runs = s, !.ncases = @ + 1]
      /\ UNCHANGED <<rc, suite, store, s, adapters, disk, mounted, output, truth, exit>>
  BY Bounds DEF EndCase, Placed, InCase, CaseStates, Types
<1>. DEFINE n == [report.cases[c] EXCEPT !.runs = s]
<1>2. n \in Count /\ s \in Nat
  <2>1. report.cases[c] \in Count /\ s \in Nat
    BY <1>1, Bounds DEF Types, Report
  <2>. QED
    BY <2>1 DEF Count
<1>3. /\ report'.total = report.total /\ report'.passed = report.passed
      /\ report'.parsed = report.parsed /\ report'.gated = report.gated
      /\ report'.ncases = report.ncases + 1
      /\ report'.cases = [report.cases EXCEPT ![c] = n]
      /\ report' = [total |-> report'.total, passed |-> report'.passed,
                    parsed |-> report'.parsed, gated |-> report'.gated,
                    ncases |-> report'.ncases, cases |-> report'.cases]
  BY <1>1 DEF Types, Report
<1>. HIDE DEF n
<1>4. report' \in Report /\ report'.ncases = c' - 1 /\ report'.ncases <= MaxCases
  <2>1. [report.cases EXCEPT ![c] = n] \in [1 .. MaxCases -> Count]
    BY <1>1, <1>2 DEF Types, Report
  <2>2. {report.total, report.passed, report.parsed, report.gated, report.ncases + 1}
           \subseteq Nat
    BY DEF Types, Report
  <2>3. report' \in Report
    BY <1>3, <2>1, <2>2 DEF Report
  <2>. QED
    <3>1. report.ncases = c - 1 /\ c \in 1 .. MaxCases
      BY <1>1 DEF Placed
    <3>2. report'.ncases = c /\ c' - 1 = c /\ c <= MaxCases
      BY <1>1, <1>3, <3>1, Bounds
    <3>. QED
      BY <2>3, <3>2
<1>5. c' \in Nat \ {0} /\ c' <= Len(suite) + 1 /\ Len(suite) \in Nat
  BY <1>1, Bounds DEF Types
<1>. QED
  BY <1>1, <1>3, <1>4, <1>5 DEF Types, Placed, InCase, CaseStates, n

LEMMA StepCases ==
    ASSUME Placed, [Next]_vars
    PROVE  \/ Moves \/ OpenAdapter \/ PrepareSample \/ Sampled \/ EndCase
           \/ UNCHANGED vars
BY SamplesSampled DEF Next, Moves

LEMMA PlacedHolds ==
    ASSUME Types, Placed, Fresh, [Next]_vars
    PROVE  Types' /\ Placed'
<1>1. CASE Sampled
  BY <1>1, SampledTypes, SampledPlaced
<1>2. CASE UNCHANGED vars
  BY <1>2 DEF vars, Types, Placed, InCase, case, RealModel
<1>. QED
  BY <1>1, <1>2, StepCases, MovesPlaced, OpenPlaced, PreparePlaced, EndPlaced

-----------------------------------------------------------------------------
(* Nothing left over. *)
LEMMA FreshHolds ==
    /\ Init => Fresh
    /\ Types /\ Placed /\ Fresh /\ [Next]_vars => Fresh'
<1>1. ASSUME Init PROVE Fresh
  BY <1>1 DEF Init, Fresh, NothingLeftOver, One
<1>2. ASSUME Types, Placed, Fresh, [Next]_vars PROVE Fresh'
  <2>. DEFINE At == pc \in {"sample", "run"} /\ RealModel(case)
  <2>1. adapters = One(At)
    BY <1>2 DEF Fresh
  <2>2. ASSUME UNCHANGED <<adapters, suite, c>>, pc' \notin {"run"},
               pc' = "sample" \/ ~At, pc' = "sample" => (pc \in {"sample", "run"} \/ ~RealModel(case))
        PROVE  Fresh'
    <3>1. RealModel(case)' = RealModel(case)
      BY <2>2 DEF case, RealModel
    <3>. QED
      BY <2>1, <2>2, <3>1 DEF Fresh, NothingLeftOver, One
  <2>3. CASE Moves
    <3>. USE DEF Abandon
    <3>1. CASE Usage
      BY <2>2, <3>1 DEF Usage
    <3>2. CASE LoadSuite
      BY <2>2, <3>2 DEF LoadSuite
    <3>3. CASE LoadProfile
      BY <2>2, <3>3 DEF LoadProfile
    <3>4. CASE ReadCase
      BY <2>2, <3>4 DEF ReadCase
    <3>5. CASE ReadHistory \/ ReadMachine \/ ReadGoal
      BY <2>2, <3>5 DEF ReadHistory, ReadMachine, ReadGoal, ReadFile
    <3>6. CASE ReadProcessProfile
      <4>1. UNCHANGED <<adapters, suite, c>> /\ pc = "procs"
            /\ pc' \in {"adapter", "script", "done"}
        BY <3>6 DEF ReadProcessProfile, ReadFile
      <4>. QED
        BY <2>2, <4>1
    <3>7. CASE ReadScript
      <4>1. UNCHANGED <<adapters, suite, c>> /\ pc = "script" /\ pc' \in {"sample", "done"}
        BY <3>7 DEF ReadScript
      <4>2. pc' = "sample" => case.model \in {"rules", "script"}
        BY <3>7 DEF ReadScript
      <4>3. case.model \in {"rules", "script"} => ~RealModel(case)
        BY DEF RealModel
      <4>. QED
        BY <2>2, <4>1, <4>2, <4>3
    <3>8. CASE ScriptRefused
      BY <2>2, <3>8 DEF ScriptRefused
    <3>9. CASE CloseAdapter
      <4>1. /\ pc = "sample" /\ pc' = "endcase" /\ UNCHANGED <<suite, c>>
            /\ adapters' = IF RealModel(case) THEN adapters - 1 ELSE adapters
        BY <3>9 DEF CloseAdapter
      <4>. QED
        BY <2>1, <4>1 DEF Fresh, NothingLeftOver, One
    <3>10. CASE EndSuite
      BY <2>2, <3>10 DEF EndSuite
    <3>11. CASE Exit
      BY <2>2, <3>11 DEF Exit
    <3>. QED
      BY <2>3, <3>1, <3>2, <3>3, <3>4, <3>5, <3>6, <3>7, <3>8, <3>9, <3>10, <3>11 DEF Moves
  <2>4. CASE OpenAdapter
    <3>1. /\ pc = "adapter" /\ RealModel(case) /\ UNCHANGED <<suite, c>>
      BY <1>2, <2>4 DEF OpenAdapter, Placed
    <3>2. RealModel(case)' = RealModel(case)
      BY <3>1 DEF case, RealModel
    <3>3. adapters = 0
      BY <2>1, <3>1 DEF One
    <3>4. \/ adapters' = adapters + 1 /\ pc' = "sample"
          \/ adapters' = adapters /\ pc' \in {"done", "endcase"}
      BY <2>4 DEF OpenAdapter, Abandon
    <3>. QED
      BY <3>1, <3>2, <3>3, <3>4 DEF Fresh, NothingLeftOver, One
  <2>5. CASE PrepareSample
    <3>1. /\ pc = "sample" /\ pc' \in {"sample", "run"} /\ UNCHANGED <<suite, c, adapters>>
          /\ c <= Len(suite) /\ s < Samples
      BY <1>2, <2>5 DEF PrepareSample, Placed, InCase, CaseStates
    <3>2. RealModel(case)' = RealModel(case) /\ case' = case
      BY <3>1 DEF case, RealModel
    <3>3. adapters' = One(At)'
      BY <2>1, <3>1, <3>2 DEF One
    <3>4. ASSUME pc' = "run", case.fixture
          PROVE  disk'[Dir'] = {"fixture"} \cup store' /\ mounted' = "sandbox"
      <4>1. SandboxReady /\ mounted' = "sandbox" /\ UNCHANGED <<s, store>>
        BY <2>5, <3>1, <3>4 DEF PrepareSample
      <4>2. Dir' = Dir /\ Dir \in Dirs
        BY <1>2, <3>1, <3>2, <4>1, DirKnown DEF Dir
      <4>3. disk' = [disk EXCEPT ![Dir] = {"fixture"} \cup store]
        BY <4>1 DEF SandboxReady, CopyInto, Reset
      <4>. QED
        BY <1>2, <4>1, <4>2, <4>3 DEF Types
    <3>. QED
      BY <3>2, <3>3, <3>4 DEF Fresh, NothingLeftOver
  <2>6. CASE Sampled
    <3>1. pc = "run" /\ pc' = "sample" /\ UNCHANGED <<suite, c, adapters>>
      BY <2>6 DEF Sampled, AgentRuns
    <3>. QED
      BY <2>2, <3>1
  <2>7. CASE EndCase
    <3>1. pc = "endcase" /\ pc' = "case" /\ UNCHANGED adapters
      BY <2>7 DEF EndCase
    <3>. QED
      BY <2>1, <3>1 DEF Fresh, NothingLeftOver, One
  <2>8. CASE UNCHANGED vars
    BY <1>2, <2>8 DEF vars, Fresh, NothingLeftOver, case, Dir, RealModel
  <2>. QED
    BY <1>2, <2>3, <2>4, <2>5, <2>6, <2>7, <2>8, StepCases
<1>. QED
  BY <1>1, <1>2

-----------------------------------------------------------------------------
(* What a quiet step does to the place and to the samples. *)
Shape ==
    \/ pc' = "done" /\ s' = s
    \/ /\ pc # "done" /\ pc' # "done"
       /\ InCase => InCase' /\ s' = s
       /\ InCase' /\ ~InCase => s' = 0

Shaped ==
    \/ /\ pc # "done" /\ pc' = "done" /\ s' = s
       /\ \/ rc' # "ok" /\ exit' = exit
          \/ exit' = 2
          \/ rc' = rc /\ exit' = exit /\ ~InCase /\ (c > Len(suite) \/ c > MaxCases)
    \/ /\ pc = "done" /\ pc' = "done" /\ s' = s /\ rc' = rc /\ exit' \in {0, 1}
       /\ exit # 2
       /\ exit' = 0 => rc = "ok" /\ report.passed = report.total
    \/ /\ pc # "done" /\ pc' # "done" /\ exit' = exit
       /\ InCase => InCase' /\ s' = s
       /\ InCase' /\ ~InCase => s' = 0
       /\ pc' = "endcase" => s' = Samples

LEMMA MovesShape ==
    ASSUME Types, Placed, Moves
    PROVE  Shaped
<1>. USE DEF Shaped, InCase, CaseStates
<1>1. CASE Usage
  BY <1>1 DEF Usage
<1>2. CASE LoadSuite
  BY <1>2 DEF LoadSuite, Abandon
<1>3. CASE LoadProfile
  BY <1>3 DEF LoadProfile, Abandon
<1>4. CASE ReadCase
  BY <1>4 DEF ReadCase
<1>5. ASSUME NEW at \in CaseStates \ {"sample", "run", "endcase"},
             NEW next \in CaseStates \ {"sample", "run", "endcase"}, NEW needed,
             ReadFile(at, next, needed)
      PROVE  Shaped
  BY <1>5 DEF ReadFile, Abandon
<1>6. CASE ReadHistory
  BY <1>5, <1>6 DEF ReadHistory
<1>7. CASE ReadMachine
  BY <1>5, <1>7 DEF ReadMachine
<1>8. CASE ReadGoal
  BY <1>5, <1>8 DEF ReadGoal
<1>9. CASE ReadProcessProfile
  <2>1. CASE RealModel(case)
    BY <1>5, <1>9, <2>1 DEF ReadProcessProfile
  <2>2. CASE ~RealModel(case)
    BY <1>5, <1>9, <2>2 DEF ReadProcessProfile
  <2>. QED
    BY <2>1, <2>2
<1>10. CASE ReadScript
  <2>1. /\ pc = "script" /\ s' = s /\ exit' = exit
        /\ \/ pc' = "sample" /\ rc' = rc
           \/ pc' = "done" /\ rc' \in {"invalid_arg", "format", "io"}
    BY <1>10 DEF ReadScript, Abandon
  <2>. QED
    BY <2>1
<1>11. CASE ScriptRefused
  BY <1>11 DEF ScriptRefused, Abandon
<1>12. CASE CloseAdapter
  BY <1>12 DEF CloseAdapter
<1>13. CASE EndSuite
  <2>1. /\ pc = "case" /\ pc' = "done" /\ s' = s /\ rc' = rc /\ exit' = exit
        /\ c > Len(suite) \/ report.ncases >= MaxCases
    BY <1>13 DEF EndSuite
  <2>2. report.ncases = c - 1 /\ c \in Nat /\ MaxCases \in Nat
    BY Bounds DEF Placed, Types
  <2>3. report.ncases >= MaxCases => c > MaxCases
    BY <2>2
  <2>. QED
    BY <2>1, <2>3
<1>14. CASE Exit
  BY <1>14 DEF Exit, ReportOk
<1>. QED
  BY <1>1, <1>2, <1>3, <1>4, <1>6, <1>7, <1>8, <1>9, <1>10, <1>11, <1>12, <1>13, <1>14
     DEF Moves

LEMMA Shapes ==
    Shaped => Shape
BY DEF Shaped, Shape

-----------------------------------------------------------------------------
(* The report counts what happened. *)
LEMMA StillCounted ==
    ASSUME Counted, Quiet, Shape
    PROVE  Counted'
<1>1. UNCHANGED <<report, truth, c>>
  BY DEF Quiet
<1>2. /\ Sum(PassedOfCases)' = Sum(PassedOfCases) /\ Sum(ParsedOfCases)' = Sum(ParsedOfCases)
      /\ Sum(GatedOfCases)' = Sum(GatedOfCases) /\ Sum(RunsOfCases)' = Sum(RunsOfCases)
  <2>1. /\ PassedOfCases' = PassedOfCases /\ ParsedOfCases' = ParsedOfCases
        /\ GatedOfCases' = GatedOfCases /\ RunsOfCases' = RunsOfCases
    BY <1>1 DEF PassedOfCases, ParsedOfCases, GatedOfCases, RunsOfCases
  <2>. QED
    BY <2>1 DEF Sum
<1>3. ASSUME NEW i \in 1 .. MaxCases PROVE Told(i)'
  <2>1. Told(i)
    BY DEF Counted
  <2>. QED
    BY <1>1, <2>1 DEF Told, Shape
<1>4. pc' # "done" => report'.total = Sum(RunsOfCases)' + (IF InCase' THEN s' ELSE 0)
  <2>. SUFFICES ASSUME pc' # "done"
                PROVE  report'.total = Sum(RunsOfCases)' + (IF InCase' THEN s' ELSE 0)
    OBVIOUS
  <2>1. report.total = Sum(RunsOfCases) + (IF InCase THEN s ELSE 0)
    BY DEF Counted, Shape
  <2>2. (IF InCase' THEN s' ELSE 0) = (IF InCase THEN s ELSE 0)
    BY DEF Shape
  <2>. QED
    BY <1>1, <1>2, <2>1, <2>2
<1>. QED
  BY <1>1, <1>2, <1>3, <1>4 DEF Counted

LEMMA ColumnTypes ==
    ASSUME Types
    PROVE  /\ RunsOfCases \in Ints /\ PassedOfCases \in Ints
           /\ ParsedOfCases \in Ints /\ GatedOfCases \in Ints
<1>1. \A i \in 1 .. MaxCases : report.cases[i] \in Count
  BY DEF Types, Report
<1>2. \A n \in Count : {n.runs, n.passed, n.parsed, n.gated} \subseteq Int
  BY DEF Count
<1>. QED
  BY <1>1, <1>2 DEF Ints, RunsOfCases, PassedOfCases, ParsedOfCases, GatedOfCases

LEMMA LostCounted ==
    ASSUME Types, Placed, Counted, RunLost, InCase, InCase', c' = c
    PROVE  Counted'
<1>1. /\ report'.total = report.total + 1 /\ report'.passed = report.passed
      /\ report'.parsed = report.parsed /\ report'.gated = report.gated
      /\ report'.cases = report.cases
      /\ truth'[c] = [truth[c] EXCEPT !.runs = @ + 1]
      /\ \A i \in 1 .. MaxCases : i # c => truth'[i] = truth[i]
      /\ s' = s + 1 /\ s \in Nat /\ pc # "done" /\ c \in 1 .. MaxCases
      /\ truth[c] \in Facts
  <2>1. c \in 1 .. MaxCases /\ s \in Nat
    BY Bounds DEF Types, Placed
  <2>. QED
    BY <2>1, LostFacts DEF RunLost, InCase, CaseStates, Types
<1>2. /\ Sum(PassedOfCases)' = Sum(PassedOfCases) /\ Sum(ParsedOfCases)' = Sum(ParsedOfCases)
      /\ Sum(GatedOfCases)' = Sum(GatedOfCases) /\ Sum(RunsOfCases)' = Sum(RunsOfCases)
  <2>1. /\ PassedOfCases' = PassedOfCases /\ ParsedOfCases' = ParsedOfCases
        /\ GatedOfCases' = GatedOfCases /\ RunsOfCases' = RunsOfCases
    BY <1>1 DEF PassedOfCases, ParsedOfCases, GatedOfCases, RunsOfCases
  <2>. QED
    BY <2>1 DEF Sum
<1>3. ASSUME NEW i \in 1 .. MaxCases PROVE Told(i)'
  <2>1. Told(i)
    BY DEF Counted
  <2>2. CASE i # c
    BY <1>1, <2>1, <2>2 DEF Told
  <2>3. CASE i = c
    <3>1. /\ truth'[c].good = truth[c].good /\ truth'[c].answers = truth[c].answers
          /\ truth'[c].halluc = truth[c].halluc /\ truth'[c].runs = truth[c].runs + 1
      BY <1>1 DEF Facts
    <3>2. s' # 0 /\ truth[c].runs = s
      BY <1>1, <2>1, <2>3 DEF Told
    <3>3. /\ report.cases[c].answered = truth[c].answers
          /\ report.cases[c].halluc = truth[c].halluc
          /\ report.cases[c].passed = truth[c].good
          /\ report.cases[c].runs = 0
      BY <1>1, <2>1, <2>3 DEF Told
    <3>4. ~(c < c) /\ ~(c > c) /\ s + 1 # 0
      BY <1>1
    <3>. HIDE <2>1
    <3>. QED
      BY <1>1, <2>3, <3>1, <3>2, <3>3, <3>4 DEF Told
  <2>. QED
    BY <2>2, <2>3
<1>4. report'.total = Sum(RunsOfCases)' + s'
  <2>1. Sum(RunsOfCases) \in Int
    <3>1. RunsOfCases \in Ints
      BY ColumnTypes
    <3>2. \A i \in 1 .. MaxCases : RunsOfCases[i] = RunsOfCases[i] + 0
      BY <3>1 DEF Ints
    <3>. QED
      BY <1>1, <3>1, <3>2, SumChanged
  <2>2. report.total = Sum(RunsOfCases) + s
    BY <1>1 DEF Counted
  <2>. QED
    BY <1>1, <1>2, <2>1, <2>2
<1>. QED
  BY <1>1, <1>2, <1>3, <1>4 DEF Counted

(* A judged sample, number by number: what is added to the totals is added to *)
(* its case, and what is added to the case is what the run did.               *)
LEMMA SampledFacts ==
    ASSUME Types, Placed, Sampled
    PROVE  \E b, p, g, a, h \in {0, 1} :
              /\ report'.total = report.total + 1 /\ report'.passed = report.passed + b
              /\ report'.parsed = report.parsed + p /\ report'.gated = report.gated + g
              /\ report'.cases[c].runs = report.cases[c].runs
              /\ report'.cases[c].passed = report.cases[c].passed + b
              /\ report'.cases[c].parsed = report.cases[c].parsed + p
              /\ report'.cases[c].gated = report.cases[c].gated + g
              /\ report'.cases[c].answered = report.cases[c].answered + a
              /\ report'.cases[c].halluc = report.cases[c].halluc + h
              /\ \A i \in 1 .. MaxCases : i # c => report'.cases[i] = report.cases[i]
              /\ truth'[c].good = truth[c].good + b
              /\ truth'[c].answers = truth[c].answers + a
              /\ truth'[c].halluc = truth[c].halluc + h
              /\ truth'[c].runs = truth[c].runs + 1
              /\ \A i \in 1 .. MaxCases : i # c => truth'[i] = truth[i]
              /\ s' = s + 1 /\ c' = c /\ pc = "run" /\ pc' = "sample"
              /\ s < Samples /\ c \in 1 .. MaxCases /\ UNCHANGED <<suite, rc, exit>>
<1>1. PICK run \in RunsOf(case), verdict \in Outcomes :
         /\ AgentRuns(run) /\ output' = run.reply
         /\ verdict = "pass" <=> Good(case, run)
         /\ report' = Tally(report, Rungs(case, run, output', verdict))
  BY DEF Sampled
<1>. DEFINE b == One(Good(case, run))
            p == One(Parsed(Judge(case, run), run))
            g == One(Gated(Judge(case, run), run))
            a == One(case.obs /\ run.reply.answer)
            d == One(case.diag # NoDiag /\ DiagRight(case, run.reply))
            h == One(case.diag # NoDiag /\ NamesAbsent(case, run.reply))
            r == [passed |-> b, parsed |-> p, gated |-> g, answered |-> a,
                  diagOk |-> d, halluc |-> h]
<1>2. b \in {0, 1} /\ p \in {0, 1} /\ g \in {0, 1} /\ a \in {0, 1} /\ h \in {0, 1}
  BY DEF One
<1>3. report' = Tally(report, r) /\ r \in Bits
  <2>1. One(verdict = "pass") = b
    BY <1>1 DEF One
  <2>2. Rungs(case, run, output', verdict) = r
    BY <1>1, <2>1 DEF Rungs
  <2>. QED
    BY <1>1, <2>2, RungsBits
<1>4. /\ c \in 1 .. MaxCases /\ s < Samples /\ pc = "run" /\ report \in Report
      /\ truth[c] \in Facts /\ truth \in [1 .. MaxCases -> Facts]
  BY Bounds DEF Types, Placed, InCase, CaseStates, Sampled
<1>5. /\ truth' = [truth EXCEPT ![c] =
                      [good |-> truth[c].good + b, answers |-> truth[c].answers + a,
                       halluc |-> truth[c].halluc + h, runs |-> truth[c].runs + 1]]
      /\ s' = s + 1 /\ c' = c /\ pc' = "sample" /\ UNCHANGED <<suite, rc, exit>>
  BY <1>1 DEF AgentRuns
<1>. HIDE DEF b, p, g, a, d, h
<1>6. /\ truth'[c].good = truth[c].good + b /\ truth'[c].answers = truth[c].answers + a
      /\ truth'[c].halluc = truth[c].halluc + h /\ truth'[c].runs = truth[c].runs + 1
      /\ \A i \in 1 .. MaxCases : i # c => truth'[i] = truth[i]
  BY <1>4, <1>5
<1>7. /\ report'.cases[c] = CaseTally(report.cases[c], r)
      /\ \A i \in 1 .. MaxCases : i # c => report'.cases[i] = report.cases[i]
  BY <1>3, <1>4, TallyFacts
<1>8. /\ report'.total = report.total + 1 /\ report'.passed = report.passed + b
      /\ report'.parsed = report.parsed + p /\ report'.gated = report.gated + g
  BY <1>3 DEF Tally
<1>9. /\ report'.cases[c].runs = report.cases[c].runs
      /\ report'.cases[c].passed = report.cases[c].passed + b
      /\ report'.cases[c].parsed = report.cases[c].parsed + p
      /\ report'.cases[c].gated = report.cases[c].gated + g
      /\ report'.cases[c].answered = report.cases[c].answered + a
      /\ report'.cases[c].halluc = report.cases[c].halluc + h
  BY <1>7 DEF CaseTally
<1>. QED
  BY <1>2, <1>4, <1>5, <1>6, <1>7, <1>8, <1>9

LEMMA SampledCounted ==
    ASSUME Types, Placed, Counted, Sampled
    PROVE  Counted'
<1>1. PICK b \in {0, 1}, p \in {0, 1}, g \in {0, 1}, a \in {0, 1}, h \in {0, 1} :
              /\ report'.total = report.total + 1 /\ report'.passed = report.passed + b
              /\ report'.parsed = report.parsed + p /\ report'.gated = report.gated + g
              /\ report'.cases[c].runs = report.cases[c].runs
              /\ report'.cases[c].passed = report.cases[c].passed + b
              /\ report'.cases[c].parsed = report.cases[c].parsed + p
              /\ report'.cases[c].gated = report.cases[c].gated + g
              /\ report'.cases[c].answered = report.cases[c].answered + a
              /\ report'.cases[c].halluc = report.cases[c].halluc + h
              /\ \A i \in 1 .. MaxCases : i # c => report'.cases[i] = report.cases[i]
              /\ truth'[c].good = truth[c].good + b
              /\ truth'[c].answers = truth[c].answers + a
              /\ truth'[c].halluc = truth[c].halluc + h
              /\ truth'[c].runs = truth[c].runs + 1
              /\ \A i \in 1 .. MaxCases : i # c => truth'[i] = truth[i]
              /\ s' = s + 1 /\ c' = c /\ pc = "run" /\ pc' = "sample"
              /\ s < Samples /\ c \in 1 .. MaxCases /\ UNCHANGED <<suite, rc, exit>>
  BY SampledFacts
<1>2. InCase /\ InCase' /\ s \in Nat /\ pc # "done"
  BY <1>1, Bounds DEF InCase, CaseStates, Types
<1>3. Types'
  BY SampledTypes
<1>4. ASSUME NEW i \in 1 .. MaxCases PROVE Told(i)'
  <2>1. Told(i)
    BY DEF Counted
  <2>2. CASE i # c
    BY <1>1, <1>2, <2>1, <2>2 DEF Told
  <2>3. CASE i = c
    <3>1. /\ report.cases[c].answered = truth[c].answers
          /\ report.cases[c].halluc = truth[c].halluc
          /\ report.cases[c].passed = truth[c].good
          /\ report.cases[c].runs = 0 /\ truth[c].runs = s
      BY <1>1, <1>2, <2>1, <2>3 DEF Told
    <3>2. ~(c < c) /\ ~(c > c) /\ s + 1 # 0
      BY <1>1, <1>2
    <3>. HIDE <2>1
    <3>. QED
      BY <1>1, <1>2, <2>3, <3>1, <3>2 DEF Told
  <2>. QED
    BY <2>2, <2>3
<1>5. /\ RunsOfCases \in Ints /\ PassedOfCases \in Ints
      /\ ParsedOfCases \in Ints /\ GatedOfCases \in Ints
      /\ RunsOfCases' \in Ints /\ PassedOfCases' \in Ints
      /\ ParsedOfCases' \in Ints /\ GatedOfCases' \in Ints
  <2>1. (RunsOfCases \in Ints /\ PassedOfCases \in Ints
           /\ ParsedOfCases \in Ints /\ GatedOfCases \in Ints)'
    BY <1>3, ColumnTypes, PTL
  <2>. QED
    BY <2>1, ColumnTypes DEF Ints
<1>6. PassedOfCases'[c] = PassedOfCases[c] + b
      /\ \A j \in 1 .. MaxCases : j # c => PassedOfCases'[j] = PassedOfCases[j]
  BY <1>1 DEF PassedOfCases
<1>7. ParsedOfCases'[c] = ParsedOfCases[c] + p
      /\ \A j \in 1 .. MaxCases : j # c => ParsedOfCases'[j] = ParsedOfCases[j]
  BY <1>1 DEF ParsedOfCases
<1>8. GatedOfCases'[c] = GatedOfCases[c] + g
      /\ \A j \in 1 .. MaxCases : j # c => GatedOfCases'[j] = GatedOfCases[j]
  BY <1>1 DEF GatedOfCases
<1>9. RunsOfCases'[c] = RunsOfCases[c] + 0
      /\ \A j \in 1 .. MaxCases : j # c => RunsOfCases'[j] = RunsOfCases[j]
  <2>1. \A j \in 1 .. MaxCases : RunsOfCases'[j] = RunsOfCases[j]
    BY <1>1 DEF RunsOfCases
  <2>. QED
    BY <1>1, <1>5, <2>1 DEF Ints
<1>10. b \in Int /\ p \in Int /\ g \in Int
  OBVIOUS
<1>11. Sum(PassedOfCases') = Sum(PassedOfCases) + b
  BY <1>1, <1>5, <1>6, <1>10, SumChanged
<1>12. Sum(ParsedOfCases') = Sum(ParsedOfCases) + p
  BY <1>1, <1>5, <1>7, <1>10, SumChanged
<1>13. Sum(GatedOfCases') = Sum(GatedOfCases) + g
  BY <1>1, <1>5, <1>8, <1>10, SumChanged
<1>14. Sum(RunsOfCases') = Sum(RunsOfCases) + 0 /\ Sum(RunsOfCases) \in Int
  BY <1>1, <1>5, <1>9, SumChanged
<1>15. /\ Sum(PassedOfCases)' = Sum(PassedOfCases') /\ Sum(ParsedOfCases)' = Sum(ParsedOfCases')
       /\ Sum(GatedOfCases)' = Sum(GatedOfCases') /\ Sum(RunsOfCases)' = Sum(RunsOfCases')
  BY DEF Sum
<1>16. report'.total = Sum(RunsOfCases') + s'
  <2>1. report.total = Sum(RunsOfCases) + s
    BY <1>2 DEF Counted
  <2>. QED
    BY <1>1, <1>2, <1>14, <2>1
<1>17. /\ report'.passed = Sum(PassedOfCases') /\ report'.parsed = Sum(ParsedOfCases')
       /\ report'.gated = Sum(GatedOfCases')
  BY <1>1, <1>11, <1>12, <1>13 DEF Counted
<1>. QED
  BY <1>2, <1>4, <1>15, <1>16, <1>17 DEF Counted

LEMMA EndCounted ==
    ASSUME Types, Placed, Counted, EndCase
    PROVE  Counted'
<1>1. /\ Types' /\ pc = "endcase" /\ pc' = "case" /\ c \in 1 .. MaxCases
      /\ c' = c + 1 /\ UNCHANGED <<truth, suite, exit, rc, s, adapters>>
      /\ report'.total = report.total /\ report'.passed = report.passed
      /\ report'.parsed = report.parsed /\ report'.gated = report.gated
      /\ report'.cases = [report.cases EXCEPT ![c] = [@ EXCEPT !.runs = s]]
  BY EndPlaced
<1>2. InCase /\ ~InCase' /\ s \in Nat /\ pc # "done"
      /\ report.cases[c] \in Count /\ report.cases \in [1 .. MaxCases -> Count]
  BY <1>1, Bounds, SMTT(30) DEF InCase, CaseStates, Types, Report
<1>3. /\ report'.cases[c].passed = report.cases[c].passed
      /\ report'.cases[c].parsed = report.cases[c].parsed
      /\ report'.cases[c].gated = report.cases[c].gated
      /\ report'.cases[c].answered = report.cases[c].answered
      /\ report'.cases[c].halluc = report.cases[c].halluc
      /\ report'.cases[c].runs = s
      /\ \A i \in 1 .. MaxCases : i # c => report'.cases[i] = report.cases[i]
  <2>1. report'.cases[c] = [report.cases[c] EXCEPT !.runs = s]
    BY <1>1, <1>2
  <2>. QED
    BY <1>1, <1>2, <2>1 DEF Count
<1>4. ASSUME NEW i \in 1 .. MaxCases PROVE Told(i)'
  <2>1. Told(i)
    BY DEF Counted
  <2>2. CASE i # c
    <3>1. (i < c' <=> i < c) /\ (i >= c' <=> i >= c) /\ (i > c' => i > c) /\ (i = c' => i > c)
      BY <1>1, <2>2
    <3>. QED
      BY <1>1, <1>2, <1>3, <2>1, <2>2, <3>1 DEF Told
  <2>3. CASE i = c
    <3>1. /\ report.cases[c].answered = truth[c].answers
          /\ report.cases[c].halluc = truth[c].halluc
          /\ report.cases[c].passed = truth[c].good
          /\ truth[c].runs = s
      BY <1>1, <1>2, <2>1, <2>3 DEF Told
    <3>2. ~(c >= c') /\ ~(c > c') /\ c # c'
      BY <1>1
    <3>. HIDE <2>1
    <3>. QED
      BY <1>1, <1>2, <1>3, <2>3, <3>1, <3>2 DEF Told
  <2>. QED
    BY <2>2, <2>3
<1>5. RunsOfCases \in Ints /\ RunsOfCases' \in Ints
  <2>1. RunsOfCases \in Ints
    BY ColumnTypes
  <2>2. (RunsOfCases \in Ints)'
    BY <1>1, ColumnTypes, PTL
  <2>. QED
    BY <2>1, <2>2 DEF Ints
<1>6. /\ PassedOfCases' = PassedOfCases /\ ParsedOfCases' = ParsedOfCases
      /\ GatedOfCases' = GatedOfCases
  <2>1. ASSUME NEW i \in 1 .. MaxCases
        PROVE  /\ report'.cases[i].passed = report.cases[i].passed
               /\ report'.cases[i].parsed = report.cases[i].parsed
               /\ report'.cases[i].gated = report.cases[i].gated
    BY <1>3
  <2>. QED
    BY <2>1 DEF PassedOfCases, ParsedOfCases, GatedOfCases
<1>7. RunsOfCases'[c] = RunsOfCases[c] + s
      /\ \A j \in 1 .. MaxCases : j # c => RunsOfCases'[j] = RunsOfCases[j]
  <2>1. Told(c)
    BY <1>1 DEF Counted
  <2>2. report.cases[c].runs = 0
    BY <1>1, <2>1 DEF Told
  <2>. QED
    BY <1>1, <1>2, <1>3, <2>2 DEF RunsOfCases
<1>8. Sum(RunsOfCases') = Sum(RunsOfCases) + s /\ Sum(RunsOfCases) \in Int
  BY <1>1, <1>2, <1>5, <1>7, SumChanged
<1>9. /\ Sum(PassedOfCases)' = Sum(PassedOfCases) /\ Sum(ParsedOfCases)' = Sum(ParsedOfCases)
      /\ Sum(GatedOfCases)' = Sum(GatedOfCases) /\ Sum(RunsOfCases)' = Sum(RunsOfCases')
  BY <1>6 DEF Sum
<1>10. report'.total = Sum(RunsOfCases') + 0
  <2>1. report.total = Sum(RunsOfCases) + s
    BY <1>2 DEF Counted
  <2>. QED
    BY <1>1, <1>2, <1>8, <2>1
<1>. QED
  BY <1>1, <1>2, <1>4, <1>9, <1>10 DEF Counted

LEMMA InitCounted ==
    ASSUME Init
    PROVE  Counted
<1>1. report = EmptyReport /\ truth = NoTruth /\ pc = "load" /\ s = 0 /\ c = 1
  BY DEF Init
<1>2. \A i \in 1 .. MaxCases : report.cases[i] = EmptyCase
        /\ truth[i] = [good |-> 0, answers |-> 0, halluc |-> 0, runs |-> 0]
  BY <1>1 DEF EmptyReport, NoTruth
<1>3. \A i \in 1 .. MaxCases : Told(i)
  BY <1>1, <1>2 DEF Told, EmptyCase, InCase, CaseStates
<1>4. /\ RunsOfCases = [i \in 1 .. MaxCases |-> 0] /\ PassedOfCases = [i \in 1 .. MaxCases |-> 0]
      /\ ParsedOfCases = [i \in 1 .. MaxCases |-> 0] /\ GatedOfCases = [i \in 1 .. MaxCases |-> 0]
  BY <1>2 DEF EmptyCase, RunsOfCases, PassedOfCases, ParsedOfCases, GatedOfCases
<1>5. Sum([i \in 1 .. MaxCases |-> 0]) = 0
  <2>. DEFINE z == [i \in 1 .. MaxCases |-> 0]
  <2>1. z \in Ints /\ \A j \in 1 .. MaxCases : z[j] = 0
    BY DEF Ints
  <2>. HIDE DEF z
  <2>2. Sum(z) = 0
    BY <2>1, SumOfNothing
  <2>. QED
    BY <2>2 DEF z
<1>6. /\ report.total = 0 /\ report.passed = 0 /\ report.parsed = 0 /\ report.gated = 0
  BY <1>1 DEF EmptyReport
<1>7. ~InCase
  BY <1>1 DEF InCase, CaseStates
<1>. QED
  BY <1>3, <1>4, <1>5, <1>6, <1>7 DEF Counted

LEMMA CountedHolds ==
    ASSUME Types, Placed, Fresh, Counted, [Next]_vars
    PROVE  Counted'
<1>1. CASE Moves
  BY <1>1, MovesPlaced, MovesShape, Shapes, StillCounted
<1>2. CASE OpenAdapter
  <2>1. CASE Quiet /\ pc' \in {"sample", "done"} /\ s' = s
    <3>1. Shape
      BY <1>2, <2>1, OpenPlaced DEF Shape, InCase, CaseStates
    <3>. QED
      BY <2>1, <3>1, StillCounted
  <2>2. CASE RunLost /\ pc' = "endcase"
    <3>1. InCase /\ InCase' /\ c' = c
      BY <1>2, <2>2, OpenPlaced DEF InCase, CaseStates
    <3>. QED
      BY <2>2, <3>1, LostCounted
  <2>. QED
    BY <1>2, <2>1, <2>2, OpenPlaced
<1>3. CASE PrepareSample
  <2>1. CASE Quiet /\ pc' = "run" /\ s' = s
    <3>1. Shape
      BY <1>3, <2>1, PreparePlaced DEF Shape, InCase, CaseStates
    <3>. QED
      BY <2>1, <3>1, StillCounted
  <2>2. CASE RunLost /\ pc' = "sample"
    <3>1. InCase /\ InCase' /\ c' = c
      BY <1>3, <2>2, PreparePlaced DEF InCase, CaseStates
    <3>. QED
      BY <2>2, <3>1, LostCounted
  <2>. QED
    BY <1>3, <2>1, <2>2, PreparePlaced
<1>4. CASE Sampled
  BY <1>4, SampledCounted
<1>5. CASE EndCase
  BY <1>5, EndCounted
<1>6. CASE UNCHANGED vars
  <2>1. Quiet /\ Shape
    BY <1>6 DEF vars, Quiet, Shape, InCase
  <2>. QED
    BY <2>1, StillCounted
<1>. QED
  BY <1>1, <1>2, <1>3, <1>4, <1>5, <1>6, StepCases

-----------------------------------------------------------------------------
(* As many passes as runs are earned. *)
LEMMA QuietEarned ==
    ASSUME Types, Placed, Placed', Counted, Earned, Quiet, Shaped
    PROVE  Earned'
<1>1. UNCHANGED <<report, truth, c, suite>> /\ Len(suite) \in Nat
  BY Bounds DEF Quiet, Types
<1>2. CASE pc # "done" /\ pc' = "done" /\ s' = s
  <2>1. exit = -1
    BY <1>2 DEF Placed
  <2>2. Flawless
    BY <1>2 DEF Earned
  <2>3. exit' # 0 /\ (rc' = "ok" /\ exit' # 2 => c > Len(suite) \/ c > MaxCases)
    BY <1>2, <2>1 DEF Shaped
  <2>4. Flawless'
    BY <1>1, <1>2, <2>2 DEF Flawless, InCase, CaseStates
  <2>. QED
    BY <1>1, <1>2, <2>3, <2>4 DEF Earned
<1>3. CASE pc = "done"
  <2>1. /\ pc' = "done" /\ s' = s /\ rc' = rc /\ exit' \in {0, 1} /\ exit # 2
        /\ exit' = 0 => rc = "ok" /\ report.passed = report.total
    BY <1>3 DEF Shaped
  <2>2. rc' = "ok" => Flawless
    BY <1>3, <2>1 DEF Earned
  <2>3. rc' = "ok" => Flawless'
    BY <1>1, <1>3, <2>1, <2>2 DEF Flawless, InCase, CaseStates
  <2>4. rc' = "ok" => c > Len(suite) \/ c > MaxCases
    BY <1>3, <2>1 DEF Earned
  <2>. QED
    BY <1>1, <2>1, <2>3, <2>4 DEF Earned
<1>4. CASE pc # "done" /\ pc' # "done"
  <2>1. /\ exit' = exit /\ exit = -1
        /\ InCase => InCase' /\ s' = s
        /\ InCase' /\ ~InCase => s' = 0
        /\ pc' = "endcase" => s' = Samples
    BY <1>4 DEF Shaped, Placed
  <2>2. Flawless /\ report.passed <= report.total
    BY <1>4 DEF Earned
  <2>3. ASSUME InCase', ~InCase PROVE truth[c].good = 0
    <3>1. c \in 1 .. MaxCases
      BY <1>1, <2>3, Bounds DEF Placed, Types
    <3>2. Told(c)
      BY <3>1 DEF Counted
    <3>. QED
      BY <1>4, <2>3, <3>1, <3>2 DEF Told
  <2>4. Flawless'
    <3>. SUFFICES ASSUME (report.passed = report.total)'
                  PROVE  /\ (\A i \in 1 .. (c - 1) :
                               truth[i].good = Samples /\ truth[i].runs = Samples)'
                         /\ (InCase => truth[c].good = s)'
                         /\ (pc = "endcase" => s = Samples)'
      BY DEF Flawless
    <3>1. /\ \A i \in 1 .. (c - 1) : truth[i].good = Samples /\ truth[i].runs = Samples
          /\ InCase => truth[c].good = s
      BY <1>1, <2>2 DEF Flawless
    <3>. QED
      BY <1>1, <2>1, <2>3, <3>1
  <2>. QED
    BY <1>1, <1>4, <2>1, <2>2, <2>4 DEF Earned
<1>. QED
  BY <1>2, <1>3, <1>4 DEF Shaped

LEMMA LostEarned ==
    ASSUME Types, Placed, Earned, RunLost, InCase, InCase', UNCHANGED <<c, exit>>
    PROVE  Earned'
<1>1. /\ report'.total = report.total + 1 /\ report'.passed = report.passed
      /\ report.total \in Nat /\ report.passed \in Nat
  BY LostFacts DEF Placed, Types, Report
<1>2. exit = -1 /\ pc' # "done"
  BY DEF Placed, InCase, CaseStates
<1>3. report'.passed < report'.total
  BY <1>1 DEF Earned
<1>. QED
  BY <1>1, <1>2, <1>3 DEF Earned, Flawless

LEMMA SampledEarned ==
    ASSUME Types, Placed, Earned, Sampled
    PROVE  Earned'
<1>1. PICK b \in {0, 1} :
              /\ report'.total = report.total + 1 /\ report'.passed = report.passed + b
              /\ truth'[c].good = truth[c].good + b
              /\ \A i \in 1 .. MaxCases : i # c => truth'[i] = truth[i]
              /\ s' = s + 1 /\ c' = c /\ pc = "run" /\ pc' = "sample"
              /\ c \in 1 .. MaxCases /\ UNCHANGED <<suite, rc, exit>>
  BY SampledFacts
<1>2. report.total \in Nat /\ report.passed \in Nat /\ s \in Nat /\ MaxCases \in Nat
  BY Bounds DEF Types, Report
<1>3. exit = -1 /\ Flawless /\ report.passed <= report.total /\ InCase
  BY <1>1 DEF Placed, Earned, InCase, CaseStates
<1>4. report'.passed <= report'.total
  BY <1>1, <1>2, <1>3
<1>5. Flawless'
  <2>. SUFFICES ASSUME (report.passed = report.total)'
                PROVE  /\ (\A i \in 1 .. (c - 1) :
                             truth[i].good = Samples /\ truth[i].runs = Samples)'
                       /\ (InCase => truth[c].good = s)'
                       /\ (pc = "endcase" => s = Samples)'
    BY DEF Flawless
  <2>1. report.passed = report.total /\ b = 1
    BY <1>1, <1>2, <1>3
  <2>2. /\ \A i \in 1 .. (c - 1) : truth[i].good = Samples /\ truth[i].runs = Samples
        /\ truth[c].good = s
    BY <1>3, <2>1 DEF Flawless
  <2>3. \A i \in 1 .. (c - 1) : i \in 1 .. MaxCases /\ i # c
    BY <1>1, <1>2
  <2>. QED
    BY <1>1, <2>1, <2>2, <2>3
<1>. QED
  BY <1>1, <1>3, <1>4, <1>5 DEF Earned

LEMMA EndEarned ==
    ASSUME Types, Placed, Counted, Earned, EndCase
    PROVE  Earned'
<1>1. /\ pc = "endcase" /\ pc' = "case" /\ c \in 1 .. MaxCases /\ c' = c + 1
      /\ UNCHANGED <<truth, exit>>
      /\ report'.total = report.total /\ report'.passed = report.passed
  BY EndPlaced
<1>2. exit = -1 /\ Flawless /\ report.passed <= report.total /\ InCase /\ ~InCase'
  BY <1>1 DEF Placed, Earned, InCase, CaseStates
<1>3. truth[c].runs = s
  <2>1. Told(c)
    BY <1>1 DEF Counted
  <2>. QED
    BY <1>1, <1>2, <2>1 DEF Told
<1>4. Flawless'
  <2>. SUFFICES ASSUME report.passed = report.total
                PROVE  \A i \in 1 .. (c' - 1) : truth[i].good = Samples /\ truth[i].runs = Samples
    BY <1>1, <1>2 DEF Flawless
  <2>1. /\ \A i \in 1 .. (c - 1) : truth[i].good = Samples /\ truth[i].runs = Samples
        /\ truth[c].good = s /\ s = Samples
    BY <1>1, <1>2 DEF Flawless
  <2>2. \A i \in 1 .. (c' - 1) : i \in 1 .. (c - 1) \/ i = c
    BY <1>1
  <2>. QED
    BY <1>3, <2>1, <2>2
<1>. QED
  BY <1>1, <1>2, <1>4 DEF Earned

LEMMA EarnedHolds ==
    /\ Init => Earned
    /\ Types /\ Placed /\ Fresh /\ Counted /\ Earned /\ [Next]_vars => Earned'
<1>1. ASSUME Init PROVE Earned
  <2>1. report.passed = 0 /\ report.total = 0 /\ c = 1 /\ pc = "load" /\ exit = -1
    BY <1>1 DEF Init, EmptyReport
  <2>. QED
    BY <2>1 DEF Earned, Flawless, InCase, CaseStates
<1>2. ASSUME Types, Placed, Fresh, Counted, Earned, [Next]_vars PROVE Earned'
  <2>1. CASE Moves
    <3>1. Shaped /\ Placed' /\ Quiet
      BY <1>2, <2>1, MovesPlaced, MovesShape
    <3>. QED
      BY <1>2, <3>1, QuietEarned
  <2>2. CASE OpenAdapter
    <3>1. CASE Quiet /\ pc' = "done" /\ rc' # "ok"
      <4>1. exit' = exit /\ exit = -1 /\ report.passed <= report.total
        BY <1>2, <2>2, OpenPlaced DEF Placed, Earned
      <4>. QED
        BY <3>1, <4>1 DEF Earned, Quiet
    <3>2. CASE Quiet /\ pc' = "sample" /\ s' = s
      <4>1. Shaped /\ Placed'
        BY <1>2, <2>2, <3>2, OpenPlaced DEF Shaped, InCase, CaseStates
      <4>. QED
        BY <1>2, <3>2, <4>1, QuietEarned
    <3>3. CASE RunLost /\ pc' = "endcase"
      <4>1. InCase /\ InCase' /\ c' = c /\ exit' = exit
        BY <1>2, <2>2, <3>3, OpenPlaced DEF InCase, CaseStates
      <4>. QED
        BY <1>2, <3>3, <4>1, LostEarned
    <3>. QED
      BY <1>2, <2>2, <3>1, <3>2, <3>3, OpenPlaced
  <2>3. CASE PrepareSample
    <3>1. CASE Quiet /\ pc' = "run" /\ s' = s
      <4>1. Shaped /\ Placed'
        BY <1>2, <2>3, <3>1, PreparePlaced DEF Shaped, InCase, CaseStates
      <4>. QED
        BY <1>2, <3>1, <4>1, QuietEarned
    <3>2. CASE RunLost /\ pc' = "sample"
      <4>1. InCase /\ InCase' /\ c' = c /\ exit' = exit
        BY <1>2, <2>3, <3>2, PreparePlaced DEF InCase, CaseStates
      <4>. QED
        BY <1>2, <3>2, <4>1, LostEarned
    <3>. QED
      BY <1>2, <2>3, <3>1, <3>2, PreparePlaced
  <2>4. CASE Sampled
    BY <1>2, <2>4, SampledEarned
  <2>5. CASE EndCase
    BY <1>2, <2>5, EndEarned
  <2>6. CASE UNCHANGED vars
    <3>1. UNCHANGED <<pc, rc, exit, report, truth, c, suite, s>>
      BY <2>6 DEF vars
    <3>. QED
      BY <1>2, <3>1 DEF Earned, Flawless, InCase
  <2>. QED
    BY <1>2, <2>1, <2>2, <2>3, <2>4, <2>5, <2>6, StepCases
<1>. QED
  BY <1>1, <1>2

-----------------------------------------------------------------------------
LEMMA InvHolds ==
    Spec => []Inv
<1>1. Init => Inv
  BY InitPlaced, FreshHolds, InitCounted, EarnedHolds DEF Inv
<1>2. Inv /\ [Next]_vars => Inv'
  BY PlacedHolds, FreshHolds, CountedHolds, EarnedHolds DEF Inv
<1>. QED
  BY <1>1, <1>2, PTL DEF Spec

(***************************************************************************)
(* The harness stays within its types (eval_run_suite, eval_command).      *)
(***************************************************************************)
THEOREM TypeCorrect ==
    Spec => []TypeOK
<1>1. Inv => TypeOK
  <2>. SUFFICES ASSUME Inv PROVE TypeOK
    OBVIOUS
  <2>1. c \in 1 .. Len(suite) + 1 /\ Len(suite) \in Nat
    BY Bounds DEF Inv, Types
  <2>2. report.ncases \in 0 .. MaxCases /\ report.total \in Nat
    BY Bounds DEF Inv, Types, Placed, Report
  <2>. QED
    BY <2>1, <2>2 DEF TypeOK, Inv, Types, CaseStates
<1>. QED
  BY <1>1, InvHolds, PTL

(***************************************************************************)
(* A sample with a fixture starts in a directory that holds the fixture    *)
(* and the shared store and nothing else, and a case's adapter is open     *)
(* exactly while its samples run, whatever way the case or the suite ends. *)
(***************************************************************************)
THEOREM NothingIsLeftOver ==
    Spec => []NothingLeftOver
<1>1. Inv => NothingLeftOver
  BY DEF Inv, Fresh
<1>. QED
  BY <1>1, InvHolds, PTL

(***************************************************************************)
(* The report says what the runs did: every case counts exactly its good   *)
(* runs, its own answers and its own inventions, and between two cases the *)
(* totals are the sums of the cases.                                       *)
(***************************************************************************)
THEOREM ReportIsHonest ==
    Spec => []ReportHonest
<1>1. Inv => ReportHonest
  <2>. SUFFICES ASSUME Inv PROVE ReportHonest
    OBVIOUS
  <2>1. \A i \in 1 .. MaxCases : Told(i)
    BY DEF Inv, Counted
  <2>2. ASSUME pc = "case"
        PROVE  /\ report.total = Sum(RunsOfCases)
               /\ report.passed = Sum(PassedOfCases)
               /\ report.parsed = Sum(ParsedOfCases)
               /\ report.gated = Sum(GatedOfCases)
    <3>1. ~InCase /\ pc # "done" /\ RunsOfCases \in Ints /\ MaxCases \in Nat \ {0}
      BY <2>2, ColumnTypes, Bounds DEF InCase, CaseStates, Inv
    <3>2. report.total = Sum(RunsOfCases) + 0
      BY <3>1 DEF Inv, Counted
    <3>3. Sum(RunsOfCases) \in Int
      <4>1. \A i \in 1 .. MaxCases : RunsOfCases[i] = RunsOfCases[i] + 0
        BY <3>1 DEF Ints
      <4>2. 1 \in 1 .. MaxCases
        BY <3>1
      <4>. QED
        BY <3>1, <4>1, <4>2, SumChanged
    <3>. QED
      BY <3>2, <3>3 DEF Inv, Counted
  <2>3. /\ report.ncases = c - 1
        /\ \A i \in 1 .. report.ncases : i \in 1 .. MaxCases /\ i < c
    BY Bounds DEF Inv, Placed, Types
  <2>4. \A i \in 1 .. report.ncases : report.cases[i].runs = truth[i].runs
    BY <2>1, <2>3 DEF Told
  <2>5. \A i \in 1 .. MaxCases :
          /\ report.cases[i].answered = truth[i].answers
          /\ report.cases[i].halluc = truth[i].halluc
          /\ report.cases[i].passed = truth[i].good
    BY <2>1 DEF Told
  <2>. QED
    BY <2>2, <2>3, <2>4, <2>5 DEF ReportHonest
<1>. QED
  BY <1>1, InvHolds, PTL

(***************************************************************************)
(* eval exits with 0 only for a suite whose every case was run Samples     *)
(* times and did each time what it asks.                                   *)
(***************************************************************************)
THEOREM ExitZeroIsEarned ==
    Spec => []ExitZeroEarned
<1>1. Inv => ExitZeroEarned
  <2>. SUFFICES ASSUME Inv, exit = 0,
                       NEW i \in 1..(IF Len(suite) < MaxCases THEN Len(suite) ELSE MaxCases)
                PROVE  truth[i].good = Samples /\ truth[i].runs = Samples
    BY DEF ExitZeroEarned
  <2>1. pc = "done" /\ rc = "ok" /\ report.passed = report.total
    BY DEF Inv, Placed, Earned
  <2>2. Flawless /\ (c > Len(suite) \/ c > MaxCases)
    BY <2>1 DEF Inv, Earned
  <2>3. i \in 1 .. (c - 1)
    BY <2>2, Bounds DEF Inv, Types
  <2>. QED
    BY <2>1, <2>2, <2>3 DEF Flawless
<1>. QED
  BY <1>1, InvHolds, PTL

=============================================================================
