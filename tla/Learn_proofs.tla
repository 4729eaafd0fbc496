---------------------------- MODULE Learn_proofs ----------------------------
(***************************************************************************)
(* Proofs about Learn, for every set of cases, slugs, guards and results.   *)
(***************************************************************************)
EXTENDS Learn, FiniteSetTheorems, SequenceTheorems, TLAPS

-----------------------------------------------------------------------------
(* Types.                                                                     *)
Texts == {"seed"} \cup Variants

Stores == [Slugs -> {None, "old"} \cup Texts]

Candidate == [slug : Slugs, origin : Cases \cup {0}]

Score == [text : Texts, n : Nat]

Suites == {"train", "valid"} \cup Guards

Count == 0 .. Cardinality(Cases \cup Holdout)

Early == {"args", "baseline", "gatebase"}

OnTrial == {"evolve", "trial", "prove", "guards", "guardtrial", "resave", "commit"}

Job == [k : Nat, slug : Slugs \cup {None}, text : Texts \cup {None}, scores : Seq(Score),
        trial : Count, proven : BOOLEAN, slot : 0 .. RingCap,
        gbase : BOOLEAN, accept : BOOLEAN]

Types ==
    /\ cmd \in Commands /\ fails \in Fails
    /\ pc \in Early \cup OnTrial \cup {"next", "done", "failed"}
    /\ store \in Stores /\ first \in Stores /\ committed \in Stores
    /\ cands \in Seq(Candidate) /\ job \in Job
    /\ cur \in Count /\ orig \in Count
    /\ kept \in SUBSET Slugs /\ spoilt \in SUBSET Slugs

(* The ring.                                                                  *)
Seen(g) == {i \in 1 .. Len(given) : given[i] = g}

LastSeen(n, g) == n \in Seen(g) /\ \A i \in Seen(g) : i <= n

Held == {ring[i].shape : i \in 1 .. RingCap} \ {None}

Ring ==
    /\ given \in Seq(Guards) /\ Len(given) <= MaxGuards
    /\ ring \in [1 .. RingCap -> [shape : Guards \cup {None}, seen : Nat]]
    /\ \A i \in 1 .. RingCap :
          IF ring[i].shape = None THEN ring[i] = Free
          ELSE LastSeen(ring[i].seen, ring[i].shape)
    /\ \A i, j \in 1 .. RingCap : ring[i].shape = ring[j].shape => i = j \/ ring[i].shape = None
    /\ \A i, j \in 1 .. RingCap : i < j /\ ring[i].shape = None => ring[j].shape = None
    /\ (\E i \in 1 .. RingCap : ring[i].shape = None) =>
          \A n \in 1 .. Len(given) : given[n] \in Held
    /\ \A i \in 1 .. RingCap, n \in 1 .. Len(given) :
          ring[i].shape # None /\ given[n] \notin Held => n < ring[i].seen

(* The course of the command.                                                 *)
Tried == IF pc \in OnTrial THEN job.k - 1 ELSE job.k

Staged ==
    /\ \A i, j \in 1 .. Len(cands) : cands[i].slug = cands[j].slug => i = j
    /\ pc = "args" => cands = <<>>
    /\ pc \in Early =>
          store = first /\ committed = first /\ kept = {} /\ job = NoJob /\ cur = orig
    /\ pc = "gatebase" => cmd.validate
    /\ job.k <= Len(cands)
    /\ pc \in OnTrial => job.k >= 1 /\ job.slug = cands[job.k].slug /\ job.text \in Texts
    /\ kept \in SUBSET {cands[i].slug : i \in 1 .. Tried}
    /\ job.accept => pc \notin {"evolve", "trial", "prove", "guards", "guardtrial"}
    /\ pc \in {"evolve", "trial", "prove"} => job.slot = 0
    /\ pc = "guardtrial" => Shape # None

(* Measurements. In the log M, candidate k's run of suite u gave n on         *)
(* memories that are those of c but for the slugs in X.                       *)
Mark(k, u, s, n) == [k |-> k, suite |-> u, store |-> s, n |-> n]

Like(X, s, t) == \A x \in Slugs \ X : s[x] = t[x]

Counted(M, X, k, u, c, n) == \E s : Mark(k, u, s, n) \in M /\ Like(X, s, c)

(* Guard g was run for candidate k without it, on c, and with it, on d.       *)
Witnessed(M, X, k, g, c, d) ==
    \E n, m \in Nat : /\ Counted(M, X, k, g, c, n) /\ Counted(M, X, k, g, d, m)
                      /\ n > 0 => m > 0

(* What is on trial: the committed memories and the candidate.                *)
Proposed == [committed EXCEPT ![job.slug] = job.text]

(* The memories once the first k candidates are decided.                      *)
Decided(k) ==
    [x \in Slugs |-> IF \E i \in 1 .. k : cands[i].slug = x THEN committed[x] ELSE first[x]]

Measured ==
    /\ cur >= orig
    /\ \E k \in 0 .. Tried : Counted(measured, Excused, k, GateSuite, committed, cur)
    /\ \A x \in Slugs \ Excused : committed[x] # first[x] <=> x \in kept

Accepted ==
    /\ job.trial >= cur
    /\ Counted(measured, Excused, job.k, GateSuite, Proposed, job.trial)

Measures ==
    /\ pc \notin Early \cup {"failed"} => Measured
    /\ pc \in {"next", "done"} => store = committed
    /\ pc \in OnTrial => \A s \in Slugs \ {job.slug} : store[s] = committed[s]
    /\ pc \in {"trial", "prove"} \/ (pc = "commit" /\ job.accept) =>
          job.slug \in Excused \/ store[job.slug] = job.text
    /\ pc \in {"prove", "guards", "guardtrial", "resave"} \/ (pc = "commit" /\ job.accept) =>
          Accepted

(* A guard the candidate does not break, and the guards of those kept.        *)
Survived(g) == Witnessed(measured, Excused, job.k, g, committed, Proposed)

Upheld ==
    \A k \in 1 .. Tried, i \in 1 .. RingCap :
        cands[k].slug \in kept /\ ring[i].shape # None =>
            Witnessed(measured, Excused, k, ring[i].shape, Decided(k - 1), Decided(k))

Guarded ==
    /\ pc \notin Early \cup {"failed"} => Upheld
    /\ pc \in {"guards", "guardtrial"} => \A i \in 1 .. job.slot : Survived(ring[i].shape)
    /\ pc = "guardtrial" =>
          \E n \in Nat : /\ Counted(measured, Excused, job.k, Shape, committed, n)
                         /\ job.gbase <=> n > 0
    /\ job.accept /\ pc \in OnTrial =>
          \A i \in 1 .. RingCap : ring[i].shape # None => Survived(ring[i].shape)

Inv == Types /\ Ring /\ Staged /\ Measures /\ Guarded

LEMMA Bounds ==
    /\ Cases \in SUBSET Nat /\ IsFiniteSet(Cases) /\ Holdout \in SUBSET Nat /\ IsFiniteSet(Holdout)
    /\ Fails \in SUBSET [Cases -> Terminations] /\ Skills \in SUBSET Slugs
    /\ Existing \in SUBSET Slugs /\ None \notin Slugs /\ None \notin Variants
    /\ \A f \in Fails, i \in Cases : spg_reflect_case(f[i]) \in Slugs \cup {None}
    /\ Guards \cap {"train", "valid", None} = {}
    /\ Inert \in SUBSET Guards /\ RingCap \in Nat \ {0}
    /\ Options \in SUBSET [evolve : BOOLEAN, prove : BOOLEAN, validate : BOOLEAN]
    /\ MaxGuards \in Nat /\ MaxGuarded \in 0..MaxGuards /\ MaxSpoilt \in Nat /\ AuditSpan \in Nat
BY LearnAssumption

LEMMA Names ==
    /\ None = "none" /\ "seed" # None /\ "old" # None
    /\ None \notin Texts
BY Bounds DEF None, Texts

LEMMA PassCount ==
    ASSUME NEW passed \in SUBSET (Cases \cup Holdout)
    PROVE  Cardinality(passed) \in Nat /\ Cardinality(passed) <= Cardinality(Cases \cup Holdout)
<1>1. IsFiniteSet(Cases \cup Holdout)
  BY Bounds, FS_Union
<1>. QED
  BY <1>1, FS_Subset, FS_CardinalityType

-----------------------------------------------------------------------------
(* Candidates: the elements of a finite set of numbers have ranks, and one    *)
(* element has each rank.                                                     *)
Rank(S, i) == Cardinality({j \in S : j < i})

LEMMA RankGrows ==
    ASSUME NEW S \in SUBSET Nat, IsFiniteSet(S), NEW i \in S, NEW k \in Nat, i < k
    PROVE  Rank(S, i) \in Nat /\ Rank(S, k) \in Nat /\ Rank(S, i) < Rank(S, k)
<1>. DEFINE I == {j \in S : j < i}
            K == {j \in S : j < k}
<1>1. I \in SUBSET S /\ K \in SUBSET S /\ i \notin I /\ I \cup {i} \in SUBSET K
  <2>1. I \in SUBSET S /\ K \in SUBSET S
    OBVIOUS
  <2>2. ~(i < i)
    OBVIOUS
  <2>3. \A j \in S : j < i => j < k
    OBVIOUS
  <2>4. i \notin I
    BY <2>2
  <2>5. I \cup {i} \in SUBSET K
    BY <2>3
  <2>. QED
    BY <2>1, <2>4, <2>5
<1>. HIDE DEF I, K
<1>2. IsFiniteSet(I) /\ IsFiniteSet(K) /\ Cardinality(I) \in Nat /\ Cardinality(K) \in Nat
  BY <1>1, FS_Subset, FS_CardinalityType
<1>3. Cardinality(I \cup {i}) = Cardinality(I) + 1
  BY <1>1, <1>2, FS_AddElement
<1>4. Cardinality(I \cup {i}) <= Cardinality(K)
  BY <1>1, <1>2, FS_Subset
<1>. QED
  BY <1>2, <1>3, <1>4 DEF Rank, I, K

LEMMA RankBelow ==
    ASSUME NEW S \in SUBSET Nat, IsFiniteSet(S), NEW i \in S
    PROVE  Rank(S, i) \in 0 .. (Cardinality(S) - 1)
<1>. DEFINE I == {j \in S : j < i}
<1>1. I \in SUBSET S /\ i \notin I /\ I \cup {i} \in SUBSET S
  OBVIOUS
<1>. HIDE DEF I
<1>2. IsFiniteSet(I) /\ Cardinality(I) \in Nat /\ Cardinality(S) \in Nat
  BY <1>1, FS_Subset, FS_CardinalityType
<1>3. Cardinality(I \cup {i}) = Cardinality(I) + 1
  BY <1>1, <1>2, FS_AddElement
<1>4. Cardinality(I \cup {i}) <= Cardinality(S)
  BY <1>1, FS_Subset
<1>. QED
  BY <1>2, <1>3, <1>4 DEF Rank, I

LEMMA RankReached ==
    ASSUME NEW S \in SUBSET Nat, IsFiniteSet(S), NEW n \in 1 .. Cardinality(S)
    PROVE  \E i \in S : Rank(S, i) = n - 1
<1>. DEFINE N == Cardinality(S)
            T == 0 .. (N - 1)
            r == [i \in S |-> Rank(S, i)]
<1>1. N \in Nat
  BY FS_CardinalityType
<1>2. r \in [S -> T]
  BY RankBelow
<1>3. r \in Injection(S, T)
  <2>1. ASSUME NEW i \in S, NEW k \in S, r[i] = r[k] PROVE i = k
    <3>1. i \in Nat /\ k \in Nat /\ r[i] = Rank(S, i) /\ r[k] = Rank(S, k)
      OBVIOUS
    <3>2. ~(i < k)
      BY <2>1, <3>1, RankGrows
    <3>3. ~(k < i)
      BY <2>1, <3>1, RankGrows
    <3>. QED
      BY <3>1, <3>2, <3>3
  <2>. HIDE DEF r, T
  <2>. QED
    BY <1>2, <2>1 DEF Injection, IsInjective
<1>4. IsFiniteSet(T) /\ Cardinality(T) = N
  <2>. HIDE DEF N
  <2>. QED
    BY <1>1, FS_Interval
<1>5. r \in Surjection(S, T)
  <2>. HIDE DEF r, T
  <2>. QED
    BY <1>3, <1>4, FS_Injection
<1>6. n - 1 \in T
  BY <1>1
<1>7. \E i \in S : r[i] = n - 1
  <2>. HIDE DEF r, T
  <2>. QED
    BY <1>5, <1>6 DEF Surjection
<1>. QED
  BY <1>7

LEMMA CandidatesAre ==
    ASSUME Types, NEW passed \in SUBSET Cases
    PROVE  /\ Candidates(passed) \in Seq(Candidate)
           /\ \A i, j \in 1 .. Len(Candidates(passed)) :
                Candidates(passed)[i].slug = Candidates(passed)[j].slug => i = j
<1>. DEFINE slug(i) == spg_reflect_case(fails[i])
            fresh == {i \in Cases \ passed :
                        /\ slug(i) # None
                        /\ \A j \in Cases \ passed : j < i => slug(j) # slug(i)}
            nth(n) == CHOOSE i \in fresh : Cardinality({j \in fresh : j < i}) = n - 1
            N == Cardinality(fresh)
            C == Candidates(passed)
<1>1. C = [n \in 1..N |-> [slug |-> slug(nth(n)), origin |-> nth(n)]]
  BY DEF Candidates
<1>2. fresh \in SUBSET Nat /\ fresh \in SUBSET Cases /\ IsFiniteSet(fresh) /\ N \in Nat
  <2>1. fresh \in SUBSET Cases
    OBVIOUS
  <2>. HIDE DEF fresh
  <2>. QED
    BY <2>1, Bounds, FS_Subset, FS_CardinalityType
<1>3. \A i \in fresh : slug(i) \in Slugs
  BY Bounds DEF Types
<1>4. \A i, k \in fresh : i # k => slug(i) # slug(k)
  <2>1. \A i, k \in fresh : i < k => slug(i) # slug(k)
    OBVIOUS
  <2>2. \A i, k \in fresh : i # k => i < k \/ k < i
    <3>. HIDE DEF fresh
    <3>. QED
      BY <1>2
  <2>. QED
    BY <2>1, <2>2
<1>. HIDE DEF fresh, slug, C
<1>5. ASSUME NEW n \in 1 .. N PROVE nth(n) \in fresh /\ Rank(fresh, nth(n)) = n - 1
  <2>1. \E i \in fresh : Rank(fresh, i) = n - 1
    BY <1>2, RankReached
  <2>. QED
    BY <2>1 DEF Rank
<1>. HIDE DEF nth, N
<1>6. DOMAIN C = 1 .. N /\ \A n \in 1 .. N : C[n] = [slug |-> slug(nth(n)), origin |-> nth(n)]
  BY <1>1
<1>7. ASSUME NEW n \in 1 .. N PROVE C[n] \in Candidate
  <2>1. nth(n) \in Cases /\ slug(nth(n)) \in Slugs
    BY <1>2, <1>3, <1>5
  <2>. QED
    BY <1>6, <2>1 DEF Candidate
<1>8. C \in Seq(Candidate) /\ Len(C) = N
  <2>1. C \in [1 .. N -> Candidate]
    BY <1>1, <1>6, <1>7
  <2>. QED
    BY <1>2, <2>1
<1>9. ASSUME NEW i \in 1 .. N, NEW j \in 1 .. N, C[i].slug = C[j].slug PROVE i = j
  <2>1. nth(i) = nth(j)
    BY <1>4, <1>5, <1>6, <1>9
  <2>2. i - 1 = j - 1
    BY <1>5, <2>1
  <2>. QED
    BY <2>2
<1>. QED
  BY <1>8, <1>9 DEF C

-----------------------------------------------------------------------------
-----------------------------------------------------------------------------
(* Measurements.                                                              *)
LEMMA Outcome ==
    ASSUME NEW suite, NEW passed \in Outcomes(suite)
    PROVE  /\ Cardinality(passed) \in Nat /\ (Cardinality(passed) > 0 <=> passed # {})
           /\ suite \in {"train", "valid"} => Cardinality(passed) \in Count
<1>1. /\ passed \in SUBSET (Cases \cup Holdout) \/ passed \in SUBSET {1}
      /\ suite \in {"train", "valid"} => passed \in SUBSET (Cases \cup Holdout)
  BY DEF Outcomes
<1>2. IsFiniteSet(Cases \cup Holdout) /\ IsFiniteSet({1})
  BY Bounds, FS_Union, FS_Singleton
<1>3. IsFiniteSet(passed)
  BY <1>1, <1>2, FS_Subset
<1>4. Cardinality(passed) \in Nat /\ (Cardinality(passed) = 0 <=> passed = {})
  BY <1>3, FS_CardinalityType, FS_EmptySet
<1>5. suite \in {"train", "valid"} => Cardinality(passed) \in Count
  BY <1>1, PassCount DEF Count
<1>. QED
  BY <1>4, <1>5

(* What is logged stays, and what is excused stays excused.                   *)
LEMMA CountedGrows ==
    ASSUME NEW M, NEW N, NEW X, NEW Y, M \in SUBSET N, X \in SUBSET Y,
           NEW k, NEW u, NEW c, NEW n, Counted(M, X, k, u, c, n)
    PROVE  Counted(N, Y, k, u, c, n)
BY DEF Counted, Like

LEMMA CountedLike ==
    ASSUME NEW M, NEW X, NEW k, NEW u, NEW c, NEW d, NEW n,
           Counted(M, X, k, u, c, n), Like(X, c, d)
    PROVE  Counted(M, X, k, u, d, n)
BY DEF Counted, Like

LEMMA WitnessedGrows ==
    ASSUME NEW M, NEW N, NEW X, NEW Y, M \in SUBSET N, X \in SUBSET Y,
           NEW k, NEW g, NEW c, NEW d, Witnessed(M, X, k, g, c, d)
    PROVE  Witnessed(N, Y, k, g, c, d)
<1>1. PICK n \in Nat, m \in Nat :
         Counted(M, X, k, g, c, n) /\ Counted(M, X, k, g, d, m) /\ (n > 0 => m > 0)
  BY DEF Witnessed
<1>2. Counted(N, Y, k, g, c, n) /\ Counted(N, Y, k, g, d, m)
  BY <1>1, CountedGrows
<1>. QED
  BY <1>1, <1>2 DEF Witnessed

LEMMA WitnessedLike ==
    ASSUME NEW M, NEW X, NEW k, NEW g, NEW c, NEW d, NEW e, NEW f,
           Witnessed(M, X, k, g, c, d), Like(X, c, e), Like(X, d, f)
    PROVE  Witnessed(M, X, k, g, e, f)
<1>1. PICK n \in Nat, m \in Nat :
         Counted(M, X, k, g, c, n) /\ Counted(M, X, k, g, d, m) /\ (n > 0 => m > 0)
  BY DEF Witnessed
<1>2. Counted(M, X, k, g, e, n) /\ Counted(M, X, k, g, f, m)
  BY <1>1, CountedLike
<1>. QED
  BY <1>1, <1>2 DEF Witnessed

(* A revert drops the measurements of its own candidate only.                 *)
LEMMA MarkFields ==
    ASSUME NEW k, NEW u, NEW s, NEW n
    PROVE  /\ Mark(k, u, s, n).k = k /\ Mark(k, u, s, n).suite = u
           /\ Mark(k, u, s, n).store = s /\ Mark(k, u, s, n).n = n
BY DEF Mark

Without(M, j) == {e \in M : e.k # j}

LEMMA CountedKept ==
    ASSUME NEW M, NEW X, NEW j, NEW k, k # j, NEW u, NEW c, NEW n, Counted(M, X, k, u, c, n)
    PROVE  Counted(Without(M, j), X, k, u, c, n)
<1>1. PICK s : Mark(k, u, s, n) \in M /\ Like(X, s, c)
  BY DEF Counted
<1>2. Mark(k, u, s, n) \in Without(M, j)
  BY <1>1, MarkFields DEF Without
<1>. QED
  BY <1>1, <1>2 DEF Counted

LEMMA WitnessedKept ==
    ASSUME NEW M, NEW X, NEW j, NEW k, k # j, NEW g, NEW c, NEW d, Witnessed(M, X, k, g, c, d)
    PROVE  Witnessed(Without(M, j), X, k, g, c, d)
<1>1. PICK n \in Nat, m \in Nat :
         Counted(M, X, k, g, c, n) /\ Counted(M, X, k, g, d, m) /\ (n > 0 => m > 0)
  BY DEF Witnessed
<1>2. Counted(Without(M, j), X, k, g, c, n) /\ Counted(Without(M, j), X, k, g, d, m)
  BY <1>1, CountedKept
<1>. QED
  BY <1>1, <1>2 DEF Witnessed

LEMMA MeasureFacts ==
    ASSUME NEW suite, NEW s, NEW passed, Measure(suite, s, passed)
    PROVE  /\ measured \in SUBSET measured'
           /\ Mark(job.k, suite, s, Cardinality(passed)) \in measured'
BY DEF Measure, Mark

(* Nothing is forgiven once it is excused.                                    *)
LEMMA ExcusedGrows ==
    ASSUME spoilt \in SUBSET spoilt', UNCHANGED <<cands, first>>
    PROVE  Excused \in SUBSET Excused'
BY DEF Excused

-----------------------------------------------------------------------------
(* Types and the course of the command, action by action.                     *)
LEMMA PutFacts ==
    ASSUME Types, NEW text \in Texts \cup {None}, job.slug \in Slugs, Put(text, store')
    PROVE  /\ store' \in Stores /\ spoilt' \in SUBSET Slugs /\ spoilt \in SUBSET spoilt'
           /\ job.slug \in spoilt' \/ store'[job.slug] = text
           /\ \A s \in Slugs \ {job.slug} : store'[s] = store[s]
<1>1. store \in Stores /\ spoilt \in SUBSET Slugs
  BY DEF Types
<1>2. CASE store' = [store EXCEPT ![job.slug] = text] /\ UNCHANGED spoilt
  BY <1>1, <1>2 DEF Stores
<1>3. CASE store' = store /\ spoilt' = spoilt \cup {job.slug}
  BY <1>1, <1>3
<1>. QED
  BY <1>2, <1>3 DEF Put, Fault

LEMMA NoJobFacts ==
    /\ NoJob \in Job /\ NoJob.k = 0 /\ NoJob.slot = 0 /\ NoJob.accept = FALSE
    /\ NoJob.scores = <<>>
<1>1. 0 \in Count
  BY PassCount DEF Count
<1>. QED
  BY <1>1, Bounds DEF NoJob, Job, Score

(* A candidate whose trial begins.                                            *)
Fresh(k, slug) == [NoJob EXCEPT !.k = k, !.slug = slug, !.text = "seed"]

LEMMA FreshJob ==
    ASSUME NEW k \in Nat, NEW slug \in Slugs
    PROVE  /\ Fresh(k, slug) \in Job /\ Fresh(k, slug).k = k
           /\ Fresh(k, slug).slug = slug /\ Fresh(k, slug).text = "seed"
           /\ Fresh(k, slug).slot = 0 /\ Fresh(k, slug).accept = FALSE
           /\ Fresh(k, slug).scores = <<>>
<1>1. NoJob \in Job /\ NoJob.slot = 0 /\ NoJob.accept = FALSE /\ NoJob.scores = <<>>
  BY NoJobFacts
<1>. DEFINE n == NoJob
<1>. HIDE DEF n
<1>2. \A j \in Job : /\ [j EXCEPT !.k = k, !.slug = slug, !.text = "seed"] \in Job
                     /\ [j EXCEPT !.k = k, !.slug = slug, !.text = "seed"].k = k
                     /\ [j EXCEPT !.k = k, !.slug = slug, !.text = "seed"].slug = slug
                     /\ [j EXCEPT !.k = k, !.slug = slug, !.text = "seed"].text = "seed"
                     /\ [j EXCEPT !.k = k, !.slug = slug, !.text = "seed"].slot = j.slot
                     /\ [j EXCEPT !.k = k, !.slug = slug, !.text = "seed"].accept = j.accept
                     /\ [j EXCEPT !.k = k, !.slug = slug, !.text = "seed"].scores = j.scores
  BY DEF Job, Texts
<1>. QED
  BY <1>1, <1>2 DEF Fresh

(* The candidate on trial has a slug.                                         *)
LEMMA OnTrialFacts ==
    ASSUME Types, Staged, pc \in OnTrial
    PROVE  /\ job.slug \in Slugs /\ job.text \in Texts /\ job \in Job
           /\ job.k \in 1 .. Len(cands) /\ job.slug = cands[job.k].slug
           /\ Len(cands) \in Nat /\ DOMAIN cands = 1 .. Len(cands)
           /\ job.slot \in 0 .. RingCap /\ Tried = job.k - 1
           /\ kept \in SUBSET {cands[i].slug : i \in 1 .. (job.k - 1)}
<1>1. /\ job.k \in 1 .. Len(cands) /\ job.slug = cands[job.k].slug /\ job.text \in Texts
      /\ kept \in SUBSET {cands[i].slug : i \in 1 .. (job.k - 1)}
      /\ Len(cands) \in Nat /\ DOMAIN cands = 1 .. Len(cands)
      /\ job \in Job /\ job.slot \in 0 .. RingCap /\ Tried = job.k - 1
  BY DEF Types, Job, Staged, Tried
<1>2. cands[job.k] \in Candidate
  BY <1>1 DEF Types
<1>. QED
  BY <1>1, <1>2 DEF Candidate

(* An action of the trial leaves these alone.                                 *)
Settled == UNCHANGED <<cmd, fails, ring, given, cands, first>>

LEMMA GuardArgumentTypes ==
    ASSUME Types, Staged, GuardArgument
    PROVE  Types' /\ Staged'
BY DEF Types, Staged, GuardArgument, Tried, OnTrial, Early, Shape

LEMMA StartTypes ==
    ASSUME Types, Staged, Distil \/ Improve
    PROVE  Types' /\ Staged'
<1>1. /\ pc = "args" /\ UNCHANGED <<cmd, fails, store, job, cur, orig, kept, spoilt, first, committed>>
      /\ \/ pc' = "baseline" /\ \E x \in Skills : cands' = <<[slug |-> x, origin |-> 0]>>
         \/ pc' \in {"baseline", "failed"} /\ cands' = cands
  <2>1. CASE Distil
    BY <2>1 DEF Distil, Goto, Exit
  <2>2. CASE Improve
    BY <2>2 DEF Improve, Goto
  <2>. QED
    BY <2>1, <2>2
<1>2. cands = <<>> /\ job = NoJob /\ kept = {} /\ job.k = 0 /\ job.accept = FALSE
  BY <1>1, NoJobFacts DEF Staged, Early
<1>3. /\ cands' \in Seq(Candidate) /\ Len(cands') \in Nat
      /\ \A i, j \in 1 .. Len(cands') : cands'[i].slug = cands'[j].slug => i = j
  <2>1. CASE cands' = cands
    BY <1>2, <2>1
  <2>2. CASE \E x \in Skills : cands' = <<[slug |-> x, origin |-> 0]>>
    <3>1. PICK x \in Skills : cands' = <<[slug |-> x, origin |-> 0]>>
      BY <2>2
    <3>2. [slug |-> x, origin |-> 0] \in Candidate
      BY Bounds DEF Candidate
    <3>. QED
      BY <3>1, <3>2
  <2>. QED
    BY <1>1, <2>1, <2>2
<1>4. Types'
  BY <1>1, <1>3 DEF Types, Early
<1>. QED
  BY <1>1, <1>2, <1>3, <1>4 DEF Staged, Early, OnTrial, Tried

(* The first measurement of the gating suite, on the store the command found. *)
LEMMA BaselineTypes ==
    ASSUME Types, Staged, Baseline
    PROVE  Types' /\ Staged' /\ Mark(0, "train", store, cur') \in measured'
           /\ orig' = cur' /\ pc' \in {"gatebase", "next"} /\ pc = "baseline"
           /\ (pc' = "next" <=> ~cmd.validate)
           /\ UNCHANGED <<cmd, fails, ring, given, store, job, kept, spoilt, first, committed>>
<1>1. PICK passed \in Outcomes("train") :
         /\ Measure("train", store, passed)
         /\ cands' = (IF cmd.kind = "distill" THEN cands ELSE Candidates(passed))
         /\ cur' = Cardinality(passed) /\ orig' = Cardinality(passed)
  BY DEF Baseline
<1>2. /\ pc = "baseline" /\ pc' = IF cmd.validate THEN "gatebase" ELSE "next"
      /\ UNCHANGED <<cmd, fails, ring, given, store, job, kept, spoilt, first, committed>>
  BY DEF Baseline, Goto
<1>3. passed \in SUBSET Cases
  BY DEF Outcomes
<1>4. cands' \in Seq(Candidate) /\ \A i, j \in 1 .. Len(cands') : cands'[i].slug = cands'[j].slug => i = j
  <2>1. CASE cands' = cands
    BY <2>1 DEF Types, Staged
  <2>2. CASE cands' = Candidates(passed)
    BY <1>3, <2>2, CandidatesAre
  <2>. QED
    BY <1>1, <2>1, <2>2
<1>5. Cardinality(passed) \in Count
  BY Outcome
<1>6. Types'
  BY <1>1, <1>2, <1>4, <1>5 DEF Types, Early
<1>7. job = NoJob /\ kept = {} /\ job.k = 0 /\ job.accept = FALSE /\ store = first /\ committed = first
  BY <1>2, NoJobFacts DEF Staged, Early
<1>8. Staged'
  <2>1. Len(cands') \in Nat
    BY <1>4
  <2>2. pc' \in {"gatebase", "next"} /\ (pc' = "gatebase" => cmd.validate)
    BY <1>2
  <2>. QED
    BY <1>1, <1>2, <1>4, <1>7, <2>1, <2>2 DEF Staged, Early, OnTrial, Tried
<1>9. Mark(0, "train", store, cur') \in measured'
  BY <1>1, <1>7, MeasureFacts
<1>. QED
  BY <1>1, <1>2, <1>6, <1>8, <1>9

LEMMA GateBaselineTypes ==
    ASSUME Types, Staged, GateBaseline
    PROVE  Types' /\ Staged' /\ Mark(0, "valid", store, cur') \in measured'
           /\ pc' = "next" /\ pc = "gatebase" /\ orig' = cur'
           /\ UNCHANGED <<cmd, fails, ring, given, store, cands, job, kept, spoilt, first, committed>>
<1>1. PICK passed \in Outcomes("valid") :
         /\ Measure("valid", store, passed)
         /\ cur' = Cardinality(passed) /\ orig' = Cardinality(passed)
  BY DEF GateBaseline
<1>2. /\ pc = "gatebase" /\ pc' = "next"
      /\ UNCHANGED <<cmd, fails, ring, given, store, cands, job, kept, spoilt, first, committed>>
  BY DEF GateBaseline, Goto
<1>3. Cardinality(passed) \in Count
  BY Outcome
<1>4. Types'
  BY <1>1, <1>2, <1>3 DEF Types, Early
<1>5. job = NoJob /\ kept = {} /\ job.k = 0 /\ job.accept = FALSE
  BY <1>2, NoJobFacts DEF Staged, Early
<1>6. Staged'
  BY <1>1, <1>2, <1>5 DEF Staged, Early, OnTrial, Tried
<1>7. Mark(0, "valid", store, cur') \in measured'
  BY <1>1, <1>5, MeasureFacts
<1>. QED
  BY <1>1, <1>2, <1>4, <1>6, <1>7

LEMMA MinIs ==
    ASSUME NEW S \in SUBSET Nat, S # {}
    PROVE  Min(S) \in S /\ \A y \in S : Min(S) <= y
<1>1. PICK m \in S : TRUE
  OBVIOUS
<1>. DEFINE F == {i \in S : i <= m}
<1>2. F \in SUBSET Nat /\ m \in F /\ F \in SUBSET (0 .. m)
  <2>1. m \in Nat /\ m <= m /\ \A i \in S : i \in Nat /\ (i <= m => i \in 0 .. m)
    BY <1>1
  <2>2. F \in SUBSET Nat
    BY <2>1
  <2>3. m \in F
    BY <2>1
  <2>4. F \in SUBSET (0 .. m)
    BY <2>1
  <2>. QED
    BY <2>2, <2>3, <2>4
<1>3. IsFiniteSet(F) /\ Cardinality(F) \in Nat /\ Cardinality(F) # 0
  <2>. HIDE DEF F
  <2>1. IsFiniteSet(0 .. m)
    BY <1>1, FS_Interval
  <2>. QED
    BY <1>2, <2>1, FS_Subset, FS_CardinalityType, FS_EmptySet
<1>4. PICK i \in F : Rank(F, i) = 0
  <2>. HIDE DEF F
  <2>1. 1 \in 1 .. Cardinality(F)
    BY <1>3
  <2>. QED
    BY <1>2, <1>3, <2>1, RankReached
<1>5. {j \in F : j < i} = {}
  <2>. HIDE DEF F
  <2>1. {j \in F : j < i} \in SUBSET F
    OBVIOUS
  <2>. QED
    BY <1>3, <1>4, <2>1, FS_Subset, FS_EmptySet DEF Rank
<1>6. i \in S /\ \A y \in S : i <= y
  <2>1. ASSUME NEW y \in S PROVE i <= y
    <3>1. CASE y <= m
      BY <1>5, <3>1
    <3>2. CASE ~(y <= m)
      BY <1>1, <3>2
    <3>. QED
      BY <3>1, <3>2
  <2>. QED
    BY <2>1
<1>. QED
  <2>. HIDE DEF F
  <2>1. \E x \in S : \A y \in S : x =< y
    BY <1>6
  <2>. QED
    BY <2>1 DEF Min

LEMMA MaxExists ==
    ASSUME NEW S \in SUBSET Nat, S # {}, IsFiniteSet(S)
    PROVE  \E x \in S : \A y \in S : x >= y
<1>1. Cardinality(S) \in Nat /\ Cardinality(S) # 0
  BY FS_CardinalityType, FS_EmptySet
<1>2. PICK x \in S : Rank(S, x) = Cardinality(S) - 1
  <2>1. Cardinality(S) \in 1 .. Cardinality(S)
    BY <1>1
  <2>. QED
    BY <2>1, RankReached
<1>3. ASSUME NEW y \in S PROVE ~(x < y)
  <2>1. Rank(S, y) \in 0 .. (Cardinality(S) - 1)
    BY RankBelow
  <2>2. x < y => Rank(S, x) < Rank(S, y)
    BY RankGrows
  <2>. QED
    BY <1>1, <1>2, <2>1, <2>2
<1>. QED
  BY <1>3

LEMMA SelectIs ==
    ASSUME NEW scores \in Seq(Score), scores # <<>>
    PROVE  /\ spg_gepa_select(scores) \in 1 .. Len(scores)
           /\ scores[spg_gepa_select(scores)].text \in Texts
<1>. DEFINE N == Len(scores)
            f == [i \in 1 .. N |-> scores[i].n]
            F == {scores[i].n : i \in 1 .. N}
            B == {i \in DOMAIN scores : \A j \in DOMAIN scores : scores[j].n <= scores[i].n}
<1>1. N \in Nat /\ 1 \in 1 .. N /\ DOMAIN scores = 1 .. N
  BY EmptySeq
<1>2. \A i \in 1 .. N : scores[i].n \in Nat /\ scores[i].text \in Texts
  <2>1. \A i \in 1 .. N : scores[i] \in Score
    BY <1>1
  <2>2. \A x \in Score : x.n \in Nat /\ x.text \in Texts
    BY DEF Score
  <2>. QED
    BY <2>1, <2>2
<1>3. F \in SUBSET Nat /\ F # {}
  BY <1>1, <1>2
<1>4. IsFiniteSet(F)
  <2>1. f \in Surjection(1 .. N, F)
    BY DEF Surjection
  <2>. HIDE DEF f, F
  <2>. QED
    BY <1>1, <2>1, FS_Surjection, FS_Interval
<1>5. PICK i \in 1 .. N : \A j \in 1 .. N : scores[i].n >= scores[j].n
  <2>1. PICK x \in F : \A y \in F : x >= y
    <3>. HIDE DEF F
    <3>. QED
      BY <1>3, <1>4, MaxExists
  <2>. QED
    BY <2>1
<1>6. i \in B /\ B \in SUBSET Nat
  BY <1>1, <1>2, <1>5
<1>7. Min(B) \in B
  <2>. HIDE DEF B
  <2>. QED
    BY <1>6, MinIs
<1>8. spg_gepa_select(scores) = Min(B)
  BY DEF spg_gepa_select
<1>. QED
  BY <1>1, <1>2, <1>7, <1>8

LEMMA SaveTypes ==
    ASSUME Types, Staged, TentativeSave
    PROVE  /\ Types' /\ Staged'
           /\ pc = "next" /\ pc' \in {"evolve", "trial", "failed"}
           /\ job'.slug \in Slugs /\ job'.text = "seed" /\ job'.accept = FALSE
           /\ job'.k = job.k + 1 /\ spoilt \in SUBSET spoilt'
           /\ job'.slug \in spoilt' \/ store'[job'.slug] = "seed"
           /\ \A x \in Slugs \ {job'.slug} : store'[x] = store[x]
           /\ Settled /\ UNCHANGED <<measured, cur, orig, kept, committed>>
<1>. DEFINE c == cands[job.k + 1]
<1>1. /\ pc = "next" /\ job.k < Len(cands) /\ job.k + 1 \in 1 .. Len(cands)
      /\ job' = [NoJob EXCEPT !.k = job.k + 1, !.slug = c.slug, !.text = "seed"]
      /\ Settled /\ UNCHANGED <<measured, cur, orig, kept, committed>>
      /\ \/ /\ store' = [store EXCEPT ![c.slug] = "seed"] /\ UNCHANGED spoilt
            /\ pc' \in {"evolve", "trial"}
         \/ /\ spoilt' = spoilt \cup {c.slug} /\ UNCHANGED store
            /\ pc' \in {"evolve", "trial", "failed"}
  <2>1. job.k \in Nat /\ Len(cands) \in Nat
    BY DEF Types, Job
  <2>. QED
    BY <2>1 DEF TentativeSave, Settled, Goto, Fault
<1>2. c \in Candidate /\ c.slug \in Slugs /\ job.k + 1 \in Nat
  <2>1. c \in Candidate
    BY <1>1 DEF Types
  <2>. QED
    BY <1>1, <2>1 DEF Candidate
<1>3. job' \in Job /\ job'.k = job.k + 1 /\ job'.slug = c.slug /\ job'.text = "seed"
      /\ job'.slot = 0 /\ job'.accept = FALSE
  <2>. DEFINE k == job.k + 1
              x == c.slug
  <2>1. job' = [NoJob EXCEPT !.k = k, !.slug = x, !.text = "seed"] /\ k \in Nat /\ x \in Slugs
    BY <1>1, <1>2
  <2>. HIDE DEF k, x
  <2>2. /\ job' \in Job /\ job'.k = k /\ job'.slug = x /\ job'.text = "seed"
        /\ job'.slot = 0 /\ job'.accept = FALSE
    <3>1. job' = Fresh(k, x)
      BY <2>1 DEF Fresh
    <3>2. k \in Nat /\ x \in Slugs
      BY <2>1
    <3>. QED
      BY <3>1, <3>2, FreshJob
  <2>. QED
    BY <2>2 DEF k, x
<1>4. /\ store' \in Stores /\ spoilt' \in SUBSET Slugs /\ spoilt \in SUBSET spoilt'
      /\ job'.slug \in spoilt' \/ store'[job'.slug] = "seed"
      /\ \A x \in Slugs \ {job'.slug} : store'[x] = store[x]
  <2>1. store \in Stores /\ spoilt \in SUBSET Slugs /\ c.slug \in Slugs /\ job'.slug = c.slug
    BY <1>2, <1>3 DEF Types
  <2>. DEFINE x == c.slug
  <2>2. \/ store' = [store EXCEPT ![x] = "seed"] /\ UNCHANGED spoilt
        \/ spoilt' = spoilt \cup {x} /\ UNCHANGED store
    BY <1>1
  <2>. HIDE DEF x
  <2>3. x \in Slugs /\ job'.slug = x
    BY <2>1 DEF x
  <2>4. CASE store' = [store EXCEPT ![x] = "seed"] /\ UNCHANGED spoilt
    BY <2>1, <2>3, <2>4 DEF Stores, Texts
  <2>5. CASE spoilt' = spoilt \cup {x} /\ UNCHANGED store
    BY <2>1, <2>3, <2>5
  <2>. QED
    BY <2>2, <2>4, <2>5
<1>5. Types'
  BY <1>1, <1>3, <1>4 DEF Types, Settled, OnTrial
<1>6. Staged'
  <2>1. kept \in SUBSET {cands[i].slug : i \in 1 .. job.k}
    BY <1>1 DEF Staged, Tried, OnTrial
  <2>2. \A i \in 1 .. job.k : i \in 1 .. (job.k + 1)
    BY DEF Types, Job
  <2>3. kept' \in SUBSET {cands'[i].slug : i \in 1 .. Tried'}
    <3>1. job'.k - 1 = job.k /\ job'.k = job.k + 1
      BY <1>3 DEF Types, Job
    <3>2. Tried' = job.k \/ Tried' = job.k + 1
      BY <3>1 DEF Tried
    <3>. HIDE <1>1
    <3>3. cands' = cands /\ kept' = kept
      BY <1>1 DEF Settled
    <3>. QED
      BY <2>1, <2>2, <3>2, <3>3
  <2>4. job'.k \in 1 .. Len(cands) /\ job'.slug = cands[job'.k].slug /\ job'.text \in Texts
    BY <1>1, <1>3 DEF Texts
  <2>5. cands' = cands /\ Len(cands) \in Nat
    BY <1>1 DEF Settled, Types
  <2>6. pc' \notin Early /\ pc' # "guardtrial"
    BY <1>1 DEF Early
  <2>. QED
    BY <1>3, <2>3, <2>4, <2>5, <2>6 DEF Staged, Early
<1>. QED
  BY <1>1, <1>2, <1>3, <1>4, <1>5, <1>6

(* What is the same in all actions of a trial.                                *)
Persists ==
    /\ Settled /\ UNCHANGED <<cur, orig, committed, kept>>
    /\ spoilt \in SUBSET spoilt' /\ measured \in SUBSET measured'
    /\ \A s \in Slugs \ {job.slug} : store'[s] = store[s]
    /\ pc \in OnTrial /\ pc' \in OnTrial
    /\ job'.k = job.k /\ job'.slug = job.slug /\ job'.text \in Texts /\ job'.slot \in 0 .. RingCap

LEMMA PersistsStaged ==
    ASSUME Types, Staged, Persists, Types',
           job'.accept => pc' \notin {"evolve", "trial", "prove", "guards", "guardtrial"},
           pc' \in {"evolve", "trial", "prove"} => job'.slot = 0,
           pc' = "guardtrial" => Shape' # None
    PROVE  Staged'
<1>1. Tried' = Tried
  BY DEF Persists, Tried
<1>2. pc' \notin Early /\ pc' # "args" /\ pc' # "gatebase"
  BY DEF Persists, Early, OnTrial
<1>. QED
  BY <1>1, <1>2 DEF Staged, Persists, Settled

LEMMA SuiteKnown == GateSuite \in {"train", "valid"}
BY DEF GateSuite

LEMMA EvolveMeasureTypes ==
    ASSUME Types, Staged, EvolveMeasure
    PROVE  /\ Types' /\ Staged' /\ Persists
           /\ pc = "evolve" /\ pc' = "evolve" /\ job'.accept = FALSE
<1>1. PICK text \in (IF {job.scores[i].text : i \in DOMAIN job.scores} = {}
                     THEN {"seed"}
                     ELSE Variants \ {job.scores[i].text : i \in DOMAIN job.scores}) :
         /\ Put(text, store')
         /\ \E passed \in Outcomes(GateSuite) :
               job' = [job EXCEPT !.scores =
                         Append(@, [text |-> text, n |-> Cardinality(passed)])]
  BY DEF EvolveMeasure
<1>2. /\ pc = "evolve" /\ pc' = "evolve"
      /\ UNCHANGED <<cmd, fails, ring, given, measured, cands, cur, orig, kept, first, committed>>
  BY DEF EvolveMeasure
<1>3. text \in Texts
  BY DEF Texts
<1>4. /\ job.text \in Texts /\ job.accept = FALSE /\ job.slot \in 0 .. RingCap /\ job.slot = 0
      /\ job \in Job /\ job.slug \in Slugs
  BY <1>2, OnTrialFacts DEF Staged, OnTrial, Job
<1>5. /\ store' \in Stores /\ spoilt' \in SUBSET Slugs /\ spoilt \in SUBSET spoilt'
      /\ \A s \in Slugs \ {job.slug} : store'[s] = store[s]
  BY <1>1, <1>3, <1>4, PutFacts
<1>6. PICK n \in Nat : job' = [job EXCEPT !.scores = Append(@, [text |-> text, n |-> n])]
  <2>1. \A passed \in Outcomes(GateSuite) : Cardinality(passed) \in Nat
    BY Outcome
  <2>. QED
    BY <1>1, <2>1
<1>7. /\ job' \in Job /\ job'.k = job.k /\ job'.slug = job.slug /\ job'.text = job.text
      /\ job'.slot = job.slot /\ job'.accept = job.accept
  <2>1. job \in Job /\ job.scores \in Seq(Score)
    BY <1>4 DEF Job
  <2>2. [text |-> text, n |-> n] \in Score
    BY <1>3 DEF Score
  <2>. DEFINE q == Append(job.scores, [text |-> text, n |-> n])
  <2>3. q \in Seq(Score)
    BY <2>1, <2>2
  <2>4. job' = [job EXCEPT !.scores = q]
    BY <1>6
  <2>. HIDE DEF q
  <2>. QED
    BY <2>1, <2>3, <2>4 DEF Job
<1>8. Types'
  BY <1>2, <1>5, <1>7 DEF Types
<1>9. Persists
  BY <1>2, <1>4, <1>5, <1>7 DEF Persists, Settled, OnTrial
<1>10. Staged'
  BY <1>2, <1>4, <1>7, <1>8, <1>9, PersistsStaged
<1>. QED
  BY <1>2, <1>4, <1>7, <1>8, <1>9, <1>10

LEMMA EvolveSelectTypes ==
    ASSUME Types, Staged, EvolveSelect
    PROVE  /\ Types' /\ Staged' /\ Persists
           /\ pc = "evolve" /\ pc' = "trial" /\ job'.accept = FALSE
           /\ job.slug \in spoilt' \/ store'[job.slug] = job'.text
<1>. DEFINE best == job.scores[spg_gepa_select(job.scores)].text
<1>1. /\ pc = "evolve" /\ pc' = "trial" /\ job.scores # <<>>
      /\ job' = [job EXCEPT !.text = best, !.scores = <<>>] /\ Put(best, store')
      /\ UNCHANGED <<cmd, fails, ring, given, measured, cands, cur, orig, kept, first, committed>>
  BY DEF EvolveSelect, Goto
<1>2. /\ job \in Job /\ job.scores \in Seq(Score) /\ job.slot \in 0 .. RingCap /\ job.slug \in Slugs
  BY <1>1, OnTrialFacts DEF OnTrial, Job
<1>3. best \in Texts
  BY <1>1, <1>2, SelectIs
<1>4. job.accept = FALSE /\ job.slot = 0
  BY <1>1, <1>2 DEF Staged, Job
<1>. HIDE DEF best
<1>5. /\ job' \in Job /\ job'.k = job.k /\ job'.slug = job.slug /\ job'.text = best
      /\ job'.slot = job.slot /\ job'.accept = job.accept
  <2>1. <<>> \in Seq(Score)
    OBVIOUS
  <2>. QED
    BY <1>1, <1>2, <1>3, <2>1 DEF Job
<1>6. /\ store' \in Stores /\ spoilt' \in SUBSET Slugs /\ spoilt \in SUBSET spoilt'
      /\ job.slug \in spoilt' \/ store'[job.slug] = best
      /\ \A s \in Slugs \ {job.slug} : store'[s] = store[s]
  BY <1>1, <1>2, <1>3, PutFacts
<1>7. Types'
  BY <1>1, <1>5, <1>6 DEF Types, OnTrial
<1>8. Persists
  BY <1>1, <1>2, <1>3, <1>5, <1>6 DEF Persists, Settled, OnTrial
<1>9. Staged'
  BY <1>1, <1>4, <1>5, <1>7, <1>8, PersistsStaged
<1>. QED
  BY <1>1, <1>4, <1>5, <1>6, <1>7, <1>8, <1>9

LEMMA TrialTypes ==
    ASSUME Types, Staged, Trial
    PROVE  /\ Types' /\ Staged' /\ Persists
           /\ pc = "trial" /\ pc' \in {"commit", "prove", "guards"}
           /\ job'.accept = FALSE /\ job'.text = job.text /\ job'.slot = 0
           /\ Mark(job.k, GateSuite, store, job'.trial) \in measured'
           /\ pc' \in {"prove", "guards"} => job'.trial >= cur
           /\ UNCHANGED <<store, spoilt>>
<1>1. PICK passed \in Outcomes(GateSuite), proven \in BOOLEAN :
         /\ Measure(GateSuite, store, passed)
         /\ job' = [job EXCEPT !.trial = Cardinality(passed), !.proven = proven]
         /\ pc' \in {"commit", "prove", "guards"}
         /\ pc' \in {"prove", "guards"} => Cardinality(passed) >= cur
  <2>1. PICK passed \in Outcomes(GateSuite) :
          LET ok     == spg_improve_accept(cur, Cardinality(passed))
              proven == ~cmd.prove \/ cands[job.k].origin \in passed
          IN  /\ Measure(GateSuite, store, passed)
              /\ job' = [job EXCEPT !.trial = Cardinality(passed), !.proven = proven]
              /\ Goto(IF ~ok THEN "commit"
                      ELSE IF cmd.prove /\ cmd.validate THEN "prove"
                      ELSE IF proven THEN "guards" ELSE "commit")
    BY DEF Trial
  <2>. DEFINE proven == ~cmd.prove \/ cands[job.k].origin \in passed
  <2>2. proven \in BOOLEAN
    OBVIOUS
  <2>3. /\ Measure(GateSuite, store, passed)
        /\ job' = [job EXCEPT !.trial = Cardinality(passed), !.proven = proven]
    BY <2>1
  <2>4. /\ pc' \in {"commit", "prove", "guards"}
        /\ pc' \in {"prove", "guards"} => Cardinality(passed) >= cur
    BY <2>1 DEF Goto, spg_improve_accept
  <2>. HIDE DEF proven
  <2>. QED
    BY <2>2, <2>3, <2>4
<1>2. pc = "trial" /\ UNCHANGED <<cmd, fails, ring, given, store, cands, cur, orig, kept,
                                  spoilt, first, committed>>
  BY DEF Trial
<1>3. job \in Job /\ job.accept = FALSE /\ job.text \in Texts /\ job.slot \in 0 .. RingCap
      /\ job.slot = 0
  BY <1>2, OnTrialFacts DEF Job, Staged, OnTrial
<1>4. /\ measured \in SUBSET measured'
      /\ Mark(job.k, GateSuite, store, Cardinality(passed)) \in measured'
  BY <1>1, MeasureFacts
<1>5. /\ job' \in Job /\ job'.k = job.k /\ job'.slug = job.slug /\ job'.text = job.text
      /\ job'.slot = job.slot /\ job'.accept = job.accept /\ job'.trial = Cardinality(passed)
  <2>1. Cardinality(passed) \in Count
    BY SuiteKnown, Outcome
  <2>. DEFINE n == Cardinality(passed)
  <2>2. n \in Count /\ job' = [job EXCEPT !.trial = n, !.proven = proven]
    BY <1>1, <2>1
  <2>. HIDE DEF n
  <2>3. /\ job' \in Job /\ job'.k = job.k /\ job'.slug = job.slug /\ job'.text = job.text
        /\ job'.slot = job.slot /\ job'.accept = job.accept /\ job'.trial = n
    BY <1>3, <2>2 DEF Job
  <2>. QED
    BY <2>3 DEF n
<1>6. Types'
  BY <1>1, <1>2, <1>5 DEF Types, OnTrial
<1>7. Persists
  BY <1>1, <1>2, <1>3, <1>4, <1>5 DEF Persists, Settled, OnTrial
<1>8. Staged'
  BY <1>1, <1>3, <1>5, <1>6, <1>7, PersistsStaged
<1>. QED
  BY <1>1, <1>2, <1>3, <1>4, <1>5, <1>6, <1>7, <1>8

LEMMA ProveTypes ==
    ASSUME Types, Staged, Prove
    PROVE  /\ Types' /\ Staged' /\ Persists
           /\ pc = "prove" /\ pc' \in {"commit", "guards"}
           /\ job'.accept = FALSE /\ job'.text = job.text /\ job'.slot = 0
           /\ job'.trial = job.trial /\ UNCHANGED <<store, spoilt>>
<1>1. PICK proven \in BOOLEAN :
         /\ job' = [job EXCEPT !.proven = proven]
         /\ pc' \in {"commit", "guards"}
  <2>1. PICK passed \in Outcomes("train") :
          LET proven == cands[job.k].origin \in passed
          IN  /\ job' = [job EXCEPT !.proven = proven]
              /\ Goto(IF proven THEN "guards" ELSE "commit")
    BY DEF Prove
  <2>. DEFINE proven == cands[job.k].origin \in passed
  <2>2. proven \in BOOLEAN
    OBVIOUS
  <2>3. job' = [job EXCEPT !.proven = proven]
    BY <2>1
  <2>4. pc' \in {"commit", "guards"}
    BY <2>1 DEF Goto
  <2>. HIDE DEF proven
  <2>. QED
    BY <2>2, <2>3, <2>4
<1>2. pc = "prove" /\ UNCHANGED <<cmd, fails, ring, given, store, measured, cands, cur, orig, kept,
                                  spoilt, first, committed>>
  BY DEF Prove
<1>3. job \in Job /\ job.accept = FALSE /\ job.text \in Texts /\ job.slot \in 0 .. RingCap
      /\ job.slot = 0
  BY <1>2, OnTrialFacts DEF Job, Staged, OnTrial
<1>4. /\ job' \in Job /\ job'.k = job.k /\ job'.slug = job.slug /\ job'.text = job.text
      /\ job'.slot = job.slot /\ job'.accept = job.accept /\ job'.trial = job.trial
  BY <1>1, <1>3 DEF Job
<1>5. Types'
  BY <1>1, <1>2, <1>4 DEF Types, OnTrial
<1>6. Persists
  BY <1>1, <1>2, <1>3, <1>4 DEF Persists, Settled, OnTrial
<1>7. Staged'
  BY <1>1, <1>3, <1>4, <1>5, <1>6, PersistsStaged
<1>. QED
  BY <1>1, <1>2, <1>3, <1>4, <1>5, <1>6, <1>7

(* The guards.                                                                *)
LEMMA ShapeKnown ==
    ASSUME Types, Ring
    PROVE  /\ Shape \in Guards \cup {None}
           /\ Shape # None => job.slot < RingCap /\ job.slot + 1 \in 1 .. RingCap
           /\ Shape # None => Shape = ring[job.slot + 1].shape
<1>1. job.slot \in 0 .. RingCap /\ RingCap \in Nat
  BY Bounds DEF Types, Job
<1>2. CASE job.slot < RingCap
  <2>1. job.slot + 1 \in 1 .. RingCap
    BY <1>1, <1>2
  <2>2. Shape = ring[job.slot + 1].shape
    BY <1>2 DEF Shape
  <2>3. ring[job.slot + 1].shape \in Guards \cup {None}
    BY <2>1 DEF Ring
  <2>. QED
    BY <1>2, <2>1, <2>2, <2>3
<1>3. CASE ~(job.slot < RingCap)
  BY <1>3, Bounds DEF Shape
<1>. QED
  BY <1>2, <1>3

LEMMA GuardBaselineTypes ==
    ASSUME Types, Staged, GuardBaseline
    PROVE  /\ Types' /\ Staged' /\ Persists
           /\ pc = "guards" /\ pc' = "guardtrial" /\ Shape # None /\ Shape' = Shape
           /\ job'.accept = FALSE /\ job'.text = job.text /\ job'.slot = job.slot
           /\ job'.trial = job.trial
           /\ job.slug \in spoilt' \/ store'[job.slug] = None
           /\ \E n \in Nat : Mark(job.k, Shape, store', n) \in measured' /\ (job'.gbase <=> n > 0)
<1>1. /\ pc = "guards" /\ pc' = "guardtrial" /\ Shape # None
      /\ UNCHANGED <<cmd, fails, ring, given, cands, cur, orig, kept, first, committed>>
  BY DEF GuardBaseline, Goto
<1>2. PICK passed \in Outcomes(Shape) :
         guard_run(None, passed) /\ job' = [job EXCEPT !.gbase = passed # {}]
  BY DEF GuardBaseline
<1>3. /\ job \in Job /\ job.accept = FALSE /\ job.text \in Texts /\ job.slot \in 0 .. RingCap
      /\ job.slug \in Slugs
  BY <1>1, OnTrialFacts DEF Job, Staged, OnTrial
<1>4. /\ store' \in Stores /\ spoilt' \in SUBSET Slugs /\ spoilt \in SUBSET spoilt'
      /\ job.slug \in spoilt' \/ store'[job.slug] = None
      /\ \A x \in Slugs \ {job.slug} : store'[x] = store[x]
  BY <1>2, <1>3, PutFacts DEF guard_run
<1>5. /\ measured \in SUBSET measured'
      /\ Mark(job.k, Shape, store', Cardinality(passed)) \in measured'
      /\ Cardinality(passed) \in Nat /\ (Cardinality(passed) > 0 <=> passed # {})
  BY <1>2, MeasureFacts, Outcome DEF guard_run
<1>6. /\ job' \in Job /\ job'.k = job.k /\ job'.slug = job.slug /\ job'.text = job.text
      /\ job'.slot = job.slot /\ job'.accept = job.accept /\ job'.trial = job.trial
      /\ job'.gbase = (passed # {})
  <2>. DEFINE b == passed # {}
  <2>1. b \in BOOLEAN /\ job' = [job EXCEPT !.gbase = b]
    BY <1>2
  <2>. HIDE DEF b
  <2>2. /\ job' \in Job /\ job'.k = job.k /\ job'.slug = job.slug /\ job'.text = job.text
        /\ job'.slot = job.slot /\ job'.accept = job.accept /\ job'.trial = job.trial
        /\ job'.gbase = b
    BY <1>3, <2>1 DEF Job
  <2>. QED
    BY <2>2 DEF b
<1>7. Types'
  BY <1>1, <1>4, <1>6 DEF Types, OnTrial
<1>8. Persists
  BY <1>1, <1>3, <1>4, <1>5, <1>6 DEF Persists, Settled, OnTrial
<1>9. Shape' = Shape
  BY <1>1, <1>6 DEF Shape
<1>10. Staged'
  BY <1>1, <1>3, <1>6, <1>7, <1>8, <1>9, PersistsStaged
<1>11. \E n \in Nat : Mark(job.k, Shape, store', n) \in measured' /\ (job'.gbase <=> n > 0)
  BY <1>5, <1>6
<1>. QED
  BY <1>1, <1>3, <1>4, <1>6, <1>7, <1>8, <1>9, <1>10, <1>11

LEMMA GuardTrialTypes ==
    ASSUME Types, Ring, Staged, GuardTrial
    PROVE  /\ Types' /\ Staged' /\ Persists
           /\ pc = "guardtrial" /\ pc' \in {"guards", "resave"} /\ Shape # None
           /\ job'.accept = FALSE /\ job'.text = job.text /\ job'.trial = job.trial
           /\ job'.slot = IF pc' = "guards" THEN job.slot + 1 ELSE job.slot
           /\ job.slug \in spoilt' \/ store'[job.slug] = job.text
           /\ \E n \in Nat : /\ Mark(job.k, Shape, store', n) \in measured'
                             /\ pc' = "guards" /\ job.gbase => n > 0
<1>1. /\ pc = "guardtrial" /\ Shape # None
      /\ UNCHANGED <<cmd, fails, ring, given, cands, cur, orig, kept, first, committed>>
  BY DEF GuardTrial, Staged
<1>2. PICK passed \in Outcomes(Shape) :
         /\ guard_run(job.text, passed)
         /\ \/ /\ spg_guard_survives(job.gbase, passed # {})
               /\ job' = [job EXCEPT !.slot = @ + 1] /\ pc' = "guards"
            \/ job' = job /\ pc' = "resave"
  <2>1. PICK passed \in Outcomes(Shape) :
          /\ guard_run(job.text, passed)
          /\ IF spg_guard_survives(job.gbase, passed # {})
             THEN job' = [job EXCEPT !.slot = @ + 1] /\ Goto("guards")
             ELSE job' = job /\ Goto("resave")
    BY DEF GuardTrial
  <2>. QED
    BY <2>1 DEF Goto
<1>3. /\ job \in Job /\ job.accept = FALSE /\ job.text \in Texts /\ job.slot + 1 \in 1 .. RingCap
      /\ job.slot \in 0 .. RingCap /\ job.slug \in Slugs
  BY <1>1, ShapeKnown, OnTrialFacts DEF Job, Staged, OnTrial
<1>4. /\ store' \in Stores /\ spoilt' \in SUBSET Slugs /\ spoilt \in SUBSET spoilt'
      /\ job.slug \in spoilt' \/ store'[job.slug] = job.text
      /\ \A x \in Slugs \ {job.slug} : store'[x] = store[x]
  BY <1>2, <1>3, PutFacts DEF guard_run
<1>5. /\ measured \in SUBSET measured'
      /\ Mark(job.k, Shape, store', Cardinality(passed)) \in measured'
      /\ Cardinality(passed) \in Nat /\ (Cardinality(passed) > 0 <=> passed # {})
  BY <1>2, MeasureFacts, Outcome DEF guard_run
<1>6. /\ job' \in Job /\ job'.k = job.k /\ job'.slug = job.slug /\ job'.text = job.text
      /\ job'.accept = job.accept /\ job'.trial = job.trial
      /\ job'.slot = (IF pc' = "guards" THEN job.slot + 1 ELSE job.slot)
      /\ pc' \in {"guards", "resave"}
  <2>. DEFINE n == job.slot + 1
  <2>1. n \in 0 .. RingCap
    BY <1>3
  <2>2. \/ job' = [job EXCEPT !.slot = n] /\ pc' = "guards"
        \/ job' = job /\ pc' = "resave"
    BY <1>2
  <2>. HIDE DEF n
  <2>3. /\ job' \in Job /\ job'.k = job.k /\ job'.slug = job.slug /\ job'.text = job.text
        /\ job'.accept = job.accept /\ job'.trial = job.trial
        /\ job'.slot = (IF pc' = "guards" THEN n ELSE job.slot)
    BY <1>3, <2>1, <2>2 DEF Job
  <2>. QED
    BY <2>2, <2>3 DEF n
<1>7. Types'
  BY <1>1, <1>4, <1>6 DEF Types, OnTrial
<1>8. job'.slot \in 0 .. RingCap
  BY <1>3, <1>6
<1>9. Persists
  BY <1>1, <1>3, <1>4, <1>5, <1>6, <1>8 DEF Persists, Settled, OnTrial
<1>10. Staged'
  BY <1>3, <1>6, <1>7, <1>9, PersistsStaged
<1>11. pc' = "guards" /\ job.gbase => Cardinality(passed) > 0
  <2>1. pc' = "guards" => passed # {} \/ ~job.gbase
    BY <1>2 DEF spg_guard_survives
  <2>. QED
    BY <1>5, <2>1
<1>12. \E n \in Nat : /\ Mark(job.k, Shape, store', n) \in measured'
                      /\ pc' = "guards" /\ job.gbase => n > 0
  BY <1>5, <1>11
<1>. QED
  BY <1>1, <1>3, <1>4, <1>6, <1>7, <1>9, <1>10, <1>12

LEMMA GuardsDoneTypes ==
    ASSUME Types, Staged, GuardsDone
    PROVE  /\ Types' /\ Staged' /\ Persists /\ UNCHANGED <<measured, store, spoilt>>
           /\ pc = "guards" /\ pc' = "resave" /\ Shape = None
           /\ job'.text = job.text /\ job'.trial = job.trial /\ job'.slot = job.slot
<1>1. /\ pc = "guards" /\ pc' = "resave" /\ Shape = None
      /\ job' = [job EXCEPT !.accept = TRUE]
      /\ UNCHANGED <<cmd, fails, ring, given, store, measured, cands, cur, orig, kept, spoilt,
                     first, committed>>
  BY DEF GuardsDone, Goto
<1>2. job \in Job /\ job.text \in Texts /\ job.slot \in 0 .. RingCap
  BY <1>1, OnTrialFacts DEF OnTrial
<1>3. /\ job' \in Job /\ job'.k = job.k /\ job'.slug = job.slug /\ job'.text = job.text
      /\ job'.slot = job.slot /\ job'.trial = job.trial
  BY <1>1, <1>2 DEF Job
<1>4. Types'
  BY <1>1, <1>3 DEF Types, OnTrial
<1>5. Persists
  BY <1>1, <1>2, <1>3 DEF Persists, Settled, OnTrial
<1>6. Staged'
  BY <1>1, <1>4, <1>5, PersistsStaged
<1>. QED
  BY <1>1, <1>3, <1>4, <1>5, <1>6

LEMMA ResaveTypes ==
    ASSUME Types, Staged, Resave
    PROVE  /\ Types' /\ Staged' /\ Persists /\ UNCHANGED <<measured, job>>
           /\ pc = "resave" /\ pc' = "commit"
           /\ job.slug \in spoilt' \/ store'[job.slug] = job.text
<1>1. /\ pc = "resave" /\ pc' = "commit" /\ Put(job.text, store')
      /\ UNCHANGED <<cmd, fails, ring, given, measured, cands, job, cur, orig, kept, first,
                     committed>>
  BY DEF Resave, Goto
<1>2. job \in Job /\ job.text \in Texts /\ job.slot \in 0 .. RingCap /\ job.slug \in Slugs
  BY <1>1, OnTrialFacts DEF OnTrial
<1>3. /\ store' \in Stores /\ spoilt' \in SUBSET Slugs /\ spoilt \in SUBSET spoilt'
      /\ job.slug \in spoilt' \/ store'[job.slug] = job.text
      /\ \A x \in Slugs \ {job.slug} : store'[x] = store[x]
  BY <1>1, <1>2, PutFacts
<1>4. Types'
  BY <1>1, <1>3 DEF Types, OnTrial
<1>5. Persists
  BY <1>1, <1>2, <1>3 DEF Persists, Settled, OnTrial
<1>6. Staged'
  BY <1>1, <1>4, <1>5, PersistsStaged
<1>. QED
  BY <1>1, <1>3, <1>4, <1>5, <1>6

LEMMA CommitTypes ==
    ASSUME Types, Staged, spg_improve_commit
    PROVE  /\ Types' /\ Staged' /\ Settled /\ UNCHANGED <<job, orig>>
           /\ pc = "commit" /\ pc' = "next" /\ committed' = store'
           /\ IF job.accept
              THEN /\ kept' = kept \cup {job.slug} /\ cur' = job.trial
                   /\ UNCHANGED <<store, spoilt, measured>>
              ELSE /\ UNCHANGED <<kept, cur>> /\ spoilt \in SUBSET spoilt'
                   /\ measured' = Without(measured, job.k)
                   /\ job.slug \in spoilt' \/ store'[job.slug] = None
                   /\ \A x \in Slugs \ {job.slug} : store'[x] = store[x]
<1>1. /\ pc = "commit" /\ pc' = "next" /\ committed' = store'
      /\ IF job.accept
         THEN /\ kept' = kept \cup {job.slug} /\ cur' = job.trial
              /\ UNCHANGED <<store, spoilt, measured>>
         ELSE /\ Put(None, store') /\ UNCHANGED <<kept, cur>>
              /\ measured' = Without(measured, job.k)
      /\ UNCHANGED <<cmd, fails, ring, given, cands, job, orig, first>>
  BY DEF spg_improve_commit, Goto, Without
<1>2. /\ job \in Job /\ job.k \in 1 .. Len(cands) /\ job.slug = cands[job.k].slug
      /\ kept \in SUBSET {cands[i].slug : i \in 1 .. (job.k - 1)}
      /\ Len(cands) \in Nat /\ job.k \in Nat /\ job.slug \in Slugs
  BY <1>1, OnTrialFacts DEF OnTrial
<1>3. /\ store' \in Stores /\ spoilt' \in SUBSET Slugs
      /\ ~job.accept => /\ spoilt \in SUBSET spoilt'
                        /\ job.slug \in spoilt' \/ store'[job.slug] = None
                        /\ \A x \in Slugs \ {job.slug} : store'[x] = store[x]
  <2>1. CASE job.accept
    BY <1>1, <2>1 DEF Types
  <2>2. CASE ~job.accept
    BY <1>1, <1>2, <2>2, PutFacts
  <2>. QED
    BY <2>1, <2>2
<1>4. cur' \in Count /\ kept' \in SUBSET Slugs
  BY <1>1, <1>2 DEF Types, Job
<1>5. Types'
  BY <1>1, <1>3, <1>4 DEF Types
<1>6. Staged'
  <2>1. kept' \in SUBSET {cands[i].slug : i \in 1 .. job.k}
    <3>1. \A i \in 1 .. (job.k - 1) : i \in 1 .. job.k
      BY <1>2
    <3>2. job.slug \in {cands[i].slug : i \in 1 .. job.k}
      BY <1>2
    <3>. QED
      BY <1>1, <1>2, <3>1, <3>2
  <2>2. Tried' = job.k /\ pc' \notin Early /\ pc' \notin OnTrial
    BY <1>1 DEF Tried, OnTrial, Early
  <2>. QED
    BY <1>1, <1>2, <2>1, <2>2 DEF Staged, Early
<1>. QED
  BY <1>1, <1>3, <1>5, <1>6 DEF Settled

LEMMA EndTypes ==
    ASSUME Types, Staged, Report \/ SuiteFails
    PROVE  /\ Types' /\ Staged'
           /\ UNCHANGED <<cmd, fails, ring, given, store, measured, cands, job, cur, orig, kept,
                          spoilt, first, committed>>
           /\ \/ pc = "next" /\ pc' = "done"
              \/ pc' = "failed"
<1>1. /\ UNCHANGED <<cmd, fails, ring, given, store, measured, cands, job, cur, orig, kept,
                     spoilt, first, committed>>
      /\ \/ pc = "next" /\ pc' = "done"
         \/ pc \in {"baseline", "gatebase", "trial", "prove"} /\ pc' = "failed"
  BY DEF Report, SuiteFails, Exit, Goto
<1>2. Types'
  BY <1>1 DEF Types
<1>3. Staged'
  <2>1. kept \in SUBSET {cands[i].slug : i \in 1 .. job.k}
    <3>1. \A i \in 1 .. Tried : i \in 1 .. job.k
      BY DEF Tried, Types, Job
    <3>. QED
      BY <3>1 DEF Staged
  <2>2. Tried' = job.k /\ pc' \notin Early /\ pc' \notin OnTrial
    BY <1>1 DEF Tried, OnTrial, Early
  <2>3. pc' # "args" /\ pc' # "gatebase" /\ pc' # "guardtrial"
    BY <1>1
  <2>4. job.accept => pc' \notin {"evolve", "trial", "prove", "guards", "guardtrial"}
    BY <1>1
  <2>. QED
    BY <1>1, <2>1, <2>2, <2>3, <2>4 DEF Staged
<1>. QED
  BY <1>1, <1>2, <1>3

LEMMA InitTypes ==
    ASSUME Init
    PROVE  Types /\ Staged
<1>1. store \in Stores /\ first \in Stores /\ committed \in Stores
  BY DEF Init, Stores
<1>2. cmd \in Commands /\ fails \in Fails /\ pc = "args" /\ cands = <<>> /\ job = NoJob
      /\ cur = 0 /\ orig = 0 /\ kept = {} /\ spoilt = {}
      /\ first = store /\ committed = store
  BY DEF Init
<1>3. 0 \in Count
  BY PassCount DEF Count
<1>4. Types
  BY <1>1, <1>2, <1>3, NoJobFacts DEF Types, Early
<1>5. Staged
  BY <1>2, NoJobFacts DEF Staged, Early, OnTrial, Tried
<1>. QED
  BY <1>4, <1>5

LEMMA TypesHold ==
    ASSUME Types, Ring, Staged, [Next]_vars
    PROVE  Types' /\ Staged'
<1>1. CASE GuardArgument
  BY <1>1, GuardArgumentTypes
<1>2. CASE Distil \/ Improve
  BY <1>2, StartTypes
<1>3. CASE Baseline \/ GateBaseline
  BY <1>3, BaselineTypes, GateBaselineTypes
<1>4. CASE TentativeSave \/ EvolveMeasure \/ EvolveSelect
  BY <1>4, SaveTypes, EvolveMeasureTypes, EvolveSelectTypes
<1>5. CASE Trial \/ Prove \/ GuardBaseline \/ GuardTrial
  BY <1>5, TrialTypes, ProveTypes, GuardBaselineTypes, GuardTrialTypes
<1>6. CASE GuardsDone \/ Resave \/ spg_improve_commit \/ Report \/ SuiteFails
  BY <1>6, GuardsDoneTypes, ResaveTypes, CommitTypes, EndTypes
<1>7. CASE UNCHANGED vars
  BY <1>7 DEF vars, Types, Staged, Tried, Shape
<1>. QED
  BY <1>1, <1>2, <1>3, <1>4, <1>5, <1>6, <1>7 DEF Next

-----------------------------------------------------------------------------
(* Measures and guards, action by action.                                     *)

(* The slug on trial is new: neither kept nor in the committed store.         *)
LEMMA FreshSlug ==
    ASSUME Types, Staged, Measured, pc \in OnTrial
    PROVE  /\ job.slug \in Slugs /\ job.slug \notin kept /\ job.text \in Texts /\ job.text # None
           /\ \A i \in 1 .. (job.k - 1) : cands[i].slug # job.slug
           /\ job.slug \notin Excused => first[job.slug] = None /\ committed[job.slug] = None
           /\ \A x \in Slugs \ {job.slug} : Proposed[x] = committed[x]
           /\ Proposed[job.slug] = job.text
<1>1. /\ job.k \in 1 .. Len(cands) /\ job.slug = cands[job.k].slug /\ job.text \in Texts
      /\ kept \in SUBSET {cands[i].slug : i \in 1 .. (job.k - 1)} /\ job.slug \in Slugs
      /\ Len(cands) \in Nat /\ DOMAIN cands = 1 .. Len(cands)
  BY OnTrialFacts
<1>2. \A i \in 1 .. (job.k - 1) : cands[i].slug # job.slug
  <2>. SUFFICES ASSUME NEW i \in 1 .. (job.k - 1), cands[i].slug = job.slug PROVE FALSE
    OBVIOUS
  <2>1. i \in 1 .. Len(cands) /\ i # job.k
    BY <1>1
  <2>. QED
    BY <1>1, <2>1 DEF Staged
<1>3. job.slug \notin kept
  BY <1>1, <1>2
<1>4. job.slug \notin Excused => first[job.slug] = None
  BY <1>1 DEF Excused
<1>5. job.slug \notin Excused => committed[job.slug] = first[job.slug]
  BY <1>1, <1>3 DEF Measured
<1>6. job.text # None
  BY <1>1, Names
<1>7. committed \in Stores
  BY DEF Types
<1>8. /\ Proposed[job.slug] = job.text
      /\ \A x \in Slugs \ {job.slug} : Proposed[x] = committed[x]
  BY <1>1, <1>7 DEF Proposed, Stores
<1>. QED
  BY <1>1, <1>2, <1>3, <1>4, <1>5, <1>6, <1>8

(* A store that differs from the committed one in the slug on trial only.     *)
LEMMA TrialLike ==
    ASSUME Types, Staged, Measured, pc \in OnTrial, NEW X, Excused \in SUBSET X,
           NEW s, \A x \in Slugs \ {job.slug} : s[x] = committed[x]
    PROVE  /\ job.slug \in X \/ s[job.slug] = job.text => Like(X, s, Proposed)
           /\ job.slug \in X \/ s[job.slug] = None => Like(X, s, committed)
<1>1. /\ job.slug \notin Excused => committed[job.slug] = None
      /\ \A x \in Slugs \ {job.slug} : Proposed[x] = committed[x]
      /\ Proposed[job.slug] = job.text
  BY FreshSlug
<1>. DEFINE y == job.slug
            P == Proposed
            t == job.text
<1>2. /\ y \notin X => committed[y] = None
      /\ \A x \in Slugs \ {y} : P[x] = committed[x] /\ s[x] = committed[x]
      /\ P[y] = t
  BY <1>1
<1>. HIDE DEF y, P, t
<1>3. y \in X \/ s[y] = t => Like(X, s, P)
  BY <1>2 DEF Like
<1>4. y \in X \/ s[y] = None => Like(X, s, committed)
  BY <1>2 DEF Like
<1>. QED
  BY <1>3, <1>4 DEF y, P, t

LEMMA DecidedStays ==
    ASSUME UNCHANGED <<committed, first, cands>>, NEW k
    PROVE  Decided(k)' = Decided(k)
BY DEF Decided

LEMMA EarlyMeasures ==
    ASSUME pc \in Early
    PROVE  /\ pc \notin OnTrial
           /\ pc \notin {"next", "done", "trial", "prove", "commit", "guards", "guardtrial", "resave"}
BY DEF Early, OnTrial

LEMMA EarlyStays ==
    ASSUME pc' \in Early \cup {"failed"}
    PROVE  Measures' /\ Guarded'
<1>1. pc' \notin OnTrial /\ pc' \notin {"next", "done", "trial", "prove", "commit", "guards",
                                        "guardtrial", "resave"}
  BY DEF Early, OnTrial
<1>2. Measures'
  BY <1>1 DEF Measures, Early
<1>. QED
  BY <1>1, <1>2 DEF Guarded, Early

(* The baseline is measured on the store the command found.                   *)
LEMMA BaselineMeasures ==
    ASSUME Types, Staged, Baseline \/ GateBaseline
    PROVE  Measures' /\ Guarded'
<1>. DEFINE suite == IF pc = "baseline" THEN "train" ELSE "valid"
<1>1. /\ Types' /\ Staged' /\ pc \in {"baseline", "gatebase"}
      /\ Mark(0, suite, store, cur') \in measured' /\ orig' = cur'
      /\ pc' = "gatebase" \/ (pc' = "next" /\ GateSuite = suite)
      /\ UNCHANGED <<cmd, fails, ring, given, store, job, kept, spoilt, first, committed>>
  <2>1. CASE Baseline
    <3>1. pc = "baseline" /\ suite = "train"
      BY <2>1 DEF Baseline
    <3>. HIDE DEF suite
    <3>. QED
      BY <2>1, <3>1, BaselineTypes DEF GateSuite
  <2>2. CASE GateBaseline
    <3>1. pc = "gatebase" /\ suite = "valid" /\ cmd.validate
      BY <2>2 DEF GateBaseline, Staged
    <3>. HIDE DEF suite
    <3>. QED
      BY <2>2, <3>1, GateBaselineTypes DEF GateSuite
  <2>. QED
    BY <2>1, <2>2
<1>2. /\ store = first /\ committed = first /\ kept = {} /\ job.accept = FALSE /\ job.k = 0
  BY <1>1, NoJobFacts DEF Staged, Early
<1>. HIDE DEF suite
<1>3. CASE pc' = "gatebase"
  BY <1>3, EarlyStays DEF Early
<1>4. CASE pc' = "next"
  <2>1. GateSuite' = suite /\ Tried' = 0
    BY <1>1, <1>2, <1>4 DEF GateSuite, Tried, OnTrial
  <2>2. Counted(measured', Excused', 0, suite, committed', cur')
    BY <1>1, <1>2 DEF Counted, Like
  <2>3. \E k \in 0 .. Tried' : Counted(measured', Excused', k, GateSuite', committed', cur')
    BY <2>1, <2>2
  <2>4. cur' >= orig'
    BY <1>1 DEF Types, Count
  <2>5. Measured'
    BY <1>1, <1>2, <2>3, <2>4 DEF Measured
  <2>6. Measures'
    BY <1>1, <1>2, <1>4, <2>5 DEF Measures, OnTrial
  <2>7. Upheld'
    BY <2>1 DEF Upheld
  <2>8. Guarded'
    BY <1>1, <1>2, <1>4, <2>7 DEF Guarded, OnTrial
  <2>. QED
    BY <2>6, <2>8
<1>. QED
  BY <1>1, <1>3, <1>4

(* What is measured of those decided stays when the command goes on.          *)
LEMMA DecidedKeep ==
    ASSUME Types, Measured, Upheld, Settled, UNCHANGED <<cur, orig, committed, kept>>,
           spoilt \in SUBSET spoilt', measured \in SUBSET measured', Tried' = Tried
    PROVE  Measured' /\ Upheld' /\ Excused \in SUBSET Excused'
<1>1. Excused \in SUBSET Excused'
  BY ExcusedGrows DEF Settled
<1>2. GateSuite' = GateSuite
  BY DEF GateSuite, Settled
<1>3. Measured'
  <2>1. PICK k \in 0 .. Tried : Counted(measured, Excused, k, GateSuite, committed, cur)
    BY DEF Measured
  <2>2. Counted(measured', Excused', k, GateSuite, committed, cur)
    BY <1>1, <2>1, CountedGrows
  <2>3. \E j \in 0 .. Tried' : Counted(measured', Excused', j, GateSuite', committed', cur')
    BY <1>2, <2>2
  <2>4. \A x \in Slugs \ Excused' : committed'[x] # first'[x] <=> x \in kept'
    BY <1>1 DEF Measured, Settled
  <2>5. cur' >= orig'
    BY DEF Measured
  <2>. QED
    BY <2>3, <2>4, <2>5 DEF Measured
<1>4. Upheld'
  <2>. SUFFICES ASSUME NEW k \in 1 .. Tried, NEW i \in 1 .. RingCap,
                       cands[k].slug \in kept, ring[i].shape # None
                PROVE  Witnessed(measured', Excused', k, ring[i].shape, Decided(k - 1)', Decided(k)')
    BY DEF Upheld, Settled
  <2>1. Witnessed(measured, Excused, k, ring[i].shape, Decided(k - 1), Decided(k))
    BY DEF Upheld
  <2>2. Witnessed(measured', Excused', k, ring[i].shape, Decided(k - 1), Decided(k))
    BY <1>1, <2>1, WitnessedGrows
  <2>3. Decided(k - 1)' = Decided(k - 1) /\ Decided(k)' = Decided(k)
    BY DecidedStays DEF Settled
  <2>. QED
    BY <2>2, <2>3
<1>. QED
  BY <1>1, <1>3, <1>4

LEMMA SaveMeasures ==
    ASSUME Types, Staged, Measures, Guarded, TentativeSave
    PROVE  Measures' /\ Guarded'
<1>1. /\ Types' /\ pc = "next" /\ pc' \in {"evolve", "trial", "failed"}
      /\ job'.slug \in Slugs /\ job'.text = "seed" /\ job'.accept = FALSE
      /\ job'.k = job.k + 1 /\ spoilt \in SUBSET spoilt'
      /\ job'.slug \in spoilt' \/ store'[job'.slug] = "seed"
      /\ \A x \in Slugs \ {job'.slug} : store'[x] = store[x]
      /\ Settled /\ UNCHANGED <<measured, cur, orig, kept, committed>>
  BY SaveTypes
<1>2. CASE pc' = "failed"
  BY <1>2, EarlyStays
<1>3. CASE pc' # "failed"
  <2>1. store = committed /\ Measured /\ Upheld
    BY <1>1 DEF Measures, Guarded, Early
  <2>2. Tried' = Tried
    <3>1. job.k \in Nat
      BY DEF Types, Job
    <3>2. (job.k + 1) - 1 = job.k
      BY <3>1
    <3>. QED
      BY <1>1, <1>3, <3>2 DEF Tried, OnTrial
  <2>3. measured \in SUBSET measured'
    BY <1>1
  <2>4. Measured' /\ Upheld'
    BY <1>1, <2>1, <2>2, <2>3, DecidedKeep
  <2>5. \A s \in Slugs \ {job'.slug} : store'[s] = committed'[s]
    BY <1>1, <2>1
  <2>6. job'.slug \in spoilt' => job'.slug \in Excused'
    BY DEF Excused
  <2>7. Measures'
    BY <1>1, <1>3, <2>4, <2>5, <2>6 DEF Measures
  <2>8. Guarded'
    BY <1>1, <1>3, <2>4 DEF Guarded
  <2>. QED
    BY <2>7, <2>8
<1>. QED
  BY <1>2, <1>3

(* In every action of a trial the committed store, its count and the guards   *)
(* it carries stay; so do the candidate's trial and the guards it survived,   *)
(* while its text does.                                                       *)
LEMMA TrialKeeps ==
    ASSUME Types, Staged, Measures, Guarded, Persists
    PROVE  /\ Measured /\ Measured' /\ Upheld' /\ Excused \in SUBSET Excused'
           /\ \A s \in Slugs \ {job'.slug} : store'[s] = committed'[s]
           /\ \A s \in Slugs \ {job.slug} : store'[s] = committed[s]
           /\ job.slug \in spoilt' => job.slug \in Excused'
           /\ job'.text = job.text /\ job'.trial = job.trial /\ Accepted => Accepted'
           /\ job'.text = job.text => \A g : Survived(g) => Survived(g)'
<1>1. Measured /\ Upheld /\ \A s \in Slugs \ {job.slug} : store[s] = committed[s]
  <2>1. pc \notin Early \cup {"failed"} /\ pc \in OnTrial
    BY DEF Persists, Early, OnTrial
  <2>. QED
    BY <2>1 DEF Measures, Guarded
<1>2. Tried' = Tried
  BY DEF Persists, Tried
<1>3. Measured' /\ Upheld' /\ Excused \in SUBSET Excused'
  BY <1>1, <1>2, DecidedKeep DEF Persists
<1>4. /\ \A s \in Slugs \ {job'.slug} : store'[s] = committed'[s]
      /\ \A s \in Slugs \ {job.slug} : store'[s] = committed[s]
  BY <1>1 DEF Persists
<1>5. job.slug \in spoilt' => job.slug \in Excused'
  BY DEF Excused
<1>6. ASSUME job'.text = job.text, job'.trial = job.trial, Accepted PROVE Accepted'
  <2>. DEFINE G == GateSuite
              P == Proposed
  <2>1. G' = G /\ P' = P
    BY <1>6 DEF GateSuite, Proposed, Persists, Settled
  <2>2. Counted(measured, Excused, job.k, G, P, job.trial) /\ job.trial >= cur
    BY <1>6 DEF Accepted
  <2>. HIDE DEF G, P
  <2>3. Counted(measured', Excused', job.k, G, P, job.trial)
    BY <1>3, <2>2, CountedGrows DEF Persists
  <2>4. Counted(measured', Excused', job'.k, G', P', job'.trial) /\ job'.trial >= cur'
    BY <1>6, <2>1, <2>2, <2>3 DEF Persists
  <2>. QED
    BY <2>4 DEF Accepted, G, P
<1>7. ASSUME job'.text = job.text, NEW g, Survived(g) PROVE Survived(g)'
  <2>. DEFINE P == Proposed
  <2>1. P' = P /\ job'.k = job.k /\ committed' = committed
    BY <1>7 DEF Proposed, Persists, Settled
  <2>2. Witnessed(measured, Excused, job.k, g, committed, P)
    BY <1>7 DEF Survived
  <2>. HIDE DEF P
  <2>3. Witnessed(measured', Excused', job.k, g, committed, P)
    BY <1>3, <2>2, WitnessedGrows DEF Persists
  <2>4. Witnessed(measured', Excused', job'.k, g, committed', P')
    BY <2>1, <2>3
  <2>. QED
    BY <2>4 DEF Survived, P
<1>. QED
  BY <1>1, <1>3, <1>4, <1>5, <1>6, <1>7

LEMMA EvolveMeasures ==
    ASSUME Types, Staged, Measures, Guarded, EvolveMeasure \/ EvolveSelect
    PROVE  Measures' /\ Guarded'
<1>1. /\ Persists /\ job'.accept = FALSE
      /\ pc = "evolve" /\ pc' \in {"evolve", "trial"}
      /\ pc' = "trial" => job.slug \in spoilt' \/ store'[job.slug] = job'.text
  BY EvolveMeasureTypes, EvolveSelectTypes
<1>2. /\ Measured' /\ Upheld'
      /\ \A s \in Slugs \ {job'.slug} : store'[s] = committed'[s]
      /\ job.slug \in spoilt' => job.slug \in Excused'
  BY <1>1, TrialKeeps
<1>3. job'.slug = job.slug
  BY <1>1 DEF Persists
<1>4. Measures'
  BY <1>1, <1>2, <1>3 DEF Measures
<1>5. Guarded'
  BY <1>1, <1>2 DEF Guarded
<1>. QED
  BY <1>4, <1>5

(* The trial is measured on what is proposed.                                 *)
LEMMA TrialMeasures ==
    ASSUME Types, Staged, Measures, Guarded, Trial
    PROVE  Measures' /\ Guarded'
<1>1. /\ Persists
      /\ pc = "trial" /\ pc' \in {"commit", "prove", "guards"}
      /\ job'.accept = FALSE /\ job'.text = job.text /\ job'.slot = 0
      /\ Mark(job.k, GateSuite, store, job'.trial) \in measured'
      /\ pc' \in {"prove", "guards"} => job'.trial >= cur
      /\ UNCHANGED <<store, spoilt>>
  BY TrialTypes
<1>2. /\ Measured /\ Measured' /\ Upheld' /\ Excused \in SUBSET Excused'
      /\ \A s \in Slugs \ {job'.slug} : store'[s] = committed'[s]
      /\ \A s \in Slugs \ {job.slug} : store'[s] = committed[s]
  BY <1>1, TrialKeeps
<1>3. job.slug \in Excused \/ store[job.slug] = job.text
  BY <1>1 DEF Measures
<1>4. Like(Excused', store, Proposed)
  <2>1. pc \in OnTrial /\ (job.slug \in Excused' \/ store[job.slug] = job.text)
        /\ \A s \in Slugs \ {job.slug} : store[s] = committed[s]
    BY <1>1, <1>2, <1>3 DEF OnTrial
  <2>. QED
    BY <1>2, <2>1, TrialLike
<1>5. /\ job'.slug = job.slug /\ GateSuite' = GateSuite /\ Proposed' = Proposed /\ job'.k = job.k
      /\ cur' = cur
  BY <1>1 DEF Persists, Settled, GateSuite, Proposed
<1>6. Counted(measured', Excused', job.k, GateSuite, Proposed, job'.trial)
  BY <1>1, <1>4 DEF Counted
<1>7. pc' \in {"prove", "guards"} => Accepted'
  BY <1>1, <1>5, <1>6 DEF Accepted
<1>8. Measures'
  BY <1>1, <1>2, <1>3, <1>5, <1>7 DEF Measures
<1>9. Guarded'
  BY <1>1, <1>2 DEF Guarded
<1>. QED
  BY <1>8, <1>9

LEMMA ProveMeasures ==
    ASSUME Types, Staged, Measures, Guarded, Prove
    PROVE  Measures' /\ Guarded'
<1>1. /\ Persists
      /\ pc = "prove" /\ pc' \in {"commit", "guards"}
      /\ job'.accept = FALSE /\ job'.text = job.text /\ job'.slot = 0
      /\ job'.trial = job.trial /\ UNCHANGED <<store, spoilt>>
  BY ProveTypes
<1>2. Accepted
  BY <1>1 DEF Measures
<1>3. /\ Measured' /\ Upheld' /\ Accepted'
      /\ \A s \in Slugs \ {job'.slug} : store'[s] = committed'[s]
  BY <1>1, <1>2, TrialKeeps
<1>4. Measures'
  BY <1>1, <1>3 DEF Measures
<1>5. Guarded'
  BY <1>1, <1>3 DEF Guarded
<1>. QED
  BY <1>4, <1>5

LEMMA SurvivorStays ==
    ASSUME \A g : Survived(g) => Survived(g)', ring' = ring, NEW i, Survived(ring[i].shape)
    PROVE  Survived(ring[i].shape)'
<1>. DEFINE g == ring[i].shape
<1>1. g' = g
  OBVIOUS
<1>2. \A h : h = g => (Survived(h) <=> Survived(g)) /\ (Survived(h)' <=> Survived(g)')
  BY <1>1 DEF Survived
<1>. QED
  BY <1>1, <1>2

LEMMA GuardBaselineMeasures ==
    ASSUME Types, Ring, Staged, Measures, Guarded, GuardBaseline
    PROVE  Measures' /\ Guarded'
<1>1. /\ Persists
      /\ pc = "guards" /\ pc' = "guardtrial" /\ Shape # None /\ Shape' = Shape
      /\ job'.accept = FALSE /\ job'.text = job.text /\ job'.slot = job.slot
      /\ job'.trial = job.trial
      /\ job.slug \in spoilt' \/ store'[job.slug] = None
      /\ \E n \in Nat : Mark(job.k, Shape, store', n) \in measured' /\ (job'.gbase <=> n > 0)
  BY GuardBaselineTypes
<1>2. Accepted /\ \A i \in 1 .. job.slot : Survived(ring[i].shape)
  BY <1>1 DEF Measures, Guarded
<1>3. /\ Measured /\ Measured' /\ Upheld' /\ Excused \in SUBSET Excused' /\ Accepted'
      /\ \A s \in Slugs \ {job'.slug} : store'[s] = committed'[s]
      /\ \A s \in Slugs \ {job.slug} : store'[s] = committed[s]
      /\ job.slug \in spoilt' => job.slug \in Excused'
      /\ \A g : Survived(g) => Survived(g)'
  BY <1>1, <1>2, TrialKeeps
<1>4. Like(Excused', store', committed)
  <2>1. pc \in OnTrial /\ (job.slug \in Excused' \/ store'[job.slug] = None)
    BY <1>1, <1>3 DEF OnTrial
  <2>. QED
    BY <1>3, <2>1, TrialLike
<1>5. ring' = ring /\ committed' = committed /\ job'.k = job.k
  BY <1>1 DEF Persists, Settled
<1>6. Measures'
  BY <1>1, <1>3 DEF Measures
<1>7. \A i \in 1 .. job'.slot : Survived(ring[i].shape)'
  <2>1. ASSUME NEW i \in 1 .. job.slot PROVE Survived(ring[i].shape)'
    BY <1>2, <1>3, <1>5, SurvivorStays
  <2>. QED
    BY <1>1, <2>1
<1>8. \E n \in Nat : /\ Counted(measured', Excused', job'.k, Shape', committed', n)
                     /\ job'.gbase <=> n > 0
  <2>1. PICK n \in Nat : Mark(job.k, Shape, store', n) \in measured' /\ (job'.gbase <=> n > 0)
    BY <1>1
  <2>2. Counted(measured', Excused', job.k, Shape, committed, n)
    BY <1>4, <2>1 DEF Counted
  <2>. QED
    BY <1>1, <1>5, <2>1, <2>2
<1>9. Guarded'
  BY <1>1, <1>3, <1>7, <1>8 DEF Guarded
<1>. QED
  BY <1>6, <1>9

LEMMA GuardTrialMeasures ==
    ASSUME Types, Ring, Staged, Measures, Guarded, GuardTrial
    PROVE  Measures' /\ Guarded'
<1>1. /\ Persists
      /\ pc = "guardtrial" /\ pc' \in {"guards", "resave"} /\ Shape # None
      /\ job'.accept = FALSE /\ job'.text = job.text /\ job'.trial = job.trial
      /\ job'.slot = IF pc' = "guards" THEN job.slot + 1 ELSE job.slot
      /\ job.slug \in spoilt' \/ store'[job.slug] = job.text
      /\ \E n \in Nat : /\ Mark(job.k, Shape, store', n) \in measured'
                        /\ pc' = "guards" /\ job.gbase => n > 0
  BY GuardTrialTypes
<1>2. /\ Accepted /\ \A i \in 1 .. job.slot : Survived(ring[i].shape)
      /\ \E n \in Nat : /\ Counted(measured, Excused, job.k, Shape, committed, n)
                        /\ job.gbase <=> n > 0
  BY <1>1 DEF Measures, Guarded
<1>3. /\ Measured /\ Measured' /\ Upheld' /\ Excused \in SUBSET Excused' /\ Accepted'
      /\ \A s \in Slugs \ {job'.slug} : store'[s] = committed'[s]
      /\ \A s \in Slugs \ {job.slug} : store'[s] = committed[s]
      /\ job.slug \in spoilt' => job.slug \in Excused'
      /\ \A g : Survived(g) => Survived(g)'
  BY <1>1, <1>2, TrialKeeps
<1>4. Like(Excused', store', Proposed)
  <2>1. pc \in OnTrial /\ (job.slug \in Excused' \/ store'[job.slug] = job.text)
    BY <1>1, <1>3 DEF OnTrial
  <2>. QED
    BY <1>3, <2>1, TrialLike
<1>5. /\ ring' = ring /\ committed' = committed /\ Proposed' = Proposed /\ job'.k = job.k
      /\ measured \in SUBSET measured'
  BY <1>1 DEF Persists, Settled, Proposed
<1>6. Measures'
  BY <1>1, <1>3 DEF Measures
<1>7. pc' = "guards" => Witnessed(measured', Excused', job.k, Shape, committed, Proposed)
  <2>1. PICK n \in Nat : /\ Counted(measured, Excused, job.k, Shape, committed, n)
                         /\ job.gbase <=> n > 0
    BY <1>2
  <2>2. PICK m \in Nat : /\ Mark(job.k, Shape, store', m) \in measured'
                         /\ pc' = "guards" /\ job.gbase => m > 0
    BY <1>1
  <2>3. Counted(measured', Excused', job.k, Shape, committed, n)
    BY <1>3, <1>5, <2>1, CountedGrows
  <2>4. Counted(measured', Excused', job.k, Shape, Proposed, m)
    BY <1>4, <2>2 DEF Counted
  <2>5. pc' = "guards" => (n > 0 => m > 0)
    BY <2>1, <2>2
  <2>. QED
    BY <2>3, <2>4, <2>5 DEF Witnessed
<1>8. ASSUME pc' = "guards", NEW i \in 1 .. job'.slot
      PROVE  Survived(ring[i].shape)'
  <2>1. CASE i \in 1 .. job.slot
    BY <1>2, <1>3, <1>5, <2>1, SurvivorStays
  <2>2. CASE i \notin 1 .. job.slot
    <3>1. i = job.slot + 1 /\ ring[i].shape = Shape
      <4>1. job.slot \in 0 .. RingCap /\ job'.slot = job.slot + 1
        BY <1>1, <1>8 DEF Types, Job
      <4>2. i = job.slot + 1
        BY <2>2, <4>1, Bounds
      <4>. QED
        BY <1>1, <4>2, ShapeKnown
    <3>2. Witnessed(measured', Excused', job.k, ring[i].shape, committed, Proposed)
      BY <1>7, <1>8, <3>1
    <3>3. Witnessed(measured', Excused', job'.k, ring'[i].shape, committed', Proposed')
      BY <1>5, <3>2
    <3>. QED
      BY <3>3 DEF Survived
  <2>. QED
    BY <2>1, <2>2
<1>9. Guarded'
  <2>1. pc' = "guards" => \A i \in 1 .. job'.slot : Survived(ring[i].shape)'
    BY <1>8
  <2>. QED
    BY <1>1, <1>3, <2>1 DEF Guarded
<1>. QED
  BY <1>6, <1>9

LEMMA GuardsDoneMeasures ==
    ASSUME Types, Ring, Staged, Measures, Guarded, GuardsDone
    PROVE  Measures' /\ Guarded'
<1>1. /\ Persists /\ UNCHANGED <<measured, store, spoilt>>
      /\ pc = "guards" /\ pc' = "resave" /\ Shape = None
      /\ job'.text = job.text /\ job'.trial = job.trial /\ job'.slot = job.slot
  BY GuardsDoneTypes
<1>2. Accepted /\ \A i \in 1 .. job.slot : Survived(ring[i].shape)
  BY <1>1 DEF Measures, Guarded
<1>3. /\ Measured' /\ Upheld' /\ Accepted'
      /\ \A s \in Slugs \ {job'.slug} : store'[s] = committed'[s]
      /\ \A g : Survived(g) => Survived(g)'
  BY <1>1, <1>2, TrialKeeps
<1>4. ring' = ring
  BY <1>1 DEF Persists, Settled
<1>5. Measures'
  BY <1>1, <1>3 DEF Measures
<1>6. ASSUME NEW i \in 1 .. RingCap, ring[i].shape # None
      PROVE  Survived(ring[i].shape)
  <2>1. job.slot \in 0 .. RingCap /\ RingCap \in Nat
    BY Bounds DEF Types, Job
  <2>2. i \in 1 .. job.slot
    <3>1. CASE job.slot = RingCap
      BY <3>1
    <3>2. CASE job.slot < RingCap
      <4>1. job.slot + 1 \in 1 .. RingCap /\ ring[job.slot + 1].shape = None
        BY <1>1, <2>1, <3>2 DEF Shape
      <4>2. ~(job.slot + 1 < i) /\ i # job.slot + 1
        BY <1>6, <4>1 DEF Ring
      <4>. QED
        BY <2>1, <4>2
    <3>. QED
      BY <2>1, <3>1, <3>2
  <2>. QED
    BY <1>2, <2>2
<1>7. ASSUME NEW i \in 1 .. RingCap, ring[i].shape # None
      PROVE  Survived(ring[i].shape)'
  BY <1>3, <1>4, <1>6, <1>7, SurvivorStays
<1>8. Guarded'
  <2>1. \A i \in 1 .. RingCap : ring'[i].shape # None => Survived(ring[i].shape)'
    BY <1>4, <1>7
  <2>. QED
    BY <1>1, <1>3, <2>1 DEF Guarded
<1>. QED
  BY <1>5, <1>8

LEMMA ResaveMeasures ==
    ASSUME Types, Ring, Staged, Measures, Guarded, Resave
    PROVE  Measures' /\ Guarded'
<1>1. /\ Persists /\ UNCHANGED <<measured, job>>
      /\ pc = "resave" /\ pc' = "commit"
      /\ job.slug \in spoilt' \/ store'[job.slug] = job.text
  BY ResaveTypes
<1>2. /\ Accepted
      /\ job.accept => \A i \in 1 .. RingCap : ring[i].shape # None => Survived(ring[i].shape)
  BY <1>1 DEF Measures, Guarded, OnTrial
<1>3. /\ Measured' /\ Upheld' /\ Accepted'
      /\ \A s \in Slugs \ {job'.slug} : store'[s] = committed'[s]
      /\ job.slug \in spoilt' => job.slug \in Excused'
      /\ \A g : Survived(g) => Survived(g)'
  BY <1>1, <1>2, TrialKeeps
<1>4. ring' = ring
  BY <1>1 DEF Persists, Settled
<1>5. Measures'
  BY <1>1, <1>3 DEF Measures
<1>6. ASSUME job.accept, NEW i \in 1 .. RingCap, ring[i].shape # None
      PROVE  Survived(ring[i].shape)'
  BY <1>2, <1>3, <1>4, <1>6, SurvivorStays
<1>7. Guarded'
  <2>1. job'.accept => \A i \in 1 .. RingCap : ring'[i].shape # None => Survived(ring[i].shape)'
    BY <1>1, <1>4, <1>6
  <2>. QED
    BY <1>1, <1>3, <2>1 DEF Guarded
<1>. QED
  BY <1>5, <1>7

(* The memories the earlier candidates left are not touched by a decision     *)
(* about a later one.                                                         *)
LEMMA DecidedBefore ==
    ASSUME Types, Staged, Measured, pc \in OnTrial, UNCHANGED <<cands, first, job>>,
           \A x \in Slugs \ {job.slug} : committed'[x] = committed[x]
    PROVE  /\ \A k \in 0 .. (job.k - 1) : Decided(k)' = Decided(k)
           /\ Like(Excused, committed, Decided(job.k - 1)')
           /\ \A x \in Slugs \ {job.slug} : x \notin Excused => Decided(job.k)'[x] = committed[x]
           /\ Decided(job.k)'[job.slug] = committed'[job.slug]
<1>1. /\ job.slug \in Slugs /\ \A i \in 1 .. (job.k - 1) : cands[i].slug # job.slug
  BY FreshSlug
<1>2. job.k \in Nat /\ job.slug = cands[job.k].slug /\ job.k >= 1
      /\ kept \in SUBSET {cands[i].slug : i \in 1 .. (job.k - 1)}
  BY OnTrialFacts
<1>3. ASSUME NEW k \in 0 .. (job.k - 1) PROVE Decided(k)' = Decided(k)
  <2>1. ASSUME NEW x \in Slugs PROVE Decided(k)'[x] = Decided(k)[x]
    <3>1. CASE x = job.slug
      <4>1. ~(\E i \in 1 .. k : cands[i].slug = x)
        BY <1>1, <1>2, <3>1
      <4>. QED
        BY <4>1 DEF Decided
    <3>2. CASE x # job.slug
      BY <3>2 DEF Decided
    <3>. QED
      BY <3>1, <3>2
  <2>. QED
    BY <2>1 DEF Decided
<1>4. \A x \in Slugs \ Excused :
        ~(\E i \in 1 .. (job.k - 1) : cands[i].slug = x) => committed[x] = first[x]
  BY <1>2 DEF Measured
<1>5. Like(Excused, committed, Decided(job.k - 1)')
  <2>1. job.k - 1 \in 0 .. (job.k - 1)
    BY <1>2
  <2>2. Decided(job.k - 1)' = Decided(job.k - 1)
    BY <1>3, <2>1
  <2>3. Like(Excused, committed, Decided(job.k - 1))
    BY <1>4 DEF Like, Decided
  <2>. QED
    BY <2>2, <2>3
<1>6. ASSUME NEW x \in Slugs \ {job.slug}, x \notin Excused
      PROVE  Decided(job.k)'[x] = committed[x]
  <2>1. CASE \E i \in 1 .. job.k : cands[i].slug = x
    BY <1>6, <2>1 DEF Decided
  <2>2. CASE ~(\E i \in 1 .. job.k : cands[i].slug = x)
    <3>1. ~(\E i \in 1 .. (job.k - 1) : cands[i].slug = x)
      BY <1>2, <2>2
    <3>2. committed[x] = first[x]
      BY <1>4, <1>6, <3>1
    <3>3. Decided(job.k)'[x] = first'[x]
      BY <1>2, <2>2 DEF Decided
    <3>. QED
      BY <3>2, <3>3
  <2>. QED
    BY <2>1, <2>2
<1>7. Decided(job.k)'[job.slug] = committed'[job.slug]
  <2>1. \E i \in 1 .. job.k : cands[i].slug = job.slug
    BY <1>2
  <2>. QED
    BY <1>1, <2>1 DEF Decided
<1>. QED
  BY <1>3, <1>5, <1>6, <1>7

(* Keep: what is proposed becomes what is committed.                          *)
LEMMA AcceptMeasures ==
    ASSUME Types, Staged, Measures, Guarded, spg_improve_commit, job.accept
    PROVE  Measures' /\ Guarded'
<1>1. /\ Types' /\ Settled /\ UNCHANGED <<job, orig, store, spoilt, measured>>
      /\ pc = "commit" /\ pc' = "next" /\ committed' = store
      /\ kept' = kept \cup {job.slug} /\ cur' = job.trial
  BY CommitTypes
<1>2. /\ Measured /\ Accepted /\ Upheld
      /\ \A x \in Slugs \ {job.slug} : store[x] = committed[x]
      /\ job.slug \in Excused \/ store[job.slug] = job.text
      /\ \A i \in 1 .. RingCap : ring[i].shape # None => Survived(ring[i].shape)
  BY <1>1 DEF Measures, Guarded, Early, OnTrial
<1>3. /\ job.slug \in Slugs /\ job.text # None
      /\ \A i \in 1 .. (job.k - 1) : cands[i].slug # job.slug
      /\ job.slug \notin Excused => first[job.slug] = None
      /\ \A x \in Slugs \ {job.slug} : Proposed[x] = committed[x]
      /\ Proposed[job.slug] = job.text
  BY <1>1, <1>2, FreshSlug DEF OnTrial
<1>4. job.k \in Nat /\ job.k >= 1 /\ Tried = job.k - 1 /\ Tried' = job.k
  BY <1>1, OnTrialFacts DEF OnTrial, Tried
<1>5. Excused' = Excused /\ GateSuite' = GateSuite /\ ring' = ring
  BY <1>1 DEF Excused, GateSuite, Settled
<1>6. Like(Excused, Proposed, store)
  BY <1>2, <1>3 DEF Like
<1>7. Measured'
  <2>1. cur' >= orig'
    BY <1>1, <1>2 DEF Measured, Accepted, Types, Count, Job
  <2>2. Counted(measured, Excused, job.k, GateSuite, Proposed, job.trial)
    BY <1>2 DEF Accepted
  <2>3. Counted(measured, Excused, job.k, GateSuite, store, job.trial)
    BY <1>6, <2>2, CountedLike
  <2>4. Counted(measured', Excused', job.k, GateSuite', committed', cur')
    BY <1>1, <1>5, <2>3
  <2>5. \A x \in Slugs \ Excused' : committed'[x] # first'[x] <=> x \in kept'
    BY <1>1, <1>2, <1>3, <1>5 DEF Measured, Settled
  <2>6. job.k \in 0 .. Tried'
    BY <1>4
  <2>. QED
    BY <2>1, <2>4, <2>5, <2>6 DEF Measured
<1>8. Measures'
  BY <1>1, <1>7 DEF Measures, OnTrial
<1>9. \A x \in Slugs \ {job.slug} : committed'[x] = committed[x]
  BY <1>1, <1>2
<1>10. /\ \A k \in 0 .. (job.k - 1) : Decided(k)' = Decided(k)
       /\ Like(Excused, committed, Decided(job.k - 1)')
       /\ \A x \in Slugs \ {job.slug} : x \notin Excused => Decided(job.k)'[x] = committed[x]
       /\ Decided(job.k)'[job.slug] = store[job.slug]
  BY <1>1, <1>2, <1>9, DecidedBefore DEF Settled, OnTrial
<1>11. Like(Excused, Proposed, Decided(job.k)')
  BY <1>2, <1>3, <1>10 DEF Like
<1>12. Upheld'
  <2>. SUFFICES ASSUME NEW k \in 1 .. job.k, NEW i \in 1 .. RingCap,
                       cands[k].slug \in kept', ring[i].shape # None
                PROVE  Witnessed(measured', Excused', k, ring[i].shape, Decided(k - 1)', Decided(k)')
    BY <1>1, <1>4 DEF Upheld, Settled
  <2>1. CASE k = job.k
    <3>. DEFINE before == Decided(job.k - 1)'
                after == Decided(job.k)'
                g == ring[i].shape
    <3>1. Witnessed(measured, Excused, job.k, g, committed, Proposed)
      BY <1>2 DEF Survived
    <3>2. before = Decided(k - 1)' /\ after = Decided(k)'
      BY <1>1, <2>1 DEF Decided
    <3>3. Like(Excused, committed, before) /\ Like(Excused, Proposed, after)
      BY <1>10, <1>11
    <3>. HIDE DEF before, after, g
    <3>4. Witnessed(measured, Excused, job.k, g, before, after)
      BY <3>1, <3>3, WitnessedLike
    <3>5. Witnessed(measured', Excused', k, g, before, after)
      BY <1>1, <1>5, <2>1, <3>4
    <3>. QED
      BY <3>2, <3>5 DEF g
  <2>2. CASE k # job.k
    <3>1. k \in 1 .. (job.k - 1) /\ k \in 0 .. (job.k - 1) /\ k - 1 \in 0 .. (job.k - 1)
      BY <1>4, <2>2
    <3>2. cands[k].slug \in kept
      BY <1>1, <1>3, <3>1
    <3>3. Witnessed(measured, Excused, k, ring[i].shape, Decided(k - 1), Decided(k))
      BY <1>2, <1>4, <3>1, <3>2 DEF Upheld
    <3>4. Decided(k - 1)' = Decided(k - 1) /\ Decided(k)' = Decided(k)
      BY <1>10, <3>1
    <3>. QED
      BY <1>1, <1>5, <3>3, <3>4
  <2>. QED
    BY <2>1, <2>2
<1>13. Guarded'
  BY <1>1, <1>12 DEF Guarded, OnTrial
<1>. QED
  BY <1>8, <1>13

(* Revert: what was committed stays, and what was measured of it.             *)
LEMMA RevertMeasures ==
    ASSUME Types, Staged, Measures, Guarded, spg_improve_commit, ~job.accept
    PROVE  Measures' /\ Guarded' /\ Like(Excused', committed, committed')
<1>1. /\ Types' /\ Settled /\ UNCHANGED <<job, orig, kept, cur>> /\ spoilt \in SUBSET spoilt'
      /\ pc = "commit" /\ pc' = "next" /\ committed' = store'
      /\ measured' = Without(measured, job.k)
      /\ job.slug \in spoilt' \/ store'[job.slug] = None
      /\ \A x \in Slugs \ {job.slug} : store'[x] = store[x]
  BY CommitTypes
<1>2. /\ Measured /\ Upheld
      /\ \A x \in Slugs \ {job.slug} : store[x] = committed[x]
  BY <1>1 DEF Measures, Guarded, Early, OnTrial
<1>3. /\ job.slug \in Slugs /\ job.slug \notin kept
      /\ \A i \in 1 .. (job.k - 1) : cands[i].slug # job.slug
      /\ job.slug \notin Excused => committed[job.slug] = None
      /\ job.slug = cands[job.k].slug
  BY <1>1, <1>2, FreshSlug, OnTrialFacts DEF OnTrial
<1>4. job.k \in Nat /\ job.k >= 1 /\ Tried = job.k - 1 /\ Tried' = job.k
  BY <1>1, OnTrialFacts DEF OnTrial, Tried
<1>5. /\ Excused \in SUBSET Excused' /\ GateSuite' = GateSuite /\ ring' = ring
      /\ job.slug \in spoilt' => job.slug \in Excused'
  BY <1>1, ExcusedGrows DEF Excused, GateSuite, Settled
<1>6. \A x \in Slugs \ {job.slug} : committed'[x] = committed[x]
  BY <1>1, <1>2
<1>7. Like(Excused', committed, committed')
  BY <1>1, <1>3, <1>5, <1>6 DEF Like
<1>8. Measured'
  <2>1. PICK k \in 0 .. Tried : Counted(measured, Excused, k, GateSuite, committed, cur)
    BY <1>2 DEF Measured
  <2>2. k # job.k /\ k \in 0 .. Tried'
    BY <1>4
  <2>3. Counted(measured', Excused, k, GateSuite, committed, cur)
    BY <1>1, <2>1, <2>2, CountedKept
  <2>4. measured' \in SUBSET measured'
    OBVIOUS
  <2>5. Counted(measured', Excused', k, GateSuite, committed, cur)
    BY <1>5, <2>3, <2>4, CountedGrows
  <2>6. Counted(measured', Excused', k, GateSuite, committed', cur)
    BY <1>7, <2>5, CountedLike
  <2>7. Counted(measured', Excused', k, GateSuite', committed', cur')
    BY <1>1, <1>5, <2>6
  <2>8. \A x \in Slugs \ Excused' : committed'[x] # first'[x] <=> x \in kept'
    BY <1>1, <1>2, <1>5, <1>7 DEF Measured, Settled, Like
  <2>9. cur' >= orig'
    BY <1>1, <1>2 DEF Measured
  <2>. QED
    BY <2>2, <2>7, <2>8, <2>9 DEF Measured
<1>9. Measures'
  BY <1>1, <1>8 DEF Measures, OnTrial
<1>10. \A k \in 0 .. (job.k - 1) : Decided(k)' = Decided(k)
  BY <1>1, <1>2, <1>6, DecidedBefore DEF Settled, OnTrial
<1>11. Upheld'
  <2>. SUFFICES ASSUME NEW k \in 1 .. job.k, NEW i \in 1 .. RingCap,
                       cands[k].slug \in kept, ring[i].shape # None
                PROVE  Witnessed(measured', Excused', k, ring[i].shape, Decided(k - 1)', Decided(k)')
    BY <1>1, <1>4 DEF Upheld, Settled
  <2>1. k # job.k /\ k \in 1 .. (job.k - 1) /\ k \in 0 .. (job.k - 1) /\ k - 1 \in 0 .. (job.k - 1)
    BY <1>3, <1>4
  <2>2. Witnessed(measured, Excused, k, ring[i].shape, Decided(k - 1), Decided(k))
    BY <1>2, <1>4, <2>1 DEF Upheld
  <2>3. Witnessed(measured', Excused, k, ring[i].shape, Decided(k - 1), Decided(k))
    BY <1>1, <2>1, <2>2, WitnessedKept
  <2>4. measured' \in SUBSET measured'
    OBVIOUS
  <2>5. Witnessed(measured', Excused', k, ring[i].shape, Decided(k - 1), Decided(k))
    BY <1>5, <2>3, <2>4, WitnessedGrows
  <2>6. Decided(k - 1)' = Decided(k - 1) /\ Decided(k)' = Decided(k)
    BY <1>10, <2>1
  <2>. QED
    BY <2>5, <2>6
<1>12. Guarded'
  BY <1>1, <1>11 DEF Guarded, OnTrial
<1>. QED
  BY <1>7, <1>9, <1>12

(* The end.                                                                   *)
LEMMA EndMeasures ==
    ASSUME Types, Staged, Measures, Guarded, Report \/ SuiteFails
    PROVE  Measures' /\ Guarded'
<1>1. /\ Types'
      /\ UNCHANGED <<cmd, fails, ring, given, store, measured, cands, job, cur, orig, kept,
                     spoilt, first, committed>>
      /\ \/ pc = "next" /\ pc' = "done"
         \/ pc' = "failed"
  BY EndTypes
<1>2. CASE pc' = "failed"
  BY <1>2, EarlyStays
<1>3. CASE pc = "next" /\ pc' = "done"
  <2>1. store = committed /\ Measured /\ Upheld
    BY <1>3 DEF Measures, Guarded, Early
  <2>2. Tried' = Tried /\ Settled
    BY <1>1, <1>3 DEF Tried, OnTrial, Settled
  <2>3. measured \in SUBSET measured' /\ spoilt \in SUBSET spoilt'
    BY <1>1
  <2>4. Measured' /\ Upheld'
    BY <1>1, <2>1, <2>2, <2>3, DecidedKeep
  <2>5. Measures'
    BY <1>1, <1>3, <2>1, <2>4 DEF Measures, OnTrial
  <2>6. Guarded'
    BY <1>1, <1>3, <2>4 DEF Guarded, OnTrial
  <2>. QED
    BY <2>5, <2>6
<1>. QED
  BY <1>1, <1>2, <1>3

(* Before the baseline nothing is measured.                                   *)
LEMMA StartMeasures ==
    ASSUME GuardArgument \/ Distil \/ Improve
    PROVE  Measures' /\ Guarded'
<1>1. pc' \in Early \cup {"failed"}
  BY DEF GuardArgument, Distil, Improve, Goto, Exit, Early
<1>. QED
  BY <1>1, EarlyStays


-----------------------------------------------------------------------------
(* The guard ring.                                                            *)

(* Which slot a shape is recorded in.                                         *)
Recorded(g, slot) ==
    \/ ring[slot].shape = g
    \/ /\ \A i \in 1 .. RingCap : ring[i].shape # g
       /\ ring[slot].shape = None
       /\ \A i \in 1 .. RingCap : ring[i].shape = None => slot <= i
    \/ /\ \A i \in 1 .. RingCap : ring[i].shape # g /\ ring[i].shape # None
       /\ \A i \in 1 .. RingCap : ring[slot].seen <= ring[i].seen

LEMMA SlotIs ==
    ASSUME Ring, NEW g \in Guards, NEW clock \in Nat
    PROVE  \E slot \in 1 .. RingCap :
              /\ Recorded(g, slot)
              /\ spg_guard_ring_record(ring, g, clock) =
                    [ring EXCEPT ![slot] = [shape |-> g, seen |-> clock]]
<1>. DEFINE has  == {i \in DOMAIN ring : ring[i].shape = g}
            free == {i \in DOMAIN ring : ring[i] = Free}
            lru  == {i \in DOMAIN ring : \A j \in DOMAIN ring : ring[i].seen <= ring[j].seen}
            slot == IF has # {} THEN Min(has) ELSE IF free # {} THEN Min(free) ELSE Min(lru)
<1>1. spg_guard_ring_record(ring, g, clock) =
         [ring EXCEPT ![slot] = [shape |-> g, seen |-> clock]]
  BY DEF spg_guard_ring_record
<1>2. /\ DOMAIN ring = 1 .. RingCap /\ RingCap \in Nat \ {0} /\ g # None
      /\ \A i \in 1 .. RingCap : ring[i].seen \in Nat
      /\ \A i \in 1 .. RingCap : ring[i] = Free <=> ring[i].shape = None
  <2>1. DOMAIN ring = 1 .. RingCap /\ \A i \in 1 .. RingCap : ring[i].seen \in Nat
    BY DEF Ring
  <2>2. \A i \in 1 .. RingCap : ring[i] = Free <=> ring[i].shape = None
    BY DEF Ring, Free
  <2>3. g # None
    BY Bounds
  <2>. QED
    BY <2>1, <2>2, <2>3, Bounds
<1>3. has \in SUBSET Nat /\ free \in SUBSET Nat /\ lru \in SUBSET Nat
  BY <1>2
<1>4. lru # {}
  <2>. DEFINE F == {ring[i].seen : i \in 1 .. RingCap}
  <2>1. F \in SUBSET Nat
    BY <1>2
  <2>2. 1 \in 1 .. RingCap
    BY <1>2
  <2>3. F # {}
    BY <2>2
  <2>4. Min(F) \in F /\ \A y \in F : Min(F) <= y
    <3>. HIDE DEF F
    <3>. QED
      BY <2>1, <2>3, MinIs
  <2>5. PICK i \in 1 .. RingCap : ring[i].seen = Min(F)
    BY <2>4
  <2>6. \A j \in 1 .. RingCap : ring[i].seen <= ring[j].seen
    BY <2>4, <2>5
  <2>. QED
    BY <1>2, <2>6
<1>5. CASE has # {}
  <2>1. slot \in has
    <3>. HIDE DEF has, free, lru
    <3>. QED
      BY <1>3, <1>5, MinIs
  <2>. QED
    BY <1>1, <1>2, <2>1 DEF Recorded
<1>6. CASE has = {} /\ free # {}
  <2>1. slot \in free /\ \A i \in free : slot <= i
    <3>. HIDE DEF has, free, lru
    <3>. QED
      BY <1>3, <1>6, MinIs
  <2>2. \A i \in 1 .. RingCap : ring[i].shape # g
    BY <1>2, <1>6
  <2>3. /\ slot \in 1 .. RingCap /\ ring[slot].shape = None
        /\ \A i \in 1 .. RingCap : ring[i].shape = None => slot <= i
    <3>. HIDE DEF slot
    <3>. QED
      BY <1>2, <2>1
  <2>. HIDE DEF slot
  <2>. QED
    BY <1>1, <2>2, <2>3 DEF Recorded
<1>7. CASE has = {} /\ free = {}
  <2>1. slot \in lru
    <3>. HIDE DEF has, free, lru
    <3>. QED
      BY <1>3, <1>4, <1>7, MinIs
  <2>2. \A i \in 1 .. RingCap : ring[i].shape # g /\ ring[i].shape # None
    BY <1>2, <1>7
  <2>3. /\ slot \in 1 .. RingCap
        /\ \A i \in 1 .. RingCap : ring[slot].seen <= ring[i].seen
    <3>. HIDE DEF slot
    <3>. QED
      BY <1>2, <2>1
  <2>. HIDE DEF slot
  <2>. QED
    BY <1>1, <2>2, <2>3 DEF Recorded
<1>. QED
  BY <1>5, <1>6, <1>7

(* The occurrences of a shape after one more argument.                        *)
LEMMA SeenLater ==
    ASSUME given \in Seq(Guards), NEW g \in Guards, given' = Append(given, g),
           NEW n, n = Len(given) + 1
    PROVE  /\ Len(given') = n /\ n \in Nat \ {0} /\ Len(given) = n - 1
           /\ given'[n] = g
           /\ \A m \in 1 .. n - 1 : given'[m] = given[m]
           /\ LastSeen(n, g)'
           /\ \A h : h # g => (\A m : LastSeen(m, h) => LastSeen(m, h)')
<1>1. /\ Len(given') = n /\ n \in Nat \ {0} /\ Len(given) = n - 1
      /\ given'[n] = g
      /\ \A m \in 1 .. n - 1 : given'[m] = given[m]
  OBVIOUS
<1>2. \A m \in 1 .. n : m <= n /\ (m \in 1 .. n - 1 \/ m = n)
  BY <1>1
<1>3. LastSeen(n, g)'
  BY <1>1, <1>2 DEF LastSeen, Seen
<1>4. ASSUME NEW h, h # g, NEW m, LastSeen(m, h) PROVE LastSeen(m, h)'
  BY <1>1, <1>2, <1>4 DEF LastSeen, Seen
<1>. QED
  BY <1>1, <1>3, <1>4

LEMMA RingInit ==
    ASSUME Init
    PROVE  Ring
<1>1. given = <<>> /\ ring = [i \in 1 .. RingCap |-> Free] /\ Len(given) = 0
  BY DEF Init
<1>2. Free \in [shape : Guards \cup {None}, seen : Nat] /\ Free.shape = None
  BY DEF Free
<1>3. \A i \in 1 .. RingCap : ring[i] = Free /\ ring[i].shape = None
  BY <1>1, <1>2
<1>4. given \in Seq(Guards) /\ Len(given) <= MaxGuards /\ 1 .. Len(given) = {}
  BY <1>1, Bounds
<1>5. ring \in [1 .. RingCap -> [shape : Guards \cup {None}, seen : Nat]]
  BY <1>1, <1>2
<1>. QED
  BY <1>3, <1>4, <1>5 DEF Ring

(* One more guard keeps the ring.                                             *)
LEMMA RingRecords ==
    ASSUME Ring, GuardArgument
    PROVE  Ring'
<1>1. PICK g \in Guards : given' = Append(given, g)
                          /\ ring' = spg_guard_ring_record(ring, g, Len(given) + 1)
  BY DEF GuardArgument
<1>2. /\ Len(given) < MaxGuards /\ given \in Seq(Guards) /\ g # None
      /\ ring \in [1 .. RingCap -> [shape : Guards \cup {None}, seen : Nat]]
  BY Bounds DEF GuardArgument, Ring
<1>3. PICK n \in Nat : n = Len(given) + 1
  BY <1>2
<1>4. /\ Len(given') = n /\ n \in Nat \ {0} /\ Len(given) = n - 1
      /\ given'[n] = g
      /\ \A m \in 1 .. n - 1 : given'[m] = given[m]
      /\ LastSeen(n, g)'
      /\ \A h : h # g => (\A m : LastSeen(m, h) => LastSeen(m, h)')
  BY <1>1, <1>2, <1>3, SeenLater
<1>5. PICK slot \in 1 .. RingCap :
         Recorded(g, slot) /\ ring' = [ring EXCEPT ![slot] = [shape |-> g, seen |-> n]]
  BY <1>1, <1>3, SlotIs
<1>6. /\ ring' \in [1 .. RingCap -> [shape : Guards \cup {None}, seen : Nat]]
      /\ ring'[slot].shape = g /\ ring'[slot].seen = n
      /\ \A i \in 1 .. RingCap : i # slot => ring'[i] = ring[i]
  BY <1>2, <1>4, <1>5
<1>7. given' \in Seq(Guards) /\ Len(given') <= MaxGuards
  BY <1>1, <1>2, Bounds
<1>8. \A i \in 1 .. RingCap : i # slot => ring[i].shape # g
  BY <1>2, <1>5 DEF Recorded, Ring
<1>9. \A i \in 1 .. RingCap :
         \/ ring'[i].shape = None /\ ring'[i] = Free
         \/ /\ ring'[i].shape # None
            /\ LastSeen(ring[i].seen, ring[i].shape)'
  <2>1. ASSUME NEW i \in 1 .. RingCap, i # slot, ring[i].shape # None
        PROVE  LastSeen(ring[i].seen, ring[i].shape)'
    <3>1. PICK h, m : h = ring[i].shape /\ m = ring[i].seen
      OBVIOUS
    <3>2. LastSeen(m, h) /\ h # g
      BY <1>8, <2>1, <3>1 DEF Ring
    <3>3. LastSeen(m, h)'
      BY <1>4, <3>2
    <3>4. ring'[i].shape = h /\ ring'[i].seen = m
      BY <1>6, <2>1, <3>1
    <3>. QED
      BY <3>3, <3>4 DEF LastSeen, Seen
  <2>2. ASSUME NEW i \in 1 .. RingCap, i = slot
        PROVE  LastSeen(ring[i].seen, ring[i].shape)'
    <3>1. ring'[i].seen = n /\ ring'[i].shape = g
      BY <1>6, <2>2
    <3>. QED
      BY <1>4, <3>1 DEF LastSeen, Seen
  <2>3. ASSUME NEW i \in 1 .. RingCap, i # slot, ring[i].shape = None PROVE ring'[i] = Free
    BY <1>6, <2>3 DEF Ring
  <2>. QED
    BY <1>2, <1>6, <2>1, <2>2, <2>3
<1>10. \A i, j \in 1 .. RingCap : ring'[i].shape = ring'[j].shape => i = j \/ ring'[i].shape = None
  BY <1>6, <1>8 DEF Ring
<1>11. \A i, j \in 1 .. RingCap : i < j /\ ring'[i].shape = None => ring'[j].shape = None
  <2>. SUFFICES ASSUME NEW i \in 1 .. RingCap, NEW j \in 1 .. RingCap, i < j, ring'[i].shape = None
                PROVE  ring'[j].shape = None
    OBVIOUS
  <2>1. i # slot /\ ring[i].shape = None /\ ring[j].shape = None
    BY <1>2, <1>6 DEF Ring
  <2>2. j # slot
    <3>1. ring[slot].shape = None => slot <= i
      BY <1>2, <1>5, <2>1 DEF Recorded
    <3>. QED
      BY <2>1, <3>1
  <2>. QED
    BY <1>6, <2>1, <2>2
<1>12. /\ g \in Held'
       /\ \A h \in Held : h # ring[slot].shape => h \in Held'
  <2>1. g \in Held'
    BY <1>2, <1>6 DEF Held
  <2>2. ASSUME NEW h \in Held, h # ring[slot].shape PROVE h \in Held'
    <3>1. PICK i \in 1 .. RingCap : ring[i].shape = h
      BY DEF Held
    <3>2. ring'[i].shape = h /\ h # None
      BY <1>6, <2>2, <3>1 DEF Held
    <3>. QED
      BY <3>2 DEF Held
  <2>. QED
    BY <2>1, <2>2
<1>13. ASSUME NEW i \in 1 .. RingCap, ring'[i].shape = None, NEW m \in 1 .. n
       PROVE  given'[m] \in Held'
  <2>1. i # slot /\ ring[i].shape = None
    BY <1>2, <1>6, <1>13
  <2>2. ring[slot].shape = g \/ ring[slot].shape = None
    BY <1>5, <2>1 DEF Recorded
  <2>3. CASE m = n
    BY <1>4, <1>12, <2>3
  <2>4. CASE m \in 1 .. n - 1
    <3>1. given'[m] \in Held
      BY <1>4, <2>1, <2>4 DEF Ring
    <3>2. given'[m] # None
      BY <3>1 DEF Held
    <3>. QED
      BY <1>12, <2>2, <3>1, <3>2
  <2>. QED
    BY <1>4, <2>3, <2>4
<1>14. ASSUME NEW i \in 1 .. RingCap, ring'[i].shape # None,
              NEW m \in 1 .. n, given'[m] \notin Held'
       PROVE  m < ring'[i].seen
  <2>1. m \in 1 .. n - 1 /\ given'[m] = given[m] /\ given[m] # g
    BY <1>4, <1>12, <1>14
  <2>2. CASE i = slot
    BY <1>4, <1>6, <2>1, <2>2
  <2>3. CASE i # slot
    <3>1. ring'[i] = ring[i] /\ ring[i].shape # None /\ ring[i].seen \in Nat
      BY <1>2, <1>6, <1>14, <2>3
    <3>2. CASE given[m] \notin Held
      BY <1>4, <2>1, <3>1, <3>2 DEF Ring
    <3>3. CASE given[m] \in Held
      <4>1. given[m] = ring[slot].shape /\ ring[slot].shape # None /\ ring[slot].shape # g
        BY <1>12, <1>14, <2>1, <3>3 DEF Held
      <4>2. ring[slot].seen <= ring[i].seen /\ ring[slot].seen \in Nat
        BY <1>2, <1>5, <4>1 DEF Recorded
      <4>3. LastSeen(ring[slot].seen, ring[slot].shape) /\ LastSeen(ring[i].seen, ring[i].shape)
        BY <3>1, <4>1 DEF Ring
      <4>4. m <= ring[slot].seen
        BY <1>4, <2>1, <4>1, <4>3 DEF LastSeen, Seen
      <4>5. ring[slot].seen # ring[i].seen
        <5>1. ring[slot].shape # ring[i].shape
          BY <2>3, <4>1 DEF Ring
        <5>. QED
          BY <4>3, <5>1 DEF LastSeen, Seen
      <4>. QED
        BY <2>1, <3>1, <4>2, <4>4, <4>5
    <3>. QED
      BY <3>2, <3>3
  <2>. QED
    BY <2>2, <2>3
<1>. QED
  <2>1. \A i \in 1 .. RingCap :
          (IF ring[i].shape = None THEN ring[i] = Free
           ELSE LastSeen(ring[i].seen, ring[i].shape))'
    BY <1>9
  <2>. QED
    BY <1>4, <1>6, <1>7, <1>10, <1>11, <1>13, <1>14, <2>1 DEF Ring

LEMMA RingHolds ==
    ASSUME Ring, [Next]_vars
    PROVE  Ring'
<1>1. CASE GuardArgument
  BY <1>1, RingRecords
<1>2. CASE UNCHANGED <<ring, given>>
  BY <1>2 DEF Ring, LastSeen, Seen, Held
<1>3. Next => GuardArgument \/ UNCHANGED <<ring, given>>
  BY DEF Next, Distil, Improve, Baseline, GateBaseline, TentativeSave, EvolveMeasure, EvolveSelect,
         Trial, Prove, SuiteFails, GuardBaseline, GuardTrial, GuardsDone, Resave,
         spg_improve_commit, Report
<1>. QED
  BY <1>1, <1>2, <1>3 DEF vars
-----------------------------------------------------------------------------
(* The inductive invariant.                                                   *)
LEMMA MeasuresHold ==
    ASSUME Inv, Next
    PROVE  Measures' /\ Guarded'
<1>1. Types /\ Ring /\ Staged /\ Measures /\ Guarded
  BY DEF Inv
<1>2. CASE GuardArgument \/ Distil \/ Improve \/ Baseline \/ GateBaseline
  BY <1>1, <1>2, StartMeasures, BaselineMeasures
<1>3. CASE TentativeSave \/ EvolveMeasure \/ EvolveSelect \/ Trial \/ Prove
  BY <1>1, <1>3, SaveMeasures, EvolveMeasures, TrialMeasures, ProveMeasures
<1>4. CASE GuardBaseline \/ GuardTrial \/ GuardsDone \/ Resave
  BY <1>1, <1>4, GuardBaselineMeasures, GuardTrialMeasures, GuardsDoneMeasures, ResaveMeasures
<1>5. CASE spg_improve_commit \/ Report \/ SuiteFails
  BY <1>1, <1>5, AcceptMeasures, RevertMeasures, EndMeasures
<1>. QED
  BY <1>2, <1>3, <1>4, <1>5 DEF Next

LEMMA InvStays ==
    ASSUME Inv, [Next]_vars
    PROVE  Inv'
<1>1. Types' /\ Staged' /\ Ring'
  BY TypesHold, RingHolds DEF Inv
<1>2. CASE Next
  BY <1>1, <1>2, MeasuresHold DEF Inv
<1>3. CASE UNCHANGED vars
  <2>1. Measures => Measures'
    BY <1>3 DEF vars, Measures, Measured, Accepted, Proposed, GateSuite, Tried, Excused
  <2>2. Guarded => Guarded'
    BY <1>3 DEF vars, Guarded, Upheld, Survived, Shape, Proposed, Tried, Excused, Decided
  <2>. QED
    BY <1>1, <2>1, <2>2 DEF Inv
<1>. QED
  BY <1>2, <1>3

LEMMA InvInit ==
    ASSUME Init
    PROVE  Inv
<1>1. pc = "args"
  BY DEF Init
<1>2. Measures /\ Guarded
  BY <1>1 DEF Measures, Guarded, Early, OnTrial
<1>. QED
  BY <1>2, InitTypes, RingInit DEF Inv

(* The inductive invariant holds in every behaviour. *)
LEMMA InvHolds == Spec => []Inv
<1>1. Init => Inv
  BY InvInit
<1>2. Inv /\ [Next]_vars => Inv'
  BY InvStays
<1>. QED
  BY <1>1, <1>2, PTL DEF Spec

-----------------------------------------------------------------------------
(* What follows.                                                              *)

(* The variables of the learning loop keep their types; no pass count         *)
(* exceeds the suites and the guard ring never holds a shape twice.           *)
THEOREM TypeCorrect == Spec => []TypeOK
<1>1. Inv => TypeOK
  <2>. SUFFICES ASSUME Inv PROVE TypeOK
    OBVIOUS
  <2>1. Types /\ Ring /\ Staged
    BY DEF Inv
  <2>2. cmd \in Commands /\ fails \in [Cases -> Terminations]
    BY <2>1, Bounds DEF Types
  <2>3. ring \in [1..RingCap -> [shape : Guards \cup {None}, seen : 0..MaxGuards]]
    <3>1. ASSUME NEW i \in 1 .. RingCap
          PROVE  ring[i] \in [shape : Guards \cup {None}, seen : 0..MaxGuards]
      <4>1. ring[i] \in [shape : Guards \cup {None}, seen : Nat]
        BY <2>1 DEF Ring
      <4>2. ring[i].seen <= MaxGuards
        <5>1. CASE ring[i].shape = None
          BY <2>1, <5>1, Bounds DEF Ring, Free
        <5>2. CASE ring[i].shape # None
          BY <2>1, <5>2, Bounds DEF Ring, LastSeen, Seen
        <5>. QED
          BY <5>1, <5>2
      <4>. QED
        BY <4>1, <4>2, Bounds
    <3>. QED
      BY <2>1, <3>1 DEF Ring
  <2>4. \A i, j \in DOMAIN ring : ring[i].shape = ring[j].shape => i = j \/ ring[i] = Free
    BY <2>1 DEF Ring
  <2>5. {store, first, committed} \subseteq [Slugs -> {None, "old", "seed"} \cup Variants]
    <3>1. {None, "old"} \cup Texts = {None, "old", "seed"} \cup Variants
      BY DEF Texts
    <3>. QED
      BY <2>1, <3>1 DEF Types, Stores
  <2>6. cands \in Seq([slug : Slugs, origin : Cases \cup {0}])
    BY <2>1 DEF Types, Candidate
  <2>7. job.k \in 0..Len(cands) /\ job.slot \in 0..RingCap
    BY <2>1 DEF Types, Staged, Job
  <2>8. cur \in 0..Cardinality(Cases \cup Holdout) /\ orig \in 0..Cardinality(Cases \cup Holdout)
    <3>1. Cardinality(Cases \cup Holdout) \in Nat
      BY PassCount
    <3>. QED
      BY <2>1, <3>1 DEF Types, Count
  <2>9. kept \subseteq Slugs /\ spoilt \subseteq Slugs
    BY <2>1 DEF Types
  <2>. QED
    BY <2>2, <2>3, <2>4, <2>5, <2>6, <2>7, <2>8, <2>9 DEF TypeOK
<1>. QED
  BY <1>1, InvHolds, PTL

(* A logged run on memories that are those of c, as the properties put it.     *)
LEMMA Shown ==
    ASSUME NEW k, NEW u, NEW c, NEW n, Counted(measured, Excused, k, u, c, n)
    PROVE  \E e \in measured : e.k = k /\ e.suite = u /\ e.n = n /\ Agree(e.store, c)
<1>1. PICK s : Mark(k, u, s, n) \in measured /\ Like(Excused, s, c)
  BY DEF Counted
<1>. DEFINE e == Mark(k, u, s, n)
<1>2. e \in measured /\ e.k = k /\ e.suite = u /\ e.n = n /\ e.store = s
  BY <1>1, MarkFields
<1>. HIDE DEF e
<1>3. Agree(e.store, c)
  BY <1>1, <1>2 DEF Agree, Like
<1>. QED
  BY <1>2, <1>3

(* The README's "final >= baseline": after each decision the count reported   *)
(* is one the gating suite gave in a run on the memories that are left, it is *)
(* not below the baseline, and the memories stored anew are those reported as *)
(* kept - whatever the suite runs gave; a failed store operation spoils this  *)
(* for its own slug only.                                                     *)
THEOREM ScoreIsNeverWorse == Spec => []NeverWorse
<1>1. Inv => NeverWorse
  <2>. SUFFICES ASSUME Inv, pc \in {"next", "done"}
                PROVE  /\ cur >= orig
                       /\ \E e \in measured :
                             e.suite = GateSuite /\ e.n = cur /\ Agree(e.store, store)
                       /\ {s \in Slugs : store[s] # first[s]} \ Excused = kept \ Excused
    BY DEF NeverWorse
  <2>1. Measured /\ store = committed /\ kept \in SUBSET Slugs
    BY DEF Inv, Measures, Early, Types
  <2>2. PICK k \in 0 .. Tried : Counted(measured, Excused, k, GateSuite, store, cur)
    BY <2>1 DEF Measured
  <2>3. \E e \in measured : e.suite = GateSuite /\ e.n = cur /\ Agree(e.store, store)
    BY <2>2, Shown
  <2>4. cur >= orig /\ \A x \in Slugs \ Excused : store[x] # first[x] <=> x \in kept
    BY <2>1 DEF Measured
  <2>. QED
    BY <2>1, <2>3, <2>4
<1>. QED
  BY <1>1, InvHolds, PTL

(* No lesson is kept against a guard the ring held: its run without the       *)
(* lesson and its run with it were made on top of what was decided before,    *)
(* and it is not so that only the first passed (spg_guard_ring_gate).         *)
THEOREM GuardsAreHeld == Spec => []GuardsHold
<1>1. Inv => GuardsHold
  <2>. SUFFICES ASSUME Inv, pc \in {"next", "done"}, NEW k \in 1 .. job.k, NEW i \in DOMAIN ring,
                       cands[k].slug \in kept, ring[i].shape # None
                PROVE  \E without, with \in {e \in measured : e.k = k /\ e.suite = ring[i].shape} :
                          /\ Agree(without.store, Standing(k - 1))
                          /\ Agree(with.store, Standing(k))
                          /\ without.n > 0 => with.n > 0
    BY DEF GuardsHold
  <2>1. Upheld /\ store = committed /\ i \in 1 .. RingCap /\ Tried = job.k
    BY DEF Inv, Measures, Guarded, Early, OnTrial, Ring, Tried
  <2>. DEFINE g == ring[i].shape
  <2>2. Witnessed(measured, Excused, k, g, Decided(k - 1), Decided(k))
    BY <2>1 DEF Upheld
  <2>3. Decided(k - 1) = Standing(k - 1) /\ Decided(k) = Standing(k)
    BY <2>1 DEF Decided, Standing
  <2>4. PICK n \in Nat, m \in Nat :
           /\ Counted(measured, Excused, k, g, Standing(k - 1), n)
           /\ Counted(measured, Excused, k, g, Standing(k), m) /\ (n > 0 => m > 0)
    BY <2>2, <2>3 DEF Witnessed
  <2>. HIDE DEF g
  <2>5. PICK x \in measured :
           x.k = k /\ x.suite = g /\ x.n = n /\ Agree(x.store, Standing(k - 1))
    BY <2>4, Shown
  <2>6. PICK y \in measured :
           y.k = k /\ y.suite = g /\ y.n = m /\ Agree(y.store, Standing(k))
    BY <2>4, Shown
  <2>. QED
    BY <2>4, <2>5, <2>6 DEF g
<1>. QED
  BY <1>1, InvHolds, PTL

(* A revert leaves the store as the mint found it, when no store operation    *)
(* failed for its slug and no memory of that name was there before.           *)
THEOREM FreshRevertRestores ==
    Spec => [][pc = "commit" /\ ~job.accept /\ job.slug \notin spoilt' /\ first[job.slug] = None
               => store' = committed]_vars
<1>1. Inv /\ [Next]_vars =>
         [pc = "commit" /\ ~job.accept /\ job.slug \notin spoilt' /\ first[job.slug] = None
          => store' = committed]_vars
  <2>. SUFFICES ASSUME Inv, Next, pc = "commit", ~job.accept, job.slug \notin spoilt',
                       first[job.slug] = None
                PROVE  store' = committed
    OBVIOUS
  <2>1. spg_improve_commit
    BY DEF Next, GuardArgument, Distil, Improve, Baseline, GateBaseline, TentativeSave,
       EvolveMeasure, EvolveSelect, Trial, Prove, SuiteFails, GuardBaseline, GuardTrial,
       GuardsDone, Resave, Report
  <2>2. Types /\ Staged /\ Measures /\ Measured
    BY DEF Inv, Measures, Early
  <2>3. /\ Types' /\ spoilt \in SUBSET spoilt' /\ store'[job.slug] = None
        /\ \A x \in Slugs \ {job.slug} : store'[x] = store[x]
    BY <2>1, <2>2, CommitTypes
  <2>4. \A x \in Slugs \ {job.slug} : store[x] = committed[x]
    BY <2>2 DEF Measures, OnTrial
  <2>5. job.slug \in Slugs /\ job.slug \notin kept
    BY <2>2, FreshSlug DEF OnTrial
  <2>6. committed[job.slug] = None
    <3>1. CASE job.slug \notin Excused
      BY <2>2, <2>5, <3>1 DEF Measured
    <3>2. CASE job.slug \in Excused
      <4>1. PICK j \in DOMAIN cands : job.slug = cands[j].slug /\ first[job.slug] # None
        BY <2>3, <3>2 DEF Excused
      <4>. QED
        BY <4>1
    <3>. QED
      BY <3>1, <3>2
  <2>7. \A x \in Slugs : store'[x] = committed[x]
    BY <2>3, <2>4, <2>6
  <2>8. store' \in Stores /\ committed \in Stores
    BY <2>2, <2>3 DEF Types
  <2>. QED
    BY <2>7, <2>8 DEF Stores
<1>. QED
  BY <1>1, InvHolds, PTL DEF Spec

(* The ring holds the RingCap shapes that were given last.                    *)
LastOf(g) == Max({i \in DOMAIN given : given[i] = g})

Newer(g) == {h \in ToSet(given) : LastOf(h) > LastOf(g)}

LEMMA LastOfIs ==
    ASSUME Ring
    PROVE  /\ \A g \in ToSet(given) : LastSeen(LastOf(g), g)
           /\ \A g, n : LastSeen(n, g) => g \in ToSet(given) /\ LastOf(g) = n
           /\ \A n \in 1 .. Len(given) : given[n] \in ToSet(given)
           /\ IsFiniteSet(ToSet(given))
<1>1. given \in Seq(Guards) /\ DOMAIN given = 1 .. Len(given) /\ Len(given) \in Nat
  BY DEF Ring
<1>2. \A g : {i \in DOMAIN given : given[i] = g} = Seen(g) /\ Seen(g) \in SUBSET (1 .. Len(given))
  BY <1>1 DEF Seen
<1>3. \A n \in 1 .. Len(given) : given[n] \in ToSet(given)
  BY <1>1 DEF ToSet
<1>4. ASSUME NEW g, NEW n, LastSeen(n, g) PROVE g \in ToSet(given) /\ LastOf(g) = n
  <2>1. n \in Seen(g) /\ n \in 1 .. Len(given) /\ given[n] = g
    BY <1>4 DEF LastSeen, Seen
  <2>2. \A i \in Seen(g) : n >= i /\ i \in Nat
    BY <1>2, <1>4 DEF LastSeen
  <2>. DEFINE m == CHOOSE x \in Seen(g) : \A y \in Seen(g) : x >= y
  <2>3. m \in Seen(g) /\ \A y \in Seen(g) : m >= y
    BY <2>1, <2>2
  <2>4. LastOf(g) = m
    BY <1>2 DEF LastOf, Max
  <2>. HIDE DEF m
  <2>5. m \in Nat /\ n \in Nat /\ m >= n /\ n >= m
    BY <2>1, <2>2, <2>3
  <2>6. m = n
    BY <2>5
  <2>. QED
    BY <1>3, <2>1, <2>4, <2>6
<1>5. ASSUME NEW g \in ToSet(given) PROVE LastSeen(LastOf(g), g)
  <2>1. PICK i \in 1 .. Len(given) : given[i] = g
    BY <1>1 DEF ToSet
  <2>2. Seen(g) # {} /\ Seen(g) \in SUBSET Nat /\ IsFiniteSet(Seen(g))
    <3>1. i \in Seen(g)
      BY <2>1 DEF Seen
    <3>2. IsFiniteSet(1 .. Len(given))
      BY <1>1, FS_Interval
    <3>. QED
      BY <1>1, <1>2, <3>1, <3>2, FS_Subset
  <2>3. PICK x \in Seen(g) : \A y \in Seen(g) : x >= y
    BY <2>2, MaxExists
  <2>4. LastSeen(x, g)
    BY <2>2, <2>3 DEF LastSeen
  <2>. QED
    BY <1>4, <2>4
<1>6. IsFiniteSet(ToSet(given))
  <2>1. given \in Surjection(1 .. Len(given), ToSet(given))
    BY <1>1, <1>3 DEF Surjection, ToSet
  <2>2. IsFiniteSet(1 .. Len(given))
    BY <1>1, FS_Interval
  <2>. QED
    BY <2>1, <2>2, FS_Surjection
<1>. QED
  BY <1>3, <1>4, <1>5, <1>6

LEMMA HeldCount ==
    ASSUME Ring
    PROVE  /\ IsFiniteSet(Held) /\ Cardinality(Held) \in Nat /\ Cardinality(Held) <= RingCap
           /\ (\A i \in 1 .. RingCap : ring[i].shape # None) => Cardinality(Held) = RingCap
<1>. DEFINE S == {ring[i].shape : i \in 1 .. RingCap}
            f == [i \in 1 .. RingCap |-> ring[i].shape]
<1>1. IsFiniteSet(1 .. RingCap) /\ Cardinality(1 .. RingCap) = RingCap /\ RingCap \in Nat
  BY Bounds, FS_Interval
<1>2. f \in Surjection(1 .. RingCap, S)
  BY DEF Surjection
<1>3. /\ IsFiniteSet(S) /\ Cardinality(S) <= RingCap
      /\ Cardinality(S) = RingCap <=> f \in Injection(1 .. RingCap, S)
  <2>. HIDE DEF f, S
  <2>. QED
    BY <1>1, <1>2, FS_Surjection
<1>4. Held \in SUBSET S
  BY DEF Held
<1>5. IsFiniteSet(Held) /\ Cardinality(Held) \in Nat /\ Cardinality(Held) <= RingCap
  <2>. HIDE DEF f, S
  <2>1. IsFiniteSet(Held) /\ Cardinality(Held) <= Cardinality(S)
    BY <1>3, <1>4, FS_Subset
  <2>. QED
    BY <1>1, <1>3, <2>1, FS_CardinalityType
<1>6. ASSUME \A i \in 1 .. RingCap : ring[i].shape # None PROVE Cardinality(Held) = RingCap
  <2>1. S = Held
    BY <1>6 DEF Held
  <2>2. \A i, j \in 1 .. RingCap : f[i] = f[j] => i = j
    BY <1>6 DEF Ring
  <2>3. f \in [1 .. RingCap -> S]
    OBVIOUS
  <2>. HIDE DEF f, S
  <2>4. f \in Injection(1 .. RingCap, S)
    BY <2>2, <2>3 DEF Injection, IsInjective
  <2>. QED
    BY <1>3, <2>1, <2>4
<1>. QED
  BY <1>5, <1>6

(* The guard ring holds exactly the RingCap shapes given last, for every      *)
(* capacity and however often one is repeated (spg_guard_ring_record).        *)
THEOREM RingIsRecent == Spec => []RingKeepsRecent
<1>1. Ring => RingKeepsRecent
  <2>. SUFFICES ASSUME Ring PROVE RingKeepsRecent
    OBVIOUS
  <2>1. /\ \A g \in ToSet(given) : LastSeen(LastOf(g), g)
        /\ \A g, n : LastSeen(n, g) => g \in ToSet(given) /\ LastOf(g) = n
        /\ \A n \in 1 .. Len(given) : given[n] \in ToSet(given)
        /\ IsFiniteSet(ToSet(given))
    BY LastOfIs
  <2>2. /\ IsFiniteSet(Held) /\ Cardinality(Held) \in Nat /\ Cardinality(Held) <= RingCap
        /\ (\A i \in 1 .. RingCap : ring[i].shape # None) => Cardinality(Held) = RingCap
        /\ RingCap \in Nat
    BY HeldCount, Bounds
  <2>3. ASSUME NEW g \in Held
        PROVE  g \in ToSet(given) /\ Cardinality(Newer(g)) < RingCap
    <3>1. PICK i \in 1 .. RingCap : ring[i].shape = g /\ g # None
      BY DEF Held
    <3>2. LastSeen(ring[i].seen, g)
      BY <3>1 DEF Ring
    <3>3. g \in ToSet(given) /\ LastOf(g) = ring[i].seen
      BY <2>1, <3>2
    <3>4. Newer(g) \in SUBSET (Held \ {g})
      <4>1. ASSUME NEW h \in Newer(g) PROVE h \in Held /\ h # g
        <5>1. h \in ToSet(given) /\ LastOf(h) > ring[i].seen /\ LastSeen(LastOf(h), h)
          BY <2>1, <3>3 DEF Newer
        <5>2. LastOf(h) \in 1 .. Len(given) /\ given[LastOf(h)] = h
          BY <5>1 DEF LastSeen, Seen
        <5>3. ring[i].seen \in Nat /\ Len(given) \in Nat
          BY DEF Ring
        <5>4. h # g
          BY <3>3, <5>1, <5>2, <5>3
        <5>5. h \notin Held => LastOf(h) < ring[i].seen
          BY <3>1, <5>2 DEF Ring
        <5>. QED
          BY <5>1, <5>2, <5>3, <5>4, <5>5
      <4>. QED
        BY <4>1
    <3>5. IsFiniteSet(Held \ {g}) /\ Cardinality(Held \ {g}) = Cardinality(Held) - 1
      BY <2>2, FS_RemoveElement
    <3>6. Cardinality(Newer(g)) <= Cardinality(Held \ {g}) /\ Cardinality(Newer(g)) \in Nat
      BY <3>4, <3>5, FS_Subset, FS_CardinalityType
    <3>. QED
      BY <2>2, <3>3, <3>5, <3>6
  <2>4. ASSUME NEW g \in ToSet(given), g \notin Held, Cardinality(Newer(g)) < RingCap
        PROVE  FALSE
    <3>1. LastSeen(LastOf(g), g) /\ LastOf(g) \in 1 .. Len(given) /\ given[LastOf(g)] = g
      BY <2>1 DEF LastSeen, Seen
    <3>2. \A i \in 1 .. RingCap : ring[i].shape # None
      BY <2>4, <3>1 DEF Ring
    <3>3. Held \in SUBSET Newer(g)
      <4>1. ASSUME NEW h \in Held PROVE h \in Newer(g)
        <5>1. PICK i \in 1 .. RingCap : ring[i].shape = h
          BY DEF Held
        <5>2. LastSeen(ring[i].seen, h) /\ LastOf(g) < ring[i].seen
          BY <2>4, <3>1, <3>2, <5>1 DEF Ring
        <5>3. h \in ToSet(given) /\ LastOf(h) = ring[i].seen
          BY <2>1, <5>2
        <5>4. ring[i].seen \in Nat /\ LastOf(g) \in Nat
          BY <3>1 DEF Ring
        <5>. QED
          BY <5>2, <5>3, <5>4 DEF Newer
      <4>. QED
        BY <4>1
    <3>4. IsFiniteSet(Newer(g))
      <4>1. Newer(g) \in SUBSET ToSet(given)
        BY DEF Newer
      <4>. QED
        BY <2>1, <4>1, FS_Subset
    <3>5. Cardinality(Held) <= Cardinality(Newer(g)) /\ Cardinality(Newer(g)) \in Nat
      BY <3>3, <3>4, FS_Subset, FS_CardinalityType
    <3>. QED
      BY <2>2, <2>4, <3>2, <3>5
  <2>5. Held = {g \in ToSet(given) : Cardinality(Newer(g)) < RingCap}
    BY <2>3, <2>4
  <2>6. DOMAIN ring = 1 .. RingCap
    BY DEF Ring
  <2>. QED
    BY <2>5, <2>6 DEF RingKeepsRecent, Held, Newer, LastOf
<1>. QED
  BY <1>1, InvHolds, PTL DEF Inv

-----------------------------------------------------------------------------
(* The audit. A set of numbers that holds 0 and the successor of each of its  *)
(* members is all of them: so much induction the tallies need.                *)
LEMMA UpTo ==
    ASSUME NEW N \in Nat, NEW K \in SUBSET (0 .. N), 0 \in K,
           \A k \in K : k < N => k + 1 \in K
    PROVE  K = 0 .. N
<1>. DEFINE D == {k \in 0 .. N : \A j \in 0 .. k : j \in K}
            c == Cardinality(D)
<1>1. IsFiniteSet(0 .. N) /\ D \in SUBSET (0 .. N) /\ 0 \in D
  BY FS_Interval
<1>2. IsFiniteSet(D) /\ c \in Nat
  <2>. HIDE DEF D
  <2>. QED
    BY <1>1, FS_Subset, FS_CardinalityType
<1>3. ASSUME NEW k \in D PROVE k + 1 <= c /\ k \in Nat
  <2>1. k \in Nat /\ (0 .. k) \in SUBSET D
    OBVIOUS
  <2>2. Cardinality(0 .. k) = k + 1
    BY <2>1, FS_Interval
  <2>. HIDE DEF D
  <2>3. Cardinality(0 .. k) <= c
    BY <1>2, <2>1, FS_Subset
  <2>. QED
    BY <2>1, <2>2, <2>3
<1>. DEFINE d == c - 1
            I == 0 .. d
<1>. HIDE DEF c
<1>4. d \in Nat /\ d + 1 = c
  BY <1>1, <1>2, <1>3
<1>5. D \in SUBSET I
  BY <1>2, <1>3, <1>4
<1>6. Cardinality(I) = c /\ IsFiniteSet(I)
  <2>. HIDE DEF d
  <2>. QED
    BY <1>4, FS_Interval
<1>7. D = I
  <2>. HIDE DEF I, D
  <2>. QED
    BY <1>5, <1>6, FS_Subset DEF c
<1>8. d \in D /\ d + 1 \notin D
  BY <1>4, <1>7
<1>. HIDE DEF d
<1>9. d = N
  <2>1. d \in 0 .. N /\ d \in K /\ \A j \in 0 .. d : j \in K
    BY <1>4, <1>8
  <2>2. d < N => d + 1 \in D
    <3>1. \A j \in 0 .. (d + 1) : j \in 0 .. d \/ j = d + 1
      BY <1>4
    <3>. QED
      BY <1>4, <2>1, <3>1
  <2>. QED
    BY <1>8, <2>1, <2>2
<1>. QED
  BY <1>8, <1>9

Run1 == [finished : 0 .. AuditSpan, hits : 0 .. AuditSpan]

Hit(js, runs, n) == IF n \in runs THEN js[n].hits ELSE 0

Counts(js, runs) ==
    CHOOSE g : g = [n \in 0 .. Len(js) |-> IF n = 0 THEN 0 ELSE g[n - 1] + Hit(js, runs, n)]

LEMMA TallyIs ==
    ASSUME NEW js, NEW runs
    PROVE  Tally(js, runs) = Counts(js, runs)[Len(js)]
BY DEF Tally, Counts, Hit

(* The recursion of Tally has one solution.                                   *)
CountTo(g, js, runs, k) ==
    /\ g \in [0 .. k -> Nat] /\ g[0] = 0
    /\ \A n \in 1 .. k : g[n] = g[n - 1] + Hit(js, runs, n)

LEMMA HitIs ==
    ASSUME NEW js \in Seq(Run1), NEW runs, NEW n \in 1 .. Len(js)
    PROVE  Hit(js, runs, n) \in Nat /\ Hit(js, runs, n) <= AuditSpan
<1>1. js[n] \in Run1 /\ AuditSpan \in Nat
  BY Bounds
<1>2. \A e \in Run1 : e.hits \in 0 .. AuditSpan
  BY DEF Run1
<1>. QED
  BY <1>1, <1>2 DEF Hit

LEMMA CountExists ==
    ASSUME NEW js \in Seq(Run1), NEW runs
    PROVE  \E g : CountTo(g, js, runs, Len(js))
<1>. DEFINE N == Len(js)
            K == {k \in 0 .. N : \E g : CountTo(g, js, runs, k)}
<1>1. N \in Nat
  OBVIOUS
<1>2. 0 \in K
  <2>1. CountTo([n \in 0 .. 0 |-> 0], js, runs, 0)
    BY DEF CountTo
  <2>. QED
    BY <1>1, <2>1
<1>3. ASSUME NEW k \in K, k < N PROVE k + 1 \in K
  <2>1. PICK g : CountTo(g, js, runs, k)
    OBVIOUS
  <2>. DEFINE m == k + 1
              f == Hit(js, runs, m)
              h == [n \in 0 .. m |-> IF n = m THEN g[k] + f ELSE g[n]]
  <2>2. k \in Nat /\ m \in 1 .. N /\ m = k + 1 /\ f \in Nat
    BY <1>1, <1>3, HitIs
  <2>3. g[k] \in Nat /\ \A n \in 0 .. k : g[n] \in Nat
    BY <2>1, <2>2 DEF CountTo
  <2>. HIDE DEF m, f
  <2>4. h \in [0 .. m -> Nat] /\ \A n \in 0 .. k : h[n] = g[n]
    BY <2>2, <2>3
  <2>5. h[m] = g[k] + f
    BY <2>2
  <2>. HIDE DEF h
  <2>6. ASSUME NEW n \in 1 .. m PROVE h[n] = h[n - 1] + Hit(js, runs, n)
    <3>1. CASE n = m
      <4>1. n - 1 = k /\ k \in 0 .. k
        BY <2>2, <3>1
      <4>. QED
        BY <2>4, <2>5, <3>1, <4>1 DEF f
    <3>2. CASE n # m
      <4>1. n \in 1 .. k /\ n \in 0 .. k /\ n - 1 \in 0 .. k
        BY <2>2, <3>2
      <4>. QED
        BY <2>1, <2>4, <4>1 DEF CountTo
    <3>. QED
      BY <3>1, <3>2
  <2>7. h[0] = 0
    BY <2>1, <2>2, <2>4 DEF CountTo
  <2>8. CountTo(h, js, runs, m)
    BY <2>4, <2>6, <2>7 DEF CountTo
  <2>. QED
    BY <2>2, <2>8 DEF m
<1>4. K = 0 .. N
  <2>1. K \in SUBSET (0 .. N)
    OBVIOUS
  <2>. HIDE DEF K, N
  <2>. QED
    BY <1>1, <1>2, <1>3, <2>1, UpTo
<1>. QED
  BY <1>1, <1>4

LEMMA CountsMeans ==
    ASSUME NEW js \in Seq(Run1), NEW runs
    PROVE  CountTo(Counts(js, runs), js, runs, Len(js))
<1>. DEFINE N == Len(js)
            S == Counts(js, runs)
            E(g) == [n \in 0 .. N |-> IF n = 0 THEN 0 ELSE g[n - 1] + Hit(js, runs, n)]
<1>1. N \in Nat
  OBVIOUS
<1>2. PICK g : CountTo(g, js, runs, N)
  BY CountExists
<1>3. g = E(g)
  <2>1. \A n \in 0 .. N : n # 0 => n \in 1 .. N
    BY <1>1
  <2>2. g \in [0 .. N -> Nat] /\ \A n \in 0 .. N : g[n] = E(g)[n]
    BY <1>2, <2>1 DEF CountTo
  <2>. QED
    BY <2>2
<1>4. S = E(S)
  BY <1>3 DEF Counts
<1>. HIDE DEF S
<1>5. S[0] = 0 /\ \A n \in 1 .. N : S[n] = S[n - 1] + Hit(js, runs, n)
  <2>1. \A n \in 1 .. N : n \in 0 .. N /\ n # 0
    BY <1>1
  <2>. QED
    BY <1>1, <1>4, <2>1
<1>. DEFINE K == {n \in 0 .. N : S[n] = g[n]}
<1>6. K = 0 .. N
  <2>1. K \in SUBSET (0 .. N) /\ 0 \in K
    BY <1>1, <1>2, <1>5 DEF CountTo
  <2>2. ASSUME NEW k \in K, k < N PROVE k + 1 \in K
    <3>1. k + 1 \in 1 .. N /\ (k + 1) - 1 = k /\ k + 1 \in 0 .. N
      BY <1>1, <2>2
    <3>. QED
      BY <1>2, <1>5, <2>2, <3>1 DEF CountTo
  <2>. HIDE DEF K, N
  <2>. QED
    BY <1>1, <2>1, <2>2, UpTo
<1>7. S \in [0 .. N -> Nat]
  <2>1. S = [n \in 0 .. N |-> S[n]]
    <3>1. DOMAIN S = 0 .. N /\ S = [n \in DOMAIN S |-> S[n]]
      BY <1>4
    <3>. QED
      BY <3>1
  <2>2. \A n \in 0 .. N : S[n] \in Nat
    BY <1>2, <1>6 DEF CountTo
  <2>. QED
    BY <2>1, <2>2
<1>. QED
  BY <1>5, <1>7 DEF CountTo, S

(* One more run adds its hits to the side it is on.                           *)
LEMMA TallyAppend ==
    ASSUME NEW js \in Seq(Run1), NEW e \in Run1, NEW runs, NEW more,
           \A n \in 1 .. Len(js) : n \in more <=> n \in runs
    PROVE  /\ Tally(js, runs) \in Nat
           /\ Tally(Append(js, e), more) =
                 Tally(js, runs) + (IF Len(js) + 1 \in more THEN e.hits ELSE 0)
<1>. DEFINE N == Len(js)
            ks == Append(js, e)
            F == Counts(js, runs)
            G == Counts(ks, more)
            K == {n \in 0 .. N : G[n] = F[n]}
<1>1. N \in Nat /\ Len(ks) = N + 1 /\ ks \in Seq(Run1) /\ ks[N + 1] = e
      /\ \A n \in 1 .. N : ks[n] = js[n]
  OBVIOUS
<1>. HIDE DEF ks
<1>2. CountTo(F, js, runs, N) /\ CountTo(G, ks, more, N + 1)
  BY <1>1, CountsMeans
<1>. HIDE DEF F, G
<1>3. \A n \in 1 .. N : Hit(ks, more, n) = Hit(js, runs, n)
  BY <1>1 DEF Hit
<1>4. K = 0 .. N
  <2>1. K \in SUBSET (0 .. N) /\ 0 \in K
    BY <1>1, <1>2 DEF CountTo
  <2>2. ASSUME NEW k \in K, k < N PROVE k + 1 \in K
    <3>. DEFINE m == k + 1
    <3>1. m \in 1 .. N /\ m \in 1 .. N + 1 /\ m - 1 = k /\ m \in 0 .. N
      BY <1>1, <2>2
    <3>. HIDE DEF m
    <3>2. G[m] = F[m]
      BY <1>2, <1>3, <2>2, <3>1 DEF CountTo
    <3>. QED
      BY <3>1, <3>2 DEF m
  <2>. HIDE DEF K, N
  <2>. QED
    BY <1>1, <2>1, <2>2, UpTo
<1>5. G[N] = F[N] /\ F[N] \in Nat
  <2>1. N \in 0 .. N
    BY <1>1
  <2>. QED
    BY <1>2, <1>4, <2>1 DEF CountTo
<1>6. G[N + 1] = F[N] + Hit(ks, more, N + 1)
  <2>1. N + 1 \in 1 .. N + 1 /\ (N + 1) - 1 = N
    BY <1>1
  <2>. QED
    BY <1>2, <1>5, <2>1 DEF CountTo
<1>7. Tally(js, runs) = F[N] /\ Tally(ks, more) = G[N + 1]
  BY <1>1, TallyIs DEF F, G
<1>. QED
  BY <1>1, <1>5, <1>6, <1>7 DEF ks, Hit

(* No side has more hits than AuditSpan for each of its runs.                 *)
LEMMA TallyBound ==
    ASSUME NEW js \in Seq(Run1), NEW runs \in SUBSET (1 .. Len(js))
    PROVE  /\ IsFiniteSet(runs) /\ Cardinality(runs) \in Nat
           /\ Tally(js, runs) <= AuditSpan * Cardinality(runs)
<1>. DEFINE N == Len(js)
            F == Counts(js, runs)
            part(n) == {i \in runs : i <= n}
            K == {n \in 0 .. N : F[n] <= AuditSpan * Cardinality(part(n))}
<1>1. N \in Nat /\ AuditSpan \in Nat /\ IsFiniteSet(1 .. N)
  BY Bounds, FS_Interval
<1>2. IsFiniteSet(runs) /\ Cardinality(runs) \in Nat
  BY <1>1, FS_Subset, FS_CardinalityType
<1>3. CountTo(F, js, runs, N)
  BY CountsMeans
<1>. HIDE DEF F
<1>4. \A n : IsFiniteSet(part(n)) /\ Cardinality(part(n)) \in Nat
  <2>1. \A n : part(n) \in SUBSET runs
    OBVIOUS
  <2>. HIDE DEF part
  <2>. QED
    BY <1>2, <2>1, FS_Subset, FS_CardinalityType
<1>5. 0 \in K
  <2>1. F[0] = 0 /\ 0 \in 0 .. N
    BY <1>1, <1>3 DEF CountTo
  <2>. DEFINE c == Cardinality(part(0))
  <2>2. c \in Nat
    BY <1>4
  <2>. HIDE DEF c
  <2>3. 0 <= AuditSpan * c
    BY <1>1, <2>2
  <2>. QED
    BY <2>1, <2>3 DEF c
<1>6. ASSUME NEW k \in K, k < N PROVE k + 1 \in K
  <2>. DEFINE m == k + 1
              c == Cardinality(part(k))
              d == Cardinality(part(m))
              f == Hit(js, runs, m)
  <2>1. m \in 1 .. N /\ m - 1 = k /\ m \in 0 .. N /\ k \in 0 .. N /\ k \in Nat
    BY <1>1, <1>6
  <2>2. F[m] = F[k] + f /\ F[k] \in Nat /\ F[k] <= AuditSpan * c /\ f \in Nat /\ f <= AuditSpan
    <3>1. f \in Nat /\ f <= AuditSpan
      BY <2>1, HitIs
    <3>2. F[k] <= AuditSpan * c
      BY <1>6
    <3>. HIDE DEF f, c
    <3>. QED
      BY <1>3, <2>1, <3>1, <3>2 DEF CountTo, f
  <2>3. CASE m \in runs
    <3>1. part(m) = part(k) \cup {m} /\ m \notin part(k)
      <4>1. /\ \A i \in runs : i <= m <=> i <= k \/ i = m
            /\ m <= m /\ ~(m <= k)
        BY <2>1
      <4>2. \A i : i \in part(m) <=> i \in part(k) \cup {m}
        <5>. HIDE DEF m
        <5>. QED
          BY <2>3, <4>1
      <4>3. m \notin part(k)
        <5>. HIDE DEF m
        <5>. QED
          BY <4>1
      <4>. QED
        <5>. HIDE DEF m, part
        <5>. QED
          BY <4>2, <4>3
    <3>. HIDE DEF part, m
    <3>2. d = c + 1 /\ c \in Nat
      BY <1>4, <3>1, FS_AddElement
    <3>. HIDE DEF c, d, f
    <3>3. AuditSpan * d = AuditSpan * c + AuditSpan /\ AuditSpan * c \in Nat
      BY <1>1, <3>2
    <3>4. F[m] <= AuditSpan * d
      BY <1>1, <2>2, <3>3
    <3>. QED
      BY <2>1, <3>4 DEF d, m
  <2>4. CASE m \notin runs
    <3>1. part(m) = part(k)
      <4>1. \A i \in runs : i <= m <=> i <= k
        BY <2>1, <2>4
      <4>. QED
        BY <4>1
    <3>2. f = 0
      BY <2>4 DEF Hit
    <3>. HIDE DEF part, f, m
    <3>3. F[m] <= AuditSpan * d
      BY <2>2, <3>1, <3>2
    <3>. HIDE DEF d
    <3>. QED
      BY <2>1, <3>3 DEF d, m
  <2>. QED
    BY <2>3, <2>4
<1>7. K = 0 .. N
  <2>1. K \in SUBSET (0 .. N)
    OBVIOUS
  <2>. HIDE DEF K, N
  <2>. QED
    BY <1>1, <1>5, <1>6, <2>1, UpTo
<1>8. part(N) = runs /\ N \in 0 .. N
  <2>1. \A i \in runs : i <= N
    BY <1>1
  <2>2. N \in 0 .. N
    BY <1>1
  <2>. HIDE DEF N
  <2>. QED
    BY <2>1, <2>2
<1>9. F[N] <= AuditSpan * Cardinality(runs)
  <2>. HIDE DEF part
  <2>. QED
    BY <1>7, <1>8
<1>. QED
  BY <1>2, <1>9, TallyIs DEF F

(* A side without hits has none in any of its runs.                           *)
LEMMA TallyZero ==
    ASSUME NEW js \in Seq(Run1), NEW runs, Tally(js, runs) = 0
    PROVE  \A n \in 1 .. Len(js) : n \in runs => js[n].hits = 0
<1>. DEFINE N == Len(js)
            F == Counts(js, runs)
            K == {n \in 0 .. N : F[n] = 0 => \A i \in 1 .. n : Hit(js, runs, i) = 0}
<1>1. N \in Nat
  OBVIOUS
<1>2. CountTo(F, js, runs, N)
  BY CountsMeans
<1>3. F[N] = 0
  BY TallyIs
<1>. HIDE DEF F
<1>4. K = 0 .. N
  <2>1. K \in SUBSET (0 .. N) /\ 0 \in K
    BY <1>1
  <2>2. ASSUME NEW k \in K, k < N PROVE k + 1 \in K
    <3>. DEFINE m == k + 1
    <3>1. m \in 1 .. N /\ m - 1 = k /\ m \in 0 .. N /\ k \in 0 .. N
          /\ \A i \in 1 .. m : i \in 1 .. k \/ i = m
      BY <1>1, <2>2
    <3>. HIDE DEF m
    <3>2. Hit(js, runs, m) \in Nat
      BY <3>1, HitIs
    <3>3. F[m] = F[k] + Hit(js, runs, m) /\ F[k] \in Nat
      BY <1>2, <3>1 DEF CountTo
    <3>4. F[m] = 0 => F[k] = 0 /\ Hit(js, runs, m) = 0
      BY <3>2, <3>3
    <3>5. F[k] = 0 => \A i \in 1 .. k : Hit(js, runs, i) = 0
      BY <2>2
    <3>6. F[m] = 0 => \A i \in 1 .. m : Hit(js, runs, i) = 0
      BY <3>1, <3>4, <3>5
    <3>. QED
      BY <3>1, <3>6 DEF m
  <2>. HIDE DEF K, N
  <2>. QED
    BY <1>1, <2>1, <2>2, UpTo
<1>5. \A i \in 1 .. N : Hit(js, runs, i) = 0
  <2>1. N \in K
    BY <1>1, <1>4
  <2>. QED
    BY <1>3, <2>1
<1>. QED
  BY <1>5 DEF Hit

(* One factor of a product that is not smaller.                               *)
LEMMA Factor ==
    ASSUME NEW x \in Nat, NEW y \in Nat, NEW n \in Nat, n > 0, x * n >= y * n
    PROVE  x >= y
<1>. SUFFICES ASSUME x < y PROVE FALSE
  OBVIOUS
<1>1. PICK d \in Nat : y = x + d /\ d > 0
  <2>1. y - x \in Nat /\ y - x > 0
    OBVIOUS
  <2>2. y = x + (y - x)
    OBVIOUS
  <2>. QED
    BY <2>1, <2>2
<1>2. (x + d) * n = x * n + d * n
  BY <1>1
<1>3. d * n > 0
  BY <1>1
<1>4. x * n \in Nat /\ d * n \in Nat
  BY <1>1
<1>. DEFINE xn == x * n
            dn == d * n
<1>. HIDE DEF xn, dn
<1>5. ~(xn >= xn + dn)
  BY <1>3, <1>4 DEF xn, dn
<1>. QED
  BY <1>1, <1>2, <1>5 DEF xn, dn

(* Rates a/n of the later runs and b/m of the earlier ones, and one later run *)
(* more: without the failure, or having it h times.                           *)
LEMMA Rates ==
    ASSUME NEW a \in Nat, NEW b \in Nat, NEW m \in Nat, NEW n \in Nat, NEW h \in Nat
    PROVE  /\ a * m < b * n => a * m < b * (n + 1)
           /\ ~(a * m < b * n) /\ n > 0 /\ h * n >= a => ~((a + h) * m < b * (n + 1))
<1>1. b * (n + 1) = b * n + b /\ (a + h) * m = a * m + h * m
  OBVIOUS
<1>2. a * m \in Nat /\ b * n \in Nat /\ h * m \in Nat
  OBVIOUS
<1>3. ASSUME ~(a * m < b * n), n > 0, h * n >= a PROVE b <= h * m
  <2>1. PICK d \in Nat : h * n = a + d
    <3>1. h * n \in Nat
      OBVIOUS
    <3>. DEFINE hn == h * n
    <3>. HIDE DEF hn
    <3>2. hn - a \in Nat /\ hn = a + (hn - a)
      BY <1>3, <3>1 DEF hn
    <3>. QED
      BY <3>2 DEF hn
  <2>2. (h * m) * n = (h * n) * m
    OBVIOUS
  <2>3. (a + d) * m = a * m + d * m /\ d * m \in Nat
    BY <2>1
  <2>4. (h * m) * n = a * m + d * m
    BY <2>1, <2>2, <2>3
  <2>5. (h * m) * n >= b * n
    <3>. DEFINE am == a * m
                bn == b * n
                dm == d * m
                hmn == (h * m) * n
    <3>. HIDE DEF am, bn, dm, hmn
    <3>. QED
      BY <1>2, <1>3, <2>3, <2>4 DEF am, bn, dm, hmn
  <2>. DEFINE x == h * m
  <2>6. x \in Nat /\ x * n >= b * n
    BY <1>2, <2>5
  <2>. HIDE DEF x
  <2>7. x >= b
    BY <1>3, <2>6, Factor
  <2>. QED
    BY <2>6, <2>7 DEF x
<1>. DEFINE am == a * m
            bn == b * n
            hm == h * m
<1>. HIDE DEF am, bn, hm
<1>4. /\ am < bn => am < bn + b
      /\ ~(am < bn) /\ b <= hm => ~(am + hm < bn + b)
  BY <1>2 DEF am, bn, hm
<1>5. am < bn => a * m < b * (n + 1)
  BY <1>1, <1>4 DEF am, bn, hm
<1>6. ~(am < bn) /\ n > 0 /\ h * n >= a => ~((a + h) * m < b * (n + 1))
  BY <1>1, <1>3, <1>4 DEF am, bn, hm
<1>. QED
  BY <1>5, <1>6 DEF am, bn

(* The numbers an audit compares, and what one more run after the mint does   *)
(* to them.                                                                   *)
Before(js, minted) == DOMAIN js \ Later(js, minted)

Verdict(a, m, b, n) ==
    IF n = 0 THEN "pending"
    ELSE IF a = 0 THEN "kept"
    ELSE IF a * m < b * n THEN "improving" ELSE "review"

LEMMA VerdictIs ==
    ASSUME NEW js, NEW minted
    PROVE  audit_verdict(js, minted) =
              Verdict(Tally(js, Later(js, minted)), Len(js) - Cardinality(Later(js, minted)),
                      Tally(js, Before(js, minted)), Cardinality(Later(js, minted)))
BY DEF audit_verdict, Verdict, Before

LEMMA AuditNumbers ==
    ASSUME NEW js \in Seq(Run1), NEW minted \in Nat
    PROVE  /\ Later(js, minted) \in SUBSET (1 .. Len(js))
           /\ Before(js, minted) \in SUBSET (1 .. Len(js))
           /\ Tally(js, Later(js, minted)) \in Nat /\ Tally(js, Before(js, minted)) \in Nat
           /\ Cardinality(Later(js, minted)) \in Nat
           /\ Len(js) - Cardinality(Later(js, minted)) \in Nat
           /\ Tally(js, Before(js, minted)) <=
                 AuditSpan * (Len(js) - Cardinality(Later(js, minted)))
<1>. DEFINE L == Later(js, minted)
            B == Before(js, minted)
            N == Len(js)
<1>1. DOMAIN js = 1 .. N /\ N \in Nat
  OBVIOUS
<1>2. L \in SUBSET (1 .. N) /\ B = (1 .. N) \ L /\ B \in SUBSET (1 .. N)
  BY <1>1 DEF Later, Before
<1>. HIDE DEF L, B
<1>3. IsFiniteSet(1 .. N) /\ Cardinality(1 .. N) = N
  <2>. HIDE DEF N
  <2>. QED
    BY <1>1, FS_Interval, SMTT(30)
<1>4. /\ IsFiniteSet(L) /\ Cardinality(L) \in Nat
      /\ IsFiniteSet(B) /\ Cardinality(B) \in Nat
      /\ Tally(js, B) <= AuditSpan * Cardinality(B)
  BY <1>2, TallyBound
<1>5. Cardinality(B) = N - Cardinality(L)
  <2>1. (1 .. N) \cap L = L
    BY <1>2
  <2>2. Cardinality((1 .. N) \ L) = Cardinality(1 .. N) - Cardinality((1 .. N) \cap L)
    BY <1>3, FS_Difference
  <2>. QED
    BY <1>2, <1>3, <2>1, <2>2
<1>6. Tally(js, L) \in Nat /\ Tally(js, B) \in Nat
  <2>1. \A runs : CountTo(Counts(js, runs), js, runs, N)
    BY CountsMeans
  <2>2. N \in 0 .. N
    BY <1>1
  <2>. QED
    BY <2>1, <2>2, TallyIs DEF CountTo
<1>. QED
  BY <1>2, <1>4, <1>5, <1>6 DEF L, B

LEMMA OneRunLater ==
    ASSUME NEW js \in Seq(Run1), NEW minted \in Nat, NEW e \in Run1, e.finished = minted + 1
    PROVE  /\ Append(js, e) \in Seq(Run1) /\ Len(Append(js, e)) = Len(js) + 1
           /\ Cardinality(Later(Append(js, e), minted)) = Cardinality(Later(js, minted)) + 1
           /\ Tally(Append(js, e), Later(Append(js, e), minted)) =
                 Tally(js, Later(js, minted)) + e.hits
           /\ Tally(Append(js, e), Before(Append(js, e), minted)) =
                 Tally(js, Before(js, minted))
<1>. DEFINE N == Len(js)
            ks == Append(js, e)
            L == Later(js, minted)
            M == Later(ks, minted)
            B == Before(js, minted)
            C == Before(ks, minted)
<1>1. N \in Nat /\ Len(ks) = N + 1 /\ ks \in Seq(Run1) /\ ks[N + 1] = e
      /\ (\A n \in 1 .. N : ks[n] = js[n]) /\ DOMAIN ks = 1 .. N + 1 /\ DOMAIN js = 1 .. N
  OBVIOUS
<1>2. \A n \in 1 .. N + 1 : n \in 1 .. N \/ n = N + 1
  BY <1>1
<1>3. /\ N + 1 \in 1 .. N + 1 /\ N + 1 \notin 1 .. N /\ minted + 1 > minted
      /\ \A n \in 1 .. N : n \in 1 .. N + 1
  BY <1>1
<1>. HIDE DEF ks, N
<1>4. L \in SUBSET (1 .. N) /\ M = L \cup {N + 1} /\ B = (1 .. N) \ L /\ C = (1 .. N + 1) \ M
  BY <1>1, <1>2, <1>3 DEF Later, Before
<1>. HIDE DEF L, M, B, C
<1>5. IsFiniteSet(L)
  <2>1. IsFiniteSet(1 .. N)
    BY <1>1, FS_Interval
  <2>. QED
    BY <1>4, <2>1, FS_Subset
<1>6. Cardinality(M) = Cardinality(L) + 1
  BY <1>3, <1>4, <1>5, FS_AddElement
<1>7. Tally(ks, M) = Tally(js, L) + e.hits
  <2>1. \A n \in 1 .. Len(js) : n \in M <=> n \in L
    BY <1>3, <1>4 DEF N
  <2>2. Len(js) + 1 \in M
    BY <1>4 DEF N
  <2>. QED
    BY <2>1, <2>2, TallyAppend DEF ks
<1>8. Tally(ks, C) = Tally(js, B)
  <2>1. \A n \in 1 .. Len(js) : n \in C <=> n \in B
    BY <1>3, <1>4 DEF N
  <2>2. Len(js) + 1 \notin C
    BY <1>4 DEF N
  <2>3. Tally(ks, C) = Tally(js, B) + 0 /\ Tally(js, B) \in Nat
    BY <2>1, <2>2, TallyAppend DEF ks
  <2>. QED
    BY <2>3
<1>. QED
  BY <1>1, <1>6, <1>7, <1>8 DEF ks, N, L, M, B, C

(* A later run without the failure never turns the audit's verdict for the    *)
(* worse; one that has it at least as often as the later runs before it on    *)
(* average never turns "review" for the better; and "kept" means that no      *)
(* later run had it (audit_command), for journals of any length and hits.     *)
THEOREM AuditIsMonotone == Spec => []AuditMonotone
<1>1. AuditMonotone
  <2>. SUFFICES ASSUME NEW js \in Journals, NEW minted \in 0..(AuditSpan - 1)
                PROVE  LET v     == audit_verdict(js, minted)
                           later == Later(js, minted)
                           with(h) == audit_verdict(Append(js, [finished |-> minted + 1, hits |-> h]), minted)
                       IN  /\ v \in {"kept", "improving"} => with(0) = v
                           /\ with(0) # "pending"
                           /\ \A h \in 1..AuditSpan :
                                 /\ with(h) # "kept"
                                 /\ v = "review" /\ h * Cardinality(later) >= Tally(js, later)
                                    => with(h) = "review"
                           /\ v = "kept" => \A i \in later : js[i].hits = 0
    BY DEF AuditMonotone
  <2>1. js \in Seq(Run1)
    <3>1. js \in UNION {[1 .. l -> Run1] : l \in 0 .. AuditSpan}
      BY DEF Journals, BoundedSeq, SeqOf, Run1
    <3>2. PICK l \in 0 .. AuditSpan : js \in [1 .. l -> Run1]
      BY <3>1
    <3>3. l \in Nat
      BY Bounds
    <3>. QED
      BY <3>2, <3>3
  <2>. DEFINE e(h) == [finished |-> minted + 1, hits |-> h]
              a == Tally(js, Later(js, minted))
              b == Tally(js, Before(js, minted))
              n == Cardinality(Later(js, minted))
              m == Len(js) - n
  <2>2. /\ minted \in Nat /\ AuditSpan \in Nat
        /\ \A h \in 0 .. AuditSpan : e(h) \in Run1 /\ e(h).finished = minted + 1 /\ e(h).hits = h
    BY Bounds DEF Run1
  <2>. HIDE DEF e
  <2>3. a \in Nat /\ b \in Nat /\ n \in Nat /\ m \in Nat /\ Len(js) \in Nat
    <3>1. a \in Nat /\ b \in Nat /\ n \in Nat /\ m \in Nat
      <4>. HIDE DEF Run1
      <4>. QED
        BY <2>1, <2>2, AuditNumbers
    <3>2. Len(js) \in Nat
      BY <2>1
    <3>. QED
      BY <3>1, <3>2
  <2>4. audit_verdict(js, minted) = Verdict(a, m, b, n)
    BY VerdictIs
  <2>5. ASSUME NEW h \in 0 .. AuditSpan
        PROVE  audit_verdict(Append(js, e(h)), minted) = Verdict(a + h, m, b, n + 1)
    <3>. DEFINE k == Append(js, e(h))
    <3>1. e(h) \in Run1 /\ e(h).finished = minted + 1 /\ e(h).hits = h
      BY <2>2
    <3>2. /\ Len(k) = Len(js) + 1 /\ Cardinality(Later(k, minted)) = n + 1
          /\ Tally(k, Later(k, minted)) = a + h /\ Tally(k, Before(k, minted)) = b
      BY <2>1, <2>2, <3>1, OneRunLater
    <3>3. audit_verdict(k, minted) =
             Verdict(Tally(k, Later(k, minted)), Len(k) - Cardinality(Later(k, minted)),
                     Tally(k, Before(k, minted)), Cardinality(Later(k, minted)))
      BY VerdictIs
    <3>. HIDE DEF k, a, b, n
    <3>4. (Len(js) + 1) - (n + 1) = m
      BY <2>3
    <3>. QED
      BY <3>2, <3>3, <3>4 DEF k
  <2>6. a = 0 => \A i \in Later(js, minted) : js[i].hits = 0
    <3>1. a = 0 => \A i \in 1 .. Len(js) : i \in Later(js, minted) => js[i].hits = 0
      BY <2>1, TallyZero
    <3>. QED
      BY <2>1, <3>1 DEF Later
  <2>. HIDE DEF a, b, m, n
  <2>7. \A h \in 0 .. AuditSpan :
          /\ a * m < b * n => a * m < b * (n + 1)
          /\ ~(a * m < b * n) /\ n > 0 /\ h * n >= a => ~((a + h) * m < b * (n + 1))
          /\ n + 1 # 0 /\ (h > 0 => a + h # 0) /\ a + 0 = a /\ (n # 0 => n > 0)
    BY <2>2, <2>3, Rates
  <2>. DEFINE v == Verdict(a, m, b, n)
              with(h) == Verdict(a + h, m, b, n + 1)
  <2>8. 0 \in 0 .. AuditSpan /\ \A h \in 1 .. AuditSpan : h \in 0 .. AuditSpan /\ h > 0
    BY <2>2
  <2>9. /\ v \in {"kept", "improving"} => with(0) = v
        /\ with(0) # "pending"
        /\ v = "kept" => a = 0
    <3>1. with(0) = Verdict(a, m, b, n + 1)
      BY <2>7, <2>8
    <3>2. /\ a * m < b * n => a * m < b * (n + 1)
          /\ n + 1 # 0
      BY <2>7, <2>8
    <3>. QED
      BY <3>1, <3>2 DEF Verdict
  <2>10. ASSUME NEW h \in 1 .. AuditSpan
         PROVE  with(h) # "kept" /\ (v = "review" /\ h * n >= a => with(h) = "review")
    <3>1. /\ ~(a * m < b * n) /\ n > 0 /\ h * n >= a => ~((a + h) * m < b * (n + 1))
          /\ n + 1 # 0 /\ a + h # 0 /\ (n # 0 => n > 0)
      BY <2>7, <2>8
    <3>. QED
      BY <3>1 DEF Verdict
  <2>. HIDE DEF v, with
  <2>11. \A h \in 0 .. AuditSpan : audit_verdict(Append(js, e(h)), minted) = with(h)
    BY <2>5 DEF with
  <2>. QED
    BY <2>4, <2>6, <2>8, <2>9, <2>10, <2>11 DEF v, n, a, e
<1>. QED
  BY <1>1, PTL

=============================================================================
