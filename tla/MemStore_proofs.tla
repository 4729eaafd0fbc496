--------------------------- MODULE MemStore_proofs --------------------------
(***************************************************************************)
(* Proofs about MemStore, for every set of slugs, descriptions, processes   *)
(* and every capacity.                                                      *)
(***************************************************************************)
EXTENDS MemStore, FiniteSetTheorems, SequenceTheorems, TLAPS

-----------------------------------------------------------------------------
(* Ranks. A numbering of a finite set by different numbers up to its size     *)
(* leaves no number out.                                                      *)
LEMMA Numbering ==
    ASSUME NEW S, IsFiniteSet(S), NEW r \in [S -> 1 .. Cardinality(S)],
           \A s, t \in S : r[s] = r[t] => s = t
    PROVE  \A i \in 1 .. Cardinality(S) : \E s \in S : r[s] = i
<1>. DEFINE n == Cardinality(S)
<1>1. n \in Nat
  BY FS_CardinalityType
<1>2. IsFiniteSet(1 .. n) /\ Cardinality(1 .. n) = n
  BY <1>1, FS_Interval
<1>3. r \in Injection(S, 1 .. n)
  BY DEF Injection, IsInjective
<1>4. r \in Surjection(S, 1 .. n)
  BY <1>2, <1>3, FS_Injection
<1>. QED
  BY <1>4 DEF Surjection

(* B[s] is what comes before s in a strict linear order of S; the rank of s   *)
(* is one more than their number.                                             *)
Linear(S, B) ==
    /\ B \in [S -> SUBSET S]
    /\ \A s \in S : s \notin B[s] /\ \A t \in B[s] : B[t] \subseteq B[s]
    /\ \A s, t \in S : s # t => s \in B[t] \/ t \in B[s]

Ranked(S, B, r) ==
    /\ r \in [S -> 1 .. Cardinality(S)]
    /\ \A s, t \in S : t \in B[s] <=> r[t] < r[s]
    /\ \A s, t \in S : r[s] = r[t] => s = t
    /\ \A i \in 1 .. Cardinality(S) : \E s \in S : r[s] = i

LEMMA Ranking ==
    ASSUME NEW S, IsFiniteSet(S), NEW B, Linear(S, B),
           NEW r, r = [s \in S |-> 1 + Cardinality(B[s])]
    PROVE  Ranked(S, B, r)
<1>1. ASSUME NEW s \in S
      PROVE  /\ B[s] \subseteq S /\ IsFiniteSet(B[s])
             /\ Cardinality(B[s]) \in Nat /\ Cardinality(S) \in Nat
  BY FS_Subset, FS_CardinalityType DEF Linear
<1>2. ASSUME NEW s \in S, NEW T \in SUBSET S, B[s] \subseteq T, s \in T
      PROVE  Cardinality(B[s]) + 1 <= Cardinality(T)
  <2>1. IsFiniteSet(T) /\ Cardinality(T) \in Nat
    BY FS_Subset, FS_CardinalityType
  <2>2. B[s] \subseteq T \ {s}
    BY <1>2 DEF Linear
  <2>3. IsFiniteSet(T \ {s}) /\ Cardinality(T \ {s}) = Cardinality(T) - 1
    BY <1>2, <2>1, FS_RemoveElement
  <2>4. Cardinality(B[s]) <= Cardinality(T \ {s})
    BY <2>2, <2>3, FS_Subset
  <2>. QED
    BY <1>1, <2>1, <2>3, <2>4
<1>3. r \in [S -> 1 .. Cardinality(S)]
  <2>1. ASSUME NEW s \in S PROVE 1 + Cardinality(B[s]) \in 1 .. Cardinality(S)
    BY <1>1, <1>2
  <2>. QED
    BY <2>1
<1>4. ASSUME NEW s \in S, NEW t \in S, t \in B[s]
      PROVE  r[t] < r[s]
  <2>1. B[t] \subseteq B[s] /\ B[s] \subseteq S
    BY <1>1, <1>4 DEF Linear
  <2>2. Cardinality(B[t]) + 1 <= Cardinality(B[s])
    BY <1>2, <1>4, <2>1
  <2>. QED
    BY <1>1, <2>2
<1>5. ASSUME NEW s \in S, NEW t \in S, r[t] < r[s]
      PROVE  t \in B[s]
  <2>1. r[s] \in Int /\ r[t] \in Int
    BY <1>3
  <2>2. s # t /\ s \notin B[t]
    BY <1>4, <1>5, <2>1
  <2>. QED
    BY <2>2 DEF Linear
<1>6. ASSUME NEW s \in S, NEW t \in S, r[s] = r[t], s # t
      PROVE  FALSE
  <2>1. r[s] \in Int /\ r[t] \in Int
    BY <1>3
  <2>2. r[s] < r[t] \/ r[t] < r[s]
    BY <1>4, <1>6 DEF Linear
  <2>. QED
    BY <1>6, <2>1, <2>2
<1>7. \A s, t \in S : r[s] = r[t] => s = t
  BY <1>6
<1>8. \A i \in 1 .. Cardinality(S) : \E s \in S : r[s] = i
  BY <1>3, <1>7, Numbering
<1>. QED
  BY <1>3, <1>4, <1>5, <1>7, <1>8 DEF Ranked

(* entry_before orders the files of a scan (entry_before, collect_by_recency). *)
Earlier(f, S) == [s \in S |-> {t \in S : entry_before(f, t, s)}]

LEMMA ScanFinite ==
    ASSUME NEW S \in SUBSET Slugs
    PROVE  IsFiniteSet(S) /\ Cardinality(S) \in Nat
BY StoreAssumption, FS_Subset, FS_CardinalityType

LEMMA EarlierLinear ==
    ASSUME NEW f \in Files, NEW S \in SUBSET Slugs
    PROVE  Linear(S, Earlier(f, S))
<1>1. \A s \in S : s \in Nat /\ f[s].upd \in Nat
  BY StoreAssumption DEF Files
<1>2. \A s, t, u \in S : /\ ~entry_before(f, s, s)
                         /\ s # t => entry_before(f, s, t) \/ entry_before(f, t, s)
                         /\ entry_before(f, s, t) /\ entry_before(f, t, u)
                               => entry_before(f, s, u)
  BY <1>1 DEF entry_before
<1>. QED
  BY <1>2 DEF Linear, Earlier

LEMMA Ranks ==
    ASSUME NEW f \in Files, NEW S \in SUBSET Slugs
    PROVE  /\ \A s \in S : Rank(f, S, s) \in 1 .. Cardinality(S)
           /\ \A s, t \in S : entry_before(f, t, s) <=> Rank(f, S, t) < Rank(f, S, s)
           /\ \A s, t \in S : Rank(f, S, s) = Rank(f, S, t) => s = t
           /\ \A i \in 1 .. Cardinality(S) : \E s \in S : Rank(f, S, s) = i
<1>. DEFINE B == Earlier(f, S)
            r == [s \in S |-> 1 + Cardinality(B[s])]
<1>1. \A s \in S : r[s] = Rank(f, S, s)
  BY DEF Rank, Earlier
<1>2. Ranked(S, B, r)
  <2>1. IsFiniteSet(S) /\ Linear(S, B)
    BY ScanFinite, EarlierLinear
  <2>2. r = [s \in S |-> 1 + Cardinality(B[s])]
    OBVIOUS
  <2>. HIDE DEF r, B
  <2>. QED
    BY <2>1, <2>2, Ranking, Zenon
<1>3. \A s, t \in S : t \in B[s] <=> entry_before(f, t, s)
  BY DEF Earlier
<1>. HIDE DEF r, B
<1>. QED
  BY <1>1, <1>2, <1>3 DEF Ranked

(* What a scan lists: every file once, at its rank (collect_by_recency's      *)
(* insertion keeps the entries sorted).                                       *)
Collection(C, f, S) ==
    /\ C \in Seq([slug : Slugs, desc : Descs \cup {NoDesc}])
    /\ Len(C) = Cardinality(S)
    /\ \A i \in 1 .. Cardinality(S) :
          /\ C[i].slug \in S /\ Rank(f, S, C[i].slug) = i
          /\ C[i] = [slug |-> C[i].slug, desc |-> f[C[i].slug].desc]
    /\ \A s \in S : C[Rank(f, S, s)].slug = s

LEMMA Collected ==
    ASSUME NEW f \in Files, NEW S \in SUBSET Slugs
    PROVE  Collection(collect_by_recency(f, S), f, S)
<1>. DEFINE C == collect_by_recency(f, S)
            n == Cardinality(S)
            at(i) == CHOOSE s \in S : Rank(f, S, s) = i
            line(s) == [slug |-> s, desc |-> f[s].desc]
<1>1. n \in Nat
  BY ScanFinite
<1>2. C = [i \in 1 .. n |-> line(at(i))]
  BY DEF collect_by_recency
<1>3. \A i \in 1 .. n : at(i) \in S /\ Rank(f, S, at(i)) = i
  BY Ranks
<1>4. \A s \in S : /\ line(s) \in [slug : Slugs, desc : Descs \cup {NoDesc}]
                   /\ line(s).slug = s /\ line(s).desc = f[s].desc
  BY DEF Files
<1>5. \A s \in S : Rank(f, S, s) \in 1 .. n /\ at(Rank(f, S, s)) = s
  BY Ranks, <1>3
<1>. HIDE DEF n, at, line, C
<1>6. C \in Seq([slug : Slugs, desc : Descs \cup {NoDesc}]) /\ Len(C) = n
  BY <1>1, <1>2, <1>3, <1>4
<1>7. \A i \in 1 .. n : C[i] = line(at(i)) /\ C[i].slug = at(i)
  BY <1>2, <1>3, <1>4
<1>8. Collection(C, f, S)
  BY <1>3, <1>5, <1>6, <1>7 DEF n, line, Collection
<1>. QED
  BY <1>8 DEF C

LEMMA MinPair ==
    ASSUME NEW a \in Nat, NEW b \in Nat
    PROVE  Min({a, b}) = IF a <= b THEN a ELSE b
<1>1. \E x \in {a, b} : \A y \in {a, b} : x =< y
  OBVIOUS
<1>2. /\ Min({a, b}) \in {a, b} /\ \A y \in {a, b} : Min({a, b}) =< y
  BY <1>1 DEF Min
<1>. QED
  BY <1>2

LEMMA PresentFinite ==
    ASSUME NEW f \in Files
    PROVE  /\ Present(f) \in SUBSET Slugs /\ IsFiniteSet(Present(f))
           /\ Cardinality(Present(f)) \in Nat
           /\ \A s \in Present(f) : f[s].desc \in Descs
<1>1. Present(f) \in SUBSET Slugs /\ \A s \in Present(f) : f[s].desc \in Descs
  BY DEF Present, Files
<1>. QED
  BY <1>1, ScanFinite

LEMMA ScanFacts ==
    ASSUME NEW f \in Files, NEW S \in Scans(f)
    PROVE  /\ S \in SUBSET Slugs /\ S \subseteq Present(f)
           /\ IsFiniteSet(S) /\ Cardinality(S) \in Nat
           /\ Cardinality(S) <= MaxFiles
<1>1. S \subseteq Present(f) /\ Cardinality(S) <= MaxFiles
  BY DEF Scans
<1>2. S \in SUBSET Slugs /\ IsFiniteSet(S) /\ Cardinality(S) \in Nat
  BY <1>1, PresentFinite, ScanFinite
<1>. QED
  BY <1>1, <1>2

(* What is read of the files found: the files themselves, some without        *)
(* description (read_meta).                                                   *)
LEMMA ReadingFacts ==
    ASSUME NEW f \in Files, NEW S \in Scans(f), NEW g \in Readings(f, S)
    PROVE  /\ g \in Files /\ S \in Scans(g)
           /\ \A s \in S : g[s].desc \in {f[s].desc, NoText}
<1>1. PICK U \in SUBSET S : g = [s \in Slugs |-> IF s \in U THEN Unread ELSE f[s]]
  BY DEF Readings
<1>2. S \in SUBSET Slugs /\ S \subseteq Present(f)
  BY ScanFacts
<1>3. Unread \in [desc : Descs \cup {NoDesc}, upd : Nat]
      /\ Unread.desc = NoText /\ NoText # NoDesc
  BY StoreAssumption DEF Unread
<1>4. g \in Files
  BY <1>1, <1>3 DEF Files
<1>5. \A s \in S : g[s].desc \in {f[s].desc, NoText}
  BY <1>1, <1>2, <1>3
<1>6. S \subseteq Present(g)
  BY <1>2, <1>3, <1>5 DEF Present
<1>7. S \in Scans(g)
  BY <1>6 DEF Scans
<1>. QED
  BY <1>4, <1>5, <1>7

(* A scan that missed nothing of a directory within its capacity.             *)
LEMMA ClearFacts ==
    ASSUME NEW f \in Files, NEW S \in Scans(f), NEW g, Clear(f, S, g),
           Cardinality(Present(f)) <= MaxFiles
    PROVE  g = f /\ S = Present(f)
<1>1. /\ MaxFiles \in Nat /\ Cardinality(Present(f)) \in Nat
  BY PresentFinite, StoreAssumption
<1>2. g = f /\ Cardinality(S) = Min({MaxFiles, Cardinality(Present(f))})
  BY DEF Clear
<1>3. Cardinality(S) = Cardinality(Present(f))
  BY <1>1, <1>2, MinPair
<1>4. S \subseteq Present(f) /\ IsFiniteSet(Present(f))
  BY PresentFinite, ScanFacts
<1>. QED
  BY <1>2, <1>3, <1>4, FS_Subset

(* The counter of a save is above every file of its scan (entries[0] holds    *)
(* the maximum).                                                              *)
LEMMA TopFacts ==
    ASSUME NEW f \in Files, NEW S \in SUBSET Slugs
    PROVE  Top(f, S) \in Nat /\ \A s \in S : f[s].upd <= Top(f, S)
<1>1. CASE S = {}
  BY <1>1 DEF Top
<1>2. CASE S # {}
  <2>. DEFINE U == {f[s].upd : s \in S}
  <2>1. Cardinality(S) \in Nat /\ Cardinality(S) # 0
    BY <1>2, ScanFinite, FS_EmptySet
  <2>2. 1 \in 1 .. Cardinality(S)
    BY <2>1
  <2>3. PICK m \in S : Rank(f, S, m) = 1
    BY <2>2, Ranks
  <2>4. \A s \in S : f[s].upd \in Nat
    BY DEF Files
  <2>5. ASSUME NEW s \in S PROVE f[s].upd <= f[m].upd
    <3>1. ~(Rank(f, S, s) < Rank(f, S, m))
      BY <2>3, Ranks
    <3>2. ~entry_before(f, s, m)
      BY <3>1, Ranks
    <3>. QED
      BY <2>4, <3>2 DEF entry_before
  <2>6. \E x \in U : \A y \in U : x >= y
    BY <2>4, <2>5
  <2>7. Max(U) \in U /\ \A y \in U : Max(U) >= y
    BY <2>6 DEF Max
  <2>8. Top(f, S) = Max(U)
    BY <1>2 DEF Top
  <2>. HIDE DEF Top
  <2>. QED
    BY <2>4, <2>7, <2>8
<1>. QED
  BY <1>1, <1>2

(* Taking a line out of a list leaves a list, shorter by one.                 *)
LEMMA WithoutLines ==
    ASSUME NEW X, NEW lines \in Seq(X), NEW s
    PROVE  Without(lines, s) \in Seq(X)
<1>1. CASE \A i \in DOMAIN lines : lines[i].slug # s
  BY <1>1 DEF Without
<1>2. CASE \E i \in DOMAIN lines : lines[i].slug = s
  <2>. DEFINE k == CHOOSE k \in DOMAIN lines : lines[k].slug = s
  <2>1. k \in DOMAIN lines
    BY <1>2
  <2>2. Without(lines, s) = SubSeq(lines, 1, k - 1)
                               \o SubSeq(lines, k + 1, Len(lines))
    BY <1>2 DEF Without
  <2>. HIDE DEF k
  <2>3. SubSeq(lines, 1, k - 1) \in Seq(X)
        /\ SubSeq(lines, k + 1, Len(lines)) \in Seq(X)
    BY <2>1
  <2>. QED
    BY <2>2, <2>3
<1>. QED
  BY <1>1, <1>2

LEMMA UpsertLines ==
    ASSUME NEW lines \in Lines, NEW s \in Slugs, NEW d \in Descs
    PROVE  Upsert(lines, s, d) \in Lines
<1>. DEFINE l == [slug |-> s, desc |-> d]
            W == Without(lines, s)
<1>1. l \in [slug : Slugs, desc : Descs]
  OBVIOUS
<1>2. W \in Seq([slug : Slugs, desc : Descs])
  BY WithoutLines DEF Lines
<1>. HIDE DEF l, W
<1>3. <<l>> \o W \in Seq([slug : Slugs, desc : Descs])
  BY <1>1, <1>2
<1>. QED
  BY <1>3 DEF Upsert, Lines, l, W

LEMMA CollectLines ==
    ASSUME NEW f \in Files, NEW S \in Scans(f)
    PROVE  collect_by_recency(f, S) \in Lines
<1>. DEFINE C == collect_by_recency(f, S)
            X == [slug : Slugs, desc : Descs]
<1>1. S \in SUBSET Slugs /\ S \subseteq Present(f)
  BY ScanFacts
<1>2. Collection(C, f, S)
  BY <1>1, Collected
<1>. HIDE DEF C
<1>3. \A i \in 1 .. Len(C) : C[i] \in X
  BY <1>1, <1>2, PresentFinite DEF Collection
<1>. HIDE DEF X
<1>4. C \in Seq(X)
  BY <1>2, <1>3 DEF Collection
<1>. QED
  BY <1>4 DEF C, X, Lines

(* Lines that name files that are there (OfFiles, of any directory).          *)
Names(C, f) ==
    \A i \in DOMAIN C : /\ C[i].slug \in Present(f)
                        /\ C[i].desc \in {f[C[i].slug].desc, NoText}

LEMMA ScanNames ==
    ASSUME NEW f \in Files, NEW g \in Files, NEW S \in SUBSET Slugs,
           S \subseteq Present(f), \A s \in S : g[s].desc \in {f[s].desc, NoText}
    PROVE  Names(collect_by_recency(g, S), f)
<1>. DEFINE C == collect_by_recency(g, S)
<1>1. Collection(C, g, S)
  BY Collected
<1>. HIDE DEF C
<1>2. DOMAIN C = 1 .. Cardinality(S)
  BY <1>1, ScanFinite DEF Collection
<1>3. \A i \in 1 .. Cardinality(S) : C[i].slug \in S /\ C[i].desc = g[C[i].slug].desc
  <2>1. ASSUME NEW i \in 1 .. Cardinality(S)
        PROVE  C[i].slug \in S /\ C[i].desc = g[C[i].slug].desc
    <3>1. C[i].slug \in S /\ C[i] = [slug |-> C[i].slug, desc |-> g[C[i].slug].desc]
      BY <1>1 DEF Collection
    <3>. QED
      BY <3>1
  <2>. QED
    BY <2>1
<1>4. Names(C, f)
  BY <1>2, <1>3 DEF Names
<1>. QED
  BY <1>4 DEF C

-----------------------------------------------------------------------------
(* Type correctness. An operation that was begun names a slug, a save has a   *)
(* description, a delete has none.                                            *)
Operations == [pc : Pcs, kind : {"none", "save", "delete"},
               slug : Slugs \cup {0}, desc : Descs \cup {NoDesc},
               upd : Nat, lines : Lines, clear : BOOLEAN]

WellFormed(o) ==
    /\ o \in Operations
    /\ o.pc # "idle" => o.slug \in Slugs /\ o.kind \in {"save", "delete"}
    /\ o.pc # "idle" /\ o.kind = "save" => o.desc \in Descs
    /\ o.kind = "delete" => o.desc = NoDesc
    /\ o.pc \in {"write", "rename"} => o.kind = "save"
    /\ o.pc \in {"remove", "rescan"} => o.kind = "delete"

Caches == [valid : BOOLEAN, lines : Lines, more : Nat, clear : BOOLEAN]

Types ==
    /\ files \in Files /\ tmp \in Files
    /\ op \in [Procs -> Operations]
    /\ \A p \in Procs : WellFormed(op[p])
    /\ cache \in [Procs -> Caches]
    /\ ops \in 0 .. MaxOps
    /\ foreign \subseteq Procs /\ alone \subseteq Procs /\ blind \subseteq Slugs

LEMMA IdleWellFormed == WellFormed(Idle)
<1>1. <<>> \in Lines
  BY DEF Lines
<1>. QED
  BY <1>1 DEF WellFormed, Idle, Operations, Pcs

LEMMA OpTypes ==
    ASSUME Types, NEW p \in Procs, NEW o, WellFormed(o),
           op' = [op EXCEPT ![p] = o]
    PROVE  /\ op' \in [Procs -> Operations]
           /\ \A q \in Procs : WellFormed(op'[q])
           /\ op'[p] = o /\ \A q \in Procs : q # p => op'[q] = op[q]
<1>1. o \in Operations
  BY DEF WellFormed
<1>2. op' \in [Procs -> Operations] /\ op'[p] = o
      /\ \A q \in Procs : q # p => op'[q] = op[q]
  BY <1>1 DEF Types
<1>. QED
  BY <1>2 DEF Types

(* A step of the operation of p to another label. *)
LEMMA GotoTypes ==
    ASSUME Types, NEW p \in Procs, NEW pc \in Pcs \ {"idle"},
           op[p].pc # "idle", Goto(p, pc),
           pc \in {"write", "rename"} => op[p].kind = "save",
           pc \in {"remove", "rescan"} => op[p].kind = "delete"
    PROVE  /\ op' \in [Procs -> Operations]
           /\ \A q \in Procs : WellFormed(op'[q])
           /\ op'[p] = [op[p] EXCEPT !.pc = pc]
           /\ \A q \in Procs : q # p => op'[q] = op[q]
<1>. DEFINE o == [op[p] EXCEPT !.pc = pc]
<1>1. WellFormed(op[p]) /\ op[p] \in Operations
  BY DEF Types
<1>2. WellFormed(o)
  BY <1>1 DEF WellFormed, Operations
<1>3. op' = [op EXCEPT ![p] = o]
  BY DEF Types, Goto
<1>. HIDE DEF o
<1>4. /\ op' \in [Procs -> Operations]
      /\ \A q \in Procs : WellFormed(op'[q])
      /\ op'[p] = o /\ \A q \in Procs : q # p => op'[q] = op[q]
  BY <1>2, <1>3, OpTypes
<1>. QED
  BY <1>4 DEF o

LEMMA ReturnTypes ==
    ASSUME Types, NEW p \in Procs, op' = [op EXCEPT ![p] = Idle]
    PROVE  /\ op' \in [Procs -> Operations]
           /\ \A q \in Procs : WellFormed(op'[q])
           /\ op'[p] = Idle
           /\ \A q \in Procs : q # p => op'[q] = op[q]
BY IdleWellFormed, OpTypes, Zenon

(* Every way to begin an operation names a slug the process writes; a save    *)
(* has a description, a delete none.                                          *)
Begins(p) ==
    \E kind \in {"save", "delete"}, s \in Writes[p], d \in Descs \cup {NoDesc} :
        /\ kind = "save" => d \in Descs
        /\ kind = "delete" => d = NoDesc
        /\ Begin(p, kind, s, d)

LEMMA BeginCases ==
    ASSUME NEW p \in Procs,
           \/ spg_mem_save(p) \/ spg_mem_delete(p)
           \/ CommandSave(p) \/ CommandDelete(p) \/ spg_pref_record(p)
    PROVE  Begins(p)
<1>1. \A s \in Writes[p], d \in Descs : Begin(p, "save", s, d) => Begins(p)
  BY Zenon DEF Begins
<1>2. \A s \in Writes[p] : Begin(p, "delete", s, NoDesc) => Begins(p)
  <2>1. NoDesc \in Descs \cup {NoDesc}
    OBVIOUS
  <2>. QED
    BY <2>1, Zenon DEF Begins
<1>. QED
  BY <1>1, <1>2, Zenon
  DEF spg_mem_save, spg_mem_delete, CommandSave, CommandDelete, spg_pref_record

LEMMA BeginTypes ==
    ASSUME Types, NEW p \in Procs, NEW kind \in {"save", "delete"},
           NEW s \in Writes[p], NEW d \in Descs \cup {NoDesc},
           kind = "save" => d \in Descs, kind = "delete" => d = NoDesc,
           Begin(p, kind, s, d)
    PROVE  /\ op' \in [Procs -> Operations]
           /\ \A q \in Procs : WellFormed(op'[q])
           /\ op'[p].pc = "start" /\ op'[p].kind = kind
           /\ op'[p].slug = s /\ op'[p].desc = d
           /\ \A q \in Procs : q # p => op'[q] = op[q]
<1>. DEFINE o == [Idle EXCEPT !.pc = "start", !.kind = kind, !.slug = s, !.desc = d]
<1>1. Idle \in Operations
  BY IdleWellFormed DEF WellFormed
<1>2. s \in Slugs
  BY StoreAssumption
<1>3. /\ WellFormed(o) /\ o.pc = "start" /\ o.kind = kind /\ o.slug = s
      /\ o.desc = d
  BY <1>1, <1>2 DEF WellFormed, Operations, Pcs
<1>4. op' = [op EXCEPT ![p] = o]
  BY DEF Begin
<1>. HIDE DEF o
<1>. QED
  BY <1>3, <1>4, OpTypes

(* The two places where a scan gives the lines of an operation. *)
Scanning(p, n, S, g) ==
    \/ op[p].pc = "start" /\ op[p].kind = "save" /\ ListScan(p, "write", n, S, g)
    \/ op[p].pc = "rescan" /\ ListScan(p, "index", n, S, g)

ScannedTo(p, n, S, g) ==
    /\ op' \in [Procs -> Operations]
    /\ \A q \in Procs : WellFormed(op'[q])
    /\ op'[p].slug = op[p].slug /\ op'[p].desc = op[p].desc /\ op'[p].kind = op[p].kind
    /\ op'[p].lines = collect_by_recency(g, S) /\ op'[p].upd = n
    /\ op'[p].clear = Clear(files, S, g)
    /\ op[p].pc = "start" => op'[p].pc = "write"
    /\ op[p].pc = "rescan" => op'[p].pc = "index"
    /\ \A q \in Procs : q # p => op'[q] = op[q]

LEMMA ScanMoves ==
    ASSUME Types, NEW p \in Procs, NEW S \in Scans(files), NEW g \in Readings(files, S),
           NEW n \in Nat, Scanning(p, n, S, g)
    PROVE  ScannedTo(p, n, S, g)
<1>. DEFINE C == collect_by_recency(g, S)
            c == Clear(files, S, g)
            pc == IF op[p].pc = "start" THEN "write" ELSE "index"
            o == [op[p] EXCEPT !.pc = pc, !.upd = n, !.lines = C, !.clear = c]
<1>1. WellFormed(op[p]) /\ op[p] \in Operations
  BY DEF Types
<1>2. C \in Lines
  BY ReadingFacts, CollectLines DEF Types
<1>3. c \in BOOLEAN
  BY DEF Clear
<1>4. /\ op[p].pc = "start" => pc = "write"
      /\ op[p].pc = "rescan" => pc = "index"
      /\ \/ op[p].pc = "start" /\ op[p].kind = "save"
         \/ op[p].pc = "rescan"
  BY DEF Scanning
<1>5. ListScan(p, pc, n, S, g)
  BY <1>4 DEF Scanning
<1>. HIDE DEF C, c, pc
<1>6. op' = [op EXCEPT ![p] = o]
  BY <1>5 DEF Types, C, c, ListScan
<1>7. /\ WellFormed(o) /\ o.slug = op[p].slug /\ o.desc = op[p].desc
      /\ o.kind = op[p].kind /\ o.lines = C /\ o.upd = n /\ o.clear = c /\ o.pc = pc
  BY <1>1, <1>2, <1>3, <1>4 DEF WellFormed, Operations, Pcs
<1>. HIDE DEF o
<1>8. /\ op' \in [Procs -> Operations]
      /\ \A q \in Procs : WellFormed(op'[q])
      /\ op'[p] = o /\ \A q \in Procs : q # p => op'[q] = op[q]
  BY <1>6, <1>7, OpTypes
<1>. QED
  BY <1>4, <1>7, <1>8 DEF C, c, ScannedTo

LEMMA RenameMoves ==
    ASSUME Types, NEW p \in Procs, op[p].pc = "rename",
           op' = [op EXCEPT ![p].pc = "index",
                            ![p].lines = Upsert(@, op[p].slug, op[p].desc)]
    PROVE  /\ op' \in [Procs -> Operations]
           /\ \A q \in Procs : WellFormed(op'[q])
           /\ op'[p].pc = "index"
           /\ op'[p].slug = op[p].slug /\ op'[p].desc = op[p].desc
           /\ op'[p].kind = op[p].kind /\ op'[p].clear = op[p].clear
           /\ op'[p].lines = Upsert(op[p].lines, op[p].slug, op[p].desc)
           /\ \A q \in Procs : q # p => op'[q] = op[q]
<1>. DEFINE U == Upsert(op[p].lines, op[p].slug, op[p].desc)
            o == [op[p] EXCEPT !.pc = "index", !.lines = U]
<1>1. WellFormed(op[p]) /\ op[p] \in Operations
  BY DEF Types
<1>2. U \in Lines
  <2>1. op[p].lines \in Lines /\ op[p].slug \in Slugs /\ op[p].desc \in Descs
    BY <1>1 DEF WellFormed, Operations
  <2>. QED
    BY <2>1, UpsertLines
<1>. HIDE DEF U
<1>3. op' = [op EXCEPT ![p] = o]
  BY DEF Types, U
<1>4. /\ WellFormed(o) /\ o.slug = op[p].slug /\ o.desc = op[p].desc
      /\ o.kind = op[p].kind /\ o.clear = op[p].clear
      /\ o.lines = U /\ o.pc = "index"
  BY <1>1, <1>2 DEF WellFormed, Operations, Pcs
<1>. HIDE DEF o
<1>5. /\ op' \in [Procs -> Operations]
      /\ \A q \in Procs : WellFormed(op'[q])
      /\ op'[p] = o /\ \A q \in Procs : q # p => op'[q] = op[q]
  BY <1>3, <1>4, OpTypes
<1>. QED
  BY <1>4, <1>5 DEF U

LEMMA CacheTypes ==
    ASSUME Types, NEW p \in Procs, NEW c \in Caches,
           cache' = [cache EXCEPT ![p] = c]
    PROVE  cache' \in [Procs -> Caches]
BY DEF Types

LEMMA ColdTypes == Cold \in Caches /\ Cold.valid = FALSE
BY DEF Cold, Caches, Lines

LEMMA InvalidTypes ==
    ASSUME Types, NEW p \in Procs, cache' = [cache EXCEPT ![p] = Cold]
    PROVE  cache' \in [Procs -> Caches]
BY ColdTypes, CacheTypes

(* What rebuild_index_cache puts in the cache: the first TopK lines of a scan *)
(* and the number of the others.                                              *)
Rebuilt(f, S, g) ==
    [valid |-> TRUE,
     more  |-> IF Cardinality(S) > TopK THEN Cardinality(S) - TopK ELSE 0,
     lines |-> SubSeq(collect_by_recency(g, S), 1, Min({Cardinality(S), TopK})),
     clear |-> Clear(f, S, g)]

LEMMA RebuiltFacts ==
    ASSUME NEW f \in Files, NEW S \in Scans(f), NEW g \in Readings(f, S)
    PROVE  /\ Rebuilt(f, S, g) \in Caches
           /\ Rebuilt(f, S, g).valid
           /\ Rebuilt(f, S, g).clear = Clear(f, S, g)
           /\ Len(Rebuilt(f, S, g).lines) = IF Cardinality(S) <= TopK
                                              THEN Cardinality(S) ELSE TopK
           /\ \A i \in 1 .. Len(Rebuilt(f, S, g).lines) :
                  /\ i \in 1 .. Cardinality(S)
                  /\ Rebuilt(f, S, g).lines[i] = collect_by_recency(g, S)[i]
<1>. DEFINE C == collect_by_recency(g, S)
            n == Cardinality(S)
            m == Min({n, TopK})
            L == SubSeq(C, 1, m)
            r == IF n > TopK THEN n - TopK ELSE 0
            c == Clear(f, S, g)
            X == [slug : Slugs, desc : Descs]
<1>1. n \in Nat /\ TopK \in Nat /\ S \in SUBSET Slugs
  BY ScanFacts, StoreAssumption
<1>2. m = IF n <= TopK THEN n ELSE TopK
  BY <1>1, MinPair
<1>3. C \in Seq(X) /\ Len(C) = n
  BY <1>1, ReadingFacts, CollectLines, Collected DEF Lines, Collection
<1>4. r \in Nat /\ c \in BOOLEAN
  BY <1>1 DEF Clear
<1>5. Rebuilt(f, S, g) = [valid |-> TRUE, more |-> r, lines |-> L, clear |-> c]
  BY DEF Rebuilt
<1>. HIDE DEF C, n, m, r, c, X
<1>6. m \in Nat /\ m <= n
  BY <1>1, <1>2
<1>7. L \in Seq(X) /\ Len(L) = m /\ \A i \in 1 .. m : i \in 1 .. n /\ L[i] = C[i]
  BY <1>1, <1>3, <1>6
<1>. HIDE DEF L
<1>8. L \in Lines
  BY <1>7 DEF Lines, X
<1>. QED
  BY <1>2, <1>4, <1>5, <1>7, <1>8 DEF Caches, n, C, c

LEMMA FileTypes ==
    ASSUME NEW f \in Files, NEW s \in Slugs, NEW d \in Descs \cup {NoDesc},
           NEW n \in Nat
    PROVE  [f EXCEPT ![s] = [desc |-> d, upd |-> n]] \in Files
BY DEF Files

LEMMA AbsentTypes ==
    ASSUME NEW f \in Files, NEW s \in Slugs
    PROVE  [f EXCEPT ![s] = Absent] \in Files
BY FileTypes DEF Absent

LEMMA TypesInit == Init => Types
<1>. SUFFICES ASSUME Init PROVE Types
  OBVIOUS
<1>1. [s \in Slugs |-> Absent] \in Files
  BY DEF Files, Absent
<1>2. files \in Files
  <2>1. {Absent} \cup Kept \subseteq [desc : Descs \cup {NoDesc}, upd : Nat]
    BY StoreAssumption DEF Absent
  <2>. QED
    BY <2>1 DEF Init, Files
<1>3. WellFormed(Idle) /\ Idle \in Operations
  BY IdleWellFormed DEF WellFormed
<1>. QED
  BY <1>1, <1>2, <1>3, ColdTypes, StoreAssumption DEF Init, Types

(* The steps of one process, in groups: the beginning of an operation, what a *)
(* save does, what a delete does, the index and the death of the process.     *)
LEMMA TypesNext == Types /\ [Next]_vars => Types'
<1>. SUFFICES ASSUME Types, [Next]_vars PROVE Types'
  OBVIOUS
<1>. USE DEF At
<1>1. CASE UNCHANGED vars
  BY <1>1 DEF vars, Types
<1>2. ASSUME NEW p \in Procs, Begins(p)
      PROVE  Types'
  <2>1. PICK kind \in {"save", "delete"}, s \in Writes[p], d \in Descs \cup {NoDesc} :
           /\ kind = "save" => d \in Descs
           /\ kind = "delete" => d = NoDesc
           /\ Begin(p, kind, s, d)
    BY <1>2 DEF Begins
  <2>2. /\ op' \in [Procs -> Operations]
        /\ \A q \in Procs : WellFormed(op'[q])
    BY <2>1, BeginTypes
  <2>3. ops' \in 0 .. MaxOps /\ alone' \subseteq Procs
        /\ UNCHANGED <<files, tmp, cache, foreign, blind>>
    BY <2>1, StoreAssumption DEF Begin, Types
  <2>. QED
    BY <2>2, <2>3 DEF Types
<1>3. ASSUME NEW p \in Procs, SaveScan(p)
      PROVE  Types'
  <2>0. PICK S \in Scans(files) : \E g \in Readings(files, S) :
           \/ Return(p) /\ UNCHANGED blind
           \/ /\ ListScan(p, "write", Top(g, S) + 1, S, g)
              /\ blind' = blind \/ blind' = blind \cup {op[p].slug}
    BY <1>3 DEF SaveScan
  <2>1. PICK g \in Readings(files, S) :
           \/ Return(p) /\ UNCHANGED blind
           \/ /\ ListScan(p, "write", Top(g, S) + 1, S, g)
              /\ blind' = blind \/ blind' = blind \cup {op[p].slug}
    BY <2>0
  <2>2. /\ op[p].pc = "start" /\ op[p].kind = "save" /\ op[p].slug \in Slugs
        /\ UNCHANGED <<files, tmp, cache, ops, foreign, alone>>
    BY <1>3 DEF SaveScan, Types, WellFormed
  <2>3. Top(g, S) + 1 \in Nat
    BY ScanFacts, ReadingFacts, TopFacts DEF Types
  <2>4. /\ op' \in [Procs -> Operations]
        /\ \A q \in Procs : WellFormed(op'[q])
    <3>1. CASE Return(p)
      BY <3>1, ReturnTypes DEF Return
    <3>2. CASE ListScan(p, "write", Top(g, S) + 1, S, g)
      <4>. DEFINE n == Top(g, S) + 1
      <4>1. n \in Nat /\ Scanning(p, n, S, g)
        BY <2>2, <2>3, <3>2 DEF Scanning
      <4>. HIDE DEF n
      <4>. QED
        BY <4>1, ScanMoves DEF ScannedTo
    <3>. QED
      BY <2>1, <3>1, <3>2
  <2>5. blind' \subseteq Slugs
    BY <2>1, <2>2 DEF Types
  <2>. QED
    BY <2>2, <2>4, <2>5 DEF Types
<1>4. ASSUME NEW p \in Procs, SaveWrite(p)
      PROVE  Types'
  <2>1. WellFormed(op[p]) /\ op[p].pc = "write"
    BY <1>4 DEF SaveWrite, Types
  <2>2. /\ op[p].slug \in Slugs /\ op[p].kind = "save" /\ op[p].upd \in Nat
        /\ op[p].desc \in Descs \cup {NoDesc}
    BY <2>1 DEF WellFormed, Operations
  <2>3. tmp' \in Files
    <3>1. [tmp EXCEPT ![op[p].slug] = [desc |-> op[p].desc, upd |-> op[p].upd]] \in Files
      BY <2>2, FileTypes DEF Types
    <3>2. [tmp EXCEPT ![op[p].slug] = Absent] \in Files
      BY <2>2, AbsentTypes DEF Types
    <3>. QED
      BY <1>4, <3>1, <3>2 DEF SaveWrite, Types
  <2>4. Goto(p, "rename") \/ Return(p)
    BY <1>4 DEF SaveWrite
  <2>5. /\ op' \in [Procs -> Operations]
        /\ \A q \in Procs : WellFormed(op'[q])
    <3>1. CASE Goto(p, "rename")
      BY <2>1, <2>2, <3>1, GotoTypes DEF Pcs
    <3>2. CASE Return(p)
      BY <3>2, ReturnTypes DEF Return
    <3>. QED
      BY <2>4, <3>1, <3>2
  <2>. QED
    BY <1>4, <2>3, <2>5 DEF SaveWrite, Types
<1>5. ASSUME NEW p \in Procs, SaveRename(p)
      PROVE  Types'
  <2>1. WellFormed(op[p]) /\ op[p].pc = "rename" /\ op[p].slug \in Slugs
    BY <1>5 DEF SaveRename, Types, WellFormed
  <2>2. tmp' \in Files
    BY <1>5, <2>1, AbsentTypes DEF SaveRename, Types
  <2>3. files' \in Files
    BY <1>5, <2>1 DEF SaveRename, Types, Files
  <2>4. /\ op' \in [Procs -> Operations]
        /\ \A q \in Procs : WellFormed(op'[q])
    <3>1. CASE Return(p)
      BY <3>1, ReturnTypes DEF Return
    <3>2. CASE op' = [op EXCEPT ![p].pc = "index",
                                ![p].lines = Upsert(@, op[p].slug, op[p].desc)]
      BY <2>1, <3>2, RenameMoves
    <3>. QED
      BY <1>5, <3>1, <3>2 DEF SaveRename
  <2>5. foreign' \subseteq Procs
    BY <1>5 DEF SaveRename, Mutated, Types
  <2>. QED
    BY <1>5, <2>2, <2>3, <2>4, <2>5 DEF SaveRename, Types
<1>6. ASSUME NEW p \in Procs, DeleteExists(p) \/ DeleteRemove(p)
      PROVE  Types'
  <2>1. WellFormed(op[p]) /\ op[p].pc # "idle" /\ op[p].kind = "delete"
        /\ op[p].slug \in Slugs
    BY <1>6 DEF DeleteExists, DeleteRemove, Types, WellFormed
  <2>2. Goto(p, "remove") \/ Goto(p, "rescan") \/ Return(p)
    BY <1>6 DEF DeleteExists, DeleteRemove
  <2>3. /\ op' \in [Procs -> Operations]
        /\ \A q \in Procs : WellFormed(op'[q])
    <3>1. CASE Goto(p, "remove")
      BY <2>1, <3>1, GotoTypes DEF Pcs
    <3>2. CASE Goto(p, "rescan")
      BY <2>1, <3>2, GotoTypes DEF Pcs
    <3>3. CASE Return(p)
      BY <3>3, ReturnTypes DEF Return
    <3>. QED
      BY <2>2, <3>1, <3>2, <3>3
  <2>4. files' \in Files /\ foreign' \subseteq Procs
    <3>1. [files EXCEPT ![op[p].slug] = Absent] \in Files
      BY <2>1, AbsentTypes DEF Types
    <3>. QED
      BY <1>6, <3>1 DEF DeleteExists, DeleteRemove, Mutated, Types
  <2>. QED
    BY <1>6, <2>3, <2>4 DEF DeleteExists, DeleteRemove, Types
<1>7. ASSUME NEW p \in Procs, regenerate_index(p)
      PROVE  Types'
  <2>0. PICK S \in Scans(files) : \E g \in Readings(files, S) : ListScan(p, "index", 0, S, g)
    BY <1>7 DEF regenerate_index
  <2>1. PICK g \in Readings(files, S) : ListScan(p, "index", 0, S, g)
    BY <2>0
  <2>2. op[p].pc = "rescan"
    BY <1>7 DEF regenerate_index
  <2>3. /\ op' \in [Procs -> Operations]
        /\ \A q \in Procs : WellFormed(op'[q])
    <3>1. Scanning(p, 0, S, g)
      BY <2>1, <2>2 DEF Scanning
    <3>. QED
      BY <3>1, ScanMoves, 0 \in Nat DEF ScannedTo
  <2>. QED
    BY <1>7, <2>3 DEF regenerate_index, Types
<1>8. ASSUME NEW p \in Procs, write_index(p) \/ spg_mem_store_open(p)
      PROVE  Types'
  <2>1. op' = [op EXCEPT ![p] = Idle]
    BY <1>8 DEF write_index, spg_mem_store_open, Return
  <2>2. /\ op' \in [Procs -> Operations]
        /\ \A q \in Procs : WellFormed(op'[q])
    BY <2>1, ReturnTypes
  <2>3. cache' \in [Procs -> Caches]
    BY <1>8, InvalidTypes DEF write_index, spg_mem_store_open
  <2>. QED
    BY <1>8, <2>2, <2>3 DEF write_index, spg_mem_store_open, Types
<1>9. ASSUME NEW p \in Procs, rebuild_index_cache(p)
      PROVE  Types'
  <2>0. PICK S \in Scans(files) : \E g \in Readings(files, S) :
           cache' = [cache EXCEPT ![p] = Rebuilt(files, S, g)]
    BY <1>9 DEF rebuild_index_cache, Rebuilt
  <2>1. PICK g \in Readings(files, S) : cache' = [cache EXCEPT ![p] = Rebuilt(files, S, g)]
    BY <2>0
  <2>2. Rebuilt(files, S, g) \in Caches
    BY RebuiltFacts DEF Types
  <2>3. cache' \in [Procs -> Caches]
    BY <2>1, <2>2, CacheTypes
  <2>. QED
    BY <1>9, <2>3 DEF rebuild_index_cache, Types
<1>. QED
  BY <1>1, <1>2, <1>3, <1>4, <1>5, <1>6, <1>7, <1>8, <1>9, BeginCases DEF Next

(* The variables keep their types: whatever fails, overlaps or dies, a scan   *)
(* lists files with descriptions only, a save has one and the counter of a    *)
(* file is a number above those its save found (spg_mem_save_reserved,        *)
(* collect_by_recency, rebuild_index_cache).                                  *)
THEOREM TypeCorrect == Spec => []TypeOK
<1>1. Types => TypeOK
  BY DEF Types, TypeOK, Operations, Caches
<1>. QED
  BY <1>1, TypesInit, TypesNext, PTL DEF Spec

-----------------------------------------------------------------------------
(* The steps of Next again, by what they do to the operation of the process   *)
(* that takes them and to the directory.                                      *)
Others(p) == \A q \in Procs : q # p => op'[q] = op[q]

Same(p) ==
    /\ op'[p].slug = op[p].slug /\ op'[p].desc = op[p].desc /\ op'[p].kind = op[p].kind

Began(p) ==
    /\ op[p].pc = "idle" /\ op'[p].pc = "start"
    /\ op'[p].slug \in Writes[p]
    /\ alone' = IF \A q \in Procs : op[q].pc = "idle" THEN {p} ELSE {}
    /\ UNCHANGED <<files, tmp, cache, foreign, blind>>

Scan(p, S, g) ==
    op'[p].lines = collect_by_recency(g, S) /\ op'[p].clear = Clear(files, S, g)

Full == Cardinality(Present(files)) >= MaxFiles

Scanned(p) ==
    /\ op[p].pc = "start" /\ op'[p].pc = "write" /\ Same(p)
    /\ \E S \in Scans(files) : \E g \in Readings(files, S) :
          Scan(p, S, g) /\ op'[p].upd = Top(g, S) + 1
    /\ blind' = IF op[p].slug \notin Present(files) /\ Full THEN blind \cup {op[p].slug}
                ELSE blind
    /\ UNCHANGED <<files, tmp, cache, foreign, alone>>

Wrote(p) ==
    /\ op[p].pc = "write" /\ op'[p] = [op[p] EXCEPT !.pc = "rename"]
    /\ tmp' = [tmp EXCEPT ![op[p].slug] = [desc |-> op[p].desc, upd |-> op[p].upd]]
    /\ UNCHANGED <<files, cache, foreign, alone, blind>>

Renamed(p) ==
    /\ op[p].pc = "rename" /\ op'[p].pc = "index" /\ Same(p)
    /\ op'[p].lines = Upsert(op[p].lines, op[p].slug, op[p].desc)
    /\ op'[p].clear = op[p].clear
    /\ tmp[op[p].slug] # Absent
    /\ files' = [files EXCEPT ![op[p].slug] = tmp[op[p].slug]]
    /\ tmp' = [tmp EXCEPT ![op[p].slug] = Absent]
    /\ Mutated(p) /\ UNCHANGED <<cache, alone, blind>>

Found(p) ==
    /\ op[p].pc = "start" /\ op[p].kind = "delete"
    /\ op'[p].pc = "remove" /\ Same(p)
    /\ UNCHANGED <<files, tmp, cache, foreign, alone, blind>>

Removed(p) ==
    /\ op[p].pc = "remove" /\ op[p].kind = "delete"
    /\ op'[p].pc = "rescan" /\ Same(p)
    /\ files' = [files EXCEPT ![op[p].slug] = Absent]
    /\ Mutated(p) /\ UNCHANGED <<tmp, cache, alone, blind>>

Rescanned(p) ==
    /\ op[p].pc = "rescan" /\ op[p].kind = "delete" /\ op'[p].pc = "index" /\ Same(p)
    /\ \E S \in Scans(files) : \E g \in Readings(files, S) : Scan(p, S, g)
    /\ UNCHANGED <<files, tmp, cache, foreign, alone, blind>>

(* The operation ends, or its process dies: an error, MEMORY.md rewritten, or *)
(* the store opened again. A temporary file may be removed.                   *)
Ended(p) ==
    /\ op'[p] = Idle
    /\ \/ op[p].pc \in {"write", "rename"} /\ tmp' = [tmp EXCEPT ![op[p].slug] = Absent]
       \/ UNCHANGED tmp
    /\ \/ /\ op[p].pc \in {"start", "write", "rename", "remove"}
          /\ UNCHANGED <<cache, foreign>>
       \/ /\ cache' = [cache EXCEPT ![p] = Cold]
          /\ foreign' = foreign \ {p}
    /\ alone' \subseteq alone /\ UNCHANGED <<files, blind>>

Cached(p) ==
    /\ op[p].pc = "idle" /\ UNCHANGED op
    /\ \E S \in Scans(files) : \E g \in Readings(files, S) :
          cache' = [cache EXCEPT ![p] = Rebuilt(files, S, g)]
    /\ foreign' = foreign \ {p}
    /\ UNCHANGED <<files, tmp, alone, blind>>

Steps(p) ==
    \/ Began(p) \/ Scanned(p) \/ Wrote(p) \/ Renamed(p) \/ Found(p) \/ Removed(p)
    \/ Rescanned(p) \/ Ended(p) \/ Cached(p)

LEMMA Ends ==
    ASSUME Types, NEW p \in Procs, Return(p),
           op[p].pc \in {"start", "write", "rename", "remove"},
           \/ op[p].pc \in {"write", "rename"} /\ tmp' = [tmp EXCEPT ![op[p].slug] = Absent]
           \/ UNCHANGED tmp,
           UNCHANGED <<files, cache, foreign, alone, blind>>
    PROVE  Others(p) /\ Ended(p)
<1>1. op'[p] = Idle /\ Others(p)
  BY ReturnTypes DEF Return, Others
<1>. QED
  BY <1>1 DEF Ended

LEMMA StepCases ==
    ASSUME Types, Next
    PROVE  \E p \in Procs : Others(p) /\ Steps(p)
<1>. USE DEF At
<1>1. ASSUME NEW p \in Procs, Begins(p)
      PROVE  Others(p) /\ Steps(p)
  <2>1. PICK kind \in {"save", "delete"}, s \in Writes[p], d \in Descs \cup {NoDesc} :
           /\ kind = "save" => d \in Descs
           /\ kind = "delete" => d = NoDesc
           /\ Begin(p, kind, s, d)
    BY <1>1 DEF Begins
  <2>2. op'[p].pc = "start" /\ op'[p].slug = s /\ Others(p)
    BY <2>1, BeginTypes DEF Others
  <2>3. Began(p)
    BY <2>1, <2>2 DEF Begin, Began
  <2>. QED
    BY <2>2, <2>3 DEF Steps
<1>2. ASSUME NEW p \in Procs, SaveScan(p)
      PROVE  Others(p) /\ Steps(p)
  <2>. DEFINE new == op[p].slug \notin Present(files)
              b == IF new /\ Full THEN blind \cup {op[p].slug} ELSE blind
  <2>0. PICK S \in Scans(files) : \E g \in Readings(files, S) :
           \/ Return(p) /\ UNCHANGED blind
           \/ ListScan(p, "write", Top(g, S) + 1, S, g) /\ blind' = b
    BY <1>2 DEF SaveScan, Full
  <2>1. PICK g \in Readings(files, S) :
           \/ Return(p) /\ UNCHANGED blind
           \/ ListScan(p, "write", Top(g, S) + 1, S, g) /\ blind' = b
    BY <2>0
  <2>2. op[p].pc = "start" /\ op[p].kind = "save"
        /\ UNCHANGED <<files, tmp, cache, foreign, alone>>
    BY <1>2 DEF SaveScan
  <2>3. CASE Return(p) /\ UNCHANGED blind
    BY <2>2, <2>3, Ends DEF Steps
  <2>4. CASE ListScan(p, "write", Top(g, S) + 1, S, g) /\ blind' = b
    <3>. DEFINE n == Top(g, S) + 1
    <3>1. n \in Nat
      BY ScanFacts, ReadingFacts, TopFacts DEF Types
    <3>2. Scanning(p, n, S, g)
      BY <2>2, <2>4 DEF Scanning
    <3>. HIDE DEF n
    <3>3. ScannedTo(p, n, S, g)
      BY <3>1, <3>2, ScanMoves
    <3>4. /\ Same(p) /\ Others(p) /\ op'[p].pc = "write" /\ op'[p].upd = n
          /\ Scan(p, S, g)
      BY <2>2, <3>3 DEF ScannedTo, Same, Others, Scan
    <3>5. Scanned(p)
      BY <2>2, <2>4, <3>4 DEF Scanned, n
    <3>. QED
      BY <3>4, <3>5 DEF Steps
  <2>. QED
    BY <2>1, <2>3, <2>4
<1>3. ASSUME NEW p \in Procs, SaveWrite(p)
      PROVE  Others(p) /\ Steps(p)
  <2>1. WellFormed(op[p]) /\ op[p].pc = "write"
        /\ UNCHANGED <<files, cache, foreign, alone, blind>>
    BY <1>3 DEF SaveWrite, Types
  <2>2. CASE Return(p)
    <3>1. op'[p] = Idle /\ ~Goto(p, "rename")
      <4>1. op'[p] = Idle
        BY <2>2, ReturnTypes DEF Return
      <4>2. Goto(p, "rename") => op'[p] = [op[p] EXCEPT !.pc = "rename"]
        BY DEF Goto, Types
      <4>3. [op[p] EXCEPT !.pc = "rename"].pc = "rename"
        BY <2>1 DEF WellFormed, Operations
      <4>. QED
        BY <4>1, <4>2, <4>3 DEF Idle
    <3>2. tmp' = [tmp EXCEPT ![op[p].slug] = Absent] \/ UNCHANGED tmp
      BY <1>3, <3>1 DEF SaveWrite
    <3>. QED
      BY <2>1, <2>2, <3>2, Ends DEF Steps
  <2>3. CASE ~Return(p)
    <3>1. Goto(p, "rename")
          /\ tmp' = [tmp EXCEPT ![op[p].slug] = [desc |-> op[p].desc, upd |-> op[p].upd]]
      BY <1>3, <2>3 DEF SaveWrite
    <3>2. op'[p] = [op[p] EXCEPT !.pc = "rename"] /\ Others(p)
      BY <2>1, <3>1, GotoTypes DEF WellFormed, Pcs, Others
    <3>3. Wrote(p)
      BY <2>1, <3>1, <3>2 DEF Wrote
    <3>. QED
      BY <3>2, <3>3 DEF Steps
  <2>. QED
    BY <2>2, <2>3
<1>4. ASSUME NEW p \in Procs, SaveRename(p)
      PROVE  Others(p) /\ Steps(p)
  <2>1. op[p].pc = "rename" /\ UNCHANGED <<cache, alone, blind>>
        /\ tmp' = [tmp EXCEPT ![op[p].slug] = Absent]
    BY <1>4 DEF SaveRename
  <2>2. CASE Return(p) /\ UNCHANGED <<files, foreign>>
    BY <2>1, <2>2, Ends DEF Steps
  <2>3. CASE /\ tmp[op[p].slug] # Absent
             /\ files' = [files EXCEPT ![op[p].slug] = tmp[op[p].slug]]
             /\ op' = [op EXCEPT ![p].pc = "index",
                                 ![p].lines = Upsert(@, op[p].slug, op[p].desc)]
             /\ Mutated(p)
    <3>1. /\ op'[p].pc = "index" /\ Same(p) /\ Others(p) /\ op'[p].clear = op[p].clear
          /\ op'[p].lines = Upsert(op[p].lines, op[p].slug, op[p].desc)
      BY <2>1, <2>3, RenameMoves DEF Same, Others
    <3>2. Renamed(p)
      BY <2>1, <2>3, <3>1 DEF Renamed
    <3>. QED
      BY <3>1, <3>2 DEF Steps
  <2>. QED
    BY <1>4, <2>2, <2>3 DEF SaveRename
<1>5. ASSUME NEW p \in Procs, DeleteExists(p)
      PROVE  Others(p) /\ Steps(p)
  <2>1. WellFormed(op[p]) /\ op[p].pc = "start" /\ op[p].kind = "delete"
        /\ UNCHANGED <<files, tmp, cache, foreign, alone, blind>>
    BY <1>5 DEF DeleteExists, Types
  <2>2. CASE Return(p)
    BY <2>1, <2>2, Ends DEF Steps
  <2>3. CASE Goto(p, "remove")
    <3>1. op'[p] = [op[p] EXCEPT !.pc = "remove"] /\ Others(p)
      BY <2>1, <2>3, GotoTypes DEF Pcs, Others
    <3>2. Found(p)
      BY <2>1, <3>1 DEF Found, Same, WellFormed, Operations
    <3>. QED
      BY <3>1, <3>2 DEF Steps
  <2>. QED
    BY <1>5, <2>2, <2>3 DEF DeleteExists
<1>6. ASSUME NEW p \in Procs, DeleteRemove(p)
      PROVE  Others(p) /\ Steps(p)
  <2>1. WellFormed(op[p]) /\ op[p].pc = "remove" /\ op[p].kind = "delete"
        /\ UNCHANGED <<tmp, cache, alone, blind>>
    BY <1>6 DEF DeleteRemove, Types, WellFormed
  <2>2. CASE Return(p) /\ UNCHANGED <<files, foreign>>
    BY <2>1, <2>2, Ends DEF Steps
  <2>3. CASE /\ files' = [files EXCEPT ![op[p].slug] = Absent]
             /\ Goto(p, "rescan") /\ Mutated(p)
    <3>1. op'[p] = [op[p] EXCEPT !.pc = "rescan"] /\ Others(p)
      BY <2>1, <2>3, GotoTypes DEF Pcs, Others
    <3>2. Removed(p)
      BY <2>1, <2>3, <3>1 DEF Removed, Same, WellFormed, Operations
    <3>. QED
      BY <3>1, <3>2 DEF Steps
  <2>. QED
    BY <1>6, <2>2, <2>3 DEF DeleteRemove
<1>7. ASSUME NEW p \in Procs, regenerate_index(p)
      PROVE  Others(p) /\ Steps(p)
  <2>0. PICK S \in Scans(files) : \E g \in Readings(files, S) : ListScan(p, "index", 0, S, g)
    BY <1>7 DEF regenerate_index
  <2>1. PICK g \in Readings(files, S) : ListScan(p, "index", 0, S, g)
    BY <2>0
  <2>2. op[p].pc = "rescan" /\ op[p].kind = "delete"
        /\ UNCHANGED <<files, tmp, cache, foreign, alone, blind>>
    BY <1>7 DEF regenerate_index, Types, WellFormed
  <2>3. op'[p].pc = "index" /\ Same(p) /\ Others(p) /\ Scan(p, S, g)
    <3>1. ScannedTo(p, 0, S, g)
      BY <2>1, <2>2, ScanMoves, 0 \in Nat DEF Scanning
    <3>. QED
      BY <2>2, <3>1 DEF ScannedTo, Same, Others, Scan
  <2>4. Rescanned(p)
    BY <2>2, <2>3 DEF Rescanned
  <2>. QED
    BY <2>3, <2>4 DEF Steps
<1>8. ASSUME NEW p \in Procs, write_index(p) \/ spg_mem_store_open(p)
      PROVE  Others(p) /\ Steps(p)
  <2>1. op' = [op EXCEPT ![p] = Idle]
    BY <1>8 DEF write_index, spg_mem_store_open, Return
  <2>2. op'[p] = Idle /\ Others(p)
    BY <2>1, ReturnTypes DEF Others
  <2>3. Ended(p)
    BY <1>8, <2>2 DEF write_index, spg_mem_store_open, Ended
  <2>. QED
    BY <2>2, <2>3 DEF Steps
<1>9. ASSUME NEW p \in Procs, rebuild_index_cache(p)
      PROVE  Others(p) /\ Steps(p)
  <2>1. Cached(p)
    BY <1>9 DEF rebuild_index_cache, Rebuilt, Cached
  <2>. QED
    BY <2>1 DEF Steps, Cached, Others
<1>. QED
  BY <1>1, <1>2, <1>3, <1>4, <1>5, <1>6, <1>7, <1>8, <1>9, BeginCases DEF Next

-----------------------------------------------------------------------------
(* The bound on files. Files that are there and files a save that passed the  *)
(* capacity test is about to make, together, stay within the bound, the ones  *)
(* made though the directory was full left out: a directory that is not full  *)
(* has room for one, and each other process makes at most one.                *)
Claimed ==
    {s \in Slugs : \/ s \in Present(files)
                  \/ \E p \in Procs : /\ op[p].pc \in {"write", "rename"}
                                     /\ op[p].slug = s}

ClaimsBounded == Cardinality(Claimed \ blind) <= MaxFiles + Cardinality(Procs) - 1

LEMMA NamedFew ==
    ASSUME NEW A, IsFiniteSet(A), NEW r
    PROVE  LET T == {r[p] : p \in A}
           IN  IsFiniteSet(T) /\ Cardinality(T) <= Cardinality(A)
<1>. DEFINE T == {r[p] : p \in A}
            g == [p \in A |-> r[p]]
<1>1. g \in Surjection(A, T)
  BY DEF Surjection
<1>. HIDE DEF T, g
<1>2. IsFiniteSet(T) /\ Cardinality(T) <= Cardinality(A)
  BY <1>1, FS_Surjection
<1>. QED
  BY <1>2 DEF T

LEMMA ClaimedFinite ==
    ASSUME NEW T \in SUBSET Slugs, NEW U \in SUBSET Slugs, T \subseteq U
    PROVE  Cardinality(T) \in Nat /\ Cardinality(U) \in Nat
           /\ Cardinality(T) <= Cardinality(U)
<1>1. IsFiniteSet(U) /\ Cardinality(U) \in Nat /\ Cardinality(T) \in Nat
  BY ScanFinite
<1>. QED
  BY <1>1, FS_Subset

(* Only the scan of a save claims a file. *)
LEMMA ClaimsShrink ==
    ASSUME Types, Types', NEW p \in Procs, Others(p), Steps(p), ~Scanned(p)
    PROVE  Claimed' \subseteq Claimed /\ blind' = blind
<1>0. blind' = blind
  BY DEF Steps, Began, Found, Rescanned, Wrote, Renamed, Removed, Ended, Cached
<1>. SUFFICES Claimed' \subseteq Claimed
  BY <1>0
<1>1. /\ op[p].pc # "idle" => op[p].slug \in Slugs
      /\ Idle.pc = "idle"
  BY DEF Types, WellFormed, Idle
<1>2. CASE Began(p) \/ Found(p) \/ Rescanned(p)
  BY <1>2 DEF Began, Found, Rescanned, Others, Claimed, Present
<1>3. CASE Wrote(p)
  <2>1. op[p] \in Operations
    BY DEF Types
  <2>2. op'[p].slug = op[p].slug
    BY <1>3, <2>1 DEF Wrote, Operations
  <2>. QED
    BY <1>3, <2>2 DEF Wrote, Others, Claimed, Present
<1>4. CASE Renamed(p)
  <2>1. \A s \in Slugs : s # op[p].slug => files'[s] = files[s]
    BY <1>4 DEF Renamed, Types, Files
  <2>2. ASSUME NEW s \in Claimed', s # op[p].slug PROVE s \in Claimed
    BY <1>4, <2>1, <2>2 DEF Renamed, Same, Others, Claimed, Present
  <2>3. op[p].slug \in Claimed
    BY <1>1, <1>4 DEF Renamed, Claimed
  <2>. QED
    BY <2>2, <2>3
<1>5. CASE Removed(p)
  <2>1. \A s \in Slugs : s # op[p].slug => files'[s] = files[s]
    BY <1>5 DEF Removed, Types, Files
  <2>2. op[p].slug \notin Present(files)'
    BY <1>1, <1>5 DEF Removed, Types, Files, Present, Absent
  <2>. QED
    BY <1>5, <2>1, <2>2 DEF Removed, Same, Others, Claimed, Present
<1>6. CASE Ended(p)
  BY <1>1, <1>6 DEF Ended, Others, Claimed, Present
<1>7. CASE Cached(p)
  BY <1>7 DEF Cached, Claimed, Present
<1>. QED
  BY <1>2, <1>3, <1>4, <1>5, <1>6, <1>7 DEF Steps

LEMMA ClaimsNext == Types /\ ClaimsBounded /\ [Next]_vars => ClaimsBounded'
<1>. SUFFICES ASSUME Types, ClaimsBounded, [Next]_vars PROVE ClaimsBounded'
  OBVIOUS
<1>1. Types'
  BY TypesNext
<1>2. CASE UNCHANGED vars
  BY <1>2 DEF vars, ClaimsBounded, Claimed, Present
<1>3. CASE Next
  <2>1. PICK p \in Procs : Others(p) /\ Steps(p)
    BY <1>3, StepCases
  <2>2. (Claimed \ blind) \in SUBSET Slugs /\ (Claimed \ blind)' \in SUBSET Slugs
    BY DEF Claimed
  <2>3. /\ Cardinality(Claimed \ blind) \in Nat /\ Cardinality((Claimed \ blind)') \in Nat
        /\ Cardinality(Procs) \in Nat /\ MaxFiles \in Nat
    BY <2>2, ClaimedFinite, FS_CardinalityType, StoreAssumption
  <2>4. CASE (Claimed \ blind)' \subseteq Claimed \ blind
    <3>1. Cardinality((Claimed \ blind)') <= Cardinality(Claimed \ blind)
      BY <2>2, <2>4, ClaimedFinite
    <3>. QED
      BY <2>3, <3>1 DEF ClaimsBounded
  <2>5. CASE Scanned(p) /\ op[p].slug \in Present(files)
    <3>1. (Claimed \ blind)' \subseteq Claimed \ blind
      BY <2>1, <2>5 DEF Scanned, Same, Others, Claimed, Present
    <3>. QED
      BY <2>4, <3>1
  <2>6. CASE Scanned(p) /\ op[p].slug \notin Present(files) /\ Full
    <3>1. Claimed' \subseteq Claimed \cup {op[p].slug}
      BY <2>1, <2>6 DEF Scanned, Same, Others, Claimed, Present
    <3>2. blind' = blind \cup {op[p].slug}
      BY <2>6 DEF Scanned
    <3>. QED
      BY <2>4, <3>1, <3>2
  <2>7. CASE Scanned(p) /\ ~Full
    <3>. DEFINE S == Present(files)
                W == {op'[q].slug : q \in Procs}
    <3>1. IsFiniteSet(S) /\ Cardinality(S) \in Nat /\ Cardinality(S) < MaxFiles
      BY <2>3, <2>7, PresentFinite DEF Full, Types
    <3>3. IsFiniteSet(W) /\ Cardinality(W) <= Cardinality(Procs)
          /\ Cardinality(W) \in Nat
      <4>. DEFINE r == [q \in Procs |-> op'[q].slug]
      <4>1. W = {r[q] : q \in Procs}
        OBVIOUS
      <4>. HIDE DEF r, W
      <4>. QED
        BY <4>1, NamedFew, FS_CardinalityType, StoreAssumption
    <3>4. (Claimed \ blind)' \subseteq S \cup W
      BY <2>7 DEF Scanned, Claimed, Present
    <3>. HIDE DEF W, S
    <3>5. IsFiniteSet(S \cup W)
          /\ Cardinality(S \cup W) = Cardinality(S) + Cardinality(W)
                                       - Cardinality(S \cap W)
      BY <3>1, <3>3, FS_Union
    <3>6. Cardinality(S \cap W) \in Nat /\ Cardinality(S \cup W) \in Nat
      BY <3>1, <3>5, FS_Intersection, FS_CardinalityType
    <3>7. Cardinality((Claimed \ blind)') <= Cardinality(S \cup W)
      BY <3>4, <3>5, FS_Subset
    <3>. QED
      BY <2>3, <3>1, <3>3, <3>5, <3>6, <3>7 DEF ClaimsBounded
  <2>8. CASE ~Scanned(p)
    <3>1. Claimed' \subseteq Claimed /\ blind' = blind
      BY <1>1, <2>1, <2>8, ClaimsShrink
    <3>. QED
      BY <2>4, <3>1
  <2>. QED
    BY <2>5, <2>6, <2>7, <2>8
<1>. QED
  BY <1>2, <1>3

LEMMA ClaimsInit == Init => ClaimsBounded
<1>. SUFFICES ASSUME Init PROVE ClaimsBounded
  OBVIOUS
<1>1. files \in Files
  BY TypesInit DEF Types
<1>2. Claimed \ blind = Present(files)
  BY <1>1, PresentFinite DEF Init, Claimed, Idle
<1>. DEFINE n == Cardinality(Present(files))
            k == Cardinality(Procs)
<1>3. n \in Nat /\ n <= MaxFiles
  BY <1>1, PresentFinite DEF Init
<1>4. k \in Nat /\ k # 0 /\ MaxFiles \in Nat
  BY FS_CardinalityType, FS_EmptySet, StoreAssumption
<1>. HIDE DEF n, k
<1>5. n <= MaxFiles + k - 1
  BY <1>3, <1>4
<1>. QED
  BY <1>2, <1>5 DEF ClaimsBounded, n, k

(* Saves of several processes that pass the capacity test together exceed     *)
(* SPG_MEM_MAX_FILES by at most one file for each process besides the first   *)
(* (the test of spg_mem_save_reserved is not atomic with its rename); what    *)
(* else is above it are the memories of saves whose scan missed files of a    *)
(* full directory (collect_by_recency gives fewer, opendir may fail).         *)
THEOREM FilesAreBounded == Spec => []Bounded
<1>1. Types /\ ClaimsBounded => Bounded
  <2>. SUFFICES ASSUME Types, ClaimsBounded PROVE Bounded
    OBVIOUS
  <2>. DEFINE T == Present(files) \ blind
              U == Claimed \ blind
  <2>1. T \subseteq U /\ U \in SUBSET Slugs /\ T \in SUBSET Slugs
    BY DEF Claimed, Present
  <2>. HIDE DEF T, U
  <2>2. Cardinality(U) \in Nat /\ Cardinality(T) \in Nat /\ Cardinality(T) <= Cardinality(U)
    BY <2>1, ClaimedFinite
  <2>3. Cardinality(Procs) \in Nat /\ MaxFiles \in Nat
    BY FS_CardinalityType, StoreAssumption
  <2>. QED
    BY <2>2, <2>3 DEF ClaimsBounded, Bounded, T, U
<1>. QED
  BY <1>1, TypesInit, TypesNext, ClaimsInit, ClaimsNext, PTL DEF Spec

-----------------------------------------------------------------------------
(* MEMORY.md after a save. A list of every file in the order of entry_before  *)
(* is what a scan gives: an entry comes after those at smaller positions.     *)
Listed(C, f, S) ==
    /\ C \in Seq([slug : Slugs, desc : Descs \cup {NoDesc}])
    /\ Len(C) = Cardinality(S)
    /\ \A i \in 1 .. Cardinality(S) :
          /\ C[i].slug \in S
          /\ C[i] = [slug |-> C[i].slug, desc |-> f[C[i].slug].desc]
    /\ \A i, j \in 1 .. Cardinality(S) :
          i < j => entry_before(f, C[i].slug, C[j].slug)

LEMMA BeforeOnce ==
    ASSUME NEW f \in Files, NEW a \in Slugs, NEW b \in Slugs, entry_before(f, a, b)
    PROVE  a # b /\ ~entry_before(f, b, a)
<1>1. a \in Nat /\ b \in Nat /\ f[a].upd \in Nat /\ f[b].upd \in Nat
  BY StoreAssumption DEF Files
<1>. QED
  BY <1>1 DEF entry_before

LEMMA ListedIsScan ==
    ASSUME NEW f \in Files, NEW S \in SUBSET Slugs, NEW C, Listed(C, f, S)
    PROVE  C = collect_by_recency(f, S)
<1>. DEFINE n == Cardinality(S)
            D == collect_by_recency(f, S)
            g == [i \in 1 .. n |-> C[i].slug]
            before(i) == {t \in S : entry_before(f, t, g[i])}
<1>1. n \in Nat /\ IsFiniteSet(S)
  BY ScanFinite
<1>2. g \in [1 .. n -> S]
  BY DEF Listed
<1>3. ASSUME NEW i \in 1 .. n, NEW j \in 1 .. n, g[i] = g[j]
      PROVE  i = j
  <2>1. i < j => entry_before(f, g[i], g[j])
    BY DEF Listed
  <2>2. j < i => entry_before(f, g[j], g[i])
    BY DEF Listed
  <2>3. g[i] \in Slugs
    BY <1>2
  <2>. HIDE DEF g, n
  <2>. QED
    BY <1>1, <1>3, <2>1, <2>2, <2>3, BeforeOnce
<1>4. \A s \in S : \E i \in 1 .. n : g[i] = s
  <2>1. IsFiniteSet(1 .. n) /\ Cardinality(1 .. n) = n
    BY <1>1, FS_Interval
  <2>2. g \in Injection(1 .. n, S)
    BY <1>2, <1>3 DEF Injection, IsInjective
  <2>. HIDE DEF g
  <2>3. g \in Surjection(1 .. n, S)
    BY <1>1, <2>1, <2>2, FS_Injection
  <2>. QED
    BY <2>3 DEF Surjection
<1>5. ASSUME NEW i \in 1 .. n
      PROVE  Rank(f, S, g[i]) = i
  <2>. DEFINE h == [k \in 1 .. (i - 1) |-> g[k]]
  <2>1. before(i) = {g[k] : k \in 1 .. (i - 1)}
    <3>1. ASSUME NEW k \in 1 .. (i - 1) PROVE g[k] \in before(i)
      <4>1. k \in 1 .. n /\ k < i
        BY <1>1
      <4>2. entry_before(f, g[k], g[i])
        BY <4>1 DEF Listed
      <4>. QED
        BY <1>2, <4>1, <4>2
    <3>2. ASSUME NEW t \in before(i) PROVE \E k \in 1 .. (i - 1) : g[k] = t
      <4>1. PICK k \in 1 .. n : g[k] = t
        BY <1>4
      <4>2. k = i => FALSE
        BY <1>2, <4>1, BeforeOnce
      <4>3. i < k => entry_before(f, g[i], t)
        BY <4>1 DEF Listed
      <4>4. ~(i < k)
        BY <1>2, <4>3, BeforeOnce
      <4>. QED
        BY <1>1, <4>1, <4>2, <4>4
    <3>. QED
      BY <3>1, <3>2
  <2>2. h \in Bijection(1 .. (i - 1), before(i))
    <3>1. \A k \in 1 .. (i - 1) : k \in 1 .. n
      BY <1>1
    <3>. HIDE DEF g, before
    <3>. QED
      BY <1>3, <2>1, <3>1 DEF Bijection, Injection, Surjection, IsInjective
  <2>3. IsFiniteSet(1 .. (i - 1)) /\ Cardinality(1 .. (i - 1)) = i - 1
    <3>1. i - 1 \in Int /\ 1 \in Int /\ 1 <= i
      BY <1>1
    <3>. HIDE DEF n
    <3>2. IsFiniteSet(1 .. (i - 1))
          /\ Cardinality(1 .. (i - 1)) = IF 1 > i - 1 THEN 0 ELSE (i - 1) - 1 + 1
      BY <3>1, FS_Interval
    <3>. QED
      BY <3>1, <3>2
  <2>. HIDE DEF h, before, g
  <2>4. Cardinality(before(i)) = i - 1
    <3>1. ExistsBijection(1 .. (i - 1), before(i))
      BY <2>2 DEF ExistsBijection
    <3>. QED
      BY <2>3, <3>1, FS_Bijection
  <2>. QED
    BY <1>1, <2>4 DEF Rank, before
<1>6. Collection(D, f, S)
  BY Collected
<1>7. ASSUME NEW i \in 1 .. n
      PROVE  C[i] = D[i]
  <2>1. D[Rank(f, S, g[i])].slug = g[i]
    BY <1>2, <1>6 DEF Collection
  <2>2. D[i].slug = g[i]
    BY <1>5, <2>1
  <2>3. D[i] = [slug |-> g[i], desc |-> f[g[i]].desc]
    BY <1>6, <2>2 DEF Collection
  <2>4. C[i] = [slug |-> g[i], desc |-> f[g[i]].desc]
    BY DEF Listed
  <2>. QED
    BY <2>3, <2>4
<1>8. /\ C \in Seq([slug : Slugs, desc : Descs \cup {NoDesc}]) /\ Len(C) = n
      /\ D \in Seq([slug : Slugs, desc : Descs \cup {NoDesc}]) /\ Len(D) = n
  BY <1>6 DEF Listed, Collection
<1>. HIDE DEF D, n, g, before
<1>. QED
  BY <1>7, <1>8, SeqEqual DEF D

(* The lines that are left keep their order. *)
Thinned(W, lines, s) ==
    \E e \in [1 .. Len(W) -> 1 .. Len(lines)] :
        /\ \A i \in 1 .. Len(W) : W[i] = lines[e[i]] /\ lines[e[i]].slug # s
        /\ \A i, j \in 1 .. Len(W) : i < j => e[i] < e[j]

Piece(A, lines, a, b, X) ==
    /\ A \in Seq(X) /\ Len(A) = b - a + 1
    /\ \A i \in 1 .. Len(A) : A[i] = lines[a + i - 1]

LEMMA Pieces ==
    ASSUME NEW X, NEW lines \in Seq(X), NEW a \in Nat, NEW b \in Nat,
           a >= 1, a - 1 <= b, b <= Len(lines), NEW A, A = SubSeq(lines, a, b)
    PROVE  Piece(A, lines, a, b, X)
<1>1. \A i \in a .. b : lines[i] \in X
  OBVIOUS
<1>2. /\ SubSeq(lines, a, b) \in Seq(X)
      /\ Len(SubSeq(lines, a, b)) = IF a <= b THEN b - a + 1 ELSE 0
      /\ \A i \in 1 .. b - a + 1 : SubSeq(lines, a, b)[i] = lines[a + i - 1]
  BY <1>1, SubSeqProperties
<1>3. Len(SubSeq(lines, a, b)) = b - a + 1
  BY <1>2
<1>. QED
  BY <1>2, <1>3 DEF Piece

LEMMA WithoutThins ==
    ASSUME NEW X, NEW lines \in Seq(X), NEW s,
           \A i, j \in 1 .. Len(lines) : lines[i].slug = lines[j].slug => i = j
    PROVE  /\ Thinned(Without(lines, s), lines, s)
           /\ Len(Without(lines, s)) =
                 IF \E i \in 1 .. Len(lines) : lines[i].slug = s
                 THEN Len(lines) - 1 ELSE Len(lines)
<1>. DEFINE W == Without(lines, s)
<1>0. Len(lines) \in Nat /\ DOMAIN lines = 1 .. Len(lines)
  OBVIOUS
<1>1. CASE \A i \in 1 .. Len(lines) : lines[i].slug # s
  <2>1. W = lines
    BY <1>0, <1>1 DEF Without
  <2>. DEFINE e == [i \in 1 .. Len(lines) |-> i]
  <2>2. e \in [1 .. Len(W) -> 1 .. Len(lines)]
    BY <2>1
  <2>3. /\ \A i \in 1 .. Len(W) : W[i] = lines[e[i]] /\ lines[e[i]].slug # s
        /\ \A i, j \in 1 .. Len(W) : i < j => e[i] < e[j]
    BY <1>1, <2>1
  <2>. HIDE DEF e
  <2>. QED
    BY <1>1, <2>1, <2>2, <2>3 DEF Thinned
<1>2. CASE \E i \in 1 .. Len(lines) : lines[i].slug = s
  <2>. DEFINE k == CHOOSE k \in DOMAIN lines : lines[k].slug = s
              A == SubSeq(lines, 1, k - 1)
              B == SubSeq(lines, k + 1, Len(lines))
              m == Len(lines)
              e == [i \in 1 .. (m - 1) |-> IF i < k THEN i ELSE i + 1]
  <2>1. k \in 1 .. m /\ lines[k].slug = s
    BY <1>0, <1>2
  <2>2. W = A \o B
    BY <1>0, <1>2 DEF Without
  <2>. HIDE DEF k
  <2>3. /\ A \in Seq(X) /\ Len(A) = k - 1 /\ \A i \in 1 .. (k - 1) : A[i] = lines[i]
        /\ B \in Seq(X) /\ Len(B) = m - k
        /\ \A i \in 1 .. (m - k) : B[i] = lines[k + i]
    <3>1. k \in Nat /\ k - 1 \in Nat /\ k + 1 \in Nat /\ m \in Nat
          /\ k + 1 - 1 <= m /\ k - 1 <= m /\ k <= m /\ k >= 1
      BY <1>0, <2>1
    <3>. HIDE DEF A, B, m
    <3>2. Piece(A, lines, 1, k - 1, X)
      <4>1. A = SubSeq(lines, 1, k - 1)
        BY DEF A
      <4>2. 1 - 1 <= k - 1 /\ k - 1 <= Len(lines) /\ 1 \in Nat /\ 1 >= 1
        BY <3>1 DEF m
      <4>. QED
        BY <3>1, <4>1, <4>2, Pieces
    <3>3. Piece(B, lines, k + 1, m, X)
      <4>. DEFINE a == k + 1
      <4>1. B = SubSeq(lines, a, m)
        BY DEF B, m
      <4>2. a - 1 <= m /\ m <= Len(lines) /\ a >= 1 /\ a \in Nat /\ m \in Nat
        BY <3>1 DEF m
      <4>. HIDE DEF a
      <4>3. Piece(B, lines, a, m, X)
        BY <4>1, <4>2, Pieces
      <4>. QED
        BY <4>3 DEF a
    <3>4. A \in Seq(X) /\ Len(A) = k - 1 /\ B \in Seq(X) /\ Len(B) = m - k
      BY <3>1, <3>2, <3>3 DEF Piece
    <3>5. \A i \in 1 .. (k - 1) : A[i] = lines[i]
      <4>1. \A i \in 1 .. (k - 1) : A[i] = lines[1 + i - 1] /\ 1 + i - 1 = i
        BY <3>1, <3>2, <3>4, SMTT(30) DEF Piece
      <4>. QED
        BY <4>1
    <3>6. \A i \in 1 .. (m - k) : B[i] = lines[k + i]
      <4>1. \A i \in 1 .. (m - k) : B[i] = lines[k + 1 + i - 1] /\ k + 1 + i - 1 = k + i
        BY <3>1, <3>3, <3>4 DEF Piece
      <4>. QED
        BY <4>1
    <3>. QED
      BY <3>4, <3>5, <3>6
  <2>. HIDE DEF A, B
  <2>4. Len(W) = m - 1 /\ \A i \in 1 .. (m - 1) :
           W[i] = IF i < k THEN A[i] ELSE B[i - (k - 1)]
    <3>1. /\ Len(W) = Len(A) + Len(B)
          /\ \A i \in 1 .. Len(A) + Len(B) :
                W[i] = IF i <= Len(A) THEN A[i] ELSE B[i - Len(A)]
      <4>1. A \in Seq(X) /\ B \in Seq(X)
        BY <2>3
      <4>2. /\ Len(A \o B) = Len(A) + Len(B)
            /\ \A i \in 1 .. Len(A) + Len(B) :
                  (A \o B)[i] = IF i <= Len(A) THEN A[i] ELSE B[i - Len(A)]
        BY <4>1, ConcatProperties
      <4>. HIDE DEF W
      <4>. QED
        BY <2>2, <4>2
    <3>2. m \in Nat /\ (k - 1) + (m - k) = m - 1
      BY <1>0, <2>1
    <3>. HIDE DEF W, m
    <3>3. \A i \in 1 .. (m - 1) : i <= k - 1 <=> i < k
      BY <2>1, <3>2
    <3>. QED
      BY <2>3, <3>1, <3>2, <3>3
  <2>5. e \in [1 .. Len(W) -> 1 .. m]
    BY <1>0, <2>1, <2>4
  <2>6. \A i \in 1 .. (m - 1) : W[i] = lines[e[i]]
    <3>1. ASSUME NEW i \in 1 .. (m - 1), ~(i < k)
          PROVE  /\ i - (k - 1) \in 1 .. (m - k) /\ k + (i - (k - 1)) = i + 1
      BY <1>0, <2>1, <3>1
    <3>. HIDE DEF m, W
    <3>. QED
      BY <1>0, <2>1, <2>3, <2>4, <3>1 DEF m
  <2>7. \A i \in 1 .. (m - 1) : e[i] # k /\ e[i] \in 1 .. m
    BY <1>0, <2>1
  <2>8. \A i \in 1 .. (m - 1) : lines[e[i]].slug # s
    BY <2>1, <2>7
  <2>9. \A i, j \in 1 .. (m - 1) : i < j => e[i] < e[j]
    BY <1>0, <2>1
  <2>. HIDE DEF e, W
  <2>10. Thinned(W, lines, s)
    BY <2>4, <2>5, <2>6, <2>8, <2>9 DEF Thinned
  <2>. QED
    BY <1>2, <2>4, <2>10 DEF W
<1>. QED
  BY <1>1, <1>2

(* A save has the newest counter, so its line in front of the others is the   *)
(* list a scan of the new directory gives ("no rescan").                      *)
SavedOver(f, S, s, d, n, g) ==
    /\ g = [f EXCEPT ![s] = [desc |-> d, upd |-> n]]
    /\ \A t \in S : f[t].upd < n

LEMMA UpsertIsScan ==
    ASSUME NEW f \in Files, NEW S \in SUBSET Slugs, NEW s \in Slugs, NEW d \in Descs,
           NEW n \in Nat, NEW g \in Files, SavedOver(f, S, s, d, n, g)
    PROVE  Upsert(collect_by_recency(f, S), s, d) = collect_by_recency(g, S \cup {s})
<1>. DEFINE C == collect_by_recency(f, S)
            X == [slug : Slugs, desc : Descs \cup {NoDesc}]
            l == [slug |-> s, desc |-> d]
            W == Without(C, s)
            U == <<l>> \o W
            T == S \cup {s}
            m == Cardinality(S)
<1>1. Collection(C, f, S) /\ m \in Nat /\ IsFiniteSet(S) /\ T \in SUBSET Slugs
  BY Collected, ScanFinite
<1>2. /\ g[s] = [desc |-> d, upd |-> n] /\ \A t \in Slugs : t # s => g[t] = f[t]
      /\ \A t \in Slugs : f[t].upd \in Nat /\ t \in Nat
      /\ \A t \in S : f[t].upd < n
  BY StoreAssumption DEF Files, SavedOver
<1>3. l \in X /\ l.slug = s /\ l.desc = d
  OBVIOUS
<1>. HIDE DEF C, l
<1>4. C \in Seq(X) /\ Len(C) = m
  BY <1>1 DEF Collection
<1>5. \A i, j \in 1 .. m : C[i].slug = C[j].slug => i = j
  BY <1>1 DEF Collection
<1>6. \A i, j \in 1 .. m : i < j => entry_before(f, C[i].slug, C[j].slug)
  <2>1. ASSUME NEW i \in 1 .. m, NEW j \in 1 .. m, i < j
        PROVE  entry_before(f, C[i].slug, C[j].slug)
    <3>1. /\ C[i].slug \in S /\ Rank(f, S, C[i].slug) = i
          /\ C[j].slug \in S /\ Rank(f, S, C[j].slug) = j
      BY <1>1 DEF Collection
    <3>. QED
      BY <2>1, <3>1, Ranks
  <2>. QED
    BY <2>1
<1>7. /\ Thinned(W, C, s) /\ W \in Seq(X)
      /\ Len(W) = IF \E i \in 1 .. m : C[i].slug = s THEN m - 1 ELSE m
  <2>. HIDE DEF X
  <2>. QED
    BY <1>4, <1>5, WithoutThins, WithoutLines
<1>8. Len(W) + 1 = Cardinality(T) /\ Cardinality(T) \in Nat /\ Len(W) \in Nat
  <2>1. s \in S <=> \E i \in 1 .. m : C[i].slug = s
    BY <1>1, Ranks DEF Collection
  <2>2. Cardinality(T) = IF s \in S THEN m ELSE m + 1
    <3>1. s \in S => T = S
      OBVIOUS
    <3>2. s \notin S => Cardinality(T) = m + 1
      BY <1>1, FS_AddElement
    <3>. QED
      BY <3>1, <3>2
  <2>. HIDE DEF W, T
  <2>. QED
    BY <1>1, <1>7, <2>1, <2>2
<1>. HIDE DEF W
<1>9. /\ U \in Seq(X) /\ Len(U) = Len(W) + 1 /\ U[1] = l
      /\ \A i \in 1 .. Len(W) : U[i + 1] = W[i]
  <2>. HIDE DEF X
  <2>. QED
    BY <1>3, <1>7
<1>10. PICK e \in [1 .. Len(W) -> 1 .. m] :
          /\ \A i \in 1 .. Len(W) : W[i] = C[e[i]] /\ C[e[i]].slug # s
          /\ \A i, j \in 1 .. Len(W) : i < j => e[i] < e[j]
  BY <1>4, <1>7 DEF Thinned
<1>11. ASSUME NEW i \in 1 .. Len(W)
       PROVE  /\ U[i + 1].slug \in S \ {s}
              /\ U[i + 1] = [slug |-> U[i + 1].slug, desc |-> g[U[i + 1].slug].desc]
  <2>1. U[i + 1] = C[e[i]] /\ e[i] \in 1 .. m
    BY <1>9, <1>10
  <2>2. C[e[i]].slug \in S \ {s}
        /\ C[e[i]] = [slug |-> C[e[i]].slug, desc |-> f[C[e[i]].slug].desc]
    BY <1>1, <1>10, <2>1 DEF Collection
  <2>. QED
    BY <1>2, <2>1, <2>2
<1>12. ASSUME NEW i \in 1 .. Len(W), NEW j \in 1 .. Len(W), i < j
       PROVE  entry_before(g, U[i + 1].slug, U[j + 1].slug)
  <2>1. entry_before(f, C[e[i]].slug, C[e[j]].slug)
    BY <1>6, <1>10, <1>12
  <2>2. U[i + 1] = C[e[i]] /\ U[j + 1] = C[e[j]]
    BY <1>9, <1>10
  <2>3. g[U[i + 1].slug] = f[U[i + 1].slug] /\ g[U[j + 1].slug] = f[U[j + 1].slug]
    BY <1>2, <1>11
  <2>. QED
    BY <2>1, <2>2, <2>3 DEF entry_before
<1>13. ASSUME NEW i \in 1 .. Len(W)
       PROVE  entry_before(g, s, U[i + 1].slug)
  <2>1. U[i + 1].slug \in S \ {s}
    BY <1>11
  <2>2. g[U[i + 1].slug].upd < g[s].upd
    BY <1>2, <2>1
  <2>3. g[U[i + 1].slug].upd \in Nat /\ g[s].upd \in Nat
    BY <1>2, <2>1
  <2>. QED
    BY <2>2, <2>3 DEF entry_before
<1>. HIDE DEF U
<1>14. Listed(U, g, T)
  <2>1. ASSUME NEW i \in 1 .. Cardinality(T)
        PROVE  i = 1 \/ (i - 1 \in 1 .. Len(W) /\ i = (i - 1) + 1)
    BY <1>8
  <2>2. ASSUME NEW i \in 1 .. Cardinality(T)
        PROVE  U[i].slug \in T
               /\ U[i] = [slug |-> U[i].slug, desc |-> g[U[i].slug].desc]
    <3>1. CASE i = 1
      BY <1>2, <1>3, <1>9, <3>1 DEF l
    <3>2. CASE i - 1 \in 1 .. Len(W) /\ i = (i - 1) + 1
      BY <1>11, <3>2
    <3>. QED
      BY <2>1, <3>1, <3>2
  <2>3. ASSUME NEW i \in 1 .. Cardinality(T), NEW j \in 1 .. Cardinality(T), i < j
        PROVE  entry_before(g, U[i].slug, U[j].slug)
    <3>1. j - 1 \in 1 .. Len(W) /\ j = (j - 1) + 1
      BY <1>8, <2>1, <2>3
    <3>2. CASE i = 1
      BY <1>3, <1>9, <1>13, <3>1, <3>2
    <3>3. CASE i - 1 \in 1 .. Len(W) /\ i = (i - 1) + 1
      <4>1. i - 1 < j - 1
        BY <2>3
      <4>. QED
        BY <1>12, <3>1, <3>3, <4>1
    <3>. QED
      BY <2>1, <3>2, <3>3
  <2>. QED
    BY <1>8, <1>9, <2>2, <2>3 DEF Listed
<1>15. U = collect_by_recency(g, T)
  BY <1>1, <1>14, ListedIsScan
<1>. QED
  BY <1>15 DEF U, W, l, C, Upsert

(* A process whose operation overlapped with no other: the others are idle,   *)
(* its lines are those of a scan of the directory as it still is, or of what   *)
(* the scan found and read of it, the counter is above the scanned ones and the temporary file is its own.               *)
Solo(p) == \A q \in Procs : q # p => op[q].pc = "idle"

Prepared(p) ==
    op[p].pc \in {"write", "rename"} =>
        \E S \in Scans(files) : \E g \in Readings(files, S) :
            /\ op[p].lines = collect_by_recency(g, S)
            /\ op[p].clear = Clear(files, S, g)
            /\ op[p].upd = Top(g, S) + 1

Staged(p) ==
    op[p].pc = "rename" =>
        tmp[op[p].slug] = [desc |-> op[p].desc, upd |-> op[p].upd]

SavedFirst(p) ==
    op[p].kind = "save" =>
        op[p].lines # <<>> /\ op[p].lines[1] = [slug |-> op[p].slug, desc |-> op[p].desc]

Exact(p) ==
    op[p].pc = "index" =>
        /\ Names(op[p].lines, files)
        /\ SavedFirst(p)
        /\ op[p].clear /\ Fits => op[p].lines = Listing(files)

Alone == \A p \in alone : Solo(p) /\ Prepared(p) /\ Staged(p) /\ Exact(p)

(* The step of a process that began alone. *)
LEMMA AloneStep ==
    ASSUME Types, Types', NEW p \in Procs, Others(p), Steps(p), p \in alone,
           Solo(p), Prepared(p), Staged(p), Exact(p)
    PROVE  Prepared(p)' /\ Staged(p)' /\ Exact(p)'
<1>1. WellFormed(op[p]) /\ op[p] \in Operations /\ files \in Files /\ files' \in Files
      /\ Idle.pc = "idle"
  BY DEF Types, Idle
<1>2. CASE Began(p) \/ Found(p) \/ Removed(p) \/ Ended(p) \/ Cached(p)
  <2>1. op'[p].pc \notin {"write", "rename", "index"}
    BY <1>1, <1>2 DEF Began, Found, Removed, Ended, Cached
  <2>. QED
    BY <2>1 DEF Prepared, Staged, Exact
<1>3. CASE Scanned(p)
  <2>1. op'[p].pc = "write" /\ files' = files
    BY <1>3 DEF Scanned
  <2>2. \E S \in Scans(files) : \E g \in Readings(files, S) :
           Scan(p, S, g) /\ op'[p].upd = Top(g, S) + 1
    BY <1>3 DEF Scanned
  <2>. QED
    BY <2>1, <2>2 DEF Scan, Prepared, Staged, Exact
<1>4. CASE Wrote(p)
  <2>1. /\ op'[p].pc = "rename" /\ op'[p].lines = op[p].lines
        /\ op'[p].clear = op[p].clear
        /\ op'[p].upd = op[p].upd /\ op'[p].slug = op[p].slug
        /\ op'[p].desc = op[p].desc /\ op[p].pc = "write" /\ files' = files
    BY <1>1, <1>4 DEF Wrote, Operations
  <2>2. op[p].slug \in Slugs
    BY <1>1, <2>1 DEF WellFormed
  <2>3. tmp'[op[p].slug] = [desc |-> op[p].desc, upd |-> op[p].upd]
    BY <1>4, <2>2 DEF Wrote, Types, Files
  <2>. QED
    BY <2>1, <2>3 DEF Prepared, Staged, Exact
<1>5. CASE Renamed(p)
  <2>. DEFINE s == op[p].slug
              d == op[p].desc
              n == op[p].upd
  <2>1. s \in Slugs /\ d \in Descs /\ n \in Nat /\ op'[p].pc = "index"
    BY <1>1, <1>5 DEF Renamed, WellFormed, Operations
  <2>2. files' = [files EXCEPT ![s] = [desc |-> d, upd |-> n]]
    BY <1>5 DEF Renamed, Staged
  <2>0. PICK S \in Scans(files) : \E g \in Readings(files, S) :
            /\ op[p].lines = collect_by_recency(g, S)
            /\ op[p].clear = Clear(files, S, g) /\ n = Top(g, S) + 1
    BY <1>5 DEF Renamed, Prepared
  <2>3. PICK g \in Readings(files, S) :
            /\ op[p].lines = collect_by_recency(g, S)
            /\ op[p].clear = Clear(files, S, g) /\ n = Top(g, S) + 1
    BY <2>0
  <2>. DEFINE h == [g EXCEPT ![s] = [desc |-> d, upd |-> n]]
              C == collect_by_recency(g, S)
  <2>4. /\ S \in SUBSET Slugs /\ S \subseteq Present(files) /\ g \in Files
        /\ \A t \in S : g[t].desc \in {files[t].desc, NoText}
    BY <1>1, ScanFacts, ReadingFacts
  <2>5. \A t \in S : g[t].upd < n
    <3>1. /\ Top(g, S) \in Nat /\ \A t \in S : g[t].upd <= Top(g, S)
          /\ \A t \in S : g[t].upd \in Nat
      BY <2>4, TopFacts DEF Files
    <3>. QED
      BY <2>3, <3>1
  <2>6. /\ Present(files') = Present(files) \cup {s}
        /\ files'[s].desc = d /\ \A t \in Slugs : t # s => files'[t] = files[t]
    <3>1. files'[s].desc = d /\ d # NoDesc
      BY <1>1, <2>1, <2>2, StoreAssumption DEF Files
    <3>2. \A t \in Slugs : t # s => files'[t] = files[t]
      BY <1>1, <2>2 DEF Files
    <3>. QED
      BY <2>1, <3>1, <3>2 DEF Present
  <2>7. /\ h \in Files /\ h[s].desc = d
        /\ \A t \in Slugs : t # s => h[t] = g[t]
        /\ SavedOver(g, S, s, d, n, h)
    BY <2>1, <2>4, <2>5 DEF Files, SavedOver
  <2>8. op'[p].lines = Upsert(C, s, d) /\ op'[p].slug = s /\ op'[p].desc = d
        /\ op'[p].clear = Clear(files, S, g)
    BY <1>5, <2>3 DEF Renamed, Same
  <2>14. g = files => h = files'
    BY <2>2
  <2>. HIDE DEF s, d, n, h, C
  <2>9. Upsert(C, s, d) = collect_by_recency(h, S \cup {s})
    BY <2>1, <2>4, <2>7, UpsertIsScan DEF C
  <2>10. Names(op'[p].lines, files')
    <3>. DEFINE T == S \cup {s}
    <3>1. T \in SUBSET Slugs /\ T \subseteq Present(files')
      BY <2>1, <2>4, <2>6
    <3>2. \A t \in T : h[t].desc \in {files'[t].desc, NoText}
      BY <2>1, <2>4, <2>6, <2>7
    <3>. HIDE DEF T
    <3>3. Names(collect_by_recency(h, T), files')
      BY <1>1, <2>7, <3>1, <3>2, ScanNames
    <3>. QED
      BY <2>8, <2>9, <3>3 DEF T
  <2>11. SavedFirst(p)'
    <3>. DEFINE X == [slug : Slugs, desc : Descs \cup {NoDesc}]
                l == [slug |-> s, desc |-> d]
                W == Without(C, s)
    <3>1. l \in X
      BY <2>1
    <3>2. C \in Seq(X)
      BY <2>4, Collected DEF C, Collection
    <3>. HIDE DEF X
    <3>3. W \in Seq(X)
      BY <3>2, WithoutLines
    <3>4. Upsert(C, s, d) = <<l>> \o W
      BY DEF Upsert
    <3>. HIDE DEF l, W
    <3>5. Upsert(C, s, d) # <<>> /\ Upsert(C, s, d)[1] = l
      BY <3>1, <3>3, <3>4
    <3>. QED
      BY <2>8, <3>5 DEF SavedFirst, l
  <2>12. ASSUME Fits', op'[p].clear PROVE op'[p].lines = Listing(files')
    <3>1. Cardinality(Present(files)) <= MaxFiles
      <4>1. /\ Present(files) \in SUBSET Slugs /\ Present(files') \in SUBSET Slugs
            /\ Present(files) \subseteq Present(files')
        BY <2>6 DEF Present
      <4>2. /\ Cardinality(Present(files)) \in Nat
            /\ Cardinality(Present(files')) \in Nat
            /\ Cardinality(Present(files)) <= Cardinality(Present(files'))
        BY <4>1, ClaimedFinite
      <4>. QED
        BY <2>12, <4>2, StoreAssumption DEF Fits
    <3>2. g = files /\ S = Present(files)
      BY <1>1, <2>8, <2>12, <3>1, ClearFacts
    <3>3. h = files' /\ S \cup {s} = Present(files')
      BY <2>6, <2>14, <3>2
    <3>. QED
      BY <2>8, <2>9, <3>3 DEF Listing
  <2>. QED
    BY <2>1, <2>10, <2>11, <2>12 DEF Prepared, Staged, Exact
<1>6. CASE Rescanned(p)
  <2>0. PICK S \in Scans(files) : \E g \in Readings(files, S) : Scan(p, S, g)
    BY <1>6 DEF Rescanned
  <2>1. PICK g \in Readings(files, S) : Scan(p, S, g)
    BY <2>0
  <2>2. Fits /\ Clear(files, S, g) => g = files /\ S = Present(files)
    BY <1>1, ClearFacts DEF Fits
  <2>3. files' = files /\ op'[p].pc = "index" /\ op'[p].kind = "delete"
    BY <1>6 DEF Rescanned, Same
  <2>4. Names(collect_by_recency(g, S), files)
    BY <1>1, ScanFacts, ReadingFacts, ScanNames
  <2>5. op'[p].lines = collect_by_recency(g, S) /\ op'[p].clear = Clear(files, S, g)
    BY <2>1 DEF Scan
  <2>6. Names(op'[p].lines, files') /\ SavedFirst(p)'
    BY <2>3, <2>4, <2>5 DEF SavedFirst
  <2>7. op'[p].clear /\ Fits' => op'[p].lines = Listing(files')
    BY <2>2, <2>3, <2>5 DEF Listing, Fits
  <2>. QED
    BY <2>3, <2>6, <2>7 DEF Prepared, Staged, Exact
<1>. QED
  BY <1>2, <1>3, <1>4, <1>5, <1>6 DEF Steps

(* The step of another one, which is idle before it and does not begin. *)
LEMMA AloneKept ==
    ASSUME Types, Types', NEW p \in Procs, Others(p), Steps(p), ~Began(p),
           NEW q \in Procs, q # p, op[p].pc = "idle",
           Solo(q), Prepared(q), Staged(q), Exact(q)
    PROVE  Solo(q)' /\ Prepared(q)' /\ Staged(q)' /\ Exact(q)'
<1>1. Idle.pc = "idle"
  BY DEF Idle
<1>2. Ended(p) \/ Cached(p)
  BY DEF Steps, Scanned, Wrote, Renamed, Found, Removed, Rescanned
<1>3. UNCHANGED <<files, tmp>> /\ op'[p].pc = "idle"
  BY <1>1, <1>2 DEF Ended, Cached
<1>4. op'[q] = op[q]
  BY DEF Others
<1>5. Solo(q)'
  BY <1>3 DEF Solo, Others
<1>6. Prepared(q)' /\ Staged(q)' /\ Exact(q)'
  BY <1>3, <1>4 DEF Prepared, Staged, Exact, Fits, SavedFirst, Names
<1>. QED
  BY <1>5, <1>6

LEMMA AloneNext == Types /\ Alone /\ [Next]_vars => Alone'
<1>. SUFFICES ASSUME Types, Alone, [Next]_vars PROVE Alone'
  OBVIOUS
<1>1. Types'
  BY TypesNext
<1>2. CASE UNCHANGED vars
  BY <1>2 DEF vars, Alone, Solo, Prepared, Staged, Exact, Fits, SavedFirst
<1>3. CASE Next
  <2>1. PICK p \in Procs : Others(p) /\ Steps(p)
    BY <1>3, StepCases
  <2>2. CASE Began(p)
    <3>. SUFFICES ASSUME NEW q \in alone'
                  PROVE  (Solo(q) /\ Prepared(q) /\ Staged(q) /\ Exact(q))'
      BY DEF Alone
    <3>1. q = p /\ \A r \in Procs : op[r].pc = "idle"
      BY <2>2 DEF Began
    <3>2. Solo(p)'
      BY <2>1, <3>1 DEF Solo, Others
    <3>3. Prepared(p)' /\ Staged(p)' /\ Exact(p)'
      BY <2>2 DEF Began, Prepared, Staged, Exact
    <3>. QED
      BY <3>1, <3>2, <3>3
  <2>3. CASE ~Began(p)
    <3>1. alone' \subseteq alone
      BY <2>1, <2>3 DEF Steps, Scanned, Wrote, Renamed, Found, Removed, Rescanned,
                        Ended, Cached
    <3>. SUFFICES ASSUME NEW q \in alone'
                  PROVE  (Solo(q) /\ Prepared(q) /\ Staged(q) /\ Exact(q))'
      BY DEF Alone
    <3>2. q \in alone /\ q \in Procs
      BY <3>1 DEF Types
    <3>3. Solo(q) /\ Prepared(q) /\ Staged(q) /\ Exact(q)
      BY <3>2 DEF Alone
    <3>4. CASE q = p
      <4>1. Solo(p)'
        BY <2>1, <3>3, <3>4 DEF Solo, Others
      <4>2. Prepared(p)' /\ Staged(p)' /\ Exact(p)'
        BY <1>1, <2>1, <3>2, <3>3, <3>4, AloneStep
      <4>. QED
        BY <3>4, <4>1, <4>2
    <3>5. CASE q # p
      <4>1. op[p].pc = "idle"
        BY <3>3, <3>5 DEF Solo
      <4>. QED
        BY <1>1, <2>1, <2>3, <3>2, <3>3, <3>5, <4>1, AloneKept
    <3>. QED
      BY <3>4, <3>5
  <2>. QED
    BY <2>2, <2>3
<1>. QED
  BY <1>2, <1>3

(* What MEMORY.md gets of an operation that overlapped with no other: no line *)
(* of a memory that is gone or with a description that is, the saved memory   *)
(* first, and, if its scan missed nothing and the directory is not over its   *)
(* capacity, what a new scan would list (write_index does not scan again).    *)
THEOREM IndexIsExact == Spec => []IndexExact
<1>1. Init => Alone
  BY DEF Init, Alone
<1>2. Alone => IndexExact
  BY DEF Alone, Exact, SavedFirst, Names, OfFiles, IndexExact, At
<1>. QED
  BY <1>1, <1>2, TypesInit, TypesNext, AloneNext, PTL DEF Spec

-----------------------------------------------------------------------------
(* The index in RAM. Each slug of the directory is listed once.               *)
LEMMA ListFacts ==
    ASSUME NEW f \in Files
    PROVE  /\ Len(spg_mem_list(f)) = Cardinality(Present(f))
           /\ \A j \in 1 .. Cardinality(Present(f)) : spg_mem_list(f)[j] \in Present(f)
<1>. DEFINE S == Present(f)
            n == Cardinality(S)
            upTo(s) == {t \in S : t <= s}
            B == [s \in S |-> {t \in S : t < s}]
            r == [s \in S |-> 1 + Cardinality(B[s])]
            L == spg_mem_list(f)
<1>1. S \in SUBSET Slugs /\ IsFiniteSet(S) /\ n \in Nat /\ \A s \in S : s \in Nat
  BY PresentFinite, StoreAssumption
<1>2. Linear(S, B)
  <2>. HIDE DEF S
  <2>. QED
    BY <1>1 DEF Linear
<1>3. Ranked(S, B, r)
  <2>1. r = [s \in S |-> 1 + Cardinality(B[s])]
    OBVIOUS
  <2>. HIDE DEF S, B, r
  <2>. QED
    BY <1>1, <1>2, <2>1, Ranking, Zenon
<1>4. \A s \in S : Cardinality(upTo(s)) = r[s]
  <2>. HIDE DEF S
  <2>. SUFFICES ASSUME NEW s \in S PROVE Cardinality(upTo(s)) = r[s]
    OBVIOUS
  <2>1. upTo(s) = B[s] \cup {s} /\ s \notin B[s] /\ B[s] \subseteq S
    BY <1>1
  <2>2. IsFiniteSet(B[s]) /\ Cardinality(B[s]) \in Nat
    BY <1>1, <2>1, FS_Subset, FS_CardinalityType
  <2>3. r[s] = 1 + Cardinality(B[s])
    OBVIOUS
  <2>. HIDE DEF B, r, upTo
  <2>4. Cardinality(B[s] \cup {s}) = Cardinality(B[s]) + 1
    BY <2>1, <2>2, FS_AddElement
  <2>. QED
    BY <2>1, <2>2, <2>3, <2>4
<1>5. L = [j \in 1 .. n |-> CHOOSE s \in S : Cardinality(upTo(s)) = j]
  BY DEF spg_mem_list
<1>. HIDE DEF S, n, B, r, upTo, L
<1>6. \A j \in 1 .. n : \E s \in S : Cardinality(upTo(s)) = j
  BY <1>3, <1>4 DEF Ranked, n
<1>7. \A j \in 1 .. n : L[j] \in S
  BY <1>5, <1>6
<1>8. Len(L) = n
  BY <1>1, <1>5
<1>. QED
  BY <1>7, <1>8 DEF L, S, n

(* The cache of a process that no other outdated is what a rebuild may give   *)
(* now, until the process itself changes the directory; the operation that    *)
(* does drops it at its end, and so does the death of the process.            *)
Held(c, f) == \E S \in Scans(f) : \E g \in Readings(f, S) : c = Rebuilt(f, S, g)

Fresh ==
    \A p \in Procs \ foreign :
        cache[p].valid /\ op[p].pc \notin {"rescan", "index"} => Held(cache[p], files)

LEMMA FreshStep ==
    ASSUME Types, Fresh, NEW p \in Procs, Others(p), Steps(p),
           NEW q \in Procs \ foreign', cache'[q].valid,
           op'[q].pc \notin {"rescan", "index"}
    PROVE  Held(cache'[q], files')
<1>1. files \in Files /\ cache \in [Procs -> Caches] /\ Idle.pc = "idle"
      /\ \A r \in Procs : op[r] \in Operations
  BY DEF Types, Idle
<1>2. CASE Renamed(p) \/ Removed(p)
  <2>1. op'[p].pc \in {"rescan", "index"}
    BY <1>2 DEF Renamed, Removed
  <2>2. q # p /\ cache' = cache
    BY <1>2, <2>1 DEF Renamed, Removed
  <2>3. q \in foreign'
    BY <1>2, <2>2 DEF Renamed, Removed, Mutated
  <2>. QED
    BY <2>3
<1>3. CASE \/ Began(p) \/ Scanned(p) \/ Wrote(p) \/ Found(p) \/ Rescanned(p)
  <2>1. UNCHANGED <<files, cache, foreign>>
    BY <1>3 DEF Began, Scanned, Wrote, Found, Rescanned
  <2>2. op[q].pc \notin {"rescan", "index"}
    <3>1. CASE q = p
      BY <1>3, <3>1 DEF Began, Scanned, Wrote, Found, Rescanned
    <3>2. CASE q # p
      BY <3>2 DEF Others
    <3>. QED
      BY <3>1, <3>2
  <2>. QED
    BY <2>1, <2>2 DEF Fresh
<1>4. CASE Ended(p)
  <2>1. files' = files
    BY <1>4 DEF Ended
  <2>2. CASE q = p
    <3>1. cache'[p].valid => UNCHANGED <<cache, foreign>>
                              /\ op[p].pc \in {"start", "write", "rename", "remove"}
      BY <1>1, <1>4, ColdTypes DEF Ended
    <3>. QED
      BY <2>1, <2>2, <3>1 DEF Fresh
  <2>3. CASE q # p
    <3>1. op[q].pc \notin {"rescan", "index"} /\ q \notin foreign /\ cache'[q] = cache[q]
      BY <1>1, <1>4, <2>3 DEF Ended, Others
    <3>. QED
      BY <2>1, <3>1 DEF Fresh
  <2>. QED
    BY <2>2, <2>3
<1>5. CASE Cached(p)
  <2>1. PICK S \in Scans(files) : \E g \in Readings(files, S) :
           cache' = [cache EXCEPT ![p] = Rebuilt(files, S, g)]
    BY <1>5 DEF Cached
  <2>2. files' = files /\ op' = op /\ foreign' = foreign \ {p}
    BY <1>5 DEF Cached
  <2>3. CASE q = p
    BY <1>1, <2>1, <2>2, <2>3 DEF Held
  <2>4. CASE q # p
    <3>1. q \notin foreign /\ cache'[q] = cache[q] /\ op[q].pc \notin {"rescan", "index"}
      BY <1>1, <2>1, <2>2, <2>4
    <3>. QED
      BY <2>2, <3>1 DEF Fresh
  <2>. QED
    BY <2>3, <2>4
<1>. QED
  BY <1>2, <1>3, <1>4, <1>5 DEF Steps

LEMMA FreshNext == Types /\ Fresh /\ [Next]_vars => Fresh'
<1>. SUFFICES ASSUME Types, Fresh, [Next]_vars PROVE Fresh'
  OBVIOUS
<1>1. CASE UNCHANGED vars
  BY <1>1 DEF vars, Fresh
<1>2. CASE Next
  <2>1. PICK p \in Procs : Others(p) /\ Steps(p)
    BY <1>2, StepCases
  <2>. QED
    BY <2>1, FreshStep DEF Fresh
<1>. QED
  BY <1>1, <1>2

(* What a fresh cache tells is what the directory tells. *)
Agrees(p) ==
    LET all  == spg_mem_list(files)
        mine == cache[p].lines
    IN  /\ Len(mine) = Min({TopK, Len(all)})
        /\ cache[p].more = Len(all) - Len(mine)
        /\ \A i \in DOMAIN mine :
              /\ mine[i].desc = spg_mem_directive(files, mine[i].slug)
              /\ \A j \in DOMAIN all :
                    files[all[j]].upd > files[mine[i].slug].upd =>
                        \E k \in 1..(i - 1) : mine[k].slug = all[j]

LEMMA FreshAgrees ==
    ASSUME Types, NEW p \in Procs, NEW S \in Scans(files), S = Present(files),
           cache[p] = Rebuilt(files, S, files), files \in Readings(files, S)
    PROVE  Agrees(p)
<1>. DEFINE n == Cardinality(S)
            C == collect_by_recency(files, S)
            all == spg_mem_list(files)
            mine == cache[p].lines
<1>1. files \in Files /\ S \in SUBSET Slugs /\ n \in Nat /\ TopK \in Nat
  BY ScanFacts, StoreAssumption DEF Types
<1>3. Len(all) = n /\ \A j \in 1 .. n : all[j] \in S
  BY <1>1, ListFacts
<1>4. /\ Len(mine) = IF n <= TopK THEN n ELSE TopK
      /\ \A i \in 1 .. Len(mine) : mine[i] = C[i]
      /\ mine \in Lines
  BY <1>1, RebuiltFacts DEF Caches
<1>5. cache[p].more = IF n > TopK THEN n - TopK ELSE 0
  BY DEF Rebuilt
<1>6. Collection(C, files, S)
  BY <1>1, Collected
<1>7. DOMAIN all = 1 .. n
  BY DEF spg_mem_list
<1>. HIDE DEF n, C, all, mine
<1>8. DOMAIN mine = 1 .. Len(mine) /\ Len(mine) \in Nat
      /\ \A i \in 1 .. Len(mine) : i \in 1 .. n
  BY <1>1, <1>4 DEF Lines
<1>9. Len(mine) = Min({TopK, Len(all)})
  <2>1. Min({TopK, n}) = IF TopK <= n THEN TopK ELSE n
    BY <1>1, MinPair
  <2>. QED
    BY <1>1, <1>3, <1>4, <2>1
<1>10. cache[p].more = Len(all) - Len(mine)
  BY <1>1, <1>3, <1>4, <1>5
<1>11. ASSUME NEW i \in 1 .. Len(mine)
       PROVE  /\ mine[i].slug \in S /\ Rank(files, S, mine[i].slug) = i
              /\ mine[i].desc = spg_mem_directive(files, mine[i].slug)
  <2>1. mine[i] = C[i] /\ i \in 1 .. n
    BY <1>4, <1>8
  <2>2. /\ C[i].slug \in S /\ Rank(files, S, C[i].slug) = i
        /\ C[i] = [slug |-> C[i].slug, desc |-> files[C[i].slug].desc]
    BY <1>6, <2>1 DEF Collection, n
  <2>. QED
    BY <2>1, <2>2 DEF spg_mem_directive
<1>12. ASSUME NEW i \in 1 .. Len(mine), NEW j \in 1 .. n,
              files[all[j]].upd > files[mine[i].slug].upd
       PROVE  \E k \in 1..(i - 1) : mine[k].slug = all[j]
  <2>. DEFINE k == Rank(files, S, all[j])
  <2>1. all[j] \in S /\ mine[i].slug \in S /\ Rank(files, S, mine[i].slug) = i
    BY <1>3, <1>11
  <2>2. entry_before(files, all[j], mine[i].slug)
    BY <1>12 DEF entry_before
  <2>3. k \in 1 .. n /\ k < i /\ C[k].slug = all[j]
    <3>1. k \in 1 .. n /\ k < i
      BY <1>1, <2>1, <2>2, Ranks DEF n
    <3>2. C[k].slug = all[j]
      BY <1>6, <2>1 DEF Collection
    <3>. QED
      BY <3>1, <3>2
  <2>. HIDE DEF k
  <2>4. k \in 1 .. (i - 1) /\ k \in 1 .. Len(mine)
    BY <1>8, <2>3
  <2>5. mine[k].slug = all[j]
    BY <1>4, <2>3, <2>4
  <2>. QED
    BY <2>4, <2>5
<1>. QED
  BY <1>7, <1>8, <1>9, <1>10, <1>11, <1>12 DEF Agrees, mine, all

LEMMA HeldReads ==
    ASSUME Types, NEW p \in Procs, Held(cache[p], files)
    PROVE  OfFiles(cache[p].lines) /\ (cache[p].clear /\ Fits => Agrees(p))
<1>0. PICK S \in Scans(files) : \E g \in Readings(files, S) : cache[p] = Rebuilt(files, S, g)
  BY DEF Held
<1>1. PICK g \in Readings(files, S) : cache[p] = Rebuilt(files, S, g)
  BY <1>0
<1>. DEFINE C == collect_by_recency(g, S)
            L == cache[p].lines
<1>2. files \in Files /\ cache[p].clear = Clear(files, S, g)
  BY <1>1, RebuiltFacts DEF Types
<1>3. Names(C, files) /\ DOMAIN C = 1 .. Cardinality(S)
  <2>1. S \in SUBSET Slugs /\ S \subseteq Present(files) /\ g \in Files
        /\ \A s \in S : g[s].desc \in {files[s].desc, NoText}
    BY <1>2, ScanFacts, ReadingFacts
  <2>. QED
    BY <1>2, <2>1, ScanNames DEF collect_by_recency
<1>4. /\ \A i \in 1 .. Len(L) : i \in 1 .. Cardinality(S) /\ L[i] = C[i]
      /\ L \in Lines
  BY <1>1, <1>2, RebuiltFacts DEF Caches
<1>. HIDE DEF C, L
<1>5. DOMAIN L = 1 .. Len(L)
  BY <1>4 DEF Lines
<1>6. OfFiles(L)
  BY <1>3, <1>4, <1>5 DEF OfFiles, Names
<1>7. ASSUME cache[p].clear, Fits PROVE Agrees(p)
  <2>1. g = files /\ S = Present(files)
    BY <1>2, <1>7, ClearFacts DEF Fits
  <2>. QED
    BY <1>1, <2>1, FreshAgrees
<1>. QED
  BY <1>6, <1>7 DEF L

(* spg_mem_index shows no memory that is gone and no description that is, and *)
(* after a scan that missed nothing answers what spg_mem_list and             *)
(* spg_mem_directive answer of the directory, after everything the process    *)
(* itself saved, deleted or failed to save; the operation that changes the    *)
(* directory drops the cache (index_valid) whatever becomes of MEMORY.md.     *)
THEOREM OwnWritesAreRead == Spec => []ReadYourWrites
<1>1. Init => Fresh
  BY ColdTypes DEF Init, Fresh
<1>2. Types /\ Fresh => ReadYourWrites
  <2>. SUFFICES ASSUME Types, Fresh, NEW p \in Procs \ foreign,
                       cache[p].valid, At(p, "idle")
                PROVE  OfFiles(cache[p].lines) /\ (cache[p].clear /\ Fits => Agrees(p))
    BY Zenon DEF ReadYourWrites, Agrees
  <2>1. Held(cache[p], files)
    BY DEF Fresh, At
  <2>. QED
    BY <2>1, HeldReads
<1>. QED
  BY <1>1, <1>2, TypesInit, TypesNext, FreshNext, PTL DEF Spec

-----------------------------------------------------------------------------
(* The promise of the store. Processes that write different slugs do not      *)
(* write each other's temporary files (<slug>.md.tmp), and a rename installs  *)
(* what its own operation wrote.                                              *)
PrivateSlugs == \A p, q \in Procs : p # q => Writes[p] \cap Writes[q] = {}

Owns == \A p \in Procs : (op[p].pc # "idle" => op[p].slug \in Writes[p]) /\ Staged(p)

LEMMA OwnsNext ==
    ASSUME PrivateSlugs
    PROVE  Types /\ Owns /\ [Next]_vars => Owns'
<1>. SUFFICES ASSUME Types, Owns, [Next]_vars PROVE Owns'
  OBVIOUS
<1>1. CASE UNCHANGED vars
  BY <1>1 DEF vars, Owns, Staged
<1>2. CASE Next
  <2>1. PICK p \in Procs : Others(p) /\ Steps(p)
    BY <1>2, StepCases
  <2>2. /\ tmp \in Files /\ op[p] \in Operations /\ Idle.pc = "idle"
        /\ \A q \in Procs : WellFormed(op[q])
    BY DEF Types, Idle
  <2>3. op'[p].pc # "idle" => op'[p].slug \in Writes[p]
    BY <2>1, <2>2 DEF Steps, Began, Scanned, Wrote, Renamed, Found, Removed, Rescanned,
                      Ended, Cached, Same, Owns, Operations
  <2>4. Staged(p)'
    <3>1. CASE Wrote(p)
      <4>1. /\ op[p].slug \in Slugs /\ op'[p].slug = op[p].slug
            /\ op'[p].desc = op[p].desc /\ op'[p].upd = op[p].upd
        BY <2>2, <3>1 DEF Wrote, WellFormed, Operations
      <4>2. tmp'[op[p].slug] = [desc |-> op[p].desc, upd |-> op[p].upd]
        BY <2>2, <3>1, <4>1 DEF Wrote, Files
      <4>. QED
        BY <4>1, <4>2 DEF Staged
    <3>2. CASE Cached(p)
      BY <3>2 DEF Cached, Owns, Staged
    <3>3. CASE ~Wrote(p) /\ ~Cached(p)
      <4>1. op'[p].pc # "rename"
        BY <2>1, <2>2, <3>3 DEF Steps, Began, Scanned, Renamed, Found, Removed, Rescanned,
                                Ended
      <4>. QED
        BY <4>1 DEF Staged
    <3>. QED
      BY <3>1, <3>2, <3>3
  <2>5. ASSUME NEW q \in Procs, q # p
        PROVE  (op'[q].pc # "idle" => op'[q].slug \in Writes[q]) /\ Staged(q)'
    <3>1. op'[q] = op[q] /\ (op[q].pc # "idle" => op[q].slug \in Writes[q])
          /\ Staged(q)
      BY <2>1, <2>5 DEF Others, Owns
    <3>2. tmp' = tmp \/ \E f : /\ op[p].pc # "idle"
                               /\ tmp' = [tmp EXCEPT ![op[p].slug] = f]
      BY <2>1 DEF Steps, Began, Scanned, Wrote, Renamed, Found, Removed, Rescanned,
                  Ended, Cached
    <3>3. op[p].pc # "idle" => op[p].slug \in Writes[p]
      BY DEF Owns
    <3>4. op[q].pc = "rename" => tmp'[op[q].slug] = tmp[op[q].slug]
      <4>. SUFFICES ASSUME op[q].pc = "rename" PROVE tmp'[op[q].slug] = tmp[op[q].slug]
        OBVIOUS
      <4>1. op[q].slug \in Writes[q] /\ op[q].slug \in Slugs
        BY <2>2, <3>1 DEF WellFormed
      <4>2. op[p].pc # "idle" => op[q].slug # op[p].slug
        BY <2>5, <3>3, <4>1 DEF PrivateSlugs
      <4>. QED
        BY <2>2, <3>2, <4>1, <4>2 DEF Files
    <3>. QED
      BY <3>1, <3>4 DEF Staged
  <2>. QED
    BY <2>3, <2>4, <2>5 DEF Owns
<1>. QED
  BY <1>1, <1>2

(* What Palace sees of a state (the INSTANCE of it in MemStore). *)
palaceOf == [s \in Slugs |-> files[s].desc]

phaseOf == [p \in Procs |->
               IF At(p, "idle") THEN "idle"
               ELSE IF op[p].pc \in {"rescan", "index"} THEN "applied" ELSE "called"]

wantedOf == [p \in Procs |->
                IF At(p, "idle") THEN [slug |-> NoDesc, desc |-> NoDesc]
                ELSE [slug |-> op[p].slug, desc |-> op[p].desc]]

(* The change of a save or a delete, as Palace sees it. *)
LEMMA AppliedOnce ==
    ASSUME Types, Owns, NEW p \in Procs, Others(p), Renamed(p) \/ Removed(p)
    PROVE  /\ phaseOf[p] = "called"
           /\ palaceOf' = [palaceOf EXCEPT ![wantedOf[p].slug] = wantedOf[p].desc]
           /\ phaseOf' = [phaseOf EXCEPT ![p] = "applied"]
           /\ wantedOf' = wantedOf
<1>1. WellFormed(op[p]) /\ op[p] \in Operations /\ files \in Files
  BY DEF Types
<1>2. /\ op[p].pc \in {"rename", "remove"} /\ op'[p].pc \in {"rescan", "index"}
      /\ Same(p) /\ op[p].slug \in Slugs
  BY <1>1 DEF Renamed, Removed, WellFormed
<1>3. /\ phaseOf[p] = "called"
      /\ wantedOf[p] = [slug |-> op[p].slug, desc |-> op[p].desc]
  BY <1>2 DEF phaseOf, wantedOf, At
<1>4. phaseOf' = [phaseOf EXCEPT ![p] = "applied"]
  BY <1>2 DEF phaseOf, At, Others
<1>5. wantedOf' = wantedOf
  BY <1>2 DEF wantedOf, At, Others, Same
<1>6. /\ files'[op[p].slug].desc = op[p].desc
      /\ \A s \in Slugs : s # op[p].slug => files'[s] = files[s]
  <2>1. CASE Renamed(p)
    <3>1. tmp[op[p].slug].desc = op[p].desc
      <4>1. Staged(p) /\ op[p].pc = "rename"
        BY <2>1 DEF Renamed, Owns
      <4>2. tmp[op[p].slug] = [desc |-> op[p].desc, upd |-> op[p].upd]
        BY <4>1 DEF Staged
      <4>. QED
        BY <4>2
    <3>. QED
      BY <1>1, <1>2, <2>1, <3>1 DEF Renamed, Files
  <2>2. CASE Removed(p)
    <3>1. op[p].desc = NoDesc
      BY <1>1, <2>2 DEF Removed, WellFormed
    <3>. QED
      BY <1>1, <1>2, <2>2, <3>1 DEF Removed, Files, Absent
  <2>. QED
    BY <2>1, <2>2
<1>7. palaceOf' = [palaceOf EXCEPT ![op[p].slug] = op[p].desc]
  BY <1>2, <1>6 DEF palaceOf
<1>. QED
  BY <1>3, <1>4, <1>5, <1>7

LEMMA StepImplements ==
    ASSUME Types, Types', Owns, [Next]_vars
    PROVE  [P!PNext]_P!pvars
<1>1. CASE UNCHANGED vars
  BY <1>1 DEF vars, P!pvars, At
<1>2. CASE Next
  <2>1. PICK p \in Procs : Others(p) /\ Steps(p)
    BY <1>2, StepCases
  <2>2. /\ WellFormed(op[p]) /\ op[p] \in Operations /\ op'[p] \in Operations
        /\ WellFormed(op'[p]) /\ Idle.pc = "idle"
    BY DEF Types, Idle
  <2>3. CASE Began(p)
    <3>. DEFINE r == [slug |-> op'[p].slug, desc |-> op'[p].desc]
    <3>1. r \in P!Requests
      BY <2>2, <2>3 DEF Began, WellFormed, Operations, P!Requests
    <3>2. phaseOf[p] = "idle" /\ phaseOf' = [phaseOf EXCEPT ![p] = "called"]
      BY <2>1, <2>3 DEF Began, phaseOf, At, Others
    <3>3. wantedOf' = [wantedOf EXCEPT ![p] = r]
      BY <2>1, <2>3 DEF Began, wantedOf, At, Others
    <3>4. palaceOf' = palaceOf
      BY <2>3 DEF Began, palaceOf
    <3>. HIDE DEF r
    <3>5. P!Call(p)
      BY <3>1, <3>2, <3>3, <3>4 DEF P!Call, palaceOf, phaseOf, wantedOf
    <3>. QED
      BY <3>5 DEF P!PNext
  <2>4. CASE Renamed(p) \/ Removed(p)
    <3>1. /\ phaseOf[p] = "called"
          /\ palaceOf' = [palaceOf EXCEPT ![wantedOf[p].slug] = wantedOf[p].desc]
          /\ phaseOf' = [phaseOf EXCEPT ![p] = "applied"]
          /\ wantedOf' = wantedOf
      BY <2>1, <2>4, AppliedOnce
    <3>2. P!Apply(p)
      BY <3>1 DEF P!Apply, palaceOf, phaseOf, wantedOf
    <3>. QED
      BY <3>2 DEF P!PNext
  <2>5. CASE Ended(p) /\ op[p].pc # "idle"
    <3>1. phaseOf[p] # "idle" /\ phaseOf' = [phaseOf EXCEPT ![p] = "idle"]
      BY <2>1, <2>2, <2>5 DEF Ended, phaseOf, At, Others
    <3>2. wantedOf' = [wantedOf EXCEPT ![p] = P!NoRequest]
      BY <2>1, <2>2, <2>5 DEF Ended, wantedOf, At, Others, P!NoRequest
    <3>3. palaceOf' = palaceOf
      BY <2>5 DEF Ended, palaceOf
    <3>4. P!Leave(p)
      BY <3>1, <3>2, <3>3 DEF P!Leave, palaceOf, phaseOf, wantedOf
    <3>. QED
      BY <3>4 DEF P!PNext
  <2>6. CASE \/ Scanned(p) \/ Wrote(p) \/ Found(p) \/ Rescanned(p) \/ Cached(p)
             \/ Ended(p) /\ op[p].pc = "idle"
    <3>1. palaceOf' = palaceOf
      BY <2>6 DEF Scanned, Wrote, Found, Rescanned, Cached, Ended, palaceOf
    <3>2. /\ op'[p].pc = "idle" <=> op[p].pc = "idle"
          /\ op'[p].pc \in {"rescan", "index"} <=> op[p].pc \in {"rescan", "index"}
          /\ op[p].pc # "idle" => Same(p)
      BY <2>2, <2>6 DEF Scanned, Wrote, Found, Rescanned, Cached, Ended, Same, Operations
    <3>3. phaseOf' = phaseOf
      BY <2>1, <3>2 DEF phaseOf, At, Others
    <3>4. wantedOf' = wantedOf
      BY <2>1, <3>2 DEF wantedOf, At, Others, Same
    <3>. QED
      BY <3>1, <3>3, <3>4 DEF P!pvars, palaceOf, phaseOf, wantedOf
  <2>. QED
    BY <2>1, <2>3, <2>4, <2>5, <2>6 DEF Steps
<1>. QED
  BY <1>1, <1>2

(* The store is a map in which a save or a delete takes effect once or, when  *)
(* it answers an error, not at all, whatever write fails or process dies      *)
(* (<slug>.md.tmp and rename), as long as no two processes write the same     *)
(* slug: with a shared slug one may rename what another one wrote.            *)
THEOREM StoreIsPalace == PrivateSlugs => (Spec => Implements)
<1>. SUFFICES ASSUME PrivateSlugs PROVE Spec => Implements
  OBVIOUS
<1>1. Init => Owns
  BY DEF Init, Owns, Staged, Idle
<1>2. Init => P!PInit
  <2>. SUFFICES ASSUME Init PROVE P!PInit
    OBVIOUS
  <2>1. palaceOf \in [Slugs -> Descs \cup {NoDesc}]
    BY TypesInit DEF Types, Files, palaceOf
  <2>2. phaseOf = [p \in Procs |-> "idle"] /\ wantedOf = [p \in Procs |-> P!NoRequest]
    BY DEF Init, phaseOf, wantedOf, At, Idle, P!NoRequest
  <2>. QED
    BY <2>1, <2>2 DEF P!PInit, palaceOf, phaseOf, wantedOf
<1>3. Types /\ Owns /\ [Next]_vars => Types' /\ Owns' /\ [P!PNext]_P!pvars
  BY TypesNext, OwnsNext, StepImplements
<1>. QED
  BY <1>1, <1>2, <1>3, TypesInit, PTL DEF Spec, Implements, P!PSpec

=============================================================================
