--------------------------- MODULE Journal_proofs ---------------------------
(***************************************************************************)
(* Proofs about Journal, for every set of contents and every bound.         *)
(***************************************************************************)
EXTENDS Journal, SequenceTheorems, FiniteSetTheorems, TLAPS

Rec == [seq : Nat \ {0}, prev : Seq(Contents), content : Contents]

Chunk == [rec : Rec, whole : BOOLEAN]

Queue == [rec : Rec, cut : BOOLEAN, begun : BOOLEAN]

-----------------------------------------------------------------------------
(* Sequences.                                                                 *)
LEMMA FirstOf ==
    ASSUME NEW X, NEW s \in Seq(X), NEW n \in Nat, n <= Len(s)
    PROVE  /\ SubSeq(s, 1, n) \in Seq(X) /\ Len(SubSeq(s, 1, n)) = n
           /\ \A i \in 1 .. n : SubSeq(s, 1, n)[i] = s[i]
<1>1. \A i \in 1 .. n : s[i] \in X
  OBVIOUS
<1>2. /\ SubSeq(s, 1, n) \in Seq(X)
      /\ Len(SubSeq(s, 1, n)) = IF 1 <= n THEN n - 1 + 1 ELSE 0
      /\ \A i \in 1 .. n - 1 + 1 : SubSeq(s, 1, n)[i] = s[1 + i - 1]
  BY <1>1, SubSeqProperties
<1>3. \A i \in 1 .. n : i \in 1 .. n - 1 + 1 /\ 1 + i - 1 = i
  OBVIOUS
<1>4. \A i \in 1 .. n : SubSeq(s, 1, n)[i] = s[i]
  BY <1>2, <1>3
<1>5. Len(SubSeq(s, 1, n)) = n
  BY <1>2
<1>. QED
  BY <1>2, <1>4, <1>5

LEMMA RestOf ==
    ASSUME NEW X, NEW s \in Seq(X), NEW n \in Nat, n <= Len(s)
    PROVE  /\ SubSeq(s, n + 1, Len(s)) \in Seq(X)
           /\ Len(SubSeq(s, n + 1, Len(s))) = Len(s) - n
           /\ \A i \in 1 .. (Len(s) - n) : SubSeq(s, n + 1, Len(s))[i] = s[n + i]
<1>. DEFINE a == n + 1
            l == Len(s)
            R == SubSeq(s, a, l)
<1>1. a \in Int /\ l \in Nat /\ \A i \in a .. l : s[i] \in X
  OBVIOUS
<1>2. /\ R \in Seq(X) /\ Len(R) = IF a <= l THEN l - a + 1 ELSE 0
      /\ \A i \in 1 .. l - a + 1 : R[i] = s[a + i - 1]
  <2>. HIDE DEF a, l
  <2>. QED
    BY <1>1, SubSeqProperties
<1>. HIDE DEF R
<1>3. Len(R) = l - n
  BY <1>1, <1>2
<1>4. \A i \in 1 .. (l - n) : i \in 1 .. l - a + 1 /\ a + i - 1 = n + i
  BY <1>1
<1>5. \A i \in 1 .. (l - n) : R[i] = s[n + i]
  BY <1>2, <1>4
<1>. QED
  BY <1>2, <1>3, <1>5 DEF R

LEMMA Retyped ==
    ASSUME NEW X, NEW Y, NEW s \in Seq(X), \A i \in 1 .. Len(s) : s[i] \in Y
    PROVE  s \in Seq(Y)
<1>. DEFINE n == Len(s)
<1>1. n \in Nat /\ s = [i \in 1 .. n |-> s[i]] /\ \A i \in 1 .. n : s[i] \in Y
  OBVIOUS
<1>. HIDE DEF n
<1>2. s \in [1 .. n -> Y]
  BY <1>1
<1>. QED
  BY <1>1, <1>2

LEMMA PrefixMeans ==
    ASSUME NEW X, NEW s \in Seq(X), NEW t \in Seq(X)
    PROVE  IsPrefix(s, t) <=> /\ Len(s) <= Len(t)
                              /\ \A i \in 1 .. Len(s) : s[i] = t[i]
<1>1. SubSeq(s, 1, Len(s)) = s
  BY SubSeqFull
<1>2. ASSUME Len(s) <= Len(t)
      PROVE  /\ SubSeq(t, 1, Len(s)) \in Seq(X) /\ Len(SubSeq(t, 1, Len(s))) = Len(s)
             /\ \A i \in 1 .. Len(s) : SubSeq(t, 1, Len(s))[i] = t[i]
  BY <1>2
<1>3. ASSUME Len(s) <= Len(t), \A i \in 1 .. Len(s) : s[i] = t[i]
      PROVE  s = SubSeq(t, 1, Len(s))
  <2>. DEFINE u == SubSeq(t, 1, Len(s))
  <2>1. u \in Seq(X) /\ Len(u) = Len(s) /\ \A i \in 1 .. Len(s) : s[i] = u[i]
    BY <1>2, <1>3
  <2>. HIDE DEF u
  <2>2. s = u
    BY <2>1, SeqEqual
  <2>. QED
    BY <2>2 DEF u
<1>. QED
  BY <1>1, <1>2, <1>3 DEF IsPrefix

LEMMA PrefixSelf ==
    ASSUME NEW X, NEW s \in Seq(X)
    PROVE  IsPrefix(s, s)
BY PrefixMeans

LEMMA PrefixEmpty ==
    ASSUME NEW X, NEW t \in Seq(X)
    PROVE  IsPrefix(<<>>, t)
<1>1. <<>> \in Seq(X) /\ Len(<<>>) = 0 /\ Len(t) \in Nat
  OBVIOUS
<1>2. Len(<<>>) <= Len(t) /\ \A i \in 1 .. Len(<<>>) : <<>>[i] = t[i]
  BY <1>1
<1>. QED
  BY <1>1, <1>2, PrefixMeans

LEMMA PrefixLonger ==
    ASSUME NEW X, NEW s \in Seq(X), NEW t \in Seq(X), NEW u \in Seq(X),
           IsPrefix(s, t), IsPrefix(t, u)
    PROVE  IsPrefix(s, u)
<1>1. /\ Len(s) <= Len(t) /\ \A i \in 1 .. Len(s) : s[i] = t[i]
      /\ Len(t) <= Len(u) /\ \A i \in 1 .. Len(t) : t[i] = u[i]
  BY PrefixMeans
<1>2. Len(s) <= Len(u) /\ \A i \in 1 .. Len(s) : s[i] = u[i]
  BY <1>1
<1>. QED
  BY <1>2, PrefixMeans

-----------------------------------------------------------------------------
(* What a write leaves. The entries waiting in the buffer all have the        *)
(* writer's present number and hash; only the first may be in the file in     *)
(* part, as its last chunk.                                                   *)
Queued(f, es, q, h) ==
    /\ es \in Seq(Queue)
    /\ \A k \in 1 .. Len(es) : /\ es[k].rec.seq = q /\ es[k].rec.prev = h
                               /\ es[k].begun => k = 1
    /\ Begun(es) => /\ Len(f) >= 1 /\ ~f[Len(f)].whole
                    /\ f[Len(f)].rec = es[1].rec

(* A file that has grown: what was whole is as it was, the last chunk may     *)
(* have been completed and the new chunks have one number and hash.           *)
Grown(f, g, q, h) ==
    /\ g \in Seq(Chunk) /\ Len(f) <= Len(g)
    /\ \A i \in 1 .. Len(f) : /\ g[i].rec = f[i].rec
                              /\ f[i].whole => g[i].whole
                              /\ i < Len(f) => g[i] = f[i]
                              /\ g[i] # f[i] => g[i].rec.seq = q
    /\ \A i \in (Len(f) + 1) .. Len(g) : g[i].rec.seq = q /\ g[i].rec.prev = h

Started(es) == IF Begun(es) THEN 1 ELSE 0

LEMMA BegunFirst ==
    ASSUME NEW es \in Seq(Queue)
    PROVE  Begun(es) <=> Len(es) >= 1 /\ es[1].begun
BY DEF Begun

LEMMA PutFacts ==
    ASSUME NEW f \in Seq(Chunk), NEW es, NEW q, NEW h, Queued(f, es, q, h)
    PROVE  /\ Grown(f, PutAll(f, es), q, h)
           /\ Len(PutAll(f, es)) = Len(f) + Len(es) - Started(es)
<1>. DEFINE cs == [i \in DOMAIN es |-> [rec |-> es[i].rec, whole |-> ~es[i].cut]]
            m == Len(es)
            b == Started(es)
            base == IF Begun(es) THEN SubSeq(f, 1, Len(f) - 1) ELSE f
            g == PutAll(f, es)
            l == Len(f) - b
<1>1. es \in Seq(Queue) /\ m \in Nat /\ DOMAIN es = 1 .. m /\ Len(f) \in Nat
  BY DEF Queued
<1>2. cs \in Seq(Chunk) /\ Len(cs) = m
      /\ \A i \in 1 .. m : cs[i].rec = es[i].rec
  <2>1. \A i \in 1 .. m : /\ [rec |-> es[i].rec, whole |-> ~es[i].cut] \in Chunk
                          /\ es[i] \in Queue
    <3>. SUFFICES ASSUME NEW i \in 1 .. m
                  PROVE  /\ [rec |-> es[i].rec, whole |-> ~es[i].cut] \in Chunk
                         /\ es[i] \in Queue
      OBVIOUS
    <3>1. es[i] \in Queue
      BY <1>1
    <3>2. es[i].rec \in Rec
      BY <3>1 DEF Queue
    <3>3. (~es[i].cut) \in BOOLEAN
      OBVIOUS
    <3>. QED
      BY <3>1, <3>2, <3>3 DEF Chunk
  <2>2. cs \in [1 .. m -> Chunk] /\ \A i \in 1 .. m : cs[i].rec = es[i].rec
    BY <1>1, <2>1
  <2>. HIDE DEF cs, m
  <2>. QED
    BY <1>1, <2>2
<1>3. /\ l \in Nat /\ base \in Seq(Chunk) /\ Len(base) = l
      /\ \A i \in 1 .. l : base[i] = f[i]
      /\ b \in {0, 1} /\ Len(f) = l + b
  <2>1. CASE Begun(es)
    <3>1. Len(f) >= 1 /\ Len(f) - 1 \in Nat
      BY <1>1, <2>1 DEF Queued
    <3>2. /\ SubSeq(f, 1, Len(f) - 1) \in Seq(Chunk)
          /\ Len(SubSeq(f, 1, Len(f) - 1)) = Len(f) - 1
          /\ \A i \in 1 .. (Len(f) - 1) : SubSeq(f, 1, Len(f) - 1)[i] = f[i]
      <4>. DEFINE n == Len(f) - 1
      <4>1. n \in Nat /\ n <= Len(f)
        BY <3>1
      <4>. HIDE DEF n
      <4>2. /\ SubSeq(f, 1, n) \in Seq(Chunk) /\ Len(SubSeq(f, 1, n)) = n
            /\ \A i \in 1 .. n : SubSeq(f, 1, n)[i] = f[i]
        BY <4>1, FirstOf
      <4>. QED
        BY <4>2 DEF n
    <3>. QED
      BY <2>1, <3>1, <3>2 DEF Started
  <2>2. CASE ~Begun(es)
    BY <1>1, <2>2 DEF Started
  <2>. QED
    BY <2>1, <2>2
<1>4. g = base \o cs
  BY DEF PutAll
<1>5. b = 1 => m >= 1 /\ Len(f) >= 1 /\ ~f[Len(f)].whole /\ f[Len(f)].rec = es[1].rec
  <2>1. b = 1 => Begun(es)
    BY DEF Started
  <2>. QED
    BY <1>1, <2>1, BegunFirst DEF Queued
<1>6. \A i \in 1 .. m : es[i].rec.seq = q /\ es[i].rec.prev = h
  BY DEF Queued
<1>. HIDE DEF cs, m, b, base, g, l
<1>7. /\ g \in Seq(Chunk) /\ Len(g) = l + m
      /\ \A i \in 1 .. l + m : g[i] = IF i <= l THEN base[i] ELSE cs[i - l]
  <2>1. /\ base \o cs \in Seq(Chunk) /\ Len(base \o cs) = Len(base) + Len(cs)
        /\ \A i \in 1 .. Len(base) + Len(cs) :
              (base \o cs)[i] = IF i <= Len(base) THEN base[i] ELSE cs[i - Len(base)]
    BY <1>2, <1>3, ConcatProperties
  <2>2. Len(base) = l /\ Len(cs) = m
    BY <1>2, <1>3
  <2>. QED
    BY <1>4, <2>1, <2>2
<1>8. \A i \in 1 .. l : g[i] = f[i]
  BY <1>1, <1>3, <1>7
<1>9. \A i \in (l + 1) .. (l + m) : /\ i - l \in 1 .. m /\ g[i] = cs[i - l]
                                    /\ g[i].rec = es[i - l].rec
  BY <1>1, <1>2, <1>3, <1>7
<1>10. \A i \in (l + 1) .. (l + m) : g[i].rec.seq = q /\ g[i].rec.prev = h
  BY <1>6, <1>9
<1>11. ASSUME NEW i \in 1 .. Len(f)
       PROVE  /\ g[i].rec = f[i].rec
              /\ f[i].whole => g[i].whole
              /\ i < Len(f) => g[i] = f[i]
              /\ g[i] # f[i] => g[i].rec.seq = q
  <2>1. CASE i \in 1 .. l
    BY <1>8, <2>1
  <2>2. CASE i = l + 1 /\ b = 1 /\ i = Len(f)
    <3>1. i \in (l + 1) .. (l + m) /\ i - l = 1
      BY <1>1, <1>3, <1>5, <2>2
    <3>. QED
      BY <1>5, <1>9, <1>10, <2>2, <3>1
  <2>. QED
    BY <1>3, <2>1, <2>2
<1>12. \A i \in (Len(f) + 1) .. Len(g) : g[i].rec.seq = q /\ g[i].rec.prev = h
  BY <1>1, <1>3, <1>7, <1>10
<1>13. Len(f) <= Len(g) /\ Len(g) = Len(f) + m - b
  BY <1>1, <1>3, <1>5, <1>7
<1>14. Grown(f, g, q, h)
  BY <1>7, <1>11, <1>12, <1>13 DEF Grown
<1>. QED
  BY <1>13, <1>14 DEF g, m, b

LEMMA TearGrows ==
    ASSUME NEW f \in Seq(Chunk), NEW g, NEW q, NEW h, Grown(f, g, q, h),
           NEW r \in Rec, r.seq = q, r.prev = h
    PROVE  /\ Grown(f, Append(g, [rec |-> r, whole |-> FALSE]), q, h)
           /\ Len(Append(g, [rec |-> r, whole |-> FALSE])) = Len(g) + 1
           /\ Append(g, [rec |-> r, whole |-> FALSE])[Len(g) + 1]
                 = [rec |-> r, whole |-> FALSE]
<1>. DEFINE c == [rec |-> r, whole |-> FALSE]
            G == Append(g, c)
<1>1. c \in Chunk /\ c.rec = r
  BY DEF Chunk
<1>2. g \in Seq(Chunk) /\ Len(g) \in Nat /\ Len(f) \in Nat /\ Len(f) <= Len(g)
  BY DEF Grown
<1>. HIDE DEF c
<1>3. /\ G \in Seq(Chunk) /\ Len(G) = Len(g) + 1 /\ G[Len(g) + 1] = c
      /\ \A i \in 1 .. Len(g) : G[i] = g[i]
  BY <1>1, <1>2
<1>. HIDE DEF G
<1>4. \A i \in 1 .. Len(f) : i \in 1 .. Len(g)
  BY <1>2
<1>5. \A i \in (Len(f) + 1) .. Len(G) : G[i].rec.seq = q /\ G[i].rec.prev = h
  BY <1>1, <1>2, <1>3 DEF Grown
<1>6. Grown(f, G, q, h)
  BY <1>2, <1>3, <1>4, <1>5 DEF Grown
<1>. QED
  BY <1>3, <1>6 DEF G, c

LEMMA EntryQueued ==
    ASSUME NEW f, NEW es, Queued(f, es, next, last), NEW c \in Contents,
           next \in Nat \ {0}, last \in Seq(Contents), NEW cut \in BOOLEAN
    PROVE  /\ Queued(f, Append(es, Entry(c, cut)), next, last)
           /\ Len(Append(es, Entry(c, cut))) = Len(es) + 1
           /\ Started(Append(es, Entry(c, cut))) = Started(es)
<1>. DEFINE e == Entry(c, cut)
            E == Append(es, e)
<1>1. /\ e \in Queue /\ e.rec.seq = next /\ e.rec.prev = last /\ e.begun = FALSE
  BY DEF Entry, Record, Queue, Rec
<1>2. es \in Seq(Queue) /\ Len(es) \in Nat
  BY DEF Queued
<1>. HIDE DEF e
<1>3. /\ E \in Seq(Queue) /\ Len(E) = Len(es) + 1 /\ E[Len(es) + 1] = e
      /\ \A i \in 1 .. Len(es) : E[i] = es[i]
  BY <1>1, <1>2
<1>. HIDE DEF E
<1>4. Begun(E) <=> Begun(es)
  <2>1. Len(es) = 0 => ~Begun(E) /\ ~Begun(es)
    <3>1. Len(es) = 0 => E[1] = e
      BY <1>3
    <3>2. /\ Begun(E) <=> Len(E) >= 1 /\ E[1].begun
          /\ Begun(es) <=> Len(es) >= 1 /\ es[1].begun
      BY <1>2, <1>3, BegunFirst
    <3>. QED
      BY <1>1, <3>1, <3>2
  <2>2. Len(es) >= 1 => E[1] = es[1] /\ Len(E) >= 1
    BY <1>2, <1>3
  <2>. QED
    BY <1>2, <1>3, <2>1, <2>2, BegunFirst
<1>5. Begun(es) => E[1] = es[1]
  BY <1>2, <1>3, BegunFirst
<1>6. \A k \in 1 .. Len(E) : /\ E[k].rec.seq = next /\ E[k].rec.prev = last
                             /\ E[k].begun => k = 1
  <2>1. \A k \in 1 .. Len(E) : k \in 1 .. Len(es) \/ k = Len(es) + 1
    BY <1>2, <1>3
  <2>. QED
    BY <1>1, <1>3, <2>1 DEF Queued
<1>7. Queued(f, E, next, last)
  BY <1>3, <1>4, <1>5, <1>6 DEF Queued
<1>. QED
  BY <1>3, <1>4, <1>7 DEF E, e, Started

(* A write that fails: what is in the file has grown, what is left waits. *)
Failed(es, q, h) ==
    /\ Grown(file, file', q, h)
    /\ Queued(file', buf', q, h)
    /\ Len(file') + Len(buf') - Started(buf') <= Len(file) + Len(es) - Started(es)
    /\ Len(file') <= Len(file) + Len(es)

LEMMA Empty ==
    ASSUME NEW f, NEW q, NEW h
    PROVE  Queued(f, <<>>, q, h) /\ Started(<<>>) = 0
BY DEF Queued, Begun, Started

LEMMA FailGrows ==
    ASSUME file \in Seq(Chunk), NEW es, NEW q, NEW h, Queued(file, es, q, h),
           NEW n \in Nat, n <= Len(es), WriteFails(es, n)
    PROVE  Failed(es, q, h)
<1>. DEFINE m == Len(es)
            head == SubSeq(es, 1, n)
            rest == SubSeq(es, n + 1, m)
            done == PutAll(file, head)
            b == Started(es)
<1>1. es \in Seq(Queue) /\ m \in Nat
  BY DEF Queued
<1>2. /\ head \in Seq(Queue) /\ Len(head) = n /\ \A i \in 1 .. n : head[i] = es[i]
      /\ rest \in Seq(Queue) /\ Len(rest) = m - n
      /\ \A i \in 1 .. (m - n) : rest[i] = es[n + i]
  BY <1>1, FirstOf, RestOf
<1>3. \/ /\ file' = done
         /\ buf' = rest \/ buf' = <<>>
      \/ /\ rest # <<>> /\ ~Begun(rest)
         /\ file' = Append(done, [rec |-> Head(rest).rec, whole |-> FALSE])
         /\ \/ buf' = <<[Head(rest) EXCEPT !.begun = TRUE]>> \o Tail(rest)
            \/ buf' = <<>>
  BY DEF WriteFails
<1>. HIDE DEF head, rest, m
<1>4. /\ \A k \in 1 .. m : /\ es[k].rec.seq = q /\ es[k].rec.prev = h
                           /\ es[k].begun => k = 1
      /\ Begun(es) => /\ Len(file) >= 1 /\ ~file[Len(file)].whole
                      /\ file[Len(file)].rec = es[1].rec
  BY DEF Queued, m
<1>5. /\ \A k \in 1 .. n : /\ head[k].rec.seq = q /\ head[k].rec.prev = h
                           /\ head[k].begun => k = 1
      /\ Begun(head) <=> Begun(es) /\ n >= 1
      /\ Begun(head) => head[1].rec = es[1].rec
  <2>1. n <= m
    BY DEF m
  <2>2. \A k \in 1 .. n : head[k] = es[k] /\ k \in 1 .. m
    BY <1>1, <1>2, <2>1
  <2>3. Begun(head) <=> n >= 1 /\ head[1].begun
    BY <1>2, BegunFirst
  <2>4. Begun(es) <=> m >= 1 /\ es[1].begun
    BY <1>1, BegunFirst DEF m
  <2>. QED
    BY <1>1, <1>4, <2>1, <2>2, <2>3, <2>4
<1>6. Queued(file, head, q, h)
  BY <1>2, <1>4, <1>5 DEF Queued
<1>7. /\ Grown(file, done, q, h) /\ Len(done) = Len(file) + n - Started(head)
      /\ done \in Seq(Chunk) /\ Len(done) \in Nat
  BY <1>2, <1>6, PutFacts DEF Grown
<1>8. /\ \A k \in 1 .. (m - n) : /\ rest[k].rec.seq = q /\ rest[k].rec.prev = h
                                 /\ rest[k].begun => k = 1 /\ n = 0
      /\ Begun(rest) <=> Begun(es) /\ n = 0
      /\ Begun(rest) => rest[1].rec = es[1].rec
  <2>1. n <= m
    BY DEF m
  <2>2. \A k \in 1 .. (m - n) : rest[k] = es[n + k] /\ n + k \in 1 .. m
    BY <1>1, <1>2, <2>1
  <2>3. Begun(rest) <=> m - n >= 1 /\ rest[1].begun
    BY <1>2, BegunFirst
  <2>4. Begun(es) <=> m >= 1 /\ es[1].begun
    BY <1>1, BegunFirst DEF m
  <2>. QED
    BY <1>1, <1>4, <2>1, <2>2, <2>3, <2>4, SMTT(30)
<1>9. n = 0 => done = file
  <2>1. n = 0 => head = <<>>
    BY <1>2
  <2>2. PutAll(file, <<>>) = file
    <3>1. [i \in DOMAIN <<>> |-> [rec |-> <<>>[i].rec, whole |-> ~<<>>[i].cut]] = <<>>
      OBVIOUS
    <3>2. file \o <<>> = file
      BY ConcatEmptySeq
    <3>. QED
      BY <3>1, <3>2 DEF PutAll, Begun
  <2>. QED
    BY <2>1, <2>2
<1>10. Queued(done, rest, q, h)
  BY <1>2, <1>4, <1>8, <1>9 DEF Queued
<1>11. Started(es) = Started(head) + Started(rest) /\ Started(head) \in 0 .. n
       /\ Started(rest) \in {0, 1} /\ Len(file) \in Nat
  BY <1>5, <1>8 DEF Started
<1>. HIDE DEF done, b
<1>12. n <= m
  BY DEF m
<1>13. CASE file' = done /\ (buf' = rest \/ buf' = <<>>)
  <2>1. CASE buf' = rest
    <3>1. /\ Grown(file, file', q, h) /\ Queued(file', buf', q, h)
          /\ Len(buf') = m - n /\ Started(buf') = Started(rest)
      BY <1>2, <1>7, <1>10, <1>13, <2>1
    <3>2. Len(file') + (m - n) - Started(rest) <= Len(file) + m - Started(es)
          /\ Len(file') <= Len(file) + m
      BY <1>1, <1>7, <1>11, <1>12, <1>13, SMTT(30)
    <3>. QED
      BY <3>1, <3>2 DEF Failed, m
  <2>2. CASE buf' = <<>>
    <3>1. Len(done) - 0 <= Len(file) + m - Started(es)
      <4>1. m - n \in Nat /\ (Begun(rest) => m - n >= 1)
        BY <1>1, <1>2, BegunFirst
      <4>2. Started(rest) <= m - n
        BY <4>1 DEF Started
      <4>. QED
        BY <1>1, <1>7, <1>11, <4>1, <4>2
    <3>. QED
      <4>1. Len(buf') = 0 /\ Started(buf') = 0 /\ Queued(file', buf', q, h)
        BY <2>2, Empty
      <4>2. Len(done) <= Len(file) + m
        BY <1>1, <1>7, <1>11, <1>12
      <4>. QED
        BY <1>7, <1>13, <3>1, <4>1, <4>2 DEF Failed, m
  <2>. QED
    BY <1>13, <2>1, <2>2
<1>14. CASE /\ rest # <<>> /\ ~Begun(rest)
            /\ file' = Append(done, [rec |-> Head(rest).rec, whole |-> FALSE])
            /\ \/ buf' = <<[Head(rest) EXCEPT !.begun = TRUE]>> \o Tail(rest)
               \/ buf' = <<>>
  <2>. DEFINE r == rest[1].rec
              e == [rest[1] EXCEPT !.begun = TRUE]
              B == <<e>> \o Tail(rest)
  <2>1. Len(rest) >= 1 /\ Head(rest) = rest[1] /\ rest[1] \in Queue /\ m - n >= 1
    BY <1>2, <1>14
  <2>2. r \in Rec /\ r.seq = q /\ r.prev = h
    BY <1>1, <1>2, <1>8, <2>1 DEF Queue
  <2>3. file' = Append(done, [rec |-> r, whole |-> FALSE])
    BY <1>14, <2>1
  <2>4. /\ Grown(file, file', q, h) /\ Len(file') = Len(done) + 1
        /\ file'[Len(done) + 1] = [rec |-> r, whole |-> FALSE]
    <3>. HIDE DEF r
    <3>. QED
      BY <1>7, <2>2, <2>3, TearGrows
  <2>5. e \in Queue /\ e.rec = r /\ e.begun
    BY <2>1 DEF Queue
  <2>6. Tail(rest) \in Seq(Queue) /\ Len(Tail(rest)) = m - n - 1
        /\ \A i \in 1 .. (m - n - 1) : Tail(rest)[i] = rest[i + 1]
    BY <1>2, <1>14, HeadTailProperties
  <2>. HIDE DEF e, r
  <2>7. /\ B \in Seq(Queue) /\ Len(B) = m - n /\ B[1] = e
        /\ \A i \in 2 .. (m - n) : B[i] = rest[i]
    <3>. DEFINE T == Tail(rest)
    <3>1. /\ B \in Seq(Queue) /\ Len(B) = 1 + Len(T)
          /\ \A i \in 1 .. 1 + Len(T) : B[i] = IF i <= 1 THEN <<e>>[i] ELSE T[i - 1]
      <4>1. <<e>> \in Seq(Queue) /\ Len(<<e>>) = 1 /\ T \in Seq(Queue)
        BY <2>5, <2>6
      <4>2. B = <<e>> \o T
        OBVIOUS
      <4>. HIDE DEF T, B
      <4>3. /\ <<e>> \o T \in Seq(Queue) /\ Len(<<e>> \o T) = Len(<<e>>) + Len(T)
            /\ \A i \in 1 .. Len(<<e>>) + Len(T) :
                  (<<e>> \o T)[i] = IF i <= Len(<<e>>) THEN <<e>>[i] ELSE T[i - Len(<<e>>)]
        BY <4>1, ConcatProperties
      <4>. QED
        BY <4>1, <4>2, <4>3
    <3>2. Len(B) = m - n
      BY <1>1, <2>1, <2>6, <3>1
    <3>3. \A i \in 2 .. (m - n) : i - 1 \in 1 .. (m - n - 1) /\ (i - 1) + 1 = i /\ ~(i <= 1)
      BY <1>1, <2>1
    <3>4. \A i \in 2 .. (m - n) : B[i] = T[i - 1]
      BY <1>1, <2>1, <2>6, <3>1, <3>3
    <3>. HIDE DEF B
    <3>. QED
      BY <2>1, <2>6, <3>1, <3>2, <3>3, <3>4
  <2>. HIDE DEF B
  <2>8. Begun(B)
    BY <2>1, <2>5, <2>7, BegunFirst
  <2>9. Queued(file', B, q, h)
    <3>1. \A k \in 1 .. (m - n) : k = 1 \/ k \in 2 .. (m - n)
      BY <1>1
    <3>2. \A k \in 2 .. (m - n) : k \in 1 .. (m - n) /\ k # 1
      BY <1>1
    <3>3. \A k \in 1 .. Len(B) : /\ B[k].rec.seq = q /\ B[k].rec.prev = h
                                 /\ B[k].begun => k = 1
      BY <1>8, <2>2, <2>5, <2>7, <3>1, <3>2
    <3>4. Len(file') >= 1 /\ ~file'[Len(file')].whole /\ file'[Len(file')].rec = B[1].rec
      BY <1>7, <2>4, <2>5, <2>7
    <3>. QED
      BY <2>7, <3>3, <3>4 DEF Queued
  <2>10. Started(rest) = 0 /\ Started(B) = 1
    BY <1>14, <2>8 DEF Started
  <2>11. CASE buf' = B
    <3>1. Len(file') + Len(buf') - Started(buf') <= Len(file) + m - Started(es)
          /\ Len(file') <= Len(file) + m
      <4>1. /\ Len(file') = Len(file) + n - Started(head) + 1
            /\ Len(buf') = m - n /\ Started(buf') = 1
            /\ Started(es) = Started(head)
        BY <1>7, <1>11, <2>4, <2>7, <2>10, <2>11
      <4>2. Started(head) \in Nat /\ Len(file) \in Nat /\ m \in Nat /\ n \in Nat
            /\ m - n >= 1
        BY <1>1, <1>11, <2>1
      <4>. QED
        BY <4>1, <4>2, SMTT(30)
    <3>. QED
      BY <2>4, <2>9, <2>11, <3>1 DEF Failed, m
  <2>12. CASE buf' = <<>>
    <3>1. Len(file') + 0 - 0 <= Len(file) + m - Started(es)
          /\ Len(file') <= Len(file) + m
      BY <1>1, <1>7, <1>11, <2>1, <2>4, <2>10
    <3>2. Len(buf') = 0 /\ Started(buf') = 0 /\ Queued(file', buf', q, h)
      BY <2>12, Empty
    <3>. QED
      BY <2>4, <3>1, <3>2 DEF Failed, m
  <2>. QED
    BY <1>14, <2>1, <2>11, <2>12 DEF B, e
<1>. QED
  BY <1>3, <1>13, <1>14

-----------------------------------------------------------------------------
(* The chain. A chunk never has a number above its place in the file, and one *)
(* that is at its place comes after whole chunks at theirs, with the contents *)
(* its hash stands for: an append that failed leaves the writer's number      *)
(* behind the file for good, unless nothing of its record reached the file.   *)
Links(f, i) ==
    /\ Len(f[i].rec.prev) = i - 1
    /\ \A j \in 1 .. (i - 1) : /\ f[j].whole /\ f[j].rec.seq = j
                               /\ f[j].rec.content = f[i].rec.prev[j]

Linked(f) ==
    \A i \in 1 .. Len(f) : /\ f[i].rec.seq <= i
                           /\ f[i].rec.seq = i => Links(f, i)

(* The file begins with these contents. *)
Holds(f, h) ==
    /\ Len(h) <= Len(f)
    /\ \A j \in 1 .. Len(h) : /\ f[j].whole /\ f[j].rec.seq = j
                              /\ f[j].rec.content = h[j]

(* The writer's hash is behind the file, or just what the file holds. *)
Behind(f, h) == Len(h) <= Len(f) /\ (Len(f) = Len(h) => Holds(f, h))

LEMMA HoldsGrown ==
    ASSUME NEW f \in Seq(Chunk), NEW g, NEW q, NEW h, Grown(f, g, q, h),
           NEW t \in Seq(Contents), Holds(f, t)
    PROVE  Holds(g, t)
<1>1. /\ Len(t) \in Nat /\ Len(f) \in Nat /\ Len(g) \in Nat
      /\ Len(t) <= Len(f) /\ Len(f) <= Len(g)
  BY DEF Grown, Holds
<1>2. \A j \in 1 .. Len(t) : j \in 1 .. Len(f)
  BY <1>1
<1>. QED
  BY <1>1, <1>2 DEF Grown, Holds

LEMMA LinkedGrown ==
    ASSUME NEW f \in Seq(Chunk), NEW g, NEW h \in Seq(Contents), NEW q, q = Len(h) + 1,
           Grown(f, g, q, h), Linked(f), Behind(f, h)
    PROVE  Linked(g)
<1>1. /\ Len(h) \in Nat /\ Len(f) \in Nat /\ Len(g) \in Nat /\ Len(f) <= Len(g)
      /\ Len(h) <= Len(f)
  BY DEF Grown, Behind
<1>2. ASSUME NEW i \in 1 .. Len(f)
      PROVE  g[i].rec.seq <= i /\ (g[i].rec.seq = i => Links(g, i))
  <2>1. g[i].rec = f[i].rec
    BY DEF Grown
  <2>2. \A j \in 1 .. (i - 1) : j \in 1 .. Len(f)
    BY <1>1
  <2>3. \A j \in 1 .. (i - 1) : g[j].rec = f[j].rec /\ (f[j].whole => g[j].whole)
    BY <2>2 DEF Grown
  <2>4. f[i].rec.seq <= i /\ (f[i].rec.seq = i => Links(f, i))
    BY DEF Linked
  <2>. QED
    BY <2>1, <2>3, <2>4 DEF Links
<1>3. ASSUME NEW i \in (Len(f) + 1) .. Len(g)
      PROVE  g[i].rec.seq <= i /\ (g[i].rec.seq = i => Links(g, i))
  <2>1. g[i].rec.seq = q /\ g[i].rec.prev = h
    BY DEF Grown
  <2>2. q <= i
    BY <1>1
  <2>3. ASSUME q = i PROVE Links(g, i)
    <3>1. Len(h) = Len(f) /\ i - 1 = Len(h)
      BY <1>1, <2>3
    <3>2. Holds(f, h)
      BY <3>1 DEF Behind
    <3>3. Holds(g, h)
      BY <3>2, HoldsGrown
    <3>. QED
      BY <2>1, <3>1, <3>3 DEF Links, Holds
  <2>. QED
    BY <2>1, <2>2, <2>3
<1>4. \A i \in 1 .. Len(g) : i \in 1 .. Len(f) \/ i \in (Len(f) + 1) .. Len(g)
  BY <1>1
<1>. QED
  BY <1>2, <1>3, <1>4 DEF Linked

LEMMA BehindGrown ==
    ASSUME NEW f \in Seq(Chunk), NEW g, NEW h \in Seq(Contents), NEW q,
           Grown(f, g, q, h), Behind(f, h)
    PROVE  Behind(g, h)
<1>1. /\ Len(h) \in Nat /\ Len(f) \in Nat /\ Len(g) \in Nat /\ Len(f) <= Len(g)
      /\ Len(h) <= Len(f)
  BY DEF Grown, Behind
<1>2. Len(g) = Len(h) => Holds(g, h)
  BY <1>1, HoldsGrown DEF Behind
<1>. QED
  BY <1>1, <1>2 DEF Behind

(* One record, nothing waiting: it becomes the last chunk. *)
LEMMA PutOne ==
    ASSUME NEW f \in Seq(Chunk), NEW r \in Rec
    PROVE  PutAll(f, Append(<<>>, [rec |-> r, cut |-> FALSE, begun |-> FALSE]))
              = Append(f, [rec |-> r, whole |-> TRUE])
<1>. DEFINE e == [rec |-> r, cut |-> FALSE, begun |-> FALSE]
            es == Append(<<>>, e)
            cs == [i \in DOMAIN es |-> [rec |-> es[i].rec, whole |-> ~es[i].cut]]
            c == [rec |-> r, whole |-> TRUE]
<1>1. /\ es = <<e>> /\ e \in Queue /\ DOMAIN es = 1 .. 1 /\ es[1] = e
      /\ e.rec = r /\ ~e.cut /\ ~e.begun
  BY DEF Queue
<1>2. ~Begun(es)
  BY <1>1 DEF Begun
<1>3. c \in Chunk
  BY DEF Chunk
<1>4. cs = <<c>>
  <2>1. es[1].rec = r /\ (~es[1].cut) = TRUE
    BY <1>1
  <2>2. cs = [i \in 1 .. 1 |-> c]
    <3>1. \A i \in DOMAIN es : [rec |-> es[i].rec, whole |-> ~es[i].cut] = c
      <4>1. \A i \in DOMAIN es : i = 1
        BY <1>1
      <4>. HIDE DEF e, es
      <4>. QED
        BY <2>1, <4>1
    <3>2. DOMAIN es = 1 .. 1
      BY <1>1
    <3>. HIDE DEF c, e, es
    <3>. QED
      BY <3>1, <3>2
  <2>3. <<c>> = [i \in 1 .. 1 |-> c]
    <3>. HIDE DEF c
    <3>. QED
      OBVIOUS
  <2>. QED
    BY <2>2, <2>3
<1>5. PutAll(f, es) = f \o cs
  BY <1>2 DEF PutAll
<1>. HIDE DEF cs, c, es
<1>6. f \o <<c>> = Append(f, c)
  BY <1>3, AppendIsConcat
<1>. QED
  BY <1>4, <1>5, <1>6 DEF es, c

(* An append that succeeds: the hash is again behind the file or what it      *)
(* holds. It is what the file holds only if nothing was waiting.              *)
LEMMA AppendHolds ==
    ASSUME NEW f \in Seq(Chunk), NEW h \in Seq(Contents), NEW c \in Contents,
           Holds(f, h), Len(f) = Len(h)
    PROVE  Holds(Append(f, [rec |-> [seq |-> Len(h) + 1, prev |-> h, content |-> c],
                            whole |-> TRUE]), Append(h, c))
<1>. DEFINE k == [rec |-> [seq |-> Len(h) + 1, prev |-> h, content |-> c], whole |-> TRUE]
            g == Append(f, k)
            t == Append(h, c)
            n == Len(h)
<1>1. n \in Nat /\ Len(f) = n
  OBVIOUS
<1>2. k \in Chunk /\ k.whole /\ k.rec.seq = n + 1 /\ k.rec.content = c
  BY <1>1 DEF Chunk, Rec
<1>. HIDE DEF k
<1>3. Len(g) = n + 1 /\ g[n + 1] = k /\ \A j \in 1 .. n : g[j] = f[j]
  BY <1>1, <1>2
<1>4. Len(t) = n + 1 /\ t[n + 1] = c /\ \A j \in 1 .. n : t[j] = h[j]
  BY <1>1
<1>. HIDE DEF g, t
<1>5. ASSUME NEW j \in 1 .. (n + 1)
      PROVE  g[j].whole /\ g[j].rec.seq = j /\ g[j].rec.content = t[j]
  <2>1. CASE j \in 1 .. n
    BY <1>3, <1>4, <2>1 DEF Holds
  <2>2. CASE j = n + 1
    BY <1>2, <1>3, <1>4, <2>2
  <2>. QED
    BY <1>1, <2>1, <2>2
<1>. HIDE DEF n
<1>6. Holds(g, t)
  BY <1>1, <1>3, <1>4, <1>5 DEF Holds
<1>. QED
  BY <1>6 DEF g, t, k, n

-----------------------------------------------------------------------------
(* The invariant: types first. *)
Types ==
    /\ up \in BOOLEAN /\ broken \in BOOLEAN /\ opens \in 0 .. MaxOpens
    /\ last \in Seq(Contents) /\ next = Len(last) + 1
    /\ file \in Seq(Chunk)
    /\ Queued(file, buf, next, last)
    /\ reader \in [who : {"none", "audit", "recovery"}, at : 0 .. MaxChunks,
                   last : Seq(Contents),
                   st : {"reading", "end", "corrupt", "limit"}]
    /\ got \in Seq(Contents) /\ trusted \in Seq(Contents)

(* The bound counts the chunk an entry has begun once. *)
Room == Len(file) + Len(buf) - Started(buf) <= MaxChunks

(* What every write of the writer leaves. *)
Wrote ==
    /\ Grown(file, file', next, last)
    /\ Queued(file', buf', next, last)
    /\ Room'

Writes == WriterAppend \/ AppendFails \/ WriterClose \/ Killed

LEMMA FailedWrote ==
    ASSUME NEW es, Failed(es, next, last),
           Len(file) + Len(es) - Started(es) <= MaxChunks,
           file \in Seq(Chunk), es \in Seq(Queue), MaxChunks \in Nat
    PROVE  Wrote
<1>1. /\ Len(file') + Len(buf') - Started(buf') <= Len(file) + Len(es) - Started(es)
      /\ Len(file') \in Nat /\ Len(buf') \in Nat /\ Started(buf') \in {0, 1}
      /\ Len(file) \in Nat /\ Len(es) \in Nat /\ Started(es) \in {0, 1}
  BY DEF Failed, Grown, Queued, Started
<1>2. Started(buf)' = Started(buf')
  BY DEF Started, Begun
<1>3. Room'
  BY <1>1, <1>2 DEF Room
<1>. QED
  BY <1>3 DEF Failed, Wrote

LEMMA PutWrote ==
    ASSUME NEW es, Queued(file, es, next, last), file \in Seq(Chunk),
           Len(file) + Len(es) - Started(es) <= MaxChunks, MaxChunks \in Nat,
           file' = PutAll(file, es), buf' = <<>>
    PROVE  Wrote
<1>1. Grown(file, file', next, last) /\ Len(file') = Len(file) + Len(es) - Started(es)
  BY PutFacts
<1>2. Queued(file', buf', next, last) /\ Started(buf') = 0 /\ Len(buf') = 0
  BY Empty
<1>3. Started(buf)' = Started(buf')
  BY DEF Started, Begun
<1>4. Len(file') \in Nat /\ Len(file) + Len(es) - Started(es) \in Int
  BY <1>1 DEF Grown, Queued, Started
<1>5. Room'
  BY <1>1, <1>2, <1>3, <1>4 DEF Room
<1>. QED
  BY <1>1, <1>2, <1>5 DEF Wrote

LEMMA WritesWrote ==
    ASSUME JournalAssumption, Types, Room, Writes
    PROVE  Wrote
<1>1. /\ MaxChunks \in Nat /\ file \in Seq(Chunk) /\ Queued(file, buf, next, last)
      /\ last \in Seq(Contents) /\ next \in Nat \ {0}
      /\ Len(file) \in Nat /\ Len(buf) \in Nat /\ buf \in Seq(Queue)
      /\ Started(buf) \in {0, 1}
  BY DEF JournalAssumption, Types, Queued, Started
<1>2. ASSUME HasRoom, NEW c \in Contents, NEW cut \in BOOLEAN
      PROVE  /\ Queued(file, Append(buf, Entry(c, cut)), next, last)
             /\ Append(buf, Entry(c, cut)) \in Seq(Queue)
             /\ Len(Append(buf, Entry(c, cut))) = Len(buf) + 1
             /\ Len(file) + Len(Append(buf, Entry(c, cut)))
                   - Started(Append(buf, Entry(c, cut))) <= MaxChunks
  <2>. DEFINE es == Append(buf, Entry(c, cut))
  <2>1. Queued(file, es, next, last) /\ Len(es) = Len(buf) + 1 /\ Started(es) = Started(buf)
    BY <1>1, EntryQueued
  <2>2. es \in Seq(Queue)
    BY <2>1 DEF Queued
  <2>. HIDE DEF es
  <2>3. Len(file) + Len(es) - Started(es) <= MaxChunks
    BY <1>1, <1>2, <2>1 DEF HasRoom
  <2>. QED
    BY <2>1, <2>2, <2>3 DEF es
<1>3. CASE WriterAppend
  <2>1. PICK c \in Contents : Appended(c)
    BY <1>3 DEF WriterAppend
  <2>. DEFINE es == Append(buf, Entry(c, FALSE))
  <2>2. HasRoom /\ file' = PutAll(file, es) /\ buf' = <<>>
    BY <1>3, <2>1 DEF WriterAppend, Appended
  <2>3. Queued(file, es, next, last) /\ Len(file) + Len(es) - Started(es) <= MaxChunks
    BY <1>2, <2>2
  <2>. HIDE DEF es
  <2>. QED
    BY <1>1, <2>2, <2>3, PutWrote
<1>4. CASE AppendFails
  <2>1. HasRoom
    BY <1>4 DEF AppendFails
  <2>2. PICK c \in Contents :
           \/ \E es \in {buf, Append(buf, Entry(c, TRUE))}, n \in 0 .. MaxChunks :
                 n <= Len(es) /\ WriteFails(es, n)
           \/ \E n \in 0 .. Len(buf) : WriteFails(Append(buf, Entry(c, FALSE)), n)
    BY <1>4 DEF AppendFails
  <2>3. ASSUME NEW es, es \in {buf, Append(buf, Entry(c, TRUE)), Append(buf, Entry(c, FALSE))},
               NEW n \in Nat, n <= Len(es), WriteFails(es, n)
        PROVE  Wrote
    <3>1. /\ Queued(file, es, next, last) /\ es \in Seq(Queue)
          /\ Len(file) + Len(es) - Started(es) <= MaxChunks
      <4>1. CASE es = buf
        BY <1>1, <2>1, <4>1 DEF HasRoom
      <4>2. CASE es \in {Append(buf, Entry(c, TRUE)), Append(buf, Entry(c, FALSE))}
        BY <1>2, <2>1, <4>2
      <4>. QED
        BY <2>3, <4>1, <4>2
    <3>2. Failed(es, next, last)
      BY <1>1, <2>3, <3>1, FailGrows
    <3>. QED
      BY <1>1, <3>1, <3>2, FailedWrote
  <2>4. CASE \E es \in {buf, Append(buf, Entry(c, TRUE))}, n \in 0 .. MaxChunks :
                n <= Len(es) /\ WriteFails(es, n)
    <3>1. PICK es \in {buf, Append(buf, Entry(c, TRUE))}, n \in 0 .. MaxChunks :
             n <= Len(es) /\ WriteFails(es, n)
      BY <2>4
    <3>2. n \in Nat
      BY <1>1
    <3>. QED
      BY <2>3, <3>1, <3>2
  <2>5. CASE \E n \in 0 .. Len(buf) : WriteFails(Append(buf, Entry(c, FALSE)), n)
    <3>1. PICK n \in 0 .. Len(buf) : WriteFails(Append(buf, Entry(c, FALSE)), n)
      BY <2>5
    <3>2. n \in Nat /\ n <= Len(Append(buf, Entry(c, FALSE)))
      BY <1>1, <1>2, <2>1
    <3>. QED
      BY <2>3, <3>1, <3>2
  <2>. QED
    BY <2>2, <2>4, <2>5
<1>5. CASE WriterClose
  <2>1. CASE file' = PutAll(file, buf) /\ buf' = <<>>
    BY <1>1, <2>1, PutWrote DEF Room
  <2>2. CASE \E n \in 0 .. Len(buf) - 1 : WriteFails(buf, n) /\ buf' = <<>>
    <3>1. PICK n \in 0 .. Len(buf) - 1 : WriteFails(buf, n)
      BY <2>2
    <3>2. n \in Nat /\ n <= Len(buf)
      BY <1>1
    <3>3. Failed(buf, next, last)
      BY <1>1, <3>1, <3>2, FailGrows
    <3>. QED
      BY <1>1, <3>3, FailedWrote DEF Room
  <2>. QED
    BY <1>5, <2>1, <2>2 DEF WriterClose
<1>6. CASE Killed
  <2>1. CASE UNCHANGED file /\ buf' = <<>>
    <3>1. Grown(file, file, next, last)
      BY <1>1 DEF Grown
    <3>2. Queued(file', buf', next, last) /\ Started(buf') = 0 /\ Len(buf') = 0
      BY <2>1, Empty
    <3>3. Started(buf)' = Started(buf')
      BY DEF Started, Begun
    <3>4. Len(file) <= MaxChunks
      <4>1. Started(buf) <= Len(buf)
        BY <1>1, BegunFirst DEF Started
      <4>. QED
        BY <1>1, <4>1 DEF Room
    <3>5. Room'
      BY <1>1, <2>1, <3>2, <3>3, <3>4 DEF Room
    <3>. QED
      BY <2>1, <3>1, <3>2, <3>5 DEF Wrote
  <2>2. CASE /\ HasRoom /\ buf' = <<>>
             /\ \E c \in Contents, cut \in BOOLEAN :
                   file' = PutAll(file, Append(buf, Entry(c, cut)))
    <3>1. PICK c \in Contents, cut \in BOOLEAN :
             file' = PutAll(file, Append(buf, Entry(c, cut)))
      BY <2>2
    <3>. DEFINE es == Append(buf, Entry(c, cut))
    <3>2. Queued(file, es, next, last) /\ Len(file) + Len(es) - Started(es) <= MaxChunks
      BY <1>2, <2>2
    <3>3. file' = PutAll(file, es)
      BY <3>1
    <3>. HIDE DEF es
    <3>. QED
      BY <1>1, <2>2, <3>2, <3>3, PutWrote
  <2>. QED
    BY <1>6, <2>1, <2>2 DEF Killed
<1>. QED
  BY <1>3, <1>4, <1>5, <1>6 DEF Writes

(* What the readers do leaves the journal alone. *)
Reads == ReaderOpen \/ ReaderNext \/ ReaderEnds

Writer == <<up, next, last, file, buf, opens, trusted, broken, trails>>

LEMMA ReadsLeaveFile ==
    ASSUME Reads
    PROVE  UNCHANGED Writer
BY DEF Reads, ReaderOpen, ReaderNext, ReaderEnds, Writer

LEMMA StepCases ==
    ASSUME [Next]_vars
    PROVE  WriterOpen \/ Writes \/ Reads \/ UNCHANGED vars
BY DEF Next, Writes, Reads

LEMMA EmptySequences ==
    /\ <<>> \in Seq(Contents) /\ Len(<<>>) = 0 /\ <<>> \in Seq(Chunk)
OBVIOUS

(* A chunk's record and a reader's hash. *)
LEMMA HashType ==
    ASSUME NEW r \in Rec
    PROVE  Hash(r) \in Seq(Contents) /\ r.content \in Contents
BY DEF Hash, Rec

LEMMA WritesTypes ==
    ASSUME JournalAssumption, Types, Room, Writes
    PROVE  Types'
<1>1. Wrote
  BY WritesWrote
<1>2. /\ file' \in Seq(Chunk) /\ Queued(file', buf', next, last)
  BY <1>1 DEF Wrote, Grown
<1>3. UNCHANGED <<opens, reader, got>>
  BY DEF Writes, WriterAppend, AppendFails, WriterClose, Killed, Reading
<1>4. CASE WriterAppend
  <2>1. PICK c \in Contents :
           /\ Appended(c) /\ last' = Hash(Record(c))
           /\ trusted' = IF broken THEN trusted ELSE Append(trusted, c)
    BY <1>4 DEF WriterAppend
  <2>2. last' = Append(last, c) /\ buf' = <<>> /\ next' = next + 1
        /\ UNCHANGED <<up, broken>>
    BY <1>4, <2>1 DEF WriterAppend, Appended, Hash, Record
  <2>3. last' \in Seq(Contents) /\ next' = Len(last') + 1
    BY <2>2 DEF Types
  <2>4. trusted' \in Seq(Contents)
    BY <2>1 DEF Types
  <2>5. Queued(file', buf', next', last')
    BY <2>2, Empty
  <2>. QED
    BY <1>2, <1>3, <2>2, <2>3, <2>4, <2>5 DEF Types
<1>5. CASE AppendFails
  <2>1. UNCHANGED <<up, next, last, trusted>> /\ broken' = TRUE
    BY <1>5 DEF AppendFails, SequenceKept
  <2>. QED
    BY <1>2, <1>3, <2>1 DEF Types
<1>6. CASE WriterClose \/ Killed
  <2>1. UNCHANGED <<next, last, trusted, broken>> /\ up' = FALSE
    BY <1>6 DEF WriterClose, Killed
  <2>. QED
    BY <1>2, <1>3, <2>1 DEF Types
<1>. QED
  BY <1>4, <1>5, <1>6 DEF Writes

LEMMA RoomFile ==
    ASSUME JournalAssumption, Types, Room
    PROVE  Len(file) <= MaxChunks
<1>1. buf \in Seq(Queue) /\ Len(buf) \in Nat /\ Len(file) \in Nat /\ MaxChunks \in Nat
  BY DEF Types, Queued, JournalAssumption
<1>2. Started(buf) <= Len(buf) /\ Started(buf) \in {0, 1}
  BY <1>1, BegunFirst DEF Started
<1>. QED
  BY <1>1, <1>2 DEF Room

LEMMA TypesHold ==
    ASSUME JournalAssumption
    PROVE  /\ Init => Types /\ Room
           /\ Types /\ Room /\ [Next]_vars => Types' /\ Room'
<1>1. Init => Types /\ Room
  <2>. SUFFICES ASSUME Init PROVE Types /\ Room
    OBVIOUS
  <2>1. Queued(file, buf, next, last) /\ Started(buf) = 0 /\ Len(buf) = 0 /\ Len(file) = 0
    BY Empty DEF Init
  <2>2. MaxOpens \in Nat /\ MaxChunks \in Nat
    BY DEF JournalAssumption
  <2>3. Room
    BY <2>1, <2>2 DEF Room
  <2>4. /\ reader \in [who : {"none", "audit", "recovery"}, at : 0 .. MaxChunks,
                       last : Seq(Contents),
                       st : {"reading", "end", "corrupt", "limit"}]
    BY <2>2 DEF Init, NoReader
  <2>5. /\ up \in BOOLEAN /\ broken \in BOOLEAN /\ opens \in 0 .. MaxOpens
        /\ last = <<>> /\ next = 1 /\ file = <<>> /\ got = <<>> /\ trusted = <<>>
    <3>1. up \in BOOLEAN /\ broken \in BOOLEAN
      BY Zenon DEF Init
    <3>2. /\ opens = 0 /\ last = <<>> /\ next = 1 /\ file = <<>> /\ got = <<>>
          /\ trusted = <<>>
      BY DEF Init
    <3>. QED
      BY <2>2, <3>1, <3>2
  <2>. QED
    BY <2>1, <2>3, <2>4, <2>5, EmptySequences DEF Types
<1>2. ASSUME Types, Room, [Next]_vars PROVE Types' /\ Room'
  <2>1. CASE WriterOpen
    <3>1. /\ up' = TRUE /\ broken' = FALSE /\ last' = <<>> /\ next' = 1
          /\ file' = <<>> /\ buf' = <<>> /\ trusted' = <<>>
          /\ UNCHANGED <<reader, got>> /\ opens < MaxOpens /\ opens' = opens + 1
      BY <2>1 DEF WriterOpen, Reading
    <3>2. Queued(file', buf', next', last') /\ Started(buf') = 0 /\ Len(buf') = 0
          /\ Len(file') = 0
      BY <3>1, Empty
    <3>3. MaxOpens \in Nat /\ MaxChunks \in Nat
      BY DEF JournalAssumption
    <3>4. Started(buf)' = Started(buf')
      BY DEF Started, Begun
    <3>5. Room'
      BY <3>2, <3>3, <3>4 DEF Room
    <3>6. opens' \in 0 .. MaxOpens
      BY <1>2, <3>1, <3>3 DEF Types
    <3>7. /\ reader' \in [who : {"none", "audit", "recovery"}, at : 0 .. MaxChunks,
                          last : Seq(Contents),
                          st : {"reading", "end", "corrupt", "limit"}]
          /\ got' \in Seq(Contents)
      BY <1>2, <3>1 DEF Types
    <3>8. up' \in BOOLEAN /\ broken' \in BOOLEAN
      BY <3>1, Zenon
    <3>9. /\ last' \in Seq(Contents) /\ next' = Len(last') + 1
          /\ file' \in Seq(Chunk) /\ trusted' \in Seq(Contents)
      BY <3>1, EmptySequences
    <3>10. Types'
      BY <3>2, <3>6, <3>7, <3>8, <3>9, Zenon DEF Types
    <3>. QED
      BY <3>5, <3>10
  <2>2. CASE Writes
    BY <1>2, <2>2, WritesTypes, WritesWrote DEF Wrote
  <2>3. CASE Reads
    <3>1. UNCHANGED <<up, next, last, file, buf, opens, trusted, broken>>
      BY <2>3, ReadsLeaveFile DEF Writer
    <3>2. Room' /\ Queued(file', buf', next', last')
      BY <1>2, <3>1 DEF Room, Types, Started, Begun
    <3>3. /\ reader' \in [who : {"none", "audit", "recovery"}, at : 0 .. MaxChunks,
                          last : Seq(Contents),
                          st : {"reading", "end", "corrupt", "limit"}]
          /\ got' \in Seq(Contents)
      <4>1. CASE ReaderOpen
        <5>1. PICK who \in {"audit", "recovery"} :
                 reader' = [who |-> who, at |-> 0, last |-> <<>>, st |-> "reading"]
          BY <4>1 DEF ReaderOpen
        <5>2. 0 \in 0 .. MaxChunks
          BY DEF JournalAssumption
        <5>. QED
          BY <4>1, <5>1, <5>2 DEF ReaderOpen
      <4>2. CASE ReaderNext
        <5>. DEFINE r == file[reader.at + 1].rec
        <5>1. /\ reader.at < Len(file)
              /\ reader' = [reader EXCEPT
                              !.at = @ + 1, !.last = Hash(r),
                              !.st = IF StopsAt(reader.who, r.content) THEN "limit" ELSE @]
              /\ got' = Append(got, r.content)
          BY <4>2 DEF ReaderNext
        <5>2. /\ reader.at \in 0 .. MaxChunks /\ Len(file) \in Nat /\ MaxChunks \in Nat
              /\ Len(file) <= MaxChunks
          BY <1>2, RoomFile DEF Types, JournalAssumption
        <5>3. reader.at + 1 \in 1 .. Len(file) /\ reader.at + 1 \in 0 .. MaxChunks
          BY <5>1, <5>2
        <5>4. file[reader.at + 1] \in Chunk
          BY <1>2, <5>3 DEF Types
        <5>5. Hash(r) \in Seq(Contents) /\ r.content \in Contents
          BY <5>4, HashType DEF Chunk
        <5>. DEFINE s == IF StopsAt(reader.who, r.content) THEN "limit" ELSE reader.st
        <5>6. /\ reader.who \in {"none", "audit", "recovery"}
              /\ reader.st \in {"reading", "end", "corrupt", "limit"}
              /\ reader = [who |-> reader.who, at |-> reader.at, last |-> reader.last,
                           st |-> reader.st]
              /\ got \in Seq(Contents)
          BY <1>2 DEF Types
        <5>7. s \in {"reading", "end", "corrupt", "limit"}
          BY <5>6
        <5>8. reader' = [who |-> reader.who, at |-> reader.at + 1, last |-> Hash(r),
                         st |-> s]
          <6>. HIDE DEF r
          <6>. QED
            BY <5>1, <5>6
        <5>. HIDE DEF r, s
        <5>9. got' \in Seq(Contents)
          BY <5>1, <5>5, <5>6
        <5>. QED
          BY <5>3, <5>5, <5>6, <5>7, <5>8, <5>9
      <4>3. CASE ReaderEnds
        BY <1>2, <4>3 DEF Types, ReaderEnds
      <4>. QED
        BY <2>3, <4>1, <4>2, <4>3 DEF Reads
    <3>. QED
      BY <1>2, <3>1, <3>2, <3>3 DEF Types
  <2>4. CASE UNCHANGED vars
    BY <1>2, <2>4 DEF Types, Room, vars, Queued, Started, Begun
  <2>. QED
    BY <1>2, <2>1, <2>2, <2>3, <2>4, StepCases
<1>. QED
  BY <1>1, <1>2

-----------------------------------------------------------------------------
(* The chain in the file, the writer's hash behind it, and what was           *)
(* acknowledged: while no append has failed nothing waits in the buffer and   *)
(* the file holds exactly the acknowledged records.                           *)
Acked ==
    /\ Holds(file, trusted)
    /\ up /\ ~broken => /\ buf = <<>> /\ last = trusted
                        /\ Len(file) = Len(trusted)

Chain == Linked(file) /\ Behind(file, last) /\ Acked

LEMMA EmptyChain ==
    Linked(<<>>) /\ Holds(<<>>, <<>>) /\ Behind(<<>>, <<>>)
BY DEF Linked, Holds, Behind

(* Nothing can have been begun when the hash is level with the file. *)
LEMMA LevelUnbegun ==
    ASSUME Types, Linked(file), Len(file) = Len(last)
    PROVE  ~Begun(buf)
<1>1. /\ next = Len(file) + 1 /\ Len(file) \in Nat /\ buf \in Seq(Queue)
  BY DEF Types, Queued
<1>2. ASSUME Begun(buf) PROVE FALSE
  <2>1. Len(buf) >= 1 /\ Len(file) >= 1 /\ file[Len(file)].rec = buf[1].rec
    BY <1>1, <1>2, BegunFirst DEF Types, Queued
  <2>2. buf[1].rec.seq = next
    BY <1>1, <2>1 DEF Types, Queued
  <2>3. Len(file) \in 1 .. Len(file)
    BY <1>1, <2>1
  <2>4. file[Len(file)].rec.seq <= Len(file)
    BY <2>3 DEF Linked
  <2>. QED
    BY <1>1, <2>1, <2>2, <2>4
<1>. QED
  BY <1>2

LEMMA AppendPutsOne ==
    ASSUME Types, NEW c \in Contents, Appended(c), buf = <<>>
    PROVE  file' = Append(file, [rec |-> [seq |-> Len(last) + 1, prev |-> last,
                                          content |-> c],
                                 whole |-> TRUE])
<1>. DEFINE r == [seq |-> Len(last) + 1, prev |-> last, content |-> c]
<1>1. file \in Seq(Chunk) /\ last \in Seq(Contents) /\ next = Len(last) + 1
  BY DEF Types
<1>2. r \in Rec
  BY <1>1 DEF Rec
<1>3. Entry(c, FALSE) = [rec |-> r, cut |-> FALSE, begun |-> FALSE]
  BY <1>1 DEF Entry, Record
<1>4. file' = PutAll(file, Append(<<>>, Entry(c, FALSE)))
  BY DEF Appended
<1>. HIDE DEF r
<1>5. file' = Append(file, [rec |-> r, whole |-> TRUE])
  BY <1>1, <1>2, <1>3, <1>4, PutOne
<1>. QED
  BY <1>5 DEF r

LEMMA AppendBehind ==
    ASSUME Types, Chain, Wrote, NEW c \in Contents, Appended(c),
           last' = Append(last, c)
    PROVE  Behind(file', last')
<1>. DEFINE es == Append(buf, Entry(c, FALSE))
<1>1. /\ file \in Seq(Chunk) /\ last \in Seq(Contents) /\ next = Len(last) + 1
      /\ next \in Nat \ {0} /\ buf \in Seq(Queue) /\ Queued(file, buf, next, last)
      /\ Len(file) \in Nat /\ Len(last) \in Nat /\ Len(buf) \in Nat
      /\ Len(last) <= Len(file)
  BY DEF Types, Queued, Chain, Behind
<1>2. Queued(file, es, next, last) /\ Len(es) = Len(buf) + 1 /\ Started(es) = Started(buf)
  BY <1>1, EntryQueued
<1>3. file' = PutAll(file, es)
  BY DEF Appended
<1>. HIDE DEF es
<1>4. Len(file') = Len(file) + Len(buf) + 1 - Started(buf)
  BY <1>1, <1>2, <1>3, PutFacts DEF Started
<1>5. Started(buf) <= Len(buf) /\ Started(buf) \in {0, 1}
      /\ (Started(buf) = 0 <=> ~Begun(buf))
  BY <1>1, BegunFirst DEF Started
<1>6. Len(last') = Len(last) + 1 /\ last' \in Seq(Contents)
  BY <1>1
<1>7. Len(last') <= Len(file')
  BY <1>1, <1>4, <1>5, <1>6
<1>8. ASSUME Len(file') = Len(last') PROVE Holds(file', last')
  <2>1. Len(file) = Len(last) /\ Len(buf) = Started(buf)
    BY <1>1, <1>4, <1>5, <1>6, <1>8
  <2>2. ~Begun(buf)
    BY <2>1, LevelUnbegun DEF Chain
  <2>3. buf = <<>>
    BY <1>1, <1>5, <2>1, <2>2
  <2>4. Holds(file, last)
    BY <2>1 DEF Chain, Behind
  <2>. QED
    BY <1>1, <2>1, <2>3, <2>4, AppendPutsOne, AppendHolds
<1>. QED
  BY <1>7, <1>8 DEF Behind

LEMMA WritesChain ==
    ASSUME JournalAssumption, Types, Room, Chain, Writes
    PROVE  Chain'
<1>1. Wrote /\ Grown(file, file', next, last)
  BY WritesWrote DEF Wrote
<1>2. /\ file \in Seq(Chunk) /\ last \in Seq(Contents) /\ next = Len(last) + 1
      /\ trusted \in Seq(Contents)
      /\ Linked(file) /\ Behind(file, last) /\ Holds(file, trusted)
  BY DEF Types, Chain, Acked
<1>3. Linked(file') /\ Holds(file', trusted) /\ Behind(file', last)
  BY <1>1, <1>2, LinkedGrown, HoldsGrown, BehindGrown
<1>4. CASE WriterAppend
  <2>1. PICK c \in Contents :
           /\ Appended(c) /\ last' = Hash(Record(c))
           /\ trusted' = IF broken THEN trusted ELSE Append(trusted, c)
    BY <1>4 DEF WriterAppend
  <2>2. last' = Append(last, c) /\ UNCHANGED <<up, broken>> /\ up /\ buf' = <<>>
    BY <1>4, <2>1 DEF WriterAppend, Hash, Record, Appended
  <2>3. Behind(file', last')
    BY <1>1, <2>1, <2>2, AppendBehind
  <2>4. CASE broken
    BY <1>3, <2>1, <2>2, <2>3, <2>4 DEF Chain, Acked
  <2>5. CASE ~broken
    <3>1. buf = <<>> /\ last = trusted /\ Len(file) = Len(trusted)
      BY <2>2, <2>5 DEF Chain, Acked
    <3>2. Holds(file', Append(last, c)) /\ trusted' = last'
      BY <1>2, <2>1, <2>2, <2>5, <3>1, AppendPutsOne, AppendHolds
    <3>3. Len(file') = Len(file) + 1 /\ Len(last') = Len(last) + 1
      <4>. DEFINE r == [seq |-> Len(last) + 1, prev |-> last, content |-> c]
                  k == [rec |-> r, whole |-> TRUE]
      <4>1. r \in Rec
        BY <1>2 DEF Rec
      <4>2. k \in Chunk
        BY <4>1 DEF Chunk
      <4>3. file' = Append(file, k)
        BY <2>1, <3>1, AppendPutsOne
      <4>. HIDE DEF k, r
      <4>. QED
        BY <1>2, <2>2, <4>2, <4>3
    <3>. QED
      BY <1>2, <1>3, <2>2, <2>3, <3>1, <3>2, <3>3 DEF Chain, Acked
  <2>. QED
    BY <2>4, <2>5
<1>5. CASE AppendFails
  <2>1. UNCHANGED <<last, trusted>> /\ broken'
    BY <1>5 DEF AppendFails, SequenceKept
  <2>. QED
    BY <1>3, <2>1 DEF Chain, Acked
<1>6. CASE WriterClose \/ Killed
  <2>1. UNCHANGED <<last, trusted>> /\ ~up'
    BY <1>6 DEF WriterClose, Killed
  <2>. QED
    BY <1>3, <2>1 DEF Chain, Acked
<1>. QED
  BY <1>4, <1>5, <1>6 DEF Writes

LEMMA ChainHolds ==
    ASSUME JournalAssumption
    PROVE  /\ Init => Chain
           /\ Types /\ Room /\ Chain /\ [Next]_vars => Chain'
<1>1. Init => Chain
  BY EmptyChain DEF Init, Chain, Acked
<1>2. ASSUME Types, Room, Chain, [Next]_vars PROVE Chain'
  <2>1. CASE WriterOpen
    <3>1. file' = <<>> /\ last' = <<>> /\ trusted' = <<>> /\ buf' = <<>>
      BY <2>1 DEF WriterOpen
    <3>. QED
      BY <3>1, EmptyChain DEF Chain, Acked
  <2>2. CASE Writes
    BY <1>2, <2>2, WritesChain
  <2>3. CASE Reads
    BY <1>2, <2>3, ReadsLeaveFile DEF Writer, Chain, Acked
  <2>4. CASE UNCHANGED vars
    BY <1>2, <2>4 DEF vars, Chain, Acked
  <2>. QED
    BY <1>2, <2>1, <2>2, <2>3, <2>4, StepCases
<1>. QED
  BY <1>1, <1>2

-----------------------------------------------------------------------------
(* What can be read back: the records up to the first that does not chain.    *)
Ok(f, i) == Chained(f[i], i, IF i = 1 THEN <<>> ELSE Hash(f[i - 1].rec))

Chaining(f) == {k \in 0 .. Len(f) : \A i \in 1 .. k : Ok(f, i)}

Count(f) == Max(Chaining(f))

LEMMA ReadableIs ==
    ASSUME NEW f
    PROVE  Readable(f) = [i \in 1 .. Count(f) |-> f[i].rec.content]
BY DEF Readable, Count, Chaining, Ok

LEMMA LargestOf ==
    ASSUME NEW L \in Nat, NEW K \in SUBSET (0 .. L), 0 \in K,
           \A k \in K : \A j \in 0 .. k : j \in K
    PROVE  Max(K) \in K /\ \A k \in K : k <= Max(K)
<1>. DEFINE c == Cardinality(K)
<1>1. IsFiniteSet(0 .. L)
  BY FS_Interval
<1>2. IsFiniteSet(K) /\ c \in Nat
  BY <1>1, FS_Subset, FS_CardinalityType
<1>3. ASSUME NEW k \in K PROVE k + 1 <= c /\ k \in Nat
  <2>1. k \in Nat
    OBVIOUS
  <2>2. Cardinality(0 .. k) = k + 1 /\ IsFiniteSet(0 .. k)
    BY <2>1, FS_Interval
  <2>3. (0 .. k) \in SUBSET K
    OBVIOUS
  <2>4. Cardinality(0 .. k) <= c
    BY <1>2, <2>3, FS_Subset
  <2>. QED
    BY <2>1, <2>2, <2>4
<1>. HIDE DEF c
<1>4. c >= 1
  BY <1>2, <1>3
<1>. DEFINE d == c - 1
            I == 0 .. d
<1>5. d \in Nat /\ d + 1 = c
  BY <1>2, <1>4
<1>6. K \in SUBSET I
  BY <1>2, <1>3, <1>5
<1>7. Cardinality(I) = c /\ IsFiniteSet(I)
  <2>. HIDE DEF d
  <2>. QED
    BY <1>5, FS_Interval
<1>8. K = I
  <2>. HIDE DEF I
  <2>. QED
    BY <1>6, <1>7, FS_Subset DEF c
<1>9. d \in K /\ \A k \in K : d >= k
  BY <1>5, <1>8
<1>10. Max(K) \in K /\ \A k \in K : Max(K) >= k
  <2>. HIDE DEF d
  <2>. QED
    BY <1>9 DEF Max
<1>11. \A k \in K : k \in Int
  OBVIOUS
<1>. QED
  BY <1>10, <1>11

LEMMA CountMeans ==
    ASSUME NEW f \in Seq(Chunk)
    PROVE  /\ Count(f) \in 0 .. Len(f)
           /\ \A i \in 1 .. Count(f) : Ok(f, i)
           /\ Count(f) < Len(f) => ~Ok(f, Count(f) + 1)
<1>. DEFINE L == Len(f)
            K == Chaining(f)
            n == Count(f)
<1>1. L \in Nat
  OBVIOUS
<1>2. K \in SUBSET (0 .. L) /\ 0 \in K
  BY <1>1 DEF Chaining
<1>3. \A k \in K : \A j \in 0 .. k : j \in K
  BY <1>1 DEF Chaining
<1>4. n \in K /\ \A k \in K : k <= n
  <2>. HIDE DEF K, L
  <2>1. Max(K) \in K /\ \A k \in K : k <= Max(K)
    BY <1>1, <1>2, <1>3, LargestOf
  <2>. QED
    BY <2>1 DEF Count, K
<1>. HIDE DEF n
<1>5. n \in 0 .. L /\ \A i \in 1 .. n : Ok(f, i)
  BY <1>4 DEF Chaining
<1>6. ASSUME n < L, Ok(f, n + 1) PROVE FALSE
  <2>1. n + 1 \in 0 .. L
    BY <1>1, <1>5, <1>6
  <2>2. \A i \in 1 .. (n + 1) : Ok(f, i)
    BY <1>5, <1>6
  <2>3. n + 1 \in K
    BY <2>1, <2>2 DEF Chaining
  <2>. QED
    BY <1>4, <1>5, <2>3
<1>. QED
  BY <1>5, <1>6 DEF n

(* A count with these three facts is the count. *)
LEMMA CountIs ==
    ASSUME NEW f \in Seq(Chunk), NEW n \in 0 .. Len(f),
           \A i \in 1 .. n : Ok(f, i), n < Len(f) => ~Ok(f, n + 1)
    PROVE  Count(f) = n
<1>. DEFINE m == Count(f)
<1>1. /\ m \in 0 .. Len(f) /\ (\A i \in 1 .. m : Ok(f, i))
      /\ m < Len(f) => ~Ok(f, m + 1)
  BY CountMeans
<1>. HIDE DEF m
<1>2. m < n => m + 1 \in 1 .. n
  BY <1>1
<1>3. n < m => n + 1 \in 1 .. m
  BY <1>1
<1>. QED
  BY <1>1, <1>2, <1>3 DEF m

LEMMA ReadableMeans ==
    ASSUME NEW f \in Seq(Chunk)
    PROVE  /\ Readable(f) \in Seq(Contents) /\ Len(Readable(f)) = Count(f)
           /\ \A i \in 1 .. Count(f) : Readable(f)[i] = f[i].rec.content
<1>. DEFINE n == Count(f)
<1>1. n \in Nat /\ n <= Len(f)
  BY CountMeans
<1>2. \A i \in 1 .. n : f[i].rec.content \in Contents
  <2>1. ASSUME NEW i \in 1 .. n PROVE f[i].rec.content \in Contents
    <3>1. f[i] \in Chunk
      BY <1>1
    <3>. QED
      BY <3>1 DEF Chunk, Rec
  <2>. QED
    BY <2>1
<1>3. Readable(f) = [i \in 1 .. n |-> f[i].rec.content]
  BY ReadableIs
<1>. HIDE DEF n
<1>. QED
  BY <1>1, <1>2, <1>3 DEF n

(* In a linked file a record chains when it is whole and at its place.        *)
LEMMA OkIs ==
    ASSUME NEW f \in Seq(Chunk), Linked(f), NEW i \in 1 .. Len(f)
    PROVE  Ok(f, i) <=> f[i].whole /\ f[i].rec.seq = i
<1>1. f[i] \in Chunk /\ f[i].rec.prev \in Seq(Contents)
  <2>1. f[i] \in Chunk
    OBVIOUS
  <2>. QED
    BY <2>1 DEF Chunk, Rec
<1>2. ASSUME f[i].whole, f[i].rec.seq = i
      PROVE  f[i].rec.prev = IF i = 1 THEN <<>> ELSE Hash(f[i - 1].rec)
  <2>. DEFINE p == f[i].rec.prev
  <2>1. Links(f, i)
    BY <1>2 DEF Linked
  <2>2. p \in Seq(Contents) /\ Len(p) = i - 1
    BY <1>1, <2>1 DEF Links
  <2>3. CASE i = 1
    <3>. HIDE DEF p
    <3>1. p = <<>>
      BY <2>2, <2>3
    <3>. QED
      BY <2>3, <3>1 DEF p
  <2>4. CASE i # 1
    <3>. DEFINE j == i - 1
                o == f[j].rec.prev
                c == f[j].rec.content
    <3>1. j \in 1 .. Len(f) /\ i = j + 1 /\ j \in 1 .. (i - 1) /\ j \in Nat
      BY <2>4
    <3>2. f[j] \in Chunk
      BY <3>1
    <3>3. o \in Seq(Contents) /\ c \in Contents
      BY <3>2 DEF Chunk, Rec
    <3>4. f[j].rec.seq = j /\ c = p[j]
      BY <2>1, <3>1 DEF Links
    <3>5. Links(f, j)
      BY <3>1, <3>4 DEF Linked
    <3>6. Len(o) = j - 1 /\ \A k \in 1 .. (j - 1) : f[k].rec.content = o[k]
      BY <3>5 DEF Links
    <3>7. \A k \in 1 .. (j - 1) : f[k].rec.content = p[k]
      BY <2>1, <3>1 DEF Links
    <3>. HIDE DEF j, o, c, p
    <3>8. /\ Append(o, c) \in Seq(Contents) /\ Len(Append(o, c)) = j
          /\ Append(o, c)[j] = c
          /\ \A k \in 1 .. (j - 1) : Append(o, c)[k] = o[k]
      BY <3>1, <3>3, <3>6
    <3>9. \A k \in 1 .. j : p[k] = Append(o, c)[k]
      <4>1. \A k \in 1 .. j : k = j \/ k \in 1 .. (j - 1)
        BY <3>1
      <4>. QED
        BY <3>4, <3>6, <3>7, <3>8, <4>1
    <3>10. Len(p) = j
      BY <2>2, <3>1
    <3>11. p = Append(o, c)
      BY <2>2, <3>8, <3>9, <3>10, SeqEqual
    <3>. QED
      BY <2>4, <3>11 DEF Hash, p, o, c, j
  <2>. QED
    BY <2>3, <2>4
<1>. QED
  BY <1>2 DEF Ok, Chained

(* What a file holds can be read back. *)
LEMMA HeldIsReadable ==
    ASSUME NEW f \in Seq(Chunk), Linked(f), NEW t \in Seq(Contents), Holds(f, t)
    PROVE  IsPrefix(t, Readable(f))
<1>. DEFINE n == Count(f)
            R == Readable(f)
<1>1. /\ n \in 0 .. Len(f) /\ (n < Len(f) => ~Ok(f, n + 1))
      /\ R \in Seq(Contents) /\ Len(R) = n
      /\ \A i \in 1 .. n : R[i] = f[i].rec.content
  BY CountMeans, ReadableMeans
<1>2. Len(t) \in Nat /\ Len(t) <= Len(f) /\ Len(f) \in Nat
      /\ \A j \in 1 .. Len(t) : /\ f[j].whole /\ f[j].rec.seq = j
                                /\ f[j].rec.content = t[j]
  BY DEF Holds
<1>. HIDE DEF n, R
<1>3. Len(t) <= n
  <2>. SUFFICES ASSUME n < Len(t) PROVE FALSE
    BY <1>1, <1>2
  <2>. DEFINE k == n + 1
  <2>1. k \in 1 .. Len(f) /\ k \in 1 .. Len(t) /\ n < Len(f)
    BY <1>1, <1>2
  <2>2. f[k].whole /\ f[k].rec.seq = k
    BY <1>2, <2>1
  <2>3. Ok(f, k)
    <3>. HIDE DEF k
    <3>. QED
      BY <2>1, <2>2, OkIs
  <2>. QED
    BY <1>1, <2>1, <2>3
<1>4. \A j \in 1 .. Len(t) : j \in 1 .. n
  BY <1>1, <1>2, <1>3
<1>5. Len(t) <= Len(R) /\ \A j \in 1 .. Len(t) : t[j] = R[j]
  BY <1>1, <1>2, <1>3, <1>4
<1>6. IsPrefix(t, R)
  BY <1>1, <1>5, PrefixMeans
<1>. QED
  BY <1>6 DEF R

LEMMA ReadableIsHeld ==
    ASSUME NEW f \in Seq(Chunk)
    PROVE  Holds(f, Readable(f))
<1>. DEFINE n == Count(f)
            R == Readable(f)
<1>1. /\ n \in 0 .. Len(f) /\ \A i \in 1 .. n : Ok(f, i)
      /\ R \in Seq(Contents) /\ Len(R) = n
      /\ \A i \in 1 .. n : R[i] = f[i].rec.content
  BY CountMeans, ReadableMeans
<1>. HIDE DEF n, R
<1>2. \A i \in 1 .. n : f[i].whole /\ f[i].rec.seq = i
  BY <1>1 DEF Ok, Chained
<1>3. Len(R) <= Len(f)
  BY <1>1
<1>4. Holds(f, R)
  BY <1>1, <1>2, <1>3 DEF Holds
<1>. QED
  BY <1>4 DEF R

LEMMA GrownKeepsReadable ==
    ASSUME JournalAssumption, Types, Room, Chain, Writes
    PROVE  IsPrefix(Readable(file), Readable(file'))
<1>. DEFINE R == Readable(file)
            g == file'
<1>1. Chain' /\ Types'
  BY WritesChain, WritesTypes
<1>2. file \in Seq(Chunk) /\ g \in Seq(Chunk) /\ Linked(g)
      /\ Grown(file, g, next, last)
  BY <1>1, WritesWrote DEF Types, Chain, Wrote
<1>3. R \in Seq(Contents) /\ Holds(file, R)
  BY <1>2, ReadableMeans, ReadableIsHeld
<1>. HIDE DEF R, g
<1>4. Holds(g, R)
  BY <1>2, <1>3, HoldsGrown
<1>5. IsPrefix(R, Readable(g))
  BY <1>2, <1>3, <1>4, HeldIsReadable
<1>. QED
  BY <1>5 DEF R, g

(* No write makes more than one more record readable: all that is new or      *)
(* completed has one sequence number.                                         *)
LEMMA GrownByOne ==
    ASSUME NEW f \in Seq(Chunk), NEW g, NEW q, NEW h, Grown(f, g, q, h),
           Linked(f), Linked(g)
    PROVE  Count(g) <= Count(f) + 1
<1>. DEFINE n == Count(f)
            m == Count(g)
<1>1. /\ g \in Seq(Chunk) /\ Len(f) <= Len(g)
      /\ \A i \in 1 .. Len(f) : /\ i < Len(f) => g[i] = f[i]
                                /\ g[i] # f[i] => g[i].rec.seq = q
      /\ \A i \in (Len(f) + 1) .. Len(g) : g[i].rec.seq = q
  BY DEF Grown
<1>2. /\ n \in 0 .. Len(f) /\ (n < Len(f) => ~Ok(f, n + 1))
      /\ m \in 0 .. Len(g) /\ (\A i \in 1 .. m : Ok(g, i))
      /\ Len(f) \in Nat /\ Len(g) \in Nat
  BY <1>1, CountMeans
<1>. HIDE DEF n, m
<1>. SUFFICES ASSUME m > n + 1 PROVE FALSE
  BY <1>2 DEF n, m
<1>. DEFINE a == n + 1
            b == n + 2
<1>3. a \in 1 .. m /\ b \in 1 .. m /\ a \in 1 .. Len(g) /\ b \in 1 .. Len(g)
  BY <1>2
<1>. HIDE DEF a, b
<1>4. /\ g[a].whole /\ g[a].rec.seq = a /\ g[b].rec.seq = b
  BY <1>1, <1>2, <1>3, OkIs
<1>5. a = n + 1 /\ b = n + 2
  BY DEF a, b
<1>6. CASE a \in 1 .. Len(f)
  <2>1. ~Ok(f, a)
    BY <1>2, <1>5, <1>6
  <2>2. f[a] # g[a]
    BY <1>4, <1>6, <2>1, OkIs
  <2>3. q = a /\ a = Len(f)
    BY <1>1, <1>2, <1>4, <1>6, <2>2
  <2>4. b \in (Len(f) + 1) .. Len(g)
    BY <1>2, <1>3, <1>5, <2>3
  <2>. QED
    BY <1>1, <1>2, <1>4, <1>5, <2>3, <2>4
<1>7. CASE a \notin 1 .. Len(f)
  <2>1. a \in (Len(f) + 1) .. Len(g) /\ b \in (Len(f) + 1) .. Len(g)
    BY <1>2, <1>3, <1>5, <1>7
  <2>. QED
    BY <1>1, <1>2, <1>4, <1>5, <2>1
<1>. QED
  BY <1>6, <1>7

-----------------------------------------------------------------------------
(* The readers. A scan holds as many contents as records it was given, they   *)
(* are the hash it compares with, and they begin one of the journals that     *)
(* were in the file.                                                          *)
Scan ==
    /\ trails \subseteq Seq(Contents)
    /\ reader.at = Len(got) /\ reader.last = got
    /\ ReadsOneTrail

Inv == Types /\ Room /\ Chain

(* The record a reader accepts continues what it was given. *)
LEMMA AcceptedContinues ==
    ASSUME Inv, reader.at = Len(got), reader.last = got, reader.at < Len(file),
           Accepts(file[reader.at + 1])
    PROVE  IsPrefix(Append(got, file[reader.at + 1].rec.content), Readable(file))
<1>. DEFINE n == Len(got)
            k == n + 1
            c == file[k].rec.content
            t == Append(got, c)
<1>1. file \in Seq(Chunk) /\ Linked(file) /\ got \in Seq(Contents)
      /\ n \in Nat /\ Len(file) \in Nat /\ n < Len(file)
  BY DEF Inv, Types, Chain
<1>2. k \in 1 .. Len(file) /\ k = n + 1
  BY <1>1
<1>. HIDE DEF n
<1>3. reader.at + 1 = k
  BY DEF n
<1>. HIDE DEF k
<1>4. file[k].whole /\ file[k].rec.seq = k /\ file[k].rec.prev = got
  BY <1>3 DEF Accepts, Chained
<1>5. Links(file, k)
  BY <1>1, <1>2, <1>4 DEF Linked
<1>6. \A j \in 1 .. n : /\ file[j].whole /\ file[j].rec.seq = j
                        /\ file[j].rec.content = got[j]
  BY <1>1, <1>2, <1>4, <1>5 DEF Links
<1>7. c \in Contents
  <2>1. file[k] \in Chunk
    BY <1>1, <1>2
  <2>. QED
    BY <2>1 DEF Chunk, Rec
<1>. HIDE DEF c
<1>8. /\ t \in Seq(Contents) /\ Len(t) = k /\ t[k] = c
      /\ \A j \in 1 .. n : t[j] = got[j]
  BY <1>1, <1>2, <1>7 DEF n
<1>. HIDE DEF t
<1>9. \A j \in 1 .. k : j \in 1 .. n \/ j = k
  BY <1>1, <1>2
<1>10. Holds(file, t)
  <2>1. \A j \in 1 .. k : /\ file[j].whole /\ file[j].rec.seq = j
                          /\ file[j].rec.content = t[j]
    BY <1>4, <1>6, <1>8, <1>9 DEF c
  <2>. QED
    BY <1>2, <1>8, <2>1 DEF Holds
<1>11. IsPrefix(t, Readable(file))
  BY <1>1, <1>8, <1>10, HeldIsReadable
<1>. QED
  BY <1>3, <1>11 DEF t, c, k

LEMMA ScanHolds ==
    ASSUME JournalAssumption
    PROVE  /\ Init => Scan
           /\ Inv /\ Scan /\ [Next]_vars => Scan'
<1>1. ASSUME Init PROVE Scan
  <2>1. /\ trails = {} /\ got = <<>> /\ file = <<>> /\ reader.at = 0
        /\ reader.last = <<>>
    BY <1>1 DEF Init, NoReader
  <2>2. Readable(file) \in Seq(Contents)
    <3>1. file \in Seq(Chunk)
      BY <2>1, EmptySequences
    <3>. QED
      BY <3>1, ReadableMeans
  <2>3. IsPrefix(got, Readable(file)) /\ Len(got) = 0
    BY <2>1, <2>2, PrefixEmpty
  <2>. QED
    BY <2>1, <2>2, <2>3 DEF Scan, ReadsOneTrail
<1>2. ASSUME Inv, Scan, [Next]_vars PROVE Scan'
  <2>. DEFINE R == Readable(file)
              S == Readable(file')
  <2>1. Types' /\ Chain' /\ Room'
    BY <1>2, TypesHold, ChainHolds DEF Inv
  <2>2. file \in Seq(Chunk) /\ file' \in Seq(Chunk) /\ got \in Seq(Contents)
        /\ got' \in Seq(Contents)
    BY <1>2, <2>1 DEF Inv, Types
  <2>3. R \in Seq(Contents) /\ S \in Seq(Contents)
    BY <2>2, ReadableMeans
  <2>4. PICK t \in trails \cup {R} : IsPrefix(got, t)
    BY <1>2 DEF Scan, ReadsOneTrail
  <2>5. t \in Seq(Contents) /\ trails \subseteq Seq(Contents)
    BY <1>2, <2>3, <2>4 DEF Scan
  <2>6. ASSUME UNCHANGED <<reader, got>>, trails' \in SUBSET Seq(Contents),
               NEW u \in trails' \cup {S}, IsPrefix(got, u)
        PROVE  Scan'
    BY <1>2, <2>6 DEF Scan, ReadsOneTrail
  <2>7. CASE WriterOpen
    <3>1. trails' = trails \cup {R} /\ UNCHANGED <<reader, got>>
      BY <2>7 DEF WriterOpen, Reading
    <3>. HIDE DEF R, S
    <3>. QED
      BY <2>3, <2>4, <2>5, <2>6, <3>1
  <2>8. CASE Writes
    <3>1. UNCHANGED <<reader, got, trails>>
      BY <2>8 DEF Writes, WriterAppend, AppendFails, WriterClose, Killed, Reading
    <3>2. IsPrefix(R, S)
      BY <1>2, <2>8, GrownKeepsReadable DEF Inv
    <3>. HIDE DEF R, S
    <3>3. CASE t = R
      <4>1. IsPrefix(got, S)
        BY <2>2, <2>3, <2>4, <3>2, <3>3, PrefixLonger
      <4>. QED
        BY <2>5, <2>6, <3>1, <4>1
    <3>4. CASE t \in trails
      BY <2>4, <2>5, <2>6, <3>1, <3>4
    <3>. QED
      BY <2>4, <3>3, <3>4
  <2>9. CASE Reads
    <3>1. UNCHANGED <<file, trails>>
      BY <2>9, ReadsLeaveFile DEF Writer
    <3>2. S = R
      BY <3>1
    <3>. HIDE DEF R, S
    <3>3. CASE ReaderOpen
      <4>1. got' = <<>> /\ reader'.at = 0 /\ reader'.last = <<>>
        BY <3>3 DEF ReaderOpen
      <4>2. IsPrefix(got', S)
        BY <2>3, <4>1, PrefixEmpty
      <4>. QED
        BY <2>5, <3>1, <4>1, <4>2, EmptySequences DEF Scan, ReadsOneTrail, S
    <3>4. CASE ReaderNext
      <4>. DEFINE k == reader.at + 1
                  c == file[k].rec.content
      <4>1. /\ reader.at < Len(file) /\ Accepts(file[k])
            /\ reader'.at = reader.at + 1 /\ reader'.last = Hash(file[k].rec)
            /\ got' = Append(got, c)
        <5>1. /\ reader' = [reader EXCEPT
                           !.at = @ + 1, !.last = Hash(file[k].rec),
                           !.st = IF StopsAt(reader.who, c) THEN "limit" ELSE @]
              /\ reader.at < Len(file) /\ Accepts(file[k]) /\ got' = Append(got, c)
          BY <3>4 DEF ReaderNext
        <5>2. reader = [who |-> reader.who, at |-> reader.at, last |-> reader.last,
                        st |-> reader.st]
          BY <1>2 DEF Inv, Types
        <5>. HIDE DEF k, c
        <5>. QED
          BY <5>1, <5>2
      <4>2. IsPrefix(Append(got, c), R)
        BY <1>2, <4>1, AcceptedContinues DEF Scan, R
      <4>3. file[k].rec.prev = got
        BY <1>2, <4>1 DEF Accepts, Chained, Scan
      <4>4. reader'.last = got'
        BY <4>1, <4>3 DEF Hash
      <4>5. c \in Contents
        <5>1. reader.at \in Nat /\ Len(file) \in Nat
          BY <1>2, <2>2 DEF Scan
        <5>2. k \in 1 .. Len(file)
          BY <4>1, <5>1
        <5>3. file[k] \in Chunk
          BY <2>2, <5>2
        <5>. QED
          BY <5>3 DEF Chunk, Rec
      <4>6. reader'.at = Len(got')
        <5>. HIDE DEF c, k
        <5>. QED
          BY <1>2, <2>2, <4>1, <4>5 DEF Scan
      <4>7. IsPrefix(got', S)
        BY <3>2, <4>1, <4>2
      <4>. QED
        BY <2>5, <3>1, <4>4, <4>6, <4>7 DEF Scan, ReadsOneTrail, S
    <3>5. CASE ReaderEnds
      <4>1. UNCHANGED got /\ \E s : reader' = [reader EXCEPT !.st = s]
        BY <3>5 DEF ReaderEnds
      <4>2. reader'.at = reader.at /\ reader'.last = reader.last
        BY <1>2, <4>1 DEF Inv, Types
      <4>3. \E u \in trails' \cup {S} : IsPrefix(got', u)
        BY <2>4, <3>1, <3>2, <4>1
      <4>. QED
        BY <1>2, <2>5, <3>1, <4>1, <4>2, <4>3 DEF Scan, ReadsOneTrail, S
    <3>. QED
      BY <2>9, <3>3, <3>4, <3>5 DEF Reads
  <2>10. CASE UNCHANGED vars
    <3>1. UNCHANGED <<file, trails, reader, got>>
      BY <2>10 DEF vars
    <3>. QED
      BY <1>2, <3>1 DEF Scan, ReadsOneTrail
  <2>. QED
    BY <1>2, <2>7, <2>8, <2>9, <2>10, StepCases
<1>. QED
  BY <1>1, <1>2

-----------------------------------------------------------------------------
(* The theorems.                                                              *)
LEMMA InvHolds ==
    Spec => [](Inv /\ Scan)
<1>1. Init => Inv /\ Scan
  BY JournalAssumption, TypesHold, ChainHolds, ScanHolds DEF Inv
<1>2. Inv /\ Scan /\ [Next]_vars => (Inv /\ Scan)'
  BY JournalAssumption, TypesHold, ChainHolds, ScanHolds DEF Inv
<1>. QED
  BY <1>1, <1>2, PTL DEF Spec

LEMMA InvTypes ==
    ASSUME Inv
    PROVE  TypeOK
<1>1. /\ MaxChunks \in Nat /\ file \in Seq(Chunk) /\ buf \in Seq(Queue)
      /\ Len(file) \in Nat /\ Len(file) <= MaxChunks
      /\ last \in Seq(Contents) /\ Len(last) \in Nat /\ next = Len(last) + 1
      /\ Len(last) <= Len(file)
  BY JournalAssumption, RoomFile DEF Inv, JournalAssumption, Types, Queued, Chain, Behind
<1>2. ASSUME NEW r \in Rec, r.seq <= MaxChunks + 1
      PROVE  r \in RecordSet
  BY <1>1, <1>2 DEF Rec, RecordSet
<1>3. ASSUME NEW i \in 1 .. Len(file)
      PROVE  file[i] \in [rec : RecordSet, whole : BOOLEAN]
  <2>1. file[i] \in Chunk
    BY <1>1
  <2>2. file[i].rec.seq <= i /\ file[i].rec \in Rec /\ file[i].rec.seq \in Nat
    BY <2>1 DEF Inv, Chain, Linked, Chunk, Rec
  <2>3. file[i].rec.seq <= MaxChunks + 1
    BY <1>1, <2>2
  <2>. QED
    BY <1>2, <2>1, <2>2, <2>3 DEF Chunk
<1>4. ASSUME NEW k \in 1 .. Len(buf)
      PROVE  buf[k] \in [rec : RecordSet, cut : BOOLEAN, begun : BOOLEAN]
  <2>1. buf[k] \in Queue
    BY <1>1
  <2>2. buf[k].rec.seq = next /\ buf[k].rec \in Rec
    BY <2>1 DEF Inv, Types, Queued, Queue
  <2>3. buf[k].rec.seq <= MaxChunks + 1
    BY <1>1, <2>2
  <2>. QED
    BY <1>2, <2>1, <2>2, <2>3 DEF Queue
<1>5. file \in Seq([rec : RecordSet, whole : BOOLEAN])
  BY <1>1, <1>3, Retyped
<1>6. buf \in Seq([rec : RecordSet, cut : BOOLEAN, begun : BOOLEAN])
  BY <1>1, <1>4, Retyped
<1>. QED
  BY <1>5, <1>6 DEF Inv, Types, TypeOK

(* Every variable stays in its type, whatever is written, fails or is killed; *)
(* no record gets a number beyond the chunks there is room for                *)
(* (spg_journal_writer_append moves number and hash together or not at all).  *)
THEOREM TypeCorrect ==
    Spec => []TypeOK
<1>1. Inv => TypeOK
  BY InvTypes
<1>. QED
  BY <1>1, InvHolds, PTL

(* What spg_journal_writer_append acknowledged can be read back, as long as   *)
(* no append failed before it: whatever fails later, and wherever the writer  *)
(* is killed.                                                                 *)
THEOREM AcknowledgedSurvive ==
    Spec => []AckedSurvive
<1>1. ASSUME Inv PROVE AckedSurvive
  <2>1. /\ file \in Seq(Chunk) /\ Linked(file) /\ trusted \in Seq(Contents)
        /\ Holds(file, trusted)
    BY <1>1 DEF Inv, Types, Chain, Acked
  <2>. QED
    BY <2>1, HeldIsReadable DEF AckedSurvive
<1>. QED
  BY <1>1, InvHolds, PTL

(* A reader that scans while the journal is truncated and written again never *)
(* returns a mix of two journals (the comparison of prev_hash in              *)
(* spg_journal_reader_next).                                                  *)
THEOREM ScansReadOneTrail ==
    Spec => []ReadsOneTrail
<1>1. Scan => ReadsOneTrail
  BY DEF Scan
<1>. QED
  BY <1>1, InvHolds, PTL

LEMMA ScanEndsComplete ==
    ASSUME Inv, Scan, [Next]_vars
    PROVE  EndsComplete("audit")
<1>. DEFINE R == Readable(file)
            n == Len(got)
<1>. SUFFICES ASSUME reader.who = "audit", reader.st = "reading",
                     reader'.st # "reading", IsPrefix(got, R)
              PROVE  got' = R
  BY DEF EndsComplete
<1>1. /\ file \in Seq(Chunk) /\ Linked(file) /\ got \in Seq(Contents) /\ n \in Nat
      /\ reader.at = n /\ reader.last = got /\ Len(file) \in Nat
  BY DEF Inv, Types, Chain, Scan
<1>2. /\ R \in Seq(Contents) /\ Len(R) \in 0 .. Len(file)
      /\ \A i \in 1 .. Len(R) : R[i] = file[i].rec.content /\ Ok(file, i)
  BY <1>1, CountMeans, ReadableMeans
<1>3. n <= Len(R) /\ \A i \in 1 .. n : got[i] = R[i]
  BY <1>1, <1>2, PrefixMeans
<1>. HIDE DEF R, n
<1>4. ReaderEnds
  <2>1. ~ReaderNext
    <3>. SUFFICES ASSUME ReaderNext PROVE FALSE
      OBVIOUS
    <3>. DEFINE c == file[reader.at + 1].rec.content
    <3>1. reader' = [reader EXCEPT
                       !.at = @ + 1, !.last = Hash(file[reader.at + 1].rec),
                       !.st = IF StopsAt(reader.who, c) THEN "limit" ELSE @]
      BY DEF ReaderNext
    <3>2. ~StopsAt(reader.who, c)
      BY DEF StopsAt
    <3>3. reader'.st = reader.st
      <4>. HIDE DEF c
      <4>1. reader = [who |-> reader.who, at |-> reader.at, last |-> reader.last,
                      st |-> reader.st]
        BY DEF Inv, Types
      <4>. QED
        BY <3>1, <3>2, <4>1
    <3>. QED
      BY <3>3
  <2>2. ~ReaderOpen
    BY DEF ReaderOpen
  <2>3. ~UNCHANGED reader
    OBVIOUS
  <2>4. ~WriterOpen /\ ~Writes
    BY <2>3 DEF WriterOpen, Writes, WriterAppend, AppendFails, WriterClose, Killed, Reading
  <2>. QED
    BY <2>1, <2>2, <2>3, <2>4, StepCases DEF Reads, vars
<1>5. got' = got
  BY <1>4 DEF ReaderEnds
<1>6. Len(R) <= n
  <2>1. CASE reader.at >= Len(file)
    BY <1>1, <1>2, <2>1
  <2>2. CASE reader.at < Len(file) /\ ~Accepts(file[reader.at + 1])
    <3>. SUFFICES ASSUME n < Len(R) PROVE FALSE
      BY <1>1, <1>2
    <3>. DEFINE k == n + 1
                p == file[k].rec.prev
    <3>1. k \in 1 .. Len(R) /\ k \in 1 .. Len(file) /\ reader.at + 1 = k
      BY <1>1, <1>2
    <3>2. k = n + 1
      OBVIOUS
    <3>. HIDE DEF k
    <3>3. file[k].whole /\ file[k].rec.seq = k
      BY <1>2, <3>1 DEF Ok, Chained
    <3>4. Links(file, k)
      BY <1>1, <3>1, <3>3 DEF Linked
    <3>5. p \in Seq(Contents)
      <4>1. file[k] \in Chunk
        BY <1>1, <3>1
      <4>. QED
        BY <4>1 DEF Chunk, Rec
    <3>6. Len(p) = n
      BY <1>1, <3>2, <3>4 DEF Links
    <3>7. \A j \in 1 .. n : j \in 1 .. (k - 1) /\ j \in 1 .. Len(R)
      BY <1>1, <1>2, <1>3, <3>2
    <3>8. \A j \in 1 .. n : p[j] = got[j]
      BY <1>2, <1>3, <3>4, <3>7 DEF Links
    <3>. HIDE DEF p
    <3>9. p = got
      BY <1>1, <3>5, <3>6, <3>8, SeqEqual DEF n
    <3>. QED
      BY <1>1, <2>2, <3>1, <3>3, <3>9 DEF Accepts, Chained, p
  <2>. QED
    BY <1>4, <2>1, <2>2 DEF ReaderEnds
<1>7. got = R
  <2>1. Len(got) = Len(R) /\ \A i \in 1 .. Len(got) : got[i] = R[i]
    BY <1>1, <1>2, <1>3, <1>6 DEF n
  <2>. QED
    BY <1>1, <1>2, <2>1, SeqEqual
<1>. QED
  BY <1>5, <1>7 DEF R

(* A scan of verify-journal, replay or the evaluator has returned every       *)
(* readable record when it ends: neither a payload too large for its buffer   *)
(* nor a record appended meanwhile ends it early.                             *)
THEOREM AuditsComplete ==
    Spec => AuditComplete
<1>1. Inv /\ Scan /\ [Next]_vars => [EndsComplete("audit")]_vars
  BY ScanEndsComplete
<1>. QED
  BY <1>1, InvHolds, PTL DEF Spec, AuditComplete

LEMMA WritesExtend ==
    ASSUME Inv, Writes
    PROVE  \/ Readable(file') = Readable(file)
           \/ \E c \in Contents : Readable(file') = Append(Readable(file), c)
<1>. DEFINE R == Readable(file)
            S == Readable(file')
            n == Len(R)
<1>1. /\ Types /\ Chain /\ Types' /\ Chain' /\ Grown(file, file', next, last)
      /\ IsPrefix(R, S)
  BY JournalAssumption, WritesTypes, WritesChain, WritesWrote, GrownKeepsReadable DEF Inv, Wrote
<1>2. file \in Seq(Chunk) /\ file' \in Seq(Chunk) /\ Linked(file) /\ Linked(file')
  BY <1>1 DEF Types, Chain
<1>3. R \in Seq(Contents) /\ S \in Seq(Contents) /\ Len(R) = Count(file)
      /\ Len(S) = Count(file')
  BY <1>2, ReadableMeans
<1>4. Len(S) <= Len(R) + 1
  BY <1>1, <1>2, <1>3, GrownByOne
<1>. HIDE DEF R, S
<1>5. n \in Nat /\ Len(S) \in Nat /\ n <= Len(S) /\ \A i \in 1 .. n : R[i] = S[i]
  BY <1>1, <1>3, PrefixMeans
<1>6. CASE Len(S) = n
  <2>1. S = R
    BY <1>3, <1>5, <1>6, SeqEqual
  <2>. QED
    BY <2>1 DEF R, S
<1>7. CASE Len(S) = n + 1
  <2>. DEFINE c == S[n + 1]
              T == Append(R, c)
  <2>1. c \in Contents
    BY <1>3, <1>5, <1>7
  <2>. HIDE DEF c
  <2>2. T \in Seq(Contents) /\ Len(T) = n + 1 /\ T[n + 1] = c
        /\ \A i \in 1 .. n : T[i] = R[i]
    BY <1>3, <1>5, <2>1
  <2>3. \A i \in 1 .. (n + 1) : i \in 1 .. n \/ i = n + 1
    BY <1>5
  <2>. HIDE DEF T
  <2>4. \A i \in 1 .. (n + 1) : S[i] = T[i]
    BY <1>5, <2>2, <2>3 DEF c
  <2>5. S = T
    BY <1>3, <1>7, <2>2, <2>4, SeqEqual
  <2>. QED
    BY <2>1, <2>5 DEF R, S, T
<1>. QED
  BY <1>3, <1>4, <1>5, <1>6, <1>7

LEMMA EmptyReadable ==
    Readable(<<>>) = <<>>
<1>1. Readable(<<>>) \in Seq(Contents) /\ Len(Readable(<<>>)) = Count(<<>>)
  BY EmptySequences, ReadableMeans
<1>2. Count(<<>>) \in 0 .. Len(<<>>)
  BY EmptySequences, CountMeans
<1>3. Len(Readable(<<>>)) = 0
  BY <1>1, <1>2, EmptySequences
<1>. QED
  BY <1>1, <1>3

(* The journal implements AuditTrail: what can be read back only grows at its *)
(* end, one record at a time, until the journal is opened again. No failed    *)
(* append, buffered entry or killed writer makes two records readable in one  *)
(* step, or takes one back.                                                   *)
THEOREM JournalIsTrail ==
    Spec => TrailGrows
<1>1. Init => Trail!Init
  BY EmptyReadable DEF Init, Trail!Init
<1>2. ASSUME Inv, [Next]_vars
      PROVE  [Trail!Extend \/ Trail!Restart]_(Readable(file))
  <2>1. CASE WriterOpen
    <3>1. Readable(file') = <<>>
      BY <2>1, EmptyReadable DEF WriterOpen
    <3>2. Trail!Restart
      BY <3>1 DEF Trail!Restart
    <3>. QED
      BY <3>2
  <2>2. CASE Writes
    <3>1. Readable(file') = Readable(file) \/ Trail!Extend
      BY <1>2, <2>2, WritesExtend DEF Trail!Extend
    <3>. QED
      BY <3>1
  <2>3. CASE Reads
    BY <2>3, ReadsLeaveFile DEF Writer
  <2>4. CASE UNCHANGED vars
    BY <2>4 DEF vars
  <2>. QED
    BY <1>2, <2>1, <2>2, <2>3, <2>4, StepCases
<1>3. [](Inv /\ Scan) => []Inv
  BY PTL
<1>. QED
  BY <1>1, <1>2, InvHolds, PTL DEF Spec, TrailGrows, Trail!Spec

=============================================================================
