------------------------------ MODULE MemStore ------------------------------
(***************************************************************************)
(* The persistent memory: one file per slug, the lines of the generated     *)
(* MEMORY.md and the index each open store keeps in RAM                     *)
(* (src/memory/mem_store.c), with its writers: the memory executor and the  *)
(* chat tool, which are the model's, the `memory' command                   *)
(* (src/memory/mem_command.c) and preferences (src/memory/pref.c).          *)
(*                                                                          *)
(* Slugs are numbers and strcmp is <. A file is its description and its     *)
(* "updated" counter; a body follows its description. Each process has one  *)
(* store; processes share the directory. The write of a temporary file is   *)
(* one step, so are a rename, a scan and the rewrite of MEMORY.md; any      *)
(* write may fail, a scan may miss files or not read one it finds, and a    *)
(* process may die between two steps.                                       *)
(***************************************************************************)
EXTENDS Integers, Sequences, FiniteSets, FiniteSetsExt

CONSTANTS
    Slugs,     \* valid slugs
    Reserved,  \* lesson-, skill- and pref- slugs
    Descs,     \* descriptions
    NoText,    \* the empty one, which read_meta also gives of a file it cannot read
    NoDesc,    \* no file
    Kept,      \* what the files earlier runs left may hold
    Procs,     \* processes with a store on the directory
    Readers,   \* those that show their model the index; the `memory' command may not
    Writes,    \* per process: the slugs it saves and deletes
    MaxFiles,  \* SPG_MEM_MAX_FILES
    TopK,      \* SPG_MEM_INDEX_TOPK
    MaxOps     \* bound: saves and deletes of all processes

ASSUME StoreAssumption ==
    /\ Slugs \subseteq Nat /\ IsFiniteSet(Slugs) /\ Reserved \subseteq Slugs
    /\ NoDesc \notin Descs /\ NoText \in Descs /\ Kept \subseteq [desc : Descs, upd : Nat]
    /\ IsFiniteSet(Procs) /\ Procs # {}
    /\ Writes \in [Procs -> SUBSET Slugs]
    /\ MaxFiles \in Nat \ {0} /\ TopK \in Nat /\ MaxOps \in Nat

VARIABLES
    files,   \* per slug: <slug>.md
    tmp,     \* per slug: <slug>.md.tmp
    op,      \* per process: the operation it is in
    cache,   \* per process: index_valid and index_cache
    ops,     \* operations begun
    foreign, \* history: processes whose cache another process outdated
    alone,   \* history: processes whose operation overlapped with no other
    blind    \* history: slugs a save made though the directory was full

vars == <<files, tmp, op, cache, ops, foreign, alone, blind>>

Absent == [desc |-> NoDesc, upd |-> 0]
Unread == [desc |-> NoText, upd |-> 0]
Files  == [Slugs -> [desc : Descs \cup {NoDesc}, upd : Nat]]

Present(f) == {s \in Slugs : f[s].desc # NoDesc}

Idle == [pc |-> "idle", kind |-> "none", slug |-> 0, desc |-> NoDesc,
         upd |-> 0, lines |-> <<>>, clear |-> TRUE]

Cold == [valid |-> FALSE, lines |-> <<>>, more |-> 0, clear |-> TRUE]

(* The directory as earlier runs left it. *)
Init ==
    /\ files \in {f \in [Slugs -> {Absent} \cup Kept] :
                    Cardinality(Present(f)) <= MaxFiles}
    /\ tmp = [s \in Slugs |-> Absent]
    /\ op = [p \in Procs |-> Idle]
    /\ cache = [p \in Procs |-> Cold]
    /\ ops = 0
    /\ foreign = {} /\ alone = {} /\ blind = {}

-----------------------------------------------------------------------------
(* Scans.                                                                   *)

(* Higher "updated" first, slug ascending as the tiebreak.                  *)
entry_before(f, a, b) == \/ f[a].upd > f[b].upd
                         \/ f[a].upd = f[b].upd /\ a < b

Rank(f, S, s) == 1 + Cardinality({t \in S : entry_before(f, t, s)})

(* The files found, most recently updated first. *)
collect_by_recency(f, S) ==
    [i \in 1..Cardinality(S) |->
        LET s == CHOOSE s \in S : Rank(f, S, s) = i
        IN  [slug |-> s, desc |-> f[s].desc]]

(* readdir stops at MaxFiles files, in no particular order; it may end      *)
(* early, and a directory that cannot be opened gives none.                 *)
Scans(f) == {S \in SUBSET Present(f) : Cardinality(S) <= MaxFiles}

(* What read_meta makes of the files found: one that cannot be opened stays  *)
(* in the list, without description and with the counter 0.                 *)
Readings(f, S) ==
    {[s \in Slugs |-> IF s \in U THEN Unread ELSE f[s]] : U \in SUBSET S}

(* The scan found what it has room for, and read it. *)
Clear(f, S, g) ==
    g = f /\ Cardinality(S) = Min({MaxFiles, Cardinality(Present(f))})

Listing(f) == collect_by_recency(f, Present(f))

(* What a reader is told of the directory without the index: the slugs in   *)
(* order and the description of one of them.                                *)
spg_mem_list(f) ==
    [i \in 1..Cardinality(Present(f)) |->
        CHOOSE s \in Present(f) : Cardinality({t \in Present(f) : t <= s}) = i]

spg_mem_directive(f, s) == f[s].desc

UpsertKept(lines, s, d) == <<[slug |-> s, desc |-> d]>> \o lines

(* The lines without the one of s; a scan has at most one for a slug.       *)
Without(lines, s) ==
    IF \A i \in DOMAIN lines : lines[i].slug # s THEN lines
    ELSE LET k == CHOOSE k \in DOMAIN lines : lines[k].slug = s
         IN  SubSeq(lines, 1, k - 1) \o SubSeq(lines, k + 1, Len(lines))

(* The lines of a save: its own first, then the scanned ones without it.    *)
Upsert(lines, s, d) == <<[slug |-> s, desc |-> d]>> \o Without(lines, s)

-----------------------------------------------------------------------------
(* Operations.                                                              *)
At(p, pc) == op[p].pc = pc
Goto(p, pc) == op' = [op EXCEPT ![p].pc = pc]
Return(p) == op' = [op EXCEPT ![p] = Idle]

Begin(p, kind, s, d) ==
    /\ At(p, "idle") /\ ops < MaxOps
    /\ op' = [op EXCEPT ![p] = [Idle EXCEPT !.pc = "start", !.kind = kind,
                                            !.slug = s, !.desc = d]]
    /\ ops' = ops + 1
    /\ alone' = IF \A q \in Procs : At(q, "idle") THEN {p} ELSE {}
    /\ UNCHANGED <<files, tmp, cache, foreign, blind>>

(* The model-facing forms refuse the reserved slugs, the ones of the        *)
(* `memory' command and of the learning loop do not.                        *)
spg_mem_save(p) ==
    \E s \in Writes[p] \ Reserved, d \in Descs : Begin(p, "save", s, d)

spg_mem_delete(p) ==
    \E s \in Writes[p] \ Reserved : Begin(p, "delete", s, NoDesc)

CommandSave(p) ==
    \E s \in Writes[p], d \in Descs : Begin(p, "save", s, d)

CommandDelete(p) ==
    \E s \in Writes[p] : Begin(p, "delete", s, NoDesc)

spg_pref_should_write(evidence, count) ==
    \/ evidence = "repeated" /\ count >= 2
    \/ evidence = "correction" /\ count >= 1

spg_pref_record(p) ==
    \E s \in Writes[p] \cap Reserved, d \in Descs,
       evidence \in {"asserted", "repeated", "correction"}, count \in 0..2 :
        spg_pref_should_write(evidence, count) /\ Begin(p, "save", s, d)

Top(g, S) == IF S = {} THEN 0 ELSE Max({g[s].upd : s \in S})

ListScan(p, pc, n, S, g) ==
    op' = [op EXCEPT ![p].pc = pc, ![p].upd = n,
                     ![p].lines = collect_by_recency(g, S),
                     ![p].clear = Clear(files, S, g)]

SaveScanUncounted(p) ==
    /\ At(p, "start") /\ op[p].kind = "save"
    /\ \E S \in Scans(files) : \E g \in Readings(files, S) : ListScan(p, "write", Top(g, S) + 1, S, g)
    /\ UNCHANGED <<files, tmp, cache, ops, foreign, alone, blind>>

(* One scan gives the lines, the count and the highest counter. A full      *)
(* directory of which it misses a file has room.                            *)
SaveScan(p) ==
    /\ At(p, "start") /\ op[p].kind = "save"
    /\ \E S \in Scans(files) : \E g \in Readings(files, S) :
          LET new  == op[p].slug \notin Present(files)
              full == Cardinality(Present(files)) >= MaxFiles
          IN  IF new /\ Cardinality(S) >= MaxFiles THEN Return(p) /\ UNCHANGED blind
              ELSE /\ ListScan(p, "write", Top(g, S) + 1, S, g)
                   /\ blind' = IF new /\ full THEN blind \cup {op[p].slug} ELSE blind
    /\ UNCHANGED <<files, tmp, cache, ops, foreign, alone>>

SaveInPlace(p) ==
    /\ At(p, "write")
    /\ \E d \in Descs : files' = [files EXCEPT ![op[p].slug] = [desc |-> d, upd |-> op[p].upd]]
    /\ op' = [op EXCEPT ![p].pc = "rename"]
    /\ tmp' = [tmp EXCEPT ![op[p].slug] = [desc |-> op[p].desc, upd |-> op[p].upd]]
    /\ UNCHANGED <<cache, ops, foreign, alone, blind>>

(* fopen, fprintf or fclose may fail; the last two remove the file.         *)
SaveWrite(p) ==
    /\ At(p, "write")
    /\ \/ /\ tmp' = [tmp EXCEPT ![op[p].slug] = [desc |-> op[p].desc, upd |-> op[p].upd]]
          /\ Goto(p, "rename")
       \/ tmp' = [tmp EXCEPT ![op[p].slug] = Absent] /\ Return(p)
       \/ UNCHANGED tmp /\ Return(p)
    /\ UNCHANGED <<files, cache, ops, foreign, alone, blind>>

Mutated(p) == foreign' = foreign \cup {q \in Procs \ {p} : cache[q].valid}

SaveRename(p) ==
    /\ At(p, "rename")
    /\ tmp' = [tmp EXCEPT ![op[p].slug] = Absent]
    /\ \/ /\ tmp[op[p].slug] # Absent
          /\ files' = [files EXCEPT ![op[p].slug] = tmp[op[p].slug]]
          /\ op' = [op EXCEPT ![p].pc = "index",
                              ![p].lines = Upsert(@, op[p].slug, op[p].desc)]
          /\ Mutated(p)
       \/ Return(p) /\ UNCHANGED <<files, foreign>>
    /\ UNCHANGED <<cache, ops, alone, blind>>

(* The file is looked for and removed; remove may fail.                     *)
DeleteExists(p) ==
    /\ At(p, "start") /\ op[p].kind = "delete"
    /\ IF op[p].slug \in Present(files) THEN Goto(p, "remove") ELSE Return(p)
    /\ UNCHANGED <<files, tmp, cache, ops, foreign, alone, blind>>

DeleteRemove(p) ==
    /\ At(p, "remove")
    /\ \/ /\ op[p].slug \in Present(files)
          /\ files' = [files EXCEPT ![op[p].slug] = Absent]
          /\ Goto(p, "rescan") /\ Mutated(p)
       \/ Return(p) /\ UNCHANGED <<files, foreign>>
    /\ UNCHANGED <<tmp, cache, ops, alone, blind>>

regenerate_index(p) ==
    /\ At(p, "rescan")
    /\ \E S \in Scans(files) : \E g \in Readings(files, S) : ListScan(p, "index", 0, S, g)
    /\ UNCHANGED <<files, tmp, cache, ops, foreign, alone, blind>>

WriteIndexKeepsCache(p) ==
    /\ At(p, "index")
    /\ Return(p)
    /\ UNCHANGED <<files, tmp, cache, ops, foreign, alone, blind>>

(* op[p].lines become MEMORY.md, which no code reads; the operation succeeds *)
(* whether or not it could be written. The store's cache is dropped.        *)
write_index(p) ==
    /\ At(p, "index")
    /\ cache' = [cache EXCEPT ![p] = Cold]
    /\ foreign' = foreign \ {p}
    /\ Return(p)
    /\ UNCHANGED <<files, tmp, ops, alone, blind>>

(* spg_mem_index serves the cache and rebuilds it when it is not valid.     *)
rebuild_index_cache(p) ==
    /\ p \in Readers /\ At(p, "idle") /\ ~cache[p].valid
    /\ \E S \in Scans(files) : \E g \in Readings(files, S) :
          LET n == Cardinality(S)
          IN  cache' = [cache EXCEPT ![p] =
                  [valid |-> TRUE, more |-> IF n > TopK THEN n - TopK ELSE 0,
                   lines |-> SubSeq(collect_by_recency(g, S), 1, Min({n, TopK})),
                   clear |-> Clear(files, S, g)]]
    /\ foreign' = foreign \ {p}
    /\ UNCHANGED <<files, tmp, op, ops, alone, blind>>

(* The process dies or exits; another one opens the directory.              *)
spg_mem_store_open(p) ==
    /\ op' = [op EXCEPT ![p] = Idle]
    /\ cache' = [cache EXCEPT ![p] = Cold]
    /\ foreign' = foreign \ {p} /\ alone' = alone \ {p}
    /\ UNCHANGED <<files, tmp, ops, blind>>

Next ==
    \E p \in Procs :
        \/ spg_mem_save(p) \/ spg_mem_delete(p)
        \/ CommandSave(p) \/ CommandDelete(p) \/ spg_pref_record(p)
        \/ SaveScan(p) \/ SaveWrite(p) \/ SaveRename(p)
        \/ DeleteExists(p) \/ DeleteRemove(p) \/ regenerate_index(p)
        \/ write_index(p) \/ rebuild_index_cache(p) \/ spg_mem_store_open(p)

Spec == Init /\ [][Next]_vars

-----------------------------------------------------------------------------
(* Properties.                                                              *)

Pcs == {"idle", "start", "write", "rename", "remove", "rescan", "index"}

Lines == Seq([slug : Slugs, desc : Descs])

(* The variables keep their types; at most one line per file is kept.       *)
TypeOK ==
    /\ files \in Files /\ tmp \in Files
    /\ op \in [Procs -> [pc : Pcs, kind : {"none", "save", "delete"},
                         slug : Slugs \cup {0}, desc : Descs \cup {NoDesc},
                         upd : Nat, lines : Lines, clear : BOOLEAN]]
    /\ cache \in [Procs -> [valid : BOOLEAN, lines : Lines, more : Nat,
                            clear : BOOLEAN]]
    /\ ops \in 0..MaxOps
    /\ foreign \subseteq Procs /\ alone \subseteq Procs /\ blind \subseteq Slugs

Fits == Cardinality(Present(files)) <= MaxFiles

(* The lines name files that are there, each with its description or, when  *)
(* it could not be read, none.                                              *)
OfFiles(lines) ==
    \A i \in DOMAIN lines :
        /\ lines[i].slug \in Present(files)
        /\ lines[i].desc \in {files[lines[i].slug].desc, NoText}

(* write_index rebuilds MEMORY.md of a save from the scan before the write  *)
(* plus the saved line, "no rescan". Unless another process wrote too, no   *)
(* line is of a memory that is gone or has a description it no longer has,  *)
(* the saved one is first, and when the scan missed nothing the lines are   *)
(* what a new one would list.                                               *)
IndexExact ==
    \A p \in alone : At(p, "index") =>
        /\ OfFiles(op[p].lines)
        /\ op[p].kind = "save" =>
              op[p].lines # <<>> /\ op[p].lines[1] = [slug |-> op[p].slug, desc |-> op[p].desc]
        /\ op[p].clear /\ Fits => op[p].lines = Listing(files)

(* spg_mem_index answers from RAM, spg_mem_list and spg_mem_directive from  *)
(* the directory. Whatever its own process saved, deleted or failed to save *)
(* since, a cached line is of a memory that is there, with the description  *)
(* of its file or none. A scan that missed files is cached like any other;  *)
(* one that missed nothing agrees with the directory until another process  *)
(* writes: its lines are of the TopK most recent memories, each with its    *)
(* description, and it counts the others.                                   *)
ReadYourWrites ==
    \A p \in Procs \ foreign :
        cache[p].valid /\ At(p, "idle") =>
            LET all  == spg_mem_list(files)
                mine == cache[p].lines
            IN  /\ OfFiles(mine)
                /\ cache[p].clear /\ Fits =>
                      /\ Len(mine) = Min({TopK, Len(all)})
                      /\ cache[p].more = Len(all) - Len(mine)
                      /\ \A i \in DOMAIN mine :
                            /\ mine[i].desc = spg_mem_directive(files, mine[i].slug)
                            /\ \A j \in DOMAIN all :
                                  files[all[j]].upd > files[mine[i].slug].upd =>
                                      \E k \in 1..(i - 1) : mine[k].slug = all[j]

(* The capacity test of spg_mem_save_reserved counts what its scan found and *)
(* is not atomic with its rename. The directory exceeds SPG_MEM_MAX_FILES by *)
(* the memories of saves whose scan missed files of a full directory, and by *)
(* one more for each process besides the first: writers that pass the test   *)
(* together.                                                                *)
Bounded ==
    Cardinality(Present(files) \ blind) <= MaxFiles + Cardinality(Procs) - 1

(* A file whose temporary was never renamed is not a memory: the store      *)
(* implements Palace, a map in which each save and delete takes effect once *)
(* or, when it answers an error, not at all, through failing writes and the *)
(* death of processes (save writes <slug>.md.tmp and renames it).           *)
P == INSTANCE Palace WITH
        palace <- [s \in Slugs |-> files[s].desc],
        phase  <- [p \in Procs |->
                      IF At(p, "idle") THEN "idle"
                      ELSE IF op[p].pc \in {"rescan", "index"} THEN "applied" ELSE "called"],
        wanted <- [p \in Procs |->
                      IF At(p, "idle") THEN [slug |-> NoDesc, desc |-> NoDesc]
                      ELSE [slug |-> op[p].slug, desc |-> op[p].desc]]

Implements == P!PSpec
=============================================================================
