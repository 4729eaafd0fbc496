------------------------------ MODULE Journal -------------------------------
(***************************************************************************)
(* The journal file (src/journal/journal.c): a writer that appends hash-    *)
(* chained records through stdio, appends that fail half way, a writer that *)
(* is killed, and readers that scan the file meanwhile: the audits          *)
(* (verify-journal, replay, chain_head, the evaluator) and the recovery of  *)
(* the machine executor.                                                    *)
(*                                                                          *)
(* The file is a sequence of chunks, one per record whose bytes reached it, *)
(* whole or torn; the bytes after a torn chunk never parse. The hash of a   *)
(* record is an injective function of its content and of the hash before    *)
(* it, so the sequence of contents up to the record stands for it.          *)
(***************************************************************************)
EXTENDS Integers, SequencesExt, FiniteSetsExt

CONSTANTS
    Contents,    \* what a record may say: kind, status, parent and payload
    Oversized,   \* contents with a payload larger than the recovery's buffer
    MaxChunks,   \* bound: chunks in the file and the buffer
    MaxOpens     \* bound: times the journal is opened for writing

ASSUME JournalAssumption ==
    /\ Contents # {} /\ Oversized \subseteq Contents
    /\ MaxChunks \in Nat /\ MaxOpens \in Nat \ {0}

VARIABLES
    up,      \* the writer is open
    next,    \* next_sequence
    last,    \* last_hash
    file,    \* the chunks in the file
    buf,     \* stdio: entries the writer was given and that are not written
    opens,   \* times the journal was opened for writing
    reader,  \* the scan in progress: who reads, records taken, hash, status
    got,     \* contents the reader has returned
    trusted, \* history: records acknowledged before the first failed append
    broken,  \* history: an append of this writer has failed
    trails   \* history: what could be read when the journal was truncated

vars == <<up, next, last, file, buf, opens, reader, got, trusted, broken,
          trails>>
Reading == <<reader, got>>

NoReader == [who |-> "none", at |-> 0, last |-> <<>>, st |-> "end"]

Init ==
    /\ up = FALSE /\ next = 1 /\ last = <<>>
    /\ file = <<>> /\ buf = <<>> /\ opens = 0
    /\ reader = NoReader /\ got = <<>>
    /\ trusted = <<>> /\ broken = FALSE /\ trails = {}

-----------------------------------------------------------------------------
(* A record under the writer's sequence number and hash (hash_record). *)
Record(c) == [seq |-> next, prev |-> last, content |-> c]

Hash(rec) == Append(rec.prev, rec.content)

(* A reader that checks each record by itself and not the chain. *)
ChainedLoosely(chunk, seq, hash) == chunk.whole

(* What spg_journal_reader_next accepts as the record number `seq' after the  *)
(* hash `hash': everything else is SPG_E_JOURNAL_CORRUPT.                     *)
Chained(chunk, seq, hash) ==
    chunk.whole /\ chunk.rec.seq = seq /\ chunk.rec.prev = hash

(* The records a reader of the whole file is given. *)
Readable(f) ==
    LET Ok(i) == Chained(f[i], i, IF i = 1 THEN <<>> ELSE Hash(f[i - 1].rec))
        n == Max({k \in 0 .. Len(f) : \A i \in 1 .. k : Ok(i)})
    IN  [i \in 1 .. n |-> f[i].rec.content]

-----------------------------------------------------------------------------
(* stdio. An entry may be cut short by a failing fwrite, and part of it may   *)
(* already be the last chunk of the file.                                     *)
Entry(c, cut) == [rec |-> Record(c), cut |-> cut, begun |-> FALSE]

Begun(es) == es # <<>> /\ Head(es).begun

(* The entries become chunks; the first completes the chunk it had begun.     *)
PutAll(f, es) ==
    LET chunks == [i \in DOMAIN es |-> [rec |-> es[i].rec, whole |-> ~es[i].cut]]
    IN  (IF Begun(es) THEN SubSeq(f, 1, Len(f) - 1) ELSE f) \o chunks

(* A write that fails after n entries and perhaps part of the next one; what  *)
(* is left stays in the buffer or is dropped, as the C library does.          *)
WriteFails(es, n) ==
    LET rest == SubSeq(es, n + 1, Len(es))
        done == PutAll(file, SubSeq(es, 1, n))
    IN  \/ /\ file' = done
           /\ buf' \in {rest, <<>>}
        \/ /\ rest # <<>> /\ ~Begun(rest)
           /\ file' = Append(done, [rec |-> Head(rest).rec, whole |-> FALSE])
           /\ buf' \in {<<[Head(rest) EXCEPT !.begun = TRUE]>> \o Tail(rest),
                        <<>>}

-----------------------------------------------------------------------------
(* spg_journal_writer_open: the file is truncated. *)
WriterOpen ==
    /\ ~up /\ opens < MaxOpens
    /\ up' = TRUE /\ opens' = opens + 1
    /\ next' = 1 /\ last' = <<>>
    /\ file' = <<>> /\ buf' = <<>>
    /\ trusted' = <<>> /\ broken' = FALSE
    /\ trails' = trails \cup {Readable(file)}
    /\ UNCHANGED Reading

HasRoom == Len(file) + Len(buf) < MaxChunks

(* An append that leaves its record to be flushed by a later one. *)
AppendedUnflushed(c) ==
    /\ buf' = Append(buf, Entry(c, FALSE))
    /\ UNCHANGED file

(* Header and payload are written and flushed before the append returns. *)
Appended(c) ==
    /\ file' = PutAll(file, Append(buf, Entry(c, FALSE)))
    /\ buf' = <<>>

(* spg_journal_writer_append *)
WriterAppend ==
    /\ up /\ HasRoom
    /\ \E c \in Contents :
          /\ Appended(c)
          /\ last' = Hash(Record(c))
          /\ trusted' = IF broken THEN trusted ELSE Append(trusted, c)
    /\ next' = next + 1
    /\ UNCHANGED <<up, opens, broken, trails, Reading>>

(* An append that fails leaves the sequence number and the hash alone. *)
SequenceKept == UNCHANGED <<next, last>>

(* stdio refused part of the record, or all of it, or the flush failed. *)
AppendFails ==
    /\ up /\ HasRoom
    /\ \E c \in Contents :
          \/ \E es \in {buf, Append(buf, Entry(c, TRUE))}, n \in 0 .. MaxChunks :
                n <= Len(es) /\ WriteFails(es, n)
          \/ LET es == Append(buf, Entry(c, FALSE))
             IN  \E n \in 0 .. Len(buf) : WriteFails(es, n)
    /\ SequenceKept
    /\ broken' = TRUE
    /\ UNCHANGED <<up, opens, trusted, trails, Reading>>

(* spg_journal_writer_close: fclose writes what is left in the buffer. *)
WriterClose ==
    /\ up /\ up' = FALSE
    /\ \/ file' = PutAll(file, buf) /\ buf' = <<>>
       \/ \E n \in 0 .. Len(buf) - 1 : WriteFails(buf, n) /\ buf' = <<>>
    /\ UNCHANGED <<next, last, opens, trusted, broken, trails, Reading>>

(* The writer is killed, perhaps in the middle of an append; its buffer is    *)
(* lost with it.                                                              *)
Killed ==
    /\ up /\ up' = FALSE
    /\ \/ UNCHANGED file
       \/ /\ HasRoom
          /\ \E c \in Contents, cut \in BOOLEAN :
                file' = PutAll(file, Append(buf, Entry(c, cut)))
    /\ buf' = <<>>
    /\ UNCHANGED <<next, last, opens, trusted, broken, trails, Reading>>

-----------------------------------------------------------------------------
(* spg_journal_reader_open *)
ReaderOpen ==
    /\ reader.st # "reading" /\ opens > 0
    /\ \E who \in {"audit", "recovery"} :
          reader' = [who |-> who, at |-> 0, last |-> <<>>, st |-> "reading"]
    /\ got' = <<>>
    /\ UNCHANGED <<up, next, last, file, buf, opens, trusted, broken, trails>>

(* A scan that ends at the first record it has no room for. *)
StopsAtAny(who, c) == c \in Oversized

(* spg_journal_reader_next answers SPG_E_LIMIT for a payload that does not    *)
(* fit: the audits go on, the recovery's loop runs while it gets SPG_OK.      *)
StopsAt(who, c) == who = "recovery" /\ c \in Oversized

(* A reader that does not compare prev_hash. *)
AcceptsUnlinked(chunk) == chunk.whole /\ chunk.rec.seq = reader.at + 1

(* The reader's next_sequence and last_hash decide. *)
Accepts(chunk) == Chained(chunk, reader.at + 1, reader.last)

(* The next record is returned, *)
ReaderNext ==
    /\ reader.st = "reading" /\ reader.at < Len(file)
    /\ LET chunk == file[reader.at + 1]
           c == chunk.rec.content
       IN  /\ Accepts(chunk)
           /\ reader' = [reader EXCEPT
                           !.at = @ + 1, !.last = Hash(chunk.rec),
                           !.st = IF StopsAt(reader.who, c) THEN "limit"
                                                            ELSE @]
           /\ got' = Append(got, c)
    /\ UNCHANGED <<up, next, last, file, buf, opens, trusted, broken, trails>>

(* or there is none (SPG_E_NOT_FOUND), or it does not verify. *)
ReaderEnds ==
    /\ reader.st = "reading"
    /\ \/ /\ reader.at >= Len(file)
          /\ reader' = [reader EXCEPT !.st = "end"]
       \/ /\ reader.at < Len(file)
          /\ ~Accepts(file[reader.at + 1])
          /\ reader' = [reader EXCEPT !.st = "corrupt"]
    /\ UNCHANGED <<up, next, last, file, buf, opens, got, trusted, broken,
                   trails>>

Next == \/ WriterOpen \/ WriterAppend \/ AppendFails \/ WriterClose \/ Killed
        \/ ReaderOpen \/ ReaderNext \/ ReaderEnds

Spec == Init /\ [][Next]_vars

-----------------------------------------------------------------------------
(* Properties.                                                                *)

RecordSet == [seq : 1 .. MaxChunks + 1, prev : Seq(Contents),
              content : Contents]

(* Every variable stays in its type, and the sequence number counts the       *)
(* records in the hash (spg_journal_writer_append moves both or neither).     *)
TypeOK ==
    /\ up \in BOOLEAN /\ broken \in BOOLEAN /\ opens \in 0 .. MaxOpens
    /\ last \in Seq(Contents) /\ next = Len(last) + 1
    /\ file \in Seq([rec : RecordSet, whole : BOOLEAN])
    /\ buf \in Seq([rec : RecordSet, cut : BOOLEAN, begun : BOOLEAN])
    /\ reader \in [who : {"none", "audit", "recovery"}, at : 0 .. MaxChunks,
                   last : Seq(Contents),
                   st : {"reading", "end", "corrupt", "limit"}]
    /\ got \in Seq(Contents) /\ trusted \in Seq(Contents)

(* A record whose append returned SPG_OK can be read back, whether the writer *)
(* was closed, killed or went on after a failure, as long as no append failed *)
(* before it (the flush in spg_journal_writer_append).                        *)
AckedSurvive == IsPrefix(trusted, Readable(file))

(* What one scan returns are the first records of one journal: never a mix of *)
(* the old and the new records of a journal that was truncated and written    *)
(* again under it (the prev_hash check of spg_journal_reader_next).           *)
ReadsOneTrail ==
    \E t \in trails \cup {Readable(file)} : IsPrefix(got, t)

(* A scan has returned every readable record when it ends, unless the journal *)
(* was truncated under it.                                                    *)
EndsComplete(who) ==
    /\ reader.who = who /\ reader.st = "reading" /\ reader'.st # "reading"
    /\ IsPrefix(got, Readable(file))
    => got' = Readable(file)

(* No audit ends early: neither an oversized payload nor a record appended    *)
(* meanwhile hides records from verify-journal, replay or the evaluator.      *)
AuditComplete == [][EndsComplete("audit")]_vars

(* Actions.md, the second line of defence: the recovery "pairs pauses with    *)
(* resumes" over what the journal holds.                                      *)
RecoveryComplete == [][EndsComplete("recovery")]_vars

Trail == INSTANCE AuditTrail WITH trail <- Readable(file)

(* The journal implements AuditTrail: whatever fails, the readable records    *)
(* only grow at their end, one by one, until the journal is opened again.     *)
TrailGrows == Trail!Spec
=============================================================================
